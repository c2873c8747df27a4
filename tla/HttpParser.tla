----------------------------- MODULE HttpParser -----------------------------
(***************************************************************************)
(* http_parser_execute (src/include/crow/http_parser_merged.h) and the     *)
(* callbacks of crow::HTTPParser (src/include/crow/parser.h) as operators  *)
(* on the record of one parser.  The text is a sequence of pieces, each of *)
(* which the parser reads as it reads one octet: a symbol, a digit, or a   *)
(* part of a word ("con" and "tent-length"); a piece has length 1.  A      *)
(* state has its name in the source without "s_", a header state without   *)
(* "h_".  The callbacks that lead into the connection are put in `events`. *)
(***************************************************************************)
EXTENDS Octets

CONSTANTS
  MaxHeader,  \* max_header_size
  MaxLength   \* CROW_ULLONG_MAX, which also stands for "no Content-Length"

\* A digit fits into a length.
ASSUME LimitsAssumption ==
  MaxHeader \in Nat /\ MaxLength \in Nat /\ MaxLength > 15

Space == {" ", "TAB"}
Symbols == Space \cup {"CR", "LF", ":", "/", "?", ",", ";", "*", "@", "#", "{", "}",
                       "[", "]", "\"", "."}
IsAlpha(c) == c \notin Symbols \cup Numerals
IsToken(c) == c \notin Symbols \ {"*", "."}
IsUrlChar(c) == c \notin Space \cup {"CR", "LF", "?", "#"}
IsUserinfo(c) == c \notin Space \cup {"CR", "LF", "?", "#", "/", "@", "\"", "{", "}"}

\* method_strings, the first letters of s_start_req and the table of s_req_method.
Spelling == [GET |-> <<"GET">>, HEAD |-> <<"HEAD">>, OPTIONS |-> <<"OPTIONS">>,
             CONNECT |-> <<"CONNECT">>, POST |-> <<"P", "OST">>, PUT |-> <<"P", "UT">>]
FirstMethod == [GET |-> "GET", HEAD |-> "HEAD", OPTIONS |-> "OPTIONS",
                CONNECT |-> "CONNECT", P |-> "POST"]
OtherMethod == [spelt \in {<<"POST", 1, "UT">>} |-> "PUT"]

UrlEnds == {"req_server", "req_server_with_at", "req_path", "req_query_string_start",
            "req_query_string"}
UrlStates == UrlEnds \cup {"req_schema", "req_schema_slash", "req_schema_slash_slash",
                           "req_server_start"}
BodyStates == {"chunk_data", "chunk_data_almost_done", "chunk_data_done", "body_identity"}

\* http_parser_init and the constructor of HTTPParser.
NewParser ==
  [state |-> "start_req", h |-> "general", nread |-> 0, flags |-> {}, te |-> FALSE,
   length |-> 0, method |-> "GET", index |-> 0, version |-> "0.0", upgrade |-> FALSE,
   err |-> "OK", url |-> <<>>, query |-> 0, marked |-> FALSE, headers |-> <<>>,
   building |-> 0, field |-> <<>>, value |-> <<>>, body |-> <<>>, events |-> <<>>]

\* HTTPParser::clear.  Neither nread nor what the last request left in flags
\* and in the header state is touched.
Clear(p) ==
  [p EXCEPT !.state = "start_req", !.url = <<>>, !.query = 0, !.headers = <<>>,
            !.building = 0, !.field = <<>>, !.value = <<>>, !.body = <<>>]

Fail(p, e) == [p EXCEPT !.err = e]
Go(p, s) == [p EXCEPT !.state = s]
Raise(p, e) == [p EXCEPT !.events = Append(@, e)]
-----------------------------------------------------------------------------
(* The callbacks for the text of a header. *)

\* on_header_field: a field whose value is empty is dropped when the next one
\* begins.
OnField(p, c) ==
  IF p.building = 1
  THEN [p EXCEPT !.field = Append(@, c)]
  ELSE [p EXCEPT !.headers = IF p.value = <<>> THEN @
                                               ELSE Append(@, <<p.field, p.value>>),
                 !.field = <<c>>, !.building = 1]

\* on_header_value, for the pieces in `text`.
OnValue(p, text) ==
  [p EXCEPT !.value = IF p.building = 1 THEN text ELSE @ \o text, !.building = 0]

\* on_headers_complete, without handle_header: the last field is kept, and its
\* text is moved away.
OnHeadersComplete(p) ==
  [p EXCEPT !.headers = IF p.field = <<>> THEN @ ELSE Append(@, <<p.field, p.value>>),
            !.field = <<>>, !.value = IF p.field = <<>> THEN @ ELSE <<>>]

\* set_connection_parameters.
KeepAlive(p) ==
  CASE p.version = "1.0" -> "keep_alive" \in p.flags
    [] p.version = "1.1" -> TRUE
    [] OTHER -> FALSE
CloseConnection(p) ==
  CASE p.version = "1.0" -> "keep_alive" \notin p.flags
    [] p.version = "1.1" -> "close" \in p.flags
    [] OTHER -> FALSE

\* req.url in on_url: without the query, unless the fragment with the question
\* mark is not the one that the URL began in; qs_point is then garbage.
Url(p) == IF p.query > 0 THEN SubSeq(p.url, 1, p.query) ELSE p.url
-----------------------------------------------------------------------------
(* The request line. *)

StartRequest(p, c) ==
  IF c \in {"CR", "LF"} THEN p
  ELSE LET q == [p EXCEPT !.flags = {}, !.te = FALSE, !.length = MaxLength] IN
       IF c \in DOMAIN FirstMethod
       THEN [q EXCEPT !.state = "req_method", !.method = FirstMethod[c], !.index = 1]
       ELSE Fail(q, "INVALID_METHOD")

Method(p, c) ==
  LET spelt == Spelling[p.method] IN
  CASE c = " " /\ p.index = Len(spelt) -> Go(p, "req_spaces_before_url")
    [] p.index < Len(spelt) /\ c = spelt[p.index + 1] -> [p EXCEPT !.index = @ + 1]
    [] <<p.method, p.index, c>> \in DOMAIN OtherMethod ->
         [p EXCEPT !.method = OtherMethod[<<p.method, p.index, c>>], !.index = @ + 1]
    [] OTHER -> Fail(p, "INVALID_METHOD")

\* parse_url_char.
UrlNext(s, c) ==
  LET server == {"req_server_start", "req_server", "req_server_with_at"} IN
  CASE s = "req_spaces_before_url" /\ c \in {"/", "*"} -> "req_path"
    [] s \in {"req_spaces_before_url", "req_schema"} /\ IsAlpha(c) -> "req_schema"
    [] s = "req_schema" /\ c = ":" -> "req_schema_slash"
    [] s = "req_schema_slash" /\ c = "/" -> "req_schema_slash_slash"
    [] s = "req_schema_slash_slash" /\ c = "/" -> "req_server_start"
    [] s \in server /\ c = "/" -> "req_path"
    [] s \in server \cup {"req_path"} /\ c = "?" -> "req_query_string_start"
    [] s \in server \ {"req_server_with_at"} /\ c = "@" -> "req_server_with_at"
    [] s \in server /\ IsUserinfo(c) -> "req_server"
    [] s = "req_path" /\ IsUrlChar(c) -> "req_path"
    [] s \in {"req_query_string_start", "req_query_string"}
       /\ (IsUrlChar(c) \/ c = "?") -> "req_query_string"
    [] OTHER -> "dead"

RequestUrl(p, c) ==
  IF p.state = "req_spaces_before_url" /\ c = " " THEN p
  ELSE IF p.state \in UrlEnds /\ c = " "
  THEN Raise(Go(p, "req_http_start"), "url")
  ELSE IF p.state \in UrlEnds /\ c \in {"CR", "LF"}
  THEN \* no version: HTTP/0.9, which has no method but GET
       IF p.method # "GET" THEN Fail(Go(p, "dead"), "INVALID_VERSION")
       ELSE Raise([p EXCEPT !.version = "0.9",
                            !.state = IF c = "CR" THEN "req_line_almost_done"
                                                  ELSE "header_field_start"], "url")
  ELSE LET starts == p.state = "req_spaces_before_url"
           from == IF starts /\ p.method = "CONNECT" THEN "req_server_start" ELSE p.state
           s == UrlNext(from, c)
           marked == starts \/ p.marked
       IN  IF s = "dead" THEN Fail(Go(p, s), "INVALID_URL")
           ELSE [p EXCEPT !.state = s, !.url = Append(@, c), !.marked = marked,
                          !.query = IF s # "req_query_string_start" THEN @
                                    ELSE IF marked THEN Len(p.url) ELSE -1]

Version(p, c) ==
  CASE p.state = "req_http_start" /\ c = " " -> p
    [] p.state = "req_http_start" /\ c = "HTTP/" -> Go(p, "req_http_major")
    [] p.state = "req_http_start" -> Fail(p, "INVALID_CONSTANT")
    [] p.state = "req_http_major" /\ c \in {"1.0", "1.1", "2.0"} ->
         [p EXCEPT !.version = c, !.state = "req_http_end"]
    [] p.state = "req_http_end" /\ c = "CR" -> Go(p, "req_line_almost_done")
    [] p.state \in {"req_http_end", "req_line_almost_done"} /\ c = "LF" ->
         Go(p, "header_field_start")
    [] p.state = "req_line_almost_done" -> Fail(p, "LF_EXPECTED")
    [] OTHER -> Fail(p, "INVALID_VERSION")
-----------------------------------------------------------------------------
(* The end of the headers. *)

\* Faulty: it goes on counting in the next request.
HeadersCounted(p) ==
  LET q == Go(p, "headers_done") IN
  CASE q.upgrade -> Raise(q, "message")
    [] ~q.upgrade /\ "chunked" \in q.flags -> Go(q, "chunk_size_start")
    [] ~q.upgrade /\ "chunked" \notin q.flags /\ q.te ->
         Fail(q, "INVALID_TRANSFER_ENCODING")
    [] OTHER -> IF q.length \in {0, MaxLength} THEN Raise(q, "message")
                                               ELSE Go(q, "body_identity")

\* s_headers_done: where the body begins, and how it is framed.
HeadersDone(p) ==
  LET q == [p EXCEPT !.nread = 0, !.state = "headers_done"] IN
  CASE q.upgrade -> Raise(q, "message")
    [] ~q.upgrade /\ "chunked" \in q.flags -> Go(q, "chunk_size_start")
    [] ~q.upgrade /\ "chunked" \notin q.flags /\ q.te ->
         Fail(q, "INVALID_TRANSFER_ENCODING")
    [] OTHER -> IF q.length \in {0, MaxLength} THEN Raise(q, "message")
                                               ELSE Go(q, "body_identity")

\* s_headers_almost_done; after the trailer of a chunked body it is the end of
\* the message.
HeadersAlmostDone(p, c) ==
  CASE c # "LF" -> Fail(p, "STRICT")
    [] c = "LF" /\ "trailing" \in p.flags -> Raise(p, "message")
    [] c = "LF" /\ "trailing" \notin p.flags /\ p.te /\ "length" \in p.flags ->
         Fail(p, "UNEXPECTED_CONTENT_LENGTH")
    [] OTHER ->
         HeadersDone(Raise(OnHeadersComplete(
           [p EXCEPT !.upgrade = "upgrade" \in p.flags \/ p.method = "CONNECT"]), "headers"))
-----------------------------------------------------------------------------
(* The headers. *)

\* The names that the parser looks for, and what follows the name.
NameNext == (<<"", "con">>      :> "CON")      @@ (<<"CON", "nection">>      :> "connection")
         @@ (<<"", "proxy-con">> :> "PROXY")   @@ (<<"PROXY", "nection">>    :> "connection")
         @@ (<<"CON", "tent-length">> :> "content_length")
         @@ (<<"", "transfer">> :> "TRANSFER") @@ (<<"TRANSFER", "-encoding">> :> "transfer_encoding")
         @@ (<<"", "up">>       :> "UP")       @@ (<<"UP", "grade">>         :> "upgrade")
Name(h, c) == IF <<h, c>> \in DOMAIN NameNext THEN NameNext[<<h, c>>] ELSE "general"

HeaderFieldStart(p, c) ==
  CASE c = "CR" -> Go(p, "headers_almost_done")
    [] c = "LF" -> HeadersAlmostDone(Go(p, "headers_almost_done"), c)
    [] IsToken(c) -> [OnField(p, c) EXCEPT !.state = "header_field", !.h = Name("", c)]
    [] OTHER -> Fail(p, "INVALID_HEADER_TOKEN")

\* The name of the framing header is remembered even when more text follows it.
HeaderField(p, c) ==
  CASE c = ":" -> Go(p, "header_value_discard_ws")
    [] IsToken(c) -> [OnField(p, c) EXCEPT !.h = Name(p.h, c),
                                           !.te = @ \/ Name(p.h, c) = "transfer_encoding"]
    [] OTHER -> Fail(p, "INVALID_HEADER_TOKEN")

\* s_header_value_start; `next` is the piece that follows in the fragment, and
\* "" at its end.
HeaderValueStart(p, c, next) ==
  LET q == [OnValue(p, <<c>>) EXCEPT !.state = "header_value"] IN
  CASE p.h = "upgrade" ->
         [q EXCEPT !.h = "general",
                   !.flags = IF c = "h" /\ next = "2" THEN @ ELSE @ \cup {"upgrade"}]
    [] p.h = "transfer_encoding" ->
         [q EXCEPT !.h = IF c = "chun" THEN "chun" ELSE "encoding_token"]
    [] p.h = "content_length" ->
         IF c \notin Numerals THEN Fail(q, "INVALID_CONTENT_LENGTH")
         ELSE IF "length" \in p.flags THEN Fail(q, "UNEXPECTED_CONTENT_LENGTH")
         ELSE [q EXCEPT !.flags = @ \cup {"length"}, !.length = Digit[c],
                        !.h = "content_length_num"]
    [] p.h = "connection" ->
         [q EXCEPT !.h = IF c \in {"keep", "clo"} THEN c
                         ELSE IF c \in Space THEN @ ELSE "general"]
    [] p.h \in {"encoding_token_start", "content_length_ws"} -> q
    [] OTHER -> [q EXCEPT !.h = "general"]

\* Two mutants: one that does not test, one whose test is off by one digit.
AddAnyDigit(p, base, d) == [p EXCEPT !.length = base * @ + d]
AddLastDigit(p, base, d) ==
  IF MaxLength \div base < p.length THEN Fail(p, "INVALID_CONTENT_LENGTH")
  ELSE [p EXCEPT !.length = base * @ + d]

\* The number in Content-Length, tested before it could wrap around.
AddDigit(p, base, d) ==
  IF (MaxLength - base) \div base < p.length THEN Fail(p, "INVALID_CONTENT_LENGTH")
  ELSE [p EXCEPT !.length = base * @ + d]

\* The values that the parser looks for.
ValueNext(h, c) ==
  CASE h = "encoding_token_start" /\ c \in Space -> h
    [] h = "encoding_token_start" /\ c = "chun" -> "chun"
    [] h = "encoding_token_start" /\ IsToken(c) /\ c # "chun" -> "encoding_token"
    [] h = "encoding_token" -> IF c = "," THEN "encoding_token_start" ELSE h
    [] h = "chun" -> IF c = "ked" THEN "chunked" ELSE "encoding_token"
    [] h = "chunked" -> IF c = " " THEN h ELSE "encoding_token"
    [] h = "keep" /\ c = "-alive" -> "keep_alive"
    [] h = "clo" /\ c = "se" -> "close"
    [] h \in {"keep_alive", "close"} /\ c = " " -> h
    [] OTHER -> "general"

HeaderValue(p, c) ==
  LET q == OnValue(p, <<c>>) IN
  CASE c = "CR" -> Go(p, "header_almost_done")
    [] c = "LF" -> Go(p, "header_value_lws")
    [] c \notin {"CR", "LF"} /\ p.h = "content_length_num" ->
         IF c = " " THEN [q EXCEPT !.h = "content_length_ws"]
         ELSE IF c \in Numerals THEN AddDigit(q, 10, Digit[c])
         ELSE Fail(q, "INVALID_CONTENT_LENGTH")
    [] c \notin {"CR", "LF"} /\ p.h = "content_length_ws" ->
         IF c = " " THEN q ELSE Fail(q, "INVALID_CONTENT_LENGTH")
    [] OTHER -> [q EXCEPT !.h = ValueNext(p.h, c)]

\* The states between a value and what follows it: a line that begins with
\* white space continues the value.
AfterValue(p, c, next) ==
  CASE p.state = "header_almost_done" ->
         IF c = "LF" THEN Go(p, "header_value_lws") ELSE Fail(p, "LF_EXPECTED")
    [] p.state = "header_value_lws" /\ c \in Space ->
         HeaderValueStart([p EXCEPT !.h = IF @ = "content_length_num"
                                          THEN "content_length_ws" ELSE @], c, next)
    [] p.state = "header_value_lws" /\ c \notin Space ->
         HeaderFieldStart([p EXCEPT !.flags = @ \cup ({p.h} \cap
                                       {"keep_alive", "close", "chunked"})], c)
    [] p.state = "header_value_discard_ws" ->
         IF c \in Space THEN p
         ELSE IF c = "CR" THEN Go(p, "header_value_discard_ws_almost_done")
         ELSE IF c = "LF" THEN Go(p, "header_value_discard_lws")
         ELSE HeaderValueStart(p, c, next)
    [] p.state = "header_value_discard_ws_almost_done" ->
         IF c = "LF" THEN Go(p, "header_value_discard_lws") ELSE Fail(p, "STRICT")
    [] OTHER -> \* header_value_discard_lws
         IF c \in Space THEN Go(p, "header_value_discard_ws")
         ELSE HeaderFieldStart(OnValue(p, <<>>), c)
-----------------------------------------------------------------------------
(* The body. *)

BodyIdentity(p, c) ==
  LET q == [p EXCEPT !.length = @ - 1, !.body = Append(@, c)] IN
  IF q.length = 0 THEN Raise(Go(q, "message_done"), "message") ELSE q

ChunkSize(p, c) ==
  CASE p.state = "chunk_size_start" /\ c \in DOMAIN HexDigit ->
         [p EXCEPT !.length = HexDigit[c], !.state = "chunk_size"]
    [] p.state = "chunk_size" /\ c \in DOMAIN HexDigit -> AddDigit(p, 16, HexDigit[c])
    [] p.state = "chunk_size" /\ c \in {";", " "} -> Go(p, "chunk_parameters")
    [] p.state \in {"chunk_size", "chunk_parameters"} /\ c = "CR" ->
         Go(p, "chunk_size_almost_done")
    [] p.state = "chunk_parameters" /\ c # "CR" -> p
    [] OTHER -> Fail(p, "INVALID_CHUNK_SIZE")

ChunkData(p, c) ==
  CASE p.state = "chunk_size_almost_done" /\ c = "LF" ->
         IF p.length = 0
         THEN [p EXCEPT !.nread = 0, !.flags = @ \cup {"trailing"},
                        !.state = "header_field_start"]
         ELSE [p EXCEPT !.nread = 0, !.state = "chunk_data"]
    [] p.state = "chunk_data" ->
         [p EXCEPT !.length = @ - 1, !.body = Append(@, c),
                   !.state = IF p.length = 1 THEN "chunk_data_almost_done" ELSE @]
    [] p.state = "chunk_data_almost_done" /\ c = "CR" -> Go(p, "chunk_data_done")
    [] p.state = "chunk_data_done" /\ c = "LF" ->
         [p EXCEPT !.nread = 0, !.state = "chunk_size_start"]
    [] OTHER -> Fail(p, "STRICT")
-----------------------------------------------------------------------------
\* http_parser_execute, for one piece.
Dispatch(p, c, next) ==
  CASE p.state = "dead" -> IF c \in {"CR", "LF"} THEN p ELSE Fail(p, "CLOSED_CONNECTION")
    [] p.state = "start_req" -> StartRequest(p, c)
    [] p.state = "req_method" -> Method(p, c)
    [] p.state \in UrlStates \cup {"req_spaces_before_url"} -> RequestUrl(p, c)
    [] p.state \in {"req_http_start", "req_http_major", "req_http_end",
                    "req_line_almost_done"} -> Version(p, c)
    [] p.state = "header_field_start" -> HeaderFieldStart(p, c)
    [] p.state = "header_field" -> HeaderField(p, c)
    [] p.state = "header_value" -> HeaderValue(p, c)
    [] p.state \in {"header_almost_done", "header_value_lws", "header_value_discard_ws",
                    "header_value_discard_ws_almost_done",
                    "header_value_discard_lws"} -> AfterValue(p, c, next)
    [] p.state = "headers_almost_done" -> HeadersAlmostDone(p, c)
    [] p.state \in {"chunk_size_start", "chunk_size", "chunk_parameters"} -> ChunkSize(p, c)
    [] p.state \in {"chunk_size_almost_done", "chunk_data", "chunk_data_almost_done",
                    "chunk_data_done"} -> ChunkData(p, c)
    [] OTHER -> BodyIdentity(p, c)

\* The size of the headers is counted before the piece is looked at.  When a
\* fragment ends, the URL so far goes to on_url.
Execute(p, c, next) ==
  LET q == IF p.state \in BodyStates THEN p ELSE [p EXCEPT !.nread = @ + 1]
      r == IF q.nread > MaxHeader THEN Fail(q, "HEADER_OVERFLOW") ELSE Dispatch(q, c, next)
  IN  IF next = ""
      THEN [(IF r.err = "OK" /\ r.state \in UrlStates THEN Raise(r, "url") ELSE r)
              EXCEPT !.marked = FALSE]
      ELSE r

\* A length is never the sentinel while a body is read, and never wraps around;
\* the octets of a header are counted up to the first one too many.
Counted(p) ==
  /\ p.nread \in 0..(MaxHeader + 1)
  /\ p.length \in 0..MaxLength
  /\ p.state \in {"body_identity", "chunk_data"} => p.length \in 1..(MaxLength - 1)
  /\ p.state \in {"chunk_size", "chunk_parameters", "chunk_size_almost_done"} =>
       p.length < MaxLength /\ "chunked" \in p.flags
=============================================================================
