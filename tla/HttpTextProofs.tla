---------------------------- MODULE HttpTextProofs ----------------------------
(***************************************************************************)
(* Promises about texts of any length and content.  The counters of the    *)
(* parser: wherever the fragments end, the length that is left of a body   *)
(* is never the value that stands for "no length" and never wraps around,  *)
(* and nread never passes the first octet too many.  The exchange that the *)
(* parser drives: its callbacks come in the order of a request, and every  *)
(* request is answered once, in order, whatever the router and the         *)
(* handlers do.  The names of files: nothing special is left in what       *)
(* sanitize_filename returns.  The strings of JSON: what is written as one *)
(* is read back as it was, however the text goes on.                       *)
(***************************************************************************)
EXTENDS HttpExchange, FileName, JsonText, NatFacts, SequenceTheorems, FiniteSetTheorems

HeaderStates ==
  {"header_field_start", "header_field", "header_value", "header_almost_done",
   "header_value_lws", "header_value_discard_ws", "header_value_discard_ws_almost_done",
   "header_value_discard_lws", "headers_almost_done"}
LineStates ==
  UrlStates \cup {"dead", "start_req", "req_method", "req_spaces_before_url",
                  "req_http_start", "req_http_major", "req_http_end",
                  "req_line_almost_done"}
Sized == {"chunk_size", "chunk_parameters", "chunk_size_almost_done"}
Chunked == Sized \cup {"chunk_size_start", "chunk_data", "chunk_data_almost_done",
                       "chunk_data_done"}
Ended == {"headers_done", "message_done"}

Fields == {"state", "nread", "length", "flags", "err"}

\* What holds of a parser between two pieces, and of what a piece makes of it.
Sane(r) ==
  /\ Fields \subseteq DOMAIN r
  /\ r.state \in LineStates \cup HeaderStates \cup Chunked \cup Ended \cup {"body_identity"}
  /\ r.nread \in 0..(MaxHeader + 1)
  /\ r.err = "OK" => r.nread <= MaxHeader
  /\ r.length \in 0..MaxLength
  /\ r.state \in {"body_identity", "chunk_data"} => r.length \in 1..(MaxLength - 1)
  /\ r.state \in Sized => r.length < MaxLength
  /\ r.state \in Chunked => "chunked" \in r.flags

\* Before a piece is looked at, nread has been tested.
Tested(r) == Sane(r) /\ r.nread <= MaxHeader /\ r.state \notin Ended

\* Two records that agree on the counters.
Same(p, q) ==
  /\ Fields \subseteq DOMAIN q
  /\ q.nread = p.nread /\ q.length = p.length /\ q.flags = p.flags
  /\ q.state = p.state /\ q.err = p.err
-----------------------------------------------------------------------------
(* Digits, and the helpers. *)

LEMMA DigitCorrect ==
  ASSUME NEW c \in Numerals
  PROVE  Digit[c] \in 0..9
<1>1. \E n \in 0..9 : Figures[n + 1] = c
  <2>1. DOMAIN Figures = 1..10
    BY DEF Figures
  <2>2. PICK i \in 1..10 : c = Figures[i]
    BY <2>1 DEF Numerals, ToSet
  <2>3. i - 1 \in 0..9 /\ Figures[(i - 1) + 1] = c
    BY <2>2
  <2> QED BY <2>3
<1> QED BY <1>1 DEF Digit

LEMMA NumeralsCorrect == Numerals = {"0", "1", "2", "3", "4", "5", "6", "7", "8", "9"}
<1>1. DOMAIN Figures = 1..10
  BY DEF Figures
<1>2. Numerals = {Figures[i] : i \in 1..10}
  BY <1>1 DEF Numerals, ToSet
<1> QED BY <1>2 DEF Figures

LEMMA HexDigitCorrect ==
  ASSUME NEW c \in DOMAIN HexDigit
  PROVE  HexDigit[c] \in 0..15
<1>1. c \in Numerals \cup {"a", "b", "d"}
  BY DEF HexDigit
<1>2. HexDigit[c] = CASE c = "a" -> 10 [] c = "b" -> 11 [] c = "d" -> 13
                      [] OTHER -> Digit[c]
  BY <1>1 DEF HexDigit
<1>3. CASE c \in {"a", "b", "d"}
  <2>1. HexDigit[c] \in {10, 11, 13}
    BY <1>2, <1>3
  <2> QED BY <2>1
<1>4. CASE c \notin {"a", "b", "d"}
  <2>1. HexDigit[c] = Digit[c]
    BY <1>2, <1>4
  <2>2. Digit[c] \in 0..9
    BY <1>1, <1>4, DigitCorrect
  <2> QED BY <2>1, <2>2
<1> QED BY <1>3, <1>4

LEMMA FailCorrect ==
  ASSUME NEW p, Sane(p), NEW e, e # "OK"
  PROVE  Sane(Fail(p, e))
BY DEF Sane, Fail, Fields

LEMMA RaiseCorrect ==
  ASSUME NEW p, Sane(p), NEW e
  PROVE  Sane(Raise(p, e))
BY DEF Sane, Raise, Fields

\* The states in which nothing is asked of the length.
LEMMA GoCorrect ==
  ASSUME NEW p, Sane(p), NEW s \in LineStates \cup HeaderStates \cup Ended
  PROVE  Sane(Go(p, s))
BY DEF Sane, Go, Fields, LineStates, HeaderStates, UrlStates, UrlEnds, Chunked, Sized, Ended

LEMMA FieldCorrect ==
  ASSUME NEW p, Fields \subseteq DOMAIN p, NEW c
  PROVE  Same(p, OnField(p, c))
BY DEF Same, OnField, Fields

LEMMA ValueCorrect ==
  ASSUME NEW p, Fields \subseteq DOMAIN p, NEW text
  PROVE  Same(p, OnValue(p, text))
BY DEF Same, OnValue, Fields

LEMMA CompleteCorrect ==
  ASSUME NEW p, Fields \subseteq DOMAIN p
  PROVE  Same(p, OnHeadersComplete(p))
BY DEF Same, OnHeadersComplete, Fields

LEMMA SameCorrect ==
  ASSUME NEW p, NEW q, Same(p, q), Sane(p)
  PROVE  Sane(q)
BY DEF Same, Sane

\* One more digit, decimal or hexadecimal, leaves a length below MaxLength.
LEMMA AddDigitCorrect ==
  ASSUME NEW p, Sane(p), NEW base \in {10, 16}, NEW d \in 0..(base - 1),
         p.state \notin {"body_identity", "chunk_data"}
  PROVE  Sane(AddDigit(p, base, d))
<1>1. CASE (MaxLength - base) \div base < p.length
  BY <1>1, FailCorrect DEF AddDigit
<1>2. CASE ~((MaxLength - base) \div base < p.length)
  <2>1. MaxLength \in Nat /\ MaxLength > 15 /\ p.length \in Nat
    BY LimitsAssumption DEF Sane
  <2> DEFINE n == base * p.length + d
  <2>2. n \in Nat /\ n < MaxLength
    <3>1. CASE base = 10
      BY <1>2, <2>1, <3>1
    <3>2. CASE base = 16
      BY <1>2, <2>1, <3>2
    <3> QED BY <3>1, <3>2
  <2>3. AddDigit(p, base, d) = [p EXCEPT !.length = n]
    BY <1>2 DEF AddDigit, Sane, Fields
  <2> HIDE DEF n
  <2>4. Sane([p EXCEPT !.length = n])
    BY <2>1, <2>2 DEF Sane, Fields
  <2> QED BY <2>3, <2>4
<1> QED BY <1>1, <1>2
-----------------------------------------------------------------------------
(* The request line. *)

LEMMA StartRequestCorrect ==
  ASSUME NEW p, Tested(p), NEW c, p.state = "start_req"
  PROVE  Sane(StartRequest(p, c))
<1> DEFINE q == [p EXCEPT !.flags = {}, !.te = FALSE, !.length = MaxLength]
<1>1. Sane(q)
  BY LimitsAssumption DEF Tested, Sane, Fields, Chunked, Sized
<1>2. \A m : Sane([q EXCEPT !.state = "req_method", !.method = m, !.index = 1])
  BY <1>1 DEF Sane, Fields, Chunked, Sized, LineStates
<1>3. Sane(Fail(q, "INVALID_METHOD"))
  BY <1>1, FailCorrect
<1> HIDE DEF q
<1>4. StartRequest(p, c) \in {p, Fail(q, "INVALID_METHOD")}
      \/ \E m : StartRequest(p, c) =
                  [q EXCEPT !.state = "req_method", !.method = m, !.index = 1]
  BY DEF StartRequest, q
<1> QED BY <1>2, <1>3, <1>4 DEF Tested

LEMMA MethodCorrect ==
  ASSUME NEW p, Tested(p), NEW c, p.state = "req_method"
  PROVE  Sane(Method(p, c))
<1>1. Sane(Go(p, "req_spaces_before_url"))
  BY GoCorrect DEF Tested, LineStates
<1>2. \A m, i : Sane([p EXCEPT !.index = i]) /\ Sane([p EXCEPT !.method = m, !.index = i])
  BY DEF Tested, Sane, Fields
<1>3. Sane(Fail(p, "INVALID_METHOD"))
  BY FailCorrect DEF Tested
<1> QED BY <1>1, <1>2, <1>3 DEF Method

LEMMA UrlNextCorrect ==
  ASSUME NEW s, NEW c
  PROVE  UrlNext(s, c) \in UrlStates \cup {"dead"}
BY DEF UrlNext, UrlStates, UrlEnds

LEMMA RequestUrlCorrect ==
  ASSUME NEW p, Tested(p), NEW c
  PROVE  Sane(RequestUrl(p, c))
<1>1. \A s \in LineStates \cup HeaderStates : Sane(Go(p, s))
  BY GoCorrect DEF Tested
<1>2. CASE p.state = "req_spaces_before_url" /\ c = " "
  BY <1>2 DEF RequestUrl, Tested
<1>3. CASE ~(p.state = "req_spaces_before_url" /\ c = " ")
           /\ p.state \in UrlEnds /\ c = " "
  <2>1. Sane(Raise(Go(p, "req_http_start"), "url"))
    BY <1>1, RaiseCorrect DEF LineStates
  <2> QED BY <1>3, <2>1 DEF RequestUrl
<1>4. CASE p.state \in UrlEnds /\ c \in {"CR", "LF"}
  <2>1. Sane(Fail(Go(p, "dead"), "INVALID_VERSION"))
    BY <1>1, FailCorrect DEF LineStates
  <2> DEFINE q == [p EXCEPT !.version = "0.9",
                            !.state = IF c = "CR" THEN "req_line_almost_done"
                                                  ELSE "header_field_start"]
  <2>2. Sane(q)
    BY DEF Tested, Sane, Fields, LineStates, HeaderStates, Chunked, Sized
  <2>3. Sane(Raise(q, "url"))
    BY <2>2, RaiseCorrect
  <2> QED BY <1>4, <2>1, <2>3 DEF RequestUrl, UrlEnds
<1>5. CASE ~(p.state \in UrlEnds /\ c \in {"CR", "LF"})
           /\ ~(p.state \in UrlEnds /\ c = " ")
           /\ ~(p.state = "req_spaces_before_url" /\ c = " ")
  <2>1. Sane(Fail(Go(p, "dead"), "INVALID_URL"))
    BY <1>1, FailCorrect DEF LineStates
  <2>2. \A s \in UrlStates : \A url, marked, query :
          Sane([p EXCEPT !.state = s, !.url = url, !.marked = marked, !.query = query])
    <3> SUFFICES ASSUME NEW s \in UrlStates, NEW url, NEW marked, NEW query
                 PROVE  Sane([p EXCEPT !.state = s, !.url = url, !.marked = marked,
                                       !.query = query])
      OBVIOUS
    <3> QED BY DEF Tested, Sane, Fields, LineStates, UrlStates, UrlEnds, Chunked, Sized
  <2> DEFINE starts == p.state = "req_spaces_before_url"
             from == IF starts /\ p.method = "CONNECT" THEN "req_server_start" ELSE p.state
             s == UrlNext(from, c)
             marked == starts \/ p.marked
             q == [p EXCEPT !.state = s, !.url = Append(@, c), !.marked = marked,
                            !.query = IF s # "req_query_string_start" THEN @
                                      ELSE IF marked THEN Len(p.url) ELSE -1]
  <2>3. RequestUrl(p, c) = IF s = "dead" THEN Fail(Go(p, s), "INVALID_URL") ELSE q
    BY <1>5 DEF RequestUrl
  <2>4. s \in UrlStates \cup {"dead"}
    BY UrlNextCorrect
  <2>5. ASSUME s # "dead"
        PROVE  Sane(q)
    <3>1. s \in UrlStates
      BY <2>4, <2>5
    <3> HIDE DEF s, marked
    <3> QED BY <2>2, <3>1
  <2> HIDE DEF s, q
  <2> QED BY <2>1, <2>3, <2>5
<1> QED BY <1>2, <1>3, <1>4, <1>5

LEMMA VersionCorrect ==
  ASSUME NEW p, Tested(p), NEW c
  PROVE  Sane(Version(p, c))
<1>1. \A s \in {"req_http_major", "req_line_almost_done", "header_field_start"} : Sane(Go(p, s))
  BY GoCorrect DEF Tested, LineStates, HeaderStates
<1>2. \A v : Sane([p EXCEPT !.version = v, !.state = "req_http_end"])
  BY DEF Tested, Sane, Fields, LineStates, Chunked, Sized
<1>3. \A e \in {"INVALID_CONSTANT", "LF_EXPECTED", "INVALID_VERSION"} : Sane(Fail(p, e))
  BY FailCorrect DEF Tested
<1>4. Sane(p)
  BY DEF Tested
<1> QED BY <1>1, <1>2, <1>3, <1>4 DEF Version
-----------------------------------------------------------------------------
(* The end of the headers, and their text. *)

LEMMA HeadersDoneCorrect ==
  ASSUME NEW p, Sane(p)
  PROVE  Sane(HeadersDone(p))
<1> DEFINE q == [p EXCEPT !.nread = 0, !.state = "headers_done"]
<1>1. Sane(q) /\ q.length = p.length /\ q.flags = p.flags
  BY LimitsAssumption DEF Sane, Fields, Ended, Chunked, Sized
<1>2. Sane(Raise(q, "message")) /\ Sane(Fail(q, "INVALID_TRANSFER_ENCODING"))
  BY <1>1, RaiseCorrect, FailCorrect
<1>3. ASSUME "chunked" \in q.flags
      PROVE  Sane(Go(q, "chunk_size_start"))
  BY <1>1, <1>3 DEF Sane, Go, Fields, Chunked, Sized
<1>4. ASSUME q.length \notin {0, MaxLength}
      PROVE  Sane(Go(q, "body_identity"))
  BY <1>1, <1>4, LimitsAssumption DEF Sane, Go, Fields, Chunked, Sized
<1> HIDE DEF q
<1>5. HeadersDone(p) =
        CASE q.upgrade -> Raise(q, "message")
          [] ~q.upgrade /\ "chunked" \in q.flags -> Go(q, "chunk_size_start")
          [] ~q.upgrade /\ "chunked" \notin q.flags /\ q.te ->
               Fail(q, "INVALID_TRANSFER_ENCODING")
          [] OTHER -> IF q.length \in {0, MaxLength} THEN Raise(q, "message")
                                                     ELSE Go(q, "body_identity")
  BY DEF HeadersDone, q
<1> QED BY <1>2, <1>3, <1>4, <1>5

LEMMA HeadersAlmostDoneCorrect ==
  ASSUME NEW p, Sane(p), NEW c
  PROVE  Sane(HeadersAlmostDone(p, c))
<1>1. Sane(Fail(p, "STRICT")) /\ Sane(Fail(p, "UNEXPECTED_CONTENT_LENGTH"))
  BY FailCorrect
<1>2. Sane(Raise(p, "message"))
  BY RaiseCorrect
<1> DEFINE q == [p EXCEPT !.upgrade = "upgrade" \in p.flags \/ p.method = "CONNECT"]
<1>3. Sane(q)
  BY DEF Sane, Fields
<1> HIDE DEF q
<1>4. Sane(OnHeadersComplete(q))
  <2>1. Same(q, OnHeadersComplete(q))
    BY <1>3, CompleteCorrect DEF Sane
  <2> QED BY <1>3, <2>1, SameCorrect
<1>5. Sane(HeadersDone(Raise(OnHeadersComplete(q), "headers")))
  BY <1>4, RaiseCorrect, HeadersDoneCorrect
<1>6. HeadersAlmostDone(p, c) \in
        {Fail(p, "STRICT"), Fail(p, "UNEXPECTED_CONTENT_LENGTH"), Raise(p, "message"),
         HeadersDone(Raise(OnHeadersComplete(q), "headers"))}
  BY DEF HeadersAlmostDone, q
<1> QED BY <1>1, <1>2, <1>5, <1>6

LEMMA HeaderFieldStartCorrect ==
  ASSUME NEW p, Sane(p), NEW c
  PROVE  Sane(HeaderFieldStart(p, c))
<1>1. Sane(Go(p, "headers_almost_done"))
  BY GoCorrect DEF HeaderStates
<1>2. Sane(HeadersAlmostDone(Go(p, "headers_almost_done"), c))
  BY <1>1, HeadersAlmostDoneCorrect
<1>3. Sane(OnField(p, c))
  BY FieldCorrect, SameCorrect DEF Sane
<1>4. Sane([OnField(p, c) EXCEPT !.state = "header_field", !.h = Name("", c)])
  BY <1>3 DEF Sane, Fields, HeaderStates, Chunked, Sized
<1>5. Sane(Fail(p, "INVALID_HEADER_TOKEN"))
  BY FailCorrect
<1> QED BY <1>1, <1>2, <1>4, <1>5 DEF HeaderFieldStart

LEMMA HeaderFieldCorrect ==
  ASSUME NEW p, Sane(p), NEW c
  PROVE  Sane(HeaderField(p, c))
<1>1. Sane(Go(p, "header_value_discard_ws"))
  BY GoCorrect DEF HeaderStates
<1>2. Sane(OnField(p, c))
  BY FieldCorrect, SameCorrect DEF Sane
<1>3. \A h, te : Sane([OnField(p, c) EXCEPT !.h = h, !.te = te])
  BY <1>2 DEF Sane, Fields
<1>4. Sane(Fail(p, "INVALID_HEADER_TOKEN"))
  BY FailCorrect
<1> QED BY <1>1, <1>3, <1>4 DEF HeaderField

LEMMA HeaderValueStartCorrect ==
  ASSUME NEW p, Sane(p), NEW c, NEW next
  PROVE  Sane(HeaderValueStart(p, c, next))
<1> DEFINE q == [OnValue(p, <<c>>) EXCEPT !.state = "header_value"]
<1>1. Sane(q)
  <2>1. Sane(OnValue(p, <<c>>))
    BY ValueCorrect, SameCorrect DEF Sane
  <2> QED BY <2>1 DEF Sane, Fields, HeaderStates, Chunked, Sized
<1>2. q.state = "header_value"
  <2>1. "state" \in DOMAIN OnValue(p, <<c>>)
    BY ValueCorrect DEF Sane, Same, Fields
  <2> QED BY <2>1
<1> HIDE DEF q
<1>3. \A h : Sane([q EXCEPT !.h = h])
  BY <1>1 DEF Sane, Fields
<1>4. Sane(Fail(q, "INVALID_CONTENT_LENGTH")) /\ Sane(Fail(q, "UNEXPECTED_CONTENT_LENGTH"))
  BY <1>1, FailCorrect
<1>5. ASSUME c \in Numerals
      PROVE  Sane([q EXCEPT !.flags = @ \cup {"length"}, !.length = Digit[c],
                            !.h = "content_length_num"])
  <2> DEFINE n == Digit[c]
  <2>1. n \in 0..MaxLength
    BY <1>5, DigitCorrect, LimitsAssumption
  <2> HIDE DEF n
  <2>2. Sane([q EXCEPT !.flags = @ \cup {"length"}, !.length = n,
                       !.h = "content_length_num"])
    BY <1>1, <1>2, <2>1 DEF Sane, Fields, Chunked, Sized
  <2> QED BY <2>2 DEF n
<1> QED
  <2>1. CASE p.h = "upgrade"
    <3> DEFINE flags == IF c = "h" /\ next = "2" THEN q.flags ELSE q.flags \cup {"upgrade"}
    <3>1. HeaderValueStart(p, c, next) = [q EXCEPT !.h = "general", !.flags = flags]
      BY <2>1 DEF HeaderValueStart, q
    <3> HIDE DEF flags
    <3>2. Sane([q EXCEPT !.h = "general", !.flags = flags])
      BY <1>1, <1>2 DEF Sane, Fields, Chunked, Sized
    <3> QED BY <3>1, <3>2
  <2>2. CASE p.h = "transfer_encoding"
    <3>1. HeaderValueStart(p, c, next) =
            [q EXCEPT !.h = IF c = "chun" THEN "chun" ELSE "encoding_token"]
      BY <2>2 DEF HeaderValueStart, q
    <3> QED BY <1>3, <3>1
  <2>3. CASE p.h = "content_length"
    <3>1. HeaderValueStart(p, c, next) =
            IF c \notin Numerals THEN Fail(q, "INVALID_CONTENT_LENGTH")
            ELSE IF "length" \in p.flags THEN Fail(q, "UNEXPECTED_CONTENT_LENGTH")
            ELSE [q EXCEPT !.flags = @ \cup {"length"}, !.length = Digit[c],
                           !.h = "content_length_num"]
      BY <2>3 DEF HeaderValueStart, q
    <3> QED BY <1>4, <1>5, <3>1
  <2>4. CASE p.h = "connection"
    <3>1. HeaderValueStart(p, c, next) =
            [q EXCEPT !.h = IF c \in {"keep", "clo"} THEN c
                            ELSE IF c \in Space THEN @ ELSE "general"]
      BY <2>4 DEF HeaderValueStart, q
    <3> QED BY <1>3, <3>1
  <2>5. CASE p.h \in {"encoding_token_start", "content_length_ws"}
    BY <1>1, <2>5 DEF HeaderValueStart, q
  <2>6. CASE p.h \notin {"upgrade", "transfer_encoding", "content_length", "connection",
                         "encoding_token_start", "content_length_ws"}
    <3>1. HeaderValueStart(p, c, next) = [q EXCEPT !.h = "general"]
      BY <2>6 DEF HeaderValueStart, q
    <3> QED BY <1>3, <3>1
  <2> QED BY <2>1, <2>2, <2>3, <2>4, <2>5, <2>6

LEMMA HeaderValueCorrect ==
  ASSUME NEW p, Sane(p), NEW c, p.state = "header_value"
  PROVE  Sane(HeaderValue(p, c))
<1> DEFINE q == OnValue(p, <<c>>)
<1>1. Sane(q) /\ q.state = "header_value"
  BY ValueCorrect, SameCorrect DEF Sane, Same
<1> HIDE DEF q
<1>2. \A h : Sane([q EXCEPT !.h = h])
  BY <1>1 DEF Sane, Fields
<1>3. Sane(Fail(q, "INVALID_CONTENT_LENGTH"))
  BY <1>1, FailCorrect
<1>4. ASSUME c \in Numerals
      PROVE  Sane(AddDigit(q, 10, Digit[c]))
  <2>1. Digit[c] \in 0..(10 - 1)
    BY <1>4, DigitCorrect
  <2> QED BY <1>1, <2>1, AddDigitCorrect
<1>5. Sane(Go(p, "header_almost_done")) /\ Sane(Go(p, "header_value_lws"))
  BY GoCorrect DEF HeaderStates
<1> QED BY <1>1, <1>2, <1>3, <1>4, <1>5 DEF HeaderValue, q

LEMMA AfterValueCorrect ==
  ASSUME NEW p, Sane(p), NEW c, NEW next,
         p.state \in {"header_almost_done", "header_value_lws", "header_value_discard_ws",
                      "header_value_discard_ws_almost_done", "header_value_discard_lws"}
  PROVE  Sane(AfterValue(p, c, next))
<1>1. \A s \in HeaderStates : Sane(Go(p, s))
  BY GoCorrect
<1>2. Sane(Fail(p, "LF_EXPECTED")) /\ Sane(Fail(p, "STRICT"))
  BY FailCorrect
<1>3. \A h : Sane(HeaderValueStart([p EXCEPT !.h = h], c, next))
  <2>1. \A h : Sane([p EXCEPT !.h = h])
    BY DEF Sane, Fields
  <2> QED BY <2>1, HeaderValueStartCorrect
<1>4. \A flags : Sane(HeaderFieldStart([p EXCEPT !.flags = flags], c))
  <2>1. \A flags : Sane([p EXCEPT !.flags = flags])
    BY DEF Sane, Fields, Chunked, Sized
  <2> QED BY <2>1, HeaderFieldStartCorrect
<1>5. Sane(HeaderFieldStart(OnValue(p, <<>>), c))
  <2>1. Sane(OnValue(p, <<>>))
    BY ValueCorrect, SameCorrect DEF Sane
  <2> QED BY <2>1, HeaderFieldStartCorrect
<1>6. Sane(HeaderValueStart(p, c, next))
  BY HeaderValueStartCorrect
<1> QED
  <2>1. CASE p.state \in {"header_almost_done", "header_value_discard_ws_almost_done"}
    BY <1>1, <1>2, <2>1 DEF AfterValue, HeaderStates
  <2>2. CASE p.state = "header_value_lws"
    BY <1>3, <1>4, <2>2 DEF AfterValue
  <2>3. CASE p.state = "header_value_discard_ws"
    BY <1>1, <1>6, <2>3 DEF AfterValue, HeaderStates
  <2>4. CASE p.state = "header_value_discard_lws"
    BY <1>1, <1>5, <2>4 DEF AfterValue, HeaderStates
  <2> QED BY <2>1, <2>2, <2>3, <2>4
-----------------------------------------------------------------------------
(* The body. *)

LEMMA BodyIdentityCorrect ==
  ASSUME NEW p, Tested(p), NEW c, p.state = "body_identity"
  PROVE  Sane(BodyIdentity(p, c))
<1> DEFINE q == [p EXCEPT !.length = @ - 1, !.body = Append(@, c)]
<1>1. /\ Fields \subseteq DOMAIN q /\ q.state = "body_identity" /\ q.nread = p.nread
      /\ q.err = p.err /\ q.length = p.length - 1 /\ p.length \in 1..(MaxLength - 1)
  BY DEF Tested, Sane, Fields
<1> HIDE DEF q
<1>2. CASE q.length = 0
  <2>1. Sane(Go(q, "message_done"))
    BY <1>1, <1>2, LimitsAssumption DEF Tested, Sane, Go, Fields, Ended, Chunked, Sized
  <2> QED BY <1>2, <2>1, RaiseCorrect DEF BodyIdentity, q
<1>3. CASE q.length # 0
  <2>1. Sane(q)
    BY <1>1, <1>3, LimitsAssumption DEF Tested, Sane, Fields, Chunked, Sized
  <2> QED BY <1>3, <2>1 DEF BodyIdentity, q
<1> QED BY <1>2, <1>3

LEMMA ChunkSizeCorrect ==
  ASSUME NEW p, Tested(p), NEW c,
         p.state \in {"chunk_size_start", "chunk_size", "chunk_parameters"}
  PROVE  Sane(ChunkSize(p, c))
<1>1. ASSUME c \in DOMAIN HexDigit, p.state = "chunk_size_start"
      PROVE  Sane([p EXCEPT !.length = HexDigit[c], !.state = "chunk_size"])
  <2> DEFINE n == HexDigit[c]
  <2>1. n \in 0..(MaxLength - 1)
    BY <1>1, HexDigitCorrect, LimitsAssumption
  <2> HIDE DEF n
  <2>2. Sane([p EXCEPT !.length = n, !.state = "chunk_size"])
    BY <1>1, <2>1, LimitsAssumption DEF Tested, Sane, Fields, Chunked, Sized
  <2> QED BY <2>2 DEF n
<1>2. ASSUME c \in DOMAIN HexDigit
      PROVE  Sane(AddDigit(p, 16, HexDigit[c]))
  <2>1. HexDigit[c] \in 0..(16 - 1)
    BY <1>2, HexDigitCorrect
  <2> QED BY <2>1, AddDigitCorrect DEF Tested
<1>3. ASSUME p.state \in {"chunk_size", "chunk_parameters"}
      PROVE  Sane(Go(p, "chunk_parameters")) /\ Sane(Go(p, "chunk_size_almost_done"))
  BY <1>3 DEF Tested, Sane, Go, Fields, Chunked, Sized
<1>4. Sane(Fail(p, "INVALID_CHUNK_SIZE"))
  BY FailCorrect DEF Tested
<1> QED BY <1>1, <1>2, <1>3, <1>4 DEF ChunkSize, Tested

LEMMA ChunkDataCorrect ==
  ASSUME NEW p, Tested(p), NEW c,
         p.state \in {"chunk_size_almost_done", "chunk_data", "chunk_data_almost_done",
                      "chunk_data_done"}
  PROVE  Sane(ChunkData(p, c))
<1>1. CASE p.state = "chunk_size_almost_done" /\ c = "LF"
  <2>1. Sane([p EXCEPT !.nread = 0, !.flags = @ \cup {"trailing"},
                       !.state = "header_field_start"])
    BY LimitsAssumption DEF Tested, Sane, Fields, HeaderStates, Chunked, Sized
  <2>2. ASSUME p.length # 0
        PROVE  Sane([p EXCEPT !.nread = 0, !.state = "chunk_data"])
    BY <1>1, <2>2, LimitsAssumption DEF Tested, Sane, Fields, Chunked, Sized
  <2> QED BY <1>1, <2>1, <2>2 DEF ChunkData
<1>2. CASE p.state = "chunk_data"
  <2> DEFINE q == [p EXCEPT !.length = @ - 1, !.body = Append(@, c),
                            !.state = IF p.length = 1 THEN "chunk_data_almost_done" ELSE @]
  <2>1. Sane(q)
    BY <1>2, LimitsAssumption DEF Tested, Sane, Fields, Chunked, Sized
  <2> QED BY <1>2, <2>1 DEF ChunkData
<1>3. CASE p.state = "chunk_data_almost_done" /\ c = "CR"
  <2>1. Sane(Go(p, "chunk_data_done"))
    BY <1>3 DEF Tested, Sane, Go, Fields, Chunked, Sized
  <2> QED BY <1>3, <2>1 DEF ChunkData
<1>4. CASE p.state = "chunk_data_done" /\ c = "LF"
  <2>1. Sane([p EXCEPT !.nread = 0, !.state = "chunk_size_start"])
    BY <1>4, LimitsAssumption DEF Tested, Sane, Fields, Chunked, Sized
  <2> QED BY <1>4, <2>1 DEF ChunkData
<1>5. CASE ~(p.state = "chunk_size_almost_done" /\ c = "LF") /\ p.state # "chunk_data"
           /\ ~(p.state = "chunk_data_almost_done" /\ c = "CR")
           /\ ~(p.state = "chunk_data_done" /\ c = "LF")
  <2>1. Sane(Fail(p, "STRICT"))
    BY FailCorrect DEF Tested
  <2> QED BY <1>5, <2>1 DEF ChunkData
<1> QED BY <1>1, <1>2, <1>3, <1>4, <1>5
-----------------------------------------------------------------------------
(* One piece, and all that a connection feeds. *)

LEMMA DispatchCorrect ==
  ASSUME NEW p, Tested(p), NEW c, NEW next
  PROVE  Sane(Dispatch(p, c, next))
<1>1. Sane(p) /\ p.state \in LineStates \cup HeaderStates \cup Chunked \cup {"body_identity"}
  BY DEF Tested, Sane
<1>2. CASE p.state = "dead"
  <2>1. Sane(Fail(p, "CLOSED_CONNECTION"))
    BY <1>1, FailCorrect
  <2> QED BY <1>1, <1>2, <2>1 DEF Dispatch, UrlStates, UrlEnds
<1>3. CASE p.state \in LineStates \ {"dead"}
  <2>1. Sane(RequestUrl(p, c)) /\ Sane(Version(p, c))
    BY RequestUrlCorrect, VersionCorrect
  <2>2. CASE p.state = "start_req"
    BY <2>2, StartRequestCorrect DEF Dispatch, UrlStates, UrlEnds
  <2>3. CASE p.state = "req_method"
    BY <2>3, MethodCorrect DEF Dispatch, UrlStates, UrlEnds
  <2>4. CASE p.state \in UrlStates \cup {"req_spaces_before_url"}
    BY <2>1, <2>4 DEF Dispatch, UrlStates, UrlEnds
  <2>5. CASE p.state \in {"req_http_start", "req_http_major", "req_http_end",
                          "req_line_almost_done"}
    BY <2>1, <2>5 DEF Dispatch, UrlStates, UrlEnds
  <2> QED BY <1>3, <2>2, <2>3, <2>4, <2>5 DEF LineStates
<1>4. CASE p.state \in HeaderStates
  <2>1. CASE p.state = "header_field_start"
    BY <1>1, <2>1, HeaderFieldStartCorrect DEF Dispatch, UrlStates, UrlEnds
  <2>2. CASE p.state = "header_field"
    BY <1>1, <2>2, HeaderFieldCorrect DEF Dispatch, UrlStates, UrlEnds
  <2>3. CASE p.state = "header_value"
    BY <1>1, <2>3, HeaderValueCorrect DEF Dispatch, UrlStates, UrlEnds
  <2>4. CASE p.state = "headers_almost_done"
    BY <1>1, <2>4, HeadersAlmostDoneCorrect DEF Dispatch, UrlStates, UrlEnds
  <2>5. CASE p.state \in {"header_almost_done", "header_value_lws", "header_value_discard_ws",
                          "header_value_discard_ws_almost_done", "header_value_discard_lws"}
    BY <1>1, <2>5, AfterValueCorrect DEF Dispatch, UrlStates, UrlEnds
  <2> QED BY <1>4, <2>1, <2>2, <2>3, <2>4, <2>5 DEF HeaderStates
<1>5. CASE p.state \in {"chunk_size_start", "chunk_size", "chunk_parameters"}
  BY <1>5, ChunkSizeCorrect DEF Dispatch, UrlStates, UrlEnds
<1>6. CASE p.state \in {"chunk_size_almost_done", "chunk_data", "chunk_data_almost_done",
                        "chunk_data_done"}
  BY <1>6, ChunkDataCorrect DEF Dispatch, UrlStates, UrlEnds
<1>7. CASE p.state = "body_identity"
  BY <1>7, BodyIdentityCorrect DEF Dispatch, UrlStates, UrlEnds
<1> QED BY <1>1, <1>2, <1>3, <1>4, <1>5, <1>6, <1>7 DEF Chunked, Sized

LEMMA ExecuteCorrect ==
  ASSUME NEW p, Tested(p), NEW c, NEW next
  PROVE  Sane(Execute(p, c, next))
<1> DEFINE q == IF p.state \in BodyStates THEN p ELSE [p EXCEPT !.nread = @ + 1]
           r == IF q.nread > MaxHeader THEN Fail(q, "HEADER_OVERFLOW") ELSE Dispatch(q, c, next)
           u == IF r.err = "OK" /\ r.state \in UrlStates THEN Raise(r, "url") ELSE r
<1>1. q.nread > MaxHeader => Sane(Fail(q, "HEADER_OVERFLOW"))
  BY LimitsAssumption DEF Tested, Sane, Fail, Fields
<1>2. ~(q.nread > MaxHeader) => Tested(q)
  BY LimitsAssumption DEF Tested, Sane, Fields
<1> HIDE DEF q
<1>3. Sane(r)
  BY <1>1, <1>2, DispatchCorrect
<1> HIDE DEF r
<1>4. Sane(u)
  BY <1>3, RaiseCorrect
<1> HIDE DEF u
<1>5. Sane([u EXCEPT !.marked = FALSE])
  BY <1>4 DEF Sane, Fields
<1>6. Execute(p, c, next) = IF next = "" THEN [u EXCEPT !.marked = FALSE] ELSE r
  BY DEF Execute, q, r, u
<1> QED BY <1>3, <1>5, <1>6

LEMMA ClearCorrect ==
  ASSUME NEW p, Sane(p)
  PROVE  Sane(Clear(p))
BY DEF Clear, Sane, Fields, LineStates, Chunked, Sized

LEMMA NewParserCorrect == Sane(NewParser)
BY LimitsAssumption DEF NewParser, Sane, Fields, LineStates, Chunked, Sized

LEMMA SaneIsCounted ==
  ASSUME NEW p, Sane(p)
  PROVE  Counted(p)
BY DEF Sane, Counted, Chunked, Sized
-----------------------------------------------------------------------------
\* What is left of a parser after the callbacks: the connection may clear it,
\* as it does when it writes an answer, and an unknown URL leaves an error.
\* It feeds no parser with an error, nor one that has ended a message without
\* being cleared, which only an upgrade leaves behind.
Called(q) ==
  UNION {{[r EXCEPT !.events = <<>>], Fail([r EXCEPT !.events = <<>>], "INVALID_EOF_STATE")} :
           r \in {q, Clear(q)}}

FeedPiece(c, next) ==
  /\ parser.err = "OK" /\ parser.state \notin Ended
  /\ parser' \in Called(Execute(parser, c, next))

Fed == parser = NewParser /\ [][\E c, next \in STRING : FeedPiece(c, next)]_parser

\* The assertions of http_parser_execute hold at every piece of every text: a
\* body that is read has a length that is left of it and is not the sentinel,
\* no length wraps around, and the headers' octets are counted up to the limit.
THEOREM CountersCorrect == Fed => []Counted(parser)
<1>1. parser = NewParser => Sane(parser)
  BY NewParserCorrect
<1>2. Sane(parser) /\ [\E c, next \in STRING : FeedPiece(c, next)]_parser => Sane(parser)'
  <2> SUFFICES ASSUME Sane(parser), [\E c, next \in STRING : FeedPiece(c, next)]_parser
               PROVE  Sane(parser')
    OBVIOUS
  <2>1. CASE UNCHANGED parser
    BY <2>1
  <2>2. ASSUME NEW c \in STRING, NEW next \in STRING, FeedPiece(c, next)
        PROVE  Sane(parser')
    <3> DEFINE q == Execute(parser, c, next)
    <3>1. Sane(q)
      BY <2>2, ExecuteCorrect DEF FeedPiece, Tested, Sane
    <3> HIDE DEF q
    <3>2. \A r : Sane(r) => Sane([r EXCEPT !.events = <<>>])
      BY DEF Sane, Fields
    <3>3. \A r : Sane(r) => Sane(Fail(r, "INVALID_EOF_STATE"))
      BY FailCorrect
    <3>4. Sane(Clear(q))
      BY <3>1, ClearCorrect
    <3>5. parser' \in Called(q)
      BY <2>2 DEF FeedPiece, q
    <3> QED BY <3>1, <3>2, <3>3, <3>4, <3>5 DEF Called
  <2> QED BY <2>1, <2>2
<1>3. Sane(parser) => Counted(parser)
  BY SaneIsCounted
<1> QED BY <1>1, <1>2, <1>3, PTL DEF Fed
-----------------------------------------------------------------------------
(* How the parser moves through a request, and what it calls on the way.   *)

Early == {"start_req", "req_method", "req_spaces_before_url"}
Line == {"req_http_start", "req_http_major", "req_http_end", "req_line_almost_done"}

\* The fields of a trailer are read in the states of a header.
InHead(r) == r.state \in Line \/ (r.state \in HeaderStates /\ "trailing" \notin r.flags)
InBody(r) == r.state \in Chunked \cup {"body_identity"}
             \/ (r.state \in HeaderStates /\ "trailing" \in r.flags)

Shape == {"state", "method", "flags", "err", "events", "index", "building"}

\* The flags of the last request are gone once a method has begun.
Formed(r) ==
  /\ Shape \subseteq DOMAIN r
  /\ r.method \in DOMAIN Spelling /\ r.index \in 0..2 /\ r.building \in 0..1
  /\ r.state \in {"req_method", "req_spaces_before_url"} \cup UrlStates \cup Line =>
       "trailing" \notin r.flags

\* A piece between two requests or of the URL, of the line and the header, and
\* of the body.
Starts(p, q) == p.state \in Early /\ q.state \in Early \cup UrlStates /\ q.events = <<>>
Names(p, q) ==
  /\ p.state \in UrlStates /\ q.method = p.method
  /\ \/ q.state \in UrlStates /\ q.events = <<>>
     \/ InHead(q) /\ q.events = <<"url">>
Heads(p, q) ==
  /\ InHead(p) /\ q.method = p.method
  /\ \/ InHead(q) /\ q.events = <<>>
     \/ InBody(q) /\ q.events = <<"headers">>
     \/ q.state \in Ended /\ q.events = <<"headers", "message">>
Fills(p, q) ==
  /\ InBody(p) /\ q.method = p.method
  /\ \/ InBody(q) /\ q.events = <<>>
     \/ q.state \in Ended \cup HeaderStates /\ q.events = <<"message">>
Breaks(p, q) ==
  /\ q.err # "OK"
  /\ \/ q.events = <<>>
     \/ InHead(p) /\ q.method = p.method /\ q.events = <<"headers">>

Moves(p, q) == Breaks(p, q) \/ (q.err = "OK" /\ (Starts(p, q) \/ Names(p, q) \/ Heads(p, q) \/ Fills(p, q)))

\* A parser that waits for the next piece.
Ready(p) == Formed(p) /\ p.err = "OK" /\ p.events = <<>>

LEMMA FailBreaks ==
  ASSUME NEW p, Formed(p), p.events = <<>>, NEW e, e # "OK"
  PROVE  Formed(Fail(p, e)) /\ \A o : Breaks(o, Fail(p, e))
<1>1. Formed(Fail(p, e))
  BY DEF Formed, Fail, Shape
<1>2. Fail(p, e).err = e /\ Fail(p, e).events = <<>>
  BY DEF Formed, Fail, Shape
<1> QED BY <1>1, <1>2 DEF Breaks

\* Two records that differ in the text of a field at most.
Alike(p, q) ==
  /\ Shape \subseteq DOMAIN q
  /\ q.state = p.state /\ q.method = p.method /\ q.flags = p.flags /\ q.err = p.err
  /\ q.events = p.events /\ q.index = p.index /\ q.building \in 0..1

LEMMA FieldAlike ==
  ASSUME NEW p, Formed(p), NEW c
  PROVE  Alike(p, OnField(p, c))
BY DEF Alike, OnField, Formed, Shape

LEMMA ValueAlike ==
  ASSUME NEW p, Formed(p), NEW text
  PROVE  Alike(p, OnValue(p, text))
BY DEF Alike, OnValue, Formed, Shape

LEMMA CompleteAlike ==
  ASSUME NEW p, Formed(p)
  PROVE  Alike(p, OnHeadersComplete(p))
BY DEF Alike, OnHeadersComplete, Formed, Shape

LEMMA AlikeFormed ==
  ASSUME NEW p, Formed(p), NEW q, Alike(p, q)
  PROVE  Formed(q)
BY DEF Alike, Formed
-----------------------------------------------------------------------------
(* The request line. *)

LEMMA SpellingCorrect == \A m \in DOMAIN Spelling : Len(Spelling[m]) \in 1..2
BY DEF Spelling

LEMMA StartMoves ==
  ASSUME NEW p, Ready(p), p.state = "start_req", NEW c
  PROVE  Formed(StartRequest(p, c)) /\ Moves(p, StartRequest(p, c))
<1>1. CASE c \in {"CR", "LF"}
  BY <1>1 DEF StartRequest, Ready, Moves, Starts, Early
<1>2. CASE c \notin {"CR", "LF"} /\ c \in DOMAIN FirstMethod
  <2> DEFINE q == StartRequest(p, c)
  <2>1. q = [[p EXCEPT !.flags = {}, !.te = FALSE, !.length = MaxLength]
               EXCEPT !.state = "req_method", !.method = FirstMethod[c], !.index = 1]
    BY <1>2 DEF StartRequest
  <2>2. FirstMethod[c] \in DOMAIN Spelling
    BY <1>2 DEF FirstMethod, Spelling
  <2>3. Formed(q) /\ q.state = "req_method" /\ q.events = <<>> /\ q.err = "OK"
    BY <2>1, <2>2 DEF Ready, Formed, Shape
  <2> HIDE DEF q
  <2>4. Starts(p, q)
    BY <2>3 DEF Starts, Early
  <2> QED BY <2>3, <2>4 DEF Moves, q
<1>3. CASE c \notin {"CR", "LF"} /\ c \notin DOMAIN FirstMethod
  <2> DEFINE q == [p EXCEPT !.flags = {}, !.te = FALSE, !.length = MaxLength]
  <2>1. Formed(q) /\ q.events = <<>>
    BY DEF Ready, Formed, Shape
  <2>2. StartRequest(p, c) = Fail(q, "INVALID_METHOD")
    BY <1>3 DEF StartRequest
  <2> HIDE DEF q
  <2> QED BY <2>1, <2>2, FailBreaks DEF Moves
<1> QED BY <1>1, <1>2, <1>3

LEMMA MethodMoves ==
  ASSUME NEW p, Ready(p), p.state = "req_method", NEW c
  PROVE  Formed(Method(p, c)) /\ Moves(p, Method(p, c))
<1> DEFINE n == Len(Spelling[p.method])
           ends == c = " " /\ p.index = n
           goesOn == p.index < n /\ c = Spelling[p.method][p.index + 1]
           turns == <<p.method, p.index, c>> \in DOMAIN OtherMethod
           other == OtherMethod[<<p.method, p.index, c>>]
           next == p.index + 1
           With(m, i) == [p EXCEPT !.method = m, !.index = i]
<1>1. Formed(p) /\ p.events = <<>> /\ p.err = "OK" /\ "trailing" \notin p.flags
      /\ p.method \in DOMAIN Spelling
  BY DEF Ready, Formed
<1>2. Method(p, c) = CASE ends -> Go(p, "req_spaces_before_url")
                       [] goesOn -> [p EXCEPT !.index = next]
                       [] turns -> With(other, next)
                       [] OTHER -> Fail(p, "INVALID_METHOD")
  BY <1>1 DEF Method, Formed, Shape
<1>3. goesOn => next \in 0..2
  <2>1. n \in 1..2 /\ p.index \in 0..2
    BY <1>1, SpellingCorrect DEF Formed
  <2> HIDE DEF n
  <2> QED BY <2>1
<1>4. turns => other \in DOMAIN Spelling /\ next \in 0..2
  <2> SUFFICES ASSUME turns PROVE other = "PUT" /\ p.index = 1
    BY DEF Spelling
  <2> QED BY DEF OtherMethod
<1>5. [p EXCEPT !.index = next] = With(p.method, next)
  BY <1>1 DEF Formed, Shape
<1>6. ASSUME NEW m \in DOMAIN Spelling, NEW i \in 0..2
      PROVE  Formed(With(m, i)) /\ Moves(p, With(m, i))
  <2> DEFINE q == With(m, i)
  <2>1. Formed(q) /\ q.state = "req_method" /\ q.events = <<>> /\ q.err = "OK"
    BY <1>1 DEF Formed, Shape
  <2> HIDE DEF q
  <2>2. Formed(q) /\ Moves(p, q)
    BY <2>1 DEF Moves, Starts, Early
  <2> QED BY <2>2 DEF q
<1>7. Formed(Go(p, "req_spaces_before_url")) /\ Moves(p, Go(p, "req_spaces_before_url"))
  <2> DEFINE q == Go(p, "req_spaces_before_url")
  <2>1. Formed(q) /\ q.state = "req_spaces_before_url" /\ q.events = <<>> /\ q.err = "OK"
    BY <1>1 DEF Go, Formed, Shape
  <2> HIDE DEF q
  <2>2. Formed(q) /\ Moves(p, q)
    BY <2>1 DEF Moves, Starts, Early
  <2> QED BY <2>2 DEF q
<1>8. Formed(Fail(p, "INVALID_METHOD")) /\ Moves(p, Fail(p, "INVALID_METHOD"))
  BY <1>1, FailBreaks DEF Moves
<1> HIDE DEF ends, goesOn, turns, other, next, With
<1>9. goesOn => /\ Formed([p EXCEPT !.index = next])
                /\ Moves(p, [p EXCEPT !.index = next])
  BY <1>1, <1>3, <1>5, <1>6
<1>10. turns => Formed(With(other, next)) /\ Moves(p, With(other, next))
  BY <1>4, <1>6
<1> QED BY <1>2, <1>7, <1>8, <1>9, <1>10

LEMMA UrlMoves ==
  ASSUME NEW p, Ready(p), p.state \in UrlStates \cup {"req_spaces_before_url"}, NEW c
  PROVE  Formed(RequestUrl(p, c)) /\ Moves(p, RequestUrl(p, c))
<1>1. Formed(p) /\ p.events = <<>> /\ p.err = "OK" /\ "trailing" \notin p.flags
  BY DEF Ready, Formed
<1>2. CASE p.state = "req_spaces_before_url" /\ c = " "
  <2>1. RequestUrl(p, c) = p
    BY <1>2 DEF RequestUrl
  <2> QED BY <1>1, <1>2, <2>1 DEF Moves, Starts, Early
<1>3. ASSUME p.state \in UrlEnds, NEW v, NEW s \in Line \cup {"header_field_start"}
      PROVE  LET q == Raise([p EXCEPT !.version = v, !.state = s], "url") IN
             Formed(q) /\ Moves(p, q)
  <2> DEFINE q == Raise([p EXCEPT !.version = v, !.state = s], "url")
  <2>1. /\ q.state = s /\ q.method = p.method /\ q.flags = p.flags /\ q.err = p.err
        /\ q.events = Append(<<>>, "url") /\ q.index = p.index /\ q.building = p.building
        /\ Shape \subseteq DOMAIN q
    BY <1>1 DEF Raise, Formed, Shape
  <2> HIDE DEF q
  <2>2. q.events = <<"url">>
    BY <2>1
  <2>3. Formed(q)
    BY <1>1, <2>1 DEF Formed
  <2>4. InHead(q)
    BY <1>1, <2>1 DEF InHead, HeaderStates
  <2>5. Names(p, q)
    BY <1>3, <2>1, <2>2, <2>4 DEF Names, UrlStates
  <2>6. Moves(p, q)
    BY <1>1, <2>1, <2>5 DEF Moves
  <2> QED BY <2>3, <2>6 DEF q
<1>4. CASE ~(p.state = "req_spaces_before_url" /\ c = " ")
           /\ p.state \in UrlEnds /\ c = " "
  <2> DEFINE q == Raise(Go(p, "req_http_start"), "url")
  <2>1. RequestUrl(p, c) = q
    BY <1>4 DEF RequestUrl
  <2>2. /\ q.state = "req_http_start" /\ q.method = p.method /\ q.flags = p.flags /\ q.err = p.err
        /\ q.events = Append(<<>>, "url") /\ q.index = p.index /\ q.building = p.building
        /\ Shape \subseteq DOMAIN q
    BY <1>1 DEF Raise, Go, Formed, Shape
  <2> HIDE DEF q
  <2>3. q.events = <<"url">>
    BY <2>2
  <2>4. Formed(q)
    BY <1>1, <2>2 DEF Formed
  <2>5. Names(p, q)
    BY <1>4, <2>2, <2>3 DEF Names, UrlStates, InHead, Line
  <2> QED BY <1>1, <2>1, <2>2, <2>4, <2>5 DEF Moves
<1>5. CASE ~(p.state = "req_spaces_before_url" /\ c = " ")
           /\ ~(p.state \in UrlEnds /\ c = " ") /\ p.state \in UrlEnds /\ c \in {"CR", "LF"}
  <2>1. CASE p.method # "GET"
    <3> DEFINE q == Go(p, "dead")
    <3>1. Formed(q) /\ q.events = <<>>
      BY <1>1 DEF Go, Formed, Shape, UrlStates, UrlEnds, Line
    <3>2. RequestUrl(p, c) = Fail(q, "INVALID_VERSION")
      BY <1>5, <2>1 DEF RequestUrl
    <3> HIDE DEF q
    <3> QED BY <3>1, <3>2, FailBreaks DEF Moves
  <2>2. CASE p.method = "GET"
    <3> DEFINE s == IF c = "CR" THEN "req_line_almost_done" ELSE "header_field_start"
    <3>1. RequestUrl(p, c) = Raise([p EXCEPT !.version = "0.9", !.state = s], "url")
      BY <1>5, <2>2 DEF RequestUrl
    <3>2. s \in Line \cup {"header_field_start"}
      BY DEF Line
    <3> HIDE DEF s
    <3> QED BY <1>3, <1>5, <3>1, <3>2
  <2> QED BY <2>1, <2>2
<1>6. CASE ~(p.state \in UrlEnds /\ c \in {"CR", "LF"})
           /\ ~(p.state \in UrlEnds /\ c = " ")
           /\ ~(p.state = "req_spaces_before_url" /\ c = " ")
  <2> DEFINE starts == p.state = "req_spaces_before_url"
             from == IF starts /\ p.method = "CONNECT" THEN "req_server_start" ELSE p.state
             s == UrlNext(from, c)
             marked == starts \/ p.marked
             q == [p EXCEPT !.state = s, !.url = Append(@, c), !.marked = marked,
                            !.query = IF s # "req_query_string_start" THEN @
                                      ELSE IF marked THEN Len(p.url) ELSE -1]
  <2>1. RequestUrl(p, c) = IF s = "dead" THEN Fail(Go(p, s), "INVALID_URL") ELSE q
    BY <1>6 DEF RequestUrl
  <2>2. s \in UrlStates \cup {"dead"}
    BY UrlNextCorrect
  <2>3. CASE s = "dead"
    <3>1. Formed(Go(p, "dead")) /\ Go(p, "dead").events = <<>>
      BY <1>1 DEF Go, Formed, Shape, UrlStates, UrlEnds, Line
    <3>2. RequestUrl(p, c) = Fail(Go(p, "dead"), "INVALID_URL")
      BY <2>1, <2>3
    <3> QED BY <3>1, <3>2, FailBreaks DEF Moves
  <2>4. CASE s # "dead"
    <3>1. s \in UrlStates
      BY <2>2, <2>4
    <3> HIDE DEF s, marked
    <3>2. Formed(q) /\ q.state = s /\ q.method = p.method /\ q.events = <<>> /\ q.err = "OK"
      BY <1>1 DEF Formed, Shape
    <3> HIDE DEF q
    <3>3. p.state = "req_spaces_before_url" \/ p.state \in UrlStates
      OBVIOUS
    <3>4. Starts(p, q) \/ Names(p, q)
      BY <3>1, <3>2, <3>3 DEF Starts, Names, Early
    <3>5. RequestUrl(p, c) = q
      BY <2>1, <2>4
    <3> QED BY <3>2, <3>4, <3>5 DEF Moves
  <2> QED BY <2>3, <2>4
<1> QED BY <1>2, <1>4, <1>5, <1>6

LEMMA VersionMoves ==
  ASSUME NEW p, Ready(p), p.state \in Line, NEW c
  PROVE  Formed(Version(p, c)) /\ Moves(p, Version(p, c))
<1>1. Formed(p) /\ p.events = <<>> /\ p.err = "OK" /\ "trailing" \notin p.flags
  BY DEF Ready, Formed
<1>2. ASSUME NEW s \in Line \cup {"header_field_start"}, NEW q,
             Shape \subseteq DOMAIN q, q.state = s, q.method = p.method, q.flags = p.flags,
             q.err = p.err, q.events = p.events, q.index = p.index, q.building = p.building
      PROVE  Formed(q) /\ Moves(p, q)
  <2>1. Formed(q)
    BY <1>1, <1>2 DEF Formed
  <2>2. InHead(p) /\ InHead(q)
    BY <1>1, <1>2 DEF InHead, HeaderStates
  <2>3. Heads(p, q)
    BY <1>1, <1>2, <2>2 DEF Heads
  <2> QED BY <1>1, <1>2, <2>1, <2>3 DEF Moves
<1>3. ASSUME NEW s \in Line \cup {"header_field_start"}
      PROVE  Formed(Go(p, s)) /\ Moves(p, Go(p, s))
  <2> DEFINE q == Go(p, s)
  <2>1. /\ Shape \subseteq DOMAIN q /\ q.state = s /\ q.method = p.method /\ q.flags = p.flags
        /\ q.err = p.err /\ q.events = p.events /\ q.index = p.index /\ q.building = p.building
    BY <1>1 DEF Go, Formed, Shape
  <2> HIDE DEF q
  <2>2. Formed(q) /\ Moves(p, q)
    BY <1>2, <2>1
  <2> QED BY <2>2 DEF q
<1>4. ASSUME NEW v
      PROVE  LET q == [p EXCEPT !.version = v, !.state = "req_http_end"] IN
             Formed(q) /\ Moves(p, q)
  <2> DEFINE q == [p EXCEPT !.version = v, !.state = "req_http_end"]
  <2>1. /\ Shape \subseteq DOMAIN q /\ q.state = "req_http_end" /\ q.method = p.method
        /\ q.flags = p.flags /\ q.err = p.err /\ q.events = p.events /\ q.index = p.index
        /\ q.building = p.building
    BY <1>1 DEF Formed, Shape
  <2> HIDE DEF q
  <2>2. Formed(q) /\ Moves(p, q)
    BY <1>2, <2>1 DEF Line
  <2> QED BY <2>2 DEF q
<1>5. Formed(p) /\ Moves(p, p)
  BY <1>1, <1>2 DEF Formed
<1>6. \A e \in {"INVALID_CONSTANT", "LF_EXPECTED", "INVALID_VERSION"} :
        Formed(Fail(p, e)) /\ Moves(p, Fail(p, e))
  BY <1>1, FailBreaks DEF Moves
<1>7. \A s \in {"req_http_major", "req_line_almost_done", "header_field_start"} :
        Formed(Go(p, s)) /\ Moves(p, Go(p, s))
  BY <1>3 DEF Line
<1> QED BY <1>4, <1>5, <1>6, <1>7 DEF Version
-----------------------------------------------------------------------------
(* The end of the headers, and their text.                                 *)

\* The header or the trailer goes on; it ends, and the body begins or does not.
Reads(p, q) ==
  /\ Formed(q) /\ q.method = p.method /\ q.events = p.events
  /\ "trailing" \in q.flags <=> "trailing" \in p.flags
  /\ q.err = "OK" => q.state \in HeaderStates
Finishes(p, q) ==
  /\ Formed(q) /\ q.method = p.method
  /\ q.err # "OK" =>
       q.events = <<>> \/ (q.events = <<"headers">> /\ "trailing" \notin p.flags)
  /\ q.err = "OK" =>
       IF "trailing" \in p.flags THEN q.state \in HeaderStates /\ q.events = <<"message">>
       ELSE \/ InBody(q) /\ q.events = <<"headers">>
            \/ q.state \in Ended /\ q.events = <<"headers", "message">>

LEMMA AppendsTwo ==
  ASSUME NEW a, NEW b
  PROVE  Append(<<a>>, b) = <<a, b>>
<1> DEFINE S == {a, b}
           s == <<a>>
           t == Append(s, b)
<1>1. s \in Seq(S) /\ Len(s) = 1 /\ s[1] = a
  OBVIOUS
<1> HIDE DEF s
<1>2. t \in Seq(S) /\ Len(t) = 2 /\ t[1] = a /\ t[2] = b
  <2>1. 1 \in 1..Len(s) /\ b \in S
    BY <1>1
  <2>2. s \in Seq(S) /\ t = Append(s, b)
    BY <1>1
  <2> HIDE DEF t, S
  <2>3. /\ t \in Seq(S) /\ Len(t) = Len(s) + 1 /\ t[Len(s) + 1] = b
        /\ \A i \in 1..Len(s) : t[i] = s[i]
    BY <2>1, <2>2, AppendProperties
  <2> QED BY <1>1, <2>1, <2>3
<1> HIDE DEF t
<1>3. <<a, b>> \in Seq(S) /\ Len(<<a, b>>) = 2 /\ <<a, b>>[1] = a /\ <<a, b>>[2] = b
  OBVIOUS
<1>4. \A i \in 1..2 : t[i] = <<a, b>>[i]
  BY <1>2, <1>3
<1>5. t = <<a, b>>
  BY <1>2, <1>3, <1>4, SeqEqual
<1> QED BY <1>5 DEF t, s

LEMMA DoneFinishes ==
  ASSUME NEW p, Formed(p), p.err = "OK", p.events = <<"headers">>, p.state \in HeaderStates,
         "trailing" \notin p.flags
  PROVE  Finishes(p, HeadersDone(p))
<1> DEFINE q == [p EXCEPT !.nread = 0, !.state = "headers_done"]
<1>1. /\ Shape \subseteq DOMAIN q /\ q.state = "headers_done" /\ q.method = p.method
      /\ q.flags = p.flags /\ q.err = "OK" /\ q.events = <<"headers">> /\ q.index = p.index
      /\ q.building = p.building
  BY DEF Formed, Shape
<1>2. HeadersDone(p) =
        CASE q.upgrade -> Raise(q, "message")
          [] ~q.upgrade /\ "chunked" \in q.flags -> Go(q, "chunk_size_start")
          [] ~q.upgrade /\ "chunked" \notin q.flags /\ q.te ->
               Fail(q, "INVALID_TRANSFER_ENCODING")
          [] OTHER -> IF q.length \in {0, MaxLength} THEN Raise(q, "message")
                                                     ELSE Go(q, "body_identity")
  BY DEF HeadersDone
<1> HIDE DEF q
<1>3. Finishes(p, Raise(q, "message"))
  <2> DEFINE r == Raise(q, "message")
  <2>1. /\ Shape \subseteq DOMAIN r /\ r.state = "headers_done" /\ r.method = p.method
        /\ r.flags = p.flags /\ r.err = "OK" /\ r.events = Append(<<"headers">>, "message")
        /\ r.index = p.index /\ r.building = p.building
    BY <1>1 DEF Raise, Shape
  <2> HIDE DEF r
  <2>2. r.events = <<"headers", "message">>
    BY <2>1, AppendsTwo
  <2>3. Formed(r)
    BY <2>1 DEF Formed, UrlStates, UrlEnds, Line
  <2> QED BY <2>1, <2>2, <2>3 DEF Finishes, Ended, r
<1>4. ASSUME NEW s \in {"chunk_size_start", "body_identity"}
      PROVE  Finishes(p, Go(q, s))
  <2> DEFINE r == Go(q, s)
  <2>1. /\ Shape \subseteq DOMAIN r /\ r.state = s /\ r.method = p.method
        /\ r.flags = p.flags /\ r.err = "OK" /\ r.events = <<"headers">>
        /\ r.index = p.index /\ r.building = p.building
    BY <1>1 DEF Go, Shape
  <2> HIDE DEF r
  <2>2. Formed(r)
    BY <2>1 DEF Formed, UrlStates, UrlEnds, Line
  <2> QED BY <2>1, <2>2 DEF Finishes, InBody, Chunked, r
<1>5. Finishes(p, Fail(q, "INVALID_TRANSFER_ENCODING"))
  <2> DEFINE r == Fail(q, "INVALID_TRANSFER_ENCODING")
  <2>1. /\ Shape \subseteq DOMAIN r /\ r.state = "headers_done" /\ r.method = p.method
        /\ r.flags = p.flags /\ r.err # "OK" /\ r.events = <<"headers">>
        /\ r.index = p.index /\ r.building = p.building
    BY <1>1 DEF Fail, Shape
  <2> HIDE DEF r
  <2>2. Formed(r)
    BY <2>1 DEF Formed, UrlStates, UrlEnds, Line
  <2> QED BY <2>1, <2>2 DEF Finishes, r
<1> QED BY <1>2, <1>3, <1>4, <1>5

LEMMA AlmostDoneFinishes ==
  ASSUME NEW p, Ready(p), p.state \in HeaderStates, NEW c
  PROVE  Finishes(p, HeadersAlmostDone(p, c))
<1>1. Formed(p) /\ p.events = <<>> /\ p.err = "OK"
  BY DEF Ready
<1>2. \A e \in {"STRICT", "UNEXPECTED_CONTENT_LENGTH"} : Finishes(p, Fail(p, e))
  <2> SUFFICES ASSUME NEW e \in {"STRICT", "UNEXPECTED_CONTENT_LENGTH"}
               PROVE  Finishes(p, Fail(p, e))
    OBVIOUS
  <2>1. Fail(p, e).err # "OK" /\ Fail(p, e).events = <<>> /\ Fail(p, e).method = p.method
    BY <1>1 DEF Fail, Formed, Shape
  <2>2. Formed(Fail(p, e))
    BY <1>1, FailBreaks
  <2> QED BY <2>1, <2>2 DEF Finishes
<1>3. ASSUME "trailing" \in p.flags
      PROVE  Finishes(p, Raise(p, "message"))
  <2> DEFINE r == Raise(p, "message")
  <2>1. /\ Shape \subseteq DOMAIN r /\ r.state = p.state /\ r.method = p.method
        /\ r.flags = p.flags /\ r.err = "OK" /\ r.events = Append(<<>>, "message")
        /\ r.index = p.index /\ r.building = p.building
    BY <1>1 DEF Raise, Formed, Shape
  <2> HIDE DEF r
  <2>2. r.events = <<"message">>
    BY <2>1
  <2>3. Formed(r)
    BY <1>1, <2>1 DEF Formed
  <2> QED BY <1>3, <2>1, <2>2, <2>3 DEF Finishes, r
<1>4. ASSUME "trailing" \notin p.flags, NEW b
      PROVE  Finishes(p, HeadersDone(Raise(OnHeadersComplete([p EXCEPT !.upgrade = b]), "headers")))
  <2> DEFINE q == [p EXCEPT !.upgrade = b]
             u == OnHeadersComplete(q)
             r == Raise(u, "headers")
  <2>1. Formed(q) /\ Alike(p, q)
    BY <1>1 DEF Formed, Shape, Alike
  <2> HIDE DEF q
  <2>2. Alike(q, u) /\ Formed(u)
    BY <2>1, CompleteAlike, AlikeFormed
  <2>3. Alike(p, u)
    BY <2>1, <2>2 DEF Alike
  <2> HIDE DEF u
  <2>4. /\ Shape \subseteq DOMAIN r /\ r.state = p.state /\ r.method = p.method
        /\ r.flags = p.flags /\ r.err = "OK" /\ r.events = Append(<<>>, "headers")
        /\ r.index = p.index /\ r.building = u.building
    BY <1>1, <2>3 DEF Raise, Alike, Shape
  <2> HIDE DEF r
  <2>5. r.events = <<"headers">>
    BY <2>4
  <2>6. Formed(r)
    BY <1>1, <2>2, <2>4 DEF Formed
  <2>7. Finishes(r, HeadersDone(r))
    BY <1>4, <2>4, <2>5, <2>6, DoneFinishes
  <2>8. Finishes(p, HeadersDone(r))
    BY <2>4, <2>7 DEF Finishes
  <2> QED BY <2>8 DEF r, u, q
<1>5. HeadersAlmostDone(p, c) =
        CASE c # "LF" -> Fail(p, "STRICT")
          [] c = "LF" /\ "trailing" \in p.flags -> Raise(p, "message")
          [] c = "LF" /\ "trailing" \notin p.flags /\ p.te /\ "length" \in p.flags ->
               Fail(p, "UNEXPECTED_CONTENT_LENGTH")
          [] OTHER ->
               HeadersDone(Raise(OnHeadersComplete(
                 [p EXCEPT !.upgrade = "upgrade" \in p.flags \/ p.method = "CONNECT"]), "headers"))
  BY DEF HeadersAlmostDone
<1> DEFINE X == HeadersDone(Raise(OnHeadersComplete(
                 [p EXCEPT !.upgrade = "upgrade" \in p.flags \/ p.method = "CONNECT"]), "headers"))
<1>6. "trailing" \notin p.flags => Finishes(p, X)
  BY <1>4
<1> HIDE DEF X
<1>7. HeadersAlmostDone(p, c) =
        CASE c # "LF" -> Fail(p, "STRICT")
          [] c = "LF" /\ "trailing" \in p.flags -> Raise(p, "message")
          [] c = "LF" /\ "trailing" \notin p.flags /\ p.te /\ "length" \in p.flags ->
               Fail(p, "UNEXPECTED_CONTENT_LENGTH")
          [] OTHER -> X
  BY <1>5 DEF X
<1> QED BY <1>2, <1>3, <1>6, <1>7

\* One more piece of the header that does not end it.
LEMMA GoReads ==
  ASSUME NEW p, Formed(p), NEW s \in HeaderStates
  PROVE  Reads(p, Go(p, s)) /\ (p.err = "OK" => Go(p, s).err = "OK" /\ Go(p, s).state = s)
<1> DEFINE q == Go(p, s)
<1>1. /\ Shape \subseteq DOMAIN q /\ q.state = s /\ q.method = p.method /\ q.flags = p.flags
      /\ q.err = p.err /\ q.events = p.events /\ q.index = p.index /\ q.building = p.building
  BY DEF Go, Formed, Shape
<1> HIDE DEF q
<1>2. Formed(q)
  BY <1>1 DEF Formed, UrlStates, UrlEnds, Line, HeaderStates
<1> QED BY <1>1, <1>2 DEF Reads, q

LEMMA FailReads ==
  ASSUME NEW p, Formed(p), NEW e, e # "OK"
  PROVE  Reads(p, Fail(p, e))
BY DEF Reads, Fail, Formed, Shape

LEMMA ReadsOn ==
  ASSUME NEW p, NEW q, NEW r, Alike(p, q) \/ Reads(p, q), Reads(q, r)
  PROVE  Reads(p, r)
BY DEF Alike, Reads

LEMMA FieldStartCorrect ==
  ASSUME NEW p, Ready(p), p.state \in HeaderStates, NEW c
  PROVE  Reads(p, HeaderFieldStart(p, c)) \/ Finishes(p, HeaderFieldStart(p, c))
<1>1. Formed(p) /\ p.events = <<>> /\ p.err = "OK"
  BY DEF Ready
<1>2. Reads(p, Go(p, "headers_almost_done")) /\ Go(p, "headers_almost_done").err = "OK"
      /\ Go(p, "headers_almost_done").state = "headers_almost_done"
  BY <1>1, GoReads DEF HeaderStates
<1>3. Finishes(p, HeadersAlmostDone(Go(p, "headers_almost_done"), c))
  <2> DEFINE q == Go(p, "headers_almost_done")
  <2>1. Ready(q) /\ q.state \in HeaderStates
    BY <1>1, <1>2 DEF Ready, Reads, HeaderStates
  <2> HIDE DEF q
  <2>2. Finishes(q, HeadersAlmostDone(q, c))
    BY <2>1, AlmostDoneFinishes
  <2>3. Finishes(p, HeadersAlmostDone(q, c))
    BY <1>2, <2>2 DEF Finishes, Reads, q
  <2> QED BY <2>3 DEF q
<1>4. Reads(p, [OnField(p, c) EXCEPT !.state = "header_field", !.h = Name("", c)])
  <2> DEFINE q == OnField(p, c)
             h == Name("", c)
             r == [q EXCEPT !.state = "header_field", !.h = h]
  <2>1. Alike(p, q) /\ Formed(q)
    BY <1>1, FieldAlike, AlikeFormed
  <2> HIDE DEF q, h
  <2>2. /\ Shape \subseteq DOMAIN r /\ r.state = "header_field" /\ r.method = q.method
        /\ r.flags = q.flags /\ r.err = q.err /\ r.events = q.events /\ r.index = q.index
        /\ r.building = q.building
    BY <2>1 DEF Formed, Shape
  <2> HIDE DEF r
  <2>3. Formed(r)
    BY <2>1, <2>2 DEF Formed, UrlStates, UrlEnds, Line
  <2>4. Reads(p, r)
    BY <2>1, <2>2, <2>3 DEF Reads, Alike, HeaderStates
  <2> QED BY <2>4 DEF r, q, h
<1>5. Reads(p, Fail(p, "INVALID_HEADER_TOKEN"))
  BY <1>1, FailReads
<1> QED BY <1>2, <1>3, <1>4, <1>5 DEF HeaderFieldStart

LEMMA FieldReads ==
  ASSUME NEW p, Formed(p), p.state = "header_field", NEW c
  PROVE  Reads(p, HeaderField(p, c))
<1>1. Reads(p, Go(p, "header_value_discard_ws"))
  BY GoReads DEF HeaderStates
<1>2. ASSUME NEW h, NEW te
      PROVE  Reads(p, [OnField(p, c) EXCEPT !.h = h, !.te = te])
  <2> DEFINE q == OnField(p, c)
             r == [q EXCEPT !.h = h, !.te = te]
  <2>1. Alike(p, q) /\ Formed(q)
    BY FieldAlike, AlikeFormed
  <2> HIDE DEF q
  <2>2. Alike(q, r)
    BY <2>1 DEF Formed, Shape, Alike
  <2> HIDE DEF r
  <2>3. Formed(r)
    BY <2>1, <2>2, AlikeFormed
  <2>4. Reads(p, r)
    BY <2>1, <2>2, <2>3 DEF Reads, Alike, HeaderStates
  <2> QED BY <2>4 DEF r, q
<1>3. Reads(p, Fail(p, "INVALID_HEADER_TOKEN"))
  BY FailReads
<1> QED BY <1>1, <1>2, <1>3 DEF HeaderField

LEMMA ValueStartReads ==
  ASSUME NEW p, Formed(p), NEW c, NEW next
  PROVE  Reads(p, HeaderValueStart(p, c, next))
<1> DEFINE q == [OnValue(p, <<c>>) EXCEPT !.state = "header_value"]
<1>1. /\ Formed(q) /\ q.state = "header_value" /\ q.method = p.method /\ q.flags = p.flags
      /\ q.err = p.err /\ q.events = p.events
  <2> DEFINE v == OnValue(p, <<c>>)
  <2>1. Alike(p, v) /\ Formed(v)
    BY ValueAlike, AlikeFormed
  <2> HIDE DEF v
  <2>2. /\ Shape \subseteq DOMAIN [v EXCEPT !.state = "header_value"]
        /\ [v EXCEPT !.state = "header_value"].state = "header_value"
        /\ [v EXCEPT !.state = "header_value"].method = p.method
        /\ [v EXCEPT !.state = "header_value"].flags = p.flags
        /\ [v EXCEPT !.state = "header_value"].err = p.err
        /\ [v EXCEPT !.state = "header_value"].events = p.events
        /\ [v EXCEPT !.state = "header_value"].index = p.index
        /\ [v EXCEPT !.state = "header_value"].building = v.building
    BY <2>1 DEF Alike, Shape
  <2>3. q = [v EXCEPT !.state = "header_value"]
    BY DEF v
  <2> HIDE DEF q
  <2> QED BY <2>1, <2>2, <2>3 DEF Formed, UrlStates, UrlEnds, Line
<1> HIDE DEF q
<1>2. ASSUME NEW f, "trailing" \in f <=> "trailing" \in p.flags, NEW n, NEW h
      PROVE  Reads(p, [q EXCEPT !.flags = f, !.length = n, !.h = h])
  <2> DEFINE r == [q EXCEPT !.flags = f, !.length = n, !.h = h]
  <2>1. /\ Shape \subseteq DOMAIN r /\ r.state = "header_value" /\ r.method = p.method
        /\ r.flags = f /\ r.err = p.err /\ r.events = p.events /\ r.index = q.index
        /\ r.building = q.building
    BY <1>1 DEF Formed, Shape
  <2> HIDE DEF r
  <2>2. Formed(r)
    BY <1>1, <2>1 DEF Formed, UrlStates, UrlEnds, Line
  <2>3. Reads(p, r)
    BY <1>2, <2>1, <2>2 DEF Reads, HeaderStates
  <2> QED BY <2>3 DEF r
<1>3. ASSUME NEW h
      PROVE  Reads(p, [q EXCEPT !.h = h])
  <2> DEFINE r == [q EXCEPT !.h = h]
  <2>1. Alike(q, r)
    BY <1>1 DEF Formed, Shape, Alike
  <2> HIDE DEF r
  <2>2. Formed(r)
    BY <1>1, <2>1, AlikeFormed
  <2>3. Reads(p, r)
    BY <1>1, <2>1, <2>2 DEF Reads, Alike, HeaderStates
  <2> QED BY <2>3 DEF r
<1>4. ASSUME NEW f, "trailing" \in f <=> "trailing" \in p.flags, NEW h
      PROVE  Reads(p, [q EXCEPT !.h = h, !.flags = f])
  <2> DEFINE r == [q EXCEPT !.h = h, !.flags = f]
  <2>1. /\ Shape \subseteq DOMAIN r /\ r.state = "header_value" /\ r.method = p.method
        /\ r.flags = f /\ r.err = p.err /\ r.events = p.events /\ r.index = q.index
        /\ r.building = q.building
    BY <1>1 DEF Formed, Shape
  <2> HIDE DEF r
  <2>2. Formed(r)
    BY <1>1, <2>1 DEF Formed, UrlStates, UrlEnds, Line
  <2>3. Reads(p, r)
    BY <1>4, <2>1, <2>2 DEF Reads, HeaderStates
  <2> QED BY <2>3 DEF r
<1>5. Reads(p, q)
  BY <1>1 DEF Reads, HeaderStates
<1>6. \A e : e # "OK" => Reads(p, Fail(q, e))
  BY <1>1, <1>5, FailReads, ReadsOn
<1>7. q.flags = p.flags /\ "trailing" \notin {"upgrade", "length"}
  BY <1>1
<1> QED
  <2>1. CASE p.h = "upgrade"
    <3> DEFINE f == IF c = "h" /\ next = "2" THEN q.flags ELSE q.flags \cup {"upgrade"}
    <3>1. HeaderValueStart(p, c, next) = [q EXCEPT !.h = "general", !.flags = f]
      BY <2>1 DEF HeaderValueStart, q
    <3>2. "trailing" \in f <=> "trailing" \in p.flags
      BY <1>1
    <3> HIDE DEF f
    <3>3. \A h : Reads(p, [q EXCEPT !.h = h, !.flags = f])
      BY <1>4, <3>2
    <3> QED BY <3>1, <3>3
  <2>2. CASE p.h = "transfer_encoding"
    <3>1. HeaderValueStart(p, c, next) =
            [q EXCEPT !.h = IF c = "chun" THEN "chun" ELSE "encoding_token"]
      BY <2>2 DEF HeaderValueStart, q
    <3> QED BY <1>3, <3>1
  <2>3. CASE p.h = "content_length"
    <3> DEFINE n == Digit[c]
               f == q.flags \cup {"length"}
               r == [q EXCEPT !.flags = f, !.length = n, !.h = "content_length_num"]
    <3>1. HeaderValueStart(p, c, next) =
            IF c \notin Numerals THEN Fail(q, "INVALID_CONTENT_LENGTH")
            ELSE IF "length" \in p.flags THEN Fail(q, "UNEXPECTED_CONTENT_LENGTH")
            ELSE r
      BY <2>3 DEF HeaderValueStart, q
    <3>2. "trailing" \in f <=> "trailing" \in p.flags
      BY <1>1
    <3> HIDE DEF f, n
    <3>3. Reads(p, r)
      BY <1>2, <3>2
    <3> HIDE DEF r
    <3> QED BY <1>6, <3>1, <3>3
  <2>4. CASE p.h = "connection"
    <3>1. HeaderValueStart(p, c, next) =
            [q EXCEPT !.h = IF c \in {"keep", "clo"} THEN c
                            ELSE IF c \in Space THEN @ ELSE "general"]
      BY <2>4 DEF HeaderValueStart, q
    <3> QED BY <1>3, <3>1
  <2>5. CASE p.h \in {"encoding_token_start", "content_length_ws"}
    BY <1>5, <2>5 DEF HeaderValueStart, q
  <2>6. CASE p.h \notin {"upgrade", "transfer_encoding", "content_length", "connection",
                         "encoding_token_start", "content_length_ws"}
    <3>1. HeaderValueStart(p, c, next) = [q EXCEPT !.h = "general"]
      BY <2>6 DEF HeaderValueStart, q
    <3> QED BY <1>3, <3>1
  <2> QED BY <2>1, <2>2, <2>3, <2>4, <2>5, <2>6

LEMMA AddDigitAlike ==
  ASSUME NEW p, Formed(p), NEW base, NEW d
  PROVE  Alike(p, AddDigit(p, base, d)) \/ \E e : e # "OK" /\ AddDigit(p, base, d) = Fail(p, e)
<1> DEFINE n == base * p.length + d
<1>1. Alike(p, [p EXCEPT !.length = n])
  <2> HIDE DEF n
  <2> QED BY DEF Alike, Formed, Shape
<1>2. AddDigit(p, base, d) \in {Fail(p, "INVALID_CONTENT_LENGTH"), [p EXCEPT !.length = base * @ + d]}
  BY DEF AddDigit
<1>3. CASE AddDigit(p, base, d) = [p EXCEPT !.length = base * @ + d]
  <2>1. "length" \in DOMAIN p \/ "length" \notin DOMAIN p
    OBVIOUS
  <2>2. [p EXCEPT !.length = base * @ + d] = [p EXCEPT !.length = n]
    OBVIOUS
  <2> HIDE DEF n
  <2> QED BY <1>1, <1>3, <2>2
<1> QED BY <1>2, <1>3

LEMMA ValueReads ==
  ASSUME NEW p, Formed(p), p.state = "header_value", NEW c
  PROVE  Reads(p, HeaderValue(p, c))
<1> DEFINE q == OnValue(p, <<c>>)
<1>1. Alike(p, q) /\ Formed(q)
  BY ValueAlike, AlikeFormed
<1> HIDE DEF q
<1>2. Reads(p, q)
  BY <1>1 DEF Reads, Alike, HeaderStates
<1>3. \A h : Reads(p, [q EXCEPT !.h = h])
  <2> SUFFICES ASSUME NEW h PROVE Reads(p, [q EXCEPT !.h = h])
    OBVIOUS
  <2> DEFINE r == [q EXCEPT !.h = h]
  <2>1. Alike(q, r)
    BY <1>1 DEF Formed, Shape, Alike
  <2> HIDE DEF r
  <2>2. Formed(r)
    BY <1>1, <2>1, AlikeFormed
  <2>3. Reads(p, r)
    BY <1>1, <2>1, <2>2 DEF Reads, Alike, HeaderStates
  <2> QED BY <2>3 DEF r
<1>4. \A e : e # "OK" => Reads(p, Fail(q, e))
  BY <1>1, <1>2, FailReads, ReadsOn
<1>5. Reads(p, AddDigit(q, 10, Digit[c]))
  <2> DEFINE d == Digit[c]
             r == AddDigit(q, 10, d)
  <2> HIDE DEF d
  <2>1. Alike(q, r) \/ \E e : e # "OK" /\ r = Fail(q, e)
    BY <1>1, AddDigitAlike
  <2> HIDE DEF r
  <2>2. CASE Alike(q, r)
    <3>1. Formed(r)
      BY <1>1, <2>2, AlikeFormed
    <3> QED BY <1>1, <2>2, <3>1 DEF Reads, Alike, HeaderStates, r, d
  <2> QED BY <1>4, <2>1, <2>2 DEF r, d
<1>6. Reads(p, Go(p, "header_almost_done")) /\ Reads(p, Go(p, "header_value_lws"))
  BY GoReads DEF HeaderStates
<1> QED BY <1>2, <1>3, <1>4, <1>5, <1>6 DEF HeaderValue, q

LEMMA AfterReads ==
  ASSUME NEW p, Ready(p), NEW c, NEW next,
         p.state \in {"header_almost_done", "header_value_lws", "header_value_discard_ws",
                      "header_value_discard_ws_almost_done", "header_value_discard_lws"}
  PROVE  Reads(p, AfterValue(p, c, next)) \/ Finishes(p, AfterValue(p, c, next))
<1>1. Formed(p) /\ p.events = <<>> /\ p.err = "OK" /\ p.state \in HeaderStates
  BY DEF Ready, HeaderStates
<1>2. \A s \in HeaderStates : Reads(p, Go(p, s))
  BY <1>1, GoReads
<1>3. Reads(p, Fail(p, "LF_EXPECTED")) /\ Reads(p, Fail(p, "STRICT"))
  BY <1>1, FailReads
<1>4. Reads(p, HeaderValueStart(p, c, next))
  BY <1>1, ValueStartReads
<1>5. ASSUME NEW h
      PROVE  Reads(p, HeaderValueStart([p EXCEPT !.h = h], c, next))
  <2> DEFINE q == [p EXCEPT !.h = h]
  <2>1. Alike(p, q) /\ Formed(q)
    BY <1>1 DEF Alike, Formed, Shape
  <2> HIDE DEF q
  <2>2. Reads(q, HeaderValueStart(q, c, next))
    BY <2>1, ValueStartReads
  <2>3. Reads(p, HeaderValueStart(q, c, next))
    BY <2>1, <2>2, ReadsOn
  <2> QED BY <2>3 DEF q
<1>6. ASSUME NEW q, Formed(q), q.state = p.state, q.method = p.method, q.err = "OK",
             q.events = <<>>, "trailing" \in q.flags <=> "trailing" \in p.flags
      PROVE  Reads(p, HeaderFieldStart(q, c)) \/ Finishes(p, HeaderFieldStart(q, c))
  <2>1. Ready(q) /\ q.state \in HeaderStates
    BY <1>1, <1>6 DEF Ready
  <2>2. Reads(q, HeaderFieldStart(q, c)) \/ Finishes(q, HeaderFieldStart(q, c))
    BY <2>1, FieldStartCorrect
  <2> QED BY <1>1, <1>6, <2>2 DEF Reads, Finishes
<1>7. CASE p.state \in {"header_almost_done", "header_value_discard_ws_almost_done"}
  BY <1>2, <1>3, <1>7 DEF AfterValue, HeaderStates
<1>8. CASE p.state = "header_value_lws"
  <2>1. CASE c \in Space
    BY <1>5, <1>8, <2>1 DEF AfterValue
  <2>2. CASE c \notin Space
    <3> DEFINE f == p.flags \cup ({p.h} \cap {"keep_alive", "close", "chunked"})
               q == [p EXCEPT !.flags = f]
    <3>1. AfterValue(p, c, next) = HeaderFieldStart(q, c)
      BY <1>8, <2>2 DEF AfterValue
    <3>2. "trailing" \in f <=> "trailing" \in p.flags
      OBVIOUS
    <3> HIDE DEF f
    <3>3. /\ Shape \subseteq DOMAIN q /\ q.state = p.state /\ q.method = p.method /\ q.flags = f
          /\ q.err = p.err /\ q.events = p.events /\ q.index = p.index /\ q.building = p.building
      BY <1>1 DEF Formed, Shape
    <3> HIDE DEF q
    <3>4. Formed(q)
      BY <1>1, <3>2, <3>3 DEF Formed
    <3> QED BY <1>1, <1>6, <3>1, <3>2, <3>3, <3>4
  <2> QED BY <2>1, <2>2
<1>9. CASE p.state = "header_value_discard_ws"
  <2>1. Reads(p, p)
    BY <1>1 DEF Reads
  <2> QED BY <1>2, <1>4, <1>9, <2>1 DEF AfterValue, HeaderStates
<1>10. CASE p.state = "header_value_discard_lws"
  <2> DEFINE q == OnValue(p, <<>>)
  <2>1. Alike(p, q) /\ Formed(q)
    BY <1>1, ValueAlike, AlikeFormed
  <2> HIDE DEF q
  <2>2. Reads(p, HeaderFieldStart(q, c)) \/ Finishes(p, HeaderFieldStart(q, c))
    BY <1>1, <1>6, <2>1 DEF Alike
  <2>3. AfterValue(p, c, next) =
          IF c \in Space THEN Go(p, "header_value_discard_ws") ELSE HeaderFieldStart(q, c)
    BY <1>10 DEF AfterValue, q
  <2> QED BY <1>2, <2>2, <2>3 DEF HeaderStates
<1> QED BY <1>7, <1>8, <1>9, <1>10
-----------------------------------------------------------------------------
(* The body, and one piece of any kind.                                    *)

LEMMA ReadsMoves ==
  ASSUME NEW p, Ready(p), p.state \in HeaderStates, NEW q, Reads(p, q) \/ Finishes(p, q)
  PROVE  Formed(q) /\ Moves(p, q)
<1>1. Formed(q) /\ q.method = p.method /\ p.events = <<>>
  BY DEF Reads, Finishes, Ready
<1>2. InHead(p) <=> "trailing" \notin p.flags
  BY DEF InHead, HeaderStates, Line
<1>3. InBody(p) <=> "trailing" \in p.flags
  BY DEF InBody, HeaderStates, Chunked, Sized
<1>4. CASE Reads(p, q)
  <2>1. q.err # "OK" => Breaks(p, q)
    BY <1>1, <1>4 DEF Reads, Breaks
  <2>2. ASSUME q.err = "OK"
        PROVE  Heads(p, q) \/ Fills(p, q)
    <3>1. q.state \in HeaderStates /\ q.events = <<>>
          /\ ("trailing" \in q.flags <=> "trailing" \in p.flags)
      BY <1>1, <1>4, <2>2 DEF Reads
    <3>2. "trailing" \notin p.flags => Heads(p, q)
      BY <1>1, <1>2, <3>1 DEF Heads, InHead
    <3>3. "trailing" \in p.flags => Fills(p, q)
      BY <1>1, <1>3, <3>1 DEF Fills, InBody
    <3> QED BY <3>2, <3>3
  <2> QED BY <1>1, <2>1, <2>2 DEF Moves
<1>5. CASE Finishes(p, q)
  <2>1. q.err # "OK" => Breaks(p, q)
    BY <1>1, <1>2, <1>5 DEF Finishes, Breaks
  <2>2. q.err = "OK" /\ "trailing" \in p.flags => Fills(p, q)
    BY <1>1, <1>3, <1>5 DEF Finishes, Fills
  <2>3. q.err = "OK" /\ "trailing" \notin p.flags => Heads(p, q)
    BY <1>1, <1>2, <1>5 DEF Finishes, Heads
  <2> QED BY <1>1, <2>1, <2>2, <2>3 DEF Moves
<1> QED BY <1>4, <1>5

\* A piece of the body, with which it may end.
LEMMA BodyMoves ==
  ASSUME NEW p, Ready(p), InBody(p), NEW q, Shape \subseteq DOMAIN q,
         q.state \notin {"req_method", "req_spaces_before_url"} \cup UrlStates \cup Line,
         q.method = p.method, q.err = "OK", q.index = p.index, q.building = p.building,
         \/ InBody(q) /\ q.events = <<>>
         \/ q.state \in Ended /\ q.events = <<"message">>
  PROVE  Formed(q) /\ Moves(p, q)
<1>1. Formed(q)
  BY DEF Ready, Formed
<1>2. Fills(p, q)
  BY DEF Fills
<1> QED BY <1>1, <1>2 DEF Moves

LEMMA IdentityMoves ==
  ASSUME NEW p, Ready(p), p.state = "body_identity", NEW c
  PROVE  Formed(BodyIdentity(p, c)) /\ Moves(p, BodyIdentity(p, c))
<1> DEFINE n == p.length - 1
           q == [p EXCEPT !.length = n, !.body = Append(@, c)]
           r == Raise(Go(q, "message_done"), "message")
<1>1. BodyIdentity(p, c) \in {q, r}
  BY DEF BodyIdentity
<1> HIDE DEF n
<1>2. Formed(p) /\ p.events = <<>> /\ p.err = "OK" /\ InBody(p)
  BY DEF Ready, InBody
<1>3. /\ Shape \subseteq DOMAIN q /\ q.state = "body_identity" /\ q.method = p.method
      /\ q.err = p.err /\ q.events = p.events /\ q.index = p.index /\ q.building = p.building
  BY <1>2 DEF Formed, Shape
<1> HIDE DEF q
<1>4. /\ Shape \subseteq DOMAIN r /\ r.state = "message_done" /\ r.method = p.method
      /\ r.err = p.err /\ r.events = Append(<<>>, "message") /\ r.index = p.index
      /\ r.building = p.building
  BY <1>2, <1>3 DEF Raise, Go, Shape
<1> HIDE DEF r
<1>5. r.events = <<"message">>
  BY <1>4
<1>6. Formed(q) /\ Moves(p, q)
  BY <1>2, <1>3, BodyMoves DEF InBody, UrlStates, UrlEnds, Line
<1>7. Formed(r) /\ Moves(p, r)
  BY <1>2, <1>4, <1>5, BodyMoves DEF UrlStates, UrlEnds, Line, Ended
<1> QED BY <1>1, <1>6, <1>7

LEMMA ChunkMoves ==
  ASSUME NEW p, Ready(p), p.state \in Chunked, NEW c
  PROVE  /\ p.state \in Sized \cup {"chunk_size_start"} =>
              Formed(ChunkSize(p, c)) /\ Moves(p, ChunkSize(p, c))
         /\ Formed(ChunkData(p, c)) /\ Moves(p, ChunkData(p, c))
<1>1. Formed(p) /\ p.events = <<>> /\ p.err = "OK" /\ InBody(p)
  BY DEF Ready, InBody
<1>2. ASSUME NEW q, Shape \subseteq DOMAIN q, q.state \in Chunked, q.method = p.method,
             q.err = p.err, q.events = p.events, q.index = p.index, q.building = p.building
      PROVE  Formed(q) /\ Moves(p, q)
  <2>1. InBody(q)
    BY <1>2 DEF InBody
  <2> QED BY <1>1, <1>2, <2>1, BodyMoves DEF Chunked, Sized, UrlStates, UrlEnds, Line
<1>3. \A e : e # "OK" => Formed(Fail(p, e)) /\ Moves(p, Fail(p, e))
  BY <1>1, FailBreaks DEF Moves
<1>4. ASSUME NEW s \in Chunked
      PROVE  Formed(Go(p, s)) /\ Moves(p, Go(p, s))
  <2> DEFINE q == Go(p, s)
  <2>1. /\ Shape \subseteq DOMAIN q /\ q.state = s /\ q.method = p.method
        /\ q.err = p.err /\ q.events = p.events /\ q.index = p.index /\ q.building = p.building
    BY <1>1 DEF Go, Formed, Shape
  <2> HIDE DEF q
  <2>2. Formed(q) /\ Moves(p, q)
    BY <1>2, <2>1
  <2> QED BY <2>2 DEF q
<1>5. ASSUME NEW n, NEW m, NEW b, NEW s \in Chunked
      PROVE  /\ Formed([p EXCEPT !.length = n, !.state = s])
             /\ Moves(p, [p EXCEPT !.length = n, !.state = s])
             /\ Formed([p EXCEPT !.nread = m, !.state = s])
             /\ Moves(p, [p EXCEPT !.nread = m, !.state = s])
             /\ Formed([p EXCEPT !.length = n, !.body = b, !.state = s])
             /\ Moves(p, [p EXCEPT !.length = n, !.body = b, !.state = s])
  <2>1. \A q \in {[p EXCEPT !.length = n, !.state = s], [p EXCEPT !.nread = m, !.state = s],
                  [p EXCEPT !.length = n, !.body = b, !.state = s]} :
          /\ Shape \subseteq DOMAIN q /\ q.state = s /\ q.method = p.method
          /\ q.err = p.err /\ q.events = p.events /\ q.index = p.index /\ q.building = p.building
    <3>1. LET q == [p EXCEPT !.length = n, !.state = s] IN
          /\ Shape \subseteq DOMAIN q /\ q.state = s /\ q.method = p.method
          /\ q.err = p.err /\ q.events = p.events /\ q.index = p.index /\ q.building = p.building
      BY <1>1 DEF Formed, Shape
    <3>2. LET q == [p EXCEPT !.nread = m, !.state = s] IN
          /\ Shape \subseteq DOMAIN q /\ q.state = s /\ q.method = p.method
          /\ q.err = p.err /\ q.events = p.events /\ q.index = p.index /\ q.building = p.building
      BY <1>1 DEF Formed, Shape
    <3>3. LET q == [p EXCEPT !.length = n, !.body = b, !.state = s] IN
          /\ Shape \subseteq DOMAIN q /\ q.state = s /\ q.method = p.method
          /\ q.err = p.err /\ q.events = p.events /\ q.index = p.index /\ q.building = p.building
      BY <1>1 DEF Formed, Shape
    <3> QED BY <3>1, <3>2, <3>3
  <2>2. \A q \in {[p EXCEPT !.length = n, !.state = s], [p EXCEPT !.nread = m, !.state = s],
                  [p EXCEPT !.length = n, !.body = b, !.state = s]} : Formed(q) /\ Moves(p, q)
    BY <1>2, <2>1
  <2> QED BY <2>2
<1>6. p.state \in Sized \cup {"chunk_size_start"} =>
        Formed(ChunkSize(p, c)) /\ Moves(p, ChunkSize(p, c))
  <2> DEFINE d == HexDigit[c]
             Add == AddDigit(p, 16, d)
  <2>1. Formed(Add) /\ Moves(p, Add)
    <3> HIDE DEF d
    <3>1. Alike(p, Add) \/ \E e : e # "OK" /\ Add = Fail(p, e)
      BY <1>1, AddDigitAlike
    <3> HIDE DEF Add
    <3>2. CASE Alike(p, Add)
      <4>1. Formed(Add)
        BY <1>1, <3>2, AlikeFormed
      <4>2. InBody(Add)
        BY <3>2 DEF Alike, InBody
      <4>3. Add.method = p.method /\ Add.events = <<>> /\ Add.err = "OK"
        BY <1>1, <3>2 DEF Alike
      <4>4. Fills(p, Add)
        BY <1>1, <4>2, <4>3 DEF Fills
      <4> QED BY <4>1, <4>3, <4>4 DEF Moves
    <3> QED BY <1>3, <3>1, <3>2
  <2>2. \A n : /\ Formed([p EXCEPT !.length = n, !.state = "chunk_size"])
               /\ Moves(p, [p EXCEPT !.length = n, !.state = "chunk_size"])
    BY <1>5, Zenon DEF Chunked, Sized
  <2>3. \A s \in {"chunk_parameters", "chunk_size_almost_done"} :
          Formed(Go(p, s)) /\ Moves(p, Go(p, s))
    BY <1>4 DEF Chunked, Sized
  <2>4. Formed(p) /\ Moves(p, p)
    BY <1>1, <1>2 DEF Formed
  <2>5. ChunkSize(p, c) =
          CASE p.state = "chunk_size_start" /\ c \in DOMAIN HexDigit ->
                 [p EXCEPT !.length = d, !.state = "chunk_size"]
            [] p.state = "chunk_size" /\ c \in DOMAIN HexDigit -> Add
            [] p.state = "chunk_size" /\ c \in {";", " "} -> Go(p, "chunk_parameters")
            [] p.state \in {"chunk_size", "chunk_parameters"} /\ c = "CR" ->
                 Go(p, "chunk_size_almost_done")
            [] p.state = "chunk_parameters" /\ c # "CR" -> p
            [] OTHER -> Fail(p, "INVALID_CHUNK_SIZE")
    BY DEF ChunkSize
  <2> HIDE DEF Add, d
  <2> QED BY <1>3, <2>1, <2>2, <2>3, <2>4, <2>5, Zenon
<1>7. Formed(ChunkData(p, c)) /\ Moves(p, ChunkData(p, c))
  <2> DEFINE Trailer == [p EXCEPT !.nread = 0, !.flags = @ \cup {"trailing"},
                                  !.state = "header_field_start"]
             n == p.length - 1
             b == Append(p.body, c)
             s == IF p.length = 1 THEN "chunk_data_almost_done" ELSE p.state
             Data == [p EXCEPT !.length = n, !.body = b, !.state = s]
  <2>1. Formed(Trailer) /\ Moves(p, Trailer)
    <3> DEFINE q == Trailer
    <3>1. /\ Shape \subseteq DOMAIN q /\ q.state = "header_field_start" /\ q.method = p.method
          /\ q.flags = p.flags \cup {"trailing"}
          /\ q.err = p.err /\ q.events = p.events /\ q.index = p.index /\ q.building = p.building
      BY <1>1 DEF Formed, Shape
    <3> HIDE DEF q
    <3>2. InBody(q)
      BY <3>1 DEF InBody, HeaderStates
    <3>3. Formed(q) /\ Moves(p, q)
      BY <1>1, <3>1, <3>2, BodyMoves, Zenon DEF UrlStates, UrlEnds, Line
    <3> QED BY <3>3 DEF q
  <2>2. Formed(Data) /\ Moves(p, Data)
    <3>1. "chunk_data_almost_done" \in Chunked
      BY DEF Chunked
    <3>2. s \in Chunked
      BY <3>1
    <3> HIDE DEF n, b, s
    <3> QED BY <1>5, <3>2, Zenon
  <2>3. \A m, t : t \in {"chunk_data", "chunk_size_start"} =>
          Formed([p EXCEPT !.nread = m, !.state = t]) /\ Moves(p, [p EXCEPT !.nread = m, !.state = t])
    BY <1>5, Zenon DEF Chunked, Sized
  <2>4. Formed(Go(p, "chunk_data_done")) /\ Moves(p, Go(p, "chunk_data_done"))
    BY <1>4 DEF Chunked
  <2>5. [p EXCEPT !.length = @ - 1, !.body = Append(@, c),
                  !.state = IF p.length = 1 THEN "chunk_data_almost_done" ELSE @] = Data
    OBVIOUS
  <2>6. ChunkData(p, c) =
          CASE p.state = "chunk_size_almost_done" /\ c = "LF" ->
                 IF p.length = 0 THEN Trailer ELSE [p EXCEPT !.nread = 0, !.state = "chunk_data"]
            [] p.state = "chunk_data" -> Data
            [] p.state = "chunk_data_almost_done" /\ c = "CR" -> Go(p, "chunk_data_done")
            [] p.state = "chunk_data_done" /\ c = "LF" ->
                 [p EXCEPT !.nread = 0, !.state = "chunk_size_start"]
            [] OTHER -> Fail(p, "STRICT")
    BY <2>5 DEF ChunkData
  <2> HIDE DEF Trailer, Data
  <2> QED BY <1>3, <2>1, <2>2, <2>3, <2>4, <2>6, ZenonT(60)
<1> QED BY <1>6, <1>7

Waits(p) ==
  Ready(p) /\ p.state \in Early \cup UrlStates \cup Line \cup HeaderStates \cup Chunked
                          \cup {"body_identity"}

LEMMA DispatchMoves ==
  ASSUME NEW p, Waits(p), NEW c, NEW next
  PROVE  Formed(Dispatch(p, c, next)) /\ Moves(p, Dispatch(p, c, next))
<1>1. Ready(p)
  BY DEF Waits
<1>2. CASE p.state = "start_req"
  BY <1>1, <1>2, StartMoves DEF Dispatch, UrlStates, UrlEnds
<1>3. CASE p.state = "req_method"
  BY <1>1, <1>3, MethodMoves DEF Dispatch, UrlStates, UrlEnds
<1>4. CASE p.state \in UrlStates \cup {"req_spaces_before_url"}
  BY <1>1, <1>4, UrlMoves DEF Dispatch, UrlStates, UrlEnds
<1>5. CASE p.state \in Line
  BY <1>1, <1>5, VersionMoves DEF Dispatch, UrlStates, UrlEnds, Line
<1>6. CASE p.state \in HeaderStates
  <2>1. Dispatch(p, c, next) \in {HeaderFieldStart(p, c), HeaderField(p, c), HeaderValue(p, c),
                                  AfterValue(p, c, next), HeadersAlmostDone(p, c)}
    BY <1>6 DEF Dispatch, HeaderStates, UrlStates, UrlEnds
  <2>2. Formed(p)
    BY <1>1 DEF Ready
  <2>3. CASE p.state = "header_field_start"
    BY <1>1, <1>6, <2>3, FieldStartCorrect, ReadsMoves DEF Dispatch, UrlStates, UrlEnds
  <2>4. CASE p.state = "header_field"
    BY <1>1, <1>6, <2>2, <2>4, FieldReads, ReadsMoves DEF Dispatch, UrlStates, UrlEnds
  <2>5. CASE p.state = "header_value"
    BY <1>1, <1>6, <2>2, <2>5, ValueReads, ReadsMoves DEF Dispatch, UrlStates, UrlEnds
  <2>6. CASE p.state = "headers_almost_done"
    BY <1>1, <1>6, <2>6, AlmostDoneFinishes, ReadsMoves DEF Dispatch, UrlStates, UrlEnds
  <2>7. CASE p.state \in {"header_almost_done", "header_value_lws", "header_value_discard_ws",
                          "header_value_discard_ws_almost_done", "header_value_discard_lws"}
    <3>1. Dispatch(p, c, next) = AfterValue(p, c, next)
      BY <2>7 DEF Dispatch, UrlStates, UrlEnds
    <3> QED BY <1>1, <1>6, <2>7, <3>1, AfterReads, ReadsMoves
  <2> QED BY <1>6, <2>3, <2>4, <2>5, <2>6, <2>7 DEF HeaderStates
<1>7. CASE p.state \in {"chunk_size_start", "chunk_size", "chunk_parameters"}
  BY <1>1, <1>7, ChunkMoves DEF Dispatch, UrlStates, UrlEnds, Chunked, Sized
<1>8. CASE p.state \in {"chunk_size_almost_done", "chunk_data", "chunk_data_almost_done",
                        "chunk_data_done"}
  BY <1>1, <1>8, ChunkMoves DEF Dispatch, UrlStates, UrlEnds, Chunked, Sized
<1>9. CASE p.state = "body_identity"
  BY <1>1, <1>9, IdentityMoves DEF Dispatch, UrlStates, UrlEnds
<1> QED BY <1>2, <1>3, <1>4, <1>5, <1>6, <1>7, <1>8, <1>9 DEF Waits, Early, Chunked, Sized

\* The end of a fragment within the URL: what has come of it is routed.
CutShort(p, q) ==
  /\ q.state \in UrlStates /\ q.events = <<"url">>
  /\ p.state \in Early \/ (p.state \in UrlStates /\ q.method = p.method)

Steps(p, q) == Formed(q) /\ (Moves(p, q) \/ (q.err = "OK" /\ CutShort(p, q)))

LEMMA ExecuteMoves ==
  ASSUME NEW p, Waits(p), NEW c, NEW next
  PROVE  Steps(p, Execute(p, c, next))
<1> DEFINE n == p.nread + 1
           q == IF p.state \in BodyStates THEN p ELSE [p EXCEPT !.nread = n]
           r == IF q.nread > MaxHeader THEN Fail(q, "HEADER_OVERFLOW") ELSE Dispatch(q, c, next)
           u == IF r.err = "OK" /\ r.state \in UrlStates THEN Raise(r, "url") ELSE r
           v == [u EXCEPT !.marked = FALSE]
<1>1. Execute(p, c, next) = IF next = "" THEN v ELSE r
  BY DEF Execute
<1> HIDE DEF n
<1>2. Formed(p) /\ p.events = <<>> /\ p.err = "OK"
  BY DEF Waits, Ready
<1>3. /\ Shape \subseteq DOMAIN q /\ q.state = p.state /\ q.method = p.method /\ q.flags = p.flags
      /\ q.err = p.err /\ q.events = p.events /\ q.index = p.index /\ q.building = p.building
  <2>1. CASE p.state \in BodyStates
    BY <1>2, <2>1 DEF Formed
  <2>2. CASE p.state \notin BodyStates
    <3> DEFINE m == [p EXCEPT !.nread = n]
    <3>1. q = m
      BY <2>2
    <3>2. /\ Shape \subseteq DOMAIN m /\ m.state = p.state /\ m.method = p.method
          /\ m.flags = p.flags /\ m.err = p.err /\ m.events = p.events /\ m.index = p.index
          /\ m.building = p.building
      BY <1>2 DEF Formed, Shape
    <3> HIDE DEF m, q
    <3> QED BY <3>1, <3>2
  <2> QED BY <2>1, <2>2
<1> HIDE DEF q
<1>4. Formed(q) /\ Waits(q)
  BY <1>2, <1>3 DEF Formed, Waits, Ready
<1>5. Formed(r) /\ Moves(q, r)
  <2>1. Formed(Dispatch(q, c, next)) /\ Moves(q, Dispatch(q, c, next))
    BY <1>4, DispatchMoves
  <2>2. Formed(Fail(q, "HEADER_OVERFLOW")) /\ Moves(q, Fail(q, "HEADER_OVERFLOW"))
    BY <1>2, <1>3, <1>4, FailBreaks DEF Moves
  <2> QED BY <2>1, <2>2
<1> HIDE DEF r
<1>6. Moves(p, r)
  <2>1. (InHead(p) <=> InHead(q)) /\ (InBody(p) <=> InBody(q))
    BY <1>3 DEF InHead, InBody
  <2> QED BY <1>3, <1>5, <2>1 DEF Moves, Breaks, Starts, Names, Heads, Fills
<1>7. Steps(p, r)
  BY <1>5, <1>6 DEF Steps
<1>8. Steps(p, u)
  <2>1. CASE ~(r.err = "OK" /\ r.state \in UrlStates)
    BY <1>7, <2>1
  <2>2. CASE r.err = "OK" /\ r.state \in UrlStates
    <3>1. /\ ~InHead(r) /\ ~InBody(r) /\ r.state \notin Ended
      BY <2>2 DEF InHead, InBody, Line, HeaderStates, Chunked, Sized, Ended, UrlStates, UrlEnds
    <3>2. r.state \notin HeaderStates
      BY <2>2 DEF HeaderStates, UrlStates, UrlEnds
    <3>3. r.events = <<>> /\ (p.state \in Early \/ (p.state \in UrlStates /\ r.method = p.method))
      BY <1>6, <2>2, <3>1, <3>2 DEF Moves, Breaks, Starts, Names, Heads, Fills
    <3> DEFINE w == Raise(r, "url")
    <3>4. /\ Shape \subseteq DOMAIN w /\ w.state = r.state /\ w.method = r.method /\ w.flags = r.flags
          /\ w.err = r.err /\ w.events = Append(<<>>, "url") /\ w.index = r.index
          /\ w.building = r.building
      BY <1>5, <3>3 DEF Formed, Raise, Shape
    <3>5. u = w
      BY <2>2
    <3> HIDE DEF w, u
    <3>6. w.events = <<"url">>
      BY <3>4
    <3>7. Formed(w)
      BY <1>5, <3>4 DEF Formed
    <3>8. CutShort(p, w)
      BY <2>2, <3>3, <3>4, <3>6 DEF CutShort
    <3> QED BY <2>2, <3>4, <3>5, <3>7, <3>8 DEF Steps
  <2> QED BY <2>1, <2>2
<1> HIDE DEF u
<1>9. Steps(p, v)
  <2>1. Alike(u, v)
    BY <1>8 DEF Steps, Formed, Shape, Alike
  <2> HIDE DEF v
  <2>2. Formed(v)
    BY <1>8, <2>1, AlikeFormed DEF Steps
  <2>3. (InHead(v) <=> InHead(u)) /\ (InBody(v) <=> InBody(u))
    BY <2>1 DEF Alike, InHead, InBody
  <2> QED BY <1>8, <2>1, <2>2, <2>3
        DEF Steps, Alike, CutShort, Moves, Breaks, Starts, Names, Heads, Fills
<1> QED BY <1>1, <1>7, <1>9
-----------------------------------------------------------------------------
(* The callbacks, and the record of the connection.                        *)

Late == Line \cup HeaderStates \cup Chunked \cup {"body_identity"}

LEMMA ClearFormed ==
  ASSUME NEW p, Formed(p)
  PROVE  /\ Formed(Clear(p)) /\ Clear(p).state = "start_req" /\ Clear(p).err = p.err
         /\ Clear(p).events = p.events
BY DEF Formed, Clear, Shape, UrlStates, UrlEnds, Line

LEMMA QuietCorrect ==
  ASSUME NEW p, Formed(p), Sane(p), NEW q, q = [p EXCEPT !.events = <<>>]
  PROVE  /\ Formed(q) /\ Sane(q) /\ q.events = <<>>
         /\ q.state = p.state /\ q.method = p.method /\ q.err = p.err /\ q.flags = p.flags
<1>1. Sane(q)
  BY DEF Sane, Fields
<1>2. Formed(q) /\ q.events = <<>> /\ q.state = p.state /\ q.method = p.method /\ q.err = p.err
      /\ q.flags = p.flags
  BY DEF Formed, Shape
<1> QED BY <1>1, <1>2

\* The record of the connection has its fields.
Parts == {"open", "close_connection", "add_keep_alive", "skip_body", "stop", "asked", "out"}
Intact(k) == Parts \subseteq DOMAIN k

LEMMA CompletedCorrect ==
  ASSUME NEW k, Intact(k), k.open, NEW r, NEW body, NEW given,
         NEW w, w = CompleteRequest(k, r, body, given)
  PROVE  /\ Intact(w) /\ w.stop = k.stop /\ w.skip_body = k.skip_body
         /\ w.out = Append(k.out, PrepareBuffers(k, r, body, given))
<1> DEFINE a == PrepareBuffers(k, r, body, given)
<1> HIDE DEF a
<1>1. w = IF r.file THEN WriteAndClose(k, a) ELSE WriteGeneral(k, a)
  BY DEF CompleteRequest, a
<1>2. /\ Intact(Write(k, a)) /\ Write(k, a).stop = k.stop /\ Write(k, a).skip_body = k.skip_body
      /\ Write(k, a).out = Append(k.out, a)
  BY DEF Write, Intact, Parts
<1>3. /\ Intact(WriteAndClose(k, a)) /\ WriteAndClose(k, a).stop = k.stop
      /\ WriteAndClose(k, a).skip_body = k.skip_body
      /\ WriteAndClose(k, a).out = Append(k.out, a)
  <2> DEFINE v == Write(k, a)
  <2> HIDE DEF v
  <2>1. Intact(v) /\ v.stop = k.stop /\ v.skip_body = k.skip_body /\ v.out = Append(k.out, a)
    BY <1>2 DEF v
  <2>2. WriteAndClose(k, a) = [v EXCEPT !.open = @ /\ ~k.close_connection]
    BY DEF WriteAndClose, v
  <2>3. \A b : LET u == [v EXCEPT !.open = b] IN
               Intact(u) /\ u.stop = v.stop /\ u.skip_body = v.skip_body /\ u.out = v.out
    BY <2>1 DEF Intact, Parts
  <2> QED BY <2>1, <2>2, <2>3
<1>4. w \in {Write(k, a), WriteAndClose(k, a)}
  BY <1>1 DEF WriteGeneral
<1> QED BY <1>2, <1>3, <1>4 DEF a

\* What End writes.
Written(k, r) ==
  PrepareBuffers(k, r, IF k.skip_body /\ ~r.file THEN 0 ELSE r.body,
                 IF ~k.skip_body THEN -1 ELSE IF r.file THEN 0 ELSE r.body)

Finished(k, r, w) ==
  Intact(w) /\ w.stop = k.stop /\ w.out = Append(k.out, Written(k, r))

LEMMA EndCorrect ==
  ASSUME NEW k, Intact(k), k.open, NEW r
  PROVE  /\ Finished(k, r, End(k, r, TRUE)) /\ ~End(k, r, TRUE).skip_body
         /\ Finished(k, r, End(k, r, FALSE))
<1> DEFINE body == IF k.skip_body /\ ~r.file THEN 0 ELSE r.body
           given == IF ~k.skip_body THEN -1 ELSE IF r.file THEN 0 ELSE r.body
           done == CompleteRequest(k, r, body, given)
           reset == [done EXCEPT !.skip_body = FALSE]
<1>1. End(k, r, TRUE) = reset /\ End(k, r, FALSE) = done
  BY DEF End
<1>2. Written(k, r) = PrepareBuffers(k, r, body, given)
  BY DEF Written
<1> HIDE DEF body, given
<1>3. Intact(done) /\ done.stop = k.stop /\ done.out = Append(k.out, Written(k, r))
  BY <1>2, CompletedCorrect
<1> HIDE DEF done
<1>4. /\ Intact(reset) /\ reset.stop = k.stop /\ ~reset.skip_body
      /\ reset.out = Append(k.out, Written(k, r))
  BY <1>3 DEF Intact, Parts
<1> HIDE DEF reset
<1> QED BY <1>1, <1>3, <1>4 DEF Finished

LEMMA UrlHandled ==
  ASSUME NEW k, Intact(k), k.open, NEW r, NEW w, w = HandleUrl(k, r)
  PROVE  /\ Intact(w)
         /\ r.found => /\ w.out = k.out /\ w.stop = k.stop
                       /\ w.skip_body <=> k.skip_body \/ r.head
         /\ ~r.found => w.out = Append(k.out, Written(k, r)) /\ w.stop = "error"
<1>1. CASE r.found
  BY <1>1 DEF HandleUrl, Intact, Parts
<1>2. CASE ~r.found
  <2> DEFINE e == End(k, r, FALSE)
  <2>1. w = [e EXCEPT !.stop = "error"]
    BY <1>2 DEF HandleUrl
  <2>2. Intact(e) /\ e.out = Append(k.out, Written(k, r))
    BY EndCorrect DEF Finished
  <2> HIDE DEF e
  <2> QED BY <1>2, <2>1, <2>2 DEF Intact, Parts
<1> QED BY <1>1, <1>2

Interim(r) == [code |-> 100, head |-> r.head, body |-> 0, length |-> 0, keep |-> FALSE]

Told(k, r, w) ==
  /\ Intact(w) /\ w.stop = k.stop /\ w.skip_body = k.skip_body /\ w.open = k.open
  /\ w.out = IF r.expect THEN Append(k.out, Interim(r)) ELSE k.out

LEMMA HeaderHandled ==
  ASSUME NEW k, Intact(k), k.open, NEW r
  PROVE  Told(k, r, HandleHeader(k, r))
<1> DEFINE w == HandleHeader(k, r)
<1>1. w = IF r.expect THEN Write(k, Interim(r)) ELSE k
  BY DEF HandleHeader, Interim
<1> DEFINE a == Interim(r)
<1>2. a = Interim(r)
  OBVIOUS
<1> HIDE DEF a
<1>3. LET v == Write(k, a) IN
      /\ Intact(v) /\ v.stop = k.stop /\ v.skip_body = k.skip_body /\ v.open = k.open
      /\ v.out = Append(k.out, a)
  BY DEF Write, Intact, Parts
<1> HIDE DEF w
<1>4. Told(k, r, w)
  BY <1>1, <1>2, <1>3 DEF Told
<1> QED BY <1>4 DEF w

Refused(r) == [r EXCEPT !.code = 400, !.file = FALSE]

\* Without Host the request is refused; another protocol is not answered; and
\* what is left is answered by its handler, which resets skip_body.
Handled(k, r, w) ==
  /\ Intact(w)
  /\ ~r.host => /\ w.stop = k.stop /\ w.skip_body = k.skip_body
                /\ \E v : w.out = Append(k.out, PrepareBuffers(v, Refused(r), 0, -1))
  /\ r.host /\ r.upgrade => w.stop = "upgrade" /\ w.out = k.out
  /\ r.host /\ ~r.upgrade =>
       /\ w.stop = k.stop /\ ~w.skip_body
       /\ \E v : w.out = Append(k.out, Written(v, r)) /\ v.skip_body = k.skip_body

LEMMA RequestHandled ==
  ASSUME NEW k, Intact(k), k.open, NEW r, NEW w, w = Handle(k, r, TRUE)
  PROVE  Handled(k, r, w)
<1> DEFINE n == k.asked + 1
           v == [k EXCEPT !.asked = n, !.add_keep_alive = r.keep, !.close_connection = r.close]
<1>1. w = IF ~r.host THEN CompleteRequest(v, Refused(r), 0, -1)
          ELSE IF r.upgrade THEN HandleUpgrade(v) ELSE End(v, r, TRUE)
  BY DEF Handle, Refused
<1> HIDE DEF n
<1>2. Intact(v) /\ v.stop = k.stop /\ v.skip_body = k.skip_body /\ v.open = k.open /\ v.out = k.out
  BY DEF Intact, Parts
<1> HIDE DEF v
<1>3. CASE ~r.host
  <2>1. w = CompleteRequest(v, Refused(r), 0, -1)
    BY <1>1, <1>3
  <2>2. /\ Intact(w) /\ w.stop = v.stop /\ w.skip_body = v.skip_body
        /\ w.out = Append(v.out, PrepareBuffers(v, Refused(r), 0, -1))
    BY <1>2, <2>1, CompletedCorrect
  <2> QED BY <1>2, <1>3, <2>2 DEF Handled
<1>4. CASE r.host /\ r.upgrade
  <2>1. w = [v EXCEPT !.close_connection = TRUE, !.stop = "upgrade"]
    BY <1>1, <1>4 DEF HandleUpgrade
  <2> QED BY <1>2, <1>4, <2>1 DEF Intact, Parts, Handled
<1>5. CASE r.host /\ ~r.upgrade
  <2>1. w = End(v, r, TRUE)
    BY <1>1, <1>5
  <2>2. v.open /\ Intact(v)
    BY <1>2
  <2>3. Finished(v, r, w) /\ ~w.skip_body
    BY <2>1, <2>2, EndCorrect
  <2> QED BY <1>2, <1>5, <2>3 DEF Handled, Finished
<1> QED BY <1>3, <1>4, <1>5
-----------------------------------------------------------------------------
(* What the callbacks make of a parser, a connection, a route and a log.   *)

Made(s, p, k, r, l) ==
  /\ {"p", "k", "route", "log"} \subseteq DOMAIN s
  /\ s.p = p /\ s.k = k /\ s.route = r /\ s.log = l

LEMMA EventsCorrect ==
  /\ ToSet(<<>>) = {} /\ \A a : ToSet(<<a>>) = {a}
  /\ \A a, b : ToSet(<<a, b>>) = {a, b}
<1>1. ToSet(<<>>) = {}
  BY DEF ToSet
<1>2. ASSUME NEW a PROVE ToSet(<<a>>) = {a}
  BY DEF ToSet
<1>3. ASSUME NEW a, NEW b PROVE ToSet(<<a, b>>) = {a, b}
  <2> DEFINE s == <<a, b>>
  <2>1. DOMAIN s = 1..2 /\ s[1] = a /\ s[2] = b
    OBVIOUS
  <2> HIDE DEF s
  <2>2. \A i \in 1..2 : i = 1 \/ i = 2
    OBVIOUS
  <2>3. \A x : x \in ToSet(s) <=> x \in {a, b}
    BY <2>1, <2>2 DEF ToSet
  <2> QED BY <2>3 DEF s
<1> QED BY <1>1, <1>2, <1>3

\* The route of a URL, and what the connection and the log have when it is
\* known and when it is not.
Found(p) == RouteOf(tries, p.method, Url(p))
OfUrl(p, k) == HandleUrl(k, AsRequest(p, Found(p), Answer(Found(p).code, <<>>)))
Routed(s, p, k, l) ==
  IF Found(p).rule # 0 THEN Made(s, p, OfUrl(p, k), Found(p), l)
  ELSE Made(s, Fail(Clear(p), "INVALID_EOF_STATE"), OfUrl(p, k), Found(p),
            Append(l, Logged(p, Found(p), Answer(Found(p).code, <<>>))))

OfHeader(p, k, r) == HandleHeader(k, AsRequest(p, r, Answer(0, <<>>)))

\* What a handler answers, and what is done with it.
Replied(p, r, engine) == Respond(table, r, p.body, engine)
OfMessage(p, k, r, engine) == Handle(k, AsRequest(p, r, Replied(p, r, engine)), TRUE)
Completed(s, p, k, r, l, engine, next) ==
  LET h == OfMessage(p, k, r, engine) IN
  Made(s, IF h.stop = "upgrade" THEN p ELSE Clear(p),
       IF h.stop = "no" /\ p.upgrade /\ next # "" THEN [h EXCEPT !.stop = "error"] ELSE h, r,
       Append(l, Logged(p, r, IF HasHost(p) THEN Replied(p, r, engine) ELSE Answer(400, <<>>))))

LEMMA RoutedCorrect ==
  ASSUME NEW p, NEW k, NEW r, NEW l, NEW s, Made(s, p, k, r, l)
  PROVE  Routed(OnUrl(s), p, k, l)
<1> DEFINE found == Found(p)
           answer == Answer(found.code, <<>>)
           h == OfUrl(p, k)
           e == Logged(p, found, answer)
           t == [s EXCEPT !.route = found, !.k = h]
           z == Append(l, e)
           x == Fail(Clear(p), "INVALID_EOF_STATE")
           u == [t EXCEPT !.p = x, !.log = z]
<1>1. OnUrl(s) = Route(s, found)
  BY DEF OnUrl, Found, Made
<1>2. HandleUrl(s.k, AsRequest(s.p, found, answer)) = h
  BY DEF OfUrl, Made
<1> HIDE DEF found, h
<1>3. Made(t, p, h, found, l)
  BY DEF Made
<1>4. [s EXCEPT !.route = found, !.k = HandleUrl(@, AsRequest(s.p, found, answer))] = t
  BY <1>2
<1>5. Logged(s.p, found, answer) = e
  BY DEF Made
<1> HIDE DEF t, e, answer
<1>6. /\ found.rule # 0 => Route(s, found) = t
      /\ found.rule = 0 => Route(s, found) = [t EXCEPT !.p = Fail(Clear(@), "INVALID_EOF_STATE"),
                                                       !.log = Append(@, e)]
  BY <1>4, <1>5 DEF Route, answer
<1>7. [t EXCEPT !.p = Fail(Clear(@), "INVALID_EOF_STATE"), !.log = Append(@, e)] = u
  BY <1>3 DEF Made
<1> HIDE DEF x, z
<1>8. Made(u, x, h, found, z)
  BY <1>3 DEF Made
<1> HIDE DEF u
<1> QED BY <1>1, <1>3, <1>6, <1>7, <1>8 DEF Routed, found, h, e, answer, x, z

LEMMA HeadedCorrect ==
  ASSUME NEW p, NEW k, NEW r, NEW l, NEW s, Made(s, p, k, r, l)
  PROVE  Made(OnHeaders(s), p, OfHeader(p, k, r), r, l)
<1> DEFINE h == OfHeader(p, k, r)
<1>1. HandleHeader(s.k, AsRequest(s.p, s.route, Answer(0, <<>>))) = h
  BY DEF OfHeader, Made
<1> HIDE DEF h
<1>2. OnHeaders(s) = [s EXCEPT !.k = h]
  BY <1>1 DEF OnHeaders
<1> QED BY <1>2 DEF Made, h

LEMMA CompletedCorrectly ==
  ASSUME NEW p, NEW k, NEW r, NEW l, NEW s, Made(s, p, k, r, l), NEW engine, NEW next
  PROVE  Completed(OnMessage(s, engine, next), p, k, r, l, engine, next)
<1> DEFINE answer == Replied(p, r, engine)
           h == OfMessage(p, k, r, engine)
           e == Logged(p, r, IF HasHost(p) THEN answer ELSE Answer(400, <<>>))
           x == IF h.stop = "upgrade" THEN p ELSE Clear(p)
           y == IF h.stop = "no" /\ p.upgrade /\ next # "" THEN [h EXCEPT !.stop = "error"] ELSE h
           z == Append(l, e)
           u == [s EXCEPT !.p = x, !.k = y, !.log = z]
<1>1. s.p = p /\ s.k = k /\ s.log = l /\ s.route = r
  BY DEF Made
<1>2. OnMessage(s, engine, next) = HandleMessage(s, answer, h, next)
  BY <1>1 DEF OnMessage, Answered, Replied, OfMessage
<1> HIDE DEF h, answer
<1>3. HandleMessage(s, answer, h, next) = u
  BY <1>1 DEF HandleMessage
<1> HIDE DEF x, y, z
<1>4. Made(u, x, y, r, z)
  BY DEF Made
<1> HIDE DEF u
<1> QED BY <1>2, <1>3, <1>4 DEF Completed, h, answer, e, x, y, z

Quiet(p) == [p EXCEPT !.events = <<>>]

LEMMA CallbacksCorrect ==
  ASSUME NEW p, NEW k, NEW r, NEW l, NEW engine, NEW next, NEW w, Made(w, p, k, r, l),
         NEW q, q = Quiet(p), NEW s, s = Callbacks(w, engine, next)
  PROVE  /\ p.events = <<>> => Made(s, q, k, r, l)
         /\ p.events = <<"url">> => Routed(s, q, k, l)
         /\ p.events = <<"headers">> => Made(s, q, OfHeader(q, k, r), r, l)
         /\ p.events = <<"message">> => Completed(s, q, k, r, l, engine, next)
         /\ p.events = <<"headers", "message">> =>
              Completed(s, q, OfHeader(q, k, r), r, l, engine, next)
<1> DEFINE Due(e) == e \in ToSet(p.events)
           quiet == [w EXCEPT !.p = q]
           routed == IF Due("url") THEN OnUrl(quiet) ELSE quiet
           headed == IF Due("headers") THEN OnHeaders(routed) ELSE routed
<1>1. w.p = p /\ [w EXCEPT !.p.events = <<>>] = quiet
  BY DEF Made, Quiet
<1>2. s = IF Due("message") THEN OnMessage(headed, engine, next) ELSE headed
  <2> HIDE DEF quiet
  <2> QED BY <1>1 DEF Callbacks
<1>3. Made(quiet, q, k, r, l)
  BY DEF Made
<1> HIDE DEF quiet
<1>4. CASE p.events = <<>>
  BY <1>2, <1>3, <1>4, EventsCorrect
<1>5. CASE p.events = <<"url">>
  BY <1>2, <1>3, <1>5, EventsCorrect, RoutedCorrect
<1>6. CASE p.events = <<"headers">>
  BY <1>2, <1>3, <1>6, EventsCorrect, HeadedCorrect
<1>7. CASE p.events = <<"message">>
  BY <1>2, <1>3, <1>7, EventsCorrect, CompletedCorrectly
<1>8. CASE p.events = <<"headers", "message">>
  <2> DEFINE h == OnHeaders(quiet)
             k1 == OfHeader(q, k, r)
  <2>1. Made(h, q, k1, r, l)
    BY <1>3, HeadedCorrect
  <2>2. s = OnMessage(h, engine, next)
    BY <1>2, <1>8, EventsCorrect
  <2> HIDE DEF k1, h
  <2>3. Completed(s, q, k1, r, l, engine, next)
    BY <2>1, <2>2, CompletedCorrectly
  <2> QED BY <1>8, <2>3 DEF k1
<1> QED BY <1>4, <1>5, <1>6, <1>7, <1>8
-----------------------------------------------------------------------------
(* The connection reads on with a parser that waits.                       *)

LEMMA EventsDiffer ==
  /\ \A a, b, c : <<a, b>> # <<c>> /\ <<a, b>> # <<>> /\ <<c>> # <<>>
  /\ <<"message">> # <<"url">> /\ <<"message">> # <<"headers">> /\ <<"url">> # <<"headers">>
<1>1. \A a, b : Len(<<a>>) = 1 /\ Len(<<a, b>>) = 2 /\ Len(<<>>) = 0
  OBVIOUS
<1>2. <<"message">>[1] = "message" /\ <<"url">>[1] = "url" /\ <<"headers">>[1] = "headers"
  OBVIOUS
<1>3. \A a, b, c : <<a, b>> # <<c>> /\ <<a, b>> # <<>> /\ <<c>> # <<>>
  BY <1>1
<1>4. <<"message">> # <<"url">> /\ <<"message">> # <<"headers">> /\ <<"url">> # <<"headers">>
  BY <1>2
<1> QED BY <1>3, <1>4

LEMMA StepsCorrect ==
  ASSUME NEW p, NEW q, Steps(p, q)
  PROVE  /\ q.events \in {<<>>, <<"url">>, <<"headers">>, <<"message">>, <<"headers", "message">>}
         /\ q.events \in {<<>>, <<"url">>, <<"headers">>} /\ q.err = "OK" =>
              q.state \in Early \cup UrlStates \cup Late
<1>1. /\ InHead(q) => q.state \in Late
      /\ InBody(q) => q.state \in Late
  BY DEF InHead, InBody, Late
<1>2. CASE Breaks(p, q)
  BY <1>2 DEF Breaks
<1>3. CASE Starts(p, q)
  BY <1>3 DEF Starts
<1>4. CASE Names(p, q)
  BY <1>1, <1>4 DEF Names
<1>5. CASE Heads(p, q)
  BY <1>1, <1>5, EventsDiffer DEF Heads
<1>6. CASE Fills(p, q)
  BY <1>1, <1>6, EventsDiffer DEF Fills
<1>7. CASE CutShort(p, q)
  BY <1>7 DEF CutShort
<1> QED BY <1>2, <1>3, <1>4, <1>5, <1>6, <1>7 DEF Steps, Moves

\* Of the fields that a step may leave on a connection, what the next one needs.
Attends(p, k) ==
  /\ Formed(p) /\ Sane(p) /\ p.events = <<>>
  /\ Intact(k)
  /\ k.open => Waits(p) /\ k.stop = "no"

\* A connection that a piece has left to itself: do_read has not yet gone on.
Returns(p, k) ==
  /\ Formed(p) /\ Sane(p) /\ p.events = <<>>
  /\ Intact(k)
  /\ p.err = "OK" /\ k.stop = "no" => Waits(p)

LEMMA WaitsOn ==
  ASSUME NEW p, Formed(p), p.events = <<>>,
         p.err = "OK" => p.state \in Early \cup UrlStates \cup Late
  PROVE  p.err = "OK" => Waits(p)
BY DEF Waits, Ready, Late

LEMMA Cleared ==
  ASSUME NEW p, Formed(p), Sane(p), p.events = <<>>, NEW q, q = Clear(p)
  PROVE  Formed(q) /\ Sane(q) /\ q.events = <<>> /\ (q.err = "OK" => Waits(q))
<1>1. Formed(q) /\ Sane(q) /\ q.events = <<>> /\ q.state = "start_req"
  BY ClearFormed, ClearCorrect
<1> QED BY <1>1, WaitsOn DEF Early

LEMMA RoutedReturns ==
  ASSUME NEW p, Formed(p), Sane(p), p.events = <<>>, p.err = "OK" => Waits(p),
         NEW k, Intact(k), k.open, NEW l, NEW s, Routed(s, p, k, l)
  PROVE  Returns(s.p, s.k)
<1> DEFINE x == Clear(p)
           y == Fail(x, "INVALID_EOF_STATE")
<1>1. Intact(OfUrl(p, k))
  BY UrlHandled DEF OfUrl
<1>2. s.k = OfUrl(p, k) /\ (s.p = p \/ s.p = y)
  BY DEF Routed, Made
<1>3. Formed(x) /\ Sane(x) /\ x.events = <<>>
  BY Cleared
<1> HIDE DEF x
<1>4. Formed(y) /\ Sane(y) /\ y.events = <<>> /\ y.err # "OK"
  BY <1>3, FailBreaks, FailCorrect DEF Fail, Formed, Shape
<1> HIDE DEF y
<1> QED BY <1>1, <1>2, <1>4 DEF Returns

LEMMA CompletedReturns ==
  ASSUME NEW p, Formed(p), Sane(p), p.events = <<>>,
         NEW k, Intact(k), k.open, NEW r, NEW l, NEW engine, NEW next,
         NEW s, Completed(s, p, k, r, l, engine, next)
  PROVE  Returns(s.p, s.k)
<1> DEFINE h == OfMessage(p, k, r, engine)
           x == Clear(p)
           y == [h EXCEPT !.stop = "error"]
<1>1. Intact(h)
  BY RequestHandled DEF OfMessage, Handled
<1>2. /\ s.p = IF h.stop = "upgrade" THEN p ELSE x
      /\ s.k = IF h.stop = "no" /\ p.upgrade /\ next # "" THEN y ELSE h
  BY DEF Completed, Made
<1>3. Formed(x) /\ Sane(x) /\ x.events = <<>> /\ (x.err = "OK" => Waits(x))
  BY Cleared
<1> HIDE DEF x, h
<1>4. Intact(y) /\ y.stop = "error"
  BY <1>1 DEF Intact, Parts
<1> HIDE DEF y
<1> QED BY <1>1, <1>2, <1>3, <1>4 DEF Returns

LEMMA PieceReturns ==
  ASSUME NEW p, NEW k, Attends(p, k), k.open, NEW c, NEW next, NEW r, NEW l, NEW engine,
         NEW q, q = Execute(p, c, next), NEW w, Made(w, q, k, r, l),
         NEW s, s = Callbacks(w, engine, next)
  PROVE  Returns(s.p, s.k)
<1>1. Tested(p)
  BY DEF Attends, Waits, Ready, Tested, Sane, Early, UrlStates, UrlEnds, Line, HeaderStates,
         Chunked, Sized, Ended
<1>2. Steps(p, q) /\ Sane(q) /\ Formed(q) /\ Intact(k)
  BY <1>1, ExecuteMoves, ExecuteCorrect DEF Attends, Steps
<1> DEFINE u == Quiet(q)
<1>3. /\ Formed(u) /\ Sane(u) /\ u.events = <<>>
      /\ u.state = q.state /\ u.err = q.err
  BY <1>2, QuietCorrect DEF Quiet
<1> HIDE DEF u
<1>4. q.events \in {<<>>, <<"url">>, <<"headers">>} => (u.err = "OK" => Waits(u))
  BY <1>2, <1>3, StepsCorrect, WaitsOn
<1>5. Intact(OfHeader(u, k, r)) /\ OfHeader(u, k, r).open = k.open
  BY <1>2, HeaderHandled DEF OfHeader, Told
<1>6. CASE q.events = <<>>
  <2>1. Made(s, u, k, r, l)
    BY <1>6, CallbacksCorrect DEF u
  <2> QED BY <1>2, <1>3, <1>4, <1>6, <2>1 DEF Made, Returns
<1>7. CASE q.events = <<"url">>
  <2>1. Routed(s, u, k, l)
    BY <1>7, CallbacksCorrect DEF u
  <2> QED BY <1>2, <1>3, <1>4, <1>7, <2>1, RoutedReturns
<1>8. CASE q.events = <<"headers">>
  <2>1. Made(s, u, OfHeader(u, k, r), r, l)
    BY <1>8, CallbacksCorrect DEF u
  <2> QED BY <1>3, <1>4, <1>5, <1>8, <2>1 DEF Made, Returns
<1>9. CASE q.events = <<"message">>
  <2>1. Completed(s, u, k, r, l, engine, next)
    BY <1>9, CallbacksCorrect DEF u
  <2> QED BY <1>2, <1>3, <2>1, CompletedReturns
<1>10. CASE q.events = <<"headers", "message">>
  <2>1. Completed(s, u, OfHeader(u, k, r), r, l, engine, next)
    BY <1>10, CallbacksCorrect DEF u
  <2>2. OfHeader(u, k, r).open
    BY <1>5
  <2> DEFINE k1 == OfHeader(u, k, r)
  <2> HIDE DEF k1
  <2>3. Intact(k1) /\ k1.open /\ Completed(s, u, k1, r, l, engine, next)
    BY <1>5, <2>1, <2>2 DEF k1
  <2> QED BY <1>3, <2>3, CompletedReturns
<1> QED BY <1>2, <1>6, <1>7, <1>8, <1>9, <1>10, StepsCorrect
-----------------------------------------------------------------------------
\* What a read makes of the connection.
Onward(s, last) ==
  [s.k EXCEPT !.open = /\ s.p.err = "OK" /\ s.k.stop = "no" /\ s.k.open
                       /\ last => ~s.k.close_connection]

LEMMA OnwardCorrect ==
  ASSUME NEW s, Intact(s.k), NEW last, NEW k, k = Onward(s, last)
  PROVE  /\ Intact(k) /\ k.stop = s.k.stop /\ k.out = s.k.out
         /\ k.skip_body = s.k.skip_body
         /\ k.open => s.p.err = "OK" /\ s.k.stop = "no"
<1> DEFINE b == /\ s.p.err = "OK" /\ s.k.stop = "no" /\ s.k.open
                /\ last => ~s.k.close_connection
<1>1. k = [s.k EXCEPT !.open = b]
  BY DEF Onward
<1>2. b => s.p.err = "OK" /\ s.k.stop = "no"
  OBVIOUS
<1> HIDE DEF b
<1> QED BY <1>1, <1>2 DEF Intact, Parts

LEMMA ReadCorrect ==
  ASSUME NEW last \in BOOLEAN, NEW engine \in Answers, Read(last, engine)
  PROVE  \E c, next, q, w, s :
           /\ q = Execute(parser, c, next) /\ Made(w, q, connection, route, log)
           /\ s = Callbacks(w, engine, next)
           /\ parser' = s.p /\ connection' = Onward(s, last) /\ route' = s.route /\ log' = s.log
<1> DEFINE c == input[at + 1]
           next == IF last THEN "" ELSE input[at + 2]
           q == Execute(parser, c, next)
           w == [p |-> q, k |-> connection, route |-> route, log |-> log]
           s == Callbacks(w, engine, next)
<1>1. Made(w, q, connection, route, log)
  <2> HIDE DEF q
  <2> QED BY DEF Made
<1>2. parser' = s.p /\ connection' = Onward(s, last) /\ route' = s.route /\ log' = s.log
  <2>1. \E x \in {q} : \E y \in {Callbacks([p |-> x, k |-> connection, route |-> route,
                                            log |-> log], engine, next)} :
          parser' = y.p /\ connection' = Onward(y, last) /\ route' = y.route /\ log' = y.log
    BY DEF Read, Onward
  <2> HIDE DEF q, next
  <2> QED BY <2>1
<1> HIDE DEF s, w, q, c, next
<1>3. q = Execute(parser, c, next) /\ s = Callbacks(w, engine, next)
  BY DEF q, s
<1> QED BY <1>1, <1>2, <1>3

Present ==
  /\ input \in Seq(STRING) /\ at \in 0..Len(input)
  /\ Attends(parser, connection)

LEMMA PresentAtFirst == input \in Seq(STRING) /\ Connected => Present
<1> SUFFICES ASSUME input \in Seq(STRING), Connected PROVE Present
  OBVIOUS
<1>1. at \in 0..Len(input)
  BY DEF Connected
<1>2. Formed(parser) /\ Waits(parser) /\ parser.events = <<>> /\ Sane(parser)
  BY NewParserCorrect
  DEF Connected, NewParser, Formed, Waits, Ready, Shape, Early, Spelling, UrlStates, UrlEnds, Line
<1>3. Intact(connection) /\ connection.stop = "no"
  BY DEF Connected, NewConnection, Intact, Parts
<1> QED BY <1>1, <1>2, <1>3 DEF Present, Attends

LEMMA PresentStays == Present /\ [Exchange]_exchange => Present'
<1> SUFFICES ASSUME Present, [Exchange]_exchange PROVE Present'
  OBVIOUS
<1>1. CASE UNCHANGED exchange
  BY <1>1 DEF exchange, Present, Attends
<1>2. ASSUME NEW last \in BOOLEAN, NEW engine \in Answers, Read(last, engine)
      PROVE  Present'
  <2>1. input' \in Seq(STRING) /\ at' \in 0..Len(input')
    <3>1. input' = input /\ at < Len(input) /\ at' = at + 1
      BY <1>2 DEF Read
    <3>2. input \in Seq(STRING) /\ at \in 0..Len(input) /\ Len(input) \in Nat
      BY DEF Present
    <3> QED BY <3>1, <3>2
  <2>2. PICK c, next, q, w, s :
           /\ q = Execute(parser, c, next) /\ Made(w, q, connection, route, log)
           /\ s = Callbacks(w, engine, next)
           /\ parser' = s.p /\ connection' = Onward(s, last) /\ route' = s.route /\ log' = s.log
    BY <1>2, ReadCorrect
  <2>3. Attends(parser, connection) /\ connection.open
    BY <1>2 DEF Read, Present
  <2>4. Returns(s.p, s.k)
    BY <2>2, <2>3, PieceReturns
  <2>5. Attends(parser', connection')
    BY <2>2, <2>4, OnwardCorrect DEF Attends, Returns
  <2> QED BY <2>1, <2>5 DEF Present
<1> QED BY <1>1, <1>2 DEF Exchange

\* Whatever the rules, the trees and the handlers, and however the pieces come:
\* between two reads the parser's counters and marks are what the assertions
\* of http_parser_execute say.
THEOREM ExchangeTypeCorrect == Serving => []TypeOK
<1>1. Present => TypeOK
  BY SaneIsCounted DEF Present, Attends, TypeOK, Formed
<1> QED BY <1>1, PresentAtFirst, PresentStays, PTL DEF Serving
-----------------------------------------------------------------------------
(* The answers that have been sent.                                        *)

IsTuple(t) == t \in Seq(ToSet(t))

LEMMA TupleAppends ==
  ASSUME NEW t, IsTuple(t), NEW a, NEW u, u = Append(t, a)
  PROVE  /\ IsTuple(u) /\ Len(t) \in Nat /\ Len(u) = Len(t) + 1
         /\ DOMAIN t = 1..Len(t) /\ DOMAIN u = 1..(Len(t) + 1)
         /\ u[Len(t) + 1] = a /\ \A i \in 1..Len(t) : u[i] = t[i]
<1> DEFINE S == ToSet(t) \cup {a}
<1>1. t \in Seq(S) /\ a \in S
  <2>1. t \in Seq(ToSet(t)) /\ ToSet(t) \subseteq S
    BY DEF IsTuple
  <2> HIDE DEF S
  <2>2. t \in Seq(S)
    BY <2>1
  <2> QED BY <2>2 DEF S
<1> HIDE DEF S
<1>2. u \in Seq(S) /\ Len(u) = Len(t) + 1 /\ u[Len(t) + 1] = a
      /\ \A i \in 1..Len(t) : u[i] = t[i]
  BY <1>1, AppendProperties
<1>3. DOMAIN t = 1..Len(t) /\ DOMAIN u = 1..Len(u) /\ Len(t) \in Nat
  BY <1>1, <1>2
<1>4. u \in Seq(ToSet(u))
  <2> DEFINE V == ToSet(u)
  <2>1. \A i \in 1..Len(u) : u[i] \in V
    BY <1>3 DEF ToSet
  <2> HIDE DEF V
  <2>2. u \in Seq(V)
    BY <1>2, <2>1
  <2> QED BY <2>2 DEF V
<1> QED BY <1>2, <1>3, <1>4 DEF IsTuple

LEMMA FinalFinite ==
  ASSUME NEW t, IsTuple(t)
  PROVE  /\ Final(t) \subseteq 1..Len(t) /\ IsFiniteSet(Final(t))
         /\ Cardinality(Final(t)) \in Nat
<1>1. DOMAIN t = 1..Len(t) /\ Len(t) \in Nat
  BY DEF IsTuple
<1>2. Final(t) \subseteq 1..Len(t)
  BY <1>1 DEF Final
<1>3. IsFiniteSet(1..Len(t))
  BY <1>1, FS_Interval
<1> QED BY <1>2, <1>3, FS_Subset, FS_CardinalityType

LEMMA TurnCorrect ==
  ASSUME NEW t, IsTuple(t), NEW i \in Final(t)
  PROVE  Turn(t, i) \in 1..Cardinality(Final(t))
<1> DEFINE T == {j \in Final(t) : j <= i}
<1>1. IsFiniteSet(Final(t)) /\ Final(t) \subseteq 1..Len(t) /\ Len(t) \in Nat
  BY FinalFinite DEF IsTuple
<1>2. i \in T /\ T \subseteq Final(t)
  BY <1>1
<1> HIDE DEF T
<1>3. IsFiniteSet(T) /\ Cardinality(T) <= Cardinality(Final(t))
  BY <1>1, <1>2, FS_Subset
<1>4. Cardinality(T) \in Nat /\ Cardinality(Final(t)) \in Nat /\ Cardinality(T) # 0
  BY <1>1, <1>2, <1>3, FS_CardinalityType, FS_EmptySet
<1>5. Cardinality(T) \in 1..Cardinality(Final(t))
  BY <1>3, <1>4
<1> QED BY <1>5 DEF Turn, T

IsFinal(a) == a.code # 100

\* What one more answer, a, makes of the final answers of t.
FinalGrows(t, a, u) ==
  /\ \A i \in Final(t) : i \in Final(u) /\ Turn(u, i) = Turn(t, i) /\ u[i] = t[i]
  /\ IsFinal(a) =>
       /\ Final(u) = Final(t) \cup {Len(t) + 1}
       /\ Cardinality(Final(u)) = Cardinality(Final(t)) + 1
       /\ Turn(u, Len(t) + 1) = Cardinality(Final(t)) + 1
  /\ ~IsFinal(a) => Final(u) = Final(t)

LEMMA FinalAppends ==
  ASSUME NEW t, IsTuple(t), NEW a, NEW u, u = Append(t, a)
  PROVE  FinalGrows(t, a, u)
<1> DEFINE n == Len(t)
<1>1. /\ n \in Nat /\ DOMAIN t = 1..n /\ DOMAIN u = 1..(n + 1)
      /\ u[n + 1] = a /\ \A i \in 1..n : u[i] = t[i]
  BY TupleAppends
<1>2. Final(t) \subseteq 1..n /\ IsFiniteSet(Final(t)) /\ Cardinality(Final(t)) \in Nat
  BY FinalFinite
<1> HIDE DEF n
<1>3. 1..(n + 1) = 1..n \cup {n + 1}
  BY <1>1
<1>4. IsFinal(a) => Final(u) = Final(t) \cup {n + 1}
  BY <1>1, <1>3 DEF Final, IsFinal
<1>5. ~IsFinal(a) => Final(u) = Final(t)
  BY <1>1, <1>3 DEF Final, IsFinal
<1>6. ASSUME NEW i \in Final(t)
      PROVE  i \in Final(u) /\ Turn(u, i) = Turn(t, i) /\ u[i] = t[i]
  <2>1. i \in 1..n /\ i \in Final(u) /\ u[i] = t[i]
    BY <1>1, <1>2, <1>4, <1>5
  <2>2. {j \in Final(u) : j <= i} = {j \in Final(t) : j <= i}
    <3>1. ~(n + 1 <= i)
      BY <1>1, <2>1
    <3> QED BY <1>4, <1>5, <3>1
  <2> QED BY <2>1, <2>2 DEF Turn
<1>7. ASSUME IsFinal(a)
      PROVE  /\ Cardinality(Final(u)) = Cardinality(Final(t)) + 1
             /\ Turn(u, n + 1) = Cardinality(Final(t)) + 1
  <2>1. n + 1 \notin Final(t)
    BY <1>1, <1>2
  <2>2. Cardinality(Final(t) \cup {n + 1}) = Cardinality(Final(t)) + 1
    BY <1>2, <2>1, FS_AddElement
  <2>3. {j \in Final(u) : j <= n + 1} = Final(t) \cup {n + 1}
    <3>1. \A j \in Final(t) \cup {n + 1} : j <= n + 1
      BY <1>1, <1>2
    <3> QED BY <1>4, <1>7, <3>1
  <2> QED BY <1>4, <1>7, <2>2, <2>3 DEF Turn
<1> QED BY <1>4, <1>5, <1>6, <1>7 DEF FinalGrows, n

LEMMA SkipsStill ==
  ASSUME NEW l, IsTuple(l), NEW e, NEW m, m = Append(l, e), NEW n \in 0..Len(l), Skips(l, n)
  PROVE  Skips(m, n)
<1>1. Len(l) \in Nat /\ \A i \in 1..Len(l) : m[i] = l[i]
  BY TupleAppends
<1>2. PICK i \in 1..n : /\ l[i].method = "HEAD" /\ l[i].found.rule # 0
                        /\ \A j \in i..n : ~l[j].host
  BY DEF Skips
<1>3. i \in 1..Len(l) /\ \A j \in i..n : j \in 1..Len(l)
  BY <1>1
<1>4. m[i] = l[i] /\ \A j \in i..n : m[j] = l[j]
  BY <1>1, <1>3
<1> QED BY <1>2, <1>4 DEF Skips

LEMMA SuitsStill ==
  ASSUME NEW l, IsTuple(l), NEW e, NEW m, m = Append(l, e),
         NEW n \in 1..Len(l), NEW a, Suits(l, n, a)
  PROVE  Suits(m, n, a)
<1>1. Len(l) \in Nat /\ m[n] = l[n]
  BY TupleAppends
<1>2. n - 1 \in 0..Len(l)
  BY <1>1
<1>3. \A i \in 0..Len(l) : Skips(l, i) => Skips(m, i)
  BY SkipsStill
<1>4. Skips(l, n - 1) => Skips(m, n - 1)
  BY <1>2, <1>3
<1> QED BY <1>1, <1>4 DEF Suits
-----------------------------------------------------------------------------
Upgraded(k) == k.stop = "upgrade"

\* One more answer, for one more request.
LEMMA OneMoreAnswer ==
  ASSUME NEW k, NEW l, InOrder(k, l), ~Upgraded(k), IsTuple(k.out), IsTuple(l),
         NEW a, NEW e, NEW h, h.out = Append(k.out, a), ~Upgraded(h),
         NEW m, m = Append(l, e), IsFinal(a), Suits(m, Len(l) + 1, a)
  PROVE  InOrder(h, m)
<1> DEFINE t == k.out
           u == h.out
           card == Cardinality(Final(t))
<1>1. /\ card = Len(l)
      /\ \A i \in Final(t) : Suits(l, Turn(t, i), t[i])
      /\ \A i \in DOMAIN t \ Final(t) : i = Len(t) \/ i + 1 \in Final(t)
  <2>1. Cardinality(Final(t)) = Len(l) - 0
    BY DEF InOrder, Upgraded
  <2> QED BY <2>1 DEF InOrder, IsTuple
<1>2. /\ \A i \in Final(t) : i \in Final(u) /\ Turn(u, i) = Turn(t, i) /\ u[i] = t[i]
      /\ Final(u) = Final(t) \cup {Len(t) + 1}
      /\ Cardinality(Final(u)) = card + 1
      /\ Turn(u, Len(t) + 1) = card + 1
  <2>1. IsTuple(t) /\ u = Append(t, a)
    OBVIOUS
  <2> HIDE DEF t, u
  <2>2. FinalGrows(t, a, u)
    BY <2>1, FinalAppends
  <2> QED BY <2>2 DEF FinalGrows, card
<1>3. /\ Len(t) \in Nat /\ Len(u) = Len(t) + 1 /\ DOMAIN t = 1..Len(t)
      /\ DOMAIN u = 1..(Len(t) + 1) /\ u[Len(t) + 1] = a
  BY TupleAppends
<1>4. Len(l) \in Nat /\ Len(m) = Len(l) + 1
  BY TupleAppends
<1> HIDE DEF t, u, card
<1>5. Cardinality(Final(u)) = Len(m) - 0
  BY <1>1, <1>2, <1>4
<1>6. ASSUME NEW i \in Final(u) PROVE Suits(m, Turn(u, i), u[i])
  <2>1. CASE i \in Final(t)
    <3>1. Turn(t, i) \in 1..Len(l)
      BY <1>1, <2>1, TurnCorrect DEF card, t
    <3>2. Suits(l, Turn(t, i), t[i])
      BY <1>1, <2>1
    <3>3. Suits(m, Turn(t, i), t[i])
      BY <3>1, <3>2, SuitsStill
    <3> QED BY <1>2, <2>1, <3>3
  <2>2. CASE i = Len(t) + 1
    BY <1>1, <1>2, <1>3, <2>2
  <2> QED BY <1>2, <2>1, <2>2
<1>7. ASSUME NEW i \in DOMAIN u \ Final(u) PROVE i = Len(u) \/ i + 1 \in Final(u)
  <2>1. i \in DOMAIN t \ Final(t)
    BY <1>2, <1>3
  <2> QED BY <1>1, <1>2, <1>3, <2>1
<1> QED BY <1>5, <1>6, <1>7 DEF InOrder, Upgraded, u

\* The last thing that was sent is an interim answer.
Paused(t) == t # <<>> /\ ~IsFinal(t[Len(t)])

\* An interim answer, unless one was the last.
LEMMA OneMoreInterim ==
  ASSUME NEW k, NEW l, InOrder(k, l), IsTuple(k.out),
         NEW a, ~IsFinal(a), NEW h, h.out = Append(k.out, a), h.stop = k.stop,
         ~Paused(k.out)
  PROVE  InOrder(h, l)
<1> DEFINE t == k.out
           u == h.out
<1>1. /\ \A i \in Final(t) : Turn(u, i) = Turn(t, i) /\ u[i] = t[i]
      /\ Final(u) = Final(t)
  <2>1. IsTuple(t) /\ u = Append(t, a)
    OBVIOUS
  <2> HIDE DEF t, u
  <2>2. FinalGrows(t, a, u)
    BY <2>1, FinalAppends
  <2> QED BY <2>2 DEF FinalGrows
<1>2. /\ Len(t) \in Nat /\ Len(u) = Len(t) + 1 /\ DOMAIN t = 1..Len(t)
      /\ DOMAIN u = 1..(Len(t) + 1)
  BY TupleAppends
<1>3. t # <<>> => IsFinal(t[Len(t)])
  BY DEF Paused
<1>4. Len(t) # 0 => Len(t) \in Final(t)
  <2>1. Len(t) # 0 => t # <<>> /\ Len(t) \in DOMAIN t
    BY <1>2
  <2> QED BY <1>3, <2>1 DEF Final, IsFinal
<1> HIDE DEF t, u
<1>5. ASSUME NEW i \in DOMAIN u \ Final(u) PROVE i = Len(u) \/ i + 1 \in Final(u)
  <2>1. CASE i = Len(t) + 1
    BY <1>2, <2>1
  <2>2. CASE i # Len(t) + 1
    <3>1. i \in DOMAIN t \ Final(t) /\ i # Len(t)
      BY <1>1, <1>2, <1>4, <2>2
    <3> QED BY <1>1, <3>1 DEF InOrder, t
  <2> QED BY <2>1, <2>2
<1>6. \A i \in Final(u) : Suits(l, Turn(u, i), u[i])
  BY <1>1 DEF InOrder, t
<1>7. Cardinality(Final(u)) = Len(l) - IF h.stop = "upgrade" THEN 1 ELSE 0
  BY <1>1 DEF InOrder, t
<1> QED BY <1>5, <1>6, <1>7 DEF InOrder, u

\* One more request that is not answered.
LEMMA OneMoreUpgrade ==
  ASSUME NEW k, NEW l, InOrder(k, l), ~Upgraded(k), IsTuple(k.out), IsTuple(l),
         NEW e, NEW h, h.out = k.out, Upgraded(h), NEW m, m = Append(l, e)
  PROVE  InOrder(h, m)
<1> DEFINE t == k.out
<1>1. Cardinality(Final(t)) = Len(l)
  <2>1. Cardinality(Final(t)) = Len(l) - 0
    BY DEF InOrder, Upgraded
  <2> QED BY <2>1 DEF IsTuple
<1>2. Len(l) \in Nat /\ Len(m) = Len(l) + 1
  BY TupleAppends
<1>3. Cardinality(Final(t)) = Len(m) - 1
  BY <1>1, <1>2
<1>4. ASSUME NEW i \in Final(t) PROVE Suits(m, Turn(t, i), t[i])
  <2>1. Turn(t, i) \in 1..Len(l)
    BY <1>1, TurnCorrect
  <2>2. Suits(l, Turn(t, i), t[i])
    BY DEF InOrder
  <2> QED BY <2>1, <2>2, SuitsStill
<1> QED BY <1>3, <1>4 DEF InOrder, Upgraded
-----------------------------------------------------------------------------
(* What an answer is to its request.                                       *)

LEMMA PreparedCorrect ==
  ASSUME NEW k, NEW r, NEW body, NEW given, NEW a, a = PrepareBuffers(k, r, body, given)
  PROVE  /\ a.code = r.code
         /\ given = -1 => a.body = a.length
         /\ body = 0 => a.body = 0 \/ a.code >= 400
BY DEF PrepareBuffers

LEMMA WrittenCorrect ==
  ASSUME NEW k, NEW r, NEW a, a = Written(k, r)
  PROVE  /\ a.code = r.code
         /\ ~k.skip_body => a.body = a.length
         /\ k.skip_body /\ ~r.file => a.body = 0 \/ a.code >= 400
         /\ r.body = 0 => a.body = 0 \/ a.code >= 400
<1> DEFINE body == IF k.skip_body /\ ~r.file THEN 0 ELSE r.body
           given == IF ~k.skip_body THEN -1 ELSE IF r.file THEN 0 ELSE r.body
<1>1. a = PrepareBuffers(k, r, body, given)
  BY DEF Written
<1>2. /\ ~k.skip_body => given = -1
      /\ k.skip_body /\ ~r.file => body = 0
      /\ r.body = 0 => body = 0
  OBVIOUS
<1> HIDE DEF body, given
<1> QED BY <1>1, <1>2, PreparedCorrect

LEMMA SuitsNew ==
  ASSUME NEW l, IsTuple(l), NEW e, NEW m, m = Append(l, e), NEW a, a.code = e.code,
         IF e.method = "HEAD" THEN a.body = 0 \/ a.code >= 400 \/ e.file
         ELSE a.body = a.length \/ Skips(l, Len(l))
  PROVE  Suits(m, Len(l) + 1, a)
<1> DEFINE n == Len(l) + 1
<1>1. Len(l) \in Nat /\ m[n] = e /\ n - 1 = Len(l)
  BY TupleAppends
<1>2. Len(l) \in 0..Len(l)
  BY <1>1
<1>3. Skips(l, Len(l)) => Skips(m, n - 1)
  BY <1>1, <1>2, SkipsStill
<1> HIDE DEF n
<1>4. Suits(m, n, a)
  BY <1>1, <1>3 DEF Suits
<1> QED BY <1>4 DEF n

\* It sets skip_body.
Leaves(e) == e.method = "HEAD" /\ e.found.rule # 0

\* A request without Host: what has been left to skip still is.
LEMMA SkipsMore ==
  ASSUME NEW l, IsTuple(l), NEW e, NEW m, m = Append(l, e), ~e.host,
         Skips(l, Len(l)) \/ Leaves(e)
  PROVE  Skips(m, Len(m))
<1>1. /\ Len(l) \in Nat /\ Len(m) = Len(l) + 1 /\ m[Len(l) + 1] = e
      /\ \A i \in 1..Len(l) : m[i] = l[i]
  BY TupleAppends
<1>2. CASE Skips(l, Len(l))
  <2>1. PICK i \in 1..Len(l) : /\ l[i].method = "HEAD" /\ l[i].found.rule # 0
                               /\ \A j \in i..Len(l) : ~l[j].host
    BY <1>2 DEF Skips
  <2>2. i \in 1..Len(m) /\ m[i] = l[i]
    BY <1>1
  <2>3. ASSUME NEW j \in i..Len(m) PROVE ~m[j].host
    <3>1. CASE j = Len(l) + 1
      BY <1>1, <3>1
    <3>2. CASE j # Len(l) + 1
      <4>1. j \in i..Len(l) /\ j \in 1..Len(l)
        BY <1>1, <3>2
      <4> QED BY <1>1, <2>1, <4>1
    <3> QED BY <3>1, <3>2
  <2> QED BY <2>1, <2>2, <2>3 DEF Skips
<1>3. CASE Leaves(e)
  <2> DEFINE n == Len(m)
  <2>1. n \in 1..n /\ m[n] = e
    BY <1>1
  <2>2. \A j \in n..n : j = n
    BY <1>1
  <2> HIDE DEF n
  <2> QED BY <1>3, <2>1, <2>2 DEF Skips, Leaves, n
<1> QED BY <1>2, <1>3

LEMMA NotPaused ==
  ASSUME NEW t, IsTuple(t), NEW a, IsFinal(a), NEW u, u = Append(t, a)
  PROVE  ~Paused(u)
<1>1. Len(u) = Len(t) + 1 /\ u[Len(t) + 1] = a
  BY TupleAppends
<1>2. u[Len(u)] = a
  BY <1>1
<1> QED BY <1>2 DEF Paused

\* What has been sent and what has been logged.
Record(k, l) == IsTuple(k.out) /\ IsTuple(l) /\ InOrder(k, l)

AllFinal(l) == \A i \in DOMAIN l : l[i].code \in Nat \ {100}

LEMMA AnswerRecorded ==
  ASSUME NEW k, NEW l, Record(k, l), ~Upgraded(k),
         NEW a, NEW e, NEW h, h.out = Append(k.out, a), ~Upgraded(h),
         NEW m, m = Append(l, e), AllFinal(m), Suits(m, Len(l) + 1, a), a.code = e.code
  PROVE  Record(h, m) /\ ~Paused(h.out)
<1>1. IsTuple(k.out) /\ IsTuple(l) /\ InOrder(k, l)
  BY DEF Record
<1>2. IsFinal(a)
  <2>1. m[Len(l) + 1] = e /\ Len(l) + 1 \in DOMAIN m
    BY <1>1, TupleAppends
  <2>2. e.code \in Nat \ {100}
    BY <2>1 DEF AllFinal
  <2> QED BY <2>2 DEF IsFinal
<1>3. IsTuple(h.out) /\ ~Paused(h.out)
  <2>1. IsTuple(h.out)
    <3> DEFINE t == k.out
               u == h.out
    <3>1. IsTuple(t) /\ u = Append(t, a)
      BY <1>1
    <3> HIDE DEF t, u
    <3>2. IsTuple(u)
      BY <3>1, TupleAppends
    <3> QED BY <3>2 DEF u
  <2>2. ~Paused(h.out)
    BY <1>1, <1>2, NotPaused
  <2> QED BY <2>1, <2>2
<1>4. IsTuple(m)
  BY <1>1, TupleAppends
<1>5. InOrder(h, m)
  BY <1>1, <1>2, OneMoreAnswer
<1> QED BY <1>3, <1>4, <1>5 DEF Record

LEMMA RecordStays ==
  ASSUME NEW k, NEW l, Record(k, l), NEW h, h.out = k.out, Upgraded(h) <=> Upgraded(k)
  PROVE  Record(h, l)
BY DEF Record, InOrder, Upgraded
-----------------------------------------------------------------------------
LEMMA LoggedCorrect ==
  ASSUME NEW p, NEW found, NEW answer, NEW e, e = Logged(p, found, answer)
  PROVE  /\ e.method = p.method /\ e.found = found /\ e.code = answer.code
         /\ e.host <=> HasHost(p)
         /\ e.file <=> SendsFile(found, answer)
<1> DEFINE a == AlsoGiven(table, p.url, found)
           b == HasHost(p)
           c == SendsFile(found, answer)
<1>1. e = [method |-> p.method, target |-> p.url, fields |-> p.headers, body |-> p.body,
           given |-> a, found |-> found, host |-> b, file |-> c, code |-> answer.code,
           reply |-> answer.reply]
  BY DEF Logged
<1> HIDE DEF a, b, c
<1> QED BY <1>1 DEF b, c

LEMMA AskedCorrect ==
  ASSUME NEW p, NEW found, NEW answer, NEW a, a = AsRequest(p, found, answer)
  PROVE  /\ a.code = answer.code /\ "code" \in DOMAIN a
         /\ answer.reply = <<>> => a.body = 0
         /\ a.found <=> found.rule # 0
         /\ a.file <=> SendsFile(found, answer)
         /\ a.head <=> p.method = "HEAD"
         /\ a.host <=> HasHost(p)
<1> DEFINE b == HasHost(p)
           c == SendsFile(found, answer)
           f == found.rule # 0
           n == IF answer.reply = <<>> THEN 0 ELSE 1
           g == p.method = "HEAD"
           u == Is11(p) /\ p.upgrade
                /\ ~IsPrefix(<<"h", "2">>, Value(p.headers, <<"up", "grade">>))
           x == Is11(p) /\ Value(p.headers, <<"expect">>) = <<"100-continue">>
<1>1. a = [found |-> f, code |-> answer.code, body |-> n, file |-> c, head |-> g, host |-> b,
           upgrade |-> u, expect |-> x, keep |-> KeepAlive(p), close |-> CloseConnection(p)]
  BY DEF AsRequest
<1>2. answer.reply = <<>> => n = 0
  OBVIOUS
<1> HIDE DEF b, c, f, n, g, u, x
<1>3. /\ a.code = answer.code /\ a.body = n /\ "code" \in DOMAIN a
      /\ a.found = f /\ a.file = c /\ a.head = g /\ a.host = b
  BY <1>1
<1> QED BY <1>2, <1>3 DEF b, c, f, g

\* What an open connection remembers of the request that its parser reads.
Recalls(p, k, r, l) ==
  /\ p.state \in Late => r.rule # 0 /\ (p.method = "HEAD" => k.skip_body)
  /\ k.skip_body => Skips(l, Len(l)) \/ (p.method = "HEAD" /\ p.state \in UrlStates \cup Late)
  /\ Paused(k.out) => InBody(p)

LEMMA StatesApart ==
  /\ Early \cap Late = {} /\ UrlStates \cap Late = {} /\ Early \cap UrlStates = {}
  /\ \A p : InHead(p) \/ InBody(p) => p.state \in Late
  /\ \A p : InHead(p) => ~InBody(p)
BY DEF Early, Late, UrlStates, UrlEnds, Line, HeaderStates, Chunked, Sized, InHead, InBody

\* The URL has been read, or has been cut.
LEMMA RoutedKeeps ==
  ASSUME NEW p, NEW k, Intact(k), k.open, ~Upgraded(k), NEW r, NEW l,
         Record(k, l), Recalls(p, k, r, l),
         NEW u, Formed(u), u.state \in UrlStates \cup Late,
         p.state \in Early \/ (p.state \in UrlStates /\ u.method = p.method),
         NEW s, Routed(s, u, k, l), AllFinal(s.log)
  PROVE  /\ Record(s.k, s.log)
         /\ s.p.err = "OK" => Recalls(s.p, s.k, s.route, s.log)
<1> DEFINE found == Found(u)
           answer == Answer(found.code, <<>>)
           a == AsRequest(u, found, answer)
           h == HandleUrl(k, a)
<1>1. IF found.rule # 0 THEN Made(s, u, h, found, l)
      ELSE Made(s, Fail(Clear(u), "INVALID_EOF_STATE"), h, found,
                Append(l, Logged(u, found, answer)))
  BY DEF Routed, OfUrl
<1>2. ~Paused(k.out)
  BY StatesApart DEF Recalls
<1>3. k.skip_body => Skips(l, Len(l)) \/ u.method = "HEAD"
  BY StatesApart DEF Recalls
<1>4. /\ a.code = found.code /\ a.body = 0 /\ (a.found <=> found.rule # 0)
      /\ (a.head <=> u.method = "HEAD")
  <2>1. answer.code = found.code /\ answer.reply = <<>>
    BY DEF Answer
  <2> HIDE DEF answer, found
  <2> QED BY <2>1, AskedCorrect
<1> HIDE DEF found, answer, a
<1>5. /\ Intact(h)
      /\ a.found => h.out = k.out /\ h.stop = k.stop /\ (h.skip_body <=> k.skip_body \/ a.head)
      /\ ~a.found => h.out = Append(k.out, Written(k, a)) /\ h.stop = "error"
  BY UrlHandled
<1> HIDE DEF h
<1>6. CASE found.rule # 0
  <2>1. s.p = u /\ s.k = h /\ s.route = found /\ s.log = l
    BY <1>1, <1>6 DEF Made
  <2>2. Record(h, l)
    BY <1>4, <1>5, <1>6, RecordStays DEF Upgraded
  <2>3. Recalls(u, h, found, l)
    BY <1>2, <1>3, <1>4, <1>5, <1>6 DEF Recalls
  <2> QED BY <2>1, <2>2, <2>3
<1>7. CASE found.rule = 0
  <2> DEFINE e == Logged(u, found, answer)
             b == Written(k, a)
             m == Append(l, e)
  <2>1. s.p = Fail(Clear(u), "INVALID_EOF_STATE") /\ s.k = h /\ s.log = m
    BY <1>1, <1>7 DEF Made
  <2>2. h.out = Append(k.out, b) /\ ~Upgraded(h)
    BY <1>4, <1>5, <1>7 DEF Upgraded
  <2>3. /\ b.code = a.code /\ (~k.skip_body => b.body = b.length)
        /\ b.body = 0 \/ b.code >= 400
    BY <1>4, WrittenCorrect
  <2>4. e.method = u.method /\ e.code = found.code
    BY LoggedCorrect DEF answer, Answer
  <2> HIDE DEF e, b
  <2>5. IF e.method = "HEAD" THEN b.body = 0 \/ b.code >= 400 \/ e.file
        ELSE b.body = b.length \/ Skips(l, Len(l))
    BY <1>3, <2>3, <2>4
  <2>6. Suits(m, Len(l) + 1, b)
    BY <1>4, <2>3, <2>4, <2>5, SuitsNew DEF Record
  <2>7. Record(h, m)
    BY <1>4, <2>1, <2>2, <2>3, <2>4, <2>6, AnswerRecorded
  <2>8. s.p.err # "OK"
    <3> DEFINE x == Clear(u)
    <3>1. Formed(x)
      BY ClearFormed
    <3> HIDE DEF x
    <3>2. Fail(x, "INVALID_EOF_STATE").err = "INVALID_EOF_STATE"
      BY <3>1 DEF Fail, Formed, Shape
    <3> QED BY <2>1, <3>2 DEF x
  <2> QED BY <2>1, <2>7, <2>8
<1> QED BY <1>6, <1>7

\* The headers end: the client may be told to go on.
LEMMA HeadedKeeps ==
  ASSUME NEW p, InHead(p), NEW k, Intact(k), k.open, NEW r, NEW l,
         Record(k, l), Recalls(p, k, r, l), NEW u, NEW h, h = OfHeader(u, k, r)
  PROVE  /\ Record(h, l) /\ Intact(h) /\ h.open /\ h.stop = k.stop /\ h.skip_body = k.skip_body
         /\ u.method = p.method /\ InBody(u) => Recalls(u, h, r, l)
<1> DEFINE a == AsRequest(u, r, Answer(0, <<>>))
           b == Interim(a)
<1>1. h = HandleHeader(k, a)
  BY DEF OfHeader
<1>2. ~IsFinal(b)
  BY DEF Interim, IsFinal
<1> HIDE DEF a, b
<1>3. /\ Intact(h) /\ h.stop = k.stop /\ h.skip_body = k.skip_body /\ h.open = k.open
      /\ h.out = IF a.expect THEN Append(k.out, b) ELSE k.out
  <2>1. Told(k, a, h)
    BY <1>1, HeaderHandled
  <2> QED BY <2>1 DEF Told, b
<1>4. ~Paused(k.out)
  BY StatesApart DEF Recalls
<1>5. Record(h, l)
  <2>1. CASE a.expect
    <3>1. h.out = Append(k.out, b)
      BY <1>3, <2>1
    <3>2. IsTuple(k.out) /\ IsTuple(l) /\ InOrder(k, l)
      BY DEF Record
    <3>3. \A x : x = Append(k.out, b) => IsTuple(x)
      BY <3>2, TupleAppends
    <3>4. InOrder(h, l)
      BY <1>2, <1>3, <1>4, <3>1, <3>2, OneMoreInterim
    <3> QED BY <3>1, <3>2, <3>3, <3>4 DEF Record
  <2>2. CASE ~a.expect
    BY <1>3, <2>2, RecordStays DEF Upgraded
  <2> QED BY <2>1, <2>2
<1>6. ASSUME u.method = p.method, InBody(u)
      PROVE  Recalls(u, h, r, l)
  <2>1. p.state \in Late /\ u.state \in Late
    BY <1>6, StatesApart
  <2> QED BY <1>3, <1>6, <2>1 DEF Recalls
<1> QED BY <1>3, <1>5, <1>6

\* After the URL skip_body is set for HEAD, or left over.
Underway(p, k, r, l) ==
  /\ r.rule # 0 /\ (p.method = "HEAD" => k.skip_body)
  /\ k.skip_body => Skips(l, Len(l)) \/ p.method = "HEAD"

\* The message is complete.
LEMMA CompletedKeeps ==
  ASSUME NEW p, Formed(p), NEW k, Intact(k), k.open, ~Upgraded(k), NEW r, NEW l,
         Record(k, l), Underway(p, k, r, l),
         NEW engine, NEW next, NEW s, Completed(s, p, k, r, l, engine, next), AllFinal(s.log)
  PROVE  /\ Record(s.k, s.log)
         /\ s.k.stop = "no" => Recalls(s.p, s.k, s.route, s.log)
<1> DEFINE answer == Replied(p, r, engine)
           a == AsRequest(p, r, answer)
           h == Handle(k, a, TRUE)
           given == IF HasHost(p) THEN answer ELSE Answer(400, <<>>)
           e == Logged(p, r, given)
           m == Append(l, e)
           y == [h EXCEPT !.stop = "error"]
<1>1. /\ s.p = IF h.stop = "upgrade" THEN p ELSE Clear(p)
      /\ s.k = IF h.stop = "no" /\ p.upgrade /\ next # "" THEN y ELSE h
      /\ s.log = m
  BY DEF Completed, OfMessage, Made
<1>2. /\ a.code = answer.code /\ "code" \in DOMAIN a /\ (a.file <=> SendsFile(r, answer)) /\ (a.host <=> HasHost(p))
  BY AskedCorrect
<1>3. /\ e.method = p.method /\ e.found = r /\ e.code = given.code
      /\ (e.host <=> HasHost(p)) /\ (e.file <=> SendsFile(r, given))
  BY LoggedCorrect
<1>4. HasHost(p) => given = answer
  OBVIOUS
<1>5. ~HasHost(p) => given.code = 400
  BY DEF Answer
<1> HIDE DEF answer, a, given, e
<1>6. Handled(k, a, h)
  BY RequestHandled
<1> HIDE DEF h, m
<1>7. /\ s.k.out = h.out /\ s.k.skip_body = h.skip_body
      /\ Upgraded(s.k) <=> Upgraded(h)
      /\ s.k.stop = "no" => h.stop = "no"
  <2>1. y.out = h.out /\ y.skip_body = h.skip_body /\ y.stop = "error"
    BY <1>6 DEF Handled, Intact, Parts
  <2>2. CASE s.k = h
    BY <2>2
  <2>3. CASE s.k = y /\ h.stop = "no"
    BY <2>1, <2>3 DEF Upgraded
  <2> QED BY <1>1, <2>2, <2>3
<1>8. ASSUME s.k.stop = "no", ~Paused(h.out), h.skip_body => Skips(m, Len(m))
      PROVE  Recalls(s.p, s.k, s.route, s.log)
  <2>1. s.p = Clear(p)
    BY <1>1, <1>7, <1>8
  <2>2. s.p.state = "start_req"
    BY <2>1, ClearFormed
  <2>3. s.p.state \notin Late
    BY <2>2 DEF Late, Line, HeaderStates, Chunked, Sized
  <2> QED BY <1>1, <1>7, <1>8, <2>3 DEF Recalls
<1>9. Record(h, m) => Record(s.k, s.log)
  BY <1>1, <1>7, RecordStays
<1>10. ASSUME NEW b, b.code = e.code, h.out = Append(k.out, b), ~Upgraded(h),
              IF e.method = "HEAD" THEN b.body = 0 \/ b.code >= 400 \/ e.file
              ELSE b.body = b.length \/ Skips(l, Len(l))
       PROVE  Record(h, m) /\ ~Paused(h.out)
  <2>1. IsTuple(l) /\ AllFinal(m) /\ m = Append(l, e)
    BY <1>1 DEF Record, m
  <2>2. Suits(m, Len(l) + 1, b)
    BY <1>10, <2>1, SuitsNew
  <2> QED BY <1>10, <2>1, <2>2, AnswerRecorded
<1>11. CASE ~a.host
  <2>1. PICK v : h.out = Append(k.out, PrepareBuffers(v, Refused(a), 0, -1))
    BY <1>6, <1>11 DEF Handled
  <2> DEFINE b == PrepareBuffers(v, Refused(a), 0, -1)
  <2>2. b.code = 400 /\ b.body = b.length
    <3>1. Refused(a).code = 400
      BY <1>2 DEF Refused
    <3> DEFINE f == Refused(a)
    <3> HIDE DEF f
    <3>2. b = PrepareBuffers(v, f, 0, -1)
      BY DEF f
    <3>3. b.code = f.code /\ b.body = b.length
      BY <3>2, PreparedCorrect
    <3> QED BY <3>1, <3>3 DEF f
  <2>3. e.code = 400
    BY <1>2, <1>3, <1>5, <1>11
  <2>8. ~e.host
    BY <1>2, <1>3, <1>11
  <2> HIDE DEF b
  <2>4. IF e.method = "HEAD" THEN b.body = 0 \/ b.code >= 400 \/ e.file
        ELSE b.body = b.length \/ Skips(l, Len(l))
    BY <2>2
  <2>5. h.out = Append(k.out, b) /\ ~Upgraded(h)
    BY <1>6, <1>11, <2>1 DEF b, Upgraded, Handled
  <2>6. Record(h, m) /\ ~Paused(h.out)
    BY <1>10, <2>2, <2>3, <2>4, <2>5
  <2>7. h.skip_body => Skips(m, Len(m))
    <3> SUFFICES ASSUME h.skip_body PROVE Skips(m, Len(m))
      OBVIOUS
    <3>1. k.skip_body
      BY <1>6, <1>11 DEF Handled
    <3>2. Skips(l, Len(l)) \/ Leaves(e)
      BY <1>3, <3>1 DEF Leaves, Underway
    <3>3. IsTuple(l) /\ m = Append(l, e)
      BY DEF Record, m
    <3>4. \A x : x = Append(l, e) => Skips(x, Len(x))
      BY <2>8, <3>2, <3>3, SkipsMore
    <3> QED BY <3>3, <3>4
  <2> QED BY <1>8, <1>9, <2>5, <2>6, <2>7
<1>12. CASE a.host /\ a.upgrade
  <2>1. Upgraded(h) /\ h.out = k.out
    BY <1>6, <1>12 DEF Upgraded, Handled
  <2>2. InOrder(h, m) /\ IsTuple(m) /\ IsTuple(h.out)
    BY <2>1, OneMoreUpgrade, TupleAppends DEF Record, m
  <2> QED BY <1>7, <1>9, <2>1, <2>2 DEF Record, Upgraded
<1>13. CASE a.host /\ ~a.upgrade
  <2>1. PICK v : h.out = Append(k.out, Written(v, a)) /\ v.skip_body = k.skip_body
    BY <1>6, <1>13 DEF Handled
  <2> DEFINE b == Written(v, a)
  <2>2. /\ b.code = a.code
        /\ ~k.skip_body => b.body = b.length
        /\ k.skip_body /\ ~a.file => b.body = 0 \/ b.code >= 400
    BY <2>1, WrittenCorrect
  <2>3. e.code = a.code /\ (e.file <=> a.file)
    BY <1>2, <1>3, <1>4, <1>13
  <2> HIDE DEF b
  <2>4. IF e.method = "HEAD" THEN b.body = 0 \/ b.code >= 400 \/ e.file
        ELSE b.body = b.length \/ Skips(l, Len(l))
    BY <1>3, <2>2, <2>3 DEF Underway
  <2>5. h.out = Append(k.out, b) /\ ~Upgraded(h)
    BY <1>6, <1>13, <2>1 DEF b, Upgraded, Handled
  <2>6. Record(h, m) /\ ~Paused(h.out)
    BY <1>10, <2>2, <2>3, <2>4, <2>5
  <2> QED BY <1>6, <1>8, <1>9, <1>13, <2>5, <2>6 DEF Handled
<1> QED BY <1>11, <1>12, <1>13
-----------------------------------------------------------------------------
(* Any piece. *)

LEMMA StepsCases ==
  ASSUME NEW p, NEW q, Steps(p, q)
  PROVE  /\ q.events = <<>> /\ q.err = "OK" =>
              \/ Starts(p, q)
              \/ /\ q.method = p.method
                 /\ \/ p.state \in UrlStates /\ q.state \in UrlStates
                    \/ InHead(p) /\ InHead(q)
                    \/ InBody(p) /\ InBody(q)
         /\ q.events = <<"url">> =>
              /\ q.state \in UrlStates \cup Late
              /\ p.state \in Early \/ (p.state \in UrlStates /\ q.method = p.method)
         /\ q.events = <<"headers">> =>
              InHead(p) /\ q.method = p.method /\ (q.err = "OK" => InBody(q))
         /\ q.events = <<"message">> => InBody(p) /\ q.method = p.method
         /\ q.events = <<"headers", "message">> => InHead(p) /\ q.method = p.method
<1>1. CASE Breaks(p, q)
  BY <1>1, EventsDiffer DEF Breaks
<1>2. CASE Starts(p, q)
  BY <1>2, EventsDiffer DEF Starts
<1>3. CASE Names(p, q)
  BY <1>3, EventsDiffer, StatesApart DEF Names
<1>4. CASE Heads(p, q)
  BY <1>4, EventsDiffer DEF Heads
<1>5. CASE Fills(p, q)
  BY <1>5, EventsDiffer DEF Fills
<1>6. CASE CutShort(p, q)
  BY <1>6, EventsDiffer DEF CutShort
<1> QED BY <1>1, <1>2, <1>3, <1>4, <1>5, <1>6 DEF Steps, Moves

LEMMA SilentKeeps ==
  ASSUME NEW p, NEW q, Steps(p, q), q.events = <<>>, q.err = "OK", NEW u,
         u.state = q.state, u.method = q.method, InBody(u) <=> InBody(q),
         NEW k, NEW r, NEW l, Recalls(p, k, r, l)
  PROVE  Recalls(u, k, r, l)
<1>1. CASE Starts(p, q)
  <2>1. u.state \notin Late /\ p.state \in Early
    BY <1>1, StatesApart DEF Starts
  <2>2. p.state \notin Late /\ p.state \notin UrlStates /\ ~InBody(p)
    BY <2>1, StatesApart
  <2> QED BY <2>1, <2>2 DEF Recalls
<1>2. CASE q.method = p.method /\ p.state \in UrlStates /\ q.state \in UrlStates
  <2>1. u.state \notin Late /\ u.state \in UrlStates /\ p.state \notin Late /\ ~InBody(p)
    BY <1>2, StatesApart
  <2> QED BY <1>2, <2>1 DEF Recalls
<1>3. CASE q.method = p.method /\ InHead(p) /\ InHead(q)
  <2>1. p.state \in Late /\ u.state \in Late /\ ~InBody(p)
    BY <1>3, StatesApart
  <2> QED BY <1>3, <2>1 DEF Recalls
<1>4. CASE q.method = p.method /\ InBody(p) /\ InBody(q)
  <2>1. p.state \in Late /\ u.state \in Late /\ InBody(u)
    BY <1>4, StatesApart
  <2> QED BY <1>4, <2>1 DEF Recalls
<1> QED BY <1>1, <1>2, <1>3, <1>4, StepsCases

LEMMA PieceKeeps ==
  ASSUME NEW p, NEW k, Attends(p, k), k.open, NEW c, NEW next, NEW r, NEW l, NEW engine,
         Record(k, l), Recalls(p, k, r, l),
         NEW q, q = Execute(p, c, next), NEW w, Made(w, q, k, r, l),
         NEW s, s = Callbacks(w, engine, next), AllFinal(s.log)
  PROVE  /\ Record(s.k, s.log)
         /\ s.p.err = "OK" /\ s.k.stop = "no" => Recalls(s.p, s.k, s.route, s.log)
<1>1. Tested(p)
  BY DEF Attends, Waits, Ready, Tested, Sane, Early, UrlStates, UrlEnds, Line, HeaderStates,
         Chunked, Sized, Ended
<1>2. Steps(p, q) /\ Sane(q) /\ Formed(q) /\ Intact(k) /\ ~Upgraded(k)
  BY <1>1, ExecuteMoves, ExecuteCorrect DEF Attends, Steps, Upgraded
<1> DEFINE u == Quiet(q)
<1>3. /\ Formed(u) /\ u.state = q.state /\ u.err = q.err /\ u.method = q.method
      /\ u.flags = q.flags
  BY <1>2, QuietCorrect DEF Quiet
<1>4. InBody(u) <=> InBody(q)
  BY <1>3 DEF InBody
<1>5. /\ q.events = <<>> => Made(s, u, k, r, l)
      /\ q.events = <<"url">> => Routed(s, u, k, l)
      /\ q.events = <<"headers">> => Made(s, u, OfHeader(u, k, r), r, l)
      /\ q.events = <<"message">> => Completed(s, u, k, r, l, engine, next)
      /\ q.events = <<"headers", "message">> =>
           Completed(s, u, OfHeader(u, k, r), r, l, engine, next)
  BY CallbacksCorrect
<1> HIDE DEF u
<1>6. CASE q.events = <<>>
  <2>1. s.p = u /\ s.k = k /\ s.route = r /\ s.log = l
    BY <1>5, <1>6 DEF Made
  <2>2. q.err = "OK" => Recalls(u, k, r, l)
    BY <1>2, <1>3, <1>4, <1>6, SilentKeeps
  <2> QED BY <1>3, <2>1, <2>2
<1>7. CASE q.events = <<"url">>
  <2>1. /\ u.state \in UrlStates \cup Late
        /\ p.state \in Early \/ (p.state \in UrlStates /\ u.method = p.method)
    BY <1>2, <1>3, <1>7, StepsCases
  <2>2. Routed(s, u, k, l)
    BY <1>5, <1>7
  <2> QED BY <1>2, <1>3, <2>1, <2>2, RoutedKeeps
<1>8. CASE q.events = <<"headers">>
  <2>1. InHead(p) /\ u.method = p.method /\ (u.err = "OK" => InBody(u))
    BY <1>2, <1>3, <1>4, <1>8, StepsCases
  <2>2. s.p = u /\ s.k = OfHeader(u, k, r) /\ s.route = r /\ s.log = l
    BY <1>5, <1>8 DEF Made
  <2> QED BY <1>2, <2>1, <2>2, HeadedKeeps
<1>9. CASE q.events = <<"message">>
  <2>1. InBody(p) /\ u.method = p.method
    BY <1>2, <1>3, <1>9, StepsCases
  <2>2. Underway(u, k, r, l)
    BY <2>1, StatesApart DEF Recalls, Underway
  <2>3. Completed(s, u, k, r, l, engine, next)
    BY <1>5, <1>9
  <2> QED BY <1>2, <1>3, <2>2, <2>3, CompletedKeeps
<1>10. CASE q.events = <<"headers", "message">>
  <2> DEFINE h == OfHeader(u, k, r)
  <2>1. InHead(p) /\ u.method = p.method
    BY <1>2, <1>3, <1>10, StepsCases
  <2>2. Record(h, l) /\ Intact(h) /\ h.open /\ h.stop = k.stop /\ h.skip_body = k.skip_body
    BY <1>2, <2>1, HeadedKeeps
  <2>3. Completed(s, u, h, r, l, engine, next)
    BY <1>5, <1>10
  <2> HIDE DEF h
  <2>4. Underway(u, h, r, l)
    BY <2>1, <2>2, StatesApart DEF Recalls, Underway
  <2>5. ~Upgraded(h)
    BY <1>2, <2>2 DEF Upgraded
  <2> QED BY <1>3, <2>2, <2>3, <2>4, <2>5, CompletedKeeps
<1> QED BY <1>2, <1>6, <1>7, <1>8, <1>9, <1>10, StepsCorrect

\* The inductive invariant.
Tallies ==
  /\ Present
  /\ Record(connection, log)
  /\ connection.open => Recalls(parser, connection, route, log)

LEMMA TalliesAtFirst == input \in Seq(STRING) /\ Connected => Tallies
<1> SUFFICES ASSUME input \in Seq(STRING), Connected PROVE Tallies
  OBVIOUS
<1>1. /\ connection.out = <<>> /\ connection.stop = "no" /\ ~connection.skip_body
      /\ log = <<>> /\ parser.state = "start_req"
  BY DEF Connected, NewConnection, NewParser
<1>2. IsTuple(<<>>)
  BY DEF IsTuple
<1>3. Final(<<>>) = {}
  BY DEF Final
<1>4. Cardinality({}) = 0
  BY FS_EmptySet
<1>5. Record(connection, log)
  <2>1. Cardinality(Final(connection.out)) = 0 /\ Final(connection.out) = {}
    BY <1>1, <1>3, <1>4
  <2>2. Len(log) = 0 /\ DOMAIN connection.out = {}
    BY <1>1
  <2>3. ~Upgraded(connection)
    BY <1>1 DEF Upgraded
  <2>4. Cardinality(Final(connection.out)) = Len(log) - 0
    BY <2>1, <2>2
  <2> QED BY <1>1, <1>2, <2>1, <2>2, <2>3, <2>4 DEF Record, InOrder, Upgraded
<1>6. Recalls(parser, connection, route, log)
  <2>1. parser.state \notin Late
    BY <1>1, StatesApart DEF Early
  <2> QED BY <1>1, <2>1 DEF Recalls, Paused
<1> QED BY <1>5, <1>6, PresentAtFirst DEF Tallies

LEMMA TalliesStay == Tallies /\ [Exchange]_exchange /\ StatusesFinal' => Tallies'
<1> SUFFICES ASSUME Tallies, [Exchange]_exchange, StatusesFinal' PROVE Tallies'
  OBVIOUS
<1>1. Present'
  BY PresentStays DEF Tallies
<1>2. CASE UNCHANGED exchange
  <2>1. Record(connection, log)' /\ (connection.open => Recalls(parser, connection, route, log))'
    BY <1>2 DEF exchange, Tallies
  <2> QED BY <1>1, <2>1 DEF Tallies
<1>3. ASSUME NEW last \in BOOLEAN, NEW engine \in Answers, Read(last, engine)
      PROVE  Tallies'
  <2>1. PICK c, next, q, w, s :
           /\ q = Execute(parser, c, next) /\ Made(w, q, connection, route, log)
           /\ s = Callbacks(w, engine, next)
           /\ parser' = s.p /\ connection' = Onward(s, last) /\ route' = s.route /\ log' = s.log
    BY <1>3, ReadCorrect
  <2>2. Attends(parser, connection) /\ connection.open
    BY <1>3 DEF Read, Tallies, Present
  <2>3. Record(connection, log) /\ Recalls(parser, connection, route, log)
    BY <2>2 DEF Tallies
  <2>4. AllFinal(s.log)
    BY <2>1 DEF StatusesFinal, AllFinal
  <2>5. /\ Record(s.k, s.log)
        /\ s.p.err = "OK" /\ s.k.stop = "no" => Recalls(s.p, s.k, s.route, s.log)
    BY <2>1, <2>2, <2>3, <2>4, PieceKeeps
  <2>6. Intact(s.k)
    BY <2>1, <2>2, PieceReturns DEF Returns
  <2>7. /\ connection'.stop = s.k.stop /\ connection'.out = s.k.out
        /\ connection'.skip_body = s.k.skip_body
        /\ connection'.open => s.p.err = "OK" /\ s.k.stop = "no"
    BY <2>1, <2>6, OnwardCorrect
  <2>8. Record(connection', log')
    BY <2>1, <2>5, <2>7, RecordStays DEF Upgraded
  <2>9. connection'.open => Recalls(parser', connection', route', log')
    BY <2>1, <2>5, <2>7 DEF Recalls
  <2> QED BY <1>1, <2>8, <2>9 DEF Tallies
<1> QED BY <1>2, <1>3 DEF Exchange

\* Whatever is routed and whatever the handlers answer, as long as the status
\* is one that ends a request.
THEOREM AnswersInOrderCorrect == Serving /\ []StatusesFinal => []AnswersInOrder
<1>1. Tallies => AnswersInOrder
  BY DEF Tallies, Record, AnswersInOrder
<1> QED BY <1>1, TalliesAtFirst, TalliesStay, PTL DEF Serving
-----------------------------------------------------------------------------
(* The names of files.                                                     *)

\* Texts of pieces, of which "_" is one.
Blank == "_"
Texts(P) == Seq(P)
Underscored(P) == Blank \in P
Walks(P) == [data : Seq(P), entry : BOOLEAN]

Begins(d, j) == j = 1 \/ d[j - 1] \in Separators

\* Where sanitizeSpecialFile takes a name to end.  A ":" later becomes "_".
Stops(d, j) == j > Len(d) \/ d[j] \in Separators \cup {".", ":"}

Harmless(d, j) ==
  /\ ~(d[j] \in Devices /\ Stops(d, j + 1))
  /\ ~(/\ d[j] \in NumberedDevices /\ j < Len(d) /\ d[j + 1] \in Numerals \ {"0"}
       /\ Stops(d, j + 2))
  /\ ~(d[j] = "." /\ j < Len(d) /\ d[j + 1] = "." /\ Stops(d, j + 2))

\* What holds of position j once the loop has passed it.
Passed(d, j) ==
  /\ d[j] \notin Unsafe
  /\ j = 1 => d[j] \notin Separators
  /\ Begins(d, j) => Harmless(d, j)

\* What holds after n rounds.
Clean(s, n) ==
  /\ \A j \in 1..Len(s.data) : j <= n => Passed(s.data, j)
  /\ n < Len(s.data) => s.entry = Begins(s.data, n + 1)

\* One "_" in the place of m pieces, from position i on.
Shortened(d, i, m) == SubSeq(d, 1, i - 1) \o <<Blank>> \o SubSeq(d, i + m, Len(d))

LEMMA SingletonCorrect ==
  ASSUME NEW P, NEW x \in P
  PROVE  <<x>> \in Seq(P) /\ Len(<<x>>) = 1 /\ <<x>>[1] = x
OBVIOUS

LEMMA ShortenedCorrect ==
  ASSUME NEW P, Underscored(P), NEW d \in Texts(P), NEW i \in 1..Len(d), NEW m \in {1, 2},
         i + m - 1 <= Len(d)
  PROVE  /\ Shortened(d, i, m) \in Texts(P)
         /\ Len(Shortened(d, i, m)) = Len(d) - m + 1
         /\ Shortened(d, i, m)[i] = Blank
         /\ \A j \in 1..(i - 1) : Shortened(d, i, m)[j] = d[j]
<1> DEFINE front == SubSeq(d, 1, i - 1)
           back == SubSeq(d, i + m, Len(d))
           one == <<Blank>>
           middle == front \o one
           all == middle \o back
<1>1. Len(d) \in Nat /\ i \in Nat /\ i > 0 /\ m \in Nat
  BY DEF Texts
<1>2. /\ front \in Texts(P) /\ Len(front) = i - 1
      /\ \A j \in 1..(i - 1) : front[j] = d[j]
  BY SubSeqProperties DEF Texts
<1>3. back \in Texts(P) /\ Len(back) = Len(d) - m - i + 1
  BY SubSeqProperties DEF Texts
<1>4. one \in Texts(P) /\ Len(one) = 1 /\ one[1] = Blank
  BY SingletonCorrect DEF Texts, Underscored
<1> HIDE DEF front, back, one
<1>5. /\ middle \in Texts(P) /\ Len(middle) = i /\ middle[i] = Blank
      /\ \A j \in 1..(i - 1) : middle[j] = d[j]
  <2>1. /\ middle \in Texts(P) /\ Len(middle) = Len(front) + Len(one)
        /\ \A j \in 1..(Len(front) + Len(one)) :
             middle[j] = IF j <= Len(front) THEN front[j] ELSE one[j - Len(front)]
    BY <1>2, <1>4, ConcatProperties DEF Texts
  <2> HIDE DEF middle
  <2>2. Len(front) + Len(one) = i
    BY <1>1, <1>2, <1>4
  <2>3. middle[i] = Blank
    <3>1. i \in 1..i /\ ~(i <= Len(front)) /\ i - Len(front) = 1
      BY <1>1, <1>2
    <3> QED BY <1>4, <2>1, <2>2, <3>1
  <2>4. ASSUME NEW j \in 1..(i - 1) PROVE middle[j] = d[j]
    <3>1. j \in 1..i /\ j <= Len(front)
      BY <1>1, <1>2
    <3> QED BY <1>2, <2>1, <2>2, <3>1
  <2> QED BY <2>1, <2>2, <2>3, <2>4
<1> HIDE DEF middle
<1>6. /\ all \in Texts(P) /\ Len(all) = Len(d) - m + 1
      /\ \A j \in 1..i : all[j] = middle[j]
  <2>1. /\ all \in Texts(P) /\ Len(all) = Len(middle) + Len(back)
        /\ \A j \in 1..(Len(middle) + Len(back)) :
             all[j] = IF j <= Len(middle) THEN middle[j] ELSE back[j - Len(middle)]
    <3>1. middle \in Texts(P) /\ back \in Texts(P)
      BY <1>3, <1>5
    <3> QED BY <3>1, ConcatProperties DEF Texts
  <2> HIDE DEF all
  <2>2. Len(all) = Len(d) - m + 1
    BY <1>1, <1>3, <1>5, <2>1
  <2>3. ASSUME NEW j \in 1..i PROVE all[j] = middle[j]
    <3>1. j \in 1..(Len(middle) + Len(back)) /\ j <= Len(middle)
      BY <1>1, <1>3, <1>5
    <3> QED BY <2>1, <3>1
  <2> QED BY <2>1, <2>2, <2>3
<1> HIDE DEF all
<1>7. i \in 1..i /\ \A j \in 1..(i - 1) : j \in 1..i
  BY <1>1
<1>8. /\ all \in Texts(P) /\ Len(all) = Len(d) - m + 1 /\ all[i] = Blank
      /\ \A j \in 1..(i - 1) : all[j] = d[j]
  BY <1>5, <1>6, <1>7
<1>9. all = Shortened(d, i, m)
  BY DEF Shortened, all, middle, front, one, back
<1> QED BY <1>8, <1>9

\* The beginning of a name is left alone if it is harmless, or it is one "_".
LEMMA EntryCorrect ==
  ASSUME NEW P, Underscored(P), NEW d \in Texts(P), NEW i \in 1..Len(d)
  PROVE  \/ SanitizeEntry(d, i) = d /\ Harmless(d, i)
         \/ \E m \in {1, 2} :
              /\ SanitizeEntry(d, i) = Shortened(d, i, m)
              /\ i + m - 1 <= Len(d)
<1>1. Len(d) \in Nat
  BY DEF Texts
<1>2. \A m \in {1, 2} :
        Special(d, i, m) = IF Stops(d, i + m) THEN Shortened(d, i, m) ELSE d
  BY DEF Special, Stops, Shortened, Blank
<1>3. CASE d[i] \in Devices
  <2>1. SanitizeEntry(d, i) = Special(d, i, 1)
    BY <1>3 DEF SanitizeEntry, Devices, NumberedDevices
  <2>2. ~Stops(d, i + 1) => Harmless(d, i)
    BY <1>3 DEF Harmless, Devices, NumberedDevices
  <2> QED BY <1>1, <1>2, <2>1, <2>2
<1>4. CASE d[i] \in NumberedDevices /\ i < Len(d) /\ d[i + 1] \in Numerals \ {"0"}
  <2>1. SanitizeEntry(d, i) = Special(d, i, 2)
    BY <1>4 DEF SanitizeEntry, Devices, NumberedDevices
  <2>2. ~Stops(d, i + 2) => Harmless(d, i)
    BY <1>4 DEF Harmless, Devices, NumberedDevices
  <2> QED BY <1>1, <1>2, <1>4, <2>1, <2>2
<1>5. CASE d[i] = "." /\ i < Len(d) /\ d[i + 1] = "."
  <2>1. SanitizeEntry(d, i) = Special(d, i, 2)
    BY <1>5 DEF SanitizeEntry, Devices, NumberedDevices
  <2>2. ~Stops(d, i + 2) => Harmless(d, i)
    BY <1>5 DEF Harmless, Devices, NumberedDevices
  <2> QED BY <1>1, <1>2, <1>5, <2>1, <2>2
<1>6. CASE /\ d[i] \notin Devices
           /\ ~(d[i] \in NumberedDevices /\ i < Len(d) /\ d[i + 1] \in Numerals \ {"0"})
           /\ ~(d[i] = "." /\ i < Len(d) /\ d[i + 1] = ".")
  <2>1. SanitizeEntry(d, i) = d
    BY <1>6 DEF SanitizeEntry
  <2>2. Harmless(d, i)
    BY <1>6 DEF Harmless
  <2> QED BY <2>1, <2>2
<1> QED BY <1>3, <1>4, <1>5, <1>6

\* What the loop has passed stays as it is when a name is shortened behind it,
LEMMA ShorteningPasses ==
  ASSUME NEW P, Underscored(P), NEW d \in Texts(P), NEW i \in 1..Len(d), NEW m \in {1, 2}, i + m - 1 <= Len(d),
         Begins(d, i), NEW j \in 1..(i - 1), Passed(d, j)
  PROVE  Passed(Shortened(d, i, m), j)
<1> DEFINE e == Shortened(d, i, m)
<1>1. Len(d) \in Nat /\ j \in Nat /\ i \in Nat /\ j < i
  BY DEF Texts
<1>2. /\ Len(e) = Len(d) - m + 1 /\ e[i] = Blank
      /\ \A x \in 1..(i - 1) : e[x] = d[x]
  BY ShortenedCorrect
<1> HIDE DEF e
<1>6. Len(e) \in Nat /\ i <= Len(e) /\ i <= Len(d)
  <2>1. Len(e) = Len(d) - m + 1
    BY <1>2
  <2> QED BY <1>1, <2>1
<1>3. e[j] = d[j] /\ (j > 1 => e[j - 1] = d[j - 1]) /\ (j + 1 < i => e[j + 1] = d[j + 1])
      /\ (j + 2 < i => e[j + 2] = d[j + 2])
  <2>1. /\ j \in 1..(i - 1) /\ (j > 1 => j - 1 \in 1..(i - 1))
        /\ (j + 1 < i => j + 1 \in 1..(i - 1)) /\ (j + 2 < i => j + 2 \in 1..(i - 1))
    BY <1>1
  <2> QED BY <1>2, <2>1
<1>4. Begins(e, j) = Begins(d, j)
  BY <1>1, <1>3 DEF Begins
<1>5. ASSUME Harmless(d, j) PROVE Harmless(e, j)
  <2>1. CASE j = i - 1
    <3>1. d[j] \in Separators
      BY <1>1, <2>1 DEF Begins
    <3> QED BY <1>3, <3>1 DEF Harmless, Separators, Devices, NumberedDevices
  <2>2. CASE j = i - 2
    <3>1. e[j + 1] \in Separators /\ d[j + 1] = e[j + 1]
      <4>1. i - 1 = j + 1 /\ i # 1 /\ j + 1 < i
        BY <1>1, <2>2
      <4> QED BY <1>3, <4>1 DEF Begins
    <3>2. Stops(d, j + 1)
      BY <3>1 DEF Stops
    <3>3. d[j] \notin Devices
      BY <1>5, <3>2 DEF Harmless
    <3>4. e[j + 1] \notin Numerals /\ e[j + 1] # "."
      <4>1. Numerals = {"0", "1", "2", "3", "4", "5", "6", "7", "8", "9"}
        BY NumeralsCorrect
      <4> QED BY <3>1, <4>1 DEF Separators
    <3> QED BY <1>3, <3>3, <3>4 DEF Harmless
  <2>3. CASE j < i - 2
    <3>1. e[j + 1] = d[j + 1] /\ e[j + 2] = d[j + 2]
      BY <1>1, <1>3, <2>3
    <3>2. j + 2 <= Len(d) /\ j + 2 <= Len(e)
      BY <1>1, <1>6, <2>3
    <3>3. /\ Stops(e, j + 1) <=> Stops(d, j + 1)
          /\ Stops(e, j + 2) <=> Stops(d, j + 2)
      BY <1>1, <1>6, <3>1, <3>2 DEF Stops
    <3>4. j < Len(d) /\ j < Len(e)
      BY <1>1, <1>6, <3>2
    <3> QED BY <1>3, <1>5, <3>1, <3>3, <3>4 DEF Harmless
  <2> QED BY <1>1, <2>1, <2>2, <2>3
<1> QED BY <1>3, <1>4, <1>5 DEF Passed, e

\* and when one piece of it becomes "_".
LEMMA ReplacingPasses ==
  ASSUME NEW P, Underscored(P), NEW d \in Texts(P), NEW i \in 1..Len(d), NEW j \in 1..i,
         j < i => Passed(d, j), j = i /\ Begins(d, j) => Harmless(d, j)
  PROVE  /\ [d EXCEPT ![i] = Blank] \in Texts(P) /\ Len([d EXCEPT ![i] = Blank]) = Len(d)
         /\ [d EXCEPT ![i] = Blank][i] = Blank /\ Passed([d EXCEPT ![i] = Blank], j)
<1> DEFINE e == [d EXCEPT ![i] = Blank]
<1>1. Len(d) \in Nat /\ DOMAIN d = 1..Len(d) /\ i \in Nat /\ j \in Nat
  BY DEF Texts
<1>2. e \in Texts(P) /\ Len(e) = Len(d) /\ e[i] = Blank
      /\ \A x \in 1..Len(d) : x # i => e[x] = d[x]
  <2>2. /\ e \in Texts(P) /\ Len(e) = Len(d)
        /\ \A x \in 1..Len(d) : e[x] = IF x = i THEN Blank ELSE d[x]
    BY ExceptSeq DEF Texts, Underscored
  <2> HIDE DEF e
  <2> QED BY <2>2
<1> HIDE DEF e
<1>3. Blank \notin Separators \cup Unsafe \cup Devices \cup NumberedDevices \cup Numerals \cup {".", ":"}
  BY NumeralsCorrect DEF Blank, Separators, Unsafe, Devices, NumberedDevices
<1>4. \A x \in 1..Len(d) : e[x] # Blank => e[x] = d[x]
  BY <1>2
<1>5. ASSUME NEW x \in Nat, x > 0, Stops(e, x) PROVE Stops(d, x)
  <2>1. CASE x \in 1..Len(d)
    BY <1>2, <1>3, <1>4, <1>5, <2>1 DEF Stops
  <2>2. CASE x \notin 1..Len(d)
    BY <1>1, <1>5, <2>2 DEF Stops
  <2> QED BY <2>1, <2>2
<1>6. (Stops(e, j + 1) => Stops(d, j + 1)) /\ (Stops(e, j + 2) => Stops(d, j + 2))
  BY <1>1, <1>5
<1>7. Begins(e, j) => Begins(d, j)
  <2>1. CASE j = 1
    BY <2>1 DEF Begins
  <2>2. CASE j # 1
    <3>1. j - 1 \in 1..Len(d) /\ j - 1 # i
      BY <1>1, <2>2
    <3> QED BY <1>2, <3>1 DEF Begins
  <2> QED BY <2>1, <2>2
<1>8. ASSUME Harmless(d, j) PROVE Harmless(e, j)
  <2>1. j < Len(d) => j + 1 \in 1..Len(d)
    BY <1>1
  <2>2. j \in 1..Len(d)
    BY <1>1
  <2>3. j < Len(e) => j < Len(d)
    BY <1>2
  <2>4. e[j] # Blank => e[j] = d[j]
    BY <1>4, <2>2
  <2>5. j < Len(d) /\ e[j + 1] # Blank => e[j + 1] = d[j + 1]
    BY <1>4, <2>1
  <2>6. "." # Blank
    BY DEF Blank
  <2> QED BY <1>3, <1>6, <1>8, <2>3, <2>4, <2>5, <2>6 DEF Harmless
<1>9. Passed(e, j)
  <2>1. CASE j < i
    <3>1. e[j] = d[j]
      <4>1. j \in 1..Len(d) /\ j # i
        BY <1>1, <2>1
      <4> QED BY <1>2, <4>1
    <3> QED BY <1>7, <1>8, <2>1, <3>1 DEF Passed
  <2>2. CASE j = i
    BY <1>2, <1>3, <1>7, <1>8, <2>2 DEF Passed
  <2> QED BY <1>1, <2>1, <2>2
<1> QED BY <1>2, <1>9 DEF e

LEMMA VisitCorrect ==
  ASSUME NEW P, Underscored(P), NEW s \in Walks(P), NEW n \in Nat, Clean(s, n)
  PROVE  /\ Visit(s, n + 1) \in Walks(P)
         /\ Len(Visit(s, n + 1).data) <= Len(s.data)
         /\ Clean(Visit(s, n + 1), n + 1)
<1> DEFINE d == s.data
           i == n + 1
           e == IF s.entry THEN SanitizeEntry(d, i) ELSE d
           bad == e[i] \in Unsafe \/ (i = 1 /\ e[i] \in Separators)
           v == Visit(s, i)
<1>1. /\ d \in Texts(P) /\ Len(d) \in Nat /\ s.entry \in BOOLEAN
      /\ \A j \in 1..Len(d) : j <= n => Passed(d, j)
      /\ n < Len(d) => s.entry = Begins(d, i)
  BY DEF Walks, Texts, Clean
<1>2. v = IF i > Len(d) THEN s
          ELSE [data |-> IF bad THEN [e EXCEPT ![i] = Blank] ELSE e,
                entry |-> e[i] \in Separators /\ i > 1]
  BY DEF Visit, Blank
<1>3. i \in Nat /\ i > 0 /\ i - 1 = n
  OBVIOUS
<1>4. CASE i > Len(d)
  <2>1. v = s
    BY <1>2, <1>4
  <2>2. \A j \in 1..Len(d) : j <= n
    BY <1>1, <1>3, <1>4
  <2>3. Clean(s, i)
    BY <1>1, <1>3, <1>4, <2>2 DEF Clean
  <2> QED BY <1>1, <2>1, <2>3
<1>5. CASE i <= Len(d)
  <2>1. i \in 1..Len(d) /\ (s.entry = Begins(d, i))
    BY <1>1, <1>3, <1>5
  <2>2. CASE e = d /\ (Begins(d, i) => Harmless(d, i))
    <3> DEFINE r == [d EXCEPT ![i] = Blank]
    <3>1. CASE bad
      <4>1. ASSUME NEW j \in 1..i
            PROVE  r \in Texts(P) /\ Len(r) = Len(d) /\ r[i] = Blank /\ Passed(r, j)
        <5>1. (j < i => Passed(d, j)) /\ (j = i /\ Begins(d, j) => Harmless(d, j))
          <6>1. j < i => j \in 1..Len(d) /\ j <= n
            BY <1>1, <1>3, <2>1
          <6> QED BY <1>1, <2>2, <6>1
        <5> HIDE DEF i, d
        <5> QED BY <1>1, <2>1, <5>1, ReplacingPasses
      <4>2. i \in 1..i
        BY <1>3
      <4>3. r \in Texts(P) /\ Len(r) = Len(d) /\ r[i] = Blank
        BY <4>1, <4>2
      <4>4. (e[i] \in Separators /\ i > 1) = FALSE
        <5> HIDE DEF e, i
        <5>1. ASSUME e[i] \in Separators, i > 1 PROVE FALSE
          <6>1. e[i] \in Unsafe
            BY <1>3, <3>1, <5>1
          <6> QED BY <5>1, <6>1 DEF Unsafe, Separators
        <5> QED BY <5>1
      <4>5. v = [data |-> r, entry |-> FALSE]
        <5>1. [e EXCEPT ![i] = Blank] = r
          BY <2>2
        <5>2. ~(i > Len(d))
          BY <1>1, <1>3, <1>5
        <5> HIDE DEF r, d, e, bad, v, i
        <5> QED BY <1>2, <3>1, <4>4, <5>1, <5>2
      <4> HIDE DEF r, d, v, i
      <4>6. Begins(r, i + 1) = FALSE
        <5>1. i + 1 # 1 /\ (i + 1) - 1 = i
          BY <1>3
        <5> QED BY <4>3, <5>1 DEF Begins, Separators, Blank
      <4>7. Clean(v, i)
        <5>1. ASSUME NEW j \in 1..Len(r), j <= i PROVE Passed(r, j)
          <6>1. j \in 1..i
            <7>1. Len(r) \in Nat
              BY <1>1, <4>3
            <7> QED BY <1>3, <5>1, <7>1
          <6> QED BY <4>1, <6>1
        <5>2. v.data = r /\ v.entry = FALSE
          BY <4>5
        <5> QED BY <4>6, <5>1, <5>2 DEF Clean
      <4>8. v \in Walks(P) /\ Len(v.data) <= Len(d)
        <5>1. v.data = r /\ v \in Walks(P)
          BY <4>3, <4>5 DEF Walks, Texts
        <5> QED BY <1>1, <4>3, <5>1
      <4> QED BY <4>7, <4>8 DEF d, v, i
    <3>2. CASE ~bad
      <4>1. v = [data |-> d, entry |-> d[i] \in Separators /\ i > 1]
        BY <1>2, <1>3, <1>5, <2>2, <3>2
      <4>2. Passed(d, i)
        BY <2>2, <3>2 DEF Passed
      <4>3. (i = 1 => d[i] \notin Separators)
        BY <2>2, <3>2
      <4> HIDE DEF d, v, i
      <4>4. v.data = d /\ (v.entry = (d[i] \in Separators /\ i > 1))
        BY <4>1
      <4>5. v.entry = Begins(d, i + 1)
        <5>1. i + 1 # 1 /\ (i + 1) - 1 = i /\ (i = 1 \/ i > 1)
          BY <1>3
        <5> QED BY <4>3, <4>4, <5>1 DEF Begins
      <4>6. Clean(v, i)
        <5>1. ASSUME NEW j \in 1..Len(d), j <= i PROVE Passed(d, j)
          <6>1. j = i \/ j <= n
            BY <1>1, <1>3, <5>1
          <6> QED BY <1>1, <4>2, <6>1
        <5> QED BY <4>4, <4>5, <5>1 DEF Clean
      <4>7. v \in Walks(P) /\ Len(v.data) <= Len(d)
        <5>1. (d[i] \in Separators /\ i > 1) \in BOOLEAN
          OBVIOUS
        <5> QED BY <1>1, <4>1, <4>4, <5>1 DEF Walks, Texts
      <4> QED BY <4>6, <4>7 DEF d, v, i
    <3> QED BY <3>1, <3>2
  <2>3. ASSUME NEW m \in {1, 2}, Begins(d, i), e = Shortened(d, i, m), i + m - 1 <= Len(d)
        PROVE  /\ v \in Walks(P) /\ Len(v.data) <= Len(d) /\ Clean(v, i)
    <3> HIDE DEF d, i, e
    <3>1. /\ e \in Texts(P) /\ Len(e) = Len(d) - m + 1 /\ e[i] = Blank
      BY <1>1, <2>1, <2>3, ShortenedCorrect
    <3>2. Len(e) \in Nat /\ Len(e) <= Len(d)
      <4>1. Len(e) = Len(d) - m + 1
        BY <3>1
      <4> QED BY <1>1, <1>3, <2>3, <4>1
    <3>3. ~bad /\ e[i] \notin Separators
      BY <3>1 DEF Unsafe, Separators, Blank
    <3> HIDE DEF bad
    <3>4. v = [data |-> e, entry |-> FALSE]
      <4>1. ~(i > Len(d)) /\ (e[i] \in Separators /\ i > 1) = FALSE
        BY <1>1, <1>3, <1>5, <3>3
      <4> HIDE DEF v
      <4> QED BY <1>2, <3>3, <4>1
    <3> HIDE DEF v
    <3>5. v.data = e /\ v.entry = FALSE
      BY <3>4
    <3>6. Begins(e, i + 1) = FALSE
      <4>1. i + 1 # 1 /\ (i + 1) - 1 = i
        BY <1>3
      <4> QED BY <3>3, <4>1 DEF Begins
    <3>7. ASSUME NEW j \in 1..Len(e), j <= i PROVE Passed(e, j)
      <4>1. CASE j < i
        <5>1. j \in 1..(i - 1) /\ j \in 1..Len(d) /\ j <= n
          BY <1>1, <1>3, <3>2, <4>1
        <5> QED BY <1>1, <2>1, <2>3, <5>1, ShorteningPasses
      <4>2. CASE j = i
        BY <3>1, <4>2 DEF Blank, Passed, Harmless, Unsafe, Separators, Devices, NumberedDevices
      <4> QED BY <1>3, <3>2, <3>7, <4>1, <4>2
    <3>8. Clean(v, i)
      BY <3>5, <3>6, <3>7 DEF Clean
    <3> QED BY <3>1, <3>2, <3>4, <3>5, <3>8 DEF Walks, Texts
  <2>4. CASE ~s.entry
    BY <1>1, <2>1, <2>2, <2>4
  <2>5. CASE s.entry
    <3>1. e = SanitizeEntry(d, i) /\ Begins(d, i)
      BY <2>1, <2>5
    <3>2. \/ SanitizeEntry(d, i) = d /\ Harmless(d, i)
          \/ \E m \in {1, 2} : SanitizeEntry(d, i) = Shortened(d, i, m) /\ i + m - 1 <= Len(d)
      <4> HIDE DEF d, i
      <4> QED BY <1>1, <2>1, EntryCorrect
    <3> QED BY <2>2, <2>3, <3>1, <3>2
  <2> QED BY <1>1, <2>4, <2>5
<1> QED BY <1>1, <1>3, <1>4, <1>5

\* Rounds that go on from each other, wherever the last one is clean.
LEMMA RoundsCorrect ==
  ASSUME NEW P, Underscored(P), NEW n \in Nat, NEW f,
         f[0] \in Walks(P), Clean(f[0], 0), Len(f[0].data) <= n,
         \A i \in 1..n : f[i - 1] \in Walks(P) /\ Clean(f[i - 1], i - 1)
                         => f[i] = Visit(f[i - 1], i)
  PROVE  \A i \in 0..n : /\ f[i] \in Walks(P) /\ Clean(f[i], i)
                         /\ Len(f[i].data) <= n
<1> DEFINE Good(i) == f[i] \in Walks(P) /\ Clean(f[i], i) /\ Len(f[i].data) <= n
           S == {i \in Nat : i <= n => Good(i)}
<1>1. 0 \in S
  OBVIOUS
<1>2. ASSUME NEW i \in Nat, i \in S PROVE i + 1 \in S
  <2>1. SUFFICES ASSUME i + 1 <= n PROVE Good(i + 1)
    OBVIOUS
  <2>2. Good(i) /\ i + 1 \in 1..n /\ (i + 1) - 1 = i
    BY <1>2, <2>1
  <2> DEFINE v == Visit(f[i], i + 1)
  <2>3. f[i + 1] = v
    BY <2>2
  <2>4. v \in Walks(P) /\ Len(v.data) <= Len(f[i].data) /\ Clean(v, i + 1)
    BY <2>2, VisitCorrect
  <2>5. Len(v.data) \in Nat /\ Len(f[i].data) \in Nat
    BY <2>2, <2>4 DEF Walks
  <2> HIDE DEF v
  <2>6. Len(v.data) <= n
    BY <2>2, <2>4, <2>5
  <2> QED BY <2>3, <2>4, <2>6
<1>3. Nat \subseteq S
  <2> HIDE DEF S
  <2> QED BY <1>1, <1>2, SetInduction
<1> QED BY <1>3

LEMMA SanitizeLeavesNothing ==
  ASSUME NEW P, Underscored(P), NEW data \in Texts(P)
  PROVE  NothingSpecial(Sanitize(data))
<1> DEFINE text == Cut(data)
           n == Len(text)
           V == Walks(P)
           b == [data |-> text, entry |-> TRUE]
           F == [x \in V \X (1..n) |-> IF Visit(x[1], x[2]) \in V THEN Visit(x[1], x[2]) ELSE b]
           step(f) == [i \in 0..n |-> IF i = 0 THEN b ELSE Visit(f[i - 1], i)]
           walk == CHOOSE f : f = step(f)
<1>1. text \in Texts(P) /\ n \in Nat
  <2>1. Len(data) \in Nat /\ Least(Len(data), MaxName) \in 0..Len(data)
    BY MaxNameAssumption DEF Texts, Least
  <2>2. SubSeq(data, 1, Least(Len(data), MaxName)) \in Texts(P)
    BY <2>1, SubSeqProperties DEF Texts
  <2> QED BY <2>2 DEF Cut, Texts
<1> HIDE DEF text
<1>2. b \in V /\ b.data = text /\ Clean(b, 0)
  <2>1. b \in V /\ b.data = text /\ b.entry = TRUE
    BY <1>1 DEF Walks, Texts
  <2> HIDE DEF b
  <2>2. \A j \in 1..n : ~(j <= 0)
    BY <1>1
  <2>3. Begins(text, 0 + 1) = TRUE
    BY DEF Begins
  <2> QED BY <2>1, <2>2, <2>3 DEF Clean
<1> HIDE DEF V, b, n
<1>3. F \in [V \X (1..n) -> V]
  BY <1>2
<1>4. PICK g \in [0..n -> V] : g[0] = b /\ \A i \in 1..n : g[i] = F[<<g[i - 1], i>>]
  <2> HIDE DEF F
  <2>1. Iterations(n, V, b, F) # {}
    BY <1>1, <1>2, <1>3, IterationExists
  <2> QED
    BY <2>1 DEF Iterations
<1>5. ASSUME NEW i \in 1..n, Clean(g[i - 1], i - 1)
      PROVE  g[i] = Visit(g[i - 1], i)
  <2>1. i - 1 \in 0..n /\ i - 1 \in Nat /\ (i - 1) + 1 = i
    BY <1>1
  <2>2. g[i - 1] \in V
    BY <2>1
  <2>3. Visit(g[i - 1], i) \in V
    <3> DEFINE s == g[i - 1]
               m == i - 1
    <3>1. s \in Walks(P) /\ m \in Nat /\ Clean(s, m) /\ m + 1 = i
      BY <1>5, <2>1, <2>2 DEF V
    <3> HIDE DEF s, m
    <3>2. Visit(s, m + 1) \in Walks(P)
      BY <3>1, VisitCorrect
    <3>3. Visit(s, i) \in V
      BY <3>1, <3>2 DEF V
    <3> QED BY <3>3 DEF s
  <2>4. g[i] = F[<<g[i - 1], i>>]
    BY <1>4
  <2> QED BY <2>2, <2>3, <2>4
<1>6. \A i \in 0..n : g[i] \in V /\ Clean(g[i], i)
  BY <1>1, <1>2, <1>4, <1>5, RoundsCorrect DEF V, n
<1>7. g = step(g)
  <2>1. ASSUME NEW i \in 0..n
        PROVE  g[i] = IF i = 0 THEN b ELSE Visit(g[i - 1], i)
    <3>1. CASE i = 0
      BY <1>4, <3>1
    <3>2. CASE i # 0
      <4>1. i \in 1..n /\ i - 1 \in 0..n
        BY <1>1, <3>2
      <4> QED BY <1>5, <1>6, <3>2, <4>1
    <3> QED BY <3>1, <3>2
  <2> QED BY <1>4, <2>1
<1>8. walk = step(walk)
  BY <1>7
<1> HIDE DEF walk
<1>9. walk[0] = b /\ \A i \in 1..n : walk[i] = Visit(walk[i - 1], i)
  BY <1>1, <1>8
<1>10. walk[n] \in Walks(P) /\ Clean(walk[n], n) /\ Len(walk[n].data) <= n
  <2>1. \A i \in 0..n : /\ walk[i] \in Walks(P) /\ Clean(walk[i], i)
                        /\ Len(walk[i].data) <= n
    BY <1>1, <1>2, <1>9, RoundsCorrect DEF V, n
  <2> QED BY <1>1, <2>1
<1>11. Sanitize(data) = walk[n].data
  BY Zenon DEF Sanitize, walk, b, text, n
<1> DEFINE path == walk[n].data
<1>12. path \in Texts(P) /\ Len(path) \in Nat /\ DOMAIN path = 1..Len(path)
  BY <1>10 DEF Walks, Texts
<1>13. ASSUME NEW j \in 1..Len(path) PROVE Passed(path, j)
  <2>1. j <= n
    BY <1>1, <1>10, <1>12
  <2> QED BY <1>10, <2>1 DEF Clean
<1> HIDE DEF path
<1>14. NothingSpecial(path)
  <2>1. ToSet(path) \cap Unsafe = {}
    BY <1>12, <1>13 DEF ToSet, Passed
  <2>2. ASSUME NEW x, NameEnds(path, x) PROVE Stops(path, x)
    BY <2>2 DEF NameEnds, Stops
  <2>3. ASSUME NEW j \in DOMAIN path, Begins(path, j)
        PROVE  /\ j = 1 => path[j] \notin Separators
               /\ ~(path[j] \in Devices /\ NameEnds(path, j + 1))
               /\ ~(/\ path[j] \in NumberedDevices /\ NameEnds(path, j + 2)
                    /\ j < Len(path) /\ path[j + 1] \in Numerals \ {"0"})
               /\ ~(/\ path[j] = "." /\ NameEnds(path, j + 2)
                    /\ j < Len(path) /\ path[j + 1] = ".")
    <3>1. Passed(path, j) /\ Harmless(path, j)
      BY <1>12, <1>13, <2>3 DEF Passed
    <3>2. /\ NameEnds(path, j + 1) => Stops(path, j + 1)
          /\ NameEnds(path, j + 2) => Stops(path, j + 2)
      BY <2>2
    <3> QED BY <3>1, <3>2 DEF Passed, Harmless
  <2> QED BY <2>1, <2>3 DEF NothingSpecial, Begins
<1> QED BY <1>11, <1>14 DEF path

\* Whatever path is asked for, sanitize_filename leaves nothing special in the one
\* that is opened: no octet that a file system gives a meaning, no device in any
\* of its names, no name that leads out of the directory, and not the root.
THEOREM SanitizeCorrect ==
  ASSUME NEW P, "_" \in P, NEW data \in Seq(P)
  PROVE  NothingSpecial(Sanitize(data))
BY SanitizeLeavesNothing, Zenon DEF Underscored, Blank, Texts
-----------------------------------------------------------------------------
(* The strings of JSON.                                                    *)

\* Pieces of which those are some that escape writes.
Letters == {"\"", "\\", "n", "r", "t", "b", "f", "u", "0"}
Lettered(P) == Letters \subseteq P

\* The three forms of what escape makes of a piece.
Plain(c, e) == Len(e) = 1 /\ e[1] = c /\ c \notin {"\"", "\\", "NUL"}
Short(c, e) == Len(e) = 2 /\ e[1] = "\\" /\ e[2] \in Escapes /\ Unescaped(e, 2) = c
Long(c, e) ==
  /\ Len(e) = 6 /\ e[1] = "\\" /\ e[2] = "u" /\ c = "NUL"
  /\ \A k \in 3..6 : e[k] = "0"

LEMMA OneCorrect ==
  ASSUME NEW P, NEW x \in P
  PROVE  <<x>> \in Seq(P) /\ Len(<<x>>) = 1 /\ <<x>>[1] = x
OBVIOUS

LEMMA TwoCorrect ==
  ASSUME NEW P, NEW x \in P, NEW y \in P
  PROVE  <<x, y>> \in Seq(P) /\ Len(<<x, y>>) = 2 /\ <<x, y>>[1] = x /\ <<x, y>>[2] = y
OBVIOUS

LEMMA SixCorrect ==
  ASSUME NEW P, NEW x \in P, NEW y \in P, NEW z \in P
  PROVE  LET e == <<x, y, z, z, z, z>> IN
         /\ e \in Seq(P) /\ Len(e) = 6 /\ e[1] = x /\ e[2] = y
         /\ \A k \in 3..6 : e[k] = z
OBVIOUS

LEMMA EscapeOfCorrect ==
  ASSUME NEW P, Lettered(P), NEW c \in P
  PROVE  LET e == EscapeOf(c) IN
         e \in Texts(P) /\ (Plain(c, e) \/ Short(c, e) \/ Long(c, e))
<1> DEFINE e == EscapeOf(c)
           Pair(x) == <<"\\", x>>
<1>1. \A x \in Letters : x \in P
  BY DEF Lettered
<1>2. ASSUME NEW x \in Letters
      PROVE  Pair(x) \in Seq(P) /\ Len(Pair(x)) = 2 /\ Pair(x)[1] = "\\" /\ Pair(x)[2] = x
  <2>1. "\\" \in P /\ x \in P
    BY <1>1 DEF Letters
  <2> QED BY <2>1, TwoCorrect
<1>3. CASE c \in {"\"", "\\"}
  <2>1. e = Pair(c) /\ c \in Letters /\ c \in Escapes
    BY <1>3 DEF EscapeOf, Letters, Escapes
  <2>2. Pair(c) \in Seq(P) /\ Len(Pair(c)) = 2 /\ Pair(c)[1] = "\\" /\ Pair(c)[2] = c
    BY <1>2, <2>1
  <2> HIDE DEF e, Pair
  <2>3. e \in Texts(P) /\ Len(e) = 2 /\ e[1] = "\\" /\ e[2] = c
    BY <2>1, <2>2 DEF Texts
  <2>4. Unescaped(e, 2) = c
    BY <1>3, <2>3 DEF Unescaped
  <2> QED BY <2>1, <2>3, <2>4 DEF Short, e
<1>4. ASSUME NEW x \in {"n", "r", "t", "b", "f"}, e = Pair(x),
             \/ c = "LF" /\ x = "n"
             \/ c = "CR" /\ x = "r"
             \/ c = "TAB" /\ x = "t"
             \/ c = "BS" /\ x = "b"
             \/ c = "FF" /\ x = "f"
      PROVE  e \in Texts(P) /\ Short(c, e)
  <2>1. x \in Letters /\ x \in Escapes
    BY <1>4 DEF Letters, Escapes
  <2>2. Pair(x) \in Seq(P) /\ Len(Pair(x)) = 2 /\ Pair(x)[1] = "\\" /\ Pair(x)[2] = x
    BY <1>2, <2>1
  <2> HIDE DEF e, Pair
  <2>3. e \in Texts(P) /\ Len(e) = 2 /\ e[1] = "\\" /\ e[2] = x
    BY <1>4, <2>2 DEF Texts
  <2>4. Unescaped(e, 2) = c
    BY <1>4, <2>3 DEF Unescaped
  <2> QED BY <2>1, <2>3, <2>4 DEF Short
<1>5. CASE c \in {"LF", "CR", "TAB", "BS", "FF"}
  <2>1. \/ c = "LF" /\ e = Pair("n")
        \/ c = "CR" /\ e = Pair("r")
        \/ c = "TAB" /\ e = Pair("t")
        \/ c = "BS" /\ e = Pair("b")
        \/ c = "FF" /\ e = Pair("f")
    BY <1>5 DEF EscapeOf
  <2> HIDE DEF e, Pair
  <2> QED BY <1>4, <2>1 DEF e
<1>6. CASE c = "NUL"
  <2>1. e = <<"\\", "u", "0", "0", "0", "0">>
    BY <1>6 DEF EscapeOf
  <2>2. "\\" \in P /\ "u" \in P /\ "0" \in P
    BY <1>1 DEF Letters
  <2>3. /\ e \in Seq(P) /\ Len(e) = 6 /\ e[1] = "\\" /\ e[2] = "u"
        /\ \A k \in 3..6 : e[k] = "0"
    <3> HIDE DEF e
    <3> QED BY <2>1, <2>2, SixCorrect
  <2> HIDE DEF e
  <2> QED BY <1>6, <2>3 DEF Long, Texts, e
<1>7. CASE c \notin {"\"", "\\", "LF", "CR", "TAB", "BS", "FF", "NUL"}
  <2>1. e = <<c>>
    BY <1>7 DEF EscapeOf
  <2>2. <<c>> \in Seq(P) /\ Len(<<c>>) = 1 /\ <<c>>[1] = c
    BY OneCorrect
  <2> HIDE DEF e
  <2> QED BY <1>7, <2>1, <2>2 DEF Plain, Texts, e
<1> QED BY <1>3, <1>5, <1>6, <1>7

\* What stands at position i of a text.
Stands(t, i, e) == i + Len(e) - 1 <= Len(t) /\ \A k \in 1..Len(e) : t[i + k - 1] = e[k]

LEMMA ZeroIsHex == "0" \in Hex
  BY DEF Hex, HexDigit, Numerals, Figures, ToSet

\* A round of decode_string passes what escape made of one piece.
LEMMA NextCorrect ==
  ASSUME NEW P, Lettered(P), NEW c \in P, NEW t \in Texts(P), NEW i \in Nat \ {0},
         Stands(t, i, EscapeOf(c))
  PROVE  StringNext(t, i) = i + Len(EscapeOf(c))
<1> DEFINE e == EscapeOf(c)
<1>1. /\ e \in Texts(P) /\ (Plain(c, e) \/ Short(c, e) \/ Long(c, e))
      /\ Stands(t, i, e)
  BY EscapeOfCorrect
<1>2. Len(t) \in Nat
  BY DEF Texts
<1> HIDE DEF e
<1>3. CASE Plain(c, e)
  <2>1. Len(e) = 1 /\ e[1] = c /\ c \notin {"\"", "\\", "NUL"}
    BY <1>3 DEF Plain
  <2>2. i <= Len(t) /\ t[i] = c
    <3>1. Len(e) = 1 /\ e[1] = c
      BY <2>1
    <3>2. i + 1 - 1 <= Len(t) /\ t[i + 1 - 1] = c /\ i + 1 - 1 = i
      BY <1>1, <1>2, <3>1 DEF Stands
    <3> QED BY <3>2
  <2>3. At(t, i) = c
    BY <1>2, <2>2 DEF At
  <2>4. StringNext(t, i) = i + 1
    BY <2>1, <2>3 DEF StringNext
  <2> QED BY <2>1, <2>4 DEF e
<1>4. CASE Short(c, e)
  <2>1. Len(e) = 2 /\ e[1] = "\\" /\ e[2] \in Escapes
    BY <1>4 DEF Short
  <2>2. i + 1 <= Len(t) /\ t[i] = e[1] /\ t[i + 1] = e[2]
    <3>1. Len(e) = 2
      BY <2>1
    <3>2. i + 2 - 1 <= Len(t) /\ t[i + 1 - 1] = e[1] /\ t[i + 2 - 1] = e[2]
      BY <1>1, <1>2, <3>1 DEF Stands
    <3>3. i + 1 - 1 = i /\ i + 2 - 1 = i + 1
      OBVIOUS
    <3> QED BY <3>2, <3>3
  <2>3. At(t, i) = e[1] /\ At(t, i + 1) = e[2]
    BY <1>2, <2>2 DEF At
  <2>4. EscapeLen(t, i) = 2
    <3>1. At(t, i + 1) \in Escapes /\ At(t, i + 1) # "u"
      BY <2>1, <2>3 DEF Escapes
    <3> QED BY <3>1 DEF EscapeLen
  <2>5. StringNext(t, i) = i + 2
    BY <2>1, <2>3, <2>4 DEF StringNext
  <2> QED BY <2>1, <2>5 DEF e
<1>5. CASE Long(c, e)
  <2>1. Len(e) = 6 /\ e[1] = "\\" /\ e[2] = "u" /\ \A k \in 3..6 : e[k] = "0"
    BY <1>5 DEF Long
  <2>2. i + 5 <= Len(t) /\ t[i] = e[1] /\ t[i + 1] = e[2]
        /\ \A k \in 2..5 : t[i + k] = e[k + 1]
    <3>1. Len(e) = 6
      BY <2>1
    <3>2. i + 6 - 1 <= Len(t) /\ t[i + 1 - 1] = e[1] /\ t[i + 2 - 1] = e[2]
      BY <1>1, <1>2, <3>1 DEF Stands
    <3>3. i + 1 - 1 = i /\ i + 2 - 1 = i + 1 /\ i + 6 - 1 = i + 5
      OBVIOUS
    <3>4. ASSUME NEW k \in 2..5 PROVE t[i + k] = e[k + 1]
      <4>1. k + 1 \in 1..6 /\ i + (k + 1) - 1 = i + k
        OBVIOUS
      <4> QED BY <1>1, <3>1, <4>1 DEF Stands
    <3> QED BY <3>2, <3>3, <3>4
  <2>3. At(t, i) = e[1] /\ At(t, i + 1) = e[2] /\ \A k \in 2..5 : At(t, i + k) = e[k + 1]
    BY <1>2, <2>2 DEF At
  <2>4. ASSUME NEW k \in 2..5 PROVE At(t, i + k) \in Hex
    <3>1. k + 1 \in 3..6
      OBVIOUS
    <3>2. e[k + 1] = "0"
      BY <2>1, <3>1
    <3> QED BY <2>3, <3>2, ZeroIsHex
  <2>5. EscapeLen(t, i) = 6
    <3>1. At(t, i + 1) \notin Escapes
      BY <2>1, <2>3 DEF Escapes
    <3>2. At(t, i + 1) = "u"
      BY <2>1, <2>3
    <3> QED BY <2>4, <3>1, <3>2 DEF EscapeLen
  <2>6. StringNext(t, i) = i + 6
    BY <2>1, <2>3, <2>5 DEF StringNext
  <2> QED BY <2>1, <2>6 DEF e
<1> QED BY <1>1, <1>3, <1>4, <1>5

\* A round of unescape resolves it.
LEMMA UnescapeNextCorrect ==
  ASSUME NEW P, Lettered(P), NEW c \in P, NEW t \in Texts(P), NEW i \in Nat \ {0},
         Stands(t, i, EscapeOf(c)), NEW out
  PROVE  UnescapeNext(t, [head |-> i, tail |-> out]) =
           [head |-> i + Len(EscapeOf(c)), tail |-> Append(out, c)]
<1> DEFINE e == EscapeOf(c)
           w == [head |-> i, tail |-> out]
<1>1. /\ e \in Texts(P) /\ (Plain(c, e) \/ Short(c, e) \/ Long(c, e))
      /\ Stands(t, i, e)
  BY EscapeOfCorrect
<1>2. Len(t) \in Nat
  BY DEF Texts
<1>3. w.head = i /\ w.tail = out
  OBVIOUS
<1> HIDE DEF e, w
<1>4. CASE Plain(c, e)
  <2>1. Len(e) = 1 /\ e[1] = c /\ c \notin {"\"", "\\", "NUL"}
    BY <1>4 DEF Plain
  <2>2. i <= Len(t) /\ t[i] = c
    <3>1. Len(e) = 1 /\ e[1] = c
      BY <2>1
    <3>2. i + 1 - 1 <= Len(t) /\ t[i + 1 - 1] = c /\ i + 1 - 1 = i
      BY <1>1, <1>2, <3>1 DEF Stands
    <3> QED BY <3>2
  <2>3. ~(i > Len(t)) /\ t[i] # "\\"
    <3>1. ~(i > Len(t))
      BY <1>2, <2>2
    <3>2. t[i] # "\\"
      BY <2>1, <2>2
    <3> QED BY <3>1, <3>2
  <2>4. UnescapeNext(t, w) = [head |-> i + 1, tail |-> Append(out, c)]
    BY <1>3, <2>2, <2>3, Zenon DEF UnescapeNext
  <2> QED BY <2>1, <2>4, Zenon DEF e, w
<1>5. CASE Short(c, e)
  <2>1. Len(e) = 2 /\ e[1] = "\\" /\ e[2] \in Escapes /\ Unescaped(e, 2) = c
    BY <1>5 DEF Short
  <2>2. i + 1 <= Len(t) /\ t[i] = e[1] /\ t[i + 1] = e[2]
    <3>1. Len(e) = 2
      BY <2>1
    <3>2. i + 2 - 1 <= Len(t) /\ t[i + 1 - 1] = e[1] /\ t[i + 2 - 1] = e[2]
      BY <1>1, <1>2, <3>1 DEF Stands
    <3>3. i + 1 - 1 = i /\ i + 2 - 1 = i + 1
      OBVIOUS
    <3> QED BY <3>2, <3>3
  <2>3. ~(i > Len(t))
    BY <1>2, <2>2
  <2>4. t[i] = "\\" /\ t[i + 1] # "u" /\ e[2] # "u"
    BY <2>1, <2>2 DEF Escapes
  <2>5. Unescaped(t, i + 1) = c
    BY <2>1, <2>2, <2>4 DEF Unescaped
  <2>6. UnescapeNext(t, w) = [head |-> i + 2, tail |-> Append(out, c)]
    BY <1>3, <2>3, <2>4, <2>5, Zenon DEF UnescapeNext
  <2> QED BY <2>1, <2>6, Zenon DEF e, w
<1>6. CASE Long(c, e)
  <2>1. Len(e) = 6 /\ e[1] = "\\" /\ e[2] = "u" /\ c = "NUL" /\ \A k \in 3..6 : e[k] = "0"
    BY <1>6 DEF Long
  <2>2. i + 5 <= Len(t) /\ t[i] = e[1] /\ t[i + 1] = e[2]
        /\ \A k \in 1..4 : t[(i + 1) + k] = e[k + 2]
    <3>1. Len(e) = 6
      BY <2>1
    <3>2. i + 6 - 1 <= Len(t) /\ t[i + 1 - 1] = e[1] /\ t[i + 2 - 1] = e[2]
      BY <1>1, <1>2, <3>1 DEF Stands
    <3>3. i + 1 - 1 = i /\ i + 2 - 1 = i + 1 /\ i + 6 - 1 = i + 5
      OBVIOUS
    <3>4. ASSUME NEW k \in 1..4 PROVE t[(i + 1) + k] = e[k + 2]
      <4>1. k + 2 \in 1..6 /\ i + (k + 2) - 1 = (i + 1) + k
        OBVIOUS
      <4> QED BY <1>1, <3>1, <4>1 DEF Stands
    <3> QED BY <3>2, <3>3, <3>4
  <2>3. ~(i > Len(t))
    BY <1>2, <2>2
  <2>4. t[i] = "\\" /\ t[i + 1] = "u"
    BY <2>1, <2>2
  <2>5. \A k \in 1..4 : t[(i + 1) + k] = "0"
    <3>1. ASSUME NEW k \in 1..4 PROVE e[k + 2] = "0"
      <4>1. k + 2 \in 3..6
        OBVIOUS
      <4> QED BY <2>1, <4>1
    <3> QED BY <2>2, <3>1
  <2>6. Unescaped(t, i + 1) = c
    BY <2>1, <2>4, <2>5 DEF Unescaped
  <2>7. UnescapeNext(t, w) = [head |-> i + 6, tail |-> Append(out, c)]
    BY <1>3, <2>3, <2>4, <2>6, Zenon DEF UnescapeNext
  <2> QED BY <2>1, <2>7, Zenon DEF e, w
<1> QED BY <1>1, <1>4, <1>5, <1>6 DEF w

\* The rounds of escape: what ret holds after each.
Rets(P, s) ==
  {r \in [0..Len(s) -> Texts(P)] :
     /\ r[0] = <<>> /\ r[Len(s)] = Escape(s)
     /\ \A j \in 1..Len(s) : r[j] = r[j - 1] \o EscapeOf(s[j])}

LEMMA EscapeRuns ==
  ASSUME NEW P, Lettered(P), NEW s \in Texts(P)
  PROVE  Rets(P, s) # {}
<1> DEFINE n == Len(s)
           V == Texts(P)
           b == <<>>
           More(x, j) == x \o EscapeOf(s[j])
           F == [x \in V \X (1..n) |-> More(x[1], x[2])]
           step(f) == [j \in 0..n |-> IF j = 0 THEN b ELSE More(f[j - 1], j)]
           ret == CHOOSE f : f = step(f)
<1>1. n \in Nat /\ b \in V
  BY EmptySeq DEF Texts
<1>2. ASSUME NEW x \in V, NEW j \in 1..n PROVE More(x, j) \in V
  <2>1. s[j] \in P
    BY ElementOfSeq DEF Texts
  <2>2. EscapeOf(s[j]) \in Texts(P)
    BY <2>1, EscapeOfCorrect
  <2> QED BY <2>2, ConcatProperties DEF Texts
<1> HIDE DEF n, V, b, More
<1>3. F \in [V \X (1..n) -> V]
  BY <1>2
<1>4. PICK g \in [0..n -> V] : g[0] = b /\ \A j \in 1..n : g[j] = F[<<g[j - 1], j>>]
  <2> HIDE DEF F
  <2>1. Iterations(n, V, b, F) # {}
    BY <1>1, <1>3, IterationExists
  <2> QED BY <2>1 DEF Iterations
<1>5. ASSUME NEW j \in 1..n PROVE g[j] = More(g[j - 1], j)
  <2>1. g[j - 1] \in V
    BY <1>1
  <2> QED BY <1>4, <2>1
<1>6. g = step(g)
  <2>1. ASSUME NEW j \in 0..n PROVE g[j] = IF j = 0 THEN b ELSE More(g[j - 1], j)
    <3>1. j # 0 => j \in 1..n
      BY <1>1
    <3> QED BY <1>4, <1>5, <3>1
  <2> QED BY <1>4, <2>1
<1>7. ret = step(ret)
  BY <1>6
<1> HIDE DEF ret
<1>8. ret[0] = b /\ \A j \in 1..n : ret[j] = More(ret[j - 1], j)
  BY <1>1, <1>7
<1>9. \A j \in 0..n : ret[j] \in V
  <2>1. ret[0] \in V /\ \A j \in 1..n : ret[j - 1] \in V => ret[j] \in V
    BY <1>1, <1>2, <1>8
  <2> QED BY <1>1, <2>1, ValuesStay
<1>10. ret \in [0..n -> V]
  BY <1>7, <1>9
<1>11. Escape(s) = ret[n]
  BY Zenon DEF Escape, ret, b, n, More
<1> QED BY <1>8, <1>10, <1>11 DEF Rets, n, V, b, More

\* What a round appended stays where it is.
LEMMA ChunksStand ==
  ASSUME NEW P, Lettered(P), NEW s \in Texts(P), NEW r \in Rets(P, s), NEW j \in 1..Len(s)
  PROVE  /\ s[j] \in P
         /\ Len(r[j]) = Len(r[j - 1]) + Len(EscapeOf(s[j]))
         /\ Len(EscapeOf(s[j])) \in 1..6
         /\ Stands(Escape(s), Len(r[j - 1]) + 1, EscapeOf(s[j]))
<1> DEFINE n == Len(s)
           e(i) == EscapeOf(s[i])
           From(i) == Len(r[i - 1]) + 1
           S == {m \in Nat : j <= m /\ m <= n => Stands(r[m], From(j), e(j))}
<1>1. n \in Nat /\ j \in 1..n
  BY DEF Texts
<1>2. ASSUME NEW i \in 1..n
      PROVE  /\ s[i] \in P /\ e(i) \in Texts(P) /\ Len(e(i)) \in 1..6
             /\ r[i] \in Texts(P) /\ r[i - 1] \in Texts(P) /\ r[i] = r[i - 1] \o e(i)
  <2>1. s[i] \in P
    BY ElementOfSeq DEF Texts
  <2>2. e(i) \in Texts(P) /\ (Plain(s[i], e(i)) \/ Short(s[i], e(i)) \/ Long(s[i], e(i)))
    BY <2>1, EscapeOfCorrect
  <2>3. Len(e(i)) \in 1..6
    <3> HIDE DEF e
    <3>1. Len(e(i)) = 1 \/ Len(e(i)) = 2 \/ Len(e(i)) = 6
      BY <2>2 DEF Plain, Short, Long
    <3> QED BY <3>1
  <2>4. i \in 0..n /\ i - 1 \in 0..n
    BY <1>1
  <2> QED BY <2>1, <2>2, <2>3, <2>4 DEF Rets
<1> HIDE DEF e
<1>3. ASSUME NEW i \in 1..n
      PROVE  /\ Len(r[i - 1]) \in Nat /\ Len(e(i)) \in Nat
             /\ Len(r[i]) = Len(r[i - 1]) + Len(e(i))
             /\ \A k \in 1..Len(r[i - 1]) : r[i][k] = r[i - 1][k]
             /\ \A k \in 1..Len(e(i)) : r[i][Len(r[i - 1]) + k] = e(i)[k]
  <2> DEFINE p == r[i - 1]
             q == e(i)
  <2>1. p \in Seq(P) /\ q \in Seq(P) /\ r[i] = p \o q
    BY <1>2 DEF Texts
  <2> HIDE DEF p, q
  <2>2. /\ Len(p \o q) = Len(p) + Len(q) /\ Len(p) \in Nat /\ Len(q) \in Nat
        /\ \A k \in 1..(Len(p) + Len(q)) :
             (p \o q)[k] = IF k <= Len(p) THEN p[k] ELSE q[k - Len(p)]
    BY <2>1, ConcatProperties
  <2>3. ASSUME NEW k \in 1..Len(p) PROVE (p \o q)[k] = p[k]
    BY <2>2
  <2>4. ASSUME NEW k \in 1..Len(q) PROVE (p \o q)[Len(p) + k] = q[k]
    <3>1. /\ Len(p) + k \in 1..(Len(p) + Len(q)) /\ ~(Len(p) + k <= Len(p))
          /\ (Len(p) + k) - Len(p) = k
      BY <2>2
    <3> QED BY <2>2, <3>1
  <2> QED BY <2>1, <2>2, <2>3, <2>4 DEF p, q
<1>4. 0 \in S
  BY <1>1
<1>5. ASSUME NEW m \in Nat, m \in S PROVE m + 1 \in S
  <2>1. SUFFICES ASSUME j <= m + 1, m + 1 <= n PROVE Stands(r[m + 1], From(j), e(j))
    OBVIOUS
  <2>2. m + 1 \in 1..n /\ (m + 1) - 1 = m
    BY <2>1
  <2> DEFINE f == From(j)
             x == e(j)
  <2>3. f \in Nat \ {0} /\ Len(x) \in Nat /\ f = Len(r[j - 1]) + 1
    BY <1>1, <1>3
  <2>4. CASE j = m + 1
    <3>1. Len(r[m + 1]) = Len(r[j - 1]) + Len(x)
      BY <1>3, <2>2, <2>4
    <3>2. \A k \in 1..Len(x) : r[m + 1][Len(r[j - 1]) + k] = x[k]
      BY <1>3, <2>2, <2>4
    <3> HIDE DEF f, x
    <3>3. Len(r[j - 1]) \in Nat
      BY <1>1, <1>3
    <3>4. f + Len(x) - 1 <= Len(r[m + 1])
      BY <2>3, <3>1, <3>3
    <3>5. ASSUME NEW k \in 1..Len(x) PROVE r[m + 1][f + k - 1] = x[k]
      <4>1. f + k - 1 = Len(r[j - 1]) + k
        BY <2>3, <3>3
      <4> QED BY <3>2, <4>1
    <3>6. Stands(r[m + 1], f, x)
      BY <3>4, <3>5 DEF Stands
    <3> QED BY <3>6 DEF f, x
  <2>5. CASE j # m + 1
    <3>1. Stands(r[m], f, x)
      BY <1>1, <1>5, <2>1, <2>5
    <3>2. Len(r[m]) \in Nat /\ Len(r[m + 1]) \in Nat /\ Len(r[m]) <= Len(r[m + 1])
      <4> DEFINE u == Len(r[m])
                 v == Len(e(m + 1))
                 w == Len(r[m + 1])
      <4>1. u \in Nat /\ v \in Nat /\ w = u + v
        BY <1>3, <2>2
      <4> HIDE DEF u, v, w
      <4>2. u \in Nat /\ w \in Nat /\ u <= w
        BY <4>1
      <4> QED BY <4>2 DEF u, w
    <3>3. \A k \in 1..Len(r[m]) : r[m + 1][k] = r[m][k]
      BY <1>3, <2>2
    <3> HIDE DEF f, x
    <3> DEFINE u == Len(r[m])
               v == Len(x)
               w == Len(r[m + 1])
    <3>4. f + v - 1 <= u /\ f + v - 1 <= w
      <4>1. f \in Nat /\ v \in Nat /\ u \in Nat /\ w \in Nat /\ u <= w
        BY <2>3, <3>2
      <4>2. f + v - 1 <= u
        BY <3>1 DEF Stands
      <4> HIDE DEF u, v, w
      <4> QED BY <4>1, <4>2
    <3>5. ASSUME NEW k \in 1..Len(x) PROVE r[m + 1][f + k - 1] = x[k]
      <4>1. f + k - 1 \in 1..Len(r[m])
        <5>1. f \in Nat \ {0} /\ v \in Nat /\ u \in Nat /\ k \in 1..v
          BY <2>3, <3>2
        <5>2. f + v - 1 <= u
          BY <3>4
        <5> HIDE DEF u, v
        <5>3. f + k - 1 \in 1..u
          BY <5>1, <5>2
        <5> QED BY <5>3 DEF u
      <4>2. r[m + 1][f + k - 1] = r[m][f + k - 1]
        BY <3>3, <4>1
      <4> QED BY <3>1, <4>2 DEF Stands
    <3>6. Stands(r[m + 1], f, x)
      BY <3>4, <3>5 DEF Stands
    <3> QED BY <3>6 DEF f, x
  <2> QED BY <2>4, <2>5
<1>6. n \in S
  <2> HIDE DEF S
  <2> QED BY <1>1, <1>4, <1>5, SetInduction
<1>7. Stands(r[n], From(j), e(j))
  BY <1>1, <1>6
<1>8. r[n] = Escape(s)
  BY DEF Rets
<1> QED BY <1>1, <1>2, <1>3, <1>7, <1>8 DEF e

LEMMA ChunksAllStand ==
  ASSUME NEW P, Lettered(P), NEW s \in Texts(P), NEW r \in Rets(P, s)
  PROVE  \A j \in 1..Len(s) :
           /\ s[j] \in P
           /\ Len(r[j]) = Len(r[j - 1]) + Len(EscapeOf(s[j]))
           /\ Len(EscapeOf(s[j])) \in 1..6
           /\ Stands(Escape(s), Len(r[j - 1]) + 1, EscapeOf(s[j]))
BY ChunksStand

LEMMA PositionsCorrect ==
  ASSUME NEW P, Lettered(P), NEW s \in Texts(P), NEW r \in Rets(P, s)
  PROVE  /\ Len(r[0]) = 0 /\ r[Len(s)] = Escape(s)
         /\ \A j \in 0..Len(s) : Len(r[j]) \in Nat /\ j <= Len(r[j])
<1> DEFINE n == Len(s)
           S == {j \in Nat : j <= n => Len(r[j]) \in Nat /\ j <= Len(r[j])}
<1>1. n \in Nat
  BY DEF Texts
<1>2. Len(r[0]) = 0 /\ r[Len(s)] = Escape(s)
  BY EmptySeq DEF Rets
<1>3. 0 \in S
  BY <1>2
<1>4. ASSUME NEW j \in Nat, j \in S PROVE j + 1 \in S
  <2>1. SUFFICES ASSUME j + 1 <= n PROVE Len(r[j + 1]) \in Nat /\ j + 1 <= Len(r[j + 1])
    OBVIOUS
  <2> DEFINE u == Len(r[j])
             v == Len(EscapeOf(s[j + 1]))
             w == Len(r[j + 1])
  <2>2. u \in Nat /\ j <= u
    BY <1>4, <2>1
  <2>3. v \in 1..6 /\ w = u + v
    <3>1. j + 1 \in 1..n /\ (j + 1) - 1 = j
      BY <2>1
    <3> QED BY <3>1, ChunksStand
  <2> HIDE DEF u, v, w
  <2>4. w \in Nat /\ j + 1 <= w
    BY <2>2, <2>3
  <2> QED BY <2>4 DEF w
<1>5. Nat \subseteq S
  <2> HIDE DEF S
  <2> QED BY <1>3, <1>4, SetInduction
<1> QED BY <1>1, <1>2, <1>5

LEMMA StandsWithin ==
  ASSUME NEW P, NEW t \in Texts(P), NEW u \in Texts(P), NEW v \in Texts(P),
         NEW a \in Nat \ {0}, NEW i \in Nat \ {0}, Stands(t, a, u), Stands(u, i, v)
  PROVE  Stands(t, a + i - 1, v)
<1>1. Len(t) \in Nat /\ Len(u) \in Nat /\ Len(v) \in Nat
  BY DEF Texts
<1>2. a + Len(u) - 1 <= Len(t) /\ i + Len(v) - 1 <= Len(u)
  BY DEF Stands
<1>3. (a + i - 1) + Len(v) - 1 <= Len(t)
  BY <1>1, <1>2
<1>4. ASSUME NEW k \in 1..Len(v) PROVE t[(a + i - 1) + k - 1] = v[k]
  <2>1. i + k - 1 \in 1..Len(u) /\ a + (i + k - 1) - 1 = (a + i - 1) + k - 1
    BY <1>1, <1>2
  <2>2. u[i + k - 1] = v[k]
    BY DEF Stands
  <2>3. t[a + (i + k - 1) - 1] = u[i + k - 1]
    BY <2>1 DEF Stands
  <2> QED BY <2>1, <2>2, <2>3
<1> QED BY <1>3, <1>4 DEF Stands

\* Two functions that begin alike and go on alike are alike.
LEMMA SameRounds ==
  ASSUME NEW n \in Nat, NEW f, NEW g, f[0] = g[0],
         \A j \in 1..n : f[j - 1] = g[j - 1] => f[j] = g[j]
  PROVE  f[n] = g[n]
<1> DEFINE S == {j \in Nat : j <= n => f[j] = g[j]}
<1>1. 0 \in S
  OBVIOUS
<1>2. ASSUME NEW j \in Nat, j \in S PROVE j + 1 \in S
  <2>1. SUFFICES ASSUME j + 1 <= n PROVE f[j + 1] = g[j + 1]
    OBVIOUS
  <2>2. j + 1 \in 1..n /\ (j + 1) - 1 = j /\ f[j] = g[j]
    BY <1>2, <2>1
  <2> QED BY <2>2
<1>3. Nat \subseteq S
  <2> HIDE DEF S
  <2> QED BY <1>1, <1>2, SetInduction
<1> QED BY <1>3

\* A quote stands at i.
Closed(t, i) == At(t, i) = "\"" /\ i <= Len(t)

\* decode_string finds the quote that was put behind an escaped text.
LEMMA StringEndCorrect ==
  ASSUME NEW P, Lettered(P), NEW s \in Texts(P), NEW t \in Texts(P), NEW a \in Nat \ {0},
         Escape(s) \in Texts(P), Stands(t, a, Escape(s)),
         NEW end \in Nat \ {0}, end = a + Len(Escape(s)), Closed(t, end)
  PROVE  StringEnd(t, a) = end
<1>1. PICK r \in Rets(P, s) : TRUE
  BY EscapeRuns
<1> DEFINE n == Len(s)
           m == Len(t) + 1
           g == [j \in 0..m |-> IF j <= n THEN a + Len(r[j]) ELSE end]
           step(f) == [j \in 0..m |-> IF j = 0 THEN a ELSE StringNext(t, f[j - 1])]
           data == CHOOSE f : f = step(f)
<1>2. /\ n \in Nat /\ m \in Nat /\ end \in Nat \ {0} /\ n <= m
      /\ g[0] = a /\ g[n] = end /\ g[m] = end
  <2> DEFINE l == Len(Escape(s))
  <2>1. n \in Nat /\ Len(t) \in Nat /\ l \in Nat /\ n <= l /\ end <= Len(t)
    <3>1. n \in Nat /\ Len(t) \in Nat /\ l \in Nat
      BY DEF Texts
    <3>2. end <= Len(t)
      BY Zenon DEF Closed
    <3>3. Len(r[n]) = l
      BY <1>1, PositionsCorrect
    <3>4. n <= Len(r[n])
      <4>1. n \in 0..n
        BY <3>1
      <4> QED BY <1>1, <4>1, PositionsCorrect
    <3> QED BY <3>1, <3>2, <3>3, <3>4
  <2>2. Len(r[0]) = 0 /\ Len(r[n]) = l
    BY <1>1, PositionsCorrect
  <2>3. end = a + l /\ m = Len(t) + 1
    OBVIOUS
  <2> HIDE DEF l, m, n
  <2>4. n < m /\ m \in Nat /\ end \in Nat \ {0}
    BY <2>1, <2>3
  <2>5. 0 \in 0..m /\ n \in 0..m /\ m \in 0..m /\ 0 <= n /\ ~(m <= n) /\ n <= m
    BY <2>1, <2>4
  <2>6. g[0] = a + Len(r[0]) /\ g[n] = a + Len(r[n]) /\ g[m] = end
    BY <2>5
  <2>7. a + 0 = a
    OBVIOUS
  <2> HIDE DEF g
  <2> QED BY <2>1, <2>2, <2>3, <2>4, <2>5, <2>6, <2>7
<1>3. StringNext(t, end) = end
  <2>1. At(t, end) = "\""
    BY Zenon DEF Closed
  <2>2. end # 0
    BY <1>2
  <2> QED BY <2>1, <2>2 DEF StringNext
<1>4. ASSUME NEW j \in 1..n PROVE StringNext(t, a + Len(r[j - 1])) = a + Len(r[j])
  <2> DEFINE e == EscapeOf(s[j])
             p == Len(r[j - 1])
  <2>1. /\ s[j] \in P /\ Len(r[j]) = p + Len(e) /\ Len(e) \in 1..6
        /\ Stands(Escape(s), p + 1, e)
    <3>1. /\ s[j] \in P /\ Len(r[j]) = Len(r[j - 1]) + Len(EscapeOf(s[j]))
          /\ Len(EscapeOf(s[j])) \in 1..6
          /\ Stands(Escape(s), Len(r[j - 1]) + 1, EscapeOf(s[j]))
      <4>1. r \in Rets(P, s) /\ j \in 1..Len(s)
        BY <1>1
      <4> QED BY <4>1, ChunksAllStand
    <3> QED BY <3>1
  <2>2. p \in Nat
    <3>1. j - 1 \in 0..n
      BY <1>2
    <3> QED BY <1>1, <3>1, PositionsCorrect
  <2>3. e \in Texts(P)
    BY <2>1, EscapeOfCorrect
  <2>4. Stands(t, a + p, e)
    <3> HIDE DEF e, p
    <3>1. p + 1 \in Nat \ {0} /\ a + (p + 1) - 1 = a + p
      BY <2>2
    <3>2. Stands(t, a + (p + 1) - 1, e)
      BY <2>1, <2>3, <3>1, StandsWithin
    <3> QED BY <3>1, <3>2
  <2>5. StringNext(t, a + p) = (a + p) + Len(e)
    <3>1. a + p \in Nat \ {0}
      BY <2>2
    <3> QED BY <2>1, <2>4, <3>1, NextCorrect
  <2> HIDE DEF e, p
  <2>6. (a + p) + Len(e) = a + (p + Len(e))
    BY <2>1, <2>2
  <2> QED BY <2>1, <2>5, <2>6 DEF p
<1> HIDE DEF n, m
<1>5. ASSUME NEW j \in 1..m PROVE g[j] = StringNext(t, g[j - 1])
  <2>1. j \in 0..m /\ j - 1 \in 0..m
    BY <1>2
  <2>2. CASE j <= n
    <3>1. j \in 1..n /\ j - 1 <= n
      BY <1>2, <2>2
    <3>2. g[j] = a + Len(r[j]) /\ g[j - 1] = a + Len(r[j - 1])
      BY <2>1, <2>2, <3>1
    <3> HIDE DEF g
    <3> QED BY <1>4, <3>1, <3>2
  <2>3. CASE ~(j <= n)
    <3>1. j - 1 = n \/ ~(j - 1 <= n)
      BY <1>2, <2>3
    <3>2. g[j] = end /\ g[j - 1] = end
      BY <1>2, <2>1, <2>3, <3>1
    <3> HIDE DEF g
    <3> QED BY <1>3, <3>2
  <2> QED BY <2>2, <2>3
<1>6. g = step(g)
  <2> DEFINE G(j) == IF j <= n THEN a + Len(r[j]) ELSE end
  <2>1. ASSUME NEW j \in 0..m PROVE G(j) = IF j = 0 THEN a ELSE StringNext(t, g[j - 1])
    <3>1. j # 0 => j \in 1..m
      BY <1>2
    <3>2. g[j] = G(j)
      OBVIOUS
    <3> HIDE DEF g, G
    <3> QED BY <1>2, <1>5, <3>1, <3>2
  <2>2. g = [j \in 0..m |-> G(j)]
    OBVIOUS
  <2> HIDE DEF G
  <2>3. [j \in 0..m |-> G(j)] = step(g)
    BY <2>1
  <2> QED BY <2>2, <2>3
<1>7. data = step(data)
  BY <1>6
<1> HIDE DEF g, data
<1>8. data[0] = a /\ \A j \in 1..m : data[j] = StringNext(t, data[j - 1])
  BY <1>2, <1>7
<1>9. data[m] = g[m]
  <2>1. data[0] = g[0]
    BY <1>2, <1>8
  <2>2. \A j \in 1..m : data[j - 1] = g[j - 1] => data[j] = g[j]
    BY <1>5, <1>8
  <2>3. m \in Nat
    BY <1>2
  <2> QED BY <2>1, <2>2, <2>3, SameRounds
<1>10. StringEnd(t, a) = data[m]
  BY Zenon DEF StringEnd, data, m
<1> QED BY <1>2, <1>9, <1>10

\* unescape makes of an escaped text the text it was made from.
LEMMA UnescapeCorrect ==
  ASSUME NEW P, Lettered(P), NEW s \in Texts(P), Escape(s) \in Texts(P)
  PROVE  Unescape(Escape(s)) = s
<1>1. PICK r \in Rets(P, s) : TRUE
  BY EscapeRuns
<1> DEFINE t == Escape(s)
           n == Len(s)
           m == Len(t)
           State(j) == [head |-> Len(r[j]) + 1, tail |-> SubSeq(s, 1, j)]
           g == [j \in 0..m |-> State(IF j <= n THEN j ELSE n)]
           b == [head |-> 1, tail |-> <<>>]
           step(f) == [j \in 0..m |-> IF j = 0 THEN b ELSE UnescapeNext(t, f[j - 1])]
           walk == CHOOSE f : f = step(f)
<1>2. n \in Nat /\ m \in Nat /\ n <= m /\ Len(r[0]) = 0 /\ Len(r[n]) = m
  BY <1>1, PositionsCorrect DEF Texts
<1>3. State(0) = b
  <2>1. SubSeq(s, 1, 0) = <<>>
    BY SubSeqEmpty DEF Texts
  <2> QED BY <1>2, <2>1
<1>4. UnescapeNext(t, State(n)) = State(n)
  <2>1. State(n).head > Len(t)
    BY <1>2
  <2> HIDE DEF State, t
  <2> QED BY <2>1 DEF UnescapeNext
<1>5. ASSUME NEW j \in 1..n PROVE UnescapeNext(t, State(j - 1)) = State(j)
  <2> DEFINE e == EscapeOf(s[j])
             p == Len(r[j - 1])
  <2>1. /\ s[j] \in P /\ Len(r[j]) = p + Len(e) /\ Len(e) \in 1..6
        /\ Stands(t, p + 1, e)
    BY <1>1, ChunksStand
  <2>2. p \in Nat
    <3>1. j - 1 \in 0..n
      BY <1>2
    <3> QED BY <1>1, <3>1, PositionsCorrect
  <2>3. UnescapeNext(t, [head |-> p + 1, tail |-> SubSeq(s, 1, j - 1)]) =
          [head |-> (p + 1) + Len(e), tail |-> Append(SubSeq(s, 1, j - 1), s[j])]
    <3>1. p + 1 \in Nat \ {0}
      BY <2>2
    <3> HIDE DEF p
    <3> QED BY <2>1, <3>1, UnescapeNextCorrect
  <2>4. Append(SubSeq(s, 1, j - 1), s[j]) = SubSeq(s, 1, j)
    <3> DEFINE u == SubSeq(s, 1, j - 1)
               v == SubSeq(s, 1, j)
    <3>1. /\ u \in Seq(P) /\ Len(u) = j - 1 /\ (\A k \in 1..(j - 1) : u[k] = s[k])
          /\ v \in Seq(P) /\ Len(v) = j /\ (\A k \in 1..j : v[k] = s[k])
      BY <1>2 DEF Texts
    <3> HIDE DEF u, v
    <3>2. /\ Append(u, s[j]) \in Seq(P) /\ Len(Append(u, s[j])) = j
          /\ \A k \in 1..j : Append(u, s[j])[k] = v[k]
      BY <2>1, <3>1
    <3>3. Append(u, s[j]) = v
      BY <3>1, <3>2, SeqEqual
    <3> QED BY <3>3 DEF u, v
  <2>5. (p + 1) + Len(e) = Len(r[j]) + 1
    <3> HIDE DEF p, e
    <3> QED BY <2>1, <2>2
  <2> HIDE DEF e
  <2> QED BY <2>3, <2>4, <2>5
<1> HIDE DEF n, m, t, State, b
<1>6. /\ g[0] = b /\ g[m] = State(n)
      /\ \A j \in 1..m : g[j] = UnescapeNext(t, g[j - 1])
  <2>1. 0 \in 0..m /\ m \in 0..m /\ 0 <= n
    BY <1>2
  <2>2. m <= n => m = n
    BY <1>2
  <2>3. ASSUME NEW j \in 1..m PROVE g[j] = UnescapeNext(t, g[j - 1])
    <3>1. j \in 0..m /\ j - 1 \in 0..m
      BY <1>2
    <3>2. CASE j <= n
      <4>1. j \in 1..n /\ j - 1 <= n
        BY <1>2, <3>2
      <4>2. g[j] = State(j) /\ g[j - 1] = State(j - 1)
        BY <3>1, <3>2, <4>1
      <4> HIDE DEF g
      <4> QED BY <1>5, <4>1, <4>2
    <3>3. CASE ~(j <= n)
      <4>1. j - 1 = n \/ ~(j - 1 <= n)
        BY <1>2, <3>3
      <4>2. g[j] = State(n) /\ g[j - 1] = State(n)
        BY <3>1, <3>3, <4>1
      <4> HIDE DEF g
      <4> QED BY <1>4, <4>2
    <3> QED BY <3>2, <3>3
  <2> QED BY <1>3, <2>1, <2>2, <2>3
<1>7. g = step(g)
  <2> DEFINE G(j) == State(IF j <= n THEN j ELSE n)
  <2>1. ASSUME NEW j \in 0..m PROVE G(j) = IF j = 0 THEN b ELSE UnescapeNext(t, g[j - 1])
    <3>1. j # 0 => j \in 1..m
      BY <1>2
    <3>2. g[j] = G(j)
      OBVIOUS
    <3> HIDE DEF g, G
    <3> QED BY <1>6, <3>1, <3>2
  <2>2. g = [j \in 0..m |-> G(j)]
    OBVIOUS
  <2> HIDE DEF G
  <2>3. [j \in 0..m |-> G(j)] = step(g)
    BY <2>1
  <2> QED BY <2>2, <2>3
<1>8. walk = step(walk)
  BY <1>7
<1> HIDE DEF g, walk
<1>9. walk[0] = b /\ \A j \in 1..m : walk[j] = UnescapeNext(t, walk[j - 1])
  BY <1>2, <1>8
<1>10. walk[m] = g[m]
  BY <1>2, <1>6, <1>9, SameRounds
<1>11. Unescape(t) = walk[m].tail
  BY Zenon DEF Unescape, walk, m, b
<1>12. State(n).tail = s
  <2>1. SubSeq(s, 1, Len(s)) = s
    BY SubSeqFull DEF Texts
  <2> QED BY <2>1 DEF State, n
<1> QED BY <1>6, <1>10, <1>11, <1>12 DEF t

LEMMA Joined ==
  ASSUME NEW P, NEW u \in Texts(P), NEW v \in Texts(P)
  PROVE  /\ u \o v \in Texts(P) /\ Len(u \o v) = Len(u) + Len(v)
         /\ Stands(u \o v, 1, u) /\ Stands(u \o v, Len(u) + 1, v)
<1> DEFINE a == Len(u)
           b == Len(v)
           w == u \o v
<1>1. /\ w \in Seq(P) /\ Len(w) = a + b
      /\ \A j \in 1..(a + b) : w[j] = IF j <= a THEN u[j] ELSE v[j - a]
  BY ConcatProperties DEF Texts
<1>2. a \in Nat /\ b \in Nat
  BY DEF Texts
<1> HIDE DEF a, b, w
<1>3. ASSUME NEW j \in 1..a PROVE w[1 + j - 1] = u[j]
  <2>1. j \in 1..(a + b) /\ j <= a /\ 1 + j - 1 = j
    BY <1>2
  <2> QED BY <1>1, <2>1
<1>4. ASSUME NEW j \in 1..b PROVE w[(a + 1) + j - 1] = v[j]
  <2>1. a + j \in 1..(a + b) /\ ~(a + j <= a) /\ (a + j) - a = j /\ (a + 1) + j - 1 = a + j
    BY <1>2
  <2> QED BY <1>1, <2>1
<1>5. 1 + a - 1 <= Len(w) /\ (a + 1) + b - 1 <= Len(w)
  BY <1>1, <1>2
<1> QED BY <1>1, <1>3, <1>4, <1>5 DEF Stands, Texts, a, b, w

\* A text of one piece stands where that piece does.
LEMMA PieceStands ==
  ASSUME NEW P, NEW t \in Texts(P), NEW i \in Nat \ {0}, NEW c, Stands(t, i, <<c>>)
  PROVE  i <= Len(t) /\ At(t, i) = c
<1> DEFINE q == <<c>>
<1>1. Len(q) = 1 /\ q[1] = c
  OBVIOUS
<1> HIDE DEF q
<1>2. Stands(t, i, q)
  BY DEF q
<1>3. i + 1 - 1 <= Len(t) /\ t[i + 1 - 1] = c
  BY <1>1, <1>2 DEF Stands
<1>4. i + 1 - 1 = i /\ Len(t) \in Nat
  BY DEF Texts
<1>5. i <= Len(t) /\ t[i] = c
  BY <1>3, <1>4
<1> QED BY <1>4, <1>5 DEF At

\* In a text, e stands between two c, of which one is at i and one at end.
Framed(c, e, before, quoted, after, text, i, end) ==
  /\ quoted = <<c>> \o e \o <<c>> /\ text = before \o quoted \o after
  /\ i = Len(before) + 1 /\ end = i + 1 + Len(e)

LEMMA QuotedStands ==
  ASSUME NEW P, NEW c \in P, NEW e \in Texts(P),
         NEW before \in Texts(P), NEW after \in Texts(P),
         NEW quoted, NEW text, NEW i, NEW end,
         Framed(c, e, before, quoted, after, text, i, end)
  PROVE  /\ text \in Texts(P) /\ Len(quoted) = Len(e) + 2
         /\ At(text, i) = c /\ Stands(text, i + 1, e)
         /\ At(text, end) = c /\ end <= Len(text)
<1>0. /\ quoted = <<c>> \o e \o <<c>> /\ text = before \o quoted \o after
      /\ i = Len(before) + 1 /\ end = i + 1 + Len(e)
  BY DEF Framed
<1> USE <1>0
<1> DEFINE q == <<c>>
           x == q \o e
           y == x \o q
           z == before \o y
           k == Len(before)
           l == Len(e)
<1>1. q \in Texts(P) /\ Len(q) = 1
  BY OneCorrect DEF Texts
<1>2. k \in Nat /\ l \in Nat
  BY DEF Texts
<1> HIDE DEF q
<1>3. /\ x \in Texts(P) /\ Len(x) = Len(q) + Len(e)
      /\ Stands(x, 1, q) /\ Stands(x, Len(q) + 1, e)
  BY <1>1, Joined
<1> HIDE DEF x
<1>4. /\ y \in Texts(P) /\ Len(y) = Len(x) + Len(q)
      /\ Stands(y, 1, x) /\ Stands(y, Len(x) + 1, q)
  BY <1>1, <1>3, Joined
<1> HIDE DEF y
<1>5. z \in Texts(P) /\ Stands(z, Len(before) + 1, y)
  BY <1>4, Joined
<1> HIDE DEF z
<1> DEFINE close == l + 2
<1>6. text \in Texts(P) /\ Stands(text, 1, z)
  <2>1. z \o after \in Texts(P) /\ Stands(z \o after, 1, z)
    BY <1>5, Joined
  <2>2. text = z \o after
    BY DEF z, y, x, q
  <2> QED BY <2>1, <2>2
<1>7. i \in Nat \ {0} /\ end \in Nat \ {0} /\ i + 1 \in Nat \ {0} /\ close \in Nat \ {0}
  BY <1>2
<1>8. Stands(x, 2, e) /\ Len(x) = l + 1 /\ Stands(y, close, q) /\ Len(y) = l + 2
  <2>1. Len(q) + 1 = 2 /\ Len(x) = l + 1
    BY <1>1, <1>2, <1>3
  <2>2. Len(x) + 1 = close /\ Len(y) = l + 2
    BY <1>1, <1>2, <1>4, <2>1
  <2> HIDE DEF l, close
  <2> QED BY <1>3, <1>4, <2>1, <2>2
<1>9. Stands(z, i, y)
  BY <1>5
<1>10. Stands(text, i, y)
  <2>1. 1 + i - 1 = i /\ 1 \in Nat \ {0}
    BY <1>7
  <2>2. Stands(text, 1 + i - 1, y)
    BY <1>4, <1>5, <1>6, <1>7, <1>9, <2>1, StandsWithin
  <2> QED BY <2>1, <2>2
<1>11. Stands(text, i, x)
  <2>1. i + 1 - 1 = i /\ 1 \in Nat \ {0}
    BY <1>7
  <2>2. Stands(text, i + 1 - 1, x)
    BY <1>3, <1>4, <1>6, <1>7, <1>10, <2>1, StandsWithin
  <2> QED BY <2>1, <2>2
<1>12. Stands(text, i, q)
  <2>1. i + 1 - 1 = i /\ 1 \in Nat \ {0}
    BY <1>7
  <2>2. Stands(text, i + 1 - 1, q)
    BY <1>1, <1>3, <1>6, <1>7, <1>11, <2>1, StandsWithin
  <2> QED BY <2>1, <2>2
<1>13. Stands(text, i + 1, e)
  <2>1. i + 2 - 1 = i + 1 /\ 2 \in Nat \ {0}
    BY <1>7
  <2>2. Stands(text, i + 2 - 1, e)
    BY <1>3, <1>6, <1>7, <1>8, <1>11, <2>1, StandsWithin
  <2> QED BY <2>1, <2>2
<1>14. Stands(text, end, q)
  <2>1. i + close - 1 = end
    BY <1>2, <1>7
  <2> HIDE DEF close
  <2>2. Stands(text, i + close - 1, q)
    BY <1>1, <1>4, <1>6, <1>7, <1>8, <1>10, StandsWithin
  <2> QED BY <2>1, <2>2
<1>15. At(text, i) = c /\ At(text, end) = c /\ end <= Len(text)
  BY <1>6, <1>7, <1>12, <1>14, PieceStands DEF q
<1>16. Len(quoted) = Len(e) + 2
  <2>1. Len(y) = Len(e) + 2
    BY <1>8
  <2>2. quoted = y
    BY DEF y, x, q
  <2> QED BY <2>1, <2>2
<1> QED BY <1>6, <1>13, <1>15, <1>16

\* Whatever a string holds, which may come from a client (session_log), it does
\* not break the reply it is put in (json.h:45): wherever the string that escape
\* makes of it stands between its quotes, decode_string passes exactly that and
\* keeps it, whatever follows, and unescape makes of it what it was.
THEOREM QuotedReadsBack ==
  ASSUME NEW P, Lettered(P),
         NEW s \in Texts(P), NEW before \in Texts(P), NEW after \in Texts(P)
  PROVE  LET read == DecodeString(before \o Quoted(s) \o after, Len(before) + 1)
         IN  /\ read.pos = Len(before) + Len(Quoted(s)) + 1
             /\ read.v = Text(Escape(s)) /\ Unescape(read.v.text) = s
<1> DEFINE e == Escape(s)
           text == before \o Quoted(s) \o after
           i == Len(before) + 1
           end == i + 1 + Len(e)
           read == DecodeString(text, i)
<1>1. e \in Texts(P)
  <2>1. PICK r \in Rets(P, s) : TRUE
    BY EscapeRuns
  <2>2. r \in [0..Len(s) -> Texts(P)] /\ r[Len(s)] = e /\ Len(s) \in 0..Len(s)
    BY <2>1 DEF Rets, Texts
  <2> QED BY <2>2
<1>2. i \in Nat \ {0} /\ Len(e) \in Nat
  BY <1>1 DEF Texts
<1>3. /\ text \in Texts(P) /\ At(text, i) = "\""
      /\ Stands(text, i + 1, e) /\ Closed(text, end)
      /\ Len(Quoted(s)) = Len(e) + 2
  <2> DEFINE c == "\""
  <2>1. c \in P
    BY DEF Lettered, Letters
  <2>2. Quoted(s) = <<c>> \o e \o <<c>>
    BY DEF Quoted
  <2> HIDE DEF c, e
  <2>3. /\ text \in Texts(P) /\ Len(Quoted(s)) = Len(e) + 2
        /\ At(text, i) = c /\ Stands(text, i + 1, e)
        /\ At(text, end) = c /\ end <= Len(text)
    <3> DEFINE quoted == Quoted(s)
    <3>1. Framed(c, e, before, quoted, after, text, i, end)
      BY <2>2 DEF Framed
    <3> HIDE DEF text, i, end, quoted
    <3>2. /\ text \in Texts(P) /\ Len(quoted) = Len(e) + 2
          /\ At(text, i) = c /\ Stands(text, i + 1, e)
          /\ At(text, end) = c /\ end <= Len(text)
      BY <1>1, <2>1, <3>1, QuotedStands
    <3> QED BY <3>2 DEF quoted
  <2> QED BY <2>3, Zenon DEF Closed, c, e
<1> HIDE DEF e, i, text
<1>4. StringEnd(text, i + 1) = end
  <2>1. i + 1 \in Nat \ {0}
    BY <1>2
  <2>2. Escape(s) \in Texts(P) /\ Stands(text, i + 1, Escape(s))
        /\ end \in Nat \ {0} /\ end = (i + 1) + Len(Escape(s)) /\ Closed(text, end)
    <3>1. end \in Nat \ {0} /\ end = (i + 1) + Len(e)
      BY <1>2
    <3> HIDE DEF end
    <3>2. Closed(text, end) /\ e \in Texts(P) /\ Stands(text, i + 1, e)
      BY <1>1, <1>3, Zenon
    <3> QED BY <3>1, <3>2, Zenon DEF e
  <2> HIDE DEF end
  <2> QED BY <1>3, <2>1, <2>2, StringEndCorrect
<1>5. SubSeq(text, i + 1, end - 1) = e
  <2> DEFINE u == SubSeq(text, i + 1, end - 1)
             l == Len(e)
  <2>1. /\ text \in Seq(P) /\ Len(text) \in Nat /\ i + 1 \in 1..(Len(text) + 1)
        /\ end - 1 \in i..Len(text) /\ (end - 1) - (i + 1) + 1 = l /\ l \in Nat
    <3>1. text \in Seq(P) /\ Len(text) \in Nat
      <4>1. text \in Seq(P)
        BY <1>3, Zenon DEF Texts
      <4> QED BY <4>1, LenProperties
    <3>2. i + 1 + l <= Len(text)
      BY <1>3 DEF Closed
    <3>3. end = i + 1 + l
      OBVIOUS
    <3> HIDE DEF end, l
    <3>4. l \in Nat
      BY <1>2 DEF l
    <3> QED BY <1>2, <3>1, <3>2, <3>3, <3>4
  <2> HIDE DEF end
  <2>2. /\ u \in Seq(P) /\ Len(u) = l
        /\ \A j \in 1..l : u[j] = text[(i + 1) + j - 1]
    BY <1>2, <2>1, SubSeqProperties
  <2>3. \A j \in 1..l : u[j] = e[j]
    BY <1>3, <2>2 DEF Stands
  <2> HIDE DEF u, l
  <2>4. e \in Seq(P) /\ Len(e) = l
    BY <1>1 DEF Texts, l
  <2>5. u = e
    BY <2>2, <2>3, <2>4, SeqEqual
  <2> QED BY <2>5 DEF u
<1>6. end # 0
  BY <1>2
<1>7. read = [v |-> Text(e), pos |-> end + 1]
  <2> HIDE DEF end
  <2> QED BY <1>3, <1>4, <1>5, <1>6 DEF DecodeString
<1>8. Unescape(e) = s
  BY <1>1, UnescapeCorrect DEF e
<1>9. end + 1 = Len(before) + Len(Quoted(s)) + 1
  <2>1. Len(before) \in Nat /\ i = Len(before) + 1
    BY DEF Texts, i
  <2> DEFINE l == Len(e)
             k == Len(before)
             w == Len(Quoted(s))
  <2>2. l \in Nat /\ k \in Nat /\ i = k + 1 /\ w = l + 2 /\ end = i + 1 + l
    BY <1>2, <1>3, <2>1
  <2> HIDE DEF l, k, w, end
  <2>3. end + 1 = k + w + 1
    BY <2>2
  <2> QED BY <2>3 DEF k, w
<1>10. Text(e).text = e
  BY DEF Text
<1> HIDE DEF read
<1>11. read.v = Text(e) /\ read.pos = end + 1
  BY <1>7
<1> QED BY <1>8, <1>9, <1>10, <1>11 DEF e, read, text, i
=============================================================================
