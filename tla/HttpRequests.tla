---------------------------- MODULE HttpRequests ----------------------------
(***************************************************************************)
(* HttpExchange with the router and the handlers of the server: a handler  *)
(* of src/src/crow_router.cpp reads its JSON, calls the engine and writes  *)
(* JSON.  The client sends the requests of a script, and the network may   *)
(* cut them anywhere; what the server makes of them is compared with the   *)
(* script.                                                                 *)
(***************************************************************************)
EXTENDS HttpExchange, Router, Json, QueryString, FileName

CONSTANT
  Cases       \* the rules of the server with what a client sends: records of
              \* a table, a sequence of [method, pattern, handler], and a script

VARIABLE script     \* the requests

vars == <<exchange, script>>
-----------------------------------------------------------------------------
(* The client: the text of a request.  A request has a method, a url, a    *)
(* query of names with values, a version, fields (pairs of a name and a    *)
(* value, which may go on in another line), a body, and a framing that     *)
(* says how the end of the body is announced.                              *)

Digits(n) == LET Of(d) == CHOOSE c \in Numerals : Digit[c] = d IN
             IF n < 10 THEN <<Of(n)>> ELSE <<Of(n \div 10), Of(n % 10)>>

ContentLength(n) == <<<<"con", "tent-length">>, Digits(n)>>
TransferEncoding(value) == <<<<"transfer", "-encoding">>, value>>

FramingFields(r) ==
  LET chunked == TransferEncoding(<<"chun", "ked">>) IN
  CASE r.framing = "none"    -> <<>>
    [] r.framing = "length"  -> <<ContentLength(Len(r.body))>>
    [] r.framing \in {"chunked", "trailed"} -> <<chunked>>
    [] r.framing = "coded"   -> <<TransferEncoding(<<"gzip", ",", " ", "chun", "ked">>)>>
    [] r.framing = "both"    -> <<ContentLength(Len(r.body)), chunked>>
    [] r.framing = "twice"   -> <<ContentLength(Len(r.body)), ContentLength(0)>>
    [] r.framing = "open"    -> <<TransferEncoding(<<"chun", "ked", ",", " ", "gzip">>)>>
    [] r.framing = "huge"    -> <<ContentLength(MaxLength)>>
    [] r.framing = "over"    -> <<ContentLength(MaxLength + 20)>>

\* The octets in `coded` are written as codes, a space as "+".
Percented(octets, coded) ==
  LET code(c) == CHOOSE d \in DOMAIN Percent : Percent[d] = c IN
  FlattenSeq([i \in DOMAIN octets |->
                IF octets[i] = " " THEN <<"+">>
                ELSE IF octets[i] \in coded THEN <<"%">> \o code(octets[i]) ELSE <<octets[i]>>])

NameText(name) == Percented(name, {"#", "%", "&", "+", "="})
ParameterText(q) ==
  NameText(q.name) \o IF q.value = <<>> THEN <<>>
                      ELSE <<"=">> \o Percented(q.value, {Percent[d] : d \in DOMAIN Percent})

Target(r) ==
  r.url \o IF r.query = <<>> THEN <<>>
           ELSE <<"?">> \o Join([i \in DOMAIN r.query |-> ParameterText(r.query[i])], "&")
Fields(r) == r.fields \o FramingFields(r)

\* Chunks of at most three pieces.
RECURSIVE Chunks(_)
Chunks(body) ==
  IF body = <<>> THEN <<"0", "CR", "LF">>
  ELSE LET n == IF Len(body) < 3 THEN Len(body) ELSE 3 IN
       Digits(n) \o <<"CR", "LF">> \o SubSeq(body, 1, n) \o <<"CR", "LF">>
       \o Chunks(SubSeq(body, n + 1, Len(body)))

HeaderText(r) ==
  Spelling[r.method] \o <<" ">> \o Target(r)
  \o (IF r.version = "0.9" THEN <<>> ELSE <<" ", "HTTP/", r.version>>) \o <<"CR", "LF">>
  \o FlattenSeq([i \in DOMAIN Fields(r) |->
                   Fields(r)[i][1] \o <<":", " ">> \o Fields(r)[i][2] \o <<"CR", "LF">>])
  \o <<"CR", "LF">>

\* What follows the last chunk, which may have a trailer.
Ending(r) ==
  CASE r.framing \in {"chunked", "coded"} -> <<"CR", "LF">>
    [] r.framing = "trailed" -> <<"x", ":", "y", "CR", "LF", "CR", "LF">>
    [] OTHER -> <<>>

Encode(r) ==
  HeaderText(r)
  \o (IF r.framing \in {"chunked", "coded", "trailed"} THEN Chunks(r.body) ELSE r.body)
  \o Ending(r)
-----------------------------------------------------------------------------
(* The handlers of setup_routes, and that of the files below /static.      *)

Said == <<"text">>
Uncaught == Answer(500, <<>>)   \* default_exception_handler

\* What "create_session" asks of its body; anything else throws.
IsClientRequest(v) ==
  /\ \A key \in {"client_id", "symbol", "exchange", "mode"} : Member(v, <<key>>).t = "String"
  /\ \A key \in {"max_amount", "target_profit"} : Member(v, <<key>>).t = "Number"
  /\ \A key \in {"take_profit_ratio", "stop_loss_ratio"} :
       Has(v, <<key>>) => Member(v, <<key>>).t = "Number"

Member1(key, v) == Put(Nothing, <<key>>, v)
Strings(texts) == ListOf([i \in DOMAIN texts |-> Text(texts[i])])

CreateSession(v, engine) ==
  CASE v.t = "error" -> Answer(400, Said)
    [] v.t # "error" /\ ~IsClientRequest(v) -> Uncaught
    [] OTHER -> IF engine.ok
                THEN Answer(200, Dump(Member1("session_id", Text(engine.texts[1]))))
                ELSE Answer(500, Said)

StartOrStop(engine) == Answer(IF engine.ok THEN 200 ELSE 500, Said)
ListSessions(engine) == Answer(200, Dump(Member1("sessions", Strings(engine.texts))))
SessionLog(engine) ==
  IF engine.ok THEN Answer(200, Dump(Member1("log", Strings(engine.texts))))
               ELSE Answer(404, Said)
StaticFile(engine) == IF engine.ok THEN Answer(200, Said) ELSE Answer(404, <<>>)

\* Router::handle; what a handler throws becomes a 500.
RuleOf(rules, found) ==
  IF found.rule = Redirect THEN [handler |-> "redirect"]
  ELSE RulesOf(rules, found.method)[found.rule - 1]

Reply(rules, found, body, engine) ==
  LET handler == RuleOf(rules, found).handler IN
  CASE handler = "redirect"       -> Answer(301, <<>>)
    [] handler = "create_session" -> CreateSession(Load(body), engine)
    [] handler \in {"start_session", "stop_session"} -> StartOrStop(engine)
    [] handler = "sessions"       -> ListSessions(engine)
    [] handler = "session_log"    -> SessionLog(engine)
    [] handler = "static"         -> StaticFile(engine)
    [] OTHER                      -> Answer(200, Said)
-----------------------------------------------------------------------------
IsStatic(rules, found) == RuleOf(rules, found).handler = "static"

\* With the URL, on_url has read its parameters, and the handler of the files
\* makes a path of what follows /static/.
Beside(rules, url, found) ==
  [parameters |-> Query(url),
   path |-> IF found.rule # 0 /\ IsStatic(rules, found)
            THEN Sanitize(found.params[1]) ELSE <<>>]
-----------------------------------------------------------------------------
Init ==
  /\ \E case \in Cases :
       /\ table = case.table
       /\ script = case.script
  /\ tries = Tries(table)
  /\ Valid(tries)
  /\ input = FlattenSeq([i \in DOMAIN script |-> Encode(script[i])])
  /\ Connected

Next == Exchange /\ UNCHANGED script

Spec == Init /\ [][Next]_vars
-----------------------------------------------------------------------------
(* Properties *)

\* What the server must not take for a request: a body whose end is announced
\* twice, or not at all, or out of range, too long a header, or bad syntax.
Rejected(r) ==
  \/ r.framing \in {"both", "twice", "open", "huge", "over"}
  \/ Len(HeaderText(r)) > MaxHeader
  \/ r.version \notin {"0.9", "1.0", "1.1", "2.0"} \/ (r.version = "0.9" /\ r.method # "GET")
  \/ "#" \in ToSet(r.url) \/ \E f \in ToSet(r.fields) : " " \in ToSet(f[1])

Unfolded(fields) ==
  [i \in DOMAIN fields |->
     <<fields[i][1], SelectSeq(fields[i][2], LAMBDA c : c \notin {"CR", "LF"})>>]

EndOf(i) == Len(FlattenSeq([j \in 1..i |-> Encode(script[j])]))

\* The server and its client agree on where each request ends and on what it
\* holds, however the network cuts the text: as long as the connection is open
\* the requests answered are those whose last octet was read, with their
\* method, URL, fields and body; one whose end is in doubt is never answered.
Framing ==
  /\ connection.open => Len(log) = Cardinality({i \in DOMAIN script : EndOf(i) <= at})
  /\ \A i \in DOMAIN log :
       LET r == script[i] IN
       /\ log[i].method = r.method /\ log[i].target = Target(r)
       /\ log[i].found.rule # 0 =>
            ~Rejected(r) /\ log[i].fields = Unfolded(Fields(r)) /\ log[i].body = r.body

Closes(r) == <<<<"con", "nection">>, <<"clo", "se">>>> \in ToSet(r.fields)
KeepsAlive(r) == <<<<"con", "nection">>, <<"keep", "-alive">>>> \in ToSet(r.fields)
Upgrades(r) == \E i \in DOMAIN r.fields : r.fields[i][1] = <<"up", "grade">>

\* The limit is meant for one header (http_parser_merged.h:43, :281).  But the
\* end of a chunked message (:1586) does not set nread back, as that of every
\* other does: what follows its last chunk counts with the next header.
Overfull(i) ==
  i > 1 /\ Len(Ending(script[i - 1])) + Len(HeaderText(script[i])) > MaxHeader

\* The connection is closed for a reason only: a request is rejected or has no
\* route, it asks for another protocol or for the end, or its header does not
\* fit, with that ending before it.  Nothing else of an earlier request, its
\* header, its body, its chunks or their sizes, counts against a later one,
\* however many reads they came in.
KeptOpen ==
  ~connection.open =>
    \E i \in 1..(Len(log) + 1) :
      /\ i <= Len(script)
      /\ \/ Rejected(script[i]) \/ Upgrades(script[i]) \/ Overfull(i)
         \/ i <= Len(log) /\ log[i].found.rule = 0
         \/ script[i].version = "1.1" /\ Closes(script[i])
         \/ script[i].version = "1.0" /\ ~KeepsAlive(script[i])

\* A request is given the first rule that was added for its method and that
\* its URL matches, with parameters that make up the URL, whatever the trees
\* look like; without one it is told whether another method has one.
Routed ==
  \A i \in DOMAIN log :
    LET r == script[i]
        found == log[i].found
        own == Declared(table, r.method, r.url)
        byGet == Declared(table, "GET", r.url)
        others == UNION {Declared(table, m, r.url) : m \in Methods}
        least(rules) == CHOOSE x \in rules : \A y \in rules : x <= y
    IN  IF r.method = "OPTIONS"
        THEN found.code = (IF r.url = <<"/", "*">> \/ others # {} THEN 204 ELSE 404)
        ELSE /\ found.rule = (IF own # {} THEN least(own)
                              ELSE IF r.method = "HEAD" /\ byGet # {} THEN least(byGet) ELSE 0)
             /\ found.rule > Redirect =>
                  found.params \in Bindings(RuleOf(table, found).pattern, r.url)
             /\ found.rule = 0 =>
                  found.code = (IF r.method # "HEAD" /\ others # {} THEN 405 ELSE 404)

\* What the parameters of a query mean to a handler that asks for one name n:
\* the first value of n, the values of n[], the values of n[key] by their keys
\* unless other names begin with n too, and the parameters that are left once
\* it has taken them, as far as they have a value.
Means(query, items, n) ==
  LET named(m) == SelectSeq(query, LAMBDA q : q.name = m)
      values(qs) == [j \in DOMAIN qs |-> qs[j].value]
      inDict(q) == IsPrefix(n \o <<"[">>, q.name)
      dict == SelectSeq(query, inDict)
      without(Drop(_)) == LET left == SelectSeq(query, LAMBDA q : ~Drop(q)) IN
                          [j \in DOMAIN left |-> NameText(left[j].name)]
      first == SelectInSeq(query, LAMBDA q : q.name = n)
  IN  /\ GetValue(items, n) = SubSeq(values(named(n)), 1, IF first = 0 THEN 0 ELSE 1)
      /\ GetList(items, n) = values(named(n \o Brackets))
      /\ (\A j \in DOMAIN query : IsPrefix(n, query[j].name) => inDict(query[j])) =>
           GetDict(items, n) =
             [j \in DOMAIN dict |->
                <<SubSeq(dict[j].name, Len(n) + 2, Len(dict[j].name) - 1), dict[j].value>>]
      /\ (\A j \in DOMAIN query : query[j].value # <<>>) =>
           /\ first # 0 => Keys(Pop(items, n)) = Keys(RemoveAt(items, first))
           /\ Keys(PopList(items, n)) = without(LAMBDA q : q.name = n \o Brackets)
           /\ dict # <<>> => Keys(PopDict(items, n)) = without(inDict)

\* Handlers get what the client meant: the parameters of the query (the first
\* MaxPairs), whatever octets are in them and however they are coded; and the
\* path of a file, which is the one that was asked for, as far as it fits,
\* unless it holds something special, and in which nothing special is left.
GivenAsSent ==
  \A i \in DOMAIN log :
    LET query == SubSeq(script[i].query, 1, Least(Len(script[i].query), MaxPairs))
        root(name) == SubSeq(name, 1, FirstOf(name, {"["}) - 1)
        asked == {n \in {root(query[j].name) : j \in DOMAIN query} : NameText(n) = n}
        path == log[i].given.path
        wanted == SubSeq(script[i].url, 5, Len(script[i].url))
        goesUp == \E j \in 2..Len(wanted) : /\ wanted[j - 1] = "." /\ wanted[j] = "."
                                            /\ j = 2 \/ wanted[j - 2] \in Separators
    IN  /\ Keys(log[i].given.parameters) = [j \in DOMAIN query |-> NameText(query[j].name)]
        /\ \A n \in asked : Means(query, log[i].given.parameters, n)
        /\ path # <<>> =>
             /\ NothingSpecial(path)
             /\ \/ ToSet(wanted) \cap (Unsafe \cup Devices \cup NumberedDevices) # {}
                \/ wanted[1] \in Separators \/ goesUp
                \/ path = SubSeq(wanted, 1, Least(Len(wanted), MaxName))

\* "create_session" refuses its body as JSON if and only if it is none, and the
\* replies of the engine's routes are JSON from which a client reads what the
\* engine said, whatever is in the strings.  No handler answers 100.
JsonBothWays ==
  StatusesFinal /\ \A i \in DOMAIN log :
    log[i].found.rule > Redirect =>
      LET handler == RuleOf(table, log[i].found).handler
          isJson == IsJson(log[i].body)
          read == Written(Load(log[i].reply))
          lists(key) == {Member1(key, Strings(a.texts)) : a \in Answers}
      IN  /\ handler = "create_session" /\ log[i].code # 200 /\ ~isJson => log[i].code = 400
          /\ handler = "create_session" /\ isJson =>
               log[i].code # 400 \/ ~log[i].host
          /\ log[i].code = 200 =>
               CASE handler = "create_session" ->
                      isJson /\ read \in {Member1("session_id", Text(a.texts[1])) :
                                           a \in {b \in Answers : b.ok}}
                 [] handler = "sessions" -> read \in lists("sessions")
                 [] handler = "session_log" -> read \in lists("log")
                 [] OTHER -> TRUE
=============================================================================
