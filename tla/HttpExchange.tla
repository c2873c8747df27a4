---------------------------- MODULE HttpExchange ----------------------------
(***************************************************************************)
(* One connection of the HTTP server, from the octets that arrive in the   *)
(* buffer to the answers: the parser raises events, the connection asks    *)
(* the router, a handler is given the request, and its answer is written.  *)
(* Router and handlers are left open; HttpRequests has those of the        *)
(* server.  HttpServer has the other half: many connections, their         *)
(* deadlines and threads.                                                  *)
(***************************************************************************)
EXTENDS HttpConnection, HttpParser

CONSTANTS
  RouteOf(_, _, _),     \* handle_initial: what the trees have for a method and a URL, a
                        \* record of a rule, 0 if there is none, and then a code
  Respond(_, _, _, _),  \* a handler: of the rules, the route, the body and what the
                        \* engine says it makes a code and a reply
  ServesFiles(_, _),    \* the route leads to the handler of the static files
  AlsoGiven(_, _, _),   \* what else a handler is given, by rules, URL and route
  Answers,              \* what the engine and the file system may answer
  SplitUrls             \* a read of the socket may end within a URL

ASSUME SplitAssumption == SplitUrls \in BOOLEAN

VARIABLES
  table,      \* the rules, in the order they were added
  tries,      \* the trees that were made of them
  input,      \* the pieces that the client sends
  at,         \* pieces that the parser has read
  parser,     \* HttpParser's record
  connection, \* HttpConnection's record
  route,      \* routing_handle_result_
  log         \* the requests that were answered, in order

exchange == <<table, tries, input, at, parser, connection, route, log>>
-----------------------------------------------------------------------------
(* The callbacks of the parser, on a record of p, k, route and log.        *)

\* A response: its status and the text of its body.
Answer(code, reply) == [code |-> code, reply |-> reply]

Value(headers, name) ==
  LET i == SelectInSeq(headers, LAMBDA f : f[1] = name) IN
  IF i = 0 THEN <<>> ELSE headers[i][2]
Is11(q) == q.version = "1.1"

\* HTTP/1.1 asks for the field, whose value may be empty.
HasHost(q) == Is11(q) => SelectInSeq(q.headers, LAMBDA f : f[1] = <<"host">>) # 0

\* A file is sent, not an error in its place.
SendsFile(found, answer) ==
  found.rule # 0 /\ ServesFiles(table, found) /\ answer.code = 200

\* What HttpConnection asks of a request.
AsRequest(q, found, answer) ==
  [found |-> found.rule # 0, code |-> answer.code,
   body |-> IF answer.reply = <<>> THEN 0 ELSE 1,
   file |-> SendsFile(found, answer),
   head |-> q.method = "HEAD",
   host |-> HasHost(q),
   upgrade |-> Is11(q) /\ q.upgrade
               /\ ~IsPrefix(<<"h", "2">>, Value(q.headers, <<"up", "grade">>)),
   expect |-> Is11(q) /\ Value(q.headers, <<"expect">>) = <<"100-continue">>,
   keep |-> KeepAlive(q), close |-> CloseConnection(q)]

Logged(q, found, answer) ==
  [method |-> q.method, target |-> q.url, fields |-> q.headers, body |-> q.body,
   given |-> AlsoGiven(table, q.url, found), found |-> found, host |-> HasHost(q),
   file |-> SendsFile(found, answer), code |-> answer.code, reply |-> answer.reply]

\* handle_url: parser_.done() leaves an error, and what is written clears the
\* parser.
Route(s, found) ==
  LET answer == Answer(found.code, <<>>)
      routed == [s EXCEPT !.route = found, !.k = HandleUrl(@, AsRequest(s.p, found, answer))]
  IN  IF found.rule # 0 THEN routed
      ELSE [routed EXCEPT !.p = Fail(Clear(@), "INVALID_EOF_STATE"),
                          !.log = Append(@, Logged(s.p, found, answer))]

OnUrl(s) == Route(s, RouteOf(tries, s.p.method, Url(s.p)))

OnHeaders(s) ==
  [s EXCEPT !.k = HandleHeader(@, AsRequest(s.p, s.route, Answer(0, <<>>)))]

\* handle; do_write_sync clears the parser.  After an upgrade the parser leaves
\* the rest of the fragment, which feed takes for an error.
HandleMessage(s, answer, handled, next) ==
  [s EXCEPT !.p = IF handled.stop = "upgrade" THEN @ ELSE Clear(@),
            !.k = IF handled.stop = "no" /\ s.p.upgrade /\ next # ""
                  THEN [handled EXCEPT !.stop = "error"] ELSE handled,
            !.log = Append(@, Logged(s.p, s.route,
                                     IF HasHost(s.p) THEN answer ELSE Answer(400, <<>>)))]

Answered(s, answer, next) ==
  HandleMessage(s, answer, Handle(s.k, AsRequest(s.p, s.route, answer), TRUE), next)

OnMessage(s, engine, next) ==
  Answered(s, Respond(table, s.route, s.p.body, engine), next)

\* In the order in which the parser calls them; no piece calls one twice.
Callbacks(s, engine, next) ==
  LET due(e) == e \in ToSet(s.p.events)
      quiet == [s EXCEPT !.p.events = <<>>]
      routed == IF due("url") THEN OnUrl(quiet) ELSE quiet
      headed == IF due("headers") THEN OnHeaders(routed) ELSE routed
  IN  IF due("message") THEN OnMessage(headed, engine, next) ELSE headed
-----------------------------------------------------------------------------
Connected ==
  /\ at = 0
  /\ parser = NewParser
  /\ connection = [NewConnection EXCEPT !.open = TRUE]
  /\ route = [rule |-> 0]
  /\ log = <<>>

\* The parser reads one more piece; `last` says that the fragment that a read
\* of the socket has brought ends with it.  Then, and after an error, the
\* completion handler of do_read reads on or lets the connection go.
Read(last, engine) ==
  /\ connection.open /\ at < Len(input)
  /\ at + 1 = Len(input) => last
  /\ LET next == IF last THEN "" ELSE input[at + 2] IN
     \E q \in {Execute(parser, input[at + 1], next)} :
       /\ last /\ at + 1 < Len(input) /\ ~SplitUrls => q.state \notin UrlStates
       /\ "message" \notin ToSet(q.events) => engine = CHOOSE e \in Answers : TRUE
       /\ \E s \in {Callbacks([p |-> q, k |-> connection, route |-> route, log |-> log],
                              engine, next)} :
            /\ parser' = s.p
            /\ connection' = [s.k EXCEPT !.open = /\ s.p.err = "OK" /\ s.k.stop = "no" /\ s.k.open
                                                  /\ last => ~s.k.close_connection]
            /\ route' = s.route
            /\ log' = s.log
  /\ at' = at + 1
  /\ UNCHANGED <<table, tries, input>>

Exchange == \E last \in BOOLEAN, engine \in Answers : Read(last, engine)

\* Any rules, any trees, any text.
Serving == input \in Seq(STRING) /\ Connected /\ [][Exchange]_exchange
-----------------------------------------------------------------------------
(* Properties *)

\* The parser's counters and marks are what its assertions say.
TypeOK ==
  /\ at \in 0..Len(input)
  /\ Counted(parser)
  /\ parser.index \in 0..2 /\ parser.building \in 0..1 /\ parser.events = <<>>

\* The status of an answer is a number, and not that of the interim answer.
StatusesFinal == \A i \in DOMAIN log : log[i].code \in Nat \ {100}

\* The answers, without the interim ones, and which of them answer i is.
Final(out) == {i \in DOMAIN out : out[i].code # 100}
Turn(out, i) == Cardinality({j \in Final(out) : j <= i})

\* HEAD without Host has left skip_body set, and no request since has had Host.
Skips(served, n) ==
  \E i \in 1..n : /\ served[i].method = "HEAD" /\ served[i].found.rule # 0
                  /\ \A j \in i..n : ~served[j].host

\* Answer a is what the client may take for the answer to request n.
Suits(served, n, a) ==
  /\ a.code = served[n].code
  /\ IF served[n].method = "HEAD" THEN a.body = 0 \/ a.code >= 400 \/ served[n].file
     ELSE a.body = a.length \/ Skips(served, n - 1)

\* Every request is answered once, in the order of the requests, with the
\* status of its handler; before that it may be told once to go on.  A client
\* can tell where each answer ends: it has the length it announces, but after
\* HEAD it has no body.  Crow misplaces a body in three cases: HEAD for a file,
\* which is sent, HEAD that ends in an error, whose text is sent, and what
\* comes after HEAD without Host.
InOrder(k, served) ==
  /\ Cardinality(Final(k.out)) = Len(served) - IF k.stop = "upgrade" THEN 1 ELSE 0
  /\ \A i \in Final(k.out) : Suits(served, Turn(k.out, i), k.out[i])
  /\ \A i \in DOMAIN k.out \ Final(k.out) : i = Len(k.out) \/ i + 1 \in Final(k.out)

AnswersInOrder == InOrder(connection, log)
=============================================================================
