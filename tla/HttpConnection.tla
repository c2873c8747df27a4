-------------------------- MODULE HttpConnection --------------------------
(***************************************************************************)
(* crow::Connection and crow::response (src/include/crow/http_connection.h *)
(* and http_response.h) as operators on the record of one connection: what *)
(* the callbacks of the parser do with a request and what is written.      *)
(*                                                                         *)
(* Of a request, found says that handle_initial knows its route, and code  *)
(* and body are what its handler, or the error of handle_initial, answers. *)
(* A body is empty (0), shorter than the stream threshold (1) or streamed  *)
(* (2); file says that it is a file below /static.                         *)
(***************************************************************************)
EXTENDS Integers, Sequences, FiniteSets

Bodies == 0..2
StreamThreshold == 2

\* No handler answers 100 itself.
Requests ==
  [what : {"request", "part", "bad"}, found : BOOLEAN, code : Nat \ {100}, body : Bodies,
   file : BOOLEAN, head : BOOLEAN, host : BOOLEAN, upgrade : BOOLEAN, expect : BOOLEAN,
   keep : BOOLEAN, close : BOOLEAN]

Responses == [code : Nat, head : BOOLEAN, body : Bodies, length : Bodies, keep : BOOLEAN]

Connections ==
  [open : BOOLEAN, close_connection : BOOLEAN, add_keep_alive : BOOLEAN,
   skip_body : BOOLEAN, stop : {"no", "error", "upgrade", "crash"}, asked : Nat,
   out : Seq(Responses)]

NewConnection ==
  [open |-> FALSE,             \* the socket of adaptor_
   close_connection |-> FALSE,
   add_keep_alive |-> FALSE,
   skip_body |-> FALSE,        \* res.skip_body
   stop |-> "no",              \* why the parser reads no more of this buffer
   asked |-> 0,                \* requests that were complete
   out |-> <<>>]               \* what the client was sent

\* prepare_buffers, for a response for which a Content-Length was set
\* beforehand (`given`, -1 if none was): the text of an error status replaces
\* an empty body.
PrepareBuffers(k, r, body, given) ==
  LET sent == IF r.code >= 400 /\ body = 0 THEN 1 ELSE body IN
  [code |-> r.code, head |-> r.head, body |-> sent,
   length |-> IF given = -1 THEN sent ELSE given, keep |-> k.add_keep_alive]

\* do_write_sync: what is written to a closed socket is lost.
Write(k, answer) == [k EXCEPT !.out = IF k.open THEN Append(@, answer) ELSE @]

\* do_write_static and the streaming half of do_write_general close the socket
\* themselves.
WriteAndClose(k, answer) == [Write(k, answer) EXCEPT !.open = @ /\ ~k.close_connection]

WriteGeneral(k, answer) ==
  IF answer.body < StreamThreshold THEN Write(k, answer) ELSE WriteAndClose(k, answer)

CompleteRequest(k, r, body, given) ==
  LET answer == PrepareBuffers(k, r, body, given) IN
  IF r.file THEN WriteAndClose(k, answer) ELSE WriteGeneral(k, answer)

\* Faulty: it leaves skip_body to the next response.
EndSkipping(k, r, handlerSet) ==
  IF k.skip_body THEN CompleteRequest(k, r, 0, r.body) ELSE CompleteRequest(k, r, r.body, -1)

\* response::end: after HEAD only the length of the body is sent; but that of a
\* file is no part of the body yet, and do_write_static sends it all the same.
\* complete_request_handler_ is set while a handler runs; only then is
\* skip_body reset.
End(k, r, handlerSet) ==
  LET done == CASE ~k.skip_body -> CompleteRequest(k, r, r.body, -1)
                [] k.skip_body /\ ~r.file -> CompleteRequest(k, r, 0, r.body)
                [] k.skip_body /\ r.file -> CompleteRequest(k, r, r.body, 0)
  IN  IF handlerSet THEN [done EXCEPT !.skip_body = FALSE] ELSE done

\* handle_url: without a route the answer is written at once and the parser is
\* told that the input has ended, which it takes for an error.
HandleUrl(k, r) ==
  IF r.found
  THEN [k EXCEPT !.skip_body = @ \/ r.head]
  ELSE [End(k, r, FALSE) EXCEPT !.stop = "error"]

\* handle_header: the interim answer to Expect: 100-continue.
HandleHeader(k, r) ==
  IF r.expect
  THEN Write(k, [code |-> 100, head |-> r.head, body |-> 0, length |-> 0, keep |-> FALSE])
  ELSE k

\* Router::handle_upgrade, for a rule that is no websocket's or none: they end
\* a response that no handler completes, nothing is sent, and the parser
\* leaves the rest of the buffer alone.
HandleUpgrade(k) == [k EXCEPT !.close_connection = TRUE, !.stop = "upgrade"]

\* Faulty: it reads on after a request for another protocol.
HandleStaying(k, r, reachable) ==
  LET asked == [k EXCEPT !.asked = @ + 1, !.add_keep_alive = r.keep,
                         !.close_connection = r.close] IN
  IF ~(reachable /\ k.open) THEN [k EXCEPT !.stop = "crash"]
  ELSE IF ~r.host THEN CompleteRequest(asked, [r EXCEPT !.code = 400, !.file = FALSE], 0, -1)
  ELSE IF r.upgrade THEN asked ELSE End(asked, r, TRUE)

\* handle: `reachable` is false when remote_endpoint() throws, because the
\* peer reset the connection or the socket is closed; the exception leaves
\* the read handler.
Handle(k, r, reachable) ==
  LET asked == [k EXCEPT !.asked = @ + 1, !.add_keep_alive = r.keep,
                         !.close_connection = r.close] IN
  IF ~(reachable /\ k.open)
  THEN [k EXCEPT !.stop = "crash"]
  ELSE IF ~r.host
  THEN CompleteRequest(asked, [r EXCEPT !.code = 400, !.file = FALSE], 0, -1)
  ELSE IF r.upgrade
  THEN HandleUpgrade(asked)
  ELSE End(asked, r, TRUE)

\* As many answers as complete requests; 100 is none.
AllAnswered(k) == Cardinality({i \in DOMAIN k.out : k.out[i].code # 100}) = k.asked
=============================================================================
