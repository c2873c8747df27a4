---------------------------- MODULE MCHttpServer ----------------------------
(* Small instances of HttpServer. *)
EXTENDS HttpServer

Served200 == [what |-> "request", found |-> TRUE, code |-> 200, body |-> 1, file |-> FALSE,
              head |-> FALSE, host |-> TRUE, upgrade |-> FALSE, expect |-> FALSE, keep |-> TRUE, close |-> FALSE]

\* A request that is served, one that asks for another protocol, part of one, and
\* what is none.
MCUnits == {Served200,
            [Served200 EXCEPT !.what = "part"], [Served200 EXCEPT !.what = "bad"],
            [Served200 EXCEPT !.upgrade = TRUE]}
=============================================================================
