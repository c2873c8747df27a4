----------------------------- MODULE HttpServer -----------------------------
(***************************************************************************)
(* crow::Server with its connections (src/include/crow/http_server.h,      *)
(* http_connection.h): one thread accepts, and each worker runs the        *)
(* handlers of its io_context one at a time, in the order they were posted:*)
(* the start of a connection, the completion of a read, the tick of the    *)
(* worker's timer.  A connection lives as long as a handler, a pending     *)
(* read or a deadline holds it; its socket closes with it.                 *)
(***************************************************************************)
EXTENDS HttpConnection, TaskTimer, SequencesExt

CONSTANTS
  Conns,      \* the connections that clients may make
  Concurrency,\* the threads: one that accepts, the others are workers
  Timeout,    \* the ticks of a deadline
  Units,      \* what clients send: "request", "part" of one or "bad" input
  MaxUnits,   \* how many of them the clients send
  Hangups,    \* how a client may end it: "closed" (FIN), "reset"
  MaxErrors   \* how many accepts fail

\* Crow::concurrency raises a smaller number to 2.
ASSUME ConcurrencyAssumption == Concurrency \in Nat /\ Concurrency >= 2
ASSUME TimeoutAssumption == Timeout \in Nat
ASSUME ClientsAssumption ==
  /\ IsFiniteSet(Conns)
  /\ Units \subseteq Requests
  /\ MaxUnits \in Nat /\ MaxErrors \in Nat

VARIABLES
  load,       \* task_queue_length_pool_
  pending,    \* the worker of the connection that async_accept waits with
  errors,     \* accepts that failed
  worker,     \* the worker of each connection, -1 before it is accepted
  queue,      \* handlers posted to each io_context
  timer,      \* the task_timer of each worker
  ticking,    \* a worker's timer_ is armed (its tick handler is not posted)
  conn,       \* HttpConnection's record of each connection
  task_id,    \* Connection::task_id_
  reading,    \* an async_read_some is pending
  inbox,      \* bytes the kernel holds for the socket
  sent,       \* units the clients have sent
  peer,       \* "up", "closed" (FIN) or "reset"
  shutting_down,
  done,       \* worker threads that have ended
  returned    \* Server::run has returned

vars == <<load, pending, errors, worker, queue, timer, ticking, conn, task_id,
          reading, inbox, sent, peer, shutting_down, done, returned>>
acceptor == <<load, pending, errors, worker>>
clients == <<sent, peer>>
lifetime == <<shutting_down, done, returned>>

Workers == 0..(Concurrency - 2)

Handlers == [kind : {"start"}, c : Conns]
            \cup [kind : {"read"}, c : Conns, ok : BOOLEAN, chunk : Seq(Units)]
            \cup {[kind |-> "tick"]}

\* pick_io_context_idx: the scan stops at a worker without any and otherwise
\* goes on to the first of those with the least.
Pick(l) == CHOOSE w \in Workers :
             /\ \A v \in Workers : l[w] <= l[v]
             /\ \A v \in Workers : l[v] = l[w] => w <= v

PostTo(w, h) == queue' = [queue EXCEPT ![w] = Append(@, h)]
-----------------------------------------------------------------------------
\* run(): the workers have armed their timers and do_accept was called once.
Init ==
  LET none == [w \in Workers |-> 0] IN
  /\ pending = Pick(none)
  /\ load = [none EXCEPT ![pending] = 1]
  /\ errors = 0
  /\ worker = [c \in Conns |-> -1]
  /\ queue = [w \in Workers |-> <<>>]
  /\ timer = [w \in Workers |-> NewTimer]
  /\ ticking = [w \in Workers |-> TRUE]
  /\ conn = [c \in Conns |-> NewConnection]
  /\ task_id = [c \in Conns |-> 0]
  /\ reading = [c \in Conns |-> FALSE]
  /\ inbox = [c \in Conns |-> <<>>]
  /\ sent = 0
  /\ peer = [c \in Conns |-> "up"]
  /\ shutting_down = FALSE
  /\ done = {}
  /\ returned = FALSE

\* do_accept, once more: a worker for the next connection.
DoAccept(l) ==
  /\ pending' = Pick(l)
  /\ load' = [l EXCEPT ![Pick(l)] = @ + 1]

\* The handler of async_accept, which runs on the thread of io_context_.
Accept(c) ==
  /\ ~shutting_down /\ worker[c] = -1
  /\ worker' = [worker EXCEPT ![c] = pending]
  /\ conn' = [conn EXCEPT ![c].open = TRUE]
  /\ PostTo(pending, [kind |-> "start", c |-> c])
  /\ DoAccept(load)
  /\ UNCHANGED <<errors, timer, ticking, task_id, reading, inbox, clients,
                 lifetime>>

AcceptFails ==
  /\ ~shutting_down /\ errors < MaxErrors
  /\ errors' = errors + 1
  /\ DoAccept([load EXCEPT ![pending] = @ - 1])
  /\ UNCHANGED <<worker, queue, timer, ticking, conn, task_id, reading, inbox,
                 clients, lifetime>>
-----------------------------------------------------------------------------
\* Environment: the client, the kernel and the clock.
Send(c, u) ==
  /\ worker[c] # -1 /\ peer[c] = "up" /\ conn[c].open /\ sent < MaxUnits
  /\ sent' = sent + 1
  /\ inbox' = [inbox EXCEPT ![c] = Append(@, u)]
  /\ UNCHANGED <<acceptor, queue, timer, ticking, conn, task_id, reading, peer,
                 lifetime>>

Hangup(c, how) ==
  /\ worker[c] # -1 /\ peer[c] = "up" /\ conn[c].open
  /\ peer' = [peer EXCEPT ![c] = how]
  /\ inbox' = [inbox EXCEPT ![c] = IF how = "reset" THEN <<>> ELSE @]
  /\ UNCHANGED <<acceptor, queue, timer, ticking, conn, task_id, reading, sent,
                 lifetime>>

\* A pending read completes: with what has arrived, or with an error when the
\* client has gone.
ReadCompletes(c) ==
  /\ reading[c] /\ conn[c].open
  /\ inbox[c] # <<>> \/ peer[c] # "up"
  /\ reading' = [reading EXCEPT ![c] = FALSE]
  /\ inbox' = [inbox EXCEPT ![c] = <<>>]
  /\ PostTo(worker[c], [kind |-> "read", c |-> c, ok |-> inbox[c] # <<>>,
                        chunk |-> inbox[c]])
  /\ UNCHANGED <<acceptor, timer, ticking, conn, task_id, clients, lifetime>>

\* One tick goes by; a timer_ that was armed posts its handler.  Nothing looks
\* at the clock once the workers stop.
Tick ==
  /\ ~shutting_down
  /\ timer' = [w \in Workers |-> Elapse(timer[w])]
  /\ ticking' = [w \in Workers |-> FALSE]
  /\ queue' = [w \in Workers |->
                 IF ticking[w] THEN Append(queue[w], [kind |-> "tick"]) ELSE queue[w]]
  /\ UNCHANGED <<acceptor, conn, task_id, reading, inbox, clients, lifetime>>
-----------------------------------------------------------------------------
\* A worker runs its next handler.
Runs(w, kind) ==
  /\ ~shutting_down /\ queue[w] # <<>> /\ Head(queue[w]).kind = kind

\* Faulty: without the cancel_deadline_timer of start_deadline.
StartAnother(w, c) ==
  LET t == Schedule(timer[w], c, Timeout) IN
  /\ timer' = [timer EXCEPT ![w] = t]
  /\ task_id' = [task_id EXCEPT ![c] = t.highest_id]
  /\ reading' = [reading EXCEPT ![c] = TRUE]

\* start_deadline, then do_read.
StartDeadline(w, c) ==
  LET t == Schedule(Cancel(timer[w], task_id[c]), c, Timeout) IN
  /\ timer' = [timer EXCEPT ![w] = t]
  /\ task_id' = [task_id EXCEPT ![c] = t.highest_id]
  /\ reading' = [reading EXCEPT ![c] = TRUE]

\* Faulty: it keeps it.
KeepDeadline(w, c) == UNCHANGED <<timer, task_id, reading>>

CancelDeadline(w, c) ==
  /\ timer' = [timer EXCEPT ![w] = Cancel(@, task_id[c])]
  /\ UNCHANGED <<task_id, reading>>

\* Faulty: it does not read when the deadline of the start is armed.
RunDeadStart(w) ==
  /\ Runs(w, "start")
  /\ LET t == Schedule(timer[w], Head(queue[w]).c, Timeout) IN
     /\ timer' = [timer EXCEPT ![w] = t]
     /\ task_id' = [task_id EXCEPT ![Head(queue[w]).c] = t.highest_id]
  /\ queue' = [queue EXCEPT ![w] = Tail(@)]
  /\ UNCHANGED <<acceptor, ticking, conn, reading, inbox, clients, lifetime>>

RunStart(w) ==
  /\ Runs(w, "start")
  /\ StartDeadline(w, Head(queue[w]).c)
  /\ queue' = [queue EXCEPT ![w] = Tail(@)]
  /\ UNCHANGED <<acceptor, ticking, conn, inbox, clients, lifetime>>

\* HTTPParser::feed, for whole requests, one after the other.
Parse(k, u, reachable) ==
  IF k.stop # "no" \/ u.what = "part" THEN k
  ELSE IF u.what = "bad" THEN [k EXCEPT !.stop = "error"]
  ELSE LET routed == HandleUrl(k, u) IN
       IF routed.stop # "no" THEN routed
       ELSE Handle(HandleHeader(routed, u), u, reachable)

Feed(k, chunk, reachable) ==
  LET fed[i \in 0..Len(chunk)] ==
        IF i = 0 THEN [k EXCEPT !.stop = "no"] ELSE Parse(fed[i - 1], chunk[i], reachable)
  IN  fed[Len(chunk)]

\* The completion handler of do_read.  Where it neither reads on nor keeps a
\* deadline, nothing holds the connection any more and its socket closes.
RunRead(w) ==
  /\ Runs(w, "read")
  /\ LET h == Head(queue[w])
         c == h.c
         fed == IF h.ok THEN Feed(conn[c], h.chunk, peer[c] # "reset")
                        ELSE [conn[c] EXCEPT !.stop = "error"]
         readsOn == fed.stop = "no" /\ fed.open /\ ~fed.close_connection
     IN  /\ conn' = [conn EXCEPT ![c] = [fed EXCEPT !.open = readsOn]]
         /\ inbox' = [inbox EXCEPT ![c] = IF readsOn THEN @ ELSE <<>>]
         /\ IF readsOn THEN StartDeadline(w, c) ELSE CancelDeadline(w, c)
  /\ queue' = [queue EXCEPT ![w] = Tail(@)]
  /\ UNCHANGED <<acceptor, ticking, clients, lifetime>>

\* tick_handler: the deadlines that are past close their sockets, which makes
\* a pending read complete with an error, and the timer is armed again.
RunTick(w) ==
  /\ Runs(w, "tick")
  /\ \E due \in SUBSET MayRun(timer[w]) :
       /\ MustRun(timer[w]) \subseteq due
       /\ LET closed == {c \in {timer[w].tasks[i].conn : i \in due} : conn[c].open}
              aborted == {c \in closed : reading[c]}
          IN  /\ conn' = [c \in Conns |->
                            [conn[c] EXCEPT !.open = @ /\ c \notin closed]]
              /\ inbox' = [c \in Conns |-> IF c \in closed THEN <<>> ELSE inbox[c]]
              /\ reading' = [c \in Conns |-> reading[c] /\ c \notin aborted]
              /\ \E order \in SetToSeqs(aborted) :
                   queue' = [queue EXCEPT ![w] =
                     Tail(@) \o [i \in DOMAIN order |->
                       [kind |-> "read", c |-> order[i], ok |-> FALSE, chunk |-> <<>>]]]
       /\ timer' = [timer EXCEPT ![w] = ProcessTasks(@, due)]
  /\ ticking' = [ticking EXCEPT ![w] = TRUE]
  /\ UNCHANGED <<acceptor, task_id, clients, lifetime>>
-----------------------------------------------------------------------------
\* stop(), on SIGINT or SIGTERM: no io_context starts another handler.
Stop ==
  /\ ~shutting_down
  /\ shutting_down' = TRUE
  /\ UNCHANGED <<acceptor, queue, timer, ticking, conn, task_id, reading, inbox,
                 clients, done, returned>>

\* io_context::run returns 0 and the thread, and the task_timer on its stack,
\* end, if the handler that it was in does: one whose asio::write waits for a
\* client that does not read what it is sent (http_connection.h:441, :549) has
\* no time-out, and no worker is assumed to end.
WorkerEnds(w) ==
  /\ shutting_down /\ w \notin done
  /\ done' = done \cup {w}
  /\ timer' = [timer EXCEPT ![w] = NewTimer]
  /\ UNCHANGED <<acceptor, queue, ticking, conn, task_id, reading, inbox, clients,
                 shutting_down, returned>>

\* run() returns when its futures have: the server and what is left of its
\* handlers and connections is destroyed.
RunReturns ==
  /\ done = Workers /\ ~returned
  /\ returned' = TRUE
  /\ conn' = [c \in Conns |-> [conn[c] EXCEPT !.open = FALSE]]
  /\ reading' = [c \in Conns |-> FALSE]
  /\ inbox' = [c \in Conns |-> <<>>]
  /\ queue' = [w \in Workers |-> <<>>]
  /\ UNCHANGED <<acceptor, timer, ticking, task_id, clients, shutting_down, done>>

RunHandler(w) == RunStart(w) \/ RunRead(w) \/ RunTick(w)

Next ==
  \/ \E c \in Conns : \/ Accept(c)
                      \/ \E u \in Units : Send(c, u)
                      \/ \E how \in Hangups : Hangup(c, how)
                      \/ ReadCompletes(c)
  \/ AcceptFails
  \/ Tick
  \/ \E w \in Workers : RunHandler(w) \/ WorkerEnds(w)
  \/ Stop
  \/ RunReturns

Safety == Init /\ [][Next]_vars
-----------------------------------------------------------------------------
(* Properties *)

\* Every variable has its type; whole requests only in the chunks.
TypeOK ==
  /\ load \in [Workers -> Nat] /\ pending \in Workers /\ errors \in 0..MaxErrors
  /\ worker \in [Conns -> Workers \cup {-1}]
  /\ queue \in [Workers -> Seq(Handlers)]
  /\ \A w \in Workers :
       /\ timer[w].highest_id \in Nat
       /\ \A i \in DOMAIN timer[w].tasks :
            timer[w].tasks[i] \in [conn : Conns, left : -1..Timeout]
  /\ ticking \in [Workers -> BOOLEAN]
  /\ conn \in [Conns -> Connections]
  /\ task_id \in [Conns -> Nat]
  /\ reading \in [Conns -> BOOLEAN]
  /\ inbox \in [Conns -> Seq(Units)]
  /\ sent \in 0..MaxUnits /\ peer \in [Conns -> {"up"} \cup Hangups]
  /\ shutting_down \in BOOLEAN /\ done \subseteq Workers /\ returned \in BOOLEAN

\* A deadline that is armed is the latest one of its connection, on the timer
\* of its worker: a connection is never closed by a deadline that it has
\* replaced, and the identifiers that process_tasks reuses never make
\* schedule meet an entry that is still there.
OneDeadline ==
  \A w \in Workers : \A i \in DOMAIN timer[w].tasks :
    LET c == timer[w].tasks[i].conn IN
    /\ i \in 1..timer[w].highest_id
    /\ worker[c] = w
    /\ task_id[c] = i

\* A connection whose handlers have all run and that waits for its client has
\* answered every request it was sent in full.
NoRequestUnanswered == \A c \in Conns : reading[c] => AllAnswered(conn[c])

Queued(c) ==
  \E w \in Workers : \E i \in DOMAIN queue[w] :
    queue[w][i].kind # "tick" /\ queue[w][i].c = c

\* The shared pointers of a connection form no cycle, and none is left behind:
\* once its socket is closed and its last handler has run, neither a read nor
\* a deadline of a timer that lives on holds it.
ClosedIsFreed ==
  \A c \in Conns :
    worker[c] # -1 /\ ~conn[c].open /\ ~Queued(c) =>
      /\ ~reading[c]
      /\ \A w \in Workers : \A i \in DOMAIN timer[w].tasks : timer[w].tasks[i].conn # c

\* No connection lies open with nobody to look after it: a read is pending or
\* a handler is about to start one, whatever its client, the deadlines and the
\* answers did.
SomeoneReads ==
  \A c \in Conns :
    worker[c] # -1 /\ conn[c].open /\ ~shutting_down => reading[c] \/ Queued(c)

\* c waits for its client, and a deadline that is armed would close it.
Waiting(c) == reading[c] /\ conn[c].open /\ ~shutting_down
Timed(c) == \E i \in DOMAIN timer[worker[c]].tasks : timer[worker[c]].tasks[i].conn = c

\* A client that says nothing is given up after the time-out
\* (http_connection.h:506, :575; app.h:325 says what the time-out is).  The code
\* does not keep it: process_tasks starts the identifiers again at 1 when a
\* deadline that closed its connection was the last, and the read that it
\* aborted then cancels, by the identifier of that deadline, another's.
WaitingHasDeadline == \A c \in Conns : Waiting(c) => Timed(c)

\* What it does keep: nothing but the end of another connection of its worker
\* takes a connection's deadline away; schedule, cancel and process_tasks mix
\* nothing up among those that stay open.
DeadlineKept ==
  \A c \in Conns :
    Waiting(c) /\ ~Timed(c) =>
      \E d \in Conns \ {c} : worker[d] = worker[c] /\ ~conn[d].open
=============================================================================
