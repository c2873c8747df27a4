--------------------------- MODULE TradingEngine ---------------------------
(***************************************************************************)
(* TradingEngineManager (src/trading_engine_manager.cpp) as engine_server  *)
(* runs it: the worker threads of the HTTP server call create, start and   *)
(* stop (crow_router.cpp, engine_api.cpp) while the trading loop executes, *)
(* stops and removes sessions; the owner is main(), which starts the       *)
(* engine and, when the server has returned, destroys it.                  *)
(*                                                                         *)
(* The manager has no lock.  A step here is one access to shared state: a  *)
(* lookup with the test that follows it, a status written, the map changed.*)
(* What the threads do to the map itself is taken to be atomic, and a      *)
(* status written through a reference to an erased session has no effect:  *)
(* the outcomes of those races in which the process lives on.  stats_ is   *)
(* left out: the class writes it and nothing reads it.                     *)
(***************************************************************************)
EXTENDS Integers, FiniteSets

CONSTANTS
  Sessions,    \* the identifiers generate_session_id may return
  Workers,     \* the threads of the HTTP server
  Loop, Owner, \* the engine thread and the thread of main()
  NoSession,   \* no session at hand
  Requests,    \* the requests clients make: the strategies of the mode, and
               \* max_amount * take_profit_ratio, max_amount * stop_loss_ratio
  Gains,       \* what one profitable arbitrage run may earn
  MaxSessions, \* max_sessions_
  MaxProfit,   \* bound: the largest profit of a session considered
  MaxStarts,   \* bound: how often a session is set to RUNNING
  MaxHours     \* bound: hours of inactivity counted

Threads == Workers \cup {Loop, Owner}

ASSUME EngineAssumption ==
  /\ Loop \notin Workers /\ Owner \notin Workers /\ Loop # Owner
  /\ NoSession \notin Sessions
  /\ Requests \subseteq [mode : SUBSET {"arbitrage", "market_making"}, tp : Int, sl : Int]
  /\ Gains \subseteq Nat \ {0}
  /\ MaxSessions \in Nat \ {0} /\ MaxProfit \in Nat
  /\ MaxStarts \in Nat /\ MaxHours \in Nat
  /\ IsFiniteSet(Sessions) /\ IsFiniteSet(Workers)

VARIABLES
  engineStatus, \* engine_status_
  shouldRun,    \* should_run_
  redisUp,      \* redis_client_->is_connected(): never restored
  status,       \* status[s]: NONE before it is created, REMOVED once erased
  request,      \* request[s]
  profit,       \* total_profit of s
  hours,        \* whole hours since last_update of s
  pc,           \* where each thread is
  cur,          \* the session it is working on
  todo,         \* the sessions its loop over trading_sessions_ still visits
  doomed,       \* sessions_to_remove
  (* history *)
  launched,     \* launched[s]: how often s was set to RUNNING
  over          \* over[s]: how often s was executed when already past take-profit,
                \* counted until it exceeds launched[s]

session == <<status, request, profit, hours>>
history == <<launched, over>>
vars == <<engineStatus, shouldRun, redisUp, session, pc, cur, todo, doomed, history>>

Statuses == {"NONE", "STOPPED", "STARTING", "RUNNING", "STOPPING", "ERROR", "REMOVED"}
EngineStatuses == {"STOPPED", "RUNNING", "STOPPING", "ERROR"}
StopPlaces == {"stopCheck", "stopMark", "stopDone"}
WorkerPlaces == {"idle", "insert", "mark", "health"} \cup StopPlaces
VisitPlaces == {"arbitrage", "market_making", "judge"}
LoopPlaces == {"none", "top", "each", "sweep", "remove", "erase", "exited"}
                \cup VisitPlaces \cup StopPlaces
OwnerPlaces == {"init", "ready", "failed", "serve", "join", "syncStop", "stopAll", "done"}
                 \cup StopPlaces

\* What is in trading_sessions_.
Live == {s \in Sessions : status[s] \notin {"NONE", "REMOVED"}}
Past(s) == profit[s] >= request[s].tp
Inserting == {w \in Workers : pc[w] = "insert"}

Goto(t, place, s) == /\ pc' = [pc EXCEPT ![t] = place]
                     /\ cur' = [cur EXCEPT ![t] = s]

SetStatus(s, v) ==
  status' = [status EXCEPT ![s] = IF @ = "REMOVED" THEN @ ELSE v]

Init ==
  /\ engineStatus = "STOPPED" /\ shouldRun = FALSE
  /\ redisUp \in BOOLEAN
  /\ status = [s \in Sessions |-> "NONE"]
  /\ request \in [Sessions -> Requests]
  /\ profit = [s \in Sessions |-> 0]
  /\ hours = [s \in Sessions |-> 0]
  /\ pc = [t \in Threads |-> IF t = Loop THEN "none"
                             ELSE IF t = Owner THEN "init" ELSE "idle"]
  /\ cur = [t \in Threads |-> NoSession]
  /\ todo = {} /\ doomed = {}
  /\ launched = [s \in Sessions |-> 0]
  /\ over = [s \in Sessions |-> 0]

-----------------------------------------------------------------------------
(* stop_trading_session: called by workers, by the loop for a session past *)
(* a limit and before a removal, and by the owner.                         *)

Return(t) ==
  IF t = Loop /\ cur[t] \in doomed THEN Goto(t, "erase", cur[t])
  ELSE Goto(t, IF t = Loop THEN "each" ELSE IF t = Owner THEN "stopAll" ELSE "idle",
            NoSession)

StopCheck(t) ==
  /\ pc[t] = "stopCheck"
  /\ IF status[cur[t]] = "RUNNING" THEN Goto(t, "stopMark", cur[t]) ELSE Return(t)
  /\ UNCHANGED <<engineStatus, shouldRun, redisUp, session, todo, doomed, history>>

StopMark(t) ==
  /\ pc[t] = "stopMark"
  /\ SetStatus(cur[t], "STOPPING")
  /\ Goto(t, "stopDone", cur[t])
  /\ UNCHANGED <<engineStatus, shouldRun, redisUp, request, profit, hours, todo,
                 doomed, history>>

StopDone(t) ==
  /\ pc[t] = "stopDone"
  /\ SetStatus(cur[t], "STOPPED")
  /\ hours' = [hours EXCEPT ![cur[t]] = 0]
  /\ Return(t)
  /\ UNCHANGED <<engineStatus, shouldRun, redisUp, request, profit, todo, doomed,
                 history>>

StopStep(t) == StopCheck(t) \/ StopMark(t) \/ StopDone(t)

-----------------------------------------------------------------------------
(* The HTTP workers.  A request that is refused changes nothing.           *)

Idle(w) == pc[Owner] = "serve" /\ pc[w] = "idle"

\* Faulty: off by one.
BelowLimit_OffByOne == Cardinality(Live) <= MaxSessions

BelowLimit == Cardinality(Live) < MaxSessions

\* validate_client_request: the size is read here, the session stored later.
\* A fresh identifier is left for every thread that is between the two.
Validate(w) ==
  /\ Idle(w)
  /\ BelowLimit
  /\ Cardinality({s \in Sessions : status[s] = "NONE"}) > Cardinality(Inserting)
  /\ Goto(w, "insert", NoSession)
  /\ UNCHANGED <<engineStatus, shouldRun, redisUp, session, todo, doomed, history>>

\* A session stored while the loop iterates may come before or after the
\* place the iteration has reached.
Insert(w, s) ==
  /\ pc[w] = "insert"
  /\ status[s] = "NONE"
  /\ status' = [status EXCEPT ![s] = "STOPPED"]
  /\ todo' \in {todo, IF todo = {} THEN todo ELSE todo \cup {s}}
  /\ Goto(w, "idle", NoSession)
  /\ UNCHANGED <<engineStatus, shouldRun, redisUp, request, profit, hours, doomed,
                 history>>

Starters(s) == {w \in Workers : cur[w] = s /\ pc[w] \in {"mark", "health"}}

StartCheck(w, s) ==
  /\ Idle(w)
  /\ s \in Live
  /\ status[s] # "RUNNING"
  /\ launched[s] + Cardinality(Starters(s)) < MaxStarts
  /\ Goto(w, "mark", s)
  /\ UNCHANGED <<engineStatus, shouldRun, redisUp, session, todo, doomed, history>>

StartMark(w) ==
  /\ pc[w] = "mark"
  /\ SetStatus(cur[w], "STARTING")
  /\ Goto(w, "health", cur[w])
  /\ UNCHANGED <<engineStatus, shouldRun, redisUp, request, profit, hours, todo,
                 doomed, history>>

\* A session always has a strategy, and both ask the same connection.
Launch(w) ==
  /\ pc[w] = "health"
  /\ redisUp
  /\ SetStatus(cur[w], "RUNNING")
  /\ hours' = [hours EXCEPT ![cur[w]] = 0]
  /\ launched' = [launched EXCEPT ![cur[w]] = @ + 1]
  /\ Goto(w, "idle", NoSession)
  /\ UNCHANGED <<engineStatus, shouldRun, redisUp, request, profit, todo, doomed, over>>

\* The health check failed.
GiveUp(w) ==
  /\ pc[w] = "health"
  /\ ~redisUp
  /\ Goto(w, "idle", NoSession)
  /\ UNCHANGED <<engineStatus, shouldRun, redisUp, request, profit, hours, todo,
                 doomed, history>>

\* Faulty: the early return leaves the status as it is.
StartHealth_NoError(w) == Launch(w) \/ (GiveUp(w) /\ UNCHANGED status)

StartHealth(w) == Launch(w) \/ (GiveUp(w) /\ SetStatus(cur[w], "ERROR"))

StopCall(w, s) ==
  /\ Idle(w)
  /\ s \in Live
  /\ Goto(w, "stopCheck", s)
  /\ UNCHANGED <<engineStatus, shouldRun, redisUp, session, todo, doomed, history>>

WorkerFinish(w) ==
  \/ StartMark(w) \/ StartHealth(w) \/ StopStep(w)
  \/ \E s \in Sessions : Insert(w, s)

-----------------------------------------------------------------------------
(* trading_loop.                                                           *)

LoopTop ==
  /\ pc[Loop] = "top"
  /\ IF shouldRun THEN Goto(Loop, "each", NoSession) /\ todo' = Live
                  ELSE Goto(Loop, "exited", NoSession) /\ UNCHANGED todo
  /\ UNCHANGED <<engineStatus, shouldRun, redisUp, session, doomed, history>>

LoopSkip(s) ==
  /\ pc[Loop] = "each"
  /\ s \in todo
  /\ status[s] # "RUNNING"
  /\ todo' = todo \ {s}
  /\ UNCHANGED <<engineStatus, shouldRun, redisUp, session, pc, cur, doomed, history>>

LoopVisit(s) ==
  /\ pc[Loop] = "each"
  /\ s \in todo
  /\ status[s] = "RUNNING"
  /\ todo' = todo \ {s}
  /\ Goto(Loop, IF "arbitrage" \in request[s].mode THEN "arbitrage" ELSE "market_making", s)
  /\ over' = IF Past(s) /\ over[s] <= launched[s] THEN [over EXCEPT ![s] = @ + 1] ELSE over
  /\ UNCHANGED <<engineStatus, shouldRun, redisUp, session, doomed, launched>>

AfterArbitrage(s) ==
  Goto(Loop, IF "market_making" \in request[s].mode THEN "market_making" ELSE "judge", s)

\* No price in Redis, no opportunity, or the connection breaks over the read.
LoopArbitrageNothing ==
  /\ pc[Loop] = "arbitrage"
  /\ redisUp' \in {redisUp, FALSE}
  /\ AfterArbitrage(cur[Loop])
  /\ UNCHANGED <<engineStatus, shouldRun, session, todo, doomed, history>>

EarnInArbitrage(g) ==
  /\ pc[Loop] = "arbitrage"
  /\ redisUp
  /\ profit[cur[Loop]] + g <= MaxProfit
  /\ profit' = [profit EXCEPT ![cur[Loop]] = @ + g]
  /\ AfterArbitrage(cur[Loop])
  /\ UNCHANGED <<engineStatus, shouldRun, redisUp, status, request, hours, todo, doomed,
                 history>>

\* Faulty: bought where the price is high, sold where it is low.
LoopArbitrageGain_Swapped(g) == EarnInArbitrage(-g)

\* run_once reports only profit above a threshold that is positive.
LoopArbitrageGain(g) == EarnInArbitrage(g)

\* The record read from Redis does not parse; market making is skipped.
LoopArbitrageThrows ==
  /\ pc[Loop] = "arbitrage"
  /\ redisUp
  /\ SetStatus(cur[Loop], "ERROR")
  /\ Goto(Loop, "judge", cur[Loop])
  /\ UNCHANGED <<engineStatus, shouldRun, redisUp, request, profit, hours, todo, doomed,
                 history>>

\* Quotes are only logged: no profit, and get_market_data catches.
LoopMarketMaking ==
  /\ pc[Loop] = "market_making"
  /\ redisUp' \in {redisUp, FALSE}
  /\ Goto(Loop, "judge", cur[Loop])
  /\ UNCHANGED <<engineStatus, shouldRun, session, todo, doomed, history>>

\* Faulty: an amount reached exactly does not count; only a loss does.
LimitReached_Strict(s) == profit[s] > request[s].tp \/ profit[s] <= -request[s].sl
LimitReached_LossOnly(s) == profit[s] <= -request[s].sl

LimitReached(s) == Past(s) \/ profit[s] <= -request[s].sl

LoopJudge ==
  /\ pc[Loop] = "judge"
  /\ LET s == cur[Loop] IN
       /\ hours' = [hours EXCEPT ![s] = 0]
       /\ IF LimitReached(s) THEN Goto(Loop, "stopCheck", s)
                             ELSE Goto(Loop, "each", NoSession)
  /\ UNCHANGED <<engineStatus, shouldRun, redisUp, status, request, profit, todo, doomed,
                 history>>

\* cleanup_expired_sessions: another loop over the map, then the removals.
LoopToSweep ==
  /\ pc[Loop] = "each"
  /\ todo = {}
  /\ todo' = Live
  /\ Goto(Loop, "sweep", NoSession)
  /\ UNCHANGED <<engineStatus, shouldRun, redisUp, session, doomed, history>>

\* Faulty: sessions in error are left alone.
Expired_NotErrors(s) == hours[s] > 1 /\ status[s] = "STOPPED"

Expired(s) == \/ hours[s] > 1 /\ status[s] = "STOPPED"
              \/ status[s] = "ERROR"

LoopSweep(s) ==
  /\ pc[Loop] = "sweep"
  /\ s \in todo
  /\ todo' = todo \ {s}
  /\ doomed' = IF Expired(s) THEN doomed \cup {s} ELSE doomed
  /\ UNCHANGED <<engineStatus, shouldRun, redisUp, session, pc, cur, history>>

LoopToRemove ==
  /\ pc[Loop] = "sweep"
  /\ todo = {}
  /\ Goto(Loop, "remove", NoSession)
  /\ UNCHANGED <<engineStatus, shouldRun, redisUp, session, todo, doomed, history>>

\* remove_trading_session.
LoopRemove(s) ==
  /\ pc[Loop] = "remove"
  /\ s \in doomed
  /\ Goto(Loop, IF status[s] = "RUNNING" THEN "stopCheck" ELSE "erase", s)
  /\ UNCHANGED <<engineStatus, shouldRun, redisUp, session, todo, doomed, history>>

LoopErase ==
  /\ pc[Loop] = "erase"
  /\ status' = [status EXCEPT ![cur[Loop]] = "REMOVED"]
  /\ doomed' = doomed \ {cur[Loop]}
  /\ Goto(Loop, "remove", NoSession)
  /\ UNCHANGED <<engineStatus, shouldRun, redisUp, request, profit, hours, todo, history>>

\* The round is over; the sleep between rounds is not a state of its own.
LoopToTop ==
  /\ pc[Loop] = "remove"
  /\ doomed = {}
  /\ Goto(Loop, "top", NoSession)
  /\ UNCHANGED <<engineStatus, shouldRun, redisUp, session, todo, doomed, history>>

LoopStep ==
  \/ LoopTop \/ LoopArbitrageNothing \/ LoopArbitrageThrows \/ LoopMarketMaking
  \/ LoopJudge \/ LoopToSweep \/ LoopToRemove \/ LoopErase \/ LoopToTop \/ StopStep(Loop)
  \/ \E g \in Gains : LoopArbitrageGain(g)
  \/ \E s \in Sessions : LoopSkip(s) \/ LoopVisit(s) \/ LoopSweep(s) \/ LoopRemove(s)

-----------------------------------------------------------------------------
(* main(): initialize, start_engine, the server, the destructor.           *)

\* initialize(), with the data synchronisation healthy or not.
OwnerInitialize(syncUp) ==
  /\ pc[Owner] = "init"
  /\ engineStatus' = IF redisUp /\ syncUp THEN "STOPPED" ELSE "ERROR"
  /\ Goto(Owner, IF redisUp /\ syncUp THEN "ready" ELSE "failed", NoSession)
  /\ UNCHANGED <<shouldRun, redisUp, session, todo, doomed, history>>

\* start_engine(): nobody else runs yet, so its steps are not told apart.
OwnerStartEngine ==
  /\ pc[Owner] = "ready"
  /\ engineStatus # "RUNNING"
  /\ engineStatus' = "RUNNING"
  /\ shouldRun' = TRUE
  /\ pc' = [pc EXCEPT ![Owner] = "serve", ![Loop] = "top"]
  /\ UNCHANGED <<redisUp, session, cur, todo, doomed, history>>

BeginStop ==
  /\ pc[Owner] \in {"serve", "failed"}
  /\ \A w \in Workers : pc[w] = "idle"
  /\ engineStatus # "STOPPED"
  /\ engineStatus' = "STOPPING"
  /\ Goto(Owner, "join", NoSession)
  /\ UNCHANGED <<redisUp, session, todo, doomed, history>>

\* Faulty: the loop is not told.
OwnerStopEngine_FlagKept == BeginStop /\ UNCHANGED shouldRun

\* The server has returned, its threads are joined, and ~TradingEngineManager
\* calls shutdown; or initialize failed and main() returns.
OwnerStopEngine == BeginStop /\ shouldRun' = FALSE

OwnerGoesOn(place) ==
  /\ Goto(Owner, place, NoSession)
  /\ UNCHANGED <<engineStatus, shouldRun, redisUp, session, todo, doomed, history>>

\* Faulty: the loop is still running when the sessions are taken away.
OwnerJoin_NoWait == pc[Owner] = "join" /\ OwnerGoesOn("syncStop")

\* The join of the loop.
OwnerJoin ==
  /\ pc[Owner] = "join"
  /\ pc[Loop] \in {"none", "exited"}
  /\ OwnerGoesOn("syncStop")

\* stop_scheduler(), whose own join may never return (StopReturns of module
\* Scheduler): no fairness takes this step for granted.
OwnerStopScheduler == pc[Owner] = "syncStop" /\ OwnerGoesOn("stopAll")

\* A scheduler that was never started is not joined.
OwnerSkipsScheduler == pc[Loop] = "none" /\ OwnerStopScheduler

OwnerStopSession(s) ==
  /\ pc[Owner] = "stopAll"
  /\ status[s] = "RUNNING"
  /\ Goto(Owner, "stopCheck", s)
  /\ UNCHANGED <<engineStatus, shouldRun, redisUp, session, todo, doomed, history>>

\* The rest of shutdown(): the map is cleared.
OwnerClear ==
  /\ pc[Owner] = "stopAll"
  /\ \A s \in Sessions : status[s] # "RUNNING"
  /\ status' = [s \in Sessions |-> IF s \in Live THEN "REMOVED" ELSE status[s]]
  /\ engineStatus' = "STOPPED"
  /\ Goto(Owner, "done", NoSession)
  /\ UNCHANGED <<shouldRun, redisUp, request, profit, hours, todo, doomed, history>>

OwnerProceeds ==
  \/ OwnerStartEngine \/ OwnerJoin \/ OwnerSkipsScheduler \/ OwnerClear \/ StopStep(Owner)
  \/ \E up \in BOOLEAN : OwnerInitialize(up)
  \/ \E s \in Sessions : OwnerStopSession(s)

-----------------------------------------------------------------------------
\* An hour passes; on this scale a request takes no time.
Hour ==
  /\ pc[Owner] = "serve"
  /\ \A w \in Workers : pc[w] = "idle"
  /\ \E s \in Live : hours[s] < MaxHours
  /\ hours' = [s \in Sessions |-> IF s \in Live /\ hours[s] < MaxHours
                                  THEN hours[s] + 1 ELSE hours[s]]
  /\ UNCHANGED <<engineStatus, shouldRun, redisUp, status, request, profit, pc, cur, todo,
                 doomed, history>>

Terminated == pc[Owner] = "done" /\ UNCHANGED vars

Next ==
  \/ \E w \in Workers :
       \/ Validate(w) \/ WorkerFinish(w)
       \/ \E s \in Sessions : StartCheck(w, s) \/ StopCall(w, s)
  \/ LoopStep
  \/ OwnerProceeds \/ OwnerStopEngine \/ OwnerStopScheduler
  \/ Hour \/ Terminated

Safety == Init /\ [][Next]_vars

\* Threads that can go on do: the loop, a handler that has begun, and main()
\* where it does not wait for requests, for a signal or for the scheduler.
Spec ==
  /\ Safety
  /\ WF_vars(LoopStep) /\ WF_vars(OwnerProceeds)
  /\ \A w \in Workers : WF_vars(WorkerFinish(w))

-----------------------------------------------------------------------------
TypeOK ==
  /\ engineStatus \in EngineStatuses
  /\ shouldRun \in BOOLEAN /\ redisUp \in BOOLEAN
  /\ status \in [Sessions -> Statuses]
  /\ request \in [Sessions -> Requests]
  /\ profit \in [Sessions -> Nat]
  /\ hours \in [Sessions -> Nat]
  /\ pc \in [Threads -> WorkerPlaces \cup LoopPlaces \cup OwnerPlaces]
  /\ cur \in [Threads -> Sessions \cup {NoSession}]
  /\ todo \subseteq Sessions /\ doomed \subseteq Sessions
  /\ launched \in [Sessions -> Nat] /\ over \in [Sessions -> Nat]

\* Sessions never outnumber max_sessions_ by more than the workers that can
\* be between the test of the size (:113) and the insertion (:190), less one.
SessionLimit ==
  Cardinality(Live) + Cardinality(Inserting) <= MaxSessions + Cardinality(Workers) - 1

\* The loop never reaches for a session that is gone: nobody but the loop
\* erases one while it runs, it does so only between its iterations over the
\* map (:539, :557), and shutdown clears the map after the join (:67, :393).
LoopNeverDangles ==
  todo \cup doomed \cup ({cur[Loop]} \ {NoSession}) \subseteq Live

\* stop_scheduler() (:398) comes back.  The code does not see to it, so this is
\* no property but the premise of those that follow.
SchedulerStops == (pc[Owner] = "syncStop") ~> (pc[Owner] # "syncStop")

\* A session in error is restarted by a client or goes (:551), if not in
\* a round of the loop then with shutdown (:67).
ErrorIsCleared ==
  SchedulerStops => \A s \in Sessions : (status[s] = "ERROR") ~> (status[s] # "ERROR")

\* A running session past its take-profit amount does not stay running (:429),
\* also when it was started after the last round of the loop (:402).
TakeProfitStops ==
  SchedulerStops =>
    \A s \in Sessions : (status[s] = "RUNNING" /\ Past(s)) ~> (status[s] # "RUNNING")

\* No session is left half-way through a start or a stop.
NoLimbo ==
  \A s \in Sessions : status[s] \in {"STARTING", "STOPPING"}
                        ~> status[s] \notin {"STARTING", "STOPPING"}

\* Once main() has begun to stop the engine the loop leaves, wherever it is,
\* and is joined (:393); and where stop_scheduler() returns, so does shutdown.
ShutdownCompletes ==
  /\ (pc[Owner] = "join") ~> (pc[Owner] = "syncStop")
  /\ SchedulerStops => ((pc[Owner] = "join") ~> (pc[Owner] = "done"))

-----------------------------------------------------------------------------
(* The engine as a client sees it. *)

\* Being started or stopped is to be there and not to run.
PhaseOf(v) == CASE v = "NONE"    -> "none"
                [] v = "REMOVED" -> "gone"
                [] v = "RUNNING" -> "running"
                [] OTHER         -> "idle"
EngineOf(place) == CASE place \in {"init", "ready", "failed"} -> "off"
                     [] place = "serve" -> "serving"
                     [] place = "done"  -> "over"
                     [] OTHER           -> "ending"

Stage == EngineOf(pc[Owner])
Phase == [s \in Sessions |-> PhaseOf(status[s])]
Target == [s \in Sessions |-> request[s].tp]
Asked == [w \in Workers |-> IF pc[w] \in {"mark", "health"} THEN cur[w] ELSE NoSession]
Trading == IF pc[Loop] = "arbitrage" THEN cur[Loop] ELSE NoSession

Lifecycle == INSTANCE SessionLifecycle WITH
  Clients <- Workers, Limit <- MaxSessions + Cardinality(Workers) - 1,
  engine <- Stage, phase <- Phase, target <- Target, waiting <- Asked,
  starts <- launched, extra <- over, trading <- Trading, earned <- profit

\* Every session lives the life that SessionLifecycle promises, although no
\* lock keeps the handlers, the loop and main() apart.  In particular, whatever
\* workers stop and start around a session that has reached its take-profit
\* amount, the check at the end of a visit (:429) catches it: it is executed
\* no more often than it was started.
ImplementsLifecycle == Lifecycle!Safety

-----------------------------------------------------------------------------
(* What a comment of the code says, and the code does not do.              *)

\* trading_engine_manager.cpp:312, "make sure the session has stopped".
RemovedIsStopped ==
  [][\A s \in Sessions : status[s] = "RUNNING" => status'[s] # "REMOVED"]_vars
=============================================================================
