------------------------ MODULE TradingEngineProofs ------------------------
(***************************************************************************)
(* Theorems of TradingEngine for any number of workers, any sessions and   *)
(* any requests.  MaxProfit, MaxStarts and MaxHours only disable steps; no *)
(* proof relies on them.                                                   *)
(***************************************************************************)
EXTENDS TradingEngine, FiniteSetTheorems, TLAPS

\* The threads' variables, and everything else.
LEMMA GotoType ==
  ASSUME NEW t, NEW place, NEW s \in Sessions \cup {NoSession},
         place \in WorkerPlaces \cup LoopPlaces \cup OwnerPlaces,
         TypeOK, Goto(t, place, s)
  PROVE  /\ pc' \in [Threads -> WorkerPlaces \cup LoopPlaces \cup OwnerPlaces]
         /\ cur' \in [Threads -> Sessions \cup {NoSession}]
  BY DEF TypeOK, Goto

LEMMA ReturnType ==
  ASSUME NEW t \in Threads, TypeOK, Return(t)
  PROVE  /\ pc' \in [Threads -> WorkerPlaces \cup LoopPlaces \cup OwnerPlaces]
         /\ cur' \in [Threads -> Sessions \cup {NoSession}]
  BY DEF TypeOK, Return, Goto, WorkerPlaces, LoopPlaces, OwnerPlaces

LEMMA SetStatusType ==
  ASSUME NEW s, NEW v \in Statuses, TypeOK, SetStatus(s, v)
  PROVE  status' \in [Sessions -> Statuses]
  BY DEF TypeOK, SetStatus, Statuses

LEMMA ExceptNat ==
  ASSUME NEW f \in [Sessions -> Nat], NEW s, NEW e, s \in Sessions => e \in Nat
  PROVE  [f EXCEPT ![s] = e] \in [Sessions -> Nat]
  OBVIOUS

-----------------------------------------------------------------------------
\* Every variable of the manager and of its threads keeps its type.
THEOREM TypeCorrect == Safety => []TypeOK
<1> USE EngineAssumption DEF EngineAssumption
<1>1. Init => TypeOK
  <2> SUFFICES ASSUME Init PROVE TypeOK
    OBVIOUS
  <2>1. status \in [Sessions -> Statuses]
    BY DEF Init, Statuses
  <2>2. /\ profit \in [Sessions -> Nat] /\ hours \in [Sessions -> Nat]
        /\ launched \in [Sessions -> Nat] /\ over \in [Sessions -> Nat]
    BY DEF Init
  <2>3. pc \in [Threads -> WorkerPlaces \cup LoopPlaces \cup OwnerPlaces]
    BY DEF Init, WorkerPlaces, LoopPlaces, OwnerPlaces
  <2>4. cur \in [Threads -> Sessions \cup {NoSession}]
    BY DEF Init
  <2>5. QED
    BY <2>1, <2>2, <2>3, <2>4 DEF Init, TypeOK, EngineStatuses
<1>2. TypeOK /\ [Next]_vars => TypeOK'
  <2> SUFFICES ASSUME TypeOK, [Next]_vars PROVE TypeOK'
    OBVIOUS
  <2> USE DEF session, history
  <2> DEFINE Places == WorkerPlaces \cup LoopPlaces \cup OwnerPlaces
  <2>1. ASSUME NEW t \in Threads, StopStep(t) PROVE TypeOK'
    <3>1. cur[t] \in Sessions \cup {NoSession}
      BY DEF TypeOK
    <3>2. CASE StopCheck(t)
      <4>1. /\ pc' \in [Threads -> Places] /\ cur' \in [Threads -> Sessions \cup {NoSession}]
        BY <3>1, <3>2, GotoType, ReturnType DEF StopCheck, WorkerPlaces, StopPlaces
      <4>2. QED
        BY <3>2, <4>1 DEF StopCheck, TypeOK
    <3>3. CASE StopMark(t)
      <4>1. /\ pc' \in [Threads -> Places] /\ cur' \in [Threads -> Sessions \cup {NoSession}]
        BY <3>1, <3>3, GotoType DEF StopMark, WorkerPlaces, StopPlaces
      <4>2. status' \in [Sessions -> Statuses]
        BY <3>3, SetStatusType DEF StopMark, Statuses
      <4>3. QED
        BY <3>3, <4>1, <4>2 DEF StopMark, TypeOK
    <3>4. CASE StopDone(t)
      <4>1. /\ pc' \in [Threads -> Places] /\ cur' \in [Threads -> Sessions \cup {NoSession}]
        BY <3>4, ReturnType DEF StopDone
      <4>2. status' \in [Sessions -> Statuses]
        BY <3>4, SetStatusType DEF StopDone, Statuses
      <4>3. QED
        BY <3>4, <4>1, <4>2 DEF StopDone, TypeOK
    <3>5. QED
      BY <2>1, <3>2, <3>3, <3>4 DEF StopStep
  <2>2. ASSUME NEW w \in Workers, Validate(w) PROVE TypeOK'
    BY <2>2, GotoType DEF Validate, TypeOK, WorkerPlaces
  <2>3. ASSUME NEW w \in Workers, NEW s \in Sessions, Insert(w, s) PROVE TypeOK'
    BY <2>3, GotoType DEF Insert, TypeOK, WorkerPlaces, Statuses
  <2>4. ASSUME NEW w \in Workers, NEW s \in Sessions, StartCheck(w, s) \/ StopCall(w, s)
        PROVE  TypeOK'
    BY <2>4, GotoType DEF StartCheck, StopCall, TypeOK, WorkerPlaces, StopPlaces
  <2>5. ASSUME NEW w \in Workers, StartMark(w) \/ StartHealth(w) PROVE TypeOK'
    <3>1. cur[w] \in Sessions \cup {NoSession}
      BY DEF TypeOK, Threads
    <3>2. /\ pc' \in [Threads -> Places] /\ cur' \in [Threads -> Sessions \cup {NoSession}]
      BY <2>5, <3>1, GotoType DEF StartMark, StartHealth, Launch, GiveUp, WorkerPlaces
    <3>3. status' \in [Sessions -> Statuses]
      BY <2>5, SetStatusType DEF StartMark, StartHealth, Launch, GiveUp, Statuses
    <3>4. launched' \in [Sessions -> Nat] /\ hours' \in [Sessions -> Nat]
      <4>1. CASE Launch(w)
        <5>1. cur[w] \in Sessions => launched[cur[w]] + 1 \in Nat
          BY DEF TypeOK
        <5>2. QED
          BY <4>1, <5>1, ExceptNat DEF Launch, TypeOK
      <4>2. CASE ~Launch(w)
        BY <2>5, <4>2 DEF StartMark, StartHealth, GiveUp, TypeOK
      <4>3. QED
        BY <4>1, <4>2
    <3>5. QED
      BY <2>5, <3>2, <3>3, <3>4 DEF StartMark, StartHealth, Launch, GiveUp, TypeOK
  <2>6. CASE LoopTop \/ LoopToSweep \/ LoopToRemove \/ LoopToTop
    BY <2>6, GotoType DEF LoopTop, LoopToSweep, LoopToRemove, LoopToTop, TypeOK, LoopPlaces, Live
  <2>7. ASSUME NEW s \in Sessions, LoopSkip(s) \/ LoopVisit(s) \/ LoopSweep(s) \/ LoopRemove(s)
        PROVE  TypeOK'
    <3>1. CASE LoopSkip(s) \/ LoopSweep(s)
      BY <3>1 DEF LoopSkip, LoopSweep, TypeOK
    <3>2. CASE LoopVisit(s)
      <4>1. /\ pc' \in [Threads -> Places] /\ cur' \in [Threads -> Sessions \cup {NoSession}]
        BY <3>2, GotoType DEF LoopVisit, LoopPlaces, VisitPlaces
      <4>2. QED
        BY <3>2, <4>1 DEF LoopVisit, TypeOK
    <3>3. CASE LoopRemove(s)
      <4>1. /\ pc' \in [Threads -> Places] /\ cur' \in [Threads -> Sessions \cup {NoSession}]
        BY <3>3, GotoType DEF LoopRemove, LoopPlaces, StopPlaces
      <4>2. QED
        BY <3>3, <4>1 DEF LoopRemove, TypeOK
    <3>4. QED
      BY <2>7, <3>1, <3>2, <3>3
  <2>8. ASSUME \/ LoopArbitrageNothing \/ LoopArbitrageThrows \/ LoopMarketMaking
               \/ LoopJudge \/ LoopErase \/ \E g \in Gains : LoopArbitrageGain(g)
        PROVE  TypeOK'
    <3>1. cur[Loop] \in Sessions \cup {NoSession}
      BY DEF TypeOK, Threads
    <3>2. /\ pc' \in [Threads -> Places] /\ cur' \in [Threads -> Sessions \cup {NoSession}]
      BY <2>8, <3>1, GotoType
         DEF LoopArbitrageNothing, LoopArbitrageThrows, LoopMarketMaking, LoopJudge, LoopErase,
             LoopArbitrageGain, EarnInArbitrage, AfterArbitrage, LoopPlaces, VisitPlaces, StopPlaces
    <3>3. status' \in [Sessions -> Statuses]
      <4>1. CASE LoopArbitrageThrows
        BY <4>1, SetStatusType DEF LoopArbitrageThrows, Statuses
      <4>2. CASE LoopErase
        BY <4>2 DEF LoopErase, Statuses, TypeOK
      <4>3. CASE ~(LoopArbitrageThrows \/ LoopErase)
        BY <2>8, <4>3 DEF LoopArbitrageNothing, LoopMarketMaking, LoopJudge, LoopArbitrageGain,
                          EarnInArbitrage, TypeOK
      <4>4. QED
        BY <4>1, <4>2, <4>3
    <3>4. profit' \in [Sessions -> Nat]
      <4>1. ASSUME NEW g \in Gains, LoopArbitrageGain(g) PROVE profit' \in [Sessions -> Nat]
        <5>1. cur[Loop] \in Sessions => profit[cur[Loop]] + g \in Nat
          BY DEF TypeOK
        <5>2. QED
          BY <4>1, <5>1, ExceptNat DEF LoopArbitrageGain, EarnInArbitrage, TypeOK
      <4>2. CASE ~\E g \in Gains : LoopArbitrageGain(g)
        BY <2>8, <4>2 DEF LoopArbitrageNothing, LoopArbitrageThrows, LoopMarketMaking,
                          LoopJudge, LoopErase, TypeOK
      <4>3. QED
        BY <4>1, <4>2
    <3>5. hours' \in [Sessions -> Nat]
      <4>1. CASE LoopJudge
        BY <4>1, ExceptNat DEF LoopJudge, TypeOK
      <4>2. CASE ~LoopJudge
        BY <2>8, <4>2 DEF LoopArbitrageNothing, LoopArbitrageThrows, LoopMarketMaking,
                          LoopErase, LoopArbitrageGain, EarnInArbitrage, TypeOK
      <4>3. QED
        BY <4>1, <4>2
    <3>6. QED
      BY <2>8, <3>2, <3>3, <3>4, <3>5
         DEF LoopArbitrageNothing, LoopArbitrageThrows, LoopMarketMaking, LoopJudge, LoopErase,
             LoopArbitrageGain, EarnInArbitrage, TypeOK
  <2>9. CASE OwnerStartEngine
    BY <2>9 DEF OwnerStartEngine, TypeOK, EngineStatuses, OwnerPlaces, LoopPlaces
  <2>10. CASE OwnerJoin \/ OwnerStopScheduler \/ OwnerStopEngine \/ \E up \in BOOLEAN : OwnerInitialize(up)
    BY <2>10, GotoType DEF OwnerJoin, OwnerStopScheduler, OwnerGoesOn, OwnerStopEngine, BeginStop, OwnerInitialize,
                           TypeOK, EngineStatuses, OwnerPlaces
  <2>11. CASE OwnerClear
    <3>1. status' \in [Sessions -> Statuses]
      BY <2>11 DEF OwnerClear, Statuses, TypeOK
    <3>2. /\ pc' \in [Threads -> Places] /\ cur' \in [Threads -> Sessions \cup {NoSession}]
      BY <2>11, GotoType DEF OwnerClear, OwnerPlaces
    <3>3. QED
      BY <2>11, <3>1, <3>2 DEF OwnerClear, TypeOK, EngineStatuses
  <2>12. ASSUME NEW s \in Sessions, OwnerStopSession(s) PROVE TypeOK'
    BY <2>12, GotoType DEF OwnerStopSession, TypeOK, OwnerPlaces, StopPlaces
  <2>13. CASE Hour
    <3>1. hours' \in [Sessions -> Nat]
      BY <2>13 DEF Hour, TypeOK
    <3>2. QED
      BY <2>13, <3>1 DEF Hour, TypeOK
  <2>14. CASE Terminated \/ UNCHANGED vars
    BY <2>14 DEF Terminated, vars, TypeOK
  <2>15. QED
    BY <2>1, <2>2, <2>3, <2>4, <2>5, <2>6, <2>7, <2>8, <2>9, <2>10, <2>11, <2>12, <2>13, <2>14
       DEF Next, LoopStep, OwnerProceeds, OwnerSkipsScheduler, WorkerFinish, Threads
<1>3. QED
  BY <1>1, <1>2, PTL DEF Safety

-----------------------------------------------------------------------------
\* The steps of the other threads that leave the loop's variables alone.
Aside ==
  \/ \E w \in Workers :
       \/ Validate(w) \/ StartMark(w) \/ StartHealth(w) \/ StopStep(w)
       \/ \E s \in Sessions : StartCheck(w, s) \/ StopCall(w, s)
  \/ StopStep(Owner) \/ OwnerJoin \/ OwnerStopScheduler \/ OwnerStopEngine \/ Hour
  \/ \E up \in BOOLEAN : OwnerInitialize(up)
  \/ \E s \in Sessions : OwnerStopSession(s)
  \/ UNCHANGED vars

LEMMA AsideLeavesLoop ==
  ASSUME TypeOK, Aside
  PROVE  UNCHANGED <<pc[Loop], cur[Loop], todo, doomed>>
<1> USE EngineAssumption DEF EngineAssumption, session, history
<1>1. ASSUME NEW t \in Threads \ {Loop}, StopStep(t)
      PROVE  UNCHANGED <<pc[Loop], cur[Loop], todo, doomed>>
  <2>1. Loop \in Threads /\ t # Loop
    BY DEF Threads
  <2>2. ASSUME NEW place, NEW s, Goto(t, place, s)
        PROVE  pc'[Loop] = pc[Loop] /\ cur'[Loop] = cur[Loop]
    BY <2>1, <2>2 DEF Goto, TypeOK
  <2>3. Return(t) => pc'[Loop] = pc[Loop] /\ cur'[Loop] = cur[Loop]
    BY <2>1, <2>2 DEF Return
  <2>4. CASE StopCheck(t)
    BY <2>2, <2>3, <2>4 DEF StopCheck
  <2>5. CASE StopMark(t)
    BY <2>2, <2>5 DEF StopMark
  <2>6. CASE StopDone(t)
    BY <2>3, <2>6 DEF StopDone
  <2>7. QED
    BY <1>1, <2>4, <2>5, <2>6 DEF StopStep
<1>2. ASSUME NEW w \in Workers,
             \/ Validate(w) \/ StartMark(w) \/ StartHealth(w)
             \/ \E s \in Sessions : StartCheck(w, s) \/ StopCall(w, s)
      PROVE  UNCHANGED <<pc[Loop], cur[Loop], todo, doomed>>
  BY <1>2 DEF Validate, StartMark, StartHealth, Launch, GiveUp, StartCheck, StopCall, Goto,
              TypeOK, Threads
<1>3. ASSUME \/ OwnerJoin \/ OwnerStopScheduler \/ OwnerStopEngine \/ Hour \/ UNCHANGED vars
             \/ \E up \in BOOLEAN : OwnerInitialize(up)
             \/ \E s \in Sessions : OwnerStopSession(s)
      PROVE  UNCHANGED <<pc[Loop], cur[Loop], todo, doomed>>
  BY <1>3 DEF OwnerJoin, OwnerStopScheduler, OwnerGoesOn, OwnerStopEngine, BeginStop, Hour, vars, OwnerInitialize,
              OwnerStopSession, Goto, TypeOK, Threads
<1>4. QED
  BY <1>1, <1>2, <1>3 DEF Aside, Threads

\* The statuses a step may leave: nothing is forgotten once created, and what
\* is live stays live unless the loop erases it or shutdown clears the map.
LEMMA StatusKept ==
  ASSUME TypeOK, [Next]_vars
  PROVE  /\ \A s \in Sessions : status[s] # "NONE" => status'[s] # "NONE"
         /\ LoopErase \/ OwnerClear \/ Live \subseteq Live'
<1> USE DEF session, history, TypeOK, SetStatus, Live
<1>1. ASSUME NEW t, StopStep(t)
      PROVE  /\ \A s \in Sessions : status[s] # "NONE" => status'[s] # "NONE"
             /\ Live \subseteq Live'
  BY <1>1 DEF StopStep, StopCheck, StopMark, StopDone
<1>2. ASSUME NEW w \in Workers, StartMark(w) \/ StartHealth(w)
      PROVE  /\ \A s \in Sessions : status[s] # "NONE" => status'[s] # "NONE"
             /\ Live \subseteq Live'
  BY <1>2 DEF StartMark, StartHealth, Launch, GiveUp
<1>3. ASSUME NEW w \in Workers, NEW s \in Sessions, Insert(w, s)
      PROVE  /\ \A u \in Sessions : status[u] # "NONE" => status'[u] # "NONE"
             /\ Live \subseteq Live'
  BY <1>3 DEF Insert
<1>4. ASSUME LoopArbitrageThrows
      PROVE  /\ \A s \in Sessions : status[s] # "NONE" => status'[s] # "NONE"
             /\ Live \subseteq Live'
  BY <1>4 DEF LoopArbitrageThrows
<1>5. ASSUME LoopErase \/ OwnerClear
      PROVE  \A s \in Sessions : status[s] # "NONE" => status'[s] # "NONE"
  BY <1>5 DEF LoopErase, OwnerClear
<1>6. ASSUME \/ \E w \in Workers : \/ Validate(w)
                                   \/ \E s \in Sessions : StartCheck(w, s) \/ StopCall(w, s)
             \/ LoopTop \/ LoopArbitrageNothing \/ LoopMarketMaking \/ LoopJudge
             \/ LoopToSweep \/ LoopToRemove \/ LoopToTop
             \/ \E g \in Gains : LoopArbitrageGain(g)
             \/ \E s \in Sessions : LoopSkip(s) \/ LoopVisit(s) \/ LoopSweep(s) \/ LoopRemove(s)
             \/ OwnerStartEngine \/ OwnerJoin \/ OwnerStopScheduler \/ OwnerStopEngine \/ Hour
             \/ \E up \in BOOLEAN : OwnerInitialize(up)
             \/ \E s \in Sessions : OwnerStopSession(s)
             \/ Terminated \/ UNCHANGED vars
      PROVE  UNCHANGED status
  BY <1>6 DEF Validate, StartCheck, StopCall, LoopTop, LoopArbitrageNothing, LoopMarketMaking,
              LoopJudge, LoopToSweep, LoopToRemove, LoopToTop, LoopArbitrageGain, EarnInArbitrage,
              LoopSkip, LoopVisit, LoopSweep, LoopRemove, OwnerStartEngine, OwnerJoin, OwnerStopScheduler, OwnerGoesOn,
              OwnerStopEngine, BeginStop, Hour, OwnerInitialize, OwnerStopSession, Terminated, vars
<1>7. QED
  BY <1>1, <1>2, <1>3, <1>4, <1>5, <1>6 DEF Next, LoopStep, OwnerProceeds, OwnerSkipsScheduler, WorkerFinish

-----------------------------------------------------------------------------
\* The owner and the loop: no loop before start_engine, none after the join.
ControlInv ==
  /\ pc[Loop] \in LoopPlaces
  /\ pc[Owner] \in {"init", "ready", "failed"} => pc[Loop] = "none"
  /\ pc[Owner] \in {"syncStop", "stopAll", "done"} \cup StopPlaces => pc[Loop] \in {"none", "exited"}

LEMMA ControlCorrect == Safety => []ControlInv
<1> USE EngineAssumption DEF EngineAssumption, session, history
<1>1. Init => ControlInv
  BY DEF Init, ControlInv, LoopPlaces, StopPlaces, Threads
<1>2. TypeOK /\ ControlInv /\ [Next]_vars => ControlInv'
  <2> SUFFICES ASSUME TypeOK, ControlInv, [Next]_vars PROVE ControlInv'
    OBVIOUS
  <2>0. pc \in [Threads -> WorkerPlaces \cup LoopPlaces \cup OwnerPlaces]
        /\ Loop \in Threads /\ Owner \in Threads /\ Loop # Owner
    BY DEF TypeOK, Threads
  <2> USE <2>0 DEF ControlInv, LoopPlaces, StopPlaces, VisitPlaces
  <2>1. ASSUME NEW w \in Workers,
               \/ Validate(w) \/ WorkerFinish(w)
               \/ \E s \in Sessions : StartCheck(w, s) \/ StopCall(w, s)
        PROVE  UNCHANGED <<pc[Loop], pc[Owner]>>
    BY <2>1 DEF Validate, WorkerFinish, StartMark, StartHealth, Launch, GiveUp, StopStep,
                StopCheck, StopMark, StopDone, Return, Insert, StartCheck, StopCall, Goto, Threads
  <2>2. CASE LoopStep
    <3>1. pc'[Owner] = pc[Owner]
      BY <2>2 DEF LoopStep, LoopTop, LoopArbitrageNothing, LoopArbitrageThrows, LoopMarketMaking,
                  LoopJudge, LoopToSweep, LoopToRemove, LoopErase, LoopToTop, StopStep, StopCheck,
                  StopMark, StopDone, Return, LoopArbitrageGain, EarnInArbitrage, AfterArbitrage,
                  LoopSkip, LoopVisit, LoopSweep, LoopRemove, Goto
    <3>2. pc[Loop] \notin {"none", "exited"} /\ pc'[Loop] \in LoopPlaces
      BY <2>2 DEF LoopStep, LoopTop, LoopArbitrageNothing, LoopArbitrageThrows, LoopMarketMaking,
                  LoopJudge, LoopToSweep, LoopToRemove, LoopErase, LoopToTop, StopStep, StopCheck,
                  StopMark, StopDone, Return, LoopArbitrageGain, EarnInArbitrage, AfterArbitrage,
                  LoopSkip, LoopVisit, LoopSweep, LoopRemove, Goto
    <3>3. QED
      BY <3>1, <3>2
  <2>3. CASE StopStep(Owner)
    BY <2>3 DEF StopStep, StopCheck, StopMark, StopDone, Return, Goto
  <2>4. CASE OwnerStartEngine \/ OwnerJoin \/ OwnerStopScheduler \/ OwnerClear \/ OwnerStopEngine
             \/ (\E up \in BOOLEAN : OwnerInitialize(up))
             \/ (\E s \in Sessions : OwnerStopSession(s))
    BY <2>4 DEF OwnerStartEngine, OwnerJoin, OwnerStopScheduler, OwnerGoesOn, OwnerClear, OwnerStopEngine, BeginStop,
                OwnerInitialize, OwnerStopSession, Goto
  <2>5. CASE Hour \/ Terminated \/ UNCHANGED vars
    BY <2>5 DEF Hour, Terminated, vars
  <2>6. QED
    BY <2>1, <2>2, <2>3, <2>4, <2>5 DEF Next, OwnerProceeds, OwnerSkipsScheduler
<1>3. QED
  BY <1>1, <1>2, TypeCorrect, PTL DEF Safety

-----------------------------------------------------------------------------
\* What the loop holds is in the map.  The rest says when it holds nothing:
\* what keeps an erasure away from an iteration.
HeldInv ==
  /\ todo \subseteq Live /\ doomed \subseteq Live /\ cur[Loop] \in Live \cup {NoSession}
  /\ pc[Loop] \in {"none", "top", "exited", "remove", "erase"} => todo = {}
  /\ pc[Loop] \in {"none", "top", "exited", "each"} \cup VisitPlaces => doomed = {}
  /\ pc[Loop] \in StopPlaces => doomed = {} \/ (todo = {} /\ cur[Loop] \in doomed)
  /\ pc[Loop] \in {"none", "top", "exited", "each", "sweep", "remove"} => cur[Loop] = NoSession

\* The loop never works on a session that has been erased, whatever workers
\* and main() do: what RemovedIsStopped shows for workers cannot happen to it.
THEOREM LoopNeverDanglesCorrect == Safety => []LoopNeverDangles
<1> USE EngineAssumption DEF EngineAssumption, session, history
<1>1. Init => HeldInv
  BY DEF Init, HeldInv, VisitPlaces, StopPlaces, Threads
<1>2. TypeOK /\ ControlInv /\ HeldInv /\ [Next]_vars => HeldInv'
  <2> SUFFICES ASSUME TypeOK, ControlInv, HeldInv, [Next]_vars PROVE HeldInv'
    OBVIOUS
  <2>0. /\ pc \in [Threads -> WorkerPlaces \cup LoopPlaces \cup OwnerPlaces]
        /\ cur \in [Threads -> Sessions \cup {NoSession}]
        /\ status \in [Sessions -> Statuses]
        /\ Loop \in Threads /\ Owner \in Threads /\ Loop # Owner
        /\ todo \subseteq Sessions /\ doomed \subseteq Sessions
    BY DEF TypeOK, Threads
  <2> USE <2>0 DEF HeldInv, StopPlaces, VisitPlaces
  <2>1. CASE OwnerClear
    <3>1. pc[Owner] = "stopAll" /\ UNCHANGED <<pc[Loop], cur[Loop], todo, doomed>>
      BY <2>1 DEF OwnerClear, Goto
    <3>2. QED
      BY <3>1 DEF ControlInv
  <2>2. CASE LoopErase
    <3>1. /\ pc[Loop] = "erase" /\ todo = {} /\ todo' = todo
          /\ pc'[Loop] = "remove" /\ cur'[Loop] = NoSession
          /\ doomed' = doomed \ {cur[Loop]}
          /\ status' = [status EXCEPT ![cur[Loop]] = "REMOVED"]
      BY <2>2 DEF LoopErase, Goto
    <3>2. doomed' \subseteq Live'
      BY <3>1 DEF Live
    <3>3. QED
      BY <3>1, <3>2
  <2>3. CASE Aside /\ ~LoopErase /\ ~OwnerClear
    <3>1. UNCHANGED <<pc[Loop], cur[Loop], todo, doomed>>
      BY <2>3, AsideLeavesLoop
    <3>2. Live \subseteq Live'
      BY <2>3, StatusKept
    <3>3. QED
      BY <3>1, <3>2
  <2>4. ASSUME NEW w \in Workers, NEW s \in Sessions, Insert(w, s), ~LoopErase, ~OwnerClear
        PROVE  HeldInv'
    <3>1. /\ UNCHANGED <<pc[Loop], cur[Loop], doomed>>
          /\ todo' \subseteq todo \cup {s} /\ (todo = {} => todo' = {})
      BY <2>4 DEF Insert, Goto
    <3>2. Live \subseteq Live' /\ s \in Live'
      BY <2>4, StatusKept DEF Insert, Live
    <3>3. QED
      BY <3>1, <3>2
  <2>5. CASE OwnerStartEngine
    <3>1. /\ pc[Owner] = "ready" /\ pc'[Loop] = "top"
          /\ UNCHANGED <<cur, todo, doomed, status>>
      BY <2>5 DEF OwnerStartEngine
    <3>2. QED
      BY <3>1 DEF ControlInv, Live
  <2>6. CASE StopStep(Loop) /\ ~LoopErase /\ ~OwnerClear
    <3>1. Live \subseteq Live' /\ UNCHANGED <<todo, doomed>> /\ pc[Loop] \in StopPlaces
      BY <2>6, StatusKept DEF StopStep, StopCheck, StopMark, StopDone
    <3>2. CASE Return(Loop)
      <4>1. CASE cur[Loop] \in doomed
        BY <3>1, <3>2, <4>1 DEF Return, Goto
      <4>2. CASE cur[Loop] \notin doomed
        BY <3>1, <3>2, <4>2 DEF Return, Goto
      <4>3. QED
        BY <4>1, <4>2
    <3>3. CASE \E place \in StopPlaces : Goto(Loop, place, cur[Loop])
      BY <3>1, <3>3 DEF Goto
    <3>4. QED
      BY <2>6, <3>2, <3>3 DEF StopStep, StopCheck, StopMark, StopDone
  <2>7. CASE LoopTop \/ LoopToSweep \/ LoopToRemove \/ LoopToTop
    BY <2>7 DEF LoopTop, LoopToSweep, LoopToRemove, LoopToTop, Goto, Live
  <2>8. ASSUME NEW s \in Sessions, LoopSkip(s) \/ LoopVisit(s) \/ LoopSweep(s) \/ LoopRemove(s)
        PROVE  HeldInv'
    <3>1. Live' = Live
      BY <2>8 DEF LoopSkip, LoopVisit, LoopSweep, LoopRemove, Live
    <3>2. CASE LoopSkip(s)
      BY <3>1, <3>2 DEF LoopSkip
    <3>3. CASE LoopVisit(s)
      BY <3>1, <3>3 DEF LoopVisit, Goto
    <3>4. CASE LoopSweep(s)
      BY <3>1, <3>4 DEF LoopSweep
    <3>5. CASE LoopRemove(s)
      BY <3>1, <3>5 DEF LoopRemove, Goto
    <3>6. QED
      BY <2>8, <3>2, <3>3, <3>4, <3>5
  <2>9. CASE /\ \/ LoopArbitrageNothing \/ LoopArbitrageThrows \/ LoopMarketMaking
                \/ \E g \in Gains : LoopArbitrageGain(g)
             /\ ~LoopErase /\ ~OwnerClear
    <3>1. /\ pc[Loop] \in VisitPlaces /\ pc'[Loop] \in VisitPlaces
          /\ cur'[Loop] = cur[Loop] /\ UNCHANGED <<todo, doomed>>
      BY <2>9 DEF LoopArbitrageNothing, LoopArbitrageThrows, LoopMarketMaking, LoopArbitrageGain,
                  EarnInArbitrage, AfterArbitrage, Goto
    <3>2. Live \subseteq Live'
      BY <2>9, StatusKept
    <3>3. QED
      BY <3>1, <3>2
  <2>10. CASE LoopJudge
    <3>1. /\ pc[Loop] \in VisitPlaces /\ UNCHANGED <<todo, doomed, status>>
          /\ \/ pc'[Loop] = "stopCheck" /\ cur'[Loop] = cur[Loop]
             \/ pc'[Loop] = "each" /\ cur'[Loop] = NoSession
      BY <2>10 DEF LoopJudge, Goto
    <3>2. QED
      BY <3>1 DEF Live
  <2>11. QED
    BY <2>1, <2>2, <2>3, <2>4, <2>5, <2>6, <2>7, <2>8, <2>9, <2>10
       DEF Next, LoopStep, OwnerProceeds, OwnerSkipsScheduler, WorkerFinish, Aside, Terminated
<1>3. HeldInv => LoopNeverDangles
  BY DEF HeldInv, LoopNeverDangles
<1>4. QED
  BY <1>1, <1>2, <1>3, TypeCorrect, ControlCorrect, PTL DEF Safety

-----------------------------------------------------------------------------
\* A session that runs, or is executed, was started.
StartedInv ==
  /\ \A s \in Sessions : status[s] = "RUNNING" => launched[s] > 0
  /\ pc[Loop] = "arbitrage" /\ cur[Loop] \in Sessions => launched[cur[Loop]] > 0

LEMMA StartedCorrect == Safety => []StartedInv
<1> USE EngineAssumption DEF EngineAssumption, session, history
<1>1. Init => StartedInv
  BY DEF Init, StartedInv, Threads
<1>2. TypeOK /\ ControlInv /\ StartedInv /\ [Next]_vars => StartedInv'
  <2> SUFFICES ASSUME TypeOK, ControlInv, StartedInv, [Next]_vars PROVE StartedInv'
    OBVIOUS
  <2>0. /\ pc \in [Threads -> WorkerPlaces \cup LoopPlaces \cup OwnerPlaces]
        /\ cur \in [Threads -> Sessions \cup {NoSession}]
        /\ status \in [Sessions -> Statuses] /\ launched \in [Sessions -> Nat]
        /\ Loop \in Threads /\ Owner \in Threads /\ Loop # Owner
    BY DEF TypeOK, Threads
  <2> USE <2>0
  \* a step that starts and executes nothing
  <2>1. ASSUME launched' = launched,
               \A s \in Sessions : status'[s] = "RUNNING" => status[s] = "RUNNING",
               pc'[Loop] = "arbitrage" => pc[Loop] = "arbitrage" /\ cur'[Loop] = cur[Loop]
        PROVE  StartedInv'
    BY <2>1 DEF StartedInv
  <2>2. ASSUME NEW t \in Threads, StopStep(t) PROVE StartedInv'
    <3>1. /\ launched' = launched
          /\ \A s \in Sessions : status'[s] = "RUNNING" => status[s] = "RUNNING"
      BY <2>2 DEF StopStep, StopCheck, StopMark, StopDone, SetStatus
    <3>2. pc'[Loop] = "arbitrage" => pc[Loop] = "arbitrage" /\ cur'[Loop] = cur[Loop]
      BY <2>2 DEF StopStep, StopCheck, StopMark, StopDone, Return, Goto
    <3>3. QED
      BY <2>1, <3>1, <3>2
  <2>3. ASSUME NEW w \in Workers,
               \/ Validate(w) \/ StartMark(w)
               \/ \E s \in Sessions : Insert(w, s) \/ StartCheck(w, s) \/ StopCall(w, s)
        PROVE  StartedInv'
    <3>1. /\ UNCHANGED <<launched, pc[Loop], cur[Loop]>>
          /\ \A s \in Sessions : status'[s] = "RUNNING" => status[s] = "RUNNING"
      BY <2>3 DEF Validate, StartMark, Insert, StartCheck, StopCall, SetStatus, Goto
    <3>2. QED
      BY <2>1, <3>1
  <2>4. ASSUME NEW w \in Workers, StartHealth(w) PROVE StartedInv'
    <3>1. UNCHANGED <<pc[Loop], cur[Loop]>>
      BY <2>4 DEF StartHealth, Launch, GiveUp, Goto
    <3>2. ASSUME NEW s \in Sessions
          PROVE  /\ launched[s] > 0 => launched'[s] > 0
                 /\ status'[s] = "RUNNING" => status[s] = "RUNNING" \/ launched'[s] > 0
      BY <2>4 DEF StartHealth, Launch, GiveUp, SetStatus
    <3>3. \A s \in Sessions : status'[s] = "RUNNING" => launched'[s] > 0
      BY <3>2 DEF StartedInv
    <3>4. pc'[Loop] = "arbitrage" /\ cur'[Loop] \in Sessions => launched'[cur'[Loop]] > 0
      BY <3>1, <3>2 DEF StartedInv
    <3>5. QED
      BY <3>3, <3>4 DEF StartedInv
  <2>5. CASE LoopStep /\ ~StopStep(Loop) /\ ~\E s \in Sessions : LoopVisit(s)
    <3>1. /\ launched' = launched
          /\ \A s \in Sessions : status'[s] = "RUNNING" => status[s] = "RUNNING"
      BY <2>5 DEF LoopStep, LoopTop, LoopArbitrageNothing, LoopArbitrageThrows, LoopMarketMaking,
                  LoopJudge, LoopToSweep, LoopToRemove, LoopErase, LoopToTop, LoopArbitrageGain,
                  EarnInArbitrage, LoopSkip, LoopSweep, LoopRemove, SetStatus
    <3>2. pc'[Loop] = "arbitrage" => pc[Loop] = "arbitrage" /\ cur'[Loop] = cur[Loop]
      BY <2>5 DEF LoopStep, LoopTop, LoopArbitrageNothing, LoopArbitrageThrows, LoopMarketMaking,
                  LoopJudge, LoopToSweep, LoopToRemove, LoopErase, LoopToTop, LoopArbitrageGain,
                  EarnInArbitrage, AfterArbitrage, LoopSkip, LoopSweep, LoopRemove, Goto
    <3>3. QED
      BY <2>1, <3>1, <3>2
  <2>6. ASSUME NEW s \in Sessions, LoopVisit(s) PROVE StartedInv'
    <3>1. UNCHANGED <<status, launched>> /\ status[s] = "RUNNING" /\ cur'[Loop] = s
      BY <2>6 DEF LoopVisit, Goto
    <3>2. QED
      BY <3>1 DEF StartedInv
  <2>7. CASE OwnerStartEngine
    BY <2>1, <2>7 DEF OwnerStartEngine
  <2>8. CASE \/ OwnerJoin \/ OwnerStopScheduler \/ OwnerClear \/ OwnerStopEngine \/ Hour \/ Terminated \/ UNCHANGED vars
             \/ (\E up \in BOOLEAN : OwnerInitialize(up))
             \/ (\E s \in Sessions : OwnerStopSession(s))
    <3>1. /\ UNCHANGED <<launched, pc[Loop], cur[Loop]>>
          /\ \A s \in Sessions : status'[s] = "RUNNING" => status[s] = "RUNNING"
      BY <2>8 DEF OwnerJoin, OwnerStopScheduler, OwnerGoesOn, OwnerClear, OwnerStopEngine, BeginStop, OwnerInitialize,
                  OwnerStopSession, Hour, Terminated, vars, Goto
    <3>2. QED
      BY <2>1, <3>1
  <2>9. QED
    BY <2>2, <2>3, <2>4, <2>5, <2>6, <2>7, <2>8
       DEF Next, OwnerProceeds, OwnerSkipsScheduler, WorkerFinish, Threads
<1>3. QED
  BY <1>1, <1>2, TypeCorrect, ControlCorrect, PTL DEF Safety

-----------------------------------------------------------------------------
\* The loop is between the beginning of its visit to s and the write that
\* ends the session, if the visit has to end it.
Visiting(s) ==
  cur[Loop] = s /\ pc[Loop] \in VisitPlaces \cup {"stopCheck", "stopMark"}

\* The execution that reaches the target of s, if it is not reached from the
\* beginning.
Reaching(s) == IF request[s].tp > 0 THEN 1 ELSE 0

\* Every execution that reaches the target, or begins past it, has had a start
\* of its own.
OvershootPaid == \A s \in Sessions : Past(s) => over[s] + Reaching(s) <= launched[s]

\* A session past its target that runs unvisited has a start to spare.
OverInv ==
  \A s \in Sessions :
    /\ Past(s) => over[s] + Reaching(s) <= launched[s]
    /\ Past(s) /\ status[s] = "RUNNING" /\ ~Visiting(s) => over[s] + Reaching(s) < launched[s]
    /\ ~Past(s) => over[s] = 0

\* However workers stop and start a session around the loop, executions that
\* reach its target, or begin past it, are no more than its starts (:429).
THEOREM OvershootPaidCorrect == Safety => []OvershootPaid
<1> USE EngineAssumption DEF EngineAssumption, session, history
<1>1. Init => OverInv
  <2> SUFFICES ASSUME Init, NEW s \in Sessions
               PROVE  ~(0 >= request[s].tp /\ request[s].tp > 0)
    BY DEF Init, OverInv, Past, Reaching
  <2> QED BY DEF Init
<1>2. TypeOK /\ ControlInv /\ StartedInv /\ OverInv /\ [Next]_vars => OverInv'
  <2> SUFFICES ASSUME TypeOK, ControlInv, StartedInv, OverInv, [Next]_vars PROVE OverInv'
    OBVIOUS
  <2>0. /\ pc \in [Threads -> WorkerPlaces \cup LoopPlaces \cup OwnerPlaces]
        /\ cur \in [Threads -> Sessions \cup {NoSession}]
        /\ status \in [Sessions -> Statuses]
        /\ over \in [Sessions -> Nat] /\ launched \in [Sessions -> Nat]
        /\ Loop \in Threads /\ Owner \in Threads /\ Loop # Owner
    BY DEF TypeOK, Threads
  <2> USE <2>0
  \* a step that makes nothing run, leaves the profit and the counts, and
  \* does not end a visit
  <2>1. ASSUME UNCHANGED <<profit, request, launched, over>>,
               \A s \in Sessions : status'[s] = "RUNNING" => status[s] = "RUNNING",
               \A s \in Sessions :
                 Visiting(s) /\ ~Visiting(s)' => ~(Past(s) /\ status'[s] = "RUNNING")
        PROVE  OverInv'
    BY <2>1 DEF OverInv, Past, Reaching
  <2>2. ASSUME NEW t \in Threads, StopStep(t) PROVE OverInv'
    <3>1. /\ UNCHANGED <<profit, request, launched, over>>
          /\ \A s \in Sessions : status'[s] = "RUNNING" => status[s] = "RUNNING"
      BY <2>2 DEF StopStep, StopCheck, StopMark, StopDone, SetStatus
    <3>2. CASE t # Loop
      <4>1. UNCHANGED <<pc[Loop], cur[Loop]>>
        BY <2>2, <3>2 DEF StopStep, StopCheck, StopMark, StopDone, Return, Goto
      <4>2. QED
        BY <2>1, <3>1, <4>1 DEF Visiting
    <3>3. CASE t = Loop
      <4>1. ASSUME NEW s \in Sessions, Visiting(s), ~Visiting(s)' PROVE status'[s] # "RUNNING"
        <5>1. CASE StopCheck(Loop)
          BY <4>1, <5>1 DEF StopCheck, Visiting, VisitPlaces, Goto
        <5>2. CASE StopMark(Loop)
          BY <4>1, <5>2 DEF StopMark, Visiting, SetStatus
        <5>3. CASE StopDone(Loop)
          BY <4>1, <5>3 DEF StopDone, Visiting, VisitPlaces
        <5>4. QED
          BY <2>2, <3>3, <5>1, <5>2, <5>3 DEF StopStep
      <4>2. QED
        BY <2>1, <3>1, <4>1
    <3>4. QED
      BY <3>2, <3>3
  <2>3. ASSUME NEW w \in Workers,
               \/ Validate(w) \/ StartMark(w)
               \/ \E s \in Sessions : Insert(w, s) \/ StartCheck(w, s) \/ StopCall(w, s)
        PROVE  OverInv'
    <3>1. /\ UNCHANGED <<profit, request, launched, over, pc[Loop], cur[Loop]>>
          /\ \A s \in Sessions : status'[s] = "RUNNING" => status[s] = "RUNNING"
      BY <2>3 DEF Validate, StartMark, Insert, StartCheck, StopCall, SetStatus, Goto
    <3>2. QED
      BY <2>1, <3>1 DEF Visiting
  <2>4. ASSUME NEW w \in Workers, StartHealth(w) PROVE OverInv'
    <3>1. UNCHANGED <<profit, request, over, pc[Loop], cur[Loop]>>
      BY <2>4 DEF StartHealth, Launch, GiveUp, Goto
    <3>2. CASE Launch(w)
      <4>1. SUFFICES ASSUME NEW s \in Sessions
                     PROVE  /\ Past(s) => over[s] + Reaching(s) <= launched'[s]
                            /\ Past(s) /\ status'[s] = "RUNNING" /\ ~Visiting(s)
                               => over[s] + Reaching(s) < launched'[s]
                            /\ ~Past(s) => over[s] = 0
        BY <3>1 DEF OverInv, Past, Visiting, Reaching
      <4>0. Reaching(s) \in Nat
        BY DEF Reaching
      <4>2. CASE s = cur[w]
        <5>1. launched'[s] = launched[s] + 1
          BY <3>2, <4>2 DEF Launch
        <5>2. QED
          BY <4>0, <5>1 DEF OverInv
      <4>3. CASE s # cur[w]
        <5>1. launched'[s] = launched[s] /\ status'[s] = status[s]
          BY <3>2, <4>3 DEF Launch, SetStatus
        <5>2. QED
          BY <5>1 DEF OverInv
      <4>4. QED
        BY <4>2, <4>3
    <3>3. CASE ~Launch(w)
      <4>1. launched' = launched /\ \A s \in Sessions : status'[s] = "RUNNING" => status[s] = "RUNNING"
        BY <2>4, <3>3 DEF StartHealth, GiveUp, SetStatus
      <4>2. QED
        BY <2>1, <3>1, <4>1 DEF Visiting
    <3>4. QED
      BY <3>2, <3>3
  <2>5. CASE LoopTop \/ LoopToSweep \/ LoopToRemove \/ LoopToTop \/ LoopErase
             \/ \E s \in Sessions : LoopSkip(s) \/ LoopSweep(s) \/ LoopRemove(s)
    <3>1. /\ UNCHANGED <<profit, request, launched, over>>
          /\ \A s \in Sessions : status'[s] = "RUNNING" => status[s] = "RUNNING"
      BY <2>5 DEF LoopTop, LoopToSweep, LoopToRemove, LoopToTop, LoopErase, LoopSkip, LoopSweep,
                  LoopRemove
    <3>2. pc[Loop] \notin VisitPlaces \cup {"stopCheck", "stopMark"}
      BY <2>5 DEF LoopTop, LoopToSweep, LoopToRemove, LoopToTop, LoopErase, LoopSkip, LoopSweep,
                  LoopRemove, VisitPlaces
    <3>3. QED
      BY <2>1, <3>1, <3>2 DEF Visiting
  <2>6. ASSUME NEW s \in Sessions, LoopVisit(s) PROVE OverInv'
    <3>1. /\ UNCHANGED <<profit, request, launched, status>> /\ status[s] = "RUNNING"
          /\ pc[Loop] = "each" /\ cur'[Loop] = s /\ pc'[Loop] \in VisitPlaces
          /\ over' = IF Past(s) /\ over[s] <= launched[s] THEN [over EXCEPT ![s] = @ + 1] ELSE over
      BY <2>6 DEF LoopVisit, Goto, VisitPlaces
    <3>2. \A u \in Sessions : ~Visiting(u)
      BY <3>1 DEF Visiting, VisitPlaces
    <3>3. SUFFICES ASSUME NEW u \in Sessions
                   PROVE  /\ Past(u) => over'[u] + Reaching(u) <= launched[u]
                          /\ Past(u) /\ status[u] = "RUNNING" /\ u # s
                             => over'[u] + Reaching(u) < launched[u]
                          /\ ~Past(u) => over'[u] = 0
      BY <3>1 DEF OverInv, Past, Visiting, Reaching
    <3>0. Reaching(u) \in Nat
      BY DEF Reaching
    <3>4. CASE u = s /\ Past(s)
      <4>1. over[s] + Reaching(s) < launched[s]
        BY <3>1, <3>2, <3>4 DEF OverInv
      <4>2. over'[s] = over[s] + 1
        BY <3>0, <3>1, <3>4, <4>1
      <4>3. QED
        BY <3>0, <3>4, <4>1, <4>2
    <3>5. CASE ~(u = s /\ Past(s))
      <4>1. over'[u] = over[u]
        BY <3>1, <3>5
      <4>2. QED
        BY <3>2, <4>1 DEF OverInv
    <3>6. QED
      BY <3>4, <3>5
  <2>7. CASE LoopArbitrageNothing \/ LoopArbitrageThrows \/ LoopMarketMaking
    <3>1. /\ UNCHANGED <<profit, request, launched, over>>
          /\ \A s \in Sessions : status'[s] = "RUNNING" => status[s] = "RUNNING"
          /\ cur'[Loop] = cur[Loop] /\ pc'[Loop] \in VisitPlaces
      BY <2>7 DEF LoopArbitrageNothing, LoopArbitrageThrows, LoopMarketMaking, AfterArbitrage,
                  SetStatus, Goto, VisitPlaces
    <3>2. QED
      BY <2>1, <3>1 DEF Visiting
  <2>8. ASSUME NEW g \in Gains, LoopArbitrageGain(g) PROVE OverInv'
    <3>1. /\ UNCHANGED <<status, request, launched, over>>
          /\ pc[Loop] \in VisitPlaces /\ pc'[Loop] \in VisitPlaces /\ cur'[Loop] = cur[Loop]
          /\ profit' = [profit EXCEPT ![cur[Loop]] = @ + g]
      BY <2>8 DEF LoopArbitrageGain, EarnInArbitrage, AfterArbitrage, Goto, VisitPlaces
    <3>2. ASSUME NEW s \in Sessions
          PROVE  /\ Visiting(s)' = Visiting(s) /\ (~Visiting(s) => Past(s)' = Past(s))
                 /\ Reaching(s)' = Reaching(s)
                 /\ Past(s) => Past(s)'
      <4>1. Visiting(s)' = Visiting(s) /\ (~Visiting(s) => Past(s)' = Past(s))
        BY <3>1 DEF Visiting, Past, TypeOK
      <4>2. Reaching(s)' = Reaching(s)
        BY <3>1 DEF Reaching
      <4>3. profit'[s] \in Nat /\ profit'[s] >= profit[s] /\ request[s].tp \in Int
        BY <3>1 DEF TypeOK
      <4>4. Past(s) => Past(s)'
        BY <3>1, <4>3 DEF Past, TypeOK
      <4>5. QED
        BY <4>1, <4>2, <4>4
    \* what reaches the target was started, and has not been executed past it
    <3>3. ASSUME NEW s \in Sessions, ~Past(s), Visiting(s)
          PROVE  over[s] + Reaching(s) <= launched[s]
      <4>1. pc[Loop] = "arbitrage" /\ cur[Loop] = s
        BY <2>8, <3>3 DEF LoopArbitrageGain, EarnInArbitrage, Visiting
      <4>2. launched[s] > 0 /\ over[s] = 0
        BY <3>3, <4>1 DEF StartedInv, OverInv
      <4>3. QED
        BY <4>2 DEF Reaching
    <3>4. ASSUME NEW s \in Sessions
          PROVE  /\ Past(s)' => over[s] + Reaching(s) <= launched[s]
                 /\ Past(s)' /\ status[s] = "RUNNING" /\ ~Visiting(s)
                    => over[s] + Reaching(s) < launched[s]
                 /\ ~Past(s)' => over[s] = 0
      BY <3>2, <3>3 DEF OverInv
    <3>5. QED
      BY <3>1, <3>2, <3>4 DEF OverInv
  <2>9. CASE LoopJudge
    <3>1. /\ UNCHANGED <<profit, request, launched, over, status>>
          /\ \/ pc'[Loop] = "stopCheck" /\ cur'[Loop] = cur[Loop]
             \/ ~Past(cur[Loop])
      BY <2>9 DEF LoopJudge, LimitReached, Goto
    <3>2. QED
      BY <2>1, <3>1 DEF Visiting
  <2>10. CASE OwnerStartEngine
    <3>1. /\ UNCHANGED <<profit, request, launched, over, status>> /\ pc[Loop] = "none"
      BY <2>10 DEF OwnerStartEngine, ControlInv
    <3>2. QED
      BY <2>1, <3>1 DEF Visiting, VisitPlaces
  <2>11. CASE OwnerJoin \/ OwnerStopScheduler \/ OwnerClear \/ OwnerStopEngine
              \/ (\E up \in BOOLEAN : OwnerInitialize(up))
              \/ (\E s \in Sessions : OwnerStopSession(s))
    <3>1. /\ UNCHANGED <<profit, request, launched, over, pc[Loop], cur[Loop]>>
          /\ \A s \in Sessions : status'[s] = "RUNNING" => status[s] = "RUNNING"
      BY <2>11 DEF OwnerJoin, OwnerStopScheduler, OwnerGoesOn, OwnerClear, OwnerStopEngine, BeginStop, OwnerInitialize,
                   OwnerStopSession, Goto
    <3>2. QED
      BY <2>1, <3>1 DEF Visiting
  <2>12. CASE Hour \/ Terminated \/ UNCHANGED vars
    BY <2>1, <2>12 DEF Hour, Terminated, vars, Visiting
  <2>13. QED
    BY <2>2, <2>3, <2>4, <2>5, <2>6, <2>7, <2>8, <2>9, <2>10, <2>11, <2>12
       DEF Next, LoopStep, OwnerProceeds, OwnerSkipsScheduler, WorkerFinish, Threads
<1>3. OverInv => OvershootPaid
  BY DEF OverInv, OvershootPaid
<1>4. QED
  BY <1>1, <1>2, <1>3, TypeCorrect, ControlCorrect, StartedCorrect, PTL DEF Safety

-----------------------------------------------------------------------------
\* A session some thread has in hand was created, so that no status written
\* through it makes another session live.
SeenInv ==
  /\ \A t \in Threads : cur[t] \in Sessions => status[cur[t]] # "NONE"
  /\ \A s \in todo \cup doomed : status[s] # "NONE"

LEMMA SeenCorrect == Safety => []SeenInv
<1> USE EngineAssumption DEF EngineAssumption, session, history
<1>1. Init => SeenInv
  BY DEF Init, SeenInv
<1>2. TypeOK /\ SeenInv /\ [Next]_vars => SeenInv'
  <2> SUFFICES ASSUME TypeOK, SeenInv, [Next]_vars PROVE SeenInv'
    OBVIOUS
  <2>0. /\ cur \in [Threads -> Sessions \cup {NoSession}]
        /\ todo \subseteq Sessions /\ doomed \subseteq Sessions
    BY DEF TypeOK
  <2>1. \A s \in Sessions : status[s] # "NONE" => status'[s] # "NONE"
    BY StatusKept
  <2> USE <2>0, <2>1 DEF SeenInv
  \* a thread turns to no session, keeps its own, or takes one that was seen
  <2>2. ASSUME NEW t \in Threads, NEW place, NEW s, Goto(t, place, s),
               s = NoSession \/ s = cur[t] \/ (s \in Sessions /\ status'[s] # "NONE")
        PROVE  \A v \in Threads : cur'[v] \in Sessions => status'[cur'[v]] # "NONE"
    BY <2>2 DEF Goto
  <2>3. ASSUME NEW t \in Threads, StopStep(t) PROVE SeenInv'
    <3>1. UNCHANGED <<todo, doomed>>
      BY <2>3 DEF StopStep, StopCheck, StopMark, StopDone
    <3>2. \E place, s : Goto(t, place, s) /\ (s = NoSession \/ s = cur[t])
      BY <2>3, Zenon DEF StopStep, StopCheck, StopMark, StopDone, Return
    <3>3. QED
      BY <2>2, <3>1, <3>2
  <2>4. ASSUME NEW w \in Workers, Validate(w) \/ StartMark(w) \/ StartHealth(w) PROVE SeenInv'
    <3>1. UNCHANGED <<todo, doomed>> /\ w \in Threads
      BY <2>4 DEF Validate, StartMark, StartHealth, Launch, GiveUp, Threads
    <3>2. \E place, s : Goto(w, place, s) /\ (s = NoSession \/ s = cur[w])
      BY <2>4, Zenon DEF Validate, StartMark, StartHealth, Launch, GiveUp
    <3>3. QED
      BY <2>2, <3>1, <3>2
  <2>5. ASSUME NEW w \in Workers, NEW s \in Sessions, Insert(w, s) PROVE SeenInv'
    <3>1. /\ doomed' = doomed /\ todo' \subseteq todo \cup {s} /\ status'[s] # "NONE"
          /\ Goto(w, "idle", NoSession) /\ w \in Threads
      BY <2>5 DEF Insert, TypeOK, Threads
    <3>2. QED
      BY <2>2, <3>1
  <2>6. ASSUME NEW w \in Workers, NEW s \in Sessions, StartCheck(w, s) \/ StopCall(w, s)
        PROVE  SeenInv'
    <3>1. /\ UNCHANGED <<todo, doomed>> /\ status[s] # "NONE" /\ w \in Threads
          /\ \E place : Goto(w, place, s)
      BY <2>6 DEF StartCheck, StopCall, Live, Threads
    <3>2. QED
      BY <2>2, <3>1
  <2>7. CASE LoopTop \/ LoopToSweep \/ LoopToRemove \/ LoopToTop
    <3>1. /\ todo' \subseteq todo \cup Live /\ doomed' = doomed /\ Loop \in Threads
          /\ \E place : Goto(Loop, place, NoSession)
      BY <2>7 DEF LoopTop, LoopToSweep, LoopToRemove, LoopToTop, Threads
    <3>2. QED
      BY <2>2, <3>1 DEF Live
  <2>8. ASSUME NEW s \in Sessions, LoopSkip(s) \/ LoopSweep(s) PROVE SeenInv'
    BY <2>8 DEF LoopSkip, LoopSweep
  <2>9. ASSUME NEW s \in Sessions, LoopVisit(s) \/ LoopRemove(s) PROVE SeenInv'
    <3>1. /\ s \in todo \cup doomed /\ todo' \subseteq todo /\ doomed' = doomed /\ Loop \in Threads
          /\ \E place : Goto(Loop, place, s)
      BY <2>9 DEF LoopVisit, LoopRemove, Threads
    <3>2. QED
      BY <2>2, <3>1
  <2>10. CASE \/ LoopArbitrageNothing \/ LoopArbitrageThrows \/ LoopMarketMaking
              \/ LoopJudge \/ LoopErase \/ \E g \in Gains : LoopArbitrageGain(g)
    <3>1. todo' = todo /\ doomed' \subseteq doomed /\ Loop \in Threads
      BY <2>10 DEF LoopArbitrageNothing, LoopArbitrageThrows, LoopMarketMaking, LoopJudge,
                   LoopErase, LoopArbitrageGain, EarnInArbitrage, Threads
    <3>2. \E place, s : Goto(Loop, place, s) /\ (s = NoSession \/ s = cur[Loop])
      BY <2>10, Zenon DEF LoopArbitrageNothing, LoopArbitrageThrows, LoopMarketMaking, LoopJudge,
                   LoopErase, LoopArbitrageGain, EarnInArbitrage, AfterArbitrage
    <3>3. QED
      BY <2>2, <3>1, <3>2
  <2>11. ASSUME \/ OwnerJoin \/ OwnerStopScheduler \/ OwnerClear \/ OwnerStopEngine
                \/ \E up \in BOOLEAN : OwnerInitialize(up)
         PROVE  SeenInv'
    <3>1. UNCHANGED <<todo, doomed>> /\ Owner \in Threads /\ \E place : Goto(Owner, place, NoSession)
      BY <2>11 DEF OwnerJoin, OwnerStopScheduler, OwnerGoesOn, OwnerClear, OwnerStopEngine, BeginStop, OwnerInitialize,
                   Threads
    <3>2. QED
      BY <2>2, <3>1
  <2>12. ASSUME NEW s \in Sessions, OwnerStopSession(s) PROVE SeenInv'
    <3>1. /\ UNCHANGED <<todo, doomed>> /\ status[s] # "NONE" /\ Owner \in Threads
          /\ Goto(Owner, "stopCheck", s)
      BY <2>12 DEF OwnerStopSession, Threads
    <3>2. QED
      BY <2>2, <3>1
  <2>13. CASE OwnerStartEngine \/ Hour \/ Terminated \/ UNCHANGED vars
    BY <2>13 DEF OwnerStartEngine, Hour, Terminated, vars
  <2>14. QED
    BY <2>3, <2>4, <2>5, <2>6, <2>7, <2>8, <2>9, <2>10, <2>11, <2>12, <2>13
       DEF Next, LoopStep, OwnerProceeds, OwnerSkipsScheduler, WorkerFinish, Threads
<1>3. QED
  BY <1>1, <1>2, TypeCorrect, PTL DEF Safety

\* Only a worker that inserts makes a session live, and only one that has
\* just found the map below the limit is about to insert.
LEMMA OnlyInsertGrows ==
  ASSUME TypeOK, SeenInv, [Next]_vars,
         ~\E w \in Workers : Validate(w) \/ \E s \in Sessions : Insert(w, s)
  PROVE  Live' \subseteq Live /\ Inserting' \subseteq Inserting
<1> USE EngineAssumption DEF EngineAssumption, session, history
<1>0. /\ pc \in [Threads -> WorkerPlaces \cup LoopPlaces \cup OwnerPlaces]
      /\ status \in [Sessions -> Statuses]
      /\ Loop \in Threads /\ Owner \in Threads /\ Workers \subseteq Threads
  BY DEF TypeOK, Threads
<1> USE <1>0
\* a thread that goes anywhere but to "insert"
<1>1. ASSUME NEW t \in Threads, NEW place, NEW s, Goto(t, place, s), place # "insert"
      PROVE  Inserting' \subseteq Inserting
  BY <1>1 DEF Goto, Inserting
\* a status written to a session that was created
<1>2. ASSUME NEW s, NEW v, SetStatus(s, v), s \in Sessions => status[s] # "NONE"
      PROVE  Live' \subseteq Live
  BY <1>2 DEF SetStatus, Live
<1>3. UNCHANGED status => Live' = Live
  BY DEF Live
<1>4. ASSUME NEW t \in Threads PROVE cur[t] \in Sessions => status[cur[t]] # "NONE"
  BY DEF SeenInv
<1>5. ASSUME NEW t \in Threads, StopStep(t) PROVE Live' \subseteq Live /\ Inserting' \subseteq Inserting
  <2>1. Live' \subseteq Live
    BY <1>2, <1>3, <1>4, <1>5 DEF StopStep, StopCheck, StopMark, StopDone
  <2>2. \E place, s : Goto(t, place, s) /\ place # "insert"
    <3>1. Return(t) => \E place, s : Goto(t, place, s) /\ place # "insert"
      <4>1. CASE t = Loop /\ cur[t] \in doomed
        BY <4>1 DEF Return
      <4>2. CASE ~(t = Loop /\ cur[t] \in doomed)
        BY <4>2 DEF Return
      <4>3. QED
        BY <4>1, <4>2
    <3>2. QED
      BY <1>5, <3>1 DEF StopStep, StopCheck, StopMark, StopDone
  <2>3. QED
    BY <1>1, <2>1, <2>2
<1>6. ASSUME NEW w \in Workers,
             \/ StartMark(w) \/ StartHealth(w)
             \/ \E s \in Sessions : StartCheck(w, s) \/ StopCall(w, s)
      PROVE  Live' \subseteq Live /\ Inserting' \subseteq Inserting
  <2>1. Live' \subseteq Live
    BY <1>2, <1>3, <1>4, <1>6
       DEF StartMark, StartHealth, Launch, GiveUp, StartCheck, StopCall
  <2>2. \E place, s : Goto(w, place, s) /\ place # "insert"
    BY <1>6 DEF StartMark, StartHealth, Launch, GiveUp, StartCheck, StopCall
  <2>3. QED
    BY <1>1, <2>1, <2>2
<1>7. CASE LoopStep /\ ~StopStep(Loop)
  <2>1. Live' \subseteq Live
    <3>1. LoopErase => Live' \subseteq Live
      BY DEF LoopErase, Live
    <3>2. QED
      BY <1>2, <1>3, <1>4, <1>7, <3>1
         DEF LoopStep, LoopTop, LoopArbitrageNothing, LoopArbitrageThrows, LoopMarketMaking,
             LoopJudge, LoopToSweep, LoopToRemove, LoopToTop, LoopArbitrageGain, EarnInArbitrage,
             LoopSkip, LoopVisit, LoopSweep, LoopRemove
  <2>2. pc' = pc \/ \E place, s : Goto(Loop, place, s) /\ place # "insert"
    <3>1. CASE LoopTop \/ LoopToSweep \/ LoopToRemove \/ LoopToTop \/ LoopErase \/ LoopJudge
      BY <3>1 DEF LoopTop, LoopToSweep, LoopToRemove, LoopToTop, LoopErase, LoopJudge
    <3>2. CASE \E s \in Sessions : LoopSkip(s) \/ LoopSweep(s)
      BY <3>2 DEF LoopSkip, LoopSweep
    <3>3. CASE \E s \in Sessions : LoopVisit(s) \/ LoopRemove(s)
      BY <3>3 DEF LoopVisit, LoopRemove
    <3>4. CASE LoopArbitrageThrows \/ LoopMarketMaking
      <4>1. Goto(Loop, "judge", cur[Loop])
        BY <3>4 DEF LoopArbitrageThrows, LoopMarketMaking
      <4>2. QED
        BY <4>1
    <3>5. CASE LoopArbitrageNothing \/ \E g \in Gains : LoopArbitrageGain(g)
      <4>1. AfterArbitrage(cur[Loop])
        BY <3>5 DEF LoopArbitrageNothing, LoopArbitrageGain, EarnInArbitrage
      <4>2. CASE Goto(Loop, "judge", cur[Loop])
        BY <4>2
      <4>3. CASE Goto(Loop, "market_making", cur[Loop])
        BY <4>3
      <4>4. QED
        BY <4>1, <4>2, <4>3 DEF AfterArbitrage
    <3>6. QED
      BY <1>7, <3>1, <3>2, <3>3, <3>4, <3>5 DEF LoopStep
  <2>3. QED
    BY <1>1, <2>1, <2>2 DEF Inserting
<1>8. CASE (OwnerProceeds \/ OwnerStopEngine \/ OwnerStopScheduler) /\ ~StopStep(Owner)
  <2>1. Live' \subseteq Live
    <3>1. OwnerClear => Live' \subseteq Live
      BY DEF OwnerClear, Live
    <3>2. QED
      BY <1>3, <1>8, <3>1 DEF OwnerProceeds, OwnerSkipsScheduler, OwnerStartEngine, OwnerJoin, OwnerStopScheduler, OwnerGoesOn,
                              OwnerInitialize, OwnerStopSession, OwnerStopEngine, BeginStop
  <2>2. CASE OwnerStartEngine
    BY <2>1, <2>2 DEF OwnerStartEngine, Inserting
  <2>3. CASE ~OwnerStartEngine
    <3>1. \E place, s : Goto(Owner, place, s) /\ place # "insert"
      BY <1>8, <2>3 DEF OwnerProceeds, OwnerSkipsScheduler, OwnerJoin, OwnerStopScheduler, OwnerGoesOn, OwnerInitialize, OwnerStopSession,
                        OwnerStopEngine, BeginStop, OwnerClear
    <3>2. QED
      BY <1>1, <2>1, <3>1
  <2>4. QED
    BY <2>2, <2>3
<1>9. CASE Hour \/ Terminated \/ UNCHANGED vars
  BY <1>9 DEF Hour, Terminated, vars, Live, Inserting
<1>10. QED
  BY <1>5, <1>6, <1>7, <1>8, <1>9 DEF Next, WorkerFinish, OwnerProceeds, OwnerSkipsScheduler, LoopStep

\* Without any lock, the map still never holds more than max_sessions_ plus
\* one session for every worker but one.
THEOREM SessionLimitCorrect == Safety => []SessionLimit
<1> USE EngineAssumption DEF EngineAssumption
<1>0. ASSUME NEW A, NEW B \in SUBSET A, IsFiniteSet(A)
      PROVE  Cardinality(B) <= Cardinality(A) /\ Cardinality(A) \in Nat /\ Cardinality(B) \in Nat
  BY <1>0, FS_Subset, FS_CardinalityType
<1>1. IsFiniteSet(Live) /\ IsFiniteSet(Inserting)
  <2>1. Live \subseteq Sessions /\ Inserting \subseteq Workers
    BY DEF Live, Inserting
  <2>2. QED
    BY <2>1, FS_Subset
<1>2. Init => SessionLimit
  <2> SUFFICES ASSUME Init PROVE SessionLimit
    OBVIOUS
  <2>1. Live = {}
    BY DEF Init, Live
  <2>2. Inserting \subseteq {}
    BY DEF Init, Inserting, Threads
  <2>3. Cardinality(Live) = 0 /\ Cardinality(Inserting) = 0 /\ Cardinality(Workers) \in Nat
    BY <2>1, <2>2, FS_EmptySet, FS_CardinalityType
  <2>4. QED
    BY <2>3 DEF SessionLimit
<1>3. TypeOK /\ SeenInv /\ SessionLimit /\ [Next]_vars => SessionLimit'
  <2> SUFFICES ASSUME TypeOK, SeenInv, SessionLimit, [Next]_vars PROVE SessionLimit'
    OBVIOUS
  <2>1. /\ Cardinality(Live) \in Nat /\ Cardinality(Inserting) \in Nat
        /\ Cardinality(Workers) \in Nat
    BY <1>1, FS_CardinalityType
  <2>2. ASSUME NEW w \in Workers, Validate(w) PROVE SessionLimit'
    <3>1. Live' = Live /\ Cardinality(Live) < MaxSessions
      BY <2>2 DEF Validate, BelowLimit, Live, session
    <3>2. Inserting' \subseteq Workers
      BY DEF Inserting
    <3>3. Cardinality(Inserting') <= Cardinality(Workers) /\ Cardinality(Inserting') \in Nat
      BY <1>0, <3>2
    <3>4. QED
      BY <2>1, <3>1, <3>3 DEF SessionLimit
  <2>3. ASSUME NEW w \in Workers, NEW s \in Sessions, Insert(w, s) PROVE SessionLimit'
    <3>1. Live' = Live \cup {s} /\ s \notin Live
      BY <2>3 DEF Insert, Live, TypeOK
    <3>2. Inserting' = Inserting \ {w} /\ w \in Inserting
      BY <2>3 DEF Insert, Inserting, Goto, TypeOK, Threads
    <3>3. Cardinality(Live') = Cardinality(Live) + 1
      BY <1>1, <3>1, FS_AddElement
    <3>4. Cardinality(Inserting') = Cardinality(Inserting) - 1
      BY <1>1, <3>2, FS_RemoveElement
    <3>5. QED
      BY <2>1, <3>3, <3>4 DEF SessionLimit
  <2>4. CASE ~\E w \in Workers : Validate(w) \/ \E s \in Sessions : Insert(w, s)
    <3>1. Live' \subseteq Live /\ Inserting' \subseteq Inserting
      BY <2>4, OnlyInsertGrows
    <3>2. /\ Cardinality(Live') <= Cardinality(Live) /\ Cardinality(Live') \in Nat
          /\ Cardinality(Inserting') <= Cardinality(Inserting) /\ Cardinality(Inserting') \in Nat
      BY <1>0, <1>1, <3>1
    <3>3. QED
      BY <2>1, <3>2 DEF SessionLimit
  <2>5. QED
    BY <2>2, <2>3, <2>4
<1>4. QED
  BY <1>2, <1>3, TypeCorrect, SeenCorrect, PTL DEF Safety

-----------------------------------------------------------------------------
\* A session is half-way through a start or a stop only while some thread is
\* between the two writes of it, and will write again.
SomeoneFinishes ==
  \A s \in Sessions : status[s] \in {"STARTING", "STOPPING"} =>
    \E t \in Threads : pc[t] \in {"health", "stopDone"} /\ cur[t] = s

\* Between two writes on s, as SomeoneFinishes asks.
Finishing(t, s) == pc[t] \in {"health", "stopDone"} /\ cur[t] = s

\* A thread that is not between two writes, or the last of them, takes nobody
\* else's place away.
LEMMA OthersKeepPlace ==
  ASSUME TypeOK, NEW t \in Threads, NEW place, NEW u, Goto(t, place, u),
         NEW v \in Threads \ {t}, NEW s, Finishing(v, s)
  PROVE  Finishing(v, s)'
  BY DEF TypeOK, Goto, Finishing

\* No session is left in STARTING or STOPPING, however starts, stops, errors,
\* removals and the shutdown meet (:225-259, :284-292): the safety half of
\* NoLimbo.
THEOREM SomeoneFinishesCorrect == Safety => []SomeoneFinishes
<1> USE EngineAssumption DEF EngineAssumption, session, history
<1>1. Init => SomeoneFinishes
  BY DEF Init, SomeoneFinishes
<1>2. TypeOK /\ ControlInv /\ SomeoneFinishes /\ [Next]_vars => SomeoneFinishes'
  <2> SUFFICES ASSUME TypeOK, ControlInv, SomeoneFinishes, [Next]_vars,
                      NEW s \in Sessions, status'[s] \in {"STARTING", "STOPPING"}
               PROVE  \E t \in Threads : Finishing(t, s)'
    BY DEF SomeoneFinishes, Finishing
  <2>0. /\ pc \in [Threads -> WorkerPlaces \cup LoopPlaces \cup OwnerPlaces]
        /\ cur \in [Threads -> Sessions \cup {NoSession}]
        /\ status \in [Sessions -> Statuses]
        /\ Loop \in Threads /\ Owner \in Threads /\ Workers \subseteq Threads
    BY DEF TypeOK, Threads
  <2>1. status[s] \in {"STARTING", "STOPPING"} => \E t \in Threads : Finishing(t, s)
    BY DEF SomeoneFinishes, Finishing
  \* a thread that turns from another place leaves who finishes where he is
  <2>2. ASSUME NEW t \in Threads, NEW place, NEW u, Goto(t, place, u),
               ~Finishing(t, s), status'[s] = status[s]
        PROVE  \E v \in Threads : Finishing(v, s)'
    <3>1. PICK v \in Threads : Finishing(v, s)
      BY <2>1, <2>2
    <3>2. v \in Threads \ {t}
      BY <3>1, <2>2
    <3>3. QED
      BY <3>1, <3>2, <2>2, OthersKeepPlace
  \* so does one that writes another session, or writes the last time
  <2>3. ASSUME NEW t \in Threads, NEW place, NEW u, Goto(t, place, u),
               pc[t] \in {"health", "stopDone"}, NEW value, SetStatus(cur[t], value),
               value \notin {"STARTING", "STOPPING"}
        PROVE  \E v \in Threads : Finishing(v, s)'
    <3>1. cur[t] # s
      BY <2>3, <2>0 DEF SetStatus, Statuses
    <3>2. status'[s] = status[s]
      BY <2>3, <2>0, <3>1 DEF SetStatus
    <3>3. ~Finishing(t, s)
      BY <3>1 DEF Finishing
    <3>4. QED
      BY <2>2, <2>3, <3>2, <3>3
  \* the first of two writes
  <2>4. ASSUME NEW t \in Threads, NEW place \in {"health", "stopDone"},
               pc[t] \notin {"health", "stopDone"},
               Goto(t, place, cur[t]), NEW value, SetStatus(cur[t], value)
        PROVE  \E v \in Threads : Finishing(v, s)'
    <3>1. CASE cur[t] = s
      <4>1. pc'[t] = place /\ cur'[t] = cur[t]
        BY <2>4, <2>0 DEF Goto
      <4>2. QED
        BY <3>1, <4>1, <2>4 DEF Finishing
    <3>2. CASE cur[t] # s
      <4>1. status'[s] = status[s] /\ ~Finishing(t, s)
        BY <2>4, <2>0, <3>2 DEF SetStatus, Finishing
      <4>2. QED
        BY <2>2, <2>4, <4>1
    <3>3. QED
      BY <3>1, <3>2
  <2>5. ASSUME NEW t \in Threads, StopStep(t) PROVE \E v \in Threads : Finishing(v, s)'
    <3>0. ASSUME Return(t) PROVE \E place, u : Goto(t, place, u)
      BY <3>0, Zenon DEF Return
    <3>1. CASE StopCheck(t)
      <4>1. pc[t] = "stopCheck" /\ status' = status /\ \E place, u : Goto(t, place, u)
        BY <3>0, <3>1 DEF StopCheck
      <4>2. QED
        BY <2>2, <4>1 DEF Finishing
    <3>2. CASE StopMark(t)
      BY <2>4, <3>2 DEF StopMark
    <3>3. CASE StopDone(t)
      <4>1. /\ pc[t] = "stopDone" /\ SetStatus(cur[t], "STOPPED")
            /\ \E place, u : Goto(t, place, u)
        BY <3>0, <3>3 DEF StopDone
      <4>2. QED
        BY <2>3, <4>1
    <3>4. QED
      BY <2>5, <3>1, <3>2, <3>3 DEF StopStep
  <2>6. ASSUME NEW w \in Workers, StartMark(w) PROVE \E v \in Threads : Finishing(v, s)'
    BY <2>0, <2>4, <2>6 DEF StartMark
  <2>7. ASSUME NEW w \in Workers, StartHealth(w) PROVE \E v \in Threads : Finishing(v, s)'
    <3>1. /\ pc[w] = "health" /\ Goto(w, "idle", NoSession)
          /\ SetStatus(cur[w], "RUNNING") \/ SetStatus(cur[w], "ERROR")
      BY <2>7 DEF StartHealth, Launch, GiveUp
    <3>2. QED
      BY <2>0, <2>3, <3>1
  <2>8. ASSUME NEW w \in Workers,
               \/ Validate(w)
               \/ \E u \in Sessions : StartCheck(w, u) \/ StopCall(w, u)
        PROVE  \E v \in Threads : Finishing(v, s)'
    <3>1. /\ pc[w] = "idle" /\ status' = status
          /\ \E place, u : Goto(w, place, u)
      BY <2>8 DEF Validate, StartCheck, StopCall, Idle
    <3>2. QED
      BY <2>0, <2>2, <3>1 DEF Finishing
  <2>9. ASSUME NEW w \in Workers, NEW u \in Sessions, Insert(w, u)
        PROVE  \E v \in Threads : Finishing(v, s)'
    <3>1. /\ pc[w] = "insert" /\ status' = [status EXCEPT ![u] = "STOPPED"]
          /\ Goto(w, "idle", NoSession)
      BY <2>9 DEF Insert
    <3>2. status'[s] = status[s] /\ ~Finishing(w, s)
      BY <2>0, <3>1 DEF Finishing
    <3>3. QED
      BY <2>0, <2>2, <3>1, <3>2
  <2>10. ASSUME \/ LoopTop \/ LoopArbitrageNothing \/ LoopMarketMaking
                \/ LoopJudge \/ LoopToSweep \/ LoopToRemove \/ LoopToTop
                \/ \E g \in Gains : LoopArbitrageGain(g)
                \/ \E u \in Sessions : LoopVisit(u) \/ LoopRemove(u)
         PROVE  \E v \in Threads : Finishing(v, s)'
    <3>1. /\ pc[Loop] \in {"top", "arbitrage", "market_making", "judge", "each", "sweep", "remove"}
          /\ status' = status
      BY <2>10 DEF LoopTop, LoopArbitrageNothing, LoopMarketMaking, LoopJudge, LoopToSweep,
                   LoopToRemove, LoopToTop, LoopArbitrageGain, EarnInArbitrage, LoopVisit,
                   LoopRemove
    <3>2. \E place, u : Goto(Loop, place, u)
      BY <2>10, Zenon DEF LoopTop, LoopArbitrageNothing, LoopMarketMaking, LoopJudge, LoopToSweep,
                   LoopToRemove, LoopToTop, LoopArbitrageGain, EarnInArbitrage, LoopVisit,
                   LoopRemove, AfterArbitrage
    <3>3. QED
      BY <2>0, <2>2, <3>1, <3>2 DEF Finishing
  <2>11. CASE LoopArbitrageThrows
    <3>1. /\ pc[Loop] = "arbitrage" /\ SetStatus(cur[Loop], "ERROR")
          /\ Goto(Loop, "judge", cur[Loop])
      BY <2>11 DEF LoopArbitrageThrows
    <3>2. status'[s] = status[s] /\ ~Finishing(Loop, s)
      BY <2>0, <3>1 DEF SetStatus, Finishing
    <3>3. QED
      BY <2>0, <2>2, <3>1, <3>2
  <2>12. CASE LoopErase
    <3>1. /\ pc[Loop] = "erase" /\ status' = [status EXCEPT ![cur[Loop]] = "REMOVED"]
          /\ Goto(Loop, "remove", NoSession)
      BY <2>12 DEF LoopErase
    <3>2. status'[s] = status[s] /\ ~Finishing(Loop, s)
      BY <2>0, <3>1 DEF Finishing
    <3>3. QED
      BY <2>0, <2>2, <3>1, <3>2
  <2>13. CASE OwnerClear
    <3>1. /\ pc[Owner] = "stopAll" /\ Goto(Owner, "done", NoSession)
          /\ status'[s] = status[s]
      BY <2>0, <2>13 DEF OwnerClear, Live
    <3>2. QED
      BY <2>0, <2>2, <3>1 DEF Finishing
  <2>14. ASSUME \/ OwnerJoin \/ OwnerStopScheduler \/ OwnerStopEngine
                \/ \E up \in BOOLEAN : OwnerInitialize(up)
                \/ \E u \in Sessions : OwnerStopSession(u)
         PROVE  \E v \in Threads : Finishing(v, s)'
    <3>1. /\ pc[Owner] \in {"join", "serve", "failed", "init", "syncStop", "stopAll"} /\ status' = status
          /\ \E place, u : Goto(Owner, place, u)
      BY <2>14 DEF OwnerJoin, OwnerStopScheduler, OwnerGoesOn, OwnerStopEngine, BeginStop, OwnerInitialize,
                   OwnerStopSession
    <3>2. QED
      BY <2>0, <2>2, <3>1 DEF Finishing
  \* nobody is on the way when the engine is started
  <2>15. CASE OwnerStartEngine
    <3>1. /\ pc[Owner] = "ready" /\ pc[Loop] = "none" /\ UNCHANGED <<status, cur>>
          /\ pc' = [pc EXCEPT ![Owner] = "serve", ![Loop] = "top"]
      BY <2>15 DEF OwnerStartEngine, ControlInv
    <3>2. PICK v \in Threads : Finishing(v, s)
      BY <2>1, <3>1
    <3>3. v # Owner /\ v # Loop
      BY <3>1, <3>2 DEF Finishing
    <3>4. QED
      BY <2>0, <3>1, <3>2, <3>3 DEF Finishing
  <2>16. CASE Hour \/ Terminated \/ UNCHANGED vars
              \/ \E u \in Sessions : LoopSkip(u) \/ LoopSweep(u)
    <3>1. UNCHANGED <<pc, cur, status>>
      BY <2>16 DEF Hour, Terminated, vars, LoopSkip, LoopSweep
    <3>2. QED
      BY <2>1, <3>1 DEF Finishing
  <2>17. QED
    BY <2>0, <2>5, <2>6, <2>7, <2>8, <2>9, <2>10, <2>11, <2>12, <2>13, <2>14, <2>15, <2>16
       DEF Next, LoopStep, OwnerProceeds, OwnerSkipsScheduler, WorkerFinish
<1>3. QED
  BY <1>1, <1>2, TypeCorrect, ControlCorrect, PTL DEF Safety

-----------------------------------------------------------------------------
\* Handlers run only while main() serves.
WorkersInv == \A w \in Workers : pc[w] # "idle" => pc[Owner] = "serve"

LEMMA WorkersCorrect == Safety => []WorkersInv
<1> USE EngineAssumption DEF EngineAssumption, session, history
<1>1. Init => WorkersInv
  BY DEF Init, WorkersInv, Threads
<1>2. TypeOK /\ WorkersInv /\ [Next]_vars => WorkersInv'
  <2> SUFFICES ASSUME TypeOK, WorkersInv, [Next]_vars PROVE WorkersInv'
    OBVIOUS
  <2>0. pc \in [Threads -> WorkerPlaces \cup LoopPlaces \cup OwnerPlaces]
        /\ Loop \in Threads /\ Owner \in Threads /\ Loop # Owner
        /\ Loop \notin Workers /\ Owner \notin Workers /\ Workers \subseteq Threads
    BY DEF TypeOK, Threads
  <2> USE <2>0
  <2>1. ASSUME NEW w \in Workers,
               \/ Validate(w) \/ WorkerFinish(w)
               \/ \E s \in Sessions : StartCheck(w, s) \/ StopCall(w, s)
        PROVE  WorkersInv'
    <3>1. pc[Owner] = "serve"
      BY <2>1 DEF Validate, WorkerFinish, StartMark, StartHealth, Launch, GiveUp, StopStep,
                  StopCheck, StopMark, StopDone, Insert, StartCheck, StopCall, Idle, WorkersInv
    <3>2. pc'[Owner] = pc[Owner]
      BY <2>1 DEF Validate, WorkerFinish, StartMark, StartHealth, Launch, GiveUp, StopStep,
                  StopCheck, StopMark, StopDone, Return, Insert, StartCheck, StopCall, Goto
    <3>3. QED
      BY <3>1, <3>2 DEF WorkersInv
  <2>2. CASE LoopStep
    <3>1. \A t \in Threads \ {Loop} : pc'[t] = pc[t]
      BY <2>2 DEF LoopStep, LoopTop, LoopArbitrageNothing, LoopArbitrageThrows, LoopMarketMaking,
                  LoopJudge, LoopToSweep, LoopToRemove, LoopErase, LoopToTop, StopStep, StopCheck,
                  StopMark, StopDone, Return, LoopArbitrageGain, EarnInArbitrage, AfterArbitrage,
                  LoopSkip, LoopVisit, LoopSweep, LoopRemove, Goto
    <3>2. QED
      BY <3>1 DEF WorkersInv
  <2>3. CASE OwnerProceeds \/ OwnerStopScheduler
    <3>1. pc[Owner] # "serve"
      BY <2>3 DEF OwnerProceeds, OwnerSkipsScheduler, StopStep, StopCheck, StopMark, StopDone, OwnerStartEngine, OwnerJoin,
                  OwnerStopScheduler, OwnerClear, OwnerInitialize, OwnerStopSession
    <3>2. \A w \in Workers : pc'[w] = pc[w]
      BY <2>3 DEF OwnerProceeds, OwnerSkipsScheduler, StopStep, StopCheck, StopMark, StopDone, Return, OwnerStartEngine,
                  OwnerJoin, OwnerStopScheduler, OwnerGoesOn, OwnerClear, OwnerInitialize, OwnerStopSession, Goto
    <3>3. QED
      BY <3>1, <3>2 DEF WorkersInv
  <2>4. CASE OwnerStopEngine
    <3>1. \A w \in Workers : pc'[w] = pc[w] /\ pc[w] = "idle"
      BY <2>4 DEF OwnerStopEngine, BeginStop, Goto
    <3>2. QED
      BY <3>1 DEF WorkersInv
  <2>5. CASE Hour \/ Terminated \/ UNCHANGED vars
    BY <2>5 DEF Hour, Terminated, vars, WorkersInv
  <2>6. QED
    BY <2>1, <2>2, <2>3, <2>4, <2>5 DEF Next
<1>3. QED
  BY <1>1, <1>2, TypeCorrect, PTL DEF Safety

-----------------------------------------------------------------------------
(* Steps as a client sees them. *)

\* A status that is written to a session is seen, or not.
LEMMA StatusSeen ==
  ASSUME TypeOK, NEW s \in Sessions, status[s] # "NONE",
         NEW v \in Statuses \ {"NONE", "REMOVED"}, SetStatus(s, v)
  PROVE  Lifecycle!Become(s, PhaseOf(v))
<1>1. ASSUME NEW u \in Sessions
      PROVE  PhaseOf(status'[u]) = IF u # s \/ PhaseOf(status[u]) = "gone"
                                   THEN PhaseOf(status[u]) ELSE PhaseOf(v)
  BY DEF TypeOK, SetStatus, PhaseOf, Statuses
<1>2. \A u \in Sessions : Phase'[u] = PhaseOf(status'[u]) /\ Phase[u] = PhaseOf(status[u])
  BY DEF Phase
<1>3. Phase' = [u \in Sessions |-> Phase'[u]]
  BY DEF Phase
<1> QED BY <1>1, <1>2, <1>3 DEF Lifecycle!Become, Phase

\* A write that does not start a session ends its run, or changes nothing.
LEMMA HaltSeen ==
  ASSUME TypeOK, NEW s, s \in Sessions => status[s] # "NONE",
         NEW v \in {"STARTING", "STOPPING", "STOPPED", "ERROR"}, SetStatus(s, v)
  PROVE  \/ Phase' = Phase
         \/ s \in Sessions /\ Phase[s] = "running" /\ Lifecycle!Become(s, "idle")
<1>1. CASE s \notin Sessions
  <2>1. status' = status
    BY <1>1 DEF SetStatus, TypeOK
  <2> QED BY <2>1 DEF Phase
<1>2. CASE s \in Sessions
  <2>1. Lifecycle!Become(s, PhaseOf(v)) /\ PhaseOf(v) = "idle"
    BY <1>2, StatusSeen DEF PhaseOf, Statuses
  <2>2. Phase[s] \in {"idle", "running", "gone"}
    BY <1>2 DEF Phase, PhaseOf, TypeOK, Statuses
  <2>3. Phase[s] # "running" => Phase' = Phase
    BY <2>1, <2>2 DEF Lifecycle!Become, Phase
  <2> QED BY <1>2, <2>1, <2>3
<1> QED BY <1>1, <1>2

\* What a client sees of a thread that moves.
LEMMA WorkerSeen ==
  ASSUME TypeOK, NEW w \in Workers, NEW place, NEW u, Goto(w, place, u)
  PROVE  /\ Stage' = Stage /\ Trading' = Trading
         /\ Asked' = [Asked EXCEPT ![w] = IF place \in {"mark", "health"} THEN u ELSE NoSession]
  BY EngineAssumption DEF EngineAssumption, TypeOK, Threads, Goto, Stage, Trading, Asked

LEMMA LoopSeen ==
  ASSUME TypeOK, NEW place, NEW u, Goto(Loop, place, u)
  PROVE  /\ Stage' = Stage /\ Asked' = Asked
         /\ Trading' = IF place = "arbitrage" THEN u ELSE NoSession
  BY EngineAssumption DEF EngineAssumption, TypeOK, Threads, Goto, Stage, Trading, Asked

LEMMA OwnerSeen ==
  ASSUME TypeOK, NEW place, NEW u, Goto(Owner, place, u)
  PROVE  Stage' = EngineOf(place) /\ Asked' = Asked /\ Trading' = Trading
  BY EngineAssumption DEF EngineAssumption, TypeOK, Threads, Goto, Stage, Trading, Asked

\* What a client sees of the sessions.
LEMMA PresentIsLive == ASSUME TypeOK PROVE Lifecycle!Present = Live
  BY DEF Lifecycle!Present, Live, Phase, PhaseOf, TypeOK, Statuses

\* The abstract module counts as this one does.
LEMMA SameCount == ASSUME NEW S PROVE Lifecycle!Cardinality(S) = Cardinality(S)
  BY DEF Lifecycle!Cardinality, Cardinality

\* What no step of a handler changes but the two that create and start.
Untouched == UNCHANGED <<Target, launched, over, profit>>

\* A write that does not start a session, by a thread that asks and answers
\* nothing with it.
LEMMA WriteSeen ==
  ASSUME TypeOK, SeenInv, NEW t \in Threads, Untouched,
         UNCHANGED <<Stage, Asked, Trading>>,
         NEW v \in {"STARTING", "STOPPING", "STOPPED", "ERROR"}, SetStatus(cur[t], v)
  PROVE  Lifecycle!Next \/ UNCHANGED Lifecycle!lifecycleVars
<1>1. cur[t] \in Sessions => status[cur[t]] # "NONE"
  BY DEF SeenInv
<1>2. CASE Phase' = Phase
  BY <1>2 DEF Lifecycle!lifecycleVars, Untouched
<1>3. CASE cur[t] \in Sessions /\ Phase[cur[t]] = "running" /\ Lifecycle!Become(cur[t], "idle")
  <2>1. Lifecycle!Halt(cur[t])
    BY <1>3 DEF Lifecycle!Halt, Untouched
  <2> QED BY <1>3, <2>1 DEF Lifecycle!Next
<1> QED BY <1>1, <1>2, <1>3, HaltSeen

\* A step of stop_trading_session, whoever makes it.
LEMMA StopSeen ==
  ASSUME TypeOK, SeenInv, NEW t \in Threads, StopStep(t),
         t = Loop => pc[Loop] \in LoopPlaces
  PROVE  Lifecycle!Next \/ UNCHANGED Lifecycle!lifecycleVars
<1> USE EngineAssumption DEF EngineAssumption
<1>1. Untouched
  BY DEF StopStep, StopCheck, StopMark, StopDone, Untouched, Target, session, history
<1>2. pc[t] \in StopPlaces
  BY DEF StopStep, StopCheck, StopMark, StopDone, StopPlaces
<1>3. \E place, u : /\ Goto(t, place, u)
                    /\ place \in StopPlaces \cup (IF t = Loop THEN {"each", "erase"}
                                                  ELSE IF t = Owner THEN {"stopAll"} ELSE {"idle"})
  BY DEF StopStep, StopCheck, StopMark, StopDone, Return, StopPlaces
<1>4. UNCHANGED <<Stage, Asked, Trading>>
  <2>1. PICK place, u : /\ Goto(t, place, u)
                        /\ place \in StopPlaces \cup (IF t = Loop THEN {"each", "erase"}
                                                      ELSE IF t = Owner THEN {"stopAll"} ELSE {"idle"})
    BY <1>3
  <2>2. CASE t \in Workers
    <3>1. place \notin {"mark", "health"} /\ pc[t] \notin {"mark", "health"}
      BY <1>2, <2>1, <2>2 DEF StopPlaces
    <3>2. Asked[t] = NoSession /\ Asked = [Asked EXCEPT ![t] = Asked[t]]
      BY <2>2, <3>1 DEF Asked
    <3> QED BY <2>1, <2>2, <3>1, <3>2, WorkerSeen
  <2>3. CASE t = Loop
    <3>1. place # "arbitrage" /\ Trading = NoSession
      BY <1>2, <2>1, <2>3 DEF StopPlaces, Trading
    <3> QED BY <2>1, <2>3, <3>1, LoopSeen
  <2>4. CASE t = Owner
    <3>1. EngineOf(place) = "ending" /\ Stage = "ending"
      BY <1>2, <2>1, <2>4 DEF StopPlaces, Stage, EngineOf
    <3> QED BY <2>1, <2>4, <3>1, OwnerSeen
  <2> QED BY <2>2, <2>3, <2>4 DEF Threads
<1>5. CASE UNCHANGED status
  <2>1. Phase' = Phase
    BY <1>5 DEF Phase
  <2> QED BY <1>1, <1>4, <2>1 DEF Untouched, Lifecycle!lifecycleVars
<1>6. CASE StopMark(t) \/ StopDone(t)
  BY <1>1, <1>4, <1>6, WriteSeen DEF StopMark, StopDone
<1> QED BY <1>5, <1>6 DEF StopStep, StopCheck, session

\* The other steps of the handlers.
LEMMA WorkerStepSeen ==
  ASSUME TypeOK, SeenInv, WorkersInv, SessionLimit, NEW w \in Workers,
         \/ Validate(w) \/ StartMark(w) \/ StartHealth(w)
         \/ \E s \in Sessions : Insert(w, s) \/ StartCheck(w, s) \/ StopCall(w, s)
  PROVE  Lifecycle!Next \/ UNCHANGED Lifecycle!lifecycleVars
<1> USE EngineAssumption DEF EngineAssumption
<1>0. w \in Threads /\ cur[w] \in Sessions \cup {NoSession}
  BY DEF TypeOK, Threads
<1>a. ASSUME pc[w] \notin {"mark", "health"}
      PROVE  Asked[w] = NoSession /\ Asked = [Asked EXCEPT ![w] = NoSession]
  BY <1>a DEF Asked
<1>b. ASSUME pc[w] \in {"mark", "health"} PROVE Asked[w] = cur[w]
  BY <1>b DEF Asked
<1>c. ASSUME pc[w] # "idle" PROVE Stage = "serving"
  BY <1>c DEF WorkersInv, Stage, EngineOf
<1>1. CASE Validate(w) \/ \E s \in Sessions : StopCall(w, s)
  <2>1. UNCHANGED <<Phase, Target, launched, over, profit>>
    BY <1>1 DEF Validate, StopCall, Phase, Target, session, history
  <2>2. pc[w] = "idle" /\ \E place, u : Goto(w, place, u) /\ place \notin {"mark", "health"}
    BY <1>1 DEF Validate, StopCall, Idle
  <2>3. UNCHANGED <<Stage, Asked, Trading>>
    BY <1>a, <2>2, WorkerSeen
  <2> QED BY <2>1, <2>3 DEF Lifecycle!lifecycleVars
<1>2. ASSUME NEW s \in Sessions, Insert(w, s) PROVE Lifecycle!Next
  <2>1. pc[w] = "insert" /\ Goto(w, "idle", NoSession) /\ Untouched
    BY <1>2 DEF Insert, Untouched, Target, history
  <2>2. UNCHANGED <<Stage, Asked, Trading>>
    BY <1>a, <2>1, WorkerSeen
  <2>3. Phase[s] = "none" /\ Phase' = [Phase EXCEPT ![s] = "idle"]
    BY <1>2 DEF Insert, TypeOK, Phase, PhaseOf
  <2>4. Lifecycle!Become(s, "idle")
    BY <2>3 DEF Lifecycle!Become, Phase
  <2>5. Cardinality(Live) < MaxSessions + Cardinality(Workers) - 1
    <3>1. Inserting \subseteq Workers /\ w \in Inserting /\ Live \subseteq Sessions
      BY <2>1 DEF Inserting, Live
    <3>2. IsFiniteSet(Inserting) /\ IsFiniteSet(Live)
      BY <3>1, FS_Subset
    <3>3. /\ Cardinality(Inserting) \in Nat /\ Cardinality(Live) \in Nat
          /\ Cardinality(Workers) \in Nat /\ Cardinality(Inserting) # 0
      BY <3>1, <3>2, FS_CardinalityType, FS_EmptySet
    <3> QED BY <3>3 DEF SessionLimit
  <2>6. /\ Stage = "serving" /\ UNCHANGED <<Stage, Target, Asked, launched, over, Trading, profit>>
        /\ Lifecycle!Cardinality(Lifecycle!Present) < MaxSessions + Cardinality(Workers) - 1
    BY <1>c, <2>1, <2>2, <2>5, PresentIsLive, SameCount DEF Untouched
  <2>7. Lifecycle!Create(s)
    BY <2>3, <2>4, <2>6 DEF Lifecycle!Create
  <2> QED BY <2>7 DEF Lifecycle!Next
<1>3. ASSUME NEW s \in Sessions, StartCheck(w, s) PROVE Lifecycle!Next
  <2>1. /\ pc[w] = "idle" /\ Goto(w, "mark", s)
        /\ UNCHANGED <<Phase, Target, launched, over, profit>>
    BY <1>3 DEF StartCheck, Idle, Phase, Target, session, history
  <2>2. UNCHANGED <<Stage, Trading>> /\ Asked' = [Asked EXCEPT ![w] = s]
    BY <2>1, WorkerSeen
  <2>3. Stage = "serving"
    BY <1>3 DEF StartCheck, Idle, Stage, EngineOf
  <2>4. Phase[s] = "idle"
    BY <1>3 DEF StartCheck, Live, Phase, PhaseOf
  <2>5. Lifecycle!Ask(w, s)
    BY <1>a, <2>1, <2>2, <2>3, <2>4 DEF Lifecycle!Ask
  <2> QED BY <2>5 DEF Lifecycle!Next
<1>4. CASE StartMark(w)
  <2>1. /\ pc[w] = "mark" /\ Goto(w, "health", cur[w]) /\ Untouched
        /\ SetStatus(cur[w], "STARTING")
    BY <1>4 DEF StartMark, Untouched, Target, history
  <2>2. Asked = [Asked EXCEPT ![w] = cur[w]]
    BY <2>1 DEF Asked
  <2>3. UNCHANGED <<Stage, Asked, Trading>>
    BY <2>1, <2>2, WorkerSeen
  <2> QED BY <1>0, <2>1, <2>3, WriteSeen
<1>5. CASE StartHealth(w)
  <2>1. /\ pc[w] = "health" /\ Goto(w, "idle", NoSession)
        /\ UNCHANGED <<Target, over, profit>>
    BY <1>5 DEF StartHealth, Launch, GiveUp, Target, history
  <2>2. /\ UNCHANGED <<Stage, Trading>> /\ Asked[w] = cur[w] /\ Stage = "serving"
        /\ Asked' = [Asked EXCEPT ![w] = NoSession]
    BY <1>b, <1>c, <2>1, WorkerSeen
  <2>3. CASE cur[w] \notin Sessions
    <3>1. status' = status /\ launched' = launched
      BY <1>5, <2>3 DEF StartHealth, Launch, GiveUp, SetStatus, TypeOK, history
    <3>2. Asked' = Asked
      BY <1>0, <2>2, <2>3 DEF Asked
    <3>3. Phase' = Phase
      BY <3>1 DEF Phase
    <3> QED BY <2>1, <2>2, <3>1, <3>2, <3>3 DEF Lifecycle!lifecycleVars
  <2>4. CASE cur[w] \in Sessions
    <3>1. status[cur[w]] # "NONE" /\ Asked[w] # NoSession
      BY <1>0, <2>2, <2>4 DEF SeenInv
    <3>2. CASE Launch(w)
      <4>1. SetStatus(cur[w], "RUNNING") /\ launched' = [launched EXCEPT ![cur[w]] = @ + 1]
        BY <3>2 DEF Launch
      <4>2. Lifecycle!Become(cur[w], "running")
        BY <2>4, <3>1, <4>1, StatusSeen DEF PhaseOf, Statuses
      <4>3. Lifecycle!Start(w)
        BY <2>1, <2>2, <3>1, <4>1, <4>2 DEF Lifecycle!Start, Lifecycle!Answer
      <4> QED BY <4>3 DEF Lifecycle!Next
    <3>3. CASE GiveUp(w) /\ SetStatus(cur[w], "ERROR")
      <4>1. launched' = launched
        BY <3>3 DEF GiveUp, history
      <4>2. Lifecycle!Become(cur[w], "idle")
        BY <2>4, <3>1, <3>3, StatusSeen DEF PhaseOf, Statuses
      <4>3. Lifecycle!Refuse(w)
        BY <2>1, <2>2, <3>1, <4>1, <4>2 DEF Lifecycle!Refuse, Lifecycle!Answer
      <4> QED BY <4>3 DEF Lifecycle!Next
    <3> QED BY <1>5, <3>2, <3>3 DEF StartHealth
  <2> QED BY <2>3, <2>4
<1> QED BY <1>1, <1>2, <1>3, <1>4, <1>5

\* The loop.
LEMMA LoopStepSeen ==
  ASSUME TypeOK, ControlInv, SeenInv, OvershootPaid, OvershootPaid', LoopNeverDangles,
         LoopStep
  PROVE  Lifecycle!Next \/ UNCHANGED Lifecycle!lifecycleVars
<1> USE EngineAssumption DEF EngineAssumption
<1> DEFINE here == cur[Loop]
<1>0. /\ Loop \in Threads /\ here \in Sessions \cup {NoSession}
      /\ here # NoSession => here \in Live
  BY DEF TypeOK, Threads, LoopNeverDangles
<1>1. ASSUME pc[Loop] # "none", pc[Loop] # "exited" PROVE Stage \in {"serving", "ending"}
  BY <1>1 DEF ControlInv, Stage, EngineOf
<1>2. CASE \/ LoopTop \/ LoopMarketMaking \/ LoopJudge \/ LoopToSweep \/ LoopToRemove \/ LoopToTop
           \/ \E s \in Sessions : LoopRemove(s)
  <2>1. UNCHANGED <<Phase, Target, launched, over, profit>>
    BY <1>2 DEF LoopTop, LoopMarketMaking, LoopJudge, LoopToSweep, LoopToRemove, LoopToTop,
                LoopRemove, Phase, Target, session, history
  <2>2. pc[Loop] # "arbitrage" /\ \E place, u : Goto(Loop, place, u) /\ place # "arbitrage"
    <3>1. CASE LoopTop \/ LoopToSweep \/ LoopToRemove \/ LoopToTop
      BY <3>1 DEF LoopTop, LoopToSweep, LoopToRemove, LoopToTop
    <3>2. CASE LoopMarketMaking \/ LoopJudge
      <4>1. /\ pc[Loop] \in {"market_making", "judge"}
            /\ \/ Goto(Loop, "judge", here) \/ Goto(Loop, "stopCheck", here)
               \/ Goto(Loop, "each", NoSession)
        BY <3>2 DEF LoopMarketMaking, LoopJudge
      <4> QED BY <4>1
    <3>3. CASE \E s \in Sessions : LoopRemove(s)
      BY <3>3 DEF LoopRemove
    <3> QED BY <1>2, <3>1, <3>2, <3>3
  <2>3. UNCHANGED <<Stage, Asked, Trading>>
    BY <2>2, LoopSeen DEF Trading
  <2> QED BY <2>1, <2>3 DEF Lifecycle!lifecycleVars
<1>3. CASE \E s \in Sessions : LoopSkip(s) \/ LoopSweep(s)
  <2>1. UNCHANGED <<status, request, pc, cur, launched, over, profit>>
    BY <1>3 DEF LoopSkip, LoopSweep, session, history
  <2> QED BY <2>1 DEF Lifecycle!lifecycleVars, Phase, Target, Stage, Asked, Trading
<1>4. ASSUME NEW s \in Sessions, LoopVisit(s) PROVE Lifecycle!Next
  <2>1. /\ pc[Loop] = "each" /\ UNCHANGED <<Phase, Target, launched, profit>>
        /\ \E place \in {"arbitrage", "market_making"} : Goto(Loop, place, s)
    BY <1>4 DEF LoopVisit, Phase, Target, session
  <2>2. UNCHANGED <<Stage, Asked>> /\ Trading = NoSession /\ Trading' \in {s, NoSession}
    BY <2>1, LoopSeen DEF Trading
  <2>3. Phase[s] = "running" /\ Stage \in {"serving", "ending"}
    BY <1>1, <1>4, <2>1 DEF LoopVisit, Phase, PhaseOf
  <2>4. IF profit[s] < Target[s] THEN UNCHANGED over
        ELSE over[s] < Lifecycle!Spare(s) /\ over' = [over EXCEPT ![s] = @ + 1]
    <3>1. /\ Target[s] = request[s].tp /\ request[s].tp \in Int /\ profit[s] \in Nat
          /\ over[s] \in Nat /\ launched[s] \in Nat /\ Reaching(s) \in Nat
      BY DEF Target, TypeOK, Reaching
    <3>2. Lifecycle!Spare(s) = launched[s] - Reaching(s)
      BY <3>1 DEF Lifecycle!Spare, Reaching
    <3>3. CASE Past(s)
      <4>1. Past(s)' /\ Reaching(s)' = Reaching(s) /\ launched'[s] = launched[s]
        BY <1>4, <3>3 DEF LoopVisit, Past, Reaching, session
      <4>2. /\ over[s] + Reaching(s) <= launched[s]
            /\ over'[s] + Reaching(s) <= launched[s]
        BY <3>3, <4>1 DEF OvershootPaid
      <4>3. over[s] <= launched[s]
        BY <3>1, <4>2
      <4>4. over' = [over EXCEPT ![s] = @ + 1]
        BY <1>4, <3>3, <4>3 DEF LoopVisit
      <4>5. over'[s] = over[s] + 1
        BY <4>4 DEF TypeOK
      <4>6. over[s] < Lifecycle!Spare(s)
        BY <3>1, <3>2, <4>2, <4>5
      <4> QED BY <3>1, <3>3, <4>4, <4>6 DEF Past
    <3>4. CASE ~Past(s)
      <4>1. UNCHANGED over
        BY <1>4, <3>4 DEF LoopVisit
      <4> QED BY <3>1, <3>4, <4>1 DEF Past
    <3> QED BY <3>3, <3>4
  <2>5. Lifecycle!Execute(s)
    BY <2>1, <2>2, <2>3, <2>4 DEF Lifecycle!Execute
  <2> QED BY <2>5 DEF Lifecycle!Next
<1>5. ASSUME \/ LoopArbitrageNothing \/ LoopArbitrageThrows
             \/ \E g \in Gains : LoopArbitrageGain(g)
      PROVE  Lifecycle!Next \/ UNCHANGED Lifecycle!lifecycleVars
  <2>1. /\ pc[Loop] = "arbitrage" /\ UNCHANGED <<Target, launched, over>>
        /\ \E place, u : Goto(Loop, place, u) /\ place # "arbitrage"
    <3>1. pc[Loop] = "arbitrage" /\ UNCHANGED <<Target, launched, over>>
      BY <1>5 DEF LoopArbitrageNothing, LoopArbitrageThrows, LoopArbitrageGain, EarnInArbitrage,
                  Target, session, history
    <3>2. \E place, u : Goto(Loop, place, u) /\ place # "arbitrage"
      <4>1. AfterArbitrage(here) \/ Goto(Loop, "judge", here)
        BY <1>5 DEF LoopArbitrageNothing, LoopArbitrageThrows, LoopArbitrageGain, EarnInArbitrage
      <4>2. Goto(Loop, "market_making", here) \/ Goto(Loop, "judge", here)
        BY <4>1, Zenon DEF AfterArbitrage
      <4> QED BY <4>2
    <3> QED BY <3>1, <3>2
  <2>2. UNCHANGED <<Stage, Asked>> /\ Trading = here /\ Trading' = NoSession
    BY <2>1, LoopSeen DEF Trading
  <2>3. CASE here \notin Sessions
    <3>1. UNCHANGED <<status, profit>>
      <4>1. CASE LoopArbitrageNothing
        BY <4>1 DEF LoopArbitrageNothing, session
      <4>2. CASE LoopArbitrageThrows
        BY <2>3, <4>2 DEF LoopArbitrageThrows, SetStatus, TypeOK
      <4>3. ASSUME NEW g \in Gains, LoopArbitrageGain(g) PROVE UNCHANGED <<status, profit>>
        BY <2>3, <4>3 DEF LoopArbitrageGain, EarnInArbitrage, TypeOK
      <4> QED BY <1>5, <4>1, <4>2, <4>3
    <3>2. Phase' = Phase
      BY <3>1 DEF Phase
    <3> QED BY <1>0, <2>1, <2>2, <2>3, <3>1, <3>2 DEF Lifecycle!lifecycleVars
  <2>4. CASE here \in Sessions
    <3>1. Trading # NoSession
      BY <2>2, <2>4
    <3>2. CASE LoopArbitrageNothing
      <4>1. UNCHANGED <<Phase, profit>>
        BY <3>2 DEF LoopArbitrageNothing, session, Phase
      <4>2. Lifecycle!NoGain
        BY <2>1, <2>2, <3>1, <4>1 DEF Lifecycle!NoGain
      <4> QED BY <4>2 DEF Lifecycle!Next
    <3>3. CASE LoopArbitrageThrows
      <4>1. UNCHANGED profit /\ SetStatus(here, "ERROR") /\ status[here] # "NONE"
        BY <1>0, <2>4, <3>3 DEF LoopArbitrageThrows, SeenInv
      <4>2. Lifecycle!Become(Trading, "idle")
        BY <2>2, <2>4, <4>1, StatusSeen DEF PhaseOf, Statuses
      <4>3. Lifecycle!NoGain
        BY <2>1, <2>2, <3>1, <4>1, <4>2 DEF Lifecycle!NoGain
      <4> QED BY <4>3 DEF Lifecycle!Next
    <3>4. ASSUME NEW g \in Gains, LoopArbitrageGain(g) PROVE Lifecycle!Next
      <4>1. UNCHANGED Phase /\ profit' = [profit EXCEPT ![Trading] = @ + g]
        BY <2>2, <3>4 DEF LoopArbitrageGain, EarnInArbitrage, Phase
      <4>2. Lifecycle!Earn(g)
        BY <2>1, <2>2, <3>1, <4>1 DEF Lifecycle!Earn
      <4> QED BY <4>2 DEF Lifecycle!Next
    <3> QED BY <1>5, <3>2, <3>3, <3>4
  <2> QED BY <2>3, <2>4
<1>6. CASE LoopErase
  <2>1. /\ pc[Loop] = "erase" /\ Goto(Loop, "remove", NoSession)
        /\ status' = [status EXCEPT ![here] = "REMOVED"] /\ Untouched
    BY <1>6 DEF LoopErase, Untouched, Target, history
  <2>2. UNCHANGED <<Stage, Asked, Trading>> /\ Trading = NoSession
    BY <2>1, LoopSeen DEF Trading
  <2>3. CASE here = NoSession
    <3>1. Phase' = Phase
      BY <2>1, <2>3 DEF Phase, TypeOK
    <3> QED BY <2>1, <2>2, <3>1 DEF Lifecycle!lifecycleVars, Untouched
  <2>4. CASE here \in Live
    <3>1. here \in Sessions /\ Trading # here
      BY <2>2, <2>4 DEF Live
    <3>2. Phase' = [Phase EXCEPT ![here] = "gone"]
      BY <2>1, <3>1 DEF Phase, PhaseOf, TypeOK
    <3>3. Lifecycle!Become(here, "gone")
      BY <3>1, <3>2 DEF Lifecycle!Become, Phase
    <3>4. Lifecycle!Remove(here)
      BY <1>1, <2>1, <2>2, <2>4, <3>1, <3>3, PresentIsLive DEF Lifecycle!Remove, Untouched
    <3> QED BY <3>1, <3>4 DEF Lifecycle!Next
  <2> QED BY <1>0, <2>3, <2>4
<1>7. CASE StopStep(Loop)
  BY <1>0, <1>7, StopSeen DEF ControlInv
<1> QED BY <1>2, <1>3, <1>4, <1>5, <1>6, <1>7 DEF LoopStep

\* main().
LEMMA OwnerStepSeen ==
  ASSUME TypeOK, ControlInv, SeenInv, OwnerProceeds \/ OwnerStopEngine \/ OwnerStopScheduler
  PROVE  Lifecycle!Next \/ UNCHANGED Lifecycle!lifecycleVars
<1> USE EngineAssumption DEF EngineAssumption
<1>0. Owner \in Threads /\ Loop \in Threads /\ Owner # Loop /\ pc[Loop] \in LoopPlaces
  BY DEF Threads, ControlInv
<1>1. CASE OwnerJoin \/ OwnerStopScheduler \/ (\E up \in BOOLEAN : OwnerInitialize(up))
           \/ \E s \in Sessions : OwnerStopSession(s)
  <2>1. UNCHANGED <<Phase, Target, launched, over, profit>>
    BY <1>1 DEF OwnerJoin, OwnerStopScheduler, OwnerGoesOn, OwnerInitialize, OwnerStopSession, Phase, Target, session,
                history
  <2>2. \E place, u : Goto(Owner, place, u) /\ EngineOf(place) = Stage
    <3>1. CASE OwnerJoin \/ OwnerStopScheduler \/ \E s \in Sessions : OwnerStopSession(s)
      BY <3>1 DEF OwnerJoin, OwnerStopScheduler, OwnerGoesOn, OwnerStopSession, Stage, EngineOf
    <3>2. CASE \E up \in BOOLEAN : OwnerInitialize(up)
      <4>1. pc[Owner] = "init" /\ \E place \in {"ready", "failed"} : Goto(Owner, place, NoSession)
        BY <3>2 DEF OwnerInitialize
      <4> QED BY <4>1 DEF Stage, EngineOf
    <3> QED BY <1>1, <3>1, <3>2
  <2>3. UNCHANGED <<Stage, Asked, Trading>>
    BY <2>2, OwnerSeen
  <2> QED BY <2>1, <2>3 DEF Lifecycle!lifecycleVars
<1>2. CASE OwnerStartEngine
  <2>1. /\ pc[Owner] = "ready" /\ pc' = [pc EXCEPT ![Owner] = "serve", ![Loop] = "top"]
        /\ UNCHANGED <<Phase, Target, cur, launched, over, profit>>
    BY <1>2 DEF OwnerStartEngine, Phase, Target, session, history
  <2>2. /\ pc'[Owner] = "serve" /\ pc'[Loop] = "top" /\ pc[Loop] = "none"
        /\ \A w \in Workers : pc'[w] = pc[w]
    <3>1. pc'[Owner] = "serve" /\ pc'[Loop] = "top" /\ \A w \in Workers : pc'[w] = pc[w]
      BY <1>0, <2>1 DEF TypeOK, Threads
    <3>2. pc[Loop] = "none"
      BY <2>1 DEF ControlInv
    <3> QED BY <3>1, <3>2
  <2>3. /\ Stage = "off" /\ Stage' = "serving" /\ UNCHANGED <<Asked, Trading>>
    BY <2>1, <2>2 DEF Stage, EngineOf, Asked, Trading
  <2>4. Lifecycle!Serve
    BY <2>1, <2>3 DEF Lifecycle!Serve
  <2> QED BY <2>4 DEF Lifecycle!Next
<1>3. CASE OwnerStopEngine
  <2>1. /\ pc[Owner] \in {"serve", "failed"} /\ \A w \in Workers : pc[w] = "idle"
        /\ Goto(Owner, "join", NoSession)
        /\ UNCHANGED <<Phase, Target, launched, over, profit>>
    BY <1>3 DEF OwnerStopEngine, BeginStop, Phase, Target, session, history
  <2>2. Stage \in {"off", "serving"} /\ Stage' = "ending" /\ UNCHANGED <<Asked, Trading>>
    BY <2>1, OwnerSeen DEF Stage, EngineOf
  <2>3. Lifecycle!NobodyWaits
    BY <2>1 DEF Lifecycle!NobodyWaits, Asked
  <2>4. Lifecycle!End
    BY <2>1, <2>2, <2>3 DEF Lifecycle!End
  <2> QED BY <2>4 DEF Lifecycle!Next
<1>4. CASE OwnerClear
  <2>1. /\ pc[Owner] = "stopAll" /\ Goto(Owner, "done", NoSession) /\ Untouched
        /\ status' = [s \in Sessions |-> IF s \in Live THEN "REMOVED" ELSE status[s]]
    BY <1>4 DEF OwnerClear, Untouched, Target, history
  <2>2. /\ Stage = "ending" /\ Stage' = "over" /\ Trading = NoSession
        /\ UNCHANGED <<Asked, Trading>>
    BY <2>1, OwnerSeen DEF Stage, EngineOf, Trading, ControlInv
  <2>3. Phase' = [s \in Sessions |-> IF s \in Live THEN "gone" ELSE Phase[s]]
    BY <2>1 DEF Phase, PhaseOf
  <2>4. Lifecycle!Over
    BY <2>1, <2>2, <2>3, PresentIsLive DEF Lifecycle!Over, Untouched
  <2> QED BY <2>4 DEF Lifecycle!Next
<1>5. CASE StopStep(Owner)
  BY <1>0, <1>5, StopSeen
<1> QED BY <1>1, <1>2, <1>3, <1>4, <1>5 DEF OwnerProceeds, OwnerSkipsScheduler

\* Every step.
LEMMA StepSeen ==
  ASSUME TypeOK, ControlInv, SeenInv, WorkersInv, SessionLimit, LoopNeverDangles,
         OvershootPaid, OvershootPaid', [Next]_vars
  PROVE  Lifecycle!Next \/ UNCHANGED Lifecycle!lifecycleVars
<1>1. ASSUME NEW w \in Workers, StopStep(w)
      PROVE  Lifecycle!Next \/ UNCHANGED Lifecycle!lifecycleVars
  BY <1>1, StopSeen, EngineAssumption DEF EngineAssumption, Threads
<1>2. CASE Hour \/ Terminated \/ UNCHANGED vars
  BY <1>2 DEF Hour, Terminated, vars, session, history, Lifecycle!lifecycleVars,
              Stage, Phase, Target, Asked, Trading
<1> QED BY <1>1, <1>2, WorkerStepSeen, LoopStepSeen, OwnerStepSeen DEF Next, WorkerFinish

\* The manager, with no lock between its handlers, its loop and main(),
\* implements SessionLifecycle: no session is run unasked or after it is gone,
\* its target is overshot once for each start at most, the sessions stay
\* within the limit, and nothing runs or earns once shutdown() has returned.
THEOREM ImplementsLifecycleCorrect == Safety => ImplementsLifecycle
<1>1. Init => Lifecycle!Init
  <2> SUFFICES ASSUME Init PROVE Lifecycle!Init
    OBVIOUS
  <2>1. pc[Owner] = "init" /\ pc[Loop] = "none" /\ \A w \in Workers : pc[w] = "idle"
    BY EngineAssumption DEF EngineAssumption, Init, Threads
  <2>2. Stage = "off" /\ Trading = NoSession /\ Asked = [w \in Workers |-> NoSession]
    BY <2>1 DEF Stage, EngineOf, Trading, Asked
  <2>3. Phase = [s \in Sessions |-> "none"]
    BY DEF Init, Phase, PhaseOf
  <2>4. Target \in [Sessions -> Int]
    BY EngineAssumption DEF EngineAssumption, Init, Target
  <2> QED BY <2>2, <2>3, <2>4 DEF Init, Lifecycle!Init
<1>2. /\ TypeOK /\ ControlInv /\ SeenInv /\ WorkersInv
      /\ SessionLimit /\ LoopNeverDangles /\ OvershootPaid /\ OvershootPaid'
      /\ [Next]_vars
      => [Lifecycle!Next]_(Lifecycle!lifecycleVars)
  BY StepSeen
<1>3. QED
  BY <1>1, <1>2, TypeCorrect, ControlCorrect, SeenCorrect, WorkersCorrect, SessionLimitCorrect,
     LoopNeverDanglesCorrect, OvershootPaidCorrect, PTL
     DEF Safety, ImplementsLifecycle, Lifecycle!Safety

-----------------------------------------------------------------------------
(* What a client may earn, from the life of its session. *)

Goal(s) == IF request[s].tp > 0 THEN request[s].tp ELSE 0

\* Where no execution earns more than most, each start of a session brings at
\* most one execution's earnings beyond its target.
ProfitBounded(most) == \A s \in Sessions : profit[s] <= Goal(s) + most * launched[s]

\* With what is still to come counted in, and the executions instead of the starts.
BoundInv(most) ==
  \A s \in Sessions : profit[s] + (IF Trading = s THEN most ELSE 0)
                        <= Goal(s) + most * (over[s] + Reaching(s))

LEMMA ProductGrows ==
  ASSUME NEW n \in Nat, NEW a \in Nat, NEW b \in Nat, a <= b
  PROVE  n * a \in Nat /\ n * b \in Nat /\ n * a <= n * b /\ n * (a + 1) = n * a + n
<1>1. PICK d \in Nat : b = a + d
  <2>1. b - a \in Nat /\ b = a + (b - a)
    OBVIOUS
  <2> QED BY <2>1
<1>2. n * b = n * a + n * d /\ n * d \in Nat /\ n * a \in Nat
  BY <1>1
<1> QED BY <1>2

\* A session never earns more than its target and, for each time it was
\* started, one execution: the check of the target comes after an execution
\* (:429), and a client may start the session again before it.
THEOREM ProfitBoundedCorrect ==
  ASSUME NEW most \in Nat, \A g \in Gains : g <= most
  PROVE  Safety => []ProfitBounded(most)
<1> USE EngineAssumption DEF EngineAssumption
<1>0. ASSUME TypeOK, NEW s \in Sessions
      PROVE  /\ Goal(s) \in Nat /\ Reaching(s) \in Nat
             /\ profit[s] \in Nat /\ over[s] \in Nat /\ launched[s] \in Nat
             /\ Target[s] = request[s].tp /\ request[s].tp \in Int
  BY <1>0 DEF TypeOK, Goal, Reaching, Target
<1>1. TypeOK /\ Init => BoundInv(most)
  <2> SUFFICES ASSUME TypeOK, Init PROVE BoundInv(most)
    OBVIOUS
  <2>1. ASSUME NEW s \in Sessions
        PROVE  profit[s] + (IF Trading = s THEN most ELSE 0)
                 <= Goal(s) + most * (over[s] + Reaching(s))
    <3>1. Trading # s /\ profit[s] = 0 /\ over[s] = 0
      BY DEF Init, Trading, Threads
    <3>2. most * (over[s] + Reaching(s)) \in Nat
      BY <1>0, <3>1, ProductGrows
    <3> QED BY <1>0, <3>1, <3>2
  <2> QED BY <2>1 DEF BoundInv
<1>2. /\ TypeOK /\ TypeOK' /\ BoundInv(most)
      /\ [Lifecycle!Next]_(Lifecycle!lifecycleVars)
      => BoundInv(most)'
  <2> SUFFICES ASSUME TypeOK, TypeOK', BoundInv(most),
                      Lifecycle!Next \/ UNCHANGED Lifecycle!lifecycleVars
               PROVE  BoundInv(most)'
    OBVIOUS
  <2>1. Target' = Target
    BY DEF Lifecycle!Next, Lifecycle!lifecycleVars, Lifecycle!Serve, Lifecycle!End, Lifecycle!Over,
           Lifecycle!NoGain, Lifecycle!Create, Lifecycle!Halt, Lifecycle!Execute, Lifecycle!Remove,
           Lifecycle!Start, Lifecycle!Refuse, Lifecycle!Answer, Lifecycle!Ask, Lifecycle!Earn
  <2>2. ASSUME NEW s \in Sessions
        PROVE  /\ Goal(s)' = Goal(s) /\ Reaching(s)' = Reaching(s)
               /\ most * (over[s] + Reaching(s)) \in Nat
               /\ most * (over[s] + 1 + Reaching(s)) = most * (over[s] + Reaching(s)) + most
    <3>1. request'[s].tp = request[s].tp
      BY <1>0, <2>1 DEF Target
    <3>2. over[s] + Reaching(s) \in Nat /\ over[s] + 1 + Reaching(s) = over[s] + Reaching(s) + 1
      BY <1>0
    <3> QED BY <3>1, <3>2, ProductGrows DEF Goal, Reaching
  \* it suffices to look at one session
  <2>3. SUFFICES ASSUME NEW s \in Sessions
                 PROVE  profit'[s] + (IF Trading' = s THEN most ELSE 0)
                          <= Goal(s) + most * (over'[s] + Reaching(s))
    BY <2>2 DEF BoundInv
  <2>4. profit[s] + (IF Trading = s THEN most ELSE 0) <= Goal(s) + most * (over[s] + Reaching(s))
    BY DEF BoundInv
  <2>5. CASE profit'[s] = profit[s] /\ over'[s] = over[s] /\ (Trading' = s => Trading = s)
    BY <1>0, <2>2, <2>4, <2>5
  <2>6. ASSUME NEW u \in Sessions, Lifecycle!Execute(u)
        PROVE  profit'[s] + (IF Trading' = s THEN most ELSE 0)
                 <= Goal(s) + most * (over'[s] + Reaching(s))
    <3>1. /\ profit' = profit /\ Trading = NoSession /\ Trading' \in {u, NoSession}
          /\ IF profit[u] < Target[u] THEN over' = over ELSE over' = [over EXCEPT ![u] = @ + 1]
      BY <2>6 DEF Lifecycle!Execute
    <3>2. CASE s # u
      <4>1. Trading' # s
        BY <3>1, <3>2
      <4>2. over'[s] = over[s]
        BY <3>1, <3>2 DEF TypeOK
      <4>3. profit'[s] = profit[s]
        BY <3>1
      <4> QED BY <2>5, <4>1, <4>2, <4>3
    <3>3. CASE s = u /\ profit[s] < Target[s]
      <4>1. over'[s] = over[s] /\ profit'[s] = profit[s] /\ profit[s] < request[s].tp
        BY <1>0, <3>1, <3>3
      <4>2. Goal(s) = request[s].tp /\ Reaching(s) = 1
        BY <1>0, <4>1 DEF Goal, Reaching
      <4>3. most * (over[s] + Reaching(s)) = most * over[s] + most /\ most * over[s] \in Nat
        BY <1>0, <4>2, ProductGrows
      <4> QED BY <1>0, <4>1, <4>2, <4>3
    <3>4. CASE s = u /\ ~(profit[s] < Target[s])
      <4>1. profit'[s] = profit[s] /\ Trading # s
        BY <3>1
      <4>2. over' = [over EXCEPT ![s] = @ + 1]
        BY <3>1, <3>4
      <4>3. over'[s] = over[s] + 1
        BY <4>2 DEF TypeOK
      <4> QED BY <1>0, <2>2, <2>4, <4>1, <4>3
    <3> QED BY <3>2, <3>3, <3>4
  <2>7. ASSUME NEW g \in Gains, Lifecycle!Earn(g)
        PROVE  profit'[s] + (IF Trading' = s THEN most ELSE 0)
                 <= Goal(s) + most * (over'[s] + Reaching(s))
    <3>1. /\ over' = over /\ Trading' = NoSession
          /\ profit' = [profit EXCEPT ![Trading] = @ + g]
      BY <2>7 DEF Lifecycle!Earn
    <3>2. CASE s # Trading
      BY <2>5, <3>1, <3>2
    <3>3. CASE s = Trading
      <4>1. profit'[s] = profit[s] + g /\ g \in Nat /\ g <= most /\ Trading' # s
        BY <3>1, <3>3 DEF TypeOK
      <4> QED BY <1>0, <2>2, <2>4, <3>1, <3>3, <4>1
    <3> QED BY <3>2, <3>3
  <2>8. CASE ~(\E u \in Sessions : Lifecycle!Execute(u)) /\ ~(\E g \in Gains : Lifecycle!Earn(g))
    <3>1. UNCHANGED <<profit, over>> /\ Trading' \in {Trading, NoSession}
      BY <2>8 DEF Lifecycle!Next, Lifecycle!lifecycleVars, Lifecycle!Serve, Lifecycle!End,
                  Lifecycle!Over, Lifecycle!NoGain, Lifecycle!Create, Lifecycle!Halt,
                  Lifecycle!Remove, Lifecycle!Start, Lifecycle!Refuse, Lifecycle!Answer,
                  Lifecycle!Ask
    <3> QED BY <2>5, <3>1
  <2> QED BY <2>6, <2>7, <2>8
<1>3. TypeOK /\ OvershootPaid /\ BoundInv(most) => ProfitBounded(most)
  <2> SUFFICES ASSUME TypeOK, OvershootPaid, BoundInv(most), NEW s \in Sessions
               PROVE  profit[s] <= Goal(s) + most * launched[s]
    BY DEF ProfitBounded
  <2>1. profit[s] <= Goal(s) + most * (over[s] + Reaching(s))
    <3>1. profit[s] + (IF Trading = s THEN most ELSE 0) <= Goal(s) + most * (over[s] + Reaching(s))
      BY DEF BoundInv
    <3>2. most * (over[s] + Reaching(s)) \in Nat
      BY <1>0, ProductGrows
    <3> QED BY <1>0, <3>1, <3>2
  <2>2. CASE Past(s)
    <3>1. over[s] + Reaching(s) <= launched[s]
      BY <2>2 DEF OvershootPaid
    <3>2. /\ most * (over[s] + Reaching(s)) <= most * launched[s]
          /\ most * (over[s] + Reaching(s)) \in Nat /\ most * launched[s] \in Nat
      BY <1>0, <3>1, ProductGrows
    <3> QED BY <1>0, <2>1, <3>2
  <2>3. CASE ~Past(s)
    <3>1. most * launched[s] \in Nat
      BY <1>0, ProductGrows
    <3>2. profit[s] <= Goal(s)
      BY <1>0, <2>3 DEF Past, Goal
    <3> QED BY <1>0, <3>1, <3>2
  <2> QED BY <2>2, <2>3
<1>4. QED
  BY <1>1, <1>2, <1>3, TypeCorrect, OvershootPaidCorrect, ImplementsLifecycleCorrect, PTL
     DEF Safety, ImplementsLifecycle, Lifecycle!Safety
=============================================================================
