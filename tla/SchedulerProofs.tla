-------------------------- MODULE SchedulerProofs --------------------------
(***************************************************************************)
(* Theorems of Scheduler, for any set of entries, any intervals and any    *)
(* number of starts and stops.  MaxClock only bounds Tick from above, and  *)
(* no proof uses more of it than that.                                     *)
(***************************************************************************)
EXTENDS Scheduler, TLAPS

\* A step of the scheduler thread that leaves the entries alone.
IdleStep ==
  RunCheck \/ RunWaitEmpty \/ RunLaunch \/ RunTimeout \/ SpuriousWake
    \/ \E t \in Tasks : RunWaitUntil(t) \/ TaskDone(t)

\* One more interval: the only fact about products the proofs need.
LEMMA OneMore == ASSUME NEW n \in Nat, NEW i \in Nat
                 PROVE  (n + 1) * i = n * i + i /\ n * i \in Nat
  BY SMT

LEMMA NatBelowOne == ASSUME NEW n \in Nat, n <= 1, n # 1 PROVE n = 0
  OBVIOUS

LEMMA BeyondNow == ASSUME NEW n \in Nat, NEW c \in Nat, NEW i \in Nat \ {0}, n <= c
                   PROVE  n < c + i
  OBVIOUS

-----------------------------------------------------------------------------
\* Before a start, and after the join of a stop, there is no scheduler thread:
\* start() never finds an entry at hand.
NoThreadInv == owner \in {"new", "stopped"} => runner \in {"none", "exited"}

LEMMA NoThread == Safety => []NoThreadInv
<1>1. Init => NoThreadInv
  BY DEF Init, NoThreadInv
<1>2. NoThreadInv /\ [Next]_vars => NoThreadInv'
  <2> SUFFICES ASSUME NoThreadInv, [Next]_vars PROVE NoThreadInv'
    OBVIOUS
  <2> USE DEF NoThreadInv
  <2>1. CASE Start \/ StopBegin \/ StopJoin \/ Tick \/ UNCHANGED vars
    BY <2>1 DEF Start, StopBegin, LowerFlag, StopJoin, Tick, vars
  <2>2. CASE IdleStep
    BY <2>2 DEF IdleStep, RunCheck, RunWaitEmpty, RunLaunch, RunTimeout,
                SpuriousWake, RunWaitUntil, TaskDone
  <2>3. ASSUME NEW t \in Tasks, RunFire(t) \/ AddTask(t) PROVE NoThreadInv'
    BY <2>3 DEF RunFire, ChooseTask, AddTask, PushTask
  <2>4. QED
    BY <2>1, <2>2, <2>3 DEF Next, RunnerStep, IdleStep
<1>3. QED
  BY <1>1, <1>2, PTL DEF Safety

\* The variables of run(), start, stop and addTask keep the values those
\* functions can give them, and run() has an entry at hand exactly while it is
\* about to start its thread.
THEOREM TypeCorrect == Safety => []TypeOK
<1> USE SchedulerAssumption DEF SchedulerAssumption
<1>1. Init => TypeOK
  <2>1. [t \in Tasks |-> [u \in Tasks |-> 0]] \in [Tasks -> [Tasks -> Nat]]
    OBVIOUS
  <2>2. Init => passed \in [Tasks -> [Tasks -> Nat]]
    BY <2>1, Zenon DEF Init
  <2>3. ASSUME Init
        PROVE  /\ nextRun \in [Tasks -> Nat] /\ executing \in [Tasks -> Nat]
               /\ addedAt \in [Tasks -> Nat] /\ fired \in [Tasks -> Nat]
    BY <2>3 DEF Init
  <2>4. ASSUME Init
        PROVE  /\ running \in BOOLEAN /\ tasks \subseteq Tasks
               /\ clock \in Nat /\ wakeAt \in Nat /\ runner \in RunnerPlaces
               /\ taskToRun \in IF runner = "launch" THEN Tasks ELSE {NoTask}
               /\ owner \in OwnerPlaces
    BY <2>4 DEF Init, RunnerPlaces, OwnerPlaces
  <2>5. QED
    BY <2>2, <2>3, <2>4, Zenon DEF TypeOK
<1>2. TypeOK /\ NoThreadInv /\ [Next]_vars => TypeOK'
  <2> SUFFICES ASSUME TypeOK, NoThreadInv, [Next]_vars PROVE TypeOK'
    OBVIOUS
  <2> USE DEF TypeOK, RunnerPlaces, OwnerPlaces, history
  <2>1. CASE Start
    BY <2>1 DEF Start, NoThreadInv
  <2>2. CASE StopBegin
    BY <2>2 DEF StopBegin, LowerFlag, NotifyAll
  <2>3. CASE StopJoin
    BY <2>3 DEF StopJoin
  <2>4. CASE RunCheck \/ RunWaitEmpty \/ RunTimeout \/ SpuriousWake
    BY <2>4 DEF RunCheck, RunWaitEmpty, RunTimeout, SpuriousWake
  <2>5. CASE RunLaunch
    <3>1. executing' \in [Tasks -> Nat]
      BY <2>5 DEF RunLaunch
    <3>2. QED
      BY <2>5, <3>1 DEF RunLaunch
  <2>6. ASSUME NEW t \in Tasks, RunFire(t) PROVE TypeOK'
    <3>1. /\ nextRun' \in [Tasks -> Nat]
          /\ fired' \in [Tasks -> Nat]
      BY <2>6 DEF RunFire, ChooseTask
    <3>2. passed' \in [Tasks -> [Tasks -> Nat]]
      BY <2>6 DEF RunFire, ChooseTask
    <3>3. QED
      BY <2>6, <3>1, <3>2 DEF RunFire, ChooseTask
  <2>7. ASSUME NEW t \in Tasks, RunWaitUntil(t) PROVE TypeOK'
    BY <2>7 DEF RunWaitUntil
  <2>8. ASSUME NEW t \in Tasks, AddTask(t) PROVE TypeOK'
    <3>1. passed' \in [Tasks -> [Tasks -> Nat]]
      BY <2>8 DEF AddTask, PushTask
    <3>2. QED
      BY <2>8, <3>1 DEF AddTask, PushTask, NotifyAll
  <2>9. ASSUME NEW t \in Tasks, TaskDone(t) PROVE TypeOK'
    BY <2>9 DEF TaskDone
  <2>10. CASE Tick
    BY <2>10 DEF Tick
  <2>11. CASE UNCHANGED vars
    BY <2>11 DEF vars
  <2>12. QED
    BY <2>1, <2>2, <2>3, <2>4, <2>5, <2>6, <2>7, <2>8, <2>9, <2>10, <2>11
       DEF Next, RunnerStep
<1>3. QED
  BY <1>1, <1>2, NoThread, PTL DEF Safety

-----------------------------------------------------------------------------
\* What RateBound rests on: nextRunTime is at least one interval past the
\* runs already made, and at most one interval ahead of now.
RateInv ==
  \A t \in tasks : /\ addedAt[t] + (fired[t] + 1) * Interval[t] <= nextRun[t]
                   /\ nextRun[t] <= clock + Interval[t]

\* An entry that was chosen while t was due has been put off beyond t.
PassedInv ==
  \A t \in tasks : \A u \in Tasks :
    /\ passed[t][u] <= 1
    /\ passed[t][u] = 1 /\ u \in tasks => nextRun[t] < nextRun[u]

\* There are entries only while the owner is between start and stop.
EntriesInv == owner # "up" => tasks = {}

\* No reading of now, wake-up or restart makes an entry run more often than
\* its interval allows.
THEOREM RateCorrect == Safety => []RateBound
<1> USE SchedulerAssumption DEF SchedulerAssumption
<1>1. Init => RateInv
  BY DEF Init, RateInv
<1>2. TypeOK /\ RateInv /\ [Next]_vars => RateInv'
  <2> SUFFICES ASSUME TypeOK, RateInv, [Next]_vars PROVE RateInv'
    OBVIOUS
  <2> USE DEF TypeOK, RateInv, history
  <2>1. CASE Start \/ StopBegin \/ StopJoin
    BY <2>1 DEF Start, StopBegin, LowerFlag, StopJoin
  <2>2. CASE IdleStep \/ UNCHANGED vars
    BY <2>2 DEF IdleStep, RunCheck, RunWaitEmpty, RunTimeout, SpuriousWake,
                RunLaunch, RunWaitUntil, TaskDone, vars
  <2>3. ASSUME NEW t \in Tasks, RunFire(t) PROVE RateInv'
    <3> SUFFICES ASSUME NEW v \in tasks
                 PROVE  /\ addedAt[v] + (fired'[v] + 1) * Interval[v] <= nextRun'[v]
                        /\ nextRun'[v] <= clock + Interval[v]
      BY <2>3 DEF RunFire, ChooseTask
    <3>1. CASE v # t
      BY <2>3, <3>1 DEF RunFire, ChooseTask
    <3>2. CASE v = t
      <4>1. fired'[t] = fired[t] + 1 /\ nextRun'[t] = clock + Interval[t]
        BY <2>3 DEF RunFire, ChooseTask
      <4>2. addedAt[t] + (fired[t] + 1) * Interval[t] <= clock
        BY <2>3, <3>2 DEF RunFire, ChooseTask
      <4>3. (fired[t] + 1 + 1) * Interval[t] = (fired[t] + 1) * Interval[t] + Interval[t]
        BY OneMore
      <4>4. (fired[t] + 1) * Interval[t] \in Nat
        BY OneMore
      <4>5. QED
        BY <3>2, <4>1, <4>2, <4>3, <4>4
    <3>3. QED
      BY <3>1, <3>2
  <2>4. ASSUME NEW t \in Tasks, AddTask(t) PROVE RateInv'
    <3> SUFFICES ASSUME NEW v \in tasks'
                 PROVE  /\ addedAt'[v] + (fired'[v] + 1) * Interval[v] <= nextRun'[v]
                        /\ nextRun'[v] <= clock + Interval[v]
      BY <2>4 DEF AddTask, PushTask
    <3>1. CASE v # t
      BY <2>4, <3>1 DEF AddTask, PushTask
    <3>2. CASE v = t
      BY <2>4, <3>2 DEF AddTask, PushTask
    <3>3. QED
      BY <3>1, <3>2
  <2>5. CASE Tick
    BY <2>5 DEF Tick
  <2>6. QED
    BY <2>1, <2>2, <2>3, <2>4, <2>5 DEF Next, RunnerStep, IdleStep
<1>3. TypeOK /\ RateInv => RateBound
  <2> SUFFICES ASSUME TypeOK, RateInv, NEW t \in tasks
               PROVE  fired[t] * Interval[t] <= clock - addedAt[t]
    BY DEF RateBound
  <2>1. /\ fired[t] \in Nat /\ Interval[t] \in Nat /\ clock \in Nat
        /\ addedAt[t] \in Nat /\ nextRun[t] \in Nat
    BY DEF TypeOK
  <2>2. addedAt[t] + (fired[t] + 1) * Interval[t] <= clock + Interval[t]
    BY <2>1, OneMore DEF RateInv
  <2>3. QED
    BY <2>1, <2>2, OneMore
<1>4. QED
  BY <1>1, <1>2, <1>3, TypeCorrect, PTL DEF Safety

\* No entry is chosen twice over the head of one that is due.
THEOREM NoOvertaking == Safety => []PassedAtMostOnce
<1> USE SchedulerAssumption DEF SchedulerAssumption
<1>1. Init => PassedInv
  BY DEF Init, PassedInv
<1>2. TypeOK /\ PassedInv /\ [Next]_vars => PassedInv'
  <2> SUFFICES ASSUME TypeOK, PassedInv, [Next]_vars PROVE PassedInv'
    OBVIOUS
  <2> USE DEF TypeOK, PassedInv, history
  <2>1. CASE Start \/ StopBegin \/ StopJoin \/ Tick
    BY <2>1 DEF Start, StopBegin, LowerFlag, StopJoin, Tick
  <2>2. CASE IdleStep \/ UNCHANGED vars
    BY <2>2 DEF IdleStep, RunCheck, RunWaitEmpty, RunTimeout, SpuriousWake,
                RunLaunch, RunWaitUntil, TaskDone, vars
  <2>3. ASSUME NEW t \in Tasks, RunFire(t) PROVE PassedInv'
    <3> SUFFICES ASSUME NEW v \in tasks, NEW u \in Tasks
                 PROVE  /\ passed'[v][u] <= 1
                        /\ passed'[v][u] = 1 /\ u \in tasks => nextRun'[v] < nextRun'[u]
      BY <2>3 DEF RunFire, ChooseTask
    <3>1. nextRun' = [nextRun EXCEPT ![t] = clock + Interval[t]]
      BY <2>3 DEF RunFire, ChooseTask
    <3>2. CASE v = t
      BY <2>3, <3>2 DEF RunFire, ChooseTask
    <3>3. CASE v # t /\ u = t
      \* t is the earliest entry, so it has not been put off beyond v
      <4>1. passed[v][t] = 0
        <5>1. t \in tasks /\ v \in Tasks /\ nextRun[t] <= nextRun[v]
          BY <2>3 DEF RunFire, ChooseTask, Earliest
        <5>2. passed[v][t] \in Nat /\ nextRun[t] \in Nat /\ nextRun[v] \in Nat
          BY <5>1
        <5>3. passed[v][t] <= 1 /\ passed[v][t] # 1
          BY <5>1, <5>2
        <5>4. QED
          BY <5>2, <5>3, NatBelowOne
      <4>2. CASE Due(v)
        <5>1. passed'[v][t] = 1
          BY <2>3, <3>3, <4>1, <4>2 DEF RunFire, ChooseTask
        <5>2. nextRun'[t] = clock + Interval[t] /\ nextRun'[v] = nextRun[v]
          BY <3>1, <3>3
        <5>3. /\ nextRun[v] <= clock /\ clock \in Nat
              /\ nextRun[v] \in Nat /\ Interval[t] \in Nat \ {0}
          BY <4>2 DEF Due
        <5>4. nextRun'[v] < nextRun'[t]
          <6>1. nextRun[v] < clock + Interval[t]
            BY <5>3, BeyondNow
          <6>2. QED
            BY <5>2, <6>1, Zenon
        <5>5. QED
          BY <3>3, <5>1, <5>4
      <4>3. CASE ~Due(v)
        BY <2>3, <3>3, <4>1, <4>3 DEF RunFire, ChooseTask
      <4>4. QED
        BY <4>2, <4>3
    <3>4. CASE v # t /\ u # t
      <4>1. passed'[v][u] = passed[v][u]
        BY <2>3, <3>4 DEF RunFire, ChooseTask
      <4>2. QED
        BY <3>1, <3>4, <4>1
    <3>5. QED
      BY <3>2, <3>3, <3>4
  <2>4. ASSUME NEW t \in Tasks, AddTask(t) PROVE PassedInv'
    <3> SUFFICES ASSUME NEW v \in tasks', NEW u \in Tasks
                 PROVE  /\ passed'[v][u] <= 1
                        /\ passed'[v][u] = 1 /\ u \in tasks' => nextRun'[v] < nextRun'[u]
      OBVIOUS
    <3>1. CASE v = t \/ u = t
      BY <2>4, <3>1 DEF AddTask, PushTask
    <3>2. CASE v # t /\ u # t
      <4>1. passed'[v][u] = passed[v][u] /\ v \in tasks
        BY <2>4, <3>2 DEF AddTask, PushTask
      <4>2. QED
        BY <2>4, <3>2, <4>1 DEF AddTask, PushTask
    <3>3. QED
      BY <3>1, <3>2
  <2>5. QED
    BY <2>1, <2>2, <2>3, <2>4 DEF Next, RunnerStep, IdleStep
<1>3. PassedInv => PassedAtMostOnce
  BY DEF PassedInv, PassedAtMostOnce
<1>4. QED
  BY <1>1, <1>2, <1>3, TypeCorrect, PTL DEF Safety

-----------------------------------------------------------------------------
\* No entry survives stop().
LEMMA Emptied == Safety => []EntriesInv
<1>1. Init => EntriesInv
  BY DEF Init, EntriesInv
<1>2. EntriesInv /\ [Next]_vars => EntriesInv'
  BY DEF EntriesInv, Next, RunnerStep, Start, StopBegin, LowerFlag, StopJoin,
         RunCheck, RunWaitEmpty, RunLaunch, RunTimeout, SpuriousWake, RunFire,
         ChooseTask, RunWaitUntil, AddTask, PushTask, TaskDone, Tick, vars
<1>3. QED
  BY <1>1, <1>2, PTL DEF Safety

\* After the critical section of stop() run() chooses nothing.
THEOREM StopDisarmsCorrect == Safety => StopDisarms
<1>1. EntriesInv /\ [Next]_vars
        => [(owner \in {"join", "stopped"}) => fired' = fired]_vars
  BY DEF EntriesInv, Next, RunnerStep, Start, StopBegin, LowerFlag, StopJoin,
         RunCheck, RunWaitEmpty, RunLaunch, RunTimeout, SpuriousWake, RunFire,
         ChooseTask, Earliest, RunWaitUntil, AddTask, PushTask, TaskDone, Tick,
         vars, history
<1>2. QED
  BY <1>1, Emptied, PTL DEF Safety, StopDisarms

-----------------------------------------------------------------------------
\* What the thread knows when it goes to sleep stays true while it sleeps, and
\* between start and stop there is a thread.
AwakeInv ==
  /\ owner = "up" => running /\ runner \notin {"none", "exited"}
  /\ runner = "wait" => tasks = {}
  /\ runner = "waitUntil" => \A t \in tasks : wakeAt <= nextRun[t]

\* A due entry has a thread that is up, or may time out at once: it has not
\* left, sleeps for no later instant, and needs no notification any more.
DueIsAttended ==
  \A t \in Tasks : Due(t) =>
    \/ runner \in {"check", "lock", "launch"}
    \/ runner = "waitUntil" /\ wakeAt <= clock

\* No wake-up an entry depends on is lost, whatever is added while the thread
\* is on its way to sleep (addTask, scheduler.cpp:42, and run, :50 and :77):
\* all that DueTaskFires needs but the fairness of the thread.
THEOREM DueIsAttendedCorrect == Safety => []DueIsAttended
<1> USE SchedulerAssumption DEF SchedulerAssumption
<1>1. Init => AwakeInv
  BY DEF Init, AwakeInv
<1>2. TypeOK /\ EntriesInv /\ AwakeInv /\ [Next]_vars => AwakeInv'
  <2> SUFFICES ASSUME TypeOK, EntriesInv, AwakeInv, [Next]_vars PROVE AwakeInv'
    OBVIOUS
  <2> USE DEF EntriesInv, AwakeInv, history
  <2>1. CASE Start \/ StopBegin \/ StopJoin
    BY <2>1 DEF Start, StopBegin, LowerFlag, NotifyAll, StopJoin, RunnerPlaces
  <2>2. CASE RunCheck \/ RunWaitEmpty \/ RunLaunch \/ RunTimeout \/ SpuriousWake
    BY <2>2 DEF RunCheck, RunWaitEmpty, RunLaunch, RunTimeout, SpuriousWake
  \* it sleeps until the earliest entry is due
  <2>3. ASSUME NEW t \in Tasks, RunWaitUntil(t) PROVE AwakeInv'
    BY <2>3 DEF RunWaitUntil, Earliest
  <2>4. ASSUME NEW t \in Tasks, RunFire(t) PROVE AwakeInv'
    BY <2>4 DEF RunFire, ChooseTask
  \* an entry that is added wakes it
  <2>5. ASSUME NEW t \in Tasks, AddTask(t) PROVE AwakeInv'
    BY <2>5 DEF AddTask, PushTask, NotifyAll
  <2>6. CASE Tick \/ UNCHANGED vars \/ \E t \in Tasks : TaskDone(t)
    BY <2>6 DEF Tick, TaskDone, vars
  <2>7. QED
    BY <2>1, <2>2, <2>3, <2>4, <2>5, <2>6 DEF Next, RunnerStep
<1>3. TypeOK /\ EntriesInv /\ AwakeInv => DueIsAttended
  <2> SUFFICES ASSUME TypeOK, EntriesInv, AwakeInv, NEW t \in Tasks, Due(t)
               PROVE  \/ runner \in {"check", "lock", "launch"}
                      \/ runner = "waitUntil" /\ wakeAt <= clock
    BY DEF DueIsAttended
  <2>1. t \in tasks /\ nextRun[t] <= clock /\ owner = "up"
    BY DEF Due, EntriesInv
  <2>2. runner \in {"check", "lock", "launch", "waitUntil"}
    BY <2>1 DEF AwakeInv, TypeOK, RunnerPlaces
  <2>3. runner = "waitUntil" => wakeAt <= clock
    BY <2>1 DEF AwakeInv, TypeOK
  <2>4. QED
    BY <2>2, <2>3
<1>4. QED
  BY <1>1, <1>2, <1>3, TypeCorrect, Emptied, PTL DEF Safety

-----------------------------------------------------------------------------
\* Scheduler implements PeriodicTimer: threads, lock and condition variable
\* show nothing to a user that the timer does not allow.
THEOREM TimerSafety == Safety => Timer!Safety
<1> USE SchedulerAssumption DEF SchedulerAssumption
<1> DEFINE lastRun == [t \in Tasks |-> nextRun[t] - Interval[t]]
<1>1. Init => Timer!Init
  BY DEF Init, Timer!Init
<1>2. TypeOK /\ [Next]_vars => [Timer!Next]_(Timer!timerVars)
  <2> SUFFICES ASSUME TypeOK, [Next]_vars
               PROVE  Timer!Next \/ UNCHANGED <<clock, tasks, lastRun>>
    BY DEF Timer!timerVars
  <2> USE DEF history
  <2>1. CASE Start \/ StopJoin \/ IdleStep \/ UNCHANGED vars
    <3>1. UNCHANGED <<clock, tasks, nextRun>>
      BY <2>1 DEF Start, StopJoin, IdleStep, RunCheck, RunWaitEmpty,
                  RunTimeout, SpuriousWake, RunLaunch, RunWaitUntil, TaskDone, vars
    <3>2. QED
      BY <3>1
  <2>2. CASE StopBegin
    <3>1. tasks' = {} /\ UNCHANGED <<clock, nextRun>>
      BY <2>2 DEF StopBegin, LowerFlag
    <3>2. QED
      BY <3>1 DEF Timer!Next, Timer!Disarm
  <2>3. CASE Tick
    <3>1. clock' = clock + 1 /\ UNCHANGED <<tasks, nextRun>>
      BY <2>3 DEF Tick
    <3>2. QED
      BY <3>1 DEF Timer!Next, Timer!Tick
  <2>4. ASSUME NEW t \in Tasks, RunFire(t) PROVE Timer!Fire(t)
    <3>1. /\ t \in tasks /\ clock >= nextRun[t] /\ UNCHANGED <<clock, tasks>>
          /\ nextRun' = [nextRun EXCEPT ![t] = clock + Interval[t]]
      BY <2>4 DEF RunFire, ChooseTask, Earliest
    <3>2. lastRun' = [lastRun EXCEPT ![t] = clock]
      <4>1. nextRun \in [Tasks -> Nat] /\ clock \in Nat /\ Interval \in [Tasks -> Nat]
        BY DEF TypeOK
      <4>2. \A v \in Tasks :
              nextRun'[v] - Interval[v] = IF v = t THEN clock ELSE nextRun[v] - Interval[v]
        BY <3>1, <4>1
      <4>3. QED
        BY <4>2
    <3>3. clock - lastRun[t] >= Interval[t]
      BY <3>1 DEF TypeOK
    <3>4. QED
      BY <3>1, <3>2, <3>3 DEF Timer!Fire, Timer!Due
  <2>5. ASSUME NEW t \in Tasks, AddTask(t) PROVE Timer!Arm(t)
    <3>1. /\ t \notin tasks /\ tasks' = tasks \cup {t} /\ UNCHANGED clock
          /\ nextRun' = [nextRun EXCEPT ![t] = clock + Interval[t]]
      BY <2>5 DEF AddTask, PushTask
    <3>2. lastRun' = [lastRun EXCEPT ![t] = clock]
      <4>1. nextRun \in [Tasks -> Nat] /\ clock \in Nat /\ Interval \in [Tasks -> Nat]
        BY DEF TypeOK
      <4>2. \A v \in Tasks :
              nextRun'[v] - Interval[v] = IF v = t THEN clock ELSE nextRun[v] - Interval[v]
        BY <3>1, <4>1
      <4>3. QED
        BY <4>2
    <3>3. QED
      BY <3>1, <3>2 DEF Timer!Arm
  <2>6. QED
    BY <2>1, <2>2, <2>3, <2>4, <2>5 DEF Next, RunnerStep, IdleStep, Timer!Next
<1>3. QED
  BY <1>1, <1>2, TypeCorrect, PTL DEF Safety, Timer!Safety
=============================================================================
