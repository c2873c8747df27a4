----------------------------- MODULE Scheduler -----------------------------
(***************************************************************************)
(* The task scheduler of src/scheduler.cpp: the thread that runs           *)
(* Scheduler::run, the detached threads it starts, and the thread that     *)
(* owns the scheduler and calls start, addTask and stop.                   *)
(*                                                                         *)
(* Every access to tasks is made with mtx held, and a critical section     *)
(* does at most one access to the atomic flag running, so a critical       *)
(* section is one step.  What remains visible is the order of the          *)
(* sections, the unlocked read of running at the head of the loop, and     *)
(* where the scheduler thread sleeps.                                      *)
(***************************************************************************)
EXTENDS Integers

CONSTANTS Tasks,     \* the entries addTask may push into tasks
          Interval,  \* Interval[t]: interval_ms of the entry t
          NoTask,    \* no entry: taskToRun holds nothing
          MaxClock   \* bound: the last instant of steady_clock considered

ASSUME SchedulerAssumption ==
  /\ Interval \in [Tasks -> Nat \ {0}]
  /\ NoTask \notin Tasks
  /\ MaxClock \in Nat

VARIABLES
  running,   \* Scheduler::running
  tasks,     \* Scheduler::tasks, as the set of entries it holds
  nextRun,   \* nextRun[t]: nextRunTime of t
  clock,     \* steady_clock::now()
  runner,    \* where the scheduler thread is in run()
  taskToRun, \* the local copy of the entry about to be started
  wakeAt,    \* the instant cv.wait_until waits for
  owner,     \* where the owning thread is
  executing, \* executing[t]: how many detached threads run t
  (* history *)
  addedAt,   \* when t was last pushed into tasks
  fired,     \* how often t was chosen since then
  passed     \* passed[t][u]: how often u was chosen while t was due

vars == <<running, tasks, nextRun, clock, runner, taskToRun, wakeAt, owner,
          executing, addedAt, fired, passed>>
history == <<addedAt, fired, passed>>

RunnerPlaces == {"none", "check", "lock", "wait", "waitUntil", "launch", "exited"}
OwnerPlaces  == {"new", "up", "join", "stopped"}

Due(t) == t \in tasks /\ nextRun[t] <= clock

\* What cv.notify_all does to the scheduler thread: if it sleeps it takes
\* mtx again, gives it back at "continue" or at the end of the loop body,
\* and is before the test of running.
NotifyAll == runner' = IF runner \in {"wait", "waitUntil"} THEN "check" ELSE runner

Init ==
  /\ running = FALSE
  /\ tasks = {}
  /\ nextRun = [t \in Tasks |-> 0]
  /\ clock = 0
  /\ runner = "none"
  /\ taskToRun = NoTask
  /\ wakeAt = 0
  /\ owner = "new"
  /\ executing = [t \in Tasks |-> 0]
  /\ addedAt = [t \in Tasks |-> 0]
  /\ fired = [t \in Tasks |-> 0]
  /\ passed = [t \in Tasks |-> [u \in Tasks |-> 0]]

-----------------------------------------------------------------------------
(* The owner: DataSyncService on behalf of TradingEngineManager.           *)

Start ==
  /\ owner \in {"new", "stopped"}
  /\ running' = TRUE
  /\ runner' = "check"
  /\ owner' = "up"
  /\ UNCHANGED <<tasks, nextRun, clock, taskToRun, wakeAt, executing, history>>

\* push_back of an entry that is due at the instant first.
PushTask(t, first) ==
  /\ owner = "up"
  /\ t \notin tasks
  /\ tasks' = tasks \cup {t}
  /\ nextRun' = [nextRun EXCEPT ![t] = first]
  /\ addedAt' = [addedAt EXCEPT ![t] = clock]
  /\ fired' = [fired EXCEPT ![t] = 0]
  /\ passed' = [v \in Tasks |-> IF v = t THEN [u \in Tasks |-> 0]
                                         ELSE [passed[v] EXCEPT ![t] = 0]]
  /\ UNCHANGED <<running, clock, taskToRun, wakeAt, owner, executing>>

\* Faulty: the first run is at once, or the sleeping thread is not told.
AddTask_DueAtOnce(t) == PushTask(t, clock) /\ NotifyAll
AddTask_NoNotify(t) == PushTask(t, clock + Interval[t]) /\ UNCHANGED runner

\* start() is documented to come first (data_sync_service.h:41), and does.
AddTask(t) == PushTask(t, clock + Interval[t]) /\ NotifyAll

LowerFlag ==
  /\ owner = "up"
  /\ running
  /\ running' = FALSE
  /\ NotifyAll
  /\ owner' = "join"
  /\ UNCHANGED <<nextRun, clock, wakeAt, executing, history>>

\* Faulty: tasks.clear() forgotten, or what run() has chosen is a reference
\* into the list, which clear() empties.
StopBegin_KeepsTasks == LowerFlag /\ UNCHANGED <<tasks, taskToRun>>
StopBegin_EmptiesChoice == LowerFlag /\ tasks' = {} /\ taskToRun' = NoTask

\* stop() up to the join: the early return, then the critical section.  The
\* copy that run() has made of an entry (:68) is its own.
StopBegin == LowerFlag /\ tasks' = {} /\ UNCHANGED taskToRun

StopJoin ==
  /\ owner = "join"
  /\ runner = "exited"
  /\ owner' = "stopped"
  /\ UNCHANGED <<running, tasks, nextRun, clock, runner, taskToRun, wakeAt,
                 executing, history>>

-----------------------------------------------------------------------------
(* The scheduler thread.                                                   *)

RunCheck ==
  /\ runner = "check"
  /\ runner' = IF running THEN "lock" ELSE "exited"
  /\ UNCHANGED <<running, tasks, nextRun, clock, taskToRun, wakeAt, owner,
                 executing, history>>

RunWaitEmpty ==
  /\ runner = "lock"
  /\ tasks = {}
  /\ runner' = "wait"
  /\ UNCHANGED <<running, tasks, nextRun, clock, taskToRun, wakeAt, owner,
                 executing, history>>

\* Faulty: any entry is taken, not the earliest.
Earliest_Any(t) == t \in tasks

\* t is what min_element returns (any entry, if several are equally early).
Earliest(t) == t \in tasks /\ \A u \in tasks : nextRun[t] <= nextRun[u]

\* The entry t is due: it is put off to the instant next and copied.
ChooseTask(t, next) ==
  /\ runner = "lock"
  /\ Earliest(t)
  /\ clock >= nextRun[t]
  /\ nextRun' = [nextRun EXCEPT ![t] = next]
  /\ taskToRun' = t
  /\ runner' = "launch"
  /\ fired' = [fired EXCEPT ![t] = @ + 1]
  /\ passed' = [v \in Tasks |->
                  IF v = t THEN [u \in Tasks |-> 0]
                  ELSE IF Due(v) THEN [passed[v] EXCEPT ![t] = @ + 1]
                  ELSE passed[v]]
  /\ UNCHANGED <<running, tasks, clock, wakeAt, owner, executing, addedAt>>

\* Faulty: put off from the instant it was due at, so that a late thread
\* makes up for what it missed with a burst.
RunFire_CatchUp(t) == ChooseTask(t, nextRun[t] + Interval[t])

RunFire(t) == ChooseTask(t, clock + Interval[t])

RunWaitUntil(t) ==
  /\ runner = "lock"
  /\ Earliest(t)
  /\ clock < nextRun[t]
  /\ wakeAt' = nextRun[t]
  /\ runner' = "waitUntil"
  /\ UNCHANGED <<running, tasks, nextRun, clock, taskToRun, owner, executing,
                 history>>

RunLaunch ==
  /\ runner = "launch"
  /\ executing' = [executing EXCEPT ![taskToRun] = @ + 1]
  /\ taskToRun' = NoTask
  /\ runner' = "check"
  /\ UNCHANGED <<running, tasks, nextRun, clock, wakeAt, owner, history>>

RunTimeout ==
  /\ runner = "waitUntil"
  /\ clock >= wakeAt
  /\ runner' = "check"
  /\ UNCHANGED <<running, tasks, nextRun, clock, taskToRun, wakeAt, owner,
                 executing, history>>

\* A condition variable may return without a notification.
SpuriousWake ==
  /\ runner \in {"wait", "waitUntil"}
  /\ runner' = "check"
  /\ UNCHANGED <<running, tasks, nextRun, clock, taskToRun, wakeAt, owner,
                 executing, history>>

-----------------------------------------------------------------------------
(* The detached threads and the clock.                                     *)

TaskDone(t) ==
  /\ executing[t] > 0
  /\ executing' = [executing EXCEPT ![t] = @ - 1]
  /\ UNCHANGED <<running, tasks, nextRun, clock, runner, taskToRun, wakeAt,
                 owner, history>>

Tick ==
  /\ clock < MaxClock
  /\ clock' = clock + 1
  /\ UNCHANGED <<running, tasks, nextRun, runner, taskToRun, wakeAt, owner,
                 executing, history>>

RunnerStep ==
  \/ RunCheck \/ RunWaitEmpty \/ RunLaunch \/ RunTimeout
  \/ \E t \in Tasks : RunFire(t) \/ RunWaitUntil(t)

Next ==
  \/ Start \/ StopBegin \/ StopJoin
  \/ RunnerStep \/ SpuriousWake \/ Tick
  \/ \E t \in Tasks : AddTask(t) \/ TaskDone(t)

Safety == Init /\ [][Next]_vars

\* The operating system keeps running the scheduler thread and an owner whose
\* join can return.  Nobody has to call anything, spurious wake-ups need not
\* come, and a task may run for ever.
Spec == Safety /\ WF_vars(RunnerStep) /\ WF_vars(StopJoin)

-----------------------------------------------------------------------------
\* Every variable has its type, and an entry is at hand exactly while run() is
\* between its choice and the start of its thread (:68-75), although that
\* stretch is not locked and stop() may clear the list in it.
TypeOK ==
  /\ running \in BOOLEAN
  /\ tasks \subseteq Tasks
  /\ nextRun \in [Tasks -> Nat]
  /\ clock \in Nat
  /\ runner \in RunnerPlaces
  /\ taskToRun \in IF runner = "launch" THEN Tasks ELSE {NoTask}
  /\ wakeAt \in Nat
  /\ owner \in OwnerPlaces
  /\ executing \in [Tasks -> Nat]
  /\ addedAt \in [Tasks -> Nat]
  /\ fired \in [Tasks -> Nat]
  /\ passed \in [Tasks -> [Tasks -> Nat]]

\* Over the time since it was added an entry is chosen at most once per
\* interval, whatever wakes the thread: notifications for other entries,
\* spurious wake-ups, two entries due at once (scheduler.cpp:40, :67-69).
RateBound ==
  \A t \in tasks : fired[t] * Interval[t] <= clock - addedAt[t]

\* run() takes the entry with the smallest nextRunTime, so no entry is
\* chosen twice while another one is due: a due entry waits for each other
\* entry at most once, however short the other's interval.
PassedAtMostOnce ==
  \A t \in tasks : \A u \in Tasks : Due(t) => passed[t][u] <= 1

\* Once stop() has left its critical section nothing more is chosen, although
\* the scheduler thread may be anywhere in its loop body at that moment.
StopDisarms ==
  [][(owner \in {"join", "stopped"}) => fired' = fired]_vars

\* An entry whose time has come is started, or stop() drops it: no wake-up an
\* entry depends on is lost (addTask notifies while it holds mtx).
DueTaskFires ==
  \A t \in Tasks : Due(t) ~> ~Due(t)

\* stop() comes back from the join (scheduler.cpp:8 says the destructor stops
\* the scheduler safely by calling it).
StopReturns == (owner = "join") ~> (owner = "stopped")

\* The scheduler is a periodic timer.
Timer == INSTANCE PeriodicTimer
           WITH armed <- tasks,
                last <- [t \in Tasks |-> nextRun[t] - Interval[t]]

\* Every step of the scheduler is a step of the periodic timer or changes
\* nothing the timer shows, and the timer's fairness is met.  In particular
\* two choices of an entry are an interval apart: run() counts from now, not
\* from the missed instant, so a delay is never made up by a burst.
ImplementsTimer == Timer!Spec
=============================================================================
