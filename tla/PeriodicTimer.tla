--------------------------- MODULE PeriodicTimer ---------------------------
(***************************************************************************)
(* What a user of Scheduler (src/scheduler.cpp) relies on, without threads, *)
(* locks or condition variables: a set of armed tasks, each fired again and *)
(* again, never sooner than its interval after the previous firing, until  *)
(* the timer is stopped and every task is disarmed at once.                *)
(***************************************************************************)
EXTENDS Integers

CONSTANTS Tasks, Interval

VARIABLES clock,  \* the time
          armed,  \* the tasks that are being fired
          last    \* last[t]: when t was armed or last fired

timerVars == <<clock, armed, last>>

Init == /\ clock = 0
        /\ armed = {}
        /\ last \in [Tasks -> Int]

Tick == /\ clock' = clock + 1
        /\ UNCHANGED <<armed, last>>

Arm(t) == /\ t \notin armed
          /\ armed' = armed \cup {t}
          /\ last' = [last EXCEPT ![t] = clock]
          /\ UNCHANGED clock

Due(t) == t \in armed /\ clock - last[t] >= Interval[t]

Fire(t) == /\ Due(t)
           /\ last' = [last EXCEPT ![t] = clock]
           /\ UNCHANGED <<clock, armed>>

Disarm == /\ armed' = {}
          /\ UNCHANGED <<clock, last>>

Next == \/ Tick
        \/ Disarm
        \/ \E t \in Tasks : Arm(t) \/ Fire(t)

Safety == Init /\ [][Next]_timerVars

\* A task that stays due is fired in the end.
Spec == Safety /\ \A t \in Tasks : WF_timerVars(Fire(t))
=============================================================================
