-------------------------- MODULE SessionLifecycle --------------------------
(***************************************************************************)
(* What a client of the engine (src/src/trading_engine_manager.cpp) may    *)
(* count on, with no threads, no loop over the sessions and no cleanup:    *)
(* there are never more than Limit sessions; a session runs because a      *)
(* client asked for it, once for each request; it earns only by executions *)
(* that begin while it runs, and every execution with its target reached,  *)
(* the one that reaches it included, takes a start of its own; one that is *)
(* gone stays away; and when the engine is over there is nothing left that *)
(* runs, starts or earns.                                                  *)
(***************************************************************************)
EXTENDS Integers, FiniteSets

CONSTANTS Sessions, Clients, NoSession,
          Gains,   \* what one execution may earn
          Limit    \* how many sessions there may be

VARIABLES
  engine,    \* "off", "serving", "ending" or "over"
  phase,     \* phase[s]: "none", "idle", "running" or "gone"
  target,    \* target[s]: what its client wants it to earn
  waiting,   \* waiting[c]: the session that c has asked to start
  starts,    \* starts[s]: how often s was started
  extra,     \* extra[s]: how often s was executed with its target reached
  trading,   \* the session that is being executed and may earn
  earned     \* earned[s]

lifecycleVars == <<engine, phase, target, waiting, starts, extra, trading, earned>>

Present == {s \in Sessions : phase[s] \in {"idle", "running"}}
\* Of the starts, one is for the executions until the target is reached.
Spare(s) == starts[s] - (IF target[s] > 0 THEN 1 ELSE 0)
NobodyWaits == \A c \in Clients : waiting[c] = NoSession

Init ==
  /\ engine = "off"
  /\ phase = [s \in Sessions |-> "none"]
  /\ target \in [Sessions -> Int]
  /\ waiting = [c \in Clients |-> NoSession]
  /\ starts = [s \in Sessions |-> 0]
  /\ extra = [s \in Sessions |-> 0]
  /\ trading = NoSession
  /\ earned = [s \in Sessions |-> 0]

\* What is gone stays away.
Become(s, p) == phase' = [phase EXCEPT ![s] = IF @ = "gone" THEN @ ELSE p]

Serve ==
  /\ engine = "off"
  /\ engine' = "serving"
  /\ UNCHANGED <<phase, target, waiting, starts, extra, trading, earned>>

Create(s) ==
  /\ engine = "serving"
  /\ phase[s] = "none"
  /\ Cardinality(Present) < Limit
  /\ Become(s, "idle")
  /\ UNCHANGED <<engine, target, waiting, starts, extra, trading, earned>>

Ask(c, s) ==
  /\ engine = "serving"
  /\ waiting[c] = NoSession
  /\ phase[s] = "idle"
  /\ waiting' = [waiting EXCEPT ![c] = s]
  /\ UNCHANGED <<engine, phase, target, starts, extra, trading, earned>>

Answer(c, p) ==
  /\ engine = "serving"
  /\ waiting[c] # NoSession
  /\ waiting' = [waiting EXCEPT ![c] = NoSession]
  /\ Become(waiting[c], p)
  /\ UNCHANGED <<engine, target, extra, trading, earned>>

Start(c) == Answer(c, "running") /\ starts' = [starts EXCEPT ![waiting[c]] = @ + 1]

Refuse(c) == Answer(c, "idle") /\ UNCHANGED starts

\* A client, the loop or a start that is under way.
Halt(s) ==
  /\ phase[s] = "running"
  /\ Become(s, "idle")
  /\ UNCHANGED <<engine, target, waiting, starts, extra, trading, earned>>

\* An execution begins; without arbitrage it cannot earn.
Execute(s) ==
  /\ engine \in {"serving", "ending"}
  /\ trading = NoSession
  /\ phase[s] = "running"
  /\ IF earned[s] < target[s] THEN UNCHANGED extra
     ELSE extra[s] < Spare(s) /\ extra' = [extra EXCEPT ![s] = @ + 1]
  /\ trading' \in {s, NoSession}
  /\ UNCHANGED <<engine, phase, target, waiting, starts, earned>>

Earn(g) ==
  /\ trading # NoSession
  /\ earned' = [earned EXCEPT ![trading] = @ + g]
  /\ trading' = NoSession
  /\ UNCHANGED <<engine, phase, target, waiting, starts, extra>>

\* Nothing to gain, or an exception, which ends the run.
NoGain ==
  /\ trading # NoSession
  /\ trading' = NoSession
  /\ UNCHANGED phase \/ Become(trading, "idle")
  /\ UNCHANGED <<engine, target, waiting, starts, extra, earned>>

Remove(s) ==
  /\ engine \in {"serving", "ending"}
  /\ s \in Present /\ trading # s
  /\ Become(s, "gone")
  /\ UNCHANGED <<engine, target, waiting, starts, extra, trading, earned>>

\* Requests are answered before the engine ends.
End ==
  /\ engine \in {"off", "serving"}
  /\ NobodyWaits
  /\ engine' = "ending"
  /\ UNCHANGED <<phase, target, waiting, starts, extra, trading, earned>>

Over ==
  /\ engine = "ending"
  /\ trading = NoSession
  /\ engine' = "over"
  /\ phase' = [s \in Sessions |-> IF s \in Present THEN "gone" ELSE phase[s]]
  /\ UNCHANGED <<target, waiting, starts, extra, trading, earned>>

Next ==
  \/ Serve \/ End \/ Over \/ NoGain
  \/ \E s \in Sessions : Create(s) \/ Halt(s) \/ Execute(s) \/ Remove(s)
  \/ \E c \in Clients : Start(c) \/ Refuse(c) \/ \E s \in Sessions : Ask(c, s)
  \/ \E g \in Gains : Earn(g)

Safety == Init /\ [][Next]_lifecycleVars
=============================================================================
