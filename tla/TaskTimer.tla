----------------------------- MODULE TaskTimer -----------------------------
(***************************************************************************)
(* crow::detail::task_timer, the table of deadlines that one worker of the *)
(* HTTP server keeps (src/include/crow/task_timer.h), as operators on a    *)
(* record.  An entry of the table stands for a callback and holds the      *)
(* connection it would close and the ticks left until its time point.      *)
(***************************************************************************)
EXTENDS Integers

NoTasks == [i \in {} |-> i]

NewTimer == [tasks |-> NoTasks, highest_id |-> 0]

\* Faulty: it gives the identifier back as well.
Cancel_GivesBack(t, id) ==
  [tasks |-> [i \in DOMAIN t.tasks \ {id} |-> t.tasks[i]],
   highest_id |-> t.highest_id - 1]

\* cancel(): erases whatever task has the identifier now.
Cancel(t, id) ==
  [tasks |-> [i \in DOMAIN t.tasks \ {id} |-> t.tasks[i]],
   highest_id |-> t.highest_id]

\* schedule(): std::map::insert keeps an entry that is already there.
Schedule(t, conn, timeout) ==
  LET id == t.highest_id + 1 IN
  [tasks |-> [i \in DOMAIN t.tasks \cup {id} |->
                IF i \in DOMAIN t.tasks THEN t.tasks[i]
                                        ELSE [conn |-> conn, left |-> timeout]],
   highest_id |-> id]

\* One tick of the clock; a time point that is past stays past.
Elapse(t) ==
  [tasks |-> [i \in DOMAIN t.tasks |->
                [conn |-> t.tasks[i].conn,
                 left |-> IF t.tasks[i].left < 0 THEN -1 ELSE t.tasks[i].left - 1]],
   highest_id |-> t.highest_id]

\* The tasks whose time point is before now.  A task armed between two ticks
\* may or may not be past once exactly its number of ticks has gone by.
MustRun(t) == {i \in DOMAIN t.tasks : t.tasks[i].left < 0}
MayRun(t)  == {i \in DOMAIN t.tasks : t.tasks[i].left <= 0}

\* Faulty: the identifiers start again at every call.
ProcessTasks_Restarts(t, due) ==
  [tasks |-> [i \in DOMAIN t.tasks \ due |-> t.tasks[i]], highest_id |-> 0]

\* process_tasks(): what is left of the table once the tasks in `due` ran,
\* and the identifiers that start again at 1 when none is left.
ProcessTasks(t, due) ==
  [tasks |-> [i \in DOMAIN t.tasks \ due |-> t.tasks[i]],
   highest_id |-> IF DOMAIN t.tasks \subseteq due THEN 0 ELSE t.highest_id]
=============================================================================
