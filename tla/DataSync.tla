------------------------------ MODULE DataSync ------------------------------
(***************************************************************************)
(* DataSyncService (src/data_sync_service.cpp) with TimescaleDBReader and  *)
(* the writing half of RedisWriter: the scheduler (module Scheduler)       *)
(* launches sync_once on a detached thread every five seconds, whether or  *)
(* not the one before has ended, and all of them share one connection to   *)
(* the database and one to Redis.                                          *)
(*                                                                         *)
(* A record is a version of its key; 0 means that there is none.  A call   *)
(* on a shared connection is taken to be one step, an entry of a pipelined *)
(* write another.  stats_ is left out: nothing reads it.                   *)
(***************************************************************************)
EXTENDS Integers, FiniteSets

CONSTANTS
  Syncs,      \* the threads that may run sync_once at one time
  RawKeys,    \* crypto:raw:<exchange>:<symbol>
  StatsKeys,  \* crypto:stats:<symbol>
  Nullable,   \* the keys whose rows may hold a NULL or no number
  MaxVersion  \* bound: MaxVersion[k], how many rows a key is given

Keys == RawKeys \cup StatsKeys

ASSUME SyncAssumption ==
  /\ RawKeys \cap StatsKeys = {} /\ Nullable \subseteq Keys
  /\ MaxVersion \in [Keys -> Nat \ {0}]

Nothing == [k \in Keys |-> 0]

VARIABLES
  (* the database and Redis *)
  db,        \* the newest row of a key
  bad,       \* the keys whose newest row does
  dbUp,      \* queries succeed
  redis,     \* redis[k]
  refusing,  \* Redis answers a write with an error
  redisUp,   \* context_->err == 0: never restored
  (* the threads *)
  alive,     \* the process has not been terminated
  pc,
  batch,     \* batch[s][k]: read by s and still to be written
  ok,        \* raw_success && stats_success so far
  (* history *)
  start,     \* start[s]: db when s was launched
  disturbed  \* the running syncs during which another one wrote, a query
             \* failed, or a key expired

stores == <<db, bad, dbUp, refusing>>
vars == <<stores, redis, redisUp, alive, pc, batch, ok, start, disturbed>>

Syncing == {"raw", "stats"}
Writing == {"writeRaw", "writeStats"}
Places == {"idle", "count", "update"} \cup Syncing \cup Writing

After == [raw |-> "stats", writeRaw |-> "stats",
          stats |-> "update", writeStats |-> "update"]
Goto(s, place) == pc' = [pc EXCEPT ![s] = place]

Running == {s \in Syncs : pc[s] # "idle"}
Table(s) == IF pc[s] \in {"raw", "writeRaw"} THEN RawKeys ELSE StatsKeys

Init ==
  /\ db \in [Keys -> 0 .. 1] /\ bad = {} /\ dbUp \in BOOLEAN
  /\ redis \in [Keys -> 0 .. 1] /\ \A k \in Keys : redis[k] <= db[k]
  /\ refusing \in BOOLEAN /\ redisUp = TRUE
  /\ alive = TRUE
  /\ pc = [s \in Syncs |-> "idle"]
  /\ batch = [s \in Syncs |-> Nothing]
  /\ ok = [s \in Syncs |-> TRUE]
  /\ start = [s \in Syncs |-> Nothing]
  /\ disturbed = {}

-----------------------------------------------------------------------------
(* The readers.                                                            *)

\* stoi and stod throw on what they are given for such a row.
Malformed(keys) == dbUp /\ keys \cap bad # {}

\* Faulty: DISTINCT ON without the ORDER BY.
LatestRows_Unordered(k) == IF db[k] = 0 THEN {0} ELSE 1 .. db[k]

\* The row a query may return for a key.
LatestRows(k) == {db[k]}

-----------------------------------------------------------------------------
(* sync_once.                                                              *)

Launch(s) ==
  /\ pc[s] = "idle"
  /\ Goto(s, "count")
  /\ start' = [start EXCEPT ![s] = db]
  /\ UNCHANGED <<stores, redis, redisUp, alive, batch, ok, disturbed>>

\* The two reads that count the records; nothing catches what they throw.
Count(s) ==
  /\ pc[s] = "count"
  /\ IF Malformed(Keys) THEN alive' = FALSE /\ UNCHANGED pc
                        ELSE Goto(s, "raw") /\ UNCHANGED alive
  /\ UNCHANGED <<stores, redis, redisUp, batch, ok, start, disturbed>>

\* sync_raw_data and sync_price_stats_data: no connection, or a row that
\* does not parse, which they catch.
SyncFails(s) ==
  /\ pc[s] \in Syncing
  /\ ~redisUp \/ Malformed(Table(s))
  /\ ok' = [ok EXCEPT ![s] = FALSE]
  /\ Goto(s, After[pc[s]])
  /\ UNCHANGED <<stores, redis, redisUp, alive, batch, start, disturbed>>

FindNothing(s) ==
  /\ pc[s] \in Syncing
  /\ redisUp
  /\ ~dbUp \/ \A k \in Table(s) : db[k] = 0
  /\ disturbed' = IF dbUp THEN disturbed ELSE disturbed \cup {s}
  /\ UNCHANGED <<stores, redis, redisUp, alive, batch, ok, start>>

\* Faulty: without raw data there is nothing to do.
SyncNothing_Returns(s) == FindNothing(s) /\ Goto(s, "update")

\* No rows, also where the query failed: that is a success.
SyncNothing(s) == FindNothing(s) /\ Goto(s, After[pc[s]])

SyncRead(s) ==
  /\ pc[s] \in Syncing
  /\ redisUp /\ dbUp /\ ~Malformed(Table(s))
  /\ \E k \in Table(s) : db[k] # 0
  /\ \E rows \in [Keys -> UNION {0 .. db[k] : k \in Keys}] :
       /\ \A k \in Keys : IF k \in Table(s) THEN rows[k] \in LatestRows(k) ELSE rows[k] = 0
       /\ batch' = [batch EXCEPT ![s] = rows]
  /\ Goto(s, IF pc[s] = "raw" THEN "writeRaw" ELSE "writeStats")
  /\ UNCHANGED <<stores, redis, redisUp, alive, ok, start, disturbed>>

\* One SETEX of write_raw_records or write_price_stats_records.
Pop(s, k) == /\ pc[s] \in Writing
             /\ batch[s][k] # 0
             /\ batch' = [batch EXCEPT ![s] = [@ EXCEPT ![k] = 0]]
             /\ UNCHANGED <<stores, alive, pc, start>>

Apply(s, k) == /\ redisUp /\ ~refusing
               /\ redis' = [redis EXCEPT ![k] = batch[s][k]]
               /\ disturbed' = disturbed \cup (Running \ {s})

WriteDone(s, k) == Pop(s, k) /\ Apply(s, k) /\ UNCHANGED <<redisUp, ok>>

\* The connection breaks before the reply.
WriteLost(s, k) ==
  /\ Pop(s, k) /\ Apply(s, k)
  /\ redisUp' = FALSE
  /\ ok' = [ok EXCEPT ![s] = FALSE]

Unwritten(s, k) == /\ Pop(s, k)
                   /\ ~redisUp \/ refusing
                   /\ UNCHANGED <<redis, redisUp, disturbed>>

\* Faulty: a reply that is an error counts as success.
WriteFails_Unnoticed(s, k) == Unwritten(s, k) /\ UNCHANGED ok

WriteFails(s, k) == Unwritten(s, k) /\ ok' = [ok EXCEPT ![s] = FALSE]

Pending(s) == {k \in Keys : batch[s][k] # 0}
EndWrites(s) == /\ pc[s] \in Writing
                /\ Goto(s, After[pc[s]])
                /\ UNCHANGED <<stores, redis, redisUp, alive, batch, ok, start, disturbed>>

\* Faulty: the loop over the replies ends one too early.
WriteEnd_OneShort(s) == Cardinality(Pending(s)) <= 1 /\ EndWrites(s)

WriteEnd(s) == Pending(s) = {} /\ EndWrites(s)

\* update_stats.
UpdateStats(s) ==
  /\ pc[s] = "update"
  /\ Goto(s, "idle")
  /\ ok' = [ok EXCEPT ![s] = TRUE]
  /\ start' = [start EXCEPT ![s] = Nothing]
  /\ disturbed' = disturbed \ {s}
  /\ UNCHANGED <<stores, redis, redisUp, alive, batch>>

Step(s) ==
  \/ Count(s) \/ SyncFails(s) \/ SyncNothing(s) \/ SyncRead(s) \/ WriteEnd(s) \/ UpdateStats(s)
  \/ \E k \in Keys : WriteDone(s, k) \/ WriteLost(s, k) \/ WriteFails(s, k)

-----------------------------------------------------------------------------
(* What happens around the service.                                        *)

Around == UNCHANGED <<alive, pc, batch, ok, start>>

NewRow(k) ==
  /\ db[k] < MaxVersion[k]
  /\ db' = [db EXCEPT ![k] = @ + 1]
  /\ bad' \in {bad \ {k}, bad \cup ({k} \cap Nullable)}
  /\ Around /\ UNCHANGED <<dbUp, redis, refusing, redisUp, disturbed>>

DatabaseTurns ==
  /\ dbUp' = ~dbUp
  /\ Around /\ UNCHANGED <<db, bad, redis, refusing, redisUp, disturbed>>

RedisTurns ==
  /\ refusing' = ~refusing
  /\ Around /\ UNCHANGED <<db, bad, dbUp, redis, redisUp, disturbed>>

RedisBreaks ==
  /\ redisUp /\ redisUp' = FALSE
  /\ Around /\ UNCHANGED <<stores, redis, disturbed>>

\* A key lives for an hour after it was written, and is written every five
\* seconds while that is possible.
Expire(k) ==
  /\ redis[k] # 0
  /\ ~(dbUp /\ redisUp /\ ~refusing)
  /\ redis' = [redis EXCEPT ![k] = 0]
  /\ disturbed' = disturbed \cup Running
  /\ Around /\ UNCHANGED <<stores, redisUp>>

Environment == \/ DatabaseTurns \/ RedisTurns \/ RedisBreaks
               \/ \E k \in Keys : NewRow(k) \/ Expire(k)

\* The process has been terminated.
Terminated == ~alive /\ UNCHANGED vars

Next == \/ alive /\ (Environment \/ \E s \in Syncs : Launch(s) \/ Step(s))
        \/ Terminated

Safety == Init /\ [][Next]_vars

\* The scheduler goes on launching, and a query or a write ends, with an
\* answer or an error.
Spec == /\ Safety
        /\ WF_vars(alive /\ \E s \in Syncs : Launch(s))
        /\ \A s \in Syncs : WF_vars(alive /\ Step(s))

-----------------------------------------------------------------------------
\* A batch is held only while it is written, and Redis holds nothing that the
\* database does not.
TypeOK ==
  /\ db \in [Keys -> Nat] /\ bad \subseteq Nullable
  /\ redis \in [Keys -> Nat] /\ \A k \in Keys : redis[k] <= db[k]
  /\ dbUp \in BOOLEAN /\ refusing \in BOOLEAN /\ redisUp \in BOOLEAN /\ alive \in BOOLEAN
  /\ pc \in [Syncs -> Places]
  /\ batch \in [Syncs -> [Keys -> Nat]]
  /\ \A s \in Syncs : pc[s] \notin Writing => batch[s] = Nothing
  /\ ok \in [Syncs -> BOOLEAN]
  /\ start \in [Syncs -> [Keys -> Nat]]
  /\ disturbed \subseteq Syncs

\* Redis goes back to an older record only by a sync that another one has
\* overtaken (scheduler.cpp:75 launches them without waiting).
NeverBack ==
  [][\A k \in Keys :
       0 < redis'[k] /\ redis'[k] < redis[k]
         => \E s \in disturbed : batch[s][k] = redis'[k]]_vars

\* A sync that nothing has disturbed and that reports success (:121) has
\* brought Redis at least to where the database was when it was launched.
Delivered ==
  \A s \in Syncs :
    pc[s] = "update" /\ ok[s] /\ s \notin disturbed
      => \A k \in Keys : start[s][k] <= redis[k]

\* While the process and the connection last, and the database and Redis come
\* to serve for good, Redis holds the newest records in the end.
Fresh ==
  [](alive /\ redisUp) /\ <>[](dbUp /\ ~refusing) => <>[](redis = db)
=============================================================================
