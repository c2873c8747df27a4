--------------------------- MODULE DataSyncProofs ---------------------------
(***************************************************************************)
(* Proofs about DataSync, for any number of keys, rows and overlapping     *)
(* syncs: its type invariant, that Redis goes back only by a sync that was *)
(* overtaken, and that an undisturbed sync that reports success has        *)
(* delivered.                                                              *)
(***************************************************************************)
EXTENDS DataSync, TLAPS

Types ==
  /\ db \in [Keys -> Nat] /\ bad \subseteq Nullable
  /\ redis \in [Keys -> Nat]
  /\ dbUp \in BOOLEAN /\ refusing \in BOOLEAN /\ redisUp \in BOOLEAN /\ alive \in BOOLEAN
  /\ pc \in [Syncs -> Places]
  /\ batch \in [Syncs -> [Keys -> Nat]]
  /\ ok \in [Syncs -> BOOLEAN]
  /\ start \in [Syncs -> [Keys -> Nat]]
  /\ disturbed \subseteq Running

\* Neither Redis nor a sync is ahead of the database; and what a sync holds
\* is as new as the database was at its launch.
RowsInv ==
  /\ \A k \in Keys : redis[k] <= db[k]
  /\ \A s \in Syncs, k \in Keys :
       /\ batch[s][k] <= db[k] /\ start[s][k] <= db[k]
       /\ batch[s][k] # 0 => pc[s] \in Writing /\ k \in Table(s) /\ start[s][k] <= batch[s][k]

\* Redis is not ahead of what an undisturbed sync holds, and has what it has
\* written.
Has(s, keys) == \A k \in keys : start[s][k] <= redis[k]
SyncInv ==
  \A s \in Syncs \ disturbed :
    /\ \A k \in Keys : batch[s][k] # 0 => redis[k] <= batch[s][k]
    /\ ok[s] =>
         /\ pc[s] = "writeRaw" => Has(s, RawKeys \ Pending(s))
         /\ pc[s] \in {"stats", "writeStats", "update"} => Has(s, RawKeys)
         /\ pc[s] = "writeStats" => Has(s, StatsKeys \ Pending(s))
         /\ pc[s] = "update" => Has(s, StatsKeys)

IInv == Types /\ RowsInv /\ SyncInv

-----------------------------------------------------------------------------
LEMMA AfterWhat ==
  /\ After["raw"] = "stats" /\ After["writeRaw"] = "stats"
  /\ After["stats"] = "update" /\ After["writeStats"] = "update"
  BY DEF After

\* What does not touch Redis, a batch or a start keeps the invariant, if every
\* sync stays where it is and the database only gains rows.
LEMMA SyncsRest ==
  ASSUME IInv, UNCHANGED <<redis, pc, batch, ok, start, disturbed>>,
         \A k \in Keys : db[k] <= db'[k], db' \in [Keys -> Nat], bad' \subseteq Nullable,
         dbUp' \in BOOLEAN, refusing' \in BOOLEAN, redisUp' \in BOOLEAN, alive' \in BOOLEAN
  PROVE  IInv'
<1>1. Types'
  BY DEF IInv, Types, Running
<1>2. RowsInv'
  <2>1. ASSUME NEW k \in Keys, NEW n \in Nat, n <= db[k] PROVE n <= db'[k]
    BY <2>1 DEF IInv, Types
  <2>2. \A k \in Keys : redis[k] \in Nat /\ \A s \in Syncs : batch[s][k] \in Nat /\ start[s][k] \in Nat
    BY DEF IInv, Types
  <2>3. QED
    BY <2>1, <2>2 DEF IInv, RowsInv, Table
<1>3. SyncInv'
  BY DEF IInv, SyncInv, Has, Pending
<1>4. QED
  BY <1>1, <1>2, <1>3 DEF IInv

LEMMA LaunchKeeps == ASSUME IInv, NEW s \in Syncs, Launch(s) PROVE IInv'
<1>0. /\ pc[s] = "idle" /\ pc' = [pc EXCEPT ![s] = "count"]
      /\ start' = [start EXCEPT ![s] = db]
      /\ UNCHANGED <<db, bad, dbUp, refusing, redis, redisUp, alive, batch, ok, disturbed>>
  BY DEF Launch, Goto, stores
<1>1. Types'
  BY <1>0 DEF IInv, Types, Running, Places
<1>2. RowsInv'
  <2>1. \A k \in Keys : batch[s][k] = 0
    BY <1>0 DEF IInv, RowsInv, Writing
  <2>2. ASSUME NEW t \in Syncs, NEW k \in Keys
        PROVE  /\ batch'[t][k] <= db'[k] /\ start'[t][k] <= db'[k]
               /\ batch'[t][k] # 0 => /\ pc'[t] \in Writing /\ k \in Table(t)'
                                      /\ start'[t][k] <= batch'[t][k]
    BY <1>0, <2>1 DEF IInv, Types, RowsInv, Table
  <2>3. QED
    BY <1>0, <2>2 DEF IInv, RowsInv
<1>3. SyncInv'
  <2> SUFFICES ASSUME NEW t \in Syncs \ disturbed
               PROVE  /\ \A k \in Keys : batch[t][k] # 0 => redis[k] <= batch[t][k]
                      /\ ok[t] =>
                           /\ pc'[t] = "writeRaw" => Has(t, RawKeys \ Pending(t))'
                           /\ pc'[t] \in {"stats", "writeStats", "update"} => Has(t, RawKeys)'
                           /\ pc'[t] = "writeStats" => Has(t, StatsKeys \ Pending(t))'
                           /\ pc'[t] = "update" => Has(t, StatsKeys)'
    BY <1>0 DEF SyncInv
  <2>1. CASE t = s
    BY <1>0, <2>1 DEF IInv, Types, SyncInv
  <2>2. CASE t # s
    BY <1>0, <2>2 DEF IInv, Types, SyncInv, Has, Pending, Keys
  <2>3. QED
    BY <2>1, <2>2
<1>4. QED
  BY <1>1, <1>2, <1>3 DEF IInv

\* What the invariant asks of one sync.
Synced(s) ==
  s \notin disturbed =>
    /\ \A k \in Keys : batch[s][k] # 0 => redis[k] <= batch[s][k]
    /\ ok[s] =>
         /\ pc[s] = "writeRaw" => Has(s, RawKeys \ Pending(s))
         /\ pc[s] \in {"stats", "writeStats", "update"} => Has(s, RawKeys)
         /\ pc[s] = "writeStats" => Has(s, StatsKeys \ Pending(s))
         /\ pc[s] = "update" => Has(s, StatsKeys)

LEMMA SyncInvIs == SyncInv <=> \A s \in Syncs : Synced(s)
  BY DEF SyncInv, Synced

LEMMA SyncInvIsNext == SyncInv' <=> \A s \in Syncs : Synced(s)'
  BY DEF SyncInv, Synced

\* A sync that moves on holding nothing, with Redis as it was.
LEMMA MoveKeeps ==
  ASSUME IInv, NEW s \in Syncs, NEW place \in Places \ Writing,
         pc' = [pc EXCEPT ![s] = place], Pending(s) = {},
         ok' \in [Syncs -> BOOLEAN], \A t \in Syncs \ {s} : ok'[t] = ok[t],
         disturbed' \in {disturbed, disturbed \cup {s}}, pc[s] # "idle", place # "idle",
         UNCHANGED <<db, bad, dbUp, refusing, redis, redisUp, batch, start>>,
         alive' \in BOOLEAN,
         s \notin disturbed' /\ ok'[s] =>
           /\ place \in {"stats", "update"} => Has(s, RawKeys)
           /\ place = "update" => Has(s, StatsKeys)
  PROVE  IInv'
<1>1. Types'
  BY DEF IInv, Types, Running
<1>2. \A k \in Keys : batch[s][k] = 0
  BY DEF Pending
<1>3. RowsInv'
  <2>1. ASSUME NEW t \in Syncs, NEW k \in Keys
        PROVE  /\ batch'[t][k] <= db'[k] /\ start'[t][k] <= db'[k]
               /\ batch'[t][k] # 0 => /\ pc'[t] \in Writing /\ k \in Table(t)'
                                      /\ start'[t][k] <= batch'[t][k]
    BY <1>2 DEF IInv, Types, RowsInv, Table
  <2>2. QED
    BY <2>1 DEF IInv, RowsInv
<1>4. ASSUME NEW t \in Syncs PROVE Synced(t)'
  <2>1. CASE t = s
    BY <1>2, <2>1 DEF IInv, Types, Synced, Has, Writing
  <2>2. CASE t # s
    BY <2>2, SyncInvIs DEF IInv, Types, Synced, Has, Pending
  <2>3. QED
    BY <2>1, <2>2
<1>5. QED
  BY <1>1, <1>3, <1>4, SyncInvIsNext DEF IInv

LEMMA CountKeeps == ASSUME IInv, NEW s \in Syncs, Count(s) PROVE IInv'
<1>1. CASE Malformed(Keys)
  <2>1. UNCHANGED <<db, bad, dbUp, refusing, redis, redisUp, pc, batch, ok, start, disturbed>>
        /\ alive' \in BOOLEAN
    BY <1>1 DEF Count, stores
  <2>2. db' \in [Keys -> Nat] /\ \A k \in Keys : db[k] <= db'[k]
    BY <2>1 DEF IInv, Types
  <2>3. QED
    BY <2>1, <2>2, SyncsRest DEF IInv, Types
<1>2. CASE ~Malformed(Keys)
  <2>1. Pending(s) = {} /\ "raw" \in Places \ Writing
    BY <1>2 DEF Count, IInv, RowsInv, Pending, Writing, Places, Syncing
  <2>2. QED
    BY <1>2, <2>1, MoveKeeps DEF IInv, Types, Count, Goto, stores
<1>3. QED
  BY <1>1, <1>2

LEMMA SyncFailsKeeps == ASSUME IInv, NEW s \in Syncs, SyncFails(s) PROVE IInv'
<1>1. Pending(s) = {} /\ After[pc[s]] \in Places \ Writing /\ After[pc[s]] # "idle"
  BY AfterWhat DEF SyncFails, IInv, RowsInv, Pending, Writing, Places, Syncing
<1>2. ok'[s] = FALSE /\ pc[s] # "idle" /\ ok' \in [Syncs -> BOOLEAN]
      /\ \A t \in Syncs \ {s} : ok'[t] = ok[t]
  BY DEF SyncFails, IInv, Types, Syncing
<1>3. /\ pc' = [pc EXCEPT ![s] = After[pc[s]]] /\ UNCHANGED disturbed
      /\ UNCHANGED <<db, bad, dbUp, refusing, redis, redisUp, batch, start, alive>>
      /\ alive' \in BOOLEAN
  BY DEF SyncFails, Goto, stores, IInv, Types
<1>4. QED
  BY <1>1, <1>2, <1>3, MoveKeeps

LEMMA SyncNothingKeeps == ASSUME IInv, NEW s \in Syncs, SyncNothing(s) PROVE IInv'
<1>1. Pending(s) = {} /\ After[pc[s]] \in Places \ Writing /\ After[pc[s]] # "idle"
  BY AfterWhat DEF SyncNothing, FindNothing, IInv, RowsInv, Pending, Writing, Places, Syncing
<1>2. /\ pc' = [pc EXCEPT ![s] = After[pc[s]]] /\ pc[s] \in {"raw", "stats"}
      /\ disturbed' = IF dbUp THEN disturbed ELSE disturbed \cup {s}
      /\ UNCHANGED <<db, bad, dbUp, refusing, redis, redisUp, batch, start, alive, ok>>
      /\ alive' \in BOOLEAN /\ ok' \in [Syncs -> BOOLEAN]
      /\ ~dbUp \/ \A k \in Table(s) : db[k] = 0
  BY DEF SyncNothing, FindNothing, Goto, stores, IInv, Types, Syncing
<1>3. ASSUME dbUp PROVE Has(s, Table(s))
  <2>1. \A k \in Table(s) : k \in Keys /\ db[k] = 0
    BY <1>2, <1>3 DEF Table, Keys
  <2>2. \A k \in Table(s) : start[s][k] <= db[k] /\ start[s][k] \in Nat /\ redis[k] \in Nat
    BY <2>1 DEF IInv, RowsInv, Types
  <2>3. QED
    BY <2>1, <2>2 DEF Has
<1>4. s \notin disturbed' /\ ok'[s] =>
        /\ After[pc[s]] \in {"stats", "update"} => Has(s, RawKeys)
        /\ After[pc[s]] = "update" => Has(s, StatsKeys)
  <2> SUFFICES ASSUME s \notin disturbed', ok'[s]
               PROVE  /\ After[pc[s]] \in {"stats", "update"} => Has(s, RawKeys)
                      /\ After[pc[s]] = "update" => Has(s, StatsKeys)
    OBVIOUS
  <2>1. dbUp /\ s \notin disturbed /\ ok[s]
    BY <1>2
  <2>2. CASE pc[s] = "raw"
    BY <1>3, <2>1, <2>2, AfterWhat DEF Table
  <2>3. CASE pc[s] = "stats"
    BY <1>3, <2>1, <2>3, AfterWhat, SyncInvIs DEF Table, IInv, Synced
  <2>4. QED
    BY <1>2, <2>2, <2>3
<1>5. QED
  BY <1>1, <1>2, <1>4, MoveKeeps

LEMMA WriteEndKeeps == ASSUME IInv, NEW s \in Syncs, WriteEnd(s) PROVE IInv'
<1>1. Pending(s) = {} /\ After[pc[s]] \in Places \ Writing /\ After[pc[s]] # "idle"
  BY AfterWhat DEF WriteEnd, EndWrites, Writing, Places, Syncing
<1>2. /\ pc' = [pc EXCEPT ![s] = After[pc[s]]] /\ pc[s] \in {"writeRaw", "writeStats"}
      /\ UNCHANGED <<db, bad, dbUp, refusing, redis, redisUp, batch, start, alive, ok, disturbed>>
      /\ alive' \in BOOLEAN /\ ok' \in [Syncs -> BOOLEAN]
  BY DEF WriteEnd, EndWrites, Goto, stores, IInv, Types, Writing
<1>3. s \notin disturbed' /\ ok'[s] =>
        /\ After[pc[s]] \in {"stats", "update"} => Has(s, RawKeys)
        /\ After[pc[s]] = "update" => Has(s, StatsKeys)
  BY <1>1, <1>2, AfterWhat, SyncInvIs DEF IInv, Synced, Has
<1>4. QED
  BY <1>1, <1>2, <1>3, MoveKeeps

\* The rows that were read are held, and nothing is written yet.
LEMMA SyncReadKeeps == ASSUME IInv, NEW s \in Syncs, SyncRead(s) PROVE IInv'
<1> DEFINE place == IF pc[s] = "raw" THEN "writeRaw" ELSE "writeStats"
<1>1. PICK rows \in [Keys -> UNION {0 .. db[k] : k \in Keys}] :
        /\ \A k \in Keys : IF k \in Table(s) THEN rows[k] \in LatestRows(k) ELSE rows[k] = 0
        /\ batch' = [batch EXCEPT ![s] = rows]
  BY DEF SyncRead
<1>2. \A k \in Keys : rows[k] = IF k \in Table(s) THEN db[k] ELSE 0
  BY <1>1 DEF LatestRows
<1>3. /\ pc[s] \in {"raw", "stats"} /\ pc' = [pc EXCEPT ![s] = place]
      /\ UNCHANGED <<db, bad, dbUp, refusing, redis, redisUp, alive, ok, start, disturbed>>
  BY DEF SyncRead, Goto, stores, Syncing
<1>4. rows \in [Keys -> Nat]
  BY <1>1, <1>2 DEF IInv, Types
<1>5. place \in Writing /\ Table(s)' = Table(s) /\ Table(s) \subseteq Keys /\ pc'[s] = place
  BY <1>3 DEF Writing, Table, Keys, IInv, Types
<1>6. Types'
  BY <1>1, <1>3, <1>4, <1>5 DEF IInv, Types, Running, Places, Writing
<1>7. RowsInv'
  <2>1. ASSUME NEW t \in Syncs, NEW k \in Keys
        PROVE  /\ batch'[t][k] <= db'[k] /\ start'[t][k] <= db'[k]
               /\ batch'[t][k] # 0 => /\ pc'[t] \in Writing /\ k \in Table(t)'
                                      /\ start'[t][k] <= batch'[t][k]
    <3>1. CASE t = s
      <4>1. batch'[s][k] = IF k \in Table(s) THEN db[k] ELSE 0
        BY <1>1, <1>2 DEF IInv, Types
      <4>2. db[k] \in Nat /\ start[s][k] <= db[k] /\ UNCHANGED <<db, start>>
        BY <1>3 DEF IInv, Types, RowsInv
      <4>3. QED
        BY <1>5, <3>1, <4>1, <4>2
    <3>2. CASE t # s
      BY <1>1, <1>3, <3>2 DEF IInv, Types, RowsInv, Table
    <3>3. QED
      BY <3>1, <3>2
  <2>2. QED
    BY <1>3, <2>1 DEF IInv, RowsInv
<1>8. ASSUME NEW t \in Syncs PROVE Synced(t)'
  <2>1. CASE t = s
    <3>1. ASSUME NEW k \in Keys, batch'[s][k] # 0 PROVE redis'[k] <= batch'[s][k]
      BY <1>1, <1>2, <1>3, <3>1 DEF IInv, Types, RowsInv
    <3>2. Has(s, Table(s) \ Pending(s))'
      <4>1. ASSUME NEW k \in Table(s), k \notin Pending(s)' PROVE start[s][k] <= redis[k]
        <5>1. k \in Keys /\ batch'[s][k] = db[k]
          BY <1>1, <1>2, <1>5 DEF IInv, Types
        <5>2. db[k] = 0
          BY <4>1, <5>1 DEF Pending
        <5>3. QED
          BY <5>1, <5>2 DEF IInv, Types, RowsInv
      <4>2. QED
        BY <1>3, <1>5, <4>1 DEF Has
    <3>3. CASE pc[s] = "raw"
      BY <1>3, <1>5, <2>1, <3>1, <3>2, <3>3 DEF Synced, Table
    <3>4. CASE pc[s] = "stats"
      <4>1. s \notin disturbed' /\ ok'[s] => Has(s, RawKeys)'
        BY <1>3, <3>4, SyncInvIs DEF IInv, Synced, Has
      <4>2. pc'[s] = "writeStats" /\ Has(s, StatsKeys \ Pending(s))'
        BY <1>5, <3>2, <3>4 DEF Table, Has
      <4>3. QED
        BY <2>1, <3>1, <4>1, <4>2 DEF Synced
    <3>5. QED
      BY <1>3, <3>3, <3>4
  <2>2. CASE t # s
    BY <1>1, <1>3, <2>2, SyncInvIs DEF IInv, Types, Synced, Has, Pending
  <2>3. QED
    BY <2>1, <2>2
<1>9. QED
  BY <1>6, <1>7, <1>8, SyncInvIsNext DEF IInv

\* What one entry of a batch becomes when it has been gone through.
LEMMA Popped ==
  ASSUME IInv, NEW s \in Syncs, NEW k \in Keys, Pop(s, k)
  PROVE  /\ batch' \in [Syncs -> [Keys -> Nat]]
         /\ \A t \in Syncs, j \in Keys :
              batch'[t][j] = IF t = s /\ j = k THEN 0 ELSE batch[t][j]
         /\ pc[s] \in Writing /\ batch[s][k] # 0 /\ k \in Table(s)
         /\ start[s][k] <= batch[s][k] /\ batch[s][k] <= db[k]
         /\ UNCHANGED <<db, bad, dbUp, refusing, alive, pc, start>>
<1>1. \A t \in Syncs : batch[t] \in [Keys -> Nat]
  BY DEF IInv, Types
<1>2. batch' = [batch EXCEPT ![s] = [batch[s] EXCEPT ![k] = 0]]
  BY DEF Pop, IInv, Types
<1>3. QED
  BY <1>1, <1>2 DEF Pop, IInv, Types, RowsInv, stores

\* A sync that holds one entry less, with Redis as it was or holding the entry.
LEMMA WriteKeeps ==
  ASSUME IInv, NEW s \in Syncs, NEW k \in Keys, Pop(s, k), redisUp' \in BOOLEAN,
         ok' \in [Syncs -> BOOLEAN], \A t \in Syncs \ {s} : ok'[t] = ok[t],
         ok'[s] => ok[s] /\ Apply(s, k),
         Apply(s, k) \/ UNCHANGED <<redis, disturbed>>
  PROVE  IInv'
<1> USE Popped
<1>0. /\ UNCHANGED <<db, start, pc>>
      /\ \A j \in Keys : redis[j] \in Nat /\ db[j] \in Nat
      /\ \A t \in Syncs, j \in Keys : batch[t][j] \in Nat /\ start[t][j] \in Nat
      /\ \A j \in Keys : redis'[j] = redis[j] \/ (j = k /\ Apply(s, k) /\ redis'[j] = batch[s][k])
  BY DEF IInv, Types, Apply
<1>1. Types'
  <2>1. redis' \in [Keys -> Nat]
    BY <1>0 DEF IInv, Types, Apply
  <2>2. disturbed' \subseteq Running'
    BY <1>0 DEF IInv, Types, Apply, Running
  <2>3. QED
    BY <2>1, <2>2 DEF IInv, Types
<1>2. RowsInv'
  <2>1. \A j \in Keys : redis'[j] <= db'[j]
    BY <1>0 DEF IInv, RowsInv
  <2>2. ASSUME NEW t \in Syncs, NEW j \in Keys
        PROVE  /\ batch'[t][j] <= db'[j] /\ start'[t][j] <= db'[j]
               /\ batch'[t][j] # 0 => /\ pc'[t] \in Writing /\ j \in Table(t)'
                                      /\ start'[t][j] <= batch'[t][j]
    BY <1>0 DEF IInv, RowsInv, Table
  <2>3. QED
    BY <2>1, <2>2 DEF RowsInv
<1>3. ASSUME NEW t \in Syncs PROVE Synced(t)'
  <2> SUFFICES ASSUME t \notin disturbed' PROVE Synced(t)'
    BY DEF Synced
  <2>0. t \notin disturbed /\ Synced(t)
    BY SyncInvIs DEF Apply, IInv
  <2>1. CASE t = s
    <3>1. \A j \in Keys : batch'[s][j] # 0 => redis'[j] <= batch'[s][j]
      BY <1>0, <2>0, <2>1 DEF Synced
    <3>3. ASSUME ok'[s] PROVE redis'[k] = batch[s][k] /\ \A j \in Keys \ {k} : redis'[j] = redis[j]
      BY <1>0, <3>3 DEF Apply, IInv, Types
    <3>5. ASSUME ok'[s], pc[s] = "writeRaw" PROVE Has(s, RawKeys \ Pending(s))'
      <4>1. Has(s, RawKeys \ Pending(s))
        BY <2>0, <2>1, <3>5 DEF Synced
      <4>2. \A j \in RawKeys \ Pending(s)' : j # k => j \in RawKeys \ Pending(s)
        BY DEF Pending, Keys
      <4>3. \A j \in RawKeys \ Pending(s)' : start'[s][j] <= redis'[j]
        BY <1>0, <3>3, <3>5, <4>1, <4>2 DEF Has, Keys
      <4>4. QED
        BY <4>3 DEF Has
    <3>6. ASSUME ok'[s], pc[s] = "writeStats"
          PROVE  Has(s, RawKeys)' /\ Has(s, StatsKeys \ Pending(s))'
      <4>1. Has(s, RawKeys) /\ Has(s, StatsKeys \ Pending(s))
        BY <2>0, <2>1, <3>6 DEF Synced
      <4>2. \A j \in StatsKeys \ Pending(s)' : j # k => j \in StatsKeys \ Pending(s)
        BY DEF Pending, Keys
      <4>3. \A j \in StatsKeys \ Pending(s)' : start'[s][j] <= redis'[j]
        BY <1>0, <3>3, <3>6, <4>1, <4>2 DEF Has, Keys
      <4>4. \A j \in RawKeys : start'[s][j] <= redis'[j]
        BY <1>0, <3>3, <3>6, <4>1 DEF Has, Keys
      <4>5. QED
        BY <4>3, <4>4 DEF Has
    <3>7. QED
      BY <1>0, <2>1, <3>1, <3>5, <3>6 DEF Synced, Writing
  <2>2. CASE t # s /\ Apply(s, k)
    <3>1. pc[t] = "idle"
      BY <2>2 DEF Apply, Running
    <3>2. \A j \in Keys : batch[t][j] = 0
      BY <3>1 DEF IInv, RowsInv, Writing
    <3>3. QED
      BY <1>0, <2>2, <3>1, <3>2 DEF Synced
  <2>3. CASE t # s /\ UNCHANGED <<redis, disturbed>>
    BY <1>0, <2>0, <2>3 DEF Synced, Has, Pending, Keys
  <2>4. QED
    BY <2>1, <2>2, <2>3
<1>4. QED
  BY <1>1, <1>2, <1>3, SyncInvIsNext DEF IInv

LEMMA UpdateStatsKeeps == ASSUME IInv, NEW s \in Syncs, UpdateStats(s) PROVE IInv'
<1>0. /\ pc[s] = "update" /\ pc' = [pc EXCEPT ![s] = "idle"]
      /\ ok' = [ok EXCEPT ![s] = TRUE] /\ start' = [start EXCEPT ![s] = Nothing]
      /\ disturbed' = disturbed \ {s}
      /\ UNCHANGED <<db, bad, dbUp, refusing, redis, redisUp, alive, batch>>
  BY DEF UpdateStats, Goto, stores
<1>1. Types'
  BY <1>0 DEF IInv, Types, Running, Places, Nothing
<1>2. \A k \in Keys : batch[s][k] = 0 /\ start'[s][k] = 0
  BY <1>0 DEF IInv, Types, RowsInv, Writing, Nothing
<1>3. RowsInv'
  <2>1. ASSUME NEW t \in Syncs, NEW k \in Keys
        PROVE  /\ batch'[t][k] <= db'[k] /\ start'[t][k] <= db'[k]
               /\ batch'[t][k] # 0 => /\ pc'[t] \in Writing /\ k \in Table(t)'
                                      /\ start'[t][k] <= batch'[t][k]
    BY <1>0, <1>2 DEF IInv, Types, RowsInv, Table
  <2>2. QED
    BY <1>0, <2>1 DEF IInv, RowsInv
<1>4. ASSUME NEW t \in Syncs PROVE Synced(t)'
  <2>1. CASE t = s
    BY <1>0, <1>2, <2>1 DEF IInv, Types, Synced
  <2>2. CASE t # s
    BY <1>0, <2>2, SyncInvIs DEF IInv, Types, Synced, Has, Pending, Keys
  <2>3. QED
    BY <2>1, <2>2
<1>5. QED
  BY <1>1, <1>3, <1>4, SyncInvIsNext DEF IInv

LEMMA ExpireKeeps == ASSUME IInv, NEW k \in Keys, Expire(k) PROVE IInv'
<1>0. /\ redis' = [redis EXCEPT ![k] = 0] /\ disturbed' = Running
      /\ UNCHANGED <<db, bad, dbUp, refusing, redisUp, alive, pc, batch, ok, start>>
  BY DEF Expire, Around, stores, IInv, Types
<1>1. Types'
  BY <1>0 DEF IInv, Types, Running
<1>2. RowsInv'
  BY <1>0 DEF IInv, Types, RowsInv, Table
<1>3. ASSUME NEW s \in Syncs \ Running PROVE Synced(s)'
  BY <1>0, <1>3 DEF IInv, RowsInv, Synced, Running, Writing
<1>4. QED
  BY <1>0, <1>1, <1>2, <1>3, SyncInvIsNext DEF IInv, Synced

-----------------------------------------------------------------------------
LEMMA IInvCorrect == Safety => []IInv
<1>1. Init => IInv
  <2> SUFFICES ASSUME Init PROVE IInv
    OBVIOUS
  <2>1. Types
    BY DEF Init, Types, Running, Places, Nothing
  <2>2. RowsInv
    BY <2>1 DEF Init, Types, RowsInv, Nothing
  <2>3. SyncInv
    BY DEF Init, SyncInv, Nothing
  <2>4. QED
    BY <2>1, <2>2, <2>3 DEF IInv
<1>2. IInv /\ [Next]_vars => IInv'
  <2> SUFFICES ASSUME IInv, [Next]_vars PROVE IInv'
    OBVIOUS
  <2>0. ok \in [Syncs -> BOOLEAN] /\ redisUp \in BOOLEAN /\ db \in [Keys -> Nat]
    BY DEF IInv, Types
  <2>1. ASSUME NEW s \in Syncs, NEW k \in Keys, WriteDone(s, k) \/ WriteLost(s, k) \/ WriteFails(s, k)
        PROVE  IInv'
    <3>1. CASE WriteDone(s, k)
      BY <2>0, <3>1, WriteKeeps DEF WriteDone
    <3>2. CASE WriteLost(s, k)
      BY <2>0, <3>2, WriteKeeps DEF WriteLost
    <3>3. CASE WriteFails(s, k)
      BY <2>0, <3>3, WriteKeeps DEF WriteFails, Unwritten
    <3>4. QED
      BY <2>1, <3>1, <3>2, <3>3
  <2>2. ASSUME NEW s \in Syncs, Step(s) PROVE IInv'
    BY <2>1, <2>2, CountKeeps, SyncFailsKeeps, SyncNothingKeeps, SyncReadKeeps, WriteEndKeeps,
       UpdateStatsKeeps DEF Step
  <2>3. ASSUME NEW k \in Keys, NewRow(k) PROVE IInv'
    <3>1. /\ UNCHANGED <<redis, pc, batch, ok, start, disturbed, dbUp, refusing, redisUp, alive>>
          /\ db' \in [Keys -> Nat] /\ bad' \subseteq Nullable /\ \A j \in Keys : db[j] <= db'[j]
      BY <2>3 DEF NewRow, Around, IInv, Types
    <3>2. QED
      BY <3>1, SyncsRest DEF IInv, Types
  <2>4. CASE DatabaseTurns \/ RedisTurns \/ RedisBreaks \/ Terminated \/ UNCHANGED vars
    <3>1. /\ UNCHANGED <<redis, pc, batch, ok, start, disturbed, db, bad, alive>>
          /\ dbUp' \in BOOLEAN /\ refusing' \in BOOLEAN /\ redisUp' \in BOOLEAN
      BY <2>4 DEF DatabaseTurns, RedisTurns, RedisBreaks, Terminated, vars, stores, Around, IInv, Types
    <3>2. \A j \in Keys : db[j] <= db'[j]
      BY <2>0, <3>1
    <3>3. QED
      BY <3>1, <3>2, SyncsRest DEF IInv, Types
  <2>5. QED
    BY <2>2, <2>3, <2>4, LaunchKeeps, ExpireKeeps DEF Next, Environment
<1>3. QED
  BY <1>1, <1>2, PTL DEF Safety

\* The variables keep their types; a sync holds rows only while it writes
\* them, and Redis is never ahead of the database.
THEOREM TypeCorrect == Safety => []TypeOK
<1>1. IInv => TypeOK
  <2> SUFFICES ASSUME IInv PROVE TypeOK
    OBVIOUS
  <2>1. ASSUME NEW s \in Syncs, pc[s] \notin Writing PROVE batch[s] = Nothing
    <3>1. \A k \in Keys : batch[s][k] = 0
      BY <2>1 DEF IInv, RowsInv
    <3>2. batch[s] \in [Keys -> Nat]
      BY DEF IInv, Types
    <3>3. QED
      BY <3>1, <3>2 DEF Nothing
  <2>2. QED
    BY <2>1 DEF IInv, Types, RowsInv, TypeOK, Running
<1>2. QED
  BY <1>1, IInvCorrect, PTL

\* However many syncs overlap, an undisturbed one that reports success has
\* brought Redis to where the database was at its launch.
THEOREM DeliveredCorrect == Safety => []Delivered
<1>1. IInv => Delivered
  BY DEF IInv, SyncInv, Delivered, Has, Keys
<1>2. QED
  BY <1>1, IInvCorrect, PTL

\* Redis goes back to an older record only by a sync that was overtaken.
THEOREM NeverBackCorrect == Safety => NeverBack
<1> DEFINE Back(k) == 0 < redis'[k] /\ redis'[k] < redis[k]
           Overtaken(k) == \E s \in disturbed : batch[s][k] = redis'[k]
<1>1. IInv /\ [Next]_vars => [\A k \in Keys : Back(k) => Overtaken(k)]_vars
  <2> SUFFICES ASSUME IInv, Next, NEW k \in Keys, Back(k) PROVE Overtaken(k)
    OBVIOUS
  <2>0. \A j \in Keys : redis[j] \in Nat
    BY DEF IInv, Types
  <2>1. ASSUME NEW s \in Syncs, NEW j \in Keys, Pop(s, j), Apply(s, j) PROVE Overtaken(k)
    <3>1. j = k /\ redis'[k] = batch[s][k]
      BY <2>0, <2>1 DEF Apply, IInv, Types
    <3>2. batch[s][k] # 0 /\ batch[s][k] \in Nat
      BY <2>1, <3>1 DEF Pop, IInv, Types
    <3>3. s \in disturbed
      <4>1. SUFFICES ASSUME s \notin disturbed PROVE FALSE
        OBVIOUS
      <4>2. redis[k] <= batch[s][k]
        BY <3>2, <4>1, SyncInvIs DEF IInv, Synced
      <4>3. QED
        BY <2>0, <3>1, <3>2, <4>2
    <3>4. QED
      BY <3>1, <3>3
  <2>2. ASSUME NEW j \in Keys, Expire(j) PROVE FALSE
    BY <2>0, <2>2 DEF Expire, IInv, Types
  <2>3. ASSUME UNCHANGED redis PROVE FALSE
    BY <2>0, <2>3
  <2>4. QED
    BY <2>1, <2>2, <2>3
       DEF Next, Environment, Step, Launch, Count, SyncFails, SyncNothing, FindNothing, SyncRead,
           WriteEnd, EndWrites, UpdateStats, WriteDone, WriteLost, WriteFails, Unwritten,
           NewRow, DatabaseTurns, RedisTurns, RedisBreaks, Terminated, vars, stores
<1>2. QED
  BY <1>1, IInvCorrect, PTL DEF Safety, NeverBack
=============================================================================
