-------------------------- MODULE HttpServerProofs --------------------------
(***************************************************************************)
(* Proofs about HttpServer, for any connections, workers, requests and     *)
(* timeout.  The inductive invariant says who holds a connection: a handler*)
(* in the queue of its worker, or a pending read, but never both, and at   *)
(* most one deadline, on that worker's timer and only while the socket is  *)
(* open.  What a connection has answered is followed through the handlers  *)
(* of a request, and through a chunk of any length by induction.           *)
(***************************************************************************)
EXTENDS HttpServer, NatFacts, FiniteSetTheorems, SequenceTheorems

-----------------------------------------------------------------------------
(* One connection.                                                         *)

\* While it is open and reads on, it has answered what it was asked.
Served(k) == k.stop = "no" /\ k.open => AllAnswered(k)

Same(k, m) == m.out = k.out /\ m.asked = k.asked

LEMMA SetStop ==
  ASSUME NEW k \in Connections, NEW s \in {"no", "error", "upgrade", "crash"}
  PROVE  /\ [k EXCEPT !.stop = s] \in Connections
         /\ [k EXCEPT !.stop = s].stop = s
         /\ [k EXCEPT !.stop = s].open = k.open
         /\ Same(k, [k EXCEPT !.stop = s])
  BY DEF Connections, Same

LEMMA SetOpen ==
  ASSUME NEW k \in Connections, NEW b \in BOOLEAN
  PROVE  /\ [k EXCEPT !.open = b] \in Connections
         /\ [k EXCEPT !.open = b].open = b
         /\ [k EXCEPT !.open = b].stop = k.stop
         /\ Same(k, [k EXCEPT !.open = b])
  BY DEF Connections, Same

LEMMA SetSkip ==
  ASSUME NEW k \in Connections, NEW b \in BOOLEAN
  PROVE  /\ [k EXCEPT !.skip_body = b] \in Connections
         /\ [k EXCEPT !.skip_body = b].open = k.open
         /\ [k EXCEPT !.skip_body = b].stop = k.stop
         /\ Same(k, [k EXCEPT !.skip_body = b])
  BY DEF Connections, Same

Asked(k, r) ==
  [k EXCEPT !.asked = @ + 1, !.add_keep_alive = r.keep, !.close_connection = r.close]

LEMMA SetAsked ==
  ASSUME NEW k \in Connections, NEW r \in Requests
  PROVE  /\ Asked(k, r) \in Connections
         /\ Asked(k, r).open = k.open /\ Asked(k, r).stop = k.stop
         /\ Asked(k, r).out = k.out /\ Asked(k, r).asked = k.asked + 1
<1>1. r.keep \in BOOLEAN /\ r.close \in BOOLEAN /\ k.asked + 1 \in Nat
  BY DEF Connections, Requests
<1> QED
  BY <1>1 DEF Connections, Asked

LEMMA UpgradeType ==
  ASSUME NEW k \in Connections
  PROVE  HandleUpgrade(k) \in Connections /\ HandleUpgrade(k).stop = "upgrade"
  BY DEF Connections, HandleUpgrade

\* The answers that were sent, without the interim ones.
Count(out) == Cardinality({i \in DOMAIN out : out[i].code # 100})

LEMMA CountAppend ==
  ASSUME NEW out \in Seq(Responses), NEW a \in Responses
  PROVE  /\ Count(out) \in Nat
         /\ Count(Append(out, a)) = Count(out) + (IF a.code = 100 THEN 0 ELSE 1)
<1> DEFINE n == Len(out)
           ext == Append(out, a)
           Old == {i \in DOMAIN out : out[i].code # 100}
           New == {i \in DOMAIN ext : ext[i].code # 100}
<1>1. n \in Nat /\ DOMAIN out = 1..n
  BY LenProperties
<1>2. DOMAIN ext = 1..(n + 1) /\ ext[n + 1] = a /\ \A i \in 1..n : ext[i] = out[i]
  BY AppendProperties, LenProperties
<1>3. IsFiniteSet(Old) /\ Cardinality(Old) \in Nat
  <2>1. IsFiniteSet(1..n)
    BY <1>1, FS_Interval
  <2>2. Old \in SUBSET (1..n)
    BY <1>1
  <2>3. IsFiniteSet(Old)
    BY <2>1, <2>2, FS_Subset
  <2> QED
    BY <2>3, FS_CardinalityType
<1>4. New = IF a.code = 100 THEN Old ELSE Old \cup {n + 1}
  BY <1>1, <1>2
<1>5. n + 1 \notin Old
  BY <1>1
<1> HIDE DEF Old, New, ext
<1>6. Cardinality(New) = Cardinality(Old) + (IF a.code = 100 THEN 0 ELSE 1)
  <2>1. Cardinality(Old \cup {n + 1}) = Cardinality(Old) + 1
    BY <1>3, <1>5, FS_AddElement
  <2>2. CASE a.code = 100
    BY <1>3, <1>4, <2>2
  <2>3. CASE a.code # 100
    BY <1>4, <2>1, <2>3
  <2> QED
    BY <2>2, <2>3
<1> USE DEF Old, New, ext
<1> QED
  BY <1>3, <1>6 DEF Count

LEMMA WriteCorrect ==
  ASSUME NEW k \in Connections, NEW a \in Responses
  PROVE  /\ Write(k, a) \in Connections
         /\ Write(k, a).open = k.open /\ Write(k, a).stop = k.stop
         /\ Write(k, a).asked = k.asked
         /\ Write(k, a).close_connection = k.close_connection
         /\ k.open => Count(Write(k, a).out) = Count(k.out) + (IF a.code = 100 THEN 0 ELSE 1)
<1> DEFINE new == IF k.open THEN Append(k.out, a) ELSE k.out
<1>1. k.out \in Seq(Responses) /\ k.open \in BOOLEAN
  BY DEF Connections
<1>2. new \in Seq(Responses)
  BY <1>1, AppendProperties
<1>3. Write(k, a) = [k EXCEPT !.out = new]
  BY DEF Write
<1>4. k.open => Count(new) = Count(k.out) + (IF a.code = 100 THEN 0 ELSE 1)
  BY <1>1, CountAppend
<1> HIDE DEF new
<1>5. Write(k, a) \in Connections /\ Write(k, a).out = new
  BY <1>2, <1>3 DEF Connections
<1>6. /\ Write(k, a).open = k.open /\ Write(k, a).stop = k.stop
      /\ Write(k, a).asked = k.asked /\ Write(k, a).close_connection = k.close_connection
  BY <1>3 DEF Connections
<1> QED
  BY <1>4, <1>5, <1>6

\* What an operation that sends the answer to r makes of connection k.
Sends(k, r, m) ==
  /\ m \in Connections /\ m.stop = k.stop /\ m.asked = k.asked
  /\ m.open => k.open
  /\ k.open => Count(m.out) = Count(k.out) + (IF r.code = 100 THEN 0 ELSE 1)

LEMMA CompleteCorrect ==
  ASSUME NEW k \in Connections, NEW r \in Requests, NEW body \in Bodies,
         NEW given \in Bodies \cup {-1}
  PROVE  Sends(k, r, CompleteRequest(k, r, body, given))
<1> DEFINE a == PrepareBuffers(k, r, body, given)
           w == Write(k, a)
<1>1. a \in Responses /\ a.code = r.code
  <2> DEFINE shown == IF r.code >= 400 /\ body = 0 THEN 1 ELSE body
             length == IF given = -1 THEN shown ELSE given
  <2>1. shown \in Bodies /\ length \in Bodies
    BY DEF Bodies
  <2>2. r.code \in Nat /\ r.head \in BOOLEAN /\ k.add_keep_alive \in BOOLEAN
    BY DEF Requests, Connections
  <2>3. a = [code |-> r.code, head |-> r.head, body |-> shown, length |-> length,
             keep |-> k.add_keep_alive]
    BY DEF PrepareBuffers
  <2> HIDE DEF a, shown, length
  <2> QED
    BY <2>1, <2>2, <2>3 DEF Responses
<1> HIDE DEF a
<1>2. Sends(k, r, w)
  BY <1>1, WriteCorrect DEF Sends
<1>3. Sends(k, r, WriteAndClose(k, a))
  <2> DEFINE b == w.open /\ ~k.close_connection
  <2>1. WriteAndClose(k, a) = [w EXCEPT !.open = b]
    BY DEF WriteAndClose
  <2>2. b \in BOOLEAN /\ (b => w.open) /\ w \in Connections
    BY <1>1, WriteCorrect
  <2> HIDE DEF b, w
  <2> QED
    BY <1>2, <2>1, <2>2, SetOpen DEF Sends, Same
<1>4. CompleteRequest(k, r, body, given) \in {w, WriteAndClose(k, a)}
  BY DEF CompleteRequest, WriteGeneral, a
<1> QED
  BY <1>2, <1>3, <1>4

LEMMA EndCorrect ==
  ASSUME NEW k \in Connections, NEW r \in Requests, NEW set \in BOOLEAN
  PROVE  Sends(k, r, End(k, r, set))
<1>1. r.body \in Bodies /\ k.skip_body \in BOOLEAN /\ r.file \in BOOLEAN
  BY DEF Requests, Connections
<1>2. 0 \in Bodies
  BY DEF Bodies
<1> DEFINE ended == CASE ~k.skip_body -> CompleteRequest(k, r, r.body, -1)
                     [] k.skip_body /\ ~r.file -> CompleteRequest(k, r, 0, r.body)
                     [] k.skip_body /\ r.file -> CompleteRequest(k, r, r.body, 0)
<1>3. Sends(k, r, ended)
  <2>1. CASE ~k.skip_body
    <3>1. ended = CompleteRequest(k, r, r.body, -1)
      BY <2>1
    <3> QED
      BY <1>1, <3>1, CompleteCorrect
  <2>2. CASE k.skip_body /\ ~r.file
    <3>1. ended = CompleteRequest(k, r, 0, r.body)
      BY <2>2
    <3> QED
      BY <1>1, <1>2, <3>1, CompleteCorrect
  <2>3. CASE k.skip_body /\ r.file
    <3>1. ended = CompleteRequest(k, r, r.body, 0)
      BY <2>3
    <3> QED
      BY <1>1, <1>2, <3>1, CompleteCorrect
  <2> QED
    BY <1>1, <2>1, <2>2, <2>3
<1>4. End(k, r, set) \in {ended, [ended EXCEPT !.skip_body = FALSE]}
  BY DEF End
<1> HIDE DEF ended
<1>5. Sends(k, r, [ended EXCEPT !.skip_body = FALSE])
  BY <1>3, SetSkip DEF Sends, Same
<1> QED
  BY <1>3, <1>4, <1>5

LEMMA UrlCorrect ==
  ASSUME NEW k \in Connections, NEW r \in Requests
  PROVE  /\ HandleUrl(k, r) \in Connections
         /\ HandleUrl(k, r).open => k.open
         /\ HandleUrl(k, r).stop = "error"
            \/ /\ HandleUrl(k, r).stop = k.stop /\ HandleUrl(k, r).open = k.open
               /\ Same(k, HandleUrl(k, r))
<1>1. CASE r.found
  <2>1. (k.skip_body \/ r.head) \in BOOLEAN
    OBVIOUS
  <2>2. HandleUrl(k, r) = [k EXCEPT !.skip_body = (k.skip_body \/ r.head)]
    BY <1>1 DEF HandleUrl
  <2> QED
    BY <2>1, <2>2, SetSkip
<1>2. CASE ~r.found
  <2>1. End(k, r, FALSE) \in Connections /\ (End(k, r, FALSE).open => k.open)
    BY EndCorrect DEF Sends
  <2>2. HandleUrl(k, r) = [End(k, r, FALSE) EXCEPT !.stop = "error"]
    BY <1>2 DEF HandleUrl
  <2> DEFINE e == End(k, r, FALSE)
  <2>3. /\ [e EXCEPT !.stop = "error"] \in Connections
        /\ [e EXCEPT !.stop = "error"].stop = "error"
        /\ [e EXCEPT !.stop = "error"].open = e.open
    BY <2>1, SetStop
  <2> HIDE DEF e
  <2>4. HandleUrl(k, r) = [e EXCEPT !.stop = "error"] /\ (e.open => k.open)
    BY <2>1, <2>2 DEF e
  <2> QED
    BY <2>3, <2>4
<1> QED
  BY <1>1, <1>2

LEMMA HeaderCorrect ==
  ASSUME NEW k \in Connections, NEW r \in Requests
  PROVE  /\ HandleHeader(k, r) \in Connections
         /\ HandleHeader(k, r).stop = k.stop /\ HandleHeader(k, r).open = k.open
         /\ HandleHeader(k, r).asked = k.asked
         /\ k.open => Count(HandleHeader(k, r).out) = Count(k.out)
<1> DEFINE a == [code |-> 100, head |-> r.head, body |-> 0, length |-> 0, keep |-> FALSE]
<1>1. a \in Responses /\ a.code = 100
  BY DEF Requests, Responses, Bodies
<1>2. k.out \in Seq(Responses)
  BY DEF Connections
<1>3. Count(k.out) \in Nat
  BY <1>1, <1>2, CountAppend
<1>4. HandleHeader(k, r) \in {k, Write(k, a)}
  BY DEF HandleHeader
<1> HIDE DEF a
<1> QED
  BY <1>1, <1>3, <1>4, WriteCorrect

LEMMA ServedCount ==
  ASSUME NEW k, Count(k.out) = k.asked
  PROVE  Served(k)
  BY DEF Count, Served, AllAnswered

\* handle: what the connection has answered is what it was asked, unless it
\* reads no more or its socket is closed.
LEMMA HandleCorrect ==
  ASSUME NEW k \in Connections, NEW r \in Requests, NEW reachable \in BOOLEAN,
         k.open => Count(k.out) = k.asked
  PROVE  /\ Handle(k, r, reachable) \in Connections /\ Served(Handle(k, r, reachable))
         /\ Handle(k, r, reachable).open => k.open
<1> DEFINE h == Handle(k, r, reachable)
           asked == Asked(k, r)
           bad == [r EXCEPT !.code = 400, !.file = FALSE]
<1>1. k.open \in BOOLEAN /\ k.asked \in Nat /\ r.code \in Nat /\ r.code # 100
  BY DEF Connections, Requests
<1>2. asked \in Connections /\ asked.open = k.open
      /\ asked.out = k.out /\ asked.asked = k.asked + 1
  BY SetAsked
<1>3. bad \in Requests /\ bad.code = 400
  <2> DEFINE b == [r EXCEPT !.code = 400]
  <2>1. b \in Requests /\ b.code = 400
    BY DEF Requests
  <2>2. bad = [b EXCEPT !.file = FALSE]
    BY DEF Requests
  <2> HIDE DEF b, bad
  <2>3. [b EXCEPT !.file = FALSE] \in Requests /\ [b EXCEPT !.file = FALSE].code = b.code
    BY <2>1 DEF Requests
  <2> QED
    BY <2>1, <2>2, <2>3
<1>4. CASE ~(reachable /\ k.open)
  <2>1. h = [k EXCEPT !.stop = "crash"]
    BY <1>4 DEF Handle
  <2> QED
    BY <2>1, SetStop DEF Served
<1>5. CASE reachable /\ k.open /\ ~r.host
  <2>1. h = CompleteRequest(asked, bad, 0, -1)
    BY <1>5 DEF Handle, Asked
  <2>2. Sends(asked, bad, h)
    BY <1>2, <1>3, <2>1, CompleteCorrect DEF Bodies
  <2> HIDE DEF h, asked, bad
  <2>3. h \in Connections /\ Count(h.out) = h.asked
    BY <1>1, <1>2, <1>3, <1>5, <2>2 DEF Sends
  <2> USE DEF h
  <2> QED
    BY <1>5, <2>3, ServedCount
<1>6. CASE reachable /\ k.open /\ r.host /\ r.upgrade
  <2>1. h = HandleUpgrade(asked)
    BY <1>6 DEF Handle, Asked
  <2> QED
    BY <1>2, <1>6, <2>1, UpgradeType DEF Served
<1>7. CASE reachable /\ k.open /\ r.host /\ ~r.upgrade
  <2>1. h = End(asked, r, TRUE)
    BY <1>7 DEF Handle, Asked
  <2>2. Sends(asked, r, h)
    BY <1>2, <2>1, EndCorrect
  <2> HIDE DEF h, asked
  <2>3. h \in Connections /\ Count(h.out) = h.asked
    BY <1>1, <1>2, <1>7, <2>2 DEF Sends
  <2> USE DEF h
  <2> QED
    BY <1>7, <2>3, ServedCount
<1> QED
  BY <1>1, <1>4, <1>5, <1>6, <1>7

LEMMA ParseCorrect ==
  ASSUME NEW k \in Connections, Served(k), NEW u \in Requests, NEW reachable \in BOOLEAN
  PROVE  /\ Parse(k, u, reachable) \in Connections /\ Served(Parse(k, u, reachable))
         /\ Parse(k, u, reachable).open => k.open
<1> DEFINE routed == HandleUrl(k, u)
           headed == HandleHeader(routed, u)
<1>1. CASE k.stop # "no" \/ u.what = "part"
  BY <1>1 DEF Parse
<1>2. CASE ~(k.stop # "no" \/ u.what = "part") /\ u.what = "bad"
  <2>1. Parse(k, u, reachable) = [k EXCEPT !.stop = "error"]
    BY <1>2 DEF Parse
  <2> QED
    BY <2>1, SetStop DEF Served
<1>3. CASE ~(k.stop # "no" \/ u.what = "part") /\ u.what # "bad"
  <2>1. routed \in Connections /\ (routed.open => k.open)
        /\ (routed.stop = "error" \/ (routed.stop = k.stop /\ routed.open = k.open /\ Same(k, routed)))
    BY UrlCorrect
  <2>2. CASE routed.stop # "no"
    <3>1. Parse(k, u, reachable) = routed
      BY <1>3, <2>2 DEF Parse
    <3> QED
      BY <2>1, <2>2, <3>1 DEF Served
  <2>3. CASE routed.stop = "no"
    <3>1. Parse(k, u, reachable) = Handle(headed, u, reachable)
      BY <1>3, <2>3 DEF Parse
    <3>2. routed.open = k.open /\ Same(k, routed)
      BY <2>1, <2>3
    <3>3. k.open => Count(k.out) = k.asked
      BY <1>3 DEF Served, AllAnswered, Count
    <3>4. /\ headed \in Connections /\ headed.open = routed.open
          /\ headed.asked = routed.asked
          /\ routed.open => Count(headed.out) = Count(routed.out)
      BY <2>1, HeaderCorrect
    <3> HIDE DEF routed, headed
    <3>5. headed.open => Count(headed.out) = headed.asked
      BY <3>2, <3>3, <3>4 DEF Same
    <3> QED
      BY <3>1, <3>2, <3>4, <3>5, HandleCorrect
  <2> QED
    BY <2>2, <2>3
<1> QED
  BY <1>1, <1>2, <1>3

\* What is left of a connection once a chunk was parsed, however long it is: a
\* socket that was closed stays so.
LEMMA FeedCorrect ==
  ASSUME NEW k \in Connections, k.open => AllAnswered(k),
         NEW chunk \in Seq(Requests), NEW reachable \in BOOLEAN
  PROVE  /\ Feed(k, chunk, reachable) \in Connections /\ Served(Feed(k, chunk, reachable))
         /\ Feed(k, chunk, reachable).open => k.open
<1> DEFINE n == Len(chunk)
           V == {m \in Connections : Served(m) /\ (m.open => k.open)}
           b == [k EXCEPT !.stop = "no"]
           F == [x \in V \X (1..n) |-> Parse(x[1], chunk[x[2]], reachable)]
           step(f) == [i \in 0..n |-> IF i = 0 THEN b ELSE Parse(f[i - 1], chunk[i], reachable)]
           fed == CHOOSE f : f = step(f)
<1>1. n \in Nat /\ \A i \in 1..n : chunk[i] \in Requests
  BY LenProperties, ElementOfSeq
<1>2. b \in V
  <2>1. b \in Connections /\ b.open = k.open /\ Same(k, b)
    BY SetStop
  <2> HIDE DEF b
  <2> QED
    BY <2>1 DEF Served, AllAnswered, Same
<1>3. ASSUME NEW m \in V, NEW i \in 1..n PROVE Parse(m, chunk[i], reachable) \in V
  BY <1>1, ParseCorrect
<1> HIDE DEF V, b, n
<1>4. F \in [V \X (1..n) -> V]
  BY <1>3
<1>5. PICK g \in [0..n -> V] : g[0] = b /\ \A i \in 1..n : g[i] = F[<<g[i - 1], i>>]
  <2> HIDE DEF F
  <2>1. Iterations(n, V, b, F) # {}
    BY <1>1, <1>2, <1>4, IterationExists
  <2> QED
    BY <2>1 DEF Iterations
<1>6. g = step(g)
  <2>1. ASSUME NEW i \in 0..n
        PROVE  g[i] = IF i = 0 THEN b ELSE Parse(g[i - 1], chunk[i], reachable)
    <3>1. CASE i = 0
      BY <1>5, <3>1
    <3>2. CASE i # 0
      <4>1. i \in 1..n /\ i - 1 \in 0..n
        BY <1>1, <3>2
      <4>2. g[i] = F[<<g[i - 1], i>>] /\ g[i - 1] \in V
        BY <1>5, <4>1
      <4> QED
        BY <3>2, <4>1, <4>2
    <3> QED
      BY <3>1, <3>2
  <2> QED
    BY <1>5, <2>1
<1>7. fed = step(fed)
  BY <1>6
<1> HIDE DEF fed
<1>8. fed[0] = b /\ \A i \in 1..n : fed[i] = Parse(fed[i - 1], chunk[i], reachable)
  BY <1>1, <1>7
<1>9. \A i \in 0..n : fed[i] \in V
  BY <1>1, <1>2, <1>3, <1>8, ValuesStay
<1>10. fed[n] \in V
  BY <1>1, <1>9
<1>11. Feed(k, chunk, reachable) = fed[n]
  BY DEF Feed, fed, b, n
<1> QED
  BY <1>10, <1>11 DEF V
-----------------------------------------------------------------------------
(* The inductive invariant.                                                *)

\* Handlers of connection c in a queue q, and among them that of its start.
Holds(q, c) == \E i \in DOMAIN q : q[i].kind # "tick" /\ q[i].c = c
Starts(q, c) == \E i \in DOMAIN q : q[i].kind = "start" /\ q[i].c = c

\* A connection has at most one handler in it.
Once(q) ==
  \A i, j \in DOMAIN q :
    q[i].kind # "tick" /\ q[j].kind # "tick" /\ q[i].c = q[j].c => i = j

\* A deadline of connection c.
Armed(t, c) == \E i \in DOMAIN t.tasks : t.tasks[i].conn = c

\* A connection's handler is posted to its worker, and while it is no read is
\* pending: that is what makes the callbacks of a connection take turns.
Posted ==
  \A w \in Workers :
    /\ Once(queue[w])
    /\ \A c \in Conns :
         /\ Holds(queue[w], c) => worker[c] = w /\ ~reading[c]
         /\ Starts(queue[w], c) =>
              conn[c].open /\ \A v \in Workers : ~Armed(timer[v], c)

\* A socket that is open has somebody who will read from it.
Watched ==
  \A c \in Conns :
    /\ reading[c] => conn[c].open
    /\ conn[c].open =>
         worker[c] # -1 /\ (reading[c] \/ \E w \in Workers : Holds(queue[w], c))
    /\ conn[c].open \/ worker[c] = -1 => AllAnswered(conn[c])

\* Only an open socket has a deadline.
DeadlinesOpen == \A w \in Workers : \A c \in Conns : Armed(timer[w], c) => conn[c].open

Entries == [conn : Conns, left : -1..Timeout]

\* The type of a timer, whose identifiers were all given out by schedule.
Sound(t) ==
  /\ t.highest_id \in Nat
  /\ \A i \in DOMAIN t.tasks : i \in 1..t.highest_id /\ t.tasks[i] \in Entries

Timers == DOMAIN timer = Workers /\ \A w \in Workers : Sound(timer[w])

\* The accept that is pending was counted.
Types == TypeOK /\ Timers /\ load[pending] > 0

Ended ==
  /\ done # {} => shutting_down
  /\ \A w \in done : timer[w] = NewTimer

IInv == Types /\ OneDeadline /\ Posted /\ Watched /\ DeadlinesOpen /\ Ended

-----------------------------------------------------------------------------
(* Queues of handlers.                                                     *)

LEMMA AppendHandler ==
  ASSUME NEW q \in Seq(Handlers), NEW h \in Handlers
  PROVE  /\ Append(q, h) \in Seq(Handlers)
         /\ \A c : Holds(Append(q, h), c) <=> Holds(q, c) \/ (h.kind # "tick" /\ h.c = c)
         /\ \A c : Starts(Append(q, h), c) <=> Starts(q, c) \/ (h.kind = "start" /\ h.c = c)
         /\ Once(q) /\ (h.kind # "tick" => ~Holds(q, h.c)) => Once(Append(q, h))
<1> DEFINE p == Append(q, h)
           n == Len(q)
<1>1. n \in Nat /\ DOMAIN q = 1..n
  BY LenProperties
<1>2. /\ p \in Seq(Handlers) /\ DOMAIN p = 1..(n + 1)
      /\ p[n + 1] = h /\ \A i \in 1..n : p[i] = q[i]
  BY AppendProperties, LenProperties
<1> HIDE DEF p, n
<1>3. 1..(n + 1) = (1..n) \cup {n + 1} /\ n + 1 \notin 1..n
  BY <1>1
<1>4. \A c : Holds(p, c) <=> Holds(q, c) \/ (h.kind # "tick" /\ h.c = c)
  BY <1>1, <1>2, <1>3 DEF Holds
<1>5. \A c : Starts(p, c) <=> Starts(q, c) \/ (h.kind = "start" /\ h.c = c)
  BY <1>1, <1>2, <1>3 DEF Starts
<1>6. ASSUME Once(q), h.kind # "tick" => ~Holds(q, h.c) PROVE Once(p)
  BY <1>1, <1>2, <1>3, <1>6 DEF Once, Holds
<1> QED
  BY <1>2, <1>4, <1>5, <1>6 DEF p

LEMMA TailHandler ==
  ASSUME NEW q \in Seq(Handlers), q # <<>>, Once(q)
  PROVE  /\ Head(q) \in Handlers /\ Tail(q) \in Seq(Handlers) /\ Once(Tail(q))
         /\ \A c : Holds(Tail(q), c) => Holds(q, c)
         /\ \A c : Starts(Tail(q), c) => Starts(q, c)
         /\ \A c : Holds(q, c) => Holds(Tail(q), c) \/ (Head(q).kind # "tick" /\ Head(q).c = c)
         /\ Head(q).kind # "tick" => Holds(q, Head(q).c) /\ ~Holds(Tail(q), Head(q).c)
         /\ Head(q).kind = "start" => Starts(q, Head(q).c)
<1> DEFINE p == Tail(q)
           n == Len(q)
           h == Head(q)
<1>1. n \in Nat \ {0} /\ DOMAIN q = 1..n /\ h = q[1] /\ h \in Handlers
  BY LenProperties, HeadTailProperties, EmptySeq
<1>2. p \in Seq(Handlers) /\ DOMAIN p = 1..(n - 1) /\ \A i \in 1..(n - 1) : p[i] = q[i + 1]
  BY LenProperties, HeadTailProperties
<1> HIDE DEF p, n, h
<1>3. \A i \in 1..(n - 1) : i + 1 \in 1..n /\ i + 1 # 1
  BY <1>1
<1>4. ASSUME NEW i \in 1..n, i # 1
      PROVE  i - 1 \in 1..(n - 1) /\ p[i - 1] = q[i]
  <2>1. i - 1 \in 1..(n - 1) /\ (i - 1) + 1 = i
    BY <1>1, <1>4
  <2> QED
    BY <1>2, <2>1
<1>5. 1 \in 1..n
  BY <1>1
<1>6. ASSUME NEW c PROVE /\ Holds(p, c) => Holds(q, c)
                         /\ Starts(p, c) => Starts(q, c)
                         /\ Holds(q, c) => Holds(p, c) \/ (h.kind # "tick" /\ h.c = c)
  <2>1. Holds(p, c) => Holds(q, c)
    BY <1>1, <1>2, <1>3 DEF Holds
  <2>2. Starts(p, c) => Starts(q, c)
    BY <1>1, <1>2, <1>3 DEF Starts
  <2>3. ASSUME Holds(q, c) PROVE Holds(p, c) \/ (h.kind # "tick" /\ h.c = c)
    <3>1. PICK i \in 1..n : q[i].kind # "tick" /\ q[i].c = c
      BY <1>1, <2>3 DEF Holds
    <3>2. CASE i = 1
      BY <1>1, <3>1, <3>2
    <3>3. CASE i # 1
      <4>1. i - 1 \in 1..(n - 1) /\ p[i - 1] = q[i]
        BY <1>4, <3>3
      <4> QED
        BY <1>2, <3>1, <4>1 DEF Holds
    <3> QED
      BY <3>2, <3>3
  <2> QED
    BY <2>1, <2>2, <2>3
<1>7. h.kind # "tick" => Holds(q, h.c) /\ ~Holds(p, h.c)
  <2>1. h.kind # "tick" => Holds(q, h.c)
    BY <1>1, <1>5 DEF Holds
  <2>2. ASSUME h.kind # "tick", Holds(p, h.c) PROVE FALSE
    <3>1. PICK i \in 1..(n - 1) : p[i].kind # "tick" /\ p[i].c = h.c
      BY <1>2, <2>2 DEF Holds
    <3>2. /\ i + 1 \in 1..n /\ i + 1 # 1
          /\ q[i + 1].kind # "tick" /\ q[i + 1].c = q[1].c /\ q[1].kind # "tick"
      BY <1>1, <1>2, <1>3, <2>2, <3>1
    <3> QED
      BY <1>1, <1>5, <3>2 DEF Once
  <2> QED
    BY <2>1, <2>2
<1>8. h.kind = "start" => Starts(q, h.c)
  BY <1>1, <1>5 DEF Starts
<1>9. Once(p)
  <2>1. SUFFICES ASSUME NEW i \in 1..(n - 1), NEW j \in 1..(n - 1),
                        p[i].kind # "tick", p[j].kind # "tick", p[i].c = p[j].c
                 PROVE  i = j
    BY <1>2 DEF Once
  <2>2. i + 1 = j + 1
    BY <1>1, <1>2, <1>3, <2>1 DEF Once
  <2> QED
    BY <2>2
<1> QED
  BY <1>1, <1>2, <1>6, <1>7, <1>8, <1>9 DEF p, h

\* An order of a finite set names each of its elements once.
LEMMA OrderCorrect ==
  ASSUME NEW S, IsFiniteSet(S), NEW order \in SetToSeqs(S)
  PROVE  /\ order \in Seq(S) /\ DOMAIN order = 1..Cardinality(S) /\ Cardinality(S) \in Nat
         /\ \A i, j \in DOMAIN order : order[i] = order[j] => i = j
         /\ \A x \in S : \E i \in DOMAIN order : order[i] = x
<1> DEFINE n == Cardinality(S)
<1>1. n \in Nat
  BY FS_CardinalityType
<1>2. /\ order \in [1..n -> S]
      /\ \A i, j \in 1..n : i # j => order[i] # order[j]
  BY DEF SetToSeqs
<1>3. order \in Seq(S)
  BY <1>1, <1>2, IsASeq
<1> HIDE DEF n
<1>4. order \in Injection(1..n, S)
  BY <1>2 DEF Injection, IsInjective
<1>5. IsFiniteSet(1..n) /\ Cardinality(1..n) = n
  BY <1>1, FS_Interval
<1>6. order \in Surjection(1..n, S)
  BY <1>4, <1>5, FS_Injection DEF n
<1>7. \A x \in S : \E i \in 1..n : order[i] = x
  BY <1>6 DEF Surjection
<1> QED
  BY <1>1, <1>2, <1>3, <1>7 DEF n

\* The completion of a read that was aborted.
Aborted(c) == [kind |-> "read", c |-> c, ok |-> FALSE, chunk |-> <<>>]

LEMMA AbortHandlers ==
  ASSUME NEW q \in Seq(Handlers), Once(q), NEW S \in SUBSET Conns, IsFiniteSet(S),
         NEW order \in SetToSeqs(S), \A c \in S : ~Holds(q, c)
  PROVE  LET p == q \o [i \in DOMAIN order |-> Aborted(order[i])] IN
         /\ p \in Seq(Handlers) /\ Once(p)
         /\ \A c : Holds(p, c) <=> Holds(q, c) \/ c \in S
         /\ \A c : Starts(p, c) <=> Starts(q, c)
<1> DEFINE n == Len(q)
           m == Cardinality(S)
           s == [i \in DOMAIN order |-> Aborted(order[i])]
           p == q \o s
<1>1. n \in Nat /\ DOMAIN q = 1..n
  BY LenProperties
<1>2. /\ order \in Seq(S) /\ DOMAIN order = 1..m /\ m \in Nat
      /\ \A i, j \in 1..m : order[i] = order[j] => i = j
      /\ \A i \in 1..m : order[i] \in S
      /\ \A x \in S : \E i \in 1..m : order[i] = x
  <2>1. /\ order \in Seq(S) /\ DOMAIN order = 1..m /\ m \in Nat
        /\ \A i, j \in DOMAIN order : order[i] = order[j] => i = j
        /\ \A x \in S : \E i \in DOMAIN order : order[i] = x
    BY OrderCorrect
  <2> QED
    BY <2>1, ElementOfSeq, LenProperties
<1> HIDE DEF m
<1>3. s = [i \in 1..m |-> Aborted(order[i])]
  BY <1>2
<1>4. ASSUME NEW i \in 1..m PROVE Aborted(order[i]) \in Handlers
  <2>1. order[i] \in Conns /\ <<>> \in Seq(Units)
    BY <1>2, EmptySeq
  <2> QED
    BY <2>1 DEF Handlers, Aborted
<1>5. s \in Seq(Handlers) /\ Len(s) = m
  <2>1. s \in [1..m -> Handlers]
    BY <1>3, <1>4
  <2> QED
    BY <1>2, <2>1, IsASeq, LenProperties
<1>6. /\ p \in Seq(Handlers) /\ DOMAIN p = 1..(n + m)
      /\ \A i \in 1..n : p[i] = q[i]
      /\ \A i \in 1..m : p[n + i] = Aborted(order[i])
  <2>1. /\ p \in Seq(Handlers) /\ Len(p) = n + m
        /\ \A i \in 1..(n + m) : p[i] = IF i <= n THEN q[i] ELSE s[i - n]
    BY <1>5, ConcatProperties
  <2>2. DOMAIN p = 1..(n + m)
    BY <2>1, LenProperties
  <2>3. \A i \in 1..n : p[i] = q[i]
    BY <1>1, <1>2, <2>1
  <2>4. ASSUME NEW i \in 1..m PROVE p[n + i] = Aborted(order[i])
    <3>1. n + i \in 1..(n + m) /\ ~(n + i <= n) /\ (n + i) - n = i
      BY <1>1, <1>2
    <3> HIDE DEF p
    <3> QED
      BY <2>1, <3>1, <1>3
  <2> QED
    BY <2>1, <2>2, <2>3, <2>4
<1> HIDE DEF p, n, s
<1>7. /\ \A i \in 1..n : i \in 1..(n + m)
      /\ \A i \in 1..m : n + i \in 1..(n + m)
      /\ \A k \in 1..(n + m) : k \in 1..n \/ \E i \in 1..m : k = n + i
  <2>1. ASSUME NEW k \in 1..(n + m), k \notin 1..n PROVE \E i \in 1..m : k = n + i
    <3>1. k - n \in 1..m /\ k = n + (k - n)
      BY <1>1, <1>2, <2>1
    <3> QED
      BY <3>1
  <2> QED
    BY <1>1, <1>2, <2>1
<1>8. \A c : Aborted(c).kind = "read" /\ Aborted(c).c = c
  BY DEF Aborted
<1>9. ASSUME NEW c PROVE Holds(p, c) <=> Holds(q, c) \/ c \in S
  <2>1. ASSUME NEW i \in 1..(n + m), p[i].kind # "tick", p[i].c = c
        PROVE  Holds(q, c) \/ c \in S
    <3>1. CASE i \in 1..n
      BY <1>1, <1>6, <2>1, <3>1 DEF Holds
    <3>2. CASE i \notin 1..n
      <4>1. PICK j \in 1..m : i = n + j
        BY <1>7, <3>2
      <4> QED
        BY <1>2, <1>6, <1>8, <2>1, <4>1
    <3> QED
      BY <3>1, <3>2
  <2>2. Holds(q, c) => Holds(p, c)
    BY <1>1, <1>6, <1>7 DEF Holds
  <2>3. ASSUME c \in S PROVE Holds(p, c)
    <3>1. PICK i \in 1..m : order[i] = c
      BY <1>2, <2>3
    <3>2. n + i \in 1..(n + m) /\ p[n + i].kind = "read" /\ p[n + i].c = c
      BY <1>6, <1>7, <1>8, <3>1
    <3> QED
      BY <1>6, <3>2 DEF Holds
  <2>4. Holds(p, c) => Holds(q, c) \/ c \in S
    BY <1>6, <2>1 DEF Holds
  <2> QED
    BY <2>2, <2>3, <2>4
<1>10. ASSUME NEW c PROVE Starts(p, c) <=> Starts(q, c)
  <2>1. ASSUME NEW i \in 1..(n + m), p[i].kind = "start", p[i].c = c
        PROVE  Starts(q, c)
    <3>1. i \in 1..n
      <4>1. ASSUME NEW j \in 1..m, i = n + j PROVE FALSE
        BY <1>6, <1>8, <2>1, <4>1
      <4> QED
        BY <1>7, <4>1
    <3>2. i \in DOMAIN q /\ q[i].kind = "start" /\ q[i].c = c
      BY <1>1, <1>6, <2>1, <3>1
    <3> QED
      BY <3>2 DEF Starts
  <2>2. ASSUME NEW i \in 1..n, q[i].kind = "start", q[i].c = c
        PROVE  Starts(p, c)
    <3>1. i \in DOMAIN p /\ p[i].kind = "start" /\ p[i].c = c
      BY <1>6, <1>7, <2>2
    <3> QED
      BY <3>1 DEF Starts
  <2>3. Starts(p, c) => Starts(q, c)
    BY <1>6, <2>1 DEF Starts
  <2>4. Starts(q, c) => Starts(p, c)
    BY <1>1, <2>2 DEF Starts
  <2> QED
    BY <2>3, <2>4
<1>11. Once(p)
  <2>1. SUFFICES ASSUME NEW i \in 1..(n + m), NEW j \in 1..(n + m),
                        p[i].kind # "tick", p[j].kind # "tick", p[i].c = p[j].c
                 PROVE  i = j
    BY <1>6 DEF Once
  <2>2. CASE i \in 1..n /\ j \in 1..n
    BY <1>1, <1>6, <2>1, <2>2 DEF Once
  <2>3. CASE i \in 1..n /\ j \notin 1..n
    <3>1. PICK y \in 1..m : j = n + y
      BY <1>7, <2>3
    <3>2. q[i].c \in S /\ q[i].kind # "tick"
      BY <1>2, <1>6, <1>8, <2>1, <2>3, <3>1
    <3> QED
      BY <1>1, <2>3, <3>2 DEF Holds
  <2>4. CASE i \notin 1..n /\ j \in 1..n
    <3>1. PICK x \in 1..m : i = n + x
      BY <1>7, <2>4
    <3>2. q[j].c \in S /\ q[j].kind # "tick"
      BY <1>2, <1>6, <1>8, <2>1, <2>4, <3>1
    <3> QED
      BY <1>1, <2>4, <3>2 DEF Holds
  <2>5. CASE i \notin 1..n /\ j \notin 1..n
    <3>1. PICK x \in 1..m : i = n + x
      BY <1>7, <2>5
    <3>2. PICK y \in 1..m : j = n + y
      BY <1>7, <2>5
    <3>3. order[x] = order[y]
      BY <1>6, <1>8, <2>1, <3>1, <3>2
    <3> QED
      BY <1>2, <3>1, <3>2, <3>3
  <2> QED
    BY <2>2, <2>3, <2>4, <2>5
<1> QED
  BY <1>6, <1>9, <1>10, <1>11 DEF p, s
-----------------------------------------------------------------------------
(* Timers, and the choice of a worker.                                     *)

LEMMA NewTimerCorrect == Sound(NewTimer) /\ \A c : ~Armed(NewTimer, c)
  BY DEF Sound, NewTimer, NoTasks, Armed

LEMMA CancelCorrect ==
  ASSUME NEW t, Sound(t), NEW id
  PROVE  /\ Sound(Cancel(t, id))
         /\ DOMAIN Cancel(t, id).tasks = DOMAIN t.tasks \ {id}
         /\ \A i \in DOMAIN t.tasks \ {id} : Cancel(t, id).tasks[i] = t.tasks[i]
  BY DEF Sound, Cancel

LEMMA ScheduleCorrect ==
  ASSUME NEW t, Sound(t), NEW c \in Conns
  PROVE  LET s == Schedule(t, c, Timeout) IN
         /\ Sound(s) /\ s.highest_id \in Nat /\ s.highest_id \notin DOMAIN t.tasks
         /\ DOMAIN s.tasks = DOMAIN t.tasks \cup {s.highest_id}
         /\ s.tasks[s.highest_id].conn = c
         /\ \A i \in DOMAIN t.tasks : s.tasks[i] = t.tasks[i]
<1> DEFINE s == Schedule(t, c, Timeout)
           id == t.highest_id + 1
           e == [conn |-> c, left |-> Timeout]
<1>1. t.highest_id \in Nat /\ id \in Nat /\ id \notin DOMAIN t.tasks
  BY DEF Sound
<1>2. e \in Entries
  BY TimeoutAssumption DEF Entries
<1>3. /\ s.highest_id = id /\ DOMAIN s.tasks = DOMAIN t.tasks \cup {id}
      /\ \A i \in DOMAIN t.tasks : s.tasks[i] = t.tasks[i]
      /\ s.tasks[id] = e
  BY <1>1 DEF Schedule
<1>4. e.conn = c
  OBVIOUS
<1> HIDE DEF s, e
<1>5. Sound(s)
  <2>1. ASSUME NEW i \in DOMAIN t.tasks PROVE i \in 1..id /\ s.tasks[i] \in Entries
    BY <1>1, <1>3 DEF Sound
  <2>2. id \in 1..id
    BY <1>1
  <2> QED
    BY <1>1, <1>2, <1>3, <2>1, <2>2 DEF Sound
<1> QED
  BY <1>1, <1>3, <1>4, <1>5 DEF s

LEMMA ElapseCorrect ==
  ASSUME NEW t, Sound(t)
  PROVE  /\ Sound(Elapse(t)) /\ DOMAIN Elapse(t).tasks = DOMAIN t.tasks
         /\ \A i \in DOMAIN t.tasks : Elapse(t).tasks[i].conn = t.tasks[i].conn
<1> DEFINE s == Elapse(t)
<1>1. s.highest_id = t.highest_id /\ DOMAIN s.tasks = DOMAIN t.tasks
  BY DEF Elapse
<1>2. ASSUME NEW i \in DOMAIN t.tasks
      PROVE  s.tasks[i] \in Entries /\ s.tasks[i].conn = t.tasks[i].conn
  <2> DEFINE left == IF t.tasks[i].left < 0 THEN -1 ELSE t.tasks[i].left - 1
  <2>1. t.tasks[i].conn \in Conns /\ t.tasks[i].left \in -1..Timeout
    BY DEF Sound, Entries
  <2>2. left \in -1..Timeout
    BY <2>1, TimeoutAssumption
  <2>3. s.tasks[i] = [conn |-> t.tasks[i].conn, left |-> left]
    BY DEF Elapse
  <2> HIDE DEF left, s
  <2> QED
    BY <2>1, <2>2, <2>3 DEF Entries
<1> HIDE DEF s
<1>3. Sound(s)
  BY <1>1, <1>2 DEF Sound
<1> QED
  BY <1>1, <1>2, <1>3 DEF s

LEMMA ProcessCorrect ==
  ASSUME NEW t, Sound(t), NEW due \in SUBSET DOMAIN t.tasks
  PROVE  /\ Sound(ProcessTasks(t, due))
         /\ DOMAIN ProcessTasks(t, due).tasks = DOMAIN t.tasks \ due
         /\ \A i \in DOMAIN t.tasks \ due : ProcessTasks(t, due).tasks[i] = t.tasks[i]
<1> DEFINE s == ProcessTasks(t, due)
<1>1. /\ DOMAIN s.tasks = DOMAIN t.tasks \ due
      /\ \A i \in DOMAIN t.tasks \ due : s.tasks[i] = t.tasks[i]
      /\ s.highest_id = IF DOMAIN t.tasks \subseteq due THEN 0 ELSE t.highest_id
  BY DEF ProcessTasks
<1> HIDE DEF s
<1>2. CASE DOMAIN t.tasks \subseteq due
  BY <1>1, <1>2 DEF Sound, s
<1>3. CASE ~(DOMAIN t.tasks \subseteq due)
  BY <1>1, <1>3 DEF Sound, s
<1> QED
  BY <1>2, <1>3

\* The scan for a worker always finds one.
LEMMA PickCorrect ==
  ASSUME NEW l \in [Workers -> Nat]
  PROVE  Pick(l) \in Workers
<1>1. 0 \in Workers /\ Workers \in SUBSET Nat
  BY ConcurrencyAssumption DEF Workers
<1>2. PICK x \in {l[v] : v \in Workers} : \A y \in {l[v] : v \in Workers} : x <= y
  <2>1. {l[v] : v \in Workers} \in SUBSET Nat /\ {l[v] : v \in Workers} # {}
    BY <1>1
  <2> QED
    BY <2>1, LeastNumber
<1>3. PICK w \in {v \in Workers : l[v] = x} : \A v \in {v \in Workers : l[v] = x} : w <= v
  <2>1. {v \in Workers : l[v] = x} \in SUBSET Nat /\ {v \in Workers : l[v] = x} # {}
    BY <1>1, <1>2
  <2> QED
    BY <2>1, LeastNumber
<1>4. \A v \in Workers : l[w] <= l[v] /\ (l[v] = l[w] => w <= v)
  BY <1>2, <1>3
<1> QED
  BY <1>3, <1>4 DEF Pick

LEMMA DoAcceptCorrect ==
  ASSUME NEW l \in [Workers -> Nat], DoAccept(l)
  PROVE  load' \in [Workers -> Nat] /\ pending' \in Workers /\ load'[pending'] > 0
<1>1. Pick(l) \in Workers
  BY PickCorrect
<1>2. l[Pick(l)] + 1 \in Nat /\ l[Pick(l)] + 1 > 0
  BY <1>1
<1> QED
  BY <1>1, <1>2 DEF DoAccept
-----------------------------------------------------------------------------
(* What start_deadline and cancel_deadline_timer do to the deadlines.      *)

LEMMA StartDeadlineCorrect ==
  ASSUME Timers, OneDeadline, task_id \in [Conns -> Nat], reading \in [Conns -> BOOLEAN],
         worker' = worker, NEW w \in Workers, NEW c \in Conns, worker[c] = w,
         StartDeadline(w, c)
  PROVE  /\ Timers' /\ OneDeadline' /\ task_id' \in [Conns -> Nat]
         /\ reading' = [reading EXCEPT ![c] = TRUE]
         /\ \A v \in Workers : \A d : Armed(timer'[v], d) => d = c \/ Armed(timer[v], d)
         /\ \A v \in Workers \ {w} : timer'[v] = timer[v]
<1> DEFINE t == Cancel(timer[w], task_id[c])
           s == Schedule(t, c, Timeout)
<1>1. /\ Sound(t) /\ DOMAIN t.tasks = DOMAIN timer[w].tasks \ {task_id[c]}
      /\ \A i \in DOMAIN timer[w].tasks \ {task_id[c]} : t.tasks[i] = timer[w].tasks[i]
  BY CancelCorrect DEF Timers
<1> HIDE DEF t
<1>2. /\ Sound(s) /\ s.highest_id \in Nat /\ s.highest_id \notin DOMAIN t.tasks
      /\ DOMAIN s.tasks = DOMAIN t.tasks \cup {s.highest_id}
      /\ s.tasks[s.highest_id].conn = c
      /\ \A i \in DOMAIN t.tasks : s.tasks[i] = t.tasks[i]
  BY <1>1, ScheduleCorrect
<1>3. /\ timer' = [timer EXCEPT ![w] = s]
      /\ task_id' = [task_id EXCEPT ![c] = s.highest_id]
      /\ reading' = [reading EXCEPT ![c] = TRUE]
  BY DEF StartDeadline, t
<1> HIDE DEF s
<1>4. timer'[w] = s /\ (\A v \in Workers \ {w} : timer'[v] = timer[v]) /\ Timers'
  BY <1>2, <1>3 DEF Timers
<1>5. ASSUME NEW i \in DOMAIN t.tasks
      PROVE  /\ t.tasks[i] = timer[w].tasks[i] /\ i \in DOMAIN timer[w].tasks
             /\ t.tasks[i].conn # c
  BY <1>1 DEF OneDeadline
<1>6. OneDeadline'
  <2>1. ASSUME NEW v \in Workers, NEW i \in DOMAIN timer'[v].tasks
        PROVE  LET d == timer'[v].tasks[i].conn IN
               i \in 1..timer'[v].highest_id /\ worker[d] = v /\ task_id'[d] = i
    <3>1. CASE v = w /\ i = s.highest_id
      BY <1>2, <1>3, <1>4, <3>1 DEF Sound
    <3>2. CASE v = w /\ i # s.highest_id
      <4>1. i \in DOMAIN t.tasks /\ timer'[v].tasks[i] = t.tasks[i]
        BY <1>2, <1>4, <3>2
      <4>2. /\ worker[t.tasks[i].conn] = w /\ task_id[t.tasks[i].conn] = i
            /\ t.tasks[i].conn # c
        BY <1>5, <4>1 DEF OneDeadline
      <4>3. task_id'[t.tasks[i].conn] = i
        <5>1. t.tasks[i].conn \in Conns
          BY <1>1, <4>1 DEF Sound, Entries
        <5> QED
          BY <1>3, <4>2, <5>1
      <4> QED
        BY <1>2, <1>4, <3>2, <4>1, <4>2, <4>3 DEF Sound
    <3>3. CASE v # w
      <4>1. timer'[v] = timer[v] /\ i \in DOMAIN timer[v].tasks
        BY <1>4, <3>3
      <4>2. timer[v].tasks[i].conn \in Conns
        BY <4>1 DEF Timers, Sound, Entries
      <4>3. /\ i \in 1..timer[v].highest_id /\ worker[timer[v].tasks[i].conn] = v
            /\ task_id[timer[v].tasks[i].conn] = i /\ timer[v].tasks[i].conn # c
        BY <3>3, <4>1 DEF OneDeadline
      <4> QED
        BY <1>3, <4>1, <4>2, <4>3
    <3> QED
      BY <3>1, <3>2, <3>3
  <2> QED
    BY <2>1 DEF OneDeadline
<1>7. task_id' \in [Conns -> Nat]
  BY <1>2, <1>3
<1>8. ASSUME NEW v \in Workers, NEW d, Armed(timer'[v], d)
      PROVE  d = c \/ Armed(timer[v], d)
  <2>1. CASE v = w
    BY <1>2, <1>4, <1>5, <1>8, <2>1 DEF Armed
  <2>2. CASE v # w
    BY <1>4, <1>8, <2>2
  <2> QED
    BY <2>1, <2>2
<1> QED
  BY <1>3, <1>4, <1>6, <1>7, <1>8

LEMMA CancelDeadlineCorrect ==
  ASSUME Timers, OneDeadline, task_id \in [Conns -> Nat],
         worker' = worker, NEW w \in Workers, NEW c \in Conns, worker[c] = w,
         CancelDeadline(w, c)
  PROVE  /\ Timers' /\ OneDeadline' /\ task_id' = task_id /\ reading' = reading
         /\ \A v \in Workers : \A d : Armed(timer'[v], d) => d # c /\ Armed(timer[v], d)
         /\ \A v \in Workers \ {w} : timer'[v] = timer[v]
<1> DEFINE t == Cancel(timer[w], task_id[c])
<1>1. /\ Sound(t) /\ DOMAIN t.tasks = DOMAIN timer[w].tasks \ {task_id[c]}
      /\ \A i \in DOMAIN timer[w].tasks \ {task_id[c]} : t.tasks[i] = timer[w].tasks[i]
  BY CancelCorrect DEF Timers
<1>2. timer' = [timer EXCEPT ![w] = t] /\ task_id' = task_id /\ reading' = reading
  BY DEF CancelDeadline, t
<1>3. timer'[w] = t /\ (\A v \in Workers \ {w} : timer'[v] = timer[v]) /\ Timers'
  BY <1>1, <1>2 DEF Timers
<1>4. t.highest_id = timer[w].highest_id
  BY DEF Cancel
<1> HIDE DEF t
<1>5. ASSUME NEW i \in DOMAIN t.tasks
      PROVE  /\ t.tasks[i] = timer[w].tasks[i] /\ i \in DOMAIN timer[w].tasks
             /\ t.tasks[i].conn # c
  BY <1>1 DEF OneDeadline
<1>6. ASSUME NEW v \in Workers, NEW i \in DOMAIN timer'[v].tasks
      PROVE  /\ i \in DOMAIN timer[v].tasks /\ timer'[v].tasks[i] = timer[v].tasks[i]
             /\ timer'[v].highest_id = timer[v].highest_id
             /\ timer'[v].tasks[i].conn # c
  <2>1. CASE v = w
    BY <1>3, <1>4, <1>5, <2>1
  <2>2. CASE v # w
    BY <1>3, <2>2 DEF OneDeadline
  <2> QED
    BY <2>1, <2>2
<1>7. OneDeadline'
  BY <1>2, <1>6 DEF OneDeadline
<1>8. ASSUME NEW v \in Workers, NEW d, Armed(timer'[v], d)
      PROVE  d # c /\ Armed(timer[v], d)
  BY <1>6, <1>8 DEF Armed
<1> QED
  BY <1>2, <1>3, <1>7, <1>8
-----------------------------------------------------------------------------
(* The invariant is inductive.                                             *)

LEMMA AnswersStay ==
  ASSUME NEW k, NEW m, Same(k, m), AllAnswered(k)
  PROVE  AllAnswered(m)
  BY DEF Same, AllAnswered

LEMMA NewConnectionCorrect ==
  NewConnection \in Connections /\ ~NewConnection.open /\ AllAnswered(NewConnection)
<1>1. <<>> \in Seq(Responses) /\ DOMAIN (<<>>) = {}
  BY EmptySeq, LenProperties
<1>2. {i \in DOMAIN NewConnection.out : NewConnection.out[i].code # 100} = {}
  BY <1>1 DEF NewConnection
<1>3. AllAnswered(NewConnection)
  BY <1>2, FS_EmptySet DEF AllAnswered, NewConnection
<1>4. NewConnection \in Connections /\ ~NewConnection.open
  BY <1>1 DEF NewConnection, Connections
<1> QED
  BY <1>3, <1>4

LEMMA InitCorrect == Init => IInv
<1> SUFFICES ASSUME Init PROVE IInv
  OBVIOUS
<1> DEFINE none == [w \in Workers |-> 0]
<1>1. none \in [Workers -> Nat]
  OBVIOUS
<1>2. pending \in Workers /\ load \in [Workers -> Nat] /\ load[pending] > 0
  BY <1>1, PickCorrect DEF Init
<1>3. \A w \in Workers : queue[w] = <<>> /\ DOMAIN queue[w] = {} /\ queue[w] \in Seq(Handlers)
  BY EmptySeq, LenProperties DEF Init
<1>4. Timers /\ \A w \in Workers : \A c : ~Armed(timer[w], c)
  BY NewTimerCorrect DEF Init, Timers
<1>5. \A c \in Conns : conn[c] \in Connections /\ ~conn[c].open /\ AllAnswered(conn[c])
  BY NewConnectionCorrect DEF Init
<1>6. TypeOK
  <2>1. queue \in [Workers -> Seq(Handlers)] /\ conn \in [Conns -> Connections]
        /\ inbox \in [Conns -> Seq(Units)]
    BY <1>3, <1>5, EmptySeq DEF Init
  <2>2. \A w \in Workers :
       /\ timer[w].highest_id \in Nat
       /\ \A i \in DOMAIN timer[w].tasks :
            timer[w].tasks[i] \in [conn : Conns, left : -1..Timeout]
    BY <1>4 DEF Timers, Sound, Entries
  <2>3. /\ errors \in 0..MaxErrors /\ sent \in 0..MaxUnits /\ task_id \in [Conns -> Nat]
        /\ worker \in [Conns -> Workers \cup {-1}]
    BY ClientsAssumption DEF Init
  <2>4. /\ ticking \in [Workers -> BOOLEAN] /\ reading \in [Conns -> BOOLEAN]
        /\ peer \in [Conns -> {"up"} \cup Hangups]
        /\ shutting_down \in BOOLEAN /\ done \subseteq Workers /\ returned \in BOOLEAN
    BY DEF Init
  <2> QED
    BY <1>2, <2>1, <2>2, <2>3, <2>4 DEF TypeOK
<1>7. OneDeadline
  BY NewTimerCorrect DEF OneDeadline, Init, NewTimer, NoTasks
<1>8. Posted
  BY <1>3 DEF Posted, Once, Holds, Starts
<1>9. Watched
  BY <1>5 DEF Watched, Init
<1> QED
  BY <1>2, <1>4, <1>6, <1>7, <1>8, <1>9 DEF IInv, Types, DeadlinesOpen, Ended, Init

\* What the invariant says of a connection that no client has made yet.
LEMMA Fresh ==
  ASSUME IInv, NEW c \in Conns, worker[c] = -1
  PROVE  /\ ~conn[c].open /\ ~reading[c] /\ AllAnswered(conn[c])
         /\ \A w \in Workers : ~Holds(queue[w], c) /\ ~Armed(timer[w], c)
<1>1. ~conn[c].open /\ ~reading[c] /\ AllAnswered(conn[c])
  BY DEF IInv, Watched
<1>2. \A w \in Workers : w # -1
  BY DEF Workers
<1>3. \A w \in Workers : ~Holds(queue[w], c)
  BY <1>2 DEF IInv, Posted
<1>4. \A w \in Workers : ~Armed(timer[w], c)
  BY <1>2 DEF IInv, OneDeadline, Armed
<1> QED
  BY <1>1, <1>3, <1>4

\* A handler is posted.
LEMMA PostCorrect ==
  ASSUME queue \in [Workers -> Seq(Handlers)], \A w \in Workers : Once(queue[w]),
         NEW w \in Workers, NEW h \in Handlers, h.kind # "tick", ~Holds(queue[w], h.c),
         PostTo(w, h)
  PROVE  /\ queue' \in [Workers -> Seq(Handlers)]
         /\ \A v \in Workers : Once(queue'[v])
         /\ \A v \in Workers : \A d :
              /\ Holds(queue'[v], d) <=> Holds(queue[v], d) \/ (v = w /\ d = h.c)
              /\ Starts(queue'[v], d) <=>
                   Starts(queue[v], d) \/ (v = w /\ h.kind = "start" /\ d = h.c)
<1> DEFINE q == queue[w]
           p == Append(q, h)
<1>1. queue' = [queue EXCEPT ![w] = p]
  BY DEF PostTo
<1>2. /\ p \in Seq(Handlers) /\ Once(p)
      /\ \A d : Holds(p, d) <=> Holds(q, d) \/ d = h.c
      /\ \A d : Starts(p, d) <=> Starts(q, d) \/ (h.kind = "start" /\ d = h.c)
  BY AppendHandler
<1> HIDE DEF p
<1>3. queue'[w] = p /\ \A v \in Workers \ {w} : queue'[v] = queue[v]
  BY <1>1
<1>4. queue' \in [Workers -> Seq(Handlers)]
  BY <1>1, <1>2
<1>5. ASSUME NEW v \in Workers
      PROVE  /\ Once(queue'[v])
             /\ \A d : /\ Holds(queue'[v], d) <=> Holds(queue[v], d) \/ (v = w /\ d = h.c)
                       /\ Starts(queue'[v], d) <=>
                            Starts(queue[v], d) \/ (v = w /\ h.kind = "start" /\ d = h.c)
  <2>1. CASE v = w
    BY <1>2, <1>3, <2>1
  <2>2. CASE v # w
    BY <1>3, <2>2
  <2> QED
    BY <2>1, <2>2
<1> QED
  BY <1>4, <1>5

\* A worker takes the first of its handlers.
LEMMA TakeCorrect ==
  ASSUME queue \in [Workers -> Seq(Handlers)], \A w \in Workers : Once(queue[w]),
         NEW w \in Workers, queue[w] # <<>>, queue' = [queue EXCEPT ![w] = Tail(@)]
  PROVE  /\ queue' \in [Workers -> Seq(Handlers)] /\ Head(queue[w]) \in Handlers
         /\ \A v \in Workers : Once(queue'[v])
         /\ \A v \in Workers : \A d :
              /\ Holds(queue'[v], d) => Holds(queue[v], d)
              /\ Starts(queue'[v], d) => Starts(queue[v], d)
              /\ Holds(queue[v], d) => Holds(queue'[v], d)
                   \/ (v = w /\ Head(queue[w]).kind # "tick" /\ d = Head(queue[w]).c)
         /\ Head(queue[w]).kind # "tick" =>
              Holds(queue[w], Head(queue[w]).c) /\ ~Holds(queue'[w], Head(queue[w]).c)
         /\ Head(queue[w]).kind = "start" => Starts(queue[w], Head(queue[w]).c)
<1> DEFINE q == queue[w]
           p == Tail(q)
<1>1. queue' = [queue EXCEPT ![w] = p]
  OBVIOUS
<1>2. /\ Head(q) \in Handlers /\ p \in Seq(Handlers) /\ Once(p)
      /\ \A c : Holds(p, c) => Holds(q, c)
      /\ \A c : Starts(p, c) => Starts(q, c)
      /\ \A c : Holds(q, c) => Holds(p, c) \/ (Head(q).kind # "tick" /\ Head(q).c = c)
      /\ Head(q).kind # "tick" => Holds(q, Head(q).c) /\ ~Holds(p, Head(q).c)
      /\ Head(q).kind = "start" => Starts(q, Head(q).c)
  BY TailHandler
<1> HIDE DEF p
<1>3. queue'[w] = p /\ \A v \in Workers \ {w} : queue'[v] = queue[v]
  BY <1>1
<1>4. queue' \in [Workers -> Seq(Handlers)]
  BY <1>1, <1>2
<1>5. ASSUME NEW v \in Workers
      PROVE  /\ Once(queue'[v])
             /\ \A d :
                  /\ Holds(queue'[v], d) => Holds(queue[v], d)
                  /\ Starts(queue'[v], d) => Starts(queue[v], d)
                  /\ Holds(queue[v], d) => Holds(queue'[v], d)
                       \/ (v = w /\ Head(q).kind # "tick" /\ d = Head(q).c)
  <2>1. CASE v = w
    BY <1>2, <1>3, <2>1
  <2>2. CASE v # w
    BY <1>3, <2>2
  <2> QED
    BY <2>1, <2>2
<1> QED
  BY <1>2, <1>3, <1>4, <1>5

LEMMA AcceptCorrect ==
  ASSUME IInv, NEW c \in Conns, Accept(c)
  PROVE  IInv'
<1> DEFINE h == [kind |-> "start", c |-> c]
<1>1. TypeOK /\ Timers /\ OneDeadline /\ Posted /\ Watched /\ DeadlinesOpen /\ Ended
  BY DEF IInv, Types
<1>2. /\ ~conn[c].open /\ ~reading[c] /\ AllAnswered(conn[c])
      /\ \A w \in Workers : ~Holds(queue[w], c) /\ ~Armed(timer[w], c)
  BY Fresh DEF Accept
<1>3. h \in Handlers /\ h.kind = "start" /\ h.c = c
  BY DEF Handlers
<1>4. PostTo(pending, h) /\ pending \in Workers /\ queue \in [Workers -> Seq(Handlers)]
  BY <1>1 DEF Accept, TypeOK
<1> HIDE DEF h
<1>5. /\ queue' \in [Workers -> Seq(Handlers)]
      /\ \A w \in Workers : Once(queue'[w])
      /\ \A w \in Workers : \A d :
           /\ Holds(queue'[w], d) <=> Holds(queue[w], d) \/ (w = pending /\ d = c)
           /\ Starts(queue'[w], d) <=> Starts(queue[w], d) \/ (w = pending /\ d = c)
  <2>1. \A w \in Workers : Once(queue[w])
    BY <1>1 DEF Posted
  <2>2. ~Holds(queue[pending], h.c) /\ h.kind # "tick"
    BY <1>2, <1>3, <1>4
  <2> QED
    BY <1>3, <1>4, <2>1, <2>2, PostCorrect
<1>6. /\ conn' \in [Conns -> Connections]
      /\ conn'[c].open /\ AllAnswered(conn'[c])
      /\ \A d \in Conns \ {c} : conn'[d] = conn[d]
  <2>1. conn \in [Conns -> Connections] /\ conn' = [conn EXCEPT ![c] = [conn[c] EXCEPT !.open = TRUE]]
    BY <1>1 DEF TypeOK, Accept
  <2>2. /\ [conn[c] EXCEPT !.open = TRUE] \in Connections
        /\ [conn[c] EXCEPT !.open = TRUE].open
        /\ Same(conn[c], [conn[c] EXCEPT !.open = TRUE])
    BY <2>1, SetOpen
  <2>3. AllAnswered([conn[c] EXCEPT !.open = TRUE])
    BY <1>2, <2>2, AnswersStay
  <2> QED
    BY <2>1, <2>2, <2>3
<1>7. /\ load' \in [Workers -> Nat] /\ pending' \in Workers /\ load'[pending'] > 0
      /\ worker' \in [Conns -> Workers \cup {-1}] /\ worker'[c] = pending /\ pending \in Workers
      /\ \A d \in Conns \ {c} : worker'[d] = worker[d]
  BY <1>1, DoAcceptCorrect DEF Accept, TypeOK
<1>8. Types'
  BY <1>1, <1>5, <1>6, <1>7 DEF Types, Timers, TypeOK, Accept, clients, lifetime
<1>9. OneDeadline'
  <2>1. ASSUME NEW w \in Workers, NEW i \in DOMAIN timer[w].tasks
        PROVE  timer[w].tasks[i].conn \in Conns \ {c}
    BY <1>1, <1>2 DEF Timers, Sound, Entries, Armed
  <2> QED
    BY <1>1, <1>7, <2>1 DEF OneDeadline, Accept
<1>10. Posted'
  <2>1. ASSUME NEW w \in Workers, NEW d \in Conns
        PROVE  /\ Once(queue'[w])
               /\ Holds(queue'[w], d) => worker'[d] = w /\ ~reading'[d]
               /\ Starts(queue'[w], d) =>
                    conn'[d].open /\ \A v \in Workers : ~Armed(timer'[v], d)
    <3>1. timer' = timer /\ reading' = reading
      BY DEF Accept
    <3>2. CASE d = c
      BY <1>2, <1>5, <1>6, <1>7, <3>1, <3>2
    <3>3. CASE d # c
      BY <1>1, <1>5, <1>6, <1>7, <3>1, <3>3 DEF Posted
    <3> QED
      BY <3>2, <3>3
  <2> QED
    BY <1>5, <2>1 DEF Posted
<1>11. Watched'
  <2>1. ASSUME NEW d \in Conns
        PROVE  /\ reading'[d] => conn'[d].open
               /\ conn'[d].open => worker'[d] # -1
                    /\ (reading'[d] \/ \E w \in Workers : Holds(queue'[w], d))
               /\ conn'[d].open \/ worker'[d] = -1 => AllAnswered(conn'[d])
    <3>1. reading' = reading /\ pending # -1
      BY <1>7 DEF Accept, Workers
    <3>2. CASE d = c
      BY <1>5, <1>6, <1>7, <3>1, <3>2
    <3>3. CASE d # c
      BY <1>1, <1>5, <1>6, <1>7, <3>1, <3>3 DEF Watched
    <3> QED
      BY <3>2, <3>3
  <2> QED
    BY <2>1 DEF Watched
<1>12. DeadlinesOpen'
  BY <1>1, <1>2, <1>6 DEF DeadlinesOpen, Accept
<1>13. Ended'
  BY <1>1 DEF Ended, Accept, lifetime
<1> QED
  BY <1>8, <1>9, <1>10, <1>11, <1>12, <1>13 DEF IInv

LEMMA ReadCompletesCorrect ==
  ASSUME IInv, NEW c \in Conns, ReadCompletes(c)
  PROVE  IInv'
<1> DEFINE h == [kind |-> "read", c |-> c, ok |-> (inbox[c] # <<>>), chunk |-> inbox[c]]
<1>1. TypeOK /\ Timers /\ OneDeadline /\ Posted /\ Watched /\ DeadlinesOpen /\ Ended
  BY DEF IInv, Types
<1>2. /\ reading[c] /\ conn[c].open /\ worker[c] \in Workers
      /\ \A w \in Workers : ~Holds(queue[w], c)
  BY <1>1 DEF ReadCompletes, Watched, Posted, TypeOK
<1>3. h \in Handlers /\ h.kind = "read" /\ h.c = c
  <2>1. inbox[c] \in Seq(Units) /\ (inbox[c] # <<>>) \in BOOLEAN
    BY <1>1 DEF TypeOK
  <2> QED
    BY <2>1 DEF Handlers
<1>4. PostTo(worker[c], h) /\ queue \in [Workers -> Seq(Handlers)]
  BY <1>1 DEF ReadCompletes, TypeOK
<1> HIDE DEF h
<1>5. /\ queue' \in [Workers -> Seq(Handlers)]
      /\ \A w \in Workers : Once(queue'[w])
      /\ \A w \in Workers : \A d :
           /\ Holds(queue'[w], d) <=> Holds(queue[w], d) \/ (w = worker[c] /\ d = c)
           /\ Starts(queue'[w], d) <=> Starts(queue[w], d)
  <2>1. \A w \in Workers : Once(queue[w])
    BY <1>1 DEF Posted
  <2>2. ~Holds(queue[worker[c]], h.c) /\ h.kind # "tick" /\ h.kind # "start"
    BY <1>2, <1>3
  <2> QED
    BY <1>2, <1>3, <1>4, <2>1, <2>2, PostCorrect
<1>6. /\ reading' \in [Conns -> BOOLEAN] /\ ~reading'[c]
      /\ \A d \in Conns \ {c} : reading'[d] = reading[d]
      /\ worker' = worker /\ conn' = conn /\ timer' = timer
      /\ task_id' = task_id
  BY <1>1 DEF ReadCompletes, TypeOK, acceptor
<1>7. Types'
  <2>1. inbox' \in [Conns -> Seq(Units)]
    BY <1>1, EmptySeq DEF ReadCompletes, TypeOK
  <2> QED
    BY <1>1, <1>5, <1>6, <2>1 DEF IInv, Types, Timers, TypeOK, ReadCompletes, acceptor, clients, lifetime
<1>8. OneDeadline'
  BY <1>1, <1>6 DEF OneDeadline
<1>9. Posted'
  <2>1. ASSUME NEW w \in Workers, NEW d \in Conns
        PROVE  /\ Once(queue'[w])
               /\ Holds(queue'[w], d) => worker'[d] = w /\ ~reading'[d]
               /\ Starts(queue'[w], d) =>
                    conn'[d].open /\ \A v \in Workers : ~Armed(timer'[v], d)
    BY <1>1, <1>5, <1>6 DEF Posted
  <2> QED
    BY <1>5, <2>1 DEF Posted
<1>10. Watched'
  <2>1. ASSUME NEW d \in Conns
        PROVE  /\ reading'[d] => conn'[d].open
               /\ conn'[d].open => worker'[d] # -1
                    /\ (reading'[d] \/ \E w \in Workers : Holds(queue'[w], d))
               /\ conn'[d].open \/ worker'[d] = -1 => AllAnswered(conn'[d])
    BY <1>1, <1>2, <1>5, <1>6 DEF Watched
  <2> QED
    BY <2>1 DEF Watched
<1>11. DeadlinesOpen'
  BY <1>1, <1>6 DEF DeadlinesOpen
<1>12. Ended'
  BY <1>1, <1>6 DEF Ended, ReadCompletes, lifetime
<1> QED
  BY <1>7, <1>8, <1>9, <1>10, <1>11, <1>12 DEF IInv

\* Steps that touch neither the handlers nor the connections.
LEMMA FrameCorrect ==
  ASSUME IInv, UNCHANGED <<worker, queue, timer, conn, task_id, reading>>
  PROVE  OneDeadline' /\ Posted' /\ Watched' /\ DeadlinesOpen'
  BY DEF IInv, OneDeadline, Posted, Watched, DeadlinesOpen

LEMMA AcceptFailsCorrect ==
  ASSUME IInv, AcceptFails
  PROVE  IInv'
<1>1. TypeOK /\ Timers /\ load[pending] > 0 /\ Ended
  BY DEF IInv, Types
<1>2. UNCHANGED <<worker, queue, timer, conn, task_id, reading>>
  BY DEF AcceptFails
<1>3. [load EXCEPT ![pending] = @ - 1] \in [Workers -> Nat]
  BY <1>1 DEF TypeOK
<1>4. load' \in [Workers -> Nat] /\ pending' \in Workers /\ load'[pending'] > 0
  BY <1>3, DoAcceptCorrect DEF AcceptFails
<1>5. errors' \in 0..MaxErrors
  BY <1>1, ClientsAssumption DEF AcceptFails, TypeOK
<1>6. Types'
  BY <1>1, <1>2, <1>4, <1>5 DEF Types, Timers, TypeOK, AcceptFails, clients, lifetime
<1>7. Ended'
  BY <1>1 DEF Ended, AcceptFails, lifetime
<1> QED
  BY <1>2, <1>6, <1>7, FrameCorrect DEF IInv

LEMMA ClientCorrect ==
  ASSUME IInv, NEW c \in Conns,
         (\E u \in Units : Send(c, u)) \/ (\E how \in Hangups : Hangup(c, how))
  PROVE  IInv'
<1>1. TypeOK /\ Timers /\ load[pending] > 0 /\ Ended
  BY DEF IInv, Types
<1>2. UNCHANGED <<worker, queue, timer, conn, task_id, reading>>
  BY DEF Send, Hangup, acceptor
<1>3. Types' /\ Ended'
  <2>1. CASE \E u \in Units : Send(c, u)
    <3>1. PICK u \in Units : Send(c, u)
      BY <2>1
    <3>2. inbox' \in [Conns -> Seq(Units)]
      <4>1. Append(inbox[c], u) \in Seq(Units)
        BY <1>1, AppendProperties DEF TypeOK
      <4> QED
        BY <1>1, <3>1, <4>1 DEF TypeOK, Send
    <3>3. sent' \in 0..MaxUnits
      BY <1>1, <3>1, ClientsAssumption DEF TypeOK, Send
    <3> QED
      BY <1>1, <3>1, <3>2, <3>3 DEF Types, Timers, TypeOK, Ended, Send, acceptor, lifetime
  <2>2. CASE \E how \in Hangups : Hangup(c, how)
    <3>1. PICK how \in Hangups : Hangup(c, how)
      BY <2>2
    <3>2. inbox' \in [Conns -> Seq(Units)] /\ peer' \in [Conns -> {"up"} \cup Hangups]
      BY <1>1, <3>1, EmptySeq DEF TypeOK, Hangup
    <3> QED
      BY <1>1, <3>1, <3>2 DEF Types, Timers, TypeOK, Ended, Hangup, acceptor, lifetime
  <2> QED
    BY <2>1, <2>2
<1> QED
  BY <1>2, <1>3, FrameCorrect DEF IInv

LEMMA StopCorrect ==
  ASSUME IInv, Stop
  PROVE  IInv'
<1>1. UNCHANGED <<worker, queue, timer, conn, task_id, reading>>
  BY DEF Stop, acceptor
<1>2. Types' /\ Ended'
  BY DEF IInv, Types, Timers, TypeOK, Ended, Stop, acceptor, clients
<1> QED
  BY <1>1, <1>2, FrameCorrect DEF IInv

LEMMA TickCorrect ==
  ASSUME IInv, Tick
  PROVE  IInv'
<1> DEFINE h == [kind |-> "tick"]
<1>1. TypeOK /\ Timers /\ OneDeadline /\ Posted /\ Watched /\ DeadlinesOpen /\ Ended
  BY DEF IInv, Types
<1>2. worker' = worker /\ conn' = conn /\ task_id' = task_id /\ reading' = reading
  BY DEF Tick, acceptor
<1>3. h \in Handlers /\ h.kind = "tick"
  BY DEF Handlers
<1>4. queue' = [w \in Workers |-> IF ticking[w] THEN Append(queue[w], h) ELSE queue[w]]
  BY DEF Tick
<1> HIDE DEF h
<1>5. ASSUME NEW w \in Workers
      PROVE  /\ queue'[w] \in Seq(Handlers) /\ Once(queue'[w])
             /\ \A d : /\ Holds(queue'[w], d) <=> Holds(queue[w], d)
                       /\ Starts(queue'[w], d) <=> Starts(queue[w], d)
  <2>1. queue[w] \in Seq(Handlers) /\ Once(queue[w])
    BY <1>1 DEF TypeOK, Posted
  <2>2. LET p == Append(queue[w], h) IN
        /\ p \in Seq(Handlers) /\ Once(p)
        /\ \A d : Holds(p, d) <=> Holds(queue[w], d)
        /\ \A d : Starts(p, d) <=> Starts(queue[w], d)
    BY <1>3, <2>1, AppendHandler
  <2> QED
    BY <1>4, <2>1, <2>2
<1>6. queue' \in [Workers -> Seq(Handlers)]
  BY <1>4, <1>5
<1>7. ASSUME NEW w \in Workers
      PROVE  /\ Sound(timer'[w]) /\ DOMAIN timer'[w].tasks = DOMAIN timer[w].tasks
             /\ timer'[w].highest_id = timer[w].highest_id
             /\ \A i \in DOMAIN timer[w].tasks : timer'[w].tasks[i].conn = timer[w].tasks[i].conn
  <2>1. timer'[w] = Elapse(timer[w]) /\ Sound(timer[w])
    BY <1>1 DEF Tick, Timers
  <2>2. Elapse(timer[w]).highest_id = timer[w].highest_id
    BY DEF Elapse
  <2> QED
    BY <2>1, <2>2, ElapseCorrect
<1>8. Timers' /\ \A w \in Workers : \A d : Armed(timer'[w], d) <=> Armed(timer[w], d)
  <2>1. DOMAIN timer' = Workers
    BY DEF Tick
  <2> QED
    BY <1>7, <2>1 DEF Timers, Armed
<1>9. Types'
  <2>1. ticking' \in [Workers -> BOOLEAN]
    BY DEF Tick
  <2>2. \A w \in Workers :
       /\ timer'[w].highest_id \in Nat
       /\ \A i \in DOMAIN timer'[w].tasks :
            timer'[w].tasks[i] \in [conn : Conns, left : -1..Timeout]
    BY <1>8 DEF Timers, Sound, Entries
  <2> QED
    BY <1>1, <1>2, <1>6, <1>8, <2>1, <2>2 DEF IInv, Types, TypeOK, Tick, acceptor, clients, lifetime
<1>10. OneDeadline'
  BY <1>1, <1>2, <1>7 DEF OneDeadline
<1>11. Posted'
  BY <1>1, <1>2, <1>5, <1>8 DEF Posted
<1>12. Watched'
  BY <1>1, <1>2, <1>5 DEF Watched
<1>13. DeadlinesOpen'
  BY <1>1, <1>2, <1>8 DEF DeadlinesOpen
<1>14. Ended'
  BY <1>1 DEF Ended, Tick, lifetime
<1> QED
  BY <1>9, <1>10, <1>11, <1>12, <1>13, <1>14 DEF IInv

LEMMA RunStartCorrect ==
  ASSUME IInv, NEW w \in Workers, RunStart(w)
  PROVE  IInv'
<1> DEFINE h == Head(queue[w])
           c == h.c
<1>1. TypeOK /\ Timers /\ OneDeadline /\ Posted /\ Watched /\ DeadlinesOpen /\ Ended
  BY DEF IInv, Types
<1>2. h.kind = "start" /\ queue[w] # <<>> /\ queue' = [queue EXCEPT ![w] = Tail(@)]
      /\ worker' = worker /\ conn' = conn
  BY DEF RunStart, Runs, acceptor
<1>3. StartDeadline(w, c)
  BY DEF RunStart
<1> HIDE DEF h
<1>4. /\ queue' \in [Workers -> Seq(Handlers)] /\ h \in Handlers
      /\ \A v \in Workers : Once(queue'[v])
      /\ \A v \in Workers : \A d :
           /\ Holds(queue'[v], d) => Holds(queue[v], d)
           /\ Starts(queue'[v], d) => Starts(queue[v], d)
           /\ Holds(queue[v], d) => Holds(queue'[v], d) \/ (v = w /\ d = c)
      /\ Holds(queue[w], c) /\ ~Holds(queue'[w], c) /\ Starts(queue[w], c)
  <2>1. queue \in [Workers -> Seq(Handlers)] /\ \A v \in Workers : Once(queue[v])
    BY <1>1 DEF TypeOK, Posted
  <2> QED
    BY <1>2, <2>1, TakeCorrect DEF h
<1>5. c \in Conns
  BY <1>2, <1>4 DEF Handlers
<1>6. /\ worker[c] = w /\ ~reading[c] /\ conn[c].open
      /\ \A v \in Workers : ~Armed(timer[v], c)
      /\ \A v \in Workers \ {w} : ~Holds(queue[v], c)
  BY <1>1, <1>4, <1>5 DEF Posted
<1>7. \A v \in Workers : \A d : Starts(queue'[v], d) => Holds(queue'[v], d)
  BY DEF Starts, Holds
<1> HIDE DEF c
<1>8. /\ Timers' /\ OneDeadline' /\ task_id' \in [Conns -> Nat]
      /\ reading' = [reading EXCEPT ![c] = TRUE]
      /\ \A v \in Workers : \A d : Armed(timer'[v], d) => d = c \/ Armed(timer[v], d)
      /\ \A v \in Workers \ {w} : timer'[v] = timer[v]
  BY <1>1, <1>2, <1>3, <1>5, <1>6, StartDeadlineCorrect DEF TypeOK
<1>9. /\ reading' \in [Conns -> BOOLEAN] /\ reading'[c]
      /\ \A d \in Conns \ {c} : reading'[d] = reading[d]
  BY <1>1, <1>5, <1>8 DEF TypeOK
<1>10. Types'
  <2>1. \A v \in Workers :
       /\ timer'[v].highest_id \in Nat
       /\ \A i \in DOMAIN timer'[v].tasks :
            timer'[v].tasks[i] \in [conn : Conns, left : -1..Timeout]
    BY <1>8 DEF Timers, Sound, Entries
  <2> QED
    BY <1>1, <1>4, <1>8, <1>9, <2>1 DEF IInv, Types, TypeOK, RunStart, acceptor, clients, lifetime
<1>11. Posted'
  <2>1. ASSUME NEW v \in Workers, NEW d \in Conns
        PROVE  /\ Holds(queue'[v], d) => worker'[d] = v /\ ~reading'[d]
               /\ Starts(queue'[v], d) =>
                    conn'[d].open /\ \A x \in Workers : ~Armed(timer'[x], d)
    <3>1. CASE d = c
      BY <1>4, <1>6, <1>7, <3>1
    <3>2. CASE d # c
      BY <1>1, <1>2, <1>4, <1>8, <1>9, <3>2 DEF Posted
    <3> QED
      BY <3>1, <3>2
  <2> QED
    BY <1>4, <2>1 DEF Posted
<1>12. Watched'
  <2>1. ASSUME NEW d \in Conns
        PROVE  /\ reading'[d] => conn'[d].open
               /\ conn'[d].open => worker'[d] # -1
                    /\ (reading'[d] \/ \E v \in Workers : Holds(queue'[v], d))
               /\ conn'[d].open \/ worker'[d] = -1 => AllAnswered(conn'[d])
    BY <1>1, <1>2, <1>4, <1>6, <1>9 DEF Watched
  <2> QED
    BY <2>1 DEF Watched
<1>13. DeadlinesOpen'
  BY <1>1, <1>2, <1>6, <1>8 DEF DeadlinesOpen
<1>14. Ended'
  <2>1. done' = done /\ shutting_down' = shutting_down /\ ~shutting_down
    BY DEF RunStart, Runs, lifetime
  <2> QED
    BY <1>1, <2>1 DEF Ended
<1> QED
  BY <1>8, <1>10, <1>11, <1>12, <1>13, <1>14 DEF IInv

LEMMA RunReadCorrect ==
  ASSUME IInv, NEW w \in Workers, RunRead(w)
  PROVE  IInv'
<1> DEFINE h == Head(queue[w])
           c == h.c
           fed == IF h.ok THEN Feed(conn[c], h.chunk, peer[c] # "reset")
                          ELSE [conn[c] EXCEPT !.stop = "error"]
           readsOn == fed.stop = "no" /\ fed.open /\ ~fed.close_connection
           left == [fed EXCEPT !.open = readsOn]
<1>1. TypeOK /\ Timers /\ OneDeadline /\ Posted /\ Watched /\ DeadlinesOpen /\ Ended
  BY DEF IInv, Types
<1>2. h.kind = "read" /\ queue[w] # <<>> /\ queue' = [queue EXCEPT ![w] = Tail(@)]
      /\ worker' = worker
  BY DEF RunRead, Runs, acceptor
<1>3. /\ conn' = [conn EXCEPT ![c] = left]
      /\ inbox' = [inbox EXCEPT ![c] = IF readsOn THEN @ ELSE <<>>]
      /\ IF readsOn THEN StartDeadline(w, c) ELSE CancelDeadline(w, c)
  BY DEF RunRead
<1> HIDE DEF h
<1>4. /\ queue' \in [Workers -> Seq(Handlers)] /\ h \in Handlers
      /\ \A v \in Workers : Once(queue'[v])
      /\ \A v \in Workers : \A d :
           /\ Holds(queue'[v], d) => Holds(queue[v], d)
           /\ Starts(queue'[v], d) => Starts(queue[v], d)
           /\ Holds(queue[v], d) => Holds(queue'[v], d) \/ (v = w /\ d = c)
      /\ Holds(queue[w], c) /\ ~Holds(queue'[w], c)
  <2>1. queue \in [Workers -> Seq(Handlers)] /\ \A v \in Workers : Once(queue[v])
    BY <1>1 DEF TypeOK, Posted
  <2> QED
    BY <1>2, <2>1, TakeCorrect DEF h
<1>5. c \in Conns /\ h.chunk \in Seq(Units) /\ h.ok \in BOOLEAN
  BY <1>2, <1>4 DEF Handlers
<1>6. /\ worker[c] = w /\ ~reading[c]
      /\ \A v \in Workers \ {w} : ~Holds(queue[v], c)
  BY <1>1, <1>4, <1>5 DEF Posted
<1>7. \A v \in Workers : \A d : Starts(queue'[v], d) => Holds(queue'[v], d)
  BY DEF Starts, Holds
<1> HIDE DEF c
<1>8. conn[c] \in Connections /\ (conn[c].open => AllAnswered(conn[c]))
  BY <1>1, <1>5 DEF TypeOK, Watched
<1>9. fed \in Connections /\ Served(fed)
  <2>1. CASE h.ok
    <3>1. h.chunk \in Seq(Requests)
      BY <1>5, ClientsAssumption, SeqMonotonic
    <3>2. fed = Feed(conn[c], h.chunk, peer[c] # "reset") /\ (peer[c] # "reset") \in BOOLEAN
      BY <2>1
    <3> HIDE DEF fed
    <3> QED
      BY <1>8, <3>1, <3>2, FeedCorrect
  <2>2. CASE ~h.ok
    <3>1. fed = [conn[c] EXCEPT !.stop = "error"]
      BY <2>2
    <3> HIDE DEF fed
    <3> QED
      BY <1>8, <3>1, SetStop DEF Served
  <2> QED
    BY <2>1, <2>2
<1> HIDE DEF fed
<1>10. readsOn \in BOOLEAN /\ (readsOn => fed.open /\ fed.stop = "no")
  OBVIOUS
<1> HIDE DEF readsOn
<1>11. left \in Connections /\ left.open = readsOn /\ (readsOn => AllAnswered(left))
  <2>1. left \in Connections /\ left.open = readsOn /\ Same(fed, left)
    BY <1>9, <1>10, SetOpen
  <2>2. readsOn => AllAnswered(fed)
    BY <1>9, <1>10 DEF Served
  <2> HIDE DEF left
  <2> QED
    BY <2>1, <2>2, AnswersStay
<1> HIDE DEF left
<1>12. /\ conn' \in [Conns -> Connections] /\ conn'[c] = left
       /\ \A d \in Conns \ {c} : conn'[d] = conn[d]
  BY <1>1, <1>3, <1>5, <1>11 DEF TypeOK
<1>13. inbox' \in [Conns -> Seq(Units)]
  BY <1>1, <1>3, <1>5, EmptySeq DEF TypeOK
<1>14. /\ Timers' /\ OneDeadline' /\ task_id' \in [Conns -> Nat]
       /\ reading' = [reading EXCEPT ![c] = readsOn]
       /\ \A v \in Workers : \A d :
            Armed(timer'[v], d) => (d = c /\ readsOn) \/ (d # c /\ Armed(timer[v], d))
       /\ \A v \in Workers \ {w} : timer'[v] = timer[v]
  <2>1. CASE readsOn
    <3>1. StartDeadline(w, c)
      BY <1>3, <2>1
    <3>2. /\ Timers' /\ OneDeadline' /\ task_id' \in [Conns -> Nat]
          /\ reading' = [reading EXCEPT ![c] = TRUE]
          /\ \A v \in Workers : \A d : Armed(timer'[v], d) => d = c \/ Armed(timer[v], d)
          /\ \A v \in Workers \ {w} : timer'[v] = timer[v]
      BY <1>1, <1>2, <1>5, <1>6, <3>1, StartDeadlineCorrect DEF TypeOK
    <3> QED
      BY <1>10, <2>1, <3>2
  <2>2. CASE ~readsOn
    <3>1. CancelDeadline(w, c)
      BY <1>3, <2>2
    <3>2. /\ Timers' /\ OneDeadline' /\ task_id' = task_id /\ reading' = reading
          /\ \A v \in Workers : \A d : Armed(timer'[v], d) => d # c /\ Armed(timer[v], d)
          /\ \A v \in Workers \ {w} : timer'[v] = timer[v]
      BY <1>1, <1>2, <1>5, <1>6, <3>1, CancelDeadlineCorrect DEF TypeOK
    <3>3. reading = [reading EXCEPT ![c] = readsOn]
      BY <1>1, <1>5, <1>6, <1>10, <2>2 DEF TypeOK
    <3> QED
      BY <1>1, <2>2, <3>2, <3>3 DEF TypeOK
  <2> QED
    BY <1>10, <2>1, <2>2
<1>15. /\ reading' \in [Conns -> BOOLEAN] /\ reading'[c] = readsOn
       /\ \A d \in Conns \ {c} : reading'[d] = reading[d]
  BY <1>1, <1>5, <1>10, <1>14 DEF TypeOK
<1>16. Types'
  <2>1. \A v \in Workers :
       /\ timer'[v].highest_id \in Nat
       /\ \A i \in DOMAIN timer'[v].tasks :
            timer'[v].tasks[i] \in [conn : Conns, left : -1..Timeout]
    BY <1>14 DEF Timers, Sound, Entries
  <2> QED
    BY <1>1, <1>4, <1>12, <1>13, <1>14, <1>15, <2>1
    DEF IInv, Types, TypeOK, RunRead, acceptor, clients, lifetime
<1>17. Posted'
  <2>1. ASSUME NEW v \in Workers, NEW d \in Conns
        PROVE  /\ Holds(queue'[v], d) => worker'[d] = v /\ ~reading'[d]
               /\ Starts(queue'[v], d) =>
                    conn'[d].open /\ \A x \in Workers : ~Armed(timer'[x], d)
    <3>1. CASE d = c
      BY <1>4, <1>6, <1>7, <3>1
    <3>2. CASE d # c
      BY <1>1, <1>2, <1>4, <1>12, <1>14, <1>15, <3>2 DEF Posted
    <3> QED
      BY <3>1, <3>2
  <2> QED
    BY <1>4, <2>1 DEF Posted
<1>18. Watched'
  <2>1. ASSUME NEW d \in Conns
        PROVE  /\ reading'[d] => conn'[d].open
               /\ conn'[d].open => worker'[d] # -1
                    /\ (reading'[d] \/ \E v \in Workers : Holds(queue'[v], d))
               /\ conn'[d].open \/ worker'[d] = -1 => AllAnswered(conn'[d])
    <3>1. w # -1
      BY DEF Workers
    <3>2. CASE d = c
      BY <1>2, <1>6, <1>11, <1>12, <1>15, <3>1, <3>2
    <3>3. CASE d # c
      BY <1>1, <1>2, <1>4, <1>12, <1>15, <3>3 DEF Watched
    <3> QED
      BY <3>2, <3>3
  <2> QED
    BY <2>1 DEF Watched
<1>19. DeadlinesOpen'
  BY <1>1, <1>11, <1>12, <1>14 DEF DeadlinesOpen
<1>20. Ended'
  <2>1. done' = done /\ shutting_down' = shutting_down /\ ~shutting_down
    BY DEF RunRead, Runs, lifetime
  <2> QED
    BY <1>1, <2>1 DEF Ended
<1> QED
  BY <1>14, <1>16, <1>17, <1>18, <1>19, <1>20 DEF IInv

LEMMA RunTickCorrect ==
  ASSUME IInv, NEW w \in Workers, RunTick(w)
  PROVE  IInv'
<1> DEFINE t == timer[w]
           q == Tail(queue[w])
           closed(due) == {c \in {t.tasks[i].conn : i \in due} : conn[c].open}
           aborted(due) == {c \in closed(due) : reading[c]}
<1>1. TypeOK /\ Timers /\ OneDeadline /\ Posted /\ Watched /\ DeadlinesOpen /\ Ended
  BY DEF IInv, Types
<1>2. PICK due \in SUBSET MayRun(t) :
        /\ conn' = [c \in Conns |-> [conn[c] EXCEPT !.open = @ /\ c \notin closed(due)]]
        /\ inbox' = [c \in Conns |-> IF c \in closed(due) THEN <<>> ELSE inbox[c]]
        /\ reading' = [c \in Conns |-> reading[c] /\ c \notin aborted(due)]
        /\ \E order \in SetToSeqs(aborted(due)) :
             queue' = [queue EXCEPT ![w] =
               q \o [i \in DOMAIN order |-> Aborted(order[i])]]
        /\ timer' = [timer EXCEPT ![w] = ProcessTasks(t, due)]
  BY DEF RunTick, Aborted
<1> DEFINE C == closed(due)
           A == aborted(due)
<1>3. /\ Head(queue[w]).kind = "tick" /\ queue[w] # <<>> /\ worker' = worker
      /\ task_id' = task_id /\ ticking' = [ticking EXCEPT ![w] = TRUE]
  BY DEF RunTick, Runs, acceptor
<1>4. /\ due \in SUBSET DOMAIN t.tasks /\ Sound(t)
      /\ \A i \in DOMAIN t.tasks : t.tasks[i].conn \in Conns
  BY <1>1 DEF MayRun, Timers, Sound, Entries
<1>5. /\ C \in SUBSET Conns /\ A \in SUBSET C
      /\ \A c \in C : conn[c].open /\ \E i \in due : t.tasks[i].conn = c
      /\ \A c \in Conns : c \in A <=> c \in C /\ reading[c]
      /\ \A i \in due : conn[t.tasks[i].conn].open => t.tasks[i].conn \in C
  BY <1>4
<1>6. /\ \A c \in Conns : conn'[c] = [conn[c] EXCEPT !.open = @ /\ c \notin C]
      /\ \A c \in Conns : reading'[c] = (reading[c] /\ c \notin A)
      /\ DOMAIN conn' = Conns /\ conn' = [c \in Conns |-> conn'[c]]
      /\ inbox' = [c \in Conns |-> IF c \in C THEN <<>> ELSE inbox[c]]
      /\ reading' \in [Conns -> BOOLEAN]
  BY <1>1, <1>2 DEF TypeOK
<1>7. PICK order \in SetToSeqs(A) :
        queue' = [queue EXCEPT ![w] = q \o [i \in DOMAIN order |-> Aborted(order[i])]]
  BY <1>2
<1>8. timer' = [timer EXCEPT ![w] = ProcessTasks(t, due)]
  BY <1>2
<1> HIDE DEF C, A
<1>9. ASSUME NEW c \in C
      PROVE  /\ worker[c] = w /\ c \in Conns
             /\ \A v \in Workers : ~Starts(queue[v], c)
             /\ c \in A => \A v \in Workers : ~Holds(queue[v], c)
  <2>1. PICK i \in due : t.tasks[i].conn = c
    BY <1>5
  <2>2. Armed(t, c)
    BY <1>4, <2>1 DEF Armed
  <2>3. worker[c] = w /\ c \in Conns
    BY <1>1, <1>4, <2>1 DEF OneDeadline
  <2> QED
    BY <1>1, <1>5, <2>2, <2>3 DEF Posted
<1>10. /\ queue' \in [Workers -> Seq(Handlers)]
       /\ \A v \in Workers : Once(queue'[v])
       /\ \A v \in Workers : \A d :
            /\ Holds(queue'[v], d) <=> Holds(queue[v], d) \/ (v = w /\ d \in A)
            /\ Starts(queue'[v], d) => Starts(queue[v], d)
  <2> DEFINE p == q \o [i \in DOMAIN order |-> Aborted(order[i])]
  <2>1. queue[w] \in Seq(Handlers) /\ Once(queue[w])
    BY <1>1 DEF TypeOK, Posted
  <2>2. /\ q \in Seq(Handlers) /\ Once(q)
        /\ \A c : Holds(q, c) => Holds(queue[w], c)
        /\ \A c : Starts(q, c) => Starts(queue[w], c)
        /\ \A c : Holds(queue[w], c) => Holds(q, c)
    BY <1>3, <2>1, TailHandler
  <2> HIDE DEF q
  <2>3. IsFiniteSet(A) /\ A \in SUBSET Conns
    <3>1. A \in SUBSET Conns
      BY <1>5
    <3> QED
      BY <3>1, ClientsAssumption, FS_Subset
  <2>4. \A c \in A : ~Holds(q, c)
    BY <1>5, <1>9, <2>2
  <2>5. /\ p \in Seq(Handlers) /\ Once(p)
        /\ \A c : Holds(p, c) <=> Holds(q, c) \/ c \in A
        /\ \A c : Starts(p, c) <=> Starts(q, c)
    BY <1>7, <2>2, <2>3, <2>4, AbortHandlers
  <2> HIDE DEF p
  <2>6. queue' = [queue EXCEPT ![w] = p]
    BY <1>7 DEF p
  <2>7. queue' \in [Workers -> Seq(Handlers)] /\ queue'[w] = p
        /\ \A v \in Workers \ {w} : queue'[v] = queue[v]
    BY <1>1, <2>5, <2>6 DEF TypeOK
  <2>8. ASSUME NEW v \in Workers
        PROVE  /\ Once(queue'[v])
               /\ \A d : /\ Holds(queue'[v], d) <=> Holds(queue[v], d) \/ (v = w /\ d \in A)
                         /\ Starts(queue'[v], d) => Starts(queue[v], d)
    <3>1. CASE v = w
      BY <2>2, <2>5, <2>7, <3>1
    <3>2. CASE v # w
      BY <1>1, <2>7, <3>2 DEF Posted
    <3> QED
      BY <3>1, <3>2
  <2> QED
    BY <2>7, <2>8
<1>11. /\ Sound(timer'[w]) /\ DOMAIN timer'[w].tasks = DOMAIN t.tasks \ due
       /\ \A i \in DOMAIN t.tasks \ due : timer'[w].tasks[i] = t.tasks[i]
       /\ DOMAIN timer' = Workers /\ \A v \in Workers \ {w} : timer'[v] = timer[v]
  <2>1. /\ Sound(ProcessTasks(t, due)) /\ DOMAIN ProcessTasks(t, due).tasks = DOMAIN t.tasks \ due
        /\ \A i \in DOMAIN t.tasks \ due : ProcessTasks(t, due).tasks[i] = t.tasks[i]
    BY <1>4, ProcessCorrect
  <2> QED
    BY <1>1, <1>8, <2>1 DEF Timers
<1>12. Timers'
  BY <1>1, <1>11 DEF Timers
<1>13. ASSUME NEW v \in Workers, NEW i \in DOMAIN timer'[v].tasks
       PROVE  /\ i \in DOMAIN timer[v].tasks /\ timer'[v].tasks[i] = timer[v].tasks[i]
              /\ i \in 1..timer'[v].highest_id
              /\ timer[v].tasks[i].conn \notin C
  <2>1. i \in 1..timer'[v].highest_id
    BY <1>12 DEF Timers, Sound
  <2>2. CASE v = w
    <3>1. i \in DOMAIN t.tasks \ due /\ timer'[w].tasks[i] = t.tasks[i]
      BY <1>11, <2>2
    <3>2. ASSUME t.tasks[i].conn \in C PROVE FALSE
      <4>1. PICK j \in due : t.tasks[j].conn = t.tasks[i].conn
        BY <1>5, <3>2
      <4>2. i = j
        BY <1>1, <1>4, <3>1, <4>1 DEF OneDeadline
      <4> QED
        BY <3>1, <4>2
    <3> QED
      BY <2>1, <2>2, <3>1, <3>2
  <2>3. CASE v # w
    <3>1. timer'[v] = timer[v]
      BY <1>11, <2>3
    <3>2. worker[timer[v].tasks[i].conn] = v
      BY <1>1, <3>1 DEF OneDeadline
    <3> QED
      BY <1>9, <2>1, <2>3, <3>1, <3>2
  <2> QED
    BY <2>2, <2>3
<1>14. ASSUME NEW v \in Workers, NEW d, Armed(timer'[v], d)
       PROVE  Armed(timer[v], d) /\ d \notin C
  BY <1>13, <1>14 DEF Armed
<1>15. ASSUME NEW c \in Conns
       PROVE  /\ conn'[c] \in Connections
              /\ conn'[c].open <=> conn[c].open /\ c \notin C
              /\ AllAnswered(conn[c]) => AllAnswered(conn'[c])
  <2> DEFINE b == conn[c].open /\ c \notin C
  <2>1. conn[c] \in Connections /\ conn[c].open \in BOOLEAN
    BY <1>1 DEF TypeOK, Connections
  <2>2. conn'[c] = [conn[c] EXCEPT !.open = b] /\ b \in BOOLEAN
    BY <1>6, <2>1
  <2> HIDE DEF b
  <2>3. conn'[c] \in Connections /\ conn'[c].open = b /\ Same(conn[c], conn'[c])
    BY <2>1, <2>2, SetOpen
  <2>4. AllAnswered(conn[c]) => AllAnswered(conn'[c])
    BY <2>3, AnswersStay
  <2> QED
    BY <2>3, <2>4 DEF b
<1>16. Types'
  <2>1. conn' \in [Conns -> Connections]
    BY <1>6, <1>15
  <2>2. inbox' \in [Conns -> Seq(Units)] /\ ticking' \in [Workers -> BOOLEAN]
    BY <1>1, <1>3, <1>6, EmptySeq DEF TypeOK
  <2>3. \A v \in Workers :
       /\ timer'[v].highest_id \in Nat
       /\ \A i \in DOMAIN timer'[v].tasks :
            timer'[v].tasks[i] \in [conn : Conns, left : -1..Timeout]
    BY <1>12 DEF Timers, Sound, Entries
  <2> QED
    BY <1>1, <1>3, <1>6, <1>10, <1>12, <2>1, <2>2, <2>3
    DEF IInv, Types, TypeOK, RunTick, acceptor, clients, lifetime
<1>17. OneDeadline'
  BY <1>1, <1>3, <1>13 DEF OneDeadline
<1>18. Posted'
  <2>1. ASSUME NEW v \in Workers, NEW d \in Conns
        PROVE  /\ Holds(queue'[v], d) => worker'[d] = v /\ ~reading'[d]
               /\ Starts(queue'[v], d) =>
                    conn'[d].open /\ \A x \in Workers : ~Armed(timer'[x], d)
    <3>1. Holds(queue'[v], d) => worker'[d] = v /\ ~reading'[d]
      BY <1>1, <1>3, <1>5, <1>6, <1>9, <1>10 DEF Posted
    <3>2. ASSUME Starts(queue'[v], d)
          PROVE  conn'[d].open /\ \A x \in Workers : ~Armed(timer'[x], d)
      BY <1>1, <1>9, <1>10, <1>14, <1>15, <3>2 DEF Posted
    <3> QED
      BY <3>1, <3>2
  <2> QED
    BY <1>10, <2>1 DEF Posted
<1>19. Watched'
  <2>1. ASSUME NEW d \in Conns
        PROVE  /\ reading'[d] => conn'[d].open
               /\ conn'[d].open => worker'[d] # -1
                    /\ (reading'[d] \/ \E v \in Workers : Holds(queue'[v], d))
               /\ conn'[d].open \/ worker'[d] = -1 => AllAnswered(conn'[d])
    BY <1>1, <1>3, <1>5, <1>6, <1>10, <1>15 DEF Watched
  <2> QED
    BY <2>1 DEF Watched
<1>20. DeadlinesOpen'
  BY <1>1, <1>14, <1>15 DEF DeadlinesOpen
<1>21. Ended'
  <2>1. done' = done /\ shutting_down' = shutting_down /\ ~shutting_down
    BY DEF RunTick, Runs, lifetime
  <2> QED
    BY <1>1, <2>1 DEF Ended
<1> QED
  BY <1>12, <1>16, <1>17, <1>18, <1>19, <1>20, <1>21 DEF IInv, Types

LEMMA WorkerEndsCorrect ==
  ASSUME IInv, NEW w \in Workers, WorkerEnds(w)
  PROVE  IInv'
<1>1. TypeOK /\ Timers /\ OneDeadline /\ Posted /\ Watched /\ DeadlinesOpen /\ Ended
  BY DEF IInv, Types
<1>2. /\ worker' = worker /\ queue' = queue /\ conn' = conn /\ task_id' = task_id
      /\ reading' = reading /\ timer' = [timer EXCEPT ![w] = NewTimer]
      /\ shutting_down /\ shutting_down' = shutting_down /\ done' = done \cup {w}
  BY DEF WorkerEnds, acceptor
<1>3. /\ DOMAIN timer' = Workers /\ timer'[w] = NewTimer
      /\ \A v \in Workers \ {w} : timer'[v] = timer[v]
  BY <1>1, <1>2 DEF Timers
<1>4. Timers' /\ \A v \in Workers : \A c : Armed(timer'[v], c) => Armed(timer[v], c)
  <2>1. ASSUME NEW v \in Workers
        PROVE  Sound(timer'[v]) /\ \A c : Armed(timer'[v], c) => Armed(timer[v], c)
    <3>1. CASE v = w
      BY <1>3, <3>1, NewTimerCorrect
    <3>2. CASE v # w
      BY <1>1, <1>3, <3>2 DEF Timers
    <3> QED
      BY <3>1, <3>2
  <2> QED
    BY <1>3, <2>1 DEF Timers
<1>5. Types'
  <2>1. \A v \in Workers :
       /\ timer'[v].highest_id \in Nat
       /\ \A i \in DOMAIN timer'[v].tasks :
            timer'[v].tasks[i] \in [conn : Conns, left : -1..Timeout]
    BY <1>4 DEF Timers, Sound, Entries
  <2> QED
    BY <1>1, <1>4, <2>1 DEF IInv, Types, TypeOK, WorkerEnds, acceptor, clients
<1>6. OneDeadline'
  <2>1. ASSUME NEW v \in Workers, NEW i \in DOMAIN timer'[v].tasks
        PROVE  v # w
    BY <1>3 DEF NewTimer, NoTasks
  <2> QED
    BY <1>1, <1>2, <1>3, <2>1 DEF OneDeadline
<1>7. Posted'
  BY <1>1, <1>2, <1>4 DEF Posted
<1>8. Watched'
  BY <1>1, <1>2 DEF Watched
<1>9. DeadlinesOpen'
  BY <1>1, <1>2, <1>4 DEF DeadlinesOpen
<1>10. Ended'
  BY <1>1, <1>2, <1>3 DEF Ended, TypeOK
<1> QED
  BY <1>5, <1>6, <1>7, <1>8, <1>9, <1>10 DEF IInv

LEMMA RunReturnsCorrect ==
  ASSUME IInv, RunReturns
  PROVE  IInv'
<1>1. TypeOK /\ Timers /\ OneDeadline /\ Watched /\ Ended
  BY DEF IInv, Types
<1>2. /\ worker' = worker /\ timer' = timer /\ task_id' = task_id /\ done' = done
      /\ shutting_down' = shutting_down /\ done = Workers
      /\ conn' = [c \in Conns |-> [conn[c] EXCEPT !.open = FALSE]]
      /\ reading' = [c \in Conns |-> FALSE]
      /\ queue' = [w \in Workers |-> <<>>]
  BY DEF RunReturns, acceptor
<1>3. ASSUME NEW w \in Workers
      PROVE  /\ queue'[w] \in Seq(Handlers) /\ DOMAIN queue'[w] = {}
             /\ \A c : ~Armed(timer'[w], c)
  <2>1. timer'[w] = NewTimer
    BY <1>1, <1>2 DEF Ended
  <2> QED
    BY <1>2, <2>1, EmptySeq, LenProperties, NewTimerCorrect
<1>4. ASSUME NEW c \in Conns
      PROVE  /\ conn'[c] \in Connections /\ ~conn'[c].open
             /\ AllAnswered(conn[c]) => AllAnswered(conn'[c])
  <2>1. conn[c] \in Connections /\ conn'[c] = [conn[c] EXCEPT !.open = FALSE]
    BY <1>1, <1>2 DEF TypeOK
  <2>2. conn'[c] \in Connections /\ ~conn'[c].open /\ Same(conn[c], conn'[c])
    BY <2>1, SetOpen
  <2> QED
    BY <2>2, AnswersStay
<1>5. Types'
  <2>1. conn' \in [Conns -> Connections] /\ queue' \in [Workers -> Seq(Handlers)]
    BY <1>2, <1>3, <1>4
  <2>2. reading' \in [Conns -> BOOLEAN] /\ inbox' \in [Conns -> Seq(Units)]
    BY <1>2, EmptySeq DEF RunReturns
  <2> QED
    BY <1>1, <1>2, <2>1, <2>2
    DEF IInv, Types, Timers, TypeOK, RunReturns, acceptor, clients
<1>6. OneDeadline'
  BY <1>1, <1>2 DEF OneDeadline
<1>7. Posted'
  BY <1>3 DEF Posted, Once, Holds, Starts
<1>8. Watched'
  BY <1>1, <1>2, <1>4 DEF Watched
<1>9. DeadlinesOpen'
  BY <1>3 DEF DeadlinesOpen
<1>10. Ended'
  BY <1>1, <1>2 DEF Ended
<1> QED
  BY <1>5, <1>6, <1>7, <1>8, <1>9, <1>10 DEF IInv

LEMMA StepCorrect == IInv /\ [Next]_vars => IInv'
<1> SUFFICES ASSUME IInv, [Next]_vars PROVE IInv'
  OBVIOUS
<1>1. ASSUME NEW c \in Conns, Accept(c) PROVE IInv'
  BY <1>1, AcceptCorrect
<1>2. ASSUME NEW c \in Conns,
             (\E u \in Units : Send(c, u)) \/ (\E how \in Hangups : Hangup(c, how))
      PROVE  IInv'
  BY <1>2, ClientCorrect
<1>3. ASSUME NEW c \in Conns, ReadCompletes(c) PROVE IInv'
  BY <1>3, ReadCompletesCorrect
<1>4. CASE AcceptFails
  BY <1>4, AcceptFailsCorrect
<1>5. CASE Tick
  BY <1>5, TickCorrect
<1>6. ASSUME NEW w \in Workers, RunHandler(w) PROVE IInv'
  BY <1>6, RunStartCorrect, RunReadCorrect, RunTickCorrect DEF RunHandler
<1>7. ASSUME NEW w \in Workers, WorkerEnds(w) PROVE IInv'
  BY <1>7, WorkerEndsCorrect
<1>8. CASE Stop
  BY <1>8, StopCorrect
<1>9. CASE RunReturns
  BY <1>9, RunReturnsCorrect
<1>10. CASE UNCHANGED vars
  <2>1. UNCHANGED <<worker, queue, timer, conn, task_id, reading>>
    BY <1>10 DEF vars
  <2>2. Types' /\ Ended'
    BY <1>10 DEF IInv, Types, Timers, TypeOK, Ended, vars
  <2> QED
    BY <2>1, <2>2, FrameCorrect DEF IInv
<1> QED
  BY <1>1, <1>2, <1>3, <1>4, <1>5, <1>6, <1>7, <1>8, <1>9, <1>10 DEF Next

LEMMA InvariantCorrect == Safety => []IInv
  BY InitCorrect, StepCorrect, PTL DEF Safety
-----------------------------------------------------------------------------
(* The properties of the runs.                                             *)

\* Every variable keeps its type, whatever the clients send: in particular no
\* worker is ever charged with fewer connections than none (http_server.h).
THEOREM TypeCorrect == Safety => []TypeOK
<1>1. IInv => TypeOK
  BY DEF IInv, Types
<1> QED
  BY <1>1, InvariantCorrect, PTL

\* A deadline that is armed is the latest of its connection, on the timer of its
\* worker: although process_tasks gives identifiers out again (task_timer.h),
\* schedule never meets an entry that has the one it is about to use, and a
\* connection is never closed by a deadline that was replaced.
THEOREM OneDeadlineCorrect == Safety => []OneDeadline
<1>1. IInv => OneDeadline
  BY DEF IInv
<1> QED
  BY <1>1, InvariantCorrect, PTL

\* A connection that waits for its client has answered all the complete requests
\* that it was sent, however they were pipelined and whatever their answers.
THEOREM AnsweredCorrect == Safety => []NoRequestUnanswered
<1>1. IInv => NoRequestUnanswered
  BY DEF IInv, Watched, NoRequestUnanswered
<1> QED
  BY <1>1, InvariantCorrect, PTL

\* Once its socket is closed and its handlers have run, nothing holds a
\* connection any more (http_connection.h: shared_from_this in the callbacks).
THEOREM FreedCorrect == Safety => []ClosedIsFreed
<1>1. ASSUME IInv PROVE ClosedIsFreed
  <2>1. SUFFICES ASSUME NEW c \in Conns, ~conn[c].open
                 PROVE  /\ ~reading[c]
                        /\ \A w \in Workers : \A i \in DOMAIN timer[w].tasks :
                             timer[w].tasks[i].conn # c
    BY DEF ClosedIsFreed
  <2>2. ~reading[c]
    BY <1>1, <2>1 DEF IInv, Watched
  <2>3. \A w \in Workers : ~Armed(timer[w], c)
    BY <1>1, <2>1 DEF IInv, DeadlinesOpen
  <2> QED
    BY <2>2, <2>3 DEF Armed
<1> QED
  BY <1>1, InvariantCorrect, PTL

\* An open connection always has a read pending or a handler that will run.
THEOREM ReaderCorrect == Safety => []SomeoneReads
<1>1. ASSUME IInv PROVE SomeoneReads
  BY <1>1 DEF IInv, Watched, SomeoneReads, Queued, Holds
<1> QED
  BY <1>1, InvariantCorrect, PTL
-----------------------------------------------------------------------------
(* Who loses a deadline.                                                   *)

\* No connection of the worker has ended.
Whole(w) == \A d \in Conns : worker[d] = w => conn[d].open

\* A connection is not started, or has its deadline.
KeptAt(c) ==
  /\ worker[c] = -1 => task_id[c] = 0 /\ ~reading[c]
  /\ ~shutting_down /\ worker[c] # -1 /\ Whole(worker[c]) =>
       (task_id[c] = 0 /\ ~reading[c]) \/ Armed(timer[worker[c]], c)

KeptInv == \A c \in Conns : KeptAt(c)

\* No socket opens again, no connection changes its worker, and stop() is final.
OnlyEnds ==
  /\ \A d \in Conns : worker[d] # -1 =>
       worker'[d] = worker[d] /\ (conn'[d].open => conn[d].open)
  /\ shutting_down => shutting_down'

LEMMA KeptFrame ==
  ASSUME NEW c \in Conns, KeptAt(c), OnlyEnds,
         worker'[c] = worker[c], task_id'[c] = task_id[c], reading'[c] => reading[c],
         worker[c] # -1 /\ ~shutting_down' /\ Whole(worker[c])' /\ Armed(timer[worker[c]], c)
           => Armed(timer'[worker[c]], c)
  PROVE  KeptAt(c)'
<1>1. worker'[c] = -1 => task_id'[c] = 0 /\ ~reading'[c]
  BY DEF KeptAt
<1>2. ASSUME ~shutting_down', worker'[c] # -1, Whole(worker[c])'
      PROVE  (task_id'[c] = 0 /\ ~reading'[c]) \/ Armed(timer'[worker[c]], c)
  <2>1. ~shutting_down /\ worker[c] # -1
    BY <1>2 DEF OnlyEnds
  <2>2. Whole(worker[c])
    BY <1>2, <2>1 DEF OnlyEnds, Whole
  <2>3. (task_id[c] = 0 /\ ~reading[c]) \/ Armed(timer[worker[c]], c)
    BY <2>1, <2>2 DEF KeptAt
  <2> QED
    BY <1>2, <2>1, <2>3
<1> QED
  BY <1>1, <1>2 DEF KeptAt, Whole

\* Where every connection has its deadline, start_deadline cancels its own.
LEMMA StartDeadlineKeeps ==
  ASSUME Timers, OneDeadline, KeptInv, ~shutting_down, task_id \in [Conns -> Nat],
         NEW w \in Workers, NEW c \in Conns, worker[c] = w, Whole(w),
         StartDeadline(w, c)
  PROVE  /\ Armed(timer'[w], c)
         /\ \A d \in Conns : Armed(timer[w], d) => Armed(timer'[w], d)
<1> DEFINE t == Cancel(timer[w], task_id[c])
           s == Schedule(t, c, Timeout)
<1>1. /\ Sound(t) /\ DOMAIN t.tasks = DOMAIN timer[w].tasks \ {task_id[c]}
      /\ \A i \in DOMAIN timer[w].tasks \ {task_id[c]} : t.tasks[i] = timer[w].tasks[i]
  BY CancelCorrect DEF Timers
<1> HIDE DEF t
<1>2. /\ DOMAIN s.tasks = DOMAIN t.tasks \cup {s.highest_id}
      /\ s.tasks[s.highest_id].conn = c
      /\ \A i \in DOMAIN t.tasks : s.tasks[i] = t.tasks[i]
  BY <1>1, ScheduleCorrect
<1>3. timer' = [timer EXCEPT ![w] = s]
  BY DEF StartDeadline, t
<1> HIDE DEF s
<1>4. timer'[w] = s
  BY <1>3 DEF Timers
<1>5. Armed(timer'[w], c)
  BY <1>2, <1>4 DEF Armed
<1>6. ASSUME NEW d \in Conns, Armed(timer[w], d), d # c PROVE Armed(timer'[w], d)
  <2>1. PICK i \in DOMAIN timer[w].tasks : timer[w].tasks[i].conn = d
    BY <1>6 DEF Armed
  <2>2. task_id[d] = i /\ i \in 1..timer[w].highest_id
    BY <2>1 DEF OneDeadline
  <2>3. i # task_id[c]
    <3>1. SUFFICES ASSUME i = task_id[c] PROVE FALSE
      OBVIOUS
    <3>2. task_id[c] # 0 /\ worker[c] # -1
      <4>1. timer[w].highest_id \in Nat
        BY DEF Timers, Sound
      <4>2. i # 0
        BY <2>2, <4>1
      <4>3. w # -1
        BY ConcurrencyAssumption DEF Workers
      <4> QED
        BY <3>1, <4>2, <4>3
    <3>3. Armed(timer[w], c)
      BY <3>2 DEF KeptInv, KeptAt
    <3>4. PICK j \in DOMAIN timer[w].tasks : timer[w].tasks[j].conn = c
      BY <3>3 DEF Armed
    <3>5. task_id[c] = j
      BY <3>4 DEF OneDeadline
    <3> QED
      BY <1>6, <2>1, <3>1, <3>4, <3>5
  <2> QED
    BY <1>1, <1>2, <1>4, <2>1, <2>3 DEF Armed
<1> QED
  BY <1>5, <1>6

LEMMA StartKeeps ==
  ASSUME IInv, KeptInv, NEW w \in Workers, NEW c \in Conns, worker[c] = w,
         StartDeadline(w, c), worker' = worker, ~shutting_down,
         shutting_down' = shutting_down,
         \A d \in Conns : conn'[d].open => conn[d].open
  PROVE  KeptInv'
<1>1. Timers /\ OneDeadline /\ task_id \in [Conns -> Nat] /\ reading \in [Conns -> BOOLEAN]
  BY DEF IInv, Types, TypeOK
<1>2. OnlyEnds
  BY DEF OnlyEnds
<1>3. /\ \A d \in Conns \ {c} : task_id'[d] = task_id[d] /\ reading'[d] = reading[d]
      /\ \A v \in Workers \ {w} : timer'[v] = timer[v]
  BY <1>1 DEF StartDeadline, Timers
<1>4. Whole(w)' => Whole(w)
  BY DEF Whole
<1>5. Whole(w)' => /\ Armed(timer'[w], c)
                   /\ \A d \in Conns : Armed(timer[w], d) => Armed(timer'[w], d)
  BY <1>1, <1>4, StartDeadlineKeeps
<1>6. w # -1 /\ \A d \in Conns : worker[d] # -1 => worker[d] \in Workers
  BY ConcurrencyAssumption DEF Workers, IInv, Types, TypeOK
<1>7. KeptAt(c)'
  BY <1>5, <1>6 DEF KeptAt, Whole
<1>8. ASSUME NEW d \in Conns \ {c} PROVE KeptAt(d)'
  <2>1. ASSUME worker[d] # -1, Whole(worker[d])', Armed(timer[worker[d]], d)
        PROVE  Armed(timer'[worker[d]], d)
    <3>1. CASE worker[d] = w
      BY <1>5, <2>1, <3>1
    <3>2. CASE worker[d] # w
      BY <1>3, <1>6, <2>1, <3>2
    <3> QED
      BY <3>1, <3>2
  <2> QED
    BY <1>2, <1>3, <2>1, KeptFrame DEF KeptInv
<1> QED
  BY <1>7, <1>8 DEF KeptInv

LEMMA ReadKeeps ==
  ASSUME IInv, KeptInv, NEW w \in Workers, RunRead(w)
  PROVE  KeptInv'
<1> DEFINE h == Head(queue[w])
           c == h.c
           fed == IF h.ok THEN Feed(conn[c], h.chunk, peer[c] # "reset")
                          ELSE [conn[c] EXCEPT !.stop = "error"]
           readsOn == fed.stop = "no" /\ fed.open /\ ~fed.close_connection
<1>1. TypeOK /\ Timers /\ OneDeadline /\ Posted /\ Watched
  BY DEF IInv, Types
<1>2. /\ h.kind = "read" /\ queue[w] # <<>> /\ ~shutting_down
      /\ worker' = worker /\ shutting_down' = shutting_down
      /\ conn' = [conn EXCEPT ![c] = [fed EXCEPT !.open = readsOn]]
      /\ IF readsOn THEN StartDeadline(w, c) ELSE CancelDeadline(w, c)
  BY DEF RunRead, Runs, acceptor, lifetime
<1> HIDE DEF fed, readsOn
<1>3. h \in Handlers /\ Holds(queue[w], c)
  <2>1. queue[w] \in Seq(Handlers) /\ queue[w] # <<>>
    BY <1>1, <1>2 DEF TypeOK
  <2>2. 1 \in DOMAIN queue[w] /\ h = queue[w][1] /\ h \in Handlers
    BY <2>1
  <2> QED
    BY <1>2, <2>2 DEF Holds
<1>4. c \in Conns /\ h.chunk \in Seq(Units) /\ h.ok \in BOOLEAN
  BY <1>2, <1>3 DEF Handlers
<1> HIDE DEF h
<1>5. worker[c] = w
  BY <1>1, <1>3, <1>4 DEF Posted
<1> HIDE DEF c
<1>6. fed \in Connections /\ (fed.open => conn[c].open)
  <2>1. conn[c] \in Connections /\ (conn[c].open => AllAnswered(conn[c]))
    BY <1>1, <1>4 DEF TypeOK, Watched
  <2>2. CASE h.ok
    <3>1. h.chunk \in Seq(Requests) /\ (peer[c] # "reset") \in BOOLEAN
      BY <1>4, ClientsAssumption, SeqMonotonic
    <3>2. fed = Feed(conn[c], h.chunk, peer[c] # "reset")
      BY <2>2 DEF fed
    <3> QED
      BY <2>1, <3>1, <3>2, FeedCorrect
  <2>3. CASE ~h.ok
    <3>1. fed = [conn[c] EXCEPT !.stop = "error"]
      BY <2>3 DEF fed
    <3> QED
      BY <2>1, <3>1, SetStop
  <2> QED
    BY <2>2, <2>3
<1>7. (readsOn => fed.open) /\ readsOn \in BOOLEAN
  BY DEF readsOn
<1>8. /\ \A d \in Conns \ {c} : conn'[d] = conn[d]
      /\ conn'[c].open = readsOn
  <2>1. conn'[c] = [fed EXCEPT !.open = readsOn]
    BY <1>1, <1>2, <1>4 DEF TypeOK
  <2> QED
    BY <1>1, <1>2, <1>6, <1>7, <2>1, SetOpen DEF TypeOK
<1>9. \A d \in Conns : conn'[d].open => conn[d].open
  BY <1>6, <1>7, <1>8
<1>10. CASE readsOn
  BY <1>2, <1>4, <1>5, <1>9, <1>10, StartKeeps
<1>11. CASE ~readsOn
  <2>1. OnlyEnds
    BY <1>2, <1>9 DEF OnlyEnds
  <2>2. /\ task_id' = task_id /\ reading' = reading
        /\ \A v \in Workers \ {w} : timer'[v] = timer[v]
    BY <1>1, <1>2, <1>11 DEF CancelDeadline, Timers
  <2>3. ~Whole(w)'
    BY <1>2, <1>4, <1>5, <1>8, <1>11 DEF Whole
  <2>4. \A d \in Conns : worker[d] # -1 => worker[d] \in Workers
    BY <1>1 DEF TypeOK
  <2>5. ASSUME NEW d \in Conns PROVE KeptAt(d)'
    <3>1. ASSUME worker[d] # -1, Whole(worker[d])', Armed(timer[worker[d]], d)
          PROVE  Armed(timer'[worker[d]], d)
      <4>1. worker[d] # w
        BY <1>2, <2>3, <3>1 DEF Whole
      <4> QED
        BY <2>2, <2>4, <3>1, <4>1
    <3> QED
      BY <1>2, <2>1, <2>2, <3>1, KeptFrame DEF KeptInv
  <2> QED
    BY <2>5 DEF KeptInv
<1> QED
  BY <1>10, <1>11

LEMMA TickKeeps ==
  ASSUME IInv, KeptInv, NEW w \in Workers, RunTick(w)
  PROVE  KeptInv'
<1> DEFINE t == timer[w]
           closed(due) == {c \in {t.tasks[i].conn : i \in due} : conn[c].open}
<1>1. TypeOK /\ Timers /\ OneDeadline /\ DeadlinesOpen
  BY DEF IInv, Types
<1>2. PICK due \in SUBSET MayRun(t) :
        /\ conn' = [c \in Conns |-> [conn[c] EXCEPT !.open = @ /\ c \notin closed(due)]]
        /\ \A c \in Conns : reading'[c] => reading[c]
        /\ timer' = [timer EXCEPT ![w] = ProcessTasks(t, due)]
  BY DEF RunTick
<1>3. /\ worker' = worker /\ task_id' = task_id
      /\ shutting_down' = shutting_down
  BY DEF RunTick, acceptor, lifetime
<1>4. /\ due \in SUBSET DOMAIN t.tasks /\ Sound(t)
      /\ \A i \in DOMAIN t.tasks : t.tasks[i].conn \in Conns
  BY <1>1 DEF MayRun, Timers, Sound, Entries
<1> DEFINE C == closed(due)
<1> HIDE DEF closed
<1>5. \A c \in Conns : conn'[c].open = (conn[c].open /\ c \notin C)
  <2> SUFFICES ASSUME NEW c \in Conns PROVE conn'[c].open = (conn[c].open /\ c \notin C)
    OBVIOUS
  <2>1. conn[c] \in Connections /\ conn[c].open \in BOOLEAN
    BY <1>1 DEF TypeOK, Connections
  <2>2. conn'[c] = [conn[c] EXCEPT !.open = (conn[c].open /\ c \notin C)]
    BY <1>2
  <2> QED
    BY <2>1, <2>2, SetOpen
<1>6. OnlyEnds
  BY <1>3, <1>5 DEF OnlyEnds
<1>7. timer'[w] = ProcessTasks(t, due) /\ \A v \in Workers \ {w} : timer'[v] = timer[v]
  BY <1>1, <1>2 DEF Timers
\* a deadline that runs ends a connection of this worker
<1>8. ASSUME Whole(w)' PROVE due = {}
  <2>1. SUFFICES ASSUME NEW i \in due PROVE FALSE
    OBVIOUS
  <2> DEFINE c == t.tasks[i].conn
  <2>2. c \in Conns /\ worker[c] = w /\ Armed(t, c)
    BY <1>1, <1>4, <2>1 DEF OneDeadline, Armed
  <2>3. conn[c].open
    BY <1>1, <2>2 DEF DeadlinesOpen
  <2>4. c \in C
    BY <2>1, <2>3 DEF closed
  <2>5. ~conn'[c].open
    BY <1>5, <2>2, <2>4
  <2> QED
    BY <1>3, <1>8, <2>2, <2>5 DEF Whole
<1>9. \A d \in Conns : worker[d] # -1 => worker[d] \in Workers
  BY <1>1 DEF TypeOK
<1>10. ASSUME NEW d \in Conns PROVE KeptAt(d)'
  <2>1. ASSUME worker[d] # -1, Whole(worker[d])', Armed(timer[worker[d]], d)
        PROVE  Armed(timer'[worker[d]], d)
    <3>1. CASE worker[d] = w
      <4>1. due = {}
        BY <1>3, <1>8, <2>1, <3>1 DEF Whole
      <4>2. /\ DOMAIN timer'[w].tasks = DOMAIN t.tasks
            /\ \A i \in DOMAIN t.tasks : timer'[w].tasks[i] = t.tasks[i]
        <5>1. DOMAIN ProcessTasks(t, due).tasks = DOMAIN t.tasks \ due
              /\ \A i \in DOMAIN t.tasks \ due : ProcessTasks(t, due).tasks[i] = t.tasks[i]
          BY <1>4, ProcessCorrect
        <5> HIDE DEF t
        <5> QED
          BY <1>7, <4>1, <5>1, Zenon
      <4> QED
        BY <2>1, <3>1, <4>2 DEF Armed
    <3>2. CASE worker[d] # w
      BY <1>7, <1>9, <2>1, <3>2
    <3> QED
      BY <3>1, <3>2
  <2> QED
    BY <1>2, <1>3, <1>6, <2>1, KeptFrame DEF KeptInv
<1> QED
  BY <1>10 DEF KeptInv

LEMMA KeptStep == IInv /\ KeptInv /\ [Next]_vars => KeptInv'
<1> SUFFICES ASSUME IInv, KeptInv, [Next]_vars PROVE KeptInv'
  OBVIOUS
<1>1. TypeOK /\ Timers /\ Posted /\ Ended
  BY DEF IInv, Types
<1>2. \A d \in Conns : worker[d] # -1 => worker[d] \in Workers
  BY <1>1 DEF TypeOK
<1>3. ASSUME UNCHANGED <<worker, timer, conn, task_id, reading>>,
             shutting_down => shutting_down'
      PROVE  KeptInv'
  BY <1>3, KeptFrame DEF KeptInv, OnlyEnds
<1>4. ASSUME NEW c \in Conns, Accept(c) PROVE KeptInv'
  <2>1. /\ worker' = [worker EXCEPT ![c] = pending] /\ worker[c] = -1
        /\ conn' = [conn EXCEPT ![c].open = TRUE]
        /\ UNCHANGED <<timer, task_id, reading, shutting_down>>
    BY <1>4 DEF Accept, lifetime
  <2>2. /\ \A d \in Conns \ {c} : worker'[d] = worker[d] /\ conn'[d] = conn[d]
        /\ task_id[c] = 0 /\ ~reading[c]
    BY <1>1, <2>1 DEF TypeOK, KeptInv, KeptAt
  <2>3. OnlyEnds
    BY <2>1, <2>2 DEF OnlyEnds
  <2>4. ASSUME NEW d \in Conns PROVE KeptAt(d)'
    <3>1. CASE d = c
      BY <2>1, <2>2, <3>1 DEF KeptAt
    <3>2. CASE d # c
      BY <2>1, <2>2, <2>3, <3>2, KeptFrame DEF KeptInv
    <3> QED
      BY <3>1, <3>2
  <2> QED
    BY <2>4 DEF KeptInv
<1>5. ASSUME NEW c \in Conns,
             (\E u \in Units : Send(c, u)) \/ (\E how \in Hangups : Hangup(c, how))
      PROVE  KeptInv'
  BY <1>3, <1>5 DEF Send, Hangup, acceptor, lifetime
<1>6. ASSUME NEW c \in Conns, ReadCompletes(c) PROVE KeptInv'
  <2>1. /\ reading' = [reading EXCEPT ![c] = FALSE]
        /\ UNCHANGED <<worker, timer, conn, task_id, shutting_down>>
    BY <1>6 DEF ReadCompletes, acceptor, lifetime
  <2>2. \A d \in Conns : reading'[d] => reading[d]
    BY <1>1, <2>1 DEF TypeOK
  <2> QED
    BY <2>1, <2>2, KeptFrame DEF KeptInv, OnlyEnds
<1>7. CASE AcceptFails \/ Stop
  BY <1>3, <1>7 DEF AcceptFails, Stop, acceptor, lifetime
<1>8. CASE Tick
  <2>1. /\ timer' = [v \in Workers |-> Elapse(timer[v])]
        /\ UNCHANGED <<worker, conn, task_id, reading, shutting_down>>
    BY <1>8 DEF Tick, acceptor, lifetime
  <2>2. ASSUME NEW v \in Workers, NEW d, Armed(timer[v], d) PROVE Armed(timer'[v], d)
    <3>1. timer'[v] = Elapse(timer[v]) /\ Sound(timer[v])
      BY <1>1, <2>1 DEF Timers
    <3> QED
      BY <2>2, <3>1, ElapseCorrect DEF Armed
  <2> QED
    BY <1>2, <2>1, <2>2, KeptFrame DEF KeptInv, OnlyEnds
<1>9. ASSUME NEW w \in Workers, RunStart(w) PROVE KeptInv'
  <2> DEFINE c == Head(queue[w]).c
  <2>1. /\ StartDeadline(w, c) /\ ~shutting_down /\ queue[w] # <<>>
        /\ Head(queue[w]).kind = "start"
        /\ worker' = worker /\ conn' = conn /\ shutting_down' = shutting_down
    BY <1>9 DEF RunStart, Runs, acceptor, lifetime
  <2>2. Head(queue[w]) \in Handlers /\ Starts(queue[w], c) /\ Holds(queue[w], c)
    <3>1. queue[w] \in Seq(Handlers)
      BY <1>1 DEF TypeOK
    <3>2. 1 \in DOMAIN queue[w] /\ Head(queue[w]) = queue[w][1] /\ queue[w][1] \in Handlers
      BY <2>1, <3>1
    <3> QED
      BY <2>1, <3>2 DEF Starts, Holds
  <2>3. c \in Conns
    BY <2>1, <2>2 DEF Handlers
  <2>4. worker[c] = w
    BY <1>1, <2>2, <2>3 DEF Posted
  <2> HIDE DEF c
  <2> QED
    BY <2>1, <2>3, <2>4, StartKeeps
<1>10. ASSUME NEW w \in Workers, RunRead(w) \/ RunTick(w) PROVE KeptInv'
  BY <1>10, ReadKeeps, TickKeeps
\* from stop() on the timers are let go
<1>11. ASSUME NEW w \in Workers, WorkerEnds(w) PROVE KeptInv'
  <2>1. shutting_down /\ UNCHANGED <<worker, conn, task_id, reading, shutting_down>>
    BY <1>11 DEF WorkerEnds, acceptor
  <2> QED
    BY <2>1 DEF KeptInv, KeptAt
<1>12. CASE RunReturns
  <2>1. /\ UNCHANGED <<worker, task_id, shutting_down>>
        /\ reading' = [d \in Conns |-> FALSE] /\ done = Workers
    BY <1>12 DEF RunReturns, acceptor
  <2>2. shutting_down
    BY <1>1, <2>1, ConcurrencyAssumption DEF Ended, Workers
  <2> QED
    BY <2>1, <2>2 DEF KeptInv, KeptAt
<1>13. CASE UNCHANGED vars
  BY <1>3, <1>13 DEF vars
<1> QED
  BY <1>4, <1>5, <1>6, <1>7, <1>8, <1>9, <1>10, <1>11, <1>12, <1>13 DEF Next, RunHandler

\* A client that waits without a deadline has lost it to the end of another
\* connection of its worker (task_timer.h: the identifiers that start again), for
\* any number of connections: no schedule, cancel, tick or restart of the
\* identifiers among connections that stay open loses one.
THEOREM DeadlineKeptCorrect == Safety => []DeadlineKept
<1>1. Init => KeptInv
  BY DEF Init, KeptInv, KeptAt
<1>2. ASSUME IInv, KeptInv PROVE DeadlineKept
  <2>1. SUFFICES ASSUME NEW c \in Conns, Waiting(c), ~Timed(c)
                 PROVE  \E d \in Conns \ {c} : worker[d] = worker[c] /\ ~conn[d].open
    BY DEF DeadlineKept
  <2>2. reading[c] /\ conn[c].open /\ ~shutting_down /\ ~Armed(timer[worker[c]], c)
    BY <2>1 DEF Waiting, Timed, Armed
  <2>3. worker[c] # -1 /\ ~Whole(worker[c])
    BY <1>2, <2>2 DEF KeptInv, KeptAt
  <2> QED
    BY <2>2, <2>3 DEF Whole
<1> QED
  BY <1>1, <1>2, KeptStep, InvariantCorrect, PTL DEF Safety
=============================================================================
