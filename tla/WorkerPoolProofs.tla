-------------------------- MODULE WorkerPoolProofs --------------------------
(***************************************************************************)
(* What follows from the invariant of WorkerPoolInvariant: the safety      *)
(* properties of WorkerPool, the exactness of the reference counts, and    *)
(* that the pool implements Dispatch, for any hosts, listeners, workers,   *)
(* requests, limits and faults.                                            *)
(***************************************************************************)
EXTENDS WorkerPoolInvariant, FiniteSetTheorems

USE DEF mainVars, localVars, hostVars, workerVars, requestVars, At, Goto, WorkerAt, WorkerGoto

(* Every variable keeps its type: in particular worker_queue_request is    *)
(* only given an existing worker and a request, and counters of references *)
(* stay numbers.                                                           *)
THEOREM TypeCorrect == Spec => []TypeOK
  <1>1. IInv => TypeOK
    BY DEF IInv
  <1> QED BY <1>1, Invariance, PTL

(* A worker thread that waits in worker_request_ has nothing pending: no   *)
(* signal of worker_queue_request is missed.                               *)
THEOREM WakeupsArrive == Spec => []NoLostWakeup
  <1>1. IInv => NoLostWakeup
    BY DEF IInv, WorkerInv, WorkerOK, NoLostWakeup
  <1> QED BY <1>1, Invariance, PTL

(* worker_queue_request never writes past the requestalloc entries of the  *)
(* array of pending requests.                                              *)
THEOREM QueuesHaveRoom == Spec => []QueueBounded
  <1>1. IInv => QueueBounded
    BY DEF IInv, WorkerInv, WorkerOK, QueueBounded, requestcount
  <1> QED BY <1>1, Invariance, PTL

(* What worker lists, the global list and threads in the middle of         *)
(* worker_locate or worker_create point to is allocated and not freed, and *)
(* host->active is the number of workers in the host's list.               *)
THEOREM NothingDangles == Spec => []NoDangling
  <1>1. ASSUME IInv PROVE NoDangling
    <2> USE <1>1 DEF IInv
    <2>1. \A w \in workers : wpc[w] \notin {"none", "freed"}
      BY DEF ListInv
    <2>2. ASSUME NEW h \in Hosts, NEW w \in RangeOf(list[h])
          PROVE  wpc[w] \notin {"none", "freed"}
      <3>1. PICK i \in DOMAIN list[h] : list[h][i] = w
        BY DEF RangeOf
      <3>2. i \in 1 .. Len(list[h]) /\ w \in Workers
        BY <3>1 DEF TypeOK
      <3> QED BY <3>1, <3>2 DEF ListInv, InList
    <2>3. ASSUME NEW t \in Threads, p[t] # NULL
          PROVE  wpc[p[t]] \notin {"none", "freed"}
      <3>1. p[t] \in Workers /\ HandOK(t)
        BY <2>3 DEF TypeOK, HandInv
      <3>2. CASE pc[t] \in Making
        BY <3>1, <3>2 DEF HandOK
      <3>3. CASE pc[t] \in {"queue", "scan", "take"}
        <4>1. t \in Listeners
          BY <3>3 DEF CtrlInv, CreatePCs, Threads
        <4>2. InList(p[t], HostOf[t]) /\ HostOf[t] \in Hosts
          BY <2>3, <3>1, <3>3, <4>1, HostsAssumption DEF HandOK
        <4> QED BY <3>1, <4>2 DEF ListInv
      <3>4. CASE pc[t] \notin Making \cup {"queue", "scan", "take"}
        BY <2>3, <3>1, <3>4 DEF HandOK
      <3> QED BY <3>2, <3>3, <3>4
    <2>4. \A h \in Hosts : active[h] = Len(list[h])
      BY DEF ListInv
    <2>5. ASSUME NEW w \in UNION {RangeOf(list[h]) : h \in Hosts}
          PROVE  wpc[w] \notin {"none", "freed"}
      <3>1. PICK h \in Hosts : w \in RangeOf(list[h])
        OBVIOUS
      <3> QED BY <2>2, <3>1
    <2>6. ASSUME NEW w \in {p[t] : t \in Threads} \ {NULL}
          PROVE  wpc[w] \notin {"none", "freed"}
      BY <2>3
    <2>7. ASSUME NEW w \in workers \cup (UNION {RangeOf(list[h]) : h \in Hosts}) \cup ({p[t] : t \in Threads} \ {NULL})
          PROVE  wpc[w] \notin {"none", "freed"}
      <3>1. CASE w \in workers
        BY <2>1, <3>1
      <3>2. CASE w \in UNION {RangeOf(list[h]) : h \in Hosts}
        BY <2>5, <3>2, Zenon
      <3>3. CASE w \in {p[t] : t \in Threads} \ {NULL}
        BY <2>6, <3>3, Zenon
      <3> QED BY <3>1, <3>2, <3>3, Zenon
    <2> HIDE <1>1 DEF IInv
    <2> QED BY <2>4, <2>7, Zenon DEF NoDangling
  <1> QED BY <1>1, Invariance, PTL

(* No worker is in the lists of two hosts, and the worker that             *)
(* worker_locate has chosen is in the list of the listener's host.         *)
THEOREM HostsKeepApart == Spec => []HostsApart
  <1>1. ASSUME IInv PROVE HostsApart
    <2> USE <1>1 DEF IInv
    <2>1. \A h \in Hosts : \A w \in RangeOf(list[h]) : w \in Workers /\ InList(w, h)
      BY DEF RangeOf, InList, TypeOK
    <2>2. \A g, h \in Hosts : g # h => RangeOf(list[g]) \cap RangeOf(list[h]) = {}
      BY <2>1 DEF ListInv
    <2>3. \A h \in Hosts, w \in Workers : InList(w, h) => w \in RangeOf(list[h])
      BY DEF RangeOf, InList, TypeOK
    <2>4. ASSUME NEW l \in Listeners, pc[l] \in {"take", "queue"}, p[l] # NULL
          PROVE  p[l] \in RangeOf(list[HostOf[l]])
      <3>1. p[l] \in Workers /\ InList(p[l], HostOf[l]) /\ HostOf[l] \in Hosts
        BY <2>4, HostsAssumption DEF HandInv, HandOK, Threads, TypeOK
      <3> QED BY <2>3, <3>1
    <2> QED BY <2>2, <2>4 DEF HostsApart
  <1> QED BY <1>1, Invariance, PTL
-----------------------------------------------------------------------------
(* References: a request has one from the listener thread that holds it    *)
(* and one from the queue it is in.  The count is exact until a completion *)
(* has released the wrong request.                                         *)
NoWild == \A w \in Workers : current[w] # Wild

Held(q) == \E l \in Listeners : lreq[l] = q

RefsInv ==
    NoWild => \A q \in Requests :
        refs[q] = (IF Queued(q) THEN 1 ELSE 0) + (IF Held(q) THEN 1 ELSE 0)

(* The variables that RefsInv is about.                                    *)
LEMMA RefsFrame ==
    ASSUME RefsInv, UNCHANGED <<lreq, requests, refs, current>>
    PROVE  RefsInv'
  BY DEF RefsInv, NoWild, Held, Queued

(* A step that changes no count and no pointer keeps the counts exact.     *)
LEMMA RefsMoves ==
    ASSUME RefsInv, UNCHANGED <<lreq, requests, refs>>, NoWild' => NoWild
    PROVE  RefsInv'
  BY DEF RefsInv, Held, Queued

(* A worker that was handed something else never gets beyond it.           *)
LEMMA ServedNotWild ==
    ASSUME IInv, NEW w \in Workers, wpc[w] # "process"
    PROVE  current[w] # Wild
  <1>1. WorkerOK(w) /\ wpc[w] \in WorkerPCs
    BY DEF IInv, WorkerInv, TypeOK
  <1> QED BY <1>1, NamesAssumption DEF WorkerOK, WorkerPCs, ServesHead

(* The head of a queue is the one request that leaves the queues.          *)
LEMMA Dequeued ==
    ASSUME NEW w \in Workers, NEW q \in Requests, requests \in [Workers -> Seq(Requests)], AllDistinct,
           requests[w] # <<>>, Head(requests[w]) = q,
           requests' = [requests EXCEPT ![w] = Tail(@)]
    PROVE  /\ \A r \in Requests : Queued(r)' <=> Queued(r) /\ r # q
           /\ Queued(q)
  <1>1. requests[w] \in Seq(Requests) /\ requests'[w] = Tail(requests[w]) /\ Len(requests[w]) > 0
    BY EmptySeq
  <1>2. /\ Len(requests'[w]) = Len(requests[w]) - 1
        /\ \A i \in 1 .. Len(requests'[w]) : requests'[w][i] = requests[w][i + 1]
    BY <1>1, TailShorter
  <1>3. /\ \A i \in 1 .. Len(requests'[w]) : i + 1 \in 1 .. Len(requests[w]) /\ i + 1 # 1
        /\ \A i \in 1 .. Len(requests[w]) : i # 1 => i - 1 \in 1 .. Len(requests'[w]) /\ (i - 1) + 1 = i
        /\ 1 \in 1 .. Len(requests[w])
    BY <1>1, <1>2
  <1>4. requests[w][1] = q
    BY <1>1
  <1>5. \A v \in Workers \ {w} : requests'[v] = requests[v]
    OBVIOUS
  <1>6. Queued(q)
    BY <1>3, <1>4 DEF Queued
  <1>7. ASSUME NEW r \in Requests, Queued(r)'
        PROVE  Queued(r) /\ r # q
    <2>1. PICK v \in Workers : \E i \in 1 .. Len(requests'[v]) : requests'[v][i] = r
      BY <1>7 DEF Queued
    <2>2. CASE v # w
      BY <1>3, <1>4, <1>5, <2>1, <2>2 DEF Queued, AllDistinct
    <2>3. CASE v = w
      <3>1. PICK i \in 1 .. Len(requests'[w]) : requests'[w][i] = r
        BY <2>1, <2>3
      <3>2. i + 1 \in 1 .. Len(requests[w]) /\ i + 1 # 1 /\ requests[w][i + 1] = r
        BY <1>2, <1>3, <3>1
      <3> QED BY <1>3, <1>4, <3>2 DEF Queued, AllDistinct
    <2> QED BY <2>2, <2>3
  <1>8. ASSUME NEW r \in Requests, Queued(r), r # q
        PROVE  Queued(r)'
    <2>1. PICK v \in Workers : \E i \in 1 .. Len(requests[v]) : requests[v][i] = r
      BY <1>8 DEF Queued
    <2>2. CASE v # w
      BY <1>5, <2>1, <2>2 DEF Queued
    <2>3. CASE v = w
      <3>1. PICK i \in 1 .. Len(requests[w]) : requests[w][i] = r
        BY <2>1, <2>3
      <3>2. i - 1 \in 1 .. Len(requests'[w]) /\ requests'[w][i - 1] = r
        BY <1>2, <1>3, <1>4, <1>8, <3>1
      <3> QED BY <3>2 DEF Queued
    <2> QED BY <2>2, <2>3
  <1> QED BY <1>6, <1>7, <1>8

(* Each step that moves a pointer to a request adjusts its count.          *)
LEMMA RefsPreserved ==
    ASSUME IInv, RefsInv, Next
    PROVE  RefsInv'
  <1> USE HostsAssumption, NamesAssumption DEF IInv, Threads
  <1>1. CASE AddHost
    BY <1>1, RefsFrame DEF AddHost
  <1>2. CASE LaunchWorker
    BY <1>2, RefsFrame DEF LaunchWorker
  <1>3. CASE StartListeners
    BY <1>3, RefsFrame DEF StartListeners
  <1>4. ASSUME NEW t \in Threads, CreateStep(t)
        PROVE  RefsInv'
    <2>1. CASE Populate(t)
      BY <2>1, RefsFrame DEF Populate
    <2>2. CASE Bump(t)
      BY <2>2, RefsFrame DEF Bump
    <2>3. ASSUME NEW w \in Workers, Obtain(t, w)
          PROVE  RefsInv'
      BY <2>3, RefsFrame DEF Obtain
    <2>4. CASE ObtainFails(t)
      BY <2>4, RefsFrame DEF ObtainFails
    <2>5. CASE Attach(t)
      BY <2>5, RefsFrame DEF Attach
    <2>6. CASE AttachFails(t)
      BY <2>6, RefsFrame DEF AttachFails
    <2>7. CASE Spawn(t)
      BY <2>7, RefsFrame DEF Spawn
    <2> QED BY <1>4, <2>1, <2>2, <2>3, <2>4, <2>5, <2>6, <2>7 DEF CreateStep
  <1>5. ASSUME NEW l \in Listeners, RouteStep(l)
        PROVE  RefsInv'
    <2>1. CASE Locate(l)
      BY <2>1, RefsFrame DEF Locate
    <2>2. CASE ScanCompare(l)
      BY <2>2, RefsFrame DEF ScanCompare
    <2>3. CASE ScanTake(l)
      BY <2>3, RefsFrame DEF ScanTake
    <2>4. CASE Decide(l)
      BY <2>4, RefsFrame DEF Decide
    <2>5. CASE CreateStep(l)
      BY <1>4, <2>5
    <2>6. CASE Queue(l)
      <3>1. CASE QueueIsFull(p[l])
        BY <2>6, <3>1, RefsMoves DEF Queue, NoWild
      <3>2. CASE ~QueueIsFull(p[l])
        <4>1. PICK w \in Workers : p[l] = w
          BY <2>6 DEF Queue, HandInv, HandOK
        <4>2. PICK q \in Requests : lreq[l] = q
          <5>1. lreq[l] # NULL
            BY <2>6 DEF Queue, RequestInv, ListenerOK, Idle
          <5> QED BY <5>1 DEF TypeOK
        <4>3. /\ pc[l] = "queue"
              /\ requests' = [requests EXCEPT ![w] = Append(@, q)]
              /\ refs' = [refs EXCEPT ![q] = @ + 1]
              /\ UNCHANGED <<lreq, current>>
          BY <2>6, <3>2, <4>1, <4>2 DEF Queue, Addref
        <4>4. ~Queued(q)
          BY <4>2, <4>3 DEF RequestInv, ListenerOK
        <4>5. \A r \in Requests : Queued(r)' <=> Queued(r) \/ r = q
          BY <4>3, Enqueued DEF TypeOK
        <4>6. \A r \in Requests : Held(r)' <=> Held(r)
          BY <4>3 DEF Held
        <4>7. \A r \in Requests : refs'[r] = IF r = q THEN refs[r] + 1 ELSE refs[r]
          BY <4>3 DEF TypeOK
        <4>8. NoWild' => NoWild
          BY <4>3 DEF NoWild
        <4>9. \A r \in Requests : refs[r] \in Int
          BY DEF TypeOK
        <4> QED BY <4>4, <4>5, <4>6, <4>7, <4>8, <4>9 DEF RefsInv
      <3> QED BY <3>1, <3>2
    <2>7. CASE ReleaseRouted(l)
      <3>1. /\ pc[l] = "release" /\ refs' = [refs EXCEPT ![lreq[l]] = @ - 1]
            /\ lreq' = [lreq EXCEPT ![l] = NULL]
            /\ UNCHANGED <<current, requests>>
        BY <2>7 DEF ReleaseRouted, Release
      <3>2. PICK q \in Requests : lreq[l] = q
        <4>1. lreq[l] # NULL
          BY <3>1 DEF RequestInv, ListenerOK, Idle
        <4> QED BY <4>1 DEF TypeOK
      <3>3. \A r \in Requests : Queued(r)' <=> Queued(r)
        BY <3>1 DEF Queued
      <3>4. \A m \in Listeners : lreq[m] = q => m = l
        BY <3>2 DEF RequestInv
      <3>5. \A r \in Requests : Held(r)' <=> Held(r) /\ r # q
        BY <3>1, <3>2, <3>4 DEF Held, TypeOK
      <3>6. NoWild' => NoWild
        BY <3>1 DEF NoWild
      <3>7. Held(q)
        BY <3>2 DEF Held
      <3>8. \A r \in Requests : refs'[r] = IF r = q THEN refs[r] - 1 ELSE refs[r]
        BY <3>1, <3>2 DEF TypeOK
      <3>9. \A r \in Requests : refs[r] \in Int
        BY DEF TypeOK
      <3> QED BY <3>3, <3>5, <3>6, <3>7, <3>8, <3>9 DEF RefsInv
    <2> QED BY <1>5, <2>1, <2>2, <2>3, <2>4, <2>5, <2>6, <2>7 DEF RouteStep
  <1>6. ASSUME NEW l \in Listeners, EndpointEnds(l)
        PROVE  RefsInv'
    BY <1>6, RefsFrame DEF EndpointEnds
  <1>7. ASSUME NEW l \in Listeners, NEW q \in Requests, Acquire(l, q)
        PROVE  RefsInv'
    <2>1. /\ q \in fresh /\ refs' = [refs EXCEPT ![q] = 1] /\ lreq' = [lreq EXCEPT ![l] = q]
          /\ UNCHANGED <<current, requests>>
          /\ pc[l] = "process"
      BY <1>7 DEF Acquire
    <2>2. lreq[l] = NULL
      BY <2>1 DEF RequestInv, ListenerOK, Idle
    <2>3. \A r \in Requests : Queued(r)' <=> Queued(r)
      BY <2>1 DEF Queued
    <2>4. ~Queued(q)
      BY <2>1 DEF RequestInv
    <2>5. \A r \in Requests : Held(r)' <=> Held(r) \/ r = q
      BY <2>1, <2>2 DEF Held, TypeOK
    <2>6. NoWild' => NoWild
      BY <2>1 DEF NoWild
    <2>7. \A r \in Requests : refs'[r] = IF r = q THEN 1 ELSE refs[r]
      BY <2>1 DEF TypeOK
    <2> QED BY <2>3, <2>4, <2>5, <2>6, <2>7 DEF RefsInv
  <1>8. ASSUME NEW w \in Workers, WorkerStep(w)
        PROVE  RefsInv'
    <2>1. CASE ThreadStart(w)
      BY <2>1, RefsFrame DEF ThreadStart
    <2>2. CASE TakePending(w)
      <3>1. \A v \in Workers \ {w} : current'[v] = current[v]
        BY <2>2 DEF TakePending, TypeOK
      <3>2. current[w] # Wild
        BY <2>2, ServedNotWild DEF TakePending
      <3>3. NoWild' => NoWild
        BY <3>1, <3>2 DEF NoWild
      <3>4. UNCHANGED <<lreq, requests, refs>>
        BY <2>2 DEF TakePending
      <3> QED BY <3>3, <3>4, RefsMoves
    <2>3. CASE Wait(w)
      <3>1. \A v \in Workers \ {w} : current'[v] = current[v]
        BY <2>3 DEF Wait, TypeOK
      <3>2. current[w] # Wild
        BY <2>3, ServedNotWild DEF Wait
      <3>3. NoWild' => NoWild
        BY <3>1, <3>2 DEF NoWild
      <3>4. UNCHANGED <<lreq, requests, refs>>
        BY <2>3 DEF Wait
      <3> QED BY <3>3, <3>4, RefsMoves
    <2>4. CASE CompleteLast(w)
      <3>1. /\ wpc[w] = "request" /\ current[w] # NULL
            /\ requests' = [requests EXCEPT ![w] = Tail(@)]
            /\ refs' = [refs EXCEPT ![current[w]] = @ - 1]
            /\ current' = [current EXCEPT ![w] = NULL]
            /\ lreq' = lreq
        BY <2>4 DEF CompleteLast, WasServing, Release
      <3>2. ServesHead(w)
        BY <3>1 DEF WorkerInv, WorkerOK
      <3>3. PICK q \in Requests : current[w] = q
        BY <3>2 DEF ServesHead
      <3>4. requests[w] \in Seq(Requests) /\ requests[w] # <<>> /\ Head(requests[w]) = q
        BY <3>2, <3>3 DEF ServesHead, TypeOK
      <3>5. /\ \A r \in Requests : Queued(r)' <=> Queued(r) /\ r # q
            /\ Queued(q)
        <4>1. AllDistinct /\ requests \in [Workers -> Seq(Requests)]
          BY DEF RequestInv, TypeOK
        <4>2. requests' = [requests EXCEPT ![w] = Tail(@)]
          BY <3>1
        <4> HIDE DEF IInv
        <4> QED BY <3>4, <4>1, <4>2, Dequeued
      <3>6. \A r \in Requests : Held(r)' <=> Held(r)
        BY <3>1 DEF Held
      <3>7. \A r \in Requests : refs'[r] = IF r = q THEN refs[r] - 1 ELSE refs[r]
        BY <3>1, <3>3 DEF TypeOK
      <3>8. NoWild' => NoWild
        <4>1. current[w] # Wild
          BY <3>3, NamesAssumption
        <4> QED BY <3>1, <4>1 DEF NoWild, TypeOK
      <3>9. \A r \in Requests : refs[r] \in Int
        BY DEF TypeOK
      <3> QED BY <3>5, <3>6, <3>7, <3>8, <3>9 DEF RefsInv
    <2>5. CASE CompleteAndTake(w)
      <3>1. ~NoWild'
        BY <2>5 DEF CompleteAndTake, NoWild, TypeOK
      <3> QED BY <3>1 DEF RefsInv
    <2>6. CASE WakeTake(w)
      <3>1. \A v \in Workers \ {w} : current'[v] = current[v]
        BY <2>6 DEF WakeTake, TypeOK
      <3>2. current[w] # Wild
        BY <2>6, ServedNotWild DEF WakeTake
      <3>3. NoWild' => NoWild
        BY <3>1, <3>2 DEF NoWild
      <3>4. UNCHANGED <<lreq, requests, refs>>
        BY <2>6 DEF WakeTake
      <3> QED BY <3>3, <3>4, RefsMoves
    <2>7. CASE WakeTerminate(w)
      <3>1. \A v \in Workers \ {w} : current'[v] = current[v]
        BY <2>7 DEF WakeTerminate, TypeOK
      <3>2. current[w] # Wild
        BY <2>7, ServedNotWild DEF WakeTerminate
      <3>3. NoWild' => NoWild
        BY <3>1, <3>2 DEF NoWild
      <3>4. UNCHANGED <<lreq, requests, refs>>
        BY <2>7 DEF WakeTerminate
      <3> QED BY <3>3, <3>4, RefsMoves
    <2>8. CASE Process(w)
      BY <2>8, RefsFrame DEF Process
    <2>9. CASE ProcessWild(w)
      BY <2>9, RefsFrame DEF ProcessWild
    <2>10. CASE Exit(w)
      BY <2>10, RefsFrame DEF Exit
    <2> QED BY <1>8, <2>1, <2>2, <2>3, <2>4, <2>5, <2>6, <2>7, <2>8, <2>9, <2>10 DEF WorkerStep
  <1>9. ASSUME NEW w \in Workers, SpuriousWakeup(w)
        PROVE  RefsInv'
    BY <1>9, RefsFrame DEF SpuriousWakeup
  <1>10. CASE Rest
    BY <1>10, RefsFrame DEF Rest, vars
  <1> QED
    BY <1>1, <1>2, <1>3, <1>4, <1>5, <1>6, <1>7, <1>8, <1>9, <1>10 DEF Next, MainStep

(* A request is in at most one queue, at one place, and in the hands of at *)
(* most one listener: the cardinalities of RefsExact are 0 or 1.           *)
LEMMA CountedOnce ==
    ASSUME IInv, NEW q \in Requests
    PROVE  /\ Cardinality(Positions(q)) = IF Queued(q) THEN 1 ELSE 0
           /\ Cardinality(Holders(q)) = IF Held(q) THEN 1 ELSE 0
  <1> USE DEF IInv
  <1>1. \A w \in Workers : Len(requests[w]) \in 0 .. QueueAlloc
    BY QueueAllocAssumption DEF WorkerInv, WorkerOK, TypeOK
  <1>2. ASSUME Queued(q) PROVE Cardinality(Positions(q)) = 1
    <2>1. PICK w \in Workers : \E i \in 1 .. Len(requests[w]) : requests[w][i] = q
      BY <1>2 DEF Queued
    <2>2. PICK i \in 1 .. Len(requests[w]) : requests[w][i] = q
      BY <2>1
    <2>3. <<w, i>> \in Positions(q)
      BY <1>1, <2>2, QueueAllocAssumption DEF Positions, requestcount
    <2>4. ASSUME NEW x \in Positions(q)
          PROVE  x = <<w, i>>
      <3>1. PICK v \in Workers, j \in 1 .. QueueAlloc : x = <<v, j>>
        BY DEF Positions
      <3>2. j <= Len(requests[v]) /\ requests[v][j] = q
        BY <3>1 DEF Positions, requestcount
      <3>3. j \in 1 .. Len(requests[v])
        BY <1>1, <3>2, QueueAllocAssumption
      <3> QED BY <2>2, <3>1, <3>2, <3>3 DEF RequestInv, AllDistinct
    <2>5. Positions(q) = {<<w, i>>}
      BY <2>3, <2>4
    <2> QED BY <2>5, FS_Singleton
  <1>3. ASSUME ~Queued(q) PROVE Cardinality(Positions(q)) = 0
    <2>1. ASSUME NEW x \in Positions(q)
          PROVE  FALSE
      <3>1. PICK v \in Workers, j \in 1 .. QueueAlloc : x = <<v, j>>
        BY DEF Positions
      <3>2. j <= Len(requests[v]) /\ requests[v][j] = q
        BY <3>1 DEF Positions, requestcount
      <3>3. j \in 1 .. Len(requests[v])
        BY <1>1, <3>2, QueueAllocAssumption
      <3> QED BY <1>3, <3>2, <3>3 DEF Queued
    <2>2. Positions(q) = {}
      BY <2>1
    <2> QED BY <2>2, FS_EmptySet
  <1>4. ASSUME Held(q) PROVE Cardinality(Holders(q)) = 1
    <2>1. PICK l \in Listeners : lreq[l] = q
      BY <1>4 DEF Held
    <2>2. Holders(q) = {l}
      BY <2>1, NamesAssumption DEF Holders, RequestInv
    <2> QED BY <2>2, FS_Singleton
  <1>5. ASSUME ~Held(q) PROVE Cardinality(Holders(q)) = 0
    <2>1. Holders(q) = {}
      BY <1>5 DEF Held, Holders
    <2> QED BY <2>1, FS_EmptySet
  <1> QED BY <1>2, <1>3, <1>4, <1>5

(* The reference counts are exact all the time.                            *)
LEMMA Counted == Spec => [](IInv /\ RefsInv)
  <1>1. Init => RefsInv
    BY NamesAssumption DEF Init, RefsInv, Queued, Held
  <1>2. IInv /\ RefsInv /\ [Next]_vars => RefsInv'
    BY RefsPreserved, RefsFrame DEF vars
  <1> QED BY <1>1, <1>2, Invariance, PTL DEF Spec

(* Until a completion releases the wrong request, the reference count of a *)
(* request is the number of pointers to it, so that it is freed when and   *)
(* only when the last of the listener thread and the worker is done.       *)
THEOREM ReferencesExact == Spec => []RefsExact
  <1>1. ASSUME IInv, RefsInv PROVE RefsExact
    <2> SUFFICES ASSUME NoWild, NEW q \in Requests
                 PROVE  refs[q] = Cardinality(Positions(q)) + Cardinality(Holders(q))
      BY DEF RefsExact, NoWild
    <2> QED BY <1>1, CountedOnce DEF RefsInv
  <1> QED BY <1>1, Counted, PTL

(* The request that a worker processes is the first of its queue, and      *)
(* nobody has freed it.                                                    *)
THEOREM ServesTheHead == Spec => []ServingHead
  <1>1. ASSUME IInv, RefsInv PROVE ServingHead
    <2> SUFFICES ASSUME NEW w \in Workers, current[w] \in Requests
                 PROVE  /\ requests[w] # <<>>
                        /\ Head(requests[w]) = current[w]
                        /\ NoWild => refs[current[w]] > 0
      BY DEF ServingHead, NoWild
    <2>1. WorkerOK(w) /\ wpc[w] \in WorkerPCs
      BY <1>1 DEF IInv, WorkerInv, TypeOK
    <2>2. ServesHead(w)
      BY <2>1, NamesAssumption DEF WorkerOK, WorkerPCs
    <2>3. requests[w] \in Seq(Requests) /\ requests[w] # <<>>
      BY <1>1, <2>2 DEF ServesHead, IInv, TypeOK
    <2>4. 1 \in 1 .. Len(requests[w]) /\ requests[w][1] = Head(requests[w])
      BY <2>3
    <2>5. Queued(current[w])
      BY <2>2, <2>4 DEF Queued, ServesHead
    <2> QED BY <1>1, <2>2, <2>5 DEF RefsInv, ServesHead
  <1> QED BY <1>1, Counted, PTL
-----------------------------------------------------------------------------
(* Refinement: every step of the pool is a step of Dispatch or none.       *)
DispatchStep == [Abstract!Next]_(Abstract!vars)

(* A step that moves no request is none of Dispatch.                       *)
LEMMA Stutter ==
    ASSUME UNCHANGED <<lreq, requests, current, fresh>>,
           \A l \in Listeners : pc'[l] = "release" <=> pc[l] = "release"
    PROVE  DispatchStep
  <1>1. routing' = routing
    BY DEF routing
  <1>2. mailbox' = mailbox /\ serving' = serving
    BY DEF mailbox, serving
  <1> QED BY <1>1, <1>2 DEF DispatchStep, Abstract!vars

(* Mailboxes change one worker at a time.                                  *)
LEMMA MailboxSet ==
    ASSUME NEW w \in Workers, NEW s, mailbox'[w] = s, \A v \in Workers \ {w} : mailbox'[v] = mailbox[v]
    PROVE  mailbox' = [mailbox EXCEPT ![w] = s]
  BY DEF mailbox

(* Workers take and complete one at a time.                                *)
LEMMA ServingSet ==
    ASSUME NEW w \in Workers, NEW s, serving'[w] = s, \A v \in Workers \ {w} : serving'[v] = serving[v]
    PROVE  serving' = [serving EXCEPT ![w] = s]
  BY DEF serving

(* Appending behind the head of a queue appends to its rest.               *)
LEMMA TailAppend ==
    ASSUME NEW S, NEW s \in Seq(S), NEW e \in S, s # <<>>
    PROVE  Tail(Append(s, e)) = Append(Tail(s), e)
  <1>1. Len(s) \in Nat \ {0}
    BY EmptySeq
  <1> QED BY <1>1

(* A request in process is the first of its worker's queue.                *)
LEMMA ServedIsFirst ==
    ASSUME IInv, NEW w \in Workers, current[w] \in Requests
    PROVE  ServesHead(w)
  <1>1. WorkerOK(w) /\ wpc[w] \in WorkerPCs
    BY DEF IInv, WorkerInv, TypeOK
  <1> QED BY <1>1, NamesAssumption DEF WorkerOK, WorkerPCs

(* A listener that is done routing leaves its request to a worker or drops *)
(* it.                                                                     *)
LEMMA LeavesRouting ==
    ASSUME IInv, NEW l \in Listeners, pc[l] \notin Idle, pc[l] # "release",
           pc' = [pc EXCEPT ![l] = "release"], lreq' = lreq
    PROVE  /\ lreq[l] \in Requests /\ lreq[l] \in routing
           /\ routing' = routing \ {lreq[l]}
           /\ UNCHANGED <<requests, current>> => UNCHANGED <<mailbox, serving>>
  <1> USE DEF IInv
  <1>1. lreq[l] \in Requests
    <2>1. lreq[l] # NULL
      BY DEF RequestInv, ListenerOK
    <2> QED BY <2>1 DEF TypeOK
  <1>2. lreq[l] \in routing
    BY <1>1, NamesAssumption DEF routing
  <1>3. \A m \in Listeners : lreq[m] = lreq[l] => m = l
    BY <1>1, NamesAssumption DEF RequestInv
  <1>4. pc'[l] = "release" /\ \A m \in Listeners \ {l} : pc'[m] = pc[m]
    BY DEF TypeOK, Threads
  <1>5. routing' = routing \ {lreq[l]}
    BY <1>3, <1>4 DEF routing
  <1>6. UNCHANGED <<requests, current>> => UNCHANGED <<mailbox, serving>>
    BY DEF mailbox, serving
  <1> QED BY <1>1, <1>2, <1>5, <1>6

(* Each step of the pool is a step of Dispatch: Acquire accepts, Queue     *)
(* assigns or drops, a creation that fails on a listener thread drops,     *)
(* TakePending and WakeTake take, the completions complete.                *)
LEMMA StepsRefine ==
    ASSUME IInv, Next
    PROVE  DispatchStep
  <1> USE HostsAssumption, NamesAssumption DEF IInv, Threads
  <1>1. CASE AddHost
    BY <1>1, Stutter DEF AddHost, TypeOK
  <1>2. CASE LaunchWorker
    BY <1>2, Stutter DEF LaunchWorker, TypeOK
  <1>3. CASE StartListeners
    <2>1. /\ UNCHANGED <<lreq, requests, current, fresh>>
          /\ \A l \in Listeners : pc'[l] = pc[l] \/ (HostOf[l] = Head(todo) /\ pc'[l] = "process")
      BY <1>3 DEF StartListeners, TypeOK
    <2>2. \A l \in Listeners : HostOf[l] = Head(todo) => pc[l] = "none"
      <3>1. todo # <<>>
        BY <1>3 DEF StartListeners, CtrlInv
      <3>2. 1 \in 1 .. Len(todo) /\ Head(todo) = todo[1]
        BY <3>1 DEF TypeOK
      <3> QED BY <3>2 DEF StartInv
    <2> QED BY <2>1, <2>2, Stutter
  <1>4. ASSUME NEW t \in Threads, CreateStep(t)
        PROVE  DispatchStep
    <2>1. CASE Populate(t)
      BY <2>1, Stutter DEF Populate, TypeOK
    <2>2. CASE Bump(t)
      BY <2>2, Stutter DEF Bump, TypeOK
    <2>3. ASSUME NEW w \in Workers, Obtain(t, w)
          PROVE  DispatchStep
      BY <2>3, Stutter DEF Obtain, TypeOK
    <2>4. CASE ObtainFails(t)
      <3>1. UNCHANGED <<lreq, requests, current, fresh>> /\ pc[t] = "obtain"
        BY <2>4 DEF ObtainFails
      <3>2. CASE t = Main
        BY <2>4, <3>1, <3>2, Stutter DEF ObtainFails, NotCreated, TypeOK
      <3>3. CASE t # Main
        <4>1. t \in Listeners /\ pc' = [pc EXCEPT ![t] = "release"]
          BY <2>4, <3>3 DEF ObtainFails, NotCreated
        <4> QED BY <3>1, <4>1, LeavesRouting DEF Idle, DispatchStep, Abstract!Next, Abstract!Drop
      <3> QED BY <3>2, <3>3
    <2>5. CASE Attach(t)
      BY <2>5, Stutter DEF Attach, TypeOK
    <2>6. CASE AttachFails(t)
      <3>1. UNCHANGED <<lreq, requests, current, fresh>> /\ pc[t] = "attach"
        BY <2>6 DEF AttachFails
      <3>2. CASE t = Main
        BY <2>6, <3>1, <3>2, Stutter DEF AttachFails, NotCreated, TypeOK
      <3>3. CASE t # Main
        <4>1. t \in Listeners /\ pc' = [pc EXCEPT ![t] = "release"]
          BY <2>6, <3>3 DEF AttachFails, NotCreated
        <4> QED BY <3>1, <4>1, LeavesRouting DEF Idle, DispatchStep, Abstract!Next, Abstract!Drop
      <3> QED BY <3>2, <3>3
    <2>7. CASE Spawn(t)
      BY <2>7, Stutter DEF Spawn, Created, TypeOK
    <2> QED BY <1>4, <2>1, <2>2, <2>3, <2>4, <2>5, <2>6, <2>7 DEF CreateStep
  <1>5. ASSUME NEW l \in Listeners, RouteStep(l)
        PROVE  DispatchStep
    <2>1. CASE Locate(l)
      BY <2>1, Stutter DEF Locate, TypeOK
    <2>2. CASE ScanCompare(l)
      <3>1. UNCHANGED <<lreq, requests, current, fresh>> /\ pc[l] = "scan"
        BY <2>2 DEF ScanCompare
      <3>2. \E label \in {"scan", "take"} : pc' = [pc EXCEPT ![l] = label]
        BY <2>2 DEF ScanCompare, TypeOK
      <3> QED BY <3>1, <3>2, Stutter DEF TypeOK
    <2>3. CASE ScanTake(l)
      BY <2>3, Stutter DEF ScanTake, TypeOK
    <2>4. CASE Decide(l)
      <3>1. UNCHANGED <<lreq, requests, current, fresh>> /\ pc[l] = "scan"
        BY <2>4 DEF Decide
      <3>2. \E label \in {"populate", "queue"} : pc' = [pc EXCEPT ![l] = label]
        BY <2>4 DEF Decide, TypeOK
      <3> QED BY <3>1, <3>2, Stutter DEF TypeOK
    <2>5. CASE CreateStep(l)
      BY <1>4, <2>5
    <2>6. CASE Queue(l)
      <3>1. /\ UNCHANGED <<lreq, current, fresh>>
            /\ pc[l] = "queue" /\ pc' = [pc EXCEPT ![l] = "release"]
        BY <2>6 DEF Queue
      <3>2. CASE QueueIsFull(p[l])
        <4>1. requests' = requests
          BY <2>6, <3>2 DEF Queue
        <4> QED BY <3>1, <4>1, LeavesRouting DEF Idle, DispatchStep, Abstract!Next, Abstract!Drop
      <3>3. CASE ~QueueIsFull(p[l])
        <4>1. PICK w \in Workers : p[l] = w
          BY <2>6 DEF Queue, HandInv, HandOK
        <4>2. /\ lreq[l] \in Requests /\ lreq[l] \in routing
              /\ routing' = routing \ {lreq[l]}
          BY <3>1, LeavesRouting DEF Idle
        <4>3. PICK q \in Requests : lreq[l] = q
          BY <4>2
        <4>4. requests' = [requests EXCEPT ![w] = Append(@, q)]
          BY <2>6, <3>3, <4>1, <4>3 DEF Queue
        <4>5. mailbox'[w] = Append(mailbox[w], q)
          <5>1. requests'[w] = Append(requests[w], q) /\ requests[w] \in Seq(Requests)
            BY <4>4 DEF TypeOK
          <5>2. CASE current[w] \in Requests
            <6>1. requests[w] # <<>>
              BY <5>2, ServedIsFirst DEF ServesHead
            <6>2. Tail(Append(requests[w], q)) = Append(Tail(requests[w]), q)
              BY <5>1, <6>1, TailAppend
            <6> QED BY <3>1, <5>1, <5>2, <6>2 DEF mailbox
          <5>3. CASE current[w] \notin Requests
            BY <3>1, <5>1, <5>3 DEF mailbox
          <5> QED BY <5>2, <5>3
        <4>6. \A v \in Workers \ {w} : mailbox'[v] = mailbox[v]
          BY <3>1, <4>4 DEF mailbox, TypeOK
        <4>7. mailbox' = [mailbox EXCEPT ![w] = Append(@, q)]
          BY <4>5, <4>6, MailboxSet
        <4>8. serving' = serving
          BY <3>1 DEF serving
        <4>9. Abstract!Assign(q, w)
          BY <3>1, <4>2, <4>3, <4>7, <4>8 DEF Abstract!Assign
        <4> QED BY <4>9 DEF DispatchStep, Abstract!Next
      <3> QED BY <3>2, <3>3
    <2>7. CASE ReleaseRouted(l)
      <3>1. UNCHANGED <<requests, current, fresh>>
        BY <2>7 DEF ReleaseRouted
      <3>2. /\ pc[l] = "release" /\ lreq'[l] = NULL
            /\ \A m \in Listeners \ {l} : pc'[m] = pc[m] /\ lreq'[m] = lreq[m]
        BY <2>7 DEF ReleaseRouted, TypeOK
      <3>3. routing' = routing
        BY <3>2 DEF routing
      <3>4. mailbox' = mailbox /\ serving' = serving
        BY <3>1 DEF mailbox, serving
      <3> QED BY <3>1, <3>3, <3>4 DEF DispatchStep, Abstract!vars
    <2> QED BY <1>5, <2>1, <2>2, <2>3, <2>4, <2>5, <2>6, <2>7 DEF RouteStep
  <1>6. ASSUME NEW l \in Listeners, EndpointEnds(l)
        PROVE  DispatchStep
    BY <1>6, Stutter DEF EndpointEnds, TypeOK
  <1>7. ASSUME NEW l \in Listeners, NEW q \in Requests, Acquire(l, q)
        PROVE  DispatchStep
    <2>1. /\ UNCHANGED <<requests, current>>
          /\ q \in fresh /\ fresh' = fresh \ {q}
          /\ pc[l] = "process"
      BY <1>7 DEF Acquire
    <2>2. /\ pc'[l] = "locate" /\ lreq'[l] = q
          /\ \A m \in Listeners \ {l} : pc'[m] = pc[m] /\ lreq'[m] = lreq[m]
      BY <1>7 DEF Acquire, TypeOK
    <2>3. lreq[l] = NULL
      BY <2>1 DEF RequestInv, ListenerOK, Idle
    <2>4. routing' = routing \cup {q}
      BY <2>2, <2>3 DEF routing
    <2>5. mailbox' = mailbox /\ serving' = serving
      BY <2>1 DEF mailbox, serving
    <2> QED BY <2>1, <2>4, <2>5 DEF DispatchStep, Abstract!Next, Abstract!Accept
  <1>8. ASSUME NEW w \in Workers, WorkerStep(w)
        PROVE  DispatchStep
    <2>1. CASE ThreadStart(w)
      BY <2>1, Stutter DEF ThreadStart
    <2>2. CASE TakePending(w)
      <3>1. /\ UNCHANGED <<pc, lreq, requests, fresh>>
            /\ requests[w] # <<>> /\ current' = [current EXCEPT ![w] = Head(requests[w])]
        BY <2>2 DEF TakePending, NextRequest
      <3>2. current[w] = NULL
        BY <2>2 DEF TakePending, WasServing, WorkerInv, WorkerOK, ServesHead
      <3>3. Head(requests[w]) \in Requests
        BY <3>1 DEF TypeOK
      <3>4. /\ serving[w] = NULL /\ mailbox[w] = requests[w]
            /\ serving'[w] = Head(requests[w]) /\ mailbox'[w] = Tail(requests[w])
        BY <3>1, <3>2, <3>3 DEF mailbox, serving, TypeOK
      <3>5. \A v \in Workers \ {w} : mailbox'[v] = mailbox[v] /\ serving'[v] = serving[v]
        BY <3>1 DEF mailbox, serving, TypeOK
      <3>6. mailbox' = [mailbox EXCEPT ![w] = Tail(@)]
        BY <3>4, <3>5, MailboxSet
      <3>7. serving' = [serving EXCEPT ![w] = Head(mailbox[w])]
        BY <3>4, <3>5, ServingSet
      <3>8. routing' = routing
        BY <3>1 DEF routing
      <3>9. Abstract!Take(w)
        BY <3>1, <3>4, <3>6, <3>7, <3>8 DEF Abstract!Take
      <3> QED BY <3>9 DEF DispatchStep, Abstract!Next
    <2>3. CASE Wait(w)
      BY <2>3, Stutter DEF Wait
    <2>4. CASE CompleteLast(w)
      <3>1. /\ UNCHANGED <<pc, lreq, fresh>>
            /\ requests' = [requests EXCEPT ![w] = Tail(@)]
            /\ \E x \in {NULL, Wild} : current' = [current EXCEPT ![w] = x]
            /\ wpc[w] = "request" /\ current[w] # NULL
        BY <2>4 DEF CompleteLast, WasServing
      <3>2. current[w] \in Requests
        BY <3>1 DEF WorkerInv, WorkerOK, ServesHead
      <3>3. /\ serving[w] # NULL /\ mailbox[w] = Tail(requests[w])
            /\ serving'[w] = NULL /\ mailbox'[w] = Tail(requests[w])
        BY <3>1, <3>2 DEF mailbox, serving, TypeOK
      <3>4. \A v \in Workers \ {w} : mailbox'[v] = mailbox[v] /\ serving'[v] = serving[v]
        BY <3>1 DEF mailbox, serving, TypeOK
      <3>5. mailbox' = mailbox
        BY <3>3, <3>4 DEF mailbox
      <3>6. serving' = [serving EXCEPT ![w] = NULL]
        BY <3>3, <3>4, ServingSet
      <3>7. routing' = routing
        BY <3>1 DEF routing
      <3>8. Abstract!Complete(w)
        BY <3>1, <3>3, <3>5, <3>6, <3>7 DEF Abstract!Complete
      <3> QED BY <3>8 DEF DispatchStep, Abstract!Next
    <2>5. CASE CompleteAndTake(w)
      <3>1. /\ UNCHANGED <<pc, lreq, fresh>>
            /\ requests' = [requests EXCEPT ![w] = Tail(@)]
            /\ \E x \in {NULL, Wild} : current' = [current EXCEPT ![w] = x]
            /\ wpc[w] = "request" /\ current[w] # NULL
        BY <2>5 DEF CompleteAndTake, WasServing
      <3>2. current[w] \in Requests
        BY <3>1 DEF WorkerInv, WorkerOK, ServesHead
      <3>3. /\ serving[w] # NULL /\ mailbox[w] = Tail(requests[w])
            /\ serving'[w] = NULL /\ mailbox'[w] = Tail(requests[w])
        BY <3>1, <3>2 DEF mailbox, serving, TypeOK
      <3>4. \A v \in Workers \ {w} : mailbox'[v] = mailbox[v] /\ serving'[v] = serving[v]
        BY <3>1 DEF mailbox, serving, TypeOK
      <3>5. mailbox' = mailbox
        BY <3>3, <3>4 DEF mailbox
      <3>6. serving' = [serving EXCEPT ![w] = NULL]
        BY <3>3, <3>4, ServingSet
      <3>7. routing' = routing
        BY <3>1 DEF routing
      <3>8. Abstract!Complete(w)
        BY <3>1, <3>3, <3>5, <3>6, <3>7 DEF Abstract!Complete
      <3> QED BY <3>8 DEF DispatchStep, Abstract!Next
    <2>6. CASE WakeTake(w)
      <3>1. /\ UNCHANGED <<pc, lreq, requests, fresh>>
            /\ requests[w] # <<>> /\ current' = [current EXCEPT ![w] = Head(requests[w])]
        BY <2>6 DEF WakeTake, NextRequest
      <3>2. current[w] = NULL
        BY <2>6 DEF WakeTake, WorkerInv, WorkerOK, ServesHead
      <3>3. Head(requests[w]) \in Requests
        BY <3>1 DEF TypeOK
      <3>4. /\ serving[w] = NULL /\ mailbox[w] = requests[w]
            /\ serving'[w] = Head(requests[w]) /\ mailbox'[w] = Tail(requests[w])
        BY <3>1, <3>2, <3>3 DEF mailbox, serving, TypeOK
      <3>5. \A v \in Workers \ {w} : mailbox'[v] = mailbox[v] /\ serving'[v] = serving[v]
        BY <3>1 DEF mailbox, serving, TypeOK
      <3>6. mailbox' = [mailbox EXCEPT ![w] = Tail(@)]
        BY <3>4, <3>5, MailboxSet
      <3>7. serving' = [serving EXCEPT ![w] = Head(mailbox[w])]
        BY <3>4, <3>5, ServingSet
      <3>8. routing' = routing
        BY <3>1 DEF routing
      <3>9. Abstract!Take(w)
        BY <3>1, <3>4, <3>6, <3>7, <3>8 DEF Abstract!Take
      <3> QED BY <3>9 DEF DispatchStep, Abstract!Next
    <2>7. CASE WakeTerminate(w)
      BY <2>7, Stutter DEF WakeTerminate
    <2>8. CASE Process(w)
      BY <2>8, Stutter DEF Process
    <2>9. CASE ProcessWild(w)
      BY <2>9, Stutter DEF ProcessWild
    <2>10. CASE Exit(w)
      BY <2>10, Stutter DEF Exit
    <2> QED BY <1>8, <2>1, <2>2, <2>3, <2>4, <2>5, <2>6, <2>7, <2>8, <2>9, <2>10 DEF WorkerStep
  <1>9. ASSUME NEW w \in Workers, SpuriousWakeup(w)
        PROVE  DispatchStep
    BY <1>9, Stutter DEF SpuriousWakeup
  <1>10. CASE Rest
    BY <1>10, Stutter DEF Rest, vars
  <1> QED
    BY <1>1, <1>2, <1>3, <1>4, <1>5, <1>6, <1>7, <1>8, <1>9, <1>10 DEF Next, MainStep

(* Every request that an endpoint hands over is dropped or assigned to one *)
(* worker, and each worker takes what was assigned in order, one at a      *)
(* time: route_request, worker_queue_request and worker_request_ together  *)
(* implement Dispatch.                                                     *)
THEOREM PoolImplementsDispatch == Spec => ImplementsDispatch
  <1>1. Init => Abstract!Init
    <2> SUFFICES ASSUME Init PROVE Abstract!Init
      OBVIOUS
    <2>1. routing = {}
      BY DEF Init, routing
    <2>2. mailbox = [w \in Workers |-> <<>>] /\ serving = [w \in Workers |-> NULL]
      BY NamesAssumption DEF Init, mailbox, serving
    <2> QED BY <2>1, <2>2 DEF Init, Abstract!Init
  <1>2. IInv /\ [Next]_vars => [Abstract!Next]_(Abstract!vars)
    <2>1. CASE Next
      BY <2>1, StepsRefine DEF DispatchStep
    <2>2. CASE UNCHANGED vars
      BY <2>2, Stutter DEF vars, DispatchStep
    <2> QED BY <2>1, <2>2
  <1> QED BY <1>1, <1>2, Invariance, PTL DEF Spec, ImplementsDispatch, Abstract!Spec

(* A worker that a request has queued behind another on, or still bears    *)
(* the mark of it.                                                         *)
Busy(w) == requestcount(w) > 1 \/ current[w] = Wild

(* Where a host has one listener: a listener thread queues behind a        *)
(* request only when the host is full, since in its scan it remembers at   *)
(* least as many requests as its choice has, and a new worker has none.    *)
BusyInv == \A h \in Hosts, w \in Workers : InList(w, h) /\ Busy(w) => active[h] >= MaxChildren

(* What a listener thread remembers of its scan: its choice has no more    *)
(* requests than the scan counted, and is idle unless the host is full.     *)
ScanInv ==
    \A l \in Listeners :
        /\ pc[l] \in {"scan", "take"} /\ p[l] # NULL => requestcount(p[l]) <= nreqs[l]
        /\ pc[l] = "queue" /\ requestcount(p[l]) > 0 => active[HostOf[l]] >= MaxChildren

(* A worker that has no thread yet has no request.                         *)
NewInv ==
    /\ \A w \in Workers : wpc[w] = "none" => requestcount(w) = 0
    /\ \A t \in Threads : pc[t] \in Making => requestcount(p[t]) = 0

(* The three together are inductive, where a host has one listener.        *)
FullInv == BusyInv /\ ScanInv /\ NewInv

(* The variables that it is about. *)
LEMMA FullFrame ==
    ASSUME FullInv, UNCHANGED <<list, active, requests, current, wpc, pc, p, nreqs>>
    PROVE  FullInv'
  BY DEF FullInv, BusyInv, ScanInv, NewInv, Busy, InList, requestcount

(* A step that takes requests from queues, or moves a thread elsewhere.    *)
Fewer ==
    /\ \A w \in Workers : requestcount(w)' <= requestcount(w)
    /\ \A w \in Workers : current'[w] = Wild => Busy(w)

(* No thread comes to scan, queue or create with another worker in hand.   *)
Elsewhere ==
    /\ \A l \in Listeners :
        /\ pc'[l] \in {"scan", "take"} /\ p'[l] # NULL =>
            pc[l] \in {"scan", "take"} /\ p'[l] = p[l] /\ nreqs'[l] = nreqs[l]
        /\ pc'[l] = "queue" => pc[l] = "queue" /\ p'[l] = p[l]
    /\ \A t \in Threads : pc'[t] \in Making => pc[t] \in Making /\ p'[t] = p[t]

(* Such a step keeps the invariant.                                        *)
LEMMA FullMoves ==
    ASSUME IInv, TypeOK', FullInv, Fewer, Elsewhere, UNCHANGED <<list, active>>,
           \A w \in Workers : wpc'[w] = "none" => wpc[w] = "none"
    PROVE  FullInv'
  <1>0. /\ \A w \in Workers : requestcount(w) \in Nat /\ requestcount(w)' \in Nat
        /\ \A l \in Listeners : nreqs[l] \in Nat /\ HostOf[l] \in Hosts
        /\ \A l \in Listeners : p[l] \in Workers \cup {NULL}
    BY HostsAssumption DEF IInv, TypeOK, requestcount, Threads
  <1>1. \A w \in Workers : Busy(w)' => Busy(w)
    BY <1>0 DEF Fewer, Busy
  <1>2. BusyInv'
    BY <1>1 DEF FullInv, BusyInv, InList
  <1>3. ScanInv'
    <2> SUFFICES ASSUME NEW l \in Listeners
                 PROVE  /\ pc'[l] \in {"scan", "take"} /\ p'[l] # NULL => requestcount(p[l])' <= nreqs'[l]
                        /\ pc'[l] = "queue" /\ requestcount(p[l])' > 0 => active'[HostOf[l]] >= MaxChildren
      BY DEF ScanInv, requestcount
    <2>1. ASSUME pc'[l] \in {"scan", "take"}, p'[l] # NULL
          PROVE  requestcount(p[l])' <= nreqs'[l]
      <3>1. pc[l] \in {"scan", "take"} /\ p'[l] = p[l] /\ nreqs'[l] = nreqs[l]
        BY <2>1 DEF Elsewhere
      <3>2. PICK w \in Workers : p[l] = w /\ p'[l] = w
        BY <1>0, <2>1, <3>1
      <3>3. requestcount(w) <= nreqs[l] /\ requestcount(w)' <= requestcount(w)
        BY <2>1, <3>1, <3>2 DEF FullInv, ScanInv, Fewer
      <3>4. requestcount(w)' <= nreqs'[l]
        BY <1>0, <3>1, <3>3
      <3>5. requestcount(p[l])' = requestcount(w)'
        BY <3>2 DEF requestcount
      <3> QED BY <3>4, <3>5
    <2>2. ASSUME pc'[l] = "queue", requestcount(p[l])' > 0
          PROVE  active'[HostOf[l]] >= MaxChildren
      <3>1. pc[l] = "queue" /\ p'[l] = p[l]
        BY <2>2 DEF Elsewhere
      <3>2. PICK w \in Workers : p[l] = w /\ p'[l] = w
        BY <3>1 DEF IInv, HandInv, HandOK, Threads
      <3>3. requestcount(w)' > 0 /\ requestcount(w)' <= requestcount(w)
        BY <2>2, <3>2 DEF Fewer, requestcount
      <3>4. requestcount(w) > 0
        BY <1>0, <3>3
      <3> QED BY <3>1, <3>2, <3>4 DEF FullInv, ScanInv
    <2> QED BY <2>1, <2>2
  <1>4. NewInv'
    <2>1. ASSUME NEW w \in Workers, wpc'[w] = "none" PROVE requestcount(w)' = 0
      <3>1. requestcount(w) = 0 /\ requestcount(w)' <= requestcount(w)
        BY <2>1 DEF FullInv, NewInv, Fewer
      <3> QED BY <1>0, <3>1
    <2>2. ASSUME NEW t \in Threads, pc'[t] \in Making PROVE requestcount(p[t])' = 0
      <3>1. pc[t] \in Making /\ p'[t] = p[t]
        BY <2>2 DEF Elsewhere
      <3>2. PICK w \in Workers : p[t] = w /\ p'[t] = w
        BY <3>1 DEF IInv, HandInv, HandOK
      <3>3. requestcount(w) = 0 /\ requestcount(w)' <= requestcount(w)
        BY <3>1, <3>2 DEF FullInv, NewInv, Fewer
      <3>4. requestcount(w)' = 0
        BY <1>0, <3>3
      <3> QED BY <3>2, <3>4 DEF requestcount
    <2> QED BY <2>1, <2>2 DEF NewInv, requestcount
  <1> QED BY <1>2, <1>3, <1>4 DEF FullInv

(* A worker is in the list of one host, which has one listener. *)
LEMMA OneRouter ==
    ASSUME IInv, OneListenerPerHost, NEW l \in Listeners, NEW m \in Listeners, NEW w \in Workers,
           InList(w, HostOf[l]), InList(w, HostOf[m])
    PROVE  l = m
  BY HostsAssumption DEF IInv, ListInv, OneListenerPerHost

(* A worker in hand belongs to nobody who queues. *)
LEMMA MadeApart ==
    ASSUME IInv, OneListenerPerHost, NEW l \in Listeners, pc[l] = "queue",
           NEW t \in Threads, pc[t] \in Making
    PROVE  p[t] # p[l]
  <1> SUFFICES ASSUME p[t] = p[l] PROVE FALSE
    OBVIOUS
  <1>1. PICK w \in Workers : p[l] = w /\ p[t] = w /\ InList(w, HostOf[l])
    BY DEF IInv, HandInv, HandOK, Threads
  <1>2. CASE pc[t] = "attach"
    BY <1>1, <1>2, HostsAssumption DEF IInv, HandInv, HandOK
  <1>3. CASE pc[t] = "spawn"
    <2>1. InList(w, Host(t))
      BY <1>1, <1>3 DEF IInv, HandInv, HandOK
    <2>2. CASE t = Main
      <3>1. todo # <<>> /\ Host(t) = Head(todo)
        BY <1>3, <2>2 DEF IInv, CtrlInv, Host
      <3>2. todo \in Seq(Hosts) /\ 1 \in 1 .. Len(todo) /\ Head(todo) = todo[1] /\ todo[1] \in Hosts
        BY <3>1 DEF IInv, TypeOK
      <3>3. HostOf[l] = todo[1]
        BY <1>1, <2>1, <3>1, <3>2, HostsAssumption DEF IInv, ListInv
      <3> QED BY <3>2, <3>3 DEF IInv, StartInv
    <2>3. CASE t # Main
      <3>1. t \in Listeners /\ InList(w, HostOf[t])
        BY <2>1, <2>3 DEF Threads, Host
      <3>2. t = l
        BY <1>1, <3>1, OneRouter
      <3> QED BY <1>3, <3>2
    <2> QED BY <2>2, <2>3
  <1> QED BY <1>2, <1>3 DEF Making

(* The new worker has no requests. *)
LEMMA FullObtain ==
    ASSUME IInv, FullInv, NEW t \in Threads, NEW w \in Workers, Obtain(t, w)
    PROVE  FullInv'
  <1>1. /\ wpc[w] = "none" /\ p' = [p EXCEPT ![t] = w] /\ wpc' = [wpc EXCEPT ![w] = "made"]
        /\ pc' = [pc EXCEPT ![t] = "attach"]
        /\ UNCHANGED <<requests, current, list, active, nreqs>>
    BY DEF Obtain
  <1>2. BusyInv'
    BY <1>1 DEF FullInv, BusyInv, Busy, InList, requestcount
  <1>3. ScanInv'
    BY <1>1 DEF FullInv, ScanInv, requestcount, IInv, TypeOK, Threads
  <1>4. NewInv'
    <2>1. requestcount(w) = 0
      BY <1>1 DEF FullInv, NewInv
    <2>2. \A v \in Workers : wpc'[v] = "none" => wpc[v] = "none"
      BY <1>1 DEF IInv, TypeOK
    <2>3. \A u \in Threads : pc'[u] \in Making => u = t \/ (pc[u] \in Making /\ p'[u] = p[u])
      BY <1>1 DEF IInv, TypeOK
    <2>4. p'[t] = w
      BY <1>1 DEF IInv, TypeOK
    <2> QED BY <1>1, <2>1, <2>2, <2>3, <2>4 DEF FullInv, NewInv, requestcount
  <1> QED BY <1>2, <1>3, <1>4 DEF FullInv

(* It enters the list: a host that was not full gets no busy worker.       *)
LEMMA FullAttach ==
    ASSUME IInv, FullInv, NEW t \in Threads, Attach(t)
    PROVE  FullInv'
  <1> DEFINE g == Host(t)
  <1>1. PICK w \in Workers : p[t] = w /\ wpc[w] = "made" /\ requestcount(w) = 0
    BY DEF Attach, IInv, HandInv, HandOK, Making, FullInv, NewInv
  <1>2. g \in Hosts
    BY HostsAssumption DEF Attach, IInv, CtrlInv, Host, TypeOK, Threads
  <1>3. /\ list' = [list EXCEPT ![g] = Append(@, w)]
        /\ active' = [active EXCEPT ![g] = @ + 1]
        /\ pc[t] = "attach" /\ pc' = [pc EXCEPT ![t] = "spawn"]
        /\ UNCHANGED <<requests, current, wpc, p, nreqs>>
    BY <1>1 DEF Attach
  <1>4. \A h \in Hosts, v \in Workers : InList(v, h)' <=> InList(v, h) \/ (v = w /\ h = g)
    BY <1>2, <1>3, Appended DEF IInv, TypeOK
  <1>5. \A h \in Hosts : active[h] \in Nat /\ active'[h] \in Nat /\ active'[h] >= active[h]
    BY <1>2, <1>3 DEF IInv, TypeOK
  <1>6. ~Busy(w)
    <2>1. current[w] = NULL
      BY <1>1 DEF IInv, WorkerInv, WorkerOK
    <2> QED BY <1>1, <2>1, NamesAssumption DEF Busy
  <1>7. \A v \in Workers : Busy(v)' = Busy(v) /\ requestcount(v)' = requestcount(v)
    BY <1>3 DEF Busy, requestcount
  <1>8. \A h \in Hosts : active[h] >= MaxChildren => active'[h] >= MaxChildren
    BY <1>5, MaxChildrenAssumption
  <1>9. BusyInv'
    BY <1>4, <1>6, <1>7, <1>8 DEF FullInv, BusyInv
  <1>10. ScanInv'
    <2>1. \A l \in Listeners : pc'[l] \in {"scan", "take", "queue"} => pc'[l] = pc[l]
      BY <1>3 DEF IInv, TypeOK, Threads
    <2> QED BY <1>3, <1>8, <2>1, HostsAssumption DEF FullInv, ScanInv, requestcount
  <1>11. NewInv'
    <2>1. \A u \in Threads : pc'[u] \in Making => pc[u] \in Making
      BY <1>3 DEF IInv, TypeOK, Making
    <2> QED BY <1>3, <2>1 DEF FullInv, NewInv, requestcount
  <1> QED BY <1>9, <1>10, <1>11 DEF FullInv

(* Its thread starts, and the one who made it goes on to queue or scans.   *)
LEMMA FullSpawn ==
    ASSUME IInv, TypeOK', FullInv, NEW t \in Threads, Spawn(t)
    PROVE  FullInv'
  <1>1. PICK w \in Workers : p[t] = w /\ requestcount(w) = 0
    BY DEF Spawn, IInv, HandInv, HandOK, Making, FullInv, NewInv
  <1>2. /\ UNCHANGED <<requests, current, list, active, nreqs>>
        /\ pc[t] = "spawn" /\ pc' = [pc EXCEPT ![t] = IF t = Main THEN "launch" ELSE "queue"]
        /\ \A u \in Threads \ {t} : p'[u] = p[u]
        /\ t # Main => p' = p
    BY DEF Spawn, Created, IInv, TypeOK
  <1>3. \A v \in Workers : wpc'[v] = "none" => wpc[v] = "none"
    BY DEF Spawn, IInv, TypeOK
  <1>4. CASE t = Main
    <2>1. Elsewhere
      BY <1>2, <1>4, NamesAssumption DEF Elsewhere, Making, IInv, TypeOK, Threads
    <2>2. Fewer
      BY <1>2 DEF Fewer, Busy, requestcount, IInv, TypeOK
    <2> QED BY <1>2, <1>3, <2>1, <2>2, FullMoves
  <1>5. CASE t # Main
    <2>1. BusyInv'
      BY <1>2 DEF FullInv, BusyInv, Busy, InList, requestcount
    <2>2. ScanInv'
      <3>1. t \in Listeners
        BY <1>5 DEF Threads
      <3>2. \A l \in Listeners : pc'[l] \in {"scan", "take", "queue"} => l = t \/ pc'[l] = pc[l]
        BY <1>2 DEF IInv, TypeOK, Threads
      <3>3. pc'[t] = "queue" /\ ~(requestcount(p[t]) > 0)
        BY <1>1, <1>2, <1>5 DEF IInv, TypeOK
      <3> QED BY <1>2, <1>5, <3>1, <3>2, <3>3 DEF FullInv, ScanInv, requestcount
    <2>3. NewInv'
      <3>1. \A u \in Threads : pc'[u] \in Making => pc[u] \in Making
        BY <1>2, <1>5 DEF IInv, TypeOK, Making
      <3> QED BY <1>2, <1>3, <1>5, <3>1 DEF FullInv, NewInv, requestcount
    <2> QED BY <2>1, <2>2, <2>3 DEF FullInv
  <1> QED BY <1>4, <1>5

(* worker_locate returns: an idle worker, a new one, or the least busy one *)
(* of a host that is full.                                                 *)
LEMMA FullDecide ==
    ASSUME IInv, TypeOK', FullInv, NEW l \in Listeners, Decide(l)
    PROVE  FullInv'
  <1>1. /\ pc[l] = "scan" /\ UNCHANGED <<requests, current, list, active, wpc>>
        /\ \A u \in Threads \ {l} : p'[u] = p[u] /\ pc'[u] = pc[u]
        /\ \A m \in Listeners \ {l} : nreqs'[m] = nreqs[m]
        /\ l \in Threads
    BY DEF Decide, IInv, TypeOK, Threads
  <1>2. CASE MustCreate(l)
    <2>1. pc'[l] = "populate"
      BY <1>1, <1>2 DEF Decide, IInv, TypeOK, Threads
    <2>2. Elsewhere
      BY <1>1, <2>1 DEF Elsewhere, Making, Threads
    <2>3. Fewer
      BY <1>1 DEF Fewer, Busy, requestcount, IInv, TypeOK
    <2> QED BY <1>1, <2>2, <2>3, FullMoves
  <1>3. CASE ~MustCreate(l)
    <2>1. pc'[l] = "queue" /\ p' = p
      BY <1>1, <1>3 DEF Decide, IInv, TypeOK, Threads
    <2>2. BusyInv'
      BY <1>1 DEF FullInv, BusyInv, Busy, InList, requestcount
    <2>3. requestcount(p[l]) > 0 => active[HostOf[l]] >= MaxChildren
      <3>1. p[l] # NULL /\ ~(nreqs[l] > 0 /\ active[HostOf[l]] < MaxChildren)
        BY <1>3 DEF MustCreate
      <3>2. PICK w \in Workers : p[l] = w
        BY <1>1, <3>1 DEF IInv, TypeOK
      <3>3. requestcount(w) <= nreqs[l]
        BY <1>1, <3>1, <3>2 DEF FullInv, ScanInv
      <3>4. requestcount(w) \in Nat /\ nreqs[l] \in Nat /\ active[HostOf[l]] \in Nat
        BY HostsAssumption DEF IInv, TypeOK, requestcount
      <3> QED BY <3>1, <3>2, <3>3, <3>4, MaxChildrenAssumption
    <2>4. ScanInv'
      BY <1>1, <2>1, <2>3 DEF FullInv, ScanInv, requestcount, Threads
    <2>5. NewInv'
      BY <1>1, <2>1 DEF FullInv, NewInv, requestcount, Making, Threads
    <2> QED BY <2>2, <2>4, <2>5 DEF FullInv
  <1> QED BY <1>2, <1>3

(* The scan chooses a worker and remembers its count.                      *)
LEMMA FullScanTake ==
    ASSUME IInv, FullInv, NEW l \in Listeners, ScanTake(l)
    PROVE  FullInv'
  <1>1. /\ pc[l] = "take" /\ pc' = [pc EXCEPT ![l] = "scan"]
        /\ p' = [p EXCEPT ![l] = Slot(l)] /\ nreqs' = [nreqs EXCEPT ![l] = requestcount(Slot(l))]
        /\ UNCHANGED <<requests, current, list, active, wpc>>
        /\ l \in Threads
    BY DEF ScanTake, Threads
  <1>2. Slot(l) \in Workers
    BY HostsAssumption, <1>1 DEF Slot, IInv, CtrlInv, TypeOK
  <1>3. BusyInv'
    BY <1>1 DEF FullInv, BusyInv, Busy, InList, requestcount
  <1>4. ScanInv'
    <2>1. \A m \in Listeners \ {l} : pc'[m] = pc[m] /\ p'[m] = p[m] /\ nreqs'[m] = nreqs[m]
      BY <1>1 DEF IInv, TypeOK, Threads
    <2>2. pc'[l] = "scan" /\ requestcount(p[l])' = nreqs'[l] /\ nreqs'[l] \in Nat
      BY <1>1, <1>2 DEF IInv, TypeOK, requestcount
    <2> QED BY <1>1, <2>1, <2>2 DEF FullInv, ScanInv, requestcount
  <1>5. NewInv'
    <2>1. \A u \in Threads : pc'[u] \in Making => pc[u] \in Making /\ p'[u] = p[u]
      BY <1>1 DEF IInv, TypeOK, Making
    <2> QED BY <1>1, <2>1 DEF FullInv, NewInv, requestcount
  <1> QED BY <1>3, <1>4, <1>5 DEF FullInv

(* Only the one listener of the host adds to what its workers have.        *)
LEMMA FullQueue ==
    ASSUME IInv, TypeOK', FullInv, OneListenerPerHost, NEW l \in Listeners, Queue(l)
    PROVE  FullInv'
  <1>1. /\ pc[l] = "queue" /\ l \in Threads
        /\ p' = [p EXCEPT ![l] = NULL] /\ pc' = [pc EXCEPT ![l] = "release"]
        /\ UNCHANGED <<current, list, active, nreqs>>
    BY DEF Queue, Threads
  <1>2. \A u \in Threads \ {l} : p'[u] = p[u] /\ pc'[u] = pc[u]
    BY <1>1 DEF IInv, TypeOK
  <1>3. pc'[l] = "release"
    BY <1>1 DEF IInv, TypeOK
  <1>4. PICK w \in Workers : p[l] = w /\ InList(w, HostOf[l])
    BY <1>1 DEF IInv, HandInv, HandOK
  <1>5. \A v \in Workers : wpc'[v] = "none" => wpc[v] = "none"
    BY DEF Queue, Signal, IInv, TypeOK
  <1>6. CASE QueueIsFull(w)
    <2>1. requests' = requests
      BY <1>4, <1>6 DEF Queue
    <2>2. Elsewhere
      BY <1>1, <1>2, <1>3 DEF Elsewhere, Making, Threads
    <2>3. Fewer
      BY <1>1, <2>1 DEF Fewer, Busy, requestcount, IInv, TypeOK
    <2> QED BY <1>1, <1>5, <2>2, <2>3, FullMoves
  <1>7. CASE ~QueueIsFull(w)
    <2>1. requests' = [requests EXCEPT ![w] = Append(@, lreq[l])]
      BY <1>4, <1>7 DEF Queue
    <2>2. /\ \A v \in Workers \ {w} : requestcount(v)' = requestcount(v)
          /\ requestcount(w) \in Nat /\ requestcount(w)' = requestcount(w) + 1
      BY <2>1 DEF IInv, TypeOK, requestcount
    <2>3. BusyInv'
      <3> SUFFICES ASSUME NEW h \in Hosts, NEW v \in Workers, InList(v, h), Busy(v)'
                   PROVE  active[h] >= MaxChildren
        BY <1>1 DEF BusyInv, InList
      <3>1. CASE Busy(v)
        BY <3>1 DEF FullInv, BusyInv
      <3>2. CASE ~Busy(v)
        <4>1. v = w /\ requestcount(w) > 0
          BY <1>1, <2>2, <3>2 DEF Busy
        <4>2. h = HostOf[l]
          BY <1>4, <4>1, HostsAssumption DEF IInv, ListInv
        <4> QED BY <1>1, <1>4, <4>1, <4>2 DEF FullInv, ScanInv
      <3> QED BY <3>1, <3>2
    <2>4. ScanInv'
      <3> SUFFICES ASSUME NEW m \in Listeners
                   PROVE  /\ pc'[m] \in {"scan", "take"} /\ p'[m] # NULL => requestcount(p[m])' <= nreqs'[m]
                          /\ pc'[m] = "queue" /\ requestcount(p[m])' > 0 => active'[HostOf[m]] >= MaxChildren
        BY DEF ScanInv
      <3>1. CASE m = l
        BY <1>3, <3>1
      <3>2. CASE m # l
        <4>1. p'[m] = p[m] /\ pc'[m] = pc[m] /\ m \in Threads
          BY <1>2, <3>2 DEF Threads
        <4>2. CASE pc[m] \in {"scan", "take", "queue"} /\ p[m] # NULL
          <5>1. p[m] \in Workers /\ InList(p[m], HostOf[m])
            BY <4>1, <4>2 DEF IInv, HandInv, HandOK, TypeOK
          <5>2. p[m] # w
            BY <1>4, <3>2, <5>1, OneRouter
          <5>3. requestcount(p[m])' = requestcount(p[m])
            BY <2>1, <4>1, <5>1, <5>2 DEF requestcount, IInv, TypeOK
          <5> QED BY <1>1, <4>1, <5>3 DEF FullInv, ScanInv
        <4>3. CASE pc[m] = "queue" /\ p[m] = NULL
          BY <4>1, <4>3, NamesAssumption DEF IInv, HandInv, HandOK
        <4> QED BY <4>1, <4>2, <4>3
      <3> QED BY <3>1, <3>2
    <2>5. NewInv'
      <3>1. ASSUME NEW v \in Workers, wpc'[v] = "none" PROVE requestcount(v)' = 0
        <4>1. wpc[v] = "none"
          BY <1>5, <3>1
        <4>2. v # w
          BY <1>4, <4>1, HostsAssumption DEF IInv, ListInv
        <4> QED BY <2>2, <4>1, <4>2 DEF FullInv, NewInv
      <3>2. ASSUME NEW t \in Threads, pc'[t] \in Making PROVE requestcount(p[t])' = 0
        <4>1. t # l /\ pc[t] \in Making /\ p'[t] = p[t]
          BY <1>2, <1>3, <3>2 DEF Making
        <4>2. p[t] \in Workers /\ p[t] # w
          BY <1>1, <1>4, <4>1, MadeApart DEF IInv, HandInv, HandOK
        <4>3. requestcount(p[t]) = 0
          BY <4>1 DEF FullInv, NewInv
        <4> QED BY <2>1, <4>1, <4>2, <4>3 DEF requestcount, IInv, TypeOK
      <3> QED BY <3>1, <3>2 DEF NewInv
    <2> QED BY <2>3, <2>4, <2>5 DEF FullInv
  <1> QED BY <1>6, <1>7

(* Steps of a worker's thread. *)
LEMMA FullWorker ==
    ASSUME IInv, TypeOK', FullInv, NEW w \in Workers, WorkerStep(w) \/ SpuriousWakeup(w)
    PROVE  FullInv'
  <1>1. UNCHANGED <<list, active, pc, p, nreqs>>
    BY DEF WorkerStep, SpuriousWakeup, ThreadStart, TakePending, Wait, CompleteLast, CompleteAndTake, WakeTake,
       WakeTerminate, Process, ProcessWild, Exit
  <1>2. Elsewhere
    BY <1>1 DEF Elsewhere
  <1>3. \A v \in Workers : wpc'[v] = "none" => wpc[v] = "none"
    BY DEF WorkerStep, SpuriousWakeup, ThreadStart, TakePending, Wait, CompleteLast, CompleteAndTake, WakeTake,
       WakeTerminate, Process, ProcessWild, Exit, IInv, TypeOK
  <1>4. Fewer
    <2>1. CASE UNCHANGED <<requests, current>>
      BY <2>1 DEF Fewer, Busy, requestcount, IInv, TypeOK
    <2>2. CASE TakePending(w) \/ WakeTake(w)
      <3>1. /\ requests[w] # <<>> /\ UNCHANGED requests
            /\ current' = [current EXCEPT ![w] = Head(requests[w])]
        BY <2>2 DEF TakePending, WakeTake, NextRequest
      <3>2. Head(requests[w]) \in Requests
        BY <3>1 DEF IInv, TypeOK
      <3>3. \A v \in Workers : current'[v] = Wild => current[v] = Wild
        BY <3>1, <3>2, NamesAssumption DEF IInv, TypeOK
      <3> QED BY <3>1, <3>3 DEF Fewer, Busy, requestcount, IInv, TypeOK
    <2>3. CASE CompleteLast(w) \/ CompleteAndTake(w)
      <3>1. /\ requestcount(w) > 0 /\ requests' = [requests EXCEPT ![w] = Tail(@)]
            /\ \A v \in Workers \ {w} : current'[v] = current[v]
            /\ current'[w] = NULL \/ requestcount(w) > 1
        <4>1. CASE CompleteLast(w)
          <5>1. requestcount(w) = 1 /\ current' = [current EXCEPT ![w] = NULL]
            BY <4>1 DEF CompleteLast
          <5> QED BY <4>1, <5>1 DEF CompleteLast, IInv, TypeOK
        <4>2. CASE CompleteAndTake(w)
          <5>1. requestcount(w) > 1 /\ current' = [current EXCEPT ![w] = Wild]
            BY <4>2 DEF CompleteAndTake
          <5>2. requestcount(w) > 0
            BY <5>1 DEF requestcount, IInv, TypeOK
          <5> QED BY <4>2, <5>1, <5>2 DEF CompleteAndTake, IInv, TypeOK
        <4> QED BY <2>3, <4>1, <4>2
      <3>2. requestcount(w)' = requestcount(w) - 1 /\ requestcount(w) \in Nat
        <4>1. requests[w] \in Seq(Requests) /\ Len(requests[w]) > 0
          BY <3>1 DEF IInv, TypeOK, requestcount
        <4>2. Len(Tail(requests[w])) = Len(requests[w]) - 1
          BY <4>1, TailShorter
        <4> QED BY <3>1, <4>1, <4>2 DEF requestcount, IInv, TypeOK
      <3>3. \A v \in Workers : v # w => requestcount(v)' = requestcount(v) /\ requestcount(v) \in Nat
        BY <3>1 DEF requestcount, IInv, TypeOK
      <3>4. \A v \in Workers : current'[v] = Wild => Busy(v)
        BY <3>1, NamesAssumption DEF Busy
      <3> QED BY <3>2, <3>3, <3>4 DEF Fewer
    <2> QED BY <2>1, <2>2, <2>3 DEF WorkerStep, SpuriousWakeup, ThreadStart, Wait, WakeTerminate, Process,
               ProcessWild, Exit
  <1> QED BY <1>1, <1>2, <1>3, <1>4, FullMoves

(* Every step keeps the invariant. *)
LEMMA FullPreserved ==
    ASSUME IInv, TypeOK', FullInv, OneListenerPerHost, Next
    PROVE  FullInv'
  <1>1. ASSUME UNCHANGED <<requests, current, list, active>>, Elsewhere,
               \A w \in Workers : wpc'[w] = "none" => wpc[w] = "none"
        PROVE  FullInv'
    <2>1. Fewer
      BY <1>1 DEF Fewer, Busy, requestcount, IInv, TypeOK
    <2> QED BY <1>1, <2>1, FullMoves
  <1>2. CASE AddHost \/ LaunchWorker
    <2>1. Elsewhere
      BY <1>2, NamesAssumption DEF AddHost, LaunchWorker, Elsewhere, Making, IInv, TypeOK, Threads
    <2> QED BY <1>1, <1>2, <2>1 DEF AddHost, LaunchWorker
  <1>3. CASE StartListeners
    <2>1. \A t \in Threads : pc'[t] \in {"host", "process"} \/ pc'[t] = pc[t]
      BY <1>3 DEF StartListeners
    <2>2. Elsewhere
      BY <1>3, <2>1 DEF StartListeners, Elsewhere, Making, Threads
    <2> QED BY <1>1, <1>3, <2>2 DEF StartListeners
  <1>4. ASSUME NEW t \in Threads, CreateStep(t) PROVE FullInv'
    <2>1. CASE Populate(t) \/ Bump(t) \/ ObtainFails(t)
      <3>1. Elsewhere
        BY <2>1 DEF Populate, Bump, ObtainFails, NotCreated, Elsewhere, Making, IInv, TypeOK, Threads
      <3> QED BY <1>1, <2>1, <3>1 DEF Populate, Bump, ObtainFails
    <2>2. ASSUME NEW w \in Workers, Obtain(t, w) PROVE FullInv'
      BY <2>2, FullObtain
    <2>3. CASE Attach(t)
      BY <2>3, FullAttach
    <2>4. CASE AttachFails(t)
      <3>1. Elsewhere
        BY <2>4 DEF AttachFails, NotCreated, Elsewhere, Making, IInv, TypeOK, Threads
      <3>2. \A w \in Workers : wpc'[w] = "none" => wpc[w] = "none"
        BY <2>4 DEF AttachFails, IInv, TypeOK
      <3> QED BY <1>1, <2>4, <3>1, <3>2 DEF AttachFails
    <2>5. CASE Spawn(t)
      BY <2>5, FullSpawn
    <2> QED BY <1>4, <2>1, <2>2, <2>3, <2>4, <2>5 DEF CreateStep
  <1>5. ASSUME NEW l \in Listeners, RouteStep(l) PROVE FullInv'
    <2>1. CASE Locate(l)
      <3>1. p[l] = NULL
        BY <2>1 DEF Locate, IInv, HandInv, HandOK, Making, Threads
      <3>2. Elsewhere
        BY <2>1, <3>1 DEF Locate, Elsewhere, Making, IInv, TypeOK, Threads
      <3> QED BY <1>1, <2>1, <3>2 DEF Locate
    <2>2. CASE ScanCompare(l)
      <3>1. pc[l] = "scan" /\ (pc' = pc \/ pc' = [pc EXCEPT ![l] = "take"])
        BY <2>2 DEF ScanCompare
      <3>2. Elsewhere
        BY <2>2, <3>1 DEF ScanCompare, Elsewhere, Making, IInv, TypeOK, Threads
      <3> QED BY <1>1, <2>2, <3>2 DEF ScanCompare
    <2>3. CASE ScanTake(l)
      BY <2>3, FullScanTake
    <2>4. CASE Decide(l)
      BY <2>4, FullDecide
    <2>5. CASE CreateStep(l)
      BY <1>4, <2>5 DEF Threads
    <2>6. CASE Queue(l)
      BY <2>6, FullQueue
    <2>7. CASE ReleaseRouted(l)
      <3>1. Elsewhere
        BY <2>7 DEF ReleaseRouted, Elsewhere, Making, IInv, TypeOK, Threads
      <3> QED BY <1>1, <2>7, <3>1 DEF ReleaseRouted
    <2> QED BY <1>5, <2>1, <2>2, <2>3, <2>4, <2>5, <2>6, <2>7 DEF RouteStep
  <1>6. ASSUME NEW l \in Listeners, NEW q \in Requests, Acquire(l, q) PROVE FullInv'
    <2>1. Elsewhere
      BY <1>6 DEF Acquire, Elsewhere, Making, IInv, TypeOK, Threads
    <2> QED BY <1>1, <1>6, <2>1 DEF Acquire
  <1>7. ASSUME NEW l \in Listeners, EndpointEnds(l) PROVE FullInv'
    <2>1. Elsewhere
      BY <1>7 DEF EndpointEnds, Elsewhere, Making, IInv, TypeOK, Threads
    <2> QED BY <1>1, <1>7, <2>1 DEF EndpointEnds
  <1>8. CASE Rest
    BY <1>8, FullFrame DEF Rest, vars
  <1> QED BY <1>2, <1>3, <1>4, <1>5, <1>6, <1>7, <1>8, FullWorker DEF Next, MainStep, Threads

(* Where a host has one listener, a request queues behind another only     *)
(* when the host has all the workers it may have: worker_locate creates    *)
(* one rather than make a request wait, and no interleaving of its scan    *)
(* with the workers makes it miss that it has to.                          *)
THEOREM QueuesWhenFull == Spec => []QueueOnlyWhenFull
  <1>1. Init => FullInv
    BY NamesAssumption DEF Init, FullInv, BusyInv, ScanInv, NewInv, Busy, InList, requestcount, Making, Threads
  <1>2. OneListenerPerHost /\ IInv /\ IInv' /\ FullInv /\ [Next]_vars => FullInv'
    <2>1. FullInv /\ UNCHANGED vars => FullInv'
      BY FullFrame DEF vars
    <2> QED BY <2>1, FullPreserved DEF IInv
  <1>3. IInv /\ FullInv => QueueOnlyWhenFull
    <2> SUFFICES ASSUME IInv, FullInv, NEW h \in Hosts, NEW w \in RangeOf(list[h]), Busy(w)
                 PROVE  active[h] >= MaxChildren
      BY DEF QueueOnlyWhenFull, Busy
    <2>1. PICK i \in DOMAIN list[h] : list[h][i] = w
      BY DEF RangeOf
    <2>2. w \in Workers /\ InList(w, h)
      BY <2>1 DEF IInv, TypeOK, InList
    <2> QED BY <2>2 DEF FullInv, BusyInv
  <1>4. ~OneListenerPerHost => QueueOnlyWhenFull
    BY DEF QueueOnlyWhenFull
  <1>5. CASE OneListenerPerHost
    <2>1. IInv /\ IInv' /\ FullInv /\ [Next]_vars => FullInv'
      BY <1>2, <1>5
    <2>2. Spec => [](IInv /\ FullInv)
      BY <1>1, <2>1, Invariance, PTL DEF Spec
    <2> QED BY <1>3, <2>2, PTL
  <1>6. CASE ~OneListenerPerHost
    <2>1. QueueOnlyWhenFull
      BY <1>4, <1>6
    <2> QED BY <2>1, PTL
  <1> QED BY <1>5, <1>6

(* Worker ids.  No lock guards worker_next_id, and any number of threads   *)
(* may be creating workers.  Two are at the counter when both have copied  *)
(* it and neither has incremented it.                                      *)
TwoAtCounter == \E t, u \in Threads : t # u /\ pc[t] = "bump" /\ pc[u] = "bump"

(* A worker in use.                                                        *)
Listed(w) == \E h \in Hosts : InList(w, h)

(* Threads with an id for a worker that is in no list yet.                 *)
Numbered == {"obtain", "attach"}

(* What has become of the id that a thread has read.                       *)
IdOK(t) ==
    /\ pc[t] = "bump" => info[t] = nextId
    /\ pc[t] \in Numbered => info[t] < nextId /\ \A w \in Workers : Listed(w) => wid[w] # info[t]
    /\ pc[t] = "attach" => wid[p[t]] = info[t]

(* Threads that create at the same time do not have the same id.           *)
IdsApart == \A t, u \in Threads : pc[t] \in Numbered /\ pc[u] \in Numbered /\ t # u => info[t] # info[u]

(* Ids in use are below the counter, and differ.                           *)
IdsDiffer ==
    /\ \A w \in Workers : Listed(w) => wid[w] < nextId
    /\ \A v, w \in Workers : Listed(v) /\ Listed(w) /\ v # w => wid[v] # wid[w]

IdInv == (\A t \in Threads : IdOK(t)) /\ IdsApart /\ IdsDiffer

(* A step that leaves ids and lists alone, and in which no thread goes on  *)
(* with a worker_create.                                                   *)
LEMMA IdMoves ==
    ASSUME IdInv, UNCHANGED <<list, nextId, wid>>,
           \A t \in Threads : pc'[t] \in {"bump", "obtain", "attach"} =>
                                  pc'[t] = pc[t] /\ info'[t] = info[t] /\ p'[t] = p[t]
    PROVE  IdInv'
  <1>1. \A w \in Workers : Listed(w)' <=> Listed(w)
    BY DEF Listed, InList
  <1>2. IdsDiffer'
    BY <1>1 DEF IdInv, IdsDiffer
  <1>3. ASSUME NEW t \in Threads
        PROVE  IdOK(t)'
    BY <1>1 DEF IdInv, IdOK, Numbered
  <1>4. IdsApart'
    BY DEF IdInv, IdsApart, Numbered
  <1> QED BY <1>2, <1>3, <1>4 DEF IdInv

(* worker_create, on one of the threads that are in it.                    *)
LEMMA IdCreate ==
    ASSUME IInv, IInv', ~TwoAtCounter, IdInv, NEW t \in Threads, CreateStep(t)
    PROVE  IdInv'
  <1>0. /\ nextId \in Nat /\ (\A u \in Threads : info[u] \in Nat) /\ (\A w \in Workers : wid[w] \in Nat)
        /\ nextId' \in Nat
    BY DEF IInv, TypeOK
  <1>1. CASE Populate(t)
    <2>1. /\ pc'[t] = "bump" /\ info'[t] = nextId'
          /\ \A u \in Threads \ {t} : pc'[u] = pc[u] /\ info'[u] = info[u]
          /\ UNCHANGED <<list, nextId, wid, p>>
      BY <1>1 DEF Populate, IInv, TypeOK
    <2>2. \A w \in Workers : Listed(w)' <=> Listed(w)
      BY <2>1 DEF Listed, InList
    <2>3. \A u \in Threads : IdOK(u)'
      BY <2>1, <2>2 DEF IdOK, IdInv, Numbered
    <2>4. IdsApart'
      BY <2>1 DEF IdsApart, IdInv, Numbered
    <2>5. IdsDiffer'
      BY <2>1, <2>2 DEF IdInv, IdsDiffer
    <2> QED BY <2>3, <2>4, <2>5 DEF IdInv
  <1>2. CASE Bump(t)
    <2>1. /\ pc[t] = "bump" /\ pc'[t] = "obtain" /\ \A u \in Threads \ {t} : pc'[u] = pc[u]
          /\ info[t] = nextId /\ nextId' = nextId + 1
          /\ UNCHANGED <<info, wid, list, p>>
      BY <1>2 DEF Bump, Incremented, IInv, TypeOK, IdInv, IdOK
    <2>2. \A w \in Workers : Listed(w)' <=> Listed(w)
      BY <2>1 DEF Listed, InList
    <2>3. \A u \in Threads \ {t} : pc[u] # "bump"
      BY <2>1 DEF TwoAtCounter
    <2>4. IdOK(t)'
      BY <1>0, <2>1, <2>2 DEF IdOK, IdInv, IdsDiffer
    <2>5. ASSUME NEW u \in Threads \ {t} PROVE IdOK(u)'
      BY <1>0, <2>1, <2>2, <2>3 DEF IdOK, IdInv, Numbered
    <2>6. IdsApart'
      <3>1. \A u \in Threads \ {t} : pc[u] \in Numbered => info[u] < info[t]
        BY <2>1 DEF IdInv, IdOK
      <3>2. \A u \in Threads \ {t} : pc[u] \in Numbered => info[u] # info[t]
        BY <1>0, <3>1
      <3> QED BY <2>1, <3>2 DEF IdsApart, IdInv
    <2>7. IdsDiffer'
      BY <1>0, <2>1, <2>2 DEF IdInv, IdsDiffer
    <2> QED BY <2>4, <2>5, <2>6, <2>7 DEF IdInv
  <1>3. ASSUME NEW w \in Workers, Obtain(t, w)
        PROVE  IdInv'
    <2>1. /\ pc[t] = "obtain" /\ pc'[t] = "attach"
          /\ \A u \in Threads \ {t} : pc'[u] = pc[u] /\ p'[u] = p[u]
          /\ p'[t] = w /\ wid'[w] = info[t] /\ \A v \in Workers \ {w} : wid'[v] = wid[v]
          /\ UNCHANGED <<info, nextId, list>>
      BY <1>3 DEF Obtain, IInv, TypeOK
    <2>2. ~Listed(w)
      BY <1>3 DEF Obtain, IInv, ListInv, Listed
    <2>3. \A v \in Workers : Listed(v)' <=> Listed(v)
      BY <2>1 DEF Listed, InList
    <2>4. \A v \in Workers : Listed(v) => wid'[v] = wid[v]
      BY <2>1, <2>2
    <2>5. IdOK(t)'
      BY <2>1, <2>3, <2>4 DEF IdOK, IdInv, Numbered
    <2>6. ASSUME NEW u \in Threads \ {t} PROVE IdOK(u)'
      <3>1. pc[u] = "attach" => p[u] \in Workers \ {w}
        BY <1>3 DEF Obtain, IInv, HandInv, HandOK, Making
      <3>2. pc[u] = "attach" => wid'[p'[u]] = wid[p[u]]
        BY <2>1, <3>1
      <3> QED BY <2>1, <2>3, <2>4, <3>2 DEF IdOK, IdInv
    <2>7. IdsApart'
      BY <2>1 DEF IdsApart, IdInv, Numbered
    <2>8. IdsDiffer'
      BY <2>1, <2>3, <2>4 DEF IdInv, IdsDiffer
    <2> QED BY <2>5, <2>6, <2>7, <2>8 DEF IdInv
  <1>4. CASE Attach(t)
    <2> DEFINE g == Host(t)
    <2>1. PICK w \in Workers : p[t] = w /\ \A h \in Hosts : ~InList(w, h)
      BY <1>4 DEF Attach, IInv, HandInv, HandOK, Making
    <2>2. g \in Hosts
      BY <1>4, HostsAssumption DEF Attach, IInv, CtrlInv, Host, TypeOK, Threads, CreatePCs
    <2>3. /\ pc[t] = "attach" /\ pc'[t] = "spawn" /\ \A u \in Threads \ {t} : pc'[u] = pc[u]
          /\ list' = [list EXCEPT ![g] = Append(@, w)]
          /\ UNCHANGED <<info, nextId, wid, p>>
      BY <1>4, <2>1 DEF Attach, IInv, TypeOK
    <2>4. \A h \in Hosts, v \in Workers : InList(v, h)' <=> InList(v, h) \/ (v = w /\ h = g)
      BY <2>2, <2>3, Appended DEF IInv, TypeOK
    <2> HIDE DEF g
    <2>5. \A v \in Workers : Listed(v)' <=> Listed(v) \/ v = w
      BY <2>2, <2>4 DEF Listed
    <2>6. wid[w] = info[t] /\ info[t] < nextId /\ \A v \in Workers : Listed(v) => wid[v] # wid[w]
      BY <2>1, <2>3 DEF IdInv, IdOK, Numbered
    <2>7. \A u \in Threads \ {t} : pc[u] \in Numbered => info[u] # wid[w]
      BY <2>3, <2>6 DEF IdInv, IdsApart, Numbered
    <2>8. IdOK(t)'
      BY <2>3 DEF IdOK, Numbered
    <2>9. ASSUME NEW u \in Threads \ {t} PROVE IdOK(u)'
      BY <2>3, <2>5, <2>7 DEF IdOK, IdInv, Numbered
    <2>10. IdsApart'
      BY <2>3 DEF IdsApart, IdInv, Numbered
    <2>11. IdsDiffer'
      BY <2>3, <2>5, <2>6 DEF IdInv, IdsDiffer
    <2> QED BY <2>8, <2>9, <2>10, <2>11 DEF IdInv
  <1>5. CASE ObtainFails(t) \/ AttachFails(t) \/ Spawn(t)
    <2>1. /\ pc'[t] \notin {"bump", "obtain", "attach"}
          /\ \A u \in Threads \ {t} : pc'[u] = pc[u] /\ info'[u] = info[u] /\ p'[u] = p[u]
          /\ UNCHANGED <<list, nextId, wid>>
      BY <1>5 DEF ObtainFails, AttachFails, NotCreated, Spawn, Created, IInv, TypeOK
    <2> QED BY <2>1, IdMoves
  <1> QED BY <1>1, <1>2, <1>3, <1>4, <1>5 DEF CreateStep

(* Every step keeps the invariant.                                         *)
LEMMA IdPreserved ==
    ASSUME IInv, IInv', ~TwoAtCounter, IdInv, Next
    PROVE  IdInv'
  <1> DEFINE Calm == \A t \in Threads : pc'[t] \in {"bump", "obtain", "attach"} =>
                                  pc'[t] = pc[t] /\ info'[t] = info[t] /\ p'[t] = p[t]
  <1>1. ASSUME UNCHANGED <<list, nextId, wid>>, Calm
        PROVE  IdInv'
    BY <1>1, IdMoves
  <1>2. CASE AddHost \/ LaunchWorker \/ StartListeners
    <2>1. UNCHANGED <<list, nextId, wid, info, p>>
      BY <1>2 DEF AddHost, LaunchWorker, StartListeners
    <2>2. Calm
      BY <1>2, <2>1 DEF AddHost, LaunchWorker, StartListeners, IInv, TypeOK, Threads
    <2> QED BY <1>1, <2>1, <2>2
  <1>3. ASSUME NEW t \in Threads, CreateStep(t)
        PROVE  IdInv'
    BY <1>3, IdCreate
  <1>4. ASSUME NEW l \in Listeners, RouteStep(l)
        PROVE  IdInv'
    <2>1. CASE Locate(l) \/ ScanCompare(l) \/ ScanTake(l) \/ Decide(l) \/ Queue(l) \/ ReleaseRouted(l)
      <3>1. UNCHANGED <<list, nextId, wid, info>>
        BY <2>1 DEF Locate, ScanCompare, ScanTake, Decide, Queue, ReleaseRouted
      <3>2. pc'[l] \notin {"bump", "obtain", "attach"}
        BY <2>1 DEF Locate, ScanCompare, ScanTake, Decide, Queue, ReleaseRouted, IInv, TypeOK, Threads
      <3>3. \A u \in Threads \ {l} : pc'[u] = pc[u] /\ p'[u] = p[u]
        BY <2>1 DEF Locate, ScanCompare, ScanTake, Decide, Queue, ReleaseRouted, IInv, TypeOK, Threads
      <3> QED BY <1>1, <3>1, <3>2, <3>3 DEF Threads
    <2>2. CASE CreateStep(l)
      BY <2>2, <1>3 DEF Threads
    <2> QED BY <1>4, <2>1, <2>2 DEF RouteStep
  <1>5. ASSUME NEW l \in Listeners, EndpointEnds(l) \/ \E q \in Requests : Acquire(l, q)
        PROVE  IdInv'
    <2>1. UNCHANGED <<list, nextId, wid, info, p>>
      BY <1>5 DEF EndpointEnds, Acquire
    <2>2. Calm
      BY <1>5, <2>1 DEF EndpointEnds, Acquire, IInv, TypeOK, Threads
    <2> QED BY <1>1, <2>1, <2>2
  <1>6. ASSUME NEW w \in Workers, WorkerStep(w) \/ SpuriousWakeup(w)
        PROVE  IdInv'
    <2>1. UNCHANGED <<list, nextId, wid, info, p, pc>>
      BY <1>6 DEF WorkerStep, SpuriousWakeup, ThreadStart, TakePending, Wait, CompleteLast, CompleteAndTake,
         WakeTake, WakeTerminate, Process, ProcessWild, Exit
    <2> QED BY <1>1, <2>1
  <1>7. CASE Rest
    BY <1>1, <1>7 DEF Rest, vars
  <1> QED BY <1>2, <1>3, <1>4, <1>5, <1>6, <1>7 DEF Next, MainStep, Threads

(* If two workers in use ever have the same id, then two threads have been *)
(* between the copy of worker_next_id and its increment (worker.c:202) at  *)
(* once: whatever else of worker_create, of its failures and of the pools  *)
(* of other hosts is interleaved, nothing else makes two ids equal.        *)
THEOREM IdsCollideAtCounter == Spec => []UniqueIds \/ <>TwoAtCounter
  <1>1. Init => IdInv
    <2> SUFFICES ASSUME Init PROVE IdInv
      OBVIOUS
    <2>1. \A w \in Workers : ~Listed(w)
      BY DEF Init, Listed, InList
    <2>2. \A t \in Threads : pc[t] \notin {"bump", "obtain", "attach"}
      BY NamesAssumption DEF Init, Threads
    <2> QED BY <2>1, <2>2 DEF IdInv, IdOK, IdsApart, IdsDiffer, Numbered
  <1>2. IInv /\ IInv' /\ ~TwoAtCounter /\ IdInv /\ [Next]_vars => IdInv'
    <2>1. IdInv /\ UNCHANGED vars => IdInv'
      BY IdMoves DEF vars
    <2> QED BY <2>1, IdPreserved
  <1>3. IInv /\ IdInv => UniqueIds
    <2> SUFFICES ASSUME IInv, IdInv,
                        NEW g \in Hosts, NEW h \in Hosts, NEW v \in RangeOf(list[g]), NEW w \in RangeOf(list[h]), v # w
                 PROVE  wid[v] # wid[w]
      BY DEF UniqueIds
    <2>1. PICK i \in DOMAIN list[g], j \in DOMAIN list[h] : list[g][i] = v /\ list[h][j] = w
      BY DEF RangeOf
    <2>2. list[g] \in Seq(Workers) /\ list[h] \in Seq(Workers)
      BY DEF IInv, TypeOK
    <2>3. v \in Workers /\ w \in Workers /\ Listed(v) /\ Listed(w)
      BY <2>1, <2>2 DEF Listed, InList
    <2> QED BY <2>3 DEF IdInv, IdsDiffer
  <1>4. Spec /\ []~TwoAtCounter => [](IInv /\ IdInv)
    BY <1>1, <1>2, Invariance, PTL DEF Spec
  <1> QED BY <1>3, <1>4, PTL
=============================================================================
