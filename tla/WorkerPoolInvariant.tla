------------------------ MODULE WorkerPoolInvariant ------------------------
(***************************************************************************)
(* Proofs about WorkerPool, for any hosts, listeners, workers, requests,   *)
(* limits and faults.  The inductive invariant has seven parts: the types, *)
(* what a thread's program counter says about its locals, which hosts main *)
(* has still to create, which worker a thread has in hand, where workers   *)
(* are, how far a worker's thread has come with its queue, and where       *)
(* requests are.                                                           *)
(***************************************************************************)
EXTENDS WorkerPool, SequenceTheorems, TLAPS

CreatePCs == {"populate", "bump", "obtain", "attach", "spawn"}

(* Main creates hosts and workers, and listener threads route. *)
CtrlInv ==
    /\ pc[Main] \in {"host", "launch"} \cup CreatePCs
    /\ pc[Main] # "host" => todo # <<>>
    /\ \A l \in Listeners :
        /\ pc[l] \notin {"host", "launch"}
        /\ c[l] >= 1
        /\ pc[l] = "take" => c[l] <= Len(list[HostOf[l]])

(* No listener of a host runs before its host is complete. *)
StartInv ==
    /\ \A i, j \in 1 .. Len(todo) : todo[i] = todo[j] => i = j
    /\ \A i \in 1 .. Len(todo) : \A l \in Listeners : HostOf[l] = todo[i] => pc[l] = "none"

InList(w, h) == \E i \in 1 .. Len(list[h]) : list[h][i] = w

(* A worker in the making belongs to one thread, and a worker that a       *)
(* listener thread has chosen is in the list of its host.                  *)
Making == {"attach", "spawn"}

HandOK(t) ==
    /\ pc[t] \in Making => p[t] \in Workers /\ wpc[p[t]] = "made"
    /\ pc[t] = "attach" => p[t] \notin workers /\ \A h \in Hosts : ~InList(p[t], h)
    /\ pc[t] = "spawn" => InList(p[t], Host(t))
    /\ pc[t] = "queue" => p[t] \in Workers /\ InList(p[t], HostOf[t])
    /\ pc[t] \in {"scan", "take"} => p[t] = NULL \/ InList(p[t], HostOf[t])
    /\ pc[t] \notin Making \cup {"queue", "scan", "take"} => p[t] = NULL

HandInv ==
    /\ \A t \in Threads : HandOK(t)
    /\ \A t, u \in Threads : pc[t] \in Making /\ pc[u] \in Making /\ p[t] = p[u] => t = u

(* Listed workers exist, are counted, and are in one host's list. *)
ListInv ==
    /\ \A h \in Hosts, w \in Workers : InList(w, h) => wpc[w] \notin {"none", "freed"}
    /\ \A w \in workers : wpc[w] \notin {"none", "freed"}
    /\ \A h \in Hosts : active[h] = Len(list[h])
    /\ \A g, h \in Hosts, w \in Workers : InList(w, g) /\ InList(w, h) => g = h

(* The state of a worker follows its thread, and the request it processes  *)
(* is the first of its queue, unless it was handed something else.         *)
ServesHead(w) == current[w] \in Requests /\ requests[w] # <<>> /\ Head(requests[w]) = current[w]

WorkerOK(w) ==
    /\ wpc[w] \in {"none", "made", "freed", "nothread", "start", "waiting", "woken", "null", "exited"}
        => current[w] = NULL
    /\ wpc[w] = "request" =>
        \/ state[w] = "IDLE" /\ current[w] = NULL
        \/ state[w] = "RUNNING" /\ ServesHead(w)
    /\ wpc[w] = "process" => state[w] = "RUNNING" /\ (current[w] = Wild \/ ServesHead(w))
    /\ wpc[w] = "waiting" => requests[w] = <<>>
    /\ Len(requests[w]) <= QueueAlloc

WorkerInv == \A w \in Workers : WorkerOK(w)

Queued(q) == \E w \in Workers : \E i \in 1 .. Len(requests[w]) : requests[w][i] = q

(* A request has not arrived, is in one listener's hands, or is in a       *)
(* queue, once; it is in both from its queueing to its release only.       *)
Idle == {"none", "process", "ended"}

ListenerOK(l) ==
    /\ pc[l] \in Idle <=> lreq[l] = NULL
    /\ lreq[l] # NULL /\ pc[l] # "release" => ~Queued(lreq[l])
    /\ lreq[l] \notin fresh

AllDistinct ==
    \A v, w \in Workers : \A i \in 1 .. Len(requests[v]), j \in 1 .. Len(requests[w]) :
        requests[v][i] = requests[w][j] => v = w /\ i = j

RequestInv ==
    /\ \A l \in Listeners : ListenerOK(l)
    /\ \A l, m \in Listeners : lreq[l] = lreq[m] /\ lreq[l] # NULL => l = m
    /\ \A q \in fresh : ~Queued(q)
    /\ AllDistinct

IInv == TypeOK /\ CtrlInv /\ StartInv /\ HandInv /\ ListInv /\ WorkerInv /\ RequestInv

-----------------------------------------------------------------------------
(* Init: main has all hosts still to create and nothing else exists.      *)
THEOREM InitIInv == Init => IInv
  <1> SUFFICES ASSUME Init PROVE IInv
    OBVIOUS
  <1> USE HostsAssumption, NamesAssumption, QueueAllocAssumption DEF Init
  <1>1. TypeOK
    <2>1. pc \in [Threads -> ThreadPCs]
      BY DEF Threads, ThreadPCs
    <2>2. list \in [Hosts -> Seq(Workers)] /\ requests \in [Workers -> Seq(Requests)] /\ todo \in Seq(Hosts)
      OBVIOUS
    <2>3. nextId \in Nat /\ refs \in [Requests -> Int] /\ active \in [Hosts -> Nat] /\ launch \in Nat
      BY DEF FirstId
    <2>4. wid \in [Workers -> Nat] /\ info \in [Threads -> Nat] /\ nreqs \in [Listeners -> Nat] /\ c \in [Listeners -> Nat]
      OBVIOUS
    <2>5. state \in [Workers -> WorkerStates] /\ wpc \in [Workers -> WorkerPCs]
      BY DEF WorkerStates, WorkerPCs
    <2> QED BY <2>1, <2>2, <2>3, <2>4, <2>5 DEF TypeOK
  <1>2. CtrlInv
    BY DEF CtrlInv, Threads, CreatePCs
  <1>3. HandInv
    BY DEF HandInv, HandOK, Making, Threads
  <1>4. ListInv
    BY DEF ListInv, InList
  <1>5. WorkerInv
    BY DEF WorkerInv, WorkerOK
  <1>6. RequestInv
    BY DEF RequestInv, ListenerOK, AllDistinct, Idle, Queued, Threads
  <1>7. StartInv
    BY DEF StartInv, Threads
  <1> QED BY <1>1, <1>2, <1>3, <1>4, <1>5, <1>6, <1>7 DEF IInv
-----------------------------------------------------------------------------
USE DEF mainVars, localVars, hostVars, workerVars, requestVars, At, Goto, WorkerAt, WorkerGoto

(* The rest of a queue is a queue.                                         *)
LEMMA TailTyped ==
    ASSUME NEW S, NEW s \in Seq(S), Len(s) > 0
    PROVE  Tail(s) \in Seq(S)
  OBVIOUS

(* What dropping the head of a queue does to its length and its positions. *)
LEMMA TailShorter ==
    ASSUME NEW S, NEW s \in Seq(S), Len(s) > 0
    PROVE  /\ Len(Tail(s)) = Len(s) - 1
           /\ Len(s) = 1 => Tail(s) = <<>>
           /\ \A i \in 1 .. Len(Tail(s)) : Tail(s)[i] = s[i + 1]
  <1>1. Tail(s) \in Seq(S) /\ Len(Tail(s)) = Len(s) - 1
    OBVIOUS
  <1>2. \A i \in 1 .. Len(Tail(s)) : Tail(s)[i] = s[i + 1]
    BY <1>1
  <1>3. Len(s) = 1 => Tail(s) = <<>>
    <2> SUFFICES ASSUME Len(s) = 1 PROVE Tail(s) = <<>>
      OBVIOUS
    <2>1. Len(Tail(s)) \notin Nat \ {0}
      BY <1>1
    <2> QED BY <1>1, <2>1, EmptySeq, Zenon
  <1> QED BY <1>1, <1>2, <1>3

(* host_set_minworkers makes a number of any setting.                      *)
LEMMA ClampedMin ==
    ASSUME NEW min \in Int
    PROVE  ClampMin(min) \in Nat
  BY MaxChildrenAssumption DEF ClampMin

(* Adding and dropping references keeps counts numbers.                    *)
LEMMA RefsTyped ==
    ASSUME refs \in [Requests -> Int], NEW q, Addref(q) \/ Release(q)
    PROVE  refs' \in [Requests -> Int]
  BY DEF Addref, Release

(* A worker's thread goes to a proper place.                               *)
LEMMA WorkerGotoTyped ==
    ASSUME wpc \in [Workers -> WorkerPCs], NEW w, NEW label \in WorkerPCs, WorkerGoto(w, label)
    PROVE  wpc' \in [Workers -> WorkerPCs]
  BY DEF WorkerGoto

(* Each step keeps the types.  What a thread has in hand (HandInv) and     *)
(* that a routing listener has a request (RequestInv) are needed for it.   *)
LEMMA TypePreserved ==
    ASSUME TypeOK, CtrlInv, HandInv, RequestInv, Next
    PROVE  TypeOK'
  <1> USE HostsAssumption, NamesAssumption, MinWorkersAssumption, MaxChildrenAssumption DEF TypeOK, ThreadPCs, WorkerPCs, WorkerStates, Threads
  <1>1. CASE AddHost
    <2>1. Head(todo) \in Hosts
      BY <1>1 DEF AddHost
    <2>2. launch' \in Nat
      <3>1. active[Head(todo)] \in Nat /\ MinWorkers[Head(todo)] \in Int
        BY <2>1
      <3> DEFINE min == ClampMin(MinWorkers[Head(todo)])
      <3>2. min \in Nat
        BY <3>1, ClampedMin
      <3>3. launch' = IF min > active[Head(todo)] THEN min - active[Head(todo)] ELSE 0
        BY <1>1 DEF AddHost
      <3> HIDE DEF min
      <3> QED BY <3>1, <3>2, <3>3
    <2>3. pc' \in [Threads -> ThreadPCs]
      BY <1>1 DEF AddHost
    <2> QED BY <1>1, <2>1, <2>2, <2>3 DEF AddHost
  <1>2. CASE LaunchWorker
    BY <1>2 DEF LaunchWorker
  <1>3. CASE StartListeners
    <2>1. pc' \in [Threads -> ThreadPCs]
      BY <1>3 DEF StartListeners
    <2>2. todo' \in Seq(Hosts)
      BY <1>3 DEF StartListeners, CtrlInv
    <2> QED BY <1>3, <2>1, <2>2 DEF StartListeners
  <1>4. ASSUME NEW t \in Threads, CreateStep(t)
        PROVE  TypeOK'
    <2>1. CASE Populate(t)
      BY <2>1 DEF Populate
    <2>2. CASE Bump(t)
      BY <2>2 DEF Bump, Incremented
    <2>3. ASSUME NEW w \in Workers, Obtain(t, w)
          PROVE  TypeOK'
      BY <2>3 DEF Obtain
    <2>4. CASE ObtainFails(t)
      BY <2>4 DEF ObtainFails, NotCreated
    <2>5. CASE Attach(t)
      <3>1. p[t] \in Workers
        BY <2>5 DEF Attach, HandInv, HandOK, Making
      <3>2. Host(t) \in Hosts
        BY <2>5 DEF Attach, CtrlInv, Host
      <3>3. list' \in [Hosts -> Seq(Workers)]
        BY <2>5, <3>1, <3>2 DEF Attach
      <3>4. active' \in [Hosts -> Nat]
        BY <2>5, <3>2 DEF Attach
      <3>5. workers' \subseteq Workers
        BY <2>5, <3>1 DEF Attach
      <3>6. pc' \in [Threads -> ThreadPCs]
        BY <2>5 DEF Attach
      <3> QED BY <2>5, <3>1, <3>2, <3>3, <3>4, <3>5, <3>6 DEF Attach
    <2>6. CASE AttachFails(t)
      BY <2>6 DEF AttachFails, NotCreated, HandInv, HandOK, Making
    <2>7. CASE Spawn(t)
      <3>1. wpc' \in [Workers -> WorkerPCs]
        BY <2>7 DEF Spawn
      <3>2. pc' \in [Threads -> ThreadPCs]
        BY <2>7 DEF Spawn, Created
      <3>3. p' \in [Threads -> Workers \cup {NULL}]
        BY <2>7 DEF Spawn
      <3> QED BY <2>7, <3>1, <3>2, <3>3 DEF Spawn
    <2> QED BY <1>4, <2>1, <2>2, <2>3, <2>4, <2>5, <2>6, <2>7 DEF CreateStep
  <1>5. ASSUME NEW l \in Listeners, RouteStep(l)
        PROVE  TypeOK'
    <2>1. CASE Locate(l)
      BY <2>1 DEF Locate
    <2>2. CASE ScanCompare(l)
      <3>1. \/ Goto(l, "take") /\ c' = c
            \/ c' = [c EXCEPT ![l] = @ + 1] /\ pc' = pc
        BY <2>2 DEF ScanCompare
      <3>2. CASE Goto(l, "take") /\ c' = c
        BY <2>2, <3>2 DEF ScanCompare
      <3>3. CASE c' = [c EXCEPT ![l] = @ + 1] /\ pc' = pc
        <4>1. c' \in [Listeners -> Nat]
          BY <3>3
        <4> QED BY <2>2, <3>3, <4>1 DEF ScanCompare
      <3> QED BY <3>1, <3>2, <3>3
    <2>3. CASE ScanTake(l)
      <3>1. Slot(l) \in Workers
        BY <2>3 DEF ScanTake, Slot, CtrlInv
      <3>2. p' \in [Threads -> Workers \cup {NULL}]
        BY <2>3, <3>1 DEF ScanTake
      <3>3. nreqs' \in [Listeners -> Nat]
        BY <2>3, <3>1 DEF ScanTake, requestcount
      <3>4. c' \in [Listeners -> Nat]
        BY <2>3 DEF ScanTake
      <3>5. pc' \in [Threads -> ThreadPCs]
        BY <2>3 DEF ScanTake
      <3> QED BY <2>3, <3>1, <3>2, <3>3, <3>4, <3>5 DEF ScanTake
    <2>4. CASE Decide(l)
      BY <2>4 DEF Decide
    <2>5. CASE CreateStep(l)
      BY <1>4, <2>5
    <2>6. CASE Queue(l)
      <3>1. p[l] \in Workers
        BY <2>6 DEF Queue, HandInv, HandOK, Making
      <3>2. lreq[l] \in Requests
        <4>1. pc[l] = "queue"
          BY <2>6 DEF Queue
        <4>2. lreq[l] # NULL
          BY <4>1 DEF RequestInv, ListenerOK, Idle
        <4> QED BY <4>2
      <3>3. pc' \in [Threads -> ThreadPCs] /\ p' \in [Threads -> Workers \cup {NULL}]
        BY <2>6 DEF Queue
      <3>4. CASE QueueIsFull(p[l])
        BY <2>6, <3>3, <3>4 DEF Queue
      <3>5. CASE ~QueueIsFull(p[l])
        <4>1. refs' \in [Requests -> Int]
          BY <2>6, <3>5, RefsTyped DEF Queue
        <4>2. requests' \in [Workers -> Seq(Requests)]
          <5>1. Append(requests[p[l]], lreq[l]) \in Seq(Requests)
            BY <3>1, <3>2
          <5>2. requests' = [requests EXCEPT ![p[l]] = Append(@, lreq[l])]
            BY <2>6, <3>5 DEF Queue
          <5> QED BY <5>1, <5>2
        <4>3. wpc' \in [Workers -> WorkerPCs]
          <5>1. CASE wpc[p[l]] = "waiting"
            BY <2>6, <3>5, <5>1, WorkerGotoTyped DEF Queue, Signal
          <5>2. CASE wpc[p[l]] # "waiting"
            BY <2>6, <3>5, <5>2 DEF Queue, Signal
          <5> QED BY <5>1, <5>2
        <4> QED BY <2>6, <3>3, <4>1, <4>2, <4>3 DEF Queue
      <3> QED BY <3>4, <3>5
    <2>7. CASE ReleaseRouted(l)
      <3>1. pc' \in [Threads -> ThreadPCs]
        BY <2>7 DEF ReleaseRouted
      <3>2. refs' \in [Requests -> Int]
        BY <2>7, RefsTyped DEF ReleaseRouted
      <3>3. lreq' \in [Listeners -> Requests \cup {NULL}]
        BY <2>7 DEF ReleaseRouted
      <3> QED BY <2>7, <3>1, <3>2, <3>3 DEF ReleaseRouted
    <2> QED BY <1>5, <2>1, <2>2, <2>3, <2>4, <2>5, <2>6, <2>7 DEF RouteStep
  <1>6. ASSUME NEW l \in Listeners, EndpointEnds(l)
        PROVE  TypeOK'
    BY <1>6 DEF EndpointEnds
  <1>7. ASSUME NEW l \in Listeners, NEW q \in Requests, Acquire(l, q)
        PROVE  TypeOK'
    <2>1. pc' \in [Threads -> ThreadPCs] /\ lreq' \in [Listeners -> Requests \cup {NULL}]
      BY <1>7 DEF Acquire
    <2>2. refs' \in [Requests -> Int] /\ fresh' \subseteq Requests
      BY <1>7 DEF Acquire
    <2> QED BY <1>7, <2>1, <2>2 DEF Acquire
  <1>8. ASSUME NEW w \in Workers, WorkerStep(w)
        PROVE  TypeOK'
    <2>1. CASE ThreadStart(w)
      BY <2>1 DEF ThreadStart
    <2>2. CASE TakePending(w)
      <3>1. Head(requests[w]) \in Requests
        BY <2>2 DEF TakePending
      <3>2. current' \in [Workers -> Requests \cup {Wild, NULL}]
        BY <2>2, <3>1 DEF TakePending, NextRequest
      <3>3. state' \in [Workers -> WorkerStates] /\ wpc' \in [Workers -> WorkerPCs]
        BY <2>2 DEF TakePending
      <3> QED BY <2>2, <3>1, <3>2, <3>3 DEF TakePending
    <2>3. CASE Wait(w)
      BY <2>3 DEF Wait
    <2>4. CASE CompleteLast(w)
      <3>1. requests' \in [Workers -> Seq(Requests)]
        <4>1. Tail(requests[w]) \in Seq(Requests)
          <5>1. requests[w] \in Seq(Requests) /\ Len(requests[w]) = 1
            BY <2>4 DEF CompleteLast, requestcount
          <5>2. Len(requests[w]) > 0
            BY <5>1
          <5> QED BY <5>1, <5>2, TailTyped
        <4> QED BY <2>4, <4>1 DEF CompleteLast
      <3>2. refs' \in [Requests -> Int]
        BY <2>4, RefsTyped DEF CompleteLast
      <3>3. current' \in [Workers -> Requests \cup {Wild, NULL}]
        BY <2>4 DEF CompleteLast
      <3>4. state' \in [Workers -> WorkerStates] /\ wpc' \in [Workers -> WorkerPCs]
        BY <2>4 DEF CompleteLast
      <3>5. crashed' \in BOOLEAN
        BY <2>4 DEF CompleteLast
      <3> QED BY <2>4, <3>1, <3>2, <3>3, <3>4, <3>5 DEF CompleteLast
    <2>5. CASE CompleteAndTake(w)
      <3>1. requests' \in [Workers -> Seq(Requests)]
        BY <2>5 DEF CompleteAndTake, requestcount
      <3>2. refs' \in [Requests -> Int]
        BY <2>5, RefsTyped DEF CompleteAndTake
      <3>3. current' \in [Workers -> Requests \cup {Wild, NULL}]
        BY <2>5 DEF CompleteAndTake
      <3>4. state' \in [Workers -> WorkerStates] /\ wpc' \in [Workers -> WorkerPCs]
        BY <2>5 DEF CompleteAndTake
      <3>5. crashed' \in BOOLEAN
        BY <2>5 DEF CompleteAndTake
      <3> QED BY <2>5, <3>1, <3>2, <3>3, <3>4, <3>5 DEF CompleteAndTake
    <2>6. CASE WakeTake(w)
      BY <2>6 DEF WakeTake, NextRequest
    <2>7. CASE WakeTerminate(w)
      BY <2>7 DEF WakeTerminate
    <2>8. CASE Process(w)
      BY <2>8 DEF Process
    <2>9. CASE ProcessWild(w)
      BY <2>9 DEF ProcessWild
    <2>10. CASE Exit(w)
      BY <2>10 DEF Exit
    <2> QED BY <1>8, <2>1, <2>2, <2>3, <2>4, <2>5, <2>6, <2>7, <2>8, <2>9, <2>10 DEF WorkerStep
  <1>9. ASSUME NEW w \in Workers, SpuriousWakeup(w)
        PROVE  TypeOK'
    BY <1>9 DEF SpuriousWakeup
  <1>10. CASE Rest
    BY <1>10 DEF Rest, vars
  <1> QED
    BY <1>1, <1>2, <1>3, <1>4, <1>5, <1>6, <1>7, <1>8, <1>9, <1>10 DEF Next, MainStep
-----------------------------------------------------------------------------
(* The variables that CtrlInv is about.                                    *)
LEMMA CtrlFrame ==
    ASSUME CtrlInv, UNCHANGED <<todo, pc, c, list>>
    PROVE  CtrlInv'
  BY DEF CtrlInv

(* Each step keeps the threads in their parts of the code, and the scan of *)
(* worker_locate within the list.                                          *)
LEMMA CtrlPreserved ==
    ASSUME IInv, Next
    PROVE  CtrlInv'
  <1> USE HostsAssumption, NamesAssumption DEF IInv, Threads
  <1>1. CASE AddHost
    BY <1>1 DEF AddHost, CtrlInv, CreatePCs, TypeOK
  <1>2. CASE LaunchWorker
    BY <1>2 DEF LaunchWorker, CtrlInv, CreatePCs, TypeOK
  <1>3. CASE StartListeners
    BY <1>3 DEF StartListeners, CtrlInv, CreatePCs, TypeOK
  <1>4. ASSUME NEW t \in Threads, CreateStep(t)
        PROVE  CtrlInv'
    <2>1. CASE Populate(t)
      BY <2>1 DEF Populate, CtrlInv, CreatePCs, TypeOK
    <2>2. CASE Bump(t)
      BY <2>2 DEF Bump, CtrlInv, CreatePCs, TypeOK
    <2>3. ASSUME NEW w \in Workers, Obtain(t, w)
          PROVE  CtrlInv'
      BY <2>3 DEF Obtain, CtrlInv, CreatePCs, TypeOK
    <2>4. CASE ObtainFails(t)
      BY <2>4 DEF ObtainFails, NotCreated, CtrlInv, CreatePCs, TypeOK
    <2>5. CASE Attach(t)
      BY <2>5 DEF Attach, CtrlInv, CreatePCs, TypeOK
    <2>6. CASE AttachFails(t)
      BY <2>6 DEF AttachFails, NotCreated, CtrlInv, CreatePCs, TypeOK
    <2>7. CASE Spawn(t)
      BY <2>7 DEF Spawn, Created, CtrlInv, CreatePCs, TypeOK
    <2> QED BY <1>4, <2>1, <2>2, <2>3, <2>4, <2>5, <2>6, <2>7 DEF CreateStep
  <1>5. ASSUME NEW l \in Listeners, RouteStep(l)
        PROVE  CtrlInv'
    <2>1. CASE Locate(l)
      BY <2>1 DEF Locate, CtrlInv, CreatePCs, TypeOK
    <2>2. CASE ScanCompare(l)
      <3>1. pc[l] = "scan" /\ c[l] <= Len(list[HostOf[l]]) /\ list' = list /\ todo' = todo
        BY <2>2 DEF ScanCompare, MoreSlots
      <3>2. CASE Goto(l, "take") /\ c' = c
        BY <3>1, <3>2 DEF CtrlInv, CreatePCs, TypeOK
      <3>3. CASE c' = [c EXCEPT ![l] = @ + 1] /\ pc' = pc
        <4>1. \A m \in Listeners : c'[m] >= 1
          BY <3>3 DEF CtrlInv, TypeOK
        <4>2. \A m \in Listeners : pc[m] = "take" => m # l
          BY <3>1
        <4> QED BY <3>1, <3>3, <4>1, <4>2 DEF CtrlInv, CreatePCs, TypeOK
      <3> QED BY <2>2, <3>2, <3>3 DEF ScanCompare
    <2>3. CASE ScanTake(l)
      <3>1. /\ pc' = [pc EXCEPT ![l] = "scan"]
            /\ c' = [c EXCEPT ![l] = @ + 1]
            /\ list' = list /\ todo' = todo
        BY <2>3 DEF ScanTake
      <3>2. \A m \in Listeners : c'[m] >= 1
        BY <3>1 DEF CtrlInv, TypeOK
      <3>3. \A m \in Listeners : m # l => pc'[m] = pc[m] /\ c'[m] = c[m]
        BY <3>1 DEF TypeOK
      <3>4. pc'[Main] = pc[Main] /\ pc'[l] = "scan"
        BY <3>1 DEF TypeOK
      <3> QED BY <3>1, <3>2, <3>3, <3>4 DEF CtrlInv
    <2>4. CASE Decide(l)
      <3>1. /\ \E label \in {"populate", "queue"} : pc' = [pc EXCEPT ![l] = label]
            /\ c' = [c EXCEPT ![l] = 1]
            /\ list' = list /\ todo' = todo
        BY <2>4 DEF Decide
      <3>2. \A m \in Listeners : c'[m] >= 1
        BY <3>1 DEF CtrlInv, TypeOK
      <3>3. \A m \in Listeners : m # l => pc'[m] = pc[m] /\ c'[m] = c[m]
        BY <3>1 DEF TypeOK
      <3>4. pc'[Main] = pc[Main] /\ pc'[l] \in {"populate", "queue"}
        BY <3>1 DEF TypeOK
      <3> QED BY <3>1, <3>2, <3>3, <3>4 DEF CtrlInv
    <2>5. CASE CreateStep(l)
      BY <1>4, <2>5
    <2>6. CASE Queue(l)
      BY <2>6 DEF Queue, CtrlInv, CreatePCs, TypeOK
    <2>7. CASE ReleaseRouted(l)
      BY <2>7 DEF ReleaseRouted, CtrlInv, CreatePCs, TypeOK
    <2> QED BY <1>5, <2>1, <2>2, <2>3, <2>4, <2>5, <2>6, <2>7 DEF RouteStep
  <1>6. ASSUME NEW l \in Listeners, EndpointEnds(l)
        PROVE  CtrlInv'
    BY <1>6 DEF EndpointEnds, CtrlInv, CreatePCs, TypeOK
  <1>7. ASSUME NEW l \in Listeners, NEW q \in Requests, Acquire(l, q)
        PROVE  CtrlInv'
    BY <1>7 DEF Acquire, CtrlInv, CreatePCs, TypeOK
  <1>8. ASSUME NEW w \in Workers, WorkerStep(w)
        PROVE  CtrlInv'
    BY <1>8, CtrlFrame DEF WorkerStep, ThreadStart, TakePending, Wait, CompleteLast, CompleteAndTake, WakeTake, WakeTerminate, Process, ProcessWild, Exit
  <1>9. ASSUME NEW w \in Workers, SpuriousWakeup(w)
        PROVE  CtrlInv'
    BY <1>9, CtrlFrame DEF SpuriousWakeup
  <1>10. CASE Rest
    BY <1>10, CtrlFrame DEF Rest, vars
  <1> QED
    BY <1>1, <1>2, <1>3, <1>4, <1>5, <1>6, <1>7, <1>8, <1>9, <1>10 DEF Next, MainStep
-----------------------------------------------------------------------------
(* The variables that StartInv is about.                                   *)
LEMMA StartFrame ==
    ASSUME StartInv, UNCHANGED <<todo, pc>>
    PROVE  StartInv'
  BY DEF StartInv

(* A step of a running thread does not touch listeners yet to start.       *)
LEMMA OneThread ==
    ASSUME StartInv, NEW t \in Threads, NEW label, pc[t] # "none", pc \in [Threads -> ThreadPCs],
           pc' = [pc EXCEPT ![t] = label], todo' = todo
    PROVE  StartInv'
  <1>1. \A l \in Listeners : pc[l] = "none" => pc'[l] = "none"
    BY DEF Threads
  <1> QED BY <1>1 DEF StartInv

(* Each step but StartListeners leaves the listeners of hosts still to     *)
(* come alone, and StartListeners starts those of the first one only.      *)
LEMMA StartPreserved ==
    ASSUME IInv, Next
    PROVE  StartInv'
  <1> USE HostsAssumption, NamesAssumption DEF IInv, Threads
  <1>1. CASE AddHost
    BY <1>1, OneThread DEF AddHost, TypeOK
  <1>2. CASE LaunchWorker
    BY <1>2, OneThread DEF LaunchWorker, TypeOK
  <1>3. CASE StartListeners
    <2>1. todo # <<>> /\ todo' = Tail(todo)
      BY <1>3 DEF StartListeners, CtrlInv
    <2>2. todo \in Seq(Hosts) /\ Len(todo) > 0
      BY <2>1 DEF TypeOK
    <2>3. /\ Len(todo') = Len(todo) - 1
          /\ \A i \in 1 .. Len(todo') : todo'[i] = todo[i + 1]
      BY <2>1, <2>2, TailShorter
    <2>4. \A i \in 1 .. Len(todo') : i + 1 \in 1 .. Len(todo) /\ todo'[i] # Head(todo)
      BY <2>2, <2>3 DEF StartInv
    <2>5. \A l \in Listeners : HostOf[l] # Head(todo) => pc'[l] = pc[l]
      BY <1>3 DEF StartListeners, TypeOK
    <2>6. ASSUME NEW i \in 1 .. Len(todo'), NEW l \in Listeners, HostOf[l] = todo'[i]
          PROVE  pc'[l] = "none"
      BY <2>3, <2>4, <2>5, <2>6 DEF StartInv
    <2>7. ASSUME NEW i \in 1 .. Len(todo'), NEW j \in 1 .. Len(todo'), todo'[i] = todo'[j]
          PROVE  i = j
      <3>1. todo[i + 1] = todo[j + 1]
        BY <2>3, <2>7
      <3>2. i + 1 = j + 1
        BY <2>4, <3>1 DEF StartInv
      <3> QED BY <3>2
    <2> QED BY <2>6, <2>7 DEF StartInv
  <1>4. ASSUME NEW t \in Threads, CreateStep(t)
        PROVE  StartInv'
    <2>1. CASE Populate(t)
      BY <2>1, OneThread DEF Populate, TypeOK
    <2>2. CASE Bump(t)
      BY <2>2, OneThread DEF Bump, TypeOK
    <2>3. ASSUME NEW w \in Workers, Obtain(t, w)
          PROVE  StartInv'
      BY <2>3, OneThread DEF Obtain, TypeOK
    <2>4. CASE ObtainFails(t)
      BY <2>4, OneThread DEF ObtainFails, NotCreated, TypeOK
    <2>5. CASE Attach(t)
      BY <2>5, OneThread DEF Attach, TypeOK
    <2>6. CASE AttachFails(t)
      BY <2>6, OneThread DEF AttachFails, NotCreated, TypeOK
    <2>7. CASE Spawn(t)
      BY <2>7, OneThread DEF Spawn, Created, TypeOK
    <2> QED BY <1>4, <2>1, <2>2, <2>3, <2>4, <2>5, <2>6, <2>7 DEF CreateStep
  <1>5. ASSUME NEW l \in Listeners, RouteStep(l)
        PROVE  StartInv'
    <2>1. CASE Locate(l)
      BY <2>1, OneThread DEF Locate, TypeOK
    <2>2. CASE ScanCompare(l)
      <3>1. pc[l] = "scan" /\ todo' = todo
        BY <2>2 DEF ScanCompare
      <3>2. pc' = pc \/ pc' = [pc EXCEPT ![l] = "take"]
        BY <2>2 DEF ScanCompare
      <3> QED BY <3>1, <3>2, OneThread, StartFrame DEF TypeOK
    <2>3. CASE ScanTake(l)
      BY <2>3, OneThread DEF ScanTake, TypeOK
    <2>4. CASE Decide(l)
      BY <2>4, OneThread DEF Decide, TypeOK
    <2>5. CASE CreateStep(l)
      BY <1>4, <2>5
    <2>6. CASE Queue(l)
      BY <2>6, OneThread DEF Queue, TypeOK
    <2>7. CASE ReleaseRouted(l)
      BY <2>7, OneThread DEF ReleaseRouted, TypeOK
    <2> QED BY <1>5, <2>1, <2>2, <2>3, <2>4, <2>5, <2>6, <2>7 DEF RouteStep
  <1>6. ASSUME NEW l \in Listeners, EndpointEnds(l)
        PROVE  StartInv'
    BY <1>6, OneThread DEF EndpointEnds, TypeOK
  <1>7. ASSUME NEW l \in Listeners, NEW q \in Requests, Acquire(l, q)
        PROVE  StartInv'
    BY <1>7, OneThread DEF Acquire, TypeOK
  <1>8. ASSUME NEW w \in Workers, WorkerStep(w)
        PROVE  StartInv'
    BY <1>8, StartFrame DEF WorkerStep, ThreadStart, TakePending, Wait, CompleteLast, CompleteAndTake, WakeTake, WakeTerminate, Process, ProcessWild, Exit
  <1>9. ASSUME NEW w \in Workers, SpuriousWakeup(w)
        PROVE  StartInv'
    BY <1>9, StartFrame DEF SpuriousWakeup
  <1>10. CASE Rest
    BY <1>10, StartFrame DEF Rest, vars
  <1> QED
    BY <1>1, <1>2, <1>3, <1>4, <1>5, <1>6, <1>7, <1>8, <1>9, <1>10 DEF Next, MainStep
-----------------------------------------------------------------------------
(* The variables that ListInv is about.                                    *)
LEMMA ListFrame ==
    ASSUME ListInv, UNCHANGED <<list, wpc, workers, active>>
    PROVE  ListInv'
  BY DEF ListInv, InList

(* Workers that go on with their lives stay listed.                        *)
LEMMA ListMoves ==
    ASSUME ListInv, UNCHANGED <<list, active, workers>>, workers \subseteq Workers,
           \A w \in Workers : wpc[w] \notin {"none", "freed"} => wpc'[w] \notin {"none", "freed"}
    PROVE  ListInv'
  BY DEF ListInv, InList

(* What list_add does to the membership of a host's list.                  *)
LEMMA Appended ==
    ASSUME NEW g \in Hosts, NEW w \in Workers, list \in [Hosts -> Seq(Workers)],
           list' = [list EXCEPT ![g] = Append(@, w)]
    PROVE  \A h \in Hosts, v \in Workers : InList(v, h)' <=> InList(v, h) \/ (v = w /\ h = g)
  <1> SUFFICES ASSUME NEW h \in Hosts, NEW v \in Workers
               PROVE  InList(v, h)' <=> InList(v, h) \/ (v = w /\ h = g)
    OBVIOUS
  <1>1. CASE h # g
    BY <1>1 DEF InList
  <1>2. CASE h = g
    <2>1. list[g] \in Seq(Workers) /\ list'[g] = Append(list[g], w)
      OBVIOUS
    <2>2. /\ Len(list'[g]) = Len(list[g]) + 1
          /\ \A i \in 1 .. Len(list[g]) : list'[g][i] = list[g][i]
          /\ list'[g][Len(list[g]) + 1] = w
      BY <2>1
    <2>3. Len(list[g]) \in Nat
      BY <2>1
    <2> QED BY <1>2, <2>2, <2>3 DEF InList
  <1> QED BY <1>1, <1>2

(* Each step keeps listed workers in existence, counted and in one list.   *)
LEMMA ListPreserved ==
    ASSUME IInv, Next
    PROVE  ListInv'
  <1> USE HostsAssumption, NamesAssumption DEF IInv, Threads
  <1>1. CASE AddHost
    BY <1>1, ListFrame DEF AddHost
  <1>2. CASE LaunchWorker
    BY <1>2, ListFrame DEF LaunchWorker
  <1>3. CASE StartListeners
    BY <1>3, ListFrame DEF StartListeners
  <1>4. ASSUME NEW t \in Threads, CreateStep(t)
        PROVE  ListInv'
    <2>1. CASE Populate(t)
      BY <2>1, ListFrame DEF Populate
    <2>2. CASE Bump(t)
      BY <2>2, ListFrame DEF Bump
    <2>3. ASSUME NEW w \in Workers, Obtain(t, w)
          PROVE  ListInv'
      BY <2>3, ListMoves DEF Obtain, TypeOK
    <2>4. CASE ObtainFails(t)
      BY <2>4, ListFrame DEF ObtainFails
    <2>5. CASE Attach(t)
      <3> DEFINE g == Host(t)
      <3>1. PICK w \in Workers : p[t] = w /\ wpc[w] = "made" /\ \A h \in Hosts : ~InList(w, h)
        BY <2>5 DEF Attach, HandInv, HandOK, Making
      <3>2. g \in Hosts
        BY <2>5 DEF Attach, CtrlInv, Host, TypeOK
      <3>3. /\ list' = [list EXCEPT ![g] = Append(@, w)]
            /\ active' = [active EXCEPT ![g] = @ + 1]
            /\ workers' \subseteq workers \cup {w}
            /\ wpc' = wpc
        BY <2>5, <3>1 DEF Attach
      <3>4. \A h \in Hosts, v \in Workers : InList(v, h)' <=> InList(v, h) \/ (v = w /\ h = g)
        BY <3>2, <3>3, Appended DEF TypeOK
      <3>5. \A h \in Hosts : active'[h] = Len(list'[h])
        <4>1. Len(Append(list[g], w)) = Len(list[g]) + 1
          BY <3>2 DEF TypeOK
        <4>2. list'[g] = Append(list[g], w) /\ active'[g] = active[g] + 1
          BY <3>2, <3>3 DEF TypeOK
        <4>3. \A h \in Hosts : h # g => list'[h] = list[h] /\ active'[h] = active[h]
          BY <3>2, <3>3 DEF TypeOK
        <4> QED BY <4>1, <4>2, <4>3 DEF ListInv
      <3> HIDE DEF g
      <3>6. \A h \in Hosts, v \in Workers : InList(v, h)' => wpc'[v] \notin {"none", "freed"}
        BY <3>1, <3>3, <3>4 DEF ListInv
      <3>7. \A v \in workers' : wpc'[v] \notin {"none", "freed"}
        BY <3>1, <3>3 DEF ListInv
      <3>8. \A f, h \in Hosts, v \in Workers : InList(v, f)' /\ InList(v, h)' => f = h
        BY <3>1, <3>4 DEF ListInv
      <3> QED BY <3>5, <3>6, <3>7, <3>8 DEF ListInv
    <2>6. CASE AttachFails(t)
      <3>1. PICK w \in Workers : p[t] = w /\ w \notin workers /\ \A h \in Hosts : ~InList(w, h)
        BY <2>6 DEF AttachFails, HandInv, HandOK, Making
      <3>2. /\ list' = list /\ active' = active
            /\ workers' \subseteq workers
            /\ \A v \in Workers \ {w} : wpc'[v] = wpc[v]
        BY <2>6, <3>1 DEF AttachFails, TypeOK
      <3>3. \A h \in Hosts, v \in Workers : InList(v, h)' <=> InList(v, h)
        BY <3>2 DEF InList
      <3> QED BY <3>1, <3>2, <3>3 DEF ListInv, TypeOK
    <2>7. CASE Spawn(t)
      BY <2>7, ListMoves DEF Spawn, HandInv, HandOK, Making, TypeOK
    <2> QED BY <1>4, <2>1, <2>2, <2>3, <2>4, <2>5, <2>6, <2>7 DEF CreateStep
  <1>5. ASSUME NEW l \in Listeners, RouteStep(l)
        PROVE  ListInv'
    <2>1. CASE Locate(l)
      BY <2>1, ListFrame DEF Locate
    <2>2. CASE ScanCompare(l)
      BY <2>2, ListFrame DEF ScanCompare
    <2>3. CASE ScanTake(l)
      BY <2>3, ListFrame DEF ScanTake
    <2>4. CASE Decide(l)
      BY <2>4, ListFrame DEF Decide
    <2>5. CASE CreateStep(l)
      BY <1>4, <2>5
    <2>6. CASE Queue(l)
      <3>1. \A w \in Workers : wpc'[w] = wpc[w] \/ (wpc'[w] = "woken" /\ wpc[w] = "waiting")
        <4>1. \/ wpc' = wpc
              \/ wpc[p[l]] = "waiting" /\ wpc' = [wpc EXCEPT ![p[l]] = "woken"]
          BY <2>6 DEF Queue, Signal
        <4>2. CASE wpc' = wpc
          BY <4>2
        <4>3. CASE wpc[p[l]] = "waiting" /\ wpc' = [wpc EXCEPT ![p[l]] = "woken"]
          BY <4>3 DEF TypeOK
        <4> QED BY <4>1, <4>2, <4>3
      <3>2. UNCHANGED <<list, active, workers>>
        BY <2>6 DEF Queue
      <3> QED BY <3>1, <3>2, ListMoves DEF TypeOK
    <2>7. CASE ReleaseRouted(l)
      BY <2>7, ListFrame DEF ReleaseRouted
    <2> QED BY <1>5, <2>1, <2>2, <2>3, <2>4, <2>5, <2>6, <2>7 DEF RouteStep
  <1>6. ASSUME NEW l \in Listeners, EndpointEnds(l)
        PROVE  ListInv'
    BY <1>6, ListFrame DEF EndpointEnds
  <1>7. ASSUME NEW l \in Listeners, NEW q \in Requests, Acquire(l, q)
        PROVE  ListInv'
    BY <1>7, ListFrame DEF Acquire
  <1>8. ASSUME NEW w \in Workers, WorkerStep(w)
        PROVE  ListInv'
    <2>1. CASE ThreadStart(w)
      BY <2>1, ListMoves DEF ThreadStart, TypeOK
    <2>2. CASE TakePending(w)
      BY <2>2, ListMoves DEF TakePending, TypeOK
    <2>3. CASE Wait(w)
      BY <2>3, ListMoves DEF Wait, TypeOK
    <2>4. CASE CompleteLast(w)
      BY <2>4, ListMoves DEF CompleteLast, TypeOK
    <2>5. CASE CompleteAndTake(w)
      BY <2>5, ListMoves DEF CompleteAndTake, TypeOK
    <2>6. CASE WakeTake(w)
      BY <2>6, ListMoves DEF WakeTake, TypeOK
    <2>7. CASE WakeTerminate(w)
      BY <2>7, ListMoves DEF WakeTerminate, TypeOK
    <2>8. CASE Process(w)
      BY <2>8, ListMoves DEF Process, TypeOK
    <2>9. CASE ProcessWild(w)
      BY <2>9, ListFrame DEF ProcessWild
    <2>10. CASE Exit(w)
      BY <2>10, ListMoves DEF Exit, TypeOK
    <2> QED BY <1>8, <2>1, <2>2, <2>3, <2>4, <2>5, <2>6, <2>7, <2>8, <2>9, <2>10 DEF WorkerStep
  <1>9. ASSUME NEW w \in Workers, SpuriousWakeup(w)
        PROVE  ListInv'
    BY <1>9, ListMoves DEF SpuriousWakeup, TypeOK
  <1>10. CASE Rest
    BY <1>10, ListFrame DEF Rest, vars
  <1> QED
    BY <1>1, <1>2, <1>3, <1>4, <1>5, <1>6, <1>7, <1>8, <1>9, <1>10 DEF Next, MainStep
-----------------------------------------------------------------------------
(* The variables that HandInv is about.                                    *)
LEMMA HandFrame ==
    ASSUME HandInv, UNCHANGED <<todo, pc, p, list, workers, wpc>>
    PROVE  HandInv'
  BY DEF HandInv, HandOK, InList, Host

(* What a step of a thread does not do to the workers that others make. *)
OthersMaking(t) ==
    \A u \in Threads \ {t} :
        /\ pc[u] \in Making => wpc'[p[u]] = "made"
        /\ pc[u] = "attach" => p[u] \notin workers' /\ \A h \in Hosts : ~InList(p[u], h)'

(* A step of one thread that leaves the workers others make alone keeps    *)
(* HandInv if it is right for that thread.                                 *)
LEMMA HandOthers ==
    ASSUME HandInv, CtrlInv, TypeOK, NEW t \in Threads, HandOK(t)', OthersMaking(t), todo' = todo,
           \A u \in Threads \ {t} : pc'[u] = pc[u] /\ p'[u] = p[u],
           \A h \in Hosts, w \in Workers : InList(w, h) => InList(w, h)',
           pc'[t] \in Making => \A u \in Threads \ {t} : pc[u] \in Making => p[u] # p'[t]
    PROVE  HandInv'
  <1>1. ASSUME NEW u \in Threads, u # t
        PROVE  HandOK(u)'
    <2>1. pc'[u] = pc[u] /\ p'[u] = p[u] /\ HandOK(u)
      BY <1>1 DEF HandInv
    <2>2. Host(u)' = Host(u)
      BY DEF Host
    <2>3. pc[u] \in Making => Host(u) \in Hosts
      BY HostsAssumption DEF Host, Making, CtrlInv, Threads, TypeOK
    <2>4. pc[u] \in {"queue", "scan", "take"} => HostOf[u] \in Hosts
      BY HostsAssumption DEF CtrlInv, Threads, CreatePCs
    <2>5. p[u] \in Workers \cup {NULL}
      BY DEF TypeOK
    <2>6. pc[u] \in Making => wpc'[p[u]] = "made"
      BY <1>1 DEF OthersMaking
    <2>7. pc[u] = "attach" => p[u] \notin workers' /\ \A h \in Hosts : ~InList(p[u], h)'
      BY <1>1, <2>1 DEF OthersMaking
    <2> QED BY <2>1, <2>2, <2>3, <2>4, <2>5, <2>6, <2>7 DEF HandOK, Making
  <1>2. \A u, v \in Threads : pc'[u] \in Making /\ pc'[v] \in Making /\ p'[u] = p'[v] => u = v
    BY DEF HandInv
  <1> QED BY <1>1, <1>2 DEF HandInv

(* The case in which the thread makes no worker and the lists stay.        *)
LEMMA HandMoves ==
    ASSUME HandInv, CtrlInv, TypeOK, NEW t \in Threads, UNCHANGED <<todo, list, workers>>,
           \A u \in Threads \ {t} : pc'[u] = pc[u] /\ p'[u] = p[u],
           \A w \in Workers : wpc[w] = "made" => wpc'[w] = "made",
           pc'[t] \notin Making,
           pc'[t] = "queue" => p'[t] \in Workers /\ InList(p'[t], HostOf[t]),
           pc'[t] \in {"scan", "take"} => p'[t] = NULL \/ InList(p'[t], HostOf[t]),
           pc'[t] \notin {"queue", "scan", "take"} => p'[t] = NULL
    PROVE  HandInv'
  <1>1. HandOK(t)'
    BY DEF HandOK, InList, Making
  <1>2. OthersMaking(t)
    BY DEF OthersMaking, HandInv, HandOK, InList, Making
  <1>3. \A h \in Hosts, w \in Workers : InList(w, h) => InList(w, h)'
    BY DEF InList
  <1> QED BY <1>1, <1>2, <1>3, HandOthers

(* The case of a worker's thread.                                          *)
LEMMA HandMade ==
    ASSUME HandInv, UNCHANGED <<todo, pc, p, list, workers>>,
           \A w \in Workers : wpc[w] = "made" => wpc'[w] = "made"
    PROVE  HandInv'
  BY DEF HandInv, HandOK, InList, Host, Making

(* Each step keeps a new worker to the one thread that makes it, and the   *)
(* choice of worker_locate in the list.                                    *)
LEMMA HandPreserved ==
    ASSUME IInv, Next
    PROVE  HandInv'
  <1> USE HostsAssumption, NamesAssumption DEF IInv, Threads
  <1>1. CASE AddHost
    BY <1>1, HandMoves DEF AddHost, HandInv, HandOK, Making, TypeOK
  <1>2. CASE LaunchWorker
    BY <1>2, HandMoves DEF LaunchWorker, HandInv, HandOK, Making, TypeOK
  <1>3. CASE StartListeners
    <2>1. /\ pc[Main] = "launch" /\ pc'[Main] = "host"
          /\ UNCHANGED <<p, wpc, list, workers>>
          /\ \A l \in Listeners : pc'[l] = pc[l] \/ (HostOf[l] = Head(todo) /\ pc'[l] = "process")
      BY <1>3 DEF StartListeners, TypeOK
    <2>2. \A l \in Listeners : HostOf[l] = Head(todo) => pc[l] = "none"
      <3>1. todo # <<>>
        BY <2>1 DEF CtrlInv
      <3>2. 1 \in 1 .. Len(todo) /\ Head(todo) = todo[1]
        BY <3>1 DEF TypeOK
      <3> QED BY <3>2 DEF StartInv
    <2>3. \A t \in Threads : (pc'[t] = pc[t] /\ t # Main) \/ (pc'[t] \in {"host", "process"} /\ p[t] = NULL)
      BY <2>1, <2>2 DEF HandInv, HandOK, Making
    <2>4. \A t \in Threads \ {Main} : Host(t)' = Host(t)
      BY DEF Host
    <2>5. \A t \in Threads : HandOK(t)'
      BY <2>1, <2>3, <2>4 DEF HandInv, HandOK, Making, InList
    <2> QED BY <2>1, <2>3, <2>5 DEF HandInv, Making
  <1>4. ASSUME NEW t \in Threads, CreateStep(t)
        PROVE  HandInv'
    <2>1. CASE Populate(t)
      BY <2>1, HandMoves DEF Populate, HandInv, HandOK, Making, TypeOK
    <2>2. CASE Bump(t)
      BY <2>2, HandMoves DEF Bump, HandInv, HandOK, Making, TypeOK
    <2>3. ASSUME NEW w \in Workers, Obtain(t, w)
          PROVE  HandInv'
      <3>1. /\ wpc[w] = "none" /\ wpc' = [wpc EXCEPT ![w] = "made"]
            /\ pc' = [pc EXCEPT ![t] = "attach"] /\ p' = [p EXCEPT ![t] = w]
            /\ UNCHANGED <<todo, list, workers>>
        BY <2>3 DEF Obtain
      <3>2. /\ pc'[t] = "attach" /\ p'[t] = w /\ wpc'[w] = "made"
            /\ \A u \in Threads \ {t} : pc'[u] = pc[u] /\ p'[u] = p[u]
            /\ \A v \in Workers \ {w} : wpc'[v] = wpc[v]
        BY <3>1 DEF TypeOK
      <3>3. w \notin workers' /\ \A h \in Hosts : ~InList(w, h)'
        BY <3>1 DEF ListInv, InList
      <3>4. HandOK(t)'
        BY <3>2, <3>3 DEF HandOK, Making
      <3>5. OthersMaking(t)
        BY <3>1, <3>2 DEF OthersMaking, HandInv, HandOK, InList
      <3>6. \A u \in Threads \ {t} : pc[u] \in Making => p[u] # p'[t]
        BY <3>1, <3>2 DEF HandInv, HandOK
      <3> QED BY <3>1, <3>2, <3>4, <3>5, <3>6, HandOthers DEF InList
    <2>4. CASE ObtainFails(t)
      BY <2>4, HandMoves DEF ObtainFails, NotCreated, HandInv, HandOK, Making, TypeOK
    <2>5. CASE Attach(t)
      <3> DEFINE g == Host(t)
      <3>1. PICK w \in Workers : p[t] = w /\ wpc[w] = "made" /\ w \notin workers /\ \A h \in Hosts : ~InList(w, h)
        BY <2>5 DEF Attach, HandInv, HandOK, Making
      <3>2. g \in Hosts
        BY <2>5 DEF Attach, CtrlInv, Host, TypeOK
      <3>3. /\ pc[t] = "attach" /\ pc' = [pc EXCEPT ![t] = "spawn"]
            /\ list' = [list EXCEPT ![g] = Append(@, w)]
            /\ workers' \subseteq workers \cup {w}
            /\ UNCHANGED <<todo, p, wpc>>
        BY <2>5, <3>1 DEF Attach
      <3>4. \A h \in Hosts, v \in Workers : InList(v, h)' <=> InList(v, h) \/ (v = w /\ h = g)
        BY <3>2, <3>3, Appended DEF TypeOK
      <3>5. pc'[t] = "spawn" /\ \A u \in Threads \ {t} : pc'[u] = pc[u] /\ p'[u] = p[u]
        BY <3>3 DEF TypeOK
      <3>6. Host(t)' = g
        BY <3>3 DEF Host
      <3> HIDE DEF g
      <3>7. \A u \in Threads \ {t} : pc[u] \in Making => p[u] # w
        BY <3>1, <3>3 DEF HandInv, Making
      <3>8. HandOK(t)'
        BY <3>1, <3>2, <3>3, <3>4, <3>5, <3>6 DEF HandOK, Making
      <3>9. OthersMaking(t)
        BY <3>3, <3>4, <3>5, <3>7 DEF OthersMaking, HandInv, HandOK, Making
      <3>10. \A h \in Hosts, v \in Workers : InList(v, h) => InList(v, h)'
        BY <3>4
      <3>11. \A u \in Threads \ {t} : pc[u] \in Making => p[u] # p'[t]
        BY <3>1, <3>3, <3>7
      <3> QED BY <3>3, <3>5, <3>8, <3>9, <3>10, <3>11, HandOthers
    <2>6. CASE AttachFails(t)
      <3>1. PICK w \in Workers : p[t] = w
        BY <2>6 DEF AttachFails, HandInv, HandOK, Making
      <3>2. /\ pc[t] = "attach"
            /\ \E label \in {"launch", "release"} : pc' = [pc EXCEPT ![t] = label]
            /\ p' = [p EXCEPT ![t] = NULL]
            /\ wpc' = [wpc EXCEPT ![w] = "freed"]
            /\ workers' \subseteq workers
            /\ UNCHANGED <<todo, list>>
        BY <2>6, <3>1 DEF AttachFails, NotCreated
      <3>3. /\ pc'[t] \in {"launch", "release"} /\ p'[t] = NULL
            /\ \A u \in Threads \ {t} : pc'[u] = pc[u] /\ p'[u] = p[u]
            /\ \A v \in Workers \ {w} : wpc'[v] = wpc[v]
        BY <3>2 DEF TypeOK
      <3>4. \A u \in Threads \ {t} : pc[u] \in Making => p[u] # w
        BY <3>1, <3>2 DEF HandInv, Making
      <3>5. HandOK(t)'
        BY <3>3 DEF HandOK, Making
      <3>6. OthersMaking(t)
        BY <3>2, <3>3, <3>4 DEF OthersMaking, HandInv, HandOK, Making, InList
      <3>7. pc'[t] \notin Making
        BY <3>3 DEF Making
      <3> QED BY <3>2, <3>3, <3>5, <3>6, <3>7, HandOthers DEF InList
    <2>7. CASE Spawn(t)
      <3>1. PICK w \in Workers : p[t] = w /\ InList(w, Host(t))
        BY <2>7 DEF Spawn, HandInv, HandOK, Making
      <3>2. /\ pc[t] = "spawn"
            /\ \E outcome \in {"start", "nothread"} : wpc' = [wpc EXCEPT ![w] = outcome]
            /\ UNCHANGED <<todo, list, workers>>
        BY <2>7, <3>1 DEF Spawn
      <3>3. \/ t = Main /\ pc'[t] = "launch" /\ p'[t] = NULL
            \/ t \in Listeners /\ pc'[t] = "queue" /\ p'[t] = w /\ InList(w, HostOf[t])
        BY <2>7, <3>1 DEF Spawn, Created, Host, TypeOK
      <3>4. /\ \A u \in Threads \ {t} : pc'[u] = pc[u] /\ p'[u] = p[u]
            /\ \A v \in Workers \ {w} : wpc'[v] = wpc[v]
        BY <2>7, <3>2 DEF Spawn, Created, TypeOK
      <3>5. \A u \in Threads \ {t} : pc[u] \in Making => p[u] # w
        BY <3>1, <3>2 DEF HandInv, Making
      <3>6. HandOK(t)'
        BY <3>2, <3>3 DEF HandOK, Making, InList
      <3>7. OthersMaking(t)
        BY <3>2, <3>4, <3>5 DEF OthersMaking, HandInv, HandOK, Making, InList
      <3>8. pc'[t] \notin Making
        BY <3>3 DEF Making
      <3> QED BY <3>2, <3>4, <3>6, <3>7, <3>8, HandOthers DEF InList
    <2> QED BY <1>4, <2>1, <2>2, <2>3, <2>4, <2>5, <2>6, <2>7 DEF CreateStep
  <1>5. ASSUME NEW l \in Listeners, RouteStep(l)
        PROVE  HandInv'
    <2>1. CASE Locate(l)
      BY <2>1, HandMoves DEF Locate, HandInv, HandOK, Making, TypeOK
    <2>2. CASE ScanCompare(l)
      <3>1. /\ pc[l] = "scan"
            /\ UNCHANGED <<todo, p, list, workers, wpc>>
            /\ pc' = pc \/ pc' = [pc EXCEPT ![l] = "take"]
        BY <2>2 DEF ScanCompare
      <3>2. CASE pc' = pc
        BY <3>1, <3>2, HandFrame
      <3>3. CASE pc' = [pc EXCEPT ![l] = "take"]
        BY <3>1, <3>3, HandMoves DEF HandInv, HandOK, Making, TypeOK
      <3> QED BY <3>1, <3>2, <3>3
    <2>3. CASE ScanTake(l)
      <3>1. /\ pc[l] = "take" /\ pc' = [pc EXCEPT ![l] = "scan"]
            /\ p' = [p EXCEPT ![l] = Slot(l)]
            /\ UNCHANGED <<todo, list, workers, wpc>>
        BY <2>3 DEF ScanTake
      <3>2. InList(Slot(l), HostOf[l])
        BY <3>1 DEF Slot, InList, CtrlInv, TypeOK
      <3>3. /\ pc'[l] = "scan" /\ InList(p'[l], HostOf[l])
            /\ \A u \in Threads \ {l} : pc'[u] = pc[u] /\ p'[u] = p[u]
        BY <3>1, <3>2 DEF TypeOK
      <3> HIDE DEF IInv
      <3> QED BY <3>1, <3>3, HandMoves DEF IInv, Making
    <2>4. CASE Decide(l)
      <3>1. /\ pc[l] = "scan"
            /\ UNCHANGED <<todo, list, workers, wpc>>
            /\ \/ pc' = [pc EXCEPT ![l] = "populate"] /\ p' = [p EXCEPT ![l] = NULL]
               \/ p[l] # NULL /\ pc' = [pc EXCEPT ![l] = "queue"] /\ p' = p
        BY <2>4 DEF Decide, MustCreate
      <3>2. CASE pc' = [pc EXCEPT ![l] = "populate"] /\ p' = [p EXCEPT ![l] = NULL]
        BY <3>1, <3>2, HandMoves DEF Making, TypeOK
      <3>3. CASE p[l] # NULL /\ pc' = [pc EXCEPT ![l] = "queue"] /\ p' = p
        <4>1. p[l] \in Workers /\ InList(p[l], HostOf[l])
          BY <3>1, <3>3 DEF HandInv, HandOK, TypeOK
        <4> QED BY <3>1, <3>3, <4>1, HandMoves DEF Making, TypeOK
      <3> QED BY <3>1, <3>2, <3>3
    <2>5. CASE CreateStep(l)
      BY <1>4, <2>5
    <2>6. CASE Queue(l)
      <3>1. /\ pc[l] = "queue" /\ pc' = [pc EXCEPT ![l] = "release"]
            /\ p' = [p EXCEPT ![l] = NULL]
            /\ UNCHANGED <<todo, list, workers>>
        BY <2>6 DEF Queue
      <3>2. \A w \in Workers : wpc[w] = "made" => wpc'[w] = "made"
        <4>1. \/ wpc' = wpc
              \/ wpc[p[l]] = "waiting" /\ wpc' = [wpc EXCEPT ![p[l]] = "woken"]
          BY <2>6 DEF Queue, Signal
        <4>2. CASE wpc' = wpc
          BY <4>2
        <4>3. CASE wpc[p[l]] = "waiting" /\ wpc' = [wpc EXCEPT ![p[l]] = "woken"]
          BY <4>3 DEF TypeOK
        <4> QED BY <4>1, <4>2, <4>3
      <3> QED BY <3>1, <3>2, HandMoves DEF Making, TypeOK
    <2>7. CASE ReleaseRouted(l)
      BY <2>7, HandMoves DEF ReleaseRouted, HandInv, HandOK, Making, TypeOK
    <2> QED BY <1>5, <2>1, <2>2, <2>3, <2>4, <2>5, <2>6, <2>7 DEF RouteStep
  <1>6. ASSUME NEW l \in Listeners, EndpointEnds(l)
        PROVE  HandInv'
    BY <1>6, HandMoves DEF EndpointEnds, HandInv, HandOK, Making, TypeOK
  <1>7. ASSUME NEW l \in Listeners, NEW q \in Requests, Acquire(l, q)
        PROVE  HandInv'
    BY <1>7, HandMoves DEF Acquire, HandInv, HandOK, Making, TypeOK
  <1>8. ASSUME NEW w \in Workers, WorkerStep(w)
        PROVE  HandInv'
    <2>1. CASE ThreadStart(w)
      BY <2>1, HandMade DEF ThreadStart, TypeOK
    <2>2. CASE TakePending(w)
      BY <2>2, HandMade DEF TakePending, TypeOK
    <2>3. CASE Wait(w)
      BY <2>3, HandMade DEF Wait, TypeOK
    <2>4. CASE CompleteLast(w)
      BY <2>4, HandMade DEF CompleteLast, TypeOK
    <2>5. CASE CompleteAndTake(w)
      BY <2>5, HandMade DEF CompleteAndTake, TypeOK
    <2>6. CASE WakeTake(w)
      BY <2>6, HandMade DEF WakeTake, TypeOK
    <2>7. CASE WakeTerminate(w)
      BY <2>7, HandMade DEF WakeTerminate, TypeOK
    <2>8. CASE Process(w)
      BY <2>8, HandMade DEF Process, TypeOK
    <2>9. CASE ProcessWild(w)
      BY <2>9, HandMade DEF ProcessWild, TypeOK
    <2>10. CASE Exit(w)
      BY <2>10, HandMade DEF Exit, TypeOK
    <2> QED BY <1>8, <2>1, <2>2, <2>3, <2>4, <2>5, <2>6, <2>7, <2>8, <2>9, <2>10 DEF WorkerStep
  <1>9. ASSUME NEW w \in Workers, SpuriousWakeup(w)
        PROVE  HandInv'
    BY <1>9, HandMade DEF SpuriousWakeup, TypeOK
  <1>10. CASE Rest
    BY <1>10, HandFrame DEF Rest, vars
  <1> QED
    BY <1>1, <1>2, <1>3, <1>4, <1>5, <1>6, <1>7, <1>8, <1>9, <1>10 DEF Next, MainStep
-----------------------------------------------------------------------------
(* The variables that WorkerInv is about.                                  *)
LEMMA WorkerFrame ==
    ASSUME WorkerInv, UNCHANGED <<wpc, state, requests, current>>
    PROVE  WorkerInv'
  BY DEF WorkerInv, WorkerOK, ServesHead

(* A step of one worker leaves the others as they are. *)
OthersAlone(w) ==
    \A v \in Workers \ {w} :
        /\ wpc'[v] = wpc[v] /\ state'[v] = state[v]
        /\ requests'[v] = requests[v] /\ current'[v] = current[v]

(* A step that is right for its worker and leaves the others alone.        *)
LEMMA OneWorker ==
    ASSUME WorkerInv, NEW w \in Workers, WorkerOK(w)', OthersAlone(w)
    PROVE  WorkerInv'
  <1>1. ASSUME NEW v \in Workers, v # w
        PROVE  WorkerOK(v)'
    <2>1. WorkerOK(v)
      BY DEF WorkerInv
    <2> QED BY <1>1, <2>1 DEF OthersAlone, WorkerOK, ServesHead
  <1> QED BY <1>1 DEF WorkerInv

(* Each step keeps state, current and the queue of a worker in line with   *)
(* how far its thread has come in worker_request_.                         *)
LEMMA WorkerPreserved ==
    ASSUME IInv, Next
    PROVE  WorkerInv'
  <1> USE HostsAssumption, NamesAssumption DEF IInv, Threads
  <1>1. CASE AddHost
    BY <1>1, WorkerFrame DEF AddHost
  <1>2. CASE LaunchWorker
    BY <1>2, WorkerFrame DEF LaunchWorker
  <1>3. CASE StartListeners
    BY <1>3, WorkerFrame DEF StartListeners
  <1>4. ASSUME NEW t \in Threads, CreateStep(t)
        PROVE  WorkerInv'
    <2>1. CASE Populate(t)
      BY <2>1, WorkerFrame DEF Populate
    <2>2. CASE Bump(t)
      BY <2>2, WorkerFrame DEF Bump
    <2>3. ASSUME NEW w \in Workers, Obtain(t, w)
          PROVE  WorkerInv'
      <3>1. WorkerOK(w)
        BY DEF WorkerInv
      <3>2. WorkerOK(w)'
        BY <2>3, <3>1 DEF Obtain, WorkerOK, ServesHead, TypeOK
      <3>3. OthersAlone(w)
        BY <2>3 DEF Obtain, OthersAlone, TypeOK
      <3> QED BY <3>2, <3>3, OneWorker
    <2>4. CASE ObtainFails(t)
      BY <2>4, WorkerFrame DEF ObtainFails
    <2>5. CASE Attach(t)
      BY <2>5, WorkerFrame DEF Attach
    <2>6. CASE AttachFails(t)
      <3>0. PICK w \in Workers : p[t] = w /\ wpc[w] = "made"
        BY <2>6 DEF AttachFails, HandInv, HandOK, Making
      <3>1. WorkerOK(w)
        BY DEF WorkerInv
      <3>2. WorkerOK(w)'
        BY <2>6, <3>0, <3>1 DEF AttachFails, WorkerOK, ServesHead, TypeOK
      <3>3. OthersAlone(w)
        BY <2>6, <3>0 DEF AttachFails, OthersAlone, TypeOK
      <3> QED BY <3>2, <3>3, OneWorker
    <2>7. CASE Spawn(t)
      <3>0. PICK w \in Workers : p[t] = w /\ wpc[w] = "made"
        BY <2>7 DEF Spawn, HandInv, HandOK, Making
      <3>1. WorkerOK(w)
        BY DEF WorkerInv
      <3>2. WorkerOK(w)'
        BY <2>7, <3>0, <3>1 DEF Spawn, WorkerOK, ServesHead, TypeOK
      <3>3. OthersAlone(w)
        BY <2>7, <3>0 DEF Spawn, OthersAlone, TypeOK
      <3> QED BY <3>2, <3>3, OneWorker
    <2> QED BY <1>4, <2>1, <2>2, <2>3, <2>4, <2>5, <2>6, <2>7 DEF CreateStep
  <1>5. ASSUME NEW l \in Listeners, RouteStep(l)
        PROVE  WorkerInv'
    <2>1. CASE Locate(l)
      BY <2>1, WorkerFrame DEF Locate
    <2>2. CASE ScanCompare(l)
      BY <2>2, WorkerFrame DEF ScanCompare
    <2>3. CASE ScanTake(l)
      BY <2>3, WorkerFrame DEF ScanTake
    <2>4. CASE Decide(l)
      BY <2>4, WorkerFrame DEF Decide
    <2>5. CASE CreateStep(l)
      BY <1>4, <2>5
    <2>6. CASE Queue(l)
      <3>1. PICK w \in Workers : p[l] = w
        BY <2>6 DEF Queue, HandInv, HandOK, Making
      <3>0. lreq[l] \in Requests
        <4>1. lreq[l] # NULL
          BY <2>6 DEF Queue, RequestInv, ListenerOK, Idle
        <4> QED BY <4>1 DEF TypeOK
      <3>2. CASE QueueIsFull(p[l])
        BY <2>6, <3>2, WorkerFrame DEF Queue
      <3>3. CASE ~QueueIsFull(p[l])
        <4>1. WorkerOK(w)
          BY <3>1 DEF WorkerInv
        <4>2. /\ requests'[w] = Append(requests[w], lreq[l])
              /\ Len(requests'[w]) <= QueueAlloc
              /\ current'[w] = current[w] /\ state'[w] = state[w]
          BY <2>6, <3>0, <3>1, <3>3, QueueAllocAssumption DEF Queue, QueueIsFull, requestcount, TypeOK
        <4>3. wpc'[w] = IF wpc[w] = "waiting" THEN "woken" ELSE wpc[w]
          BY <2>6, <3>1, <3>3 DEF Queue, Signal, TypeOK
        <4>4. ServesHead(w) => ServesHead(w)'
          <5> SUFFICES ASSUME ServesHead(w) PROVE ServesHead(w)'
            OBVIOUS
          <5>1. Len(requests[w]) > 0 /\ requests[w] \in Seq(Requests)
            BY DEF ServesHead, TypeOK
          <5>2. Head(requests'[w]) = Head(requests[w]) /\ requests'[w] # <<>>
            BY <3>0, <4>2, <5>1
          <5> QED BY <4>2, <5>2 DEF ServesHead
        <4>5. WorkerOK(w)'
          BY <4>1, <4>2, <4>3, <4>4 DEF WorkerOK
        <4>6. OthersAlone(w)
          BY <2>6, <3>1, <3>3 DEF Queue, Signal, OthersAlone, TypeOK
        <4> QED BY <3>1, <4>5, <4>6, OneWorker
      <3> QED BY <3>2, <3>3
    <2>7. CASE ReleaseRouted(l)
      BY <2>7, WorkerFrame DEF ReleaseRouted
    <2> QED BY <1>5, <2>1, <2>2, <2>3, <2>4, <2>5, <2>6, <2>7 DEF RouteStep
  <1>6. ASSUME NEW l \in Listeners, EndpointEnds(l)
        PROVE  WorkerInv'
    BY <1>6, WorkerFrame DEF EndpointEnds
  <1>7. ASSUME NEW l \in Listeners, NEW q \in Requests, Acquire(l, q)
        PROVE  WorkerInv'
    BY <1>7, WorkerFrame DEF Acquire
  <1>8. ASSUME NEW w \in Workers, WorkerStep(w)
        PROVE  WorkerInv'
    <2>1. CASE ThreadStart(w)
      <3>1. WorkerOK(w)
        BY DEF WorkerInv
      <3>2. WorkerOK(w)'
        BY <2>1, <3>1 DEF ThreadStart, WorkerOK, ServesHead, TypeOK
      <3>3. OthersAlone(w)
        BY <2>1 DEF ThreadStart, OthersAlone, TypeOK
      <3> QED BY <3>2, <3>3, OneWorker
    <2>2. CASE TakePending(w)
      <3>1. WorkerOK(w)
        BY DEF WorkerInv
      <3>2. WorkerOK(w)'
        BY <2>2, <3>1 DEF TakePending, NextRequest, WasServing, WorkerOK, ServesHead, TypeOK
      <3>3. OthersAlone(w)
        BY <2>2 DEF TakePending, NextRequest, WasServing, OthersAlone, TypeOK
      <3> QED BY <3>2, <3>3, OneWorker
    <2>3. CASE Wait(w)
      <3>1. WorkerOK(w)
        BY DEF WorkerInv
      <3>2. WorkerOK(w)'
        BY <2>3, <3>1 DEF Wait, WasServing, WorkerOK, ServesHead, TypeOK
      <3>3. OthersAlone(w)
        BY <2>3 DEF Wait, WasServing, OthersAlone, TypeOK
      <3> QED BY <3>2, <3>3, OneWorker
    <2>4. CASE CompleteLast(w)
      <3>1. Len(requests[w]) \in 1 .. QueueAlloc
        BY <2>4, QueueAllocAssumption DEF CompleteLast, WorkerInv, WorkerOK, requestcount, TypeOK
      <3>2. requests'[w] = Tail(requests[w])
        BY <2>4 DEF CompleteLast, TypeOK
      <3>3. Len(requests'[w]) <= QueueAlloc /\ requests'[w] = <<>>
        <4>1. requests[w] \in Seq(Requests) /\ Len(requests[w]) > 0
          BY <2>4, <3>1 DEF CompleteLast, requestcount, TypeOK
        <4>2. Len(Tail(requests[w])) = Len(requests[w]) - 1
          BY <4>1, TailShorter
        <4>3. Len(Tail(requests[w])) <= QueueAlloc
          BY <3>1, <4>1, <4>2, QueueAllocAssumption
        <4>4. Tail(requests[w]) = <<>>
          <5>1. Len(requests[w]) = 1
            BY <2>4 DEF CompleteLast, requestcount
          <5> QED BY <4>1, <5>1, TailShorter
        <4> QED BY <3>2, <4>4, <4>3, Zenon
      <3>4. wpc'[w] = "waiting" /\ current'[w] = NULL
        BY <2>4 DEF CompleteLast, TypeOK
      <3>5. WorkerOK(w)'
        BY <3>3, <3>4 DEF WorkerOK
      <3>6. OthersAlone(w)
        BY <2>4 DEF CompleteLast, OthersAlone, TypeOK
      <3> QED BY <3>5, <3>6, OneWorker
    <2>5. CASE CompleteAndTake(w)
      <3>1. Len(requests[w]) \in 1 .. QueueAlloc
        BY <2>5, QueueAllocAssumption DEF CompleteAndTake, WorkerInv, WorkerOK, requestcount, TypeOK
      <3>2. requests'[w] = Tail(requests[w])
        BY <2>5 DEF CompleteAndTake, TypeOK
      <3>3. Len(requests'[w]) <= QueueAlloc
        <4>1. requests[w] \in Seq(Requests) /\ Len(requests[w]) > 0
          BY <2>5, <3>1 DEF CompleteAndTake, requestcount, TypeOK
        <4>2. Len(Tail(requests[w])) = Len(requests[w]) - 1
          BY <4>1, TailShorter
        <4>3. Len(Tail(requests[w])) <= QueueAlloc
          BY <3>1, <4>1, <4>2, QueueAllocAssumption
        <4> QED BY <3>2, <4>3, Zenon
      <3>4. wpc'[w] = "process" /\ state'[w] = "RUNNING" /\ current'[w] = Wild
        BY <2>5 DEF CompleteAndTake, TypeOK
      <3>5. WorkerOK(w)'
        BY <3>3, <3>4 DEF WorkerOK
      <3>6. OthersAlone(w)
        BY <2>5 DEF CompleteAndTake, OthersAlone, TypeOK
      <3> QED BY <3>5, <3>6, OneWorker
    <2>6. CASE WakeTake(w)
      <3>1. WorkerOK(w)
        BY DEF WorkerInv
      <3>2. WorkerOK(w)'
        BY <2>6, <3>1 DEF WakeTake, NextRequest, WorkerOK, ServesHead, TypeOK
      <3>3. OthersAlone(w)
        BY <2>6 DEF WakeTake, NextRequest, OthersAlone, TypeOK
      <3> QED BY <3>2, <3>3, OneWorker
    <2>7. CASE WakeTerminate(w)
      <3>1. WorkerOK(w)
        BY DEF WorkerInv
      <3>2. WorkerOK(w)'
        BY <2>7, <3>1 DEF WakeTerminate, WorkerOK, ServesHead, TypeOK
      <3>3. OthersAlone(w)
        BY <2>7 DEF WakeTerminate, OthersAlone, TypeOK
      <3> QED BY <3>2, <3>3, OneWorker
    <2>8. CASE Process(w)
      <3>1. WorkerOK(w)
        BY DEF WorkerInv
      <3>2. WorkerOK(w)'
        BY <2>8, <3>1 DEF Process, WorkerOK, ServesHead, TypeOK
      <3>3. OthersAlone(w)
        BY <2>8 DEF Process, OthersAlone, TypeOK
      <3> QED BY <3>2, <3>3, OneWorker
    <2>9. CASE ProcessWild(w)
      BY <2>9, WorkerFrame DEF ProcessWild
    <2>10. CASE Exit(w)
      <3>1. WorkerOK(w)
        BY DEF WorkerInv
      <3>2. WorkerOK(w)'
        BY <2>10, <3>1 DEF Exit, WorkerOK, ServesHead, TypeOK
      <3>3. OthersAlone(w)
        BY <2>10 DEF Exit, OthersAlone, TypeOK
      <3> QED BY <3>2, <3>3, OneWorker
    <2> QED BY <1>8, <2>1, <2>2, <2>3, <2>4, <2>5, <2>6, <2>7, <2>8, <2>9, <2>10 DEF WorkerStep
  <1>9. ASSUME NEW w \in Workers, SpuriousWakeup(w)
        PROVE  WorkerInv'
    <2>1. WorkerOK(w)
      BY DEF WorkerInv
    <2>2. WorkerOK(w)'
      BY <1>9, <2>1 DEF SpuriousWakeup, WorkerOK, ServesHead, TypeOK
    <2>3. OthersAlone(w)
      BY <1>9 DEF SpuriousWakeup, OthersAlone, TypeOK
    <2> QED BY <2>2, <2>3, OneWorker
  <1>10. CASE Rest
    BY <1>10, WorkerFrame DEF Rest, vars
  <1> QED
    BY <1>1, <1>2, <1>3, <1>4, <1>5, <1>6, <1>7, <1>8, <1>9, <1>10 DEF Next, MainStep
-----------------------------------------------------------------------------
(* The variables that RequestInv is about.                                 *)
LEMMA RequestFrame ==
    ASSUME RequestInv, UNCHANGED <<pc, lreq, requests, fresh>>
    PROVE  RequestInv'
  BY DEF RequestInv, ListenerOK, Queued, AllDistinct

(* A step within route_request keeps requests where they are.              *)
LEMMA RequestMoves ==
    ASSUME RequestInv, UNCHANGED <<lreq, requests, fresh>>,
           \A l \in Listeners : (pc'[l] \in Idle <=> pc[l] \in Idle) /\ (pc[l] = "release" => pc'[l] = "release")
    PROVE  RequestInv'
  BY DEF RequestInv, ListenerOK, Queued, AllDistinct

(* What queueing a request does to the requests in queues.                 *)
LEMMA Enqueued ==
    ASSUME NEW w \in Workers, NEW q \in Requests, requests \in [Workers -> Seq(Requests)],
           requests' = [requests EXCEPT ![w] = Append(@, q)]
    PROVE  /\ \A r \in Requests : Queued(r)' <=> Queued(r) \/ r = q
           /\ AllDistinct /\ ~Queued(q) => AllDistinct'
  <1> DEFINE n == Len(requests[w]) + 1
  <1>1. requests[w] \in Seq(Requests) /\ requests'[w] = Append(requests[w], q)
    OBVIOUS
  <1>2. /\ n \in Nat /\ n > 0
        /\ Len(requests'[w]) = n
        /\ \A i \in 1 .. n : i # n => i \in 1 .. Len(requests[w]) /\ requests'[w][i] = requests[w][i]
        /\ requests'[w][n] = q
    BY <1>1
  <1>3. \A v \in Workers \ {w} : requests'[v] = requests[v]
    OBVIOUS
  <1>4. \A i \in 1 .. Len(requests[w]) : i \in 1 .. n /\ i # n
    BY <1>1
  <1> HIDE DEF n
  <1>5. ASSUME NEW r \in Requests
        PROVE  Queued(r)' <=> Queued(r) \/ r = q
    <2>1. ASSUME Queued(r)' PROVE Queued(r) \/ r = q
      BY <1>2, <1>3, <2>1 DEF Queued
    <2>2. ASSUME Queued(r) PROVE Queued(r)'
      BY <1>2, <1>3, <1>4, <2>2 DEF Queued
    <2>3. n \in 1 .. n
      BY <1>2
    <2>4. r = q => Queued(r)'
      BY <1>2, <2>3 DEF Queued
    <2> QED BY <2>1, <2>2, <2>4
  <1>6. ASSUME AllDistinct, ~Queued(q)
        PROVE  AllDistinct'
    <2> SUFFICES ASSUME NEW u \in Workers, NEW v \in Workers,
                        NEW i \in 1 .. Len(requests'[u]), NEW j \in 1 .. Len(requests'[v]),
                        requests'[u][i] = requests'[v][j]
                 PROVE  u = v /\ i = j
      BY DEF AllDistinct
    <2>1. (u = w /\ i = n) \/ (i \in 1 .. Len(requests[u]) /\ requests'[u][i] = requests[u][i])
      BY <1>2, <1>3
    <2>2. (v = w /\ j = n) \/ (j \in 1 .. Len(requests[v]) /\ requests'[v][j] = requests[v][j])
      BY <1>2, <1>3
    <2>3. \A x \in Workers : \A k \in 1 .. Len(requests[x]) : requests[x][k] # q
      BY <1>6 DEF Queued
    <2> QED BY <1>2, <1>6, <2>1, <2>2, <2>3 DEF AllDistinct
  <1> QED BY <1>5, <1>6

(* Taking the head off a queue keeps the others in one place each.         *)
LEMMA RequestGone ==
    ASSUME RequestInv, requests \in [Workers -> Seq(Requests)], NEW w \in Workers, Len(requests[w]) > 0,
           requests' = [requests EXCEPT ![w] = Tail(@)], UNCHANGED <<pc, lreq, fresh>>
    PROVE  RequestInv'
  <1>1. requests[w] \in Seq(Requests) /\ requests'[w] = Tail(requests[w])
    OBVIOUS
  <1>2. /\ Len(requests'[w]) = Len(requests[w]) - 1
        /\ \A i \in 1 .. Len(requests'[w]) : requests'[w][i] = requests[w][i + 1]
    BY <1>1, TailShorter
  <1>3. \A i \in 1 .. Len(requests'[w]) : i + 1 \in 1 .. Len(requests[w])
    BY <1>1, <1>2
  <1>4. \A v \in Workers \ {w} : requests'[v] = requests[v]
    OBVIOUS
  <1>5. ASSUME NEW r, Queued(r)'
        PROVE  Queued(r)
    BY <1>2, <1>3, <1>4, <1>5 DEF Queued
  <1>6. AllDistinct'
    <2> SUFFICES ASSUME NEW u \in Workers, NEW v \in Workers,
                        NEW i \in 1 .. Len(requests'[u]), NEW j \in 1 .. Len(requests'[v]),
                        requests'[u][i] = requests'[v][j]
                 PROVE  u = v /\ i = j
      BY DEF AllDistinct
    <2>1. CASE u = w /\ v = w
      <3>1. requests[w][i + 1] = requests[w][j + 1]
        BY <1>2, <2>1
      <3>2. i + 1 = j + 1
        BY <1>3, <2>1, <3>1 DEF RequestInv, AllDistinct
      <3> QED BY <2>1, <3>2
    <2>2. CASE u # w /\ v # w
      BY <1>4, <2>2 DEF RequestInv, AllDistinct
    <2>3. CASE u = w /\ v # w
      BY <1>2, <1>3, <1>4, <2>3 DEF RequestInv, AllDistinct
    <2>4. CASE u # w /\ v = w
      BY <1>2, <1>3, <1>4, <2>4 DEF RequestInv, AllDistinct
    <2> QED BY <2>1, <2>2, <2>3, <2>4
  <1> QED BY <1>5, <1>6 DEF RequestInv, ListenerOK

(* Each step keeps a request in one listener's hands or one queue.         *)
LEMMA RequestPreserved ==
    ASSUME IInv, Next
    PROVE  RequestInv'
  <1> USE HostsAssumption, NamesAssumption DEF IInv, Threads
  <1>1. CASE AddHost
    BY <1>1, RequestMoves DEF AddHost, Idle, CtrlInv, CreatePCs, TypeOK
  <1>2. CASE LaunchWorker
    BY <1>2, RequestMoves DEF LaunchWorker, Idle, CtrlInv, CreatePCs, TypeOK
  <1>3. CASE StartListeners
    <2>1. /\ UNCHANGED <<lreq, requests, fresh>>
          /\ \A l \in Listeners : pc'[l] = pc[l] \/ (HostOf[l] = Head(todo) /\ pc'[l] = "process")
      BY <1>3 DEF StartListeners, TypeOK
    <2>2. \A l \in Listeners : HostOf[l] = Head(todo) => pc[l] = "none"
      <3>1. todo # <<>>
        BY <1>3 DEF StartListeners, CtrlInv
      <3>2. 1 \in 1 .. Len(todo) /\ Head(todo) = todo[1]
        BY <3>1 DEF TypeOK
      <3> QED BY <3>2 DEF StartInv
    <2> QED BY <2>1, <2>2, RequestMoves DEF Idle
  <1>4. ASSUME NEW t \in Threads, CreateStep(t)
        PROVE  RequestInv'
    <2>1. CASE Populate(t)
      BY <2>1, RequestMoves DEF Populate, Idle, CtrlInv, CreatePCs, TypeOK
    <2>2. CASE Bump(t)
      BY <2>2, RequestMoves DEF Bump, Idle, CtrlInv, CreatePCs, TypeOK
    <2>3. ASSUME NEW w \in Workers, Obtain(t, w)
          PROVE  RequestInv'
      BY <2>3, RequestMoves DEF Obtain, Idle, CtrlInv, CreatePCs, TypeOK
    <2>4. CASE ObtainFails(t)
      BY <2>4, RequestMoves DEF ObtainFails, NotCreated, Idle, CtrlInv, CreatePCs, TypeOK
    <2>5. CASE Attach(t)
      BY <2>5, RequestMoves DEF Attach, Idle, CtrlInv, CreatePCs, TypeOK
    <2>6. CASE AttachFails(t)
      BY <2>6, RequestMoves DEF AttachFails, NotCreated, Idle, CtrlInv, CreatePCs, TypeOK
    <2>7. CASE Spawn(t)
      BY <2>7, RequestMoves DEF Spawn, Created, Idle, CtrlInv, CreatePCs, TypeOK
    <2> QED BY <1>4, <2>1, <2>2, <2>3, <2>4, <2>5, <2>6, <2>7 DEF CreateStep
  <1>5. ASSUME NEW l \in Listeners, RouteStep(l)
        PROVE  RequestInv'
    <2>1. CASE Locate(l)
      BY <2>1, RequestMoves DEF Locate, Idle, CtrlInv, CreatePCs, TypeOK
    <2>2. CASE ScanCompare(l)
      <3>1. /\ UNCHANGED <<lreq, requests, fresh>>
            /\ pc[l] = "scan"
        BY <2>2 DEF ScanCompare
      <3>2. \E label \in {"scan", "take"} : pc' = [pc EXCEPT ![l] = label]
        BY <2>2 DEF ScanCompare, TypeOK
      <3> QED BY <3>1, <3>2, RequestMoves DEF Idle, TypeOK
    <2>3. CASE ScanTake(l)
      BY <2>3, RequestMoves DEF ScanTake, Idle, CtrlInv, CreatePCs, TypeOK
    <2>4. CASE Decide(l)
      <3>1. /\ UNCHANGED <<lreq, requests, fresh>>
            /\ pc[l] = "scan"
        BY <2>4 DEF Decide
      <3>2. \E label \in {"populate", "queue"} : pc' = [pc EXCEPT ![l] = label]
        BY <2>4 DEF Decide, TypeOK
      <3> QED BY <3>1, <3>2, RequestMoves DEF Idle, TypeOK
    <2>5. CASE CreateStep(l)
      BY <1>4, <2>5
    <2>6. CASE Queue(l)
      <3>1. CASE QueueIsFull(p[l])
        BY <2>6, <3>1, RequestMoves DEF Queue, Idle, TypeOK
      <3>2. CASE ~QueueIsFull(p[l])
        <4>1. PICK w \in Workers : p[l] = w
          BY <2>6 DEF Queue, HandInv, HandOK
        <4>2. PICK q \in Requests : lreq[l] = q
          <5>1. lreq[l] # NULL
            BY <2>6 DEF Queue, RequestInv, ListenerOK, Idle
          <5> QED BY <5>1 DEF TypeOK
        <4>3. /\ pc[l] = "queue" /\ pc' = [pc EXCEPT ![l] = "release"]
              /\ requests' = [requests EXCEPT ![w] = Append(@, q)]
              /\ UNCHANGED <<lreq, fresh>>
          BY <2>6, <3>2, <4>1, <4>2 DEF Queue
        <4>4. ~Queued(q) /\ q \notin fresh
          BY <4>2, <4>3 DEF RequestInv, ListenerOK
        <4>5. \A r \in Requests : Queued(r)' <=> Queued(r) \/ r = q
          BY <4>3, Enqueued DEF TypeOK
        <4>6. AllDistinct'
          BY <4>3, <4>4, Enqueued DEF RequestInv, TypeOK
        <4>7. pc'[l] = "release" /\ \A m \in Listeners \ {l} : pc'[m] = pc[m] /\ lreq[m] # q
          BY <4>2, <4>3 DEF RequestInv, TypeOK
        <4>8. ASSUME NEW m \in Listeners
              PROVE  ListenerOK(m)'
          <5>1. CASE m = l
            BY <4>2, <4>3, <4>4, <4>7, <5>1 DEF ListenerOK, Idle
          <5>2. CASE m # l
            BY <4>3, <4>5, <4>7, <5>2 DEF RequestInv, ListenerOK, TypeOK
          <5> QED BY <5>1, <5>2
        <4>9. \A r \in fresh' : ~Queued(r)'
          BY <4>3, <4>4, <4>5 DEF RequestInv, TypeOK
        <4> QED BY <4>3, <4>6, <4>8, <4>9 DEF RequestInv
      <3> QED BY <3>1, <3>2
    <2>7. CASE ReleaseRouted(l)
      <3>1. /\ pc' = [pc EXCEPT ![l] = "process"] /\ lreq' = [lreq EXCEPT ![l] = NULL]
            /\ UNCHANGED <<fresh, requests>>
        BY <2>7 DEF ReleaseRouted
      <3>2. /\ pc'[l] = "process" /\ lreq'[l] = NULL
            /\ \A m \in Listeners \ {l} : pc'[m] = pc[m] /\ lreq'[m] = lreq[m]
        BY <3>1 DEF TypeOK
      <3>3. \A r \in Requests : Queued(r)' <=> Queued(r)
        BY <3>1 DEF Queued
      <3>4. \A m \in Listeners : ListenerOK(m)'
        BY <3>1, <3>2, <3>3 DEF RequestInv, ListenerOK, Idle, TypeOK
      <3>5. \A m, n \in Listeners : lreq'[m] = lreq'[n] /\ lreq'[m] # NULL => m = n
        BY <3>2 DEF RequestInv
      <3>6. \A r \in fresh' : ~Queued(r)'
        BY <3>1, <3>3 DEF RequestInv, TypeOK
      <3>7. AllDistinct'
        BY <3>1 DEF RequestInv, AllDistinct
      <3> QED BY <3>4, <3>5, <3>6, <3>7 DEF RequestInv
    <2> QED BY <1>5, <2>1, <2>2, <2>3, <2>4, <2>5, <2>6, <2>7 DEF RouteStep
  <1>6. ASSUME NEW l \in Listeners, EndpointEnds(l)
        PROVE  RequestInv'
    BY <1>6, RequestMoves DEF EndpointEnds, Idle, CtrlInv, CreatePCs, TypeOK
  <1>7. ASSUME NEW l \in Listeners, NEW q \in Requests, Acquire(l, q)
        PROVE  RequestInv'
    <2>1. /\ pc[l] = "process" /\ q \in fresh
          /\ pc' = [pc EXCEPT ![l] = "locate"] /\ lreq' = [lreq EXCEPT ![l] = q]
          /\ fresh' = fresh \ {q} /\ requests' = requests
      BY <1>7 DEF Acquire
    <2>2. /\ pc'[l] = "locate" /\ lreq'[l] = q
          /\ \A m \in Listeners \ {l} : pc'[m] = pc[m] /\ lreq'[m] = lreq[m]
      BY <2>1 DEF TypeOK
    <2>3. \A r \in Requests : Queued(r)' <=> Queued(r)
      BY <2>1 DEF Queued
    <2>4. ~Queued(q)
      BY <2>1 DEF RequestInv
    <2>5. \A m \in Listeners : lreq[m] # q
      BY <2>1 DEF RequestInv, ListenerOK
    <2>6. ASSUME NEW m \in Listeners
          PROVE  ListenerOK(m)'
      <3>1. CASE m = l
        BY <2>1, <2>2, <2>3, <2>4, <3>1 DEF ListenerOK, Idle
      <3>2. CASE m # l
        BY <2>1, <2>2, <2>3, <3>2 DEF RequestInv, ListenerOK, TypeOK
      <3> QED BY <3>1, <3>2
    <2>7. \A m, n \in Listeners : lreq'[m] = lreq'[n] /\ lreq'[m] # NULL => m = n
      BY <2>2, <2>5 DEF RequestInv
    <2>8. \A r \in fresh' : ~Queued(r)'
      BY <2>1, <2>3 DEF RequestInv, TypeOK
    <2>9. AllDistinct'
      BY <2>1 DEF RequestInv, AllDistinct
    <2> QED BY <2>6, <2>7, <2>8, <2>9 DEF RequestInv
  <1>8. ASSUME NEW w \in Workers, WorkerStep(w)
        PROVE  RequestInv'
    <2>1. CASE ThreadStart(w)
      BY <2>1, RequestFrame DEF ThreadStart
    <2>2. CASE TakePending(w)
      BY <2>2, RequestFrame DEF TakePending
    <2>3. CASE Wait(w)
      BY <2>3, RequestFrame DEF Wait
    <2>4. CASE CompleteLast(w)
      <3>1. requests' = [requests EXCEPT ![w] = Tail(@)] /\ Len(requests[w]) > 0
        BY <2>4 DEF CompleteLast, requestcount, TypeOK
      <3>2. UNCHANGED <<pc, lreq, fresh>>
        BY <2>4 DEF CompleteLast
      <3> QED BY <3>1, <3>2, RequestGone DEF TypeOK
    <2>5. CASE CompleteAndTake(w)
      <3>1. requests' = [requests EXCEPT ![w] = Tail(@)] /\ Len(requests[w]) > 0
        BY <2>5 DEF CompleteAndTake, requestcount, TypeOK
      <3>2. UNCHANGED <<pc, lreq, fresh>>
        BY <2>5 DEF CompleteAndTake
      <3> QED BY <3>1, <3>2, RequestGone DEF TypeOK
    <2>6. CASE WakeTake(w)
      BY <2>6, RequestFrame DEF WakeTake
    <2>7. CASE WakeTerminate(w)
      BY <2>7, RequestFrame DEF WakeTerminate
    <2>8. CASE Process(w)
      BY <2>8, RequestFrame DEF Process
    <2>9. CASE ProcessWild(w)
      BY <2>9, RequestFrame DEF ProcessWild
    <2>10. CASE Exit(w)
      BY <2>10, RequestFrame DEF Exit
    <2> QED BY <1>8, <2>1, <2>2, <2>3, <2>4, <2>5, <2>6, <2>7, <2>8, <2>9, <2>10 DEF WorkerStep
  <1>9. ASSUME NEW w \in Workers, SpuriousWakeup(w)
        PROVE  RequestInv'
    BY <1>9, RequestFrame DEF SpuriousWakeup
  <1>10. CASE Rest
    BY <1>10, RequestFrame DEF Rest, vars
  <1> QED
    BY <1>1, <1>2, <1>3, <1>4, <1>5, <1>6, <1>7, <1>8, <1>9, <1>10 DEF Next, MainStep
-----------------------------------------------------------------------------
(* Nothing changes, nothing is broken.                                     *)
LEMMA VarsFrame ==
    ASSUME IInv, UNCHANGED vars
    PROVE  IInv'
  <1> USE DEF vars
  <1>1. TypeOK'
    BY DEF IInv, TypeOK
  <1>2. CtrlInv' /\ StartInv'
    BY CtrlFrame, StartFrame DEF IInv
  <1>3. HandInv' /\ ListInv'
    BY HandFrame, ListFrame DEF IInv
  <1>4. WorkerInv' /\ RequestInv'
    BY WorkerFrame, RequestFrame DEF IInv
  <1> QED BY <1>1, <1>2, <1>3, <1>4 DEF IInv

(* Whatever the hosts, the limits and the failures, and in whatever order  *)
(* threads run, the invariant holds all the time.                          *)
THEOREM Invariance == Spec => []IInv
  <1>1. Init => IInv
    BY InitIInv
  <1>2. IInv /\ [Next]_vars => IInv'
    <2>1. CASE Next
      BY <2>1, TypePreserved, CtrlPreserved, StartPreserved, HandPreserved, ListPreserved,
         WorkerPreserved, RequestPreserved DEF IInv
    <2>2. CASE UNCHANGED vars
      BY <2>2, VarsFrame
    <2> QED BY <2>1, <2>2
  <1> QED BY <1>1, <1>2, PTL DEF Spec

=============================================================================
