----------------------------- MODULE WorkerPool -----------------------------
(***************************************************************************)
(* The dispatching core of ContainerWare: container hosts, their pools of  *)
(* workers, the endpoint threads that route requests to workers, and the   *)
(* worker threads that serve them (worker.c, worker-thread.c, host.c,      *)
(* route.c, listener-endpoint-thread.c, and the serving loop of            *)
(* containers/info/worker.c).                                              *)
(*                                                                         *)
(* Threads: the main thread creates each configured host, launches its     *)
(* minimum of workers and starts the host's listeners; each listener       *)
(* thread acquires requests, locates or creates a worker and queues the    *)
(* request on it; each worker thread waits for requests and serves them.   *)
(* A step is what a thread does between two points where another thread    *)
(* can observe or change something: the code under a worker's mutex is one *)
(* step, the scan under the read lock reads the slots one by one and       *)
(* without the workers' mutexes.                                           *)
(*                                                                         *)
(* The worker list of a host only ever grows (nothing removes a worker     *)
(* from it), so its used slots are a sequence here; PtrList models the     *)
(* list itself.  Memory is released by refs reaching zero.                 *)
(***************************************************************************)
EXTENDS Integers, Sequences, FiniteSets

CONSTANTS
    Hosts,
    HostOrder,      \* the sequence in which main creates the hosts
    Listeners,
    HostOf,         \* the host each listener routes to (listener->host)
    Workers,        \* bound: the worker structures that may be allocated
    Requests,       \* bound: the requests that may arrive
    MinWorkers,     \* for each host, the "minworkers" setting of its section
    MaxChildren,    \* host->maxchildren
    QueueAlloc,     \* worker->requestalloc
    Faults,         \* which of the failures below may happen
    Main,           \* the main thread
    Wild,           \* a pointer that is no request
    NULL

Threads == Listeners \cup {Main}

(* "noworker"   no memory, or the container's worker() fails, in worker_create *)
(* "nolist"     no memory for a slot of a worker list                          *)
(* "nothread"   pthread_create fails                                           *)
(* "spurious"   pthread_cond_wait returns without a signal                     *)
(* "endpoint"   an endpoint's process() ends or fails, or its acquire() fails  *)
FaultKinds == {"noworker", "nolist", "nothread", "spurious", "endpoint"}

ASSUME HostsAssumption ==
    /\ HostOrder \in Seq(Hosts)
    /\ \A i, j \in 1 .. Len(HostOrder) : HostOrder[i] = HostOrder[j] => i = j
    /\ HostOf \in [Listeners -> Hosts]
ASSUME MinWorkersAssumption == MinWorkers \in [Hosts -> Int]
ASSUME MaxChildrenAssumption == MaxChildren \in Nat \ {0}
ASSUME QueueAllocAssumption == QueueAlloc \in Nat \ {0}
ASSUME FaultsAssumption == Faults \subseteq FaultKinds
ASSUME NamesAssumption ==
    /\ Main \notin Listeners
    /\ Wild \notin Requests
    /\ NULL \notin Requests \cup Workers \cup {Wild}

VARIABLES
    todo,       \* hosts that main has still to create; the head is in progress
    launch,     \* workers that host_set_minworkers has still to launch
    pc,         \* what the main thread and each listener thread does next
    lreq,       \* the request a listener thread holds a reference to
    p,          \* the worker that worker_locate or worker_create has in hand
    nreqs, c,   \* locals of worker_locate
    info,       \* the worker id that worker_populate_info_ has filled in
    list,       \* host->workers
    active,     \* host->active
    workers,    \* the global list of workers
    nextId,     \* worker_next_id
    wid,        \* worker->info.workerid
    state,      \* worker->state
    requests,   \* worker->requests; its length is worker->requestcount
    current,    \* worker->current
    wpc,        \* what each worker's thread does next
    fresh,      \* requests that have not arrived yet
    refs,       \* the reference count of each request
    crashed     \* the process has died of a memory fault

mainVars == <<todo, launch>>
localVars == <<p, nreqs, c, info>>
hostVars == <<list, active, workers>>
workerVars == <<wid, state, requests, current, wpc>>
requestVars == <<fresh, refs>>
vars == <<mainVars, pc, lreq, localVars, hostVars, nextId, workerVars, requestVars, crashed>>

ThreadPCs == {"none", "host", "launch", "process", "locate", "scan", "take",
              "populate", "bump", "obtain", "attach", "spawn", "queue", "release", "ended"}
WorkerPCs == {"none", "made", "freed", "nothread", "start", "request", "waiting",
              "woken", "process", "null", "exited"}
WorkerStates == {"EMPTY", "IDLE", "RUNNING", "ZOMBIE"}

RangeOf(s) == {s[i] : i \in DOMAIN s}

TypeOK ==
    /\ todo \in Seq(Hosts)
    /\ launch \in Nat
    /\ pc \in [Threads -> ThreadPCs]
    /\ lreq \in [Listeners -> Requests \cup {NULL}]
    /\ p \in [Threads -> Workers \cup {NULL}]
    /\ nreqs \in [Listeners -> Nat]
    /\ c \in [Listeners -> Nat]
    /\ info \in [Threads -> Nat]
    /\ list \in [Hosts -> Seq(Workers)]
    /\ active \in [Hosts -> Nat]
    /\ workers \subseteq Workers
    /\ nextId \in Nat
    /\ wid \in [Workers -> Nat]
    /\ state \in [Workers -> WorkerStates]
    /\ requests \in [Workers -> Seq(Requests)]
    /\ current \in [Workers -> Requests \cup {Wild, NULL}]
    /\ wpc \in [Workers -> WorkerPCs]
    /\ fresh \subseteq Requests
    /\ refs \in [Requests -> Int]
    /\ crashed \in BOOLEAN

(* The first worker id (line 28 of worker.c). *)
FirstId == 100

Init ==
    /\ todo = HostOrder
    /\ launch = 0
    /\ pc = [t \in Threads |-> IF t = Main THEN "host" ELSE "none"]
    /\ lreq = [l \in Listeners |-> NULL]
    /\ p = [t \in Threads |-> NULL]
    /\ nreqs = [l \in Listeners |-> 0]
    /\ c = [l \in Listeners |-> 1]
    /\ info = [t \in Threads |-> 0]
    /\ list = [h \in Hosts |-> <<>>]
    /\ active = [h \in Hosts |-> 0]
    /\ workers = {}
    /\ nextId = FirstId
    /\ wid = [w \in Workers |-> 0]
    /\ state = [w \in Workers |-> "EMPTY"]
    /\ requests = [w \in Workers |-> <<>>]
    /\ current = [w \in Workers |-> NULL]
    /\ wpc = [w \in Workers |-> "none"]
    /\ fresh = Requests
    /\ refs = [q \in Requests |-> 0]
    /\ crashed = FALSE

-----------------------------------------------------------------------------
requestcount(w) == Len(requests[w])

(* Faulty variant: main's host is everyone's while there is one. *)
HostOfMain(t) == IF todo # <<>> THEN Head(todo) ELSE HostOf[t]

(* The host a thread works for: main for the one it is creating. *)
Host(t) == IF t = Main THEN Head(todo) ELSE HostOf[t]

(* Faulty variant: worker_locate keeps the read lock over worker_create. *)
ReadersUntilCreated(h) ==
    {l \in Listeners : pc[l] \notin {"none", "process", "locate", "queue", "release", "ended"}
                        /\ HostOf[l] = h}

(* Threads inside the read lock of a host's worker list. *)
Readers(h) == {l \in Listeners : pc[l] \in {"scan", "take"} /\ HostOf[l] = h}

At(t, label) == ~crashed /\ pc[t] = label
Goto(t, label) == pc' = [pc EXCEPT ![t] = label]
WorkerAt(w, label) == ~crashed /\ wpc[w] = label
WorkerGoto(w, label) == wpc' = [wpc EXCEPT ![w] = label]

(* Faulty variant: the reference is not taken. *)
AddrefForgotten(q) == UNCHANGED refs

Addref(q) == refs' = [refs EXCEPT ![q] = @ + 1]
Release(q) == refs' = [refs EXCEPT ![q] = @ - 1]

(* worker_create returns to host_set_minworkers, which ignores the result, *)
(* or through worker_locate to route_request_host, which queues or, on     *)
(* NULL, gives up.                                                         *)
Created(t) == Goto(t, IF t = Main THEN "launch" ELSE "queue")
NotCreated(t) == Goto(t, IF t = Main THEN "launch" ELSE "release")
-----------------------------------------------------------------------------
(* MAIN THREAD                                                             *)

(* iniparser_getint yields an int, host_set_minworkers takes a size_t: a   *)
(* negative setting becomes a huge number and is cut down like one.        *)
ClampMin(min) == IF min < 0 \/ min > MaxChildren THEN MaxChildren ELSE min

(* host_add of the next section, up to the loop of host_set_minworkers. *)
AddHost ==
    /\ At(Main, "host")
    /\ todo # <<>>
    /\ LET h == Head(todo)  min == ClampMin(MinWorkers[h])
       IN launch' = IF min > active[h] THEN min - active[h] ELSE 0
    /\ Goto(Main, "launch")
    /\ UNCHANGED <<todo, lreq, localVars, hostVars, nextId, workerVars, requestVars, crashed>>

(* Faulty variant: the loop runs once too often. *)
LaunchOneMore ==
    /\ At(Main, "launch")
    /\ launch' = launch - 1
    /\ Goto(Main, "populate")
    /\ UNCHANGED <<todo, lreq, localVars, hostVars, nextId, workerVars, requestVars, crashed>>

LaunchWorker ==
    /\ At(Main, "launch")
    /\ launch > 0
    /\ launch' = launch - 1
    /\ Goto(Main, "populate")
    /\ UNCHANGED <<todo, lreq, localVars, hostVars, nextId, workerVars, requestVars, crashed>>

(* listener_add comes after host_add: the listeners of a host start when   *)
(* its workers have been launched.                                         *)
StartListeners ==
    /\ At(Main, "launch")
    /\ launch = 0
    /\ pc' = [t \in Threads |->
                CASE t = Main -> "host"
                  [] t # Main /\ HostOf[t] = Head(todo) -> "process"
                  [] OTHER -> pc[t]]
    /\ todo' = Tail(todo)
    /\ UNCHANGED <<launch, lreq, localVars, hostVars, nextId, workerVars, requestVars, crashed>>

-----------------------------------------------------------------------------
(* LISTENER THREADS                                                        *)

(* process() reports activity and acquire() hands over a new request, with *)
(* one reference that belongs to the listener thread.                      *)
Acquire(l, q) ==
    /\ At(l, "process")
    /\ q \in fresh
    /\ fresh' = fresh \ {q}
    /\ refs' = [refs EXCEPT ![q] = 1]
    /\ lreq' = [lreq EXCEPT ![l] = q]
    /\ Goto(l, "locate")
    /\ UNCHANGED <<mainVars, localVars, hostVars, nextId, workerVars, crashed>>

(* process() returns 0 or -1, or acquire() fails: the thread ends. *)
EndpointEnds(l) ==
    /\ "endpoint" \in Faults
    /\ At(l, "process")
    /\ Goto(l, "ended")
    /\ UNCHANGED <<mainVars, lreq, localVars, hostVars, nextId, workerVars, requestVars, crashed>>

(* worker_locate takes the read lock and looks at the number of workers. *)
Locate(l) ==
    /\ At(l, "locate")
    /\ Goto(l, IF active[HostOf[l]] > 0 THEN "scan" ELSE "populate")
    /\ UNCHANGED <<mainVars, lreq, localVars, hostVars, nextId, workerVars, requestVars, crashed>>

Slot(l) == list[HostOf[l]][c[l]]
MoreSlots(l) == c[l] <= Len(list[HostOf[l]])

(* The scan reads the state and the request count of a worker without its  *)
(* mutex: once to compare, and again to remember the count of the worker   *)
(* it prefers.                                                             *)
Preferred(l, w) ==
    /\ state[w] \in {"IDLE", "RUNNING"}
    /\ p[l] = NULL \/ requestcount(w) < nreqs[l]

ScanCompare(l) ==
    /\ At(l, "scan")
    /\ MoreSlots(l)
    /\ IF Preferred(l, Slot(l))
       THEN Goto(l, "take") /\ UNCHANGED c
       ELSE c' = [c EXCEPT ![l] = @ + 1] /\ UNCHANGED pc
    /\ UNCHANGED <<mainVars, lreq, p, nreqs, info, hostVars, nextId, workerVars, requestVars, crashed>>

ScanTake(l) ==
    /\ At(l, "take")
    /\ p' = [p EXCEPT ![l] = Slot(l)]
    /\ nreqs' = [nreqs EXCEPT ![l] = requestcount(Slot(l))]
    /\ c' = [c EXCEPT ![l] = @ + 1]
    /\ Goto(l, "scan")
    /\ UNCHANGED <<mainVars, lreq, info, hostVars, nextId, workerVars, requestVars, crashed>>

(* Faulty variant: a busy worker is good enough while there is room. *)
MustCreateIfNone(l) == p[l] = NULL

(* No worker will do: none was found, or the best one is busy and the host *)
(* may still have one more.                                                *)
MustCreate(l) == p[l] = NULL \/ (nreqs[l] > 0 /\ active[HostOf[l]] < MaxChildren)

(* The end of the scan; the read lock is released. *)
Decide(l) ==
    /\ At(l, "scan")
    /\ ~MoreSlots(l)
    /\ IF MustCreate(l)
       THEN Goto(l, "populate") /\ p' = [p EXCEPT ![l] = NULL]
       ELSE Goto(l, "queue") /\ UNCHANGED p
    /\ nreqs' = [nreqs EXCEPT ![l] = 0]
    /\ c' = [c EXCEPT ![l] = 1]
    /\ UNCHANGED <<mainVars, lreq, info, hostVars, nextId, workerVars, requestVars, crashed>>

(* Faulty variant: the test of the queue's room is off by one. *)
QueueIsFullLate(w) == requestcount(w) > QueueAlloc

QueueIsFull(w) == requestcount(w) + 1 > QueueAlloc

(* Faulty variant: nobody is signalled. *)
SignalNobody(w) == UNCHANGED wpc

(* The signal wakes the worker's thread if that is waiting, and is lost    *)
(* otherwise.                                                              *)
Signal(w) == IF wpc[w] = "waiting" THEN WorkerGoto(w, "woken") ELSE UNCHANGED wpc

(* worker_queue_request, under the mutex of the worker. *)
Queue(l) ==
    /\ At(l, "queue")
    /\ IF QueueIsFull(p[l])
       THEN UNCHANGED <<refs, requests, wpc>>
       ELSE /\ Addref(lreq[l])
            /\ requests' = [requests EXCEPT ![p[l]] = Append(@, lreq[l])]
            /\ Signal(p[l])
    /\ p' = [p EXCEPT ![l] = NULL]
    /\ Goto(l, "release")
    /\ UNCHANGED <<mainVars, lreq, nreqs, c, info, hostVars, nextId, wid, state, current, fresh, crashed>>

(* The listener thread drops its reference, whatever routing returned. *)
ReleaseRouted(l) ==
    /\ At(l, "release")
    /\ Release(lreq[l])
    /\ lreq' = [lreq EXCEPT ![l] = NULL]
    /\ Goto(l, "process")
    /\ UNCHANGED <<mainVars, localVars, hostVars, nextId, workerVars, fresh, crashed>>

-----------------------------------------------------------------------------
(* CREATING A WORKER: worker_create, on the main or a listener thread      *)

(* worker_populate_info_ copies worker_next_id and increments it.  No lock *)
(* guards the variable: the increment works on the value just read or on a *)
(* newer one, as the compiler chose.                                       *)
Populate(t) ==
    /\ At(t, "populate")
    /\ info' = [info EXCEPT ![t] = nextId]
    /\ Goto(t, "bump")
    /\ UNCHANGED <<mainVars, lreq, p, nreqs, c, hostVars, nextId, workerVars, requestVars, crashed>>

Incremented(t) == {info[t] + 1, nextId + 1}

Bump(t) ==
    /\ At(t, "bump")
    /\ nextId' \in Incremented(t)
    /\ Goto(t, "obtain")
    /\ UNCHANGED <<mainVars, lreq, localVars, hostVars, workerVars, requestVars, crashed>>

(* A worker structure is allocated and its mutex taken, and the container  *)
(* supplies the worker object.                                             *)
Obtain(t, w) ==
    /\ At(t, "obtain")
    /\ wpc[w] = "none"
    /\ p' = [p EXCEPT ![t] = w]
    /\ wid' = [wid EXCEPT ![w] = info[t]]
    /\ WorkerGoto(w, "made")
    /\ Goto(t, "attach")
    /\ UNCHANGED <<mainVars, lreq, nreqs, c, info, hostVars, nextId, state, requests, current, requestVars, crashed>>

ObtainFails(t) ==
    /\ "noworker" \in Faults
    /\ At(t, "obtain")
    /\ NotCreated(t)
    /\ UNCHANGED <<mainVars, lreq, localVars, hostVars, nextId, workerVars, requestVars, crashed>>

(* The worker enters the global list, if there is room (the result of that *)
(* add is ignored), and under the write lock the list of its host.         *)
Attach(t) ==
    /\ At(t, "attach")
    /\ Readers(Host(t)) = {}
    /\ workers' \in {workers \cup {p[t]}} \cup (IF "nolist" \in Faults THEN {workers} ELSE {})
    /\ list' = [list EXCEPT ![Host(t)] = Append(@, p[t])]
    /\ active' = [active EXCEPT ![Host(t)] = @ + 1]
    /\ Goto(t, "spawn")
    /\ UNCHANGED <<mainVars, lreq, localVars, nextId, workerVars, requestVars, crashed>>

(* Faulty variant: the worker stays in the global list. *)
AttachFailsInPart(t) ==
    /\ "nolist" \in Faults
    /\ At(t, "attach")
    /\ workers' \in {workers, workers \cup {p[t]}}
    /\ WorkerGoto(p[t], "freed")
    /\ p' = [p EXCEPT ![t] = NULL]
    /\ NotCreated(t)
    /\ UNCHANGED <<mainVars, lreq, nreqs, c, info, list, active, nextId, wid, state, requests, current, requestVars, crashed>>

(* No slot in the host's list: the worker is taken off the global list and *)
(* freed.                                                                  *)
AttachFails(t) ==
    /\ "nolist" \in Faults
    /\ At(t, "attach")
    /\ Readers(Host(t)) = {}
    /\ workers' = workers \ {p[t]}
    /\ WorkerGoto(p[t], "freed")
    /\ p' = [p EXCEPT ![t] = NULL]
    /\ NotCreated(t)
    /\ UNCHANGED <<mainVars, lreq, nreqs, c, info, list, active, nextId, wid, state, requests, current, requestVars, crashed>>

(* worker_thread_create, whose result is ignored, and the release of the   *)
(* mutex that the new thread waits for.                                    *)
Spawn(t) ==
    /\ At(t, "spawn")
    /\ \E outcome \in {"start"} \cup ({"nothread"} \cap Faults) : WorkerGoto(p[t], outcome)
    /\ IF t = Main THEN p' = [p EXCEPT ![t] = NULL] ELSE UNCHANGED p
    /\ Created(t)
    /\ UNCHANGED <<mainVars, lreq, nreqs, c, info, hostVars, nextId, wid, state, requests, current, requestVars, crashed>>

CreateStep(t) ==
    \/ Populate(t) \/ Bump(t)
    \/ (\E w \in Workers : Obtain(t, w)) \/ ObtainFails(t)
    \/ Attach(t) \/ AttachFails(t)
    \/ Spawn(t)
-----------------------------------------------------------------------------
(* WORKER THREADS                                                          *)

(* worker_thread_: the new thread gets the mutex and hands control to the  *)
(* container.  worker_create has seen to it that there is a worker object. *)
ThreadStart(w) ==
    /\ WorkerAt(w, "start")
    /\ state' = [state EXCEPT ![w] = "IDLE"]
    /\ WorkerGoto(w, "request")
    /\ UNCHANGED <<mainVars, pc, lreq, localVars, hostVars, nextId, wid, requests, current, requestVars, crashed>>

(* Faulty variants: a completion is not noticed; the newest request is     *)
(* taken first.                                                            *)
NeverServing(w) == FALSE
NewestRequest(w) == requests[w][Len(requests[w])]

(* worker_request_ on entry: a request was being processed before. *)
WasServing(w) == state[w] = "RUNNING" /\ current[w] # NULL

NextRequest(w) == Head(requests[w])

(* Nothing to complete and a request pending: it becomes the current one. *)
TakePending(w) ==
    /\ WorkerAt(w, "request")
    /\ ~WasServing(w)
    /\ requests[w] # <<>>
    /\ state' = [state EXCEPT ![w] = "RUNNING"]
    /\ current' = [current EXCEPT ![w] = NextRequest(w)]
    /\ WorkerGoto(w, "process")
    /\ UNCHANGED <<mainVars, pc, lreq, localVars, hostVars, nextId, wid, requests, requestVars, crashed>>

(* Nothing to complete and nothing pending: wait for a signal. *)
Wait(w) ==
    /\ WorkerAt(w, "request")
    /\ ~WasServing(w)
    /\ requests[w] = <<>>
    /\ state' = [state EXCEPT ![w] = "IDLE"]
    /\ WorkerGoto(w, "waiting")
    /\ UNCHANGED <<mainVars, pc, lreq, localVars, hostVars, nextId, wid, requests, current, requestVars, crashed>>

(* The current request was the only one: it is released and the worker     *)
(* waits.                                                                  *)
CompleteLast(w) ==
    /\ WorkerAt(w, "request")
    /\ WasServing(w)
    /\ requestcount(w) = 1
    /\ requests' = [requests EXCEPT ![w] = Tail(@)]
    /\ Release(current[w])
    /\ current' = [current EXCEPT ![w] = NULL]
    /\ state' = [state EXCEPT ![w] = "IDLE"]
    /\ WorkerGoto(w, "waiting")
    /\ UNCHANGED <<mainVars, pc, lreq, localVars, hostVars, nextId, wid, fresh, crashed>>

(* The request that line 284 releases after the memcpy of line 281.  The   *)
(* copy of the remaining pointers goes over the worker structure, from its *)
(* field "requests" on, and not over the array: the second pointer lands   *)
(* in "current" when there are three requests or more.                     *)
Released(w) == IF requestcount(w) >= 3 THEN requests[w][3] ELSE current[w]

(* More requests are pending.  After the memcpy "requests" points at the   *)
(* next request itself, and what is handed out is the first word of that   *)
(* object, the address of its method table.  The fourth pointer overwrites *)
(* "state" (set again by line 295) and "status", later ones what follows   *)
(* the structure.                                                          *)
CompleteAndTake(w) ==
    /\ WorkerAt(w, "request")
    /\ WasServing(w)
    /\ requestcount(w) > 1
    /\ requests' = [requests EXCEPT ![w] = Tail(@)]
    /\ Release(Released(w))
    /\ current' = [current EXCEPT ![w] = Wild]
    /\ state' = [state EXCEPT ![w] = "RUNNING"]
    /\ WorkerGoto(w, "process")
    /\ crashed' \in {FALSE} \cup (IF requestcount(w) > 4 THEN {TRUE} ELSE {})
    /\ UNCHANGED <<mainVars, pc, lreq, localVars, hostVars, nextId, wid, fresh>>

(* pthread_cond_wait returns though nobody signalled. *)
SpuriousWakeup(w) ==
    /\ "spurious" \in Faults
    /\ WorkerAt(w, "waiting")
    /\ WorkerGoto(w, "woken")
    /\ UNCHANGED <<mainVars, pc, lreq, localVars, hostVars, nextId, wid, state, requests, current, requestVars, crashed>>

(* After the wait, with the mutex again: take the first request. *)
WakeTake(w) ==
    /\ WorkerAt(w, "woken")
    /\ requests[w] # <<>>
    /\ state' = [state EXCEPT ![w] = "RUNNING"]
    /\ current' = [current EXCEPT ![w] = NextRequest(w)]
    /\ WorkerGoto(w, "process")
    /\ UNCHANGED <<mainVars, pc, lreq, localVars, hostVars, nextId, wid, requests, requestVars, crashed>>

(* A wake-up without a request tells the worker to terminate. *)
WakeTerminate(w) ==
    /\ WorkerAt(w, "woken")
    /\ requests[w] = <<>>
    /\ state' = [state EXCEPT ![w] = "ZOMBIE"]
    /\ WorkerGoto(w, "null")
    /\ UNCHANGED <<mainVars, pc, lreq, localVars, hostVars, nextId, wid, requests, current, requestVars, crashed>>

(* The container processes the request and asks for the next one. *)
Process(w) ==
    /\ WorkerAt(w, "process")
    /\ current[w] # Wild
    /\ WorkerGoto(w, "request")
    /\ UNCHANGED <<mainVars, pc, lreq, localVars, hostVars, nextId, wid, state, requests, current, requestVars, crashed>>

(* The first word of a method table is NULL: the first method call through *)
(* it (consume, line 101 of containers/info/worker.c) is a memory fault.   *)
ProcessWild(w) ==
    /\ WorkerAt(w, "process")
    /\ current[w] = Wild
    /\ crashed' = TRUE
    /\ UNCHANGED <<mainVars, pc, lreq, localVars, hostVars, nextId, workerVars, requestVars>>

(* No request: the loop of the container ends, and with it the thread. *)
Exit(w) ==
    /\ WorkerAt(w, "null")
    /\ state' = [state EXCEPT ![w] = "ZOMBIE"]
    /\ WorkerGoto(w, "exited")
    /\ UNCHANGED <<mainVars, pc, lreq, localVars, hostVars, nextId, wid, requests, current, requestVars, crashed>>

-----------------------------------------------------------------------------
MainStep == AddHost \/ LaunchWorker \/ StartListeners \/ CreateStep(Main)

RouteStep(l) ==
    \/ Locate(l) \/ ScanCompare(l) \/ ScanTake(l) \/ Decide(l)
    \/ CreateStep(l)
    \/ Queue(l) \/ ReleaseRouted(l)

WorkerStep(w) ==
    \/ ThreadStart(w) \/ TakePending(w) \/ Wait(w)
    \/ CompleteLast(w) \/ CompleteAndTake(w)
    \/ WakeTake(w) \/ WakeTerminate(w)
    \/ Process(w) \/ ProcessWild(w) \/ Exit(w)

(* All that has arrived is dealt with, or the process is gone. *)
AtRest ==
    \/ crashed
    \/ /\ pc[Main] = "host" /\ todo = <<>>
       /\ \A l \in Listeners : pc[l] \in {"none", "ended"} \/ (pc[l] = "process" /\ fresh = {})
       /\ \A w \in Workers : wpc[w] \in {"none", "freed", "nothread", "waiting", "exited"}

Rest == AtRest /\ UNCHANGED vars

Next ==
    \/ MainStep
    \/ \E l \in Listeners : RouteStep(l) \/ EndpointEnds(l) \/ \E q \in Requests : Acquire(l, q)
    \/ \E w \in Workers : WorkerStep(w) \/ SpuriousWakeup(w)
    \/ Rest

Spec == Init /\ [][Next]_vars

(* Every thread that can go on does.  No fairness is asked of endpoints,   *)
(* which hand over requests when clients send them, and of wake-ups that   *)
(* nobody signalled.                                                       *)
Fairness ==
    /\ WF_vars(MainStep)
    /\ \A l \in Listeners : WF_vars(RouteStep(l))
    /\ \A w \in Workers : WF_vars(WorkerStep(w))

FairSpec == Spec /\ Fairness

-----------------------------------------------------------------------------
(* SAFETY                                                                  *)

(* A worker never waits while a request is pending for it: the signal of   *)
(* worker_queue_request and the test of the count before and after the     *)
(* wait miss nothing.                                                      *)
NoLostWakeup == \A w \in Workers : wpc[w] = "waiting" => requests[w] = <<>>

(* A request is pending on at most one worker, and only once. *)
Positions(q) == {x \in Workers \X (1 .. QueueAlloc) :
                    x[2] <= requestcount(x[1]) /\ requests[x[1]][x[2]] = q}

Holders(q) == {l \in Listeners : lreq[l] = q}

(* The reference count of a request is the number of pointers to it, one   *)
(* of a listener thread and one of a worker's queue at most, so that it is *)
(* freed when and only when nobody can reach it any more.  A completion    *)
(* that releases the wrong request (Released) ends this.                   *)
RefsExact ==
    (\A w \in Workers : current[w] # Wild) =>
        \A q \in Requests : refs[q] = Cardinality(Positions(q)) + Cardinality(Holders(q))

(* The array of pending requests is never written past its end. *)
QueueBounded == \A w \in Workers : requestcount(w) <= QueueAlloc

(* The request that a worker processes is the first of its queue and is    *)
(* still referenced.                                                       *)
ServingHead ==
    \A w \in Workers : current[w] \in Requests =>
        /\ requests[w] # <<>>
        /\ Head(requests[w]) = current[w]
        /\ (\A v \in Workers : current[v] # Wild) => refs[current[w]] > 0

(* Where each host has one listener, as main sets it up, a request queues  *)
(* behind another only when the host has all the workers it may have.      *)
OneListenerPerHost == \A l, m \in Listeners : HostOf[l] = HostOf[m] => l = m

QueueOnlyWhenFull ==
    OneListenerPerHost =>
        \A h \in Hosts : \A w \in RangeOf(list[h]) :
            requestcount(w) > 1 \/ current[w] = Wild => active[h] >= MaxChildren

(* What the lists and the threads point to has not been freed, and         *)
(* host->active counts the workers in the host's list.                     *)
NoDangling ==
    LET reachable == workers \cup (UNION {RangeOf(list[h]) : h \in Hosts})
                             \cup ({p[t] : t \in Threads} \ {NULL})
    IN /\ \A w \in reachable : wpc[w] \notin {"none", "freed"}
       /\ \A h \in Hosts : active[h] = Len(list[h])

(* Requests reach the workers of the host that their listener serves, and  *)
(* no worker is in two lists.                                              *)
HostsApart ==
    /\ \A g, h \in Hosts : g # h => RangeOf(list[g]) \cap RangeOf(list[h]) = {}
    /\ \A l \in Listeners : pc[l] \in {"take", "queue"} /\ p[l] # NULL =>
            p[l] \in RangeOf(list[HostOf[l]])

(* Two workers in use have different worker ids, for worker_create is      *)
(* thread-safe, as line 40 of worker.c says (findings: it is not).         *)
UniqueIds ==
    \A v, w \in UNION {RangeOf(list[h]) : h \in Hosts} : v # w => wid[v] # wid[w]

(* A worker is only ever given requests (findings: it is not). *)
HandedRequests == \A w \in Workers : current[w] # Wild

-----------------------------------------------------------------------------
(* Refinement: the pool is a set of mailboxes. *)
routing == {lreq[l] : l \in {m \in Listeners : pc[m] # "release"}} \ {NULL}
mailbox == [w \in Workers |-> IF current[w] \in Requests THEN Tail(requests[w]) ELSE requests[w]]
serving == [w \in Workers |-> IF current[w] \in Requests THEN current[w] ELSE NULL]

Abstract == INSTANCE Dispatch

(* Every request that an endpoint hands over is dropped or assigned to one *)
(* worker, and each worker takes what was assigned in order, one at a time.*)
ImplementsDispatch == Abstract!Spec

-----------------------------------------------------------------------------
(* LIVENESS                                                                *)

(* A listener thread always gets rid of the request in its hands. *)
RoutingReturns == \A l \in Listeners : lreq[l] # NULL ~> lreq[l] = NULL

JustAcquired(q) == \E l \in Listeners : lreq[l] = q /\ pc[l] = "locate"

(* Whatever fails, a request that a listener thread has acquired is        *)
(* processed or dropped, unless the process dies or the request is queued  *)
(* on a worker whose thread has ended or never existed.                    *)
EventuallySettled ==
    \A q \in Requests :
        JustAcquired(q) ~>
            \/ crashed
            \/ \E w \in Workers : current[w] = q
            \/ refs[q] = 0
            \/ \E w \in Workers : q \in RangeOf(requests[w]) /\ wpc[w] \in {"nothread", "exited"}

(* A request that a listener thread has acquired is processed. *)
EventuallyServed ==
    \A q \in Requests :
        JustAcquired(q) ~> (\E w \in Workers : current[w] = q)
=============================================================================
