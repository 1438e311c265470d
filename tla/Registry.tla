------------------------------ MODULE Registry ------------------------------
(***************************************************************************)
(* The lives of the objects that ContainerWare's plug-ins supply:          *)
(* containers and endpoint servers from the moment a module creates and    *)
(* registers them, endpoints from the moment a listener is asked for       *)
(* (module.c, server.c, container.c, host.c, listener.c, the               *)
(* containerware_module_init of the plug-ins, and the reference counts of  *)
(* libcontainer/refcount.c).                                               *)
(*                                                                         *)
(* The calling threads run a list of jobs each: loading a module, which    *)
(* registers one plug-in, and setting up a section of the configuration, a *)
(* host and its endpoint.  The program has one such thread, main; the      *)
(* functions are documented as thread-safe, and more may be given here.    *)
(* Listener and worker threads only add and drop references.  An object is *)
(* freed when its reference count drops to zero.                           *)
(*                                                                         *)
(* The two registries only grow, so they are sequences; PtrList models the *)
(* lists.  A step is what happens under one hold of a list's lock.         *)
(***************************************************************************)
EXTENDS Integers, Sequences, FiniteSets

CONSTANTS
    Threads,
    Jobs,           \* for each thread, the sequence of its jobs
    Plugins,        \* the containers and endpoint servers that modules create
    KindOf,         \* "container" or "server"
    NameOf,         \* the name or scheme a plug-in registers under
    Names,
    StoredAs,       \* what is left of a name in the 48 bytes of an entry
    Endpoints,      \* bound: the endpoints that may be created
    MaxInFlight,    \* bound: unfinished requests of one endpoint
    MaxWorkers,     \* bound: worker objects that one container supplies
    Faults,         \* which of the failures below may happen
    NULL

Kinds == {"container", "server"}
Objects == Plugins \cup Endpoints

(* [op |-> "load", plugin |-> p], or [op |-> "host", name |-> n,           *)
(* scheme |-> s or NULL]                                                   *)
JobKinds == [op : {"load"}, plugin : Plugins]
                \cup [op : {"host"}, name : Names, scheme : Names \cup {NULL}]

(* "nomemory"  an allocation fails       "noendpoint"  endpoint() fails    *)
(* "nothread"  pthread_create fails                                        *)
FaultKinds == {"nomemory", "noendpoint", "nothread"}

ASSUME JobsAssumption == Jobs \in [Threads -> Seq(JobKinds)]
ASSUME PluginsAssumption ==
    KindOf \in [Plugins -> Kinds] /\ NameOf \in [Plugins -> Names]
ASSUME StoredAssumption == StoredAs \in [Names -> Names]
ASSUME EndpointsAssumption == Endpoints \cap Plugins = {}
ASSUME NullAssumption == NULL \notin Names \cup Objects
ASSUME BoundsAssumption == MaxInFlight \in Nat /\ MaxWorkers \in Nat
ASSUME FaultsAssumption == Faults \subseteq FaultKinds

VARIABLES
    jobs,       \* the jobs each thread has left; the head is in progress
    pc,         \* what each thread does next
    obj,        \* the plug-in or endpoint a thread has in hand
    entries,    \* the registries: for each kind, the plug-ins in order
    hosts,      \* the hosts: the name a section asks for and what it got
    supplied,   \* the worker objects that a container has supplied
    lstate,     \* the listener of each endpoint
    serverOf,   \* the server that an endpoint refers to
    inFlight,   \* the unfinished requests of each endpoint
    refs,       \* the reference count of each object
    freed       \* objects whose memory has been released

threadVars == <<jobs, pc, obj>>
endpointVars == <<lstate, serverOf, inFlight>>
refVars == <<refs, freed>>
vars == <<threadVars, entries, hosts, supplied, endpointVars, refVars>>

PCs == {"next", "register", "insert", "registered", "host", "located",
        "abandon", "endpoint", "listen", "discard"}
ListenerStates == {"none", "made", "running", "ended"}

TypeOK ==
    /\ jobs \in [Threads -> Seq(JobKinds)]
    /\ pc \in [Threads -> PCs]
    /\ obj \in [Threads -> Objects \cup {NULL}]
    /\ entries \in [Kinds -> Seq(Plugins)]
    /\ hosts \in Seq([name : Names, container : Plugins])
    /\ supplied \in [Plugins -> Nat]
    /\ lstate \in [Endpoints -> ListenerStates]
    /\ serverOf \in [Endpoints -> Plugins \cup {NULL}]
    /\ inFlight \in [Endpoints -> Nat]
    /\ refs \in [Objects -> Int]
    /\ freed \subseteq Objects

Init ==
    /\ jobs = Jobs
    /\ pc = [t \in Threads |-> "next"]
    /\ obj = [t \in Threads |-> NULL]
    /\ entries = [k \in Kinds |-> <<>>]
    /\ hosts = <<>>
    /\ supplied = [o \in Plugins |-> 0]
    /\ lstate = [e \in Endpoints |-> "none"]
    /\ serverOf = [e \in Endpoints |-> NULL]
    /\ inFlight = [e \in Endpoints |-> 0]
    /\ refs = [o \in Objects |-> 0]
    /\ freed = {}
-----------------------------------------------------------------------------
Job(t) == Head(jobs[t])
At(t, label) == pc[t] = label
Goto(t, label) == pc' = [pc EXCEPT ![t] = label]
Hold(t, o) == obj' = [obj EXCEPT ![t] = o]

(* The job is over, whatever it came to: main ignores most results. *)
EndJob(t) ==
    /\ jobs' = [jobs EXCEPT ![t] = Tail(@)]
    /\ Goto(t, "next")
    /\ Hold(t, NULL)

Addref(o) == refs' = [refs EXCEPT ![o] = @ + 1] /\ UNCHANGED freed

(* The last reference frees the object; an endpoint then drops the one it  *)
(* has to its server.                                                      *)
Release(o) ==
    /\ refs' = LET less == [refs EXCEPT ![o] = @ - 1]
               IN IF o \in Endpoints /\ less[o] = 0
                  THEN [less EXCEPT ![serverOf[o]] = @ - 1]
                  ELSE less
    /\ freed' = freed \cup {x \in Objects : refs[x] # 0 /\ refs'[x] = 0}

(* The name of an entry: what strncpy kept of the name it registered with. *)
EntryName(o) == StoredAs[NameOf[o]]

Found(kind, name) ==
    {i \in DOMAIN entries[kind] : EntryName(entries[kind][i]) = name}

(* A lookup yields the first entry whose name matches. *)
Lookup(kind, name) ==
    IF Found(kind, name) = {} THEN NULL
    ELSE entries[kind][CHOOSE i \in Found(kind, name) :
                            \A j \in Found(kind, name) : i <= j]
-----------------------------------------------------------------------------
(* LOADING A MODULE                                                        *)

(* containerware_module_init creates its plug-in with one reference.  With *)
(* no memory for it, or for the module's API instance, nothing happens.    *)
LoadModule(t) ==
    /\ At(t, "next")
    /\ jobs[t] # <<>>
    /\ Job(t).op = "load"
    /\ LET o == Job(t).plugin
       IN \/ /\ refs[o] = 0
             /\ o \notin freed
             /\ refs' = [refs EXCEPT ![o] = 1]
             /\ Hold(t, o)
             /\ Goto(t, "register")
             /\ UNCHANGED <<jobs, freed>>
          \/ /\ "nomemory" \in Faults
             /\ EndJob(t)
             /\ UNCHANGED refVars
    /\ UNCHANGED <<entries, hosts, supplied, endpointVars>>

(* Faulty variant: the registry takes no reference of its own. *)
ScanWithoutAddref(t) ==
    /\ At(t, "register")
    /\ Goto(t, IF Found(KindOf[obj[t]], NameOf[obj[t]]) # {} THEN "registered" ELSE "insert")
    /\ UNCHANGED <<jobs, obj, entries, hosts, supplied, endpointVars, refVars>>

(* server_register and container_register look under the write lock for an *)
(* entry of the same name, let go of the lock, and drop their reference if *)
(* there is one.                                                           *)
Scan(t) ==
    /\ At(t, "register")
    /\ IF Found(KindOf[obj[t]], NameOf[obj[t]]) # {}
       THEN Goto(t, "registered") /\ UNCHANGED refVars
       ELSE Goto(t, "insert") /\ Addref(obj[t])
    /\ UNCHANGED <<jobs, obj, entries, hosts, supplied, endpointVars>>

(* Faulty variant: the newest entry comes first. *)
InsertedFirst(list, o) == <<o>> \o list

(* list_add fills the first empty slot, the one behind all others. *)
Inserted(list, o) == Append(list, o)

Insert(t) ==
    /\ At(t, "insert")
    /\ entries' = [entries EXCEPT ![KindOf[obj[t]]] = Inserted(@, obj[t])]
    /\ Goto(t, "registered")
    /\ UNCHANGED <<jobs, obj, hosts, supplied, endpointVars, refVars>>

(* Faulty variant: the reference is not dropped again. *)
InsertFailsHolding(t) ==
    /\ "nomemory" \in Faults
    /\ At(t, "insert")
    /\ Goto(t, "registered")
    /\ UNCHANGED <<jobs, obj, entries, hosts, supplied, endpointVars, refVars>>

(* No memory for the entry or for a slot of the list. *)
InsertFails(t) ==
    /\ "nomemory" \in Faults
    /\ At(t, "insert")
    /\ Release(obj[t])
    /\ Goto(t, "registered")
    /\ UNCHANGED <<jobs, obj, entries, hosts, supplied, endpointVars>>

(* The module drops the reference of its own, whatever came of it. *)
Registered(t) ==
    /\ At(t, "registered")
    /\ Release(obj[t])
    /\ EndJob(t)
    /\ UNCHANGED <<entries, hosts, supplied, endpointVars>>
-----------------------------------------------------------------------------
(* SETTING UP A SECTION                                                    *)

(* host_add: container_locate, under the read lock. *)
Locate(t) ==
    /\ At(t, "next")
    /\ jobs[t] # <<>>
    /\ Job(t).op = "host"
    /\ LET o == Lookup("container", Job(t).name)
       IN IF o = NULL
          THEN EndJob(t) /\ UNCHANGED refVars
          ELSE Hold(t, o) /\ Addref(o) /\ Goto(t, "host") /\ UNCHANGED jobs
    /\ UNCHANGED <<entries, hosts, supplied, endpointVars>>

(* host_add_container: the host takes a reference and joins the list, or   *)
(* it is given up and what it took is put back.                            *)
AddHost(t) ==
    /\ At(t, "host")
    /\ \/ /\ hosts' = Append(hosts, [name |-> Job(t).name, container |-> obj[t]])
          /\ Addref(obj[t])
          /\ Goto(t, "located")
       \/ /\ "nomemory" \in Faults
          /\ Goto(t, "abandon")
          /\ UNCHANGED <<hosts, refVars>>
    /\ UNCHANGED <<jobs, obj, entries, supplied, endpointVars>>

(* host_add drops the reference of container_locate.  Without a host the   *)
(* section is skipped, and without an endpoint there is no more to do.     *)
DropLocated(t) ==
    /\ pc[t] \in {"located", "abandon"}
    /\ Release(obj[t])
    /\ IF pc[t] = "abandon" \/ Job(t).scheme = NULL
       THEN EndJob(t)
       ELSE Goto(t, "endpoint") /\ Hold(t, NULL) /\ UNCHANGED jobs
    /\ UNCHANGED <<entries, hosts, supplied, endpointVars>>

(* server_endpoint_uri calls the server's endpoint() under the read lock.  *)
(* A new endpoint has one reference and takes one to its server.           *)
CreateEndpoint(t, e) ==
    /\ At(t, "endpoint")
    /\ lstate[e] = "none"
    /\ LET s == Lookup("server", Job(t).scheme)
       IN /\ s # NULL
          /\ serverOf' = [serverOf EXCEPT ![e] = s]
          /\ refs' = [refs EXCEPT ![e] = 1, ![s] = @ + 1]
    /\ lstate' = [lstate EXCEPT ![e] = "made"]
    /\ Hold(t, e)
    /\ Goto(t, "listen")
    /\ UNCHANGED <<jobs, entries, hosts, supplied, inFlight, freed>>

(* No server for the scheme, or the server has no endpoint to give. *)
NoEndpoint(t) ==
    /\ At(t, "endpoint")
    /\ Lookup("server", Job(t).scheme) = NULL \/ "noendpoint" \in Faults
    /\ EndJob(t)
    /\ UNCHANGED <<entries, hosts, supplied, endpointVars, refVars>>

(* listener_add_endpoint: the listener takes over the reference and its    *)
(* thread starts.                                                          *)
StartListener(t) ==
    /\ At(t, "listen")
    /\ lstate' = [lstate EXCEPT ![obj[t]] = "running"]
    /\ EndJob(t)
    /\ UNCHANGED <<entries, hosts, supplied, serverOf, inFlight, refVars>>

(* No memory, no slot in the list of listeners, or no thread, in which     *)
(* case the listener leaves the list again.                                *)
ListenerFails(t) ==
    /\ Faults \cap {"nomemory", "nothread"} # {}
    /\ At(t, "listen")
    /\ Goto(t, "discard")
    /\ UNCHANGED <<jobs, obj, entries, hosts, supplied, endpointVars, refVars>>

(* listener_add_uri releases the endpoint that nobody listens to. *)
Discard(t) ==
    /\ At(t, "discard")
    /\ Release(obj[t])
    /\ EndJob(t)
    /\ UNCHANGED <<entries, hosts, supplied, endpointVars>>
-----------------------------------------------------------------------------
(* LISTENER AND WORKER THREADS                                             *)

(* acquire() creates a request, which refers to its endpoint. *)
AcquireRequest(e) ==
    /\ lstate[e] = "running"
    /\ inFlight[e] < MaxInFlight
    /\ inFlight' = [inFlight EXCEPT ![e] = @ + 1]
    /\ Addref(e)
    /\ UNCHANGED <<threadVars, entries, hosts, supplied, lstate, serverOf>>

(* Faulty variant: a request may be freed that was freed before. *)
FreeRequestAgain(e) ==
    /\ lstate[e] \in {"running", "ended"}
    /\ inFlight' = [inFlight EXCEPT ![e] = @ - 1]
    /\ Release(e)
    /\ UNCHANGED <<threadVars, entries, hosts, supplied, lstate, serverOf>>

(* The last reference to a request goes, on whichever thread. *)
FreeRequest(e) ==
    /\ inFlight[e] > 0
    /\ inFlight' = [inFlight EXCEPT ![e] = @ - 1]
    /\ Release(e)
    /\ UNCHANGED <<threadVars, entries, hosts, supplied, lstate, serverOf>>

(* process() or acquire() fails: the thread ends.  The listener keeps its  *)
(* reference to the endpoint.                                              *)
EndListener(e) ==
    /\ lstate[e] = "running"
    /\ lstate' = [lstate EXCEPT ![e] = "ended"]
    /\ UNCHANGED <<threadVars, entries, hosts, supplied, serverOf, inFlight, refVars>>

(* worker_create asks the container of a host for a worker object, which   *)
(* refers to the container and is never released.                          *)
SupplyWorker(i) ==
    /\ LET o == hosts[i].container
       IN /\ supplied[o] < MaxWorkers
          /\ supplied' = [supplied EXCEPT ![o] = @ + 1]
          /\ Addref(o)
    /\ UNCHANGED <<threadVars, entries, hosts, endpointVars>>
-----------------------------------------------------------------------------
LoadStep(t) ==
    LoadModule(t) \/ Scan(t) \/ Insert(t) \/ InsertFails(t) \/ Registered(t)

SectionStep(t) ==
    \/ Locate(t) \/ AddHost(t) \/ DropLocated(t)
    \/ (\E e \in Endpoints : CreateEndpoint(t, e)) \/ NoEndpoint(t)
    \/ StartListener(t) \/ ListenerFails(t) \/ Discard(t)

(* The threads have done their jobs; main sleeps from here on. *)
Rest == (\A t \in Threads : pc[t] = "next" /\ jobs[t] = <<>>) /\ UNCHANGED vars

Next ==
    \/ \E t \in Threads : LoadStep(t) \/ SectionStep(t)
    \/ \E e \in Endpoints : AcquireRequest(e) \/ FreeRequest(e) \/ EndListener(e)
    \/ \E i \in DOMAIN hosts : SupplyWorker(i)
    \/ Rest

Spec == Init /\ [][Next]_vars
-----------------------------------------------------------------------------
(* The pointers to an object that hold a reference. *)
Entered(kind, o) == {i \in DOMAIN entries[kind] : entries[kind][i] = o}
HostsOf(o) == {i \in DOMAIN hosts : hosts[i].container = o}
EndpointsOf(o) == {e \in Endpoints : serverOf[e] = o /\ e \notin freed}

(* A thread that is inserting has the reference of the entry, too, and one *)
(* that has added a host those of the entry and of container_locate.       *)
HeldBy(o) == {t \in Threads : obj[t] = o}
Inserting(o) == {t \in HeldBy(o) : pc[t] = "insert"}

(* Every reference count is the number of pointers that count: whatever    *)
(* fails while a module registers or a section is set up, on however many  *)
(* threads, no reference is lost and none is dropped twice.                *)
RefsExact ==
    /\ \A o \in Plugins :
        refs[o] = Cardinality(Entered("container", o)) + Cardinality(Entered("server", o))
                    + Cardinality(HostsOf(o)) + Cardinality(EndpointsOf(o)) + supplied[o]
                    + Cardinality(HeldBy(o)) + Cardinality(Inserting(o))
    /\ \A e \in Endpoints :
        refs[e] = inFlight[e] + Cardinality(HeldBy(e))
                    + (IF lstate[e] \in {"running", "ended"} THEN 1 ELSE 0)

(* Nothing that a registry, a host, a listener, an endpoint or a thread    *)
(* points to has been freed.                                               *)
InUse ==
    (UNION {{entries[k][i] : i \in DOMAIN entries[k]} : k \in Kinds})
        \cup {hosts[i].container : i \in DOMAIN hosts}
        \cup {e \in Endpoints : lstate[e] \in {"running", "ended"} \/ inFlight[e] > 0}
        \cup {serverOf[e] : e \in Endpoints \ freed}
        \cup {obj[t] : t \in Threads}

NoDangling == InUse \cap freed = {}

(* Once a name is bound to a plug-in it stays bound to that plug-in, even  *)
(* when two modules slip past each other's check and both get in.          *)
BindingStable ==
    [][\A k \in Kinds, n \in Names :
        Lookup(k, n) # NULL => Lookup(k, n)' = Lookup(k, n)]_vars

(* A host runs the container that its section's name is bound to.          *)
HostsAsConfigured ==
    \A i \in DOMAIN hosts : Lookup("container", hosts[i].name) = hosts[i].container
=============================================================================
