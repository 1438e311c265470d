--------------------------- MODULE RegistryProofs ---------------------------
(***************************************************************************)
(* Proofs about Registry, for any threads, jobs, plug-ins, names and       *)
(* failures.  The inductive invariant says, beside the types, what kind of *)
(* object a thread has in hand at each point of its job, and that a host,  *)
(* made or in the making, has the container that its name is bound to.     *)
(***************************************************************************)
EXTENDS Registry, SequenceTheorems, WellFoundedInduction, TLAPS

LoadPCs == {"register", "insert", "registered"}
HostPCs == {"host", "located", "abandon"}

ThreadOK(t) ==
    /\ pc[t] # "next" => jobs[t] # <<>>
    /\ pc[t] \in LoadPCs \cup HostPCs => obj[t] \in Plugins
    /\ pc[t] \in HostPCs \cup {"endpoint"} => Head(jobs[t]).op = "host"
    /\ pc[t] \in {"listen", "discard"} => obj[t] \in Endpoints

ThreadInv == \A t \in Threads : ThreadOK(t)

(* What host_add has located is still what the name is bound to.           *)
LocatedInv ==
    \A t \in Threads :
        pc[t] = "host" => Lookup("container", Head(jobs[t]).name) = obj[t]

IInv == TypeOK /\ ThreadInv /\ LocatedInv /\ HostsAsConfigured

USE DEF threadVars, endpointVars, refVars, At, Goto, Hold, Job

-----------------------------------------------------------------------------
(* What the registries hold for a name                                     *)

(* A list that has a matching entry has a first one.                       *)
LEMMA FirstMatch ==
    ASSUME NEW S \in SUBSET Nat, S # {}
    PROVE  \E i \in S : \A j \in S : i <= j
  <1> DEFINE less == OpToRel(<, Nat)
  <1>1. IsWellFoundedOn(less, Nat)
    BY NatLessThanWellFounded
  <1>2. \A i, j \in Nat : <<j, i>> \notin less => i <= j
    BY DEF OpToRel
  <1> HIDE DEF less
  <1>3. \E i \in S : \A j \in S : ~(<<j, i>> \in less)
    BY <1>1, WFMin
  <1> QED BY <1>2, <1>3

(* A lookup yields the first entry of the name, and NULL if there is none. *)
LEMMA LookupFirst ==
    ASSUME TypeOK, NEW k \in Kinds, NEW n
    PROVE  /\ Found(k, n) = {} => Lookup(k, n) = NULL
           /\ Lookup(k, n) # NULL =>
                \E i \in Found(k, n) :
                    /\ \A j \in Found(k, n) : i <= j
                    /\ Lookup(k, n) = entries[k][i]
           /\ \A i \in Found(k, n) :
                (\A j \in Found(k, n) : i <= j) => Lookup(k, n) = entries[k][i]
  <1>1. entries[k] \in Seq(Plugins)
    BY DEF TypeOK
  <1>2. Found(k, n) \subseteq Nat
    BY <1>1 DEF Found
  <1>3. Found(k, n) = {} => Lookup(k, n) = NULL
    BY DEF Lookup
  <1>4. ASSUME NEW i \in Found(k, n), \A j \in Found(k, n) : i <= j
        PROVE  Lookup(k, n) = entries[k][i]
    <2> DEFINE first == CHOOSE m \in Found(k, n) : \A j \in Found(k, n) : m <= j
    <2>1. first \in Found(k, n) /\ \A j \in Found(k, n) : first <= j
      BY <1>4
    <2>2. Lookup(k, n) = entries[k][first]
      BY <1>4 DEF Lookup
    <2> HIDE DEF first
    <2>3. first = i
      BY <1>2, <1>4, <2>1
    <2> QED BY <2>2, <2>3
  <1>5. ASSUME Lookup(k, n) # NULL
        PROVE  \E i \in Found(k, n) : /\ \A j \in Found(k, n) : i <= j
                                      /\ Lookup(k, n) = entries[k][i]
    <2>1. PICK i \in Found(k, n) : \A j \in Found(k, n) : i <= j
      BY <1>2, <1>3, <1>5, FirstMatch
    <2> QED BY <1>4, <2>1
  <1> QED BY <1>3, <1>4, <1>5

(* A lookup yields a registered plug-in or NULL.                           *)
LEMMA LookupTyped ==
    ASSUME TypeOK, NEW k \in Kinds, NEW n
    PROVE  Lookup(k, n) \in Plugins \cup {NULL}
  <1> SUFFICES ASSUME Lookup(k, n) # NULL PROVE Lookup(k, n) \in Plugins
    OBVIOUS
  <1>1. PICK i \in Found(k, n) : Lookup(k, n) = entries[k][i]
    BY LookupFirst
  <1>2. entries[k] \in Seq(Plugins) /\ i \in DOMAIN entries[k]
    BY DEF TypeOK, Found
  <1> QED BY <1>1, <1>2

(* An entry that is added comes behind the others and hides none.          *)
LEMMA InsertKeeps ==
    ASSUME TypeOK, TypeOK', NEW k \in Kinds, NEW n, NEW o \in Plugins, NEW kind \in Kinds,
           entries' = [entries EXCEPT ![kind] = Append(@, o)],
           Lookup(k, n) # NULL
    PROVE  Lookup(k, n)' = Lookup(k, n)
  <1>1. entries[k] \in Seq(Plugins) /\ entries'[k] \in Seq(Plugins)
    BY DEF TypeOK
  <1>2. /\ \A i \in DOMAIN entries[k] : i \in DOMAIN entries'[k] /\ entries'[k][i] = entries[k][i]
        /\ \A i \in DOMAIN entries'[k] \ DOMAIN entries[k] : \A j \in DOMAIN entries[k] : j <= i
    <2>1. CASE k = kind
      <3>1. entries'[k] = Append(entries[k], o)
        BY <2>1 DEF TypeOK
      <3> QED BY <1>1, <3>1
    <2>2. CASE k # kind
      BY <2>2 DEF TypeOK
    <2> QED BY <2>1, <2>2
  <1>3. PICK i \in Found(k, n) : /\ \A j \in Found(k, n) : i <= j
                                 /\ Lookup(k, n) = entries[k][i]
    BY LookupFirst
  <1>4. i \in DOMAIN entries[k]
    BY DEF Found
  <1>5. i \in Found(k, n)' /\ entries'[k][i] = entries[k][i]
    BY <1>2 DEF Found
  <1>6. \A j \in Found(k, n)' : i <= j
    BY <1>2, <1>3, <1>4 DEF Found
  <1>7. \A m \in Found(k, n)' :
            (\A j \in Found(k, n)' : m <= j) => Lookup(k, n)' = entries'[k][m]
    <2>1. Found(k, n)' \subseteq Nat
      BY <1>1 DEF Found
    <2> SUFFICES ASSUME NEW m \in Found(k, n)', \A j \in Found(k, n)' : m <= j
                 PROVE  Lookup(k, n)' = entries'[k][m]
      OBVIOUS
    <2> DEFINE first == CHOOSE x \in Found(k, n)' : \A j \in Found(k, n)' : x <= j
    <2>2. first \in Found(k, n)' /\ \A j \in Found(k, n)' : first <= j
      OBVIOUS
    <2>3. Lookup(k, n)' = entries'[k][first]
      BY DEF Lookup
    <2> HIDE DEF first
    <2>4. first = m
      BY <2>1, <2>2
    <2> QED BY <2>3, <2>4
  <1> QED BY <1>3, <1>5, <1>6, <1>7

(* Only an insertion changes what names are bound to.                      *)
LEMMA BindingFrame ==
    ASSUME entries' = entries, NEW k, NEW n
    PROVE  Lookup(k, n)' = Lookup(k, n)
  BY DEF Lookup, Found
-----------------------------------------------------------------------------
(* Types                                                                   *)

(* Dropping a reference, and with the last one of an endpoint that to its  *)
(* server, keeps counts numbers.                                           *)
LEMMA ReleaseTyped ==
    ASSUME refs \in [Objects -> Int], freed \subseteq Objects, NEW o, Release(o)
    PROVE  refs' \in [Objects -> Int] /\ freed' \subseteq Objects
  <1> DEFINE less == [refs EXCEPT ![o] = @ - 1]
  <1>1. less \in [Objects -> Int]
    <2>1. CASE o \in Objects
      BY <2>1
    <2>2. CASE o \notin Objects
      BY <2>2
    <2> QED BY <2>1, <2>2
  <1> HIDE DEF less
  <1>2. \/ refs' = less
        \/ refs' = [less EXCEPT ![serverOf[o]] = @ - 1]
    BY DEF Release, less
  <1>3. ASSUME refs' = [less EXCEPT ![serverOf[o]] = @ - 1]
        PROVE  refs' \in [Objects -> Int]
    <2>1. CASE serverOf[o] \in Objects
      BY <1>1, <1>3, <2>1
    <2>2. CASE serverOf[o] \notin Objects
      BY <1>1, <1>3, <2>2
    <2> QED BY <2>1, <2>2
  <1> QED BY <1>1, <1>2, <1>3 DEF Release

(* So does adding one.                                                     *)
LEMMA AddrefTyped ==
    ASSUME refs \in [Objects -> Int], NEW o, Addref(o)
    PROVE  refs' \in [Objects -> Int] /\ freed' = freed
  <1>1. CASE o \in Objects
    BY <1>1 DEF Addref
  <1>2. CASE o \notin Objects
    BY <1>2 DEF Addref
  <1> QED BY <1>1, <1>2

(* The end of a job leaves the rest of the jobs.                           *)
LEMMA EndJobTyped ==
    ASSUME TypeOK, NEW t \in Threads, jobs[t] # <<>>, EndJob(t)
    PROVE  /\ jobs' \in [Threads -> Seq(JobKinds)]
           /\ pc' \in [Threads -> PCs]
           /\ obj' \in [Threads -> Objects \cup {NULL}]
  <1>1. Tail(jobs[t]) \in Seq(JobKinds)
    <2>1. jobs[t] \in Seq(JobKinds) /\ Len(jobs[t]) > 0
      BY EmptySeq DEF TypeOK
    <2> QED BY <2>1
  <1> QED BY <1>1 DEF EndJob, TypeOK, PCs

(* Each step keeps the types; what a thread has in hand is needed for it.  *)
LEMMA TypePreserved ==
    ASSUME TypeOK, ThreadInv, Next
    PROVE  TypeOK'
  <1> USE NullAssumption
  <1>1. ASSUME NEW t \in Threads, LoadStep(t)
        PROVE  TypeOK'
    <2>1. CASE LoadModule(t)
      <3>1. CASE EndJob(t) /\ UNCHANGED refVars
        BY <2>1, <3>1, EndJobTyped DEF LoadModule, TypeOK
      <3>2. CASE ~(EndJob(t) /\ UNCHANGED refVars)
        <4>1. Head(jobs[t]) \in JobKinds
          BY <2>1 DEF LoadModule, TypeOK
        <4>2. Head(jobs[t]).plugin \in Objects
          BY <2>1, <4>1 DEF LoadModule, JobKinds, Objects
        <4>3. /\ refs' = [refs EXCEPT ![Head(jobs[t]).plugin] = 1]
              /\ obj' = [obj EXCEPT ![t] = Head(jobs[t]).plugin]
              /\ pc' = [pc EXCEPT ![t] = "register"]
              /\ UNCHANGED <<jobs, freed>>
          BY <2>1, <3>2 DEF LoadModule
        <4>4. /\ refs' \in [Objects -> Int] /\ obj' \in [Threads -> Objects \cup {NULL}]
              /\ pc' \in [Threads -> PCs]
          BY <4>2, <4>3 DEF TypeOK, PCs
        <4> QED BY <2>1, <4>3, <4>4 DEF LoadModule, TypeOK
      <3> QED BY <3>1, <3>2
    <2>2. CASE Scan(t)
      <3>1. \/ Goto(t, "registered") /\ UNCHANGED refVars
            \/ Goto(t, "insert") /\ Addref(obj[t])
        BY <2>2 DEF Scan
      <3>2. refs' \in [Objects -> Int] /\ freed' \subseteq Objects
        BY <3>1, AddrefTyped DEF TypeOK
      <3>3. pc' \in [Threads -> PCs]
        BY <3>1 DEF TypeOK, PCs
      <3> QED BY <2>2, <3>2, <3>3 DEF Scan, TypeOK
    <2>3. CASE Insert(t)
      <3>1. obj[t] \in Plugins
        BY <2>3 DEF Insert, ThreadInv, ThreadOK, LoadPCs
      <3>2. KindOf[obj[t]] \in Kinds
        BY <3>1, PluginsAssumption
      <3>3. entries' \in [Kinds -> Seq(Plugins)]
        BY <2>3, <3>1, <3>2 DEF Insert, Inserted, TypeOK
      <3> QED BY <2>3, <3>3 DEF Insert, TypeOK, PCs
    <2>4. CASE InsertFails(t)
      <3>1. refs' \in [Objects -> Int] /\ freed' \subseteq Objects
        BY <2>4, ReleaseTyped DEF InsertFails, TypeOK
      <3> QED BY <2>4, <3>1 DEF InsertFails, TypeOK, PCs
    <2>5. CASE Registered(t)
      <3>1. refs' \in [Objects -> Int] /\ freed' \subseteq Objects
        BY <2>5, ReleaseTyped DEF Registered, TypeOK
      <3>2. /\ jobs' \in [Threads -> Seq(JobKinds)] /\ pc' \in [Threads -> PCs]
            /\ obj' \in [Threads -> Objects \cup {NULL}]
        BY <2>5, EndJobTyped DEF Registered, TypeOK, PCs, ThreadInv, ThreadOK, LoadPCs, HostPCs
      <3> QED BY <2>5, <3>1, <3>2 DEF Registered, TypeOK
    <2> QED BY <1>1, <2>1, <2>2, <2>3, <2>4, <2>5 DEF LoadStep
  <1>2. ASSUME NEW t \in Threads, SectionStep(t)
        PROVE  TypeOK'
    <2>1. CASE Locate(t)
      <3> DEFINE o == Lookup("container", Head(jobs[t]).name)
      <3>1. o \in Plugins \cup {NULL}
        BY LookupTyped DEF Kinds
      <3> HIDE DEF o
      <3>2. CASE o = NULL
        BY <2>1, <3>2, EndJobTyped DEF Locate, TypeOK, o
      <3>3. CASE o # NULL
        <4>1. Hold(t, o) /\ Addref(o) /\ Goto(t, "host") /\ jobs' = jobs
          BY <2>1, <3>3 DEF Locate, o
        <4> QED BY <2>1, <3>1, <3>3, <4>1 DEF Locate, Addref, Objects, TypeOK, PCs
      <3> QED BY <3>2, <3>3
    <2>2. CASE AddHost(t)
      <3>1. obj[t] \in Plugins /\ Head(jobs[t]).name \in Names
        <4>1. jobs[t] # <<>> /\ Head(jobs[t]).op = "host" /\ obj[t] \in Plugins
          BY <2>2 DEF AddHost, ThreadInv, ThreadOK, HostPCs
        <4>2. Head(jobs[t]) \in JobKinds
          BY <4>1 DEF TypeOK
        <4> QED BY <4>1, <4>2 DEF JobKinds
      <3>2. hosts' \in Seq([name : Names, container : Plugins])
        <4>1. [name |-> Head(jobs[t]).name, container |-> obj[t]] \in [name : Names, container : Plugins]
          BY <3>1
        <4>2. \/ hosts' = Append(hosts, [name |-> Head(jobs[t]).name, container |-> obj[t]])
              \/ hosts' = hosts
          BY <2>2 DEF AddHost
        <4> DEFINE S == [name : Names, container : Plugins]
                   x == [name |-> Head(jobs[t]).name, container |-> obj[t]]
        <4>3. hosts \in Seq(S)
          BY DEF TypeOK
        <4> HIDE DEF S, x
        <4>4. x \in S
          BY <4>1 DEF S, x
        <4>5. hosts' = Append(hosts, x) \/ hosts' = hosts
          BY <4>2 DEF x
        <4>6. hosts' \in Seq(S)
          BY <4>3, <4>4, <4>5
        <4> QED BY <4>6 DEF S
      <3>3. refs' \in [Objects -> Int] /\ freed' \subseteq Objects
        BY <2>2, AddrefTyped DEF AddHost, TypeOK
      <3>4. pc' \in [Threads -> PCs]
        BY <2>2 DEF AddHost, TypeOK, PCs
      <3> QED BY <2>2, <3>2, <3>3, <3>4 DEF AddHost, TypeOK
    <2>3. CASE DropLocated(t)
      <3>1. refs' \in [Objects -> Int] /\ freed' \subseteq Objects
        BY <2>3, ReleaseTyped DEF DropLocated, TypeOK
      <3>2. CASE EndJob(t)
        <4>1. jobs[t] # <<>>
          BY <2>3 DEF DropLocated, ThreadInv, ThreadOK
        <4> QED BY <2>3, <3>1, <3>2, <4>1, EndJobTyped DEF DropLocated, TypeOK
      <3>3. CASE Goto(t, "endpoint") /\ Hold(t, NULL) /\ UNCHANGED jobs
        BY <2>3, <3>1, <3>3 DEF DropLocated, TypeOK, PCs
      <3> QED BY <2>3, <3>2, <3>3 DEF DropLocated
    <2>4. ASSUME NEW e \in Endpoints, CreateEndpoint(t, e)
          PROVE  TypeOK'
      <3> DEFINE s == Lookup("server", Head(jobs[t]).scheme)
      <3>1. s \in Plugins \cup {NULL}
        BY LookupTyped DEF Kinds
      <3> HIDE DEF s
      <3>2. /\ s # NULL /\ serverOf' = [serverOf EXCEPT ![e] = s]
            /\ refs' = [refs EXCEPT ![e] = 1, ![s] = @ + 1]
        BY <2>4 DEF CreateEndpoint, s
      <3>3. serverOf' \in [Endpoints -> Plugins \cup {NULL}] /\ refs' \in [Objects -> Int]
        BY <3>1, <3>2 DEF TypeOK, Objects
      <3>4. obj' \in [Threads -> Objects \cup {NULL}] /\ pc' \in [Threads -> PCs]
        BY <2>4 DEF CreateEndpoint, TypeOK, PCs, Objects
      <3>5. lstate' \in [Endpoints -> ListenerStates]
        BY <2>4 DEF CreateEndpoint, TypeOK, ListenerStates
      <3> QED BY <2>4, <3>3, <3>4, <3>5 DEF CreateEndpoint, TypeOK
    <2>5. CASE NoEndpoint(t)
      <3>1. jobs[t] # <<>>
        BY <2>5 DEF NoEndpoint, ThreadInv, ThreadOK
      <3> QED BY <2>5, <3>1, EndJobTyped DEF NoEndpoint, TypeOK
    <2>6. CASE StartListener(t)
      <3>1. jobs[t] # <<>>
        BY <2>6 DEF StartListener, ThreadInv, ThreadOK
      <3>2. lstate' \in [Endpoints -> ListenerStates]
        BY <2>6 DEF StartListener, TypeOK, ListenerStates
      <3> QED BY <2>6, <3>1, <3>2, EndJobTyped DEF StartListener, TypeOK
    <2>7. CASE ListenerFails(t)
      BY <2>7 DEF ListenerFails, TypeOK, PCs
    <2>8. CASE Discard(t)
      <3>1. refs' \in [Objects -> Int] /\ freed' \subseteq Objects
        BY <2>8, ReleaseTyped DEF Discard, TypeOK
      <3>2. /\ jobs' \in [Threads -> Seq(JobKinds)] /\ pc' \in [Threads -> PCs]
            /\ obj' \in [Threads -> Objects \cup {NULL}]
        BY <2>8, EndJobTyped DEF Discard, TypeOK, PCs, ThreadInv, ThreadOK, LoadPCs, HostPCs
      <3> QED BY <2>8, <3>1, <3>2 DEF Discard, TypeOK
    <2> QED BY <1>2, <2>1, <2>2, <2>3, <2>4, <2>5, <2>6, <2>7, <2>8 DEF SectionStep
  <1>3. ASSUME NEW e \in Endpoints, AcquireRequest(e)
        PROVE  TypeOK'
    <2>1. refs' \in [Objects -> Int] /\ freed' = freed
      BY <1>3, AddrefTyped DEF AcquireRequest, TypeOK
    <2> QED BY <1>3, <2>1 DEF AcquireRequest, TypeOK
  <1>4. ASSUME NEW e \in Endpoints, FreeRequest(e)
        PROVE  TypeOK'
    <2>1. refs' \in [Objects -> Int] /\ freed' \subseteq Objects
      BY <1>4, ReleaseTyped DEF FreeRequest, TypeOK
    <2> QED BY <1>4, <2>1 DEF FreeRequest, TypeOK
  <1>5. ASSUME NEW e \in Endpoints, EndListener(e)
        PROVE  TypeOK'
    BY <1>5 DEF EndListener, TypeOK, ListenerStates
  <1>6. ASSUME NEW i \in DOMAIN hosts, SupplyWorker(i)
        PROVE  TypeOK'
    <2>1. refs' \in [Objects -> Int] /\ freed' = freed
      BY <1>6, AddrefTyped DEF SupplyWorker, TypeOK
    <2>2. hosts[i] \in [name : Names, container : Plugins]
      <3> DEFINE S == [name : Names, container : Plugins]
      <3>1. hosts \in Seq(S)
        BY DEF TypeOK
      <3> HIDE DEF S
      <3>2. i \in 1 .. Len(hosts)
        BY <3>1, LenProperties
      <3>3. hosts[i] \in S
        BY <3>1, <3>2, ElementOfSeq
      <3> QED BY <3>3 DEF S
    <2>3. hosts[i].container \in Plugins
      BY <2>2
    <2>4. supplied' \in [Plugins -> Nat]
      BY <1>6, <2>3 DEF SupplyWorker, TypeOK
    <2> QED BY <1>6, <2>1, <2>4 DEF SupplyWorker, TypeOK
  <1>7. CASE Rest
    BY <1>7 DEF Rest, vars, TypeOK
  <1> QED BY <1>1, <1>2, <1>3, <1>4, <1>5, <1>6, <1>7 DEF Next
-----------------------------------------------------------------------------
(* What threads have in hand                                               *)

(* Nothing in hand changes: the relation between hands and jobs stays.     *)
LEMMA ThreadFrame ==
    ASSUME ThreadInv, UNCHANGED <<jobs, pc, obj>>
    PROVE  ThreadInv'
  BY DEF ThreadInv, ThreadOK

(* A step that is right for its thread leaves the others alone.            *)
LEMMA OneThread ==
    ASSUME ThreadInv, NEW t \in Threads, ThreadOK(t)',
           \A u \in Threads \ {t} : jobs'[u] = jobs[u] /\ pc'[u] = pc[u] /\ obj'[u] = obj[u]
    PROVE  ThreadInv'
  <1>1. ASSUME NEW u \in Threads, u # t
        PROVE  ThreadOK(u)'
    <2>1. ThreadOK(u)
      BY DEF ThreadInv
    <2> QED BY <1>1, <2>1 DEF ThreadOK
  <1> QED BY <1>1 DEF ThreadInv

(* Each step leaves its thread with what the rest of its job works on.     *)
LEMMA ThreadPreserved ==
    ASSUME TypeOK, ThreadInv, Next
    PROVE  ThreadInv'
  <1> USE NullAssumption
  <1>1. ASSUME NEW t \in Threads, LoadStep(t)
        PROVE  ThreadInv'
    <2>1. CASE LoadModule(t)
      <3>1. CASE EndJob(t)
        BY <2>1, <3>1, OneThread DEF LoadModule, EndJob, TypeOK, ThreadOK, LoadPCs, HostPCs
      <3>2. CASE ~EndJob(t)
        <4>1. Head(jobs[t]) \in JobKinds
          BY <2>1 DEF LoadModule, TypeOK
        <4>2. Head(jobs[t]).plugin \in Plugins
          BY <2>1, <4>1 DEF LoadModule, JobKinds
        <4>3. /\ jobs' = jobs /\ jobs[t] # <<>>
              /\ pc' = [pc EXCEPT ![t] = "register"]
              /\ obj' = [obj EXCEPT ![t] = Head(jobs[t]).plugin]
          BY <2>1, <3>2 DEF LoadModule
        <4> QED BY <4>2, <4>3, OneThread DEF TypeOK, ThreadOK, LoadPCs, HostPCs
      <3> QED BY <3>1, <3>2
    <2>2. CASE Scan(t)
      BY <2>2, OneThread DEF Scan, EndJob, TypeOK, ThreadInv, ThreadOK, LoadPCs, HostPCs
    <2>3. CASE Insert(t)
      BY <2>3, OneThread DEF Insert, EndJob, TypeOK, ThreadInv, ThreadOK, LoadPCs, HostPCs
    <2>4. CASE InsertFails(t)
      BY <2>4, OneThread DEF InsertFails, EndJob, TypeOK, ThreadInv, ThreadOK, LoadPCs, HostPCs
    <2>5. CASE Registered(t)
      BY <2>5, OneThread DEF Registered, EndJob, TypeOK, ThreadInv, ThreadOK, LoadPCs, HostPCs
    <2> QED BY <1>1, <2>1, <2>2, <2>3, <2>4, <2>5 DEF LoadStep
  <1>2. ASSUME NEW t \in Threads, SectionStep(t)
        PROVE  ThreadInv'
    <2>1. CASE Locate(t)
      <3> DEFINE o == Lookup("container", Head(jobs[t]).name)
      <3>1. o \in Plugins \cup {NULL}
        BY LookupTyped DEF Kinds
      <3>2. CASE o = NULL
        BY <2>1, <3>2, OneThread DEF Locate, EndJob, TypeOK, ThreadOK, LoadPCs, HostPCs
      <3>3. CASE o # NULL
        <4>1. obj' = [obj EXCEPT ![t] = o] /\ pc' = [pc EXCEPT ![t] = "host"] /\ jobs' = jobs
          BY <2>1, <3>3 DEF Locate
        <4>2. jobs[t] # <<>> /\ Head(jobs[t]).op = "host"
          BY <2>1 DEF Locate
        <4> HIDE DEF o
        <4> QED BY <3>1, <3>3, <4>1, <4>2, OneThread DEF TypeOK, ThreadOK, LoadPCs, HostPCs
      <3> QED BY <3>2, <3>3
    <2>2. CASE AddHost(t)
      BY <2>2, OneThread DEF AddHost, EndJob, TypeOK, ThreadInv, ThreadOK, LoadPCs, HostPCs
    <2>3. CASE DropLocated(t)
      <3>1. CASE EndJob(t)
        BY <2>3, <3>1, OneThread DEF DropLocated, EndJob, TypeOK, ThreadOK, LoadPCs, HostPCs
      <3>2. CASE Goto(t, "endpoint") /\ Hold(t, NULL) /\ UNCHANGED jobs
        BY <2>3, <3>2, OneThread DEF DropLocated, TypeOK, ThreadInv, ThreadOK, LoadPCs, HostPCs
      <3> QED BY <2>3, <3>1, <3>2 DEF DropLocated
    <2>4. ASSUME NEW e \in Endpoints, CreateEndpoint(t, e)
          PROVE  ThreadInv'
      BY <2>4, OneThread DEF CreateEndpoint, EndJob, TypeOK, ThreadInv, ThreadOK, LoadPCs, HostPCs
    <2>5. CASE NoEndpoint(t)
      BY <2>5, OneThread DEF NoEndpoint, EndJob, TypeOK, ThreadInv, ThreadOK, LoadPCs, HostPCs
    <2>6. CASE StartListener(t)
      BY <2>6, OneThread DEF StartListener, EndJob, TypeOK, ThreadInv, ThreadOK, LoadPCs, HostPCs
    <2>7. CASE ListenerFails(t)
      BY <2>7, OneThread DEF ListenerFails, EndJob, TypeOK, ThreadInv, ThreadOK, LoadPCs, HostPCs
    <2>8. CASE Discard(t)
      BY <2>8, OneThread DEF Discard, EndJob, TypeOK, ThreadInv, ThreadOK, LoadPCs, HostPCs
    <2> QED BY <1>2, <2>1, <2>2, <2>3, <2>4, <2>5, <2>6, <2>7, <2>8 DEF SectionStep
  <1>3. ASSUME NEW e \in Endpoints, AcquireRequest(e)
        PROVE  ThreadInv'
    BY <1>3, ThreadFrame DEF AcquireRequest, vars
  <1>4. ASSUME NEW e \in Endpoints, FreeRequest(e)
        PROVE  ThreadInv'
    BY <1>4, ThreadFrame DEF FreeRequest, vars
  <1>5. ASSUME NEW e \in Endpoints, EndListener(e)
        PROVE  ThreadInv'
    BY <1>5, ThreadFrame DEF EndListener, vars
  <1>6. ASSUME NEW i \in DOMAIN hosts, SupplyWorker(i)
        PROVE  ThreadInv'
    BY <1>6, ThreadFrame DEF SupplyWorker, vars
  <1>7. CASE Rest
    BY <1>7, ThreadFrame DEF Rest, vars
  <1> QED BY <1>1, <1>2, <1>3, <1>4, <1>5, <1>6, <1>7 DEF Next
-----------------------------------------------------------------------------
(* What names are bound to                                                 *)

Kept == \A k \in Kinds, n \in Names : Lookup(k, n) # NULL => Lookup(k, n)' = Lookup(k, n)

(* Each step keeps every binding: only Insert touches a registry, and adds *)
(* at its end.                                                             *)
LEMMA BindingsKept ==
    ASSUME TypeOK, TypeOK', ThreadInv, Next
    PROVE  Kept
  <1>1. ASSUME NEW t \in Threads, LoadStep(t)
        PROVE  Kept
    <2>1. CASE LoadModule(t)
      BY <2>1, BindingFrame DEF LoadModule, Kept
    <2>2. CASE Scan(t)
      BY <2>2, BindingFrame DEF Scan, Kept
    <2>3. CASE Insert(t)
      <3>1. obj[t] \in Plugins /\ KindOf[obj[t]] \in Kinds
        BY <2>3, PluginsAssumption DEF Insert, ThreadInv, ThreadOK, LoadPCs
      <3>2. entries' = [entries EXCEPT ![KindOf[obj[t]]] = Append(@, obj[t])]
        BY <2>3 DEF Insert, Inserted
      <3> QED BY <3>1, <3>2, InsertKeeps DEF Kept
    <2>4. CASE InsertFails(t)
      BY <2>4, BindingFrame DEF InsertFails, Kept
    <2>5. CASE Registered(t)
      BY <2>5, BindingFrame DEF Registered, Kept
    <2> QED BY <1>1, <2>1, <2>2, <2>3, <2>4, <2>5 DEF LoadStep
  <1>2. ASSUME NEW t \in Threads, SectionStep(t)
        PROVE  Kept
    BY <1>2, BindingFrame DEF SectionStep, Locate, AddHost, DropLocated, CreateEndpoint, NoEndpoint, StartListener, ListenerFails, Discard, Kept, vars
  <1>3. ASSUME NEW e \in Endpoints, AcquireRequest(e)
        PROVE  Kept
    BY <1>3, BindingFrame DEF AcquireRequest, Kept, vars
  <1>4. ASSUME NEW e \in Endpoints, FreeRequest(e)
        PROVE  Kept
    BY <1>4, BindingFrame DEF FreeRequest, Kept, vars
  <1>5. ASSUME NEW e \in Endpoints, EndListener(e)
        PROVE  Kept
    BY <1>5, BindingFrame DEF EndListener, Kept, vars
  <1>6. ASSUME NEW i \in DOMAIN hosts, SupplyWorker(i)
        PROVE  Kept
    BY <1>6, BindingFrame DEF SupplyWorker, Kept, vars
  <1>7. CASE Rest
    BY <1>7, BindingFrame DEF Rest, Kept, vars
  <1> QED BY <1>1, <1>2, <1>3, <1>4, <1>5, <1>6, <1>7 DEF Next

(* What a section has located, it keeps until its host is made.            *)
LEMMA LocatedMoves ==
    ASSUME TypeOK, ThreadInv, LocatedInv, Kept,
           \A t \in Threads : pc'[t] = "host" =>
                pc[t] = "host" /\ jobs'[t] = jobs[t] /\ obj'[t] = obj[t]
    PROVE  LocatedInv'
  <1> SUFFICES ASSUME NEW t \in Threads, pc'[t] = "host"
               PROVE  Lookup("container", Head(jobs[t]).name)' = obj'[t]
    BY DEF LocatedInv
  <1>1. /\ jobs[t] # <<>> /\ Head(jobs[t]).op = "host"
        /\ obj[t] \in Plugins
    BY DEF ThreadInv, ThreadOK, HostPCs
  <1>2. Head(jobs[t]).name \in Names
    <2>1. Head(jobs[t]) \in JobKinds
      BY <1>1 DEF TypeOK
    <2> QED BY <1>1, <2>1 DEF JobKinds
  <1>3. PICK n \in Names : n = Head(jobs[t]).name
    BY <1>2
  <1>4. Lookup("container", n) = obj[t] /\ obj[t] # NULL
    BY <1>1, <1>3, NullAssumption DEF LocatedInv, Objects
  <1>5. Lookup("container", n)' = Lookup("container", n)
    BY <1>4 DEF Kept, Kinds
  <1> QED BY <1>3, <1>4, <1>5

(* Each step but Locate leaves located containers alone.                   *)
LEMMA LocatedPreserved ==
    ASSUME TypeOK, ThreadInv, LocatedInv, Kept, Next
    PROVE  LocatedInv'
  <1>1. ASSUME NEW t \in Threads, LoadStep(t)
        PROVE  LocatedInv'
    <2>1. CASE LoadModule(t)
      BY <2>1, LocatedMoves DEF LoadModule, EndJob, TypeOK
    <2>2. CASE Scan(t)
      BY <2>2, LocatedMoves DEF Scan, EndJob, TypeOK
    <2>3. CASE Insert(t)
      BY <2>3, LocatedMoves DEF Insert, EndJob, TypeOK
    <2>4. CASE InsertFails(t)
      BY <2>4, LocatedMoves DEF InsertFails, EndJob, TypeOK
    <2>5. CASE Registered(t)
      BY <2>5, LocatedMoves DEF Registered, EndJob, TypeOK
    <2> QED BY <1>1, <2>1, <2>2, <2>3, <2>4, <2>5 DEF LoadStep
  <1>2. ASSUME NEW t \in Threads, SectionStep(t)
        PROVE  LocatedInv'
    <2>1. CASE Locate(t)
      <3> DEFINE o == Lookup("container", Head(jobs[t]).name)
      <3>1. CASE o = NULL
        BY <2>1, <3>1, LocatedMoves DEF Locate, EndJob, TypeOK
      <3>2. CASE o # NULL
        <4>1. /\ obj' = [obj EXCEPT ![t] = o] /\ pc' = [pc EXCEPT ![t] = "host"]
              /\ jobs' = jobs /\ entries' = entries
          BY <2>1, <3>2 DEF Locate
        <4>2. \A u \in Threads \ {t} : pc'[u] = pc[u] /\ obj'[u] = obj[u]
          BY <4>1 DEF TypeOK
        <4>3. \A n : Lookup("container", n)' = Lookup("container", n)
          BY <4>1, BindingFrame
        <4>4. obj'[t] = o
          BY <4>1 DEF TypeOK
        <4> QED BY <4>1, <4>2, <4>3, <4>4 DEF LocatedInv
      <3> QED BY <3>1, <3>2
    <2>2. CASE AddHost(t)
      BY <2>2, LocatedMoves DEF AddHost, EndJob, TypeOK
    <2>3. CASE DropLocated(t)
      BY <2>3, LocatedMoves DEF DropLocated, EndJob, TypeOK
    <2>4. ASSUME NEW e \in Endpoints, CreateEndpoint(t, e)
          PROVE  LocatedInv'
      BY <2>4, LocatedMoves DEF CreateEndpoint, EndJob, TypeOK
    <2>5. CASE NoEndpoint(t)
      BY <2>5, LocatedMoves DEF NoEndpoint, EndJob, TypeOK
    <2>6. CASE StartListener(t)
      BY <2>6, LocatedMoves DEF StartListener, EndJob, TypeOK
    <2>7. CASE ListenerFails(t)
      BY <2>7, LocatedMoves DEF ListenerFails, EndJob, TypeOK
    <2>8. CASE Discard(t)
      BY <2>8, LocatedMoves DEF Discard, EndJob, TypeOK
    <2> QED BY <1>2, <2>1, <2>2, <2>3, <2>4, <2>5, <2>6, <2>7, <2>8 DEF SectionStep
  <1>3. ASSUME NEW e \in Endpoints, AcquireRequest(e)
        PROVE  LocatedInv'
    BY <1>3, LocatedMoves DEF AcquireRequest, vars
  <1>4. ASSUME NEW e \in Endpoints, FreeRequest(e)
        PROVE  LocatedInv'
    BY <1>4, LocatedMoves DEF FreeRequest, vars
  <1>5. ASSUME NEW e \in Endpoints, EndListener(e)
        PROVE  LocatedInv'
    BY <1>5, LocatedMoves DEF EndListener, vars
  <1>6. ASSUME NEW i \in DOMAIN hosts, SupplyWorker(i)
        PROVE  LocatedInv'
    BY <1>6, LocatedMoves DEF SupplyWorker, vars
  <1>7. CASE Rest
    BY <1>7, LocatedMoves DEF Rest, vars
  <1> QED BY <1>1, <1>2, <1>3, <1>4, <1>5, <1>6, <1>7 DEF Next

(* A host has a name and a container.                                      *)
LEMMA HostTyped ==
    ASSUME TypeOK, NEW i \in DOMAIN hosts
    PROVE  hosts[i].name \in Names /\ hosts[i].container \in Plugins
  <1> DEFINE S == [name : Names, container : Plugins]
  <1>1. hosts \in Seq(S)
    BY DEF TypeOK
  <1> HIDE DEF S
  <1>2. i \in 1 .. Len(hosts)
    BY <1>1, LenProperties
  <1>3. hosts[i] \in S
    BY <1>1, <1>2, ElementOfSeq
  <1> QED BY <1>3 DEF S

(* Hosts keep their containers while their names keep their bindings.      *)
LEMMA HostsFrame ==
    ASSUME TypeOK, HostsAsConfigured, Kept, hosts' = hosts
    PROVE  HostsAsConfigured'
  <1> SUFFICES ASSUME NEW i \in DOMAIN hosts
               PROVE  Lookup("container", hosts[i].name)' = hosts[i].container
    BY DEF HostsAsConfigured
  <1>1. hosts[i].name \in Names /\ hosts[i].container \in Plugins
    BY HostTyped
  <1>2. PICK n \in Names : n = hosts[i].name
    BY <1>1
  <1>3. Lookup("container", n) = hosts[i].container /\ hosts[i].container # NULL
    BY <1>1, <1>2, NullAssumption DEF HostsAsConfigured, Objects
  <1>4. Lookup("container", n)' = Lookup("container", n)
    BY <1>3 DEF Kept, Kinds
  <1> QED BY <1>2, <1>3, <1>4

(* AddHost makes a host of what has been located; no other step touches    *)
(* hosts.                                                                  *)
LEMMA HostsPreserved ==
    ASSUME TypeOK, LocatedInv, HostsAsConfigured, Kept, Next
    PROVE  HostsAsConfigured'
  <1>1. ASSUME NEW t \in Threads, LoadStep(t)
        PROVE  HostsAsConfigured'
    BY <1>1, HostsFrame DEF LoadStep, LoadModule, Scan, Insert, InsertFails, Registered, vars
  <1>2. ASSUME NEW t \in Threads, SectionStep(t)
        PROVE  HostsAsConfigured'
    <2>1. CASE Locate(t)
      BY <2>1, HostsFrame DEF Locate
    <2>2. CASE AddHost(t)
      <3>1. CASE hosts' = hosts
        BY <3>1, HostsFrame
      <3>2. CASE hosts' # hosts
        <4> DEFINE h == [name |-> Head(jobs[t]).name, container |-> obj[t]]
        <4>1. hosts' = Append(hosts, h) /\ entries' = entries /\ pc[t] = "host"
          BY <2>2, <3>2 DEF AddHost
        <4>2. Lookup("container", h.name) = h.container
          BY <4>1 DEF LocatedInv
        <4> HIDE DEF h
        <4>3. \A i \in DOMAIN hosts' : hosts'[i] = h \/ (i \in DOMAIN hosts /\ hosts'[i] = hosts[i])
          <5> DEFINE S == [name : Names, container : Plugins]
          <5>1. hosts \in Seq(S)
            BY DEF TypeOK
          <5> HIDE DEF S
          <5> QED BY <4>1, <5>1
        <4>4. \A n : Lookup("container", n)' = Lookup("container", n)
          BY <4>1, BindingFrame
        <4> QED BY <4>2, <4>3, <4>4 DEF HostsAsConfigured
      <3> QED BY <3>1, <3>2
    <2>3. CASE DropLocated(t)
      BY <2>3, HostsFrame DEF DropLocated
    <2>4. ASSUME NEW e \in Endpoints, CreateEndpoint(t, e)
          PROVE  HostsAsConfigured'
      BY <2>4, HostsFrame DEF CreateEndpoint
    <2>5. CASE NoEndpoint(t)
      BY <2>5, HostsFrame DEF NoEndpoint
    <2>6. CASE StartListener(t)
      BY <2>6, HostsFrame DEF StartListener
    <2>7. CASE ListenerFails(t)
      BY <2>7, HostsFrame DEF ListenerFails
    <2>8. CASE Discard(t)
      BY <2>8, HostsFrame DEF Discard
    <2> QED BY <1>2, <2>1, <2>2, <2>3, <2>4, <2>5, <2>6, <2>7, <2>8 DEF SectionStep
  <1>3. ASSUME NEW e \in Endpoints, AcquireRequest(e)
        PROVE  HostsAsConfigured'
    BY <1>3, HostsFrame DEF AcquireRequest, vars
  <1>4. ASSUME NEW e \in Endpoints, FreeRequest(e)
        PROVE  HostsAsConfigured'
    BY <1>4, HostsFrame DEF FreeRequest, vars
  <1>5. ASSUME NEW e \in Endpoints, EndListener(e)
        PROVE  HostsAsConfigured'
    BY <1>5, HostsFrame DEF EndListener, vars
  <1>6. ASSUME NEW i \in DOMAIN hosts, SupplyWorker(i)
        PROVE  HostsAsConfigured'
    BY <1>6, HostsFrame DEF SupplyWorker, vars
  <1>7. CASE Rest
    BY <1>7, HostsFrame DEF Rest, vars
  <1> QED BY <1>1, <1>2, <1>3, <1>4, <1>5, <1>6, <1>7 DEF Next
-----------------------------------------------------------------------------
(* In the beginning no plug-in is registered and no host exists.           *)
LEMMA InitIInv == Init => IInv
  <1> SUFFICES ASSUME Init PROVE IInv
    OBVIOUS
  <1> USE DEF Init
  <1>1. TypeOK
    <2>1. /\ jobs \in [Threads -> Seq(JobKinds)] /\ pc \in [Threads -> PCs]
          /\ obj \in [Threads -> Objects \cup {NULL}]
      BY JobsAssumption DEF PCs
    <2>2. /\ entries \in [Kinds -> Seq(Plugins)] /\ hosts \in Seq([name : Names, container : Plugins])
          /\ supplied \in [Plugins -> Nat]
      OBVIOUS
    <2>3. /\ lstate \in [Endpoints -> ListenerStates] /\ serverOf \in [Endpoints -> Plugins \cup {NULL}]
          /\ inFlight \in [Endpoints -> Nat]
      BY DEF ListenerStates
    <2>4. refs \in [Objects -> Int] /\ freed \subseteq Objects
      OBVIOUS
    <2> QED BY <2>1, <2>2, <2>3, <2>4 DEF TypeOK
  <1>2. ThreadInv /\ LocatedInv
    BY DEF ThreadInv, ThreadOK, LocatedInv, LoadPCs, HostPCs
  <1>3. HostsAsConfigured
    BY DEF HostsAsConfigured
  <1> QED BY <1>1, <1>2, <1>3 DEF IInv

(* Every step, and none, keeps the invariant and the bindings.             *)
LEMMA StepIInv ==
    ASSUME IInv, [Next]_vars
    PROVE  IInv' /\ Kept
  <1>1. CASE Next
    <2>1. TypeOK' /\ ThreadInv'
      BY <1>1, TypePreserved, ThreadPreserved DEF IInv
    <2>2. Kept
      BY <1>1, <2>1, BindingsKept DEF IInv
    <2> QED BY <1>1, <2>1, <2>2, LocatedPreserved, HostsPreserved DEF IInv
  <1>2. CASE UNCHANGED vars
    <2> USE DEF vars
    <2>1. TypeOK' /\ ThreadInv'
      BY <1>2, ThreadFrame DEF IInv, TypeOK
    <2>2. Kept
      BY <1>2, BindingFrame DEF Kept
    <2>3. LocatedInv' /\ HostsAsConfigured'
      BY <1>2, <2>2, LocatedMoves, HostsFrame DEF IInv
    <2> QED BY <2>1, <2>2, <2>3 DEF IInv
  <1> QED BY <1>1, <1>2

(* Whatever modules are loaded and sections set up, on however many        *)
(* threads and with whatever failures, the invariant holds all the time.   *)
THEOREM Invariance == Spec => []IInv
  <1>1. IInv /\ [Next]_vars => IInv'
    BY StepIInv
  <1> QED BY InitIInv, <1>1, PTL DEF Spec

(* Every variable keeps its type: a registry only ever holds plug-ins, a   *)
(* host always has a container, and a listener's endpoint is an endpoint.  *)
THEOREM TypeCorrect == Spec => []TypeOK
  <1>1. IInv => TypeOK
    BY DEF IInv
  <1> QED BY <1>1, Invariance, PTL

(* A name stays bound to the plug-in that container_locate or              *)
(* server_endpoint_uri first found under it, even if a second one gets     *)
(* past the check of container_register or server_register.                *)
THEOREM BindingsStable == Spec => BindingStable
  <1> DEFINE Stable == \A k \in Kinds, n \in Names :
                Lookup(k, n) # NULL => Lookup(k, n)' = Lookup(k, n)
  <1>1. IInv /\ [Next]_vars => Stable
    BY StepIInv DEF Kept
  <1>2. IInv /\ [Next]_vars => [Stable]_vars
    BY <1>1
  <1> HIDE DEF Stable
  <1>3. Spec => [][Stable]_vars
    BY <1>2, Invariance, PTL DEF Spec
  <1> QED BY <1>3 DEF BindingStable, Stable

(* A host runs the container that the name in its section is bound to.     *)
THEOREM HostsConfigured == Spec => []HostsAsConfigured
  <1>1. IInv => HostsAsConfigured
    BY DEF IInv
  <1> QED BY <1>1, Invariance, PTL
=============================================================================
