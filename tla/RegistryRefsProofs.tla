------------------------ MODULE RegistryRefsProofs ------------------------
(***************************************************************************)
(* Proofs about the reference counts of Registry: each is exact, and       *)
(* nothing in use has been freed, for any threads, jobs, plug-ins,         *)
(* endpoints and failures.                                                 *)
(*                                                                         *)
(* The pointers to an object are counted in two parts: those the threads   *)
(* have in hand, Claims, and all others, Owed.  A step of a thread changes *)
(* the first only by what that thread has in hand.  Counting needs finite  *)
(* sets, and they are: in the beginning no thread has an object in hand    *)
(* and no endpoint a server, and a step changes that of one at most.       *)
(***************************************************************************)
EXTENDS RegistryProofs, FiniteSetTheorems

(* What thread t has in hand of the references to o: one, and the one of   *)
(* the entry while it is inserting.                                        *)
Claim(t, o) == IF obj[t] # o THEN 0 ELSE IF pc[t] = "insert" THEN 2 ELSE 1

Claims(o) == Cardinality(HeldBy(o)) + Cardinality(Inserting(o))

Listened(e) == IF lstate[e] \in {"running", "ended"} THEN 1 ELSE 0

(* The references that no thread has in hand.                              *)
Owed(o) ==
    IF o \in Plugins
    THEN Cardinality(Entered("container", o)) + Cardinality(Entered("server", o))
            + Cardinality(HostsOf(o)) + Cardinality(EndpointsOf(o)) + supplied[o]
    ELSE inFlight[o] + Listened(o)

(* RefsExact, for plug-ins and endpoints alike.                            *)
Exact == \A o \in Objects : refs[o] = Owed(o) + Claims(o)

CountFinite ==
    \A o \in Objects : IsFiniteSet(HeldBy(o)) /\ IsFiniteSet(EndpointsOf(o))

(* Between two jobs, and before it has an endpoint, a thread has nothing   *)
(* in hand; an endpoint without a listener belongs to one thread alone.    *)
HandOK(t) ==
    /\ pc[t] \in {"next", "endpoint"} => obj[t] = NULL
    /\ pc[t] \in {"listen", "discard"} =>
            /\ lstate[obj[t]] = "made"
            /\ \A u \in Threads : obj[u] = obj[t] => u = t

HandInv == \A t \in Threads : HandOK(t)

(* An endpoint has a server from its creation on, and requests only while  *)
(* and after it is listened to.                                            *)
EndpointOK(e) ==
    /\ lstate[e] = "none" => serverOf[e] = NULL /\ e \notin freed
    /\ lstate[e] # "none" => serverOf[e] \in Plugins
    /\ inFlight[e] > 0 => lstate[e] \in {"running", "ended"}

EndpointInv == \A e \in Endpoints : EndpointOK(e)

FreedInv == \A o \in freed : refs[o] = 0

RInv == IInv /\ HandInv /\ EndpointInv /\ FreedInv /\ CountFinite /\ Exact

USE DEF threadVars, endpointVars, refVars, At, Goto, Hold, Job
-----------------------------------------------------------------------------
(* Counting                                                                *)

One(x, S) == IF x \in S THEN 1 ELSE 0

(* Two sets that agree on everything but x differ in size by what x is     *)
(* worth.                                                                  *)
LEMMA OneMoves ==
    ASSUME NEW S, NEW T, NEW x, IsFiniteSet(S), \A y : y # x => (y \in T <=> y \in S)
    PROVE  /\ IsFiniteSet(T)
           /\ Cardinality(S) \in Nat /\ Cardinality(T) \in Nat
           /\ Cardinality(T) = Cardinality(S) - One(x, S) + One(x, T)
  <1>1. Cardinality(S) \in Nat
    BY FS_CardinalityType
  <1>2. CASE x \in S /\ x \notin T
    <2>1. T = S \ {x}
      BY <1>2
    <2>2. IsFiniteSet(T) /\ Cardinality(T) = Cardinality(S) - 1
      BY <1>2, <2>1, FS_RemoveElement
    <2>3. Cardinality(T) \in Nat
      BY <2>2, FS_CardinalityType
    <2> QED BY <1>1, <1>2, <2>2, <2>3 DEF One
  <1>3. CASE x \notin S /\ x \in T
    <2>1. T = S \cup {x}
      BY <1>3
    <2>2. IsFiniteSet(T) /\ Cardinality(T) = Cardinality(S) + 1
      BY <1>3, <2>1, FS_AddElement
    <2> QED BY <1>1, <1>3, <2>2 DEF One
  <1>4. CASE x \in S <=> x \in T
    <2>1. T = S
      BY <1>4
    <2> QED BY <1>1, <1>4, <2>1 DEF One
  <1> QED BY <1>2, <1>3, <1>4

(* The positions of a list are a finite set, and so is any part of it.     *)
LEMMA PositionsFinite ==
    ASSUME NEW S, NEW s \in Seq(S), NEW P \in SUBSET DOMAIN s
    PROVE  IsFiniteSet(P) /\ Cardinality(P) \in Nat
  <1>1. DOMAIN s = 1 .. Len(s) /\ Len(s) \in Nat
    BY LenProperties
  <1>2. IsFiniteSet(1 .. Len(s))
    BY <1>1, FS_Interval
  <1>3. IsFiniteSet(P)
    BY <1>1, <1>2, FS_Subset
  <1> QED BY <1>3, FS_CardinalityType

LEMMA EnteredFinite ==
    ASSUME TypeOK, NEW k \in Kinds, NEW o
    PROVE  IsFiniteSet(Entered(k, o)) /\ Cardinality(Entered(k, o)) \in Nat
  <1>1. entries[k] \in Seq(Plugins)
    BY DEF TypeOK
  <1>2. Entered(k, o) \in SUBSET DOMAIN entries[k]
    BY DEF Entered
  <1> QED BY <1>1, <1>2, PositionsFinite

LEMMA HostsFinite ==
    ASSUME TypeOK, NEW o
    PROVE  IsFiniteSet(HostsOf(o)) /\ Cardinality(HostsOf(o)) \in Nat
  <1> DEFINE S == [name : Names, container : Plugins]
  <1>1. hosts \in Seq(S)
    BY DEF TypeOK
  <1> HIDE DEF S
  <1>2. HostsOf(o) \in SUBSET DOMAIN hosts
    BY DEF HostsOf
  <1> QED BY <1>1, <1>2, PositionsFinite

(* Both parts of a count are numbers.                                      *)
LEMMA CountsTyped ==
    ASSUME TypeOK, CountFinite, NEW o \in Objects
    PROVE  /\ Claims(o) \in Nat /\ Owed(o) \in Nat
           /\ Cardinality(HeldBy(o)) \in Nat /\ Cardinality(Inserting(o)) \in Nat
           /\ Cardinality(EndpointsOf(o)) \in Nat
           /\ IsFiniteSet(Inserting(o))
  <1>1. IsFiniteSet(HeldBy(o)) /\ IsFiniteSet(EndpointsOf(o))
    BY DEF CountFinite
  <1>2. Inserting(o) \in SUBSET HeldBy(o)
    BY DEF Inserting
  <1>3. IsFiniteSet(Inserting(o))
    BY <1>1, <1>2, FS_Subset
  <1>4. /\ Cardinality(HeldBy(o)) \in Nat /\ Cardinality(Inserting(o)) \in Nat
        /\ Cardinality(EndpointsOf(o)) \in Nat
    BY <1>1, <1>3, FS_CardinalityType
  <1>5. Claims(o) \in Nat
    BY <1>4 DEF Claims
  <1>6. CASE o \in Plugins
    <2>1. /\ Cardinality(Entered("container", o)) \in Nat
          /\ Cardinality(Entered("server", o)) \in Nat
      BY EnteredFinite DEF Kinds
    <2>2. Cardinality(HostsOf(o)) \in Nat /\ supplied[o] \in Nat
      BY <1>6, HostsFinite DEF TypeOK
    <2>3. Owed(o) \in Nat
      BY <1>4, <1>6, <2>1, <2>2 DEF Owed
    <2> QED BY <1>3, <1>4, <1>5, <2>3
  <1>7. CASE o \notin Plugins
    <2>1. inFlight[o] \in Nat /\ Listened(o) \in Nat
      BY <1>7 DEF TypeOK, Objects, Listened
    <2>2. Owed(o) \in Nat
      BY <1>7, <2>1 DEF Owed
    <2> QED BY <1>3, <1>4, <1>5, <2>2
  <1> QED BY <1>6, <1>7

(* A step of one thread changes what the threads have in hand by what that *)
(* thread has.                                                             *)
LEMMA ClaimsMove ==
    ASSUME TypeOK, CountFinite, NEW t \in Threads, NEW o \in Objects,
           \A u \in Threads \ {t} : pc'[u] = pc[u] /\ obj'[u] = obj[u]
    PROVE  /\ IsFiniteSet(HeldBy(o))'
           /\ Claims(o)' = Claims(o) - Claim(t, o) + Claim(t, o)'
  <1>1. IsFiniteSet(HeldBy(o)) /\ IsFiniteSet(Inserting(o))
    BY CountsTyped DEF CountFinite
  <1>2. \A y : y # t => (y \in HeldBy(o)' <=> y \in HeldBy(o))
    BY DEF HeldBy
  <1>3. \A y : y # t => (y \in Inserting(o)' <=> y \in Inserting(o))
    BY DEF HeldBy, Inserting
  <1> DEFINE H == HeldBy(o)  HP == HeldBy(o)'  I == Inserting(o)  IP == Inserting(o)'
  <1>4. Claim(t, o) = One(t, H) + One(t, I) /\ Claim(t, o)' = One(t, HP) + One(t, IP)
    BY DEF Claim, One, HeldBy, Inserting
  <1>5. /\ Claims(o) = Cardinality(H) + Cardinality(I)
        /\ Claims(o)' = Cardinality(HP) + Cardinality(IP)
    BY DEF Claims
  <1> HIDE DEF H, HP, I, IP
  <1>6. /\ IsFiniteSet(HP) /\ Cardinality(H) \in Nat /\ Cardinality(HP) \in Nat
        /\ Cardinality(HP) = Cardinality(H) - One(t, H) + One(t, HP)
    BY <1>1, <1>2, OneMoves DEF H, HP
  <1>7. /\ Cardinality(I) \in Nat /\ Cardinality(IP) \in Nat
        /\ Cardinality(IP) = Cardinality(I) - One(t, I) + One(t, IP)
    BY <1>1, <1>3, OneMoves DEF I, IP
  <1>8. Claims(o)' = Claims(o) - Claim(t, o) + Claim(t, o)'
    BY <1>4, <1>5, <1>6, <1>7 DEF One
  <1>9. IsFiniteSet(HeldBy(o))'
    BY <1>6 DEF HP
  <1> QED BY <1>8, <1>9

(* So the counts stay exact if they follow what one thread has in hand and *)
(* what is owed elsewhere.                                                 *)
LEMMA ExactMoves ==
    ASSUME TypeOK, CountFinite, Exact, NEW t \in Threads,
           \A u \in Threads \ {t} : pc'[u] = pc[u] /\ obj'[u] = obj[u],
           \A o \in Objects :
                /\ IsFiniteSet(EndpointsOf(o))'
                /\ Owed(o)' \in Int
                /\ refs'[o] = refs[o] - Owed(o) + Owed(o)' - Claim(t, o) + Claim(t, o)'
    PROVE  CountFinite' /\ Exact'
  <1>1. ASSUME NEW o \in Objects
        PROVE  IsFiniteSet(HeldBy(o))' /\ refs'[o] = Owed(o)' + Claims(o)'
    <2>1. /\ IsFiniteSet(HeldBy(o))'
          /\ Claims(o)' = Claims(o) - Claim(t, o) + Claim(t, o)'
      BY ClaimsMove
    <2>2. Claims(o) \in Nat /\ Owed(o) \in Nat
      BY CountsTyped
    <2>3. Claim(t, o) \in Int /\ Claim(t, o)' \in Int
      BY DEF Claim
    <2>4. refs[o] = Owed(o) + Claims(o)
      BY DEF Exact
    <2> QED BY <2>1, <2>2, <2>3, <2>4
  <1>2. CountFinite'
    BY <1>1 DEF CountFinite
  <1>3. Exact'
    BY <1>1 DEF Exact
  <1> QED BY <1>2, <1>3

(* The same when no thread's hands move.                                   *)
LEMMA ExactStays ==
    ASSUME TypeOK, CountFinite, Exact, pc' = pc, obj' = obj,
           \A o \in Objects :
                /\ IsFiniteSet(EndpointsOf(o))'
                /\ Owed(o)' \in Int
                /\ refs'[o] = refs[o] - Owed(o) + Owed(o)'
    PROVE  CountFinite' /\ Exact'
  <1>1. ASSUME NEW o \in Objects
        PROVE  IsFiniteSet(HeldBy(o))' /\ refs'[o] = Owed(o)' + Claims(o)'
    <2>1. HeldBy(o)' = HeldBy(o)
      BY DEF HeldBy
    <2>2. Inserting(o)' = Inserting(o)
      BY <2>1 DEF Inserting
    <2>3. Claims(o)' = Claims(o) /\ IsFiniteSet(HeldBy(o))'
      BY <2>1, <2>2 DEF Claims, CountFinite
    <2>4. Claims(o) \in Nat /\ Owed(o) \in Nat
      BY CountsTyped
    <2>5. refs[o] = Owed(o) + Claims(o)
      BY DEF Exact
    <2> QED BY <2>3, <2>4, <2>5
  <1>2. CountFinite'
    BY <1>1 DEF CountFinite
  <1>3. Exact'
    BY <1>1 DEF Exact
  <1> QED BY <1>2, <1>3

(* What a plug-in is owed, part by part.                                   *)
LEMMA PluginOwed ==
    ASSUME TypeOK, CountFinite, NEW o \in Plugins
    PROVE  /\ Owed(o) = Cardinality(Entered("container", o)) + Cardinality(Entered("server", o))
                + Cardinality(HostsOf(o)) + Cardinality(EndpointsOf(o)) + supplied[o]
           /\ Cardinality(Entered("container", o)) \in Nat
           /\ Cardinality(Entered("server", o)) \in Nat
           /\ Cardinality(HostsOf(o)) \in Nat
           /\ Cardinality(EndpointsOf(o)) \in Nat
           /\ supplied[o] \in Nat
  <1>1. o \in Objects
    BY DEF Objects
  <1>2. Cardinality(EndpointsOf(o)) \in Nat
    BY <1>1, CountsTyped
  <1>3. supplied[o] \in Nat
    BY DEF TypeOK
  <1>4. /\ Cardinality(Entered("container", o)) \in Nat
        /\ Cardinality(Entered("server", o)) \in Nat
        /\ Cardinality(HostsOf(o)) \in Nat
    BY EnteredFinite, HostsFinite DEF Kinds
  <1>5. Owed(o) = Cardinality(Entered("container", o)) + Cardinality(Entered("server", o))
                + Cardinality(HostsOf(o)) + Cardinality(EndpointsOf(o)) + supplied[o]
    BY DEF Owed
  <1> QED BY <1>2, <1>3, <1>4, <1>5

LEMMA EndpointOwed ==
    ASSUME TypeOK, NEW e \in Endpoints
    PROVE  /\ Owed(e) = inFlight[e] + Listened(e)
           /\ inFlight[e] \in Nat /\ Listened(e) \in {0, 1}
  <1>1. e \notin Plugins
    BY EndpointsAssumption
  <1> QED BY <1>1 DEF Owed, TypeOK, Listened

(* The lists, the endpoints' servers and the freed endpoints say what      *)
(* plug-ins are owed.                                                      *)
LEMMA PartsFrame ==
    ASSUME NEW o
    PROVE  /\ entries' = entries => \A k : Entered(k, o)' = Entered(k, o)
           /\ hosts' = hosts => HostsOf(o)' = HostsOf(o)
           /\ serverOf' = serverOf /\ (\A e \in Endpoints : e \in freed' <=> e \in freed)
                => EndpointsOf(o)' = EndpointsOf(o)
  <1>1. entries' = entries => \A k : Entered(k, o)' = Entered(k, o)
    BY DEF Entered
  <1>2. hosts' = hosts => HostsOf(o)' = HostsOf(o)
    BY DEF HostsOf
  <1>3. serverOf' = serverOf /\ (\A e \in Endpoints : e \in freed' <=> e \in freed)
                => EndpointsOf(o)' = EndpointsOf(o)
    BY DEF EndpointsOf
  <1> QED BY <1>1, <1>2, <1>3

LEMMA OwedFrame ==
    ASSUME entries' = entries, hosts' = hosts, supplied' = supplied,
           lstate' = lstate, serverOf' = serverOf, inFlight' = inFlight,
           \A e \in Endpoints : e \in freed' <=> e \in freed,
           NEW o
    PROVE  Owed(o)' = Owed(o) /\ EndpointsOf(o)' = EndpointsOf(o)
  <1>1. /\ \A k : Entered(k, o)' = Entered(k, o)
        /\ HostsOf(o)' = HostsOf(o)
        /\ EndpointsOf(o)' = EndpointsOf(o)
    BY PartsFrame
  <1>2. Listened(o)' = Listened(o)
    BY DEF Listened
  <1> QED BY <1>1, <1>2 DEF Owed

(* What the reference counts need of the other variables.                  *)
RefsInv == EndpointInv /\ FreedInv /\ CountFinite /\ Exact

LEMMA EndpointFrame ==
    ASSUME EndpointInv, lstate' = lstate, serverOf' = serverOf, inFlight' = inFlight,
           \A e \in Endpoints : e \in freed' <=> e \in freed
    PROVE  EndpointInv'
  BY DEF EndpointInv, EndpointOK

(* A step that takes or drops references that one thread has in hand.      *)
LEMMA HandsOnly ==
    ASSUME RInv, NEW t \in Threads,
           \A u \in Threads \ {t} : pc'[u] = pc[u] /\ obj'[u] = obj[u],
           UNCHANGED <<entries, hosts, supplied, endpointVars>>,
           \A e \in Endpoints : e \in freed' <=> e \in freed,
           FreedInv',
           \A o \in Objects : refs'[o] = refs[o] - Claim(t, o) + Claim(t, o)'
    PROVE  RefsInv'
  <1>1. /\ TypeOK /\ CountFinite /\ Exact /\ EndpointInv
    BY DEF RInv, IInv
  <1>2. ASSUME NEW o \in Objects
        PROVE  /\ IsFiniteSet(EndpointsOf(o))'
               /\ Owed(o)' \in Int
               /\ refs'[o] = refs[o] - Owed(o) + Owed(o)' - Claim(t, o) + Claim(t, o)'
    <2>1. Owed(o)' = Owed(o) /\ EndpointsOf(o)' = EndpointsOf(o)
      BY OwedFrame
    <2>2. Owed(o) \in Nat /\ refs[o] \in Int
      BY <1>1, CountsTyped DEF TypeOK
    <2>3. Claim(t, o) \in Int /\ Claim(t, o)' \in Int
      BY DEF Claim
    <2>4. IsFiniteSet(EndpointsOf(o))'
      BY <1>1, <2>1 DEF CountFinite
    <2> QED BY <2>1, <2>2, <2>3, <2>4
  <1>3. CountFinite' /\ Exact'
    BY <1>1, <1>2, ExactMoves
  <1>4. EndpointInv'
    BY <1>1, EndpointFrame
  <1> QED BY <1>3, <1>4 DEF RefsInv
-----------------------------------------------------------------------------
(* Taking and dropping references                                          *)

(* What a thread has in hand is counted, so it has not been freed.         *)
LEMMA HeldCounts ==
    ASSUME RInv, NEW t \in Threads, NEW o \in Objects, obj[t] = o
    PROVE  refs[o] >= Owed(o) + 1 /\ refs[o] >= 1 /\ o \notin freed
  <1>1. TypeOK /\ CountFinite
    BY DEF RInv, IInv
  <1>2. t \in HeldBy(o) /\ IsFiniteSet(HeldBy(o))
    BY <1>1 DEF HeldBy, CountFinite
  <1>3. Cardinality(HeldBy(o)) # 0
    BY <1>2, FS_EmptySet
  <1>4. Claims(o) >= 1
    BY <1>1, <1>3, CountsTyped DEF Claims
  <1>5. Owed(o) \in Nat /\ Claims(o) \in Nat /\ refs[o] = Owed(o) + Claims(o)
    BY <1>1, CountsTyped DEF RInv, Exact
  <1>6. refs[o] >= Owed(o) + 1 /\ refs[o] >= 1
    BY <1>4, <1>5
  <1>7. o \notin freed
    BY <1>6 DEF RInv, FreedInv
  <1> QED BY <1>6, <1>7

(* Dropping a reference to a plug-in that is in use frees that plug-in or  *)
(* nothing.                                                                *)
LEMMA DropPlugin ==
    ASSUME TypeOK, FreedInv, NEW o \in Plugins, refs[o] >= 1, Release(o)
    PROVE  /\ refs' = [refs EXCEPT ![o] = @ - 1]
           /\ \A e \in Endpoints : e \in freed' <=> e \in freed
           /\ FreedInv'
  <1>1. o \notin Endpoints /\ o \in Objects
    BY EndpointsAssumption DEF Objects
  <1>2. refs' = [refs EXCEPT ![o] = @ - 1]
    BY <1>1 DEF Release
  <1>3. freed' = freed \cup {x \in Objects : refs[x] # 0 /\ refs'[x] = 0}
    BY DEF Release
  <1>4. \A x \in Objects : x # o => refs'[x] = refs[x]
    BY <1>2 DEF TypeOK
  <1>5. \A e \in Endpoints : e \in freed' <=> e \in freed
    BY <1>1, <1>3, <1>4
  <1>6. \A x \in freed : x \in Objects /\ refs[x] = 0 /\ x # o
    BY DEF TypeOK, FreedInv
  <1>7. FreedInv'
    BY <1>3, <1>4, <1>6 DEF FreedInv
  <1> QED BY <1>2, <1>5, <1>7

(* Taking one frees nothing; what it is taken to has not been freed.       *)
LEMMA TakeFrees ==
    ASSUME TypeOK, FreedInv, NEW o \in Objects, o \notin freed, Addref(o)
    PROVE  /\ refs' = [refs EXCEPT ![o] = @ + 1]
           /\ \A e \in Endpoints : e \in freed' <=> e \in freed
           /\ FreedInv'
  <1>1. refs' = [refs EXCEPT ![o] = @ + 1] /\ freed' = freed
    BY DEF Addref
  <1>2. \A x \in freed : x \in Objects /\ refs[x] = 0 /\ x # o
    BY DEF TypeOK, FreedInv
  <1>3. FreedInv'
    BY <1>1, <1>2 DEF FreedInv, TypeOK
  <1> QED BY <1>1, <1>3

(* A thread with nothing in hand has no reference.                         *)
LEMMA EmptyHand ==
    ASSUME NEW t, NEW o \in Objects
    PROVE  (obj[t] = NULL => Claim(t, o) = 0) /\ (obj'[t] = NULL => Claim(t, o)' = 0)
  BY NullAssumption DEF Claim

(* A job that ends touches no other thread.                                *)
LEMMA EndJobMoves ==
    ASSUME TypeOK, NEW t \in Threads, EndJob(t)
    PROVE  /\ \A u \in Threads \ {t} : pc'[u] = pc[u] /\ obj'[u] = obj[u]
           /\ pc'[t] = "next" /\ obj'[t] = NULL
  BY DEF TypeOK, EndJob

(* Counts that do not change, for a thread that has nothing in hand before *)
(* or after.                                                               *)
LEMMA NothingInHand ==
    ASSUME RInv, NEW t \in Threads, obj[t] = NULL, EndJob(t),
           UNCHANGED <<entries, hosts, supplied, endpointVars, refVars>>
    PROVE  RefsInv'
  <1>1. TypeOK /\ FreedInv
    BY DEF RInv, IInv
  <1>2. /\ \A u \in Threads \ {t} : pc'[u] = pc[u] /\ obj'[u] = obj[u]
        /\ obj'[t] = NULL
    BY <1>1, EndJobMoves
  <1>3. \A o \in Objects : refs'[o] = refs[o] - Claim(t, o) + Claim(t, o)'
    BY <1>1, <1>2, EmptyHand DEF TypeOK
  <1>4. FreedInv'
    BY <1>1 DEF FreedInv
  <1> QED BY <1>2, <1>3, <1>4, HandsOnly

(* The end of a job that drops what the thread has in hand.                *)
LEMMA DropHeld ==
    ASSUME RInv, NEW t \in Threads, obj[t] \in Plugins, pc[t] # "insert",
           Release(obj[t]), obj'[t] = NULL,
           \A u \in Threads \ {t} : pc'[u] = pc[u] /\ obj'[u] = obj[u],
           UNCHANGED <<entries, hosts, supplied, endpointVars>>
    PROVE  RefsInv'
  <1>1. TypeOK /\ FreedInv
    BY DEF RInv, IInv
  <1>2. PICK o \in Plugins : o = obj[t]
    OBVIOUS
  <1>3. o \in Objects
    BY DEF Objects
  <1>4. refs[o] >= 1
    BY <1>2, <1>3, HeldCounts
  <1>5. /\ refs' = [refs EXCEPT ![o] = @ - 1]
        /\ \A e \in Endpoints : e \in freed' <=> e \in freed
        /\ FreedInv'
    BY <1>1, <1>2, <1>4, DropPlugin
  <1>6. ASSUME NEW x \in Objects
        PROVE  refs'[x] = refs[x] - Claim(t, x) + Claim(t, x)'
    <2>1. Claim(t, x)' = 0
      BY EmptyHand
    <2>2. Claim(t, x) = IF x = o THEN 1 ELSE 0
      BY <1>2 DEF Claim
    <2> QED BY <1>1, <1>3, <1>5, <2>1, <2>2 DEF TypeOK
  <1> QED BY <1>5, <1>6, HandsOnly
-----------------------------------------------------------------------------
(* An entry that is added is one more of its plug-in, and of no other.     *)
LEMMA EntryAdded ==
    ASSUME TypeOK, NEW kind \in Kinds, NEW o \in Plugins, NEW k \in Kinds, NEW p,
           entries' = [entries EXCEPT ![kind] = Append(@, o)]
    PROVE  /\ Cardinality(Entered(k, p)) \in Nat
           /\ Cardinality(Entered(k, p))'
                    = Cardinality(Entered(k, p)) + (IF k = kind /\ p = o THEN 1 ELSE 0)
  <1>1. entries[k] \in Seq(Plugins) /\ Cardinality(Entered(k, p)) \in Nat
        /\ IsFiniteSet(Entered(k, p))
    BY EnteredFinite DEF TypeOK
  <1>2. CASE k # kind
    <2>1. entries'[k] = entries[k]
      BY <1>2 DEF TypeOK
    <2>2. Entered(k, p)' = Entered(k, p)
      BY <2>1 DEF Entered
    <2> QED BY <1>1, <1>2, <2>2
  <1>3. CASE k = kind
    <2> DEFINE s == entries[k]  n == Len(s) + 1
               E == Entered(k, p)  EP == Entered(k, p)'
    <2>1. entries'[k] = Append(s, o)
      BY <1>3 DEF TypeOK
    <2>2. E = {i \in DOMAIN s : s[i] = p} /\ EP = {i \in DOMAIN Append(s, o) : Append(s, o)[i] = p}
      BY <2>1 DEF Entered
    <2>3. s \in Seq(Plugins)
      BY <1>1
    <2> HIDE DEF s, E, EP
    <2>4. \A y : y # n => (y \in EP <=> y \in E)
      BY <2>2, <2>3
    <2>5. n \notin E /\ (n \in EP <=> o = p)
      BY <2>2, <2>3
    <2>6. IsFiniteSet(E) /\ Cardinality(E) \in Nat
      BY <1>1 DEF E
    <2> HIDE DEF n
    <2>7. Cardinality(EP) = Cardinality(E) - One(n, E) + One(n, EP)
      BY <2>4, <2>6, OneMoves
    <2>8. Cardinality(EP) = Cardinality(E) + (IF p = o THEN 1 ELSE 0)
      BY <2>5, <2>6, <2>7 DEF One
    <2> QED BY <1>1, <1>3, <2>8 DEF E, EP
  <1> QED BY <1>2, <1>3

(* The reference that the entry takes over leaves the thread's hand.       *)
LEMMA InsertRefs ==
    ASSUME RInv, NEW t \in Threads, Insert(t)
    PROVE  RefsInv'
  <1>1. TypeOK /\ CountFinite /\ Exact /\ EndpointInv /\ FreedInv /\ ThreadOK(t)
    BY DEF RInv, IInv, ThreadInv
  <1>2. PICK o \in Plugins : o = obj[t]
    BY <1>1 DEF Insert, ThreadOK, LoadPCs
  <1>3. PICK kind \in Kinds : kind = KindOf[o]
    BY PluginsAssumption
  <1>4. /\ entries' = [entries EXCEPT ![kind] = Append(@, o)]
        /\ UNCHANGED <<jobs, obj, hosts, supplied, endpointVars, refVars>>
        /\ pc[t] = "insert" /\ pc' = [pc EXCEPT ![t] = "registered"]
    BY <1>2, <1>3 DEF Insert, Inserted
  <1>5. /\ \A u \in Threads \ {t} : pc'[u] = pc[u] /\ obj'[u] = obj[u]
        /\ pc'[t] = "registered"
    BY <1>1, <1>4 DEF TypeOK
  <1>6. ASSUME NEW x \in Objects
        PROVE  /\ IsFiniteSet(EndpointsOf(x))'
               /\ Owed(x)' \in Int
               /\ refs'[x] = refs[x] - Owed(x) + Owed(x)' - Claim(t, x) + Claim(t, x)'
    <2>1. Claim(t, x) = (IF x = o THEN 2 ELSE 0) /\ Claim(t, x)' = (IF x = o THEN 1 ELSE 0)
      BY <1>2, <1>4, <1>5 DEF Claim
    <2>2. HostsOf(x)' = HostsOf(x) /\ EndpointsOf(x)' = EndpointsOf(x)
      BY <1>4, PartsFrame
    <2>3. Owed(x)' = Owed(x) + (IF x = o THEN 1 ELSE 0)
      <3>1. CASE x \in Plugins
        <4> DEFINE C == Cardinality(Entered("container", x))  S == Cardinality(Entered("server", x))
                   H == Cardinality(HostsOf(x))  E == Cardinality(EndpointsOf(x))
        <4>1. /\ Owed(x) = C + S + H + E + supplied[x]
              /\ C \in Nat /\ S \in Nat /\ H \in Nat /\ E \in Nat /\ supplied[x] \in Nat
          BY <1>1, <3>1, PluginOwed
        <4>2. Owed(x)' = C' + S' + H + E + supplied[x]
          BY <1>4, <2>2, <3>1 DEF Owed
        <4>3. /\ C' = C + (IF "container" = kind /\ x = o THEN 1 ELSE 0)
              /\ S' = S + (IF "server" = kind /\ x = o THEN 1 ELSE 0)
          BY <1>1, <1>4, EntryAdded DEF Kinds
        <4> HIDE DEF C, S, H, E
        <4>4. kind = "container" \/ kind = "server"
          BY DEF Kinds
        <4> QED BY <4>1, <4>2, <4>3, <4>4
      <3>2. CASE x \notin Plugins
        <4>1. x \in Endpoints /\ x # o
          BY <3>2 DEF Objects
        <4>2. Owed(x)' = Owed(x) /\ Owed(x) \in Nat
          BY <1>1, <1>4, <3>2, CountsTyped DEF Owed, Listened
        <4> QED BY <4>1, <4>2
      <3> QED BY <3>1, <3>2
    <2>4. Owed(x) \in Nat /\ refs[x] \in Int /\ refs'[x] = refs[x]
      BY <1>1, <1>4, CountsTyped DEF TypeOK
    <2>5. IsFiniteSet(EndpointsOf(x))'
      BY <1>1, <2>2 DEF CountFinite
    <2> QED BY <2>1, <2>3, <2>4, <2>5
  <1>7. CountFinite' /\ Exact'
    BY <1>1, <1>5, <1>6, ExactMoves
  <1>8. EndpointInv' /\ FreedInv'
    BY <1>1, <1>4, EndpointFrame DEF FreedInv
  <1> QED BY <1>7, <1>8 DEF RefsInv

(* Loading a module: the reference that containerware_module_init creates, *)
(* and the one that the entry takes over, go from hand to registry.        *)
LEMMA LoadRefs ==
    ASSUME RInv, NEW t \in Threads, LoadStep(t)
    PROVE  RefsInv'
  <1>1. TypeOK /\ FreedInv /\ ThreadOK(t) /\ HandOK(t)
    BY DEF RInv, IInv, ThreadInv, HandInv
  <1>2. CASE LoadModule(t)
    <2>1. obj[t] = NULL
      BY <1>1, <1>2 DEF LoadModule, HandOK
    <2>2. CASE EndJob(t) /\ UNCHANGED refVars
      BY <1>2, <2>1, <2>2, NothingInHand DEF LoadModule
    <2>3. CASE ~(EndJob(t) /\ UNCHANGED refVars)
      <3> DEFINE o == Head(jobs[t]).plugin
      <3>1. o \in Objects
        <4>1. Head(jobs[t]) \in JobKinds
          BY <1>1, <1>2 DEF LoadModule, TypeOK
        <4> QED BY <1>2, <4>1 DEF LoadModule, JobKinds, Objects
      <3>2. /\ refs[o] = 0 /\ o \notin freed /\ refs' = [refs EXCEPT ![o] = 1]
            /\ obj' = [obj EXCEPT ![t] = o] /\ pc' = [pc EXCEPT ![t] = "register"]
            /\ freed' = freed
        BY <1>2, <2>3 DEF LoadModule
      <3> HIDE DEF o
      <3>3. PICK p \in Objects : p = o
        BY <3>1
      <3>4. /\ \A u \in Threads \ {t} : pc'[u] = pc[u] /\ obj'[u] = obj[u]
            /\ obj'[t] = p /\ pc'[t] = "register"
        BY <1>1, <3>2, <3>3 DEF TypeOK
      <3>5. ASSUME NEW x \in Objects
            PROVE  refs'[x] = refs[x] - Claim(t, x) + Claim(t, x)'
        <4>1. Claim(t, x) = 0
          BY <2>1, EmptyHand
        <4>2. Claim(t, x)' = IF x = p THEN 1 ELSE 0
          BY <3>4 DEF Claim
        <4> QED BY <1>1, <3>2, <3>3, <4>1, <4>2 DEF TypeOK
      <3>6. FreedInv'
        BY <1>1, <3>1, <3>2 DEF FreedInv, TypeOK
      <3> QED BY <1>2, <3>2, <3>4, <3>5, <3>6, HandsOnly DEF LoadModule
    <2> QED BY <2>2, <2>3
  <1>3. CASE Scan(t)
    <2>1. pc[t] = "register" /\ obj' = obj
      BY <1>3 DEF Scan
    <2>2. PICK o \in Plugins : o = obj[t]
      BY <1>1, <2>1 DEF ThreadOK, LoadPCs
    <2>3. o \in Objects
      BY DEF Objects
    <2>4. o \notin freed
      BY <2>2, <2>3, HeldCounts
    <2>5. CASE Goto(t, "registered") /\ UNCHANGED refVars
      <3>1. /\ \A u \in Threads \ {t} : pc'[u] = pc[u] /\ obj'[u] = obj[u]
            /\ pc'[t] = "registered"
        BY <1>1, <2>1, <2>5 DEF TypeOK
      <3>2. \A x \in Objects : Claim(t, x)' = Claim(t, x) /\ Claim(t, x) \in Int
        BY <2>1, <3>1 DEF Claim
      <3>3. \A x \in Objects : refs'[x] = refs[x] - Claim(t, x) + Claim(t, x)'
        BY <1>1, <2>5, <3>2 DEF TypeOK
      <3>4. FreedInv'
        BY <1>1, <2>5 DEF FreedInv
      <3> QED BY <1>3, <2>5, <3>1, <3>3, <3>4, HandsOnly DEF Scan
    <2>6. CASE Goto(t, "insert") /\ Addref(o)
      <3>1. /\ \A u \in Threads \ {t} : pc'[u] = pc[u] /\ obj'[u] = obj[u]
            /\ pc'[t] = "insert"
        BY <1>1, <2>1, <2>6 DEF TypeOK
      <3>2. /\ refs' = [refs EXCEPT ![o] = @ + 1]
            /\ \A e \in Endpoints : e \in freed' <=> e \in freed
            /\ FreedInv'
        BY <1>1, <2>3, <2>4, <2>6, TakeFrees
      <3>3. ASSUME NEW x \in Objects
            PROVE  refs'[x] = refs[x] - Claim(t, x) + Claim(t, x)'
        <4>1. Claim(t, x) = IF x = o THEN 1 ELSE 0
          BY <2>1, <2>2 DEF Claim
        <4>2. Claim(t, x)' = IF x = o THEN 2 ELSE 0
          BY <2>1, <2>2, <3>1 DEF Claim
        <4> QED BY <1>1, <2>3, <3>2, <4>1, <4>2 DEF TypeOK
      <3> QED BY <1>3, <3>1, <3>2, <3>3, HandsOnly DEF Scan
    <2> QED BY <1>3, <2>2, <2>5, <2>6 DEF Scan
  <1>4. CASE Insert(t)
    BY <1>4, InsertRefs
  <1>5. CASE InsertFails(t)
    <2>1. /\ pc[t] = "insert" /\ obj' = obj /\ pc' = [pc EXCEPT ![t] = "registered"]
          /\ Release(obj[t])
      BY <1>5 DEF InsertFails
    <2>2. PICK o \in Plugins : o = obj[t]
      BY <1>1, <2>1 DEF ThreadOK, LoadPCs
    <2>3. o \in Objects
      BY DEF Objects
    <2>4. refs[o] >= 1
      BY <2>2, <2>3, HeldCounts
    <2>5. /\ refs' = [refs EXCEPT ![o] = @ - 1]
          /\ \A e \in Endpoints : e \in freed' <=> e \in freed
          /\ FreedInv'
      BY <1>1, <2>1, <2>2, <2>4, DropPlugin
    <2>6. /\ \A u \in Threads \ {t} : pc'[u] = pc[u] /\ obj'[u] = obj[u]
          /\ pc'[t] = "registered"
      BY <1>1, <2>1 DEF TypeOK
    <2>7. ASSUME NEW x \in Objects
          PROVE  refs'[x] = refs[x] - Claim(t, x) + Claim(t, x)'
      <3>1. Claim(t, x) = IF x = o THEN 2 ELSE 0
        BY <2>1, <2>2 DEF Claim
      <3>2. Claim(t, x)' = IF x = o THEN 1 ELSE 0
        BY <2>1, <2>2, <2>6 DEF Claim
      <3> QED BY <1>1, <2>3, <2>5, <3>1, <3>2 DEF TypeOK
    <2> QED BY <1>5, <2>5, <2>6, <2>7, HandsOnly DEF InsertFails
  <1>6. CASE Registered(t)
    <2>1. pc[t] = "registered" /\ EndJob(t) /\ Release(obj[t])
      BY <1>6 DEF Registered
    <2>2. obj[t] \in Plugins
      BY <1>1, <2>1 DEF ThreadOK, LoadPCs
    <2>3. /\ \A u \in Threads \ {t} : pc'[u] = pc[u] /\ obj'[u] = obj[u]
          /\ obj'[t] = NULL
      BY <1>1, <2>1, EndJobMoves
    <2> QED BY <1>6, <2>1, <2>2, <2>3, DropHeld DEF Registered
  <1> QED BY <1>2, <1>3, <1>4, <1>5, <1>6 DEF LoadStep
-----------------------------------------------------------------------------
(* What a registry, a host or an endpoint refers to is counted, so it has  *)
(* not been freed.                                                         *)
LEMMA UsedCounts ==
    ASSUME RInv, NEW o \in Plugins,
           \/ \E k \in Kinds : Entered(k, o) # {}
           \/ HostsOf(o) # {}
           \/ EndpointsOf(o) # {}
    PROVE  refs[o] >= 1 /\ o \notin freed
  <1>1. TypeOK /\ CountFinite
    BY DEF RInv, IInv
  <1>2. o \in Objects
    BY DEF Objects
  <1> DEFINE C == Cardinality(Entered("container", o))  S == Cardinality(Entered("server", o))
             H == Cardinality(HostsOf(o))  E == Cardinality(EndpointsOf(o))
  <1>3. /\ Owed(o) = C + S + H + E + supplied[o]
        /\ C \in Nat /\ S \in Nat /\ H \in Nat /\ E \in Nat /\ supplied[o] \in Nat
    BY <1>1, PluginOwed
  <1>4. C # 0 \/ S # 0 \/ H # 0 \/ E # 0
    <2>1. /\ IsFiniteSet(Entered("container", o)) /\ IsFiniteSet(Entered("server", o))
          /\ IsFiniteSet(HostsOf(o)) /\ IsFiniteSet(EndpointsOf(o))
      BY <1>1, <1>2, EnteredFinite, HostsFinite DEF CountFinite, Kinds
    <2>2. /\ C = 0 <=> Entered("container", o) = {}
          /\ S = 0 <=> Entered("server", o) = {}
          /\ H = 0 <=> HostsOf(o) = {}
          /\ E = 0 <=> EndpointsOf(o) = {}
      BY <2>1, FS_EmptySet
    <2> QED BY <2>2 DEF Kinds
  <1>5. Claims(o) \in Nat /\ refs[o] = Owed(o) + Claims(o)
    BY <1>1, <1>2, CountsTyped DEF RInv, Exact
  <1> HIDE DEF C, S, H, E
  <1>6. refs[o] >= 1
    BY <1>3, <1>4, <1>5
  <1>7. o \notin freed
    BY <1>6 DEF RInv, FreedInv
  <1> QED BY <1>6, <1>7

(* So a lookup yields a plug-in that is still there.                       *)
LEMMA BoundCounts ==
    ASSUME RInv, NEW k \in Kinds, NEW n, Lookup(k, n) # NULL
    PROVE  /\ Lookup(k, n) \in Plugins
           /\ refs[Lookup(k, n)] >= 1
           /\ Lookup(k, n) \notin freed
  <1>1. TypeOK
    BY DEF RInv, IInv
  <1>2. Lookup(k, n) \in Plugins
    BY <1>1, LookupTyped
  <1>3. PICK i \in Found(k, n) : Lookup(k, n) = entries[k][i]
    BY <1>1, LookupFirst
  <1>4. PICK o \in Plugins : o = Lookup(k, n)
    BY <1>2
  <1>5. i \in Entered(k, o)
    BY <1>3, <1>4 DEF Entered, Found
  <1>6. refs[o] >= 1 /\ o \notin freed
    BY <1>5, UsedCounts
  <1> QED BY <1>4, <1>6

(* An endpoint that is not just being handed to a listener is in no        *)
(* thread's hand.                                                          *)
LEMMA NobodyHolds ==
    ASSUME RInv, NEW e \in Endpoints, lstate[e] # "made"
    PROVE  Claims(e) = 0
  <1>1. ASSUME NEW u \in Threads, obj[u] = e
        PROVE  FALSE
    <2>1. e \notin Plugins /\ e # NULL
      BY EndpointsAssumption, NullAssumption DEF Objects
    <2>2. ThreadOK(u) /\ HandOK(u) /\ pc[u] \in PCs
      BY DEF RInv, IInv, ThreadInv, HandInv, TypeOK
    <2>3. pc[u] \in {"listen", "discard"}
      BY <1>1, <2>1, <2>2 DEF ThreadOK, HandOK, PCs, LoadPCs, HostPCs
    <2>4. lstate[obj[u]] = "made"
      BY <2>2, <2>3 DEF HandOK
    <2> QED BY <1>1, <2>4
  <1>2. HeldBy(e) = {} /\ Inserting(e) = {}
    BY <1>1 DEF HeldBy, Inserting
  <1> QED BY <1>2, FS_EmptySet DEF Claims

(* A host takes a reference of its own, to what has been located.          *)
LEMMA HostAdded ==
    ASSUME TypeOK, NEW h, h.container \in Plugins, hosts' = Append(hosts, h), NEW o
    PROVE  /\ Cardinality(HostsOf(o)) \in Nat
           /\ Cardinality(HostsOf(o))' = Cardinality(HostsOf(o)) + (IF h.container = o THEN 1 ELSE 0)
  <1> DEFINE S == [name : Names, container : Plugins]  n == Len(hosts) + 1
             E == HostsOf(o)  EP == HostsOf(o)'
  <1>1. hosts \in Seq(S)
    BY DEF TypeOK
  <1>2. E = {i \in DOMAIN hosts : hosts[i].container = o}
        /\ EP = {i \in DOMAIN Append(hosts, h) : Append(hosts, h)[i].container = o}
    BY DEF HostsOf
  <1>3. IsFiniteSet(E) /\ Cardinality(E) \in Nat
    BY HostsFinite
  <1> HIDE DEF S, E, EP
  <1>4. /\ DOMAIN hosts = 1 .. Len(hosts) /\ Len(hosts) \in Nat
        /\ DOMAIN Append(hosts, h) = 1 .. Len(hosts) + 1
        /\ \A i \in 1 .. Len(hosts) : Append(hosts, h)[i] = hosts[i]
        /\ Append(hosts, h)[n] = h
    BY <1>1
  <1>5. \A y : y # n => (y \in EP <=> y \in E)
    BY <1>2, <1>4
  <1>6. n \notin E /\ (n \in EP <=> h.container = o)
    BY <1>2, <1>4
  <1> HIDE DEF n
  <1>7. Cardinality(EP) = Cardinality(E) - One(n, E) + One(n, EP)
    BY <1>3, <1>5, OneMoves
  <1>8. Cardinality(EP) = Cardinality(E) + (IF h.container = o THEN 1 ELSE 0)
    BY <1>3, <1>6, <1>7 DEF One
  <1> QED BY <1>3, <1>8 DEF E, EP

LEMMA AddHostRefs ==
    ASSUME RInv, NEW t \in Threads, AddHost(t)
    PROVE  RefsInv'
  <1>1. TypeOK /\ CountFinite /\ Exact /\ EndpointInv /\ FreedInv /\ ThreadOK(t)
    BY DEF RInv, IInv, ThreadInv
  <1>2. pc[t] = "host" /\ UNCHANGED <<jobs, obj, entries, supplied, endpointVars>>
    BY DEF AddHost
  <1>3. PICK o \in Plugins : o = obj[t]
    BY <1>1, <1>2 DEF ThreadOK, HostPCs
  <1>4. o \in Objects
    BY DEF Objects
  <1>5. o \notin freed
    BY <1>3, <1>4, HeldCounts
  <1> DEFINE h == [name |-> Head(jobs[t]).name, container |-> obj[t]]
  <1>6. CASE hosts' = Append(hosts, h) /\ Addref(obj[t]) /\ Goto(t, "located")
    <2>1. h.container = o
      BY <1>3
    <2> HIDE DEF h
    <2>2. /\ refs' = [refs EXCEPT ![o] = @ + 1]
          /\ \A e \in Endpoints : e \in freed' <=> e \in freed
          /\ FreedInv'
      BY <1>1, <1>3, <1>4, <1>5, <1>6, TakeFrees
    <2>3. /\ \A u \in Threads \ {t} : pc'[u] = pc[u] /\ obj'[u] = obj[u]
          /\ pc'[t] = "located"
      BY <1>1, <1>2, <1>6 DEF TypeOK
    <2>4. ASSUME NEW x \in Objects
          PROVE  /\ IsFiniteSet(EndpointsOf(x))'
                 /\ Owed(x)' \in Int
                 /\ refs'[x] = refs[x] - Owed(x) + Owed(x)' - Claim(t, x) + Claim(t, x)'
      <3>1. Claim(t, x)' = Claim(t, x) /\ Claim(t, x) \in Int
        BY <1>2, <2>3 DEF Claim
      <3>2. EndpointsOf(x)' = EndpointsOf(x) /\ \A k : Entered(k, x)' = Entered(k, x)
        BY <1>2, <2>2, PartsFrame
      <3>3. Owed(x)' = Owed(x) + (IF x = o THEN 1 ELSE 0)
        <4>1. CASE x \in Plugins
          <5> DEFINE C == Cardinality(Entered("container", x))  S == Cardinality(Entered("server", x))
                     H == Cardinality(HostsOf(x))  E == Cardinality(EndpointsOf(x))
          <5>1. /\ Owed(x) = C + S + H + E + supplied[x]
                /\ C \in Nat /\ S \in Nat /\ H \in Nat /\ E \in Nat /\ supplied[x] \in Nat
            BY <1>1, <4>1, PluginOwed
          <5>2. Owed(x)' = C + S + H' + E + supplied[x]
            BY <1>2, <3>2, <4>1 DEF Owed
          <5>3. H' = H + (IF h.container = x THEN 1 ELSE 0)
            BY <1>1, <1>6, <2>1, HostAdded
          <5> HIDE DEF C, S, H, E
          <5> QED BY <2>1, <5>1, <5>2, <5>3
        <4>2. CASE x \notin Plugins
          <5>1. x # o
            BY <4>2
          <5>2. Owed(x)' = Owed(x) /\ Owed(x) \in Nat
            BY <1>1, <1>2, <4>2, CountsTyped DEF Owed, Listened
          <5> QED BY <5>1, <5>2
        <4> QED BY <4>1, <4>2
      <3>4. Owed(x) \in Nat /\ refs[x] \in Int
        BY <1>1, CountsTyped DEF TypeOK
      <3>5. refs'[x] = refs[x] + (IF x = o THEN 1 ELSE 0)
        BY <1>1, <2>2, <3>4 DEF TypeOK
      <3>6. IsFiniteSet(EndpointsOf(x))'
        BY <1>1, <3>2 DEF CountFinite
      <3> QED BY <3>1, <3>3, <3>4, <3>5, <3>6
    <2>5. CountFinite' /\ Exact'
      BY <1>1, <2>3, <2>4, ExactMoves
    <2>6. EndpointInv'
      BY <1>1, <1>2, <2>2, EndpointFrame
    <2> QED BY <2>2, <2>5, <2>6 DEF RefsInv
  <1>7. CASE Goto(t, "abandon") /\ UNCHANGED <<hosts, refVars>>
    <2>1. /\ \A u \in Threads \ {t} : pc'[u] = pc[u] /\ obj'[u] = obj[u]
          /\ pc'[t] = "abandon"
      BY <1>1, <1>2, <1>7 DEF TypeOK
    <2>2. \A x \in Objects : Claim(t, x)' = Claim(t, x) /\ Claim(t, x) \in Int
      BY <1>2, <2>1 DEF Claim
    <2>3. \A x \in Objects : refs'[x] = refs[x] - Claim(t, x) + Claim(t, x)'
      BY <1>1, <1>7, <2>2 DEF TypeOK
    <2>4. FreedInv'
      BY <1>1, <1>7 DEF FreedInv
    <2> QED BY <1>2, <1>7, <2>1, <2>3, <2>4, HandsOnly
  <1> QED BY <1>6, <1>7 DEF AddHost

(* A new endpoint has the reference of the thread that asked for it, and   *)
(* takes one to its server.                                                *)
LEMMA CreateRefs ==
    ASSUME RInv, NEW t \in Threads, NEW e \in Endpoints, CreateEndpoint(t, e)
    PROVE  RefsInv'
  <1>1. TypeOK /\ CountFinite /\ Exact /\ EndpointInv /\ FreedInv /\ HandOK(t) /\ EndpointOK(e)
    BY DEF RInv, IInv, HandInv, EndpointInv
  <1> DEFINE l == Lookup("server", Head(jobs[t]).scheme)
  <1>2. /\ l # NULL /\ serverOf' = [serverOf EXCEPT ![e] = l]
        /\ refs' = [refs EXCEPT ![e] = 1, ![l] = @ + 1]
        /\ lstate' = [lstate EXCEPT ![e] = "made"]
        /\ obj' = [obj EXCEPT ![t] = e] /\ pc' = [pc EXCEPT ![t] = "listen"]
        /\ UNCHANGED <<jobs, entries, hosts, supplied, inFlight, freed>>
        /\ pc[t] = "endpoint" /\ lstate[e] = "none"
    BY DEF CreateEndpoint
  <1>3. l \in Plugins /\ l \notin freed
    BY <1>2, BoundCounts DEF Kinds
  <1>4. PICK s \in Plugins : s = l
    BY <1>3
  <1> HIDE DEF l
  <1>5. /\ e \in Objects /\ s \in Objects /\ e \notin Plugins /\ s \notin freed /\ e \notin freed
        /\ serverOf[e] = NULL /\ NULL \notin Objects /\ inFlight[e] = 0
    BY <1>1, <1>2, <1>3, <1>4, EndpointsAssumption, NullAssumption DEF Objects, EndpointOK, TypeOK
  <1>6. /\ \A u \in Threads \ {t} : pc'[u] = pc[u] /\ obj'[u] = obj[u]
        /\ obj'[t] = e /\ pc'[t] = "listen" /\ obj[t] = NULL
    BY <1>1, <1>2 DEF TypeOK, HandOK
  <1>7. \A x \in Objects : refs'[x] = IF x = e THEN 1 ELSE IF x = s THEN refs[x] + 1 ELSE refs[x]
    BY <1>1, <1>2, <1>4, <1>5 DEF TypeOK
  <1>8. \A x \in Endpoints : /\ lstate'[x] = IF x = e THEN "made" ELSE lstate[x]
                             /\ serverOf'[x] = IF x = e THEN s ELSE serverOf[x]
    BY <1>1, <1>2, <1>4 DEF TypeOK
  <1>9. refs[e] = 0
    <2>1. Claims(e) = 0
      BY <1>2, NobodyHolds
    <2>2. Owed(e) = 0
      BY <1>1, <1>2, <1>5, EndpointOwed DEF Listened
    <2> QED BY <1>1, <1>5, <2>1, <2>2 DEF Exact
  <1>10. ASSUME NEW x \in Objects
         PROVE  /\ IsFiniteSet(EndpointsOf(x))'
                /\ Cardinality(EndpointsOf(x))'
                        = Cardinality(EndpointsOf(x)) + (IF x = s THEN 1 ELSE 0)
    <2> DEFINE E == EndpointsOf(x)  EP == EndpointsOf(x)'
    <2>1. /\ \A y : y # e => (y \in EP <=> y \in E)
          /\ e \notin E /\ (e \in EP <=> x = s)
      BY <1>2, <1>5, <1>8 DEF EndpointsOf
    <2>2. IsFiniteSet(E)
      BY <1>1 DEF CountFinite
    <2> HIDE DEF E, EP
    <2>3. /\ IsFiniteSet(EP) /\ Cardinality(E) \in Nat
          /\ Cardinality(EP) = Cardinality(E) - One(e, E) + One(e, EP)
      BY <2>1, <2>2, OneMoves
    <2>4. Cardinality(EP) = Cardinality(E) + (IF x = s THEN 1 ELSE 0)
      BY <2>1, <2>3 DEF One
    <2> QED BY <2>3, <2>4 DEF E, EP
  <1>11. ASSUME NEW x \in Objects
         PROVE  /\ Owed(x)' \in Int
                /\ refs'[x] = refs[x] - Owed(x) + Owed(x)' - Claim(t, x) + Claim(t, x)'
    <2>1. Claim(t, x) = 0 /\ Claim(t, x)' = IF x = e THEN 1 ELSE 0
      BY <1>5, <1>6 DEF Claim
    <2>2. Owed(x)' = Owed(x) + (IF x = s THEN 1 ELSE 0)
      <3>1. CASE x \in Plugins
        <4>1. HostsOf(x)' = HostsOf(x) /\ \A k : Entered(k, x)' = Entered(k, x)
          BY <1>2, PartsFrame
        <4> DEFINE C == Cardinality(Entered("container", x))  S == Cardinality(Entered("server", x))
                   H == Cardinality(HostsOf(x))  E == Cardinality(EndpointsOf(x))
        <4>2. /\ Owed(x) = C + S + H + E + supplied[x]
              /\ C \in Nat /\ S \in Nat /\ H \in Nat /\ E \in Nat /\ supplied[x] \in Nat
          BY <1>1, <3>1, PluginOwed
        <4>3. Owed(x)' = C + S + H + E' + supplied[x]
          BY <1>2, <3>1, <4>1 DEF Owed
        <4>4. E' = E + (IF x = s THEN 1 ELSE 0)
          BY <1>10
        <4> HIDE DEF C, S, H, E
        <4> QED BY <4>2, <4>3, <4>4
      <3>2. CASE x \notin Plugins
        <4>1. x \in Endpoints /\ x # s
          BY <3>2 DEF Objects
        <4>2. Listened(x)' = Listened(x)
          BY <1>2, <1>8, <4>1 DEF Listened
        <4>3. Owed(x)' = Owed(x) /\ Owed(x) \in Nat
          BY <1>1, <1>2, <3>2, <4>2, CountsTyped DEF Owed
        <4> QED BY <4>1, <4>3
      <3> QED BY <3>1, <3>2
    <2>3. Owed(x) \in Nat /\ refs[x] \in Int
      BY <1>1, CountsTyped DEF TypeOK
    <2> QED BY <1>5, <1>7, <1>9, <2>1, <2>2, <2>3
  <1>12. CountFinite' /\ Exact'
    BY <1>1, <1>6, <1>10, <1>11, ExactMoves
  <1>13. FreedInv'
    BY <1>1, <1>2, <1>5, <1>7 DEF FreedInv, TypeOK
  <1>14. EndpointInv'
    <2> SUFFICES ASSUME NEW x \in Endpoints PROVE EndpointOK(x)'
      BY DEF EndpointInv
    <2>1. EndpointOK(x) /\ inFlight'[x] = inFlight[x] /\ inFlight[x] \in Nat /\ freed' = freed
      BY <1>1, <1>2 DEF EndpointInv, TypeOK
    <2> QED BY <1>5, <1>8, <2>1 DEF EndpointOK
  <1> QED BY <1>12, <1>13, <1>14 DEF RefsInv

(* The parts of a plug-in's count stay; those of an endpoint follow its    *)
(* listener and its requests.                                              *)
LEMMA OwedFollows ==
    ASSUME TypeOK, CountFinite, entries' = entries, hosts' = hosts, supplied' = supplied,
           serverOf' = serverOf, \A e \in Endpoints : e \in freed' <=> e \in freed,
           NEW o \in Objects
    PROVE  /\ IsFiniteSet(EndpointsOf(o))'
           /\ o \in Plugins => Owed(o)' = Owed(o)
           /\ o \in Endpoints => Owed(o)' = inFlight'[o] + Listened(o)'
  <1>1. /\ \A k : Entered(k, o)' = Entered(k, o)
        /\ HostsOf(o)' = HostsOf(o)
        /\ EndpointsOf(o)' = EndpointsOf(o)
    BY PartsFrame
  <1>2. IsFiniteSet(EndpointsOf(o))'
    BY <1>1 DEF CountFinite
  <1>3. o \in Plugins => Owed(o)' = Owed(o)
    BY <1>1 DEF Owed
  <1>4. o \in Endpoints => Owed(o)' = inFlight'[o] + Listened(o)'
    BY EndpointsAssumption DEF Owed
  <1> QED BY <1>2, <1>3, <1>4

(* The listener takes over the thread's reference.                         *)
LEMMA StartRefs ==
    ASSUME RInv, NEW t \in Threads, StartListener(t)
    PROVE  RefsInv'
  <1>1. /\ TypeOK /\ CountFinite /\ Exact /\ EndpointInv /\ FreedInv /\ ThreadOK(t) /\ HandOK(t)
    BY DEF RInv, IInv, ThreadInv, HandInv
  <1>2. /\ pc[t] = "listen" /\ EndJob(t)
        /\ UNCHANGED <<entries, hosts, supplied, serverOf, inFlight, refVars>>
    BY DEF StartListener
  <1>3. PICK e \in Endpoints : e = obj[t]
    BY <1>1, <1>2 DEF ThreadOK
  <1>4. /\ lstate' = [lstate EXCEPT ![e] = "running"] /\ lstate[e] = "made"
    BY <1>1, <1>2, <1>3 DEF StartListener, HandOK
  <1>5. /\ \A u \in Threads \ {t} : pc'[u] = pc[u] /\ obj'[u] = obj[u]
        /\ obj'[t] = NULL
    BY <1>1, <1>2, EndJobMoves
  <1>6. \A x \in Endpoints : lstate'[x] = IF x = e THEN "running" ELSE lstate[x]
    BY <1>1, <1>4 DEF TypeOK
  <1>7. ASSUME NEW x \in Objects
        PROVE  /\ IsFiniteSet(EndpointsOf(x))'
               /\ Owed(x)' \in Int
               /\ refs'[x] = refs[x] - Owed(x) + Owed(x)' - Claim(t, x) + Claim(t, x)'
    <2>1. Claim(t, x) = (IF x = e THEN 1 ELSE 0) /\ Claim(t, x)' = 0
      BY <1>2, <1>3, <1>5, EmptyHand DEF Claim
    <2>2. /\ IsFiniteSet(EndpointsOf(x))'
          /\ x \in Plugins => Owed(x)' = Owed(x)
          /\ x \in Endpoints => Owed(x)' = inFlight'[x] + Listened(x)'
      BY <1>1, <1>2, OwedFollows
    <2>3. Owed(x)' = Owed(x) + (IF x = e THEN 1 ELSE 0)
      <3>1. CASE x \in Endpoints
        <4>1. Listened(x)' = Listened(x) + (IF x = e THEN 1 ELSE 0)
          BY <1>4, <1>6, <3>1 DEF Listened
        <4>2. Owed(x) = inFlight[x] + Listened(x) /\ inFlight[x] \in Nat /\ Listened(x) \in {0, 1}
          BY <1>1, <3>1, EndpointOwed
        <4> QED BY <1>2, <2>2, <3>1, <4>1, <4>2
      <3>2. CASE x \notin Endpoints
        <4>1. x \in Plugins /\ x # e /\ Owed(x) \in Nat
          BY <1>1, <3>2, CountsTyped DEF Objects
        <4> QED BY <2>2, <4>1
      <3> QED BY <3>1, <3>2
    <2>4. Owed(x) \in Nat /\ refs[x] \in Int /\ refs'[x] = refs[x]
      BY <1>1, <1>2, CountsTyped DEF TypeOK
    <2> QED BY <2>1, <2>2, <2>3, <2>4
  <1>8. CountFinite' /\ Exact'
    BY <1>1, <1>5, <1>7, ExactMoves
  <1>9. FreedInv'
    BY <1>1, <1>2 DEF FreedInv
  <1>10. EndpointInv'
    <2> SUFFICES ASSUME NEW x \in Endpoints PROVE EndpointOK(x)'
      BY DEF EndpointInv
    <2>1. EndpointOK(x) /\ EndpointOK(e)
      BY <1>1 DEF EndpointInv
    <2> QED BY <1>2, <1>4, <1>6, <2>1 DEF EndpointOK
  <1> QED BY <1>8, <1>9, <1>10 DEF RefsInv

(* listener_add_uri has the only reference to an endpoint that nobody      *)
(* listens to: the endpoint is freed and lets go of its server.            *)
LEMMA DiscardRefs ==
    ASSUME RInv, NEW t \in Threads, Discard(t)
    PROVE  RefsInv'
  <1>1. /\ TypeOK /\ CountFinite /\ Exact /\ EndpointInv /\ FreedInv /\ ThreadOK(t) /\ HandOK(t)
    BY DEF RInv, IInv, ThreadInv, HandInv
  <1>2. /\ pc[t] = "discard" /\ EndJob(t) /\ Release(obj[t])
        /\ UNCHANGED <<entries, hosts, supplied, endpointVars>>
    BY DEF Discard
  <1>3. PICK e \in Endpoints : e = obj[t]
    BY <1>1, <1>2 DEF ThreadOK
  <1>4. lstate[e] = "made" /\ \A u \in Threads : obj[u] = e => u = t
    BY <1>1, <1>2, <1>3 DEF HandOK
  <1>5. EndpointOK(e) /\ inFlight[e] \in Nat
    BY <1>1 DEF EndpointInv, TypeOK
  <1>6. PICK s \in Plugins : s = serverOf[e]
    BY <1>4, <1>5 DEF EndpointOK
  <1>7. e \in Objects /\ s \in Objects /\ e \notin Plugins /\ s # e
    BY EndpointsAssumption DEF Objects
  <1>8. refs[e] = 1 /\ e \notin freed
    <2>1. HeldBy(e) = {t} /\ Inserting(e) = {}
      BY <1>2, <1>3, <1>4 DEF HeldBy, Inserting
    <2>2. Claims(e) = 1
      BY <2>1, FS_EmptySet, FS_Singleton DEF Claims
    <2>3. Owed(e) = 0
      BY <1>1, <1>4, <1>5, EndpointOwed DEF EndpointOK, Listened
    <2>4. refs[e] = 1
      BY <1>1, <1>7, <2>2, <2>3 DEF Exact
    <2> QED BY <1>1, <2>4 DEF FreedInv
  <1>9. e \in EndpointsOf(s)
    BY <1>6, <1>8 DEF EndpointsOf
  <1>10. s \notin freed
    BY <1>9, UsedCounts
  <1>11. \A x \in Objects : refs'[x] = IF x = e THEN 0 ELSE IF x = s THEN refs[x] - 1 ELSE refs[x]
    <2> DEFINE less == [refs EXCEPT ![e] = @ - 1]
    <2>1. less \in [Objects -> Int] /\ less[e] = 0
      BY <1>1, <1>7, <1>8 DEF TypeOK
    <2>2. refs' = [less EXCEPT ![s] = @ - 1]
      BY <1>2, <1>3, <1>6, <2>1 DEF Release
    <2>3. \A x \in Objects : less[x] = IF x = e THEN 0 ELSE refs[x]
      BY <1>1, <1>8 DEF TypeOK
    <2> HIDE DEF less
    <2> QED BY <1>7, <2>1, <2>2, <2>3
  <1>12. freed' = freed \cup {x \in Objects : refs[x] # 0 /\ refs'[x] = 0}
    BY <1>2, <1>3 DEF Release
  <1>13. \A x \in Endpoints : x \in freed' <=> (x = e \/ x \in freed)
    <2>1. \A x \in Endpoints : x \in Objects /\ x # s
      BY EndpointsAssumption DEF Objects
    <2> QED BY <1>8, <1>11, <1>12, <2>1
  <1>14. FreedInv'
    <2> SUFFICES ASSUME NEW x \in freed' PROVE refs'[x] = 0
      BY DEF FreedInv
    <2>1. CASE x \in freed
      <3>1. x \in Objects /\ refs[x] = 0 /\ x # e /\ x # s
        BY <1>1, <1>8, <1>10, <2>1 DEF TypeOK, FreedInv
      <3> QED BY <1>11, <3>1
    <2>2. CASE x \notin freed
      BY <1>12, <2>2
    <2> QED BY <2>1, <2>2
  <1>15. /\ \A u \in Threads \ {t} : pc'[u] = pc[u] /\ obj'[u] = obj[u]
         /\ obj'[t] = NULL
    BY <1>1, <1>2, EndJobMoves
  <1>16. ASSUME NEW x \in Objects
         PROVE  /\ IsFiniteSet(EndpointsOf(x))'
                /\ Cardinality(EndpointsOf(x))'
                        = Cardinality(EndpointsOf(x)) - (IF x = s THEN 1 ELSE 0)
    <2> DEFINE E == EndpointsOf(x)  EP == EndpointsOf(x)'
    <2>1. /\ \A y : y # e => (y \in EP <=> y \in E)
          /\ e \notin EP /\ (e \in E <=> x = s)
      BY <1>2, <1>6, <1>8, <1>13 DEF EndpointsOf
    <2>2. IsFiniteSet(E)
      BY <1>1 DEF CountFinite
    <2> HIDE DEF E, EP
    <2>3. /\ IsFiniteSet(EP) /\ Cardinality(E) \in Nat
          /\ Cardinality(EP) = Cardinality(E) - One(e, E) + One(e, EP)
      BY <2>1, <2>2, OneMoves
    <2>4. Cardinality(EP) = Cardinality(E) - (IF x = s THEN 1 ELSE 0)
      BY <2>1, <2>3 DEF One
    <2> QED BY <2>3, <2>4 DEF E, EP
  <1>17. ASSUME NEW x \in Objects
         PROVE  /\ Owed(x)' \in Int
                /\ refs'[x] = refs[x] - Owed(x) + Owed(x)' - Claim(t, x) + Claim(t, x)'
    <2>1. Claim(t, x) = (IF x = e THEN 1 ELSE 0) /\ Claim(t, x)' = 0
      BY <1>2, <1>3, <1>15, EmptyHand DEF Claim
    <2>2. Owed(x)' = Owed(x) - (IF x = s THEN 1 ELSE 0)
      <3>1. CASE x \in Plugins
        <4>1. HostsOf(x)' = HostsOf(x) /\ \A k : Entered(k, x)' = Entered(k, x)
          BY <1>2, PartsFrame
        <4> DEFINE C == Cardinality(Entered("container", x))  S == Cardinality(Entered("server", x))
                   H == Cardinality(HostsOf(x))  E == Cardinality(EndpointsOf(x))
        <4>2. /\ Owed(x) = C + S + H + E + supplied[x]
              /\ C \in Nat /\ S \in Nat /\ H \in Nat /\ E \in Nat /\ supplied[x] \in Nat
          BY <1>1, <3>1, PluginOwed
        <4>3. Owed(x)' = C + S + H + E' + supplied[x]
          BY <1>2, <3>1, <4>1 DEF Owed
        <4>4. E' = E - (IF x = s THEN 1 ELSE 0)
          BY <1>16
        <4> HIDE DEF C, S, H, E
        <4> QED BY <4>2, <4>3, <4>4
      <3>2. CASE x \notin Plugins
        <4>1. x \in Endpoints /\ x # s
          BY <3>2 DEF Objects
        <4>2. Owed(x)' = Owed(x) /\ Owed(x) \in Nat
          BY <1>1, <1>2, <3>2, CountsTyped DEF Owed, Listened
        <4> QED BY <4>1, <4>2
      <3> QED BY <3>1, <3>2
    <2>3. Owed(x) \in Nat /\ refs[x] \in Int
      BY <1>1, CountsTyped DEF TypeOK
    <2> QED BY <1>7, <1>8, <1>11, <2>1, <2>2, <2>3
  <1>18. CountFinite' /\ Exact'
    BY <1>1, <1>15, <1>16, <1>17, ExactMoves
  <1>19. EndpointInv'
    <2> SUFFICES ASSUME NEW x \in Endpoints PROVE EndpointOK(x)'
      BY DEF EndpointInv
    <2>1. EndpointOK(x)
      BY <1>1 DEF EndpointInv
    <2> QED BY <1>2, <1>4, <1>13, <2>1 DEF EndpointOK
  <1> QED BY <1>14, <1>18, <1>19 DEF RefsInv

(* Setting up a section: what container_locate, host_add and               *)
(* server_endpoint_uri take is dropped again or handed on.                 *)
LEMMA SectionRefs ==
    ASSUME RInv, NEW t \in Threads, SectionStep(t)
    PROVE  RefsInv'
  <1>1. /\ TypeOK /\ FreedInv /\ ThreadOK(t) /\ HandOK(t)
    BY DEF RInv, IInv, ThreadInv, HandInv
  <1>2. CASE Locate(t)
    <2> DEFINE l == Lookup("container", Head(jobs[t]).name)
    <2>1. pc[t] = "next" /\ obj[t] = NULL
      BY <1>1, <1>2 DEF Locate, HandOK
    <2>2. CASE l = NULL
      <3>1. EndJob(t) /\ UNCHANGED <<entries, hosts, supplied, endpointVars, refVars>>
        BY <1>2, <2>2 DEF Locate
      <3> QED BY <2>1, <3>1, NothingInHand
    <2>3. CASE l # NULL
      <3>1. l \in Plugins /\ l \notin freed
        BY <2>3, BoundCounts DEF Kinds
      <3>2. /\ obj' = [obj EXCEPT ![t] = l] /\ Addref(l) /\ pc' = [pc EXCEPT ![t] = "host"]
            /\ UNCHANGED <<entries, hosts, supplied, endpointVars>>
        BY <1>2, <2>3 DEF Locate
      <3> HIDE DEF l
      <3>3. PICK o \in Plugins : o = l
        BY <3>1
      <3>4. o \in Objects
        BY DEF Objects
      <3>5. /\ refs' = [refs EXCEPT ![o] = @ + 1]
            /\ \A e \in Endpoints : e \in freed' <=> e \in freed
            /\ FreedInv'
        BY <1>1, <3>1, <3>2, <3>3, <3>4, TakeFrees
      <3>6. /\ \A u \in Threads \ {t} : pc'[u] = pc[u] /\ obj'[u] = obj[u]
            /\ obj'[t] = o /\ pc'[t] = "host"
        BY <1>1, <3>2, <3>3 DEF TypeOK
      <3>7. ASSUME NEW x \in Objects
            PROVE  refs'[x] = refs[x] - Claim(t, x) + Claim(t, x)'
        <4>1. Claim(t, x) = 0
          BY <2>1, EmptyHand
        <4>2. Claim(t, x)' = IF x = o THEN 1 ELSE 0
          BY <3>6 DEF Claim
        <4> QED BY <1>1, <3>4, <3>5, <4>1, <4>2 DEF TypeOK
      <3> QED BY <3>2, <3>5, <3>6, <3>7, HandsOnly
    <2> QED BY <2>2, <2>3
  <1>3. CASE AddHost(t)
    BY <1>3, AddHostRefs
  <1>4. CASE DropLocated(t)
    <2>1. /\ pc[t] \in {"located", "abandon"} /\ Release(obj[t])
          /\ UNCHANGED <<entries, hosts, supplied, endpointVars>>
      BY <1>4 DEF DropLocated
    <2>2. obj[t] \in Plugins /\ pc[t] # "insert"
      BY <1>1, <2>1 DEF ThreadOK, HostPCs
    <2>3. /\ \A u \in Threads \ {t} : pc'[u] = pc[u] /\ obj'[u] = obj[u]
          /\ obj'[t] = NULL
      <3>1. CASE EndJob(t)
        BY <1>1, <3>1, EndJobMoves
      <3>2. CASE Goto(t, "endpoint") /\ Hold(t, NULL)
        BY <1>1, <3>2 DEF TypeOK
      <3> QED BY <1>4, <3>1, <3>2 DEF DropLocated
    <2> QED BY <2>1, <2>2, <2>3, DropHeld
  <1>5. ASSUME NEW e \in Endpoints, CreateEndpoint(t, e)
        PROVE  RefsInv'
    BY <1>5, CreateRefs
  <1>6. CASE NoEndpoint(t)
    <2>1. obj[t] = NULL
      BY <1>1, <1>6 DEF NoEndpoint, HandOK
    <2> QED BY <1>6, <2>1, NothingInHand DEF NoEndpoint
  <1>7. CASE StartListener(t)
    BY <1>7, StartRefs
  <1>8. CASE ListenerFails(t)
    <2>1. /\ pc[t] = "listen" /\ pc' = [pc EXCEPT ![t] = "discard"]
          /\ UNCHANGED <<jobs, obj, entries, hosts, supplied, endpointVars, refVars>>
      BY <1>8 DEF ListenerFails
    <2>2. /\ \A u \in Threads \ {t} : pc'[u] = pc[u] /\ obj'[u] = obj[u]
          /\ pc'[t] = "discard"
      BY <1>1, <2>1 DEF TypeOK
    <2>3. \A x \in Objects : Claim(t, x)' = Claim(t, x) /\ Claim(t, x) \in Int
      BY <2>1, <2>2 DEF Claim
    <2>4. \A x \in Objects : refs'[x] = refs[x] - Claim(t, x) + Claim(t, x)'
      BY <1>1, <2>1, <2>3 DEF TypeOK
    <2>5. FreedInv'
      BY <1>1, <2>1 DEF FreedInv
    <2> QED BY <2>1, <2>2, <2>4, <2>5, HandsOnly
  <1>9. CASE Discard(t)
    BY <1>9, DiscardRefs
  <1> QED BY <1>2, <1>3, <1>4, <1>5, <1>6, <1>7, <1>8, <1>9 DEF SectionStep
-----------------------------------------------------------------------------
(* A request takes a reference to its endpoint when it is acquired.        *)
LEMMA AcquireRefs ==
    ASSUME RInv, NEW e \in Endpoints, AcquireRequest(e)
    PROVE  RefsInv'
  <1>1. TypeOK /\ CountFinite /\ Exact /\ EndpointInv /\ FreedInv /\ EndpointOK(e)
    BY DEF RInv, IInv, EndpointInv
  <1>2. /\ lstate[e] = "running" /\ inFlight' = [inFlight EXCEPT ![e] = @ + 1]
        /\ Addref(e)
        /\ UNCHANGED <<threadVars, entries, hosts, supplied, lstate, serverOf>>
    BY DEF AcquireRequest
  <1>3. e \in Objects
    BY DEF Objects
  <1>4. Owed(e) >= 1 /\ Claims(e) \in Nat
    BY <1>1, <1>2, <1>3, EndpointOwed, CountsTyped DEF Listened
  <1>5. e \notin freed
    <2>1. refs[e] >= 1
      BY <1>1, <1>3, <1>4, CountsTyped DEF Exact
    <2> QED BY <1>1, <2>1 DEF FreedInv
  <1>6. /\ refs' = [refs EXCEPT ![e] = @ + 1]
        /\ \A x \in Endpoints : x \in freed' <=> x \in freed
        /\ FreedInv'
    BY <1>1, <1>2, <1>3, <1>5, TakeFrees
  <1>7. \A x \in Endpoints : inFlight'[x] = inFlight[x] + (IF x = e THEN 1 ELSE 0)
                             /\ Listened(x)' = Listened(x)
    BY <1>1, <1>2 DEF TypeOK, Listened
  <1>8. ASSUME NEW x \in Objects
        PROVE  /\ IsFiniteSet(EndpointsOf(x))'
               /\ Owed(x)' \in Int
               /\ refs'[x] = refs[x] - Owed(x) + Owed(x)'
    <2>1. /\ IsFiniteSet(EndpointsOf(x))'
          /\ x \in Plugins => Owed(x)' = Owed(x)
          /\ x \in Endpoints => Owed(x)' = inFlight'[x] + Listened(x)'
      BY <1>1, <1>2, <1>6, OwedFollows
    <2>2. Owed(x)' = Owed(x) + (IF x = e THEN 1 ELSE 0)
      <3>1. CASE x \in Endpoints
        <4>1. Owed(x) = inFlight[x] + Listened(x) /\ inFlight[x] \in Nat /\ Listened(x) \in {0, 1}
          BY <1>1, <3>1, EndpointOwed
        <4> QED BY <1>7, <2>1, <3>1, <4>1
      <3>2. CASE x \notin Endpoints
        <4>1. x \in Plugins /\ x # e /\ Owed(x) \in Nat
          BY <1>1, <3>2, CountsTyped DEF Objects
        <4> QED BY <2>1, <4>1
      <3> QED BY <3>1, <3>2
    <2>3. Owed(x) \in Nat /\ refs[x] \in Int
      BY <1>1, CountsTyped DEF TypeOK
    <2> QED BY <1>1, <1>6, <2>1, <2>2, <2>3 DEF TypeOK
  <1>9. CountFinite' /\ Exact'
    BY <1>1, <1>2, <1>8, ExactStays
  <1>10. EndpointInv'
    <2> SUFFICES ASSUME NEW x \in Endpoints PROVE EndpointOK(x)'
      BY DEF EndpointInv
    <2>1. EndpointOK(x) /\ inFlight[x] \in Nat
      BY <1>1 DEF EndpointInv, TypeOK
    <2> QED BY <1>2, <1>6, <1>7, <2>1 DEF EndpointOK
  <1> QED BY <1>6, <1>9, <1>10 DEF RefsInv

(* It drops it when it is freed, and the listener still has its own: the   *)
(* last request of an endpoint does not free the endpoint.                 *)
LEMMA FreeRefs ==
    ASSUME RInv, NEW e \in Endpoints, FreeRequest(e)
    PROVE  RefsInv'
  <1>1. TypeOK /\ CountFinite /\ Exact /\ EndpointInv /\ FreedInv /\ EndpointOK(e)
    BY DEF RInv, IInv, EndpointInv
  <1>2. /\ inFlight[e] > 0 /\ inFlight' = [inFlight EXCEPT ![e] = @ - 1]
        /\ Release(e)
        /\ UNCHANGED <<threadVars, entries, hosts, supplied, lstate, serverOf>>
    BY DEF FreeRequest
  <1>3. e \in Objects /\ inFlight[e] \in Nat
    BY <1>1 DEF Objects, TypeOK
  <1>4. lstate[e] \in {"running", "ended"}
    BY <1>1, <1>2 DEF EndpointOK
  <1>5. refs[e] >= 2
    <2>1. Owed(e) = inFlight[e] + Listened(e) /\ Listened(e) = 1 /\ Claims(e) \in Nat
      BY <1>1, <1>3, <1>4, EndpointOwed, CountsTyped DEF Listened
    <2> QED BY <1>1, <1>2, <1>3, <2>1 DEF Exact
  <1>6. refs' = [refs EXCEPT ![e] = @ - 1]
    <2> DEFINE less == [refs EXCEPT ![e] = @ - 1]
    <2>1. less[e] # 0
      BY <1>1, <1>3, <1>5 DEF TypeOK
    <2> QED BY <1>2, <2>1 DEF Release
  <1>7. \A x \in Objects : refs'[x] = refs[x] - (IF x = e THEN 1 ELSE 0)
    BY <1>1, <1>6 DEF TypeOK
  <1>8. freed' = freed
    <2>1. freed' = freed \cup {x \in Objects : refs[x] # 0 /\ refs'[x] = 0}
      BY <1>2 DEF Release
    <2>2. \A x \in Objects : refs[x] \in Int
      BY <1>1 DEF TypeOK
    <2> QED BY <1>5, <1>7, <2>1, <2>2
  <1>9. FreedInv'
    <2> SUFFICES ASSUME NEW x \in freed PROVE refs'[x] = 0
      BY <1>8 DEF FreedInv
    <2>1. x \in Objects /\ refs[x] = 0
      BY <1>1 DEF FreedInv, TypeOK
    <2> QED BY <1>5, <1>7, <2>1
  <1>10. \A x \in Endpoints : inFlight'[x] = inFlight[x] - (IF x = e THEN 1 ELSE 0)
                              /\ Listened(x)' = Listened(x)
    BY <1>1, <1>2 DEF TypeOK, Listened
  <1>11. ASSUME NEW x \in Objects
         PROVE  /\ IsFiniteSet(EndpointsOf(x))'
                /\ Owed(x)' \in Int
                /\ refs'[x] = refs[x] - Owed(x) + Owed(x)'
    <2>1. /\ IsFiniteSet(EndpointsOf(x))'
          /\ x \in Plugins => Owed(x)' = Owed(x)
          /\ x \in Endpoints => Owed(x)' = inFlight'[x] + Listened(x)'
      BY <1>1, <1>2, <1>8, OwedFollows
    <2>2. Owed(x)' = Owed(x) - (IF x = e THEN 1 ELSE 0)
      <3>1. CASE x \in Endpoints
        <4>1. Owed(x) = inFlight[x] + Listened(x) /\ inFlight[x] \in Nat /\ Listened(x) \in {0, 1}
          BY <1>1, <3>1, EndpointOwed
        <4> QED BY <1>10, <2>1, <3>1, <4>1
      <3>2. CASE x \notin Endpoints
        <4>1. x \in Plugins /\ x # e /\ Owed(x) \in Nat
          BY <1>1, <3>2, CountsTyped DEF Objects
        <4> QED BY <2>1, <4>1
      <3> QED BY <3>1, <3>2
    <2>3. Owed(x) \in Nat /\ refs[x] \in Int
      BY <1>1, CountsTyped DEF TypeOK
    <2> QED BY <1>7, <2>1, <2>2, <2>3
  <1>12. CountFinite' /\ Exact'
    BY <1>1, <1>2, <1>11, ExactStays
  <1>13. EndpointInv'
    <2> SUFFICES ASSUME NEW x \in Endpoints PROVE EndpointOK(x)'
      BY DEF EndpointInv
    <2>1. EndpointOK(x) /\ inFlight[x] \in Nat
      BY <1>1 DEF EndpointInv, TypeOK
    <2> QED BY <1>2, <1>8, <1>10, <2>1 DEF EndpointOK
  <1> QED BY <1>9, <1>12, <1>13 DEF RefsInv

(* A listener that ends keeps its reference.                               *)
LEMMA EndListenerRefs ==
    ASSUME RInv, NEW e \in Endpoints, EndListener(e)
    PROVE  RefsInv'
  <1>1. TypeOK /\ CountFinite /\ Exact /\ EndpointInv /\ FreedInv
    BY DEF RInv, IInv
  <1>2. /\ lstate[e] = "running" /\ lstate' = [lstate EXCEPT ![e] = "ended"]
        /\ UNCHANGED <<threadVars, entries, hosts, supplied, serverOf, inFlight, refVars>>
    BY DEF EndListener
  <1>3. \A x \in Endpoints : lstate'[x] = IF x = e THEN "ended" ELSE lstate[x]
    BY <1>1, <1>2 DEF TypeOK
  <1>4. ASSUME NEW x \in Objects
        PROVE  /\ IsFiniteSet(EndpointsOf(x))'
               /\ Owed(x)' \in Int
               /\ refs'[x] = refs[x] - Owed(x) + Owed(x)'
    <2>1. /\ IsFiniteSet(EndpointsOf(x))'
          /\ x \in Plugins => Owed(x)' = Owed(x)
          /\ x \in Endpoints => Owed(x)' = inFlight'[x] + Listened(x)'
      BY <1>1, <1>2, OwedFollows
    <2>2. Owed(x)' = Owed(x)
      <3>1. CASE x \in Endpoints
        <4>1. Listened(x)' = Listened(x)
          BY <1>2, <1>3, <3>1 DEF Listened
        <4> QED BY <1>1, <1>2, <2>1, <3>1, <4>1, EndpointOwed
      <3>2. CASE x \notin Endpoints
        BY <2>1, <3>2 DEF Objects
      <3> QED BY <3>1, <3>2
    <2>3. Owed(x) \in Nat /\ refs[x] \in Int /\ refs'[x] = refs[x]
      BY <1>1, <1>2, CountsTyped DEF TypeOK
    <2> QED BY <2>1, <2>2, <2>3
  <1>5. CountFinite' /\ Exact'
    BY <1>1, <1>2, <1>4, ExactStays
  <1>6. FreedInv' /\ EndpointInv'
    <2>1. FreedInv'
      BY <1>1, <1>2 DEF FreedInv
    <2>2. EndpointInv'
      BY <1>1, <1>2, <1>3 DEF EndpointInv, EndpointOK
    <2> QED BY <2>1, <2>2
  <1> QED BY <1>5, <1>6 DEF RefsInv

(* A worker object refers to the container that supplied it.               *)
LEMMA SupplyRefs ==
    ASSUME RInv, NEW i \in DOMAIN hosts, SupplyWorker(i)
    PROVE  RefsInv'
  <1>1. TypeOK /\ CountFinite /\ Exact /\ EndpointInv /\ FreedInv
    BY DEF RInv, IInv
  <1>2. PICK o \in Plugins : o = hosts[i].container
    BY <1>1, HostTyped
  <1>3. /\ supplied' = [supplied EXCEPT ![o] = @ + 1] /\ Addref(o)
        /\ UNCHANGED <<threadVars, entries, hosts, endpointVars>>
    BY <1>2 DEF SupplyWorker
  <1>4. o \in Objects
    BY DEF Objects
  <1>5. i \in HostsOf(o)
    BY <1>2 DEF HostsOf
  <1>6. o \notin freed
    BY <1>5, UsedCounts
  <1>7. /\ refs' = [refs EXCEPT ![o] = @ + 1]
        /\ \A e \in Endpoints : e \in freed' <=> e \in freed
        /\ FreedInv'
    BY <1>1, <1>3, <1>4, <1>6, TakeFrees
  <1>8. ASSUME NEW x \in Objects
        PROVE  /\ IsFiniteSet(EndpointsOf(x))'
               /\ Owed(x)' \in Int
               /\ refs'[x] = refs[x] - Owed(x) + Owed(x)'
    <2>1. /\ \A k : Entered(k, x)' = Entered(k, x)
          /\ HostsOf(x)' = HostsOf(x)
          /\ EndpointsOf(x)' = EndpointsOf(x)
      BY <1>3, <1>7, PartsFrame
    <2>2. Owed(x)' = Owed(x) + (IF x = o THEN 1 ELSE 0)
      <3>1. CASE x \in Plugins
        <4> DEFINE C == Cardinality(Entered("container", x))  S == Cardinality(Entered("server", x))
                   H == Cardinality(HostsOf(x))  E == Cardinality(EndpointsOf(x))
        <4>1. /\ Owed(x) = C + S + H + E + supplied[x]
              /\ C \in Nat /\ S \in Nat /\ H \in Nat /\ E \in Nat /\ supplied[x] \in Nat
          BY <1>1, <3>1, PluginOwed
        <4>2. Owed(x)' = C + S + H + E + supplied'[x]
          BY <2>1, <3>1 DEF Owed
        <4>3. supplied'[x] = supplied[x] + (IF x = o THEN 1 ELSE 0)
          BY <1>1, <1>3, <3>1 DEF TypeOK
        <4> HIDE DEF C, S, H, E
        <4> QED BY <4>1, <4>2, <4>3
      <3>2. CASE x \notin Plugins
        <4>1. Owed(x)' = Owed(x) /\ Owed(x) \in Nat /\ x # o
          BY <1>1, <1>3, <3>2, CountsTyped DEF Owed, Listened
        <4> QED BY <4>1
      <3> QED BY <3>1, <3>2
    <2>3. Owed(x) \in Nat /\ refs[x] \in Int
      BY <1>1, CountsTyped DEF TypeOK
    <2>4. IsFiniteSet(EndpointsOf(x))'
      BY <1>1, <2>1 DEF CountFinite
    <2> QED BY <1>1, <1>7, <2>2, <2>3, <2>4 DEF TypeOK
  <1>9. CountFinite' /\ Exact'
    BY <1>1, <1>3, <1>8, ExactStays
  <1>10. EndpointInv'
    BY <1>1, <1>3, <1>7, EndpointFrame
  <1> QED BY <1>7, <1>9, <1>10 DEF RefsInv
-----------------------------------------------------------------------------
(* Who has an endpoint in hand                                             *)

(* Only a thread that starts its listener, or gives it up, has an endpoint.*)
LEMMA HeldEndpoint ==
    ASSUME TypeOK, ThreadInv, HandInv, NEW u \in Threads, obj[u] \in Endpoints
    PROVE  /\ pc[u] \in {"listen", "discard"} /\ lstate[obj[u]] = "made"
           /\ \A v \in Threads : obj[v] = obj[u] => v = u
  <1>1. obj[u] \notin Plugins /\ obj[u] # NULL
    BY EndpointsAssumption, NullAssumption DEF Objects
  <1>2. ThreadOK(u) /\ HandOK(u) /\ pc[u] \in PCs
    BY DEF ThreadInv, HandInv, TypeOK
  <1>3. pc[u] \in {"listen", "discard"}
    BY <1>1, <1>2 DEF ThreadOK, HandOK, PCs, LoadPCs, HostPCs
  <1> QED BY <1>2, <1>3 DEF HandOK

(* A step in which a thread keeps what it has, gets a plug-in or an        *)
(* endpoint that is new, or lets go.                                       *)
LEMMA HandMoves ==
    ASSUME TypeOK, ThreadInv, HandInv, NEW t \in Threads,
           \A u \in Threads \ {t} : pc'[u] = pc[u] /\ obj'[u] = obj[u],
           \A e \in Endpoints : lstate[e] = "made" /\ e # obj[t] => lstate'[e] = "made",
           pc'[t] \in {"next", "endpoint"} => obj'[t] = NULL,
           obj'[t] \in Plugins \cup {NULL, obj[t]}
                \/ (obj'[t] \in Endpoints /\ lstate[obj'[t]] = "none"),
           pc'[t] \in {"listen", "discard"} =>
                /\ lstate'[obj'[t]] = "made"
                /\ obj'[t] \in Endpoints
    PROVE  HandInv'
  <1> SUFFICES ASSUME NEW u \in Threads PROVE HandOK(u)'
    BY DEF HandInv
  <1>1. NULL \notin Plugins \cup Endpoints /\ Plugins \cap Endpoints = {}
    BY NullAssumption, EndpointsAssumption DEF Objects
  <1>2. CASE u = t
    <2> SUFFICES ASSUME pc'[t] \in {"listen", "discard"}, NEW v \in Threads \ {t},
                        obj'[v] = obj'[t]
                 PROVE  FALSE
      BY <1>2 DEF HandOK
    <2>1. obj'[t] \in Endpoints /\ obj[v] = obj'[t]
      OBVIOUS
    <2>2. /\ lstate[obj[v]] = "made"
          /\ \A w \in Threads : obj[w] = obj[v] => w = v
      BY <2>1, HeldEndpoint
    <2>3. obj'[t] = obj[t]
      BY <1>1, <2>1, <2>2
    <2> QED BY <2>1, <2>2, <2>3
  <1>3. CASE u # t
    <2>1. pc'[u] = pc[u] /\ obj'[u] = obj[u] /\ HandOK(u) /\ ThreadOK(u)
      BY <1>3 DEF HandInv, ThreadInv
    <2>2. CASE pc[u] \notin {"listen", "discard"}
      BY <2>1, <2>2 DEF HandOK
    <2>3. CASE pc[u] \in {"listen", "discard"}
      <3>1. obj[u] \in Endpoints /\ lstate[obj[u]] = "made"
        BY <2>1, <2>3 DEF HandOK, ThreadOK
      <3>2. \A v \in Threads : obj[v] = obj[u] => v = u
        BY <2>1, <2>3 DEF HandOK
      <3>3. obj[t] # obj[u]
        BY <1>3, <3>2
      <3>4. obj'[t] # obj[u]
        BY <1>1, <3>1, <3>3
      <3>5. lstate'[obj[u]] = "made"
        BY <3>1, <3>3
      <3>6. \A v \in Threads : obj'[v] = obj[u] => v = u
        BY <3>2, <3>4
      <3> QED BY <2>1, <2>3, <3>5, <3>6 DEF HandOK
    <2> QED BY <2>2, <2>3
  <1> QED BY <1>2, <1>3

(* Steps of listener and worker threads.                                   *)
LEMMA HandStays ==
    ASSUME TypeOK, ThreadInv, HandInv, pc' = pc, obj' = obj,
           \A e \in Endpoints : lstate[e] = "made" => lstate'[e] = "made"
    PROVE  HandInv'
  BY DEF HandInv, HandOK, ThreadInv, ThreadOK

(* A job that ends leaves nothing in hand.                                 *)
LEMMA HandEmptied ==
    ASSUME TypeOK, ThreadInv, HandInv, NEW t \in Threads, EndJob(t),
           \A e \in Endpoints : lstate[e] = "made" /\ e # obj[t] => lstate'[e] = "made"
    PROVE  HandInv'
  <1>1. /\ \A u \in Threads \ {t} : pc'[u] = pc[u] /\ obj'[u] = obj[u]
        /\ pc'[t] = "next" /\ obj'[t] = NULL
    BY EndJobMoves
  <1> QED BY <1>1, HandMoves

LEMMA HandPreserved ==
    ASSUME TypeOK, ThreadInv, HandInv, Next
    PROVE  HandInv'
  <1>1. ASSUME NEW t \in Threads, LoadStep(t)
        PROVE  HandInv'
    <2>1. ThreadOK(t) /\ lstate' = lstate
      BY <1>1 DEF ThreadInv, LoadStep, LoadModule, Scan, Insert, InsertFails, Registered
    <2>2. CASE EndJob(t)
      BY <2>1, <2>2, HandEmptied
    <2>3. CASE LoadModule(t) /\ ~EndJob(t)
      <3>1. Head(jobs[t]) \in JobKinds
        BY <2>3 DEF LoadModule, TypeOK
      <3>2. Head(jobs[t]).plugin \in Plugins
        BY <2>3, <3>1 DEF LoadModule, JobKinds
      <3>3. /\ \A u \in Threads \ {t} : pc'[u] = pc[u] /\ obj'[u] = obj[u]
            /\ pc'[t] = "register" /\ obj'[t] \in Plugins
        BY <2>3, <3>2 DEF LoadModule, TypeOK
      <3> QED BY <2>1, <3>3, HandMoves
    <2>4. CASE Scan(t)
      <3>1. /\ \A u \in Threads \ {t} : pc'[u] = pc[u] /\ obj'[u] = obj[u]
            /\ pc'[t] \in {"registered", "insert"} /\ obj'[t] = obj[t]
        BY <2>4 DEF Scan, TypeOK
      <3> QED BY <2>1, <3>1, HandMoves
    <2>5. CASE Insert(t) \/ InsertFails(t)
      <3>1. pc' = [pc EXCEPT ![t] = "registered"] /\ obj' = obj
        BY <2>5 DEF Insert, InsertFails
      <3>2. /\ \A u \in Threads \ {t} : pc'[u] = pc[u] /\ obj'[u] = obj[u]
            /\ pc'[t] = "registered" /\ obj'[t] = obj[t]
        BY <3>1 DEF TypeOK
      <3> QED BY <2>1, <3>2, HandMoves
    <2> QED BY <1>1, <2>2, <2>3, <2>4, <2>5 DEF LoadStep, Registered
  <1>2. ASSUME NEW t \in Threads, SectionStep(t)
        PROVE  HandInv'
    <2>1. ThreadOK(t) /\ HandOK(t)
      BY DEF ThreadInv, HandInv
    <2>2. CASE EndJob(t)
      <3>1. \A e \in Endpoints : lstate[e] = "made" /\ e # obj[t] => lstate'[e] = "made"
        <4>1. CASE StartListener(t)
          BY <4>1 DEF StartListener, TypeOK
        <4>2. ASSUME NEW e \in Endpoints, CreateEndpoint(t, e)
              PROVE  \A x \in Endpoints : lstate[x] = "made" => lstate'[x] = "made"
          BY <4>2 DEF CreateEndpoint, TypeOK
        <4> QED BY <1>2, <4>1, <4>2
                DEF SectionStep, Locate, AddHost, DropLocated, NoEndpoint, ListenerFails, Discard
      <3> QED BY <2>2, <3>1, HandEmptied
    <2>3. CASE Locate(t) /\ ~EndJob(t)
      <3> DEFINE l == Lookup("container", Head(jobs[t]).name)
      <3>1. l \in Plugins \cup {NULL}
        BY LookupTyped DEF Kinds
      <3>2. /\ obj' = [obj EXCEPT ![t] = l] /\ pc' = [pc EXCEPT ![t] = "host"]
            /\ lstate' = lstate
        BY <2>3 DEF Locate
      <3> HIDE DEF l
      <3>3. /\ \A u \in Threads \ {t} : pc'[u] = pc[u] /\ obj'[u] = obj[u]
            /\ pc'[t] = "host" /\ obj'[t] = l
        BY <3>2 DEF TypeOK
      <3> QED BY <3>1, <3>2, <3>3, HandMoves
    <2>4. CASE AddHost(t)
      <3>1. /\ \A u \in Threads \ {t} : pc'[u] = pc[u] /\ obj'[u] = obj[u]
            /\ pc'[t] \in {"located", "abandon"} /\ obj'[t] = obj[t] /\ lstate' = lstate
        BY <2>4 DEF AddHost, TypeOK
      <3> QED BY <3>1, HandMoves
    <2>5. CASE DropLocated(t) /\ ~EndJob(t)
      <3>1. /\ pc' = [pc EXCEPT ![t] = "endpoint"] /\ obj' = [obj EXCEPT ![t] = NULL]
            /\ lstate' = lstate
        BY <2>5 DEF DropLocated
      <3>2. /\ \A u \in Threads \ {t} : pc'[u] = pc[u] /\ obj'[u] = obj[u]
            /\ pc'[t] = "endpoint" /\ obj'[t] = NULL
        BY <3>1 DEF TypeOK
      <3> QED BY <3>1, <3>2, HandMoves
    <2>6. ASSUME NEW e \in Endpoints, CreateEndpoint(t, e)
          PROVE  HandInv'
      <3>1. /\ lstate[e] = "none" /\ lstate' = [lstate EXCEPT ![e] = "made"]
            /\ obj' = [obj EXCEPT ![t] = e] /\ pc' = [pc EXCEPT ![t] = "listen"]
        BY <2>6 DEF CreateEndpoint
      <3>2. /\ \A u \in Threads \ {t} : pc'[u] = pc[u] /\ obj'[u] = obj[u]
            /\ pc'[t] = "listen" /\ obj'[t] = e /\ lstate'[e] = "made"
            /\ \A x \in Endpoints : lstate[x] = "made" => lstate'[x] = "made"
        BY <3>1 DEF TypeOK
      <3> QED BY <3>1, <3>2, HandMoves
    <2>7. CASE ListenerFails(t)
      <3>1. /\ pc[t] = "listen" /\ pc' = [pc EXCEPT ![t] = "discard"] /\ obj' = obj
            /\ lstate' = lstate
        BY <2>7 DEF ListenerFails
      <3>2. /\ \A u \in Threads \ {t} : pc'[u] = pc[u] /\ obj'[u] = obj[u]
            /\ pc'[t] = "discard" /\ obj'[t] = obj[t]
        BY <3>1 DEF TypeOK
      <3>3. obj[t] \in Endpoints /\ lstate[obj[t]] = "made"
        BY <2>1, <3>1 DEF ThreadOK, HandOK
      <3> QED BY <3>1, <3>2, <3>3, HandMoves
    <2> QED BY <1>2, <2>2, <2>3, <2>4, <2>5, <2>6, <2>7
            DEF SectionStep, NoEndpoint, StartListener, Discard
  <1>3. ASSUME NEW e \in Endpoints, AcquireRequest(e) \/ FreeRequest(e) \/ EndListener(e)
        PROVE  HandInv'
    <2>1. pc' = pc /\ obj' = obj
      BY <1>3 DEF AcquireRequest, FreeRequest, EndListener
    <2>2. \A x \in Endpoints : lstate[x] = "made" => lstate'[x] = "made"
      <3>1. CASE EndListener(e)
        BY <3>1 DEF EndListener, TypeOK
      <3>2. CASE ~EndListener(e)
        BY <1>3, <3>2 DEF AcquireRequest, FreeRequest
      <3> QED BY <3>1, <3>2
    <2> QED BY <2>1, <2>2, HandStays
  <1>4. ASSUME NEW i \in DOMAIN hosts, SupplyWorker(i)
        PROVE  HandInv'
    BY <1>4, HandStays DEF SupplyWorker
  <1>5. CASE Rest
    BY <1>5, HandStays DEF Rest, vars
  <1> QED BY <1>1, <1>2, <1>3, <1>4, <1>5 DEF Next
-----------------------------------------------------------------------------
(* In the beginning nothing refers to anything.                            *)
LEMMA InitRInv == Init => RInv
  <1> SUFFICES ASSUME Init PROVE RInv
    OBVIOUS
  <1>1. IInv
    BY InitIInv
  <1>2. HandInv /\ EndpointInv /\ FreedInv
    BY DEF Init, HandInv, HandOK, EndpointInv, EndpointOK, FreedInv
  <1>3. ASSUME NEW o \in Objects
        PROVE  /\ HeldBy(o) = {} /\ EndpointsOf(o) = {} /\ Inserting(o) = {}
               /\ HostsOf(o) = {} /\ \A k \in Kinds : Entered(k, o) = {}
    <2>1. HeldBy(o) = {} /\ EndpointsOf(o) = {}
      BY NullAssumption DEF Init, HeldBy, EndpointsOf
    <2>2. HostsOf(o) = {} /\ \A k \in Kinds : Entered(k, o) = {}
      BY DEF Init, HostsOf, Entered
    <2> QED BY <2>1, <2>2 DEF Inserting
  <1>4. CountFinite
    BY <1>3, FS_EmptySet DEF CountFinite
  <1>5. ASSUME NEW o \in Objects
        PROVE  refs[o] = Owed(o) + Claims(o)
    <2>1. refs[o] = 0
      BY DEF Init
    <2>2. Claims(o) = 0
      BY <1>3, FS_EmptySet DEF Claims
    <2>3. Owed(o) = 0
      <3>1. CASE o \in Plugins
        <4>1. supplied[o] = 0
          BY <3>1 DEF Init
        <4>2. Entered("container", o) = {} /\ Entered("server", o) = {}
          BY <1>3 DEF Kinds
        <4> QED BY <1>3, <3>1, <4>1, <4>2, FS_EmptySet DEF Owed
      <3>2. CASE o \notin Plugins
        BY <3>2 DEF Owed, Listened, Objects, Init
      <3> QED BY <3>1, <3>2
    <2> QED BY <2>1, <2>2, <2>3
  <1> QED BY <1>1, <1>2, <1>4, <1>5 DEF RInv, Exact

LEMMA StepRInv ==
    ASSUME RInv, [Next]_vars
    PROVE  RInv'
  <1>1. IInv'
    BY StepIInv DEF RInv
  <1>2. CASE Next /\ ~Rest
    <2>1. HandInv'
      BY <1>2, HandPreserved DEF RInv, IInv
    <2>2. RefsInv'
      BY <1>2, LoadRefs, SectionRefs, AcquireRefs, FreeRefs, EndListenerRefs, SupplyRefs DEF Next
    <2> QED BY <1>1, <2>1, <2>2 DEF RInv, RefsInv
  <1>3. CASE UNCHANGED vars
    <2>1. \A o : Owed(o)' = Owed(o) /\ EndpointsOf(o)' = EndpointsOf(o)
      BY <1>3, OwedFrame DEF vars
    <2>2. \A o : HeldBy(o)' = HeldBy(o)
      BY <1>3 DEF vars, HeldBy
    <2>3. \A o : Claims(o)' = Claims(o)
      BY <1>3, <2>2 DEF vars, Inserting, Claims
    <2>4. refs' = refs
      BY <1>3 DEF vars
    <2>5. CountFinite' /\ Exact'
      BY <2>1, <2>2, <2>3, <2>4 DEF RInv, CountFinite, Exact
    <2>6. HandInv' /\ EndpointInv' /\ FreedInv'
      BY <1>3 DEF vars, RInv, HandInv, HandOK, EndpointInv, EndpointOK, FreedInv
    <2> QED BY <1>1, <2>5, <2>6 DEF RInv
  <1> QED BY <1>2, <1>3 DEF Rest

(* The counts, and what they rest on, hold all the time.                   *)
THEOREM CountsInvariant == Spec => []RInv
  <1>1. RInv /\ [Next]_vars => RInv'
    BY StepRInv
  <1> QED BY InitRInv, <1>1, PTL DEF Spec

(* A thread that inserts has a plug-in in hand, so nobody inserts an       *)
(* endpoint.                                                               *)
LEMMA ExactCounts ==
    ASSUME RInv
    PROVE  RefsExact
  <1>1. TypeOK /\ CountFinite /\ Exact
    BY DEF RInv, IInv
  <1>2. ASSUME NEW o \in Plugins
        PROVE  refs[o] = Cardinality(Entered("container", o)) + Cardinality(Entered("server", o))
                    + Cardinality(HostsOf(o)) + Cardinality(EndpointsOf(o)) + supplied[o]
                    + Cardinality(HeldBy(o)) + Cardinality(Inserting(o))
    <2>1. o \in Objects
      BY DEF Objects
    <2>2. refs[o] = Owed(o) + Claims(o)
      BY <1>1, <2>1 DEF Exact
    <2>3. /\ Cardinality(HeldBy(o)) \in Nat /\ Cardinality(Inserting(o)) \in Nat
          /\ Claims(o) = Cardinality(HeldBy(o)) + Cardinality(Inserting(o))
      BY <1>1, <2>1, CountsTyped DEF Claims
    <2>4. /\ Owed(o) = Cardinality(Entered("container", o)) + Cardinality(Entered("server", o))
                + Cardinality(HostsOf(o)) + Cardinality(EndpointsOf(o)) + supplied[o]
          /\ Owed(o) \in Nat
      BY <1>1, <2>1, PluginOwed, CountsTyped
    <2>5. /\ Cardinality(Entered("container", o)) \in Nat
          /\ Cardinality(Entered("server", o)) \in Nat
          /\ Cardinality(HostsOf(o)) \in Nat
          /\ Cardinality(EndpointsOf(o)) \in Nat
          /\ supplied[o] \in Nat
      BY <1>1, PluginOwed
    <2> QED BY <2>2, <2>3, <2>4, <2>5
  <1>3. ASSUME NEW e \in Endpoints
        PROVE  refs[e] = inFlight[e] + Cardinality(HeldBy(e))
                    + (IF lstate[e] \in {"running", "ended"} THEN 1 ELSE 0)
    <2>1. e \in Objects
      BY DEF Objects
    <2>2. \A t \in HeldBy(e) : pc[t] \in {"listen", "discard"}
      BY <1>1, HeldEndpoint DEF RInv, IInv, HeldBy
    <2>3. Inserting(e) = {}
      BY <2>2 DEF Inserting
    <2>4. Claims(e) = Cardinality(HeldBy(e)) /\ Cardinality(HeldBy(e)) \in Nat
      BY <1>1, <2>1, <2>3, FS_EmptySet, CountsTyped DEF Claims
    <2>5. Owed(e) = inFlight[e] + Listened(e) /\ inFlight[e] \in Nat /\ Listened(e) \in {0, 1}
      BY <1>1, EndpointOwed
    <2>6. refs[e] = Owed(e) + Claims(e)
      BY <1>1, <2>1 DEF Exact
    <2> QED BY <2>4, <2>5, <2>6 DEF Listened
  <1> QED BY <1>2, <1>3 DEF RefsExact

(* Whatever fails while modules are loaded and sections are set up, on     *)
(* however many threads, the reference count of every container, server    *)
(* and endpoint is the number of pointers that count: none is lost and     *)
(* none is dropped twice.                                                  *)
THEOREM ReferencesExact == Spec => []RefsExact
  <1>1. RInv => RefsExact
    BY ExactCounts
  <1> QED BY <1>1, CountsInvariant, PTL

(* What is in use is counted, so its count is not zero and it has not been *)
(* freed.                                                                  *)
LEMMA UsedLives ==
    ASSUME RInv
    PROVE  NoDangling
  <1>1. TypeOK /\ CountFinite /\ Exact /\ EndpointInv /\ FreedInv
    BY DEF RInv, IInv
  <1>2. ASSUME NEW k \in Kinds, NEW i \in DOMAIN entries[k]
        PROVE  entries[k][i] \notin freed
    <2>1. entries[k][i] \in Plugins
      BY <1>1 DEF TypeOK
    <2>2. PICK o \in Plugins : o = entries[k][i]
      BY <2>1
    <2>3. i \in Entered(k, o)
      BY <2>2 DEF Entered
    <2> QED BY <2>2, <2>3, UsedCounts
  <1>3. ASSUME NEW i \in DOMAIN hosts
        PROVE  hosts[i].container \notin freed
    <2>1. PICK o \in Plugins : o = hosts[i].container
      BY <1>1, HostTyped
    <2>2. i \in HostsOf(o)
      BY <2>1 DEF HostsOf
    <2> QED BY <2>1, <2>2, UsedCounts
  <1>4. ASSUME NEW e \in Endpoints, lstate[e] \in {"running", "ended"} \/ inFlight[e] > 0
        PROVE  e \notin freed
    <2>1. e \in Objects /\ lstate[e] \in {"running", "ended"}
      BY <1>1, <1>4 DEF Objects, EndpointInv, EndpointOK
    <2>2. Owed(e) >= 1
      BY <1>1, <2>1, EndpointOwed DEF Listened
    <2>3. refs[e] >= 1
      BY <1>1, <2>1, <2>2, CountsTyped DEF Exact
    <2> QED BY <1>1, <2>3 DEF FreedInv
  <1>5. NULL \notin freed
    BY <1>1, NullAssumption DEF TypeOK
  <1>6. ASSUME NEW e \in Endpoints \ freed
        PROVE  serverOf[e] \notin freed
    <2>1. CASE serverOf[e] = NULL
      BY <1>5, <2>1
    <2>2. CASE serverOf[e] # NULL
      <3>1. PICK o \in Plugins : o = serverOf[e]
        BY <1>1, <2>2 DEF TypeOK
      <3>2. e \in EndpointsOf(o)
        BY <3>1 DEF EndpointsOf
      <3> QED BY <3>1, <3>2, UsedCounts
    <2> QED BY <2>1, <2>2
  <1>7. ASSUME NEW t \in Threads
        PROVE  obj[t] \notin freed
    <2>1. obj[t] \in Objects \cup {NULL}
      BY <1>1 DEF TypeOK
    <2> QED BY <1>5, <2>1, HeldCounts
  <1> QED BY <1>2, <1>3, <1>4, <1>6, <1>7 DEF NoDangling, InUse

(* Nothing that a registry, a host, a listener, a request, an endpoint or  *)
(* a thread points to has been freed.                                      *)
THEOREM NothingDangles == Spec => []NoDangling
  <1>1. RInv => NoDangling
    BY UsedLives
  <1> QED BY <1>1, CountsInvariant, PTL
=============================================================================
