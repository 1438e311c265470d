------------------------ MODULE InfoContainerProofs ------------------------
(***************************************************************************)
(* Proofs about InfoContainer, for any plug-in, environment, endpoint and  *)
(* failures: the request is there while it is used, and its steps are      *)
(* those of FcgiRequest, so that what is proved of any container holds of  *)
(* this one behind its endpoint. From that and an invariant of the page    *)
(* that is being made follows what a client is sent, what the access log   *)
(* says of it, and that the client is served as Exchange promises.         *)
(***************************************************************************)
EXTENDS InfoContainer, FcgiRequestProofs

CallType == [method : Methods, name : Names \cup {NULL}, value : Values \cup {NULL}]

(* A call of header has a name and a value. *)
CallsMade ==
    /\ calls \in Seq(CallType)
    /\ \A i \in 1 .. Len(calls) :
        calls[i].method = "header" => calls[i].name \in Names /\ calls[i].value \in Values

(* The rest of InfoTypeOK. *)
ThreadsTyped ==
    /\ plugin \in {"fcgi", "dummy"} /\ envp \in Envs /\ endpoint \in Endpoints
    /\ socket # NoSocket => plugin = "fcgi"
    /\ lpc \in {"create", "process", "acquire", "route", "queue", "release", "ended"}
    /\ req \in {"none", "pending", "live", "freed"} /\ refs \in 0 .. 2
    /\ queued \in BOOLEAN /\ crashed \in BOOLEAN
    /\ wpc \in {"none", "nothread", "waiting", "woken", "consume", "page", "complete", "exited"}
    /\ logged = NULL \/ logged.status \in 100 .. 999

(* A request is routed once. *)
Unrouted == lpc \in {"route", "queue"} => queued = FALSE

InfoInv == ThreadsTyped /\ RequestHeld /\ Unrouted /\ CallsMade /\ StatusTyped

LEMMA InvImpliesTypeOK == InfoInv => InfoTypeOK
  BY DEF InfoInv, ThreadsTyped, CallsMade, CallType, InfoTypeOK

-----------------------------------------------------------------------------
(* The pages. *)
LEMMA CallInType ==
    ASSUME NEW method \in Methods
    PROVE  Call(method) \in CallType
  BY DEF Call, CallType

LEMMA HeaderInType ==
    ASSUME NEW n \in Names, NEW v \in Values
    PROVE  Header_(n, v) \in CallType
  BY DEF Header_, CallType, Methods

Proper(page) ==
    /\ page \in Seq(CallType)
    /\ \A i \in 1 .. Len(page) :
        page[i].method = "header" => page[i].name \in Names /\ page[i].value \in Values

(* Every page is a list of calls, and its headers have names and values. *)
LEMMA PagesProper == \A sub : Proper(Page(sub))
  <1>1. {"puts", "write", "close", "protocol", "method", "request_uri_str", "getenv", "environment"}
            \subseteq Methods
    BY DEF Methods
  <1>2. /\ Header_("Content-type", HtmlUtf8) \in CallType
        /\ Header_("Content-type", Css) \in CallType
        /\ Header_("Status", NotFound) \in CallType
    BY HeaderInType, PagesAssumption, HeadersAssumption
  <1>3. \A method \in Methods : Call(method) \in CallType /\ Call(method).method = method
    BY CallInType DEF Call
  <1>4. \A n, v : Header_(n, v).name = n /\ Header_(n, v).value = v
    BY DEF Header_
  <1>5. Proper(InfoPage)
    BY <1>1, <1>2, <1>3, <1>4, PagesAssumption DEF Proper, InfoPage
  <1>6. Proper(CssPage)
    BY <1>1, <1>2, <1>3, <1>4, PagesAssumption DEF Proper, CssPage
  <1>7. Proper(MissingPage)
    BY <1>1, <1>2, <1>3, <1>4, PagesAssumption, HeadersAssumption DEF Proper, MissingPage
  <1> QED BY <1>5, <1>6, <1>7 DEF Page

(* The calls that are left, and the one that is next. *)
LEMMA CallsLeft ==
    ASSUME CallsMade, calls # <<>>
    PROVE  /\ Head(calls) \in CallType
           /\ Head(calls).method = "header" => Head(calls).name \in Names /\ Head(calls).value \in Values
           /\ Proper(Tail(calls))
  <1>1. 1 \in 1 .. Len(calls) /\ Head(calls) = calls[1]
    BY DEF CallsMade
  <1>2. Tail(calls) \in Seq(CallType) /\ Len(Tail(calls)) = Len(calls) - 1
    BY DEF CallsMade
  <1>3. \A i \in 1 .. Len(Tail(calls)) : i + 1 \in 1 .. Len(calls) /\ Tail(calls)[i] = calls[i + 1]
    BY <1>2 DEF CallsMade
  <1> QED BY <1>1, <1>2, <1>3 DEF CallsMade, Proper

-----------------------------------------------------------------------------
(* Each call of a page is a step of a request, or none. *)
LEMMA EffectIsAStep ==
    ASSUME CallsMade, calls # <<>>, Effect(Head(calls))
    PROVE  [Next]_vars
  <1> DEFINE call == Head(calls)
  <1>1. CASE call.method = "header"
    <2>1. call.name \in Names /\ call.value \in Values
      BY <1>1, CallsLeft
    <2>2. SetHeaderCall(call.name, call.value)
      BY <1>1 DEF Effect
    <2>3. \/ UNCHANGED vars
          \/ SetHeader(call.name, call.value, TRUE)
          \/ SetHeaderNoMemory(call.name, call.value, TRUE)
      BY <2>2 DEF SetHeaderCall
    <2> QED BY <2>1, <2>3 DEF Next
  <1>2. CASE call.method \in {"puts", "write"}
    BY <1>2 DEF Effect, Next
  <1>3. CASE call.method = "close"
    BY <1>3 DEF Effect, Next
  <1>4. CASE call.method \notin {"header", "puts", "write", "close"}
    BY <1>4 DEF Effect
  <1> QED BY <1>1, <1>2, <1>3, <1>4

LEMMA ReleaseIsAStep == Release => [Next]_vars
  BY DEF Release, Finish_r, Next

(* Whatever step the threads make, the request makes one or none. *)
LEMMA StepIsAStep == CallsMade /\ [InfoNext]_infoVars => [Next]_vars
  <1> SUFFICES ASSUME CallsMade, [InfoNext]_infoVars PROVE [Next]_vars
    OBVIOUS
  <1>1. CASE UNCHANGED infoVars
    BY <1>1 DEF infoVars
  <1>2. CASE CreateEndpoint \/ NoEndpoint \/ Process \/ ProcessFails
    BY <1>2 DEF CreateEndpoint, NoEndpoint, Process, ProcessFails
  <1>3. CASE Acquire \/ AcquireFails \/ Locate \/ CreateWorker \/ Queue \/ RouteDrops
    BY <1>3 DEF Acquire, AcquireFails, Locate, CreateWorker, Queue, RouteDrops
  <1>7. CASE SpuriousWakeup \/ WakeTerminate \/ Fetch \/ CallMissing \/ LogRequest
    BY <1>7 DEF SpuriousWakeup, WakeTerminate, Fetch, CallMissing, LogRequest
  <1>4. CASE ReleaseRouted \/ Complete
    BY <1>4, ReleaseIsAStep DEF ReleaseRouted, Complete
  <1>5. CASE ChoosePage
    <2>1. UNCHANGED vars \/ Consume
      BY <1>5 DEF ChoosePage
    <2> QED BY <2>1 DEF Next
  <1>6. CASE MakeCall
    <2>1. calls # <<>> /\ (UNCHANGED vars \/ Effect(Head(calls)))
      BY <1>6 DEF MakeCall
    <2> QED BY <2>1, EffectIsAStep
  <1> QED BY <1>1, <1>2, <1>3, <1>4, <1>5, <1>6, <1>7 DEF InfoNext, ListenerStep, WorkerStep

-----------------------------------------------------------------------------
(* The invariant. *)
LEMMA InfoInitInv == InfoInit => InfoInv
  <1> SUFFICES ASSUME InfoInit PROVE InfoInv
    OBVIOUS
  <1>1. StatusTyped
    BY InitStatusTyped DEF InfoInit
  <1>2. CallsMade
    BY DEF InfoInit, CallsMade
  <1>3. ThreadsTyped
    <2>1. /\ plugin \in {"fcgi", "dummy"} /\ envp \in Envs /\ endpoint \in Endpoints
          /\ socket = NoSocket /\ lpc = "create" /\ req = "none" /\ refs = 0
          /\ queued = FALSE /\ crashed = FALSE /\ wpc \in {"none", "waiting"} /\ logged = NULL
      BY DEF InfoInit
    <2>2. queued \in BOOLEAN /\ crashed \in BOOLEAN
      BY <2>1
    <2> QED BY <2>1, <2>2 DEF ThreadsTyped
  <1>4. RequestHeld
    <2>1. queued = FALSE /\ lpc = "create" /\ refs = 0 /\ req = "none" /\ wpc \in {"none", "waiting"}
      BY DEF InfoInit
    <2> QED BY <2>1 DEF RequestHeld
  <1>5. Unrouted
    BY DEF InfoInit, Unrouted
  <1> QED BY <1>1, <1>2, <1>3, <1>4, <1>5 DEF InfoInv

(* A release gives back one of the references that there are. *)
LEMMA Released ==
    ASSUME InfoInv, Release, refs > 0
    PROVE  /\ refs' = refs - 1 /\ refs' \in 0 .. 1
           /\ req' = IF refs = 1 THEN "freed" ELSE "live"
  BY DEF InfoInv, ThreadsTyped, RequestHeld, Release

LEMMA InfoNextInv == InfoInv /\ [InfoNext]_infoVars => InfoInv'
  <1> SUFFICES ASSUME InfoInv, [InfoNext]_infoVars PROVE InfoInv'
    OBVIOUS
  <1>1. StatusTyped'
    BY StepIsAStep, NextStatusTyped DEF InfoInv
  <1>2. CallsMade'
    <2>1. CASE UNCHANGED calls
      BY <2>1 DEF InfoInv, CallsMade
    <2>2. CASE ChoosePage
      BY <2>2, PagesProper DEF ChoosePage, Proper, CallsMade
    <2>3. CASE MakeCall
      BY <2>3, CallsLeft DEF InfoInv, MakeCall, Proper, CallsMade
    <2>4. CASE ~ChoosePage /\ ~MakeCall
      BY <2>1, <2>4 DEF InfoNext, infoVars, workerVars, ListenerStep, WorkerStep, CreateEndpoint, NoEndpoint,
         Process, ProcessFails, Acquire, AcquireFails, Locate, CreateWorker, Queue, RouteDrops, ReleaseRouted,
         SpuriousWakeup, WakeTerminate, Fetch, CallMissing, LogRequest,
         Complete
    <2> QED BY <2>2, <2>3, <2>4
  <1>3. ThreadsTyped' /\ RequestHeld'
    <2>1. CASE UNCHANGED infoVars
      BY <2>1 DEF InfoInv, ThreadsTyped, RequestHeld, infoVars, endpointVars, requestVars, workerVars
    <2>2. CASE CreateEndpoint \/ NoEndpoint
      BY <2>2 DEF InfoInv, ThreadsTyped, RequestHeld, CreateEndpoint, NoEndpoint, ListenerAt,
                  endpointVars, requestVars, workerVars
    <2>3. CASE Process \/ ProcessFails
      BY <2>3 DEF InfoInv, ThreadsTyped, RequestHeld, Process, ProcessFails, ListenerAt,
                  endpointVars, requestVars, workerVars
    <2>4. CASE Acquire \/ AcquireFails
      BY <2>4 DEF InfoInv, ThreadsTyped, RequestHeld, Acquire, AcquireFails, ListenerAt,
                  endpointVars, requestVars, workerVars
    <2>5. CASE Queue
      <3>1. lpc = "queue" /\ lpc' = "release" /\ queued' = TRUE /\ refs' = refs + 1 /\ req' = req
        BY <2>5 DEF Queue, ListenerAt
      <3>2. queued = FALSE
        BY <3>1 DEF InfoInv, Unrouted
      <3> QED BY <2>5, <3>1, <3>2 DEF InfoInv, ThreadsTyped, RequestHeld, Queue, endpointVars, workerVars
    <2>10. CASE Locate
      BY <2>10 DEF InfoInv, ThreadsTyped, RequestHeld, Locate, ListenerAt, endpointVars, requestVars, workerVars
    <2>11. CASE CreateWorker
      <3>1. /\ lpc = "route" /\ lpc' = "queue" /\ wpc' \in {"waiting", "nothread"}
            /\ UNCHANGED <<plugin, envp, endpoint, socket, req, refs, queued, crashed, logged>>
        BY <2>11 DEF CreateWorker, ListenerAt, endpointVars, requestVars
      <3> QED BY <3>1 DEF InfoInv, ThreadsTyped, RequestHeld
    <2>12. CASE LogRequest
      <3>1. AccessLog.status \in 100 .. 999
        BY DEF InfoInv, StatusTyped, AccessLog
      <3>2. logged'.status \in 100 .. 999
        BY <2>12, <3>1 DEF LogRequest
      <3>3. /\ wpc = "page" /\ wpc' = "complete"
            /\ UNCHANGED <<plugin, envp, endpoint, socket, lpc, req, refs, queued, crashed>>
        BY <2>12 DEF LogRequest, WorkerAt, endpointVars, requestVars
      <3> QED BY <3>2, <3>3 DEF InfoInv, ThreadsTyped, RequestHeld
    <2>6. CASE RouteDrops
      BY <2>6 DEF InfoInv, ThreadsTyped, RequestHeld, RouteDrops, ListenerAt,
                  endpointVars, requestVars, workerVars
    <2>7. CASE ReleaseRouted
      <3>1. refs > 0 /\ Release
        BY <2>7 DEF InfoInv, ThreadsTyped, RequestHeld, ReleaseRouted, ListenerAt
      <3>2. lpc = "release" /\ lpc' = "process" /\ queued' = queued
        BY <2>7 DEF ReleaseRouted, ListenerAt
      <3>3. ThreadsTyped'
        BY <2>7, <3>1, <3>2, Released DEF InfoInv, ThreadsTyped, ReleaseRouted, endpointVars, workerVars
      <3>4. RequestHeld'
        BY <2>7, <3>1, <3>2, Released DEF InfoInv, ThreadsTyped, RequestHeld, ReleaseRouted, workerVars
      <3> QED BY <3>3, <3>4
    <2>8. CASE SpuriousWakeup \/ WakeTerminate \/ Fetch \/ ChoosePage \/ MakeCall \/ CallMissing
      <3>1. UNCHANGED <<plugin, envp, endpoint, socket, lpc, req, refs, queued, logged>>
        BY <2>8 DEF SpuriousWakeup, WakeTerminate, Fetch, ChoosePage, MakeCall, CallMissing, endpointVars, requestVars
      <3>2. crashed' \in BOOLEAN
        <4>1. crashed' = crashed \/ crashed' = TRUE
          BY <2>8 DEF SpuriousWakeup, WakeTerminate, Fetch, ChoosePage, MakeCall, CallMissing
        <4> QED BY <4>1 DEF InfoInv, ThreadsTyped
      <3>3. wpc' \in {"woken", "exited", "consume", "page", wpc}
        BY <2>8 DEF InfoInv, ThreadsTyped, SpuriousWakeup, WakeTerminate, Fetch, ChoosePage, MakeCall, CallMissing
      <3>4. wpc' \in {"consume", "page", "complete"} => queued
        BY <2>8 DEF InfoInv, RequestHeld, SpuriousWakeup, WakeTerminate, Idle, Fetch, ChoosePage, MakeCall, CallMissing, WorkerAt
      <3>5. ThreadsTyped'
        BY <3>1, <3>2, <3>3 DEF InfoInv, ThreadsTyped
      <3>6. RequestHeld'
        BY <3>1, <3>4 DEF InfoInv, RequestHeld
      <3> QED BY <3>5, <3>6
    <2>9. CASE Complete
      <3>1. refs > 0 /\ Release
        BY <2>9 DEF InfoInv, ThreadsTyped, RequestHeld, Complete, WorkerAt
      <3>2. queued = TRUE /\ queued' = FALSE /\ wpc' = "waiting"
        BY <2>9 DEF InfoInv, ThreadsTyped, RequestHeld, Complete, WorkerAt
      <3>3. UNCHANGED <<plugin, envp, endpoint, socket, lpc, crashed, logged>>
        BY <2>9 DEF Complete, endpointVars
      <3>4. ThreadsTyped'
        <4>1. req' \in {"freed", "live"} /\ refs' \in 0 .. 2
          BY <3>1, Released
        <4>2. queued' \in BOOLEAN /\ crashed' \in BOOLEAN
          BY <3>2, <3>3 DEF InfoInv, ThreadsTyped
        <4>3. plugin' \in {"fcgi", "dummy"} /\ envp' \in Envs /\ endpoint' \in Endpoints
          BY <3>3 DEF InfoInv, ThreadsTyped
        <4>4. (socket' # NoSocket => plugin' = "fcgi") /\ (logged' = NULL \/ logged'.status \in 100 .. 999)
          BY <3>3 DEF InfoInv, ThreadsTyped
        <4>5. lpc' \in {"create", "process", "acquire", "route", "queue", "release", "ended"}
          BY <3>3 DEF InfoInv, ThreadsTyped
        <4> QED BY <3>2, <4>1, <4>2, <4>3, <4>4, <4>5 DEF ThreadsTyped
      <3>5. RequestHeld'
        BY <3>1, <3>2, <3>3, Released DEF InfoInv, ThreadsTyped, RequestHeld
      <3> QED BY <3>4, <3>5
    <2> QED BY <2>1, <2>2, <2>3, <2>4, <2>5, <2>6, <2>7, <2>8, <2>9, <2>10, <2>11, <2>12
          DEF InfoNext, ListenerStep, WorkerStep
  <1>4. Unrouted'
    <2>1. CASE Acquire
      <3>1. refs = 0 /\ queued' = queued
        BY <2>1 DEF InfoInv, ThreadsTyped, RequestHeld, Acquire
      <3> QED BY <3>1 DEF InfoInv, ThreadsTyped, RequestHeld, Unrouted
    <2>2. CASE ~Acquire
      <3>1. lpc' \in {"route", "queue"} => lpc \in {"route", "queue"}
        BY <2>2 DEF ListenerAt, InfoNext, infoVars, ListenerStep, WorkerStep, CreateEndpoint, NoEndpoint, Process,
           ProcessFails, AcquireFails, Locate, CreateWorker, Queue, RouteDrops, ReleaseRouted, SpuriousWakeup,
       WakeTerminate, Fetch, ChoosePage, MakeCall, LogRequest,
           CallMissing, Complete
      <3>2. lpc' \in {"route", "queue"} => queued' = queued \/ queued' = FALSE
        BY <2>2 DEF ListenerAt, InfoNext, infoVars, ListenerStep, WorkerStep, CreateEndpoint, NoEndpoint, Process,
           ProcessFails, AcquireFails, Locate, CreateWorker, Queue, RouteDrops, ReleaseRouted, SpuriousWakeup,
       WakeTerminate, Fetch, ChoosePage, MakeCall, LogRequest,
           CallMissing, Complete
      <3> QED BY <3>1, <3>2 DEF InfoInv, Unrouted
    <2> QED BY <2>1, <2>2
  <1> QED BY <1>1, <1>2, <1>3, <1>4 DEF InfoInv

LEMMA InfoInvariant == InfoSpec => []InfoInv
  BY InfoInitInv, InfoNextInv, PTL DEF InfoSpec

-----------------------------------------------------------------------------
(* The variables of the threads keep their types. *)
THEOREM InfoTypeCorrect == InfoSpec => []InfoTypeOK
  <1>1. InfoInv => InfoTypeOK
    BY InvImpliesTypeOK
  <1> QED BY InfoInvariant, <1>1, PTL

(* The count is that of the holders, and nobody uses a freed request. *)
THEOREM RequestIsHeld == InfoSpec => []RequestHeld
  <1>1. InfoInv => RequestHeld
    BY DEF InfoInv
  <1> QED BY InfoInvariant, <1>1, PTL

(* Each step is one of the request or none.                                *)
LEMMA ContainerUsesRequest == InfoSpec => Spec
  <1>1. InfoInit => Init
    BY DEF InfoInit
  <1>2. InfoInv /\ [InfoNext]_infoVars => [Next]_vars
    BY StepIsAStep DEF InfoInv
  <1> QED BY InfoInvariant, <1>1, <1>2, PTL DEF InfoSpec, Spec

(* So the status in the access log is that of the Status header: the two   *)
(* agree behind an endpoint as they do for any container.                  *)
THEOREM ContainerStatusCorrect == InfoSpec => []StatusAgrees
  BY ContainerUsesRequest, StatusCorrect, PTL

-----------------------------------------------------------------------------
(* The environment. *)

(* A table has texts for some names. *)
Entries == [name : STRING \cup {NULL}, value : Text]

Tables == UNION {[S -> Text] : S \in SUBSET (STRING \cup {NULL})}

(* f has the tables of the first entries. *)
Fills(e, f) ==
    /\ f \in [0 .. Len(e) -> Tables]
    /\ f[0] = <<>>
    /\ \A i \in 1 .. Len(e) : f[i] = Assigned(e[i], f[i - 1])

(* An entry adds to a table or changes it. *)
LEMMA AssignedTyped ==
    ASSUME NEW entry \in Entries, NEW t \in Tables
    PROVE  Assigned(entry, t) \in Tables
  <1>1. PICK S \in SUBSET (STRING \cup {NULL}) : t \in [S -> Text]
    BY DEF Tables
  <1>2. CASE entry.name = NULL
    BY <1>2 DEF Assigned
  <1>3. CASE entry.name # NULL
    <2> DEFINE U == S \cup {entry.name}
               u == [n \in U |-> IF n = entry.name THEN entry.value ELSE t[n]]
    <2>1. entry.name \in STRING \cup {NULL} /\ entry.value \in Text
      BY DEF Entries
    <2>2. U \in SUBSET (STRING \cup {NULL})
      BY <2>1
    <2>3. u \in [U -> Text]
      BY <1>1, <2>1
    <2>4. Assigned(entry, t) = u
      BY <1>1, <1>3 DEF Assigned
    <2> HIDE DEF u, U
    <2> QED BY <2>2, <2>3, <2>4 DEF Tables
  <1> QED BY <1>2, <1>3

(* There are such tables. *)
LEMMA TablesExist ==
    ASSUME NEW e \in Seq(Entries)
    PROVE  \E f : Fills(e, f)
  <1> DEFINE n == Len(e)
             next == [p \in (1 .. n) \X Tables |-> Assigned(e[p[1]], p[2])]
  <1>1. n \in Nat /\ \A i \in 1 .. n : e[i] \in Entries
    OBVIOUS
  <1>2. next \in [(1 .. n) \X Tables -> Tables]
    BY <1>1, AssignedTyped
  <1>3. \A i \in 1 .. n, t \in Tables : next[<<i, t>>] = Assigned(e[i], t)
    OBVIOUS
  <1>4. <<>> \in Tables
    <2>1. <<>> \in [{} -> Text] /\ {} \in SUBSET (STRING \cup {NULL})
      OBVIOUS
    <2> QED BY <2>1 DEF Tables
  <1> HIDE DEF next, n
  <1>5. \E f \in [0 .. n -> Tables] : f[0] = <<>> /\ Follows(f, next, n)
    BY <1>1, <1>2, <1>4, RecursionOnPlaces
  <1>6. PICK f \in [0 .. n -> Tables] : f[0] = <<>> /\ \A i \in 1 .. n : f[i] = next[<<i, f[i - 1]>>]
    BY <1>5 DEF Follows
  <1>7. \A i \in 1 .. n : f[i - 1] \in Tables
    BY <1>1, <1>6
  <1>8. \A i \in 1 .. n : f[i] = Assigned(e[i], f[i - 1])
    BY <1>3, <1>6, <1>7
  <1> QED BY <1>6, <1>8 DEF n, Fills

(* The table of an environment is the last of them. *)
LEMMA EnvTableIs ==
    ASSUME NEW e \in Seq(Entries), NEW f, Fills(e, f)
    PROVE  EnvTable(e) = f[Len(e)]
  <1> DEFINE n == Len(e)
             value(g, i) == IF i = 0 THEN <<>> ELSE Assigned(e[i], g[i - 1])
             table == CHOOSE g : g = [i \in 0 .. n |-> value(g, i)]
  <1>0. n \in Nat
    OBVIOUS
  <1>1. f = [i \in 0 .. n |-> value(f, i)]
    <2>1. f = [i \in 0 .. n |-> f[i]]
      BY DEF Fills
    <2>2. \A i \in 0 .. n : f[i] = value(f, i)
      BY DEF Fills
    <2> HIDE DEF value, n
    <2> QED BY <2>1, <2>2
  <1>2. table = [i \in 0 .. n |-> value(table, i)]
    <2> HIDE DEF value
    <2> QED BY <1>1
  <1>3. EnvTable(e) = table[n]
    BY DEF EnvTable
  <1> HIDE DEF table, n
  <1>4. \A i \in 0 .. n : table[i] = value(table, i) /\ f[i] = value(f, i)
    <2> HIDE DEF value
    <2> QED BY <1>1, <1>2
  <1> DEFINE P == {i \in 0 .. n : table[i] = f[i]}
  <1>5. 0 \in P
    BY <1>0, <1>4
  <1>6. ASSUME NEW i \in 1 .. n, i - 1 \in P PROVE i \in P
    BY <1>0, <1>4, <1>6
  <1>7. \A i \in 0 .. n : i \in P
    <2> HIDE DEF P
    <2> QED BY <1>0, <1>5, <1>6, AllUpTo
  <1> QED BY <1>0, <1>3, <1>7 DEF n

(* The value of a name among the first i entries: that of its last entry.  *)
LastAt(e, name, i, j) ==
    j \in 1 .. i /\ e[j].name = name /\ \A k \in j + 1 .. i : e[k].name # name

(* The table of the first i entries has it, or has nothing if there is none. *)
HasLast(e, f, name, i) ==
    \/ (\A k \in 1 .. i : e[k].name # name) /\ name \notin DOMAIN f[i]
    \/ \E j \in 1 .. i : LastAt(e, name, i, j) /\ name \in DOMAIN f[i] /\ f[i][name] = e[j].value

(* Every one of them has. *)
LEMMA TableHasLast ==
    ASSUME NEW e \in Seq(Entries), NEW f, Fills(e, f), NEW name, name # NULL
    PROVE  \A i \in 0 .. Len(e) : HasLast(e, f, name, i)
  <1> DEFINE None(i) == (\A k \in 1 .. i : e[k].name # name) /\ name \notin DOMAIN f[i]
             Some(i) == \E j \in 1 .. i : LastAt(e, name, i, j) /\ name \in DOMAIN f[i] /\ f[i][name] = e[j].value
             P == {i \in 0 .. Len(e) : None(i) \/ Some(i)}
  <1>0. Len(e) \in Nat
    OBVIOUS
  <1>1. 0 \in P
    BY <1>0 DEF Fills
  <1>2. ASSUME NEW i \in 1 .. Len(e), i - 1 \in P PROVE i \in P
    <2> DEFINE t == f[i - 1]
    <2>1. f[i] = Assigned(e[i], t) /\ i - 1 \in 0 .. Len(e) /\ i \in Nat
      BY <1>0 DEF Fills
    <2>2. None(i - 1) \/ Some(i - 1)
      BY <1>2
    <2>3. \A k \in 1 .. i : k = i \/ k \in 1 .. i - 1
      BY <2>1
    <2>4. CASE e[i].name = name
      <3>1. f[i] = [n \in DOMAIN t \cup {name} |-> IF n = name THEN e[i].value ELSE t[n]]
        BY <2>1, <2>4 DEF Assigned
      <3>2. name \in DOMAIN f[i] /\ f[i][name] = e[i].value
        BY <3>1
      <3>3. LastAt(e, name, i, i) /\ i \in 1 .. i
        BY <2>1, <2>4 DEF LastAt
      <3>4. Some(i)
        BY <3>2, <3>3
      <3> QED BY <1>0, <3>4
    <2>5. CASE e[i].name # name
      <3>1. (name \in DOMAIN f[i] <=> name \in DOMAIN t) /\ (name \in DOMAIN t => f[i][name] = t[name])
        BY <2>1, <2>5 DEF Assigned
      <3>2. CASE None(i - 1)
        <4>1. None(i)
          BY <2>3, <2>5, <3>1, <3>2
        <4> QED BY <1>0, <4>1
      <3>3. CASE Some(i - 1)
        <4>1. PICK j \in 1 .. i - 1 : LastAt(e, name, i - 1, j) /\ name \in DOMAIN t /\ t[name] = e[j].value
          BY <3>3
        <4>2. j \in 1 .. i /\ j \in Nat
          BY <2>1
        <4>3. \A k \in j + 1 .. i : k = i \/ k \in j + 1 .. i - 1
          BY <2>1, <4>2
        <4>4. LastAt(e, name, i, j)
          BY <2>5, <4>1, <4>2, <4>3 DEF LastAt
        <4>5. Some(i)
          BY <3>1, <4>1, <4>2, <4>4
        <4> QED BY <1>0, <4>5
      <3> QED BY <2>2, <3>2, <3>3
    <2> QED BY <2>4, <2>5
  <1>3. \A i \in 0 .. Len(e) : i \in P
    <2> HIDE DEF P
    <2> QED BY <1>0, <1>1, <1>2, AllUpTo
  <1> QED BY <1>3 DEF HasLast

(* What is found for a name in the table of an environment is the value of *)
(* its last entry.                                                         *)
LEMMA GetenvIs ==
    ASSUME NEW e \in Seq(Entries), NEW name, name # NULL
    PROVE  LET places == {i \in DOMAIN e : e[i].name = name}
           IN  /\ places = {} => getenv(EnvTable(e), name) = NULL
               /\ places # {} => /\ Max(places) \in places
                                 /\ getenv(EnvTable(e), name) = e[Max(places)].value
  <1> DEFINE places == {i \in DOMAIN e : e[i].name = name}
             n == Len(e)
  <1>0. n \in Nat /\ DOMAIN e = 1 .. n
    OBVIOUS
  <1>1. PICK f : Fills(e, f)
    BY TablesExist
  <1>2. EnvTable(e) = f[n]
    BY <1>1, EnvTableIs
  <1>3. n \in 0 .. n
    BY <1>0
  <1>4. \/ (\A k \in 1 .. n : e[k].name # name) /\ name \notin DOMAIN f[n]
        \/ \E j \in 1 .. n : LastAt(e, name, n, j) /\ name \in DOMAIN f[n] /\ f[n][name] = e[j].value
    <2>1. HasLast(e, f, name, n)
      BY <1>1, <1>3, TableHasLast
    <2> QED BY <2>1 DEF HasLast
  <1>5. CASE (\A k \in 1 .. n : e[k].name # name) /\ name \notin DOMAIN f[n]
    <2>1. places = {}
      BY <1>0, <1>5
    <2>2. getenv(EnvTable(e), name) = NULL
      BY <1>2, <1>5 DEF getenv
    <2> QED BY <2>1, <2>2
  <1>6. CASE \E j \in 1 .. n : LastAt(e, name, n, j) /\ name \in DOMAIN f[n] /\ f[n][name] = e[j].value
    <2>1. PICK j \in 1 .. n : LastAt(e, name, n, j) /\ name \in DOMAIN f[n] /\ f[n][name] = e[j].value
      BY <1>6
    <2>2. getenv(EnvTable(e), name) = e[j].value
      BY <1>2, <2>1 DEF getenv
    <2>3. j \in places /\ \A k \in places : k <= j
      BY <1>0, <2>1 DEF LastAt
    <2>4. Max(places) = j
      <3>1. \A x \in places : x \in Int
        BY <1>0
      <3> HIDE DEF places
      <3>2. \A y \in places : j >= y
        BY <2>3, <3>1
      <3>3. \A x \in places : (\A y \in places : x >= y) => x = j
        BY <2>3, <3>1
      <3> QED BY <2>3, <3>2, <3>3 DEF Max
    <2> QED BY <2>2, <2>3, <2>4
  <1> QED BY <1>4, <1>5, <1>6

-----------------------------------------------------------------------------
(* What a write puts. *)

(* The bodies among items, counted. *)
LEMMA BodiesAppend ==
    ASSUME NEW s \in Seq(Items), NEW b \in Items
    PROVE  /\ Bodies(s) \in Nat
           /\ Bodies(Append(s, b)) = Bodies(s) + (IF b = Body THEN 1 ELSE 0)
  <1> DEFINE n == Len(s)
             a == Append(s, b)
             I == {i \in DOMAIN s : s[i] = Body}
             J == {i \in DOMAIN a : a[i] = Body}
  <1>1. n \in Nat /\ DOMAIN s = 1 .. n
    OBVIOUS
  <1>2. DOMAIN a = 1 .. n + 1 /\ a[n + 1] = b /\ \A i \in 1 .. n : a[i] = s[i]
    BY <1>1
  <1>3. IsFiniteSet(I) /\ Cardinality(I) \in Nat
    <2>1. IsFiniteSet(1 .. n)
      BY <1>1, FS_Interval
    <2>2. I \in SUBSET (1 .. n)
      BY <1>1
    <2> HIDE DEF I
    <2> QED BY <2>1, <2>2, FS_Subset, FS_CardinalityType
  <1>4. n + 1 \notin I
    BY <1>1
  <1>5. J = IF b = Body THEN I \cup {n + 1} ELSE I
    <2> HIDE DEF a
    <2>1. \A i \in 1 .. n + 1 : i = n + 1 \/ i \in 1 .. n
      BY <1>1
    <2>2. \A i \in 1 .. n : i \in 1 .. n + 1 /\ i # n + 1
      BY <1>1
    <2>3. n + 1 \in 1 .. n + 1
      BY <1>1
    <2> QED BY <1>1, <1>2, <2>1, <2>2, <2>3
  <1> HIDE DEF I, J, a
  <1>6. Cardinality(J) = Cardinality(I) + (IF b = Body THEN 1 ELSE 0)
    <2>1. CASE b = Body
      BY <1>3, <1>4, <1>5, <2>1, FS_AddElement
    <2>2. CASE b # Body
      BY <1>3, <1>5, <2>2
    <2> QED BY <2>1, <2>2
  <1> QED BY <1>3, <1>6 DEF Bodies, I, J, a

(* A head has none. *)
LEMMA NoBodies ==
    ASSUME NEW s \in Seq(Items), OnlyHeaders(s)
    PROVE  Bodies(s) = 0
  <1>1. \A i \in DOMAIN s : s[i] # Body
    BY DEF OnlyHeaders, HeaderLine, Body
  <1>2. {i \in DOMAIN s : s[i] = Body} = {}
    BY <1>1
  <1> QED BY <1>2, FS_EmptySet DEF Bodies

(* Two items, one by one. *)
LEMMA PairOf ==
    ASSUME NEW T, NEW p \in T, NEW q \in T
    PROVE  <<p>> \o <<q>> = <<p, q>>
  <1> DEFINE x == <<p>> \o <<q>>
             y == <<p, q>>
  <1>1. x \in Seq(T) /\ y \in Seq(T) /\ Len(x) = 2 /\ Len(y) = 2 /\ x[1] = p /\ x[2] = q
    OBVIOUS
  <1>2. y[1] = p /\ y[2] = q
    OBVIOUS
  <1>3. \A i \in 1 .. 2 : i = 1 \/ i = 2
    OBVIOUS
  <1> HIDE DEF x, y
  <1>4. x = y
    BY <1>1, <1>2, <1>3, SeqEqual
  <1> QED BY <1>4 DEF x, y

(* Every write puts one. *)
LEMMA WritePutsBody ==
    ASSUME StreamInv, FirstWrite \/ Write, open
    PROVE  Bodies(out') = Bodies(out) + 1 /\ Bodies(out) \in Nat
  <1>0. Blank \in Items /\ Body \in Items /\ Blank # Body
    BY DEF Items, Blank, Body
  <1>1. out \in Seq(Items)
    BY DEF StreamInv, StreamTyped
  <1>2. CASE Write
    <2>1. out' = out \o <<Body>>
      BY <1>2 DEF Write, Put
    <2>2. out \o <<Body>> = Append(out, Body)
      BY <1>1
    <2> QED BY <1>0, <1>1, <2>1, <2>2, BodiesAppend
  <1>3. CASE FirstWrite
    <2>1. PICK order \in KeyOrders : \E head \in Heads(order) : out' = out \o Put(head \o <<Blank, Body>>)
      BY <1>3 DEF FirstWrite
    <2>2. PICK head \in Heads(order) : out' = out \o Put(head \o <<Blank, Body>>)
      BY <2>1
    <2>3. out = <<>> /\ Table
      BY <1>3 DEF FirstWrite, StreamInv, NothingBefore
    <2>4. head \in Seq(Items) /\ OnlyHeaders(head)
      BY <2>3, HeadPut
    <2> DEFINE a == Append(head, Blank)
               c == Append(a, Body)
    <2>5. a \in Seq(Items) /\ c \in Seq(Items)
      BY <1>0, <2>4
    <2>6. head \o <<Blank, Body>> = c
      <3> DEFINE x == <<Blank>>
                 y == <<Body>>
      <3>1. x \in Seq(Items) /\ y \in Seq(Items)
        BY <1>0
      <3>2. x \o y = <<Blank, Body>>
        BY <1>0, PairOf
      <3>3. a = head \o x
        BY <1>0, <2>4, AppendIsConcat
      <3>4. c = a \o y
        <4> HIDE DEF a
        <4> QED BY <1>0, <2>5, AppendIsConcat
      <3> HIDE DEF x, y, a, c
      <3>5. (head \o x) \o y = head \o (x \o y)
        BY <2>4, <3>1, ConcatAssociative
      <3> QED BY <3>2, <3>3, <3>4, <3>5
    <2> HIDE DEF a, c
    <2>7. out' = c
      <3>1. out' = <<>> \o c
        BY <2>2, <2>3, <2>6 DEF Put
      <3> QED BY <2>5, <3>1
    <2>8. Bodies(a) = 0
      BY <1>0, <2>4, BodiesAppend, NoBodies DEF a
    <2>9. Bodies(c) = 1
      BY <1>0, <2>5, <2>8, BodiesAppend DEF c
    <2>10. Bodies(out) = 0
      <3>1. OnlyHeaders(out)
        BY <2>3 DEF OnlyHeaders
      <3> QED BY <1>1, <3>1, NoBodies
    <2> QED BY <2>7, <2>9, <2>10
  <1> QED BY <1>2, <1>3

-----------------------------------------------------------------------------
(* The pages. *)

(* The three pages, by what asks for them. *)
Kinds == {"info", "css", "missing"}

PageOf(kind) == CASE kind = "info" -> InfoPage [] kind = "css" -> CssPage [] kind = "missing" -> MissingPage

(* The value that the page's answer has of a header. *)
Target(kind, k) ==
    IF k = "status" THEN (IF kind = "missing" THEN NotFound ELSE Ok)
    ELSE IF kind = "css" THEN Css ELSE HtmlUtf8

(* The calls that put a piece of the page. *)
Puts(call) == call.method \in {"puts", "write"}

(* The calls left that put something. *)
Pending(list) == Cardinality({i \in DOMAIN list : Puts(list[i])})

(* The calls that set a header, and that none of those left does. *)
SetsKey(call, k) == call.method = "header" /\ KeyOf[call.name] = k

Unset(list, k) == \A i \in DOMAIN list : ~SetsKey(list[i], k)

(* Headers come first and are those of the page, a close is the last call. *)
WellFormed(list, kind) ==
    /\ \A i, j \in DOMAIN list : i < j =>
        /\ list[j].method = "header" => list[i].method = "header"
        /\ list[i].method # "close"
    /\ \A i \in DOMAIN list : list[i].method = "header" =>
        /\ KeyOf[list[i].name] \in {"status", "content-type"}
        /\ list[i].value = Target(kind, KeyOf[list[i].name])

(* What holds of the calls left when one has been made. *)
LEMMA PendingTail ==
    ASSUME NEW list \in Seq(CallType), list # <<>>
    PROVE  /\ Pending(list) \in Nat /\ Pending(Tail(list)) \in Nat
           /\ Pending(list) = Pending(Tail(list)) + (IF Puts(Head(list)) THEN 1 ELSE 0)
  <1> DEFINE t == Tail(list)
             n == Len(t)
             I == {i \in DOMAIN t : Puts(t[i])}
             M == {i + 1 : i \in I}
             J == {i \in DOMAIN list : Puts(list[i])}
  <1>1. /\ n \in Nat /\ Len(list) = n + 1 /\ DOMAIN t = 1 .. n /\ DOMAIN list = 1 .. n + 1
        /\ \A i \in 1 .. n : t[i] = list[i + 1]
        /\ Head(list) = list[1]
    OBVIOUS
  <1> HIDE DEF t, n
  <1>2. IsFiniteSet(I) /\ Cardinality(I) \in Nat
    <2>1. IsFiniteSet(1 .. n)
      BY <1>1, FS_Interval
    <2>2. I \in SUBSET (1 .. n)
      BY <1>1
    <2> HIDE DEF I
    <2> QED BY <2>1, <2>2, FS_Subset, FS_CardinalityType
  <1>3. \A i \in I : i \in 1 .. n
    BY <1>1
  <1>4. IsFiniteSet(M) /\ Cardinality(M) = Cardinality(I)
    <2> DEFINE f == [i \in I |-> i + 1]
    <2> HIDE DEF I
    <2>1. f \in Bijection(I, M)
      <3>1. \A i, j \in I : f[i] = f[j] => i = j
        BY <1>3
      <3>2. f \in [I -> M] /\ \A y \in M : \E i \in I : f[i] = y
        OBVIOUS
      <3> QED BY <3>1, <3>2 DEF Bijection, Injection, Surjection, IsInjective
    <2>2. ExistsBijection(I, M)
      BY <2>1 DEF ExistsBijection
    <2> HIDE DEF M, f
    <2> QED BY <1>2, <2>2, FS_Bijection
  <1>5. 1 \notin M
    BY <1>3
  <1>6. J = IF Puts(list[1]) THEN M \cup {1} ELSE M
    <2>1. ASSUME NEW i \in J PROVE i \in M \/ (i = 1 /\ Puts(list[1]))
      <3>1. CASE i = 1
        BY <3>1
      <3>2. CASE i # 1
        <4>1. i - 1 \in 1 .. n /\ i = (i - 1) + 1
          BY <1>1, <3>2
        <4>2. i - 1 \in I
          BY <1>1, <2>1, <4>1
        <4> QED BY <4>1, <4>2
      <3> QED BY <3>1, <3>2
    <2>2. ASSUME NEW i \in I PROVE i + 1 \in J
      BY <1>1
    <2>3. Puts(list[1]) => 1 \in J
      BY <1>1
    <2> QED BY <2>1, <2>2, <2>3
  <1> HIDE DEF I, J, M
  <1>7. Cardinality(J) = Cardinality(I) + (IF Puts(list[1]) THEN 1 ELSE 0)
    <2>1. CASE Puts(list[1])
      <3>1. Cardinality(M \cup {1}) = Cardinality(M) + 1
        BY <1>4, <1>5, FS_AddElement
      <3> QED BY <1>4, <1>6, <2>1, <3>1
    <2>2. CASE ~Puts(list[1])
      BY <1>2, <1>4, <1>6, <2>2
    <2> QED BY <2>1, <2>2
  <1>8. Pending(list) = Cardinality(J) /\ Pending(t) = Cardinality(I)
    BY DEF Pending, I, J
  <1>9. Cardinality(J) \in Nat
    BY <1>2, <1>7
  <1> QED BY <1>1, <1>2, <1>7, <1>8, <1>9 DEF t

(* So are the calls left when one has been made, and what they do not set  *)
(* is set by that one or was not to be set.                                *)
LEMMA WellFormedTail ==
    ASSUME NEW list \in Seq(CallType), list # <<>>, NEW kind, WellFormed(list, kind)
    PROVE  /\ WellFormed(Tail(list), kind)
           /\ Tail(list) # <<>> =>
                /\ Head(list).method # "close"
                /\ Tail(list)[1].method = "header" => Head(list).method = "header"
           /\ Head(list).method = "header" =>
                /\ KeyOf[Head(list).name] \in {"status", "content-type"}
                /\ Head(list).value = Target(kind, KeyOf[Head(list).name])
           /\ \A k : Unset(Tail(list), k) /\ ~SetsKey(Head(list), k) => Unset(list, k)
  <1> DEFINE t == Tail(list)
             n == Len(t)
  <1>0. /\ \A i, j \in DOMAIN list : i < j =>
            /\ list[j].method = "header" => list[i].method = "header"
            /\ list[i].method # "close"
        /\ \A i \in DOMAIN list : list[i].method = "header" =>
            /\ KeyOf[list[i].name] \in {"status", "content-type"}
            /\ list[i].value = Target(kind, KeyOf[list[i].name])
    BY DEF WellFormed
  <1>1. /\ n \in Nat /\ Len(list) = n + 1 /\ DOMAIN t = 1 .. n /\ DOMAIN list = 1 .. n + 1
        /\ \A i \in 1 .. n : t[i] = list[i + 1]
        /\ Head(list) = list[1]
    OBVIOUS
  <1>8. t # <<>> => n # 0
    <2>1. t \in Seq(CallType)
      OBVIOUS
    <2> HIDE DEF t
    <2> QED BY <2>1 DEF n
  <1> HIDE DEF t, n
  <1>2. \A i \in 1 .. n : i + 1 \in 1 .. n + 1
    BY <1>1
  <1>3. 1 \in 1 .. n + 1 /\ \A i \in 1 .. n + 1 : i = 1 \/ (i - 1 \in 1 .. n /\ (i - 1) + 1 = i)
    BY <1>1
  <1>4. WellFormed(t, kind)
    <2>1. \A i, j \in 1 .. n : i < j => i + 1 < j + 1
      BY <1>1
    <2>2. \A i, j \in 1 .. n : i < j =>
            /\ list[j + 1].method = "header" => list[i + 1].method = "header"
            /\ list[i + 1].method # "close"
      <3> SUFFICES ASSUME NEW i \in 1 .. n, NEW j \in 1 .. n, i < j
                   PROVE  /\ list[j + 1].method = "header" => list[i + 1].method = "header"
                          /\ list[i + 1].method # "close"
        OBVIOUS
      <3>1. i + 1 \in DOMAIN list /\ j + 1 \in DOMAIN list /\ i + 1 < j + 1
        BY <1>1, <1>2, <2>1
      <3> QED BY <3>1, <1>0
    <2>3. \A i \in 1 .. n : list[i + 1].method = "header" =>
            /\ KeyOf[list[i + 1].name] \in {"status", "content-type"}
            /\ list[i + 1].value = Target(kind, KeyOf[list[i + 1].name])
      BY <1>0, <1>1, <1>2
    <2>4. \A i \in 1 .. n : t[i] = list[i + 1]
      BY <1>1
    <2>5. \A i, j \in 1 .. n : i < j =>
            /\ t[j].method = "header" => t[i].method = "header"
            /\ t[i].method # "close"
      BY <2>2, <2>4
    <2>6. \A i \in 1 .. n : t[i].method = "header" =>
            /\ KeyOf[t[i].name] \in {"status", "content-type"}
            /\ t[i].value = Target(kind, KeyOf[t[i].name])
      BY <2>3, <2>4
    <2> QED BY <1>1, <2>5, <2>6 DEF WellFormed
  <1>5. t # <<>> => Head(list).method # "close" /\ (t[1].method = "header" => Head(list).method = "header")
    <2> SUFFICES ASSUME t # <<>>
                 PROVE  Head(list).method # "close" /\ (t[1].method = "header" => Head(list).method = "header")
      OBVIOUS
    <2>1. 1 \in 1 .. n /\ 1 \in DOMAIN list /\ 2 \in DOMAIN list /\ 1 < 2
      BY <1>1, <1>8
    <2>2. t[1] = list[2]
      BY <1>1, <2>1
    <2>3. list[1].method # "close" /\ (list[2].method = "header" => list[1].method = "header")
      BY <1>0, <2>1
    <2> QED BY <1>1, <2>2, <2>3
  <1>6. Head(list).method = "header" =>
            /\ KeyOf[Head(list).name] \in {"status", "content-type"}
            /\ Head(list).value = Target(kind, KeyOf[Head(list).name])
    BY <1>1, <1>3 DEF WellFormed
  <1>7. \A k : Unset(t, k) /\ ~SetsKey(Head(list), k) => Unset(list, k)
    <2> SUFFICES ASSUME NEW k, Unset(t, k), ~SetsKey(list[1], k), NEW i \in 1 .. n + 1
                 PROVE  ~SetsKey(list[i], k)
      BY <1>1 DEF Unset
    <2>1. CASE i = 1
      BY <2>1
    <2>2. CASE i # 1
      <3>1. i - 1 \in 1 .. n /\ t[i - 1] = list[(i - 1) + 1] /\ (i - 1) + 1 = i
        BY <1>1, <1>3, <2>2
      <3>2. ~SetsKey(t[i - 1], k)
        BY <1>1, <3>1 DEF Unset
      <3> QED BY <3>1, <3>2
    <2> QED BY <2>1, <2>2
  <1> QED BY <1>4, <1>5, <1>6, <1>7 DEF t

(* The pages are well-formed, put what they are to put, and all of them    *)
(* set the content type; only the one for what is missing sets the status. *)
Whole(list, kind) ==
    /\ list # <<>> /\ list \in Seq(CallType)
    /\ Pending(list) = IF kind = "info" THEN 5 ELSE 1
    /\ WellFormed(list, kind)
    /\ ~Unset(list, "content-type")
    /\ kind # "missing" \/ ~Unset(list, "status")

(* What a call of header says. *)
LEMMA HeaderKeys ==
    /\ \A n, v : /\ Header_(n, v).method = "header" /\ Header_(n, v).name = n /\ Header_(n, v).value = v
    /\ KeyOf["Status"] = "status" /\ KeyOf["Content-type"] = "content-type" /\ "status" # "content-type"
    /\ \A m : Call(m).method = m
  BY HeadersAssumption, PagesAssumption DEF Header_, Call

(* worker_process_info puts five pieces. *)
LEMMA InfoPageWhole == Whole(InfoPage, "info")
  <1> DEFINE p == InfoPage
  <1>1. p \in Seq(CallType)
    BY PagesProper DEF Page, Proper
  <1>2. /\ p # <<>> /\ DOMAIN p = 1 .. 12
        /\ p[1] = Header_("Content-type", HtmlUtf8)
        /\ p[2] = Call("puts") /\ p[3] = Call("protocol") /\ p[4] = Call("method")
        /\ p[5] = Call("request_uri_str") /\ p[6] = Call("getenv") /\ p[7] = Call("puts")
        /\ p[8] = Call("environment") /\ p[9] = Call("puts") /\ p[10] = Call("write")
        /\ p[11] = Call("puts") /\ p[12] = Call("close")
    BY DEF InfoPage
  <1> HIDE DEF p
  <1>3. \A i \in 1 .. 12 : /\ p[i].method = "header" <=> i = 1
                           /\ p[i].method = "close" <=> i = 12
                           /\ Puts(p[i]) <=> i \in {2, 7, 9, 10, 11}
    BY <1>2, HeaderKeys DEF Puts
  <1>4. p[1].name = "Content-type" /\ p[1].value = HtmlUtf8
    BY <1>2, HeaderKeys
  <1>5. WellFormed(p, "info")
    <2>1. \A i, j \in 1 .. 12 : i < j => j # 1 /\ i # 12
      OBVIOUS
    <2>2. Target("info", "content-type") = HtmlUtf8
      BY DEF Target
    <2> QED BY <1>2, <1>3, <1>4, <2>1, <2>2, HeaderKeys DEF WellFormed
  <1>6. ~Unset(p, "content-type")
    <2>1. SetsKey(p[1], "content-type")
      BY <1>3, <1>4, HeaderKeys DEF SetsKey
    <2>2. 1 \in DOMAIN p
      BY <1>2
    <2> QED BY <2>1, <2>2 DEF Unset
  <1>7. Pending(p) = 5
    <2>1. {i \in DOMAIN p : Puts(p[i])} = {2, 7, 9, 10, 11}
      BY <1>2, <1>3
    <2>2. IsFiniteSet({2}) /\ Cardinality({2}) = 1
      BY FS_Singleton
    <2>3. IsFiniteSet({2, 7}) /\ Cardinality({2, 7}) = 2
      <3>1. {2, 7} = {2} \cup {7}
        OBVIOUS
      <3> QED BY <2>2, <3>1, FS_AddElement
    <2>4. IsFiniteSet({2, 7, 9}) /\ Cardinality({2, 7, 9}) = 3
      <3>1. {2, 7, 9} = {2, 7} \cup {9} /\ 9 \notin {2, 7}
        OBVIOUS
      <3> QED BY <2>3, <3>1, FS_AddElement
    <2>5. IsFiniteSet({2, 7, 9, 10}) /\ Cardinality({2, 7, 9, 10}) = 4
      <3>1. {2, 7, 9, 10} = {2, 7, 9} \cup {10} /\ 10 \notin {2, 7, 9}
        OBVIOUS
      <3> QED BY <2>4, <3>1, FS_AddElement
    <2>6. IsFiniteSet({2, 7, 9, 10, 11}) /\ Cardinality({2, 7, 9, 10, 11}) = 5
      <3>1. {2, 7, 9, 10, 11} = {2, 7, 9, 10} \cup {11} /\ 11 \notin {2, 7, 9, 10}
        OBVIOUS
      <3> QED BY <2>5, <3>1, FS_AddElement
    <2> QED BY <2>1, <2>6 DEF Pending
  <1> QED BY <1>1, <1>2, <1>5, <1>6, <1>7 DEF Whole, p

(* worker_process_global_css puts one. *)
LEMMA CssPageWhole == Whole(CssPage, "css")
  <1> DEFINE p == CssPage
  <1>1. p \in Seq(CallType)
    <2>1. CssPage = Page(GlobalCss)
      BY PagesAssumption, UrisAssumption DEF Page
    <2> QED BY <2>1, PagesProper DEF Proper
  <1>2. p # <<>> /\ DOMAIN p = 1 .. 2 /\ p[1] = Header_("Content-type", Css) /\ p[2] = Call("puts")
    BY DEF CssPage
  <1> HIDE DEF p
  <1>3. \A i \in 1 .. 2 : /\ p[i].method = "header" <=> i = 1
                          /\ p[i].method # "close"
                          /\ Puts(p[i]) <=> i = 2
    BY <1>2, HeaderKeys DEF Puts
  <1>4. p[1].name = "Content-type" /\ p[1].value = Css
    BY <1>2, HeaderKeys
  <1>5. WellFormed(p, "css")
    <2>1. \A i, j \in 1 .. 2 : i < j => j # 1
      OBVIOUS
    <2>2. Target("css", "content-type") = Css
      BY DEF Target
    <2> QED BY <1>2, <1>3, <1>4, <2>1, <2>2, HeaderKeys DEF WellFormed
  <1>6. ~Unset(p, "content-type")
    <2>1. SetsKey(p[1], "content-type")
      BY <1>3, <1>4, HeaderKeys DEF SetsKey
    <2>2. 1 \in DOMAIN p
      BY <1>2
    <2> QED BY <2>1, <2>2 DEF Unset
  <1>7. Pending(p) = 1
    <2>1. {i \in DOMAIN p : Puts(p[i])} = {2}
      BY <1>2, <1>3
    <2> QED BY <2>1, FS_Singleton DEF Pending
  <1> QED BY <1>1, <1>2, <1>5, <1>6, <1>7 DEF Whole, p

(* The page for what is missing puts one and has a status of its own. *)
LEMMA MissingPageWhole == Whole(MissingPage, "missing")
  <1> DEFINE p == MissingPage
  <1>1. p \in Seq(CallType)
    <2>1. Header_("Status", NotFound) \in CallType /\ Header_("Content-type", HtmlUtf8) \in CallType
      BY HeaderInType, PagesAssumption, HeadersAssumption
    <2>2. Call("puts") \in CallType
      BY CallInType DEF Methods
    <2> QED BY <2>1, <2>2 DEF MissingPage
  <1>2. /\ p # <<>> /\ DOMAIN p = 1 .. 3
        /\ p[1] = Header_("Status", NotFound) /\ p[2] = Header_("Content-type", HtmlUtf8) /\ p[3] = Call("puts")
    BY DEF MissingPage
  <1> HIDE DEF p
  <1>3. \A i \in 1 .. 3 : /\ p[i].method = "header" <=> i # 3
                          /\ p[i].method # "close"
                          /\ Puts(p[i]) <=> i = 3
    BY <1>2, HeaderKeys DEF Puts
  <1>4. /\ p[1].name = "Status" /\ p[1].value = NotFound
        /\ p[2].name = "Content-type" /\ p[2].value = HtmlUtf8
    BY <1>2, HeaderKeys
  <1>5. WellFormed(p, "missing")
    <2>1. \A i, j \in 1 .. 3 : i < j => i # 3
      OBVIOUS
    <2>2. Target("missing", "content-type") = HtmlUtf8 /\ Target("missing", "status") = NotFound
      BY DEF Target
    <2>3. \A i \in 1 .. 3 : i # 3 => i = 1 \/ i = 2
      OBVIOUS
    <2> QED BY <1>2, <1>3, <1>4, <2>1, <2>2, <2>3, HeaderKeys DEF WellFormed
  <1>6. ~Unset(p, "content-type") /\ ~Unset(p, "status")
    <2>1. SetsKey(p[1], "status") /\ SetsKey(p[2], "content-type")
      BY <1>3, <1>4, HeaderKeys DEF SetsKey
    <2>2. 1 \in DOMAIN p /\ 2 \in DOMAIN p
      BY <1>2
    <2> QED BY <2>1, <2>2 DEF Unset
  <1>7. Pending(p) = 1
    <2>1. {i \in DOMAIN p : Puts(p[i])} = {3}
      BY <1>2, <1>3
    <2> QED BY <2>1, FS_Singleton DEF Pending
  <1> QED BY <1>1, <1>2, <1>5, <1>6, <1>7 DEF Whole, p

(* All three are what they are to be. *)
LEMMA PagesWhole == \A kind \in Kinds : Whole(PageOf(kind), kind)
  BY InfoPageWhole, CssPageWhole, MissingPageWhole DEF Kinds, PageOf

-----------------------------------------------------------------------------
(* The inductive invariant of the answer. *)

(* The worker may still come to choose the page. *)
CanCome ==
    /\ wpc \notin {"page", "complete"}
    /\ queued \/ req \in {"none", "pending"} \/ lpc \in {"route", "queue"}

(* Until it does the request is as it was made. *)
Untouched ==
    /\ current_array = <<>> /\ ~headers_sent /\ open
    /\ ~starved => OldValues("status") = <<Ok>>

(* From then on what has been put and what is left to put are the page's.  *)
PagePieces == Bodies(out) + Pending(calls) = IF Kind = "info" THEN 5 ELSE 1

(* What the calls left do not set has its value, unless memory ran out. *)
HeadersAsKind ==
    ~starved => \A k \in {"status", "content-type"} : Unset(calls, k) => OldValues(k) = <<Target(Kind, k)>>

(* The page that is being made, and the one that is complete. *)
Progress ==
    /\ calls # <<>> => open
    /\ calls # <<>> /\ Head(calls).method = "header" => ~headers_sent
    /\ PagePieces
    /\ WellFormed(calls, Kind)
    /\ HeadersAsKind

(* What is logged does not change any more. *)
Frozen ==
    logged # NULL =>
        /\ wpc \notin {"consume", "page"} /\ (wpc # "complete" => ~queued)
        /\ lpc \notin {"route", "queue"} /\ req \notin {"none", "pending"} /\ calls = <<>>
        /\ plugin = "fcgi" => logged.status = status /\ logged.bytes = wbytes

(* The URI is that of the environment. *)
Asked == uri = getenv(EnvTable(envp), "REQUEST_URI")

(* The request before the page is chosen, and from then on. *)
AsKind ==
    plugin = "fcgi" =>
        /\ CanCome => Untouched
        /\ wpc = "page" \/ logged # NULL => Progress

(* Behind the dummy nothing is put, and what is complete is logged. *)
Settled ==
    /\ plugin = "dummy" => out = <<>>
    /\ wpc = "complete" => logged # NULL

(* The inductive invariant, together with those of the request. *)
PageInv == Asked /\ Emptied = {} /\ Frozen /\ AsKind /\ Settled

(* What is proved of the threads and of the request. *)
Background == InfoInv /\ StreamInv /\ IInv /\ PathInv /\ PathElements

(* It holds at first. *)
LEMMA InitPageInv == InfoInit => PageInv
  <1> SUFFICES ASSUME InfoInit PROVE PageInv
    OBVIOUS
  <1>1. /\ wpc \in {"none", "waiting"} /\ logged = NULL /\ out = <<>>
        /\ current_array = <<>> /\ headers_sent = FALSE /\ open = TRUE /\ Asked
    BY DEF InfoInit, Init, Asked
  <1>2. PICK lost \in SUBSET {"status", "content-type"} : headers = InitialHeaders(lost) /\ starved = (lost # {})
    BY DEF InfoInit, Init
  <1>3. ASSUME NEW k \in Keys, headers[k] # NULL
        PROVE  headers[k].values # <<>> /\ (k = "status" => headers[k].values = <<Ok>>)
    BY <1>2, <1>3 DEF InitialHeaders
  <1>4. Emptied = {}
    BY <1>3 DEF Emptied, Present
  <1>5. ~starved => OldValues("status") = <<Ok>>
    <2> SUFFICES ASSUME ~starved PROVE OldValues("status") = <<Ok>>
      OBVIOUS
    <2>1. lost = {} /\ "status" \in Keys
      BY <1>2, KnownKeys
    <2>2. headers["status"] = [name |-> "Status", values |-> <<Ok>>]
      BY <1>2, <2>1 DEF InitialHeaders
    <2>3. headers["status"] # NULL
      <3>1. headers["status"] \in Header
        BY <2>2, HeadersAssumption DEF Header
      <3> QED BY <3>1, HeadersAssumption
    <2> QED BY <2>2, <2>3 DEF OldValues
  <1> QED BY <1>1, <1>4, <1>5 DEF PageInv, Frozen, AsKind, Untouched, Settled

(* The URI and the environment stay. *)
LEMMA StaysAsked ==
    ASSUME CallsMade, [InfoNext]_infoVars, Asked
    PROVE  Asked' /\ envp' = envp /\ plugin' = plugin /\ Kind' = Kind
  <1>1. [Next]_vars
    BY StepIsAStep
  <1>2. uri' = uri
    BY <1>1 DEF Next, Consume, SetHeader, SetHeaderNoMemory, HeaderRefused, FirstWrite, Write, Close, vars, pathVars
  <1>3. envp' = envp /\ plugin' = plugin
    BY DEF InfoNext, infoVars, endpointVars, ListenerStep, WorkerStep, CreateEndpoint, NoEndpoint, Process,
       ProcessFails, Acquire, AcquireFails, Locate, CreateWorker, Queue, RouteDrops, ReleaseRouted, SpuriousWakeup,
       WakeTerminate, Fetch, ChoosePage, MakeCall, LogRequest,
       CallMissing, Complete
  <1>4. AskedFor' = AskedFor
    BY <1>3 DEF AskedFor
  <1> QED BY <1>2, <1>3, <1>4 DEF Asked, Kind

(* Nothing empties a header. *)
LEMMA StaysFull ==
    ASSUME CallsMade, HeadersTyped, [InfoNext]_infoVars, Emptied = {}
    PROVE  Emptied' = {}
  <1>1. CASE UNCHANGED headers
    BY <1>1 DEF Emptied, Present
  <1>2. CASE ~UNCHANGED headers
    <2>1. MakeCall /\ calls # <<>> /\ Effect(Head(calls))
      BY <1>2 DEF InfoNext, infoVars, vars, headerVars, ListenerStep, WorkerStep, CreateEndpoint, NoEndpoint, Process,
       ProcessFails, Acquire, AcquireFails, Locate, CreateWorker, Queue, RouteDrops, ReleaseRouted, SpuriousWakeup,
       WakeTerminate, Fetch, ChoosePage, MakeCall, LogRequest,
       CallMissing, Complete, Release, Finish_r, Close, Consume
    <2> DEFINE n == Head(calls).name
               v == Head(calls).value
               k == KeyOf[n]
    <2>2. Head(calls).method = "header" /\ SetHeaderCall(n, v)
      BY <1>2, <2>1 DEF Effect, FirstWrite, Write, Close, headerVars, vars
    <2>3. n \in Names /\ v \in Values
      <3>1. Head(calls) = calls[1] /\ 1 \in 1 .. Len(calls)
        BY <2>1 DEF CallsMade
      <3> QED BY <2>2, <3>1 DEF CallsMade
    <2> HIDE DEF n, v
    <2>4. SetHeader(n, v, TRUE)
      BY <1>2, <2>2 DEF SetHeaderCall, SetHeaderNoMemory, vars, headerVars
    <2>5. v # NULL /\ k \in Keys
      BY <2>3, HeadersAssumption DEF Keys
    <2>6. headers' = [headers EXCEPT ![k] = [name |-> n, values |-> <<v>>]]
      BY <2>4, <2>5 DEF SetHeader, NewValues
    <2> HIDE DEF k
    <2>7. \A q \in Keys : headers'[q] = IF q = k THEN [name |-> n, values |-> <<v>>] ELSE headers[q]
      BY <2>5, <2>6 DEF HeadersTyped
    <2>8. <<v>> # <<>>
      OBVIOUS
    <2> QED BY <2>7, <2>8 DEF Emptied, Present
  <1> QED BY <1>1, <1>2

(* Steps that leave the request's own state and the page alone. *)
Quiet ==
    \/ CreateEndpoint \/ NoEndpoint \/ Process \/ ProcessFails
    \/ Acquire \/ AcquireFails \/ Locate \/ CreateWorker \/ Queue \/ RouteDrops
    \/ SpuriousWakeup \/ WakeTerminate \/ Fetch \/ CallMissing

(* They bring the worker no nearer than it could come, and change nothing  *)
(* of a request whose answer is logged.                                    *)
LEMMA QuietStep ==
    ASSUME Background, PageInv, Quiet
    PROVE  /\ UNCHANGED <<vars, calls, logged, plugin>>
           /\ CanCome' => CanCome
           /\ wpc' = "page" => wpc = "page"
           /\ wpc' = "complete" => wpc = "complete"
           /\ logged # NULL => /\ wpc' # "consume" /\ (wpc' # "complete" => ~queued')
                               /\ lpc' \notin {"route", "queue"} /\ req' \notin {"none", "pending"}
  <1>1. CASE CreateEndpoint \/ NoEndpoint \/ Process \/ ProcessFails
    BY <1>1 DEF CreateEndpoint, NoEndpoint, Process, ProcessFails, ListenerAt, CanCome, PageInv, Frozen,
       endpointVars, requestVars, workerVars
  <1>2. CASE Acquire \/ AcquireFails
    BY <1>2 DEF Acquire, AcquireFails, ListenerAt, CanCome, PageInv, Frozen, endpointVars, requestVars, workerVars
  <1>3. CASE Locate \/ Queue \/ RouteDrops
    BY <1>3 DEF Locate, Queue, RouteDrops, ListenerAt, CanCome, PageInv, Frozen, endpointVars, requestVars, workerVars
  <1>4. CASE SpuriousWakeup \/ WakeTerminate \/ Fetch \/ CallMissing
    BY <1>4 DEF SpuriousWakeup, WakeTerminate, Fetch, CallMissing, Idle, WorkerAt, CanCome, PageInv, Frozen,
       endpointVars, requestVars
  <1>5. CASE CreateWorker
    <2>1. ~queued /\ wpc \notin {"consume", "page", "complete"} /\ lpc = "route" /\ logged = NULL
      BY <1>5 DEF CreateWorker, ListenerAt, Background, InfoInv, RequestHeld, Unrouted, PageInv, Frozen
    <2>2. UNCHANGED <<vars, calls, logged, plugin>> /\ wpc' \in {"waiting", "nothread"}
      BY <1>5 DEF CreateWorker, endpointVars
    <2> QED BY <2>1, <2>2 DEF CanCome
  <1> QED BY <1>1, <1>2, <1>3, <1>4, <1>5 DEF Quiet

(* What is as it was keeps what was said of it. *)
LEMMA SameProgress ==
    ASSUME UNCHANGED <<vars, calls>>, Kind' = Kind
    PROVE  (Progress => Progress') /\ (Untouched => Untouched')
  <1>1. UNCHANGED <<out, calls, headers, starved, open, headers_sent, current_array>>
    BY DEF vars, headerVars, streamVars, pathVars
  <1>2. \A k : OldValues(k)' = OldValues(k)
    BY <1>1 DEF OldValues
  <1> QED BY <1>1, <1>2 DEF Progress, PagePieces, HeadersAsKind, WellFormed, Untouched, Unset, Bodies, Pending

(* Behind the dummy nothing is put. *)
LEMMA StaysSettled ==
    ASSUME Background, PageInv, [InfoNext]_infoVars
    PROVE  Settled'
  <1>1. ASSUME plugin' = "dummy" PROVE out' = <<>>
    <2>1. plugin = "dummy"
      BY <1>1 DEF InfoNext, infoVars, endpointVars, ListenerStep, WorkerStep, CreateEndpoint, NoEndpoint, Process,
         ProcessFails, Acquire, AcquireFails, Locate, CreateWorker, Queue, RouteDrops, ReleaseRouted, SpuriousWakeup,
         WakeTerminate, Fetch, ChoosePage, MakeCall, LogRequest, CallMissing, Complete
    <2>2. UNCHANGED vars
      BY <2>1 DEF InfoNext, infoVars, ListenerStep, WorkerStep, CreateEndpoint, NoEndpoint, Process,
         ProcessFails, Acquire, AcquireFails, Locate, CreateWorker, Queue, RouteDrops, ReleaseRouted, SpuriousWakeup,
         WakeTerminate, Fetch, ChoosePage, Sub, MakeCall, LogRequest, CallMissing, Complete, Release
    <2> QED BY <2>1, <2>2 DEF PageInv, Settled, vars, streamVars
  <1>2. ASSUME wpc' = "complete" PROVE logged' # NULL
    <2>1. CASE LogRequest
      <3>1. status \in Nat /\ wbytes \in Nat
        BY DEF Background, InfoInv, StatusTyped, StreamInv, StreamTyped
      <3>2. AccessLog \in [status : Nat, bytes : Nat \cup {NULL}]
        BY <3>1 DEF AccessLog
      <3> QED BY <2>1, <3>2, LogAssumption DEF LogRequest
    <2>2. CASE ~LogRequest
      <3>1. wpc = "complete" /\ logged' = logged
        BY <1>2, <2>2 DEF InfoNext, infoVars, workerVars, ListenerStep, WorkerStep, CreateEndpoint, NoEndpoint, Process,
           ProcessFails, Acquire, AcquireFails, Locate, CreateWorker, Queue, RouteDrops, ReleaseRouted, SpuriousWakeup,
           WakeTerminate, Fetch, ChoosePage, MakeCall, CallMissing, Complete, WorkerAt
      <3> QED BY <3>1 DEF PageInv, Settled
    <2> QED BY <2>1, <2>2
  <1> QED BY <1>1, <1>2 DEF Settled

(* They keep the invariant. *)
LEMMA QuietKeeps ==
    ASSUME Background, PageInv, Quiet, Kind' = Kind
    PROVE  Frozen' /\ AsKind'
  <1>1. Frozen'
    <2>1. UNCHANGED <<status, wbytes, calls, logged, plugin>>
      BY QuietStep DEF vars, headerVars, streamVars
    <2> QED BY <2>1, QuietStep DEF PageInv, Frozen
  <1>2. AsKind'
    BY QuietStep, SameProgress DEF PageInv, AsKind
  <1> QED BY <1>1, <1>2

(* What is released is still used by whoever has another reference. *)
LEMMA ReleaseChanges ==
    ASSUME Release
    PROVE  /\ UNCHANGED <<status, wbytes, headers, starved, headers_sent, out, current_array>>
           /\ refs # 1 => open' = open
  <1>1. CASE refs = 1 /\ plugin = "fcgi"
    BY <1>1 DEF Release, Finish_r, Close, pathVars, headerVars
  <1>2. CASE ~(refs = 1 /\ plugin = "fcgi")
    BY <1>2 DEF Release, vars, pathVars, headerVars, streamVars
  <1> QED BY <1>1, <1>2

(* The listener's release finishes the request only when the worker has    *)
(* completed the page or was never given one.                              *)
LEMMA ReleaseRoutedKeeps ==
    ASSUME Background, PageInv, ReleaseRouted, Kind' = Kind
    PROVE  Frozen' /\ AsKind'
  <1>1. /\ Release /\ lpc = "release" /\ lpc' = "process"
        /\ UNCHANGED <<plugin, queued, wpc, calls, logged>>
    BY DEF ReleaseRouted, ListenerAt, endpointVars, workerVars
  <1>2. UNCHANGED <<status, wbytes, headers, starved, headers_sent, out, current_array>>
    BY <1>1, ReleaseChanges
  <1>3. refs = (IF queued THEN 1 ELSE 0) + 1 /\ refs > 0 /\ (wpc = "page" => queued)
    BY <1>1 DEF Background, InfoInv, ThreadsTyped, RequestHeld
  <1>4. req' \in {"freed", "live"}
    BY <1>1, <1>3, Released DEF Background
  <1>5. Frozen'
    BY <1>1, <1>2, <1>4 DEF PageInv, Frozen
  <1>6. queued => open' = open
    BY <1>1, <1>3, ReleaseChanges
  <1>7. CanCome' => CanCome /\ queued
    BY <1>1, <1>4 DEF CanCome
  <1>8. \A k : OldValues(k)' = OldValues(k)
    BY <1>2 DEF OldValues
  <1>9. calls # <<>> /\ (wpc = "page" \/ logged # NULL) => queued
    BY <1>3 DEF PageInv, Frozen
  <1>10. Progress /\ (calls # <<>> => queued) => Progress'
    BY <1>1, <1>2, <1>6, <1>8 DEF Progress, PagePieces, HeadersAsKind, WellFormed, Unset, Bodies, Pending
  <1>11. Untouched /\ queued => Untouched'
    BY <1>2, <1>6, <1>8 DEF Untouched
  <1>12. AsKind'
    BY <1>1, <1>7, <1>9, <1>10, <1>11 DEF PageInv, AsKind
  <1> QED BY <1>5, <1>12

(* The worker logs what the request says, *)
LEMMA LogRequestKeeps ==
    ASSUME Background, PageInv, LogRequest, Kind' = Kind
    PROVE  Frozen' /\ AsKind'
  <1>1. /\ wpc = "page" /\ calls = <<>> /\ wpc' = "complete" /\ logged' = AccessLog
        /\ UNCHANGED <<vars, plugin, lpc, req, queued, calls>>
    BY DEF LogRequest, WorkerAt, endpointVars, requestVars
  <1>2. queued /\ lpc \notin {"route", "queue"} /\ req = "live"
    BY <1>1 DEF Background, InfoInv, ThreadsTyped, RequestHeld, Unrouted
  <1>3. plugin = "fcgi" => logged'.status = status /\ logged'.bytes = wbytes
    BY <1>1 DEF AccessLog
  <1>4. UNCHANGED <<status, wbytes>>
    BY <1>1 DEF vars, headerVars, streamVars
  <1>5. Frozen'
    BY <1>1, <1>2, <1>3, <1>4 DEF Frozen
  <1>6. AsKind'
    BY <1>1, SameProgress DEF PageInv, AsKind, CanCome
  <1> QED BY <1>5, <1>6

(* and gives it up. *)
LEMMA CompleteKeeps ==
    ASSUME Background, PageInv, Complete, Kind' = Kind
    PROVE  Frozen' /\ AsKind'
  <1>1. /\ Release /\ wpc = "complete" /\ wpc' = "waiting" /\ queued' = FALSE
        /\ UNCHANGED <<plugin, lpc, calls, logged>>
    BY DEF Complete, WorkerAt, endpointVars
  <1>2. UNCHANGED <<status, wbytes, headers, starved, headers_sent, out, current_array>>
    BY <1>1, ReleaseChanges
  <1>3. refs > 0 /\ queued /\ lpc \notin {"route", "queue"} /\ logged # NULL /\ calls = <<>>
    BY <1>1 DEF Background, InfoInv, ThreadsTyped, RequestHeld, Unrouted, PageInv, Settled, Frozen
  <1>4. req' \in {"freed", "live"}
    BY <1>1, <1>3, Released DEF Background
  <1>5. Frozen'
    BY <1>1, <1>2, <1>3, <1>4 DEF PageInv, Frozen
  <1>6. ~CanCome'
    BY <1>1, <1>3, <1>4 DEF CanCome
  <1>7. \A k : OldValues(k)' = OldValues(k)
    BY <1>2 DEF OldValues
  <1>8. Progress => Progress'
    BY <1>1, <1>2, <1>3, <1>7 DEF Progress, PagePieces, HeadersAsKind, WellFormed, Unset, Bodies, Pending
  <1>9. AsKind'
    BY <1>1, <1>3, <1>6, <1>8 DEF PageInv, AsKind
  <1> QED BY <1>5, <1>9

(* The path of the request is that which is asked for. *)
LEMMA ArrayIsAskedFor ==
    ASSUME Background, Asked
    PROVE  current_array \o params_array = AskedFor
  <1> DEFINE places == {i \in DOMAIN envp : envp[i].name = "REQUEST_URI"}
  <1>1. envp \in Envs /\ envp \in Seq(Entries)
    BY EnvsAssumption DEF Background, InfoInv, ThreadsTyped, Entries
  <1>2. "REQUEST_URI" # NULL
    BY EnvsAssumption
  <1>3. current_array \o params_array = IF uri = NULL THEN <<>> ELSE ExpectedElements(uri)
    BY DEF Background, PathElements
  <1>4. CASE places = {}
    BY <1>1, <1>2, <1>3, <1>4, GetenvIs DEF Asked, AskedFor
  <1>5. CASE places # {}
    <2>1. Max(places) \in places /\ uri = envp[Max(places)].value
      BY <1>1, <1>2, <1>5, GetenvIs DEF Asked
    <2>2. uri \in Seq(Chars)
      BY <1>1, <2>1, EnvsAssumption
    <2>3. uri # NULL
      BY <2>2, UriIsText, UrisAssumption
    <2>4. AskedFor = ExpectedElements(uri)
      <3> HIDE DEF places
      <3>1. AskedFor = ExpectedElements(envp[Max(places)].value)
        BY <1>5 DEF AskedFor, places
      <3> QED BY <2>1, <3>1
    <2> QED BY <1>3, <2>3, <2>4
  <1> QED BY <1>4, <1>5

(* The page that is chosen is the one that the path asks for. *)
LEMMA ChosenPage ==
    ASSUME Background, Asked, current_array = <<>>, plugin = "fcgi"
    PROVE  Page(Sub) = PageOf(Kind) /\ Kind \in Kinds
  <1>1. params_array \in Seq(Text)
    BY DEF Background, PathInv
  <1>2. params_array = AskedFor
    <2>1. <<>> \o params_array = params_array
      BY <1>1
    <2> QED BY <2>1, ArrayIsAskedFor
  <1>3. CASE params_array = <<>>
    <2>1. Sub = NULL
      BY <1>3 DEF Sub
    <2>2. Kind = "info"
      BY <1>2, <1>3 DEF Kind
    <2> QED BY <2>1, <2>2 DEF Page, PageOf, Kinds
  <1>4. CASE params_array # <<>>
    <2>1. Sub = params_array[1] /\ Sub # NULL
      <3>1. Sub = params_array[1] /\ Sub \in Text
        BY <1>1, <1>4 DEF Sub
      <3> QED BY <3>1, UrisAssumption
    <2>2. CASE Sub = GlobalCss
      <3>1. Kind = "css"
        BY <1>2, <1>4, <2>1, <2>2 DEF Kind
      <3>2. Page(Sub) = CssPage
        BY <2>1, <2>2 DEF Page
      <3> QED BY <3>1, <3>2 DEF PageOf, Kinds
    <2>3. CASE Sub # GlobalCss
      <3>1. Kind = "missing"
        BY <1>2, <1>4, <2>1, <2>3 DEF Kind
      <3>2. Page(Sub) = MissingPage
        BY <2>1, <2>3 DEF Page
      <3> QED BY <3>1, <3>2 DEF PageOf, Kinds
    <2> QED BY <2>2, <2>3
  <1> QED BY <1>3, <1>4

(* From then on what is left to do is all of that page. *)
LEMMA ChoosePageKeeps ==
    ASSUME Background, PageInv, ChoosePage, Kind' = Kind
    PROVE  Frozen' /\ AsKind'
  <1>1. /\ wpc = "consume" /\ wpc' = "page" /\ calls' = Page(Sub)
        /\ UNCHANGED <<plugin, logged, queued, lpc, req>>
        /\ UNCHANGED <<headers, starved, headers_sent, open, out>>
    BY DEF ChoosePage, WorkerAt, endpointVars, requestVars, vars, headerVars, streamVars, Consume
  <1>2. logged = NULL /\ queued
    BY <1>1 DEF PageInv, Frozen, Background, InfoInv, RequestHeld
  <1>3. Frozen' /\ ~CanCome'
    BY <1>1, <1>2 DEF Frozen, CanCome
  <1>4. ASSUME plugin = "fcgi" PROVE Progress'
    <2>1. Untouched
      BY <1>1, <1>2, <1>4 DEF PageInv, AsKind, CanCome
    <2>2. calls' = PageOf(Kind) /\ Kind \in Kinds
      BY <1>1, <1>4, <2>1, ChosenPage DEF PageInv, Untouched
    <2>3. Whole(calls', Kind)
      BY <2>2, PagesWhole
    <2>4. out' = <<>> /\ Bodies(out') = 0
      <3>1. out = <<>> /\ out \in Seq(Items)
        BY <2>1 DEF Background, StreamInv, StreamTyped, NothingBefore, Untouched
      <3>2. Bodies(out) = 0
        <4>1. OnlyHeaders(out)
          BY <3>1 DEF OnlyHeaders
        <4> QED BY <3>1, <4>1, NoBodies
      <3> QED BY <1>1, <3>1, <3>2
    <2>5. Bodies(out') + Pending(calls') = IF Kind = "info" THEN 5 ELSE 1
      BY <2>3, <2>4 DEF Whole
    <2>6. ASSUME ~starved, NEW k \in {"status", "content-type"}, Unset(calls', k)
          PROVE  OldValues(k)' = <<Target(Kind, k)>>
      <3>1. k = "status" /\ Kind # "missing"
        BY <2>3, <2>6 DEF Whole
      <3>2. OldValues("status") = <<Ok>>
        BY <2>1, <2>6 DEF Untouched
      <3>3. OldValues(k)' = OldValues(k)
        BY <1>1 DEF OldValues
      <3> QED BY <3>1, <3>2, <3>3 DEF Target
    <2>7. open' /\ ~headers_sent'
      BY <1>1, <2>1 DEF Untouched
    <2>8. PagePieces'
      BY <2>5 DEF PagePieces
    <2>9. HeadersAsKind'
      BY <1>1, <2>6 DEF HeadersAsKind
    <2>10. WellFormed(calls', Kind)
      BY <2>3 DEF Whole
    <2> QED BY <2>7, <2>8, <2>9, <2>10 DEF Progress
  <1> QED BY <1>1, <1>3, <1>4 DEF AsKind

(* A call of header sets one of the page's headers, unless memory fails.   *)
LEMMA HeaderCallKeeps ==
    ASSUME Background, Progress, NEW n \in Names, NEW v \in Values, SetHeaderCall(n, v), ~headers_sent,
           KeyOf[n] \in {"status", "content-type"}, v = Target(Kind, KeyOf[n])
    PROVE  /\ UNCHANGED <<headers_sent, open, out>>
           /\ starved => starved'
           /\ ~starved' => /\ OldValues(KeyOf[n])' = <<v>>
                           /\ \A k \in Keys : k # KeyOf[n] => OldValues(k)' = OldValues(k)
  <1> DEFINE k == KeyOf[n]
  <1>1. v # NULL /\ k \in Keys /\ headers \in [Keys -> Header \cup {NULL}]
    BY HeadersAssumption DEF Keys, Background, IInv, HeadersTyped
  <1>2. ~Refused(n, v, TRUE)
    <2>1. k = "status" => CodeOf[v] # 0
      BY HeadersAssumption, PagesAssumption DEF Target
    <2> QED BY <1>1, <2>1 DEF Refused
  <1>3. SetHeader(n, v, TRUE) \/ SetHeaderNoMemory(n, v, TRUE)
    BY <1>2 DEF SetHeaderCall
  <1>4. CASE SetHeader(n, v, TRUE)
    <2> DEFINE entry == [name |-> n, values |-> <<v>>]
    <2>1. headers' = [headers EXCEPT ![k] = entry]
      BY <1>1, <1>4 DEF SetHeader, NewValues
    <2>2. entry # NULL
      <3>1. entry \in Header
        BY DEF Header
      <3> QED BY <3>1, HeadersAssumption
    <2>3. entry.values = <<v>>
      OBVIOUS
    <2> HIDE DEF k, entry
    <2>4. headers'[k] = entry /\ \A q \in Keys : q # k => headers'[q] = headers[q]
      BY <1>1, <2>1
    <2>5. OldValues(k)' = <<v>> /\ \A q \in Keys : q # k => OldValues(q)' = OldValues(q)
      BY <2>2, <2>3, <2>4 DEF OldValues
    <2>6. UNCHANGED <<headers_sent, open, out, starved>>
      BY <1>4 DEF SetHeader, streamVars
    <2> QED BY <2>5, <2>6 DEF k
  <1>5. CASE SetHeaderNoMemory(n, v, TRUE)
    BY <1>5 DEF SetHeaderNoMemory, streamVars
  <1> QED BY <1>3, <1>4, <1>5

(* Every call of the page brings its answer one piece further. *)
LEMMA MakeCallKeeps ==
    ASSUME Background, PageInv, MakeCall, Kind' = Kind
    PROVE  Frozen' /\ AsKind'
  <1> DEFINE call == Head(calls)
  <1>1. /\ wpc = "page" /\ wpc' = "page" /\ calls # <<>> /\ calls' = Tail(calls)
        /\ UNCHANGED <<plugin, logged, queued, lpc, req>>
    BY DEF MakeCall, WorkerAt, endpointVars, requestVars
  <1>2. logged = NULL
    BY <1>1 DEF PageInv, Frozen
  <1>3. Frozen' /\ ~CanCome'
    BY <1>1, <1>2 DEF Frozen, CanCome
  <1>4. ASSUME plugin = "fcgi" PROVE Progress'
    <2>1. Progress /\ Effect(call)
      BY <1>1, <1>4 DEF PageInv, AsKind, MakeCall
    <2>2. /\ call \in CallType /\ calls \in Seq(CallType)
          /\ call.method = "header" => call.name \in Names /\ call.value \in Values
      BY <1>1, CallsLeft DEF Background, InfoInv, CallsMade
    <2>3. /\ Pending(calls) \in Nat /\ Pending(calls') \in Nat
          /\ Pending(calls) = Pending(calls') + (IF Puts(call) THEN 1 ELSE 0)
      BY <1>1, <2>2, PendingTail
    <2>4. /\ WellFormed(calls', Kind)
          /\ calls' # <<>> => call.method # "close" /\ (calls'[1].method = "header" => call.method = "header")
          /\ call.method = "header" =>
                /\ KeyOf[call.name] \in {"status", "content-type"}
                /\ call.value = Target(Kind, KeyOf[call.name])
          /\ \A k : Unset(calls', k) /\ ~SetsKey(call, k) => Unset(calls, k)
      BY <1>1, <2>1, <2>2, WellFormedTail DEF Progress
    <2>5. calls' # <<>> => Head(calls') = calls'[1]
      BY <1>1, <2>2
    <2> HIDE DEF call
    <2>6. open
      BY <1>1, <2>1 DEF Progress
    <2>7. CASE call.method = "header"
      <3>0. PICK n \in Names, v \in Values : n = call.name /\ v = call.value
        BY <2>2, <2>7
      <3>1. ~headers_sent /\ SetHeaderCall(n, v)
        BY <1>1, <2>1, <2>7, <3>0 DEF Progress, Effect, call
      <3>2. KeyOf[n] \in {"status", "content-type"} /\ v = Target(Kind, KeyOf[n])
        BY <2>4, <2>7, <3>0
      <3>3. \A k : SetsKey(call, k) <=> k = KeyOf[n]
        BY <2>7, <3>0 DEF SetsKey
      <3>4. /\ UNCHANGED <<headers_sent, open, out>>
            /\ starved => starved'
            /\ ~starved' => /\ OldValues(KeyOf[n])' = <<v>>
                            /\ \A k \in Keys : k # KeyOf[n] => OldValues(k)' = OldValues(k)
        BY <2>1, <3>1, <3>2, HeaderCallKeeps
      <3>5. ASSUME ~starved', NEW k \in {"status", "content-type"}, Unset(calls', k)
            PROVE  OldValues(k)' = <<Target(Kind, k)>>
        <4>1. CASE k = KeyOf[n]
          BY <3>2, <3>4, <3>5, <4>1
        <4>2. CASE k # KeyOf[n]
          <5>1. Unset(calls, k)
            BY <2>4, <3>3, <3>5, <4>2
          <5>2. OldValues(k) = <<Target(Kind, k)>>
            BY <2>1, <3>4, <3>5, <5>1 DEF Progress, HeadersAsKind
          <5>3. k \in Keys
            BY KnownKeys
          <5> QED BY <3>4, <3>5, <4>2, <5>2, <5>3
        <4> QED BY <4>1, <4>2
      <3>6. ~Puts(call)
        BY <2>7 DEF Puts
      <3>7. PagePieces'
        <4>1. Bodies(out)' = Bodies(out) /\ Pending(calls') = Pending(calls)
          BY <2>3, <3>4, <3>6 DEF Bodies
        <4> QED BY <2>1, <4>1 DEF Progress, PagePieces
      <3>8. HeadersAsKind'
        BY <3>5 DEF HeadersAsKind
      <3> QED BY <2>4, <2>6, <3>1, <3>4, <3>7, <3>8 DEF Progress
    <2>8. CASE call.method \in {"puts", "write"}
      <3>1. FirstWrite \/ Write
        BY <2>1, <2>8 DEF Effect
      <3>2. Bodies(out') = Bodies(out) + 1 /\ Bodies(out) \in Nat
        BY <2>6, <3>1, WritePutsBody DEF Background
      <3>3. UNCHANGED <<open, headers, starved>>
        BY <3>1 DEF FirstWrite, Write, headerVars
      <3>4. PagePieces'
        <4>1. Puts(call)
          BY <2>8 DEF Puts
        <4>2. Bodies(out') + Pending(calls') = Bodies(out) + Pending(calls)
          BY <2>3, <3>2, <4>1
        <4> QED BY <2>1, <4>2 DEF Progress, PagePieces
      <3>5. \A k : ~SetsKey(call, k)
        BY <2>8 DEF SetsKey
      <3>6. HeadersAsKind'
        <4>1. \A k : OldValues(k)' = OldValues(k)
          BY <3>3 DEF OldValues
        <4> QED BY <2>1, <2>4, <3>3, <3>5, <4>1 DEF Progress, HeadersAsKind
      <3>7. ~(calls' # <<>> /\ Head(calls').method = "header")
        BY <2>4, <2>5, <2>8
      <3> QED BY <2>4, <2>6, <3>3, <3>4, <3>6, <3>7 DEF Progress
    <2>9. CASE call.method \notin {"header", "puts", "write"}
      <3>1. /\ UNCHANGED <<headers_sent, out, headers, starved>>
            /\ call.method # "close" => open' = open
        BY <2>1, <2>9 DEF Effect, Close, headerVars, vars, streamVars
      <3>2. ~Puts(call) /\ \A k : ~SetsKey(call, k)
        BY <2>9 DEF Puts, SetsKey
      <3>3. PagePieces'
        <4>1. Bodies(out)' = Bodies(out) /\ Pending(calls') = Pending(calls)
          BY <2>3, <3>1, <3>2 DEF Bodies
        <4> QED BY <2>1, <4>1 DEF Progress, PagePieces
      <3>4. HeadersAsKind'
        <4>1. \A k : OldValues(k)' = OldValues(k)
          BY <3>1 DEF OldValues
        <4> QED BY <2>1, <2>4, <3>1, <3>2, <4>1 DEF Progress, HeadersAsKind
      <3>5. ~(calls' # <<>> /\ Head(calls').method = "header")
        BY <2>4, <2>5, <2>9
      <3>6. calls' # <<>> => open'
        BY <2>4, <2>6, <3>1
      <3> QED BY <2>4, <3>3, <3>4, <3>5, <3>6 DEF Progress
    <2> QED BY <2>7, <2>8, <2>9
  <1> QED BY <1>1, <1>3, <1>4 DEF AsKind

(* Every step keeps the invariant. *)
LEMMA NextPageInv == Background /\ PageInv /\ [InfoNext]_infoVars => PageInv'
  <1> SUFFICES ASSUME Background, PageInv, [InfoNext]_infoVars PROVE PageInv'
    OBVIOUS
  <1>1. CallsMade /\ HeadersTyped
    BY DEF Background, InfoInv, IInv
  <1>2. Asked' /\ Kind' = Kind /\ plugin' = plugin
    BY <1>1, StaysAsked DEF PageInv
  <1>3. Emptied' = {}
    BY <1>1, StaysFull DEF PageInv
  <1>4. Frozen' /\ AsKind'
    <2>1. CASE UNCHANGED infoVars
      <3>1. /\ UNCHANGED <<vars, calls, logged, plugin, wpc, queued, lpc, req>>
            /\ UNCHANGED <<status, wbytes>>
        BY <2>1 DEF infoVars, endpointVars, requestVars, workerVars, vars, headerVars, streamVars
      <3>2. Frozen'
        BY <3>1 DEF PageInv, Frozen
      <3>3. AsKind'
        BY <1>2, <3>1, SameProgress DEF PageInv, AsKind, CanCome
      <3> QED BY <3>2, <3>3
    <2>2. CASE Quiet
      BY <1>2, <2>2, QuietKeeps
    <2>3. CASE ReleaseRouted
      BY <1>2, <2>3, ReleaseRoutedKeeps
    <2>4. CASE ChoosePage
      BY <1>2, <2>4, ChoosePageKeeps
    <2>5. CASE MakeCall
      BY <1>2, <2>5, MakeCallKeeps
    <2>6. CASE Complete
      BY <1>2, <2>6, CompleteKeeps
    <2>7. CASE LogRequest
      BY <1>2, <2>7, LogRequestKeeps
    <2> QED BY <2>1, <2>2, <2>3, <2>4, <2>5, <2>6, <2>7 DEF InfoNext, ListenerStep, WorkerStep, Quiet
  <1>5. Settled'
    BY StaysSettled
  <1> QED BY <1>2, <1>3, <1>4, <1>5 DEF PageInv

(* What is proved of any container's request holds of this one. *)
LEMMA BackgroundInvariant == InfoSpec => []Background
  <1>1. InfoSpec => Spec
    BY ContainerUsesRequest
  <1>2. Spec => []IInv
    BY InitIInv, NextIInv, PTL DEF Spec
  <1> QED BY <1>1, <1>2, InfoInvariant, StreamInvariant, PathInvariant, PathIsRight, PTL DEF Background

(* It is an invariant. *)
LEMMA PageInvariant == InfoSpec => [](Background /\ PageInv)
  BY BackgroundInvariant, InitPageInv, NextPageInv, PTL DEF InfoSpec

(* What an answer is when it is complete. *)
LEMMA AnswerComplete ==
    ASSUME Background, PageInv, Answered
    PROVE  /\ Bodies(out) = IF Kind = "info" THEN 5 ELSE 1
           /\ out # <<>>
           /\ logged.status = status /\ logged.bytes = wbytes
           /\ ~starved => \A k \in {"status", "content-type"} :
                OldValues(k) = <<Target(Kind, k)>> /\ ValuesSent(k) = <<Target(Kind, k)>>
  <1>1. plugin = "fcgi" /\ logged # NULL
    BY DEF Answered
  <1>2. calls = <<>> /\ Progress /\ logged.status = status /\ logged.bytes = wbytes
    BY <1>1 DEF PageInv, Frozen, AsKind
  <1>3. Pending(calls) = 0
    <2>1. {i \in DOMAIN calls : Puts(calls[i])} = {}
      BY <1>2
    <2> QED BY <2>1, FS_EmptySet DEF Pending
  <1>4. out \in Seq(Items) /\ Bodies(out) \in Nat
    <2>1. out \in Seq(Items) /\ Body \in Items
      BY DEF Background, StreamInv, StreamTyped, Items
    <2> QED BY <2>1, BodiesAppend
  <1>5. Bodies(out) = IF Kind = "info" THEN 5 ELSE 1
    BY <1>2, <1>3, <1>4 DEF Progress, PagePieces
  <1>6. out # <<>>
    <2> SUFFICES ASSUME out = <<>> PROVE FALSE
      OBVIOUS
    <2>1. OnlyHeaders(out)
      BY DEF OnlyHeaders
    <2>2. Bodies(out) = 0
      BY <1>4, <2>1, NoBodies
    <2> QED BY <1>5, <2>2
  <1>7. \A k \in Keys : ValuesSent(k) = OldValues(k)
    BY <1>6 DEF Background, StreamInv, HeadIntact, PageInv
  <1>8. ASSUME ~starved, NEW k \in {"status", "content-type"}
        PROVE  OldValues(k) = <<Target(Kind, k)>> /\ ValuesSent(k) = <<Target(Kind, k)>>
    <2>1. Unset(calls, k)
      BY <1>2 DEF Unset
    <2>2. OldValues(k) = <<Target(Kind, k)>>
      BY <1>2, <1>8, <2>1 DEF Progress, HeadersAsKind
    <2>3. k \in Keys
      BY KnownKeys
    <2> QED BY <1>7, <2>2, <2>3
  <1> QED BY <1>2, <1>5, <1>6, <1>8

(* For every environment, a client that is answered is sent the page that its *)
(* path asks for, whole, and with the status and type of that page.        *)
THEOREM AnswersArePages == InfoSpec => []PageAnswers
  <1>1. Background /\ PageInv => PageAnswers
    <2> SUFFICES ASSUME Background, PageInv, Answered
                 PROVE  /\ Bodies(out) = IF Kind = "info" THEN 5 ELSE 1
                        /\ ~starved =>
                            /\ ValuesSent("status") = <<IF Kind = "missing" THEN NotFound ELSE Ok>>
                            /\ ValuesSent("content-type") = <<IF Kind = "css" THEN Css ELSE HtmlUtf8>>
      BY DEF PageAnswers, PageLength, Answered
    <2>1. Target(Kind, "status") = IF Kind = "missing" THEN NotFound ELSE Ok
      BY DEF Target
    <2>2. Target(Kind, "content-type") = IF Kind = "css" THEN Css ELSE HtmlUtf8
      BY DEF Target
    <2>3. \A k \in {"status", "content-type"} : ~starved => ValuesSent(k) = <<Target(Kind, k)>>
      BY AnswerComplete
    <2>4. Bodies(out) = IF Kind = "info" THEN 5 ELSE 1
      BY AnswerComplete
    <2> QED BY <2>1, <2>2, <2>3, <2>4
  <1> QED BY <1>1, PageInvariant, PTL

(* The access log has the size and the status of the answer that was sent. *)
THEOREM LogIsTrue == InfoSpec => []LogTrue
  <1>1. Background /\ PageInv => LogTrue
    <2> SUFFICES ASSUME Background, PageInv, Answered
                 PROVE  /\ logged.bytes = Bytes(out)
                        /\ ~starved => /\ ValuesSent("status") # <<>>
                                       /\ logged.status = CodeOf[ValuesSent("status")[1]]
      BY DEF LogTrue
    <2>1. logged.bytes = Bytes(out)
      <3>1. wbytes = Bytes(out)
        BY AnswerComplete DEF Background, StreamInv, BytesExact
      <3> QED BY <3>1, AnswerComplete
    <2>2. ASSUME ~starved
          PROVE  ValuesSent("status") # <<>> /\ logged.status = CodeOf[ValuesSent("status")[1]]
      <3> DEFINE target == Target(Kind, "status")
      <3>1. OldValues("status") = <<target>> /\ ValuesSent("status") = <<target>> /\ logged.status = status
        BY <2>2, AnswerComplete
      <3>2. headers["status"] # NULL /\ status = CodeOf[headers["status"].values[1]]
        BY <2>2 DEF Background, IInv, StatusAgrees
      <3>3. headers["status"].values = <<target>>
        BY <3>1, <3>2 DEF OldValues
      <3> HIDE DEF target
      <3> QED BY <3>1, <3>2, <3>3
    <2> QED BY <2>1, <2>2
  <1> QED BY <1>1, PageInvariant, PTL

-----------------------------------------------------------------------------
(* The exchange as the client sees it. *)

(* The stage is told by the request, the log, the worker and the queue. *)
StageOf(r, l, w, q) ==
    CASE r = "none" -> "none"
      [] r = "pending" -> "asked"
      [] r = "freed" -> "finished"
      [] r = "live" /\ l # NULL -> "logged"
      [] r = "live" /\ l = NULL /\ w \in {"consume", "page"} -> "taken"
      [] r = "live" /\ l = NULL /\ w \notin {"consume", "page"} /\ q -> "queued"
      [] OTHER -> "accepted"

LEMMA StageIs ==
    ASSUME NEW r, NEW l, NEW w, NEW q \in BOOLEAN
    PROVE  /\ r = "none" => StageOf(r, l, w, q) = "none"
           /\ r = "pending" => StageOf(r, l, w, q) = "asked"
           /\ r = "freed" => StageOf(r, l, w, q) = "finished"
           /\ r = "live" /\ l # NULL => StageOf(r, l, w, q) = "logged"
           /\ r = "live" /\ l = NULL /\ w \in {"consume", "page"} => StageOf(r, l, w, q) = "taken"
           /\ r = "live" /\ l = NULL /\ w \notin {"consume", "page"} =>
                StageOf(r, l, w, q) = IF q THEN "queued" ELSE "accepted"
  BY DEF StageOf

LEMMA StageNow ==
    /\ Stage = StageOf(req, logged, wpc, queued)
    /\ Stage' = StageOf(req', logged', wpc', queued')
  BY DEF Stage, StageOf

(* A worker that does not take or leave the request changes no stage. *)
LEMMA StageStays ==
    ASSUME UNCHANGED <<req, logged, queued>>, wpc' \in {"consume", "page"} <=> wpc \in {"consume", "page"}
    PROVE  Stage' = Stage
  BY StageNow DEF StageOf

LEMMA SentStays == out' = out => Bodies(out)' = Bodies(out)
  BY DEF Bodies

(* The steps before a worker makes the page. *)
LEMMA QuietExchange ==
    ASSUME Background, PageInv, Quiet
    PROVE  Exch!Next \/ UNCHANGED Exch!vars
  <1>1. Bodies(out)' = Bodies(out) /\ logged' = logged
    BY QuietStep, SentStays DEF vars, streamVars
  <1>2. /\ queued \in BOOLEAN /\ refs \in 0 .. 2 /\ RequestHeld /\ Unrouted /\ Frozen
        /\ req \in {"none", "pending", "live", "freed"}
    BY DEF Background, InfoInv, ThreadsTyped, PageInv
  <1>3. CASE Process
    <2>1. req = "none" /\ req' = "pending"
      BY <1>3 DEF Process
    <2>2. Stage = "none" /\ Stage' = "asked"
      BY <2>1, StageNow DEF StageOf
    <2> QED BY <1>1, <2>2 DEF Exch!Next, Exch!Ask, Exch!Pass
  <1>4. CASE Acquire
    <2>1. req = "pending" /\ req' = "live" /\ UNCHANGED <<wpc, queued>>
      BY <1>4 DEF Acquire, workerVars
    <2>2. refs = 0
      BY <1>2, <2>1 DEF RequestHeld
    <2>3. queued = FALSE /\ wpc \notin {"consume", "page"} /\ logged = NULL
      BY <1>2, <2>1, <2>2 DEF RequestHeld, Frozen
    <2>4. Stage = "asked" /\ Stage' = "accepted"
      BY <1>1, <2>1, <2>3, StageNow DEF StageOf
    <2> QED BY <1>1, <2>4 DEF Exch!Next, Exch!Accept, Exch!Pass
  <1>5. CASE Queue
    <2>1. lpc = "queue" /\ queued' = TRUE /\ UNCHANGED <<req, wpc>>
      BY <1>5 DEF Queue, ListenerAt, workerVars
    <2>2. queued = FALSE /\ logged = NULL
      BY <1>2, <2>1 DEF Unrouted, Frozen
    <2>3. req = "live" /\ wpc \notin {"consume", "page"}
      BY <1>2, <2>1, <2>2 DEF RequestHeld
    <2>4. Stage = "accepted" /\ Stage' = "queued"
      BY <1>1, <2>1, <2>2, <2>3, StageNow DEF StageOf
    <2> QED BY <1>1, <2>4 DEF Exch!Next, Exch!Queue, Exch!Pass
  <1>6. CASE Fetch
    <2>1. wpc \in {"waiting", "woken"} /\ queued = TRUE /\ wpc' = "consume" /\ UNCHANGED <<req, queued>>
      BY <1>2, <1>6 DEF Fetch, Idle, requestVars
    <2>2. req = "live" /\ logged = NULL
      BY <1>2, <2>1 DEF RequestHeld, Frozen
    <2>3. Stage = "queued" /\ Stage' = "taken"
      BY <1>1, <2>1, <2>2, StageNow DEF StageOf
    <2> QED BY <1>1, <2>3 DEF Exch!Next, Exch!Take, Exch!Pass
  <1>7. CASE CreateWorker
    <2>1. lpc = "route" /\ wpc' \in {"waiting", "nothread"} /\ UNCHANGED <<req, queued>>
      BY <1>7 DEF CreateWorker, ListenerAt, requestVars
    <2>2. wpc \notin {"consume", "page"}
      BY <1>2, <2>1 DEF RequestHeld, Unrouted
    <2>3. Stage' = Stage
      BY <1>1, <2>1, <2>2, StageStays
    <2> QED BY <1>1, <2>3 DEF Exch!vars
  <1>8. CASE CreateEndpoint \/ NoEndpoint \/ ProcessFails \/ AcquireFails \/ Locate \/ RouteDrops
    <2>1. UNCHANGED <<req, queued, wpc>>
      BY <1>8 DEF CreateEndpoint, NoEndpoint, ProcessFails, AcquireFails, Locate, RouteDrops, requestVars, workerVars
    <2>2. Stage' = Stage
      BY <1>1, <2>1, StageStays
    <2> QED BY <1>1, <2>2 DEF Exch!vars
  <1>9. CASE SpuriousWakeup \/ WakeTerminate \/ CallMissing
    <2>1. UNCHANGED <<req, queued>> /\ (wpc' \in {"consume", "page"} <=> wpc \in {"consume", "page"})
      BY <1>9 DEF SpuriousWakeup, WakeTerminate, CallMissing, WorkerAt, requestVars
    <2>2. Stage' = Stage
      BY <1>1, <2>1, StageStays
    <2> QED BY <1>1, <2>2 DEF Exch!vars
  <1> QED BY <1>3, <1>4, <1>5, <1>6, <1>7, <1>8, <1>9 DEF Quiet

(* A call sends one of the pieces that are left, or nothing. *)
LEMMA MakeCallExchange ==
    ASSUME Background, PageInv, MakeCall
    PROVE  Exch!Next \/ UNCHANGED Exch!vars
  <1> DEFINE call == Head(calls)
  <1>1. /\ wpc = "page" /\ calls # <<>> /\ UNCHANGED <<req, logged, queued, wpc>>
        /\ IF plugin = "fcgi" THEN Effect(call) ELSE UNCHANGED vars
    BY DEF MakeCall, WorkerAt, requestVars
  <1>2. queued = TRUE /\ req = "live" /\ logged = NULL
    BY <1>1 DEF Background, InfoInv, ThreadsTyped, RequestHeld, PageInv, Frozen
  <1>3. Stage' = Stage /\ Stage = "taken"
    BY <1>1, <1>2, StageStays, StageNow DEF StageOf
  <1>4. CASE plugin = "fcgi" /\ call.method \in {"puts", "write"}
    <2>1. Progress /\ (FirstWrite \/ Write)
      BY <1>1, <1>4 DEF PageInv, AsKind, Effect
    <2>2. open /\ PagePieces
      BY <1>1, <2>1 DEF Progress
    <2>3. Bodies(out') = Bodies(out) + 1 /\ Bodies(out) \in Nat
      BY <2>1, <2>2, WritePutsBody DEF Background
    <2>4. Pending(calls) \in Nat /\ Pending(calls) > 0
      <3>1. calls \in Seq(CallType)
        BY DEF Background, InfoInv, CallsMade
      <3>2. Puts(call)
        BY <1>4 DEF Puts
      <3> HIDE DEF call
      <3>3. /\ Pending(calls) \in Nat /\ Pending(Tail(calls)) \in Nat
            /\ Pending(calls) = Pending(Tail(calls)) + 1
        BY <1>1, <3>1, <3>2, PendingTail DEF call
      <3> QED BY <3>3
    <2>5. Bodies(out) < PageLength
      BY <1>4, <2>2, <2>3, <2>4 DEF PagePieces, PageLength
    <2>6. Bodies(out)' = Bodies(out) + 1
      BY <2>3 DEF Bodies
    <2> QED BY <1>3, <2>5, <2>6 DEF Exch!Next, Exch!Send
  <1>5. CASE ~(plugin = "fcgi" /\ call.method \in {"puts", "write"})
    <2>1. out' = out
      BY <1>1, <1>5 DEF Effect, SetHeaderCall, SetHeader, SetHeaderNoMemory, Close, vars, streamVars
    <2> QED BY <1>3, <2>1, SentStays DEF Exch!vars
  <1> QED BY <1>4, <1>5

(* What is logged is whole. *)
LEMMA LogExchange ==
    ASSUME Background, PageInv, LogRequest, Settled'
    PROVE  Exch!Next
  <1>1. wpc = "page" /\ calls = <<>> /\ wpc' = "complete" /\ UNCHANGED <<req, queued, vars>>
    BY DEF LogRequest, WorkerAt, requestVars
  <1>2. queued = TRUE /\ req = "live" /\ logged = NULL /\ logged' # NULL
    BY <1>1 DEF Background, InfoInv, ThreadsTyped, RequestHeld, PageInv, Frozen, Settled
  <1>3. Stage = "taken" /\ Stage' = "logged"
    BY <1>1, <1>2, StageNow DEF StageOf
  <1>4. Bodies(out)' = Bodies(out)
    BY <1>1, SentStays DEF vars, streamVars
  <1>5. out \in Seq(Items)
    BY DEF Background, StreamInv, StreamTyped
  <1>6. Bodies(out) = PageLength
    <2>1. CASE plugin = "fcgi"
      <3>1. PagePieces
        BY <1>1, <2>1 DEF PageInv, AsKind, Progress
      <3>2. Pending(calls) = 0
        <4>1. {i \in DOMAIN calls : Puts(calls[i])} = {}
          BY <1>1
        <4> QED BY <4>1, FS_EmptySet DEF Pending
      <3>3. Bodies(out) \in Nat
        <4>1. Body \in Items
          BY DEF Items
        <4> QED BY <1>5, <4>1, BodiesAppend
      <3> QED BY <2>1, <3>1, <3>2, <3>3 DEF PagePieces, PageLength
    <2>2. CASE plugin = "dummy"
      <3>1. OnlyHeaders(out)
        BY <2>2 DEF PageInv, Settled, OnlyHeaders
      <3> QED BY <1>5, <2>2, <3>1, NoBodies DEF PageLength
    <2> QED BY <2>1, <2>2 DEF Background, InfoInv, ThreadsTyped
  <1> QED BY <1>3, <1>4, <1>6 DEF Exch!Next, Exch!Log, Exch!Pass

(* The last release finishes it, once it is logged or if nobody queued it. *)
LEMMA ReleaseExchange ==
    ASSUME Background, PageInv, ReleaseRouted \/ Complete
    PROVE  Exch!Next \/ UNCHANGED Exch!vars
  <1>1. Release /\ logged' = logged
    BY DEF ReleaseRouted, Complete, workerVars
  <1>2. Bodies(out)' = Bodies(out)
    BY <1>1, ReleaseChanges, SentStays
  <1>3. queued \in BOOLEAN /\ refs \in 0 .. 2 /\ RequestHeld
    BY DEF Background, InfoInv, ThreadsTyped
  <1>4. CASE ReleaseRouted
    <2>1. lpc = "release" /\ UNCHANGED <<wpc, queued>>
      BY <1>4 DEF ReleaseRouted, ListenerAt, workerVars
    <2>2. refs = (IF queued THEN 1 ELSE 0) + 1 /\ refs > 0 /\ req = "live"
      BY <1>3, <2>1 DEF RequestHeld
    <2>3. req' = IF refs = 1 THEN "freed" ELSE "live"
      BY <1>1, <2>2, Released DEF Background
    <2>4. CASE queued
      <3>1. req' = req
        BY <2>2, <2>3, <2>4
      <3>2. Stage' = Stage
        BY <1>1, <2>1, <3>1, StageStays
      <3> QED BY <1>2, <3>2 DEF Exch!vars
    <2>5. CASE ~queued
      <3>1. req' = "freed" /\ wpc \notin {"consume", "page"}
        BY <1>3, <2>2, <2>3, <2>5 DEF RequestHeld
      <3>2. Stage' = "finished" /\ Stage \in {"logged", "accepted"}
        BY <2>2, <2>5, <3>1, StageNow DEF StageOf
      <3> QED BY <1>2, <3>2 DEF Exch!Next, Exch!Finish, Exch!Pass
    <2> QED BY <2>4, <2>5
  <1>5. CASE Complete
    <2>1. wpc = "complete" /\ wpc' = "waiting" /\ queued' = FALSE
      BY <1>5 DEF Complete, WorkerAt
    <2>2. queued = TRUE /\ refs > 0 /\ req = "live" /\ logged # NULL
      BY <1>3, <2>1 DEF RequestHeld, PageInv, Settled
    <2>3. req' = IF refs = 1 THEN "freed" ELSE "live"
      BY <1>1, <2>2, Released DEF Background
    <2>4. Stage = "logged"
      BY <2>2, StageNow DEF StageOf
    <2>5. Stage' = IF refs = 1 THEN "finished" ELSE "logged"
      BY <1>1, <2>2, <2>3, StageNow DEF StageOf
    <2> QED BY <1>2, <2>4, <2>5 DEF Exch!Next, Exch!Finish, Exch!Pass, Exch!vars
  <1> QED BY <1>4, <1>5

LEMMA ExchangeStep == Background /\ PageInv /\ [InfoNext]_infoVars => [Exch!Next]_Exch!vars
  <1> SUFFICES ASSUME Background, PageInv, [InfoNext]_infoVars
               PROVE  Exch!Next \/ UNCHANGED Exch!vars
    OBVIOUS
  <1>1. CASE UNCHANGED infoVars
    <2>1. UNCHANGED <<req, logged, queued, wpc, out>>
      BY <1>1 DEF infoVars, requestVars, workerVars, vars, streamVars
    <2> QED BY <2>1, StageStays, SentStays DEF Exch!vars
  <1>2. CASE Quiet
    BY <1>2, QuietExchange
  <1>3. CASE ChoosePage
    <2>1. UNCHANGED <<req, logged, queued, out>> /\ {wpc, wpc'} \subseteq {"consume", "page"}
      BY <1>3 DEF ChoosePage, WorkerAt, requestVars, vars, streamVars, Consume
    <2> QED BY <2>1, StageStays, SentStays DEF Exch!vars
  <1>4. CASE MakeCall
    BY <1>4, MakeCallExchange
  <1>5. CASE LogRequest
    BY <1>5, StaysSettled, LogExchange
  <1>6. CASE ReleaseRouted \/ Complete
    BY <1>6, ReleaseExchange
  <1> QED BY <1>1, <1>2, <1>3, <1>4, <1>5, <1>6 DEF InfoNext, ListenerStep, WorkerStep, Quiet

LEMMA ExchangeInit == InfoInit => Exch!Init
  <1> SUFFICES ASSUME InfoInit PROVE Exch!Init
    OBVIOUS
  <1>1. Stage = "none"
    BY StageNow DEF InfoInit, StageOf
  <1>2. out = <<>> /\ out \in Seq(Items)
    BY DEF InfoInit, Init
  <1>3. Bodies(out) = 0
    <2>1. OnlyHeaders(out)
      BY <1>2 DEF OnlyHeaders
    <2> QED BY <1>2, <2>1, NoBodies
  <1> QED BY <1>1, <1>3 DEF Exch!Init

(* For every environment, memory and failure, nothing is sent before a     *)
(* worker has taken the request, every piece of the page is sent before it *)
(* is logged, and it is finished once, by the last of the listener and the *)
(* worker to release it, when it is logged or if nobody has queued it.     *)
THEOREM ContainerImplementsExchange == InfoSpec => ImplementsExchange
  <1>1. InfoInit => Exch!Init
    BY ExchangeInit
  <1>2. Background /\ PageInv /\ [InfoNext]_infoVars => [Exch!Next]_Exch!vars
    BY ExchangeStep
  <1> QED BY PageInvariant, <1>1, <1>2, PTL DEF InfoSpec, ImplementsExchange, Exch!Spec
=============================================================================
