--------------------------- MODULE InfoContainer ---------------------------
(***************************************************************************)
(* The way of one request through an endpoint plug-in, the thread of its   *)
(* listener, a worker and the pages of the info container.                 *)
(*                                                                         *)
(* For the fcgi plug-in the request is that of FcgiRequest, whose actions  *)
(* are the steps of its methods; it is there from the start, as it will be *)
(* when request_create_ has made it.  The dummy plug-in keeps no state of  *)
(* a request: what is put goes to stderr, and consume finds nothing.       *)
(*                                                                         *)
(* A page is the list of the calls that it makes, in which one puts stands *)
(* for several in a row.  Pools and queues are those of WorkerPool: here   *)
(* the request is alone in its host's pool, and queues for the one worker  *)
(* that is found or made for it, or is dropped.                            *)
(***************************************************************************)
EXTENDS FcgiRequest, FcgiEndpoint

CONSTANTS
    Envs,       \* environments: entries of a name, NULL if there is no '=', and a value
    Endpoints,  \* URIs of endpoints: records of path, host and port
    GlobalCss,  \* the path element "global.css"
    NotFound,   \* "404 Not found"
    HtmlUtf8,   \* "text/html;charset=UTF-8"
    Css,        \* "text/css"
    Failures    \* what may fail beside memory, and wakeups out of the blue

ASSUME PagesAssumption ==
    /\ {NotFound, HtmlUtf8, Css} \subseteq Values /\ CodeOf[NotFound] = 404
    /\ "Content-type" \in Names /\ KeyOf["Content-type"] = "content-type"
    /\ GlobalCss \in Text
ASSUME EnvsAssumption ==
    /\ NULL # "REQUEST_URI"
    /\ Envs \subseteq Seq([name : STRING \cup {NULL}, value : Text])
    /\ \A e \in Envs : \A i \in DOMAIN e : e[i].name = "REQUEST_URI" => e[i].value \in Seq(Chars)
ASSUME EndpointsAssumption == Endpoints \subseteq [path : Seq(Chars), host : Seq(Chars), port : Seq(Chars)]
ASSUME FailuresAssumption == Failures \subseteq {"open", "accept", "route", "nothread", "spurious"}
ASSUME LogAssumption == NULL \notin [status : Nat, bytes : Nat \cup {NULL}]

VARIABLES
    plugin,     \* "fcgi" or "dummy"
    envp,       \* the environment that comes with the request
    endpoint,   \* the URI of the endpoint
    socket,     \* what the endpoint listens on
    lpc,        \* where the listener's thread is
    req,        \* the request: not there, pending in the endpoint, live, freed
    refs,       \* its reference count
    queued,     \* it is in the worker's queue
    wpc,        \* where the thread of the newest worker is, if there is one
    calls,      \* the calls that the page has still to make
    logged,     \* the status and size in the access log, NULL before
    crashed     \* the process has called a method that is not there

endpointVars == <<plugin, envp, endpoint, socket>>
requestVars == <<req, refs>>
workerVars == <<wpc, calls, logged, crashed>>
infoVars == <<vars, endpointVars, lpc, requestVars, queued, workerVars>>

(* cw_request_env_init: the table of the environment.  What has no '=' is  *)
(* passed over, and the last entry of a name counts.                       *)
Assigned(entry, table) ==
    IF entry.name = NULL THEN table
    ELSE [n \in DOMAIN table \cup {entry.name} |-> IF n = entry.name THEN entry.value ELSE table[n]]

EnvTable(e) ==
    LET table[i \in 0 .. Len(e)] == IF i = 0 THEN <<>> ELSE Assigned(e[i], table[i - 1])
    IN  table[Len(e)]

getenv(table, name) == IF name \in DOMAIN table THEN table[name] ELSE NULL

InfoInit ==
    /\ Init
    /\ plugin \in {"fcgi", "dummy"}
    /\ envp \in Envs
    /\ uri = getenv(EnvTable(envp), "REQUEST_URI")
    /\ endpoint \in Endpoints
    /\ socket = NoSocket
    /\ lpc = "create"
    /\ req = "none" /\ refs = 0
    /\ queued = FALSE
    /\ wpc \in {"none", "waiting"} /\ calls = <<>>
    /\ logged = NULL
    /\ crashed = FALSE

-----------------------------------------------------------------------------
(* The listener. *)
ListenerAt(place) == ~crashed /\ lpc = place

(* endpoint_create_, before the listener's thread is.  The dummy listens   *)
(* on nothing.                                                             *)
CreateEndpoint ==
    /\ ListenerAt("create")
    /\ plugin = "fcgi" => Specifier(endpoint) # NoSocket
    /\ socket' = IF plugin = "fcgi" THEN Specifier(endpoint) ELSE NoSocket
    /\ lpc' = "process"
    /\ UNCHANGED <<vars, plugin, envp, endpoint, requestVars, queued, workerVars>>

NoEndpoint ==
    /\ ListenerAt("create")
    /\ \/ "memory" \in Faults
       \/ plugin = "fcgi" /\ (Specifier(endpoint) = NoSocket \/ "open" \in Failures)
    /\ lpc' = "ended"
    /\ UNCHANGED <<vars, endpointVars, requestVars, queued, workerVars>>

(* process returns: the endpoint has an FCGX_Request, or the dummy's flag  *)
(* acquired is reset.  There is one request in all.                        *)
Process ==
    /\ ListenerAt("process") /\ req = "none"
    /\ req' = "pending"
    /\ lpc' = "acquire"
    /\ UNCHANGED <<vars, endpointVars, refs, queued, workerVars>>

ProcessFails ==
    /\ ListenerAt("process") /\ plugin = "fcgi"
    /\ "memory" \in Faults \/ "accept" \in Failures
    /\ lpc' = "ended"
    /\ UNCHANGED <<vars, endpointVars, requestVars, queued, workerVars>>

(* acquire: the request is the listener's, and no longer pending. *)
Acquire ==
    /\ ListenerAt("acquire") /\ req = "pending"
    /\ req' = "live" /\ refs' = 1
    /\ lpc' = "route"
    /\ UNCHANGED <<vars, endpointVars, queued, workerVars>>

AcquireFails ==
    /\ ListenerAt("acquire")
    /\ req # "pending" \/ "memory" \in Faults
    /\ lpc' = "ended"
    /\ UNCHANGED <<vars, endpointVars, requestVars, queued, workerVars>>

(* worker_locate prefers an idle worker, which there is while one waits,   *)
(* and creates one otherwise.                                              *)
Idle == wpc \in {"waiting", "woken"}

Locate ==
    /\ ListenerAt("route") /\ Idle
    /\ lpc' = "queue"
    /\ UNCHANGED <<vars, endpointVars, requestVars, queued, workerVars>>

(* Whether a new worker has got its thread is not asked.                   *)
CreateWorker ==
    /\ ListenerAt("route") /\ ~Idle
    /\ wpc' \in {"waiting"} \cup ({"nothread"} \cap Failures)
    /\ lpc' = "queue"
    /\ UNCHANGED <<vars, endpointVars, requestVars, queued, calls, logged, crashed>>

(* Faulty variant: the queue has no reference of its own. *)
QueueBorrowed ==
    /\ ListenerAt("queue")
    /\ queued' = TRUE
    /\ lpc' = "release"
    /\ UNCHANGED <<vars, endpointVars, requestVars, workerVars>>

(* worker_queue_request gives the worker's queue a reference, whatever has *)
(* become of the worker since it was chosen.                               *)
Queue ==
    /\ ListenerAt("queue")
    /\ queued' = TRUE
    /\ refs' = refs + 1
    /\ lpc' = "release"
    /\ UNCHANGED <<vars, endpointVars, req, workerVars>>

(* No worker can be made, or requests that are not modelled fill its queue. *)
RouteDrops ==
    /\ "route" \in Failures
    /\ (ListenerAt("route") /\ ~Idle) \/ ListenerAt("queue")
    /\ lpc' = "release"
    /\ UNCHANGED <<vars, endpointVars, requestVars, queued, workerVars>>

(* FCGX_Finish_r sends what is left and closes the streams. *)
Finish_r == Close

(* Faulty variant: one reference is left when the request goes. *)
ReleaseTooSoon ==
    /\ refs' = refs - 1
    /\ req' = IF refs <= 2 THEN "freed" ELSE req
    /\ IF refs <= 2 /\ plugin = "fcgi" THEN Finish_r ELSE UNCHANGED vars

(* request_release_, on whichever thread drops the last reference. *)
Release ==
    /\ refs' = refs - 1
    /\ req' = IF refs = 1 THEN "freed" ELSE req
    /\ IF refs = 1 /\ plugin = "fcgi" THEN Finish_r ELSE UNCHANGED vars

ReleaseRouted ==
    /\ ListenerAt("release")
    /\ Release
    /\ lpc' = "process"
    /\ UNCHANGED <<endpointVars, queued, workerVars>>

-----------------------------------------------------------------------------
(* The worker. *)
WorkerAt(place) == ~crashed /\ wpc = place

Call(method) == [method |-> method, name |-> NULL, value |-> NULL]
Header_(n, v) == [method |-> "header", name |-> n, value |-> v]

(* worker_process_info. *)
InfoPage ==
    <<Header_("Content-type", HtmlUtf8), Call("puts"),
      Call("protocol"), Call("method"), Call("request_uri_str"), Call("getenv"), Call("puts"),
      Call("environment"), Call("puts"), Call("write"), Call("puts"), Call("close")>>

(* worker_process_global_css. *)
CssPage == <<Header_("Content-type", Css), Call("puts")>>

MissingPage == <<Header_("Status", NotFound), Header_("Content-type", HtmlUtf8), Call("puts")>>

Page(sub) ==
    CASE sub = NULL -> InfoPage
      [] sub # NULL /\ sub = GlobalCss -> CssPage
      [] OTHER -> MissingPage

(* pthread_cond_wait may return though nobody has signalled.               *)
SpuriousWakeup ==
    /\ "spurious" \in Failures
    /\ WorkerAt("waiting")
    /\ wpc' = "woken"
    /\ UNCHANGED <<vars, endpointVars, lpc, requestVars, queued, calls, logged, crashed>>

(* A thread that is woken for nothing ends.                                *)
WakeTerminate ==
    /\ WorkerAt("woken") /\ ~queued
    /\ wpc' = "exited"
    /\ UNCHANGED <<vars, endpointVars, lpc, requestVars, queued, calls, logged, crashed>>

(* A worker takes what is queued instead of waiting, or when it is woken.  *)
Fetch ==
    /\ ~crashed /\ Idle /\ queued
    /\ wpc' = "consume"
    /\ UNCHANGED <<vars, endpointVars, lpc, requestVars, queued, calls, logged, crashed>>

(* What consume returns, NULL if no element is left. *)
Sub == IF plugin = "dummy" \/ params_array = <<>> THEN NULL ELSE Head(params_array)

(* worker_process_request_ chooses the page by the first element.          *)
ChoosePage ==
    /\ WorkerAt("consume")
    /\ IF Sub = NULL THEN UNCHANGED vars ELSE Consume
    /\ calls' = Page(Sub)
    /\ wpc' = "page"
    /\ UNCHANGED <<endpointVars, lpc, requestVars, queued, logged, crashed>>

Methods == {"header", "puts", "write", "close", "protocol", "method", "request_uri_str",
            "getenv", "environment"}

(* The methods that are there. *)
Provided == IF plugin = "fcgi" THEN Methods ELSE Methods \ {"environment"}

(* What a call does to an fcgi request; the others only read it.           *)
SetHeaderCall(n, v) ==
    IF headers_sent \/ Refused(n, v, TRUE) THEN UNCHANGED vars
    ELSE SetHeader(n, v, TRUE) \/ SetHeaderNoMemory(n, v, TRUE)

Effect(call) ==
    CASE call.method = "header" -> SetHeaderCall(call.name, call.value)
      [] call.method \in {"puts", "write"} -> FirstWrite \/ Write
      [] call.method = "close" -> Close
      [] OTHER -> UNCHANGED vars

MakeCall ==
    /\ WorkerAt("page") /\ calls # <<>>
    /\ Head(calls).method \in Provided
    /\ IF plugin = "fcgi" THEN Effect(Head(calls)) ELSE UNCHANGED vars
    /\ calls' = Tail(calls)
    /\ UNCHANGED <<endpointVars, lpc, requestVars, queued, wpc, logged, crashed>>

CallMissing ==
    /\ WorkerAt("page") /\ calls # <<>>
    /\ Head(calls).method \notin Provided
    /\ crashed' = TRUE
    /\ UNCHANGED <<vars, endpointVars, lpc, requestVars, queued, wpc, calls, logged>>

(* worker_log_request_, as far as it is the answer's.  The dummy says 200,  *)
(* and that it cannot tell the size.                                       *)
AccessLog ==
    [status |-> IF plugin = "fcgi" THEN status ELSE 200,
     bytes |-> IF plugin = "fcgi" THEN wbytes ELSE NULL]

(* worker_request_ is called again, and logs the request that it returned. *)
LogRequest ==
    /\ WorkerAt("page") /\ calls = <<>>
    /\ logged' = AccessLog
    /\ wpc' = "complete"
    /\ UNCHANGED <<vars, endpointVars, lpc, requestVars, queued, calls, crashed>>

(* Faulty variant: the request stays in the queue. *)
CompleteQueued ==
    /\ WorkerAt("complete")
    /\ Release
    /\ wpc' = "waiting"
    /\ UNCHANGED <<endpointVars, lpc, queued, calls, logged, crashed>>

(* Faulty variant: the reference of the queue is kept. *)
CompleteHolding ==
    /\ WorkerAt("complete")
    /\ queued' = FALSE
    /\ wpc' = "waiting"
    /\ UNCHANGED <<vars, endpointVars, lpc, requestVars, calls, logged, crashed>>

(* Then it takes it off the queue and releases it.                         *)
Complete ==
    /\ WorkerAt("complete")
    /\ queued' = FALSE
    /\ Release
    /\ wpc' = "waiting"
    /\ UNCHANGED <<endpointVars, lpc, calls, logged, crashed>>

ListenerStep == Acquire \/ AcquireFails \/ Locate \/ CreateWorker \/ Queue \/ RouteDrops \/ ReleaseRouted
WorkerStep == WakeTerminate \/ Fetch \/ ChoosePage \/ MakeCall \/ CallMissing \/ LogRequest \/ Complete

InfoNext ==
    \/ CreateEndpoint \/ NoEndpoint \/ Process \/ ProcessFails
    \/ ListenerStep \/ WorkerStep \/ SpuriousWakeup

InfoSpec == InfoInit /\ [][InfoNext]_infoVars

(* A thread that can go on does; clients need not come, and nothing need   *)
(* wake a thread that nobody signals.                                      *)
InfoFairSpec == InfoSpec /\ WF_infoVars(ListenerStep) /\ WF_infoVars(WorkerStep)

-----------------------------------------------------------------------------
(* Every variable keeps its type, and calls are those that pages make.     *)
InfoTypeOK ==
    /\ plugin \in {"fcgi", "dummy"} /\ envp \in Envs /\ endpoint \in Endpoints
    /\ socket # NoSocket => plugin = "fcgi"
    /\ lpc \in {"create", "process", "acquire", "route", "queue", "release", "ended"}
    /\ req \in {"none", "pending", "live", "freed"} /\ refs \in 0 .. 2
    /\ queued \in BOOLEAN /\ crashed \in BOOLEAN
    /\ wpc \in {"none", "nothread", "waiting", "woken", "consume", "page", "complete", "exited"}
    /\ calls \in Seq([method : Methods, name : Names \cup {NULL}, value : Values \cup {NULL}])
    /\ logged = NULL \/ logged.status \in 100 .. 999

(* The count is one for the queue and one for the listener's pointer, and  *)
(* the request is there as long as there is one: a worker never calls a    *)
(* request that the listener has freed, nor the other way round.           *)
RequestHeld ==
    /\ refs = (IF queued THEN 1 ELSE 0) + (IF lpc \in {"route", "queue", "release"} THEN 1 ELSE 0)
    /\ refs > 0 <=> req = "live"
    /\ wpc \in {"consume", "page", "complete"} => queued

(* The path that was asked for: the last REQUEST_URI of the environment.   *)
AskedFor ==
    LET places == {i \in DOMAIN envp : envp[i].name = "REQUEST_URI"}
    IN  IF places = {} THEN <<>> ELSE ExpectedElements(envp[Max(places)].value)

(* The page that it asks for.                                              *)
Kind ==
    CASE AskedFor = <<>> -> "info"
      [] AskedFor # <<>> /\ AskedFor[1] = GlobalCss -> "css"
      [] OTHER -> "missing"

(* How many pieces a client is sent: the info page is five.                *)
PageLength == IF plugin = "dummy" THEN 0 ELSE IF Kind = "info" THEN 5 ELSE 1

Answered == plugin = "fcgi" /\ req = "freed" /\ logged # NULL

Bodies(items) == Cardinality({i \in DOMAIN items : items[i] = Body})

(* A client that is answered is sent the page that its path asks for, all  *)
(* of it, with its status and type, whichever thread finishes the request; *)
(* the head is the page's unless memory ran out (containers/info/worker.c: *)
(* 96, request.c:81).                                                      *)
PageAnswers ==
    Answered =>
        /\ Bodies(out) = PageLength
        /\ ~starved =>
            /\ ValuesSent("status") = <<IF Kind = "missing" THEN NotFound ELSE Ok>>
            /\ ValuesSent("content-type") = <<IF Kind = "css" THEN Css ELSE HtmlUtf8>>

(* The access log has the size of the answer that was sent and, unless     *)
(* memory ran out, its status (worker.c:246).                              *)
LogTrue ==
    Answered =>
        /\ logged.bytes = Bytes(out)
        /\ ~starved => ValuesSent("status") # <<>> /\ logged.status = CodeOf[ValuesSent("status")[1]]

Stage ==
    CASE req = "none" -> "none"
      [] req = "pending" -> "asked"
      [] req = "freed" -> "finished"
      [] req = "live" /\ logged # NULL -> "logged"
      [] req = "live" /\ logged = NULL /\ wpc \in {"consume", "page"} -> "taken"
      [] req = "live" /\ logged = NULL /\ wpc \notin {"consume", "page"} /\ queued -> "queued"
      [] OTHER -> "accepted"

Exch == INSTANCE Exchange WITH stage <- Stage, sent <- Bodies(out), whole <- PageLength

(* A request is finished once: by the listener if nobody has queued it, or *)
(* else by the last of the listener and the worker to release it, when it  *)
(* has been logged (worker.c:278, 284), which is after the last piece of   *)
(* the page was sent; and nothing is sent before a worker has taken it.    *)
ImplementsExchange == Exch!Spec

(* A client that has made a request, and that is alone in its host's pool, *)
(* has it finished, unless: it could not be acquired, and is left pending  *)
(* for ever (endpoint.c:158); its worker has no thread, because there was  *)
(* none to be had (worker.c:104) or because the thread ended on a spurious *)
(* wakeup after the worker was chosen (worker.c:306); or the info page has *)
(* asked a dummy request for its environment (info.c:87), which is the one *)
(* method that is called and missing.                                      *)
EventuallyFinished ==
    req = "pending" ~> \/ req = "freed"
                       \/ req = "pending" /\ lpc = "ended"
                       \/ queued /\ wpc \in {"nothread", "exited"}
                       \/ crashed /\ plugin = "dummy" /\ Head(calls).method = "environment"
=============================================================================
