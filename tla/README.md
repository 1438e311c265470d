# ContainerWare in TLA+

ContainerWare is a small application server in C. Modules loaded at run time
supply *containers* (applications) and *endpoint servers* (FastCGI, a dummy).
Each `[container: ...]` section of the configuration becomes a *host* with a
pool of *worker* threads and one *endpoint* whose *listener* thread acquires
requests and routes them to the workers. This directory models the parts of it
where threads, failures and reference counts meet, checks them with TLC and
proves the most important facts with TLAPS.

    tlc -workers 2 -config Pool.cfg MCWorkerPool    # model-check one instance
    tlapm PtrListProofs.tla                         # check the proofs of a module

`PROJECT.json` lists the runs, what each definition models line by line, the
faulty variants that each property has been seen to catch, the findings and
the hazards the properties are for.

## 1. Inventory

| component (sources) | state | operations | interacts with | what makes it correct |
|---|---|---|---|---|
| worker pool (`worker.c`, `worker-thread.c`) | global list `workers`, `worker_next_id`; per worker: mutex and condition, `requests[32]`, `requestcount`, `current`, `state`; per host: `workers`, `active`, `maxchildren` | `worker_create`, `worker_locate`, `worker_queue_request`, `worker_request_`, the thread body | called by listener threads and main, calls back into the container; locks one worker or one list at a time | no lost wakeup; a request is on one queue once, in order, one reference per pointer; queue and pool limits; unique ids |
| routing, endpoint threads (`route.c`, `listener-endpoint-thread.c`) | the request in hand; the listener's mutex is held for the thread's life | process / acquire / route / release loop | endpoint plug-in, worker pool | every acquired request is queued or dropped, and its reference released once |
| hosts (`host.c`) | list of hosts; container, limits, configuration copy | `host_add`, `host_add_container`, `host_set_minworkers` | registry, worker pool | the container outlives the host; failure puts everything back |
| pointer lists (`ptrlist-impl.h`, instantiated five times) | `list`, `count`, `allocated`, rwlock | add, remove, iterate, with and without the lock | every registry and pool | exact count, an add finds room, iteration sees a stable list |
| registries (`server.c`, `container.c`) | two lists of named plug-ins | register, locate, create an endpoint | modules, hosts, listeners | a name means one plug-in for good; references exact |
| module loading (`module.c`, the plug-ins' `containerware_module_init`) | one API instance per module | create, register, release a plug-in | registries | a plug-in that failed to register is freed, a registered one is not |
| listeners (`listener.c`, `listener-socket-thread.c`) | list of listeners; endpoint, host, mode | `listener_add`, `_uri`, `_endpoint` | servers, threads | an endpoint nobody listens to is released, a running one is not |
| FastCGI plug-in (`endpoints/fcgi`) | endpoint: socket, pending FCGX request; request: refcount, headers, streams | process, acquire, read, header, write, close, release | listener and worker threads | acquired at most once; headers sent once, before the body; finished once, by the last holder |
| dummy plug-in (`endpoints/dummy`) | `acquired` flag | the same, on stderr | " | " |
| info container (`containers/info`) | worker object | loop: request, process, one of three pages | worker pool, request interface | every call it makes exists; the page is the one the path asks for; the loop ends when told to |
| request information, headers (`libcontainer/endpoint.c`) | path elements and an index; header table | init, consume, peek, set, send | endpoint plug-ins | consume and peek stay in bounds; a header is replaced or added as asked |
| configuration (`config.c`), log (`log.c`), dictionaries (`iniparser`) | `config`, `defaults`, `overrides`; a dictionary is entries in order; the static key buffer of `strlwc`; one log mutex | load, get, set, sections, copy | every thread | defaults fill in and never hide; a host gets its own section; no key of another thread is looked up; nothing deleted is read |
| startup (`main.c`) | none | the order of initialisations; one host per section | all | nothing is used before it is set up |
| reference counts (`libcontainer/refcount.c`) | a count and a mutex per object | addref, release | all | freed when the last pointer goes |

The hard behaviours are concurrency (listener, worker and main threads over
shared lists, with reads outside the mutexes), partial failure (allocation and
thread creation fail between two list insertions or two references), ordering
(the queue of a worker, the signal and the wait) and limits (queue, pool,
growing arrays). Nothing is persisted and nothing is sent between processes, so
crash recovery and unreliable delivery do not arise; nothing times out.

## 2. Plan

Modules, in the order they are written. Those marked + exist.

1. + `PtrList` (lists and their lock), refining + `ItemBag`; + `PtrListProofs`.
2. + `WorkerPool` (hosts, pool, routing, endpoint and worker threads), refining
   + `Dispatch` (a request is dropped or assigned to one mailbox, served in
   order); + `WorkerPoolInvariant`, + `WorkerPoolProofs`.
3. + `Registry` (modules, registries, hosts, listeners, endpoints and requests by
   their references); + `RegistryProofs`, + `RegistryRefsProofs` (the counts).
4. + `RequestPath` (splitting and decoding a path, against a reference
   definition) and + `FcgiRequest` (one FastCGI request: `consume`, the header
   table, the first `write`, `close`), refining + `HttpResponse` (the head of a
   response); + `FcgiRequestProofs`.
5. + `Config`: the order of main, the socket thread that starts before the
   configuration is loaded, `config_load` deleting `defaults` and `overrides`
   while `config_get` reads, the static buffer of `strlwc`; + `ConfigProofs`.
6. + `FcgiEndpoint` (the socket that a URI names) and + `InfoContainer` (one
   request on its way through a plug-in, a listener, a worker and a page), refining
   + `Exchange` (what a client is promised); + `InfoContainerProofs`.

Every safety property of the passing runs has its theorem; liveness is left to TLC.

## 3. The modules

### PtrList, ItemBag

One list and the threads that call it. `slots` is `list->list` with
`Len(slots) = allocated`, `count` is `list->count`, `writer` and `readers` are
the rwlock. A call takes the lock (`WrLock`, `RdLock`), does its work while it
holds it (`AddSlot`, `AddNoMemory`, `RemoveFound`, `RemoveAbsent`; the iteration
one slot at a time, because its callback is foreign code) and lets go of it.
Growth by `realloc` may fail. `ItemBag` is the abstract specification: how often
each item is in the bag; an iteration hands over what is in it.

### WorkerPool, Dispatch

A step is what one thread does between two points where another can observe or
change something.

* `pc[Main]`, `todo`, `launch`: the main thread in `host_add` and the loop of
  `host_set_minworkers`; its listeners start when the workers of their host have
  been launched.
* `pc[l]`, `lreq[l]`: the loop of an endpoint thread. `worker_locate` is several
  steps: `Locate` takes the read lock, `ScanCompare` and `ScanTake` read a
  worker's state and count without its mutex, twice, as the C code does, and
  `Decide` lets go of the lock.
* `Populate`, `Bump`, `Obtain`, `Attach`, `Spawn`: `worker_create`, split where
  the global id is read and written, where the lists change and where the thread
  starts. `Attach` waits for readers of the host's list.
* `Queue` is `worker_queue_request` under the worker's mutex, with its signal.
* `TakePending`, `Wait`, `CompleteLast`, `CompleteAndTake`, `WakeTake`,
  `WakeTerminate` are the paths through `worker_request_`. The condition variable
  is the pair of `wpc` values `waiting` and `woken`: a signal moves a waiting
  worker on and is lost otherwise.
* `CompleteAndTake` models what line 281 really does (section 6): the next thing
  handed out is `Wild`, the request released may be another one, and with long
  queues the structure's other fields are overwritten. The process may then die
  (`crashed`), and does when the container calls a method of what it was given.
* `Faults` names the failures a run allows. A request is its reference count and
  where it is; workers and requests are allocated from bounded sets.

`Dispatch` keeps only what is promised about requests: accepted once, dropped or
assigned to one mailbox, taken in order, one at a time. The mapping reads
`routing` off the requests in listeners' hands, `mailbox` and `serving` off
`requests` and `current`.

### Registry

The lives of containers, servers, endpoints and requests. Threads run lists of
jobs (load a module, set up a section); main is one such thread, and since
`server_register`, `container_register`, `container_locate` and `host_add` are
documented as thread-safe, two threads are checked. Registration is two steps,
`Scan` and `Insert`, because the code lets go of the lock between them. Every
failure path is there with what it releases. Listener and worker threads appear
as the references they take and drop (`AcquireRequest`, `FreeRequest`,
`SupplyWorker`). `StoredAs` is the 47-character limit of a stored name.

### FcgiRequest, RequestPath, HttpResponse

One request of the FastCGI plug-in in a worker's hands. Its container is foreign
code that calls the methods in any order, one at a time.

* `uri`, `params_array`, `current_array`: the REQUEST_URI and the two arrays
  that `cw_request_info_init` fills and `consume` moves elements between.
  `RequestPath` has the two loops (over the path, over a segment's bytes) as
  recursive functions, and beside them `ExpectedElements`, which says the same
  without a loop: a decoded segment is what is left of it without the digits of
  its escapes.
* `headers`, `status`: the table and its entry STATUS. `SetHeader` is
  `cw_request_headers_vset` and `cw_request_headers_set_multi`; `SetHeaderNoMemory`
  is the call in which `strdup` fails after the status has been stored, which the
  auxiliary `starved` remembers.
* `headers_sent`, `wbytes`, `out`, `open`: the flag, the counter, what has been put
  on the FCGX stream, and whether the stream still takes anything. `FirstWrite`
  sends the head in whatever order the dictionary lists its keys (`KeyOrders`).
* `Heads`: `cw_request_headers_send` tests `r`, which nothing has set if the first
  key listed has no values, so that either outcome of the test is possible.

`HttpResponse` is what the interface promises about the head: it can be changed
until it is sent, is sent once and is then fixed. The mapping reads its `fields`
off `headers`, `head` off `out`, and `answering` off `headers_sent`. What the code
adds to the promise is named there: a head can get lost, as a whole, on a closed
stream or after a field has been removed.

### Config

Main from `config_init` to its idle loop, with the socket thread and the thread
of each host's listener beside it.

* A dictionary is the sequence of its entries: `Get` takes the first of a key,
  `Replaced` is `dictionary_set`, `Added` is `dictionary_add`. Text is a sequence of
  names, a key's parts between its colons; `Lower` folds a name.
* `todo[t]` is the list of dictionary calls and log lines that thread `t` will
  make. Each call is two steps: `Fold` writes the lower-cased key into the one
  `buffer` of `strlwc`, and a `Finish...` action uses what the buffer holds then. If
  two threads fold at the same time, the buffer may also hold a mixture
  (`Garbled`). `at` is the dictionary that the call was made for.
* `phase` is what main does when its list is done: `StartSocketThread`, `LoadFile`,
  `Merge`, `FreeDictionaries`, `LoadModules`, then for each section `NextSection`
  and `AddHost` or `HostFails`. The calls of `init_host_` and `host_add` are
  `InitHost`, `Handler` and `Copy`.
* A log line holds `log_lock` and asks `config_get` (`BeginLine`, `ShowConfigured`).
  Before the configuration is there it asks `defaults` first and `config` then
  (`FindDefault`, `ShowDefault`, `AskConfig`); C leaves open whether `config` is
  read before or after the inner call. One line stands for several in a row.
* The auxiliary `raced` remembers that two threads have met in the buffer: from then
  on any setting may be wrong, and the properties about what the configuration says
  are about the time before.
* Deleted dictionaries (`freed`) keep their pointers in the threads that have
  read them; reading one gives anything or ends the process.

Apart from its key a dictionary call is one step: a reader that meets
a dictionary while it grows is not modelled. Nor are the threads of the workers,
which do nothing here but log, as listeners do.

### InfoContainer, Exchange, FcgiEndpoint

`InfoContainer` composes what the other modules look at one by one: a request from
the client to the access log, behind either plug-in.

* `plugin` is chosen at the start, with the environment that the client sends
  (`envp`) and the endpoint's URI. `Specifier` (`FcgiEndpoint`) is the path or
  host and port that the fcgi plug-in opens, or nothing.
* `lpc`: the thread of the listener. `Locate` and `CreateWorker` find or make the
  worker for the request and `Queue` queues it, which may be later: the thread of a
  worker that was chosen may have ended by then, and a worker that was made may
  have no thread at all (`worker.c:104`). The request is queued all the same.
* `wpc` and `calls`: the worker. It takes what is queued when it looks or is woken
  (`Fetch`) and ends if it is woken for nothing (`SpuriousWakeup`,
  `WakeTerminate`); it chooses one of three pages by what `consume` returns and makes
  the calls of the page one by one. When it asks for the next request it logs the
  one that is done (`LogRequest`), takes it off the queue and releases it
  (`Complete`), while the listener may be releasing its own reference.
  `Provided` are the methods of the plug-in's interface.
* `req`, `refs`: pending in the endpoint, live with its reference count, freed.
  The thread that drops the last reference finishes the FCGX request, which
  sends what is left. Here a `Close` of `FcgiRequest` stands for it.
* The variables of `FcgiRequest` are those of the one request, and exist from the
  start; its actions are the effects of the calls. So a step of the composed
  system is a step of `FcgiRequest` or leaves it alone, and what holds of any
  container holds of this one. The dummy's requests keep no state.

`Exchange` is what one client is promised, without threads and references: its
request is accepted, queued, taken by one worker, which sends the pieces of the
answer; it is logged when the answer is whole and finished once, after that, or else
before it was queued. `Stage` reads how far the request has come off `req`, `logged`,
`wpc` and `queued`. That a finish comes once and never before the log depends on
the two references that two threads drop in any order, and that the log comes after
the last piece depends on the calls of the page.

The host's pool is reduced to the one request's view of it: an idle worker, a new
one, or none. Other requests, for which its worker may be busy, are in `WorkerPool`.
One `puts` in a page stands for several in a row. Text lengths that liburi reports are
taken to count the terminator, and to be one for a missing part.

Faulty variants (operators whose comment starts "Faulty variant") are not part of
any specification: replacing the definition below them shows that a property can
fail.

## 4. The runs

| run | instance | shows |
|---|---|---|
| ptrlist | 2 threads, 2 items, blocks of 2, 4 slots | growth happens twice, failed growth, removal in the middle, an item twice in the list |
| pool | 1 host, 1 listener, 2 workers, 3 requests, maximum 1, queues of 2; every fault, fair threads | a worker created on demand, a second one while the first has not started or has ended, a queue that fills and a request that is refused; references, order and wakeups while anything fails; served, dropped, or stuck on a worker without a thread |
| pool_shared | 2 hosts, 2 listeners on the first, a negative minimum for the second, 4 workers, 2 requests, maximum 1 | concurrent scans and creations on one list, hosts that do not mix while main still launches |
| pool_live | 3 requests, 3 workers, maximum 3, no faults | routing returns, every acquired request is served, and none queues behind another while the host may have one more worker |
| info_container | either plug-in, 9 environments, 3 endpoint URIs, one request; creating, opening, accepting, routing, threads and memory may fail, and threads wake up for nothing | the request is there while it is used; the page that the path asks for arrives whole, sent by one worker; it is logged then, truly, and finished once; every request is finished but for the named cases |
| registry | 2 threads, 2 containers of one name, one overlong name, 2 endpoints | references through all failure paths, bindings under the registration race |
| fcgi_request | 3 headers of at most 2 of 3 values, 2 body writes, 2 URIs, memory may fail | elements of a path, the header table and the number beside it, the head that is sent and the bytes counted |
| config | 4 files, at most 2 hosts, a dictionary may not be made | precedence of settings and defaults, modules, sections and hosts; the one log line that reads a dictionary that is deleted or being written |
| pool_hands_wild, pool_lost_request, pool_ids, config_race | the smallest instances | the findings of section 6 |

The bounds: in pool, three requests and a maximum of one worker give one request
being served, one queued behind it and one that must be placed; the second worker
structure is for the one that is created while the first cannot be chosen (it is
starting, has no thread or has ended), and for an allocation that failed. Queues
of two (instead of 32) are filled by three requests, and would be overrun without
the test. Main has no workers to launch in pool; it launches the maximum in
pool_shared. Two threads per
lock suffice for the races here, which are between pairs of steps. Workers and
requests are interchangeable, and symmetric in pool_shared and pool_ids, which check no
liveness. In
pool_live there are as many workers to be had as requests, because a request that
queues behind another is lost to the first finding.

Fairness (`FairSpec`) is weak fairness of each thread's own steps: the scheduler
runs every thread that can go on. None is assumed of endpoints, which hand over
requests when clients send them, of failures, or of spurious wakeups.

In fcgi_request one URI is missing and the other has an encoded slash, an escape
cut short by the end of its segment, empty segments, an encoded percent sign
before digits, an encoded NUL and a query. Two values are the least with which
replacing, appending and removing differ, and a third header beside the two that
are always there can be removed and be listed before or behind them. `MaxValues`
and `MaxBody` are the bounds in the guards.

The files of config: one that cannot be read; one that repeats a setting, a
module in another case and a section; one in which a section's name begins with
another's, before and after it; one with two hosts, the second with a worker and a
listener. These are the cases that the loops over entries distinguish, and two
sections suffice for one to leak into the other.

info_container has one request: what several do to a pool is in `WorkerPool`, and
two requests share no state of `FcgiRequest`. REQUEST_URI is missing, given once,
or given twice behind an entry without `=`; it is empty, names the style sheet
plainly or by an escape, or something else. The endpoints name a file, a host and
port behind a path of slashes, and neither. `MaxValues` is one, for pages replace
headers, and `MaxBody` the number of pieces of the longest page. Its fairness
(`InfoFairSpec`) is weak fairness of the listener's steps behind `Process` and of
the worker's steps: no client has to come.

`CHECK_DEADLOCK FALSE` stands in config and config_race, where main idles for
ever in the end and the requests that listeners go on to serve are not modelled,
and in info_container, which stops when its request is done, its listener has
ended or the process has crashed.

`EventuallySettled` and `EventuallyServed` speak of requests whose routing starts
(`JustAcquired`).

## 5. The proofs

| theorem | property | holds for every |
|---|---|---|
| `PtrListProofs!TypeCorrect`, `CountIsExact`, `AddFindsRoom`, `IterationIsStable` | `TypeOK`, `CountExact`, `NeverFull`, `StableIteration` | set of threads and items, block size |
| `PtrListProofs!ListIsABag` | `ImplementsBag`: the list refines `ItemBag` | " |
| `WorkerPoolProofs!TypeCorrect`, `WakeupsArrive`, `QueuesHaveRoom` | `TypeOK`, `NoLostWakeup`, `QueueBounded` | set of hosts, listeners, workers, requests, limits and faults |
| `WorkerPoolProofs!NothingDangles`, `HostsKeepApart` | `NoDangling`, `HostsApart` | " |
| `WorkerPoolProofs!ReferencesExact`, `ServesTheHead` | `RefsExact`, `ServingHead` | " |
| `WorkerPoolProofs!PoolImplementsDispatch` | `ImplementsDispatch`: the pool refines `Dispatch` | " |
| `WorkerPoolProofs!QueuesWhenFull` | `QueueOnlyWhenFull`, which is about pools with one listener per host | " |
| `WorkerPoolProofs!IdsCollideAtCounter` | ids in use differ unless two threads have met between the copy of `worker_next_id` and its increment (`TwoAtCounter`) | set of hosts, listeners, workers, requests, limits and faults |
| `RegistryProofs!TypeCorrect`, `BindingsStable`, `HostsConfigured` | `TypeOK`, `BindingStable`, `HostsAsConfigured` | set of threads, jobs, plug-ins, names and failures |
| `RegistryRefsProofs!ReferencesExact`, `NothingDangles` | `RefsExact`, `NoDangling` | " |
| `ConfigProofs!TypeCorrect`, `ReadsConfined` | `TypeOK`, `UnsafeReadsConfined` | set of names, files, failures, number of hosts |
| `ConfigProofs!PrecedenceHolds`, `ModulesLoaded` | `Precedence`, `EveryModule`, for files without a section that has the name of a setting (`SettingsVisible`) | " otherwise |
| `ConfigProofs!HostsGetTheirs` | `HostSettings`, for such files in which the name of a setting has no colon (`SimpleNames`) | " otherwise |
| `FcgiRequestProofs!TypeCorrect`, `StatusCorrect` | `TypeOK`, `StatusAgrees` | set of headers, values, URIs and failures |
| `FcgiRequestProofs!BytesCounted`, `StatusLineSent` | `BytesExact`, `OneStatusLine` | " |
| `FcgiRequestProofs!RequestImplementsResponse` | `ImplementsResponse`: the request refines `HttpResponse` | " |
| `FcgiRequestProofs!PathIsRight` | `PathElements` | " and URI of any length |
| `InfoContainerProofs!InfoTypeCorrect` | `InfoTypeOK` (no run) | set of environments, endpoints, headers and failures |
| `InfoContainerProofs!RequestIsHeld` | `RequestHeld` | " |
| `InfoContainerProofs!ContainerImplementsExchange` | `ImplementsExchange`: listener, worker and pages refine `Exchange` | " |
| `InfoContainerProofs!ContainerStatusCorrect` | `StatusAgrees`, of the composed system | " |
| `InfoContainerProofs!AnswersArePages`, `LogIsTrue` | `PageAnswers`, `LogTrue` | " |

`RegistryRefsProofs!CountsInvariant`, `ConfigProofs!CallsInvariant`,
`ConfigProofs!SaysInvariant` and `ConfigProofs!HostsInvariant` are the inductive
invariants of these modules, stated as theorems of their own.

**PtrList.** The invariant adds to the types what the lock means (a writer is
alone, and a thread inside a call holds it), that the argument of a call is an
item, that the count is the number of used slots, and that a thread about to add
has room. `RemoveFound` and `AddSlot` need the cardinality facts of the lemmas
`StoreSlot` and `GrownFacts`. The refinement counts the places of an item
(`Places`): storing in a free slot adds one, clearing takes one away, passing a
slot hands its item over.

**WorkerPool** (`WorkerPoolInvariant`). None of the properties is inductive. The
invariant `IInv` has seven parts:

* `TypeOK`;
* `CtrlInv`: who can be where, and an iteration stays within its list;
* `StartInv`: the listeners of a host still to be created are not running, so that
  resetting a host disturbs nobody;
* `HandInv`: a worker in the making is in one thread's hands, and not yet in a
  list (`attach`) or already in the thread's host's list (`spawn`); a worker that a
  scan has remembered is in the list of that listener's host;
* `ListInv`: listed workers exist, lists of two hosts are disjoint, `active` is the
  length;
* `WorkerInv`: what `state` and `current` are at each point of a worker's thread;
  a waiting worker has nothing pending;
* `RequestInv`: a request is fresh, in one listener's hands, or in a queue once,
  and in both only between `Queue` and `Release`.

Each part has a preservation lemma that goes through the actions; frame lemmas
cover the steps that leave it alone. `RefsExact` and `ServingHead` need one more
invariant, `RefsInv`: until a worker has been handed a wrong pointer, a count is
one for a queue plus one for a listener. The positions of a request in all queues
are one or none by `RequestInv`, which turns that sum into the cardinalities of
`RefsExact`. The refinement maps `Acquire` to `Accept`, `Queue` to `Assign` (or,
for a request that does not fit or has no worker, to `Drop`), a failed
`worker_create` to `Drop`, `TakePending` and `WakeTake` to `Take`, the completions
to `Complete`, and everything else to a stutter.

`QueuesWhenFull` is about a scan that reads counts without their mutexes. What
makes it true (`FullInv`) is that with one listener per host nobody else adds to
the queues that it scans: a count that has been read can only have fallen since,
so that the worker chosen has at most the count remembered for it, and a listener
that queues behind another request has seen a full host. Workers in the making are
empty.

`IdsCollideAtCounter` is about what `UniqueIds` says and the code does not keep (section
6). It states where it goes wrong: as long as no two threads have been between the
copy of `worker_next_id` and its increment at once (`TwoAtCounter`), for any number
of hosts and listeners, and whatever fails, the ids in use differ. The invariant
`IdInv` says so of the workers in lists and of those in the making together
(`IdsApart`): each has an id below the counter, except for one that a thread has
just copied and not yet counted.

**Registry.** Beside the types, a thread's program counter tells what kind of
object it has in hand (`ThreadInv`), and what `host_add` has located is still what
the name is bound to (`LocatedInv`). The core is that `Insert` appends to a list
that is searched from its head: a binding, once there, is never hidden. This holds
although two threads can both pass the check for duplicates (section 6, last
paragraph).

`RInv` (`RegistryRefsProofs`) adds the counts. The pointers to an object are counted
in two parts: what registries, hosts, endpoints and listeners refer to (`Owed`), and
what threads have in hand (`Claims`, twice for a thread that is inserting, which
holds its own reference and the one that the list is to get). An action moves
references between the parts or takes and drops one, and a freed object has none
(`FreedInv`), which is `NoDangling` read backwards. That each set of holders is
finite (`CountFinite`) is part of the invariant: the number of threads is not
bounded, but only finitely many refer to one object.

**Config.** `IInv` says which calls each thread may have before it while main is in
a phase (`PhaseOK`, `TodoOK`): it sets defaults before there is another thread,
reads the file and merges while only the socket thread runs, and writes to nothing
but the dictionaries of sections and hosts from then on. A listener reads its
host's dictionary, and starts when main is done with it (`ListenLast`, `NoSet`). The
log lock (`CallOK`) keeps the one line that asks `defaults` apart from the others.

`SayInv` says what the dictionaries hold, until two threads have met in the buffer.
A thread that calls alone finds its key there (`KeyInv`). While main reads
(`MergeSays`), the entries of the file's dictionary are the lines read so far, among
headers of sections: `Holds` states this by an increasing map from lines to
entries, so that the first entry of a key is its first line. Merging adds the two
defaults one by one (`FreeSays`), and only where the file says nothing. `Precedence`
is then read off. For `EveryModule` the list that a recursion over the entries
collects is compared with the one over the lines: both are indexed by rank
(`Rank`, `Lists`), and the map preserves ranks (`RanksAgree`). The hypothesis
`SettingsVisible` is needed: a section's header is an entry of its own, which hides
a setting of the same name (section 6).

`HostInv` follows the settings into the dictionaries of sections and hosts. In the
file's dictionary they stand behind the one header of their section (`SectionsSo`),
so that the last entry of a section with a given name is that of its last line
(`OwnLast`). Main has a list of calls still to be made; `FinalSays` is what a key will
mean after all of them, and a call that is made leaves it as it is. `Prepared` says
how far `init_host_` has come with a section's dictionary, and copying it to the host
gives what `HostSettings` asks for. `SimpleNames` is needed: the parser accepts a
colon in a name (`iniparser.c:581`), so `x:a = ...` in `[container:A]` is found as
setting `a` of `[container:A:x]`. TLC finds `HostSettings` violated at once with a
file that has both.

**FcgiRequest.** `StatusAgrees` follows from the shape of the table: until memory
has run out, the entry of "status" exists and has one value, and only a call for
that key changes it or the number, and changes both.

`StreamInv` is the shape of table and stream: each header is under its own key and
finitely many are present (`Table`), nothing is sent before the head
(`NothingBefore`), headers are sent before everything else (`HeadersFirst`), with
one Status line unless it was taken out (`HeadIntact`). The bytes of a sequence
(`Bytes`, a recursive function) are the sum of its parts (`Sums`), and the head lists each
present key once whatever the order, so its lines of one name are the values in the
table. For the refinement, those values are what `head` is mapped to; setting maps
to setting, the first write to the sending or the loss of the head.

`PathIsRight` proves the two loops over a URI equal to a definition without loops, for
URIs of every length. A function that recurses on what is left of its argument is
unfolded by the lemmas on well-founded recursion (`Solves`, `Satisfies`: two functions
that satisfy the equations agree up to each length). For each loop an increasing
list of positions is kept: the bytes written are those at these positions
(`Spells`), which are all but the digits of escapes, and the segments end where
slashes are (`EndsAt`, `Pieces`). A set of positions has one increasing list, so
the definitions agree. The state's part, `PathInv`, is that consumed and left
elements together are the array that the URI was split into.

**InfoContainer.** `RequestHeld` is inductive once it is known that a request about
to be routed is not in the queue already (`Unrouted`): otherwise routing would count
a third reference. What is proved of `FcgiRequest` is carried over by the lemma
`ContainerUsesRequest`, which needs that what a page asks for is a call `FcgiRequest` knows, with a name and a value if it sets a header (`CallsMade`), which
holds of the three pages (`PagesProper`) and of what is left of them (`CallsLeft`);
each call is then a step of the request or none (`EffectIsAStep`), and so is a
release. `ContainerStatusCorrect` is `StatusCorrect` carried over.

So are the invariants of the request (`Background`), on which `PageAnswers` and
`LogTrue` rest. `PageInv` follows the one request through the system: REQUEST_URI is the
last of its name in the environment (`Asked`); until a page begins, the table and
the stream are as they were made (`Untouched`); while it runs, what has been sent and
what is left of the page add up to the whole page, and the headers are set so far
or still to be set (`Progress`); nothing changes when it is logged (`Frozen`), and a worker
that has yet to complete a request has logged it (`Settled`).

`ContainerImplementsExchange` reads the stages off these: `Acquire` is an acceptance
because a fresh request is neither queued nor logged, `Queue` and `Fetch` find it
accepted and queued because what is logged stays out of the queue, a call sends a
piece only while `Progress` leaves one to be sent, logging finds the sum complete, and
the release that finds one reference finds the request logged, or never queued.

The theorems use the assumptions that the modules state about their constants,
which TLC evaluates in each run, and no others. Hosts of different sections are
distinct objects (`HostsAssumption`), because each section allocates its own; the
limits `MaxChildren` and `QueueAlloc` are positive; model values that stand for
different kinds of things differ.

Checked by TLC only: liveness under fairness (`RoutingReturns`, `EventuallyServed`,
`EventuallySettled`, `EventuallyFinished`), which is out of reach of the provers, as
is ENABLED. The findings are runs that
violate a property, for which there is nothing to prove.

## 6. Findings

* **A completion corrupts the worker** (`worker.c:281`). `memcpy(&me->requests,
  ...)` overwrites the pointer field and not the array. With one more request
  pending, the next call hands out the first word of the next request: its method
  table. Run pool_hands_wild.
* **A spurious wakeup ends a worker** (`worker.c:305`). The wait is not in a loop
  and a wakeup without a request means "terminate". A request on its way to that
  worker is never processed. Run pool_lost_request.
* **Two workers get one id** (`worker.c:202`). `worker_next_id` is copied and
  incremented without a lock by whichever thread creates a worker, main or any
  listener. Two listeners of two hosts do so at once. Run pool_ids; nothing
  but such a meeting makes two ids equal (`IdsCollideAtCounter`).
* **A worker gets another setting** (`worker.c:198`). `worker_populate_info_` runs
  on listener threads and looks up name, instance and cluster through the static
  buffer of `strlwc`, as do main and every log line. Its key is overwritten between
  folding and searching, and the worker is given a default or another setting. Run
  config_race. The same race reaches everything else that is looked up; the
  properties of the run config hold until it has happened.

Passing runs show more, where a property says that nothing worse happens:

* The info page calls `environment()` of a dummy request, which has none
  (`containers/info/info.c:87`, `endpoints/dummy/request.c:37`): the first request that
  the dummy endpoint hands over ends the process. Run info_container; no other method
  is called and missing (`EventuallyFinished`).
* When `request_create_` fails, the listener's thread ends and the accepted FCGX
  request stays in the endpoint, its client waiting (`endpoints/fcgi/endpoint.c:158`).
  Run info_container. `EventuallyFinished` names this case, the crash above, and the
  two of the pool, in which a request stays queued: its worker never got a thread,
  for `worker_create` does not ask (`worker.c:104`), or its thread ended on a
  spurious wakeup after the worker was chosen (`worker.c:306`; run
  pool_lost_request). A request alone in its pool is finished otherwise.
* The socket thread's first log line can read `defaults` after `config_load` has
  deleted it (`config.c:91`), or `config` while it is written (`config.c:86`). Run
  config; no other thread and no later line can (`UnsafeReadsConfined`).

Seen while reading, without a run: the specifier of a socket is freed before the failure to open it is
logged (`endpoints/fcgi/endpoint.c:61`); two registrations of one name both succeed when
they meet between the check and the insertion, which are two holds of the lock
(`container.c:42`, `server.c:42`; what still holds then, that the first entry counts
for good, is checked and proved); the parser forgets a syntax error when a
later line is right (`iniparser.c:698`); a name of 48 characters or more registers and
is never found; `mininstances` in the sample configuration is read as
`minworkers` (`host.c:94`); `worker_release_` of the info container counts up;
the end of an endpoint thread is never recorded in `state`; the FCGX_Request of a
finished request is not freed; `cw_request_headers_send` reads `r` before it is
set when the first header listed has no values (`libcontainer/endpoint.c:238`);
`header` reports success for a header that the table refused (`request.c:159`);
`peek` looks at the elements consumed and not at those left
(`libcontainer/endpoint.c:377`); a section that has the name of a setting, such as
`[global:instance]`, hides the setting or is overwritten by it, because the parser
enters a section as a key without a value (`iniparser.c:698`); a failing `strdup` leaves the new number beside
the old Status header.

## 7. Not modelled

The syntax of the INI file, the growth and hashing of dictionaries (vendored)
and races inside them, the debug console (not built), libship
(empty), the text of pages and log lines, the parsing of URIs (liburi) and the FastCGI
library, `dlopen`, and `peek`, which nothing calls. A listener's `state` and the end of
its thread, which line 63 of `listener-endpoint-thread.c` overwrites, are read by
nobody. Listeners of mode EM_SOCKET: no plug-in has that mode and the
thread that would serve them is a stub. The strings of a worker's info outside `Config`: nothing
depends on them. Memory is assumed to be sequentially consistent: the unlocked
reads of `worker_locate` may see any state in which the workers' mutexes are free
or not, but not values older than that.
