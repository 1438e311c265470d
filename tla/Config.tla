------------------------------- MODULE Config -------------------------------
(***************************************************************************)
(* Startup and configuration (main.c, config.c, log.c, the dictionaries    *)
(* of iniparser).  Main reads the file, merges defaults into it, loads     *)
(* modules and makes a host of each container section, while the socket    *)
(* thread and the listeners' threads log and create workers.               *)
(*                                                                         *)
(* All of them fold keys to lower case in the one static buffer of strlwc  *)
(* and read the result in a second step.  A thread's calls of the          *)
(* dictionary are a list, each call a step that folds and one that uses    *)
(* the key.  The workers' threads, which only log, are left out.           *)
(*                                                                         *)
(* Text is a sequence of names: a key is its parts between colons.         *)
(***************************************************************************)
EXTENDS Integers, Sequences, FiniteSets, FiniteSetsExt, SequencesExt

CONSTANTS
    Names,      \* parts of keys and values
    Lower,      \* their lower-cased form
    Files,      \* what containerware.conf may hold; NULL if it cannot be read
    Hostname,
    MaxHosts,   \* bound: hosts
    NULL,
    Faults      \* "memory": a first dictionary may not be made

Text == Seq(Names)

(* A line is a section's header, with value NULL, or one of its settings.  *)
Line == [section : Text, name : Text, val : Text \cup {NULL}]

Instance == <<"global", "instance">>
Cluster == <<"global", "cluster">>
Module == <<"modules", "module">>
Private == <<"private">>
Localhost == <<"localhost">>
Garbled == <<"garbled">>
Fields == {"name", "instance", "cluster"}

(* What the code says itself, which is in lower case. *)
OwnNames == Fields \cup {"global", "modules", "module", "container", "private",
                         "localhost", "default", "garbled", "handler", "minworkers", "endpoint"}

ASSUME NamesAssumption ==
    /\ OwnNames \subseteq Names
    /\ Lower \in [Names -> Names] /\ \A n \in Names : Lower[Lower[n]] = Lower[n]
    /\ \A n \in OwnNames : Lower[n] = n
    /\ Hostname \in Text /\ NULL \notin Text
(* A section lasts until the next one begins. *)
ASSUME FilesAssumption ==
    /\ Files \subseteq Seq(Line) \cup {NULL}
    /\ \A f \in Files \ {NULL} : \A i \in DOMAIN f :
        f[i].val # NULL => i > 1 /\ f[i - 1].section = f[i].section
ASSUME HostsAssumption ==
    /\ MaxHosts \in Nat
    /\ \A f \in Files \ {NULL} :
        Cardinality({f[i].section : i \in DOMAIN f} \ {<<"global">>, <<"modules">>}) <= MaxHosts
ASSUME FaultsAssumption == Faults \subseteq {"memory"}

Defaults == <<"defaults", 0>>
Overrides == <<"overrides", 0>>
File == <<"file", 0>>
Section == <<"section", 0>>     \* the dictionary that is handed to init_host_
HostDict(n) == <<"host", n>>
Dicts == {Defaults, Overrides, File, Section} \cup {HostDict(n) : n \in 1 .. MaxHosts}

Main == <<"main", 0>>
SocketThread == <<"socket", 0>>
Listener(n) == <<"listener", n>>
Threads == {Main, SocketThread} \cup {Listener(n) : n \in 1 .. MaxHosts}

ASSUME NullAssumption == NULL \notin Dicts \cup Threads

VARIABLES
    file,       \* what the file holds
    content,    \* the entries of each dictionary, in order
    parsed,     \* the section that the parser has read the header of
    defaults, overrides, config,    \* the pointers
    freed,      \* the dictionaries that have been deleted
    phase,      \* what main does when its calls are done
    todo,       \* for each thread the calls it is about to make
    at,         \* the dictionary that a thread's call refers to
    calling,    \* the threads that have folded a key and not used it yet
    buffer,     \* the key in the buffer of strlwc
    writer,     \* the thread that has put it there
    raced,      \* a key has been folded while another one was in use
    found,      \* what the inner call of config_get has returned
    log_lock,   \* the thread that holds it
    loaded,     \* the modules that have been loaded
    section,    \* the entry that config_foreach_container has come to
    hosts,      \* the sections that have become hosts
    info        \* what a thread's worker_populate_info_ has found

pointers == <<defaults, overrides, config, freed>>
lookups == <<at, calling, buffer, writer, raced, found, log_lock>>
results == <<loaded, section, hosts>>
vars == <<file, content, parsed, pointers, phase, todo, lookups, results, info>>

-----------------------------------------------------------------------------
(* Dictionaries. *)
Entry(k, v) == [key |-> k, val |-> v]

Folded(k) == [i \in DOMAIN k |-> Lower[k[i]]]

(* The first entry counts. *)
Places(entries, k) == {i \in DOMAIN entries : entries[i].key = k}

Get(entries, k, def) ==
    IF Places(entries, k) = {} THEN def ELSE entries[Min(Places(entries, k))].val

Replaced(entries, k, v) ==
    IF Places(entries, k) = {} THEN Append(entries, Entry(k, v))
    ELSE [entries EXCEPT ![Min(Places(entries, k))].val = v]

(* Faulty variant: a repeated key replaces, as it did before               *)
(* dictionary_add.                                                         *)
AddedOnce(entries, k, v) == Replaced(entries, k, v)

(* A repeated key of the file is a further entry. *)
Added(entries, k, v) == Append(entries, Entry(k, v))

(* The calls.  A line of the file, its syntax aside, is a header or a      *)
(* setting; one log line stands for several in a row.                      *)
Add(line) ==
    [kind |-> "add", dict |-> File, key |-> IF line.val = NULL THEN line.section ELSE line.name, val |-> line.val]
Set(d, k, v) == [kind |-> "set", dict |-> d, key |-> k, val |-> v]
Ask(d, k, then, otherwise) ==
    [kind |-> "ask", dict |-> d, key |-> k, then |-> then, otherwise |-> otherwise]
Inherit(d, k, global) == [kind |-> "inherit", dict |-> File, key |-> global, into |-> d, name |-> k]
Info(d, field) == [kind |-> "info", dict |-> d, key |-> <<field>>]
Listen(n) == [kind |-> "listen", dict |-> Section, key |-> <<"endpoint">>, host |-> n]
Log == [kind |-> "log", key |-> Instance]

DefaultOf == [name |-> <<"default">>, instance |-> Localhost, cluster |-> Private]

(* worker_populate_info_ *)
Populate(d) == <<Info(d, "name"), Info(d, "instance"), Info(d, "cluster")>>

(* config_copydict; config_load does the same with overrides. *)
Copy(d, entries) == [i \in DOMAIN entries |-> Set(d, entries[i].key, entries[i].val)]

NoInfo == [f \in Fields |-> NULL]

Init ==
    /\ file \in Files
    /\ content = [d \in Dicts |-> <<>>]
    /\ parsed = <<>>
    /\ \/ defaults = Defaults /\ overrides = Overrides
       \/ "memory" \in Faults /\ defaults \in {Defaults, NULL} /\ overrides = NULL
    /\ config = NULL
    /\ freed = {}
    /\ phase = "listen"
    /\ todo = [t \in Threads |->
                IF t = Main THEN <<Set(defaults, Instance, Hostname), Set(defaults, Cluster, Private), Log>>
                            ELSE <<>>]
    /\ at = [t \in Threads |-> NULL]
    /\ calling = {}
    /\ buffer = <<>>
    /\ writer = Main
    /\ raced = FALSE
    /\ found = [t \in Threads |-> NULL]
    /\ log_lock = NULL
    /\ loaded = <<>>
    /\ section = 0
    /\ hosts = <<>>
    /\ info = [t \in Threads |-> NoInfo]

-----------------------------------------------------------------------------
(* A thread folds a key.  Whoever has not used its key yet will find this  *)
(* one, or, if the two were folding at once, both may find a mixture.      *)
Fold(t, d, k) ==
    /\ calling' = calling \cup {t}
    /\ at' = [at EXCEPT ![t] = d]
    /\ writer' = t
    /\ buffer' \in {Folded(k)} \cup (IF writer \in calling THEN {Garbled} ELSE {})
    /\ raced' = (raced \/ calling # {})

Idle(t) == phase # "crashed" /\ todo[t] # <<>> /\ t \notin calling

BeginCall(t) ==
    /\ Idle(t) /\ Head(todo[t]).kind # "log"
    /\ Fold(t, Head(todo[t]).dict, Head(todo[t]).key)
    /\ UNCHANGED <<file, content, parsed, pointers, phase, todo, found, log_lock, results, info>>

InCall(t, kind) == phase # "crashed" /\ t \in calling /\ Head(todo[t]).kind = kind

(* The call returns, and more calls come before those that were to come.   *)
Finish(t) ==
    /\ at' = [at EXCEPT ![t] = NULL]
    /\ calling' = calling \ {t}
    /\ UNCHANGED <<file, pointers, phase, buffer, writer, raced, results>>

Return(t, more) == todo' = [todo EXCEPT ![t] = more \o Tail(@)] /\ Finish(t)

(* The parser, iniparser_load: a header is set, a setting added behind its *)
(* section's name.                                                         *)
FinishAdd(t) ==
    /\ InCall(t, "add")
    /\ LET val == Head(todo[t]).val
       IN  IF val = NULL
           THEN /\ parsed' = buffer
                /\ content' = [content EXCEPT ![File] = Replaced(@, buffer, NULL)]
           ELSE /\ content' = [content EXCEPT ![File] = Added(@, parsed \o buffer, val)]
                /\ UNCHANGED parsed
    /\ Return(t, <<>>)
    /\ UNCHANGED <<found, log_lock, info>>

(* iniparser_set; nothing happens without a dictionary. *)
FinishSet(t) ==
    /\ InCall(t, "set")
    /\ content' = IF at[t] = NULL THEN content
                  ELSE [content EXCEPT ![at[t]] = Replaced(@, buffer, Head(todo[t]).val)]
    /\ Return(t, <<>>)
    /\ UNCHANGED <<parsed, found, log_lock, info>>

(* iniparser_getstring where what comes next depends on its answer. *)
FinishAsk(t) ==
    /\ InCall(t, "ask")
    /\ Return(t, IF Get(content[at[t]], buffer, NULL) = NULL THEN Head(todo[t]).otherwise
                                                         ELSE Head(todo[t]).then)
    /\ UNCHANGED <<content, parsed, found, log_lock, info>>

(* init_host_ sets what config_get has found. *)
FinishInherit(t) ==
    /\ InCall(t, "inherit")
    /\ LET call == Head(todo[t])
       IN  Return(t, <<Set(call.into, call.name, Get(content[at[t]], buffer, NULL))>>)
    /\ UNCHANGED <<content, parsed, found, log_lock, info>>

(* A lookup of worker_populate_info_. *)
FinishInfo(t) ==
    /\ InCall(t, "info")
    /\ LET field == Head(todo[t]).key[1]
       IN  info' = [info EXCEPT ![t][field] = Get(content[at[t]], buffer, DefaultOf[field])]
    /\ Return(t, <<>>)
    /\ UNCHANGED <<content, parsed, found, log_lock>>

(* listener_add, if the section names an endpoint: its thread, if it can   *)
(* be created, logs and creates a worker.                                  *)
FinishListen(t) ==
    /\ InCall(t, "listen")
    /\ LET n == Head(todo[t]).host
       IN  IF Get(content[at[t]], buffer, NULL) = NULL THEN todo' = [todo EXCEPT ![t] = Tail(@)]
           ELSE \E started \in BOOLEAN :
                  todo' = [todo EXCEPT ![t] = <<Log>> \o Tail(@),
                                       ![Listener(n)] = IF started THEN <<Log>> \o Populate(HostDict(n)) \o <<Log>>
                                                        ELSE @]
    /\ Finish(t)
    /\ UNCHANGED <<content, parsed, found, log_lock, info>>

(* A log line takes the lock and shows config_get("global:instance"):      *)
(* before the configuration is there it asks the defaults first.           *)
FirstDictionary == IF config # NULL THEN config ELSE defaults

BeginLine(t) ==
    /\ Idle(t) /\ Head(todo[t]).kind = "log" /\ log_lock = NULL
    /\ log_lock' = t
    /\ IF FirstDictionary = NULL
       THEN found' = [found EXCEPT ![t] = Localhost] /\ UNCHANGED <<at, calling, buffer, writer, raced>>
       ELSE Fold(t, FirstDictionary, Instance) /\ UNCHANGED found
    /\ UNCHANGED <<file, content, parsed, pointers, phase, todo, results, info>>

(* What a deleted dictionary would say: anything.                          *)
AnswersOf(d, k, def) == IF d \in freed THEN {def, Garbled} ELSE {Get(content[d], k, def)}

EndLine(t) ==
    /\ log_lock' = NULL
    /\ found' = [found EXCEPT ![t] = NULL]
    /\ Return(t, <<>>)
    /\ UNCHANGED <<content, parsed, info>>

ShowConfigured(t) == InCall(t, "log") /\ at[t] = File /\ EndLine(t)

FindDefault(t) ==
    /\ InCall(t, "log") /\ at[t] = Defaults
    /\ \E v \in AnswersOf(at[t], buffer, Localhost) : found' = [found EXCEPT ![t] = v]
    /\ at' = [at EXCEPT ![t] = NULL]
    /\ calling' = calling \ {t}
    /\ UNCHANGED <<file, content, parsed, pointers, phase, todo, buffer, writer, raced, log_lock, results, info>>

(* Then config is asked, which may have been read before or be there now.  *)
ShowDefault(t) == Idle(t) /\ found[t] # NULL /\ EndLine(t)

AskConfig(t) ==
    /\ Idle(t) /\ found[t] # NULL /\ config # NULL
    /\ Fold(t, config, Instance)
    /\ UNCHANGED <<file, content, parsed, pointers, phase, todo, found, log_lock, results, info>>

(* A deleted dictionary may also end the process. *)
CrashOnFreed(t) ==
    /\ InCall(t, "log") /\ at[t] \in freed
    /\ phase' = "crashed"
    /\ UNCHANGED <<file, content, parsed, pointers, todo, lookups, results, info>>

ThreadStep(t) ==
    \/ BeginCall(t) \/ FinishAdd(t) \/ FinishSet(t) \/ FinishAsk(t) \/ FinishInherit(t) \/ FinishInfo(t)
    \/ FinishListen(t)
    \/ BeginLine(t) \/ ShowConfigured(t) \/ FindDefault(t) \/ ShowDefault(t) \/ AskConfig(t)
    \/ CrashOnFreed(t)

-----------------------------------------------------------------------------
(* Main, between two lists of calls. *)
MainAt(p) == phase = p /\ todo[Main] = <<>>

Calls(t, calls) == todo' = [todo EXCEPT ![t] = calls]

(* listener_init starts the socket thread, which writes one line; whether  *)
(* it could be created is not asked.                                       *)
StartSocketThread ==
    /\ MainAt("listen")
    /\ \/ Calls(SocketThread, <<Log>>)
       \/ UNCHANGED todo
    /\ phase' = "load"
    /\ UNCHANGED <<file, content, parsed, pointers, lookups, results, info>>

(* config_load; without a configuration main has nothing more to do. *)
LoadFile ==
    /\ MainAt("load")
    /\ IF file = NULL THEN phase' = "idle" /\ Calls(Main, <<Log>>)
       ELSE /\ phase' = "merge"
            /\ Calls(Main, [i \in DOMAIN file |-> Add(file[i])])
    /\ UNCHANGED <<file, content, parsed, pointers, lookups, results, info>>

(* Faulty variant: a default replaces what the file says. *)
DefaultCallAlways(e) == Set(File, e.key, e.val)

DefaultCall(e) == Ask(File, e.key, <<>>, <<Set(File, e.key, e.val)>>)

(* config is there from now on; overrides and defaults go into it. *)
Merge ==
    /\ MainAt("merge")
    /\ config' = File
    /\ IF overrides = NULL THEN phase' = "crashed" /\ UNCHANGED todo
       ELSE /\ phase' = "free"
            /\ Calls(Main, Copy(File, content[Overrides])
                           \o [i \in DOMAIN content[Defaults] |-> DefaultCall(content[Defaults][i])])
    /\ UNCHANGED <<file, content, parsed, defaults, overrides, freed, lookups, results, info>>

(* Faulty variant: config is deleted and not defaults. *)
DeletedWithConfig == {Overrides, File}

Deleted == {Overrides, Defaults}

(* Faulty variant: defaults is not reset. *)
FreeOverridesOnly ==
    /\ MainAt("free")
    /\ freed' = Deleted
    /\ overrides' = NULL
    /\ phase' = "modules"
    /\ Calls(Main, <<Log>>)
    /\ UNCHANGED <<file, content, parsed, config, defaults, lookups, results, info>>

FreeDictionaries ==
    /\ MainAt("free")
    /\ freed' = Deleted
    /\ overrides' = NULL /\ defaults' = NULL
    /\ phase' = "modules"
    /\ Calls(Main, <<Log>>)
    /\ UNCHANGED <<file, content, parsed, config, lookups, results, info>>

(* config_load_modules looks at one entry after the other. *)
NamesModule(e) == e.key = Module /\ e.val # NULL

Modules(entries) ==
    LET modules[i \in 0 .. Len(entries)] ==
            IF i = 0 THEN <<>>
            ELSE IF NamesModule(entries[i]) THEN Append(modules[i - 1], entries[i].val)
            ELSE modules[i - 1]
    IN  modules[Len(entries)]

LoadModules ==
    /\ MainAt("modules")
    /\ loaded' = Modules(content[File])
    /\ Calls(Main, IF loaded' = <<>> THEN <<>> ELSE <<Log>>)
    /\ phase' = "sections"
    /\ UNCHANGED <<file, content, parsed, pointers, lookups, section, hosts, info>>

IsContainer(e) == e.val = NULL /\ Len(e.key) > 1 /\ e.key[1] = "container"

(* The settings of a section: its key and a colon begin theirs. *)
Belongs(e, header) ==
    Len(e.key) > Len(header.key) /\ SubSeq(e.key, 1, Len(header.key)) = header.key

Rest(k, header) == SubSeq(k, Len(header.key) + 1, Len(k))

(* The calls that collect the settings of the section whose header is at   *)
(* place: those of its entries that come behind it, in order.           *)
OwnSettings(entries, place) ==
    LET header == entries[place]
        calls[i \in 0 .. Len(entries)] ==
            IF i = 0 THEN <<>>
            ELSE IF i > place /\ Belongs(entries[i], header)
            THEN Append(calls[i - 1], Set(Section, Rest(entries[i].key, header), entries[i].val))
            ELSE calls[i - 1]
    IN  calls[Len(entries)]

(* Faulty variant: what the section says is not asked. *)
InitHostInherits(d, name) ==
    <<Set(d, <<"name">>, name), Inherit(d, <<"instance">>, Instance), Inherit(d, <<"cluster">>, Cluster)>>

(* init_host_, before host_add, for the dictionary d. *)
InitHost(d, name) ==
    <<Set(d, <<"name">>, name),
      Ask(d, <<"instance">>, <<>>, <<Inherit(d, <<"instance">>, Instance)>>),
      Ask(d, <<"cluster">>, <<>>, <<Inherit(d, <<"cluster">>, Cluster)>>)>>

(* config_foreach_container: the next section's settings are collected.    *)
NextSection ==
    /\ MainAt("sections")
    /\ LET entries == content[File]
           next == {i \in section + 1 .. Len(entries) : IsContainer(entries[i])}
       IN  IF next = {} \/ Len(hosts) = MaxHosts
           THEN /\ phase' = "idle" /\ Calls(Main, <<Log>>)
                /\ UNCHANGED <<content, section>>
           ELSE /\ section' = Min(next)
                /\ content' = [content EXCEPT ![Section] = <<>>]
                /\ Calls(Main, OwnSettings(entries, Min(next)) \o <<Log>>
                               \o InitHost(Section, Tail(entries[Min(next)].key)))
                /\ phase' = "host"
    /\ UNCHANGED <<file, parsed, pointers, lookups, loaded, hosts, info>>

(* host_add: the handler is looked up, which may not be a container; the   *)
(* host gets a copy of the section's dictionary, its listener and, if the  *)
(* section says minworkers, a worker.                                      *)
Handler == <<Ask(Section, <<"name">>, <<>>, <<>>), Ask(Section, <<"handler">>, <<>>, <<>>)>>

AddHost ==
    /\ MainAt("host")
    /\ hosts' = Append(hosts, content[File][section].key)
    /\ LET n == Len(hosts) + 1
       IN  Calls(Main, Handler \o <<Log>> \o Copy(HostDict(n), content[Section])
            \o <<Ask(HostDict(n), <<"minworkers">>, <<Log>> \o Populate(HostDict(n)), <<>>), Log, Listen(n)>>)
    /\ info' = [info EXCEPT ![Main] = NoInfo]
    /\ phase' = "sections"
    /\ UNCHANGED <<file, content, parsed, pointers, lookups, loaded, section>>

HostFails ==
    /\ MainAt("host")
    /\ Calls(Main, Handler \o <<Log>>)
    /\ phase' = "sections"
    /\ UNCHANGED <<file, content, parsed, pointers, lookups, results, info>>

Next ==
    \/ \E t \in Threads : ThreadStep(t)
    \/ StartSocketThread \/ LoadFile \/ Merge \/ FreeDictionaries \/ LoadModules
    \/ NextSection \/ AddHost \/ HostFails

Spec == Init /\ [][Next]_vars

-----------------------------------------------------------------------------
Entries == [key : Text, val : Text \cup {NULL}]

(* Every variable keeps its type, and the three pointers point to their    *)
(* dictionary while it is there or nowhere (config.c, lines 82 to 107).    *)
TypeOK ==
    /\ content \in [Dicts -> Seq(Entries)]
    /\ freed \subseteq {Defaults, Overrides}
    /\ defaults \in {Defaults, NULL} \ freed /\ overrides \in {Overrides, NULL} \ freed
    /\ config \in {File, NULL} \ freed
    /\ parsed \in Text
    /\ at \in [Threads -> Dicts \cup {NULL}]
    /\ calling \subseteq Threads /\ writer \in Threads /\ buffer \in Text /\ raced \in BOOLEAN
    /\ found \in [Threads -> Text \cup {NULL}]
    /\ log_lock \in Threads \cup {NULL}
    /\ \A t \in Threads : found[t] # NULL => log_lock = t
    /\ info \in [Threads -> [Fields -> Text \cup {NULL}]]

(* What the file says, without dictionaries. *)
FullKey(line) == Folded(line.section) \o Folded(line.name)

Settings(Test(_)) == {i \in DOMAIN file : file[i].val # NULL /\ Test(file[i])}

FirstSetting(Test(_), def) == IF Settings(Test) = {} THEN def ELSE file[Min(Settings(Test))].val

LastSetting(Test(_), def) == IF Settings(Test) = {} THEN def ELSE file[Max(Settings(Test))].val

Global(k) ==
    FirstSetting(LAMBDA line : FullKey(line) = k,
          CASE k = Instance -> Hostname [] k = Cluster -> Private [] OTHER -> NULL)

Merged == file # NULL /\ phase \in {"modules", "sections", "host", "idle"}

(* What the configuration says of a key is the first the file says, else   *)
(* the default; as long as no two threads have met in strlwc.              *)
Precedence ==
    ~raced /\ Merged =>
        \A k \in {FullKey(file[i]) : i \in Settings(LAMBDA line : TRUE)} \cup {Instance, Cluster} :
            Get(content[File], k, NULL) = Global(k)

(* Every module that the file names is loaded, in its order: the sample    *)
(* configuration repeats the key.                                          *)
EveryModule ==
    ~raced /\ Merged /\ phase # "modules" =>
        LET lines == Settings(LAMBDA line : FullKey(line) = Module)
        IN  /\ Len(loaded) = Cardinality(lines)
            /\ \A i \in lines : loaded[Cardinality({j \in lines : j <= i})] = file[i].val

(* What a host's section sets, the last time it does; its name is that of  *)
(* the section, and instance and cluster are inherited.                    *)
HostSetting(s, k) ==
    IF k = "name" THEN Tail(s)
    ELSE LastSetting(LAMBDA line : Folded(line.section) = s /\ Folded(line.name) = <<k>>,
              CASE k = "instance" -> Global(Instance) [] k = "cluster" -> Global(Cluster) [] OTHER -> NULL)

Copied(n) == \A i \in DOMAIN todo[Main] : todo[Main][i].kind = "set" => todo[Main][i].dict # HostDict(n)

(* A host is configured by its own section and by no other, whatever the   *)
(* order of the sections and however often they begin.                     *)
HostSettings ==
    ~raced => \A n \in DOMAIN hosts :
        Copied(n) =>
            \A k \in {Lower[m] : m \in Names} :
                Get(content[HostDict(n)], <<k>>, NULL) = HostSetting(hosts[n], k)

Writes(t) == t \in calling /\ Head(todo[t]).kind \in {"add", "set"}

(* Only a log line of the socket thread, begun before the configuration    *)
(* was there, can read a dictionary that has been deleted (config.c:89),   *)
(* or one that another thread is writing to, which is config while         *)
(* defaults are merged into it (config.c:86).                              *)
UnsafeReadsConfined ==
    \A t \in calling :
        at[t] \in freed \/ (\E u \in Threads \ {t} : Writes(u) /\ at[u] = at[t]) =>
            /\ t = SocketThread /\ log_lock = t
            /\ at[t] = IF at[t] \in freed THEN Defaults ELSE File

(* worker_create is "thread-safe": the name, instance and cluster that it  *)
(* gives a worker are those of the worker's host.                          *)
InfoRight ==
    \A n \in DOMAIN hosts : \A t \in {Main, Listener(n)} : \A f \in Fields :
        (t = Main => n = Len(hosts)) =>
            info[t][f] \in {NULL, Get(content[HostDict(n)], <<f>>, DefaultOf[f])}
=============================================================================
