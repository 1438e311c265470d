---------------------------- MODULE ConfigProofs ----------------------------
(***************************************************************************)
(* Proofs about Config, for any names, files, numbers of hosts and         *)
(* failures: the types, that only the socket thread can read a dictionary  *)
(* that main deletes or writes to, what the configuration says of each key,*)
(* that every module it names is loaded, and that a host has the settings  *)
(* of its own section.                                                     *)
(*                                                                         *)
(* What makes the reads safe is who refers to which dictionary while main  *)
(* does what, so the inductive invariant says which calls each thread may  *)
(* have before it in each phase of main.  A second one, in the second half,*)
(* says what the dictionaries hold meanwhile: the settings read so far, in *)
(* the order of the lines, among the headers of sections.  A third one, at *)
(* the end, says what sections and hosts are given when main's calls have  *)
(* been made.                                                              *)
(***************************************************************************)
EXTENDS Config, SequenceTheorems, FiniteSetTheorems, WellFoundedInduction, TLAPS

Vals == Text \cup {NULL}
HostDicts == {HostDict(n) : n \in 1 .. MaxHosts}

AddCalls == [kind : {"add"}, dict : {File}, key : Text, val : Vals]
SetCalls(D) == [kind : {"set"}, dict : D, key : Text, val : Vals]
InheritCalls == [kind : {"inherit"}, dict : {File}, key : Text, into : {Section}, name : Text]
InfoCalls(D) == [kind : {"info"}, dict : D, key : {<<f>> : f \in Fields}]
ListenCalls == [kind : {"listen"}, dict : {Section}, key : Text, host : 1 .. MaxHosts]
AskCalls(D, S) == [kind : {"ask"}, dict : D, key : Text, then : Seq(S), otherwise : Seq(S)]

(* What an answer may lead to, once the configuration is there.            *)
LaterCalls == {Log} \cup InheritCalls \cup InfoCalls(HostDicts) \cup SetCalls({Section})

(* Main sets defaults first, then reads the file and merges, and from then *)
(* on writes to the dictionaries of sections and hosts alone.              *)
FilePhases == {"load", "merge", "free"}
LatePhases == {"modules", "sections", "host", "idle"}

FirstCalls == {Log} \cup SetCalls({Defaults, NULL})
FileCalls == AddCalls \cup SetCalls({File}) \cup AskCalls({File}, SetCalls({File}))
LateCalls == LaterCalls \cup SetCalls(HostDicts) \cup ListenCalls
                \cup AskCalls({Section} \cup HostDicts, LaterCalls)

MainCalls(p) == IF p = "listen" THEN FirstCalls ELSE IF p \in FilePhases THEN FileCalls ELSE LateCalls

ListenerCalls(n) == {Log} \cup InfoCalls({HostDict(n)})

AllCalls == FirstCalls \cup FileCalls \cup LateCalls

(* A call in progress is the first of those to come; a log line has the    *)
(* lock, and but for the socket thread's it asks config if there is one.   *)
CallOK(t) ==
    /\ t \in calling => todo[t] # <<>>
    /\ t \in calling /\ Head(todo[t]).kind # "log" => at[t] = Head(todo[t]).dict
    /\ t \in calling /\ Head(todo[t]).kind = "log" =>
            /\ log_lock = t
            /\ at[t] \in {Defaults, File}
            /\ at[t] = Defaults /\ t # SocketThread => config = NULL
    /\ found[t] # NULL => todo[t] # <<>> /\ Head(todo[t]).kind = "log"

(* Nothing that main has yet to do writes to host n's dictionary.          *)
NoSet(calls, d) == \A i \in DOMAIN calls : calls[i].kind = "set" => calls[i].dict # d

ListenerOK(n) ==
    /\ todo[Listener(n)] \in Seq(ListenerCalls(n))
    /\ todo[Listener(n)] # <<>> => n \in 1 .. Len(hosts) /\ NoSet(todo[Main], HostDict(n))

(* A host is listened to last, and its listener starts then.               *)
ListenLast ==
    \A i \in DOMAIN todo[Main] : todo[Main][i].kind = "listen" =>
        /\ i = Len(todo[Main])
        /\ todo[Main][i].host \in 1 .. Len(hosts)
        /\ todo[Listener(todo[Main][i].host)] = <<>>

PhaseOK ==
    /\ file \in Files /\ section \in Nat
    /\ phase \in {"listen"} \cup FilePhases \cup LatePhases
    /\ phase \in {"listen", "load", "merge"} => config = NULL
    /\ phase \in {"modules", "sections", "host", "free"} => config = File
    /\ freed # {} => phase \in LatePhases /\ config = File
    /\ hosts \in Seq(Text) /\ Len(hosts) <= MaxHosts
    /\ hosts # <<>> => phase \in LatePhases /\ config = File
    /\ phase = "host" => /\ section \in DOMAIN content[File]
                         /\ Len(hosts) < MaxHosts

TodoOK ==
    /\ todo \in [Threads -> Seq(AllCalls)]
    /\ todo[Main] \in Seq(MainCalls(phase)) /\ ListenLast
    /\ todo[SocketThread] \in Seq({Log})
    /\ phase = "listen" => todo[SocketThread] = <<>>
    /\ \A n \in 1 .. MaxHosts : ListenerOK(n)

(* A crash leaves all as it is, but nothing happens any more.              *)
Working ==
    /\ PhaseOK
    /\ TodoOK
    /\ \A t \in Threads : CallOK(t)

Crashed == phase = "crashed"

IInv == TypeOK /\ UnsafeReadsConfined /\ (~Crashed => Working)
-----------------------------------------------------------------------------
(* Threads and dictionaries are who they are.                              *)
LEMMA ThreadsDistinct ==
    /\ Main \in Threads /\ SocketThread \in Threads
    /\ \A n \in 1 .. MaxHosts : Listener(n) \in Threads
    /\ Main # SocketThread
    /\ \A n \in 1 .. MaxHosts : Listener(n) # Main /\ Listener(n) # SocketThread
    /\ \A m, n \in 1 .. MaxHosts : Listener(m) = Listener(n) => m = n
    /\ \A t \in Threads : \/ t = Main \/ t = SocketThread
                          \/ \E n \in 1 .. MaxHosts : t = Listener(n)
    /\ NULL \notin Threads
  BY NullAssumption DEF Threads, Main, SocketThread, Listener

LEMMA DictsDistinct ==
    /\ Defaults \in Dicts /\ Overrides \in Dicts /\ File \in Dicts /\ Section \in Dicts
    /\ HostDicts \subseteq Dicts /\ NULL \notin Dicts
    /\ Defaults # Overrides /\ Defaults # File /\ Defaults # Section
    /\ Overrides # File /\ Overrides # Section /\ File # Section
    /\ Defaults \notin HostDicts /\ Overrides \notin HostDicts
    /\ File \notin HostDicts /\ Section \notin HostDicts
    /\ \A m, n \in 1 .. MaxHosts : HostDict(m) = HostDict(n) => m = n
    /\ \A n \in 1 .. MaxHosts : HostDict(n) \in HostDicts
  BY NullAssumption DEF Dicts, HostDicts, Defaults, Overrides, File, Section, HostDict

(* The keys that the code names are text.                                  *)
LEMMA KnownText ==
    /\ Instance \in Text /\ Cluster \in Text /\ Private \in Text
    /\ Localhost \in Text /\ Garbled \in Text /\ <<>> \in Text
    /\ Hostname \in Text /\ NULL \notin Text
    /\ \A f \in Fields : <<f>> \in Text /\ DefaultOf[f] \in Text
    /\ <<"handler">> \in Text /\ <<"minworkers">> \in Text /\ <<"endpoint">> \in Text
    /\ <<"name">> \in Text /\ <<"instance">> \in Text /\ <<"cluster">> \in Text
  <1>1. /\ Fields \subseteq Names /\ "global" \in Names /\ "private" \in Names
        /\ "localhost" \in Names /\ "default" \in Names /\ "garbled" \in Names
        /\ "handler" \in Names /\ "minworkers" \in Names /\ "endpoint" \in Names
        /\ Hostname \in Text /\ NULL \notin Text
    BY NamesAssumption DEF OwnNames
  <1>2. "instance" \in Names /\ "cluster" \in Names /\ "name" \in Names
    BY <1>1 DEF Fields
  <1>3. /\ Instance \in Text /\ Cluster \in Text /\ Private \in Text
        /\ Localhost \in Text /\ Garbled \in Text /\ <<>> \in Text
    BY <1>1, <1>2 DEF Text, Instance, Cluster, Private, Localhost, Garbled
  <1>4. /\ <<"handler">> \in Text /\ <<"minworkers">> \in Text /\ <<"endpoint">> \in Text
        /\ <<"name">> \in Text /\ <<"instance">> \in Text /\ <<"cluster">> \in Text
    BY <1>1, <1>2 DEF Text
  <1>5. <<"default">> \in Text
    BY <1>1 DEF Text
  <1>6. ASSUME NEW f \in Fields
        PROVE  <<f>> \in Text /\ DefaultOf[f] \in Text
    BY <1>3, <1>4, <1>5 DEF Fields, DefaultOf
  <1> QED BY <1>1, <1>3, <1>4, <1>6

LEMMA FoldedTyped ==
    ASSUME NEW k \in Text
    PROVE  Folded(k) \in Text
  BY NamesAssumption DEF Folded, Text

(* A set of places has a first one.                                        *)
LEMMA FirstPlace ==
    ASSUME NEW S \in SUBSET Nat, S # {}
    PROVE  Min(S) \in S /\ \A j \in S : Min(S) <= j
  <1> DEFINE less == OpToRel(<, Nat)
  <1>1. IsWellFoundedOn(less, Nat)
    BY NatLessThanWellFounded
  <1>2. \A i, j \in Nat : <<j, i>> \notin less => i <= j
    BY DEF OpToRel
  <1> HIDE DEF less
  <1>3. \E i \in S : \A j \in S : ~(<<j, i>> \in less)
    BY <1>1, WFMin
  <1>4. \E i \in S : \A j \in S : i <= j
    BY <1>2, <1>3
  <1> QED BY <1>4 DEF Min

LEMMA PlacesTyped ==
    ASSUME NEW entries \in Seq(Entries), NEW k
    PROVE  /\ Places(entries, k) \in SUBSET DOMAIN entries
           /\ Places(entries, k) # {} => Min(Places(entries, k)) \in DOMAIN entries
  <1>1. Places(entries, k) \in SUBSET Nat /\ Places(entries, k) \in SUBSET DOMAIN entries
    BY DEF Places
  <1> QED BY <1>1, FirstPlace

(* What a dictionary answers.                                              *)
LEMMA GetTyped ==
    ASSUME NEW entries \in Seq(Entries), NEW k, NEW def \in Vals
    PROVE  Get(entries, k, def) \in Vals
  <1>1. CASE Places(entries, k) = {}
    BY <1>1 DEF Get
  <1>2. CASE Places(entries, k) # {}
    <2>1. PICK i \in DOMAIN entries : i = Min(Places(entries, k))
      BY <1>2, PlacesTyped
    <2>2. entries[i] \in Entries
      BY <2>1
    <2> QED BY <1>2, <2>1, <2>2 DEF Get, Entries, Vals
  <1> QED BY <1>1, <1>2

(* What it becomes.                                                        *)
LEMMA EntryTyped ==
    ASSUME NEW entries \in Seq(Entries), NEW k \in Text, NEW v \in Vals
    PROVE  Added(entries, k, v) \in Seq(Entries) /\ Replaced(entries, k, v) \in Seq(Entries)
  <1>1. Entry(k, v) \in Entries
    BY DEF Entry, Entries, Vals
  <1>2. Append(entries, Entry(k, v)) \in Seq(Entries)
    BY <1>1
  <1>3. ASSUME Places(entries, k) # {}
        PROVE  [entries EXCEPT ![Min(Places(entries, k))].val = v] \in Seq(Entries)
    <2>1. PICK i \in DOMAIN entries : i = Min(Places(entries, k))
      BY <1>3, PlacesTyped
    <2>2. entries[i] \in Entries
      BY <2>1
    <2>3. [entries[i] EXCEPT !.val = v] \in Entries
      BY <2>2 DEF Entries, Vals
    <2> DEFINE e == [entries[i] EXCEPT !.val = v]
    <2>4. e \in Entries
      BY <2>3
    <2> HIDE DEF e
    <2>5. [entries EXCEPT ![i] = e] \in Seq(Entries)
      BY <2>4
    <2> QED BY <2>1, <2>5 DEF e
  <1> QED BY <1>2, <1>3 DEF Added, Replaced

-----------------------------------------------------------------------------
(* What is known of a call from its kind, and what main may have before it *)
(* in which phase.                                                         *)
LEMMA KindFacts ==
    ASSUME NEW c \in AllCalls
    PROVE  /\ c.kind \in {"add", "set", "ask", "inherit", "info", "listen", "log"}
           /\ c.key \in Text
           /\ c.kind \in {"add", "set"} => c.val \in Vals
           /\ c.kind = "add" => c.dict = File
           /\ c.kind = "set" => c.dict \in {Defaults, NULL, File, Section} \cup HostDicts
           /\ c.kind = "ask" => c.dict \in {File, Section} \cup HostDicts
           /\ c.kind = "inherit" => c.dict = File /\ c.into = Section /\ c.name \in Text
           /\ c.kind = "info" => c.dict \in HostDicts /\ \E f \in Fields : c.key = <<f>>
           /\ c.kind = "listen" => c.dict = Section /\ c.host \in 1 .. MaxHosts
           /\ c.kind = "log" => c = Log
  <1>1. CASE c = Log
    BY <1>1, KnownText DEF Log
  <1>2. CASE c \in AddCalls
    BY <1>2, KnownText DEF AddCalls
  <1>3. CASE c \in SetCalls({Defaults, NULL}) \cup SetCalls({File}) \cup SetCalls({Section}) \cup SetCalls(HostDicts)
    BY <1>3, KnownText DEF SetCalls
  <1>4. CASE c \in InheritCalls
    BY <1>4, KnownText DEF InheritCalls
  <1>5. CASE c \in InfoCalls(HostDicts)
    BY <1>5, KnownText DEF InfoCalls
  <1>6. CASE c \in ListenCalls
    BY <1>6, KnownText DEF ListenCalls
  <1>7. CASE c \in AskCalls({File}, SetCalls({File})) \cup AskCalls({Section} \cup HostDicts, LaterCalls)
    BY <1>7, KnownText DEF AskCalls
  <1> QED
    BY <1>1, <1>2, <1>3, <1>4, <1>5, <1>6, <1>7 DEF AllCalls, FirstCalls, FileCalls, LateCalls, LaterCalls

LEMMA MainFacts ==
    ASSUME NEW p, NEW c \in MainCalls(p)
    PROVE  /\ c \in AllCalls
           /\ c.kind = "add" => p \in FilePhases
           /\ c.kind = "set" /\ p = "listen" => c.dict \in {Defaults, NULL}
           /\ c.kind = "set" /\ p \in FilePhases => c.dict = File
           /\ c.kind = "set" /\ p # "listen" /\ p \notin FilePhases => c.dict \in {Section} \cup HostDicts
           /\ c.kind = "ask" => p # "listen"
           /\ c.kind = "ask" /\ p \in FilePhases =>
                c.dict = File /\ c.then \in Seq(SetCalls({File})) /\ c.otherwise \in Seq(SetCalls({File}))
           /\ c.kind = "ask" /\ p \notin FilePhases =>
                /\ c.dict \in {Section} \cup HostDicts
                /\ c.then \in Seq(LaterCalls) /\ c.otherwise \in Seq(LaterCalls)
           /\ c.kind \in {"inherit", "info", "listen"} => p # "listen" /\ p \notin FilePhases
           /\ c.kind = "log" => p \notin FilePhases
  <1>0. Log.kind = "log"
    BY DEF Log
  <1>1. CASE p = "listen"
    <2>1. c \in FirstCalls
      BY <1>1 DEF MainCalls
    <2>2. c = Log \/ (c.kind = "set" /\ c.dict \in {Defaults, NULL})
      BY <2>1 DEF FirstCalls, SetCalls
    <2> QED BY <1>0, <1>1, <2>1, <2>2 DEF AllCalls, FilePhases
  <1>2. CASE p \in FilePhases
    <2>0. p # "listen"
      BY <1>2 DEF FilePhases
    <2>1. c \in FileCalls
      BY <1>2, <2>0 DEF MainCalls
    <2>2. \/ c.kind = "add"
          \/ c.kind = "set" /\ c.dict = File
          \/ /\ c.kind = "ask" /\ c.dict = File
             /\ c.then \in Seq(SetCalls({File})) /\ c.otherwise \in Seq(SetCalls({File}))
      <3>1. c \in AddCalls => c.kind = "add"
        BY DEF AddCalls
      <3>2. c \in SetCalls({File}) => c.kind = "set" /\ c.dict = File
        BY DEF SetCalls
      <3>3. c \in AskCalls({File}, SetCalls({File})) =>
                /\ c.kind = "ask" /\ c.dict = File
                /\ c.then \in Seq(SetCalls({File})) /\ c.otherwise \in Seq(SetCalls({File}))
        BY DEF AskCalls
      <3> QED BY <2>1, <3>1, <3>2, <3>3 DEF FileCalls
    <2> QED BY <1>2, <2>0, <2>1, <2>2 DEF AllCalls
  <1>3. CASE p # "listen" /\ p \notin FilePhases
    <2>1. c \in LateCalls
      BY <1>3 DEF MainCalls
    <2>2. \/ c = Log
          \/ c.kind \in {"inherit", "info", "listen"}
          \/ c.kind = "set" /\ c.dict \in {Section} \cup HostDicts
          \/ /\ c.kind = "ask" /\ c.dict \in {Section} \cup HostDicts
             /\ c.then \in Seq(LaterCalls) /\ c.otherwise \in Seq(LaterCalls)
      <3>1. c \in InheritCalls => c.kind = "inherit"
        BY DEF InheritCalls
      <3>2. c \in InfoCalls(HostDicts) => c.kind = "info"
        BY DEF InfoCalls
      <3>3. c \in ListenCalls => c.kind = "listen"
        BY DEF ListenCalls
      <3>4. c \in SetCalls({Section}) \/ c \in SetCalls(HostDicts) =>
                c.kind = "set" /\ c.dict \in {Section} \cup HostDicts
        BY DEF SetCalls
      <3>5. c \in AskCalls({Section} \cup HostDicts, LaterCalls) =>
                /\ c.kind = "ask" /\ c.dict \in {Section} \cup HostDicts
                /\ c.then \in Seq(LaterCalls) /\ c.otherwise \in Seq(LaterCalls)
        BY DEF AskCalls
      <3> QED BY <2>1, <3>1, <3>2, <3>3, <3>4, <3>5 DEF LateCalls, LaterCalls
    <2> QED BY <1>0, <1>3, <2>1, <2>2 DEF AllCalls
  <1> QED BY <1>1, <1>2, <1>3

LEMMA ListenerFacts ==
    ASSUME NEW n \in 1 .. MaxHosts, NEW c \in ListenerCalls(n)
    PROVE  /\ c \in AllCalls
           /\ c = Log \/ (c.kind = "info" /\ c.dict = HostDict(n) /\ \E f \in Fields : c.key = <<f>>)
  <1>1. c = Log \/ c \in InfoCalls({HostDict(n)})
    BY DEF ListenerCalls
  <1>2. ASSUME c \in InfoCalls({HostDict(n)})
        PROVE  c \in InfoCalls(HostDicts) /\ c.kind = "info" /\ c.dict = HostDict(n) /\ \E f \in Fields : c.key = <<f>>
    BY <1>2, DictsDistinct DEF InfoCalls
  <1> QED BY <1>1, <1>2 DEF AllCalls, FirstCalls, LateCalls, LaterCalls

(* The calls that an answer brings write to no host's dictionary and start *)
(* no listener.                                                            *)
LEMMA LaterFacts ==
    ASSUME NEW c \in LaterCalls \cup SetCalls({File})
    PROVE  c.kind # "listen" /\ (c.kind = "set" => c.dict \notin HostDicts)
  <1>1. CASE c = Log
    BY <1>1 DEF Log
  <1>2. CASE c \in InheritCalls
    BY <1>2 DEF InheritCalls
  <1>3. CASE c \in InfoCalls(HostDicts)
    BY <1>3 DEF InfoCalls
  <1>4. CASE c \in SetCalls({Section}) \cup SetCalls({File})
    BY <1>4, DictsDistinct DEF SetCalls
  <1> QED BY <1>1, <1>2, <1>3, <1>4 DEF LaterCalls

(* The calls that an answer brings come before those that were to come.    *)
LEMMA Splice ==
    ASSUME NEW S, NEW s \in Seq(S), s # <<>>, NEW more \in Seq(S)
    PROVE  /\ Head(s) \in S /\ Head(s) = s[1] /\ 1 \in DOMAIN s /\ Tail(s) \in Seq(S)
           /\ more \o Tail(s) \in Seq(S)
           /\ Len(more \o Tail(s)) = Len(more) + Len(s) - 1
           /\ \A i \in DOMAIN (more \o Tail(s)) :
                \/ i \in DOMAIN more /\ (more \o Tail(s))[i] = more[i]
                \/ /\ i - Len(more) + 1 \in DOMAIN s
                   /\ (more \o Tail(s))[i] = s[i - Len(more) + 1]
  <1>1. Len(s) \in Nat \ {0} /\ Len(more) \in Nat /\ DOMAIN s = 1 .. Len(s) /\ DOMAIN more = 1 .. Len(more)
    BY EmptySeq
  <1>2. /\ Tail(s) \in Seq(S) /\ Len(Tail(s)) = Len(s) - 1
        /\ \A i \in 1 .. Len(s) - 1 : Tail(s)[i] = s[i + 1]
    BY <1>1
  <1>3. Head(s) \in S /\ Head(s) = s[1]
    BY <1>1
  <1> DEFINE rest == Tail(s)
  <1>4. rest \in Seq(S) /\ Len(rest) = Len(s) - 1
    BY <1>2
  <1> HIDE DEF rest
  <1>5. /\ more \o rest \in Seq(S) /\ Len(more \o rest) = Len(more) + Len(rest)
        /\ \A i \in 1 .. Len(more) + Len(rest) :
                (more \o rest)[i] = IF i <= Len(more) THEN more[i] ELSE rest[i - Len(more)]
    BY <1>4, <1>1
  <1>6. ASSUME NEW i \in DOMAIN (more \o rest)
        PROVE  \/ i \in DOMAIN more /\ (more \o rest)[i] = more[i]
               \/ i - Len(more) + 1 \in DOMAIN s /\ (more \o rest)[i] = s[i - Len(more) + 1]
    <2>1. i \in 1 .. Len(more) + Len(rest)
      BY <1>5
    <2>2. CASE i <= Len(more)
      BY <2>1, <2>2, <1>5, <1>1
    <2>3. CASE i > Len(more)
      <3>1. i - Len(more) \in 1 .. Len(s) - 1
        BY <2>1, <2>3, <1>4, <1>1
      <3>2. rest[i - Len(more)] = s[i - Len(more) + 1]
        BY <3>1, <1>2 DEF rest
      <3>3. (more \o rest)[i] = rest[i - Len(more)]
        BY <2>1, <2>3, <1>5, <1>1
      <3>4. i - Len(more) + 1 \in DOMAIN s
        BY <3>1, <1>1
      <3> QED BY <3>2, <3>3, <3>4
    <2> QED BY <2>1, <2>2, <2>3, <1>1
  <1> QED BY <1>1, <1>2, <1>3, <1>4, <1>5, <1>6 DEF rest

LEMMA NothingMore ==
    ASSUME NEW S, NEW s \in Seq(S), s # <<>>
    PROVE  <<>> \o Tail(s) = Tail(s) /\ Tail(s) \in Seq(S)
  <1>1. Tail(s) \in Seq(S)
    BY EmptySeq
  <1> QED BY <1>1

(* Fewer kinds of calls are calls.                                         *)
LEMMA SeqMonotone ==
    ASSUME NEW S, NEW T, S \subseteq T, NEW s \in Seq(S)
    PROVE  s \in Seq(T)
  OBVIOUS

LEMMA HeadTyped ==
    ASSUME Working, NEW t \in Threads, todo[t] # <<>>
    PROVE  /\ todo[t] \in Seq(AllCalls) /\ Tail(todo[t]) \in Seq(AllCalls)
           /\ Head(todo[t]) = todo[t][1] /\ 1 \in DOMAIN todo[t]
           /\ Head(todo[t]) \in AllCalls
           /\ t = Main => Head(todo[t]) \in MainCalls(phase)
           /\ t = SocketThread => Head(todo[t]) = Log
           /\ \A n \in 1 .. MaxHosts : t = Listener(n) => Head(todo[t]) \in ListenerCalls(n)
  <1>1. /\ todo[t] \in Seq(AllCalls)
        /\ t = Main => todo[t] \in Seq(MainCalls(phase))
        /\ t = SocketThread => todo[t] \in Seq({Log})
        /\ \A n \in 1 .. MaxHosts : t = Listener(n) => todo[t] \in Seq(ListenerCalls(n))
    BY DEF Working, TodoOK, ListenerOK
  <1>2. <<>> \in Seq(AllCalls) /\ <<>> \in Seq(MainCalls(phase)) /\ <<>> \in Seq({Log})
        /\ \A n \in 1 .. MaxHosts : <<>> \in Seq(ListenerCalls(n))
    OBVIOUS
  <1>3. /\ Head(todo[t]) = todo[t][1] /\ 1 \in DOMAIN todo[t]
        /\ Head(todo[t]) \in AllCalls /\ Tail(todo[t]) \in Seq(AllCalls)
    BY <1>1, <1>2, Splice
  <1>4. t = Main => Head(todo[t]) \in MainCalls(phase)
    BY <1>1, <1>2, Splice
  <1>5. t = SocketThread => Head(todo[t]) = Log
    <2>1. t = SocketThread => Head(todo[t]) \in {Log}
      BY <1>1, <1>2, Splice
    <2> QED BY <2>1
  <1>6. \A n \in 1 .. MaxHosts : t = Listener(n) => Head(todo[t]) \in ListenerCalls(n)
    BY <1>1, <1>2, Splice
  <1> QED BY <1>1, <1>3, <1>4, <1>5, <1>6

(* Who it is that makes a call of a kind.                                  *)
LEMMA Callers ==
    ASSUME Working, NEW t \in Threads, todo[t] # <<>>
    PROVE  /\ Head(todo[t]).kind \notin {"log", "info"} => t = Main
           /\ \A n \in 1 .. MaxHosts : t = Listener(n) /\ Head(todo[t]).kind = "info" =>
                Head(todo[t]).dict = HostDict(n)
  <1>1. CASE t = Main
    BY <1>1, ThreadsDistinct
  <1>2. CASE t = SocketThread
    BY <1>2, ThreadsDistinct, HeadTyped DEF Log
  <1>3. ASSUME NEW n \in 1 .. MaxHosts, t = Listener(n)
        PROVE  /\ Head(todo[t]).kind \in {"log", "info"}
               /\ Head(todo[t]).kind = "info" => Head(todo[t]).dict = HostDict(n)
    <2>1. Head(todo[t]) \in ListenerCalls(n)
      BY <1>3, HeadTyped
    <2>2. Log.kind = "log"
      BY DEF Log
    <2> QED BY <2>1, <2>2, ListenerFacts
  <1> QED BY <1>1, <1>2, <1>3, ThreadsDistinct

-----------------------------------------------------------------------------
(* The types, step by step.                                                *)
LEMMA FoldTypes ==
    ASSUME TypeOK, NEW t \in Threads, NEW d \in Dicts \cup {NULL}, NEW k \in Text, Fold(t, d, k)
    PROVE  /\ at' \in [Threads -> Dicts \cup {NULL}] /\ calling' \subseteq Threads
           /\ writer' \in Threads /\ buffer' \in Text /\ raced' \in BOOLEAN
           /\ at' = [at EXCEPT ![t] = d] /\ calling' = calling \cup {t}
  <1>1. Folded(k) \in Text /\ Garbled \in Text
    BY FoldedTyped, KnownText
  <1>2. at' = [at EXCEPT ![t] = d] /\ calling' = calling \cup {t} /\ writer' = t /\ buffer' \in {Folded(k), Garbled}
    BY DEF Fold
  <1>3. raced' \in BOOLEAN
    BY DEF Fold
  <1> QED BY <1>1, <1>2, <1>3 DEF TypeOK

LEMMA FinishTypes ==
    ASSUME TypeOK, NEW t \in Threads, Finish(t)
    PROVE  /\ at' \in [Threads -> Dicts \cup {NULL}] /\ calling' \subseteq Threads
           /\ at' = [at EXCEPT ![t] = NULL] /\ calling' = calling \ {t}
           /\ UNCHANGED <<file, defaults, overrides, config, freed, phase, buffer, writer, raced, loaded, section, hosts>>
  BY DEF TypeOK, Finish, pointers, results

(* What a thread that is in a call knows.                                  *)
LEMMA InCallFacts ==
    ASSUME TypeOK, Working, NEW t \in Threads, NEW kind, InCall(t, kind)
    PROVE  /\ t \in calling /\ todo[t] # <<>> /\ Head(todo[t]).kind = kind
           /\ Head(todo[t]) \in AllCalls
           /\ kind # "log" => at[t] = Head(todo[t]).dict
           /\ kind = "log" => /\ log_lock = t /\ at[t] \in {Defaults, File}
                              /\ at[t] = Defaults /\ t # SocketThread => config = NULL
  <1>1. t \in calling /\ Head(todo[t]).kind = kind /\ CallOK(t)
    BY DEF InCall, Working
  <1>2. todo[t] # <<>>
    BY <1>1 DEF CallOK
  <1> QED BY <1>1, <1>2, HeadTyped DEF CallOK

LEMMA AddTypes ==
    ASSUME TypeOK, Working, NEW t \in Threads, FinishAdd(t)
    PROVE  TypeOK'
  <1>0. InCall(t, "add") /\ Return(t, <<>>) /\ UNCHANGED <<found, log_lock, info>>
    BY DEF FinishAdd
  <1> DEFINE call == Head(todo[t])
  <1>1. call.val \in Vals /\ call \in AllCalls
    BY <1>0, InCallFacts, KindFacts
  <1>2. Finish(t)
    BY <1>0 DEF Return
  <1>3. content \in [Dicts -> Seq(Entries)] /\ buffer \in Text /\ parsed \in Text
    BY DEF TypeOK
  <1>4. content[File] \in Seq(Entries) /\ parsed \o buffer \in Text
    BY <1>3, DictsDistinct DEF Text
  <1>5. CASE call.val = NULL
    <2>1. parsed' = buffer /\ content' = [content EXCEPT ![File] = Replaced(content[File], buffer, NULL)]
      BY <1>5 DEF FinishAdd
    <2>2. Replaced(content[File], buffer, NULL) \in Seq(Entries)
      BY <1>3, <1>4, EntryTyped DEF Vals
    <2>3. content' \in [Dicts -> Seq(Entries)] /\ parsed' \in Text
      BY <1>3, <2>1, <2>2
    <2> QED BY <1>0, <1>2, <2>3, FinishTypes DEF TypeOK
  <1>6. CASE call.val # NULL
    <2>1. parsed' = parsed /\ content' = [content EXCEPT ![File] = Added(content[File], parsed \o buffer, call.val)]
      BY <1>6 DEF FinishAdd
    <2>2. Added(content[File], parsed \o buffer, call.val) \in Seq(Entries)
      BY <1>1, <1>3, <1>4, EntryTyped
    <2>3. content' \in [Dicts -> Seq(Entries)] /\ parsed' \in Text
      BY <1>3, <2>1, <2>2
    <2> QED BY <1>0, <1>2, <2>3, FinishTypes DEF TypeOK
  <1> QED BY <1>5, <1>6

LEMMA SetTypes ==
    ASSUME TypeOK, Working, NEW t \in Threads, FinishSet(t)
    PROVE  TypeOK'
  <1>0. InCall(t, "set") /\ Finish(t) /\ UNCHANGED <<parsed, found, log_lock, info>>
    BY DEF FinishSet, Return
  <1>1. Head(todo[t]).val \in Vals
    BY <1>0, InCallFacts, KindFacts
  <1>2. content \in [Dicts -> Seq(Entries)] /\ buffer \in Text /\ at[t] \in Dicts \cup {NULL}
    BY DEF TypeOK
  <1>3. content' \in [Dicts -> Seq(Entries)]
    <2>1. CASE at[t] = NULL
      BY <1>2, <2>1 DEF FinishSet
    <2>2. CASE at[t] # NULL
      <3>1. content' = [content EXCEPT ![at[t]] = Replaced(content[at[t]], buffer, Head(todo[t]).val)]
        BY <2>2, <1>2 DEF FinishSet
      <3>2. Replaced(content[at[t]], buffer, Head(todo[t]).val) \in Seq(Entries)
        BY <1>1, <1>2, <2>2, EntryTyped
      <3> QED BY <1>2, <3>1, <3>2
    <2> QED BY <2>1, <2>2
  <1> QED BY <1>0, <1>3, FinishTypes DEF TypeOK

LEMMA ReturnTypes ==
    ASSUME TypeOK, Working, NEW t \in Threads,
           FinishAsk(t) \/ FinishInherit(t) \/ FinishListen(t) \/ ShowConfigured(t) \/ ShowDefault(t)
    PROVE  TypeOK'
  <1>1. Finish(t)
    BY DEF FinishAsk, FinishInherit, FinishListen, ShowConfigured, ShowDefault, EndLine, Return
  <1>2. UNCHANGED <<content, parsed, info>>
    BY DEF FinishAsk, FinishInherit, FinishListen, ShowConfigured, ShowDefault, EndLine
  <1>3. CASE UNCHANGED <<found, log_lock>>
    BY <1>1, <1>2, <1>3, FinishTypes DEF TypeOK
  <1>4. CASE log_lock' = NULL /\ found' = [found EXCEPT ![t] = NULL] /\ log_lock = t
    <2>1. \A u \in Threads : found'[u] = NULL
      BY <1>4 DEF TypeOK
    <2>2. found' \in [Threads -> Text \cup {NULL}]
      BY <1>4 DEF TypeOK
    <2> QED BY <1>1, <1>2, <1>4, <2>1, <2>2, FinishTypes DEF TypeOK
  <1>5. ASSUME ShowConfigured(t) \/ ShowDefault(t)
        PROVE  log_lock' = NULL /\ found' = [found EXCEPT ![t] = NULL] /\ log_lock = t
    <2>1. log_lock' = NULL /\ found' = [found EXCEPT ![t] = NULL]
      BY <1>5 DEF ShowConfigured, ShowDefault, EndLine
    <2>2. CASE ShowConfigured(t)
      BY <2>1, <2>2, InCallFacts DEF ShowConfigured
    <2>3. CASE ShowDefault(t)
      BY <2>1, <2>3 DEF ShowDefault, TypeOK
    <2> QED BY <1>5, <2>2, <2>3
  <1>6. FinishAsk(t) \/ FinishInherit(t) \/ FinishListen(t) => UNCHANGED <<found, log_lock>>
    BY DEF FinishAsk, FinishInherit, FinishListen
  <1> QED BY <1>3, <1>4, <1>5, <1>6

LEMMA InfoTypes ==
    ASSUME TypeOK, Working, NEW t \in Threads, FinishInfo(t)
    PROVE  TypeOK'
  <1>0. InCall(t, "info") /\ Finish(t) /\ UNCHANGED <<content, parsed, found, log_lock>>
    BY DEF FinishInfo, Return
  <1>1. Head(todo[t]).dict \in HostDicts /\ at[t] = Head(todo[t]).dict
    BY <1>0, InCallFacts, KindFacts
  <1>2. PICK f \in Fields : Head(todo[t]).key = <<f>>
    BY <1>0, InCallFacts, KindFacts
  <1>3. Head(todo[t]).key[1] = f
    BY <1>2
  <1>4. info' = [info EXCEPT ![t][f] = Get(content[at[t]], buffer, DefaultOf[f])]
    BY <1>3 DEF FinishInfo
  <1>5. Get(content[at[t]], buffer, DefaultOf[f]) \in Vals
    BY <1>1, <1>2, DictsDistinct, KnownText, GetTyped DEF TypeOK, Vals
  <1>6. info \in [Threads -> [Fields -> Vals]]
    BY DEF TypeOK, Vals
  <1>7. info' \in [Threads -> [Fields -> Vals]]
    BY <1>4, <1>5, <1>6
  <1> QED BY <1>0, <1>7, FinishTypes DEF TypeOK, Vals

LEMMA BeginTypes ==
    ASSUME TypeOK, Working, NEW t \in Threads, BeginCall(t) \/ AskConfig(t)
    PROVE  TypeOK'
  <1>1. \E d \in Dicts \cup {NULL}, k \in Text : Fold(t, d, k)
    <2>1. CASE BeginCall(t)
      <3>1. todo[t] # <<>> /\ Head(todo[t]).kind # "log" /\ Fold(t, Head(todo[t]).dict, Head(todo[t]).key)
        BY <2>1 DEF BeginCall, Idle
      <3>2. Head(todo[t]) \in AllCalls
        BY <3>1, HeadTyped
      <3>3. Head(todo[t]).dict \in Dicts \cup {NULL} /\ Head(todo[t]).key \in Text
        BY <3>1, <3>2, KindFacts, DictsDistinct
      <3> QED BY <3>1, <3>3
    <2>2. CASE AskConfig(t)
      <3>1. Fold(t, config, Instance) /\ config \in Dicts \cup {NULL} /\ Instance \in Text
        BY <2>2, KnownText, DictsDistinct DEF AskConfig, TypeOK
      <3> QED BY <3>1
    <2> QED BY <2>1, <2>2
  <1>2. UNCHANGED <<content, parsed, defaults, overrides, config, freed, found, log_lock, info>>
    BY DEF BeginCall, AskConfig, pointers
  <1>3. /\ at' \in [Threads -> Dicts \cup {NULL}] /\ calling' \subseteq Threads
        /\ writer' \in Threads /\ buffer' \in Text /\ raced' \in BOOLEAN
    BY <1>1, FoldTypes
  <1> QED BY <1>2, <1>3 DEF TypeOK

LEMMA LineTypes ==
    ASSUME TypeOK, Working, NEW t \in Threads, BeginLine(t)
    PROVE  TypeOK'
  <1>1. log_lock = NULL /\ log_lock' = t /\ \A u \in Threads : found[u] = NULL
    BY ThreadsDistinct DEF BeginLine, TypeOK
  <1>2. UNCHANGED <<content, parsed, defaults, overrides, config, freed, info>>
    BY DEF BeginLine, pointers
  <1>3. FirstDictionary \in Dicts \cup {NULL}
    BY DictsDistinct DEF FirstDictionary, TypeOK
  <1>4. CASE FirstDictionary = NULL
    <2>1. found' = [found EXCEPT ![t] = Localhost] /\ UNCHANGED <<at, calling, buffer, writer, raced>>
      BY <1>4 DEF BeginLine
    <2>2. found' \in [Threads -> Text \cup {NULL}] /\ \A u \in Threads : found'[u] # NULL => u = t
      BY <1>1, <2>1, KnownText DEF TypeOK
    <2> QED BY <1>1, <1>2, <2>1, <2>2 DEF TypeOK
  <1>5. CASE FirstDictionary # NULL
    <2>1. Fold(t, FirstDictionary, Instance) /\ UNCHANGED found
      BY <1>5 DEF BeginLine
    <2>2. /\ at' \in [Threads -> Dicts \cup {NULL}] /\ calling' \subseteq Threads
          /\ writer' \in Threads /\ buffer' \in Text /\ raced' \in BOOLEAN
      BY <1>3, <2>1, FoldTypes, KnownText
    <2> QED BY <1>1, <1>2, <2>1, <2>2 DEF TypeOK
  <1> QED BY <1>4, <1>5

LEMMA FindTypes ==
    ASSUME TypeOK, Working, NEW t \in Threads, FindDefault(t)
    PROVE  TypeOK'
  <1>1. InCall(t, "log") /\ at[t] = Defaults /\ log_lock = t
    BY InCallFacts DEF FindDefault
  <1>2. PICK v \in AnswersOf(at[t], buffer, Localhost) : found' = [found EXCEPT ![t] = v]
    BY DEF FindDefault
  <1>3. v \in Vals
    <2>1. content[Defaults] \in Seq(Entries)
      BY DictsDistinct DEF TypeOK
    <2> QED BY <1>1, <1>2, <2>1, GetTyped, KnownText DEF AnswersOf, Vals
  <1>4. UNCHANGED <<content, parsed, defaults, overrides, config, freed, buffer, writer, raced, log_lock, info>>
    BY DEF FindDefault, pointers
  <1>5. at' = [at EXCEPT ![t] = NULL] /\ calling' = calling \ {t}
    BY DEF FindDefault
  <1>6. found' \in [Threads -> Text \cup {NULL}] /\ \A u \in Threads : found'[u] # NULL => log_lock = u
    BY <1>1, <1>2, <1>3 DEF TypeOK, Vals
  <1> QED BY <1>4, <1>5, <1>6 DEF TypeOK

LEMMA MainTypes ==
    ASSUME TypeOK, Working,
           \/ StartSocketThread \/ LoadFile \/ Merge \/ FreeDictionaries \/ LoadModules
           \/ NextSection \/ AddHost \/ HostFails
    PROVE  TypeOK'
  <1>1. CASE StartSocketThread \/ LoadFile \/ LoadModules \/ HostFails
    <2>1. UNCHANGED <<content, parsed, defaults, overrides, config, freed, at, calling, buffer, writer,
                      raced, found, log_lock, info>>
      BY <1>1 DEF StartSocketThread, LoadFile, LoadModules, HostFails, pointers, lookups
    <2> QED BY <2>1 DEF TypeOK
  <1>2. CASE Merge
    <2>1. /\ UNCHANGED <<content, parsed, defaults, overrides, freed, at, calling, buffer, writer,
                         raced, found, log_lock, info>>
          /\ config' = File
      BY <1>2 DEF Merge, lookups
    <2>2. File \notin freed
      BY DictsDistinct DEF TypeOK
    <2> QED BY <2>1, <2>2 DEF TypeOK
  <1>3. CASE FreeDictionaries
    <2>1. /\ UNCHANGED <<content, parsed, config, at, calling, buffer, writer,
                         raced, found, log_lock, info>>
          /\ freed' = {Overrides, Defaults} /\ overrides' = NULL /\ defaults' = NULL
      BY <1>3 DEF FreeDictionaries, lookups, Deleted
    <2> QED BY <2>1, DictsDistinct DEF TypeOK
  <1>4. CASE NextSection
    <2>1. UNCHANGED <<parsed, defaults, overrides, config, freed, at, calling, buffer, writer,
                      raced, found, log_lock, info>>
      BY <1>4 DEF NextSection, pointers, lookups
    <2>2. content' = content \/ content' = [content EXCEPT ![Section] = <<>>]
      BY <1>4 DEF NextSection
    <2>3. content' \in [Dicts -> Seq(Entries)]
      <3> DEFINE S == Seq(Entries)
      <3>1. content \in [Dicts -> S] /\ <<>> \in S
        BY DEF TypeOK
      <3> HIDE DEF S
      <3>2. content' \in [Dicts -> S]
        BY <2>2, <3>1
      <3> QED BY <3>2 DEF S
    <2> QED BY <2>1, <2>3 DEF TypeOK
  <1>5. CASE AddHost
    <2>1. /\ UNCHANGED <<content, parsed, defaults, overrides, config, freed, at, calling, buffer, writer,
                         raced, found, log_lock>>
          /\ info' = [info EXCEPT ![Main] = NoInfo]
      BY <1>5 DEF AddHost, pointers, lookups
    <2>2. info' \in [Threads -> [Fields -> Text \cup {NULL}]]
      BY <2>1 DEF TypeOK, NoInfo
    <2> QED BY <2>1, <2>2 DEF TypeOK
  <1> QED BY <1>1, <1>2, <1>3, <1>4, <1>5

LEMMA StepTypes ==
    ASSUME TypeOK, phase # "crashed" => Working, [Next]_vars
    PROVE  TypeOK'
  <1>1. CASE UNCHANGED vars
    BY <1>1 DEF vars, pointers, lookups, results, TypeOK
  <1>2. ASSUME NEW t \in Threads, ThreadStep(t)
        PROVE  TypeOK'
    <2>1. phase # "crashed"
      <3>1. Idle(t) => phase # "crashed"
        BY DEF Idle
      <3>2. \A kind : InCall(t, kind) => phase # "crashed"
        BY DEF InCall
      <3> QED
       BY <1>2, <3>1, <3>2 DEF ThreadStep, BeginCall, FinishAdd, FinishSet, FinishAsk, FinishInherit, FinishInfo, FinishListen,
                  BeginLine, ShowConfigured, FindDefault, ShowDefault, AskConfig, CrashOnFreed
    <2>2. CASE CrashOnFreed(t)
      BY <2>2 DEF CrashOnFreed, pointers, lookups, results, TypeOK
    <2> QED BY <1>2, <2>1, <2>2, BeginTypes, AddTypes, SetTypes, ReturnTypes, InfoTypes, LineTypes, FindTypes DEF ThreadStep
  <1>3. CASE \/ StartSocketThread \/ LoadFile \/ Merge \/ FreeDictionaries \/ LoadModules
             \/ NextSection \/ AddHost \/ HostFails
    <2>1. phase # "crashed"
      BY <1>3 DEF StartSocketThread, LoadFile, Merge, FreeDictionaries, LoadModules, NextSection, AddHost, HostFails, MainAt
    <2> QED BY <1>3, <2>1, MainTypes
  <1> QED BY <1>1, <1>2, <1>3 DEF Next

-----------------------------------------------------------------------------
(* A set of places from 0 on that holds 0, and each place whose            *)
(* predecessor it holds, holds all: there is no first one missing.         *)
LEMMA AllPlaces ==
    ASSUME NEW n \in Nat, NEW P, 0 \in P, \A i \in 1 .. n : i - 1 \in P => i \in P
    PROVE  \A i \in 0 .. n : i \in P
  <1> DEFINE Missing == {i \in 0 .. n : i \notin P}
  <1>1. ASSUME Missing # {}
        PROVE  FALSE
    <2>1. Missing \in SUBSET Nat
      OBVIOUS
    <2>2. PICK m \in Missing : \A j \in Missing : m <= j
      BY <1>1, <2>1, FirstPlace
    <2>3. m \in 1 .. n /\ m - 1 \in 0 .. n
      BY <2>2
    <2>4. m - 1 \notin Missing
      BY <2>2, <2>3
    <2> QED BY <2>2, <2>3, <2>4
  <1> QED BY <1>1

(* Rest takes a key's last parts.                                          *)
LEMMA RestTyped ==
    ASSUME NEW e \in Entries, NEW header \in Entries, Belongs(e, header)
    PROVE  Rest(e.key, header) \in Text
  <1>1. e.key \in Text /\ header.key \in Text
    BY DEF Entries
  <1>2. Len(header.key) \in Nat /\ Len(e.key) \in Nat
    BY <1>1 DEF Text
  <1>3. SubSeq(e.key, Len(header.key) + 1, Len(e.key)) \in Seq(Names)
    BY <1>1, <1>2 DEF Text
  <1> QED BY <1>3 DEF Rest, Text

(* The calls that collect a section's settings.  The recursion has a       *)
(* solution, as it has one up to each place, and its values are lists of   *)
(* such calls, place by place.                                             *)
LEMMA OwnSettingsTyped ==
    ASSUME NEW entries \in Seq(Entries), NEW place \in DOMAIN entries
    PROVE  OwnSettings(entries, place) \in Seq(SetCalls({Section}))
  <1> DEFINE n == Len(entries)
             header == entries[place]
             own(i) == Set(Section, Rest(entries[i].key, header), entries[i].val)
             Step(g, i) == IF i = 0 THEN <<>>
                           ELSE IF i > place /\ Belongs(entries[i], header) THEN Append(g[i - 1], own(i))
                           ELSE g[i - 1]
             Upto == {m \in 0 .. n : \E g : g = [i \in 0 .. m |-> Step(g, i)]}
  <1>0. n \in Nat /\ DOMAIN entries = 1 .. n
    OBVIOUS
  <1>1. \E g : g = [i \in 0 .. n |-> Step(g, i)]
    <2>1. 0 \in Upto
      <3> DEFINE g == [i \in 0 .. 0 |-> <<>>]
      <3>1. g = [i \in 0 .. 0 |-> Step(g, i)]
        OBVIOUS
      <3>2. \E f : f = [i \in 0 .. 0 |-> Step(f, i)]
        <4> HIDE DEF g, Step
        <4> WITNESS g
        <4> QED BY <3>1
      <3>3. 0 \in 0 .. n
        BY <1>0
      <3> HIDE DEF Step, n
      <3> QED BY <3>2, <3>3
    <2>2. ASSUME NEW m \in 1 .. n, m - 1 \in Upto
          PROVE  m \in Upto
      <3>1. PICK g : g = [i \in 0 .. m - 1 |-> Step(g, i)]
        BY <2>2
      <3> DEFINE h == [i \in 0 .. m |-> IF i < m THEN g[i] ELSE Step(g, m)]
      <3>2. ASSUME NEW i \in 0 .. m
            PROVE  h[i] = Step(h, i)
        <4>1. i # 0 => i - 1 \in 0 .. m - 1 /\ h[i - 1] = g[i - 1]
          BY <2>2, <1>0
        <4>2. Step(h, i) = Step(g, i)
          BY <4>1
        <4>3. CASE i < m
          <5>1. i \in 0 .. m - 1
            BY <4>3, <1>0
          <5>2. g[i] = Step(g, i)
            BY <5>1, <3>1
          <5> QED BY <4>2, <4>3, <5>2
        <4>4. CASE i = m
          BY <4>2, <4>4, <1>0
        <4> QED BY <4>3, <4>4, <1>0
      <3>3. h = [i \in 0 .. m |-> Step(h, i)]
        <4> HIDE DEF Step
        <4>1. h = [i \in 0 .. m |-> h[i]]
          OBVIOUS
        <4> HIDE DEF h
        <4> QED BY <4>1, <3>2
      <3>4. \E f : f = [i \in 0 .. m |-> Step(f, i)]
        <4> HIDE DEF h, Step
        <4> WITNESS h
        <4> QED BY <3>3
      <3>5. m \in 0 .. n
        BY <1>0
      <3> HIDE DEF Step, n
      <3> QED BY <3>4, <3>5
    <2> HIDE DEF Upto, n
    <2>3. \A i \in 1 .. n : i - 1 \in Upto => i \in Upto
      BY <2>2
    <2>4. n \in 0 .. n
      BY <1>0
    <2>5. \A i \in 0 .. n : i \in Upto
      BY <2>1, <2>3, <1>0, AllPlaces
    <2>6. n \in Upto
      BY <2>4, <2>5
    <2> HIDE DEF Step
    <2> QED BY <2>6 DEF Upto
  <1> DEFINE calls == CHOOSE g : g = [i \in 0 .. n |-> Step(g, i)]
  <1>2. calls = [i \in 0 .. n |-> Step(calls, i)]
    <2> HIDE DEF Step
    <2> QED BY <1>1
  <1>3. OwnSettings(entries, place) = calls[n]
    BY DEF OwnSettings
  <1> HIDE DEF calls
  <1>4. \A i \in 0 .. n : calls[i] = Step(calls, i)
    <2> HIDE DEF Step
    <2> QED BY <1>2
  <1> DEFINE S == SetCalls({Section})
             Right == {i \in 0 .. n : calls[i] \in Seq(S)}
  <1>5. \A i \in 1 .. n : i > place /\ Belongs(entries[i], header) => own(i) \in S
    <2> TAKE i \in 1 .. n
    <2> HAVE i > place /\ Belongs(entries[i], header)
    <2>1. entries[i] \in Entries /\ header \in Entries
      BY <1>0
    <2>2. Rest(entries[i].key, header) \in Text /\ entries[i].val \in Vals
      BY <2>1, RestTyped DEF Entries, Vals
    <2> QED BY <2>2 DEF Set, SetCalls
  <1> HIDE DEF S, own, header
  <1> HIDE DEF n
  <1>6. 0 \in Right
    <2>1. 0 \in 0 .. n /\ calls[0] = <<>>
      <3>1. 0 \in 0 .. n
        BY <1>0
      <3>2. calls[0] = Step(calls, 0)
        BY <3>1, <1>4
      <3> QED BY <3>1, <3>2
    <2>2. <<>> \in Seq(S)
      OBVIOUS
    <2> QED BY <2>1, <2>2
  <1>7. ASSUME NEW i \in 1 .. n, i - 1 \in Right
        PROVE  i \in Right
    <2>1. calls[i - 1] \in Seq(S) /\ i \in 0 .. n /\ i # 0
      BY <1>7, <1>0
    <2>2. calls[i] = Step(calls, i)
      BY <2>1, <1>4
    <2>3. CASE i > place /\ Belongs(entries[i], header)
      <3>1. calls[i] = Append(calls[i - 1], own(i)) /\ own(i) \in S
        BY <2>1, <2>2, <2>3, <1>5
      <3>2. Append(calls[i - 1], own(i)) \in Seq(S)
        BY <3>1, <2>1
      <3> QED BY <3>1, <3>2, <2>1
    <2>4. CASE ~(i > place /\ Belongs(entries[i], header))
      BY <2>1, <2>2, <2>4
    <2> QED BY <2>3, <2>4
  <1> HIDE DEF Right
  <1>8. n \in Right
    <2>1. \A i \in 1 .. n : i - 1 \in Right => i \in Right
      BY <1>7
    <2>2. n \in 0 .. n
      BY <1>0
    <2>3. \A i \in 0 .. n : i \in Right
      BY <2>1, <1>0, <1>6, AllPlaces
    <2> QED BY <2>2, <2>3
  <1> QED BY <1>3, <1>8 DEF Right, S

-----------------------------------------------------------------------------
(* What leaves the parts of the invariant as they are.                     *)
LEMMA PhaseKept ==
    ASSUME PhaseOK, UNCHANGED <<file, phase, config, freed, hosts, section>>,
           phase = "host" => content'[File] = content[File]
    PROVE  PhaseOK'
  BY DEF PhaseOK

LEMMA TodoKept ==
    ASSUME TodoOK, UNCHANGED <<todo, phase, hosts>>
    PROVE  TodoOK'
  BY DEF TodoOK, ListenLast, ListenerOK, NoSet

LEMMA CallKept ==
    ASSUME NEW u, CallOK(u), todo'[u] = todo[u], at'[u] = at[u], found'[u] = found[u],
           u \in calling' <=> u \in calling, log_lock = u => log_lock' = u, UNCHANGED config
    PROVE  CallOK(u)'
  BY DEF CallOK

LEMMA NoCall ==
    ASSUME NEW t, t \notin calling', found'[t] = NULL
    PROVE  CallOK(t)'
  BY DEF CallOK

(* Another thread's call returns.                                          *)
LEMMA OthersReturn ==
    ASSUME TodoOK, NEW t \in Threads \ {Main}, todo[t] # <<>>,
           todo' = [todo EXCEPT ![t] = <<>> \o Tail(@)], UNCHANGED <<phase, hosts>>
    PROVE  TodoOK'
  <1>0. todo \in [Threads -> Seq(AllCalls)]
    BY DEF TodoOK
  <1>1. /\ todo'[t] = Tail(todo[t]) /\ Tail(todo[t]) \in Seq(AllCalls)
        /\ \A u \in Threads \ {t} : todo'[u] = todo[u]
    <2>1. <<>> \o Tail(todo[t]) = Tail(todo[t]) /\ Tail(todo[t]) \in Seq(AllCalls)
      BY <1>0, NothingMore
    <2> QED BY <1>0, <2>1
  <1>2. todo' \in [Threads -> Seq(AllCalls)]
    BY <1>0, <1>1
  <1>3. todo'[Main] = todo[Main]
    BY <1>1, ThreadsDistinct
  <1>4. (todo[Main] \in Seq(MainCalls(phase)))'
    BY <1>3 DEF TodoOK
  <1>5. ListenLast'
    <2>1. SUFFICES ASSUME NEW i \in DOMAIN todo[Main], todo[Main][i].kind = "listen"
                   PROVE  /\ i = Len(todo[Main])
                          /\ todo[Main][i].host \in 1 .. Len(hosts)
                          /\ todo'[Listener(todo[Main][i].host)] = <<>>
      BY <1>3 DEF ListenLast
    <2>2. /\ i = Len(todo[Main]) /\ todo[Main][i].host \in 1 .. Len(hosts)
          /\ todo[Listener(todo[Main][i].host)] = <<>>
      BY <2>1 DEF TodoOK, ListenLast
    <2>3. todo[Main][i] \in AllCalls
      BY <1>0, ThreadsDistinct
    <2>4. Listener(todo[Main][i].host) \in Threads
      BY <2>1, <2>3, KindFacts, ThreadsDistinct
    <2> QED BY <2>2, <2>4, <1>1
  <1>6. todo'[SocketThread] \in Seq({Log}) /\ (phase = "listen" => todo'[SocketThread] = <<>>)
    <2>1. todo[SocketThread] \in Seq({Log}) /\ (phase = "listen" => todo[SocketThread] = <<>>)
      BY DEF TodoOK
    <2>2. CASE t = SocketThread
      <3>1. Tail(todo[t]) \in Seq({Log})
        BY <2>1, <2>2, NothingMore
      <3> QED BY <2>1, <2>2, <3>1, <1>1
    <2>3. CASE t # SocketThread
      BY <2>1, <2>3, <1>1, ThreadsDistinct
    <2> QED BY <2>2, <2>3
  <1>7. ASSUME NEW n \in 1 .. MaxHosts
        PROVE  ListenerOK(n)'
    <2>1. /\ todo[Listener(n)] \in Seq(ListenerCalls(n))
          /\ todo[Listener(n)] # <<>> => n \in 1 .. Len(hosts) /\ NoSet(todo[Main], HostDict(n))
      BY DEF TodoOK, ListenerOK
    <2>2. CASE t = Listener(n)
      <3>1. Tail(todo[t]) \in Seq(ListenerCalls(n))
        BY <2>1, <2>2, NothingMore
      <3>2. n \in 1 .. Len(hosts) /\ NoSet(todo[Main], HostDict(n))
        BY <2>1, <2>2
      <3> QED BY <2>2, <3>1, <3>2, <1>1, <1>3 DEF ListenerOK
    <2>3. CASE t # Listener(n)
      <3>1. todo'[Listener(n)] = todo[Listener(n)]
        BY <2>3, <1>1, ThreadsDistinct
      <3> QED BY <2>1, <3>1, <1>3 DEF ListenerOK
    <2> QED BY <2>2, <2>3
  <1> QED BY <1>2, <1>4, <1>5, <1>6, <1>7 DEF TodoOK

(* Main's call returns, and what it brings writes to no host's dictionary  *)
(* and starts no listener.                                                 *)
Harmless(more) ==
    \A i \in DOMAIN more : more[i].kind # "listen" /\ (more[i].kind = "set" => more[i].dict \notin HostDicts)

LEMMA MainReturns ==
    ASSUME TodoOK, todo[Main] # <<>>, NEW more \in Seq(MainCalls(phase)), Harmless(more),
           todo' = [todo EXCEPT ![Main] = more \o Tail(@)], UNCHANGED <<phase, hosts>>
    PROVE  TodoOK'
  <1> DEFINE s == todo[Main]
             new == more \o Tail(s)
  <1>0. todo \in [Threads -> Seq(AllCalls)] /\ s \in Seq(MainCalls(phase))
    BY DEF TodoOK
  <1>1. /\ new \in Seq(MainCalls(phase)) /\ Len(new) = Len(more) + Len(s) - 1
        /\ \A i \in DOMAIN new :
            \/ i \in DOMAIN more /\ new[i] = more[i]
            \/ i - Len(more) + 1 \in DOMAIN s /\ new[i] = s[i - Len(more) + 1]
    BY <1>0, Splice
  <1>2. MainCalls(phase) \subseteq AllCalls
    BY MainFacts
  <1>3. new \in Seq(AllCalls)
    BY <1>1, <1>2
  <1>4. todo'[Main] = new /\ \A u \in Threads \ {Main} : todo'[u] = todo[u]
    BY <1>0, ThreadsDistinct
  <1>5. todo' \in [Threads -> Seq(AllCalls)]
    BY <1>0, <1>3, <1>4
  <1>6. \A i \in DOMAIN new : new[i].kind = "listen" \/ (new[i].kind = "set" /\ new[i].dict \in HostDicts) =>
            i - Len(more) + 1 \in DOMAIN s /\ new[i] = s[i - Len(more) + 1]
    BY <1>1 DEF Harmless
  <1>7. DOMAIN new \subseteq Nat /\ Len(more) \in Nat /\ Len(s) \in Nat
    BY <1>0, <1>1
  <1> HIDE DEF new
  <1>8. ListenLast'
    <2>1. SUFFICES ASSUME NEW i \in DOMAIN new, new[i].kind = "listen"
                   PROVE  /\ i = Len(new)
                          /\ new[i].host \in 1 .. Len(hosts)
                          /\ todo'[Listener(new[i].host)] = <<>>
      BY <1>4 DEF ListenLast
    <2>2. PICK j \in DOMAIN s : j = i - Len(more) + 1 /\ new[i] = s[j]
      BY <2>1, <1>6
    <2>3. /\ j = Len(s) /\ s[j].host \in 1 .. Len(hosts) /\ todo[Listener(s[j].host)] = <<>>
      BY <2>1, <2>2 DEF TodoOK, ListenLast
    <2>4. i = Len(new)
      BY <2>2, <2>3, <1>1, <1>7
    <2>5. s[j] \in AllCalls
      BY <1>0, <1>2
    <2>6. Listener(s[j].host) \in Threads \ {Main}
      BY <2>1, <2>2, <2>5, KindFacts, ThreadsDistinct
    <2> QED BY <2>2, <2>3, <2>4, <2>6, <1>4
  <1>9. ASSUME NEW n \in 1 .. MaxHosts
        PROVE  ListenerOK(n)'
    <2>1. /\ todo[Listener(n)] \in Seq(ListenerCalls(n))
          /\ todo[Listener(n)] # <<>> => n \in 1 .. Len(hosts) /\ NoSet(s, HostDict(n))
      BY DEF TodoOK, ListenerOK
    <2>2. todo'[Listener(n)] = todo[Listener(n)]
      BY <1>4, ThreadsDistinct
    <2>3. NoSet(s, HostDict(n)) => NoSet(new, HostDict(n))
      BY <1>6, DictsDistinct DEF NoSet
    <2> QED BY <2>1, <2>2, <2>3, <1>4 DEF ListenerOK
  <1>10. todo'[SocketThread] = todo[SocketThread]
    BY <1>4, ThreadsDistinct
  <1> QED BY <1>1, <1>4, <1>5, <1>8, <1>9, <1>10 DEF TodoOK

(* A host is listened to: the listener's thread starts where it had        *)
(* nothing to do, and main has nothing left but a log line.                *)
ListenerStarts(n) == <<Log>> \o Populate(HostDict(n)) \o <<Log>>

LEMMA StartTyped ==
    ASSUME NEW n \in 1 .. MaxHosts
    PROVE  /\ ListenerStarts(n) \in Seq(ListenerCalls(n)) /\ ListenerStarts(n) \in Seq(AllCalls)
           /\ Populate(HostDict(n)) \in Seq(InfoCalls({HostDict(n)}))
  <1>1. {"name", "instance", "cluster"} \subseteq Fields
    BY DEF Fields
  <1> DEFINE S == InfoCalls({HostDict(n)})
             L == ListenerCalls(n)
  <1>2. Info(HostDict(n), "name") \in S /\ Info(HostDict(n), "instance") \in S /\ Info(HostDict(n), "cluster") \in S
    BY <1>1 DEF Info, InfoCalls
  <1>3. Populate(HostDict(n)) \in Seq(S)
    <2> HIDE DEF S
    <2> QED BY <1>2 DEF Populate
  <1>4. S \subseteq L /\ Log \in L
    BY DEF ListenerCalls
  <1>5. L \subseteq AllCalls
    BY ListenerFacts
  <1> HIDE DEF S, L
  <1>6. Populate(HostDict(n)) \in Seq(L)
    BY <1>3, <1>4
  <1>7. ListenerStarts(n) \in Seq(L)
    <2> DEFINE p == Populate(HostDict(n))
    <2>1. p \in Seq(L) /\ <<Log>> \in Seq(L)
      BY <1>4, <1>6
    <2> HIDE DEF p
    <2>2. (<<Log>> \o p) \o <<Log>> \in Seq(L)
      BY <2>1
    <2> QED BY <2>2 DEF p, ListenerStarts
  <1>8. ListenerStarts(n) \in Seq(AllCalls)
    BY <1>5, <1>7
  <1> QED BY <1>3, <1>7, <1>8 DEF S, L

LEMMA MainListens ==
    ASSUME Working, NEW t \in Threads, t \in calling, FinishListen(t)
    PROVE  /\ TodoOK' /\ t = Main
           /\ \A u \in Threads \ {t} : todo'[u] = todo[u] \/ todo[u] = <<>>
  <1> DEFINE n == Head(todo[t]).host
  <1>1. Head(todo[t]).kind = "listen" /\ todo[t] # <<>>
    BY DEF FinishListen, InCall, Working, CallOK
  <1>2. t = Main
    BY <1>1, Callers
  <1>3. Head(todo[Main]) = todo[Main][1] /\ 1 \in DOMAIN todo[Main] /\ Head(todo[Main]) \in AllCalls
    BY <1>1, <1>2, HeadTyped
  <1>4. TodoOK /\ UNCHANGED <<phase, hosts>>
    BY DEF Working, FinishListen, Finish, results
  <1>5. 1 = Len(todo[Main]) /\ n \in 1 .. Len(hosts) /\ todo[Listener(n)] = <<>>
    BY <1>1, <1>2, <1>3, <1>4 DEF TodoOK, ListenLast
  <1>6. n \in 1 .. MaxHosts
    BY <1>1, <1>2, <1>3, KindFacts
  <1>7. todo \in [Threads -> Seq(AllCalls)] /\ todo[Main] \in Seq(MainCalls(phase))
    BY <1>4 DEF TodoOK
  <1>8. Tail(todo[Main]) = <<>> /\ <<Log>> \o Tail(todo[Main]) = <<Log>>
    <2> DEFINE s == todo[Main]
               line == <<Log>>
    <2>1. s \in Seq(AllCalls) /\ Len(s) = 1 /\ line \in Seq({Log})
      BY <1>5, <1>7, ThreadsDistinct
    <2> HIDE DEF s, line
    <2>2. Tail(s) = <<>>
      <3>0. Len(<<>>) = 0
        OBVIOUS
      <3>1. s # <<>>
        BY <2>1, <3>0
      <3>2. Tail(s) \in Seq(AllCalls) /\ Len(Tail(s)) = 0
        BY <2>1, <3>1, HeadTailProperties
      <3> QED BY <3>2, EmptySeq
    <2>3. line \o <<>> = line
      BY <2>1, ConcatEmptySeq
    <2> QED BY <2>2, <2>3 DEF s, line
  <1>9. phase # "listen" /\ phase \notin FilePhases
    <2>1. Head(todo[Main]) \in MainCalls(phase)
      BY <1>1, <1>2, HeadTyped
    <2> QED BY <1>1, <1>2, <2>1, MainFacts
  <1>10. <<Log>> \in Seq(MainCalls(phase)) /\ <<>> \in Seq(MainCalls(phase)) /\ <<Log>> \in Seq(AllCalls)
    <2>1. Log \in MainCalls(phase)
      BY <1>9 DEF MainCalls, LateCalls, LaterCalls
    <2>2. Log \in AllCalls
      BY DEF AllCalls, FirstCalls
    <2> QED BY <2>1, <2>2
  <1> HIDE DEF n
  <1>11. /\ todo' \in [Threads -> Seq(AllCalls)]
         /\ todo'[Main] \in {<<>>, <<Log>>}
         /\ todo'[Listener(n)] \in {<<>>, ListenerStarts(n)}
         /\ \A u \in Threads \ {Main, Listener(n)} : todo'[u] = todo[u]
    <2>1. \/ todo' = [todo EXCEPT ![Main] = <<>>]
          \/ todo' = [todo EXCEPT ![Main] = <<Log>>, ![Listener(n)] = ListenerStarts(n)]
          \/ todo' = [todo EXCEPT ![Main] = <<Log>>, ![Listener(n)] = todo[Listener(n)]]
      <3>1. \/ todo' = [todo EXCEPT ![Main] = Tail(todo[Main])]
            \/ \E started \in BOOLEAN :
                todo' = [todo EXCEPT ![Main] = <<Log>> \o Tail(todo[Main]),
                                     ![Listener(n)] = IF started THEN ListenerStarts(n) ELSE todo[Listener(n)]]
        BY <1>2, <1>6, <1>7, ThreadsDistinct DEF FinishListen, n, ListenerStarts
      <3> QED BY <3>1, <1>8
    <2>2. Listener(n) \in Threads /\ Main \in Threads /\ Listener(n) # Main
      BY <1>6, ThreadsDistinct
    <2>3. ListenerStarts(n) \in Seq(AllCalls) /\ <<Log>> \in Seq(AllCalls) /\ <<>> \in Seq(AllCalls)
      <3>1. <<>> \in Seq(AllCalls)
        OBVIOUS
      <3> QED BY <3>1, <1>6, <1>10, StartTyped
    <2> DEFINE S == Seq(AllCalls)
               start == ListenerStarts(n)
               line == <<Log>>
    <2>4. todo \in [Threads -> S] /\ start \in S /\ line \in S /\ <<>> \in S
      BY <1>7, <2>3
    <2> HIDE DEF S, start, line
    <2>5. \/ todo' = [todo EXCEPT ![Main] = <<>>]
          \/ todo' = [todo EXCEPT ![Main] = line, ![Listener(n)] = start]
          \/ todo' = [todo EXCEPT ![Main] = line, ![Listener(n)] = todo[Listener(n)]]
      BY <2>1 DEF start, line
    <2>6. /\ todo' \in [Threads -> S]
          /\ todo'[Main] \in {<<>>, line}
          /\ todo'[Listener(n)] \in {<<>>, start}
          /\ \A u \in Threads \ {Main, Listener(n)} : todo'[u] = todo[u]
      BY <2>2, <2>4, <2>5, <1>5
    <2> QED BY <2>6 DEF S, start, line
  <1>12. todo'[Main] \in Seq(MainCalls(phase))
    BY <1>10, <1>11
  <1>13. \A i \in DOMAIN todo'[Main] : todo'[Main][i] = Log
    BY <1>11
  <1>14. Log.kind = "log"
    BY DEF Log
  <1>15. ListenLast'
    BY <1>13, <1>14 DEF ListenLast
  <1>16. \A d : NoSet(todo'[Main], d)
    BY <1>13, <1>14 DEF NoSet
  <1>17. ASSUME NEW m \in 1 .. MaxHosts
         PROVE  ListenerOK(m)'
    <2>1. CASE m = n
      <3>1. todo'[Listener(n)] \in Seq(ListenerCalls(n))
        <4>1. <<>> \in Seq(ListenerCalls(n))
          OBVIOUS
        <4> QED BY <4>1, <1>6, <1>11, StartTyped
      <3> QED BY <2>1, <3>1, <1>4, <1>5, <1>16 DEF ListenerOK
    <2>2. CASE m # n
      <3>1. todo'[Listener(m)] = todo[Listener(m)]
        BY <2>2, <1>6, <1>11, ThreadsDistinct
      <3> QED BY <3>1, <1>4, <1>16 DEF ListenerOK, TodoOK
    <2> QED BY <2>1, <2>2
  <1>18. todo'[SocketThread] = todo[SocketThread]
    BY <1>6, <1>11, ThreadsDistinct
  <1>19. TodoOK'
    BY <1>4, <1>11, <1>12, <1>15, <1>17, <1>18 DEF TodoOK
  <1> QED BY <1>2, <1>5, <1>11, <1>19

-----------------------------------------------------------------------------
(* The steps of the threads.                                               *)
LEMMA BeginWorks ==
    ASSUME TypeOK, Working, NEW t \in Threads,
           BeginCall(t) \/ BeginLine(t) \/ FindDefault(t) \/ AskConfig(t)
    PROVE  Working'
  <1>1. UNCHANGED <<file, content, config, freed, phase, todo, section, hosts>>
    BY DEF BeginCall, BeginLine, FindDefault, AskConfig, pointers, results
  <1>2. PhaseOK'
    BY <1>1, PhaseKept DEF Working
  <1>3. TodoOK'
    BY <1>1, TodoKept DEF Working
  <1>4. at \in [Threads -> Dicts \cup {NULL}] /\ found \in [Threads -> Text \cup {NULL}] /\ CallOK(t)
    BY DEF TypeOK, Working
  <1>5. /\ \A u \in Threads \ {t} : at'[u] = at[u] /\ found'[u] = found[u] /\ (u \in calling' <=> u \in calling)
        /\ \A u \in Threads \ {t} : log_lock = u => log_lock' = u
    <2>1. CASE BeginCall(t)
      BY <2>1, <1>4 DEF BeginCall, Fold
    <2>2. CASE BeginLine(t)
      BY <2>2, <1>4, ThreadsDistinct DEF BeginLine, Fold
    <2>3. CASE FindDefault(t)
      BY <2>3, <1>4 DEF FindDefault
    <2>4. CASE AskConfig(t)
      BY <2>4, <1>4 DEF AskConfig, Fold
    <2> QED BY <2>1, <2>2, <2>3, <2>4
  <1>6. CallOK(t)'
    <2>1. CASE BeginCall(t)
      <3>1. /\ todo[t] # <<>> /\ Head(todo[t]).kind # "log" /\ at'[t] = Head(todo[t]).dict
            /\ found' = found /\ todo' = todo
        BY <2>1, <1>4 DEF BeginCall, Fold, Idle
      <3> QED BY <3>1, <1>4 DEF CallOK
    <2>2. CASE BeginLine(t)
      <3>1. todo[t] # <<>> /\ Head(todo[t]).kind = "log" /\ log_lock' = t /\ todo' = todo /\ config' = config /\ t \notin calling
        BY <2>2, <1>1 DEF BeginLine, Idle
      <3>2. CASE FirstDictionary = NULL
        <4>1. UNCHANGED <<at, calling>>
          BY <2>2, <3>2 DEF BeginLine
        <4> QED BY <3>1, <4>1 DEF CallOK
      <3>3. CASE FirstDictionary # NULL
        <4>1. at'[t] = FirstDictionary /\ found' = found
          BY <2>2, <3>3, <1>4 DEF BeginLine, Fold
        <4>2. FirstDictionary \in {Defaults, File} /\ (FirstDictionary = Defaults => config = NULL)
          BY <3>3, DictsDistinct DEF FirstDictionary, TypeOK
        <4> QED BY <3>1, <4>1, <4>2, <1>4 DEF CallOK
      <3> QED BY <3>2, <3>3
    <2>3. CASE FindDefault(t)
      <3>1. t \in calling /\ t \notin calling' /\ todo' = todo /\ Head(todo[t]).kind = "log"
        BY <2>3 DEF FindDefault, InCall
      <3> QED BY <3>1, <1>4 DEF CallOK
    <2>4. CASE AskConfig(t)
      <3>1. /\ found[t] # NULL /\ config # NULL /\ at'[t] = config
            /\ UNCHANGED <<todo, found, log_lock, config>>
        BY <2>4, <1>1, <1>4 DEF AskConfig, Fold
      <3>2. todo[t] # <<>> /\ Head(todo[t]).kind = "log" /\ log_lock = t /\ config = File
        BY <3>1, <1>4 DEF CallOK, TypeOK
      <3> QED BY <3>1, <3>2, DictsDistinct DEF CallOK
    <2> QED BY <2>1, <2>2, <2>3, <2>4
  <1>7. \A u \in Threads \ {t} : CallOK(u)'
    BY <1>1, <1>5, CallKept DEF Working
  <1> QED BY <1>2, <1>3, <1>6, <1>7 DEF Working

(* A call returns: what becomes of the calls in progress.                  *)
LEMMA FinishCalls ==
    ASSUME TypeOK, Working, NEW t \in Threads, Finish(t),
           \A u \in Threads \ {t} : todo'[u] = todo[u] \/ todo[u] = <<>>,
           \A u \in Threads \ {t} : found'[u] = found[u],
           found'[t] = NULL,
           \A u \in Threads \ {t} : log_lock = u => log_lock' = u
    PROVE  \A u \in Threads : CallOK(u)'
  <1>1. /\ at' = [at EXCEPT ![t] = NULL] /\ calling' = calling \ {t} /\ UNCHANGED config
        /\ at \in [Threads -> Dicts \cup {NULL}]
    BY FinishTypes DEF TypeOK
  <1>2. CallOK(t)'
    BY <1>1, NoCall
  <1>3. ASSUME NEW u \in Threads \ {t}
        PROVE  CallOK(u)'
    <2>1. CallOK(u) /\ at'[u] = at[u] /\ (u \in calling' <=> u \in calling)
      BY <1>1 DEF Working
    <2>2. CASE todo'[u] = todo[u]
      BY <2>1, <2>2, <1>1, CallKept
    <2>3. CASE todo[u] = <<>>
      <3>1. u \notin calling' /\ found'[u] = NULL
        BY <2>1, <2>3 DEF CallOK
      <3> QED BY <3>1, NoCall
    <2> QED BY <2>2, <2>3
  <1> QED BY <1>2, <1>3

(* A log line ends.                                                        *)
LEMMA LineWorks ==
    ASSUME TypeOK, Working, NEW t \in Threads, ShowConfigured(t) \/ ShowDefault(t)
    PROVE  Working'
  <1>1. EndLine(t) /\ todo[t] # <<>> /\ Head(todo[t]).kind = "log" /\ log_lock = t
    <2>1. CASE ShowConfigured(t)
      BY <2>1, InCallFacts DEF ShowConfigured
    <2>2. CASE ShowDefault(t)
      BY <2>2 DEF ShowDefault, Working, CallOK, TypeOK
    <2> QED BY <2>1, <2>2
  <1>2. /\ todo' = [todo EXCEPT ![t] = <<>> \o Tail(@)] /\ Finish(t) /\ UNCHANGED content
        /\ found' = [found EXCEPT ![t] = NULL]
    BY <1>1 DEF EndLine, Return
  <1>3. UNCHANGED <<file, config, freed, phase, section, hosts>>
    BY <1>2, FinishTypes
  <1>4. PhaseOK'
    BY <1>2, <1>3, PhaseKept DEF Working
  <1>5. todo \in [Threads -> Seq(AllCalls)] /\ found \in [Threads -> Text \cup {NULL}] /\ TodoOK
    BY DEF Working, TodoOK, TypeOK
  <1>6. TodoOK'
    <2>1. CASE t # Main
      BY <2>1, <1>1, <1>2, <1>3, <1>5, OthersReturn
    <2>2. CASE t = Main
      <3>1. <<>> \in Seq(MainCalls(phase)) /\ Harmless(<<>>)
        BY DEF Harmless
      <3> QED BY <2>2, <3>1, <1>1, <1>2, <1>3, <1>5, MainReturns
    <2> QED BY <2>1, <2>2
  <1>7. \A u \in Threads \ {t} : todo'[u] = todo[u] /\ found'[u] = found[u]
    BY <1>2, <1>5
  <1>8. found'[t] = NULL
    BY <1>2, <1>5
  <1>9. \A u \in Threads : CallOK(u)'
    BY <1>1, <1>2, <1>7, <1>8, FinishCalls
  <1> QED BY <1>4, <1>6, <1>9 DEF Working

(* A lookup of worker_populate_info_, by main or a listener's thread.      *)
LEMMA InfoWorks ==
    ASSUME TypeOK, Working, NEW t \in Threads, FinishInfo(t)
    PROVE  Working'
  <1>1. /\ InCall(t, "info") /\ todo' = [todo EXCEPT ![t] = <<>> \o Tail(@)] /\ Finish(t)
        /\ UNCHANGED <<content, found, log_lock>>
    BY DEF FinishInfo, Return
  <1>2. todo[t] # <<>> /\ Head(todo[t]).kind = "info"
    BY <1>1, InCallFacts
  <1>3. UNCHANGED <<file, config, freed, phase, section, hosts>>
    BY <1>1, FinishTypes
  <1>4. PhaseOK'
    BY <1>1, <1>3, PhaseKept DEF Working
  <1>5. todo \in [Threads -> Seq(AllCalls)] /\ TodoOK
    BY DEF Working, TodoOK
  <1>6. TodoOK'
    <2>1. CASE t # Main
      BY <2>1, <1>1, <1>2, <1>3, <1>5, OthersReturn
    <2>2. CASE t = Main
      <3>1. <<>> \in Seq(MainCalls(phase)) /\ Harmless(<<>>)
        BY DEF Harmless
      <3> QED BY <2>2, <3>1, <1>1, <1>2, <1>3, <1>5, MainReturns
    <2> QED BY <2>1, <2>2
  <1>7. \A u \in Threads \ {t} : todo'[u] = todo[u]
    BY <1>1, <1>5
  <1>8. found'[t] = NULL
    BY <1>1, <1>2 DEF Working, CallOK
  <1>9. \A u \in Threads : CallOK(u)'
    BY <1>1, <1>7, <1>8, FinishCalls
  <1> QED BY <1>4, <1>6, <1>9 DEF Working

(* The calls that only main makes.                                         *)
LEMMA MainCallWorks ==
    ASSUME TypeOK, Working, NEW t \in Threads, NEW kind \in {"add", "set", "ask", "inherit"}, InCall(t, kind),
           NEW more \in Seq(MainCalls(phase)), Harmless(more), Return(t, more), UNCHANGED <<found, log_lock>>,
           phase = "host" => content'[File] = content[File]
    PROVE  Working'
  <1>1. todo[t] # <<>> /\ Head(todo[t]).kind = kind
    BY InCallFacts
  <1>2. t = Main
    BY <1>1, Callers
  <1>3. todo' = [todo EXCEPT ![Main] = more \o Tail(@)] /\ Finish(t)
    BY <1>2 DEF Return
  <1>4. UNCHANGED <<file, config, freed, phase, section, hosts>>
    BY <1>3, FinishTypes
  <1>5. PhaseOK'
    BY <1>4, PhaseKept DEF Working
  <1>6. todo \in [Threads -> Seq(AllCalls)] /\ TodoOK
    BY DEF Working, TodoOK
  <1>7. TodoOK'
    BY <1>1, <1>2, <1>3, <1>4, <1>6, MainReturns
  <1>8. \A u \in Threads \ {t} : todo'[u] = todo[u]
    BY <1>2, <1>3, <1>6
  <1>9. found'[t] = NULL
    BY <1>1 DEF Working, CallOK
  <1>10. \A u \in Threads : CallOK(u)'
    BY <1>3, <1>8, <1>9, FinishCalls
  <1> QED BY <1>5, <1>7, <1>10 DEF Working

LEMMA NothingHarmless == \A p : <<>> \in Seq(MainCalls(p)) /\ Harmless(<<>>)
  BY DEF Harmless

LEMMA AddWorks ==
    ASSUME TypeOK, Working, NEW t \in Threads, FinishAdd(t) \/ FinishSet(t)
    PROVE  Working'
  <1>1. PICK kind \in {"add", "set"} : InCall(t, kind) /\ (kind = "set" => FinishSet(t))
    <2>1. FinishAdd(t) => InCall(t, "add")
      BY DEF FinishAdd
    <2>2. FinishSet(t) => InCall(t, "set")
      BY DEF FinishSet
    <2> QED BY <2>1, <2>2
  <1>2. Return(t, <<>>) /\ UNCHANGED <<found, log_lock>>
    BY DEF FinishAdd, FinishSet
  <1>3. todo[t] # <<>> /\ Head(todo[t]).kind = kind /\ at[t] = Head(todo[t]).dict
    BY <1>1, InCallFacts
  <1>4. t = Main
    BY <1>1, <1>3, Callers
  <1>5. Head(todo[t]) \in MainCalls(phase)
    BY <1>3, <1>4, HeadTyped
  <1>6. ASSUME phase = "host"
        PROVE  content'[File] = content[File]
    <2>1. kind = "set" /\ at[t] \in {Section} \cup HostDicts
      BY <1>1, <1>3, <1>5, <1>6, MainFacts DEF FilePhases
    <2>2. at[t] # File /\ at[t] # NULL /\ File \in Dicts
      BY <2>1, DictsDistinct
    <2>3. content \in [Dicts -> Seq(Entries)]
      BY DEF TypeOK
    <2>4. content' = [content EXCEPT ![at[t]] = Replaced(content[at[t]], buffer, Head(todo[t]).val)]
      BY <1>1, <2>1, <2>2, <2>3, DictsDistinct DEF FinishSet
    <2> QED BY <2>2, <2>3, <2>4
  <1> QED BY <1>1, <1>2, <1>6, MainCallWorks, NothingHarmless

LEMMA AskWorks ==
    ASSUME TypeOK, Working, NEW t \in Threads, FinishAsk(t)
    PROVE  Working'
  <1> DEFINE call == Head(todo[t])
             more == IF Get(content[at[t]], buffer, NULL) = NULL THEN call.otherwise ELSE call.then
  <1>1. InCall(t, "ask") /\ Return(t, more) /\ UNCHANGED <<content, found, log_lock>>
    BY DEF FinishAsk
  <1>2. todo[t] # <<>> /\ call.kind = "ask"
    BY <1>1, InCallFacts
  <1>3. call \in MainCalls(phase) /\ phase # "listen"
    BY <1>2, Callers, HeadTyped, MainFacts
  <1>4. CASE phase \in FilePhases
    <2>1. more \in Seq(SetCalls({File}))
      BY <1>2, <1>3, <1>4, MainFacts
    <2>2. SetCalls({File}) \subseteq MainCalls(phase)
      BY <1>3, <1>4 DEF MainCalls, FileCalls
    <2> HIDE DEF more
    <2>3. more \in Seq(MainCalls(phase))
      BY <2>1, <2>2, SeqMonotone
    <2>4. Harmless(more)
      <3>1. \A i \in DOMAIN more : more[i] \in SetCalls({File})
        BY <2>1
      <3> QED BY <3>1, LaterFacts DEF Harmless
    <2> QED BY <1>1, <2>3, <2>4, MainCallWorks
  <1>5. CASE phase \notin FilePhases
    <2>1. more \in Seq(LaterCalls)
      BY <1>2, <1>3, <1>5, MainFacts
    <2>2. LaterCalls \subseteq MainCalls(phase)
      BY <1>3, <1>5 DEF MainCalls, LateCalls
    <2> HIDE DEF more
    <2>3. more \in Seq(MainCalls(phase))
      BY <2>1, <2>2
    <2>4. Harmless(more)
      BY <2>1, LaterFacts DEF Harmless
    <2> QED BY <1>1, <2>3, <2>4, MainCallWorks
  <1> QED BY <1>4, <1>5

LEMMA InheritWorks ==
    ASSUME TypeOK, Working, NEW t \in Threads, FinishInherit(t)
    PROVE  Working'
  <1> DEFINE call == Head(todo[t])
             set == Set(call.into, call.name, Get(content[at[t]], buffer, NULL))
  <1>1. InCall(t, "inherit") /\ Return(t, <<set>>) /\ UNCHANGED <<content, found, log_lock>>
    BY DEF FinishInherit
  <1>2. todo[t] # <<>> /\ call.kind = "inherit" /\ call \in AllCalls /\ at[t] = call.dict
    BY <1>1, InCallFacts
  <1>3. call \in MainCalls(phase) /\ phase # "listen" /\ phase \notin FilePhases
    BY <1>2, Callers, HeadTyped, MainFacts
  <1>4. call.into = Section /\ call.name \in Text /\ at[t] = File
    BY <1>2, KindFacts
  <1>5. Get(content[at[t]], buffer, NULL) \in Vals
    BY <1>4, GetTyped, DictsDistinct DEF TypeOK, Vals
  <1>6. set \in SetCalls({Section})
    BY <1>4, <1>5 DEF Set, SetCalls
  <1> HIDE DEF set
  <1>7. SetCalls({Section}) \subseteq LaterCalls /\ LaterCalls \subseteq MainCalls(phase)
    BY <1>3 DEF MainCalls, LateCalls, LaterCalls
  <1>8. <<set>> \in Seq(MainCalls(phase))
    BY <1>6, <1>7
  <1>9. Harmless(<<set>>)
    <2>1. set.kind # "listen" /\ (set.kind = "set" => set.dict \notin HostDicts)
      BY <1>6, <1>7, LaterFacts
    <2> QED BY <2>1 DEF Harmless
  <1> QED BY <1>1, <1>8, <1>9, MainCallWorks

LEMMA ListenWorks ==
    ASSUME TypeOK, Working, NEW t \in Threads, FinishListen(t)
    PROVE  Working'
  <1>1. InCall(t, "listen") /\ Finish(t) /\ UNCHANGED <<content, found, log_lock>>
    BY DEF FinishListen
  <1>2. t \in calling /\ todo[t] # <<>> /\ Head(todo[t]).kind = "listen"
    BY <1>1, InCallFacts
  <1>3. TodoOK' /\ \A u \in Threads \ {t} : todo'[u] = todo[u] \/ todo[u] = <<>>
    BY <1>2, MainListens
  <1>4. UNCHANGED <<file, config, freed, phase, section, hosts>>
    BY <1>1, FinishTypes
  <1>5. PhaseOK'
    BY <1>1, <1>4, PhaseKept DEF Working
  <1>6. found'[t] = NULL
    BY <1>1, <1>2 DEF Working, CallOK
  <1>7. \A u \in Threads : CallOK(u)'
    BY <1>1, <1>3, <1>6, FinishCalls
  <1> QED BY <1>3, <1>5, <1>7 DEF Working

-----------------------------------------------------------------------------
(* The steps of main between two lists of calls.  Its calls are done, so   *)
(* it is in none, and no listener's thread has one before it until there   *)
(* is a host.                                                              *)
LEMMA MainBetween ==
    ASSUME Working, todo[Main] = <<>>
    PROVE  Main \notin calling /\ found[Main] = NULL
  BY ThreadsDistinct DEF Working, CallOK

LEMMA MainGets ==
    ASSUME Working, NEW t \in Threads, todo[t] = <<>>, NEW calls, todo' = [todo EXCEPT ![t] = calls],
           UNCHANGED lookups, UNCHANGED config
    PROVE  \A u \in Threads : CallOK(u)'
  <1>1. UNCHANGED <<at, calling, found, log_lock>>
    BY DEF lookups
  <1>2. t \notin calling' /\ found'[t] = NULL
    BY <1>1 DEF Working, CallOK
  <1>3. \A u \in Threads \ {t} : todo'[u] = todo[u]
    BY DEF Working, TodoOK
  <1>4. \A u \in Threads \ {t} : CallOK(u)'
    BY <1>1, <1>3, CallKept DEF Working
  <1> QED BY <1>2, <1>4, NoCall

LEMMA MainTodo ==
    ASSUME TodoOK, todo[Main] = <<>>, phase' # "listen", NEW calls \in Seq(MainCalls(phase')),
           todo' = [todo EXCEPT ![Main] = calls],
           Len(hosts) \in Nat, Len(hosts') \in Nat, Len(hosts) <= Len(hosts'),
           \A i \in DOMAIN calls : calls[i].kind = "listen" =>
                /\ i = Len(calls)
                /\ calls[i].host \in 1 .. Len(hosts')
                /\ todo[Listener(calls[i].host)] = <<>>,
           \A n \in 1 .. Len(hosts) : NoSet(calls, HostDict(n))
    PROVE  TodoOK'
  <1>0. todo \in [Threads -> Seq(AllCalls)]
    BY DEF TodoOK
  <1>1. MainCalls(phase') \subseteq AllCalls
    BY MainFacts
  <1>2. calls \in Seq(AllCalls)
    BY <1>1
  <1>3. /\ todo'[Main] = calls /\ \A u \in Threads \ {Main} : todo'[u] = todo[u]
        /\ todo' \in [Threads -> Seq(AllCalls)]
    BY <1>0, <1>2, ThreadsDistinct
  <1>4. ListenLast'
    <2>1. SUFFICES ASSUME NEW i \in DOMAIN calls, calls[i].kind = "listen"
                   PROVE  /\ i = Len(calls)
                          /\ calls[i].host \in 1 .. Len(hosts')
                          /\ todo'[Listener(calls[i].host)] = <<>>
      BY <1>3 DEF ListenLast
    <2>2. calls[i] \in AllCalls
      BY <1>2
    <2>3. Listener(calls[i].host) \in Threads \ {Main}
      BY <2>1, <2>2, KindFacts, ThreadsDistinct
    <2> QED BY <2>1, <2>3, <1>3
  <1>5. ASSUME NEW n \in 1 .. MaxHosts
        PROVE  ListenerOK(n)'
    <2>1. todo'[Listener(n)] = todo[Listener(n)] /\ ListenerOK(n)
      BY <1>3, ThreadsDistinct DEF TodoOK
    <2>2. todo[Listener(n)] # <<>> => n \in 1 .. Len(hosts') /\ NoSet(calls, HostDict(n))
      BY <2>1, HostsAssumption DEF ListenerOK
    <2> QED BY <2>1, <2>2, <1>3 DEF ListenerOK
  <1>6. todo'[SocketThread] \in Seq({Log})
    BY <1>3, ThreadsDistinct DEF TodoOK
  <1> QED BY <1>3, <1>4, <1>5, <1>6 DEF TodoOK

(* Where nothing is listened to and no host is written to, that is all.    *)
LEMMA MainTodoHarmless ==
    ASSUME PhaseOK, TodoOK, todo[Main] = <<>>, phase' # "listen", NEW calls \in Seq(MainCalls(phase')),
           todo' = [todo EXCEPT ![Main] = calls], UNCHANGED hosts, Harmless(calls)
    PROVE  TodoOK'
  <1>1. Len(hosts) \in Nat
    BY DEF PhaseOK
  <1>2. \A n \in 1 .. Len(hosts) : NoSet(calls, HostDict(n))
    BY <1>1, HostsAssumption, DictsDistinct DEF NoSet, Harmless, PhaseOK
  <1>3. \A i \in DOMAIN calls : calls[i].kind # "listen"
    BY DEF Harmless
  <1>4. Len(hosts') \in Nat /\ Len(hosts) <= Len(hosts')
    BY <1>1
  <1>5. \A i \in DOMAIN calls : calls[i].kind = "listen" =>
            /\ i = Len(calls)
            /\ calls[i].host \in 1 .. Len(hosts')
            /\ todo[Listener(calls[i].host)] = <<>>
    BY <1>3
  <1> HIDE DEF NoSet
  <1> QED BY <1>1, <1>2, <1>4, <1>5, MainTodo

LEMMA OneLine == \A p : p = "listen" \/ p \in LatePhases => <<Log>> \in Seq(MainCalls(p)) /\ Harmless(<<Log>>)
  <1> SUFFICES ASSUME NEW p, p = "listen" \/ p \in LatePhases
               PROVE  <<Log>> \in Seq(MainCalls(p)) /\ Harmless(<<Log>>)
    OBVIOUS
  <1>1. Log \in MainCalls(p)
    BY DEF MainCalls, FirstCalls, LateCalls, LaterCalls, FilePhases, LatePhases
  <1>2. Log.kind = "log"
    BY DEF Log
  <1>3. <<Log>> \in Seq(MainCalls(p))
    BY <1>1
  <1>4. \A i \in DOMAIN <<Log>> : <<Log>>[i] = Log
    OBVIOUS
  <1> QED BY <1>2, <1>3, <1>4 DEF Harmless

LEMMA SocketStartsWorks ==
    ASSUME TypeOK, Working, StartSocketThread
    PROVE  Working'
  <1>1. /\ phase = "listen" /\ phase' = "load" /\ todo[Main] = <<>>
        /\ UNCHANGED <<file, content, config, freed, section, hosts>> /\ UNCHANGED lookups
    BY DEF StartSocketThread, MainAt, pointers, results
  <1>2. PhaseOK'
    BY <1>1 DEF Working, PhaseOK, FilePhases, LatePhases
  <1>3. todo \in [Threads -> Seq(AllCalls)] /\ todo[SocketThread] = <<>> /\ TodoOK
    BY <1>1 DEF Working, TodoOK
  <1>4. CASE todo' = [todo EXCEPT ![SocketThread] = <<Log>>]
    <2>1. \A u \in Threads : CallOK(u)'
      BY <1>1, <1>3, <1>4, MainGets, ThreadsDistinct
    <2>2. <<Log>> \in Seq(AllCalls) /\ <<Log>> \in Seq({Log}) /\ <<>> \in Seq(MainCalls("load"))
      <3>1. Log \in AllCalls
        BY DEF AllCalls, FirstCalls
      <3> QED BY <3>1
    <2>3. todo'[SocketThread] = <<Log>> /\ \A u \in Threads \ {SocketThread} : todo'[u] = todo[u]
      BY <1>3, <1>4, ThreadsDistinct
    <2>4. todo' \in [Threads -> Seq(AllCalls)]
      BY <1>3, <2>2, <2>3, <1>4
    <2>5. todo'[Main] = <<>>
      BY <1>1, <2>3, ThreadsDistinct
    <2>6. ListenLast'
      BY <2>5 DEF ListenLast
    <2>7. \A n \in 1 .. MaxHosts : ListenerOK(n)'
      <3> TAKE n \in 1 .. MaxHosts
      <3>1. todo'[Listener(n)] = todo[Listener(n)]
        BY <2>3, ThreadsDistinct
      <3> QED BY <1>1, <1>3, <2>5, <3>1, ThreadsDistinct DEF TodoOK, ListenerOK, NoSet
    <2>8. TodoOK'
      BY <1>1, <2>2, <2>3, <2>4, <2>5, <2>6, <2>7 DEF TodoOK
    <2> QED BY <1>2, <2>1, <2>8 DEF Working
  <1>5. CASE UNCHANGED todo
    <2>1. <<>> \in Seq(MainCalls("load"))
      OBVIOUS
    <2>2. TodoOK'
      <3>1. ListenLast'
        BY <1>1, <1>5 DEF ListenLast
      <3>2. \A n \in 1 .. MaxHosts : ListenerOK(n)'
        BY <1>1, <1>3, <1>5 DEF TodoOK, ListenerOK, NoSet
      <3> QED BY <1>1, <1>3, <1>5, <2>1, <3>1, <3>2 DEF TodoOK
    <2>3. \A u \in Threads : CallOK(u)'
      <3>1. UNCHANGED <<at, calling, found, log_lock, config>>
        BY <1>1 DEF lookups
      <3> QED BY <1>5, <3>1, CallKept DEF Working
    <2> QED BY <1>2, <2>2, <2>3 DEF Working
  <1> QED BY <1>4, <1>5 DEF StartSocketThread, Calls

LEMMA LoadWorks ==
    ASSUME TypeOK, Working, LoadFile
    PROVE  Working'
  <1>1. /\ phase = "load" /\ todo[Main] = <<>>
        /\ UNCHANGED <<file, content, config, freed, section, hosts>> /\ UNCHANGED lookups
    BY DEF LoadFile, MainAt, pointers, results
  <1>2. PhaseOK /\ TodoOK /\ file \in Files
    BY DEF Working, PhaseOK
  <1>3. CASE file = NULL
    <2>1. phase' = "idle" /\ todo' = [todo EXCEPT ![Main] = <<Log>>]
      BY <1>3 DEF LoadFile, Calls
    <2>2. PhaseOK'
      BY <1>1, <2>1 DEF Working, PhaseOK, FilePhases, LatePhases
    <2>3. TodoOK'
      BY <1>1, <1>2, <2>1, OneLine, MainTodoHarmless DEF LatePhases
    <2>4. \A u \in Threads : CallOK(u)'
      BY <1>1, <2>1, MainGets, ThreadsDistinct
    <2> QED BY <2>2, <2>3, <2>4 DEF Working
  <1>4. CASE file # NULL
    <2> DEFINE calls == [i \in DOMAIN file |-> Add(file[i])]
    <2>1. phase' = "merge" /\ todo' = [todo EXCEPT ![Main] = calls]
      BY <1>4 DEF LoadFile, Calls
    <2>2. PhaseOK'
      BY <1>1, <2>1 DEF Working, PhaseOK, FilePhases, LatePhases
    <2>3. file \in Seq(Line)
      BY <1>2, <1>4, FilesAssumption
    <2>4. ASSUME NEW i \in DOMAIN file
          PROVE  Add(file[i]) \in AddCalls
      <3>1. file[i] \in Line
        BY <2>3
      <3> QED BY <3>1 DEF Line, Add, AddCalls, Vals
    <2>5. calls \in Seq(AddCalls)
      <3>1. \E n \in Nat : DOMAIN file = 1 .. n
        BY <2>3
      <3> HIDE DEF calls
      <3>2. calls = [i \in DOMAIN file |-> Add(file[i])]
        BY DEF calls
      <3>3. PICK n \in Nat : DOMAIN file = 1 .. n
        BY <3>1
      <3>4. calls \in [1 .. n -> AddCalls]
        BY <2>4, <3>2, <3>3
      <3> QED BY <3>4
    <2> HIDE DEF calls
    <2>6. calls \in Seq(MainCalls("merge"))
      <3>1. AddCalls \subseteq MainCalls("merge")
        BY DEF MainCalls, FilePhases, FileCalls
      <3> QED BY <2>5, <3>1, SeqMonotone
    <2>7. Harmless(calls)
      <3>1. \A i \in DOMAIN calls : calls[i] \in AddCalls
        BY <2>5
      <3> QED BY <3>1 DEF Harmless, AddCalls
    <2>8. TodoOK'
      BY <1>1, <1>2, <2>1, <2>6, <2>7, MainTodoHarmless
    <2>9. \A u \in Threads : CallOK(u)'
      BY <1>1, <2>1, MainGets, ThreadsDistinct
    <2> QED BY <2>2, <2>8, <2>9 DEF Working
  <1> QED BY <1>3, <1>4

(* A copy of a dictionary.                                                 *)
LEMMA CopyTyped ==
    ASSUME NEW entries \in Seq(Entries), NEW d
    PROVE  Copy(d, entries) \in Seq(SetCalls({d}))
  <1>1. PICK n \in Nat : DOMAIN entries = 1 .. n
    OBVIOUS
  <1>2. ASSUME NEW i \in DOMAIN entries
        PROVE  Set(d, entries[i].key, entries[i].val) \in SetCalls({d})
    <2>1. entries[i] \in Entries
      OBVIOUS
    <2> QED BY <2>1 DEF Entries, Set, SetCalls, Vals
  <1>3. Copy(d, entries) \in [1 .. n -> SetCalls({d})]
    BY <1>1, <1>2 DEF Copy
  <1> DEFINE c == Copy(d, entries)
             S == SetCalls({d})
  <1> HIDE DEF c, S
  <1>4. c \in [1 .. n -> S]
    BY <1>3 DEF c, S
  <1>5. c \in Seq(S)
    BY <1>1, <1>4
  <1> QED BY <1>5 DEF c, S

LEMMA MergeWorks ==
    ASSUME TypeOK, Working, Merge, phase' # "crashed"
    PROVE  Working'
  <1>1. /\ phase = "merge" /\ todo[Main] = <<>> /\ phase' = "free" /\ config' = File
        /\ UNCHANGED <<file, content, freed, section, hosts>> /\ UNCHANGED lookups
    BY DEF Merge, MainAt, results
  <1>2. PhaseOK /\ TodoOK /\ hosts = <<>> /\ freed = {} /\ todo \in [Threads -> Seq(AllCalls)]
    BY <1>1 DEF Working, PhaseOK, TodoOK, LatePhases
  <1>3. PhaseOK'
    BY <1>1, <1>2 DEF PhaseOK, FilePhases, LatePhases
  <1> DEFINE over == Copy(File, content[Overrides])
             base == content[Defaults]
             missing == [i \in DOMAIN base |-> DefaultCall(base[i])]
             calls == over \o missing
  <1>4. todo' = [todo EXCEPT ![Main] = calls]
    BY <1>1 DEF Merge, Calls
  <1>5. over \in Seq(SetCalls({File})) /\ base \in Seq(Entries)
    BY CopyTyped, DictsDistinct DEF TypeOK
  <1> DEFINE S == SetCalls({File})
             A == SetCalls({File}) \cup AskCalls({File}, SetCalls({File}))
  <1>6. ASSUME NEW i \in DOMAIN base
        PROVE  DefaultCall(base[i]) \in A
    <2>1. base[i] \in Entries
      BY <1>5
    <2>2. Set(File, base[i].key, base[i].val) \in S /\ base[i].key \in Text
      BY <2>1 DEF Entries, Set, SetCalls, Vals
    <2>3. <<Set(File, base[i].key, base[i].val)>> \in Seq(S) /\ <<>> \in Seq(S)
      <3> HIDE DEF S
      <3> QED BY <2>2
    <2>4. DefaultCall(base[i]) \in AskCalls({File}, S)
      <3> HIDE DEF S
      <3> QED BY <2>2, <2>3 DEF DefaultCall, Ask, AskCalls
    <2> QED BY <2>4
  <1>7. missing \in Seq(A)
    <2>1. PICK n \in Nat : DOMAIN base = 1 .. n
      BY <1>5
    <2> HIDE DEF A, base
    <2>2. missing \in [1 .. n -> A]
      BY <2>1, <1>6
    <2> HIDE DEF missing
    <2> QED BY <2>1, <2>2
  <1>8. over \in Seq(A)
    <2>1. S \subseteq A
      OBVIOUS
    <2> HIDE DEF A, over
    <2> QED BY <2>1, <1>5, SeqMonotone DEF S
  <1>9. A \subseteq MainCalls("free")
    BY DEF MainCalls, FilePhases, FileCalls
  <1>10. \A c \in A : c.kind # "listen" /\ (c.kind = "set" => c.dict \notin HostDicts)
    BY DictsDistinct DEF SetCalls, AskCalls
  <1> HIDE DEF A, over, missing
  <1>11. calls \in Seq(A)
    BY <1>7, <1>8
  <1> HIDE DEF calls
  <1>12. calls \in Seq(MainCalls("free"))
    BY <1>9, <1>11, SeqMonotone
  <1>13. Harmless(calls)
    <2>1. \A i \in DOMAIN calls : calls[i] \in A
      BY <1>11
    <2> QED BY <2>1, <1>10 DEF Harmless
  <1>14. TodoOK'
    BY <1>1, <1>2, <1>4, <1>12, <1>13, MainTodoHarmless
  <1>15. ASSUME NEW u \in Threads
         PROVE  CallOK(u)'
    <2>1. CallOK(u) /\ UNCHANGED <<at, calling, found, log_lock>>
      BY <1>1 DEF Working, lookups
    <2>2. CASE u = Main
      BY <2>1, <2>2, <1>1, MainBetween, NoCall
    <2>3. CASE u = SocketThread
      <3>1. todo'[u] = todo[u]
        BY <2>3, <1>2, <1>4, ThreadsDistinct
      <3> QED BY <2>1, <2>3, <3>1 DEF CallOK
    <2>4. ASSUME NEW n \in 1 .. MaxHosts, u = Listener(n)
          PROVE  CallOK(u)'
      <3>1. todo[u] = <<>>
        BY <2>4, <1>2 DEF TodoOK, ListenerOK
      <3>2. u \notin calling' /\ found'[u] = NULL
        BY <2>1, <3>1 DEF CallOK
      <3> QED BY <3>2, NoCall
    <2> QED BY <2>2, <2>3, <2>4, ThreadsDistinct
  <1> QED BY <1>3, <1>14, <1>15 DEF Working

LEMMA LineStepsWork ==
    ASSUME TypeOK, Working, FreeDictionaries \/ LoadModules
    PROVE  Working'
  <1>1. /\ phase \in {"free", "modules"} /\ todo[Main] = <<>> /\ phase' \in {"modules", "sections"}
        /\ UNCHANGED <<file, content, config, section, hosts>> /\ UNCHANGED lookups
        /\ UNCHANGED freed \/ phase = "free"
    BY DEF FreeDictionaries, LoadModules, MainAt, pointers, results
  <1>2. PhaseOK /\ TodoOK
    BY DEF Working
  <1>3. PhaseOK'
    BY <1>1, <1>2 DEF PhaseOK, FilePhases, LatePhases
  <1>4. PICK calls \in {<<>>, <<Log>>} : todo' = [todo EXCEPT ![Main] = calls]
    BY DEF FreeDictionaries, LoadModules, Calls
  <1>5. calls \in Seq(MainCalls(phase')) /\ Harmless(calls)
    BY <1>1, <1>4, OneLine, NothingHarmless DEF LatePhases
  <1>6. TodoOK'
    BY <1>1, <1>2, <1>4, <1>5, MainTodoHarmless
  <1>7. \A u \in Threads : CallOK(u)'
    BY <1>1, <1>4, MainGets, ThreadsDistinct
  <1> QED BY <1>3, <1>6, <1>7 DEF Working

(* init_host_'s calls.                                                     *)
LEMMA InitHostTyped ==
    ASSUME NEW name \in Text
    PROVE  InitHost(Section, name) \in
                Seq(SetCalls({Section}) \cup AskCalls({Section}, InheritCalls))
  <1> DEFINE I == InheritCalls
             A == SetCalls({Section}) \cup AskCalls({Section}, I)
             none == <<>>
             instance == <<"instance">>
             cluster == <<"cluster">>
  <1>1. instance \in Text /\ cluster \in Text /\ <<"name">> \in Text /\ Instance \in Text /\ Cluster \in Text
    BY KnownText
  <1>2. Set(Section, <<"name">>, name) \in A
    BY <1>1 DEF Set, SetCalls, Vals
  <1> HIDE DEF instance, cluster
  <1>3. Inherit(Section, instance, Instance) \in I /\ Inherit(Section, cluster, Cluster) \in I
    BY <1>1 DEF Inherit, InheritCalls
  <1> HIDE DEF I
  <1>4. /\ <<Inherit(Section, instance, Instance)>> \in Seq(I) /\ <<Inherit(Section, cluster, Cluster)>> \in Seq(I)
        /\ none \in Seq(I)
    BY <1>3
  <1> HIDE DEF none
  <1>5. /\ Ask(Section, instance, none, <<Inherit(Section, instance, Instance)>>) \in A
        /\ Ask(Section, cluster, none, <<Inherit(Section, cluster, Cluster)>>) \in A
    BY <1>1, <1>4 DEF Ask, AskCalls
  <1> HIDE DEF A
  <1>6. <<Set(Section, <<"name">>, name),
          Ask(Section, instance, none, <<Inherit(Section, instance, Instance)>>),
          Ask(Section, cluster, none, <<Inherit(Section, cluster, Cluster)>>)>> \in Seq(A)
    BY <1>2, <1>5
  <1>7. InitHost(Section, name) \in Seq(A)
    BY <1>6 DEF InitHost, instance, cluster, none
  <1> QED BY <1>7 DEF A, I

LEMMA SectionWorks ==
    ASSUME TypeOK, Working, NextSection
    PROVE  Working'
  <1> DEFINE entries == content[File]
             next == {i \in section + 1 .. Len(entries) : IsContainer(entries[i])}
  <1>1. /\ phase = "sections" /\ todo[Main] = <<>>
        /\ UNCHANGED <<file, config, freed, hosts>> /\ UNCHANGED lookups
    BY DEF NextSection, MainAt, pointers
  <1>2. PhaseOK /\ TodoOK /\ section \in Nat /\ hosts \in Seq(Text) /\ Len(hosts) <= MaxHosts
    BY DEF Working, PhaseOK
  <1>3. CASE next = {} \/ Len(hosts) = MaxHosts
    <2>1. phase' = "idle" /\ todo' = [todo EXCEPT ![Main] = <<Log>>] /\ UNCHANGED <<content, section>>
      BY <1>3 DEF NextSection, Calls
    <2>2. PhaseOK'
      BY <1>1, <1>2, <2>1 DEF PhaseOK, FilePhases, LatePhases
    <2>3. TodoOK'
      BY <1>1, <1>2, <2>1, OneLine, MainTodoHarmless DEF LatePhases
    <2>4. \A u \in Threads : CallOK(u)'
      BY <1>1, <2>1, MainGets, ThreadsDistinct
    <2> QED BY <2>2, <2>3, <2>4 DEF Working
  <1>4. CASE ~(next = {} \/ Len(hosts) = MaxHosts)
    <2> DEFINE place == Min(next)
               own == OwnSettings(entries, place)
               init == InitHost(Section, Tail(entries[place].key))
               calls == own \o <<Log>> \o init
    <2>1. /\ section' = place /\ content' = [content EXCEPT ![Section] = <<>>]
          /\ todo' = [todo EXCEPT ![Main] = calls] /\ phase' = "host"
      BY <1>4 DEF NextSection, Calls
    <2>2. entries \in Seq(Entries) /\ content \in [Dicts -> Seq(Entries)]
      BY DictsDistinct DEF TypeOK
    <2>3. place \in next
      <3>1. next \in SUBSET Nat
        BY <1>2, <2>2
      <3>2. next # {}
        BY <1>4
      <3> HIDE DEF next
      <3> QED BY <3>1, <3>2, FirstPlace
    <2>4. place \in DOMAIN entries /\ place \in Nat /\ IsContainer(entries[place])
      BY <1>2, <2>2, <2>3
    <2>5. content'[File] = entries
      BY <2>1, <2>2, DictsDistinct
    <2>6. Len(hosts) < MaxHosts
      BY <1>2, <1>4, HostsAssumption
    <2> HIDE DEF place
    <2>7. PhaseOK'
      BY <1>1, <1>2, <2>1, <2>4, <2>5, <2>6 DEF PhaseOK, FilePhases, LatePhases
    <2> DEFINE A == {Log} \cup SetCalls({Section}) \cup AskCalls({Section}, InheritCalls)
    <2>8. own \in Seq(SetCalls({Section}))
      BY <2>2, <2>4, OwnSettingsTyped
    <2>9. init \in Seq(SetCalls({Section}) \cup AskCalls({Section}, InheritCalls))
      <3>1. entries[place] \in Entries
        BY <2>2, <2>4
      <3>2. entries[place].key \in Seq(Names) /\ Len(entries[place].key) > 1
        BY <2>4, <3>1 DEF IsContainer, Entries, Text
      <3>3. Tail(entries[place].key) \in Text
        BY <3>2 DEF Text
      <3> QED BY <3>3, InitHostTyped
    <2>10. own \in Seq(A) /\ init \in Seq(A) /\ <<Log>> \in Seq(A)
      <3>1. SetCalls({Section}) \subseteq A /\ SetCalls({Section}) \cup AskCalls({Section}, InheritCalls) \subseteq A /\ Log \in A
        OBVIOUS
      <3> HIDE DEF A, own, init
      <3>2. own \in Seq(A)
        BY <2>8, <3>1, SeqMonotone
      <3>3. init \in Seq(A)
        BY <2>9, <3>1, SeqMonotone
      <3> QED BY <3>1, <3>2, <3>3
    <2>11. A \subseteq MainCalls("host")
      <3>1. AskCalls({Section}, InheritCalls) \subseteq AskCalls({Section} \cup HostDicts, LaterCalls)
        <4>1. Seq(InheritCalls) \subseteq Seq(LaterCalls)
          <5>1. InheritCalls \subseteq LaterCalls
            BY DEF LaterCalls
          <5> QED BY <5>1, SeqMonotone
        <4> QED BY <4>1 DEF AskCalls
      <3> QED BY <3>1 DEF MainCalls, FilePhases, LateCalls, LaterCalls
    <2>12. \A c \in A : c.kind # "listen" /\ (c.kind = "set" => c.dict \notin HostDicts)
      BY DictsDistinct DEF Log, SetCalls, AskCalls
    <2> HIDE DEF A, own, init
    <2>13. calls \in Seq(A)
      BY <2>10
    <2> HIDE DEF calls
    <2>14. calls \in Seq(MainCalls("host"))
      BY <2>11, <2>13, SeqMonotone
    <2>15. Harmless(calls)
      <3>1. \A i \in DOMAIN calls : calls[i] \in A
        BY <2>13
      <3> QED BY <3>1, <2>12 DEF Harmless
    <2>16. TodoOK'
      BY <1>1, <1>2, <2>1, <2>14, <2>15, MainTodoHarmless
    <2>17. \A u \in Threads : CallOK(u)'
      BY <1>1, <2>1, MainGets, ThreadsDistinct
    <2> QED BY <2>7, <2>16, <2>17 DEF Working
  <1> QED BY <1>3, <1>4

(* host_add's calls before and after the dictionary is copied.             *)
LEMMA HandlerTyped ==
    Handler \in Seq(AskCalls({Section} \cup HostDicts, LaterCalls))
  <1> DEFINE L == LaterCalls
             A == AskCalls({Section} \cup HostDicts, L)
             none == <<>>
             name == <<"name">>
             handler == <<"handler">>
  <1>1. name \in Text /\ handler \in Text
    BY KnownText
  <1>2. none \in Seq(L)
    OBVIOUS
  <1> HIDE DEF name, handler, none, L
  <1>3. Ask(Section, name, none, none) \in A /\ Ask(Section, handler, none, none) \in A
    BY <1>1, <1>2 DEF Ask, AskCalls
  <1> HIDE DEF A
  <1>4. <<Ask(Section, name, none, none), Ask(Section, handler, none, none)>> \in Seq(A)
    BY <1>3
  <1> QED BY <1>4 DEF Handler, name, handler, none, A, L

LEMMA WorkerAskTyped ==
    ASSUME NEW n \in 1 .. MaxHosts
    PROVE  Ask(HostDict(n), <<"minworkers">>, <<Log>> \o Populate(HostDict(n)), <<>>)
                \in AskCalls({Section} \cup HostDicts, LaterCalls)
  <1> DEFINE L == LaterCalls
             none == <<>>
             key == <<"minworkers">>
             asks == InfoCalls({HostDict(n)})
             create == <<Log>> \o Populate(HostDict(n))
  <1>1. key \in Text /\ HostDict(n) \in HostDicts /\ none \in Seq(L)
    BY KnownText, DictsDistinct
  <1>2. asks \subseteq L /\ Log \in L
    BY <1>1 DEF InfoCalls, LaterCalls
  <1> DEFINE p == Populate(HostDict(n))
  <1>3. p \in Seq(asks)
    BY StartTyped
  <1> HIDE DEF p, asks, L
  <1>4. p \in Seq(L) /\ <<Log>> \in Seq(L)
    BY <1>2, <1>3, SeqMonotone
  <1>5. <<Log>> \o p \in Seq(L)
    BY <1>4
  <1>6. create \in Seq(L)
    BY <1>5 DEF p
  <1> HIDE DEF create, key, none
  <1>7. Ask(HostDict(n), key, create, none) \in AskCalls({Section} \cup HostDicts, L)
    BY <1>1, <1>6 DEF Ask, AskCalls
  <1> QED BY <1>7 DEF create, key, none, L

(* Where a call is the last of a list.                                     *)
LEMMA LastOf ==
    ASSUME NEW A, NEW front \in Seq(A), NEW B, NEW a \in B, NEW b \in B, NEW c \in B
    PROVE  /\ front \o <<a, b, c>> \in Seq(A \cup B)
           /\ Len(front \o <<a, b, c>>) = Len(front) + 3
           /\ \A i \in DOMAIN (front \o <<a, b, c>>) :
                \/ (front \o <<a, b, c>>)[i] \in A
                \/ (front \o <<a, b, c>>)[i] \in {a, b}
                \/ (front \o <<a, b, c>>)[i] = c /\ i = Len(front \o <<a, b, c>>)
  <1> DEFINE end == <<a, b, c>>
             U == A \cup B
  <1>1. end \in Seq(U) /\ Len(end) = 3 /\ end[1] = a /\ end[2] = b /\ end[3] = c
    OBVIOUS
  <1>2. front \in Seq(U)
    OBVIOUS
  <1>3. \A i \in 1 .. Len(front) : front[i] \in A
    OBVIOUS
  <1> HIDE DEF end, U
  <1>4. front \o end \in Seq(U) /\ Len(front \o end) = Len(front) + 3
    <2>1. Len(front \o end) = Len(front) + Len(end)
      BY <1>1, <1>2, ConcatProperties
    <2>2. front \o end \in Seq(U)
      BY <1>1, <1>2
    <2> QED BY <1>1, <2>1, <2>2
  <1>5. ASSUME NEW i \in DOMAIN (front \o end)
        PROVE  \/ (front \o end)[i] \in A
               \/ (front \o end)[i] \in {a, b}
               \/ (front \o end)[i] = c /\ i = Len(front \o end)
    <2>1. i \in 1 .. Len(front) + 3 /\ Len(front) \in Nat
      BY <1>2, <1>4
    <2>2. CASE i <= Len(front)
      <3>1. (front \o end)[i] = front[i]
        BY <2>1, <2>2, <1>1, <1>2
      <3> QED BY <3>1, <2>1, <2>2, <1>3
    <2>3. CASE i > Len(front)
      <3>1. (front \o end)[i] = end[i - Len(front)]
        BY <2>1, <2>3, <1>1, <1>2
      <3>2. i - Len(front) \in {1, 2, 3}
        BY <2>1, <2>3
      <3>3. i - Len(front) = 3 => i = Len(front \o end)
        BY <2>1, <1>4
      <3> QED BY <3>1, <3>2, <3>3, <1>1
    <2> QED BY <2>1, <2>2, <2>3
  <1> QED BY <1>4, <1>5 DEF end, U

LEMMA AddHostWorks ==
    ASSUME TypeOK, Working, AddHost
    PROVE  Working'
  <1> DEFINE n == Len(hosts) + 1
             d == HostDict(n)
             copy == Copy(d, content[Section])
             front == Handler \o <<Log>> \o copy
             ask == Ask(d, <<"minworkers">>, <<Log>> \o Populate(d), <<>>)
             listen == Listen(n)
             calls == front \o <<ask, Log, listen>>
             key == content[File][section].key
  <1>1. /\ phase = "host" /\ todo[Main] = <<>> /\ phase' = "sections" /\ hosts' = Append(hosts, key)
        /\ UNCHANGED <<file, content, config, freed, section>> /\ UNCHANGED lookups
    BY DEF AddHost, MainAt, pointers
  <1>2. /\ PhaseOK /\ TodoOK /\ section \in DOMAIN content[File] /\ config = File
        /\ hosts \in Seq(Text) /\ Len(hosts) < MaxHosts
    BY <1>1 DEF Working, PhaseOK
  <1>3. key \in Text
    <2>1. content[File] \in Seq(Entries)
      BY DictsDistinct DEF TypeOK
    <2>2. content[File][section] \in Entries
      BY <1>2, <2>1
    <2> QED BY <2>2 DEF Entries
  <1> HIDE DEF key
  <1>4. hosts' \in Seq(Text) /\ Len(hosts') = n /\ n \in 1 .. MaxHosts /\ Len(hosts) \in Nat
    BY <1>1, <1>2, <1>3, HostsAssumption
  <1>5. PhaseOK'
    BY <1>1, <1>2, <1>4 DEF PhaseOK, FilePhases, LatePhases
  <1>6. todo' = [todo EXCEPT ![Main] = calls]
    <2>1. todo' = [todo EXCEPT ![Main] = Handler \o <<Log>> \o copy \o <<ask, Log, listen>>]
      BY DEF AddHost, Calls
    <2> QED BY <2>1
  <1> DEFINE Asks == AskCalls({Section} \cup HostDicts, LaterCalls)
             F == Asks \cup {Log} \cup SetCalls({d})
             B == Asks \cup {Log} \cup ListenCalls
  <1>7. front \in Seq(F)
    <2>1. Asks \subseteq F /\ Log \in F /\ SetCalls({d}) \subseteq F
      OBVIOUS
    <2>2. Handler \in Seq(Asks)
      BY HandlerTyped
    <2>3. copy \in Seq(SetCalls({d}))
      BY CopyTyped, DictsDistinct DEF TypeOK
    <2> HIDE DEF F, Asks, copy
    <2>4. Handler \in Seq(F) /\ copy \in Seq(F) /\ <<Log>> \in Seq(F)
      BY <2>1, <2>2, <2>3, SeqMonotone
    <2> QED BY <2>4
  <1>8. ask \in B /\ Log \in B /\ listen \in B /\ ask.kind = "ask" /\ Log.kind = "log"
    <2>1. ask \in Asks
      BY <1>4, WorkerAskTyped
    <2>2. listen \in ListenCalls
      BY <1>4, KnownText DEF Listen, ListenCalls
    <2> QED BY <2>1, <2>2 DEF Ask, Log
  <1>9. \A c \in F : c.kind # "listen" /\ (c.kind = "set" => c.dict = d)
    BY DEF AskCalls, Log, SetCalls
  <1>10. listen.kind = "listen" /\ listen.host = n
    BY DEF Listen
  <1>11. F \cup B \subseteq MainCalls("sections")
    <2>1. d \in HostDicts
      BY <1>4, DictsDistinct
    <2>2. SetCalls({d}) \subseteq SetCalls(HostDicts)
      BY <2>1 DEF SetCalls
    <2>3. MainCalls("sections") = LateCalls
      BY DEF MainCalls, FilePhases
    <2>4. Log \in LateCalls
      BY DEF LateCalls, LaterCalls
    <2> QED BY <2>2, <2>3, <2>4 DEF LateCalls
  <1> HIDE DEF F, B, Asks, front, ask, listen
  <1>12. /\ calls \in Seq(F \cup B)
         /\ \A i \in DOMAIN calls :
                calls[i] \in F \/ calls[i] \in {ask, Log} \/ (calls[i] = listen /\ i = Len(calls))
    BY <1>7, <1>8, LastOf
  <1> HIDE DEF calls
  <1>13. calls \in Seq(MainCalls("sections"))
    BY <1>11, <1>12, SeqMonotone
  <1>14. todo[Listener(n)] = <<>>
    <2>1. n \notin 1 .. Len(hosts)
      BY <1>4
    <2> QED BY <1>2, <1>4, <2>1 DEF TodoOK, ListenerOK
  <1>15. \A i \in DOMAIN calls : calls[i].kind = "listen" => i = Len(calls) /\ calls[i].host = n
    BY <1>8, <1>9, <1>10, <1>12
  <1>16. ASSUME NEW m \in 1 .. Len(hosts)
         PROVE  NoSet(calls, HostDict(m))
    <2>1. m \in 1 .. MaxHosts /\ m # n
      BY <1>2, <1>4, HostsAssumption
    <2>2. HostDict(m) # d
      BY <1>4, <2>1, DictsDistinct
    <2>3. \A i \in DOMAIN calls : calls[i].kind = "set" => calls[i].dict = d
      BY <1>8, <1>9, <1>10, <1>12
    <2> QED BY <2>2, <2>3 DEF NoSet
  <1>17. TodoOK'
    <2>1. phase' # "listen" /\ Len(hosts') \in Nat /\ Len(hosts) <= Len(hosts') /\ n \in 1 .. Len(hosts')
      BY <1>1, <1>4
    <2>2. \A i \in DOMAIN calls : calls[i].kind = "listen" =>
            /\ i = Len(calls)
            /\ calls[i].host \in 1 .. Len(hosts')
            /\ todo[Listener(calls[i].host)] = <<>>
      BY <1>14, <1>15, <2>1
    <2>3. calls \in Seq(MainCalls(phase'))
      BY <1>1, <1>13
    <2> HIDE DEF n
    <2> QED BY <1>1, <1>2, <1>4, <1>6, <1>16, <2>1, <2>2, <2>3, MainTodo
  <1>18. \A u \in Threads : CallOK(u)'
    BY <1>1, <1>6, MainGets, ThreadsDistinct
  <1> QED BY <1>5, <1>17, <1>18 DEF Working

LEMMA HostFailsWorks ==
    ASSUME TypeOK, Working, HostFails
    PROVE  Working'
  <1> DEFINE calls == Handler \o <<Log>>
             A == AskCalls({Section} \cup HostDicts, LaterCalls) \cup {Log}
  <1>1. /\ phase = "host" /\ todo[Main] = <<>> /\ phase' = "sections" /\ todo' = [todo EXCEPT ![Main] = calls]
        /\ UNCHANGED <<file, content, config, freed, section, hosts>> /\ UNCHANGED lookups
    BY DEF HostFails, MainAt, pointers, results, Calls
  <1>2. PhaseOK /\ TodoOK
    BY DEF Working
  <1>3. PhaseOK'
    BY <1>1, <1>2 DEF PhaseOK, FilePhases, LatePhases
  <1>4. AskCalls({Section} \cup HostDicts, LaterCalls) \subseteq A /\ Log \in A
    OBVIOUS
  <1>5. A \subseteq MainCalls("sections")
    BY DEF MainCalls, FilePhases, LateCalls, LaterCalls
  <1>6. \A c \in A : c.kind \notin {"listen", "set"}
    BY DEF AskCalls, Log
  <1> HIDE DEF A
  <1>7. Handler \in Seq(A)
    BY <1>4, HandlerTyped, SeqMonotone
  <1>8. calls \in Seq(A)
    BY <1>4, <1>7
  <1> HIDE DEF calls
  <1>9. calls \in Seq(MainCalls("sections"))
    BY <1>5, <1>8, SeqMonotone
  <1>10. Harmless(calls)
    <2>1. \A i \in DOMAIN calls : calls[i] \in A
      BY <1>8
    <2> QED BY <2>1, <1>6 DEF Harmless
  <1>11. TodoOK'
    BY <1>1, <1>2, <1>9, <1>10, MainTodoHarmless
  <1>12. \A u \in Threads : CallOK(u)'
    BY <1>1, MainGets, ThreadsDistinct
  <1> QED BY <1>3, <1>11, <1>12 DEF Working

-----------------------------------------------------------------------------
(* Who refers to what while main writes: the invariant confines the reads. *)
LEMMA ReadsConfinedNow == TypeOK /\ Working => UnsafeReadsConfined
  <1> SUFFICES ASSUME TypeOK, Working, NEW t \in calling,
                      at[t] \in freed \/ \E u \in Threads \ {t} : Writes(u) /\ at[u] = at[t]
               PROVE  t = SocketThread /\ log_lock = t /\ at[t] = IF at[t] \in freed THEN Defaults ELSE File
    BY DEF UnsafeReadsConfined
  <1>1. t \in Threads /\ freed \subseteq {Defaults, Overrides}
    BY DEF TypeOK
  <1>2. CallOK(t) /\ todo[t] # <<>> /\ PhaseOK /\ TodoOK
    BY <1>1 DEF Working, CallOK
  <1> DEFINE call == Head(todo[t])
  <1>3. call \in AllCalls
    BY <1>1, <1>2, HeadTyped
  (* A call that is no log line.                                           *)
  <1>4. ASSUME call.kind # "log"
        PROVE  FALSE
    <2>1. at[t] = call.dict
      BY <1>2, <1>4 DEF CallOK
    <2>2. CASE t = Main
      <3>1. call \in MainCalls(phase)
        BY <1>1, <1>2, <2>2, HeadTyped
      <3>2. ASSUME NEW u \in Threads \ {t}
            PROVE  ~Writes(u)
        <4>1. ASSUME Writes(u)
              PROVE  FALSE
          <5>1. todo[u] # <<>> /\ Head(todo[u]).kind \in {"add", "set"}
            BY <4>1 DEF Writes, Working, CallOK
          <5>2. u = Main
            BY <5>1, Callers
          <5> QED BY <2>2, <5>2
        <4> QED BY <4>1
      <3>3. at[t] \in freed
        BY <3>2
      <3>4. phase \in LatePhases
        BY <1>2, <3>3 DEF PhaseOK
      <3>5. phase # "listen" /\ phase \notin FilePhases
        BY <3>4 DEF LatePhases, FilePhases
      <3>6. call.dict \in {File, Section} \cup HostDicts
        BY <1>3, <1>4, <3>1, <3>5, KindFacts, MainFacts
      <3> QED BY <1>1, <2>1, <3>3, <3>6, DictsDistinct
    <2>3. CASE t = SocketThread
      BY <1>2, <1>4, <2>3, HeadTyped, ThreadsDistinct DEF Log
    <2>4. ASSUME NEW n \in 1 .. MaxHosts, t = Listener(n)
          PROVE  FALSE
      <3>1. call.kind = "info" /\ call.dict = HostDict(n)
        BY <1>1, <1>2, <1>4, <2>4, HeadTyped, ListenerFacts DEF Log
      <3>2. at[t] \notin freed
        BY <1>1, <2>1, <2>4, <3>1, DictsDistinct
      <3>3. PICK u \in Threads \ {t} : Writes(u) /\ at[u] = HostDict(n)
        BY <2>1, <3>1, <3>2
      <3>4. u \in calling /\ todo[u] # <<>> /\ Head(todo[u]).kind \in {"add", "set"} /\ at[u] = Head(todo[u]).dict
        BY <3>3 DEF Writes, Working, CallOK
      <3>5. u = Main /\ Head(todo[u]) = todo[u][1] /\ 1 \in DOMAIN todo[u] /\ Head(todo[u]) \in AllCalls
        BY <3>4, Callers, HeadTyped
      <3>6. Head(todo[u]).kind = "set"
        <4>1. Head(todo[u]).dict # File
          BY <3>3, <3>4, DictsDistinct
        <4>2. Head(todo[u]).kind # "add"
          BY <3>5, <4>1, KindFacts
        <4> QED BY <3>4, <4>2
      <3>7. NoSet(todo[Main], HostDict(n))
        BY <1>2, <2>4 DEF TodoOK, ListenerOK
      <3> QED BY <3>3, <3>4, <3>5, <3>6, <3>7 DEF NoSet
    <2> QED BY <1>1, <2>2, <2>3, <2>4, ThreadsDistinct
  (* A log line.                                                           *)
  <1>5. ASSUME call.kind = "log"
        PROVE  t = SocketThread /\ log_lock = t /\ at[t] = IF at[t] \in freed THEN Defaults ELSE File
    <2>1. /\ log_lock = t /\ at[t] \in {Defaults, File}
          /\ at[t] = Defaults /\ t # SocketThread => config = NULL
      BY <1>2, <1>5 DEF CallOK
    <2>2. CASE at[t] \in freed
      <3>1. at[t] = Defaults
        BY <1>1, <2>1, <2>2, DictsDistinct
      <3>2. config = File
        BY <1>2, <2>2 DEF PhaseOK
      <3> QED BY <2>1, <2>2, <3>1, <3>2, DictsDistinct
    <2>3. CASE at[t] \notin freed
      <3>1. PICK u \in Threads \ {t} : Writes(u) /\ at[u] = at[t]
        BY <2>3
      <3>2. u \in calling /\ todo[u] # <<>> /\ Head(todo[u]).kind \in {"add", "set"} /\ at[u] = Head(todo[u]).dict
        BY <3>1 DEF Writes, Working, CallOK
      <3>3. u = Main /\ Head(todo[u]) \in MainCalls(phase)
        BY <3>2, Callers, HeadTyped
      <3>4. Head(todo[u]).dict \in {Defaults, File}
        BY <2>1, <3>1, <3>2
      <3>5. phase \in {"listen"} \cup FilePhases
        BY <3>2, <3>3, <3>4, MainFacts, DictsDistinct
      <3>6. t = SocketThread
        <4>1. hosts = <<>>
          BY <1>2, <3>5 DEF PhaseOK, FilePhases, LatePhases
        <4>2. ASSUME NEW n \in 1 .. MaxHosts, t = Listener(n)
              PROVE  FALSE
          <5>1. n \in 1 .. Len(hosts)
            BY <1>2, <4>2 DEF TodoOK, ListenerOK
          <5>2. Len(hosts) = 0
            BY <4>1
          <5> QED BY <5>1, <5>2
        <4> QED BY <1>1, <3>1, <3>3, <4>2, ThreadsDistinct
      <3>7. phase # "listen"
        BY <1>2, <3>6 DEF TodoOK
      <3>8. Head(todo[u]).dict = File
        <4>1. phase \in FilePhases
          BY <3>5, <3>7
        <4> QED BY <3>2, <3>3, <4>1, MainFacts, KindFacts
      <3> QED BY <2>1, <2>3, <3>1, <3>2, <3>6, <3>8
    <2> QED BY <2>2, <2>3
  <1> QED BY <1>4, <1>5

-----------------------------------------------------------------------------
(* The invariant holds at the start, and every step keeps it.              *)
LEMMA InitWorks ==
    ASSUME Init
    PROVE  IInv
  <1>1. TypeOK
    <2>1. content \in [Dicts -> Seq(Entries)]
      <3> DEFINE S == Seq(Entries)
      <3>1. <<>> \in S
        OBVIOUS
      <3> HIDE DEF S
      <3>2. content \in [Dicts -> S]
        BY <3>1 DEF Init
      <3> QED BY <3>2 DEF S
    <2>2. freed = {} /\ defaults \in {Defaults, NULL} /\ overrides \in {Overrides, NULL} /\ config = NULL
      BY DEF Init
    <2>3. parsed \in Text /\ buffer \in Text
      BY KnownText DEF Init
    <2>4. at \in [Threads -> Dicts \cup {NULL}] /\ found \in [Threads -> Text \cup {NULL}]
          /\ \A t \in Threads : found[t] = NULL
      BY DEF Init
    <2>5. calling = {} /\ writer \in Threads /\ raced \in BOOLEAN /\ log_lock = NULL
      BY ThreadsDistinct DEF Init
    <2>6. info \in [Threads -> [Fields -> Text \cup {NULL}]]
      BY DEF Init, NoInfo
    <2> QED BY <2>1, <2>2, <2>3, <2>4, <2>5, <2>6 DEF TypeOK
  <1>2. PhaseOK
    <2>1. /\ phase = "listen" /\ config = NULL /\ freed = {} /\ hosts = <<>> /\ section = 0 /\ file \in Files
      BY DEF Init
    <2>2. hosts \in Seq(Text) /\ Len(hosts) = 0
      BY <2>1
    <2> QED BY <2>1, <2>2, HostsAssumption DEF PhaseOK, FilePhases, LatePhases
  <1>3. TodoOK
    <2> DEFINE F == FirstCalls
               first == <<Set(defaults, Instance, Hostname), Set(defaults, Cluster, Private), Log>>
    <2>1. first \in Seq(F)
      <3>1. defaults \in {Defaults, NULL}
        BY DEF Init
      <3>2. Set(defaults, Instance, Hostname) \in F /\ Set(defaults, Cluster, Private) \in F /\ Log \in F
        BY <3>1, KnownText DEF FirstCalls, Set, SetCalls, Vals
      <3> HIDE DEF F
      <3> QED BY <3>2
    <2>2. \A i \in DOMAIN first : first[i].kind # "listen"
      <3>1. \A c \in F : c.kind # "listen"
        BY DEF FirstCalls, SetCalls, Log
      <3> HIDE DEF F, first
      <3> QED BY <2>1, <3>1
    <2>3. todo = [t \in Threads |-> IF t = Main THEN first ELSE <<>>] /\ phase = "listen"
      BY DEF Init
    <2> HIDE DEF first
    <2>4. /\ todo[Main] = first /\ todo[SocketThread] = <<>>
          /\ \A n \in 1 .. MaxHosts : todo[Listener(n)] = <<>>
      BY <2>3, ThreadsDistinct
    <2>5. F \subseteq AllCalls /\ F = MainCalls("listen")
      BY DEF AllCalls, MainCalls
    <2> HIDE DEF F
    <2>6. first \in Seq(AllCalls) /\ <<>> \in Seq(AllCalls) /\ <<>> \in Seq({Log})
      BY <2>1, <2>5, SeqMonotone
    <2>7. todo \in [Threads -> Seq(AllCalls)]
      <3> DEFINE S == Seq(AllCalls)
      <3>1. first \in S /\ <<>> \in S
        BY <2>6
      <3> HIDE DEF S
      <3>2. todo \in [Threads -> S]
        BY <2>3, <3>1
      <3> QED BY <3>2 DEF S
    <2>8. ListenLast
      BY <2>2, <2>4 DEF ListenLast
    <2>9. ASSUME NEW n \in 1 .. MaxHosts
          PROVE  ListenerOK(n)
      <3>1. <<>> \in Seq(ListenerCalls(n))
        OBVIOUS
      <3> QED BY <3>1, <2>4 DEF ListenerOK
    <2>10. todo[Main] \in Seq(MainCalls(phase)) /\ todo[SocketThread] \in Seq({Log})
      BY <2>1, <2>3, <2>4, <2>5, <2>6
    <2> QED BY <2>4, <2>7, <2>8, <2>9, <2>10 DEF TodoOK
  <1>4. \A t \in Threads : CallOK(t)
    BY DEF Init, CallOK
  <1>5. Working
    BY <1>2, <1>3, <1>4 DEF Working
  <1> QED BY <1>1, <1>5, ReadsConfinedNow DEF IInv, Crashed

(* A crash leaves everything as it is; else main and the threads work on.  *)
LEMMA CrashKeeps ==
    ASSUME IInv, phase' = "crashed", (\E t \in Threads : CrashOnFreed(t)) \/ Merge
    PROVE  UnsafeReadsConfined'
  <1>1. UNCHANGED <<freed, todo, at, calling, log_lock>>
    BY DEF CrashOnFreed, pointers, lookups, Merge
  <1> QED BY <1>1 DEF IInv, UnsafeReadsConfined, Writes

LEMMA ThreadKeeps ==
    ASSUME TypeOK, Working, NEW t \in Threads, ThreadStep(t), ~CrashOnFreed(t)
    PROVE  Working' /\ ~Crashed'
  <1>1. Working'
    BY BeginWorks, AddWorks, AskWorks, InheritWorks, InfoWorks, ListenWorks, LineWorks DEF ThreadStep
  <1>2. phase' \in {"listen"} \cup FilePhases \cup LatePhases
    BY <1>1 DEF Working, PhaseOK
  <1> QED BY <1>1, <1>2 DEF Crashed, FilePhases, LatePhases

LEMMA StepKeeps ==
    IInv /\ [Next]_vars => TypeOK' /\ (~Crashed' => Working') /\ (Crashed' => UnsafeReadsConfined')
  <1> SUFFICES ASSUME IInv, [Next]_vars
               PROVE  TypeOK' /\ (~Crashed' => Working') /\ (Crashed' => UnsafeReadsConfined')
    OBVIOUS
  <1>1. TypeOK'
    BY StepTypes DEF IInv, Crashed
  <1>2. CASE UNCHANGED vars
    <2>1. UNCHANGED <<file, content, config, freed, phase, todo, at, calling, found, log_lock, section, hosts>>
      BY <1>2 DEF vars, pointers, lookups, results
    <2>2. Working => Working'
      <3>1. ASSUME Working
            PROVE  PhaseOK' /\ TodoOK' /\ \A t \in Threads : CallOK(t)'
        BY <2>1, <3>1, PhaseKept, TodoKept, CallKept DEF Working
      <3> QED BY <3>1 DEF Working
    <2>3. UnsafeReadsConfined'
      BY <2>1 DEF IInv, UnsafeReadsConfined, Writes
    <2> QED BY <1>1, <2>1, <2>2, <2>3 DEF IInv, Crashed
  <1>3. ASSUME NEW t \in Threads, ThreadStep(t)
        PROVE  (~Crashed' => Working') /\ (Crashed' => UnsafeReadsConfined')
    <2>1. CASE CrashOnFreed(t)
      <3>1. Crashed'
        BY <2>1 DEF CrashOnFreed, Crashed
      <3> QED BY <2>1, <3>1, CrashKeeps DEF Crashed
    <2>2. CASE ~CrashOnFreed(t)
      <3>1. phase # "crashed"
        <4>1. Idle(t) => phase # "crashed"
          BY DEF Idle
        <4>2. \A kind : InCall(t, kind) => phase # "crashed"
          BY DEF InCall
        <4> QED BY <1>3, <2>2, <4>1, <4>2
                DEF ThreadStep, BeginCall, FinishAdd, FinishSet, FinishAsk, FinishInherit, FinishInfo, FinishListen,
                    BeginLine, ShowConfigured, FindDefault, ShowDefault, AskConfig
      <3>2. TypeOK /\ Working
        BY <3>1 DEF IInv, Crashed
      <3> QED BY <1>3, <2>2, <3>2, ThreadKeeps
    <2> QED BY <2>1, <2>2
  <1>4. CASE \/ StartSocketThread \/ LoadFile \/ FreeDictionaries \/ LoadModules
             \/ NextSection \/ AddHost \/ HostFails
    <2>1. phase # "crashed" /\ phase' # "crashed"
      BY <1>4 DEF StartSocketThread, LoadFile, FreeDictionaries, LoadModules, NextSection, AddHost, HostFails, MainAt
    <2>2. TypeOK /\ Working
      BY <2>1 DEF IInv, Crashed
    <2>3. Working'
      BY <1>4, <2>2, SocketStartsWorks, LoadWorks, LineStepsWork, SectionWorks, AddHostWorks, HostFailsWorks
    <2> QED BY <1>1, <2>1, <2>3 DEF Crashed
  <1>5. CASE Merge
    <2>1. phase # "crashed"
      BY <1>5 DEF Merge, MainAt
    <2>2. TypeOK /\ Working
      BY <2>1 DEF IInv, Crashed
    <2>3. phase' # "crashed" => Working'
      BY <1>5, <2>2, MergeWorks
    <2>4. phase' = "crashed" => UnsafeReadsConfined'
      BY <1>5, CrashKeeps
    <2> QED BY <1>1, <2>3, <2>4 DEF Crashed
  <1> QED BY <1>1, <1>2, <1>3, <1>4, <1>5 DEF Next

(* The calls that each thread has before it are those that main's progress *)
(* allows, in every state that can be reached (config.c, host.c, log.c).   *)
THEOREM CallsInvariant == Spec => []IInv
  <1>1. Init => IInv
    BY InitWorks
  <1>2. IInv /\ [Next]_vars => TypeOK' /\ (~Crashed' => Working') /\ (Crashed' => UnsafeReadsConfined')
    BY StepKeeps
  <1>3. TypeOK /\ Working => UnsafeReadsConfined
    BY ReadsConfinedNow
  <1>4. IInv <=> TypeOK /\ UnsafeReadsConfined /\ (~Crashed => Working)
    BY DEF IInv
  <1> QED BY <1>1, <1>2, <1>3, <1>4, PTL DEF Spec

(* Every variable keeps its type, and each pointer points to its own       *)
(* dictionary while that is there or nowhere (config.c, lines 82 to 107).  *)
THEOREM TypeCorrect == Spec => []TypeOK
  <1>1. IInv => TypeOK
    BY DEF IInv
  <1> QED BY <1>1, CallsInvariant, PTL

(* Whatever the file holds and whoever logs when, only a log line that the *)
(* socket thread began before the configuration was there can read a       *)
(* dictionary that main has deleted or writes to (config.c, lines 86 and   *)
(* 89).                                                                    *)
THEOREM ReadsConfined == Spec => []UnsafeReadsConfined
  <1>1. IInv => UnsafeReadsConfined
    BY DEF IInv
  <1> QED BY <1>1, CallsInvariant, PTL

-----------------------------------------------------------------------------
(* A section's header is an entry too, and one that has the name of a      *)
(* setting hides it; in files without such names every setting is seen.    *)
SettingsVisible ==
    \A f \in Files \ {NULL} : \A i, j \in DOMAIN f :
        f[i].val = NULL /\ f[j].val # NULL => Folded(f[i].section) # FullKey(f[j])

(* The settings among the first n lines, those of a key, and the first.    *)
ReadLines(f, n) == {i \in 1 .. n : f[i].val # NULL}

LinesOf(f, k) == {i \in DOMAIN f : f[i].val # NULL /\ FullKey(f[i]) = k}

FileSays(f, k) == IF LinesOf(f, k) = {} THEN NULL ELSE f[Min(LinesOf(f, k))].val

IsHeader(f, k) == \E i \in DOMAIN f : f[i].val = NULL /\ k = Folded(f[i].section)

(* Where the entries of the settings stand: in the order of the lines.     *)
StandsAt(f, entries, n, m) ==
    /\ m \in [ReadLines(f, n) -> DOMAIN entries]
    /\ \A i, j \in ReadLines(f, n) : i < j => m[i] < m[j]
    /\ \A i \in ReadLines(f, n) : entries[m[i]] = Entry(FullKey(f[i]), f[i].val)

(* The other entries are headers, or have keys of K.                       *)
OthersUnset(f, entries, n, m, K) ==
    \A p \in DOMAIN entries : (\A i \in ReadLines(f, n) : m[i] # p) =>
        \/ entries[p].val = NULL /\ IsHeader(f, entries[p].key)
        \/ entries[p].key \in K

(* So the dictionary holds what the first n lines say.                     *)
Holds(f, entries, n, K) == \E m : StandsAt(f, entries, n, m) /\ OthersUnset(f, entries, n, m, K)

-----------------------------------------------------------------------------
(* What dictionary_set leaves of a dictionary.                             *)
LEMMA ReplacedFacts ==
    ASSUME NEW entries \in Seq(Entries), NEW k \in Text, NEW v \in Vals
    PROVE  LET r == Replaced(entries, k, v) IN
           /\ r \in Seq(Entries)
           /\ Places(entries, k) = {} =>
                /\ Len(r) = Len(entries) + 1
                /\ \A i \in 1 .. Len(entries) : r[i] = entries[i]
                /\ r[Len(entries) + 1] = Entry(k, v)
           /\ Places(entries, k) # {} =>
                \E p \in DOMAIN entries :
                    /\ p = Min(Places(entries, k)) /\ entries[p].key = k
                    /\ \A q \in Places(entries, k) : p <= q
                    /\ DOMAIN r = DOMAIN entries /\ Len(r) = Len(entries)
                    /\ r[p] = Entry(k, v)
                    /\ \A i \in DOMAIN entries : i # p => r[i] = entries[i]
  <1> DEFINE r == Replaced(entries, k, v)
  <1>0. r \in Seq(Entries)
    BY EntryTyped
  <1>1. ASSUME Places(entries, k) = {}
        PROVE  /\ Len(r) = Len(entries) + 1
               /\ \A i \in 1 .. Len(entries) : r[i] = entries[i]
               /\ r[Len(entries) + 1] = Entry(k, v)
    <2> DEFINE e == Entry(k, v)
    <2>1. e \in Entries
      BY DEF Entry, Entries, Vals
    <2>2. r = Append(entries, e)
      BY <1>1 DEF Replaced
    <2> HIDE DEF e, r
    <2>3. /\ Len(r) = Len(entries) + 1
          /\ \A i \in 1 .. Len(entries) : r[i] = entries[i]
          /\ r[Len(entries) + 1] = e
      BY <2>1, <2>2
    <2> QED BY <2>3 DEF e
  <1>2. ASSUME Places(entries, k) # {}
        PROVE  \E p \in DOMAIN entries :
                    /\ p = Min(Places(entries, k)) /\ entries[p].key = k
                    /\ \A q \in Places(entries, k) : p <= q
                    /\ DOMAIN r = DOMAIN entries /\ Len(r) = Len(entries)
                    /\ r[p] = Entry(k, v)
                    /\ \A i \in DOMAIN entries : i # p => r[i] = entries[i]
    <2>1. Places(entries, k) \in SUBSET Nat
      BY DEF Places
    <2>2. PICK p \in Places(entries, k) : p = Min(Places(entries, k)) /\ \A q \in Places(entries, k) : p <= q
      BY <1>2, <2>1, FirstPlace
    <2>3. p \in DOMAIN entries /\ entries[p].key = k
      BY <2>2 DEF Places
    <2>4. entries[p] \in Entries
      BY <2>3
    <2>5. [entries[p] EXCEPT !.val = v] = Entry(k, v)
      BY <2>3, <2>4 DEF Entries, Entry
    <2>6. r = [entries EXCEPT ![p] = [entries[p] EXCEPT !.val = v]]
      BY <1>2, <2>2 DEF Replaced
    <2>7. r = [entries EXCEPT ![p] = Entry(k, v)]
      BY <2>5, <2>6
    <2> DEFINE e == Entry(k, v)
    <2> HIDE DEF e, r
    <2>8. /\ DOMAIN r = DOMAIN entries /\ Len(r) = Len(entries)
          /\ r[p] = e
          /\ \A i \in DOMAIN entries : i # p => r[i] = entries[i]
      <3>1. r = [entries EXCEPT ![p] = e]
        BY <2>7 DEF e
      <3>2. DOMAIN r = DOMAIN entries
        BY <3>1
      <3>3. Len(r) = Len(entries)
        BY <1>0, <3>2
      <3> QED BY <2>3, <3>1, <3>2, <3>3
    <2> QED BY <2>2, <2>3, <2>8 DEF e
  <1> QED BY <1>0, <1>1, <1>2

(* A key that has been set is what was set, and other keys are what they   *)
(* were.                                                                   *)
LEMMA GetReplaced ==
    ASSUME NEW entries \in Seq(Entries), NEW k \in Text, NEW v \in Vals
    PROVE  /\ \A def : Get(Replaced(entries, k, v), k, def) = v
           /\ \A j, def : j # k => Get(Replaced(entries, k, v), j, def) = Get(entries, j, def)
  <1> DEFINE r == Replaced(entries, k, v)
             n == Len(entries)
  <1>0. n \in Nat /\ DOMAIN entries = 1 .. n /\ r \in Seq(Entries) /\ DOMAIN r = 1 .. Len(r)
    BY ReplacedFacts
  <1>e. Entry(k, v).key = k /\ Entry(k, v).val = v
    BY DEF Entry
  <1>1. CASE Places(entries, k) = {}
    <2>1. /\ Len(r) = n + 1 /\ r[n + 1] = Entry(k, v)
          /\ \A i \in 1 .. n : r[i] = entries[i]
      BY <1>1, ReplacedFacts
    <2> HIDE DEF r, n
    <2>2. Places(r, k) = {n + 1}
      BY <1>0, <1>1, <1>e, <2>1 DEF Places
    <2>3. Min(Places(r, k)) = n + 1
      <3>1. Places(r, k) \in SUBSET Nat /\ Places(r, k) # {}
        BY <2>2, <1>0
      <3> QED BY <2>2, <3>1, FirstPlace
    <2>4. \A def : Get(r, k, def) = v
      BY <1>e, <2>1, <2>2, <2>3 DEF Get
    <2>5. ASSUME NEW j, NEW def, j # k
          PROVE  Get(r, j, def) = Get(entries, j, def)
      <3>1. Places(r, j) = Places(entries, j)
        BY <1>0, <1>e, <2>1, <2>5 DEF Places
      <3>2. Places(r, j) # {} => Min(Places(r, j)) \in 1 .. n
        <4>1. Places(entries, j) \in SUBSET Nat /\ Places(entries, j) \in SUBSET DOMAIN entries
          BY <1>0 DEF Places
        <4> QED BY <3>1, <4>1, <1>0, FirstPlace
      <3> QED BY <3>1, <3>2, <2>1 DEF Get
    <2> QED BY <2>4, <2>5 DEF r
  <1>2. CASE Places(entries, k) # {}
    <2>1. PICK p \in DOMAIN entries :
            /\ p = Min(Places(entries, k)) /\ entries[p].key = k
            /\ DOMAIN r = DOMAIN entries
            /\ r[p] = Entry(k, v)
            /\ \A i \in DOMAIN entries : i # p => r[i] = entries[i]
      BY <1>2, ReplacedFacts
    <2> HIDE DEF r, n
    <2>2. \A j : Places(r, j) = Places(entries, j)
      BY <1>e, <2>1 DEF Places
    <2>4. \A def : Get(r, k, def) = v
      BY <1>2, <1>e, <2>1, <2>2 DEF Get
    <2>5. ASSUME NEW j, NEW def, j # k
          PROVE  Get(r, j, def) = Get(entries, j, def)
      <3>2. Places(entries, j) # {} => Min(Places(entries, j)) \in Places(entries, j)
        <4>1. Places(entries, j) \in SUBSET Nat
          BY <1>0 DEF Places
        <4> QED BY <4>1, FirstPlace
      <3>3. Places(entries, j) # {} => Min(Places(entries, j)) \in DOMAIN entries /\ Min(Places(entries, j)) # p
        BY <3>2, <2>1, <2>5 DEF Places
      <3> QED BY <2>1, <2>2, <3>3 DEF Get
    <2> QED BY <2>4, <2>5 DEF r
  <1> QED BY <1>1, <1>2

(* A place that dictionary_set has not found unset says nothing.           *)
LEMMA GetPlaces ==
    ASSUME NEW entries \in Seq(Entries), NEW k
    PROVE  /\ Places(entries, k) \in SUBSET DOMAIN entries /\ Places(entries, k) \in SUBSET Nat
           /\ Places(entries, k) # {} =>
                /\ Min(Places(entries, k)) \in Places(entries, k)
                /\ \A q \in Places(entries, k) : Min(Places(entries, k)) <= q
                /\ \A def : Get(entries, k, def) = entries[Min(Places(entries, k))].val
           /\ Places(entries, k) = {} => \A def : Get(entries, k, def) = def
  <1>1. Places(entries, k) \in SUBSET DOMAIN entries /\ Places(entries, k) \in SUBSET Nat
    BY DEF Places
  <1>2. Places(entries, k) # {} => /\ Min(Places(entries, k)) \in Places(entries, k)
                                   /\ \A q \in Places(entries, k) : Min(Places(entries, k)) <= q
    BY <1>1, FirstPlace
  <1> QED BY <1>1, <1>2 DEF Get

-----------------------------------------------------------------------------
(* The names that the code gives are as strlwc leaves them.                *)
LEMMA OwnKeysFolded ==
    /\ Folded(Instance) = Instance /\ Folded(Cluster) = Cluster /\ Folded(Module) = Module
    /\ Instance # Cluster /\ Module # Instance /\ Module # Cluster
    /\ Module \in Text
  <1>1. /\ Lower["global"] = "global" /\ Lower["instance"] = "instance" /\ Lower["cluster"] = "cluster"
        /\ Lower["modules"] = "modules" /\ Lower["module"] = "module"
    BY NamesAssumption DEF OwnNames, Fields
  <1>2. "modules" \in Names /\ "module" \in Names
    BY NamesAssumption DEF OwnNames
  <1>3. ASSUME NEW a, NEW b, Lower[a] = a, Lower[b] = b
        PROVE  Folded(<<a, b>>) = <<a, b>>
    BY <1>3 DEF Folded
  <1>4. /\ Folded(Instance) = Instance /\ Folded(Cluster) = Cluster /\ Folded(Module) = Module
    BY <1>1, <1>3 DEF Instance, Cluster, Module
  <1> QED BY <1>2, <1>4 DEF Instance, Cluster, Module, Text

(* A file is a sequence of lines, and a setting follows a line of its      *)
(* section.                                                                *)
LEMMA FileFacts ==
    ASSUME NEW f \in Files \ {NULL}
    PROVE  /\ f \in Seq(Line) /\ Len(f) \in Nat /\ DOMAIN f = 1 .. Len(f)
           /\ \A i \in DOMAIN f :
                /\ f[i].section \in Text /\ f[i].name \in Text /\ f[i].val \in Vals
                /\ FullKey(f[i]) \in Text
                /\ f[i].val # NULL => i - 1 \in DOMAIN f /\ f[i - 1].section = f[i].section
  <1>1. f \in Seq(Line)
    BY FilesAssumption
  <1>2. Len(f) \in Nat /\ DOMAIN f = 1 .. Len(f)
    BY <1>1
  <1>3. ASSUME NEW i \in DOMAIN f
        PROVE  /\ f[i].section \in Text /\ f[i].name \in Text /\ f[i].val \in Vals
               /\ FullKey(f[i]) \in Text
               /\ f[i].val # NULL => i - 1 \in DOMAIN f /\ f[i - 1].section = f[i].section
    <2>1. f[i] \in Line
      BY <1>1
    <2>2. f[i].section \in Text /\ f[i].name \in Text /\ f[i].val \in Vals
      BY <2>1 DEF Line, Vals
    <2>3. Folded(f[i].section) \in Text /\ Folded(f[i].name) \in Text
      BY <2>2, FoldedTyped
    <2>4. FullKey(f[i]) \in Text
      BY <2>3 DEF FullKey, Text
    <2>5. f[i].val # NULL => i > 1 /\ f[i - 1].section = f[i].section
      BY FilesAssumption
    <2> QED BY <1>2, <2>2, <2>4, <2>5
  <1> QED BY <1>1, <1>2, <1>3

(* The configuration as it has been read says of each key what the file    *)
(* says first.                                                             *)
LEMMA HoldsGet ==
    ASSUME SettingsVisible, NEW f \in Files \ {NULL}, NEW entries \in Seq(Entries), Holds(f, entries, Len(f), {})
    PROVE  \A k : Get(entries, k, NULL) = FileSays(f, k)
  <1> SUFFICES ASSUME NEW k PROVE Get(entries, k, NULL) = FileSays(f, k)
    OBVIOUS
  <1>0. /\ Len(f) \in Nat /\ DOMAIN f = 1 .. Len(f) /\ NULL \notin Text
        /\ LinesOf(f, k) \in SUBSET Nat /\ LinesOf(f, k) = {i \in ReadLines(f, Len(f)) : FullKey(f[i]) = k}
    BY FileFacts, KnownText DEF LinesOf, ReadLines
  <1>1. PICK m : StandsAt(f, entries, Len(f), m) /\ OthersUnset(f, entries, Len(f), m, {})
    BY DEF Holds
  <1>2. \A i, j : Entry(i, j).key = i /\ Entry(i, j).val = j
    BY DEF Entry
  <1>3. \A i \in LinesOf(f, k) : m[i] \in Places(entries, k)
    BY <1>0, <1>1, <1>2 DEF StandsAt, Places
  <1>4. ASSUME NEW p \in Places(entries, k)
        PROVE  (\E i \in LinesOf(f, k) : m[i] = p) \/ (entries[p].val = NULL /\ IsHeader(f, k))
    BY <1>0, <1>1, <1>2 DEF StandsAt, OthersUnset, Places
  <1>5. CASE LinesOf(f, k) = {}
    <2>1. \A p \in Places(entries, k) : entries[p].val = NULL
      BY <1>4, <1>5
    <2> QED BY <1>5, <2>1, GetPlaces DEF FileSays
  <1>6. CASE LinesOf(f, k) # {}
    <2>1. PICK first \in LinesOf(f, k) : first = Min(LinesOf(f, k)) /\ \A i \in LinesOf(f, k) : first <= i
      BY <1>0, <1>6, FirstPlace
    <2>2. ~IsHeader(f, k)
      BY <2>1 DEF IsHeader, SettingsVisible, LinesOf
    <2>3. PICK p \in Places(entries, k) : p = Min(Places(entries, k)) /\ \A q \in Places(entries, k) : p <= q
      BY <1>3, <2>1, GetPlaces
    <2>4. PICK i \in LinesOf(f, k) : m[i] = p
      BY <1>4, <2>2
    <2>5. i = first
      <3>1. first <= i /\ p <= m[first]
        BY <1>3, <2>1, <2>3
      <3>2. first < i => m[first] < p
        BY <1>0, <1>1, <2>1, <2>4 DEF StandsAt
      <3>3. p \in Nat /\ m[first] \in Nat /\ first \in Nat /\ i \in Nat
        BY <1>0, <1>3, <2>3, GetPlaces
      <3> QED BY <3>1, <3>2, <3>3
    <2>6. entries[p].val = f[first].val
      BY <1>0, <1>1, <1>2, <2>4, <2>5 DEF StandsAt
    <2>7. Get(entries, k, NULL) = entries[p].val
      BY <2>3, GetPlaces
    <2> QED BY <1>6, <2>1, <2>6, <2>7 DEF FileSays
  <1> QED BY <1>5, <1>6

-----------------------------------------------------------------------------
(* The parser: a setting comes behind all that has been read.              *)
LEMMA HoldsAdd ==
    ASSUME NEW f \in Files \ {NULL}, NEW n \in 0 .. Len(f), n + 1 <= Len(f), f[n + 1].val # NULL,
           NEW entries \in Seq(Entries), Holds(f, entries, n, {})
    PROVE  Holds(f, Added(entries, FullKey(f[n + 1]), f[n + 1].val), n + 1, {})
  <1> DEFINE k == FullKey(f[n + 1])
             v == f[n + 1].val
             e == Entry(k, v)
             r == Append(entries, e)
  <1>0. Len(f) \in Nat /\ n \in Nat /\ n + 1 \in DOMAIN f /\ k \in Text /\ v \in Vals
    BY FileFacts
  <1>1. PICK m : StandsAt(f, entries, n, m) /\ OthersUnset(f, entries, n, m, {})
    BY DEF Holds
  <1> DEFINE last == Len(entries) + 1
             new == [i \in ReadLines(f, n + 1) |-> IF i = n + 1 THEN last ELSE m[i]]
  <1>2. e \in Entries
    BY <1>0 DEF Entry, Entries, Vals
  <1>3. ReadLines(f, n + 1) = ReadLines(f, n) \cup {n + 1} /\ n + 1 \notin ReadLines(f, n)
    BY <1>0 DEF ReadLines
  <1> HIDE DEF e
  <1>4. /\ last \in Nat /\ 1 <= last /\ DOMAIN r = 1 .. last /\ r[last] = e
        /\ DOMAIN entries = 1 .. last - 1
        /\ \A i \in 1 .. last - 1 : r[i] = entries[i]
    BY <1>2
  <1> HIDE DEF r, last, k, v
  <1>5. \A i \in ReadLines(f, n) : i \in 1 .. n /\ new[i] = m[i] /\ m[i] \in 1 .. last - 1
    BY <1>1, <1>3, <1>4 DEF StandsAt, ReadLines
  <1>6. new[n + 1] = last
    BY <1>3
  <1>7. StandsAt(f, r, n + 1, new)
    <2>1. new \in [ReadLines(f, n + 1) -> DOMAIN r]
      <3>1. \A i \in ReadLines(f, n + 1) : new[i] \in DOMAIN r
        <4> SUFFICES ASSUME NEW i \in ReadLines(f, n + 1) PROVE new[i] \in DOMAIN r
          OBVIOUS
        <4>1. CASE i = n + 1
          <5>1. new[i] = last
            BY <1>6, <4>1
          <5> HIDE DEF new
          <5> QED BY <5>1, <1>4
        <4>2. CASE i # n + 1
          <5>1. new[i] \in 1 .. last - 1
            BY <1>3, <1>5, <4>2
          <5> HIDE DEF new
          <5> QED BY <5>1, <1>4
        <4> QED BY <4>1, <4>2
      <3> QED BY <3>1
    <2>2. ASSUME NEW i \in ReadLines(f, n + 1), NEW j \in ReadLines(f, n + 1), i < j
          PROVE  new[i] < new[j]
      <3>0. i \in 1 .. n + 1 /\ j \in 1 .. n + 1
        BY DEF ReadLines
      <3>1. i \in ReadLines(f, n)
        BY <1>0, <1>3, <2>2, <3>0
      <3>2. CASE j = n + 1
        <4>1. new[i] \in 1 .. last - 1 /\ new[j] = last
          BY <1>5, <1>6, <3>1, <3>2
        <4> HIDE DEF new
        <4> QED BY <1>4, <4>1
      <3>3. CASE j # n + 1
        <4>1. j \in ReadLines(f, n)
          BY <1>3, <3>3
        <4>2. new[i] = m[i] /\ new[j] = m[j]
          BY <1>5, <3>1, <4>1
        <4>3. m[i] < m[j]
          BY <1>1, <2>2, <3>1, <4>1 DEF StandsAt
        <4> QED BY <4>2, <4>3
      <3> QED BY <3>2, <3>3
    <2>3. \A i \in ReadLines(f, n + 1) : r[new[i]] = Entry(FullKey(f[i]), f[i].val)
      BY <1>1, <1>3, <1>4, <1>5, <1>6 DEF StandsAt, e, k, v
    <2> HIDE DEF new
    <2> QED BY <2>1, <2>2, <2>3 DEF StandsAt
  <1>8. OthersUnset(f, r, n + 1, new, {})
    BY <1>1, <1>3, <1>4, <1>5, <1>6 DEF OthersUnset
  <1>9. Holds(f, r, n + 1, {})
    BY <1>7, <1>8 DEF Holds
  <1> QED BY <1>9 DEF Added, r, e, k, v

(* An entry that is not a setting's may be replaced, and a new one added   *)
(* behind them.                                                            *)
LEMMA HoldsReplaced ==
    ASSUME NEW f, NEW n, NEW entries \in Seq(Entries), NEW K, Holds(f, entries, n, K),
           NEW k \in Text, NEW v \in Vals,
           k \in K \/ (IsHeader(f, k) /\ v = NULL),
           \/ Get(entries, k, NULL) = NULL
           \/ \A i \in ReadLines(f, n) : FullKey(f[i]) # k
    PROVE  Holds(f, Replaced(entries, k, v), n, K)
  <1> DEFINE r == Replaced(entries, k, v)
  <1>0. Entry(k, v).key = k /\ Entry(k, v).val = v /\ \A i, j : Entry(i, j).key = i /\ Entry(i, j).val = j
    BY DEF Entry
  <1>1. PICK m : StandsAt(f, entries, n, m) /\ OthersUnset(f, entries, n, m, K)
    BY DEF Holds
  <1>2. r \in Seq(Entries) /\ DOMAIN r = 1 .. Len(r) /\ DOMAIN entries = 1 .. Len(entries) /\ Len(entries) \in Nat
    BY ReplacedFacts
  <1>3. CASE Places(entries, k) = {}
    <2>1. /\ Len(r) = Len(entries) + 1 /\ r[Len(entries) + 1] = Entry(k, v)
          /\ \A i \in 1 .. Len(entries) : r[i] = entries[i]
      BY <1>3, ReplacedFacts
    <2> HIDE DEF r
    <2>2. StandsAt(f, r, n, m)
      BY <1>1, <1>2, <2>1 DEF StandsAt
    <2>3. OthersUnset(f, r, n, m, K)
      <3> SUFFICES ASSUME NEW p \in DOMAIN r, \A i \in ReadLines(f, n) : m[i] # p
                   PROVE  (r[p].val = NULL /\ IsHeader(f, r[p].key)) \/ r[p].key \in K
        BY DEF OthersUnset
      <3>1. CASE p = Len(entries) + 1
        BY <1>0, <2>1, <3>1
      <3>2. CASE p # Len(entries) + 1
        <4>1. p \in DOMAIN entries /\ r[p] = entries[p]
          BY <1>2, <2>1, <3>2
        <4> QED BY <1>1, <4>1 DEF OthersUnset
      <3> QED BY <3>1, <3>2
    <2> QED BY <2>2, <2>3 DEF Holds, r
  <1>4. CASE Places(entries, k) # {}
    <2>1. PICK p \in DOMAIN entries :
            /\ p = Min(Places(entries, k)) /\ entries[p].key = k
            /\ DOMAIN r = DOMAIN entries
            /\ r[p] = Entry(k, v)
            /\ \A i \in DOMAIN entries : i # p => r[i] = entries[i]
      BY <1>4, ReplacedFacts
    <2>2. \A i \in ReadLines(f, n) : m[i] # p
      <3> SUFFICES ASSUME NEW i \in ReadLines(f, n), m[i] = p PROVE FALSE
        OBVIOUS
      <3>1. k = FullKey(f[i]) /\ entries[p].val = f[i].val /\ f[i].val # NULL
        BY <1>0, <1>1, <2>1 DEF StandsAt, ReadLines
      <3>2. Get(entries, k, NULL) = entries[p].val
        BY <1>4, <2>1, GetPlaces
      <3> QED BY <3>1, <3>2
    <2> HIDE DEF r
    <2>3. StandsAt(f, r, n, m)
      BY <1>1, <2>1, <2>2 DEF StandsAt
    <2>4. OthersUnset(f, r, n, m, K)
      <3> SUFFICES ASSUME NEW q \in DOMAIN r, \A i \in ReadLines(f, n) : m[i] # q
                   PROVE  (r[q].val = NULL /\ IsHeader(f, r[q].key)) \/ r[q].key \in K
        BY DEF OthersUnset
      <3>1. CASE q = p
        BY <1>0, <2>1, <3>1
      <3>2. CASE q # p
        BY <1>1, <2>1, <3>2 DEF OthersUnset
      <3> QED BY <3>1, <3>2
    <2> QED BY <2>3, <2>4 DEF Holds, r
  <1> QED BY <1>3, <1>4

(* The parser: a header, which no setting has the name of.                 *)
LEMMA HoldsHeader ==
    ASSUME SettingsVisible, NEW f \in Files \ {NULL},
           NEW n \in 0 .. Len(f), n + 1 <= Len(f), f[n + 1].val = NULL,
           NEW entries \in Seq(Entries), Holds(f, entries, n, {})
    PROVE  Holds(f, Replaced(entries, Folded(f[n + 1].section), NULL), n + 1, {})
  <1> DEFINE k == Folded(f[n + 1].section)
  <1>0. n \in Nat /\ Len(f) \in Nat /\ n + 1 \in DOMAIN f /\ DOMAIN f = 1 .. Len(f) /\ k \in Text
    BY FileFacts, FoldedTyped
  <1>1. ReadLines(f, n + 1) = ReadLines(f, n)
    BY <1>0 DEF ReadLines
  <1>2. Holds(f, entries, n + 1, {})
    BY <1>1 DEF Holds, StandsAt, OthersUnset
  <1>3. \A i \in ReadLines(f, n + 1) : FullKey(f[i]) # k
    BY <1>0 DEF SettingsVisible, ReadLines
  <1>4. IsHeader(f, k)
    BY <1>0 DEF IsHeader
  <1> HIDE DEF k
  <1>5. Holds(f, Replaced(entries, k, NULL), n + 1, {})
    BY <1>0, <1>2, <1>3, <1>4, HoldsReplaced DEF Vals
  <1> QED BY <1>5 DEF k

(* With more keys excepted the entries still hold what the file says.      *)
LEMMA HoldsMore ==
    ASSUME NEW f, NEW n, NEW entries, NEW K, Holds(f, entries, n, {})
    PROVE  Holds(f, entries, n, K)
  BY DEF Holds, OthersUnset

(* An empty dictionary holds what no lines say.                            *)
LEMMA HoldsNothing ==
    ASSUME NEW f
    PROVE  Holds(f, <<>>, 0, {})
  <1>1. ReadLines(f, 0) = {} /\ DOMAIN <<>> = {}
    BY DEF ReadLines
  <1>2. StandsAt(f, <<>>, 0, [i \in {} |-> 0]) /\ OthersUnset(f, <<>>, 0, [i \in {} |-> 0], {})
    BY <1>1 DEF StandsAt, OthersUnset
  <1> QED BY <1>2 DEF Holds

-----------------------------------------------------------------------------
(* A recursion that goes over n places and appends an item for each of     *)
(* some of them.                                                           *)
Collects(g, n, keep, item) ==
    g = [i \in 0 .. n |-> IF i = 0 THEN <<>>
                          ELSE IF i \in keep THEN Append(g[i - 1], item[i])
                          ELSE g[i - 1]]

(* It has a solution: it has one up to each place.                         *)
LEMMA CollectExists ==
    ASSUME NEW n \in Nat, NEW keep, NEW item
    PROVE  \E g : Collects(g, n, keep, item)
  <1> DEFINE Step(g, i) == IF i = 0 THEN <<>>
                           ELSE IF i \in keep THEN Append(g[i - 1], item[i])
                           ELSE g[i - 1]
             Upto == {m \in 0 .. n : \E g : g = [i \in 0 .. m |-> Step(g, i)]}
  <1>1. 0 \in Upto
    <2> DEFINE g == [i \in 0 .. 0 |-> <<>>]
    <2>1. g = [i \in 0 .. 0 |-> Step(g, i)]
      OBVIOUS
    <2>2. \E f : f = [i \in 0 .. 0 |-> Step(f, i)]
      <3> HIDE DEF g, Step
      <3> WITNESS g
      <3> QED BY <2>1
    <2> HIDE DEF Step
    <2> QED BY <2>2
  <1>2. ASSUME NEW m \in 1 .. n, m - 1 \in Upto
        PROVE  m \in Upto
    <2>1. PICK g : g = [i \in 0 .. m - 1 |-> Step(g, i)]
      BY <1>2
    <2> DEFINE h == [i \in 0 .. m |-> IF i < m THEN g[i] ELSE Step(g, m)]
    <2>2. ASSUME NEW i \in 0 .. m
          PROVE  h[i] = Step(h, i)
      <3>1. i # 0 => i - 1 \in 0 .. m - 1 /\ h[i - 1] = g[i - 1]
        BY <1>2
      <3>2. Step(h, i) = Step(g, i)
        BY <3>1
      <3>3. CASE i < m
        <4>1. i \in 0 .. m - 1
          BY <3>3
        <4>2. g[i] = Step(g, i)
          BY <4>1, <2>1
        <4> QED BY <3>2, <3>3, <4>2
      <3>4. CASE i = m
        BY <3>2, <3>4
      <3> QED BY <3>3, <3>4
    <2>3. h = [i \in 0 .. m |-> Step(h, i)]
      <3> HIDE DEF Step
      <3>1. h = [i \in 0 .. m |-> h[i]]
        OBVIOUS
      <3> HIDE DEF h
      <3> QED BY <3>1, <2>2
    <2>4. \E f : f = [i \in 0 .. m |-> Step(f, i)]
      <3> HIDE DEF h, Step
      <3> WITNESS h
      <3> QED BY <2>3
    <2> HIDE DEF Step
    <2> QED BY <2>4
  <1> HIDE DEF Upto
  <1>3. \A i \in 0 .. n : i \in Upto
    BY <1>1, <1>2, AllPlaces
  <1>4. n \in Upto
    BY <1>3
  <1> HIDE DEF Step
  <1>5. \E g : g = [i \in 0 .. n |-> Step(g, i)]
    BY <1>4 DEF Upto
  <1> QED BY <1>5 DEF Step, Collects

(* How many of S there are up to p.                                        *)
Rank(S, p) == Cardinality({q \in S : q <= p})

(* A list of the items of keep, in order: each has as many before it as    *)
(* there are places of keep before its own.                                *)
Lists(s, keep, item) ==
    /\ IsFiniteSet(keep) /\ Len(s) = Cardinality(keep)
    /\ \A p \in keep : s[Rank(keep, p)] = item[p]

(* The places of a set up to one after the other.                          *)
LEMMA UpTo ==
    ASSUME NEW n \in Nat, NEW keep \in SUBSET (1 .. n)
    PROVE  /\ {q \in keep : q <= 0} = {} /\ {q \in keep : q <= n} = keep
           /\ \A i \in 1 .. n :
                /\ i \in keep => /\ {q \in keep : q <= i} = {q \in keep : q <= i - 1} \cup {i}
                                 /\ i \notin {q \in keep : q <= i - 1}
                /\ i \notin keep => {q \in keep : q <= i} = {q \in keep : q <= i - 1}
                /\ \A p \in {q \in keep : q <= i - 1} : p \in 1 .. i - 1
  <1>1. \A q \in keep : q \in Nat /\ 1 <= q /\ q <= n
    OBVIOUS
  <1>2. ASSUME NEW i \in 1 .. n
        PROVE  /\ i \in keep => /\ {q \in keep : q <= i} = {q \in keep : q <= i - 1} \cup {i}
                                /\ i \notin {q \in keep : q <= i - 1}
               /\ i \notin keep => {q \in keep : q <= i} = {q \in keep : q <= i - 1}
               /\ \A p \in {q \in keep : q <= i - 1} : p \in 1 .. i - 1
    <2>1. \A q \in keep : q <= i <=> q = i \/ q <= i - 1
      BY <1>1
    <2>2. ~(i <= i - 1) /\ i \in Nat
      OBVIOUS
    <2>3. ASSUME i \in keep
          PROVE  {q \in keep : q <= i} = {q \in keep : q <= i - 1} \cup {i}
      BY <2>1, <2>3, Zenon
    <2>4. ASSUME i \notin keep
          PROVE  {q \in keep : q <= i} = {q \in keep : q <= i - 1}
      BY <2>1, <2>4, Zenon
    <2>5. \A p \in {q \in keep : q <= i - 1} : p \in 1 .. i - 1
      BY <1>1
    <2> QED BY <2>2, <2>3, <2>4, <2>5
  <1>3. \A q \in keep : ~(q <= 0) /\ q <= n
    BY <1>1
  <1>4. {q \in keep : q <= 0} = {} /\ {q \in keep : q <= n} = keep
    BY <1>3, Zenon
  <1> QED BY <1>2, <1>4, Zenon

(* Its value is the items of those places, in order: each has as many      *)
(* before it as there are places.                                          *)
LEMMA CollectFacts ==
    ASSUME NEW n \in Nat, NEW S, NEW keep \in SUBSET (1 .. n), NEW item, \A i \in keep : item[i] \in S,
           NEW g, Collects(g, n, keep, item)
    PROVE  /\ g[n] \in Seq(S)
           /\ Lists(g[n], keep, item)
  <1> DEFINE Step(i) == IF i = 0 THEN <<>>
                        ELSE IF i \in keep THEN Append(g[i - 1], item[i])
                        ELSE g[i - 1]
             Kept(i) == {q \in keep : q <= i}
             Right(i) == /\ g[i] \in Seq(S)
                         /\ IsFiniteSet(Kept(i)) /\ Len(g[i]) = Cardinality(Kept(i))
                         /\ \A p \in Kept(i) : /\ Cardinality(Kept(p)) \in DOMAIN g[i]
                                               /\ g[i][Cardinality(Kept(p))] = item[p]
             P == {i \in 0 .. n : Right(i)}
  <1>1. \A i \in 0 .. n : g[i] = Step(i)
    <2> DEFINE h == [i \in 0 .. n |-> Step(i)]
    <2>1. g = h
      <3> HIDE DEF Right, Kept, P
      <3> QED BY DEF Collects
    <2>2. \A i \in 0 .. n : h[i] = Step(i)
      OBVIOUS
    <2> HIDE DEF h
    <2> QED BY <2>1, <2>2
  <1>b. Kept(0) = {} /\ Kept(n) = keep
    BY UpTo DEF Kept
  <1>c. \A i \in 1 .. n : /\ i \in keep => Kept(i) = Kept(i - 1) \cup {i} /\ i \notin Kept(i - 1)
                          /\ i \notin keep => Kept(i) = Kept(i - 1)
                          /\ \A p \in Kept(i - 1) : p \in 1 .. i - 1
    <2> HIDE DEF Right, Step, P
    <2> QED BY UpTo DEF Kept
  <1>2. Right(0)
    <2>2. g[0] = <<>>
      BY <1>1
    <2>3. <<>> \in Seq(S) /\ Len(<<>>) = 0
      OBVIOUS
    <2> HIDE DEF Kept, Step
    <2>4. IsFiniteSet(Kept(0)) /\ Cardinality(Kept(0)) = 0
      BY <1>b, FS_EmptySet
    <2> QED BY <1>b, <2>2, <2>3, <2>4
  <1>3. ASSUME NEW i \in 1 .. n, Right(i - 1)
        PROVE  Right(i)
    <2>0. i - 1 \in 0 .. n /\ i \in 0 .. n /\ i # 0
      OBVIOUS
    <2>2. CASE i \in keep
      <3>1. Kept(i) = Kept(i - 1) \cup {i} /\ i \notin Kept(i - 1)
        BY <1>c, <2>2
      <3>2. g[i] = Append(g[i - 1], item[i]) /\ item[i] \in S
        BY <1>1, <2>0, <2>2
      <3> DEFINE s == g[i - 1]
                 e == item[i]
      <3>3. s \in Seq(S) /\ e \in S /\ IsFiniteSet(Kept(i - 1)) /\ Len(s) = Cardinality(Kept(i - 1))
        BY <1>3, <3>2
      <3>4. IsFiniteSet(Kept(i)) /\ Cardinality(Kept(i)) = Cardinality(Kept(i - 1)) + 1
        <4> DEFINE K == Kept(i - 1)
        <4>1. Kept(i) = K \cup {i} /\ i \notin K /\ IsFiniteSet(K)
          BY <3>1, <3>3
        <4> HIDE DEF Kept, K, Step, Right, s, e, P
        <4>2. IsFiniteSet(K \cup {i}) /\ Cardinality(K \cup {i}) = Cardinality(K) + 1
          BY <4>1, FS_AddElement
        <4> QED BY <4>1, <4>2 DEF K
      <3>5. \A p \in Kept(i - 1) : Cardinality(Kept(p)) \in DOMAIN s /\ s[Cardinality(Kept(p))] = item[p]
        BY <1>3
      <3> HIDE DEF Kept, s, e
      <3>6. /\ Append(s, e) \in Seq(S) /\ Len(Append(s, e)) = Len(s) + 1 /\ Append(s, e)[Len(s) + 1] = e
            /\ DOMAIN Append(s, e) = 1 .. Len(s) + 1 /\ DOMAIN s = 1 .. Len(s) /\ Len(s) \in Nat
            /\ \A j \in 1 .. Len(s) : Append(s, e)[j] = s[j]
        BY <3>3
      <3>7. g[i] = Append(s, e)
        BY <3>2 DEF s, e
      <3> HIDE DEF Step
      <3>8. ASSUME NEW p \in Kept(i)
            PROVE  Cardinality(Kept(p)) \in DOMAIN g[i] /\ g[i][Cardinality(Kept(p))] = item[p]
        <4>1. CASE p = i
          BY <3>3, <3>4, <3>6, <3>7, <4>1 DEF e
        <4>2. CASE p # i
          BY <3>1, <3>5, <3>6, <3>7, <4>2
        <4> QED BY <4>1, <4>2
      <3> QED BY <3>3, <3>4, <3>6, <3>7, <3>8
    <2>3. CASE i \notin keep
      <3>1. Kept(i) = Kept(i - 1)
        BY <1>c, <2>3
      <3>2. g[i] = g[i - 1]
        BY <1>1, <2>0, <2>3
      <3> HIDE DEF Kept, Step
      <3> QED BY <1>3, <3>1, <3>2
    <2> QED BY <2>2, <2>3
  <1> HIDE DEF Right, Kept, Step
  <1>4. \A i \in 0 .. n : i \in P
    <2>1. 0 \in P
      BY <1>2
    <2>2. \A i \in 1 .. n : i - 1 \in P => i \in P
      BY <1>3
    <2> HIDE DEF P
    <2> QED BY <2>1, <2>2, AllPlaces
  <1>5. Right(n)
    BY <1>4
  <1>6. Kept(n) = keep /\ \A p \in keep : Rank(keep, p) = Cardinality(Kept(p))
    BY <1>b DEF Kept, Rank
  <1> QED BY <1>5, <1>6 DEF Right, Lists

-----------------------------------------------------------------------------
(* Places that follow each other as lines do have the same ranks.          *)
LEMMA SameSize ==
    ASSUME NEW L \in SUBSET Nat, NEW P, NEW m, IsFiniteSet(L),
           \A i, j \in L : m[i] = m[j] => i = j,
           \A p : p \in P <=> \E i \in L : m[i] = p
    PROVE  Cardinality(P) = Cardinality(L)
  <1> DEFINE b == [i \in L |-> m[i]]
  <1>1. b \in [L -> P]
    OBVIOUS
  <1>2. b \in Injection(L, P)
    BY <1>1 DEF Injection, IsInjective
  <1>3. b \in Surjection(L, P)
    BY <1>1 DEF Surjection
  <1>4. ExistsBijection(L, P)
    BY <1>2, <1>3 DEF ExistsBijection, Bijection
  <1> QED BY <1>4, FS_Bijection

(* The places P to which m takes those of L have the ranks of these.       *)
RanksAgree(L, P, m) ==
    /\ Cardinality(P) = Cardinality(L)
    /\ \A i \in L : Rank(P, m[i]) = Rank(L, i)

(* An increasing map keeps the ranks.                                      *)
LEMMA SameRanks ==
    ASSUME NEW L \in SUBSET Nat, NEW P \in SUBSET Nat, NEW m, IsFiniteSet(L),
           \A i, j \in L : i < j => m[i] < m[j],
           \A p : p \in P <=> \E i \in L : m[i] = p
    PROVE  RanksAgree(L, P, m)
  <1>0. \A i \in L : i \in Nat /\ m[i] \in Nat
    OBVIOUS
  <1>1. \A i, j \in L : m[i] = m[j] => i = j
    BY <1>0
  <1>2. Cardinality(P) = Cardinality(L)
    BY <1>1, SameSize
  <1>3. ASSUME NEW i \in L
        PROVE  Rank(P, m[i]) = Rank(L, i)
    <2> DEFINE A == {j \in L : j <= i}
               B == {q \in P : q <= m[i]}
    <2>1. A \in SUBSET Nat /\ A \in SUBSET L
      OBVIOUS
    <2>2. IsFiniteSet(A)
      BY <2>1, FS_Subset
    <2>3. \A j \in L : j <= i <=> m[j] <= m[i]
      BY <1>0
    <2>4. \A q : q \in B <=> \E j \in A : m[j] = q
      BY <2>3
    <2>5. \A j, k \in A : m[j] = m[k] => j = k
      BY <1>1, <2>1
    <2> HIDE DEF A, B
    <2>6. Cardinality(B) = Cardinality(A)
      BY <2>1, <2>2, <2>4, <2>5, SameSize
    <2> QED BY <2>6 DEF A, B, Rank
  <1> QED BY <1>2, <1>3 DEF RanksAgree

(* config_load_modules finds every entry that names a module, in order.    *)
LEMMA ModulesOf ==
    ASSUME NEW entries \in Seq(Entries), NEW P, P = {p \in DOMAIN entries : NamesModule(entries[p])}
    PROVE  /\ Len(Modules(entries)) = Cardinality(P)
           /\ \A p \in P : Modules(entries)[Rank(P, p)] = entries[p].val
  <1> DEFINE n == Len(entries)
             item == [i \in 1 .. n |-> entries[i].val]
             Step(g, i) == IF i = 0 THEN <<>>
                           ELSE IF NamesModule(entries[i]) THEN Append(g[i - 1], entries[i].val)
                           ELSE g[i - 1]
             modules == CHOOSE g : g = [i \in 0 .. n |-> Step(g, i)]
             Chosen(g, i) == IF i = 0 THEN <<>>
                             ELSE IF i \in P THEN Append(g[i - 1], item[i])
                             ELSE g[i - 1]
  <1>0. n \in Nat /\ DOMAIN entries = 1 .. n
    OBVIOUS
  <1>1. \A g : \A i \in 0 .. n : Chosen(g, i) = Step(g, i)
    BY <1>0
  <1>2. \A g : [i \in 0 .. n |-> Chosen(g, i)] = [i \in 0 .. n |-> Step(g, i)]
    <2> HIDE DEF Chosen, Step
    <2> QED BY <1>1
  <1>3. Modules(entries) = modules[n]
    BY DEF Modules
  <1>4. P \in SUBSET (1 .. n)
    BY <1>0
  <1>5. \A i \in P : item[i] \in Vals
    <2> TAKE i \in P
    <2>1. i \in DOMAIN entries /\ entries[i] \in Entries
      BY <1>0
    <2> QED BY <1>0, <2>1 DEF Entries, Vals
  <1>6. \A i \in P : item[i] = entries[i].val
    BY <1>4
  <1> HIDE DEF item, n
  <1>7. \E g : g = [i \in 0 .. n |-> Chosen(g, i)]
    <2>1. \E g : Collects(g, n, P, item)
      BY <1>0, CollectExists
    <2> QED BY <2>1 DEF Collects
  <1>8. modules = [i \in 0 .. n |-> Step(modules, i)]
    <2> HIDE DEF Step, Chosen
    <2>1. \E g : g = [i \in 0 .. n |-> Step(g, i)]
      BY <1>2, <1>7
    <2> QED BY <2>1
  <1> HIDE DEF modules
  <1>9. modules = [i \in 0 .. n |-> Chosen(modules, i)]
    <2> HIDE DEF Step, Chosen
    <2> QED BY <1>2, <1>8
  <1>c. Collects(modules, n, P, item)
    BY <1>9 DEF Collects
  <1> HIDE DEF Step, Chosen
  <1>10. Lists(modules[n], P, item)
    BY <1>0, <1>4, <1>5, <1>c, CollectFacts
  <1> QED BY <1>3, <1>6, <1>10 DEF Lists

(* They are what the lines of the file say that set "modules:module".      *)
LEMMA LinesLoaded ==
    ASSUME NEW f \in Files \ {NULL}, NEW entries \in Seq(Entries), NEW K, Module \notin K,
           Holds(f, entries, Len(f), K)
    PROVE  /\ Len(Modules(entries)) = Cardinality(LinesOf(f, Module))
           /\ \A i \in LinesOf(f, Module) :
                Modules(entries)[Rank(LinesOf(f, Module), i)] = f[i].val
  <1> DEFINE L == LinesOf(f, Module)
             P == {p \in DOMAIN entries : NamesModule(entries[p])}
  <1>0. /\ Len(f) \in Nat /\ DOMAIN f = 1 .. Len(f) /\ NULL \notin Text
        /\ L \in SUBSET Nat /\ L = {i \in ReadLines(f, Len(f)) : FullKey(f[i]) = Module}
        /\ IsFiniteSet(L) /\ P \in SUBSET Nat
    <2>1. /\ Len(f) \in Nat /\ DOMAIN f = 1 .. Len(f) /\ NULL \notin Text
          /\ L \in SUBSET Nat /\ L = {i \in ReadLines(f, Len(f)) : FullKey(f[i]) = Module}
          /\ L \in SUBSET (1 .. Len(f)) /\ P \in SUBSET Nat
      BY FileFacts, KnownText DEF LinesOf, ReadLines
    <2>2. IsFiniteSet(1 .. Len(f))
      BY <2>1, FS_Interval
    <2> HIDE DEF L, P
    <2> QED BY <2>1, <2>2, FS_Subset
  <1>1. PICK m : StandsAt(f, entries, Len(f), m) /\ OthersUnset(f, entries, Len(f), m, K)
    BY DEF Holds
  <1>2. \A i, j : Entry(i, j).key = i /\ Entry(i, j).val = j
    BY DEF Entry
  <1>3. \A i \in L : m[i] \in P /\ entries[m[i]].val = f[i].val
    BY <1>0, <1>1, <1>2 DEF StandsAt, NamesModule, ReadLines
  <1>4. ASSUME NEW p \in P
        PROVE  \E i \in L : m[i] = p
    <2>1. p \in DOMAIN entries /\ entries[p].key = Module /\ entries[p].val # NULL
      BY DEF NamesModule
    <2>2. PICK i \in ReadLines(f, Len(f)) : m[i] = p
      BY <1>1, <2>1 DEF OthersUnset
    <2> QED BY <1>0, <1>1, <1>2, <2>1, <2>2 DEF StandsAt
  <1>5. \A i, j \in L : i < j => m[i] < m[j]
    BY <1>0, <1>1 DEF StandsAt
  <1>6. \A p : p \in P <=> \E i \in L : m[i] = p
    BY <1>3, <1>4
  <1> HIDE DEF L, P
  <1>7. RanksAgree(L, P, m)
    BY <1>0, <1>5, <1>6, SameRanks
  <1>8. /\ Len(Modules(entries)) = Cardinality(P)
        /\ \A p \in P : Modules(entries)[Rank(P, p)] = entries[p].val
    BY ModulesOf DEF P
  <1>9. \A i \in L : Modules(entries)[Rank(L, i)] = f[i].val
    BY <1>3, <1>7, <1>8 DEF RanksAgree
  <1> QED BY <1>7, <1>8, <1>9 DEF L, RanksAgree

-----------------------------------------------------------------------------
(* What the configuration says while it comes into being.  Until two       *)
(* threads have met in strlwc, a thread finds the key that it has folded.  *)
KeyInv == \A t \in calling : t = writer /\ buffer = Folded(Head(todo[t]).key)

GivenInstance == Entry(Instance, Hostname)
GivenCluster == Entry(Cluster, Private)

(* The defaults that main has set, and those that it has yet to set.       *)
ListenSays ==
    \/ /\ todo[Main] = <<Set(Defaults, Instance, Hostname), Set(Defaults, Cluster, Private), Log>>
       /\ content[Defaults] = <<>>
    \/ /\ todo[Main] = <<Set(Defaults, Cluster, Private), Log>>
       /\ content[Defaults] = <<GivenInstance>>
    \/ /\ todo[Main] \in {<<Log>>, <<>>}
       /\ content[Defaults] = <<GivenInstance, GivenCluster>>

(* The calls for the lines of f behind the first n.                        *)
LinesLeft(f, n, calls) ==
    Len(calls) = Len(f) - n /\ \A i \in 1 .. Len(f) - n : calls[i] = Add(f[n + i])

(* The first n lines have been read, and the others are to come.           *)
ReadSo(f, n, calls, entries, header) ==
    /\ LinesLeft(f, n, calls)
    /\ Holds(f, entries, n, {})
    /\ n > 0 => header = Folded(f[n].section)

MergeSays == file # NULL /\ \E n \in 0 .. Len(file) : ReadSo(file, n, todo[Main], content[File], parsed)

(* Until the merge: the defaults, no overrides, and the lines read so far. *)
EarlySays ==
    overrides # NULL =>
        /\ phase \in {"listen", "load", "merge"} => defaults = Defaults /\ content[Overrides] = <<>>
        /\ phase = "listen" => ListenSays
        /\ phase \in {"load", "merge"} => content[Defaults] = <<GivenInstance, GivenCluster>>
        /\ phase \in {"listen", "load"} => content[File] = <<>>
        /\ phase = "load" => todo[Main] = <<>>
        /\ phase = "merge" => MergeSays

(* What the file says, or else the default.                                *)
Says(f, k, def) == IF FileSays(f, k) = NULL THEN def ELSE FileSays(f, k)

AskInstance == DefaultCall(GivenInstance)
AskCluster == DefaultCall(GivenCluster)
SetInstance == Set(File, Instance, Hostname)
SetCluster == Set(File, Cluster, Private)

(* The defaults that have been merged, and those that have yet to be.      *)
Merging(f, calls, i, c) ==
    \/ calls = <<AskInstance, AskCluster>> /\ i = FileSays(f, Instance) /\ c = FileSays(f, Cluster)
    \/ calls = <<SetInstance, AskCluster>> /\ i = FileSays(f, Instance) /\ c = FileSays(f, Cluster) /\ i = NULL
    \/ calls = <<AskCluster>> /\ i = Says(f, Instance, Hostname) /\ c = FileSays(f, Cluster)
    \/ calls = <<SetCluster>> /\ i = Says(f, Instance, Hostname) /\ c = FileSays(f, Cluster) /\ c = NULL
    \/ calls = <<>> /\ i = Says(f, Instance, Hostname) /\ c = Says(f, Cluster, Private)

(* All that the file says is in its dictionary, the defaults apart.        *)
OthersSaid(f, entries) ==
    /\ Holds(f, entries, Len(f), {Instance, Cluster})
    /\ \A k : k \notin {Instance, Cluster} => Get(entries, k, NULL) = FileSays(f, k)

(* While the defaults are merged.                                          *)
FreeSays ==
    phase = "free" =>
        /\ file # NULL
        /\ OthersSaid(file, content[File])
        /\ Merging(file, todo[Main], Get(content[File], Instance, NULL), Get(content[File], Cluster, NULL))

(* And the defaults where the file says nothing of them.                   *)
AllSaid(f, entries) ==
    /\ OthersSaid(f, entries)
    /\ Get(entries, Instance, NULL) = Says(f, Instance, Hostname)
    /\ Get(entries, Cluster, NULL) = Says(f, Cluster, Private)

(* From then on the configuration stays as it is.                          *)
LateSays ==
    file # NULL /\ phase \in LatePhases =>
        /\ AllSaid(file, content[File])
        /\ phase # "modules" => loaded = Modules(content[File])

MainSays == EarlySays /\ FreeSays /\ LateSays

SayInv == ~raced /\ ~Crashed => KeyInv /\ MainSays

-----------------------------------------------------------------------------
(* The keys, step by step.  A thread that folds one is alone with it, and  *)
(* one that has used it leaves nobody behind.                              *)
LEMMA OneCaller ==
    ASSUME KeyInv, NEW t \in calling
    PROVE  calling = {t}
  BY DEF KeyInv

(* A thread that folds a key finds that key, while it is alone in strlwc.  *)
LEMMA FoldKeepsKey ==
    ASSUME NEW t, NEW d, NEW k, Fold(t, d, k), ~raced', todo' = todo, k = Head(todo[t]).key
    PROVE  KeyInv'
  <1>1. calling = {} /\ calling' = {t} /\ writer' = t
    BY DEF Fold
  <1>2. writer \notin calling
    BY <1>1
  <1>3. buffer' \in {Folded(k)}
    BY <1>2 DEF Fold
  <1>4. \A u \in calling' : u = writer' /\ buffer' = Folded(Head(todo'[u]).key)
    BY <1>1, <1>3
  <1> QED BY <1>4 DEF KeyInv

(* Without a call there is nothing to find.                                *)
LEMMA NobodyCalls ==
    ASSUME calling' = {}
    PROVE  KeyInv'
  BY DEF KeyInv

(* Every step of a thread leaves the key of its call in the buffer.        *)
LEMMA ThreadKeepsKey ==
    ASSUME TypeOK, Working, KeyInv, NEW t \in Threads, ThreadStep(t), ~raced', ~Crashed'
    PROVE  KeyInv'
  <1>1. CASE BeginCall(t)
    <2>1. Fold(t, Head(todo[t]).dict, Head(todo[t]).key) /\ todo' = todo
      BY <1>1 DEF BeginCall
    <2> QED BY <2>1, FoldKeepsKey
  <1>2. ASSUME Idle(t), Head(todo[t]).kind = "log", NEW d, Fold(t, d, Instance), todo' = todo
        PROVE  KeyInv'
    <2>1. Head(todo[t]) = Log
      <3>1. todo[t] # <<>>
        BY <1>2 DEF Idle
      <3> QED BY <1>2, <3>1, HeadTyped, KindFacts
    <2>2. Head(todo[t]).key = Instance
      BY <2>1 DEF Log
    <2> QED BY <1>2, <2>2, FoldKeepsKey
  <1>3. CASE BeginLine(t)
    <2>1. Idle(t) /\ Head(todo[t]).kind = "log" /\ todo' = todo
      BY <1>3 DEF BeginLine
    <2>2. CASE FirstDictionary = NULL
      <3>1. UNCHANGED <<calling, buffer, writer, todo>>
        BY <1>3, <2>2 DEF BeginLine
      <3> QED BY <3>1 DEF KeyInv
    <2>3. CASE FirstDictionary # NULL
      <3>1. Fold(t, FirstDictionary, Instance)
        BY <1>3, <2>3 DEF BeginLine
      <3> QED BY <1>2, <2>1, <3>1
    <2> QED BY <2>2, <2>3
  <1>4. CASE AskConfig(t)
    <2>1. Idle(t) /\ found[t] # NULL /\ Fold(t, config, Instance) /\ todo' = todo
      BY <1>4 DEF AskConfig
    <2>2. Head(todo[t]).kind = "log"
      BY <2>1 DEF Working, CallOK
    <2> QED BY <1>2, <2>1, <2>2
  <1>5. ASSUME t \in calling, calling' = calling \ {t}
        PROVE  KeyInv'
    <2>1. calling' = {}
      BY <1>5, OneCaller
    <2> QED BY <2>1, NobodyCalls
  <1>6. CASE \/ FinishAdd(t) \/ FinishSet(t) \/ FinishAsk(t) \/ FinishInherit(t) \/ FinishInfo(t)
             \/ FinishListen(t) \/ ShowConfigured(t) \/ FindDefault(t)
    <2>1. t \in calling
      BY <1>6 DEF FinishAdd, FinishSet, FinishAsk, FinishInherit, FinishInfo, FinishListen, ShowConfigured, FindDefault,
                  InCall
    <2>2. calling' = calling \ {t}
      BY <1>6 DEF FinishAdd, FinishSet, FinishAsk, FinishInherit, FinishInfo, FinishListen, ShowConfigured, FindDefault,
                  EndLine, Return, Finish
    <2> QED BY <1>5, <2>1, <2>2
  <1>7. CASE ShowDefault(t)
    <2>1. t \notin calling /\ calling' = calling \ {t}
      BY <1>7 DEF ShowDefault, Idle, EndLine, Return, Finish
    <2>2. calling' = calling /\ UNCHANGED <<writer, buffer>>
      BY <1>7, <2>1 DEF ShowDefault, EndLine, Return, Finish
    <2>3. \A u \in calling : todo'[u] = todo[u]
      <3>1. todo' = [todo EXCEPT ![t] = <<>> \o Tail(@)]
        BY <1>7 DEF ShowDefault, EndLine, Return
      <3> QED BY <2>1, <3>1 DEF TypeOK, Working, TodoOK
    <2>4. \A u \in calling' : u = writer' /\ buffer' = Folded(Head(todo'[u]).key)
      BY <2>2, <2>3 DEF KeyInv
    <2> QED BY <2>4 DEF KeyInv
  <1>8. CASE CrashOnFreed(t)
    BY <1>8 DEF CrashOnFreed, Crashed
  <1> QED BY <1>1, <1>3, <1>4, <1>6, <1>7, <1>8 DEF ThreadStep

(* Between its calls main only changes lists of threads that are not in    *)
(* one.                                                                    *)
LEMMA MainKeepsKey ==
    ASSUME TypeOK, Working, KeyInv,
           \/ StartSocketThread \/ LoadFile \/ Merge \/ FreeDictionaries \/ LoadModules
           \/ NextSection \/ AddHost \/ HostFails
    PROVE  KeyInv'
  <1>1. UNCHANGED <<calling, writer, buffer>>
    BY DEF StartSocketThread, LoadFile, Merge, FreeDictionaries, LoadModules, NextSection, AddHost, HostFails, lookups
  <1>2. \A u \in calling : todo[u] # <<>>
    BY DEF TypeOK, Working, CallOK
  <1>3. todo \in [Threads -> Seq(AllCalls)] /\ calling \subseteq Threads
    BY DEF TypeOK, Working, TodoOK
  <1>4. CASE StartSocketThread
    <2>1. todo[SocketThread] = <<>> /\ (todo' = todo \/ todo' = [todo EXCEPT ![SocketThread] = <<Log>>])
      BY <1>4 DEF StartSocketThread, MainAt, Calls, Working, TodoOK
    <2>2. \A u \in calling : todo'[u] = todo[u]
      BY <1>2, <1>3, <2>1
    <2> QED BY <1>1, <2>2 DEF KeyInv
  <1>5. CASE \/ LoadFile \/ Merge \/ FreeDictionaries \/ LoadModules \/ NextSection \/ AddHost \/ HostFails
    <2>1. todo[Main] = <<>> /\ (todo' = todo \/ \E calls : todo' = [todo EXCEPT ![Main] = calls])
      BY <1>5 DEF LoadFile, Merge, FreeDictionaries, LoadModules, NextSection, AddHost, HostFails, MainAt, Calls
    <2>2. \A u \in calling : todo'[u] = todo[u]
      BY <1>2, <1>3, <2>1
    <2> QED BY <1>1, <2>2 DEF KeyInv
  <1> QED BY <1>4, <1>5

-----------------------------------------------------------------------------
(* What leaves alone what the configuration says.                          *)
LEMMA SaysKept ==
    ASSUME MainSays, UNCHANGED <<file, parsed, defaults, overrides, phase, loaded>>,
           content'[Defaults] = content[Defaults], content'[Overrides] = content[Overrides],
           content'[File] = content[File], todo'[Main] = todo[Main]
    PROVE  MainSays'
  <1>1. EarlySays'
    BY DEF MainSays, EarlySays, ListenSays, MergeSays
  <1>2. FreeSays'
    BY DEF MainSays, FreeSays
  <1>3. LateSays'
    BY DEF MainSays, LateSays
  <1> QED BY <1>1, <1>2, <1>3 DEF MainSays

(* In the end main's calls do not matter any more.                         *)
LEMMA LateKept ==
    ASSUME MainSays, phase \in LatePhases, UNCHANGED <<file, loaded>>, phase' \in LatePhases, phase' = phase,
           content'[File] = content[File]
    PROVE  MainSays'
  <1>1. phase' \notin {"listen", "load", "merge", "free"}
    BY DEF LatePhases
  <1>2. LateSays'
    BY DEF MainSays, LateSays
  <1> QED BY <1>1, <1>2 DEF MainSays, EarlySays, FreeSays

-----------------------------------------------------------------------------
(* What the steps of the threads leave of it.                              *)
LEMMA ShortLists ==
    ASSUME NEW a, NEW b, NEW c
    PROVE  /\ Head(<<a>>) = a /\ Tail(<<a>>) = <<>> /\ <<a>> # <<>>
           /\ Head(<<a, b>>) = a /\ Tail(<<a, b>>) = <<b>> /\ <<a, b>> # <<>>
           /\ Head(<<a, b, c>>) = a /\ Tail(<<a, b, c>>) = <<b, c>> /\ <<a, b, c>> # <<>>
           /\ <<>> \o <<>> = <<>> /\ <<a>> \o <<>> = <<a>> /\ <<a>> \o <<b>> = <<a, b>>
           /\ <<>> \o <<a>> = <<a>> /\ <<>> \o <<a, b>> = <<a, b>>
  <1>1. /\ Head(<<a>>) = a /\ Head(<<a, b>>) = a /\ Head(<<a, b, c>>) = a
        /\ <<a>> # <<>> /\ <<a, b>> # <<>> /\ <<a, b, c>> # <<>>
    OBVIOUS
  <1>2. Tail(<<a>>) = <<>>
    OBVIOUS
  <1>3. Tail(<<a, b>>) = <<b>>
    OBVIOUS
  <1>4. Tail(<<a, b, c>>) = <<b, c>>
    OBVIOUS
  <1>5. <<>> \o <<>> = <<>>
    OBVIOUS
  <1>6. <<a>> \o <<>> = <<a>> /\ <<>> \o <<a>> = <<a>>
    OBVIOUS
  <1>7. <<>> \o <<a, b>> = <<a, b>>
    OBVIOUS
  <1>8. <<a>> \o <<b>> = <<a, b>>
    <2> DEFINE s == <<a>>
               t == <<b>>
               u == <<a, b>>
    <2>1. s \in Seq({a, b}) /\ t \in Seq({a, b}) /\ u \in Seq({a, b})
      OBVIOUS
    <2>2. Len(s) = 1 /\ Len(t) = 1 /\ Len(u) = 2 /\ s[1] = a /\ t[1] = b /\ u[1] = a /\ u[2] = b
      OBVIOUS
    <2> DEFINE S == {a, b}
    <2> HIDE DEF s, t, u, S
    <2>0. s \in Seq(S) /\ t \in Seq(S)
      BY <2>1 DEF S
    <2>3. s \o t \in Seq(S) /\ Len(s \o t) = 2 /\ (s \o t)[1] = a /\ (s \o t)[2] = b
      <3>1. /\ s \o t \in Seq(S) /\ Len(s \o t) = Len(s) + Len(t)
            /\ \A i \in 1 .. Len(s) + Len(t) : (s \o t)[i] = IF i <= Len(s) THEN s[i] ELSE t[i - Len(s)]
        BY <2>0
      <3> QED BY <3>1, <2>2
    <2>4. \A i \in 1 .. 2 : (s \o t)[i] = u[i]
      BY <2>2, <2>3
    <2>5. s \o t = u
      BY <2>1, <2>2, <2>3, <2>4, SeqEqual DEF S
    <2> QED BY <2>5 DEF s, t, u
  <1> QED BY <1>1, <1>2, <1>3, <1>4, <1>5, <1>6, <1>7, <1>8

(* The steps of the other threads change nothing of what is said.          *)
LEMMA OthersSay ==
    ASSUME TypeOK, Working, MainSays, NEW t \in Threads, t # Main, ThreadStep(t), ~Crashed'
    PROVE  MainSays'
  <1>1. ~(FinishAdd(t) \/ FinishSet(t) \/ FinishAsk(t) \/ FinishInherit(t) \/ FinishListen(t))
    <2>1. ASSUME NEW kind \in {"add", "set", "ask", "inherit", "listen"}, InCall(t, kind)
          PROVE  FALSE
      BY <2>1, InCallFacts, Callers
    <2> QED BY <2>1 DEF FinishAdd, FinishSet, FinishAsk, FinishInherit, FinishListen
  <1>2. ~CrashOnFreed(t)
    BY DEF CrashOnFreed, Crashed
  <1>3. UNCHANGED <<file, content, parsed, defaults, overrides, phase, loaded>>
    BY <1>1, <1>2 DEF ThreadStep, BeginCall, FinishInfo, BeginLine, ShowConfigured, FindDefault, ShowDefault, AskConfig,
                      EndLine, Return, Finish, pointers, results
  <1>4. todo'[Main] = todo[Main]
    <2>1. todo' = todo \/ todo' = [todo EXCEPT ![t] = <<>> \o Tail(todo[t])]
      BY <1>1, <1>2 DEF ThreadStep, BeginCall, FinishInfo, BeginLine, ShowConfigured, FindDefault, ShowDefault, AskConfig,
                        EndLine, Return
    <2> QED BY <2>1, ThreadsDistinct DEF Working, TodoOK
  <1> QED BY <1>3, <1>4, SaysKept

(* Nor does the start of a call or a log line.                             *)
LEMMA BeginSays ==
    ASSUME MainSays, NEW t, BeginCall(t) \/ BeginLine(t) \/ AskConfig(t) \/ FindDefault(t)
    PROVE  MainSays'
  <1>1. UNCHANGED <<file, content, parsed, defaults, overrides, phase, loaded, todo>>
    BY DEF BeginCall, BeginLine, AskConfig, FindDefault, pointers, results
  <1> QED BY <1>1, SaysKept

(* The call of main that returns.                                          *)
LEMMA MainInCall ==
    ASSUME TypeOK, Working, KeyInv, NEW kind, InCall(Main, kind)
    PROVE  /\ todo[Main] # <<>> /\ Head(todo[Main]).kind = kind
           /\ Head(todo[Main]) \in AllCalls /\ Head(todo[Main]) \in MainCalls(phase)
           /\ buffer = Folded(Head(todo[Main]).key)
           /\ kind # "log" => at[Main] = Head(todo[Main]).dict
           /\ phase \in {"listen", "load", "merge", "free"} \cup LatePhases
  <1>1. todo[Main] # <<>> /\ Head(todo[Main]).kind = kind /\ Main \in calling /\ Main \in Threads
    BY InCallFacts, ThreadsDistinct
  <1>2. Head(todo[Main]) \in AllCalls /\ Head(todo[Main]) \in MainCalls(phase)
    BY <1>1, HeadTyped
  <1>3. kind # "log" => at[Main] = Head(todo[Main]).dict
    BY <1>1, InCallFacts
  <1>4. buffer = Folded(Head(todo[Main]).key)
    BY <1>1 DEF KeyInv
  <1>5. phase \in {"listen", "load", "merge", "free"} \cup LatePhases
    BY DEF Working, PhaseOK, FilePhases
  <1> QED BY <1>1, <1>2, <1>3, <1>4, <1>5

(* What a call's return leaves for main to do.                             *)
LEMMA MainReturnsList ==
    ASSUME Working, NEW more, Return(Main, more)
    PROVE  /\ todo'[Main] = more \o Tail(todo[Main])
           /\ UNCHANGED <<file, defaults, overrides, phase, loaded>>
  <1>1. todo' = [todo EXCEPT ![Main] = more \o Tail(todo[Main])]
    BY DEF Return
  <1>2. todo'[Main] = more \o Tail(todo[Main])
    BY <1>1, ThreadsDistinct DEF Working, TodoOK
  <1> QED BY <1>2 DEF Return, Finish, pointers, results

(* Before the defaults are all set, only they are; no line is written then. *)
LEMMA LineSays ==
    ASSUME TypeOK, Working, KeyInv, MainSays, ShowConfigured(Main) \/ ShowDefault(Main)
    PROVE  MainSays'
  <1>1. Return(Main, <<>>) /\ UNCHANGED <<content, parsed>>
    BY DEF ShowConfigured, ShowDefault, EndLine
  <1>2. todo[Main] # <<>> /\ Head(todo[Main]).kind = "log" /\ Head(todo[Main]) \in MainCalls(phase)
        /\ phase \in {"listen", "load", "merge", "free"} \cup LatePhases
    <2>1. CASE ShowConfigured(Main)
      BY <2>1, MainInCall DEF ShowConfigured
    <2>2. CASE ShowDefault(Main)
      <3>1. todo[Main] # <<>> /\ Head(todo[Main]).kind = "log" /\ Main \in Threads
        BY <2>2, ThreadsDistinct DEF ShowDefault, Working, CallOK
      <3>2. phase \in {"listen", "load", "merge", "free"} \cup LatePhases
        BY DEF Working, PhaseOK, FilePhases
      <3> QED BY <3>1, <3>2, HeadTyped
    <2> QED BY <2>1, <2>2
  <1>3. phase = "listen" \/ phase \in LatePhases
    BY <1>2, MainFacts DEF FilePhases
  <1>4. UNCHANGED <<file, defaults, overrides, phase, loaded>> /\ todo'[Main] = <<>> \o Tail(todo[Main])
    BY <1>1, MainReturnsList
  <1>5. CASE phase \in LatePhases
    BY <1>1, <1>4, <1>5, LateKept
  <1>6. CASE phase = "listen"
    <2>1. ASSUME overrides # NULL
          PROVE  ListenSays'
      <3>1. ListenSays
        BY <1>6, <2>1 DEF MainSays, EarlySays
      <3>2. todo[Main] = <<Log>> /\ content[Defaults] = <<GivenInstance, GivenCluster>>
        BY <1>2, <3>1, ShortLists DEF ListenSays, Set
      <3>3. todo'[Main] = <<>>
        BY <1>4, <3>2, ShortLists
      <3> QED BY <1>1, <3>2, <3>3 DEF ListenSays
    <2>2. EarlySays'
      BY <1>1, <1>4, <1>6, <2>1 DEF MainSays, EarlySays
    <2> QED BY <1>4, <1>6, <2>2 DEF MainSays, FreeSays, LateSays, LatePhases
  <1> QED BY <1>3, <1>5, <1>6

(* The calls that main makes of the merged configuration leave it as it is.*)
LEMMA LaterSays ==
    ASSUME TypeOK, Working, KeyInv, MainSays, FinishInherit(Main) \/ FinishInfo(Main) \/ FinishListen(Main)
    PROVE  MainSays'
  <1>1. PICK kind \in {"inherit", "info", "listen"} : InCall(Main, kind)
    BY DEF FinishInherit, FinishInfo, FinishListen
  <1>2. phase \in LatePhases
    BY <1>1, MainInCall, MainFacts DEF FilePhases
  <1>3. UNCHANGED <<file, content, phase, loaded>>
    BY DEF FinishInherit, FinishInfo, FinishListen, Return, Finish, results
  <1> QED BY <1>2, <1>3, LateKept

(* The next line of the file that main comes to.                           *)
LEMMA NextLine ==
    ASSUME NEW f \in Files \ {NULL}, NEW n \in 0 .. Len(f), NEW S, NEW calls \in Seq(S), LinesLeft(f, n, calls),
           calls # <<>>
    PROVE  /\ n + 1 \in 1 .. Len(f) /\ Head(calls) = Add(f[n + 1])
           /\ LinesLeft(f, n + 1, Tail(calls))
  <1>0. Len(f) \in Nat /\ n \in Nat /\ n <= Len(f)
    BY FileFacts
  <1>1. Len(calls) = Len(f) - n /\ \A i \in 1 .. Len(f) - n : calls[i] = Add(f[n + i])
    BY DEF LinesLeft
  <1>2. Len(calls) \in Nat /\ Len(calls) # 0 /\ Head(calls) = calls[1]
    BY EmptySeq
  <1>3. n + 1 \in 1 .. Len(f) /\ Head(calls) = Add(f[n + 1])
    BY <1>0, <1>1, <1>2
  <1>4. Len(Tail(calls)) = Len(calls) - 1 /\ \A i \in 1 .. Len(calls) - 1 : Tail(calls)[i] = calls[i + 1]
    BY <1>2
  <1>5. ASSUME NEW i \in 1 .. Len(f) - (n + 1)
        PROVE  Tail(calls)[i] = Add(f[n + 1 + i])
    <2>1. i + 1 \in 1 .. Len(f) - n /\ i \in 1 .. Len(calls) - 1 /\ n + (i + 1) = n + 1 + i
      BY <1>0, <1>1
    <2>2. Tail(calls)[i] = calls[i + 1]
      BY <1>4, <2>1
    <2>3. calls[i + 1] = Add(f[n + (i + 1)])
      BY <1>1, <2>1
    <2> QED BY <2>1, <2>2, <2>3
  <1>6. Len(Tail(calls)) = Len(f) - (n + 1)
    BY <1>0, <1>1, <1>4
  <1> QED BY <1>3, <1>5, <1>6 DEF LinesLeft

(* Which calls main makes before the configuration is there.               *)
LEMMA EarlyCalls ==
    ASSUME TypeOK, Working, MainSays, overrides # NULL, todo[Main] # <<>>
    PROVE  /\ phase # "load"
           /\ phase = "merge" => Head(todo[Main]).kind = "add"
           /\ phase = "listen" => Head(todo[Main]).kind \in {"set", "log"}
  <1>1. phase # "load"
    BY DEF MainSays, EarlySays
  <1>2. ASSUME phase = "merge"
        PROVE  Head(todo[Main]).kind = "add"
    <2>1. file \in Files \ {NULL} /\ todo[Main] \in Seq(AllCalls)
      BY <1>2, ThreadsDistinct DEF MainSays, EarlySays, MergeSays, Working, PhaseOK, TodoOK
    <2>2. PICK n \in 0 .. Len(file) : LinesLeft(file, n, todo[Main])
      BY <1>2 DEF MainSays, EarlySays, MergeSays, ReadSo
    <2>3. Head(todo[Main]) = Add(file[n + 1])
      BY <2>1, <2>2, NextLine
    <2> QED BY <2>3 DEF Add
  <1>3. phase = "listen" => Head(todo[Main]).kind \in {"set", "log"}
    BY ShortLists DEF MainSays, EarlySays, ListenSays, Set, Log
  <1> QED BY <1>1, <1>2, <1>3

(* While merging, main asks for a default or sets one.                     *)
LEMMA MergingKinds ==
    ASSUME NEW f, NEW calls, NEW i, NEW c, Merging(f, calls, i, c), calls # <<>>
    PROVE  Head(calls).kind \in {"ask", "set"}
  BY ShortLists DEF Merging, AskInstance, AskCluster, SetInstance, SetCluster, DefaultCall, Ask, Set

(* Without overrides main will not merge, and nothing is said.             *)
LEMMA NothingToSay ==
    ASSUME phase' \in {"listen", "load", "merge"}, overrides' = NULL
    PROVE  MainSays'
  <1>1. phase' \notin LatePhases /\ phase' # "free"
    BY DEF LatePhases
  <1> QED BY <1>1 DEF MainSays, EarlySays, FreeSays, LateSays

(* A default is asked for.                                                 *)
LEMMA MergingAsked ==
    ASSUME NEW f, NEW calls, NEW i, NEW c, Merging(f, calls, i, c), calls # <<>>, Head(calls).kind = "ask"
    PROVE  /\ Head(calls).key \in {Instance, Cluster}
           /\ LET answer == IF Head(calls).key = Instance THEN i ELSE c
              IN  Merging(f, (IF answer = NULL THEN Head(calls).otherwise ELSE Head(calls).then) \o Tail(calls), i, c)
  <1>1. /\ AskInstance.kind = "ask" /\ AskInstance.key = Instance
        /\ AskInstance.then = <<>> /\ AskInstance.otherwise = <<SetInstance>>
        /\ AskCluster.kind = "ask" /\ AskCluster.key = Cluster
        /\ AskCluster.then = <<>> /\ AskCluster.otherwise = <<SetCluster>>
        /\ SetInstance.kind = "set" /\ SetCluster.kind = "set"
    BY DEF AskInstance, AskCluster, SetInstance, SetCluster, DefaultCall, GivenInstance, GivenCluster, Entry, Ask, Set
  <1>2. \/ calls = <<AskInstance, AskCluster>> /\ i = FileSays(f, Instance) /\ c = FileSays(f, Cluster)
        \/ calls = <<AskCluster>> /\ i = Says(f, Instance, Hostname) /\ c = FileSays(f, Cluster)
    BY <1>1, ShortLists DEF Merging
  <1>3. CASE calls = <<AskInstance, AskCluster>> /\ i = FileSays(f, Instance) /\ c = FileSays(f, Cluster)
    <2>1. Head(calls) = AskInstance /\ Tail(calls) = <<AskCluster>>
      BY <1>3, ShortLists
    <2>2. CASE i = NULL
      <3>1. <<SetInstance>> \o <<AskCluster>> = <<SetInstance, AskCluster>>
        BY ShortLists, Zenon
      <3> QED BY <1>1, <1>3, <2>1, <2>2, <3>1 DEF Merging
    <2>3. CASE i # NULL
      <3>1. <<>> \o Tail(calls) = <<AskCluster>>
        BY <2>1, ShortLists
      <3> QED BY <1>1, <1>3, <2>1, <2>3, <3>1 DEF Merging, Says
    <2> QED BY <2>2, <2>3
  <1>4. CASE calls = <<AskCluster>> /\ i = Says(f, Instance, Hostname) /\ c = FileSays(f, Cluster)
    <2>0. Cluster # Instance
      BY OwnKeysFolded
    <2>1. Head(calls) = AskCluster /\ Tail(calls) = <<>>
      BY <1>4, ShortLists
    <2>2. CASE c = NULL
      <3>1. <<SetCluster>> \o Tail(calls) = <<SetCluster>>
        BY <2>1, ShortLists
      <3> QED BY <1>1, <1>4, <2>0, <2>1, <2>2, <3>1 DEF Merging
    <2>3. CASE c # NULL
      <3>1. <<>> \o Tail(calls) = <<>>
        BY <2>1, ShortLists
      <3> QED BY <1>1, <1>4, <2>0, <2>1, <2>3, <3>1 DEF Merging, Says
    <2> QED BY <2>2, <2>3
  <1> QED BY <1>2, <1>3, <1>4

(* Main has its answer: of a default, whether the file has the key.        *)
LEMMA AskSays ==
    ASSUME TypeOK, Working, KeyInv, MainSays, FinishAsk(Main)
    PROVE  MainSays'
  <1> DEFINE call == Head(todo[Main])
             answer == Get(content[at[Main]], buffer, NULL)
  <1>1. InCall(Main, "ask") /\ UNCHANGED <<content, parsed>>
        /\ Return(Main, IF answer = NULL THEN call.otherwise ELSE call.then)
    BY DEF FinishAsk
  <1>2. /\ todo[Main] # <<>> /\ call.kind = "ask" /\ call \in MainCalls(phase) /\ buffer = Folded(call.key)
        /\ at[Main] = call.dict /\ phase \in {"listen", "load", "merge", "free"} \cup LatePhases
    BY <1>1, MainInCall
  <1>3. UNCHANGED <<file, defaults, overrides, phase, loaded>>
    BY <1>1, MainReturnsList
  <1>4. todo'[Main] = (IF answer = NULL THEN call.otherwise ELSE call.then) \o Tail(todo[Main])
    <2> HIDE DEF answer, call
    <2> QED BY <1>1, MainReturnsList
  <1>5. CASE phase \in LatePhases
    BY <1>1, <1>3, <1>5, LateKept
  <1>6. CASE phase \in {"listen", "load", "merge"}
    <2>1. overrides = NULL
      BY <1>2, <1>6, EarlyCalls
    <2> QED BY <1>3, <1>6, <2>1, NothingToSay
  <1>7. CASE phase = "free"
    <2>1. call.dict = File
      BY <1>2, <1>7, MainFacts DEF FilePhases
    <2> DEFINE i == Get(content[File], Instance, NULL)
               c == Get(content[File], Cluster, NULL)
    <2>2. Merging(file, todo[Main], i, c) /\ file # NULL /\ OthersSaid(file, content[File])
      BY <1>7 DEF MainSays, FreeSays
    <2>3. call.key \in {Instance, Cluster}
      <3> HIDE DEF i, c
      <3> QED BY <1>2, <2>2, MergingAsked
    <2>4. answer = IF call.key = Instance THEN i ELSE c
      BY <1>2, <2>1, <2>3, OwnKeysFolded
    <2>5. Merging(file, todo'[Main], i, c)
      <3> HIDE DEF i, c, answer
      <3> QED BY <1>2, <1>4, <2>2, <2>4, MergingAsked
    <2>6. FreeSays'
      BY <1>1, <1>3, <2>2, <2>5 DEF FreeSays
    <2>7. phase' \notin LatePhases /\ phase' \notin {"listen", "load", "merge"}
      BY <1>3, <1>7 DEF LatePhases
    <2> QED BY <2>6, <2>7 DEF MainSays, EarlySays, LateSays
  <1> QED BY <1>2, <1>5, <1>6, <1>7

(* What Append makes of a sequence.                                        *)
LEMMA AppendFacts ==
    ASSUME NEW S, NEW s \in Seq(S), NEW e \in S
    PROVE  Append(s, e) \in Seq(S) /\ Len(Append(s, e)) = Len(s) + 1 /\ Append(s, e)[Len(s) + 1] = e
  OBVIOUS

(* The second item of a list.                                              *)
LEMMA AppendSecond ==
    ASSUME NEW d, NEW e
    PROVE  Append(<<d>>, e) = <<d, e>>
  <1>1. ASSUME NEW S, NEW s \in Seq(S), NEW u \in Seq(S), e \in S, Len(s) = 1, Len(u) = 2, u[1] = s[1], u[2] = e
        PROVE  Append(s, e) = u
    <2>1. Append(s, e) \in Seq(S) /\ Len(Append(s, e)) = Len(s) + 1 /\ Append(s, e)[Len(s) + 1] = e
      BY <1>1, AppendFacts
    <2>2. Append(s, e)[1] = s[1]
      BY <1>1
    <2>3. Len(Append(s, e)) = 2 /\ Append(s, e)[2] = e
      BY <1>1, <2>1
    <2>4. \A i \in 1 .. 2 : Append(s, e)[i] = u[i]
      BY <1>1, <2>2, <2>3
    <2> QED BY <1>1, <2>1, <2>3, <2>4, SeqEqual
  <1>2. /\ <<d>> \in Seq({d, e}) /\ <<d, e>> \in Seq({d, e}) /\ e \in {d, e}
        /\ Len(<<d>>) = 1 /\ Len(<<d, e>>) = 2 /\ <<d, e>>[1] = <<d>>[1] /\ <<d, e>>[2] = e
    OBVIOUS
  <1> QED BY <1>1, <1>2

(* A default is set.                                                       *)
LEMMA SetNew ==
    ASSUME NEW k \in Text, NEW v \in Vals
    PROVE  /\ Replaced(<<>>, k, v) = <<Entry(k, v)>>
           /\ \A e : e.key # k => Replaced(<<e>>, k, v) = <<e, Entry(k, v)>>
  <1>1. Places(<<>>, k) = {}
    BY DEF Places
  <1>2. \A e : e.key # k => Places(<<e>>, k) = {}
    BY DEF Places
  <1>3. ASSUME NEW e
        PROVE  Append(<<>>, e) = <<e>>
    OBVIOUS
  <1>4. ASSUME NEW d, NEW e
        PROVE  Append(<<d>>, e) = <<d, e>>
    BY AppendSecond
  <1> QED BY <1>1, <1>2, <1>3, <1>4 DEF Replaced

(* Main sets a default.                                                    *)
LEMMA ListenSet ==
    ASSUME ListenSays, todo[Main] # <<>>, Head(todo[Main]).kind = "set",
           todo'[Main] = Tail(todo[Main]),
           content'[Defaults] = Replaced(content[Defaults], Folded(Head(todo[Main]).key), Head(todo[Main]).val)
    PROVE  ListenSays'
  <1> DEFINE first == Set(Defaults, Instance, Hostname)
             second == Set(Defaults, Cluster, Private)
  <1>0. /\ first.kind = "set" /\ first.key = Instance /\ first.val = Hostname
        /\ second.kind = "set" /\ second.key = Cluster /\ second.val = Private
        /\ Log.kind = "log"
    BY DEF Set, Log
  <1>1. /\ Instance \in Text /\ Cluster \in Text /\ Hostname \in Vals /\ Private \in Vals
        /\ Folded(Instance) = Instance /\ Folded(Cluster) = Cluster /\ GivenInstance.key # Cluster
    BY KnownText, OwnKeysFolded DEF Vals, GivenInstance, Entry
  <1>2. \/ todo[Main] = <<first, second, Log>> /\ content[Defaults] = <<>>
        \/ todo[Main] = <<second, Log>> /\ content[Defaults] = <<GivenInstance>>
    BY <1>0, ShortLists DEF ListenSays
  <1>3. CASE todo[Main] = <<first, second, Log>> /\ content[Defaults] = <<>>
    <2>1. Head(todo[Main]) = first /\ Tail(todo[Main]) = <<second, Log>>
      <3> HIDE DEF first, second
      <3> QED BY <1>3, ShortLists
    <2>2. content'[Defaults] = Replaced(<<>>, Instance, Hostname)
      <3> HIDE DEF first, second
      <3> QED BY <1>0, <1>1, <1>3, <2>1
    <2>3. content'[Defaults] = <<GivenInstance>>
      BY <1>1, <2>2, SetNew DEF GivenInstance
    <2> QED BY <2>1, <2>3 DEF ListenSays
  <1>4. CASE todo[Main] = <<second, Log>> /\ content[Defaults] = <<GivenInstance>>
    <2>1. Head(todo[Main]) = second /\ Tail(todo[Main]) = <<Log>>
      <3> HIDE DEF first, second
      <3> QED BY <1>4, ShortLists
    <2>2. content'[Defaults] = Replaced(<<GivenInstance>>, Cluster, Private)
      <3> HIDE DEF first, second
      <3> QED BY <1>0, <1>1, <1>4, <2>1
    <2>3. content'[Defaults] = <<GivenInstance, GivenCluster>>
      BY <1>1, <2>2, SetNew DEF GivenCluster
    <2> QED BY <2>1, <2>3 DEF ListenSays
  <1> QED BY <1>2, <1>3, <1>4

(* A set call of the merge is for a default that the file does not give.   *)
LEMMA MergingSet ==
    ASSUME NEW f, NEW calls, NEW i, NEW c, Merging(f, calls, i, c), calls # <<>>, Head(calls).kind = "set"
    PROVE  /\ Head(calls).key \in {Instance, Cluster} /\ Head(calls).val \in Vals
           /\ Head(calls).key = Instance => i = NULL /\ Merging(f, Tail(calls), Head(calls).val, c)
           /\ Head(calls).key = Cluster => c = NULL /\ Merging(f, Tail(calls), i, Head(calls).val)
  <1>1. /\ AskInstance.kind = "ask" /\ AskCluster.kind = "ask"
        /\ SetInstance.kind = "set" /\ SetInstance.key = Instance /\ SetInstance.val = Hostname
        /\ SetCluster.kind = "set" /\ SetCluster.key = Cluster /\ SetCluster.val = Private
    BY DEF AskInstance, AskCluster, SetInstance, SetCluster, DefaultCall, Ask, Set
  <1>2. \/ /\ calls = <<SetInstance, AskCluster>> /\ i = FileSays(f, Instance)
           /\ c = FileSays(f, Cluster) /\ i = NULL
        \/ /\ calls = <<SetCluster>> /\ i = Says(f, Instance, Hostname)
           /\ c = FileSays(f, Cluster) /\ c = NULL
    BY <1>1, ShortLists DEF Merging
  <1>3. Hostname \in Vals /\ Private \in Vals /\ Instance # Cluster
    BY KnownText, OwnKeysFolded DEF Vals
  <1>4. CASE calls = <<SetInstance, AskCluster>> /\ i = FileSays(f, Instance) /\ c = FileSays(f, Cluster) /\ i = NULL
    <2>1. Head(calls) = SetInstance /\ Tail(calls) = <<AskCluster>>
      BY <1>4, ShortLists
    <2>2. Merging(f, <<AskCluster>>, Hostname, c)
      BY <1>4 DEF Merging, Says
    <2> QED BY <1>1, <1>3, <1>4, <2>1, <2>2
  <1>5. CASE /\ calls = <<SetCluster>> /\ i = Says(f, Instance, Hostname)
             /\ c = FileSays(f, Cluster) /\ c = NULL
    <2>1. Head(calls) = SetCluster /\ Tail(calls) = <<>>
      BY <1>5, ShortLists
    <2>2. Merging(f, <<>>, i, Private)
      BY <1>5 DEF Merging, Says
    <2> QED BY <1>1, <1>3, <1>5, <2>1, <2>2
  <1> QED BY <1>2, <1>4, <1>5

(* Main sets an entry: a default, at first or in the merge, or a later one.*)
LEMMA SetSays ==
    ASSUME TypeOK, Working, KeyInv, MainSays, FinishSet(Main)
    PROVE  MainSays'
  <1> DEFINE call == Head(todo[Main])
             d == at[Main]
             key == Folded(call.key)
  <1>1. InCall(Main, "set") /\ Return(Main, <<>>) /\ parsed' = parsed
    BY DEF FinishSet
  <1>2. /\ todo[Main] # <<>> /\ call.kind = "set" /\ call \in MainCalls(phase) /\ call \in AllCalls /\ buffer = key
        /\ d = call.dict /\ phase \in {"listen", "load", "merge", "free"} \cup LatePhases
        /\ call.val \in Vals /\ key \in Text
    BY <1>1, MainInCall, KindFacts, FoldedTyped
  <1>3. UNCHANGED <<file, defaults, overrides, phase, loaded>> /\ todo'[Main] = <<>> \o Tail(todo[Main])
    BY <1>1, MainReturnsList
  <1>4. Tail(todo[Main]) \in Seq(AllCalls) /\ <<>> \o Tail(todo[Main]) = Tail(todo[Main])
    <2>1. todo[Main] \in Seq(AllCalls)
      BY ThreadsDistinct DEF Working, TodoOK
    <2> QED BY <1>2, <2>1, NothingMore
  <1>5. /\ d = NULL => content' = content
        /\ d # NULL => /\ content'[d] = Replaced(content[d], key, call.val)
                       /\ \A e \in Dicts \ {d} : content'[e] = content[e]
    <2>1. content \in [Dicts -> Seq(Entries)] /\ d \in Dicts \cup {NULL}
      BY ThreadsDistinct DEF TypeOK
    <2>2. content' = IF d = NULL THEN content ELSE [content EXCEPT ![d] = Replaced(content[d], key, call.val)]
      BY <1>2 DEF FinishSet
    <2> HIDE DEF d, call, key
    <2> QED BY <2>1, <2>2
  <1>6. \A e \in Dicts : content[e] \in Seq(Entries)
    BY DEF TypeOK
  <1> HIDE DEF key
  <1>7. CASE phase \in LatePhases
    <2>1. d \in {Section} \cup HostDicts
      BY <1>2, <1>7, MainFacts DEF LatePhases, FilePhases
    <2>2. content'[File] = content[File]
      BY <1>5, <2>1, DictsDistinct
    <2> QED BY <1>3, <1>7, <2>2, LateKept
  <1>8. CASE phase \in {"load", "merge"}
    <2>1. overrides = NULL
      BY <1>2, <1>8, EarlyCalls
    <2> QED BY <1>3, <1>8, <2>1, NothingToSay
  <1>9. CASE phase = "listen"
    <2>1. CASE overrides = NULL
      BY <1>3, <1>9, <2>1, NothingToSay
    <2>2. CASE overrides # NULL
      <3>1. /\ ListenSays /\ defaults = Defaults /\ content[Overrides] = <<>> /\ content[File] = <<>>
        BY <1>9, <2>2 DEF MainSays, EarlySays
      <3>2. d = Defaults
        <4>1. Set(Defaults, Instance, Hostname).dict = Defaults /\ Set(Defaults, Cluster, Private).dict = Defaults
              /\ Log.kind # "set"
          BY DEF Set, Log
        <4> QED BY <1>2, <3>1, <4>1, ShortLists DEF ListenSays
      <3>3. content'[Defaults] = Replaced(content[Defaults], key, call.val)
            /\ content'[Overrides] = <<>> /\ content'[File] = <<>>
        BY <1>5, <3>1, <3>2, DictsDistinct
      <3>4. ListenSays'
        BY <1>2, <1>3, <1>4, <3>1, <3>3, ListenSet DEF key
      <3>5. EarlySays'
        BY <1>3, <1>9, <3>1, <3>3, <3>4 DEF EarlySays
      <3> QED BY <1>3, <1>9, <3>5 DEF MainSays, FreeSays, LateSays, LatePhases
    <2> QED BY <2>1, <2>2
  <1>10. CASE phase = "free"
    <2>1. d = File
      BY <1>2, <1>10, MainFacts DEF FilePhases
    <2> DEFINE i == Get(content[File], Instance, NULL)
               c == Get(content[File], Cluster, NULL)
               e == content[File]
               r == content'[File]
    <2>2. Merging(file, todo[Main], i, c) /\ file # NULL /\ OthersSaid(file, e)
      BY <1>10 DEF MainSays, FreeSays
    <2>3. r = Replaced(e, key, call.val) /\ e \in Seq(Entries)
      BY <1>5, <1>6, <2>1, DictsDistinct
    <2>4. /\ call.key \in {Instance, Cluster}
          /\ call.key = Instance => i = NULL /\ Merging(file, Tail(todo[Main]), call.val, c)
          /\ call.key = Cluster => c = NULL /\ Merging(file, Tail(todo[Main]), i, call.val)
      <3> HIDE DEF i, c
      <3> QED BY <1>2, <2>2, MergingSet
    <2>5. key = call.key
      BY <2>4, OwnKeysFolded DEF key
    <2> HIDE DEF e, r
    <2>6. /\ \A j : j # key => Get(r, j, NULL) = Get(e, j, NULL)
          /\ Get(r, key, NULL) = call.val
      BY <1>2, <2>3, GetReplaced
    <2>7. Get(e, key, NULL) = NULL
      BY <2>4, <2>5 DEF e
    <2>8. OthersSaid(file, r)
      <3>1. Holds(file, e, Len(file), {Instance, Cluster}) /\ key \in {Instance, Cluster}
        BY <2>2, <2>4, <2>5 DEF OthersSaid
      <3>2. Holds(file, r, Len(file), {Instance, Cluster})
        BY <1>2, <2>3, <2>7, <3>1, HoldsReplaced
      <3>3. \A k : k \notin {Instance, Cluster} => Get(r, k, NULL) = FileSays(file, k)
        BY <2>2, <2>6, <3>1 DEF OthersSaid
      <3> QED BY <3>2, <3>3 DEF OthersSaid
    <2>9. Merging(file, todo'[Main], Get(r, Instance, NULL), Get(r, Cluster, NULL))
      BY <1>3, <1>4, <2>4, <2>5, <2>6, OwnKeysFolded DEF e
    <2>10. FreeSays'
      BY <1>3, <2>2, <2>8, <2>9 DEF FreeSays, r
    <2>11. phase' \notin LatePhases /\ phase' \notin {"listen", "load", "merge"}
      BY <1>3, <1>10 DEF LatePhases
    <2> QED BY <2>10, <2>11 DEF MainSays, EarlySays, LateSays
  <1> QED BY <1>2, <1>7, <1>8, <1>9, <1>10

(* A line of the file is read.                                             *)
LEMMA ReadLine ==
    ASSUME SettingsVisible, NEW f \in Files \ {NULL}, NEW n \in 0 .. Len(f), NEW calls \in Seq(AllCalls), calls # <<>>,
           NEW entries \in Seq(Entries), NEW header \in Text, ReadSo(f, n, calls, entries, header),
           NEW read \in Seq(Entries), NEW parsedNow \in Text,
           LET key == Folded(Head(calls).key) IN
           IF Head(calls).val = NULL
           THEN parsedNow = key /\ read = Replaced(entries, key, NULL)
           ELSE read = Added(entries, header \o key, Head(calls).val) /\ parsedNow = header
    PROVE  \E m \in 0 .. Len(f) : ReadSo(f, m, Tail(calls), read, parsedNow)
  <1> DEFINE line == f[n + 1]
  <1>1. n + 1 \in 1 .. Len(f) /\ Head(calls) = Add(line) /\ LinesLeft(f, n + 1, Tail(calls))
    BY NextLine DEF ReadSo
  <1>2. Len(f) \in Nat /\ n \in Nat /\ DOMAIN f = 1 .. Len(f) /\ n + 1 \in 0 .. Len(f) /\ n + 1 > 0 /\ n + 1 <= Len(f)
    BY <1>1, FileFacts
  <1>3. /\ Head(calls).val = line.val
        /\ line.val = NULL => Head(calls).key = line.section
        /\ line.val # NULL => Head(calls).key = line.name
    BY <1>1 DEF Add
  <1>4. Holds(f, entries, n, {})
    BY DEF ReadSo
  <1>5. CASE line.val = NULL
    <2>1. parsedNow = Folded(line.section) /\ read = Replaced(entries, Folded(line.section), NULL)
      BY <1>3, <1>5
    <2>2. Holds(f, read, n + 1, {})
      BY <1>2, <1>4, <1>5, <2>1, HoldsHeader
    <2>3. ReadSo(f, n + 1, Tail(calls), read, parsedNow)
      BY <1>1, <2>1, <2>2 DEF ReadSo
    <2> QED BY <1>2, <2>3
  <1>6. CASE line.val # NULL
    <2>1. n \in DOMAIN f /\ f[n].section = line.section
      <3>1. n + 1 - 1 \in DOMAIN f /\ f[n + 1 - 1].section = line.section
        BY <1>1, <1>2, <1>6, FileFacts
      <3> QED BY <1>2, <3>1
    <2>2. header = Folded(line.section)
      BY <1>2, <2>1 DEF ReadSo
    <2>3. header \o Folded(line.name) = FullKey(line)
      BY <2>2 DEF FullKey
    <2>4. read = Added(entries, FullKey(line), line.val) /\ parsedNow = Folded(line.section)
      BY <1>3, <1>6, <2>2, <2>3
    <2>5. Holds(f, read, n + 1, {})
      BY <1>2, <1>4, <1>6, <2>4, HoldsAdd
    <2>6. ReadSo(f, n + 1, Tail(calls), read, parsedNow)
      BY <1>1, <2>4, <2>5 DEF ReadSo
    <2> QED BY <1>2, <2>6
  <1> QED BY <1>5, <1>6

(* Main reads a line of the file (iniparser_load).                         *)
LEMMA AddSays ==
    ASSUME SettingsVisible, TypeOK, TypeOK', Working, KeyInv, MainSays, FinishAdd(Main)
    PROVE  MainSays'
  <1> DEFINE call == Head(todo[Main])
             key == Folded(call.key)
  <1>1. InCall(Main, "add") /\ Return(Main, <<>>)
    BY DEF FinishAdd
  <1>2. /\ todo[Main] # <<>> /\ call.kind = "add" /\ call \in MainCalls(phase) /\ buffer = key
        /\ phase \in {"listen", "load", "merge", "free"} \cup LatePhases
    BY <1>1, MainInCall
  <1>3. UNCHANGED <<file, defaults, overrides, phase, loaded>> /\ todo'[Main] = <<>> \o Tail(todo[Main])
    BY <1>1, MainReturnsList
  <1>4. todo[Main] \in Seq(AllCalls) /\ <<>> \o Tail(todo[Main]) = Tail(todo[Main])
    <2>1. todo[Main] \in Seq(AllCalls)
      BY ThreadsDistinct DEF Working, TodoOK
    <2> QED BY <1>2, <2>1, NothingMore
  <1>5. phase \in {"load", "merge", "free"}
    BY <1>2, MainFacts DEF FilePhases
  <1>6. phase # "free"
    <2>1. phase = "free" => \E i, c : Merging(file, todo[Main], i, c)
      BY DEF MainSays, FreeSays
    <2> QED BY <1>2, <2>1, MergingKinds
  <1>7. CASE overrides = NULL
    BY <1>3, <1>5, <1>6, <1>7, NothingToSay
  <1>8. CASE overrides # NULL
    <2>1. phase = "merge"
      BY <1>2, <1>5, <1>6, <1>8, EarlyCalls
    <2>2. file # NULL /\ file \in Files
      BY <1>8, <2>1 DEF MainSays, EarlySays, MergeSays, Working, PhaseOK
    <2>3. PICK n \in 0 .. Len(file) : ReadSo(file, n, todo[Main], content[File], parsed)
      BY <1>8, <2>1 DEF MainSays, EarlySays, MergeSays
    <2>4. content[File] \in Seq(Entries) /\ content'[File] \in Seq(Entries) /\ parsed \in Text /\ parsed' \in Text
      BY DictsDistinct DEF TypeOK
    <2>5. /\ content'[Defaults] = content[Defaults] /\ content'[Overrides] = content[Overrides]
          /\ IF call.val = NULL
             THEN parsed' = key /\ content'[File] = Replaced(content[File], key, NULL)
             ELSE content'[File] = Added(content[File], parsed \o key, call.val) /\ parsed' = parsed
      <3>1. IF call.val = NULL
            THEN parsed' = key /\ content' = [content EXCEPT ![File] = Replaced(content[File], key, NULL)]
            ELSE content' = [content EXCEPT ![File] = Added(content[File], parsed \o key, call.val)] /\ parsed' = parsed
        BY <1>2 DEF FinishAdd
      <3>2. content \in [Dicts -> Seq(Entries)]
        BY DEF TypeOK
      <3> HIDE DEF key, call
      <3> QED BY <3>1, <3>2, DictsDistinct
    <2>6. \E m \in 0 .. Len(file) : ReadSo(file, m, Tail(todo[Main]), content'[File], parsed')
      BY <1>2, <1>4, <2>2, <2>3, <2>4, <2>5, ReadLine
    <2>7. MergeSays'
      BY <1>3, <1>4, <2>2, <2>6 DEF MergeSays
    <2>8. EarlySays'
      BY <1>3, <1>8, <2>1, <2>5, <2>7 DEF MainSays, EarlySays
    <2> QED BY <1>3, <2>1, <2>8 DEF MainSays, FreeSays, LateSays, LatePhases
  <1> QED BY <1>7, <1>8

(* Main's steps between its calls.                                         *)
LEMMA StartSays ==
    ASSUME TypeOK, Working, MainSays, StartSocketThread
    PROVE  MainSays'
  <1>1. /\ phase = "listen" /\ todo[Main] = <<>> /\ phase' = "load"
        /\ UNCHANGED <<file, content, parsed, defaults, overrides, loaded>>
    BY DEF StartSocketThread, MainAt, pointers, results
  <1>2. todo'[Main] = <<>>
    <2>1. todo' = todo \/ todo' = [todo EXCEPT ![SocketThread] = <<Log>>]
      BY DEF StartSocketThread, Calls
    <2> QED BY <1>1, <2>1, ThreadsDistinct DEF Working, TodoOK
  <1>3. CASE overrides = NULL
    BY <1>1, <1>3, NothingToSay
  <1>4. CASE overrides # NULL
    <2>1. ListenSays /\ defaults = Defaults /\ content[Overrides] = <<>> /\ content[File] = <<>>
      BY <1>1, <1>4 DEF MainSays, EarlySays
    <2>2. content[Defaults] = <<GivenInstance, GivenCluster>>
      BY <1>1, <2>1, ShortLists DEF ListenSays
    <2> QED BY <1>1, <1>2, <2>1, <2>2 DEF MainSays, EarlySays, FreeSays, LateSays, LatePhases
  <1> QED BY <1>3, <1>4

(* Main comes to the file.                                                 *)
LEMMA LoadSays ==
    ASSUME TypeOK, Working, MainSays, LoadFile
    PROVE  MainSays'
  <1>1. /\ phase = "load" /\ UNCHANGED <<file, content, parsed, defaults, overrides, loaded>>
    BY DEF LoadFile, MainAt, pointers, results
  <1>2. CASE file = NULL
    <2>1. phase' = "idle"
      BY <1>2 DEF LoadFile
    <2> QED BY <1>1, <1>2, <2>1 DEF MainSays, EarlySays, FreeSays, LateSays
  <1>3. CASE file # NULL
    <2>1. phase' = "merge" /\ Calls(Main, [i \in DOMAIN file |-> Add(file[i])])
      BY <1>3 DEF LoadFile
    <2>2. CASE overrides = NULL
      BY <1>1, <2>1, <2>2, NothingToSay
    <2>3. CASE overrides # NULL
      <3>1. content[File] = <<>> /\ defaults = Defaults /\ content[Overrides] = <<>>
            /\ content[Defaults] = <<GivenInstance, GivenCluster>>
        BY <1>1, <2>3 DEF MainSays, EarlySays
      <3>2. file \in Files \ {NULL}
        BY <1>3 DEF Working, PhaseOK
      <3>3. Len(file) \in Nat /\ DOMAIN file = 1 .. Len(file)
        BY <3>2, FileFacts
      <3> DEFINE calls == [i \in DOMAIN file |-> Add(file[i])]
      <3>4. Len(calls) = Len(file) /\ \A i \in 1 .. Len(file) : calls[i] = Add(file[i])
        BY <3>3
      <3>5. todo'[Main] = calls
        <4>1. todo' = [todo EXCEPT ![Main] = calls]
          BY <2>1 DEF Calls
        <4> HIDE DEF calls
        <4> QED BY <4>1, ThreadsDistinct DEF Working, TodoOK
      <3> HIDE DEF calls
      <3>6. LinesLeft(file, 0, calls)
        <4>1. \A i \in 1 .. Len(file) : 0 + i = i
          OBVIOUS
        <4>2. Len(file) - 0 = Len(file)
          BY <3>3
        <4> QED BY <3>4, <4>1, <4>2 DEF LinesLeft
      <3>7. ReadSo(file, 0, calls, <<>>, parsed)
        BY <3>6, HoldsNothing DEF ReadSo
      <3>8. 0 \in 0 .. Len(file)
        BY <3>3
      <3>9. MergeSays'
        BY <1>1, <1>3, <3>1, <3>5, <3>7, <3>8 DEF MergeSays
      <3> QED BY <1>1, <2>1, <3>1, <3>9 DEF MainSays, EarlySays, FreeSays, LateSays, LatePhases
    <2> QED BY <2>2, <2>3
  <1> QED BY <1>2, <1>3

(* Main comes to the merge: the file has been read, and the overrides are  *)
(* empty.                                                                  *)
LEMMA MergeStarts ==
    ASSUME SettingsVisible, TypeOK, Working, MainSays, Merge, ~Crashed'
    PROVE  MainSays'
  <1>1. /\ phase = "merge" /\ todo[Main] = <<>>
        /\ UNCHANGED <<file, content, parsed, defaults, overrides, loaded>>
    BY DEF Merge, MainAt, results
  <1>2. /\ overrides # NULL /\ phase' = "free"
        /\ Calls(Main, Copy(File, content[Overrides])
                       \o [i \in DOMAIN content[Defaults] |-> DefaultCall(content[Defaults][i])])
    BY DEF Merge, Crashed
  <1>3. content[Defaults] = <<GivenInstance, GivenCluster>> /\ content[Overrides] = <<>> /\ MergeSays
    BY <1>1, <1>2 DEF MainSays, EarlySays
  <1>4. file \in Files \ {NULL} /\ file # NULL
    BY <1>3 DEF MergeSays, Working, PhaseOK
  <1>5. Holds(file, content[File], Len(file), {})
    <2>1. PICK n \in 0 .. Len(file) : ReadSo(file, n, <<>>, content[File], parsed)
      BY <1>1, <1>3 DEF MergeSays
    <2>2. Len(file) \in Nat /\ Len(<<>>) = 0
      BY <1>4, FileFacts
    <2>3. n = Len(file)
      BY <2>1, <2>2 DEF ReadSo, LinesLeft
    <2> QED BY <2>1, <2>3 DEF ReadSo
  <1>6. \A k : Get(content[File], k, NULL) = FileSays(file, k)
    <2>1. content[File] \in Seq(Entries)
      BY DictsDistinct DEF TypeOK
    <2> QED BY <1>4, <1>5, <2>1, HoldsGet
  <1>7. OthersSaid(file, content[File])
    BY <1>5, <1>6, HoldsMore DEF OthersSaid
  <1>8. todo'[Main] = <<AskInstance, AskCluster>>
    <2>1. Copy(File, <<>>) = <<>>
      BY DEF Copy
    <2> DEFINE given == <<GivenInstance, GivenCluster>>
    <2>2. [i \in DOMAIN given |-> DefaultCall(given[i])] = <<AskInstance, AskCluster>>
      <3>1. DOMAIN given = 1 .. 2 /\ given[1] = GivenInstance /\ given[2] = GivenCluster
        OBVIOUS
      <3> HIDE DEF given
      <3>2. [i \in 1 .. 2 |-> DefaultCall(given[i])] = <<DefaultCall(given[1]), DefaultCall(given[2])>>
        OBVIOUS
      <3> QED BY <3>1, <3>2 DEF AskInstance, AskCluster
    <2>3. <<>> \o <<AskInstance, AskCluster>> = <<AskInstance, AskCluster>>
      BY ShortLists
    <2>4. todo' = [todo EXCEPT ![Main] = <<AskInstance, AskCluster>>]
      BY <1>2, <1>3, <2>1, <2>2, <2>3 DEF Calls
    <2> QED BY <2>4, ThreadsDistinct DEF Working, TodoOK
  <1>9. Merging(file, <<AskInstance, AskCluster>>, FileSays(file, Instance), FileSays(file, Cluster))
    BY DEF Merging
  <1>10. FreeSays'
    BY <1>1, <1>4, <1>6, <1>7, <1>8, <1>9 DEF FreeSays
  <1> QED BY <1>2, <1>10 DEF MainSays, EarlySays, LateSays, LatePhases

(* Main has merged the defaults and deletes the other dictionaries.        *)
LEMMA FreeStarts ==
    ASSUME TypeOK, Working, MainSays, FreeDictionaries
    PROVE  MainSays'
  <1>1. /\ phase = "free" /\ todo[Main] = <<>> /\ phase' = "modules" /\ overrides' = NULL
        /\ UNCHANGED <<file, content, loaded>>
    BY DEF FreeDictionaries, MainAt, results
  <1> DEFINE i == Get(content[File], Instance, NULL)
             c == Get(content[File], Cluster, NULL)
  <1>2. OthersSaid(file, content[File]) /\ Merging(file, <<>>, i, c)
    BY <1>1 DEF MainSays, FreeSays
  <1>3. i = Says(file, Instance, Hostname) /\ c = Says(file, Cluster, Private)
    <2> HIDE DEF i, c
    <2> QED BY <1>2, ShortLists DEF Merging
  <1>4. AllSaid(file, content[File])
    BY <1>2, <1>3 DEF AllSaid
  <1> QED BY <1>1, <1>4 DEF MainSays, EarlySays, FreeSays, LateSays

(* Main comes to the modules, and to the sections and hosts after them.    *)
LEMMA LateStarts ==
    ASSUME TypeOK, Working, MainSays, LoadModules \/ NextSection \/ AddHost \/ HostFails
    PROVE  MainSays'
  <1>1. phase \in LatePhases /\ phase' \in LatePhases /\ file' = file
    BY DEF LoadModules, NextSection, AddHost, HostFails, MainAt, LatePhases
  <1>2. phase' \notin {"listen", "load", "merge", "free", "modules"}
    BY DEF LoadModules, NextSection, AddHost, HostFails
  <1>3. content'[File] = content[File]
    <2>1. content' = content \/ content' = [content EXCEPT ![Section] = <<>>]
      BY DEF LoadModules, NextSection, AddHost, HostFails
    <2>2. content \in [Dicts -> Seq(Entries)]
      BY DEF TypeOK
    <2> QED BY <2>1, <2>2, DictsDistinct
  <1>4. file # NULL => loaded' = Modules(content[File])
    <2>1. CASE LoadModules
      BY <2>1 DEF LoadModules
    <2>2. CASE NextSection \/ AddHost \/ HostFails
      <3>1. loaded' = loaded /\ phase # "modules"
        BY <2>2 DEF NextSection, AddHost, HostFails, MainAt, results
      <3> QED BY <1>1, <3>1 DEF MainSays, LateSays
    <2> QED BY <2>1, <2>2
  <1>5. LateSays'
    BY <1>1, <1>3, <1>4 DEF MainSays, LateSays
  <1> QED BY <1>2, <1>5 DEF MainSays, EarlySays, FreeSays

(* Threads that have met in strlwc have met for good, and a crash is the   *)
(* end.                                                                    *)
LEMMA StaysQuiet ==
    ASSUME [Next]_vars, ~raced', ~Crashed'
    PROVE  ~raced /\ ~Crashed
  <1>1. CASE UNCHANGED vars
    BY <1>1 DEF vars, lookups, Crashed
  <1>2. ASSUME NEW t \in Threads, ThreadStep(t)
        PROVE  ~raced /\ ~Crashed
    <2>1. ~CrashOnFreed(t)
      BY DEF CrashOnFreed, Crashed
    <2>2. \A d, k : Fold(t, d, k) => ~raced
      BY DEF Fold
    <2>3. Finish(t) => ~raced
      BY DEF Finish
    <2>4. ~raced
      BY <1>2, <2>1, <2>2, <2>3
         DEF ThreadStep, BeginCall, FinishAdd, FinishSet, FinishAsk, FinishInherit, FinishInfo, FinishListen,
             BeginLine, ShowConfigured, FindDefault, ShowDefault, AskConfig, EndLine, Return
    <2>5. (Idle(t) => ~Crashed) /\ (\A kind : InCall(t, kind) => ~Crashed)
      BY DEF Idle, InCall, Crashed
    <2>6. ~Crashed
      BY <1>2, <2>1, <2>5
         DEF ThreadStep, BeginCall, FinishAdd, FinishSet, FinishAsk, FinishInherit, FinishInfo, FinishListen,
             BeginLine, ShowConfigured, FindDefault, ShowDefault, AskConfig
    <2> QED BY <2>4, <2>6
  <1>3. CASE \/ StartSocketThread \/ LoadFile \/ Merge \/ FreeDictionaries \/ LoadModules
             \/ NextSection \/ AddHost \/ HostFails
    BY <1>3 DEF StartSocketThread, LoadFile, Merge, FreeDictionaries, LoadModules, NextSection, AddHost, HostFails,
                MainAt, lookups, Crashed
  <1> QED BY <1>1, <1>2, <1>3 DEF Next

(* Before anything has been set nothing is said.                           *)
LEMMA SaysInit == Init => SayInv
  <1> SUFFICES ASSUME Init PROVE SayInv
    OBVIOUS
  <1>1. KeyInv
    BY DEF Init, KeyInv
  <1>2. phase = "listen" /\ content = [d \in Dicts |-> <<>>]
    BY DEF Init
  <1>3. content[Defaults] = <<>> /\ content[Overrides] = <<>> /\ content[File] = <<>>
    BY <1>2, DictsDistinct
  <1>4. ASSUME overrides # NULL
        PROVE  defaults = Defaults /\ ListenSays
    <2>1. defaults = Defaults
      BY <1>4 DEF Init
    <2>2. todo[Main] = <<Set(defaults, Instance, Hostname), Set(defaults, Cluster, Private), Log>>
      BY ThreadsDistinct DEF Init
    <2> QED BY <1>3, <2>1, <2>2 DEF ListenSays
  <1>5. EarlySays
    BY <1>2, <1>3, <1>4 DEF EarlySays
  <1>6. FreeSays /\ LateSays
    BY <1>2 DEF FreeSays, LateSays, LatePhases
  <1> QED BY <1>1, <1>5, <1>6 DEF SayInv, MainSays

(* Every step of main or of a thread leaves SayInv true.                   *)
LEMMA SaysStep ==
    ASSUME SettingsVisible, IInv, IInv', SayInv, [Next]_vars
    PROVE  SayInv'
  <1> SUFFICES ASSUME ~raced', ~Crashed'
               PROVE  KeyInv' /\ MainSays'
    BY DEF SayInv
  <1>1. ~raced /\ ~Crashed
    BY StaysQuiet
  <1>2. TypeOK /\ TypeOK' /\ Working /\ KeyInv /\ MainSays
    BY <1>1 DEF IInv, SayInv
  <1>3. CASE UNCHANGED vars
    <2>1. UNCHANGED <<file, content, parsed, defaults, overrides, phase, todo, calling, writer, buffer, loaded>>
      BY <1>3 DEF vars, pointers, lookups, results
    <2>2. KeyInv'
      BY <1>2, <2>1 DEF KeyInv
    <2>3. MainSays'
      BY <1>2, <2>1, SaysKept
    <2> QED BY <2>2, <2>3
  <1>4. ASSUME NEW t \in Threads, ThreadStep(t)
        PROVE  KeyInv' /\ MainSays'
    <2>1. KeyInv'
      BY <1>2, <1>4, ThreadKeepsKey
    <2>2. CASE t # Main
      BY <1>2, <1>4, <2>1, <2>2, OthersSay
    <2>3. CASE t = Main
      <3>1. ~CrashOnFreed(Main)
        BY DEF CrashOnFreed, Crashed
      <3>2. CASE BeginCall(Main) \/ BeginLine(Main) \/ AskConfig(Main) \/ FindDefault(Main)
        BY <1>2, <2>1, <3>2, BeginSays
      <3>3. CASE ShowConfigured(Main) \/ ShowDefault(Main)
        BY <1>2, <2>1, <3>3, LineSays
      <3>4. CASE FinishInherit(Main) \/ FinishInfo(Main) \/ FinishListen(Main)
        BY <1>2, <2>1, <3>4, LaterSays
      <3>5. CASE FinishAsk(Main)
        BY <1>2, <2>1, <3>5, AskSays
      <3>6. CASE FinishSet(Main)
        BY <1>2, <2>1, <3>6, SetSays
      <3>7. CASE FinishAdd(Main)
        BY <1>2, <2>1, <3>7, AddSays
      <3> QED BY <1>4, <2>3, <3>1, <3>2, <3>3, <3>4, <3>5, <3>6, <3>7 DEF ThreadStep
    <2> QED BY <2>2, <2>3
  <1>5. CASE \/ StartSocketThread \/ LoadFile \/ Merge \/ FreeDictionaries \/ LoadModules
             \/ NextSection \/ AddHost \/ HostFails
    <2>1. KeyInv'
      BY <1>2, <1>5, MainKeepsKey
    <2>2. MainSays'
      BY <1>2, <1>5, StartSays, LoadSays, MergeStarts, FreeStarts, LateStarts
    <2> QED BY <2>1, <2>2
  <1> QED BY <1>3, <1>4, <1>5 DEF Next

(* What the configuration says while main builds it, in every state that   *)
(* can be reached (config.c, iniparser).                                   *)
THEOREM SaysInvariant == SettingsVisible => (Spec => []SayInv)
  <1> SUFFICES ASSUME SettingsVisible
               PROVE  Spec => []SayInv
    OBVIOUS
  <1>1. Init => SayInv
    BY SaysInit
  <1>2. IInv /\ IInv' /\ SayInv /\ [Next]_vars => SayInv'
    BY SaysStep
  <1> QED BY <1>1, <1>2, CallsInvariant, PTL DEF Spec

-----------------------------------------------------------------------------
(* What a key is to mean by its first setting is what the file says of it. *)
LEMMA GlobalIsSaid ==
    ASSUME file \in Files \ {NULL}, NEW k
    PROVE  /\ k = Instance => Global(k) = Says(file, Instance, Hostname)
           /\ k = Cluster => Global(k) = Says(file, Cluster, Private)
           /\ k \notin {Instance, Cluster} => Global(k) = FileSays(file, k)
  <1> DEFINE def == CASE k = Instance -> Hostname [] k = Cluster -> Private [] OTHER -> NULL
  <1>1. Global(k) = IF LinesOf(file, k) = {} THEN def ELSE file[Min(LinesOf(file, k))].val
    BY DEF Global, FirstSetting, Settings, LinesOf
  <1>2. LinesOf(file, k) # {} => file[Min(LinesOf(file, k))].val # NULL
    <2>1. LinesOf(file, k) \in SUBSET Nat
      BY FileFacts DEF LinesOf
    <2>2. LinesOf(file, k) # {} => Min(LinesOf(file, k)) \in LinesOf(file, k)
      BY <2>1, FirstPlace
    <2> QED BY <2>2 DEF LinesOf
  <1>3. /\ k = Instance => def = Hostname
        /\ k = Cluster => def = Private
        /\ k \notin {Instance, Cluster} => def = NULL
    BY OwnKeysFolded
  <1> HIDE DEF def
  <1> QED BY <1>1, <1>2, <1>3 DEF Says, FileSays

(* For every file in which no section has the name of a setting: until two *)
(* threads have met in strlwc, the configuration says of each key what the *)
(* file says first, or else the default (config.c, lines 73 to 92).        *)
THEOREM PrecedenceHolds == SettingsVisible => (Spec => []Precedence)
  <1> SUFFICES ASSUME SettingsVisible
               PROVE  Spec => []Precedence
    OBVIOUS
  <1>1. IInv /\ SayInv => Precedence
    <2> SUFFICES ASSUME IInv, SayInv, ~raced, Merged,
                        NEW k
                 PROVE  Get(content[File], k, NULL) = Global(k)
      BY DEF Precedence
    <2>1. ~Crashed /\ phase \in LatePhases /\ file # NULL
      BY DEF Merged, Crashed, LatePhases
    <2>2. file \in Files \ {NULL} /\ AllSaid(file, content[File])
      BY <2>1 DEF IInv, Working, PhaseOK, SayInv, MainSays, LateSays
    <2> QED BY <2>2, GlobalIsSaid DEF AllSaid, OthersSaid
  <1> QED BY <1>1, CallsInvariant, SaysInvariant, PTL

(* For every such file: every module that it names is loaded, in its order *)
(* (config.c, lines 217 to 235).                                           *)
THEOREM ModulesLoaded == SettingsVisible => (Spec => []EveryModule)
  <1> SUFFICES ASSUME SettingsVisible
               PROVE  Spec => []EveryModule
    OBVIOUS
  <1>1. IInv /\ SayInv => EveryModule
    <2> SUFFICES ASSUME IInv, SayInv, ~raced, Merged, phase # "modules"
                 PROVE  LET lines == Settings(LAMBDA line : FullKey(line) = Module)
                        IN  /\ Len(loaded) = Cardinality(lines)
                            /\ \A i \in lines : loaded[Cardinality({j \in lines : j <= i})] = file[i].val
      BY DEF EveryModule
    <2>1. ~Crashed /\ phase \in LatePhases /\ file # NULL
      BY DEF Merged, Crashed, LatePhases
    <2>2. /\ file \in Files \ {NULL} /\ AllSaid(file, content[File])
          /\ loaded = Modules(content[File]) /\ content[File] \in Seq(Entries)
      BY <2>1, DictsDistinct DEF IInv, TypeOK, Working, PhaseOK, SayInv, MainSays, LateSays
    <2>3. Holds(file, content[File], Len(file), {Instance, Cluster}) /\ Module \notin {Instance, Cluster}
      BY <2>2, OwnKeysFolded DEF AllSaid, OthersSaid
    <2> DEFINE L == LinesOf(file, Module)
    <2>4. Len(loaded) = Cardinality(L) /\ \A i \in L : loaded[Rank(L, i)] = file[i].val
      BY <2>2, <2>3, LinesLoaded
    <2>5. Settings(LAMBDA line : FullKey(line) = Module) = L
      BY DEF Settings, LinesOf
    <2>6. \A i \in L : Rank(L, i) = Cardinality({j \in L : j <= i})
      BY DEF Rank
    <2> HIDE DEF L
    <2> QED BY <2>4, <2>5, <2>6
  <1> QED BY <1>1, CallsInvariant, SaysInvariant, PTL

-----------------------------------------------------------------------------
(* The settings of hosts.  The name of a setting has one part: a second    *)
(* one, after a colon, may make it a setting of another section.           *)
SimpleNames == \A f \in Files \ {NULL} : \A i \in DOMAIN f : f[i].val # NULL => Len(f[i].name) = 1

(* Where the settings of sections stand: behind the one entry that is the  *)
(* header of their section.                                                *)
SectionsSo(entries) ==
    /\ \A p, q \in DOMAIN entries : entries[p].val = NULL /\ entries[q].key = entries[p].key => p = q
    /\ \A q \in DOMAIN entries : entries[q].val # NULL /\ entries[q].key \notin {Instance, Cluster} =>
        \E p \in DOMAIN entries :
            /\ p < q /\ (entries[p].val = NULL \/ entries[p].key \in {Instance, Cluster})
            /\ \E k : entries[q].key = entries[p].key \o <<k>>

(* The header of a section has been read.                                  *)
HasHeader(entries, s) == \E p \in DOMAIN entries : entries[p].key = s /\ entries[p].val = NULL

(* So they stand in the configuration, but while main has no defaults: a   *)
(* setting is read when the header of its section has been.                *)
FileShape ==
    /\ overrides # NULL /\ phase \in {"listen", "load", "merge"} => SectionsSo(content[File])
    /\ overrides # NULL /\ phase = "merge" /\ Len(todo[Main]) < Len(file) => HasHeader(content[File], parsed)
    /\ phase = "free" \/ (file # NULL /\ phase \in LatePhases) => SectionsSo(content[File])

(* A call that sets a key of a dictionary, and what that key will mean     *)
(* when all the calls have been made.                                      *)
Sets(c, d, k) == c.kind = "set" /\ c.dict = d /\ Folded(c.key) = k

FinalSays(calls, d, entries, k, v) ==
    \/ \E i \in DOMAIN calls :
        /\ Sets(calls[i], d, k) /\ calls[i].val = v
        /\ \A j \in DOMAIN calls : j > i => ~Sets(calls[j], d, k)
    \/ (\A i \in DOMAIN calls : ~Sets(calls[i], d, k)) /\ Get(entries, k, NULL) = v

(* What a host's section sets, its last line for a key counting.           *)
KeyNames == {Lower[n] : n \in Names}

OwnLines(f, s, k) == {i \in DOMAIN f : f[i].val # NULL /\ Folded(f[i].section) = s /\ Folded(f[i].name) = <<k>>}

OwnOf(f, s) == [k \in KeyNames |-> IF OwnLines(f, s, k) = {} THEN NULL ELSE f[Max(OwnLines(f, s, k))].val]

(* What init_host_ makes of it: the section's name, and instance and       *)
(* cluster where it does not say them.                                     *)
NamedAs(own, s) == [own EXCEPT !["name"] = Tail(s)]

GivenTo(own, s, i) == IF own["instance"] = NULL THEN [NamedAs(own, s) EXCEPT !["instance"] = i] ELSE NamedAs(own, s)

AllOf(own, s, i, c) == IF own["cluster"] = NULL THEN [GivenTo(own, s, i) EXCEPT !["cluster"] = c] ELSE GivenTo(own, s, i)

(* A dictionary says v of the names of settings.                           *)
Means(entries, v) == \A k \in KeyNames : Get(entries, <<k>>, NULL) = v[k]

(* The calls of init_host_.                                                *)
SetName(s) == Set(Section, <<"name">>, Tail(s))
InheritInstance == Inherit(Section, <<"instance">>, Instance)
InheritCluster == Inherit(Section, <<"cluster">>, Cluster)
AskOwnInstance == Ask(Section, <<"instance">>, <<>>, <<InheritInstance>>)
AskOwnCluster == Ask(Section, <<"cluster">>, <<>>, <<InheritCluster>>)

(* How far init_host_ has come with a section's dictionary.                *)
Prepared(calls, entries, own, s, i, c) ==
    \/ \E sets \in Seq(SetCalls({Section})) :
        /\ calls = sets \o <<Log, SetName(s), AskOwnInstance, AskOwnCluster>>
        /\ \A k \in KeyNames : FinalSays(sets, Section, entries, <<k>>, own[k])
    \/ calls = <<SetName(s), AskOwnInstance, AskOwnCluster>> /\ Means(entries, own)
    \/ calls = <<AskOwnInstance, AskOwnCluster>> /\ Means(entries, NamedAs(own, s))
    \/ /\ calls \in {<<InheritInstance, AskOwnCluster>>, <<Set(Section, <<"instance">>, i), AskOwnCluster>>}
       /\ own["instance"] = NULL /\ Means(entries, NamedAs(own, s))
    \/ calls = <<AskOwnCluster>> /\ Means(entries, GivenTo(own, s, i))
    \/ /\ calls \in {<<InheritCluster>>, <<Set(Section, <<"cluster">>, c)>>}
       /\ own["cluster"] = NULL /\ Means(entries, GivenTo(own, s, i))
    \/ calls = <<>> /\ Means(entries, AllOf(own, s, i, c))

(* Each key of a dictionary is there once, and folded.                     *)
Neat(entries) ==
    \A p \in DOMAIN entries :
        /\ Folded(entries[p].key) = entries[p].key
        /\ \A q \in DOMAIN entries : entries[q].key = entries[p].key => p = q

(* The section's dictionary while its host is prepared.                    *)
SectionSo ==
    phase = "host" =>
        LET s == content[File][section].key
        IN  /\ IsContainer(content[File][section])
            /\ Neat(content[Section])
            /\ Prepared(todo[Main], content[Section], OwnOf(file, s), s,
                        Says(file, Instance, Hostname), Says(file, Cluster, Private))

(* A host's dictionary will have the settings of its section; until there *)
(* is a host nothing is in it or comes to it.                              *)
HostMeans(f, s) == AllOf(OwnOf(f, s), s, Says(f, Instance, Hostname), Says(f, Cluster, Private))

HostSo(n) ==
    IF n > Len(hosts) THEN content[HostDict(n)] = <<>> /\ NoSet(todo[Main], HostDict(n))
    ELSE \A k \in KeyNames :
            FinalSays(todo[Main], HostDict(n), content[HostDict(n)], <<k>>, HostMeans(file, hosts[n])[k])

HostsSo == \A n \in 1 .. MaxHosts : HostSo(n)

(* Hosts come of a file.                                                   *)
FilePresent == phase \in {"merge", "free", "modules", "sections", "host"} \/ hosts # <<>> => file # NULL

ShapeInv == ~raced /\ ~Crashed => FileShape /\ FilePresent /\ SectionSo /\ HostsSo

(* What HostSettings says of the hosts whose dictionary has been copied.   *)
HostsSay ==
    ~raced => \A n \in DOMAIN hosts :
        /\ file \in Files \ {NULL}
        /\ NoSet(todo[Main], HostDict(n)) =>
            \A k \in KeyNames : Get(content[HostDict(n)], <<k>>, NULL) = HostMeans(file, hosts[n])[k]

HostInv == ShapeInv /\ HostsSay

(* What stands where in a file's dictionary, line by line.  A header that  *)
(* is there already stays as it is.                                        *)
LEMMA ShapeHeader ==
    ASSUME SettingsVisible, NEW f \in Files \ {NULL},
           NEW n \in 0 .. Len(f), n + 1 <= Len(f), f[n + 1].val = NULL,
           NEW entries \in Seq(Entries), Holds(f, entries, n, {}), SectionsSo(entries)
    PROVE  LET r == Replaced(entries, Folded(f[n + 1].section), NULL)
           IN  SectionsSo(r) /\ HasHeader(r, Folded(f[n + 1].section))
  <1> DEFINE s == Folded(f[n + 1].section)
             r == Replaced(entries, s, NULL)
  <1>1. /\ Len(f) \in Nat /\ DOMAIN f = 1 .. Len(f) /\ n + 1 \in DOMAIN f /\ n \in Nat /\ s \in Text
        /\ NULL \in Vals /\ Len(entries) \in Nat /\ DOMAIN entries = 1 .. Len(entries)
    BY FileFacts, FoldedTyped DEF Vals
  <1>2. \A k, v : Entry(k, v).key = k /\ Entry(k, v).val = v
    BY DEF Entry
  <1>3. CASE Places(entries, s) = {}
    <2>1. /\ r \in Seq(Entries) /\ Len(r) = Len(entries) + 1
          /\ \A i \in 1 .. Len(entries) : r[i] = entries[i]
          /\ r[Len(entries) + 1] = Entry(s, NULL)
      BY <1>1, <1>3, ReplacedFacts
    <2>2. /\ r[Len(entries) + 1].key = s /\ r[Len(entries) + 1].val = NULL
      BY <1>2, <2>1
    <2>3. \A i \in 1 .. Len(entries) : entries[i].key # s
      BY <1>1, <1>3 DEF Places
    <2> HIDE DEF r, s
    <2>4. DOMAIN r = 1 .. Len(entries) + 1
      BY <2>1
    <2>5. \A i \in DOMAIN r : i \in 1 .. Len(entries) \/ i = Len(entries) + 1
      BY <1>1, <2>4
    <2>6. \A p, q \in DOMAIN r : r[p].val = NULL /\ r[q].key = r[p].key => p = q
      BY <1>1, <2>1, <2>2, <2>3, <2>5 DEF SectionsSo
    <2>7. ASSUME NEW q \in DOMAIN r, r[q].val # NULL, r[q].key \notin {Instance, Cluster}
          PROVE  \E p \in DOMAIN r : /\ p < q /\ (r[p].val = NULL \/ r[p].key \in {Instance, Cluster})
                                     /\ \E k : r[q].key = r[p].key \o <<k>>
      <3>1. q \in DOMAIN entries /\ r[q] = entries[q]
        BY <1>1, <2>1, <2>2, <2>5, <2>7
      <3>2. PICK p \in DOMAIN entries :
                /\ p < q /\ (entries[p].val = NULL \/ entries[p].key \in {Instance, Cluster})
                /\ \E k : entries[q].key = entries[p].key \o <<k>>
        BY <2>7, <3>1 DEF SectionsSo
      <3>3. p \in DOMAIN r /\ r[p] = entries[p]
        BY <1>1, <2>1, <2>4
      <3> QED BY <3>1, <3>2, <3>3
    <2>8. SectionsSo(r)
      BY <2>6, <2>7 DEF SectionsSo
    <2>9. HasHeader(r, s)
      BY <1>1, <2>2, <2>4 DEF HasHeader
    <2> QED BY <2>8, <2>9 DEF r, s
  <1>4. CASE Places(entries, s) # {}
    <2>1. PICK p \in DOMAIN entries :
            /\ entries[p].key = s /\ DOMAIN r = DOMAIN entries /\ r[p] = Entry(s, NULL)
            /\ \A i \in DOMAIN entries : i # p => r[i] = entries[i]
      <3> HIDE DEF s
      <3>1. \E p \in DOMAIN entries :
              /\ p = Min(Places(entries, s)) /\ entries[p].key = s
              /\ \A q \in Places(entries, s) : p <= q
              /\ DOMAIN r = DOMAIN entries /\ Len(r) = Len(entries)
              /\ r[p] = Entry(s, NULL)
              /\ \A i \in DOMAIN entries : i # p => r[i] = entries[i]
        BY <1>1, <1>4, ReplacedFacts
      <3> HIDE DEF r
      <3> QED BY <3>1
    <2>2. entries[p].val = NULL
      <3> SUFFICES ASSUME entries[p].val # NULL PROVE FALSE
        OBVIOUS
      <3>1. PICK m : StandsAt(f, entries, n, m) /\ OthersUnset(f, entries, n, m, {})
        BY DEF Holds
      <3>2. PICK i \in ReadLines(f, n) : m[i] = p
        BY <2>1, <3>1 DEF OthersUnset
      <3>3. i \in DOMAIN f /\ f[i].val # NULL /\ entries[p] = Entry(FullKey(f[i]), f[i].val)
        BY <1>1, <3>1, <3>2 DEF StandsAt, ReadLines
      <3>4. FullKey(f[i]) = s
        BY <1>2, <2>1, <3>3
      <3> QED BY <1>1, <3>3, <3>4 DEF SettingsVisible
    <2>3. \A i \in DOMAIN entries : r[i].key = entries[i].key /\ r[i].val = entries[i].val
      BY <1>2, <2>1, <2>2
    <2> HIDE DEF r, s
    <2>4. SectionsSo(r)
      <3>1. \A i, q \in DOMAIN r : r[i].val = NULL /\ r[q].key = r[i].key => i = q
        BY <2>1, <2>3 DEF SectionsSo
      <3>2. ASSUME NEW q \in DOMAIN r, r[q].val # NULL, r[q].key \notin {Instance, Cluster}
            PROVE  \E i \in DOMAIN r : /\ i < q /\ (r[i].val = NULL \/ r[i].key \in {Instance, Cluster})
                                       /\ \E k : r[q].key = r[i].key \o <<k>>
        <4>1. PICK i \in DOMAIN entries :
                /\ i < q /\ (entries[i].val = NULL \/ entries[i].key \in {Instance, Cluster})
                /\ \E k : entries[q].key = entries[i].key \o <<k>>
          BY <2>1, <2>3, <3>2 DEF SectionsSo
        <4> QED BY <2>1, <2>3, <4>1
      <3> QED BY <3>1, <3>2 DEF SectionsSo
    <2>5. HasHeader(r, s)
      BY <2>1, <2>2, <2>3 DEF HasHeader
    <2> QED BY <2>4, <2>5 DEF r, s
  <1> QED BY <1>3, <1>4

(* A setting comes behind its section's header.                            *)
LEMMA ShapeAdd ==
    ASSUME SettingsVisible, SimpleNames, NEW f \in Files \ {NULL},
           NEW n \in 0 .. Len(f), n + 1 <= Len(f), f[n + 1].val # NULL,
           NEW entries \in Seq(Entries), Holds(f, entries, n, {}), SectionsSo(entries),
           HasHeader(entries, Folded(f[n + 1].section))
    PROVE  LET r == Added(entries, FullKey(f[n + 1]), f[n + 1].val)
           IN  SectionsSo(r) /\ HasHeader(r, Folded(f[n + 1].section))
  <1> DEFINE s == Folded(f[n + 1].section)
             v == f[n + 1].val
             e == Entry(FullKey(f[n + 1]), v)
             r == Append(entries, e)
  <1>1. /\ Len(f) \in Nat /\ DOMAIN f = 1 .. Len(f) /\ n + 1 \in DOMAIN f /\ n \in Nat
        /\ Len(entries) \in Nat /\ DOMAIN entries = 1 .. Len(entries)
    BY FileFacts
  <1>2. e \in Entries /\ e.key = FullKey(f[n + 1]) /\ e.val = v /\ v # NULL
    BY <1>1, FileFacts DEF Entry, Entries, Vals
  <1>3. \E k : FullKey(f[n + 1]) = s \o <<k>>
    <2>1. f[n + 1].name \in Text /\ Len(f[n + 1].name) = 1
      BY <1>1, FileFacts DEF SimpleNames
    <2>2. Folded(f[n + 1].name) = <<Lower[f[n + 1].name[1]]>>
      BY <2>1 DEF Folded, Text
    <2> QED BY <2>2 DEF FullKey
  <1>4. \A p \in DOMAIN entries : entries[p].val = NULL => entries[p].key # FullKey(f[n + 1])
    <2> SUFFICES ASSUME NEW p \in DOMAIN entries, entries[p].val = NULL, entries[p].key = FullKey(f[n + 1])
                 PROVE  FALSE
      OBVIOUS
    <2>1. PICK m : StandsAt(f, entries, n, m) /\ OthersUnset(f, entries, n, m, {})
      BY DEF Holds
    <2>2. \A k, w : Entry(k, w).key = k /\ Entry(k, w).val = w
      BY DEF Entry
    <2>3. \A i \in ReadLines(f, n) : m[i] # p
      BY <2>1, <2>2 DEF StandsAt, ReadLines
    <2>4. IsHeader(f, entries[p].key)
      BY <2>1, <2>3 DEF OthersUnset
    <2> QED BY <1>1, <2>4 DEF IsHeader, SettingsVisible
  <1> HIDE DEF e, s, v
  <1>5. /\ r \in Seq(Entries) /\ DOMAIN r = 1 .. Len(entries) + 1 /\ r[Len(entries) + 1] = e
        /\ \A i \in 1 .. Len(entries) : r[i] = entries[i]
    BY <1>2
  <1> HIDE DEF r
  <1>6. \A i \in DOMAIN r : i \in 1 .. Len(entries) \/ i = Len(entries) + 1
    BY <1>1, <1>5
  <1>7. \A p, q \in DOMAIN r : r[p].val = NULL /\ r[q].key = r[p].key => p = q
    BY <1>1, <1>2, <1>4, <1>5, <1>6 DEF SectionsSo
  <1>8. ASSUME NEW q \in DOMAIN r, r[q].val # NULL, r[q].key \notin {Instance, Cluster}
        PROVE  \E p \in DOMAIN r : /\ p < q /\ (r[p].val = NULL \/ r[p].key \in {Instance, Cluster})
                                   /\ \E k : r[q].key = r[p].key \o <<k>>
    <2>1. CASE q \in 1 .. Len(entries)
      <3>2. PICK p \in DOMAIN entries :
                /\ p < q /\ (entries[p].val = NULL \/ entries[p].key \in {Instance, Cluster})
                /\ \E k : entries[q].key = entries[p].key \o <<k>>
        BY <1>1, <1>5, <1>8, <2>1 DEF SectionsSo
      <3>3. p \in DOMAIN r /\ r[p] = entries[p] /\ r[q] = entries[q]
        BY <1>1, <1>5, <2>1
      <3> QED BY <3>2, <3>3
    <2>2. CASE q = Len(entries) + 1
      <3>1. PICK p \in DOMAIN entries : entries[p].key = s /\ entries[p].val = NULL
        BY DEF HasHeader, s
      <3>2. p \in DOMAIN r /\ r[p] = entries[p] /\ p < q
        BY <1>1, <1>5, <2>2, <3>1
      <3> QED BY <1>2, <1>3, <1>5, <2>2, <3>1, <3>2
    <2> QED BY <1>6, <2>1, <2>2
  <1>9. SectionsSo(r)
    BY <1>7, <1>8 DEF SectionsSo
  <1>10. HasHeader(r, s)
    <2>1. PICK p \in DOMAIN entries : entries[p].key = s /\ entries[p].val = NULL
      BY DEF HasHeader, s
    <2>2. p \in DOMAIN r /\ r[p] = entries[p]
      BY <1>1, <1>5, <2>1
    <2> QED BY <2>1, <2>2 DEF HasHeader
  <1> QED BY <1>9, <1>10 DEF r, s, e, v, Added

(* A default takes the place of a header of its name, or comes last.       *)
LEMMA ShapeSet ==
    ASSUME NEW entries \in Seq(Entries), SectionsSo(entries), NEW k \in Text, NEW v \in Vals, k \in {Instance, Cluster}, v # NULL,
           Get(entries, k, NULL) = NULL
    PROVE  SectionsSo(Replaced(entries, k, v))
  <1> DEFINE r == Replaced(entries, k, v)
  <1>1. /\ k \in Text /\ v \in Vals /\ v # NULL
        /\ Len(entries) \in Nat /\ DOMAIN entries = 1 .. Len(entries)
    BY KnownText DEF Vals
  <1>2. Entry(k, v).key = k /\ Entry(k, v).val = v
    BY DEF Entry
  <1>3. CASE Places(entries, k) = {}
    <2>1. /\ r \in Seq(Entries) /\ Len(r) = Len(entries) + 1
          /\ \A i \in 1 .. Len(entries) : r[i] = entries[i]
          /\ r[Len(entries) + 1] = Entry(k, v)
      BY <1>1, <1>3, ReplacedFacts
    <2>2. \A i \in 1 .. Len(entries) : entries[i].key # k
      BY <1>1, <1>3 DEF Places
    <2> HIDE DEF r
    <2>3. DOMAIN r = 1 .. Len(entries) + 1
      BY <2>1
    <2>4. \A i \in DOMAIN r : i \in 1 .. Len(entries) \/ i = Len(entries) + 1
      BY <1>1, <2>3
    <2>5. \A p, q \in DOMAIN r : r[p].val = NULL /\ r[q].key = r[p].key => p = q
      BY <1>1, <1>2, <2>1, <2>2, <2>4 DEF SectionsSo
    <2>6. ASSUME NEW q \in DOMAIN r, r[q].val # NULL, r[q].key \notin {Instance, Cluster}
          PROVE  \E p \in DOMAIN r : /\ p < q /\ (r[p].val = NULL \/ r[p].key \in {Instance, Cluster})
                                     /\ \E x : r[q].key = r[p].key \o <<x>>
      <3>1. q \in DOMAIN entries /\ r[q] = entries[q]
        BY <1>1, <1>2, <2>1, <2>4, <2>6
      <3>2. PICK p \in DOMAIN entries :
                /\ p < q /\ (entries[p].val = NULL \/ entries[p].key \in {Instance, Cluster})
                /\ \E x : entries[q].key = entries[p].key \o <<x>>
        BY <2>6, <3>1 DEF SectionsSo
      <3>3. p \in DOMAIN r /\ r[p] = entries[p]
        BY <1>1, <2>1, <2>3
      <3> QED BY <3>1, <3>2, <3>3
    <2> QED BY <2>5, <2>6 DEF SectionsSo, r
  <1>4. CASE Places(entries, k) # {}
    <2>1. PICK p \in DOMAIN entries :
            /\ p = Min(Places(entries, k)) /\ entries[p].key = k /\ DOMAIN r = DOMAIN entries /\ r[p] = Entry(k, v)
            /\ \A i \in DOMAIN entries : i # p => r[i] = entries[i]
      BY <1>1, <1>4, ReplacedFacts
    <2>2. \A i \in DOMAIN entries : r[i].key = entries[i].key /\ (i # p => r[i] = entries[i])
      BY <1>2, <2>1
    <2>3. r[p].val # NULL
      BY <1>1, <1>2, <2>1
    <2> HIDE DEF r
    <2>5. \A i, q \in DOMAIN r : r[i].val = NULL /\ r[q].key = r[i].key => i = q
      BY <2>1, <2>2, <2>3 DEF SectionsSo
    <2>6. ASSUME NEW q \in DOMAIN r, r[q].val # NULL, r[q].key \notin {Instance, Cluster}
          PROVE  \E i \in DOMAIN r : /\ i < q /\ (r[i].val = NULL \/ r[i].key \in {Instance, Cluster})
                                     /\ \E x : r[q].key = r[i].key \o <<x>>
      <3>1. q # p /\ r[q] = entries[q]
        BY <2>1, <2>2, <2>6
      <3>2. PICK i \in DOMAIN entries :
                /\ i < q /\ (entries[i].val = NULL \/ entries[i].key \in {Instance, Cluster})
                /\ \E x : entries[q].key = entries[i].key \o <<x>>
        BY <2>1, <2>6, <3>1 DEF SectionsSo
      <3>3. r[i].val = NULL \/ r[i].key \in {Instance, Cluster}
        BY <2>1, <2>2, <3>2
      <3> QED BY <2>1, <2>2, <3>1, <3>2, <3>3
    <2> QED BY <2>5, <2>6 DEF SectionsSo, r
  <1> QED BY <1>3, <1>4

(* What a key will mean, call by call.  No call sets it: it means what it  *)
(* means.                                                                  *)
LEMMA FinalQuiet ==
    ASSUME NEW calls, NEW d, NEW entries, NEW k, NEW v, NoSet(calls, d)
    PROVE  FinalSays(calls, d, entries, k, v) <=> Get(entries, k, NULL) = v
  BY DEF FinalSays, NoSet, Sets

(* A set call is made.                                                     *)
LEMMA FinalPop ==
    ASSUME NEW S, NEW calls \in Seq(S), calls # <<>>, NEW d, NEW entries \in Seq(Entries), NEW k, NEW v,
           Head(calls).kind = "set", Head(calls).dict = d, Head(calls).key \in Text, Head(calls).val \in Vals,
           FinalSays(calls, d, entries, k, v)
    PROVE  FinalSays(Tail(calls), d, Replaced(entries, Folded(Head(calls).key), Head(calls).val), k, v)
  <1> DEFINE rest == Tail(calls)
             key == Folded(Head(calls).key)
             val == Head(calls).val
  <1>1. /\ Len(calls) \in Nat /\ Len(calls) > 0 /\ DOMAIN calls = 1 .. Len(calls) /\ Head(calls) = calls[1]
        /\ rest \in Seq(S) /\ Len(rest) = Len(calls) - 1 /\ DOMAIN rest = 1 .. Len(rest)
        /\ \A i \in 1 .. Len(rest) : rest[i] = calls[i + 1]
    OBVIOUS
  <1> HIDE DEF rest
  <1>r. \A j \in DOMAIN rest : j \in Nat /\ j + 1 \in DOMAIN calls /\ j + 1 > 1 /\ rest[j] = calls[j + 1]
    BY <1>1
  <1>2. key \in Text /\ val \in Vals
    BY FoldedTyped
  <1>3. /\ Get(Replaced(entries, key, val), key, NULL) = val
        /\ \A j : j # key => Get(Replaced(entries, key, val), j, NULL) = Get(entries, j, NULL)
    BY <1>2, GetReplaced
  <1>4. Sets(calls[1], d, k) <=> k = key
    BY <1>1 DEF Sets
  <1>5. calls[1].val = val
    BY <1>1
  <1> HIDE DEF key, val
  <1>6. \A j \in 2 .. Len(calls) : j - 1 \in DOMAIN rest /\ rest[j - 1] = calls[j]
    BY <1>1
  <1>7. ASSUME NEW i \in DOMAIN calls, Sets(calls[i], d, k), calls[i].val = v,
               \A j \in DOMAIN calls : j > i => ~Sets(calls[j], d, k)
        PROVE  FinalSays(rest, d, Replaced(entries, key, val), k, v)
    <2>1. CASE i = 1
      <3>1. k = key /\ v = val
        BY <1>4, <1>5, <1>7, <2>1
      <3>2. \A j \in DOMAIN rest : ~Sets(rest[j], d, k)
        BY <1>r, <1>7, <2>1
      <3> QED BY <1>3, <3>1, <3>2 DEF FinalSays
    <2>2. CASE i # 1
      <3>1. i \in 2 .. Len(calls)
        BY <1>1, <2>2
      <3>2. i - 1 \in DOMAIN rest /\ Sets(rest[i - 1], d, k) /\ rest[i - 1].val = v
        BY <1>6, <1>7, <3>1
      <3>3. \A j \in DOMAIN rest : j > i - 1 => ~Sets(rest[j], d, k)
        BY <1>1, <1>7, <3>1
      <3> QED BY <3>2, <3>3 DEF FinalSays
    <2> QED BY <2>1, <2>2
  <1>8. ASSUME \A i \in DOMAIN calls : ~Sets(calls[i], d, k), Get(entries, k, NULL) = v
        PROVE  FinalSays(rest, d, Replaced(entries, key, val), k, v)
    <2>1. k # key
      BY <1>1, <1>4, <1>8
    <2>2. \A j \in DOMAIN rest : ~Sets(rest[j], d, k)
      BY <1>r, <1>8
    <2> QED BY <1>3, <1>8, <2>1, <2>2 DEF FinalSays
  <1> QED BY <1>7, <1>8 DEF FinalSays, rest, key, val

(* Calls that set nothing of d come before others.                         *)
LEMMA FinalBefore ==
    ASSUME NEW S, NEW more \in Seq(S), NEW calls \in Seq(S), NEW d, NoSet(more, d), NEW entries, NEW k, NEW v,
           FinalSays(calls, d, entries, k, v)
    PROVE  FinalSays(more \o calls, d, entries, k, v)
  <1> DEFINE all == more \o calls
             m == Len(more)
  <1>1. /\ m \in Nat /\ Len(calls) \in Nat /\ DOMAIN calls = 1 .. Len(calls) /\ DOMAIN more = 1 .. m
        /\ all \in Seq(S) /\ Len(all) = m + Len(calls) /\ DOMAIN all = 1 .. m + Len(calls)
        /\ \A i \in 1 .. m : all[i] = more[i]
        /\ \A i \in 1 .. Len(calls) : all[m + i] = calls[i]
    OBVIOUS
  <1> HIDE DEF all, m
  <1>2. \A i \in 1 .. m : ~Sets(all[i], d, k)
    BY <1>1 DEF NoSet, Sets
  <1>3. \A i \in DOMAIN all : i \in 1 .. m \/ (i - m \in DOMAIN calls /\ all[i] = calls[i - m])
    <2> SUFFICES ASSUME NEW i \in DOMAIN all, i \notin 1 .. m
                 PROVE  i - m \in DOMAIN calls /\ all[i] = calls[i - m]
      OBVIOUS
    <2>1. i \in Nat /\ i > m /\ i - m \in 1 .. Len(calls) /\ m + (i - m) = i
      BY <1>1
    <2>2. all[m + (i - m)] = calls[i - m]
      BY <1>1, <2>1
    <2> QED BY <1>1, <2>1, <2>2
  <1>4. ASSUME NEW i \in DOMAIN calls, Sets(calls[i], d, k), calls[i].val = v,
               \A j \in DOMAIN calls : j > i => ~Sets(calls[j], d, k)
        PROVE  FinalSays(all, d, entries, k, v)
    <2>1. m + i \in DOMAIN all /\ all[m + i] = calls[i]
      BY <1>1
    <2>2. \A j \in DOMAIN all : j > m + i => ~Sets(all[j], d, k)
      BY <1>1, <1>3, <1>4
    <2> QED BY <1>4, <2>1, <2>2 DEF FinalSays
  <1>5. ASSUME \A i \in DOMAIN calls : ~Sets(calls[i], d, k), Get(entries, k, NULL) = v
        PROVE  FinalSays(all, d, entries, k, v)
    BY <1>2, <1>3, <1>5 DEF FinalSays
  <1> QED BY <1>4, <1>5 DEF FinalSays, all

(* And behind them.                                                        *)
LEMMA FinalBehind ==
    ASSUME NEW S, NEW more \in Seq(S), NEW calls \in Seq(S), NEW d, NoSet(more, d), NEW entries, NEW k, NEW v,
           FinalSays(calls, d, entries, k, v)
    PROVE  FinalSays(calls \o more, d, entries, k, v)
  <1> DEFINE all == calls \o more
             m == Len(calls)
  <1>1. /\ m \in Nat /\ Len(more) \in Nat /\ DOMAIN calls = 1 .. m /\ DOMAIN more = 1 .. Len(more)
        /\ all \in Seq(S) /\ DOMAIN all = 1 .. m + Len(more)
        /\ \A i \in 1 .. m : all[i] = calls[i]
        /\ \A i \in 1 .. Len(more) : all[m + i] = more[i]
    OBVIOUS
  <1> HIDE DEF all, m
  <1>2. \A i \in DOMAIN all : i \in 1 .. m \/ ~Sets(all[i], d, k)
    <2> SUFFICES ASSUME NEW i \in DOMAIN all, i \notin 1 .. m
                 PROVE  ~Sets(all[i], d, k)
      OBVIOUS
    <2>1. i \in Nat /\ i > m /\ i - m \in 1 .. Len(more) /\ m + (i - m) = i
      BY <1>1
    <2>2. all[m + (i - m)] = more[i - m]
      BY <1>1, <2>1
    <2> QED BY <1>1, <2>1, <2>2 DEF NoSet, Sets
  <1>3. ASSUME NEW i \in DOMAIN calls, Sets(calls[i], d, k), calls[i].val = v,
               \A j \in DOMAIN calls : j > i => ~Sets(calls[j], d, k)
        PROVE  FinalSays(all, d, entries, k, v)
    <2>1. i \in DOMAIN all /\ all[i] = calls[i]
      BY <1>1
    <2>2. \A j \in DOMAIN all : j > i => ~Sets(all[j], d, k)
      BY <1>1, <1>2, <1>3
    <2> QED BY <1>3, <2>1, <2>2 DEF FinalSays
  <1>4. ASSUME \A i \in DOMAIN calls : ~Sets(calls[i], d, k), Get(entries, k, NULL) = v
        PROVE  FinalSays(all, d, entries, k, v)
    BY <1>1, <1>2, <1>4 DEF FinalSays
  <1> QED BY <1>3, <1>4 DEF FinalSays, all

(* Another call is made first.                                             *)
LEMMA FinalSkip ==
    ASSUME NEW S, NEW calls \in Seq(S), calls # <<>>, NEW more \in Seq(S), NEW d, NoSet(more, d),
           Head(calls).kind = "set" => Head(calls).dict # d, NEW entries, NEW k, NEW v,
           FinalSays(calls, d, entries, k, v)
    PROVE  FinalSays(more \o Tail(calls), d, entries, k, v)
  <1> DEFINE rest == Tail(calls)
  <1>1. /\ Len(calls) \in Nat /\ Len(calls) > 0 /\ DOMAIN calls = 1 .. Len(calls) /\ Head(calls) = calls[1]
        /\ rest \in Seq(S) /\ Len(rest) = Len(calls) - 1 /\ DOMAIN rest = 1 .. Len(rest)
        /\ \A i \in 1 .. Len(rest) : rest[i] = calls[i + 1]
    OBVIOUS
  <1> HIDE DEF rest
  <1>2. ~Sets(calls[1], d, k)
    BY <1>1 DEF Sets
  <1>r. \A j \in DOMAIN rest : j \in Nat /\ j + 1 \in DOMAIN calls /\ rest[j] = calls[j + 1]
    BY <1>1
  <1>3. FinalSays(rest, d, entries, k, v)
    <2>1. ASSUME NEW i \in DOMAIN calls, Sets(calls[i], d, k), calls[i].val = v,
                 \A j \in DOMAIN calls : j > i => ~Sets(calls[j], d, k)
          PROVE  FinalSays(rest, d, entries, k, v)
      <3>1. i - 1 \in DOMAIN rest /\ rest[i - 1] = calls[i]
        <4>1. i # 1
          BY <1>2, <2>1
        <4>2. i - 1 \in 1 .. Len(rest) /\ (i - 1) + 1 = i
          BY <1>1, <4>1
        <4> QED BY <1>1, <4>2
      <3>2. \A j \in DOMAIN rest : j > i - 1 => ~Sets(rest[j], d, k)
        <4>1. i \in Nat
          BY <1>1
        <4>2. \A j \in DOMAIN rest : j > i - 1 => j + 1 > i
          BY <1>r, <4>1
        <4> QED BY <1>r, <2>1, <4>2
      <3> QED BY <2>1, <3>1, <3>2 DEF FinalSays
    <2>2. ASSUME \A i \in DOMAIN calls : ~Sets(calls[i], d, k), Get(entries, k, NULL) = v
          PROVE  FinalSays(rest, d, entries, k, v)
      BY <1>r, <2>2 DEF FinalSays
    <2> QED BY <2>1, <2>2 DEF FinalSays
  <1> QED BY <1>1, <1>3, FinalBefore DEF rest

(* A copy will mean what the original means.                               *)
LEMMA FinalCopy ==
    ASSUME NEW src \in Seq(Entries), Neat(src), NEW d, NEW k
    PROVE  FinalSays(Copy(d, src), d, <<>>, k, Get(src, k, NULL))
  <1> DEFINE copy == Copy(d, src)
  <1>1. DOMAIN copy = DOMAIN src /\ \A i \in DOMAIN src : copy[i] = Set(d, src[i].key, src[i].val)
    BY DEF Copy
  <1>2. \A i \in DOMAIN src : Sets(copy[i], d, k) <=> src[i].key = k
    BY <1>1 DEF Set, Sets, Neat
  <1>3. \A i \in DOMAIN src : copy[i].val = src[i].val
    BY <1>1 DEF Set
  <1>4. CASE Places(src, k) = {}
    <2>1. Get(src, k, NULL) = NULL /\ Get(<<>>, k, NULL) = NULL
      BY <1>4 DEF Get, Places
    <2>2. \A i \in DOMAIN copy : ~Sets(copy[i], d, k)
      BY <1>1, <1>2, <1>4 DEF Places
    <2> HIDE DEF copy
    <2> QED BY <2>1, <2>2 DEF FinalSays, copy
  <1>5. CASE Places(src, k) # {}
    <2> DEFINE p == Min(Places(src, k))
    <2>1. Places(src, k) \in SUBSET Nat
      BY DEF Places
    <2>2. p \in Places(src, k)
      BY <1>5, <2>1, FirstPlace
    <2>3. p \in DOMAIN src /\ src[p].key = k /\ Get(src, k, NULL) = src[p].val
      BY <1>5, <2>2 DEF Places, Get
    <2> HIDE DEF p, copy
    <2>4. \A j \in DOMAIN copy : j > p => ~Sets(copy[j], d, k)
      BY <1>1, <1>2, <2>3 DEF Neat
    <2>5. p \in DOMAIN copy /\ Sets(copy[p], d, k) /\ copy[p].val = Get(src, k, NULL)
      BY <1>1, <1>2, <1>3, <2>3
    <2> QED BY <2>4, <2>5 DEF FinalSays, copy
  <1> QED BY <1>4, <1>5

(* Setting a folded key leaves a dictionary neat.                          *)
LEMMA NeatSet ==
    ASSUME NEW entries \in Seq(Entries), Neat(entries), NEW k \in Text, NEW v \in Vals, Folded(k) = k
    PROVE  Neat(Replaced(entries, k, v))
  <1> DEFINE r == Replaced(entries, k, v)
  <1>1. Len(entries) \in Nat /\ DOMAIN entries = 1 .. Len(entries)
    OBVIOUS
  <1>2. Entry(k, v).key = k
    BY DEF Entry
  <1>3. CASE Places(entries, k) = {}
    <2>1. /\ r \in Seq(Entries) /\ Len(r) = Len(entries) + 1
          /\ \A i \in 1 .. Len(entries) : r[i] = entries[i]
          /\ r[Len(entries) + 1] = Entry(k, v)
      BY <1>3, ReplacedFacts
    <2>2. \A i \in 1 .. Len(entries) : entries[i].key # k
      BY <1>1, <1>3 DEF Places
    <2> HIDE DEF r
    <2>3. \A i \in DOMAIN r : i \in 1 .. Len(entries) \/ i = Len(entries) + 1
      BY <1>1, <2>1
    <2>4. \A p, q \in DOMAIN r : r[q].key = r[p].key => p = q
      BY <1>1, <1>2, <2>1, <2>2, <2>3 DEF Neat
    <2>5. \A p \in DOMAIN r : Folded(r[p].key) = r[p].key
      BY <1>1, <1>2, <2>1, <2>3 DEF Neat
    <2> QED BY <2>4, <2>5 DEF Neat, r
  <1>4. CASE Places(entries, k) # {}
    <2>1. PICK p \in DOMAIN entries :
            /\ entries[p].key = k /\ DOMAIN r = DOMAIN entries /\ r[p] = Entry(k, v)
            /\ \A i \in DOMAIN entries : i # p => r[i] = entries[i]
      BY <1>4, ReplacedFacts
    <2>2. \A i \in DOMAIN entries : r[i].key = entries[i].key
      BY <1>2, <2>1
    <2> HIDE DEF r
    <2> QED BY <2>1, <2>2 DEF Neat, r
  <1> QED BY <1>3, <1>4

(* Folding a folded key changes nothing.                                   *)
LEMMA FoldedTwice ==
    ASSUME NEW k \in Text
    PROVE  Folded(Folded(k)) = Folded(k)
  <1>1. \A i \in DOMAIN k : k[i] \in Names
    BY DEF Text
  <1>2. \A i \in DOMAIN k : Lower[Lower[k[i]]] = Lower[k[i]]
    BY <1>1, NamesAssumption
  <1> QED BY <1>2 DEF Folded

(* A set of places within bounds has a last one.                           *)
LEMMA LastPlace ==
    ASSUME NEW n \in Nat, NEW P \in SUBSET (0 .. n), P # {}
    PROVE  Max(P) \in P /\ \A j \in P : j <= Max(P)
  <1> DEFINE Q == {j \in 0 .. n : n - j \in P}
  <1>1. Q \in SUBSET Nat /\ Q # {}
    <2>1. PICK j \in P : TRUE
      OBVIOUS
    <2>2. n - j \in 0 .. n /\ n - (n - j) = j
      OBVIOUS
    <2>3. n - j \in Q
      BY <2>1, <2>2
    <2>4. Q \in SUBSET Nat
      OBVIOUS
    <2>5. Q # {}
      <3> HIDE DEF Q
      <3> QED BY <2>3
    <2> QED BY <2>4, <2>5
  <1>2. Min(Q) \in Q /\ \A j \in Q : Min(Q) <= j
    BY <1>1, FirstPlace
  <1>3. PICK x \in Q : \A j \in Q : x <= j
    BY <1>2
  <1>4. n - x \in P /\ x \in 0 .. n
    BY <1>3
  <1>5. ASSUME NEW j \in P
        PROVE  n - x >= j
    <2>1. n - j \in Q /\ j \in 0 .. n
      <3>1. n - j \in 0 .. n /\ n - (n - j) = j
        OBVIOUS
      <3> QED BY <3>1
    <2>2. x <= n - j
      BY <1>3, <2>1
    <2> QED BY <1>4, <2>1, <2>2
  <1>6. \E y \in P : \A j \in P : y >= j
    BY <1>4, <1>5
  <1>7. Max(P) \in P /\ \A j \in P : Max(P) >= j
    BY <1>6 DEF Max
  <1> QED BY <1>7

(* The entries of a section behind place, and the calls they make.         *)
OwnPlaces(entries, place) == {i \in DOMAIN entries : i > place /\ Belongs(entries[i], entries[place])}

OwnCalls(entries, place) ==
    [i \in DOMAIN entries |-> Set(Section, Rest(entries[i].key, entries[place]), entries[i].val)]

(* They are collected place by place.                                      *)
LEMMA OwnCollected ==
    ASSUME NEW entries \in Seq(Entries), NEW place \in DOMAIN entries
    PROVE  \E g : /\ Collects(g, Len(entries), OwnPlaces(entries, place), OwnCalls(entries, place))
                  /\ OwnSettings(entries, place) = g[Len(entries)]
  <1> DEFINE n == Len(entries)
             header == entries[place]
             keep == OwnPlaces(entries, place)
             item == OwnCalls(entries, place)
             Step(g, i) == IF i = 0 THEN <<>>
                           ELSE IF i > place /\ Belongs(entries[i], header)
                           THEN Append(g[i - 1], Set(Section, Rest(entries[i].key, header), entries[i].val))
                           ELSE g[i - 1]
             Chosen(g, i) == IF i = 0 THEN <<>>
                             ELSE IF i \in keep THEN Append(g[i - 1], item[i])
                             ELSE g[i - 1]
             calls == CHOOSE g : g = [i \in 0 .. n |-> Step(g, i)]
  <1>0. n \in Nat /\ DOMAIN entries = 1 .. n
    OBVIOUS
  <1>1. \A g : \A i \in 0 .. n : Chosen(g, i) = Step(g, i)
    <2> TAKE g
    <2> TAKE i \in 0 .. n
    <2>1. i # 0 => i \in DOMAIN entries
      BY <1>0
    <2>2. i # 0 => (i \in keep <=> i > place /\ Belongs(entries[i], header))
      BY <2>1 DEF OwnPlaces
    <2>3. i # 0 => item[i] = Set(Section, Rest(entries[i].key, header), entries[i].val)
      BY <2>1 DEF OwnCalls
    <2> HIDE DEF keep, item, header
    <2> QED BY <2>2, <2>3
  <1>2. \A g : [i \in 0 .. n |-> Chosen(g, i)] = [i \in 0 .. n |-> Step(g, i)]
    <2> HIDE DEF Chosen, Step
    <2> QED BY <1>1
  <1>3. OwnSettings(entries, place) = calls[n]
    BY DEF OwnSettings
  <1> HIDE DEF item, keep, n, header
  <1>4. \E g : g = [i \in 0 .. n |-> Chosen(g, i)]
    <2>1. \E g : Collects(g, n, keep, item)
      BY <1>0, CollectExists
    <2> QED BY <2>1 DEF Collects
  <1>5. calls = [i \in 0 .. n |-> Step(calls, i)]
    <2> HIDE DEF Step, Chosen
    <2>1. \E g : g = [i \in 0 .. n |-> Step(g, i)]
      BY <1>2, <1>4
    <2> QED BY <2>1
  <1> HIDE DEF calls
  <1>6. calls = [i \in 0 .. n |-> Chosen(calls, i)]
    <2> HIDE DEF Step, Chosen
    <2> QED BY <1>2, <1>5
  <1>7. Collects(calls, n, keep, item)
    BY <1>6 DEF Collects
  <1> QED BY <1>3, <1>7 DEF keep, item, n

(* What a list of calls will make of a key is told by the last one that    *)
(* sets it: of those collected up to a place, by the last place.           *)
LastSays(entries, place, k, n, v) ==
    LET own == {p \in OwnPlaces(entries, place) : p <= n /\ Sets(OwnCalls(entries, place)[p], Section, k)}
    IN  \/ \E p \in own : entries[p].val = v /\ \A q \in own : q <= p
        \/ own = {} /\ v = NULL

(* The last call decides, or those before it do.                           *)
LEMMA FinalAppend ==
    ASSUME NEW S, NEW calls \in Seq(S), NEW c \in S, NEW d, NEW entries, NEW k, NEW v,
           \/ Sets(c, d, k) /\ c.val = v
           \/ ~Sets(c, d, k) /\ FinalSays(calls, d, entries, k, v)
    PROVE  FinalSays(Append(calls, c), d, entries, k, v)
  <1> DEFINE all == Append(calls, c)
             n == Len(calls)
  <1>1. /\ n \in Nat /\ DOMAIN calls = 1 .. n /\ all \in Seq(S) /\ DOMAIN all = 1 .. n + 1 /\ all[n + 1] = c
        /\ \A i \in 1 .. n : all[i] = calls[i]
    OBVIOUS
  <1> HIDE DEF all, n
  <1>2. \A i \in DOMAIN all : i <= n + 1 /\ (i = n + 1 \/ (i \in DOMAIN calls /\ all[i] = calls[i]))
    BY <1>1
  <1>3. n + 1 \in DOMAIN all /\ \A i \in DOMAIN calls : i \in DOMAIN all /\ all[i] = calls[i]
    BY <1>1
  <1>4. CASE Sets(c, d, k) /\ c.val = v
    <2>1. \A j \in DOMAIN all : ~(j > n + 1)
      BY <1>1
    <2> QED BY <1>1, <1>3, <1>4, <2>1 DEF FinalSays, all
  <1>5. CASE ~Sets(c, d, k) /\ FinalSays(calls, d, entries, k, v)
    <2>1. ASSUME NEW i \in DOMAIN calls, Sets(calls[i], d, k), calls[i].val = v,
                 \A j \in DOMAIN calls : j > i => ~Sets(calls[j], d, k)
          PROVE  FinalSays(all, d, entries, k, v)
      <3>1. \A j \in DOMAIN all : j > i => ~Sets(all[j], d, k)
        BY <1>1, <1>2, <1>5, <2>1
      <3> QED BY <1>3, <2>1, <3>1 DEF FinalSays
    <2>2. ASSUME \A i \in DOMAIN calls : ~Sets(calls[i], d, k), Get(entries, k, NULL) = v
          PROVE  FinalSays(all, d, entries, k, v)
      BY <1>1, <1>2, <1>5, <2>2 DEF FinalSays
    <2> QED BY <1>5, <2>1, <2>2 DEF FinalSays, all
  <1> QED BY <1>4, <1>5

(* What the section's calls will make of a key, its last entry tells.      *)
LEMMA OwnFinally ==
    ASSUME NEW entries \in Seq(Entries), NEW place \in DOMAIN entries, NEW k, NEW v,
           LastSays(entries, place, k, Len(entries), v)
    PROVE  FinalSays(OwnSettings(entries, place), Section, <<>>, k, v)
  <1> DEFINE n == Len(entries)
             keep == OwnPlaces(entries, place)
             item == OwnCalls(entries, place)
             S == SetCalls({Section})
             Says2(g, i) == \A w : LastSays(entries, place, k, i, w) => FinalSays(g[i], Section, <<>>, k, w)
  <1>1. PICK g : Collects(g, n, keep, item) /\ OwnSettings(entries, place) = g[n]
    BY OwnCollected
  <1>2. n \in Nat /\ DOMAIN entries = 1 .. n /\ keep \in SUBSET (1 .. n)
    BY DEF OwnPlaces
  <1>3. \A i \in keep : item[i] \in S /\ item[i].val = entries[i].val
    <2> TAKE i \in keep
    <2>1. i \in DOMAIN entries /\ Belongs(entries[i], entries[place])
      BY DEF OwnPlaces
    <2>2. item[i] = Set(Section, Rest(entries[i].key, entries[place]), entries[i].val)
      BY <2>1 DEF OwnCalls
    <2>a. entries[i] \in Entries /\ entries[place] \in Entries
      BY <2>1
    <2>b. Rest(entries[i].key, entries[place]) \in Text
      BY <2>1, <2>a, RestTyped
    <2>3. Rest(entries[i].key, entries[place]) \in Text /\ entries[i].val \in Vals
      BY <2>a, <2>b DEF Entries, Vals
    <2> QED BY <2>2, <2>3 DEF Set, SetCalls
  <1> DEFINE P == {i \in 0 .. n : g[i] \in Seq(S) /\ Says2(g, i)}
  <1>4. g[0] = <<>> /\ \A i \in 1 .. n : g[i] = IF i \in keep THEN Append(g[i - 1], item[i]) ELSE g[i - 1]
    <2> HIDE DEF n, keep, item
    <2>1. /\ 0 \in 0 .. n /\ \A i \in 1 .. n : i \in 0 .. n /\ i # 0
      BY <1>2
    <2> QED BY <1>1, <2>1 DEF Collects
  <1>5. 0 \in P
    <2>1. Says2(g, 0)
      <3> SUFFICES ASSUME NEW w, LastSays(entries, place, k, 0, w)
                   PROVE  FinalSays(g[0], Section, <<>>, k, w)
        OBVIOUS
      <3>1. w = NULL
        BY <1>2 DEF LastSays
      <3>2. Get(<<>>, k, NULL) = NULL /\ DOMAIN <<>> = {}
        BY DEF Get, Places
      <3> QED BY <1>4, <3>1, <3>2 DEF FinalSays
    <2>2. g[0] \in Seq(S) /\ 0 \in 0 .. n
      BY <1>2, <1>4
    <2> HIDE DEF Says2
    <2> QED BY <2>1, <2>2
  <1>6. ASSUME NEW i \in 1 .. n, i - 1 \in P
        PROVE  i \in P
    <2>1. /\ i \in 0 .. n /\ i \in Nat /\ i - 1 \in 0 .. n /\ g[i - 1] \in Seq(S)
          /\ g[i] = IF i \in keep THEN Append(g[i - 1], item[i]) ELSE g[i - 1]
      BY <1>2, <1>4, <1>6
    <2>2. \A w : LastSays(entries, place, k, i - 1, w) => FinalSays(g[i - 1], Section, <<>>, k, w)
      BY <1>6
    <2> DEFINE Own(j) == {p \in keep : p <= j /\ Sets(item[p], Section, k)}
    <2>3. \A j, w : LastSays(entries, place, k, j, w) <=>
                       \/ \E p \in Own(j) : entries[p].val = w /\ \A q \in Own(j) : q <= p
                       \/ Own(j) = {} /\ w = NULL
      BY DEF LastSays
    <2>4. g[i] \in Seq(S)
      <3> HIDE DEF S, item, keep
      <3> QED BY <1>3, <2>1
    <2>5. ASSUME NEW w, LastSays(entries, place, k, i, w)
          PROVE  FinalSays(g[i], Section, <<>>, k, w)
      <3>1. CASE i \in keep /\ Sets(item[i], Section, k)
        <4>1. i \in Own(i)
          BY <2>1, <3>1
        <4>2. PICK p \in Own(i) : entries[p].val = w /\ \A q \in Own(i) : q <= p
          BY <2>3, <2>5, <4>1
        <4>3. p = i
          BY <1>2, <2>1, <4>1, <4>2
        <4> HIDE DEF S, item, keep
        <4>4. item[i] \in S /\ item[i].val = w
          BY <1>3, <3>1, <4>2, <4>3
        <4> QED BY <2>1, <3>1, <4>4, FinalAppend
      <3>2. CASE ~(i \in keep /\ Sets(item[i], Section, k))
        <4>1. \A p \in keep : p \in Nat
          BY <1>2
        <4>2. Own(i) = Own(i - 1)
          <5>1. \A p \in keep : Sets(item[p], Section, k) => (p <= i <=> p <= i - 1)
            BY <2>1, <3>2, <4>1
          <5> HIDE DEF keep, item
          <5> QED BY <5>1
        <4> HIDE DEF Own
        <4>3. LastSays(entries, place, k, i - 1, w)
          BY <2>3, <2>5, <4>2
        <4>4. FinalSays(g[i - 1], Section, <<>>, k, w)
          BY <2>2, <4>3
        <4> HIDE DEF S, item, keep
        <4>5. CASE i \in keep
          <5>1. item[i] \in S /\ ~Sets(item[i], Section, k)
            BY <1>3, <3>2, <4>5
          <5> QED BY <2>1, <4>4, <4>5, <5>1, FinalAppend
        <4>6. CASE i \notin keep
          BY <2>1, <4>4, <4>6
        <4> QED BY <4>5, <4>6
      <3> QED BY <3>1, <3>2
    <2>6. Says2(g, i)
      BY <2>5
    <2> HIDE DEF Says2
    <2> QED BY <2>1, <2>4, <2>6
  <1> HIDE DEF P
  <1>7. \A i \in 0 .. n : i \in P
    BY <1>2, <1>5, <1>6, AllPlaces
  <1>8. n \in P
    BY <1>2, <1>7
  <1> QED BY <1>1, <1>8 DEF P

(* A sequence is the function of its items, and its last parts are a       *)
(* sequence.                                                               *)
LEMMA LastParts ==
    ASSUME NEW S, NEW s \in Seq(S)
    PROVE  /\ s = [j \in DOMAIN s |-> s[j]]
           /\ \A n \in 0 .. Len(s) :
                 /\ Len(SubSeq(s, n + 1, Len(s))) = Len(s) - n
                 /\ \A i \in 1 .. Len(s) - n : SubSeq(s, n + 1, Len(s))[i] = s[n + i]
                 /\ n + 1 = Len(s) => SubSeq(s, n + 1, Len(s)) = <<s[n + 1]>>
  <1>1. s = [j \in DOMAIN s |-> s[j]]
    OBVIOUS
  <1>2. ASSUME NEW n \in 0 .. Len(s)
        PROVE  /\ Len(SubSeq(s, n + 1, Len(s))) = Len(s) - n
               /\ \A i \in 1 .. Len(s) - n : SubSeq(s, n + 1, Len(s))[i] = s[n + i]
               /\ n + 1 = Len(s) => SubSeq(s, n + 1, Len(s)) = <<s[n + 1]>>
    <2> DEFINE r == SubSeq(s, n + 1, Len(s))
    <2>1. Len(s) \in Nat /\ n \in Nat /\ n <= Len(s)
      OBVIOUS
    <2>2. Len(r) = Len(s) - n /\ \A i \in 1 .. Len(s) - n : r[i] = s[n + i]
      BY <2>1
    <2>3. r \in Seq(S)
      BY <2>1
    <2>4. ASSUME n + 1 = Len(s) PROVE r = <<s[n + 1]>>
      <3>1. Len(r) = 1 /\ r[1] = s[n + 1]
        BY <2>1, <2>2, <2>4
      <3> HIDE DEF r
      <3> QED BY <2>3, <3>1
    <2> QED BY <2>2, <2>4
  <1> QED BY <1>1, <1>2

(* Every key of the file's dictionary is folded.                           *)
LEMMA KeysFolded ==
    ASSUME NEW f \in Files \ {NULL}, NEW entries \in Seq(Entries),
           Holds(f, entries, Len(f), {Instance, Cluster}), NEW p \in DOMAIN entries
    PROVE  Folded(entries[p].key) = entries[p].key
  <1>1. PICK m : StandsAt(f, entries, Len(f), m) /\ OthersUnset(f, entries, Len(f), m, {Instance, Cluster})
    BY DEF Holds
  <1>2. \A i \in DOMAIN f : f[i].section \in Text /\ f[i].name \in Text
    BY FileFacts
  <1>3. CASE \E i \in ReadLines(f, Len(f)) : m[i] = p
    <2>1. PICK i \in ReadLines(f, Len(f)) : m[i] = p
      BY <1>3
    <2>a. i \in DOMAIN f
      BY <2>1, FileFacts DEF ReadLines
    <2>b. entries[m[i]] = Entry(FullKey(f[i]), f[i].val)
      BY <1>1, <2>1 DEF StandsAt
    <2>2. i \in DOMAIN f /\ entries[p].key = FullKey(f[i])
      BY <2>a, <2>b, <2>1 DEF Entry
    <2>3. /\ Folded(f[i].section) \in Text /\ Folded(f[i].name) \in Text
          /\ Folded(Folded(f[i].section)) = Folded(f[i].section)
          /\ Folded(Folded(f[i].name)) = Folded(f[i].name)
      BY <1>2, <2>2, FoldedTyped, FoldedTwice
    <2>4. \A x, y \in Text : Folded(x) = x /\ Folded(y) = y => Folded(x \o y) = x \o y
      <3> SUFFICES ASSUME NEW x \in Text, NEW y \in Text, Folded(x) = x, Folded(y) = y
                   PROVE  Folded(x \o y) = x \o y
        OBVIOUS
      <3>1. /\ x \o y \in Seq(Names) /\ Len(x \o y) = Len(x) + Len(y) /\ DOMAIN (x \o y) = 1 .. Len(x \o y)
            /\ Len(x) \in Nat /\ Len(y) \in Nat /\ DOMAIN x = 1 .. Len(x) /\ DOMAIN y = 1 .. Len(y)
        BY DEF Text
      <3>2. \A j \in DOMAIN (x \o y) :
               (x \o y)[j] = IF j <= Len(x) THEN x[j] ELSE y[j - Len(x)]
        BY <3>1 DEF Text
      <3>3. (\A j \in DOMAIN x : Lower[x[j]] = x[j]) /\ \A j \in DOMAIN y : Lower[y[j]] = y[j]
        BY DEF Folded
      <3>4. \A j \in DOMAIN (x \o y) : Lower[(x \o y)[j]] = (x \o y)[j]
        <4> TAKE j \in DOMAIN (x \o y)
        <4>1. CASE j <= Len(x)
          BY <3>1, <3>2, <3>3, <4>1
        <4>2. CASE ~(j <= Len(x))
          <5> DEFINE l == j - Len(x)
          <5>1. l \in DOMAIN y
            BY <3>1, <4>2
          <5>2. (x \o y)[j] = y[l]
            BY <3>2, <4>2
          <5> HIDE DEF l
          <5> QED BY <3>3, <5>1, <5>2
        <4> QED BY <4>1, <4>2
      <3>5. x \o y = [j \in DOMAIN (x \o y) |-> (x \o y)[j]]
        BY <3>1, LastParts
      <3> QED BY <3>4, <3>5 DEF Folded
    <2> QED BY <2>2, <2>3, <2>4 DEF FullKey
  <1>4. CASE \A i \in ReadLines(f, Len(f)) : m[i] # p
    <2>1. IsHeader(f, entries[p].key) \/ entries[p].key \in {Instance, Cluster}
      BY <1>1, <1>4 DEF OthersUnset
    <2>2. CASE IsHeader(f, entries[p].key)
      <3>1. PICK i \in DOMAIN f : entries[p].key = Folded(f[i].section)
        BY <2>2 DEF IsHeader
      <3> QED BY <1>2, <3>1, FoldedTwice
    <2>3. CASE entries[p].key \in {Instance, Cluster}
      BY <2>3, OwnKeysFolded
    <2> QED BY <2>1, <2>2, <2>3
  <1> QED BY <1>3, <1>4

(* One part more.                                                          *)
LEMMA OneMore ==
    ASSUME NEW S, NEW s \in Seq(S), NEW k
    PROVE  /\ Len(s \o <<k>>) = Len(s) + 1 /\ (s \o <<k>>)[Len(s) + 1] = k
           /\ \A i \in 1 .. Len(s) : (s \o <<k>>)[i] = s[i]
           /\ DOMAIN (s \o <<k>>) = 1 .. Len(s) + 1
  <1> DEFINE T == S \cup {k}
  <1>1. s \in Seq(T) /\ <<k>> \in Seq(T)
    BY SeqMonotone
  <1> HIDE DEF T
  <1> QED BY <1>1

(* A section's own entry is one part longer than its header.               *)
LEMMA OwnKey ==
    ASSUME NEW e \in Entries, NEW h \in Entries, Folded(e.key) = e.key, NEW k
    PROVE  Belongs(e, h) /\ Folded(Rest(e.key, h)) = <<k>> <=> e.key = h.key \o <<k>>
  <1> DEFINE x == e.key
             s == h.key
  <1>1. x \in Seq(Names) /\ s \in Seq(Names) /\ Len(x) \in Nat /\ Len(s) \in Nat
        /\ DOMAIN x = 1 .. Len(x) /\ DOMAIN s = 1 .. Len(s)
    BY DEF Entries, Text
  <1>2. ASSUME x = s \o <<k>> PROVE Belongs(e, h) /\ Folded(Rest(x, h)) = <<k>>
    <2>1. Len(x) = Len(s) + 1 /\ x[Len(s) + 1] = k /\ \A i \in 1 .. Len(s) : x[i] = s[i]
      BY <1>1, <1>2, OneMore
    <2>2. Belongs(e, h)
      <3>1. SubSeq(x, 1, Len(s)) = [i \in 1 .. Len(s) |-> x[i]]
        BY <1>1, <2>1
      <3>2. s = [i \in 1 .. Len(s) |-> s[i]]
        BY <1>1
      <3> QED BY <1>1, <2>1, <3>1, <3>2 DEF Belongs
    <2>3. Rest(x, h) = <<k>>
      <3>1. SubSeq(x, Len(s) + 1, Len(x)) = <<x[Len(s) + 1]>>
        <4>1. Len(s) \in 0 .. Len(x)
          BY <1>1, <2>1
        <4> HIDE DEF x, s
        <4> QED BY <1>1, <2>1, <4>1, LastParts
      <3> QED BY <2>1, <3>1 DEF Rest
    <2>4. Lower[k] = k
      BY <1>1, <2>1 DEF Folded
    <2>5. Folded(<<k>>) = <<k>>
      BY <2>4 DEF Folded
    <2> QED BY <2>2, <2>3, <2>5
  <1>3. ASSUME Belongs(e, h), Folded(Rest(x, h)) = <<k>> PROVE x = s \o <<k>>
    <2>1. Len(x) > Len(s) /\ SubSeq(x, 1, Len(s)) = s
      BY <1>3 DEF Belongs
    <2>2. Rest(x, h) \in Text
      BY <1>3, RestTyped
    <2>3. DOMAIN Rest(x, h) = {1} /\ Lower[Rest(x, h)[1]] = k
      <3>1. DOMAIN Folded(Rest(x, h)) = DOMAIN Rest(x, h) /\ \A i \in DOMAIN Rest(x, h) : Folded(Rest(x, h))[i] = Lower[Rest(x, h)[i]]
        BY DEF Folded
      <3> QED BY <1>3, <3>1
    <2>4. Len(x) = Len(s) + 1 /\ Rest(x, h)[1] = x[Len(s) + 1]
      <3>1. Rest(x, h) = SubSeq(x, Len(s) + 1, Len(x))
        BY DEF Rest
      <3>2. Len(Rest(x, h)) = Len(x) - Len(s) /\ \A i \in 1 .. Len(x) - Len(s) : Rest(x, h)[i] = x[Len(s) + i]
        <4>1. Len(s) \in 0 .. Len(x)
          BY <1>1, <2>1
        <4> HIDE DEF x, s
        <4> DEFINE r == SubSeq(x, Len(s) + 1, Len(x))
        <4>2. Rest(x, h) = r
          BY <3>1
        <4>3. Len(r) = Len(x) - Len(s) /\ \A i \in 1 .. Len(x) - Len(s) : r[i] = x[Len(s) + i]
          <5> HIDE DEF x, s
          <5> QED BY <1>1, <4>1, LastParts
        <4> HIDE DEF r
        <4> QED BY <4>2, <4>3
      <3>3. Len(Rest(x, h)) = 1
        BY <2>2, <2>3 DEF Text
      <3>4. Len(x) = Len(s) + 1
        <4> DEFINE a == Len(x)
                   b == Len(s)
        <4>1. a \in Nat /\ b \in Nat /\ 1 = a - b
          BY <1>1, <3>2, <3>3
        <4> HIDE DEF a, b
        <4>2. a = b + 1
          BY <4>1
        <4> QED BY <4>2 DEF a, b
      <3>5. 1 \in 1 .. Len(x) - Len(s)
        <4> DEFINE a == Len(x)
                   b == Len(s)
        <4>1. a \in Nat /\ b \in Nat /\ a = b + 1
          BY <1>1, <3>4
        <4> HIDE DEF a, b
        <4>2. 1 \in 1 .. a - b
          BY <4>1
        <4> QED BY <4>2 DEF a, b
      <3>6. Rest(x, h)[1] = x[Len(s) + 1]
        BY <3>2, <3>5
      <3> QED BY <3>4, <3>6
    <2>5. x[Len(s) + 1] = k
      <3>1. Lower[x[Len(s) + 1]] = x[Len(s) + 1]
        BY <1>1, <2>4 DEF Folded
      <3> QED BY <2>3, <2>4, <3>1
    <2>6. \A i \in 1 .. Len(s) : x[i] = s[i]
      <3> HIDE DEF x, s
      <3> QED BY <1>1, <2>1
    <2>7. k \in Names
      BY <1>1, <2>4, <2>5
    <2>8. /\ s \o <<k>> \in Seq(Names) /\ Len(s \o <<k>>) = Len(s) + 1
          /\ \A i \in 1 .. Len(s) + 1 : (s \o <<k>>)[i] = IF i <= Len(s) THEN s[i] ELSE k
      BY <1>1, <2>7
    <2>9. \A i \in 1 .. Len(s) + 1 : (s \o <<k>>)[i] = x[i]
      BY <1>1, <2>5, <2>6, <2>8
    <2> HIDE DEF x, s
    <2> QED BY <1>1, <2>4, <2>8, <2>9
  <1> QED BY <1>2, <1>3

(* An entry of a dictionary.                                               *)
LEMMA EntryFacts ==
    ASSUME NEW entries \in Seq(Entries), NEW p \in DOMAIN entries
    PROVE  entries[p] \in Entries /\ entries[p].key \in Text /\ entries[p].val \in Vals
  <1>1. entries[p] \in Entries
    OBVIOUS
  <1> QED BY <1>1 DEF Entries, Vals

(* Sections of containers have other names than the defaults.              *)
LEMMA ContainerKeys ==
    ASSUME NEW s \in Text, Len(s) > 1, s[1] = "container", NEW k
    PROVE  s \notin {Instance, Cluster} /\ s \o <<k>> \notin {Instance, Cluster}
  <1>1. (s \o <<k>>)[1] = "container"
    BY OneMore DEF Text
  <1>2. Instance[1] = "global" /\ Cluster[1] = "global"
    BY DEF Instance, Cluster
  <1> QED BY <1>1, <1>2

(* Two keys of one more part are equal part by part.                       *)
LEMMA OneMoreEqual ==
    ASSUME NEW x \in Text, NEW y \in Text, NEW a, NEW b
    PROVE  x \o <<a>> = y \o <<b>> => x = y /\ a = b
  <1> SUFFICES ASSUME x \o <<a>> = y \o <<b>> PROVE x = y /\ a = b
    OBVIOUS
  <1>1. /\ Len(x \o <<a>>) = Len(x) + 1 /\ Len(y \o <<b>>) = Len(y) + 1 /\ Len(x) \in Nat /\ Len(y) \in Nat
        /\ (x \o <<a>>)[Len(x) + 1] = a /\ (y \o <<b>>)[Len(y) + 1] = b
        /\ \A i \in 1 .. Len(x) : (x \o <<a>>)[i] = x[i]
        /\ \A i \in 1 .. Len(y) : (y \o <<b>>)[i] = y[i]
    BY OneMore DEF Text
  <1>2. Len(x) = Len(y)
    <2> DEFINE m == Len(x)
               n == Len(y)
    <2>1. m \in Nat /\ n \in Nat /\ m + 1 = n + 1
      BY <1>1
    <2> HIDE DEF m, n
    <2>2. m = n
      BY <2>1
    <2> QED BY <2>2 DEF m, n
  <1>3. \A i \in 1 .. Len(x) : x[i] = y[i]
    BY <1>1, <1>2
  <1>4. x = y
    BY <1>2, <1>3 DEF Text
  <1> QED BY <1>1, <1>4

(* The entry of a line of the section stands behind the section's header.  *)
LEMMA OwnBehind ==
    ASSUME NEW entries \in Seq(Entries), SectionsSo(entries), NEW place \in DOMAIN entries,
           IsContainer(entries[place]), NEW q \in DOMAIN entries, NEW k,
           entries[q].key = entries[place].key \o <<k>>, entries[q].val # NULL
    PROVE  place < q
  <1> DEFINE s == entries[place].key
  <1>1. s \in Text /\ Len(s) > 1 /\ s[1] = "container" /\ entries[place].val = NULL
    BY EntryFacts DEF IsContainer
  <1>2. entries[q].key \notin {Instance, Cluster} /\ s \notin {Instance, Cluster}
    BY <1>1, ContainerKeys
  <1>3. PICK p \in DOMAIN entries :
          /\ p < q /\ (entries[p].val = NULL \/ entries[p].key \in {Instance, Cluster})
          /\ \E l : entries[q].key = entries[p].key \o <<l>>
    BY <1>2 DEF SectionsSo
  <1>4. PICK l : s \o <<k>> = entries[p].key \o <<l>>
    BY <1>3
  <1>5. entries[p].key \in Text
    BY EntryFacts
  <1>6. entries[p].key = s
    <2> HIDE DEF s
    <2> DEFINE x == entries[p].key
    <2>1. s \in Text
      BY <1>1
    <2>2. x \in Text /\ s \o <<k>> = x \o <<l>>
      BY <1>4, <1>5
    <2> HIDE DEF x
    <2>3. s = x
      BY <2>1, <2>2, OneMoreEqual
    <2> QED BY <2>3 DEF x
  <1>7. entries[p].val = NULL
    BY <1>2, <1>3, <1>6
  <1>8. p = place
    BY <1>6, <1>7 DEF SectionsSo
  <1> QED BY <1>3, <1>8

(* The name of a setting is the last part of its key.                      *)
LEMMA OwnLine ==
    ASSUME SimpleNames, NEW f \in Files \ {NULL}, NEW i \in DOMAIN f, f[i].val # NULL, NEW s \in Text, NEW k
    PROVE  FullKey(f[i]) = s \o <<k>> <=> i \in OwnLines(f, s, k)
  <1>1. f[i].section \in Text /\ f[i].name \in Text /\ Len(f[i].name) = 1
    BY FileFacts DEF SimpleNames
  <1> DEFINE x == f[i].name
  <1>2. Folded(f[i].section) \in Text /\ Folded(x) \in Text
    BY <1>1, FoldedTyped
  <1>3. Folded(x) = <<Lower[x[1]]>>
    <2>1. DOMAIN x = {1}
      BY <1>1 DEF Text
    <2>2. DOMAIN Folded(x) = {1} /\ Folded(x)[1] = Lower[x[1]]
      BY <2>1 DEF Folded
    <2> HIDE DEF x
    <2>3. Len(Folded(x)) = 1
      BY <1>2, <2>2 DEF Text
    <2> QED BY <1>2, <2>2, <2>3 DEF Text
  <1>4. <<Lower[x[1]]>> = <<k>> <=> Lower[x[1]] = k
    OBVIOUS
  <1>5. FullKey(f[i]) = Folded(f[i].section) \o <<Lower[x[1]]>>
    BY <1>3 DEF FullKey
  <1>6. FullKey(f[i]) = s \o <<k>> <=> Folded(f[i].section) = s /\ Lower[x[1]] = k
    <2> DEFINE y == Folded(f[i].section)
               l == Lower[x[1]]
    <2>1. y \in Text /\ FullKey(f[i]) = y \o <<l>>
      BY <1>2, <1>5
    <2> HIDE DEF y, l
    <2>2. FullKey(f[i]) = s \o <<k>> <=> y = s /\ l = k
      BY <2>1, OneMoreEqual, Zenon
    <2> QED BY <2>2 DEF y, l
  <1> QED BY <1>3, <1>4, <1>6 DEF OwnLines

(* The last entry of a section with a key is that of its last line.        *)
LEMMA OwnLast ==
    ASSUME SettingsVisible, SimpleNames, NEW f \in Files \ {NULL}, NEW entries \in Seq(Entries),
           Holds(f, entries, Len(f), {Instance, Cluster}), SectionsSo(entries),
           NEW place \in DOMAIN entries, IsContainer(entries[place]), NEW k \in KeyNames
    PROVE  LastSays(entries, place, <<k>>, Len(entries), OwnOf(f, entries[place].key)[k])
  <1> DEFINE s == entries[place].key
             own == {p \in OwnPlaces(entries, place) : p <= Len(entries) /\ Sets(OwnCalls(entries, place)[p], Section, <<k>>)}
             L == OwnLines(f, s, k)
             v == OwnOf(f, s)[k]
  <1>1. /\ s \in Text /\ Len(s) > 1 /\ s[1] = "container"
        /\ Len(f) \in Nat /\ DOMAIN f = 1 .. Len(f)
        /\ Len(entries) \in Nat /\ DOMAIN entries = 1 .. Len(entries)
    BY FileFacts, EntryFacts DEF IsContainer
  <1>2. PICK m : StandsAt(f, entries, Len(f), m) /\ OthersUnset(f, entries, Len(f), m, {Instance, Cluster})
    BY DEF Holds
  <1>3. \A i \in ReadLines(f, Len(f)) :
            /\ i \in DOMAIN f /\ i \in Nat /\ f[i].val # NULL
            /\ m[i] \in DOMAIN entries /\ m[i] \in Nat
            /\ entries[m[i]].key = FullKey(f[i]) /\ entries[m[i]].val = f[i].val
    <2> TAKE i \in ReadLines(f, Len(f))
    <2>1. i \in DOMAIN f /\ i \in Nat /\ f[i].val # NULL
      BY <1>1 DEF ReadLines
    <2>2. m[i] \in DOMAIN entries /\ entries[m[i]] = Entry(FullKey(f[i]), f[i].val)
      BY <1>2 DEF StandsAt
    <2>3. entries[m[i]].key = FullKey(f[i]) /\ entries[m[i]].val = f[i].val
      BY <2>2 DEF Entry
    <2> QED BY <1>1, <2>1, <2>2, <2>3
  <1>4. \A i \in DOMAIN f : f[i].val # NULL => i \in ReadLines(f, Len(f))
    BY <1>1 DEF ReadLines
  <1>5. \A p \in DOMAIN entries : p \in own <=> p > place /\ entries[p].key = s \o <<k>>
    <2> TAKE p \in DOMAIN entries
    <2>1. /\ entries[p] \in Entries /\ entries[place] \in Entries /\ Folded(entries[p].key) = entries[p].key
          /\ p <= Len(entries)
      <3>1. entries[p] \in Entries /\ entries[place] \in Entries
        BY EntryFacts
      <3>2. Folded(entries[p].key) = entries[p].key
        BY KeysFolded
      <3> QED BY <1>1, <3>1, <3>2
    <2>2. OwnCalls(entries, place)[p] = Set(Section, Rest(entries[p].key, entries[place]), entries[p].val)
      BY DEF OwnCalls
    <2>3. Sets(OwnCalls(entries, place)[p], Section, <<k>>) <=> Folded(Rest(entries[p].key, entries[place])) = <<k>>
      BY <2>2 DEF Sets, Set
    <2>4. p \in own <=> p > place /\ Belongs(entries[p], entries[place]) /\ Folded(Rest(entries[p].key, entries[place])) = <<k>>
      BY <2>1, <2>3 DEF OwnPlaces
    <2> HIDE DEF own
    <2> QED BY <2>1, <2>4, OwnKey
  <1>6. own \subseteq DOMAIN entries
    BY DEF OwnPlaces
  <1>7. \A i \in L : i \in ReadLines(f, Len(f)) /\ m[i] \in own
    <2> TAKE i \in L
    <2>1. i \in DOMAIN f /\ f[i].val # NULL
      BY DEF OwnLines
    <2>2. i \in ReadLines(f, Len(f)) /\ FullKey(f[i]) = s \o <<k>>
      BY <1>1, <1>4, <2>1, OwnLine
    <2>3. m[i] \in DOMAIN entries /\ entries[m[i]].key = s \o <<k>> /\ entries[m[i]].val # NULL
      BY <1>3, <2>1, <2>2
    <2>4. place < m[i]
      BY <2>3, OwnBehind
    <2> QED BY <1>1, <1>5, <2>2, <2>3, <2>4
  <1>8. \A p \in own : (\E i \in L : p = m[i]) \/ (entries[p].val = NULL /\ IsHeader(f, s \o <<k>>))
    <2> TAKE p \in own
    <2>1. p \in DOMAIN entries /\ entries[p].key = s \o <<k>>
      BY <1>5, <1>6
    <2>2. CASE \E i \in ReadLines(f, Len(f)) : m[i] = p
      <3>1. PICK i \in ReadLines(f, Len(f)) : m[i] = p
        BY <2>2
      <3>2. i \in DOMAIN f /\ f[i].val # NULL /\ FullKey(f[i]) = s \o <<k>>
        BY <1>3, <2>1, <3>1
      <3>3. i \in L
        BY <1>1, <3>2, OwnLine
      <3> QED BY <3>1, <3>3
    <2>3. CASE \A i \in ReadLines(f, Len(f)) : m[i] # p
      <3>1. \/ entries[p].val = NULL /\ IsHeader(f, s \o <<k>>)
            \/ s \o <<k>> \in {Instance, Cluster}
        BY <1>2, <2>1, <2>3 DEF OthersUnset
      <3> QED BY <1>1, <3>1, ContainerKeys
    <2> QED BY <2>2, <2>3
  <1>9. v = IF L = {} THEN NULL ELSE f[Max(L)].val
    BY DEF OwnOf
  <1>10. CASE L = {}
    <2>1. v = NULL /\ \A p \in own : entries[p].val = NULL
      BY <1>8, <1>9, <1>10
    <2>2. CASE own = {}
      BY <2>1, <2>2 DEF LastSays
    <2>3. CASE own # {}
      <3>1. own \in SUBSET (0 .. Len(entries))
        BY <1>1, <1>6
      <3> HIDE DEF own, v
      <3>2. Max(own) \in own /\ \A q \in own : q <= Max(own)
        BY <1>1, <2>3, <3>1, LastPlace
      <3>3. \E p \in own : entries[p].val = v /\ \A q \in own : q <= p
        BY <2>1, <3>2
      <3> QED BY <3>3 DEF own, v, LastSays
    <2> QED BY <2>2, <2>3
  <1>11. CASE L # {}
    <2>1. L \in SUBSET (0 .. Len(f))
      BY <1>1 DEF OwnLines
    <2> DEFINE i == Max(L)
    <2>2. i \in L /\ \A j \in L : j <= i
      <3> HIDE DEF L
      <3> QED BY <1>1, <1>11, <2>1, LastPlace
    <2>3. m[i] \in own /\ entries[m[i]].val = v
      <3> HIDE DEF L, own, v
      <3>1. entries[m[i]].val = f[i].val
        BY <1>3, <1>7, <2>2
      <3>2. v = f[i].val
        BY <1>9, <1>11
      <3> QED BY <1>7, <2>2, <3>1, <3>2
    <2>4. ~IsHeader(f, s \o <<k>>)
      <3>1. i \in DOMAIN f /\ f[i].val # NULL /\ FullKey(f[i]) = s \o <<k>>
        <4>1. i \in DOMAIN f /\ f[i].val # NULL
          BY <2>2 DEF OwnLines
        <4>2. i \in OwnLines(f, s, k) /\ s \in Text
          BY <1>1, <2>2
        <4> HIDE DEF i, s, L
        <4>3. FullKey(f[i]) = s \o <<k>>
          BY <4>1, <4>2, OwnLine
        <4> QED BY <4>1, <4>3
      <3> HIDE DEF i
      <3> QED BY <3>1 DEF SettingsVisible, IsHeader
    <2>5. \A q \in own : q <= m[i]
      <3> HIDE DEF own, L, i
      <3> TAKE q \in own
      <3>1. PICK j \in L : q = m[j]
        BY <1>8, <2>4
      <3>2. /\ i \in ReadLines(f, Len(f)) /\ j \in ReadLines(f, Len(f)) /\ j <= i /\ i \in Nat /\ j \in Nat
            /\ m[i] \in Nat /\ m[j] \in Nat
        BY <1>3, <1>7, <2>2, <3>1
      <3>3. j < i => m[j] < m[i]
        BY <1>2, <3>2 DEF StandsAt
      <3>4. j < i \/ j = i
        BY <3>2
      <3> QED BY <3>1, <3>2, <3>3, <3>4
    <2>6. \E p \in own : entries[p].val = v /\ \A q \in own : q <= p
      <3> HIDE DEF own, v, i
      <3> QED BY <2>3, <2>5
    <2> QED BY <2>6 DEF LastSays
  <1> QED BY <1>10, <1>11

(* What leaves the shape of the file's dictionary as it is.                *)
LEMMA ShapeKept ==
    ASSUME FileShape, UNCHANGED <<file, overrides, phase>>, content'[File] = content[File],
           overrides # NULL /\ phase = "merge" => parsed' = parsed /\ todo'[Main] = todo[Main]
    PROVE  FileShape'
  BY DEF FileShape

(* Main reads a line: a setting comes behind its section's header.         *)
LEMMA ShapeAdds ==
    ASSUME SettingsVisible, SimpleNames, TypeOK, Working, KeyInv, MainSays, FileShape, FinishAdd(Main)
    PROVE  FileShape'
  <1> DEFINE call == Head(todo[Main])
             key == Folded(call.key)
             e == content[File]
             r == content'[File]
  <1>1. InCall(Main, "add") /\ Return(Main, <<>>)
    BY DEF FinishAdd
  <1>2. /\ todo[Main] # <<>> /\ call.kind = "add" /\ call \in MainCalls(phase) /\ buffer = key
        /\ phase \in {"listen", "load", "merge", "free"} \cup LatePhases
    BY <1>1, MainInCall
  <1>3. UNCHANGED <<file, overrides, phase>>
    BY <1>1, MainReturnsList
  <1>4. phase \in {"load", "merge", "free"}
    BY <1>2, MainFacts DEF FilePhases
  <1>5. phase # "free"
    <2>1. phase = "free" => \E i, c : Merging(file, todo[Main], i, c)
      BY DEF MainSays, FreeSays
    <2> QED BY <1>2, <2>1, MergingKinds
  <1>6. CASE overrides = NULL
    BY <1>3, <1>4, <1>5, <1>6 DEF FileShape, LatePhases
  <1>7. CASE overrides # NULL
    <2>1. phase = "merge"
      BY <1>2, <1>4, <1>5, <1>7, EarlyCalls
    <2>2. file \in Files \ {NULL} /\ e \in Seq(Entries)
      BY <1>7, <2>1, DictsDistinct DEF MainSays, EarlySays, MergeSays, Working, PhaseOK, TypeOK
    <2>3. PICK n \in 0 .. Len(file) : ReadSo(file, n, todo[Main], e, parsed)
      BY <1>7, <2>1 DEF MainSays, EarlySays, MergeSays
    <2>4. todo[Main] \in Seq(AllCalls)
      BY ThreadsDistinct DEF Working, TodoOK
    <2> DEFINE line == file[n + 1]
               s == Folded(line.section)
    <2>5. n + 1 \in 1 .. Len(file) /\ call = Add(line)
      BY <1>2, <2>2, <2>3, <2>4, NextLine DEF ReadSo
    <2>6. /\ call.val = line.val
          /\ line.val = NULL => call.key = line.section
          /\ line.val # NULL => call.key = line.name
      BY <2>5 DEF Add
    <2>7. /\ Len(file) \in Nat /\ n \in Nat /\ n + 1 <= Len(file) /\ n + 1 \in DOMAIN file
          /\ Holds(file, e, n, {}) /\ SectionsSo(e) /\ File \in Dicts
      BY <1>7, <2>1, <2>2, <2>3, <2>5, FileFacts, DictsDistinct DEF ReadSo, FileShape
    <2>8. IF call.val = NULL THEN parsed' = key /\ r = Replaced(e, key, NULL)
          ELSE r = Added(e, parsed \o key, call.val) /\ parsed' = parsed
      <3>1. IF call.val = NULL
            THEN parsed' = key /\ content' = [content EXCEPT ![File] = Replaced(content[File], key, NULL)]
            ELSE content' = [content EXCEPT ![File] = Added(content[File], parsed \o key, call.val)] /\ parsed' = parsed
        BY <1>2 DEF FinishAdd
      <3>2. content \in [Dicts -> Seq(Entries)]
        BY DEF TypeOK
      <3> HIDE DEF key, call
      <3> QED BY <2>7, <3>1, <3>2
    <2>9. SectionsSo(r) /\ HasHeader(r, parsed')
      <3>1. CASE line.val = NULL
        <4>1. parsed' = s /\ r = Replaced(e, s, NULL)
          BY <2>6, <2>8, <3>1
        <4> HIDE DEF e, r
        <4> QED BY <2>2, <2>7, <3>1, <4>1, ShapeHeader
      <3>2. CASE line.val # NULL
        <4>1. n \in DOMAIN file /\ file[n].section = line.section /\ n > 0
          <5>1. n + 1 - 1 \in DOMAIN file /\ file[n + 1 - 1].section = line.section
            BY <2>2, <2>7, <3>2, FileFacts
          <5>2. n + 1 - 1 = n /\ DOMAIN file = 1 .. Len(file)
            BY <2>2, <2>7, FileFacts
          <5> QED BY <2>7, <5>1, <5>2
        <4>2. parsed = s
          BY <2>3, <4>1 DEF ReadSo
        <4>3. HasHeader(e, s)
          <5>1. Len(todo[Main]) < Len(file)
            <6>1. Len(todo[Main]) = Len(file) - n
              BY <2>3 DEF ReadSo, LinesLeft
            <6> QED BY <2>7, <4>1, <6>1
          <5> QED BY <1>7, <2>1, <4>2, <5>1 DEF FileShape
        <4>4. r = Added(e, FullKey(line), line.val) /\ parsed' = s
          BY <2>6, <2>8, <3>2, <4>2 DEF FullKey
        <4> HIDE DEF e, r
        <4> QED BY <2>2, <2>7, <3>2, <4>3, <4>4, ShapeAdd
      <3> QED BY <3>1, <3>2
    <2> QED BY <1>3, <2>1, <2>9 DEF FileShape, LatePhases
  <1> QED BY <1>6, <1>7

(* Main sets an entry: in the merge, a default that is missing.            *)
LEMMA ShapeSets ==
    ASSUME TypeOK, Working, KeyInv, MainSays, FileShape, FinishSet(Main)
    PROVE  FileShape'
  <1> DEFINE call == Head(todo[Main])
             d == at[Main]
             key == Folded(call.key)
  <1>1. InCall(Main, "set") /\ Return(Main, <<>>) /\ parsed' = parsed
    BY DEF FinishSet
  <1>2. /\ todo[Main] # <<>> /\ call.kind = "set" /\ call \in MainCalls(phase) /\ call \in AllCalls /\ buffer = key
        /\ d = call.dict /\ phase \in {"listen", "load", "merge", "free"} \cup LatePhases
        /\ call.val \in Vals /\ key \in Text
    BY <1>1, MainInCall, KindFacts, FoldedTyped
  <1>3. UNCHANGED <<file, overrides, phase>>
    BY <1>1, MainReturnsList
  <1>4. /\ d = NULL => content' = content
        /\ d # NULL => /\ content'[d] = Replaced(content[d], key, call.val)
                       /\ \A e \in Dicts \ {d} : content'[e] = content[e]
    <2>1. content \in [Dicts -> Seq(Entries)] /\ d \in Dicts \cup {NULL}
      BY ThreadsDistinct DEF TypeOK
    <2>2. content' = IF d = NULL THEN content ELSE [content EXCEPT ![d] = Replaced(content[d], key, call.val)]
      BY <1>2 DEF FinishSet
    <2> HIDE DEF d, call, key
    <2> QED BY <2>1, <2>2
  <1> HIDE DEF key
  <1>5. CASE phase \in LatePhases \cup {"listen"}
    <2>1. d \in {Section, Defaults, NULL} \cup HostDicts
      BY <1>2, <1>5, MainFacts DEF LatePhases, FilePhases
    <2>2. content'[File] = content[File]
      BY <1>4, <2>1, DictsDistinct
    <2> QED BY <1>3, <1>5, <2>2, ShapeKept DEF LatePhases
  <1>6. CASE phase \in {"load", "merge"}
    <2>1. overrides = NULL
      BY <1>2, <1>6, EarlyCalls
    <2> QED BY <1>3, <1>6, <2>1 DEF FileShape, LatePhases
  <1>7. CASE phase = "free"
    <2>1. d = File
      BY <1>2, <1>7, MainFacts DEF FilePhases
    <2> DEFINE i == Get(content[File], Instance, NULL)
               c == Get(content[File], Cluster, NULL)
               e == content[File]
               r == content'[File]
    <2>2. Merging(file, todo[Main], i, c) /\ SectionsSo(e) /\ e \in Seq(Entries)
      BY <1>7, DictsDistinct DEF MainSays, FreeSays, FileShape, TypeOK
    <2>3. r = Replaced(e, key, call.val)
      BY <1>4, <2>1, DictsDistinct
    <2>4. /\ call.key \in {Instance, Cluster} /\ (call.key = Instance => i = NULL) /\ (call.key = Cluster => c = NULL)
      <3> HIDE DEF i, c
      <3> QED BY <1>2, <2>2, MergingSet
    <2>5. key = call.key
      BY <2>4, OwnKeysFolded DEF key
    <2>6. Get(e, key, NULL) = NULL
      BY <2>4, <2>5
    <2>7. call.val # NULL
      <3> HIDE DEF i, c
      <3>1. /\ SetInstance.val = Hostname /\ SetCluster.val = Private
            /\ AskInstance.kind = "ask" /\ AskCluster.kind = "ask"
        BY DEF SetInstance, SetCluster, Set, AskInstance, AskCluster, DefaultCall, Ask
      <3>2. call = SetInstance \/ call = SetCluster
        BY <1>2, <2>2, <3>1, ShortLists DEF Merging
      <3> QED BY <3>1, <3>2, KnownText
    <2>8. SectionsSo(r)
      <3> HIDE DEF e, r
      <3> QED BY <1>2, <2>2, <2>3, <2>4, <2>5, <2>6, <2>7, ShapeSet
    <2> QED BY <1>3, <1>7, <2>8 DEF FileShape
  <1> QED BY <1>2, <1>5, <1>6, <1>7

(* The other steps of threads do not touch the file's dictionary.          *)
LEMMA ShapeElse ==
    ASSUME TypeOK, Working, KeyInv, MainSays, FileShape, NEW t \in Threads, ThreadStep(t), ~Crashed',
           ~FinishAdd(t), ~FinishSet(t)
    PROVE  FileShape'
  <1>1. ~CrashOnFreed(t)
    BY DEF CrashOnFreed, Crashed
  <1>2. UNCHANGED <<file, content, parsed, overrides, phase>>
    BY <1>1 DEF ThreadStep, BeginCall, FinishAsk, FinishInherit, FinishInfo, FinishListen, BeginLine, ShowConfigured,
                FindDefault, ShowDefault, AskConfig, EndLine, Return, Finish, pointers
  <1>3. ASSUME overrides # NULL, phase = "merge"
        PROVE  todo'[Main] = todo[Main]
    <2>1. CASE t = Main
      <3>1. ASSUME NEW kind, InCall(Main, kind) PROVE kind = "add"
        <4>1. todo[Main] # <<>> /\ Head(todo[Main]).kind = kind
          BY <3>1, MainInCall
        <4> QED BY <1>3, <4>1, EarlyCalls
      <3>2. ~FinishAsk(Main) /\ ~FinishInherit(Main) /\ ~FinishInfo(Main) /\ ~FinishListen(Main) /\ ~ShowConfigured(Main)
        BY <3>1 DEF FinishAsk, FinishInherit, FinishInfo, FinishListen, ShowConfigured
      <3>3. ~ShowDefault(Main)
        <4>1. ASSUME ShowDefault(Main) PROVE FALSE
          <5>1. todo[Main] # <<>> /\ Head(todo[Main]).kind = "log"
            BY <4>1, ThreadsDistinct DEF ShowDefault, Working, CallOK
          <5> QED BY <1>3, <5>1, EarlyCalls
        <4> QED BY <4>1
      <3>4. BeginCall(Main) \/ BeginLine(Main) \/ AskConfig(Main) \/ FindDefault(Main)
        BY <1>1, <2>1, <3>2, <3>3 DEF ThreadStep
      <3> QED BY <3>4 DEF BeginCall, BeginLine, AskConfig, FindDefault
    <2>2. CASE t # Main
      <3>1. ~(FinishAsk(t) \/ FinishInherit(t) \/ FinishListen(t))
        <4>1. ASSUME NEW kind \in {"ask", "inherit", "listen"}, InCall(t, kind)
              PROVE  FALSE
          BY <2>2, <4>1, InCallFacts, Callers
        <4> QED BY <4>1 DEF FinishAsk, FinishInherit, FinishListen
      <3>2. todo' = todo \/ todo' = [todo EXCEPT ![t] = <<>> \o Tail(todo[t])]
        BY <1>1, <3>1 DEF ThreadStep, BeginCall, FinishInfo, BeginLine, ShowConfigured, FindDefault, ShowDefault, AskConfig,
                          EndLine, Return
      <3> QED BY <2>2, <3>2, ThreadsDistinct DEF Working, TodoOK
    <2> QED BY <2>1, <2>2
  <1> QED BY <1>2, <1>3, ShapeKept

(* Main's steps between its calls.                                         *)
LEMMA ShapeStarts ==
    ASSUME TypeOK, Working, MainSays, FileShape, ~Crashed',
           \/ StartSocketThread \/ LoadFile \/ Merge \/ FreeDictionaries \/ LoadModules
           \/ NextSection \/ AddHost \/ HostFails
    PROVE  FileShape'
  <1>1. CASE StartSocketThread
    BY <1>1 DEF StartSocketThread, MainAt, FileShape, pointers, LatePhases
  <1>2. CASE LoadFile
    <2>1. CASE file = NULL
      BY <1>2, <2>1 DEF LoadFile, MainAt, FileShape
    <2>2. CASE file # NULL
      <3>1. phase = "load" /\ phase' = "merge" /\ UNCHANGED <<file, content, overrides>>
            /\ todo' = [todo EXCEPT ![Main] = [i \in DOMAIN file |-> Add(file[i])]]
        BY <1>2, <2>2 DEF LoadFile, MainAt, Calls, pointers
      <3>2. file \in Files \ {NULL}
        BY <2>2 DEF Working, PhaseOK
      <3>3. Len(todo'[Main]) = Len(file)
        <4>1. todo'[Main] = [i \in DOMAIN file |-> Add(file[i])]
          BY <3>1, ThreadsDistinct DEF Working, TodoOK
        <4>2. DOMAIN file = 1 .. Len(file) /\ Len(file) \in Nat
          BY <3>2, FileFacts
        <4>3. Len([i \in 1 .. Len(file) |-> Add(file[i])]) = Len(file)
          BY <4>2
        <4> QED BY <4>1, <4>2, <4>3
      <3>4. ~(Len(todo'[Main]) < Len(file'))
        <4>1. Len(file) \in Nat
          BY <3>2, FileFacts
        <4> QED BY <3>1, <3>3, <4>1
      <3> QED BY <3>1, <3>4 DEF FileShape, LatePhases
    <2> QED BY <2>1, <2>2
  <1>3. CASE Merge
    <2>1. phase = "merge" /\ phase' = "free" /\ overrides # NULL /\ content' = content
      BY <1>3 DEF Merge, MainAt, Crashed
    <2> QED BY <2>1 DEF FileShape
  <1>4. CASE FreeDictionaries
    BY <1>4 DEF FreeDictionaries, MainAt, FileShape
  <1>5. CASE LoadModules \/ NextSection \/ AddHost \/ HostFails
    <2>1. phase \in LatePhases /\ phase' \in LatePhases /\ file' = file
      BY <1>5 DEF LoadModules, NextSection, AddHost, HostFails, MainAt, LatePhases
    <2>2. content'[File] = content[File]
      <3>1. content' = content \/ content' = [content EXCEPT ![Section] = <<>>]
        BY <1>5 DEF LoadModules, NextSection, AddHost, HostFails
      <3>2. content \in [Dicts -> Seq(Entries)]
        BY DEF TypeOK
      <3> QED BY <3>1, <3>2, DictsDistinct
    <2> QED BY <2>1, <2>2 DEF FileShape, LatePhases
  <1> QED BY <1>1, <1>2, <1>3, <1>4, <1>5

(* Every step leaves the shape of the file's dictionary.                   *)
LEMMA ShapeStep ==
    ASSUME SettingsVisible, SimpleNames, TypeOK, Working, KeyInv, MainSays, FileShape, [Next]_vars, ~Crashed'
    PROVE  FileShape'
  <1>1. CASE UNCHANGED vars
    <2>1. UNCHANGED <<file, content, parsed, overrides, phase, todo>>
      BY <1>1 DEF vars, pointers
    <2> QED BY <2>1, ShapeKept
  <1>2. ASSUME NEW t \in Threads, ThreadStep(t)
        PROVE  FileShape'
    <2>1. ASSUME NEW kind \in {"add", "set"}, InCall(t, kind)
          PROVE  t = Main
      BY <2>1, InCallFacts, Callers
    <2>2. CASE FinishAdd(t)
      <3>1. t = Main
        BY <2>1, <2>2 DEF FinishAdd
      <3> QED BY <2>2, <3>1, ShapeAdds
    <2>3. CASE FinishSet(t)
      <3>1. t = Main
        BY <2>1, <2>3 DEF FinishSet
      <3> QED BY <2>3, <3>1, ShapeSets
    <2> QED BY <1>2, <2>2, <2>3, ShapeElse
  <1> QED BY <1>1, <1>2, ShapeStarts DEF Next

(* The names of the settings that every host has.                          *)
LEMMA FieldNames ==
    /\ "name" \in KeyNames /\ "instance" \in KeyNames /\ "cluster" \in KeyNames
    /\ \A k \in KeyNames : Folded(<<k>>) = <<k>> /\ <<k>> \in Text
  <1>1. /\ "name" \in Names /\ "instance" \in Names /\ "cluster" \in Names
        /\ Lower["name"] = "name" /\ Lower["instance"] = "instance" /\ Lower["cluster"] = "cluster"
    BY NamesAssumption DEF OwnNames, Fields
  <1>2. \A k \in KeyNames : k \in Names /\ Lower[k] = k
    BY NamesAssumption DEF KeyNames
  <1>3. ASSUME NEW k \in Names, Lower[k] = k PROVE Folded(<<k>>) = <<k>> /\ <<k>> \in Text
    BY <1>3 DEF Folded, Text
  <1> QED BY <1>1, <1>2, <1>3 DEF KeyNames

(* One key of a dictionary is set.                                         *)
LEMMA MeansSet ==
    ASSUME NEW entries \in Seq(Entries), NEW n \in KeyNames, NEW v \in Vals, NEW own, DOMAIN own = KeyNames,
           Means(entries, own)
    PROVE  Means(Replaced(entries, <<n>>, v), [own EXCEPT ![n] = v])
  <1> DEFINE r == Replaced(entries, <<n>>, v)
  <1>1. <<n>> \in Text
    BY FieldNames
  <1>2. (\A j : j # <<n>> => Get(r, j, NULL) = Get(entries, j, NULL)) /\ Get(r, <<n>>, NULL) = v
    BY <1>1, GetReplaced
  <1> HIDE DEF r
  <1>3. ASSUME NEW k \in KeyNames PROVE Get(r, <<k>>, NULL) = [own EXCEPT ![n] = v][k]
    <2>1. CASE k = n
      BY <1>2, <2>1
    <2>2. CASE k # n
      <3>1. <<k>> # <<n>>
        BY <2>2
      <3>2. Get(r, <<k>>, NULL) = own[k]
        BY <1>2, <3>1 DEF Means
      <3> QED BY <2>2, <3>2
    <2> QED BY <2>1, <2>2
  <1> QED BY <1>3 DEF Means, r

(* The calls that prepare a host, apart from those of its own lines.       *)
LEMMA PreparedCalls ==
    /\ Log.kind = "log"
    /\ \A s : /\ SetName(s).kind = "set" /\ SetName(s).dict = Section
               /\ SetName(s).key = <<"name">> /\ SetName(s).val = Tail(s)
    /\ \A k, v : /\ Set(Section, k, v).kind = "set" /\ Set(Section, k, v).dict = Section
                  /\ Set(Section, k, v).key = k /\ Set(Section, k, v).val = v
    /\ AskOwnInstance.kind = "ask" /\ AskOwnInstance.dict = Section /\ AskOwnInstance.key = <<"instance">>
    /\ AskOwnInstance.then = <<>> /\ AskOwnInstance.otherwise = <<InheritInstance>>
    /\ AskOwnCluster.kind = "ask" /\ AskOwnCluster.dict = Section /\ AskOwnCluster.key = <<"cluster">>
    /\ AskOwnCluster.then = <<>> /\ AskOwnCluster.otherwise = <<InheritCluster>>
    /\ InheritInstance.kind = "inherit" /\ InheritInstance.key = Instance
    /\ InheritInstance.into = Section /\ InheritInstance.name = <<"instance">>
    /\ InheritCluster.kind = "inherit" /\ InheritCluster.key = Cluster
    /\ InheritCluster.into = Section /\ InheritCluster.name = <<"cluster">>
  BY DEF Log, SetName, Set, AskOwnInstance, AskOwnCluster, Ask, InheritInstance, InheritCluster, Inherit

(* The first of four calls.                                                *)
LEMMA FourCalls ==
    ASSUME NEW a, NEW b, NEW c, NEW d
    PROVE  Head(<<a, b, c, d>>) = a /\ Tail(<<a, b, c, d>>) = <<b, c, d>> /\ <<a, b, c, d>> # <<>>
  OBVIOUS

(* The own calls of a section, and the others behind them.                 *)
LEMMA OwnFirst ==
    ASSUME NEW S, NEW sets \in Seq(S), NEW T, NEW more \in Seq(T)
    PROVE  /\ sets = <<>> => sets \o more = more
           /\ sets # <<>> => /\ Head(sets \o more) = Head(sets) /\ Tail(sets \o more) = Tail(sets) \o more
                             /\ Head(sets) \in S /\ Tail(sets) \in Seq(S)
  <1> DEFINE U == S \cup T
  <1>1. sets \in Seq(U) /\ more \in Seq(U)
    BY SeqMonotone
  <1>2. sets # <<>> => Head(sets) \in S /\ Tail(sets) \in Seq(S)
    OBVIOUS
  <1> HIDE DEF U
  <1>3. sets = <<>> => sets \o more = more
    BY <1>1
  <1>4. ASSUME sets # <<>>
        PROVE  Head(sets \o more) = Head(sets) /\ Tail(sets \o more) = Tail(sets) \o more
    <2>1. Head(sets \o more) = Head(sets)
      BY <1>1, <1>4
    <2>2. Tail(sets \o more) = Tail(sets) \o more
      BY <1>1, <1>4
    <2> QED BY <2>1, <2>2
  <1> QED BY <1>2, <1>3, <1>4

(* What GivenTo and AllOf add.                                             *)
LEMMA GivenFacts ==
    ASSUME NEW own, DOMAIN own = KeyNames, NEW s, NEW i
    PROVE  /\ DOMAIN NamedAs(own, s) = KeyNames /\ DOMAIN GivenTo(own, s, i) = KeyNames
           /\ NamedAs(own, s)["instance"] = own["instance"]
           /\ GivenTo(own, s, i)["cluster"] = own["cluster"]
  <1>1. "instance" # "name" /\ "cluster" # "name" /\ "cluster" # "instance"
    OBVIOUS
  <1>2. "name" \in KeyNames /\ "instance" \in KeyNames /\ "cluster" \in KeyNames
    BY FieldNames
  <1>3. DOMAIN NamedAs(own, s) = KeyNames /\ DOMAIN GivenTo(own, s, i) = KeyNames
    BY DEF NamedAs, GivenTo
  <1>4. NamedAs(own, s)["instance"] = own["instance"] /\ NamedAs(own, s)["cluster"] = own["cluster"]
    BY <1>1, <1>2 DEF NamedAs
  <1>5. GivenTo(own, s, i)["cluster"] = NamedAs(own, s)["cluster"]
    BY <1>1, <1>2, <1>3 DEF GivenTo
  <1> QED BY <1>3, <1>4, <1>5

(* One call before another.                                                *)
LEMMA TwoCalls == \A a, b : <<a>> \o <<b>> = <<a, b>>
  BY ShortLists, Zenon

(* A log line among the calls that prepare a host.                         *)
LEMMA PreparedLog ==
    ASSUME NEW calls, NEW entries, NEW own, NEW s, NEW i, NEW c, Prepared(calls, entries, own, s, i, c),
           calls # <<>>, Head(calls).kind = "log"
    PROVE  Prepared(Tail(calls), entries, own, s, i, c)
  <1> DEFINE rest == <<Log, SetName(s), AskOwnInstance, AskOwnCluster>>
  <1> USE PreparedCalls
  <1>1. /\ calls # <<SetName(s), AskOwnInstance, AskOwnCluster>>
        /\ calls # <<AskOwnInstance, AskOwnCluster>>
        /\ calls # <<InheritInstance, AskOwnCluster>> /\ calls # <<Set(Section, <<"instance">>, i), AskOwnCluster>>
        /\ calls # <<AskOwnCluster>> /\ calls # <<InheritCluster>> /\ calls # <<Set(Section, <<"cluster">>, c)>>
    BY ShortLists
  <1>2. PICK sets \in Seq(SetCalls({Section})) :
          calls = sets \o rest /\ \A k \in KeyNames : FinalSays(sets, Section, entries, <<k>>, own[k])
    BY <1>1 DEF Prepared
  <1>3. rest \in Seq({Log, SetName(s), AskOwnInstance, AskOwnCluster})
    OBVIOUS
  <1>4. sets = <<>>
    <2> HIDE DEF rest
    <2>1. ASSUME sets # <<>> PROVE FALSE
      <3>1. Head(calls) \in SetCalls({Section})
        BY <1>2, <1>3, <2>1, OwnFirst
      <3> QED BY <3>1 DEF SetCalls
    <2> QED BY <2>1
  <1>5. calls = rest
    <2> HIDE DEF rest
    <2> QED BY <1>2, <1>3, <1>4, OwnFirst
  <1>6. Tail(calls) = <<SetName(s), AskOwnInstance, AskOwnCluster>>
    BY <1>5, FourCalls
  <1>7. Means(entries, own)
    <2> SUFFICES ASSUME NEW k \in KeyNames PROVE Get(entries, <<k>>, NULL) = own[k]
      BY DEF Means
    <2>1. FinalSays(<<>>, Section, entries, <<k>>, own[k])
      BY <1>2, <1>4
    <2>2. DOMAIN <<>> = {}
      OBVIOUS
    <2> QED BY <2>1, <2>2 DEF FinalSays
  <1> QED BY <1>6, <1>7 DEF Prepared

(* A setting is set that the section gives or that it inherits.            *)
LEMMA PreparedSet ==
    ASSUME NEW calls, NEW entries \in Seq(Entries), NEW own, DOMAIN own = KeyNames, NEW s, NEW i, NEW c,
           Prepared(calls, entries, own, s, i, c),
           calls # <<>>, Head(calls).kind = "set", Head(calls).key \in Text, Head(calls).val \in Vals
    PROVE  /\ Head(calls).dict = Section
           /\ Prepared(Tail(calls), Replaced(entries, Folded(Head(calls).key), Head(calls).val), own, s, i, c)
  <1> DEFINE call == Head(calls)
             r == Replaced(entries, Folded(call.key), call.val)
             rest == <<Log, SetName(s), AskOwnInstance, AskOwnCluster>>
  <1> USE PreparedCalls
  <1>1. /\ calls # <<AskOwnInstance, AskOwnCluster>> /\ calls # <<InheritInstance, AskOwnCluster>>
        /\ calls # <<AskOwnCluster>> /\ calls # <<InheritCluster>>
    BY ShortLists
  <1>2. CASE \E sets \in Seq(SetCalls({Section})) :
                calls = sets \o rest /\ \A k \in KeyNames : FinalSays(sets, Section, entries, <<k>>, own[k])
    <2>1. PICK sets \in Seq(SetCalls({Section})) :
            calls = sets \o rest /\ \A k \in KeyNames : FinalSays(sets, Section, entries, <<k>>, own[k])
      BY <1>2
    <2>2. rest \in Seq({Log, SetName(s), AskOwnInstance, AskOwnCluster}) /\ Head(rest).kind = "log"
      BY FourCalls
    <2>3. sets # <<>>
      <3> HIDE DEF rest
      <3>1. ASSUME sets = <<>> PROVE FALSE
        <4>1. calls = rest
          BY <2>1, <2>2, <3>1, OwnFirst
        <4> QED BY <2>2, <4>1
      <3> QED BY <3>1
    <2>4. /\ call = Head(sets) /\ Tail(calls) = Tail(sets) \o rest
          /\ call \in SetCalls({Section}) /\ Tail(sets) \in Seq(SetCalls({Section}))
      <3> HIDE DEF rest
      <3> QED BY <2>1, <2>2, <2>3, OwnFirst
    <2>5. call.dict = Section
      BY <2>4 DEF SetCalls
    <2>6. \A k \in KeyNames : FinalSays(Tail(sets), Section, r, <<k>>, own[k])
      <3> TAKE k \in KeyNames
      <3>1. FinalSays(sets, Section, entries, <<k>>, own[k])
        BY <2>1
      <3> QED BY <2>3, <2>4, <2>5, <3>1, FinalPop
    <2> HIDE DEF call, r, rest
    <2>7. Prepared(Tail(calls), r, own, s, i, c)
      BY <2>4, <2>6 DEF Prepared, rest
    <2> QED BY <2>5, <2>7 DEF call, r
  <1>3. CASE calls = <<SetName(s), AskOwnInstance, AskOwnCluster>> /\ Means(entries, own)
    <2>1. /\ call = SetName(s) /\ Tail(calls) = <<AskOwnInstance, AskOwnCluster>>
          /\ Folded(<<"name">>) = <<"name">> /\ "name" \in KeyNames
      BY <1>3, ShortLists, FieldNames
    <2>4. call.key = <<"name">> /\ call.val = Tail(s)
      BY <2>1 DEF SetName, Set
    <2>5. Tail(s) \in Vals
      BY <2>4
    <2>2. r = Replaced(entries, <<"name">>, Tail(s)) /\ Tail(s) \in Vals
      BY <2>1, <2>4, <2>5
    <2> HIDE DEF r
    <2>3. Means(r, NamedAs(own, s))
      BY <1>3, <2>1, <2>2, MeansSet DEF NamedAs
    <2>6. Prepared(Tail(calls), r, own, s, i, c)
      BY <2>1, <2>3 DEF Prepared
    <2> QED BY <2>1, <2>6 DEF r
  <1>4. CASE /\ calls = <<Set(Section, <<"instance">>, i), AskOwnCluster>>
             /\ own["instance"] = NULL /\ Means(entries, NamedAs(own, s))
    <2>1. /\ call = Set(Section, <<"instance">>, i) /\ Tail(calls) = <<AskOwnCluster>>
          /\ Folded(<<"instance">>) = <<"instance">> /\ "instance" \in KeyNames
      BY <1>4, ShortLists, FieldNames
    <2>2. r = Replaced(entries, <<"instance">>, i) /\ i \in Vals
      BY <2>1
    <2>3. Means(r, GivenTo(own, s, i))
      BY <1>4, <2>1, <2>2, GivenFacts, MeansSet DEF GivenTo
    <2> QED BY <2>1, <2>3 DEF Prepared
  <1>5. CASE /\ calls = <<Set(Section, <<"cluster">>, c)>>
             /\ own["cluster"] = NULL /\ Means(entries, GivenTo(own, s, i))
    <2>1. /\ call = Set(Section, <<"cluster">>, c) /\ Tail(calls) = <<>>
          /\ Folded(<<"cluster">>) = <<"cluster">> /\ "cluster" \in KeyNames
      BY <1>5, ShortLists, FieldNames
    <2>2. r = Replaced(entries, <<"cluster">>, c) /\ c \in Vals
      BY <2>1
    <2>3. Means(r, AllOf(own, s, i, c))
      BY <1>5, <2>1, <2>2, GivenFacts, MeansSet DEF AllOf
    <2> QED BY <2>1, <2>3 DEF Prepared
  <1> QED BY <1>1, <1>2, <1>3, <1>4, <1>5 DEF Prepared

(* The section is asked whether it says where it runs, and inherits it     *)
(* where it does not.                                                      *)
LEMMA PreparedAsk ==
    ASSUME NEW calls, NEW entries, NEW own, DOMAIN own = KeyNames, NEW s, NEW i, NEW c,
           Prepared(calls, entries, own, s, i, c),
           calls # <<>>, Head(calls).kind = "ask"
    PROVE  /\ Head(calls).dict = Section
           /\ Prepared((IF Get(entries, Folded(Head(calls).key), NULL) = NULL THEN Head(calls).otherwise ELSE Head(calls).then)
                          \o Tail(calls), entries, own, s, i, c)
  <1> DEFINE call == Head(calls)
             more == IF Get(entries, Folded(call.key), NULL) = NULL THEN call.otherwise ELSE call.then
             rest == <<Log, SetName(s), AskOwnInstance, AskOwnCluster>>
  <1> USE PreparedCalls
  <1>1. /\ calls # <<SetName(s), AskOwnInstance, AskOwnCluster>>
        /\ calls # <<InheritInstance, AskOwnCluster>> /\ calls # <<Set(Section, <<"instance">>, i), AskOwnCluster>>
        /\ calls # <<InheritCluster>> /\ calls # <<Set(Section, <<"cluster">>, c)>>
    BY ShortLists
  <1>2. ASSUME NEW sets \in Seq(SetCalls({Section})) PROVE calls # sets \o rest
    <2>1. rest \in Seq({Log, SetName(s), AskOwnInstance, AskOwnCluster}) /\ Head(rest).kind = "log"
      BY FourCalls
    <2> HIDE DEF rest
    <2>2. CASE sets = <<>>
      BY <2>1, <2>2, OwnFirst
    <2>3. CASE sets # <<>>
      <3>1. ASSUME calls = sets \o rest PROVE FALSE
        <4>1. Head(calls) \in SetCalls({Section})
          BY <2>1, <2>3, <3>1, OwnFirst
        <4> QED BY <4>1 DEF SetCalls
      <3> QED BY <3>1
    <2> QED BY <2>2, <2>3
  <1>3. CASE calls = <<AskOwnInstance, AskOwnCluster>> /\ Means(entries, NamedAs(own, s))
    <2>1. /\ call = AskOwnInstance /\ Tail(calls) = <<AskOwnCluster>>
          /\ Folded(<<"instance">>) = <<"instance">> /\ "instance" \in KeyNames
      BY <1>3, ShortLists, FieldNames
    <2>5. /\ call.key = <<"instance">> /\ call.then = <<>>
          /\ call.otherwise = <<InheritInstance>>
      BY <2>1 DEF AskOwnInstance, Ask
    <2>6. Get(entries, <<"instance">>, NULL) = NamedAs(own, s)["instance"]
      BY <1>3, <2>1 DEF Means
    <2>2. Get(entries, Folded(call.key), NULL) = own["instance"]
      BY <2>1, <2>5, <2>6, GivenFacts
    <2>3. CASE own["instance"] = NULL
      <3>4. more = <<InheritInstance>>
        BY <2>2, <2>3, <2>5
      <3> HIDE DEF more, call
      <3>5. <<InheritInstance>> \o <<AskOwnCluster>> = <<InheritInstance, AskOwnCluster>>
        BY TwoCalls
      <3>1. more \o Tail(calls) = <<InheritInstance, AskOwnCluster>>
        BY <2>1, <3>4, <3>5
      <3>2. Prepared(<<InheritInstance, AskOwnCluster>>, entries, own, s, i, c)
        BY <1>3, <2>3 DEF Prepared
      <3> QED BY <2>1, <3>1, <3>2 DEF more, call
    <2>4. CASE own["instance"] # NULL
      <3>1. more \o Tail(calls) = <<AskOwnCluster>>
        BY <2>1, <2>2, <2>4, ShortLists
      <3>2. GivenTo(own, s, i) = NamedAs(own, s)
        BY <2>4 DEF GivenTo
      <3>3. Prepared(<<AskOwnCluster>>, entries, own, s, i, c)
        BY <1>3, <3>2 DEF Prepared
      <3> QED BY <2>1, <3>1, <3>3
    <2> QED BY <2>3, <2>4
  <1>4. CASE calls = <<AskOwnCluster>> /\ Means(entries, GivenTo(own, s, i))
    <2>1. /\ call = AskOwnCluster /\ Tail(calls) = <<>>
          /\ Folded(<<"cluster">>) = <<"cluster">> /\ "cluster" \in KeyNames
      BY <1>4, ShortLists, FieldNames
    <2>5. /\ call.key = <<"cluster">> /\ call.then = <<>>
          /\ call.otherwise = <<InheritCluster>>
      BY <2>1 DEF AskOwnCluster, Ask
    <2>6. Get(entries, <<"cluster">>, NULL) = GivenTo(own, s, i)["cluster"]
      BY <1>4, <2>1 DEF Means
    <2>7. GivenTo(own, s, i)["cluster"] = own["cluster"]
      BY GivenFacts
    <2>2. Get(entries, Folded(call.key), NULL) = own["cluster"]
      BY <2>1, <2>5, <2>6, <2>7
    <2>3. CASE own["cluster"] = NULL
      <3>1. more \o Tail(calls) = <<InheritCluster>>
        BY <2>1, <2>2, <2>3, ShortLists
      <3>2. Prepared(<<InheritCluster>>, entries, own, s, i, c)
        BY <1>4, <2>3 DEF Prepared
      <3> QED BY <2>1, <3>1, <3>2
    <2>4. CASE own["cluster"] # NULL
      <3>1. more \o Tail(calls) = <<>>
        BY <2>1, <2>2, <2>4, ShortLists
      <3>2. AllOf(own, s, i, c) = GivenTo(own, s, i)
        BY <2>4 DEF AllOf
      <3>3. Prepared(<<>>, entries, own, s, i, c)
        BY <1>4, <3>2 DEF Prepared
      <3> QED BY <2>1, <3>1, <3>3
    <2> QED BY <2>3, <2>4
  <1> QED BY <1>1, <1>2, <1>3, <1>4 DEF Prepared

(* What it inherits is what the configuration says.                        *)
LEMMA PreparedInherit ==
    ASSUME NEW calls, NEW entries, NEW own, NEW s, NEW i, NEW c, Prepared(calls, entries, own, s, i, c),
           calls # <<>>, Head(calls).kind = "inherit"
    PROVE  /\ Head(calls).into = Section /\ Head(calls).key \in {Instance, Cluster}
           /\ LET v == IF Head(calls).key = Instance THEN i ELSE c
              IN  Prepared(<<Set(Head(calls).into, Head(calls).name, v)>> \o Tail(calls), entries, own, s, i, c)
  <1> DEFINE rest == <<Log, SetName(s), AskOwnInstance, AskOwnCluster>>
  <1> USE PreparedCalls
  <1>1. /\ calls # <<SetName(s), AskOwnInstance, AskOwnCluster>>
        /\ calls # <<AskOwnInstance, AskOwnCluster>> /\ calls # <<Set(Section, <<"instance">>, i), AskOwnCluster>>
        /\ calls # <<AskOwnCluster>> /\ calls # <<Set(Section, <<"cluster">>, c)>>
    BY ShortLists
  <1>2. ASSUME NEW sets \in Seq(SetCalls({Section})) PROVE calls # sets \o rest
    <2>1. rest \in Seq({Log, SetName(s), AskOwnInstance, AskOwnCluster}) /\ Head(rest).kind = "log"
      BY FourCalls
    <2> HIDE DEF rest
    <2>2. CASE sets = <<>>
      BY <2>1, <2>2, OwnFirst
    <2>3. CASE sets # <<>>
      <3>1. ASSUME calls = sets \o rest PROVE FALSE
        <4>1. Head(calls) \in SetCalls({Section})
          BY <2>1, <2>3, <3>1, OwnFirst
        <4> QED BY <4>1 DEF SetCalls
      <3> QED BY <3>1
    <2> QED BY <2>2, <2>3
  <1>3. CASE /\ calls = <<InheritInstance, AskOwnCluster>>
             /\ own["instance"] = NULL /\ Means(entries, NamedAs(own, s))
    <2>1. Head(calls) = InheritInstance /\ Tail(calls) = <<AskOwnCluster>>
      BY <1>3, ShortLists
    <2>4. <<Set(Section, <<"instance">>, i)>> \o <<AskOwnCluster>> = <<Set(Section, <<"instance">>, i), AskOwnCluster>>
      BY TwoCalls
    <2>2. <<Set(Section, <<"instance">>, i)>> \o Tail(calls) = <<Set(Section, <<"instance">>, i), AskOwnCluster>>
      BY <2>1, <2>4
    <2>3. Prepared(<<Set(Section, <<"instance">>, i), AskOwnCluster>>, entries, own, s, i, c)
      BY <1>3 DEF Prepared
    <2> QED BY <2>1, <2>2, <2>3
  <1>4. CASE calls = <<InheritCluster>> /\ own["cluster"] = NULL /\ Means(entries, GivenTo(own, s, i))
    <2>1. Head(calls) = InheritCluster /\ Tail(calls) = <<>>
      BY <1>4, ShortLists
    <2>2. <<Set(Section, <<"cluster">>, c)>> \o Tail(calls) = <<Set(Section, <<"cluster">>, c)>>
      BY <2>1, ShortLists
    <2>3. Prepared(<<Set(Section, <<"cluster">>, c)>>, entries, own, s, i, c)
      BY <1>4 DEF Prepared
    <2> QED BY <2>1, <2>2, <2>3, OwnKeysFolded
  <1> QED BY <1>1, <1>2, <1>3, <1>4 DEF Prepared

(* It makes no other calls.                                                *)
LEMMA PreparedKinds ==
    ASSUME NEW calls, NEW entries, NEW own, NEW s, NEW i, NEW c, Prepared(calls, entries, own, s, i, c), calls # <<>>
    PROVE  Head(calls).kind \in {"set", "log", "ask", "inherit"}
  <1> DEFINE rest == <<Log, SetName(s), AskOwnInstance, AskOwnCluster>>
  <1> USE PreparedCalls
  <1>1. ASSUME NEW sets \in Seq(SetCalls({Section})), calls = sets \o rest
        PROVE  Head(calls).kind \in {"set", "log"}
    <2>1. rest \in Seq({Log, SetName(s), AskOwnInstance, AskOwnCluster}) /\ Head(rest).kind = "log"
      BY FourCalls
    <2> HIDE DEF rest
    <2>2. CASE sets = <<>>
      BY <1>1, <2>1, <2>2, OwnFirst
    <2>3. CASE sets # <<>>
      <3>1. Head(calls) \in SetCalls({Section})
        BY <1>1, <2>1, <2>3, OwnFirst
      <3> QED BY <3>1 DEF SetCalls
    <2> QED BY <2>2, <2>3
  <1>2. CASE \/ calls = <<SetName(s), AskOwnInstance, AskOwnCluster>> \/ calls = <<AskOwnInstance, AskOwnCluster>>
             \/ calls = <<InheritInstance, AskOwnCluster>> \/ calls = <<Set(Section, <<"instance">>, i), AskOwnCluster>>
    BY <1>2, ShortLists
  <1>3. CASE \/ calls = <<AskOwnCluster>> \/ calls = <<InheritCluster>> \/ calls = <<Set(Section, <<"cluster">>, c)>>
    BY <1>3, ShortLists
  <1> QED BY <1>1, <1>2, <1>3 DEF Prepared

(* What leaves the hosts as they are.                                      *)
LEMMA HostKept ==
    ASSUME NEW n, HostSo(n), UNCHANGED <<file, hosts>>, content'[HostDict(n)] = content[HostDict(n)],
           todo'[Main] = todo[Main]
    PROVE  HostSo(n)'
  BY DEF HostSo

(* And the section.                                                        *)
LEMMA SectionKept ==
    ASSUME SectionSo, UNCHANGED <<file, phase, section>>, content'[File] = content[File],
           content'[Section] = content[Section], todo'[Main] = todo[Main]
    PROVE  SectionSo'
  BY DEF SectionSo

(* The steps of the other threads, and the start of a call.                *)
LEMMA HostsOthers ==
    ASSUME Working, FilePresent, SectionSo, HostsSo, UNCHANGED <<file, content, phase, section, hosts>>,
           todo'[Main] = todo[Main]
    PROVE  FilePresent' /\ SectionSo' /\ HostsSo'
  <1>1. FilePresent'
    BY DEF FilePresent
  <1>2. SectionSo'
    BY SectionKept
  <1>3. HostsSo'
    <2> SUFFICES ASSUME NEW n \in 1 .. MaxHosts PROVE HostSo(n)'
      BY DEF HostsSo
    <2> QED BY HostKept DEF HostsSo
  <1> QED BY <1>1, <1>2, <1>3

(* The steps of the other threads concern no host's dictionary.            *)
LEMMA OthersLeave ==
    ASSUME TypeOK, Working, NEW t \in Threads, ThreadStep(t), ~Crashed',
           \/ t # Main
           \/ BeginCall(t) \/ BeginLine(t) \/ AskConfig(t) \/ FindDefault(t)
    PROVE  UNCHANGED <<file, content, phase, section, hosts>> /\ todo'[Main] = todo[Main]
  <1>1. CASE BeginCall(t) \/ BeginLine(t) \/ AskConfig(t) \/ FindDefault(t)
    BY <1>1 DEF BeginCall, BeginLine, AskConfig, FindDefault, results
  <1>2. CASE t # Main
    <2>1. ~(FinishAdd(t) \/ FinishSet(t) \/ FinishAsk(t) \/ FinishInherit(t) \/ FinishListen(t))
      <3>1. ASSUME NEW kind \in {"add", "set", "ask", "inherit", "listen"}, InCall(t, kind)
            PROVE  FALSE
        BY <1>2, <3>1, InCallFacts, Callers
      <3> QED BY <3>1 DEF FinishAdd, FinishSet, FinishAsk, FinishInherit, FinishListen
    <2>2. ~CrashOnFreed(t)
      BY DEF CrashOnFreed, Crashed
    <2>3. UNCHANGED <<file, content, phase, section, hosts>>
      BY <2>1, <2>2 DEF ThreadStep, BeginCall, FinishInfo, BeginLine, ShowConfigured, FindDefault, ShowDefault, AskConfig,
                        EndLine, Return, Finish, results
    <2>4. todo' = todo \/ todo' = [todo EXCEPT ![t] = <<>> \o Tail(todo[t])]
      BY <2>1, <2>2 DEF ThreadStep, BeginCall, FinishInfo, BeginLine, ShowConfigured, FindDefault, ShowDefault, AskConfig,
                        EndLine, Return
    <2>5. todo'[Main] = todo[Main]
      BY <1>2, <2>4, ThreadsDistinct DEF Working, TodoOK
    <2> QED BY <2>3, <2>5
  <1> QED BY <1>1, <1>2

(* Main makes a call that does not set a key of the host's dictionary.     *)
LEMMA HostPops ==
    ASSUME Working, todo[Main] # <<>>, NEW n \in 1 .. MaxHosts, HostSo(n),
           NEW more \in Seq(AllCalls), NoSet(more, HostDict(n)),
           Head(todo[Main]).kind = "set" => Head(todo[Main]).dict # HostDict(n),
           UNCHANGED <<file, hosts>>, content'[HostDict(n)] = content[HostDict(n)],
           todo'[Main] = more \o Tail(todo[Main])
    PROVE  HostSo(n)'
  <1> DEFINE d == HostDict(n)
             calls == todo[Main]
  <1>1. calls \in Seq(AllCalls)
    BY HeadTyped, ThreadsDistinct
  <1>2. CASE n > Len(hosts)
    <2>1. content[d] = <<>> /\ NoSet(calls, d)
      BY <1>2 DEF HostSo
    <2>2. NoSet(more \o Tail(calls), d)
      <3> HIDE DEF d, calls
      <3>1. ASSUME NEW i \in DOMAIN (more \o Tail(calls)), (more \o Tail(calls))[i].kind = "set"
            PROVE  (more \o Tail(calls))[i].dict # d
        BY <1>1, <2>1, <3>1, Splice DEF NoSet, calls, d
      <3> QED BY <3>1 DEF NoSet
    <2> QED BY <1>2, <2>1, <2>2 DEF HostSo
  <1>3. CASE ~(n > Len(hosts))
    <2>1. ASSUME NEW k \in KeyNames
          PROVE  FinalSays(more \o Tail(calls), d, content[d], <<k>>, HostMeans(file, hosts[n])[k])
      <3>1. FinalSays(calls, d, content[d], <<k>>, HostMeans(file, hosts[n])[k])
        BY <1>3 DEF HostSo
      <3> HIDE DEF d, calls
      <3> QED BY <1>1, <3>1, FinalSkip DEF d, calls
    <2> QED BY <1>3, <2>1 DEF HostSo
  <1> QED BY <1>2, <1>3

(* Main sets a key of the host's dictionary.                               *)
LEMMA HostSets ==
    ASSUME TypeOK, Working, todo[Main] # <<>>, NEW n \in 1 .. MaxHosts, HostSo(n),
           Head(todo[Main]).kind = "set", Head(todo[Main]).dict = HostDict(n),
           UNCHANGED <<file, hosts>>, todo'[Main] = Tail(todo[Main]),
           content'[HostDict(n)] = Replaced(content[HostDict(n)], Folded(Head(todo[Main]).key), Head(todo[Main]).val)
    PROVE  HostSo(n)'
  <1> DEFINE d == HostDict(n)
             calls == todo[Main]
             entries == content[d]
  <1>1. /\ calls \in Seq(AllCalls) /\ Head(calls) = calls[1] /\ 1 \in DOMAIN calls
        /\ Head(calls).key \in Text /\ Head(calls).val \in Vals
    BY HeadTyped, KindFacts, ThreadsDistinct
  <1>2. entries \in Seq(Entries)
    BY DictsDistinct DEF TypeOK
  <1>3. ~(n > Len(hosts))
    BY <1>1 DEF HostSo, NoSet
  <1>4. ASSUME NEW k \in KeyNames
        PROVE  FinalSays(Tail(calls), d, Replaced(entries, Folded(Head(calls).key), Head(calls).val), <<k>>,
                         HostMeans(file, hosts[n])[k])
    <2>1. FinalSays(calls, d, entries, <<k>>, HostMeans(file, hosts[n])[k])
      BY <1>3 DEF HostSo
    <2>2. Head(calls).kind = "set" /\ Head(calls).dict = d /\ calls # <<>>
      OBVIOUS
    <2> HIDE DEF d, calls, entries
    <2> QED BY <1>1, <1>2, <2>1, <2>2, FinalPop
  <1> QED BY <1>3, <1>4 DEF HostSo

(* Main sets a key: of the section's dictionary while it prepares the host,*)
(* and of a host's in host_add.                                            *)
LEMMA SetHosts ==
    ASSUME TypeOK, Working, KeyInv, FilePresent, SectionSo, HostsSo, FinishSet(Main)
    PROVE  FilePresent' /\ SectionSo' /\ HostsSo'
  <1> DEFINE call == Head(todo[Main])
             d == at[Main]
             key == Folded(call.key)
  <1>1. InCall(Main, "set") /\ Return(Main, <<>>)
    BY DEF FinishSet
  <1>2. /\ todo[Main] # <<>> /\ call.kind = "set" /\ call \in MainCalls(phase) /\ call \in AllCalls /\ buffer = key
        /\ d = call.dict /\ call.val \in Vals /\ call.key \in Text /\ key \in Text
    BY <1>1, MainInCall, KindFacts, FoldedTyped
  <1>3. UNCHANGED <<file, phase, section, hosts>> /\ todo'[Main] = <<>> \o Tail(todo[Main])
    <2>1. UNCHANGED <<section, hosts>>
      BY <1>1 DEF Return, Finish, results
    <2> QED BY <1>1, <2>1, MainReturnsList
  <1>4. todo'[Main] = Tail(todo[Main]) /\ todo[Main] \in Seq(AllCalls)
    <2>1. todo[Main] \in Seq(AllCalls)
      BY <1>2, HeadTyped, ThreadsDistinct
    <2> QED BY <1>2, <1>3, <2>1, NothingMore
  <1>5. /\ d = NULL => content' = content
        /\ d # NULL => /\ content'[d] = Replaced(content[d], key, call.val)
                       /\ \A e \in Dicts \ {d} : content'[e] = content[e]
    <2>1. content \in [Dicts -> Seq(Entries)] /\ d \in Dicts \cup {NULL}
      BY ThreadsDistinct DEF TypeOK
    <2>2. content' = IF d = NULL THEN content ELSE [content EXCEPT ![d] = Replaced(content[d], key, call.val)]
      BY <1>2 DEF FinishSet
    <2> HIDE DEF d, call, key
    <2> QED BY <2>1, <2>2
  <1>6. FilePresent'
    BY <1>3 DEF FilePresent
  <1>7. SectionSo'
    <2> SUFFICES ASSUME phase = "host" PROVE SectionSo'
      BY <1>3 DEF SectionSo
    <2> DEFINE s == content[File][section].key
               own == OwnOf(file, s)
               i == Says(file, Instance, Hostname)
               c == Says(file, Cluster, Private)
               entries == content[Section]
    <2>1. IsContainer(content[File][section]) /\ Neat(entries) /\ Prepared(todo[Main], entries, own, s, i, c)
      BY DEF SectionSo
    <2>2. entries \in Seq(Entries) /\ DOMAIN own = KeyNames
      BY DictsDistinct DEF TypeOK, OwnOf
    <2>3. d = Section /\ Prepared(Tail(todo[Main]), Replaced(entries, key, call.val), own, s, i, c)
      <3> HIDE DEF s, own, i, c, entries, d
      <3> QED BY <1>2, <2>1, <2>2, PreparedSet
    <2>4. content'[Section] = Replaced(entries, key, call.val) /\ content'[File] = content[File]
      BY <1>5, <2>3, DictsDistinct
    <2>5. Neat(Replaced(entries, key, call.val))
      <3>1. Folded(key) = key
        BY <1>2, FoldedTwice
      <3> HIDE DEF entries, key
      <3> QED BY <1>2, <2>1, <2>2, <3>1, NeatSet
    <2> QED BY <1>3, <1>4, <2>1, <2>3, <2>4, <2>5 DEF SectionSo
  <1>8. HostsSo'
    <2> SUFFICES ASSUME NEW n \in 1 .. MaxHosts PROVE HostSo(n)'
      BY DEF HostsSo
    <2>1. HostSo(n) /\ HostDict(n) \in Dicts
      BY DictsDistinct DEF HostsSo
    <2>2. CASE d = HostDict(n)
      <3>1. d # NULL
        BY <2>1, <2>2, DictsDistinct
      <3>2. content'[HostDict(n)] = Replaced(content[HostDict(n)], Folded(call.key), call.val)
        BY <1>5, <2>2, <3>1
      <3> QED BY <1>2, <1>3, <1>4, <2>1, <2>2, <3>2, HostSets
    <2>3. CASE d # HostDict(n)
      <3>1. content'[HostDict(n)] = content[HostDict(n)]
        BY <1>5, <2>1, <2>3
      <3>2. <<>> \in Seq(AllCalls) /\ NoSet(<<>>, HostDict(n))
        BY DEF NoSet
      <3> QED BY <1>2, <1>3, <2>1, <2>3, <3>1, <3>2, HostPops
    <2> QED BY <2>2, <2>3
  <1> QED BY <1>6, <1>7, <1>8

(* What the other calls of main bring sets no key of a host's dictionary.  *)
LEMMA CallsBring ==
    ASSUME TypeOK, Working, KeyInv,
           \/ FinishAdd(Main) \/ FinishAsk(Main) \/ FinishInherit(Main) \/ FinishInfo(Main) \/ FinishListen(Main)
           \/ ShowConfigured(Main) \/ ShowDefault(Main)
    PROVE  /\ todo[Main] # <<>> /\ Head(todo[Main]).kind # "set"
           /\ UNCHANGED <<file, phase, section, hosts>>
           /\ \A e \in Dicts \ {File} : content'[e] = content[e]
           /\ \E more \in Seq(AllCalls) : Harmless(more) /\ todo'[Main] = more \o Tail(todo[Main])
  <1> DEFINE call == Head(todo[Main])
  <1>1. /\ <<>> \in Seq(AllCalls) /\ Harmless(<<>>)
        /\ <<Log>> \in Seq(AllCalls) /\ Harmless(<<Log>>)
    <2>1. Log \in AllCalls /\ Log.kind = "log"
      BY DEF AllCalls, FirstCalls, Log
    <2> QED BY <2>1 DEF Harmless
  <1>2. CASE FinishAdd(Main)
    <2>1. InCall(Main, "add") /\ Return(Main, <<>>)
      BY <1>2 DEF FinishAdd
    <2>2. content \in [Dicts -> Seq(Entries)] /\ \E e : content' = [content EXCEPT ![File] = e]
      BY <1>2 DEF FinishAdd, TypeOK
    <2>3. \A e \in Dicts \ {File} : content'[e] = content[e]
      BY <2>2
    <2>4. UNCHANGED <<file, phase, section, hosts>>
      BY <2>1 DEF Return, Finish, results
    <2>5. todo[Main] # <<>> /\ call.kind = "add"
      BY <2>1, MainInCall
    <2>6. todo'[Main] = <<>> \o Tail(todo[Main])
      BY <2>1, MainReturnsList
    <2> QED BY <1>1, <2>3, <2>4, <2>5, <2>6
  <1>3. CASE ShowConfigured(Main) \/ ShowDefault(Main)
    <2>1. Return(Main, <<>>) /\ content' = content
      BY <1>3 DEF ShowConfigured, ShowDefault, EndLine
    <2>2. todo[Main] # <<>> /\ call.kind = "log"
      <3>1. CASE ShowConfigured(Main)
        BY <3>1, MainInCall DEF ShowConfigured
      <3>2. CASE ShowDefault(Main)
        BY <3>2, ThreadsDistinct DEF ShowDefault, Working, CallOK
      <3> QED BY <1>3, <3>1, <3>2
    <2>3. UNCHANGED <<file, phase, section, hosts>>
      BY <2>1 DEF Return, Finish, results
    <2> QED BY <1>1, <2>1, <2>2, <2>3, MainReturnsList
  <1>4. CASE FinishInfo(Main)
    <2>1. InCall(Main, "info") /\ Return(Main, <<>>) /\ content' = content
      BY <1>4 DEF FinishInfo
    <2>2. UNCHANGED <<file, phase, section, hosts>>
      BY <2>1 DEF Return, Finish, results
    <2>3. todo[Main] # <<>> /\ call.kind = "info"
      BY <2>1, MainInCall
    <2>4. todo'[Main] = <<>> \o Tail(todo[Main])
      BY <2>1, MainReturnsList
    <2> QED BY <1>1, <2>1, <2>2, <2>3, <2>4
  <1>5. CASE FinishListen(Main)
    <2>1. InCall(Main, "listen") /\ content' = content /\ Finish(Main)
      BY <1>5 DEF FinishListen
    <2>2. todo[Main] # <<>> /\ call.kind = "listen" /\ call \in AllCalls
      BY <2>1, MainInCall
    <2>3. call.host \in 1 .. MaxHosts
      BY <2>2, KindFacts
    <2>4. todo \in [Threads -> Seq(AllCalls)] /\ Main \in Threads /\ Listener(call.host) # Main
      BY <2>3, ThreadsDistinct DEF Working, TodoOK
    <2>5. todo'[Main] = Tail(todo[Main]) \/ todo'[Main] = <<Log>> \o Tail(todo[Main])
      BY <1>5, <2>4 DEF FinishListen
    <2>6. todo[Main] \in Seq(AllCalls)
      BY <2>4
    <2>7. <<>> \o Tail(todo[Main]) = Tail(todo[Main])
      BY <2>2, <2>6, NothingMore
    <2>8. UNCHANGED <<file, phase, section, hosts>>
      BY <2>1 DEF Finish, results
    <2> QED BY <1>1, <2>1, <2>2, <2>5, <2>7, <2>8
  <1>6. CASE FinishInherit(Main)
    <2> DEFINE set == Set(call.into, call.name, Get(content[at[Main]], buffer, NULL))
    <2>1. InCall(Main, "inherit") /\ Return(Main, <<set>>) /\ content' = content
      BY <1>6 DEF FinishInherit
    <2>2. todo[Main] # <<>> /\ call.kind = "inherit" /\ call \in AllCalls /\ at[Main] = call.dict
      BY <2>1, MainInCall
    <2>3. call.into = Section /\ call.name \in Text /\ at[Main] = File
      BY <2>2, KindFacts
    <2>4. Get(content[at[Main]], buffer, NULL) \in Vals
      BY <2>3, GetTyped, DictsDistinct DEF TypeOK, Vals
    <2>5. set \in SetCalls({Section})
      BY <2>3, <2>4 DEF Set, SetCalls
    <2> HIDE DEF set
    <2>6. set \in LaterCalls /\ set \in AllCalls
      BY <2>5 DEF AllCalls, LateCalls, LaterCalls
    <2>7. set.kind # "listen" /\ (set.kind = "set" => set.dict \notin HostDicts)
      BY <2>6, LaterFacts
    <2>8. <<set>> \in Seq(AllCalls) /\ Harmless(<<set>>)
      BY <2>6, <2>7 DEF Harmless
    <2>9. UNCHANGED <<file, phase, section, hosts>>
      BY <2>1 DEF Return, Finish, results
    <2> QED BY <2>1, <2>2, <2>8, <2>9, MainReturnsList
  <1>7. CASE FinishAsk(Main)
    <2> DEFINE more == IF Get(content[at[Main]], buffer, NULL) = NULL THEN call.otherwise ELSE call.then
    <2>1. InCall(Main, "ask") /\ Return(Main, more) /\ content' = content
      BY <1>7 DEF FinishAsk
    <2>2. todo[Main] # <<>> /\ call.kind = "ask" /\ call \in MainCalls(phase)
      BY <2>1, MainInCall
    <2>3. more \in Seq(SetCalls({File})) \/ more \in Seq(LaterCalls)
      BY <2>2, MainFacts
    <2>4. SetCalls({File}) \subseteq AllCalls /\ LaterCalls \subseteq AllCalls
      BY DEF AllCalls, FileCalls, LateCalls
    <2> HIDE DEF more
    <2>5. more \in Seq(AllCalls)
      BY <2>3, <2>4, SeqMonotone
    <2>6. Harmless(more)
      <3>1. \A i \in DOMAIN more : more[i] \in LaterCalls \cup SetCalls({File})
        BY <2>3
      <3> QED BY <3>1, LaterFacts DEF Harmless
    <2>7. UNCHANGED <<file, phase, section, hosts>>
      BY <2>1 DEF Return, Finish, results
    <2> QED BY <2>1, <2>2, <2>5, <2>6, <2>7, MainReturnsList
  <1> QED BY <1>2, <1>3, <1>4, <1>5, <1>6, <1>7

(* So they leave the hosts' dictionaries as they are.                      *)
LEMMA CallsHosts ==
    ASSUME TypeOK, Working, KeyInv, FilePresent, HostsSo,
           \/ FinishAdd(Main) \/ FinishAsk(Main) \/ FinishInherit(Main) \/ FinishInfo(Main) \/ FinishListen(Main)
           \/ ShowConfigured(Main) \/ ShowDefault(Main)
    PROVE  FilePresent' /\ HostsSo'
  <1>1. /\ todo[Main] # <<>> /\ Head(todo[Main]).kind # "set"
        /\ UNCHANGED <<file, phase, section, hosts>>
        /\ \A e \in Dicts \ {File} : content'[e] = content[e]
        /\ \E more \in Seq(AllCalls) : Harmless(more) /\ todo'[Main] = more \o Tail(todo[Main])
    BY CallsBring
  <1>2. PICK more \in Seq(AllCalls) : Harmless(more) /\ todo'[Main] = more \o Tail(todo[Main])
    BY <1>1
  <1>3. ASSUME NEW n \in 1 .. MaxHosts
        PROVE  HostSo(n)'
    <2>1. HostSo(n) /\ HostDict(n) \in Dicts \ {File} /\ HostDict(n) \in HostDicts
      BY DictsDistinct DEF HostsSo
    <2>2. NoSet(more, HostDict(n))
      BY <1>2, <2>1 DEF Harmless, NoSet
    <2>3. content'[HostDict(n)] = content[HostDict(n)]
      BY <1>1, <2>1
    <2> QED BY <1>1, <1>2, <2>1, <2>2, <2>3, HostPops
  <1> QED BY <1>1, <1>3 DEF FilePresent, HostsSo

(* The other calls of main leave the section as prepared as it was, or     *)
(* prepare it further: init_host_ asks for instance and cluster and        *)
(* inherits them.                                                          *)
LEMMA CallsSection ==
    ASSUME TypeOK, Working, KeyInv, MainSays, FilePresent, SectionSo,
           \/ FinishAdd(Main) \/ FinishAsk(Main) \/ FinishInherit(Main) \/ FinishInfo(Main) \/ FinishListen(Main)
           \/ ShowConfigured(Main) \/ ShowDefault(Main)
    PROVE  SectionSo'
  <1>1. /\ todo[Main] # <<>>
        /\ UNCHANGED <<file, phase, section, hosts>>
        /\ \A e \in Dicts \ {File} : content'[e] = content[e]
    BY CallsBring
  <1> SUFFICES ASSUME phase = "host" PROVE SectionSo'
    BY <1>1 DEF SectionSo
  <1> DEFINE s == content[File][section].key
             own == OwnOf(file, s)
             i == Says(file, Instance, Hostname)
             c == Says(file, Cluster, Private)
             entries == content[Section]
             call == Head(todo[Main])
  <1>2. IsContainer(content[File][section]) /\ Neat(entries) /\ Prepared(todo[Main], entries, own, s, i, c)
    BY DEF SectionSo
  <1>3. call.kind \in {"set", "log", "ask", "inherit"}
    <2> HIDE DEF s, own, i, c, entries
    <2> QED BY <1>1, <1>2, PreparedKinds
  <1>4. ASSUME NEW kind, InCall(Main, kind)
        PROVE  call.kind = kind /\ kind \in {"set", "log", "ask", "inherit"}
    BY <1>3, <1>4, MainInCall
  <1>5. content'[Section] = entries /\ DOMAIN own = KeyNames /\ todo[Main] \in Seq(AllCalls)
    BY <1>1, DictsDistinct, HeadTyped, ThreadsDistinct DEF OwnOf
  <1>6. ASSUME content'[File] = content[File], Prepared(todo'[Main], entries, own, s, i, c)
        PROVE  SectionSo'
    BY <1>1, <1>2, <1>5, <1>6 DEF SectionSo
  <1> HIDE DEF s, own, i, c, entries
  <1>7. CASE ShowConfigured(Main) \/ ShowDefault(Main)
    <2>1. Return(Main, <<>>) /\ content' = content
      BY <1>7 DEF ShowConfigured, ShowDefault, EndLine
    <2>2. call.kind = "log"
      <3>1. CASE ShowConfigured(Main)
        BY <1>4, <3>1 DEF ShowConfigured
      <3>2. CASE ShowDefault(Main)
        BY <3>2, ThreadsDistinct DEF ShowDefault, Working, CallOK
      <3> QED BY <1>7, <3>1, <3>2
    <2>3. todo'[Main] = <<>> \o Tail(todo[Main])
      BY <2>1, MainReturnsList
    <2>4. todo'[Main] = Tail(todo[Main])
      BY <1>1, <1>5, <2>3, NothingMore
    <2>5. Prepared(Tail(todo[Main]), entries, own, s, i, c)
      BY <1>1, <1>2, <2>2, PreparedLog
    <2> QED BY <1>6, <2>1, <2>4, <2>5
  <1>8. CASE FinishAsk(Main)
    <2> DEFINE more == IF Get(content[at[Main]], buffer, NULL) = NULL THEN call.otherwise ELSE call.then
    <2>1. InCall(Main, "ask") /\ Return(Main, more) /\ content' = content
      BY <1>8 DEF FinishAsk
    <2>2. call.kind = "ask" /\ at[Main] = call.dict /\ buffer = Folded(call.key)
      BY <2>1, MainInCall
    <2>3. todo'[Main] = more \o Tail(todo[Main])
      <3> HIDE DEF more
      <3> QED BY <2>1, MainReturnsList
    <2>4. /\ call.dict = Section
          /\ Prepared((IF Get(entries, Folded(call.key), NULL) = NULL THEN call.otherwise ELSE call.then)
                          \o Tail(todo[Main]), entries, own, s, i, c)
      BY <1>1, <1>2, <1>5, <2>2, PreparedAsk
    <2>5. more = IF Get(entries, Folded(call.key), NULL) = NULL THEN call.otherwise ELSE call.then
      BY <2>2, <2>4 DEF entries
    <2> HIDE DEF more
    <2>6. Prepared(todo'[Main], entries, own, s, i, c)
      BY <2>3, <2>4, <2>5
    <2> QED BY <1>6, <2>1, <2>6
  <1>9. CASE FinishInherit(Main)
    <2> DEFINE v == Get(content[at[Main]], buffer, NULL)
               set == Set(call.into, call.name, v)
    <2>1. InCall(Main, "inherit") /\ Return(Main, <<set>>) /\ content' = content
      BY <1>9 DEF FinishInherit
    <2>2. call.kind = "inherit" /\ call \in AllCalls /\ at[Main] = call.dict /\ buffer = Folded(call.key)
      BY <2>1, MainInCall
    <2>3. todo'[Main] = <<set>> \o Tail(todo[Main])
      <3> HIDE DEF set
      <3> QED BY <2>1, MainReturnsList
    <2>4. /\ call.key \in {Instance, Cluster}
          /\ Prepared(<<Set(call.into, call.name, IF call.key = Instance THEN i ELSE c)>> \o Tail(todo[Main]),
                      entries, own, s, i, c)
      BY <1>1, <1>2, <2>2, PreparedInherit
    <2>5. v = IF call.key = Instance THEN i ELSE c
      <3>1. at[Main] = File /\ buffer = call.key
        BY <2>2, <2>4, KindFacts, OwnKeysFolded
      <3>2. AllSaid(file, content[File])
        BY DEF FilePresent, MainSays, LateSays, LatePhases
      <3> QED BY <2>4, <3>1, <3>2 DEF AllSaid, i, c
    <2> HIDE DEF v
    <2>6. Prepared(todo'[Main], entries, own, s, i, c)
      BY <2>3, <2>4, <2>5
    <2> QED BY <1>6, <2>1, <2>6
  <1>10. ~FinishAdd(Main) /\ ~FinishInfo(Main) /\ ~FinishListen(Main)
    BY <1>4 DEF FinishAdd, FinishInfo, FinishListen
  <1> QED BY <1>7, <1>8, <1>9, <1>10

-----------------------------------------------------------------------------
(* Between its calls main brings no more that sets a key of a host's       *)
(* dictionary, but for host_add.                                           *)
LEMMA HostBrings ==
    ASSUME NEW n, HostSo(n), todo[Main] = <<>>, NoSet(todo'[Main], HostDict(n)),
           UNCHANGED file, content'[HostDict(n)] = content[HostDict(n)],
           n > Len(hosts') <=> n > Len(hosts), ~(n > Len(hosts)) => hosts'[n] = hosts[n]
    PROVE  HostSo(n)'
  <1>1. NoSet(<<>>, HostDict(n))
    BY DEF NoSet
  <1>2. ASSUME ~(n > Len(hosts)), NEW k \in KeyNames
        PROVE  FinalSays(todo'[Main], HostDict(n), content[HostDict(n)], <<k>>, HostMeans(file, hosts[n])[k])
    <2>1. FinalSays(<<>>, HostDict(n), content[HostDict(n)], <<k>>, HostMeans(file, hosts[n])[k])
      BY <1>2 DEF HostSo
    <2>2. Get(content[HostDict(n)], <<k>>, NULL) = HostMeans(file, hosts[n])[k]
      BY <1>1, <2>1, FinalQuiet
    <2> QED BY <2>2, FinalQuiet
  <1> QED BY <1>2 DEF HostSo

(* One call before three.                                                  *)
LEMMA OneAndThree == \A x, a, b, c : <<x>> \o <<a, b, c>> = <<x, a, b, c>>
  <1> SUFFICES ASSUME NEW x, NEW a, NEW b, NEW c PROVE <<x>> \o <<a, b, c>> = <<x, a, b, c>>
    OBVIOUS
  <1> DEFINE s == <<x>>
             t == <<a, b, c>>
             u == <<x, a, b, c>>
             S == {x, a, b, c}
  <1>1. s \in Seq(S) /\ t \in Seq(S) /\ u \in Seq(S)
    OBVIOUS
  <1>2. /\ Len(s) = 1 /\ Len(t) = 3 /\ Len(u) = 4
        /\ s[1] = x /\ t[1] = a /\ t[2] = b /\ t[3] = c /\ u[1] = x /\ u[2] = a /\ u[3] = b /\ u[4] = c
    OBVIOUS
  <1> HIDE DEF s, t, u, S
  <1>3. /\ s \o t \in Seq(S) /\ Len(s \o t) = Len(s) + Len(t)
        /\ \A i \in 1 .. Len(s) + Len(t) : (s \o t)[i] = IF i <= Len(s) THEN s[i] ELSE t[i - Len(s)]
    BY <1>1
  <1>4. Len(s \o t) = 4 /\ (s \o t)[1] = x /\ (s \o t)[2] = a /\ (s \o t)[3] = b /\ (s \o t)[4] = c
    BY <1>2, <1>3
  <1>5. \A i \in 1 .. 4 : (s \o t)[i] = u[i]
    BY <1>2, <1>4
  <1>6. s \o t = u
    BY <1>1, <1>2, <1>3, <1>4, <1>5, SeqEqual
  <1> QED BY <1>6 DEF s, t, u

(* Neither of two lists sets a key of d.                                   *)
LEMMA NoSetBoth ==
    ASSUME NEW S, NEW a \in Seq(S), NEW b \in Seq(S), NEW d, NoSet(a, d), NoSet(b, d)
    PROVE  NoSet(a \o b, d)
  <1>1. ASSUME NEW j \in DOMAIN (a \o b), (a \o b)[j].kind = "set"
        PROVE  (a \o b)[j].dict # d
    <2>1. CASE j \in DOMAIN a
      <3>1. (a \o b)[j] = a[j]
        BY <2>1
      <3> QED BY <1>1, <2>1, <3>1 DEF NoSet
    <2>2. CASE j \notin DOMAIN a
      <3>1. j - Len(a) \in DOMAIN b /\ (a \o b)[j] = b[j - Len(a)]
        BY <1>1, <2>2
      <3> QED BY <1>1, <3>1 DEF NoSet
    <2> QED BY <2>1, <2>2
  <1> QED BY <1>1 DEF NoSet

(* Calls that set no key, or keys of other dictionaries.                   *)
LEMMA NoSetOf ==
    ASSUME NEW S, NEW calls \in Seq(S), NEW d, \A c \in S : c.kind = "set" => c.dict # d
    PROVE  NoSet(calls, d)
  BY DEF NoSet

(* Main comes to a section: its lines, in their order, and then init_host_.*)
LEMMA SectionStarts ==
    ASSUME SettingsVisible, SimpleNames, TypeOK, Working, MainSays, FileShape, FilePresent, HostsSo, NextSection
    PROVE  FilePresent' /\ SectionSo' /\ HostsSo'
  <1> DEFINE entries == content[File]
             next == {p \in section + 1 .. Len(entries) : IsContainer(entries[p])}
  <1>1. /\ phase = "sections" /\ todo[Main] = <<>> /\ UNCHANGED <<file, hosts>>
        /\ entries \in Seq(Entries) /\ content \in [Dicts -> Seq(Entries)]
        /\ Main \in Threads /\ todo \in [Threads -> Seq(AllCalls)]
        /\ file \in Files \ {NULL} /\ section \in Nat
    BY DictsDistinct, ThreadsDistinct
       DEF NextSection, MainAt, TypeOK, Working, TodoOK, PhaseOK, FilePresent
  <1>2. FilePresent'
    BY <1>1 DEF FilePresent
  <1>3. CASE next = {} \/ Len(hosts) = MaxHosts
    <2>1. phase' = "idle" /\ todo' = [todo EXCEPT ![Main] = <<Log>>] /\ UNCHANGED <<content, section>>
      BY <1>3 DEF NextSection, Calls
    <2>2. todo'[Main] = <<Log>>
      BY <1>1, <2>1
    <2>3. \A n \in 1 .. MaxHosts : NoSet(todo'[Main], HostDict(n))
      BY <2>2 DEF NoSet, Log
    <2>4. \A n \in 1 .. MaxHosts : HostSo(n)'
      BY <1>1, <2>1, <2>3, HostBrings DEF HostsSo
    <2> QED BY <1>2, <2>1, <2>4 DEF SectionSo, HostsSo
  <1>4. CASE ~(next = {} \/ Len(hosts) = MaxHosts)
    <2> DEFINE place == Min(next)
               s == entries[place].key
               own == OwnSettings(entries, place)
               rest == <<Log, SetName(s), AskOwnInstance, AskOwnCluster>>
               ownOf == OwnOf(file, s)
               i == Says(file, Instance, Hostname)
               c == Says(file, Cluster, Private)
    <2>1. /\ section' = place /\ content' = [content EXCEPT ![Section] = <<>>]
          /\ todo' = [todo EXCEPT ![Main] = own \o <<Log>> \o InitHost(Section, Tail(s))] /\ phase' = "host"
      BY <1>4 DEF NextSection, Calls
    <2>2. place \in next
      <3>1. next \in SUBSET Nat
        BY <1>1
      <3>2. next # {}
        BY <1>4
      <3> HIDE DEF next
      <3> QED BY <3>1, <3>2, FirstPlace
    <2>3. place \in DOMAIN entries /\ IsContainer(entries[place])
      BY <1>1, <2>2
    <2> HIDE DEF place
    <2>4. own \in Seq(SetCalls({Section}))
      BY <1>1, <2>3, OwnSettingsTyped
    <2>5. content'[Section] = <<>> /\ content'[File] = entries
      BY <1>1, <2>1, DictsDistinct
    <2> DEFINE A == SetCalls({Section}) \cup {Log, SetName(s), AskOwnInstance, AskOwnCluster}
    <2>6. /\ SetCalls({Section}) \subseteq A /\ <<Log>> \in Seq(A)
          /\ <<SetName(s), AskOwnInstance, AskOwnCluster>> \in Seq(A) /\ rest \in Seq(A)
      OBVIOUS
    <2>7. todo'[Main] = own \o rest
      <3>1. InitHost(Section, Tail(s)) = <<SetName(s), AskOwnInstance, AskOwnCluster>>
        BY DEF InitHost, SetName, AskOwnInstance, AskOwnCluster, InheritInstance, InheritCluster
      <3>2. own \in Seq(A)
        <4> HIDE DEF A, own
        <4> QED BY <2>4, <2>6, SeqMonotone
      <3>3. <<Log>> \o <<SetName(s), AskOwnInstance, AskOwnCluster>> = rest
        BY OneAndThree
      <3>4. todo'[Main] = (own \o <<Log>>) \o <<SetName(s), AskOwnInstance, AskOwnCluster>>
        BY <1>1, <2>1, <3>1
      <3> DEFINE line == <<Log>>
                 three == <<SetName(s), AskOwnInstance, AskOwnCluster>>
      <3>5. line \in Seq(A) /\ three \in Seq(A)
        BY <2>6
      <3> HIDE DEF own, A, rest, line, three
      <3>6. (own \o line) \o three = own \o (line \o three)
        BY <3>2, <3>5, ConcatAssociative
      <3> QED BY <3>3, <3>4, <3>6 DEF line, three
    <2>8. ASSUME NEW k \in KeyNames
          PROVE  FinalSays(own, Section, <<>>, <<k>>, ownOf[k])
      <3>1. Holds(file, entries, Len(file), {Instance, Cluster}) /\ SectionsSo(entries)
        BY <1>1 DEF MainSays, LateSays, LatePhases, AllSaid, OthersSaid, FileShape
      <3>2. LastSays(entries, place, <<k>>, Len(entries), ownOf[k])
        <4> HIDE DEF entries
        <4> QED BY <1>1, <2>3, <3>1, OwnLast
      <3> HIDE DEF entries, ownOf
      <3> QED BY <1>1, <2>3, <3>2, OwnFinally
    <2>9. Prepared(own \o rest, <<>>, ownOf, s, i, c)
      <3> HIDE DEF own, s, ownOf, i, c
      <3> QED BY <2>4, <2>8 DEF Prepared
    <2>10. SectionSo'
      <3>1. Neat(<<>>)
        BY DEF Neat
      <3> HIDE DEF rest, own
      <3> QED BY <1>1, <2>1, <2>3, <2>5, <2>7, <2>9, <3>1 DEF SectionSo
    <2>11. ASSUME NEW n \in 1 .. MaxHosts
           PROVE  HostSo(n)'
      <3>1. HostDict(n) \in Dicts /\ HostDict(n) # Section /\ HostSo(n)
        BY DictsDistinct DEF HostsSo
      <3>2. content'[HostDict(n)] = content[HostDict(n)]
        BY <1>1, <2>1, <3>1
      <3>3. \A x \in A : x.kind = "set" => x.dict # HostDict(n)
        BY <3>1, PreparedCalls DEF SetCalls
      <3>4. own \o rest \in Seq(A)
        <4> HIDE DEF A, own, rest
        <4>1. own \in Seq(A)
          BY <2>4, <2>6, SeqMonotone
        <4> QED BY <2>6, <4>1
      <3> HIDE DEF A, own, rest
      <3>5. NoSet(todo'[Main], HostDict(n))
        BY <2>7, <3>3, <3>4, NoSetOf
      <3> QED BY <1>1, <3>1, <3>2, <3>5, HostBrings
    <2> QED BY <1>2, <2>10, <2>11 DEF HostsSo
  <1> QED BY <1>3, <1>4

(* When init_host_ is done the section's dictionary means what its host's  *)
(* is to mean.                                                             *)
LEMMA PreparedDone ==
    ASSUME NEW entries, NEW own, NEW s, NEW i, NEW c, Prepared(<<>>, entries, own, s, i, c)
    PROVE  Means(entries, AllOf(own, s, i, c))
  <1>1. ASSUME NEW sets \in Seq(SetCalls({Section}))
        PROVE  <<>> # sets \o <<Log, SetName(s), AskOwnInstance, AskOwnCluster>>
    <2> DEFINE rest == <<Log, SetName(s), AskOwnInstance, AskOwnCluster>>
    <2>1. rest \in Seq({Log, SetName(s), AskOwnInstance, AskOwnCluster}) /\ rest # <<>>
      BY FourCalls
    <2> HIDE DEF rest
    <2>2. CASE sets = <<>>
      BY <2>1, <2>2, OwnFirst DEF rest
    <2>3. CASE sets # <<>>
      <3> DEFINE U == SetCalls({Section}) \cup {Log, SetName(s), AskOwnInstance, AskOwnCluster}
      <3>1. sets \in Seq(U) /\ rest \in Seq(U)
        BY <2>1, SeqMonotone
      <3> HIDE DEF U
      <3>2. Len(sets \o rest) = Len(sets) + Len(rest) /\ Len(sets) > 0 /\ Len(rest) \in Nat
        BY <2>3, <3>1
      <3>3. sets \o rest # <<>>
        BY <3>2
      <3> QED BY <3>3 DEF rest
    <2> QED BY <2>2, <2>3
  <1> QED BY <1>1, ShortLists DEF Prepared

(* host_add: the new host will mean what its section means, once the       *)
(* section's dictionary has been copied.                                   *)
LEMMA HostStarts ==
    ASSUME TypeOK, Working, MainSays, FilePresent, SectionSo, HostsSo, AddHost
    PROVE  FilePresent' /\ SectionSo' /\ HostsSo'
  <1> DEFINE n == Len(hosts) + 1
             d == HostDict(n)
             src == content[Section]
             copy == Copy(d, src)
             front == Handler \o <<Log>>
             ask == Ask(d, <<"minworkers">>, <<Log>> \o Populate(d), <<>>)
             back == <<ask, Log, Listen(n)>>
             key == content[File][section].key
             Asks == AskCalls({Section} \cup HostDicts, LaterCalls)
             A == Asks \cup {Log} \cup {Listen(n)}
             B == SetCalls({d})
  <1>1. /\ phase = "host" /\ todo[Main] = <<>> /\ phase' = "sections" /\ hosts' = Append(hosts, key)
        /\ UNCHANGED <<file, content>>
    BY DEF AddHost, MainAt
  <1>2. /\ src \in Seq(Entries) /\ Main \in Threads /\ todo \in [Threads -> Seq(AllCalls)]
        /\ hosts \in Seq(Text) /\ Len(hosts) < MaxHosts /\ file # NULL
    BY <1>1, DictsDistinct, ThreadsDistinct DEF TypeOK, Working, TodoOK, PhaseOK, FilePresent
  <1>3. /\ n \in 1 .. MaxHosts /\ Len(hosts') = n /\ hosts'[n] = key
        /\ \A m \in 1 .. Len(hosts) : hosts'[m] = hosts[m]
    <2>1. Len(hosts) \in Nat
      BY <1>2
    <2> HIDE DEF key
    <2> QED BY <1>1, <1>2, <2>1, HostsAssumption
  <1>4. todo'[Main] = (front \o copy) \o back
    <2>1. todo' = [todo EXCEPT ![Main] = Handler \o <<Log>> \o copy \o back]
      BY DEF AddHost, Calls
    <2> HIDE DEF copy, back
    <2> QED BY <1>2, <2>1
  <1>5. FilePresent' /\ SectionSo'
    BY <1>1, <1>2 DEF FilePresent, SectionSo
  <1>6. Neat(src) /\ Means(src, HostMeans(file, key))
    <2>1. Neat(src) /\ Prepared(<<>>, src, OwnOf(file, key), key, Says(file, Instance, Hostname), Says(file, Cluster, Private))
      BY <1>1 DEF SectionSo
    <2> HIDE DEF src, key
    <2> QED BY <2>1, PreparedDone DEF HostMeans
  <1>7. front \in Seq(A) /\ back \in Seq(A) /\ copy \in Seq(B)
    <2>1. Asks \subseteq A /\ Log \in A /\ Listen(n) \in A
      OBVIOUS
    <2>2. Handler \in Seq(Asks) /\ ask \in Asks
      BY <1>3, HandlerTyped, WorkerAskTyped
    <2>3. copy \in Seq(B)
      BY <1>2, CopyTyped
    <2> HIDE DEF A, Asks, copy, ask, src, n
    <2>4. Handler \in Seq(A) /\ ask \in A
      BY <2>1, <2>2, SeqMonotone
    <2> QED BY <2>1, <2>3, <2>4
  <1>8. (\A x \in A : x.kind # "set") /\ (\A x \in B : x.dict = d)
    BY DEF AskCalls, Log, Listen, SetCalls
  <1> DEFINE S == A \cup B
  <1>9. /\ front \in Seq(S) /\ back \in Seq(S) /\ copy \in Seq(S) /\ front \o copy \in Seq(S)
        /\ (front \o copy) \o back \in Seq(S)
    <2> HIDE DEF A, B, front, back, copy
    <2>1. front \in Seq(S) /\ back \in Seq(S) /\ copy \in Seq(S)
      BY <1>7, SeqMonotone
    <2> HIDE DEF S
    <2> QED BY <2>1
  <1> HIDE DEF A, B, S, front, back, copy, src, key, Asks, n
  <1>10. ASSUME NEW m \in 1 .. MaxHosts, m # n
         PROVE  HostSo(m)'
    <2>1. HostSo(m) /\ HostDict(m) # d
      BY <1>3, <1>10, DictsDistinct DEF HostsSo
    <2>2. \A x \in S : x.kind = "set" => x.dict # HostDict(m)
      BY <1>8, <2>1 DEF S
    <2>3. NoSet(todo'[Main], HostDict(m))
      BY <1>4, <1>9, <2>2, NoSetOf
    <2>4. /\ m > Len(hosts') <=> m > Len(hosts)
          /\ ~(m > Len(hosts)) => hosts'[m] = hosts[m]
      <3>1. Len(hosts) \in Nat /\ m \in Nat /\ Len(hosts') = Len(hosts) + 1 /\ m # Len(hosts) + 1
        BY <1>2, <1>3, <1>10 DEF n
      <3> QED BY <1>3, <1>10, <3>1
    <2> QED BY <1>1, <2>1, <2>3, <2>4, HostBrings
  <1>11. ASSUME NEW m \in 1 .. MaxHosts, m = n
         PROVE  HostSo(m)'
    <2>1. content[d] = <<>>
      <3>1. HostSo(n) /\ n > Len(hosts)
        BY <1>2, <1>3 DEF HostsSo, n
      <3> QED BY <3>1 DEF HostSo
    <2>2. NoSet(front, d) /\ NoSet(back, d)
      BY <1>7, <1>8, NoSetOf
    <2>3. ASSUME NEW k \in KeyNames
          PROVE  FinalSays(todo'[Main], d, <<>>, <<k>>, HostMeans(file, key)[k])
      <3>1. FinalSays(copy, d, <<>>, <<k>>, Get(src, <<k>>, NULL))
        BY <1>2, <1>6, FinalCopy DEF copy
      <3>2. Get(src, <<k>>, NULL) = HostMeans(file, key)[k]
        BY <1>6 DEF Means
      <3>3. FinalSays(copy, d, <<>>, <<k>>, HostMeans(file, key)[k])
        BY <3>1, <3>2
      <3>4. FinalSays(front \o copy, d, <<>>, <<k>>, HostMeans(file, key)[k])
        BY <1>9, <2>2, <3>3, FinalBefore
      <3>5. FinalSays((front \o copy) \o back, d, <<>>, <<k>>, HostMeans(file, key)[k])
        BY <1>9, <2>2, <3>4, FinalBehind
      <3> QED BY <1>4, <3>5
    <2>4. ~(m > Len(hosts')) /\ hosts'[m] = key /\ content'[HostDict(m)] = <<>> /\ file' = file
      <3>1. m \in Nat
        BY <1>11
      <3> QED BY <1>1, <1>3, <1>11, <2>1, <3>1
    <2>5. \A k \in KeyNames : FinalSays(todo'[Main], HostDict(m), content'[HostDict(m)], <<k>>, HostMeans(file', hosts'[m])[k])
      BY <1>11, <2>3, <2>4
    <2> QED BY <2>4, <2>5 DEF HostSo
  <1>12. HostsSo'
    <2> SUFFICES ASSUME NEW m \in 1 .. MaxHosts PROVE HostSo(m)'
      BY DEF HostsSo
    <2> QED BY <1>10, <1>11
  <1> QED BY <1>5, <1>12

(* The other steps of main between its calls.                              *)
LEMMA OtherStarts ==
    ASSUME TypeOK, Working, Working', HostsSo, FilePresent, ~Crashed',
           StartSocketThread \/ LoadFile \/ Merge \/ FreeDictionaries \/ LoadModules \/ HostFails
    PROVE  FilePresent' /\ SectionSo' /\ HostsSo'
  <1>1. /\ todo[Main] = <<>> /\ UNCHANGED <<file, hosts, content>> /\ phase' # "host"
        /\ Main \in Threads /\ SocketThread # Main /\ todo \in [Threads -> Seq(AllCalls)]
    BY ThreadsDistinct
       DEF StartSocketThread, LoadFile, Merge, FreeDictionaries, LoadModules, HostFails, MainAt, Working, TodoOK, results
  <1>2. FilePresent'
    BY DEF FilePresent, StartSocketThread, LoadFile, Merge, FreeDictionaries, LoadModules, HostFails, MainAt, results
  <1>3. ASSUME NEW n \in 1 .. MaxHosts
        PROVE  NoSet(todo'[Main], HostDict(n))
    <2>1. NoSet(<<>>, HostDict(n)) /\ NoSet(<<Log>>, HostDict(n))
      BY DEF NoSet, Log
    <2>2. CASE StartSocketThread
      <3>1. todo' = todo \/ todo' = [todo EXCEPT ![SocketThread] = <<Log>>]
        BY <2>2 DEF StartSocketThread, Calls
      <3> QED BY <1>1, <2>1, <3>1
    <2>3. CASE phase' \in FilePhases
      <3>1. todo'[Main] \in Seq(MainCalls(phase'))
        BY DEF Working, TodoOK
      <3>2. \A x \in MainCalls(phase') : x.kind = "set" => x.dict # HostDict(n)
        BY <2>3, MainFacts, DictsDistinct
      <3> QED BY <3>1, <3>2, NoSetOf
    <2>4. CASE LoadFile /\ phase' \notin FilePhases
      <3>1. todo' = [todo EXCEPT ![Main] = <<Log>>]
        BY <2>4 DEF LoadFile, Calls, FilePhases
      <3> QED BY <1>1, <2>1, <3>1
    <2>5. CASE Merge /\ phase' \notin FilePhases
      BY <2>5 DEF Merge, Crashed, FilePhases
    <2>6. CASE FreeDictionaries
      BY <1>1, <2>1, <2>6 DEF FreeDictionaries, Calls
    <2>7. CASE LoadModules
      BY <1>1, <2>1, <2>7 DEF LoadModules, Calls
    <2>8. CASE HostFails
      <3> DEFINE A == AskCalls({Section} \cup HostDicts, LaterCalls) \cup {Log}
      <3>1. todo'[Main] = Handler \o <<Log>>
        BY <1>1, <2>8 DEF HostFails, Calls
      <3>2. \A x \in A : x.kind # "set"
        BY DEF AskCalls, Log
      <3>3. AskCalls({Section} \cup HostDicts, LaterCalls) \subseteq A /\ <<Log>> \in Seq(A)
        OBVIOUS
      <3> HIDE DEF A
      <3>4. Handler \in Seq(A)
        BY <3>3, HandlerTyped, SeqMonotone
      <3>5. Handler \o <<Log>> \in Seq(A)
        BY <3>3, <3>4
      <3> QED BY <3>1, <3>2, <3>5, NoSetOf
    <2> QED BY <2>2, <2>3, <2>4, <2>5, <2>6, <2>7, <2>8
  <1>4. ASSUME NEW n \in 1 .. MaxHosts
        PROVE  HostSo(n)'
    BY <1>1, <1>3, <1>4, HostBrings DEF HostsSo
  <1> QED BY <1>1, <1>2, <1>4 DEF SectionSo, HostsSo

(* Every step leaves the dictionaries of sections and hosts as they should *)
(* be.                                                                     *)
LEMMA ShapesStep ==
    ASSUME SettingsVisible, SimpleNames, IInv, IInv', SayInv, ShapeInv, [Next]_vars
    PROVE  ShapeInv'
  <1> SUFFICES ASSUME ~raced', ~Crashed'
               PROVE  FileShape' /\ FilePresent' /\ SectionSo' /\ HostsSo'
    BY DEF ShapeInv
  <1>1. ~raced /\ ~Crashed
    BY StaysQuiet
  <1>2. TypeOK /\ Working /\ Working' /\ KeyInv /\ MainSays /\ FileShape /\ FilePresent /\ SectionSo /\ HostsSo
    BY <1>1 DEF IInv, SayInv, ShapeInv
  <1>3. FileShape'
    BY <1>2, ShapeStep
  <1>4. CASE UNCHANGED vars
    <2>1. UNCHANGED <<file, content, phase, section, hosts>> /\ todo'[Main] = todo[Main]
      BY <1>4 DEF vars, results
    <2> QED BY <1>2, <1>3, <2>1, HostsOthers
  <1>5. ASSUME NEW t \in Threads, ThreadStep(t)
        PROVE  FilePresent' /\ SectionSo' /\ HostsSo'
    <2>1. CASE \/ t # Main
               \/ BeginCall(t) \/ BeginLine(t) \/ AskConfig(t) \/ FindDefault(t)
      <3>1. UNCHANGED <<file, content, phase, section, hosts>> /\ todo'[Main] = todo[Main]
        BY <1>2, <1>5, <2>1, OthersLeave
      <3> QED BY <1>2, <3>1, HostsOthers
    <2>2. CASE t = Main /\ ~(BeginCall(t) \/ BeginLine(t) \/ AskConfig(t) \/ FindDefault(t))
      <3>1. ~CrashOnFreed(Main)
        BY DEF CrashOnFreed, Crashed
      <3>2. \/ FinishSet(Main)
            \/ FinishAdd(Main) \/ FinishAsk(Main) \/ FinishInherit(Main) \/ FinishInfo(Main) \/ FinishListen(Main)
            \/ ShowConfigured(Main) \/ ShowDefault(Main)
        BY <1>5, <2>2, <3>1 DEF ThreadStep
      <3>3. CASE FinishSet(Main)
        BY <1>2, <3>3, SetHosts
      <3>4. CASE \/ FinishAdd(Main) \/ FinishAsk(Main) \/ FinishInherit(Main) \/ FinishInfo(Main) \/ FinishListen(Main)
                 \/ ShowConfigured(Main) \/ ShowDefault(Main)
        BY <1>2, <3>4, CallsHosts, CallsSection
      <3> QED BY <3>2, <3>3, <3>4
    <2> QED BY <2>1, <2>2
  <1>6. CASE NextSection
    BY <1>2, <1>3, <1>6, SectionStarts
  <1>7. CASE AddHost
    BY <1>2, <1>3, <1>7, HostStarts
  <1>8. CASE StartSocketThread \/ LoadFile \/ Merge \/ FreeDictionaries \/ LoadModules \/ HostFails
    BY <1>2, <1>3, <1>8, OtherStarts
  <1> QED BY <1>3, <1>4, <1>5, <1>6, <1>7, <1>8 DEF Next

(* What the hosts whose dictionary has been copied mean.                   *)
LEMMA HostsSayNow ==
    ASSUME Working, FilePresent, HostsSo
    PROVE  HostsSay
  <1> SUFFICES ASSUME NEW n \in DOMAIN hosts
               PROVE  /\ file \in Files \ {NULL}
                      /\ NoSet(todo[Main], HostDict(n)) =>
                            \A k \in KeyNames : Get(content[HostDict(n)], <<k>>, NULL) = HostMeans(file, hosts[n])[k]
    BY DEF HostsSay
  <1>1. hosts \in Seq(Text) /\ Len(hosts) <= MaxHosts /\ hosts # <<>> /\ file \in Files
    BY DEF Working, PhaseOK
  <1>2. file # NULL
    BY <1>1 DEF FilePresent
  <1>3. n \in 1 .. MaxHosts /\ ~(n > Len(hosts))
    BY <1>1, HostsAssumption
  <1>4. ASSUME NoSet(todo[Main], HostDict(n)), NEW k \in KeyNames
        PROVE  Get(content[HostDict(n)], <<k>>, NULL) = HostMeans(file, hosts[n])[k]
    <2>1. FinalSays(todo[Main], HostDict(n), content[HostDict(n)], <<k>>, HostMeans(file, hosts[n])[k])
      BY <1>3 DEF HostsSo, HostSo
    <2> QED BY <1>4, <2>1, FinalQuiet
  <1> QED BY <1>1, <1>2, <1>4

(* A crash leaves the dictionaries as they are, and nothing happens then.  *)
LEMMA CrashLeaves ==
    ASSUME [Next]_vars, Crashed', HostsSay
    PROVE  HostsSay'
  <1>1. UNCHANGED <<file, content, todo, hosts, raced>>
    <2>1. CASE UNCHANGED vars
      BY <2>1 DEF vars, lookups, results
    <2>2. ASSUME NEW t \in Threads, ThreadStep(t)
          PROVE  UNCHANGED <<file, content, todo, hosts, raced>>
      <3>1. (Idle(t) => ~Crashed) /\ (\A kind : InCall(t, kind) => ~Crashed)
        BY DEF Idle, InCall, Crashed
      <3>2. CASE CrashOnFreed(t)
        BY <3>2 DEF CrashOnFreed, lookups, results
      <3>3. CASE ~CrashOnFreed(t)
        <4>1. ~Crashed
          BY <2>2, <3>1
             DEF ThreadStep, BeginCall, FinishAdd, FinishSet, FinishAsk, FinishInherit, FinishInfo, FinishListen,
                 BeginLine, ShowConfigured, FindDefault, ShowDefault, AskConfig, CrashOnFreed
        <4>2. phase' = phase
          BY <2>2, <3>3
             DEF ThreadStep, BeginCall, FinishAdd, FinishSet, FinishAsk, FinishInherit, FinishInfo, FinishListen,
                 BeginLine, ShowConfigured, FindDefault, ShowDefault, AskConfig, EndLine, Return, Finish
        <4> QED BY <4>1, <4>2 DEF Crashed
      <3> QED BY <3>2, <3>3
    <2>3. CASE \/ StartSocketThread \/ LoadFile \/ FreeDictionaries \/ LoadModules
               \/ NextSection \/ AddHost \/ HostFails
      <3>1. phase' # "crashed"
        BY <2>3 DEF StartSocketThread, LoadFile, FreeDictionaries, LoadModules, NextSection, AddHost, HostFails
      <3> QED BY <3>1 DEF Crashed
    <2>4. CASE Merge
      BY <2>4 DEF Merge, Crashed, lookups, results
    <2> QED BY <2>1, <2>2, <2>3, <2>4 DEF Next
  <1> QED BY <1>1 DEF HostsSay

(* Before there is a host nothing is in its dictionary.                    *)
LEMMA HostsInit == Init => HostInv
  <1> SUFFICES ASSUME Init PROVE HostInv
    OBVIOUS
  <1>1. phase = "listen" /\ hosts = <<>> /\ content = [d \in Dicts |-> <<>>] /\ Len(hosts) = 0
    BY DEF Init
  <1>2. todo[Main] = <<Set(defaults, Instance, Hostname), Set(defaults, Cluster, Private), Log>>
    BY ThreadsDistinct DEF Init
  <1>3. content[File] = <<>>
    BY <1>1, DictsDistinct
  <1>4. FileShape
    <2>1. SectionsSo(<<>>)
      BY DEF SectionsSo
    <2> QED BY <1>1, <1>3, <2>1 DEF FileShape, LatePhases
  <1>5. FilePresent /\ SectionSo
    BY <1>1 DEF FilePresent, SectionSo
  <1>6. ASSUME NEW n \in 1 .. MaxHosts
        PROVE  HostSo(n)
    <2>1. defaults # HostDict(n) /\ content[HostDict(n)] = <<>> /\ n > Len(hosts)
      BY <1>1, DictsDistinct DEF Init
    <2>2. NoSet(todo[Main], HostDict(n))
      BY <1>2, <2>1 DEF NoSet, Set, Log
    <2> QED BY <2>1, <2>2 DEF HostSo
  <1>7. HostsSay
    BY <1>1 DEF HostsSay
  <1> QED BY <1>4, <1>5, <1>6, <1>7 DEF HostInv, ShapeInv, HostsSo

(* How the dictionaries of sections and hosts come to hold what the file   *)
(* says, in every state that can be reached (config.c, host.c).            *)
THEOREM HostsInvariant == SettingsVisible /\ SimpleNames => (Spec => []HostInv)
  <1> SUFFICES ASSUME SettingsVisible, SimpleNames
               PROVE  Spec => []HostInv
    OBVIOUS
  <1>1. Init => ShapeInv /\ HostsSay
    BY HostsInit DEF HostInv
  <1>2. IInv /\ IInv' /\ SayInv /\ ShapeInv /\ [Next]_vars => ShapeInv'
    BY ShapesStep
  <1>3. IInv /\ ShapeInv => Crashed \/ HostsSay
    <2> SUFFICES ASSUME IInv, ShapeInv, ~Crashed, ~raced PROVE HostsSay
      BY DEF HostsSay
    <2>1. Working /\ FilePresent /\ HostsSo
      BY DEF IInv, ShapeInv
    <2> QED BY <2>1, HostsSayNow
  <1>4. HostsSay /\ [Next]_vars /\ Crashed' => HostsSay'
    BY CrashLeaves
  <1>5. HostInv <=> ShapeInv /\ HostsSay
    BY DEF HostInv
  <1> QED BY <1>1, <1>2, <1>3, <1>4, <1>5, CallsInvariant, SaysInvariant, PTL DEF Spec

(* What a host is to mean is what the file says of it.                     *)
LEMMA HostSettingMeant ==
    ASSUME file \in Files \ {NULL}, NEW s, NEW k \in KeyNames
    PROVE  HostSetting(s, k) = HostMeans(file, s)[k]
  <1> DEFINE lines == OwnLines(file, s, k)
             own == OwnOf(file, s)
             def == CASE k = "instance" -> Global(Instance) [] k = "cluster" -> Global(Cluster) [] OTHER -> NULL
             i == Says(file, Instance, Hostname)
             c == Says(file, Cluster, Private)
  <1>1. HostSetting(s, k) = IF k = "name" THEN Tail(s) ELSE IF lines = {} THEN def ELSE file[Max(lines)].val
    <2>1. lines = {j \in DOMAIN file : file[j].val # NULL /\ (Folded(file[j].section) = s /\ Folded(file[j].name) = <<k>>)}
      BY DEF OwnLines
    <2> QED BY <2>1 DEF HostSetting, LastSetting, Settings
  <1>2. lines # {} => file[Max(lines)].val # NULL
    <2>1. lines \in SUBSET (0 .. Len(file)) /\ Len(file) \in Nat
      BY FileFacts DEF OwnLines
    <2>2. lines # {} => Max(lines) \in lines
      <3> HIDE DEF lines
      <3> QED BY <2>1, LastPlace
    <2> QED BY <2>2 DEF OwnLines
  <1>3. DOMAIN own = KeyNames /\ own[k] = IF lines = {} THEN NULL ELSE file[Max(lines)].val
    BY DEF OwnOf
  <1>4. Global(Instance) = i /\ Global(Cluster) = c
    BY GlobalIsSaid
  <1>5. "name" \in KeyNames /\ "instance" \in KeyNames /\ "cluster" \in KeyNames
    BY FieldNames
  <1>6. def = IF k = "instance" THEN i ELSE IF k = "cluster" THEN c ELSE NULL
    BY <1>4
  <1> HIDE DEF def, lines, own, i, c
  <1>7. HostMeans(file, s) = AllOf(own, s, i, c)
    BY DEF HostMeans, own, i, c
  <1>8. DOMAIN NamedAs(own, s) = KeyNames /\ NamedAs(own, s)[k] = IF k = "name" THEN Tail(s) ELSE own[k]
    BY <1>3 DEF NamedAs
  <1>9. /\ DOMAIN GivenTo(own, s, i) = KeyNames
        /\ GivenTo(own, s, i)[k] = IF k = "instance" /\ own["instance"] = NULL THEN i ELSE NamedAs(own, s)[k]
    BY <1>3, <1>8 DEF GivenTo
  <1>10. AllOf(own, s, i, c)[k] = IF k = "cluster" /\ own["cluster"] = NULL THEN c ELSE GivenTo(own, s, i)[k]
    BY <1>9 DEF AllOf
  <1> QED BY <1>1, <1>2, <1>3, <1>6, <1>7, <1>8, <1>9, <1>10

(* For every file in which no section has the name of a setting and        *)
(* settings have simple names: until two threads have met in strlwc, a     *)
(* host is configured by its own section and by no other, whatever the     *)
(* order of the sections and however often they begin (host.c, lines 81 to *)
(* 173).                                                                   *)
THEOREM HostsGetTheirs == SettingsVisible /\ SimpleNames => (Spec => []HostSettings)
  <1> SUFFICES ASSUME SettingsVisible, SimpleNames
               PROVE  Spec => []HostSettings
    OBVIOUS
  <1>1. HostInv => HostSettings
    <2> SUFFICES ASSUME HostInv, ~raced, NEW n \in DOMAIN hosts, Copied(n), NEW k \in KeyNames
                 PROVE  Get(content[HostDict(n)], <<k>>, NULL) = HostSetting(hosts[n], k)
      BY DEF HostSettings, KeyNames
    <2>1. NoSet(todo[Main], HostDict(n))
      BY DEF NoSet, Copied
    <2>2. /\ file \in Files \ {NULL}
          /\ Get(content[HostDict(n)], <<k>>, NULL) = HostMeans(file, hosts[n])[k]
      BY <2>1 DEF HostInv, HostsSay
    <2> QED BY <2>2, HostSettingMeant
  <1> QED BY <1>1, HostsInvariant, PTL

=============================================================================
