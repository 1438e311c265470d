---------------------------- MODULE FcgiRequest ----------------------------
(***************************************************************************)
(* One FastCGI request in the hands of a worker (endpoints/fcgi/request.c  *)
(* with the utilities of libcontainer/endpoint.c): the path elements that  *)
(* it consumes and the response that it writes.  The container is foreign  *)
(* code and may call the methods in any order.                             *)
(*                                                                         *)
(* A header table maps keys, lower-cased names, to a pair of the name as   *)
(* last given and the list of values; the entry STATUS holds the numeric   *)
(* status.  Streams are those of the FastCGI library (external): what is   *)
(* put on an open one is sent, on a closed one nothing is.                 *)
(***************************************************************************)
EXTENDS RequestPath, TLC

CONSTANTS
    Uris,       \* REQUEST_URI of the environment; NULL if there is none
    Names,      \* names of headers as callers write them
    KeyOf,      \* the lower-cased name
    Values,     \* values of headers
    CodeOf,     \* what strtol reads in them; 0 if it is no valid status
    Size,       \* lengths of names and values
    BodySize,   \* length of what a call of write puts
    Ok,         \* "200 OK"
    Html,       \* "text/html"
    NULL,
    MaxValues,  \* bound: values of one header
    MaxBody,    \* bound: calls of write
    Faults      \* "memory": strdup may fail

Keys == {KeyOf[n] : n \in Names}

Header == [name : Names, values : Seq(Values)]

ASSUME HeadersAssumption ==
    /\ {"Status", "Content-Type"} \subseteq Names
    /\ KeyOf["Status"] = "status" /\ KeyOf["Content-Type"] = "content-type"
    /\ {Ok, Html} \subseteq Values /\ NULL \notin Values \cup Header
    /\ CodeOf \in [Values -> {0} \cup 100 .. 999] /\ CodeOf[Ok] = 200
    /\ Size \in [Names \cup Values -> Nat] /\ BodySize \in Nat \ {0}
ASSUME UrisAssumption == Uris \subseteq Seq(Chars) \cup {NULL} /\ NULL \notin Text
ASSUME BoundsAssumption == MaxValues \in Nat /\ MaxBody \in Nat
ASSUME FaultsAssumption == Faults \subseteq {"memory"}

VARIABLES
    uri,            \* REQUEST_URI
    params_array,   \* the elements not yet consumed
    current_array,  \* those consumed
    headers,        \* the header table, NULL where a key has no entry
    status,         \* its entry STATUS
    headers_sent,
    wbytes,
    out,            \* what has been put on the output stream
    open,           \* the streams have not been closed
    starved         \* a strdup has failed

pathVars == <<uri, params_array, current_array>>
headerVars == <<headers, status, starved>>
streamVars == <<headers_sent, wbytes, out, open>>
vars == <<pathVars, headerVars, streamVars>>

(* The headers that cw_request_headers_init sets; the caller does not ask  *)
(* whether it could.                                                       *)
InitialHeaders(lost) ==
    [k \in Keys |->
        CASE k = "status" /\ k \notin lost -> [name |-> "Status", values |-> <<Ok>>]
          [] k = "content-type" /\ k \notin lost -> [name |-> "Content-Type", values |-> <<Html>>]
          [] OTHER -> NULL]

Init ==
    /\ uri \in Uris
    /\ params_array = IF uri = NULL THEN <<>> ELSE RequestArray(uri)
    /\ current_array = <<>>
    /\ status = CodeOf[Ok]
    /\ headers_sent = FALSE
    /\ wbytes = 0
    /\ out = <<>>
    /\ open = TRUE
    /\ \E lost \in SUBSET {"status", "content-type"} :
        /\ lost # {} => "memory" \in Faults
        /\ headers = InitialHeaders(lost)
        /\ starved = (lost # {})

-----------------------------------------------------------------------------
(* consume: the first element that is left moves to the consumed ones. *)
Consume ==
    /\ params_array # <<>>
    /\ params_array' = Tail(params_array)
    /\ current_array' = Append(current_array, Head(params_array))
    /\ UNCHANGED <<uri, headerVars, streamVars>>

(* Faulty variant: a second Status may be appended. *)
RefusedUnlessAppended(n, v, replace) ==
    v = NULL /\ (~replace \/ KeyOf[n] = "status")

(* Faulty variant: nothing can be appended. *)
RefusedAsStatus(n, v, replace) ==
    KeyOf[n] = "status" /\ (v = NULL \/ ~replace \/ CodeOf[v] = 0)

(* What cw_request_headers_vset turns down before it changes anything.     *)
(* Nothing cannot be appended, and there is exactly one, valid, Status.    *)
Refused(n, v, replace) ==
    \/ v = NULL /\ ~replace
    \/ KeyOf[n] = "status" /\ (v = NULL \/ ~replace)
    \/ KeyOf[n] = "status" /\ v # NULL /\ CodeOf[v] = 0

(* Faulty variant: the number is stored for any header that is one. *)
NewStatusOfAny(n, v) == IF v # NULL /\ CodeOf[v] # 0 THEN CodeOf[v] ELSE status

NewStatus(n, v) == IF KeyOf[n] = "status" THEN CodeOf[v] ELSE status

OldValues(k) == IF headers[k] = NULL THEN <<>> ELSE headers[k].values

(* Faulty variant: the values that were there are not emptied. *)
AppendedValues(k, v, replace) == IF v = NULL THEN <<>> ELSE Append(OldValues(k), v)

NewValues(k, v, replace) ==
    IF ~replace THEN Append(OldValues(k), v)
    ELSE IF v = NULL THEN <<>> ELSE <<v>>

(* header, before the head is sent. *)
SetHeader(n, v, replace) ==
    /\ ~headers_sent
    /\ ~Refused(n, v, replace)
    /\ Len(NewValues(KeyOf[n], v, replace)) <= MaxValues
    /\ headers' = [headers EXCEPT ![KeyOf[n]] =
                        [name |-> n, values |-> NewValues(KeyOf[n], v, replace)]]
    /\ status' = NewStatus(n, v)
    /\ UNCHANGED <<starved, pathVars, streamVars>>

(* strdup fails after the status has been stored. *)
SetHeaderNoMemory(n, v, replace) ==
    /\ "memory" \in Faults
    /\ ~headers_sent
    /\ ~Refused(n, v, replace)
    /\ status' = NewStatus(n, v)
    /\ starved' = TRUE
    /\ UNCHANGED <<headers, pathVars, streamVars>>

(* The call changes nothing: header fails once the head is sent, and does  *)
(* not tell its caller when the table refuses.                             *)
HeaderRefused ==
    /\ \/ headers_sent
       \/ \E n \in Names, v \in Values \cup {NULL}, replace \in BOOLEAN : Refused(n, v, replace)
    /\ UNCHANGED vars

-----------------------------------------------------------------------------
Line(n, v) == [kind |-> "header", name |-> n, value |-> v]
Blank == [kind |-> "blank"]
Body == [kind |-> "body"]

Lines(k) == [i \in DOMAIN headers[k].values |-> Line(headers[k].name, headers[k].values[i])]

(* The orders in which jd_keys may list the keys (external). *)
KeyOrders == SetToSeqs({k \in Keys : headers[k] # NULL})

(* The head that cw_request_headers_send puts, for an order of the keys.   *)
(* The callback always returns 0, but r is not initialised, and is read    *)
(* after a first key without values: it may be -2, which ends the loop.    *)
Heads(order) ==
    {FlattenSeq([i \in DOMAIN order |-> Lines(order[i])])}
        \cup (IF order # <<>> /\ headers[order[1]].values = <<>> THEN {<<>>} ELSE {})

(* What is put on a closed stream goes nowhere. *)
Put(items) == IF open THEN items ELSE <<>>

LengthOf(item) ==
    CASE item.kind = "header" -> Size[item.name] + Size[item.value] + 3
      [] item.kind = "blank" -> 1
      [] item.kind = "body" -> BodySize

Bytes(items) ==
    LET sum[i \in 0 .. Len(items)] == IF i = 0 THEN 0 ELSE sum[i - 1] + LengthOf(items[i])
    IN  sum[Len(items)]

(* Faulty variant: the empty line behind the head is not counted. *)
CountedWithoutBlank(head) == Bytes(head)

(* The bytes of a head are counted whether or not it went anywhere. *)
Counted(head) == Bytes(head) + 1

(* The first write, or puts: the head, an empty line, the buffer. *)
FirstWrite ==
    /\ ~headers_sent
    /\ \E order \in KeyOrders : \E head \in Heads(order) :
        /\ out' = out \o Put(head \o <<Blank, Body>>)
        /\ wbytes' = wbytes + Counted(head) + Bytes(Put(<<Body>>))
    /\ headers_sent' = TRUE
    /\ UNCHANGED <<open, pathVars, headerVars>>

(* The next ones. *)
Write ==
    /\ headers_sent
    /\ Len(SelectSeq(out, LAMBDA item : item = Body)) < MaxBody
    /\ out' = out \o Put(<<Body>>)
    /\ wbytes' = wbytes + Bytes(Put(<<Body>>))
    /\ UNCHANGED <<headers_sent, open, pathVars, headerVars>>

(* close does not send a head. *)
Close ==
    /\ open' = FALSE
    /\ UNCHANGED <<headers_sent, wbytes, out, pathVars, headerVars>>

Next ==
    \/ Consume
    \/ \E n \in Names, v \in Values \cup {NULL}, replace \in BOOLEAN :
        SetHeader(n, v, replace) \/ SetHeaderNoMemory(n, v, replace)
    \/ HeaderRefused \/ FirstWrite \/ Write \/ Close

Spec == Init /\ [][Next]_vars

-----------------------------------------------------------------------------
Items == [kind : {"header"}, name : Names, value : Values] \cup {Blank, Body}

(* Every variable keeps its type: only values are ever stored or sent      *)
(* (lines 140 to 165 of request.c, 103 to 180 of libcontainer/endpoint.c). *)
TypeOK ==
    /\ uri \in Uris
    /\ params_array \in Seq(Text) /\ current_array \in Seq(Text)
    /\ headers \in [Keys -> Header \cup {NULL}]
    /\ status \in 100 .. 999
    /\ headers_sent \in BOOLEAN /\ open \in BOOLEAN /\ starved \in BOOLEAN
    /\ wbytes \in Nat
    /\ out \in Seq(Items)

(* The elements of a path, those consumed followed by those left, are its  *)
(* segments, decoded once: an encoded slash does not separate, an empty    *)
(* segment is skipped, a query is no part of it.                           *)
PathElements ==
    current_array \o params_array = IF uri = NULL THEN <<>> ELSE ExpectedElements(uri)

(* The status that the request reports is the number in its Status header, *)
(* as long as no strdup has failed between the two.                        *)
StatusAgrees ==
    ~starved => /\ headers["status"] # NULL
                /\ Len(headers["status"].values) = 1
                /\ status = CodeOf[headers["status"].values[1]]

(* The values of a header among the items, in order.                       *)
Sent(items, k) ==
    LET sent[i \in 0 .. Len(items)] ==
            IF i = 0 THEN <<>>
            ELSE IF items[i].kind = "header" /\ KeyOf[items[i].name] = k THEN Append(sent[i - 1], items[i].value)
            ELSE sent[i - 1]
    IN  sent[Len(items)]

ValuesSent(k) == Sent(out, k)

(* "You must send exactly one 'Status' header" (endpoint.c:133): what is   *)
(* sent has one, and headers before anything else.  It can have none when  *)
(* another header has been removed (the head may then be missing) or when  *)
(* memory had run out.                                                     *)
OneStatusLine ==
    out # <<>> =>
        /\ \A i, j \in DOMAIN out : i < j /\ out[j].kind = "header" => out[i].kind = "header"
        /\ \/ Len(ValuesSent("status")) = 1
           \/ /\ ValuesSent("status") = <<>>
              /\ starved \/ \E k \in Keys : headers[k] # NULL /\ headers[k].values = <<>>

(* wbytes is the number of bytes sent, unless the first write came after   *)
(* the streams had been closed.                                            *)
BytesExact == open \/ out # <<>> => wbytes = Bytes(out)

-----------------------------------------------------------------------------
(* The response as HttpResponse sees it. *)
Abstract == INSTANCE HttpResponse WITH
    StatusKey <- "status",
    ValidStatus <- {v \in Values : CodeOf[v] # 0},
    fields <- [k \in Keys |-> OldValues(k)],
    removed <- {k \in Keys : headers[k] # NULL /\ headers[k].values = <<>>},
    head <- [k \in Keys |-> ValuesSent(k)],
    answering <- headers_sent,
    closed <- ~open

(* Until the first write headers change one name at a time: a value is     *)
(* set or added, or the name is removed. The first write sends them as     *)
(* they are then, unless the head is lost in one of the ways that          *)
(* HttpResponse names; they are not sent again and do not change any more. *)
ImplementsResponse == Abstract!Spec
=============================================================================
