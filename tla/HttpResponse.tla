---------------------------- MODULE HttpResponse ----------------------------
(***************************************************************************)
(* What the request interface promises a container about the head of a     *)
(* response: fields can be set, added to and removed until the head is     *)
(* sent, and it is sent once, as it is then.                               *)
(***************************************************************************)
EXTENDS Sequences

CONSTANTS
    Keys,       \* names of fields, regardless of case
    Values,
    StatusKey,  \* the field there is always one of
    ValidStatus \* the values it may have

VARIABLES
    fields,     \* for each field its values, in order
    removed,    \* the fields that have been taken away
    head,       \* the fields that have been sent
    answering,  \* the head is fixed
    closed      \* nothing more can be sent

vars == <<fields, removed, head, answering, closed>>

NoFields == [k \in Keys |-> <<>>]

(* Without memory a response may start without a status. *)
Init ==
    /\ fields \in [Keys -> Seq(Values)]
    /\ fields[StatusKey] \in {<<v>> : v \in ValidStatus} \cup {<<>>}
    /\ removed = {}
    /\ head = NoFields
    /\ answering = FALSE
    /\ closed = FALSE

Become(k, s) ==
    /\ ~answering
    /\ fields' = [fields EXCEPT ![k] = s]
    /\ removed' = IF s = <<>> THEN removed \cup {k} ELSE removed \ {k}
    /\ UNCHANGED <<head, answering, closed>>

SetStatus(v) == v \in ValidStatus /\ Become(StatusKey, <<v>>)
SetField(k, v) == k # StatusKey /\ Become(k, <<v>>)
AddField(k, v) == k # StatusKey /\ Become(k, Append(fields[k], v))
RemoveField(k) == k # StatusKey /\ Become(k, <<>>)

(* The head is sent as it is now.  It can only get lost, as a whole, when  *)
(* the stream has been closed or a field had been removed.                 *)
Answer ==
    /\ ~answering
    /\ answering' = TRUE
    /\ \/ head' = fields /\ ~closed
       \/ head' = NoFields /\ (closed \/ removed # {})
    /\ UNCHANGED <<fields, removed, closed>>

Close == closed' = TRUE /\ UNCHANGED <<fields, removed, head, answering>>

Next ==
    \/ \E v \in Values : SetStatus(v)
    \/ \E k \in Keys, v \in Values : SetField(k, v) \/ AddField(k, v)
    \/ \E k \in Keys : RemoveField(k)
    \/ Answer \/ Close

Spec == Init /\ [][Next]_vars
=============================================================================
