------------------------------ MODULE Dispatch ------------------------------
(***************************************************************************)
(* What the core of ContainerWare promises about requests, without threads *)
(* or locks: a request that an endpoint hands over is assigned to the      *)
(* mailbox of one worker or dropped, each worker takes its requests in the *)
(* order they were assigned, one at a time, and a request that was dropped *)
(* or whose worker is done with it never comes back.                       *)
(***************************************************************************)
EXTENDS Sequences

CONSTANTS Requests, Workers, NULL

VARIABLES
    fresh,      \* requests that no endpoint has handed over yet
    routing,    \* requests on their way to a worker
    mailbox,    \* for each worker, the requests assigned and not yet taken
    serving     \* for each worker, the request it processes, or NULL

vars == <<fresh, routing, mailbox, serving>>

Init ==
    /\ fresh = Requests
    /\ routing = {}
    /\ mailbox = [w \in Workers |-> <<>>]
    /\ serving = [w \in Workers |-> NULL]

-----------------------------------------------------------------------------
Accept(q) ==
    /\ q \in fresh
    /\ fresh' = fresh \ {q}
    /\ routing' = routing \cup {q}
    /\ UNCHANGED <<mailbox, serving>>

Assign(q, w) ==
    /\ q \in routing
    /\ routing' = routing \ {q}
    /\ mailbox' = [mailbox EXCEPT ![w] = Append(@, q)]
    /\ UNCHANGED <<fresh, serving>>

Drop(q) ==
    /\ q \in routing
    /\ routing' = routing \ {q}
    /\ UNCHANGED <<fresh, mailbox, serving>>

Take(w) ==
    /\ serving[w] = NULL
    /\ mailbox[w] # <<>>
    /\ serving' = [serving EXCEPT ![w] = Head(mailbox[w])]
    /\ mailbox' = [mailbox EXCEPT ![w] = Tail(@)]
    /\ UNCHANGED <<fresh, routing>>

Complete(w) ==
    /\ serving[w] # NULL
    /\ serving' = [serving EXCEPT ![w] = NULL]
    /\ UNCHANGED <<fresh, routing, mailbox>>

Next ==
    \/ \E q \in Requests : Accept(q) \/ Drop(q) \/ \E w \in Workers : Assign(q, w)
    \/ \E w \in Workers : Take(w) \/ Complete(w)

Spec == Init /\ [][Next]_vars
=============================================================================
