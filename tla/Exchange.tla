------------------------------ MODULE Exchange ------------------------------
(***************************************************************************)
(* What one client is promised, without threads, references or queues: its *)
(* request is accepted, and then either given up with nothing sent, or     *)
(* queued and taken by one worker, which sends every piece of the answer.  *)
(* The answer is logged when it is whole, and the request is finished once *)
(* it has been logged, and stays finished.                                 *)
(***************************************************************************)
EXTENDS Naturals

VARIABLES
    stage,      \* how far the request has come
    sent,       \* the pieces of the answer that were sent
    whole       \* the pieces of the answer, which is not for this module to choose

vars == <<stage, sent>>

Init == stage = "none" /\ sent = 0

Pass(from, to) == stage = from /\ stage' = to /\ sent' = sent

Ask == Pass("none", "asked")
Accept == Pass("asked", "accepted")
Queue == Pass("accepted", "queued")
Take == Pass("queued", "taken")

Send ==
    /\ stage = "taken" /\ sent < whole
    /\ sent' = sent + 1 /\ stage' = stage

Log == Pass("taken", "logged") /\ sent = whole

Finish == Pass("accepted", "finished") \/ Pass("logged", "finished")

Next == Ask \/ Accept \/ Queue \/ Take \/ Send \/ Log \/ Finish

Spec == Init /\ [][Next]_vars
=============================================================================
