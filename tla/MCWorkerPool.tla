---------------------------- MODULE MCWorkerPool ----------------------------
(* Instances of the worker pool for TLC. *)
EXTENDS WorkerPool, TLC

(* Workers are interchangeable, and so are requests. *)
Symmetry == Permutations(Workers) \cup Permutations(Requests)

CONSTANTS h1, h2, l1, l2

(* One host with one listener, as main sets up from a section of the       *)
(* configuration.                                                          *)
OneHostOrder == <<h1>>
OneHostOf == [l \in {l1} |-> h1]

(* One host with two listeners: worker_locate, worker_create and           *)
(* worker_queue_request are documented as thread-safe.                     *)
SharedHostOf == [l \in {l1, l2} |-> h1]

(* Two hosts, one after the other. *)
TwoHostsOrder == <<h1, h2>>

(* Each with a listener, as main sets them up.                             *)
OwnHostOf == [l \in {l1, l2} |-> IF l = l1 THEN h1 ELSE h2]

NoMinimum == [h \in Hosts |-> 0]
OneEach == [h \in Hosts |-> 1]
OneNegative == [h \in Hosts |-> IF h = h1 THEN 1 ELSE -1]
=============================================================================
