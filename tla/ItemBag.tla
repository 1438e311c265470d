------------------------------- MODULE ItemBag -------------------------------
(***************************************************************************)
(* What a pointer list of src/ptrlist-impl.h promises its users: a bag of  *)
(* items.  A call to add or remove acts in one step; an iteration is open  *)
(* to the view for as long as its callbacks run, shows each item of the    *)
(* bag once, in any order, and the bag stands still meanwhile.             *)
(***************************************************************************)
EXTENDS Integers

CONSTANTS Threads, Items

VARIABLES
    bag,         \* how often each item is in the list
    iterating,   \* the threads inside an iteration
    todo,        \* for each thread, the items its iteration has yet to show
    r            \* the outcome of each thread's latest call

vars == <<bag, iterating, todo, r>>

Nothing == [i \in Items |-> 0]

Init ==
    /\ bag = Nothing
    /\ iterating = {}
    /\ todo = [t \in Threads |-> Nothing]
    /\ r = [t \in Threads |-> "none"]

-----------------------------------------------------------------------------
Add(t, i) ==
    /\ iterating = {}
    /\ bag' = [bag EXCEPT ![i] = @ + 1]
    /\ r' = [r EXCEPT ![t] = "ok"]
    /\ UNCHANGED <<iterating, todo>>

Remove(t, i) ==
    /\ iterating = {}
    /\ bag[i] > 0
    /\ bag' = [bag EXCEPT ![i] = @ - 1]
    /\ r' = [r EXCEPT ![t] = "ok"]
    /\ UNCHANGED <<iterating, todo>>

(* A call that fails leaves the bag alone. *)
Refuse(t) ==
    /\ t \notin iterating
    /\ \/ r' = [r EXCEPT ![t] = "nomem"]
       \/ /\ \E i \in Items : bag[i] = 0
          /\ r' = [r EXCEPT ![t] = "absent"]
    /\ UNCHANGED <<bag, iterating, todo>>

Open(t) ==
    /\ t \notin iterating
    /\ iterating' = iterating \cup {t}
    /\ todo' = [todo EXCEPT ![t] = bag]
    /\ r' = [r EXCEPT ![t] = "ok"]
    /\ UNCHANGED bag

Show(t, i) ==
    /\ t \in iterating
    /\ todo[t][i] > 0
    /\ todo' = [todo EXCEPT ![t][i] = @ - 1]
    /\ UNCHANGED <<bag, iterating, r>>

(* The callback asked to stop, with at least one item in its hands. *)
Stop(t) ==
    /\ t \in iterating
    /\ todo[t] # Nothing
    /\ iterating' = iterating \ {t}
    /\ todo' = [todo EXCEPT ![t] = Nothing]
    /\ r' = [r EXCEPT ![t] = "stopped"]
    /\ UNCHANGED bag

Close(t) ==
    /\ t \in iterating
    /\ todo[t] = Nothing
    /\ iterating' = iterating \ {t}
    /\ UNCHANGED <<bag, todo, r>>

Next ==
    \E t \in Threads :
        \/ \E i \in Items : Add(t, i) \/ Remove(t, i) \/ Show(t, i)
        \/ Refuse(t) \/ Open(t) \/ Stop(t) \/ Close(t)

Spec == Init /\ [][Next]_vars
=============================================================================
