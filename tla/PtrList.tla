------------------------------- MODULE PtrList -------------------------------
(***************************************************************************)
(* The pointer list of src/ptrlist-impl.h, the template behind the worker, *)
(* host, listener, server and container lists: a growing array of slots    *)
(* guarded by one read-write lock.  Threads add, remove and iterate; the   *)
(* lock calls and the code between them are separate steps, so readers and *)
(* writers interleave as far as the lock lets them.                        *)
(*                                                                         *)
(* A list is modelled from the return of its init: every list of the       *)
(* program is initialised before a second thread exists and none is ever   *)
(* destroyed, so the "not properly initialised" return is out of reach.    *)
(***************************************************************************)
EXTENDS Integers, Sequences, FiniteSets

CONSTANTS
    Threads,
    Items,           \* the pointers that threads add and remove
    InitBlockSize,   \* the blocksize argument of init
    MaxSlots,        \* bound: realloc fails beyond this many slots
    NULL

ASSUME NullAssumption == NULL \notin Items \cup Threads
ASSUME BlockSizeAssumption == InitBlockSize \in Nat

(* init replaces a block size of zero by the default. *)
BlockSize == IF InitBlockSize = 0 THEN 8 ELSE InitBlockSize

VARIABLES
    slots,     \* list->list; its length is list->allocated
    count,     \* list->count
    readers,   \* threads that hold list->lock for reading
    writer,    \* the thread that holds it for writing, or NULL
    pc,        \* what each thread does next
    item,      \* the item argument of the call in progress
    c,         \* the index local to iterate
    r          \* the outcome of each thread's latest call

lockVars == <<readers, writer>>
vars == <<slots, count, readers, writer, pc, item, c, r>>

Results == {"none", "ok", "nomem", "full", "absent", "stopped"}

TypeOK ==
    /\ slots \in Seq(Items \cup {NULL})
    /\ count \in Nat
    /\ readers \subseteq Threads
    /\ writer \in Threads \cup {NULL}
    /\ pc \in [Threads -> {"idle", "add", "remove", "wrunlock", "iterate", "rdunlock"}]
    /\ item \in [Threads -> Items \cup {NULL}]
    /\ c \in [Threads -> Nat]
    /\ r \in [Threads -> Results]

Init ==
    /\ slots = <<>>
    /\ count = 0
    /\ readers = {}
    /\ writer = NULL
    /\ pc = [t \in Threads |-> "idle"]
    /\ item = [t \in Threads |-> NULL]
    /\ c = [t \in Threads |-> 1]
    /\ r = [t \in Threads |-> "none"]

-----------------------------------------------------------------------------
(* The slots that hold a given pointer; with NULL, the free slots. *)
Holding(s, x) == {k \in 1 .. Len(s) : s[k] = x}
Used(s) == {k \in 1 .. Len(s) : s[k] # NULL}

(* The loops stop at the lowest slot that matches. *)
IsFirst(s, x, k) == k \in Holding(s, x) /\ \A j \in Holding(s, x) : k <= j

(* Faulty variant: the test for growth is off by one. *)
MustGrowLate == count > Len(slots)

(* The array after the growth step of add_unlocked. *)
MustGrow == count + 1 > Len(slots)
Grown == IF MustGrow THEN slots \o [k \in 1 .. BlockSize |-> NULL] ELSE slots

-----------------------------------------------------------------------------
(* Faulty variant: a writer does not wait for readers. *)
WrLockPastReaders(t, call, i) ==
    /\ pc[t] = "idle" /\ writer = NULL
    /\ writer' = t
    /\ pc' = [pc EXCEPT ![t] = call]
    /\ item' = [item EXCEPT ![t] = i]
    /\ UNCHANGED <<slots, count, readers, c, r>>

(* wrlock, on entry to add and to remove. *)
WrLock(t, call, i) ==
    /\ pc[t] = "idle"
    /\ writer = NULL
    /\ readers = {}
    /\ writer' = t
    /\ pc' = [pc EXCEPT ![t] = call]
    /\ item' = [item EXCEPT ![t] = i]
    /\ UNCHANGED <<slots, count, readers, c, r>>

Return(t, outcome) ==
    /\ pc' = [pc EXCEPT ![t] = "wrunlock"]
    /\ r' = [r EXCEPT ![t] = outcome]
    /\ UNCHANGED <<item, c, readers, writer>>

(* add_unlocked: realloc returns NULL. *)
AddNoMemory(t) ==
    /\ pc[t] = "add"
    /\ MustGrow
    /\ Return(t, "nomem")
    /\ UNCHANGED <<slots, count>>

(* add_unlocked: the item goes into the first free slot.  The return after *)
(* the loop is for an array without one, which "should never happen".      *)
AddSlot(t) ==
    /\ pc[t] = "add"
    /\ Len(Grown) <= MaxSlots
    /\ IF Holding(Grown, NULL) = {}
       THEN /\ slots' = Grown
            /\ Return(t, "full")
            /\ UNCHANGED count
       ELSE /\ \E k \in 1 .. Len(Grown) :
                /\ IsFirst(Grown, NULL, k)
                /\ slots' = [Grown EXCEPT ![k] = item[t]]
            /\ Return(t, "ok")
            /\ count' = count + 1

(* Faulty variants: every slot that holds the item is cleared; the count   *)
(* is not decremented; it is decremented though nothing was found.         *)
RemoveFromAllSlots(t) ==
    /\ pc[t] = "remove" /\ Holding(slots, item[t]) # {}
    /\ slots' = [k \in DOMAIN slots |-> IF slots[k] = item[t] THEN NULL ELSE slots[k]]
    /\ count' = count - 1
    /\ Return(t, "ok")

RemoveWithoutCount(t) ==
    /\ pc[t] = "remove"
    /\ \E k \in 1 .. Len(slots) :
        IsFirst(slots, item[t], k) /\ slots' = [slots EXCEPT ![k] = NULL]
    /\ Return(t, "ok")
    /\ UNCHANGED count

RemoveAbsentCounts(t) ==
    /\ pc[t] = "remove" /\ Holding(slots, item[t]) = {}
    /\ count' = count - 1
    /\ Return(t, "absent")
    /\ UNCHANGED slots

(* remove_unlocked: the first slot that holds the item is cleared. *)
RemoveFound(t) ==
    /\ pc[t] = "remove"
    /\ \E k \in 1 .. Len(slots) :
        /\ IsFirst(slots, item[t], k)
        /\ slots' = [slots EXCEPT ![k] = NULL]
    /\ count' = count - 1
    /\ Return(t, "ok")

(* remove_unlocked: ENOENT. *)
RemoveAbsent(t) ==
    /\ pc[t] = "remove"
    /\ Holding(slots, item[t]) = {}
    /\ Return(t, "absent")
    /\ UNCHANGED <<slots, count>>

(* unlock, at the end of add and of remove. *)
WrUnlock(t) ==
    /\ pc[t] = "wrunlock"
    /\ writer' = NULL
    /\ pc' = [pc EXCEPT ![t] = "idle"]
    /\ item' = [item EXCEPT ![t] = NULL]
    /\ UNCHANGED <<slots, count, readers, c, r>>

-----------------------------------------------------------------------------
(* iterate takes the lock for reading. *)
RdLock(t) ==
    /\ pc[t] = "idle"
    /\ writer = NULL
    /\ readers' = readers \cup {t}
    /\ pc' = [pc EXCEPT ![t] = "iterate"]
    /\ c' = [c EXCEPT ![t] = 1]
    /\ r' = [r EXCEPT ![t] = "ok"]
    /\ UNCHANGED <<slots, count, writer, item>>

(* One turn of the loop of iterate: an empty slot is passed over, for a    *)
(* used one the callback runs and may ask to stop.                         *)
IterateSkip(t) ==
    /\ pc[t] = "iterate"
    /\ c[t] <= Len(slots)
    /\ slots[c[t]] = NULL
    /\ c' = [c EXCEPT ![t] = @ + 1]
    /\ UNCHANGED <<slots, count, lockVars, pc, item, r>>

IterateVisit(t) ==
    /\ pc[t] = "iterate"
    /\ c[t] <= Len(slots)
    /\ slots[c[t]] # NULL
    /\ \/ /\ c' = [c EXCEPT ![t] = @ + 1]
          /\ UNCHANGED <<pc, r>>
       \/ /\ pc' = [pc EXCEPT ![t] = "rdunlock"]
          /\ r' = [r EXCEPT ![t] = "stopped"]
          /\ UNCHANGED c
    /\ UNCHANGED <<slots, count, lockVars, item>>

IterateEnd(t) ==
    /\ pc[t] = "iterate"
    /\ c[t] > Len(slots)
    /\ pc' = [pc EXCEPT ![t] = "rdunlock"]
    /\ UNCHANGED <<slots, count, lockVars, item, c, r>>

RdUnlock(t) ==
    /\ pc[t] = "rdunlock"
    /\ readers' = readers \ {t}
    /\ pc' = [pc EXCEPT ![t] = "idle"]
    /\ UNCHANGED <<slots, count, writer, item, c, r>>

Write(t) == AddNoMemory(t) \/ AddSlot(t) \/ RemoveFound(t) \/ RemoveAbsent(t)

Next ==
    \E t \in Threads :
        \/ \E call \in {"add", "remove"}, i \in Items : WrLock(t, call, i)
        \/ Write(t) \/ WrUnlock(t)
        \/ RdLock(t) \/ IterateSkip(t) \/ IterateVisit(t) \/ IterateEnd(t)
        \/ RdUnlock(t)

Spec == Init /\ [][Next]_vars

-----------------------------------------------------------------------------
(* list->count is the number of used slots, whatever adds, removals and    *)
(* failed growths came before (lines 97, 117 and 147).                     *)
CountExact == count = Cardinality(Used(slots))

(* add_unlocked never reaches the return below its loop: whenever growth   *)
(* was not asked for, or succeeded, there is a free slot.                  *)
NeverFull == \A t \in Threads : r[t] # "full"

(* No slot changes under a thread that iterates: a reader keeps the lock   *)
(* until it has left the loop (lines 161 to 173).                          *)
StableIteration ==
    [][\A t \in Threads : pc[t] = "iterate" => UNCHANGED <<slots, count>>]_vars

-----------------------------------------------------------------------------
(* Refinement: the list is a bag of items.  What an iterating thread has   *)
(* still to see is what the slots from its index on hold.                  *)
BagFrom(s, from) == [i \in Items |-> Cardinality({k \in Holding(s, i) : k >= from})]

bag == BagFrom(slots, 1)
todo == [t \in Threads |-> IF pc[t] = "iterate" THEN BagFrom(slots, c[t]) ELSE BagFrom(<<>>, 1)]
iterating == {t \in Threads : pc[t] = "iterate"}

Abstract == INSTANCE ItemBag

(* Adding, removing and iterating through the slots behave as the same     *)
(* operations on a bag: a removal takes exactly one occurrence and fails   *)
(* only when there is none, an add fails only for lack of memory, and an   *)
(* iteration that is not stopped shows every item exactly once.            *)
ImplementsBag == Abstract!Spec
=============================================================================
