---------------------------- MODULE PtrListProofs ----------------------------
(***************************************************************************)
(* Proofs about PtrList, for any threads, items and block size: the count  *)
(* is exact, the array is never found full after growing, and iterations   *)
(* see slots that stand still.                                             *)
(***************************************************************************)
EXTENDS PtrList, FiniteSetTheorems, SequenceTheorems, TLAPS

(* Who holds the lock is what the program counters say: a writer is alone, *)
(* and a thread reads only with the lock held for reading.                 *)
LockInv ==
    /\ \A t \in Threads : pc[t] \in {"add", "remove", "wrunlock"} => writer = t
    /\ \A t \in Threads : pc[t] \in {"iterate", "rdunlock"} => t \in readers
    /\ writer # NULL => readers = {}

ArgInv ==
    /\ \A t \in Threads : pc[t] \in {"add", "remove"} => item[t] \in Items
    /\ \A t \in Threads : c[t] >= 1

IInv == TypeOK /\ LockInv /\ ArgInv /\ CountExact /\ NeverFull

-----------------------------------------------------------------------------
(* The list grows by a positive number of slots. *)
LEMMA BlockSizePositive == BlockSize \in Nat \ {0}
  BY BlockSizeAssumption DEF BlockSize

(* The used slots of a list are finitely many. *)
LEMMA UsedFinite ==
    ASSUME NEW s \in Seq(Items \cup {NULL})
    PROVE  /\ IsFiniteSet(Used(s))
           /\ Cardinality(Used(s)) \in Nat
           /\ Cardinality(Used(s)) <= Len(s)
  <1>1. IsFiniteSet(1 .. Len(s)) /\ Cardinality(1 .. Len(s)) = Len(s)
    <2>1. Len(s) \in Nat
      OBVIOUS
    <2>2. IsFiniteSet(1 .. Len(s)) /\ Cardinality(1 .. Len(s)) = IF 1 > Len(s) THEN 0 ELSE Len(s) - 1 + 1
      BY <2>1, FS_Interval
    <2> QED BY <2>1, <2>2
  <1>2. Used(s) \subseteq 1 .. Len(s)
    BY DEF Used
  <1> QED BY <1>1, <1>2, FS_Subset, FS_CardinalityType

(* A list with a slot to spare has a free slot. *)
LEMMA FreeSlot ==
    ASSUME NEW s \in Seq(Items \cup {NULL}), Cardinality(Used(s)) < Len(s)
    PROVE  Holding(s, NULL) # {}
  <1>1. SUFFICES ASSUME Holding(s, NULL) = {}
                 PROVE  FALSE
    OBVIOUS
  <1>2. Used(s) = 1 .. Len(s)
    BY <1>1 DEF Used, Holding
  <1>3. Len(s) \in Nat
    OBVIOUS
  <1>4. Cardinality(1 .. Len(s)) = IF 1 > Len(s) THEN 0 ELSE Len(s) - 1 + 1
    BY <1>3, FS_Interval
  <1> QED BY <1>2, <1>3, <1>4

(* Growing adds free slots only, and one at least when it is called for. *)
LEMMA GrownFacts ==
    ASSUME slots \in Seq(Items \cup {NULL}), count \in Nat
    PROVE  /\ Grown \in Seq(Items \cup {NULL})
           /\ Len(Grown) >= Len(slots)
           /\ Used(Grown) = Used(slots)
           /\ \A i \in Items : Holding(Grown, i) = Holding(slots, i)
           /\ MustGrow => Len(Grown) > Len(slots)
  <1> DEFINE blank == [k \in 1 .. BlockSize |-> NULL]
  <1>1. CASE ~MustGrow
    BY <1>1 DEF Grown
  <1>2. CASE MustGrow
    <2>1. BlockSize \in Nat /\ BlockSize > 0
      BY BlockSizePositive
    <2>2. blank \in Seq(Items \cup {NULL}) /\ Len(blank) = BlockSize
      BY <2>1
    <2>3. Grown = slots \o blank
      BY <1>2 DEF Grown
    <2>4. /\ Grown \in Seq(Items \cup {NULL})
          /\ Len(Grown) = Len(slots) + BlockSize
          /\ \A k \in 1 .. Len(slots) + BlockSize :
                Grown[k] = IF k <= Len(slots) THEN slots[k] ELSE blank[k - Len(slots)]
      <3> HIDE DEF blank
      <3> QED BY ONLY <2>2, <2>3, ConcatProperties, slots \in Seq(Items \cup {NULL})
    <2>5. \A k \in 1 .. Len(Grown) : k > Len(slots) => Grown[k] = NULL
      <3>1. TAKE k \in 1 .. Len(Grown)
      <3>2. HAVE k > Len(slots)
      <3>3. k - Len(slots) \in 1 .. BlockSize
        BY <2>1, <2>4, <3>1, <3>2
      <3>4. blank[k - Len(slots)] = NULL
        BY <3>3 DEF blank
      <3> QED BY <2>4, <3>2, <3>4
    <2>6. Used(Grown) = Used(slots)
      BY <2>1, <2>4, <2>5 DEF Used
    <2>7. \A i \in Items : Holding(Grown, i) = Holding(slots, i)
      BY <2>1, <2>4, <2>5, NullAssumption DEF Holding
    <2> QED BY <2>1, <2>4, <2>6, <2>7
  <1> QED BY <1>1, <1>2

(* Writing one slot. *)
LEMMA StoreSlot ==
    ASSUME NEW s \in Seq(Items \cup {NULL}), NEW k \in 1 .. Len(s), NEW v \in Items \cup {NULL},
           NEW s2, s2 = [s EXCEPT ![k] = v]
    PROVE  /\ s2 \in Seq(Items \cup {NULL})
           /\ Len(s2) = Len(s)
           /\ Used(s2) = IF v = NULL THEN Used(s) \ {k} ELSE Used(s) \cup {k}
  <1>1. /\ s2 \in Seq(Items \cup {NULL})
        /\ Len(s2) = Len(s)
        /\ \A j \in 1 .. Len(s) : s2[j] = IF j = k THEN v ELSE s[j]
    BY ExceptSeq
  <1>2. Used(s2) = IF v = NULL THEN Used(s) \ {k} ELSE Used(s) \cup {k}
    BY <1>1 DEF Used
  <1> QED BY <1>1, <1>2

-----------------------------------------------------------------------------
(* An empty list with a free lock satisfies the invariant. *)
LEMMA InitIInv == Init => IInv
  <1> SUFFICES ASSUME Init
               PROVE  IInv
    OBVIOUS
  <1>1. TypeOK
    BY DEF Init, TypeOK, Results
  <1>2. LockInv /\ ArgInv /\ NeverFull
    BY DEF Init, LockInv, ArgInv, NeverFull
  <1>3. Used(<<>>) = {}
    BY DEF Used
  <1>4. CountExact
    BY <1>3, FS_EmptySet DEF Init, CountExact
  <1> QED BY <1>1, <1>2, <1>4 DEF IInv

(* The steps that change the array, each under the write lock. *)
LEMMA AddSlotStep ==
    ASSUME IInv, NEW t \in Threads, AddSlot(t)
    PROVE  IInv'
  <1> USE DEF IInv
  <1>1. /\ Grown \in Seq(Items \cup {NULL})
        /\ Used(Grown) = Used(slots)
        /\ Len(Grown) >= Len(slots)
        /\ MustGrow => Len(Grown) > Len(slots)
    BY GrownFacts DEF TypeOK
  <1>2. /\ IsFiniteSet(Used(slots))
        /\ Cardinality(Used(slots)) = count
        /\ count <= Len(slots)
    BY UsedFinite DEF TypeOK, CountExact
  <1>3. Cardinality(Used(Grown)) < Len(Grown)
    BY <1>1, <1>2 DEF MustGrow, TypeOK
  <1>4. Holding(Grown, NULL) # {}
    BY <1>1, <1>3, FreeSlot
  <1>5. PICK k \in 1 .. Len(Grown) :
            /\ IsFirst(Grown, NULL, k)
            /\ slots' = [Grown EXCEPT ![k] = item[t]]
    BY <1>4 DEF AddSlot
  <1>6. count' = count + 1 /\ Return(t, "ok") /\ pc[t] = "add"
    BY <1>4 DEF AddSlot
  <1>7. item[t] \in Items /\ item[t] # NULL
    BY <1>6, NullAssumption DEF ArgInv
  <1>8. slots' \in Seq(Items \cup {NULL}) /\ Used(slots') = Used(slots) \cup {k}
    <2>1. item[t] \in Items \cup {NULL}
      BY <1>7
    <2>2. /\ slots' \in Seq(Items \cup {NULL})
          /\ Used(slots') = IF item[t] = NULL THEN Used(Grown) \ {k} ELSE Used(Grown) \cup {k}
      BY ONLY <1>1, <1>5, <2>1, StoreSlot
    <2> QED BY <1>1, <1>7, <2>2
  <1>9. k \notin Used(slots)
    BY <1>1, <1>5 DEF IsFirst, Holding, Used
  <1>10. CountExact'
    <2>1. Cardinality(Used(slots) \cup {k}) = Cardinality(Used(slots)) + 1
      BY <1>2, <1>9, FS_AddElement
    <2> QED BY <1>2, <1>6, <1>8, <2>1 DEF CountExact
  <1>11. TypeOK'
    BY <1>6, <1>8 DEF TypeOK, Return, Results
  <1>12. (LockInv /\ ArgInv /\ NeverFull)'
    BY <1>6 DEF LockInv, ArgInv, NeverFull, Return, TypeOK
  <1> QED BY <1>10, <1>11, <1>12

(* Clearing the first slot with the item takes one off the count. *)
LEMMA RemoveFoundStep ==
    ASSUME IInv, NEW t \in Threads, RemoveFound(t)
    PROVE  IInv'
  <1> USE DEF IInv
  <1>1. PICK k \in 1 .. Len(slots) :
            /\ IsFirst(slots, item[t], k)
            /\ slots' = [slots EXCEPT ![k] = NULL]
    BY DEF RemoveFound
  <1>2. count' = count - 1 /\ Return(t, "ok") /\ pc[t] = "remove"
    BY DEF RemoveFound
  <1>3. item[t] # NULL
    BY <1>2, NullAssumption DEF ArgInv
  <1>4. slots' \in Seq(Items \cup {NULL}) /\ Used(slots') = Used(slots) \ {k}
    BY <1>1, StoreSlot DEF TypeOK
  <1>5. k \in Used(slots)
    BY <1>1, <1>3 DEF IsFirst, Holding, Used
  <1>6. IsFiniteSet(Used(slots)) /\ Cardinality(Used(slots)) = count
    BY UsedFinite DEF TypeOK, CountExact
  <1>7. Cardinality(Used(slots')) = count - 1
    BY <1>4, <1>5, <1>6, FS_RemoveElement
  <1>8. count - 1 \in Nat
    <2>1. Cardinality(Used(slots')) \in Nat
      BY <1>4, UsedFinite
    <2> QED BY <1>7, <2>1
  <1>9. CountExact'
    BY <1>2, <1>7 DEF CountExact
  <1>10. TypeOK'
    BY <1>2, <1>4, <1>8 DEF TypeOK, Return, Results
  <1>11. (LockInv /\ ArgInv /\ NeverFull)'
    BY <1>2 DEF LockInv, ArgInv, NeverFull, Return, TypeOK
  <1> QED BY <1>9, <1>10, <1>11

(* Every step keeps the invariant. *)
LEMMA NextIInv == IInv /\ [Next]_vars => IInv'
  <1> SUFFICES ASSUME IInv, [Next]_vars
               PROVE  IInv'
    OBVIOUS
  <1> USE DEF IInv
  <1> USE NullAssumption DEF lockVars
  <1>1. CASE UNCHANGED vars
    BY <1>1 DEF vars, TypeOK, LockInv, ArgInv, CountExact, NeverFull
  <1>2. ASSUME NEW t \in Threads, NEW call \in {"add", "remove"}, NEW i \in Items, WrLock(t, call, i)
        PROVE  IInv'
    <2>1. TypeOK'
      BY <1>2 DEF TypeOK, WrLock
    <2>2. (LockInv /\ ArgInv)'
      BY <1>2 DEF TypeOK, LockInv, ArgInv, WrLock
    <2>3. (CountExact /\ NeverFull)'
      BY <1>2 DEF CountExact, NeverFull, WrLock
    <2> QED BY <2>1, <2>2, <2>3
  <1>3. ASSUME NEW t \in Threads, AddNoMemory(t) \/ RemoveAbsent(t)
        PROVE  IInv'
    <2>1. TypeOK'
      BY <1>3 DEF TypeOK, AddNoMemory, RemoveAbsent, Return, Results
    <2>2. (LockInv /\ ArgInv)'
      BY <1>3 DEF TypeOK, LockInv, ArgInv, AddNoMemory, RemoveAbsent, Return
    <2>3. (CountExact /\ NeverFull)'
      BY <1>3 DEF TypeOK, CountExact, NeverFull, AddNoMemory, RemoveAbsent, Return
    <2> QED BY <2>1, <2>2, <2>3
  <1>4. ASSUME NEW t \in Threads, WrUnlock(t)
        PROVE  IInv'
    <2>1. TypeOK'
      BY <1>4 DEF TypeOK, WrUnlock
    <2>2. (LockInv /\ ArgInv)'
      BY <1>4 DEF TypeOK, LockInv, ArgInv, WrUnlock
    <2>3. (CountExact /\ NeverFull)'
      BY <1>4 DEF CountExact, NeverFull, WrUnlock
    <2> QED BY <2>1, <2>2, <2>3
  <1>5. ASSUME NEW t \in Threads, RdLock(t)
        PROVE  IInv'
    <2>1. TypeOK'
      BY <1>5 DEF TypeOK, RdLock, Results
    <2>2. (LockInv /\ ArgInv)'
      BY <1>5 DEF TypeOK, LockInv, ArgInv, RdLock
    <2>3. (CountExact /\ NeverFull)'
      BY <1>5 DEF TypeOK, CountExact, NeverFull, RdLock
    <2> QED BY <2>1, <2>2, <2>3
  <1>6. ASSUME NEW t \in Threads, IterateSkip(t) \/ IterateVisit(t) \/ IterateEnd(t)
        PROVE  IInv'
    <2>1. TypeOK'
      <3>1. CASE IterateSkip(t)
        BY <3>1 DEF TypeOK, IterateSkip
      <3>2. CASE IterateVisit(t)
        <4>1. c' \in [Threads -> Nat]
          BY <3>2 DEF TypeOK, IterateVisit
        <4>2. pc' \in [Threads -> {"idle", "add", "remove", "wrunlock", "iterate", "rdunlock"}]
          BY <3>2 DEF TypeOK, IterateVisit
        <4>3. r' \in [Threads -> Results]
          BY <3>2 DEF TypeOK, IterateVisit, Results
        <4> QED BY <3>2, <4>1, <4>2, <4>3 DEF TypeOK, IterateVisit
      <3>3. CASE IterateEnd(t)
        BY <3>3 DEF TypeOK, IterateEnd
      <3> QED BY <1>6, <3>1, <3>2, <3>3
    <2>2. (LockInv /\ ArgInv)'
      BY <1>6 DEF TypeOK, LockInv, ArgInv, IterateSkip, IterateVisit, IterateEnd
    <2>3. (CountExact /\ NeverFull)'
      BY <1>6 DEF TypeOK, CountExact, NeverFull, IterateSkip, IterateVisit, IterateEnd
    <2> QED BY <2>1, <2>2, <2>3
  <1>7. ASSUME NEW t \in Threads, RdUnlock(t)
        PROVE  IInv'
    <2>1. TypeOK'
      BY <1>7 DEF TypeOK, RdUnlock
    <2>2. (LockInv /\ ArgInv)'
      BY <1>7 DEF TypeOK, LockInv, ArgInv, RdUnlock
    <2>3. (CountExact /\ NeverFull)'
      BY <1>7 DEF CountExact, NeverFull, RdUnlock
    <2> QED BY <2>1, <2>2, <2>3
  <1> QED
    BY <1>1, <1>2, <1>3, <1>4, <1>5, <1>6, <1>7, AddSlotStep, RemoveFoundStep DEF Next, Write

-----------------------------------------------------------------------------
(* The strengthened invariant holds throughout: what the lock means, typed *)
(* arguments, the exact count (lines 97 to 147 of ptrlist-impl.h).         *)
THEOREM Invariance == Spec => []IInv
  BY InitIInv, NextIInv, PTL DEF Spec

(* The variables of a pointer list keep their types. *)
THEOREM TypeCorrect == Spec => []TypeOK
  <1>1. IInv => TypeOK
    BY DEF IInv
  <1> QED BY Invariance, <1>1, PTL

(* list->count is the number of used slots, after any calls by any threads.*)
THEOREM CountIsExact == Spec => []CountExact
  <1>1. IInv => CountExact
    BY DEF IInv
  <1> QED BY Invariance, <1>1, PTL

(* The return below the loop of add_unlocked, "This should never happen",  *)
(* is never reached.                                                       *)
THEOREM AddFindsRoom == Spec => []NeverFull
  <1>1. IInv => NeverFull
    BY DEF IInv
  <1> QED BY Invariance, <1>1, PTL

(* No thread changes the list under one that iterates. *)
THEOREM IterationIsStable == Spec => StableIteration
  <1> DEFINE Stable == \A t \in Threads : pc[t] = "iterate" => UNCHANGED <<slots, count>>
  <1>1. IInv /\ [Next]_vars => [Stable]_vars
    <2> SUFFICES ASSUME IInv, Next, NEW t \in Threads, pc[t] = "iterate"
                 PROVE  UNCHANGED <<slots, count>>
      OBVIOUS
    <2>1. writer = NULL
      BY DEF IInv, LockInv
    <2>2. ASSUME NEW u \in Threads, pc[u] \in {"add", "remove"}
          PROVE  FALSE
      BY <2>1, <2>2, NullAssumption DEF IInv, LockInv
    <2> QED
      BY <2>2 DEF Next, Write, WrLock, AddNoMemory, AddSlot, RemoveFound, RemoveAbsent,
                  WrUnlock, RdLock, IterateSkip, IterateVisit, IterateEnd, RdUnlock
  <1> QED BY Invariance, <1>1, PTL DEF Spec, StableIteration
-----------------------------------------------------------------------------
(* THE REFINEMENT: the list implements a bag.                              *)

(* The slots, from a place on, that hold an item. *)
Places(s, i, from) == {k \in Holding(s, i) : k >= from}

(* The places of an item can be counted. *)
LEMMA PlacesFinite ==
    ASSUME NEW s \in Seq(Items \cup {NULL}), NEW i, NEW from \in Nat
    PROVE  IsFiniteSet(Places(s, i, from)) /\ Cardinality(Places(s, i, from)) \in Nat
  <1>1. IsFiniteSet(1 .. Len(s))
    <2>1. Len(s) \in Nat
      OBVIOUS
    <2> QED BY <2>1, FS_Interval
  <1>2. Places(s, i, from) \subseteq 1 .. Len(s)
    BY DEF Places, Holding
  <1> QED BY <1>1, <1>2, FS_Subset, FS_CardinalityType

(* The bag counts places. *)
LEMMA BagIsPlaces ==
    ASSUME NEW s, NEW from
    PROVE  BagFrom(s, from) = [i \in Items |-> Cardinality(Places(s, i, from))]
  BY DEF BagFrom, Places

(* A list without slots is an empty bag. *)
LEMMA EmptyBag == BagFrom(<<>>, 1) = Abstract!Nothing
  <1>1. \A i \in Items : Places(<<>>, i, 1) = {}
    BY DEF Places, Holding
  <1> QED BY <1>1, BagIsPlaces, FS_EmptySet DEF Abstract!Nothing

(* An item less at the place where the iteration stands. *)
LEMMA PassSlot ==
    ASSUME NEW s \in Seq(Items \cup {NULL}), NEW k \in 1 .. Len(s)
    PROVE  /\ s[k] = NULL => BagFrom(s, k + 1) = BagFrom(s, k)
           /\ s[k] # NULL => /\ s[k] \in Items
                             /\ BagFrom(s, k)[s[k]] > 0
                             /\ BagFrom(s, k + 1) = [BagFrom(s, k) EXCEPT ![s[k]] = @ - 1]
  <1>0. s[k] \in Items \cup {NULL}
    BY ElementOfSeq
  <1>1. \A i \in Items : Places(s, i, k + 1) = IF s[k] = i THEN Places(s, i, k) \ {k} ELSE Places(s, i, k)
    BY DEF Places, Holding
  <1>2. CASE s[k] = NULL
    <2>1. \A i \in Items : Places(s, i, k + 1) = Places(s, i, k)
      BY <1>1, <1>2, NullAssumption
    <2> QED BY <1>2, <2>1, BagIsPlaces
  <1>3. CASE s[k] # NULL
    <2>1. s[k] \in Items
      BY <1>0, <1>3
    <2>2. k \in Places(s, s[k], k)
      BY DEF Places, Holding
    <2>3. IsFiniteSet(Places(s, s[k], k)) /\ Cardinality(Places(s, s[k], k)) \in Nat
      <3>1. k \in Nat
        OBVIOUS
      <3> QED BY <3>1, PlacesFinite
    <2>4. Cardinality(Places(s, s[k], k) \ {k}) = Cardinality(Places(s, s[k], k)) - 1
      BY <2>2, <2>3, FS_RemoveElement
    <2>5. Cardinality(Places(s, s[k], k)) # 0
      BY <2>2, <2>3, FS_EmptySet
    <2>6. BagFrom(s, k)[s[k]] > 0
      BY <2>1, <2>3, <2>5, BagIsPlaces
    <2>7. \A i \in Items : Cardinality(Places(s, i, k + 1)) =
                IF i = s[k] THEN Cardinality(Places(s, i, k)) - 1 ELSE Cardinality(Places(s, i, k))
      BY <1>1, <2>4
    <2>8. BagFrom(s, k + 1) = [BagFrom(s, k) EXCEPT ![s[k]] = @ - 1]
      BY <2>1, <2>7, BagIsPlaces
    <2> QED BY <1>3, <2>1, <2>6, <2>8
  <1> QED BY <1>2, <1>3

(* Storing an item in a free slot adds it to the bag. *)
LEMMA StoreAdds ==
    ASSUME NEW s \in Seq(Items \cup {NULL}), NEW k \in 1 .. Len(s), s[k] = NULL,
           NEW i \in Items, NEW s2, Len(s2) = Len(s),
           \A m \in 1 .. Len(s) : s2[m] = IF m = k THEN i ELSE s[m]
    PROVE  \A j \in Items : BagFrom(s2, 1)[j] =
                IF j = i THEN BagFrom(s, 1)[j] + 1 ELSE BagFrom(s, 1)[j]
  <1>2. \A j \in Items : Places(s2, j, 1) = IF j = i THEN Places(s, j, 1) \cup {k} ELSE Places(s, j, 1)
    BY NullAssumption DEF Places, Holding
  <1>3. k \notin Places(s, i, 1)
    BY NullAssumption DEF Places, Holding
  <1>4. IsFiniteSet(Places(s, i, 1))
    BY PlacesFinite
  <1>5. Cardinality(Places(s, i, 1) \cup {k}) = Cardinality(Places(s, i, 1)) + 1
    BY <1>3, <1>4, FS_AddElement
  <1>6. \A j \in Items : Cardinality(Places(s2, j, 1)) =
            IF j = i THEN Cardinality(Places(s, j, 1)) + 1 ELSE Cardinality(Places(s, j, 1))
    BY <1>2, <1>5
  <1> QED BY <1>6, BagIsPlaces

(* Clearing a slot takes its item out of the bag, once. *)
LEMMA ClearRemoves ==
    ASSUME NEW s \in Seq(Items \cup {NULL}), NEW k \in 1 .. Len(s),
           NEW i \in Items, s[k] = i, NEW s2, Len(s2) = Len(s),
           \A m \in 1 .. Len(s) : s2[m] = IF m = k THEN NULL ELSE s[m]
    PROVE  /\ BagFrom(s, 1)[i] > 0
           /\ \A j \in Items : BagFrom(s2, 1)[j] =
                IF j = i THEN BagFrom(s, 1)[j] - 1 ELSE BagFrom(s, 1)[j]
  <1>2. \A j \in Items : Places(s2, j, 1) = IF j = i THEN Places(s, j, 1) \ {k} ELSE Places(s, j, 1)
    BY NullAssumption DEF Places, Holding
  <1>3. k \in Places(s, i, 1)
    BY DEF Places, Holding
  <1>4. IsFiniteSet(Places(s, i, 1)) /\ Cardinality(Places(s, i, 1)) \in Nat
    BY PlacesFinite
  <1>5. /\ Cardinality(Places(s, i, 1) \ {k}) = Cardinality(Places(s, i, 1)) - 1
        /\ Cardinality(Places(s, i, 1)) # 0
    BY <1>3, <1>4, FS_RemoveElement, FS_EmptySet
  <1>6. \A j \in Items : Cardinality(Places(s2, j, 1)) =
            IF j = i THEN Cardinality(Places(s, j, 1)) - 1 ELSE Cardinality(Places(s, j, 1))
    BY <1>2, <1>5
  <1>7. BagFrom(s, 1)[i] > 0
    BY <1>4, <1>5, BagIsPlaces
  <1> QED BY <1>6, <1>7, BagIsPlaces

(* Nothing is left to show once the index is past the last slot. *)
LEMMA PastTheEnd ==
    ASSUME NEW s \in Seq(Items \cup {NULL}), NEW k \in Nat, k > Len(s)
    PROVE  BagFrom(s, k) = Abstract!Nothing
  <1>1. \A i \in Items : Places(s, i, k) = {}
    BY DEF Places, Holding
  <1> QED BY <1>1, BagIsPlaces, FS_EmptySet DEF Abstract!Nothing

(* The list starts as an empty bag. *)
LEMMA InitRefines == Init => Abstract!Init
  BY EmptyBag DEF Init, Abstract!Init, bag, todo, iterating

(* While a thread is inside a writing call, no iteration is under way. *)
LEMMA WriterAlone ==
    ASSUME IInv, NEW t \in Threads, pc[t] \in {"add", "remove", "wrunlock"}
    PROVE  iterating = {}
  BY NullAssumption DEF IInv, LockInv, iterating

(* A step that leaves the slots and every iteration as they are. *)
LEMMA Stutters ==
    ASSUME UNCHANGED <<slots, c, r>>,
           \A t \in Threads : pc'[t] = "iterate" <=> pc[t] = "iterate"
    PROVE  UNCHANGED Abstract!vars
  BY DEF Abstract!vars, bag, todo, iterating

(* A call that writes is an operation on the bag, or changes nothing. *)
LEMMA WriteRefines ==
    ASSUME IInv, NEW t \in Threads, Write(t)
    PROVE  Abstract!Next
  <1>1. iterating = {} /\ pc[t] \in {"add", "remove"} /\ pc' = [pc EXCEPT ![t] = "wrunlock"]
    <2>1. pc[t] \in {"add", "remove"} /\ pc' = [pc EXCEPT ![t] = "wrunlock"]
      BY DEF Write, AddNoMemory, AddSlot, RemoveFound, RemoveAbsent, Return
    <2> QED BY <2>1, WriterAlone
  <1>2. iterating' = {} /\ UNCHANGED todo
    BY <1>1 DEF iterating, todo, IInv, TypeOK
  <1>3. item[t] \in Items /\ item[t] # NULL /\ item[t] \in Items \cup {NULL}
    BY <1>1, NullAssumption DEF IInv, ArgInv
  <1>4. slots \in Seq(Items \cup {NULL})
    BY DEF IInv, TypeOK
  <1>5. CASE AddNoMemory(t)
    <2>1. r' = [r EXCEPT ![t] = "nomem"] /\ UNCHANGED bag
      BY <1>5 DEF AddNoMemory, Return, bag
    <2>2. Abstract!Refuse(t)
      BY <1>1, <1>2, <2>1 DEF Abstract!Refuse
    <2> QED BY <2>2 DEF Abstract!Next
  <1>6. CASE RemoveAbsent(t)
    <2>1. r' = [r EXCEPT ![t] = "absent"] /\ UNCHANGED bag
      BY <1>6 DEF RemoveAbsent, Return, bag
    <2>2. Places(slots, item[t], 1) = {}
      BY <1>6 DEF RemoveAbsent, Places
    <2>3. bag[item[t]] = 0
      BY <1>3, <2>2, BagIsPlaces, FS_EmptySet DEF bag
    <2>4. Abstract!Refuse(t)
      BY <1>1, <1>2, <1>3, <2>1, <2>3 DEF Abstract!Refuse
    <2> QED BY <2>4 DEF Abstract!Next
  <1>7. CASE RemoveFound(t)
    <2>1. PICK k \in 1 .. Len(slots) :
              /\ IsFirst(slots, item[t], k)
              /\ slots' = [slots EXCEPT ![k] = NULL]
      BY <1>7 DEF RemoveFound
    <2>2. slots[k] = item[t]
      BY <2>1 DEF IsFirst, Holding
    <2>3. /\ BagFrom(slots, 1)[item[t]] > 0
          /\ \A j \in Items : BagFrom(slots', 1)[j] =
                IF j = item[t] THEN BagFrom(slots, 1)[j] - 1 ELSE BagFrom(slots, 1)[j]
      <3>1. k \in 1 .. Len(slots) /\ item[t] \in Items
        BY <1>3, <2>1
      <3>2. /\ Len(slots') = Len(slots)
            /\ \A m \in 1 .. Len(slots) : slots'[m] = IF m = k THEN NULL ELSE slots[m]
        BY <1>4, <2>1, ExceptSeq
      <3> QED BY ONLY <1>4, <2>2, <3>1, <3>2, ClearRemoves
    <2>4. r' = [r EXCEPT ![t] = "ok"]
      BY <1>7 DEF RemoveFound, Return
    <2>5. Abstract!Remove(t, item[t])
      <3>1. bag[item[t]] > 0
        BY <2>3 DEF bag
      <3>2. bag' = [bag EXCEPT ![item[t]] = @ - 1]
        BY <2>3 DEF bag, BagFrom
      <3> QED BY <1>1, <1>2, <2>4, <3>1, <3>2 DEF Abstract!Remove
    <2> QED BY <1>3, <2>5 DEF Abstract!Next
  <1>8. CASE AddSlot(t)
    <2>1. IInv'
      BY <1>8, AddSlotStep
    <2>2. r'[t] # "full"
      BY <2>1 DEF IInv, NeverFull
    <2>3. Holding(Grown, NULL) # {}
      BY <1>8, <2>2 DEF AddSlot, Return, IInv, TypeOK
    <2>4. PICK k \in 1 .. Len(Grown) :
              /\ IsFirst(Grown, NULL, k)
              /\ slots' = [Grown EXCEPT ![k] = item[t]]
      BY <1>8, <2>3 DEF AddSlot
    <2>5. r' = [r EXCEPT ![t] = "ok"]
      BY <1>8, <2>3 DEF AddSlot, Return
    <2>6. Grown \in Seq(Items \cup {NULL}) /\ BagFrom(Grown, 1) = BagFrom(slots, 1)
      <3>1. Grown \in Seq(Items \cup {NULL})
        BY GrownFacts DEF IInv, TypeOK
      <3>2. \A i \in Items : Places(Grown, i, 1) = Places(slots, i, 1)
        BY GrownFacts DEF Places, IInv, TypeOK
      <3> QED BY <3>1, <3>2, BagIsPlaces
    <2>7. Grown[k] = NULL
      BY <2>4 DEF IsFirst, Holding
    <2>8. \A j \in Items : BagFrom(slots', 1)[j] =
                IF j = item[t] THEN BagFrom(Grown, 1)[j] + 1 ELSE BagFrom(Grown, 1)[j]
      <3>1. k \in 1 .. Len(Grown) /\ item[t] \in Items
        BY <1>3, <2>4
      <3>2. /\ Len(slots') = Len(Grown)
            /\ \A m \in 1 .. Len(Grown) : slots'[m] = IF m = k THEN item[t] ELSE Grown[m]
        BY <1>3, <2>4, <2>6, ExceptSeq
      <3> QED BY ONLY <2>6, <2>7, <3>1, <3>2, StoreAdds
    <2>9. Abstract!Add(t, item[t])
      <3>1. bag' = [bag EXCEPT ![item[t]] = @ + 1]
        <4>1. bag' = BagFrom(slots', 1) /\ bag = BagFrom(Grown, 1)
          BY <2>6 DEF bag
        <4> QED BY <2>8, <4>1 DEF BagFrom
      <3> QED BY <1>1, <1>2, <2>5, <3>1 DEF Abstract!Add
    <2> QED BY <1>3, <2>9 DEF Abstract!Next
  <1> QED BY <1>5, <1>6, <1>7, <1>8 DEF Write

(* Iterating slot by slot shows every item of the bag once. *)
LEMMA IterateRefines ==
    ASSUME IInv, NEW t \in Threads,
           RdLock(t) \/ IterateSkip(t) \/ IterateVisit(t) \/ IterateEnd(t)
    PROVE  [Abstract!Next]_(Abstract!vars)
  <1>1. slots \in Seq(Items \cup {NULL}) /\ c[t] \in Nat /\ c \in [Threads -> Nat]
    BY DEF IInv, TypeOK
  <1>2. pc \in [Threads -> {"idle", "add", "remove", "wrunlock", "iterate", "rdunlock"}] /\ r \in [Threads -> Results]
    BY DEF IInv, TypeOK
  <1>3. CASE RdLock(t)
    <2>1. t \notin iterating /\ UNCHANGED bag /\ r' = [r EXCEPT ![t] = "ok"]
      BY <1>3 DEF RdLock, iterating, bag
    <2>2. iterating' = iterating \cup {t}
      BY <1>2, <1>3 DEF RdLock, iterating
    <2>3. todo' = [todo EXCEPT ![t] = bag]
      BY <1>1, <1>2, <1>3 DEF RdLock, todo, bag
    <2>4. Abstract!Open(t)
      BY <2>1, <2>2, <2>3 DEF Abstract!Open
    <2> QED BY <2>4 DEF Abstract!Next
  <1>4. CASE IterateEnd(t)
    <2>1. t \in iterating /\ UNCHANGED <<bag, r>>
      BY <1>4 DEF IterateEnd, iterating, bag
    <2>2. todo[t] = Abstract!Nothing
      <3>1. BagFrom(slots, c[t]) = Abstract!Nothing
        <4>1. c[t] > Len(slots)
          BY <1>4 DEF IterateEnd
        <4> QED BY ONLY <1>1, <4>1, PastTheEnd
      <3> QED BY <1>4, <3>1 DEF IterateEnd, todo
    <2>3. todo' = [todo EXCEPT ![t] = BagFrom(<<>>, 1)] /\ iterating' = iterating \ {t}
      BY <1>2, <1>4 DEF IterateEnd, todo, iterating
    <2>4. UNCHANGED todo
      BY <2>2, <2>3, EmptyBag DEF todo
    <2>5. Abstract!Close(t)
      BY <2>1, <2>2, <2>3, <2>4 DEF Abstract!Close
    <2> QED BY <2>5 DEF Abstract!Next
  <1>5. CASE IterateSkip(t) \/ IterateVisit(t)
    <2> DEFINE k == c[t]
    <2>1. k \in 1 .. Len(slots) /\ pc[t] = "iterate"
      BY <1>1, <1>5 DEF IterateSkip, IterateVisit, IInv, ArgInv
    <2>2. /\ slots[k] = NULL => BagFrom(slots, k + 1) = BagFrom(slots, k)
          /\ slots[k] # NULL => /\ slots[k] \in Items
                                /\ BagFrom(slots, k)[slots[k]] > 0
                                /\ BagFrom(slots, k + 1) = [BagFrom(slots, k) EXCEPT ![slots[k]] = @ - 1]
      BY ONLY <1>1, <2>1, PassSlot
    <2>3. t \in iterating /\ UNCHANGED bag /\ todo[t] = BagFrom(slots, k)
      BY <1>5, <2>1 DEF IterateSkip, IterateVisit, iterating, bag, todo
    <2>4. ASSUME UNCHANGED <<slots, pc, r>>, c' = [c EXCEPT ![t] = @ + 1]
          PROVE  UNCHANGED <<iterating, bag, r>> /\ todo' = [todo EXCEPT ![t] = BagFrom(slots, k + 1)]
      BY <1>1, <2>1, <2>4 DEF iterating, bag, todo
    <2>5. CASE slots[k] = NULL
      <3>1. UNCHANGED <<slots, pc, r>> /\ c' = [c EXCEPT ![t] = @ + 1]
        BY <1>5, <2>5 DEF IterateSkip, IterateVisit
      <3>2. UNCHANGED todo
        <4>1. todo' = [todo EXCEPT ![t] = todo[t]]
          BY <2>2, <2>3, <2>4, <2>5, <3>1
        <4> QED BY <4>1 DEF todo
      <3> QED BY <2>4, <3>1, <3>2 DEF Abstract!vars
    <2>6. CASE slots[k] # NULL /\ UNCHANGED pc
      <3>1. UNCHANGED <<slots, pc, r>> /\ c' = [c EXCEPT ![t] = @ + 1]
        BY <1>2, <1>5, <2>1, <2>6 DEF IterateSkip, IterateVisit
      <3>2. todo' = [todo EXCEPT ![t][slots[k]] = @ - 1]
        BY <2>2, <2>3, <2>4, <2>6, <3>1
      <3>3. Abstract!Show(t, slots[k])
        BY <2>2, <2>3, <2>4, <2>6, <3>1, <3>2 DEF Abstract!Show
      <3> QED BY <2>2, <2>6, <3>3 DEF Abstract!Next
    <2>7. CASE slots[k] # NULL /\ ~UNCHANGED pc
      <3>1. /\ pc' = [pc EXCEPT ![t] = "rdunlock"]
            /\ r' = [r EXCEPT ![t] = "stopped"]
            /\ UNCHANGED <<slots, c>>
        BY <1>5, <2>7 DEF IterateSkip, IterateVisit
      <3>2. todo' = [todo EXCEPT ![t] = Abstract!Nothing] /\ iterating' = iterating \ {t}
        BY <1>2, <3>1, EmptyBag DEF todo, iterating
      <3>3. todo[t] # Abstract!Nothing
        BY <2>2, <2>3, <2>7 DEF Abstract!Nothing
      <3>4. Abstract!Stop(t)
        BY <2>3, <3>1, <3>2, <3>3 DEF Abstract!Stop
      <3> QED BY <3>4 DEF Abstract!Next
    <2> QED BY <2>5, <2>6, <2>7
  <1> QED BY <1>3, <1>4, <1>5

(* Every step of the list is a step of the bag or a stutter. *)
LEMMA NextRefines == IInv /\ [Next]_vars => [Abstract!Next]_(Abstract!vars)
  <1> SUFFICES ASSUME IInv, [Next]_vars
               PROVE  [Abstract!Next]_(Abstract!vars)
    OBVIOUS
  <1>1. CASE UNCHANGED vars
    BY <1>1, Stutters DEF vars
  <1>2. ASSUME NEW t \in Threads, NEW call \in {"add", "remove"}, NEW i \in Items, WrLock(t, call, i)
        PROVE  UNCHANGED Abstract!vars
    BY <1>2, Stutters DEF WrLock, IInv, TypeOK
  <1>3. ASSUME NEW t \in Threads, WrUnlock(t) \/ RdUnlock(t)
        PROVE  UNCHANGED Abstract!vars
    BY <1>3, Stutters DEF WrUnlock, RdUnlock, IInv, TypeOK
  <1> QED
    BY <1>1, <1>2, <1>3, WriteRefines, IterateRefines DEF Next

(* Adding, removing and iterating are operations on a bag: of ItemBag's    *)
(* promises none is broken by any interleaving of calls.                   *)
THEOREM ListIsABag == Spec => ImplementsBag
  BY InitRefines, NextRefines, Invariance, PTL DEF Spec, ImplementsBag, Abstract!Spec
=============================================================================
