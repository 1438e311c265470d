------------------------- MODULE FcgiRequestProofs -------------------------
(***************************************************************************)
(* Proofs about FcgiRequest, for any names, values, status codes and URIs, *)
(* whatever a container calls:                                             *)
(*   - the number that a request reports and its Status header stay in     *)
(*     step (StatusCorrect);                                               *)
(*   - what is sent has one Status line, with headers before anything      *)
(*     else (StatusLineSent), and wbytes counts it (BytesCounted);         *)
(*   - the request implements the abstract response                        *)
(*     (RequestImplementsResponse);                                        *)
(*   - every variable keeps its type (TypeCorrect);                        *)
(*   - the elements of a path are its segments, decoded once               *)
(*     (PathIsRight).                                                      *)
(* Bytes, Sent and the two loops over a URI are recursive: for each there  *)
(* is a lemma that its definition has a solution, and what holds of its    *)
(* values is shown for the set of numbers for which it does.               *)
(***************************************************************************)
EXTENDS FcgiRequest, FiniteSetTheorems, SequenceTheorems, WellFoundedInduction, TLAPS

HeadersTyped == headers \in [Keys -> Header \cup {NULL}]

IInv == HeadersTyped /\ StatusAgrees

(* The keys that the code names are keys. *)
LEMMA KnownKeys == {"status", "content-type"} \subseteq Keys
  BY HeadersAssumption DEF Keys

(* Whichever headers could be set, the table is well-formed, and if all    *)
(* could, the status is that of "200 OK".                                  *)
LEMMA InitIInv == Init => IInv
  <1> SUFFICES ASSUME Init PROVE IInv
    OBVIOUS
  <1>1. PICK lost \in SUBSET {"status", "content-type"} :
            headers = InitialHeaders(lost) /\ starved = (lost # {})
    BY DEF Init
  <1>2. [name |-> "Status", values |-> <<Ok>>] \in Header
    BY HeadersAssumption DEF Header
  <1>3. [name |-> "Content-Type", values |-> <<Html>>] \in Header
    BY HeadersAssumption DEF Header
  <1>4. HeadersTyped
    BY <1>1, <1>2, <1>3 DEF HeadersTyped, InitialHeaders
  <1>5. ASSUME ~starved PROVE headers["status"] = [name |-> "Status", values |-> <<Ok>>]
    BY <1>1, <1>5, KnownKeys DEF InitialHeaders
  <1>6. StatusAgrees
    BY <1>2, <1>5, HeadersAssumption DEF StatusAgrees, Init
  <1> QED BY <1>4, <1>6 DEF IInv

(* The values that a header gets are values. *)
LEMMA NewValuesTyped ==
    ASSUME HeadersTyped, NEW n \in Names, NEW v \in Values \cup {NULL}, NEW replace \in BOOLEAN,
           ~Refused(n, v, replace)
    PROVE  NewValues(KeyOf[n], v, replace) \in Seq(Values)
  <1>1. OldValues(KeyOf[n]) \in Seq(Values)
    BY DEF OldValues, HeadersTyped, Keys, Header
  <1>2. CASE ~replace
    <2>1. v \in Values
      BY <1>2 DEF Refused
    <2> QED BY <1>1, <1>2, <2>1 DEF NewValues
  <1>3. CASE replace /\ v = NULL
    BY <1>3 DEF NewValues
  <1>4. CASE replace /\ v # NULL
    BY <1>4 DEF NewValues
  <1> QED BY <1>2, <1>3, <1>4

(* Setting a header: a Status replaces the one there was, and no other     *)
(* header touches it.                                                      *)
LEMMA SetHeaderStep ==
    ASSUME IInv, NEW n \in Names, NEW v \in Values \cup {NULL}, NEW replace \in BOOLEAN,
           SetHeader(n, v, replace)
    PROVE  IInv'
  <1> DEFINE h == [name |-> n, values |-> NewValues(KeyOf[n], v, replace)]
  <1>1. /\ ~Refused(n, v, replace)
        /\ headers' = [headers EXCEPT ![KeyOf[n]] = h]
        /\ status' = NewStatus(n, v)
        /\ starved' = starved
    BY DEF SetHeader
  <1>2. h \in Header
    BY <1>1, NewValuesTyped DEF IInv, Header
  <1>3. HeadersTyped'
    BY <1>1, <1>2 DEF IInv, HeadersTyped
  <1>4. CASE KeyOf[n] = "status"
    <2>1. v \in Values /\ replace
      BY <1>1, <1>4 DEF Refused
    <2>2. headers'["status"] = h /\ h.values = <<v>>
      BY <1>1, <1>4, <2>1, KnownKeys, HeadersAssumption DEF IInv, HeadersTyped, NewValues
    <2>3. status' = CodeOf[v]
      BY <1>1, <1>4 DEF NewStatus
    <2>4. h # NULL
      BY <1>2, HeadersAssumption
    <2> QED BY <1>3, <2>2, <2>3, <2>4 DEF IInv, StatusAgrees
  <1>5. CASE KeyOf[n] # "status"
    <2>1. headers'["status"] = headers["status"]
      BY <1>1, <1>5, KnownKeys DEF IInv, HeadersTyped
    <2>2. status' = status
      BY <1>1, <1>5 DEF NewStatus
    <2> QED BY <1>1, <1>3, <2>1, <2>2 DEF IInv, StatusAgrees
  <1> QED BY <1>4, <1>5

(* Every step keeps the two in step, or memory has run out. *)
LEMMA NextIInv == IInv /\ [Next]_vars => IInv'
  <1> SUFFICES ASSUME IInv, [Next]_vars PROVE IInv'
    OBVIOUS
  <1>1. ASSUME UNCHANGED headerVars PROVE IInv'
    BY <1>1 DEF headerVars, IInv, HeadersTyped, StatusAgrees
  <1>2. ASSUME NEW n \in Names, NEW v \in Values \cup {NULL}, NEW replace \in BOOLEAN,
               SetHeaderNoMemory(n, v, replace)
        PROVE  IInv'
    BY <1>2 DEF SetHeaderNoMemory, IInv, HeadersTyped, StatusAgrees
  <1>3. CASE Consume
    BY <1>1, <1>3 DEF Consume
  <1>4. CASE HeaderRefused
    BY <1>1, <1>4 DEF HeaderRefused, vars
  <1>5. CASE FirstWrite
    BY <1>1, <1>5 DEF FirstWrite
  <1>6. CASE Write
    BY <1>1, <1>6 DEF Write
  <1>7. CASE Close
    BY <1>1, <1>7 DEF Close
  <1>8. CASE UNCHANGED vars
    BY <1>1, <1>8 DEF vars
  <1> QED BY <1>2, <1>3, <1>4, <1>5, <1>6, <1>7, <1>8, SetHeaderStep DEF Next

(* As long as no strdup has failed between the two, the status that the    *)
(* request reports is the number in its one Status header.                 *)
THEOREM StatusCorrect == Spec => []StatusAgrees
  <1>1. IInv => StatusAgrees
    BY DEF IInv
  <1> QED BY InitIInv, NextIInv, <1>1, PTL DEF Spec

-----------------------------------------------------------------------------
(* Induction on numbers, and recursive definitions: a solution exists when *)
(* a step looks at lower levels only.                                      *)

(* The first of some natural numbers. *)
LEMMA LeastOf ==
    ASSUME NEW S \in SUBSET Nat, S # {}
    PROVE  \E i \in S : \A j \in S : i <= j
  <1> DEFINE less == OpToRel(<, Nat)
  <1>1. IsWellFoundedOn(less, Nat)
    BY NatLessThanWellFounded
  <1>2. \A i, j \in Nat : <<j, i>> \notin less => i <= j
    BY DEF OpToRel
  <1> HIDE DEF less
  <1>3. \E i \in S : \A j \in S : ~(<<j, i>> \in less)
    BY <1>1, WFMin
  <1> QED BY <1>2, <1>3

(* Induction, for a set of numbers. *)
LEMMA AllNumbers ==
    ASSUME NEW P, 0 \in P, \A i \in Nat \ {0} : i - 1 \in P => i \in P
    PROVE  Nat \subseteq P
  <1> DEFINE Missing == Nat \ P
  <1>1. ASSUME Missing # {}
        PROVE  FALSE
    <2>1. PICK m \in Missing : \A j \in Missing : m <= j
      BY <1>1, LeastOf
    <2>2. m \in Nat \ {0} /\ m - 1 \in Nat
      BY <2>1
    <2> QED BY <2>1, <2>2
  <1> QED BY <1>1

(* The same for the numbers up to n. *)
LEMMA AllUpTo ==
    ASSUME NEW n \in Nat, NEW P, 0 \in P, \A i \in 1 .. n : i - 1 \in P => i \in P
    PROVE  \A i \in 0 .. n : i \in P
  <1> DEFINE Q == {i \in Nat : i <= n => i \in P}
  <1>1. 0 \in Q
    OBVIOUS
  <1>2. ASSUME NEW i \in Nat \ {0}, i - 1 \in Q PROVE i \in Q
    BY <1>2
  <1>3. Nat \subseteq Q
    <2> HIDE DEF Q
    <2> QED BY <1>1, <1>2, AllNumbers
  <1> QED BY <1>3

(* A recursive definition has a solution when its value at a point only    *)
(* depends on its values at points of a lower level.                       *)
Agree(S, level, m, f, g) == \A t \in S : level[t] < m => f[t] = g[t]

Solves(S, level, step, f, m) == \A s \in S : level[s] < m => f[s] = step[<<s, f>>]

Satisfies(S, step, f) == \A s \in S : f[s] = step[<<s, f>>]

Local(S, T, level, step) ==
    \A s \in S, f \in [S -> T], g \in [S -> T] :
        Agree(S, level, level[s], f, g) => step[<<s, f>>] = step[<<s, g>>]

(* A solution up to a level is one up to a lower level. *)
LEMMA SolvesLess ==
    ASSUME NEW S, NEW level \in [S -> Nat], NEW step, NEW f, NEW m \in Nat,
           Solves(S, level, step, f, m), NEW k \in Nat, k <= m
    PROVE  Solves(S, level, step, f, k)
  BY DEF Solves

(* Two solutions up to a level agree below it. *)
LEMMA SolutionsAgree ==
    ASSUME NEW S, NEW T, NEW level \in [S -> Nat], NEW step \in [S \X [S -> T] -> T],
           Local(S, T, level, step),
           NEW f \in [S -> T], NEW g \in [S -> T], NEW m \in Nat,
           Solves(S, level, step, f, m), Solves(S, level, step, g, m)
    PROVE  Agree(S, level, m, f, g)
  <1> DEFINE P == {i \in Nat : i <= m => Agree(S, level, i, f, g)}
  <1>1. 0 \in P
    BY DEF Agree
  <1>2. ASSUME NEW i \in Nat \ {0}, i - 1 \in P
        PROVE  i \in P
    <2> SUFFICES ASSUME i <= m, NEW s \in S, level[s] < i PROVE f[s] = g[s]
      BY DEF Agree
    <2>1. \A t \in S : level[t] < level[s] => f[t] = g[t]
      BY <1>2 DEF Agree
    <2>2. step[<<s, f>>] = step[<<s, g>>]
      BY <2>1 DEF Local, Agree
    <2> QED BY <2>2 DEF Solves
  <1>3. Nat \subseteq P
    <2> HIDE DEF P
    <2> QED BY <1>1, <1>2, AllNumbers
  <1> QED BY <1>3

(* There is a solution up to every level. *)
LEMMA SolutionUpTo ==
    ASSUME NEW S, NEW T, T # {}, NEW level \in [S -> Nat], NEW step \in [S \X [S -> T] -> T],
           Local(S, T, level, step), NEW m \in Nat
    PROVE  \E f \in [S -> T] : Solves(S, level, step, f, m)
  <1> DEFINE P == {i \in Nat : \E f \in [S -> T] : Solves(S, level, step, f, i)}
  <1>1. 0 \in P
    <2>1. PICK x \in T : TRUE
      OBVIOUS
    <2> DEFINE f == [s \in S |-> x]
    <2>2. f \in [S -> T] /\ Solves(S, level, step, f, 0)
      BY DEF Solves
    <2> QED BY <2>2
  <1>2. ASSUME NEW i \in Nat \ {0}, i - 1 \in P
        PROVE  i \in P
    <2>1. PICK f \in [S -> T] : Solves(S, level, step, f, i - 1)
      BY <1>2
    <2> DEFINE g == [s \in S |-> step[<<s, f>>]]
    <2>2. g \in [S -> T]
      OBVIOUS
    <2>3. ASSUME NEW t \in S, level[t] < i - 1 PROVE f[t] = g[t]
      BY <2>1, <2>3 DEF Solves
    <2>4. ASSUME NEW s \in S, level[s] < i PROVE g[s] = step[<<s, g>>]
      <3>1. Agree(S, level, level[s], f, g)
        BY <2>3, <2>4 DEF Agree
      <3> HIDE DEF g
      <3>2. step[<<s, f>>] = step[<<s, g>>]
        BY <3>1, <2>2 DEF Local
      <3> QED BY <3>2 DEF g
    <2>5. Solves(S, level, step, g, i)
      BY <2>4 DEF Solves
    <2> QED BY <2>2, <2>5
  <1>3. Nat \subseteq P
    <2> HIDE DEF P
    <2> QED BY <1>1, <1>2, AllNumbers
  <1> QED BY <1>3

(* So there is a solution. *)
LEMMA Recursion ==
    ASSUME NEW S, NEW T, T # {}, NEW level \in [S -> Nat], NEW step \in [S \X [S -> T] -> T],
           Local(S, T, level, step)
    PROVE  \E f \in [S -> T] : Satisfies(S, step, f)
  <1> DEFINE upto(m) == CHOOSE f \in [S -> T] : Solves(S, level, step, f, m)
             f == [s \in S |-> upto(level[s] + 1)[s]]
  <1>1. ASSUME NEW m \in Nat
        PROVE  upto(m) \in [S -> T] /\ Solves(S, level, step, upto(m), m)
    BY SolutionUpTo
  <1> HIDE DEF upto
  <1>2. f \in [S -> T]
    BY <1>1
  <1>3. ASSUME NEW s \in S
        PROVE  f[s] = step[<<s, f>>]
    <2> DEFINE g == upto(level[s] + 1)
    <2>0. level[s] + 1 \in Nat
      OBVIOUS
    <2>1. g \in [S -> T] /\ Solves(S, level, step, g, level[s] + 1)
      BY <1>1, <2>0
    <2>2. ASSUME NEW t \in S, level[t] < level[s]
          PROVE  f[t] = g[t]
      <3> DEFINE h == upto(level[t] + 1)
      <3>3. level[t] + 1 \in Nat /\ level[t] + 1 <= level[s] + 1
        BY <2>2
      <3>1. h \in [S -> T] /\ Solves(S, level, step, h, level[t] + 1)
        BY <1>1, <3>3
      <3>6. f[t] = h[t]
        OBVIOUS
      <3> HIDE DEF g, h, f
      <3>2. Solves(S, level, step, g, level[t] + 1)
        BY <2>0, <2>1, <3>3, SolvesLess
      <3>4. Agree(S, level, level[t] + 1, h, g)
        BY <3>1, <3>2, <3>3, <2>1, SolutionsAgree
      <3>5. h[t] = g[t]
        BY <3>4, <3>3 DEF Agree
      <3> QED BY <3>5, <3>6
    <2>3. Agree(S, level, level[s], f, g)
      BY <2>2 DEF Agree
    <2>4. f[s] = g[s]
      OBVIOUS
    <2>5. level[s] < level[s] + 1
      OBVIOUS
    <2> HIDE DEF g, f
    <2>6. g[s] = step[<<s, g>>]
      BY <2>1, <2>5 DEF Solves
    <2> QED BY <2>1, <2>3, <2>4, <2>6, <1>2 DEF Local
  <1> HIDE DEF f
  <1> QED BY <1>2, <1>3 DEF Satisfies

-----------------------------------------------------------------------------
(* Bytes: the sum of the lengths of the items.                             *)

(* Recursion from place to place. *)
Follows(f, next, n) == \A i \in 1 .. n : f[i] = next[<<i, f[i - 1]>>]

(* A function on 0 .. n that is defined from place to place exists. *)
LEMMA RecursionOnPlaces ==
    ASSUME NEW T, NEW base \in T, NEW n \in Nat, NEW next \in [(1 .. n) \X T -> T]
    PROVE  \E f \in [0 .. n -> T] : f[0] = base /\ Follows(f, next, n)
  <1> DEFINE S == 0 .. n
             F == [S -> T]
             level == [i \in S |-> i]
             value(i, f) == IF i = 0 THEN base ELSE next[<<i, f[i - 1]>>]
             step == [p \in S \X F |-> value(p[1], p[2])]
  <1>1. ASSUME NEW i \in S, NEW f \in F
        PROVE  value(i, f) \in T /\ step[<<i, f>>] = value(i, f)
    <2>1. i # 0 => i \in 1 .. n /\ i - 1 \in S
      OBVIOUS
    <2>2. i # 0 => f[i - 1] \in T
      BY <2>1
    <2>3. value(i, f) \in T
      BY <2>1, <2>2
    <2> QED BY <2>3
  <1>2. step \in [S \X F -> T]
    BY <1>1
  <1>3. level \in [S -> Nat]
    OBVIOUS
  <1>4. Local(S, T, level, step)
    <2> SUFFICES ASSUME NEW i \in S, NEW f \in F, NEW g \in F, Agree(S, level, level[i], f, g)
                 PROVE  step[<<i, f>>] = step[<<i, g>>]
      BY DEF Local
    <2>1. i # 0 => i - 1 \in S /\ f[i - 1] = g[i - 1]
      BY DEF Agree
    <2>2. value(i, f) = value(i, g)
      BY <2>1
    <2> HIDE DEF value, step
    <2> QED BY <1>1, <2>2
  <1>5. T # {} /\ 0 \in S /\ \A i \in 1 .. n : i \in S /\ i # 0
    OBVIOUS
  <1> HIDE DEF step, level, S, value
  <1>6. \E f \in F : Satisfies(S, step, f)
    BY <1>2, <1>3, <1>4, <1>5, Recursion
  <1>7. PICK f \in F : \A i \in S : f[i] = step[<<i, f>>]
    BY <1>6 DEF Satisfies
  <1>8. \A i \in S : f[i] = value(i, f)
    BY <1>1, <1>7
  <1>9. f[0] = base
    BY <1>5, <1>8 DEF value
  <1>10. \A i \in 1 .. n : f[i] = next[<<i, f[i - 1]>>]
    BY <1>5, <1>8 DEF value
  <1> QED BY <1>7, <1>9, <1>10 DEF S, Follows

-----------------------------------------------------------------------------
(* How many bytes a list of items has. *)
Sums(items, f) ==
    /\ f \in [0 .. Len(items) -> Nat]
    /\ f[0] = 0
    /\ \A i \in 1 .. Len(items) : f[i] = f[i - 1] + LengthOf(items[i])

(* The length of an item is a number. *)
LEMMA LengthTyped ==
    ASSUME NEW item \in Items
    PROVE  LengthOf(item) \in Nat
  <1>1. CASE item \in [kind : {"header"}, name : Names, value : Values]
    <2>1. Size[item.name] \in Nat /\ Size[item.value] \in Nat
      BY <1>1, HeadersAssumption
    <2>2. item.kind = "header"
      BY <1>1
    <2>3. LengthOf(item) = Size[item.name] + Size[item.value] + 3
      BY <2>2 DEF LengthOf
    <2> QED BY <2>1, <2>3
  <1>2. CASE item = Blank
    BY <1>2 DEF Blank, LengthOf
  <1>3. CASE item = Body
    BY <1>3, HeadersAssumption DEF Body, LengthOf
  <1> QED BY <1>1, <1>2, <1>3 DEF Items

(* The sums exist. *)
LEMMA SumsExist ==
    ASSUME NEW items \in Seq(Items)
    PROVE  \E f : Sums(items, f)
  <1> DEFINE n == Len(items)
             next == [p \in (1 .. n) \X Nat |-> p[2] + LengthOf(items[p[1]])]
  <1>1. n \in Nat /\ \A i \in 1 .. n : LengthOf(items[i]) \in Nat
    BY LengthTyped
  <1>2. next \in [(1 .. n) \X Nat -> Nat]
    BY <1>1
  <1>3. \A i \in 1 .. n, a \in Nat : next[<<i, a>>] = a + LengthOf(items[i])
    OBVIOUS
  <1> HIDE DEF next, n
  <1>4. \E f \in [0 .. n -> Nat] : f[0] = 0 /\ Follows(f, next, n)
    BY <1>1, <1>2, RecursionOnPlaces
  <1>7. PICK f \in [0 .. n -> Nat] : f[0] = 0 /\ \A i \in 1 .. n : f[i] = next[<<i, f[i - 1]>>]
    BY <1>4 DEF Follows
  <1>5. \A i \in 1 .. n : f[i - 1] \in Nat
    BY <1>1, <1>7
  <1>6. Sums(items, f)
    BY <1>1, <1>3, <1>7, <1>5 DEF n, Sums
  <1> QED BY <1>6

(* Bytes is the last sum. *)
LEMMA BytesIs ==
    ASSUME NEW items \in Seq(Items), NEW f, Sums(items, f)
    PROVE  Bytes(items) = f[Len(items)]
  <1> DEFINE n == Len(items)
             value(g, i) == IF i = 0 THEN 0 ELSE g[i - 1] + LengthOf(items[i])
             sum == CHOOSE g : g = [i \in 0 .. n |-> value(g, i)]
  <1>0. n \in Nat
    OBVIOUS
  <1>1. f = [i \in 0 .. n |-> value(f, i)]
    <2>1. f = [i \in 0 .. n |-> f[i]]
      BY DEF Sums
    <2>2. \A i \in 0 .. n : f[i] = value(f, i)
      BY DEF Sums
    <2> HIDE DEF value, n
    <2> QED BY <2>1, <2>2
  <1>2. sum = [i \in 0 .. n |-> value(sum, i)]
    <2> HIDE DEF value
    <2> QED BY <1>1
  <1>3. Bytes(items) = sum[n]
    BY DEF Bytes
  <1> HIDE DEF sum, n
  <1>4. \A i \in 0 .. n : sum[i] = value(sum, i) /\ f[i] = value(f, i)
    <2> HIDE DEF value
    <2> QED BY <1>1, <1>2
  <1> DEFINE P == {i \in 0 .. n : sum[i] = f[i]}
  <1>5. 0 \in P
    BY <1>0, <1>4
  <1>6. ASSUME NEW i \in 1 .. n, i - 1 \in P PROVE i \in P
    BY <1>0, <1>4, <1>6
  <1>7. \A i \in 0 .. n : i \in P
    <2> HIDE DEF P
    <2> QED BY <1>0, <1>5, <1>6, AllUpTo
  <1> QED BY <1>0, <1>3, <1>7 DEF n

(* The bytes of two lists are the sum of theirs. *)
LEMMA BytesConcat ==
    ASSUME NEW s \in Seq(Items), NEW t \in Seq(Items)
    PROVE  Bytes(s) \in Nat /\ Bytes(s \o t) = Bytes(s) + Bytes(t)
  <1>1. PICK f : Sums(s, f)
    BY SumsExist
  <1>2. PICK g : Sums(t, g)
    BY SumsExist
  <1> DEFINE m == Len(s)
             n == Len(t)
             h == [i \in 0 .. m + n |-> IF i <= m THEN f[i] ELSE f[m] + g[i - m]]
  <1>3. m \in Nat /\ n \in Nat /\ s \o t \in Seq(Items) /\ Len(s \o t) = m + n
    OBVIOUS
  <1>4. /\ \A i \in 1 .. m : (s \o t)[i] = s[i]
        /\ \A i \in m + 1 .. m + n : (s \o t)[i] = t[i - m]
    OBVIOUS
  <1>5. /\ f \in [0 .. m -> Nat] /\ f[0] = 0
        /\ \A i \in 1 .. m : f[i] = f[i - 1] + LengthOf(s[i])
        /\ g \in [0 .. n -> Nat] /\ g[0] = 0
        /\ \A i \in 1 .. n : g[i] = g[i - 1] + LengthOf(t[i])
    BY <1>1, <1>2 DEF Sums
  <1>6. \A i \in 1 .. n : LengthOf(t[i]) \in Nat
    BY LengthTyped
  <1>7. Bytes(s) = f[m] /\ Bytes(t) = g[n]
    BY <1>1, <1>2, BytesIs
  <1> HIDE DEF m, n
  <1>8. h \in [0 .. m + n -> Nat] /\ h[0] = 0
    <2>1. ASSUME NEW i \in 0 .. m + n PROVE h[i] \in Nat
      <3>1. CASE i <= m
        BY <1>3, <1>5, <3>1
      <3>2. CASE i > m
        <4>1. i - m \in 0 .. n /\ m \in 0 .. m
          BY <1>3, <3>2
        <4>2. g[i - m] \in Nat /\ f[m] \in Nat
          BY <1>5, <4>1
        <4> QED BY <4>2, <3>2, <1>3
      <3> QED BY <3>1, <3>2, <1>3
    <2>2. h[0] = 0
      BY <1>3, <1>5
    <2> QED BY <2>1, <2>2
  <1>9. ASSUME NEW i \in 1 .. m + n
        PROVE  h[i] = h[i - 1] + LengthOf((s \o t)[i])
    <2>1. CASE i <= m
      BY <1>3, <1>4, <1>5, <2>1
    <2>2. CASE i > m
      <3> DEFINE j == i - m
      <3>1. j \in 1 .. n /\ j - 1 \in 0 .. n /\ i - 1 - m = j - 1 /\ i \in m + 1 .. m + n
        BY <1>3, <2>2
      <3>2. (s \o t)[i] = t[j]
        BY <1>4, <3>1
      <3>3. h[i] = f[m] + g[j]
        BY <2>2, <1>3
      <3>4. h[i - 1] = f[m] + g[j - 1]
        <4>1. CASE i - 1 <= m
          <5>1. i - 1 = m /\ j - 1 = 0
            BY <4>1, <2>2, <1>3
          <5>2. h[i - 1] = f[m] /\ f[m] \in Nat
            BY <5>1, <1>3, <1>5
          <5> HIDE DEF h, j
          <5> QED BY <5>1, <5>2, <1>5
        <4>2. CASE i - 1 > m
          <5>1. h[i - 1] = f[m] + g[i - 1 - m]
            BY <4>2, <1>3
          <5> QED BY <5>1, <3>1
        <4> QED BY <4>1, <4>2, <1>3
      <3>5. g[j] = g[j - 1] + LengthOf(t[j])
        BY <3>1, <1>5
      <3>6. f[m] \in Nat /\ g[j - 1] \in Nat /\ LengthOf(t[j]) \in Nat
        BY <3>1, <1>3, <1>5, <1>6
      <3> HIDE DEF h, j
      <3> QED BY <3>2, <3>3, <3>4, <3>5, <3>6
    <2> QED BY <2>1, <2>2, <1>3
  <1>10. Sums(s \o t, h)
    <2> HIDE DEF h
    <2> QED BY <1>3, <1>8, <1>9 DEF Sums
  <1>11. Bytes(s \o t) = h[m + n]
    <2> HIDE DEF h
    <2> QED BY <1>3, <1>10, BytesIs
  <1>12. h[m + n] = f[m] + g[n]
    BY <1>3, <1>5
  <1> QED BY <1>3, <1>5, <1>7, <1>11, <1>12

(* The bytes of what a write puts behind a head. *)
LEMMA BytesOfFew ==
    /\ Bytes(<<>>) = 0
    /\ Bytes(<<Body>>) = BodySize
    /\ Bytes(<<Blank, Body>>) = 1 + BodySize
  <1>1. <<>> \in Seq(Items) /\ <<Body>> \in Seq(Items) /\ <<Blank, Body>> \in Seq(Items)
    BY DEF Items
  <1>2. LengthOf(Body) = BodySize /\ LengthOf(Blank) = 1 /\ BodySize \in Nat
    BY HeadersAssumption DEF LengthOf, Body, Blank
  <1>3. Bytes(<<>>) = 0
    <2> DEFINE f == [i \in 0 .. 0 |-> 0]
    <2>1. Sums(<<>>, f) /\ Len(<<>>) = 0 /\ f[0] = 0
      BY DEF Sums
    <2> HIDE DEF f
    <2> QED BY <2>1, <1>1, BytesIs
  <1>4. Bytes(<<Body>>) = BodySize
    <2> DEFINE f == [i \in 0 .. 1 |-> IF i = 0 THEN 0 ELSE BodySize]
               s == <<Body>>
    <2>1. Len(s) = 1 /\ s[1] = Body
      OBVIOUS
    <2>2. f \in [0 .. 1 -> Nat] /\ f[0] = 0 /\ f[1] = BodySize
      BY <1>2
    <2> HIDE DEF f, s
    <2>3. Sums(s, f)
      BY <1>2, <2>1, <2>2 DEF Sums
    <2>4. s \in Seq(Items)
      BY <1>1 DEF s
    <2>5. Bytes(s) = BodySize
      BY <2>1, <2>2, <2>3, <2>4, BytesIs
    <2> QED BY <2>5 DEF s
  <1>5. Bytes(<<Blank, Body>>) = 1 + BodySize
    <2> DEFINE f == [i \in 0 .. 2 |-> IF i = 0 THEN 0 ELSE IF i = 1 THEN 1 ELSE 1 + BodySize]
               s == <<Blank, Body>>
    <2>1. Len(s) = 2 /\ s[1] = Blank /\ s[2] = Body
      OBVIOUS
    <2>2. f \in [0 .. 2 -> Nat] /\ f[0] = 0 /\ f[1] = 1 /\ f[2] = 1 + BodySize
      BY <1>2
    <2> HIDE DEF f, s
    <2>3. Sums(s, f)
      BY <1>2, <2>1, <2>2 DEF Sums
    <2>4. s \in Seq(Items)
      BY <1>1 DEF s
    <2>5. Bytes(s) = 1 + BodySize
      BY <2>1, <2>2, <2>3, <2>4, BytesIs
    <2> QED BY <2>5 DEF s
  <1> QED BY <1>3, <1>4, <1>5

-----------------------------------------------------------------------------
(* Sent: the values of a header among the items.                           *)

(* The values of a header among items. *)
IsOf(item, k) == item.kind = "header" /\ KeyOf[item.name] = k

(* What is collected with item i. *)
Collected(items, k, s, i) == IF IsOf(items[i], k) THEN Append(s, items[i].value) ELSE s

(* f has the values of k among the first items. *)
Collects(items, k, f) ==
    /\ f \in [0 .. Len(items) -> Seq(Values)]
    /\ f[0] = <<>>
    /\ \A i \in 1 .. Len(items) : f[i] = Collected(items, k, f[i - 1], i)

(* Values are collected. *)
LEMMA CollectedTyped ==
    ASSUME NEW items \in Seq(Items), NEW k, NEW s \in Seq(Values), NEW i \in 1 .. Len(items)
    PROVE  Collected(items, k, s, i) \in Seq(Values)
  <1>1. items[i] \in Items
    OBVIOUS
  <1>2. IsOf(items[i], k) => items[i].value \in Values
    BY <1>1 DEF Items, IsOf, Blank, Body
  <1> QED BY <1>2 DEF Collected

(* The lists of values exist. *)
LEMMA CollectsExist ==
    ASSUME NEW items \in Seq(Items), NEW k
    PROVE  \E f : Collects(items, k, f)
  <1> DEFINE n == Len(items)
             T == Seq(Values)
             next == [p \in (1 .. n) \X T |-> Collected(items, k, p[2], p[1])]
             empty == <<>>
  <1>1. n \in Nat /\ empty \in T
    OBVIOUS
  <1>2. \A i \in 1 .. n, s \in T : Collected(items, k, s, i) \in T
    BY CollectedTyped
  <1>3. next \in [(1 .. n) \X T -> T]
    BY <1>2
  <1>4. \A i \in 1 .. n, s \in T : next[<<i, s>>] = Collected(items, k, s, i)
    OBVIOUS
  <1> HIDE DEF next, n, T, empty
  <1>5. \E f \in [0 .. n -> T] : f[0] = empty /\ Follows(f, next, n)
    BY <1>1, <1>3, RecursionOnPlaces
  <1>6. PICK f \in [0 .. n -> T] : f[0] = empty /\ \A i \in 1 .. n : f[i] = next[<<i, f[i - 1]>>]
    BY <1>5 DEF Follows
  <1>7. \A i \in 1 .. n : f[i - 1] \in T
    BY <1>1, <1>6
  <1>8. Collects(items, k, f)
    BY <1>4, <1>6, <1>7 DEF n, T, empty, Collects
  <1> QED BY <1>8

(* Sent is the last of them. *)
LEMMA SentIs ==
    ASSUME NEW items \in Seq(Items), NEW k, NEW f, Collects(items, k, f)
    PROVE  Sent(items, k) = f[Len(items)]
  <1> DEFINE n == Len(items)
             value(g, i) == IF i = 0 THEN <<>>
                            ELSE IF items[i].kind = "header" /\ KeyOf[items[i].name] = k
                            THEN Append(g[i - 1], items[i].value)
                            ELSE g[i - 1]
             sent == CHOOSE g : g = [i \in 0 .. n |-> value(g, i)]
  <1>0. n \in Nat
    OBVIOUS
  <1>1. f = [i \in 0 .. n |-> value(f, i)]
    <2>1. f = [i \in 0 .. n |-> f[i]]
      BY DEF Collects
    <2>2. ASSUME NEW i \in 0 .. n PROVE f[i] = value(f, i)
      <3>1. CASE i = 0
        BY <3>1 DEF Collects
      <3>2. CASE i # 0
        <4>1. i \in 1 .. n
          BY <3>2, <1>0
        <4>2. f[i] = Collected(items, k, f[i - 1], i)
          BY <4>1 DEF Collects
        <4> QED BY <3>2, <4>2 DEF Collected, IsOf
      <3> QED BY <3>1, <3>2
    <2> HIDE DEF value, n
    <2> QED BY <2>1, <2>2
  <1>2. sent = [i \in 0 .. n |-> value(sent, i)]
    <2> HIDE DEF value
    <2> QED BY <1>1
  <1>3. Sent(items, k) = sent[n]
    BY DEF Sent
  <1> HIDE DEF sent, n
  <1>4. \A i \in 0 .. n : sent[i] = value(sent, i) /\ f[i] = value(f, i)
    <2> HIDE DEF value
    <2> QED BY <1>1, <1>2
  <1> DEFINE P == {i \in 0 .. n : sent[i] = f[i]}
  <1>5. 0 \in P
    BY <1>0, <1>4
  <1>6. ASSUME NEW i \in 1 .. n, i - 1 \in P PROVE i \in P
    BY <1>0, <1>4, <1>6
  <1>7. \A i \in 0 .. n : i \in P
    <2> HIDE DEF P
    <2> QED BY <1>0, <1>5, <1>6, AllUpTo
  <1> QED BY <1>0, <1>3, <1>7 DEF n

(* It is a list of values. *)
LEMMA SentTyped ==
    ASSUME NEW items \in Seq(Items), NEW k
    PROVE  Sent(items, k) \in Seq(Values)
  <1>1. PICK f : Collects(items, k, f)
    BY CollectsExist
  <1>2. Len(items) \in 0 .. Len(items)
    OBVIOUS
  <1> QED BY <1>1, <1>2, SentIs DEF Collects

(* What is appended to a list goes behind what was put before it. *)
LEMMA AppendBehind ==
    ASSUME NEW T, NEW a \in Seq(T), NEW b \in Seq(T), NEW x \in T
    PROVE  a \o Append(b, x) = Append(a \o b, x)
  OBVIOUS

(* The values sent in two lists are those of the first and the second. *)
LEMMA SentConcat ==
    ASSUME NEW s \in Seq(Items), NEW t \in Seq(Items), NEW k
    PROVE  Sent(s \o t, k) = Sent(s, k) \o Sent(t, k)
  <1>1. PICK f : Collects(s, k, f)
    BY CollectsExist
  <1>2. PICK g : Collects(t, k, g)
    BY CollectsExist
  <1> DEFINE m == Len(s)
             n == Len(t)
             joined(i) == f[m] \o g[i - m]
             h == [i \in 0 .. m + n |-> IF i <= m THEN f[i] ELSE joined(i)]
  <1>3. m \in Nat /\ n \in Nat /\ s \o t \in Seq(Items) /\ Len(s \o t) = m + n
    OBVIOUS
  <1>4. /\ \A i \in 1 .. m : (s \o t)[i] = s[i]
        /\ \A i \in m + 1 .. m + n : (s \o t)[i] = t[i - m]
    OBVIOUS
  <1>5. /\ f \in [0 .. m -> Seq(Values)] /\ f[0] = <<>>
        /\ \A i \in 1 .. m : f[i] = Collected(s, k, f[i - 1], i)
        /\ g \in [0 .. n -> Seq(Values)] /\ g[0] = <<>>
        /\ \A i \in 1 .. n : g[i] = Collected(t, k, g[i - 1], i)
    BY <1>1, <1>2 DEF Collects
  <1>7. Sent(s, k) = f[m] /\ Sent(t, k) = g[n]
    BY <1>1, <1>2, SentIs
  <1> HIDE DEF m, n, joined
  <1>6. \A i \in 0 .. m + n : h[i] = IF i <= m THEN f[i] ELSE joined(i)
    OBVIOUS
  <1> HIDE DEF h
  <1>8. h \in [0 .. m + n -> Seq(Values)] /\ h[0] = <<>>
    <2>1. ASSUME NEW i \in 0 .. m + n PROVE h[i] \in Seq(Values)
      <3>1. CASE i <= m
        BY <1>3, <1>5, <1>6, <3>1
      <3>2. CASE i > m
        <4>1. i - m \in 0 .. n /\ m \in 0 .. m
          BY <1>3, <3>2
        <4>2. g[i - m] \in Seq(Values) /\ f[m] \in Seq(Values)
          BY <1>5, <4>1
        <4>3. joined(i) \in Seq(Values)
          BY <4>2 DEF joined
        <4> QED BY <4>3, <3>2, <1>3, <1>6
      <3> QED BY <3>1, <3>2, <1>3
    <2>2. h[0] = <<>>
      <3>1. 0 \in 0 .. m + n /\ 0 <= m
        BY <1>3
      <3>2. h[0] = f[0]
        BY <3>1, <1>6
      <3> QED BY <3>2, <1>5
    <2> QED BY <2>1, <2>2 DEF h
  <1>9. ASSUME NEW i \in 1 .. m + n
        PROVE  h[i] = Collected(s \o t, k, h[i - 1], i)
    <2>1. CASE i <= m
      <3>1. i \in 1 .. m /\ h[i] = f[i] /\ h[i - 1] = f[i - 1] /\ (s \o t)[i] = s[i]
        BY <1>3, <1>4, <1>6, <2>1
      <3>2. f[i] = Collected(s, k, f[i - 1], i)
        BY <3>1, <1>5
      <3> QED BY <3>1, <3>2 DEF Collected
    <2>2. CASE i > m
      <3> DEFINE j == i - m
      <3>1. j \in 1 .. n /\ j - 1 \in 0 .. n /\ i - 1 - m = j - 1 /\ i \in m + 1 .. m + n
        BY <1>3, <2>2
      <3>2. (s \o t)[i] = t[j]
        BY <1>4, <3>1
      <3>3. h[i] = f[m] \o g[j]
        <4>1. h[i] = joined(i)
          BY <2>2, <1>3, <1>6
        <4> QED BY <4>1 DEF joined
      <3>6. f[m] \in Seq(Values) /\ g[j - 1] \in Seq(Values) /\ m \in 0 .. m
        BY <3>1, <1>3, <1>5
      <3>4. h[i - 1] = f[m] \o g[j - 1]
        <4>1. CASE i - 1 <= m
          <5>1. i - 1 = m /\ j - 1 = 0
            BY <4>1, <2>2, <1>3
          <5>2. h[i - 1] = f[m]
            BY <5>1, <1>3, <1>6
          <5> HIDE DEF j
          <5>3. f[m] \o <<>> = f[m]
            BY <3>6
          <5> QED BY <5>1, <5>2, <5>3, <1>5
        <4>2. CASE i - 1 > m
          <5>1. h[i - 1] = joined(i - 1)
            BY <4>2, <1>3, <1>6
          <5> QED BY <5>1, <3>1 DEF joined
        <4>3. i - 1 <= m \/ i - 1 > m
          BY <1>3
        <4> QED BY <4>1, <4>2, <4>3
      <3>5. g[j] = Collected(t, k, g[j - 1], j)
        BY <3>1, <1>5
      <3> HIDE DEF j
      <3>7. IsOf(t[j], k) => t[j].value \in Values
        <4>1. t[j] \in Items
          BY <3>1 DEF n
        <4> QED BY <4>1 DEF Items, IsOf, Blank, Body
      <3>8. ASSUME IsOf(t[j], k)
            PROVE  f[m] \o Append(g[j - 1], t[j].value) = Append(f[m] \o g[j - 1], t[j].value)
        <4>1. t[j].value \in Values
          BY <3>7, <3>8
        <4> DEFINE a == f[m]
                   b == g[j - 1]
                   x == t[j].value
        <4>2. a \in Seq(Values) /\ b \in Seq(Values) /\ x \in Values
          BY <3>6, <4>1
        <4> HIDE DEF a, b, x
        <4>3. a \o Append(b, x) = Append(a \o b, x)
          BY <4>2, AppendBehind
        <4> QED BY <4>3 DEF a, b, x
      <3> QED BY <3>2, <3>3, <3>4, <3>5, <3>8 DEF Collected
    <2> QED BY <2>1, <2>2, <1>3
  <1>10. Collects(s \o t, k, h)
    BY <1>3, <1>8, <1>9 DEF Collects
  <1>11. Sent(s \o t, k) = h[m + n]
    BY <1>3, <1>10, SentIs
  <1>12. h[m + n] = f[m] \o g[n]
    <2>1. CASE n = 0
      <3>1. h[m + n] = f[m] /\ f[m] \in Seq(Values) /\ g[n] = <<>>
        BY <2>1, <1>3, <1>5, <1>6
      <3>2. f[m] \o <<>> = f[m]
        BY <3>1
      <3> QED BY <3>1, <3>2
    <2>2. CASE n # 0
      <3> DEFINE l == m + n
      <3>1. l - m = n /\ l \in 0 .. m + n /\ l > m /\ l \in Nat
        BY <2>2, <1>3
      <3> HIDE DEF l
      <3>2. h[l] = joined(l)
        BY <3>1, <1>3, <1>6
      <3>3. h[l] = f[m] \o g[n]
        BY <3>1, <3>2 DEF joined
      <3> QED BY <3>3 DEF l
    <2> QED BY <2>1, <2>2
  <1> QED BY <1>7, <1>11, <1>12

(* Neither the empty line nor the body is a header. *)
LEMMA SentOfFew ==
    ASSUME NEW k, NEW items \in {<<>>, <<Body>>, <<Blank, Body>>}
    PROVE  items \in Seq(Items) /\ Sent(items, k) = <<>>
  <1>1. items \in Seq(Items)
    <2>1. Body \in Items /\ Blank \in Items
      BY DEF Items
    <2>2. <<>> \in Seq(Items) /\ <<Body>> \in Seq(Items) /\ <<Blank, Body>> \in Seq(Items)
      BY <2>1
    <2> QED BY <2>2
  <1>2. \A i \in 1 .. Len(items) : ~IsOf(items[i], k)
    BY DEF IsOf, Blank, Body
  <1> DEFINE f == [i \in 0 .. Len(items) |-> <<>>]
             empty == <<>>
  <1>3. empty \in Seq(Values) /\ Len(items) \in Nat
    OBVIOUS
  <1>4. f \in [0 .. Len(items) -> Seq(Values)] /\ \A i \in 0 .. Len(items) : f[i] = empty
    BY <1>3
  <1> HIDE DEF f
  <1>5. Collects(items, k, f)
    BY <1>2, <1>3, <1>4 DEF Collects, Collected
  <1>6. Sent(items, k) = f[Len(items)]
    BY <1>1, <1>5, SentIs
  <1> QED BY <1>1, <1>3, <1>4, <1>6

-----------------------------------------------------------------------------
(* The concatenation of lists.                                             *)

(* Lists one behind the other. *)
Joins(lists, T, f) ==
    /\ f \in [0 .. Len(lists) -> Seq(T)]
    /\ f[0] = <<>>
    /\ \A i \in 1 .. Len(lists) : f[i] = f[i - 1] \o lists[i]

(* The concatenation of two lists is a list. *)
LEMMA ConcatTyped ==
    ASSUME NEW T, NEW a \in Seq(T), NEW b \in Seq(T)
    PROVE  a \o b \in Seq(T)
  OBVIOUS

(* The concatenations exist. *)
LEMMA JoinsExist ==
    ASSUME NEW T, NEW lists \in Seq(Seq(T))
    PROVE  \E f : Joins(lists, T, f)
  <1> DEFINE n == Len(lists)
             L == Seq(T)
             next == [p \in (1 .. n) \X L |-> p[2] \o lists[p[1]]]
             empty == <<>>
  <1>1. n \in Nat /\ empty \in L
    OBVIOUS
  <1>2. \A i \in 1 .. n, s \in L : s \o lists[i] \in L
    BY ConcatTyped
  <1>3. next \in [(1 .. n) \X L -> L]
    BY <1>2
  <1>4. \A i \in 1 .. n, s \in L : next[<<i, s>>] = s \o lists[i]
    OBVIOUS
  <1> HIDE DEF next, n, L, empty
  <1>5. \E f \in [0 .. n -> L] : f[0] = empty /\ Follows(f, next, n)
    BY <1>1, <1>3, RecursionOnPlaces
  <1>6. PICK f \in [0 .. n -> L] : f[0] = empty /\ \A i \in 1 .. n : f[i] = next[<<i, f[i - 1]>>]
    BY <1>5 DEF Follows
  <1>7. \A i \in 1 .. n : f[i - 1] \in L
    BY <1>1, <1>6
  <1>8. Joins(lists, T, f)
    BY <1>4, <1>6, <1>7 DEF n, L, empty, Joins
  <1> QED BY <1>8

(* FlattenSeq is the last of them. *)
LEMMA FlattenIs ==
    ASSUME NEW T, NEW lists \in Seq(Seq(T)), NEW f, Joins(lists, T, f)
    PROVE  FlattenSeq(lists) = f[Len(lists)]
  <1> DEFINE n == Len(lists)
             value(g, i) == IF i = 1 THEN lists[i] ELSE g[i - 1] \o lists[i]
             flatten == CHOOSE g : g = [i \in 1 .. n |-> value(g, i)]
             h == [i \in 1 .. n |-> f[i]]
  <1>0. n \in Nat
    OBVIOUS
  <1>1. CASE n = 0
    <2>1. FlattenSeq(lists) = lists /\ lists = <<>>
      BY <1>1 DEF FlattenSeq
    <2>2. f[n] = <<>>
      BY <1>1 DEF Joins
    <2> QED BY <2>1, <2>2
  <1>2. CASE n # 0
    <2>1. ASSUME NEW i \in 1 .. n PROVE h[i] = value(h, i)
      <3>1. f[i] = f[i - 1] \o lists[i]
        BY DEF Joins
      <3>2. CASE i = 1
        <4>0. f[i - 1] = <<>> /\ lists[i] \in Seq(T)
          BY <3>2 DEF Joins
        <4>1. lists[i] \in Seq(T) /\ f[i] = <<>> \o lists[i]
          BY <3>1, <4>0
        <4> DEFINE l == lists[i]
        <4>2. l \in Seq(T) /\ f[i] = <<>> \o l
          BY <4>1
        <4> HIDE DEF l
        <4>3. <<>> \o l = l
          BY <4>2
        <4>4. f[i] = l
          BY <4>2, <4>3
        <4>5. h[i] = f[i]
          OBVIOUS
        <4> HIDE DEF h
        <4> QED BY <3>2, <4>4, <4>5 DEF l
      <3>3. CASE i # 1
        <4>1. i - 1 \in 1 .. n /\ h[i] = f[i]
          BY <3>3
        <4>2. h[i - 1] = f[i - 1]
          BY <4>1
        <4> HIDE DEF h
        <4> QED BY <3>1, <3>3, <4>1, <4>2
      <3> QED BY <3>2, <3>3
    <2>2. h = [i \in 1 .. n |-> value(h, i)]
      <3>1. h = [i \in 1 .. n |-> h[i]]
        OBVIOUS
      <3> HIDE DEF value, n, h
      <3> QED BY <2>1, <3>1
    <2>3. flatten = [i \in 1 .. n |-> value(flatten, i)]
      <3> HIDE DEF value, h
      <3> QED BY <2>2
    <2>4. FlattenSeq(lists) = flatten[n]
      BY <1>2 DEF FlattenSeq
    <2> HIDE DEF flatten, n, h
    <2>5. \A i \in 1 .. n : flatten[i] = value(flatten, i) /\ h[i] = value(h, i)
      <3> HIDE DEF value
      <3> QED BY <2>1, <2>3
    <2> DEFINE P == {i \in 0 .. n : i # 0 => flatten[i] = h[i]}
    <2>6. 0 \in P
      BY <1>0
    <2>7. ASSUME NEW i \in 1 .. n, i - 1 \in P PROVE i \in P
      <3>1. i = 1 => flatten[i] = lists[i] /\ h[i] = lists[i]
        BY <2>5
      <3>2. i # 1 => flatten[i] = flatten[i - 1] \o lists[i] /\ h[i] = h[i - 1] \o lists[i]
        BY <2>5
      <3>3. i # 1 => flatten[i - 1] = h[i - 1]
        <4>1. i # 1 => i - 1 # 0
          OBVIOUS
        <4> QED BY <4>1, <2>7
      <3>4. CASE i = 1
        BY <3>1, <3>4
      <3>5. CASE i # 1
        <4> DEFINE l == lists[i]
                   a == flatten[i]
                   b == h[i]
                   c == h[i - 1]
        <4>1. a = c \o l /\ b = c \o l
          BY <3>2, <3>3, <3>5
        <4>2. a = b
          <5> HIDE DEF a, b, c, l
          <5> QED BY <4>1
        <4> QED BY <4>2
      <3> QED BY <3>4, <3>5
    <2>8. \A i \in 0 .. n : i \in P
      <3> HIDE DEF P
      <3> QED BY <1>0, <2>6, <2>7, AllUpTo
    <2>9. n \in 1 .. n /\ h[n] = f[n]
      BY <1>0, <1>2 DEF h
    <2> QED BY <1>0, <2>4, <2>8, <2>9 DEF n
  <1> QED BY <1>1, <1>2

(* A part of a list, and one more. *)
LEMMA OneMore ==
    ASSUME NEW T, NEW s \in Seq(T), NEW i \in 1 .. Len(s)
    PROVE  [j \in 1 .. i |-> s[j]] = Append([j \in 1 .. i - 1 |-> s[j]], s[i])
  OBVIOUS

-----------------------------------------------------------------------------
(* The table of headers, and the lines of an entry.                        *)

(* The entry of a key has a name of that key. *)
NamesFit == \A k \in Keys : headers[k] # NULL => KeyOf[headers[k].name] = k

(* The keys with an entry, those without values, and the table. *)
Present == {k \in Keys : headers[k] # NULL}

Table == HeadersTyped /\ NamesFit /\ IsFiniteSet(Present)

Emptied == {k \in Present : headers[k].values = <<>>}

(* An entry is a header. *)
LEMMA EntryTyped ==
    ASSUME Table, NEW k \in Present
    PROVE  /\ headers[k].name \in Names /\ headers[k].values \in Seq(Values)
           /\ OldValues(k) = headers[k].values
  <1>1. headers[k] \in Header
    BY DEF Table, HeadersTyped, Present
  <1> QED BY <1>1 DEF Header, OldValues, Present

(* Its lines are items. *)
LEMMA LinesTyped ==
    ASSUME Table, NEW k \in Present
    PROVE  /\ Lines(k) \in Seq(Items)
           /\ \A i \in DOMAIN Lines(k) : Lines(k)[i].kind = "header"
  <1> DEFINE v == headers[k].values
             n == headers[k].name
  <1>1. n \in Names /\ v \in Seq(Values)
    BY EntryTyped
  <1>2. Lines(k) = [i \in 1 .. Len(v) |-> Line(n, v[i])]
    BY <1>1 DEF Lines
  <1>3. Len(v) \in Nat
    BY <1>1
  <1> HIDE DEF v, n
  <1>4. \A i \in 1 .. Len(v) : v[i] \in Values
    BY <1>1
  <1>5. \A i \in 1 .. Len(v) : Line(n, v[i]) \in Items /\ Line(n, v[i]).kind = "header"
    BY <1>1, <1>4 DEF Items, Line
  <1> QED BY <1>2, <1>3, <1>5

(* They have its values, and those of no other. *)
LEMMA SentLines ==
    ASSUME Table, NEW k \in Present, NEW l \in Keys
    PROVE  Sent(Lines(k), l) = IF l = k THEN OldValues(k) ELSE <<>>
  <1> DEFINE v == headers[k].values
             n == headers[k].name
             lines == Lines(k)
             part(i) == [j \in 1 .. i |-> v[j]]
             f == [i \in 0 .. Len(lines) |-> IF l = k THEN part(i) ELSE <<>>]
  <1>1. n \in Names /\ v \in Seq(Values) /\ OldValues(k) = v
    BY EntryTyped
  <1>2. lines = [i \in 1 .. Len(v) |-> Line(n, v[i])] /\ lines \in Seq(Items)
    BY <1>1, LinesTyped DEF Lines
  <1>3. Len(v) \in Nat /\ Len(lines) = Len(v)
    BY <1>1, <1>2
  <1>4. KeyOf[n] = k
    BY DEF Table, NamesFit, Present
  <1> HIDE DEF v, n, lines
  <1>5. \A i \in 1 .. Len(v) : (IsOf(lines[i], l) <=> l = k) /\ lines[i].value = v[i]
    BY <1>2, <1>4 DEF IsOf, Line
  <1>6. part(0) = <<>>
    OBVIOUS
  <1>7. \A i \in 0 .. Len(v) : part(i) \in Seq(Values)
    BY <1>1
  <1>8. \A i \in 1 .. Len(v) : part(i) = Append(part(i - 1), v[i])
    BY <1>1, OneMore
  <1> HIDE DEF part
  <1>9. \A i \in 0 .. Len(v) : f[i] = IF l = k THEN part(i) ELSE <<>>
    BY <1>3
  <1>10. f \in [0 .. Len(lines) -> Seq(Values)]
    BY <1>3, <1>7
  <1> HIDE DEF f
  <1>11. ASSUME NEW i \in 1 .. Len(lines)
         PROVE  f[i] = Collected(lines, l, f[i - 1], i)
    <2>1. i \in 0 .. Len(v) /\ i - 1 \in 0 .. Len(v) /\ i \in 1 .. Len(v)
      BY <1>3
    <2>2. CASE l = k
      <3>1. f[i] = part(i) /\ f[i - 1] = part(i - 1)
        BY <1>9, <2>1, <2>2
      <3>2. f[i] = Append(f[i - 1], v[i])
        BY <1>8, <2>1, <3>1
      <3> QED BY <1>5, <2>1, <2>2, <3>2 DEF Collected
    <2>3. CASE l # k
      <3>1. f[i] = <<>> /\ f[i - 1] = <<>>
        BY <1>9, <2>1, <2>3
      <3> QED BY <1>5, <2>1, <2>3, <3>1 DEF Collected
    <2> QED BY <2>2, <2>3
  <1>12. f[0] = <<>>
    BY <1>3, <1>6, <1>9
  <1>13. Collects(lines, l, f)
    BY <1>10, <1>11, <1>12 DEF Collects
  <1>14. Sent(lines, l) = f[Len(v)]
    BY <1>2, <1>3, <1>13, SentIs
  <1>15. part(Len(v)) = v
    BY <1>1 DEF part
  <1> QED BY <1>1, <1>3, <1>9, <1>14, <1>15 DEF lines

(* The keys in an order are all there are, each once. *)
LEMMA OrderTyped ==
    ASSUME Table, NEW order \in KeyOrders
    PROVE  /\ order \in Seq(Present)
           /\ \A i, j \in DOMAIN order : order[i] = order[j] => i = j
           /\ \A k \in Present : \E i \in DOMAIN order : order[i] = k
  <1> DEFINE D == 1 .. Cardinality(Present)
  <1>1. order \in [D -> Present] /\ \A i, j \in D : i # j => order[i] # order[j]
    BY DEF KeyOrders, SetToSeqs, Present
  <1>2. Cardinality(Present) \in Nat
    BY FS_CardinalityType DEF Table
  <1>3. Cardinality(D) = Cardinality(Present)
    BY <1>2, FS_Interval
  <1> HIDE DEF D
  <1>4. order \in Injection(D, Present)
    BY <1>1 DEF Injection, IsInjective
  <1>5. order \in Surjection(D, Present)
    BY <1>3, <1>4, FS_Injection DEF Table
  <1>6. \A k \in Present : \E i \in D : order[i] = k
    BY <1>5 DEF Surjection
  <1>7. order \in Seq(Present)
    BY <1>1, <1>2 DEF D
  <1> QED BY <1>1, <1>6, <1>7

-----------------------------------------------------------------------------
(* The head: the lines of all headers.                                     *)

(* A list of header lines. *)
HeaderLine(item) == item.kind = "header"

OnlyHeaders(items) == \A i \in DOMAIN items : HeaderLine(items[i])

(* Two of them make one. *)
LEMMA OnlyHeadersConcat ==
    ASSUME NEW a \in Seq(Items), NEW b \in Seq(Items), OnlyHeaders(a), OnlyHeaders(b)
    PROVE  OnlyHeaders(a \o b)
  <1> DEFINE c == a \o b
             m == Len(a)
             n == Len(b)
  <1>1. m \in Nat /\ n \in Nat /\ DOMAIN c = 1 .. m + n
    OBVIOUS
  <1>2. /\ \A i \in 1 .. m : c[i] = a[i]
        /\ \A i \in m + 1 .. m + n : c[i] = b[i - m]
    OBVIOUS
  <1>3. DOMAIN a = 1 .. m /\ DOMAIN b = 1 .. n
    OBVIOUS
  <1> HIDE DEF m, n, c
  <1>4. ASSUME NEW i \in DOMAIN c PROVE HeaderLine(c[i])
    <2>1. CASE i \in 1 .. m
      BY <2>1, <1>2, <1>3 DEF OnlyHeaders
    <2>2. CASE i \in m + 1 .. m + n
      <3>1. i - m \in 1 .. n
        BY <1>1, <2>2
      <3>2. c[i] = b[i - m]
        BY <1>2, <2>2
      <3> QED BY <3>1, <3>2, <1>3 DEF OnlyHeaders
    <2> QED BY <2>1, <2>2, <1>1
  <1> QED BY <1>4 DEF c, OnlyHeaders

(* The head consists of headers only and has for each key the values that  *)
(* the table has.                                                          *)
LEMMA WholeHead ==
    ASSUME Table, NEW order \in KeyOrders,
           NEW head, head = FlattenSeq([i \in DOMAIN order |-> Lines(order[i])])
    PROVE  /\ head \in Seq(Items)
           /\ OnlyHeaders(head)
           /\ \A k \in Keys : Sent(head, k) = OldValues(k)
  <1> DEFINE n == Len(order)
             lists == [i \in 1 .. n |-> Lines(order[i])]
  <1>1. order \in Seq(Present) /\ n \in Nat /\ DOMAIN order = 1 .. n
    BY OrderTyped
  <1>2. \A i \in 1 .. n : order[i] \in Present
    BY <1>1
  <1>3. \A i \in 1 .. n : Lines(order[i]) \in Seq(Items)
    BY <1>2, LinesTyped
  <1>4. lists \in Seq(Seq(Items)) /\ Len(lists) = n
    BY <1>1, <1>3
  <1>5. head = FlattenSeq(lists)
    BY <1>1
  <1>6. \A i \in 1 .. n : lists[i] = Lines(order[i])
    OBVIOUS
  <1> HIDE DEF n, lists
  <1>7. PICK f : Joins(lists, Items, f)
    BY <1>4, JoinsExist
  <1>8. head = f[n]
    BY <1>4, <1>5, <1>7, FlattenIs
  <1>9. /\ \A i \in 0 .. n : f[i] \in Seq(Items)
        /\ f[0] = <<>>
        /\ \A i \in 1 .. n : f[i] = f[i - 1] \o Lines(order[i])
    BY <1>4, <1>6, <1>7 DEF Joins
  <1>10. head \in Seq(Items)
    BY <1>1, <1>8, <1>9
  <1> DEFINE P == {i \in 0 .. n : OnlyHeaders(f[i])}
  <1>11. OnlyHeaders(head)
    <2>1. 0 \in P
      BY <1>1, <1>9 DEF OnlyHeaders
    <2>2. ASSUME NEW i \in 1 .. n, i - 1 \in P PROVE i \in P
      <3> DEFINE a == f[i - 1]
                 b == Lines(order[i])
      <3>1. a \in Seq(Items) /\ b \in Seq(Items) /\ OnlyHeaders(a) /\ f[i] = a \o b
        BY <1>1, <1>3, <1>9, <2>2
      <3>2. OnlyHeaders(b)
        BY <1>2, LinesTyped DEF HeaderLine, OnlyHeaders
      <3> HIDE DEF a, b
      <3>3. OnlyHeaders(a \o b)
        BY <3>1, <3>2, OnlyHeadersConcat
      <3>4. i \in 0 .. n
        BY <1>1
      <3>5. OnlyHeaders(f[i])
        BY <3>1, <3>3
      <3> QED BY <3>4, <3>5
    <2>3. \A i \in 0 .. n : i \in P
      <3> HIDE DEF P
      <3> QED BY <1>1, <2>1, <2>2, AllUpTo
    <2> QED BY <1>1, <1>8, <2>3
  <1>12. ASSUME NEW k \in Keys
         PROVE  Sent(head, k) = OldValues(k)
    <2> DEFINE Seen(i) == \E j \in 1 .. i : order[j] = k
               Q == {i \in 0 .. n : Sent(f[i], k) = IF Seen(i) THEN OldValues(k) ELSE <<>>}
    <2>1. 0 \in Q
      <3>1. Sent(f[0], k) = <<>>
        BY <1>9, SentOfFew
      <3> QED BY <1>1, <3>1
    <2>2. ASSUME NEW i \in 1 .. n, i - 1 \in Q PROVE i \in Q
      <3> DEFINE a == f[i - 1]
                 b == Lines(order[i])
      <3>0. i - 1 \in 0 .. n
        BY <1>1
      <3>1. a \in Seq(Items) /\ b \in Seq(Items) /\ f[i] = a \o b
        BY <3>0, <1>3, <1>9
      <3>2. Sent(b, k) = IF order[i] = k THEN OldValues(k) ELSE <<>>
        BY <1>2, SentLines
      <3>3. Sent(a, k) = IF Seen(i - 1) THEN OldValues(k) ELSE <<>>
        BY <2>2
      <3> HIDE DEF a, b
      <3>4. Sent(f[i], k) = Sent(a, k) \o Sent(b, k)
        BY <3>1, SentConcat
      <3>5. order[i] = k => ~Seen(i - 1)
        <4>1. ASSUME NEW j \in 1 .. i - 1 PROVE order[j] # order[i]
          <5>1. j \in 1 .. n /\ j # i
            BY <1>1
          <5> QED BY <5>1, <1>1, OrderTyped
        <4> QED BY <4>1
      <3>6. Seen(i) <=> Seen(i - 1) \/ order[i] = k
        BY <1>1
      <3> HIDE DEF Seen
      <3> DEFINE v == OldValues(k)
      <3>7. v \in Seq(Values)
        <4>1. CASE k \in Present
          BY <4>1, EntryTyped
        <4>2. CASE k \notin Present
          BY <4>2 DEF Present, OldValues
        <4> QED BY <4>1, <4>2
      <3> HIDE DEF v
      <3>8. <<>> \o v = v /\ v \o <<>> = v /\ <<>> \o <<>> = <<>>
        BY <3>7
      <3>9. CASE order[i] = k
        <4>1. Sent(f[i], k) = v /\ Seen(i)
          BY <3>2, <3>3, <3>4, <3>5, <3>6, <3>8, <3>9 DEF v
        <4> QED BY <4>1 DEF v
      <3>10. CASE order[i] # k /\ Seen(i - 1)
        <4>1. Sent(f[i], k) = v /\ Seen(i)
          BY <3>2, <3>3, <3>4, <3>6, <3>8, <3>10 DEF v
        <4> QED BY <4>1 DEF v
      <3>11. CASE order[i] # k /\ ~Seen(i - 1)
        <4>1. Sent(f[i], k) = <<>> /\ ~Seen(i)
          BY <3>2, <3>3, <3>4, <3>6, <3>8, <3>11
        <4> QED BY <4>1
      <3> QED BY <3>9, <3>10, <3>11
    <2>3. n \in Q
      <3>1. \A i \in 0 .. n : i \in Q
        <4> HIDE DEF Q
        <4> QED BY <1>1, <2>1, <2>2, AllUpTo
      <3> HIDE DEF Q
      <3> QED BY <1>1, <3>1
    <2>4. CASE k \in Present
      <3>1. Seen(n)
        BY <1>1, <2>4, OrderTyped
      <3> QED BY <1>8, <2>3, <3>1
    <2>5. CASE k \notin Present
      <3>1. OldValues(k) = <<>>
        BY <2>5 DEF Present, OldValues
      <3> QED BY <1>8, <2>3, <3>1
    <2> QED BY <2>4, <2>5
  <1> QED BY <1>10, <1>11, <1>12

-----------------------------------------------------------------------------
(* What has been put on the stream.                                        *)

(* The Status header has one valid value. *)
StatusSingle ==
    headers["status"] # NULL =>
        \E v \in Values : CodeOf[v] # 0 /\ headers["status"].values = <<v>>

(* The types of what is about the stream. *)
StreamTyped ==
    /\ headers_sent \in BOOLEAN /\ open \in BOOLEAN
    /\ wbytes \in Nat
    /\ out \in Seq(Items)

(* Nothing is sent before the first write. *)
NothingBefore == ~headers_sent => out = <<>> /\ wbytes = 0

(* The first write has sent something, unless the streams were closed. *)
SentWhileOpen == headers_sent /\ open => out # <<>>

(* Headers come first. *)
Ordered(items) ==
    \A i, j \in DOMAIN items : i < j /\ items[j].kind = "header" => items[i].kind = "header"

HeadersFirst == Ordered(out)

(* The head that is sent has the table's values, or it is missing,         *)
(* which takes a header that has been removed.                             *)
HeadIntact ==
    out # <<>> => \/ \A k \in Keys : ValuesSent(k) = OldValues(k)
                  \/ Emptied # {} /\ \A k \in Keys : ValuesSent(k) = <<>>

(* The inductive invariant of what is sent. *)
StreamInv ==
    /\ Table /\ StatusSingle
    /\ StreamTyped /\ NothingBefore /\ SentWhileOpen
    /\ BytesExact /\ HeadersFirst /\ HeadIntact

(* It holds at first. *)
LEMMA InitStreamInv == Init => StreamInv
  <1> SUFFICES ASSUME Init PROVE StreamInv
    OBVIOUS
  <1>1. PICK lost \in SUBSET {"status", "content-type"} : headers = InitialHeaders(lost)
    BY DEF Init
  <1>2. HeadersTyped
    BY InitIInv DEF IInv
  <1>3. NamesFit /\ Present \subseteq {"status", "content-type"}
    BY <1>1, HeadersAssumption DEF NamesFit, Present, InitialHeaders
  <1>4. IsFiniteSet(Present)
    <2>1. IsFiniteSet({"status"})
      BY FS_Singleton
    <2>2. IsFiniteSet({"status"} \cup {"content-type"})
      BY <2>1, FS_AddElement
    <2>3. {"status", "content-type"} = {"status"} \cup {"content-type"}
      OBVIOUS
    <2> QED BY <2>2, <2>3, <1>3, FS_Subset
  <1>5. StatusSingle
    <2>1. headers["status"] # NULL => headers["status"] = [name |-> "Status", values |-> <<Ok>>]
      BY <1>1, KnownKeys DEF InitialHeaders
    <2> QED BY <2>1, HeadersAssumption DEF StatusSingle
  <1>6. /\ headers_sent = FALSE /\ open = TRUE /\ wbytes = 0 /\ out = <<>>
    BY DEF Init
  <1>7. BytesExact
    BY <1>6, BytesOfFew DEF BytesExact
  <1>8. StreamTyped /\ NothingBefore /\ SentWhileOpen /\ HeadersFirst /\ HeadIntact
    <2>1. out \in Seq(Items)
      BY <1>6, SentOfFew
    <2>2. HeadersFirst
      BY <1>6 DEF HeadersFirst, Ordered
    <2> QED BY <1>6, <2>1, <2>2 DEF StreamTyped, NothingBefore, SentWhileOpen, HeadIntact
  <1> QED BY <1>2, <1>3, <1>4, <1>5, <1>7, <1>8 DEF StreamInv, Table

(* Setting a header keeps the table in order; nothing has been sent.       *)
LEMMA SetHeaderTable ==
    ASSUME StreamInv, NEW n \in Names, NEW v \in Values \cup {NULL}, NEW replace \in BOOLEAN,
           SetHeader(n, v, replace)
    PROVE  (Table /\ StatusSingle)'
  <1> DEFINE h == [name |-> n, values |-> NewValues(KeyOf[n], v, replace)]
  <1>0. Table /\ StatusSingle
    BY DEF StreamInv
  <1>1. ~Refused(n, v, replace) /\ headers' = [headers EXCEPT ![KeyOf[n]] = h]
    BY DEF SetHeader
  <1>2. h \in Header /\ h.name = n /\ h.values = NewValues(KeyOf[n], v, replace)
    BY <1>0, <1>1, NewValuesTyped DEF Header, Table
  <1>3. KeyOf[n] \in Keys /\ h # NULL
    BY <1>2, HeadersAssumption DEF Keys
  <1> HIDE DEF h
  <1>4. /\ headers' \in [Keys -> Header \cup {NULL}]
        /\ headers'[KeyOf[n]] = h
        /\ \A k \in Keys \ {KeyOf[n]} : headers'[k] = headers[k]
    BY <1>0, <1>1, <1>2, <1>3 DEF Table, HeadersTyped
  <1>5. HeadersTyped'
    BY <1>4 DEF HeadersTyped
  <1>6. NamesFit'
    BY <1>0, <1>2, <1>4 DEF NamesFit, Table
  <1>7. IsFiniteSet(Present)'
    <2>1. Present' \subseteq Present \cup {KeyOf[n]}
      BY <1>4 DEF Present
    <2>2. IsFiniteSet(Present \cup {KeyOf[n]})
      BY <1>0, FS_AddElement DEF Table
    <2> QED BY <2>1, <2>2, FS_Subset
  <1>8. StatusSingle'
    <2>1. CASE KeyOf[n] = "status"
      <3>1. v \in Values /\ replace /\ CodeOf[v] # 0
        BY <1>1, <2>1 DEF Refused
      <3>2. h.values = <<v>>
        BY <1>2, <3>1, HeadersAssumption DEF NewValues
      <3> QED BY <1>4, <2>1, <3>1, <3>2 DEF StatusSingle
    <2>2. CASE KeyOf[n] # "status"
      <3>1. headers'["status"] = headers["status"]
        BY <1>4, <2>2, KnownKeys
      <3> QED BY <1>0, <3>1 DEF StatusSingle
    <2> QED BY <2>1, <2>2
  <1> QED BY <1>5, <1>6, <1>7, <1>8 DEF Table

(* Setting a header, before anything is sent, keeps it. *)
LEMMA SetHeaderStream ==
    ASSUME StreamInv, NEW n \in Names, NEW v \in Values \cup {NULL}, NEW replace \in BOOLEAN,
           SetHeader(n, v, replace)
    PROVE  StreamInv'
  <1>1. ~headers_sent /\ UNCHANGED streamVars
    BY DEF SetHeader
  <1>2. out = <<>> /\ wbytes = 0
    BY <1>1 DEF StreamInv, NothingBefore
  <1>3. (StreamTyped /\ NothingBefore /\ SentWhileOpen /\ BytesExact /\ HeadersFirst)'
    BY <1>1 DEF StreamInv, streamVars, StreamTyped, NothingBefore, SentWhileOpen, BytesExact,
                HeadersFirst
  <1>4. HeadIntact'
    BY <1>1, <1>2 DEF streamVars, HeadIntact
  <1> QED BY <1>3, <1>4, SetHeaderTable DEF StreamInv

(* A step that leaves table and stream alone.                              *)
LEMMA SameStream ==
    ASSUME StreamInv, headers' = headers, UNCHANGED streamVars
    PROVE  StreamInv'
  <1>1. (Table /\ StatusSingle)'
    BY DEF StreamInv, Table, HeadersTyped, NamesFit, Present, StatusSingle
  <1>2. (StreamTyped /\ NothingBefore /\ SentWhileOpen /\ BytesExact /\ HeadersFirst)'
    BY DEF StreamInv, streamVars, StreamTyped, NothingBefore, SentWhileOpen, BytesExact,
           HeadersFirst
  <1>3. HeadIntact'
    BY DEF StreamInv, streamVars, HeadIntact, ValuesSent, OldValues, Emptied, Present
  <1> QED BY <1>1, <1>2, <1>3 DEF StreamInv

(* A close keeps it. *)
LEMMA CloseStream ==
    ASSUME StreamInv, Close
    PROVE  StreamInv'
  <1>1. /\ open' = FALSE /\ UNCHANGED <<headers_sent, wbytes, out>> /\ headers' = headers
    BY DEF Close, headerVars
  <1>2. (Table /\ StatusSingle)'
    BY <1>1 DEF StreamInv, Table, HeadersTyped, NamesFit, Present, StatusSingle
  <1>3. (StreamTyped /\ NothingBefore /\ SentWhileOpen /\ BytesExact /\ HeadersFirst)'
    BY <1>1 DEF StreamInv, StreamTyped, NothingBefore, SentWhileOpen, BytesExact, HeadersFirst
  <1>4. HeadIntact'
    BY <1>1 DEF StreamInv, HeadIntact, ValuesSent, OldValues, Emptied, Present
  <1> QED BY <1>2, <1>3, <1>4 DEF StreamInv

(* What has no headers goes behind a list with headers first. *)
LEMMA OrderedBehind ==
    ASSUME NEW s \in Seq(Items), NEW t \in {<<Body>>, <<Blank, Body>>}, Ordered(s)
    PROVE  Ordered(s \o t)
  <1> DEFINE c == s \o t
             m == Len(s)
             n == Len(t)
  <1>0. t \in Seq(Items)
    BY SentOfFew
  <1>1. m \in Nat /\ n \in Nat /\ DOMAIN c = 1 .. m + n
    BY <1>0
  <1>2. /\ \A i \in 1 .. m : c[i] = s[i]
        /\ \A i \in m + 1 .. m + n : c[i] = t[i - m]
    BY <1>0
  <1>3. \A i \in 1 .. n : t[i].kind # "header"
    BY DEF Blank, Body
  <1>4. DOMAIN s = 1 .. m
    OBVIOUS
  <1> HIDE DEF m, n, c
  <1>5. ASSUME NEW i \in DOMAIN c, NEW j \in DOMAIN c, i < j, c[j].kind = "header"
        PROVE  c[i].kind = "header"
    <2>1. j \notin m + 1 .. m + n
      <3> SUFFICES ASSUME j \in m + 1 .. m + n PROVE FALSE
        OBVIOUS
      <3>1. j - m \in 1 .. n
        BY <1>1
      <3>2. c[j] = t[j - m]
        BY <1>2
      <3> QED BY <1>3, <1>5, <3>1, <3>2
    <2>2. j \in 1 .. m /\ i \in 1 .. m
      BY <1>1, <1>5, <2>1
    <2>3. c[i] = s[i] /\ c[j] = s[j]
      BY <1>2, <2>2
    <2>4. s[j].kind = "header" /\ i \in DOMAIN s /\ j \in DOMAIN s
      BY <1>4, <1>5, <2>2, <2>3
    <2>5. s[i].kind = "header"
      BY <1>5, <2>4 DEF Ordered
    <2> QED BY <2>3, <2>5
  <1> QED BY <1>5 DEF Ordered, c

(* A list with more behind it is not empty. *)
LEMMA NotEmptyBehind ==
    ASSUME NEW T, NEW s \in Seq(T), NEW t \in Seq(T), t # <<>>
    PROVE  s \o t \in Seq(T) /\ s \o t # <<>>
  OBVIOUS

(* A write behind the head sends no header. *)
LEMMA WriteSends ==
    ASSUME StreamInv, Write
    PROVE  \A k \in Keys : ValuesSent(k)' = ValuesSent(k)
  <1> SUFFICES ASSUME NEW k \in Keys PROVE Sent(out', k) = Sent(out, k)
    BY DEF ValuesSent
  <1> DEFINE t == Put(<<Body>>)
  <1>1. out' = out \o t /\ t \in {<<>>, <<Body>>} /\ out \in Seq(Items)
    <2>1. out' = out \o t /\ out \in Seq(Items)
      BY DEF Write, StreamInv, StreamTyped
    <2>2. t \in {<<>>, <<Body>>}
      BY DEF Put
    <2> HIDE DEF t
    <2> QED BY <2>1, <2>2
  <1> HIDE DEF t
  <1>2. t \in Seq(Items) /\ Sent(t, k) = <<>> /\ Sent(out, k) \in Seq(Values)
    BY <1>1, SentOfFew, SentTyped
  <1>3. Sent(out \o t, k) = Sent(out, k) \o Sent(t, k)
    BY <1>1, <1>2, SentConcat
  <1>4. Sent(out, k) \o <<>> = Sent(out, k)
    BY <1>2
  <1> QED BY <1>1, <1>2, <1>3, <1>4

(* A further write keeps it. *)
LEMMA WriteStream ==
    ASSUME StreamInv, Write
    PROVE  StreamInv'
  <1>1. /\ headers_sent /\ out' = out \o Put(<<Body>>) /\ wbytes' = wbytes + Bytes(Put(<<Body>>))
        /\ UNCHANGED <<headers_sent, open, headers>>
    BY DEF Write, headerVars
  <1>2. (Table /\ StatusSingle)'
    BY <1>1 DEF StreamInv, Table, HeadersTyped, NamesFit, Present, StatusSingle
  <1>3. out \in Seq(Items) /\ wbytes \in Nat
    BY DEF StreamInv, StreamTyped
  <1>4. CASE ~open
    <2>1. out' = out \o <<>> /\ wbytes' = wbytes + 0
      BY <1>1, <1>4, BytesOfFew DEF Put
    <2>2. out' = out /\ wbytes' = wbytes
      BY <1>3, <2>1
    <2>3. UNCHANGED streamVars
      BY <1>1, <2>2 DEF streamVars
    <2> QED BY <1>1, <2>3, SameStream
  <1>5. CASE open
    <2> DEFINE t == <<Body>>
    <2>1. t \in {<<Body>>, <<Blank, Body>>} /\ t \in Seq(Items) /\ t # <<>>
      BY SentOfFew
    <2>2. out' = out \o t /\ wbytes' = wbytes + Bytes(t)
      BY <1>1, <1>5 DEF Put
    <2> HIDE DEF t
    <2>3. out' \in Seq(Items) /\ out # <<>> /\ out' # <<>>
      <3>1. out # <<>>
        BY <1>1, <1>5 DEF StreamInv, SentWhileOpen
      <3> QED BY <1>3, <2>1, <2>2, <3>1, NotEmptyBehind
    <2>4. Bytes(out) \in Nat /\ Bytes(t) \in Nat /\ Bytes(out') = Bytes(out) + Bytes(t)
      BY <1>3, <2>1, <2>2, BytesConcat
    <2>5. wbytes = Bytes(out)
      BY <1>5 DEF StreamInv, BytesExact
    <2>6. StreamTyped' /\ BytesExact'
      BY <1>1, <1>3, <2>2, <2>3, <2>4, <2>5 DEF StreamInv, StreamTyped, BytesExact
    <2>7. NothingBefore' /\ SentWhileOpen'
      BY <1>1, <2>3 DEF NothingBefore, SentWhileOpen
    <2>8. HeadersFirst'
      BY <1>3, <2>1, <2>2, OrderedBehind DEF StreamInv, HeadersFirst
    <2>9. \A k \in Keys : ValuesSent(k)' = ValuesSent(k)
      BY WriteSends
    <2>10. HeadIntact'
      BY <1>1, <2>3, <2>9 DEF StreamInv, HeadIntact, OldValues, Emptied, Present
    <2> QED BY <1>2, <2>6, <2>7, <2>8, <2>10 DEF StreamInv
  <1> QED BY <1>4, <1>5

-----------------------------------------------------------------------------
(* What the first write puts: the whole head, or none where a header has   *)
(* been removed.                                                           *)
LEMMA HeadPut ==
    ASSUME Table, NEW order \in KeyOrders, NEW head \in Heads(order)
    PROVE  /\ head \in Seq(Items) /\ OnlyHeaders(head)
           /\ \/ \A k \in Keys : Sent(head, k) = OldValues(k)
              \/ Emptied # {} /\ \A k \in Keys : Sent(head, k) = <<>>
  <1> DEFINE whole == FlattenSeq([i \in DOMAIN order |-> Lines(order[i])])
  <1>1. CASE head = whole
    <2> HIDE DEF whole
    <2> QED BY <1>1, WholeHead DEF whole
  <1>2. CASE head # whole
    <2>1. order # <<>> /\ headers[order[1]].values = <<>> /\ head = <<>>
      BY <1>2 DEF Heads
    <2>2. order[1] \in Present
      <3>1. order \in Seq(Present)
        BY OrderTyped
      <3> QED BY <2>1, <3>1
    <2>3. Emptied # {}
      BY <2>1, <2>2 DEF Emptied
    <2> QED BY <2>1, <2>3, SentOfFew DEF OnlyHeaders
  <1> QED BY <1>1, <1>2

(* The first write, of a whole head or of none, keeps it. *)
LEMMA FirstWriteStream ==
    ASSUME StreamInv, FirstWrite
    PROVE  StreamInv'
  <1>1. PICK order \in KeyOrders : \E head \in Heads(order) :
            /\ out' = out \o Put(head \o <<Blank, Body>>)
            /\ wbytes' = wbytes + Counted(head) + Bytes(Put(<<Body>>))
    BY DEF FirstWrite
  <1>2. PICK head \in Heads(order) :
            /\ out' = out \o Put(head \o <<Blank, Body>>)
            /\ wbytes' = wbytes + Counted(head) + Bytes(Put(<<Body>>))
    BY <1>1
  <1>3. ~headers_sent /\ headers_sent' = TRUE /\ open' = open /\ headers' = headers
    BY DEF FirstWrite, headerVars
  <1>4. out = <<>> /\ wbytes = 0 /\ Table /\ open \in BOOLEAN
    BY <1>3 DEF StreamInv, NothingBefore, StreamTyped
  <1>5. (Table /\ StatusSingle)'
    BY <1>3 DEF StreamInv, Table, HeadersTyped, NamesFit, Present, StatusSingle
  <1>6. head \in Seq(Items) /\ OnlyHeaders(head)
    BY <1>4, HeadPut
  <1> DEFINE t == <<Blank, Body>>
             one == <<Body>>
  <1>7. t \in Seq(Items) /\ t # <<>> /\ one \in Seq(Items) /\ t \in {<<Body>>, <<Blank, Body>>}
    BY SentOfFew
  <1>8. /\ Bytes(t) = 1 + BodySize /\ Bytes(one) = BodySize /\ Bytes(<<>>) = 0
        /\ Bytes(head) \in Nat /\ BodySize \in Nat
    BY <1>6, BytesOfFew, BytesConcat, HeadersAssumption
  <1>9. /\ out' = out \o Put(head \o t)
        /\ wbytes' = wbytes + (Bytes(head) + 1) + Bytes(Put(one))
    BY <1>2 DEF Counted
  <1> HIDE DEF t, one
  <1>10. CASE ~open
    <2>1. out' = <<>> \o <<>> /\ wbytes' = 0 + (Bytes(head) + 1) + 0
      BY <1>4, <1>8, <1>9, <1>10 DEF Put
    <2>2. out' = <<>> /\ wbytes' \in Nat
      BY <1>8, <2>1
    <2>3. StreamTyped' /\ NothingBefore' /\ SentWhileOpen' /\ BytesExact' /\ HeadIntact'
      <3>1. out' \in Seq(Items)
        BY <2>2, SentOfFew
      <3>2. ~open' /\ headers_sent' = TRUE /\ open' \in BOOLEAN
        BY <1>3, <1>4, <1>10
      <3>3. StreamTyped'
        BY <2>2, <3>1, <3>2 DEF StreamTyped
      <3>4. BytesExact'
        BY <2>2, <3>2 DEF BytesExact
      <3>5. NothingBefore' /\ SentWhileOpen' /\ HeadIntact'
        BY <2>2, <3>2 DEF NothingBefore, SentWhileOpen, HeadIntact
      <3> QED BY <3>3, <3>4, <3>5
    <2>4. HeadersFirst'
      BY <2>2 DEF HeadersFirst, Ordered
    <2> QED BY <1>5, <2>3, <2>4 DEF StreamInv
  <1>11. CASE open
    <2>1. head \o t \in Seq(Items) /\ head \o t # <<>>
      BY <1>6, <1>7, NotEmptyBehind
    <2> DEFINE all == head \o t
    <2>2. out' = <<>> \o all /\ wbytes' = 0 + (Bytes(head) + 1) + BodySize
      BY <1>4, <1>8, <1>9, <1>11 DEF Put
    <2>3. all \in Seq(Items) /\ all # <<>> /\ Bytes(all) = Bytes(head) + (1 + BodySize)
      BY <1>6, <1>7, <1>8, <2>1, BytesConcat
    <2>4. Ordered(head)
      BY <1>6 DEF OnlyHeaders, HeaderLine, Ordered
    <2>5. Ordered(all)
      BY <1>6, <1>7, <2>4, OrderedBehind
    <2>6. \A k \in Keys : Sent(all, k) = Sent(head, k)
      <3> SUFFICES ASSUME NEW k \in Keys PROVE Sent(all, k) = Sent(head, k)
        OBVIOUS
      <3>1. Sent(all, k) = Sent(head, k) \o Sent(t, k)
        BY <1>6, <1>7, SentConcat
      <3>2. Sent(t, k) = <<>> /\ Sent(head, k) \in Seq(Values)
        BY <1>6, SentOfFew, SentTyped DEF t
      <3>3. Sent(head, k) \o <<>> = Sent(head, k)
        BY <3>2
      <3> QED BY <3>1, <3>2, <3>3
    <2> HIDE DEF all
    <2>7. out' = all
      BY <2>2, <2>3
    <2>8. wbytes' = Bytes(out') /\ wbytes' \in Nat
      BY <1>8, <2>2, <2>3, <2>7
    <2>9. StreamTyped' /\ NothingBefore' /\ SentWhileOpen' /\ BytesExact'
      BY <1>3, <1>4, <2>3, <2>7, <2>8 DEF StreamTyped, NothingBefore, SentWhileOpen, BytesExact
    <2>10. HeadersFirst'
      BY <2>5, <2>7 DEF HeadersFirst
    <2>11. HeadIntact'
      <3>1. \A k \in Keys : ValuesSent(k)' = Sent(head, k) /\ OldValues(k)' = OldValues(k)
        BY <1>3, <2>6, <2>7 DEF ValuesSent, OldValues
      <3>2. Emptied' = Emptied
        BY <1>3 DEF Emptied, Present
      <3>3. \/ \A k \in Keys : Sent(head, k) = OldValues(k)
            \/ Emptied # {} /\ \A k \in Keys : Sent(head, k) = <<>>
        BY <1>4, HeadPut
      <3> QED BY <3>1, <3>2, <3>3 DEF HeadIntact
    <2> QED BY <1>5, <2>9, <2>10, <2>11 DEF StreamInv
  <1> QED BY <1>4, <1>10, <1>11

(* Every step keeps it. *)
LEMMA NextStreamInv == StreamInv /\ [Next]_vars => StreamInv'
  <1> SUFFICES ASSUME StreamInv, [Next]_vars PROVE StreamInv'
    OBVIOUS
  <1>1. ASSUME NEW n \in Names, NEW v \in Values \cup {NULL}, NEW replace \in BOOLEAN,
               SetHeaderNoMemory(n, v, replace)
        PROVE  StreamInv'
    BY <1>1, SameStream DEF SetHeaderNoMemory
  <1>2. CASE Consume
    BY <1>2, SameStream DEF Consume, headerVars
  <1>3. CASE HeaderRefused
    BY <1>3, SameStream DEF HeaderRefused, vars, headerVars
  <1>4. CASE UNCHANGED vars
    BY <1>4, SameStream DEF vars, headerVars
  <1> QED BY <1>1, <1>2, <1>3, <1>4, SetHeaderStream, FirstWriteStream, WriteStream, CloseStream
          DEF Next

(* It is an invariant. *)
LEMMA StreamInvariant == Spec => []StreamInv
  BY InitStreamInv, NextStreamInv, PTL DEF Spec

(* The number of bytes that the request reports is that of the answer      *)
(* sent, unless the first write came after the streams had been closed     *)
(* (wbytes in request.c).                                                  *)
THEOREM BytesCounted == Spec => []BytesExact
  <1>1. StreamInv => BytesExact
    BY DEF StreamInv
  <1> QED BY <1>1, StreamInvariant, PTL

(* It and the agreement of status and header give the one Status line. *)
LEMMA OneStatus == StreamInv /\ StatusAgrees => OneStatusLine
  <1> SUFFICES ASSUME StreamInv, StatusAgrees, out # <<>> PROVE OneStatusLine
    BY DEF OneStatusLine
  <1>1. \A i, j \in DOMAIN out : i < j /\ out[j].kind = "header" => out[i].kind = "header"
    BY DEF StreamInv, HeadersFirst, Ordered
  <1>2. CASE \A k \in Keys : ValuesSent(k) = OldValues(k)
    <2>1. ValuesSent("status") = OldValues("status")
      BY <1>2, KnownKeys
    <2>2. CASE headers["status"] = NULL
      <3>1. ValuesSent("status") = <<>>
        BY <2>1, <2>2 DEF OldValues
      <3>2. ~~starved
        BY <2>2 DEF StatusAgrees
      <3> QED BY <1>1, <3>1, <3>2 DEF OneStatusLine
    <2>3. CASE headers["status"] # NULL
      <3>1. PICK v \in Values : headers["status"].values = <<v>>
        BY <2>3 DEF StreamInv, StatusSingle
      <3>2. Len(ValuesSent("status")) = 1
        BY <2>1, <2>3, <3>1 DEF OldValues
      <3> QED BY <1>1, <3>2 DEF OneStatusLine
    <2> QED BY <2>2, <2>3
  <1>3. CASE Emptied # {} /\ \A k \in Keys : ValuesSent(k) = <<>>
    <2>1. ValuesSent("status") = <<>>
      BY <1>3, KnownKeys
    <2>2. \E k \in Keys : headers[k] # NULL /\ headers[k].values = <<>>
      BY <1>3 DEF Emptied, Present
    <2> QED BY <1>1, <2>1, <2>2 DEF OneStatusLine
  <1> QED BY <1>2, <1>3 DEF StreamInv, HeadIntact

(* What is sent has exactly one Status line and headers before anything    *)
(* else, unless another header had been removed or memory had run out.     *)
THEOREM StatusLineSent == Spec => []OneStatusLine
  BY StreamInvariant, StatusCorrect, OneStatus, PTL

-----------------------------------------------------------------------------
(* The response that HttpResponse sees.                                    *)

(* The step of HttpResponse that a step of the request is.                 *)
Fields == [k \in Keys |-> OldValues(k)]
Taken == {k \in Keys : headers[k] # NULL /\ headers[k].values = <<>>}
HeadFields == [k \in Keys |-> ValuesSent(k)]

(* A step of the response, or none. *)
ResponseStep == [Abstract!Next]_(Abstract!vars)

(* A step that leaves headers and stream alone is none. *)
LEMMA ResponseStutter ==
    ASSUME headers' = headers, HeadFields' = HeadFields, headers_sent' = headers_sent, open' = open
    PROVE  ResponseStep
  <1>1. Fields' = Fields /\ Taken' = Taken
    BY DEF Fields, Taken, OldValues
  <1> QED BY <1>1 DEF ResponseStep, Abstract!vars, Fields, Taken, HeadFields

(* Setting a header sets, appends or removes the field. *)
LEMMA SetHeaderRefines ==
    ASSUME StreamInv, NEW n \in Names, NEW v \in Values \cup {NULL}, NEW replace \in BOOLEAN,
           SetHeader(n, v, replace)
    PROVE  ResponseStep
  <1> DEFINE k == KeyOf[n]
             s == NewValues(k, v, replace)
             h == [name |-> n, values |-> s]
  <1>1. /\ ~headers_sent /\ ~Refused(n, v, replace)
        /\ headers' = [headers EXCEPT ![k] = h]
        /\ headers_sent' = headers_sent /\ open' = open /\ out' = out
    BY DEF SetHeader, streamVars
  <1>2. k \in Keys /\ Table
    BY DEF Keys, StreamInv
  <1>3. s \in Seq(Values)
    BY <1>1, <1>2, NewValuesTyped DEF Table
  <1>4. h \in Header /\ h.values = s /\ h # NULL
    BY <1>3, HeadersAssumption DEF Header
  <1> HIDE DEF h, k
  <1>5. headers'[k] = h /\ \A l \in Keys \ {k} : headers'[l] = headers[l]
    BY <1>1, <1>2 DEF Table, HeadersTyped
  <1>6. Fields' = [Fields EXCEPT ![k] = s]
    BY <1>2, <1>4, <1>5 DEF Fields, OldValues
  <1>7. Taken' = IF s = <<>> THEN Taken \cup {k} ELSE Taken \ {k}
    BY <1>2, <1>4, <1>5 DEF Taken
  <1>8. HeadFields' = HeadFields
    BY <1>1 DEF HeadFields, ValuesSent
  <1>9. headers_sent' = headers_sent /\ open' = open /\ ~headers_sent
    BY <1>1
  <1>10. CASE k = "status"
    <2>1. v \in Values /\ CodeOf[v] # 0 /\ replace
      BY <1>1, <1>10 DEF Refused, k
    <2>2. s = <<v>>
      BY <2>1, HeadersAssumption DEF NewValues
    <2> HIDE DEF s
    <2>3. /\ Fields' = [Fields EXCEPT !["status"] = <<v>>]
          /\ Taken' = IF <<v>> = <<>> THEN Taken \cup {"status"} ELSE Taken \ {"status"}
      BY <1>6, <1>7, <1>10, <2>2
    <2>4. Abstract!SetStatus(v)
      BY <1>8, <1>9, <2>1, <2>3 DEF Abstract!SetStatus, Abstract!Become, Fields, Taken, HeadFields
    <2> QED BY <2>1, <2>4 DEF ResponseStep, Abstract!Next
  <1>11. CASE k # "status" /\ ~replace
    <2>1. v \in Values
      BY <1>1, <1>11 DEF Refused
    <2>2. s = Append(Fields[k], v)
      BY <1>2, <1>11 DEF NewValues, Fields
    <2> HIDE DEF s
    <2> DEFINE more == Append(Fields[k], v)
    <2>3. /\ Fields' = [Fields EXCEPT ![k] = more]
          /\ Taken' = IF more = <<>> THEN Taken \cup {k} ELSE Taken \ {k}
      BY <1>6, <1>7, <2>2
    <2>4. Abstract!AddField(k, v)
      BY <1>8, <1>9, <1>11, <2>3
         DEF Abstract!AddField, Abstract!Become, Fields, Taken, HeadFields
    <2> QED BY <1>2, <2>1, <2>4 DEF ResponseStep, Abstract!Next
  <1>12. CASE k # "status" /\ replace /\ v # NULL
    <2>1. v \in Values /\ s = <<v>>
      BY <1>12 DEF NewValues
    <2> HIDE DEF s
    <2>2. /\ Fields' = [Fields EXCEPT ![k] = <<v>>]
          /\ Taken' = IF <<v>> = <<>> THEN Taken \cup {k} ELSE Taken \ {k}
      BY <1>6, <1>7, <2>1
    <2>3. Abstract!SetField(k, v)
      BY <1>8, <1>9, <1>12, <2>2
         DEF Abstract!SetField, Abstract!Become, Fields, Taken, HeadFields
    <2> QED BY <1>2, <2>1, <2>3 DEF ResponseStep, Abstract!Next
  <1>13. CASE k # "status" /\ replace /\ v = NULL
    <2>1. s = <<>>
      BY <1>13 DEF NewValues
    <2> HIDE DEF s
    <2>2. /\ Fields' = [Fields EXCEPT ![k] = <<>>]
          /\ Taken' = IF <<>> = <<>> THEN Taken \cup {k} ELSE Taken \ {k}
      BY <1>6, <1>7, <2>1
    <2>3. Abstract!RemoveField(k)
      BY <1>8, <1>9, <1>13, <2>2
         DEF Abstract!RemoveField, Abstract!Become, Fields, Taken, HeadFields
    <2> QED BY <1>2, <2>3 DEF ResponseStep, Abstract!Next
  <1> QED BY <1>10, <1>11, <1>12, <1>13

(* The first write sends the fields. *)
LEMMA FirstWriteRefines ==
    ASSUME StreamInv, FirstWrite
    PROVE  ResponseStep
  <1>1. ~headers_sent /\ headers_sent' = TRUE /\ open' = open /\ headers' = headers
    BY DEF FirstWrite, headerVars
  <1>2. Fields' = Fields /\ Taken' = Taken /\ Emptied' = Taken
    BY <1>1 DEF Fields, Taken, OldValues, Emptied, Present
  <1>3. StreamInv'
    BY FirstWriteStream
  <1> DEFINE none == [k \in Keys |-> <<>>]
  <1>4. \/ HeadFields' = Fields /\ open
        \/ HeadFields' = none /\ (~open \/ Taken # {})
    <2>1. CASE ~open
      <3>1. out = <<>>
        BY <1>1 DEF StreamInv, NothingBefore
      <3>2. out' = <<>>
        BY <2>1, <3>1 DEF FirstWrite, Put
      <3>3. \A k \in Keys : ValuesSent(k)' = <<>>
        BY <3>2, SentOfFew DEF ValuesSent
      <3> QED BY <2>1, <3>3 DEF HeadFields
    <2>2. CASE open
      <3>1. out' # <<>>
        BY <1>1, <1>3, <2>2 DEF StreamInv, SentWhileOpen
      <3>2. \/ \A k \in Keys : ValuesSent(k)' = OldValues(k)'
            \/ Emptied' # {} /\ \A k \in Keys : ValuesSent(k)' = <<>>
        BY <1>3, <3>1 DEF StreamInv, HeadIntact
      <3>3. \A k \in Keys : OldValues(k)' = OldValues(k)
        BY <1>1 DEF OldValues
      <3> QED BY <1>2, <2>2, <3>2, <3>3 DEF HeadFields, Fields
    <2> QED BY <2>1, <2>2
  <1>5. Abstract!Answer
    BY <1>1, <1>2, <1>4 DEF Abstract!Answer, Abstract!NoFields, Fields, Taken, HeadFields
  <1> QED BY <1>5 DEF ResponseStep, Abstract!Next

(* A close closes. *)
LEMMA CloseRefines ==
    ASSUME StreamInv, Close
    PROVE  ResponseStep
  <1>1. /\ open' = FALSE /\ headers_sent' = headers_sent /\ out' = out /\ headers' = headers
    BY DEF Close, headerVars
  <1>2. Fields' = Fields /\ Taken' = Taken /\ HeadFields' = HeadFields
    BY <1>1 DEF Fields, Taken, OldValues, HeadFields, ValuesSent
  <1>3. Abstract!Close
    BY <1>1, <1>2 DEF Abstract!Close, Fields, Taken, HeadFields
  <1> QED BY <1>3 DEF ResponseStep, Abstract!Next

(* Every step is one of the response, or none. *)
LEMMA StepsRefine == StreamInv /\ [Next]_vars => ResponseStep
  <1> SUFFICES ASSUME StreamInv, [Next]_vars PROVE ResponseStep
    OBVIOUS
  <1>1. ASSUME headers' = headers, UNCHANGED streamVars PROVE ResponseStep
    <2>1. HeadFields' = HeadFields
      BY <1>1 DEF HeadFields, ValuesSent, streamVars
    <2> QED BY <1>1, <2>1, ResponseStutter DEF streamVars
  <1>2. ASSUME NEW n \in Names, NEW v \in Values \cup {NULL}, NEW replace \in BOOLEAN,
               SetHeaderNoMemory(n, v, replace)
        PROVE  ResponseStep
    BY <1>1, <1>2 DEF SetHeaderNoMemory
  <1>3. CASE Consume
    BY <1>1, <1>3 DEF Consume, headerVars
  <1>4. CASE HeaderRefused
    BY <1>1, <1>4 DEF HeaderRefused, vars, headerVars
  <1>5. CASE Write
    <2>1. HeadFields' = HeadFields
      BY <1>5, WriteSends DEF HeadFields
    <2> QED BY <1>5, <2>1, ResponseStutter DEF Write, headerVars
  <1>6. CASE UNCHANGED vars
    BY <1>1, <1>6 DEF vars, headerVars
  <1> QED BY <1>2, <1>3, <1>4, <1>5, <1>6, SetHeaderRefines, FirstWriteRefines, CloseRefines
          DEF Next

(* The initial states are initial states of the response. *)
LEMMA InitRefines == Init => Abstract!Init
  <1> SUFFICES ASSUME Init PROVE Abstract!Init
    OBVIOUS
  <1>0. StreamInv
    BY InitStreamInv
  <1>1. headers_sent = FALSE /\ open = TRUE /\ out = <<>>
    BY DEF Init
  <1>2. HeadFields = [k \in Keys |-> <<>>]
    BY <1>1, SentOfFew DEF HeadFields, ValuesSent
  <1>3. Fields \in [Keys -> Seq(Values)]
    <2>1. ASSUME NEW k \in Keys PROVE OldValues(k) \in Seq(Values)
      <3>1. CASE k \in Present
        BY <1>0, <3>1, EntryTyped DEF StreamInv
      <3>2. CASE k \notin Present
        BY <3>2 DEF Present, OldValues
      <3> QED BY <3>1, <3>2
    <2> QED BY <2>1 DEF Fields
  <1>4. Fields["status"] \in {<<v>> : v \in {v \in Values : CodeOf[v] # 0}} \cup {<<>>}
    <2>1. Fields["status"] = OldValues("status")
      BY KnownKeys DEF Fields
    <2> QED BY <1>0, <2>1 DEF OldValues, StreamInv, StatusSingle
  <1>5. Taken = {}
    <2>1. PICK lost \in SUBSET {"status", "content-type"} : headers = InitialHeaders(lost)
      BY DEF Init
    <2>2. \A k \in Keys : headers[k] # NULL => headers[k].values # <<>>
      BY <2>1 DEF InitialHeaders
    <2> QED BY <2>2 DEF Taken
  <1> QED BY <1>1, <1>2, <1>3, <1>4, <1>5
          DEF Abstract!Init, Abstract!NoFields, Fields, Taken, HeadFields

(* Headers are set, appended and removed as asked until the first write,   *)
(* which sends all of them as they are then, once and for ever: request.c  *)
(* implements HttpResponse.                                                *)
THEOREM RequestImplementsResponse == Spec => ImplementsResponse
  <1>1. StreamInv /\ [Next]_vars => [Abstract!Next]_(Abstract!vars)
    BY StepsRefine DEF ResponseStep
  <1> QED BY InitRefines, <1>1, StreamInvariant, PTL DEF Spec, ImplementsResponse, Abstract!Spec

-----------------------------------------------------------------------------
(* One step of the loop that decodes escapes.                              *)

(* What comes before the first c of a text is no longer than it. *)
LEMMA BeforeTyped ==
    ASSUME NEW s \in Text, NEW c
    PROVE  /\ Before(s, c) \in 0 .. Len(s)
           /\ Before(s, c) # 0 => s[Before(s, c)] = c
  <1> DEFINE I == {i \in 1 .. Len(s) : s[i] = c}
  <1>1. Before(s, c) = IF I # {} THEN Min(I) ELSE 0
    BY DEF Before, SelectInSeq
  <1>2. Len(s) \in Nat
    BY DEF Text
  <1>3. CASE I # {}
    <2>1. I \in SUBSET Nat
      OBVIOUS
    <2>2. PICK i \in I : \A j \in I : i <= j
      BY <1>3, <2>1, LeastOf
    <2>3. Min(I) \in I
      BY <2>1, <2>2 DEF Min
    <2> QED BY <1>1, <1>2, <1>3, <2>3
  <1>4. CASE I = {}
    BY <1>1, <1>2, <1>4
  <1> QED BY <1>3, <1>4

(* A part of a text, and its length. *)
LEMMA PartTyped ==
    ASSUME NEW T, NEW s \in Seq(T), NEW m \in Nat \ {0}, NEW n \in 0 .. Len(s)
    PROVE  /\ SubSeq(s, m, n) \in Seq(T)
           /\ Len(SubSeq(s, m, n)) = IF m <= n THEN n - m + 1 ELSE 0
  OBVIOUS

(* What comes before the first c is text, and there is some unless c is first. *)
LEMMA UpToTyped ==
    ASSUME NEW s \in Text, NEW c
    PROVE  /\ UpTo(s, c) \in Text
           /\ s # <<>> /\ s[1] # c => Len(UpTo(s, c)) > 0
  <1> DEFINE b == Before(s, c)
  <1>0. s \in Seq(Chars \cup {NUL}) /\ Len(s) \in Nat
    BY DEF Text
  <1>1. b \in 0 .. Len(s) /\ (b # 0 => s[b] = c)
    BY BeforeTyped
  <1>2. UpTo(s, c) = IF b = 0 THEN s ELSE SubSeq(s, 1, b - 1)
    BY DEF UpTo
  <1> HIDE DEF b
  <1>3. CASE b = 0
    <2>1. s # <<>> => Len(s) > 0
      BY <1>0
    <2> QED BY <1>2, <1>3, <2>1
  <1>4. CASE b # 0
    <2>1. b - 1 \in 0 .. Len(s) /\ 1 \in Nat \ {0} /\ b \in Nat
      BY <1>0, <1>1, <1>4
    <2>2. /\ SubSeq(s, 1, b - 1) \in Seq(Chars \cup {NUL})
          /\ Len(SubSeq(s, 1, b - 1)) = IF 1 <= b - 1 THEN b - 1 - 1 + 1 ELSE 0
      BY <1>0, <2>1, PartTyped
    <2>3. s[1] # c => b # 1
      BY <1>1, <1>4
    <2>4. s[1] # c => Len(SubSeq(s, 1, b - 1)) > 0
      BY <2>1, <2>2, <2>3, <1>4
    <2> QED BY <1>2, <1>4, <2>2, <2>4 DEF Text
  <1> QED BY <1>3, <1>4

(* The text behind an escape, a character, a segment.                      *)
LEMMA RestShorter ==
    ASSUME NEW s \in Text, s # <<>>
    PROVE  /\ Tail(s) \in Text /\ Len(Tail(s)) < Len(s) /\ s[1] \in Chars \cup {NUL}
           /\ \A i \in 1 .. Len(s) :
                SubSeq(s, i + 1, Len(s)) \in Text /\ Len(SubSeq(s, i + 1, Len(s))) < Len(s)
  <1>1. s \in Seq(Chars \cup {NUL}) /\ Len(s) \in Nat
    BY DEF Text
  <1>2. Tail(s) \in Text /\ Len(Tail(s)) < Len(s) /\ s[1] \in Chars \cup {NUL}
    BY <1>1 DEF Text
  <1>3. ASSUME NEW i \in 1 .. Len(s)
        PROVE  SubSeq(s, i + 1, Len(s)) \in Text /\ Len(SubSeq(s, i + 1, Len(s))) < Len(s)
    <2>1. i + 1 \in Nat \ {0} /\ Len(s) \in 0 .. Len(s)
      BY <1>1
    <2>2. /\ SubSeq(s, i + 1, Len(s)) \in Seq(Chars \cup {NUL})
          /\ Len(SubSeq(s, i + 1, Len(s))) = IF i + 1 <= Len(s) THEN Len(s) - (i + 1) + 1 ELSE 0
      BY <1>1, <2>1, PartTyped
    <2>3. Len(SubSeq(s, i + 1, Len(s))) < Len(s)
      BY <1>1, <2>2
    <2> QED BY <2>2, <2>3 DEF Text
  <1> QED BY <1>2, <1>3

(* One step of the loop that decodes. *)
DecodeStep(s, f) ==
    IF s = <<>> THEN <<>>
    ELSE IF IsEscape(s)
         THEN <<CharOf[<<s[2], s[3]>>]>> \o f[SubSeq(s, 4, Len(s))]
         ELSE <<s[1]>> \o f[Tail(s)]

(* The step makes text. *)
LEMMA DecodeStepTyped ==
    ASSUME NEW s \in Text, NEW f, \A t \in Text : Len(t) < Len(s) => f[t] \in Text
    PROVE  DecodeStep(s, f) \in Text
  <1> DEFINE C == Chars \cup {NUL}
  <1>1. CASE s = <<>>
    BY <1>1 DEF DecodeStep, Text
  <1>2. CASE s # <<>> /\ IsEscape(s)
    <2> DEFINE r == SubSeq(s, 4, Len(s))
    <2>1. Len(s) > 2 /\ s[2] \in Hex /\ s[3] \in Hex /\ Len(s) \in Nat
      BY <1>2 DEF IsEscape, Text
    <2>2. CharOf[<<s[2], s[3]>>] \in C
      BY <2>1, CharsAssumption
    <2>3. 3 \in 1 .. Len(s) /\ 3 + 1 = 4
      BY <2>1
    <2>4. r \in Text /\ Len(r) < Len(s)
      BY <1>2, <2>3, RestShorter
    <2>5. f[r] \in Seq(C)
      BY <2>4 DEF Text
    <2>6. DecodeStep(s, f) = <<CharOf[<<s[2], s[3]>>]>> \o f[r]
      BY <1>2 DEF DecodeStep
    <2> HIDE DEF r, C
    <2>7. <<CharOf[<<s[2], s[3]>>]>> \in Seq(C)
      BY <2>2
    <2>8. <<CharOf[<<s[2], s[3]>>]>> \o f[r] \in Seq(C)
      BY <2>5, <2>7, ConcatTyped
    <2> QED BY <2>6, <2>8 DEF Text, C
  <1>3. CASE s # <<>> /\ ~IsEscape(s)
    <2>1. s[1] \in C /\ Tail(s) \in Text /\ Len(Tail(s)) < Len(s)
      BY <1>3, RestShorter
    <2>2. f[Tail(s)] \in Seq(C)
      BY <2>1 DEF Text
    <2>3. DecodeStep(s, f) = <<s[1]>> \o f[Tail(s)]
      BY <1>3 DEF DecodeStep
    <2> HIDE DEF C
    <2>4. <<s[1]>> \in Seq(C)
      BY <2>1
    <2>5. <<s[1]>> \o f[Tail(s)] \in Seq(C)
      BY <2>2, <2>4, ConcatTyped
    <2> QED BY <2>3, <2>5 DEF Text, C
  <1> QED BY <1>1, <1>2, <1>3

(* It looks at the rest only. *)
LEMMA DecodeStepLocal ==
    ASSUME NEW s \in Text, NEW f, NEW g, \A t \in Text : Len(t) < Len(s) => f[t] = g[t]
    PROVE  DecodeStep(s, f) = DecodeStep(s, g)
  <1>1. CASE s = <<>>
    BY <1>1 DEF DecodeStep
  <1>2. CASE s # <<>> /\ IsEscape(s)
    <2> DEFINE r == SubSeq(s, 4, Len(s))
    <2>1. Len(s) > 2 /\ Len(s) \in Nat
      BY <1>2 DEF IsEscape, Text
    <2>2. 3 \in 1 .. Len(s) /\ 3 + 1 = 4
      BY <2>1
    <2>3. r \in Text /\ Len(r) < Len(s)
      BY <1>2, <2>2, RestShorter
    <2>4. f[r] = g[r]
      BY <2>3
    <2> QED BY <1>2, <2>4 DEF DecodeStep
  <1>3. CASE s # <<>> /\ ~IsEscape(s)
    <2>1. f[Tail(s)] = g[Tail(s)]
      BY <1>3, RestShorter
    <2> QED BY <1>3, <2>1 DEF DecodeStep
  <1> QED BY <1>1, <1>2, <1>3

-----------------------------------------------------------------------------
(* What the two loops over a URI compute is text.                          *)

(* The level of a text is its length. *)
TextLevel == [s \in Text |-> Len(s)]

(* Decoded is a solution of its definition. *)
LEMMA DecodedIs ==
    /\ DOMAIN Decoded = Text
    /\ \A s \in Text : Decoded[s] = DecodeStep(s, Decoded)
  <1> DEFINE F == [Text -> Text]
             step == [p \in Text \X F |-> DecodeStep(p[1], p[2])]
             body(g) == [s \in Text |->
                            IF s = <<>> THEN <<>>
                            ELSE IF IsEscape(s)
                                 THEN <<CharOf[<<s[2], s[3]>>]>> \o g[SubSeq(s, 4, Len(s))]
                                 ELSE <<s[1]>> \o g[Tail(s)]]
  <1>1. TextLevel \in [Text -> Nat]
    BY DEF TextLevel, Text
  <1>2. ASSUME NEW s \in Text, NEW f \in F
        PROVE  DecodeStep(s, f) \in Text
    BY DecodeStepTyped
  <1>3. step \in [Text \X F -> Text]
    BY <1>2
  <1>4. \A s \in Text, f \in F : step[<<s, f>>] = DecodeStep(s, f)
    OBVIOUS
  <1> HIDE DEF step
  <1>5. Local(Text, Text, TextLevel, step)
    <2> SUFFICES ASSUME NEW s \in Text, NEW f \in F, NEW g \in F,
                        Agree(Text, TextLevel, TextLevel[s], f, g)
                 PROVE  step[<<s, f>>] = step[<<s, g>>]
      BY DEF Local
    <2>1. \A t \in Text : Len(t) < Len(s) => f[t] = g[t]
      BY DEF Agree, TextLevel
    <2>2. DecodeStep(s, f) = DecodeStep(s, g)
      BY <2>1, DecodeStepLocal
    <2> QED BY <1>4, <2>2
  <1>6. Text # {}
    <2>1. <<>> \in Seq(Chars \cup {NUL})
      OBVIOUS
    <2> QED BY <2>1 DEF Text
  <1>7. \E f \in F : Satisfies(Text, step, f)
    BY <1>1, <1>3, <1>5, <1>6, Recursion
  <1>8. PICK f \in F : \A s \in Text : f[s] = DecodeStep(s, f)
    BY <1>4, <1>7 DEF Satisfies
  <1>9. f = body(f)
    BY <1>8 DEF DecodeStep
  <1>10. Decoded = CHOOSE g : g = body(g)
    BY DEF Decoded
  <1>11. Decoded = body(Decoded)
    <2> HIDE DEF body
    <2> QED BY <1>9, <1>10
  <1>12. \A s \in Text : Decoded[s] = DecodeStep(s, Decoded)
    <2> DEFINE d == Decoded
    <2>1. d = body(d)
      BY <1>11
    <2> HIDE DEF d
    <2>2. \A s \in Text : d[s] = DecodeStep(s, d)
      BY <2>1 DEF DecodeStep
    <2> QED BY <2>2 DEF d
  <1>13. DOMAIN Decoded = Text
    <2> DEFINE d == Decoded
    <2>1. d = body(d)
      BY <1>11
    <2> HIDE DEF d
    <2>2. DOMAIN d = Text
      BY <2>1
    <2> QED BY <2>2 DEF d
  <1> QED BY <1>12, <1>13

(* So it is text. *)
LEMMA DecodedTyped ==
    ASSUME NEW s \in Text
    PROVE  Decoded[s] \in Text
  <1> DEFINE P == {m \in Nat : \A t \in Text : Len(t) < m => Decoded[t] \in Text}
  <1>0. \A t \in Text : Len(t) \in Nat
    BY DEF Text
  <1>1. 0 \in P
    BY <1>0
  <1>2. ASSUME NEW m \in Nat \ {0}, m - 1 \in P
        PROVE  m \in P
    <2>1. ASSUME NEW t \in Text, Len(t) < m PROVE Decoded[t] \in Text
      <3>1. \A r \in Text : Len(r) < Len(t) => Decoded[r] \in Text
        BY <1>0, <1>2, <2>1
      <3>2. DecodeStep(t, Decoded) \in Text
        BY <3>1, DecodeStepTyped
      <3> QED BY <3>2, DecodedIs
    <2> QED BY <2>1
  <1>3. Nat \subseteq P
    <2> HIDE DEF P
    <2> QED BY <1>1, <1>2, AllNumbers
  <1>4. Len(s) + 1 \in P
    BY <1>0, <1>3
  <1> QED BY <1>0, <1>4

(* And so is an element. *)
LEMMA ElementTyped ==
    ASSUME NEW segment \in Text
    PROVE  Element(segment) \in Text
  BY DecodedTyped, UpToTyped DEF Element

(* One step of the loop that splits. *)
SplitStep(s, f) ==
    IF s = <<>> THEN <<>>
    ELSE IF s[1] = "/" THEN f[Tail(s)]
    ELSE LET segment == UpTo(s, "/")
         IN  <<Element(segment)>> \o f[SubSeq(s, Len(segment) + 1, Len(s))]

(* A segment is not empty, and the rest is shorter. *)
LEMMA SegmentRest ==
    ASSUME NEW s \in Text, s # <<>>, s[1] # "/"
    PROVE  /\ UpTo(s, "/") \in Text
           /\ Len(UpTo(s, "/")) \in 1 .. Len(s)
           /\ SubSeq(s, Len(UpTo(s, "/")) + 1, Len(s)) \in Text
           /\ Len(SubSeq(s, Len(UpTo(s, "/")) + 1, Len(s))) < Len(s)
  <1> DEFINE u == UpTo(s, "/")
             b == Before(s, "/")
  <1>1. u \in Text /\ Len(u) > 0
    BY UpToTyped
  <1>2. Len(s) \in Nat /\ Len(u) \in Nat /\ s \in Seq(Chars \cup {NUL})
    BY <1>1 DEF Text
  <1>3. Len(u) <= Len(s)
    <2>1. b \in 0 .. Len(s)
      BY BeforeTyped
    <2>2. u = IF b = 0 THEN s ELSE SubSeq(s, 1, b - 1)
      BY DEF UpTo
    <2> HIDE DEF u, b
    <2>3. CASE b = 0
      BY <1>2, <2>2, <2>3
    <2>4. CASE b # 0
      <3>1. b - 1 \in 0 .. Len(s) /\ 1 \in Nat \ {0} /\ b \in Nat
        BY <1>2, <2>1, <2>4
      <3>2. Len(SubSeq(s, 1, b - 1)) = IF 1 <= b - 1 THEN b - 1 - 1 + 1 ELSE 0
        BY <1>2, <3>1, PartTyped
      <3> QED BY <1>2, <2>2, <2>4, <3>1, <3>2
    <2> QED BY <2>3, <2>4
  <1> HIDE DEF u
  <1>4. Len(u) \in 1 .. Len(s)
    BY <1>1, <1>2, <1>3
  <1>5. /\ SubSeq(s, Len(u) + 1, Len(s)) \in Text
        /\ Len(SubSeq(s, Len(u) + 1, Len(s))) < Len(s)
    BY <1>4, RestShorter
  <1> QED BY <1>1, <1>4, <1>5 DEF u

(* The step makes a list of texts. *)
LEMMA SplitStepTyped ==
    ASSUME NEW s \in Text, NEW f, \A t \in Text : Len(t) < Len(s) => f[t] \in Seq(Text)
    PROVE  SplitStep(s, f) \in Seq(Text)
  <1>1. CASE s = <<>>
    BY <1>1 DEF SplitStep
  <1>2. CASE s # <<>> /\ s[1] = "/"
    <2>1. f[Tail(s)] \in Seq(Text)
      BY <1>2, RestShorter
    <2> QED BY <1>2, <2>1 DEF SplitStep
  <1>3. CASE s # <<>> /\ s[1] # "/"
    <2> DEFINE u == UpTo(s, "/")
               r == SubSeq(s, Len(u) + 1, Len(s))
               e == Element(u)
    <2>1. u \in Text /\ r \in Text /\ Len(r) < Len(s)
      BY <1>3, SegmentRest
    <2>2. e \in Text
      BY <2>1, ElementTyped
    <2>3. f[r] \in Seq(Text)
      BY <2>1
    <2>4. SplitStep(s, f) = <<e>> \o f[r]
      BY <1>3 DEF SplitStep
    <2> HIDE DEF u, r, e
    <2>5. <<e>> \in Seq(Text)
      BY <2>2
    <2>6. <<e>> \o f[r] \in Seq(Text)
      BY <2>3, <2>5, ConcatTyped
    <2> QED BY <2>4, <2>6
  <1> QED BY <1>1, <1>2, <1>3

(* It looks at the rest only. *)
LEMMA SplitStepLocal ==
    ASSUME NEW s \in Text, NEW f, NEW g, \A t \in Text : Len(t) < Len(s) => f[t] = g[t]
    PROVE  SplitStep(s, f) = SplitStep(s, g)
  <1>1. CASE s = <<>>
    BY <1>1 DEF SplitStep
  <1>2. CASE s # <<>> /\ s[1] = "/"
    <2>1. f[Tail(s)] = g[Tail(s)]
      BY <1>2, RestShorter
    <2> QED BY <1>2, <2>1 DEF SplitStep
  <1>3. CASE s # <<>> /\ s[1] # "/"
    <2> DEFINE r == SubSeq(s, Len(UpTo(s, "/")) + 1, Len(s))
    <2>1. f[r] = g[r]
      BY <1>3, SegmentRest
    <2> QED BY <1>3, <2>1 DEF SplitStep
  <1> QED BY <1>1, <1>2, <1>3

(* Elements is a solution of its definition. *)
LEMMA ElementsIs == \A s \in Text : Elements[s] = SplitStep(s, Elements)
  <1> DEFINE T == Seq(Text)
             F == [Text -> T]
             step == [p \in Text \X F |-> SplitStep(p[1], p[2])]
             body(g) == [s \in Text |->
                            IF s = <<>> THEN <<>>
                            ELSE IF s[1] = "/" THEN g[Tail(s)]
                            ELSE LET segment == UpTo(s, "/")
                                 IN  <<Element(segment)>> \o g[SubSeq(s, Len(segment) + 1, Len(s))]]
  <1>1. TextLevel \in [Text -> Nat]
    BY DEF TextLevel, Text
  <1>2. ASSUME NEW s \in Text, NEW f \in F
        PROVE  SplitStep(s, f) \in T
    BY SplitStepTyped
  <1>3. step \in [Text \X F -> T]
    BY <1>2
  <1>4. \A s \in Text, f \in F : step[<<s, f>>] = SplitStep(s, f)
    OBVIOUS
  <1> HIDE DEF step
  <1>5. Local(Text, T, TextLevel, step)
    <2> SUFFICES ASSUME NEW s \in Text, NEW f \in F, NEW g \in F,
                        Agree(Text, TextLevel, TextLevel[s], f, g)
                 PROVE  step[<<s, f>>] = step[<<s, g>>]
      BY DEF Local
    <2>1. \A t \in Text : Len(t) < Len(s) => f[t] = g[t]
      BY DEF Agree, TextLevel
    <2>2. SplitStep(s, f) = SplitStep(s, g)
      BY <2>1, SplitStepLocal
    <2> QED BY <1>4, <2>2
  <1>6. T # {}
    <2>1. <<>> \in Seq(Text)
      OBVIOUS
    <2> QED BY <2>1
  <1> HIDE DEF T
  <1>7. \E f \in F : Satisfies(Text, step, f)
    BY <1>1, <1>3, <1>5, <1>6, Recursion
  <1>8. PICK f \in F : \A s \in Text : f[s] = SplitStep(s, f)
    BY <1>4, <1>7 DEF Satisfies
  <1>9. f = body(f)
    BY <1>8 DEF SplitStep
  <1>10. Elements = CHOOSE g : g = body(g)
    BY DEF Elements
  <1>11. Elements = body(Elements)
    <2> HIDE DEF body
    <2> QED BY <1>9, <1>10
  <1> DEFINE d == Elements
  <1>12. d = body(d)
    BY <1>11
  <1> HIDE DEF d
  <1>13. \A s \in Text : d[s] = SplitStep(s, d)
    BY <1>12 DEF SplitStep
  <1> QED BY <1>13 DEF d

(* So they are a list of texts. *)
LEMMA ElementsTyped ==
    ASSUME NEW s \in Text
    PROVE  Elements[s] \in Seq(Text)
  <1> DEFINE P == {m \in Nat : \A t \in Text : Len(t) < m => Elements[t] \in Seq(Text)}
  <1>0. \A t \in Text : Len(t) \in Nat
    BY DEF Text
  <1>1. 0 \in P
    BY <1>0
  <1>2. ASSUME NEW m \in Nat \ {0}, m - 1 \in P
        PROVE  m \in P
    <2>1. ASSUME NEW t \in Text, Len(t) < m PROVE Elements[t] \in Seq(Text)
      <3>1. \A r \in Text : Len(r) < Len(t) => Elements[r] \in Seq(Text)
        BY <1>0, <1>2, <2>1
      <3>2. SplitStep(t, Elements) \in Seq(Text)
        BY <3>1, SplitStepTyped
      <3> QED BY <3>2, ElementsIs
    <2> QED BY <2>1
  <1>3. Nat \subseteq P
    <2> HIDE DEF P
    <2> QED BY <1>1, <1>2, AllNumbers
  <1>4. Len(s) + 1 \in P
    BY <1>0, <1>3
  <1> QED BY <1>0, <1>4

-----------------------------------------------------------------------------
(* The text of a URI, and of what comes before its query. *)
LEMMA UriIsText == Seq(Chars) \subseteq Text
  <1> SUFFICES ASSUME NEW s \in Seq(Chars) PROVE s \in Seq(Chars \cup {NUL})
    BY DEF Text
  <1>1. Len(s) \in Nat /\ s = [i \in 1 .. Len(s) |-> s[i]]
    OBVIOUS
  <1>2. \A i \in 1 .. Len(s) : s[i] \in Chars \cup {NUL}
    OBVIOUS
  <1>3. \A n \in Nat : \A f : (\A i \in 1 .. n : f[i] \in Chars \cup {NUL})
                            => [i \in 1 .. n |-> f[i]] \in Seq(Chars \cup {NUL})
    OBVIOUS
  <1> QED BY <1>1, <1>2, <1>3

(* The elements of a URI are texts. *)
LEMMA ArrayTyped ==
    ASSUME NEW u \in Seq(Chars)
    PROVE  RequestArray(u) \in Seq(Text)
  <1>1. RequestStr(u) \in Text
    BY UriIsText, UpToTyped DEF RequestStr
  <1> QED BY <1>1, ElementsTyped DEF RequestArray

-----------------------------------------------------------------------------
(* The number of a status is valid in whatever order methods are called.   *)
StatusTyped == status \in 100 .. 999

(* It is valid at first. *)
LEMMA InitStatusTyped == Init => StatusTyped
  BY HeadersAssumption DEF Init, StatusTyped

(* A status that is not turned down is valid. *)
LEMMA NewStatusTyped ==
    ASSUME StatusTyped, NEW n \in Names, NEW v \in Values \cup {NULL}, NEW replace \in BOOLEAN,
           ~Refused(n, v, replace)
    PROVE  NewStatus(n, v) \in 100 .. 999
  <1>1. CASE KeyOf[n] = "status"
    <2>1. v \in Values /\ CodeOf[v] # 0
      BY <1>1 DEF Refused
    <2> QED BY <1>1, <2>1, HeadersAssumption DEF NewStatus
  <1>2. CASE KeyOf[n] # "status"
    BY <1>2 DEF NewStatus, StatusTyped
  <1> QED BY <1>1, <1>2

(* Every step keeps it valid. *)
LEMMA NextStatusTyped == StatusTyped /\ [Next]_vars => StatusTyped'
  <1> SUFFICES ASSUME StatusTyped, [Next]_vars PROVE StatusTyped'
    OBVIOUS
  <1>1. ASSUME NEW n \in Names, NEW v \in Values \cup {NULL}, NEW replace \in BOOLEAN,
               SetHeader(n, v, replace) \/ SetHeaderNoMemory(n, v, replace)
        PROVE  StatusTyped'
    <2>1. ~Refused(n, v, replace) /\ status' = NewStatus(n, v)
      BY <1>1 DEF SetHeader, SetHeaderNoMemory
    <2>2. NewStatus(n, v) \in 100 .. 999
      BY <2>1, NewStatusTyped
    <2> QED BY <2>1, <2>2 DEF StatusTyped
  <1>2. ASSUME UNCHANGED headerVars PROVE StatusTyped'
    BY <1>2 DEF headerVars, StatusTyped
  <1>3. CASE Consume \/ FirstWrite \/ Write \/ Close
    BY <1>2, <1>3 DEF Consume, FirstWrite, Write, Close
  <1>4. CASE HeaderRefused \/ UNCHANGED vars
    BY <1>2, <1>4 DEF HeaderRefused, vars
  <1> QED BY <1>1, <1>3, <1>4 DEF Next

-----------------------------------------------------------------------------
(* The elements of the path move from one array to the other and are       *)
(* otherwise left as they came.                                            *)
Array == IF uri = NULL THEN <<>> ELSE RequestArray(uri)

(* The inductive invariant of the path. *)
PathInv ==
    /\ uri \in Uris
    /\ params_array \in Seq(Text) /\ current_array \in Seq(Text)
    /\ current_array \o params_array = Array

(* An element that moves from one list to the end of the other leaves      *)
(* their concatenation as it was.                                          *)
LEMMA FirstMoves ==
    ASSUME NEW T, NEW s \in Seq(T), NEW t \in Seq(T), t # <<>>
    PROVE  /\ Append(s, Head(t)) \in Seq(T) /\ Tail(t) \in Seq(T)
           /\ Append(s, Head(t)) \o Tail(t) = s \o t
  <1> DEFINE a == Append(s, Head(t))
             r == Tail(t)
  <1>1. Len(s) \in Nat /\ Len(t) \in Nat \ {0} /\ Head(t) = t[1] /\ Head(t) \in T
    OBVIOUS
  <1>2. /\ a \in Seq(T) /\ Len(a) = Len(s) + 1
        /\ \A i \in 1 .. Len(s) + 1 : a[i] = IF i <= Len(s) THEN s[i] ELSE t[1]
    BY <1>1
  <1>3. /\ r \in Seq(T) /\ Len(r) = Len(t) - 1
        /\ \A i \in 1 .. Len(t) - 1 : r[i] = t[i + 1]
    BY <1>1
  <1> HIDE DEF a, r
  <1>4. /\ a \o r \in Seq(T) /\ Len(a \o r) = Len(a) + Len(r)
        /\ \A i \in 1 .. Len(a) + Len(r) : (a \o r)[i] = IF i <= Len(a) THEN a[i] ELSE r[i - Len(a)]
    <2>1. a \in Seq(T) /\ r \in Seq(T)
      BY <1>2, <1>3
    <2> QED BY <2>1, ConcatProperties
  <1>5. /\ s \o t \in Seq(T) /\ Len(s \o t) = Len(s) + Len(t)
        /\ \A i \in 1 .. Len(s) + Len(t) : (s \o t)[i] = IF i <= Len(s) THEN s[i] ELSE t[i - Len(s)]
    OBVIOUS
  <1>6. Len(a) + Len(r) = Len(s) + Len(t)
    BY <1>1, <1>2, <1>3
  <1>7. ASSUME NEW i \in 1 .. Len(s) + Len(t)
        PROVE  (IF i <= Len(a) THEN a[i] ELSE r[i - Len(a)]) = (IF i <= Len(s) THEN s[i] ELSE t[i - Len(s)])
    <2>1. CASE i <= Len(s)
      BY <1>1, <1>2, <2>1
    <2>2. CASE i = Len(s) + 1
      BY <1>1, <1>2, <2>2
    <2>3. CASE i > Len(s) + 1
      <3>1. i - Len(a) \in 1 .. Len(t) - 1 /\ i - Len(a) + 1 = i - Len(s) /\ ~(i <= Len(a)) /\ ~(i <= Len(s))
        BY <1>1, <1>2, <2>3
      <3>2. r[i - Len(a)] = t[i - Len(a) + 1]
        BY <1>3, <3>1
      <3> QED BY <3>1, <3>2
    <2> QED BY <1>1, <2>1, <2>2, <2>3
  <1>8. a \o r = s \o t
    <2> DEFINE x == a \o r
               y == s \o t
    <2>1. x \in Seq(T) /\ y \in Seq(T) /\ Len(x) = Len(y) /\ \A i \in 1 .. Len(y) : x[i] = y[i]
      BY <1>4, <1>5, <1>6, <1>7
    <2> HIDE DEF x, y
    <2>2. x = y
      BY <2>1, SeqEqual
    <2> QED BY <2>2 DEF x, y
  <1> QED BY <1>2, <1>3, <1>8 DEF a, r

(* It holds at first. *)
LEMMA InitPathInv == Init => PathInv
  <1> SUFFICES ASSUME Init PROVE PathInv
    OBVIOUS
  <1>1. uri \in Uris /\ params_array = Array /\ current_array = <<>>
    BY DEF Init, Array
  <1>2. Array \in Seq(Text)
    <2>1. CASE uri = NULL
      BY <2>1 DEF Array
    <2>2. CASE uri # NULL
      <3>1. uri \in Seq(Chars)
        BY <1>1, <2>2, UrisAssumption
      <3> QED BY <2>2, <3>1, ArrayTyped DEF Array
    <2> QED BY <2>1, <2>2
  <1>3. <<>> \in Seq(Text) /\ <<>> \o Array = Array
    BY <1>2
  <1> QED BY <1>1, <1>2, <1>3 DEF PathInv

(* Every step keeps it. *)
LEMMA NextPathInv == PathInv /\ [Next]_vars => PathInv'
  <1> SUFFICES ASSUME PathInv, [Next]_vars PROVE PathInv'
    OBVIOUS
  <1>1. CASE Consume
    <2>1. /\ params_array # <<>> /\ params_array' = Tail(params_array)
          /\ current_array' = Append(current_array, Head(params_array))
          /\ uri' = uri
      BY <1>1 DEF Consume
    <2>2. /\ current_array' \in Seq(Text) /\ params_array' \in Seq(Text)
          /\ current_array' \o params_array' = current_array \o params_array
      <3>1. current_array \in Seq(Text) /\ params_array \in Seq(Text)
        BY DEF PathInv
      <3>2. /\ Append(current_array, Head(params_array)) \in Seq(Text) /\ Tail(params_array) \in Seq(Text)
            /\ Append(current_array, Head(params_array)) \o Tail(params_array) = current_array \o params_array
        BY <2>1, <3>1, FirstMoves
      <3> QED BY <2>1, <3>2
    <2>3. Array' = Array
      BY <2>1 DEF Array
    <2> QED BY <2>1, <2>2, <2>3 DEF PathInv
  <1>2. ASSUME UNCHANGED pathVars PROVE PathInv'
    BY <1>2 DEF pathVars, PathInv, Array
  <1>3. CASE ~Consume
    <2>1. UNCHANGED pathVars
      BY <1>3 DEF Next, SetHeader, SetHeaderNoMemory, HeaderRefused, FirstWrite, Write, Close, vars
    <2> QED BY <1>2, <2>1
  <1> QED BY <1>1, <1>3

(* It is an invariant. *)
LEMMA PathInvariant == Spec => []PathInv
  BY InitPathInv, NextPathInv, PTL DEF Spec

-----------------------------------------------------------------------------
(* Whether memory has run out is known. *)
StarvedTyped == starved \in BOOLEAN

(* It always is. *)
LEMMA StarvedInvariant == Spec => []StarvedTyped
  <1>1. Init => StarvedTyped
    BY DEF Init, StarvedTyped
  <1>2. StarvedTyped /\ [Next]_vars => StarvedTyped'
    BY DEF StarvedTyped, Next, Consume, SetHeader, SetHeaderNoMemory, HeaderRefused, FirstWrite, Write,
           Close, vars, headerVars
  <1> QED BY <1>1, <1>2, PTL DEF Spec

(* The status is always valid. *)
LEMMA StatusInvariant == Spec => []StatusTyped
  BY InitStatusTyped, NextStatusTyped, PTL DEF Spec

(* Whatever a container calls, only header lines, the empty line and       *)
(* bodies are put on the stream, the table holds values, and the status    *)
(* is a valid number.                                                      *)
THEOREM TypeCorrect == Spec => []TypeOK
  <1>1. StreamInv /\ StatusTyped /\ StarvedTyped /\ PathInv => TypeOK
    BY DEF StreamInv, StreamTyped, Table, HeadersTyped, StatusTyped, StarvedTyped, PathInv, TypeOK
  <1> QED BY <1>1, StreamInvariant, StatusInvariant, StarvedInvariant, PathInvariant, PTL

-----------------------------------------------------------------------------
(* Places in increasing order, and what is read there.                     *)

(* Numbers listed in increasing order. *)
Increasing(t, S) ==
    /\ t \in Seq(Nat)
    /\ \A i, j \in 1 .. Len(t) : i < j => t[i] < t[j]
    /\ S = {t[i] : i \in 1 .. Len(t)}

(* The first m of them are m. *)
LEMMA CountUpTo ==
    ASSUME NEW t \in Seq(Nat), \A i, j \in 1 .. Len(t) : i < j => t[i] < t[j],
           NEW m \in 0 .. Len(t)
    PROVE  Cardinality({t[i] : i \in 1 .. m}) = m
  <1> DEFINE S == {t[i] : i \in 1 .. m}
             f == [i \in 1 .. m |-> t[i]]
  <1>1. Len(t) \in Nat /\ m \in Nat
    OBVIOUS
  <1>2. \A i \in 1 .. m : i \in 1 .. Len(t) /\ t[i] \in Nat
    BY <1>1
  <1>3. f \in Bijection(1 .. m, S)
    <2>1. \A i, j \in 1 .. m : f[i] = f[j] => i = j
      <3> SUFFICES ASSUME NEW i \in 1 .. m, NEW j \in 1 .. m, i # j PROVE t[i] # t[j]
        OBVIOUS
      <3>1. i < j \/ j < i
        BY <1>1
      <3>2. t[i] < t[j] \/ t[j] < t[i]
        BY <1>2, <3>1
      <3> QED BY <1>2, <3>2
    <2>2. f \in [1 .. m -> S]
      OBVIOUS
    <2>3. \A y \in S : \E i \in 1 .. m : f[i] = y
      OBVIOUS
    <2> QED BY <2>1, <2>2, <2>3 DEF Bijection, Injection, Surjection, IsInjective
  <1>4. IsFiniteSet(1 .. m) /\ Cardinality(1 .. m) = m
    BY <1>1, FS_Interval
  <1>5. ExistsBijection(1 .. m, S)
    BY <1>3 DEF ExistsBijection
  <1>6. Cardinality(S) = Cardinality(1 .. m)
    BY <1>4, <1>5, FS_Bijection
  <1> QED BY <1>4, <1>6

(* InOrder lists them so. *)
LEMMA InOrderIs ==
    ASSUME NEW t, NEW S, Increasing(t, S)
    PROVE  InOrder(S) = t
  <1>1. t \in Seq(Nat) /\ Len(t) \in Nat /\ \A i \in 1 .. Len(t) : t[i] \in S /\ t[i] \in Nat
    <2>1. t \in Seq(Nat) /\ S = {t[i] : i \in 1 .. Len(t)}
      BY DEF Increasing
    <2>2. Len(t) \in Nat /\ \A i \in 1 .. Len(t) : t[i] \in Nat
      BY <2>1
    <2> QED BY <2>1, <2>2
  <1>2. \A i, j \in 1 .. Len(t) : i < j => t[i] < t[j]
    BY DEF Increasing
  <1>3. Cardinality(S) = Len(t)
    <2>1. Len(t) \in 0 .. Len(t)
      BY <1>1
    <2>2. Cardinality({t[i] : i \in 1 .. Len(t)}) = Len(t)
      BY <1>1, <1>2, <2>1, CountUpTo
    <2> QED BY <2>2 DEF Increasing
  <1>4. ASSUME NEW k \in 1 .. Len(t)
        PROVE  Cardinality({y \in S : y <= t[k]}) = k
    <2>1. \A i \in 1 .. Len(t) : t[i] <= t[k] <=> i <= k
      <3> SUFFICES ASSUME NEW i \in 1 .. Len(t) PROVE t[i] <= t[k] <=> i <= k
        OBVIOUS
      <3>1. i < k \/ i = k \/ k < i
        BY <1>1
      <3>2. (i < k => t[i] < t[k]) /\ (k < i => t[k] < t[i])
        BY <1>2
      <3>3. t[i] \in Nat /\ t[k] \in Nat /\ i \in Nat /\ k \in Nat
        BY <1>1
      <3> QED BY <3>1, <3>2, <3>3
    <2>2. {y \in S : y <= t[k]} = {t[i] : i \in 1 .. k}
      <3>1. S = {t[i] : i \in 1 .. Len(t)}
        BY DEF Increasing
      <3>2. \A i \in 1 .. k : i \in 1 .. Len(t)
        BY <1>1
      <3>3. \A i \in 1 .. Len(t) : i <= k => i \in 1 .. k
        OBVIOUS
      <3>4. \A i \in 1 .. k : i <= k
        OBVIOUS
      <3> QED BY <2>1, <3>1, <3>2, <3>3, <3>4
    <2>3. k \in 0 .. Len(t)
      OBVIOUS
    <2> QED BY <1>1, <1>2, <2>2, <2>3, CountUpTo
  <1>5. ASSUME NEW k \in 1 .. Len(t)
        PROVE  (CHOOSE x \in S : Cardinality({y \in S : y <= x}) = k) = t[k]
    <2>1. \A x \in S : Cardinality({y \in S : y <= x}) = k => x = t[k]
      <3> SUFFICES ASSUME NEW x \in S, Cardinality({y \in S : y <= x}) = k PROVE x = t[k]
        OBVIOUS
      <3>1. PICK i \in 1 .. Len(t) : x = t[i]
        BY DEF Increasing
      <3>2. i = k
        BY <1>4, <3>1
      <3> QED BY <3>1, <3>2
    <2>2. t[k] \in S /\ Cardinality({y \in S : y <= t[k]}) = k
      BY <1>1, <1>4
    <2> QED BY <2>1, <2>2
  <1>6. InOrder(S) = [k \in 1 .. Len(t) |-> t[k]]
    BY <1>3, <1>5 DEF InOrder
  <1>7. t = [k \in 1 .. Len(t) |-> t[k]]
    BY <1>1
  <1> QED BY <1>6, <1>7

-----------------------------------------------------------------------------
(* x is what v has at the places in S, in order. *)
Spells(x, S, v) ==
    \E t \in Seq(Nat) : Increasing(t, S) /\ x = [k \in 1 .. Len(t) |-> v[t[k]]]

(* What is spelled is read at the places in order. *)
LEMMA SpellsIs ==
    ASSUME NEW x, NEW S, NEW v, Spells(x, S, v)
    PROVE  /\ x = [k \in 1 .. Len(InOrder(S)) |-> v[InOrder(S)[k]]]
           /\ \A k \in 1 .. Len(InOrder(S)) : InOrder(S)[k] \in S
  <1>1. PICK t \in Seq(Nat) : Increasing(t, S) /\ x = [k \in 1 .. Len(t) |-> v[t[k]]]
    BY DEF Spells
  <1>2. InOrder(S) = t
    BY <1>1, InOrderIs
  <1>3. \A k \in 1 .. Len(t) : t[k] \in S
    BY <1>1 DEF Increasing
  <1> QED BY <1>1, <1>2, <1>3

(* Nothing is read at no places. *)
LEMMA SpellsNone == \A v : Spells(<<>>, {}, v)
  <1> SUFFICES ASSUME NEW v PROVE Spells(<<>>, {}, v)
    OBVIOUS
  <1> DEFINE t == <<>>
  <1>1. t \in Seq(Nat) /\ Len(t) = 0
    OBVIOUS
  <1>2. Increasing(t, {})
    BY <1>1 DEF Increasing
  <1>3. <<>> = [k \in 1 .. Len(t) |-> v[t[k]]]
    BY <1>1
  <1> QED BY <1>1, <1>2, <1>3 DEF Spells

(* All places move up. *)
LEMMA SpellsMoved ==
    ASSUME NEW x, NEW S, NEW w, Spells(x, S, w), NEW d \in Nat, NEW v,
           \A i \in S : v[i + d] = w[i]
    PROVE  Spells(x, {i + d : i \in S}, v)
  <1>1. PICK t \in Seq(Nat) : Increasing(t, S) /\ x = [k \in 1 .. Len(t) |-> w[t[k]]]
    BY DEF Spells
  <1> DEFINE u == [k \in 1 .. Len(t) |-> t[k] + d]
  <1>2. Len(t) \in Nat /\ \A k \in 1 .. Len(t) : t[k] \in Nat /\ t[k] \in S
    BY <1>1 DEF Increasing
  <1>3. u \in Seq(Nat) /\ Len(u) = Len(t) /\ \A k \in 1 .. Len(t) : u[k] = t[k] + d
    BY <1>2
  <1> HIDE DEF u
  <1>4. Increasing(u, {i + d : i \in S})
    <2>1. \A i, j \in 1 .. Len(u) : i < j => u[i] < u[j]
      <3>1. \A i, j \in 1 .. Len(t) : i < j => t[i] < t[j]
        BY <1>1 DEF Increasing
      <3> SUFFICES ASSUME NEW i \in 1 .. Len(t), NEW j \in 1 .. Len(t), i < j PROVE u[i] < u[j]
        BY <1>3
      <3>2. t[i] \in Nat /\ t[j] \in Nat /\ t[i] < t[j]
        BY <1>2, <3>1
      <3> QED BY <1>3, <3>2
    <2>2. S = {t[k] : k \in 1 .. Len(t)}
      BY <1>1 DEF Increasing
    <2>3. {i + d : i \in S} = {u[k] : k \in 1 .. Len(u)}
      <3>1. \A i \in S : \E k \in 1 .. Len(u) : i + d = u[k]
        BY <1>3, <2>2
      <3>2. \A k \in 1 .. Len(u) : \E i \in S : u[k] = i + d
        BY <1>2, <1>3
      <3> QED BY <3>1, <3>2
    <2> QED BY <1>3, <2>1, <2>3 DEF Increasing
  <1>5. x = [k \in 1 .. Len(u) |-> v[u[k]]]
    BY <1>1, <1>2, <1>3
  <1> QED BY <1>3, <1>4, <1>5 DEF Spells

(* One more in front of all others. *)
LEMMA SpellsFront ==
    ASSUME NEW x, NEW S, NEW v, Spells(x, S, v), NEW a \in Nat, \A i \in S : a < i
    PROVE  Spells(<<v[a]>> \o x, {a} \cup S, v)
  <1>1. PICK t \in Seq(Nat) : Increasing(t, S) /\ x = [k \in 1 .. Len(t) |-> v[t[k]]]
    BY DEF Spells
  <1> DEFINE u == <<a>> \o t
             n == Len(t)
  <1>2. n \in Nat /\ \A k \in 1 .. n : t[k] \in Nat /\ t[k] \in S /\ a < t[k]
    BY <1>1 DEF Increasing
  <1>3. /\ u \in Seq(Nat) /\ Len(u) = n + 1 /\ u[1] = a
        /\ \A k \in 2 .. n + 1 : u[k] = t[k - 1]
    BY <1>1
  <1> HIDE DEF u, n
  <1>4. \A k \in 2 .. n + 1 : k - 1 \in 1 .. n
    BY <1>2
  <1>5. Increasing(u, {a} \cup S)
    <2>1. ASSUME NEW i \in 1 .. Len(u), NEW j \in 1 .. Len(u), i < j PROVE u[i] < u[j]
      <3>1. j \in 2 .. n + 1 /\ j - 1 \in 1 .. n /\ u[j] = t[j - 1]
        BY <1>2, <1>3, <2>1
      <3>2. CASE i = 1
        BY <1>2, <1>3, <3>1, <3>2
      <3>3. CASE i # 1
        <4>1. i \in 2 .. n + 1 /\ i - 1 \in 1 .. n /\ u[i] = t[i - 1] /\ i - 1 < j - 1
          BY <1>2, <1>3, <2>1, <3>3
        <4>2. t[i - 1] < t[j - 1]
          BY <1>1, <3>1, <4>1 DEF Increasing, n
        <4> QED BY <3>1, <4>1, <4>2
      <3> QED BY <3>2, <3>3
    <2>2. S = {t[k] : k \in 1 .. n}
      BY <1>1 DEF Increasing, n
    <2>3. \A k \in 1 .. n : k + 1 \in 2 .. n + 1 /\ k + 1 \in 1 .. n + 1 /\ u[k + 1] = t[k]
      BY <1>2, <1>3
    <2>4. 1 \in 1 .. n + 1 /\ \A k \in 1 .. n + 1 : k = 1 \/ k \in 2 .. n + 1
      BY <1>2
    <2>5. {a} \cup S = {u[k] : k \in 1 .. n + 1}
      <3>1. \A y \in {a} \cup S : \E k \in 1 .. n + 1 : y = u[k]
        BY <1>3, <2>2, <2>3, <2>4
      <3>2. \A k \in 1 .. n + 1 : u[k] \in {a} \cup S
        BY <1>2, <1>3, <1>4, <2>4
      <3> QED BY <3>1, <3>2
    <2> QED BY <1>3, <2>1, <2>5 DEF Increasing
  <1>6. <<v[a]>> \o x = [k \in 1 .. Len(u) |-> v[u[k]]]
    <2>1. Len(<<v[a]>>) = 1 /\ <<v[a]>>[1] = v[a] /\ Len(x) = n
      BY <1>1, <1>2 DEF n
    <2>2. <<v[a]>> \o x = [k \in 1 .. n + 1 |-> IF k <= 1 THEN v[a] ELSE x[k - 1]]
      BY <1>1, <1>2, <2>1 DEF n
    <2>3. \A k \in 2 .. n + 1 : x[k - 1] = v[u[k]]
      BY <1>1, <1>2, <1>3, <1>4 DEF n
    <2> QED BY <1>2, <1>3, <2>2, <2>3
  <1> QED BY <1>3, <1>5, <1>6 DEF Spells

-----------------------------------------------------------------------------
(* Where escapes are, and what of a text is kept.                          *)

(* A text behind its first d characters. *)
Behind(s, d, r) ==
    /\ r \in Text /\ Len(r) = Len(s) - d
    /\ \A j \in 1 .. Len(r) : j + d \in 1 .. Len(s) /\ r[j] = s[j + d]

(* A part of a text, place by place. *)
LEMMA PartIs ==
    ASSUME NEW s \in Text, NEW a \in Nat \ {0}, NEW b \in 0 .. Len(s), a <= b + 1
    PROVE  /\ SubSeq(s, a, b) \in Text /\ Len(SubSeq(s, a, b)) = b - a + 1
           /\ \A i \in 1 .. b - a + 1 : SubSeq(s, a, b)[i] = s[i + a - 1]
  <1> DEFINE p == SubSeq(s, a, b)
  <1>1. s \in Seq(Chars \cup {NUL}) /\ Len(s) \in Nat /\ b \in Nat
    BY DEF Text
  <1>2. p \in Seq(Chars \cup {NUL}) /\ Len(p) = IF a <= b THEN b - a + 1 ELSE 0
    BY <1>1, PartTyped
  <1>3. Len(p) = b - a + 1
    BY <1>1, <1>2
  <1>4. p = [i \in 1 .. b - a + 1 |-> s[i + a - 1]]
    BY <1>1
  <1>5. \A i \in 1 .. b - a + 1 : p[i] = s[i + a - 1]
    <2> HIDE DEF p
    <2> QED BY <1>4
  <1> QED BY <1>2, <1>3, <1>5 DEF Text

(* A rest is behind what comes before it. *)
LEMMA RestBehind ==
    ASSUME NEW s \in Text, NEW d \in 1 .. Len(s)
    PROVE  Behind(s, d, SubSeq(s, d + 1, Len(s)))
  <1> DEFINE r == SubSeq(s, d + 1, Len(s))
  <1>1. Len(s) \in Nat /\ d \in Nat /\ d + 1 \in Nat \ {0} /\ Len(s) \in 0 .. Len(s) /\ d + 1 <= Len(s) + 1
    BY DEF Text
  <1>2. /\ r \in Text /\ Len(r) = Len(s) - (d + 1) + 1
        /\ \A i \in 1 .. Len(s) - (d + 1) + 1 : r[i] = s[i + (d + 1) - 1]
    BY <1>1, PartIs
  <1> HIDE DEF r
  <1>3. Len(s) - (d + 1) + 1 = Len(s) - d
    BY <1>1
  <1>4. \A j \in 1 .. Len(s) - d : j + d \in 1 .. Len(s) /\ j + (d + 1) - 1 = j + d
    BY <1>1
  <1>5. \A j \in 1 .. Len(r) : j + d \in 1 .. Len(s) /\ r[j] = s[j + d]
    BY <1>2, <1>3, <1>4
  <1>6. Behind(s, d, r)
    BY <1>2, <1>3, <1>5 DEF Behind
  <1> QED BY <1>6 DEF r

(* So is a tail. *)
LEMMA TailBehind ==
    ASSUME NEW s \in Text, s # <<>>
    PROVE  Behind(s, 1, Tail(s))
  <1> DEFINE r == Tail(s)
  <1>1. s \in Seq(Chars \cup {NUL})
    BY DEF Text
  <1>2. Len(s) \in Nat \ {0}
    BY <1>1
  <1>3. r \in Seq(Chars \cup {NUL}) /\ Len(r) = Len(s) - 1 /\ \A j \in 1 .. Len(s) - 1 : r[j] = s[j + 1]
    BY <1>1, <1>2
  <1> HIDE DEF r
  <1>4. \A j \in 1 .. Len(s) - 1 : j + 1 \in 1 .. Len(s)
    BY <1>2
  <1>5. Behind(s, 1, r)
    BY <1>3, <1>4 DEF Behind, Text
  <1> QED BY <1>5 DEF r

-----------------------------------------------------------------------------
(* Where escapes are, and what is kept. *)
EscapeAt(s, i) == i + 2 <= Len(s) /\ s[i] = "%" /\ s[i + 1] \in Hex /\ s[i + 2] \in Hex

(* Escapes are those places. *)
LEMMA EscapesAre ==
    ASSUME NEW s \in Text, NEW i \in 1 .. Len(s)
    PROVE  i \in Escapes(s) <=> EscapeAt(s, i)
  <1> DEFINE p == SubSeq(s, i, Len(s))
             n == Len(s) - i + 1
  <1>1. Len(s) \in Nat /\ i \in Nat \ {0} /\ Len(s) \in 0 .. Len(s) /\ i <= Len(s) + 1 /\ n \in Nat
    BY DEF Text
  <1>2. Len(p) = n /\ \A j \in 1 .. n : p[j] = s[j + i - 1]
    BY <1>1, PartIs
  <1> HIDE DEF p
  <1>3. n > 2 <=> i + 2 <= Len(s)
    BY <1>1
  <1>4. ASSUME n > 2 PROVE p[1] = s[i] /\ p[2] = s[i + 1] /\ p[3] = s[i + 2]
    <2>1. 1 \in 1 .. n /\ 2 \in 1 .. n /\ 3 \in 1 .. n
      BY <1>1, <1>4
    <2>2. p[1] = s[1 + i - 1] /\ p[2] = s[2 + i - 1] /\ p[3] = s[3 + i - 1]
      BY <1>2, <2>1
    <2>3. 1 + i - 1 = i /\ 2 + i - 1 = i + 1 /\ 3 + i - 1 = i + 2
      BY <1>1
    <2> QED BY <2>2, <2>3
  <1>5. IsEscape(p) <=> EscapeAt(s, i)
    <2> HIDE DEF n
    <2> QED BY <1>2, <1>3, <1>4 DEF IsEscape, EscapeAt
  <1> QED BY <1>5 DEF Escapes, p

(* They are places of the text. *)
LEMMA EscapesIn == \A s : Escapes(s) \subseteq 1 .. Len(s)
  BY DEF Escapes

(* A place is kept unless it is the first or second digit of an escape. *)
LEMMA KeptAre ==
    ASSUME NEW s \in Text, NEW x \in Int
    PROVE  x \in Kept(s) <=> x \in 1 .. Len(s) /\ x - 1 \notin Escapes(s) /\ x - 2 \notin Escapes(s)
  <1>1. Len(s) \in Nat /\ \A i \in Escapes(s) : i \in Int
    BY EscapesIn DEF Text
  <1>2. ASSUME x - 1 \in Escapes(s) \/ x - 2 \in Escapes(s)
        PROVE  x \in UNION {{i + 1, i + 2} : i \in Escapes(s)}
    <2>1. (x - 1) + 1 = x /\ (x - 2) + 2 = x
      OBVIOUS
    <2> QED BY <1>2, <2>1
  <1>3. ASSUME x \in UNION {{i + 1, i + 2} : i \in Escapes(s)}
        PROVE  x - 1 \in Escapes(s) \/ x - 2 \in Escapes(s)
    <2>1. PICK i \in Escapes(s) : x = i + 1 \/ x = i + 2
      BY <1>3
    <2>2. x - 1 = i \/ x - 2 = i
      BY <1>1, <2>1
    <2> QED BY <2>2
  <1> QED BY <1>2, <1>3 DEF Kept

(* The escapes of a rest are those of the text. *)
LEMMA EscapesBehind ==
    ASSUME NEW s \in Text, NEW d \in 1 .. Len(s), NEW r, Behind(s, d, r), NEW j \in 1 .. Len(r)
    PROVE  j \in Escapes(r) <=> j + d \in Escapes(s)
  <1>1. Len(s) \in Nat /\ d \in Nat /\ r \in Text /\ Len(r) = Len(s) - d /\ j + d \in 1 .. Len(s)
    BY DEF Text, Behind
  <1>2. j \in Escapes(r) <=> EscapeAt(r, j)
    BY <1>1, EscapesAre
  <1>3. j + d \in Escapes(s) <=> EscapeAt(s, j + d)
    BY <1>1, EscapesAre
  <1>4. j + 2 <= Len(r) <=> (j + d) + 2 <= Len(s)
    BY <1>1
  <1>5. r[j] = s[j + d]
    BY DEF Behind
  <1>6. ASSUME j + 2 <= Len(r)
        PROVE  r[j + 1] = s[(j + d) + 1] /\ r[j + 2] = s[(j + d) + 2]
    <2>1. j + 1 \in 1 .. Len(r) /\ j + 2 \in 1 .. Len(r)
      BY <1>1, <1>6
    <2>2. r[j + 1] = s[(j + 1) + d] /\ r[j + 2] = s[(j + 2) + d]
      BY <2>1 DEF Behind
    <2>3. (j + 1) + d = (j + d) + 1 /\ (j + 2) + d = (j + d) + 2
      BY <1>1
    <2> QED BY <2>2, <2>3
  <1>7. EscapeAt(r, j) <=> EscapeAt(s, j + d)
    BY <1>4, <1>5, <1>6 DEF EscapeAt
  <1> QED BY <1>2, <1>3, <1>7

(* One step of the loop keeps the first character and what is kept of the  *)
(* rest, which starts behind the escape, if there is one.                  *)
StepOf(s) == IF IsEscape(s) THEN 3 ELSE 1

(* The first character starts an escape if the loop takes it for one,      *)
(* and then the next two do not.                                           *)
LEMMA FirstEscape ==
    ASSUME NEW s \in Text, s # <<>>
    PROVE  /\ Len(s) \in Nat \ {0} /\ StepOf(s) \in 1 .. Len(s)
           /\ 1 \in Escapes(s) <=> IsEscape(s)
           /\ IsEscape(s) => 2 \notin Escapes(s) /\ 3 \notin Escapes(s)
  <1>1. s \in Seq(Chars \cup {NUL})
    BY DEF Text
  <1>2. Len(s) \in Nat \ {0}
    BY <1>1
  <1>3. 1 \in Escapes(s) <=> EscapeAt(s, 1)
    <2>1. 1 \in 1 .. Len(s)
      BY <1>2
    <2> QED BY <2>1, EscapesAre
  <1>4. EscapeAt(s, 1) <=> IsEscape(s)
    BY <1>2 DEF EscapeAt, IsEscape
  <1>5. StepOf(s) \in 1 .. Len(s)
    BY <1>2 DEF StepOf, IsEscape
  <1>6. ASSUME IsEscape(s) PROVE 2 \notin Escapes(s) /\ 3 \notin Escapes(s)
    <2>1. Len(s) > 2 /\ s[2] # "%" /\ s[3] # "%"
      BY <1>6, CharsAssumption DEF IsEscape
    <2>2. 2 \in 1 .. Len(s) /\ 3 \in 1 .. Len(s)
      BY <1>2, <2>1
    <2> QED BY <2>1, <2>2, EscapesAre DEF EscapeAt
  <1> QED BY <1>2, <1>3, <1>4, <1>5, <1>6

(* What is kept is the first place and what is kept behind the step. *)
LEMMA KeptStep ==
    ASSUME NEW s \in Text, s # <<>>, NEW r, Behind(s, StepOf(s), r)
    PROVE  Kept(s) = {1} \cup {j + StepOf(s) : j \in Kept(r)}
  <1> DEFINE d == StepOf(s)
             n == Len(s)
             E == Escapes(s)
             F == Escapes(r)
  <1>1. n \in Nat \ {0} /\ d \in 1 .. n /\ d \in {1, 3} /\ r \in Text /\ Len(r) = n - d
    BY FirstEscape DEF StepOf, Behind
  <1>2. \A j \in 1 .. n - d : j \in F <=> j + d \in E
    BY <1>1, EscapesBehind
  <1>3. (d = 3 => 1 \in E /\ 2 \notin E /\ 3 \notin E) /\ (d = 1 => 1 \notin E)
    BY FirstEscape DEF StepOf
  <1>4. E \subseteq 1 .. n /\ F \subseteq 1 .. n - d
    BY <1>1, EscapesIn
  <1>5. \A x \in Int : x \in Kept(s) <=> x \in 1 .. n /\ x - 1 \notin E /\ x - 2 \notin E
    BY KeptAre
  <1>6. \A x \in Int : x \in Kept(r) <=> x \in 1 .. n - d /\ x - 1 \notin F /\ x - 2 \notin F
    BY <1>1, KeptAre
  <1>7. Kept(s) \subseteq Int /\ Kept(r) \subseteq Int
    BY DEF Kept
  <1> HIDE DEF d, n, E, F
  <1>8. \A j \in 0 .. n - d : j + d \in E <=> j \in F
    <2>1. \A j \in 0 .. n - d : j = 0 \/ j \in 1 .. n - d
      BY <1>1
    <2>2. 0 \notin F /\ 0 + d \notin E
      BY <1>1, <1>3, <1>4
    <2> QED BY <1>2, <2>1, <2>2
  <1>9. 1 \in Kept(s)
    <2>1. 1 \in 1 .. n /\ 1 - 1 \notin E /\ 1 - 2 \notin E
      BY <1>1, <1>4
    <2> QED BY <1>5, <2>1
  <1>10. ASSUME NEW j \in 1 .. n - d PROVE j + d \in Kept(s) <=> j \in Kept(r)
    <2>1. (j + d) - 1 = (j - 1) + d /\ j - 1 \in 0 .. n - d /\ j + d \in 1 .. n /\ j \in Int /\ j + d \in Int
      BY <1>1
    <2>2. (j + d) - 1 \in E <=> j - 1 \in F
      BY <1>8, <2>1
    <2>3. (j + d) - 2 \in E <=> j - 2 \in F
      <3>1. CASE j = 1
        <4>1. j - 2 \notin F
          BY <1>1, <1>4, <3>1
        <4>2. (j + d) - 2 = d - 1 /\ d - 1 \in {0, 2}
          BY <1>1, <3>1
        <4>3. d - 1 \notin E
          BY <1>1, <1>3, <1>4
        <4> QED BY <4>1, <4>2, <4>3
      <3>2. CASE j # 1
        <4>1. (j + d) - 2 = (j - 2) + d /\ j - 2 \in 0 .. n - d
          BY <1>1, <3>2
        <4> QED BY <1>8, <4>1
      <3> QED BY <3>1, <3>2
    <2> QED BY <1>5, <1>6, <2>1, <2>2, <2>3
  <1>11. ASSUME NEW x \in Kept(s), x # 1 PROVE x - d \in 1 .. n - d
    <2>1. x \in Int /\ x \in 1 .. n /\ x - 1 \notin E /\ x - 2 \notin E
      BY <1>5, <1>7
    <2>2. CASE d = 1
      BY <1>1, <1>11, <2>1, <2>2
    <2>3. CASE d = 3
      <3>1. x # 2 /\ x # 3
        <4>1. 2 - 1 = 1 /\ 3 - 2 = 1
          OBVIOUS
        <4> QED BY <1>3, <2>1, <2>3, <4>1
      <3> QED BY <1>1, <1>11, <2>1, <2>3, <3>1
    <2> QED BY <1>1, <2>2, <2>3
  <1>12. Kept(s) \subseteq {1} \cup {j + d : j \in Kept(r)}
    <2> SUFFICES ASSUME NEW x \in Kept(s), x # 1 PROVE \E j \in Kept(r) : x = j + d
      OBVIOUS
    <2>1. x - d \in 1 .. n - d /\ (x - d) + d = x
      BY <1>1, <1>7, <1>11
    <2>2. x - d \in Kept(r)
      BY <1>10, <2>1
    <2> QED BY <2>1, <2>2
  <1>13. {1} \cup {j + d : j \in Kept(r)} \subseteq Kept(s)
    <2>1. \A j \in Kept(r) : j \in 1 .. n - d
      BY <1>6, <1>7
    <2> QED BY <1>9, <1>10, <2>1
  <1>14. Kept(s) = {1} \cup {j + d : j \in Kept(r)}
    BY <1>12, <1>13
  <1> QED BY <1>14 DEF d

-----------------------------------------------------------------------------
(* Decoding, for every text.                                               *)

(* What a place of a text that is kept stands for. *)
Reads(s) ==
    [i \in 1 .. Len(s) |-> IF i \in Escapes(s) THEN CharOf[<<s[i + 1], s[i + 2]>>] ELSE s[i]]

(* The rest is read as it is in the text. *)
LEMMA ReadsBehind ==
    ASSUME NEW s \in Text, NEW d \in 1 .. Len(s), NEW r, Behind(s, d, r), NEW j \in 1 .. Len(r)
    PROVE  Reads(s)[j + d] = Reads(r)[j]
  <1>1. Len(s) \in Nat /\ d \in Nat /\ r \in Text /\ Len(r) = Len(s) - d /\ j + d \in 1 .. Len(s)
    BY DEF Text, Behind
  <1>2. j \in Escapes(r) <=> j + d \in Escapes(s)
    BY EscapesBehind
  <1>3. r[j] = s[j + d]
    BY DEF Behind
  <1>4. Reads(s)[j + d] = IF j + d \in Escapes(s) THEN CharOf[<<s[(j + d) + 1], s[(j + d) + 2]>>] ELSE s[j + d]
    BY <1>1 DEF Reads
  <1>5. Reads(r)[j] = IF j \in Escapes(r) THEN CharOf[<<r[j + 1], r[j + 2]>>] ELSE r[j]
    BY DEF Reads
  <1>6. ASSUME j \in Escapes(r)
        PROVE  r[j + 1] = s[(j + d) + 1] /\ r[j + 2] = s[(j + d) + 2]
    <2>1. j + 2 <= Len(r)
      BY <1>1, <1>6, EscapesAre DEF EscapeAt
    <2>2. j + 1 \in 1 .. Len(r) /\ j + 2 \in 1 .. Len(r)
      BY <1>1, <2>1
    <2>3. r[j + 1] = s[(j + 1) + d] /\ r[j + 2] = s[(j + 2) + d]
      BY <2>2 DEF Behind
    <2>4. (j + 1) + d = (j + d) + 1 /\ (j + 2) + d = (j + d) + 2
      BY <1>1
    <2> QED BY <2>3, <2>4
  <1>7. CASE j \in Escapes(r)
    BY <1>2, <1>4, <1>5, <1>6, <1>7
  <1>8. CASE j \notin Escapes(r)
    BY <1>2, <1>3, <1>4, <1>5, <1>8
  <1> QED BY <1>7, <1>8

(* If shorter texts are decoded into what is read where they are kept,     *)
(* so is this one.                                                         *)
LEMMA DecodedSpellsStep ==
    ASSUME NEW s \in Text, s # <<>>,
           \A r \in Text : Len(r) < Len(s) => Spells(Decoded[r], Kept(r), Reads(r))
    PROVE  Spells(Decoded[s], Kept(s), Reads(s))
  <1> DEFINE d == StepOf(s)
             r == IF IsEscape(s) THEN SubSeq(s, 4, Len(s)) ELSE Tail(s)
             K == {j + d : j \in Kept(r)}
  <1>1. Len(s) \in Nat \ {0} /\ d \in 1 .. Len(s) /\ d \in Nat
    BY FirstEscape
  <1>2. Behind(s, d, r)
    <2>1. CASE IsEscape(s)
      <3>1. d = 3 /\ d + 1 = 4
        BY <2>1 DEF StepOf
      <3>2. Behind(s, d, SubSeq(s, d + 1, Len(s)))
        BY <1>1, RestBehind
      <3> QED BY <2>1, <3>1, <3>2
    <2>2. CASE ~IsEscape(s)
      BY <2>2, TailBehind DEF StepOf
    <2> QED BY <2>1, <2>2
  <1>3. r \in Text /\ Len(r) = Len(s) - d
    BY <1>2 DEF Behind
  <1>4. Spells(Decoded[r], Kept(r), Reads(r))
    <2> HIDE DEF r, d
    <2>1. Len(r) < Len(s)
      BY <1>1, <1>3
    <2> QED BY <1>3, <2>1
  <1>5. Decoded[s] = <<Reads(s)[1]>> \o Decoded[r]
    <2>1. 1 \in 1 .. Len(s) /\ (1 \in Escapes(s) <=> IsEscape(s))
      BY <1>1, FirstEscape
    <2>2. Reads(s)[1] = IF IsEscape(s) THEN CharOf[<<s[2], s[3]>>] ELSE s[1]
      <3>1. Reads(s)[1] = IF 1 \in Escapes(s) THEN CharOf[<<s[1 + 1], s[1 + 2]>>] ELSE s[1]
        BY <2>1 DEF Reads
      <3>2. 1 + 1 = 2 /\ 1 + 2 = 3
        OBVIOUS
      <3> QED BY <2>1, <3>1, <3>2
    <2>3. Decoded[s] = DecodeStep(s, Decoded)
      BY DecodedIs
    <2>4. CASE IsEscape(s)
      <3>1. DecodeStep(s, Decoded) = <<CharOf[<<s[2], s[3]>>]>> \o Decoded[SubSeq(s, 4, Len(s))]
        BY <2>4 DEF DecodeStep
      <3> QED BY <2>2, <2>3, <2>4, <3>1
    <2>5. CASE ~IsEscape(s)
      <3>1. DecodeStep(s, Decoded) = <<s[1]>> \o Decoded[Tail(s)]
        BY <2>5 DEF DecodeStep
      <3> QED BY <2>2, <2>3, <2>5, <3>1
    <2> QED BY <2>4, <2>5
  <1>6. \A j \in Kept(r) : j \in 1 .. Len(r)
    BY DEF Kept
  <1> HIDE DEF d, r
  <1>7. \A j \in Kept(r) : Reads(s)[j + d] = Reads(r)[j]
    BY <1>1, <1>2, <1>6, ReadsBehind
  <1>8. Spells(Decoded[r], K, Reads(s))
    <2> DEFINE x == Decoded[r]
               v == Reads(s)
               w == Reads(r)
               S == Kept(r)
    <2>1. Spells(x, S, w) /\ \A i \in S : v[i + d] = w[i]
      BY <1>4, <1>7
    <2> HIDE DEF x, v, w, S
    <2>2. Spells(x, {i + d : i \in S}, v)
      BY <1>1, <2>1, SpellsMoved
    <2> QED BY <2>2 DEF x, v, w, S
  <1>9. \A i \in K : 1 < i
    <2>1. \A j \in Kept(r) : j + d > 1
      BY <1>1, <1>3, <1>6 DEF Text
    <2> QED BY <2>1
  <1>10. Spells(<<Reads(s)[1]>> \o Decoded[r], {1} \cup K, Reads(s))
    <2> HIDE DEF K
    <2> QED BY <1>8, <1>9, SpellsFront
  <1>11. Kept(s) = {1} \cup K
    BY <1>2, KeptStep DEF d
  <1> QED BY <1>5, <1>10, <1>11

(* So all are. *)
LEMMA DecodedSpells ==
    ASSUME NEW s \in Text
    PROVE  Spells(Decoded[s], Kept(s), Reads(s))
  <1> DEFINE P == {m \in Nat : \A t \in Text : Len(t) < m => Spells(Decoded[t], Kept(t), Reads(t))}
  <1>0. \A t \in Text : Len(t) \in Nat
    BY DEF Text
  <1>1. 0 \in P
    BY <1>0
  <1>2. ASSUME NEW m \in Nat \ {0}, m - 1 \in P
        PROVE  m \in P
    <2>1. ASSUME NEW t \in Text, Len(t) < m PROVE Spells(Decoded[t], Kept(t), Reads(t))
      <3>1. CASE t = <<>>
        <4>1. Decoded[t] = <<>>
          BY <3>1, DecodedIs DEF DecodeStep
        <4>2. Kept(t) = {}
          BY <3>1 DEF Kept
        <4> QED BY <4>1, <4>2, SpellsNone
      <3>2. CASE t # <<>>
        <4>1. \A r \in Text : Len(r) < Len(t) => Spells(Decoded[r], Kept(r), Reads(r))
          BY <1>0, <1>2, <2>1
        <4> QED BY <3>2, <4>1, DecodedSpellsStep
      <3> QED BY <3>1, <3>2
    <2> QED BY <2>1
  <1>3. Nat \subseteq P
    <2> HIDE DEF P
    <2> QED BY <1>1, <1>2, AllNumbers
  <1>4. Len(s) + 1 \in P
    BY <1>0, <1>3
  <1> QED BY <1>0, <1>4

(* The loop over buf decodes every escape, once, whatever the text. *)
LEMMA DecodedIsMeant ==
    ASSUME NEW s \in Text
    PROVE  Decoded[s] = Meant(s)
  <1> DEFINE p == InOrder(Kept(s))
  <1>1. /\ Decoded[s] = [k \in 1 .. Len(p) |-> Reads(s)[p[k]]]
        /\ \A k \in 1 .. Len(p) : p[k] \in Kept(s)
    BY DecodedSpells, SpellsIs
  <1>2. \A i \in Kept(s) : i \in 1 .. Len(s)
    BY DEF Kept
  <1>3. Meant(s) = [k \in 1 .. Len(p) |->
                        IF p[k] \in Escapes(s) THEN CharOf[<<s[p[k] + 1], s[p[k] + 2]>>] ELSE s[p[k]]]
    BY DEF Meant
  <1> HIDE DEF p
  <1>4. \A k \in 1 .. Len(p) :
            Reads(s)[p[k]] = IF p[k] \in Escapes(s) THEN CharOf[<<s[p[k] + 1], s[p[k] + 2]>>] ELSE s[p[k]]
    BY <1>1, <1>2 DEF Reads
  <1> QED BY <1>1, <1>3, <1>4

-----------------------------------------------------------------------------
(* Segments, for every text.                                               *)

(* The end of a segment. *)
EndsAt(s, i, e) ==
    /\ e \in i .. Len(s) /\ \A k \in i .. e : s[k] # "/"
    /\ e = Len(s) \/ s[e + 1] = "/"

(* A segment has an end. *)
LEMMA SegmentEnds ==
    ASSUME NEW s \in Text, NEW i \in 1 .. Len(s), s[i] # "/"
    PROVE  \E e \in 1 .. Len(s) : EndsAt(s, i, e)
  <1> DEFINE B == {j \in i .. Len(s) : j = Len(s) \/ s[j + 1] = "/"}
  <1>1. Len(s) \in Nat /\ i \in Nat
    BY DEF Text
  <1>2. B \in SUBSET Nat /\ Len(s) \in B
    BY <1>1
  <1>3. PICK e \in B : \A j \in B : e <= j
    BY <1>2, LeastOf
  <1>4. ASSUME NEW k \in i .. e PROVE s[k] # "/"
    <2>1. CASE k = i
      BY <2>1
    <2>2. CASE k # i
      <3>1. k - 1 \in i .. Len(s) /\ k - 1 < e /\ (k - 1) + 1 = k
        BY <1>1, <1>3, <2>2
      <3>2. k - 1 \notin B
        <4> HIDE DEF B
        <4>1. e \in Nat /\ k - 1 \in Nat /\ ~(e <= k - 1)
          BY <1>1, <1>2, <1>3, <3>1
        <4> QED BY <1>3, <4>1
      <3>3. s[(k - 1) + 1] # "/"
        BY <3>1, <3>2
      <3> QED BY <3>1, <3>3
    <2> QED BY <2>1, <2>2
  <1> QED BY <1>1, <1>3, <1>4 DEF EndsAt

(* It goes up to it. *)
LEMMA SegmentIs ==
    ASSUME NEW s \in Text, NEW i \in 1 .. Len(s), NEW e \in Int, EndsAt(s, i, e)
    PROVE  Segment(s, i) = SubSeq(s, i, e)
  <1> DEFINE J == {j \in i .. Len(s) : \A k \in i .. j : s[k] # "/"}
  <1>1. Len(s) \in Nat /\ i \in Nat /\ e \in i .. Len(s)
    BY DEF Text, EndsAt
  <1>2. e \in J
    BY <1>1 DEF EndsAt
  <1>3. ASSUME NEW j \in J PROVE j <= e
    <2>1. CASE e = Len(s)
      BY <1>1, <2>1
    <2>2. CASE e # Len(s)
      <3>1. s[e + 1] = "/"
        BY <2>2 DEF EndsAt
      <3>2. e + 1 \notin i .. j
        BY <3>1
      <3> QED BY <1>1, <3>2
    <2> QED BY <2>1, <2>2
  <1>4. Max(J) = e
    <2>1. \A x \in J : x \in Int
      BY <1>1
    <2>2. \A x \in J : (\A y \in J : x >= y) => x = e
      BY <1>1, <1>2, <1>3, <2>1
    <2>3. \A y \in J : e >= y
      BY <1>1, <1>3, <2>1
    <2> HIDE DEF J
    <2> QED BY <1>2, <2>2, <2>3 DEF Max
  <1>5. Segment(s, i) = SubSeq(s, i, Max(J))
    BY DEF Segment
  <1> HIDE DEF J
  <1> QED BY <1>4, <1>5

(* A part of the rest is a part of the text. *)
LEMMA SamePart ==
    ASSUME NEW s \in Text, NEW d \in 1 .. Len(s), NEW r, Behind(s, d, r),
           NEW j \in 1 .. Len(r), NEW e \in j .. Len(r)
    PROVE  SubSeq(s, j + d, e + d) = SubSeq(r, j, e)
  <1> DEFINE x == SubSeq(s, j + d, e + d)
             y == SubSeq(r, j, e)
  <1>1. Len(s) \in Nat /\ d \in Nat \ {0} /\ r \in Text /\ Len(r) = Len(s) - d /\ j \in Nat \ {0} /\ e \in Nat
    BY DEF Text, Behind
  <1>2. j + d \in Nat \ {0} /\ e + d \in 0 .. Len(s) /\ j + d <= (e + d) + 1 /\ e \in 0 .. Len(r) /\ j <= e + 1
    BY <1>1
  <1>3. /\ x \in Text /\ Len(x) = (e + d) - (j + d) + 1
        /\ \A i \in 1 .. (e + d) - (j + d) + 1 : x[i] = s[i + (j + d) - 1]
    BY <1>2, PartIs
  <1>4. /\ y \in Text /\ Len(y) = e - j + 1
        /\ \A i \in 1 .. e - j + 1 : y[i] = r[i + j - 1]
    BY <1>1, <1>2, PartIs
  <1> HIDE DEF x, y
  <1>5. (e + d) - (j + d) + 1 = e - j + 1
    BY <1>1
  <1>6. ASSUME NEW i \in 1 .. e - j + 1 PROVE x[i] = y[i]
    <2>1. i + j - 1 \in 1 .. Len(r) /\ (i + j - 1) + d = i + (j + d) - 1
      BY <1>1
    <2>2. r[i + j - 1] = s[(i + j - 1) + d]
      BY <2>1 DEF Behind
    <2> QED BY <1>3, <1>4, <1>5, <2>1, <2>2
  <1>7. x = y
    BY <1>3, <1>4, <1>5, <1>6, SeqEqual DEF Text
  <1> QED BY <1>7 DEF x, y

(* A segment of the rest is a segment of the text. *)
LEMMA SegmentBehind ==
    ASSUME NEW s \in Text, NEW d \in 1 .. Len(s), NEW r, Behind(s, d, r),
           NEW j \in 1 .. Len(r), r[j] # "/"
    PROVE  Segment(s, j + d) = Segment(r, j)
  <1>1. Len(s) \in Nat /\ d \in Nat \ {0} /\ r \in Text /\ Len(r) = Len(s) - d /\ j \in Nat \ {0}
        /\ j + d \in 1 .. Len(s)
    BY DEF Text, Behind
  <1>2. PICK e \in 1 .. Len(r) : EndsAt(r, j, e)
    BY <1>1, SegmentEnds
  <1>3. e \in j .. Len(r) /\ e \in Int /\ e + d \in Int
    BY <1>1, <1>2 DEF EndsAt
  <1>4. Segment(r, j) = SubSeq(r, j, e)
    BY <1>1, <1>2, <1>3, SegmentIs
  <1>5. EndsAt(s, j + d, e + d)
    <2>1. e + d \in j + d .. Len(s)
      BY <1>1, <1>3
    <2>2. ASSUME NEW k \in j + d .. e + d PROVE s[k] # "/"
      <3>1. k - d \in j .. e /\ k - d \in 1 .. Len(r) /\ (k - d) + d = k
        BY <1>1, <1>3
      <3>2. r[k - d] # "/"
        BY <1>2, <3>1 DEF EndsAt
      <3>3. r[k - d] = s[(k - d) + d]
        BY <3>1 DEF Behind
      <3> QED BY <3>1, <3>2, <3>3
    <2>3. e + d = Len(s) \/ s[(e + d) + 1] = "/"
      <3>1. CASE e = Len(r)
        BY <1>1, <1>3, <3>1
      <3>2. CASE e # Len(r)
        <4>1. e + 1 \in 1 .. Len(r) /\ (e + 1) + d = (e + d) + 1
          BY <1>1, <1>3, <3>2
        <4>2. r[e + 1] = "/"
          BY <1>2, <3>2 DEF EndsAt
        <4>3. r[e + 1] = s[(e + 1) + d]
          BY <4>1 DEF Behind
        <4> QED BY <4>1, <4>2, <4>3
      <3> QED BY <3>1, <3>2
    <2> QED BY <2>1, <2>2, <2>3 DEF EndsAt
  <1>6. Segment(s, j + d) = SubSeq(s, j + d, e + d)
    BY <1>1, <1>3, <1>5, SegmentIs
  <1>7. SubSeq(s, j + d, e + d) = SubSeq(r, j, e)
    BY <1>3, SamePart
  <1> QED BY <1>4, <1>6, <1>7

-----------------------------------------------------------------------------
(* Where elements start, and what they are. *)
Pieces(s) == [i \in 1 .. Len(s) |-> UpTo(Meant(Segment(s, i)), NUL)]

(* Elements of the rest are elements of the text, where a slash comes before. *)
LEMMA StartsBehind ==
    ASSUME NEW s \in Text, NEW d \in 1 .. Len(s), NEW r, Behind(s, d, r), NEW j \in 1 .. Len(r),
           j > 1 \/ s[d] = "/"
    PROVE  /\ j \in Starts(r) <=> j + d \in Starts(s)
           /\ j \in Starts(r) => Pieces(s)[j + d] = Pieces(r)[j]
  <1>1. Len(s) \in Nat /\ d \in Nat \ {0} /\ r \in Text /\ Len(r) = Len(s) - d /\ j \in Nat \ {0}
        /\ j + d \in 1 .. Len(s) /\ j + d > 1
    BY DEF Text, Behind
  <1>2. r[j] = s[j + d]
    BY DEF Behind
  <1>3. (j > 1 => r[j - 1] = "/") <=> s[(j + d) - 1] = "/"
    <2>1. CASE j > 1
      <3>1. j - 1 \in 1 .. Len(r) /\ (j - 1) + d = (j + d) - 1
        BY <1>1, <2>1
      <3>2. r[j - 1] = s[(j - 1) + d]
        BY <3>1 DEF Behind
      <3> QED BY <2>1, <3>1, <3>2
    <2>2. CASE ~(j > 1)
      <3>1. (j + d) - 1 = d
        BY <1>1, <2>2
      <3> QED BY <2>2, <3>1
    <2> QED BY <2>1, <2>2
  <1>4. j \in Starts(r) <=> j + d \in Starts(s)
    BY <1>1, <1>2, <1>3 DEF Starts
  <1>5. ASSUME j \in Starts(r) PROVE Pieces(s)[j + d] = Pieces(r)[j]
    <2>1. r[j] # "/"
      BY <1>5 DEF Starts
    <2>2. Segment(s, j + d) = Segment(r, j)
      BY <2>1, SegmentBehind
    <2>3. Pieces(s)[j + d] = UpTo(Meant(Segment(s, j + d)), NUL) /\ Pieces(r)[j] = UpTo(Meant(Segment(r, j)), NUL)
      BY <1>1 DEF Pieces
    <2> QED BY <2>2, <2>3
  <1> QED BY <1>4, <1>5

-----------------------------------------------------------------------------
(* The elements of a path, for every URI.                                  *)

(* What comes before the first slash of a text that starts with none. *)
LEMMA UpToSlash ==
    ASSUME NEW s \in Text, s # <<>>, s[1] # "/"
    PROVE  /\ Len(UpTo(s, "/")) \in 1 .. Len(s)
           /\ EndsAt(s, 1, Len(UpTo(s, "/")))
           /\ UpTo(s, "/") = SubSeq(s, 1, Len(UpTo(s, "/")))
  <1> DEFINE u == UpTo(s, "/")
             b == Before(s, "/")
             I == {i \in 1 .. Len(s) : s[i] = "/"}
  <1>1. Len(s) \in Nat /\ s \in Seq(Chars \cup {NUL}) /\ Len(u) \in 1 .. Len(s)
    BY SegmentRest DEF Text
  <1>2. b = IF I # {} THEN Min(I) ELSE 0
    BY DEF Before, SelectInSeq
  <1>3. u = IF b = 0 THEN s ELSE SubSeq(s, 1, b - 1)
    BY DEF UpTo
  <1>4. CASE I = {}
    <2>1. u = s
      BY <1>2, <1>3, <1>4
    <2>2. s = SubSeq(s, 1, Len(s))
      BY <1>1
    <2>3. EndsAt(s, 1, Len(s))
      BY <1>1, <1>4 DEF EndsAt
    <2> HIDE DEF u
    <2>4. EndsAt(s, 1, Len(u)) /\ u = SubSeq(s, 1, Len(u))
      BY <2>1, <2>2, <2>3
    <2> QED BY <1>1, <2>4 DEF u
  <1>5. CASE I # {}
    <2>1. I \in SUBSET Nat
      OBVIOUS
    <2>2. PICK i \in I : \A j \in I : i <= j
      BY <1>5, <2>1, LeastOf
    <2>3. b \in I /\ \A j \in I : b <= j
      <3> HIDE DEF I, b
      <3>1. Min(I) \in I /\ \A j \in I : Min(I) <= j
        BY <2>1, <2>2 DEF Min
      <3> QED BY <1>2, <1>5, <3>1
    <2>4. b \in 1 .. Len(s) /\ s[b] = "/" /\ b # 1
      BY <2>3
    <2> HIDE DEF b
    <2>5. b - 1 \in 1 .. Len(s) /\ b - 1 \in 0 .. Len(s) /\ b \in Nat /\ b - 1 \in Int
      BY <1>1, <2>4
    <2>6. u = SubSeq(s, 1, b - 1)
      BY <1>3, <2>4, <2>5
    <2>7. Len(u) = b - 1
      <3>1. Len(SubSeq(s, 1, b - 1)) = IF 1 <= b - 1 THEN b - 1 - 1 + 1 ELSE 0
        BY <1>1, <2>5, PartTyped
      <3>2. Len(SubSeq(s, 1, b - 1)) = b - 1
        BY <2>5, <3>1
      <3> QED BY <2>6, <3>2
    <2>8. \A k \in 1 .. b - 1 : s[k] # "/"
      <3> SUFFICES ASSUME NEW k \in 1 .. b - 1, s[k] = "/" PROVE FALSE
        OBVIOUS
      <3>1. k \in I /\ k < b
        BY <1>1, <2>4, <2>5
      <3> QED BY <2>3, <2>5, <3>1
    <2>9. s[(b - 1) + 1] = "/"
      <3>1. (b - 1) + 1 = b
        BY <2>5
      <3> QED BY <2>4, <3>1
    <2>10. EndsAt(s, 1, b - 1)
      BY <2>5, <2>8, <2>9 DEF EndsAt
    <2> HIDE DEF u
    <2>11. EndsAt(s, 1, Len(u)) /\ u = SubSeq(s, 1, Len(u))
      BY <2>6, <2>7, <2>10
    <2> QED BY <1>1, <2>11 DEF u
  <1> QED BY <1>4, <1>5

(* They start at places of the text. *)
LEMMA StartsIn == \A s : Starts(s) \subseteq 1 .. Len(s)
  BY DEF Starts

(* A slash is passed over. *)
LEMMA SlashStep ==
    ASSUME NEW s \in Text, s # <<>>, s[1] = "/", NEW r, Behind(s, 1, r),
           Spells(Elements[r], Starts(r), Pieces(r)), Elements[s] = Elements[r]
    PROVE  Spells(Elements[s], Starts(s), Pieces(s))
  <1>1. Len(s) \in Nat /\ 1 \in 1 .. Len(s) /\ r \in Text /\ Len(r) = Len(s) - 1
    <2>1. s \in Seq(Chars \cup {NUL})
      BY DEF Text
    <2> QED BY <2>1 DEF Behind
  <1>2. \A j \in 1 .. Len(r) : (j \in Starts(r) <=> j + 1 \in Starts(s))
                               /\ (j \in Starts(r) => Pieces(s)[j + 1] = Pieces(r)[j])
    BY <1>1, StartsBehind
  <1>3. \A j \in Starts(r) : j \in 1 .. Len(r) /\ Pieces(s)[j + 1] = Pieces(r)[j]
    BY <1>2, StartsIn
  <1>4. Starts(s) = {j + 1 : j \in Starts(r)}
    <2>1. ASSUME NEW x \in Starts(s) PROVE x - 1 \in Starts(r) /\ x = (x - 1) + 1
      <3>1. x \in 1 .. Len(s) /\ x # 1
        BY <2>1 DEF Starts
      <3>2. x - 1 \in 1 .. Len(r) /\ x = (x - 1) + 1
        BY <1>1, <3>1
      <3> QED BY <1>2, <2>1, <3>2
    <2>2. \A j \in Starts(r) : j + 1 \in Starts(s)
      BY <1>2, <1>3
    <2> QED BY <2>1, <2>2
  <1> DEFINE x == Elements[r]
             S == Starts(r)
             v == Pieces(s)
             w == Pieces(r)
  <1>5. Spells(x, S, w) /\ \A i \in S : v[i + 1] = w[i]
    BY <1>3
  <1> HIDE DEF x, S, v, w
  <1>6. Spells(x, {i + 1 : i \in S}, v)
    BY <1>5, SpellsMoved
  <1> QED BY <1>4, <1>6 DEF x, S, v, w

(* A segment is pushed. *)
LEMMA SegmentStep ==
    ASSUME NEW s \in Text, s # <<>>, s[1] # "/", NEW n \in 1 .. Len(s), EndsAt(s, 1, n),
           NEW r, Behind(s, n, r),
           Spells(Elements[r], Starts(r), Pieces(r)),
           Elements[s] = <<Element(SubSeq(s, 1, n))>> \o Elements[r]
    PROVE  Spells(Elements[s], Starts(s), Pieces(s))
  <1>1. Len(s) \in Nat /\ 1 \in 1 .. Len(s) /\ r \in Text /\ Len(r) = Len(s) - n /\ n \in Nat \ {0}
    BY DEF Text, Behind
  <1>2. s[n] # "/" /\ \A k \in 1 .. n : s[k] # "/"
    BY <1>1 DEF EndsAt
  <1>3. \A j \in 1 .. Len(r) : j > 1 =>
            /\ j \in Starts(r) <=> j + n \in Starts(s)
            /\ j \in Starts(r) => Pieces(s)[j + n] = Pieces(r)[j]
    BY StartsBehind
  <1>4. 1 \in 1 .. Len(r) => r[1] = "/"
    <2> SUFFICES ASSUME 1 \in 1 .. Len(r) PROVE r[1] = "/"
      OBVIOUS
    <2>1. n # Len(s)
      BY <1>1
    <2>2. s[n + 1] = "/"
      BY <2>1 DEF EndsAt
    <2>3. r[1] = s[1 + n] /\ 1 + n = n + 1
      BY <1>1 DEF Behind
    <2> QED BY <2>2, <2>3
  <1>5. \A j \in Starts(r) : j \in 1 .. Len(r) /\ j > 1
    <2> SUFFICES ASSUME NEW j \in Starts(r) PROVE j \in 1 .. Len(r) /\ j # 1
      BY <1>1
    <2>1. j \in 1 .. Len(r) /\ r[j] # "/"
      BY DEF Starts
    <2> QED BY <1>4, <2>1
  <1>6. \A j \in Starts(r) : Pieces(s)[j + n] = Pieces(r)[j] /\ j + n \in Starts(s)
    BY <1>3, <1>5
  <1> DEFINE K == {j + n : j \in Starts(r)}
  <1>7. Starts(s) = {1} \cup K
    <2>1. 1 \in Starts(s)
      BY <1>1 DEF Starts
    <2>2. ASSUME NEW x \in Starts(s), x # 1 PROVE x - n \in Starts(r) /\ x = (x - n) + n
      <3>1. x \in 1 .. Len(s) /\ s[x] # "/" /\ s[x - 1] = "/"
        BY <2>2 DEF Starts
      <3>2. x - 1 \notin 1 .. n
        BY <1>2, <3>1
      <3>3. x - n \in 1 .. Len(r) /\ x - n > 1 /\ x = (x - n) + n
        BY <1>1, <2>2, <3>1, <3>2
      <3> QED BY <1>3, <2>2, <3>3
    <2> QED BY <1>6, <2>1, <2>2
  <1>8. Spells(Elements[r], K, Pieces(s))
    <2> DEFINE x == Elements[r]
               S == Starts(r)
               v == Pieces(s)
               w == Pieces(r)
    <2>1. Spells(x, S, w) /\ \A i \in S : v[i + n] = w[i]
      BY <1>6
    <2> HIDE DEF x, S, v, w
    <2>2. Spells(x, {i + n : i \in S}, v)
      BY <1>1, <2>1, SpellsMoved
    <2> QED BY <2>2 DEF x, S, v, w
  <1>9. \A i \in K : 1 < i
    <2>1. \A j \in Starts(r) : j + n > 1
      BY <1>1, <1>5
    <2> QED BY <2>1
  <1>10. Spells(<<Pieces(s)[1]>> \o Elements[r], {1} \cup K, Pieces(s))
    <2> HIDE DEF K
    <2> QED BY <1>8, <1>9, SpellsFront
  <1>11. Pieces(s)[1] = Element(SubSeq(s, 1, n))
    <2> DEFINE u == SubSeq(s, 1, n)
    <2>1. Segment(s, 1) = u
      BY <1>1, SegmentIs
    <2>2. u \in Text
      <3>1. 1 \in Nat \ {0} /\ n \in 0 .. Len(s) /\ 1 <= n + 1
        BY <1>1
      <3> QED BY <3>1, PartIs
    <2>3. Pieces(s)[1] = UpTo(Meant(Segment(s, 1)), NUL)
      BY <1>1 DEF Pieces
    <2> HIDE DEF u
    <2>4. Element(u) = UpTo(Meant(u), NUL)
      BY <2>2, DecodedIsMeant DEF Element
    <2>5. Pieces(s)[1] = Element(u)
      BY <2>1, <2>3, <2>4
    <2> QED BY <2>5 DEF u
  <1> QED BY <1>7, <1>10, <1>11

(* If the elements of shorter texts are those that start there, in order,  *)
(* so are those of this one.                                               *)
LEMMA ElementsSpellStep ==
    ASSUME NEW s \in Text, s # <<>>,
           \A r \in Text : Len(r) < Len(s) => Spells(Elements[r], Starts(r), Pieces(r))
    PROVE  Spells(Elements[s], Starts(s), Pieces(s))
  <1>1. Elements[s] = SplitStep(s, Elements)
    BY ElementsIs
  <1>2. CASE s[1] = "/"
    <2> DEFINE r == Tail(s)
    <2>1. Behind(s, 1, r) /\ r \in Text /\ Len(r) < Len(s)
      BY TailBehind, RestShorter
    <2>2. Elements[s] = Elements[r]
      BY <1>1, <1>2 DEF SplitStep
    <2> HIDE DEF r
    <2>3. Spells(Elements[r], Starts(r), Pieces(r))
      BY <2>1
    <2> QED BY <1>2, <2>1, <2>2, <2>3, SlashStep
  <1>3. CASE s[1] # "/"
    <2> DEFINE u == UpTo(s, "/")
               n == Len(u)
               r == SubSeq(s, n + 1, Len(s))
    <2>1. n \in 1 .. Len(s) /\ EndsAt(s, 1, n) /\ u = SubSeq(s, 1, n)
      BY <1>3, UpToSlash
    <2>2. Elements[s] = <<Element(u)>> \o Elements[r]
      BY <1>1, <1>3 DEF SplitStep
    <2> HIDE DEF n
    <2>3. Behind(s, n, r)
      BY <2>1, RestBehind
    <2>4. r \in Text /\ Len(r) < Len(s)
      BY <2>1, RestShorter
    <2> HIDE DEF u, r
    <2>5. Spells(Elements[r], Starts(r), Pieces(r))
      BY <2>4
    <2>6. Elements[s] = <<Element(SubSeq(s, 1, n))>> \o Elements[r]
      BY <2>1, <2>2
    <2> QED BY <1>3, <2>1, <2>3, <2>5, <2>6, SegmentStep
  <1> QED BY <1>2, <1>3

(* So they are for every text. *)
LEMMA ElementsSpell ==
    ASSUME NEW s \in Text
    PROVE  Spells(Elements[s], Starts(s), Pieces(s))
  <1> DEFINE P == {m \in Nat : \A t \in Text : Len(t) < m => Spells(Elements[t], Starts(t), Pieces(t))}
  <1>0. \A t \in Text : Len(t) \in Nat
    BY DEF Text
  <1>1. 0 \in P
    BY <1>0
  <1>2. ASSUME NEW m \in Nat \ {0}, m - 1 \in P
        PROVE  m \in P
    <2>1. ASSUME NEW t \in Text, Len(t) < m PROVE Spells(Elements[t], Starts(t), Pieces(t))
      <3>1. CASE t = <<>>
        <4>1. Elements[t] = <<>>
          BY <3>1, ElementsIs DEF SplitStep
        <4>2. Starts(t) = {}
          BY <3>1 DEF Starts
        <4> QED BY <4>1, <4>2, SpellsNone
      <3>2. CASE t # <<>>
        <4>1. \A r \in Text : Len(r) < Len(t) => Spells(Elements[r], Starts(r), Pieces(r))
          BY <1>0, <1>2, <2>1
        <4> QED BY <3>2, <4>1, ElementsSpellStep
      <3> QED BY <3>1, <3>2
    <2> QED BY <2>1
  <1>3. Nat \subseteq P
    <2> HIDE DEF P
    <2> QED BY <1>1, <1>2, AllNumbers
  <1>4. Len(s) + 1 \in P
    BY <1>0, <1>3
  <1> QED BY <1>0, <1>4

(* request_vstr is the URI without its query. *)
LEMMA RequestStrIsPath ==
    ASSUME NEW u \in Text
    PROVE  RequestStr(u) = Path(u)
  <1> DEFINE I == {i \in 1 .. Len(u) : u[i] = "?"}
  <1>1. Before(u, "?") = IF I # {} THEN Min(I) ELSE 0
    BY DEF Before, SelectInSeq
  <1>2. RequestStr(u) = IF Before(u, "?") = 0 THEN u ELSE SubSeq(u, 1, Before(u, "?") - 1)
    BY DEF RequestStr, UpTo
  <1>3. Path(u) = IF I = {} THEN u ELSE SubSeq(u, 1, Min(I) - 1)
    BY DEF Path
  <1>4. ASSUME I # {} PROVE Min(I) # 0
    <2>1. I \in SUBSET Nat /\ 0 \notin I
      OBVIOUS
    <2>2. PICK i \in I : \A j \in I : i <= j
      BY <1>4, <2>1, LeastOf
    <2> HIDE DEF I
    <2>3. Min(I) \in I
      BY <2>1, <2>2 DEF Min
    <2> QED BY <2>1, <2>3
  <1> HIDE DEF I
  <1> QED BY <1>1, <1>2, <1>3, <1>4

(* The two loops over a request's URI compute the elements that are meant. *)
LEMMA ArrayIsExpected ==
    ASSUME NEW u \in Text
    PROVE  RequestArray(u) = ExpectedElements(u)
  <1> DEFINE s == Path(u)
             p == InOrder(Starts(s))
  <1>1. s \in Text /\ RequestArray(u) = Elements[s]
    BY RequestStrIsPath, UpToTyped DEF RequestArray, RequestStr
  <1>2. ExpectedElements(u) = [k \in 1 .. Len(p) |-> UpTo(Meant(Segment(s, p[k])), NUL)]
    BY DEF ExpectedElements
  <1> HIDE DEF s
  <1>3. /\ Elements[s] = [k \in 1 .. Len(p) |-> Pieces(s)[p[k]]]
        /\ \A k \in 1 .. Len(p) : p[k] \in Starts(s)
    BY <1>1, ElementsSpell, SpellsIs
  <1> HIDE DEF p
  <1>4. \A k \in 1 .. Len(p) : Pieces(s)[p[k]] = UpTo(Meant(Segment(s, p[k])), NUL)
    BY <1>3, StartsIn DEF Pieces
  <1> QED BY <1>1, <1>2, <1>3, <1>4

(* Whatever the URI and whichever elements have been consumed, those       *)
(* consumed and those left are the segments of its path, decoded once.     *)
THEOREM PathIsRight == Spec => []PathElements
  <1>1. PathInv => PathElements
    <2> SUFFICES ASSUME PathInv PROVE PathElements
      OBVIOUS
    <2>1. CASE uri = NULL
      BY <2>1 DEF PathInv, PathElements, Array
    <2>2. CASE uri # NULL
      <3>1. uri \in Text
        BY <2>2, UrisAssumption, UriIsText DEF PathInv
      <3>2. RequestArray(uri) = ExpectedElements(uri)
        BY <3>1, ArrayIsExpected
      <3> QED BY <2>2, <3>2 DEF PathInv, PathElements, Array
    <2> QED BY <2>1, <2>2
  <1> QED BY <1>1, PathInvariant, PTL
=============================================================================
