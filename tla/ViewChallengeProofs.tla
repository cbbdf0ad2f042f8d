-------------------------- MODULE ViewChallengeProofs --------------------------
(***************************************************************************)
(* Proofs about ViewChallenge, for every number of sets, of parties and of *)
(* members of a set.                                                       *)
(***************************************************************************)
EXTENDS ViewChallenge, TLAPS

\* The slots of two sets do not overlap.
LEMMA SlotsOfSets ==
  ASSUME NEW n \in Nat, NEW s \in Nat, NEW t \in Nat,
         NEW k \in 0..(n - 1), NEW l \in 0..(n - 1), n * s + k = n * t + l
  PROVE  s = t /\ k = l
<1>1. ASSUME NEW a \in Nat, NEW b \in Nat, a < b PROVE n * a + n <= n * b
  <2>1. PICK d \in Nat : b = a + 1 + d
    BY <1>1
  <2>2. n * b = n * a + n + n * d /\ n * d \in Nat /\ n * a \in Nat
    BY <2>1
  <2> QED BY <2>2
<1>2. n * s \in Nat /\ n * t \in Nat
  OBVIOUS
<1>3. ~(s < t) /\ ~(t < s)
  BY <1>1, <1>2
<1>4. s = t
  BY <1>3
<1> QED BY <1>2, <1>4

LEMMA SlotIsPosition ==
  ASSUME NEW n \in Nat, NEW m \in Nat, NEW s \in 0..(m - 1), NEW k \in 0..(n - 1)
  PROVE  n * s + k \in 0..(m * n - 1)
<1>1. PICK d \in Nat : m = s + 1 + d
  BY s + 1 <= m
<1>2. m * n = n * s + n + n * d /\ n * d \in Nat /\ n * s \in Nat
  BY <1>1
<1> QED BY <1>2

-----------------------------------------------------------------------------
(* The inductive invariant. *)

Value(set, k) == views[At(set, k)]

Distinct(set, n) ==
  \A k, l \in 0..(n - 1) : k < l => Value(set, k) # Value(set, l)

Sets         == 0..(param.sets - 1)
SetPositions == 0..(param.size - 1)

\* The sets drawn so far, and the begun part of the current one, have distinct
\* members.
DrawInv ==
  pc = "draw" =>
    /\ IF num < param.sets THEN i \in SetPositions /\ Distinct(num, i) ELSE i = 0
    /\ \A s \in 0..(num - 1) : Distinct(s, param.size)

\* The position k of a set holds a lesser party than the positions up to n - 1 that
\* follow it.
LeastUpTo(set, k, n) == \A l \in (k + 1)..(n - 1) : Value(set, k) < Value(set, l)

\* A set is sorted up to i, and position i has been compared up to j.
SortInv ==
  pc \in {"sort", "done"} =>
    /\ \A s \in Sets : Distinct(s, param.size)
    /\ \A s \in 0..(num - 1) : \A k \in SetPositions : LeastUpTo(s, k, param.size)
    /\ IF num < param.sets
       THEN /\ pc = "sort" /\ i \in SetPositions /\ j \in (i + 1)..param.size
            /\ \A k \in 0..(i - 1) : LeastUpTo(num, k, param.size)
            /\ LeastUpTo(num, i, j)
       ELSE TRUE

IInv == TypeOK /\ DrawInv /\ SortInv

\* What the type invariant says of the parameters, as numbers.
LEMMA Parameters ==
  ASSUME TypeOK
  PROVE  /\ param.sets \in Nat /\ 1 <= param.sets
         /\ param.size \in Nat /\ 1 <= param.size
         /\ param.parties \in Nat /\ param.size <= param.parties
BY SettingsAssumption DEF TypeOK

\* Positions of sets are positions of the array.
LEMMA SlotInArray ==
  ASSUME TypeOK, NEW s \in Sets, NEW k \in SetPositions
  PROVE  At(s, k) \in Positions /\ Value(s, k) \in 0..(param.parties - 1)
<1>1. At(s, k) \in Positions
  BY Parameters, SlotIsPosition DEF At, Positions, Sets, SetPositions
<1> QED BY <1>1 DEF Value, TypeOK

LEMMA SlotsDiffer ==
  ASSUME TypeOK, NEW s \in Sets, NEW k \in SetPositions, NEW t \in Sets, NEW l \in SetPositions,
         At(s, k) = At(t, l)
  PROVE  s = t /\ k = l
BY Parameters, SlotsOfSets DEF At, Sets, SetPositions

LEMMA InitInv == Init => IInv
<1> SUFFICES ASSUME Init PROVE IInv
  OBVIOUS
<1>1. /\ param.sets \in Nat /\ 1 <= param.sets
      /\ param.size \in Nat /\ 1 <= param.size
      /\ param.parties \in Nat /\ param.size <= param.parties
  BY SettingsAssumption DEF Init
<1>2. TypeOK
  BY <1>1 DEF Init, TypeOK
<1> QED BY <1>1, <1>2 DEF Init, IInv, DrawInv, SortInv, Distinct, SetPositions

\* A draw changes one slot, of the current set.
LEMMA DrawKeeps ==
  ASSUME IInv, DrawAccepted
  PROVE  IInv'
<1>1. /\ param.sets \in Nat /\ 1 <= param.sets
      /\ param.size \in Nat /\ 1 <= param.size
      /\ param.parties \in Nat /\ param.size <= param.parties
  BY Parameters DEF IInv
<1>2. /\ pc = "draw" /\ pc' = "draw" /\ param' = param /\ j' = j
      /\ num \in Sets /\ i \in SetPositions /\ Distinct(num, i)
      /\ \A s \in 0..(num - 1) : Distinct(s, param.size)
  BY <1>1 DEF IInv, TypeOK, DrawInv, DrawAccepted, Sets
<1> PICK set \in Sets, pos \in SetPositions : set = num /\ pos = i
  BY <1>2
<1>3. PICK value \in Masked : /\ InRange(value) /\ Unique(value)
                              /\ views' = [views EXCEPT ![At(num, i)] = value]
  BY DEF DrawAccepted
<1>4. value \in 0..(param.parties - 1)
  BY <1>1, <1>3 DEF Masked, InRange
<1>5. At(num, i) \in Positions
  BY <1>2, SlotInArray DEF IInv
<1>6. \A s \in Sets, k \in SetPositions :
        Value(s, k)' = IF s = num /\ k = i THEN value ELSE Value(s, k)
  <2> SUFFICES ASSUME NEW s \in Sets, NEW k \in SetPositions
               PROVE  Value(s, k)' = IF s = num /\ k = i THEN value ELSE Value(s, k)
    OBVIOUS
  <2>1. At(s, k) \in Positions /\ At(s, k)' = At(s, k)
    BY <1>2, SlotInArray DEF IInv, At
  <2>2. At(s, k) = At(num, i) <=> s = num /\ k = i
    BY <1>2, SlotsDiffer DEF IInv
  <2>3. DOMAIN views = Positions
    BY DEF IInv, TypeOK
  <2> QED BY <1>3, <2>1, <2>2, <2>3 DEF Value
<1>7. \A k \in 0..(i - 1) : Value(num, k) # value
  BY <1>3 DEF Unique, Value
<1>8. \A s \in 0..(num - 1) : Distinct(s, param.size)'
  BY <1>1, <1>2, <1>6 DEF Distinct, Sets, SetPositions
<1>9. Distinct(set, pos + 1)'
  <2> SUFFICES ASSUME NEW k \in 0..pos, NEW l \in 0..pos, k < l
               PROVE  Value(set, k)' # Value(set, l)'
    BY <1>1 DEF Distinct, SetPositions
  <2>1. k \in SetPositions /\ l \in SetPositions /\ k \in 0..(i - 1) /\ l \in 0..i
    BY <1>1, <1>2 DEF SetPositions
  <2>2. CASE l = i
    BY <1>6, <1>7, <2>1, <2>2 DEF SetPositions
  <2>3. CASE l # i
    <3>1. l \in 0..(i - 1)
      BY <1>2, <2>1, <2>3 DEF SetPositions
    <3>2. Value(set, k) # Value(set, l)
      BY <1>2, <2>1, <3>1 DEF Distinct
    <3> QED BY <1>6, <2>1, <2>3, <3>2 DEF SetPositions
  <2> QED BY <2>2, <2>3
<1>10. TypeOK'
  <2>1. views' \in [Positions' -> 0..(param'.parties - 1)]
    BY <1>2, <1>3, <1>4, <1>5 DEF IInv, TypeOK, Positions
  <2>2. num' \in 0..param'.sets /\ i' \in 0..param'.size
    BY <1>1, <1>2 DEF DrawAccepted, Sets, SetPositions
  <2> QED BY <1>2, <2>1, <2>2 DEF IInv, TypeOK
<1>11. DrawInv'
  <2>1. CASE i + 1 < param.size
    <3>1. num' = num /\ i' = i + 1
      BY <2>1 DEF DrawAccepted
    <3>2. pos + 1 = i' /\ set = num'
      BY <3>1
    <3>3. Distinct(num, i)'
      BY <1>9, <3>2
    <3>4. \A s \in 0..(num' - 1) : Distinct(s, param.size)'
      BY <1>8, <3>1
    <3> QED BY <1>1, <1>2, <2>1, <3>1, <3>3, <3>4 DEF DrawInv, Sets, SetPositions
  <2>2. CASE ~(i + 1 < param.size)
    <3>1. num' = num + 1 /\ i' = 0 /\ param.size = i + 1
      BY <1>1, <1>2, <2>2 DEF DrawAccepted, SetPositions
    <3>2. pos + 1 = param'.size
      BY <1>2, <3>1
    <3>3. Distinct(set, param.size)'
      BY <1>9, <3>2
    <3>4. ASSUME NEW s \in 0..(num' - 1) PROVE Distinct(s, param.size)'
      <4>1. s = set \/ s \in 0..(num - 1)
        BY <1>1, <1>2, <3>1 DEF Sets
      <4> QED BY <1>8, <3>3, <4>1
    <3>5. Distinct(num, i)'
      BY <3>1 DEF Distinct
    <3> QED BY <1>1, <1>2, <3>1, <3>4, <3>5 DEF DrawInv, Sets, SetPositions
  <2> QED BY <2>1, <2>2
<1> QED BY <1>2, <1>10, <1>11 DEF IInv, SortInv

\* A comparison of the sort, possibly with an exchange.
LEMMA CompareKeeps ==
  ASSUME IInv, SortCompare
  PROVE  /\ IInv'
         /\ \A s \in Sets : Members(s, param.size)' = Members(s, param.size)
<1>1. /\ param.sets \in Nat /\ 1 <= param.sets
      /\ param.size \in Nat /\ 1 <= param.size
      /\ param.parties \in Nat /\ param.size <= param.parties
  BY Parameters DEF IInv
<1>2. /\ pc = "sort" /\ pc' = "sort" /\ param' = param /\ num' = num /\ i' = i /\ j' = j + 1
      /\ num \in Sets /\ i \in SetPositions /\ j \in SetPositions /\ i < j
      /\ \A s \in Sets : Distinct(s, param.size)
      /\ \A s \in 0..(num - 1) : \A k \in SetPositions : LeastUpTo(s, k, param.size)
      /\ \A k \in 0..(i - 1) : LeastUpTo(num, k, param.size)
      /\ LeastUpTo(num, i, j)
  BY <1>1 DEF IInv, TypeOK, SortInv, SortCompare, Sets, SetPositions
<1> DEFINE swapped == Value(num, i) > Value(num, j)
<1>3. At(num, i) \in Positions /\ At(num, j) \in Positions
  BY <1>2, SlotInArray DEF IInv
<1>4. \A s \in Sets, k \in SetPositions :
        /\ Value(s, k) \in 0..(param.parties - 1)
        /\ Value(s, k)' = IF s = num /\ swapped /\ k = i THEN Value(num, j)
                          ELSE IF s = num /\ swapped /\ k = j THEN Value(num, i)
                          ELSE Value(s, k)
  <2> SUFFICES ASSUME NEW s \in Sets, NEW k \in SetPositions
               PROVE  /\ Value(s, k) \in 0..(param.parties - 1)
                      /\ Value(s, k)' = IF s = num /\ swapped /\ k = i THEN Value(num, j)
                                        ELSE IF s = num /\ swapped /\ k = j THEN Value(num, i)
                                        ELSE Value(s, k)
    OBVIOUS
  <2>1. /\ At(s, k) \in Positions /\ At(s, k)' = At(s, k)
        /\ Value(s, k) \in 0..(param.parties - 1)
    BY <1>2, SlotInArray DEF IInv, At
  <2>2. /\ At(s, k) = At(num, i) <=> s = num /\ k = i
        /\ At(s, k) = At(num, j) <=> s = num /\ k = j
    BY <1>2, SlotsDiffer DEF IInv
  <2>3. DOMAIN views = Positions
    BY DEF IInv, TypeOK
  <2>4. views' = IF swapped THEN Swap(At(num, i), At(num, j)) ELSE views
    BY DEF SortCompare, Value
  <2> QED BY <1>2, <1>3, <2>1, <2>2, <2>3, <2>4 DEF Value, Swap
<1> HIDE DEF swapped
<1>5. \A s \in Sets : Distinct(s, param.size)'
  BY <1>1, <1>2, <1>4 DEF Distinct, SetPositions
<1>6. \A s \in 0..(num - 1) : \A k \in SetPositions : LeastUpTo(s, k, param.size)'
  BY <1>1, <1>2, <1>4 DEF LeastUpTo, Sets, SetPositions
<1>7. \A k \in 0..(i - 1) : LeastUpTo(num, k, param.size)'
  BY <1>1, <1>2, <1>4 DEF LeastUpTo, SetPositions
<1>8. LeastUpTo(num, i, j)'
  <2>1. Value(num, i) # Value(num, j)
    BY <1>1, <1>2 DEF Distinct, SetPositions
  <2> QED BY <1>1, <1>2, <1>4, <2>1 DEF LeastUpTo, SetPositions, swapped
<1>9. TypeOK'
  <2>1. views' \in [Positions -> 0..(param.parties - 1)]
    BY <1>3 DEF IInv, TypeOK, SortCompare, Swap
  <2> QED BY <1>1, <1>2, <2>1 DEF IInv, TypeOK, Positions, SetPositions
<1>10. ASSUME NEW s \in Sets PROVE Members(s, param.size)' = Members(s, param.size)
  <2>1. Members(s, param.size)' = {Value(s, k)' : k \in SetPositions}
    BY <1>2 DEF Members, Value, SetPositions, At
  <2>2. Members(s, param.size) = {Value(s, k) : k \in SetPositions}
    BY DEF Members, Value, SetPositions
  <2>3. \A k \in SetPositions : \E l \in SetPositions : Value(s, k)' = Value(s, l)
    BY <1>2, <1>4
  <2>4. \A k \in SetPositions : \E l \in SetPositions : Value(s, k) = Value(s, l)'
    BY <1>2, <1>4
  <2> HIDE DEF Value
  <2> QED BY <2>1, <2>2, <2>3, <2>4
<1> QED BY <1>1, <1>2, <1>5, <1>6, <1>7, <1>8, <1>9, <1>10
        DEF IInv, DrawInv, SortInv, Sets, SetPositions

LEMMA NextInv == IInv /\ [Next]_vars => IInv'
<1> SUFFICES ASSUME IInv, [Next]_vars PROVE IInv'
  OBVIOUS
<1>0. /\ param.sets \in Nat /\ 1 <= param.sets
      /\ param.size \in Nat /\ 1 <= param.size
      /\ param.parties \in Nat /\ param.size <= param.parties
  BY Parameters DEF IInv
<1>1. CASE DrawAccepted
  BY <1>1, DrawKeeps
<1>2. CASE SortStart
  <2>1. /\ pc = "draw" /\ pc' = "sort" /\ num = param.sets /\ num' = 0 /\ i' = 0 /\ j' = 1
        /\ UNCHANGED <<param, views>>
    BY <1>2 DEF SortStart
  <2>2. \A s \in Sets : Distinct(s, param.size)
    BY <2>1 DEF IInv, DrawInv, Sets
  <2>3. TypeOK'
    BY <1>0, <2>1 DEF IInv, TypeOK, Positions
  <2> QED BY <1>0, <2>1, <2>2, <2>3
          DEF IInv, DrawInv, SortInv, Sets, SetPositions, Distinct, LeastUpTo, Value, At
<1>3. CASE SortCompare
  BY <1>3, CompareKeeps
<1>4. CASE SortAdvance
  <2>1. pc = "sort" /\ num < param.sets /\ UNCHANGED <<pc, param, views>>
    BY <1>4 DEF SortAdvance
  <2>2. /\ num \in Nat /\ i \in SetPositions /\ j \in (i + 1)..param.size
        /\ \A s \in Sets : Distinct(s, param.size)
        /\ \A s \in 0..(num - 1) : \A k \in SetPositions : LeastUpTo(s, k, param.size)
        /\ \A k \in 0..(i - 1) : LeastUpTo(num, k, param.size)
        /\ LeastUpTo(num, i, j)
    BY <1>0, <2>1 DEF IInv, TypeOK, SortInv
  <2>3. CASE i < param.size - 1
    <3>1. j = param.size /\ i' = i + 1 /\ j' = i + 2 /\ num' = num
      BY <1>0, <1>4, <2>2, <2>3 DEF SortAdvance, NextFirst, SetPositions
    <3>2. TypeOK'
      BY <1>0, <2>1, <2>2, <2>3, <3>1 DEF IInv, TypeOK, Positions, SetPositions
    <3>3. \A k \in 0..i : LeastUpTo(num, k, param.size)
      BY <1>0, <2>2, <3>1 DEF SetPositions
    <3> QED BY <1>0, <2>1, <2>2, <2>3, <3>1, <3>2, <3>3
            DEF IInv, DrawInv, SortInv, Sets, SetPositions, Distinct, LeastUpTo, Value, At
  <2>4. CASE ~(i < param.size - 1)
    <3>1. i = param.size - 1 /\ i' = 0 /\ j' = 1 /\ num' = num + 1
      BY <1>0, <1>4, <2>2, <2>4 DEF SortAdvance, SetPositions
    <3>2. TypeOK'
      BY <1>0, <2>1, <2>2, <3>1 DEF IInv, TypeOK, Positions, SetPositions
    <3>3. \A k \in SetPositions : LeastUpTo(num, k, param.size)
      BY <1>0, <2>2, <3>1 DEF SetPositions, LeastUpTo
    <3>4. \A s \in Sets : Distinct(s, param.size)'
      BY <2>1, <2>2 DEF Distinct, Value, At
    <3>5. ASSUME NEW s \in 0..(num' - 1), NEW k \in SetPositions
          PROVE  LeastUpTo(s, k, param.size)'
      <4>1. s = num \/ s \in 0..(num - 1)
        BY <2>2, <3>1
      <4>2. LeastUpTo(s, k, param.size)
        BY <2>2, <3>3, <4>1
      <4> QED BY <2>1, <4>2 DEF LeastUpTo, Value, At
    <3>6. /\ \A k \in 0..(i' - 1) : LeastUpTo(num, k, param.size)'
          /\ LeastUpTo(num, i, j)'
      BY <3>1 DEF LeastUpTo
    <3> QED BY <1>0, <2>1, <2>2, <3>1, <3>2, <3>4, <3>5, <3>6
            DEF IInv, DrawInv, SortInv, Sets, SetPositions
  <2> QED BY <2>3, <2>4
<1>5. CASE SortDone
  BY <1>0, <1>5 DEF SortDone, IInv, TypeOK, Positions, DrawInv, SortInv, Sets, SetPositions,
                    Distinct, LeastUpTo, Value, At
<1>6. CASE DrawRejected \/ Stopped \/ UNCHANGED vars
  BY <1>6 DEF DrawRejected, Stopped, vars, IInv, TypeOK, Positions, DrawInv, SortInv, Sets,
              SetPositions, Distinct, LeastUpTo, Value, At
<1> QED BY <1>1, <1>2, <1>3, <1>4, <1>5, <1>6 DEF Next, Sort

LEMMA Invariance == Spec => []IInv
BY InitInv, NextInv, PTL DEF Spec

-----------------------------------------------------------------------------
\* The type invariant: no index leaves the array of the opened views, and what is in
\* the array are parties.
THEOREM Typing == Spec => []TypeOK
<1>1. IInv => TypeOK
  BY DEF IInv
<1> QED BY <1>1, Invariance, PTL

\* What expand_view_challenge_hash returns, whatever was drawn: every set has the
\* requested number of distinct parties of the protocol, in increasing order.
THEOREM SetsAreSorted == Spec => []SortedSets
<1>1. IInv => SortedSets
  <2> SUFFICES ASSUME IInv, pc = "done",
                      NEW s \in Sets, NEW k \in SetPositions, NEW l \in SetPositions
               PROVE  /\ Value(s, k) < param.parties
                      /\ k < l => Value(s, k) < Value(s, l)
    BY DEF SortedSets, Sets, SetPositions, Value
  <2>1. /\ param.sets \in Nat /\ param.size \in Nat /\ param.parties \in Nat
        /\ Value(s, k) \in 0..(param.parties - 1)
    BY Parameters, SlotInArray DEF IInv
  <2>2. s \in 0..(num - 1) /\ LeastUpTo(s, k, param.size)
    BY <2>1 DEF IInv, TypeOK, SortInv, Sets
  <2> QED BY <2>1, <2>2 DEF LeastUpTo, SetPositions
<1> QED BY <1>1, Invariance, PTL

\* The sort exchanges members of one set and loses none: what is opened is what was
\* drawn.
THEOREM SortKeepsMembers == Spec => SortPermutes
<1>1. IInv /\ [Next]_vars => [pc = "sort" => SameMembers]_vars
  <2> SUFFICES ASSUME IInv, Next, pc = "sort" PROVE SameMembers
    OBVIOUS
  <2>1. CASE SortCompare
    <3>1. param' = param
      BY <2>1 DEF SortCompare
    <3> QED BY <2>1, <3>1, CompareKeeps DEF SameMembers, Sets
  <2>2. CASE UNCHANGED <<param, views>>
    BY <2>2 DEF SameMembers, Members, At
  <2> QED BY <2>1, <2>2 DEF Next, Sort, DrawAccepted, DrawRejected, SortStart, SortAdvance,
                            SortDone, Stopped, vars
<1> QED BY <1>1, Invariance, PTL DEF Spec, SortPermutes
=============================================================================
