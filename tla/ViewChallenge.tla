---------------------------- MODULE ViewChallenge -----------------------------
(***************************************************************************)
(* expand_view_challenge_hash of core/views.c: the digest of the           *)
(* transcript is expanded into nbSets sets of nbBySet parties, by          *)
(* rejection sampling from a stream of 16-bit words, and each set is then  *)
(* sorted in place.  The sets are flattened in one array, opened_views.    *)
(*                                                                         *)
(* The words of the stream are arbitrary: a drawn value is any value of    *)
(* PARAM_LOG_NB_PARTIES bits.  One draw, and one comparison of the sort,   *)
(* is one action.                                                          *)
(***************************************************************************)
EXTENDS Integers, FiniteSets, Sequences

CONSTANTS Settings  \* records of the compile-time parameters: the number of sets
                    \* (repetitions), their size, PARAM_NB_PARTIES and
                    \* PARAM_LOG_NB_PARTIES

\* A set larger than the number of parties would be drawn forever.
ASSUME SettingsAssumption ==
  \A s \in Settings : /\ s.sets \in Nat \ {0} /\ s.size \in Nat \ {0}
                      /\ s.parties \in Nat /\ s.size <= s.parties
                      /\ s.log \in Nat /\ s.parties <= 2^s.log

VARIABLES
  pc,
  param,      \* the member of Settings the library was built with
  views,      \* opened_views
  num, i,     \* the loop counters of the draws, then e and p of the sort
  j           \* the loop counter i of the sort

vars == <<pc, param, views, num, i, j>>

Positions == 0..(param.sets * param.size - 1)
At(set, k) == param.size * set + k

Init ==
  /\ pc = "draw"
  /\ param \in Settings
  /\ views = [p \in Positions |-> 0]
  /\ num = 0 /\ i = 0 /\ j = 0

-----------------------------------------------------------------------------
\* What the mask leaves of a word.
MaskedTooShort == 0..(2^(param.log - 1) - 1)
Masked == 0..(2^param.log - 1)

InRange(value) == value < param.parties

\* The comparison with the members already in the current set, which start at
\* ind - i.
UniqueFromStart(value) == \A k \in 0..(i - 1) : views[k] # value
Unique(value) == \A k \in 0..(i - 1) : views[At(num, k)] # value

DrawAccepted ==
  /\ pc = "draw" /\ num < param.sets
  /\ \E value \in Masked : /\ InRange(value) /\ Unique(value)
                           /\ views' = [views EXCEPT ![At(num, i)] = value]
  /\ IF i + 1 < param.size THEN i' = i + 1 /\ num' = num
                           ELSE i' = 0 /\ num' = num + 1
  /\ UNCHANGED <<pc, param, j>>

\* The value is drawn again: out of range, or already in the set.
DrawRejected ==
  /\ pc = "draw" /\ num < param.sets
  /\ \E value \in Masked : ~InRange(value) \/ ~Unique(value)
  /\ UNCHANGED vars

SortStart ==
  /\ pc = "draw" /\ num = param.sets
  /\ pc' = "sort"
  /\ num' = 0 /\ i' = 0 /\ j' = 1
  /\ UNCHANGED <<param, views>>

SwapLosing(a, b) == [views EXCEPT ![a] = views[b]]
Swap(a, b) == [views EXCEPT ![a] = views[b], ![b] = views[a]]

\* An iteration of the innermost loop of the sort.
SortCompare ==
  /\ pc = "sort" /\ num < param.sets /\ i < param.size - 1 /\ j < param.size
  /\ LET a == At(num, i)
         b == At(num, j)
     IN  views' = IF views[a] > views[b] THEN Swap(a, b) ELSE views
  /\ j' = j + 1
  /\ UNCHANGED <<pc, param, num, i>>

NextFirst == i + 1

SortAdvance ==
  /\ pc = "sort" /\ num < param.sets
  /\ \/ /\ i < param.size - 1 /\ j = param.size
        /\ i' = NextFirst /\ j' = NextFirst + 1 /\ num' = num
     \/ /\ i >= param.size - 1
        /\ i' = 0 /\ j' = 1 /\ num' = num + 1
  /\ UNCHANGED <<pc, param, views>>

SortDone ==
  /\ pc = "sort" /\ num = param.sets
  /\ pc' = "done"
  /\ UNCHANGED <<param, views, num, i, j>>

\* The function has returned: nothing more happens.
Stopped == pc = "done" /\ UNCHANGED vars

Sort == SortStart \/ SortCompare \/ SortAdvance \/ SortDone
Next == DrawAccepted \/ DrawRejected \/ Sort \/ Stopped

Spec == Init /\ [][Next]_vars

\* The stream is the output of an extendable-output function: it does not avoid the
\* acceptable values forever.  The sort is a plain loop.
FairSpec == Spec /\ WF_vars(DrawAccepted) /\ WF_vars(Sort)

-----------------------------------------------------------------------------
(* Properties. *)

\* The members of a set, those of its first n positions.
Members(set, n) == {views[At(set, k)] : k \in 0..(n - 1)}

\* Type invariant.
TypeOK ==
  /\ pc \in {"draw", "sort", "done"}
  /\ param \in Settings
  /\ views \in [Positions -> 0..(param.parties - 1)]
  /\ num \in 0..param.sets
  /\ i \in 0..param.size /\ j \in 0..param.size

\* What views.h promises and the openings rely on: each set has the requested
\* number of distinct parties of the protocol, in increasing order.
SortedSets ==
  pc = "done" =>
    \A set \in 0..(param.sets - 1) : \A k, l \in 0..(param.size - 1) :
      /\ views[At(set, k)] < param.parties
      /\ k < l => views[At(set, k)] < views[At(set, l)]

\* The sort works inside of each set and loses no member: the parties that are
\* opened are those that were drawn.
SameMembers ==
  \A set \in 0..(param.sets - 1) : Members(set, param.size) = Members(set, param.size)'
SortPermutes == [][pc = "sort" => SameMembers]_vars

\* The function returns.
Terminates == <>(pc = "done")
=============================================================================
