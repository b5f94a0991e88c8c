----------------------------- MODULE IndexedList -----------------------------
(***************************************************************************)
(* The enumerable set that FeeCollector and EmergencyShutdown each write   *)
(* out by hand: a storage array and a mapping from a member to its 1-based *)
(* position (0 for an absent one).  A member is removed by moving the last *)
(* one into its place.                                                     *)
(***************************************************************************)
EXTENDS Naturals, Sequences

PushedList(list, x) == Append(list, x)

PushedIndex(list, index, x) == [index EXCEPT ![x] = Len(list) + 1]

PoppedList(list, index, x) ==
    [k \in 1..(Len(list) - 1) |-> IF k = index[x] THEN list[Len(list)] ELSE list[k]]

\* Mutant: the member that moved keeps its old position.
PoppedIndexStale(list, index, x) == [index EXCEPT ![x] = 0]

PoppedIndex(list, index, x) ==
    [index EXCEPT ![list[Len(list)]] = index[x], ![x] = 0]

\* The positions are exactly those of the array: no member is listed twice,
\* listed without a position, or positioned where another one is.
IsIndexed(list, index) ==
    /\ \A k \in DOMAIN list : index[list[k]] = k
    /\ \A x \in DOMAIN index :
           index[x] # 0 => index[x] \in DOMAIN list /\ list[index[x]] = x
==============================================================================
