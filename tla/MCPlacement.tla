----------------------------- MODULE MCPlacement -----------------------------
(***************************************************************************)
(* Instances of Placement for TLC, one for each supported topology: two    *)
(* helpers and one rank, one helper and two ranks.                         *)
(***************************************************************************)
EXTENDS Placement

CONSTANTS h0, h1, r0, r1

\* Two experts and an uneven budget: the candidates are a swap, a move that
\* fits and one that is over the budget of h0; proposed again, each is the
\* epoch cycle that changes no owner.
Pair == 0 .. 1
PairBudget == [h \in Helpers |-> IF h = h0 THEN 1 ELSE 2]
PairOwners == [e \in Pair |-> IF e = 0 \/ h1 \notin Helpers THEN h0 ELSE h1]
PairMaps == [Pair -> Helpers] \ {PairOwners}

\* Four experts: one swap fits the staging slot of h0, which is full, two do
\* not, although h1 has the room.
Four == 0 .. 3
FourBudget == [h \in Helpers |-> IF h = h0 THEN 2 ELSE 3]
FourOwners == [e \in Four |-> IF e < 2 THEN h0 ELSE h1]
OneSwap == [FourOwners EXCEPT ![1] = h1, ![2] = h0]
TwoSwaps == [e \in Four |-> IF e < 2 THEN h1 ELSE h0]
Swaps == {OneSwap, TwoSwaps}

\* One helper owns everything; only the epoch cycle is left to it.
Unmoved == {PairOwners}
AloneBudget == [h \in Helpers |-> 2]
=============================================================================
