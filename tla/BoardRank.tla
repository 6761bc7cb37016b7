-------------------------------- MODULE BoardRank --------------------------------
(***************************************************************************)
(* Where a card goes that is dropped on the board (onDrop and computeRank  *)
(* of apps/web/app/(app)/projects/[projectId]/page.tsx).  A column is the  *)
(* sequence of its cards' ranks, a card is its position.                   *)
(*                                                                         *)
(* Ranks are floating-point numbers.  Here they are integers, multiples of *)
(* the last place that the ranks of the column have in common, so that the *)
(* half of a sum is a nearest integer.                                     *)
(***************************************************************************)
EXTENDS Integers, Sequences, SequencesExt

CONSTANT Gap    \* 1000, in units of the last place

ASSUME GapAssumption == Gap \in Nat

\* The cards of a column are at least k apart.
Spaced(col, k) == \A i, j \in DOMAIN col : i < j => col[j] - col[i] >= k

\* insertIndex, for a drop on the card at position over (0 if the card is not
\* there), or on the column, which is a drop on the lower half of its last card.
InsertIndex(over, edge) == IF edge = "bottom" THEN over ELSE over - 1

\* The cards among which it is put: without the moved one, which is at position
\* moving, or 0 if it comes from another column.
ToItems(col, moving) == IF moving = 0 THEN col ELSE RemoveAt(col, moving)

\* idx: how many of them are before it.
Idx(col, moving, insertIndex) ==
    LET shifted == IF moving # 0 /\ moving - 1 < insertIndex THEN insertIndex - 1 ELSE insertIndex
        len == IF moving = 0 THEN Len(col) ELSE Len(col) - 1 IN
    IF shifted < 0 THEN 0 ELSE IF shifted > len THEN len ELSE shifted

\* r may be computeRank of the ranks on either side of the slot after idx.
IsRank(items, idx, r) ==
    LET before == idx > 0
        after == idx < Len(items) IN
    /\ ~before /\ ~after => r = Gap
    /\ ~before /\ after => r = items[1] - Gap
    /\ before /\ ~after => r = items[idx] + Gap
    /\ before /\ after => 2 * r - (items[idx] + items[idx + 1]) \in {-1, 0, 1}

\* The column may be new after the drop, with the card of rank r in it.
IsDrop(col, moving, insertIndex, r, new) ==
    LET items == ToItems(col, moving)
        idx == Idx(col, moving, insertIndex) IN
    /\ IsRank(items, idx, r)
    /\ new = InsertAt(items, idx + 1, r)
===============================================================================
