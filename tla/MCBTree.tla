------------------------------ MODULE MCBTree ------------------------------
(* BTree for TLC: pages of two entries, so that a handful of entries makes   *)
(* leaves, internal pages and the root split.                                *)
EXTENDS BTree
Bound(v, incl) == [none |-> FALSE, key |-> Key(v), incl |-> incl]
MCCursorRanges == {<<Bound(1, FALSE), Bound(2, TRUE)>>}
\* A spoilt file is not followed further: no property is about it.
NotSpoilt == ~spoilt
=============================================================================
