----------------------------- MODULE MCCatalog -----------------------------
(* Catalog for TLC: ids and slots few enough that a restart hands out the    *)
(* ids of dropped tables and of rolled-back creations again.                 *)
EXTENDS Catalog

\* A spoilt database is not followed further: no property is about it. One with
\* pages of open or rolled-back transactions in its files is, while it is small.
Followed ==
  /\ ~spoilt
  /\ stolen \cup residue # {} => nextFid <= 3 /\ \A f \in Fids : Len(db.heap[f]) <= 1
=============================================================================
