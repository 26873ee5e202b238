----------------------------- MODULE MCHeapFile -----------------------------
(* HeapFile for TLC: a table of a few pages with one or two slots each.      *)
EXTENDS HeapFile

\* The properties say nothing of a table once it is spoilt.
NotSpoilt == ~spoilt
=============================================================================
