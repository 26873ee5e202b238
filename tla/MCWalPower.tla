---------------------------- MODULE MCWalPower ----------------------------
(* Instances of WalPower for TLC: one  table file with a header page and a  *)
(* data page, and a pool of one or two frames.                              *)
EXTENDS WalPower, TLC

CONSTANTS f1, hdr, pg, a, b, b2

MCFiles   == {f1}
MCPages   == {hdr, pg}
MCHeaders == {hdr}
MCFileOf  == (hdr :> f1) @@ (pg :> f1)

\* One word per page.
MCCells   == {a, b}
MCPageOf  == (a :> hdr) @@ (b :> pg)

\* Two words on the data page, so that a page can be half old and half new.
MCCells2  == {a, b, b2}
MCPageOf2 == (a :> hdr) @@ (b :> pg) @@ (b2 :> pg)

=============================================================================
