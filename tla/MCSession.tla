----------------------------- MODULE MCSession -----------------------------
(* Session for TLC: three clients, two of which fit at a time, with two      *)
(* descriptors that are handed out again. *)
EXTENDS Session
=============================================================================
