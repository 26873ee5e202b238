------------------------------ MODULE MCLogger ------------------------------
(* Logger for TLC: two threads, three levels.                                *)
EXTENDS Logger
=============================================================================
