------------------------------ MODULE MCQueue ------------------------------
(* Small instances of TaskQueue for TLC: two workers of one tier.           *)
EXTENDS TaskQueue

CONSTANTS w1, w2
=============================================================================
