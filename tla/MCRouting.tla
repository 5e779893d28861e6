----------------------------- MODULE MCRouting -----------------------------
(* Small instances of ResultRouting for TLC: one /ask and one /ask/stream,  *)
(* or two of a kind, with up to two results for each task.                 *)
EXTENDS ResultRouting

CONSTANTS r1, r2
=============================================================================
