------------------------------- MODULE MCPool -------------------------------
(* Two nodes with a broker of their own each, and a worker in between.     *)
EXTENDS WorkerPool, TLC

CONSTANTS n1, n2, b1, b2, w1, coding, writing

TwoBrokers == (n1 :> b1) @@ (n2 :> b2)
FallbackFirst == (w1 :> n1)
MidRange      == (w1 :> 8)
Codes         == (w1 :> {coding})
=============================================================================
