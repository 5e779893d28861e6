------------------------------ MODULE MCClient ------------------------------
(* Two nodes and a few people at a time, who do what gets in each other's  *)
(* way.                                                                    *)
EXTENDS WebClient, TLC

CONSTANTS n1, n2, c1, c2, c3, t1, t2, ann, bob

Asks(op, address, tab) == [op |-> op, address |-> address, tab |-> tab]

SameAddress == (c1 :> Asks("signup", ann, t1)) @@ (c2 :> Asks("signup", ann, t2))
OneAlone    == {c1 :> Asks("ask", bob, t1), c1 :> Asks("stream", bob, t1)}
ThenLogin   == {SameAddress @@ (c3 :> Asks("login", ann, t1))}
InTheWay    == {SameAddress}
               \cup {(c1 :> Asks(op, bob, t1)) @@ (c2 :> Asks("delete", bob, t1)) :
                        op \in {"role", "login"}}

Encounters == OneAlone \cup InTheWay \cup ThenLogin

Mishaps == [s \in Encounters |-> CASE s \in OneAlone -> 3
                                   [] s \in InTheWay -> 1
                                   [] OTHER          -> 0]
=============================================================================
