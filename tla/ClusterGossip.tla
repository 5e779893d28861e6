--------------------------- MODULE ClusterGossip ---------------------------
(***************************************************************************)
(* What a cluster of leader-eligible nodes knows of its members, without   *)
(* leaders, elections, time-outs, files or caches: each node has one       *)
(* record of when every node was last heard from, which it posts to others *)
(* and into which it merges what is posted to it, heartbeat by heartbeat.  *)
(***************************************************************************)
EXTENDS Naturals

CONSTANTS Node, ClusterId, NoCluster

VARIABLES clock,
          up,       \* is the node running
          cluster,  \* the cluster it is a member of
          heard,    \* when it last heard from each node
          letters   \* the records on their way

Never == [m \in Node |-> 0]

Later(s, t) == IF s > t THEN s ELSE t

Merged(mine, yours) == [m \in Node |-> Later(mine[m], yours[m])]

Pass ==
    /\ clock' = clock + 1
    /\ UNCHANGED <<up, cluster, heard, letters>>

Beat(n) ==
    /\ up[n]
    /\ heard' = [heard EXCEPT ![n][n] = clock]
    /\ UNCHANGED <<clock, up, cluster, letters>>

\* A new cluster, which nobody can have heard of.
Found(n, id) ==
    /\ up[n] /\ cluster[n] = NoCluster
    /\ \A m \in Node : cluster[m] # id
    /\ \A letter \in letters : letter.cluster # id
    /\ cluster' = [cluster EXCEPT ![n] = id]
    /\ heard'   = [heard   EXCEPT ![n][n] = clock]
    /\ UNCHANGED <<clock, up, letters>>

\* A node presents itself to another, which may leave open when it did.
Meet(n, newcomer, at) ==
    /\ up[n] /\ up[newcomer] /\ newcomer # n
    /\ at \in {0, clock}
    /\ heard' = [heard EXCEPT ![n][newcomer] = Later(@, at)]
    /\ UNCHANGED <<clock, up, cluster, letters>>

Post(n, receivers) ==
    /\ up[n] /\ cluster[n] # NoCluster
    /\ letters' = letters \cup {[to |-> m, cluster |-> cluster[n], heard |-> heard[n]] :
                                   m \in receivers}
    /\ UNCHANGED <<clock, up, cluster, heard>>

\* Two nodes may have posted the same.
Receive(letter) ==
    /\ up[letter.to] /\ cluster[letter.to] \in {NoCluster, letter.cluster}
    /\ cluster' = [cluster EXCEPT ![letter.to] = letter.cluster]
    /\ heard'   = [heard   EXCEPT ![letter.to] = Merged(@, letter.heard)]
    /\ letters' \in {letters, letters \ {letter}}
    /\ UNCHANGED <<clock, up>>

\* Lost on the way, or refused by a member of another cluster.
Lose ==
    /\ letters' \subseteq letters
    /\ UNCHANGED <<clock, up, cluster, heard>>

\* A node forgets everything or nothing.
Crash(n) ==
    /\ up[n]
    /\ up' = [up EXCEPT ![n] = FALSE]
    /\ \/ UNCHANGED <<cluster, heard>>
       \/ /\ cluster' = [cluster EXCEPT ![n] = NoCluster]
          /\ heard'   = [heard   EXCEPT ![n] = Never]
    /\ UNCHANGED <<clock, letters>>

Restart(n) ==
    /\ ~up[n]
    /\ up'    = [up    EXCEPT ![n] = TRUE]
    /\ heard' = [heard EXCEPT ![n][n] = clock]
    /\ UNCHANGED <<clock, cluster, letters>>

Init ==
    /\ clock \in Nat
    /\ up = [n \in Node |-> TRUE]
    /\ cluster \in [Node -> ClusterId \cup {NoCluster}]
    /\ heard \in [Node -> [Node -> {0, clock}]]
    /\ letters = {}

Next ==
    \/ Pass \/ Lose
    \/ \E n \in Node : \/ Beat(n) \/ Crash(n) \/ Restart(n)
                       \/ \E id \in ClusterId : Found(n, id)
                       \/ \E m \in Node, at \in {0, clock} : Meet(n, m, at)
                       \/ \E receivers \in SUBSET Node : Post(n, receivers)
    \/ \E letter \in letters : Receive(letter)

Spec == Init /\ [][Next]_<<clock, up, cluster, heard, letters>>
=============================================================================
