------------------------------ MODULE Placement ------------------------------
(***************************************************************************)
(* What the control plane promises, with no monitor, groups or solver in   *)
(* sight: every key (access network, video) is routed to the origin or to  *)
(* an edge node that stores the video, and a node stores at most Capacity  *)
(* videos and never drops one.                                             *)
(***************************************************************************)
EXTENDS Integers, FiniteSets

CONSTANTS Keys,      \* pairs <<network, video>>
          Contents,  \* videos
          Nodes,     \* edge nodes
          Origin,    \* address of the origin server, which stores everything
          Addr,      \* Addr[n]: address of node n
          Capacity   \* Capacity[n]: videos n can store

VARIABLES where,   \* where[k]: address that serves key k
          stored   \* stored[n]: videos stored at node n

vars == <<where, stored>>

Init ==
  /\ where = [k \in Keys |-> Origin]
  /\ stored = [n \in Nodes |-> {}]

\* Key k is moved to node n, which stores the video from now on.
Place(k, n) ==
  /\ stored' = [stored EXCEPT ![n] = @ \cup {k[2]}]
  /\ Cardinality(stored'[n]) <= Capacity[n]
  /\ where' = [where EXCEPT ![k] = Addr[n]]

Next == \E k \in Keys, n \in Nodes : Place(k, n)

Spec == Init /\ [][Next]_vars
=============================================================================
