-------------------------- MODULE MCEdgeController --------------------------
(* A small instance of EdgeController: two access networks, two videos, two *)
(* edge servers of capacity 1 and 2.  u1 and u2 share a group; u3 shares    *)
(* only their network and u4 only their video.                              *)
EXTENDS EdgeController

CONSTANTS u1, u2, u3, u4, netA, netB, v1, v2, e1, e2, cloud, none

MCUsers     == {u1, u2, u3, u4}
MCNetOf     == [u \in MCUsers |-> IF u = u4 THEN netB ELSE netA]
MCContentOf == [u \in MCUsers |-> IF u = u3 THEN v2 ELSE v1]
MCNodes     == {e1, e2}
MCIpOf      == [n \in {e1, e2, cloud} |-> <<"ip", n>>]
MCCapacity  == [n \in MCNodes |-> IF n = e1 THEN 1 ELSE 2]
=============================================================================
