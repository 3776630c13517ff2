-------------------------- MODULE MCPendingDelivery --------------------------
(* Instances of PendingDelivery for TLC: two runs of one session, which can
   overlap once the first is stopped, and a message from elsewhere. *)
EXTENDS PendingDelivery

CONSTANTS s1, s2, a1, a2

MCSessionOf == [r \in Runs |-> s1]
MCActorOf == [r \in Runs |-> a1]
=============================================================================
