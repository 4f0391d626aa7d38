-------------------------- MODULE ReliableDelivery ---------------------------
(***************************************************************************)
(* What one direction of a gameplay link promises to the group layer: the  *)
(* messages a sender accepted are dispatched at the other end in the order *)
(* they were accepted, each of them once.  Messages are numbered in the    *)
(* order of acceptance.  PeerChannel implements this module twice, once    *)
(* per direction.                                                          *)
(***************************************************************************)
EXTENDS Naturals, Sequences

VARIABLES accepted,    \* how many messages the sender has taken
          dispatched   \* the messages handed up at the receiver, oldest first

vars == <<accepted, dispatched>>

(* The connect establish is queued when the link is made. *)
Init == accepted = 1 /\ dispatched = <<>>

(* The sender takes one more message. *)
Accept == accepted' = accepted + 1 /\ UNCHANGED dispatched

(* The receiver hands up the next messages, as many as have arrived. *)
Dispatch ==
    /\ \E n \in Len(dispatched) + 1 .. accepted :
           dispatched' = [k \in 1..n |-> k]
    /\ UNCHANGED accepted

Next == Accept \/ Dispatch

Spec == Init /\ [][Next]_vars
=============================================================================
