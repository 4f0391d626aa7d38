---------------------------- MODULE MCPeerChannel ----------------------------
(***************************************************************************)
(* Instances of PeerChannel for TLC.  The moduli keep the proportions of   *)
(* the code (packet ring within the packet space, receive window within    *)
(* the message space), at small sizes at which heads and bases wrap.       *)
(***************************************************************************)
EXTENDS PeerChannel

(* Messages of one record, and messages that have to be reassembled.       *)
Single == {1}
Split == {2}
=============================================================================
