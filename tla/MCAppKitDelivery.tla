-------------------------- MODULE MCAppKitDelivery --------------------------
(* Small instances of AppKitDelivery. *)
EXTENDS AppKitDelivery, TLC

PacketSymmetry == Permutations(Packet)
=============================================================================
