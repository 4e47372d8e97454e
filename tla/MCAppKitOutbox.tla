--------------------------- MODULE MCAppKitOutbox ---------------------------
(* Small instances of AppKitOutbox. *)
EXTENDS AppKitOutbox, TLC

PacketSymmetry == Permutations(Packet)
=============================================================================
