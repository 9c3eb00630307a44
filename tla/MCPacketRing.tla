---------------------------- MODULE MCPacketRing ----------------------------
(***************************************************************************)
(* The packets of MCPacketFraming, and a ring that is just long enough.    *)
(***************************************************************************)
EXTENDS PacketRing

SmallData == {<<1, 2, 3>>, <<6, 1, 7, 0>>, <<6, 6, 0, 7, 7, 1>>}

=============================================================================
