--------------------------- MODULE MCPacketFraming --------------------------
(***************************************************************************)
(* Bytes below 8 with the head at 6 and the end at 7, three bytes of       *)
(* fields.  The packets make the scan ambiguous on purpose: one is as long *)
(* as the head byte's value, one contains head and end bytes.              *)
(***************************************************************************)
EXTENDS PacketFraming

SmallData == {<<1, 2, 3>>, <<6, 1, 7, 0>>, <<6, 6, 0, 7, 7, 1>>}

=============================================================================
