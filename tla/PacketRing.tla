----------------------------- MODULE PacketRing -----------------------------
(***************************************************************************)
(* Two readers of the same bytes in the same reads: that of PacketFraming, *)
(* whose buffer is a list, and one whose buffer is a ring.                 *)
(***************************************************************************)
EXTENDS PacketFraming

CONSTANTS
  CycleBufferSize,
  MaxRead           \* the longest read

Ring == INSTANCE CycleBuffer WITH Indeterminate <- -1

RingReader ==
  INSTANCE ReadFromBuffer
    WITH readSize <- Ring!readSize, readBufferN <- Ring!readBufferN,
         clearBufferN <- Ring!clearBufferN

(* Room for a whole read and an incomplete packet, and one byte unused.    *)
RingAssumption ==
  /\ Ring!SizeAssumption
  /\ MaxRead \in Nat
  /\ \A d \in Data : CycleBufferSize >= MaxRead + Len(pack(d))

ASSUME RingAssumption

VARIABLES
  ring_,          \* the second reader's ArrayBuffer
  ringReceived    \* history: the packets it has handed over

ringVars == <<vars, ring_, ringReceived>>

RingInit ==
  /\ Init
  /\ ring_ = Ring!ArrayBuffer
  /\ ringReceived = <<>>

RingWrite(d) == Write(d) /\ UNCHANGED <<ring_, ringReceived>>

RingOnMessage(n) ==
  /\ n <= MaxRead
  /\ OnMessage(n)
  /\ IF n < HEADLENGTH THEN UNCHANGED <<ring_, ringReceived>>
     ELSE LET s == RingReader!readPackets(Ring!append(ring_, SubSeq(wire, 1, n)))
          IN  ring_' = s.buf /\ ringReceived' = ringReceived \o s.out

RingNext ==
  \/ \E d \in Data : RingWrite(d)
  \/ \E n \in 1 .. Len(wire) : RingOnMessage(n)

RingSpec == RingInit /\ [][RingNext]_ringVars

(***************************************************************************)
(* Properties.                                                             *)
(***************************************************************************)
(* A ring with room for a read and an incomplete packet never refuses      *)
(* bytes (nobody would notice): its reader is a reader with a list that    *)
(* holds what the ring does, however often it has wrapped.                 *)
ListReader ==
  INSTANCE PacketFraming
    WITH buffer_ <- Ring!Content(ring_), received <- ringReceived
RingImplementsList == ListReader!Spec

=============================================================================
