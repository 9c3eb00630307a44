---------------------------- MODULE PacketStream ----------------------------
(***************************************************************************)
(* What a connection promises to the programs at its two ends, and what    *)
(* module Network takes for granted: packets arrive whole, each once, in   *)
(* the order they were written; one read may bring none, one or several.   *)
(***************************************************************************)
EXTENDS Sequences, SequencesExt

CONSTANTS Data, MaxPackets

VARIABLES sent, received

Init == sent = <<>> /\ received = <<>>

Send ==
  /\ Len(sent) < MaxPackets
  /\ \E d \in Data : sent' = Append(sent, d)
  /\ UNCHANGED received

Deliver ==
  /\ IsPrefix(received, received')
  /\ IsPrefix(received', sent)
  /\ UNCHANGED sent

Next == Send \/ Deliver

Spec == Init /\ [][Next]_<<sent, received>>

=============================================================================
