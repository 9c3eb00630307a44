--------------------------- MODULE ReadFromBuffer ---------------------------
(***************************************************************************)
(* Packet::readFromBuffer and the loop around it, for any PacketBuffer:    *)
(* its operations are parameters, as they are virtual in the code.         *)
(***************************************************************************)
EXTENDS Integers, Sequences, SequencesExt

CONSTANTS
  Base, HeadByte, EndByte,
  readSize(_),          \* the number of bytes in a buffer
  readBufferN(_, _),    \* the first n of them, none when there are fewer
  clearBufferN(_, _)    \* the buffer without them

PacketMinSize == 4

(* Of a uint16_t, little endian.                                           *)
UnpackNum(b) == b[1] + Base * b[2]

(* Slips: the last byte is not waited for; the packet keeps it; the buffer *)
(* loses a byte too many; one packet a read.                               *)
EarlyIncomplete(buf, dataSize) ==
  readSize(buf) + 1 < (dataSize + PacketMinSize) % (Base * Base)

FoundWithEnd(s, rest, packet) ==
  [buf |-> rest, data |-> <<>>, done |-> FALSE,
   out |-> Append(s.out, SubSeq(packet, 4, Len(packet)))]

FoundTakesMore(s, rest, packet) ==
  [buf |-> clearBufferN(rest, 1), data |-> <<>>, done |-> FALSE,
   out |-> Append(s.out, SubSeq(packet, 4, Len(packet) - 1))]

FoundStops(s, rest, packet) ==
  [buf |-> rest, data |-> <<>>, done |-> TRUE,
   out |-> Append(s.out, SubSeq(packet, 4, Len(packet) - 1))]

(* msgsize is a uint16_t too.                                              *)
Incomplete(buf, dataSize) ==
  readSize(buf) < (dataSize + PacketMinSize) % (Base * Base)

(* A packet is found: swap and getData take what lies between its length   *)
(* and its last byte, and readFromBuffer is called again.                  *)
Found(s, rest, packet) ==
  [buf |-> rest, data |-> <<>>, done |-> FALSE,
   out |-> Append(s.out, SubSeq(packet, 4, Len(packet) - 1))]

(* One round of the loop in readFromBuffer on the bytes left, its variable *)
(* data and the packets found so far.  After a wrong last byte data keeps  *)
(* what it holds.                                                          *)
Round(s) ==
  LET data == s.data \o readBufferN(s.buf, 3)
      dataSize == UnpackNum(Tail(data))
      rest == clearBufferN(s.buf, 3)
      packet == data \o readBufferN(rest, dataSize + 1)
  IN  IF s.done \/ readSize(s.buf) < PacketMinSize
        THEN [s EXCEPT !.done = TRUE]
      ELSE IF data[1] # HeadByte
        THEN [s EXCEPT !.buf = clearBufferN(s.buf, 1), !.data = <<>>]
      ELSE IF Incomplete(s.buf, dataSize) THEN [s EXCEPT !.done = TRUE]
      ELSE IF Last(packet) = EndByte
        THEN Found(s, clearBufferN(rest, dataSize + 1), packet)
      ELSE [s EXCEPT !.buf = rest, !.data = packet]

(* while (0 == readPacket(packet)): every round but the last takes a byte. *)
readPackets(buf) ==
  LET after[n \in 0 .. readSize(buf) + 1] ==
        IF n = 0 THEN [buf |-> buf, data |-> <<>>, done |-> FALSE, out |-> <<>>]
        ELSE Round(after[n - 1])
  IN  after[readSize(buf) + 1]

=============================================================================
