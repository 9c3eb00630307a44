---------------------------- MODULE PacketFraming ---------------------------
(***************************************************************************)
(* How the bytes of one direction of a connection become packets again:    *)
(* Packet::pack at the writer, and at the reader the OnMessage handler of  *)
(* every program, a ListBuffer and Packet::readFromBuffer (module          *)
(* ReadFromBuffer).  TCP delivers the bytes in order and cuts them into    *)
(* reads as it likes.                                                      *)
(***************************************************************************)
EXTENDS Integers, Sequences, SequencesExt

CONSTANTS
  Base,               \* a byte is a number below Base (256)
  HeadByte, EndByte,  \* 0x7e, 0xe7
  HEADLENGTH,         \* the length of the fields in front of the data (26)
  Data,               \* what packets contain, those fields included
  MinRead,            \* the shortest read TCP makes (a bound)
  MaxPackets          \* packets written in all (a bound)

Byte == 0 .. Base - 1

FramingAssumption ==
  /\ Base \in Nat \ {0, 1}
  /\ HeadByte \in Byte /\ EndByte \in Byte
  /\ HEADLENGTH \in Nat
  /\ \A d \in Data : /\ d \in Seq(Byte)
                     /\ Len(d) >= HEADLENGTH
                     /\ Len(d) + 4 < Base * Base
  /\ MinRead \in Nat \ {0}
  /\ MaxPackets \in Nat

ASSUME FramingAssumption

VARIABLES
  wire,       \* bytes written and not yet read
  buffer_,    \* the reader's ListBuffer
  sent,       \* history: the packets written
  received    \* history: the packets handed to ProcessRecvMessage

vars == <<wire, buffer_, sent, received>>

Init == wire = <<>> /\ buffer_ = <<>> /\ sent = <<>> /\ received = <<>>

(***************************************************************************)
(* Writing.                                                                *)
(***************************************************************************)
(* PackNum of a uint16_t, little endian.                                   *)
PackNum(n) == <<n % Base, n \div Base>>

pack(d) == <<HeadByte>> \o PackNum(Len(d)) \o d \o <<EndByte>>

Write(d) ==
  /\ Len(sent) < MaxPackets
  /\ sent' = Append(sent, d)
  /\ wire' = wire \o pack(d)
  /\ UNCHANGED <<buffer_, received>>

(***************************************************************************)
(* Reading.                                                                *)
(***************************************************************************)
(* The list's operations.                                                  *)
readSize(buf) == Len(buf)

clearBufferN(buf, n) == SubSeq(buf, n + 1, Len(buf))

(* Nothing is read when fewer than n bytes are there.                      *)
readBufferN(buf, n) == IF n > Len(buf) THEN <<>> ELSE SubSeq(buf, 1, n)

Reader == INSTANCE ReadFromBuffer

(* BBU::OnMessage and the clients' RecvMessage: a read of n bytes; one     *)
(* shorter than HEADLENGTH is thrown away.                                 *)
OnMessage(n) ==
  /\ n >= MinRead
  /\ wire' = clearBufferN(wire, n)
  /\ IF n < HEADLENGTH THEN UNCHANGED <<buffer_, received>>
     ELSE LET s == Reader!readPackets(buffer_ \o SubSeq(wire, 1, n))
          IN  buffer_' = s.buf /\ received' = received \o s.out
  /\ UNCHANGED sent

Next ==
  \/ \E d \in Data : Write(d)
  \/ \E n \in 1 .. Len(wire) : OnMessage(n)

Spec == Init /\ [][Next]_vars

(***************************************************************************)
(* Properties.                                                             *)
(***************************************************************************)
(* The streams are bytes, and only packets that can be written are handed  *)
(* over.                                                                   *)
TypeOK ==
  /\ wire \in Seq(Byte)
  /\ buffer_ \in Seq(Byte)
  /\ sent \in Seq(Data)
  /\ received \in Seq(Data)

Undelivered == SubSeq(sent, Len(received) + 1, Len(sent))

Frames(q) == FlattenSeq([i \in DOMAIN q |-> pack(q[i])])

(* However the bytes are cut into reads, what is buffered and on the way   *)
(* is exactly the packets not yet handed over: readFromBuffer skips no     *)
(* byte and never takes a length or a text byte for a head.                *)
BytesAccounted == buffer_ \o wire = Frames(Undelivered)

(* No packet is left waiting in the buffer for a later read: when several  *)
(* arrive stuck together they are all handed over at once.                 *)
NothingWithheld ==
  Undelivered # <<>> => Len(buffer_) < Len(pack(Undelivered[1]))

(* The handlers see what PacketStream promises, as Network assumes.        *)
Stream == INSTANCE PacketStream WITH sent <- sent, received <- received
ImplementsStream == Stream!Spec

(* Task.md:55, "the BBU's sticking and incomplete messages are solved":    *)
(* what the handlers see is the packets sent, whatever the reads.          *)
StickingSolved == IsPrefix(received, sent)

=============================================================================
