----------------------------- MODULE CycleBuffer -----------------------------
(***************************************************************************)
(* ArrayBuffer, the ring of bytes a connection may use instead of a        *)
(* ListBuffer.  Its operations are operators on the object's fields; one   *)
(* byte always stays unused, or full and empty would look the same.        *)
(***************************************************************************)
EXTENDS Integers, Sequences

CONSTANTS
  CycleBufferSize,
  Indeterminate     \* what new uint8_t[n] leaves in the bytes

SizeAssumption == CycleBufferSize \in Nat \ {0}

Index == 0 .. CycleBufferSize - 1

ArrayBuffer ==
  [buffer_ |-> [i \in Index |-> Indeterminate],
   writeIndex_ |-> 0, readIndex_ |-> 0]

(* addWriteIndex, addReadIndex.                                            *)
Wrap(i) == IF i >= CycleBufferSize THEN i - CycleBufferSize ELSE i

(* The bytes that can be written from writeIndex_ on, and then from 0.     *)
usablePart1(q) ==
  IF q.writeIndex_ < q.readIndex_ THEN q.readIndex_ - q.writeIndex_ - 1
  ELSE IF q.readIndex_ = 0 THEN CycleBufferSize - q.writeIndex_ - 1
  ELSE CycleBufferSize - q.writeIndex_

usablePart2(q) ==
  IF q.writeIndex_ < q.readIndex_ \/ q.readIndex_ = 0 THEN 0
  ELSE q.readIndex_ - 1

usableSize(q) == usablePart1(q) + usablePart2(q)

(* The bytes that can be read from readIndex_ on, and then from 0.         *)
readPart1(q) ==
  IF q.writeIndex_ >= q.readIndex_ THEN q.writeIndex_ - q.readIndex_
  ELSE CycleBufferSize - q.readIndex_

readPart2(q) == IF q.writeIndex_ >= q.readIndex_ THEN 0 ELSE q.writeIndex_

readSize(q) == readPart1(q) + readPart2(q)

(* std::copy into the array, and out of it.                                *)
Store(b, at, d) ==
  [i \in Index |-> IF at <= i /\ i < at + Len(d) THEN d[i - at + 1] ELSE b[i]]

Load(b, at, n) == [k \in 1 .. n |-> b[at + k - 1]]

(* A slip: the second part starts one byte late.                           *)
StoreBothLate(q, d) ==
  LET p == usablePart1(q)
  IN  IF p >= Len(d) THEN Store(q.buffer_, q.writeIndex_, d)
      ELSE Store(Store(q.buffer_, q.writeIndex_, SubSeq(d, 1, p)),
                 1, SubSeq(d, p + 1, Len(d)))

StoreBoth(q, d) ==
  LET p == usablePart1(q)
  IN  IF p >= Len(d) THEN Store(q.buffer_, q.writeIndex_, d)
      ELSE Store(Store(q.buffer_, q.writeIndex_, SubSeq(d, 1, p)),
                 0, SubSeq(d, p + 1, Len(d)))

(* It returns -1 when there is no room; nobody looks at that.              *)
append(q, d) ==
  IF usableSize(q) < Len(d) THEN q
  ELSE [buffer_ |-> StoreBoth(q, d),
        writeIndex_ |-> Wrap(q.writeIndex_ + Len(d)),
        readIndex_ |-> q.readIndex_]

(* The bytes it appends to its argument; none when n is too much.          *)
readBufferN(q, n) ==
  IF n > readSize(q) THEN <<>>
  ELSE IF n <= readPart1(q) THEN Load(q.buffer_, q.readIndex_, n)
  ELSE Load(q.buffer_, q.readIndex_, readPart1(q))
         \o Load(q.buffer_, 0, n - readPart1(q))

clearBufferN(q, n) ==
  [q EXCEPT !.readIndex_ = Wrap(@ + IF n > readSize(q) THEN readSize(q) ELSE n)]

(***************************************************************************)
(* What the ring stands for: the bytes from readIndex_ on, as many as were *)
(* appended and not cleared.                                               *)
(***************************************************************************)
Content(q) ==
  [k \in 1 .. readSize(q) |-> q.buffer_[Wrap(q.readIndex_ + k - 1)]]

=============================================================================
