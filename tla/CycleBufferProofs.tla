-------------------------- MODULE CycleBufferProofs --------------------------
(***************************************************************************)
(* ArrayBuffer for every CycleBufferSize: whatever its indexes are, its    *)
(* operations do to its content what ListBuffer's do to a list.            *)
(***************************************************************************)
EXTENDS CycleBuffer, SequenceTheorems, TLAPS

(* The states of the object: a byte of S in each place, both indexes in it.*)
BufferOf(S) == [buffer_ : [Index -> S], writeIndex_ : Index, readIndex_ : Index]

LEMMA Fields ==
  ASSUME SizeAssumption, NEW S, NEW q \in BufferOf(S)
  PROVE  /\ CycleBufferSize \in Nat \ {0}
         /\ q.buffer_ \in [Index -> S]
         /\ q.writeIndex_ \in 0 .. CycleBufferSize - 1
         /\ q.readIndex_ \in 0 .. CycleBufferSize - 1
  BY DEF SizeAssumption, BufferOf, Index

(* The two parts that can be read, and those that can be written, fill the *)
(* array but for one byte: append and readSize never disagree.             *)
THEOREM SizesAddUp ==
  ASSUME SizeAssumption, NEW S, NEW q \in BufferOf(S)
  PROVE  /\ readSize(q) \in 0 .. CycleBufferSize - 1
         /\ usableSize(q) = CycleBufferSize - 1 - readSize(q)
  BY Fields
  DEF readSize, readPart1, readPart2, usableSize, usablePart1, usablePart2

(* A new object is one of these, whatever its bytes are, and empty.        *)
THEOREM NewContent ==
  ASSUME SizeAssumption, NEW S, Indeterminate \in S
  PROVE  ArrayBuffer \in BufferOf(S) /\ Content(ArrayBuffer) = <<>>
<1>1. ArrayBuffer \in BufferOf(S)
  BY DEF SizeAssumption, ArrayBuffer, BufferOf, Index
<1>2. readSize(ArrayBuffer) = 0
  BY DEF ArrayBuffer, readSize, readPart1, readPart2
<1>3. Content(ArrayBuffer) = [k \in 1 .. 0 |->
                                ArrayBuffer.buffer_[Wrap(ArrayBuffer.readIndex_ + k - 1)]]
  BY <1>2 DEF Content
<1>4. QED
  BY <1>1, <1>3

(* The indexes are inside the array and the content is bytes.              *)
LEMMA ContentType ==
  ASSUME SizeAssumption, NEW S, NEW q \in BufferOf(S)
  PROVE  /\ \A k \in 1 .. readSize(q) : Wrap(q.readIndex_ + k - 1) \in Index
         /\ Content(q) \in Seq(S) /\ Len(Content(q)) = readSize(q)
         /\ \A k \in 1 .. readSize(q) :
               Content(q)[k] = q.buffer_[Wrap(q.readIndex_ + k - 1)]
<1> DEFINE n == readSize(q)
<1>1. n \in 0 .. CycleBufferSize - 1
  BY SizesAddUp
<1>2. \A k \in 1 .. n : Wrap(q.readIndex_ + k - 1) \in Index
  BY <1>1, Fields DEF Wrap, Index
<1> HIDE DEF n
<1>3. \A k \in 1 .. n : q.buffer_[Wrap(q.readIndex_ + k - 1)] \in S
  BY <1>2, Fields
<1>4. Content(q) = [k \in 1 .. n |-> q.buffer_[Wrap(q.readIndex_ + k - 1)]]
  BY DEF Content, n
<1>5. Content(q) \in [1 .. n -> S] /\ n \in Nat
  BY <1>1, <1>3, <1>4
<1>6. Content(q) \in Seq(S) /\ Len(Content(q)) = n
  BY <1>5
<1>7. QED
  BY <1>2, <1>4, <1>6 DEF n

(* Counting round the array of N places: of what is n places from r and    *)
(* ends at w, place k is not one of the m places from w on if k is at most *)
(* n, and is place k - n of those if it is more.                           *)
LEMMA OldPlace ==
  ASSUME NEW N \in Nat, NEW w \in Nat, NEW r \in Nat, NEW m \in Nat,
         NEW n \in Nat, NEW k \in Nat, NEW i \in Nat,
         w < N, r < N, n + m < N, 1 <= k, k <= n,
         n = IF w >= r THEN w - r ELSE N - r + w,
         i = IF r + k - 1 >= N THEN r + k - 1 - N ELSE r + k - 1
  PROVE  ~(w <= i /\ i < w + m) /\ ~(i + N < w + m)
<1>1. CASE w >= r
  BY <1>1
<1>2. CASE ~(w >= r) /\ r + k - 1 >= N
  BY <1>2
<1>3. CASE ~(w >= r) /\ ~(r + k - 1 >= N)
  BY <1>3
<1>4. QED
  BY <1>1, <1>2, <1>3

LEMMA NewPlace ==
  ASSUME NEW N \in Nat, NEW w \in Nat, NEW r \in Nat, NEW m \in Nat,
         NEW n \in Nat, NEW k \in Nat, NEW i \in Nat,
         w < N, r < N, n + m < N, n < k, k <= n + m,
         n = IF w >= r THEN w - r ELSE N - r + w,
         i = IF r + k - 1 >= N THEN r + k - 1 - N ELSE r + k - 1
  PROVE  \/ w <= i /\ i < w + m /\ i - w + 1 = k - n
         \/ ~(w <= i) /\ i + N < w + m /\ i + N - w + 1 = k - n
<1>1. CASE w >= r /\ r + k - 1 >= N
  BY <1>1
<1>2. CASE w >= r /\ ~(r + k - 1 >= N)
  BY <1>2
<1>3. CASE ~(w >= r)
  BY <1>3
<1>4. QED
  BY <1>1, <1>2, <1>3

(***************************************************************************)
(* append.                                                                 *)
(***************************************************************************)
(* The bytes of d are written from writeIndex_ on and, behind the end of   *)
(* the array, from its start; no other byte changes.                       *)
LEMMA StoredBytes ==
  ASSUME SizeAssumption, NEW S, NEW q \in BufferOf(S), NEW d \in Seq(S),
         Len(d) <= usableSize(q), NEW i \in Index
  PROVE  StoreBoth(q, d)[i] =
           IF q.writeIndex_ <= i /\ i < q.writeIndex_ + Len(d)
             THEN d[i - q.writeIndex_ + 1]
           ELSE IF i + CycleBufferSize < q.writeIndex_ + Len(d)
             THEN d[i + CycleBufferSize - q.writeIndex_ + 1]
           ELSE q.buffer_[i]
<1> DEFINE N == CycleBufferSize
           w == q.writeIndex_
           r == q.readIndex_
           m == Len(d)
           p == usablePart1(q)
<1>1. /\ N \in Nat \ {0} /\ w \in 0 .. N - 1 /\ r \in 0 .. N - 1 /\ m \in Nat
      /\ i \in 0 .. N - 1
  BY Fields DEF Index
<1>2. p \in Nat /\ w + p <= N
  BY <1>1 DEF usablePart1
<1>3. CASE p >= m
  <2>1. StoreBoth(q, d) = Store(q.buffer_, w, d)
    BY <1>3 DEF StoreBoth
  <2>2. ~(i + N < w + m)
    BY <1>1, <1>2, <1>3
  <2>3. QED
    BY <2>1, <2>2 DEF Store
<1>4. CASE ~(p >= m)
  <2>1. p = N - w /\ m - p <= w
    BY <1>1, <1>4 DEF usableSize, usablePart1, usablePart2
  <2> DEFINE first == SubSeq(d, 1, p)
             second == SubSeq(d, p + 1, m)
  <2>2. /\ Len(first) = p /\ Len(second) = m - p
        /\ \A k \in 1 .. p : first[k] = d[k]
        /\ \A k \in 1 .. m - p : second[k] = d[p + k]
    BY <1>1, <1>2, <1>4
  <2>3. StoreBoth(q, d) = Store(Store(q.buffer_, w, first), 0, second)
    BY <1>4 DEF StoreBoth
  <2> HIDE DEF first, second, p
  <2>4. StoreBoth(q, d)[i] =
          IF 0 <= i /\ i < 0 + Len(second) THEN second[i - 0 + 1]
          ELSE Store(q.buffer_, w, first)[i]
    BY <2>3 DEF Store
  <2>5. Store(q.buffer_, w, first)[i] =
          IF w <= i /\ i < w + Len(first) THEN first[i - w + 1] ELSE q.buffer_[i]
    BY DEF Store
  <2>6. CASE i < m - p
    <3>1. /\ i + 1 \in 1 .. m - p /\ ~(w <= i) /\ i + N < w + m
          /\ p + (i + 1) = i + N - w + 1
      <4> HIDE DEF N, w, m
      <4>1. /\ N \in Int /\ w \in Int /\ m \in Int /\ p \in Int /\ i \in Int
            /\ p = N - w /\ m - p <= w /\ 0 <= i /\ i < m - p
        BY <1>1, <1>2, <2>1, <2>6
      <4>2. QED
        BY <4>1
    <3>2. StoreBoth(q, d)[i] = second[i + 1]
      BY <1>1, <2>2, <2>4, <2>6
    <3>3. QED
      BY <2>2, <3>1, <3>2
  <2>7. CASE ~(i < m - p) /\ w <= i
    <3>1. i - w + 1 \in 1 .. p /\ i < w + p /\ i < w + m
      <4> HIDE DEF N, w, m
      <4>1. /\ N \in Int /\ w \in Int /\ m \in Int /\ p \in Int /\ i \in Int
            /\ p = N - w /\ p < m /\ i < N /\ w <= i
        BY <1>1, <1>2, <1>4, <2>1, <2>7
      <4>2. QED
        BY <4>1
    <3>2. QED
      BY <1>1, <2>2, <2>4, <2>5, <2>7, <3>1
  <2>8. CASE ~(i < m - p) /\ ~(w <= i)
    <3>1. ~(i + N < w + m)
      BY <1>1, <1>2, <2>1, <2>8
    <3>2. QED
      BY <1>1, <2>2, <2>4, <2>5, <2>8, <3>1
  <2>9. QED
    BY <2>6, <2>7, <2>8
<1>5. QED
  BY <1>3, <1>4

(* Bytes that fit are put behind those that are there: none of these is    *)
(* overwritten, wherever the indexes are.                                  *)
THEOREM AppendContent ==
  ASSUME SizeAssumption, NEW S, NEW q \in BufferOf(S), NEW d \in Seq(S),
         readSize(q) + Len(d) < CycleBufferSize
  PROVE  /\ append(q, d) \in BufferOf(S)
         /\ Content(append(q, d)) = Content(q) \o d
<1> DEFINE N == CycleBufferSize
           w == q.writeIndex_
           r == q.readIndex_
           m == Len(d)
           n == readSize(q)
           a == append(q, d)
<1>1. /\ N \in Nat \ {0} /\ w \in 0 .. N - 1 /\ r \in 0 .. N - 1 /\ m \in Nat
      /\ n \in 0 .. N - 1 /\ n + m < N
  BY Fields, SizesAddUp
<1>2. m <= usableSize(q)
  BY <1>1, SizesAddUp
<1>3. a = [buffer_ |-> StoreBoth(q, d), writeIndex_ |-> Wrap(w + m),
           readIndex_ |-> r]
  BY <1>1, <1>2, SizesAddUp DEF append
<1>4. a.buffer_ = StoreBoth(q, d) /\ a.writeIndex_ = Wrap(w + m) /\ a.readIndex_ = r
  BY <1>3
<1>5. n = IF w >= r THEN w - r ELSE N - r + w
  BY <1>1 DEF readSize, readPart1, readPart2
<1>6. a \in BufferOf(S)
  <2>1. StoreBoth(q, d) \in [Index -> S]
    <3>1. StoreBoth(q, d) = [i \in Index |-> StoreBoth(q, d)[i]]
      BY DEF StoreBoth, Store
    <3>2. ASSUME NEW i \in Index
          PROVE  StoreBoth(q, d)[i] \in S
      <4>1. /\ i \in 0 .. N - 1 /\ q.buffer_[i] \in S
            /\ \A k \in 1 .. m : d[k] \in S
        BY Fields DEF Index
      <4>2. CASE w <= i /\ i < w + m
        <5>1. i - w + 1 \in 1 .. m
          BY <1>1, <4>1, <4>2
        <5>2. QED
          BY <1>2, <4>1, <4>2, <5>1, StoredBytes
      <4>3. CASE ~(w <= i /\ i < w + m) /\ i + N < w + m
        <5>1. i + N - w + 1 \in 1 .. m
          BY <1>1, <4>1, <4>3
        <5>2. QED
          BY <1>2, <4>1, <4>3, <5>1, StoredBytes
      <4>4. CASE ~(w <= i /\ i < w + m) /\ ~(i + N < w + m)
        BY <1>2, <4>1, <4>4, StoredBytes
      <4>5. QED
        BY <4>2, <4>3, <4>4
    <3>3. QED
      BY <3>1, <3>2
  <2>2. Wrap(w + m) \in Index
    BY <1>1 DEF Wrap, Index
  <2>3. r \in Index
    BY <1>1 DEF Index
  <2>4. QED
    BY <1>3, <2>1, <2>2, <2>3 DEF BufferOf
<1>7. readSize(a) = n + m
  <2>1. readSize(a) = IF Wrap(w + m) >= r THEN Wrap(w + m) - r
                      ELSE N - r + Wrap(w + m)
    BY <1>1, <1>4 DEF readSize, readPart1, readPart2, Wrap
  <2> HIDE DEF a, n
  <2>2. QED
    BY <1>1, <1>5, <2>1 DEF Wrap
<1> HIDE DEF a
<1>8. /\ Content(a) \in Seq(S) /\ Len(Content(a)) = n + m
      /\ \A k \in 1 .. n + m : Content(a)[k] = StoreBoth(q, d)[Wrap(r + k - 1)]
  BY <1>4, <1>6, <1>7, ContentType
<1>9. /\ Content(q) \in Seq(S) /\ Len(Content(q)) = n
      /\ \A k \in 1 .. n : Content(q)[k] = q.buffer_[Wrap(r + k - 1)]
  BY ContentType
<1>10. /\ Content(q) \o d \in Seq(S) /\ Len(Content(q) \o d) = n + m
       /\ \A k \in 1 .. n + m :
            (Content(q) \o d)[k] = IF k <= n THEN Content(q)[k] ELSE d[k - n]
  <2> HIDE DEF n
  <2> DEFINE c == Content(q)
  <2>1. c \in Seq(S) /\ Len(c) = n /\ d \in Seq(S) /\ Len(d) = m
    BY <1>9
  <2> HIDE DEF c
  <2>2. QED
    BY <1>1, <2>1, ConcatProperties DEF c
<1>11. ASSUME NEW k \in 1 .. n + m
       PROVE  Content(a)[k] = (Content(q) \o d)[k]
  <2> DEFINE at == Wrap(r + k - 1)
  <2>1. at \in 0 .. N - 1 /\ k \in Nat \ {0} /\ k <= n + m
    BY <1>1 DEF Wrap
  <2>2. at = IF r + k - 1 >= N THEN r + k - 1 - N ELSE r + k - 1
    BY <1>1 DEF Wrap, at
  <2>3. StoreBoth(q, d)[at] =
           IF w <= at /\ at < w + m THEN d[at - w + 1]
           ELSE IF at + N < w + m THEN d[at + N - w + 1]
           ELSE q.buffer_[at]
    BY <1>2, <2>1, StoredBytes DEF Index
  <2> HIDE DEF at, n
  <2>4. CASE k <= n
    <3>1. ~(w <= at /\ at < w + m) /\ ~(at + N < w + m)
      <4> HIDE DEF N, w, r, m
      <4>1. /\ N \in Nat /\ w \in Nat /\ r \in Nat /\ m \in Nat /\ n \in Nat
            /\ k \in Nat /\ at \in Nat /\ w < N /\ r < N /\ n + m < N /\ 1 <= k
        BY <1>1, <2>1
      <4>2. at = IF r + k - 1 >= N THEN r + k - 1 - N ELSE r + k - 1
        BY <2>2
      <4>3. n = IF w >= r THEN w - r ELSE N - r + w
        BY <1>5
      <4>4. QED
        BY <2>4, <4>1, <4>2, <4>3, OldPlace
    <3>2. StoreBoth(q, d)[at] = q.buffer_[at] /\ k \in 1 .. n
      BY <1>1, <2>1, <2>3, <2>4, <3>1
    <3>3. QED
      BY <1>8, <1>9, <1>10, <2>4, <3>2 DEF at
  <2>5. CASE ~(k <= n)
    <3>1. \/ w <= at /\ at < w + m /\ at - w + 1 = k - n
          \/ ~(w <= at) /\ at + N < w + m /\ at + N - w + 1 = k - n
      <4> HIDE DEF N, w, r, m
      <4>1. /\ N \in Nat /\ w \in Nat /\ r \in Nat /\ m \in Nat /\ n \in Nat
            /\ k \in Nat /\ at \in Nat /\ w < N /\ r < N /\ n + m < N
            /\ n < k /\ k <= n + m
        BY <1>1, <2>1, <2>5
      <4>2. at = IF r + k - 1 >= N THEN r + k - 1 - N ELSE r + k - 1
        BY <2>2
      <4>3. n = IF w >= r THEN w - r ELSE N - r + w
        BY <1>5
      <4>4. QED
        BY <4>1, <4>2, <4>3, NewPlace
    <3>2. StoreBoth(q, d)[at] = d[k - n]
      BY <2>3, <3>1
    <3>3. QED
      BY <1>8, <1>10, <2>5, <3>2 DEF at
  <2>6. QED
    BY <2>4, <2>5
<1>12. Content(a) = Content(q) \o d
  BY <1>8, <1>10, <1>11, SeqEqual
<1>13. QED
  BY <1>6, <1>12 DEF a

(* Bytes that do not fit are dropped, all of them.                         *)
THEOREM AppendRefuses ==
  ASSUME SizeAssumption, NEW S, NEW q \in BufferOf(S), NEW d \in Seq(S),
         readSize(q) + Len(d) >= CycleBufferSize
  PROVE  append(q, d) = q
<1>1. usableSize(q) < Len(d)
  BY Fields, SizesAddUp
<1>2. QED
  BY <1>1 DEF append

(***************************************************************************)
(* readBufferN and clearBufferN.                                           *)
(***************************************************************************)
(* What is read are the first n bytes of the content, also when they lie   *)
(* in two parts, and reading changes nothing.                              *)
THEOREM ReadContent ==
  ASSUME SizeAssumption, NEW S, NEW q \in BufferOf(S), NEW n \in 0 .. readSize(q)
  PROVE  readBufferN(q, n) = SubSeq(Content(q), 1, n)
<1> DEFINE N == CycleBufferSize
           w == q.writeIndex_
           r == q.readIndex_
           p == readPart1(q)
           c == Content(q)
<1>1. N \in Nat \ {0} /\ w \in 0 .. N - 1 /\ r \in 0 .. N - 1
  BY Fields
<1>2. readSize(q) \in 0 .. N - 1 /\ n \in Nat /\ n <= readSize(q)
  BY SizesAddUp
<1>3. c \in Seq(S) /\ Len(c) = readSize(q)
      /\ \A k \in 1 .. readSize(q) :
           Wrap(r + k - 1) \in Index /\ c[k] = q.buffer_[Wrap(r + k - 1)]
  BY ContentType
<1>4. p \in Nat /\ r + p <= N
  BY <1>1 DEF readPart1
<1>5. \A k \in 1 .. readSize(q) : q.buffer_[Wrap(r + k - 1)] \in S
  BY <1>3, Fields
<1> HIDE DEF c, p
<1>6. /\ SubSeq(c, 1, n) \in Seq(S) /\ Len(SubSeq(c, 1, n)) = n
      /\ \A k \in 1 .. n : SubSeq(c, 1, n)[k] = q.buffer_[Wrap(r + k - 1)]
  <2>1. SubSeq(c, 1, n) = [k \in 1 .. n |-> c[k]]
    BY <1>2, <1>3
  <2>2. \A k \in 1 .. n : c[k] \in S /\ c[k] = q.buffer_[Wrap(r + k - 1)]
    BY <1>2, <1>3, <1>5
  <2>3. SubSeq(c, 1, n) \in [1 .. n -> S]
    BY <2>1, <2>2
  <2>4. QED
    BY <1>2, <2>1, <2>2, <2>3
<1>7. CASE n <= p
  <2>1. readBufferN(q, n) = [k \in 1 .. n |-> q.buffer_[r + k - 1]]
    BY <1>2, <1>7 DEF readBufferN, Load, p
  <2>2. \A k \in 1 .. n : Wrap(r + k - 1) = r + k - 1
    BY <1>1, <1>2, <1>4, <1>7 DEF Wrap
  <2>3. \A k \in 1 .. n : q.buffer_[r + k - 1] \in S
    BY <1>2, <1>5, <2>2
  <2>4. readBufferN(q, n) \in Seq(S) /\ Len(readBufferN(q, n)) = n
    BY <1>2, <2>1, <2>3
  <2>5. \A k \in 1 .. n : readBufferN(q, n)[k] = SubSeq(c, 1, n)[k]
    BY <1>6, <2>1, <2>2
  <2>6. readBufferN(q, n) = SubSeq(c, 1, n)
    BY <1>6, <2>4, <2>5, SeqEqual
  <2>7. QED
    BY <2>6 DEF c
<1>8. CASE ~(n <= p)
  <2>1. p = N - r /\ p < n
    BY <1>1, <1>2, <1>8 DEF readSize, readPart1, readPart2, p
  <2> DEFINE first == [k \in 1 .. p |-> q.buffer_[r + k - 1]]
             second == [k \in 1 .. n - p |-> q.buffer_[0 + k - 1]]
  <2>2. readBufferN(q, n) = first \o second
    <3>1. ~(n > readSize(q)) /\ ~(n <= readPart1(q))
      BY <1>2, <1>8 DEF p
    <3>2. readBufferN(q, n) = Load(q.buffer_, r, p) \o Load(q.buffer_, 0, n - p)
      BY <3>1 DEF readBufferN, p
    <3>3. Load(q.buffer_, r, p) = first /\ Load(q.buffer_, 0, n - p) = second
      BY DEF Load
    <3>4. QED
      BY <3>2, <3>3
  <2>3. /\ \A k \in 1 .. p : Wrap(r + k - 1) = r + k - 1
        /\ \A k \in 1 .. n - p : Wrap(r + (p + k) - 1) = 0 + k - 1
    BY <1>1, <1>2, <1>4, <2>1 DEF Wrap
  <2>4. /\ \A k \in 1 .. p : q.buffer_[r + k - 1] \in S
        /\ \A k \in 1 .. n - p : q.buffer_[0 + k - 1] \in S
    BY <1>2, <1>4, <1>5, <2>1, <2>3
  <2>5. first \in Seq(S) /\ Len(first) = p
    BY <1>4, <2>4
  <2>6. second \in Seq(S) /\ Len(second) = n - p
    BY <1>2, <1>4, <2>1, <2>4
  <2>7. \A k \in 1 .. n : (IF k <= p THEN first[k] ELSE second[k - p])
                          = SubSeq(c, 1, n)[k]
    BY <1>2, <1>4, <1>6, <2>1, <2>3
  <2> HIDE DEF first, second
  <2>8. /\ first \o second \in Seq(S) /\ Len(first \o second) = n
        /\ \A k \in 1 .. n : (first \o second)[k]
                             = IF k <= p THEN first[k] ELSE second[k - p]
    <3>1. Len(first) + Len(second) = n
      BY <1>2, <1>4, <2>5, <2>6
    <3>2. QED
      BY <2>5, <2>6, <3>1, ConcatProperties
  <2>9. first \o second = SubSeq(c, 1, n)
    BY <1>6, <2>7, <2>8, SeqEqual
  <2>10. QED
    BY <2>2, <2>9 DEF c
<1>9. QED
  BY <1>7, <1>8

(* Clearing n bytes takes the first n from the content and leaves the      *)
(* rest in order.                                                          *)
THEOREM ClearContent ==
  ASSUME SizeAssumption, NEW S, NEW q \in BufferOf(S), NEW n \in 0 .. readSize(q)
  PROVE  /\ clearBufferN(q, n) \in BufferOf(S)
         /\ Content(clearBufferN(q, n)) = SubSeq(Content(q), n + 1, readSize(q))
<1> DEFINE N == CycleBufferSize
           w == q.writeIndex_
           r == q.readIndex_
           a == clearBufferN(q, n)
           c == Content(q)
           z == readSize(q)
<1>1. N \in Nat \ {0} /\ w \in 0 .. N - 1 /\ r \in 0 .. N - 1
  BY Fields
<1>2. z \in 0 .. N - 1 /\ n \in Nat /\ n <= z
  BY SizesAddUp
<1>3. z = IF w >= r THEN w - r ELSE N - r + w
  BY <1>1 DEF readSize, readPart1, readPart2
<1>4. a = [q EXCEPT !.readIndex_ = Wrap(r + n)]
  BY <1>2 DEF clearBufferN
<1>5. a \in BufferOf(S)
  <2>1. Wrap(r + n) \in Index
    BY <1>1, <1>2 DEF Wrap, Index
  <2>2. QED
    BY <1>4, <2>1 DEF BufferOf
<1>6. a.buffer_ = q.buffer_ /\ a.writeIndex_ = w /\ a.readIndex_ = Wrap(r + n)
  BY <1>4 DEF BufferOf
<1>7. readSize(a) = z - n
  <2>1. readSize(a) = IF w >= Wrap(r + n) THEN w - Wrap(r + n)
                      ELSE N - Wrap(r + n) + w
    BY <1>1, <1>2, <1>6 DEF readSize, readPart1, readPart2, Wrap
  <2> HIDE DEF a, z
  <2>2. QED
    BY <1>1, <1>2, <1>3, <2>1 DEF Wrap
<1>8. c \in Seq(S) /\ Len(c) = z
      /\ \A k \in 1 .. z : c[k] = q.buffer_[Wrap(r + k - 1)]
  BY ContentType
<1> HIDE DEF a, c
<1>9. /\ Content(a) \in Seq(S) /\ Len(Content(a)) = z - n
      /\ \A k \in 1 .. z - n :
            Content(a)[k] = q.buffer_[Wrap(Wrap(r + n) + k - 1)]
  BY <1>5, <1>6, <1>7, ContentType
<1> HIDE DEF z
<1>10. \A k \in 1 .. z - n : Wrap(Wrap(r + n) + k - 1) = Wrap(r + (n + k) - 1)
  BY <1>1, <1>2 DEF Wrap
<1>11. /\ SubSeq(c, n + 1, z) \in Seq(S) /\ Len(SubSeq(c, n + 1, z)) = z - n
       /\ \A k \in 1 .. z - n : SubSeq(c, n + 1, z)[k] = c[n + k]
  <2>1. /\ Len(SubSeq(c, n + 1, z)) = z - n
        /\ \A k \in 1 .. z - n : SubSeq(c, n + 1, z)[k] = c[n + k]
    BY <1>2, <1>8
  <2>2. SubSeq(c, n + 1, z) \in Seq(S)
    BY <1>2, <1>8, SubSeqProperties
  <2>3. QED
    BY <2>1, <2>2
<1>12. \A k \in 1 .. z - n : n + k \in 1 .. z
  BY <1>2
<1>13. \A k \in 1 .. z - n : Content(a)[k] = SubSeq(c, n + 1, z)[k]
  BY <1>8, <1>9, <1>10, <1>11, <1>12
<1>14. Content(a) = SubSeq(c, n + 1, z)
  BY <1>9, <1>11, <1>13, SeqEqual
<1>15. QED
  BY <1>5, <1>14 DEF a, c, z

=============================================================================
