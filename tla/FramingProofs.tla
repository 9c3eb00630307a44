---------------------------- MODULE FramingProofs ----------------------------
(***************************************************************************)
(* Packet framing for any packets and any cut into reads of at least       *)
(* HEADLENGTH bytes: the loop in readFromBuffer takes whole packets, each  *)
(* once, in order, and leaves less than one; and the ring for any size     *)
(* with room for a read and an incomplete packet.                          *)
(***************************************************************************)
EXTENDS PacketRing, SequenceTheorems, WellFoundedInduction, TLAPS

(***************************************************************************)
(* Counting up, and what a recursion over 0 .. n defines.                  *)
(***************************************************************************)

(* A set with 0 and, with each number below n, the next one has them all.  *)
LEMMA CountUp ==
  ASSUME NEW n \in Nat, NEW G, 0 \in G,
         \A i \in 1 .. n : i - 1 \in G => i \in G
  PROVE  \A i \in 0 .. n : i \in G
<1> DEFINE bad == {i \in 0 .. n : i \notin G}
<1>1. SUFFICES ASSUME bad # {}
               PROVE  FALSE
  OBVIOUS
<1>2. bad \subseteq Nat
  OBVIOUS
<1>3. PICK k \in bad : \A y \in bad : <<y, k>> \notin OpToRel(<, Nat)
  <2> HIDE DEF bad
  <2>1. QED
    BY <1>1, <1>2, NatLessThanWellFounded, WFMin, Zenon
<1>4. k \in 0 .. n /\ k \notin G /\ k # 0
  OBVIOUS
<1>5. k \in 1 .. n /\ k - 1 \in 0 .. n /\ k - 1 \notin G
  BY <1>4
<1>6. <<k - 1, k>> \in OpToRel(<, Nat)
  BY <1>4 DEF OpToRel
<1>7. QED
  BY <1>3, <1>5, <1>6

(* f starts with a and takes each next element of T from the one before.   *)
IsChain(n, T, a, h, f) ==
  /\ f \in [0 .. n -> T]
  /\ f[0] = a
  /\ \A i \in 1 .. n : f[i] = h[i][f[i - 1]]

(* A function defined step by step on 0 .. n exists.                       *)
LEMMA ChainExists ==
  ASSUME NEW n \in Nat, NEW T, NEW a \in T, NEW h,
         \A i \in 1 .. n, t \in T : h[i][t] \in T
  PROVE  \E f : IsChain(n, T, a, h, f)
<1> DEFINE G == {k \in 0 .. n : \E f : IsChain(k, T, a, h, f)}
<1>1. 0 \in G
  <2>1. IsChain(0, T, a, h, [i \in 0 .. 0 |-> a])
    BY DEF IsChain
  <2>2. QED
    BY <2>1
<1>2. ASSUME NEW k \in 1 .. n, k - 1 \in G
      PROVE  k \in G
  <2>1. PICK f : IsChain(k - 1, T, a, h, f)
    BY <1>2
  <2>2. /\ f \in [0 .. k - 1 -> T]
        /\ f[0] = a
        /\ \A i \in 1 .. k - 1 : f[i] = h[i][f[i - 1]]
    BY <2>1 DEF IsChain
  <2>3. f[k - 1] \in T
    BY <2>2
  <2>4. h[k][f[k - 1]] \in T
    BY <2>3
  <2> DEFINE g == [i \in 0 .. k |-> IF i < k THEN f[i] ELSE h[k][f[k - 1]]]
  <2>5. g \in [0 .. k -> T]
    BY <2>2, <2>4
  <2>6. g[0] = a
    BY <2>2
  <2>7. ASSUME NEW i \in 1 .. k
        PROVE  g[i] = h[i][g[i - 1]]
    <3>1. g[i - 1] = f[i - 1]
      OBVIOUS
    <3>2. CASE i = k
      <4>1. g[k] = h[k][f[k - 1]]
        OBVIOUS
      <4> HIDE DEF g
      <4>2. QED
        BY <3>1, <3>2, <4>1
    <3>3. CASE i < k
      <4>1. i \in 1 .. k - 1 /\ g[i] = f[i]
        BY <3>3
      <4> HIDE DEF g
      <4>2. QED
        BY <2>2, <3>1, <4>1
    <3>4. i = k \/ i < k
      OBVIOUS
    <3> HIDE DEF g
    <3>5. QED
      BY <3>2, <3>3, <3>4
  <2> HIDE DEF g
  <2>8. IsChain(k, T, a, h, g)
    BY <2>5, <2>6, <2>7 DEF IsChain
  <2>9. QED
    BY <2>8
<1>3. n \in G
  <2> HIDE DEF G
  <2>1. \A i \in 0 .. n : i \in G
    BY <1>1, <1>2, CountUp
  <2>2. QED
    BY <2>1
<1>4. QED
  BY <1>3

(* A loop that starts at a and takes its steps from h has its values in T. *)
IsLoop(n, T, a, h, f) ==
  /\ f \in [0 .. n -> T]
  /\ f = [k \in 0 .. n |-> IF k = 0 THEN a ELSE h[f[k - 1]]]

LEMMA LoopExists ==
  ASSUME NEW n \in Nat, NEW T, NEW a \in T, NEW h,
         \A t \in T : h[t] \in T
  PROVE  \E f : IsLoop(n, T, a, h, f)
<1> DEFINE g == [i \in 1 .. n |-> h]
<1>1. \A i \in 1 .. n, t \in T : g[i][t] = h[t] /\ g[i][t] \in T
  OBVIOUS
<1> HIDE DEF g
<1>2. PICK f : IsChain(n, T, a, g, f)
  BY <1>1, ChainExists
<1>3. /\ f \in [0 .. n -> T] /\ f[0] = a
      /\ \A i \in 1 .. n : f[i] = g[i][f[i - 1]]
  BY <1>2 DEF IsChain
<1> DEFINE e == [k \in 0 .. n |-> IF k = 0 THEN a ELSE h[f[k - 1]]]
<1>4. ASSUME NEW k \in 0 .. n
      PROVE  f[k] = IF k = 0 THEN a ELSE h[f[k - 1]]
  <2>1. CASE k = 0
    BY <1>3, <2>1
  <2>2. CASE k # 0
    <3>1. k \in 1 .. n /\ k - 1 \in 0 .. n
      BY <2>2
    <3>2. f[k - 1] \in T
      BY <1>3, <3>1
    <3>3. f[k] = h[f[k - 1]]
      BY <1>1, <1>3, <3>1, <3>2
    <3>4. QED
      BY <2>2, <3>3
  <2>3. QED
    BY <2>1, <2>2
<1>5. f = e
  BY <1>3, <1>4
<1>6. QED
  BY <1>3, <1>5 DEF IsLoop

(***************************************************************************)
(* Sequences put one after the other.                                      *)
(***************************************************************************)

(* The running concatenation from the left is what FlattenSeq returns.     *)
LEMMA FlattenIs ==
  ASSUME NEW S, NEW ss \in Seq(Seq(S)), NEW f, f[0] = <<>>,
         \A i \in 1 .. Len(ss) : f[i] = f[i - 1] \o ss[i]
  PROVE  FlattenSeq(ss) = f[Len(ss)]
<1> DEFINE n == Len(ss)
           IsFlat(g) == g = [i \in 1 .. n |-> IF i = 1 THEN ss[i]
                                              ELSE g[i - 1] \o ss[i]]
           flat == CHOOSE g : IsFlat(g)
<1>1. n \in Nat /\ \A i \in 1 .. n : ss[i] \in Seq(S)
  BY LenProperties, ElementOfSeq
<1>2. CASE n = 0
  <2>1. ss = <<>>
    BY <1>2, EmptySeq
  <2>2. FlattenSeq(ss) = ss
    BY <1>2 DEF FlattenSeq
  <2>3. QED
    BY <1>2, <2>1, <2>2
<1>3. CASE n # 0
  <2>1. n \in 1 .. n
    BY <1>1, <1>3
  <2>2. f[1] = ss[1]
    <3>1. 1 \in 1 .. n /\ ss[1] \in Seq(S)
      BY <1>1, <1>3
    <3>2. f[1] = f[1 - 1] \o ss[1]
      BY <3>1
    <3>3. f[1 - 1] = <<>>
      OBVIOUS
    <3>4. QED
      BY <3>1, <3>2, <3>3, ConcatEmptySeq, Zenon
  <2>3. \E g : IsFlat(g)
    <3> DEFINE g == [i \in 1 .. n |-> f[i]]
    <3>1. ASSUME NEW i \in 1 .. n
          PROVE  f[i] = IF i = 1 THEN ss[i] ELSE g[i - 1] \o ss[i]
      <4>1. CASE i = 1
        BY <2>2, <4>1
      <4>2. CASE i # 1
        <5>1. i - 1 \in 1 .. n
          BY <1>1, <4>2
        <5>2. g[i - 1] = f[i - 1]
          BY <5>1
        <5> HIDE DEF g
        <5>3. QED
          BY <4>2, <5>2
      <4>3. QED
        BY <4>1, <4>2
    <3> DEFINE r == [i \in 1 .. n |-> IF i = 1 THEN ss[i] ELSE g[i - 1] \o ss[i]]
    <3>2. g = r
      <4>1. \A i \in 1 .. n : g[i] = r[i]
        <5>1. \A i \in 1 .. n : r[i] = IF i = 1 THEN ss[i] ELSE g[i - 1] \o ss[i]
          BY Zenon
        <5>2. \A i \in 1 .. n : g[i] = f[i]
          BY Zenon
        <5> HIDE DEF g, r
        <5>3. QED
          BY <3>1, <5>1, <5>2, Zenon
      <4> DEFINE body == [i \in 1 .. n |-> g[i]]
      <4>2. QED
        BY <4>1
    <3> HIDE DEF g
    <3>3. QED
      BY <3>2
  <2>4. IsFlat(flat)
    <3> HIDE DEF IsFlat
    <3>1. QED
      BY <2>3
  <2>5. FlattenSeq(ss) = flat[n]
    BY <1>3 DEF FlattenSeq
  <2> HIDE DEF flat
  <2>6. \A i \in 1 .. n : flat[i] = IF i = 1 THEN ss[i] ELSE flat[i - 1] \o ss[i]
    BY <2>4
  <2> HIDE DEF IsFlat
  <2> DEFINE G == {i \in 0 .. n : i = 0 \/ flat[i] = f[i]}
  <2>7. 0 \in G
    BY <1>1
  <2>8. ASSUME NEW i \in 1 .. n, i - 1 \in G
        PROVE  i \in G
    <3>1. CASE i = 1
      BY <1>1, <2>2, <2>6, <3>1
    <3>2. CASE i # 1
      <4>1. flat[i - 1] = f[i - 1]
        BY <2>8, <3>2
      <4>2. flat[i] = f[i]
        BY <2>6, <3>2, <4>1
      <4>3. QED
        BY <1>1, <4>2
    <3>3. QED
      BY <3>1, <3>2
  <2>9. n \in G
    <3> HIDE DEF G
    <3>1. \A i \in 0 .. n : i \in G
      BY <1>1, <2>7, <2>8, CountUp
    <3>2. QED
      BY <1>1, <3>1
  <2>10. QED
    BY <1>3, <2>5, <2>9
<1>4. QED
  BY <1>2, <1>3

(* FlattenSeq of one sequence more.                                        *)
LEMMA FlattenAppend ==
  ASSUME NEW S, NEW ss \in Seq(Seq(S)), NEW s \in Seq(S)
  PROVE  /\ FlattenSeq(ss) \in Seq(S)
         /\ FlattenSeq(Append(ss, s)) = FlattenSeq(ss) \o s
<1> DEFINE n == Len(ss)
           more == Append(ss, s)
           h == [i \in 1 .. n + 1 |-> [r \in Seq(S) |-> r \o more[i]]]
<1>1. n \in Nat
  BY LenProperties
<1>2. /\ more \in Seq(Seq(S)) /\ Len(more) = n + 1
      /\ \A i \in 1 .. n : more[i] = ss[i]
      /\ more[n + 1] = s
  BY AppendProperties
<1>3. ASSUME NEW i \in 1 .. n + 1, NEW r \in Seq(S)
      PROVE  /\ h[i][r] = r \o more[i]
             /\ r \o more[i] \in Seq(S)
  <2>1. more[i] \in Seq(S)
    BY <1>2, ElementOfSeq
  <2> HIDE DEF more, n
  <2>2. h[i][r] = r \o more[i]
    OBVIOUS
  <2>3. QED
    BY <2>1, <2>2, ConcatProperties
<1> HIDE DEF h
<1>4. <<>> \in Seq(S) /\ n + 1 \in Nat
  BY <1>1
<1>5. PICK f : IsChain(n + 1, Seq(S), <<>>, h, f)
  <2>1. \A i \in 1 .. n + 1, r \in Seq(S) : h[i][r] \in Seq(S)
    BY <1>3
  <2> HIDE DEF n
  <2>2. QED
    BY <1>4, <2>1, ChainExists
<1>6. /\ f \in [0 .. n + 1 -> Seq(S)]
      /\ f[0] = <<>>
      /\ \A i \in 1 .. n + 1 : f[i] = h[i][f[i - 1]]
  BY <1>5 DEF IsChain
<1>7. ASSUME NEW i \in 1 .. n + 1
      PROVE  f[i] = f[i - 1] \o more[i]
  <2>1. i - 1 \in 0 .. n + 1
    BY <1>1
  <2>2. f[i - 1] \in Seq(S)
    BY <1>6, <2>1
  <2> HIDE DEF more, n
  <2>3. QED
    BY <1>3, <1>6, <2>2
<1>8. FlattenSeq(more) = f[n + 1]
  <2> HIDE DEF more, n
  <2>1. QED
    BY <1>2, <1>6, <1>7, FlattenIs
<1>9. FlattenSeq(ss) = f[n]
  <2>1. ASSUME NEW i \in 1 .. n
        PROVE  f[i] = f[i - 1] \o ss[i]
    <3>1. i \in 1 .. n + 1 /\ more[i] = ss[i]
      BY <1>1, <1>2
    <3> HIDE DEF more
    <3>2. QED
      BY <1>7, <3>1, Zenon
  <2>2. QED
    BY <1>6, <2>1, FlattenIs
<1>10. f[n] \in Seq(S) /\ f[n + 1] = f[n] \o s
  <2>1. PICK k : k = n + 1
    OBVIOUS
  <2>2. k \in 1 .. n + 1 /\ k - 1 = n /\ n \in 0 .. n + 1
    BY <1>1, <2>1
  <2> HIDE DEF more, n
  <2>3. f[k] = f[k - 1] \o more[k]
    BY <1>7, <2>2, Zenon
  <2>4. more[k] = s
    BY <1>2, <2>1
  <2>5. f[n] \in Seq(S)
    BY <1>6, <2>2
  <2>6. f[k] = f[n] \o s
    BY <2>2, <2>3, <2>4, Zenon
  <2>7. QED
    BY <2>1, <2>5, <2>6
<1>11. QED
  BY <1>8, <1>9, <1>10

(* What is left of a sequence when its first n elements are taken away.    *)
Rest(s, n) == SubSeq(s, n + 1, Len(s))

(* The two parts of a sequence cut after its n-th element.                 *)
LEMMA CutProperties ==
  ASSUME NEW S, NEW s \in Seq(S), NEW n \in 0 .. Len(s)
  PROVE  /\ SubSeq(s, 1, n) \in Seq(S) /\ Len(SubSeq(s, 1, n)) = n
         /\ \A i \in 1 .. n : SubSeq(s, 1, n)[i] = s[i]
         /\ Rest(s, n) \in Seq(S) /\ Len(Rest(s, n)) = Len(s) - n
         /\ \A i \in 1 .. Len(s) - n : Rest(s, n)[i] = s[n + i]
         /\ SubSeq(s, 1, n) \o Rest(s, n) = s
<1>1. Len(s) \in Nat /\ \A i \in 1 .. Len(s) : s[i] \in S
  BY LenProperties, ElementOfSeq
<1>2. /\ SubSeq(s, 1, n) \in Seq(S) /\ Len(SubSeq(s, 1, n)) = n
      /\ \A i \in 1 .. n : SubSeq(s, 1, n)[i] = s[i]
  <2>1. /\ SubSeq(s, 1, n) \in Seq(S)
        /\ Len(SubSeq(s, 1, n)) = IF 1 <= n THEN n - 1 + 1 ELSE 0
        /\ \A i \in 1 .. n - 1 + 1 : SubSeq(s, 1, n)[i] = s[1 + i - 1]
    <3>1. 1 \in Int /\ n \in Int /\ \A i \in 1 .. n : s[i] \in S
      BY <1>1
    <3>2. QED
      BY <3>1, SubSeqProperties
  <2> DEFINE r == SubSeq(s, 1, n)
  <2> HIDE DEF r
  <2>2. r \in Seq(S) /\ Len(r) = n /\ \A i \in 1 .. n : r[i] = s[i]
    BY <1>1, <2>1 DEF r
  <2>3. QED
    BY <2>2 DEF r
<1>3. /\ Rest(s, n) \in Seq(S) /\ Len(Rest(s, n)) = Len(s) - n
      /\ \A i \in 1 .. Len(s) - n : Rest(s, n)[i] = s[n + i]
  <2>1. /\ Rest(s, n) \in Seq(S)
        /\ Len(Rest(s, n)) = IF n + 1 <= Len(s) THEN Len(s) - (n + 1) + 1 ELSE 0
        /\ \A i \in 1 .. Len(s) - (n + 1) + 1 : Rest(s, n)[i] = s[(n + 1) + i - 1]
    <3>1. n + 1 \in Int /\ Len(s) \in Int /\ \A i \in n + 1 .. Len(s) : s[i] \in S
      BY <1>1
    <3>2. QED
      BY <3>1, SubSeqProperties DEF Rest
  <2>2. QED
    BY <1>1, <2>1
<1>4. SubSeq(s, 1, n) \o Rest(s, n) = s
  <2>1. /\ 1 \in 1 .. Len(s) + 1 /\ n \in 1 - 1 .. Len(s)
        /\ Len(s) \in n .. Len(s)
    BY <1>1
  <2>2. SubSeq(s, 1, n) \o SubSeq(s, n + 1, Len(s)) = SubSeq(s, 1, Len(s))
    BY <2>1, ConcatAdjacentSubSeq
  <2>3. QED
    BY <2>2, SubSeqFull DEF Rest
<1>5. QED
  BY <1>2, <1>3, <1>4

(* Taking away twice.                                                      *)
LEMMA RestRest ==
  ASSUME NEW S, NEW s \in Seq(S), NEW m \in 0 .. Len(s), NEW n \in 0 .. Len(s) - m
  PROVE  Rest(Rest(s, m), n) = Rest(s, m + n)
<1> DEFINE r == Rest(s, m)
           t == Rest(r, n)
           u == Rest(s, m + n)
<1>1. Len(s) \in Nat
  BY LenProperties
<1>2. /\ r \in Seq(S) /\ Len(r) = Len(s) - m
      /\ \A i \in 1 .. Len(s) - m : r[i] = s[m + i]
  BY CutProperties
<1> HIDE DEF r
<1>3. n \in 0 .. Len(r)
  BY <1>1, <1>2
<1>4. /\ t \in Seq(S) /\ Len(t) = Len(r) - n
      /\ \A i \in 1 .. Len(r) - n : t[i] = r[n + i]
  BY <1>2, <1>3, CutProperties
<1>5. m + n \in 0 .. Len(s)
  BY <1>1
<1>6. /\ u \in Seq(S) /\ Len(u) = Len(s) - (m + n)
      /\ \A i \in 1 .. Len(s) - (m + n) : u[i] = s[m + n + i]
  BY <1>5, CutProperties
<1> HIDE DEF t, u
<1>7. Len(t) = Len(u)
  BY <1>1, <1>2, <1>4, <1>6
<1>8. ASSUME NEW i \in 1 .. Len(t)
      PROVE  t[i] = u[i]
  <2>1. t[i] = r[n + i]
    BY <1>4
  <2>2. r[n + i] = s[m + (n + i)]
    BY <1>1, <1>2, <1>4
  <2>3. u[i] = s[m + n + i]
    BY <1>6, <1>7
  <2>4. QED
    BY <1>1, <2>1, <2>2, <2>3
<1>9. t = u
  BY <1>4, <1>6, <1>7, <1>8, SeqEqual
<1>10. QED
  BY <1>9 DEF t, u, r

(* A part of a sequence, element by element.                               *)
LEMMA PartProperties ==
  ASSUME NEW S, NEW s \in Seq(S), NEW m \in 0 .. Len(s), NEW n \in 0 .. Len(s) - m
  PROVE  /\ SubSeq(s, m + 1, m + n) \in Seq(S)
         /\ Len(SubSeq(s, m + 1, m + n)) = n
         /\ \A i \in 1 .. n : SubSeq(s, m + 1, m + n)[i] = s[m + i]
<1> DEFINE a == m + 1
           z == m + n
           t == SubSeq(s, a, z)
<1>1. Len(s) \in Nat /\ \A i \in 1 .. Len(s) : s[i] \in S
  BY LenProperties, ElementOfSeq
<1>2. a \in Int /\ z \in Int /\ \A i \in a .. z : s[i] \in S
  BY <1>1
<1> HIDE DEF a, z
<1>3. /\ t \in Seq(S)
      /\ Len(t) = IF a <= z THEN z - a + 1 ELSE 0
      /\ \A i \in 1 .. z - a + 1 : t[i] = s[a + i - 1]
  BY <1>2, SubSeqProperties
<1> HIDE DEF t
<1>4. t \in Seq(S) /\ Len(t) = n /\ \A i \in 1 .. n : t[i] = s[m + i]
  BY <1>1, <1>3 DEF a, z
<1>5. QED
  BY <1>4 DEF t, a, z

(* Reading m elements and then n of what is left is reading both.          *)
LEMMA ReadTwice ==
  ASSUME NEW S, NEW s \in Seq(S), NEW m \in 0 .. Len(s), NEW n \in 0 .. Len(s) - m
  PROVE  SubSeq(s, 1, m) \o SubSeq(Rest(s, m), 1, n) = SubSeq(s, 1, m + n)
<1> DEFINE r == Rest(s, m)
           f == SubSeq(r, 1, n)
           g == SubSeq(s, m + 1, m + n)
<1>1. Len(s) \in Nat
  BY LenProperties
<1>2. r \in Seq(S) /\ Len(r) = Len(s) - m /\ \A i \in 1 .. Len(s) - m : r[i] = s[m + i]
  BY CutProperties
<1> HIDE DEF r
<1>3. n \in 0 .. Len(r)
  BY <1>2
<1>4. f \in Seq(S) /\ Len(f) = n /\ \A i \in 1 .. n : f[i] = r[i]
  BY <1>2, <1>3, CutProperties
<1>5. g \in Seq(S) /\ Len(g) = n /\ \A i \in 1 .. n : g[i] = s[m + i]
  BY PartProperties
<1> HIDE DEF f, g
<1>6. \A i \in 1 .. Len(f) : f[i] = g[i]
  <2>1. ASSUME NEW i \in 1 .. n
        PROVE  f[i] = g[i]
    <3>1. i \in 1 .. Len(s) - m
      BY <1>1
    <3>2. QED
      BY <1>2, <1>4, <1>5, <3>1
  <2>2. QED
    BY <1>4, <2>1
<1>7. f = g
  BY <1>4, <1>5, <1>6, SeqEqual
<1>8. SubSeq(s, 1, m) \o g = SubSeq(s, 1, m + n)
  <2>1. /\ 1 \in 1 .. Len(s) + 1 /\ m \in 1 - 1 .. Len(s)
        /\ m + n \in m .. Len(s)
    BY <1>1
  <2>2. QED
    BY <2>1, ConcatAdjacentSubSeq DEF g
<1>9. QED
  BY <1>7, <1>8 DEF f, r

(* Cutting a concatenation where it was joined.                            *)
LEMMA CutJoin ==
  ASSUME NEW S, NEW p \in Seq(S), NEW r \in Seq(S)
  PROVE  /\ p \o r \in Seq(S) /\ Len(p \o r) = Len(p) + Len(r)
         /\ \A i \in 1 .. Len(p) : (p \o r)[i] = p[i]
         /\ SubSeq(p \o r, 1, Len(p)) = p
         /\ Rest(p \o r, Len(p)) = r
<1> DEFINE b == p \o r
           n == Len(p)
           f == SubSeq(b, 1, n)
           t == Rest(b, n)
<1>1. n \in Nat /\ Len(r) \in Nat
  BY LenProperties
<1>2. /\ b \in Seq(S) /\ Len(b) = n + Len(r)
      /\ \A i \in 1 .. n + Len(r) : b[i] = IF i <= n THEN p[i] ELSE r[i - n]
  BY ConcatProperties
<1> HIDE DEF b
<1>3. n \in 0 .. Len(b)
  BY <1>1, <1>2
<1>4. /\ f \in Seq(S) /\ Len(f) = n /\ \A i \in 1 .. n : f[i] = b[i]
      /\ t \in Seq(S) /\ Len(t) = Len(b) - n
      /\ \A i \in 1 .. Len(b) - n : t[i] = b[n + i]
  BY <1>2, <1>3, CutProperties
<1> HIDE DEF f, t
<1>5. \A i \in 1 .. n : b[i] = p[i]
  BY <1>1, <1>2
<1>6. f = p
  <2>1. \A i \in 1 .. Len(f) : f[i] = p[i]
    BY <1>4, <1>5
  <2>2. Len(f) = Len(p)
    BY <1>4
  <2>3. QED
    BY <1>4, <2>1, <2>2, SeqEqual
<1>7. t = r
  <2>1. Len(t) = Len(r)
    BY <1>1, <1>2, <1>4
  <2>2. ASSUME NEW i \in 1 .. Len(t)
        PROVE  t[i] = r[i]
    <3>1. t[i] = b[n + i]
      BY <1>4
    <3>2. b[n + i] = r[(n + i) - n]
      <4>1. n + i \in 1 .. n + Len(r) /\ ~ (n + i <= n)
        BY <1>1, <2>1
      <4>2. QED
        BY <1>2, <4>1
    <3>3. (n + i) - n = i
      BY <1>1
    <3>4. QED
      BY <3>1, <3>2, <3>3
  <2>3. QED
    BY <1>4, <2>1, <2>2, SeqEqual
<1>8. QED
  BY <1>2, <1>5, <1>6, <1>7 DEF f, t, b

(* The first joined part read in two pieces.                               *)
LEMMA TwoReads ==
  ASSUME NEW S, NEW p \in Seq(S), NEW r \in Seq(S), NEW m \in 0 .. Len(p)
  PROVE  /\ Rest(p \o r, m) \in Seq(S)
         /\ Len(Rest(p \o r, m)) = Len(p) - m + Len(r)
         /\ SubSeq(p \o r, 1, m) \o SubSeq(Rest(p \o r, m), 1, Len(p) - m) = p
         /\ Rest(Rest(p \o r, m), Len(p) - m) = r
<1> DEFINE b == p \o r
           n == Len(p) - m
<1>1. Len(r) \in Nat /\ Len(p) \in Nat
  BY LenProperties
<1>2. /\ b \in Seq(S) /\ Len(b) = Len(p) + Len(r)
      /\ SubSeq(b, 1, Len(p)) = p /\ Rest(b, Len(p)) = r
  BY CutJoin
<1> HIDE DEF b
<1>3. m \in 0 .. Len(b) /\ n \in 0 .. Len(b) - m /\ m + n = Len(p)
  BY <1>1, <1>2
<1> HIDE DEF n
<1>4. Rest(b, m) \in Seq(S) /\ Len(Rest(b, m)) = Len(b) - m
  BY <1>2, <1>3, CutProperties
<1>5. SubSeq(b, 1, m) \o SubSeq(Rest(b, m), 1, n) = SubSeq(b, 1, m + n)
  BY <1>2, <1>3, ReadTwice
<1>6. Rest(Rest(b, m), n) = Rest(b, m + n)
  BY <1>2, <1>3, RestRest
<1>7. Len(b) - m = Len(p) - m + Len(r)
  BY <1>1, <1>2
<1>8. QED
  BY <1>2, <1>3, <1>4, <1>5, <1>6, <1>7 DEF b, n

(* The tail of three elements.                                             *)
LEMMA TailOfThree ==
  ASSUME NEW S, NEW h \in Seq(S), Len(h) = 3
  PROVE  Tail(h)[1] = h[2] /\ Tail(h)[2] = h[3]
<1>1. h # <<>>
  OBVIOUS
<1>2. /\ Len(Tail(h)) = Len(h) - 1
      /\ \A i \in 1 .. Len(Tail(h)) : Tail(h)[i] = h[i + 1]
  BY <1>1, HeadTailProperties
<1>3. Len(Tail(h)) = 2
  BY <1>2
<1>4. QED
  BY <1>2, <1>3

(* When b begins with p, cutting p off leaves what follows it: b and w     *)
(* together are p and r, and b holds all of p.                             *)
LEMMA CutFrame ==
  ASSUME NEW S, NEW b \in Seq(S), NEW w \in Seq(S), NEW p \in Seq(S),
         NEW r \in Seq(S), b \o w = p \o r, Len(p) <= Len(b)
  PROVE  /\ b = p \o Rest(b, Len(p))
         /\ Rest(b, Len(p)) \o w = r
<1> DEFINE n == Len(p)
           f == SubSeq(b, 1, n)
           t == Rest(b, n)
<1>1. n \in Nat /\ Len(b) \in Nat
  BY LenProperties
<1>2. n \in 0 .. Len(b)
  BY <1>1
<1>3. /\ f \in Seq(S) /\ Len(f) = n /\ \A i \in 1 .. n : f[i] = b[i]
      /\ t \in Seq(S) /\ f \o t = b
  BY <1>2, CutProperties
<1> HIDE DEF f, t
<1>4. ASSUME NEW i \in 1 .. n
      PROVE  b[i] = p[i]
  <2>1. \A j \in 1 .. Len(b) + Len(w) : (b \o w)[j] =
           IF j <= Len(b) THEN b[j] ELSE w[j - Len(b)]
    BY ConcatProperties
  <2>2. \A j \in 1 .. n + Len(r) : (p \o r)[j] =
           IF j <= n THEN p[j] ELSE r[j - n]
    BY ConcatProperties
  <2>3. Len(w) \in Nat /\ Len(r) \in Nat
    BY LenProperties
  <2>4. (b \o w)[i] = b[i]
    BY <1>1, <1>2, <2>1, <2>3
  <2>5. (p \o r)[i] = p[i]
    BY <1>1, <2>2, <2>3
  <2>6. QED
    BY <2>4, <2>5
<1>5. f = p
  <2>1. \A i \in 1 .. Len(f) : f[i] = p[i]
    BY <1>3, <1>4
  <2>2. Len(f) = Len(p)
    BY <1>3
  <2>3. QED
    BY <1>3, <2>1, <2>2, SeqEqual
<1>6. p \o t = b
  BY <1>3, <1>5
<1>7. (p \o t) \o w = p \o (t \o w)
  <2>1. p \in Seq(S) /\ t \in Seq(S) /\ w \in Seq(S)
    BY <1>3
  <2>2. QED
    BY <2>1, ConcatAssociative, SMTT(60)
<1>8. t \o w \in Seq(S)
  BY <1>3, ConcatProperties
<1>9. t \o w = r
  <2>1. p \o (t \o w) = p \o r
    BY <1>6, <1>7
  <2>2. QED
    BY <1>8, <2>1, ConcatSimplifications
<1>10. QED
  BY <1>6, <1>9 DEF t

(***************************************************************************)
(* Packets as bytes.                                                       *)
(***************************************************************************)

(* What a byte and a length are, from the assumption on the constants.     *)
LEMMA Sizes ==
  /\ Base \in Nat \ {0} /\ Base * Base \in Nat \ {0}
  /\ HeadByte \in Byte /\ EndByte \in Byte
  /\ \A d \in Data : /\ d \in Seq(Byte)
                     /\ Len(d) \in Nat
                     /\ Len(d) + 4 < Base * Base
<1>1. /\ Base \in Nat \ {0}
      /\ HeadByte \in Byte /\ EndByte \in Byte
      /\ \A d \in Data : d \in Seq(Byte) /\ Len(d) + 4 < Base * Base
  BY FramingAssumption DEF FramingAssumption
<1>2. Base * Base \in Nat \ {0}
  BY <1>1
<1>3. \A d \in Data : Len(d) \in Nat
  BY <1>1, LenProperties
<1>4. QED
  BY <1>1, <1>2, <1>3

(* A length below Base * Base is two bytes, from which it comes back: what *)
(* UnpackNum makes of PackNum.                                             *)
LEMMA TwoBytes ==
  ASSUME NEW n \in Nat, NEW b \in Nat \ {0}, n < b * b
  PROVE  /\ n % b \in 0 .. b - 1
         /\ n \div b \in 0 .. b - 1
         /\ (n % b) + b * (n \div b) = n
<1>1. n = b * (n \div b) + (n % b) /\ (n % b) \in 0 .. b - 1 /\ n \div b \in Nat
  OBVIOUS
<1>2. n \div b < b
  OBVIOUS
<1>3. QED
  BY <1>1, <1>2

(* A number is unchanged by a modulus above it.                            *)
LEMMA NoWrap ==
  ASSUME NEW n \in Nat, NEW b \in Nat \ {0}, n < b
  PROVE  n % b = n
OBVIOUS

(* The bytes of a packet, one by one.                                      *)
LEMMA PackBytes ==
  ASSUME NEW d \in Data
  PROVE  /\ pack(d) \in Seq(Byte)
         /\ Len(pack(d)) = Len(d) + 4
         /\ pack(d)[1] = HeadByte
         /\ pack(d)[2] = Len(d) % Base
         /\ pack(d)[3] = Len(d) \div Base
         /\ \A i \in 1 .. Len(d) : pack(d)[i + 3] = d[i]
         /\ pack(d)[Len(d) + 4] = EndByte
<1> DEFINE n == Len(d)
           fields == <<HeadByte, n % Base, n \div Base>>
           front == fields \o d
<1>1. n \in Nat /\ d \in Seq(Byte) /\ HeadByte \in Byte /\ EndByte \in Byte
  BY Sizes
<1>2. n % Base \in Byte /\ n \div Base \in Byte
  <2>1. Base \in Nat \ {0} /\ n < Base * Base
    BY Sizes
  <2>2. QED
    BY <1>1, <2>1, TwoBytes DEF Byte
<1>3. fields \in Seq(Byte) /\ Len(fields) = 3
  BY <1>1, <1>2
<1>4. pack(d) = front \o <<EndByte>>
  <2>1. <<HeadByte>> \o PackNum(n) = fields
    <3> DEFINE h == <<HeadByte>>
               l == <<n % Base, n \div Base>>
    <3>1. h \in Seq(Byte) /\ l \in Seq(Byte) /\ Len(h) = 1 /\ Len(l) = 2
      BY <1>1, <1>2
    <3>2. /\ h[1] = fields[1] /\ l[1] = fields[2] /\ l[2] = fields[3]
      OBVIOUS
    <3> HIDE DEF h, l, fields
    <3>3. /\ h \o l \in Seq(Byte) /\ Len(h \o l) = Len(h) + Len(l)
          /\ \A i \in 1 .. Len(h) + Len(l) : (h \o l)[i] =
                IF i <= Len(h) THEN h[i] ELSE l[i - Len(h)]
      BY <3>1, ConcatProperties
    <3>4. /\ Len(h \o l) = 3
          /\ \A i \in 1 .. 3 : (h \o l)[i] = fields[i]
      <4>1. (h \o l)[1] = h[1] /\ (h \o l)[2] = l[1] /\ (h \o l)[3] = l[2]
        BY <3>1, <3>3
      <4>2. QED
        BY <3>1, <3>2, <3>3, <4>1
    <3>5. h \o l = fields
      BY <1>3, <3>3, <3>4, SeqEqual
    <3>6. QED
      BY <3>5 DEF PackNum, h, l
  <2>2. QED
    BY <2>1 DEF pack
<1> HIDE DEF n
<1>5. /\ front \in Seq(Byte) /\ Len(front) = n + 3
      /\ \A i \in 1 .. n + 3 : front[i] = IF i <= 3 THEN fields[i] ELSE d[i - 3]
  <2>1. d \in Seq(Byte) /\ Len(d) = n
    BY <1>1 DEF n
  <2> HIDE DEF fields
  <2>2. /\ fields \o d \in Seq(Byte) /\ Len(fields \o d) = Len(fields) + Len(d)
        /\ \A i \in 1 .. Len(fields) + Len(d) : (fields \o d)[i] =
              IF i <= Len(fields) THEN fields[i] ELSE d[i - Len(fields)]
    BY <1>3, <2>1, ConcatProperties
  <2>3. QED
    BY <1>1, <1>3, <2>1, <2>2
<1>6. fields[1] = HeadByte /\ fields[2] = n % Base /\ fields[3] = n \div Base
  OBVIOUS
<1> HIDE DEF front, fields
<1>7. <<EndByte>> \in Seq(Byte) /\ Len(<<EndByte>>) = 1 /\ <<EndByte>>[1] = EndByte
  BY <1>1
<1>8. /\ pack(d) \in Seq(Byte) /\ Len(pack(d)) = n + 4
      /\ \A i \in 1 .. n + 4 : pack(d)[i] =
            IF i <= n + 3 THEN front[i] ELSE <<EndByte>>[i - (n + 3)]
  <2>1. /\ front \o <<EndByte>> \in Seq(Byte)
        /\ Len(front \o <<EndByte>>) = Len(front) + Len(<<EndByte>>)
        /\ \A i \in 1 .. Len(front) + Len(<<EndByte>>) : (front \o <<EndByte>>)[i] =
              IF i <= Len(front) THEN front[i] ELSE <<EndByte>>[i - Len(front)]
    BY <1>5, <1>7, ConcatProperties
  <2>2. Len(front) + Len(<<EndByte>>) = n + 4
    BY <1>1, <1>5, <1>7
  <2>3. QED
    BY <1>4, <1>5, <2>1, <2>2
<1>9. \A i \in 1 .. 3 : pack(d)[i] = fields[i]
  BY <1>1, <1>5, <1>8
<1>10. ASSUME NEW i \in 1 .. n
       PROVE  pack(d)[i + 3] = d[i]
  <2>1. pack(d)[i + 3] = front[i + 3]
    BY <1>1, <1>8
  <2>2. front[i + 3] = d[(i + 3) - 3]
    BY <1>1, <1>5
  <2>3. QED
    BY <1>1, <2>1, <2>2
<1>11. pack(d)[n + 4] = EndByte
  <2>1. pack(d)[n + 4] = <<EndByte>>[(n + 4) - (n + 3)]
    BY <1>1, <1>8
  <2>2. QED
    BY <1>1, <1>7, <2>1
<1>12. QED
  BY <1>6, <1>8, <1>9, <1>10, <1>11 DEF n

(* The frames of packets are bytes, and a packet more puts its bytes at    *)
(* their end.                                                              *)
LEMMA FramesAppend ==
  ASSUME NEW q \in Seq(Data), NEW d \in Data
  PROVE  /\ Frames(q) \in Seq(Byte)
         /\ Frames(Append(q, d)) = Frames(q) \o pack(d)
<1> DEFINE packed(p) == [i \in DOMAIN p |-> pack(p[i])]
           n == Len(q)
<1>1. n \in Nat /\ DOMAIN q = 1 .. n /\ \A i \in 1 .. n : q[i] \in Data
  BY LenProperties, ElementOfSeq
<1>2. packed(q) \in Seq(Seq(Byte)) /\ Len(packed(q)) = n
  <2>1. \A i \in 1 .. n : pack(q[i]) \in Seq(Byte)
    BY <1>1, PackBytes
  <2> HIDE DEF n
  <2>2. packed(q) = [i \in 1 .. n |-> pack(q[i])]
    BY <1>1
  <2> HIDE DEF packed
  <2>3. packed(q) \in Seq(Seq(Byte))
    BY <1>1, <2>1, <2>2, IsASeq
  <2>4. packed(q) \in [1 .. n -> Seq(Byte)]
    BY <2>1, <2>2
  <2>5. QED
    BY <1>1, <2>3, <2>4, LenProperties
<1>3. packed(Append(q, d)) = Append(packed(q), pack(d))
  OBVIOUS
<1>4. pack(d) \in Seq(Byte)
  BY PackBytes
<1> HIDE DEF packed
<1>5. /\ FlattenSeq(packed(q)) \in Seq(Byte)
      /\ FlattenSeq(Append(packed(q), pack(d))) = FlattenSeq(packed(q)) \o pack(d)
  BY <1>2, <1>4, FlattenAppend
<1>6. QED
  BY <1>3, <1>5 DEF Frames, packed

(* No packets, no bytes.                                                   *)
LEMMA FramesEmpty == Frames(<<>>) = <<>>
<1>1. [i \in DOMAIN <<>> |-> pack(<<>>[i])] = <<>>
  OBVIOUS
<1>2. FlattenSeq(<<>>) = <<>>
  BY DEF FlattenSeq
<1>3. QED
  BY <1>1, <1>2 DEF Frames

(* The frames of a part of a sequence that is one packet longer.           *)
LEMMA FramesExtend ==
  ASSUME NEW q \in Seq(Data), NEW m \in 1 .. Len(q), NEW n \in m .. Len(q)
  PROVE  /\ Frames(SubSeq(q, m, n - 1)) \in Seq(Byte)
         /\ Frames(SubSeq(q, m, n)) = Frames(SubSeq(q, m, n - 1)) \o pack(q[n])
<1> DEFINE r == SubSeq(q, m, n - 1)
<1>1. Len(q) \in Nat /\ \A i \in 1 .. Len(q) : q[i] \in Data
  BY LenProperties, ElementOfSeq
<1>2. r \in Seq(Data) /\ q[n] \in Data
  <2>1. m \in Int /\ n - 1 \in Int /\ \A i \in m .. n - 1 : q[i] \in Data
    BY <1>1
  <2>2. r \in Seq(Data)
    BY <2>1, SubSeqProperties
  <2>3. QED
    BY <1>1, <2>2
<1>3. SubSeq(q, m, n) = r \o <<q[n]>>
  BY SubSeqRecursiveSecond
<1>4. Append(r, q[n]) = r \o <<q[n]>>
  <2> HIDE DEF r
  <2>1. QED
    BY <1>2, AppendIsConcat
<1>5. SubSeq(q, m, n) = Append(r, q[n])
  BY <1>3, <1>4
<1> HIDE DEF r
<1>6. QED
  BY <1>2, <1>5, FramesAppend DEF r

(* The frames begin with the first packet's.                               *)
LEMMA FramesFirst ==
  ASSUME NEW q \in Seq(Data), q # <<>>
  PROVE  /\ q[1] \in Data
         /\ Frames(Rest(q, 1)) \in Seq(Byte)
         /\ Frames(q) = pack(q[1]) \o Frames(Rest(q, 1))
<1> DEFINE n == Len(q)
           A(k) == Frames(SubSeq(q, 1, k))
           B(k) == Frames(SubSeq(q, 2, k))
           G == {k \in 0 .. n - 1 : B(k + 1) \in Seq(Byte)
                                   /\ A(k + 1) = pack(q[1]) \o B(k + 1)}
<1>1. n \in Nat /\ n # 0
  BY LenProperties, EmptySeq
<1>2. \A i \in 1 .. n : q[i] \in Data /\ pack(q[i]) \in Seq(Byte)
  BY ElementOfSeq, PackBytes
<1>3. q[1] \in Data /\ pack(q[1]) \in Seq(Byte)
  <2>1. 1 \in 1 .. n
    BY <1>1
  <2> HIDE DEF n
  <2>2. QED
    BY <1>2, <2>1
<1>4. 0 \in G
  <2>1. 1 \in 1 .. Len(q) /\ 1 \in 1 .. Len(q)
    BY <1>1
  <2>2. A(1) = Frames(SubSeq(q, 1, 1 - 1)) \o pack(q[1])
    BY <2>1, FramesExtend
  <2>3. SubSeq(q, 1, 1 - 1) = <<>> /\ SubSeq(q, 2, 1) = <<>>
    BY SubSeqEmpty
  <2>4. A(1) = <<>> \o pack(q[1]) /\ B(1) = <<>>
    BY <2>2, <2>3, FramesEmpty
  <2> HIDE DEF A, B
  <2>5. A(1) = pack(q[1]) /\ pack(q[1]) \o B(1) = pack(q[1])
    BY <1>3, <2>4, ConcatEmptySeq
  <2>6. A(1) = pack(q[1]) \o B(1) /\ B(1) \in Seq(Byte)
    BY <2>4, <2>5, EmptySeq
  <2>7. 0 \in 0 .. n - 1 /\ 0 + 1 = 1
    BY <1>1
  <2>8. QED
    BY <2>6, <2>7
<1>5. ASSUME NEW k \in 1 .. n - 1, k - 1 \in G
      PROVE  k \in G
  <2> DEFINE c == k + 1
  <2>1. /\ c \in Nat /\ c \in 2 .. n /\ c \in 1 .. n /\ c - 1 = k /\ k - 1 + 1 = k
        /\ 1 \in 1 .. n /\ 2 \in 1 .. n /\ k \in 0 .. n - 1
    BY <1>1
  <2> HIDE DEF c
  <2>2. A(c) = A(k) \o pack(q[c])
    BY <2>1, FramesExtend
  <2>3. B(k) \in Seq(Byte) /\ B(c) = B(k) \o pack(q[c])
    BY <2>1, FramesExtend
  <2>4. A(k) = pack(q[1]) \o B(k)
    BY <1>5, <2>1
  <2>5. pack(q[c]) \in Seq(Byte)
    BY <1>2, <2>1
  <2> HIDE DEF A, B
  <2>6. (pack(q[1]) \o B(k)) \o pack(q[c]) = pack(q[1]) \o (B(k) \o pack(q[c]))
    BY <1>3, <2>3, <2>5, ConcatAssociative, SMTT(60)
  <2>7. B(c) \in Seq(Byte)
    BY <2>3, <2>5, ConcatProperties
  <2>8. B(k + 1) \in Seq(Byte) /\ A(k + 1) = pack(q[1]) \o B(k + 1)
    BY <2>2, <2>3, <2>4, <2>6, <2>7 DEF c
  <2>9. QED
    BY <2>1, <2>8
<1>6. n - 1 \in G
  <2>1. n - 1 \in Nat
    BY <1>1
  <2> HIDE DEF G, n
  <2>2. \A k \in 0 .. n - 1 : k \in G
    BY <1>4, <1>5, <2>1, CountUp
  <2>3. QED
    BY <2>1, <2>2
<1>7. B(n) \in Seq(Byte) /\ A(n) = pack(q[1]) \o B(n)
  <2>1. n - 1 + 1 = n
    BY <1>1
  <2> HIDE DEF A, B
  <2>2. QED
    BY <1>6, <2>1
<1>8. SubSeq(q, 1, n) = q /\ SubSeq(q, 2, n) = Rest(q, 1)
  BY SubSeqFull DEF Rest
<1>9. QED
  BY <1>3, <1>7, <1>8

(* So do those of the packets after the first k.                           *)
LEMMA FramesNext ==
  ASSUME NEW q \in Seq(Data), NEW k \in 0 .. Len(q) - 1
  PROVE  /\ q[k + 1] \in Data
         /\ Frames(Rest(q, k + 1)) \in Seq(Byte)
         /\ Frames(Rest(q, k)) = pack(q[k + 1]) \o Frames(Rest(q, k + 1))
<1> DEFINE r == Rest(q, k)
<1>1. Len(q) \in Nat /\ k \in 0 .. Len(q) /\ 1 \in 0 .. Len(q) - k
  BY LenProperties
<1>2. /\ r \in Seq(Data) /\ Len(r) = Len(q) - k
      /\ \A i \in 1 .. Len(q) - k : r[i] = q[k + i]
  BY <1>1, CutProperties
<1>3. r # <<>> /\ r[1] = q[k + 1]
  <2> HIDE DEF r
  <2>1. Len(r) # 0
    BY <1>1, <1>2
  <2>2. 1 \in 1 .. Len(q) - k
    BY <1>1
  <2>3. QED
    BY <1>2, <2>1, <2>2
<1>4. Rest(r, 1) = Rest(q, k + 1)
  BY <1>1, RestRest
<1> HIDE DEF r
<1>5. QED
  BY <1>2, <1>3, <1>4, FramesFirst DEF r

(***************************************************************************)
(* One round of readFromBuffer at the head of a packet.                    *)
(***************************************************************************)

(* What the list's operations do, in terms of Rest.                        *)
LEMMA ListOperations ==
  ASSUME NEW S, NEW b \in Seq(S), NEW n \in 0 .. Len(b)
  PROVE  /\ readSize(b) = Len(b)
         /\ readBufferN(b, n) = SubSeq(b, 1, n)
         /\ clearBufferN(b, n) = Rest(b, n)
<1>1. Len(b) \in Nat
  BY LenProperties
<1>2. ~ (n > Len(b))
  BY <1>1
<1>3. QED
  BY <1>2 DEF readSize, readBufferN, clearBufferN, Rest

(* The data of a packet lies between its length and its last byte.         *)
LEMMA PackData ==
  ASSUME NEW d \in Data
  PROVE  SubSeq(pack(d), 4, Len(pack(d)) - 1) = d
<1> DEFINE p == pack(d)
           n == Len(d)
           v == SubSeq(p, 3 + 1, 3 + n)
<1>1. n \in Nat /\ d \in Seq(Byte)
  BY Sizes
<1>2. /\ p \in Seq(Byte) /\ Len(p) = n + 4
      /\ \A i \in 1 .. n : p[i + 3] = d[i]
  BY PackBytes
<1> HIDE DEF p
<1>3. 3 \in 0 .. Len(p) /\ n \in 0 .. Len(p) - 3
  BY <1>1, <1>2
<1>4. v \in Seq(Byte) /\ Len(v) = n /\ \A i \in 1 .. n : v[i] = p[3 + i]
  BY <1>2, <1>3, PartProperties
<1> HIDE DEF v
<1>5. \A i \in 1 .. n : v[i] = d[i]
  BY <1>1, <1>2, <1>4
<1> HIDE DEF n
<1>6. v = d
  <2>1. Len(v) = Len(d) /\ \A i \in 1 .. Len(v) : v[i] = d[i]
    BY <1>4, <1>5 DEF n
  <2>2. QED
    BY <1>1, <1>4, <2>1, SeqEqual
<1>7. 3 + 1 = 4 /\ 3 + n = Len(p) - 1
  BY <1>1, <1>2
<1>8. QED
  BY <1>6, <1>7 DEF v, p

(* What a round reads of bytes that begin like a packet: the head byte and *)
(* the length of its data.                                                 *)
LEMMA HeadOfPacket ==
  ASSUME NEW d \in Data, NEW b \in Seq(Byte), 3 <= Len(b),
         \A i \in 1 .. 3 : b[i] = pack(d)[i]
  PROVE  /\ <<>> \o readBufferN(b, 3) = SubSeq(b, 1, 3)
         /\ SubSeq(b, 1, 3)[1] = HeadByte
         /\ Reader!UnpackNum(Tail(SubSeq(b, 1, 3))) = Len(d)
<1> DEFINE h == SubSeq(b, 1, 3)
<1>1. Len(b) \in Nat /\ 3 \in 0 .. Len(b)
  BY LenProperties
<1>2. /\ h \in Seq(Byte) /\ Len(h) = 3 /\ \A i \in 1 .. 3 : h[i] = b[i]
      /\ readBufferN(b, 3) = h
  BY <1>1, CutProperties, ListOperations
<1> HIDE DEF h
<1>3. <<>> \o h = h
  BY <1>2, ConcatEmptySeq
<1>4. h[1] = HeadByte /\ h[2] = Len(d) % Base /\ h[3] = Len(d) \div Base
  BY <1>2, PackBytes
<1>5. Tail(h)[1] = h[2] /\ Tail(h)[2] = h[3]
  BY <1>2, TailOfThree
<1>6. Base \in Nat \ {0} /\ Len(d) \in Nat /\ Len(d) < Base * Base
  BY Sizes
<1>7. (Len(d) % Base) + Base * (Len(d) \div Base) = Len(d)
  BY <1>6, TwoBytes
<1>8. QED
  BY <1>2, <1>3, <1>4, <1>5, <1>7 DEF Reader!UnpackNum, h

(* It is incomplete when the buffer has fewer bytes than the packet: the   *)
(* uint16_t msgsize does not wrap.                                         *)
LEMMA IncompleteIffShort ==
  ASSUME NEW d \in Data, NEW b
  PROVE  Reader!Incomplete(b, Len(d)) <=> Len(b) < Len(pack(d))
<1>1. /\ Len(d) \in Nat /\ Len(d) + 4 < Base * Base
      /\ Base * Base \in Nat \ {0} /\ Len(pack(d)) = Len(d) + 4
  BY Sizes, PackBytes
<1>2. (Len(d) + 4) % (Base * Base) = Len(d) + 4
  <2>1. Len(d) + 4 \in Nat
    BY <1>1
  <2>2. QED
    BY <1>1, <2>1, NoWrap
<1>3. QED
  BY <1>1, <1>2 DEF Reader!Incomplete, Reader!PacketMinSize, readSize

(* A whole packet in front of the buffer is read in two parts and leaves   *)
(* what follows it.                                                        *)
LEMMA BodyOfPacket ==
  ASSUME NEW d \in Data, NEW r \in Seq(Byte)
  PROVE  LET b == pack(d) \o r
             t == clearBufferN(b, 3)
         IN  /\ SubSeq(b, 1, 3) \o readBufferN(t, Len(d) + 1) = pack(d)
             /\ clearBufferN(t, Len(d) + 1) = r
<1> DEFINE p == pack(d)
           n == Len(d) + 1
           b == p \o r
           t == Rest(b, 3)
<1>1. p \in Seq(Byte) /\ Len(p) = 3 + n /\ n \in Nat /\ Len(r) \in Nat
  <2>1. Len(d) \in Nat /\ Len(r) \in Nat
    BY Sizes, LenProperties
  <2>2. QED
    BY <2>1, PackBytes
<1>2. 3 \in 0 .. Len(p) /\ Len(p) - 3 = n
  BY <1>1
<1> HIDE DEF p, n
<1>3. /\ t \in Seq(Byte) /\ Len(t) = n + Len(r)
      /\ SubSeq(b, 1, 3) \o SubSeq(t, 1, n) = p
      /\ Rest(t, n) = r
  BY <1>1, <1>2, TwoReads
<1>4. clearBufferN(b, 3) = t
  <2>1. b \in Seq(Byte) /\ Len(b) = Len(p) + Len(r)
    BY <1>1, CutJoin
  <2> HIDE DEF b
  <2>2. 3 \in 0 .. Len(b)
    BY <1>1, <2>1
  <2>3. QED
    BY <2>1, <2>2, ListOperations DEF t
<1> HIDE DEF b, t
<1>5. readBufferN(t, n) = SubSeq(t, 1, n) /\ clearBufferN(t, n) = Rest(t, n)
  <2>1. n \in 0 .. Len(t)
    BY <1>1, <1>3
  <2>2. QED
    BY <1>3, <2>1, ListOperations
<1>6. QED
  BY <1>3, <1>4, <1>5 DEF p, n, t, b

(* A buffer that begins like a packet and is shorter ends the reading.     *)
LEMMA RoundIncomplete ==
  ASSUME NEW d \in Data, NEW s, s.buf \in Seq(Byte), s.data = <<>>, ~ s.done,
         4 <= Len(s.buf), Len(s.buf) < Len(pack(d)),
         \A i \in 1 .. 3 : s.buf[i] = pack(d)[i]
  PROVE  Reader!Round(s) = [s EXCEPT !.done = TRUE]
<1> DEFINE b == s.buf
           h == SubSeq(b, 1, 3)
<1>1. Len(b) \in Nat /\ 3 <= Len(b)
  BY LenProperties
<1>2. /\ s.data \o readBufferN(b, 3) = h
      /\ h[1] = HeadByte
      /\ Reader!UnpackNum(Tail(h)) = Len(d)
  BY <1>1, HeadOfPacket
<1>3. Reader!Incomplete(b, Len(d))
  BY IncompleteIffShort
<1>4. ~ (s.done \/ readSize(b) < Reader!PacketMinSize)
  BY <1>1 DEF Reader!PacketMinSize, readSize
<1> HIDE DEF h
<1>5. QED
  BY <1>2, <1>3, <1>4 DEF Reader!Round

(* A buffer that begins with a whole packet: the round hands its data over *)
(* and leaves what follows.                                                *)
LEMMA RoundFound ==
  ASSUME NEW d \in Data, NEW r \in Seq(Byte), NEW s,
         s.buf = pack(d) \o r, s.data = <<>>, ~ s.done
  PROVE  Reader!Round(s) = [buf |-> r, data |-> <<>>, done |-> FALSE,
                            out |-> Append(s.out, d)]
<1> DEFINE b == s.buf
           p == pack(d)
           h == SubSeq(b, 1, 3)
           t == clearBufferN(b, 3)
<1>1. /\ p \in Seq(Byte) /\ Len(p) \in Nat /\ 4 <= Len(p) /\ Len(r) \in Nat
      /\ p[Len(p)] = EndByte
  <2>1. Len(d) \in Nat /\ Len(r) \in Nat
    BY Sizes, LenProperties
  <2>2. QED
    BY <2>1, PackBytes
<1>2. /\ b \in Seq(Byte) /\ Len(b) = Len(p) + Len(r)
      /\ \A i \in 1 .. 3 : b[i] = p[i]
  <2>1. /\ p \o r \in Seq(Byte) /\ Len(p \o r) = Len(p) + Len(r)
        /\ \A i \in 1 .. Len(p) : (p \o r)[i] = p[i]
    BY <1>1, CutJoin
  <2> HIDE DEF p
  <2>2. \A i \in 1 .. 3 : i \in 1 .. Len(p)
    BY <1>1
  <2>3. QED
    BY <2>1, <2>2 DEF p
<1>3. /\ s.data \o readBufferN(b, 3) = h
      /\ h[1] = HeadByte
      /\ Reader!UnpackNum(Tail(h)) = Len(d)
  <2>1. 3 <= Len(b)
    BY <1>1, <1>2
  <2>2. QED
    BY <1>2, <2>1, HeadOfPacket
<1>4. /\ h \o readBufferN(t, Len(d) + 1) = p
      /\ clearBufferN(t, Len(d) + 1) = r
  BY BodyOfPacket
<1>5. ~ Reader!Incomplete(b, Len(d))
  <2>1. ~ (Len(b) < Len(p))
    BY <1>1, <1>2
  <2>2. QED
    BY <2>1, IncompleteIffShort
<1>6. ~ (s.done \/ readSize(b) < Reader!PacketMinSize)
  BY <1>1, <1>2 DEF Reader!PacketMinSize, readSize
<1>7. Reader!Last(p) = EndByte
  BY <1>1 DEF Reader!Last
<1>8. Reader!Found(s, r, p) = [buf |-> r, data |-> <<>>, done |-> FALSE,
                               out |-> Append(s.out, d)]
  BY PackData DEF Reader!Found
<1> HIDE DEF h, t, p
<1>9. Reader!Round(s) = Reader!Found(s, r, p)
  <2>1. clearBufferN(s.buf, 3) = t
    BY DEF t
  <2>2. QED
    BY <1>3, <1>4, <1>5, <1>6, <1>7, <2>1 DEF Reader!Round
<1>10. QED
  BY <1>8, <1>9

(***************************************************************************)
(* The whole reading.                                                      *)
(***************************************************************************)

(* The states the loop passes through when q are the packets whose bytes   *)
(* are in the buffer and, from w on, still on the wire: the first packets  *)
(* of q have been taken, the buffer begins at the next one, and at the end *)
(* it has less than that one.                                              *)
Reading(q, w) ==
  {s \in [buf : Seq(Byte), data : {<<>>}, done : BOOLEAN, out : Seq(Data)] :
     \E k \in 0 .. Len(q) :
        /\ s.out = SubSeq(q, 1, k)
        /\ s.buf \o w = Frames(Rest(q, k))
        /\ s.done /\ k < Len(q) => Len(s.buf) < Len(pack(q[k + 1]))}

(* An element of a record set is known by its fields.                      *)
LEMMA Stopped ==
  ASSUME NEW q, NEW w, NEW s \in Reading(q, w)
  PROVE  /\ [s EXCEPT !.done = TRUE] =
                [buf |-> s.buf, data |-> <<>>, done |-> TRUE, out |-> s.out]
         /\ s.buf \in Seq(Byte) /\ s.out \in Seq(Data) /\ s.data = <<>>
         /\ s.done \in BOOLEAN
         /\ s.done => [s EXCEPT !.done = TRUE] = s
<1> DEFINE States == [buf : Seq(Byte), data : {<<>>}, done : BOOLEAN, out : Seq(Data)]
<1>1. s \in States
  BY DEF Reading
<1>2. /\ s.buf \in Seq(Byte) /\ s.out \in Seq(Data) /\ s.data = <<>>
      /\ s.done \in BOOLEAN
  BY <1>1
<1>3. s = [buf |-> s.buf, data |-> s.data, done |-> s.done, out |-> s.out]
  BY <1>1
<1>4. [s EXCEPT !.done = TRUE] =
         [buf |-> s.buf, data |-> s.data, done |-> TRUE, out |-> s.out]
  <2>1. ASSUME NEW e
        PROVE  [s EXCEPT !.done = e] =
                  [buf |-> s.buf, data |-> s.data, done |-> e, out |-> s.out]
    BY <1>1
  <2>2. QED
    BY <2>1, Zenon
<1> HIDE DEF States
<1>5. s.done => s.done = TRUE
  BY <1>2
<1>6. QED
  BY <1>2, <1>3, <1>4, <1>5

(* Every round keeps to these states, and takes bytes unless it is the     *)
(* last: the loop ends.                                                    *)
LEMMA RoundReads ==
  ASSUME NEW q \in Seq(Data), NEW w \in Seq(Byte), NEW s \in Reading(q, w)
  PROVE  /\ Reader!Round(s) \in Reading(q, w)
         /\ Reader!Round(s).done \/ Len(Reader!Round(s).buf) < Len(s.buf)
<1> DEFINE b == s.buf
           stop == [buf |-> b, data |-> <<>>, done |-> TRUE, out |-> s.out]
<1>1. /\ b \in Seq(Byte) /\ s.out \in Seq(Data) /\ s.data = <<>>
      /\ [s EXCEPT !.done = TRUE] = stop
  BY Stopped
<1>2. PICK k \in 0 .. Len(q) :
        /\ s.out = SubSeq(q, 1, k)
        /\ b \o w = Frames(Rest(q, k))
        /\ s.done /\ k < Len(q) => Len(b) < Len(pack(q[k + 1]))
  BY DEF Reading
<1>3. Len(b) \in Nat /\ Len(w) \in Nat /\ Len(q) \in Nat
  BY <1>1, LenProperties
<1>4. ASSUME Reader!Round(s) = stop, k < Len(q) => Len(b) < Len(pack(q[k + 1]))
      PROVE  Reader!Round(s) \in Reading(q, w) /\ Reader!Round(s).done
  <2>1. stop \in Reading(q, w)
    <3> HIDE DEF b
    <3>1. QED
      BY <1>1, <1>2, <1>4 DEF Reading
  <2>2. QED
    BY <1>4, <2>1
<1>5. CASE s.done
  <2>1. Reader!Round(s) = stop
    BY <1>1, <1>5 DEF Reader!Round
  <2>2. QED
    BY <1>2, <1>4, <1>5, <2>1
<1>6. CASE ~ s.done /\ Len(b) < 4
  <2>1. Reader!Round(s) = stop
    BY <1>1, <1>6 DEF Reader!Round, Reader!PacketMinSize, readSize
  <2>2. ASSUME k < Len(q)
        PROVE  Len(b) < Len(pack(q[k + 1]))
    <3>1. k \in 0 .. Len(q) - 1
      BY <1>3, <2>2
    <3>2. q[k + 1] \in Data
      BY <3>1, FramesNext
    <3>3. Len(pack(q[k + 1])) = Len(q[k + 1]) + 4 /\ Len(q[k + 1]) \in Nat
      BY <3>2, PackBytes, Sizes
    <3> HIDE DEF b
    <3>4. QED
      BY <1>3, <1>6, <3>3
  <2>3. QED
    BY <1>4, <2>1, <2>2
<1>7. CASE ~ s.done /\ ~ (Len(b) < 4)
  <2>1. k < Len(q)
    <3>1. SUFFICES ASSUME k = Len(q)
                   PROVE  FALSE
      BY <1>3
    <3>2. Rest(q, k) = <<>>
      <4>1. Len(q) + 1 \in Int /\ Len(q) \in Int /\ Len(q) < Len(q) + 1
        BY <1>3
      <4>2. QED
        BY <3>1, <4>1, SubSeqEmpty DEF Rest
    <3>3. b \o w = <<>>
      BY <1>2, <3>2, FramesEmpty
    <3>4. b = <<>>
      <4> HIDE DEF b
      <4>1. QED
        BY <1>1, <3>3, ConcatEqualIffEmpty
    <3>5. Len(b) = 0
      BY <3>4
    <3>6. QED
      BY <1>7, <3>5
  <2> DEFINE d == q[k + 1]
             p == pack(d)
             R == Frames(Rest(q, k + 1))
  <2>2. k \in 0 .. Len(q) - 1 /\ k + 1 \in 0 .. Len(q)
    BY <1>3, <2>1
  <2>3. d \in Data /\ R \in Seq(Byte) /\ b \o w = p \o R
    BY <1>2, <2>2, FramesNext
  <2>4. /\ p \in Seq(Byte) /\ Len(p) = Len(d) + 4 /\ Len(d) \in Nat
    BY <2>3, PackBytes, Sizes
  <2> HIDE DEF d, R
  <2>5. CASE Len(b) < Len(p)
    <3>1. ASSUME NEW i \in 1 .. 3
          PROVE  b[i] = p[i]
      <4> HIDE DEF b, p
      <4>1. (b \o w)[i] = b[i]
        <5>1. \A j \in 1 .. Len(b) : (b \o w)[j] = b[j]
          BY <1>1, CutJoin
        <5>2. i \in 1 .. Len(b)
          BY <1>3, <1>7
        <5>3. QED
          BY <5>1, <5>2
      <4>2. (p \o R)[i] = p[i]
        <5>1. \A j \in 1 .. Len(p) : (p \o R)[j] = p[j]
          BY <2>3, <2>4, CutJoin
        <5>2. i \in 1 .. Len(p)
          BY <2>4
        <5>3. QED
          BY <5>1, <5>2
      <4>3. QED
        BY <2>3, <4>1, <4>2
    <3>2. 4 <= Len(b)
      BY <1>3, <1>7
    <3>3. Reader!Round(s) = [s EXCEPT !.done = TRUE]
      BY <1>1, <1>7, <2>3, <2>5, <3>1, <3>2, RoundIncomplete
    <3>4. QED
      BY <1>1, <1>4, <2>5, <3>3 DEF d
  <2>6. CASE ~ (Len(b) < Len(p))
    <3> DEFINE r == Rest(b, Len(p))
               next == [buf |-> r, data |-> <<>>, done |-> FALSE,
                        out |-> Append(s.out, d)]
    <3>1. b = p \o r /\ r \o w = R
      <4>1. Len(p) <= Len(b)
        BY <1>3, <2>4, <2>6
      <4>2. b \in Seq(Byte) /\ p \in Seq(Byte) /\ R \in Seq(Byte) /\ b \o w = p \o R
        BY <1>1, <2>3, <2>4
      <4> HIDE DEF b, p
      <4>3. QED
        BY <4>1, <4>2, CutFrame, Zenon
    <3>2. r \in Seq(Byte) /\ Len(r) < Len(b)
      <4>1. Len(p) \in 0 .. Len(b)
        BY <1>3, <2>4, <2>6
      <4> HIDE DEF b, p
      <4>2. r \in Seq(Byte) /\ Len(r) = Len(b) - Len(p)
        BY <1>1, <4>1, CutProperties
      <4>3. QED
        BY <1>3, <2>4, <4>2
    <3> HIDE DEF r
    <3>3. Reader!Round(s) = next
      BY <1>1, <1>7, <2>3, <3>1, <3>2, RoundFound
    <3>4. Append(s.out, d) = SubSeq(q, 1, k + 1) /\ Append(s.out, d) \in Seq(Data)
      <4>1. 1 \in 1 .. Len(q) /\ k + 1 \in 1 .. Len(q) /\ k + 1 - 1 = k
        BY <1>3, <2>2
      <4>2. SubSeq(q, 1, k + 1) = SubSeq(q, 1, k + 1 - 1) \o <<q[k + 1]>>
        BY <4>1, SubSeqRecursiveSecond
      <4>3. Append(s.out, d) = s.out \o <<d>> /\ Append(s.out, d) \in Seq(Data)
        BY <1>1, <2>3, AppendIsConcat, AppendProperties
      <4>4. QED
        BY <1>2, <4>1, <4>2, <4>3 DEF d
    <3>5. next \in Reading(q, w)
      <4>1. r \o w = Frames(Rest(q, k + 1))
        BY <3>1 DEF R
      <4>2. next \in [buf : Seq(Byte), data : {<<>>}, done : BOOLEAN, out : Seq(Data)]
        BY <3>2, <3>4
      <4>3. QED
        BY <2>2, <3>4, <4>1, <4>2 DEF Reading
    <3>6. QED
      BY <3>2, <3>3, <3>5
  <2>7. QED
    BY <2>5, <2>6
<1>8. QED
  BY <1>5, <1>6, <1>7

(* readPackets ends, with all whole packets taken in order and less than   *)
(* one left.                                                               *)
THEOREM ReadPackets ==
  ASSUME NEW q \in Seq(Data), NEW w \in Seq(Byte), NEW b \in Seq(Byte),
         b \o w = Frames(q)
  PROVE  Reader!readPackets(b) \in Reading(q, w) /\ Reader!readPackets(b).done
<1> DEFINE N == Len(b) + 1
           T == Reading(q, w)
           start == [buf |-> b, data |-> <<>>, done |-> FALSE, out |-> <<>>]
           IsAfter(f) == f = [n \in 0 .. N |-> IF n = 0 THEN start
                                               ELSE Reader!Round(f[n - 1])]
           after == CHOOSE f : IsAfter(f)
<1>1. Len(b) \in Nat /\ N \in Nat /\ Len(q) \in Nat
  BY LenProperties
<1>2. Reader!readPackets(b) = after[N]
  BY DEF Reader!readPackets, readSize
<1>3. start \in T
  <2>1. SubSeq(q, 1, 0) = <<>> /\ Rest(q, 0) = q
    <3>1. Rest(q, 0) = q
      BY SubSeqFull DEF Rest
    <3>2. QED
      BY <3>1, SubSeqEmpty
  <2>2. start \in [buf : Seq(Byte), data : {<<>>}, done : BOOLEAN, out : Seq(Data)]
    BY EmptySeq
  <2>3. 0 \in 0 .. Len(q)
    BY <1>1
  <2>4. QED
    BY <2>1, <2>2, <2>3 DEF Reading
<1>4. \A t \in T : /\ Reader!Round(t) \in T
                   /\ Reader!Round(t).done \/ Len(Reader!Round(t).buf) < Len(t.buf)
  BY RoundReads
<1>5. \A t \in T : /\ Len(t.buf) \in Nat
                   /\ t.done => Reader!Round(t).done
  <2>1. SUFFICES ASSUME NEW t \in T
                 PROVE  Len(t.buf) \in Nat /\ (t.done => Reader!Round(t).done)
    OBVIOUS
  <2>2. t.buf \in Seq(Byte) /\ (t.done => [t EXCEPT !.done = TRUE] = t)
    BY Stopped
  <2>3. ASSUME t.done
        PROVE  Reader!Round(t).done
    <3>1. Reader!Round(t) = [t EXCEPT !.done = TRUE]
      BY <2>3 DEF Reader!Round
    <3>2. QED
      BY <2>2, <2>3, <3>1
  <2>4. QED
    BY <2>2, <2>3, LenProperties
<1>6. Len(start.buf) = N - 1
  BY <1>1
<1> HIDE DEF T, start
<1>7. \E f : IsAfter(f)
  <2> DEFINE h == [t \in T |-> Reader!Round(t)]
  <2>1. \A t \in T : h[t] = Reader!Round(t) /\ h[t] \in T
    BY <1>4
  <2> HIDE DEF h, N
  <2>2. PICK f : IsLoop(N, T, start, h, f)
    BY <1>1, <1>3, <2>1, LoopExists
  <2> DEFINE g == [n \in 0 .. N |-> IF n = 0 THEN start ELSE Reader!Round(f[n - 1])]
  <2>3. ASSUME NEW n \in 0 .. N
        PROVE  (IF n = 0 THEN start ELSE h[f[n - 1]])
                 = IF n = 0 THEN start ELSE Reader!Round(f[n - 1])
    <3>1. CASE n = 0
      BY <3>1
    <3>2. CASE n # 0
      <4>1. n - 1 \in 0 .. N
        BY <1>1, <3>2
      <4>2. f[n - 1] \in T
        BY <2>2, <4>1 DEF IsLoop
      <4>3. QED
        BY <2>1, <3>2, <4>2
    <3>3. QED
      BY <3>1, <3>2
  <2>4. f = g
    BY <2>2, <2>3 DEF IsLoop
  <2>5. IsAfter(f)
    BY <2>4
  <2> HIDE DEF IsAfter
  <2>6. QED
    BY <2>5
<1>8. IsAfter(after)
  <2> HIDE DEF IsAfter
  <2>1. QED
    BY <1>7
<1> HIDE DEF after
<1>9. \A n \in 0 .. N : after[n] = IF n = 0 THEN start ELSE Reader!Round(after[n - 1])
  BY <1>8
<1> HIDE DEF IsAfter
<1> DEFINE G == {n \in 0 .. N : /\ after[n] \in T
                               /\ (after[n].done \/ Len(after[n].buf) + n <= N - 1)}
<1>10. 0 \in G
  BY <1>1, <1>3, <1>6, <1>9
<1>11. ASSUME NEW n \in 1 .. N, n - 1 \in G
       PROVE  n \in G
  <2> DEFINE t == after[n - 1]
             u == after[n]
  <2>1. t \in T /\ (t.done \/ Len(t.buf) + (n - 1) <= N - 1)
    BY <1>11
  <2>2. n \in 0 .. N /\ n # 0
    BY <1>1
  <2>3. u = Reader!Round(t)
    BY <1>9, <2>2
  <2> HIDE DEF t, u
  <2>4. /\ u \in T /\ (u.done \/ Len(u.buf) < Len(t.buf))
        /\ Len(t.buf) \in Nat /\ Len(u.buf) \in Nat /\ (t.done => u.done)
    BY <1>4, <1>5, <2>1, <2>3
  <2>5. u.done \/ Len(u.buf) + n <= N - 1
    <3>1. CASE u.done
      BY <3>1
    <3>2. CASE ~ u.done
      <4>1. Len(u.buf) < Len(t.buf) /\ Len(t.buf) + (n - 1) <= N - 1
        BY <2>1, <2>4, <3>2
      <4> HIDE DEF N
      <4>2. QED
        BY <1>1, <2>4, <4>1
    <3>3. QED
      BY <3>1, <3>2
  <2>6. QED
    BY <2>2, <2>4, <2>5 DEF u
<1>12. N \in G
  <2> HIDE DEF G, N
  <2>1. \A n \in 0 .. N : n \in G
    BY <1>1, <1>10, <1>11, CountUp
  <2>2. QED
    BY <1>1, <2>1
<1>13. after[N] \in T /\ after[N].done
  <2>1. after[N] \in T /\ (after[N].done \/ Len(after[N].buf) + N <= N - 1)
    BY <1>12
  <2>2. Len(after[N].buf) \in Nat
    BY <1>5, <2>1
  <2> HIDE DEF N
  <2>3. QED
    BY <1>1, <2>1, <2>2
<1>14. QED
  BY <1>2, <1>13 DEF T

(***************************************************************************)
(* The reader with a list.                                                 *)
(***************************************************************************)

(* The beginning of a sequence is what IsPrefix says it is.                *)
LEMMA PrefixIs ==
  ASSUME NEW S, NEW s \in Seq(S), NEW r \in Seq(S)
  PROVE  IsPrefix(r, s) <=> Len(r) <= Len(s) /\ r = SubSeq(s, 1, Len(r))
<1>1. SubSeq(r, 1, Len(r)) = r
  BY SubSeqFull
<1>2. QED
  BY <1>1 DEF IsPrefix

(* A sequence is the beginning of what it is extended to.                  *)
LEMMA PrefixOfMore ==
  ASSUME NEW S, NEW r \in Seq(S), NEW t \in Seq(S)
  PROVE  IsPrefix(r, r \o t)
<1>1. r \o t \in Seq(S) /\ Len(r \o t) = Len(r) + Len(t) /\ SubSeq(r \o t, 1, Len(r)) = r
  BY CutJoin
<1>2. Len(r) \in Nat /\ Len(t) \in Nat
  BY LenProperties
<1>3. Len(r) <= Len(r \o t)
  BY <1>1, <1>2
<1> DEFINE m == r \o t
<1> HIDE DEF m
<1>4. m \in Seq(S) /\ Len(r) <= Len(m) /\ r = SubSeq(m, 1, Len(r))
  BY <1>1, <1>3 DEF m
<1>5. IsPrefix(r, m)
  BY <1>4, PrefixIs
<1>6. QED
  BY <1>5 DEF m

(* One more element at the end of a sequence.                              *)
LEMMA AppendRest ==
  ASSUME NEW S, NEW s \in Seq(S), NEW e \in S, NEW n \in 0 .. Len(s)
  PROVE  /\ Append(s, e) \in Seq(S) /\ Len(Append(s, e)) = Len(s) + 1
         /\ SubSeq(Append(s, e), 1, n) = SubSeq(s, 1, n)
         /\ Rest(Append(s, e), n) = Append(Rest(s, n), e)
<1> DEFINE a == Append(s, e)
           t == Rest(a, n)
           r == Rest(s, n)
           u == Append(r, e)
           f == SubSeq(a, 1, n)
           g == SubSeq(s, 1, n)
<1>1. Len(s) \in Nat
  BY LenProperties
<1>2. /\ a \in Seq(S) /\ Len(a) = Len(s) + 1
      /\ \A i \in 1 .. Len(s) : a[i] = s[i]
      /\ a[Len(s) + 1] = e
  BY AppendProperties
<1> HIDE DEF a
<1>3. n \in 0 .. Len(a)
  BY <1>1, <1>2
<1>4. /\ t \in Seq(S) /\ Len(t) = Len(a) - n /\ \A i \in 1 .. Len(a) - n : t[i] = a[n + i]
      /\ f \in Seq(S) /\ Len(f) = n /\ \A i \in 1 .. n : f[i] = a[i]
  BY <1>2, <1>3, CutProperties
<1>5. /\ r \in Seq(S) /\ Len(r) = Len(s) - n /\ \A i \in 1 .. Len(s) - n : r[i] = s[n + i]
      /\ g \in Seq(S) /\ Len(g) = n /\ \A i \in 1 .. n : g[i] = s[i]
  BY CutProperties
<1> HIDE DEF t, r, f, g
<1>6. /\ u \in Seq(S) /\ Len(u) = Len(r) + 1
      /\ \A i \in 1 .. Len(r) : u[i] = r[i]
      /\ u[Len(r) + 1] = e
  BY <1>5, AppendProperties
<1> HIDE DEF u
<1>7. t = u
  <2>1. Len(t) = Len(u)
    BY <1>1, <1>2, <1>4, <1>5, <1>6
  <2>2. ASSUME NEW i \in 1 .. Len(t)
        PROVE  t[i] = u[i]
    <3>1. t[i] = a[n + i]
      BY <1>4
    <3>2. CASE i = Len(r) + 1
      <4>1. n + i = Len(s) + 1
        BY <1>1, <1>5, <3>2
      <4>2. QED
        BY <1>2, <1>6, <3>1, <3>2, <4>1
    <3>3. CASE i # Len(r) + 1
      <4>1. i \in 1 .. Len(r) /\ n + i \in 1 .. Len(s)
        BY <1>1, <1>2, <1>4, <1>5, <3>3
      <4>2. r[i] = s[n + i]
        BY <1>5, <4>1
      <4>3. QED
        BY <1>2, <1>6, <3>1, <4>1, <4>2
    <3>4. QED
      BY <3>2, <3>3
  <2>3. QED
    BY <1>4, <1>6, <2>1, <2>2, SeqEqual
<1>8. f = g
  <2>1. ASSUME NEW i \in 1 .. n
        PROVE  f[i] = g[i]
    <3>1. i \in 1 .. Len(s)
      BY <1>1
    <3>2. QED
      BY <1>2, <1>4, <1>5, <3>1
  <2>2. Len(f) = Len(g) /\ \A i \in 1 .. Len(f) : f[i] = g[i]
    BY <1>4, <1>5, <2>1
  <2>3. QED
    BY <1>4, <1>5, <2>2, SeqEqual
<1>9. QED
  BY <1>2, <1>7, <1>8 DEF a, t, r, u, f, g

(* What a step of Write or OnMessage keeps: what has been handed over is   *)
(* the beginning of what was written, and the bytes of the rest are all    *)
(* there, with less than a packet of them in the buffer.                   *)
Framed == TypeOK /\ StickingSolved /\ BytesAccounted /\ NothingWithheld

(* In the words of the lemmas above.                                       *)
LEMMA FramedFacts ==
  ASSUME Framed
  PROVE  /\ wire \in Seq(Byte) /\ buffer_ \in Seq(Byte)
         /\ sent \in Seq(Data) /\ received \in Seq(Data)
         /\ Len(received) \in 0 .. Len(sent)
         /\ received = SubSeq(sent, 1, Len(received))
         /\ Undelivered = Rest(sent, Len(received))
         /\ Undelivered \in Seq(Data)
         /\ buffer_ \o wire = Frames(Undelivered)
         /\ Undelivered # <<>> => Len(buffer_) < Len(pack(Undelivered[1]))
<1>1. /\ wire \in Seq(Byte) /\ buffer_ \in Seq(Byte)
      /\ sent \in Seq(Data) /\ received \in Seq(Data)
  BY DEF Framed, TypeOK
<1>2. Len(received) <= Len(sent) /\ received = SubSeq(sent, 1, Len(received))
  BY <1>1, PrefixIs DEF Framed, StickingSolved
<1>3. Len(received) \in 0 .. Len(sent)
  BY <1>1, <1>2, LenProperties
<1>4. Undelivered = Rest(sent, Len(received)) /\ Undelivered \in Seq(Data)
  BY <1>1, <1>3, CutProperties DEF Undelivered, Rest
<1>5. QED
  BY <1>1, <1>2, <1>3, <1>4 DEF Framed, BytesAccounted, NothingWithheld

(* Writing a packet puts its bytes behind those of the others.             *)
LEMMA WriteStep ==
  ASSUME Framed, NEW d \in Data, Write(d)
  PROVE  Framed'
<1> DEFINE m == Len(received)
           U == Undelivered
<1>1. /\ wire \in Seq(Byte) /\ buffer_ \in Seq(Byte)
      /\ sent \in Seq(Data) /\ received \in Seq(Data)
      /\ m \in 0 .. Len(sent) /\ received = SubSeq(sent, 1, m)
      /\ U = Rest(sent, m) /\ U \in Seq(Data)
      /\ buffer_ \o wire = Frames(U)
      /\ U # <<>> => Len(buffer_) < Len(pack(U[1]))
  BY FramedFacts
<1>2. /\ sent' = Append(sent, d) /\ wire' = wire \o pack(d)
      /\ buffer_' = buffer_ /\ received' = received
  BY DEF Write
<1>3. /\ Append(sent, d) \in Seq(Data) /\ Len(Append(sent, d)) = Len(sent) + 1
      /\ SubSeq(Append(sent, d), 1, m) = SubSeq(sent, 1, m)
      /\ Rest(Append(sent, d), m) = Append(Rest(sent, m), d)
  BY <1>1, AppendRest
<1>4. pack(d) \in Seq(Byte) /\ Len(pack(d)) = Len(d) + 4 /\ Len(d) \in Nat
  BY PackBytes, Sizes
<1>5. TypeOK'
  <2>1. wire \o pack(d) \in Seq(Byte)
    BY <1>1, <1>4, ConcatProperties
  <2>2. QED
    BY <1>1, <1>2, <1>3, <2>1 DEF TypeOK
<1>6. StickingSolved'
  <2> DEFINE more == Append(sent, d)
  <2>1. m <= Len(more)
    BY <1>1, <1>3, LenProperties
  <2>2. received = SubSeq(more, 1, m)
    BY <1>1, <1>3
  <2>3. more \in Seq(Data)
    BY <1>3
  <2> HIDE DEF more
  <2>4. IsPrefix(received, more)
    BY <1>1, <2>1, <2>2, <2>3, PrefixIs
  <2>5. QED
    BY <1>2, <2>4 DEF StickingSolved, more
<1>7. Undelivered' = Append(U, d)
  <2>1. Undelivered' = Rest(Append(sent, d), m)
    BY <1>2 DEF Undelivered, Rest
  <2>2. QED
    BY <1>1, <1>3, <2>1
<1> HIDE DEF U
<1>8. BytesAccounted'
  <2>1. Frames(Append(U, d)) = Frames(U) \o pack(d)
    BY <1>1, FramesAppend
  <2>2. (buffer_ \o wire) \o pack(d) = buffer_ \o (wire \o pack(d))
    <3>1. wire \in Seq(Byte) /\ buffer_ \in Seq(Byte) /\ pack(d) \in Seq(Byte)
      BY <1>1, <1>4
    <3>2. QED
      BY <3>1, ConcatAssociative
  <2>3. QED
    BY <1>1, <1>2, <1>7, <2>1, <2>2 DEF BytesAccounted
<1>9. NothingWithheld'
  <2>1. CASE U = <<>>
    <3>1. buffer_ \o wire = <<>>
      BY <1>1, <2>1, FramesEmpty
    <3>2. buffer_ = <<>>
      BY <1>1, <3>1, ConcatEqualIffEmpty
    <3>3. Append(U, d)[1] = d /\ Len(buffer_) = 0
      BY <2>1, <3>2
    <3>4. QED
      BY <1>2, <1>4, <1>7, <3>3 DEF NothingWithheld
  <2>2. CASE U # <<>>
    <3>1. Append(U, d)[1] = U[1]
      <4>1. Len(U) \in Nat \ {0} /\ \A i \in 1 .. Len(U) : Append(U, d)[i] = U[i]
        BY <1>1, <2>2, EmptySeq, AppendProperties
      <4>2. QED
        BY <4>1
    <3>2. QED
      BY <1>1, <1>2, <1>7, <2>2, <3>1 DEF NothingWithheld
  <2>3. QED
    BY <2>1, <2>2
<1>10. QED
  BY <1>5, <1>6, <1>8, <1>9 DEF Framed

(* A read hands over the next packets that are complete, and only those.   *)
LEMMA ReadStep ==
  ASSUME Framed, HEADLENGTH <= MinRead, NEW n \in 1 .. Len(wire), OnMessage(n)
  PROVE  /\ Framed'
         /\ IsPrefix(received, received') /\ IsPrefix(received', sent)
         /\ sent' = sent
<1> DEFINE m == Len(received)
           U == Undelivered
           w == Rest(wire, n)
           b == buffer_ \o SubSeq(wire, 1, n)
           s == Reader!readPackets(b)
<1>1. /\ wire \in Seq(Byte) /\ buffer_ \in Seq(Byte)
      /\ sent \in Seq(Data) /\ received \in Seq(Data)
      /\ m \in 0 .. Len(sent) /\ received = SubSeq(sent, 1, m)
      /\ U = Rest(sent, m) /\ U \in Seq(Data)
      /\ buffer_ \o wire = Frames(U)
  BY FramedFacts
<1>2. Len(wire) \in Nat /\ Len(sent) \in Nat /\ n \in 0 .. Len(wire)
  BY <1>1, LenProperties
<1>3. /\ sent' = sent /\ wire' = w /\ buffer_' = s.buf
      /\ received' = received \o s.out
  <2>1. ~ (n < HEADLENGTH)
    BY FramingAssumption DEF FramingAssumption, OnMessage
  <2>2. clearBufferN(wire, n) = w
    BY DEF clearBufferN, Rest
  <2>3. QED
    BY <2>1, <2>2 DEF OnMessage
<1>4. /\ w \in Seq(Byte) /\ SubSeq(wire, 1, n) \in Seq(Byte)
      /\ SubSeq(wire, 1, n) \o w = wire
  BY <1>1, <1>2, CutProperties
<1>5. b \in Seq(Byte) /\ b \o w = Frames(U)
  <2> DEFINE f == SubSeq(wire, 1, n)
  <2>1. f \in Seq(Byte) /\ w \in Seq(Byte) /\ f \o w = wire
    BY <1>4
  <2> HIDE DEF f, w
  <2>2. (buffer_ \o f) \o w = buffer_ \o (f \o w)
    <3>1. buffer_ \in Seq(Byte) /\ f \in Seq(Byte) /\ w \in Seq(Byte)
      BY <1>1, <2>1
    <3>2. QED
      BY <3>1, ConcatAssociative, SMTT(60)
  <2>3. buffer_ \o f \in Seq(Byte)
    BY <1>1, <2>1, ConcatProperties
  <2>4. QED
    BY <1>1, <2>1, <2>2, <2>3 DEF f
<1> HIDE DEF U, w, b
<1>6. s \in Reading(U, w) /\ s.done
  BY <1>1, <1>4, <1>5, ReadPackets
<1> HIDE DEF s
<1>7. PICK k \in 0 .. Len(U) :
        /\ s.out = SubSeq(U, 1, k)
        /\ s.buf \o w = Frames(Rest(U, k))
        /\ k < Len(U) => Len(s.buf) < Len(pack(U[k + 1]))
  BY <1>6 DEF Reading
<1>8. s.buf \in Seq(Byte) /\ s.out \in Seq(Data)
  BY <1>6, Stopped
<1>9. k \in 0 .. Len(sent) - m /\ Len(U) = Len(sent) - m
  <2>1. Len(U) = Len(sent) - m
    BY <1>1, CutProperties
  <2>2. QED
    BY <2>1
<1>10. /\ received' = SubSeq(sent, 1, m + k)
       /\ Rest(U, k) = Rest(sent, m + k)
  <2>1. SubSeq(sent, 1, m) \o SubSeq(Rest(sent, m), 1, k) = SubSeq(sent, 1, m + k)
    BY <1>1, <1>9, ReadTwice
  <2>2. Rest(Rest(sent, m), k) = Rest(sent, m + k)
    BY <1>1, <1>9, RestRest
  <2>3. received' = SubSeq(sent, 1, m) \o SubSeq(Rest(sent, m), 1, k)
    BY <1>1, <1>3, <1>7
  <2>4. QED
    BY <1>1, <2>1, <2>2, <2>3
<1>11. m + k \in 0 .. Len(sent) /\ m \in Nat /\ k \in Nat
  BY <1>1, <1>2, <1>9
<1>12. received' \in Seq(Data) /\ Len(received') = m + k
  BY <1>1, <1>10, <1>11, CutProperties
<1>13. Undelivered' = Rest(U, k)
  BY <1>3, <1>10, <1>12 DEF Undelivered, Rest
<1>14. TypeOK'
  BY <1>1, <1>3, <1>4, <1>8, <1>12 DEF TypeOK
<1>15. IsPrefix(received', sent)
  <2> DEFINE r == SubSeq(sent, 1, m + k)
  <2>1. r = received' /\ r \in Seq(Data) /\ Len(r) = m + k /\ m + k <= Len(sent)
    BY <1>10, <1>11, <1>12
  <2>2. r = SubSeq(sent, 1, Len(r)) /\ Len(r) <= Len(sent)
    BY <2>1
  <2> HIDE DEF r
  <2>3. IsPrefix(r, sent)
    BY <1>1, <2>1, <2>2, PrefixIs
  <2>4. QED
    BY <2>1, <2>3
<1>16. StickingSolved'
  BY <1>3, <1>15 DEF StickingSolved
<1>17. BytesAccounted'
  BY <1>3, <1>7, <1>13 DEF BytesAccounted
<1>18. NothingWithheld'
  <2>1. /\ Rest(U, k) \in Seq(Data) /\ Len(Rest(U, k)) = Len(U) - k
        /\ \A i \in 1 .. Len(U) - k : Rest(U, k)[i] = U[k + i]
    BY <1>1, <1>7, CutProperties
  <2>2. ASSUME Rest(U, k) # <<>>
        PROVE  Len(s.buf) < Len(pack(Rest(U, k)[1]))
    <3>1. Len(Rest(U, k)) # 0
      BY <2>1, <2>2, EmptySeq
    <3>2. k < Len(U) /\ 1 \in 1 .. Len(U) - k
      BY <1>2, <1>9, <1>11, <2>1, <3>1
    <3>3. Rest(U, k)[1] = U[k + 1]
      BY <2>1, <3>2
    <3>4. QED
      BY <1>7, <3>2, <3>3
  <2>3. QED
    BY <1>3, <1>13, <2>2 DEF NothingWithheld
<1>19. IsPrefix(received, received')
  <2>1. IsPrefix(received, received \o s.out)
    BY <1>1, <1>8, PrefixOfMore
  <2>2. QED
    BY <1>3, <2>1
<1>20. QED
  BY <1>3, <1>14, <1>15, <1>16, <1>17, <1>18, <1>19 DEF Framed

(***************************************************************************)
(* Every behaviour of the reader with a list.                              *)
(***************************************************************************)
LEMMA InitFramed ==
  ASSUME Init
  PROVE  Framed
<1>1. wire = <<>> /\ buffer_ = <<>> /\ sent = <<>> /\ received = <<>>
  BY DEF Init
<1>2. Undelivered = <<>>
  BY <1>1 DEF Undelivered
<1>3. <<>> \in Seq(Byte) /\ <<>> \in Seq(Data)
  OBVIOUS
<1>4. TypeOK
  BY <1>1, <1>3 DEF TypeOK
<1>5. StickingSolved
  <2> DEFINE e == received
  <2>1. e \in Seq(Data) /\ e = sent
    BY <1>1, <1>3
  <2>2. Len(e) \in Nat /\ SubSeq(e, 1, Len(e)) = e
    BY <2>1, LenProperties, SubSeqFull
  <2> HIDE DEF e
  <2>3. IsPrefix(e, e)
    BY <2>1, <2>2, PrefixIs
  <2>4. QED
    BY <2>1, <2>3 DEF StickingSolved, e
<1>6. BytesAccounted
  <2>1. <<>> \o <<>> = <<>>
    OBVIOUS
  <2>2. QED
    BY <1>1, <1>2, <2>1, FramesEmpty DEF BytesAccounted
<1>7. NothingWithheld
  BY <1>2 DEF NothingWithheld
<1>8. QED
  BY <1>4, <1>5, <1>6, <1>7 DEF Framed

LEMMA NextFramed ==
  ASSUME Framed, HEADLENGTH <= MinRead, [Next]_vars
  PROVE  Framed'
<1>1. ASSUME NEW d \in Data, Write(d)
      PROVE  Framed'
  BY <1>1, WriteStep
<1>2. ASSUME NEW n \in 1 .. Len(wire), OnMessage(n)
      PROVE  Framed'
  BY <1>2, ReadStep
<1>3. CASE UNCHANGED vars
  BY <1>3 DEF vars, Framed, TypeOK, StickingSolved, BytesAccounted,
              NothingWithheld, Undelivered
<1>4. QED
  BY <1>1, <1>2, <1>3 DEF Next

(* As long as no read is shorter than the fields of a packet (those are    *)
(* thrown away), the four hold together in every state.                    *)
THEOREM FramedHolds ==
  ASSUME HEADLENGTH <= MinRead
  PROVE  Spec => []Framed
<1>1. Init => Framed
  BY InitFramed
<1>2. Framed /\ [Next]_vars => Framed'
  BY NextFramed
<1>3. QED
  BY <1>1, <1>2, PTL DEF Spec

(* What is buffered is bytes, and only packets that can be written are     *)
(* handed over: pack and readFromBuffer are inverse in what they produce.  *)
THEOREM FramingTypeCorrect ==
  ASSUME HEADLENGTH <= MinRead
  PROVE  Spec => []TypeOK
<1>1. Framed => TypeOK
  BY DEF Framed
<1>2. Spec => []Framed
  BY FramedHolds
<1>3. QED
  BY <1>1, <1>2, PTL

(* However TCP cuts the bytes, whatever the packets contain and however    *)
(* many there are: readFromBuffer neither skips nor invents a byte, and    *)
(* never takes a length or a data byte for a head.                         *)
THEOREM FramingLosesNoByte ==
  ASSUME HEADLENGTH <= MinRead
  PROVE  Spec => []BytesAccounted
<1>1. Framed => BytesAccounted
  BY DEF Framed
<1>2. Spec => []Framed
  BY FramedHolds
<1>3. QED
  BY <1>1, <1>2, PTL

(* After each read the loop around readFromBuffer has taken every packet   *)
(* that is complete, also when several arrived stuck together.             *)
THEOREM FramingWithholdsNothing ==
  ASSUME HEADLENGTH <= MinRead
  PROVE  Spec => []NothingWithheld
<1>1. Framed => NothingWithheld
  BY DEF Framed
<1>2. Spec => []Framed
  BY FramedHolds
<1>3. QED
  BY <1>1, <1>2, PTL

(* Task.md:55 is true of every reader whose reads are not shorter than the *)
(* fields of a packet: the packets handed over are those sent, in order.   *)
THEOREM StickingSolvedForLongReads ==
  ASSUME HEADLENGTH <= MinRead
  PROVE  Spec => []StickingSolved
<1>1. Framed => StickingSolved
  BY DEF Framed
<1>2. Spec => []Framed
  BY FramedHolds
<1>3. QED
  BY <1>1, <1>2, PTL

(* Write is a Send of PacketStream, and a read is a Deliver.               *)
LEMMA NextIsStream ==
  ASSUME Framed, HEADLENGTH <= MinRead, [Next]_vars
  PROVE  [Stream!Next]_<<sent, received>>
<1>1. ASSUME NEW d \in Data, Write(d)
      PROVE  Stream!Send
  BY <1>1 DEF Write, Stream!Send
<1>2. ASSUME NEW n \in 1 .. Len(wire), OnMessage(n)
      PROVE  Stream!Deliver
  <2>1. /\ IsPrefix(received, received') /\ IsPrefix(received', sent)
        /\ sent' = sent
    BY <1>2, ReadStep
  <2>2. Stream!IsPrefix(received, received') /\ Stream!IsPrefix(received', sent)
    BY <2>1 DEF IsPrefix, Stream!IsPrefix
  <2>3. QED
    BY <2>1, <2>2 DEF Stream!Deliver
<1>3. CASE UNCHANGED vars
  BY <1>3 DEF vars
<1>4. QED
  BY <1>1, <1>2, <1>3 DEF Next, Stream!Next

(* The bytes, the list and the loop together keep PacketStream's promise,  *)
(* which is what module Network takes a connection to be.                  *)
THEOREM FramingImplementsStream ==
  ASSUME HEADLENGTH <= MinRead
  PROVE  Spec => ImplementsStream
<1>1. Init => Stream!Init
  BY DEF Init, Stream!Init
<1>2. Framed /\ [Next]_vars => [Stream!Next]_<<sent, received>>
  BY NextIsStream
<1>3. Spec => []Framed
  BY FramedHolds
<1>4. QED
  BY <1>1, <1>2, <1>3, PTL DEF Spec, ImplementsStream, Stream!Spec

(***************************************************************************)
(* The ring, operation by operation.                                       *)
(***************************************************************************)
RP == INSTANCE CycleBufferProofs WITH Indeterminate <- -1

(* The states of an ArrayBuffer whose array was not initialized.           *)
Buffers ==
  [buffer_ : [Ring!Index -> Byte \cup {-1}],
   writeIndex_ : Ring!Index, readIndex_ : Ring!Index]

(* The facts of CycleBufferProofs are about the same ring.                 *)
LEMMA SameRing ==
  /\ RP!SizeAssumption
  /\ Buffers = RP!BufferOf(Byte \cup {-1})
  /\ Ring!ArrayBuffer = RP!ArrayBuffer
  /\ \A q : Ring!readSize(q) = RP!readSize(q) /\ Ring!Content(q) = RP!Content(q)
  /\ \A q, n : /\ Ring!readBufferN(q, n) = RP!readBufferN(q, n)
               /\ Ring!clearBufferN(q, n) = RP!clearBufferN(q, n)
  /\ \A q, d : Ring!append(q, d) = RP!append(q, d)
<1>1. RP!SizeAssumption
  BY RingAssumption DEF RingAssumption, Ring!SizeAssumption, RP!SizeAssumption
<1>2. Buffers = RP!BufferOf(Byte \cup {-1})
  BY DEF Buffers, RP!BufferOf, Ring!Index, RP!Index
<1>3. Ring!ArrayBuffer = RP!ArrayBuffer
  BY DEF Ring!ArrayBuffer, RP!ArrayBuffer, Ring!Index, RP!Index
<1>4. \A q : Ring!readSize(q) = RP!readSize(q) /\ Ring!readPart1(q) = RP!readPart1(q)
  BY DEF Ring!readSize, RP!readSize, Ring!readPart1, RP!readPart1,
         Ring!readPart2, RP!readPart2
<1>5. \A i : Ring!Wrap(i) = RP!Wrap(i)
  BY DEF Ring!Wrap, RP!Wrap
<1>6. \A q : Ring!Content(q) = RP!Content(q)
  BY <1>4, <1>5 DEF Ring!Content, RP!Content
<1>7. \A q, n : Ring!readBufferN(q, n) = RP!readBufferN(q, n)
  BY <1>4 DEF Ring!readBufferN, RP!readBufferN, Ring!Load, RP!Load
<1>8. \A q, n : Ring!clearBufferN(q, n) = RP!clearBufferN(q, n)
  BY <1>4, <1>5 DEF Ring!clearBufferN, RP!clearBufferN
<1>9. \A q, d : Ring!append(q, d) = RP!append(q, d)
  <2>1. \A q, d : Ring!StoreBoth(q, d) = RP!StoreBoth(q, d)
    BY DEF Ring!StoreBoth, RP!StoreBoth, Ring!Store, RP!Store, Ring!Index, RP!Index,
           Ring!usablePart1, RP!usablePart1
  <2>2. \A q : Ring!usableSize(q) = RP!usableSize(q)
    BY DEF Ring!usableSize, RP!usableSize, Ring!usablePart1, RP!usablePart1,
           Ring!usablePart2, RP!usablePart2
  <2>3. QED
    BY <1>5, <2>1, <2>2 DEF Ring!append, RP!append
<1>10. QED
  BY <1>1, <1>2, <1>3, <1>4, <1>6, <1>7, <1>8, <1>9

(* Reading and clearing do to the content what they do to a list, also     *)
(* when more is asked for than there is.                                   *)
LEMMA RingOperations ==
  ASSUME NEW q \in Buffers, Ring!Content(q) \in Seq(Byte), NEW n \in Nat
  PROVE  LET c == Ring!Content(q)
         IN  /\ Ring!readSize(q) = readSize(c)
             /\ Ring!readBufferN(q, n) = readBufferN(c, n)
             /\ readBufferN(c, n) \in Seq(Byte)
             /\ Ring!clearBufferN(q, n) \in Buffers
             /\ Ring!Content(Ring!clearBufferN(q, n)) = clearBufferN(c, n)
             /\ clearBufferN(c, n) \in Seq(Byte)
<1> DEFINE c == Ring!Content(q)
           z == Len(c)
           S == Byte \cup {-1}
<1>1. /\ RP!SizeAssumption /\ q \in RP!BufferOf(S) /\ c = RP!Content(q)
      /\ RP!readSize(q) = z /\ Ring!readSize(q) = z /\ z \in Nat
  <2>1. RP!SizeAssumption /\ q \in RP!BufferOf(S)
    BY SameRing
  <2>2. Len(RP!Content(q)) = RP!readSize(q)
    BY <2>1, RP!ContentType
  <2>3. QED
    BY <2>1, <2>2, SameRing, LenProperties
<1>2. ASSUME NEW k \in 0 .. z
      PROVE  /\ Ring!readBufferN(q, k) = SubSeq(c, 1, k)
             /\ Ring!clearBufferN(q, k) \in Buffers
             /\ Ring!Content(Ring!clearBufferN(q, k)) = Rest(c, k)
  <2>1. k \in 0 .. RP!readSize(q)
    BY <1>1
  <2>2. RP!readBufferN(q, k) = SubSeq(RP!Content(q), 1, k)
    BY <1>1, <2>1, RP!ReadContent
  <2>3. /\ RP!clearBufferN(q, k) \in RP!BufferOf(S)
        /\ RP!Content(RP!clearBufferN(q, k)) = SubSeq(RP!Content(q), k + 1, RP!readSize(q))
    BY <1>1, <2>1, RP!ClearContent
  <2>4. QED
    BY <1>1, <2>2, <2>3, SameRing DEF Rest
<1> HIDE DEF c
<1>3. c \in Seq(Byte)
  BY DEF c
<1>4. CASE n <= z
  <2>1. n \in 0 .. z
    BY <1>1, <1>4
  <2>2. /\ readBufferN(c, n) = SubSeq(c, 1, n) /\ clearBufferN(c, n) = Rest(c, n)
        /\ SubSeq(c, 1, n) \in Seq(Byte) /\ Rest(c, n) \in Seq(Byte)
    BY <1>3, <2>1, ListOperations, CutProperties
  <2>3. QED
    BY <1>1, <1>2, <2>1, <2>2 DEF c, readSize
<1>5. CASE ~ (n <= z)
  <2>1. n > z /\ z \in 0 .. z
    BY <1>1, <1>5
  <2>2. readBufferN(c, n) = <<>> /\ Ring!readBufferN(q, n) = <<>>
    BY <1>1, <2>1 DEF readBufferN, Ring!readBufferN
  <2>3. Ring!clearBufferN(q, n) = Ring!clearBufferN(q, z)
    BY <1>1, <2>1 DEF Ring!clearBufferN
  <2>4. Rest(c, z) = <<>> /\ clearBufferN(c, n) = <<>>
    BY <1>1, <2>1, SubSeqEmpty DEF Rest, clearBufferN
  <2>5. <<>> \in Seq(Byte)
    OBVIOUS
  <2>6. QED
    BY <1>1, <1>2, <2>1, <2>2, <2>3, <2>4, <2>5 DEF c, readSize
<1>6. QED
  BY <1>4, <1>5

(* Bytes for which there is room are put behind the content.               *)
LEMMA RingAppends ==
  ASSUME NEW q \in Buffers, NEW d \in Seq(Byte),
         Len(Ring!Content(q)) + Len(d) < CycleBufferSize
  PROVE  /\ Ring!append(q, d) \in Buffers
         /\ Ring!Content(Ring!append(q, d)) = Ring!Content(q) \o d
<1> DEFINE S == Byte \cup {-1}
<1>1. RP!SizeAssumption /\ q \in RP!BufferOf(S) /\ d \in Seq(S)
  <2>1. Seq(Byte) \subseteq Seq(S)
    OBVIOUS
  <2>2. QED
    BY <2>1, SameRing
<1>2. Len(RP!Content(q)) = RP!readSize(q)
  BY <1>1, RP!ContentType
<1>3. RP!readSize(q) + Len(d) < CycleBufferSize
  BY <1>2, SameRing
<1>4. /\ RP!append(q, d) \in RP!BufferOf(S)
      /\ RP!Content(RP!append(q, d)) = RP!Content(q) \o d
  BY <1>1, <1>3, RP!AppendContent
<1>5. QED
  BY <1>4, SameRing

LEMMA RingStarts == Ring!ArrayBuffer \in Buffers /\ Ring!Content(Ring!ArrayBuffer) = <<>>
<1>1. RP!SizeAssumption /\ -1 \in Byte \cup {-1}
  BY SameRing
<1>2. RP!ArrayBuffer \in RP!BufferOf(Byte \cup {-1}) /\ RP!Content(RP!ArrayBuffer) = <<>>
  BY <1>1, RP!NewContent
<1>3. QED
  BY <1>2, SameRing

(***************************************************************************)
(* The two readers, round by round.                                        *)
(***************************************************************************)
(* The states of the loop over a ring that holds bytes of the wire.        *)
RingStates ==
  {s \in [buf : Buffers, data : Seq(Byte), done : BOOLEAN, out : Seq(Seq(Byte))] :
     Ring!Content(s.buf) \in Seq(Byte)}

(* The state of the loop over a list with the same bytes.                  *)
AsList(s) ==
  [buf |-> Ring!Content(s.buf), data |-> s.data, done |-> s.done, out |-> s.out]

(* A record with some of its fields replaced.                              *)
LEMMA Stopping ==
  ASSUME NEW B, NEW D, NEW E, NEW O, NEW s \in [buf : B, data : D, done : E, out : O]
  PROVE  [s EXCEPT !.done = TRUE] =
            [buf |-> s.buf, data |-> s.data, done |-> TRUE, out |-> s.out]
<1>1. \A e : [s EXCEPT !.done = e] =
               [buf |-> s.buf, data |-> s.data, done |-> e, out |-> s.out]
  OBVIOUS
<1>2. QED
  BY <1>1, Zenon

LEMMA Skipping ==
  ASSUME NEW B, NEW D, NEW E, NEW O, NEW s \in [buf : B, data : D, done : E, out : O],
         NEW x, NEW y
  PROVE  [s EXCEPT !.buf = x, !.data = y] =
            [buf |-> x, data |-> y, done |-> s.done, out |-> s.out]
<1> DEFINE r == [s EXCEPT !.buf = x, !.data = y]
<1>1. r \in [buf : {x}, data : {y}, done : E, out : O]
  OBVIOUS
<1>2. r.buf = x /\ r.data = y /\ r.done = s.done /\ r.out = s.out
  OBVIOUS
<1> HIDE DEF r
<1>3. r = [buf |-> r.buf, data |-> r.data, done |-> r.done, out |-> r.out]
  BY <1>1
<1>4. QED
  BY <1>2, <1>3 DEF r

(* The two records the loops have when they have done the same.            *)
LEMMA Matching ==
  ASSUME NEW x \in Buffers, NEW y \in Seq(Byte), NEW e \in BOOLEAN,
         NEW o \in Seq(Seq(Byte)), Ring!Content(x) \in Seq(Byte),
         NEW a, a = [buf |-> x, data |-> y, done |-> e, out |-> o],
         NEW r, r = [buf |-> Ring!Content(x), data |-> y, done |-> e, out |-> o]
  PROVE  a \in RingStates /\ r = AsList(a)
<1>1. a.buf = x /\ a.data = y /\ a.done = e /\ a.out = o
  BY Zenon
<1>2. a \in [buf : Buffers, data : Seq(Byte), done : BOOLEAN, out : Seq(Seq(Byte))]
  OBVIOUS
<1>3. a \in RingStates
  BY <1>1, <1>2 DEF RingStates
<1>4. r = AsList(a)
  BY <1>1, Zenon DEF AsList
<1>5. QED
  BY <1>3, <1>4

(* A length of data is a number, whatever bytes it is read from.           *)
LEMMA LengthIsNumber ==
  ASSUME NEW d \in Seq(Byte), Len(d) >= 3
  PROVE  Reader!UnpackNum(Tail(d)) \in Nat
<1>1. Base \in Nat
  BY FramingAssumption DEF FramingAssumption
<1>2. Tail(d)[1] = d[2] /\ Tail(d)[2] = d[3]
  <2>1. Len(d) \in Nat /\ 1 <= Len(d) - 1 /\ 2 <= Len(d) - 1
    BY LenProperties
  <2>2. d # <<>>
    BY <2>1
  <2>3. QED
    BY <2>1, <2>2, HeadTailProperties
<1>3. d[2] \in Nat /\ d[3] \in Nat
  <2>1. 2 \in 1 .. Len(d) /\ 3 \in 1 .. Len(d)
    BY LenProperties
  <2>2. d[2] \in Byte /\ d[3] \in Byte
    BY <2>1, ElementOfSeq
  <2>3. QED
    BY <1>1, <2>2 DEF Byte
<1>4. \A x, y \in Nat : x + Base * y \in Nat
  BY <1>1
<1>5. QED
  BY <1>2, <1>3, <1>4 DEF Reader!UnpackNum

(* The data of a packet is bytes.                                          *)
LEMMA PartIsBytes ==
  ASSUME NEW p \in Seq(Byte)
  PROVE  SubSeq(p, 4, Len(p) - 1) \in Seq(Byte)
<1>1. Len(p) \in Nat /\ 4 \in Int /\ Len(p) - 1 \in Int
  BY LenProperties
<1>2. \A i \in 4 .. Len(p) - 1 : p[i] \in Byte
  <2>1. ASSUME NEW i \in 4 .. Len(p) - 1
        PROVE  p[i] \in Byte
    <3>1. i \in 1 .. Len(p)
      BY <1>1
    <3>2. QED
      BY <3>1, ElementOfSeq
  <2>2. QED
    BY <2>1
<1>3. QED
  BY <1>1, <1>2, SubSeqProperties

(* A round over the ring does what a round over the list does.             *)
LEMMA RoundAlike ==
  ASSUME NEW s \in RingStates
  PROVE  /\ RingReader!Round(s) \in RingStates
         /\ Reader!Round(AsList(s)) = AsList(RingReader!Round(s))
<1> DEFINE q == s.buf
           c == Ring!Content(q)
           t == AsList(s)
           d == s.data \o readBufferN(c, 3)
           n == Reader!UnpackNum(Tail(d))
           rr == Ring!clearBufferN(q, 3)
           rl == clearBufferN(c, 3)
           p == d \o readBufferN(rl, n + 1)
           after == RingReader!Round(s)
<1>1. /\ q \in Buffers /\ s.data \in Seq(Byte) /\ s.done \in BOOLEAN
      /\ s.out \in Seq(Seq(Byte)) /\ c \in Seq(Byte)
      /\ s \in [buf : Buffers, data : Seq(Byte), done : BOOLEAN, out : Seq(Seq(Byte))]
  BY DEF RingStates
<1>2. /\ t.buf = c /\ t.data = s.data /\ t.done = s.done /\ t.out = s.out
      /\ t \in [buf : Seq(Byte), data : Seq(Byte), done : BOOLEAN, out : Seq(Seq(Byte))]
  BY <1>1 DEF AsList
<1>3. /\ Ring!readSize(q) = readSize(c) /\ readSize(c) = Len(c) /\ Len(c) \in Nat
      /\ Ring!readBufferN(q, 3) = readBufferN(c, 3) /\ readBufferN(c, 3) \in Seq(Byte)
      /\ rr \in Buffers /\ Ring!Content(rr) = rl /\ rl \in Seq(Byte)
      /\ Ring!clearBufferN(q, 1) \in Buffers
      /\ Ring!Content(Ring!clearBufferN(q, 1)) = clearBufferN(c, 1)
      /\ clearBufferN(c, 1) \in Seq(Byte)
  <2>1. 3 \in Nat /\ 1 \in Nat
    OBVIOUS
  <2>2. Len(c) \in Nat /\ readSize(c) = Len(c)
    BY <1>1, LenProperties DEF readSize
  <2>3. QED
    BY <1>1, <2>1, <2>2, RingOperations
<1>4. d \in Seq(Byte)
  BY <1>1, <1>3, ConcatProperties
<1>5. \A x, y, e, o :
        /\ x \in Buffers /\ Ring!Content(x) \in Seq(Byte) /\ y \in Seq(Byte)
        /\ e \in BOOLEAN /\ o \in Seq(Seq(Byte))
        /\ after = [buf |-> x, data |-> y, done |-> e, out |-> o]
        /\ Reader!Round(t) =
              [buf |-> Ring!Content(x), data |-> y, done |-> e, out |-> o]
        => after \in RingStates /\ Reader!Round(t) = AsList(after)
  <2> HIDE DEF after, t
  <2>1. QED
    BY Matching
<1>6. CASE s.done \/ Len(c) < 4
  <2>1. after = [s EXCEPT !.done = TRUE]
    BY <1>3, <1>6 DEF RingReader!Round, RingReader!PacketMinSize
  <2>2. Reader!Round(t) = [t EXCEPT !.done = TRUE]
    <3> HIDE DEF t, c
    <3>1. QED
      BY <1>2, <1>3, <1>6 DEF Reader!Round, Reader!PacketMinSize
  <2>3. TRUE \in BOOLEAN
    OBVIOUS
  <2> HIDE DEF t, c, after
  <2>4. after = [buf |-> q, data |-> s.data, done |-> TRUE, out |-> s.out]
    BY <1>1, <2>1, Stopping
  <2>5. Reader!Round(t) = [buf |-> c, data |-> s.data, done |-> TRUE, out |-> s.out]
    <3>1. Reader!Round(t) = [buf |-> t.buf, data |-> t.data, done |-> TRUE, out |-> t.out]
      BY <1>2, <2>2, Stopping
    <3>2. QED
      BY <1>2, <3>1
  <2>6. after \in RingStates /\ Reader!Round(t) = AsList(after)
    BY <1>1, <1>5, <2>3, <2>4, <2>5, Zenon DEF c
  <2>7. QED
    BY <2>6 DEF t, after
<1>7. CASE ~ (s.done \/ Len(c) < 4)
  <2>1. ~ (s.done \/ Ring!readSize(q) < RingReader!PacketMinSize)
    BY <1>3, <1>7 DEF RingReader!PacketMinSize
  <2>2. ~ (t.done \/ readSize(t.buf) < Reader!PacketMinSize)
    BY <1>2, <1>3, <1>7 DEF Reader!PacketMinSize
  <2>3. n \in Nat /\ n + 1 \in Nat
    <3>1. Len(d) >= 3
      <4> DEFINE h == readBufferN(c, 3)
                 g == s.data
      <4>1. 3 \in 0 .. Len(c) /\ c \in Seq(Byte)
        BY <1>1, <1>3, <1>7
      <4> HIDE DEF c
      <4>2. h = SubSeq(c, 1, 3)
        BY <4>1, ListOperations
      <4>3. Len(h) = 3
        BY <4>1, <4>2, CutProperties
      <4>4. h \in Seq(Byte) /\ g \in Seq(Byte)
        BY <1>1, <1>3
      <4> HIDE DEF h, g
      <4>5. Len(g \o h) = Len(g) + 3 /\ Len(g) \in Nat
        <5>1. Len(g \o h) = Len(g) + Len(h)
          BY <4>4, ConcatProperties
        <5>2. Len(g) \in Nat
          BY <4>4, LenProperties
        <5>3. QED
          BY <4>3, <5>1, <5>2
      <4>6. Len(g \o h) >= 3
        BY <4>5
      <4>7. QED
        BY <4>6 DEF g, h
    <3> HIDE DEF d
    <3>2. QED
      BY <1>4, <3>1, LengthIsNumber
  <2>4. /\ Ring!readBufferN(rr, n + 1) = readBufferN(rl, n + 1)
        /\ readBufferN(rl, n + 1) \in Seq(Byte)
        /\ Ring!clearBufferN(rr, n + 1) \in Buffers
        /\ Ring!Content(Ring!clearBufferN(rr, n + 1)) = clearBufferN(rl, n + 1)
        /\ clearBufferN(rl, n + 1) \in Seq(Byte)
    <3> HIDE DEF rr, rl, n
    <3>1. QED
      BY <1>3, <2>3, RingOperations
  <2>5. p \in Seq(Byte)
    <3> HIDE DEF d
    <3>1. QED
      BY <1>4, <2>4, ConcatProperties
  <2>6. RingReader!UnpackNum(Tail(d)) = n
    BY DEF RingReader!UnpackNum, Reader!UnpackNum
  <2>7. RingReader!Incomplete(q, n) <=> Reader!Incomplete(c, n)
    BY <1>3 DEF RingReader!Incomplete, Reader!Incomplete,
                RingReader!PacketMinSize, Reader!PacketMinSize
  <2>8. RingReader!Last(p) = Reader!Last(p)
    BY DEF RingReader!Last, Reader!Last
  <2> DEFINE out == Append(s.out, SubSeq(p, 4, Len(p) - 1))
  <2>9. out \in Seq(Seq(Byte)) /\ <<>> \in Seq(Byte) /\ FALSE \in BOOLEAN
    <3> HIDE DEF p
    <3> DEFINE o == s.out
               u == SubSeq(p, 4, Len(p) - 1)
    <3>1. u \in Seq(Byte) /\ o \in Seq(Seq(Byte))
      BY <1>1, <2>5, PartIsBytes
    <3> HIDE DEF o, u
    <3>2. Append(o, u) \in Seq(Seq(Byte))
      BY <3>1, AppendProperties
    <3>3. QED
      BY <3>2 DEF o, u
  <2>10. after = IF d[1] # HeadByte
                   THEN [s EXCEPT !.buf = Ring!clearBufferN(q, 1), !.data = <<>>]
                 ELSE IF RingReader!Incomplete(q, n) THEN [s EXCEPT !.done = TRUE]
                 ELSE IF RingReader!Last(p) = EndByte
                   THEN RingReader!Found(s, Ring!clearBufferN(rr, n + 1), p)
                 ELSE [s EXCEPT !.buf = rr, !.data = p]
    BY <1>3, <2>1, <2>4, <2>6 DEF RingReader!Round
  <2>11. Reader!Round(t) = IF d[1] # HeadByte
                   THEN [t EXCEPT !.buf = clearBufferN(c, 1), !.data = <<>>]
                 ELSE IF Reader!Incomplete(c, n) THEN [t EXCEPT !.done = TRUE]
                 ELSE IF Reader!Last(p) = EndByte
                   THEN Reader!Found(t, clearBufferN(rl, n + 1), p)
                 ELSE [t EXCEPT !.buf = rl, !.data = p]
    <3> HIDE DEF t, c
    <3>1. QED
      BY <1>2, <2>2 DEF Reader!Round
  <2> SUFFICES after \in RingStates /\ Reader!Round(t) = AsList(after)
    OBVIOUS
  <2> HIDE DEF p, d, n, rr, rl, t, c, after
  <2>12. CASE d[1] # HeadByte
    <3>1. after = [buf |-> Ring!clearBufferN(q, 1), data |-> <<>>,
                   done |-> s.done, out |-> s.out]
      <4>1. after = [s EXCEPT !.buf = Ring!clearBufferN(q, 1), !.data = <<>>]
        BY <2>10, <2>12
      <4>2. QED
        BY <1>1, <4>1, Skipping
    <3>2. Reader!Round(t) = [buf |-> clearBufferN(c, 1), data |-> <<>>,
                             done |-> s.done, out |-> s.out]
      <4>1. Reader!Round(t) = [t EXCEPT !.buf = clearBufferN(c, 1), !.data = <<>>]
        BY <2>11, <2>12
      <4>2. Reader!Round(t) = [buf |-> clearBufferN(c, 1), data |-> <<>>,
                               done |-> t.done, out |-> t.out]
        BY <1>2, <4>1, Skipping
      <4>3. QED
        BY <1>2, <4>2
    <3>3. QED
      BY <1>1, <1>3, <1>5, <2>9, <3>1, <3>2, Zenon
  <2>13. CASE d[1] = HeadByte /\ Reader!Incomplete(c, n)
    <3>1. after = [buf |-> q, data |-> s.data, done |-> TRUE, out |-> s.out]
      <4>1. after = [s EXCEPT !.done = TRUE]
        BY <2>7, <2>10, <2>13
      <4>2. QED
        BY <1>1, <4>1, Stopping
    <3>2. Reader!Round(t) = [buf |-> c, data |-> s.data, done |-> TRUE, out |-> s.out]
      <4>1. Reader!Round(t) = [t EXCEPT !.done = TRUE]
        BY <2>11, <2>13
      <4>2. Reader!Round(t) = [buf |-> t.buf, data |-> t.data, done |-> TRUE, out |-> t.out]
        BY <1>2, <4>1, Stopping
      <4>3. QED
        BY <1>2, <4>2
    <3>3. TRUE \in BOOLEAN
      OBVIOUS
    <3>4. QED
      BY <1>1, <1>5, <3>1, <3>2, <3>3, Zenon DEF c
  <2>14. CASE d[1] = HeadByte /\ ~ Reader!Incomplete(c, n) /\ Reader!Last(p) = EndByte
    <3>1. after = [buf |-> Ring!clearBufferN(rr, n + 1), data |-> <<>>,
                   done |-> FALSE, out |-> out]
      BY <2>7, <2>8, <2>10, <2>14 DEF RingReader!Found
    <3>2. Reader!Round(t) = [buf |-> clearBufferN(rl, n + 1), data |-> <<>>,
                             done |-> FALSE, out |-> out]
      BY <1>2, <2>11, <2>14 DEF Reader!Found
    <3> HIDE DEF out
    <3>3. QED
      BY <1>5, <2>4, <2>9, <3>1, <3>2, Zenon
  <2>15. CASE d[1] = HeadByte /\ ~ Reader!Incomplete(c, n) /\ Reader!Last(p) # EndByte
    <3>1. after = [buf |-> rr, data |-> p, done |-> s.done, out |-> s.out]
      <4>1. after = [s EXCEPT !.buf = rr, !.data = p]
        BY <2>7, <2>8, <2>10, <2>15
      <4>2. QED
        BY <1>1, <4>1, Skipping
    <3>2. Reader!Round(t) = [buf |-> rl, data |-> p, done |-> s.done, out |-> s.out]
      <4>1. Reader!Round(t) = [t EXCEPT !.buf = rl, !.data = p]
        BY <2>11, <2>15
      <4>2. Reader!Round(t) = [buf |-> rl, data |-> p, done |-> t.done, out |-> t.out]
        BY <1>2, <4>1, Skipping
      <4>3. QED
        BY <1>2, <4>2
    <3>3. QED
      BY <1>1, <1>3, <1>5, <2>5, <3>1, <3>2, Zenon
  <2>16. QED
    BY <2>12, <2>13, <2>14, <2>15, Zenon
<1>8. QED
  BY <1>6, <1>7

(* The whole loop: over the ring it takes the packets it takes over the    *)
(* list, and leaves the same bytes.                                        *)
THEOREM ReadAlike ==
  ASSUME NEW q \in Buffers, Ring!Content(q) \in Seq(Byte)
  PROVE  /\ RingReader!readPackets(q) \in RingStates
         /\ Reader!readPackets(Ring!Content(q)) = AsList(RingReader!readPackets(q))
<1> DEFINE c == Ring!Content(q)
           N == readSize(c) + 1
           T == RingStates
           ringStart == [buf |-> q, data |-> <<>>, done |-> FALSE, out |-> <<>>]
           listStart == [buf |-> c, data |-> <<>>, done |-> FALSE, out |-> <<>>]
           IsRing(f) == f = [n \in 0 .. N |-> IF n = 0 THEN ringStart
                                              ELSE RingReader!Round(f[n - 1])]
           IsList(f) == f = [n \in 0 .. N |-> IF n = 0 THEN listStart
                                              ELSE Reader!Round(f[n - 1])]
           ringAfter == CHOOSE f : IsRing(f)
           listAfter == CHOOSE f : IsList(f)
<1>1. Ring!readSize(q) = readSize(c) /\ N \in Nat
  <2>1. Ring!readSize(q) = readSize(c)
    <3>1. 1 \in Nat
      OBVIOUS
    <3>2. QED
      BY <3>1, RingOperations
  <2>2. Len(c) \in Nat
    BY LenProperties
  <2>3. QED
    BY <2>1, <2>2 DEF readSize
<1>2. RingReader!readPackets(q) = ringAfter[N]
  BY <1>1 DEF RingReader!readPackets
<1>3. Reader!readPackets(c) = listAfter[N]
  BY DEF Reader!readPackets
<1>4. ringStart \in T /\ listStart = AsList(ringStart)
  <2>1. /\ <<>> \in Seq(Byte) /\ FALSE \in BOOLEAN /\ <<>> \in Seq(Seq(Byte))
        /\ c \in Seq(Byte)
    OBVIOUS
  <2> DEFINE no == FALSE
             none == <<>>
             a == ringStart
             r == listStart
  <2>2. /\ a = [buf |-> q, data |-> none, done |-> no, out |-> none]
        /\ r = [buf |-> c, data |-> none, done |-> no, out |-> none]
        /\ none \in Seq(Byte) /\ no \in BOOLEAN /\ none \in Seq(Seq(Byte))
    OBVIOUS
  <2> HIDE DEF a, r, no, none
  <2>3. a \in RingStates /\ r = AsList(a)
    BY <2>1, <2>2, Matching
  <2>4. QED
    BY <2>3 DEF a, r
<1>5. \A t \in T : /\ RingReader!Round(t) \in T
                   /\ Reader!Round(AsList(t)) = AsList(RingReader!Round(t))
  BY RoundAlike
<1> HIDE DEF c, N, T, ringStart, listStart
<1>6. \E f : IsRing(f) /\ \A n \in 0 .. N : f[n] \in T
  <2> DEFINE h == [t \in T |-> RingReader!Round(t)]
  <2>1. \A t \in T : h[t] = RingReader!Round(t) /\ h[t] \in T
    BY <1>5
  <2> HIDE DEF h, N
  <2>2. PICK f : IsLoop(N, T, ringStart, h, f)
    BY <1>1, <1>4, <2>1, LoopExists
  <2> DEFINE g == [n \in 0 .. N |-> IF n = 0 THEN ringStart ELSE RingReader!Round(f[n - 1])]
  <2>3. ASSUME NEW n \in 0 .. N
        PROVE  (IF n = 0 THEN ringStart ELSE h[f[n - 1]])
                 = IF n = 0 THEN ringStart ELSE RingReader!Round(f[n - 1])
    <3>1. CASE n = 0
      BY <3>1
    <3>2. CASE n # 0
      <4>1. n - 1 \in 0 .. N
        BY <1>1, <3>2
      <4>2. f[n - 1] \in T
        BY <2>2, <4>1 DEF IsLoop
      <4>3. QED
        BY <2>1, <3>2, <4>2
    <3>3. QED
      BY <3>1, <3>2
  <2>4. f = g
    BY <2>2, <2>3 DEF IsLoop
  <2>5. IsRing(f)
    BY <2>4
  <2>6. \A n \in 0 .. N : f[n] \in T
    BY <2>2 DEF IsLoop
  <2> HIDE DEF IsRing
  <2>7. QED
    BY <2>5, <2>6
<1>7. PICK u : IsRing(u) /\ \A n \in 0 .. N : u[n] \in T
  <2> HIDE DEF IsRing
  <2>1. QED
    BY <1>6
<1>8. \A n \in 0 .. N : u[n] = IF n = 0 THEN ringStart ELSE RingReader!Round(u[n - 1])
  BY <1>7
<1>9. \E f : IsList(f)
  <2> DEFINE v == [n \in 0 .. N |-> AsList(u[n])]
             g == [n \in 0 .. N |-> IF n = 0 THEN listStart ELSE Reader!Round(v[n - 1])]
  <2>1. ASSUME NEW n \in 0 .. N
        PROVE  AsList(u[n]) = IF n = 0 THEN listStart ELSE Reader!Round(v[n - 1])
    <3>1. CASE n = 0
      <4>1. u[n] = ringStart
        BY <1>8, <3>1
      <4>2. QED
        BY <1>4, <3>1, <4>1
    <3>2. CASE n # 0
      <4>1. n - 1 \in 0 .. N
        BY <1>1, <3>2
      <4>2. u[n] = RingReader!Round(u[n - 1]) /\ u[n - 1] \in T
        BY <1>7, <1>8, <3>2, <4>1
      <4>3. Reader!Round(AsList(u[n - 1])) = AsList(u[n])
        BY <1>5, <4>2
      <4>4. v[n - 1] = AsList(u[n - 1])
        BY <4>1
      <4> HIDE DEF v
      <4>5. QED
        BY <3>2, <4>3, <4>4
    <3>3. QED
      BY <3>1, <3>2
  <2>2. v = g
    BY <2>1
  <2>3. IsList(v)
    BY <2>2
  <2> HIDE DEF IsList, v
  <2>4. QED
    BY <2>3
<1>10. IsRing(ringAfter)
  <2> HIDE DEF IsRing
  <2>1. QED
    BY <1>7
<1>11. IsList(listAfter)
  <2> HIDE DEF IsList
  <2>1. QED
    BY <1>9
<1> HIDE DEF ringAfter, listAfter
<1>12. \A n \in 0 .. N : ringAfter[n] = IF n = 0 THEN ringStart
                                        ELSE RingReader!Round(ringAfter[n - 1])
  BY <1>10
<1>13. \A n \in 0 .. N : listAfter[n] = IF n = 0 THEN listStart
                                        ELSE Reader!Round(listAfter[n - 1])
  BY <1>11
<1> HIDE DEF IsRing, IsList
<1> DEFINE G == {n \in 0 .. N : ringAfter[n] \in T /\ listAfter[n] = AsList(ringAfter[n])}
<1>14. 0 \in G
  <2>1. 0 \in 0 .. N
    BY <1>1
  <2>2. ringAfter[0] = ringStart /\ listAfter[0] = listStart
    BY <1>12, <1>13, <2>1
  <2>3. QED
    BY <1>4, <2>1, <2>2
<1>15. ASSUME NEW n \in 1 .. N, n - 1 \in G
       PROVE  n \in G
  <2>1. n \in 0 .. N /\ n # 0
    BY <1>1
  <2>2. /\ ringAfter[n - 1] \in T
        /\ listAfter[n - 1] = AsList(ringAfter[n - 1])
    BY <1>15
  <2>3. /\ ringAfter[n] = RingReader!Round(ringAfter[n - 1])
        /\ listAfter[n] = Reader!Round(listAfter[n - 1])
    BY <1>12, <1>13, <2>1
  <2>4. ringAfter[n] \in T /\ listAfter[n] = AsList(ringAfter[n])
    BY <1>5, <2>2, <2>3
  <2>5. QED
    BY <2>1, <2>4
<1>16. N \in G
  <2> HIDE DEF G
  <2>1. \A n \in 0 .. N : n \in G
    BY <1>1, <1>14, <1>15, CountUp
  <2>2. QED
    BY <1>1, <2>1
<1>17. QED
  BY <1>2, <1>3, <1>16 DEF c, T

(***************************************************************************)
(* Every behaviour of the reader with a ring.                              *)
(***************************************************************************)
(* The ring holds what the list holds, and its reader has handed over the  *)
(* same packets.                                                           *)
InStep ==
  /\ Framed
  /\ ring_ \in Buffers
  /\ Ring!Content(ring_) = buffer_
  /\ ringReceived = received

(* There is room for what is read: what is left of the last read is less   *)
(* than a packet.                                                          *)
LEMMA RoomForRead ==
  ASSUME Framed, NEW n \in 1 .. Len(wire), n <= MaxRead
  PROVE  Len(buffer_) + n < CycleBufferSize
<1> DEFINE U == Undelivered
<1>1. /\ wire \in Seq(Byte) /\ buffer_ \in Seq(Byte) /\ U \in Seq(Data)
      /\ buffer_ \o wire = Frames(U)
      /\ U # <<>> => Len(buffer_) < Len(pack(U[1]))
  BY FramedFacts
<1> HIDE DEF U
<1>2. Len(wire) \in Nat /\ Len(buffer_) \in Nat /\ Len(wire) # 0
  BY <1>1, LenProperties
<1>3. U # <<>>
  <2>1. ASSUME U = <<>>
        PROVE  FALSE
    <3>1. buffer_ \o wire = <<>>
      BY <1>1, <2>1, FramesEmpty
    <3>2. wire = <<>>
      BY <1>1, <3>1, ConcatEqualIffEmpty
    <3>3. QED
      BY <1>2, <3>2
  <2>2. QED
    BY <2>1
<1>4. U[1] \in Data
  <2>1. 1 \in 1 .. Len(U)
    BY <1>1, <1>3, EmptySeq, LenProperties
  <2>2. QED
    BY <1>1, <2>1, ElementOfSeq
<1>5. /\ CycleBufferSize >= MaxRead + Len(pack(U[1]))
      /\ MaxRead \in Nat /\ CycleBufferSize \in Nat
  BY <1>4, RingAssumption DEF RingAssumption, Ring!SizeAssumption
<1>6. Len(pack(U[1])) \in Nat
  <2>1. pack(U[1]) \in Seq(Byte)
    BY <1>4, PackBytes
  <2>2. QED
    BY <2>1, LenProperties
<1>7. QED
  BY <1>1, <1>2, <1>3, <1>5, <1>6

LEMMA InitInStep ==
  ASSUME RingInit
  PROVE  InStep
<1>1. Framed
  BY InitFramed DEF RingInit
<1>2. QED
  BY <1>1, RingStarts DEF RingInit, Init, InStep

LEMMA RingReadInStep ==
  ASSUME InStep, HEADLENGTH <= MinRead, NEW n \in 1 .. Len(wire), RingOnMessage(n)
  PROVE  InStep'
<1> DEFINE f == SubSeq(wire, 1, n)
           a == Ring!append(ring_, f)
           r == RingReader!readPackets(a)
           l == Reader!readPackets(buffer_ \o f)
<1>1. Framed'
  BY ReadStep DEF InStep, RingOnMessage
<1>2. ~ (n < HEADLENGTH) /\ n <= MaxRead
  BY FramingAssumption DEF FramingAssumption, RingOnMessage, OnMessage
<1>3. /\ buffer_' = l.buf /\ received' = received \o l.out
      /\ ring_' = r.buf /\ ringReceived' = ringReceived \o r.out
  BY <1>2 DEF RingOnMessage, OnMessage
<1>4. f \in Seq(Byte) /\ Len(f) = n /\ buffer_ \in Seq(Byte)
  <2>1. wire \in Seq(Byte) /\ buffer_ \in Seq(Byte)
    BY DEF InStep, Framed, TypeOK
  <2>2. n \in 0 .. Len(wire)
    BY <2>1, LenProperties
  <2>3. QED
    BY <2>1, <2>2, CutProperties
<1>5. Len(buffer_) + n < CycleBufferSize
  BY <1>2, RoomForRead DEF InStep
<1> HIDE DEF f
<1>6. a \in Buffers /\ Ring!Content(a) = buffer_ \o f
  BY <1>4, <1>5, RingAppends DEF InStep
<1>7. buffer_ \o f \in Seq(Byte)
  BY <1>4, ConcatProperties
<1> HIDE DEF a
<1>8. r \in RingStates /\ l = AsList(r)
  BY <1>6, <1>7, ReadAlike
<1> HIDE DEF r, l
<1>9. r.buf \in Buffers /\ l.buf = Ring!Content(r.buf) /\ l.out = r.out
  BY <1>8 DEF RingStates, AsList
<1>10. QED
  BY <1>1, <1>3, <1>9 DEF InStep

LEMMA RingNextInStep ==
  ASSUME InStep, HEADLENGTH <= MinRead, [RingNext]_ringVars
  PROVE  InStep'
<1>1. ASSUME NEW d \in Data, RingWrite(d)
      PROVE  InStep'
  <2>1. Framed' /\ buffer_' = buffer_ /\ received' = received
    BY <1>1, WriteStep DEF InStep, RingWrite, Write
  <2>2. ring_' = ring_ /\ ringReceived' = ringReceived
    BY <1>1 DEF RingWrite
  <2>3. QED
    BY <2>1, <2>2 DEF InStep
<1>2. ASSUME NEW n \in 1 .. Len(wire), RingOnMessage(n)
      PROVE  InStep'
  BY <1>2, RingReadInStep
<1>3. CASE UNCHANGED ringVars
  <2>1. /\ UNCHANGED vars
        /\ ring_' = ring_ /\ ringReceived' = ringReceived
    BY <1>3 DEF ringVars
  <2>2. Framed' /\ buffer_' = buffer_ /\ received' = received
    BY <2>1, NextFramed DEF InStep, vars
  <2>3. QED
    BY <2>1, <2>2 DEF InStep
<1>4. QED
  BY <1>1, <1>2, <1>3 DEF RingNext

(* With room for a read and an incomplete packet no byte is refused: the   *)
(* ring keeps step with the list, wherever its indexes are.                *)
THEOREM RingKeepsStep ==
  ASSUME HEADLENGTH <= MinRead
  PROVE  RingSpec => []InStep
<1>1. RingInit => InStep
  BY InitInStep
<1>2. InStep /\ [RingNext]_ringVars => InStep'
  BY RingNextInStep
<1>3. QED
  BY <1>1, <1>2, PTL DEF RingSpec

(* The list's reader in ListReader's words: with the ring's content in the *)
(* place of the list.                                                      *)
LEMMA ListSteps ==
  ASSUME InStep, InStep', [RingNext]_ringVars
  PROVE  [ListReader!Next]_(ListReader!vars)
<1>1. /\ Ring!Content(ring_) = buffer_ /\ ringReceived = received
      /\ Ring!Content(ring_') = buffer_' /\ ringReceived' = received'
  BY DEF InStep
<1>2. ASSUME NEW d \in Data, Write(d)
      PROVE  ListReader!Write(d)
  BY <1>1, <1>2 DEF Write, ListReader!Write, pack, ListReader!pack,
                    PackNum, ListReader!PackNum
<1>3. ASSUME NEW n \in 1 .. Len(wire), OnMessage(n)
      PROVE  ListReader!OnMessage(n)
  <2>1. \A s : ListReader!Reader!Round(s) = Reader!Round(s)
    BY DEF ListReader!Reader!Round, Reader!Round,
           ListReader!Reader!UnpackNum, Reader!UnpackNum,
           ListReader!Reader!Incomplete, Reader!Incomplete,
           ListReader!Reader!PacketMinSize, Reader!PacketMinSize,
           ListReader!Reader!Last, Reader!Last,
           ListReader!Reader!Found, Reader!Found,
           ListReader!readSize, readSize,
           ListReader!readBufferN, readBufferN,
           ListReader!clearBufferN, clearBufferN
  <2>2. \A b : ListReader!Reader!readPackets(b) = Reader!readPackets(b)
    BY <2>1 DEF ListReader!Reader!readPackets, Reader!readPackets,
                ListReader!readSize, readSize
  <2>3. QED
    BY <1>1, <1>3, <2>2 DEF OnMessage, ListReader!OnMessage,
                            clearBufferN, ListReader!clearBufferN
<1>4. CASE UNCHANGED ringVars
  BY <1>1, <1>4 DEF ringVars, vars, ListReader!vars
<1>5. QED
  BY <1>2, <1>3, <1>4 DEF RingNext, RingWrite, RingOnMessage, ListReader!Next

(* An ArrayBuffer behind the virtual functions of PacketBuffer is a        *)
(* ListBuffer to readFromBuffer, for every size with room for a read and   *)
(* an incomplete packet, and however often it wraps.                       *)
THEOREM RingIsList ==
  ASSUME HEADLENGTH <= MinRead
  PROVE  RingSpec => RingImplementsList
<1>1. RingInit => ListReader!Init
  BY RingStarts DEF RingInit, Init, ListReader!Init
<1>2. InStep /\ InStep' /\ [RingNext]_ringVars => [ListReader!Next]_(ListReader!vars)
  BY ListSteps
<1>3. RingSpec => []InStep
  BY RingKeepsStep
<1>4. QED
  BY <1>1, <1>2, <1>3, PTL DEF RingSpec, RingImplementsList, ListReader!Spec

(***************************************************************************)
(* The loop over any bytes, such as a damaged stream or what a buffer      *)
(* holds after a read too short was dropped.                               *)
(***************************************************************************)
ListStates ==
  [buf : Seq(Byte), data : Seq(Byte), done : BOOLEAN, out : Seq(Seq(Byte))]

(* What taking n bytes from a list leaves.                                 *)
LEMMA ClearShortens ==
  ASSUME NEW b \in Seq(Byte), NEW n \in Nat
  PROVE  /\ clearBufferN(b, n) \in Seq(Byte) /\ readBufferN(b, n) \in Seq(Byte)
         /\ Len(b) >= n => Len(clearBufferN(b, n)) = Len(b) - n
         /\ Len(b) < n => Len(clearBufferN(b, n)) = 0
<1>1. Len(b) \in Nat
  BY LenProperties
<1>2. CASE Len(b) >= n
  <2>1. n \in 0 .. Len(b)
    BY <1>1, <1>2
  <2>2. readBufferN(b, n) = SubSeq(b, 1, n) /\ clearBufferN(b, n) = Rest(b, n)
    BY <2>1, ListOperations
  <2>3. /\ SubSeq(b, 1, n) \in Seq(Byte) /\ Rest(b, n) \in Seq(Byte)
        /\ Len(Rest(b, n)) = Len(b) - n
    BY <2>1, CutProperties
  <2>4. QED
    BY <1>1, <1>2, <2>2, <2>3
<1>3. CASE Len(b) < n
  <2>1. clearBufferN(b, n) = <<>> /\ readBufferN(b, n) = <<>>
    BY <1>1, <1>3, SubSeqEmpty DEF clearBufferN, readBufferN
  <2>2. <<>> \in Seq(Byte) /\ Len(<<>>) = 0
    OBVIOUS
  <2>3. QED
    BY <1>1, <1>3, <2>1, <2>2
<1>4. QED
  BY <1>1, <1>2, <1>3

(* A round that goes on has taken at least a byte, whatever it has found.  *)
LEMMA RoundTakes ==
  ASSUME NEW s \in ListStates
  PROVE  /\ Reader!Round(s) \in ListStates
         /\ Reader!Round(s).done \/ Len(Reader!Round(s).buf) < Len(s.buf)
         /\ s.done => Reader!Round(s).done
<1> DEFINE c == s.buf
           h == readBufferN(c, 3)
           d == s.data \o h
           n == Reader!UnpackNum(Tail(d))
           rest == clearBufferN(c, 3)
           p == d \o readBufferN(rest, n + 1)
           after == Reader!Round(s)
<1>1. /\ c \in Seq(Byte) /\ s.data \in Seq(Byte) /\ s.done \in BOOLEAN
      /\ s.out \in Seq(Seq(Byte)) /\ Len(c) \in Nat
  <2>1. /\ c \in Seq(Byte) /\ s.data \in Seq(Byte) /\ s.done \in BOOLEAN
        /\ s.out \in Seq(Seq(Byte))
    BY DEF ListStates
  <2>2. QED
    BY <2>1, LenProperties
<1>2. \A a, x, y, e, o :
        /\ a = [buf |-> x, data |-> y, done |-> e, out |-> o]
        /\ x \in Seq(Byte) /\ y \in Seq(Byte) /\ e \in BOOLEAN /\ o \in Seq(Seq(Byte))
        => a \in ListStates /\ a.buf = x /\ a.done = e
  BY DEF ListStates
<1>3. CASE s.done \/ Len(c) < 4
  <2>1. after = [s EXCEPT !.done = TRUE]
    BY <1>3 DEF Reader!Round, Reader!PacketMinSize, readSize
  <2>2. after = [buf |-> c, data |-> s.data, done |-> TRUE, out |-> s.out]
    BY <2>1, Stopping DEF ListStates
  <2>3. TRUE \in BOOLEAN
    OBVIOUS
  <2> HIDE DEF after
  <2>4. after \in ListStates /\ after.done = TRUE
    BY <1>1, <1>2, <2>2, <2>3, Zenon
  <2>5. QED
    BY <2>4 DEF after
<1>4. CASE ~ (s.done \/ Len(c) < 4)
  <2>1. 4 <= Len(c) /\ ~ s.done /\ s.done = FALSE
    BY <1>1, <1>4
  <2>2. /\ rest \in Seq(Byte) /\ Len(rest) = Len(c) - 3
        /\ clearBufferN(c, 1) \in Seq(Byte) /\ Len(clearBufferN(c, 1)) = Len(c) - 1
    <3>1. 3 \in Nat /\ 1 \in Nat /\ Len(c) >= 3 /\ Len(c) >= 1
      BY <1>1, <2>1
    <3>2. QED
      BY <1>1, <3>1, ClearShortens
  <2>3. d \in Seq(Byte) /\ Len(d) >= 3
    <3>1. 3 \in 0 .. Len(c)
      BY <1>1, <2>1
    <3>2. h = SubSeq(c, 1, 3)
      BY <1>1, <3>1, ListOperations
    <3>3. Len(h) = 3 /\ h \in Seq(Byte)
      <4>1. Len(SubSeq(c, 1, 3)) = 3 /\ SubSeq(c, 1, 3) \in Seq(Byte)
        <5> HIDE DEF c, h
        <5>1. QED
          BY <1>1, <3>1, CutProperties
      <4>2. QED
        BY <3>2, <4>1
    <3> DEFINE g == s.data
    <3>4. g \in Seq(Byte)
      BY <1>1
    <3> HIDE DEF g, h
    <3>5. g \o h \in Seq(Byte) /\ Len(g \o h) = Len(g) + Len(h)
      BY <3>3, <3>4, ConcatProperties
    <3>6. Len(g) \in Nat
      BY <3>4, LenProperties
    <3>7. Len(g \o h) >= 3
      BY <3>3, <3>5, <3>6
    <3>8. QED
      BY <3>5, <3>7 DEF g
  <2>4. n \in Nat /\ n + 1 \in Nat
    <3> HIDE DEF d
    <3>1. QED
      BY <2>3, LengthIsNumber
  <2>5. /\ readBufferN(rest, n + 1) \in Seq(Byte)
        /\ clearBufferN(rest, n + 1) \in Seq(Byte)
        /\ Len(clearBufferN(rest, n + 1)) <= Len(rest)
    <3> DEFINE m == n + 1
               more == clearBufferN(rest, m)
    <3>1. Len(rest) \in Nat /\ rest \in Seq(Byte) /\ m \in Nat
      BY <2>2, <2>4, LenProperties
    <3> HIDE DEF rest, m
    <3>2. /\ more \in Seq(Byte) /\ readBufferN(rest, m) \in Seq(Byte)
          /\ Len(rest) >= m => Len(more) = Len(rest) - m
          /\ Len(rest) < m => Len(more) = 0
      BY <3>1, ClearShortens
    <3> HIDE DEF more
    <3>3. Len(more) <= Len(rest)
      BY <3>1, <3>2
    <3>4. QED
      BY <3>2, <3>3 DEF m, more
  <2>6. p \in Seq(Byte)
    <3> HIDE DEF d, rest, n
    <3>1. QED
      BY <2>3, <2>5, ConcatProperties
  <2> DEFINE out == Append(s.out, SubSeq(p, 4, Len(p) - 1))
  <2>7. out \in Seq(Seq(Byte)) /\ <<>> \in Seq(Byte) /\ FALSE \in BOOLEAN /\ TRUE \in BOOLEAN
    <3> HIDE DEF p
    <3> DEFINE o == s.out
               u == SubSeq(p, 4, Len(p) - 1)
    <3>1. u \in Seq(Byte) /\ o \in Seq(Seq(Byte))
      BY <1>1, <2>6, PartIsBytes
    <3> HIDE DEF o, u
    <3>2. Append(o, u) \in Seq(Seq(Byte))
      BY <3>1, AppendProperties
    <3>3. QED
      BY <3>2 DEF o, u
  <2>8. after = IF d[1] # HeadByte
                  THEN [s EXCEPT !.buf = clearBufferN(c, 1), !.data = <<>>]
                ELSE IF Reader!Incomplete(c, n) THEN [s EXCEPT !.done = TRUE]
                ELSE IF Reader!Last(p) = EndByte
                  THEN Reader!Found(s, clearBufferN(rest, n + 1), p)
                ELSE [s EXCEPT !.buf = rest, !.data = p]
    <3>1. ~ (s.done \/ readSize(c) < Reader!PacketMinSize)
      BY <1>1, <2>1 DEF Reader!PacketMinSize, readSize
    <3>2. QED
      BY <3>1 DEF Reader!Round
  <2>9. \/ after = [buf |-> clearBufferN(c, 1), data |-> <<>>,
                    done |-> s.done, out |-> s.out]
        \/ after = [buf |-> c, data |-> s.data, done |-> TRUE, out |-> s.out]
        \/ after = [buf |-> clearBufferN(rest, n + 1), data |-> <<>>,
                    done |-> FALSE, out |-> out]
        \/ after = [buf |-> rest, data |-> p, done |-> s.done, out |-> s.out]
    <3> HIDE DEF d, n, rest, p, after
    <3>1. \/ after = [s EXCEPT !.buf = clearBufferN(c, 1), !.data = <<>>]
          \/ after = [s EXCEPT !.done = TRUE]
          \/ after = [buf |-> clearBufferN(rest, n + 1), data |-> <<>>,
                      done |-> FALSE, out |-> out]
          \/ after = [s EXCEPT !.buf = rest, !.data = p]
      BY <2>8 DEF Reader!Found
    <3>2. s \in [buf : Seq(Byte), data : Seq(Byte), done : BOOLEAN, out : Seq(Seq(Byte))]
      BY DEF ListStates
    <3>3. CASE after = [s EXCEPT !.buf = clearBufferN(c, 1), !.data = <<>>]
      BY <3>2, <3>3, Skipping
    <3>4. CASE after = [s EXCEPT !.done = TRUE]
      BY <3>2, <3>4, Stopping
    <3>5. CASE after = [s EXCEPT !.buf = rest, !.data = p]
      BY <3>2, <3>5, Skipping
    <3>6. QED
      BY <3>1, <3>3, <3>4, <3>5
  <2> HIDE DEF d, n, rest, p, after, out, c
  <2>10. after \in ListStates /\ (after.done = TRUE \/ Len(after.buf) < Len(c))
    <3>1. CASE after = [buf |-> clearBufferN(c, 1), data |-> <<>>,
                        done |-> s.done, out |-> s.out]
      <4>1. after \in ListStates /\ after.buf = clearBufferN(c, 1)
        BY <1>1, <1>2, <2>2, <2>7, <3>1, Zenon
      <4>2. QED
        BY <1>1, <2>2, <4>1
    <3>2. CASE after = [buf |-> c, data |-> s.data, done |-> TRUE, out |-> s.out]
      BY <1>1, <1>2, <2>7, <3>2, Zenon
    <3>3. CASE after = [buf |-> clearBufferN(rest, n + 1), data |-> <<>>,
                        done |-> FALSE, out |-> out]
      <4>1. after \in ListStates /\ after.buf = clearBufferN(rest, n + 1)
        BY <1>2, <2>5, <2>7, <3>3, Zenon
      <4>2. Len(clearBufferN(rest, n + 1)) \in Nat
        BY <2>5, LenProperties
      <4>3. QED
        BY <1>1, <2>2, <2>5, <4>1, <4>2
    <3>4. CASE after = [buf |-> rest, data |-> p, done |-> s.done, out |-> s.out]
      <4>1. after \in ListStates /\ after.buf = rest
        BY <1>1, <1>2, <2>2, <2>6, <3>4, Zenon
      <4>2. QED
        BY <1>1, <2>2, <4>1
    <3>5. QED
      BY <2>9, <3>1, <3>2, <3>3, <3>4
  <2>11. QED
    BY <2>1, <2>10 DEF after, c
<1>5. QED
  BY <1>3, <1>4

(* while (0 == readPacket(packet)) ends over every buffer, whatever bytes  *)
(* are in it: the bound on the rounds in readPackets cuts nothing off.     *)
THEOREM LoopEnds ==
  ASSUME NEW b \in Seq(Byte)
  PROVE  /\ Reader!readPackets(b) \in ListStates
         /\ Reader!readPackets(b).done
<1> DEFINE N == Len(b) + 1
           T == ListStates
           start == [buf |-> b, data |-> <<>>, done |-> FALSE, out |-> <<>>]
           IsAfter(f) == f = [n \in 0 .. N |-> IF n = 0 THEN start
                                               ELSE Reader!Round(f[n - 1])]
           after == CHOOSE f : IsAfter(f)
<1>1. Len(b) \in Nat /\ N \in Nat
  BY LenProperties
<1>2. Reader!readPackets(b) = after[N]
  BY DEF Reader!readPackets, readSize
<1>3. start \in T /\ Len(start.buf) = N - 1
  <2>1. <<>> \in Seq(Byte) /\ <<>> \in Seq(Seq(Byte)) /\ FALSE \in BOOLEAN
    OBVIOUS
  <2>2. QED
    BY <1>1, <2>1 DEF ListStates
<1>4. ASSUME NEW t \in T
      PROVE  /\ Reader!Round(t) \in T
             /\ Reader!Round(t).done \/ Len(Reader!Round(t).buf) < Len(t.buf)
             /\ t.done => Reader!Round(t).done
             /\ Len(t.buf) \in Nat
  <2>1. Len(t.buf) \in Nat
    <3>1. t.buf \in Seq(Byte)
      BY DEF ListStates
    <3>2. QED
      BY <3>1, LenProperties
  <2>2. QED
    BY <2>1, RoundTakes
<1> HIDE DEF T, start
<1>5. \E f : IsAfter(f)
  <2> DEFINE h == [t \in T |-> Reader!Round(t)]
  <2>1. \A t \in T : h[t] = Reader!Round(t) /\ h[t] \in T
    BY <1>4
  <2> HIDE DEF h, N
  <2>2. PICK f : IsLoop(N, T, start, h, f)
    BY <1>1, <1>3, <2>1, LoopExists
  <2> DEFINE g == [n \in 0 .. N |-> IF n = 0 THEN start ELSE Reader!Round(f[n - 1])]
  <2>3. ASSUME NEW n \in 0 .. N
        PROVE  (IF n = 0 THEN start ELSE h[f[n - 1]])
                 = IF n = 0 THEN start ELSE Reader!Round(f[n - 1])
    <3>1. CASE n = 0
      BY <3>1
    <3>2. CASE n # 0
      <4>1. n - 1 \in 0 .. N
        BY <1>1, <3>2
      <4>2. f[n - 1] \in T
        BY <2>2, <4>1 DEF IsLoop
      <4>3. QED
        BY <2>1, <3>2, <4>2
    <3>3. QED
      BY <3>1, <3>2
  <2>4. f = g
    BY <2>2, <2>3 DEF IsLoop
  <2>5. IsAfter(f)
    BY <2>4
  <2> HIDE DEF IsAfter
  <2>6. QED
    BY <2>5
<1>6. IsAfter(after)
  <2> HIDE DEF IsAfter
  <2>1. QED
    BY <1>5
<1> HIDE DEF after
<1>7. \A n \in 0 .. N : after[n] = IF n = 0 THEN start ELSE Reader!Round(after[n - 1])
  BY <1>6
<1> HIDE DEF IsAfter
<1> DEFINE G == {n \in 0 .. N : /\ after[n] \in T
                               /\ (after[n].done \/ Len(after[n].buf) + n <= N - 1)}
<1>8. 0 \in G
  BY <1>1, <1>3, <1>7
<1>9. ASSUME NEW n \in 1 .. N, n - 1 \in G
      PROVE  n \in G
  <2> DEFINE t == after[n - 1]
             u == after[n]
  <2>1. t \in T /\ (t.done \/ Len(t.buf) + (n - 1) <= N - 1)
    BY <1>9
  <2>2. n \in 0 .. N /\ n # 0
    BY <1>1
  <2>3. u = Reader!Round(t)
    BY <1>7, <2>2
  <2> HIDE DEF t, u
  <2>4. /\ u \in T /\ (u.done \/ Len(u.buf) < Len(t.buf)) /\ (t.done => u.done)
        /\ Len(t.buf) \in Nat
    BY <1>4, <2>1, <2>3
  <2>5. Len(u.buf) \in Nat
    BY <1>4, <2>4
  <2>6. u.done \/ Len(u.buf) + n <= N - 1
    <3>1. CASE u.done
      BY <3>1
    <3>2. CASE ~ u.done
      <4>1. Len(u.buf) < Len(t.buf) /\ Len(t.buf) + (n - 1) <= N - 1
        BY <2>1, <2>4, <3>2
      <4> HIDE DEF N
      <4>2. QED
        BY <1>1, <2>4, <2>5, <4>1
    <3>3. QED
      BY <3>1, <3>2
  <2>7. QED
    BY <2>2, <2>4, <2>6 DEF u
<1>10. N \in G
  <2> HIDE DEF G, N
  <2>1. \A n \in 0 .. N : n \in G
    BY <1>1, <1>8, <1>9, CountUp
  <2>2. QED
    BY <1>1, <2>1
<1>11. after[N] \in T /\ after[N].done
  <2>1. after[N] \in T /\ (after[N].done \/ Len(after[N].buf) + N <= N - 1)
    BY <1>10
  <2>2. Len(after[N].buf) \in Nat
    BY <1>4, <2>1
  <2> HIDE DEF N
  <2>3. QED
    BY <1>1, <2>1, <2>2
<1>12. QED
  BY <1>2, <1>11 DEF T

=============================================================================
