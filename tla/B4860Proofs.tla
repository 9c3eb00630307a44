----------------------------- MODULE B4860Proofs ----------------------------
(***************************************************************************)
(* Type correctness and the safety of the tables of total delays, for      *)
(* every site: any hubs, RRUs and operators, any cascade, any measured     *)
(* delays, any number of connections, and any of the faults.               *)
(***************************************************************************)
EXTENDS B4860, SequenceTheorems, FiniteSetTheorems, WellFoundedInduction, TLAPS

(***************************************************************************)
(* Least elements.                                                         *)
(***************************************************************************)

(* Every nonempty set of naturals has a least element: what the searches   *)
(* for the first match and the inductions below rest on.                   *)
LEMMA Least ==
  ASSUME NEW T \in SUBSET Nat, T # {}
  PROVE  \E n \in T : \A m \in T : n <= m
<1>1. PICK x \in T : \A y \in T : <<y, x>> \notin OpToRel(<, Nat)
  BY NatLessThanWellFounded, WFMin, Zenon
<1>2. \A y \in T : ~ (y < x)
  BY <1>1 DEF OpToRel
<1>3. \A y \in T : x <= y
  BY <1>2, SMT
<1>4. QED
  BY <1>3

(* The first of some names is one of them, and no other is before it.      *)
LEMMA FirstIsLeast ==
  ASSUME NEW S \in SUBSET Nat, S # {}
  PROVE  First(S) \in S /\ \A x \in S : First(S) <= x
<1>1. \E c \in S : \A x \in S : c <= x
  BY Least
<1>2. QED
  BY <1>1 DEF First

(***************************************************************************)
(* Insertion and removal.                                                  *)
(***************************************************************************)

(* InsertAt makes room for one element and moves those after it.           *)
LEMMA InsertAtProperties ==
  ASSUME NEW S, NEW s \in Seq(S), NEW e \in S, NEW p \in 1 .. Len(s) + 1
  PROVE  /\ InsertAt(s, p, e) \in Seq(S)
         /\ Len(InsertAt(s, p, e)) = Len(s) + 1
         /\ \A i \in 1 .. p - 1 : InsertAt(s, p, e)[i] = s[i]
         /\ InsertAt(s, p, e)[p] = e
         /\ \A i \in p + 1 .. Len(s) + 1 : InsertAt(s, p, e)[i] = s[i - 1]
<1> DEFINE front == SubSeq(s, 1, p - 1)
           back  == SubSeq(s, p, Len(s))
<1>1. Len(s) \in Nat /\ \A i \in 1 .. Len(s) : s[i] \in S
  BY LenProperties, ElementOfSeq
<1>2. /\ front \in Seq(S) /\ Len(front) = p - 1
      /\ \A i \in 1 .. p - 1 : front[i] = s[i]
  <2>1. \A i \in 1 .. p - 1 : s[i] \in S
    BY <1>1
  <2>2. 1 \in Int /\ p - 1 \in Int
    BY <1>1
  <2>3. /\ front \in Seq(S)
        /\ Len(front) = IF 1 <= p - 1 THEN (p - 1) - 1 + 1 ELSE 0
        /\ \A i \in 1 .. (p - 1) - 1 + 1 : front[i] = s[1 + i - 1]
    BY <2>1, <2>2, SubSeqProperties
  <2> HIDE DEF front
  <2>4. QED
    BY <1>1, <2>3
<1>3. /\ back \in Seq(S) /\ Len(back) = Len(s) - p + 1
      /\ \A i \in 1 .. Len(s) - p + 1 : back[i] = s[p + i - 1]
  <2>1. \A i \in p .. Len(s) : s[i] \in S
    BY <1>1
  <2>2. p \in Int /\ Len(s) \in Int
    BY <1>1
  <2>3. /\ back \in Seq(S)
        /\ Len(back) = IF p <= Len(s) THEN Len(s) - p + 1 ELSE 0
        /\ \A i \in 1 .. Len(s) - p + 1 : back[i] = s[p + i - 1]
    BY <2>1, <2>2, SubSeqProperties
  <2> HIDE DEF back
  <2>4. QED
    BY <1>1, <2>3
<1>4. <<e>> \in Seq(S) /\ Len(<<e>>) = 1 /\ <<e>>[1] = e
  OBVIOUS
<1> HIDE DEF front, back
<1> DEFINE upto == front \o <<e>>
<1>5. /\ upto \in Seq(S)
      /\ Len(upto) = Len(front) + Len(<<e>>)
      /\ \A i \in 1 .. Len(front) + Len(<<e>>) : upto[i] =
            IF i <= Len(front) THEN front[i] ELSE <<e>>[i - Len(front)]
  BY <1>2, <1>4, ConcatProperties, Zenon
<1> HIDE DEF upto
<1>6. /\ p \in Nat /\ Len(upto) = p
      /\ \A i \in 1 .. p - 1 : upto[i] = s[i]
      /\ upto[p] = e
  <2>1. p \in Nat /\ p >= 1 /\ Len(upto) = p /\ Len(front) = p - 1
    BY <1>1, <1>2, <1>4, <1>5
  <2>2. ASSUME NEW i \in 1 .. p - 1
        PROVE  upto[i] = s[i]
    BY <1>2, <1>4, <1>5, <2>1
  <2>3. upto[p] = e
    BY <1>4, <1>5, <2>1
  <2>4. QED
    BY <2>1, <2>2, <2>3
<1>7. /\ upto \o back \in Seq(S)
      /\ Len(upto \o back) = Len(upto) + Len(back)
      /\ \A i \in 1 .. Len(upto) + Len(back) : (upto \o back)[i] =
            IF i <= Len(upto) THEN upto[i] ELSE back[i - Len(upto)]
  <2>1. upto \in Seq(S) /\ back \in Seq(S)
    BY <1>3, <1>5
  <2>2. QED
    BY <2>1, ConcatProperties
<1>8. InsertAt(s, p, e) = upto \o back
  BY DEF InsertAt, upto, front, back
<1> DEFINE all == InsertAt(s, p, e)
<1>9. /\ all \in Seq(S) /\ Len(all) = p + Len(back)
      /\ \A i \in 1 .. p + Len(back) : all[i] =
            IF i <= p THEN upto[i] ELSE back[i - p]
  BY <1>6, <1>7, <1>8
<1> HIDE DEF all
<1>10. Len(all) = Len(s) + 1
  BY <1>1, <1>3, <1>6, <1>9
<1>11. ASSUME NEW i \in 1 .. p
       PROVE  all[i] = upto[i]
  BY <1>1, <1>3, <1>6, <1>9
<1>12. ASSUME NEW i \in p + 1 .. Len(s) + 1
       PROVE  all[i] = s[i - 1]
  <2>1. i \in 1 .. p + Len(back) /\ ~ (i <= p)
    BY <1>1, <1>3, <1>6
  <2>2. all[i] = back[i - p]
    BY <1>9, <2>1
  <2>3. i - p \in 1 .. Len(s) - p + 1 /\ p + (i - p) - 1 = i - 1
    BY <1>1, <1>6
  <2>4. QED
    BY <1>3, <2>2, <2>3
<1>13. /\ \A i \in 1 .. p - 1 : all[i] = s[i]
       /\ all[p] = e
  BY <1>1, <1>6, <1>11
<1>14. QED
  BY <1>9, <1>10, <1>12, <1>13 DEF all

(* RemoveAt closes the gap.                                                *)
LEMMA RemoveAtProperties ==
  ASSUME NEW S, NEW s \in Seq(S), NEW p \in 1 .. Len(s)
  PROVE  /\ RemoveAt(s, p) \in Seq(S)
         /\ Len(RemoveAt(s, p)) = Len(s) - 1
         /\ \A i \in 1 .. p - 1 : RemoveAt(s, p)[i] = s[i]
         /\ \A i \in p .. Len(s) - 1 : RemoveAt(s, p)[i] = s[i + 1]
<1> DEFINE front == SubSeq(s, 1, p - 1)
           back  == SubSeq(s, p + 1, Len(s))
<1>1. Len(s) \in Nat /\ \A i \in 1 .. Len(s) : s[i] \in S
  BY LenProperties, ElementOfSeq
<1>2. /\ front \in Seq(S) /\ Len(front) = p - 1
      /\ \A i \in 1 .. p - 1 : front[i] = s[i]
  <2>1. \A i \in 1 .. p - 1 : s[i] \in S
    BY <1>1
  <2>2. 1 \in Int /\ p - 1 \in Int
    BY <1>1
  <2>3. /\ front \in Seq(S)
        /\ Len(front) = IF 1 <= p - 1 THEN (p - 1) - 1 + 1 ELSE 0
        /\ \A i \in 1 .. (p - 1) - 1 + 1 : front[i] = s[1 + i - 1]
    BY <2>1, <2>2, SubSeqProperties
  <2> HIDE DEF front
  <2>4. QED
    BY <1>1, <2>3
<1>3. /\ back \in Seq(S) /\ Len(back) = Len(s) - p
      /\ \A i \in 1 .. Len(s) - p : back[i] = s[p + i]
  <2>1. \A i \in p + 1 .. Len(s) : s[i] \in S
    BY <1>1
  <2>2. p + 1 \in Int /\ Len(s) \in Int
    BY <1>1
  <2>3. /\ back \in Seq(S)
        /\ Len(back) = IF p + 1 <= Len(s) THEN Len(s) - (p + 1) + 1 ELSE 0
        /\ \A i \in 1 .. Len(s) - (p + 1) + 1 : back[i] = s[(p + 1) + i - 1]
    BY <2>1, <2>2, SubSeqProperties
  <2> HIDE DEF back
  <2>4. QED
    BY <1>1, <2>3
<1> HIDE DEF front, back
<1>4. /\ front \o back \in Seq(S)
      /\ Len(front \o back) = Len(front) + Len(back)
      /\ \A i \in 1 .. Len(front) + Len(back) : (front \o back)[i] =
            IF i <= Len(front) THEN front[i] ELSE back[i - Len(front)]
  BY <1>2, <1>3, ConcatProperties, Zenon
<1>5. RemoveAt(s, p) = front \o back
  BY DEF RemoveAt, front, back
<1> DEFINE all == RemoveAt(s, p)
<1>6. /\ all \in Seq(S) /\ Len(all) = Len(front) + Len(back)
      /\ \A i \in 1 .. Len(front) + Len(back) : all[i] =
            IF i <= Len(front) THEN front[i] ELSE back[i - Len(front)]
  BY <1>4, <1>5
<1> HIDE DEF all
<1>7. p \in Nat /\ Len(front) + Len(back) = Len(s) - 1
  BY <1>1, <1>2, <1>3
<1>8. ASSUME NEW i \in 1 .. p - 1
      PROVE  all[i] = s[i]
  <2>1. i \in 1 .. Len(front) + Len(back) /\ i <= Len(front) /\ i \in 1 .. p - 1
    BY <1>1, <1>2, <1>3, <1>7, <1>8
  <2>2. all[i] = front[i]
    BY <1>6, <2>1
  <2>3. QED
    BY <1>2, <2>1, <2>2
<1>9. ASSUME NEW i \in p .. Len(s) - 1
      PROVE  all[i] = s[i + 1]
  <2>1. all[i] = back[i - Len(front)]
    BY <1>1, <1>2, <1>6, <1>7
  <2>2. i - Len(front) \in 1 .. Len(s) - p /\ p + (i - Len(front)) = i + 1
    BY <1>1, <1>2, <1>7
  <2>3. QED
    BY <1>3, <2>1, <2>2
<1>10. QED
  BY <1>6, <1>7, <1>8, <1>9 DEF all

(***************************************************************************)
(* The tables of total delays.                                             *)
(***************************************************************************)

(* In a table sorted downwards the totals not below a given one come       *)
(* first, so their number says where the new total belongs.                *)
LEMMA AddTotalPlace ==
  ASSUME NEW v \in Seq(TotalDelay), LongestFirstIn(v), NEW e \in TotalDelay
  PROVE  \E p \in 1 .. Len(v) + 1 :
            /\ AddTotal(v, e) = InsertAt(v, p, e)
            /\ \A i \in 1 .. p - 1 : v[i].total >= e.total
            /\ \A i \in p .. Len(v) : v[i].total < e.total
<1> DEFINE n == Len(v)
           high == {i \in 1 .. n : v[i].total >= e.total}
           low == {i \in 1 .. n : ~ (v[i].total >= e.total)}
<1>1. n \in Nat /\ DOMAIN v = 1 .. n
  BY LenProperties
<1>2. \A i \in 1 .. n : v[i].total \in Int
  <2>1. v \in [1 .. n -> TotalDelay]
    BY LenProperties
  <2>2. QED
    BY <2>1 DEF TotalDelay
<1>3. e.total \in Int
  BY DEF TotalDelay
<1> HIDE DEF n
<1>4. \E k \in 0 .. n : high = 1 .. k
  <2>1. CASE low = {}
    <3>1. high = 1 .. n
      BY <2>1
    <3>2. QED
      BY <1>1, <3>1
  <2>2. CASE low # {}
    <3>1. low \in SUBSET Nat
      BY <1>1
    <3>2. PICK m \in low : \A i \in low : m <= i
      <4> HIDE DEF low
      <4>1. QED
        BY <2>2, <3>1, Least
    <3>3. m \in 1 .. n /\ v[m].total < e.total
      BY <1>1, <1>2, <1>3
    <3>4. ASSUME NEW i \in 1 .. n
          PROVE  i \in high <=> i < m
      <4>1. CASE i < m
        BY <1>1, <3>2, <4>1
      <4>2. CASE i = m
        BY <3>3, <4>2, <1>2, <1>3
      <4>3. CASE i > m
        <5>1. v[m].total >= v[i].total
          BY <1>1, <3>3, <4>3 DEF LongestFirstIn
        <5>2. QED
          BY <1>2, <1>3, <3>3, <4>3, <5>1
      <4>4. QED
        BY <1>1, <3>3, <4>1, <4>2, <4>3
    <3>5. high = 1 .. m - 1
      BY <1>1, <3>3, <3>4
    <3>6. QED
      BY <1>1, <3>3, <3>5
  <2>3. QED
    BY <2>1, <2>2
<1>5. PICK k \in 0 .. n : high = 1 .. k
  BY <1>4
<1>6. Cardinality(high) = k
  <2>1. Cardinality(1 .. k) = IF 1 > k THEN 0 ELSE k - 1 + 1
    BY <1>1, FS_Interval
  <2> HIDE DEF high
  <2>2. QED
    BY <1>1, <1>5, <2>1
<1>7. AddTotal(v, e) = InsertAt(v, k + 1, e)
  BY <1>1, <1>6 DEF AddTotal, n
<1>8. \A i \in 1 .. n : i \in high <=> i <= k
  BY <1>1, <1>5
<1>9. \A i \in 1 .. n : IF i <= k THEN v[i].total >= e.total
                        ELSE v[i].total < e.total
  BY <1>2, <1>3, <1>8
<1>10. /\ k + 1 \in 1 .. n + 1
       /\ \A i \in 1 .. (k + 1) - 1 : v[i].total >= e.total
       /\ \A i \in k + 1 .. n : v[i].total < e.total
  BY <1>1, <1>9
<1>11. QED
  BY <1>7, <1>10 DEF n

(* sortMapByValue: the table grows by the new total, stays sorted, and     *)
(* stays without a repeated route if the new route was not there.          *)
LEMMA AddTotalProperties ==
  ASSUME NEW v \in Seq(TotalDelay), LongestFirstIn(v), NEW e \in TotalDelay
  PROVE  /\ AddTotal(v, e) \in Seq(TotalDelay)
         /\ Len(AddTotal(v, e)) = Len(v) + 1
         /\ LongestFirstIn(AddTotal(v, e))
         /\ Routes(AddTotal(v, e)) = Routes(v) \cup {e.route}
         /\ OncePerRoute(v) /\ e.route \notin Routes(v)
              => OncePerRoute(AddTotal(v, e))
<1> DEFINE n == Len(v)
           w == AddTotal(v, e)
<1>1. PICK p \in 1 .. n + 1 :
           /\ w = InsertAt(v, p, e)
           /\ \A i \in 1 .. p - 1 : v[i].total >= e.total
           /\ \A i \in p .. n : v[i].total < e.total
  BY AddTotalPlace
<1>2. n \in Nat /\ DOMAIN v = 1 .. n
  BY LenProperties
<1>3. /\ w \in Seq(TotalDelay)
      /\ Len(w) = n + 1
      /\ \A i \in 1 .. p - 1 : w[i] = v[i]
      /\ w[p] = e
      /\ \A i \in p + 1 .. n + 1 : w[i] = v[i - 1]
  <2>1. /\ InsertAt(v, p, e) \in Seq(TotalDelay)
        /\ Len(InsertAt(v, p, e)) = Len(v) + 1
        /\ \A i \in 1 .. p - 1 : InsertAt(v, p, e)[i] = v[i]
        /\ InsertAt(v, p, e)[p] = e
        /\ \A i \in p + 1 .. Len(v) + 1 : InsertAt(v, p, e)[i] = v[i - 1]
    BY InsertAtProperties
  <2> HIDE DEF w
  <2>2. QED
    BY <1>1, <2>1
<1>4. DOMAIN w = 1 .. n + 1
  BY <1>3, LenProperties
<1>5. /\ e.total \in Int
      /\ \A i \in 1 .. n : v[i].total \in Int
  <2>1. v \in [1 .. n -> TotalDelay]
    BY LenProperties
  <2>2. QED
    BY <2>1 DEF TotalDelay
<1> HIDE DEF n, w
<1>6. LongestFirstIn(w)
  <2>1. SUFFICES ASSUME NEW i \in 1 .. n + 1, NEW j \in 1 .. n + 1, i < j
                 PROVE  w[i].total >= w[j].total
    BY <1>4 DEF LongestFirstIn
  <2>2. \A x, y \in 1 .. n : x < y => v[x].total >= v[y].total
    BY <1>2 DEF LongestFirstIn
  <2>3. CASE j < p
    BY <1>1, <1>2, <1>3, <2>1, <2>2, <2>3
  <2>4. CASE j = p
    BY <1>1, <1>2, <1>3, <2>1, <2>4
  <2>5. CASE j > p /\ i < p
    <3>1. w[i] = v[i] /\ w[j] = v[j - 1]
      BY <1>1, <1>2, <1>3, <2>1, <2>5
    <3>2. i \in 1 .. n /\ j - 1 \in 1 .. n /\ (i < j - 1 \/ i = j - 1)
      BY <1>1, <1>2, <2>1, <2>5
    <3>3. QED
      BY <1>5, <2>2, <3>1, <3>2
  <2>6. CASE j > p /\ i = p
    BY <1>1, <1>2, <1>3, <1>5, <2>1, <2>6
  <2>7. CASE j > p /\ i > p
    <3>1. w[i] = v[i - 1] /\ w[j] = v[j - 1]
      BY <1>1, <1>2, <1>3, <2>1, <2>7
    <3>2. i - 1 \in 1 .. n /\ j - 1 \in 1 .. n /\ i - 1 < j - 1
      BY <1>1, <1>2, <2>1, <2>7
    <3>3. QED
      BY <2>2, <3>1, <3>2
  <2>8. QED
    BY <1>1, <1>2, <2>1, <2>3, <2>4, <2>5, <2>6, <2>7
<1>7. Routes(w) = Routes(v) \cup {e.route}
  <2>1. ASSUME NEW i \in 1 .. n + 1
        PROVE  w[i].route \in Routes(v) \cup {e.route}
    <3>1. CASE i < p
      <4>1. i \in 1 .. n /\ w[i] = v[i]
        BY <1>1, <1>2, <1>3, <3>1
      <4>2. QED
        BY <1>2, <4>1 DEF Routes
    <3>2. CASE i = p
      BY <1>3, <3>2
    <3>3. CASE i > p
      <4>1. i - 1 \in 1 .. n /\ w[i] = v[i - 1]
        BY <1>1, <1>2, <1>3, <3>3
      <4>2. QED
        BY <1>2, <4>1 DEF Routes
    <3>4. QED
      BY <1>1, <1>2, <3>1, <3>2, <3>3
  <2>2. ASSUME NEW i \in 1 .. n
        PROVE  v[i].route \in Routes(w)
    <3>1. CASE i < p
      <4>1. i \in 1 .. n + 1 /\ w[i] = v[i]
        BY <1>1, <1>2, <1>3, <3>1
      <4>2. QED
        BY <1>4, <4>1 DEF Routes
    <3>2. CASE i >= p
      <4>1. i + 1 \in 1 .. n + 1 /\ w[i + 1] = v[i]
        BY <1>1, <1>2, <1>3, <3>2
      <4>2. QED
        BY <1>4, <4>1 DEF Routes
    <3>3. QED
      BY <1>1, <1>2, <3>1, <3>2
  <2>3. e.route \in Routes(w)
    <3>1. p \in 1 .. n + 1 /\ w[p] = e
      BY <1>1, <1>2, <1>3
    <3>2. QED
      BY <1>4, <3>1 DEF Routes
  <2>4. QED
    BY <1>2, <1>4, <2>1, <2>2, <2>3 DEF Routes
<1>8. ASSUME OncePerRoute(v), e.route \notin Routes(v)
      PROVE  OncePerRoute(w)
  <2>1. SUFFICES ASSUME NEW i \in 1 .. n + 1, NEW j \in 1 .. n + 1, i < j
                 PROVE  w[i].route # w[j].route
    BY <1>2, <1>4 DEF OncePerRoute
  <2>2. \A x, y \in 1 .. n : x < y => v[x].route # v[y].route
    BY <1>2, <1>8 DEF OncePerRoute
  <2>3. \A x \in 1 .. n : v[x].route # e.route
    BY <1>2, <1>8 DEF Routes
  <2>4. CASE j < p
    BY <1>1, <1>2, <1>3, <2>1, <2>2, <2>4
  <2>5. CASE j = p
    BY <1>1, <1>2, <1>3, <2>1, <2>3, <2>5
  <2>6. CASE j > p /\ i < p
    <3>1. w[i] = v[i] /\ w[j] = v[j - 1]
      BY <1>1, <1>2, <1>3, <2>1, <2>6
    <3>2. PICK q \in 1 .. n : q = p
      BY <1>1, <1>2, <2>1, <2>6
    <3>3. i \in 1 .. n /\ j - 1 \in 1 .. n /\ i < j - 1
      BY <1>1, <1>2, <2>1, <2>6
    <3>4. QED
      BY <2>2, <3>1, <3>3
  <2>7. CASE j > p /\ i = p
    <3>1. w[i] = e /\ w[j] = v[j - 1] /\ j - 1 \in 1 .. n
      BY <1>1, <1>2, <1>3, <2>1, <2>7
    <3>2. QED
      BY <2>3, <3>1
  <2>8. CASE j > p /\ i > p
    <3>1. w[i] = v[i - 1] /\ w[j] = v[j - 1]
      BY <1>1, <1>2, <1>3, <2>1, <2>8
    <3>2. i - 1 \in 1 .. n /\ j - 1 \in 1 .. n /\ i - 1 < j - 1
      BY <1>1, <1>2, <2>1, <2>8
    <3>3. QED
      BY <2>2, <3>1, <3>2
  <2>9. QED
    BY <1>1, <1>2, <2>1, <2>4, <2>5, <2>6, <2>7, <2>8
<1>9. QED
  BY <1>3, <1>6, <1>7, <1>8 DEF w, n

(* DeleteRRUTotalDelay: nothing happens, or the first entry of the route   *)
(* goes.                                                                   *)
LEMMA DeleteRoutePlace ==
  ASSUME NEW v \in Seq(TotalDelay), NEW r
  PROVE  \/ r \notin Routes(v) /\ DeleteRoute(v, r) = v
         \/ \E p \in 1 .. Len(v) :
              /\ v[p].route = r
              /\ DeleteRoute(v, r) = RemoveAt(v, p)
<1> DEFINE at == {i \in 1 .. Len(v) : v[i].route = r}
<1>1. Len(v) \in Nat /\ DOMAIN v = 1 .. Len(v)
  BY LenProperties
<1>2. DeleteRoute(v, r) = IF at = {} THEN v ELSE RemoveAt(v, First(at))
  BY DEF DeleteRoute
<1>3. CASE at = {}
  BY <1>1, <1>2, <1>3 DEF Routes
<1>4. CASE at # {}
  <2>1. at \in SUBSET Nat
    BY <1>1
  <2>2. First(at) \in at
    <3> HIDE DEF at
    <3>1. QED
      BY <1>4, <2>1, FirstIsLeast
  <2>3. First(at) \in 1 .. Len(v) /\ v[First(at)].route = r
    BY <2>2
  <2>4. QED
    BY <1>2, <1>4, <2>3
<1>5. QED
  BY <1>3, <1>4

(* Deletion keeps a table sorted and free of repeated routes, keeps every  *)
(* other route, and in a table without repetitions leaves nothing of the   *)
(* route it is for.                                                        *)
LEMMA DeleteRouteProperties ==
  ASSUME NEW v \in Seq(TotalDelay), NEW r
  PROVE  /\ DeleteRoute(v, r) \in Seq(TotalDelay)
         /\ LongestFirstIn(v) => LongestFirstIn(DeleteRoute(v, r))
         /\ Routes(DeleteRoute(v, r)) \subseteq Routes(v)
         /\ Routes(v) \subseteq Routes(DeleteRoute(v, r)) \cup {r}
         /\ OncePerRoute(v) => /\ OncePerRoute(DeleteRoute(v, r))
                               /\ r \notin Routes(DeleteRoute(v, r))
<1>1. CASE r \notin Routes(v) /\ DeleteRoute(v, r) = v
  BY <1>1
<1>2. CASE \E p \in 1 .. Len(v) :
              v[p].route = r /\ DeleteRoute(v, r) = RemoveAt(v, p)
  <2> DEFINE n == Len(v)
             w == DeleteRoute(v, r)
  <2>1. PICK p \in 1 .. n : v[p].route = r /\ w = RemoveAt(v, p)
    BY <1>2
  <2>2. n \in Nat /\ DOMAIN v = 1 .. n
    BY LenProperties
  <2>3. /\ w \in Seq(TotalDelay)
        /\ Len(w) = n - 1
        /\ \A i \in 1 .. p - 1 : w[i] = v[i]
        /\ \A i \in p .. n - 1 : w[i] = v[i + 1]
    <3>1. /\ RemoveAt(v, p) \in Seq(TotalDelay)
          /\ Len(RemoveAt(v, p)) = Len(v) - 1
          /\ \A i \in 1 .. p - 1 : RemoveAt(v, p)[i] = v[i]
          /\ \A i \in p .. Len(v) - 1 : RemoveAt(v, p)[i] = v[i + 1]
      BY RemoveAtProperties
    <3> HIDE DEF w
    <3>2. QED
      BY <2>1, <3>1
  <2>4. DOMAIN w = 1 .. n - 1
    BY <2>3, LenProperties
  <2> DEFINE from[i \in 1 .. n - 1] == IF i < p THEN i ELSE i + 1
  <2>5. /\ \A i \in 1 .. n - 1 : from[i] \in 1 .. n /\ w[i] = v[from[i]]
        /\ \A i, j \in 1 .. n - 1 : i < j => from[i] < from[j]
        /\ \A i \in 1 .. n - 1 : from[i] # p
        /\ \A k \in 1 .. n : k = p \/ \E i \in 1 .. n - 1 : from[i] = k
    <3>1. ASSUME NEW i \in 1 .. n - 1
          PROVE  from[i] \in 1 .. n /\ w[i] = v[from[i]] /\ from[i] # p
      <4>1. CASE i < p
        BY <2>1, <2>2, <2>3, <4>1
      <4>2. CASE i >= p
        BY <2>1, <2>2, <2>3, <4>2
      <4>3. QED
        BY <2>1, <2>2, <4>1, <4>2
    <3>2. ASSUME NEW i \in 1 .. n - 1, NEW j \in 1 .. n - 1, i < j
          PROVE  from[i] < from[j]
      BY <2>1, <2>2, <3>2
    <3>3. ASSUME NEW k \in 1 .. n, k # p
          PROVE  \E i \in 1 .. n - 1 : from[i] = k
      <4>1. CASE k < p
        <5>1. k \in 1 .. n - 1 /\ from[k] = k
          BY <2>1, <2>2, <4>1
        <5>2. QED
          BY <5>1
      <4>2. CASE k > p
        <5>1. k - 1 \in 1 .. n - 1 /\ from[k - 1] = k
          BY <2>1, <2>2, <4>2
        <5>2. QED
          BY <5>1
      <4>3. QED
        BY <2>1, <2>2, <3>3, <4>1, <4>2
    <3>4. QED
      BY <3>1, <3>2, <3>3
  <2> HIDE DEF n, w, from
  <2>6. ASSUME LongestFirstIn(v)
        PROVE  LongestFirstIn(w)
    BY <2>2, <2>4, <2>5, <2>6 DEF LongestFirstIn
  <2>7. Routes(w) \subseteq Routes(v)
    BY <2>2, <2>4, <2>5 DEF Routes
  <2>8. Routes(v) \subseteq Routes(w) \cup {r}
    <3>1. ASSUME NEW k \in 1 .. n, k # p
          PROVE  v[k].route \in Routes(w)
      <4>1. PICK i \in 1 .. n - 1 : from[i] = k
        BY <2>5, <3>1
      <4>2. w[i] = v[k]
        BY <2>5, <4>1
      <4>3. QED
        BY <2>4, <4>2 DEF Routes
    <3>2. QED
      BY <2>1, <2>2, <3>1 DEF Routes
  <2>9. ASSUME OncePerRoute(v)
        PROVE  OncePerRoute(w) /\ r \notin Routes(w)
    <3>1. \A x, y \in 1 .. n : v[x].route = v[y].route => x = y
      BY <2>2, <2>9 DEF OncePerRoute
    <3>2. OncePerRoute(w)
      <4>1. SUFFICES ASSUME NEW i \in 1 .. n - 1, NEW j \in 1 .. n - 1,
                            w[i].route = w[j].route
                     PROVE  i = j
        BY <2>4 DEF OncePerRoute
      <4>2. from[i] = from[j]
        BY <2>5, <3>1, <4>1
      <4>3. \A x, y \in 1 .. n : x < y => x # y
        BY <2>2
      <4>4. i < j \/ j < i \/ i = j
        BY <2>2
      <4>5. QED
        BY <2>5, <4>2, <4>3, <4>4
    <3>3. ASSUME NEW i \in 1 .. n - 1
          PROVE  w[i].route # r
      BY <2>1, <2>5, <3>1
    <3>4. QED
      BY <2>4, <3>2, <3>3 DEF Routes
  <2>10. QED
    BY <2>3, <2>6, <2>7, <2>8, <2>9 DEF w
<1>3. QED
  BY <1>1, <1>2, DeleteRoutePlace

(***************************************************************************)
(* The sum of the hubs' delays.                                            *)
(***************************************************************************)

(* A running sum of n integers exists: what makes the recursive function   *)
(* of TotalHubDelay well defined.                                          *)
LEMMA RunningSumExists ==
  ASSUME NEW n \in Nat, NEW g \in [1 .. n -> Int]
  PROVE  \E f : f = [level \in 0 .. n |-> IF level = 0 THEN 0
                                         ELSE f[level - 1] + g[level]]
<1> DEFINE Sums(k, f) == /\ f \in [0 .. k -> Int]
                         /\ f[0] = 0
                         /\ \A level \in 1 .. k : f[level] = f[level - 1] + g[level]
           bad == {k \in 0 .. n : ~ \E f : Sums(k, f)}
<1>1. bad = {}
  <2>1. SUFFICES ASSUME bad # {}
                 PROVE  FALSE
    OBVIOUS
  <2>2. bad \in SUBSET Nat
    OBVIOUS
  <2>3. PICK k \in bad : \A m \in bad : k <= m
    <3> HIDE DEF bad
    <3>1. QED
      BY <2>1, <2>2, Least
  <2>4. k \in 0 .. n /\ ~ \E f : Sums(k, f)
    BY <2>3
  <2>5. k # 0
    <3>1. Sums(0, [i \in 0 .. 0 |-> 0])
      OBVIOUS
    <3> HIDE DEF Sums
    <3>2. QED
      BY <2>4, <3>1
  <2>6. k - 1 \in 0 .. n /\ k - 1 \notin bad
    <3>1. k - 1 \in 0 .. n /\ ~ (k <= k - 1)
      BY <2>4, <2>5
    <3> HIDE DEF bad
    <3>2. QED
      BY <2>3, <3>1
  <2>7. PICK f : Sums(k - 1, f)
    <3> HIDE DEF Sums
    <3>1. QED
      BY <2>6
  <2> DEFINE h == [i \in 0 .. k |-> IF i < k THEN f[i] ELSE f[k - 1] + g[k]]
  <2>8. Sums(k, h)
    <3>1. f[k - 1] \in Int /\ g[k] \in Int
      BY <2>4, <2>5, <2>7
    <3>2. h \in [0 .. k -> Int]
      BY <2>4, <2>7, <3>1
    <3>3. h[0] = 0
      BY <2>4, <2>5, <2>7
    <3>4. ASSUME NEW level \in 1 .. k
          PROVE  h[level] = h[level - 1] + g[level]
      BY <2>4, <2>7
    <3>5. QED
      BY <3>2, <3>3, <3>4
  <2> HIDE DEF Sums
  <2>9. QED
    BY <2>4, <2>8
<1>2. PICK f : Sums(n, f)
  <2>1. n \in 0 .. n
    OBVIOUS
  <2> HIDE DEF Sums
  <2>2. QED
    BY <1>1, <2>1
<1>3. f = [level \in 0 .. n |-> IF level = 0 THEN 0
                               ELSE f[level - 1] + g[level]]
  BY <1>2
<1>4. QED
  BY <1>3

(* When every delay on an RRU's link is known, the sum of the hubs' delays *)
(* is a number, however deep the cascade.                                  *)
LEMMA TotalHubDelayType ==
  ASSUME NEW d \in Device, NEW kind \in Kind, DelaysKnown(d),
         \A k \in DOMAIN delay_map : delay_map[k] \in Nat
  PROVE  TotalHubDelay(d, kind) \in Int
<1> USE TopologyAssumption, BBUAssumption DEF TopologyAssumption, BBUAssumption
<1> DEFINE n == Hop[d] - 1
           g == [level \in 1 .. n |-> HubDelay(d, kind, level)]
<1>1. n \in Nat
  BY DEF DelaysKnown
<1>2. g \in [1 .. n -> Int]
  <2>1. ASSUME NEW level \in 1 .. n
        PROVE  HubDelay(d, kind, level) \in Int
    <3>1. /\ delay_map[Key(level, kind, PortAt(d, level))] \in Nat
          /\ delay_map[Key(level, T14, PortAt(d, level))] \in Nat
      BY DEF DelaysKnown, Kind
    <3>2. QED
      BY <3>1 DEF HubDelay
  <2>2. QED
    BY <2>1
<1> DEFINE IsSum(f) == f = [level \in 0 .. n |-> IF level = 0 THEN 0
                              ELSE f[level - 1] + HubDelay(d, kind, level)]
           sum == CHOOSE f : IsSum(f)
<1>3. \E f : IsSum(f)
  <2>1. PICK f : f = [level \in 0 .. n |-> IF level = 0 THEN 0
                                           ELSE f[level - 1] + g[level]]
    BY <1>1, <1>2, RunningSumExists
  <2>2. ASSUME NEW level \in 0 .. n
        PROVE  (IF level = 0 THEN 0 ELSE f[level - 1] + g[level])
                 = (IF level = 0 THEN 0
                    ELSE f[level - 1] + HubDelay(d, kind, level))
    BY <1>1
  <2> HIDE DEF g
  <2>3. IsSum(f)
    BY <2>1, <2>2, Zenon
  <2>4. QED
    BY <2>3
<1>4. IsSum(sum)
  BY <1>3
<1>5. TotalHubDelay(d, kind) = sum[n]
  BY DEF TotalHubDelay
<1> HIDE DEF sum
<1>6. sum[0] = 0 /\ \A level \in 1 .. n :
                      sum[level] = sum[level - 1] + HubDelay(d, kind, level)
  BY <1>1, <1>4
<1> HIDE DEF IsSum
<1>7. \A level \in 0 .. n : sum[level] \in Int
  <2> DEFINE bad == {level \in 0 .. n : sum[level] \notin Int}
  <2>1. SUFFICES ASSUME bad # {}
                 PROVE  FALSE
    OBVIOUS
  <2>2. bad \in SUBSET Nat
    BY <1>1
  <2>3. PICK k \in bad : \A m \in bad : k <= m
    <3> HIDE DEF bad
    <3>1. QED
      BY <2>1, <2>2, Least
  <2>4. k \in 0 .. n /\ sum[k] \notin Int
    BY <2>3
  <2>5. k \in 1 .. n /\ k - 1 \in 0 .. n
    BY <1>1, <1>6, <2>4
  <2>6. sum[k - 1] \in Int
    <3>1. ~ (k <= k - 1)
      BY <2>5
    <3>2. QED
      BY <2>3, <2>5, <3>1
  <2>7. HubDelay(d, kind, k) \in Int
    BY <1>2, <2>5
  <2>8. QED
    BY <1>6, <2>4, <2>5, <2>6, <2>7
<1>8. QED
  BY <1>1, <1>5, <1>7

(***************************************************************************)
(* The connections.  What keeps a packet of an unannounced device from     *)
(* being handled is not one statement of the code but the discipline of    *)
(* both ends: a connection belongs to one device, the device's CONNECT is  *)
(* the first thing on it, nothing follows its end of stream, and the name  *)
(* is free again only when the device has gone.                            *)
(***************************************************************************)
OneHolder == \A d, e \in Device : peer[d] = peer[e] /\ peer[d] # None => d = e

HeldStaysUp == \A c \in Conn : Alive(c) => link[c] \in {"backlog", "open", "lost"}

EofIsLast == \A c \in Conn : EOF \in {toBBU[c][i] : i \in DOMAIN toBBU[c]}
                               => ~ Alive(c)

Unannounced(c) ==
  \/ link[c] = "backlog"
  \/ link[c] = "open" /\ connectionInfo_[c].dev = NoDevice

AnnouncedFirst ==
  \A c \in Conn : Unannounced(c) =>
     IF toBBU[c] = <<>> THEN ~ Alive(c)
     ELSE Head(toBBU[c]).id \in {"CONNECT", "EOF"}

WireOK == OneHolder /\ HeldStaysUp /\ EofIsLast /\ AnnouncedFirst

(* The tables of total delays.                                             *)
TotalsOK == LongestFirst /\ OneDownlinkTotal /\ UplinkCoversDownlink

IInv == StateOK /\ WireOK /\ TotalsOK

(***************************************************************************)
(* Packets.                                                                *)
(***************************************************************************)

(* What the id of a packet says of its other fields.                       *)
LEMMA PacketFields ==
  ASSUME NEW p \in PacketToBBU
  PROVE  /\ p.id \in {"CONNECT", "UPGRADE_RESULT"}
              => p.dev \in Device /\ p.ResultID \in UpgradeState
         /\ p.id = "UPDATE_DELAY" => p.dev \in Hub /\ p.delays \in Measurement
         /\ p.id = "DELAY_MEASUREMENT"
              => \/ p.dev \in Hub /\ p.delays \in Measurement
                 \/ p.dev \in Rru /\ p.delays \in [T2a : Nat, Ta3 : Nat]
BY DEF PacketToBBU, Request, EOF

(* Reading a packet leaves a sequence of packets, on a registered name.    *)
LEMMA ReceiveTypes ==
  ASSUME StateOK, NEW c \in Conn, NEW id, Receive(c, id)
  PROVE  /\ Head(toBBU[c]) \in PacketToBBU
         /\ toBBU' \in [Conn -> Seq(PacketToBBU)]
         /\ c \in Registered
         /\ connectionInfo_[c] \in DeviceInfo
<1>1. toBBU[c] \in Seq(PacketToBBU) /\ toBBU[c] # <<>>
  BY DEF StateOK, Receive
<1>2. Head(toBBU[c]) \in PacketToBBU /\ Tail(toBBU[c]) \in Seq(PacketToBBU)
  BY <1>1, HeadTailProperties
<1>3. toBBU' = [toBBU EXCEPT ![c] = Tail(toBBU[c])]
  BY DEF Receive
<1>4. toBBU' \in [Conn -> Seq(PacketToBBU)]
  BY <1>2, <1>3 DEF StateOK
<1>5. c \in Registered
  BY DEF Receive, StateOK
<1>6. QED
  BY <1>2, <1>4, <1>5 DEF StateOK

(* A handler of any packet but CONNECT runs for an announced device.       *)
LEMMA HandlerKnowsDevice ==
  ASSUME StateOK, AnnouncedFirst, NEW c \in Conn,
         NEW id \in {"DELAY_MEASUREMENT", "UPDATE_DELAY", "UPGRADE_RESULT",
                     "UPGRADE", "RFTX_STATUS", "GET_TOPOLOGY"},
         Receive(c, id)
  PROVE  connectionInfo_[c].dev \in Device
<1>1. connectionInfo_[c].dev # NoDevice
  BY DEF AnnouncedFirst, Unannounced, Receive
<1>2. connectionInfo_[c] \in DeviceInfo
  BY ReceiveTypes
<1>3. QED
  BY <1>1, <1>2 DEF DeviceInfo

(* A device that appends packets to its stream keeps its type.             *)
LEMMA FromDeviceType ==
  ASSUME toBBU \in [Conn -> Seq(PacketToBBU)], NEW c \in Conn,
         NEW pkts \in Seq(PacketToBBU)
  PROVE  FromDevice(c, pkts) \in [Conn -> Seq(PacketToBBU)]
<1>1. toBBU[c] \o pkts \in Seq(PacketToBBU)
  BY ConcatProperties
<1>2. QED
  BY <1>1 DEF FromDevice

LEMMA DeviceSets ==
  /\ Hub \subseteq Device /\ Rru \subseteq Device /\ Oam \subseteq Device
  /\ Conn \subseteq Nat \ {0}
  /\ None \notin Conn
BY TopologyAssumption DEF TopologyAssumption, Device, Conn, None

(***************************************************************************)
(* The registry.                                                           *)
(***************************************************************************)

(* The route made for an announced device is a sequence of port pairs.     *)
LEMMA CreateRouteIndexType ==
  ASSUME NEW info, DOMAIN info \subseteq Conn,
         \A x \in DOMAIN info : info[x] \in DeviceInfo,
         NEW c \in DOMAIN info, info[c].dev \in Device
  PROVE  CreateRouteIndex(info, c) \in Route
<1> USE TopologyAssumption DEF TopologyAssumption
<1> DEFINE d == info[c].dev
           hop(i) == info[First(AtHop(info, Hop[d] + 1 - i))].dev
           element(i) == IF i = 1 THEN <<Port[d], UPort[d]>>
                         ELSE <<Port[hop(i)], UPort[hop(i)]>>
<1>1. CASE Hop[d] >= 1 /\ \A level \in 1 .. Hop[d] - 1 : AtHop(info, level) # {}
  <2>1. Hop[d] \in Nat
    OBVIOUS
  <2>2. ASSUME NEW i \in 1 .. Hop[d], i # 1
        PROVE  hop(i) \in Device
    <3> DEFINE S == AtHop(info, Hop[d] + 1 - i)
    <3>1. Hop[d] + 1 - i \in 1 .. Hop[d] - 1
      BY <2>1, <2>2
    <3>2. S # {}
      BY <1>1, <3>1
    <3>3. S \in SUBSET Nat
      BY DeviceSets DEF AtHop, Connected
    <3>4. First(S) \in S
      <4> HIDE DEF S
      <4>1. QED
        BY <3>2, <3>3, FirstIsLeast
    <3>5. First(S) \in DOMAIN info /\ info[First(S)].dev # NoDevice
      BY <3>4 DEF AtHop, Connected
    <3> HIDE DEF S
    <3>6. info[First(S)].dev \in Device
      BY <3>5 DEF DeviceInfo
    <3>7. QED
      BY <3>6 DEF S
  <2>3. \A i \in 1 .. Hop[d] : element(i) \in Nat \X Nat
    BY <2>2
  <2>4. CreateRouteIndex(info, c) = [i \in 1 .. Hop[d] |-> element(i)]
    BY <1>1 DEF CreateRouteIndex
  <2>5. [i \in 1 .. Hop[d] |-> element(i)] \in [1 .. Hop[d] -> Nat \X Nat]
    BY <2>3
  <2> DEFINE r == CreateRouteIndex(info, c)
             n == Hop[d]
  <2>6. n \in Nat /\ r \in [1 .. n -> Nat \X Nat]
    BY <2>1, <2>4, <2>5
  <2> HIDE DEF r, n
  <2>7. r \in Seq(Nat \X Nat)
    BY <2>6, SeqDef
  <2>8. QED
    BY <2>7 DEF r, Route
<1>2. CASE ~ (Hop[d] >= 1 /\ \A level \in 1 .. Hop[d] - 1 : AtHop(info, level) # {})
  <2>1. CreateRouteIndex(info, c) = <<>>
    BY <1>2 DEF CreateRouteIndex
  <2>2. QED
    BY <2>1, EmptySeq DEF Route
<1>3. QED
  BY <1>1, <1>2

(* Adding a measurement to the hubs' delays keeps them natural.            *)
LEMMA SplitStrings2MapType ==
  ASSUME NEW map, \A k \in DOMAIN map : map[k] \in Nat,
         NEW hop, NEW m \in Measurement
  PROVE  \A k \in DOMAIN SplitStrings2Map(map, hop, m) :
            SplitStrings2Map(map, hop, m)[k] \in Nat
<1> DEFINE new == [k \in {Key(hop, x[1], x[2]) : x \in DOMAIN m} |->
                     m[<<k[2], k[3]>>]]
<1>1. /\ Ports(m) \in Nat \ {0}
      /\ m \in [Kind \X (1 .. Ports(m)) -> Nat]
  BY TopologyAssumption DEF TopologyAssumption
<1>2. \A k \in DOMAIN new : new[k] \in Nat
  <2>1. SUFFICES ASSUME NEW x \in DOMAIN m
                 PROVE  new[Key(hop, x[1], x[2])] \in Nat
    OBVIOUS
  <2>2. x = <<x[1], x[2]>>
    BY <1>1
  <2>3. new[Key(hop, x[1], x[2])] = m[<<x[1], x[2]>>]
    BY DEF Key
  <2>4. QED
    BY <1>1, <2>2, <2>3
<1>3. SplitStrings2Map(map, hop, m)
        = [k \in DOMAIN map \cup DOMAIN new |->
             IF k \in DOMAIN map THEN map[k] ELSE new[k]]
  BY DEF SplitStrings2Map, Inserted
<1> HIDE DEF new
<1>4. QED
  BY <1>2, <1>3

(* Deletion takes only keys away.                                          *)
LEMMA DeleteHubDelayType ==
  ASSUME NEW map, \A k \in DOMAIN map : map[k] \in Nat, NEW hop
  PROVE  \A k \in DOMAIN DeleteHubDelay(map, hop) :
            DeleteHubDelay(map, hop)[k] \in Nat
BY DEF DeleteHubDelay

(***************************************************************************)
(* Type correctness.                                                       *)
(***************************************************************************)

(* A device's answer, and the end of its connection, keep every type.      *)
LEMMA AnswerTypes ==
  ASSUME StateOK, NEW d \in Device, NEW id, NEW pkts \in Seq(PacketToBBU),
         Answer(d, id, pkts), UNCHANGED bbuVars
  PROVE  StateOK'
<1>1. peer[d] \in Conn
  BY DEF Answer, StateOK
<1>2. toBBU' \in [Conn -> Seq(PacketToBBU)]
  BY <1>1, FromDeviceType DEF Answer, StateOK
<1>3. DOMAIN toDev' = Conn /\ UNCHANGED <<link, peer>>
  BY DEF Answer, StateOK
<1>4. QED
  BY <1>2, <1>3 DEF StateOK, Registered, bbuVars, dataVars

LEMMA DropTypes ==
  ASSUME StateOK, NEW d \in Device, peer[d] # None, NEW rest \in Seq(PacketToBBU),
         Drop(d, rest), UNCHANGED bbuVars
  PROVE  StateOK'
<1>1. peer[d] \in Conn
  BY DEF StateOK
<1>2. peer' \in [Device -> Conn \cup {None}] /\ DOMAIN toDev' = Conn
  BY DEF Drop, StateOK
<1>3. toBBU' \in [Conn -> Seq(PacketToBBU)]
  BY <1>1 DEF Drop, StateOK
<1>4. /\ link' \in [Conn -> LinkState]
      /\ \A c \in Conn : link'[c] \in {"open", "closing"}
                          <=> link[c] \in {"open", "closing"}
  BY <1>1 DEF Drop, StateOK, LinkState
<1>5. QED
  BY <1>2, <1>3, <1>4 DEF StateOK, Registered, bbuVars, dataVars

(* The start of a stream, and a stream with its end, are streams.          *)
LEMMA Streams ==
  ASSUME NEW s \in Seq(PacketToBBU)
  PROVE  /\ <<>> \in Seq(PacketToBBU)
         /\ Append(s, EOF) \in Seq(PacketToBBU)
         /\ \A n \in 0 .. Len(s) : SubSeq(s, 1, n) \in Seq(PacketToBBU)
<1>1. EOF \in PacketToBBU
  BY DEF PacketToBBU
<1>2. Append(s, EOF) \in Seq(PacketToBBU)
  BY <1>1, AppendProperties
<1>3. ASSUME NEW n \in 0 .. Len(s)
      PROVE  SubSeq(s, 1, n) \in Seq(PacketToBBU)
  <2>1. n \in Int /\ 1 \in Int
    OBVIOUS
  <2>2. \A i \in 1 .. n : s[i] \in PacketToBBU
    BY LenProperties, ElementOfSeq
  <2>3. QED
    BY <2>1, <2>2, SubSeqProperties
<1>4. QED
  BY <1>2, <1>3, EmptySeq

LEMMA SinglePacket ==
  ASSUME NEW p \in PacketToBBU
  PROVE  <<p>> \in Seq(PacketToBBU)
OBVIOUS

(* Every device's own step.                                                *)
LEMMA DeviceStepTypes ==
  ASSUME StateOK, NEW d \in Device, DeviceStep(d)
  PROVE  StateOK'
<1> USE DEF DeviceStep
<1>1. <<>> \in Seq(PacketToBBU)
  BY EmptySeq
<1>2. CASE d \in Hub /\ HubStep(d)
  <2>1. CASE HubConnectResult(d)
    <3>1. PICK m \in Measurement :
            Answer(d, "CONNECT_RESULT",
                   <<[id |-> "DELAY_MEASUREMENT", dev |-> d, delays |-> m]>>)
      BY <2>1 DEF HubConnectResult
    <3>2. [id |-> "DELAY_MEASUREMENT", dev |-> d, delays |-> m] \in PacketToBBU
      BY <1>2 DEF PacketToBBU
    <3>3. QED
      BY <3>1, <3>2, SinglePacket, AnswerTypes
  <2>2. CASE UpdataDelay(d)
    <3>1. PICK m \in Measurement :
            Answer(d, "UPDATE_DELAY",
                   <<[id |-> "UPDATE_DELAY", dev |-> d, delays |-> m]>>)
      BY <2>2 DEF UpdataDelay
    <3>2. [id |-> "UPDATE_DELAY", dev |-> d, delays |-> m] \in PacketToBBU
      BY <1>2 DEF PacketToBBU
    <3>3. QED
      BY <3>1, <3>2, SinglePacket, AnswerTypes
  <2>3. CASE HubUpgradeFails(d)
    <3>1. ASSUME NEW errorno \in {4, 5},
                 Answer(d, "UPGRADE",
                   <<[id |-> "UPGRADE_RESULT", dev |-> d, ResultID |-> errorno]>>)
          PROVE  StateOK'
      <4>1. [id |-> "UPGRADE_RESULT", dev |-> d, ResultID |-> errorno] \in PacketToBBU
        BY <1>2 DEF PacketToBBU, UpgradeState
      <4>2. QED
        BY <3>1, <4>1, SinglePacket, AnswerTypes
    <3>2. CASE Answer(d, "UPGRADE", <<>>)
      BY <1>1, <3>2, AnswerTypes
    <3>3. QED
      BY <2>3, <3>1, <3>2 DEF HubUpgradeFails
  <2>4. CASE HubReboots(d)
    BY <1>1, <2>4, AnswerTypes DEF HubReboots
  <2>5. CASE HubIgnores(d)
    BY <1>1, <2>5, AnswerTypes DEF HubIgnores
  <2>6. QED
    BY <1>2, <2>1, <2>2, <2>3, <2>4, <2>5 DEF HubStep
<1>3. CASE d \in Rru /\ RruStep(d)
  <2>1. CASE RruConnectResult(d)
    <3>1. [id |-> "DELAY_MEASUREMENT", dev |-> d, delays |-> RruDelay[d]]
            \in PacketToBBU
      BY <1>3, TopologyAssumption DEF PacketToBBU, TopologyAssumption
    <3>2. QED
      BY <2>1, <3>1, SinglePacket, AnswerTypes DEF RruConnectResult
  <2>2. CASE RruIgnores(d)
    BY <1>1, <2>2, AnswerTypes DEF RruIgnores
  <2>3. QED
    BY <1>3, <2>1, <2>2 DEF RruStep
<1>4. CASE d \in Oam /\ OamPrints(d)
  BY <1>1, <1>4, AnswerTypes DEF OamPrints
<1>5. CASE NoticeLoss(d)
  BY <1>1, <1>5, DropTypes DEF NoticeLoss
<1>6. QED
  BY <1>2, <1>3, <1>4, <1>5

(* What the environment does.                                              *)
LEMMA EnvironmentTypes ==
  ASSUME StateOK, Environment
  PROVE  StateOK'
<1>1. CASE Restart
  <2>1. /\ link' \in [Conn -> LinkState]
        /\ \A c \in Conn : link'[c] \notin {"open", "closing"}
    BY <1>1 DEF Restart, LinkState
  <2>2. toBBU' \in [Conn -> Seq(PacketToBBU)] /\ DOMAIN toDev' = Conn
    BY <1>1, EmptySeq DEF Restart
  <2>3. /\ DOMAIN connectionInfo_' = {} /\ DOMAIN delay_map' = {}
        /\ m_base' = 0 /\ DOMAIN compensation' = Conn
        /\ tVectorDL' \in Seq(TotalDelay) /\ tVectorUL' \in Seq(TotalDelay)
    BY <1>1, EmptySeq DEF Restart
  <2>4. peer' \in [Device -> Conn \cup {None}]
    BY <1>1 DEF Restart, StateOK
  <2>5. QED
    BY <2>1, <2>2, <2>3, <2>4 DEF StateOK, Registered
<1>2. ASSUME NEW d \in Device, NEW c \in Conn, Connect(d, c), UNCHANGED bbuVars
      PROVE  StateOK'
  <2>1. [id |-> "CONNECT", dev |-> d, ResultID |-> 0] \in PacketToBBU
    BY DEF PacketToBBU, UpgradeState
  <2>2. toBBU' \in [Conn -> Seq(PacketToBBU)]
    BY <1>2, <2>1, SinglePacket DEF Connect, SendConnectMessage, StateOK
  <2>3. /\ link' \in [Conn -> LinkState]
        /\ \A x \in Conn : link'[x] \in {"open", "closing"}
                           <=> link[x] \in {"open", "closing"}
    BY <1>2 DEF Connect, StateOK, LinkState
  <2>4. peer' \in [Device -> Conn \cup {None}] /\ DOMAIN toDev' = Conn
    BY <1>2 DEF Connect, StateOK
  <2>5. QED
    BY <1>2, <2>2, <2>3, <2>4 DEF StateOK, Registered, bbuVars, dataVars
<1>3. ASSUME NEW d \in Device, Exit(d), UNCHANGED bbuVars
      PROVE  StateOK'
  <2>1. peer[d] \in Conn
    BY <1>3 DEF Exit, StateOK
  <2>2. Append(toBBU[peer[d]], EOF) \in Seq(PacketToBBU)
    BY <2>1, Streams DEF StateOK
  <2>3. QED
    BY <1>3, <2>2, DropTypes DEF Exit
<1>4. ASSUME NEW d \in Device, PowerLoss(d), UNCHANGED bbuVars
      PROVE  StateOK'
  <2>1. peer[d] \in Conn
    BY <1>4 DEF PowerLoss, StateOK
  <2>2. PICK n \in 0 .. Len(toBBU[peer[d]]) : Drop(d, SubSeq(toBBU[peer[d]], 1, n))
    BY <1>4 DEF PowerLoss
  <2>3. SubSeq(toBBU[peer[d]], 1, n) \in Seq(PacketToBBU)
    BY <2>1, Streams DEF StateOK
  <2>4. QED
    BY <1>4, <2>2, <2>3, DropTypes DEF PowerLoss
<1>5. ASSUME NEW d \in Oam, OamRequest(d, KnownRoutes), UNCHANGED bbuVars
      PROVE  StateOK'
  <2>1. KnownRoutes \subseteq Route
    <3>1. <<>> \in Route
      BY EmptySeq DEF Route
    <3>2. \A c \in Registered : connectionInfo_[c].routeIndex \in Route
      BY DEF StateOK, DeviceInfo
    <3>3. QED
      BY <3>1, <3>2 DEF KnownRoutes
  <2>2. PICK p \in Request(KnownRoutes) : toBBU' = FromDevice(peer[d], <<p>>)
    BY <1>5 DEF OamRequest
  <2>3. p \in PacketToBBU
    BY <2>1 DEF Request, PacketToBBU
  <2>4. peer[d] \in Conn
    BY <1>5, DeviceSets DEF OamRequest, StateOK
  <2>5. toBBU' \in [Conn -> Seq(PacketToBBU)]
    BY <2>2, <2>3, <2>4, SinglePacket, FromDeviceType DEF StateOK
  <2>6. UNCHANGED <<link, peer, toDev>>
    BY <1>5 DEF OamRequest
  <2>7. QED
    BY <1>5, <2>5, <2>6 DEF StateOK, Registered, bbuVars, dataVars
<1>6. ASSUME NEW d \in Device, GoesDown(d), UNCHANGED bbuVars
      PROVE  StateOK'
  <2>1. CASE peer[d] = None
    <3>1. UNCHANGED netVars
      BY <1>6, <2>1 DEF GoesDown
    <3>2. QED
      BY <1>6, <3>1 DEF StateOK, Registered, netVars, bbuVars, dataVars
  <2>2. CASE peer[d] # None
    <3>1. peer[d] \in Conn /\ Drop(d, Append(toBBU[peer[d]], EOF))
      BY <1>6, <2>2 DEF GoesDown, StateOK
    <3>2. Append(toBBU[peer[d]], EOF) \in Seq(PacketToBBU)
      BY <3>1, Streams DEF StateOK
    <3>3. QED
      BY <1>6, <2>2, <3>1, <3>2, DropTypes
  <2>3. QED
    BY <2>1, <2>2
<1>7. QED
  BY <1>1, <1>2, <1>3, <1>4, <1>5, <1>6 DEF Environment

(* A registered device that gets a new record, and one that is removed.    *)
LEMMA RegistryTypes ==
  ASSUME StateOK, NEW c \in Registered, NEW rec \in DeviceInfo
  PROVE  /\ DOMAIN [connectionInfo_ EXCEPT ![c] = rec] = Registered
         /\ \A x \in Registered : [connectionInfo_ EXCEPT ![c] = rec][x] \in DeviceInfo
BY DEF StateOK, Registered

(* The handlers of the packets that touch no table of total delays.        *)
LEMMA HandlerTypes ==
  ASSUME StateOK, NEW c \in Conn, NEW id, Receive(c, id),
         UNCHANGED <<link, peer, tVectorDL, tVectorUL, compensation>>,
         DOMAIN toDev' = Conn,
         DOMAIN connectionInfo_' = Registered,
         \A x \in Registered : connectionInfo_'[x] \in DeviceInfo,
         \A k \in DOMAIN delay_map' : delay_map'[k] \in Nat,
         m_base' \in Nat
  PROVE  StateOK'
<1>1. toBBU' \in [Conn -> Seq(PacketToBBU)]
  BY ReceiveTypes
<1>2. QED
  BY <1>1 DEF StateOK, Registered

LEMMA ToDevicesDomain ==
  ASSUME NEW pkts
  PROVE  DOMAIN ToDevices(pkts) = Conn
BY DEF ToDevices

(* A report of a hub keeps the hubs' delays natural.                       *)
LEMMA PortsType ==
  ASSUME NEW m \in Measurement
  PROVE  Ports(m) \in Nat
BY TopologyAssumption DEF TopologyAssumption

(* A new total, of either direction, is an integer.                        *)
LEMMA TotalTypes ==
  ASSUME StateOK, NEW d \in Device, DelaysKnown(d), NEW delay \in [T2a : Nat, Ta3 : Nat]
  PROVE  TotalDL(d, delay) \in Int /\ TotalUL(d, delay) \in Int
<1>1. /\ TotalHubDelay(d, Up) \in Int
      /\ TotalHubDelay(d, Down) \in Int
  BY TotalHubDelayType DEF StateOK, Kind
<1>2. QED
  BY <1>1, BBUAssumption DEF TotalDL, TotalUL, BBUAssumption

(* The handlers, one by one.                                               *)
LEMMA SetConnectionClientTypes ==
  ASSUME StateOK, NEW c \in Conn, SetConnectionClient(c)
  PROVE  StateOK'
<1> DEFINE p == Head(toBBU[c])
           rec == [cInfo_ EXCEPT !.dev = p.dev, !.upgradeState = p.ResultID]
<1>1. Receive(c, "CONNECT")
  BY DEF SetConnectionClient
<1>2. p \in PacketToBBU /\ p.id = "CONNECT" /\ c \in Registered
  BY <1>1, ReceiveTypes DEF Receive
<1>3. p.dev \in Device /\ p.ResultID \in UpgradeState
  BY <1>2, PacketFields
<1>4. rec \in DeviceInfo
  <2>1. <<>> \in Route
    BY EmptySeq DEF Route
  <2>2. QED
    BY <1>3, <2>1 DEF cInfo_, DeviceInfo, NoDelay
<1>5. connectionInfo_' = [connectionInfo_ EXCEPT ![c] = rec]
  BY DEF SetConnectionClient
<1>6. DOMAIN toDev' = Conn
  BY ToDevicesDomain DEF SetConnectionClient
<1>7. UNCHANGED <<link, peer, dataVars, compensation>>
  BY DEF SetConnectionClient
<1>8. /\ DOMAIN connectionInfo_' = Registered
      /\ \A x \in Registered : connectionInfo_'[x] \in DeviceInfo
  <2> HIDE DEF rec
  <2>1. QED
    BY <1>2, <1>4, <1>5, RegistryTypes
<1>9. /\ UNCHANGED <<tVectorDL, tVectorUL>>
      /\ \A k \in DOMAIN delay_map' : delay_map'[k] \in Nat
      /\ m_base' \in Nat
  BY <1>7 DEF dataVars, StateOK
<1>10. QED
  BY <1>1, <1>6, <1>7, <1>8, <1>9, HandlerTypes

LEMMA HubDelayInfoTypes ==
  ASSUME StateOK, AnnouncedFirst, NEW c \in Conn, HubDelayInfo(c)
  PROVE  StateOK'
<1> DEFINE p == Head(toBBU[c])
           r == CreateRouteIndex(connectionInfo_, c)
           rec == [connectionInfo_[c] EXCEPT !.routeIndex = r]
<1>1. Receive(c, "DELAY_MEASUREMENT") /\ p.dev \in Hub
  BY DEF HubDelayInfo
<1>2. /\ p \in PacketToBBU /\ p.id = "DELAY_MEASUREMENT"
      /\ c \in Registered /\ connectionInfo_[c] \in DeviceInfo
  BY <1>1, ReceiveTypes DEF Receive
<1>3. p.delays \in Measurement
  <2>1. p.dev \notin Rru
    BY <1>1, TopologyAssumption DEF TopologyAssumption
  <2>2. QED
    BY <1>2, <2>1, PacketFields
<1>4. connectionInfo_[c].dev \in Device
  BY <1>1, HandlerKnowsDevice
<1>5. r \in Route
  BY <1>2, <1>4, CreateRouteIndexType DEF StateOK, Registered
<1>6. rec \in DeviceInfo
  <2> HIDE DEF r
  <2>1. QED
    BY <1>2, <1>5 DEF DeviceInfo
<1>7. UNCHANGED <<link, peer, toDev, tVectorDL, tVectorUL, compensation>>
  BY DEF HubDelayInfo
<1>8. CASE r = <<>>
  <2>1. UNCHANGED <<connectionInfo_, delay_map, m_base>>
    BY <1>8 DEF HubDelayInfo
  <2>2. QED
    BY <1>1, <1>7, <2>1, HandlerTypes DEF StateOK, Registered
<1>9. CASE r # <<>>
  <2>1. /\ connectionInfo_' = [connectionInfo_ EXCEPT ![c].routeIndex = r]
        /\ delay_map' = SplitStrings2Map(delay_map, Hop[p.dev], p.delays)
        /\ m_base' = Ports(p.delays)
    BY <1>9 DEF HubDelayInfo
  <2>2. connectionInfo_' = [connectionInfo_ EXCEPT ![c] = rec]
    BY <2>1
  <2>3. /\ DOMAIN connectionInfo_' = Registered
        /\ \A x \in Registered : connectionInfo_'[x] \in DeviceInfo
    <3> HIDE DEF rec
    <3>1. QED
      BY <1>2, <1>6, <2>2, RegistryTypes
  <2>4. /\ \A k \in DOMAIN delay_map' : delay_map'[k] \in Nat
        /\ m_base' \in Nat
    <3>1. \A k \in DOMAIN delay_map : delay_map[k] \in Nat
      BY DEF StateOK
    <3> DEFINE m == p.delays
    <3> HIDE DEF m
    <3>2. m \in Measurement /\ delay_map' = SplitStrings2Map(delay_map, Hop[p.dev], m)
          /\ m_base' = Ports(m)
      BY <1>3, <2>1 DEF m
    <3>3. QED
      BY <3>1, <3>2, SplitStrings2MapType, PortsType
  <2>5. DOMAIN toDev' = Conn
    BY <1>7 DEF StateOK
  <2>6. QED
    BY <1>1, <1>7, <2>3, <2>4, <2>5, HandlerTypes
<1>10. QED
  BY <1>8, <1>9

LEMMA UpdateHUBDelayInfoTypes ==
  ASSUME StateOK, NEW c \in Conn, UpdateHUBDelayInfo(c)
  PROVE  StateOK'
<1> DEFINE p == Head(toBBU[c])
           m == p.delays
           kept == DeleteHubDelay(delay_map, Hop[p.dev])
<1>1. Receive(c, "UPDATE_DELAY")
  BY DEF UpdateHUBDelayInfo
<1>2. p \in PacketToBBU /\ p.id = "UPDATE_DELAY"
  BY <1>1, ReceiveTypes DEF Receive
<1>3. m \in Measurement
  BY <1>2, PacketFields
<1>4. /\ UNCHANGED <<link, peer, toDev, connectionInfo_, tVectorDL, tVectorUL,
                    compensation>>
      /\ delay_map' = SplitStrings2Map(kept, Hop[p.dev], m)
      /\ m_base' = Ports(m)
  BY DEF UpdateHUBDelayInfo
<1>5. \A k \in DOMAIN kept : kept[k] \in Nat
  BY DeleteHubDelayType DEF StateOK
<1>6. /\ \A k \in DOMAIN delay_map' : delay_map'[k] \in Nat
      /\ m_base' \in Nat
  <2> HIDE DEF m, kept
  <2>1. QED
    BY <1>3, <1>4, <1>5, SplitStrings2MapType, PortsType
<1>7. QED
  BY <1>1, <1>4, <1>6, HandlerTypes DEF StateOK, Registered

LEMMA UpgradeResultProcessTypes ==
  ASSUME StateOK, NEW c \in Conn, UpgradeResultProcess(c)
  PROVE  StateOK'
<1> DEFINE p == Head(toBBU[c])
           rec == [connectionInfo_[c] EXCEPT !.upgradeState = p.ResultID]
<1>1. Receive(c, "UPGRADE_RESULT")
  BY DEF UpgradeResultProcess
<1>2. /\ p \in PacketToBBU /\ p.id = "UPGRADE_RESULT"
      /\ c \in Registered /\ connectionInfo_[c] \in DeviceInfo
  BY <1>1, ReceiveTypes DEF Receive
<1>3. p.ResultID \in UpgradeState
  BY <1>2, PacketFields
<1>4. rec \in DeviceInfo
  <2> HIDE DEF p
  <2>1. QED
    BY <1>2, <1>3 DEF DeviceInfo
<1>5. /\ UNCHANGED <<link, peer, toDev, dataVars, compensation>>
      /\ connectionInfo_' = [connectionInfo_ EXCEPT ![c] = rec]
  BY DEF UpgradeResultProcess
<1>6. /\ DOMAIN connectionInfo_' = Registered
      /\ \A x \in Registered : connectionInfo_'[x] \in DeviceInfo
  <2> HIDE DEF rec
  <2>1. QED
    BY <1>2, <1>4, <1>5, RegistryTypes
<1>7. QED
  BY <1>1, <1>5, <1>6, HandlerTypes DEF StateOK, dataVars

LEMMA UpgradeProcessTypes ==
  ASSUME StateOK, NEW c \in Conn, UpgradeProcess(c)
  PROVE  StateOK'
<1>1. Receive(c, "UPGRADE") /\ UNCHANGED <<link, peer, dataVars, compensation>>
  BY DEF UpgradeProcess
<1>2. PICK S : /\ connectionInfo_' = [x \in Registered |->
                     IF x \in S THEN [connectionInfo_[x] EXCEPT !.upgradeState = 3]
                     ELSE connectionInfo_[x]]
               /\ toDev' = ToDevices(ToTargets(S, "UPGRADE"))
  BY DEF UpgradeProcess
<1>3. \A x \in Registered : connectionInfo_'[x] \in DeviceInfo
  <2>1. \A x \in Registered : connectionInfo_[x] \in DeviceInfo
    BY DEF StateOK
  <2>2. \A rec \in DeviceInfo : [rec EXCEPT !.upgradeState = 3] \in DeviceInfo
    BY DEF DeviceInfo, UpgradeState
  <2>3. QED
    BY <1>2, <2>1, <2>2
<1>4. DOMAIN connectionInfo_' = Registered /\ DOMAIN toDev' = Conn
  BY <1>2, ToDevicesDomain
<1>5. QED
  BY <1>1, <1>3, <1>4, HandlerTypes DEF StateOK, dataVars

LEMMA ForwardTypes ==
  ASSUME StateOK, NEW c \in Conn,
         RRURFTxStatusProcess(c) \/ NetworkTopologyMessageProcess(c)
  PROVE  StateOK'
<1>1. /\ Receive(c, "RFTX_STATUS") \/ Receive(c, "GET_TOPOLOGY")
      /\ UNCHANGED <<link, peer, connectionInfo_, dataVars, compensation>>
  BY DEF RRURFTxStatusProcess, NetworkTopologyMessageProcess
<1>2. DOMAIN toDev' = Conn
  BY ToDevicesDomain DEF RRURFTxStatusProcess, NetworkTopologyMessageProcess
<1>3. QED
  BY <1>1, <1>2, HandlerTypes DEF StateOK, dataVars, Registered

(* The handlers that touch the tables of total delays keep them sorted,    *)
(* without a repeated downlink route, and the uplink routes in step.       *)
LEMMA CalculateTables ==
  ASSUME StateOK, TotalsOK, NEW c \in Registered,
         connectionInfo_[c].dev \in Device, DelaysKnown(connectionInfo_[c].dev),
         NEW delay \in [T2a : Nat, Ta3 : Nat],
         Calculate(c, CreateRouteIndex(connectionInfo_, c), delay)
  PROVE  /\ tVectorDL' \in Seq(TotalDelay) /\ tVectorUL' \in Seq(TotalDelay)
         /\ DOMAIN compensation' = Conn
         /\ TotalsOK'
<1> DEFINE r == CreateRouteIndex(connectionInfo_, c)
           d == connectionInfo_[c].dev
           once == DeleteRoute(tVectorDL, r)
           cleared == DeleteRoute(once, r)
           dl == [route |-> r, total |-> TotalDL(d, delay)]
           ul == [route |-> r, total |-> TotalUL(d, delay)]
<1>1. r \in Route
  BY CreateRouteIndexType DEF StateOK, Registered
<1>2. dl \in TotalDelay /\ ul \in TotalDelay
  <2>1. TotalDL(d, delay) \in Int /\ TotalUL(d, delay) \in Int
    BY TotalTypes
  <2> HIDE DEF r, d
  <2>2. QED
    BY <1>1, <2>1 DEF TotalDelay
<1>3. /\ tVectorDL' = AddTotal(cleared, dl)
      /\ tVectorUL' = AddTotal(tVectorUL, ul)
      /\ DOMAIN compensation' = Conn
  BY DEF Calculate, DeleteRRUTotalDelay, StateOK
<1>4. dl.route = r /\ ul.route = r
  OBVIOUS
<1>5. /\ tVectorDL \in Seq(TotalDelay) /\ tVectorUL \in Seq(TotalDelay)
      /\ LongestFirstIn(tVectorDL) /\ LongestFirstIn(tVectorUL)
      /\ OncePerRoute(tVectorDL)
      /\ Routes(tVectorDL) \subseteq Routes(tVectorUL)
  BY DEF StateOK, TotalsOK, LongestFirst, OneDownlinkTotal, UplinkCoversDownlink
<1> HIDE DEF r, once, cleared, dl, ul
<1>6. /\ once \in Seq(TotalDelay) /\ LongestFirstIn(once) /\ OncePerRoute(once)
      /\ Routes(once) \subseteq Routes(tVectorDL)
  BY <1>5, DeleteRouteProperties DEF once
<1>7. /\ cleared \in Seq(TotalDelay) /\ LongestFirstIn(cleared)
      /\ OncePerRoute(cleared)
      /\ r \notin Routes(cleared) /\ Routes(cleared) \subseteq Routes(once)
  BY <1>6, DeleteRouteProperties DEF cleared
<1>8. /\ tVectorDL' \in Seq(TotalDelay) /\ LongestFirstIn(tVectorDL')
      /\ OncePerRoute(tVectorDL')
      /\ Routes(tVectorDL') = Routes(cleared) \cup {r}
  BY <1>2, <1>3, <1>4, <1>7, AddTotalProperties
<1>9. /\ tVectorUL' \in Seq(TotalDelay) /\ LongestFirstIn(tVectorUL')
      /\ Routes(tVectorUL') = Routes(tVectorUL) \cup {r}
  BY <1>2, <1>3, <1>4, <1>5, AddTotalProperties
<1>10. Routes(tVectorDL') \subseteq Routes(tVectorUL')
  BY <1>5, <1>6, <1>7, <1>8, <1>9
<1>11. TotalsOK'
  <2>1. LongestFirst'
    BY <1>8, <1>9 DEF LongestFirst, LongestFirstIn
  <2>2. OneDownlinkTotal'
    BY <1>8 DEF OneDownlinkTotal, OncePerRoute
  <2>3. UplinkCoversDownlink'
    BY <1>10 DEF UplinkCoversDownlink, Routes
  <2>4. QED
    BY <2>1, <2>2, <2>3 DEF TotalsOK
<1>12. QED
  BY <1>3, <1>8, <1>9, <1>11

LEMMA ForgetTables ==
  ASSUME StateOK, TotalsOK, NEW c \in Registered, ForgetTotals(c)
  PROVE  /\ tVectorDL' \in Seq(TotalDelay) /\ tVectorUL' \in Seq(TotalDelay)
         /\ TotalsOK'
<1> DEFINE r == CreateRouteIndex(connectionInfo_, c)
<1>1. /\ tVectorDL' = DeleteRoute(tVectorDL, r)
      /\ tVectorUL' = DeleteRoute(tVectorUL, r)
  BY DEF ForgetTotals, DeleteRRUTotalDelay
<1>2. /\ tVectorDL \in Seq(TotalDelay) /\ tVectorUL \in Seq(TotalDelay)
      /\ LongestFirstIn(tVectorDL) /\ LongestFirstIn(tVectorUL)
      /\ OncePerRoute(tVectorDL)
      /\ Routes(tVectorDL) \subseteq Routes(tVectorUL)
  BY DEF StateOK, TotalsOK, LongestFirst, OneDownlinkTotal, UplinkCoversDownlink
<1> HIDE DEF r
<1>3. /\ tVectorDL' \in Seq(TotalDelay) /\ LongestFirstIn(tVectorDL')
      /\ OncePerRoute(tVectorDL')
      /\ r \notin Routes(tVectorDL') /\ Routes(tVectorDL') \subseteq Routes(tVectorDL)
  BY <1>1, <1>2, DeleteRouteProperties
<1>4. /\ tVectorUL' \in Seq(TotalDelay) /\ LongestFirstIn(tVectorUL')
      /\ Routes(tVectorUL) \subseteq Routes(tVectorUL') \cup {r}
  BY <1>1, <1>2, DeleteRouteProperties
<1>5. Routes(tVectorDL') \subseteq Routes(tVectorUL')
  BY <1>2, <1>3, <1>4
<1>6. TotalsOK'
  <2>1. LongestFirst'
    BY <1>3, <1>4 DEF LongestFirst, LongestFirstIn
  <2>2. OneDownlinkTotal'
    BY <1>3 DEF OneDownlinkTotal, OncePerRoute
  <2>3. UplinkCoversDownlink'
    BY <1>5 DEF UplinkCoversDownlink, Routes
  <2>4. QED
    BY <2>1, <2>2, <2>3 DEF TotalsOK
<1>7. QED
  BY <1>3, <1>4, <1>6

(* What leaves the tables alone keeps what is true of them.                *)
LEMMA TablesUnchanged ==
  ASSUME TotalsOK, UNCHANGED <<tVectorDL, tVectorUL>>
  PROVE  TotalsOK'
BY DEF TotalsOK, LongestFirst, LongestFirstIn, OneDownlinkTotal, OncePerRoute,
       UplinkCoversDownlink, Routes

LEMMA RruDelayProcessStep ==
  ASSUME StateOK, AnnouncedFirst, TotalsOK, NEW c \in Conn, RruDelayProcess(c)
  PROVE  StateOK' /\ TotalsOK'
<1> DEFINE p == Head(toBBU[c])
           r == CreateRouteIndex(connectionInfo_, c)
           rec == [connectionInfo_[c] EXCEPT !.routeIndex = r,
                                             !.rruDelayInfo = p.delays]
<1>1. Receive(c, "DELAY_MEASUREMENT") /\ p.dev \in Rru
  BY DEF RruDelayProcess
<1>2. /\ p \in PacketToBBU /\ p.id = "DELAY_MEASUREMENT"
      /\ toBBU' \in [Conn -> Seq(PacketToBBU)]
      /\ c \in Registered /\ connectionInfo_[c] \in DeviceInfo
  BY <1>1, ReceiveTypes DEF Receive
<1>3. p.delays \in [T2a : Nat, Ta3 : Nat]
  <2>1. p.dev \notin Hub
    BY <1>1, TopologyAssumption DEF TopologyAssumption
  <2>2. QED
    BY <1>2, <2>1, PacketFields
<1>4. connectionInfo_[c].dev \in Device
  BY <1>1, HandlerKnowsDevice
<1>5. r \in Route
  BY <1>2, <1>4, CreateRouteIndexType DEF StateOK, Registered
<1>6. rec \in DeviceInfo
  <2> HIDE DEF r, p
  <2>1. QED
    BY <1>2, <1>3, <1>5 DEF DeviceInfo
<1>7. UNCHANGED <<link, peer, delay_map, m_base>>
  BY DEF RruDelayProcess
<1>8. CASE r = <<>>
  <2>1. UNCHANGED <<connectionInfo_, toDev, tVectorDL, tVectorUL, compensation>>
    BY <1>8 DEF RruDelayProcess
  <2>2. StateOK'
    BY <1>2, <1>7, <2>1 DEF StateOK, Registered
  <2>3. QED
    BY <2>1, <2>2, TablesUnchanged
<1>9. CASE r # <<>>
  <2>1. /\ connectionInfo_' = [connectionInfo_ EXCEPT
                ![c].routeIndex = r, ![c].rruDelayInfo = p.delays]
        /\ DOMAIN toDev' = Conn
    BY <1>9, ToDevicesDomain DEF RruDelayProcess
  <2>2. connectionInfo_' = [connectionInfo_ EXCEPT ![c] = rec]
    <3>1. c \in DOMAIN connectionInfo_
      BY <1>2 DEF Registered
    <3>2. QED
      BY <2>1, <3>1
  <2>3. /\ DOMAIN connectionInfo_' = Registered
        /\ \A x \in Registered : connectionInfo_'[x] \in DeviceInfo
    <3> HIDE DEF rec
    <3>1. QED
      BY <1>2, <1>6, <2>2, RegistryTypes
  <2>4. /\ tVectorDL' \in Seq(TotalDelay) /\ tVectorUL' \in Seq(TotalDelay)
        /\ DOMAIN compensation' = Conn
        /\ TotalsOK'
    <3>1. CASE DelaysKnown(connectionInfo_[c].dev)
      <4>1. Calculate(c, CreateRouteIndex(connectionInfo_, c), p.delays)
        BY <1>9, <3>1 DEF RruDelayProcess
      <4> HIDE DEF p
      <4>2. QED
        BY <1>2, <1>3, <1>4, <3>1, <4>1, CalculateTables
    <3>2. CASE ~ DelaysKnown(connectionInfo_[c].dev)
      <4>1. /\ UNCHANGED <<tVectorDL, tVectorUL>>
            /\ compensation' = [compensation EXCEPT ![c] = Empty]
        BY <1>9, <3>2 DEF RruDelayProcess
      <4>2. QED
        BY <4>1, TablesUnchanged DEF StateOK
    <3>3. QED
      BY <3>1, <3>2
  <2>5. StateOK'
    BY <1>2, <1>7, <2>1, <2>3, <2>4 DEF StateOK, Registered
  <2>6. QED
    BY <2>4, <2>5
<1>10. QED
  BY <1>8, <1>9

(* A connection is accepted: its name was not registered.                  *)
LEMMA OnAcceptTypes ==
  ASSUME StateOK, NEW c \in Conn, OnAccept(c)
  PROVE  StateOK'
<1> DEFINE new == [x \in {c} |-> cInfo_]
<1>1. cInfo_ \in DeviceInfo
  <2>1. <<>> \in Route
    BY EmptySeq DEF Route
  <2>2. QED
    BY <2>1 DEF cInfo_, DeviceInfo, NoDelay
<1>2. /\ UNCHANGED <<peer, toBBU, toDev, dataVars, compensation>>
      /\ link' = [link EXCEPT ![c] = "open"]
      /\ connectionInfo_' = [k \in Registered \cup {c} |->
                               IF k \in Registered THEN connectionInfo_[k]
                               ELSE new[k]]
  BY DEF OnAccept, Inserted, Registered
<1>3. DOMAIN connectionInfo_' = Registered \cup {c}
  BY <1>2
<1>4. \A x \in Registered \cup {c} : connectionInfo_'[x] \in DeviceInfo
  <2>1. \A x \in Registered : connectionInfo_[x] \in DeviceInfo
    BY DEF StateOK
  <2>2. QED
    BY <1>1, <1>2, <2>1
<1>5. /\ link' \in [Conn -> LinkState]
      /\ Registered \cup {c} = {x \in Conn : link'[x] \in {"open", "closing"}}
  BY <1>2 DEF StateOK, LinkState
<1>6. QED
  BY <1>2, <1>3, <1>4, <1>5 DEF StateOK, Registered, dataVars

(* A connection that ends stays registered until its callback runs.        *)
LEMMA ClosingTypes ==
  ASSUME StateOK, NEW c \in Conn, OnEof(c) \/ OnReadError(c)
  PROVE  StateOK'
<1>1. /\ link[c] = "open"
      /\ link' = [link EXCEPT ![c] = "closing"]
      /\ UNCHANGED <<peer, toDev, bbuVars>>
  BY DEF OnEof, OnReadError, Receive
<1>2. toBBU' \in [Conn -> Seq(PacketToBBU)]
  <2>1. CASE OnEof(c)
    BY <2>1, ReceiveTypes DEF OnEof
  <2>2. CASE OnReadError(c)
    BY <2>2 DEF OnReadError, StateOK
  <2>3. QED
    BY <2>1, <2>2
<1>3. /\ link' \in [Conn -> LinkState]
      /\ \A x \in Conn : link'[x] \in {"open", "closing"}
                         <=> link[x] \in {"open", "closing"}
  BY <1>1 DEF StateOK, LinkState
<1>4. QED
  BY <1>1, <1>2, <1>3 DEF StateOK, Registered, bbuVars, dataVars

LEMMA CloseConnectionStep ==
  ASSUME StateOK, TotalsOK, NEW c \in Conn, CloseConnection(c)
  PROVE  StateOK' /\ TotalsOK'
<1>1. c \in Registered
  BY DEF CloseConnection, StateOK
<1>2. /\ connectionInfo_' = [x \in Registered \ {c} |-> connectionInfo_[x]]
      /\ compensation' = [compensation EXCEPT ![c] = Unanswered]
      /\ link' = [link EXCEPT ![c] = "free"]
      /\ toBBU' = [toBBU EXCEPT ![c] = <<>>]
      /\ toDev' = [toDev EXCEPT ![c] = <<>>]
      /\ UNCHANGED <<peer, m_base>>
  BY DEF CloseConnection, Unregister
<1>3. /\ tVectorDL' \in Seq(TotalDelay) /\ tVectorUL' \in Seq(TotalDelay)
      /\ TotalsOK'
  <2>1. CASE connectionInfo_[c].dev \in Rru
    BY <1>1, <2>1, ForgetTables DEF CloseConnection
  <2>2. CASE connectionInfo_[c].dev \notin Rru
    <3>1. UNCHANGED <<tVectorDL, tVectorUL>>
      BY <2>2 DEF CloseConnection
    <3>2. QED
      BY <3>1, TablesUnchanged DEF StateOK
  <2>3. QED
    BY <2>1, <2>2
<1>4. \A k \in DOMAIN delay_map' : delay_map'[k] \in Nat
  <2>1. \A k \in DOMAIN delay_map : delay_map[k] \in Nat
    BY DEF StateOK
  <2>2. \/ delay_map' = DeleteHubDelay(delay_map, Hop[connectionInfo_[c].dev])
        \/ delay_map' = delay_map
    BY DEF CloseConnection
  <2>3. QED
    BY <2>1, <2>2, DeleteHubDelayType
<1>5. toBBU' \in [Conn -> Seq(PacketToBBU)] /\ DOMAIN toDev' = Conn
  BY <1>2, EmptySeq DEF StateOK
<1>6. /\ link' \in [Conn -> LinkState]
      /\ Registered \ {c} = {x \in Conn : link'[x] \in {"open", "closing"}}
  BY <1>2 DEF StateOK, LinkState
<1>7. /\ DOMAIN connectionInfo_' = Registered \ {c}
      /\ \A x \in Registered \ {c} : connectionInfo_'[x] \in DeviceInfo
  BY <1>2 DEF StateOK
<1>8. StateOK'
  BY <1>2, <1>3, <1>4, <1>5, <1>6, <1>7 DEF StateOK, Registered
<1>9. QED
  BY <1>3, <1>8

(* Which actions leave the tables of total delays alone.                   *)
LEMMA OtherHandlers ==
  ASSUME NEW c \in Conn,
         \/ OnAccept(c) \/ OnEof(c) \/ OnReadError(c)
         \/ SetConnectionClient(c) \/ HubDelayInfo(c) \/ UpdateHUBDelayInfo(c)
         \/ UpgradeResultProcess(c) \/ UpgradeProcess(c)
         \/ RRURFTxStatusProcess(c) \/ NetworkTopologyMessageProcess(c)
  PROVE  UNCHANGED <<tVectorDL, tVectorUL>>
BY DEF OnAccept, OnEof, OnReadError, SetConnectionClient, HubDelayInfo,
       UpdateHUBDelayInfo, UpgradeResultProcess, UpgradeProcess,
       RRURFTxStatusProcess, NetworkTopologyMessageProcess, bbuVars, dataVars

(* Every step of the site keeps every type and the tables of total delays. *)
LEMMA TypeAndTotalsStep ==
  ASSUME StateOK, AnnouncedFirst, TotalsOK, [Next]_vars
  PROVE  StateOK' /\ TotalsOK'
<1>1. ASSUME NEW c \in Conn, BBUStep(c)
      PROVE  StateOK' /\ TotalsOK'
  <2>1. CASE RruDelayProcess(c)
    BY <2>1, RruDelayProcessStep
  <2>2. CASE CloseConnection(c)
    BY <2>2, CloseConnectionStep
  <2>3. CASE OnAccept(c)
    BY <2>3, OnAcceptTypes, OtherHandlers, TablesUnchanged
  <2>4. CASE OnEof(c) \/ OnReadError(c)
    BY <2>4, ClosingTypes, OtherHandlers, TablesUnchanged
  <2>5. CASE SetConnectionClient(c)
    BY <2>5, SetConnectionClientTypes, OtherHandlers, TablesUnchanged
  <2>6. CASE HubDelayInfo(c)
    BY <2>6, HubDelayInfoTypes, OtherHandlers, TablesUnchanged
  <2>7. CASE UpdateHUBDelayInfo(c)
    BY <2>7, UpdateHUBDelayInfoTypes, OtherHandlers, TablesUnchanged
  <2>8. CASE UpgradeResultProcess(c)
    BY <2>8, UpgradeResultProcessTypes, OtherHandlers, TablesUnchanged
  <2>9. CASE UpgradeProcess(c)
    BY <2>9, UpgradeProcessTypes, OtherHandlers, TablesUnchanged
  <2>10. CASE RRURFTxStatusProcess(c) \/ NetworkTopologyMessageProcess(c)
    BY <2>10, ForwardTypes, OtherHandlers, TablesUnchanged
  <2>11. QED
    BY <1>1, <2>1, <2>2, <2>3, <2>4, <2>5, <2>6, <2>7, <2>8, <2>9, <2>10
    DEF BBUStep, OnMessage
<1>2. ASSUME NEW d \in Device, DeviceStep(d)
      PROVE  StateOK' /\ TotalsOK'
  <2>1. UNCHANGED <<tVectorDL, tVectorUL>>
    BY <1>2 DEF DeviceStep, bbuVars, dataVars
  <2>2. QED
    BY <1>2, <2>1, DeviceStepTypes, TablesUnchanged
<1>3. CASE Environment
  <2>1. StateOK'
    BY <1>3, EnvironmentTypes
  <2>2. TotalsOK'
    <3>1. CASE Restart
      <4>1. tVectorDL' = <<>> /\ tVectorUL' = <<>>
        BY <3>1 DEF Restart
      <4>2. QED
        BY <4>1 DEF TotalsOK, LongestFirst, LongestFirstIn, OneDownlinkTotal,
                    OncePerRoute, UplinkCoversDownlink, Routes
    <3>2. CASE UNCHANGED bbuVars
      <4>1. UNCHANGED <<tVectorDL, tVectorUL>>
        BY <3>2 DEF bbuVars, dataVars
      <4>2. QED
        BY <4>1, TablesUnchanged
    <3>3. QED
      BY <1>3, <3>1, <3>2 DEF Environment
  <2>3. QED
    BY <2>1, <2>2
<1>4. CASE UNCHANGED vars
  <2>1. StateOK'
    BY <1>4 DEF StateOK, Registered, vars, netVars, bbuVars, dataVars
  <2>2. UNCHANGED <<tVectorDL, tVectorUL>>
    BY <1>4 DEF vars, bbuVars, dataVars
  <2>3. QED
    BY <2>1, <2>2, TablesUnchanged
<1>5. QED
  BY <1>1, <1>2, <1>3, <1>4 DEF Next

(***************************************************************************)
(* The connections.                                                        *)
(***************************************************************************)
EndsIn(s) == EOF \in {s[i] : i \in DOMAIN s}

(* What a device appends changes neither the head of a stream nor, without *)
(* an end of stream in it, whether the stream ends.                        *)
LEMMA ConcatStream ==
  ASSUME NEW s \in Seq(PacketToBBU), NEW t \in Seq(PacketToBBU)
  PROVE  /\ s # <<>> => s \o t # <<>> /\ Head(s \o t) = Head(s)
         /\ EndsIn(s \o t) => EndsIn(s) \/ EndsIn(t)
<1>1. /\ Len(s) \in Nat /\ Len(t) \in Nat
      /\ DOMAIN s = 1 .. Len(s) /\ DOMAIN t = 1 .. Len(t)
  BY LenProperties
<1>2. /\ s \o t \in Seq(PacketToBBU)
      /\ Len(s \o t) = Len(s) + Len(t)
      /\ \A i \in 1 .. Len(s) + Len(t) : (s \o t)[i] =
            IF i <= Len(s) THEN s[i] ELSE t[i - Len(s)]
  BY ConcatProperties
<1> DEFINE w == s \o t
<1>3. /\ w \in Seq(PacketToBBU) /\ DOMAIN w = 1 .. Len(s) + Len(t)
      /\ \A i \in 1 .. Len(s) : w[i] = s[i]
      /\ \A i \in Len(s) + 1 .. Len(s) + Len(t) : w[i] = t[i - Len(s)]
  <2>1. DOMAIN w = 1 .. Len(w)
    BY <1>2, LenProperties
  <2>2. QED
    BY <1>1, <1>2, <2>1
<1> HIDE DEF w
<1>4. s # <<>> => w # <<>> /\ Head(w) = Head(s)
  <2>1. SUFFICES ASSUME s # <<>>
                 PROVE  w # <<>> /\ Head(w) = Head(s)
    OBVIOUS
  <2>2. Len(s) >= 1 /\ Head(s) = s[1]
    BY <1>1, <2>1, HeadTailProperties, EmptySeq
  <2>3. w[1] = s[1] /\ 1 \in DOMAIN w
    BY <1>1, <1>3, <2>2
  <2>4. w # <<>>
    BY <2>3
  <2>5. Head(w) = w[1]
    BY <1>3, <2>4, HeadTailProperties
  <2>6. QED
    BY <2>2, <2>3, <2>4, <2>5
<1>5. ASSUME NEW i \in DOMAIN w, w[i] = EOF
      PROVE  EndsIn(s) \/ EndsIn(t)
  <2>1. CASE i <= Len(s)
    BY <1>1, <1>3, <1>5, <2>1 DEF EndsIn
  <2>2. CASE i > Len(s)
    <3>1. i - Len(s) \in DOMAIN t /\ t[i - Len(s)] = EOF
      BY <1>1, <1>3, <1>5, <2>2
    <3>2. QED
      BY <3>1 DEF EndsIn
  <2>3. QED
    BY <1>1, <1>3, <2>1, <2>2
<1>6. EndsIn(w) => EndsIn(s) \/ EndsIn(t)
  BY <1>5 DEF EndsIn
<1>7. QED
  BY <1>4, <1>6 DEF w

(* What is left of a stream ends if the stream does.                       *)
LEMMA RestOfStream ==
  ASSUME NEW s \in Seq(PacketToBBU), s # <<>>
  PROVE  /\ EndsIn(Tail(s)) => EndsIn(s)
         /\ Head(s) = EOF => EndsIn(s)
<1>1. /\ Head(s) = s[1]
      /\ Tail(s) \in Seq(PacketToBBU)
      /\ Len(Tail(s)) = Len(s) - 1
      /\ \A i \in 1 .. Len(Tail(s)) : Tail(s)[i] = s[i + 1]
  BY HeadTailProperties
<1>2. Len(s) \in Nat /\ DOMAIN s = 1 .. Len(s) /\ Len(s) # 0
  BY LenProperties, EmptySeq
<1>3. DOMAIN Tail(s) = 1 .. Len(Tail(s))
  BY <1>1, LenProperties
<1>4. ASSUME NEW i \in DOMAIN Tail(s), Tail(s)[i] = EOF
      PROVE  EndsIn(s)
  <2>1. i + 1 \in DOMAIN s /\ s[i + 1] = EOF
    BY <1>1, <1>2, <1>3, <1>4
  <2>2. QED
    BY <2>1 DEF EndsIn
<1>5. 1 \in DOMAIN s
  BY <1>2
<1>6. QED
  BY <1>1, <1>4, <1>5 DEF EndsIn

(* A stream cut short, and a stream with its end, start as before.         *)
LEMMA StartOfStream ==
  ASSUME NEW s \in Seq(PacketToBBU)
  PROVE  /\ \A n \in 0 .. Len(s) :
              SubSeq(s, 1, n) # <<>> => /\ s # <<>>
                                        /\ Head(SubSeq(s, 1, n)) = Head(s)
         /\ \/ Head(Append(s, EOF)) = EOF
            \/ s # <<>> /\ Head(Append(s, EOF)) = Head(s)
<1>1. Len(s) \in Nat /\ DOMAIN s = 1 .. Len(s)
  BY LenProperties
<1>2. ASSUME NEW n \in 0 .. Len(s), SubSeq(s, 1, n) # <<>>
      PROVE  s # <<>> /\ Head(SubSeq(s, 1, n)) = Head(s)
  <2>1. n \in Int /\ 1 \in Int /\ \A i \in 1 .. n : s[i] \in PacketToBBU
    BY <1>1, ElementOfSeq
  <2> DEFINE w == SubSeq(s, 1, n)
  <2>2. /\ w \in Seq(PacketToBBU)
        /\ Len(w) = IF 1 <= n THEN n - 1 + 1 ELSE 0
        /\ \A i \in 1 .. n - 1 + 1 : w[i] = s[1 + i - 1]
    BY <2>1, SubSeqProperties
  <2>3. w # <<>>
    BY <1>2
  <2> HIDE DEF w
  <2>4. Len(w) # 0 /\ Head(w) = w[1]
    BY <2>2, <2>3, EmptySeq, HeadTailProperties
  <2>5. 1 <= n /\ w[1] = s[1]
    BY <1>1, <2>2, <2>4
  <2>6. s # <<>>
    BY <1>1, <2>5, EmptySeq
  <2>7. Head(s) = s[1]
    BY <2>6, HeadTailProperties
  <2>8. QED
    BY <2>4, <2>5, <2>6, <2>7 DEF w
<1>3. \/ Head(Append(s, EOF)) = EOF
      \/ s # <<>> /\ Head(Append(s, EOF)) = Head(s)
  <2> DEFINE w == Append(s, EOF)
  <2>1. /\ w \in Seq(PacketToBBU) /\ Len(w) = Len(s) + 1
        /\ \A i \in 1 .. Len(s) : w[i] = s[i]
        /\ w[Len(s) + 1] = EOF
    <3>1. EOF \in PacketToBBU
      BY DEF PacketToBBU
    <3>2. QED
      BY <1>1, <3>1, AppendProperties
  <2> HIDE DEF w
  <2>2. w # <<>> /\ Head(w) = w[1]
    BY <1>1, <2>1, EmptySeq, HeadTailProperties
  <2>3. CASE s = <<>>
    <3>1. Len(s) = 0
      BY <2>3, EmptySeq
    <3>2. w[1] = EOF
      BY <2>1, <3>1
    <3>3. Head(w) = EOF
      BY <2>2, <3>2
    <3>4. QED
      BY <3>3 DEF w
  <2>4. CASE s # <<>>
    <3>1. Len(s) # 0 /\ Head(s) = s[1]
      BY <2>4, EmptySeq, HeadTailProperties
    <3>2. QED
      BY <1>1, <2>1, <2>2, <2>4, <3>1 DEF w
  <2>5. QED
    BY <2>3, <2>4
<1>4. QED
  BY <1>2, <1>3

(* The discipline of both ends, restated with the stream as a whole.       *)
LEMMA WireParts ==
  /\ EofIsLast <=> \A c \in Conn : EndsIn(toBBU[c]) => ~ Alive(c)
  /\ EofIsLast' <=> \A c \in Conn : EndsIn(toBBU'[c]) => ~ Alive(c)'
  /\ StateOK => \A c \in Conn : toBBU[c] \in Seq(PacketToBBU)
BY DEF EofIsLast, EndsIn, StateOK

(* A device that appends packets, none of them an end of stream.           *)
LEMMA AppendWire ==
  ASSUME StateOK, WireOK, NEW d \in Device, peer[d] # None,
         NEW pkts \in Seq(PacketToBBU), ~ EndsIn(pkts),
         toBBU' = FromDevice(peer[d], pkts),
         UNCHANGED <<link, peer, connectionInfo_>>
  PROVE  WireOK'
<1>0. PICK c \in Conn : c = peer[d]
  BY DEF StateOK
<1>1. Alive(c)
  BY <1>0 DEF Alive
<1>2. /\ toBBU'[c] \in {toBBU[c], toBBU[c] \o pkts}
      /\ \A x \in Conn \ {c} : toBBU'[x] = toBBU[x]
  BY <1>0 DEF FromDevice, StateOK
<1>3. toBBU[c] \in Seq(PacketToBBU)
  BY <1>1 DEF StateOK
<1>4. \A x \in Conn : Alive(x)' <=> Alive(x)
  BY DEF Alive
<1>5. OneHolder' /\ HeldStaysUp'
  BY <1>4 DEF WireOK, OneHolder, HeldStaysUp
<1>6. EofIsLast'
  <2>1. ~ EndsIn(toBBU'[c])
    BY <1>1, <1>2, <1>3, WireParts, ConcatStream DEF WireOK
  <2>2. QED
    BY <1>2, <1>4, <2>1, WireParts DEF WireOK
<1>7. AnnouncedFirst'
  <2>1. ASSUME NEW x \in Conn, Unannounced(x)'
        PROVE  IF toBBU'[x] = <<>> THEN ~ Alive(x)'
               ELSE Head(toBBU'[x]).id \in {"CONNECT", "EOF"}
    <3>1. Unannounced(x)
      BY <2>1 DEF Unannounced
    <3>2. CASE x = c
      <4>1. toBBU[c] # <<>> /\ Head(toBBU[c]).id \in {"CONNECT", "EOF"}
        BY <1>1, <3>1, <3>2 DEF WireOK, AnnouncedFirst
      <4>2. toBBU'[c] # <<>> /\ Head(toBBU'[c]) = Head(toBBU[c])
        BY <1>2, <1>3, <4>1, ConcatStream
      <4>3. QED
        BY <3>2, <4>1, <4>2
    <3>3. CASE x # c
      BY <1>2, <1>4, <3>1, <3>3 DEF WireOK, AnnouncedFirst
    <3>4. QED
      BY <3>2, <3>3
  <2>2. QED
    BY <2>1 DEF AnnouncedFirst
<1>8. QED
  BY <1>5, <1>6, <1>7 DEF WireOK

(* A device whose end of the connection disappears.                        *)
LEMMA DropWire ==
  ASSUME StateOK, WireOK, NEW d \in Device, peer[d] # None, NEW rest,
         Drop(d, rest), UNCHANGED connectionInfo_,
         rest # <<>> => \/ Head(rest) = EOF
                        \/ /\ toBBU[peer[d]] # <<>>
                           /\ Head(rest) = Head(toBBU[peer[d]])
  PROVE  WireOK'
<1>0. PICK c \in Conn : c = peer[d]
  BY DEF StateOK
<1>1. Alive(c)
  BY <1>0 DEF Alive
<1>2. peer' = [peer EXCEPT ![d] = None]
  BY DEF Drop
<1>3. /\ ~ Alive(c)'
      /\ \A x \in Conn : Alive(x)' => Alive(x)
  <2>1. \A e \in Device : peer'[e] = IF e = d THEN None ELSE peer[e]
    BY <1>2 DEF StateOK
  <2>2. \A x \in Conn : x # None
    BY DeviceSets
  <2>3. ~ Alive(c)'
    BY <1>0, <2>1, <2>2 DEF WireOK, OneHolder, Alive
  <2>4. QED
    BY <2>1, <2>2, <2>3 DEF Alive
<1>4. OneHolder'
  BY <1>2 DEF WireOK, OneHolder, StateOK
<1>5. \/ /\ link' = [link EXCEPT ![c] = "free"]
         /\ UNCHANGED toBBU
      \/ /\ toBBU' = [toBBU EXCEPT ![c] = rest]
         /\ UNCHANGED link
  BY <1>0 DEF Drop
<1>6. \A x \in Conn \ {c} : link'[x] = link[x] /\ toBBU'[x] = toBBU[x]
  BY <1>5 DEF StateOK
<1>7. \/ link'[c] = "free"
      \/ link'[c] = link[c] /\ toBBU'[c] = rest
  BY <1>5 DEF StateOK
<1>8. HeldStaysUp'
  BY <1>3, <1>6 DEF WireOK, HeldStaysUp
<1>9. EofIsLast'
  BY <1>3, <1>6, WireParts DEF WireOK
<1>10. AnnouncedFirst'
  <2>1. ASSUME NEW x \in Conn, Unannounced(x)'
        PROVE  IF toBBU'[x] = <<>> THEN ~ Alive(x)'
               ELSE Head(toBBU'[x]).id \in {"CONNECT", "EOF"}
    <3>1. CASE x = c
      <4>1. link'[c] = link[c] /\ toBBU'[c] = rest /\ Unannounced(c)
        BY <1>7, <2>1, <3>1 DEF Unannounced
      <4>2. toBBU[c] # <<>> => Head(toBBU[c]).id \in {"CONNECT", "EOF"}
        BY <1>1, <4>1 DEF WireOK, AnnouncedFirst
      <4>3. rest # <<>> => Head(rest).id \in {"CONNECT", "EOF"}
        BY <1>0, <4>2 DEF EOF
      <4>4. QED
        BY <1>3, <3>1, <4>1, <4>3
    <3>2. CASE x # c
      BY <1>3, <1>6, <2>1, <3>2 DEF WireOK, AnnouncedFirst, Unannounced
    <3>3. QED
      BY <3>1, <3>2
  <2>2. QED
    BY <2>1 DEF AnnouncedFirst
<1>11. QED
  BY <1>4, <1>8, <1>9, <1>10 DEF WireOK

(* A handler that keeps the connections and who is behind them.            *)
LEMMA HandlerWire ==
  ASSUME StateOK, WireOK, NEW c \in Conn, NEW id, Receive(c, id),
         UNCHANGED <<link, peer>>, connectionInfo_'[c].dev # NoDevice,
         \A x \in Registered \ {c} : connectionInfo_'[x].dev = connectionInfo_[x].dev
  PROVE  WireOK'
<1>1. /\ toBBU[c] \in Seq(PacketToBBU) /\ toBBU[c] # <<>>
      /\ toBBU'[c] = Tail(toBBU[c])
      /\ \A x \in Conn \ {c} : toBBU'[x] = toBBU[x]
      /\ link[c] = "open"
  BY DEF Receive, StateOK
<1>2. \A x \in Conn : Alive(x)' <=> Alive(x)
  BY DEF Alive
<1>3. OneHolder' /\ HeldStaysUp'
  BY <1>2 DEF WireOK, OneHolder, HeldStaysUp
<1>4. EofIsLast'
  <2>1. EndsIn(toBBU'[c]) => EndsIn(toBBU[c])
    BY <1>1, RestOfStream
  <2>2. QED
    BY <1>1, <1>2, <2>1, WireParts DEF WireOK
<1>5. ASSUME NEW x \in Conn, Unannounced(x)'
      PROVE  x # c /\ Unannounced(x)
  <2>1. x # c
    BY <1>1, <1>5 DEF Unannounced
  <2>2. link[x] = "open" => x \in Registered
    BY DEF StateOK
  <2>3. QED
    BY <1>5, <2>1, <2>2 DEF Unannounced
<1>6. AnnouncedFirst'
  BY <1>1, <1>2, <1>5 DEF WireOK, AnnouncedFirst
<1>7. QED
  BY <1>3, <1>4, <1>6 DEF WireOK

(* A stream of one packet that is not an end of stream does not end.       *)
LEMMA SingleNoEnd ==
  ASSUME NEW p \in PacketToBBU, p.id # "EOF"
  PROVE  <<p>> \in Seq(PacketToBBU) /\ ~ EndsIn(<<p>>)
BY DEF EndsIn, EOF

LEMMA EmptyNoEnd == <<>> \in Seq(PacketToBBU) /\ ~ EndsIn(<<>>)
BY EmptySeq DEF EndsIn

(* The same for an answer.                                                 *)
LEMMA AnswerWire ==
  ASSUME StateOK, WireOK, NEW d \in Device, NEW id,
         NEW pkts \in Seq(PacketToBBU), ~ EndsIn(pkts),
         Answer(d, id, pkts), UNCHANGED bbuVars
  PROVE  WireOK'
<1>1. /\ peer[d] # None /\ toBBU' = FromDevice(peer[d], pkts)
      /\ UNCHANGED <<link, peer, connectionInfo_>>
  BY DEF Answer, bbuVars
<1>2. QED
  BY <1>1, AppendWire

LEMMA DeviceStepWire ==
  ASSUME StateOK, WireOK, NEW d \in Device, DeviceStep(d)
  PROVE  WireOK'
<1> USE DEF DeviceStep
<1>1. UNCHANGED connectionInfo_
  BY DEF bbuVars
<1>2. CASE d \in Hub /\ HubStep(d)
  <2>1. CASE HubConnectResult(d)
    <3>1. PICK m \in Measurement :
            Answer(d, "CONNECT_RESULT",
                   <<[id |-> "DELAY_MEASUREMENT", dev |-> d, delays |-> m]>>)
      BY <2>1 DEF HubConnectResult
    <3>2. [id |-> "DELAY_MEASUREMENT", dev |-> d, delays |-> m] \in PacketToBBU
      BY <1>2 DEF PacketToBBU
    <3>3. QED
      BY <3>1, <3>2, SingleNoEnd, AnswerWire
  <2>2. CASE UpdataDelay(d)
    <3>1. PICK m \in Measurement :
            Answer(d, "UPDATE_DELAY",
                   <<[id |-> "UPDATE_DELAY", dev |-> d, delays |-> m]>>)
      BY <2>2 DEF UpdataDelay
    <3>2. [id |-> "UPDATE_DELAY", dev |-> d, delays |-> m] \in PacketToBBU
      BY <1>2 DEF PacketToBBU
    <3>3. QED
      BY <3>1, <3>2, SingleNoEnd, AnswerWire
  <2>3. CASE HubUpgradeFails(d)
    <3>1. ASSUME NEW errorno \in {4, 5},
                 Answer(d, "UPGRADE",
                   <<[id |-> "UPGRADE_RESULT", dev |-> d, ResultID |-> errorno]>>)
          PROVE  WireOK'
      <4>1. [id |-> "UPGRADE_RESULT", dev |-> d, ResultID |-> errorno] \in PacketToBBU
        BY DEF PacketToBBU, UpgradeState
      <4>2. QED
        BY <3>1, <4>1, SingleNoEnd, AnswerWire
    <3>2. CASE Answer(d, "UPGRADE", <<>>)
      BY <3>2, EmptyNoEnd, AnswerWire
    <3>3. QED
      BY <2>3, <3>1, <3>2 DEF HubUpgradeFails
  <2>4. CASE HubReboots(d)
    BY <2>4, EmptyNoEnd, AnswerWire DEF HubReboots
  <2>5. CASE HubIgnores(d)
    BY <2>5, EmptyNoEnd, AnswerWire DEF HubIgnores
  <2>6. QED
    BY <1>2, <2>1, <2>2, <2>3, <2>4, <2>5 DEF HubStep
<1>3. CASE d \in Rru /\ RruStep(d)
  <2>1. CASE RruConnectResult(d)
    <3>1. [id |-> "DELAY_MEASUREMENT", dev |-> d, delays |-> RruDelay[d]]
            \in PacketToBBU
      BY <1>3, TopologyAssumption DEF PacketToBBU, TopologyAssumption
    <3>2. QED
      BY <2>1, <3>1, SingleNoEnd, AnswerWire DEF RruConnectResult
  <2>2. CASE RruIgnores(d)
    BY <2>2, EmptyNoEnd, AnswerWire DEF RruIgnores
  <2>3. QED
    BY <1>3, <2>1, <2>2 DEF RruStep
<1>4. CASE d \in Oam /\ OamPrints(d)
  BY <1>4, EmptyNoEnd, AnswerWire DEF OamPrints
<1>5. CASE NoticeLoss(d)
  BY <1>1, <1>5, DropWire DEF NoticeLoss
<1>6. QED
  BY <1>2, <1>3, <1>4, <1>5

LEMMA EnvironmentWire ==
  ASSUME StateOK, WireOK, Environment
  PROVE  WireOK'
<1>1. CASE Restart
  <2>1. /\ UNCHANGED peer
        /\ \A x \in Conn : /\ link'[x] = IF Alive(x) THEN "lost" ELSE "free"
                           /\ toBBU'[x] = <<>>
    BY <1>1 DEF Restart
  <2>2. \A x \in Conn : Alive(x)' <=> Alive(x)
    BY <2>1 DEF Alive
  <2>3. OneHolder' /\ HeldStaysUp'
    BY <2>1, <2>2 DEF WireOK, OneHolder, HeldStaysUp
  <2>4. EofIsLast'
    BY <2>1, WireParts, EmptyNoEnd
  <2>5. AnnouncedFirst'
    BY <2>1 DEF AnnouncedFirst, Unannounced
  <2>6. QED
    BY <2>3, <2>4, <2>5 DEF WireOK
<1>2. ASSUME NEW d \in Device, NEW c \in Conn, Connect(d, c), UNCHANGED bbuVars
      PROVE  WireOK'
  <2>1. ~ Alive(c)
    BY <1>2 DEF Connect, WireOK, HeldStaysUp
  <2>2. /\ \A e \in Device : peer'[e] = IF e = d THEN c ELSE peer[e]
        /\ \A x \in Conn \ {c} : link'[x] = link[x] /\ toBBU'[x] = toBBU[x]
        /\ link'[c] = "backlog"
        /\ toBBU'[c] = SendConnectMessage(d)
        /\ UNCHANGED connectionInfo_
    BY <1>2 DEF Connect, StateOK, bbuVars
  <2>3. \A x \in Conn \ {c} : Alive(x)' => Alive(x)
    BY <2>2 DEF Alive
  <2>4. OneHolder'
    BY <2>1, <2>2 DEF WireOK, OneHolder, Alive
  <2>5. HeldStaysUp'
    BY <2>2, <2>3 DEF WireOK, HeldStaysUp
  <2>6. /\ ~ EndsIn(toBBU'[c]) /\ toBBU'[c] # <<>>
        /\ Head(toBBU'[c]).id = "CONNECT"
    <3> DEFINE p == [id |-> "CONNECT", dev |-> d, ResultID |-> 0]
    <3>1. p \in PacketToBBU /\ p.id = "CONNECT"
      BY DEF PacketToBBU, UpgradeState
    <3>2. toBBU'[c] = <<p>>
      BY <2>2 DEF SendConnectMessage
    <3> HIDE DEF p
    <3>3. ~ EndsIn(<<p>>)
      BY <3>1, SingleNoEnd
    <3>4. QED
      BY <3>1, <3>2, <3>3
  <2>7. EofIsLast'
    BY <2>2, <2>3, <2>6, WireParts DEF WireOK
  <2>8. AnnouncedFirst'
    BY <2>2, <2>3, <2>6 DEF WireOK, AnnouncedFirst, Unannounced
  <2>9. QED
    BY <2>4, <2>5, <2>7, <2>8 DEF WireOK
<1>3. ASSUME NEW d \in Device, Exit(d), UNCHANGED bbuVars
      PROVE  WireOK'
  <2>1. /\ peer[d] \in Conn /\ peer[d] # None
        /\ Drop(d, Append(toBBU[peer[d]], EOF)) /\ UNCHANGED connectionInfo_
    BY <1>3 DEF Exit, StateOK, bbuVars
  <2>2. toBBU[peer[d]] \in Seq(PacketToBBU)
    BY <2>1 DEF StateOK
  <2>3. QED
    BY <2>1, <2>2, StartOfStream, DropWire
<1>4. ASSUME NEW d \in Device, PowerLoss(d), UNCHANGED bbuVars
      PROVE  WireOK'
  <2>1. /\ peer[d] \in Conn /\ peer[d] # None /\ UNCHANGED connectionInfo_
    BY <1>4 DEF PowerLoss, StateOK, bbuVars
  <2>2. PICK n \in 0 .. Len(toBBU[peer[d]]) : Drop(d, SubSeq(toBBU[peer[d]], 1, n))
    BY <1>4 DEF PowerLoss
  <2>3. toBBU[peer[d]] \in Seq(PacketToBBU)
    BY <2>1 DEF StateOK
  <2>4. QED
    BY <2>1, <2>2, <2>3, StartOfStream, DropWire
<1>5. ASSUME NEW d \in Oam, OamRequest(d, KnownRoutes), UNCHANGED bbuVars
      PROVE  WireOK'
  <2>1. \A c \in Registered : connectionInfo_[c].routeIndex \in Route
    BY DEF StateOK, DeviceInfo
  <2>2. KnownRoutes \subseteq Route
    BY <2>1, EmptySeq DEF KnownRoutes, Route
  <2>3. PICK p \in Request(KnownRoutes) : toBBU' = FromDevice(peer[d], <<p>>)
    BY <1>5 DEF OamRequest
  <2>4. p \in PacketToBBU /\ p.id # "EOF"
    BY <2>2 DEF Request, PacketToBBU
  <2>5. /\ d \in Device /\ peer[d] # None
        /\ UNCHANGED <<link, peer, connectionInfo_>>
    BY <1>5, DeviceSets DEF OamRequest, bbuVars
  <2>6. QED
    BY <2>3, <2>4, <2>5, SingleNoEnd, AppendWire
<1>6. ASSUME NEW d \in Device, GoesDown(d), UNCHANGED bbuVars
      PROVE  WireOK'
  <2>1. CASE peer[d] = None
    <3>1. UNCHANGED netVars
      BY <1>6, <2>1 DEF GoesDown
    <3>2. QED
      BY <1>6, <3>1 DEF netVars, bbuVars, WireOK, OneHolder, HeldStaysUp,
                        EofIsLast, AnnouncedFirst, Unannounced, Alive
  <2>2. CASE peer[d] # None
    <3>1. /\ peer[d] \in Conn /\ UNCHANGED connectionInfo_
          /\ Drop(d, Append(toBBU[peer[d]], EOF))
      BY <1>6, <2>2 DEF GoesDown, StateOK, bbuVars
    <3>2. toBBU[peer[d]] \in Seq(PacketToBBU)
      BY <3>1 DEF StateOK
    <3>3. QED
      BY <2>2, <3>1, <3>2, StartOfStream, DropWire
  <2>3. QED
    BY <2>1, <2>2
<1>7. QED
  BY <1>1, <1>2, <1>3, <1>4, <1>5, <1>6 DEF Environment

(* The server's ends of the connections.                                   *)
LEMMA OnAcceptWire ==
  ASSUME StateOK, WireOK, NEW c \in Conn, OnAccept(c)
  PROVE  WireOK'
<1>1. /\ UNCHANGED <<peer, toBBU>>
      /\ link[c] = "backlog"
      /\ link' = [link EXCEPT ![c] = "open"]
      /\ connectionInfo_' = [k \in Registered \cup {c} |->
                               IF k \in Registered THEN connectionInfo_[k]
                               ELSE [x \in {c} |-> cInfo_][k]]
  BY DEF OnAccept, Inserted, Registered
<1>2. \A x \in Conn : /\ Alive(x)' <=> Alive(x)
                      /\ link'[x] = IF x = c THEN "open" ELSE link[x]
  BY <1>1 DEF Alive, StateOK
<1>3. ASSUME NEW x \in Conn, Unannounced(x)'
      PROVE  Unannounced(x)
  <2>1. CASE x = c
    BY <1>1, <2>1 DEF Unannounced
  <2>2. CASE x # c
    <3>1. link'[x] = link[x]
      BY <1>2, <2>2
    <3>2. link[x] = "open" => x \in Registered
      BY DEF StateOK
    <3>3. x \in Registered => connectionInfo_'[x] = connectionInfo_[x]
      BY <1>1
    <3>4. QED
      BY <1>3, <3>1, <3>2, <3>3 DEF Unannounced
  <2>3. QED
    BY <2>1, <2>2
<1>4. OneHolder' /\ HeldStaysUp' /\ EofIsLast'
  BY <1>1, <1>2 DEF WireOK, OneHolder, HeldStaysUp, EofIsLast
<1>5. AnnouncedFirst'
  BY <1>1, <1>2, <1>3 DEF WireOK, AnnouncedFirst
<1>6. QED
  BY <1>4, <1>5 DEF WireOK

(* A connection the server has seen the end of has lost its device.        *)
LEMMA ClosingWire ==
  ASSUME StateOK, WireOK, NEW c \in Conn, OnEof(c) \/ OnReadError(c)
  PROVE  WireOK'
<1>1. /\ UNCHANGED <<peer, connectionInfo_>>
      /\ link' = [link EXCEPT ![c] = "closing"]
  BY DEF OnEof, OnReadError, bbuVars
<1>2. \A x \in Conn : /\ Alive(x)' <=> Alive(x)
                      /\ link'[x] = IF x = c THEN "closing" ELSE link[x]
  BY <1>1 DEF Alive, StateOK
<1>3. /\ ~ Alive(c)
      /\ EndsIn(toBBU'[c]) => EndsIn(toBBU[c])
      /\ \A x \in Conn \ {c} : toBBU'[x] = toBBU[x]
  <2>1. CASE OnEof(c)
    <3>1. /\ toBBU[c] \in Seq(PacketToBBU) /\ toBBU[c] # <<>>
          /\ Head(toBBU[c]).id = "EOF" /\ Head(toBBU[c]) \in PacketToBBU
          /\ toBBU'[c] = Tail(toBBU[c])
          /\ \A x \in Conn \ {c} : toBBU'[x] = toBBU[x]
      BY <2>1, ReceiveTypes DEF OnEof, Receive, StateOK
    <3>2. Head(toBBU[c]) = EOF
      BY <3>1 DEF PacketToBBU, Request, EOF
    <3>3. EndsIn(toBBU[c])
      BY <3>1, <3>2, RestOfStream
    <3>4. ~ Alive(c)
      BY <3>3, WireParts DEF WireOK
    <3>5. QED
      BY <3>1, <3>3, <3>4
  <2>2. CASE OnReadError(c)
    BY <2>2 DEF OnReadError
  <2>3. QED
    BY <2>1, <2>2
<1>4. OneHolder' /\ HeldStaysUp'
  BY <1>1, <1>2, <1>3 DEF WireOK, OneHolder, HeldStaysUp
<1>5. EofIsLast'
  BY <1>2, <1>3, WireParts DEF WireOK
<1>6. AnnouncedFirst'
  BY <1>1, <1>2, <1>3 DEF WireOK, AnnouncedFirst, Unannounced
<1>7. QED
  BY <1>4, <1>5, <1>6 DEF WireOK

(* A name is free again only when no device holds it.                      *)
LEMMA CloseConnectionWire ==
  ASSUME StateOK, WireOK, NEW c \in Conn, CloseConnection(c)
  PROVE  WireOK'
<1>1. /\ UNCHANGED peer
      /\ link[c] = "closing"
      /\ link' = [link EXCEPT ![c] = "free"]
      /\ toBBU' = [toBBU EXCEPT ![c] = <<>>]
      /\ connectionInfo_' = [x \in Registered \ {c} |-> connectionInfo_[x]]
  BY DEF CloseConnection, Unregister
<1>2. \A x \in Conn : /\ Alive(x)' <=> Alive(x)
                      /\ link'[x] = IF x = c THEN "free" ELSE link[x]
                      /\ toBBU'[x] = IF x = c THEN <<>> ELSE toBBU[x]
  BY <1>1 DEF Alive, StateOK
<1>3. ~ Alive(c)
  BY <1>1 DEF WireOK, HeldStaysUp
<1>4. OneHolder' /\ HeldStaysUp'
  BY <1>1, <1>2, <1>3 DEF WireOK, OneHolder, HeldStaysUp
<1>5. EofIsLast'
  BY <1>2, <1>3, WireParts DEF WireOK
<1>6. ASSUME NEW x \in Conn, Unannounced(x)'
      PROVE  x # c /\ Unannounced(x)
  <2>1. x # c
    BY <1>2, <1>6 DEF Unannounced
  <2>2. link[x] = "open" => x \in Registered
    BY DEF StateOK
  <2>3. QED
    BY <1>1, <1>2, <1>6, <2>1, <2>2 DEF Unannounced
<1>7. AnnouncedFirst'
  BY <1>2, <1>6 DEF WireOK, AnnouncedFirst
<1>8. QED
  BY <1>4, <1>5, <1>7 DEF WireOK

(* The packet handlers keep the connections.                               *)
LEMMA OnMessageWire ==
  ASSUME StateOK, WireOK, NEW c \in Conn, OnMessage(c)
  PROVE  WireOK'
<1>1. CASE SetConnectionClient(c)
  <2> DEFINE p == Head(toBBU[c])
  <2>1. Receive(c, "CONNECT") /\ UNCHANGED <<link, peer>>
    BY <1>1 DEF SetConnectionClient
  <2>2. c \in Registered /\ p \in PacketToBBU /\ p.id = "CONNECT"
    BY <2>1, ReceiveTypes DEF Receive
  <2>3. p.dev # NoDevice
    BY <2>2, PacketFields, BBUAssumption DEF BBUAssumption
  <2>4. connectionInfo_' = [connectionInfo_ EXCEPT ![c] =
                    [cInfo_ EXCEPT !.dev = p.dev, !.upgradeState = p.ResultID]]
    BY <1>1 DEF SetConnectionClient
  <2>5. /\ connectionInfo_'[c].dev = p.dev
        /\ \A x \in Registered \ {c} : connectionInfo_'[x] = connectionInfo_[x]
    BY <2>2, <2>4 DEF Registered, cInfo_
  <2>6. QED
    BY <2>1, <2>3, <2>5, HandlerWire
<1>2. ASSUME NEW id \in {"DELAY_MEASUREMENT", "UPDATE_DELAY", "UPGRADE_RESULT",
                         "UPGRADE", "RFTX_STATUS", "GET_TOPOLOGY"},
             Receive(c, id), UNCHANGED <<link, peer>>,
             \A x \in Registered : connectionInfo_'[x].dev = connectionInfo_[x].dev
      PROVE  WireOK'
  <2>1. connectionInfo_[c].dev \in Device
    BY <1>2, HandlerKnowsDevice DEF WireOK
  <2>2. c \in Registered /\ connectionInfo_[c].dev # NoDevice
    BY <1>2, <2>1, ReceiveTypes, BBUAssumption DEF BBUAssumption
  <2>3. QED
    BY <1>2, <2>2, HandlerWire
<1>3. \A x \in Registered : connectionInfo_[x] \in DeviceInfo
  BY DEF StateOK
<1>4. CASE HubDelayInfo(c)
  <2>1. Receive(c, "DELAY_MEASUREMENT") /\ UNCHANGED <<link, peer>>
    BY <1>4 DEF HubDelayInfo
  <2>2. \/ UNCHANGED connectionInfo_
        \/ \E r : connectionInfo_' = [connectionInfo_ EXCEPT ![c].routeIndex = r]
    BY <1>4 DEF HubDelayInfo
  <2>3. \A x \in Registered : connectionInfo_'[x].dev = connectionInfo_[x].dev
    BY <1>3, <2>2 DEF DeviceInfo, Registered
  <2>4. QED
    BY <1>2, <2>1, <2>3
<1>5. CASE UpdateHUBDelayInfo(c)
  BY <1>2, <1>5 DEF UpdateHUBDelayInfo
<1>6. CASE RruDelayProcess(c)
  <2>1. Receive(c, "DELAY_MEASUREMENT") /\ UNCHANGED <<link, peer>>
    BY <1>6 DEF RruDelayProcess
  <2>2. \/ UNCHANGED connectionInfo_
        \/ \E r, s : connectionInfo_' = [connectionInfo_ EXCEPT
                           ![c].routeIndex = r, ![c].rruDelayInfo = s]
    BY <1>6 DEF RruDelayProcess
  <2>3. \A x \in Registered : connectionInfo_'[x].dev = connectionInfo_[x].dev
    <3>1. ASSUME NEW r, NEW s,
                 connectionInfo_' = [connectionInfo_ EXCEPT
                           ![c].routeIndex = r, ![c].rruDelayInfo = s]
          PROVE  \A x \in Registered :
                    connectionInfo_'[x].dev = connectionInfo_[x].dev
      <4> DEFINE rec == [connectionInfo_[c] EXCEPT !.routeIndex = r,
                                                   !.rruDelayInfo = s]
      <4>1. c \in Registered
        BY <2>1, ReceiveTypes
      <4>2. rec.dev = connectionInfo_[c].dev
        BY <1>3, <4>1 DEF DeviceInfo
      <4>3. connectionInfo_' = [connectionInfo_ EXCEPT ![c] = rec]
        BY <3>1, <4>1 DEF Registered
      <4> HIDE DEF rec
      <4>4. QED
        BY <4>2, <4>3 DEF Registered
    <3>2. QED
      BY <2>2, <3>1
  <2>4. QED
    BY <1>2, <2>1, <2>3
<1>7. CASE UpgradeResultProcess(c)
  <2>1. Receive(c, "UPGRADE_RESULT") /\ UNCHANGED <<link, peer>>
    BY <1>7 DEF UpgradeResultProcess
  <2>2. \E s : connectionInfo_' = [connectionInfo_ EXCEPT ![c].upgradeState = s]
    BY <1>7 DEF UpgradeResultProcess
  <2>3. \A x \in Registered : connectionInfo_'[x].dev = connectionInfo_[x].dev
    BY <1>3, <2>2 DEF DeviceInfo, Registered
  <2>4. QED
    BY <1>2, <2>1, <2>3
<1>8. CASE UpgradeProcess(c)
  <2>1. Receive(c, "UPGRADE") /\ UNCHANGED <<link, peer>>
    BY <1>8 DEF UpgradeProcess
  <2>2. \E S : connectionInfo_' = [x \in Registered |->
                  IF x \in S THEN [connectionInfo_[x] EXCEPT !.upgradeState = 3]
                  ELSE connectionInfo_[x]]
    BY <1>8 DEF UpgradeProcess
  <2>3. \A x \in Registered : connectionInfo_'[x].dev = connectionInfo_[x].dev
    BY <1>3, <2>2 DEF DeviceInfo
  <2>4. QED
    BY <1>2, <2>1, <2>3
<1>9. CASE RRURFTxStatusProcess(c)
  BY <1>2, <1>9 DEF RRURFTxStatusProcess
<1>10. CASE NetworkTopologyMessageProcess(c)
  BY <1>2, <1>10 DEF NetworkTopologyMessageProcess
<1>11. QED
  BY <1>1, <1>4, <1>5, <1>6, <1>7, <1>8, <1>9, <1>10 DEF OnMessage

LEMMA WireStep ==
  ASSUME StateOK, WireOK, [Next]_vars
  PROVE  WireOK'
<1>1. ASSUME NEW c \in Conn, BBUStep(c)
      PROVE  WireOK'
  BY <1>1, OnAcceptWire, OnMessageWire, ClosingWire, CloseConnectionWire
  DEF BBUStep
<1>2. ASSUME NEW d \in Device, DeviceStep(d)
      PROVE  WireOK'
  BY <1>2, DeviceStepWire
<1>3. CASE Environment
  BY <1>3, EnvironmentWire
<1>4. CASE UNCHANGED vars
  BY <1>4 DEF vars, netVars, bbuVars, WireOK, OneHolder, HeldStaysUp, EofIsLast,
              AnnouncedFirst, Unannounced, Alive
<1>5. QED
  BY <1>1, <1>2, <1>3, <1>4 DEF Next

LEMMA InitIInv ==
  ASSUME Init
  PROVE  IInv
<1> USE DEF Init, NetInit, BBUInit
<1>1. StateOK
  <2>1. /\ link \in [Conn -> LinkState] /\ peer \in [Device -> Conn \cup {None}]
        /\ \A c \in Conn : link[c] = "free"
    BY DEF LinkState
  <2>2. toBBU \in [Conn -> Seq(PacketToBBU)]
    BY EmptySeq
  <2>3. Registered = {}
    BY DEF Registered
  <2>4. tVectorDL \in Seq(TotalDelay) /\ tVectorUL \in Seq(TotalDelay)
    BY EmptySeq
  <2>5. QED
    BY <2>1, <2>2, <2>3, <2>4 DEF StateOK
<1>2. WireOK
  <2>1. \A c \in Conn : ~ Alive(c)
    BY DeviceSets DEF Alive
  <2>2. QED
    BY <2>1 DEF WireOK, OneHolder, HeldStaysUp, EofIsLast, AnnouncedFirst,
                Unannounced
<1>3. TotalsOK
  BY DEF TotalsOK, LongestFirst, LongestFirstIn, OneDownlinkTotal, OncePerRoute,
         UplinkCoversDownlink, Routes
<1>4. QED
  BY <1>1, <1>2, <1>3 DEF IInv

LEMMA StepIInv ==
  ASSUME IInv, [Next]_vars
  PROVE  IInv'
<1>1. AnnouncedFirst
  BY DEF IInv, WireOK
<1>2. StateOK' /\ TotalsOK'
  BY <1>1, TypeAndTotalsStep DEF IInv
<1>3. WireOK'
  BY WireStep DEF IInv
<1>4. QED
  BY <1>2, <1>3 DEF IInv

(***************************************************************************)
(* The theorems.                                                           *)
(***************************************************************************)

(* The inductive invariant: types, the discipline of the connections and   *)
(* the tables of total delays, which need one another.                     *)
THEOREM Inductive == Spec => []IInv
<1>1. Init => IInv
  BY InitIInv
<1>2. IInv /\ [Next]_vars => IInv'
  BY StepIInv
<1>3. QED
  BY <1>1, <1>2, PTL DEF Spec

(* Every variable keeps its type, and the registry (connnections_ and      *)
(* connectionInfo_) names exactly the accepted, unclosed connections.      *)
THEOREM TypeCorrect == Spec => []TypeOK
<1>1. Init => rebooting \subseteq Hub
  BY DEF Init
<1>2. rebooting \subseteq Hub /\ [Next]_vars => (rebooting \subseteq Hub)'
  BY DEF Next, BBUStep, DeviceStep, HubStep, HubReboots, Environment, GoesDown, vars
<1>3. IInv /\ rebooting \subseteq Hub => TypeOK
  BY DEF IInv, TypeOK
<1>4. QED
  BY <1>1, <1>2, <1>3, Inductive, PTL DEF Spec

(* begin() of tVectorDL and of tVectorUL is always the largest total, which *)
(* is what CalculationDelayCompensation subtracts from.                    *)
THEOREM SortedTables == Spec => []LongestFirst
<1>1. IInv => LongestFirst
  BY DEF IInv, TotalsOK
<1>2. QED
  BY <1>1, Inductive, PTL

(* No route ever has two downlink totals, whichever connections report it  *)
(* and close (CalculationDelayCompensation, closeConnection).              *)
THEOREM DownlinkOnce == Spec => []OneDownlinkTotal
<1>1. IInv => OneDownlinkTotal
  BY DEF IInv, TotalsOK
<1>2. QED
  BY <1>1, Inductive, PTL

(* A route with a downlink total has an uplink total, although the code    *)
(* clears tVectorDL twice and tVectorUL never before it inserts.           *)
THEOREM UplinkFollows == Spec => []UplinkCoversDownlink
<1>1. IInv => UplinkCoversDownlink
  BY DEF IInv, TotalsOK
<1>2. QED
  BY <1>1, Inductive, PTL

(* No handler but CONNECT's ever runs on the DeviceInfo onAccept stores,   *)
(* whose s_hop is the empty string stoi would throw on.                    *)
THEOREM Announced == Spec => []KnownBeforeUse
<1>1. IInv => KnownBeforeUse
  BY DEF IInv, WireOK, AnnouncedFirst, Unannounced, KnownBeforeUse
<1>2. QED
  BY <1>1, Inductive, PTL

(***************************************************************************)
(* The answers.                                                            *)
(***************************************************************************)

(* The total just added is in the table, and the table starts with the     *)
(* largest total: what aligns the RRU that reported it.                    *)
LEMMA AddTotalAligns ==
  ASSUME NEW v \in Seq(TotalDelay), LongestFirstIn(v), NEW e \in TotalDelay
  PROVE  LET w == AddTotal(v, e)
         IN  AlignedBy(w, e.route, w[1].total - e.total)
<1> DEFINE w == AddTotal(v, e)
<1>1. /\ w \in Seq(TotalDelay) /\ Len(w) = Len(v) + 1 /\ LongestFirstIn(w)
  BY AddTotalProperties
<1>2. \E i \in 1 .. Len(v) + 1 : w[i] = e
  <2>1. PICK p \in 1 .. Len(v) + 1 : w = InsertAt(v, p, e)
    BY AddTotalPlace
  <2> HIDE DEF w
  <2>2. QED
    BY <2>1, InsertAtProperties
<1> HIDE DEF w
<1>3. Len(v) \in Nat /\ DOMAIN w = 1 .. Len(v) + 1
  BY <1>1, LenProperties
<1>4. e.total \in Int /\ \A i \in DOMAIN w : w[i].total \in Int
  <2>1. \A i \in DOMAIN w : w[i] \in TotalDelay
    BY <1>1, <1>3, ElementOfSeq
  <2>2. QED
    BY <2>1 DEF TotalDelay
<1>5. \A i \in DOMAIN w : w[i].total <= w[1].total
  <2>1. SUFFICES ASSUME NEW i \in DOMAIN w
                 PROVE  w[i].total <= w[1].total
    OBVIOUS
  <2>2. CASE i = 1
    BY <1>4, <2>2
  <2>3. CASE i # 1
    <3>1. 1 \in DOMAIN w /\ 1 < i
      BY <1>3, <2>3
    <3>2. w[1].total >= w[i].total
      BY <1>1, <3>1 DEF LongestFirstIn
    <3>3. QED
      BY <1>4, <3>1, <3>2
  <2>4. QED
    BY <2>2, <2>3
<1>6. PICK i \in DOMAIN w : w[i] = e
  BY <1>2, <1>3
<1>7. 1 \in DOMAIN w
  BY <1>3
<1>8. /\ w[1].total - e.total >= 0
      /\ w[i].total + (w[1].total - e.total) = w[1].total
  BY <1>4, <1>5, <1>6, <1>7
<1>9. AlignedBy(w, e.route, w[1].total - e.total)
  BY <1>5, <1>6, <1>8 DEF AlignedBy
<1>10. QED
  BY <1>9 DEF w

(* Only RruDelayProcess sends numbers, to the RRU it handles.              *)
LEMMA WhoAnswers ==
  ASSUME StateOK, Next, NEW c \in Conn,
         compensation'[c] # compensation[c], compensation'[c].sent = "numbers"
  PROVE  RruDelayProcess(c)
<1>1. ASSUME NEW x \in Conn, BBUStep(x)
      PROVE  RruDelayProcess(c)
  <2>1. CASE RruDelayProcess(x)
    <3>1. \/ UNCHANGED compensation
          \/ \E a : compensation' = [compensation EXCEPT ![x] = a]
      BY <2>1 DEF RruDelayProcess, Calculate
    <3>2. x = c
      BY <3>1 DEF StateOK
    <3>3. QED
      BY <2>1, <3>2
  <2>2. CASE CloseConnection(x)
    <3>1. compensation' = [compensation EXCEPT ![x] = Unanswered]
      BY <2>2 DEF CloseConnection
    <3>2. compensation'[c] \in {compensation[c], Unanswered}
      BY <3>1 DEF StateOK
    <3>3. QED
      BY <3>2 DEF Unanswered
  <2>3. CASE UNCHANGED compensation
    BY <2>3
  <2>4. QED
    BY <1>1, <2>1, <2>2, <2>3 DEF BBUStep, OnMessage, OnAccept, OnEof, OnReadError,
       SetConnectionClient, HubDelayInfo, UpdateHUBDelayInfo, UpgradeResultProcess,
       UpgradeProcess, RRURFTxStatusProcess, NetworkTopologyMessageProcess, bbuVars
<1>2. CASE \E d \in Device : DeviceStep(d)
  BY <1>2 DEF DeviceStep, bbuVars
<1>3. CASE Restart
  BY <1>3 DEF Restart, Unanswered
<1>4. CASE Environment /\ ~ Restart
  BY <1>4 DEF Environment, bbuVars
<1>5. QED
  BY <1>1, <1>2, <1>3, <1>4 DEF Next

LEMMA AnswerStep ==
  ASSUME IInv, Next, NEW c \in Conn,
         compensation'[c] # compensation[c], compensation'[c].sent = "numbers"
  PROVE  LET r == connectionInfo_'[c].routeIndex
         IN  /\ AlignedBy(tVectorDL', r, compensation'[c].dl)
             /\ AlignedBy(tVectorUL', r, compensation'[c].ul)
<1> DEFINE p == Head(toBBU[c])
           d == connectionInfo_[c].dev
           r == CreateRouteIndex(connectionInfo_, c)
<1>1. StateOK /\ AnnouncedFirst /\ LongestFirstIn(tVectorDL) /\ LongestFirstIn(tVectorUL)
  BY DEF IInv, WireOK, TotalsOK, LongestFirst
<1>2. RruDelayProcess(c)
  BY <1>1, WhoAnswers
<1>3. /\ Receive(c, "DELAY_MEASUREMENT") /\ p.dev \in Rru
      /\ r # <<>>
      /\ connectionInfo_' = [connectionInfo_ EXCEPT
                 ![c].routeIndex = r, ![c].rruDelayInfo = p.delays]
      /\ DelaysKnown(d)
      /\ Calculate(c, r, p.delays)
  <2>1. [compensation EXCEPT ![c] = Empty][c] = Empty
    BY <1>1 DEF StateOK
  <2>2. Empty.sent # "numbers"
    BY DEF Empty
  <2>3. compensation' # [compensation EXCEPT ![c] = Empty]
    BY <2>1, <2>2, Zenon
  <2>4. compensation' # compensation
    OBVIOUS
  <2>5. QED
    BY <1>2, <2>3, <2>4 DEF RruDelayProcess
<1>4. /\ p \in PacketToBBU /\ p.id = "DELAY_MEASUREMENT"
      /\ c \in Registered /\ connectionInfo_[c] \in DeviceInfo
  BY <1>1, <1>3, ReceiveTypes DEF Receive
<1>5. p.delays \in [T2a : Nat, Ta3 : Nat]
  <2>1. p.dev \notin Hub
    BY <1>3, TopologyAssumption DEF TopologyAssumption
  <2>2. QED
    BY <1>4, <2>1, PacketFields
<1>6. d \in Device
  BY <1>1, <1>3, HandlerKnowsDevice
<1>7. r \in Route
  BY <1>1, <1>4, <1>6, CreateRouteIndexType DEF StateOK, Registered
<1>8. connectionInfo_'[c].routeIndex = r
  <2> HIDE DEF r, p
  <2>1. QED
    BY <1>3, <1>4 DEF DeviceInfo, Registered
<1> DEFINE dl == [route |-> r, total |-> TotalDL(d, p.delays)]
           ul == [route |-> r, total |-> TotalUL(d, p.delays)]
           cleared == DeleteRoute(DeleteRoute(tVectorDL, r), r)
<1>9. /\ tVectorDL' = AddTotal(cleared, dl)
      /\ tVectorUL' = AddTotal(tVectorUL, ul)
      /\ compensation'[c].dl = tVectorDL'[1].total - dl.total
      /\ compensation'[c].ul = tVectorUL'[1].total - ul.total
  BY <1>1, <1>3 DEF Calculate, DeleteRRUTotalDelay, StateOK
<1>10. dl.route = r /\ ul.route = r
  OBVIOUS
<1>11. dl \in TotalDelay /\ ul \in TotalDelay
  <2>1. TotalDL(d, p.delays) \in Int /\ TotalUL(d, p.delays) \in Int
    BY <1>1, <1>3, <1>5, <1>6, TotalTypes
  <2> HIDE DEF r, d, p
  <2>2. QED
    BY <1>7, <2>1 DEF TotalDelay
<1> HIDE DEF r, d, p, dl, ul
<1>12. /\ cleared \in Seq(TotalDelay) /\ LongestFirstIn(cleared)
       /\ tVectorUL \in Seq(TotalDelay)
  BY <1>1, DeleteRouteProperties DEF StateOK
<1> HIDE DEF cleared
<1>13. AlignedBy(tVectorDL', r, compensation'[c].dl)
  BY <1>9, <1>10, <1>11, <1>12, AddTotalAligns
<1>14. AlignedBy(tVectorUL', r, compensation'[c].ul)
  BY <1>1, <1>9, <1>10, <1>11, <1>12, AddTotalAligns
<1>15. QED
  BY <1>8, <1>13, <1>14

(* An answered RRU is aligned with the longest link of either direction:   *)
(* what CalculationDelayCompensation sends brings its total to the largest *)
(* one, and is never negative.                                             *)
THEOREM Alignment == Spec => AnswersAlign
<1>1. IInv /\ [Next]_vars =>
        [\A c \in Conn :
           compensation'[c] # compensation[c] /\ compensation'[c].sent = "numbers"
             => LET r == connectionInfo_'[c].routeIndex
                IN  /\ AlignedBy(tVectorDL', r, compensation'[c].dl)
                    /\ AlignedBy(tVectorUL', r, compensation'[c].ul)]_vars
  <2>1. SUFFICES ASSUME IInv, Next, NEW c \in Conn,
                        compensation'[c] # compensation[c],
                        compensation'[c].sent = "numbers"
                 PROVE  LET r == connectionInfo_'[c].routeIndex
                        IN  /\ AlignedBy(tVectorDL', r, compensation'[c].dl)
                            /\ AlignedBy(tVectorUL', r, compensation'[c].ul)
    OBVIOUS
  <2>2. QED
    BY <2>1, AnswerStep
<1>2. QED
  BY <1>1, Inductive, PTL DEF Spec, AnswersAlign

=============================================================================
