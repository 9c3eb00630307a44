-------------------------- MODULE TimerWheelProofs --------------------------
(***************************************************************************)
(* The timer wheel for every timeout and any number of connections.        *)
(***************************************************************************)
EXTENDS TimerWheel, TLAPS

(* The slots of the last timeoutSec_ seconds are the whole ring, each once,*)
(* and a tick makes every one of them a second older.                      *)
LEMMA SlotOfIsSlot ==
  ASSUME index_ \in Slot, NEW k \in 0 .. timeoutSec_ - 1
  PROVE  SlotOf(k) \in Slot
  BY TimeoutAssumption DEF TimeoutAssumption, Slot, SlotOf

LEMMA SlotOfOnce ==
  ASSUME index_ \in Slot,
         NEW j \in 0 .. timeoutSec_ - 1, NEW k \in 0 .. timeoutSec_ - 1,
         SlotOf(j) = SlotOf(k)
  PROVE  j = k
  BY TimeoutAssumption DEF TimeoutAssumption, Slot, SlotOf

LEMMA SlotOfAll ==
  ASSUME index_ \in Slot, NEW s \in Slot
  PROVE  \E k \in 0 .. timeoutSec_ - 1 : s = SlotOf(k)
<1>1. CASE s <= index_
  <2>1. index_ - s \in 0 .. timeoutSec_ - 1 /\ s = SlotOf(index_ - s)
    BY <1>1, TimeoutAssumption DEF TimeoutAssumption, Slot, SlotOf
  <2>2. QED BY <2>1
<1>2. CASE s > index_
  <2>1. /\ index_ - s + timeoutSec_ \in 0 .. timeoutSec_ - 1
        /\ s = SlotOf(index_ - s + timeoutSec_)
    BY <1>2, TimeoutAssumption DEF TimeoutAssumption, Slot, SlotOf
  <2>2. QED BY <2>1
<1>3. QED BY <1>1, <1>2, TimeoutAssumption DEF TimeoutAssumption, Slot

LEMMA TickAges ==
  ASSUME index_ \in Slot,
         index_' = IF index_ + 1 = timeoutSec_ THEN 0 ELSE index_ + 1
  PROVE  /\ index_' \in Slot
         /\ index_' = SlotOf(timeoutSec_ - 1)
         /\ SlotOf(0)' = index_'
         /\ \A k \in 0 .. timeoutSec_ - 2 : SlotOf(k + 1)' = SlotOf(k)
  BY TimeoutAssumption DEF TimeoutAssumption, Slot, SlotOf

-----------------------------------------------------------------------------
(* HeldAtLastMessage alone is not inductive: that the slot of the last     *)
(* message has not been cleared needs NeverLate.                           *)
IInv == TypeOK /\ HeldAtLastMessage /\ NeverLate

LEMMA InitIInv == Init => IInv
  BY TimeoutAssumption
  DEF TimeoutAssumption, Init, IInv, TypeOK, HeldAtLastMessage, NeverLate, Slot

(* A message, the first one included, moves the connection to the current  *)
(* slot and leaves the others where they are.                              *)
LEMMA MessageKeeps ==
  ASSUME IInv, NEW c \in Connection,
         index_' = index_,
         open' = open \cup {c},
         wheel' = [wheel EXCEPT ![index_] = @ \cup {c}],
         silent' = [silent EXCEPT ![c] = 0]
  PROVE  IInv'
<1> USE TimeoutAssumption DEF TimeoutAssumption
<1>1. TypeOK'
  BY DEF IInv, TypeOK, Slot
<1>2. \A k : SlotOf(k)' = SlotOf(k)
  BY DEF SlotOf
<1>3. \A k \in 0 .. timeoutSec_ - 1 : SlotOf(k) \in Slot
  BY SlotOfIsSlot DEF IInv, TypeOK
<1>4. ASSUME NEW d \in open'
      PROVE  /\ silent'[d] < timeoutSec_
             /\ d \in wheel'[SlotOf(silent'[d])]
             /\ \A k \in 0 .. silent'[d] - 1 : d \notin wheel'[SlotOf(k)]
  <2>1. CASE d = c
    <3>1. silent'[d] = 0 /\ SlotOf(0) = index_ /\ index_ \in Slot
      BY <2>1 DEF IInv, TypeOK, SlotOf, Slot
    <3>2. d \in wheel'[index_]
      BY <2>1, <3>1 DEF IInv, TypeOK
    <3>3. QED BY <3>1, <3>2
  <2>2. CASE d # c
    <3>1. d \in open /\ silent'[d] = silent[d] /\ silent[d] \in Nat
      BY <2>2, <1>4 DEF IInv, TypeOK
    <3>2. silent[d] < timeoutSec_
      BY <3>1 DEF IInv, NeverLate
    <3>3. \A s \in Slot : d \in wheel'[s] <=> d \in wheel[s]
      BY <2>2 DEF IInv, TypeOK
    <3>4. d \in wheel[SlotOf(silent[d])]
          /\ \A k \in 0 .. silent[d] - 1 : d \notin wheel[SlotOf(k)]
      BY <3>1 DEF IInv, HeldAtLastMessage
    <3>5. silent[d] \in 0 .. timeoutSec_ - 1
      BY <3>1, <3>2
    <3>6. \A k \in 0 .. silent[d] - 1 : k \in 0 .. timeoutSec_ - 1
      BY <3>5
    <3>7. QED BY <1>3, <3>1, <3>2, <3>3, <3>4, <3>5, <3>6
  <2>3. QED BY <2>1, <2>2
<1>5. HeldAtLastMessage'
  BY <1>2, <1>4 DEF HeldAtLastMessage
<1>6. NeverLate'
  BY <1>4 DEF NeverLate
<1>7. QED BY <1>1, <1>5, <1>6 DEF IInv

(* What a tick does to an open connection: it expires exactly when its     *)
(* last message is a full turn old.                                        *)
LEMMA TickExpires ==
  ASSUME IInv, wheelCallback, NEW c \in open
  PROVE  /\ silent[c] \in 0 .. timeoutSec_ - 1
         /\ c \in open' <=> silent[c] # timeoutSec_ - 1
<1> USE TimeoutAssumption DEF TimeoutAssumption
<1>1. /\ index_ \in Slot
      /\ wheel \in [Slot -> SUBSET Connection]
      /\ silent[c] \in 0 .. timeoutSec_ - 1
  BY DEF IInv, TypeOK, NeverLate
<1>2. /\ index_' = SlotOf(timeoutSec_ - 1)
      /\ index_' \in Slot
  BY <1>1, TickAges DEF wheelCallback, NextIndex
<1>3. \A s \in Slot : wheel'[s] = IF s = index_' THEN {} ELSE wheel[s]
  BY <1>1, <1>2 DEF wheelCallback, Clear
<1>4. c \in wheel[SlotOf(silent[c])] /\ SlotOf(silent[c]) \in Slot
  BY <1>1, SlotOfIsSlot DEF IInv, HeldAtLastMessage
<1>5. c \in Held
  BY <1>4 DEF Held
<1>6. c \in open' <=> c \in Held'
  BY <1>5 DEF wheelCallback
<1>7. CASE silent[c] = timeoutSec_ - 1
  <2>1. ASSUME NEW s \in Slot, c \in wheel'[s]
        PROVE  FALSE
    <3>1. s # index_' /\ c \in wheel[s]
      BY <1>3, <2>1
    <3>2. PICK k \in 0 .. timeoutSec_ - 1 : s = SlotOf(k)
      BY <1>1, SlotOfAll
    <3>3. k \in 0 .. silent[c] - 1
      BY <1>2, <1>7, <3>1, <3>2
    <3>4. QED BY <3>1, <3>2, <3>3 DEF IInv, HeldAtLastMessage
  <2>2. c \notin Held'
    BY <2>1 DEF Held, Slot
  <2>3. QED BY <1>1, <1>6, <1>7, <2>2
<1>8. CASE silent[c] # timeoutSec_ - 1
  <2>1. SlotOf(silent[c]) # index_'
    BY <1>1, <1>2, <1>8, SlotOfOnce
  <2>2. c \in wheel'[SlotOf(silent[c])]
    BY <1>3, <1>4, <2>1
  <2>3. c \in Held'
    BY <1>4, <2>2 DEF Held, Slot
  <2>4. QED BY <1>1, <1>6, <1>8, <2>3
<1>9. QED BY <1>7, <1>8

LEMMA TickKeeps ==
  ASSUME IInv, wheelCallback
  PROVE  IInv'
<1> USE TimeoutAssumption DEF TimeoutAssumption
<1>1. /\ index_ \in Slot
      /\ wheel \in [Slot -> SUBSET Connection]
      /\ open \subseteq Connection
      /\ silent \in [Connection -> Nat]
  BY DEF IInv, TypeOK
<1>2. /\ index_' \in Slot
      /\ SlotOf(0)' = index_'
      /\ \A k \in 0 .. timeoutSec_ - 2 : SlotOf(k + 1)' = SlotOf(k)
      /\ index_' = SlotOf(timeoutSec_ - 1)
  BY <1>1, TickAges DEF wheelCallback, NextIndex
<1>3. \A s \in Slot : wheel'[s] = IF s = index_' THEN {} ELSE wheel[s]
  BY <1>1, <1>2 DEF wheelCallback, Clear
<1>4. TypeOK'
  <2>1. open' \subseteq Connection
    BY <1>1 DEF wheelCallback
  <2>2. wheel' \in [Slot -> SUBSET Connection]
    BY <1>1, <1>2 DEF wheelCallback, Clear
  <2>3. silent' \in [Connection -> Nat]
    BY <1>1 DEF wheelCallback
  <2>4. QED BY <1>2, <2>1, <2>2, <2>3 DEF TypeOK, Slot
<1>5. ASSUME NEW c \in open'
      PROVE  /\ silent'[c] < timeoutSec_
             /\ c \in wheel'[SlotOf(silent[c])']
             /\ \A k \in 0 .. silent'[c] - 1 : c \notin wheel'[SlotOf(k)']
  <2>1. c \in open /\ c \in Connection
    BY <1>1, <1>5 DEF wheelCallback
  <2>2. silent[c] \in 0 .. timeoutSec_ - 2
    BY <1>5, <2>1, TickExpires
  <2>3. silent'[c] = silent[c] + 1
    BY <1>5, <2>1 DEF wheelCallback
  <2>4. SlotOf(silent[c])' = SlotOf(silent[c])
    BY <1>2, <2>2, <2>3 DEF SlotOf
  <2>5. /\ c \in wheel[SlotOf(silent[c])]
        /\ SlotOf(silent[c]) \in Slot
        /\ \A k \in 0 .. silent[c] - 1 : c \notin wheel[SlotOf(k)]
    BY <1>1, <2>1, <2>2, SlotOfIsSlot DEF IInv, HeldAtLastMessage
  <2>6. SlotOf(silent[c]) # index_'
    BY <1>1, <1>2, <2>2, SlotOfOnce
  <2>7. ASSUME NEW k \in 0 .. silent'[c] - 1
        PROVE  c \notin wheel'[SlotOf(k)']
    <3>1. CASE k = 0
      <4>1. SlotOf(k)' = index_'
        BY <1>2, <3>1 DEF SlotOf
      <4>2. QED BY <1>2, <1>3, <4>1
    <3>2. CASE k # 0
      <4>1. /\ k - 1 \in 0 .. silent[c] - 1
            /\ k - 1 \in 0 .. timeoutSec_ - 2
            /\ k - 1 \in 0 .. timeoutSec_ - 1
        BY <2>2, <2>3, <2>7, <3>2
      <4>2. SlotOf(k)' = SlotOf(k - 1)
        <5>1. SlotOf((k - 1) + 1)' = SlotOf(k - 1)
          BY <1>2, <4>1
        <5>2. QED BY <2>7, <5>1 DEF SlotOf
      <4>3. SlotOf(k - 1) \in Slot
        BY <1>1, <4>1, SlotOfIsSlot
      <4>4. QED BY <1>3, <2>5, <4>1, <4>2, <4>3
    <3>3. QED BY <3>1, <3>2
  <2>8. QED BY <1>3, <2>2, <2>3, <2>4, <2>5, <2>6, <2>7
<1>6. HeldAtLastMessage'
  BY <1>5 DEF HeldAtLastMessage
<1>7. NeverLate'
  BY <1>5 DEF NeverLate
<1>8. QED BY <1>4, <1>6, <1>7 DEF IInv

LEMMA NextIInv == IInv /\ [Next]_vars => IInv'
<1> SUFFICES ASSUME IInv, [Next]_vars PROVE IInv'
  OBVIOUS
<1>1. ASSUME NEW c \in Connection, insertNew(c) PROVE IInv'
  BY <1>1, MessageKeeps DEF insertNew
<1>2. ASSUME NEW c \in Connection, insert(c) PROVE IInv'
  <2>1. open' = open \cup {c}
    BY <1>2 DEF insert
  <2>2. QED BY <1>2, <2>1, MessageKeeps DEF insert
<1>3. ASSUME NEW c \in Connection, closeConnection(c) PROVE IInv'
  BY <1>3
  DEF closeConnection, IInv, TypeOK, HeldAtLastMessage, NeverLate, SlotOf, Slot
<1>4. ASSUME NEW c \in Connection, insertClosed(c) PROVE IInv'
  BY <1>4, TimeoutAssumption
  DEF TimeoutAssumption, insertClosed, IInv, TypeOK, HeldAtLastMessage,
      NeverLate, SlotOf, Slot
<1>5. CASE wheelCallback
  BY <1>5, TickKeeps
<1>6. CASE UNCHANGED vars
  BY <1>6
  DEF vars, IInv, TypeOK, HeldAtLastMessage, NeverLate, SlotOf, Slot
<1>7. QED BY <1>1, <1>2, <1>3, <1>4, <1>5, <1>6 DEF Next

-----------------------------------------------------------------------------
(* The wheel's invariant: types, where every open connection is held, and  *)
(* how long it can have been silent.                                       *)
THEOREM WheelInductive == Spec => []IInv
<1>1. QED BY InitIInv, NextIInv, PTL DEF Spec

(* TypeOK: the index stays inside the ring whatever the timeout, and no    *)
(* slot ever holds anything but connections' elements.                     *)
THEOREM WheelTypes == Spec => []TypeOK
<1>1. IInv => TypeOK
  BY DEF IInv
<1>2. QED BY <1>1, WheelInductive, PTL

(* NeverLate: TcpServer closes every connection whose device has been      *)
(* silent for timeoutSec_ seconds.                                         *)
THEOREM ClosedInTime == Spec => []NeverLate
<1>1. IInv => NeverLate
  BY DEF IInv
<1>2. QED BY <1>1, WheelInductive, PTL

(* HeldAtLastMessage: ~ConnectionElement runs when the slot of the last    *)
(* message is cleared, not when an older one is.                           *)
THEOREM HeldWhereLastHeard == Spec => []HeldAtLastMessage
<1>1. IInv => HeldAtLastMessage
  BY DEF IInv
<1>2. QED BY <1>1, WheelInductive, PTL

(* NeverEarly: whatever the timeout, a device that sends something at      *)
(* least every timeoutSec_ - 1 seconds keeps its connection.               *)
THEOREM KeptWhileHeard == Spec => NeverEarly
<1>1. IInv /\ [Next]_vars =>
        [\A c \in open \ open' : index_' # index_ => silent[c] + 1 = timeoutSec_]_vars
  <2> SUFFICES ASSUME IInv, Next, NEW c \in open \ open', index_' # index_
               PROVE  silent[c] + 1 = timeoutSec_
    BY DEF vars
  <2>1. wheelCallback
    BY DEF Next, insertNew, insert, insertClosed, closeConnection
  <2>2. silent[c] = timeoutSec_ - 1
    BY <2>1, TickExpires
  <2>3. QED BY <2>2, TimeoutAssumption DEF TimeoutAssumption
<1>2. QED BY <1>1, WheelInductive, PTL DEF Spec, NeverEarly

=============================================================================
