--------------------------- MODULE ConnectionProofs --------------------------
(***************************************************************************)
(* The life of a connection for every timeout and any number of            *)
(* connections: that the loop only uses the wheel as module TimerWheel     *)
(* says, and that every connection is closed once.                         *)
(***************************************************************************)
EXTENDS Connection, TimerWheelProofs, SequenceTheorems, FiniteSetTheorems

(***************************************************************************)
(* Sequences without repetition.                                           *)
(***************************************************************************)
LEMMA ConcatRange ==
  ASSUME NEW S, NEW s \in Seq(S), NEW q \in Seq(S)
  PROVE  s \o q \in Seq(S) /\ Range(s \o q) = Range(s) \cup Range(q)
<1> DEFINE m == Len(s)
           n == Len(q)
           r == s \o q
<1>1. /\ m \in Nat /\ n \in Nat /\ DOMAIN s = 1 .. m /\ DOMAIN q = 1 .. n
      /\ r \in Seq(S) /\ DOMAIN r = 1 .. m + n
      /\ \A i \in 1 .. m + n : r[i] = IF i <= m THEN s[i] ELSE q[i - m]
  BY ConcatProperties, LenProperties
<1> HIDE DEF m, n, r
<1>2. ASSUME NEW x \in Range(s)
      PROVE  x \in Range(r)
  <2>1. PICK i \in 1 .. m : x = s[i]
    BY <1>1 DEF Range
  <2>2. i \in 1 .. m + n /\ r[i] = x
    BY <1>1, <2>1
  <2>3. QED
    BY <1>1, <2>2 DEF Range
<1>3. ASSUME NEW x \in Range(q)
      PROVE  x \in Range(r)
  <2>1. PICK i \in 1 .. n : x = q[i]
    BY <1>1 DEF Range
  <2>2. m + i \in 1 .. m + n /\ r[m + i] = x
    BY <1>1, <2>1
  <2>3. QED
    BY <1>1, <2>2 DEF Range
<1>4. ASSUME NEW x \in Range(r)
      PROVE  x \in Range(s) \cup Range(q)
  <2>1. PICK i \in 1 .. m + n : x = r[i]
    BY <1>1 DEF Range
  <2>2. CASE i <= m
    <3>1. i \in DOMAIN s /\ x = s[i]
      BY <1>1, <2>1, <2>2
    <3>2. QED
      BY <3>1 DEF Range
  <2>3. CASE ~(i <= m)
    <3>1. i - m \in DOMAIN q /\ x = q[i - m]
      BY <1>1, <2>1, <2>3
    <3>2. QED
      BY <3>1 DEF Range
  <2>4. QED
    BY <2>2, <2>3
<1>5. QED
  BY <1>1, <1>2, <1>3, <1>4 DEF r

LEMMA ConcatInjective ==
  ASSUME NEW S, NEW s \in Seq(S), NEW q \in Seq(S),
         IsInjective(s), IsInjective(q), Range(s) \cap Range(q) = {}
  PROVE  IsInjective(s \o q)
<1> DEFINE m == Len(s)
           n == Len(q)
           r == s \o q
<1>1. /\ m \in Nat /\ n \in Nat /\ DOMAIN s = 1 .. m /\ DOMAIN q = 1 .. n
      /\ DOMAIN r = 1 .. m + n
      /\ \A i \in 1 .. m + n : r[i] = IF i <= m THEN s[i] ELSE q[i - m]
  BY ConcatProperties, LenProperties
<1> HIDE DEF m, n, r
<1>2. ASSUME NEW i \in 1 .. m + n, NEW j \in 1 .. m + n, r[i] = r[j], i <= j
      PROVE  i = j
  <2>1. CASE j <= m
    <3>1. i \in 1 .. m /\ j \in 1 .. m /\ s[i] = s[j]
      BY <1>1, <1>2, <2>1
    <3>2. QED
      BY <1>1, <3>1 DEF IsInjective
  <2>2. CASE ~(i <= m)
    <3>1. i - m \in 1 .. n /\ j - m \in 1 .. n /\ q[i - m] = q[j - m]
      BY <1>1, <1>2, <2>2
    <3>2. i - m = j - m
      BY <1>1, <3>1 DEF IsInjective
    <3>3. QED
      BY <1>1, <3>2
  <2>3. CASE i <= m /\ ~(j <= m)
    <3>1. i \in 1 .. m /\ j - m \in 1 .. n /\ s[i] = q[j - m]
      BY <1>1, <1>2, <2>3
    <3>2. s[i] \in Range(s) /\ q[j - m] \in Range(q)
      BY <1>1, <3>1 DEF Range
    <3>3. QED
      BY <3>1, <3>2
  <2>4. QED
    BY <2>1, <2>2, <2>3
<1>3. ASSUME NEW i \in 1 .. m + n, NEW j \in 1 .. m + n, r[i] = r[j]
      PROVE  i = j
  <2>1. i <= j \/ j <= i
    BY <1>1
  <2>2. QED
    BY <1>2, <1>3, <2>1
<1>4. QED
  BY <1>1, <1>3 DEF IsInjective, r

LEMMA TailInjective ==
  ASSUME NEW S, NEW q \in Seq(S), q # <<>>, IsInjective(q)
  PROVE  /\ Head(q) \in Range(q) /\ Head(q) \in S
         /\ Tail(q) \in Seq(S) /\ IsInjective(Tail(q))
         /\ Range(Tail(q)) = Range(q) \ {Head(q)}
<1> DEFINE n == Len(q)
           t == Tail(q)
<1>1. /\ Head(q) \in S /\ t \in Seq(S) /\ Len(t) = n - 1
      /\ \A i \in 1 .. Len(t) : t[i] = q[i + 1]
  BY HeadTailProperties
<1>2. /\ n \in Nat \ {0} /\ DOMAIN q = 1 .. n /\ DOMAIN t = 1 .. n - 1
      /\ Head(q) = q[1]
  BY <1>1, EmptySeq, LenProperties
<1> HIDE DEF n, t
<1>3. ASSUME NEW x \in Range(q), x # Head(q)
      PROVE  x \in Range(t)
  <2>1. PICK i \in 1 .. n : x = q[i]
    BY <1>2 DEF Range
  <2>2. i - 1 \in 1 .. n - 1 /\ t[i - 1] = x
    BY <1>1, <1>2, <1>3, <2>1
  <2>3. QED
    BY <1>2, <2>2 DEF Range
<1>4. ASSUME NEW x \in Range(t)
      PROVE  x \in Range(q) /\ x # Head(q)
  <2>1. PICK i \in 1 .. n - 1 : x = t[i]
    BY <1>2 DEF Range
  <2>2. i + 1 \in 1 .. n /\ x = q[i + 1] /\ i + 1 # 1
    BY <1>1, <1>2, <2>1
  <2>3. 1 \in DOMAIN q
    BY <1>2
  <2>4. QED
    BY <1>2, <2>2, <2>3 DEF Range, IsInjective
<1>5. ASSUME NEW i \in 1 .. n - 1, NEW j \in 1 .. n - 1, t[i] = t[j]
      PROVE  i = j
  <2>1. /\ i + 1 \in 1 .. n /\ j + 1 \in 1 .. n
        /\ q[i + 1] = q[j + 1]
    BY <1>1, <1>2, <1>5
  <2>2. i + 1 = j + 1
    BY <1>2, <2>1 DEF IsInjective
  <2>3. QED
    BY <1>2, <2>2
<1>6. IsInjective(t)
  BY <1>2, <1>5 DEF IsInjective
<1>7. Head(q) \in Range(q)
  <2>1. 1 \in DOMAIN q
    BY <1>2
  <2>2. QED
    BY <1>2, <2>1 DEF Range
<1>8. QED
  BY <1>1, <1>3, <1>4, <1>6, <1>7 DEF t

(* The order in which the elements of a slot are destroyed.                *)
LEMMA SeqsOfSet ==
  ASSUME NEW S, IsFiniteSet(S), NEW s \in SetToSeqs(S)
  PROVE  s \in Seq(S) /\ Range(s) = S /\ IsInjective(s)
<1> DEFINE D == 1 .. Cardinality(S)
<1>1. Cardinality(S) \in Nat
  BY FS_CardinalityType
<1>2. s \in [D -> S] /\ \A i, j \in D : i # j => s[i] # s[j]
  BY DEF SetToSeqs
<1>3. s \in Seq(S)
  BY <1>1, <1>2
<1>4. IsInjective(s)
  BY <1>2 DEF IsInjective
<1>5. s \in Injection(D, S)
  BY <1>2, <1>4 DEF Injection, IsInjective
<1>6. IsFiniteSet(D) /\ Cardinality(D) = Cardinality(S)
  BY <1>1, FS_Interval
<1>7. s \in Surjection(D, S)
  BY <1>5, <1>6, FS_Injection
<1>8. Range(s) = S
  BY <1>2, <1>7 DEF Surjection, Range
<1>9. QED
  BY <1>3, <1>4, <1>8

(***************************************************************************)
(* The wheel's part.                                                       *)
(***************************************************************************)
(* Whatever libuv calls, the wheel makes one of its own steps or none.     *)
LEMMA ConnStep ==
  ASSUME [ConnNext]_connVars
  PROVE  [Next]_vars
<1>1. CASE Loop
  BY <1>1 DEF Loop, EndPoll, FinishClose, EndClosing, NoTick
<1>2. CASE Tick
  BY <1>2 DEF Tick, Next
<1>3. ASSUME NEW c \in Connection,
             \/ onAccept(c) \/ onMessage(c) \/ onMessageClose(c)
             \/ onReadError(c) \/ onEof(c) \/ onShutdown(c)
      PROVE  [Next]_vars
  BY <1>3
  DEF onAccept, onMessage, onMessageClose, onReadError, onEof, onShutdown, Next
<1>4. CASE UNCHANGED connVars
  BY <1>4 DEF connVars
<1>5. QED
  BY <1>1, <1>2, <1>3, <1>4 DEF ConnNext

(* The server under libuv's loop implements the wheel of module            *)
(* TimerWheel: everything proved of it holds here.                         *)
THEOREM ImplementsWheel == ConnSpec => Spec
<1>1. ConnInit => Init
  BY DEF ConnInit
<1>2. QED
  BY <1>1, ConnStep, PTL DEF ConnSpec, Spec

(* TcpServer closes every connection that has been silent for timeoutSec_  *)
(* seconds, in whichever phase of the loop it is looked at.                *)
THEOREM SilentAreClosed == ConnSpec => []NeverLate
  BY ImplementsWheel, ClosedInTime, PTL

(* An open connection is held by the slot of its last message.             *)
THEOREM HeldUnderLoop == ConnSpec => []HeldAtLastMessage
  BY ImplementsWheel, HeldWhereLastHeard, PTL

(* No connection expires before a full timeout of silence.                 *)
THEOREM KeptUnderLoop == ConnSpec => NeverEarly
  BY ImplementsWheel, KeptWhileHeard, PTL

(***************************************************************************)
(* The registry and the closing handles.                                   *)
(***************************************************************************)
LoopTypes ==
  /\ phase \in {"timers", "poll", "closing", "crashed"}
  /\ connnections_ \subseteq Connection
  /\ shutdown_req \subseteq Connection
  /\ closing_handles \in Seq(Connection)

ConnInv ==
  /\ IInv
  /\ LoopTypes
  /\ IsFiniteSet(open)
  /\ ClosedOnce
  /\ OnlyExpiryOverlaps
  /\ shutdown_req \subseteq connnections_
  /\ phase = "timers" => closing_handles = <<>>

LEMMA ConnStart == ConnInit => ConnInv
<1> SUFFICES ASSUME ConnInit
             PROVE  ConnInv
  OBVIOUS
<1>1. IInv
  BY InitIInv DEF ConnInit
<1>2. open = {} /\ connnections_ = {} /\ shutdown_req = {} /\ closing_handles = <<>>
  BY DEF ConnInit, Init
<1>3. DOMAIN closing_handles = {} /\ closing_handles \in Seq(Connection)
  BY <1>2
<1>4. ClosedOnce /\ OnlyExpiryOverlaps
  BY <1>2, <1>3 DEF ClosedOnce, OnlyExpiryOverlaps, Closing, Range, IsInjective
<1>5. IsFiniteSet(open)
  BY <1>2, FS_EmptySet
<1>6. LoopTypes
  BY <1>2, <1>3 DEF LoopTypes, ConnInit
<1>7. QED
  BY <1>1, <1>2, <1>4, <1>5, <1>6 DEF ConnInv

(* An insertion, and what leaves the wheel alone.                          *)
LEMMA HeldAfterInsert ==
  ASSUME IInv, NEW c, wheel' = [wheel EXCEPT ![index_] = @ \cup {c}]
  PROVE  Held' \subseteq Held \cup {c}
<1>1. wheel \in [Slot -> SUBSET Connection]
  BY DEF IInv, TypeOK
<1>2. \A i \in Slot : wheel'[i] \subseteq wheel[i] \cup {c}
  BY <1>1
<1>3. QED
  BY <1>2 DEF Held, Slot

LEMMA AcceptKeepsLoop ==
  ASSUME ConnInv, NEW c \in Connection, onAccept(c)
  PROVE  ConnInv'
<1>1. /\ c \notin connnections_ /\ c \notin Held
      /\ open' = open \cup {c} /\ connnections_' = connnections_ \cup {c}
      /\ Held' \subseteq Held \cup {c}
      /\ UNCHANGED <<phase, shutdown_req, closing_handles>>
  BY HeldAfterInsert DEF onAccept, insertNew, ConnInv
<1>2. IInv'
  BY NextIInv DEF ConnInv, onAccept, Next
<1>3. IsFiniteSet(open')
  BY <1>1, FS_AddElement DEF ConnInv
<1>4. c \notin Closing /\ c \notin shutdown_req /\ Closing' = Closing
  BY <1>1 DEF ConnInv, ClosedOnce, Closing
<1>5. ClosedOnce'
  BY <1>1, <1>4 DEF ConnInv, ClosedOnce
<1>6. OnlyExpiryOverlaps'
  BY <1>1, <1>4 DEF ConnInv, OnlyExpiryOverlaps
<1>7. QED
  BY <1>1, <1>2, <1>3, <1>5, <1>6 DEF ConnInv, LoopTypes

LEMMA ReadKeepsLoop ==
  ASSUME ConnInv, NEW c \in Connection, onMessage(c) \/ onEof(c)
  PROVE  ConnInv'
<1>1. /\ c \in open /\ c \notin shutdown_req
      /\ open' = open /\ Held' \subseteq Held \cup {c}
      /\ UNCHANGED <<phase, connnections_, closing_handles>>
      /\ shutdown_req' \subseteq shutdown_req \cup {c}
  <2>1. CASE onMessage(c)
    BY <2>1, HeldAfterInsert DEF onMessage, Reading, insert, loopVars, ConnInv
  <2>2. CASE onEof(c)
    BY <2>2 DEF onEof, Reading, vars, Held
  <2>3. QED
    BY <2>1, <2>2
<1>2. IInv'
  BY NextIInv DEF ConnInv, onMessage, onEof, Next
<1>3. c \notin Closing /\ Closing' = Closing
  BY <1>1 DEF ConnInv, ClosedOnce, Closing
<1>4. ClosedOnce'
  BY <1>1, <1>3 DEF ConnInv, ClosedOnce
<1>5. OnlyExpiryOverlaps'
  BY <1>1, <1>3 DEF ConnInv, OnlyExpiryOverlaps
<1>6. QED
  BY <1>1, <1>2, <1>4, <1>5 DEF ConnInv, LoopTypes, ClosedOnce

(* uv_close, from a callback of a connection that is open.                 *)
LEMMA CloseKeepsLoop ==
  ASSUME ConnInv, NEW c \in Connection,
         onMessageClose(c) \/ onReadError(c) \/ onShutdown(c)
  PROVE  ConnInv'
<1>1. /\ c \in open /\ open' = open \ {c} /\ Held' \subseteq Held \cup {c}
      /\ phase = "poll" /\ UNCHANGED <<phase, connnections_>>
      /\ uv_close(c)
      /\ shutdown_req' = shutdown_req \ {c}
  <2>1. CASE onMessageClose(c)
    BY <2>1, HeldAfterInsert DEF onMessageClose, Reading, insertClosed, ConnInv
  <2>2. CASE onReadError(c)
    BY <2>2 DEF onReadError, Reading, closeConnection, Held
  <2>3. CASE onShutdown(c)
    BY <2>3 DEF onShutdown, closeConnection, Held
  <2>4. QED
    BY <2>1, <2>2, <2>3
<1>2. IInv'
  BY NextIInv DEF ConnInv, onMessageClose, onReadError, onShutdown, Next
<1>3. IsFiniteSet(open')
  BY <1>1, FS_Subset DEF ConnInv
<1>4. /\ <<c>> \in Seq(Connection) /\ Range(<<c>>) = {c} /\ IsInjective(<<c>>)
      /\ c \notin Range(closing_handles)
  BY <1>1 DEF Range, IsInjective, ConnInv, ClosedOnce, Closing
<1>5. /\ closing_handles' \in Seq(Connection) /\ IsInjective(closing_handles')
      /\ Closing' = Closing \cup {c}
  <2>1. closing_handles \in Seq(Connection) /\ IsInjective(closing_handles)
    BY DEF ConnInv, ClosedOnce, LoopTypes
  <2>2. closing_handles' = <<c>> \o closing_handles
    BY <1>1 DEF uv_close
  <2>3. /\ closing_handles' \in Seq(Connection)
        /\ Range(closing_handles') = Range(<<c>>) \cup Range(closing_handles)
    <3>1. <<c>> \in Seq(Connection)
      BY <1>4
    <3>2. QED
      BY <2>1, <2>2, <3>1, ConcatRange
  <2>4. IsInjective(closing_handles')
    BY <1>4, <2>1, <2>2, ConcatInjective
  <2>5. QED
    BY <1>4, <2>3, <2>4 DEF Closing
<1>6. ClosedOnce'
  BY <1>1, <1>5 DEF ConnInv, ClosedOnce
<1>7. OnlyExpiryOverlaps'
  BY <1>1, <1>5 DEF ConnInv, OnlyExpiryOverlaps
<1>8. QED
  BY <1>1, <1>2, <1>3, <1>5, <1>6, <1>7 DEF ConnInv, LoopTypes

LEMMA FinishKeepsLoop ==
  ASSUME ConnInv, FinishClose
  PROVE  ConnInv'
<1> DEFINE c == Head(closing_handles)
<1>1. /\ closing_handles # <<>> /\ closing_handles' = Tail(closing_handles)
      /\ phase' \in {"closing", "crashed"} /\ UNCHANGED vars
      /\ connnections_' = connnections_ \ {c}
      /\ shutdown_req' = shutdown_req \ {c}
  BY DEF FinishClose, CloseComplete
<1>2. /\ c \in Closing /\ closing_handles' \in Seq(Connection)
      /\ IsInjective(closing_handles') /\ Closing' = Closing \ {c}
  BY <1>1, TailInjective DEF ConnInv, LoopTypes, ClosedOnce, Closing
<1> HIDE DEF c
<1>3. IInv'
  BY <1>1, NextIInv DEF ConnInv
<1>4. open' = open /\ Held' = Held
  BY <1>1 DEF vars, Held
<1>5. ClosedOnce'
  BY <1>1, <1>2, <1>4 DEF ConnInv, ClosedOnce
<1>6. OnlyExpiryOverlaps'
  BY <1>1, <1>2, <1>4 DEF ConnInv, OnlyExpiryOverlaps
<1>7. QED
  BY <1>1, <1>2, <1>3, <1>4, <1>5, <1>6 DEF ConnInv, LoopTypes

(* Nothing is closed when the timers run, and what expires is held no more.*)
LEMMA TickKeepsLoop ==
  ASSUME ConnInv, Tick
  PROVE  ConnInv'
<1>1. PICK s \in SetToSeqs(Expired) : closing_handles' = s \o closing_handles
  BY DEF Tick
<1>2. /\ phase = "timers" /\ phase' = "poll" /\ wheelCallback
      /\ UNCHANGED <<connnections_, shutdown_req>>
      /\ open' = open \ (Held \ Held')
  BY DEF Tick, wheelCallback
<1>3. IInv'
  BY <1>2, NextIInv DEF ConnInv, Next
<1>4. IsFiniteSet(open') /\ IsFiniteSet(Expired)
  BY <1>2, FS_Subset DEF ConnInv, Expired
<1>5. /\ s \in Seq(Expired) /\ Range(s) = Expired /\ IsInjective(s)
      /\ Expired \subseteq Connection
  <2>1. Expired \subseteq Connection
    BY DEF Expired, ConnInv, IInv, TypeOK
  <2>2. QED
    BY <1>4, <2>1, SeqsOfSet
<1>6. s \in Seq(Connection)
  BY <1>5, SeqMonotonic
<1>7. /\ closing_handles \in Seq(Connection) /\ IsInjective(closing_handles)
      /\ Range(closing_handles) = {} /\ Closing = {}
  BY <1>2 DEF ConnInv, LoopTypes, ClosedOnce, Closing, Range
<1>8. /\ closing_handles' \in Seq(Connection) /\ IsInjective(closing_handles')
      /\ Closing' = Expired
  <2>1. /\ closing_handles' \in Seq(Connection)
        /\ Range(closing_handles') = Expired \cup Range(closing_handles)
    BY <1>1, <1>5, <1>6, <1>7, ConcatRange
  <2>2. Range(s) \cap Range(closing_handles) = {}
    BY <1>7
  <2>3. IsInjective(closing_handles')
    BY <1>1, <1>5, <1>6, <1>7, <2>2, ConcatInjective
  <2>4. QED
    BY <1>7, <2>1, <2>3 DEF Closing
<1>9. ClosedOnce'
  BY <1>2, <1>7, <1>8 DEF ConnInv, ClosedOnce, Expired
<1>10. OnlyExpiryOverlaps'
  BY <1>2, <1>8 DEF OnlyExpiryOverlaps, Expired
<1>11. QED
  BY <1>2, <1>3, <1>4, <1>8, <1>9, <1>10 DEF ConnInv, LoopTypes

LEMMA PhaseKeepsLoop ==
  ASSUME ConnInv, EndPoll \/ EndClosing \/ NoTick \/ UNCHANGED connVars
  PROVE  ConnInv'
<1>1. /\ UNCHANGED <<vars, connnections_, shutdown_req, closing_handles>>
      /\ \/ phase' \in {"poll", "closing", phase}
         \/ phase' = "timers" /\ closing_handles = <<>>
  BY DEF EndPoll, EndClosing, NoTick, connVars, loopVars
<1>2. IInv'
  BY <1>1, NextIInv DEF ConnInv
<1>3. open' = open /\ Held' = Held /\ Closing' = Closing
  BY <1>1 DEF vars, Held, Closing
<1>4. ClosedOnce' /\ OnlyExpiryOverlaps'
  BY <1>1, <1>3 DEF ConnInv, ClosedOnce, OnlyExpiryOverlaps
<1>5. QED
  BY <1>1, <1>2, <1>3, <1>4 DEF ConnInv, LoopTypes

(* The invariant of the wheel and the loop together.                       *)
THEOREM ConnInductive == ConnSpec => []ConnInv
<1>1. ConnInv /\ [ConnNext]_connVars => ConnInv'
  <2> SUFFICES ASSUME ConnInv, [ConnNext]_connVars
               PROVE  ConnInv'
    OBVIOUS
  <2>1. ASSUME NEW c \in Connection, onAccept(c)
        PROVE  ConnInv'
    BY <2>1, AcceptKeepsLoop
  <2>2. ASSUME NEW c \in Connection, onMessage(c) \/ onEof(c)
        PROVE  ConnInv'
    BY <2>2, ReadKeepsLoop
  <2>3. ASSUME NEW c \in Connection,
               onMessageClose(c) \/ onReadError(c) \/ onShutdown(c)
        PROVE  ConnInv'
    BY <2>3, CloseKeepsLoop
  <2>4. CASE FinishClose
    BY <2>4, FinishKeepsLoop
  <2>5. CASE Tick
    BY <2>5, TickKeepsLoop
  <2>6. CASE EndPoll \/ EndClosing \/ NoTick \/ UNCHANGED connVars
    BY <2>6, PhaseKeepsLoop
  <2>7. QED
    BY <2>1, <2>2, <2>3, <2>4, <2>5, <2>6 DEF ConnNext, Loop
<1>2. QED
  BY <1>1, ConnStart, PTL DEF ConnSpec

(* The wheel's and the loop's variables keep their types.                  *)
THEOREM ConnTypes == ConnSpec => []ConnTypeOK
<1>1. ConnInv => ConnTypeOK
  BY DEF ConnInv, IInv, LoopTypes, ConnTypeOK
<1>2. QED
  BY <1>1, ConnInductive, PTL

(* The registry is what is open or being closed, and uv_close never gets a *)
(* handle twice, whatever comes together.                                  *)
THEOREM NoSecondClose == ConnSpec => []ClosedOnce
<1>1. ConnInv => ClosedOnce
  BY DEF ConnInv
<1>2. QED
  BY <1>1, ConnInductive, PTL

(* Between two iterations the registry has only live connections that were *)
(* heard within the timeout.                                               *)
THEOREM RegistryIsTimely == ConnSpec => []RegistryTimely
<1>1. ASSUME ConnInv
      PROVE  RegistryTimely
  <2> SUFFICES ASSUME phase = "timers", NEW c \in connnections_
               PROVE  c \in open /\ silent[c] < timeoutSec_
    BY DEF RegistryTimely
  <2>1. Closing = {}
    BY <1>1 DEF ConnInv, Closing, Range
  <2>2. c \in open
    BY <1>1, <2>1 DEF ConnInv, ClosedOnce
  <2>3. QED
    BY <1>1, <2>2 DEF ConnInv, IInv, NeverLate
<1>2. QED
  BY <1>1, ConnInductive, PTL

(* Only an expiry closes a connection that still waits for its uv_shutdown.*)
THEOREM OnlyExpiryMeetsShutdown == ConnSpec => []OnlyExpiryOverlaps
<1>1. ConnInv => OnlyExpiryOverlaps
  BY DEF ConnInv
<1>2. QED
  BY <1>1, ConnInductive, PTL

=============================================================================
