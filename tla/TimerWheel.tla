----------------------------- MODULE TimerWheel -----------------------------
(***************************************************************************)
(* The server's idle timeout: a ring of sets of connection elements, one   *)
(* set a second.  Every set is a reference to the element; when the last   *)
(* one goes its destructor closes the connection, if that still exists.    *)
(* (timeoutSec_ = 0 switches all of it off: each operation returns at      *)
(* once.)                                                                  *)
(***************************************************************************)
EXTENDS Integers

CONSTANTS
  Connection,   \* TcpConnection objects, and their elements
  timeoutSec_   \* setTimeout's argument

TimeoutAssumption == timeoutSec_ \in Nat \ {0}

ASSUME TimeoutAssumption

VARIABLES
  index_,   \* the slot of the current second
  wheel,    \* slot -> the elements it holds
  open,     \* the connections that have been accepted and not been closed
  silent    \* history: seconds ticked since the connection's last message

vars == <<index_, wheel, open, silent>>

Slot == 0 .. timeoutSec_ - 1

Held == UNION {wheel[s] : s \in Slot}

(* TimerWheel::start, from bindAndListen.                                  *)
Init ==
  /\ index_ = 0
  /\ wheel = [s \in Slot |-> {}]
  /\ open = {}
  /\ silent = [c \in Connection |-> 0]

(* onAccept.  An object that was closed stands for another connection only *)
(* when nothing holds its old element any more.                            *)
insertNew(c) ==
  /\ c \notin open \cup Held
  /\ open' = open \cup {c}
  /\ wheel' = [wheel EXCEPT ![index_] = @ \cup {c}]
  /\ silent' = [silent EXCEPT ![c] = 0]
  /\ UNCHANGED index_

(* A slip: a connection that is already there is not inserted again.       *)
InsertOnce(c) ==
  /\ c \in open
  /\ silent' = [silent EXCEPT ![c] = 0]
  /\ UNCHANGED <<index_, wheel, open>>

(* onMessage.                                                              *)
insert(c) ==
  /\ c \in open
  /\ wheel' = [wheel EXCEPT ![index_] = @ \cup {c}]
  /\ silent' = [silent EXCEPT ![c] = 0]
  /\ UNCHANGED <<index_, open>>

(* onMessage of a packet whose handler closes the connection: the element  *)
(* is inserted all the same, after the handler.                            *)
insertClosed(c) ==
  /\ c \in open
  /\ open' = open \ {c}
  /\ wheel' = [wheel EXCEPT ![index_] = @ \cup {c}]
  /\ silent' = [silent EXCEPT ![c] = 0]
  /\ UNCHANGED index_

(* The connection ends for another reason; its element stays.              *)
closeConnection(c) ==
  /\ c \in open
  /\ open' = open \ {c}
  /\ UNCHANGED <<index_, wheel, silent>>

(* A slip: the index runs past the end of the ring.                        *)
IndexPastEnd == index_ + 1

NextIndex == IF index_ + 1 = timeoutSec_ THEN 0 ELSE index_ + 1

(* A slip: the first slot is not cleared.                                  *)
ClearButFirst(s) == [wheel EXCEPT ![s] = IF s = 0 THEN @ ELSE {}]

Clear(s) == [wheel EXCEPT ![s] = {}]

(* One second: the slot that is a full turn old is cleared, and            *)
(* ~ConnectionElement closes the connections nothing holds any more.       *)
wheelCallback ==
  /\ index_' = NextIndex
  /\ wheel' = Clear(index_')
  /\ open' = open \ (Held \ Held')
  /\ silent' = [c \in Connection |-> IF c \in open' THEN silent[c] + 1 ELSE 0]

Next ==
  \/ \E c \in Connection :
        insertNew(c) \/ insert(c) \/ insertClosed(c) \/ closeConnection(c)
  \/ wheelCallback

Spec == Init /\ [][Next]_vars

(***************************************************************************)
(* Properties.                                                             *)
(***************************************************************************)
TypeOK ==
  /\ index_ \in Slot
  /\ wheel \in [Slot -> SUBSET Connection]
  /\ open \subseteq Connection
  /\ silent \in [Connection -> Nat]

(* The slot that was current k seconds ago.                                *)
SlotOf(k) == IF k <= index_ THEN index_ - k ELSE index_ - k + timeoutSec_

(* An open connection is held by the slot of its last message and by no    *)
(* later one, so the wheel always knows how long it has been silent.       *)
HeldAtLastMessage ==
  \A c \in open :
     /\ c \in wheel[SlotOf(silent[c])]
     /\ \A k \in 0 .. silent[c] - 1 : c \notin wheel[SlotOf(k)]

(* No connection stays open when timeoutSec_ seconds have ticked since its *)
(* last message, wherever in the ring that was.                            *)
NeverLate == \A c \in open : silent[c] < timeoutSec_

(* The wheel closes a connection only after a full timeout of silence: a   *)
(* message always buys all of it, although older slots still hold the      *)
(* element when they are cleared.                                          *)
NeverEarly ==
  [][\A c \in open \ open' : index_' # index_ => silent[c] + 1 = timeoutSec_]_vars

=============================================================================
