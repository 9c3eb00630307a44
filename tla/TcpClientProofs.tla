--------------------------- MODULE TcpClientProofs ---------------------------
(***************************************************************************)
(* The safety properties of TcpClient for any number of handles and any    *)
(* number of faults.                                                       *)
(***************************************************************************)
EXTENDS TcpClient, TLAPS

(* A uv_tcp_t that is not socket_ has been freed, or is the one that the   *)
(* lost connection keeps.                                                  *)
OthersDone ==
  \A h \in Handle : h # socket_ =>
     handle[h] = IF h = connection_ THEN "closed" ELSE "free"

(* socket_ is never freed, and idle exactly when something will connect it.*)
SocketReady ==
  /\ handle[socket_] \notin {"free", "closed"}
  /\ timers > 0 => started
  /\ handle[socket_] = "idle" <=> (~started \/ timers > 0)

(* The connection is made when socket_ has been connected, not before.     *)
ConnectionMade ==
  /\ handle[socket_] \in {"open", "eof"} => connection_ = socket_
  /\ connection_ = socket_ => handle[socket_] \in {"open", "eof", "closing"}
  /\ connected_ => connection_ = socket_ /\ handle[socket_] = "open"

ClientInv == TypeOK /\ OthersDone /\ SocketReady /\ ConnectionMade

(***************************************************************************)
(* The invariant holds at the start and each action keeps it.              *)
(***************************************************************************)
LEMMA ClientInit == Init => ClientInv
<1> SUFFICES ASSUME Init
             PROVE  ClientInv
  OBVIOUS
<1>1. NoConnection \notin Handle /\ MaxFaults \in Nat
  BY ClientAssumption DEF ClientAssumption
<1>2. /\ socket_ \in Handle /\ connection_ = NoConnection
      /\ handle = [h \in Handle |-> IF h = socket_ THEN "idle" ELSE "free"]
      /\ started = FALSE /\ connected_ = FALSE /\ timers = 0
  BY DEF Init
<1>3. handle \in [Handle -> HandleState]
  BY <1>2 DEF HandleState
<1>4. network \in {"up", "refusing", "unreachable"} /\ link = "none" /\ faults = 0
  BY DEF Init
<1>5. TypeOK
  <2>1. started \in BOOLEAN /\ connected_ \in BOOLEAN
    BY Zenon DEF Init
  <2>2. QED
    BY <1>1, <1>2, <1>3, <1>4, <2>1 DEF TypeOK
<1>6. OthersDone /\ SocketReady /\ ConnectionMade
  BY <1>1, <1>2 DEF OthersDone, SocketReady, ConnectionMade
<1>7. QED
  BY <1>5, <1>6 DEF ClientInv

(* connect, from the program's start or from the timer.                    *)
LEMMA ConnectKeeps ==
  ASSUME ClientInv, connectToServer \/ reConnect
  PROVE  ClientInv'
<1>1. /\ handle[socket_] = "idle"
      /\ connection_ # socket_ /\ ~connected_
  BY DEF ClientInv, SocketReady, ConnectionMade, connectToServer, reConnect,
         TypeOK
<1>2. PICK s \in {"connecting", "refused", "failed"} :
         handle' = [handle EXCEPT ![socket_] = s]
  BY DEF ClientInv, TypeOK, connectToServer, reConnect, connect
<1>3. /\ UNCHANGED <<socket_, connection_, connected_, world>>
      /\ started' /\ timers' = 0
  BY DEF ClientInv, TypeOK, SocketReady, connectToServer, reConnect
<1>4. TypeOK'
  BY <1>2, <1>3 DEF ClientInv, TypeOK, HandleState, world, connectToServer,
     reConnect
<1>5. OthersDone' /\ SocketReady' /\ ConnectionMade'
  BY <1>1, <1>2, <1>3
  DEF ClientInv, TypeOK, OthersDone, SocketReady, ConnectionMade
<1>6. QED
  BY <1>4, <1>5 DEF ClientInv

(* onConnect frees the handle of the connection before.                    *)
LEMMA OnConnectKeeps ==
  ASSUME ClientInv, onConnect
  PROVE  ClientInv'
<1>1. handle[socket_] = "connecting" /\ connection_ # socket_
  BY DEF ClientInv, ConnectionMade, onConnect
<1>2. /\ handle' \in [Handle -> HandleState]
      /\ handle'[socket_] = "open"
      /\ \A h \in Handle : h # socket_ => handle'[h] = "free"
  BY <1>1, ClientAssumption
  DEF ClientAssumption, ClientInv, TypeOK, HandleState, OthersDone, onConnect,
      Release
<1>3. QED
  BY <1>1, <1>2
  DEF ClientInv, TypeOK, OthersDone, SocketReady, ConnectionMade, onConnect

(* What only changes the state of socket_, which stays in use.             *)
LEMMA CallbackKeeps ==
  ASSUME ClientInv,
         ConnectFails \/ onReadError \/ onEof \/ onShutdown
  PROVE  ClientInv'
<1>1. handle[socket_] \in {"refused", "connecting", "open", "eof"}
  BY DEF ConnectFails, ConnectMayFail, onReadError, onEof, onShutdown
<1>2. PICK s \in {"closing", "eof"} : handle' = [handle EXCEPT ![socket_] = s]
  BY DEF ConnectFails, onReadError, onEof, onShutdown
<1>3. /\ UNCHANGED <<started, socket_, connection_, timers, world>>
      /\ connected_' \in BOOLEAN
      /\ connected_' = FALSE
      /\ s = "eof" => connection_ = socket_
  BY <1>1, <1>2
  DEF ClientInv, TypeOK, ConnectionMade, ConnectFails, ConnectMayFail,
      onReadError, onEof, onShutdown
<1>4. QED
  BY <1>1, <1>2, <1>3
  DEF ClientInv, TypeOK, HandleState, OthersDone, SocketReady, ConnectionMade,
      world

(* A closed handle is replaced.                                            *)
LEMMA ReplaceKeeps ==
  ASSUME ClientInv, afterConnectFail \/ onClose
  PROVE  ClientInv'
<1>1. /\ handle[socket_] = "closing" /\ timers = 0 /\ started /\ ~connected_
  BY DEF ClientInv, TypeOK, SocketReady, ConnectionMade, afterConnectFail,
         onClose
<1>2. PICK h \in Handle :
        /\ h \notin {socket_, connection_} /\ socket_' = h
        /\ handle' = [handle EXCEPT
             ![socket_] = IF socket_ = connection_ THEN "closed" ELSE "free",
             ![h] = "idle"]
  BY DEF afterConnectFail, onClose, update, Release
<1>3. /\ UNCHANGED <<started, connection_, connected_, world>>
      /\ timers' = 1
  <2>1. CASE afterConnectFail
    BY <1>1, <2>1 DEF afterConnectFail
  <2>2. CASE onClose
    BY <1>1, <2>2 DEF onClose
  <2>3. QED
    BY <2>1, <2>2
<1>4. QED
  BY <1>1, <1>2, <1>3
  DEF ClientInv, TypeOK, HandleState, OthersDone, SocketReady, ConnectionMade,
      world

(* The network's steps leave the client alone.                             *)
LEMMA WorldKeeps ==
  ASSUME ClientInv, PeerCloses \/ BbuExits \/ LinkDown \/ Back
  PROVE  ClientInv'
<1>1. UNCHANGED client
  BY DEF PeerCloses, BbuExits, LinkDown, Back
<1>2. /\ network' \in {"up", "refusing", "unreachable"}
      /\ link' \in {"none", "ok", "fin", "rst", "silent"}
      /\ faults' \in 0 .. MaxFaults
  <2>1. /\ network \in {"up", "refusing", "unreachable"}
        /\ link \in {"none", "ok", "fin", "rst", "silent"}
        /\ faults \in 0 .. MaxFaults /\ MaxFaults \in Nat
    BY ClientAssumption DEF ClientAssumption, ClientInv, TypeOK
  <2>2. CASE PeerCloses
    BY <2>1, <2>2 DEF PeerCloses, Fault
  <2>3. CASE BbuExits
    BY <2>1, <2>3 DEF BbuExits, Fault
  <2>4. CASE LinkDown
    BY <2>1, <2>4 DEF LinkDown, Fault
  <2>5. CASE Back
    BY <2>1, <2>5 DEF Back
  <2>6. QED
    BY <2>2, <2>3, <2>4, <2>5
<1>3. QED
  BY <1>1, <1>2
  DEF ClientInv, TypeOK, OthersDone, SocketReady, ConnectionMade, client

(* The client's inductive invariant: at any time one uv_tcp_t is socket_,  *)
(* and every other is free or kept, closed, by the lost connection.        *)
THEOREM ClientInductive == Spec => []ClientInv
<1>1. ClientInv /\ [Next]_vars => ClientInv'
  <2> SUFFICES ASSUME ClientInv, [Next]_vars
               PROVE  ClientInv'
    OBVIOUS
  <2>1. CASE connectToServer \/ reConnect
    BY <2>1, ConnectKeeps
  <2>2. CASE onConnect
    BY <2>2, OnConnectKeeps
  <2>3. CASE ConnectFails \/ onReadError \/ onEof \/ onShutdown
    BY <2>3, CallbackKeeps
  <2>4. CASE afterConnectFail \/ onClose
    BY <2>4, ReplaceKeeps
  <2>5. CASE PeerCloses \/ BbuExits \/ LinkDown \/ Back
    BY <2>5, WorldKeeps
  <2>6. CASE UNCHANGED vars
    BY <2>6
    DEF vars, client, world, ClientInv, TypeOK, OthersDone, SocketReady,
        ConnectionMade
  <2>7. QED
    BY <2>1, <2>2, <2>3, <2>4, <2>5, <2>6 DEF Next
<1>2. QED
  BY <1>1, ClientInit, PTL DEF Spec

(***************************************************************************)
(* The properties.                                                         *)
(***************************************************************************)
(* The client's variables keep their types; in particular no second        *)
(* reconnect timer is ever started.                                        *)
THEOREM ClientTypes == Spec => []TypeOK
<1>1. ClientInv => TypeOK
  BY DEF ClientInv
<1>2. QED
  BY <1>1, ClientInductive, PTL

(* From connectToServer on one attempt, connection or close is under way   *)
(* or the timer runs, never two: connect_ is never used twice.             *)
THEOREM OnlyOneAttempt == Spec => []OneAttempt
<1>1. ASSUME ClientInv
      PROVE  OneAttempt
  <2>1. \A h \in Handle : h # socket_ => h \notin Busy
    BY <1>1 DEF ClientInv, OthersDone, Busy
  <2>2. socket_ \in Busy <=> started /\ timers = 0
    BY <1>1 DEF ClientInv, TypeOK, SocketReady, Busy
  <2>3. Busy \subseteq Handle /\ socket_ \in Handle
    BY <1>1 DEF ClientInv, TypeOK, Busy
  <2>4. CASE started /\ timers = 0
    <3>1. Busy = {socket_}
      BY <2>1, <2>2, <2>3, <2>4
    <3>2. QED
      BY <2>3, <2>4, <3>1 DEF OneAttempt
  <2>5. CASE ~(started /\ timers = 0)
    <3>1. Busy = {}
      BY <2>1, <2>2, <2>3, <2>5
    <3>2. QED
      BY <2>5, <3>1 DEF OneAttempt
  <2>6. QED
    BY <2>4, <2>5
<1>2. QED
  BY <1>1, ClientInductive, PTL

(* Every uv_tcp_t that libuv still knows is reachable from TcpClient, so   *)
(* no shared_ptr has freed it.                                             *)
THEOREM NoHandleLost == Spec => []HandlesOwned
<1>1. ClientInv => HandlesOwned
  BY DEF ClientInv, OthersDone, HandlesOwned
<1>2. QED
  BY <1>1, ClientInductive, PTL

(* What TcpClient::write sees of a connection that is not open is          *)
(* connected_ = false.                                                     *)
THEOREM WritesReachOpen == Spec => []WritesOnOpen
<1>1. ClientInv => WritesOnOpen
  BY DEF ClientInv, TypeOK, ConnectionMade, WritesOnOpen
<1>2. QED
  BY <1>1, ClientInductive, PTL

=============================================================================
