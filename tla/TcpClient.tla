------------------------------ MODULE TcpClient ------------------------------
(***************************************************************************)
(* A device's side of its connection: TcpClient, its TcpConnection and the *)
(* reconnect timer of the programs that derive from it.  A uv_tcp_t is     *)
(* shared by TcpClient (socket_) and by the TcpConnection made for it      *)
(* (connection_); it is freed when neither has it any more, and libuv must *)
(* have called back for its uv_close by then.                              *)
(***************************************************************************)
EXTENDS Naturals

CONSTANTS
  Handle,      \* memory for uv_tcp_t's
  MaxFaults    \* exits of the BBU, cuts of the network (a bound)

NoConnection == "nullptr"

ClientAssumption == NoConnection \notin Handle /\ MaxFaults \in Nat

ASSUME ClientAssumption

VARIABLES
  started,       \* connectToServer was called
  handle,        \* what libuv knows of each uv_tcp_t
  socket_,
  connection_,   \* the handle of the TcpConnection; it is never reset
  connected_,    \* of that TcpConnection
  timers,        \* reconnect timers that have been started
  network,       \* what a connect meets
  link,          \* what the connection meets
  faults

client == <<started, handle, socket_, connection_, connected_, timers>>
world == <<network, link, faults>>
vars == <<client, world>>

(* "failed": uv_tcp_connect returned an error; "refused": it will call     *)
(* back with one; "eof": uv_shutdown has been called.                      *)
HandleState ==
  {"free", "idle", "failed", "connecting", "refused", "open", "eof", "closing",
   "closed"}

(* update makes the first socket_, in the constructor.                     *)
Init ==
  /\ started = FALSE
  /\ socket_ \in Handle
  /\ handle = [h \in Handle |-> IF h = socket_ THEN "idle" ELSE "free"]
  /\ connection_ = NoConnection
  /\ connected_ = FALSE
  /\ timers = 0
  /\ network \in {"up", "refusing", "unreachable"}
  /\ link = "none"
  /\ faults = 0

(***************************************************************************)
(* Connecting.                                                             *)
(***************************************************************************)
(* What uv_tcp_connect returns is not looked at.  With no route it returns *)
(* an error and calls nothing back.                                        *)
connect ==
  handle' = [handle EXCEPT ![socket_] =
    CASE network = "up" -> "connecting"
      [] network = "refusing" -> "refused"
      [] network = "unreachable" -> "failed"]

connectToServer ==
  /\ ~started
  /\ started' = TRUE
  /\ connect
  /\ UNCHANGED <<socket_, connection_, connected_, timers, world>>

(* A slip: the timer goes on.                                              *)
reConnectAgain ==
  /\ timers > 0
  /\ connect
  /\ UNCHANGED <<started, socket_, connection_, connected_, timers, world>>

(* reConnect's timer, which closes itself.                                 *)
reConnect ==
  /\ timers > 0
  /\ timers' = timers - 1
  /\ connect
  /\ UNCHANGED <<started, socket_, connection_, connected_, world>>

(* The TcpConnection of before goes, and the handle it had.                *)
Release(h) == [handle EXCEPT ![h] = "free"]

onConnect ==
  /\ handle[socket_] = "connecting" /\ network = "up"
  /\ handle' = [IF connection_ = NoConnection THEN handle
                ELSE Release(connection_) EXCEPT ![socket_] = "open"]
  /\ connection_' = socket_
  /\ connected_' = TRUE
  /\ link' = "ok"
  /\ UNCHANGED <<started, socket_, timers, network, faults>>

(* It takes another socket_ at once.                                       *)
update(h) ==
  /\ h \notin {socket_, connection_}
  /\ handle[h] = "free"
  /\ socket_' = h

ConnectMayFail ==
  \/ handle[socket_] = "refused"
  \/ handle[socket_] = "connecting" /\ network # "up"

(* Slips: the timer is started before the close is complete; the next      *)
(* socket is made before.                                                  *)
FailAndRetry ==
  /\ ConnectMayFail
  /\ handle' = [handle EXCEPT ![socket_] = "closing"]
  /\ timers' = timers + 1
  /\ UNCHANGED <<started, socket_, connection_, connected_, world>>

FailAndUpdate ==
  /\ ConnectMayFail
  /\ \E h \in Handle :
        /\ update(h)
        /\ handle' = [handle EXCEPT ![socket_] = "closing", ![h] = "idle"]
  /\ timers' = timers + 1
  /\ UNCHANGED <<started, connection_, connected_, world>>

(* onConnect(false).                                                       *)
ConnectFails ==
  /\ ConnectMayFail
  /\ handle' = [handle EXCEPT ![socket_] = "closing"]
  /\ UNCHANGED <<started, socket_, connection_, connected_, timers, world>>

(* The closed socket_ was nobody else's and is freed.                      *)
afterConnectFail ==
  /\ handle[socket_] = "closing" /\ socket_ # connection_
  /\ \E h \in Handle :
        /\ update(h)
        /\ handle' = [Release(socket_) EXCEPT ![h] = "idle"]
  /\ timers' = timers + 1
  /\ UNCHANGED <<started, connection_, connected_, world>>

(***************************************************************************)
(* The connection.                                                         *)
(***************************************************************************)
(* A slip: the connection still counts as connected.                       *)
ReadErrorStaysConnected ==
  /\ handle[socket_] = "open" /\ link = "rst"
  /\ handle' = [handle EXCEPT ![socket_] = "closing"]
  /\ UNCHANGED <<started, socket_, connection_, connected_, timers, world>>

onReadError ==
  /\ handle[socket_] = "open" /\ link = "rst"
  /\ connected_' = FALSE
  /\ handle' = [handle EXCEPT ![socket_] = "closing"]
  /\ UNCHANGED <<started, socket_, connection_, timers, world>>

onEof ==
  /\ handle[socket_] = "open" /\ link = "fin"
  /\ connected_' = FALSE
  /\ handle' = [handle EXCEPT ![socket_] = "eof"]
  /\ UNCHANGED <<started, socket_, connection_, timers, world>>

onShutdown ==
  /\ handle[socket_] = "eof"
  /\ handle' = [handle EXCEPT ![socket_] = "closing"]
  /\ UNCHANGED <<started, socket_, connection_, connected_, timers, world>>

(* A slip: the lost connection starts no timer.                            *)
CloseForGood ==
  /\ handle[socket_] = "closing" /\ socket_ = connection_
  /\ \E h \in Handle :
        /\ update(h)
        /\ handle' = [handle EXCEPT ![socket_] = "closed", ![h] = "idle"]
  /\ UNCHANGED <<started, connection_, connected_, timers, world>>

(* connection_ keeps the closed handle.                                    *)
onClose ==
  /\ handle[socket_] = "closing" /\ socket_ = connection_
  /\ \E h \in Handle :
        /\ update(h)
        /\ handle' = [handle EXCEPT ![socket_] = "closed", ![h] = "idle"]
  /\ timers' = timers + 1
  /\ UNCHANGED <<started, connection_, connected_, world>>

(***************************************************************************)
(* The BBU and the network.                                                *)
(***************************************************************************)
Fault == faults < MaxFaults /\ faults' = faults + 1

(* The BBU closes the connection, with its last bytes read or not.         *)
PeerCloses ==
  /\ Fault
  /\ link = "ok"
  /\ link' \in {"fin", "rst"}
  /\ UNCHANGED <<client, network>>

BbuExits ==
  /\ Fault
  /\ network = "up"
  /\ network' = "refusing"
  /\ link' \in IF link = "ok" THEN {"fin", "rst"} ELSE {link}
  /\ UNCHANGED client

(* The interface loses its address.                                        *)
LinkDown ==
  /\ Fault
  /\ network # "unreachable"
  /\ network' = "unreachable"
  /\ link' = IF link = "ok" THEN "silent" ELSE link
  /\ UNCHANGED client

(* A connection over which nothing is sent may not notice that the BBU     *)
(* was gone meanwhile.                                                     *)
Back ==
  /\ network # "up"
  /\ network' = "up"
  /\ link' \in IF link = "silent" THEN {"ok", "rst", "silent"} ELSE {link}
  /\ UNCHANGED <<client, faults>>

Next ==
  \/ connectToServer \/ reConnect \/ onConnect \/ ConnectFails
  \/ afterConnectFail \/ onReadError \/ onEof \/ onShutdown \/ onClose
  \/ PeerCloses \/ BbuExits \/ LinkDown \/ Back

Spec == Init /\ [][Next]_vars

(* The loop runs the callbacks and the timer.  Nothing makes the network   *)
(* come back.                                                              *)
FairSpec ==
  /\ Spec
  /\ WF_vars(connectToServer) /\ WF_vars(reConnect)
  /\ WF_vars(onConnect) /\ WF_vars(ConnectFails) /\ WF_vars(afterConnectFail)
  /\ WF_vars(onReadError) /\ WF_vars(onEof) /\ WF_vars(onShutdown)
  /\ WF_vars(onClose)

(***************************************************************************)
(* Properties.                                                             *)
(***************************************************************************)
TypeOK ==
  /\ started \in BOOLEAN
  /\ handle \in [Handle -> HandleState]
  /\ socket_ \in Handle
  /\ connection_ \in Handle \cup {NoConnection}
  /\ connected_ \in BOOLEAN
  /\ timers \in {0, 1}
  /\ network \in {"up", "refusing", "unreachable"}
  /\ link \in {"none", "ok", "fin", "rst", "silent"}
  /\ faults \in 0 .. MaxFaults

Busy == {h \in Handle : handle[h] \notin {"free", "idle", "closed"}}

(* There is one connect request for all attempts (connect_), and one       *)
(* callback for all closes: from connectToServer on, exactly one thing is  *)
(* under way, the timer or one handle, so that neither is used twice.      *)
OneAttempt ==
  IF started /\ timers = 0 THEN \E h \in Handle : Busy = {h} ELSE Busy = {}

(* No uv_tcp_t is freed while libuv knows it: what is not closed is        *)
(* socket_'s or the connection's, although both are replaced all the time. *)
HandlesOwned ==
  \A h \in Handle :
     handle[h] \notin {"free", "closed"} => h \in {socket_, connection_}

(* connection_ is not reset when the connection is lost: a write to it     *)
(* meanwhile finds connected_ false, never a handle that is not open.      *)
WritesOnOpen ==
  connected_ => connection_ \in Handle /\ handle[connection_] = "open"

(* When the network stays up the device gets back to the BBU, unless its   *)
(* connection is dead and nobody says so, or a connect has returned an     *)
(* error.                                                                  *)
ReconnectsUnlessFailed ==
  <>[](network = "up") =>
    []<>(connected_ \/ link = "silent" \/ handle[socket_] = "failed")

(* B4860-V7/Task.md:111, "a hub that loses its connection now reconnects   *)
(* 500 ms later" (V8's hub has the same timer): once connected, a device   *)
(* whose network stays up gets back to the BBU.                            *)
Reconnects ==
  <>[](network = "up") /\ <>(connection_ # NoConnection) =>
    []<>(connected_ \/ link = "silent")

=============================================================================
