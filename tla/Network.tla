------------------------------ MODULE Network -------------------------------
(***************************************************************************)
(* TCP between the devices and the BBU: for every ip:port name a byte      *)
(* stream each way, here a sequence of packets (PacketFraming models how   *)
(* the bytes become packets), and the two ends' view of the connection.    *)
(*                                                                         *)
(* A device can leave so that the BBU hears of it (its process ends and    *)
(* the kernel sends a FIN) or silently (it loses power).  The server runs  *)
(* without its timer wheel (bbu/main.cpp leaves setTimeout commented out), *)
(* so a silent loss is seen only when something written to the connection  *)
(* fails.                                                                  *)
(***************************************************************************)
EXTENDS Topology, FiniteSetsExt

VARIABLES
  link,     \* the server's end of each name
  peer,     \* the connection each device holds, or None
  toBBU,    \* packets on their way to the BBU, per name
  toDev     \* packets on their way to the device, per name

netVars == <<link, peer, toBBU, toDev>>

CONSTANTS
  MaxQueue, \* a device starts something new only while fewer packets travel
  Faults    \* the faults a run includes

(* "backlog"  the handshake is done, onAccept has not run                  *)
(* "open"     TcpConnection exists and connected_ is true                  *)
(* "closing"  connected_ is false, the close callbacks have not run        *)
(* "lost"     the BBU restarted and the device has not noticed             *)
LinkState == {"free", "backlog", "open", "closing", "lost"}

Fault == {"exit", "powerLoss", "bbuRestart", "rebootFails"}

NetworkAssumption == MaxQueue \in Nat /\ Faults \subseteq Fault

ASSUME NetworkAssumption

NetInit ==
  /\ link = [c \in Conn |-> "free"]
  /\ peer = [d \in Device |-> None]
  /\ toBBU = [c \in Conn |-> <<>>]
  /\ toDev = [c \in Conn |-> <<>>]

Alive(c) == \E d \in Device : peer[d] = c

Travelling == MapThenSumSet(LAMBDA c : Len(toBBU[c]) + Len(toDev[c]), Conn)

Quiet == Travelling < MaxQueue

(* The end of a device's stream, read after its last packet.               *)
EOF == [id |-> "EOF"]

(* What a device writes on its connection: nothing arrives once the server *)
(* has gone.                                                               *)
FromDevice(c, pkts) ==
  IF link[c] \in {"backlog", "open"} THEN [toBBU EXCEPT ![c] = @ \o pkts]
  ELSE toBBU

(* What the server's handlers write, pkts[c] to each connection c.         *)
(* TcpConnection::write drops everything when connected_ is false; what is *)
(* written to a device that has gone stays unacknowledged in the kernel,   *)
(* and only that it is there matters.                                      *)
ToDevices(pkts) ==
  [c \in Conn |->
     IF link[c] # "open" THEN toDev[c]
     ELSE IF Alive(c) \/ toDev[c] = <<>> THEN toDev[c] \o pkts[c]
     ELSE toDev[c]]

NoPackets == [c \in Conn |-> <<>>]

OnePacket(c, p) == [NoPackets EXCEPT ![c] = <<p>>]

(***************************************************************************)
(* The device's end.                                                       *)
(***************************************************************************)

(* A slip: the device reports before it has said who it is.                *)
ReportsUnannounced(d) == <<[id |-> "UPGRADE_RESULT", dev |-> d, ResultID |-> 0]>>

SendConnectMessage(d) == <<[id |-> "CONNECT", dev |-> d, ResultID |-> 0]>>

(* connect() succeeds and onConnect calls SendConnectMessage at once.      *)
Connect(d, c) ==
  /\ peer[d] = None
  /\ link[c] = "free"
  /\ Quiet
  /\ peer' = [peer EXCEPT ![d] = c]
  /\ link' = [link EXCEPT ![c] = "backlog"]
  /\ toBBU' = [toBBU EXCEPT ![c] = SendConnectMessage(d)]
  /\ UNCHANGED toDev

(* The device's end of connection c disappears; the stream to the BBU then *)
(* reads rest.                                                             *)
Drop(d, rest) ==
  LET c == peer[d] IN
    /\ peer' = [peer EXCEPT ![d] = None]
    /\ toDev' = [toDev EXCEPT ![c] = <<>>]
    /\ IF link[c] = "lost"
         THEN /\ link' = [link EXCEPT ![c] = "free"]
              /\ UNCHANGED toBBU
         ELSE /\ toBBU' = [toBBU EXCEPT ![c] = rest]
              /\ UNCHANGED link

(* The process ends, or the device reboots: the kernel closes the socket.  *)
Exit(d) ==
  /\ "exit" \in Faults
  /\ peer[d] # None
  /\ Drop(d, Append(toBBU[peer[d]], EOF))

(* The device loses power: what its kernel had not sent is lost too.       *)
PowerLoss(d) ==
  /\ "powerLoss" \in Faults
  /\ peer[d] # None
  /\ \E n \in 0 .. Len(toBBU[peer[d]]) : Drop(d, SubSeq(toBBU[peer[d]], 1, n))

(* TcpClient::onConnectClose: the device learns that the BBU restarted; it *)
(* will connect again (TcpClient::onConnectClose, reConnect).              *)
NoticeLoss(d) ==
  /\ peer[d] # None
  /\ link[peer[d]] = "lost"
  /\ Drop(d, <<>>)

=============================================================================
