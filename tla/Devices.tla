------------------------------- MODULE Devices ------------------------------
(***************************************************************************)
(* The BBU's clients: hub (hub.cpp), RRU (rru.cpp) and the operator's      *)
(* command line (oam_adapter.cpp, oam/main.cpp).  Each is a TcpClient on a *)
(* loop of its own that answers the packets it reads, in order; a handler  *)
(* that blocks (the RRU's sleep, the hub's download) blocks the loop, so   *)
(* it is still one step.                                                   *)
(***************************************************************************)
EXTENDS Network

VARIABLE rebooting    \* the hubs whose board is about to go down

(* The next packet of device d, answered with pkts.                        *)
Answer(d, id, pkts) ==
  LET c == peer[d] IN
    /\ c # None
    /\ toDev[c] # <<>>
    /\ Head(toDev[c]).id = id
    /\ toDev' = [toDev EXCEPT ![c] = Tail(@)]
    /\ toBBU' = FromDevice(c, pkts)
    /\ UNCHANGED <<link, peer>>

(***************************************************************************)
(* Hub.                                                                    *)
(***************************************************************************)

(* A slip: the result is read and nothing is measured.                     *)
HubSilent(h) == Answer(h, "CONNECT_RESULT", <<>>)

(* ConnectResultProcess: report every port's delays.                       *)
HubConnectResult(h) ==
  \E m \in Measurement :
     Answer(h, "CONNECT_RESULT",
            <<[id |-> "DELAY_MEASUREMENT", dev |-> h, delays |-> m]>>)

(* UpdataDelay: measure again and report.                                  *)
UpdataDelay(h) ==
  \E m \in Measurement :
     Answer(h, "UPDATE_DELAY",
            <<[id |-> "UPDATE_DELAY", dev |-> h, delays |-> m]>>)

(* UpgradeProcess: the download fails (4), the upgrade command fails (5),  *)
(* the reboot command fails (nothing is sent) ...                          *)
HubUpgradeFails(h) ==
  \/ \E errorno \in {4, 5} :
        Answer(h, "UPGRADE",
               <<[id |-> "UPGRADE_RESULT", dev |-> h, ResultID |-> errorno]>>)
  \/ "rebootFails" \in Faults /\ Answer(h, "UPGRADE", <<>>)

(* ... or it is accepted: /sbin/reboot returns at once, and the loop goes  *)
(* on serving packets until the board goes down.                           *)
HubReboots(h) ==
  /\ Answer(h, "UPGRADE", <<>>)
  /\ rebooting' = rebooting \cup {h}

(* The board goes down, at any time after that, and its socket closes.     *)
GoesDown(h) ==
  /\ h \in rebooting
  /\ rebooting' = rebooting \ {h}
  /\ IF peer[h] = None THEN UNCHANGED netVars
     ELSE Drop(h, Append(toBBU[peer[h]], EOF))

(* An operator's request for an RRU may name a hub's route: dropped.       *)
HubIgnores(h) == Answer(h, "RFTX_STATUS", <<>>)

HubStep(h) ==
  \/ /\ \/ HubConnectResult(h)
        \/ UpdataDelay(h)
        \/ HubUpgradeFails(h)
        \/ HubIgnores(h)
     /\ UNCHANGED rebooting
  \/ HubReboots(h)

(***************************************************************************)
(* RRU.                                                                    *)
(***************************************************************************)

(* A slip: the result is read and nothing is reported.                     *)
RruSilent(r) == Answer(r, "CONNECT_RESULT", <<>>)

(* ConnectResultProcess: half a second of sleep, then its own delays.      *)
RruConnectResult(r) ==
  Answer(r, "CONNECT_RESULT",
         <<[id |-> "DELAY_MEASUREMENT", dev |-> r, delays |-> RruDelay[r]]>>)

(* ProcessRecvMessage has no other case: the packet is dropped.            *)
RruIgnores(r) ==
  \E id \in {"COMPENSATION", "UPGRADE", "RFTX_STATUS"} : Answer(r, id, <<>>)

RruStep(r) == RruConnectResult(r) \/ RruIgnores(r)

(***************************************************************************)
(* OAM.                                                                    *)
(***************************************************************************)

(* Replies are printed.  (The printing indexes the second part of a field  *)
(* that may have one, oam_adapter.cpp:193-201: what it prints then is      *)
(* undefined, and nothing else is touched.)                                *)
OamPrints(o) ==
  \E id \in {"CONNECT_RESULT", "TOPOLOGY"} : Answer(o, id, <<>>)

Request(routes) ==
  [id : {"UPGRADE"}, to : {"HUB", "RRU"}, route : routes]
    \cup [id : {"RFTX_STATUS"}, to : {"RRU"}, route : routes]
    \cup [id : {"GET_TOPOLOGY"}]

(* CliProcess: one request of the operator, with or without a routeIndex.  *)
OamRequest(o, routes) ==
  /\ peer[o] # None
  /\ Quiet
  /\ \E p \in Request(routes) : toBBU' = FromDevice(peer[o], <<p>>)
  /\ UNCHANGED <<link, peer, toDev>>

=============================================================================
