-------------------------------- MODULE B4860 -------------------------------
(***************************************************************************)
(* The whole site: the BBU server and its hubs, RRUs and operators.        *)
(***************************************************************************)
EXTENDS BBU, Devices

CONSTANT MaxTotals    \* no device connects while tVectorUL is longer (a bound)

TotalsAssumption == MaxTotals \in Nat

ASSUME TotalsAssumption

vars == <<netVars, rebooting, bbuVars>>

Init == NetInit /\ rebooting = {} /\ BBUInit

(* Routes an operator can name: what get_topo shows, or none at all.       *)
KnownRoutes == {<<>>} \cup {connectionInfo_[c].routeIndex : c \in Registered}

BBUStep(c) ==
  /\ \/ OnAccept(c)
     \/ OnMessage(c)
     \/ OnEof(c)
     \/ OnReadError(c)
     \/ CloseConnection(c)
  /\ UNCHANGED rebooting

DeviceStep(d) ==
  /\ \/ d \in Hub /\ HubStep(d)
     \/ /\ \/ d \in Rru /\ RruStep(d)
           \/ d \in Oam /\ OamPrints(d)
           \/ NoticeLoss(d)
        /\ UNCHANGED rebooting
  /\ UNCHANGED bbuVars

(* What nobody promises to do.  The program of a hub whose board is about  *)
(* to reboot is not started again before that: its end is the reboot.      *)
Environment ==
  \/ Restart /\ UNCHANGED rebooting
  \/ /\ \E d \in Device :
           \/ /\ \/ /\ Len(tVectorUL) <= MaxTotals
                    /\ \E c \in Conn : Connect(d, c)
                 \/ d \in Oam /\ OamRequest(d, KnownRoutes)
              /\ UNCHANGED rebooting
           \/ /\ Exit(d) \/ PowerLoss(d)
              /\ rebooting' = rebooting \ {d}
           \/ GoesDown(d)
     /\ UNCHANGED bbuVars

Next ==
  \/ \E c \in Conn : BBUStep(c)
  \/ \E d \in Device : DeviceStep(d)
  \/ Environment

Spec == Init /\ [][Next]_vars

(* libuv serves every ready descriptor in turn, so each connection's       *)
(* events are handled some day, and each client reads what arrives.        *)
Fairness ==
  /\ \A c \in Conn : WF_vars(BBUStep(c))
  /\ \A d \in Device : WF_vars(DeviceStep(d))

FairSpec == Spec /\ Fairness

(***************************************************************************)
(* Types.                                                                  *)
(***************************************************************************)
Route == Seq(Nat \X Nat)
DeviceInfo == [dev : Device \cup {NoDevice}, routeIndex : Route,
               upgradeState : UpgradeState \cup {Indeterminate},
               rruDelayInfo : [T2a : Nat, Ta3 : Nat]]
TotalDelay == [route : Route, total : Int]

(* What a device can have written.                                         *)
PacketToBBU ==
  [id : {"CONNECT", "UPGRADE_RESULT"}, dev : Device, ResultID : UpgradeState]
    \cup [id : {"DELAY_MEASUREMENT", "UPDATE_DELAY"}, dev : Hub,
          delays : Measurement]
    \cup [id : {"DELAY_MEASUREMENT"}, dev : Rru, delays : [T2a : Nat, Ta3 : Nat]]
    \cup Request(Route)
    \cup {EOF}

(* What the network and the BBU keep.                                      *)
StateOK ==
  /\ link \in [Conn -> LinkState]
  /\ peer \in [Device -> Conn \cup {None}]
  /\ toBBU \in [Conn -> Seq(PacketToBBU)]
  /\ DOMAIN toDev = Conn
  /\ Registered = {c \in Conn : link[c] \in {"open", "closing"}}
  /\ \A c \in Registered : connectionInfo_[c] \in DeviceInfo
  /\ \A k \in DOMAIN delay_map : delay_map[k] \in Nat
  /\ m_base \in Nat
  /\ tVectorDL \in Seq(TotalDelay)
  /\ tVectorUL \in Seq(TotalDelay)
  /\ DOMAIN compensation = Conn

(* Every variable keeps its type, and the registry names exactly the       *)
(* connections the server has accepted and not yet closed.                 *)
TypeOK == StateOK /\ rebooting \subseteq Hub

(***************************************************************************)
(* The hubs' delays.                                                       *)
(***************************************************************************)
KeysAt(level) == {k \in DOMAIN delay_map : k[1] = level}

(* Delays are kept for a level only while a hub of that level is           *)
(* registered: closeConnection deletes them, and no packet of a closed     *)
(* connection is handled after that.                                       *)
DelaysHaveHub ==
  \A k \in DOMAIN delay_map :
     \E c \in WithSource(connectionInfo_, "HUB") : Hop[connectionInfo_[c].dev] = k[1]

(* What delay_map holds for a level is one measurement, whole: map.insert  *)
(* never mixes a new report with what an older one left, and no port is    *)
(* ever half deleted.                                                      *)
OneMeasurementPerLevel ==
  \A level \in {k[1] : k \in DOMAIN delay_map} :
     \E m \in Measurement :
        /\ {<<k[2], k[3]>> : k \in KeysAt(level)} = DOMAIN m
        /\ \A k \in KeysAt(level) : delay_map[k] = m[<<k[2], k[3]>>]

(***************************************************************************)
(* The RRUs' total delays.                                                 *)
(***************************************************************************)
LongestFirstIn(v) == \A i, j \in DOMAIN v : i < j => v[i].total >= v[j].total

OncePerRoute(v) == \A i, j \in DOMAIN v : v[i].route = v[j].route => i = j

Routes(v) == {v[i].route : i \in DOMAIN v}

(* begin() of either table is its maximum, which is what the compensation  *)
(* is computed from: insertions sort, deletions keep the order.            *)
LongestFirst == LongestFirstIn(tVectorDL) /\ LongestFirstIn(tVectorUL)

(* A route has at most one downlink total, whichever connections reported  *)
(* it and in whatever order they close.                                    *)
OneDownlinkTotal == OncePerRoute(tVectorDL)

(* An RRU that counts for the downlink counts for the uplink too, although *)
(* the code clears the two tables differently.                             *)
UplinkCoversDownlink == Routes(tVectorDL) \subseteq Routes(tVectorUL)

(* An answered RRU is aligned with the longest link: its own total and the *)
(* compensation sent reach the largest total, and it is never asked to     *)
(* shorten its link.                                                       *)
AlignedBy(v, r, comp) ==
  /\ comp >= 0
  /\ \E i \in DOMAIN v : v[i].route = r /\ v[i].total + comp = v[1].total
  /\ \A i \in DOMAIN v : v[i].total <= v[1].total

AnswersAlign ==
  [][\A c \in Conn :
       compensation'[c] # compensation[c] /\ compensation'[c].sent = "numbers"
         => LET r == connectionInfo_'[c].routeIndex
            IN  /\ AlignedBy(tVectorDL', r, compensation'[c].dl)
                /\ AlignedBy(tVectorUL', r, compensation'[c].ul)]_vars

(***************************************************************************)
(* The protocol.                                                           *)
(***************************************************************************)

(* A packet's handler finds the device's fields in cInfo_.  On a           *)
(* measurement CreateRouteIndex and FindUpHubDeviceInfo convert s_hop with *)
(* stoi, which throws on the empty string of a connection whose CONNECT    *)
(* has not been handled: such a connection is given no other packet.       *)
KnownBeforeUse ==
  \A c \in Conn :
     link[c] = "open" /\ toBBU[c] # <<>> /\ connectionInfo_[c].dev = NoDevice
       => Head(toBBU[c]).id \in {"CONNECT", "EOF"}

(* A route index that is set starts with the device's own ports and has an *)
(* element for every level up to the BBU.                                  *)
RouteIndexShape ==
  \A c \in Registered :
     LET r == connectionInfo_[c].routeIndex
         d == connectionInfo_[c].dev
     IN  r # <<>> => Len(r) = Hop[d] /\ r[1] = <<Port[d], UPort[d]>>

(* A registered hub shown as upgrading is: the request or its result is on *)
(* its way, or the hub is about to reboot, or it has gone (and will        *)
(* connect again with 0).                                                  *)
UpgradingIsPending ==
  \A c \in WithSource(connectionInfo_, "HUB") :
     connectionInfo_[c].upgradeState = 3
       => \/ link[c] = "closing"
          \/ ~ Alive(c)
          \/ \E h \in rebooting : peer[h] = c
          \/ \E i \in DOMAIN toDev[c] : toDev[c][i].id = "UPGRADE"
          \/ \E i \in DOMAIN toBBU[c] : toBBU[c][i].id = "UPGRADE_RESULT"

(***************************************************************************)
(* Liveness, under FairSpec.                                               *)
(***************************************************************************)
Stays(d) == peer[d] # None /\ link[peer[d]] # "lost"

Arrives(d) == peer[d] # None /\ link[peer[d]] = "backlog"

(* A first-level hub that connects and stays is measured.                  *)
HubsMeasured ==
  \A h \in {x \in Hub : Hop[x] = 1} :
     Arrives(h) ~> (~ Stays(h) \/ KeysAt(1) # {})

UpstreamMissing(d) ==
  \E level \in 1 .. Hop[d] - 1 : AtHop(connectionInfo_, level) = {}

(* An RRU that connects and stays is answered, unless at some moment a     *)
(* level above it is empty (its measurement is then dropped for good).     *)
RrusAnswered ==
  \A r \in Rru :
     Arrives(r) ~> \/ ~ Stays(r)
                   \/ compensation[peer[r]].sent # "nothing"
                   \/ peer[r] \in Registered /\ UpstreamMissing(r)

(* The end of a device's stream ends its registration.                     *)
DeparturesNoticed ==
  \A c \in Conn :
     (\E i \in DOMAIN toBBU[c] : toBBU[c][i] = EOF) ~> link[c] = "free"

(***************************************************************************)
(* What the documents say and the code does not do.                        *)
(***************************************************************************)

(* Task.md:56, "when an rru goes offline its maximum delay data is         *)
(* cleared", of the uplink alone: an RRU that has gone and whose downlink  *)
(* total is cleared has no uplink total left either.                       *)
OfflineUplinkCleared ==
  \A route \in Routes(tVectorUL) \ Routes(tVectorDL) :
     \E c \in WithSource(connectionInfo_, "RRU") :
        connectionInfo_[c].routeIndex = route

(* Task.md:35, a hub that goes offline takes its own delays: those of a    *)
(* hub that is connected and was measured stay.                            *)
ConnectedHubKeepsDelays ==
  \A c \in WithSource(connectionInfo_, "HUB") :
     Alive(c) /\ link[c] = "open" /\ connectionInfo_[c].routeIndex # <<>>
       => KeysAt(Hop[connectionInfo_[c].dev]) # {}

=============================================================================
