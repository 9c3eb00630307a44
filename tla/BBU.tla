-------------------------------- MODULE BBU ---------------------------------
(***************************************************************************)
(* The BBU server: the registry of its connections, the hubs' measured     *)
(* delays, the RRUs' total delays, and one action per packet it handles    *)
(* and per connection event (TcpServer.cpp, bbu.cpp).  The server is one   *)
(* libuv loop, so every handler runs to its end before the next.           *)
(***************************************************************************)
EXTENDS Network, SequencesExt

VARIABLES
  connectionInfo_,    \* name -> DeviceInfo, for the names registered
  delay_map,          \* <<hop, kind, port>> -> delay, hubs' measurements
  m_base,             \* ports of the last measurement split, 0 at the start
  tVectorDL, tVectorUL,  \* [route, total] of the RRUs, longest first
  compensation        \* history: the last answer to an RRU's measurement

dataVars == <<delay_map, m_base, tVectorDL, tVectorUL>>
bbuVars == <<connectionInfo_, dataVars, compensation>>

CONSTANTS
  RRUToffset,         \* the RRU's inner delay in T14
  T12                 \* BBU to first hub, a constant of bbu.h

NoDevice == "no device"

BBUAssumption ==
  /\ RRUToffset \in Nat
  /\ T12 \in Nat
  /\ NoDevice \notin Device
  /\ \A m \in Measurement : \A p \in 1 .. Ports(m) : m[<<T14, p>>] >= RRUToffset
ASSUME BBUAssumption

Indeterminate == 0 - 1        \* s_upgradeState of a DeviceInfo nobody set
UpgradeState == {0, 3, 4, 5}  \* ResultID of CONNECT, "3", SendUpgradeFailure
NoDelay == [T2a |-> 0, Ta3 |-> 0]

(* No answer yet, and the answer with empty strings of a calculation that  *)
(* failed.                                                                 *)
Unanswered == [sent |-> "nothing", dl |-> 0, ul |-> 0]
Empty == [sent |-> "empty", dl |-> 0, ul |-> 0]

(* cInfo_: what addConnnection stores before the CONNECT packet.           *)
cInfo_ == [dev |-> NoDevice, routeIndex |-> <<>>,
           upgradeState |-> Indeterminate, rruDelayInfo |-> NoDelay]

Registered == DOMAIN connectionInfo_

BBUInit ==
  /\ connectionInfo_ = <<>>
  /\ delay_map = <<>>
  /\ m_base = 0
  /\ tVectorDL = <<>>
  /\ tVectorUL = <<>>
  /\ compensation = [c \in Conn |-> Unanswered]

(* map.insert, of one entry or of several: what is there stays.            *)
Inserted(map, new) ==
  [k \in DOMAIN map \cup DOMAIN new |-> IF k \in DOMAIN map THEN map[k] ELSE new[k]]

(***************************************************************************)
(* Queries on the registry.  The first match in the order of the names is  *)
(* the one every search loop returns.                                      *)
(***************************************************************************)
Connected(info) == {c \in DOMAIN info : info[c].dev # NoDevice}

WithSource(info, s) == {c \in Connected(info) : Source(info[c].dev) = s}

AtHop(info, level) == {c \in Connected(info) : Hop[info[c].dev] = level}

First(S) == CHOOSE c \in S : \A x \in S : c <= x

FindUpHub(info, c) ==
  AtHop(info, Hop[info[c].dev] - 1) \cap WithSource(info, "HUB")

GetConnectByRouteIndex(r) == {c \in Registered : connectionInfo_[c].routeIndex = r}

(* A slip: the loop over the levels starts one too low.                    *)
CreateRouteIndexShort(info, c) ==
  LET d == info[c].dev
  IN  [i \in 1 .. Hop[d] - 1 |-> <<Port[d], UPort[d]>>]

(* The route is empty (code: "") unless every level below has some device. *)
CreateRouteIndex(info, c) ==
  LET d == info[c].dev
      PortPair(e) == <<Port[e], UPort[e]>>
      Next(level) == info[First(AtHop(info, level))].dev
  IN  IF Hop[d] >= 1 /\ \A level \in 1 .. Hop[d] - 1 : AtHop(info, level) # {}
        THEN [i \in 1 .. Hop[d] |->
                IF i = 1 THEN PortPair(d) ELSE PortPair(Next(Hop[d] + 1 - i))]
        ELSE <<>>

(***************************************************************************)
(* The hubs' delays.                                                       *)
(***************************************************************************)
Key(hop, kind, port) == <<hop, kind, port>>

(* Every delay of the report is inserted, none overwritten.                *)
SplitStrings2Map(map, hop, m) ==
  Inserted(map, [k \in {Key(hop, x[1], x[2]) : x \in DOMAIN m} |->
                   m[<<k[2], k[3]>>]])

(* Slips: the last port is left out; the T14 values are left out.          *)
DeleteHubDelayButLast(map, hop) ==
  LET gone == {Key(hop, kind, port) : kind \in Kind, port \in 1 .. m_base - 1}
  IN  [k \in DOMAIN map \ gone |-> map[k]]

DeleteHubDelayButT14(map, hop) ==
  LET gone == {Key(hop, kind, port) : kind \in {Up, Down}, port \in 1 .. m_base}
  IN  [k \in DOMAIN map \ gone |-> map[k]]

DeleteHubDelay(map, hop) ==
  LET gone == {Key(hop, kind, port) : kind \in Kind, port \in 1 .. m_base}
  IN  [k \in DOMAIN map \ gone |-> map[k]]

(***************************************************************************)
(* The RRUs' total delays.                                                 *)
(***************************************************************************)

(* Slips: the vector is not sorted again; it is sorted the other way.      *)
AddTotalUnsorted(v, e) == Append(v, e)

AddTotalAscending(v, e) ==
  InsertAt(v, 1 + Cardinality({i \in 1 .. Len(v) : v[i].total <= e.total}), e)

(* sortMapByValue with a map of one entry: append it and sort again.       *)
AddTotal(v, e) ==
  InsertAt(v, 1 + Cardinality({i \in 1 .. Len(v) : v[i].total >= e.total}), e)

(* A slip: the entry is found and kept.                                    *)
KeepRoute(v, r) == v

(* DeleteRRUTotalDelay: the first entry of that route goes.                *)
DeleteRoute(v, r) ==
  LET at == {i \in 1 .. Len(v) : v[i].route = r}
  IN  IF at = {} THEN v ELSE RemoveAt(v, First(at))

DeleteRRUTotalDelay(v, info, c) == DeleteRoute(v, CreateRouteIndex(info, c))

(* The keys CalculationDelayCompensation looks up for a device: its own    *)
(* port of the hub above, the cascade port 1 of every hub below that.      *)
PortAt(d, level) == IF level = Hop[d] - 1 THEN UPort[d] ELSE 1

DelaysKnown(d) ==
  /\ Hop[d] - 1 > 0
  /\ \A level \in 1 .. Hop[d] - 1, kind \in Kind :
        Key(level, kind, PortAt(d, level)) \in DOMAIN delay_map

HubDelay(d, kind, level) ==
  LET value(k) == delay_map[Key(level, k, PortAt(d, level))]
  IN  value(kind) + ((value(T14) - RRUToffset) \div 2)

TotalHubDelay(d, kind) ==
  LET sum[level \in 0 .. Hop[d] - 1] ==
        IF level = 0 THEN 0 ELSE sum[level - 1] + HubDelay(d, kind, level)
  IN  sum[Hop[d] - 1]

TotalDL(d, delay) == T12 + TotalHubDelay(d, Up) + delay.T2a
TotalUL(d, delay) == T12 + TotalHubDelay(d, Down) + delay.Ta3

(***************************************************************************)
(* Handlers.  OnMessage reads the next packet of an open connection.       *)
(***************************************************************************)
Receive(c, id) ==
  /\ link[c] = "open"
  /\ toBBU[c] # <<>>
  /\ Head(toBBU[c]).id = id
  /\ toBBU' = [toBBU EXCEPT ![c] = Tail(@)]

(* TcpServer::onAccept and addConnnection.  The name is not registered: a  *)
(* name is used again only after closeConnection has erased it.            *)
OnAccept(c) ==
  /\ link[c] = "backlog"
  /\ link' = [link EXCEPT ![c] = "open"]
  /\ connectionInfo_' = Inserted(connectionInfo_, [x \in {c} |-> cInfo_])
  /\ UNCHANGED <<peer, toBBU, toDev, dataVars, compensation>>

(* SetConnectionClient.  Every field of the DeviceInfo is replaced; an RRU *)
(* makes its hub measure again; then the result.                           *)
SetConnectionClient(c) ==
  /\ Receive(c, "CONNECT")
  /\ LET p == Head(toBBU[c])
         info == [connectionInfo_ EXCEPT ![c] =
                    [cInfo_ EXCEPT !.dev = p.dev, !.upgradeState = p.ResultID]]
         uphub == FindUpHub(info, c)
         update == IF p.dev \in Rru /\ uphub # {}
                     THEN OnePacket(First(uphub), [id |-> "UPDATE_DELAY"])
                     ELSE NoPackets
     IN  /\ connectionInfo_' = info
         /\ toDev' = ToDevices([update EXCEPT
                       ![c] = Append(@, [id |-> "CONNECT_RESULT"])])
  /\ UNCHANGED <<link, peer, dataVars, compensation>>

(* DelayMeasurementProcess with the packet of a hub: SetDeviceRouteIndex,  *)
(* and when that succeeds HubDelayInfo.                                    *)
HubDelayInfo(c) ==
  /\ Receive(c, "DELAY_MEASUREMENT")
  /\ LET p == Head(toBBU[c])
         r == CreateRouteIndex(connectionInfo_, c)
     IN  /\ p.dev \in Hub
         /\ IF r = <<>> THEN UNCHANGED <<connectionInfo_, delay_map, m_base>>
            ELSE /\ connectionInfo_' = [connectionInfo_ EXCEPT ![c].routeIndex = r]
                 /\ delay_map' = SplitStrings2Map(delay_map, Hop[p.dev], p.delays)
                 /\ m_base' = Ports(p.delays)
  /\ UNCHANGED <<link, peer, toDev, tVectorDL, tVectorUL, compensation>>

(* UpdateHUBDelayInfo: the hub measured again.                             *)
UpdateHUBDelayInfo(c) ==
  /\ Receive(c, "UPDATE_DELAY")
  /\ LET p == Head(toBBU[c])
     IN  /\ delay_map' = SplitStrings2Map(DeleteHubDelay(delay_map, Hop[p.dev]),
                                          Hop[p.dev], p.delays)
         /\ m_base' = Ports(p.delays)
  /\ UNCHANGED <<link, peer, toDev, connectionInfo_, tVectorDL, tVectorUL,
                 compensation>>

(* CalculationDelayCompensation once every delay is found.  The deletion   *)
(* meant for tVectorUL names tVectorDL again (bbu.cpp:842-843).            *)
Calculate(c, r, delay) ==
  LET d == connectionInfo_[c].dev
      totalDL == TotalDL(d, delay)
      totalUL == TotalUL(d, delay)
      cleared == DeleteRRUTotalDelay(
                   DeleteRRUTotalDelay(tVectorDL, connectionInfo_, c),
                   connectionInfo_, c)
  IN  /\ tVectorDL' = AddTotal(cleared, [route |-> r, total |-> totalDL])
      /\ tVectorUL' = AddTotal(tVectorUL, [route |-> r, total |-> totalUL])
      /\ compensation' = [compensation EXCEPT ![c] =
           [sent |-> "numbers",
            dl |-> tVectorDL'[1].total - totalDL,
            ul |-> tVectorUL'[1].total - totalUL]]

(* DelayMeasurementProcess with the packet of an RRU: SetDeviceRouteIndex, *)
(* and when that succeeds RruDelayProcess, which answers even when the     *)
(* calculation failed.                                                     *)
RruDelayProcess(c) ==
  /\ Receive(c, "DELAY_MEASUREMENT")
  /\ LET p == Head(toBBU[c])
         r == CreateRouteIndex(connectionInfo_, c)
     IN  /\ p.dev \in Rru
         /\ IF r = <<>>
            THEN UNCHANGED <<connectionInfo_, toDev, tVectorDL, tVectorUL,
                             compensation>>
            ELSE /\ connectionInfo_' = [connectionInfo_ EXCEPT
                       ![c].routeIndex = r, ![c].rruDelayInfo = p.delays]
                 /\ toDev' = ToDevices(OnePacket(c, [id |-> "COMPENSATION"]))
                 /\ IF DelaysKnown(connectionInfo_[c].dev)
                    THEN Calculate(c, r, p.delays)
                    ELSE /\ compensation' = [compensation EXCEPT ![c] = Empty]
                         /\ UNCHANGED <<tVectorDL, tVectorUL>>
  /\ UNCHANGED <<link, peer, delay_map, m_base>>

(* A slip: the result is read and not stored.                              *)
IgnoreUpgradeResult(c) ==
  /\ Receive(c, "UPGRADE_RESULT")
  /\ UNCHANGED <<link, peer, toDev, bbuVars>>

(* UpgradeResultProcess: a device's ResultID.                              *)
UpgradeResultProcess(c) ==
  /\ Receive(c, "UPGRADE_RESULT")
  /\ connectionInfo_' = [connectionInfo_ EXCEPT
                           ![c].upgradeState = Head(toBBU[c]).ResultID]
  /\ UNCHANGED <<link, peer, toDev, dataVars, compensation>>

(* The connections an operator's request names: all of one kind without a  *)
(* routeIndex, else the first with that route, whatever its kind.          *)
Targets(p) ==
  IF p.route = <<>> THEN WithSource(connectionInfo_, p.to)
  ELSE LET at == GetConnectByRouteIndex(p.route)
       IN  IF at = {} THEN {} ELSE {First(at)}

ToTargets(S, id) == [c \in Conn |-> IF c \in S THEN <<[id |-> id]>> ELSE <<>>]

(* HUBUpgradeProcess and RRUUpgradeProcess: mark, then forward.  For RRUs  *)
(* nothing happens unless GetFiles finds exactly two files.                *)
UpgradeProcess(c) ==
  /\ Receive(c, "UPGRADE")
  /\ \E S \in {Targets(Head(toBBU[c]))} \cup
              (IF Head(toBBU[c]).to = "RRU" THEN {{}} ELSE {}) :
        /\ connectionInfo_' = [x \in Registered |->
              IF x \in S THEN [connectionInfo_[x] EXCEPT !.upgradeState = 3]
              ELSE connectionInfo_[x]]
        /\ toDev' = ToDevices(ToTargets(S, "UPGRADE"))
  /\ UNCHANGED <<link, peer, dataVars, compensation>>

(* RRURFTxStatusProcess: forward only.                                     *)
RRURFTxStatusProcess(c) ==
  /\ Receive(c, "RFTX_STATUS")
  /\ toDev' = ToDevices(ToTargets(Targets(Head(toBBU[c])), "RFTX_STATUS"))
  /\ UNCHANGED <<link, peer, connectionInfo_, dataVars, compensation>>

(* NetworkTopologyMessageProcess: a record for every name but the OAMs'.   *)
NetworkTopologyMessageProcess(c) ==
  /\ Receive(c, "GET_TOPOLOGY")
  /\ LET shown == Registered \ WithSource(connectionInfo_, "OAM")
     IN  toDev' = ToDevices(OnePacket(c,
            [id |-> "TOPOLOGY",
             states |-> {connectionInfo_[x].upgradeState : x \in shown}]))
  /\ UNCHANGED <<link, peer, connectionInfo_, dataVars, compensation>>

(* A slip: the end of the stream is read and nothing is shut down.         *)
IgnoreEof(c) ==
  /\ Receive(c, "EOF")
  /\ UNCHANGED <<link, peer, toDev, bbuVars>>

(* TcpConnection::onMesageReceive with an end of file: connected_ is       *)
(* false from here on; the shutdown callback closes the connection later.  *)
OnEof(c) ==
  /\ Receive(c, "EOF")
  /\ link' = [link EXCEPT ![c] = "closing"]
  /\ UNCHANGED <<peer, toDev, bbuVars>>

(* The same with a read error: what was written to a device that is gone   *)
(* was never acknowledged, or was answered by a reset.                     *)
OnReadError(c) ==
  /\ link[c] = "open"
  /\ ~ Alive(c)
  /\ toBBU[c] = <<>>
  /\ toDev[c] # <<>>
  /\ link' = [link EXCEPT ![c] = "closing"]
  /\ UNCHANGED <<peer, toBBU, toDev, bbuVars>>

(* Slips: only one table is cleared; the record of the name is kept.       *)
ForgetUplinkTotal(c) ==
  /\ UNCHANGED tVectorDL
  /\ tVectorUL' = DeleteRRUTotalDelay(tVectorUL, connectionInfo_, c)

KeepRegistered(c) == UNCHANGED connectionInfo_

ForgetTotals(c) ==
  /\ tVectorDL' = DeleteRRUTotalDelay(tVectorDL, connectionInfo_, c)
  /\ tVectorUL' = DeleteRRUTotalDelay(tVectorUL, connectionInfo_, c)

Unregister(c) ==
  connectionInfo_' = [x \in Registered \ {c} |-> connectionInfo_[x]]

(* TcpServer::closeConnection, its callback: what the device contributed   *)
(* goes, then its registration.                                            *)
CloseConnection(c) ==
  /\ link[c] = "closing"
  /\ LET d == connectionInfo_[c].dev IN
       /\ delay_map' = IF d \in Hub THEN DeleteHubDelay(delay_map, Hop[d])
                       ELSE delay_map
       /\ IF d \in Rru THEN ForgetTotals(c)
          ELSE UNCHANGED <<tVectorDL, tVectorUL>>
  /\ Unregister(c)
  /\ compensation' = [compensation EXCEPT ![c] = Unanswered]
  /\ link' = [link EXCEPT ![c] = "free"]
  /\ toBBU' = [toBBU EXCEPT ![c] = <<>>]
  /\ toDev' = [toDev EXCEPT ![c] = <<>>]
  /\ UNCHANGED <<peer, m_base>>

(* The BBU process restarts: it keeps nothing on disk.                     *)
Restart ==
  /\ "bbuRestart" \in Faults
  /\ Registered # {}
  /\ connectionInfo_' = <<>>
  /\ delay_map' = <<>>
  /\ m_base' = 0
  /\ tVectorDL' = <<>>
  /\ tVectorUL' = <<>>
  /\ compensation' = [c \in Conn |-> Unanswered]
  /\ link' = [c \in Conn |-> IF Alive(c) THEN "lost" ELSE "free"]
  /\ toBBU' = [c \in Conn |-> <<>>]
  /\ toDev' = [c \in Conn |-> IF Alive(c) THEN toDev[c] ELSE <<>>]
  /\ UNCHANGED peer

OnMessage(c) ==
  \/ SetConnectionClient(c)
  \/ HubDelayInfo(c)
  \/ UpdateHUBDelayInfo(c)
  \/ RruDelayProcess(c)
  \/ UpgradeResultProcess(c)
  \/ UpgradeProcess(c)
  \/ RRURFTxStatusProcess(c)
  \/ NetworkTopologyMessageProcess(c)

=============================================================================
