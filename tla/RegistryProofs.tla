--------------------------- MODULE RegistryProofs ---------------------------
(***************************************************************************)
(* What the BBU's tables say of the devices, for every site: whose packets *)
(* a connection carries, the shape of the route indexes, the hubs' delays  *)
(* and the upgrade states.                                                 *)
(***************************************************************************)
EXTENDS B4860Proofs

(***************************************************************************)
(* Whose connection it is.                                                 *)
(***************************************************************************)
(* The packets device d can have written.                                  *)
Own(d) ==
  {p \in PacketToBBU :
     /\ p.id \in {"CONNECT", "UPGRADE_RESULT", "DELAY_MEASUREMENT", "UPDATE_DELAY"}
          => p.dev = d
     /\ p.id \in {"CONNECT", "UPGRADE_RESULT"} => p.ResultID # 3}

(* All that is or was on a connection since it was made is one device's.   *)
OwnedBy(c, d) ==
  /\ toBBU[c] \in Seq(Own(d))
  /\ \A e \in Device : peer[e] = c => e = d
  /\ c \in Registered => connectionInfo_[c].dev \in {NoDevice, d}

StreamsOwned == \A c \in Conn : \E d \in Device \cup {NoDevice} : OwnedBy(c, d)

LEMMA OwnPackets ==
  ASSUME NEW d \in Device
  PROVE  /\ EOF \in Own(d) /\ \A p \in Request(Route) : p \in Own(d)
         /\ [id |-> "CONNECT", dev |-> d, ResultID |-> 0] \in Own(d)
         /\ \A n \in {4, 5} :
              [id |-> "UPGRADE_RESULT", dev |-> d, ResultID |-> n] \in Own(d)
         /\ \A m \in Measurement : d \in Hub =>
              /\ [id |-> "DELAY_MEASUREMENT", dev |-> d, delays |-> m] \in Own(d)
              /\ [id |-> "UPDATE_DELAY", dev |-> d, delays |-> m] \in Own(d)
         /\ d \in Rru =>
              [id |-> "DELAY_MEASUREMENT", dev |-> d, delays |-> RruDelay[d]]
                \in Own(d)
<1>1. EOF \in Own(d)
  BY DEF Own, PacketToBBU, EOF
<1>2. ASSUME NEW p \in Request(Route)
      PROVE  p \in Own(d)
  <2>1. p \in PacketToBBU /\ p.id \in {"UPGRADE", "RFTX_STATUS", "GET_TOPOLOGY"}
    BY DEF PacketToBBU, Request
  <2>2. QED
    BY <2>1 DEF Own
<1>3. [id |-> "CONNECT", dev |-> d, ResultID |-> 0] \in Own(d)
  BY DEF Own, PacketToBBU, UpgradeState
<1>4. \A n \in {4, 5} :
        [id |-> "UPGRADE_RESULT", dev |-> d, ResultID |-> n] \in Own(d)
  BY DEF Own, PacketToBBU, UpgradeState
<1>5. ASSUME NEW m \in Measurement, d \in Hub
      PROVE  /\ [id |-> "DELAY_MEASUREMENT", dev |-> d, delays |-> m] \in Own(d)
             /\ [id |-> "UPDATE_DELAY", dev |-> d, delays |-> m] \in Own(d)
  BY <1>5 DEF Own, PacketToBBU
<1>6. ASSUME d \in Rru
      PROVE  [id |-> "DELAY_MEASUREMENT", dev |-> d, delays |-> RruDelay[d]] \in Own(d)
  BY <1>6, TopologyAssumption DEF Own, PacketToBBU, TopologyAssumption
<1>7. QED
  BY <1>1, <1>2, <1>3, <1>4, <1>5, <1>6

(* What a device writes is its own; a hub answers an upgrade or is about   *)
(* to reboot, unless its reboot fails.                                     *)
Answers(d) ==
  \E id, pkts : /\ Answer(d, id, pkts) /\ pkts \in Seq(Own(d))
                /\ d \in Hub /\ id = "UPGRADE" /\ "rebootFails" \notin Faults
                     => \/ Len(pkts) = 1 /\ pkts[1].id = "UPGRADE_RESULT"
                        \/ d \in rebooting'

Drops(d) ==
  /\ peer[d] # None
  /\ \E rest : /\ Drop(d, rest)
               /\ \A e : toBBU[peer[d]] \in Seq(Own(e)) /\ EOF \in Own(e)
                            => rest \in Seq(Own(e))

LEMMA DeviceMoves ==
  ASSUME StateOK, NEW d \in Device, DeviceStep(d)
  PROVE  Answers(d) \/ Drops(d)
<1> USE DEF DeviceStep
<1>1. /\ <<>> \in Seq(Own(d))
      /\ \A p \in Own(d) : <<p>> \in Seq(Own(d)) /\ Len(<<p>>) = 1 /\ <<p>>[1] = p
  BY EmptySeq
<1>2. CASE d \in Hub /\ HubStep(d)
  <2>1. CASE HubConnectResult(d)
    <3>1. PICK m \in Measurement :
            Answer(d, "CONNECT_RESULT",
                   <<[id |-> "DELAY_MEASUREMENT", dev |-> d, delays |-> m]>>)
      BY <2>1 DEF HubConnectResult
    <3> DEFINE p == [id |-> "DELAY_MEASUREMENT", dev |-> d, delays |-> m]
    <3>2. p \in Own(d) /\ Answer(d, "CONNECT_RESULT", <<p>>)
      BY <1>2, <3>1, OwnPackets
    <3> HIDE DEF p
    <3>3. <<p>> \in Seq(Own(d)) /\ "CONNECT_RESULT" # "UPGRADE"
      BY <1>1, <3>2
    <3>4. QED
      BY <3>2, <3>3 DEF Answers
  <2>2. CASE UpdataDelay(d)
    <3>1. PICK m \in Measurement :
            Answer(d, "UPDATE_DELAY",
                   <<[id |-> "UPDATE_DELAY", dev |-> d, delays |-> m]>>)
      BY <2>2 DEF UpdataDelay
    <3> DEFINE p == [id |-> "UPDATE_DELAY", dev |-> d, delays |-> m]
    <3>2. p \in Own(d) /\ Answer(d, "UPDATE_DELAY", <<p>>)
      BY <1>2, <3>1, OwnPackets
    <3> HIDE DEF p
    <3>3. <<p>> \in Seq(Own(d)) /\ "UPDATE_DELAY" # "UPGRADE"
      BY <1>1, <3>2
    <3>4. QED
      BY <3>2, <3>3 DEF Answers
  <2>3. CASE HubUpgradeFails(d)
    <3>1. ASSUME NEW errorno \in {4, 5},
                 Answer(d, "UPGRADE",
                   <<[id |-> "UPGRADE_RESULT", dev |-> d, ResultID |-> errorno]>>)
          PROVE  Answers(d)
      <4> DEFINE p == [id |-> "UPGRADE_RESULT", dev |-> d, ResultID |-> errorno]
      <4>1. p \in Own(d) /\ p.id = "UPGRADE_RESULT"
        BY OwnPackets
      <4>2. Answer(d, "UPGRADE", <<p>>)
        BY <3>1
      <4> HIDE DEF p
      <4>3. QED
        BY <1>1, <4>1, <4>2 DEF Answers
    <3>2. CASE "rebootFails" \in Faults /\ Answer(d, "UPGRADE", <<>>)
      BY <1>1, <3>2 DEF Answers
    <3>3. QED
      BY <2>3, <3>1, <3>2 DEF HubUpgradeFails
  <2>4. CASE HubReboots(d)
    <3>1. Answer(d, "UPGRADE", <<>>) /\ d \in rebooting'
      BY <2>4 DEF HubReboots
    <3>2. QED
      BY <1>1, <3>1 DEF Answers
  <2>5. CASE HubIgnores(d)
    <3>1. Answer(d, "RFTX_STATUS", <<>>) /\ "RFTX_STATUS" # "UPGRADE"
      BY <2>5 DEF HubIgnores
    <3>2. QED
      BY <1>1, <3>1 DEF Answers
  <2>6. QED
    BY <1>2, <2>1, <2>2, <2>3, <2>4, <2>5 DEF HubStep
<1>3. d \notin Hub =>
        (Answers(d) <=> \E id, pkts : Answer(d, id, pkts) /\ pkts \in Seq(Own(d)))
  BY DEF Answers
<1>4. CASE d \in Rru /\ RruStep(d)
  <2>1. d \notin Hub
    BY <1>4, TopologyAssumption DEF TopologyAssumption
  <2>2. CASE RruConnectResult(d)
    BY <1>1, <1>3, <1>4, <2>1, <2>2, OwnPackets DEF RruConnectResult
  <2>3. CASE RruIgnores(d)
    BY <1>1, <1>3, <2>1, <2>3 DEF RruIgnores
  <2>4. QED
    BY <1>4, <2>2, <2>3 DEF RruStep
<1>5. CASE d \in Oam /\ OamPrints(d)
  <2>1. d \notin Hub
    BY <1>5, TopologyAssumption DEF TopologyAssumption
  <2>2. QED
    BY <1>1, <1>3, <1>5, <2>1 DEF OamPrints
<1>6. CASE NoticeLoss(d)
  <2>1. \A e : <<>> \in Seq(Own(e))
    BY EmptySeq
  <2>2. QED
    BY <1>6, <2>1 DEF NoticeLoss, Drops
<1>7. QED
  BY <1>2, <1>4, <1>5, <1>6

(* Until it goes down a hub that is about to reboot stays so.              *)
LEMMA KeepsRebooting ==
  ASSUME NEW d \in Device, DeviceStep(d)
  PROVE  \A h \in rebooting : h \in rebooting'
BY DEF DeviceStep, HubStep, HubReboots

(* A board that goes down takes its connection along, if it has one.       *)
LEMMA GoingDown ==
  ASSUME NEW d, GoesDown(d)
  PROVE  Drops(d) \/ (peer[d] = None /\ UNCHANGED netVars)
<1>1. CASE peer[d] # None
  <2>1. Drop(d, Append(toBBU[peer[d]], EOF))
    BY <1>1 DEF GoesDown
  <2>2. \A e : toBBU[peer[d]] \in Seq(Own(e)) /\ EOF \in Own(e)
                 => Append(toBBU[peer[d]], EOF) \in Seq(Own(e))
    BY AppendProperties
  <2>3. QED
    BY <1>1, <2>1, <2>2 DEF Drops
<1>2. CASE peer[d] = None
  BY <1>2 DEF GoesDown
<1>3. QED
  BY <1>1, <1>2

(* What a packet handler does to the registry: the sender's record is made *)
(* anew from its CONNECT, or it gets a route; nobody else's changes but    *)
(* for the upgrade state.                                                  *)
Records(c, id) ==
  /\ Receive(c, id) /\ UNCHANGED <<link, peer>>
  /\ c \in Registered /\ DOMAIN connectionInfo_' = Registered
  /\ \A x \in Registered : id # "CONNECT" \/ x # c =>
       /\ connectionInfo_'[x].dev = connectionInfo_[x].dev
       /\ \/ connectionInfo_'[x].routeIndex = connectionInfo_[x].routeIndex
          \/ /\ x = c /\ connectionInfo_[c].dev \in Device
             /\ connectionInfo_'[x].routeIndex
                  = CreateRouteIndex(connectionInfo_, c)
  /\ id = "CONNECT" =>
       /\ connectionInfo_'[c].dev = Head(toBBU[c]).dev
       /\ connectionInfo_'[c].routeIndex = <<>>

LEMMA HandlerRecords ==
  ASSUME StateOK, AnnouncedFirst, NEW c \in Conn, OnMessage(c)
  PROVE  \E id : Records(c, id)
<1> DEFINE r == CreateRouteIndex(connectionInfo_, c)
<1>1. \A x \in Registered : connectionInfo_[x] \in DeviceInfo
  BY DEF StateOK
<1>2. ASSUME NEW id, Receive(c, id)
      PROVE  c \in Registered
  BY <1>2, ReceiveTypes
<1>3. ASSUME NEW id, id # "CONNECT", Receive(c, id), UNCHANGED <<link, peer>>,
             UNCHANGED connectionInfo_
      PROVE  Records(c, id)
  BY <1>2, <1>3 DEF Records, Registered
<1>4. CASE SetConnectionClient(c)
  <2> DEFINE p == Head(toBBU[c])
             rec == [cInfo_ EXCEPT !.dev = p.dev, !.upgradeState = p.ResultID]
  <2>1. Receive(c, "CONNECT") /\ UNCHANGED <<link, peer>>
        /\ connectionInfo_' = [connectionInfo_ EXCEPT ![c] = rec]
    BY <1>4 DEF SetConnectionClient
  <2>2. rec.dev = p.dev /\ rec.routeIndex = <<>>
    BY DEF cInfo_
  <2> HIDE DEF rec
  <2>3. Records(c, "CONNECT")
    BY <1>2, <2>1, <2>2 DEF Records, Registered
  <2>4. QED
    BY <2>3
<1>5. ASSUME NEW rec, Receive(c, "DELAY_MEASUREMENT"), UNCHANGED <<link, peer>>,
             connectionInfo_' = [connectionInfo_ EXCEPT ![c] = rec],
             rec.dev = connectionInfo_[c].dev, rec.routeIndex = r
      PROVE  Records(c, "DELAY_MEASUREMENT")
  <2>1. connectionInfo_[c].dev \in Device
    BY <1>5, HandlerKnowsDevice
  <2>2. c \in Registered
    BY <1>2, <1>5
  <2> HIDE DEF r
  <2>3. \A x \in Registered : connectionInfo_'[x] = IF x = c THEN rec
                                                    ELSE connectionInfo_[x]
    BY <1>5 DEF Registered
  <2>4. DOMAIN connectionInfo_' = Registered
    BY <1>5 DEF Registered
  <2>5. QED
    BY <1>5, <2>1, <2>2, <2>3, <2>4 DEF Records, r
<1>6. CASE HubDelayInfo(c)
  <2>1. Receive(c, "DELAY_MEASUREMENT") /\ UNCHANGED <<link, peer>>
    BY <1>6 DEF HubDelayInfo
  <2>2. CASE r = <<>>
    BY <1>3, <1>6, <2>1, <2>2 DEF HubDelayInfo
  <2>3. CASE r # <<>>
    <3> DEFINE rec == [connectionInfo_[c] EXCEPT !.routeIndex = r]
    <3>1. connectionInfo_' = [connectionInfo_ EXCEPT ![c] = rec]
      BY <1>6, <2>3 DEF HubDelayInfo
    <3>2. rec.dev = connectionInfo_[c].dev /\ rec.routeIndex = r
      BY <1>1, <1>2, <2>1 DEF DeviceInfo
    <3> HIDE DEF rec, r
    <3>3. QED
      BY <1>5, <2>1, <3>1, <3>2
  <2>4. QED
    BY <2>2, <2>3
<1>7. CASE RruDelayProcess(c)
  <2> DEFINE s == Head(toBBU[c]).delays
  <2>1. Receive(c, "DELAY_MEASUREMENT") /\ UNCHANGED <<link, peer>>
    BY <1>7 DEF RruDelayProcess
  <2>2. CASE r = <<>>
    BY <1>3, <1>7, <2>1, <2>2 DEF RruDelayProcess
  <2>3. CASE r # <<>>
    <3> DEFINE rec == [connectionInfo_[c] EXCEPT !.routeIndex = r,
                                                 !.rruDelayInfo = s]
    <3>1. connectionInfo_' = [connectionInfo_ EXCEPT ![c].routeIndex = r,
                                                     ![c].rruDelayInfo = s]
      BY <1>7, <2>3 DEF RruDelayProcess
    <3>2. connectionInfo_' = [connectionInfo_ EXCEPT ![c] = rec]
      <4> HIDE DEF r, s
      <4>1. QED
        BY <1>2, <2>1, <3>1 DEF Registered
    <3>3. rec.dev = connectionInfo_[c].dev /\ rec.routeIndex = r
      BY <1>1, <1>2, <2>1 DEF DeviceInfo
    <3> HIDE DEF rec, r
    <3>4. QED
      BY <1>5, <2>1, <3>2, <3>3
  <2>4. QED
    BY <2>2, <2>3
<1>8. CASE UpgradeResultProcess(c)
  <2> DEFINE rec == [connectionInfo_[c] EXCEPT !.upgradeState = Head(toBBU[c]).ResultID]
  <2>1. Receive(c, "UPGRADE_RESULT") /\ UNCHANGED <<link, peer>>
        /\ connectionInfo_' = [connectionInfo_ EXCEPT ![c] = rec]
    BY <1>8 DEF UpgradeResultProcess
  <2>2. /\ c \in Registered
        /\ rec.dev = connectionInfo_[c].dev
        /\ rec.routeIndex = connectionInfo_[c].routeIndex
    BY <1>1, <1>2, <2>1 DEF DeviceInfo
  <2> HIDE DEF rec
  <2>3. Records(c, "UPGRADE_RESULT")
    BY <2>1, <2>2 DEF Records, Registered
  <2>4. QED
    BY <2>3
<1>9. CASE UpgradeProcess(c)
  <2>1. PICK S : connectionInfo_' = [x \in Registered |->
                  IF x \in S THEN [connectionInfo_[x] EXCEPT !.upgradeState = 3]
                  ELSE connectionInfo_[x]]
    BY <1>9 DEF UpgradeProcess
  <2>2. /\ Receive(c, "UPGRADE") /\ UNCHANGED <<link, peer>>
        /\ DOMAIN connectionInfo_' = Registered
    BY <1>9, <2>1 DEF UpgradeProcess
  <2>3. \A x \in Registered :
           /\ connectionInfo_'[x].dev = connectionInfo_[x].dev
           /\ connectionInfo_'[x].routeIndex = connectionInfo_[x].routeIndex
    BY <1>1, <2>1 DEF DeviceInfo
  <2>4. Records(c, "UPGRADE")
    BY <1>2, <2>2, <2>3 DEF Records
  <2>5. QED
    BY <2>4
<1>10. CASE UpdateHUBDelayInfo(c)
  BY <1>3, <1>10 DEF UpdateHUBDelayInfo
<1>11. CASE RRURFTxStatusProcess(c)
  BY <1>3, <1>11 DEF RRURFTxStatusProcess
<1>12. CASE NetworkTopologyMessageProcess(c)
  BY <1>3, <1>12 DEF NetworkTopologyMessageProcess
<1>13. QED
  BY <1>4, <1>6, <1>7, <1>8, <1>9, <1>10, <1>11, <1>12 DEF OnMessage

(* A connection stays its device's until the name is taken again.          *)
LEMMA OwnedHandlers ==
  ASSUME StateOK, WireOK, NEW c \in Conn, BBUStep(c),
         NEW x \in Conn, NEW e \in Device \cup {NoDevice}, OwnedBy(x, e)
  PROVE  OwnedBy(x, e)'
<1>1. toBBU[x] \in Seq(PacketToBBU) /\ toBBU[x] \in Seq(Own(e))
  BY DEF OwnedBy, StateOK
<1>2. UNCHANGED peer
  <2>1. \A id : Records(c, id) => UNCHANGED peer
    BY DEF Records
  <2>2. QED
    BY <2>1, HandlerRecords DEF BBUStep, WireOK, OnAccept, OnEof, OnReadError,
                                CloseConnection
<1>3. SUFFICES /\ toBBU'[x] \in Seq(Own(e))
               /\ x \in Registered' => connectionInfo_'[x].dev \in {NoDevice, e}
  BY <1>2 DEF OwnedBy
<1>4. ASSUME NEW id, Receive(c, id)
      PROVE  /\ toBBU'[x] \in Seq(Own(e))
             /\ x = c => Head(toBBU[x]) \in Own(e) /\ Head(toBBU[x]).id = id
  <2>1. /\ toBBU' = [toBBU EXCEPT ![c] = Tail(toBBU[c])]
        /\ toBBU[c] # <<>> /\ Head(toBBU[c]).id = id
    BY <1>4 DEF Receive
  <2>2. CASE x = c
    <3>1. Tail(toBBU[x]) \in Seq(Own(e)) /\ Head(toBBU[x]) \in Own(e)
      BY <1>1, <2>1, <2>2, HeadTailProperties
    <3>2. toBBU'[x] = Tail(toBBU[x])
      BY <2>1, <2>2 DEF StateOK
    <3>3. QED
      BY <2>1, <2>2, <3>1, <3>2
  <2>3. CASE x # c
    BY <1>1, <2>1, <2>3 DEF StateOK
  <2>4. QED
    BY <2>2, <2>3
<1>5. CASE OnMessage(c)
  <2>1. PICK id : Records(c, id)
    BY <1>5, HandlerRecords DEF WireOK
  <2>2. Receive(c, id) /\ Registered' = Registered
    BY <2>1 DEF Records, Registered
  <2>3. ASSUME x \in Registered
        PROVE  connectionInfo_'[x].dev \in {NoDevice, e}
    <3>1. CASE id = "CONNECT" /\ x = c
      <4>1. Head(toBBU[x]).dev = e
        BY <1>4, <2>2, <3>1 DEF Own
      <4>2. QED
        BY <2>1, <3>1, <4>1 DEF Records
    <3>2. CASE ~ (id = "CONNECT" /\ x = c)
      <4>1. connectionInfo_'[x].dev = connectionInfo_[x].dev
        BY <2>1, <2>3, <3>2 DEF Records
      <4>2. QED
        BY <2>3, <4>1 DEF OwnedBy
    <3>3. QED
      BY <3>1, <3>2
  <2>4. QED
    BY <1>4, <2>2, <2>3
<1>6. CASE OnAccept(c)
  <2>1. /\ UNCHANGED toBBU
        /\ connectionInfo_' = [k \in Registered \cup {c} |->
                                 IF k \in Registered THEN connectionInfo_[k]
                                 ELSE [y \in {c} |-> cInfo_][k]]
    BY <1>6 DEF OnAccept, Inserted, Registered
  <2>2. cInfo_.dev = NoDevice
    BY DEF cInfo_
  <2>3. x \in Registered' =>
           \/ x \in Registered /\ connectionInfo_'[x] = connectionInfo_[x]
           \/ connectionInfo_'[x] = cInfo_
    BY <2>1 DEF Registered
  <2>4. QED
    BY <1>1, <2>1, <2>2, <2>3 DEF OwnedBy
<1>7. CASE OnEof(c)
  BY <1>4, <1>7 DEF OnEof, OwnedBy, Registered, bbuVars
<1>8. CASE OnReadError(c)
  BY <1>1, <1>8 DEF OnReadError, OwnedBy, Registered, bbuVars
<1>9. CASE CloseConnection(c)
  <2>1. /\ toBBU' = [toBBU EXCEPT ![c] = <<>>]
        /\ connectionInfo_' = [y \in Registered \ {c} |-> connectionInfo_[y]]
    BY <1>9 DEF CloseConnection, Unregister
  <2>2. toBBU'[x] \in Seq(Own(e))
    BY <1>1, <2>1, EmptySeq DEF StateOK
  <2>3. x \in Registered' => x \in Registered /\ connectionInfo_'[x] = connectionInfo_[x]
    BY <2>1 DEF Registered
  <2>4. QED
    BY <2>2, <2>3 DEF OwnedBy
<1>10. QED
  BY <1>5, <1>6, <1>7, <1>8, <1>9 DEF BBUStep

LEMMA OwnedDevices ==
  ASSUME StateOK, NEW d \in Device, UNCHANGED bbuVars,
         DeviceStep(d) \/ Exit(d) \/ PowerLoss(d) \/ GoesDown(d),
         NEW x \in Conn, NEW e \in Device \cup {NoDevice}, OwnedBy(x, e)
  PROVE  OwnedBy(x, e)'
<1>1. toBBU[x] \in Seq(Own(e)) /\ EOF \in Own(e) /\ UNCHANGED connectionInfo_
  BY DEF OwnedBy, Own, EOF, PacketToBBU, bbuVars
<1>2. SUFFICES /\ toBBU'[x] \in Seq(Own(e))
               /\ \A a \in Device : peer'[a] = x => peer[a] = x
  BY <1>1 DEF OwnedBy, Registered
<1>3. CASE Answers(d)
  <2>1. PICK id, pkts : Answer(d, id, pkts) /\ pkts \in Seq(Own(d))
    BY <1>3 DEF Answers
  <2>2. UNCHANGED peer /\ toBBU' = FromDevice(peer[d], pkts)
    BY <2>1 DEF Answer
  <2>3. CASE peer[d] = x
    <3>1. e = d
      BY <2>3 DEF OwnedBy
    <3>2. toBBU[x] \o pkts \in Seq(Own(e))
      BY <1>1, <2>1, <3>1, ConcatProperties
    <3>3. QED
      BY <1>1, <2>2, <2>3, <3>2 DEF FromDevice, StateOK
  <2>4. CASE peer[d] # x
    BY <1>1, <2>2, <2>4 DEF FromDevice, StateOK
  <2>5. QED
    BY <2>3, <2>4
<1>4. ASSUME NEW rest, Drop(d, rest), peer[d] # None,
             x = peer[d] => rest \in Seq(Own(e))
      PROVE  /\ toBBU'[x] \in Seq(Own(e))
             /\ \A a \in Device : peer'[a] = x => peer[a] = x
  <2>1. peer' = [peer EXCEPT ![d] = None] /\ x # None
    BY <1>4, DeviceSets DEF Drop
  <2>2. toBBU' = toBBU \/ toBBU' = [toBBU EXCEPT ![peer[d]] = rest]
    BY <1>4 DEF Drop
  <2>3. QED
    BY <1>1, <1>4, <2>1, <2>2 DEF StateOK
<1>5. CASE Drops(d)
  BY <1>1, <1>4, <1>5 DEF Drops
<1>6. CASE Exit(d)
  <2>1. Append(toBBU[x], EOF) \in Seq(Own(e))
    BY <1>1, AppendProperties
  <2>2. QED
    BY <1>4, <1>6, <2>1 DEF Exit
<1>7. CASE PowerLoss(d)
  <2>1. PICK n \in 0 .. Len(toBBU[peer[d]]) : Drop(d, SubSeq(toBBU[peer[d]], 1, n))
    BY <1>7 DEF PowerLoss
  <2>2. ASSUME x = peer[d]
        PROVE  SubSeq(toBBU[x], 1, n) \in Seq(Own(e))
    <3>1. n \in Int /\ 1 \in Int
      OBVIOUS
    <3>2. \A i \in 1 .. n : toBBU[x][i] \in Own(e)
      BY <1>1, <2>2, LenProperties, ElementOfSeq
    <3>3. QED
      BY <3>1, <3>2, SubSeqProperties
  <2>3. QED
    BY <1>4, <1>7, <2>1, <2>2 DEF PowerLoss
<1>8. CASE GoesDown(d)
  <2>1. CASE UNCHANGED netVars
    BY <1>1, <2>1 DEF netVars
  <2>2. QED
    BY <1>5, <1>8, <2>1, GoingDown
<1>9. QED
  BY <1>3, <1>5, <1>6, <1>7, <1>8, DeviceMoves

LEMMA OwnedStep ==
  ASSUME StateOK, WireOK, StreamsOwned, [Next]_vars
  PROVE  StreamsOwned'
<1>1. SUFFICES ASSUME NEW x \in Conn
               PROVE  \E e \in Device \cup {NoDevice} : OwnedBy(x, e)'
  BY DEF StreamsOwned
<1>2. PICK e \in Device \cup {NoDevice} : OwnedBy(x, e)
  BY DEF StreamsOwned
<1>3. CASE \E c \in Conn : BBUStep(c)
  BY <1>2, <1>3, OwnedHandlers
<1>4. CASE Restart
  BY <1>2, <1>4, EmptySeq DEF Restart, OwnedBy, Registered
<1>5. ASSUME NEW d \in Device, NEW c \in Conn, Connect(d, c), UNCHANGED bbuVars
      PROVE  \E a \in Device \cup {NoDevice} : OwnedBy(x, a)'
  <2>1. /\ peer' = [peer EXCEPT ![d] = c] /\ link[c] = "free"
        /\ toBBU' = [toBBU EXCEPT ![c] = SendConnectMessage(d)]
        /\ UNCHANGED connectionInfo_
    BY <1>5 DEF Connect, bbuVars
  <2>2. CASE x = c
    <3>1. x \notin Registered /\ ~ Alive(x)
      BY <2>1, <2>2 DEF StateOK, WireOK, HeldStaysUp
    <3>2. toBBU'[x] \in Seq(Own(d))
      <4> DEFINE p == [id |-> "CONNECT", dev |-> d, ResultID |-> 0]
      <4>1. p \in Own(d) /\ toBBU'[x] = <<p>>
        BY <2>1, <2>2, OwnPackets DEF SendConnectMessage, StateOK
      <4> HIDE DEF p
      <4>2. QED
        BY <4>1
    <3>3. OwnedBy(x, d)'
      BY <2>1, <3>1, <3>2 DEF OwnedBy, Registered, Alive, StateOK
    <3>4. QED
      BY <3>3
  <2>3. CASE x # c
    <3>1. toBBU'[x] = toBBU[x] /\ \A a \in Device : peer'[a] = x => peer[a] = x
      BY <2>1, <2>3 DEF StateOK
    <3>2. OwnedBy(x, e)'
      BY <1>2, <2>1, <3>1 DEF OwnedBy, Registered
    <3>3. QED
      BY <3>2
  <2>4. QED
    BY <2>2, <2>3
<1>6. ASSUME NEW d \in Oam, OamRequest(d, KnownRoutes), UNCHANGED bbuVars
      PROVE  OwnedBy(x, e)'
  <2>1. \A c \in Registered : connectionInfo_[c].routeIndex \in Route
    BY DEF StateOK, DeviceInfo
  <2>2. KnownRoutes \subseteq Route
    BY <2>1, EmptySeq DEF KnownRoutes, Route
  <2>3. PICK p \in Request(KnownRoutes) : toBBU' = FromDevice(peer[d], <<p>>)
    BY <1>6 DEF OamRequest
  <2>4. p \in Own(e)
    <3>1. /\ p \in Request(Route)
          /\ p.id \in {"UPGRADE", "RFTX_STATUS", "GET_TOPOLOGY"}
      BY <2>2 DEF Request
    <3>2. QED
      BY <3>1 DEF Own, PacketToBBU
  <2>5. toBBU[x] \in Seq(Own(e)) /\ toBBU[x] \o <<p>> \in Seq(Own(e))
    <3>1. <<p>> \in Seq(Own(e))
      BY <2>4
    <3>2. QED
      BY <1>2, <3>1, ConcatProperties DEF OwnedBy
  <2>6. toBBU'[x] \in Seq(Own(e))
    BY <2>3, <2>5 DEF FromDevice, StateOK
  <2>7. UNCHANGED <<peer, connectionInfo_>>
    BY <1>6 DEF OamRequest, bbuVars
  <2>8. QED
    BY <1>2, <2>6, <2>7 DEF OwnedBy, Registered
<1>7. CASE UNCHANGED vars
  BY <1>2, <1>7 DEF vars, netVars, bbuVars, OwnedBy, Registered
<1>8. CASE Environment
  <2>1. CASE Restart
    BY <1>4, <2>1
  <2>2. ASSUME NEW d \in Device, UNCHANGED bbuVars,
               \/ \E c \in Conn : Connect(d, c)
               \/ Exit(d) \/ PowerLoss(d) \/ GoesDown(d)
               \/ d \in Oam /\ OamRequest(d, KnownRoutes)
        PROVE  \E a \in Device \cup {NoDevice} : OwnedBy(x, a)'
    BY <1>2, <1>5, <1>6, <2>2, OwnedDevices
  <2>3. QED
    BY <1>8, <2>1, <2>2 DEF Environment
<1>9. CASE \E d \in Device : DeviceStep(d)
  <2>1. PICK d \in Device : DeviceStep(d) /\ UNCHANGED bbuVars
    BY <1>9 DEF DeviceStep
  <2>2. QED
    BY <1>2, <2>1, OwnedDevices
<1>10. QED
  BY <1>3, <1>7, <1>8, <1>9 DEF Next

(***************************************************************************)
(* The route indexes.                                                      *)
(***************************************************************************)
LEMMA RouteShape ==
  ASSUME NEW info, NEW c, info[c].dev \in Device, CreateRouteIndex(info, c) # <<>>
  PROVE  LET d == info[c].dev
             r == CreateRouteIndex(info, c)
         IN  Len(r) = Hop[d] /\ r[1] = <<Port[d], UPort[d]>>
<1> DEFINE d == info[c].dev
           n == Hop[d]
           element(i) == IF i = 1 THEN <<Port[d], UPort[d]>>
                         ELSE LET e == info[First(AtHop(info, n + 1 - i))].dev
                              IN  <<Port[e], UPort[e]>>
           r == [i \in 1 .. n |-> element(i)]
<1>1. n >= 1 /\ CreateRouteIndex(info, c) = r
  BY DEF CreateRouteIndex
<1>2. n \in Nat
  BY TopologyAssumption DEF TopologyAssumption
<1>3. element(1) = <<Port[d], UPort[d]>>
  OBVIOUS
<1> HIDE DEF n, element
<1>4. r[1] = element(1) /\ Len(r) = n
  BY <1>1, <1>2
<1>5. QED
  BY <1>1, <1>3, <1>4 DEF n

LEMMA RouteStep ==
  ASSUME StateOK, WireOK, RouteIndexShape, [Next]_vars
  PROVE  RouteIndexShape'
<1>1. SUFFICES ASSUME NEW x \in Registered', connectionInfo_'[x].routeIndex # <<>>
               PROVE  LET r == connectionInfo_'[x].routeIndex
                          d == connectionInfo_'[x].dev
                      IN  Len(r) = Hop[d] /\ r[1] = <<Port[d], UPort[d]>>
  BY DEF RouteIndexShape
<1>2. ASSUME x \in Registered,
             connectionInfo_'[x].dev = connectionInfo_[x].dev,
             connectionInfo_'[x].routeIndex = connectionInfo_[x].routeIndex
      PROVE  LET r == connectionInfo_'[x].routeIndex
                 d == connectionInfo_'[x].dev
             IN  Len(r) = Hop[d] /\ r[1] = <<Port[d], UPort[d]>>
  BY <1>1, <1>2 DEF RouteIndexShape
<1>3. ASSUME NEW c \in Conn, BBUStep(c)
      PROVE  LET r == connectionInfo_'[x].routeIndex
                 d == connectionInfo_'[x].dev
             IN  Len(r) = Hop[d] /\ r[1] = <<Port[d], UPort[d]>>
  <2>1. CASE OnMessage(c)
    <3>1. PICK id : Records(c, id)
      BY <2>1, HandlerRecords DEF WireOK
    <3>2. x \in Registered
      BY <3>1 DEF Records, Registered
    <3>3. id # "CONNECT" \/ x # c
      BY <1>1, <3>1 DEF Records
    <3>4. CASE connectionInfo_'[x].routeIndex = connectionInfo_[x].routeIndex
      BY <1>2, <3>1, <3>2, <3>3, <3>4 DEF Records
    <3>5. CASE /\ x = c /\ connectionInfo_[c].dev \in Device
               /\ connectionInfo_'[x].routeIndex = CreateRouteIndex(connectionInfo_, c)
      <4>1. connectionInfo_'[x].dev = connectionInfo_[c].dev
        BY <3>1, <3>2, <3>3, <3>5 DEF Records
      <4>2. QED
        BY <1>1, <3>5, <4>1, RouteShape
    <3>6. QED
      BY <3>1, <3>2, <3>3, <3>4, <3>5 DEF Records
  <2>2. CASE OnAccept(c)
    <3>1. \/ x \in Registered /\ connectionInfo_'[x] = connectionInfo_[x]
          \/ connectionInfo_'[x] = cInfo_
      BY <2>2 DEF OnAccept, Inserted, Registered
    <3>2. cInfo_.routeIndex = <<>>
      BY DEF cInfo_
    <3>3. QED
      BY <1>1, <1>2, <3>1, <3>2
  <2>3. CASE OnEof(c) \/ OnReadError(c)
    BY <1>2, <2>3 DEF OnEof, OnReadError, bbuVars, Registered
  <2>4. CASE CloseConnection(c)
    <3>1. x \in Registered /\ connectionInfo_'[x] = connectionInfo_[x]
      BY <2>4 DEF CloseConnection, Unregister, Registered
    <3>2. QED
      BY <1>2, <3>1
  <2>5. QED
    BY <1>3, <2>1, <2>2, <2>3, <2>4 DEF BBUStep
<1>4. CASE Restart
  BY <1>4 DEF Restart, Registered
<1>5. CASE UNCHANGED bbuVars
  BY <1>2, <1>5 DEF bbuVars, Registered
<1>6. QED
  BY <1>3, <1>4, <1>5 DEF Next, DeviceStep, Environment, vars

(***************************************************************************)
(* The hubs' delays.  DeleteHubDelay takes a level's delays away with the  *)
(* number of ports the last report had, whichever hub it came from, so all *)
(* of them go only where all hubs have the same number of ports.           *)
(***************************************************************************)
OnePortCount == \A m, n \in Measurement : Ports(m) = Ports(n)

LevelKeys(level, n) == {Key(level, kind, port) : kind \in Kind, port \in 1 .. n}

Holds(map, level, m) ==
  /\ {k \in DOMAIN map : k[1] = level} = LevelKeys(level, Ports(m))
  /\ \A kind \in Kind, port \in 1 .. Ports(m) :
        map[Key(level, kind, port)] = m[<<kind, port>>]

(* A level has no delays or those of one measurement of base ports.        *)
Measured(map, base) ==
  \A k \in DOMAIN map :
     /\ k[1] \in Nat
     /\ \E m \in Measurement : base = Ports(m) /\ Holds(map, k[1], m)

(* Somebody registered answers for the level.                              *)
HubAt(level) ==
  \E c \in Registered : connectionInfo_[c].dev \in Hub
                        /\ Hop[connectionInfo_[c].dev] = level

DelaysOK == /\ Measured(delay_map, m_base)
            /\ \A k \in DOMAIN delay_map : HubAt(k[1])

LEMMA SplitKeys ==
  ASSUME NEW map, NEW hop \in Nat, NEW m \in Measurement
  PROVE  /\ DOMAIN SplitStrings2Map(map, hop, m)
              = DOMAIN map \cup LevelKeys(hop, Ports(m))
         /\ \A k \in DOMAIN map : SplitStrings2Map(map, hop, m)[k] = map[k]
         /\ \A kind \in Kind, port \in 1 .. Ports(m) :
              Key(hop, kind, port) \notin DOMAIN map =>
                SplitStrings2Map(map, hop, m)[Key(hop, kind, port)]
                  = m[<<kind, port>>]
<1> DEFINE keys == {Key(hop, x[1], x[2]) : x \in DOMAIN m}
           new == [k \in keys |-> m[<<k[2], k[3]>>]]
<1>1. m \in [Kind \X (1 .. Ports(m)) -> Nat]
  BY TopologyAssumption DEF TopologyAssumption
<1>2. keys = LevelKeys(hop, Ports(m))
  <2>1. ASSUME NEW x \in DOMAIN m
        PROVE  Key(hop, x[1], x[2]) \in LevelKeys(hop, Ports(m))
    BY <1>1 DEF LevelKeys
  <2>2. ASSUME NEW kind \in Kind, NEW port \in 1 .. Ports(m)
        PROVE  Key(hop, kind, port) \in keys
    <3>1. <<kind, port>> \in DOMAIN m
      BY <1>1
    <3>2. <<kind, port>>[1] = kind /\ <<kind, port>>[2] = port
      OBVIOUS
    <3>3. QED
      BY <3>1, <3>2
  <2>3. QED
    BY <2>1, <2>2 DEF LevelKeys
<1>3. ASSUME NEW kind \in Kind, NEW port \in 1 .. Ports(m)
      PROVE  /\ Key(hop, kind, port) \in keys
             /\ new[Key(hop, kind, port)] = m[<<kind, port>>]
  <2>1. Key(hop, kind, port) \in keys
    BY <1>2 DEF LevelKeys
  <2>2. Key(hop, kind, port)[2] = kind /\ Key(hop, kind, port)[3] = port
    BY DEF Key
  <2> HIDE DEF keys
  <2>3. QED
    BY <2>1, <2>2
<1>4. SplitStrings2Map(map, hop, m)
        = [k \in DOMAIN map \cup keys |->
             IF k \in DOMAIN map THEN map[k] ELSE new[k]]
  BY DEF SplitStrings2Map, Inserted
<1> HIDE DEF new, keys
<1>5. QED
  BY <1>2, <1>3, <1>4

LEMMA SplitMeasured ==
  ASSUME OnePortCount, NEW map, NEW base, Measured(map, base),
         NEW hop \in Nat, NEW m \in Measurement
  PROVE  /\ Measured(SplitStrings2Map(map, hop, m), Ports(m))
         /\ \A k \in DOMAIN SplitStrings2Map(map, hop, m) :
              k \in DOMAIN map \/ k[1] = hop
<1> DEFINE both == SplitStrings2Map(map, hop, m)
           n == Ports(m)
<1>1. /\ DOMAIN both = DOMAIN map \cup LevelKeys(hop, n)
      /\ \A k \in DOMAIN map : both[k] = map[k]
      /\ \A kind \in Kind, port \in 1 .. n :
           Key(hop, kind, port) \notin DOMAIN map =>
              both[Key(hop, kind, port)] = m[<<kind, port>>]
  BY SplitKeys
<1>2. \A k \in LevelKeys(hop, n) : k[1] = hop
  BY DEF LevelKeys, Key
<1> HIDE DEF both
<1>3. ASSUME NEW k \in DOMAIN both
      PROVE  /\ k[1] \in Nat
             /\ \E w \in Measurement : n = Ports(w) /\ Holds(both, k[1], w)
  <2>1. CASE \E l \in DOMAIN map : l[1] = k[1]
    <3>1. PICK l \in DOMAIN map : l[1] = k[1]
      BY <2>1
    <3>2. PICK w \in Measurement : base = Ports(w) /\ Holds(map, k[1], w)
      BY <3>1 DEF Measured
    <3>3. Ports(w) = n /\ k[1] \in Nat
      BY <3>1 DEF OnePortCount, Measured
    <3>4. {x \in DOMAIN map : x[1] = k[1]} = LevelKeys(k[1], n)
      BY <3>2, <3>3 DEF Holds
    <3>5. {x \in DOMAIN both : x[1] = k[1]} = LevelKeys(k[1], n)
      BY <1>1, <1>2, <3>4
    <3>6. \A kind \in Kind, port \in 1 .. n :
             both[Key(k[1], kind, port)] = w[<<kind, port>>]
      <4>1. SUFFICES ASSUME NEW kind \in Kind, NEW port \in 1 .. n
                     PROVE  both[Key(k[1], kind, port)] = w[<<kind, port>>]
        OBVIOUS
      <4>2. Key(k[1], kind, port) \in DOMAIN map
        BY <3>4 DEF LevelKeys
      <4>3. QED
        BY <1>1, <3>2, <3>3, <4>2 DEF Holds
    <3>7. QED
      BY <3>3, <3>5, <3>6 DEF Holds
  <2>2. CASE \A l \in DOMAIN map : l[1] # k[1]
    <3>1. k[1] = hop
      BY <1>1, <1>2, <2>2
    <3>2. {x \in DOMAIN both : x[1] = hop} = LevelKeys(hop, n)
      BY <1>1, <1>2, <2>2, <3>1
    <3>3. \A kind \in Kind, port \in 1 .. n : Key(hop, kind, port) \notin DOMAIN map
      BY <2>2, <3>1 DEF Key
    <3>4. Holds(both, hop, m)
      BY <1>1, <3>2, <3>3 DEF Holds
    <3>5. QED
      BY <3>1, <3>4
  <2>3. QED
    BY <2>1, <2>2
<1>4. QED
  BY <1>1, <1>2, <1>3 DEF Measured, both

(* Deleting a level leaves nothing of it and all of the others.            *)
LEMMA DeleteMeasured ==
  ASSUME Measured(delay_map, m_base), NEW hop \in Nat
  PROVE  LET left == DeleteHubDelay(delay_map, hop)
         IN  /\ Measured(left, m_base)
             /\ \A k \in DOMAIN left : k \in DOMAIN delay_map /\ k[1] # hop
<1> DEFINE left == DeleteHubDelay(delay_map, hop)
           gone == LevelKeys(hop, m_base)
<1>1. left = [k \in DOMAIN delay_map \ gone |-> delay_map[k]]
  BY DEF DeleteHubDelay, LevelKeys
<1>2. \A k \in gone : k[1] = hop
  BY DEF LevelKeys, Key
<1> HIDE DEF left, gone
<1>3. DOMAIN left = DOMAIN delay_map \ gone
      /\ \A k \in DOMAIN left : left[k] = delay_map[k]
  BY <1>1
<1>4. ASSUME NEW k \in DOMAIN left
      PROVE  k \in DOMAIN delay_map /\ k[1] # hop
  <2>1. k \in DOMAIN delay_map /\ k \notin gone
    BY <1>3
  <2>2. PICK m \in Measurement : m_base = Ports(m) /\ Holds(delay_map, k[1], m)
    BY <2>1 DEF Measured
  <2>3. QED
    BY <2>1, <2>2 DEF Holds, gone
<1>5. ASSUME NEW k \in DOMAIN left
      PROVE  /\ k[1] \in Nat
             /\ \E m \in Measurement : m_base = Ports(m) /\ Holds(left, k[1], m)
  <2>1. k \in DOMAIN delay_map /\ k[1] # hop
    BY <1>4
  <2>2. k[1] \in Nat
    BY <2>1 DEF Measured
  <2>3. PICK m \in Measurement : m_base = Ports(m) /\ Holds(delay_map, k[1], m)
    BY <2>1 DEF Measured
  <2>4. {x \in DOMAIN left : x[1] = k[1]} = LevelKeys(k[1], Ports(m))
    BY <1>2, <1>3, <2>1, <2>3 DEF Holds
  <2>5. \A kind \in Kind, port \in 1 .. Ports(m) :
           left[Key(k[1], kind, port)] = m[<<kind, port>>]
    <3>1. \A kind \in Kind, port \in 1 .. Ports(m) :
             Key(k[1], kind, port) \in DOMAIN left
      BY <2>4 DEF LevelKeys
    <3>2. QED
      BY <1>3, <2>3, <3>1 DEF Holds
  <2>6. QED
    BY <2>2, <2>3, <2>4, <2>5 DEF Holds
<1>6. QED
  BY <1>4, <1>5 DEF Measured, left

(* The next packet of an open connection is its device's.                  *)
LEMMA SendersOwn ==
  ASSUME StateOK, StreamsOwned, NEW c \in Conn, NEW id, Receive(c, id),
         connectionInfo_[c].dev \in Device
  PROVE  Head(toBBU[c]) \in Own(connectionInfo_[c].dev)
<1>1. PICK e \in Device \cup {NoDevice} : OwnedBy(c, e)
  BY DEF StreamsOwned
<1>2. c \in Registered
  BY ReceiveTypes
<1>3. connectionInfo_[c].dev = e
  BY <1>1, <1>2, BBUAssumption DEF OwnedBy, BBUAssumption
<1>4. toBBU[c] \in Seq(Own(e)) /\ toBBU[c] # <<>>
  BY <1>1 DEF OwnedBy, Receive
<1>5. QED
  BY <1>3, <1>4, HeadTailProperties

(* A level keeps its hub unless that hub's connection is closed.           *)
LEMMA HubStays ==
  ASSUME StateOK, WireOK, StreamsOwned, NEW c \in Conn, BBUStep(c),
         NEW level, HubAt(level),
         CloseConnection(c) => \/ connectionInfo_[c].dev \notin Hub
                               \/ Hop[connectionInfo_[c].dev] # level
  PROVE  HubAt(level)'
<1>1. PICK x \in Registered : /\ connectionInfo_[x].dev \in Hub
                              /\ Hop[connectionInfo_[x].dev] = level
  BY DEF HubAt
<1>2. SUFFICES /\ x \in Registered'
               /\ connectionInfo_'[x].dev = connectionInfo_[x].dev
  BY <1>1 DEF HubAt
<1>3. CASE OnMessage(c)
  <2>1. PICK id : Records(c, id)
    BY <1>3, HandlerRecords DEF WireOK
  <2>2. x \in Registered'
    BY <2>1 DEF Records, Registered
  <2>3. CASE id = "CONNECT" /\ x = c
    <3>1. Receive(c, id) /\ connectionInfo_'[x].dev = Head(toBBU[c]).dev
      BY <2>1, <2>3 DEF Records
    <3>2. Head(toBBU[c]) \in Own(connectionInfo_[c].dev)
      BY <1>1, <2>3, <3>1, DeviceSets, SendersOwn
    <3>3. Head(toBBU[c]).id = "CONNECT"
      BY <2>3, <3>1 DEF Receive
    <3>4. QED
      BY <2>2, <2>3, <3>1, <3>2, <3>3 DEF Own
  <2>4. CASE id # "CONNECT" \/ x # c
    BY <2>1, <2>2, <2>4 DEF Records
  <2>5. QED
    BY <2>3, <2>4
<1>4. CASE OnAccept(c)
  BY <1>4 DEF OnAccept, Inserted, Registered
<1>5. CASE OnEof(c) \/ OnReadError(c)
  BY <1>5 DEF OnEof, OnReadError, bbuVars, Registered
<1>6. CASE CloseConnection(c)
  BY <1>1, <1>6 DEF CloseConnection, Unregister, Registered
<1>7. QED
  BY <1>3, <1>4, <1>5, <1>6 DEF BBUStep

LEMMA DelaysHandlers ==
  ASSUME OnePortCount, StateOK, WireOK, StreamsOwned, DelaysOK,
         NEW c \in Conn, BBUStep(c)
  PROVE  DelaysOK'
<1> USE TopologyAssumption DEF TopologyAssumption
<1>1. ASSUME ~ CloseConnection(c), NEW map, NEW base, NEW hop,
             Measured(map, base), delay_map' = map, m_base' = base,
             \A k \in DOMAIN map : k \in DOMAIN delay_map \/ k[1] = hop,
             HubAt(hop)
      PROVE  DelaysOK'
  <2>1. \A k \in DOMAIN map : HubAt(k[1])
    BY <1>1 DEF DelaysOK
  <2>2. \A level : HubAt(level) => HubAt(level)'
    BY <1>1, HubStays
  <2>3. \A k \in DOMAIN delay_map' : HubAt(k[1])'
    BY <1>1, <2>1, <2>2
  <2>4. Measured(delay_map', m_base')
    BY <1>1
  <2>5. QED
    BY <2>3, <2>4 DEF DelaysOK
<1>2. ASSUME ~ CloseConnection(c), UNCHANGED <<delay_map, m_base>>
      PROVE  DelaysOK'
  <2>1. \A level : HubAt(level) => HubAt(level)'
    BY <1>2, HubStays
  <2>2. QED
    BY <1>2, <2>1 DEF DelaysOK
<1>3. ASSUME NEW id \in {"DELAY_MEASUREMENT", "UPDATE_DELAY"}, Receive(c, id),
             Head(toBBU[c]).dev \in Hub
      PROVE  /\ HubAt(Hop[Head(toBBU[c]).dev])
             /\ Hop[Head(toBBU[c]).dev] \in Nat
             /\ Head(toBBU[c]).delays \in Measurement
  <2> DEFINE p == Head(toBBU[c])
  <2>1. connectionInfo_[c].dev \in Device /\ c \in Registered
    BY <1>3, HandlerKnowsDevice, ReceiveTypes DEF WireOK
  <2>2. p \in Own(connectionInfo_[c].dev) /\ p.id = id
    BY <1>3, <2>1, SendersOwn DEF Receive
  <2>3. p.dev = connectionInfo_[c].dev /\ p \in PacketToBBU
    BY <2>2 DEF Own
  <2>4. p.delays \in Measurement
    <3>1. p.dev \notin Rru
      BY <1>3
    <3>2. QED
      BY <2>2, <2>3, <3>1, PacketFields
  <2>5. QED
    BY <1>3, <2>1, <2>3, <2>4, DeviceSets DEF HubAt
<1>4. CASE HubDelayInfo(c)
  <2> DEFINE p == Head(toBBU[c])
             m == p.delays
             hop == Hop[p.dev]
  <2>1. Receive(c, "DELAY_MEASUREMENT") /\ p.dev \in Hub
    BY <1>4 DEF HubDelayInfo
  <2>2. HubAt(hop) /\ hop \in Nat /\ m \in Measurement
    BY <1>3, <2>1
  <2>3. ~ CloseConnection(c)
    BY <2>1 DEF Receive, CloseConnection
  <2>4. CASE CreateRouteIndex(connectionInfo_, c) = <<>>
    BY <1>2, <1>4, <2>3, <2>4 DEF HubDelayInfo
  <2>5. CASE CreateRouteIndex(connectionInfo_, c) # <<>>
    <3>1. /\ delay_map' = SplitStrings2Map(delay_map, hop, m)
          /\ m_base' = Ports(m)
      BY <1>4, <2>5 DEF HubDelayInfo
    <3> HIDE DEF hop, m
    <3>2. Measured(delay_map, m_base)
      BY DEF DelaysOK
    <3>3. QED
      BY <1>1, <2>2, <2>3, <3>1, <3>2, SplitMeasured
  <2>6. QED
    BY <2>4, <2>5
<1>5. CASE UpdateHUBDelayInfo(c)
  <2> DEFINE p == Head(toBBU[c])
             m == p.delays
             hop == Hop[p.dev]
             left == DeleteHubDelay(delay_map, hop)
  <2>1. Receive(c, "UPDATE_DELAY") /\ p \in PacketToBBU /\ p.id = "UPDATE_DELAY"
    BY <1>5, ReceiveTypes DEF UpdateHUBDelayInfo, Receive
  <2>2. p.dev \in Hub
    BY <2>1, PacketFields
  <2>3. HubAt(hop) /\ hop \in Nat /\ m \in Measurement
    BY <1>3, <2>1, <2>2
  <2>4. ~ CloseConnection(c)
    BY <2>1 DEF Receive, CloseConnection
  <2>5. delay_map' = SplitStrings2Map(left, hop, m) /\ m_base' = Ports(m)
    BY <1>5 DEF UpdateHUBDelayInfo
  <2> HIDE DEF hop, m
  <2>6. /\ Measured(left, m_base)
        /\ \A k \in DOMAIN left : k \in DOMAIN delay_map
    BY <2>3, DeleteMeasured DEF DelaysOK
  <2> HIDE DEF left
  <2>7. /\ Measured(SplitStrings2Map(left, hop, m), Ports(m))
        /\ \A k \in DOMAIN SplitStrings2Map(left, hop, m) :
             k \in DOMAIN delay_map \/ k[1] = hop
    BY <2>3, <2>6, SplitMeasured
  <2>8. QED
    BY <1>1, <2>3, <2>4, <2>5, <2>7
<1>6. CASE CloseConnection(c)
  <2> DEFINE d == connectionInfo_[c].dev
  <2>1. UNCHANGED m_base
    BY <1>6 DEF CloseConnection
  <2>2. CASE d \in Hub
    <3> DEFINE left == DeleteHubDelay(delay_map, Hop[d])
    <3>1. delay_map' = left /\ Hop[d] \in Nat
      BY <1>6, <2>2, DeviceSets DEF CloseConnection
    <3>2. /\ Measured(left, m_base)
          /\ \A k \in DOMAIN left : k \in DOMAIN delay_map /\ k[1] # Hop[d]
      BY <3>1, DeleteMeasured DEF DelaysOK
    <3> HIDE DEF left
    <3>3. \A level : HubAt(level) /\ level # Hop[d] => HubAt(level)'
      BY HubStays
    <3>4. \A k \in DOMAIN left : HubAt(k[1])'
      BY <3>2, <3>3 DEF DelaysOK
    <3>5. QED
      BY <2>1, <3>1, <3>2, <3>4 DEF DelaysOK
  <2>3. CASE d \notin Hub
    <3>1. UNCHANGED delay_map
      BY <1>6, <2>3 DEF CloseConnection
    <3>2. \A level : HubAt(level) => HubAt(level)'
      BY <2>3, HubStays
    <3>3. QED
      BY <2>1, <3>1, <3>2 DEF DelaysOK
  <2>4. QED
    BY <2>2, <2>3
<1>7. CASE ~ (HubDelayInfo(c) \/ UpdateHUBDelayInfo(c) \/ CloseConnection(c))
  <2>1. UNCHANGED <<delay_map, m_base>>
    BY <1>7 DEF BBUStep, OnMessage, OnAccept, OnEof, OnReadError,
                SetConnectionClient, RruDelayProcess, UpgradeResultProcess,
                UpgradeProcess, RRURFTxStatusProcess,
                NetworkTopologyMessageProcess, bbuVars, dataVars
  <2>2. QED
    BY <1>2, <1>7, <2>1
<1>8. QED
  BY <1>4, <1>5, <1>6, <1>7

LEMMA DelaysStep ==
  ASSUME OnePortCount, StateOK, WireOK, StreamsOwned, DelaysOK, [Next]_vars
  PROVE  DelaysOK'
<1>1. CASE \E c \in Conn : BBUStep(c)
  BY <1>1, DelaysHandlers
<1>2. CASE Restart
  BY <1>2 DEF Restart, DelaysOK, Measured
<1>3. CASE UNCHANGED bbuVars
  BY <1>3 DEF bbuVars, dataVars, DelaysOK, HubAt, Registered
<1>4. QED
  BY <1>1, <1>2, <1>3 DEF Next, DeviceStep, Environment, vars

(***************************************************************************)
(* The hubs' upgrades.                                                     *)
(***************************************************************************)

(* The packets the server writes.                                          *)
PacketToDev ==
  [id : {"CONNECT_RESULT", "UPDATE_DELAY", "COMPENSATION", "UPGRADE",
         "RFTX_STATUS"}]
    \cup [id : {"TOPOLOGY"}, states : SUBSET (UpgradeState \cup {Indeterminate})]

Coming(s, id) == \E i \in DOMAIN s : s[i].id = id

Upgrading(c) == /\ c \in Registered /\ connectionInfo_[c].dev \in Hub
                /\ connectionInfo_[c].upgradeState = 3

Rebooting(c) == \E h \in Device : h \in rebooting /\ peer[h] = c

Pending(c) == \/ link[c] = "closing"
              \/ ~ Alive(c)
              \/ Rebooting(c)
              \/ Coming(toDev[c], "UPGRADE")
              \/ Coming(toBBU[c], "UPGRADE_RESULT")

UpgradesOK == /\ toDev \in [Conn -> Seq(PacketToDev)]
              /\ \A c \in Conn : Upgrading(c) => Pending(c)

LEMMA ComingLater ==
  ASSUME NEW S, NEW s \in Seq(S), NEW id
  PROVE  /\ s # <<>> /\ Head(s).id # id /\ Coming(s, id) => Coming(Tail(s), id)
         /\ \A t \in Seq(S) : Coming(s \o t, id) <=> Coming(s, id) \/ Coming(t, id)
<1>1. ASSUME s # <<>>, Head(s).id # id, Coming(s, id)
      PROVE  Coming(Tail(s), id)
  <2>1. PICK i \in 1 .. Len(s) : s[i].id = id
    BY <1>1, LenProperties DEF Coming
  <2>2. i # 1 /\ i - 1 \in 1 .. Len(s) - 1
    BY <1>1, <2>1, HeadTailProperties
  <2>3. /\ Tail(s) \in Seq(S) /\ Len(Tail(s)) = Len(s) - 1
        /\ Tail(s)[i - 1] = s[i]
    BY <1>1, <2>2, HeadTailProperties
  <2>4. QED
    BY <2>1, <2>2, <2>3, LenProperties DEF Coming
<1>2. ASSUME NEW t \in Seq(S)
      PROVE  Coming(s \o t, id) <=> Coming(s, id) \/ Coming(t, id)
  <2>1. /\ Len(s) \in Nat /\ Len(t) \in Nat
        /\ DOMAIN s = 1 .. Len(s) /\ DOMAIN t = 1 .. Len(t)
        /\ DOMAIN (s \o t) = 1 .. Len(s) + Len(t)
        /\ \A i \in 1 .. Len(s) + Len(t) :
             (s \o t)[i] = IF i <= Len(s) THEN s[i] ELSE t[i - Len(s)]
    BY ConcatProperties, LenProperties
  <2>2. Coming(s \o t, id) => Coming(s, id) \/ Coming(t, id)
    BY <2>1 DEF Coming
  <2>3. Coming(s, id) => Coming(s \o t, id)
    BY <2>1 DEF Coming
  <2>4. ASSUME NEW i \in 1 .. Len(t), t[i].id = id
        PROVE  Coming(s \o t, id)
    <3>1. Len(s) + i \in 1 .. Len(s) + Len(t) /\ (s \o t)[Len(s) + i] = t[i]
      BY <2>1
    <3>2. QED
      BY <2>1, <2>4, <3>1 DEF Coming
  <2>5. QED
    BY <2>1, <2>2, <2>3, <2>4 DEF Coming
<1>3. QED
  BY <1>1, <1>2

(* What the handlers write takes nothing away.                             *)
Grown ==
  /\ toDev' \in [Conn -> Seq(PacketToDev)]
  /\ \A x \in Conn : Coming(toDev[x], "UPGRADE") => Coming(toDev'[x], "UPGRADE")

LEMMA ToDevicesGrow ==
  ASSUME toDev \in [Conn -> Seq(PacketToDev)],
         NEW pkts \in [Conn -> Seq(PacketToDev)], toDev' = ToDevices(pkts)
  PROVE  /\ Grown
         /\ \A x \in Conn : link[x] = "open" /\ Alive(x)
                              => toDev'[x] = toDev[x] \o pkts[x]
<1>1. \A x \in Conn : /\ toDev[x] \o pkts[x] \in Seq(PacketToDev)
                      /\ toDev[x] \in Seq(PacketToDev) /\ pkts[x] \in Seq(PacketToDev)
  BY ConcatProperties
<1>2. \A x \in Conn : toDev'[x] \in {toDev[x], toDev[x] \o pkts[x]}
  BY DEF ToDevices
<1>3. toDev' \in [Conn -> Seq(PacketToDev)]
  <2>1. toDev' = [x \in Conn |-> toDev'[x]]
    BY DEF ToDevices
  <2>2. \A x \in Conn : toDev'[x] \in Seq(PacketToDev)
    BY <1>1, <1>2
  <2>3. QED
    BY <2>1, <2>2
<1>4. ASSUME NEW x \in Conn, Coming(toDev[x], "UPGRADE")
      PROVE  Coming(toDev'[x], "UPGRADE")
  <2> DEFINE s == toDev[x]
             t == pkts[x]
  <2>1. s \in Seq(PacketToDev) /\ t \in Seq(PacketToDev) /\ Coming(s, "UPGRADE")
    BY <1>1, <1>4
  <2>2. toDev'[x] = s \/ toDev'[x] = s \o t
    BY <1>2
  <2> HIDE DEF s, t
  <2>3. Coming(s \o t, "UPGRADE")
    BY <2>1, ComingLater
  <2>4. QED
    BY <2>1, <2>2, <2>3
<1>5. QED
  BY <1>3, <1>4 DEF Grown, ToDevices

LEMMA WrittenPackets ==
  ASSUME NEW S, NEW id \in {"CONNECT_RESULT", "UPDATE_DELAY", "COMPENSATION",
                            "UPGRADE", "RFTX_STATUS"}
  PROVE  /\ [id |-> id] \in PacketToDev
         /\ ToTargets(S, id) \in [Conn -> Seq(PacketToDev)]
<1>1. [id |-> id] \in PacketToDev
  BY DEF PacketToDev
<1> DEFINE p == [id |-> id]
<1>2. \A x \in Conn : ToTargets(S, id)[x] \in {<<p>>, <<>>}
  BY DEF ToTargets
<1>3. ToTargets(S, id) = [x \in Conn |-> ToTargets(S, id)[x]]
  BY DEF ToTargets
<1>4. p \in PacketToDev
  BY <1>1
<1> HIDE DEF p
<1>5. <<p>> \in Seq(PacketToDev) /\ <<>> \in Seq(PacketToDev)
  BY <1>4, EmptySeq
<1>6. QED
  BY <1>1, <1>2, <1>3, <1>5

LEMMA OnePacketType ==
  ASSUME NEW c \in Conn, NEW p \in PacketToDev
  PROVE  OnePacket(c, p) \in [Conn -> Seq(PacketToDev)]
<1>1. <<p>> \in Seq(PacketToDev) /\ <<>> \in Seq(PacketToDev)
  BY EmptySeq
<1>2. QED
  BY <1>1 DEF OnePacket, NoPackets

LEMMA HandlersGrow ==
  ASSUME StateOK, toDev \in [Conn -> Seq(PacketToDev)], NEW c \in Conn, OnMessage(c)
  PROVE  Grown
<1>1. CASE UNCHANGED toDev
  BY <1>1 DEF Grown
<1>2. CASE SetConnectionClient(c)
  <2>1. NoPackets \in [Conn -> Seq(PacketToDev)]
    BY EmptySeq DEF NoPackets
  <2> DEFINE p == Head(toBBU[c])
             info == [connectionInfo_ EXCEPT ![c] =
                    [cInfo_ EXCEPT !.dev = p.dev, !.upgradeState = p.ResultID]]
             uphub == FindUpHub(info, c)
             update == IF p.dev \in Rru /\ uphub # {}
                     THEN OnePacket(First(uphub), [id |-> "UPDATE_DELAY"])
                     ELSE NoPackets
             q == [id |-> "CONNECT_RESULT"]
             u == [id |-> "UPDATE_DELAY"]
  <2>2. toDev' = ToDevices([update EXCEPT ![c] = Append(@, q)])
    BY <1>2 DEF SetConnectionClient
  <2>3. q \in PacketToDev /\ u \in PacketToDev
    BY DEF PacketToDev
  <2>4. update \in [Conn -> Seq(PacketToDev)]
    <3>1. CASE p.dev \in Rru /\ uphub # {}
      <4>1. DOMAIN info = Registered
        BY DEF Registered
      <4>2. uphub \subseteq Conn
        BY <4>1 DEF FindUpHub, AtHop, Connected, StateOK
      <4>3. update = OnePacket(First(uphub), u)
        BY <3>1
      <4> HIDE DEF uphub, u
      <4>4. First(uphub) \in Conn
        <5>1. uphub \in SUBSET Nat
          BY <4>2, DeviceSets
        <5>2. QED
          BY <3>1, <4>2, <5>1, FirstIsLeast
      <4> HIDE DEF update
      <4>5. QED
        BY <2>3, <4>3, <4>4, OnePacketType
    <3>2. CASE ~ (p.dev \in Rru /\ uphub # {})
      BY <2>1, <3>2
    <3>3. QED
      BY <3>1, <3>2
  <2> HIDE DEF update, q
  <2>5. Append(update[c], q) \in Seq(PacketToDev)
    BY <2>3, <2>4, AppendProperties
  <2>6. [update EXCEPT ![c] = Append(@, q)] \in [Conn -> Seq(PacketToDev)]
    BY <2>4, <2>5
  <2>7. QED
    BY <2>2, <2>6, ToDevicesGrow
<1>3. CASE RruDelayProcess(c)
  <2>1. \/ UNCHANGED toDev
        \/ toDev' = ToDevices(OnePacket(c, [id |-> "COMPENSATION"]))
    BY <1>3 DEF RruDelayProcess
  <2>2. [id |-> "COMPENSATION"] \in PacketToDev
    BY DEF PacketToDev
  <2>3. QED
    BY <1>1, <2>1, <2>2, OnePacketType, ToDevicesGrow
<1>4. CASE UpgradeProcess(c)
  <2>1. \E S : toDev' = ToDevices(ToTargets(S, "UPGRADE"))
    BY <1>4 DEF UpgradeProcess
  <2>2. QED
    BY <2>1, WrittenPackets, ToDevicesGrow
<1>5. CASE RRURFTxStatusProcess(c)
  <2>1. \E S : toDev' = ToDevices(ToTargets(S, "RFTX_STATUS"))
    BY <1>5 DEF RRURFTxStatusProcess
  <2>2. QED
    BY <2>1, WrittenPackets, ToDevicesGrow
<1>6. CASE NetworkTopologyMessageProcess(c)
  <2> DEFINE shown == Registered \ WithSource(connectionInfo_, "OAM")
             p == [id |-> "TOPOLOGY",
                   states |-> {connectionInfo_[x].upgradeState : x \in shown}]
  <2>1. toDev' = ToDevices(OnePacket(c, p))
    BY <1>6 DEF NetworkTopologyMessageProcess
  <2>2. \A x \in shown : connectionInfo_[x].upgradeState
                           \in UpgradeState \cup {Indeterminate}
    BY DEF StateOK, DeviceInfo
  <2>3. p \in PacketToDev
    BY <2>2 DEF PacketToDev
  <2> HIDE DEF p
  <2>4. QED
    BY <2>1, <2>3, OnePacketType, ToDevicesGrow
<1>7. QED
  BY <1>1, <1>2, <1>3, <1>4, <1>5, <1>6
  DEF OnMessage, HubDelayInfo, UpdateHUBDelayInfo, UpgradeResultProcess

LEMMA UpgradesHandlers ==
  ASSUME StateOK, WireOK, StreamsOwned, UpgradesOK, NEW c \in Conn, BBUStep(c)
  PROVE  UpgradesOK'
<1>0. toDev \in [Conn -> Seq(PacketToDev)]
  BY DEF UpgradesOK
<1>1. \A x \in Registered : connectionInfo_[x] \in DeviceInfo
  BY DEF StateOK
<1>2. UNCHANGED rebooting
  BY DEF BBUStep
<1>3. CASE OnMessage(c)
  <2>1. PICK id : Records(c, id)
    BY <1>3, HandlerRecords DEF WireOK
  <2>2. /\ Receive(c, id) /\ UNCHANGED <<link, peer>>
        /\ c \in Registered /\ Registered' = Registered
    BY <2>1 DEF Records, Registered
  <2>3. Grown
    BY <1>0, <1>3, HandlersGrow
  <2>4. /\ toBBU[c] \in Seq(PacketToBBU) /\ toBBU[c] # <<>>
        /\ Head(toBBU[c]).id = id
        /\ \A x \in Conn : toBBU'[x] = IF x = c THEN Tail(toBBU[c]) ELSE toBBU[x]
    BY <2>2 DEF Receive, StateOK
  <2>5. ASSUME NEW x \in Conn, Pending(x), id # "UPGRADE_RESULT" \/ x # c
        PROVE  Pending(x)'
    <3>1. Coming(toBBU[x], "UPGRADE_RESULT") => Coming(toBBU'[x], "UPGRADE_RESULT")
      BY <2>4, <2>5, ComingLater
    <3>2. QED
      BY <1>2, <2>2, <2>3, <2>5, <3>1 DEF Pending, Alive, Rebooting, Grown
  <2>6. ASSUME NEW x \in Conn, Upgrading(x)'
        PROVE  Pending(x)'
    <3>1. x \in Registered
      BY <2>2, <2>6 DEF Upgrading
    <3>2. ASSUME id \in {"CONNECT", "UPGRADE_RESULT"}, x = c,
                 connectionInfo_'[c].upgradeState = Head(toBBU[c]).ResultID
          PROVE  FALSE
      <4>1. PICK e \in Device \cup {NoDevice} : OwnedBy(c, e)
        BY DEF StreamsOwned
      <4>2. Head(toBBU[c]) \in Own(e)
        BY <2>4, <4>1, HeadTailProperties DEF OwnedBy
      <4>3. QED
        BY <2>4, <2>6, <3>2, <4>2 DEF Own, Upgrading
    <3>3. CASE id \in {"CONNECT", "UPGRADE_RESULT"} /\ x = c
      <4>1. \/ SetConnectionClient(c) \/ UpgradeResultProcess(c)
        BY <1>3, <2>4, <3>3 DEF OnMessage, Receive, HubDelayInfo,
             UpdateHUBDelayInfo, RruDelayProcess, UpgradeProcess,
             RRURFTxStatusProcess, NetworkTopologyMessageProcess
      <4> DEFINE n == Head(toBBU[c]).ResultID
      <4>2. \/ connectionInfo_' = [connectionInfo_ EXCEPT ![c] =
                    [cInfo_ EXCEPT !.dev = Head(toBBU[c]).dev, !.upgradeState = n]]
            \/ connectionInfo_' = [connectionInfo_ EXCEPT ![c].upgradeState = n]
        BY <4>1 DEF SetConnectionClient, UpgradeResultProcess
      <4> HIDE DEF n
      <4>3. connectionInfo_'[c].upgradeState = n
        BY <1>1, <2>2, <4>2 DEF cInfo_, DeviceInfo, Registered
      <4>4. QED
        BY <3>2, <3>3, <4>3 DEF n
    <3>4. CASE ~ (id \in {"CONNECT", "UPGRADE_RESULT"} /\ x = c)
      <4>1. connectionInfo_'[x].dev = connectionInfo_[x].dev
        BY <2>1, <3>1, <3>4 DEF Records
      <4>2. CASE connectionInfo_'[x].upgradeState = connectionInfo_[x].upgradeState
        <5>1. Upgrading(x)
          BY <2>6, <3>1, <4>1, <4>2 DEF Upgrading
        <5>2. QED
          BY <2>5, <3>4, <5>1 DEF UpgradesOK
      <4>3. CASE connectionInfo_'[x].upgradeState # connectionInfo_[x].upgradeState
        <5>1. UpgradeProcess(c)
          <6>1. CASE SetConnectionClient(c) \/ UpgradeResultProcess(c)
            <7>1. Head(toBBU[c]).id \in {"CONNECT", "UPGRADE_RESULT"}
              BY <6>1 DEF SetConnectionClient, UpgradeResultProcess, Receive
            <7>2. x # c
              BY <2>4, <3>4, <7>1
            <7>3. connectionInfo_'[x] = connectionInfo_[x]
              BY <3>1, <6>1, <7>2 DEF SetConnectionClient, UpgradeResultProcess,
                                      Registered
            <7>4. QED
              BY <4>3, <7>3
          <6>2. CASE HubDelayInfo(c) \/ RruDelayProcess(c)
            <7>1. CASE UNCHANGED connectionInfo_
              BY <4>3, <7>1
            <7>2. ASSUME NEW r, \/ connectionInfo_' =
                                      [connectionInfo_ EXCEPT ![c].routeIndex = r]
                                \/ \E s : connectionInfo_' =
                                      [connectionInfo_ EXCEPT ![c].routeIndex = r,
                                                      ![c].rruDelayInfo = s]
                  PROVE  connectionInfo_'[x].upgradeState
                           = connectionInfo_[x].upgradeState
              <8>1. connectionInfo_[x] \in DeviceInfo
                BY <1>1, <3>1
              <8>2. CASE x # c
                BY <3>1, <7>2, <8>2 DEF Registered
              <8>3. CASE connectionInfo_' = [connectionInfo_ EXCEPT ![c].routeIndex = r]
                BY <3>1, <8>1, <8>3 DEF Registered, DeviceInfo
              <8>4. ASSUME x = c, NEW s,
                           connectionInfo_' = [connectionInfo_ EXCEPT
                               ![c].routeIndex = r, ![c].rruDelayInfo = s]
                    PROVE  connectionInfo_'[x].upgradeState
                             = connectionInfo_[x].upgradeState
                <9> DEFINE rec == [connectionInfo_[c] EXCEPT !.routeIndex = r,
                                                             !.rruDelayInfo = s]
                <9>1. connectionInfo_' = [connectionInfo_ EXCEPT ![c] = rec]
                  BY <3>1, <8>4 DEF Registered
                <9>2. rec.upgradeState = connectionInfo_[c].upgradeState
                  BY <8>1, <8>4 DEF DeviceInfo
                <9> HIDE DEF rec
                <9>3. QED
                  BY <3>1, <8>4, <9>1, <9>2 DEF Registered
              <8>5. QED
                BY <7>2, <8>2, <8>3, <8>4
            <7>3. QED
              BY <4>3, <6>2, <7>1, <7>2 DEF HubDelayInfo, RruDelayProcess
          <6>3. QED
            BY <1>3, <4>3, <6>1, <6>2 DEF OnMessage, UpdateHUBDelayInfo,
              RRURFTxStatusProcess, NetworkTopologyMessageProcess
        <5>2. PICK S : /\ connectionInfo_' = [y \in Registered |->
                             IF y \in S
                             THEN [connectionInfo_[y] EXCEPT !.upgradeState = 3]
                             ELSE connectionInfo_[y]]
                       /\ toDev' = ToDevices(ToTargets(S, "UPGRADE"))
          BY <5>1 DEF UpgradeProcess
        <5>3. x \in S
          BY <3>1, <4>3, <5>2
        <5>4. CASE link[x] = "open" /\ Alive(x)
          <6> DEFINE q == ToTargets(S, "UPGRADE")
          <6>1. q \in [Conn -> Seq(PacketToDev)]
            BY WrittenPackets
          <6>2. q[x] = <<[id |-> "UPGRADE"]>>
            BY <5>3 DEF ToTargets
          <6>3. Coming(q[x], "UPGRADE")
            BY <6>2 DEF Coming
          <6> HIDE DEF q
          <6>4. toDev'[x] = toDev[x] \o q[x]
            BY <1>0, <5>2, <5>4, <6>1, ToDevicesGrow DEF q
          <6>5. toDev[x] \in Seq(PacketToDev) /\ q[x] \in Seq(PacketToDev)
            BY <1>0, <6>1
          <6> DEFINE s == toDev[x]
                     t == q[x]
          <6>6. /\ s \in Seq(PacketToDev) /\ t \in Seq(PacketToDev)
                /\ Coming(t, "UPGRADE") /\ toDev'[x] = s \o t
            BY <6>3, <6>4, <6>5
          <6> HIDE DEF s, t
          <6>7. Coming(toDev'[x], "UPGRADE")
            <7>1. \A w \in Seq(PacketToDev) :
                     Coming(s \o w, "UPGRADE") <=> Coming(s, "UPGRADE")
                                                    \/ Coming(w, "UPGRADE")
              BY <6>6, ComingLater
            <7>2. QED
              BY <6>6, <7>1
          <6>8. QED
            BY <6>7 DEF Pending
        <5>5. CASE link[x] # "open" \/ ~ Alive(x)
          <6>1. link[x] = "closing" \/ ~ Alive(x)
            BY <3>1, <5>5 DEF StateOK
          <6>2. QED
            BY <2>2, <6>1 DEF Pending, Alive
        <5>6. QED
          BY <5>4, <5>5
      <4>4. QED
        BY <4>2, <4>3
    <3>5. QED
      BY <3>3, <3>4
  <2>7. QED
    BY <2>3, <2>6 DEF UpgradesOK, Grown
<1>4. ASSUME ~ OnMessage(c)
      PROVE  /\ UNCHANGED peer
             /\ \A x \in Conn : /\ toDev'[x] = toDev[x] \/ toDev'[x] = <<>>
                                /\ x # c => /\ link'[x] = link[x]
                                            /\ toBBU'[x] = toBBU[x]
                                            /\ toDev'[x] = toDev[x]
             /\ \A x \in Registered' :
                  \/ x \in Registered /\ connectionInfo_'[x] = connectionInfo_[x]
                  \/ connectionInfo_'[x] = cInfo_
             /\ DOMAIN toDev' = Conn /\ toDev' = [x \in Conn |-> toDev'[x]]
             /\ link'[c] = "closing"
                \/ ~ c \in Registered'
                \/ connectionInfo_'[c] = cInfo_
                \/ c \notin Registered
  <2>1. CASE OnAccept(c)
    <3>1. c \notin Registered
      BY <2>1 DEF OnAccept, StateOK
    <3>2. QED
      BY <1>0, <2>1, <3>1 DEF OnAccept, Inserted, Registered, StateOK
  <2>2. CASE OnEof(c)
    BY <1>0, <2>2 DEF OnEof, Receive, Registered, StateOK, bbuVars
  <2>3. CASE OnReadError(c)
    BY <1>0, <2>3 DEF OnReadError, Registered, StateOK, bbuVars
  <2>4. CASE CloseConnection(c)
    BY <1>0, <2>4 DEF CloseConnection, Unregister, Registered, StateOK
  <2>5. QED
    BY <1>4, <2>1, <2>2, <2>3, <2>4 DEF BBUStep
<1>5. CASE ~ OnMessage(c)
  <2>1. toDev' \in [Conn -> Seq(PacketToDev)]
    <3>1. \A x \in Conn : toDev'[x] \in Seq(PacketToDev)
      BY <1>0, <1>4, <1>5, EmptySeq
    <3>2. QED
      BY <1>4, <1>5, <3>1
  <2>2. ASSUME NEW x \in Conn, Upgrading(x)'
        PROVE  Pending(x)'
    <3>1. cInfo_.dev \notin Hub
      BY DeviceSets, BBUAssumption DEF cInfo_, BBUAssumption
    <3>2. x \in Registered /\ connectionInfo_'[x] = connectionInfo_[x]
      BY <1>4, <1>5, <2>2, <3>1 DEF Upgrading
    <3>3. Pending(x)
      BY <2>2, <3>2 DEF Upgrading, UpgradesOK
    <3>4. CASE x = c
      BY <1>4, <1>5, <2>2, <3>1, <3>2, <3>4 DEF Upgrading, Pending
    <3>5. CASE x # c
      BY <1>4, <1>5, <1>2, <3>3, <3>5 DEF Pending, Alive, Rebooting
    <3>6. QED
      BY <3>4, <3>5
  <2>3. QED
    BY <2>1, <2>2 DEF UpgradesOK
<1>6. QED
  BY <1>3, <1>5

LEMMA UpgradesAnswers ==
  ASSUME "rebootFails" \notin Faults, StateOK, WireOK, StreamsOwned, UpgradesOK,
         NEW d \in Device, Answers(d), \A h \in rebooting : h \in rebooting',
         UNCHANGED bbuVars
  PROVE  UpgradesOK'
<1> DEFINE c == peer[d]
<1>1. PICK id, pkts :
        /\ Answer(d, id, pkts) /\ pkts \in Seq(Own(d))
        /\ d \in Hub /\ id = "UPGRADE"
             => \/ Len(pkts) = 1 /\ pkts[1].id = "UPGRADE_RESULT"
                \/ d \in rebooting'
  BY DEF Answers
<1>2. /\ c \in Conn /\ toDev[c] # <<>> /\ Head(toDev[c]).id = id
      /\ toDev' = [toDev EXCEPT ![c] = Tail(toDev[c])]
      /\ toBBU' = FromDevice(c, pkts)
      /\ UNCHANGED <<link, peer>>
  BY <1>1 DEF Answer, StateOK
<1>3. \A x \in Conn : /\ toDev[x] \in Seq(PacketToDev)
                      /\ toBBU[x] \in Seq(PacketToBBU)
  BY DEF UpgradesOK, StateOK
<1>4. pkts \in Seq(PacketToBBU)
  <2>1. \A i \in 1 .. Len(pkts) : pkts[i] \in PacketToBBU
    BY <1>1, LenProperties, ElementOfSeq DEF Own
  <2>2. pkts \in [1 .. Len(pkts) -> PacketToBBU] /\ Len(pkts) \in Nat
    BY <1>1, <2>1, LenProperties
  <2>3. QED
    BY <2>2, SeqDef
<1> HIDE DEF c
<1>5. toDev' \in [Conn -> Seq(PacketToDev)]
  <2>1. Tail(toDev[c]) \in Seq(PacketToDev)
    BY <1>2, <1>3, HeadTailProperties
  <2>2. QED
    BY <1>2, <2>1 DEF UpgradesOK
<1>6. ASSUME NEW x \in Conn, Upgrading(x)'
      PROVE  Pending(x)'
  <2>1. Upgrading(x)
    BY <1>6 DEF Upgrading, bbuVars, Registered
  <2>2. Pending(x)
    BY <2>1 DEF UpgradesOK
  <2>3. CASE x # c
    <3>1. toDev'[x] = toDev[x] /\ toBBU'[x] = toBBU[x]
      BY <1>2, <2>3 DEF FromDevice, UpgradesOK, StateOK
    <3>2. QED
      BY <1>2, <2>2, <3>1 DEF Pending, Alive, Rebooting
  <2>4. CASE x = c /\ link[x] = "closing"
    BY <1>2, <2>4 DEF Pending
  <2>5. CASE x = c /\ link[x] # "closing"
    <3>1. link[x] = "open"
      BY <2>1, <2>5 DEF Upgrading, StateOK
    <3> DEFINE s == toBBU[x]
    <3>2. s \in Seq(PacketToBBU) /\ toBBU'[x] = s \o pkts
      BY <1>2, <1>3, <2>5, <3>1 DEF FromDevice, StateOK
    <3> HIDE DEF s
    <3>3. Coming(toBBU'[x], "UPGRADE_RESULT")
            <=> Coming(s, "UPGRADE_RESULT") \/ Coming(pkts, "UPGRADE_RESULT")
      <4>1. \A t \in Seq(PacketToBBU) : Coming(s \o t, "UPGRADE_RESULT")
              <=> Coming(s, "UPGRADE_RESULT") \/ Coming(t, "UPGRADE_RESULT")
        BY <3>2, ComingLater
      <4>2. QED
        BY <1>4, <3>2, <4>1
    <3>4. CASE id = "UPGRADE"
      <4>1. d \in Hub
        <5>1. PICK e \in Device \cup {NoDevice} : OwnedBy(x, e)
          BY DEF StreamsOwned
        <5>2. e = d
          BY <2>5, <5>1 DEF OwnedBy, c
        <5>3. connectionInfo_[x].dev \in Hub
          BY <2>1 DEF Upgrading
        <5>4. connectionInfo_[x].dev = d
          BY <2>1, <5>1, <5>2, <5>3, DeviceSets, BBUAssumption
          DEF OwnedBy, Upgrading, BBUAssumption
        <5>5. QED
          BY <5>3, <5>4
      <4>2. CASE d \in rebooting'
        BY <1>2, <2>5, <4>2 DEF Pending, Rebooting, c
      <4>3. CASE d \notin rebooting'
        <5>1. Coming(pkts, "UPGRADE_RESULT")
          BY <1>1, <1>4, <3>4, <4>1, <4>3, LenProperties DEF Coming
        <5>2. QED
          BY <3>3, <5>1 DEF Pending
      <4>4. QED
        BY <4>2, <4>3
    <3>5. CASE id # "UPGRADE"
      <4>1. Coming(toDev[x], "UPGRADE") => Coming(Tail(toDev[x]), "UPGRADE")
        BY <1>2, <1>3, <2>5, <3>5, ComingLater
      <4>2. toDev'[x] = Tail(toDev[x])
        BY <1>2, <2>5 DEF UpgradesOK
      <4>3. QED
        BY <1>2, <2>2, <3>3, <4>1, <4>2 DEF Pending, Alive, Rebooting, s
    <3>6. QED
      BY <3>4, <3>5
  <2>6. QED
    BY <2>3, <2>4, <2>5
<1>7. QED
  BY <1>5, <1>6 DEF UpgradesOK

LEMMA UpgradesDrops ==
  ASSUME StateOK, WireOK, UpgradesOK, NEW d \in Device, peer[d] # None,
         NEW rest, Drop(d, rest), UNCHANGED bbuVars,
         \A h \in rebooting \ {d} : h \in rebooting'
  PROVE  UpgradesOK'
<1>0. PICK c \in Conn : c = peer[d]
  BY DEF StateOK
<1>1. /\ peer' = [peer EXCEPT ![d] = None]
      /\ toDev' = [toDev EXCEPT ![c] = <<>>]
      /\ \A x \in Conn \ {c} : link'[x] = link[x] /\ toBBU'[x] = toBBU[x]
  BY <1>0 DEF Drop, StateOK
<1>2. toDev' \in [Conn -> Seq(PacketToDev)]
  BY <1>1, EmptySeq DEF UpgradesOK
<1>3. ~ Alive(c)'
  BY <1>0, <1>1, DeviceSets DEF Alive, WireOK, OneHolder, StateOK
<1>4. ASSUME NEW x \in Conn, Upgrading(x)'
      PROVE  Pending(x)'
  <2>1. Pending(x)
    BY <1>4 DEF Upgrading, bbuVars, Registered, UpgradesOK
  <2>2. CASE x = c
    BY <1>3, <2>2 DEF Pending
  <2>3. CASE x # c
    <3>1. ~ Alive(x) => ~ Alive(x)'
      BY <1>1, DeviceSets DEF Alive, StateOK
    <3>2. toDev'[x] = toDev[x]
      BY <1>1, <2>3 DEF UpgradesOK
    <3>3. Rebooting(x) => Rebooting(x)'
      BY <1>0, <1>1, <2>3 DEF Rebooting, StateOK
    <3>4. QED
      BY <1>1, <2>1, <2>3, <3>1, <3>2, <3>3 DEF Pending
  <2>4. QED
    BY <2>2, <2>3
<1>5. QED
  BY <1>2, <1>4 DEF UpgradesOK

LEMMA UpgradesStep ==
  ASSUME "rebootFails" \notin Faults,
         StateOK, WireOK, StreamsOwned, UpgradesOK, [Next]_vars
  PROVE  UpgradesOK'
<1>1. CASE \E c \in Conn : BBUStep(c)
  BY <1>1, UpgradesHandlers
<1>2. ASSUME NEW d \in Device, DeviceStep(d)
      PROVE  UpgradesOK'
  <2>1. UNCHANGED bbuVars
    BY <1>2 DEF DeviceStep
  <2>2. QED
    BY <1>2, <2>1, DeviceMoves, KeepsRebooting, UpgradesAnswers, UpgradesDrops
    DEF Drops
<1>3. CASE Restart
  <2>1. toDev' \in [Conn -> Seq(PacketToDev)]
    BY <1>3, EmptySeq DEF Restart, UpgradesOK
  <2>2. QED
    BY <1>3, <2>1 DEF Restart, UpgradesOK, Upgrading, Registered
<1>4. ASSUME NEW x \in Conn, UNCHANGED bbuVars, Upgrading(x)'
      PROVE  Upgrading(x) /\ Pending(x)
  BY <1>4 DEF Upgrading, bbuVars, Registered, UpgradesOK
<1>5. ASSUME NEW d \in Device, NEW c \in Conn, Connect(d, c),
             UNCHANGED <<bbuVars, rebooting>>
      PROVE  UpgradesOK'
  <2>1. /\ peer' = [peer EXCEPT ![d] = c] /\ link[c] = "free" /\ UNCHANGED toDev
        /\ \A x \in Conn \ {c} : link'[x] = link[x] /\ toBBU'[x] = toBBU[x]
    BY <1>5 DEF Connect, StateOK
  <2>2. ASSUME NEW x \in Conn, Upgrading(x)'
        PROVE  Pending(x)'
    <3>1. Upgrading(x) /\ Pending(x)
      BY <1>4, <1>5, <2>2
    <3>2. x # c
      BY <2>1, <3>1 DEF Upgrading, StateOK
    <3>3. ~ Alive(x) => ~ Alive(x)'
      BY <2>1, <3>2 DEF Alive, StateOK
    <3>4. Rebooting(x) => Rebooting(x)'
      BY <1>5, <2>1, <3>2, DeviceSets DEF Rebooting, Connect, StateOK
    <3>5. QED
      BY <2>1, <3>1, <3>2, <3>3, <3>4 DEF Pending
  <2>3. QED
    BY <2>1, <2>2 DEF UpgradesOK
<1>6. ASSUME NEW d \in Device, Exit(d) \/ PowerLoss(d) \/ GoesDown(d),
             UNCHANGED bbuVars, rebooting' = rebooting \ {d}
      PROVE  UpgradesOK'
  <2>1. CASE Exit(d) \/ PowerLoss(d)
    BY <1>6, <2>1, UpgradesDrops DEF Exit, PowerLoss
  <2>2. CASE Drops(d)
    BY <1>6, <2>2, UpgradesDrops DEF Drops
  <2>3. CASE UNCHANGED netVars /\ peer[d] = None
    <3>1. \A x \in Conn : Rebooting(x) => Rebooting(x)'
      BY <1>6, <2>3, DeviceSets DEF Rebooting, netVars
    <3>2. QED
      BY <1>4, <1>6, <2>3, <3>1 DEF UpgradesOK, Pending, Alive, netVars
  <2>4. QED
    BY <1>6, <2>1, <2>2, <2>3, GoingDown DEF GoesDown
<1>7. ASSUME NEW d \in Oam, OamRequest(d, KnownRoutes),
             UNCHANGED <<bbuVars, rebooting>>
      PROVE  UpgradesOK'
  <2>1. PICK p \in Request(KnownRoutes) : toBBU' = FromDevice(peer[d], <<p>>)
    BY <1>7 DEF OamRequest
  <2>2. UNCHANGED <<link, peer, toDev>>
    BY <1>7 DEF OamRequest
  <2>3. p \in PacketToBBU
    <3>1. \A c \in Registered : connectionInfo_[c].routeIndex \in Route
      BY DEF StateOK, DeviceInfo
    <3>2. KnownRoutes \subseteq Route
      BY <3>1, EmptySeq DEF KnownRoutes, Route
    <3>3. QED
      BY <3>2 DEF Request, PacketToBBU
  <2>4. ASSUME NEW x \in Conn, Coming(toBBU[x], "UPGRADE_RESULT")
        PROVE  Coming(toBBU'[x], "UPGRADE_RESULT")
    <3> DEFINE s == toBBU[x]
               t == <<p>>
    <3>1. s \in Seq(PacketToBBU) /\ t \in Seq(PacketToBBU)
      BY <2>3 DEF StateOK
    <3>2. toBBU'[x] = s \/ toBBU'[x] = s \o t
      BY <2>1 DEF FromDevice, StateOK
    <3>3. Coming(s, "UPGRADE_RESULT")
      BY <2>4
    <3> HIDE DEF s, t
    <3>4. \A w \in Seq(PacketToBBU) : Coming(s \o w, "UPGRADE_RESULT")
            <=> Coming(s, "UPGRADE_RESULT") \/ Coming(w, "UPGRADE_RESULT")
      BY <3>1, ComingLater
    <3>5. QED
      BY <3>1, <3>2, <3>3, <3>4
  <2>5. QED
    BY <1>4, <1>7, <2>2, <2>4 DEF UpgradesOK, Pending, Alive, Rebooting
<1>8. CASE UNCHANGED vars
  BY <1>8 DEF vars, netVars, bbuVars, UpgradesOK, Upgrading, Registered, Pending,
              Alive, Rebooting
<1>9. CASE Environment
  <2>1. CASE Restart
    BY <1>3, <2>1
  <2>2. ASSUME NEW d \in Device, UNCHANGED bbuVars,
               \/ /\ \/ \E c \in Conn : Connect(d, c)
                     \/ d \in Oam /\ OamRequest(d, KnownRoutes)
                  /\ UNCHANGED rebooting
               \/ /\ Exit(d) \/ PowerLoss(d) \/ GoesDown(d)
                  /\ rebooting' = rebooting \ {d}
        PROVE  UpgradesOK'
    BY <1>5, <1>6, <1>7, <2>2
  <2>3. QED
    BY <1>9, <2>1, <2>2 DEF Environment, GoesDown
<1>10. QED
  BY <1>1, <1>2, <1>8, <1>9 DEF Next

(***************************************************************************)
(* The theorems.                                                           *)
(***************************************************************************)
LEMMA RegistryInit ==
  ASSUME Init
  PROVE  StreamsOwned /\ RouteIndexShape /\ DelaysOK /\ UpgradesOK
<1> USE DEF Init, NetInit, BBUInit
<1>1. Registered = {} /\ DOMAIN delay_map = {}
  BY DEF Registered
<1>2. \A c \in Conn : OwnedBy(c, NoDevice)
  <2>1. \A c \in Conn, e \in Device : peer[e] # c
    BY DeviceSets
  <2>2. QED
    BY <1>1, <2>1, EmptySeq DEF OwnedBy
<1>3. StreamsOwned
  BY <1>2 DEF StreamsOwned
<1>4. RouteIndexShape /\ DelaysOK
  BY <1>1 DEF RouteIndexShape, DelaysOK, Measured
<1>5. UpgradesOK
  BY <1>1, EmptySeq DEF UpgradesOK, Upgrading
<1>6. QED
  BY <1>3, <1>4, <1>5

(* The registry says the devices' own: every packet that waits on a        *)
(* connection, and the record kept for it, are of the one device that made *)
(* it (SetConnectionClient, DelayMeasurementProcess, UpgradeResultProcess  *)
(* never act on another's connection).                                     *)
THEOREM OwnersKept == Spec => []StreamsOwned
<1>1. Init => StreamsOwned
  BY RegistryInit
<1>2. IInv /\ StreamsOwned /\ [Next]_vars => StreamsOwned'
  BY OwnedStep DEF IInv
<1>3. QED
  BY <1>1, <1>2, Inductive, PTL DEF Spec

(* Every route index kept starts with its device's ports and has one       *)
(* element per level (CreateRouteIndex, SetDeviceRouteIndex), whatever     *)
(* connected, left or came back in between.                                *)
THEOREM RoutesShaped == Spec => []RouteIndexShape
<1>1. Init => RouteIndexShape
  BY RegistryInit
<1>2. IInv /\ RouteIndexShape /\ [Next]_vars => RouteIndexShape'
  BY RouteStep DEF IInv
<1>3. QED
  BY <1>1, <1>2, Inductive, PTL DEF Spec

LEMMA DelaysMeasured ==
  ASSUME DelaysOK, StateOK
  PROVE  OneMeasurementPerLevel /\ DelaysHaveHub
<1>1. ASSUME NEW level \in {k[1] : k \in DOMAIN delay_map}
      PROVE  \E m \in Measurement :
               /\ {<<k[2], k[3]>> : k \in KeysAt(level)} = DOMAIN m
               /\ \A k \in KeysAt(level) : delay_map[k] = m[<<k[2], k[3]>>]
  <2>1. PICK m \in Measurement : Holds(delay_map, level, m)
    BY <1>1 DEF DelaysOK, Measured
  <2>2. /\ KeysAt(level) = LevelKeys(level, Ports(m))
        /\ \A kind \in Kind, port \in 1 .. Ports(m) :
              delay_map[Key(level, kind, port)] = m[<<kind, port>>]
    BY <2>1 DEF Holds, KeysAt
  <2>3. DOMAIN m = Kind \X (1 .. Ports(m))
    BY TopologyAssumption DEF TopologyAssumption
  <2>4. \A kind, port : /\ Key(level, kind, port)[2] = kind
                        /\ Key(level, kind, port)[3] = port
    BY DEF Key
  <2>5. \A k \in KeysAt(level) :
           /\ <<k[2], k[3]>> \in DOMAIN m
           /\ delay_map[k] = m[<<k[2], k[3]>>]
    BY <2>2, <2>3, <2>4 DEF LevelKeys
  <2>6. ASSUME NEW x \in DOMAIN m
        PROVE  x \in {<<k[2], k[3]>> : k \in KeysAt(level)}
    <3>1. PICK kind \in Kind, port \in 1 .. Ports(m) : x = <<kind, port>>
      BY <2>3
    <3>2. Key(level, kind, port) \in KeysAt(level)
      BY <2>2 DEF LevelKeys
    <3>3. QED
      BY <2>4, <3>1, <3>2
  <2>7. {<<k[2], k[3]>> : k \in KeysAt(level)} = DOMAIN m
    BY <2>5, <2>6
  <2>8. QED
    BY <2>5, <2>7
<1>2. ASSUME NEW k \in DOMAIN delay_map
      PROVE  \E c \in WithSource(connectionInfo_, "HUB") :
                Hop[connectionInfo_[c].dev] = k[1]
  <2>1. PICK c \in Registered : /\ connectionInfo_[c].dev \in Hub
                                /\ Hop[connectionInfo_[c].dev] = k[1]
    BY <1>2 DEF DelaysOK, HubAt
  <2>2. c \in WithSource(connectionInfo_, "HUB")
    <3>1. connectionInfo_[c].dev # NoDevice
      BY <2>1, DeviceSets, BBUAssumption DEF BBUAssumption
    <3>2. Source(connectionInfo_[c].dev) = "HUB"
      BY <2>1, TopologyAssumption DEF Source, TopologyAssumption
    <3>3. QED
      BY <2>1, <3>1, <3>2 DEF WithSource, Connected, Registered
  <2>3. QED
    BY <2>1, <2>2
<1>3. QED
  BY <1>1, <1>2 DEF OneMeasurementPerLevel, DelaysHaveHub

LEMMA DelaysInvariant ==
  ASSUME OnePortCount
  PROVE  Spec => [](DelaysOK /\ IInv)
<1>1. Init => DelaysOK
  BY RegistryInit
<1>2. IInv /\ StreamsOwned /\ DelaysOK /\ [Next]_vars => DelaysOK'
  BY DelaysStep DEF IInv
<1>3. QED
  BY <1>1, <1>2, Inductive, OwnersKept, PTL DEF Spec

(* Where all hubs have the same number of ports, what delay_map holds of a *)
(* level is one whole measurement (HubDelayInfo, UpdateHUBDelayInfo and    *)
(* DeleteHubDelay with its one m_base).                                    *)
THEOREM WholeMeasurements ==
  ASSUME OnePortCount
  PROVE  Spec => []OneMeasurementPerLevel
<1>1. DelaysOK /\ IInv => OneMeasurementPerLevel
  BY DelaysMeasured DEF IInv
<1>2. QED
  BY <1>1, DelaysInvariant, PTL

(* ... and a level has delays only while a hub of it is registered         *)
(* (closeConnection).                                                      *)
THEOREM DelaysOfHubs ==
  ASSUME OnePortCount
  PROVE  Spec => []DelaysHaveHub
<1>1. DelaysOK /\ IInv => DelaysHaveHub
  BY DelaysMeasured DEF IInv
<1>2. QED
  BY <1>1, DelaysInvariant, PTL

LEMMA UpgradesPending ==
  ASSUME UpgradesOK, StateOK
  PROVE  UpgradingIsPending
<1>1. ASSUME NEW c \in WithSource(connectionInfo_, "HUB"),
             connectionInfo_[c].upgradeState = 3
      PROVE  Pending(c)
  <2>1. c \in Registered /\ connectionInfo_[c].dev \in Device
    BY DEF WithSource, Connected, Registered, StateOK, DeviceInfo
  <2>2. Source(connectionInfo_[c].dev) = "HUB"
    BY DEF WithSource
  <2>3. connectionInfo_[c].dev \in Hub
    BY <2>1, <2>2 DEF Source, Device
  <2>4. QED
    BY <1>1, <2>1, <2>3 DEF Upgrading, UpgradesOK, StateOK
<1>2. QED
  BY <1>1 DEF UpgradingIsPending, Pending, Rebooting, Coming

(* Unless a hub's reboot command fails, a registered hub shown as          *)
(* upgrading has the request or its result under way, is about to reboot,  *)
(* or is gone                                                              *)
(* (HUBUpgradeProcess, UpgradeResultProcess, the hub's UpgradeProcess).    *)
THEOREM UpgradesEnd ==
  ASSUME "rebootFails" \notin Faults
  PROVE  Spec => []UpgradingIsPending
<1>1. Init => UpgradesOK
  BY RegistryInit
<1>2. IInv /\ StreamsOwned /\ UpgradesOK /\ [Next]_vars => UpgradesOK'
  BY UpgradesStep DEF IInv
<1>3. UpgradesOK /\ IInv => UpgradingIsPending
  BY UpgradesPending DEF IInv
<1>4. QED
  BY <1>1, <1>2, <1>3, Inductive, OwnersKept, PTL DEF Spec

=============================================================================
