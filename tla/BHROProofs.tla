----------------------------- MODULE BHROProofs -----------------------------
(***************************************************************************)
(* The tables of BHRO's BBU for any site, any number of names and any      *)
(* number of faults.                                                       *)
(***************************************************************************)
EXTENDS BHRO, SequenceTheorems, WellFoundedInduction, TLAPS

Message == {"MSG_CONNECT", "MSG_DELAY_MEASUREMENT", "MSG_UPDATE_DELAY", "EOF"}
Packet == Message \X (Device \cup {Nobody})

(***************************************************************************)
(* The inductive invariant.                                                *)
(***************************************************************************)
(* What device a name belongs to, and what can be on its way from it: one  *)
(* CONNECT in front when it is not announced, then its own answers.        *)
Matches(c, packet, i) ==
  LET dev == connectionInfo_[c].dev
  IN  /\ packet[1] = "MSG_CONNECT" =>
           /\ i = 1 /\ dev = "unannounced"
           /\ packet[2] \in Device /\ peer[c] \in {packet[2], Nobody}
      /\ packet[1] = "MSG_DELAY_MEASUREMENT" =>
           packet[2] \in Device /\ dev = packet[2]
      /\ packet[1] = "MSG_UPDATE_DELAY" =>
           packet[2] \in Hub /\ dev = packet[2]

Belongs(c) ==
  LET dev == connectionInfo_[c].dev
  IN  /\ dev = "free" => stream[c] = <<>> /\ peer[c] = Nobody
      /\ dev \in Device => peer[c] \in {dev, Nobody}
      /\ dev \notin Device => asked[c] = {}
      /\ "MSG_UPDATE_DELAY" \in asked[c] => dev \in Hub

StreamsMatch ==
  /\ stream \in [Name -> Seq(Packet)]
  /\ \A c \in Name : \A i \in 1 .. Len(stream[c]) : Matches(c, stream[c][i], i)
  /\ \A c \in Name : Belongs(c)

(* What the tables say of the registry.                                    *)
TablesMatch ==
  FlagMarksRefused /\ RoutedOrClosing /\ StaleOnlyAtPortZero /\ TotalsHaveRru

BHROInv == TypeOK /\ StreamsMatch /\ TablesMatch

(***************************************************************************)
(* The constants.                                                          *)
(***************************************************************************)
LEMMA Site ==
  /\ Name \subseteq Nat /\ m_base \in Nat \ {0} /\ MaxFaults \in Nat
  /\ Hub \cap Rru = {} /\ Hub \subseteq Device /\ Rru \subseteq Device
  /\ Nobody \notin Device /\ "free" \notin Device /\ "unannounced" \notin Device
  /\ \A d \in Device : hop[d] \in Nat \ {0} /\ uport[d] \in 0 .. m_base - 1
  /\ \A d \in Rru : LinkDelay[d] \in Nat
  BY SiteAssumption DEF SiteAssumption, Device, Nobody

(* Every nonempty set of names has a least one, begin() of the map.        *)
LEMMA MinIsMember ==
  ASSUME NEW T \in SUBSET Name, T # {}
  PROVE  Min(T) \in T
<1>1. T \subseteq Nat
  BY Site
<1>2. PICK x \in T : \A y \in T : <<y, x>> \notin OpToRel(<, Nat)
  BY <1>1, NatLessThanWellFounded, WFMin, Zenon
<1>3. \A y \in T : ~ (y < x)
  BY <1>1, <1>2 DEF OpToRel
<1>4. \A y \in T : x =< y
  BY <1>1, <1>3, SMT
<1>5. QED
  BY <1>4 DEF Min

(* The entries of names without a device.                                  *)
LEMMA FreeType ==
  /\ Free \in DeviceInfo /\ Free.dev = "free"
  /\ cInfo_ \in DeviceInfo /\ cInfo_.dev = "unannounced"
<1>1. <<>> \in Seq(0 .. m_base - 1)
  OBVIOUS
<1>2. Free \in DeviceInfo /\ Free.dev = "free"
  BY <1>1 DEF Free, DeviceInfo
<1>3. cInfo_ = [dev |-> "unannounced", route |-> <<>>, offset |-> Unmeasured]
  BY DEF cInfo_, Free
<1>4. QED
  BY <1>1, <1>2, <1>3 DEF DeviceInfo

(***************************************************************************)
(* The list of closing handles.                                            *)
(***************************************************************************)
LEMMA ClosingPush ==
  ASSUME closing_handles \in Seq(Name), NEW c \in Name, uv_close(c)
  PROVE  closing_handles' \in Seq(Name) /\ Closing' = Closing \cup {c}
<1> DEFINE q == closing_handles
<1>1. <<c>> \in Seq(Name) /\ Len(<<c>>) = 1 /\ <<c>>[1] = c
  OBVIOUS
<1>2. /\ q' \in Seq(Name) /\ Len(q') = 1 + Len(q)
      /\ \A i \in 1 .. 1 + Len(q) : q'[i] = IF i <= 1 THEN <<c>>[i] ELSE q[i - 1]
  BY <1>1, ConcatProperties DEF uv_close
<1>3. Len(q) \in Nat /\ DOMAIN q = 1 .. Len(q) /\ DOMAIN q' = 1 .. 1 + Len(q)
  BY <1>2, LenProperties
<1>4. ASSUME NEW x \in Closing
      PROVE  x \in Closing'
  <2>1. PICK i \in 1 .. Len(q) : x = q[i]
    BY <1>3 DEF Closing
  <2>2. i + 1 \in DOMAIN q' /\ q'[i + 1] = q[i]
    BY <1>2, <1>3, <2>1
  <2>3. QED
    BY <2>1, <2>2 DEF Closing
<1>5. ASSUME NEW x \in Closing'
      PROVE  x \in Closing \cup {c}
  <2>1. PICK i \in 1 .. 1 + Len(q) : x = q'[i]
    BY <1>3 DEF Closing
  <2>2. CASE i = 1
    BY <1>1, <1>2, <1>3, <2>1, <2>2
  <2>3. CASE i # 1
    <3>1. x = q[i - 1] /\ i - 1 \in DOMAIN q
      BY <1>2, <1>3, <2>1, <2>3
    <3>2. QED
      BY <3>1 DEF Closing
  <2>4. QED
    BY <2>2, <2>3
<1>6. c \in Closing'
  <2>1. 1 \in DOMAIN q' /\ q'[1] = c
    BY <1>1, <1>2, <1>3
  <2>2. QED
    BY <2>1 DEF Closing
<1>7. QED
  BY <1>2, <1>4, <1>5, <1>6

LEMMA ClosingPop ==
  ASSUME closing_handles \in Seq(Name), closing_handles # <<>>,
         closing_handles' = Tail(closing_handles)
  PROVE  /\ closing_handles' \in Seq(Name) /\ Head(closing_handles) \in Name
         /\ Closing = Closing' \cup {Head(closing_handles)}
<1> DEFINE q == closing_handles
<1>1. /\ Head(q) \in Name /\ q' \in Seq(Name) /\ Len(q') = Len(q) - 1
      /\ \A i \in 1 .. Len(q') : q'[i] = q[i + 1]
  BY HeadTailProperties
<1>2. /\ Len(q) \in Nat \ {0} /\ DOMAIN q = 1 .. Len(q)
      /\ DOMAIN q' = 1 .. Len(q) - 1 /\ Head(q) = q[1]
  BY <1>1, EmptySeq, LenProperties
<1>3. ASSUME NEW x \in Closing, x # Head(q)
      PROVE  x \in Closing'
  <2>1. PICK i \in 1 .. Len(q) : x = q[i]
    BY <1>2, <1>3 DEF Closing
  <2>2. i - 1 \in DOMAIN q' /\ q'[i - 1] = q[i]
    BY <1>1, <1>2, <1>3, <2>1
  <2>3. QED
    BY <2>1, <2>2 DEF Closing
<1>4. ASSUME NEW x \in Closing'
      PROVE  x \in Closing
  <2>1. PICK i \in 1 .. Len(q) - 1 : x = q'[i]
    BY <1>2 DEF Closing
  <2>2. i + 1 \in DOMAIN q /\ x = q[i + 1]
    BY <1>1, <1>2, <2>1
  <2>3. QED
    BY <2>2 DEF Closing
<1>5. Head(q) \in Closing
  BY <1>2 DEF Closing
<1>6. QED
  BY <1>1, <1>3, <1>4, <1>5

(***************************************************************************)
(* Handling a packet.                                                      *)
(***************************************************************************)
(* What is behind the first packet is no CONNECT.                          *)
LEMMA Received ==
  ASSUME StreamsMatch, NEW c \in Name, NEW msg, NEW d, Receive(c, msg, d)
  PROVE  /\ phase = "poll" /\ c \notin Closing
         /\ Matches(c, <<msg, d>>, 1)
         /\ connectionInfo_[c].dev # "free"
         /\ stream' \in [Name -> Seq(Packet)]
         /\ \A b \in Name \ {c} : stream'[b] = stream[b]
         /\ \A i \in 1 .. Len(stream'[c]) :
               /\ i + 1 \in 1 .. Len(stream[c])
               /\ stream'[c][i] = stream[c][i + 1]
               /\ stream'[c][i][1] # "MSG_CONNECT"
<1> DEFINE q == stream[c]
<1>1. q \in Seq(Packet) /\ q # <<>> /\ Head(q) = <<msg, d>>
  BY DEF Receive, StreamsMatch
<1>2. /\ Tail(q) \in Seq(Packet) /\ Len(Tail(q)) = Len(q) - 1
      /\ \A i \in 1 .. Len(Tail(q)) : Tail(q)[i] = q[i + 1]
  BY <1>1, HeadTailProperties
<1>3. Len(q) \in Nat \ {0} /\ Head(q) = q[1]
  BY <1>1, EmptySeq
<1>4. stream' = [stream EXCEPT ![c] = Tail(q)]
  BY DEF Receive
<1>5. /\ stream' \in [Name -> Seq(Packet)] /\ stream'[c] = Tail(q)
      /\ \A b \in Name \ {c} : stream'[b] = stream[b]
  BY <1>2, <1>4 DEF StreamsMatch
<1>6. ASSUME NEW i \in 1 .. Len(Tail(q))
      PROVE  /\ i + 1 \in 1 .. Len(q) /\ Tail(q)[i] = q[i + 1]
             /\ q[i + 1][1] # "MSG_CONNECT"
  <2>1. i + 1 \in 1 .. Len(q) /\ i + 1 # 1
    BY <1>2, <1>3
  <2>2. Matches(c, q[i + 1], i + 1)
    BY <2>1 DEF StreamsMatch
  <2>3. QED
    BY <1>2, <2>1, <2>2 DEF Matches
<1>7. Matches(c, <<msg, d>>, 1) /\ connectionInfo_[c].dev # "free"
  BY <1>1, <1>3 DEF StreamsMatch, Belongs
<1>8. phase = "poll" /\ c \notin Closing
  BY DEF Receive
<1>9. QED
  BY <1>5, <1>6, <1>7, <1>8

(* A handler that leaves the registered devices alone.                     *)
LEMMA StreamsAfterHandler ==
  ASSUME StreamsMatch, NEW c \in Name, NEW msg, NEW d, Receive(c, msg, d),
         UNCHANGED <<peer, asked>>,
         \A b \in Name : connectionInfo_'[b].dev = connectionInfo_[b].dev
  PROVE  StreamsMatch'
<1>1. ASSUME NEW b \in Name, NEW i \in 1 .. Len(stream'[b])
      PROVE  Matches(b, stream[b][i], i)' 
  <2>1. CASE b # c
    <3>1. stream'[b] = stream[b]
      BY <2>1, Received
    <3>2. Matches(b, stream[b][i], i)
      BY <3>1 DEF StreamsMatch
    <3>3. QED
      BY <3>1, <3>2 DEF Matches
  <2>2. CASE b = c
    <3>1. /\ i + 1 \in 1 .. Len(stream[c]) /\ stream'[c][i] = stream[c][i + 1]
          /\ stream'[c][i][1] # "MSG_CONNECT"
      BY <2>2, Received
    <3>2. Matches(c, stream[c][i + 1], i + 1)
      BY <3>1 DEF StreamsMatch
    <3>3. QED
      BY <2>2, <3>1, <3>2 DEF Matches
  <2>3. QED
    BY <2>1, <2>2
<1>2. ASSUME NEW b \in Name
      PROVE  Belongs(b)'
  <2>1. connectionInfo_[b].dev = "free" => stream'[b] = stream[b]
    BY Received
  <2>2. Belongs(b)
    BY DEF StreamsMatch
  <2>3. QED
    BY <2>1, <2>2 DEF Belongs
<1>3. stream' \in [Name -> Seq(Packet)]
  BY Received
<1>4. QED
  BY <1>1, <1>2, <1>3 DEF StreamsMatch

(***************************************************************************)
(* The tables.                                                             *)
(***************************************************************************)
LEMMA TablesKept ==
  ASSUME TablesMatch,
         UNCHANGED <<connectionInfo_, closing_handles, CloseDeviceConnectFlag,
                     delay_map, tVectorDL>>
  PROVE  TablesMatch'
<1>1. FlagMarksRefused' /\ RoutedOrClosing'
  BY DEF TablesMatch, FlagMarksRefused, RoutedOrClosing, Closing
<1>2. StaleOnlyAtPortZero' /\ TotalsHaveRru'
  BY DEF TablesMatch, StaleOnlyAtPortZero, TotalsHaveRru, HubsAt
<1>3. QED
  BY <1>1, <1>2 DEF TablesMatch

(* A name that was no device's before is no witness of the tables.         *)
LEMMA TablesAfterArrival ==
  ASSUME TablesMatch, NEW c \in Name, connectionInfo_[c].dev \notin Device,
         \A b \in Name \ {c} : connectionInfo_'[b] = connectionInfo_[b],
         UNCHANGED <<delay_map, tVectorDL>>
  PROVE  StaleOnlyAtPortZero' /\ TotalsHaveRru'
<1>1. ASSUME NEW key \in delay_map, key[2] # 0
      PROVE  HubsAt(connectionInfo_', key[1]) # {}
  <2>1. PICK b \in Name : /\ connectionInfo_[b].dev \in Hub
                          /\ hop[connectionInfo_[b].dev] = key[1]
    BY <1>1 DEF TablesMatch, StaleOnlyAtPortZero, HubsAt
  <2>2. connectionInfo_'[b] = connectionInfo_[b]
    BY <2>1, Site
  <2>3. QED
    BY <2>1, <2>2 DEF HubsAt
<1>2. ASSUME NEW t \in tVectorDL
      PROVE  \E b \in Name : /\ connectionInfo_'[b].dev \in Rru
                             /\ connectionInfo_'[b].route = t[1]
  <2>1. PICK b \in Name : /\ connectionInfo_[b].dev \in Rru
                          /\ connectionInfo_[b].route = t[1]
    BY DEF TablesMatch, TotalsHaveRru
  <2>2. connectionInfo_'[b] = connectionInfo_[b]
    BY <2>1, Site
  <2>3. QED
    BY <2>1, <2>2
<1>3. StaleOnlyAtPortZero'
  BY <1>1 DEF StaleOnlyAtPortZero, HubsAt
<1>4. TotalsHaveRru'
  BY <1>2 DEF TotalsHaveRru
<1>5. QED
  BY <1>3, <1>4

(* The route index of a hub in the registry, or none.                      *)
LEMMA RouteIndexType ==
  ASSUME NEW info \in [Name -> DeviceInfo], NEW d \in Device
  PROVE  CreateRouteIndex(info, d) \in Seq(0 .. m_base - 1)
<1> DEFINE hubs == HubsAt(info, hop[d] - 1)
           P == 0 .. m_base - 1
<1>1. <<uport[d]>> \in Seq(P)
  BY Site
<1>2. <<>> \in Seq(P)
  OBVIOUS
<1>3. ASSUME hubs # {}
      PROVE  info[Min(hubs)].route \o <<uport[d]>> \in Seq(P)
  <2>1. Min(hubs) \in Name
    BY <1>3, MinIsMember DEF HubsAt
  <2>2. info[Min(hubs)].route \in Seq(P)
    BY <2>1 DEF DeviceInfo
  <2>3. QED
    BY <1>1, <2>2, ConcatProperties
<1>4. QED
  BY <1>1, <1>2, <1>3 DEF CreateRouteIndex

(***************************************************************************)
(* Each action keeps the invariant.                                        *)
(***************************************************************************)
LEMMA AcceptKeeps ==
  ASSUME BHROInv, NEW c \in Name, NEW d \in Device, onAccept(c, d)
  PROVE  BHROInv'
<1>1. /\ connectionInfo_[c] = Free /\ connectionInfo_[c].dev \notin Device
      /\ connectionInfo_' = [connectionInfo_ EXCEPT ![c] = cInfo_]
      /\ peer' = [peer EXCEPT ![c] = d]
      /\ stream' = [stream EXCEPT ![c] = <<<<"MSG_CONNECT", d>>>>]
      /\ UNCHANGED <<phase, closing_handles, CloseDeviceConnectFlag, delay_map,
                     tVectorDL, asked, retrying, faults>>
  BY Site DEF onAccept, Free
<1>2. connectionInfo_ \in [Name -> DeviceInfo] /\ stream \in [Name -> Seq(Packet)]
  BY DEF BHROInv, TypeOK, StreamsMatch
<1>3. cInfo_ \in DeviceInfo /\ cInfo_.dev = "unannounced"
  BY FreeType
<1>4. TypeOK'
  BY <1>1, <1>2, <1>3 DEF BHROInv, TypeOK
<1>5. StreamsMatch'
  <2>1. /\ connectionInfo_'[c].dev = "unannounced"
        /\ stream'[c] = <<<<"MSG_CONNECT", d>>>> /\ peer'[c] = d
        /\ asked'[c] = {} /\ asked' = asked
    <3>1. asked[c] = {}
      BY <1>1 DEF BHROInv, StreamsMatch, Belongs
    <3>2. QED
      BY <1>1, <1>2, <1>3, <3>1 DEF BHROInv, TypeOK
  <2>2. \A b \in Name \ {c} :
           /\ connectionInfo_'[b] = connectionInfo_[b] /\ stream'[b] = stream[b]
           /\ peer'[b] = peer[b]
    BY <1>1, <1>2 DEF BHROInv, TypeOK
  <2>3. <<<<"MSG_CONNECT", d>>>> \in Seq(Packet)
    BY DEF Packet, Message
  <2>4. stream' \in [Name -> Seq(Packet)]
    BY <1>1, <1>2, <2>3
  <2>5. ASSUME NEW b \in Name, NEW i \in 1 .. Len(stream'[b])
        PROVE  Matches(b, stream[b][i], i)'
    <3>1. CASE b # c
      BY <2>2, <3>1 DEF BHROInv, StreamsMatch, Matches
    <3>2. CASE b = c
      <4>1. i = 1 /\ stream'[c][i] = <<"MSG_CONNECT", d>>
        BY <2>1, <2>5, <3>2
      <4>2. QED
        BY <2>1, <3>2, <4>1 DEF Matches
    <3>3. QED
      BY <3>1, <3>2
  <2>6. ASSUME NEW b \in Name
        PROVE  Belongs(b)'
    <3>1. CASE b # c
      BY <2>1, <2>2, <3>1 DEF BHROInv, StreamsMatch, Belongs
    <3>2. CASE b = c
      BY <2>1, <3>2, Site DEF Belongs
    <3>3. QED
      BY <3>1, <3>2
  <2>7. QED
    BY <2>4, <2>5, <2>6 DEF StreamsMatch
<1>6. TablesMatch'
  <2>1. /\ connectionInfo_'[c].dev \notin Device
        /\ \A b \in Name \ {c} : connectionInfo_'[b] = connectionInfo_[b]
    BY <1>1, <1>2, <1>3, Site
  <2>2. StaleOnlyAtPortZero' /\ TotalsHaveRru'
    BY <1>1, <2>1, TablesAfterArrival DEF BHROInv
  <2>3. Closing' = Closing
    BY <1>1 DEF Closing
  <2>4. FlagMarksRefused'
    BY <1>1, <2>1, <2>3 DEF BHROInv, TablesMatch, FlagMarksRefused, TypeOK, Closing
  <2>5. RoutedOrClosing'
    BY <2>1, <2>3 DEF BHROInv, TablesMatch, RoutedOrClosing
  <2>6. QED
    BY <2>2, <2>4, <2>5 DEF TablesMatch
<1>7. QED
  BY <1>4, <1>5, <1>6 DEF BHROInv

LEMMA ConnectKeeps ==
  ASSUME BHROInv, NEW c \in Name, NEW d \in Device, SetConnectionClient(c, d)
  PROVE  BHROInv'
<1> DEFINE new == [Free EXCEPT !.dev = d]
           info == [connectionInfo_ EXCEPT ![c] = new]
           route == CreateRouteIndex(info, d)
           hubs == IF d \in Rru THEN HubsAt(info, hop[d] - 1) ELSE {}
           questions == [b \in Name |->
             asked[b]
               \cup IF b = c THEN {"MSG_DELAY_MEASUREMENT"} ELSE {}
               \cup IF hubs # {} /\ b = Min(hubs)
                    THEN {"MSG_UPDATE_DELAY"} ELSE {}]
<1>1. /\ Receive(c, "MSG_CONNECT", d)
      /\ connectionInfo_' = [info EXCEPT ![c].route = route]
      /\ UNCHANGED <<phase, delay_map, tVectorDL, peer, retrying, faults>>
      /\ IF route = <<>>
         THEN CloseDeviceConnectFlag' = TRUE /\ uv_close(c) /\ asked' = asked
         ELSE /\ UNCHANGED <<CloseDeviceConnectFlag, closing_handles>>
              /\ asked' = questions
  BY DEF SetConnectionClient, Refuse
<1>2. /\ connectionInfo_ \in [Name -> DeviceInfo]
      /\ asked \in [Name -> SUBSET {"MSG_DELAY_MEASUREMENT", "MSG_UPDATE_DELAY"}]
      /\ closing_handles \in Seq(Name)
  BY DEF BHROInv, TypeOK
<1>3. /\ c \notin Closing /\ connectionInfo_[c].dev = "unannounced"
      /\ peer[c] \in {d, Nobody} /\ stream' \in [Name -> Seq(Packet)]
  BY <1>1, Received DEF BHROInv, Matches
<1>4. connectionInfo_[c].dev \notin Device
  BY <1>3, Site
<1>5. new \in DeviceInfo /\ new.dev = d
  BY FreeType DEF DeviceInfo
<1>6. info \in [Name -> DeviceInfo]
  BY <1>2, <1>5
<1>7. route \in Seq(0 .. m_base - 1)
  BY <1>6, RouteIndexType
<1> HIDE DEF new, route
<1>8. /\ connectionInfo_' \in [Name -> DeviceInfo]
      /\ connectionInfo_'[c].dev = d /\ connectionInfo_'[c].route = route
      /\ \A b \in Name \ {c} : connectionInfo_'[b] = connectionInfo_[b]
  BY <1>1, <1>2, <1>5, <1>6, <1>7 DEF DeviceInfo
<1>9. hubs # {} => /\ Min(hubs) \in Name
                   /\ info[Min(hubs)].dev \in Hub /\ Min(hubs) # c
  <2>1. SUFFICES ASSUME hubs # {}
                 PROVE  /\ Min(hubs) \in Name
                        /\ info[Min(hubs)].dev \in Hub /\ Min(hubs) # c
    OBVIOUS
  <2>2. d \in Rru /\ hubs \subseteq Name /\ Min(hubs) \in hubs
    BY <2>1, MinIsMember DEF HubsAt
  <2>3. Min(hubs) \in Name /\ info[Min(hubs)].dev \in Hub
    BY <2>2 DEF HubsAt
  <2>4. info[c].dev \notin Hub
    BY <1>2, <1>5, <2>2, Site
  <2>5. QED
    BY <2>3, <2>4
<1>10. TypeOK'
  <2>1. asked' \in [Name -> SUBSET {"MSG_DELAY_MEASUREMENT", "MSG_UPDATE_DELAY"}]
    BY <1>1, <1>2
  <2>2. closing_handles' \in Seq(Name) /\ CloseDeviceConnectFlag' \in BOOLEAN
    BY <1>1, <1>2, ClosingPush DEF BHROInv, TypeOK
  <2>3. QED
    BY <1>1, <1>8, <2>1, <2>2 DEF BHROInv, TypeOK
<1>11. StreamsMatch'
  <2>1. ASSUME NEW b \in Name, NEW i \in 1 .. Len(stream'[b])
        PROVE  Matches(b, stream[b][i], i)'
    <3>1. CASE b # c
      <4>1. stream'[b] = stream[b]
        BY <1>1, <3>1, Received DEF BHROInv
      <4>2. Matches(b, stream[b][i], i)
        BY <4>1 DEF BHROInv, StreamsMatch
      <4>3. QED
        BY <1>1, <1>8, <3>1, <4>1, <4>2 DEF Matches
    <3>2. CASE b = c
      <4>1. /\ i + 1 \in 1 .. Len(stream[c])
            /\ stream'[c][i] = stream[c][i + 1]
            /\ stream'[c][i][1] # "MSG_CONNECT"
        BY <1>1, <3>2, Received DEF BHROInv
      <4>2. Matches(c, stream[c][i + 1], i + 1)
        BY <4>1 DEF BHROInv, StreamsMatch
      <4>3. stream'[c][i][1] \notin {"MSG_DELAY_MEASUREMENT", "MSG_UPDATE_DELAY"}
        BY <1>3, <1>4, <4>1, <4>2, Site DEF Matches
      <4>4. QED
        BY <3>2, <4>1, <4>3 DEF Matches
    <3>3. QED
      BY <3>1, <3>2
  <2>2. ASSUME NEW b \in Name
        PROVE  Belongs(b)'
    <3>1. Belongs(b)
      BY DEF BHROInv, StreamsMatch
    <3>2. CASE b = c
      <4>1. asked[c] = {}
        BY <1>4, <3>1, <3>2 DEF Belongs
      <4>2. "MSG_UPDATE_DELAY" \notin asked'[c]
        BY <1>1, <1>9, <4>1
      <4>3. QED
        BY <1>1, <1>3, <1>8, <3>2, <4>2, Site DEF Belongs
    <3>3. CASE b # c
      <4>1. info[b] = connectionInfo_[b] /\ connectionInfo_'[b] = connectionInfo_[b]
        BY <1>2, <1>8, <3>3
      <4>2. stream'[b] = stream[b] /\ peer' = peer
        BY <1>1, <3>3, Received DEF BHROInv
      <4>3. asked'[b] = asked[b] \/ connectionInfo_[b].dev \in Hub
        BY <1>1, <1>9, <3>3, <4>1
      <4>4. QED
        BY <3>1, <4>1, <4>2, <4>3, Site DEF Belongs
    <3>4. QED
      BY <3>2, <3>3
  <2>3. QED
    BY <1>3, <2>1, <2>2 DEF StreamsMatch
<1>12. TablesMatch'
  <2>1. StaleOnlyAtPortZero' /\ TotalsHaveRru'
    BY <1>1, <1>4, <1>8, TablesAfterArrival DEF BHROInv
  <2>2. CASE route = <<>>
    <3>1. Closing' = Closing \cup {c}
      BY <1>1, <1>2, <2>2, ClosingPush
    <3>2. FlagMarksRefused'
      BY <1>8, <2>2, <3>1 DEF FlagMarksRefused
    <3>3. RoutedOrClosing'
      BY <1>8, <3>1 DEF BHROInv, TablesMatch, RoutedOrClosing
    <3>4. QED
      BY <2>1, <3>2, <3>3 DEF TablesMatch
  <2>3. CASE route # <<>>
    <3>1. /\ Closing' = Closing
          /\ CloseDeviceConnectFlag' = CloseDeviceConnectFlag
      BY <1>1, <2>3 DEF Closing
    <3>2. \A b \in Closing : b \in Name \ {c}
      BY <1>2, <1>3 DEF Closing
    <3>3. FlagMarksRefused'
      BY <1>8, <3>1, <3>2 DEF BHROInv, TablesMatch, FlagMarksRefused
    <3>4. RoutedOrClosing'
      BY <1>8, <2>3, <3>1 DEF BHROInv, TablesMatch, RoutedOrClosing
    <3>5. QED
      BY <2>1, <3>3, <3>4 DEF TablesMatch
  <2>4. QED
    BY <2>2, <2>3
<1>13. QED
  BY <1>10, <1>11, <1>12 DEF BHROInv

(* New delays are those of a registered hub.                               *)
LEMMA HubDelayKeeps ==
  ASSUME BHROInv, NEW c \in Name, NEW d \in Device,
         HubDelayInfo(c, d) \/ UpdateHUBDelayInfo(c, d)
  PROVE  BHROInv'
<1>1. PICK msg \in {"MSG_DELAY_MEASUREMENT", "MSG_UPDATE_DELAY"} :
         Receive(c, msg, d)
  BY DEF HubDelayInfo, UpdateHUBDelayInfo
<1>2. /\ UNCHANGED <<phase, connectionInfo_, closing_handles,
                     CloseDeviceConnectFlag, tVectorDL, peer, asked, retrying,
                     faults>>
      /\ delay_map' \subseteq delay_map \cup HubKeys(hop[d])
  BY DEF HubDelayInfo, UpdateHUBDelayInfo, DeleteHubDelay
<1>3. d \in Hub /\ connectionInfo_[c].dev = d
  <2>1. Matches(c, <<msg, d>>, 1)
    BY <1>1, Received DEF BHROInv
  <2>2. CASE HubDelayInfo(c, d)
    BY <2>1, <2>2 DEF HubDelayInfo, Receive, Matches
  <2>3. CASE UpdateHUBDelayInfo(c, d)
    <3>1. Matches(c, <<"MSG_UPDATE_DELAY", d>>, 1)
      BY <2>3, Received DEF BHROInv, UpdateHUBDelayInfo
    <3>2. QED
      BY <3>1 DEF Matches
  <2>4. QED
    BY <2>2, <2>3
<1>4. TypeOK'
  <2>1. HubKeys(hop[d]) \subseteq (Nat \ {0}) \X (0 .. m_base - 1)
    BY Site DEF HubKeys
  <2>2. QED
    BY <1>2, <2>1 DEF BHROInv, TypeOK
<1>5. StreamsMatch'
  BY <1>1, <1>2, StreamsAfterHandler DEF BHROInv
<1>6. TablesMatch'
  <2>1. FlagMarksRefused' /\ RoutedOrClosing' /\ TotalsHaveRru'
    BY <1>2
    DEF BHROInv, TablesMatch, FlagMarksRefused, RoutedOrClosing, TotalsHaveRru,
        Closing
  <2>2. HubsAt(connectionInfo_, hop[d]) # {}
    BY <1>3 DEF HubsAt
  <2>3. \A key \in HubKeys(hop[d]) : key[1] = hop[d]
    BY DEF HubKeys
  <2>4. StaleOnlyAtPortZero'
    BY <1>2, <2>2, <2>3 DEF BHROInv, TablesMatch, StaleOnlyAtPortZero
  <2>5. QED
    BY <2>1, <2>4 DEF TablesMatch
<1>7. QED
  BY <1>4, <1>5, <1>6 DEF BHROInv

(* A new total is that of a registered RRU that is not being closed.       *)
LEMMA RruDelayKeeps ==
  ASSUME BHROInv, NEW c \in Name, NEW d \in Device, RruDelayProcess(c, d)
  PROVE  BHROInv'
<1> DEFINE route == connectionInfo_[c].route
           totals == DeleteRRUTotalDelay(route) \cup {<<route, LinkDelay[d]>>}
<1>1. /\ d \in Rru /\ Receive(c, "MSG_DELAY_MEASUREMENT", d)
      /\ UNCHANGED <<closing_handles, CloseDeviceConnectFlag, delay_map, peer,
                     asked, retrying, faults>>
  BY DEF RruDelayProcess
<1>2. /\ \/ connectionInfo_' = connectionInfo_
         \/ connectionInfo_' = [connectionInfo_ EXCEPT ![c].offset = LinkDelay[d]]
      /\ tVectorDL' \in {tVectorDL, totals}
      /\ phase' \in {phase, "terminated"}
  BY DEF RruDelayProcess
<1>3. /\ connectionInfo_ \in [Name -> DeviceInfo]
      /\ tVectorDL \subseteq Seq(0 .. m_base - 1) \X Nat
  BY DEF BHROInv, TypeOK
<1>4. connectionInfo_[c].dev = d
  BY <1>1, Received DEF BHROInv, Matches
<1>5. /\ connectionInfo_' \in [Name -> DeviceInfo]
      /\ \A b \in Name : /\ connectionInfo_'[b].dev = connectionInfo_[b].dev
                         /\ connectionInfo_'[b].route = connectionInfo_[b].route
  <2>1. LinkDelay[d] \in Nat
    BY <1>1, Site
  <2>2. CASE connectionInfo_' = connectionInfo_
    BY <1>3, <2>2
  <2>3. CASE connectionInfo_' = [connectionInfo_ EXCEPT ![c].offset = LinkDelay[d]]
    <3>1. [connectionInfo_[c] EXCEPT !.offset = LinkDelay[d]] \in DeviceInfo
      BY <1>3, <2>1 DEF DeviceInfo
    <3>2. QED
      BY <1>3, <2>3, <3>1 DEF DeviceInfo
  <2>4. QED
    BY <1>2, <2>2, <2>3
<1>6. TypeOK'
  <2>1. totals \subseteq Seq(0 .. m_base - 1) \X Nat
    BY <1>1, <1>3, Site DEF DeleteRRUTotalDelay, DeviceInfo
  <2>2. phase' \in {"poll", "closing", "terminated"}
    BY <1>2 DEF BHROInv, TypeOK
  <2>3. QED
    BY <1>1, <1>2, <1>5, <2>1, <2>2 DEF BHROInv, TypeOK
<1>7. StreamsMatch'
  BY <1>1, <1>5, StreamsAfterHandler DEF BHROInv
<1>8. TablesMatch'
  <2>1. Closing' = Closing /\ Closing \subseteq Name
    BY <1>1 DEF Closing, BHROInv, TypeOK
  <2>2. FlagMarksRefused'
    BY <1>1, <1>5, <2>1 DEF BHROInv, TablesMatch, FlagMarksRefused
  <2>3. RoutedOrClosing'
    BY <1>5, <2>1 DEF BHROInv, TablesMatch, RoutedOrClosing
  <2>4. \A level : HubsAt(connectionInfo_', level) = HubsAt(connectionInfo_, level)
    BY <1>5 DEF HubsAt
  <2>5. StaleOnlyAtPortZero'
    BY <1>1, <2>4 DEF BHROInv, TablesMatch, StaleOnlyAtPortZero, HubsAt
  <2>6. ASSUME NEW t \in tVectorDL'
        PROVE  \E b \in Name : /\ connectionInfo_[b].dev \in Rru
                               /\ connectionInfo_[b].route = t[1]
    <3>1. t \in tVectorDL \/ t = <<route, LinkDelay[d]>>
      BY <1>2, <2>6 DEF DeleteRRUTotalDelay
    <3>2. QED
      BY <1>1, <1>4, <3>1 DEF BHROInv, TablesMatch, TotalsHaveRru
  <2>7. TotalsHaveRru'
    BY <1>5, <2>6 DEF TotalsHaveRru
  <2>8. QED
    BY <2>2, <2>3, <2>5, <2>7 DEF TablesMatch
<1>9. QED
  BY <1>6, <1>7, <1>8 DEF BHROInv

LEMMA EndKeeps ==
  ASSUME BHROInv, NEW c \in Name, onEof(c) \/ Expire(c)
  PROVE  BHROInv'
<1>1. /\ uv_close(c)
      /\ UNCHANGED <<phase, connectionInfo_, CloseDeviceConnectFlag, delay_map,
                     tVectorDL, peer, asked, retrying, faults>>
      /\ Receive(c, "EOF", Nobody) \/ stream' = stream
  BY DEF onEof, Expire, site
<1>2. closing_handles' \in Seq(Name) /\ Closing' = Closing \cup {c}
  BY <1>1, ClosingPush DEF BHROInv, TypeOK
<1>3. TypeOK'
  BY <1>1, <1>2 DEF BHROInv, TypeOK
<1>4. StreamsMatch'
  <2>1. CASE Receive(c, "EOF", Nobody)
    BY <1>1, <2>1, StreamsAfterHandler DEF BHROInv
  <2>2. CASE stream' = stream
    BY <1>1, <2>2 DEF BHROInv, StreamsMatch, Matches, Belongs
  <2>3. QED
    BY <1>1, <2>1, <2>2
<1>5. TablesMatch'
  <2>1. FlagMarksRefused' /\ RoutedOrClosing'
    BY <1>1, <1>2 DEF BHROInv, TablesMatch, FlagMarksRefused, RoutedOrClosing
  <2>2. StaleOnlyAtPortZero' /\ TotalsHaveRru'
    BY <1>1 DEF BHROInv, TablesMatch, StaleOnlyAtPortZero, TotalsHaveRru, HubsAt
  <2>3. QED
    BY <2>1, <2>2 DEF TablesMatch
<1>6. QED
  BY <1>3, <1>4, <1>5 DEF BHROInv

(* What goes with a device are its delays, or the totals of its route.     *)
LEMMA FinishKeeps ==
  ASSUME BHROInv, FinishClose
  PROVE  BHROInv'
<1> DEFINE c == Head(closing_handles)
           d == connectionInfo_[c].dev
<1>1. /\ closing_handles # <<>> /\ closing_handles' = Tail(closing_handles)
      /\ CloseDeviceConnectFlag' = FALSE
      /\ delay_map' = IF d \in Hub THEN DeleteHubDelay(hop[d]) ELSE delay_map
      /\ tVectorDL' = IF d \in Rru
                      THEN DeleteRRUTotalDelay(connectionInfo_[c].route)
                      ELSE tVectorDL
      /\ connectionInfo_' = [connectionInfo_ EXCEPT ![c] = Free]
      /\ peer' = [peer EXCEPT ![c] = Nobody]
      /\ stream' = [stream EXCEPT ![c] = <<>>]
      /\ asked' = [asked EXCEPT ![c] = {}]
      /\ UNCHANGED <<phase, retrying, faults>>
  BY DEF FinishClose, OnConnectClose
<1>2. /\ c \in Name /\ closing_handles' \in Seq(Name)
      /\ Closing = Closing' \cup {c}
  BY <1>1, ClosingPop DEF BHROInv, TypeOK
<1> HIDE DEF c
<1>3. /\ connectionInfo_ \in [Name -> DeviceInfo] /\ stream \in [Name -> Seq(Packet)]
      /\ delay_map \subseteq (Nat \ {0}) \X (0 .. m_base - 1)
      /\ tVectorDL \subseteq Seq(0 .. m_base - 1) \X Nat
  BY DEF BHROInv, TypeOK, StreamsMatch
<1>4. /\ connectionInfo_' \in [Name -> DeviceInfo] /\ connectionInfo_'[c] = Free
      /\ \A b \in Name \ {c} : connectionInfo_'[b] = connectionInfo_[b]
  BY <1>1, <1>2, <1>3, FreeType
<1>5. Free.dev \notin Device
  BY FreeType, Site
<1>6. TypeOK'
  BY <1>1, <1>2, <1>3, <1>4
  DEF BHROInv, TypeOK, DeleteHubDelay, DeleteRRUTotalDelay
<1>7. StreamsMatch'
  <2>1. stream' \in [Name -> Seq(Packet)] /\ stream'[c] = <<>>
    BY <1>1, <1>2, <1>3
  <2>2. peer'[c] = Nobody /\ asked'[c] = {}
    BY <1>1, <1>2 DEF BHROInv, TypeOK
  <2>3. \A b \in Name \ {c} :
          stream'[b] = stream[b] /\ peer'[b] = peer[b] /\ asked'[b] = asked[b]
    BY <1>1, <1>2, <1>3 DEF BHROInv, TypeOK
  <2>4. ASSUME NEW b \in Name, NEW i \in 1 .. Len(stream'[b])
        PROVE  Matches(b, stream[b][i], i)'
    <3>1. b # c
      BY <2>1, <2>4
    <3>2. stream'[b] = stream[b] /\ peer'[b] = peer[b]
      BY <2>3, <3>1
    <3>3. Matches(b, stream[b][i], i)
      BY <3>2 DEF BHROInv, StreamsMatch
    <3>4. QED
      BY <1>4, <3>1, <3>2, <3>3 DEF Matches
  <2>5. ASSUME NEW b \in Name
        PROVE  Belongs(b)'
    <3>1. CASE b = c
      BY <1>4, <1>5, <2>1, <2>2, <3>1 DEF Belongs
    <3>2. CASE b # c
      BY <1>4, <2>3, <3>2 DEF BHROInv, StreamsMatch, Belongs
    <3>3. QED
      BY <3>1, <3>2
  <2>6. QED
    BY <2>1, <2>4, <2>5 DEF StreamsMatch
<1>8. FlagMarksRefused'
  BY <1>1 DEF FlagMarksRefused
<1>9. RoutedOrClosing'
  BY <1>2, <1>4, <1>5 DEF BHROInv, TablesMatch, RoutedOrClosing
<1>10. StaleOnlyAtPortZero'
  <2>1. ASSUME NEW key \in delay_map', key[2] # 0
        PROVE  HubsAt(connectionInfo_', key[1]) # {}
    <3>1. /\ key \in delay_map
          /\ d \in Hub => key \in DeleteHubDelay(hop[d])
      BY <1>1, <2>1 DEF DeleteHubDelay
    <3>2. PICK b \in Name : /\ connectionInfo_[b].dev \in Hub
                            /\ hop[connectionInfo_[b].dev] = key[1]
      BY <2>1, <3>1 DEF BHROInv, TablesMatch, StaleOnlyAtPortZero, HubsAt
    <3>3. key = <<key[1], key[2]>> /\ key[2] \in 1 .. m_base
      BY <1>3, <2>1, <3>1, Site
    <3>4. b # c
      BY <3>1, <3>2, <3>3 DEF DeleteHubDelay
    <3>5. QED
      BY <1>4, <3>2, <3>4 DEF HubsAt
  <2>2. QED
    BY <2>1 DEF StaleOnlyAtPortZero, HubsAt
<1>11. TotalsHaveRru'
  <2>1. ASSUME NEW t \in tVectorDL'
        PROVE  \E b \in Name : /\ connectionInfo_'[b].dev \in Rru
                               /\ connectionInfo_'[b].route = t[1]
    <3>1. t \in tVectorDL /\ (d \in Rru => t[1] # connectionInfo_[c].route)
      BY <1>1, <2>1 DEF DeleteRRUTotalDelay
    <3>2. PICK b \in Name : /\ connectionInfo_[b].dev \in Rru
                            /\ connectionInfo_[b].route = t[1]
      BY <3>1 DEF BHROInv, TablesMatch, TotalsHaveRru
    <3>3. b # c
      BY <3>1, <3>2
    <3>4. QED
      BY <1>4, <3>2, <3>3
  <2>2. QED
    BY <2>1 DEF TotalsHaveRru
<1>12. QED
  BY <1>6, <1>7, <1>8, <1>9, <1>10, <1>11 DEF BHROInv, TablesMatch

(* The devices write behind what is on its way and leave the BBU alone.    *)
LEMMA DeviceKeeps ==
  ASSUME BHROInv, NEW c \in Name, Answer(c) \/ Exit(c) \/ PowerLoss(c)
  PROVE  BHROInv'
<1> DEFINE Questions == SUBSET {"MSG_DELAY_MEASUREMENT", "MSG_UPDATE_DELAY"}
<1>1. /\ stream \in [Name -> Seq(Packet)] /\ asked \in [Name -> Questions]
      /\ peer \in [Name -> Device \cup {Nobody}] /\ Belongs(c)
  BY DEF BHROInv, TypeOK, StreamsMatch
<1> DEFINE Fits(last) ==
             /\ last \in Seq(Packet) /\ Len(last) <= 1
             /\ Len(last) = 1 => \A i \in Nat : Matches(c, last[1], i)
             /\ stream' = [stream EXCEPT ![c] = @ \o last]
<1>2. PICK last : Fits(last)
  <2>1. CASE Answer(c)
    <3>1. PICK msg \in asked[c] :
             stream' = [stream EXCEPT ![c] = Append(@, <<msg, peer[c]>>)]
      BY <2>1 DEF Answer
    <3>2. /\ msg \in {"MSG_DELAY_MEASUREMENT", "MSG_UPDATE_DELAY"}
          /\ connectionInfo_[c].dev \in Device /\ peer[c] = connectionInfo_[c].dev
          /\ msg = "MSG_UPDATE_DELAY" => peer[c] \in Hub
      BY <1>1, <2>1 DEF Answer, Belongs
    <3>3. /\ <<msg, peer[c]>> \in Packet
          /\ \A i \in Nat : Matches(c, <<msg, peer[c]>>, i)
      BY <3>2 DEF Packet, Message, Matches
    <3>4. /\ <<<<msg, peer[c]>>>> \in Seq(Packet)
          /\ Append(stream[c], <<msg, peer[c]>>) = stream[c] \o <<<<msg, peer[c]>>>>
      BY <1>1, <3>3, AppendIsConcat
    <3>5. Fits(<<<<msg, peer[c]>>>>)
      <4> DEFINE answer == <<msg, peer[c]>>
      <4>1. stream' = [stream EXCEPT ![c] = @ \o <<answer>>]
        BY <3>1, <3>4
      <4>2. <<answer>> \in Seq(Packet) /\ \A i \in Nat : Matches(c, answer, i)
        BY <3>3, <3>4
      <4> HIDE DEF answer
      <4>3. Len(<<answer>>) = 1 /\ <<answer>>[1] = answer
        OBVIOUS
      <4>4. Fits(<<answer>>)
        BY <4>1, <4>2, <4>3
      <4>5. QED
        BY <4>4 DEF answer
    <3>6. QED
      BY <3>5
  <2>2. CASE Exit(c)
    <3>1. stream' = [stream EXCEPT ![c] = @ \o <<<<"EOF", Nobody>>>>]
      BY <2>2 DEF Exit, Leave
    <3>2. <<<<"EOF", Nobody>>>> \in Seq(Packet)
      BY DEF Packet, Message
    <3>3. \A i \in Nat : Matches(c, <<"EOF", Nobody>>, i)
      BY DEF Matches
    <3>4. Fits(<<<<"EOF", Nobody>>>>)
      BY <3>1, <3>2, <3>3
    <3>5. QED
      BY <3>4
  <2>3. CASE PowerLoss(c)
    <3>1. stream' = [stream EXCEPT ![c] = @ \o <<>>]
      BY <2>3 DEF PowerLoss, Leave
    <3>2. <<>> \in Seq(Packet) /\ Len(<<>>) = 0
      OBVIOUS
    <3>3. Fits(<<>>)
      BY <3>1, <3>2
    <3>4. QED
      BY <3>3
  <2>4. QED
    BY <2>1, <2>2, <2>3
<1>3. /\ UNCHANGED server
      /\ peer' \in {peer, [peer EXCEPT ![c] = Nobody]}
      /\ asked' \in [Name -> Questions]
      /\ asked'[c] \subseteq asked[c]
      /\ \A b \in Name \ {c} : asked'[b] = asked[b]
      /\ faults' \in 0 .. MaxFaults /\ retrying' \subseteq retrying
      /\ peer[c] # Nobody
  <2>1. CASE Answer(c)
    BY <1>1, <2>1 DEF Answer, BHROInv, TypeOK
  <2>2. CASE \E packets : Leave(c, packets)
    BY <1>1, <2>2, Site DEF Leave, BHROInv, TypeOK
  <2>3. QED
    BY <2>1, <2>2 DEF Exit, PowerLoss
<1>4. TypeOK'
  BY <1>1, <1>3 DEF BHROInv, TypeOK, server
<1>5. StreamsMatch'
  <2>1. /\ stream[c] \o last \in Seq(Packet)
        /\ Len(stream[c] \o last) = Len(stream[c]) + Len(last)
        /\ \A i \in 1 .. Len(stream[c]) + Len(last) : (stream[c] \o last)[i] =
              IF i <= Len(stream[c]) THEN stream[c][i] ELSE last[i - Len(stream[c])]
    BY <1>1, <1>2, ConcatProperties
  <2>2. Len(stream[c]) \in Nat /\ Len(last) \in Nat
    BY <1>1, <1>2
  <2>3. /\ stream' \in [Name -> Seq(Packet)] /\ stream'[c] = stream[c] \o last
        /\ \A b \in Name \ {c} : stream'[b] = stream[b]
    BY <1>1, <1>2, <2>1
  <2>4. \A b \in Name : peer'[b] \in {peer[b], Nobody}
    BY <1>1, <1>3
  <2>5. connectionInfo_' = connectionInfo_
    BY <1>3 DEF server
  <2>6. \A b \in Name, i \in Nat, packet \in Packet :
           Matches(b, packet, i) => Matches(b, packet, i)'
    BY <2>4, <2>5 DEF Matches
  <2>7. ASSUME NEW b \in Name, NEW i \in 1 .. Len(stream'[b])
        PROVE  Matches(b, stream[b][i], i)'
    <3>1. stream'[b][i] \in Packet /\ i \in Nat
      BY <2>3, <2>7, ElementOfSeq
    <3>2. CASE b # c \/ i <= Len(stream[c])
      <4>1. i \in 1 .. Len(stream[b]) /\ stream'[b][i] = stream[b][i]
        BY <2>1, <2>2, <2>3, <2>7, <3>2
      <4>2. Matches(b, stream'[b][i], i)
        BY <4>1 DEF BHROInv, StreamsMatch
      <4>3. QED
        BY <2>6, <3>1, <4>2
    <3>3. CASE b = c /\ ~(i <= Len(stream[c]))
      <4>a. i \in 1 .. Len(stream[c]) + Len(last) /\ Len(last) <= 1
        BY <1>2, <2>1, <2>3, <2>7, <3>3
      <4>1. Len(last) = 1 /\ i - Len(stream[c]) = 1
        <5>1. ASSUME NEW n \in Nat, NEW m \in Nat, m <= 1,
                     NEW k \in 1 .. n + m, ~(k <= n)
              PROVE  m = 1 /\ k - n = 1
          BY <5>1
        <5>2. QED
          BY <2>2, <3>3, <4>a, <5>1
      <4>2. stream'[b][i] = last[1]
        BY <2>1, <2>3, <2>7, <3>3, <4>1
      <4>3. Matches(b, stream'[b][i], i)
        BY <1>2, <3>1, <3>3, <4>1, <4>2
      <4>4. QED
        BY <2>6, <3>1, <4>3
    <3>4. QED
      BY <3>2, <3>3
  <2>8. ASSUME NEW b \in Name
        PROVE  Belongs(b)'
    <3>1. Belongs(b)
      BY DEF BHROInv, StreamsMatch
    <3>2. CASE b = c
      <4>1. connectionInfo_[c].dev # "free"
        BY <1>1, <1>3 DEF Belongs
      <4>2. QED
        BY <1>3, <2>4, <2>5, <3>1, <3>2, <4>1 DEF Belongs
    <3>3. CASE b # c
      <4>1. peer'[b] = peer[b] /\ asked'[b] = asked[b] /\ stream'[b] = stream[b]
        BY <1>1, <1>3, <2>3, <3>3
      <4>2. QED
        BY <2>5, <3>1, <4>1 DEF Belongs
    <3>4. QED
      BY <3>2, <3>3
  <2>9. QED
    BY <2>3, <2>7, <2>8 DEF StreamsMatch
<1>6. TablesMatch'
  BY <1>3, TablesKept DEF BHROInv, server
<1>7. QED
  BY <1>4, <1>5, <1>6 DEF BHROInv

LEMMA LoopKeeps ==
  ASSUME BHROInv, EndPoll \/ EndClosing \/ UNCHANGED vars
  PROVE  BHROInv'
<1>1. /\ UNCHANGED <<connectionInfo_, closing_handles, CloseDeviceConnectFlag,
                     delay_map, tVectorDL, peer, stream, asked, retrying, faults>>
      /\ phase' \in {phase, "poll", "closing"}
  BY DEF EndPoll, EndClosing, vars, server, site
<1>2. TypeOK'
  BY <1>1 DEF BHROInv, TypeOK
<1>3. StreamsMatch'
  BY <1>1 DEF BHROInv, StreamsMatch, Matches, Belongs
<1>4. TablesMatch'
  BY <1>1, TablesKept DEF BHROInv
<1>5. QED
  BY <1>2, <1>3, <1>4 DEF BHROInv

(* What an RRU's program does with its timer is none of the BBU's state.   *)
LEMMA RetryKeeps ==
  ASSUME BHROInv, NEW d \in Rru, Start(d) \/ RetriesEnd(d)
  PROVE  BHROInv'
<1>1. /\ UNCHANGED <<server, peer, stream, asked>>
      /\ retrying' \subseteq Rru /\ faults' \in 0 .. MaxFaults
  BY Site DEF Start, RetriesEnd, BHROInv, TypeOK
<1>2. TypeOK'
  BY <1>1 DEF BHROInv, TypeOK, server
<1>3. StreamsMatch'
  BY <1>1 DEF BHROInv, StreamsMatch, Matches, Belongs, server
<1>4. TablesMatch'
  BY <1>1, TablesKept DEF BHROInv, server
<1>5. QED
  BY <1>2, <1>3, <1>4 DEF BHROInv

LEMMA BHROStart == Init => BHROInv
<1> SUFFICES ASSUME Init
             PROVE  BHROInv
  OBVIOUS
<1>1. /\ phase = "poll" /\ connectionInfo_ = [c \in Name |-> Free]
      /\ closing_handles = <<>> /\ CloseDeviceConnectFlag \in BOOLEAN
      /\ ~CloseDeviceConnectFlag /\ delay_map = {} /\ tVectorDL = {}
      /\ peer = [c \in Name |-> Nobody] /\ stream = [c \in Name |-> <<>>]
      /\ asked = [c \in Name |-> {}] /\ retrying = {} /\ faults = 0
  BY Zenon DEF Init
<1>2. <<>> \in Seq(Name) /\ <<>> \in Seq(Packet) /\ Len(<<>>) = 0
  OBVIOUS
<1>3. TypeOK
  BY <1>1, <1>2, FreeType, Site DEF TypeOK
<1>4. StreamsMatch
  BY <1>1, <1>2, FreeType, Site DEF StreamsMatch, Belongs, Matches
<1>5. FlagMarksRefused /\ StaleOnlyAtPortZero /\ TotalsHaveRru
  BY <1>1 DEF FlagMarksRefused, StaleOnlyAtPortZero, TotalsHaveRru
<1>6. RoutedOrClosing
  BY <1>1, FreeType, Site DEF RoutedOrClosing
<1>7. QED
  BY <1>3, <1>4, <1>5, <1>6 DEF BHROInv, TablesMatch

(* BHRO's inductive invariant: the types, whose packets a connection can   *)
(* still contain, and what the tables say of the registry.                 *)
THEOREM BHROInductive == Spec => []BHROInv
<1>1. BHROInv /\ [Next]_vars => BHROInv'
  <2> SUFFICES ASSUME BHROInv, [Next]_vars
               PROVE  BHROInv'
    OBVIOUS
  <2>1. CASE \/ \E h \in Hub : HubConnects(h)
             \/ \E d \in Rru : RruConnects(d) \/ Start(d) \/ RetriesEnd(d)
    BY <2>1, AcceptKeeps, RetryKeeps, Site DEF HubConnects, RruConnects
  <2>2. ASSUME NEW c \in Name, Handle(c)
        PROVE  BHROInv'
    <3>1. CASE \E d \in Device : SetConnectionClient(c, d)
      BY <3>1, ConnectKeeps
    <3>2. CASE \E d \in Device : HubDelayInfo(c, d) \/ UpdateHUBDelayInfo(c, d)
      BY <3>2, HubDelayKeeps
    <3>3. CASE \E d \in Device : RruDelayProcess(c, d)
      BY <3>3, RruDelayKeeps
    <3>4. CASE onEof(c) \/ Expire(c)
      BY <3>4, EndKeeps
    <3>5. QED
      BY <2>2, <3>1, <3>2, <3>3, <3>4 DEF Handle
  <2>3. ASSUME NEW c \in Name, Answer(c) \/ Exit(c) \/ PowerLoss(c)
        PROVE  BHROInv'
    BY <2>3, DeviceKeeps
  <2>4. CASE Callbacks
    BY <2>4, LoopKeeps, FinishKeeps DEF Callbacks
  <2>5. CASE UNCHANGED vars
    BY <2>5, LoopKeeps
  <2>6. QED
    BY <2>1, <2>2, <2>3, <2>4, <2>5 DEF Next
<1>2. QED
  BY <1>1, BHROStart, PTL DEF Spec

(***************************************************************************)
(* The properties.                                                         *)
(***************************************************************************)
(* The registry, libuv's list, the delays and the totals keep their types. *)
THEOREM BHROTypes == Spec => []TypeOK
<1>1. BHROInv => TypeOK
  BY DEF BHROInv
<1>2. QED
  BY <1>1, BHROInductive, PTL

(* While CloseDeviceConnectFlag is set a refused device is about to be     *)
(* closed: it never survives the iteration of the loop.                    *)
THEOREM FlagIsRefusal == Spec => []FlagMarksRefused
<1>1. BHROInv => FlagMarksRefused
  BY DEF BHROInv, TablesMatch
<1>2. QED
  BY <1>1, BHROInductive, PTL

(* Whoever is announced and stays has a route index.                       *)
THEOREM AnnouncedAreRouted == Spec => []RoutedOrClosing
<1>1. BHROInv => RoutedOrClosing
  BY DEF BHROInv, TablesMatch
<1>2. QED
  BY <1>1, BHROInductive, PTL

(* A level without a hub has no delays, but for port 0.                    *)
THEOREM DelaysGoWithHub == Spec => []StaleOnlyAtPortZero
<1>1. BHROInv => StaleOnlyAtPortZero
  BY DEF BHROInv, TablesMatch
<1>2. QED
  BY <1>1, BHROInductive, PTL

(* Every total belongs to a registered RRU.                                *)
THEOREM TotalsGoWithRru == Spec => []TotalsHaveRru
<1>1. BHROInv => TotalsHaveRru
  BY DEF BHROInv, TablesMatch
<1>2. QED
  BY <1>1, BHROInductive, PTL

(***************************************************************************)
(* Route indexes in a site whose hubs are one chain.                       *)
(***************************************************************************)
OneHubPerLevel == \A g, h \in Hub : hop[g] = hop[h] => g = h

(* A route index consists of the ports of one hub a level and the device's.*)
IsPath(route, d) ==
  /\ Len(route) = hop[d] /\ route[hop[d]] = uport[d]
  /\ \A i \in 1 .. hop[d] - 1 : \E h \in Hub : hop[h] = i /\ route[i] = uport[h]

RoutesArePaths ==
  \A c \in Name :
     connectionInfo_[c].dev \in Device /\ connectionInfo_[c].route # <<>> =>
       IsPath(connectionInfo_[c].route, connectionInfo_[c].dev)

(* A hub's path with one more port is the path of a device below it.       *)
LEMMA PathBelowHub ==
  ASSUME NEW h \in Hub, NEW d \in Device, hop[d] = hop[h] + 1,
         NEW route \in Seq(0 .. m_base - 1), IsPath(route, h)
  PROVE  IsPath(route \o <<uport[d]>>, d)
<1> DEFINE r == route \o <<uport[d]>>
<1>1. /\ hop[h] \in Nat \ {0} /\ uport[d] \in 0 .. m_base - 1
      /\ Len(route) = hop[h] /\ route[hop[h]] = uport[h]
      /\ \A i \in 1 .. hop[h] - 1 : \E g \in Hub : hop[g] = i /\ route[i] = uport[g]
  BY Site DEF IsPath
<1>2. /\ <<uport[d]>> \in Seq(0 .. m_base - 1) /\ Len(<<uport[d]>>) = 1
      /\ <<uport[d]>>[1] = uport[d]
  BY <1>1
<1>3. /\ Len(r) = hop[h] + 1
      /\ \A i \in 1 .. hop[h] + 1 :
            r[i] = IF i <= hop[h] THEN route[i] ELSE <<uport[d]>>[i - hop[h]]
  BY <1>1, <1>2, ConcatProperties
<1>4. r[hop[h] + 1] = uport[d]
  BY <1>1, <1>2, <1>3
<1>5. ASSUME NEW i \in 1 .. hop[h]
      PROVE  \E g \in Hub : hop[g] = i /\ r[i] = uport[g]
  <2>1. r[i] = route[i]
    BY <1>1, <1>3
  <2>2. CASE i = hop[h]
    BY <1>1, <2>1, <2>2
  <2>3. CASE i # hop[h]
    BY <1>1, <2>1, <2>3
  <2>4. QED
    BY <2>2, <2>3
<1>6. QED
  BY <1>1, <1>3, <1>4, <1>5 DEF IsPath

LEMMA CreatesPath ==
  ASSUME NEW info \in [Name -> DeviceInfo], NEW d \in Device,
         \A c \in Name :
            info[c].dev \in Hub /\ info[c].route # <<>> =>
              IsPath(info[c].route, info[c].dev),
         CreateRouteIndex(info, d) # <<>>
  PROVE  IsPath(CreateRouteIndex(info, d), d)
<1> DEFINE hubs == HubsAt(info, hop[d] - 1)
<1>1. hop[d] \in Nat \ {0}
  BY Site
<1>2. CASE hop[d] = 1
  <2>1. CreateRouteIndex(info, d) = <<uport[d]>>
    BY <1>2 DEF CreateRouteIndex
  <2>2. Len(<<uport[d]>>) = 1 /\ <<uport[d]>>[1] = uport[d]
    OBVIOUS
  <2>3. QED
    BY <1>2, <2>1, <2>2 DEF IsPath
<1>3. CASE hop[d] # 1
  <2> DEFINE up == Min(hubs)
  <2>1. /\ hubs # {} /\ info[up].route # <<>>
        /\ CreateRouteIndex(info, d) = info[up].route \o <<uport[d]>>
    BY <1>3 DEF CreateRouteIndex
  <2>2. up \in hubs
    BY <2>1, MinIsMember DEF HubsAt
  <2> HIDE DEF up
  <2>3. up \in Name /\ info[up].dev \in Hub /\ hop[info[up].dev] = hop[d] - 1
    BY <2>2 DEF HubsAt
  <2>4. info[up].route \in Seq(0 .. m_base - 1)
    BY <2>3 DEF DeviceInfo
  <2>5. hop[d] = hop[info[up].dev] + 1
    BY <1>1, <2>3
  <2>6. QED
    BY <2>1, <2>3, <2>4, <2>5, PathBelowHub
<1>4. QED
  BY <1>2, <1>3

(* A stored route index is a path from the BBU to its device.              *)
THEOREM RoutesInductive == Spec => []RoutesArePaths
<1>1. Init => RoutesArePaths
  BY FreeType, Site DEF Init, RoutesArePaths
<1>2. ASSUME BHROInv, RoutesArePaths, [Next]_vars
      PROVE  RoutesArePaths'
  <2>1. connectionInfo_ \in [Name -> DeviceInfo]
    BY <1>2 DEF BHROInv, TypeOK
  <2>2. SUFFICES ASSUME NEW b \in Name, connectionInfo_'[b].dev \in Device,
                        connectionInfo_'[b].route # <<>>
                 PROVE  IsPath(connectionInfo_'[b].route, connectionInfo_'[b].dev)
    BY DEF RoutesArePaths, IsPath
  <2>3. CASE /\ connectionInfo_'[b].dev = connectionInfo_[b].dev
             /\ connectionInfo_'[b].route = connectionInfo_[b].route
    BY <1>2, <2>2, <2>3 DEF RoutesArePaths
  <2>4. ASSUME NEW c \in Name, NEW d \in Device, SetConnectionClient(c, d)
        PROVE  IsPath(connectionInfo_'[b].route, connectionInfo_'[b].dev)
    <3> DEFINE new == [Free EXCEPT !.dev = d]
               info == [connectionInfo_ EXCEPT ![c] = new]
               route == CreateRouteIndex(info, d)
    <3>1. new \in DeviceInfo /\ new.dev = d /\ new.route = <<>>
      BY FreeType DEF DeviceInfo, Free
    <3>2. info \in [Name -> DeviceInfo]
      BY <2>1, <3>1
    <3>3. connectionInfo_' = [info EXCEPT ![c].route = route]
      BY <2>4 DEF SetConnectionClient
    <3> HIDE DEF new
    <3>4. \A a \in Name : info[a].dev \in Hub /\ info[a].route # <<>> =>
                          IsPath(info[a].route, info[a].dev)
      BY <1>2, <2>1, <3>1, Site DEF RoutesArePaths
    <3>5. route # <<>> => IsPath(route, d)
      BY <3>2, <3>4, CreatesPath
    <3> HIDE DEF route
    <3>6. CASE b = c
      BY <2>1, <2>2, <3>1, <3>2, <3>3, <3>5, <3>6
    <3>7. CASE b # c
      BY <2>1, <2>3, <3>2, <3>3, <3>7
    <3>8. QED
      BY <3>6, <3>7
  <2>5. ASSUME NEW c \in Name, NEW d \in Device, RruDelayProcess(c, d)
        PROVE  IsPath(connectionInfo_'[b].route, connectionInfo_'[b].dev)
    <3>1. \/ connectionInfo_' = connectionInfo_
          \/ connectionInfo_' = [connectionInfo_ EXCEPT ![c].offset = LinkDelay[d]]
      BY <2>5 DEF RruDelayProcess
    <3>2. QED
      BY <2>1, <2>3, <3>1 DEF DeviceInfo
  <2>6. ASSUME NEW c \in Name, NEW e \in {Free, cInfo_},
               connectionInfo_' = [connectionInfo_ EXCEPT ![c] = e]
        PROVE  IsPath(connectionInfo_'[b].route, connectionInfo_'[b].dev)
    <3>1. e.dev \notin Device
      BY FreeType, Site
    <3>2. b # c /\ connectionInfo_'[b] = connectionInfo_[b]
      BY <2>1, <2>2, <2>6, <3>1
    <3>3. QED
      BY <2>3, <3>2
  <2>7. CASE FinishClose
    <3>1. Head(closing_handles) \in Name
      BY <1>2, <2>7, ClosingPop DEF BHROInv, TypeOK, FinishClose
    <3>2. QED
      BY <2>6, <2>7, <3>1 DEF FinishClose
  <2>8. ASSUME NEW c \in Name, NEW d \in Device, onAccept(c, d)
        PROVE  IsPath(connectionInfo_'[b].route, connectionInfo_'[b].dev)
    BY <2>6, <2>8 DEF onAccept
  <2>9. CASE connectionInfo_' = connectionInfo_
    BY <2>3, <2>9
  <2>10. ASSUME NEW c \in Name, Handle(c)
         PROVE  IsPath(connectionInfo_'[b].route, connectionInfo_'[b].dev)
    <3>1. CASE \E d \in Device : SetConnectionClient(c, d) \/ RruDelayProcess(c, d)
      BY <2>4, <2>5, <3>1
    <3>2. CASE \E d \in Device : HubDelayInfo(c, d) \/ UpdateHUBDelayInfo(c, d)
      BY <2>9, <3>2 DEF HubDelayInfo, UpdateHUBDelayInfo
    <3>3. CASE onEof(c) \/ Expire(c)
      BY <2>9, <3>3 DEF onEof, Expire
    <3>4. QED
      BY <2>10, <3>1, <3>2, <3>3 DEF Handle
  <2>11. CASE \/ \E c \in Name : Answer(c) \/ Exit(c) \/ PowerLoss(c)
              \/ \E d \in Rru : Start(d) \/ RetriesEnd(d)
    BY <2>9, <2>11
    DEF Answer, Exit, PowerLoss, Leave, Start, RetriesEnd, server
  <2>12. CASE EndPoll \/ EndClosing \/ UNCHANGED vars
    BY <2>9, <2>12 DEF EndPoll, EndClosing, vars, server
  <2>13. QED
    BY <1>2, <2>7, <2>8, <2>10, <2>11, <2>12, Site
    DEF Next, HubConnects, RruConnects, Callbacks
<1>3. QED
  BY <1>1, <1>2, BHROInductive, PTL DEF Spec

(* In a chain of hubs of any length, two registered neighbours agree on    *)
(* the route index, whenever each of them has connected.                   *)
THEOREM RoutesAgree ==
  ASSUME OneHubPerLevel
  PROVE  Spec => []RouteIsHubs
<1>1. ASSUME BHROInv, RoutesArePaths
      PROVE  RouteIsHubs
  <2> SUFFICES ASSUME NEW b \in Name, NEW c \in Name,
                      connectionInfo_[b].dev \in Device,
                      connectionInfo_[b].route # <<>>,
                      connectionInfo_[c].dev \in Hub,
                      connectionInfo_[c].route # <<>>,
                      hop[connectionInfo_[b].dev] = hop[connectionInfo_[c].dev] + 1
               PROVE  connectionInfo_[b].route =
                        connectionInfo_[c].route \o <<uport[connectionInfo_[b].dev]>>
    BY DEF RouteIsHubs
  <2> DEFINE d == connectionInfo_[b].dev
             h == connectionInfo_[c].dev
             r == connectionInfo_[b].route
             s == connectionInfo_[c].route \o <<uport[d]>>
             P == 0 .. m_base - 1
  <2>1. /\ h \in Device /\ hop[h] \in Nat \ {0} /\ hop[d] = hop[h] + 1
        /\ uport[d] \in P
    BY Site
  <2>2. IsPath(r, d) /\ IsPath(connectionInfo_[c].route, h)
    BY <1>1, <2>1 DEF RoutesArePaths
  <2>3. r \in Seq(P) /\ connectionInfo_[c].route \in Seq(P)
    BY <1>1 DEF BHROInv, TypeOK, DeviceInfo
  <2>4. IsPath(s, d)
    BY <2>1, <2>2, <2>3, PathBelowHub
  <2>5. s \in Seq(P)
    <3>1. <<uport[d]>> \in Seq(P)
      BY <2>1
    <3>2. QED
      BY <2>3, <3>1, ConcatProperties
  <2> HIDE DEF r, s
  <2>6. Len(r) = Len(s) /\ Len(r) = hop[h] + 1
    BY <2>1, <2>2, <2>4 DEF IsPath
  <2>7. ASSUME NEW i \in 1 .. Len(r)
        PROVE  r[i] = s[i]
    <3>1. CASE i = hop[d]
      BY <2>2, <2>4, <3>1 DEF IsPath
    <3>2. CASE i # hop[d]
      <4>1. i \in 1 .. hop[d] - 1
        BY <2>1, <2>6, <3>2
      <4>2. PICK g \in Hub : hop[g] = i /\ r[i] = uport[g]
        BY <2>2, <4>1 DEF IsPath
      <4>3. PICK k \in Hub : hop[k] = i /\ s[i] = uport[k]
        BY <2>4, <4>1 DEF IsPath
      <4>4. g = k
        BY <4>2, <4>3 DEF OneHubPerLevel
      <4>5. QED
        BY <4>2, <4>3, <4>4
    <3>3. QED
      BY <3>1, <3>2
  <2>8. r = s
    BY <2>3, <2>5, <2>6, <2>7, SeqEqual
  <2>9. QED
    BY <2>8 DEF r, s
<1>2. QED
  BY <1>1, BHROInductive, RoutesInductive, PTL

=============================================================================
