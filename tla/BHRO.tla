-------------------------------- MODULE BHRO --------------------------------
(***************************************************************************)
(* The BBU of BHRO, V8's successor, where it differs from V8: a device     *)
(* gets its route index from the hub above it when it connects, and is     *)
(* disconnected when there is none; the total delay of every RRU is kept,  *)
(* so that all RRUs can be told when the maximum changes.  Packets to and  *)
(* from OAM adapters change none of this state and are left out.           *)
(***************************************************************************)
EXTENDS Integers, Sequences, FiniteSetsExt

CONSTANTS
  Hub, Rru,     \* the devices
  hop, uport,   \* how far from the BBU a device is, and the port it is on
  LinkDelay,    \* an RRU's total delay
  m_base,       \* ports of a hub; the last one is for the next hub
  Name,         \* ip:port strings, numbered in the order of std::map
  MaxFaults     \* exits and power losses in all (a bound)

Device == Hub \cup Rru

SiteAssumption ==
  /\ Name \subseteq Nat /\ IsFiniteSet(Name)
  /\ m_base \in Nat \ {0} /\ MaxFaults \in Nat
  /\ Hub \cap Rru = {}
  /\ Device \cap {"nobody", "free", "unannounced"} = {}
  /\ hop \in [Device -> Nat \ {0}]
  /\ uport \in [Device -> 0 .. m_base - 1]
  /\ LinkDelay \in [Rru -> Nat]

ASSUME SiteAssumption

VARIABLES
  phase,                    \* of uv_run: "poll", "closing"; or "terminated"
  connectionInfo_,          \* name -> DeviceInfo
  closing_handles,          \* libuv's list, the last closed first
  CloseDeviceConnectFlag,
  delay_map,                \* the keys <<level, port>> that have delays
  tVectorDL,                \* pairs <<route index, total>>
  peer,                     \* name -> the device at the other end
  stream,                   \* name -> packets on their way to the BBU
  asked,                    \* name -> what the device has been asked for
  retrying,                 \* the RRUs whose program connects again and again
  faults

server == <<phase, connectionInfo_, closing_handles, CloseDeviceConnectFlag,
            delay_map, tVectorDL>>
site == <<peer, stream, asked, retrying, faults>>
vars == <<server, site>>

Nobody == "nobody"
Unmeasured == -1   \* s_rruDelayOffset, empty strings

Free == [dev |-> "free", route |-> <<>>, offset |-> Unmeasured]
cInfo_ == [Free EXCEPT !.dev = "unannounced"]

Closing == {closing_handles[i] : i \in DOMAIN closing_handles}

Init ==
  /\ phase = "poll"
  /\ connectionInfo_ = [c \in Name |-> Free]
  /\ closing_handles = <<>>
  /\ CloseDeviceConnectFlag = FALSE
  /\ delay_map = {}
  /\ tVectorDL = {}
  /\ peer = [c \in Name |-> Nobody]
  /\ stream = [c \in Name |-> <<>>]
  /\ asked = [c \in Name |-> {}]
  /\ retrying = {}
  /\ faults = 0

(***************************************************************************)
(* TcpServer's tables.                                                     *)
(***************************************************************************)
HubsAt(info, level) == {c \in Name : info[c].dev \in Hub /\ hop[info[c].dev] = level}

(* A slip: the hub above may still wait for a route index of its own.      *)
RouteOfAnyHub(info, d) ==
  LET hubs == HubsAt(info, hop[d] - 1)
  IN  IF hop[d] = 1 THEN <<uport[d]>>
      ELSE IF hubs = {} THEN <<>> ELSE info[Min(hubs)].route \o <<uport[d]>>

(* The hub above has to be there and to have a route index of its own.     *)
CreateRouteIndex(info, d) ==
  LET hubs == HubsAt(info, hop[d] - 1)
  IN  IF hop[d] = 1 THEN <<uport[d]>>
      ELSE IF hubs = {} \/ info[Min(hubs)].route = <<>> THEN <<>>
      ELSE info[Min(hubs)].route \o <<uport[d]>>

(* Slips: the ports are counted from 1; the last port is not deleted; an   *)
(* RRU's total is not deleted.                                             *)
HubKeysFromOne(level) == {<<level, p>> : p \in 1 .. m_base}
DeleteHubDelayButLast(level) == delay_map \ {<<level, p>> : p \in 1 .. m_base - 2}
KeepRRUTotalDelay(route) == tVectorDL

(* SplitStrings2Map counts the ports from 0, DeleteHubDelay from 1.        *)
HubKeys(level) == {<<level, p>> : p \in 0 .. m_base - 1}
DeleteHubDelay(level) == delay_map \ {<<level, p>> : p \in 1 .. m_base}

DeleteRRUTotalDelay(route) == {t \in tVectorDL : t[1] # route}

(* The port above the RRU and the cascade ports up to the BBU.             *)
DelaysKnown(d) ==
  /\ hop[d] > 1
  /\ <<hop[d] - 1, uport[d]>> \in delay_map
  /\ \A level \in 1 .. hop[d] - 2 : <<level, m_base - 1>> \in delay_map

(***************************************************************************)
(* Polling: the handlers of a connection's next packet.                    *)
(***************************************************************************)
Receive(c, msg, d) ==
  /\ phase = "poll"
  /\ c \notin Closing
  /\ stream[c] # <<>> /\ Head(stream[c]) = <<msg, d>>
  /\ stream' = [stream EXCEPT ![c] = Tail(@)]

onAccept(c, d) ==
  /\ phase = "poll"
  /\ connectionInfo_[c] = Free
  /\ peer[c] = Nobody
  /\ \A b \in Name : peer[b] # d
  /\ connectionInfo_' = [connectionInfo_ EXCEPT ![c] = cInfo_]
  /\ peer' = [peer EXCEPT ![c] = d]
  /\ stream' = [stream EXCEPT ![c] = <<<<"MSG_CONNECT", d>>>>]
  /\ UNCHANGED <<phase, closing_handles, CloseDeviceConnectFlag, delay_map,
                 tVectorDL, asked, retrying, faults>>

(* closeConnection; the handle's callback comes later.                     *)
uv_close(c) == closing_handles' = <<c>> \o closing_handles

(* A slip, V8's behaviour: the device without a route index stays.         *)
RefuseLater(c) == CloseDeviceConnectFlag' = TRUE /\ UNCHANGED closing_handles

Refuse(c) == CloseDeviceConnectFlag' = TRUE /\ uv_close(c)

SetConnectionClient(c, d) ==
  LET info == [connectionInfo_ EXCEPT ![c] = [Free EXCEPT !.dev = d]]
      route == CreateRouteIndex(info, d)
      hubs == IF d \in Rru THEN HubsAt(info, hop[d] - 1) ELSE {}
  IN  /\ Receive(c, "MSG_CONNECT", d)
      /\ connectionInfo_' = [info EXCEPT ![c].route = route]
      /\ IF route = <<>>
         THEN Refuse(c) /\ UNCHANGED asked
         ELSE /\ asked' = [b \in Name |->
                   asked[b]
                     \cup IF b = c THEN {"MSG_DELAY_MEASUREMENT"} ELSE {}
                     \cup IF hubs # {} /\ b = Min(hubs)
                          THEN {"MSG_UPDATE_DELAY"} ELSE {}]
              /\ UNCHANGED <<CloseDeviceConnectFlag, closing_handles>>
      /\ UNCHANGED <<phase, delay_map, tVectorDL, peer, retrying, faults>>

HubDelayInfo(c, d) ==
  /\ d \in Hub
  /\ Receive(c, "MSG_DELAY_MEASUREMENT", d)
  /\ delay_map' = delay_map \cup HubKeys(hop[d])
  /\ UNCHANGED <<phase, connectionInfo_, closing_handles,
                 CloseDeviceConnectFlag, tVectorDL, peer, asked, retrying,
                 faults>>

UpdateHUBDelayInfo(c, d) ==
  /\ Receive(c, "MSG_UPDATE_DELAY", d)
  /\ delay_map' = DeleteHubDelay(hop[d]) \cup HubKeys(hop[d])
  /\ UNCHANGED <<phase, connectionInfo_, closing_handles,
                 CloseDeviceConnectFlag, tVectorDL, peer, asked, retrying,
                 faults>>

(* UpdataRRUDelayOffsetValue reads the offsets of all other RRUs; stoi of  *)
(* an empty string throws, and nothing catches it.                         *)
OffsetsReadable(c) ==
  \A b \in Name \ {c} :
     connectionInfo_[b].dev \in Rru => connectionInfo_[b].offset # Unmeasured

RruDelayProcess(c, d) ==
  LET route == connectionInfo_[c].route
      totals == DeleteRRUTotalDelay(route) \cup {<<route, LinkDelay[d]>>}
      longest == \A t \in totals : t[2] <= LinkDelay[d]
  IN  /\ d \in Rru
      /\ Receive(c, "MSG_DELAY_MEASUREMENT", d)
      /\ IF DelaysKnown(d)
         THEN /\ connectionInfo_' =
                   [connectionInfo_ EXCEPT ![c].offset = LinkDelay[d]]
              /\ tVectorDL' = totals
              /\ phase' = IF longest /\ ~OffsetsReadable(c)
                          THEN "terminated" ELSE phase
         ELSE UNCHANGED <<connectionInfo_, tVectorDL, phase>>
      /\ UNCHANGED <<closing_handles, CloseDeviceConnectFlag, delay_map, peer,
                     asked, retrying, faults>>

(* The end of the stream, and a heartbeat that has not come for so long    *)
(* that the timer wheel closes the connection.                             *)
onEof(c) ==
  /\ Receive(c, "EOF", Nobody)
  /\ uv_close(c)
  /\ UNCHANGED <<phase, connectionInfo_, CloseDeviceConnectFlag, delay_map,
                 tVectorDL, peer, asked, retrying, faults>>

Expire(c) ==
  /\ phase = "poll"
  /\ c \notin Closing
  /\ connectionInfo_[c] # Free
  /\ peer[c] = Nobody
  /\ stream[c] = <<>>
  /\ uv_close(c)
  /\ UNCHANGED <<phase, connectionInfo_, CloseDeviceConnectFlag, delay_map,
                 tVectorDL, site>>

(***************************************************************************)
(* The closing handles' callbacks.                                         *)
(***************************************************************************)
EndPoll ==
  /\ phase = "poll"
  /\ closing_handles # <<>>
  /\ phase' = "closing"
  /\ UNCHANGED <<connectionInfo_, closing_handles, CloseDeviceConnectFlag,
                 delay_map, tVectorDL, site>>

(* A slip: the flag stays.                                                 *)
KeepFlag == UNCHANGED CloseDeviceConnectFlag

(* A departure is reported to the adapters when the flag is not set.       *)
OnConnectClose == CloseDeviceConnectFlag' = FALSE

(* OnConnectClose and the rest of closeConnection.  The device sees the    *)
(* end of the stream.                                                      *)
FinishClose ==
  LET c == Head(closing_handles)
      d == connectionInfo_[c].dev
  IN  /\ phase = "closing"
      /\ closing_handles # <<>>
      /\ closing_handles' = Tail(closing_handles)
      /\ OnConnectClose
      /\ delay_map' = IF d \in Hub THEN DeleteHubDelay(hop[d]) ELSE delay_map
      /\ tVectorDL' = IF d \in Rru
                      THEN DeleteRRUTotalDelay(connectionInfo_[c].route)
                      ELSE tVectorDL
      /\ connectionInfo_' = [connectionInfo_ EXCEPT ![c] = Free]
      /\ peer' = [peer EXCEPT ![c] = Nobody]
      /\ stream' = [stream EXCEPT ![c] = <<>>]
      /\ asked' = [asked EXCEPT ![c] = {}]
      /\ UNCHANGED <<phase, retrying, faults>>

EndClosing ==
  /\ phase = "closing"
  /\ closing_handles = <<>>
  /\ phase' = "poll"
  /\ UNCHANGED <<connectionInfo_, closing_handles, CloseDeviceConnectFlag,
                 delay_map, tVectorDL, site>>

(***************************************************************************)
(* The devices.                                                            *)
(***************************************************************************)
Answer(c) ==
  /\ phase # "terminated"
  /\ peer[c] # Nobody
  /\ \E msg \in asked[c] :
        /\ asked' = [asked EXCEPT ![c] = @ \ {msg}]
        /\ stream' = [stream EXCEPT ![c] = Append(@, <<msg, peer[c]>>)]
  /\ UNCHANGED <<server, peer, retrying, faults>>

Leave(c, last) ==
  /\ phase # "terminated"
  /\ peer[c] # Nobody
  /\ faults < MaxFaults
  /\ faults' = faults + 1
  /\ peer' = [peer EXCEPT ![c] = Nobody]
  /\ retrying' = retrying \ {peer[c]}
  /\ stream' = [stream EXCEPT ![c] = @ \o last]
  /\ asked' = [asked EXCEPT ![c] = {}]
  /\ UNCHANGED server

Exit(c) == Leave(c, <<<<"EOF", Nobody>>>>)
PowerLoss(c) == Leave(c, <<>>)

(* A hub connects once, when its program starts: its reConnect reboots the *)
(* board, so that it comes back only if the board comes up again.          *)
HubConnects(h) == \E c \in Name : onAccept(c, h)

(* An RRU's reConnect connects a second after every failure and every end  *)
(* of a connection, as long as the program runs.                           *)
RruConnects(d) == d \in retrying /\ \E c \in Name : onAccept(c, d)

Start(d) ==
  /\ phase # "terminated"
  /\ d \notin retrying
  /\ retrying' = retrying \cup {d}
  /\ UNCHANGED <<server, peer, stream, asked, faults>>

(* uv_tcp_connect fails at once, the error is dropped and no callback will *)
(* come: the program runs on and never connects again.                     *)
RetriesEnd(d) ==
  /\ phase # "terminated"
  /\ d \in retrying
  /\ \A c \in Name : peer[c] # d
  /\ faults < MaxFaults
  /\ faults' = faults + 1
  /\ retrying' = retrying \ {d}
  /\ UNCHANGED <<server, peer, stream, asked>>

(***************************************************************************)
(* The specification.                                                      *)
(***************************************************************************)
Handle(c) ==
  \/ \E d \in Device : \/ SetConnectionClient(c, d) \/ HubDelayInfo(c, d)
                       \/ UpdateHUBDelayInfo(c, d) \/ RruDelayProcess(c, d)
  \/ onEof(c) \/ Expire(c)

Callbacks == EndPoll \/ FinishClose \/ EndClosing

Next ==
  \/ \E h \in Hub : HubConnects(h)
  \/ \E d \in Rru : RruConnects(d) \/ Start(d) \/ RetriesEnd(d)
  \/ \E c \in Name : Handle(c) \/ Answer(c) \/ Exit(c) \/ PowerLoss(c)
  \/ Callbacks

Spec == Init /\ [][Next]_vars

(* Every socket is polled again and again, and an RRU that retries is      *)
(* accepted: its attempts wait in the listener's backlog for the loop to   *)
(* poll.  Nothing makes a hub connect or a device start, stay or fail.     *)
FairSpec ==
  /\ Spec
  /\ WF_vars(Callbacks)
  /\ \A c \in Name : SF_vars(Handle(c)) /\ WF_vars(Answer(c))
  /\ \A d \in Rru : SF_vars(RruConnects(d))

(***************************************************************************)
(* Properties.                                                             *)
(***************************************************************************)
DeviceInfo ==
  [dev : Device \cup {"free", "unannounced"}, route : Seq(0 .. m_base - 1),
   offset : Nat \cup {Unmeasured}]

TypeOK ==
  /\ phase \in {"poll", "closing", "terminated"}
  /\ connectionInfo_ \in [Name -> DeviceInfo]
  /\ closing_handles \in Seq(Name)
  /\ CloseDeviceConnectFlag \in BOOLEAN
  /\ delay_map \subseteq (Nat \ {0}) \X (0 .. m_base - 1)
  /\ tVectorDL \subseteq Seq(0 .. m_base - 1) \X Nat
  /\ peer \in [Name -> Device \cup {Nobody}]
  /\ asked \in [Name -> SUBSET {"MSG_DELAY_MEASUREMENT", "MSG_UPDATE_DELAY"}]
  /\ retrying \subseteq Rru
  /\ faults \in 0 .. MaxFaults

(* CloseDeviceConnectFlag is set before an asynchronous close and tested   *)
(* in the callback of any: it still never survives the iteration it was    *)
(* set in, and while it is set a refused device is about to be closed.     *)
FlagMarksRefused ==
  CloseDeviceConnectFlag =>
    \E c \in Closing : /\ connectionInfo_[c].dev \in Device
                       /\ connectionInfo_[c].route = <<>>

(* A device that was announced and not refused has a route index: every    *)
(* command sent by route can reach it.                                     *)
RoutedOrClosing ==
  \A c \in Name \ Closing :
     connectionInfo_[c].dev \in Device => connectionInfo_[c].route # <<>>

(* SetDeviceRouteIndex copies the hub's route of that moment and nothing   *)
(* renews it: it still is the route of that hub however often the hubs     *)
(* above come and go.                                                      *)
RouteIsHubs ==
  \A b, c \in Name :
     /\ connectionInfo_[b].dev \in Device /\ connectionInfo_[b].route # <<>>
     /\ connectionInfo_[c].dev \in Hub /\ connectionInfo_[c].route # <<>>
     /\ hop[connectionInfo_[b].dev] = hop[connectionInfo_[c].dev] + 1
     => connectionInfo_[b].route =
          connectionInfo_[c].route \o <<uport[connectionInfo_[b].dev]>>

(* Task.md:41, "a hub that goes offline has its measurement deleted": so   *)
(* it is, but for port 0.                                                  *)
StaleOnlyAtPortZero ==
  \A key \in delay_map : key[2] = 0 \/ HubsAt(connectionInfo_, key[1]) # {}

(* The maximum is taken over RRUs that are registered: no total outlives   *)
(* the connections of the RRU it was calculated for.                       *)
TotalsHaveRru ==
  \A t \in tVectorDL :
     \E c \in Name : /\ connectionInfo_[c].dev \in Rru
                     /\ connectionInfo_[c].route = t[1]

(* Task.md:158 and 168: an RRU that is there before its hub is refused and *)
(* tries again until the BBU has a route index for it.  The excuse: its    *)
(* program does not retry, or the hubs above it do not stay.               *)
HubsStay(d) ==
  \A level \in 1 .. hop[d] - 1 :
     \E c \in HubsAt(connectionInfo_, level) : connectionInfo_[c].route # <<>>

HasRoute(d) == \E c \in Name : peer[c] = d /\ connectionInfo_[c].route # <<>>

RefusedRrusReturn ==
  \A d \in Rru :
     <>[](d \in retrying /\ HubsStay(d)) => []<>(HasRoute(d) \/ phase = "terminated")

(* Task.md:65, RRUs go on- and offline and the compensations are updated   *)
(* dynamically: measuring an RRU never ends the BBU.                       *)
CompensationUpdated == phase # "terminated"

=============================================================================
