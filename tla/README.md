# A verification of the B4860 site software

TLA+ models of `src/B4860-V8` and of the server of its successor `src/BHRO`:
the BBU that registers hubs and RRUs, collects their delays and computes the
RRUs' delay compensation; the hubs, RRUs and operator's command line that talk
to it; the client and server connections, the packet framing and its two
buffers, and the idle timeout under them. TLC checks small sites; TLAPS proves
the main results for sites, rings, wheels and clients of any size.

`PROJECT.json` lists the runs, the mutants that show each property can fail,
the lines every definition models, the hazards, the findings and the theorems.

## 1. The system

A site is a tree. The BBU (base band unit) is a TCP server on port 30000; below
it are hubs, which can be cascaded, and RRUs (radio units) on the hubs' ports;
an operator's OAM adapter connects too. Every radio signal must take equally
long to each RRU, so the BBU adds up the delay of each RRU's link from what
hubs and RRUs measure and tells each RRU how much to add to reach the longest
link. All programs are built on `uvcpp` (`B4860-V8/src`, `BHRO/src`), a C++
layer over libuv 1.9.1. The repository's Python is vendored build tooling
(SCons, gyp) and no part of the system.

| part | code | state | operations |
|---|---|---|---|
| BBU message centre | `bbu/bbu.cpp` | none of its own | one handler per message id and destination |
| registry | `src/TcpServer.cpp` | `connnections_`, `connectionInfo_` (name -> DeviceInfo), `delay_map`, `m_base`, `tVectorDL`, `tVectorUL` | accept, set and find device info, create route index, insert and delete delays and totals, close |
| hub | `hub/hub.cpp` | its place (hop, port, uport), whether its board is about to reboot | connect, measure, measure again, upgrade and reboot |
| RRU | `rru/rru.cpp` | its place, its own delays | connect, sleep 500 ms, report |
| OAM | `oam/oam_adapter.cpp`, `oam/main.cpp` | none | upgrade, RF switch, topology, from a thread of its own |
| server connection | `src/TcpConnection.cpp` | `connected_`, `buffer_`, the handle | read, end of file, shutdown, close, write |
| client | `src/TcpClient.cpp` | `socket_`, `connection_`, `connect_`, a timer | connect, fail, lose the connection, reconnect |
| framing | `src/Packet.cpp` | the buffered bytes | pack, find the next packet |
| buffers | `src/ListBuffer.cpp`, `src/CycleBuffer.cpp` | a list; an array and two indexes | append, read, clear |
| timer wheel | `src/TimerWheel.cpp` | `index_`, `wheel` | insertNew, insert, tick |
| BHRO's BBU | `BHRO/bbuapp/bbu.cpp`, `BHRO/src/TcpServer.cpp` | the registry with stored route indexes and offsets, `CloseDeviceConnectFlag` | the same, and refusing a device without a route |
| event loop | `src/EventLoop.cpp`, `src/Async.cpp` | queue of callbacks, `isRun_` | run the loop, run in this loop |

How they interact: a device connects and sends CONNECT. The BBU registers it;
when it is an RRU it asks a hub one level up to measure again (UPDATE_DELAY),
and then answers. A hub answers the answer with its measurement; an RRU sleeps
half a second and sends its own two delays. For a hub the BBU stores the delays
under `hop + kind + port`; for an RRU it looks its whole link up, adds the
total to both tables, sorts them, and answers with the difference to the first
entry. When a connection ends, what its device contributed is deleted. An
operator's requests mark devices as upgrading (state 3), are forwarded, and
come back as results. In BHRO a device also gets the route index of the hub
above it when it connects, is disconnected when that hub is not there, and
or told nothing more when it is; an RRU then tries again on a timer, while the hub
reboots its board and its program starts anew. All RRUs are told when the longest
link changes.

What makes it hard: every device has its own life, so old and new connections
of one device overlap and close in any order; a registration exists before its
CONNECT is handled; tables are keyed by level or by route, not by connection,
and (in V8) routes are computed anew from whoever is registered at the moment;
data loss, restarts and silent losses make every table possibly stale; a
connection can be ended by four callbacks, and libuv completes a close later
than it is asked for; a client uses one connect request, one close callback
and one timer again and again; TCP cuts the byte stream anywhere.

What makes each part correct:

* registry: its names are the accepted connections; delays have a hub, one
  measurement per level; totals sorted, one a route, for registered RRUs;
* message centre: no handler meets an unknown device; answers align the RRU;
  route indexes describe the link; an upgrade state of 3 comes to an end;
* connection: closed once, gone from the registry with its handle; what has
  gone is noticed; who connects and stays is served;
* client: one attempt at a time, no handle freed that libuv knows, and the
  connection comes back when the network does;
* framing: packets come out whole, once, in order, without delay, and with
  the ring exactly what comes out with the list;
* timer wheel: closed after a full timeout of silence, never before or later;
* BHRO: who stays has a route, the route of the hub above; an RRU that is refused
  and goes on trying gets in when its hubs stay; no data outlives its device.

`src/B4860-V7` is the previous version; `src/am3352_src_code/hub_client` an
earlier copy of BHRO's hub program; `src/am3352_src_code/am335x_hub` is code
for the hub's board; the rest is tests, examples and vendored code.

## 2. The modules

```
Topology          the devices and their places; constants only
   Network        TCP connections as packet sequences, faults
      BBU         the server: registry and handlers
      Devices     hubs, RRUs, operators
         B4860    the whole site, its properties       MCB4860 (instances)
            B4860Proofs   with the lemmas on sequences, tables, packets
               RegistryProofs
TimerWheel        the idle timeout
   TimerWheelProofs
   Connection     the server's connections, libuv's loop   MCConnection
      ConnectionProofs (also extends TimerWheelProofs)
TcpClient         the devices' side, reconnection      MCTcpClient
   TcpClientProofs
PacketStream      what a connection promises (abstract)
ReadFromBuffer    the reader, for any buffer (parameters)
CycleBuffer       ArrayBuffer, the ring                (operators)
   CycleBufferProofs
PacketFraming     pack, ListBuffer, the reader over it MCPacketFraming
   PacketRing     the same reads into a ring, too      MCPacketRing
      FramingProofs (also instances CycleBufferProofs)
BHRO              the successor's BBU and devices      MCBHRO
   BHROProofs
```

**Topology.** A packet's head repeats its device's fixed fields, so a packet
names its device (`dev`) and `Hop`, `Port`, `UPort` are functions of it. The
names of connections are `1..MaxConn`; their order is the order of `std::map`
on `ip:port` strings, which has nothing to do with the devices: every device
may connect with every free name.

**Network.** `link[c]` is the server's view of a name: `backlog` (the kernel has
accepted), `open` (`onAccept` has run, `connected_`), `closing` (`connected_` is
false, the shutdown and close callbacks are pending), `lost` (the server
restarted), `free`. `peer[d]` is the device's socket. A device leaves with an
end of file (`Exit`, also a reboot) or without (`PowerLoss`), when the server
learns of it only from a failing write. Bytes are packets here; that this is
right is what `PacketFraming` shows, under the condition of section 5.

**BBU.** The variables are the members of `TcpServer`. A handler runs to its end
on the server's only loop, so it is one action, with every call it makes:
`SetConnectionClient` replaces the DeviceInfo, sends UPDATE_DELAY and the
result, `RruDelayProcess` sets the route index, saves the delays, deletes, adds
and sorts totals and answers. `compensation[c]` is a history variable: the
numbers of the last answer. Details kept on purpose: `map.insert` does not
overwrite (`Inserted`); `m_base` is shared by all hubs; both deletions of
`Calculate` name `tVectorDL`; searches return the first match by name;
`Indeterminate` (-1) stands for whatever an uninitialised `s_upgradeState` holds.

`std::sort` leaves the order of equal totals open; the model puts the new one
behind its equals, as the library's insertion sort does for up to 16 elements,
and no property depends on it. `delay_map`'s keys are the tuples, not the
concatenated digits, which is the same for up to nine ports and nine hops.
`T12` is the constant of bbu.cpp:836, `RRUToffset` that of bbu.h; T14 is
assumed to be at least `RRUToffset`, so C++ and TLA+ division agree. A hub's
measurement has at least one port (an empty one divides by `m_base` = 0).

**Devices.** A client answers the packets it reads, one by one; sleeping and
downloading block its loop, so a handler is a step. The hub's upgrade has every
outcome of the code: 4, 5, a reboot, or nothing when the reboot command fails.
`/sbin/reboot` returns at once: a hub in `rebooting` goes on answering packets
until `GoesDown`, which may come at any time and which no fairness promises.
What the adapter prints is left out, with its undefined reading of the second
part of a field that may have one (oam_adapter.cpp:193-201).

**B4860** composes them. `BBUStep`, `DeviceStep` and `Environment` separate what
the programs do from what nobody promises (operators, faults, new
connections).

**TimerWheel** models the ring of sets; `~ConnectionElement` runs when the last
set lets go of an element, which is `Held \ Held'`. `silent` counts ticks since
a connection's last message.

**Connection** composes the wheel with what V8's Network lumps into one state:
every callback that can end a connection (`onReadError`, `onEof` and the later
`onShutdown`, a handler's close, the wheel's expiry), libuv's list of closing
handles, which is a stack (`uv_close` puts a handle in front), and the phases
of `uv_run`: timers, polling, closing. The registry owns the connection, so
`CloseComplete` frees it with its handle. The outcome `crashed` is undefined
behaviour the code can reach: when a handle with a pending `uv_shutdown` is
closed, libuv first calls the shutdown callback, which finds the handle closing
and completes the close at once; libuv then goes on with freed memory.

**TcpClient** models the device's side by its handles: what libuv knows of each
`uv_tcp_t` (`handle`), which one `TcpClient` (`socket_`) and the last
`TcpConnection` (`connection_`) have, and the timers of the programs'
`reConnect`. `uv_tcp_connect` can fail in its return value (`failed`, nothing
is called back) or in its callback (`refused`). Memory that nobody has any
more becomes `free` and may be allocated again.

**ReadFromBuffer** is `Packet::readFromBuffer` and the loop around it, round by
round, with the buffer's operations as parameters, as they are virtual in the
code. The rounds are a recursive function bounded by the buffer's length (each
round but the last takes a byte, `LoopEnds`). **PacketFraming** gives it the list
and any cut of the bytes into reads; `PacketStream` is the abstract promise.
**CycleBuffer** has the ring's operations as operators on its fields and
`Content`, what it stands for. **PacketRing** is `PacketFraming` with a second
reader whose buffer is a ring; `RingImplementsList` says that this reader is
`PacketFraming` under the mapping `buffer_ <- Content(ring_)`.

**BHRO** models its BBU where it differs from V8: the route index is stored at
CONNECT (`CreateRouteIndex`), `Refuse` sets `CloseDeviceConnectFlag` and starts
a close, and the close's callback (`FinishClose`) runs when the loop has polled
all sockets, so that other handlers run in between. `tVectorDL` is a set of
pairs, since only its maximum is read. `stoi` of an empty offset ends the
program (`terminated`). The wheel's expiry is an action of its own, on
connections whose device is gone: a living device sends heartbeats, or answers.
The devices come back in two ways. An RRU that has lost or not got its connection
is `retrying`: `RruConnects` is its timer, until `RetriesEnd` (the unchecked
`uv_tcp_connect` of section 5) or its program's end. A hub's timer runs
`/sbin/reboot` (BHRO/hubapp/hub/hub.cpp:43-59; the connect below it is under
`#if 0`), so it comes back by `HubConnects`, when its board is up, which nothing
promises. A device that exits or loses power has no timer; `Start` is the operator.

Definitions called *slips* are variants of the definition below them with a
plausible mistake (a table not sorted again, a key left out, an event
ignored). Nothing uses them: they are what the mutants put in place.

## 3. The runs

| run | instance | properties |
|---|---|---|
| `star` | 1 hub, 2 RRUs, 3 names, exits, power loss | `LongestFirst`, `DelaysHaveHub`, `OneDownlinkTotal`, `UplinkCoversDownlink`, `AnswersAlign` |
| `site` | chain of 2 hubs, 1 RRU at hop 3, operator, 3 names, exits | `RouteIndexShape`, `KnownBeforeUse`, `UpgradingIsPending` |
| `live` | 1 hub with two measurements, 1 RRU, operator, 2 names, exits, restarts, failing reboots, fairness | `TypeOK`, `OneMeasurementPerLevel`, `HubsMeasured`, `RrusAnswered`, `DeparturesNoticed` |
| `framing` | 5 packets out of 3, bytes below 8, reads of 3 to 16 bytes, a ring of 26 | `TypeOK`, `BytesAccounted`, `NothingWithheld`, `ImplementsStream`, `RingImplementsList` |
| `conn` | 3 connections, 3 seconds, fairness | `ConnTypeOK`, `HeldAtLastMessage`, `NeverLate`, `ClosedOnce`, `RegistryTimely`, `OnlyExpiryOverlaps`, `NeverEarly`, `EndedConnectionsGo` |
| `client` | 3 handles, 6 faults, fairness | `TypeOK`, `OneAttempt`, `HandlesOwned`, `WritesOnOpen`, `ReconnectsUnlessFailed` |
| `bhro` | chain of 2 hubs and an RRU, 2 ports, 3 names, 2 faults, fairness of the RRU's timer | `TypeOK`, `FlagMarksRefused`, `RoutedOrClosing`, `RouteIsHubs`, `StaleOnlyAtPortZero`, `TotalsHaveRru`, `RefusedRrusReturn` |

The other five, `remeasured`, `hubdelays`, `chunks`, `reconnect` and
`offsets`, end in a counterexample: section 5.

Bounds, and why they are enough:

* `MaxConn` = 3 names (2 in `live`, 3 in `bhro`): a device can have two
  registrations while another has one (a dead connection, a closing one and a
  live one). `site` uses three names for four devices in turn.
* `MaxQueue`: a device connects or asks only while fewer packets are under way.
  A step in flight can still produce more.
* `MaxTotals` bounds `tVectorUL`, which the code lets grow for ever: no device
  connects while it is longer. 1 lets a route be measured again while its first
  total is still there, which is the case all table properties are about.
* `Faults` picks the losses of a run; every fault is in some run.
* `framing`: one packet has as many bytes as the head byte's value and one
  contains head and end bytes, so every wrong start of a scan looks right at
  first. Five packets let a packet be cut, stuck to its successor and cut
  again, and let the ring wrap at every place. `CycleBufferSize` = 26 is the
  least that `RingAssumption` allows: the longest read and the longest
  incomplete packet. `MinRead` = `HEADLENGTH`, see 5.
* `conn`: three slots give every position of a message before, at and after
  the wrap; two connections can be in the closing list while a third is
  accepted, shut down or expires.
* `client`: three handles are all there ever is (the connection's, `socket_`
  and the one `update` allocates); six faults let the BBU and the network fail
  during an attempt, a connection, a close and again after the recovery.
* `bhro`: a chain of three levels is the shortest in which a hub's own route
  comes from another hub; two faults let both hubs, or one hub twice, go while
  their devices stay.

`CHECK_DEADLOCK FALSE` is in every run: the sites rest when `MaxTotals` is
reached or nobody connects, the framing when all packets have been read, a
`failed` client, a `terminated` BBU and a `crashed` loop for ever.

Fairness, and why the code justifies it:

* `live`: weak fairness of each server connection's and each device's handlers.
  libuv polls all ready descriptors and runs their callbacks in turn, and no
  handler waits for another. `RrusAnswered` excuses the moment at which a level
  above the RRU is empty: the code then drops the measurement for good
  (bbu.cpp:473-477).
* `conn`: weak fairness of the loop's phases, strong fairness of the tick (the
  wheel's timer is due again and again, and the loop passes the timer phase
  again and again). None of any peer.
* `client`: weak fairness of each callback and of the timer. Nothing makes the
  network come back: `ReconnectsUnlessFailed` is about runs in which it does.
* `bhro`: weak fairness of libuv's phases and of devices' answers; strong
  fairness of each connection's handlers, which are disabled while the loop is
  closing handles, and of `RruConnects`, an RRU's timer, which fires again and
  again while the RRU is `retrying`. A hub's reboot, a program's start and the end
  of an RRU's tries have no fairness: `RefusedRrusReturn` is about runs in which
  from some time on the RRU goes on trying and the hubs above it stay registered
  with a route of their own (`HubsStay`).

Nothing is assumed of operators, faults, reboots or restarts.

`UpgradingIsPending` leaves out failing reboots: hub.cpp:347-351 then sends
nothing and the hub is shown as upgrading until it connects again. It is about
hubs: RRUs ignore UPGRADE in this version and stay at 3. A hub whose reboot was
accepted is pending too, until its board goes down.

## 4. What is proved

For every value of the constants that satisfies the named assumptions
(`TopologyAssumption`, `NetworkAssumption`, `BBUAssumption`, `TotalsAssumption`,
`TimeoutAssumption`, `ClientAssumption`, `SiteAssumption`, `SizeAssumption`,
`FramingAssumption`, `RingAssumption`); those of `FramingProofs` about `Spec` and
`RingSpec` also assume `HEADLENGTH <= MinRead`:

| module | theorem | says |
|---|---|---|
| `B4860Proofs` | `TypeCorrect` | `Spec => []TypeOK` |
| | `SortedTables` | `Spec => []LongestFirst` |
| | `DownlinkOnce` | `Spec => []OneDownlinkTotal` |
| | `UplinkFollows` | `Spec => []UplinkCoversDownlink` |
| | `Announced` | `Spec => []KnownBeforeUse` |
| | `Alignment` | `Spec => AnswersAlign`, an action property |
| `RegistryProofs` | `OwnersKept` | `Spec => []StreamsOwned` |
| | `RoutesShaped` | `Spec => []RouteIndexShape` |
| | `WholeMeasurements`, `DelaysOfHubs` | `OneMeasurementPerLevel`, `DelaysHaveHub`, when all hubs have as many ports |
| | `UpgradesEnd` | `UpgradingIsPending`, when no reboot command fails |
| `TimerWheelProofs` | `ClosedInTime` | `Spec => []NeverLate` |
| | `HeldWhereLastHeard` | `Spec => []HeldAtLastMessage` |
| | `KeptWhileHeard` | `Spec => NeverEarly`, an action property |
| `ConnectionProofs` | `ImplementsWheel` | `ConnSpec => Spec` of the wheel |
| | `SilentAreClosed`, `HeldUnderLoop`, `KeptUnderLoop` | the wheel's three properties of `ConnSpec` |
| | `ConnTypes`, `NoSecondClose` | `ConnTypeOK`, `ClosedOnce` |
| | `RegistryIsTimely` | `RegistryTimely` |
| | `OnlyExpiryMeetsShutdown` | `OnlyExpiryOverlaps` |
| `TcpClientProofs` | `ClientTypes`, `OnlyOneAttempt` | `TypeOK`, `OneAttempt` |
| | `NoHandleLost`, `WritesReachOpen` | `HandlesOwned`, `WritesOnOpen` |
| `BHROProofs` | `BHROTypes`, `FlagIsRefusal` | `TypeOK`, `FlagMarksRefused` |
| | `AnnouncedAreRouted` | `RoutedOrClosing` |
| | `DelaysGoWithHub`, `TotalsGoWithRru` | `StaleOnlyAtPortZero`, `TotalsHaveRru` |
| | `RoutesAgree` | `RouteIsHubs`, when no two hubs have one hop count |
| `CycleBufferProofs` | `SizesAddUp`, `NewContent` | the sizes; a new ring is empty |
| | `AppendContent`, `AppendRefuses` | `append` adds to the content, or changes nothing |
| | `ReadContent`, `ClearContent` | what is read and what is left |
| `FramingProofs` | `FramingTypeCorrect` | `Spec => []TypeOK` |
| | `FramingLosesNoByte`, `FramingWithholdsNothing` | `BytesAccounted`, `NothingWithheld` |
| | `FramingImplementsStream` | `Spec => ImplementsStream` |
| | `StickingSolvedForLongReads` | `StickingSolved`, which `chunks` refutes for short reads |
| | `ReadPackets` | the loop takes every whole packet, and stops |
| | `LoopEnds` | it stops over any bytes |
| | `ReadAlike`, `RingKeepsStep` | over a ring it does what it does over a list |
| | `RingIsList` | `RingSpec => RingImplementsList` |

**The site.** `IInv == StateOK /\ WireOK /\ TotalsOK` is inductive (`Inductive`);
`TypeOK` adds to `StateOK` that only hubs' boards reboot.
`TotalsOK` is the three table properties, each of which needs the others: a
deletion in both tables keeps the uplink's cover of the downlink only because
the downlink has a route at most once. `WireOK` is what `KnownBeforeUse` needs
and does not say: a connection has one holder at most (`OneHolder`), a held
connection is accepted or lost, never closing (`HeldStaysUp`), nothing follows
an end of file (`EofIsLast`), and whatever a device has sent, its CONNECT is in
front of it while the registry does not know the device (`AnnouncedFirst`).
The lemmas in front of these proofs are the facts about inserting into a sorted
sequence, deleting an entry, appending packets and the types they keep; induction
over the hops (a recursive function's type) goes through the least element of a
set of naturals, since the induction theorems themselves cannot be instantiated.

**The registry.** `StreamsOwned`: everything on a connection, and its record, are
of the one device that made it. So `p.dev` of a handled packet is the record's
device, a CONNECT never turns a hub's record into another's, and the result of
an upgrade comes from the hub that was asked. On it rest three more invariants.
`RouteIndexShape` is inductive by itself. `DelaysOK` says that a level's delays are
those of one measurement with `m_base` ports, and that the level has a hub; it
holds where all hubs have the same number of ports (`OnePortCount`, a hypothesis
of `WholeMeasurements` and `DelaysOfHubs`; Task.md:33 gives every hub nine):
`DeleteHubDelay` deletes as many ports as the last report had, whoever sent it.
`UpgradesOK` is `UpgradingIsPending` with the types of what the server writes;
its theorem `UpgradesEnd` assumes that no hub's reboot command fails.

**The wheel.** `IInv == TypeOK /\ HeldAtLastMessage /\ NeverLate`. That the slot of
an open connection's last message has not been cleared needs that the message
is less than a turn old. `SlotOf(k)`, the slot that was current `k` seconds ago,
enumerates the ring once (`SlotOfOnce`, `SlotOfAll`), and a tick makes each slot
a second older (`TickAges`); the rest is one step per action.

**The connections.** A step of `ConnNext` is a step of the wheel or leaves it
alone (`ImplementsWheel`), so the wheel's theorems carry over. `ConnInv` adds
`ClosedOnce`, `OnlyExpiryOverlaps`, that a pending shutdown belongs to a
registered connection, and that nothing waits to be closed when the timers run:
the last is why `RegistryTimely` holds at that moment and not at others.

**The client.** `OneAttempt` and `HandlesOwned` follow from an invariant about
handles: all but `socket_` are free, or closed and the connection's
(`OthersDone`); `socket_` is idle exactly before the first connect and while a
timer runs (`SocketReady`); the connection is `socket_`'s while it is open
(`ConnectionMade`). Each says what the others need when `update` replaces
`socket_` in one callback and `onConnect` replaces `connection_` in another.

**BHRO.** `BHROInv == TypeOK /\ StreamsMatch /\ TablesMatch`: which packets can be
on a connection, given its device and what it was asked for, and whose entries
the tables hold. `RouteIsHubs` needs more than that: the hub a route was copied
from may have gone and come back. `RoutesArePaths` says what does not change: a
stored route consists of the ports of hubs on each level down to the device,
and with one hub a level (`OneHubPerLevel`, what bbu.cpp assumes too) two such
routes agree. The assumption is necessary: with two hubs on a level the first
match by name is taken.

**The ring.** For every `CycleBufferSize` and all indexes, the operations do to
`Content` what the list's do to a list. `OldPlace` and `NewPlace` are the
counting round the array on which `AppendContent` rests: the places of a new
byte are those behind the content and none of it.

**The framing.** `Framed == TypeOK /\ StickingSolved /\ BytesAccounted /\
NothingWithheld` is inductive: a read begins at the head of the first packet not
yet handed over only because no byte was lost or kept too long before, and what
it takes is the next packet only because the ones before it were taken in order.
A step of the loop is `RoundReads`: over bytes that begin the frames of any
packets (`Reading`) a round either takes the first packet whole or stops with
less than one, so the head and length it looks at are always those of a packet.
The hypothesis `HEADLENGTH <= MinRead` is what `chunks` shows to be necessary. The
`uint16_t` msgsize does not wrap for what `pack` can write (`NoWrap`). The rounds
are a recursive function on `0 .. readSize + 1`; that such a function exists and
what holds for each of its values goes, without an induction theorem, through
the least element of a set of numbers (`CountUp`, `ChainExists`), for the
community modules' `FlattenSeq` too (`FlattenIs`). `LoopEnds` is about bytes that
no `pack` has written as well: a wrong length or last byte takes bytes too, so
`while (0 == readPacket(packet))` ends on a damaged stream. What is handed over
then is nobody's promise and is not stated.

**The reader over a ring.** `RoundAlike`: whatever the buffer holds, valid packets
or not, a round over a ring does what a round over a list with the same bytes
does, also when it asks for more than there is. So the loops agree
(`ReadAlike`), and `InStep` (the ring is well formed, holds `buffer_`, and its
reader has handed over the same packets) is inductive together with `Framed`:
`NothingWithheld` bounds what an incomplete packet leaves, `RingAssumption` gives
a read room behind it (`RoomForRead`), and then `append` refuses nothing.

Only model-checked: the liveness properties (`HubsMeasured`, `RrusAnswered`,
`DeparturesNoticed`, `EndedConnectionsGo`, `ReconnectsUnlessFailed`,
`RefusedRrusReturn`), which need fairness and ENABLED. Every invariant, action
property and refinement of the passing runs has a theorem, some under the
hypotheses named above.

## 5. Where the code and its documents disagree

Each of these has a run that ends in a counterexample.

* `remeasured`: Task.md:56 says a departing RRU's data is cleared. bbu.cpp:842-843
  clears the downlink table twice and the uplink table never before a new total is
  added. The run needs three names: an RRU is measured on a second and a third while
  the hub has the first; closing the RRU's first connection takes one total of each
  table, the hub leaves, and closing its second takes none: the downlink table is
  empty, the uplink table keeps a total. `OfflineUplinkCleared` is about totals
  that only the uplink has: with the second deletion in `tVectorUL` the same run
  passes. What still holds, and is proved, is `OneDownlinkTotal` and
  `UplinkCoversDownlink`. BHRO has the same two lines.
* `hubdelays`: Task.md:35 says a hub that goes takes its own data. Data is
  deleted by level (TcpServer.cpp:550), so closing a hub's dead connection
  deletes what its new one has reported.
* `chunks`: Task.md:55 says incomplete messages are solved. A read of fewer than
  26 bytes is dropped (bbu.cpp:31-35 and the three clients). In the run it has the
  first byte of a packet: the rest is skipped, the packet is lost, and the next
  one is handed over in its place. This is why the
  `framing` run excludes such reads. Without them the framing is right, for all
  packets and all cuts (`StickingSolvedForLongReads`).
* `reconnect`: B4860-V7/Task.md:111 says a disconnected hub reconnects 500 ms later,
  by the timer V8's hub still has (hub.cpp:42-53). What `uv_tcp_connect` returns is
  ignored (TcpClient.cpp:53, BHRO/src/TcpClient.cpp:43). In the run a connected
  device loses the BBU and then its interface; when the timer fires there is no
  route, nothing is called back and no attempt follows. `Reconnects` asks for an
  earlier connection, so a first connect that fails does not violate it.
  `ReconnectsUnlessFailed` is what holds.
* `offsets`: bbu.h:100 and Task.md:65 of BHRO say compensations are updated when
  an RRU comes. With another RRU registered and not measured yet, the update is
  `stoi` of an empty string (BHRO/bbuapp/bbu.cpp:786), which ends the BBU.

Without a run of their own:

* A close computes the RRU's route index anew (TcpServer.cpp:386): when the hub
  above has gone first it is empty, and the RRU's totals stay in both tables,
  against Task.md:56 again. `remeasured` passes through this close, too.
* oam/main.cpp:92-98 documents the upgrade states 0 to 5; a device whose CONNECT
  is not handled yet is shown with an uninitialised one (TcpServer.h:43).
* bbu.h:95 describes the route index as the device's own link;
  TcpServer.cpp:358-369 takes any device of each level, an RRU too.
* BHRO's delays of port 0 outlive their hub: SplitStrings2Map counts ports from
  0, DeleteHubDelay from 1 (BHRO/src/TcpServer.cpp:266). `StaleOnlyAtPortZero`
  says that it is only those.
* `CloseDeviceConnectFlag` (BHRO/bbuapp/bbu.cpp:456) is set for a refused device
  and taken by the first close that completes (bbu.cpp:59-64): two refusals in
  one iteration report one of the two as a departure, and a real departure
  before a refused one is not reported. `FlagMarksRefused` says that it never
  outlives the iteration.
* A wheel expiry while a shutdown is pending uses freed memory
  (TcpConnection.cpp:101-114, `crashed` in `Connection`). V8 sets no timeout and
  is safe (`OnlyExpiryOverlaps`); BHRO sets 40 seconds.
* libuv suggests reads of 64 KB and the ring has 32768 bytes: a longer burst would
  be dropped whole, unnoticed. The shipped programs choose the list.
* BHRO's shipped hub reboots its board when the connection is lost
  (BHRO/hubapp/hub/hub.cpp:43-59) instead of reconnecting as BHRO/Task.md:111
  says; its RRU and test programs reconnect.

Not findings, because the code says so itself: in V8 other RRUs' compensation is
not updated when a longer link appears (bbu.cpp:618-620, Task.md:57), and one hub
per level is assumed by the calculation (Task.md:53).

## 6. What is not modelled

* Threads. The command line (oam/main.cpp) and BHRO's hub heartbeat
  (hub.cpp:563) call `TcpClient::write` from a thread of their own, a data race
  with the loop thread at every member they read. Async's queue, which is made
  for this, is never used: its only way in is `writeInLoop`, which no shipped
  program calls.
* In BHRO: upgrades, data set commands and the messages to adapters, which only
  forward; `tVectorUL`, which V8's model has.
* Hubs with different port counts in one site, and damaged byte streams.
* That a packet's buffer is on the stack when `uv_write` keeps it for later
  (bbu.cpp:1017): writes are whole here.
* FTP, MD5, shell commands, log files, address formatting, the hub's board and
  the big-endian mode of `PackNum`: pure functions, I/O, or never used. Texts
  are abstract: sizes and formatting are not modelled, except where the framing
  depends on them.
* `B4860-V7` and `am3352_src_code`, superseded by the programs that are modelled.

## 7. Plan

Done: the site, the framing over both buffers, the timer wheel, the server's
connections, the client, BHRO's BBU, their runs, and the proofs of section 4.
Next, in this order:

1. BHRO's upgrades and adapters; its wheel from module `Connection` in place of
   `Expire`.
2. The second thread of the command line, with `write`'s reads as steps.
3. A framing run with a damaged stream; a site run with unequal port counts.
