------------------------------ MODULE Topology ------------------------------
(***************************************************************************)
(* The devices of a B4860 site as the BBU sees them: hubs (HUB), remote    *)
(* radio units (RRU) and the operator's command line (OAM), each with the  *)
(* place it reports in every packet head, and what it measures.            *)
(*                                                                         *)
(* A device's head fields (source, mac, hop, port, uport) never change, so *)
(* a packet names its device and the fields are functions of the device.   *)
(***************************************************************************)
EXTENDS Integers, Sequences, FiniteSets, TLC

CONSTANTS
  Hub, Rru, Oam,      \* the devices, by head.s_source
  Hop,                \* head.s_hop: distance from the BBU, 0 for OAM
  Port, UPort,        \* head.s_port, head.s_uport
  Measurement,        \* the delays a hub can measure: [kind, port -> ns]
  RruDelay,           \* an RRU's own delays: [T2a, Ta3]
  MaxConn             \* how many ip:port names exist at once (a bound)

Device == Hub \cup Rru \cup Oam

(* The keys of connnections_ and connectionInfo_.  The code's keys are     *)
(* "ip:port" strings and std::map walks them in order: the numbers stand   *)
(* for their rank, which has nothing to do with the devices.               *)
Conn == 1 .. MaxConn

None == 0     \* no connection

Source(d) == CASE d \in Hub -> "HUB" [] d \in Rru -> "RRU" [] d \in Oam -> "OAM"

(* Third part of a delay_map key: rhub_delay_up, rhub_delay_down, t14.     *)
Up == 1
Down == 2
T14 == 3
Kind == {Up, Down, T14}

(* How many ports a measurement covers (ret_size / 3).                     *)
Ports(m) == Cardinality(DOMAIN m) \div 3

TopologyAssumption ==
  /\ Hub \cap Rru = {} /\ Hub \cap Oam = {} /\ Rru \cap Oam = {}
  /\ MaxConn \in Nat
  /\ Hop \in [Device -> Nat]
  /\ Port \in [Device -> Nat]
  /\ UPort \in [Device -> Nat]
  /\ \A d \in Hub \cup Rru : Hop[d] >= 1
  /\ \A d \in Oam : Hop[d] = 0
  /\ \A m \in Measurement : /\ Ports(m) \in Nat \ {0}
                             /\ m \in [Kind \X (1 .. Ports(m)) -> Nat]
  /\ RruDelay \in [Rru -> [T2a : Nat, Ta3 : Nat]]

ASSUME TopologyAssumption

=============================================================================
