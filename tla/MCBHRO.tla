------------------------------- MODULE MCBHRO -------------------------------
(***************************************************************************)
(* A chain: hub1 at port 1 of the BBU, hub2 on its last port (1 of 2),     *)
(* rru3 on port 0 of hub2.  Or a star: rru2 and rru2b on ports 0 and 1 of  *)
(* hub1, which has three.                                                  *)
(***************************************************************************)
EXTENDS BHRO

Hops == [d \in Device |-> CASE d = "hub1" -> 1 [] d = "rru3" -> 3 [] OTHER -> 2]
UPorts == [d \in Device |-> IF d \in {"rru2", "rru3"} THEN 0 ELSE 1]
Delays == [d \in Rru |-> IF d = "rru2b" THEN 2 ELSE 1]

=============================================================================
