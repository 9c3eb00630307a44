------------------------------- MODULE MCB4860 ------------------------------
(***************************************************************************)
(* Small sites for TLC.  Every hub has two ports, as many as the shortest  *)
(* link of each kind needs: 1, the cascade port, and 2.                    *)
(***************************************************************************)
EXTENDS B4860

CONSTANTS h1, h2, r1, r2, o1

(* The delays of the two ports, up, down and T14.                          *)
Delays(up1, up2, down1, down2, t1, t2) ==
  [x \in Kind \X (1 .. 2) |->
     CASE x = <<Up, 1>> -> up1     [] x = <<Up, 2>> -> up2
       [] x = <<Down, 1>> -> down1 [] x = <<Down, 2>> -> down2
       [] x = <<T14, 1>> -> t1     [] x = <<T14, 2>> -> t2]

OneMeasurement == {Delays(1, 2, 2, 1, 8, 10)}
TwoMeasurements == OneMeasurement \cup {Delays(3, 2, 1, 3, 7, 9)}

(* r1's own delays are the shorter ones.                                   *)
OwnDelay == [r \in Rru |-> IF r = r1 THEN [T2a |-> 1, Ta3 |-> 2]
                           ELSE [T2a |-> 3, Ta3 |-> 5]]

(* A star: h1 at the BBU's port 2, both RRUs below it.                     *)
StarHop == [d \in Device |-> IF d \in Oam THEN 0 ELSE IF d \in Hub THEN 1 ELSE 2]
StarUPort == [d \in Device |-> IF d = r1 THEN 1 ELSE 2]

(* A chain: h1, h2 on h1's cascade port 1, r2 on h2's port 2.              *)
ChainHop == [d \in Device |-> CASE d \in Oam -> 0 [] d = h1 -> 1
                                [] d = h2 -> 2 [] d \in Rru -> 3]
ChainUPort == [d \in Device |-> IF d = h2 THEN 1 ELSE 2]

AllPort == [d \in Device |-> 0]

=============================================================================
