-------------------------- MODULE MCSimController --------------------------
(***************************************************************************)
(* Small instances of SimController.  Links of a topology are given as a   *)
(* function from unordered or ordered pairs; the other constants are in    *)
(* the .cfg files.                                                         *)
(***************************************************************************)
EXTENDS SimController

Unlinked == -999
MinusOne == -1
Marginal == -15

(* 1 and 3 cannot hear each other; both reach 2, 3 more strongly. *)
HiddenLinks ==
  [s \in 1 .. 3 |-> [r \in 1 .. 3 |->
     CASE {s, r} = {1, 2} -> 4
       [] {s, r} = {2, 3} -> 6
       [] OTHER -> NoLink]]

(* 1 hears 2 but is never heard: two one-way entries of a link matrix. *)
OneWayLinks ==
  [s \in 1 .. 2 |-> [r \in 1 .. 2 |-> IF s = 2 /\ r = 1 THEN -5 ELSE NoLink]]

(* Everyone in reach of everyone; node 3 is strong. *)
MeshLinks ==
  [s \in 1 .. 3 |-> [r \in 1 .. 3 |->
     IF s = r THEN NoLink ELSE IF s = 3 THEN 9 ELSE 4]]

SameTune(n) == [i \in 1 .. n |-> [freq |-> 868, sfs |-> {7}, bw |-> 125]]
Boot2 == SameTune(2)
Boot3 == SameTune(3)

(* Node 3 boots on the other carrier and listens to two SFs. *)
BootSplit == [SameTune(3) EXCEPT ![3] = [freq |-> 869, sfs |-> {7, 8}, bw |-> 125]]

(* A gateway's retune to the other layer. *)
OtherCarrier == { [freq |-> 869, sfs |-> {8}, bw |-> 125] }

AllZero2 == [i \in 1 .. 2 |-> 0]
AllZero3 == [i \in 1 .. 3 |-> 0]

(* Node 2 joins at 3, node 3 leaves at 5, while it may be transmitting. *)
LateStart  == <<0, 3, 0>>
EarlyDeath == <<0, 0, 5>>

PacketOf(len, sf, label) ==
  [len |-> len, sf |-> sf, bw |-> -1, label |-> label, pdelta |-> 0]
ShortLong     == { PacketOf(2, -1, "D"), PacketOf(3, -1, "D") }
WithOversized == { PacketOf(3, -1, "D"), PacketOf(4, -1, "D") }
TwoSfs        == { PacketOf(3, -1, "D"), PacketOf(3, 8, "D") }

(* Airtime of len bytes: len ms at SF 7, twice that at SF 8. *)
AirtimeTable ==
  [x \in Sfs \X Bws \X Lens |-> IF x[1] = 7 THEN x[3] ELSE 2 * x[3]]
Floors == [sf \in Sfs |-> IF sf = 7 THEN -7 ELSE -10]
Fading == {0, -12}

NoDrops    == <<>>
DropSecond == << [from |-> 0, to |-> 0, label |-> "", nth |-> 2, count |-> 1] >>

NoCommands   == <<>>
SomeCommands == << [at |-> 1, node |-> 2], [at |-> 5, node |-> 3], [at |-> 2, node |-> 1] >>
NoTunings    == {}
=============================================================================
