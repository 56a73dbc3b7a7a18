--------------------------- MODULE MCRelayCeremony ---------------------------
(* Instances of RelayCeremony for TLC. *)
EXTENDS RelayCeremony

CONSTANTS initiator, p2, p3

Setting(what, guests, required, items, rounds, n) ==
    [kind |-> what, guests |-> guests, required |-> required,
     items |-> items, rounds |-> rounds, faults |-> n]

(* Two devices and two messages, with two failures. *)
Pair == Setting("sign", {initiator, p2}, 2, 2, 2, 2)
(* ... in three rounds, with one failure. *)
LongPair == Setting("sign", {initiator, p2}, 2, 2, 3, 1)
(* Three devices, of which two would do, with a failure. *)
Trio == Setting("sign", Party, 2, 1, 1, 1)
(* ... and with two messages of two rounds. *)
LongTrio == Setting("sign", Party, 2, 2, 2, 0)
(* A vault of two devices, and a third that comes in between, with two failures. *)
NewPair == Setting("create", Party, 2, 1, 1, 2)
(* A vault of three devices, with two failures. *)
NewTrio == Setting("create", Party, 3, 1, 1, 2)

(* Two devices that import a seedphrase with one chain. *)
Import == Setting("import", {initiator, p2}, 2, 1, 1, 2)

AllSettings == {Pair, LongPair, Trio, LongTrio, NewPair, NewTrio, Import}
PairOnly == {Pair}
=============================================================================
