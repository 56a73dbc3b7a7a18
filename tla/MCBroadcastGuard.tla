-------------------------- MODULE MCBroadcastGuard --------------------------
(* Instances of BroadcastGuard for TLC. *)
EXTENDS BroadcastGuard, TLC

CONSTANTS send, approval

Command(p, a, c, b) == [primary |-> p, approve |-> a, cosmos |-> c, force |-> b]

(* A guarded send on a Cosmos chain. *)
SingleLeg == {Command(send, None, TRUE, FALSE)}
(* ... and a forced one. *)
WithForce == SingleLeg \cup {Command(send, None, TRUE, TRUE)}
(* The agent's sign_tx of a transaction that needs an approval first. *)
TwoLegs == {Command(send, approval, FALSE, FALSE)}

Bounds(n, t, r, c) == [running |-> n, landing |-> t, records |-> r, time |-> c]
Run(j, f, b) == [jobs |-> j, faults |-> f] @@ b

(* Two processes send the same intent, and nothing fails. *)
Racing == Run(SingleLeg, {}, Bounds(2, 2, 3, 3))
(* ... some of them with --force, on a disk that may refuse records and a  *)
(* network that may lose the answer to a broadcast.                        *)
Forcing == Run(WithForce, {"disk", "throw"}, Bounds(2, 1, 3, 3))
(* One command after the other, with an approval each: the process may die *)
(* and the answer to a broadcast be lost.                                  *)
Approving == Run(TwoLegs, {"crash", "throw"}, Bounds(1, 2, 2, 2))
(* One send after the other: the process may die, and the file system may  *)
(* not be able to hold a reservation.                                      *)
Barred == Run(SingleLeg, {"crash", "fs"}, Bounds(1, 2, 2, 2))
(* Two processes send the same intent and may die; no reservation gets old *)
(* enough to be stolen.                                                    *)
Dying == Run(SingleLeg, {"crash"}, Bounds(2, 2, 3, 1))

AllSettings == {Racing, Forcing, Approving, Barred, Dying}
RacingOnly == {Racing}

Symmetry == Permutations(Proc) \cup Permutations(Hash)
=============================================================================
