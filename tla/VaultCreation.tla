---------------------------- MODULE VaultCreation ----------------------------
(***************************************************************************)
(* Creating a secure vault, or importing one from a seedphrase, once its   *)
(* devices found each other: createVault of SecureVaultCreationService and *)
(* of SecureVaultFromSeedphraseService (the initiator), joinKeygen and     *)
(* joinFromSeedphrase of JoinSecureVaultService (the others).  A keygen is *)
(* that of Keygen, reduced to what it promises: a party gets its share     *)
(* only if all others take part, and may fail when one does not.           *)
(***************************************************************************)
EXTENDS RelaySession

VARIABLES
    shares,  \* how many keygens a device has finished: ECDSA, EdDSA, one per
             \* chain; each gave it a share, which it holds until its call throws
    complete \* the devices that reported their keygen complete to the relay

createVars == <<shares, complete>>

Keygens == IF kind = "import" THEN 2 + setting.items ELSE 2

(* Who keeps its vault although others did not report. *)
Tolerant(p) == kind = "import" \/ p # Initiator

CreateInit ==
    /\ shares = [p \in Party |-> 0]
    /\ complete = {}

(* q takes part in the keygen after p's last one, with p's committee. *)
TakesPart(q, p) ==
    /\ device[q].ready /\ shares[q] >= shares[p]
    /\ device[q].committee = device[p].committee

(* startKeygenWithRetry or startKeyImportWithRetry of DKLS, then of Schnorr. *)
Share(p) ==
    /\ Is(p, "keygen") /\ shares[p] < Keygens
    /\ \A q \in Peers(p) : TakesPart(q, p)
    /\ shares' = [shares EXCEPT ![p] = @ + 1]
    /\ UNCHANGED <<sessionVars, complete>>

(* Three attempts ended in a timeout: somebody does not take part, or left *)
(* in the middle, or the relay is slow.                                    *)
KeygenFails(p) ==
    /\ Is(p, "keygen") /\ shares[p] < Keygens
    /\ \/ \E q \in Peers(p) : Is(q, "failed") /\ shares[q] <= shares[p]
          /\ UNCHANGED faults
       \/ Fails("slow")
    /\ Throws(p, "keygen")
    /\ UNCHANGED <<setting, joined, started, createVars>>

(* The signal is looked at after each keygen, and once all has been done. *)
CancelLate(p) ==
    /\ \/ Is(p, "keygen") /\ shares[p] > 0
       \/ Is(p, "confirm") /\ Peers(p) \subseteq complete
       \/ Is(p, "confirm") /\ Tolerant(p) /\ \E q \in Peers(p) \ complete : Is(q, "failed")
    /\ Fails("cancel")
    /\ Throws(p, "cancel")
    /\ UNCHANGED <<setting, joined, started, createVars>>

(* setKeygenComplete. *)
SetComplete(p) ==
    /\ Is(p, "keygen") /\ shares[p] = Keygens
    /\ complete' = complete \cup {p}
    /\ Goto(p, "confirm")
    /\ UNCHANGED <<setting, joined, started, faults, shares>>

SetCompleteFails(p) ==
    /\ Is(p, "keygen") /\ shares[p] = Keygens
    /\ Fails("post")
    /\ complete' \in OrApplied(complete, complete \cup {p})
    /\ Throws(p, "complete")
    /\ UNCHANGED <<setting, joined, started, shares>>

(* waitForKeygenComplete: every peer has reported. *)
Confirmed(p) ==
    /\ Is(p, "confirm") /\ Peers(p) \subseteq complete
    /\ Goto(p, "vault")
    /\ UNCHANGED <<setting, joined, started, faults, createVars>>

(* Variant of ConfirmTimesOut: the initiator is as tolerant as the others. *)
ConfirmTimesOutTolerated(p) ==
    /\ Is(p, "confirm") /\ ~ (Peers(p) \subseteq complete)
    /\ \/ \E q \in Peers(p) \ complete : Is(q, "failed") /\ UNCHANGED faults
       \/ Fails("slow")
    /\ Goto(p, "vault")
    /\ UNCHANGED <<setting, joined, started, createVars>>

(* After eleven polls the creator gives up; everybody else keeps its vault. *)
ConfirmTimesOut(p) ==
    /\ Is(p, "confirm") /\ ~ (Peers(p) \subseteq complete)
    /\ \/ \E q \in Peers(p) \ complete : Is(q, "failed") /\ UNCHANGED faults
       \/ Fails("slow")
    /\ IF Tolerant(p) THEN Goto(p, "vault") ELSE Throws(p, "complete")
    /\ UNCHANGED <<setting, joined, started, createVars>>

CreateStep(p) ==
    \/ Share(p) \/ KeygenFails(p) \/ CancelLate(p)
    \/ SetComplete(p) \/ SetCompleteFails(p)
    \/ Confirmed(p) \/ ConfirmTimesOut(p)

-----------------------------------------------------------------------------
(* Properties *)

CreateTypeOK ==
    /\ shares \in [Party -> 0 .. Keygens]
    /\ complete \subseteq Party

(* CommitteesAgree. All devices of a new vault that got past the wait for   *)
(* the others have the same committee, which is the one the relay has,     *)
(* although each polls the list at its own time while devices still join.  *)
CommitteesAgree ==
    kind # "sign" =>
        \A p, q \in Party :
            LET P == device[p].committee
                Q == device[q].committee
            IN  P # {} /\ Q # {} => P = Q /\ started \in {{}, P}

(* The shares are variables of the call: one that throws drops them all. *)
Held(p) == IF Is(p, "failed") THEN 0 ELSE shares[p]

(* The ways a call may still end in an error when its report is on the     *)
(* relay: POST /complete was applied and its answer lost, or the creator   *)
(* missed the others' reports; a cancellation; the death of the device.    *)
LateReasons == {"complete", "cancel", "crash"}

(* It reported its keygen complete, threw after that and has no share left. *)
ReportedInVain(p) == p \in complete /\ Is(p, "failed") /\ device[p].why \in LateReasons

(* VaultIsWhole. When the creator of a vault has it, every signer holds all *)
(* of its key shares, but for one that had reported its keygen complete and *)
(* threw after that: nothing tells the others, who keep the vault with a   *)
(* signer that has no share (setKeygenComplete is not tried again, unlike  *)
(* the start of the session).  When a device has the vault that does not   *)
(* insist on the others' reports, it holds its own shares, and every other *)
(* signer had got to the last keygen, whatever became of it then.          *)
VaultIsWhole ==
    \A p \in Party : Is(p, "vault") =>
        \A q \in device[p].committee :
            IF p = q \/ ~ Tolerant(p) THEN Held(q) = Keygens \/ ReportedInVain(q)
            ELSE shares[q] >= Keygens - 1

(* A device gave up while the others were still to come, or too many came. *)
Crowded == \E p \in Party : device[p].why \in {"devices", "crowd"}

(* EverybodyGetsVault. When the session of a new vault is over to which    *)
(* all devices came, and nothing failed but requests to start it, with an  *)
(* attempt left to each device, everyone has the vault.                    *)
EverybodyGetsVault ==
    kind # "sign" /\ joined # {} /\ Over /\ faults = 0 =>
        Crowded \/ \A p \in joined : Is(p, "vault")
=============================================================================
