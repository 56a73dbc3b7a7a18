---------------------------- MODULE RelaySession ----------------------------
(***************************************************************************)
(* How the devices of a ceremony find each other on the relay: joining a   *)
(* session, waiting for the others, starting it.  Three protocols share it: *)
(* signing (RelaySigningService, core/mpc/keysign/cosigner.ts), where the  *)
(* initiator alone waits and starts; creation of a vault                   *)
(* (SecureVaultCreationService, JoinSecureVaultService), where all do; and *)
(* import of a seedphrase (SecureVaultFromSeedphraseService, the same      *)
(* JoinSecureVaultService), where all wait and the initiator starts.       *)
(***************************************************************************)
EXTENDS Naturals, FiniteSets

CONSTANTS
    Party,     \* the devices that may join
    Initiator, \* the one that shows the QR code
    MaxTries,  \* attempts of startMpcSessionWithRetry (3)
    Faults,    \* which of "post", "get", "slow", "crash", "cancel" may happen
    Settings   \* which sessions there may be: what for, the devices that may
               \* join, how many have to, how many messages there are to
               \* sign or chains to import, in how many rounds a message
               \* is signed, a bound on the failures

ASSUME RelaySessionAssumption ==
    /\ IsFiniteSet(Party) /\ Initiator \in Party
    /\ MaxTries \in Nat \ {0}
    /\ Faults \subseteq {"post", "get", "slow", "crash", "cancel"}
    /\ Settings \subseteq
          [kind : {"sign", "create", "import"}, guests : SUBSET Party, required : Nat \ {0, 1},
           items : Nat \ {0}, rounds : Nat \ {0}, faults : Nat]

VARIABLES
    setting, \* one of Settings
    joined,  \* the devices that are in the session, on the relay
    started, \* the participants of POST /start, on the relay; {} before
    device,  \* where each device is
    faults   \* how many failures there were

kind == setting.kind

(* Threshold of a signing, number of devices of a creation. *)
Required == setting.required

sessionVars == <<setting, joined, started, device, faults>>

Stages == {"idle", "gather", "start", "check", "await", "setup", "sign", "signed",
           "keygen", "confirm", "vault", "failed"}

(* What a failed device threw: at which step it was. *)
Reasons == {"none", "join", "devices", "crowd", "start", "setup", "session",
            "timeout", "poll", "keygen", "complete", "crash", "cancel"}

(* ready: the device went on to the protocol after the start. *)
Device == [stage : Stages, committee : SUBSET Party, why : Reasons,
           tries : 0 .. MaxTries + 1, ready : BOOLEAN]

SessionTypeOK ==
    /\ setting \in Settings
    /\ joined \subseteq Party /\ started \subseteq Party
    /\ device \in [Party -> Device]
    /\ faults \in 0 .. setting.faults

SessionInit ==
    /\ setting \in Settings
    /\ joined = {} /\ started = {} /\ faults = 0
    /\ device = [p \in Party |-> [stage |-> "idle", committee |-> {}, why |-> "none",
                                  tries |-> 0, ready |-> FALSE]]

Is(p, stage) == device[p].stage = stage
Goto(p, stage) == device' = [device EXCEPT ![p].stage = stage]
Throws(p, why) == device' = [device EXCEPT ![p].stage = "failed", ![p].why = why]
Peers(p) == device[p].committee \ {p}
Ended(p) == device[p].stage \in {"idle", "signed", "vault", "failed"}
Over == \A p \in Party : Ended(p)

Fails(fault) == fault \in Faults /\ faults < setting.faults /\ faults' = faults + 1

(* A request that fails may have been applied: only its answer is lost. *)
OrApplied(old, new) == {old, new}

Proceeds(p) ==
    device' = [device EXCEPT ![p].stage = IF kind = "sign" THEN "setup" ELSE "keygen",
                             ![p].ready = TRUE]

-----------------------------------------------------------------------------
(* joinMpcSession *)

(* A cosigner waits for the start, everybody else for the other devices. *)
Join(p) ==
    /\ Is(p, "idle") /\ p \in setting.guests
    /\ joined' = joined \cup {p}
    /\ Goto(p, IF kind = "sign" /\ p # Initiator THEN "await" ELSE "gather")
    /\ UNCHANGED <<setting, started, faults>>

JoinFails(p) ==
    /\ Is(p, "idle") /\ p \in setting.guests
    /\ Fails("post")
    /\ joined' \in OrApplied(joined, joined \cup {p})
    /\ Throws(p, "join")
    /\ UNCHANGED <<setting, started>>

-----------------------------------------------------------------------------
(* waitForDevices and waitForRelayPeerCommittee *)

(* Variant of Gathered: more devices than required are accepted. *)
GatheredAny == Cardinality(joined) >= Required

(* A signing takes everybody who joined, a new vault the exact number. *)
Gathered == IF kind = "sign" THEN Cardinality(joined) >= Required ELSE Cardinality(joined) = Required

Gather(p) ==
    /\ Is(p, "gather") /\ Gathered
    /\ LET starts == kind # "import" \/ p = Initiator
       IN  device' = [device EXCEPT ![p].stage = IF starts THEN "start" ELSE "keygen",
                                    ![p].committee = joined, ![p].ready = ~ starts]
    /\ UNCHANGED <<setting, joined, started, faults>>

GatherFindsMore(p) ==
    /\ Is(p, "gather") /\ kind # "sign" /\ Cardinality(joined) > Required
    /\ Throws(p, "crowd")
    /\ UNCHANGED <<setting, joined, started, faults>>

(* Five minutes are over: the others are late, or every poll failed. *)
GatherTimesOut(p) ==
    /\ Is(p, "gather")
    /\ \/ Cardinality(joined) < Required /\ UNCHANGED faults
       \/ Fails("slow")
    /\ Throws(p, "devices")
    /\ UNCHANGED <<setting, joined, started>>

-----------------------------------------------------------------------------
(* startMpcSession, without a retry for a signing *)

Start(p) ==
    /\ Is(p, "start")
    /\ started' = device[p].committee
    /\ Proceeds(p)
    /\ UNCHANGED <<setting, joined, faults>>

StartFails(p) ==
    /\ Is(p, "start") /\ kind = "sign"
    /\ Fails("post")
    /\ started' \in OrApplied(started, device[p].committee)
    /\ Throws(p, "start")
    /\ UNCHANGED <<setting, joined>>

(* startMpcSessionWithRetry: a failed attempt is no failure of the call, so *)
(* only the last one counts as a fault.                                     *)
StartRetries(p) ==
    /\ Is(p, "start") /\ kind # "sign"
    /\ IF device[p].tries + 1 < MaxTries THEN "post" \in Faults /\ UNCHANGED faults ELSE Fails("post")
    /\ started' \in OrApplied(started, device[p].committee)
    /\ device' = [device EXCEPT ![p].stage = "check", ![p].tries = @ + 1]
    /\ UNCHANGED <<setting, joined>>

(* relaySessionStartAlreadyApplied. *)
CheckFindsStart(p) ==
    /\ Is(p, "check") /\ started = device[p].committee
    /\ Proceeds(p)
    /\ UNCHANGED <<setting, joined, started, faults>>

(* Variant of CheckFindsNothing: one look, and no second attempt. *)
CheckFindsNothingAndThrows(p) ==
    /\ Is(p, "check")
    /\ \/ started # device[p].committee /\ UNCHANGED faults
       \/ Fails("get")
    /\ Throws(p, "start")
    /\ UNCHANGED <<setting, joined, started>>

(* Not applied, or not known to be: try again, look once more, give up. *)
CheckFindsNothing(p) ==
    /\ Is(p, "check")
    /\ \/ started # device[p].committee /\ UNCHANGED faults
       \/ Fails("get")
    /\ device' = IF device[p].tries < MaxTries THEN [device EXCEPT ![p].stage = "start"]
                 ELSE IF device[p].tries = MaxTries THEN [device EXCEPT ![p].tries = @ + 1]
                 ELSE [device EXCEPT ![p].stage = "failed", ![p].why = "start"]
    /\ UNCHANGED <<setting, joined, started>>

-----------------------------------------------------------------------------
(* waitForSessionStart of a cosigner *)

AwaitStart(p) ==
    /\ Is(p, "await") /\ started # {}
    /\ device' = [device EXCEPT ![p].stage = "setup", ![p].committee = started, ![p].ready = TRUE]
    /\ UNCHANGED <<setting, joined, started, faults>>

(* Two minutes are over, less than the initiator waits for other devices. *)
AwaitTimesOut(p) ==
    /\ Is(p, "await") /\ started = {}
    /\ \/ (Cardinality(joined) < Required \/ Initiator \notin joined \/ Is(Initiator, "failed"))
          /\ UNCHANGED faults
       \/ Fails("slow")
    /\ Throws(p, "start")
    /\ UNCHANGED <<setting, joined, started>>

-----------------------------------------------------------------------------
(* The application's signal is looked at while the device waits for others, *)
(* by the initiator also before the start and before each message, and by  *)
(* both after the start.  A cosigner has none.                             *)
Cancel(p) ==
    /\ \/ Is(p, "gather") /\ UNCHANGED started
       \/ p = Initiator /\ Is(p, "start") /\ device[p].tries = 0 /\ UNCHANGED started
       \/ p = Initiator /\ Is(p, "setup") /\ UNCHANGED started
       \/ Is(p, "start") /\ started' = device[p].committee
       \/ Is(p, "check") /\ started = device[p].committee /\ UNCHANGED started
    /\ Fails("cancel")
    /\ Throws(p, "cancel")
    /\ UNCHANGED <<setting, joined>>

Crash(p) ==
    /\ ~ Ended(p) /\ Fails("crash")
    /\ Throws(p, "crash")
    /\ UNCHANGED <<setting, joined, started>>

(* What a device does by itself once it joined. *)
SessionStep(p) ==
    \/ Gather(p) \/ GatherFindsMore(p) \/ GatherTimesOut(p)
    \/ Start(p) \/ StartFails(p) \/ StartRetries(p)
    \/ CheckFindsStart(p) \/ CheckFindsNothing(p)
    \/ AwaitStart(p) \/ AwaitTimesOut(p)

(* What its user or its machine does. *)
SessionEvent(p) == Join(p) \/ JoinFails(p) \/ Cancel(p) \/ Crash(p)
=============================================================================
