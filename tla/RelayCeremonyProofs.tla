------------------------ MODULE RelayCeremonyProofs ------------------------
(***************************************************************************)
(* All devices of a new vault have the same committee, and a vault that a   *)
(* device keeps is whole, for any number of devices and of imported chains, *)
(* any settings and any faults; and if nothing fails, every device that     *)
(* joined gets the vault.                                                   *)
(***************************************************************************)
EXTENDS RelayCeremony, FiniteSetTheorems, TLAPS

Early == {"idle", "gather", "start"}

(* An attempt to start is one of MaxTries, and only a cosigner of a signing *)
(* takes its committee from the relay.                                      *)
StageInv ==
    \A p \in Party :
        /\ device[p].stage \in Early => device[p].tries < MaxTries
        /\ Is(p, "await") => kind = "sign"

(* C is the committee of whoever has one. *)
Committee(C) ==
    /\ C \subseteq joined /\ Cardinality(C) = Required
    /\ \A p \in Party : device[p].committee \in {{}, C}
    /\ started \in {{}, C}

NoCommittee == started = {} /\ \A p \in Party : device[p].committee = {}

OneCommittee == kind # "sign" => NoCommittee \/ \E C \in SUBSET Party : Committee(C)

CInv == SessionTypeOK /\ StageInv /\ OneCommittee

USE RelaySessionAssumption

-----------------------------------------------------------------------------
LEMMA CInvAgrees == CInv => CommitteesAgree
BY DEF CInv, OneCommittee, NoCommittee, Committee, CommitteesAgree

LEMMA CInvInit == Init => CInv
BY DEF Init, SessionInit, CInv, SessionTypeOK, StageInv, OneCommittee, NoCommittee, Device,
       Stages, Reasons, Is, kind

LEMMA FailsBounded ==
    ASSUME NEW f, SessionTypeOK, Fails(f)
    PROVE  faults' \in 0 .. setting.faults
BY DEF SessionTypeOK, Fails

LEMMA StageChanges ==
    ASSUME NEW d \in Device, NEW s \in Stages
    PROVE  [d EXCEPT !.stage = s] \in Device
BY DEF Device

LEMMA ReasonChanges ==
    ASSUME NEW d \in Device, NEW why \in Reasons
    PROVE  [d EXCEPT !.why = why] \in Device
BY DEF Device

LEMMA TriesChange ==
    ASSUME NEW d \in Device, NEW n \in 0 .. MaxTries + 1
    PROVE  [d EXCEPT !.tries = n] \in Device
BY DEF Device

LEMMA ReadyChanges ==
    ASSUME NEW d \in Device, NEW r \in BOOLEAN
    PROVE  [d EXCEPT !.ready = r] \in Device
BY DEF Device

LEMMA CommitteeChanges ==
    ASSUME NEW d \in Device, NEW C \in SUBSET Party
    PROVE  [d EXCEPT !.committee = C] \in Device
BY DEF Device

(* What a step of p may do to the relay: add devices, or start the session *)
(* with the committee of p.                                                *)
RelayStep(p) ==
    /\ setting' = setting
    /\ joined \subseteq joined' /\ joined' \subseteq Party
    /\ started' \in {started, device[p].committee}
    /\ faults' \in 0 .. setting.faults

(* Nobody gets a committee. *)
LEMMA QuietStep ==
    ASSUME CInv, NEW p \in Party, RelayStep(p),
           device' \in [Party -> Device],
           \A q \in Party : /\ device'[q].committee = device[q].committee
                            /\ device'[q].stage \in Early => device'[q].tries < MaxTries
                            /\ device'[q].stage = "await" => kind = "sign"
    PROVE  CInv'
<1>1. device \in [Party -> Device] BY DEF CInv, SessionTypeOK
<1>2. started' \subseteq Party BY <1>1 DEF CInv, SessionTypeOK, RelayStep, Device
<1>3. SessionTypeOK' BY <1>2 DEF CInv, SessionTypeOK, RelayStep
<1>4. StageInv' BY DEF StageInv, Is, kind, RelayStep
<1>5. ASSUME kind' # "sign" PROVE NoCommittee' \/ \E C \in SUBSET Party : Committee(C)'
  <2>1. kind' = kind /\ Required' = Required BY DEF kind, Required, RelayStep
  <2>2. CASE NoCommittee
        BY <2>2 DEF NoCommittee, RelayStep
  <2>3. CASE \E C \in SUBSET Party : Committee(C)
    <3>1. PICK C \in SUBSET Party : Committee(C) BY <2>3
    <3>2. Committee(C)' BY <2>1, <3>1 DEF Committee, RelayStep
    <3>3. QED BY <3>2
  <2>4. QED BY <1>5, <2>1, <2>2, <2>3 DEF CInv, OneCommittee
<1>6. QED BY <1>3, <1>4, <1>5 DEF CInv, OneCommittee

(* p goes on with a record that keeps its committee. *)
LEMMA DeviceStep ==
    ASSUME CInv, NEW p \in Party, RelayStep(p),
           NEW d \in Device, device' = [device EXCEPT ![p] = d],
           d.committee = device[p].committee,
           d.stage \in Early => d.tries < MaxTries,
           d.stage = "await" => kind = "sign"
    PROVE  CInv'
<1>1. device \in [Party -> Device] BY DEF CInv, SessionTypeOK
<1>2. device' \in [Party -> Device] BY <1>1
<1>3. \A q \in Party : /\ device'[q].committee = device[q].committee
                       /\ device'[q].stage \in Early => device'[q].tries < MaxTries
                       /\ device'[q].stage = "await" => kind = "sign"
      BY <1>1 DEF CInv, StageInv, Is
<1>4. QED BY <1>2, <1>3, QuietStep

LEMMA KeepStep ==
    ASSUME CInv, NEW p \in Party, RelayStep(p), UNCHANGED device
    PROVE  CInv'
<1>1. device[p] \in Device /\ device' = [device EXCEPT ![p] = device[p]]
      BY DEF CInv, SessionTypeOK
<1>2. QED BY <1>1, DeviceStep DEF CInv, StageInv, Is

LEMMA GotoStep ==
    ASSUME CInv, NEW p \in Party, RelayStep(p),
           NEW s \in Stages, Goto(p, s), s \in Early => device[p].stage \in Early, s = "await" => kind = "sign"
    PROVE  CInv'
<1>1. device[p] \in Device BY DEF CInv, SessionTypeOK
<1> DEFINE d == [device[p] EXCEPT !.stage = s]
<1>2. d \in Device BY <1>1, StageChanges
<1>3. device' = [device EXCEPT ![p] = d] BY DEF Goto
<1>4. d.committee = device[p].committee /\ d.stage = s /\ d.tries = device[p].tries BY <1>1 DEF Device
<1> HIDE DEF d
<1>5. QED BY <1>2, <1>3, <1>4, DeviceStep DEF CInv, StageInv

LEMMA ThrowsStep ==
    ASSUME CInv, NEW p \in Party, RelayStep(p),
           NEW why \in Reasons, Throws(p, why)
    PROVE  CInv'
<1>1. device[p] \in Device BY DEF CInv, SessionTypeOK
<1> DEFINE d == [device[p] EXCEPT !.stage = "failed", !.why = why]
<1>2. d \in Device BY <1>1, StageChanges, ReasonChanges DEF Stages
<1>3. device' = [device EXCEPT ![p] = d] BY DEF Throws
<1>4. d.committee = device[p].committee /\ d.stage = "failed" /\ d.stage \notin Early BY <1>1 DEF Device, Early
<1> HIDE DEF d
<1>5. QED BY <1>2, <1>3, <1>4, DeviceStep

LEMMA ProceedsStep ==
    ASSUME CInv, NEW p \in Party, RelayStep(p), Proceeds(p)
    PROVE  CInv'
<1>1. device[p] \in Device BY DEF CInv, SessionTypeOK
<1> DEFINE s == IF kind = "sign" THEN "setup" ELSE "keygen"
           d == [device[p] EXCEPT !.stage = s, !.ready = TRUE]
<1>2. d \in Device BY <1>1, StageChanges, ReadyChanges DEF Stages
<1>3. device' = [device EXCEPT ![p] = d] BY DEF Proceeds
<1>4. d.committee = device[p].committee /\ d.stage = s BY <1>1 DEF Device
<1>5. s \notin Early \cup {"await"} BY DEF Early
<1> HIDE DEF d, s
<1>6. QED BY <1>2, <1>3, <1>4, <1>5, DeviceStep

-----------------------------------------------------------------------------
(* A step that leaves the relay alone. *)
LEMMA AloneStep ==
    ASSUME CInv, UNCHANGED <<setting, joined, started>>, NEW p \in Party,
           faults' = faults \/ \E f \in {"post", "get", "slow", "crash", "cancel"} : Fails(f)
    PROVE  RelayStep(p)
BY FailsBounded DEF CInv, SessionTypeOK, RelayStep

(* The first device that finds all others has their committee, and later   *)
(* ones have the same: whoever is in it does not leave the relay, and one  *)
(* more would be too many.                                                 *)
LEMMA GatherStep ==
    ASSUME CInv, NEW p \in Party, Gather(p)
    PROVE  CInv'
<1>1. /\ device \in [Party -> Device] /\ device[p] \in Device
      /\ joined \subseteq Party /\ UNCHANGED <<setting, joined, started, faults>>
      BY DEF CInv, SessionTypeOK, Gather
<1> DEFINE starts == kind # "import" \/ p = Initiator
           s == IF starts THEN "start" ELSE "keygen"
           d == [device[p] EXCEPT !.stage = s, !.committee = joined, !.ready = ~ starts]
<1>2. device' = [device EXCEPT ![p] = d] BY DEF Gather
<1>3. d \in Device BY <1>1, StageChanges, CommitteeChanges, ReadyChanges DEF Stages
<1>4. d.committee = joined /\ d.stage # "await" /\ d.tries = device[p].tries
      BY <1>1 DEF Device
<1> HIDE DEF d
<1>5. SessionTypeOK' BY <1>1, <1>2, <1>3 DEF CInv, SessionTypeOK
<1>6. StageInv' BY <1>1, <1>2, <1>4 DEF CInv, StageInv, Is, kind, Gather, Early
<1>7. ASSUME kind' # "sign" PROVE \E C \in SUBSET Party : Committee(C)'
  <2>1. Cardinality(joined) = Required /\ kind # "sign"
        BY <1>1, <1>7 DEF Gather, Gathered, kind
  <2>2. Committee(joined) \/ NoCommittee
    <3>1. CASE NoCommittee BY <3>1
    <3>2. ASSUME NEW C \in SUBSET Party, Committee(C) PROVE C = joined
      <4>1. IsFiniteSet(joined) BY <1>1, FS_Subset
      <4>2. C \subseteq joined /\ Cardinality(C) = Cardinality(joined)
            BY <2>1, <3>2 DEF Committee
      <4>3. QED BY <4>1, <4>2, FS_Subset
    <3>3. QED BY <2>1, <3>1, <3>2 DEF CInv, OneCommittee
  <2>3. Committee(joined)'
    <3>1. Required' = Required BY <1>1 DEF Required
    <3>2. QED BY <1>1, <1>2, <1>4, <2>1, <2>2, <3>1 DEF Committee, NoCommittee
  <2>4. QED BY <1>1, <2>3
<1>8. QED BY <1>5, <1>6, <1>7 DEF CInv, OneCommittee

(* The committee of a cosigner is that of the start: a signing only. *)
LEMMA AwaitStartStep ==
    ASSUME CInv, NEW p \in Party, AwaitStart(p)
    PROVE  CInv'
<1>1. /\ device \in [Party -> Device] /\ device[p] \in Device
      /\ started \subseteq Party /\ UNCHANGED <<setting, joined, started, faults>>
      BY DEF CInv, SessionTypeOK, AwaitStart
<1> DEFINE d == [device[p] EXCEPT !.stage = "setup", !.committee = started, !.ready = TRUE]
<1>2. device' = [device EXCEPT ![p] = d] BY DEF AwaitStart
<1>3. d \in Device BY <1>1, StageChanges, CommitteeChanges, ReadyChanges DEF Stages
<1>4. d.stage \notin Early \cup {"await"} BY <1>1 DEF Device, Early
<1> HIDE DEF d
<1>5. SessionTypeOK' BY <1>1, <1>2, <1>3 DEF CInv, SessionTypeOK
<1>6. StageInv' BY <1>1, <1>2, <1>4 DEF CInv, StageInv, Is, kind
<1>7. kind' = "sign" BY <1>1 DEF CInv, StageInv, AwaitStart, kind
<1>8. QED BY <1>5, <1>6, <1>7 DEF CInv, OneCommittee

-----------------------------------------------------------------------------
LEMMA JoinSteps ==
    ASSUME CInv, NEW p \in Party, Join(p) \/ JoinFails(p)
    PROVE  CInv'
<1>1. RelayStep(p)
      BY FailsBounded DEF Join, JoinFails, OrApplied, RelayStep, CInv, SessionTypeOK
<1>2. CASE Join(p)
  <2> DEFINE s == IF kind = "sign" /\ p # Initiator THEN "await" ELSE "gather"
  <2>1. device[p].stage \in Early BY <1>2 DEF Join, Is, Early
  <2>2. s \in Stages /\ (s = "await" => kind = "sign") BY DEF Stages
  <2>3. Goto(p, s) BY <1>2 DEF Join
  <2> HIDE DEF s
  <2>4. QED BY <1>1, <2>1, <2>2, <2>3, GotoStep
<1>3. CASE JoinFails(p) BY <1>1, <1>3, ThrowsStep DEF JoinFails, Reasons
<1>4. QED BY <1>2, <1>3

LEMMA GatherSteps ==
    ASSUME CInv, NEW p \in Party, GatherFindsMore(p) \/ GatherTimesOut(p)
    PROVE  CInv'
<1>1. RelayStep(p) BY AloneStep DEF GatherFindsMore, GatherTimesOut
<1>2. QED BY <1>1, ThrowsStep DEF GatherFindsMore, GatherTimesOut, Reasons

LEMMA StartSteps ==
    ASSUME CInv, NEW p \in Party, Start(p) \/ StartFails(p) \/ StartRetries(p)
    PROVE  CInv'
<1>1. RelayStep(p)
      BY FailsBounded DEF Start, StartFails, StartRetries, OrApplied, RelayStep, CInv, SessionTypeOK
<1>2. CASE Start(p) BY <1>1, <1>2, ProceedsStep DEF Start
<1>3. CASE StartFails(p) BY <1>1, <1>3, ThrowsStep DEF StartFails, Reasons
<1>4. CASE StartRetries(p)
  <2>1. device[p] \in Device /\ device[p].tries \in 0 .. MaxTries - 1
        BY <1>4 DEF CInv, SessionTypeOK, StageInv, StartRetries, Is, Early, Device
  <2> DEFINE n == device[p].tries + 1
             d == [device[p] EXCEPT !.stage = "check", !.tries = n]
  <2>2. n \in 0 .. MaxTries + 1 BY <2>1
  <2>3. d \in Device BY <2>1, <2>2, StageChanges, TriesChange DEF Stages
  <2>4. device' = [device EXCEPT ![p] = d] BY <1>4 DEF StartRetries
  <2>5. d.committee = device[p].committee /\ d.stage \notin Early \cup {"await"}
        BY <2>1 DEF Device, Early
  <2> HIDE DEF d
  <2>6. QED BY <1>1, <2>3, <2>4, <2>5, DeviceStep
<1>5. QED BY <1>2, <1>3, <1>4

LEMMA CheckSteps ==
    ASSUME CInv, NEW p \in Party, CheckFindsStart(p) \/ CheckFindsNothing(p)
    PROVE  CInv'
<1>1. RelayStep(p) BY AloneStep DEF CheckFindsStart, CheckFindsNothing
<1>2. CASE CheckFindsStart(p) BY <1>1, <1>2, ProceedsStep DEF CheckFindsStart
<1>3. CASE CheckFindsNothing(p)
  <2>1. device[p] \in Device BY DEF CInv, SessionTypeOK
  <2>2. CASE device[p].tries < MaxTries
    <3> DEFINE d == [device[p] EXCEPT !.stage = "start"]
    <3>1. d \in Device BY <2>1, StageChanges DEF Stages
    <3>2. device' = [device EXCEPT ![p] = d] BY <1>3, <2>2 DEF CheckFindsNothing
    <3>3. d.committee = device[p].committee /\ d.tries < MaxTries /\ d.stage # "await"
          BY <2>1, <2>2 DEF Device
    <3> HIDE DEF d
    <3>4. QED BY <1>1, <3>1, <3>2, <3>3, DeviceStep
  <2>3. CASE device[p].tries = MaxTries
    <3> DEFINE d == [device[p] EXCEPT !.tries = @ + 1]
    <3>1. d \in Device BY <2>1, <2>3, TriesChange DEF Stages
    <3>2. device' = [device EXCEPT ![p] = d] BY <1>3, <2>3 DEF CheckFindsNothing
    <3>3. d.committee = device[p].committee /\ d.stage \notin Early \cup {"await"}
          BY <1>3, <2>1 DEF Device, CheckFindsNothing, Is, Early
    <3> HIDE DEF d
    <3>4. QED BY <1>1, <3>1, <3>2, <3>3, DeviceStep
  <2>4. CASE device[p].tries > MaxTries
    <3>1. Throws(p, "start") BY <1>3, <2>1, <2>4 DEF CheckFindsNothing, Throws, Device
    <3>2. QED BY <1>1, <3>1, ThrowsStep DEF Reasons
  <2>5. QED BY <2>1, <2>2, <2>3, <2>4 DEF Device
<1>4. QED BY <1>2, <1>3

LEMMA AwaitTimesOutStep ==
    ASSUME CInv, NEW p \in Party, AwaitTimesOut(p)
    PROVE  CInv'
<1>1. RelayStep(p) BY AloneStep DEF AwaitTimesOut
<1>2. QED BY <1>1, ThrowsStep DEF AwaitTimesOut, Reasons

(* A device that is cancelled at its start may have started the session. *)
LEMMA EventSteps ==
    ASSUME CInv, NEW p \in Party, Cancel(p) \/ Crash(p)
    PROVE  CInv'
<1>1. RelayStep(p) BY FailsBounded DEF Cancel, Crash, RelayStep, CInv, SessionTypeOK
<1>2. QED BY <1>1, ThrowsStep DEF Cancel, Crash, Reasons

LEMMA SessionSteps ==
    ASSUME CInv, NEW p \in Party, SessionStep(p) \/ SessionEvent(p)
    PROVE  CInv'
BY JoinSteps, GatherStep, GatherSteps, StartSteps, CheckSteps, AwaitStartStep,
   AwaitTimesOutStep, EventSteps DEF SessionStep, SessionEvent

-----------------------------------------------------------------------------
(* The protocols leave the session as it is. *)

LEMMA CreateSteps ==
    ASSUME CInv, NEW p \in Party, CreateStep(p)
    PROVE  CInv'
<1>1. RelayStep(p)
      BY AloneStep
      DEF CreateStep, Share, KeygenFails, CancelLate, SetComplete, SetCompleteFails, Confirmed,
          ConfirmTimesOut, sessionVars
<1>2. CASE Share(p) BY <1>1, <1>2, KeepStep DEF Share, sessionVars
<1>3. CASE KeygenFails(p) BY <1>1, <1>3, ThrowsStep DEF KeygenFails, Reasons
<1>4. CASE CancelLate(p) BY <1>1, <1>4, ThrowsStep DEF CancelLate, Reasons
<1>5. CASE SetComplete(p) BY <1>1, <1>5, GotoStep DEF SetComplete, Stages, Early
<1>6. CASE SetCompleteFails(p) BY <1>1, <1>6, ThrowsStep DEF SetCompleteFails, Reasons
<1>7. CASE Confirmed(p) BY <1>1, <1>7, GotoStep DEF Confirmed, Stages, Early
<1>8. CASE ConfirmTimesOut(p)
      BY <1>1, <1>8, GotoStep, ThrowsStep DEF ConfirmTimesOut, Stages, Early, Reasons
<1>9. QED BY <1>2, <1>3, <1>4, <1>5, <1>6, <1>7, <1>8 DEF CreateStep

LEMMA OutboundSteps ==
    ASSUME CInv, NEW p \in Party, OutboundStep(p)
    PROVE  CInv'
<1>1. RelayStep(p)
      BY AloneStep DEF OutboundStep, Output, OutboundStops, Post, PostFails, sessionVars
<1>2. CASE UNCHANGED device BY <1>1, <1>2, KeepStep
<1>3. CASE Throws(p, "crash") BY <1>1, <1>3, ThrowsStep DEF Reasons
<1>4. QED BY <1>2, <1>3
      DEF OutboundStep, Output, OutboundStops, Post, PostFails, sessionVars

LEMMA InboundSteps ==
    ASSUME CInv, NEW p \in Party, InboundStep(p)
    PROVE  CInv'
<1>1. RelayStep(p)
      BY AloneStep
      DEF InboundStep, Upload, UploadFails, SetupArrives, SetupTimesOut, Fetch, FetchFails, Feed,
          Timer, InboundTimesOut, Return, CancelSigned, ReturnError, sessionVars
<1>2. CASE Upload(p) BY <1>1, <1>2, GotoStep DEF Upload, Stages, Early
<1>3. CASE UploadFails(p) BY <1>1, <1>3, ThrowsStep DEF UploadFails, Reasons
<1>4. CASE SetupArrives(p)
      BY <1>1, <1>4, GotoStep, ThrowsStep DEF SetupArrives, Stages, Early, Reasons
<1>5. CASE SetupTimesOut(p) BY <1>1, <1>5, ThrowsStep DEF SetupTimesOut, Reasons
<1>6. CASE Fetch(p) \/ Feed(p) \/ Timer(p)
      BY <1>1, <1>6, KeepStep DEF Fetch, Feed, Timer, sessionVars
<1>7. CASE FetchFails(p) \/ InboundTimesOut(p)
  <2>1. device[p] \in Device /\ Is(p, "sign")
        BY <1>7 DEF CInv, SessionTypeOK, FetchFails, InboundTimesOut, Inbound
  <2>2. PICK why \in Reasons : device' = [device EXCEPT ![p].why = why]
        BY <1>7 DEF FetchFails, InboundTimesOut, Reasons
  <2> DEFINE d == [device[p] EXCEPT !.why = why]
  <2>3. d \in Device BY <2>1, ReasonChanges
  <2>4. d.committee = device[p].committee /\ d.stage \notin Early \cup {"await"}
        BY <2>1 DEF Device, Is, Early
  <2>5. device' = [device EXCEPT ![p] = d] BY <2>2
  <2> HIDE DEF d
  <2>6. QED BY <1>1, <2>3, <2>4, <2>5, DeviceStep
<1>8. CASE Return(p)
      BY <1>1, <1>8, GotoStep DEF Return, Stages, Early
<1>9. CASE CancelSigned(p) BY <1>1, <1>9, ThrowsStep DEF CancelSigned, Reasons
<1>10. CASE ReturnError(p)
  <2>1. device[p].why \in Reasons BY DEF CInv, SessionTypeOK, Device
  <2>2. QED BY <1>1, <1>10, <2>1, ThrowsStep DEF ReturnError
<1>11. QED BY <1>2, <1>3, <1>4, <1>5, <1>6, <1>7, <1>8, <1>9, <1>10 DEF InboundStep

LEMMA CInvNext == CInv /\ [Next]_vars => CInv'
<1> SUFFICES ASSUME CInv, [Next]_vars PROVE CInv' OBVIOUS
<1>1. CASE Next
  <2>1. PICK p \in Party :
            SessionMoves(p) \/ SessionBegins(p) \/ SignMoves(p) \/ SignPosts(p) \/ CreateMoves(p)
        BY <1>1 DEF Next
  <2>2. QED BY <2>1, SessionSteps, InboundSteps, OutboundSteps, CreateSteps
        DEF SessionMoves, SessionBegins, SignMoves, SignPosts, CreateMoves
<1>2. CASE UNCHANGED vars
      BY <1>2 DEF vars, sessionVars, CInv, SessionTypeOK, StageInv, OneCommittee, NoCommittee,
                  Committee, Is, kind, Required
<1>3. QED BY <1>1, <1>2

(* CommitteesAreOne. However many devices join, poll, retry, crash and are *)
(* cancelled, those of a new vault that got past the wait for the others    *)
(* (waitForRelayPeerCommittee) have one committee, which the relay has.    *)
THEOREM CommitteesAreOne == Spec => []CommitteesAgree
<1>1. Spec => []CInv BY CInvInit, CInvNext, PTL DEF Spec
<1>2. QED BY <1>1, CInvAgrees, PTL

-----------------------------------------------------------------------------
(* The vault a device keeps is whole *)

Waiting == {"idle", "gather", "await"}
Kept == {"confirm", "vault"}

(* Who has a share has a committee to stay, and those in it are at most    *)
(* one keygen behind; who reported, or keeps the vault, has done all       *)
(* keygens, and who reported holds the shares or threw after that.         *)
ShareInv ==
    \A p \in Party :
        /\ shares[p] > 0 => device[p].stage \notin Waiting
        /\ device[p].stage \in Kept \/ p \in complete => shares[p] = Keygens
        /\ shares[p] > 0 => \A q \in Peers(p) : shares[q] >= shares[p] - 1
        /\ Is(p, "vault") => Tolerant(p) \/ Peers(p) \subseteq complete
        /\ p \in complete => device[p].stage \in Kept \/ ReportedInVain(p)

WInv == CInv /\ CreateTypeOK /\ ShareInv

LEMMA KeygensNat == CInv => Keygens \in Nat \ {0, 1}
BY RelaySessionAssumption DEF CInv, SessionTypeOK, Keygens, kind

LEMMA WInvWhole == WInv => VaultIsWhole
<1> SUFFICES ASSUME WInv, NEW p \in Party, Is(p, "vault"), NEW q \in device[p].committee
             PROVE  IF p = q \/ ~ Tolerant(p) THEN Held(q) = Keygens \/ ReportedInVain(q)
                    ELSE shares[q] >= Keygens - 1
    BY DEF VaultIsWhole
<1>1. q \in Party BY DEF WInv, CInv, SessionTypeOK, Device
<1>2. Keygens \in Nat \ {0, 1} /\ shares \in [Party -> 0 .. Keygens]
      BY KeygensNat DEF WInv, CreateTypeOK
<1>3. shares[p] = Keygens BY DEF WInv, ShareInv, Is, Kept
<1>4. CASE p = q BY <1>3, <1>4 DEF Held, Is
<1>5. CASE p # q /\ ~ Tolerant(p)
  <2>1. q \in complete BY <1>5 DEF WInv, ShareInv, Peers
  <2>2. shares[q] = Keygens /\ (device[q].stage \in Kept \/ ReportedInVain(q))
        BY <1>1, <2>1 DEF WInv, ShareInv
  <2>3. device[q].stage \in Kept => Held(q) = Keygens BY <2>2 DEF Held, Is, Kept
  <2>4. QED BY <1>5, <2>2, <2>3
<1>6. CASE p # q /\ Tolerant(p)
  <2>1. shares[q] >= shares[p] - 1 BY <1>2, <1>3, <1>6 DEF WInv, ShareInv, Peers
  <2>2. QED BY <1>3, <1>6, <2>1
<1>7. QED BY <1>4, <1>5, <1>6

LEMMA WInvInit == Init => WInv
<1> SUFFICES ASSUME Init PROVE WInv OBVIOUS
<1>1. CInv BY CInvInit
<1>2. \A p \in Party : shares[p] = 0 /\ device[p].stage = "idle"
      BY DEF Init, CreateInit, SessionInit
<1>3. CreateTypeOK BY <1>1, KeygensNat DEF Init, CreateInit, CreateTypeOK
<1>4. ShareInv
      BY <1>2 DEF ShareInv, Init, CreateInit, Is, Waiting, Kept
<1>5. QED BY <1>1, <1>3, <1>4 DEF WInv

-----------------------------------------------------------------------------
(* The shares stay as they are, and what is reported or kept is complete. *)
LEMMA SameShares ==
    ASSUME WInv, CInv', UNCHANGED <<setting, shares>>,
           complete \subseteq complete', complete' \subseteq Party,
           \A q \in complete' : shares[q] = Keygens,
           \A q \in Party :
               /\ device[q].stage \in Waiting \/ device'[q].committee = device[q].committee
               /\ device'[q].stage \in Waiting => device[q].stage \in Waiting
               /\ device'[q].stage \in Kept => shares[q] = Keygens
               /\ device'[q].stage = "vault" => Tolerant(q) \/ Peers(q) \subseteq complete'
               /\ q \in complete' => device'[q].stage \in Kept \/ ReportedInVain(q)'
    PROVE  WInv'
<1>1. Keygens' = Keygens /\ Keygens \in Nat \ {0, 1} /\ \A q : Tolerant(q)' = Tolerant(q)
      BY KeygensNat DEF WInv, Keygens, kind, Tolerant
<1>2. CreateTypeOK' BY <1>1 DEF WInv, CreateTypeOK
<1>3. ASSUME NEW p \in Party
      PROVE  /\ shares[p] > 0 => device'[p].stage \notin Waiting
             /\ device'[p].stage \in Kept \/ p \in complete' => shares[p] = Keygens
             /\ shares[p] > 0 => \A q \in Peers(p)' : shares[q] >= shares[p] - 1
             /\ device'[p].stage = "vault" => Tolerant(p) \/ Peers(p)' \subseteq complete'
             /\ p \in complete' => device'[p].stage \in Kept \/ ReportedInVain(p)'
  <2>1. shares[p] \in 0 .. Keygens BY DEF WInv, CreateTypeOK
  <2>2. shares[p] > 0 => device[p].stage \notin Waiting BY DEF WInv, ShareInv
  <2>3. shares[p] > 0 => Peers(p)' = Peers(p) BY <2>2 DEF Peers
  <2>4. device'[p].stage \in Kept \/ p \in complete' => shares[p] = Keygens OBVIOUS
  <2>5. shares[p] > 0 => \A q \in Peers(p)' : shares[q] >= shares[p] - 1
        BY <2>3 DEF WInv, ShareInv
  <2>6. device'[p].stage = "vault" => Tolerant(p) \/ Peers(p)' \subseteq complete'
        BY <1>1, <2>3 DEF Kept
  <2>7. QED BY <2>2, <2>4, <2>5, <2>6
<1>4. ShareInv' BY <1>1, <1>3 DEF ShareInv, Is
<1>5. QED BY <1>2, <1>4 DEF WInv

(* A step of the session or of a signing: nobody gets to report or to keep. *)
LEMMA OtherStep ==
    ASSUME WInv, CInv', UNCHANGED <<setting, createVars>>,
           \A q \in Party :
               /\ device[q].stage \in Waiting \/ device'[q].committee = device[q].committee
               /\ device'[q].stage \in Waiting => device[q].stage \in Waiting
               /\ device'[q].stage \in Kept => device'[q].stage = device[q].stage
               /\ \/ device'[q].stage = device[q].stage /\ device'[q].why = device[q].why
                  \/ q \in complete => device'[q].stage = "failed" /\ device'[q].why \in LateReasons
    PROVE  WInv'
<1>1. \A q \in complete : shares[q] = Keygens BY DEF WInv, CreateTypeOK, ShareInv
<1>2. \A q \in Party : q \in complete' => device'[q].stage \in Kept \/ ReportedInVain(q)'
      BY DEF WInv, ShareInv, ReportedInVain, Is, createVars
<1>3. QED BY <1>1, <1>2, SameShares DEF WInv, CreateTypeOK, ShareInv, Is, Kept, createVars

LEMMA SessionKeepsShares ==
    ASSUME WInv, CInv', NEW p \in Party, UNCHANGED createVars,
           SessionStep(p) \/ SessionEvent(p)
    PROVE  WInv'
<1>1. device \in [Party -> Device] BY DEF WInv, CInv, SessionTypeOK
<1>2. setting' = setting
      BY DEF SessionStep, SessionEvent, Gather, GatherFindsMore, GatherTimesOut, Start,
             StartFails, StartRetries, CheckFindsStart, CheckFindsNothing, AwaitStart,
             AwaitTimesOut, Join, JoinFails, Cancel, Crash
<1> DEFINE Fine(d) == /\ device[p].stage \in Waiting \/ d.committee = device[p].committee
                      /\ d.stage \in Waiting => device[p].stage \in Waiting
                      /\ d.stage \notin Kept
                      /\ p \in complete => d.stage = "failed" /\ d.why \in LateReasons
<1>c. p \in complete => device[p].stage \in {"confirm", "vault", "failed"}
      BY DEF WInv, ShareInv, ReportedInVain, Is, Kept
<1>3. \E d : Fine(d) /\ device' = [device EXCEPT ![p] = d]
  <2>1. CASE Join(p)
    <3>1. PICK s \in {"await", "gather"} : Goto(p, s) BY <2>1 DEF Join
    <3>2. Fine([device[p] EXCEPT !.stage = s])
          BY <1>1, <1>c, <2>1 DEF Join, Is, Waiting, Kept, Device
    <3>3. QED BY <3>1, <3>2 DEF Goto
  <2>2. ASSUME NEW s \in {"start", "keygen", "setup"}, NEW C, NEW r, device[p].stage \in Waiting,
               device' = [device EXCEPT ![p] = [device[p] EXCEPT !.stage = s, !.committee = C, !.ready = r]]
        PROVE  \E d : Fine(d) /\ device' = [device EXCEPT ![p] = d]
    <3> DEFINE d == [device[p] EXCEPT !.stage = s, !.committee = C, !.ready = r]
    <3>1. d.stage = s BY <1>1 DEF Device
    <3>2. Fine(d) BY <1>c, <2>2, <3>1 DEF Kept, Waiting
    <3>3. QED BY <2>2, <3>2
  <2>3. CASE Proceeds(p) /\ p \notin complete
    <3>1. PICK s \in {"setup", "keygen"} :
              device' = [device EXCEPT ![p] = [device[p] EXCEPT !.stage = s, !.ready = TRUE]]
          BY <2>3 DEF Proceeds
    <3>2. Fine([device[p] EXCEPT !.stage = s, !.ready = TRUE])
          BY <1>1, <2>3 DEF Kept, Waiting, Device
    <3>3. QED BY <3>1, <3>2
  <2>4. ASSUME NEW why, Throws(p, why), p \in complete => why \in LateReasons
        PROVE  \E d : Fine(d) /\ device' = [device EXCEPT ![p] = d]
    <3>1. Fine([device[p] EXCEPT !.stage = "failed", !.why = why])
          BY <1>1, <2>4 DEF Kept, Waiting, Device
    <3>2. QED BY <2>4, <3>1 DEF Throws
  <2>5. CASE StartRetries(p)
    <3> DEFINE n == device[p].tries + 1
    <3>1. device' = [device EXCEPT ![p] = [device[p] EXCEPT !.stage = "check", !.tries = n]]
          BY <2>5 DEF StartRetries
    <3>2. Fine([device[p] EXCEPT !.stage = "check", !.tries = n])
          BY <1>1, <1>c, <2>5 DEF Kept, Waiting, Device, StartRetries, Is
    <3>3. QED BY <3>1, <3>2
  <2>6. CASE CheckFindsNothing(p)
    <3>1. CASE device[p].tries < MaxTries
      <4>1. Fine([device[p] EXCEPT !.stage = "start"])
            BY <1>1, <1>c, <2>6 DEF Kept, Waiting, Device, CheckFindsNothing, Is
      <4>2. QED BY <2>6, <3>1, <4>1 DEF CheckFindsNothing
    <3>2. CASE device[p].tries = MaxTries
      <4>1. Is(p, "check") BY <2>6 DEF CheckFindsNothing
      <4> DEFINE n == device[p].tries + 1
      <4>2. device' = [device EXCEPT ![p] = [device[p] EXCEPT !.tries = n]]
            BY <2>6, <3>2, RelaySessionAssumption DEF CheckFindsNothing
      <4>3. Fine([device[p] EXCEPT !.tries = n])
            BY <1>1, <1>c, <4>1 DEF Kept, Waiting, Device, Is
      <4>4. QED BY <4>2, <4>3
    <3>3. CASE ~ (device[p].tries < MaxTries) /\ device[p].tries # MaxTries
      <4>1. Throws(p, "start") /\ p \notin complete
            BY <1>c, <2>6, <3>3 DEF CheckFindsNothing, Throws, Is
      <4>2. QED BY <2>4, <4>1
    <3>4. QED BY <3>1, <3>2, <3>3
  <2>7. CASE Gather(p)
    <3> DEFINE starts == kind # "import" \/ p = Initiator
    <3>1. device' = [device EXCEPT ![p] = [device[p] EXCEPT
                        !.stage = IF starts THEN "start" ELSE "keygen",
                        !.committee = joined, !.ready = ~ starts]]
          BY <2>7 DEF Gather
    <3>2. device[p].stage \in Waiting BY <2>7 DEF Gather, Is, Waiting
    <3> HIDE DEF starts
    <3> DEFINE s == IF starts THEN "start" ELSE "keygen"
               r == ~ starts
    <3>3. s \in {"start", "keygen", "setup"} OBVIOUS
    <3>4. device' = [device EXCEPT ![p] = [device[p] EXCEPT !.stage = s, !.committee = joined, !.ready = r]]
          BY <3>1
    <3> HIDE DEF s, r
    <3>5. QED BY <2>2, <3>2, <3>3, <3>4
  <2>8. CASE AwaitStart(p)
    <3>1. device[p].stage \in Waiting BY <2>8 DEF AwaitStart, Is, Waiting
    <3>2. QED BY <2>2, <2>8, <3>1 DEF AwaitStart
  <2>9. QED
        BY <1>c, <2>1, <2>3, <2>4, <2>5, <2>6, <2>7, <2>8
        DEF SessionStep, SessionEvent, GatherFindsMore, GatherTimesOut, Start, StartFails,
            CheckFindsStart, AwaitTimesOut, JoinFails, Cancel, Crash, LateReasons, Is
<1>4. QED BY <1>1, <1>2, <1>3, OtherStep

LEMMA SignKeepsShares ==
    ASSUME WInv, CInv', NEW p \in Party, UNCHANGED createVars,
           InboundStep(p) \/ OutboundStep(p)
    PROVE  WInv'
<1>1. device \in [Party -> Device] BY DEF WInv, CInv, SessionTypeOK
<1>2. setting' = setting
      BY DEF InboundStep, OutboundStep, Upload, UploadFails, SetupArrives, SetupTimesOut, Fetch,
             FetchFails, Feed, Timer, InboundTimesOut, Return, CancelSigned, ReturnError, Output,
             OutboundStops, Post, PostFails, sessionVars
<1>c. p \in complete => device[p].stage \in {"confirm", "vault", "failed"}
      BY DEF WInv, ShareInv, ReportedInVain, Is, Kept
<1>n. p \notin complete \/ UNCHANGED device
      BY <1>c
      DEF InboundStep, OutboundStep, Upload, UploadFails, SetupArrives, SetupTimesOut, Fetch,
          FetchFails, Feed, Timer, InboundTimesOut, Return, CancelSigned, ReturnError, Output,
          OutboundStops, Post, PostFails, BothOver, Inbound, Outbound, Is, sessionVars
<1>6. CASE UNCHANGED device BY <1>2, <1>6, OtherStep
<1>3. ASSUME NEW s \in {"sign", "setup", "signed"}, Goto(p, s) PROVE WInv'
  <2>1. device' = [device EXCEPT ![p] = [device[p] EXCEPT !.stage = s]] BY <1>3 DEF Goto
  <2>2. QED BY <1>1, <1>2, <1>n, <1>6, <2>1, OtherStep DEF Waiting, Kept, Device
<1>4. ASSUME NEW why, Throws(p, why) PROVE WInv'
  <2>1. device' = [device EXCEPT ![p] = [device[p] EXCEPT !.stage = "failed", !.why = why]]
        BY <1>4 DEF Throws
  <2>2. QED BY <1>1, <1>2, <1>n, <1>6, <2>1, OtherStep DEF Waiting, Kept, Device
<1>5. ASSUME NEW why, device' = [device EXCEPT ![p].why = why] PROVE WInv'
  <2>1. device' = [device EXCEPT ![p] = [device[p] EXCEPT !.why = why]] BY <1>5
  <2>2. QED BY <1>1, <1>2, <1>n, <1>6, <2>1, OtherStep DEF Waiting, Kept, Device
<1>7. CASE OutboundStep(p)
      BY <1>4, <1>6, <1>7
      DEF OutboundStep, Output, OutboundStops, Post, PostFails, sessionVars
<1>8. CASE InboundStep(p)
  <2>1. CASE Upload(p) \/ SetupArrives(p) \/ Return(p)
        BY <1>3, <1>4, <2>1 DEF Upload, SetupArrives, Return
  <2>2. CASE UploadFails(p) \/ SetupTimesOut(p) \/ CancelSigned(p) \/ ReturnError(p)
        BY <1>4, <2>2 DEF UploadFails, SetupTimesOut, CancelSigned, ReturnError
  <2>3. CASE Fetch(p) \/ Feed(p) \/ Timer(p)
        BY <1>6, <2>3 DEF Fetch, Feed, Timer, sessionVars
  <2>4. CASE FetchFails(p) \/ InboundTimesOut(p)
        BY <1>5, <2>4 DEF FetchFails, InboundTimesOut
  <2>5. QED BY <1>8, <2>1, <2>2, <2>3, <2>4 DEF InboundStep
<1>9. QED BY <1>7, <1>8

-----------------------------------------------------------------------------
LEMMA ShareStep ==
    ASSUME WInv, CInv', NEW p \in Party, Share(p)
    PROVE  WInv'
<1>1. /\ Keygens' = Keygens /\ Keygens \in Nat \ {0, 1}
      /\ \A q \in Party : Tolerant(q)' = Tolerant(q) /\ Peers(q)' = Peers(q) /\ Peers(q) \subseteq Party
      BY KeygensNat
      DEF WInv, CInv, SessionTypeOK, Device, Share, sessionVars, Keygens, kind, Tolerant, Peers
<1>2. /\ shares \in [Party -> 0 .. Keygens] /\ complete' = complete
      /\ shares' = [shares EXCEPT ![p] = shares[p] + 1] /\ shares[p] < Keygens
      /\ device[p].stage = "keygen" /\ UNCHANGED device
      /\ \A q \in Peers(p) : shares[q] >= shares[p]
      BY DEF WInv, CreateTypeOK, Share, TakesPart, Is, sessionVars
<1>3. shares' \in [Party -> 0 .. Keygens] BY <1>1, <1>2
<1>4. CreateTypeOK' BY <1>1, <1>2, <1>3 DEF WInv, CreateTypeOK
<1>5. \A q \in Party \ {p} : shares'[q] = shares[q] BY <1>2
<1>6. shares'[p] = shares[p] + 1 BY <1>2
<1>7. ASSUME NEW q \in Party
      PROVE  /\ shares'[q] > 0 => device[q].stage \notin Waiting
             /\ device[q].stage \in Kept \/ q \in complete => shares'[q] = Keygens
             /\ shares'[q] > 0 => \A r \in Peers(q) : shares'[r] >= shares'[q] - 1
             /\ device[q].stage = "vault" => Tolerant(q) \/ Peers(q) \subseteq complete
             /\ q \in complete => device[q].stage \in Kept \/ ReportedInVain(q)
  <2>1. p \notin complete BY <1>1, <1>2 DEF WInv, ShareInv
  <2>2. CASE q = p
    <3>1. device[q].stage \notin Waiting \cup Kept /\ q \notin complete
          BY <1>2, <2>1, <2>2 DEF Waiting, Kept
    <3>2. \A r \in Peers(q) : shares'[r] >= shares'[q] - 1
          BY <1>1, <1>2, <1>5, <1>6, <2>2 DEF Peers
    <3>3. QED BY <3>1, <3>2 DEF Kept
  <2>3. CASE q # p
    <3>1. shares'[q] = shares[q] BY <1>5, <2>3
    <3>2. \A r \in Party : shares'[r] >= shares[r] BY <1>2, <1>5, <1>6
    <3>3. shares[q] > 0 => \A r \in Peers(q) : shares[r] >= shares[q] - 1
          BY DEF WInv, ShareInv
    <3>4. shares'[q] > 0 => \A r \in Peers(q) : shares'[r] >= shares'[q] - 1
      <4>1. SUFFICES ASSUME shares'[q] > 0, NEW r \in Peers(q) PROVE shares'[r] >= shares'[q] - 1
            OBVIOUS
      <4>2. r \in Party BY <1>1
      <4>3. shares[r] \in Nat /\ shares'[r] \in Nat /\ shares[q] \in Nat BY <1>2, <1>3, <4>2
      <4>4. shares'[r] >= shares[r] /\ shares[r] >= shares[q] - 1
            BY <3>1, <3>2, <3>3, <4>1, <4>2
      <4>5. QED BY <3>1, <4>3, <4>4
    <3>5. QED BY <3>1, <3>4 DEF WInv, ShareInv, Is
  <2>4. QED BY <2>2, <2>3
<1>8. ShareInv' BY <1>1, <1>2, <1>7 DEF ShareInv, Is, ReportedInVain
<1>9. QED BY <1>4, <1>8 DEF WInv

LEMMA CreateKeepsShares ==
    ASSUME WInv, CInv', NEW p \in Party, CreateStep(p)
    PROVE  WInv'
<1>1. /\ device \in [Party -> Device] /\ complete \subseteq Party
      /\ \A q \in complete : shares[q] = Keygens
      /\ \A q \in Party :
            /\ device[q].stage \in Kept => shares[q] = Keygens
            /\ device[q].stage = "vault" => Tolerant(q) \/ Peers(q) \subseteq complete
            /\ q \in complete => device[q].stage \in Kept \/ ReportedInVain(q)
      BY DEF WInv, CInv, SessionTypeOK, CreateTypeOK, ShareInv, Is
<1>2. CASE Share(p) BY <1>2, ShareStep
<1>3. ASSUME NEW why, Throws(p, why), UNCHANGED <<setting, shares>>,
             complete' \in {complete, complete \cup {p}},
             complete' = complete \/ shares[p] = Keygens,
             p \in complete' => why \in LateReasons
      PROVE  WInv'
  <2>1. device' = [device EXCEPT ![p] = [device[p] EXCEPT !.stage = "failed", !.why = why]]
        BY <1>3 DEF Throws
  <2>2. \A q \in Party : /\ device'[q].committee = device[q].committee
                         /\ q # p => device'[q].stage = device[q].stage
                         /\ q # p => device'[q].why = device[q].why
                         /\ device'[p].stage = "failed" /\ device'[p].why = why
        BY <1>1, <2>1 DEF Device
  <2>3. \A q \in Party : q \in complete' => device'[q].stage \in Kept \/ ReportedInVain(q)'
        BY <1>1, <1>3, <2>2 DEF ReportedInVain, Is, Kept
  <2>4. QED BY <1>1, <1>3, <2>2, <2>3, SameShares DEF Waiting, Kept
<1>4. ASSUME NEW s \in Kept, Goto(p, s), UNCHANGED <<setting, shares>>, shares[p] = Keygens,
             complete' \in {complete, complete \cup {p}},
             s = "vault" => Tolerant(p) \/ Peers(p) \subseteq complete
      PROVE  WInv'
  <2>1. device' = [device EXCEPT ![p] = [device[p] EXCEPT !.stage = s]] BY <1>4 DEF Goto
  <2>2. \A q \in Party : /\ device'[q].committee = device[q].committee
                         /\ q # p => device'[q].stage = device[q].stage
                         /\ q # p => device'[q].why = device[q].why
                         /\ device'[p].stage = s
        BY <1>1, <2>1 DEF Device
  <2>3. s \notin Waiting BY DEF Waiting, Kept
  <2>4. \A q \in Party : q \in complete' => device'[q].stage \in Kept \/ ReportedInVain(q)'
        BY <1>1, <1>4, <2>2 DEF ReportedInVain, Is
  <2>5. QED BY <1>1, <1>4, <2>2, <2>3, <2>4, SameShares
<1>5. CASE KeygenFails(p) \/ CancelLate(p)
  <2>1. p \in complete => device[p].stage # "keygen"
        BY <1>1 DEF ReportedInVain, Is, Kept
  <2>2. QED BY <1>3, <1>5, <2>1 DEF KeygenFails, CancelLate, createVars, Is, LateReasons
<1>6. CASE SetComplete(p)
      BY <1>4, <1>6 DEF SetComplete, Kept
<1>7. CASE SetCompleteFails(p)
      BY <1>3, <1>7 DEF SetCompleteFails, OrApplied, LateReasons
<1>8. CASE Confirmed(p) \/ ConfirmTimesOut(p)
  <2>1. shares[p] = Keygens BY <1>1, <1>8 DEF Confirmed, ConfirmTimesOut, Is, Kept
  <2>2. QED BY <1>3, <1>4, <1>8, <2>1 DEF Confirmed, ConfirmTimesOut, createVars, Kept, LateReasons
<1>9. QED BY <1>2, <1>5, <1>6, <1>7, <1>8 DEF CreateStep

LEMMA WInvNext == WInv /\ [Next]_vars => WInv'
<1> SUFFICES ASSUME WInv, [Next]_vars PROVE WInv' OBVIOUS
<1>1. CInv' BY CInvNext DEF WInv
<1>2. CASE Next
  <2>1. PICK p \in Party :
            SessionMoves(p) \/ SessionBegins(p) \/ SignMoves(p) \/ SignPosts(p) \/ CreateMoves(p)
        BY <1>2 DEF Next
  <2>2. QED BY <1>1, <2>1, SessionKeepsShares, SignKeepsShares, CreateKeepsShares
        DEF SessionMoves, SessionBegins, SignMoves, SignPosts, CreateMoves
<1>3. CASE UNCHANGED vars
      BY <1>1, <1>3, OtherStep DEF vars, sessionVars, createVars
<1>4. QED BY <1>2, <1>3

(* WholeVaults. When createVault stores a vault, every signer holds its    *)
(* shares, or had reported its keygen complete and threw after that; when  *)
(* a joiner stores it without the others' reports, every signer had got to *)
(* the last keygen.                                                        *)
THEOREM WholeVaults == Spec => []VaultIsWhole
<1>1. Spec => []WInv BY WInvInit, WInvNext, PTL DEF Spec
<1>2. QED BY <1>1, WInvWhole, PTL
-----------------------------------------------------------------------------
(* Without failures everybody gets its vault *)

(* In the session of a new vault nobody signs, and whoever has not failed   *)
(* has no reason to; and as long as nothing failed but requests to start,   *)
(* nobody has used up its attempts, and a first failure is that of a wait   *)
(* for the wrong number of devices.                                         *)
EndInv ==
    kind # "sign" =>
        \A p \in Party :
            /\ device[p].stage \notin {"await", "setup", "sign", "signed"}
            /\ device[p].stage # "failed" => device[p].why = "none"
            /\ device[p].why # "timeout"
            /\ faults = 0 => /\ p \in joined => device[p].stage # "idle"
                             /\ device[p].tries < MaxTries
                             /\ device[p].stage = "failed" => Crowded

LEMMA EndInvDone == CInv /\ EndInv => EverybodyGetsVault
BY DEF CInv, SessionTypeOK, EndInv, EverybodyGetsVault, Over, Ended, Is

LEMMA EndInvInit == Init => EndInv
BY RelaySessionAssumption DEF Init, SessionInit, EndInv, kind

(* What p may become when it moves; it has not failed yet. *)
Moved(p, d) ==
    kind # "sign" =>
        /\ d.stage \notin {"idle", "await", "setup", "sign", "signed"}
        /\ d.stage # "failed" => d.why = "none"
        /\ d.why # "timeout"
        /\ faults' = 0 => /\ d.tries < MaxTries
                          /\ d.stage = "failed" => Crowded \/ d.why \in {"devices", "crowd"}

LEMMA MoveKeepsEnd ==
    ASSUME CInv, EndInv, NEW p \in Party, device[p].stage # "failed",
           setting' = setting, joined' \in {joined, joined \cup {p}}, faults' = 0 => faults = 0,
           NEW d, device' = [device EXCEPT ![p] = d], Moved(p, d)
    PROVE  EndInv'
<1> SUFFICES ASSUME kind # "sign"
             PROVE  \A q \in Party :
                       /\ device'[q].stage \notin {"await", "setup", "sign", "signed"}
                       /\ device'[q].stage # "failed" => device'[q].why = "none"
                       /\ device'[q].why # "timeout"
                       /\ faults' = 0 => /\ q \in joined' => device'[q].stage # "idle"
                                         /\ device'[q].tries < MaxTries
                                         /\ device'[q].stage = "failed" => Crowded'
    BY DEF EndInv, kind
<1>1. device'[p] = d /\ \A q \in Party \ {p} : device'[q] = device[q]
      BY DEF CInv, SessionTypeOK
<1>2. Crowded => Crowded'
      BY <1>1 DEF Crowded, EndInv
<1>3. TAKE q \in Party
<1>4. CASE q = p
  <2>1. d.why \in {"devices", "crowd"} => Crowded' BY <1>1 DEF Crowded
  <2>2. QED BY <1>1, <1>2, <1>4, <2>1 DEF Moved
<1>5. CASE q # p
  <2>1. device'[q] = device[q] /\ (q \in joined' => q \in joined) BY <1>1, <1>5
  <2>2. QED BY <1>2, <2>1 DEF EndInv
<1>6. QED BY <1>4, <1>5

(* A failure is counted. *)
LEMMA FailsCounted == ASSUME SessionTypeOK, NEW f, Fails(f) PROVE faults' # 0
BY RelaySessionAssumption DEF SessionTypeOK, Fails

LEMMA ThrowsKeepsEnd ==
    ASSUME CInv, EndInv, NEW p \in Party, device[p].stage # "failed",
           setting' = setting, joined' \in {joined, joined \cup {p}}, faults' = 0 => faults = 0,
           NEW why, Throws(p, why), kind # "sign" => why # "timeout",
           kind # "sign" /\ faults' = 0 => Crowded \/ why \in {"devices", "crowd"}
    PROVE  EndInv'
<1> DEFINE d == [device[p] EXCEPT !.stage = "failed", !.why = why]
<1>1. d.stage = "failed" /\ d.why = why /\ d.tries = device[p].tries
      BY DEF CInv, SessionTypeOK, Device
<1>2. device' = [device EXCEPT ![p] = d] BY DEF Throws
<1>3. Moved(p, d) BY <1>1 DEF Moved, EndInv
<1> HIDE DEF d
<1>4. QED BY <1>2, <1>3, MoveKeepsEnd

LEMMA GotoKeepsEnd ==
    ASSUME CInv, EndInv, NEW p \in Party, device[p].stage # "failed",
           setting' = setting, joined' \in {joined, joined \cup {p}}, faults' = 0 => faults = 0,
           NEW s, Goto(p, s),
           kind # "sign" => s \notin {"idle", "await", "setup", "sign", "signed", "failed"}
    PROVE  EndInv'
<1> DEFINE d == [device[p] EXCEPT !.stage = s]
<1>1. d.stage = s /\ d.why = device[p].why /\ d.tries = device[p].tries
      BY DEF CInv, SessionTypeOK, Device
<1>2. device' = [device EXCEPT ![p] = d] BY DEF Goto
<1>3. Moved(p, d) BY <1>1 DEF Moved, EndInv
<1> HIDE DEF d
<1>4. QED BY <1>2, <1>3, MoveKeepsEnd

LEMMA ProceedsKeepsEnd ==
    ASSUME CInv, EndInv, NEW p \in Party, device[p].stage # "failed",
           UNCHANGED <<setting, joined, faults>>, Proceeds(p)
    PROVE  EndInv'
<1> DEFINE s == IF kind = "sign" THEN "setup" ELSE "keygen"
           d == [device[p] EXCEPT !.stage = s, !.ready = TRUE]
<1>1. d.stage = s /\ d.why = device[p].why /\ d.tries = device[p].tries
      BY DEF CInv, SessionTypeOK, Device
<1>2. device' = [device EXCEPT ![p] = d] BY DEF Proceeds
<1>3. Moved(p, d) BY <1>1 DEF Moved, EndInv
<1> HIDE DEF d, s
<1>4. QED BY <1>2, <1>3, MoveKeepsEnd

LEMMA SessionKeepsEnd ==
    ASSUME CInv, EndInv, NEW p \in Party, SessionStep(p) \/ SessionEvent(p)
    PROVE  EndInv'
<1>1. /\ device[p] \in Device /\ SessionTypeOK /\ faults \in Nat /\ MaxTries \in Nat \ {0}
      /\ device[p].tries \in Nat
      BY RelaySessionAssumption DEF CInv, SessionTypeOK, Device
<1>2. CASE Join(p) \/ JoinFails(p)
  <2>1. CASE Join(p)
    <3>1. PICK s \in {"await", "gather"} : Goto(p, s) /\ (kind # "sign" => s = "gather")
          BY <2>1 DEF Join
    <3>2. QED BY <2>1, <3>1, GotoKeepsEnd DEF Join, Is
  <2>2. CASE JoinFails(p)
        BY <1>1, <2>2, FailsCounted, ThrowsKeepsEnd DEF JoinFails, OrApplied, Is
  <2>3. QED BY <1>2, <2>1, <2>2
<1>3. CASE Gather(p)
  <2> DEFINE starts == kind # "import" \/ p = Initiator
             s == IF starts THEN "start" ELSE "keygen"
             d == [device[p] EXCEPT !.stage = s, !.committee = joined, !.ready = ~ starts]
  <2>1. d.stage = s /\ d.why = device[p].why /\ d.tries = device[p].tries BY <1>1 DEF Device
  <2>2. device' = [device EXCEPT ![p] = d] /\ UNCHANGED <<setting, joined, faults>>
        BY <1>3 DEF Gather
  <2>3. device[p].stage = "gather" BY <1>3 DEF Gather, Is
  <2>4. Moved(p, d) BY <2>1, <2>2, <2>3 DEF Moved, EndInv
  <2> HIDE DEF d
  <2>5. QED BY <2>2, <2>3, <2>4, MoveKeepsEnd
<1>4. CASE GatherFindsMore(p) \/ GatherTimesOut(p)
      BY <1>1, <1>4, FailsCounted, ThrowsKeepsEnd DEF GatherFindsMore, GatherTimesOut, Is
<1>5. CASE Start(p) \/ CheckFindsStart(p)
      BY <1>5, ProceedsKeepsEnd DEF Start, CheckFindsStart, Is
<1>6. CASE StartFails(p) \/ Cancel(p) \/ Crash(p)
      BY <1>1, <1>6, FailsCounted, ThrowsKeepsEnd DEF StartFails, Cancel, Crash, Ended, Is
<1>7. CASE StartRetries(p)
  <2> DEFINE n == device[p].tries + 1
             d == [device[p] EXCEPT !.stage = "check", !.tries = n]
  <2>1. d.stage = "check" /\ d.why = device[p].why /\ d.tries = n BY <1>1 DEF Device
  <2>2. device' = [device EXCEPT ![p] = d] /\ UNCHANGED <<setting, joined>> /\ device[p].stage = "start"
        BY <1>7 DEF StartRetries, Is
  <2>3. faults' # 0 \/ n < MaxTries
        BY <1>1, <1>7, FailsCounted DEF StartRetries
  <2>4. faults' = 0 => faults = 0 BY <1>1, <1>7, FailsCounted DEF StartRetries
  <2>5. Moved(p, d) BY <2>1, <2>2, <2>3 DEF Moved, EndInv
  <2> HIDE DEF d
  <2>6. QED BY <2>2, <2>4, <2>5, MoveKeepsEnd
<1>8. CASE CheckFindsNothing(p)
  <2>1. /\ UNCHANGED <<setting, joined>> /\ device[p].stage = "check"
        /\ (faults' = 0 => faults = 0)
        BY <1>1, <1>8, FailsCounted DEF CheckFindsNothing, Is
  <2>2. CASE device[p].tries < MaxTries
    <3>1. Goto(p, "start") BY <1>8, <2>2 DEF CheckFindsNothing, Goto
    <3>2. QED BY <2>1, <3>1, GotoKeepsEnd
  <2>3. CASE ~ (device[p].tries < MaxTries) /\ kind # "sign"
    <3>1. faults' # 0 BY <2>1, <2>3 DEF EndInv
    <3>2. CASE device[p].tries = MaxTries
      <4> DEFINE n == device[p].tries + 1
                 d == [device[p] EXCEPT !.tries = n]
      <4>1. d.stage = "check" /\ d.why = device[p].why BY <1>1, <2>1 DEF Device
      <4>2. device' = [device EXCEPT ![p] = d] BY <1>1, <1>8, <3>2 DEF CheckFindsNothing
      <4>3. Moved(p, d) BY <2>1, <3>1, <4>1 DEF Moved, EndInv
      <4> HIDE DEF d
      <4>4. QED BY <2>1, <4>2, <4>3, MoveKeepsEnd
    <3>3. CASE device[p].tries # MaxTries
      <4>1. Throws(p, "start") BY <1>8, <2>3, <3>3 DEF CheckFindsNothing, Throws
      <4>2. QED BY <2>1, <3>1, <4>1, ThrowsKeepsEnd
    <3>4. QED BY <3>2, <3>3
  <2>4. CASE kind = "sign" BY <2>1, <2>4 DEF EndInv, kind
  <2>5. QED BY <2>2, <2>3, <2>4
<1>9. CASE AwaitStart(p) \/ AwaitTimesOut(p)
  <2>1. kind = "sign" /\ setting' = setting
        BY <1>9 DEF CInv, StageInv, AwaitStart, AwaitTimesOut
  <2>2. QED BY <2>1 DEF EndInv, kind
<1>10. QED BY <1>2, <1>3, <1>4, <1>5, <1>6, <1>7, <1>8, <1>9 DEF SessionStep, SessionEvent

LEMMA CreateKeepsEnd ==
    ASSUME CInv, EndInv, NEW p \in Party, CreateStep(p)
    PROVE  EndInv'
<1>1. SessionTypeOK BY DEF CInv
<1>2. /\ UNCHANGED <<setting, joined>> /\ device[p].stage \in {"keygen", "confirm"}
      /\ (faults' = 0 => faults = 0)
      BY <1>1, FailsCounted
      DEF CreateStep, Share, KeygenFails, CancelLate, SetComplete, SetCompleteFails, Confirmed,
          ConfirmTimesOut, Is, sessionVars
(* A peer that failed has failed for a reason that counts. *)
<1>3. ASSUME kind # "sign", faults = 0, NEW q \in Peers(p), device[q].stage = "failed"
      PROVE  Crowded
  <2>1. q \in Party BY DEF CInv, SessionTypeOK, Device, Peers
  <2>2. QED BY <1>3, <2>1 DEF EndInv
<1>4. CASE Share(p) BY <1>4 DEF Share, sessionVars, EndInv, kind, Crowded
<1>5. CASE KeygenFails(p) \/ CancelLate(p)
      BY <1>1, <1>2, <1>3, <1>5, FailsCounted, ThrowsKeepsEnd DEF KeygenFails, CancelLate, Is
<1>6. CASE SetComplete(p) \/ Confirmed(p)
      BY <1>2, <1>6, GotoKeepsEnd DEF SetComplete, Confirmed
<1>7. CASE SetCompleteFails(p)
      BY <1>1, <1>2, <1>7, FailsCounted, ThrowsKeepsEnd DEF SetCompleteFails
<1>8. CASE ConfirmTimesOut(p)
  <2>1. faults' # 0 \/ \E q \in Peers(p) : device[q].stage = "failed"
        BY <1>1, <1>8, FailsCounted DEF ConfirmTimesOut, Is
  <2>2. CASE Goto(p, "vault") BY <1>2, <2>2, GotoKeepsEnd
  <2>3. CASE Throws(p, "complete") BY <1>2, <1>3, <2>1, <2>3, ThrowsKeepsEnd
  <2>4. QED BY <1>8, <2>2, <2>3 DEF ConfirmTimesOut
<1>9. QED BY <1>4, <1>5, <1>6, <1>7, <1>8 DEF CreateStep

LEMMA EndInvNext == CInv /\ EndInv /\ [Next]_vars => EndInv'
<1> SUFFICES ASSUME CInv, EndInv, [Next]_vars PROVE EndInv' OBVIOUS
<1>1. ASSUME NEW p \in Party, SignMoves(p) \/ SignPosts(p) PROVE EndInv'
  <2>1. setting' = setting /\ device[p].stage \in {"setup", "sign"}
        BY <1>1
        DEF SignMoves, SignPosts, InboundStep, OutboundStep, Upload, UploadFails, SetupArrives,
            SetupTimesOut, Fetch, FetchFails, Feed, Timer, InboundTimesOut, Return, CancelSigned,
            ReturnError, Output, OutboundStops, Post, PostFails, BothOver, Inbound, Outbound, Is, sessionVars
  <2>2. kind' = "sign" BY <2>1 DEF EndInv, kind
  <2>3. QED BY <2>2 DEF EndInv
<1>2. CASE Next
  <2>1. PICK p \in Party :
            SessionMoves(p) \/ SessionBegins(p) \/ SignMoves(p) \/ SignPosts(p) \/ CreateMoves(p)
        BY <1>2 DEF Next
  <2>2. QED BY <1>1, <2>1, SessionKeepsEnd, CreateKeepsEnd
        DEF SessionMoves, SessionBegins, CreateMoves
<1>3. CASE UNCHANGED vars
      BY <1>3 DEF vars, sessionVars, EndInv, kind, Crowded
<1>4. QED BY <1>2, <1>3

(* VaultsForAll. When a session of any number of devices is over and nothing *)
(* failed but requests to start it, every device that joined has the vault   *)
(* (createVault, joinKeygen), or one met the wrong number of devices.        *)
THEOREM VaultsForAll == Spec => []EverybodyGetsVault
<1>1. Spec => [](CInv /\ EndInv)
      BY CInvInit, CInvNext, EndInvInit, EndInvNext, PTL DEF Spec
<1>2. QED BY <1>1, EndInvDone, PTL
=============================================================================
