------------------------ MODULE RelaySigningProofs -------------------------
(***************************************************************************)
(* Signing over the relay, for any number of devices, messages and rounds: *)
(* the calls of keysign stay in step whatever fails; and if nothing fails, *)
(* only the abort signal of a device that has its signature can strand     *)
(* another, and somebody signs.                                            *)
(***************************************************************************)
EXTENDS RelayCeremonyProofs

Fresh == {"idle", "gather", "start", "check", "await"}
Signing == {"setup", "sign", "signed"}

(* The initiator alone starts a signing, once; its committee is that of    *)
(* everybody who signs, and nobody has a call before.                      *)
StartInv ==
    \A p \in Party :
        /\ device[p].stage \in Signing =>
               kind = "sign" /\ started # {} /\ device[p].committee = started
        /\ kind = "sign" /\ device[p].stage \in {"gather", "start"} => p = Initiator
        /\ device[p].stage = "check" => kind # "sign"
        /\ kind = "sign" /\ p = Initiator /\ device[p].stage \in Early => started = {}
        /\ device[p].stage \in {"start", "check"} => device[p].committee # {}
        /\ device[p].stage \in Fresh => loops[p] = Call(1)
        /\ device[p].stage = "setup" => loops[p] = Call(loops[p].step)
        /\ loops[p].step > 1 => kind = "sign" /\ started # {}

(* A message was sent in a call that its sender has come to; a finished    *)
(* session took one of every peer; so no two calls are two steps apart.    *)
StepInv ==
    /\ \A m \in relay : loops[m.from].step >= m.of
    /\ \A p \in Party : /\ loops[p].inb = "done" => Finished(p, loops[p].got)
                        /\ loops[p].due # {} => loops[p].sent > 0
    /\ \A p, q \in started :
           /\ loops[q].step >= loops[p].step - 1
           /\ Is(p, "signed") => loops[q].step >= Messages

LInv == CInv /\ SignTypeOK /\ StartInv /\ StepInv

LEMMA SettingTypes ==
    CInv => /\ Messages \in Nat \ {0} /\ Rounds \in Nat \ {0}
            /\ device \in [Party -> Device] /\ started \subseteq Party /\ joined \subseteq Party
BY RelaySessionAssumption DEF CInv, SessionTypeOK, Messages, Rounds

LEMMA LInvLockStep == LInv => LockStep
<1> SUFFICES ASSUME LInv, NEW p \in started, NEW n \in 1 .. Messages, Signed(p, n),
                    NEW q \in started
             PROVE  loops[q].step >= n
    BY DEF LockStep
<1>1. p \in Party /\ q \in Party /\ Messages \in Nat BY SettingTypes DEF LInv
<1>2. loops[p].step \in Nat /\ loops[q].step \in Nat BY <1>1 DEF LInv, SignTypeOK, Loops
<1>3. CASE Is(p, "signed")
  <2>1. loops[q].step >= Messages BY <1>3 DEF LInv, StepInv
  <2>2. QED BY <1>1, <1>2, <2>1
<1>4. CASE loops[p].step > n
  <2>1. loops[q].step >= loops[p].step - 1 BY DEF LInv, StepInv
  <2>2. QED BY <1>2, <1>4, <2>1
<1>5. QED BY <1>3, <1>4 DEF Signed

LEMMA LInvInit == Init => LInv
<1> SUFFICES ASSUME Init PROVE LInv OBVIOUS
<1>1. CInv BY CInvInit
<1>2. /\ Messages \in Nat \ {0} /\ Rounds \in Nat \ {0}
      /\ started = {} /\ relay = {} /\ setups = {}
      /\ loops = [p \in Party |-> Call(1)]
      /\ \A p \in Party : device[p].stage = "idle"
      BY <1>1, SettingTypes DEF Init, SessionInit, SignInit
<1>3. Call(1) \in Loops BY <1>2 DEF Call, Loops
<1>4. SignTypeOK
      BY <1>2, <1>3 DEF SignTypeOK, Call
<1>5. StartInv BY <1>2 DEF StartInv, Signing, Fresh, Early, Call
<1>6. StepInv BY <1>2 DEF StepInv, Call
<1>7. QED BY <1>1, <1>4, <1>5, <1>6 DEF LInv

-----------------------------------------------------------------------------
(* The session: a device p changes, the calls and the relay stay. *)

(* What p may become, next to started'. *)
Allowed(p, d) ==
    /\ d.stage \in Signing =>
           kind = "sign" /\ started' # {} /\ d.committee = started' /\ d.stage = "setup"
           /\ device[p].stage \in Fresh
    /\ kind = "sign" /\ d.stage \in {"gather", "start"} => p = Initiator
    /\ d.stage = "check" => kind # "sign"
    /\ kind = "sign" /\ p = Initiator /\ d.stage \in Early => started' = {}
    /\ d.stage \in {"start", "check"} => d.committee # {}
    /\ d.stage \in Fresh => device[p].stage \in Fresh
    /\ device[p].stage \in Fresh \/ d.committee = device[p].committee

LEMMA SessionChanges ==
    ASSUME LInv, CInv', NEW p \in Party, UNCHANGED <<setting, signVars>>,
           \/ started' = started
           \/ device[p].stage \in {"start", "check"} /\ started' = device[p].committee,
           NEW d, device' = [device EXCEPT ![p] = d], Allowed(p, d)
    PROVE  LInv'
<1>1. /\ device \in [Party -> Device] /\ started \subseteq Party
      /\ kind' = kind /\ Messages' = Messages /\ Rounds' = Rounds
      /\ UNCHANGED <<loops, relay, setups>>
      BY SettingTypes DEF LInv, kind, Messages, Rounds, signVars
<1>2. device'[p] = d /\ \A q \in Party \ {p} : device'[q] = device[q] BY <1>1
(* A session that starts was not started, if it is a signing. *)
<1>3. started' # started /\ kind = "sign" => started = {} /\ p = Initiator /\ started' # {}
      BY <1>1 DEF LInv, StartInv, Early
<1>4. StartInv'
  <2> SUFFICES ASSUME NEW q \in Party
               PROVE  /\ device'[q].stage \in Signing =>
                             kind = "sign" /\ started' # {} /\ device'[q].committee = started'
                      /\ kind = "sign" /\ device'[q].stage \in {"gather", "start"} => q = Initiator
                      /\ device'[q].stage = "check" => kind # "sign"
                      /\ kind = "sign" /\ q = Initiator /\ device'[q].stage \in Early => started' = {}
                      /\ device'[q].stage \in {"start", "check"} => device'[q].committee # {}
                      /\ device'[q].stage \in Fresh => loops[q] = Call(1)
                      /\ device'[q].stage = "setup" => loops[q] = Call(loops[q].step)
                      /\ loops[q].step > 1 => kind = "sign" /\ started' # {}
      BY <1>1 DEF StartInv, Call
  <2>1. loops[q].step > 1 => kind = "sign" /\ started' # {} BY <1>3 DEF LInv, StartInv
  <2>2. CASE q # p
        BY <1>2, <1>3, <2>1, <2>2 DEF LInv, StartInv
  <2>3. CASE q = p
    <3>1. device[q].stage \in Fresh => loops[q] = Call(1) BY DEF LInv, StartInv
    <3>2. Call(1).step = 1 BY DEF Call
    <3>3. device[q].stage \in Fresh => loops[q] = Call(loops[q].step) BY <3>1, <3>2
    <3>4. QED BY <1>2, <2>1, <2>3, <3>1, <3>3 DEF Allowed, Signing
  <2>4. QED BY <2>2, <2>3
<1>5. ASSUME NEW q \in Party PROVE Peers(q)' = Peers(q) \/ loops[q] = Call(1)
  <2>1. CASE q # p
    <3>1. device'[q] = device[q] BY <1>2, <2>1
    <3>2. QED BY <3>1 DEF Peers
  <2>2. CASE q = p
    <3>1. CASE device[p].stage \in Fresh BY <2>2, <3>1 DEF LInv, StartInv
    <3>2. CASE d.committee = device[p].committee BY <1>2, <2>2, <3>2 DEF Peers
    <3>3. QED BY <3>1, <3>2 DEF Allowed
  <2>3. QED BY <2>1, <2>2
<1>6. SignTypeOK'
  <2>1. Loops' = Loops /\ RelayMessage' = RelayMessage /\ (1 .. Messages)' = 1 .. Messages
        BY <1>1 DEF Loops, RelayMessage
  <2>2. \A q \in Party : (Inbox(q) = Inbox(q)') BY <1>1 DEF Inbox, Current, MessageAt
  <2>3. \A q \in Party : loops'[q].batch \cup loops'[q].got \subseteq Inbox(q)'
        BY <1>1, <2>2 DEF LInv, SignTypeOK
  <2>4. \A q \in Party : loops'[q].due \subseteq Peers(q)'
        BY <1>1, <1>5 DEF LInv, SignTypeOK, Call
  <2>5. QED BY <1>1, <2>1, <2>3, <2>4 DEF LInv, SignTypeOK
<1>7. StepInv'
  <2>1. \A q \in Party : loops[q].inb = "done" => Finished(q, loops[q].got)'
        BY <1>1, <1>5 DEF LInv, StepInv, Finished, HasRound, Call
  <2>2. ASSUME NEW q \in started', NEW r \in started'
        PROVE  loops[r].step >= loops[q].step - 1
    <3>1. CASE started' = started BY <3>1 DEF LInv, StepInv
    <3>2. CASE started' # started
      <4>1. q \in Party /\ r \in Party BY <1>1, <3>2 DEF Device
      <4>2. ~ (loops[q].step > 1) /\ ~ (loops[r].step > 1)
            BY <1>3, <3>2, <4>1 DEF LInv, StartInv
      <4>3. loops[q].step \in Nat \ {0} /\ loops[r].step \in Nat \ {0}
            BY <4>1, SettingTypes DEF LInv, SignTypeOK, Loops
      <4>4. QED BY <4>2, <4>3
    <3>3. QED BY <3>1, <3>2
  <2>3. ASSUME NEW q \in started', NEW r \in started', device'[q].stage = "signed"
        PROVE  loops[r].step >= Messages
    <3>1. q \in Party BY <1>1, <1>4 DEF Device
    <3>2. q # p BY <1>2, <2>3 DEF Allowed, Signing
    <3>3. device[q].stage = "signed" BY <1>2, <2>3, <3>1, <3>2
    <3>4. started' = started BY <1>3, <3>1, <3>3 DEF LInv, StartInv, Signing
    <3>5. QED BY <3>3, <3>4 DEF LInv, StepInv, Is
  <2>4. \A m \in relay : loops[m.from].step >= m.of BY DEF LInv, StepInv
  <2>5. \A q \in Party : loops[q].due # {} => loops[q].sent > 0 BY DEF LInv, StepInv
  <2>6. QED BY <1>1, <2>1, <2>2, <2>3, <2>4, <2>5 DEF StepInv, Is
<1>8. QED BY <1>4, <1>6, <1>7 DEF LInv

LEMMA ThrowsInStep ==
    ASSUME LInv, CInv', NEW p \in Party, UNCHANGED <<setting, signVars>>,
           \/ started' = started
           \/ device[p].stage \in {"start", "check"} /\ started' = device[p].committee,
           NEW why, Throws(p, why)
    PROVE  LInv'
<1>1. device[p] \in Device BY DEF LInv, CInv, SessionTypeOK
<1> DEFINE d == [device[p] EXCEPT !.stage = "failed", !.why = why]
<1>2. d.stage = "failed" /\ d.committee = device[p].committee BY <1>1 DEF Device
<1>3. device' = [device EXCEPT ![p] = d] BY DEF Throws
<1>4. Allowed(p, d) BY <1>2 DEF Allowed, Signing, Early, Fresh
<1> HIDE DEF d
<1>5. QED BY <1>3, <1>4, SessionChanges

LEMMA ProceedsInStep ==
    ASSUME LInv, CInv', NEW p \in Party, UNCHANGED <<setting, signVars>>,
           device[p].stage \in {"start", "check"}, started' = device[p].committee,
           device[p].stage = "check" => started' = started, Proceeds(p)
    PROVE  LInv'
<1>1. device[p] \in Device BY DEF LInv, CInv, SessionTypeOK
<1> DEFINE s == IF kind = "sign" THEN "setup" ELSE "keygen"
           d == [device[p] EXCEPT !.stage = s, !.ready = TRUE]
<1>2. d.stage = s /\ d.committee = device[p].committee BY <1>1 DEF Device
<1>3. device' = [device EXCEPT ![p] = d] BY DEF Proceeds
<1>4. Allowed(p, d) BY <1>2 DEF Allowed, Signing, Early, Fresh, LInv, StartInv
<1> HIDE DEF d
<1>5. QED BY <1>3, <1>4, SessionChanges

LEMMA SessionInStep ==
    ASSUME LInv, CInv', NEW p \in Party, UNCHANGED signVars, SessionStep(p) \/ SessionEvent(p)
    PROVE  LInv'
<1>1. /\ device[p] \in Device /\ device \in [Party -> Device] /\ joined \subseteq Party
      /\ Required \in Nat \ {0, 1}
      BY RelaySessionAssumption DEF LInv, CInv, SessionTypeOK, Required
<1>2. CASE Join(p)
  <2> DEFINE s == IF kind = "sign" /\ p # Initiator THEN "await" ELSE "gather"
             d == [device[p] EXCEPT !.stage = s]
  <2>1. d.stage = s /\ d.committee = device[p].committee BY <1>1 DEF Device
  <2>2. device' = [device EXCEPT ![p] = d] BY <1>2 DEF Join, Goto
  <2>3. started' = started /\ setting' = setting BY <1>2 DEF Join
  <2>4. Allowed(p, d)
        BY <1>2, <2>1, <2>3 DEF Join, Is, Allowed, Signing, Early, Fresh, LInv, StartInv
  <2> HIDE DEF d
  <2>5. QED BY <2>2, <2>3, <2>4, SessionChanges
<1>3. CASE Gather(p)
  <2> DEFINE starts == kind # "import" \/ p = Initiator
             s == IF starts THEN "start" ELSE "keygen"
             d == [device[p] EXCEPT !.stage = s, !.committee = joined, !.ready = ~ starts]
  <2>1. d.stage = s /\ d.committee = joined BY <1>1 DEF Device
  <2>2. device' = [device EXCEPT ![p] = d] BY <1>3 DEF Gather
  <2>3. started' = started /\ setting' = setting BY <1>3 DEF Gather
  <2>4. joined # {}
    <3>1. Cardinality(joined) >= Required BY <1>1, <1>3 DEF Gather, Gathered
    <3>2. QED BY <1>1, <3>1, FS_EmptySet
  <2>5. Allowed(p, d)
        BY <1>3, <2>1, <2>3, <2>4 DEF Gather, Is, Allowed, Signing, Early, Fresh, LInv, StartInv
  <2> HIDE DEF d
  <2>6. QED BY <2>2, <2>3, <2>5, SessionChanges
<1>4. CASE Start(p) BY <1>4, ProceedsInStep DEF Start, Is
<1>5. CASE CheckFindsStart(p) BY <1>5, ProceedsInStep DEF CheckFindsStart, Is
<1>6. CASE StartRetries(p)
  <2> DEFINE n == device[p].tries + 1
             d == [device[p] EXCEPT !.stage = "check", !.tries = n]
  <2>1. d.stage = "check" /\ d.committee = device[p].committee BY <1>1 DEF Device
  <2>2. device' = [device EXCEPT ![p] = d] BY <1>6 DEF StartRetries
  <2>3. /\ setting' = setting /\ kind # "sign" /\ device[p].stage = "start"
        /\ started' = started \/ started' = device[p].committee
        BY <1>6 DEF StartRetries, OrApplied, Is
  <2>4. Allowed(p, d) BY <2>1, <2>3 DEF Allowed, Signing, Early, Fresh, LInv, StartInv
  <2> HIDE DEF d
  <2>5. QED BY <2>2, <2>3, <2>4, SessionChanges
<1>7. CASE CheckFindsNothing(p)
  <2>1. kind # "sign" /\ device[p].stage = "check" /\ UNCHANGED <<setting, started>>
        BY <1>7 DEF CheckFindsNothing, Is, LInv, StartInv
  <2>2. CASE Throws(p, "start") BY <2>1, <2>2, ThrowsInStep
  <2>3. CASE device[p].tries < MaxTries
    <3> DEFINE d == [device[p] EXCEPT !.stage = "start"]
    <3>1. d.stage = "start" /\ d.committee = device[p].committee BY <1>1 DEF Device
    <3>2. device' = [device EXCEPT ![p] = d] BY <1>7, <2>3 DEF CheckFindsNothing
    <3>3. Allowed(p, d) BY <2>1, <3>1 DEF Allowed, Signing, Early, Fresh, LInv, StartInv
    <3> HIDE DEF d
    <3>4. QED BY <2>1, <3>2, <3>3, SessionChanges
  <2>4. CASE device[p].tries = MaxTries
    <3> DEFINE n == device[p].tries + 1
               d == [device[p] EXCEPT !.tries = n]
    <3>1. d.stage = "check" /\ d.committee = device[p].committee BY <1>1, <2>1 DEF Device
    <3>2. device' = [device EXCEPT ![p] = d]
          BY <1>7, <2>4, RelaySessionAssumption DEF CheckFindsNothing
    <3>3. Allowed(p, d) BY <2>1, <3>1 DEF Allowed, Signing, Early, Fresh, LInv, StartInv
    <3> HIDE DEF d
    <3>4. QED BY <2>1, <3>2, <3>3, SessionChanges
  <2>5. CASE ~ (device[p].tries < MaxTries) /\ device[p].tries # MaxTries
    <3>1. Throws(p, "start") BY <1>7, <2>5 DEF CheckFindsNothing, Throws
    <3>2. QED BY <2>2, <3>1
  <2>6. QED BY <2>3, <2>4, <2>5
<1>8. CASE AwaitStart(p)
  <2> DEFINE d == [device[p] EXCEPT !.stage = "setup", !.committee = started, !.ready = TRUE]
  <2>1. d.stage = "setup" /\ d.committee = started BY <1>1 DEF Device
  <2>2. device' = [device EXCEPT ![p] = d] BY <1>8 DEF AwaitStart
  <2>3. /\ started' = started /\ setting' = setting /\ started # {} /\ device[p].stage = "await"
        BY <1>8 DEF AwaitStart, Is
  <2>4. kind = "sign" BY <2>3 DEF LInv, CInv, StageInv, Is
  <2>5. Allowed(p, d) BY <2>1, <2>3, <2>4 DEF Allowed, Signing, Early, Fresh
  <2> HIDE DEF d
  <2>6. QED BY <2>2, <2>3, <2>5, SessionChanges
<1>9. CASE JoinFails(p) \/ GatherFindsMore(p) \/ GatherTimesOut(p) \/ AwaitTimesOut(p) \/ Crash(p)
      BY <1>9, ThrowsInStep DEF JoinFails, GatherFindsMore, GatherTimesOut, AwaitTimesOut, Crash
<1>10. CASE StartFails(p)
      BY <1>10, ThrowsInStep DEF StartFails, OrApplied, Is
<1>11. CASE Cancel(p) BY <1>11, ThrowsInStep DEF Cancel, Is
<1>12. QED
      BY <1>2, <1>3, <1>4, <1>5, <1>6, <1>7, <1>8, <1>9, <1>10, <1>11
      DEF SessionStep, SessionEvent

LEMMA CreateInStep ==
    ASSUME LInv, CInv', NEW p \in Party, UNCHANGED signVars, CreateStep(p)
    PROVE  LInv'
<1>1. device[p] \in Device /\ device \in [Party -> Device] BY DEF LInv, CInv, SessionTypeOK
<1>2. UNCHANGED <<setting, started>>
      BY DEF CreateStep, Share, KeygenFails, CancelLate, SetComplete, SetCompleteFails,
             Confirmed, ConfirmTimesOut, sessionVars
<1>3. ASSUME NEW s \in {"confirm", "vault"}, Goto(p, s) PROVE LInv'
  <2> DEFINE d == [device[p] EXCEPT !.stage = s]
  <2>1. d.stage = s /\ d.committee = device[p].committee BY <1>1 DEF Device
  <2>2. device' = [device EXCEPT ![p] = d] BY <1>3 DEF Goto
  <2>3. Allowed(p, d) BY <2>1 DEF Allowed, Signing, Early, Fresh
  <2> HIDE DEF d
  <2>4. QED BY <1>2, <2>2, <2>3, SessionChanges
<1>4. CASE Share(p)
  <2>1. device' = [device EXCEPT ![p] = device[p]] BY <1>1, <1>4 DEF Share, sessionVars
  <2>2. Allowed(p, device[p])
        BY <1>2, <1>4 DEF Share, Is, Allowed, Signing, Early, Fresh
  <2>3. QED BY <1>2, <2>1, <2>2, SessionChanges
<1>5. QED
      BY <1>2, <1>3, <1>4, ThrowsInStep
      DEF CreateStep, KeygenFails, CancelLate, SetComplete, SetCompleteFails, Confirmed,
          ConfirmTimesOut

-----------------------------------------------------------------------------
(* The protocol: p goes on in its call, or to its next one. *)

(* What the call of p may become, next to relay' and to p's record d. *)
Continues(p, d, l) ==
    /\ d.committee = device[p].committee
    /\ d.stage \in Signing \cup {"failed"}
    /\ d.stage = "setup" => l = Call(l.step)
    /\ l.step = loops[p].step \/ l.step = loops[p].step + 1
    /\ \A m \in relay' \ relay : m.from = p /\ m.of = l.step
    /\ l.inb = "done" => Finished(p, l.got)
    /\ l.due # {} => l.sent > 0
    /\ l.batch \cup l.got \subseteq {m \in relay' : m.to = p /\ m.of = l.step}
    /\ l.due \subseteq Peers(p)
    /\ l.step # loops[p].step \/ d.stage = "signed" =>
           \A q \in started \ {p} : loops[q].step >= loops[p].step
    /\ d.stage = "signed" => l.step = Messages /\ l.step = loops[p].step

LEMMA ProtocolChanges ==
    ASSUME LInv, CInv', NEW p \in Party, device[p].stage \in Signing,
           UNCHANGED <<setting, joined, started>>,
           setups' \subseteq 1 .. Messages, relay \subseteq relay', relay' \subseteq RelayMessage,
           NEW d, device' = [device EXCEPT ![p] = d],
           NEW l \in Loops, loops' = [loops EXCEPT ![p] = l],
           device[p].stage # "signed", Continues(p, d, l)
    PROVE  LInv'
<1>1. /\ device \in [Party -> Device] /\ loops \in [Party -> Loops]
      /\ Messages \in Nat \ {0} /\ Rounds \in Nat \ {0}
      BY SettingTypes DEF LInv, SignTypeOK
<1>2. /\ kind' = kind /\ Messages' = Messages /\ Rounds' = Rounds
      /\ Loops' = Loops /\ RelayMessage' = RelayMessage
      BY DEF kind, Messages, Rounds, Loops, RelayMessage
<1>3. /\ device'[p] = d /\ \A q \in Party \ {p} : device'[q] = device[q]
      /\ loops'[p] = l /\ \A q \in Party \ {p} : loops'[q] = loops[q]
      BY <1>1
<1>4. \A q \in Party : device'[q].committee = device[q].committee BY <1>3 DEF Continues
<1>5. \A q \in Party : Peers(q)' = Peers(q) BY <1>4 DEF Peers
<1>6. kind = "sign" /\ started # {} /\ device[p].committee = started BY DEF LInv, StartInv
<1>7. \A q \in Party : loops[q].step \in 1 .. Messages /\ loops'[q].step >= loops[q].step
      BY <1>1, <1>3 DEF Continues, Loops
<1>8. StartInv'
  <2>1. ASSUME NEW q \in Party
        PROVE  /\ device'[q].stage \in Signing => device'[q].committee = started
               /\ device'[q].stage \in {"gather", "start"} => q = Initiator
               /\ device'[q].stage # "check"
               /\ q = Initiator /\ device'[q].stage \in Early => started = {}
               /\ device'[q].stage \in {"start", "check"} => device'[q].committee # {}
               /\ device'[q].stage \in Fresh => loops'[q] = Call(1)
               /\ device'[q].stage = "setup" => loops'[q] = Call(loops'[q].step)
    <3>1. CASE q = p
          BY <1>3, <1>6, <3>1 DEF Continues, Signing, Fresh, Early
    <3>2. CASE q # p BY <1>3, <1>6, <3>2 DEF LInv, StartInv
    <3>3. QED BY <3>1, <3>2
  <2>2. QED BY <1>2, <1>6, <2>1 DEF StartInv, Call
<1>9. SignTypeOK'
  <2>1. loops' \in [Party -> Loops] BY <1>1
  <2>2. ASSUME NEW q \in Party
        PROVE  /\ loops'[q].batch \cup loops'[q].got \subseteq {m \in relay' : m.to = q /\ m.of = loops'[q].step}
               /\ loops'[q].due \subseteq Peers(q)
        BY <1>3 DEF Continues, LInv, SignTypeOK, Inbox, Current, MessageAt
  <2>3. QED BY <1>2, <1>5, <2>1, <2>2 DEF SignTypeOK, Inbox, Current, MessageAt
<1>10. StepInv'
  <2>1. ASSUME NEW m \in relay' PROVE loops'[m.from].step >= m.of
    <3>1. m.from \in Party /\ m.of \in 1 .. Messages BY DEF RelayMessage
    <3>2. CASE m \in relay
      <4>1. loops[m.from].step >= m.of BY <3>2 DEF LInv, StepInv
      <4>2. /\ loops'[m.from].step >= loops[m.from].step
            /\ loops'[m.from].step \in Int /\ loops[m.from].step \in Int /\ m.of \in Int
            BY <1>1, <1>3, <1>7, <3>1 DEF Continues, Loops
      <4>3. QED BY <4>1, <4>2
    <3>3. CASE m \notin relay
      <4>1. m.from = p /\ m.of = l.step BY <3>3 DEF Continues
      <4>2. QED BY <1>1, <1>3, <3>1, <4>1
    <3>4. QED BY <3>2, <3>3
  <2>2. ASSUME NEW q \in Party, loops'[q].inb = "done" PROVE Finished(q, loops[q].got)'
    <3>1. Finished(q, loops'[q].got)
      <4>1. CASE q = p BY <1>3, <2>2, <4>1 DEF Continues
      <4>2. CASE q # p BY <1>3, <2>2, <4>2 DEF LInv, StepInv
      <4>3. QED BY <4>1, <4>2
    <3>2. QED BY <1>2, <1>5, <3>1 DEF Finished, HasRound
  <2>3. ASSUME NEW q \in started, NEW r \in started
        PROVE  loops'[r].step >= loops'[q].step - 1
    <3>1. q \in Party /\ r \in Party BY SettingTypes DEF LInv
    <3>2. /\ loops[q].step \in Nat /\ loops[r].step \in Nat
          /\ loops'[q].step \in Nat /\ loops'[r].step \in Nat /\ l.step \in Nat
          BY <1>1, <1>3, <3>1 DEF Loops
    <3>3. loops'[r].step >= loops[r].step /\ loops[r].step >= loops[q].step - 1
          BY <1>7, <3>1 DEF LInv, StepInv
    <3>4. CASE loops'[q].step = loops[q].step BY <3>2, <3>3, <3>4
    <3>5. CASE loops'[q].step # loops[q].step /\ r # q
      <4>1. q = p /\ l.step = loops[p].step + 1 /\ loops'[q].step = l.step
            BY <1>3, <3>1, <3>5 DEF Continues
      <4>2. loops[r].step >= loops[p].step BY <3>5, <4>1 DEF Continues
      <4>3. QED BY <3>2, <3>3, <4>1, <4>2
    <3>6. CASE r = q BY <3>2, <3>6
    <3>7. QED BY <3>4, <3>5, <3>6
  <2>4. ASSUME NEW q \in started, NEW r \in started, device'[q].stage = "signed"
        PROVE  loops'[r].step >= Messages
    <3>1. q \in Party /\ r \in Party BY SettingTypes DEF LInv
    <3>2. loops'[r].step \in Nat /\ loops[r].step \in Nat /\ loops'[r].step >= loops[r].step
          BY <1>1, <1>3, <1>7, <3>1 DEF Loops
    <3>3. CASE q # p
      <4>1. device[q].stage = "signed" BY <1>3, <2>4, <3>1, <3>3
      <4>2. loops[r].step >= Messages BY <4>1 DEF LInv, StepInv, Is
      <4>3. QED BY <1>1, <3>2, <4>2
    <3>4. CASE q = p
      <4>1. l.step = Messages /\ d.stage = "signed" BY <1>3, <2>4, <3>4 DEF Continues
      <4>2. CASE r = p BY <1>1, <1>3, <4>1, <4>2
      <4>3. CASE r # p
        <5>1. loops[r].step >= Messages BY <4>1, <4>3 DEF Continues
        <5>2. QED BY <1>1, <3>2, <5>1
      <4>4. QED BY <4>2, <4>3
    <3>5. QED BY <3>3, <3>4
  <2>5. \A q \in Party : loops'[q].due # {} => loops'[q].sent > 0
        BY <1>3 DEF Continues, LInv, StepInv
  <2>6. QED BY <1>2, <2>1, <2>2, <2>3, <2>4, <2>5 DEF StepInv, Is
<1>11. QED BY <1>8, <1>9, <1>10 DEF LInv

LEMMA CallType ==
    ASSUME CInv, NEW n \in 1 .. Messages
    PROVE  Call(n) \in Loops /\ Call(n).step = n
BY SettingTypes DEF Call, Loops

(* Whose session is finished has had a message of each peer in this call. *)
LEMMA PeersCame ==
    ASSUME LInv, NEW p \in Party, device[p].stage = "sign", loops[p].inb = "done",
           NEW q \in started \ {p}
    PROVE  loops[q].step >= loops[p].step
<1>1. q \in Peers(p) BY DEF LInv, StartInv, Signing, Peers
<1>2. 1 \in 1 .. Rounds BY SettingTypes DEF LInv
<1>3. PICK m \in loops[p].got : m.from = q
      BY <1>1, <1>2 DEF LInv, StepInv, Finished, HasRound
<1>4. m \in relay /\ m.of = loops[p].step
      BY <1>3 DEF LInv, SignTypeOK, Inbox, Current, MessageAt
<1>5. QED BY <1>3, <1>4 DEF LInv, StepInv

(* p fails, or changes its reason only; its call stays or is over. *)
LEMMA DeviceChanges ==
    ASSUME LInv, CInv', NEW p \in Party, device[p].stage \in {"setup", "sign"},
           UNCHANGED <<setting, joined, started>>,
           setups' \subseteq 1 .. Messages, relay \subseteq relay', relay' \subseteq RelayMessage,
           \A m \in relay' \ relay : m.from = p /\ m.of = loops[p].step,
           NEW d, device' = [device EXCEPT ![p] = d],
           d.committee = device[p].committee,
           d.stage \in {device[p].stage, "sign", "failed"},
           NEW l \in Loops, loops' = [loops EXCEPT ![p] = l],
           d.stage = "setup" => l = loops[p],
           l.step = loops[p].step,
           l.inb = "done" => Finished(p, l.got), l.due # {} => l.sent > 0,
           l.batch \cup l.got \subseteq {m \in relay' : m.to = p /\ m.of = l.step},
           l.due \subseteq Peers(p)
    PROVE  LInv'
<1>1. Continues(p, d, l) BY DEF Continues, Signing, LInv, StartInv
<1>2. QED BY <1>1, ProtocolChanges DEF Signing

(* The call of p is as it was. *)
LEMMA CallKept ==
    ASSUME LInv, NEW p \in Party, relay \subseteq relay'
    PROVE  /\ loops[p] \in Loops /\ loops = [loops EXCEPT ![p] = loops[p]]
           /\ loops[p].inb = "done" => Finished(p, loops[p].got)
           /\ loops[p].batch \cup loops[p].got \subseteq {m \in relay' : m.to = p /\ m.of = loops[p].step}
           /\ loops[p].due \subseteq Peers(p) /\ (loops[p].due # {} => loops[p].sent > 0)
BY DEF LInv, SignTypeOK, StepInv, Inbox, Current, MessageAt

LEMMA FailsInCall ==
    ASSUME LInv, CInv', NEW p \in Party, device[p].stage \in {"setup", "sign"},
           UNCHANGED <<setting, joined, started, loops>>,
           setups' \subseteq 1 .. Messages, relay \subseteq relay', relay' \subseteq RelayMessage,
           \A m \in relay' \ relay : m.from = p /\ m.of = loops[p].step,
           NEW why, Throws(p, why)
    PROVE  LInv'
<1>1. device[p] \in Device BY DEF LInv, CInv, SessionTypeOK
<1> DEFINE d == [device[p] EXCEPT !.stage = "failed", !.why = why]
<1>2. d.stage = "failed" /\ d.committee = device[p].committee BY <1>1 DEF Device
<1>3. device' = [device EXCEPT ![p] = d] BY DEF Throws
<1> HIDE DEF d
<1>4. QED BY <1>2, <1>3, CallKept, DeviceChanges

LEMMA InboundInStep ==
    ASSUME LInv, CInv', NEW p \in Party, InboundStep(p)
    PROVE  LInv'
<1>1. /\ device \in [Party -> Device] /\ device[p] \in Device /\ loops[p] \in Loops
      /\ loops \in [Party -> Loops] /\ loops[p].step \in 1 .. Messages /\ Messages \in Nat \ {0}
      /\ setups \subseteq 1 .. Messages /\ relay \subseteq RelayMessage
      /\ device = [device EXCEPT ![p] = device[p]]
      BY SettingTypes DEF LInv, SignTypeOK, Loops
<1>2. UNCHANGED <<setting, joined, started, relay>>
      BY DEF InboundStep, Upload, UploadFails, SetupArrives, SetupTimesOut, Fetch, FetchFails,
             Feed, Timer, InboundTimesOut, Return, CancelSigned, ReturnError, sessionVars, signVars
<1>3. setups' \subseteq 1 .. Messages
      BY <1>1 DEF InboundStep, Upload, UploadFails, SetupArrives, SetupTimesOut, Fetch, FetchFails,
             Feed, Timer, InboundTimesOut, Return, CancelSigned, ReturnError, sessionVars, signVars,
             OrApplied, Current, MessageAt
<1>3a. /\ loops[p].inb = "done" => Finished(p, loops[p].got)
      /\ loops[p].batch \cup loops[p].got \subseteq {m \in relay' : m.to = p /\ m.of = loops[p].step}
      /\ loops[p].due \subseteq Peers(p) /\ (loops[p].due # {} => loops[p].sent > 0)
      BY <1>2, CallKept
<1>4. ASSUME NEW why, Throws(p, why), UNCHANGED loops, device[p].stage \in {"setup", "sign"}
      PROVE  LInv'
      BY <1>1, <1>2, <1>3, <1>4, FailsInCall
<1>5. ASSUME Goto(p, "sign"), UNCHANGED loops, device[p].stage = "setup" PROVE LInv'
  <2> DEFINE d == [device[p] EXCEPT !.stage = "sign"]
  <2>1. d.stage = "sign" /\ d.committee = device[p].committee BY <1>1 DEF Device
  <2>2. device' = [device EXCEPT ![p] = d] BY <1>5 DEF Goto
  <2> HIDE DEF d
  <2>3. loops' = [loops EXCEPT ![p] = loops[p]] BY <1>1, <1>5
  <2>4. QED BY <1>3a, <1>1, <1>2, <1>3, <1>5, <2>1, <2>2, <2>3, DeviceChanges
<1>6. CASE Upload(p) \/ SetupArrives(p)
      BY <1>4, <1>5, <1>6 DEF Upload, SetupArrives, Is, signVars
<1>7. CASE UploadFails(p) \/ SetupTimesOut(p) \/ CancelSigned(p) \/ ReturnError(p)
      BY <1>4, <1>7 DEF UploadFails, SetupTimesOut, CancelSigned, ReturnError, BothOver, Is, signVars
<1>8. CASE Fetch(p)
  <2> DEFINE l == [loops[p] EXCEPT !.inb = "feed", !.batch = Inbox(p)]
  <2>1. /\ l.inb = "feed" /\ l.batch = Inbox(p) /\ l.got = loops[p].got /\ l.step = loops[p].step
        /\ l.due = loops[p].due /\ l.sent = loops[p].sent
        BY <1>1 DEF Loops
  <2>2. Inbox(p) \subseteq RelayMessage BY <1>1 DEF Inbox
  <2>3. l \in Loops BY <1>1, <2>2 DEF Loops
  <2>4. loops' = [loops EXCEPT ![p] = l] /\ device[p].stage = "sign" /\ UNCHANGED device
        BY <1>8 DEF Fetch, Update, Inbound, Is, sessionVars
  <2>5. l.batch \cup l.got \subseteq {m \in relay' : m.to = p /\ m.of = l.step}
        BY <1>2, <2>1, CallKept DEF Inbox, Current, MessageAt
  <2> HIDE DEF l
  <2>6. l.inb # "done" /\ l.due \subseteq Peers(p) /\ (l.due # {} => l.sent > 0)
        BY <1>3a, <2>1
  <2>7. QED BY <1>1, <1>2, <1>3, <2>1, <2>3, <2>4, <2>5, <2>6, DeviceChanges
<1>9. CASE Feed(p)
  <2> DEFINE inb == IF Finished(p, Taken(p)) THEN "done" ELSE "poll"
             aborted == IF Finished(p, Taken(p)) THEN TRUE ELSE loops[p].aborted
             l == [loops[p] EXCEPT !.inb = inb, !.aborted = aborted, !.batch = {}, !.got = Taken(p)]
  <2>1. /\ l.inb = inb /\ l.batch = {} /\ l.got = Taken(p) /\ l.step = loops[p].step
        /\ l.due = loops[p].due /\ l.sent = loops[p].sent
        BY <1>1 DEF Loops
  <2>2. Taken(p) \subseteq RelayMessage BY <1>1 DEF Taken, Loops
  <2>3. inb \in {"poll", "done"} /\ aborted \in BOOLEAN BY <1>1 DEF Loops
  <2>4. l \in Loops BY <1>1, <2>2, <2>3 DEF Loops
  <2>5. /\ loops' = [loops EXCEPT ![p] = l] /\ device[p].stage = "sign" /\ UNCHANGED device
    <3>1. device[p].stage = "sign" /\ UNCHANGED device BY <1>9 DEF Feed, Inbound, Is, sessionVars
    <3>2. CASE Finished(p, Taken(p))
      <4>1. l = [loops[p] EXCEPT !.inb = "done", !.aborted = TRUE, !.batch = {}, !.got = Taken(p)]
            BY <3>2
      <4>2. QED BY <1>9, <3>1, <3>2, <4>1 DEF Feed, Update
    <3>3. CASE ~ Finished(p, Taken(p))
      <4>1. l = [loops[p] EXCEPT !.inb = "poll", !.batch = {}, !.got = Taken(p)]
            BY <1>1, <3>3 DEF Loops
      <4>2. QED BY <1>9, <3>1, <3>3, <4>1 DEF Feed, Update
    <3>4. QED BY <3>2, <3>3
  <2>6. l.batch \cup l.got \subseteq {m \in relay' : m.to = p /\ m.of = l.step}
        BY <1>2, <2>1, CallKept DEF Taken
  <2>7. l.inb = "done" => Finished(p, l.got) BY <2>1
  <2> HIDE DEF l
  <2>8. l.due \subseteq Peers(p) /\ (l.due # {} => l.sent > 0) BY <1>3a, <2>1
  <2>9. QED BY <1>1, <1>2, <1>3, <2>1, <2>4, <2>5, <2>6, <2>7, <2>8, DeviceChanges
<1>10. CASE Timer(p)
  <2> DEFINE l == [loops[p] EXCEPT !.aborted = TRUE]
  <2>1. /\ l.inb = loops[p].inb /\ l.batch = loops[p].batch /\ l.got = loops[p].got
        /\ l.step = loops[p].step /\ l.due = loops[p].due /\ l.sent = loops[p].sent /\ l \in Loops
        BY <1>1 DEF Loops
  <2>2. loops' = [loops EXCEPT ![p] = l] /\ device[p].stage = "sign" /\ UNCHANGED device
        BY <1>10 DEF Timer, Update, Is
  <2> HIDE DEF l
  <2>3. /\ l.batch \cup l.got \subseteq {m \in relay' : m.to = p /\ m.of = l.step}
        /\ l.inb = "done" => Finished(p, l.got)
        /\ l.due \subseteq Peers(p) /\ (l.due # {} => l.sent > 0)
        BY <1>3a, <2>1
  <2>4. QED BY <1>1, <1>2, <1>3, <2>1, <2>2, <2>3, DeviceChanges
<1>11. CASE FetchFails(p) \/ InboundTimesOut(p)
  <2>1. PICK why \in {"poll", "timeout"} : device' = [device EXCEPT ![p] = [device[p] EXCEPT !.why = why]]
        BY <1>11 DEF FetchFails, InboundTimesOut
  <2> DEFINE d == [device[p] EXCEPT !.why = why]
             l == [loops[p] EXCEPT !.inb = "error", !.aborted = TRUE]
  <2>2. /\ l.inb = "error" /\ l.batch = loops[p].batch /\ l.got = loops[p].got
        /\ l.step = loops[p].step /\ l.due = loops[p].due /\ l.sent = loops[p].sent /\ l \in Loops
        BY <1>1 DEF Loops
  <2>3. loops' = [loops EXCEPT ![p] = l]
    <3>1. CASE FetchFails(p) BY <3>1 DEF FetchFails, Update
    <3>2. CASE InboundTimesOut(p)
      <4>1. loops[p].aborted = TRUE BY <1>1, <3>2 DEF InboundTimesOut, Loops
      <4>2. l = [loops[p] EXCEPT !.inb = "error"] BY <1>1, <4>1 DEF Loops
      <4>3. QED BY <3>2, <4>2 DEF InboundTimesOut, Update
    <3>3. QED BY <1>11, <3>1, <3>2
  <2>4. device[p].stage = "sign" BY <1>11 DEF FetchFails, InboundTimesOut, Inbound, Is
  <2>5. d.stage = "sign" /\ d.committee = device[p].committee BY <1>1, <2>4 DEF Device
  <2>6. device' = [device EXCEPT ![p] = d] BY <2>1
  <2> HIDE DEF l, d
  <2>7. /\ l.batch \cup l.got \subseteq {m \in relay' : m.to = p /\ m.of = l.step}
        /\ l.inb # "done" /\ l.due \subseteq Peers(p) /\ (l.due # {} => l.sent > 0)
        BY <1>3a, <2>2
  <2>8. QED BY <1>1, <1>2, <1>3, <2>2, <2>3, <2>4, <2>5, <2>6, <2>7, DeviceChanges
<1>12. CASE Return(p)
  <2>1. device[p].stage = "sign" /\ loops[p].inb = "done" BY <1>12 DEF Return, BothOver, Is
  <2>2. \A q \in started \ {p} : loops[q].step >= loops[p].step BY <2>1, PeersCame
  <2>3. CASE loops[p].step < Messages
    <3> DEFINE n == loops[p].step + 1
               l == Call(n)
               d == [device[p] EXCEPT !.stage = "setup"]
    <3>1. n \in 1 .. Messages BY <1>1, <2>3
    <3>2. l \in Loops /\ l.step = n BY <3>1, CallType DEF LInv
    <3>3. d.stage = "setup" /\ d.committee = device[p].committee BY <1>1 DEF Device
    <3>4. device' = [device EXCEPT ![p] = d] /\ loops' = [loops EXCEPT ![p] = l]
          BY <1>12, <2>3 DEF Return, Goto, Update
    <3>5. l.inb = "poll" /\ l.batch = {} /\ l.got = {} /\ l.due = {} BY DEF Call
    <3>6. l = Call(l.step) BY <3>2
    <3> HIDE DEF d, l
    <3>7. Continues(p, d, l) BY <1>1, <1>2, <2>2, <3>2, <3>3, <3>5, <3>6 DEF Continues, Signing
    <3>8. QED BY <1>1, <1>2, <1>3, <2>1, <3>2, <3>4, <3>7, ProtocolChanges DEF Signing
  <2>4. CASE ~ (loops[p].step < Messages)
    <3> DEFINE d == [device[p] EXCEPT !.stage = "signed"]
    <3>1. loops[p].step = Messages BY <1>1, <2>4
    <3>2. d.stage = "signed" /\ d.committee = device[p].committee BY <1>1 DEF Device
    <3>3. device' = [device EXCEPT ![p] = d] /\ loops' = [loops EXCEPT ![p] = loops[p]]
          BY <1>1, <1>12, <2>4 DEF Return, Goto, Update
    <3> HIDE DEF d
    <3>4. Continues(p, d, loops[p])
          BY <1>2, <2>2, <3>1, <3>2, CallKept DEF Continues, Signing
    <3>5. QED BY <1>1, <1>2, <1>3, <2>1, <3>3, <3>4, ProtocolChanges DEF Signing
  <2>5. QED BY <2>3, <2>4
<1>13. QED BY <1>6, <1>7, <1>8, <1>9, <1>10, <1>11, <1>12 DEF InboundStep

LEMMA OutboundInStep ==
    ASSUME LInv, CInv', NEW p \in Party, OutboundStep(p)
    PROVE  LInv'
<1>1. /\ device \in [Party -> Device] /\ loops[p] \in Loops
      /\ loops[p].step \in 1 .. Messages /\ loops[p].sent \in 0 .. Rounds /\ Rounds \in Nat \ {0}
      /\ setups \subseteq 1 .. Messages /\ relay \subseteq RelayMessage
      /\ device = [device EXCEPT ![p] = device[p]]
      BY SettingTypes DEF LInv, SignTypeOK, Loops
<1>2. /\ UNCHANGED <<setting, joined, started, setups>> /\ relay \subseteq relay'
      /\ device[p].stage = "sign"
      BY DEF OutboundStep, Output, OutboundStops, Post, PostFails, Outbound, Is, sessionVars, OrApplied
<1>3. /\ loops[p].inb = "done" => Finished(p, loops[p].got)
      /\ loops[p].batch \cup loops[p].got \subseteq {m \in relay' : m.to = p /\ m.of = loops[p].step}
      /\ loops[p].due \subseteq Peers(p) /\ (loops[p].due # {} => loops[p].sent > 0)
      BY <1>2, CallKept
<1>4. Peers(p) \subseteq Party BY <1>1 DEF Peers, Device
(* Only the outbound loop's own fields change. *)
<1>5. ASSUME NEW l \in Loops, loops' = [loops EXCEPT ![p] = l], UNCHANGED device,
             l.inb = loops[p].inb, l.batch = loops[p].batch, l.got = loops[p].got,
             l.step = loops[p].step, l.due \subseteq Peers(p), l.due # {} => l.sent > 0,
             relay' \subseteq RelayMessage,
             \A m \in relay' \ relay : m.from = p /\ m.of = loops[p].step
      PROVE  LInv'
  <2>1. /\ l.batch \cup l.got \subseteq {m \in relay' : m.to = p /\ m.of = l.step}
        /\ l.inb = "done" => Finished(p, l.got)
        BY <1>3, <1>5
  <2>2. device' = [device EXCEPT ![p] = device[p]] BY <1>1, <1>5
  <2>3. QED BY <1>1, <1>2, <1>5, <2>1, <2>2, DeviceChanges
<1>6. ASSUME NEW q \in loops[p].due
      PROVE  /\ ToRelay(p, q) \in RelayMessage
             /\ ToRelay(p, q).from = p /\ ToRelay(p, q).of = loops[p].step
  <2>1. q \in Party /\ loops[p].sent \in 1 .. Rounds BY <1>1, <1>3, <1>4
  <2>2. QED BY <1>1, <2>1 DEF ToRelay, RelayMessage, Current, MessageAt
<1>7. CASE Output(p)
  <2> DEFINE n == loops[p].sent + 1
             l == [loops[p] EXCEPT !.outb = "post", !.sent = n, !.due = Peers(p)]
  <2>1. n \in 1 .. Rounds BY <1>1, <1>7 DEF Output, HasOutput, NextRound
  <2>2. /\ l.inb = loops[p].inb /\ l.batch = loops[p].batch /\ l.got = loops[p].got
        /\ l.step = loops[p].step /\ l.due = Peers(p) /\ l.sent = n
        BY <1>1 DEF Loops
  <2>3. loops' = [loops EXCEPT ![p] = l] /\ UNCHANGED <<device, relay>>
        BY <1>7 DEF Output, Update, sessionVars
  <2> HIDE DEF n
  <2>4. l \in Loops
    <3> DEFINE posting == [loops[p] EXCEPT !.outb = "post"]
    <3>1. posting \in Loops BY <1>1 DEF Loops
    <3>2. n \in 0 .. Rounds BY <1>1, <2>1
    <3> HIDE DEF posting
    <3>3. [posting EXCEPT !.sent = n, !.due = Peers(p)] \in Loops BY <1>4, <3>1, <3>2 DEF Loops
    <3>4. l = [posting EXCEPT !.sent = n, !.due = Peers(p)] BY DEF posting
    <3>5. QED BY <3>3, <3>4
  <2> HIDE DEF l
  <2>5. l.due \subseteq Peers(p) /\ (l.due # {} => l.sent > 0)
    <3>1. n > 0 BY <1>1, <2>1
    <3>2. l.due = Peers(p) /\ l.sent = n BY <2>2
    <3>3. QED BY <3>1, <3>2
  <2>6. QED BY <1>1, <1>5, <2>2, <2>3, <2>4, <2>5
<1>8. CASE OutboundStops(p)
  <2> DEFINE l == [loops[p] EXCEPT !.outb = "done"]
  <2>1. /\ l.inb = loops[p].inb /\ l.batch = loops[p].batch /\ l.got = loops[p].got
        /\ l.step = loops[p].step /\ l.due = loops[p].due /\ l.sent = loops[p].sent /\ l \in Loops
        BY <1>1 DEF Loops
  <2>2. loops' = [loops EXCEPT ![p] = l] /\ UNCHANGED <<device, relay>>
        BY <1>8 DEF OutboundStops, Update, sessionVars
  <2> HIDE DEF l
  <2>3. QED BY <1>1, <1>3, <1>5, <2>1, <2>2
<1>9. ASSUME NEW q \in Party, Post(p, q) PROVE LInv'
  <2> DEFINE o == IF loops[p].due = {q} THEN "run" ELSE "post"
             rest == loops[p].due \ {q}
             l == [loops[p] EXCEPT !.due = rest, !.outb = o]
  <2>1. /\ l.inb = loops[p].inb /\ l.batch = loops[p].batch /\ l.got = loops[p].got
        /\ l.step = loops[p].step /\ l.due = loops[p].due \ {q} /\ l.sent = loops[p].sent
        BY <1>1 DEF Loops
  <2>2. rest \subseteq Party /\ o \in {"run", "post"} BY <1>3, <1>4
  <2>3. l \in Loops BY <1>1, <2>2 DEF Loops
  <2>4. /\ loops' = [loops EXCEPT ![p] = l] /\ q \in loops[p].due
        /\ relay' = relay \cup {ToRelay(p, q)} /\ UNCHANGED device
        BY <1>9 DEF Post, Posted, Update, sessionVars
  <2> HIDE DEF l
  <2>5. QED BY <1>1, <1>3, <1>5, <1>6, <2>1, <2>3, <2>4
<1>10. ASSUME NEW q \in Party, PostFails(p, q) PROVE LInv'
  <2>1. /\ q \in loops[p].due /\ relay' \subseteq relay \cup {ToRelay(p, q)}
        BY <1>10 DEF PostFails, OrApplied
  <2>2. /\ relay' \subseteq RelayMessage
        /\ \A m \in relay' \ relay : m.from = p /\ m.of = loops[p].step
        BY <1>1, <1>6, <2>1
  <2>3. CASE Throws(p, "crash") /\ UNCHANGED loops
        BY <1>1, <1>2, <2>2, <2>3, FailsInCall
  <2>4. CASE Update(p, [loops[p] EXCEPT !.outb = "rejected", !.due = {}]) /\ UNCHANGED device
    <3> DEFINE l == [loops[p] EXCEPT !.outb = "rejected", !.due = {}]
    <3>1. /\ l.inb = loops[p].inb /\ l.batch = loops[p].batch /\ l.got = loops[p].got
          /\ l.step = loops[p].step /\ l.due = {} /\ l.sent = loops[p].sent /\ l \in Loops
          BY <1>1 DEF Loops
    <3>2. loops' = [loops EXCEPT ![p] = l] BY <2>4 DEF Update
    <3> HIDE DEF l
    <3>3. QED BY <1>5, <2>2, <2>4, <3>1, <3>2
  <2>5. QED BY <1>10, <2>3, <2>4 DEF PostFails
<1>11. QED BY <1>7, <1>8, <1>9, <1>10 DEF OutboundStep

-----------------------------------------------------------------------------
LEMMA LInvNext == LInv /\ [Next]_vars => LInv'
<1> SUFFICES ASSUME LInv, [Next]_vars PROVE LInv' OBVIOUS
<1>1. CInv' BY CInvNext DEF LInv
<1>2. CASE Next
  <2>1. PICK p \in Party :
            SessionMoves(p) \/ SessionBegins(p) \/ SignMoves(p) \/ SignPosts(p) \/ CreateMoves(p)
        BY <1>2 DEF Next
  <2>2. QED BY <1>1, <2>1, SessionInStep, InboundInStep, OutboundInStep, CreateInStep
        DEF SessionMoves, SessionBegins, SignMoves, SignPosts, CreateMoves
<1>3. CASE UNCHANGED vars
  <2>1. UNCHANGED <<setting, started, device, setups, relay, loops>>
        BY <1>3 DEF vars, sessionVars, signVars
  <2>2. SignTypeOK' /\ StartInv' /\ StepInv'
        BY <2>1 DEF LInv, SignTypeOK, StartInv, StepInv, Messages, Rounds, Loops, RelayMessage,
                    Inbox, Current, MessageAt, Peers, Call, Finished, HasRound, kind, Is
  <2>3. QED BY <1>1, <2>2 DEF LInv
<1>4. QED BY <1>2, <1>3

(* CeremonyTypeCorrect. Every variable of a ceremony stays in its domain:  *)
(* attempts to start are bounded, and what a device fetched, took and has  *)
(* to send belongs to its call and its committee, whatever fails.          *)
THEOREM CeremonyTypeCorrect == Spec => []TypeOK
<1>1. Spec => []LInv BY LInvInit, LInvNext, PTL DEF Spec
<1>2. Spec => []WInv BY WInvInit, WInvNext, PTL DEF Spec
<1>3. LInv /\ WInv => TypeOK BY DEF LInv, WInv, CInv, TypeOK
<1>4. QED BY <1>1, <1>2, <1>3, PTL

(* CallsInStep. No device has the signature of a message before all others *)
(* have come to that message: the message_id header and the sorted order   *)
(* keep the calls of keysign apart, whatever is lost, late or cancelled.   *)
THEOREM CallsInStep == Spec => []LockStep
<1>1. Spec => []LInv BY LInvInit, LInvNext, PTL DEF Spec
<1>2. QED BY <1>1, LInvLockStep, PTL

-----------------------------------------------------------------------------
(* A session in which nothing fails *)

(* Somebody has its signature and has left others without a message, or   *)
(* was gone before the protocol began.                                    *)
Cut == Gone \/ \E p, q \in started, n \in 1 .. Messages : p # q /\ Withheld(p, n, q)

(* Whoever is in C has a peer. *)
Several(C) == \A p \in Party : C \ {p} # {}

(* Where a device with the record d may be: it has joined before it goes   *)
(* on, and has given up for one of few reasons.                            *)
DeviceCalm(p, d) ==
    /\ d.stage \notin {"check", "keygen", "confirm", "vault"}
    /\ p \in joined => d.stage # "idle"
    /\ d.stage = "gather" => p \in joined
    /\ d.stage = "await" => p # Initiator
    /\ d.stage = "start" =>
           d.committee \subseteq joined /\ p \in d.committee /\ Several(d.committee)
    /\ d.stage \in {"sign", "signed"} => p \in started
    /\ d.stage \in Fresh => d.why = "none"
    /\ d.why = "start" => d.stage = "failed"
    /\ d.why = "session" => started # {} /\ p \notin started
    /\ d.stage = "failed" =>
           IF p = Initiator THEN started = {} \/ d.why = "timeout"
           ELSE d.why \in {"start", "setup", "session", "timeout"}
    /\ d.why \in {"setup", "timeout"} => Cut

(* All that the call l of p, with the record d, has put out is on the relay *)
(* R, or is still to be posted; it puts out a round only with all messages  *)
(* of the rounds before; and if it is aborted without a signature, there    *)
(* is a reason.                                                             *)
CallCalm(p, d, l, R) ==
    /\ \A r \in 1 .. l.sent - 1 : HasRound(p, l.got, r)
    /\ l.inb \in {"poll", "feed"} => ~ Finished(p, l.got)
    /\ \A q \in Peers(p), r \in 1 .. l.sent :
          \/ [of |-> l.step, from |-> p, to |-> q, round |-> r] \in R
          \/ r = l.sent /\ q \in l.due
    /\ l.outb = "run" => l.due = {}
    /\ l.outb # "rejected"
    /\ ~ l.aborted => l.outb # "done" /\ l.inb \in {"poll", "feed"}
    /\ l.aborted /\ l.inb \in {"poll", "feed"} => Cut
    /\ l.inb = "error" => d.why = "timeout"

SessionCalm == started # {} => Initiator \in started /\ started \subseteq joined /\ Several(started)

(* No message is on the relay that its sender has not put out. *)
RelayCalm == \A m \in relay : m.of = loops[m.from].step => m.round <= loops[m.from].sent

(* The setup of every message the initiator has begun to sign is there. *)
HasSetup(n, d, l) == n < l.step \/ (n = l.step /\ d.stage \in {"sign", "signed"})
SetupCalm == \A n \in 1 .. Messages : HasSetup(n, device[Initiator], loops[Initiator]) => n \in setups

Calm ==
    /\ \A p \in Party : /\ DeviceCalm(p, device[p])
                        /\ Is(p, "sign") => CallCalm(p, device[p], loops[p], relay)
    /\ SessionCalm /\ RelayCalm /\ SetupCalm

CalmInv == kind = "sign" /\ faults = 0 => Calm

-----------------------------------------------------------------------------
(* What the invariant says of the end of a session *)

LEMMA CalmAborts ==
    ASSUME LInv, EndInv, CalmInv
    PROVE  OnlyAbortStrands
<1> SUFFICES ASSUME NEW p \in Party, device[p].why = "timeout", faults = 0 PROVE Cut
    BY DEF OnlyAbortStrands, Cut
<1>1. kind = "sign" BY DEF EndInv
<1>2. QED BY <1>1 DEF CalmInv, Calm, DeviceCalm

LEMMA CalmSigns ==
    ASSUME LInv, CalmInv
    PROVE  SomebodySigns
<1> SUFFICES ASSUME kind = "sign", started # {}, Over, faults = 0, ~ Gone
             PROVE  \E p \in started : Signed(p, 1)
    BY DEF SomebodySigns
<1>1. Calm /\ Messages \in Nat \ {0} /\ started \subseteq Party BY SettingTypes DEF CalmInv, LInv
<1>2. Initiator \in started /\ Initiator \in Party /\ Initiator \in joined
      BY <1>1 DEF Calm, SessionCalm
<1>3. Is(Initiator, "signed") \/ Is(Initiator, "failed")
      BY <1>1, <1>2 DEF Over, Ended, Calm, DeviceCalm, Is
<1>4. CASE Is(Initiator, "signed") BY <1>2, <1>4 DEF Signed
<1>5. CASE Is(Initiator, "failed")
  <2>1. Cut BY <1>1, <1>2, <1>5 DEF Calm, DeviceCalm, Is
  <2>2. PICK p, q \in started, n \in 1 .. Messages : p # q /\ Withheld(p, n, q) BY <2>1 DEF Cut
  <2>3. Signed(p, n) BY <2>2 DEF Withheld
  <2>4. loops[p].step \in Nat BY <1>1 DEF LInv, SignTypeOK, Loops
  <2>5. Signed(p, 1) BY <1>1, <2>3, <2>4 DEF Signed
  <2>6. QED BY <2>5
<1>6. QED BY <1>3, <1>4, <1>5

-----------------------------------------------------------------------------
(* When everybody waits, somebody was cut off *)

(* q waits in its call for messages of others. *)
AtPoll(q) ==
    /\ Is(q, "sign") /\ loops[q].inb = "poll" /\ ~ loops[q].aborted /\ Inbox(q) \subseteq loops[q].got
    /\ loops[q].outb = "run" /\ ~ HasOutput(q)

(* Without a cut, whoever waits is signed, waits for a setup, or for messages. *)
LEMMA WaitsHow ==
    ASSUME LInv, kind = "sign", Calm, Stalled, ~ Cut, NEW q \in started
    PROVE  \/ Is(q, "signed")
           \/ Is(q, "setup") /\ q # Initiator /\ Current(q) \notin setups
           \/ AtPoll(q)
<1>1. q \in Party /\ q \in joined /\ loops[q] \in Loops
      BY SettingTypes DEF LInv, SignTypeOK, Calm, SessionCalm
<1>2. Waits(q) BY DEF Stalled
<1>3. ~ Is(q, "failed")
  <2>1. SUFFICES ASSUME Is(q, "failed") PROVE FALSE OBVIOUS
  <2>2. device[q].why = "start" => Gone BY DEF Gone
  <2>3. QED BY <1>1, <2>1, <2>2 DEF Calm, DeviceCalm, Cut, Is
<1>4. Ended(q) => Is(q, "signed") BY <1>1, <1>3 DEF Ended, Calm, DeviceCalm, Is
<1>5. ASSUME Is(q, "sign") /\ loops[q].inb = "poll" /\ ~ loops[q].aborted
             /\ Inbox(q) \subseteq loops[q].got /\ loops[q].outb # "post"
             /\ (loops[q].outb = "run" => ~ HasOutput(q))
      PROVE  AtPoll(q)
  <2>1. loops[q].outb \notin {"done", "rejected"} BY <1>1, <1>5 DEF Calm, CallCalm
  <2>2. loops[q].outb = "run" BY <1>1, <1>5, <2>1 DEF Loops
  <2>3. QED BY <1>5, <2>2 DEF AtPoll
<1>6. QED BY <1>2, <1>4, <1>5 DEF Waits

(* If somebody waits for a setup, the initiator is at an earlier message. *)
LEMMA SetupWaits ==
    ASSUME LInv, kind = "sign", Calm, Stalled, ~ Cut, started # {},
           NEW q \in Party, Is(q, "setup"), q # Initiator, Current(q) \notin setups
    PROVE  Initiator \in started /\ AtPoll(Initiator) /\ loops[Initiator].step < loops[q].step
<1>1. /\ Initiator \in started /\ Initiator \in Party /\ Messages \in Nat \ {0}
      BY SettingTypes DEF LInv, Calm, SessionCalm
<1>2. loops[q].step \in 1 .. Messages /\ loops[Initiator].step \in 1 .. Messages
      BY <1>1 DEF LInv, SignTypeOK, Loops
<1>3. ~ HasSetup(loops[q].step, device[Initiator], loops[Initiator])
      BY <1>2 DEF Calm, SetupCalm, Current, MessageAt
<1>4. ~ Is(Initiator, "signed")
  <2>1. SUFFICES ASSUME Is(Initiator, "signed") PROVE FALSE OBVIOUS
  <2>2. loops[Initiator].step >= Messages BY <1>1, <2>1 DEF LInv, StepInv
  <2>3. QED BY <1>1, <1>2, <1>3, <2>1, <2>2 DEF HasSetup, Is
<1>5. AtPoll(Initiator) BY <1>1, <1>4, WaitsHow
<1>6. loops[Initiator].step < loops[q].step BY <1>2, <1>3, <1>5 DEF HasSetup, AtPoll, Is
<1>7. QED BY <1>1, <1>5, <1>6

(* s and q wait in the same call. *)
Together(s, q) == AtPoll(s) /\ AtPoll(q) /\ loops[s].step = loops[q].step

(* Who waits in a call in which everybody has come as far lacks a round of *)
(* somebody who has not put it out.                                        *)
LEMMA WaitsFor ==
    ASSUME LInv, kind = "sign", Calm, ~ Cut,
           NEW s \in started, AtPoll(s),
           \A q \in started : Together(s, q) \/ Signed(q, loops[s].step)
    PROVE  \E q \in started \ {s}, r \in 1 .. loops[s].sent :
               Together(s, q) /\ loops[q].sent < r
<1>1. /\ started \subseteq Party /\ s \in Party /\ Rounds \in Nat \ {0} /\ loops[s] \in Loops
      /\ loops[s].sent \in 0 .. Rounds /\ loops[s].step \in 1 .. Messages
      /\ \A q \in Party : loops[q].sent \in 0 .. Rounds
      BY SettingTypes DEF LInv, SignTypeOK, Loops
<1>2. Peers(s) = started \ {s} BY <1>1 DEF LInv, StartInv, AtPoll, Is, Peers, Signing
<1>3. CallCalm(s, device[s], loops[s], relay) BY <1>1 DEF Calm, AtPoll
(* It lacks a round it should have by now. *)
<1>4. \E r \in 1 .. loops[s].sent : ~ HasRound(s, loops[s].got, r)
  <2>1. CASE loops[s].sent = Rounds
        BY <1>3, <2>1 DEF CallCalm, AtPoll, Finished
  <2>2. CASE loops[s].sent # Rounds
    <3>1. NextRound(s) <= Rounds /\ NextRound(s) - 1 = loops[s].sent BY <1>1, <2>2 DEF NextRound
    <3>2. QED BY <3>1 DEF AtPoll, HasOutput
  <2>3. QED BY <2>1, <2>2
<1>5. PICK r \in 1 .. loops[s].sent : ~ HasRound(s, loops[s].got, r) BY <1>4
<1>6. PICK q \in Peers(s) : \A m \in loops[s].got : ~ (m.from = q /\ m.round = r)
      BY <1>5 DEF HasRound
<1>7. q \in started \ {s} /\ q \in Party BY <1>1, <1>2, <1>6
<1> DEFINE M == [of |-> loops[s].step, from |-> q, to |-> s, round |-> r]
<1>8. r \in 1 .. Rounds BY <1>1, <1>5
<1>9. M \notin relay
  <2>1. SUFFICES ASSUME M \in relay PROVE FALSE OBVIOUS
  <2>2. M \in Inbox(s) BY <2>1 DEF Inbox, Current, MessageAt
  <2>3. M \in loops[s].got BY <2>2 DEF AtPoll
  <2>4. QED BY <1>6, <2>3
<1>10. ~ Signed(q, loops[s].step)
  <2>1. SUFFICES ASSUME Signed(q, loops[s].step) PROVE FALSE OBVIOUS
  <2>2. Withheld(q, loops[s].step, s) BY <1>8, <1>9, <2>1 DEF Withheld, MessageAt
  <2>3. QED BY <1>1, <1>7, <2>2 DEF Cut
<1>11. Together(s, q) BY <1>7, <1>10
<1>12. loops[q].sent < r
  <2>1. SUFFICES ASSUME ~ (loops[q].sent < r) PROVE FALSE OBVIOUS
  <2>2. r \in 1 .. loops[q].sent BY <1>1, <1>7, <1>8, <2>1
  <2>3. CallCalm(q, device[q], loops[q], relay) BY <1>7, <1>11 DEF Calm, Together, AtPoll
  <2>4. loops[q].due = {} BY <1>11, <2>3 DEF CallCalm, Together, AtPoll
  <2>5. s \in Peers(q)
        BY <1>7, <1>11 DEF LInv, StartInv, Together, AtPoll, Is, Peers, Signing
  <2>6. [of |-> loops[q].step, from |-> q, to |-> s, round |-> r] \in relay
        BY <2>2, <2>3, <2>4, <2>5 DEF CallCalm
  <2>7. QED BY <1>9, <1>11, <2>6 DEF Together
<1>13. QED BY <1>5, <1>7, <1>11, <1>12

(* But the rounds of those in one call are at most one apart. *)
LEMMA RoundsInStep ==
    ASSUME LInv, kind = "sign", Calm, ~ Cut,
           NEW w \in started, AtPoll(w),
           \A q \in started : Together(w, q) \/ Signed(q, loops[w].step)
    PROVE  FALSE
<1>1. PICK q \in started \ {w}, r \in 1 .. loops[w].sent : Together(w, q) /\ loops[q].sent < r
      BY WaitsFor
<1>2. AtPoll(q) /\ \A x \in started : Together(q, x) \/ Signed(x, loops[q].step)
      BY <1>1 DEF Together
<1>3. PICK x \in started \ {q}, k \in 1 .. loops[q].sent : Together(q, x) /\ loops[x].sent < k
      BY <1>1, <1>2, WaitsFor
<1>4. /\ w \in Party /\ q \in Party /\ x \in Party
      /\ loops[w].sent \in Nat /\ loops[q].sent \in Nat /\ loops[x].sent \in Nat
      BY SettingTypes DEF LInv, SignTypeOK, Loops
<1>5. k \in 1 .. loops[w].sent - 1 /\ x # w BY <1>1, <1>3, <1>4
<1>6. HasRound(w, loops[w].got, k) BY <1>4, <1>5 DEF Calm, CallCalm, AtPoll
<1>7. x \in Peers(w) BY <1>4, <1>5 DEF LInv, StartInv, AtPoll, Is, Peers, Signing
<1>8. PICK m \in loops[w].got : m.from = x /\ m.round = k BY <1>6, <1>7 DEF HasRound
<1>9. m \in relay /\ m.of = loops[x].step
      BY <1>1, <1>3, <1>4, <1>8 DEF LInv, SignTypeOK, Inbox, Current, MessageAt, Together
<1>10. m.round <= loops[x].sent BY <1>8, <1>9 DEF Calm, RelayCalm
<1>11. QED BY <1>3, <1>4, <1>8, <1>10

LEMMA StalledInCall ==
    ASSUME LInv, kind = "sign", Calm, Stalled, ~ Cut, NEW p \in started, AtPoll(p)
    PROVE  FALSE
<1>1. /\ started \subseteq Party /\ started # {} /\ Messages \in Nat \ {0}
      /\ \A q \in started : loops[q].step \in 1 .. Messages
      BY SettingTypes DEF LInv, SignTypeOK, Loops
(* One of those that are furthest behind is in its call. *)
<1>2. \E w \in started : AtPoll(w) /\ \A q \in started : loops[q].step >= loops[w].step
  <2>1. CASE \A q \in started : loops[q].step >= loops[p].step BY <2>1
  <2>2. ASSUME NEW x \in started, ~ (loops[x].step >= loops[p].step)
        PROVE  \E w \in started : AtPoll(w) /\ \A q \in started : loops[q].step >= loops[w].step
    <3>1. \A q \in started : loops[q].step >= loops[x].step
      <4>1. TAKE q \in started
      <4>2. loops[q].step >= loops[p].step - 1 /\ loops[x].step >= loops[p].step - 1
            BY DEF LInv, StepInv
      <4>3. QED BY <1>1, <2>2, <4>2
    <3>2. ~ Is(x, "signed")
      <4>1. Is(x, "signed") => loops[x].step >= Messages BY DEF LInv, StepInv
      <4>2. QED BY <1>1, <2>2, <4>1
    <3>3. ~ (Is(x, "setup") /\ x # Initiator /\ Current(x) \notin setups)
      <4>1. SUFFICES ASSUME Is(x, "setup"), x # Initiator, Current(x) \notin setups PROVE FALSE
            OBVIOUS
      <4>2. Initiator \in started /\ loops[Initiator].step < loops[x].step
            BY <1>1, <4>1, SetupWaits
      <4>3. QED BY <1>1, <3>1, <4>2
    <3>4. AtPoll(x) BY <3>2, <3>3, WaitsHow
    <3>5. QED BY <3>1, <3>4
  <2>3. QED BY <2>1, <2>2
<1>3. PICK w \in started : AtPoll(w) /\ \A q \in started : loops[q].step >= loops[w].step
      BY <1>2
(* The others are in the same call or have its signature. *)
<1>4. ASSUME NEW q \in started PROVE Together(w, q) \/ Signed(q, loops[w].step)
  <2>1. CASE Is(q, "signed") BY <2>1 DEF Signed
  <2>2. CASE Is(q, "setup") /\ q # Initiator /\ Current(q) \notin setups
    <3>1. Initiator \in started /\ loops[Initiator].step < loops[q].step
          BY <1>1, <2>2, SetupWaits
    <3>2. loops[q].step > loops[w].step BY <1>1, <1>3, <3>1
    <3>3. QED BY <3>2 DEF Signed
  <2>3. CASE AtPoll(q)
    <3>1. loops[q].step = loops[w].step \/ loops[q].step > loops[w].step BY <1>1, <1>3
    <3>2. QED BY <1>3, <2>3, <3>1 DEF Together, Signed
  <2>4. QED BY <2>1, <2>2, <2>3, WaitsHow
<1>5. QED BY <1>3, <1>4, RoundsInStep

(* A timer that fires because there is nothing else to expect tells of a cut. *)
LEMMA StalledCut ==
    ASSUME LInv, kind = "sign", Calm, Stalled, NEW p \in Party,
           \/ Is(p, "sign") /\ ~ loops[p].aborted
           \/ Is(p, "setup") /\ p # Initiator /\ Current(p) \notin setups
    PROVE  Cut
<1> SUFFICES ASSUME ~ Cut PROVE FALSE OBVIOUS
<1>1. CASE Is(p, "sign") /\ ~ loops[p].aborted
  <2>1. p \in started BY <1>1 DEF Calm, DeviceCalm, Is
  <2>2. AtPoll(p) BY <1>1, <2>1, WaitsHow DEF Is
  <2>3. QED BY <2>1, <2>2, StalledInCall
<1>2. CASE Is(p, "setup") /\ p # Initiator /\ Current(p) \notin setups
  <2>1. started # {} BY <1>2 DEF LInv, StartInv, Is, Signing
  <2>2. Initiator \in started /\ AtPoll(Initiator) BY <1>2, <2>1, SetupWaits
  <2>3. QED BY <2>2, StalledInCall
<1>3. QED BY <1>1, <1>2

-----------------------------------------------------------------------------
(* The steps keep it *)

LEMMA CalmInit == Init => CalmInv
<1> SUFFICES ASSUME Init PROVE Calm BY DEF CalmInv
<1>1. /\ Messages \in Nat \ {0} /\ CInv BY CInvInit, SettingTypes
<1>2. /\ device = [p \in Party |-> [stage |-> "idle", committee |-> {}, why |-> "none",
                                     tries |-> 0, ready |-> FALSE]]
      /\ joined = {} /\ started = {} /\ relay = {} /\ loops = [p \in Party |-> Call(1)]
      BY DEF Init, SessionInit, SignInit
<1>3. \A p \in Party : DeviceCalm(p, device[p]) /\ ~ Is(p, "sign")
      BY <1>2 DEF DeviceCalm, Is
<1>4. SetupCalm
  <2>1. Initiator \in Party BY RelaySessionAssumption
  <2>2. loops[Initiator].step = 1 /\ device[Initiator].stage = "idle" BY <1>2, <2>1 DEF Call
  <2>3. QED BY <1>1, <2>2 DEF SetupCalm, HasSetup
<1>5. QED BY <1>2, <1>3, <1>4 DEF Calm, SessionCalm, RelayCalm

(* A session step of p, next to started' and joined'. *)
LEMMA SessionStaysCalm ==
    ASSUME LInv, CInv', kind = "sign", Calm, NEW p \in Party, UNCHANGED <<setting, signVars>>,
           device[p].stage \in Fresh,
           NEW d, device' = [device EXCEPT ![p] = d],
           joined' \in {joined, joined \cup {p}},
           \/ started' = started
           \/ p = Initiator /\ device[p].stage = "start" /\ started' = device[p].committee,
           d.stage \notin {"sign", "signed"}, DeviceCalm(p, d)'
    PROVE  Calm'
<1>1. /\ device \in [Party -> Device] /\ started \subseteq Party
      /\ kind' = kind /\ Messages' = Messages /\ Rounds' = Rounds
      /\ UNCHANGED <<loops, relay, setups>> /\ Initiator \in Party
      BY SettingTypes, RelaySessionAssumption DEF LInv, kind, Messages, Rounds, signVars
<1>2. device'[p] = d /\ \A q \in Party \ {p} : device'[q] = device[q] BY <1>1
<1>3. started' # started => started = {} /\ p = Initiator
      BY DEF LInv, StartInv, Early
<1>4. Cut => Cut' /\ started' = started
  <2>1. SUFFICES ASSUME Cut PROVE Cut' /\ started' = started OBVIOUS
  <2>2. started' = started BY <1>3, <2>1 DEF Cut, Gone
  <2>3. CASE Gone
    <3>1. PICK q \in started : device[q].why = "start" BY <2>3 DEF Gone
    <3>2. q \in Party /\ q # p BY <1>1, <3>1 DEF Calm, DeviceCalm, Fresh
    <3>3. QED BY <1>2, <2>2, <3>1, <3>2 DEF Cut, Gone
  <2>4. ASSUME NEW a \in started, NEW b \in started, NEW n \in 1 .. Messages, a # b, Withheld(a, n, b)
        PROVE  Cut'
    <3>1. a \in Party BY <1>1
    <3>2. Is(a, "signed") => Is(a, "signed")' BY <1>2, <3>1 DEF Is, Fresh
    <3>3. Withheld(a, n, b)' BY <1>1, <2>4, <3>2 DEF Withheld, Signed, MessageAt
    <3>4. QED BY <1>1, <2>2, <2>4, <3>3 DEF Cut
  <2>5. QED BY <2>1, <2>2, <2>3, <2>4 DEF Cut
<1>5. ASSUME NEW q \in Party PROVE DeviceCalm(q, device[q])'
  <2>1. CASE q = p BY <1>2, <2>1
  <2>2. CASE q # p
    <3>1. device'[q] = device[q] /\ DeviceCalm(q, device[q]) /\ (q \in joined' <=> q \in joined)
          /\ joined \subseteq joined'
          BY <1>2, <2>2 DEF Calm
    <3>2. CASE started' = started
          BY <1>4, <3>1, <3>2 DEF DeviceCalm
    <3>3. CASE started' # started
      <4>1. started = {} /\ ~ Cut /\ q # Initiator BY <1>3, <1>4, <2>2, <3>3
      <4>2. QED BY <3>1, <4>1 DEF DeviceCalm
    <3>4. QED BY <3>2, <3>3
  <2>3. QED BY <2>1, <2>2
<1>6. ASSUME NEW q \in Party, device'[q].stage = "sign"
      PROVE  CallCalm(q, device[q], loops[q], relay)'
  <2>1. q # p /\ device'[q] = device[q] BY <1>2, <1>6
  <2>2. CallCalm(q, device[q], loops[q], relay) BY <1>6, <2>1 DEF Calm, Is
  <2>3. Peers(q)' = Peers(q) BY <2>1 DEF Peers
  <2>4. QED BY <1>1, <1>4, <2>1, <2>2, <2>3 DEF CallCalm, HasRound, Finished
<1>7. SessionCalm'
  <2>1. CASE started' = started BY <2>1 DEF Calm, SessionCalm, Several
  <2>2. CASE started' # started
    <3>1. p = Initiator /\ device[p].stage = "start" /\ started' = device[p].committee BY <2>2
    <3>2. QED BY <3>1 DEF Calm, DeviceCalm, SessionCalm, Several
  <2>3. QED BY <2>1, <2>2
<1>8. RelayCalm' BY <1>1 DEF Calm, RelayCalm
<1>9. SetupCalm'
  <2>1. device'[Initiator].stage \in {"sign", "signed"} => device'[Initiator] = device[Initiator]
        BY <1>1, <1>2
  <2>2. QED BY <1>1, <2>1 DEF Calm, SetupCalm, HasSetup
<1>10. QED BY <1>5, <1>6, <1>7, <1>8, <1>9 DEF Calm, Is

(* What p's record and call may become in the protocol, next to relay' and *)
(* setups'.                                                                *)
GoesOn(p, d, l) ==
    /\ d.committee = device[p].committee
    /\ d.stage \in Signing \cup {"failed"}
    /\ d.stage \in {"sign", "signed"} => p \in started
    /\ d.why # "start"
    /\ d.why = "session" => p \notin started
    /\ d.stage = "failed" => IF p = Initiator THEN d.why = "timeout"
                             ELSE d.why \in {"setup", "session", "timeout"}
    /\ d.why \in {"setup", "timeout"} => Cut
    /\ d.stage = "sign" => CallCalm(p, d, l, relay')
    /\ l.step > loops[p].step \/ (l.step = loops[p].step /\ l.sent >= loops[p].sent)
    /\ \A m \in relay' \ relay :
           m.from = p /\ m.of = loops[p].step /\ l.step = m.of /\ m.round <= l.sent
    /\ p = Initiator => \A n \in 1 .. Messages : HasSetup(n, d, l) => n \in setups'

LEMMA ProtocolStaysCalm ==
    ASSUME LInv, CInv', kind = "sign", Calm, NEW p \in Party, device[p].stage \in {"setup", "sign"},
           UNCHANGED <<setting, joined, started>>, setups \subseteq setups', relay \subseteq relay',
           NEW d, device' = [device EXCEPT ![p] = d],
           NEW l \in Loops, loops' = [loops EXCEPT ![p] = l],
           GoesOn(p, d, l)
    PROVE  Calm'
<1>1. /\ device \in [Party -> Device] /\ loops \in [Party -> Loops] /\ started \subseteq Party
      /\ kind' = kind /\ Messages' = Messages /\ Rounds' = Rounds /\ Messages \in Nat
      /\ relay \subseteq RelayMessage /\ started # {} /\ Initiator \in Party
      BY SettingTypes, RelaySessionAssumption
      DEF LInv, SignTypeOK, StartInv, Signing, kind, Messages, Rounds
<1>2. /\ device'[p] = d /\ \A q \in Party \ {p} : device'[q] = device[q]
      /\ loops'[p] = l /\ \A q \in Party \ {p} : loops'[q] = loops[q]
      BY <1>1
<1>3. \A q \in Party : Peers(q)' = Peers(q) BY <1>2 DEF GoesOn, Peers
<1>4. loops[p].step \in Nat /\ l.step \in Nat /\ loops[p].sent \in Nat /\ l.sent \in Nat
      BY <1>1 DEF Loops
<1>5. Cut => Cut'
  <2>1. CASE Gone
    <3>1. PICK q \in started : device[q].why = "start" BY <2>1 DEF Gone
    <3>2. q \in Party /\ q # p BY <1>1, <3>1 DEF Calm, DeviceCalm
    <3>3. QED BY <1>2, <3>1, <3>2 DEF Cut, Gone
  <2>2. ASSUME NEW a \in started, NEW b \in started, NEW n \in 1 .. Messages, a # b, Withheld(a, n, b)
        PROVE  Cut'
    <3>1. PICK r \in 1 .. Rounds : [of |-> n, from |-> a, to |-> b, round |-> r] \notin relay
          BY <2>2 DEF Withheld, MessageAt
    <3> DEFINE M == [of |-> n, from |-> a, to |-> b, round |-> r]
    <3>2. Signed(a, n) /\ a \in Party BY <1>1, <2>2 DEF Withheld
    <3>3. Signed(a, n)' /\ M \notin relay'
      <4>1. CASE a # p BY <1>2, <3>1, <3>2, <4>1 DEF Signed, Is, GoesOn
      <4>2. CASE a = p
        <5>1. loops[p].step > n BY <3>2, <4>2 DEF Signed, Is
        <5>2. l.step > n BY <1>4, <5>1 DEF GoesOn
        <5>3. M \notin relay' \ relay BY <1>4, <5>1 DEF GoesOn
        <5>4. QED BY <1>2, <3>1, <4>2, <5>2, <5>3 DEF Signed
      <4>3. QED BY <4>1, <4>2
    <3>4. Withheld(a, n, b)' BY <1>1, <3>3 DEF Withheld, MessageAt
    <3>5. QED BY <1>1, <2>2, <3>4 DEF Cut
  <2>3. QED BY <2>1, <2>2 DEF Cut
<1>6. ASSUME NEW q \in Party PROVE DeviceCalm(q, device[q])'
  <2>1. CASE q = p
    <3>1. device'[q] = d BY <1>2, <2>1
    <3>2. d.stage \in {"setup", "sign", "signed", "failed"} BY DEF GoesOn, Signing
    <3>3. QED BY <1>1, <1>5, <2>1, <3>1, <3>2 DEF DeviceCalm, GoesOn, Fresh
  <2>2. CASE q # p
    <3>1. device'[q] = device[q] /\ DeviceCalm(q, device[q]) BY <1>2, <2>2 DEF Calm
    <3>2. QED BY <1>5, <3>1 DEF DeviceCalm, Several
  <2>3. QED BY <2>1, <2>2
<1>7. ASSUME NEW q \in Party, device'[q].stage = "sign"
      PROVE  CallCalm(q, device[q], loops[q], relay)'
  <2>1. CASE q = p
    <3>1. device'[q] = d /\ loops'[q] = l /\ CallCalm(q, d, l, relay')
          BY <1>2, <1>7, <2>1 DEF GoesOn
    <3>2. QED BY <1>1, <1>3, <1>5, <3>1 DEF CallCalm, HasRound, Finished
  <2>2. CASE q # p
    <3>1. device'[q] = device[q] /\ loops'[q] = loops[q] /\ CallCalm(q, device[q], loops[q], relay)
          BY <1>2, <1>7, <2>2 DEF Calm, Is
    <3>2. QED BY <1>1, <1>3, <1>5, <3>1 DEF CallCalm, HasRound, Finished
  <2>3. QED BY <2>1, <2>2
<1>8. SessionCalm' BY DEF Calm, SessionCalm, Several
<1>9. ASSUME NEW m \in relay', m.of = loops'[m.from].step PROVE m.round <= loops'[m.from].sent
  <2>1. CASE m \in relay
    <3>1. m.from \in Party /\ m.of \in Nat /\ m.round \in Nat
          BY <1>1, <2>1, SettingTypes DEF RelayMessage, LInv
    <3>2. loops[m.from].step >= m.of BY <2>1 DEF LInv, StepInv
    <3>3. CASE m.from = p
      <4>1. m.of = l.step /\ l.step = loops[p].step BY <1>2, <1>4, <1>9, <3>1, <3>2, <3>3 DEF GoesOn
      <4>2. m.round <= loops[p].sent BY <2>1, <3>3, <4>1 DEF Calm, RelayCalm
      <4>3. l.sent >= loops[p].sent BY <1>4, <4>1 DEF GoesOn
      <4>4. QED BY <1>2, <1>4, <3>1, <3>3, <4>2, <4>3
    <3>4. CASE m.from # p BY <1>2, <1>9, <2>1, <3>1, <3>4 DEF Calm, RelayCalm
    <3>5. QED BY <3>3, <3>4
  <2>2. CASE m \notin relay BY <1>2, <2>2 DEF GoesOn
  <2>3. QED BY <2>1, <2>2
<1>10. RelayCalm' BY <1>9 DEF RelayCalm
<1>11. SetupCalm'
  <2>1. CASE p = Initiator BY <1>1, <1>2, <2>1 DEF SetupCalm, GoesOn, HasSetup
  <2>2. CASE p # Initiator BY <1>1, <1>2, <2>2 DEF Calm, SetupCalm, HasSetup
  <2>3. QED BY <2>1, <2>2
<1>12. QED BY <1>6, <1>7, <1>8, <1>10, <1>11 DEF Calm, Is

-----------------------------------------------------------------------------
LEMMA SessionStepsCalm ==
    ASSUME LInv, CInv', kind = "sign", faults = 0, Calm, faults' = 0, NEW p \in Party,
           UNCHANGED signVars, SessionStep(p) \/ SessionEvent(p)
    PROVE  Calm'
<1>1. /\ device[p] \in Device /\ SessionTypeOK /\ joined \subseteq Party
      /\ DeviceCalm(p, device[p]) /\ Required \in Nat \ {0, 1}
      BY RelaySessionAssumption DEF LInv, CInv, SessionTypeOK, Calm, Required
<1>2. \A f : ~ Fails(f) BY <1>1, FailsCounted
<1>3. device[p].stage \in Fresh => device[p].why = "none" BY <1>1 DEF DeviceCalm
(* p goes on to another stage. *)
<1>4. ASSUME NEW d, device' = [device EXCEPT ![p] = d], d.why = "none",
             device[p].stage \in Fresh, setting' = setting,
             joined' \in {joined, joined \cup {p}},
             \/ started' = started
             \/ p = Initiator /\ device[p].stage = "start" /\ started' = device[p].committee,
             d.stage \in {"gather", "await", "start", "setup"},
             d.stage = "gather" => p \in joined',
             d.stage = "await" => p # Initiator,
             d.stage = "start" =>
                 d.committee \subseteq joined' /\ p \in d.committee /\ Several(d.committee)
      PROVE  Calm'
  <2>1. DeviceCalm(p, d)' BY <1>4 DEF DeviceCalm, Several
  <2>2. QED BY <1>4, <2>1, SessionStaysCalm
(* p gives up. *)
<1>5. ASSUME NEW why, Throws(p, why), device[p].stage \in Fresh, UNCHANGED <<setting, joined, started>>,
             IF p = Initiator THEN started = {} ELSE TRUE,
             IF p = Initiator THEN why = "devices" ELSE why = "start"
      PROVE  Calm'
  <2>1. PICK d : d = [device[p] EXCEPT !.stage = "failed", !.why = why] OBVIOUS
  <2>2. d.stage = "failed" /\ d.why = why BY <1>1, <2>1 DEF Device
  <2>3. device' = [device EXCEPT ![p] = d] BY <1>5, <2>1 DEF Throws
  <2>4. DeviceCalm(p, d)' BY <1>5, <2>2 DEF DeviceCalm, Fresh
  <2>5. QED BY <1>5, <2>2, <2>3, <2>4, SessionStaysCalm
<1>6. CASE Join(p)
  <2> DEFINE s == IF p # Initiator THEN "await" ELSE "gather"
             d == [device[p] EXCEPT !.stage = s]
  <2>1. d.stage = s /\ d.why = device[p].why BY <1>1 DEF Device
  <2>2. /\ device' = [device EXCEPT ![p] = d] /\ joined' = joined \cup {p}
        /\ UNCHANGED <<setting, started>> /\ device[p].stage = "idle"
        BY <1>6 DEF Join, Goto, Is
  <2> HIDE DEF d
  <2>3. QED BY <1>3, <1>4, <2>1, <2>2 DEF Fresh
<1>7. CASE Gather(p)
  <2> DEFINE d == [device[p] EXCEPT !.stage = "start", !.committee = joined, !.ready = FALSE]
  <2>1. d.stage = "start" /\ d.why = device[p].why /\ d.committee = joined BY <1>1 DEF Device
  <2>2. /\ device' = [device EXCEPT ![p] = d] /\ UNCHANGED <<setting, joined, started>>
        /\ device[p].stage = "gather"
        BY <1>7 DEF Gather, Is
  <2>3. p \in joined BY <1>1, <2>2 DEF DeviceCalm
  <2>4. Several(joined)
    <3>1. SUFFICES ASSUME NEW q \in Party, joined \ {q} = {} PROVE FALSE BY DEF Several
    <3>2. joined \subseteq {q} BY <3>1
    <3>3. Cardinality(joined) <= 1
      <4>1. IsFiniteSet({q}) /\ Cardinality({q}) = 1 BY FS_Singleton
      <4>2. QED BY <3>2, <4>1, FS_Subset
    <3>4. IsFiniteSet(joined) BY <1>1, FS_Subset, RelaySessionAssumption
    <3>5. Cardinality(joined) >= Required /\ Cardinality(joined) \in Nat
          BY <1>7, <3>4, FS_CardinalityType DEF Gather, Gathered
    <3>6. QED BY <1>1, <3>3, <3>5
  <2> HIDE DEF d
  <2>5. QED BY <1>3, <1>4, <2>1, <2>2, <2>3, <2>4 DEF Fresh
<1>8. CASE Start(p)
  <2> DEFINE d == [device[p] EXCEPT !.stage = "setup", !.ready = TRUE]
  <2>1. d.stage = "setup" /\ d.why = device[p].why BY <1>1 DEF Device
  <2>2. /\ device' = [device EXCEPT ![p] = d] /\ UNCHANGED <<setting, joined>>
        /\ device[p].stage = "start" /\ started' = device[p].committee
        BY <1>8 DEF Start, Proceeds, Is
  <2>3. p = Initiator BY <2>2 DEF LInv, StartInv
  <2> HIDE DEF d
  <2>4. QED BY <1>3, <1>4, <2>1, <2>2, <2>3 DEF Fresh
<1>9. CASE AwaitStart(p)
  <2> DEFINE d == [device[p] EXCEPT !.stage = "setup", !.committee = started, !.ready = TRUE]
  <2>1. d.stage = "setup" /\ d.why = device[p].why BY <1>1 DEF Device
  <2>2. /\ device' = [device EXCEPT ![p] = d] /\ UNCHANGED <<setting, joined, started>>
        /\ device[p].stage = "await"
        BY <1>9 DEF AwaitStart, Is
  <2> HIDE DEF d
  <2>3. QED BY <1>3, <1>4, <2>1, <2>2 DEF Fresh
<1>10. CASE AwaitTimesOut(p)
  <2>1. device[p].stage = "await" /\ p # Initiator BY <1>1, <1>10 DEF AwaitTimesOut, Is, DeviceCalm
  <2>2. QED BY <1>5, <1>10, <2>1 DEF AwaitTimesOut, Fresh
<1>11. CASE GatherTimesOut(p)
  <2>1. device[p].stage = "gather" /\ p = Initiator /\ started = {}
        BY <1>11 DEF GatherTimesOut, Is, LInv, StartInv, Early
  <2>2. QED BY <1>5, <1>11, <2>1 DEF GatherTimesOut, Fresh
<1>12. device[p].stage # "check" BY <1>1 DEF DeviceCalm
<1>13. QED
      BY <1>2, <1>6, <1>7, <1>8, <1>9, <1>10, <1>11, <1>12
      DEF SessionStep, SessionEvent, JoinFails, GatherFindsMore, StartFails, StartRetries,
          CheckFindsStart, CheckFindsNothing, Cancel, Crash, Is

-----------------------------------------------------------------------------
(* p fails in its call. *)
LEMMA ThrowsCalm ==
    ASSUME LInv, CInv', kind = "sign", Calm, NEW p \in Party, device[p].stage \in {"setup", "sign"},
           UNCHANGED <<setting, joined, started, signVars>>,
           NEW why, Throws(p, why),
           IF p = Initiator THEN why = "timeout" ELSE why \in {"setup", "session", "timeout"},
           why = "session" => p \notin started,
           why \in {"setup", "timeout"} => Cut
    PROVE  Calm'
<1>1. /\ device[p] \in Device /\ loops \in [Party -> Loops] /\ Messages \in Nat
      /\ loops[p].step \in Nat /\ loops[p].sent \in Nat
      /\ UNCHANGED <<setups, relay, loops>>
      BY SettingTypes DEF LInv, SignTypeOK, Loops, signVars
<1> DEFINE d == [device[p] EXCEPT !.stage = "failed", !.why = why]
<1>2. d.stage = "failed" /\ d.why = why /\ d.committee = device[p].committee BY <1>1 DEF Device
<1>3. device' = [device EXCEPT ![p] = d] /\ loops' = [loops EXCEPT ![p] = loops[p]]
      BY <1>1 DEF Throws
<1> HIDE DEF d
<1>4. p = Initiator => \A n \in 1 .. Messages : HasSetup(n, d, loops[p]) => n \in setups'
      BY <1>1, <1>2 DEF Calm, SetupCalm, HasSetup
<1>5. GoesOn(p, d, loops[p]) BY <1>1, <1>2, <1>4 DEF GoesOn, Signing
<1>6. QED BY <1>1, <1>3, <1>5, ProtocolStaysCalm

(* The session for a message is made. *)
LEMMA BeginsCalm ==
    ASSUME LInv, CInv', kind = "sign", Calm, NEW p \in Party, device[p].stage = "setup",
           UNCHANGED <<setting, joined, started, relay, loops>>, setups \subseteq setups',
           Goto(p, "sign"), p \in started, p = Initiator => loops[p].step \in setups'
    PROVE  Calm'
<1>1. /\ device[p] \in Device /\ loops \in [Party -> Loops] /\ Messages \in Nat
      /\ Rounds \in Nat \ {0} /\ loops[p] = Call(loops[p].step) /\ loops[p].step \in Nat
      /\ device[p].committee = started
      BY SettingTypes DEF LInv, SignTypeOK, StartInv, Signing, Loops
<1>2. /\ loops[p].inb = "poll" /\ loops[p].outb = "run" /\ loops[p].got = {} /\ loops[p].sent = 0
      /\ loops[p].due = {} /\ loops[p].aborted = FALSE
      BY <1>1 DEF Call
<1> DEFINE d == [device[p] EXCEPT !.stage = "sign"]
<1>3. d.stage = "sign" /\ d.why = device[p].why /\ d.committee = device[p].committee
      BY <1>1 DEF Device
<1>4. device' = [device EXCEPT ![p] = d] /\ loops' = [loops EXCEPT ![p] = loops[p]]
      BY <1>1 DEF Goto
<1> HIDE DEF d
(* There is a peer, whose messages are still to come. *)
<1>5. ~ Finished(p, {})
  <2>1. Peers(p) # {} BY <1>1 DEF Calm, SessionCalm, Several, Peers
  <2>2. ~ HasRound(p, {}, 1) BY <2>1 DEF HasRound
  <2>3. QED BY <1>1, <2>2 DEF Finished
<1>6. CallCalm(p, d, loops[p], relay') BY <1>2, <1>5 DEF CallCalm
<1>7. p = Initiator => \A n \in 1 .. Messages : HasSetup(n, d, loops[p]) => n \in setups'
      BY <1>1 DEF Calm, SetupCalm, HasSetup
<1>8. DeviceCalm(p, device[p]) BY DEF Calm
<1>9. GoesOn(p, d, loops[p]) BY <1>1, <1>2, <1>3, <1>6, <1>7, <1>8 DEF GoesOn, Signing, DeviceCalm
<1>10. QED BY <1>1, <1>4, <1>9, ProtocolStaysCalm

(* p goes on in its call. *)
LEMMA CallStaysCalm ==
    ASSUME LInv, CInv', kind = "sign", Calm, NEW p \in Party, device[p].stage = "sign",
           UNCHANGED <<setting, joined, started, setups>>, relay \subseteq relay',
           NEW why, device' = [device EXCEPT ![p] = [device[p] EXCEPT !.why = why]],
           why = device[p].why \/ (why = "timeout" /\ Cut),
           NEW l \in Loops, loops' = [loops EXCEPT ![p] = l],
           l.step = loops[p].step, l.sent >= loops[p].sent,
           \A m \in relay' \ relay : m.from = p /\ m.of = l.step /\ m.round <= l.sent,
           CallCalm(p, [device[p] EXCEPT !.why = why], l, relay')
    PROVE  Calm'
<1>1. /\ device[p] \in Device /\ Messages \in Nat /\ l.step \in Nat
      BY SettingTypes DEF LInv, Loops
<1> DEFINE d == [device[p] EXCEPT !.why = why]
<1>2. d.stage = "sign" /\ d.why = why /\ d.committee = device[p].committee BY <1>1 DEF Device
<1>3. CallCalm(p, d, l, relay') /\ device' = [device EXCEPT ![p] = d] OBVIOUS
<1> HIDE DEF d
<1>4. DeviceCalm(p, device[p]) BY DEF Calm
<1>5. p = Initiator => \A n \in 1 .. Messages : HasSetup(n, d, l) => n \in setups'
      BY <1>2 DEF Calm, SetupCalm, HasSetup
<1>6. GoesOn(p, d, l) BY <1>1, <1>2, <1>3, <1>4, <1>5 DEF GoesOn, Signing, DeviceCalm
<1>7. QED BY <1>3, <1>6, ProtocolStaysCalm

(* ... which its device does not notice. *)
LEMMA LoopsStayCalm ==
    ASSUME LInv, CInv', kind = "sign", Calm, NEW p \in Party, device[p].stage = "sign",
           UNCHANGED <<setting, joined, started, device, setups>>, relay \subseteq relay',
           NEW l \in Loops, loops' = [loops EXCEPT ![p] = l],
           l.step = loops[p].step, l.sent >= loops[p].sent,
           \A m \in relay' \ relay : m.from = p /\ m.of = l.step /\ m.round <= l.sent,
           CallCalm(p, device[p], l, relay')
    PROVE  Calm'
<1>1. device \in [Party -> Device] BY SettingTypes DEF LInv
<1>2. PICK why : why = device[p].why OBVIOUS
<1>3. [device[p] EXCEPT !.why = why] = device[p] BY <1>1, <1>2 DEF Device
<1>4. device' = [device EXCEPT ![p] = [device[p] EXCEPT !.why = why]] BY <1>1, <1>3
<1>5. CallCalm(p, [device[p] EXCEPT !.why = why], l, relay') BY <1>3
<1>6. QED BY <1>2, <1>4, <1>5, CallStaysCalm

(* ... and in which it puts out nothing. *)
LEMMA QuietLoopsStayCalm ==
    ASSUME LInv, CInv', kind = "sign", Calm, NEW p \in Party, device[p].stage = "sign",
           UNCHANGED <<setting, joined, started, device, setups, relay>>,
           NEW l \in Loops, loops' = [loops EXCEPT ![p] = l],
           l.step = loops[p].step, l.sent = loops[p].sent,
           CallCalm(p, device[p], l, relay')
    PROVE  Calm'
<1>1. loops[p].sent \in Nat BY SettingTypes DEF LInv, SignTypeOK, Loops
<1>2. relay \subseteq relay' /\ l.sent >= loops[p].sent BY <1>1
<1>3. \A m \in relay' \ relay : m.from = p /\ m.of = l.step /\ m.round <= l.sent OBVIOUS
<1>4. UNCHANGED <<setting, joined, started, device, setups>> OBVIOUS
<1>5. QED BY <1>2, <1>3, <1>4, LoopsStayCalm

LEMMA InboundStepsCalm ==
    ASSUME LInv, CInv', kind = "sign", faults = 0, Calm, faults' = 0, NEW p \in Party, InboundStep(p)
    PROVE  Calm'
<1>1. /\ device[p] \in Device /\ SessionTypeOK /\ loops \in [Party -> Loops] /\ loops[p] \in Loops
      /\ loops[p].step \in 1 .. Messages /\ loops[p].sent \in 0 .. Rounds
      /\ Messages \in Nat \ {0} /\ Rounds \in Nat \ {0} /\ relay \subseteq RelayMessage
      BY SettingTypes DEF LInv, CInv, SignTypeOK, Loops
<1>2. \A f : ~ Fails(f) BY <1>1, FailsCounted
<1>3. DeviceCalm(p, device[p]) BY DEF Calm
<1>4. device[p].stage = "setup" =>
          /\ device[p].committee = started /\ started # {}
      BY DEF LInv, StartInv, Signing
<1>5. device[p].stage = "sign" => CallCalm(p, device[p], loops[p], relay)
      BY DEF Calm, Is
<1>6. CASE Upload(p)
  <2>1. /\ device[p].stage = "setup" /\ p = Initiator /\ setups' = setups \cup {loops[p].step}
        /\ Goto(p, "sign") /\ UNCHANGED <<setting, joined, started, relay, loops>>
        BY <1>6 DEF Upload, Is, Current, MessageAt
  <2>2. p \in started BY <1>4, <2>1 DEF Calm, SessionCalm
  <2>3. QED BY <2>1, <2>2, BeginsCalm
<1>7. CASE SetupArrives(p)
  <2>1. /\ device[p].stage = "setup" /\ p # Initiator
        /\ UNCHANGED <<setting, joined, started, setups, relay, loops>>
        BY <1>7 DEF SetupArrives, Is, signVars
  <2>2. CASE p \in started BY <1>4, <1>7, <2>1, <2>2, BeginsCalm DEF SetupArrives
  <2>3. CASE p \notin started
    <3>1. Throws(p, "session") BY <1>4, <1>7, <2>1, <2>3 DEF SetupArrives
    <3>2. QED BY <2>1, <2>3, <3>1, ThrowsCalm DEF signVars
  <2>4. QED BY <2>2, <2>3
<1>8. CASE SetupTimesOut(p)
  <2>1. /\ Is(p, "setup") /\ p # Initiator /\ Current(p) \notin setups /\ Stalled
        /\ Throws(p, "setup") /\ UNCHANGED <<setting, joined, started, signVars>>
        BY <1>2, <1>8 DEF SetupTimesOut
  <2>2. Cut BY <2>1, StalledCut
  <2>3. QED BY <2>1, <2>2, ThrowsCalm DEF Is
<1>9. CASE Fetch(p)
  <2> DEFINE l == [loops[p] EXCEPT !.inb = "feed", !.batch = Inbox(p)]
  <2>1. /\ l.inb = "feed" /\ l.got = loops[p].got /\ l.step = loops[p].step /\ l.outb = loops[p].outb
        /\ l.due = loops[p].due /\ l.sent = loops[p].sent /\ l.aborted = loops[p].aborted
        BY <1>1 DEF Loops
  <2>2. Inbox(p) \subseteq RelayMessage BY <1>1 DEF Inbox
  <2>3. l \in Loops BY <1>1, <2>2 DEF Loops
  <2>4. /\ loops' = [loops EXCEPT ![p] = l] /\ device[p].stage = "sign" /\ ~ loops[p].aborted
        /\ loops[p].inb = "poll" /\ UNCHANGED <<setting, joined, started, device, setups, relay>>
        BY <1>9 DEF Fetch, Update, Inbound, Is, sessionVars
  <2> HIDE DEF l
  <2>5. CallCalm(p, device[p], l, relay') BY <1>5, <2>1, <2>4 DEF CallCalm
  <2>6. QED BY <2>1, <2>3, <2>4, <2>5, QuietLoopsStayCalm
<1>10. CASE Feed(p)
  <2> DEFINE inb == IF Finished(p, Taken(p)) THEN "done" ELSE "poll"
             aborted == IF Finished(p, Taken(p)) THEN TRUE ELSE loops[p].aborted
             l == [loops[p] EXCEPT !.inb = inb, !.aborted = aborted, !.batch = {}, !.got = Taken(p)]
  <2>1. /\ l.inb = inb /\ l.got = Taken(p) /\ l.step = loops[p].step /\ l.outb = loops[p].outb
        /\ l.due = loops[p].due /\ l.sent = loops[p].sent /\ l.aborted = aborted
        BY <1>1 DEF Loops
  <2>2. Taken(p) \subseteq RelayMessage BY <1>1 DEF Taken, Loops
  <2>3. inb \in {"poll", "done"} /\ aborted \in BOOLEAN BY <1>1 DEF Loops
  <2>4. l \in Loops BY <1>1, <2>2, <2>3 DEF Loops
  <2>5. /\ device[p].stage = "sign" /\ loops[p].inb = "feed"
        /\ UNCHANGED <<setting, joined, started, device, setups, relay>>
        BY <1>10 DEF Feed, Inbound, Is, sessionVars
  <2>6. loops' = [loops EXCEPT ![p] = l]
    <3>1. CASE Finished(p, Taken(p))
      <4>1. l = [loops[p] EXCEPT !.inb = "done", !.aborted = TRUE, !.batch = {}, !.got = Taken(p)]
            BY <3>1
      <4>2. QED BY <1>10, <3>1, <4>1 DEF Feed, Update
    <3>2. CASE ~ Finished(p, Taken(p))
      <4>1. l = [loops[p] EXCEPT !.inb = "poll", !.batch = {}, !.got = Taken(p)]
            BY <1>1, <3>2 DEF Loops
      <4>2. QED BY <1>10, <3>2, <4>1 DEF Feed, Update
    <3>3. QED BY <3>1, <3>2
  <2>7. CallCalm(p, device[p], l, relay')
    <3>1. \A r : HasRound(p, loops[p].got, r) => HasRound(p, l.got, r)
          BY <2>1 DEF HasRound, Taken
    <3>2. l.inb = "poll" => ~ Finished(p, l.got) /\ l.aborted = loops[p].aborted
      <4>1. CASE Finished(p, Taken(p)) BY <2>1, <4>1
      <4>2. CASE ~ Finished(p, Taken(p))
        <5>1. aborted = loops[p].aborted BY <4>2
        <5>2. QED BY <2>1, <4>2, <5>1
      <4>3. QED BY <4>1, <4>2
    <3>3. l.inb # "poll" => l.inb = "done" /\ l.aborted BY <2>1
    <3> HIDE DEF l
    <3>4. QED BY <1>5, <2>1, <2>5, <3>1, <3>2, <3>3 DEF CallCalm
  <2> HIDE DEF l
  <2>8. QED BY <2>1, <2>4, <2>5, <2>6, <2>7, QuietLoopsStayCalm
<1>11. CASE Timer(p)
  <2>1. /\ Is(p, "sign") /\ ~ loops[p].aborted /\ Stalled
        /\ UNCHANGED <<setting, joined, started, device, setups, relay>>
        BY <1>2, <1>11 DEF Timer
  <2>2. Cut BY <2>1, StalledCut
  <2> DEFINE l == [loops[p] EXCEPT !.aborted = TRUE]
  <2>3. /\ l.inb = loops[p].inb /\ l.got = loops[p].got /\ l.step = loops[p].step
        /\ l.outb = loops[p].outb /\ l.due = loops[p].due /\ l.sent = loops[p].sent
        /\ l.aborted = TRUE /\ l \in Loops
        BY <1>1 DEF Loops
  <2>4. loops' = [loops EXCEPT ![p] = l] BY <1>11 DEF Timer, Update
  <2> HIDE DEF l
  <2>5. CallCalm(p, device[p], l, relay') BY <1>5, <2>1, <2>2, <2>3 DEF CallCalm, Is
  <2>6. device[p].stage = "sign" BY <2>1 DEF Is
  <2>7. QED BY <2>1, <2>3, <2>4, <2>5, <2>6, QuietLoopsStayCalm
<1>12. CASE InboundTimesOut(p)
  <2>1. /\ device[p].stage = "sign" /\ loops[p].inb = "poll" /\ loops[p].aborted
        /\ device' = [device EXCEPT ![p] = [device[p] EXCEPT !.why = "timeout"]]
        /\ UNCHANGED <<setting, joined, started, setups, relay>>
        BY <1>12 DEF InboundTimesOut, Inbound, Is
  <2>2. Cut BY <1>5, <2>1 DEF CallCalm
  <2> DEFINE l == [loops[p] EXCEPT !.inb = "error"]
  <2>3. /\ l.inb = "error" /\ l.got = loops[p].got /\ l.step = loops[p].step
        /\ l.outb = loops[p].outb /\ l.due = loops[p].due /\ l.sent = loops[p].sent
        /\ l.aborted = loops[p].aborted /\ l \in Loops
        BY <1>1 DEF Loops
  <2>4. loops' = [loops EXCEPT ![p] = l] BY <1>12 DEF InboundTimesOut, Update
  <2> HIDE DEF l
  <2>5. [device[p] EXCEPT !.why = "timeout"].why = "timeout" BY <1>1 DEF Device
  <2>6. CallCalm(p, [device[p] EXCEPT !.why = "timeout"], l, relay')
        BY <1>5, <2>1, <2>3, <2>5 DEF CallCalm
  <2>7. PICK why : why = "timeout" OBVIOUS
  <2>8. /\ relay \subseteq relay' /\ l.sent >= loops[p].sent
        /\ \A m \in relay' \ relay : m.from = p /\ m.of = l.step /\ m.round <= l.sent
        BY <1>1, <2>1, <2>3
  <2>9. device' = [device EXCEPT ![p] = [device[p] EXCEPT !.why = why]] BY <2>1, <2>7
  <2>10. CallCalm(p, [device[p] EXCEPT !.why = why], l, relay') BY <2>6, <2>7
  <2>11. why = device[p].why \/ (why = "timeout" /\ Cut) BY <2>2, <2>7
  <2>12. UNCHANGED <<setting, joined, started, setups>> BY <2>1
  <2>13. QED BY <2>1, <2>3, <2>4, <2>8, <2>9, <2>10, <2>11, <2>12, CallStaysCalm
<1>13. CASE Return(p)
  <2>1. /\ device[p].stage = "sign" /\ loops[p].inb = "done"
        /\ UNCHANGED <<setting, joined, started, setups, relay>>
        BY <1>13 DEF Return, BothOver, Is
  <2>2. p \in started BY <1>3, <2>1 DEF DeviceCalm
  <2>3. p = Initiator => \A n \in 1 .. Messages : n <= loops[p].step => n \in setups
        BY <1>1, <2>1 DEF Calm, SetupCalm, HasSetup
  <2>4. CASE loops[p].step < Messages
    <3> DEFINE k == loops[p].step + 1
               l == Call(k)
               d == [device[p] EXCEPT !.stage = "setup"]
    <3>1. k \in 1 .. Messages BY <1>1, <2>4
    <3>2. l \in Loops /\ l.step = k BY <3>1, CallType DEF LInv
    <3>3. d.stage = "setup" /\ d.why = device[p].why /\ d.committee = device[p].committee
          BY <1>1 DEF Device
    <3>4. device' = [device EXCEPT ![p] = d] /\ loops' = [loops EXCEPT ![p] = l]
          BY <1>13, <2>4 DEF Return, Goto, Update
    <3>5. l.step > loops[p].step BY <1>1, <3>2
    <3>6. p = Initiator => \A n \in 1 .. Messages : HasSetup(n, d, l) => n \in setups'
          BY <1>1, <2>1, <2>3, <3>2, <3>3 DEF HasSetup
    <3> HIDE DEF d, l
    <3>7. GoesOn(p, d, l) BY <1>3, <2>1, <2>2, <3>3, <3>5, <3>6 DEF GoesOn, Signing, DeviceCalm
    <3>8. QED BY <2>1, <3>2, <3>4, <3>7, ProtocolStaysCalm
  <2>5. CASE ~ (loops[p].step < Messages)
    <3> DEFINE d == [device[p] EXCEPT !.stage = "signed"]
    <3>1. d.stage = "signed" /\ d.why = device[p].why /\ d.committee = device[p].committee
          BY <1>1 DEF Device
    <3>2. device' = [device EXCEPT ![p] = d] /\ loops' = [loops EXCEPT ![p] = loops[p]]
          BY <1>1, <1>13, <2>5 DEF Return, Goto, Update
    <3>3. p = Initiator => \A n \in 1 .. Messages : HasSetup(n, d, loops[p]) => n \in setups'
          BY <1>1, <2>1, <2>3 DEF HasSetup
    <3> HIDE DEF d
    <3>4. GoesOn(p, d, loops[p])
          BY <1>1, <1>3, <2>1, <2>2, <3>1, <3>3 DEF GoesOn, Signing, DeviceCalm
    <3>5. QED BY <1>1, <2>1, <3>2, <3>4, ProtocolStaysCalm
  <2>6. QED BY <2>4, <2>5
<1>14. CASE ReturnError(p)
  <2>1. /\ device[p].stage = "sign" /\ loops[p].inb = "error" /\ Throws(p, device[p].why)
        /\ UNCHANGED <<setting, joined, started, signVars>>
        BY <1>14 DEF ReturnError, BothOver, Is
  <2>2. device[p].why = "timeout" BY <1>5, <2>1 DEF CallCalm
  <2>3. Cut BY <1>3, <2>2 DEF DeviceCalm
  <2>4. QED BY <2>1, <2>2, <2>3, ThrowsCalm
<1>15. QED
      BY <1>2, <1>6, <1>7, <1>8, <1>9, <1>10, <1>11, <1>12, <1>13, <1>14
      DEF InboundStep, UploadFails, FetchFails, CancelSigned

LEMMA OutboundStepsCalm ==
    ASSUME LInv, CInv', kind = "sign", faults = 0, Calm, faults' = 0, NEW p \in Party, OutboundStep(p)
    PROVE  Calm'
<1>1. /\ device[p] \in Device /\ SessionTypeOK /\ loops \in [Party -> Loops] /\ loops[p] \in Loops
      /\ loops[p].step \in 1 .. Messages /\ loops[p].sent \in 0 .. Rounds
      /\ Messages \in Nat \ {0} /\ Rounds \in Nat \ {0}
      /\ loops[p].due \subseteq Peers(p) /\ Peers(p) \subseteq Party
      BY SettingTypes DEF LInv, CInv, SessionTypeOK, SignTypeOK, Loops, Device, Peers
<1>2. \A f : ~ Fails(f) BY <1>1, FailsCounted
<1>3. /\ UNCHANGED <<setting, joined, started, device, setups>> /\ device[p].stage = "sign"
      BY <1>2 DEF OutboundStep, Output, OutboundStops, Post, PostFails, Outbound, Is, sessionVars
<1>4. CallCalm(p, device[p], loops[p], relay) BY <1>3 DEF Calm, Is
<1>5. CASE Output(p)
  <2> DEFINE n == loops[p].sent + 1
             l == [loops[p] EXCEPT !.outb = "post", !.sent = n, !.due = Peers(p)]
  <2>1. n \in 0 .. Rounds /\ n > loops[p].sent BY <1>1, <1>5 DEF Output, HasOutput, NextRound
  <2>2. /\ l.inb = loops[p].inb /\ l.got = loops[p].got /\ l.step = loops[p].step
        /\ l.due = Peers(p) /\ l.sent = n /\ l.outb = "post" /\ l.aborted = loops[p].aborted
        BY <1>1 DEF Loops
  <2>3. /\ loops' = [loops EXCEPT ![p] = l] /\ UNCHANGED relay /\ ~ loops[p].aborted
        /\ loops[p].outb = "run" /\ \A r \in 1 .. n - 1 : HasRound(p, loops[p].got, r)
        BY <1>5 DEF Output, HasOutput, NextRound, Outbound, Update
  <2> HIDE DEF n
  <2>4. l \in Loops
    <3> DEFINE posting == [loops[p] EXCEPT !.outb = "post"]
    <3>1. posting \in Loops BY <1>1 DEF Loops
    <3> HIDE DEF posting
    <3>2. [posting EXCEPT !.sent = n, !.due = Peers(p)] \in Loops BY <1>1, <2>1, <3>1 DEF Loops
    <3>3. l = [posting EXCEPT !.sent = n, !.due = Peers(p)] BY DEF posting
    <3>4. QED BY <3>2, <3>3
  <2> HIDE DEF l
(* What was put out before has been posted; this round is to be. *)
  <2>5. ASSUME NEW q \in Peers(p), NEW r \in 1 .. n
        PROVE  \/ [of |-> l.step, from |-> p, to |-> q, round |-> r] \in relay'
               \/ r = n /\ q \in l.due
    <3>1. CASE r = n BY <2>2, <3>1
    <3>2. CASE r # n
      <4>1. r \in 1 .. loops[p].sent BY <1>1, <2>1, <3>2 DEF n
      <4>2. loops[p].due = {} BY <1>4, <2>3 DEF CallCalm
      <4>3. QED BY <1>4, <2>2, <2>3, <4>1, <4>2 DEF CallCalm
    <3>3. QED BY <3>1, <3>2
  <2>6. CallCalm(p, device[p], l, relay') BY <1>4, <2>2, <2>3, <2>5 DEF CallCalm
  <2>7. /\ relay \subseteq relay' /\ l.sent >= loops[p].sent
        /\ \A m \in relay' \ relay : m.from = p /\ m.of = l.step /\ m.round <= l.sent
        BY <1>1, <2>1, <2>2, <2>3
  <2>8. QED BY <1>3, <2>2, <2>3, <2>4, <2>6, <2>7, LoopsStayCalm
<1>6. CASE OutboundStops(p)
  <2> DEFINE l == [loops[p] EXCEPT !.outb = "done"]
  <2>1. /\ l.inb = loops[p].inb /\ l.got = loops[p].got /\ l.step = loops[p].step
        /\ l.due = loops[p].due /\ l.sent = loops[p].sent /\ l.outb = "done"
        /\ l.aborted = loops[p].aborted /\ l \in Loops
        BY <1>1 DEF Loops
  <2>2. loops' = [loops EXCEPT ![p] = l] /\ UNCHANGED relay /\ loops[p].aborted
        BY <1>6 DEF OutboundStops, Update, Drained
  <2> HIDE DEF l
  <2>3. CallCalm(p, device[p], l, relay') BY <1>4, <2>1, <2>2 DEF CallCalm
  <2>4. UNCHANGED <<setting, joined, started, device, setups, relay>> BY <1>3, <2>2
  <2>5. QED BY <1>3, <2>1, <2>2, <2>3, <2>4, QuietLoopsStayCalm
<1>7. ASSUME NEW q \in Party, Post(p, q) PROVE Calm'
  <2> DEFINE o == IF loops[p].due = {q} THEN "run" ELSE "post"
             rest == loops[p].due \ {q}
             l == [loops[p] EXCEPT !.due = rest, !.outb = o]
  <2>1. /\ l.inb = loops[p].inb /\ l.got = loops[p].got /\ l.step = loops[p].step
        /\ l.due = rest /\ l.sent = loops[p].sent /\ l.outb = o /\ l.aborted = loops[p].aborted
        BY <1>1 DEF Loops
  <2>2. rest \subseteq Party /\ o \in {"run", "post"} /\ (o = "run" => rest = {}) BY <1>1
  <2>3. l \in Loops BY <1>1, <2>2 DEF Loops
  <2>4. /\ loops' = [loops EXCEPT ![p] = l] /\ q \in loops[p].due
        /\ relay' = relay \cup {ToRelay(p, q)}
        BY <1>7 DEF Post, Posted, Update
  <2>5. ToRelay(p, q) = [of |-> l.step, from |-> p, to |-> q, round |-> l.sent]
        BY <2>1 DEF ToRelay, Current, MessageAt
  <2> HIDE DEF l
  <2>6. ASSUME NEW s \in Peers(p), NEW r \in 1 .. l.sent
        PROVE  \/ [of |-> l.step, from |-> p, to |-> s, round |-> r] \in relay'
               \/ r = l.sent /\ s \in l.due
    <3>1. \/ [of |-> l.step, from |-> p, to |-> s, round |-> r] \in relay
          \/ r = l.sent /\ s \in loops[p].due
          BY <1>4, <2>1 DEF CallCalm
    <3>2. CASE s = q BY <2>4, <2>5, <3>1, <3>2
    <3>3. CASE s # q BY <2>1, <2>4, <3>1, <3>3
    <3>4. QED BY <3>2, <3>3
  <2>7. CallCalm(p, device[p], l, relay')
    <3>1. l.outb = "run" => l.due = {} BY <2>1, <2>2
    <3>2. l.outb \in {"run", "post"} BY <2>1, <2>2
    <3> HIDE DEF o, rest
    <3>3. QED BY <1>4, <2>1, <2>6, <3>1, <3>2 DEF CallCalm
  <2>8. relay \subseteq relay' /\ l.sent >= loops[p].sent BY <1>1, <2>1, <2>4
  <2>9. \A m \in relay' \ relay : m.from = p /\ m.of = l.step /\ m.round <= l.sent
        BY <1>1, <2>1, <2>4, <2>5
  <2>10. QED BY <1>3, <2>1, <2>3, <2>4, <2>7, <2>8, <2>9, LoopsStayCalm
<1>8. QED BY <1>2, <1>5, <1>6, <1>7 DEF OutboundStep, PostFails

LEMMA CalmNext == LInv /\ CInv' /\ CalmInv /\ [Next]_vars => CalmInv'
<1> SUFFICES ASSUME LInv, CInv', CalmInv, [Next]_vars, kind' = "sign", faults' = 0
             PROVE  Calm'
    BY DEF CalmInv
<1>1. SessionTypeOK BY DEF LInv, CInv
<1>2. \A f : ~ Fails(f) BY <1>1, FailsCounted
<1>3. CASE Next
  <2>1. PICK p \in Party :
            SessionMoves(p) \/ SessionBegins(p) \/ SignMoves(p) \/ SignPosts(p) \/ CreateMoves(p)
        BY <1>3 DEF Next
  <2>2. CASE SessionMoves(p) \/ SessionBegins(p)
    <3>1. setting' = setting /\ faults = 0
          BY <1>2, <2>2
          DEF SessionMoves, SessionBegins, SessionStep, SessionEvent, Join, JoinFails, Gather,
              GatherFindsMore, GatherTimesOut, Start, StartFails, StartRetries, CheckFindsStart,
              CheckFindsNothing, AwaitStart, AwaitTimesOut, Cancel, Crash
    <3>2. kind = "sign" /\ Calm BY <3>1 DEF kind, CalmInv
    <3>3. QED BY <2>2, <3>1, <3>2, SessionStepsCalm DEF SessionMoves, SessionBegins
  <2>3. CASE SignMoves(p)
    <3>1. setting' = setting /\ faults = 0
          BY <1>2, <2>3
          DEF SignMoves, InboundStep, Upload, UploadFails, SetupArrives, SetupTimesOut, Fetch,
              FetchFails, Feed, Timer, InboundTimesOut, Return, CancelSigned, ReturnError, sessionVars
    <3>2. kind = "sign" /\ Calm BY <3>1 DEF kind, CalmInv
    <3>3. QED BY <2>3, <3>1, <3>2, InboundStepsCalm DEF SignMoves
  <2>4. CASE SignPosts(p)
    <3>1. setting' = setting /\ faults = 0
          BY <1>2, <2>4
          DEF SignPosts, OutboundStep, Output, OutboundStops, Post, PostFails, sessionVars
    <3>2. kind = "sign" /\ Calm BY <3>1 DEF kind, CalmInv
    <3>3. QED BY <2>4, <3>1, <3>2, OutboundStepsCalm DEF SignPosts
  <2>5. CASE CreateMoves(p)
    <3>1. setting' = setting /\ faults = 0 /\ device[p].stage \in {"keygen", "confirm"}
          BY <1>2, <2>5
          DEF CreateMoves, CreateStep, Share, KeygenFails, CancelLate, SetComplete, SetCompleteFails,
              Confirmed, ConfirmTimesOut, Is, sessionVars
    <3>2. Calm BY <3>1 DEF kind, CalmInv
    <3>3. QED BY <3>1, <3>2 DEF Calm, DeviceCalm
  <2>6. QED BY <2>1, <2>2, <2>3, <2>4, <2>5
<1>4. CASE UNCHANGED vars
  <2>1. UNCHANGED <<setting, joined, started, device, faults, setups, relay, loops>>
        BY <1>4 DEF vars, sessionVars, signVars
  <2>2. Calm BY <2>1 DEF kind, CalmInv
  <2>3. Cut' = Cut
        BY <2>1 DEF Cut, Gone, Withheld, Signed, Is, Messages, Rounds, MessageAt
  <2>4. QED BY <2>1, <2>2, <2>3
        DEF Calm, DeviceCalm, CallCalm, SessionCalm, RelayCalm, SetupCalm, HasSetup, Messages, Rounds,
            Is, HasRound, Finished, Peers, Several
<1>5. QED BY <1>3, <1>4

(* All three invariants hold at once. *)
LEMMA SessionsAreCalm == Spec => [](LInv /\ EndInv /\ CalmInv)
<1>1. Init => LInv /\ EndInv /\ CalmInv BY LInvInit, EndInvInit, CalmInit
<1>2. LInv /\ EndInv /\ CalmInv /\ [Next]_vars => (LInv /\ EndInv /\ CalmInv)'
  <2> SUFFICES ASSUME LInv, EndInv, CalmInv, [Next]_vars PROVE (LInv /\ EndInv /\ CalmInv)'
      OBVIOUS
  <2>1. CInv BY DEF LInv
  <2>2. LInv' BY LInvNext
  <2>3. CInv' BY <2>2 DEF LInv
  <2>4. QED BY <2>1, <2>2, <2>3, EndInvNext, CalmNext
<1>3. QED BY <1>1, <1>2, PTL DEF Spec

(* OnlyAbortsStrand. With any number of devices, messages and rounds: if    *)
(* nothing fails, a device waits in vain in the middle of a protocol        *)
(* (processInbound, ensureSetupMessage) only because the abort signal of    *)
(* one that has its signature stopped processOutbound, or because a         *)
(* participant had given up before the session started.                     *)
THEOREM OnlyAbortsStrand == Spec => []OnlyAbortStrands
<1>1. QED BY SessionsAreCalm, CalmAborts, PTL

(* SomeoneSigns. ... and when a signing session that was started is over,   *)
(* and everybody was there, somebody has the signature of the first         *)
(* message: the session is not lost for all.                                *)
THEOREM SomeoneSigns == Spec => []SomebodySigns
<1>1. QED BY SessionsAreCalm, CalmSigns, PTL
=============================================================================
