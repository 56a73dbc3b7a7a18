---------------------------- MODULE KeygenProofs ----------------------------
(***************************************************************************)
(* A party that has its key share has sent all that the others need, and   *)
(* no message of a first attempt is dropped, for any number of parties,    *)
(* rounds and attempts and any faults.                                     *)
(***************************************************************************)
EXTENDS Keygen, TLAPS

(* Whoever finished has every message of its peers; the outbound loop is   *)
(* done only after that, or after a timeout, and with nothing to put out.  *)
DoneInv ==
    \A p \in Party :
        /\ inb[p] \in {"finishing", "complete"} => \A r \in 1 .. Rounds : HasRound(p, r)
        /\ outb[p] = "done" => Complete(p) /\ NextOut(p) \notin Available(p)
        /\ inb[p] = "returned" => sent[p] = Rounds /\ outb[p] = "idle"

KInv == TypeOK /\ DoneInv

USE KeygenAssumption

-----------------------------------------------------------------------------
(* Types *)

LEMMA FailsBounded ==
    ASSUME TypeOK, NEW f, Fails(f), UNCHANGED operation
    PROVE  faults' \in 0 .. MaxFaults[operation]'
BY DEF TypeOK, Fails

LEMMA AttemptTypes ==
    ASSUME TypeOK, NEW p \in Party, AttemptFails(p)
    PROVE  /\ attempt' \in [Party -> 1 .. MaxAttempts]
           /\ inb' \in [Party -> InPhases]
           /\ \A q \in Party : q # p => inb'[q] = inb[q]
           /\ inb'[p] \in {"start", "failed"}
BY DEF TypeOK, AttemptFails, Goto, InPhases

(* An action that leaves the sessions alone, and feeds nobody. *)
LEMMA KeepsSessions ==
    ASSUME TypeOK, UNCHANGED <<operation, sessionVars>>,
           \A p \in Party : inb'[p] = "input" => inb[p] = "input"
    PROVE  \A p \in Party : /\ inb'[p] = "input" => batch'[p] # {}
                            /\ 1 .. sent'[p] \subseteq Available(p)'
<1>1. batch' = batch /\ got' = got /\ sent' = sent BY DEF sessionVars
<1>2. ASSUME NEW p \in Party
      PROVE  /\ inb'[p] = "input" => batch'[p] # {}
             /\ 1 .. sent'[p] \subseteq Available(p)'
  <2>1. Available(p)' = Available(p) BY <1>1 DEF Available, HasRound, Peers
  <2>2. 1 .. sent'[p] \subseteq Available(p)' BY <1>1, <2>1 DEF TypeOK
  <2>3. inb[p] = "input" => batch[p] # {} BY DEF TypeOK
  <2>4. QED BY <1>1, <2>2, <2>3
<1>3. QED BY <1>2

LEMMA StartTypes ==
    ASSUME TypeOK, NEW p \in Party, StartSession(p)
    PROVE  /\ inb' \in [Party -> InPhases] /\ outb' \in [Party -> OutPhases]
           /\ batch' \in [Party -> SUBSET Message] /\ got' \in [Party -> SUBSET Message]
           /\ sent' \in [Party -> 0 .. Rounds]
           /\ \A q \in Party : /\ inb'[q] = "input" => batch'[q] # {}
                               /\ 1 .. sent'[q] \subseteq Available(q)'
<1>1. /\ inb' \in [Party -> InPhases] /\ outb' \in [Party -> OutPhases]
      /\ batch' \in [Party -> SUBSET Message] /\ got' \in [Party -> SUBSET Message]
      /\ sent' \in [Party -> 0 .. Rounds]
      BY DEF TypeOK, StartSession, Goto, InPhases, OutPhases
<1>2. ASSUME NEW q \in Party
      PROVE  /\ inb'[q] = "input" => batch'[q] # {}
             /\ 1 .. sent'[q] \subseteq Available(q)'
  <2>1. CASE q = p
    <3>1. inb'[q] = "poll" /\ sent'[q] = 0 BY <2>1 DEF TypeOK, StartSession, Goto
    <3>2. 1 .. sent'[q] = {} BY <3>1
    <3>3. QED BY <3>1, <3>2
  <2>2. CASE q # p
    <3>1. inb'[q] = inb[q] /\ batch'[q] = batch[q] /\ got'[q] = got[q] /\ sent'[q] = sent[q]
          BY <2>2 DEF TypeOK, StartSession, Goto
    <3>2. Available(q)' = Available(q) BY <3>1 DEF Available, HasRound, Peers
    <3>3. (inb[q] = "input" => batch[q] # {}) /\ 1 .. sent[q] \subseteq Available(q) BY DEF TypeOK
    <3>4. QED BY <3>1, <3>2, <3>3
  <2>3. QED BY <2>1, <2>2
<1>3. QED BY <1>1, <1>2

LEMMA RoundsGrow ==
    ASSUME TypeOK, NEW p \in Party, NEW m \in Message,
           got' = [got EXCEPT ![p] = @ \cup {m}]
    PROVE  /\ got' \in [Party -> SUBSET Message]
           /\ \A q \in Party : Available(q) \subseteq Available(q)'
<1>1. got' \in [Party -> SUBSET Message] BY DEF TypeOK
<1>2. ASSUME NEW q \in Party PROVE got[q] \subseteq got'[q] BY DEF TypeOK
<1>3. ASSUME NEW q \in Party, NEW r PROVE HasRound(q, r) => HasRound(q, r)'
      BY <1>2 DEF HasRound, Peers
<1>4. QED BY <1>1, <1>3 DEF Available

LEMMA OutputTypes ==
    ASSUME TypeOK, NEW p \in Party, Output(p)
    PROVE  wire' \subseteq Message /\ sent' \in [Party -> 0 .. Rounds]
<1>1. sent[p] \in 0 .. Rounds /\ NextOut(p) \in 1 .. Rounds BY DEF TypeOK, Output, NextOut, Available
<1>2. ASSUME NEW q \in Peers(p), NextOut(p) # 1 PROVE TryOf(p, q) \in 1 .. MaxAttempts
  <2>1. HasRound(p, 1) BY <1>1, <1>2 DEF Output, Available, NextOut
  <2>2. PICK m \in got[p] : m.from = q BY <2>1, <1>2 DEF HasRound
  <2>3. m.try \in 1 .. MaxAttempts BY <2>2 DEF TypeOK, Message
  <2>4. QED BY <2>2, <2>3 DEF TryOf
<1>3. ASSUME NEW q \in Peers(p)
      PROVE  [from |-> p, to |-> q, round |-> NextOut(p), try |-> attempt[p],
              re |-> IF NextOut(p) = 1 THEN 0 ELSE TryOf(p, q), setup |-> setup[p]] \in Message
  <2>1. (IF NextOut(p) = 1 THEN 0 ELSE TryOf(p, q)) \in 0 .. MaxAttempts BY <1>2
  <2>2. QED BY <1>1, <2>1 DEF TypeOK, Message, Peers
<1>4. wire' \subseteq Message BY <1>3 DEF Output, TypeOK
<1>5. sent' \in [Party -> 0 .. Rounds] BY <1>1 DEF Output, TypeOK, NextOut
<1>6. QED BY <1>4, <1>5

LEMMA DeleteTypes ==
    ASSUME TypeOK, NEW p \in Party, inb[p] = "input", NEW m \in batch[p], Delete(p, m) \/ Throw(p)
    PROVE  /\ relay' \subseteq Message /\ batch' \in [Party -> SUBSET Message]
           /\ inb' \in [Party -> InPhases]
           /\ \A q \in Party : inb'[q] = "input" => batch'[q] # {}
           /\ \A q \in Party : q # p => inb'[q] = inb[q]
           /\ inb'[p] \in {"poll", "input"}
BY DEF TypeOK, Delete, Throw, Goto, InPhases

LEMMA SetupTypes ==
    ASSUME TypeOK, NEW p \in Party,
           Restart(p) \/ Setup(p) \/ Upload(p) \/ UploadFails(p) \/ SetupArrives(p) \/ SetupTimesOut(p)
    PROVE  TypeOK'
<1>1. CASE Restart(p) BY <1>1, StartTypes DEF Restart, TypeOK
<1>2. CASE Setup(p)
  <2>1. \A q \in Party : inb'[q] = "input" => inb[q] = "input" BY <1>2 DEF Setup, Goto, TypeOK
  <2>2. setup' \in [Party -> SetupMessage] /\ inb' \in [Party -> InPhases]
        BY <1>2 DEF Setup, Goto, TypeOK, SetupMessage, InPhases
  <2>3. QED BY <1>2, <2>1, <2>2, KeepsSessions DEF Setup, TypeOK, sessionVars
<1>3. CASE Upload(p) BY <1>3, StartTypes DEF Upload, TypeOK
<1>4. CASE UploadFails(p)
  <2>1. \A q \in Party : inb'[q] = "input" => inb[q] = "input" BY <1>4, AttemptTypes DEF UploadFails
  <2>2. QED BY <1>4, <2>1, AttemptTypes, KeepsSessions, FailsBounded DEF UploadFails, TypeOK, sessionVars
<1>5. CASE SetupArrives(p) BY <1>5, StartTypes DEF SetupArrives, TypeOK
<1>6. CASE SetupTimesOut(p)
  <2>1. \A q \in Party : inb'[q] = "input" => inb[q] = "input" BY <1>6, AttemptTypes DEF SetupTimesOut
  <2>2. faults' \in 0 .. MaxFaults[operation]' BY <1>6, FailsBounded DEF SetupTimesOut, TypeOK
  <2>3. QED BY <1>6, <2>1, <2>2, AttemptTypes, KeepsSessions DEF SetupTimesOut, TypeOK, sessionVars
<1>7. QED BY <1>1, <1>2, <1>3, <1>4, <1>5, <1>6

LEMMA LoopTypes ==
    ASSUME TypeOK, NEW p \in Party,
           Poll(p) \/ PollsExpire(p) \/ Timeout(p) \/ FinishSleep(p) \/ Return(p) \/ OutStep(p)
    PROVE  TypeOK'
<1>1. CASE Poll(p)
  <2>1. /\ batch' \in [Party -> SUBSET Message] /\ inb' \in [Party -> InPhases]
        /\ \A q \in Party : inb'[q] = "input" => batch'[q] # {}
        BY <1>1 DEF Poll, Goto, TypeOK, Inbox, InPhases
  <2>2. \A q \in Party : Available(q)' = Available(q) BY <1>1 DEF Poll, Available, HasRound, Peers
  <2>3. \A q \in Party : 1 .. sent'[q] \subseteq Available(q)' BY <1>1, <2>2 DEF Poll, TypeOK
  <2>4. QED BY <1>1, <2>1, <2>3 DEF Poll, TypeOK
<1>2. CASE PollsExpire(p)
  <2>1. \A q \in Party : inb'[q] = "input" => inb[q] = "input" BY <1>2 DEF PollsExpire, Goto, TypeOK
  <2>2. inb' \in [Party -> InPhases] BY <1>2 DEF PollsExpire, Goto, TypeOK, InPhases
  <2>3. faults' \in 0 .. MaxFaults[operation]' BY <1>2, FailsBounded DEF PollsExpire, TypeOK
  <2>4. QED BY <1>2, <2>1, <2>2, <2>3, KeepsSessions DEF PollsExpire, TypeOK, sessionVars
<1>3. CASE Timeout(p)
  <2>1. \A q \in Party : inb'[q] = "input" => inb[q] = "input" BY <1>3 DEF Timeout, Goto, TypeOK
  <2>2. inb' \in [Party -> InPhases] BY <1>3 DEF Timeout, Goto, TypeOK, InPhases
  <2>3. QED BY <1>3, <2>1, <2>2, KeepsSessions DEF Timeout, TypeOK, sessionVars
<1>4. CASE FinishSleep(p)
  <2>1. \A q \in Party : inb'[q] = "input" => inb[q] = "input" BY <1>4 DEF FinishSleep, Goto, TypeOK
  <2>2. inb' \in [Party -> InPhases] BY <1>4 DEF FinishSleep, Goto, TypeOK, InPhases
  <2>3. QED BY <1>4, <2>1, <2>2, KeepsSessions DEF FinishSleep, TypeOK, sessionVars
<1>5. CASE Return(p)
  <2>1. /\ inb' \in [Party -> InPhases] /\ attempt' \in [Party -> 1 .. MaxAttempts]
        /\ \A q \in Party : inb'[q] = "input" => inb[q] = "input"
    <3>1. CASE inb[p] = "complete" BY <1>5, <3>1 DEF Return, Goto, TypeOK, InPhases
    <3>2. CASE inb[p] # "complete" BY <1>5, <3>2, AttemptTypes DEF Return
    <3>3. QED BY <3>1, <3>2
  <2>2. outb' \in [Party -> OutPhases] BY <1>5 DEF Return, TypeOK, OutPhases
  <2>3. QED BY <1>5, <2>1, <2>2, KeepsSessions DEF Return, TypeOK, sessionVars
<1>6. CASE Output(p)
  <2>1. \A q \in Party : Available(q)' = Available(q) BY <1>6 DEF Output, Available, HasRound, Peers
  <2>2. ASSUME NEW q \in Party PROVE 1 .. sent'[q] \subseteq Available(q)
    <3>1. sent[q] \in 0 .. Rounds /\ 1 .. sent[q] \subseteq Available(q) BY DEF TypeOK
    <3>2. CASE q = p
      <4>1. sent'[q] = sent[q] + 1 /\ sent[q] + 1 \in Available(q)
            BY <1>6, <3>2 DEF Output, NextOut, TypeOK
      <4>2. QED BY <3>1, <4>1
    <3>3. CASE q # p BY <1>6, <3>1, <3>3 DEF Output, TypeOK
    <3>4. QED BY <3>2, <3>3
  <2>3. \A q \in Party : 1 .. sent'[q] \subseteq Available(q)' BY <2>1, <2>2
  <2>4. QED BY <1>6, <2>3, OutputTypes DEF Output, TypeOK
<1>7. CASE OutputDone(p)
  <2>1. outb' \in [Party -> OutPhases] BY <1>7 DEF OutputDone, TypeOK, OutPhases
  <2>2. QED BY <1>7, <2>1, KeepsSessions DEF OutputDone, TypeOK, sessionVars
<1>8. QED BY <1>1, <1>2, <1>3, <1>4, <1>5, <1>6, <1>7 DEF OutStep

LEMMA InputTypes ==
    ASSUME TypeOK, NEW p \in Party, Input(p) \/ InputUndeleted(p) \/ InputForeign(p)
    PROVE  TypeOK'
<1>1. CASE Input(p)
  <2>1. PICK m \in batch[p] : /\ got' = [got EXCEPT ![p] = @ \cup {m}]
                              /\ IF Finishes(p, m)
                                 THEN Goto(p, "finishing") /\ UNCHANGED <<relay, batch>>
                                 ELSE Delete(p, m)
        BY <1>1 DEF Input
  <2>2. m \in Message BY <2>1 DEF TypeOK
  <2>3. got' \in [Party -> SUBSET Message] /\ \A q \in Party : Available(q) \subseteq Available(q)'
        BY <2>1, <2>2, RoundsGrow
  <2>4. /\ relay' \subseteq Message /\ batch' \in [Party -> SUBSET Message]
        /\ inb' \in [Party -> InPhases]
        /\ \A q \in Party : inb'[q] = "input" => batch'[q] # {}
    <3>1. CASE Finishes(p, m) BY <2>1, <3>1 DEF Goto, TypeOK, InPhases
    <3>2. CASE ~ Finishes(p, m) BY <1>1, <2>1, <3>2, DeleteTypes DEF Input
    <3>3. QED BY <3>1, <3>2
  <2>5. QED BY <1>1, <2>3, <2>4 DEF Input, TypeOK
<1>2. CASE InputUndeleted(p)
  <2>1. PICK m \in batch[p] : got' = [got EXCEPT ![p] = @ \cup {m}] BY <1>2 DEF InputUndeleted
  <2>2. m \in Message BY <2>1 DEF TypeOK
  <2>3. got' \in [Party -> SUBSET Message] /\ \A q \in Party : Available(q) \subseteq Available(q)'
        BY <2>1, <2>2, RoundsGrow
  <2>4. faults' \in 0 .. MaxFaults[operation]' BY <1>2, FailsBounded DEF InputUndeleted
  <2>5. QED BY <1>2, <2>1, <2>3, <2>4, DeleteTypes DEF InputUndeleted, TypeOK
<1>3. CASE InputForeign(p)
  <2>1. PICK m \in batch[p] : Delete(p, m) \/ Throw(p) BY <1>3 DEF InputForeign
  <2>2. \A q \in Party : Available(q)' = Available(q)
        BY <1>3 DEF InputForeign, Available, HasRound, Peers
  <2>3. QED BY <1>3, <2>1, <2>2, DeleteTypes DEF InputForeign, TypeOK
<1>4. QED BY <1>1, <1>2, <1>3

LEMMA NetworkTypes == ASSUME TypeOK, Network PROVE TypeOK'
<1>1. PICK m \in wire : Arrive(m) \/ Lose(m) BY DEF Network
<1>2. CASE Arrive(m) BY <1>1, <1>2, KeepsSessions DEF Arrive, TypeOK, sessionVars
<1>3. CASE Lose(m) BY <1>1, <1>3, KeepsSessions, FailsBounded DEF Lose, TypeOK, sessionVars
<1>4. QED BY <1>1, <1>2, <1>3

LEMMA TypeInit == Init => TypeOK
<1> SUFFICES ASSUME Init PROVE TypeOK OBVIOUS
<1>1. Given \in SetupMessage BY DEF Given, SetupMessage
<1>2. \A p \in Party : 1 .. sent[p] = {} BY DEF Init
<1>3. QED BY <1>1, <1>2 DEF Init, TypeOK, InPhases, OutPhases

LEMMA TypeNext == TypeOK /\ [Next]_vars => TypeOK'
<1> SUFFICES ASSUME TypeOK, [Next]_vars PROVE TypeOK' OBVIOUS
<1>1. ASSUME NEW p \in Party, InStep(p) \/ OutStep(p) PROVE TypeOK'
      BY <1>1, SetupTypes, LoopTypes, InputTypes DEF InStep
<1>2. CASE Network BY <1>2, NetworkTypes
<1>3. CASE UNCHANGED vars
      BY <1>3, KeepsSessions DEF vars, sessionVars, TypeOK
<1>4. QED BY <1>1, <1>2, <1>3 DEF Next

-----------------------------------------------------------------------------
(* The end of an attempt *)

(* What DoneInv says of one party follows from what it is at and has.      *)
Done(p) ==
    /\ inb[p] \in {"finishing", "complete"} => \A r \in 1 .. Rounds : HasRound(p, r)
    /\ outb[p] = "done" => Complete(p) /\ NextOut(p) \notin Available(p)
    /\ inb[p] = "returned" => sent[p] = Rounds /\ outb[p] = "idle"

LEMMA DoneAll == DoneInv <=> \A p \in Party : Done(p)
BY DEF DoneInv, Done

(* A party whose loops and session an action leaves alone. *)
LEMMA DoneKept ==
    ASSUME NEW q \in Party, Done(q), inb'[q] = inb[q], outb'[q] = outb[q],
           got'[q] = got[q], sent'[q] = sent[q]
    PROVE  Done(q)'
BY DEF Done, Complete, NextOut, Available, HasRound, Peers

(* An attempt that begins or fails early. *)
LEMMA DoneEarly ==
    ASSUME TypeOK, NEW p \in Party, Done(p),
           Restart(p) \/ Setup(p) \/ Upload(p) \/ UploadFails(p) \/ SetupArrives(p) \/ SetupTimesOut(p)
    PROVE  Done(p)'
<1>1. CASE Restart(p) \/ Upload(p) \/ SetupArrives(p)
      BY <1>1 DEF Restart, Upload, SetupArrives, StartSession, Goto, Done, TypeOK
<1>2. CASE Setup(p)
      BY <1>2 DEF Setup, Goto, Done, Complete, TypeOK
<1>3. CASE UploadFails(p) \/ SetupTimesOut(p)
      BY <1>3, AttemptTypes DEF UploadFails, SetupTimesOut, Done, Complete, TypeOK
<1>4. QED BY <1>1, <1>2, <1>3

LEMMA DoneLoops ==
    ASSUME TypeOK, NEW p \in Party, Done(p),
           Poll(p) \/ PollsExpire(p) \/ Timeout(p) \/ FinishSleep(p) \/ Return(p) \/ OutStep(p)
    PROVE  Done(p)'
<1> USE DEF Done, Complete, TypeOK
<1>1. CASE Poll(p) BY <1>1 DEF Poll, Goto
<1>2. CASE PollsExpire(p) BY <1>2 DEF PollsExpire, Goto
<1>3. CASE Timeout(p)
  <2>1. inb[p] = "expired" /\ inb'[p] = "lost" BY <1>3 DEF Timeout, Goto
  <2>2. outb'[p] # "done" BY <1>3, <2>1 DEF Timeout
  <2>3. QED BY <2>1, <2>2
<1>4. CASE FinishSleep(p)
  <2>1. inb[p] = "finishing" /\ inb'[p] = "complete" BY <1>4 DEF FinishSleep, Goto
  <2>2. outb'[p] # "done" BY <1>4, <2>1 DEF FinishSleep
  <2>3. ASSUME NEW r \in 1 .. Rounds PROVE HasRound(p, r)' BY <1>4, <2>1 DEF FinishSleep, HasRound, Peers, sessionVars
  <2>4. QED BY <2>1, <2>2, <2>3
<1>5. CASE Return(p)
  <2>1. CASE inb[p] = "complete"
    <3>1. Available(p) = 1 .. Rounds
      <4>1. ASSUME NEW r \in 1 .. Rounds, NEW k \in 1 .. r - 1 PROVE HasRound(p, k) BY <2>1
      <4>2. QED BY <4>1 DEF Available
    <3>2. outb[p] = "done" /\ NextOut(p) \notin 1 .. Rounds BY <1>5, <3>1 DEF Return
    <3>3. sent[p] \in 0 .. Rounds OBVIOUS
    <3>4. sent[p] = Rounds BY <3>2, <3>3 DEF NextOut
    <3>5. inb'[p] = "returned" /\ outb'[p] = "idle" /\ sent'[p] = sent[p]
          BY <1>5, <2>1 DEF Return, Goto, sessionVars
    <3>6. QED BY <3>4, <3>5
  <2>2. CASE inb[p] # "complete" BY <1>5, <2>2, AttemptTypes DEF Return
  <2>3. QED BY <2>1, <2>2
<1>6. CASE Output(p) BY <1>6 DEF Output, HasRound, Peers
<1>7. CASE OutputDone(p) BY <1>7 DEF OutputDone, NextOut, Available, HasRound, Peers, sessionVars
<1>8. QED BY <1>1, <1>2, <1>3, <1>4, <1>5, <1>6, <1>7 DEF OutStep

LEMMA DoneInput ==
    ASSUME TypeOK, NEW p \in Party, Done(p), Input(p) \/ InputUndeleted(p) \/ InputForeign(p)
    PROVE  Done(p)'
<1>1. inb[p] = "input" /\ outb[p] # "done"
      BY DEF Done, Complete, Input, InputUndeleted, InputForeign
<1>2. CASE Input(p)
  <2>1. PICK m \in batch[p] : IF Finishes(p, m)
                              THEN Goto(p, "finishing") /\ UNCHANGED <<relay, batch>>
                              ELSE Delete(p, m)
        BY <1>2 DEF Input
  <2>2. outb' = outb BY <1>2 DEF Input
  <2>3. CASE Finishes(p, m) BY <1>1, <2>1, <2>2, <2>3 DEF Finishes, Goto, Done, TypeOK
  <2>4. CASE ~ Finishes(p, m) BY <1>1, <2>1, <2>2, <2>4, DeleteTypes DEF Done
  <2>5. QED BY <2>3, <2>4
<1>3. CASE InputUndeleted(p) \/ InputForeign(p)
  <2>1. PICK m \in batch[p] : Delete(p, m) \/ Throw(p) BY <1>3 DEF InputUndeleted, InputForeign
  <2>2. QED BY <1>1, <1>3, <2>1, DeleteTypes DEF InputUndeleted, InputForeign, Done
<1>4. QED BY <1>2, <1>3

LEMMA OthersKept ==
    ASSUME TypeOK, NEW p \in Party, NEW q \in Party, q # p, InStep(p) \/ OutStep(p), Done(q)
    PROVE  Done(q)'
<1> SUFFICES /\ inb'[q] = inb[q] /\ outb'[q] = outb[q]
             /\ got'[q] = got[q] /\ sent'[q] = sent[q]
    BY DoneKept
<1> USE DEF TypeOK, Goto, sessionVars
<1>1. CASE Restart(p) \/ Upload(p) \/ SetupArrives(p)
      BY <1>1 DEF Restart, Upload, SetupArrives, StartSession
<1>2. CASE Setup(p) \/ Poll(p) \/ PollsExpire(p) \/ Timeout(p) \/ FinishSleep(p)
      BY <1>2 DEF Setup, Poll, PollsExpire, Timeout, FinishSleep
<1>3. CASE UploadFails(p) \/ SetupTimesOut(p)
      BY <1>3, AttemptTypes DEF UploadFails, SetupTimesOut
<1>4. CASE Return(p)
  <2>1. inb'[q] = inb[q]
    <3>1. CASE inb[p] = "complete" BY <1>4, <3>1 DEF Return
    <3>2. CASE inb[p] # "complete" BY <1>4, <3>2, AttemptTypes DEF Return
    <3>3. QED BY <3>1, <3>2
  <2>2. QED BY <1>4, <2>1 DEF Return
<1>5. CASE OutStep(p) BY <1>5 DEF OutStep, Output, OutputDone
<1>6. CASE Input(p)
  <2>1. PICK m \in batch[p] : /\ got' = [got EXCEPT ![p] = @ \cup {m}]
                              /\ IF Finishes(p, m)
                                 THEN Goto(p, "finishing") /\ UNCHANGED <<relay, batch>>
                                 ELSE Delete(p, m)
        BY <1>6 DEF Input
  <2>2. inb'[q] = inb[q] BY <2>1 DEF Delete
  <2>3. QED BY <1>6, <2>1, <2>2 DEF Input
<1>7. CASE InputUndeleted(p) BY <1>7 DEF InputUndeleted, Throw
<1>8. CASE InputForeign(p) BY <1>8 DEF InputForeign, Delete, Throw
<1>9. QED BY <1>1, <1>2, <1>3, <1>4, <1>5, <1>6, <1>7, <1>8 DEF InStep

LEMMA DoneInit == Init => DoneInv
BY DEF Init, DoneInv

LEMMA DoneNext == TypeOK /\ DoneInv /\ [Next]_vars => DoneInv'
<1> SUFFICES ASSUME TypeOK, DoneInv, [Next]_vars, NEW q \in Party PROVE Done(q)'
    BY DEF DoneInv, Done
<1>1. Done(q) BY DoneAll
<1>2. ASSUME NEW p \in Party, InStep(p) \/ OutStep(p) PROVE Done(q)'
  <2>1. CASE q = p BY <1>1, <1>2, <2>1, DoneEarly, DoneLoops, DoneInput DEF InStep
  <2>2. CASE q # p BY <1>1, <1>2, <2>2, OthersKept
  <2>3. QED BY <2>1, <2>2
<1>3. CASE Network BY <1>1, <1>3, DoneKept DEF Network, Arrive, Lose, sessionVars
<1>4. CASE UNCHANGED vars BY <1>1, <1>4, DoneKept DEF vars, sessionVars
<1>5. QED BY <1>2, <1>3, <1>4 DEF Next

-----------------------------------------------------------------------------
(* No message is dropped *)

(* Nobody has started over. *)
First == \A p \in Party : attempt[p] = 1

(* What parties in their first attempt send to each other: every message    *)
(* belongs to every session it may get to.                                  *)
FirstTry(m) == m.try = 1 /\ m.re \in {0, 1} /\ m.setup = 1

(* Where a message to q may be that is not fed to its session again. *)
Held(q) == wire \cup relay \cup got[q] \cup lost

(* The first attempts share one setup message, which a session has from its *)
(* start on; who has no session yet has taken and put out nothing.          *)
OneTranscript ==
    /\ uploaded \in {0, 1}
    /\ \A m \in wire \cup relay : FirstTry(m)
    /\ \A p \in Party :
          /\ setup[p] \in {0, 1}
          /\ inb[p] \in {"upload", "poll", "input"} \/ outb[p] = "run" => setup[p] = 1
          /\ inb[p] \in {"start", "upload", "wait"} =>
                got[p] = {} /\ sent[p] = 0 /\ outb[p] = "idle"
          /\ \A m \in batch[p] : FirstTry(m) /\ m.to = p
          /\ \A m \in got[p] : FirstTry(m)

(* What was put out is on its way, on the relay, taken or lost. *)
PutOutHeld ==
    \A p \in Party : \A q \in Peers(p), r \in 1 .. sent[p] :
        \E m \in Held(q) : m.from = p /\ m.to = q /\ m.round = r

FirstInv == First => OneTranscript /\ PutOutHeld

(* No step goes back to an earlier attempt. *)
LEMMA FirstStays ==
    ASSUME TypeOK, TypeOK', [Next]_vars, First'
    PROVE  First /\ attempt' = attempt
<1>1. ASSUME NEW p \in Party PROVE attempt[p] = 1
  <2>1. attempt'[p] = attempt[p] \/ attempt'[p] = attempt[p] + 1
        BY DEF TypeOK, Next, InStep, OutStep, Network, Restart, Setup, Upload, UploadFails,
               SetupArrives, SetupTimesOut, Poll, PollsExpire, Timeout, Input, InputUndeleted,
               InputForeign, FinishSleep, Return, Output, OutputDone, Arrive, Lose,
               AttemptFails, vars
  <2>2. attempt'[p] = 1 /\ attempt[p] \in 1 .. MaxAttempts BY DEF First, TypeOK
  <2>3. QED BY <2>1, <2>2
<1>2. QED BY <1>1 DEF First, TypeOK

(* What is held stays held: a message is deleted from the relay only after *)
(* the session of its receiver took it.                                    *)
LEMMA HeldStays ==
    ASSUME TypeOK, First, OneTranscript, [Next]_vars, First', attempt' = attempt,
           NEW q \in Party, NEW m \in Held(q), m.to = q
    PROVE  m \in Held(q)'
<1> USE DEF Held, Goto
<1>1. CASE UNCHANGED vars BY <1>1 DEF vars, sessionVars
<1>2. ASSUME NEW k \in wire, Arrive(k) \/ Lose(k) PROVE m \in Held(q)'
      BY <1>2 DEF Arrive, Lose, sessionVars
<1>3. ASSUME NEW p \in Party, InStep(p) \/ OutStep(p) PROVE m \in Held(q)'
  <2>1. CASE Restart(p) \/ Upload(p) \/ SetupArrives(p)
    <3>1. got[p] = {} BY <2>1 DEF OneTranscript, Restart, Upload, SetupArrives
    <3>2. got' = [got EXCEPT ![p] = {}]
          BY <2>1 DEF Restart, Upload, SetupArrives, StartSession
    <3>4. got' = got BY <3>1, <3>2 DEF TypeOK
    <3>3. QED BY <2>1, <3>4 DEF Restart, Upload, SetupArrives
  <2>2. CASE \/ Setup(p) \/ UploadFails(p) \/ SetupTimesOut(p) \/ Poll(p) \/ PollsExpire(p)
             \/ Timeout(p) \/ FinishSleep(p) \/ Return(p) \/ OutStep(p)
        BY <2>2 DEF Setup, UploadFails, SetupTimesOut, Poll, PollsExpire, Timeout, FinishSleep,
                    Return, OutStep, Output, OutputDone, sessionVars
  <2>3. CASE Input(p)
    <3>1. PICK k \in batch[p] :
              /\ got' = [got EXCEPT ![p] = @ \cup {k}]
              /\ relay' = relay \/ relay' = relay \ {k}
          BY <2>3 DEF Input, Delete
    <3>2. k.to = p /\ k \in got'[p] /\ \A r \in Party : got[r] \subseteq got'[r]
          BY <3>1 DEF OneTranscript, TypeOK
    <3>3. UNCHANGED <<wire, lost>> BY <2>3 DEF Input
    <3>4. CASE m = k BY <3>2, <3>4
    <3>5. CASE m # k BY <3>1, <3>2, <3>3, <3>5
    <3>6. QED BY <3>4, <3>5
  <2>4. CASE InputUndeleted(p)
    <3>1. \A r \in Party : got[r] \subseteq got'[r] BY <2>4 DEF InputUndeleted, TypeOK
    <3>2. QED BY <2>4, <3>1 DEF InputUndeleted, Throw
  <2>5. CASE InputForeign(p)
    <3>1. PICK k \in batch[p] : ~ Fits(p, k) BY <2>5 DEF InputForeign
    <3>2. /\ FirstTry(k) /\ k.from \in Party /\ setup[p] = 1 /\ attempt[p] = 1
          /\ \A j \in got[p] : FirstTry(j)
          BY <2>5, <3>1 DEF InputForeign, OneTranscript, First, TypeOK, Message
    <3>3. QED BY <3>1, <3>2 DEF Fits, FirstTry
  <2>6. QED BY <1>3, <2>1, <2>2, <2>3, <2>4, <2>5 DEF InStep
<1>4. QED BY <1>1, <1>2, <1>3 DEF Next, Network

LEMMA TranscriptStays ==
    ASSUME TypeOK, First, OneTranscript, [Next]_vars, First', attempt' = attempt
    PROVE  OneTranscript'
<1> DEFINE Ready(q) ==
             /\ setup[q] \in {0, 1}
             /\ inb[q] \in {"upload", "poll", "input"} \/ outb[q] = "run" => setup[q] = 1
             /\ inb[q] \in {"start", "upload", "wait"} =>
                   got[q] = {} /\ sent[q] = 0 /\ outb[q] = "idle"
             /\ \A m \in batch[q] : FirstTry(m) /\ m.to = q
             /\ \A m \in got[q] : FirstTry(m)
           Common == uploaded \in {0, 1} /\ \A m \in wire \cup relay : FirstTry(m)
<1>r. Common /\ \A q \in Party : Ready(q) BY DEF OneTranscript
<1>s. SUFFICES Common' /\ \A q \in Party : Ready(q)' BY DEF OneTranscript
<1>k. ASSUME NEW q \in Party, setup'[q] = setup[q], inb'[q] = inb[q], outb'[q] = outb[q],
             got'[q] = got[q], sent'[q] = sent[q], batch'[q] = batch[q]
      PROVE  Ready(q)'
      BY <1>r, <1>k DEF FirstTry
<1>1. CASE UNCHANGED vars BY <1>r, <1>1, <1>k DEF vars, sessionVars, FirstTry
<1>2. ASSUME NEW m \in wire, Arrive(m) \/ Lose(m) PROVE Common' /\ \A q \in Party : Ready(q)'
      BY <1>r, <1>2, <1>k DEF Arrive, Lose, sessionVars, FirstTry
<1>3. ASSUME NEW p \in Party, InStep(p) \/ OutStep(p) PROVE Common' /\ \A q \in Party : Ready(q)'
  <2>o. \A q \in Party \ {p} : Ready(q)'
    <3>1. ASSUME NEW q \in Party \ {p}
          PROVE  /\ setup'[q] = setup[q] /\ inb'[q] = inb[q] /\ outb'[q] = outb[q]
                 /\ got'[q] = got[q] /\ sent'[q] = sent[q] /\ batch'[q] = batch[q]
      <4> USE DEF TypeOK, Goto, sessionVars, AttemptFails
      <4>1. CASE Restart(p) \/ Upload(p) \/ SetupArrives(p) \/ Setup(p)
            BY <4>1 DEF Restart, Upload, SetupArrives, StartSession, Setup
      <4>2. CASE UploadFails(p) \/ SetupTimesOut(p) \/ Poll(p) \/ PollsExpire(p) \/ Timeout(p)
            BY <4>2 DEF UploadFails, SetupTimesOut, Poll, PollsExpire, Timeout
      <4>3. CASE FinishSleep(p) \/ Return(p) \/ OutStep(p)
            BY <4>3 DEF FinishSleep, Return, OutStep, Output, OutputDone
      <4>4. CASE Input(p)
        <5>1. PICK k \in batch[p] :
                  /\ got' = [got EXCEPT ![p] = @ \cup {k}]
                  /\ IF Finishes(p, k)
                     THEN Goto(p, "finishing") /\ UNCHANGED <<relay, batch>>
                     ELSE Delete(p, k)
              BY <4>4 DEF Input
        <5>2. got'[q] = got[q] BY <5>1
        <5>3. batch'[q] = batch[q] /\ inb'[q] = inb[q]
          <6>1. CASE Finishes(p, k) BY <5>1, <6>1
          <6>2. CASE ~ Finishes(p, k) BY <5>1, <6>2 DEF Delete
          <6>3. QED BY <6>1, <6>2
        <5>4. QED BY <4>4, <5>2, <5>3 DEF Input
      <4>5. CASE InputUndeleted(p) BY <4>5 DEF InputUndeleted, Throw
      <4>6. CASE InputForeign(p) BY <4>6 DEF InputForeign, Delete, Throw
      <4>7. QED BY <1>3, <4>1, <4>2, <4>3, <4>4, <4>5, <4>6 DEF InStep
    <3>2. QED BY <3>1, <1>k
  <2>p. attempt[p] = 1 /\ attempt'[p] = 1 BY DEF First
  <2>r. Ready(p) BY <1>r
  <2>1. CASE Restart(p) \/ Upload(p) \/ SetupArrives(p)
    <3>1. setup'[p] = 1
          BY <1>r, <2>1, <2>r DEF TypeOK, Restart, Upload, SetupArrives
    <3>2. inb'[p] = "poll" /\ got'[p] = {} /\ batch'[p] = {}
          BY <2>1 DEF TypeOK, Restart, Upload, SetupArrives, StartSession, Goto
    <3>3. Ready(p)' BY <3>1, <3>2
    <3>4. Common' BY <1>r, <2>1, <2>r DEF Restart, Upload, SetupArrives, FirstTry
    <3>5. QED BY <2>o, <3>3, <3>4
  <2>2. CASE Setup(p)
    <3>1. /\ setup'[p] \in {0, 1} /\ inb'[p] \in {"upload", "wait"}
          /\ inb'[p] = "upload" => setup'[p] = 1
          BY <2>2, <2>p, <2>r DEF TypeOK, Setup, Goto
    <3>2. /\ outb' = outb /\ got' = got /\ batch' = batch /\ sent' = sent
          /\ inb[p] = "start" /\ setup'[p] \in {setup[p], 1}
          BY <2>2, <2>p DEF TypeOK, Setup, sessionVars
    <3>3. Ready(p)' BY <2>r, <3>1, <3>2 DEF FirstTry
    <3>4. Common' BY <1>r, <2>2 DEF Setup, FirstTry
    <3>5. QED BY <2>o, <3>3, <3>4
  <2>3. CASE UploadFails(p) \/ SetupTimesOut(p)
    <3>1. inb'[p] = "failed"
          BY <2>3, <2>p DEF TypeOK, UploadFails, SetupTimesOut, AttemptFails, Goto
    <3>2. UNCHANGED <<setup, outb, sessionVars, relay, wire>>
          BY <2>3 DEF UploadFails, SetupTimesOut
    <3>3. Ready(p)' BY <2>r, <3>1, <3>2 DEF FirstTry, sessionVars
    <3>4. uploaded' \in {0, 1} BY <1>r, <2>3, <2>r DEF UploadFails, SetupTimesOut
    <3>5. QED BY <1>r, <2>o, <3>2, <3>3, <3>4 DEF FirstTry
  <2>4. CASE Poll(p)
    <3>1. inb[p] = "poll" /\ inb'[p] = "input" /\ batch'[p] = Inbox(p)
          BY <2>4 DEF TypeOK, Poll, Goto
    <3>2. \A m \in Inbox(p) : FirstTry(m) /\ m.to = p BY <1>r DEF Inbox
    <3>3. Ready(p)' BY <2>4, <2>r, <3>1, <3>2 DEF Poll, FirstTry
    <3>4. QED BY <1>r, <2>4, <2>o, <3>3 DEF Poll, FirstTry
  <2>5. CASE PollsExpire(p) \/ Timeout(p) \/ FinishSleep(p)
    <3>1. inb'[p] \in {"expired", "lost", "complete"}
          BY <2>5 DEF TypeOK, PollsExpire, Timeout, FinishSleep, Goto
    <3>2. UNCHANGED <<setup, outb, sessionVars, relay, wire, uploaded>>
          BY <2>5 DEF PollsExpire, Timeout, FinishSleep
    <3>3. Ready(p)' BY <2>r, <3>1, <3>2 DEF FirstTry, sessionVars
    <3>4. QED BY <1>r, <2>o, <3>2, <3>3 DEF FirstTry
  <2>6. CASE Return(p)
    <3>1. inb'[p] \in {"returned", "failed"} /\ outb'[p] = "idle"
      <4>1. CASE inb[p] = "complete" BY <2>6, <4>1 DEF TypeOK, Return, Goto
      <4>2. CASE inb[p] # "complete" BY <2>6, <2>p, <4>2 DEF TypeOK, Return, AttemptFails, Goto
      <4>3. QED BY <4>1, <4>2
    <3>2. UNCHANGED <<setup, sessionVars, relay, wire, uploaded>> BY <2>6 DEF Return
    <3>3. Ready(p)' BY <2>r, <3>1, <3>2 DEF FirstTry, sessionVars
    <3>4. QED BY <1>r, <2>o, <3>2, <3>3 DEF FirstTry
  <2>7. CASE Output(p)
    <3>1. /\ outb[p] = "run" /\ NextOut(p) \in Available(p)
          /\ sent' = [sent EXCEPT ![p] = @ + 1]
          /\ UNCHANGED <<setup, inb, outb, got, batch, relay, uploaded>>
          BY <2>7 DEF Output
    <3>2. inb[p] \notin {"start", "upload", "wait"} BY <2>r, <3>1
    <3>5. Ready(p)' BY <2>r, <3>1, <3>2 DEF FirstTry
    <3>3. ASSUME NEW q \in Peers(p), NextOut(p) # 1 PROVE TryOf(p, q) = 1
      <4>1. HasRound(p, 1) BY <3>1, <3>3 DEF Available, NextOut, TypeOK
      <4>2. PICK m \in got[p] : m.from = q BY <3>3, <4>1 DEF HasRound
      <4>3. m.try = 1 /\ 1 \in 1 .. MaxAttempts BY <2>r, <4>2 DEF FirstTry
      <4>4. \E k \in got[p] : k.from = q /\ k.try = TryOf(p, q) BY <4>2, <4>3 DEF TryOf
      <4>5. QED BY <2>r, <4>4 DEF FirstTry
    <3>4. \A m \in wire' : FirstTry(m)
      <4>1. ASSUME NEW q \in Peers(p)
            PROVE  FirstTry([from |-> p, to |-> q, round |-> NextOut(p), try |-> attempt[p],
                             re |-> IF NextOut(p) = 1 THEN 0 ELSE TryOf(p, q), setup |-> setup[p]])
            BY <2>p, <2>r, <3>1, <3>3 DEF FirstTry
      <4>2. QED BY <1>r, <2>7, <4>1 DEF Output
    <3>6. QED BY <1>r, <2>o, <3>1, <3>4, <3>5 DEF FirstTry
  <2>8. CASE OutputDone(p)
    <3>1. /\ outb[p] = "run" /\ outb'[p] = "done"
          /\ UNCHANGED <<setup, inb, sessionVars, relay, wire, uploaded>>
          BY <2>8 DEF TypeOK, OutputDone
    <3>2. Ready(p)' BY <2>r, <3>1 DEF FirstTry, sessionVars
    <3>3. QED BY <1>r, <2>o, <3>1, <3>2 DEF FirstTry
  <2>9. CASE Input(p) \/ InputUndeleted(p)
    <3>1. PICK k \in batch[p] : got' = [got EXCEPT ![p] = @ \cup {k}]
          BY <2>9 DEF Input, InputUndeleted
    <3>2. got'[p] = got[p] \cup {k} BY <3>1 DEF TypeOK
    <3>3. /\ inb[p] = "input" /\ inb'[p] \in {"poll", "input", "finishing"}
          /\ batch'[p] \subseteq batch[p] /\ relay' \subseteq relay
          /\ UNCHANGED <<setup, outb, sent, wire, uploaded>>
      <4>1. CASE InputUndeleted(p) BY <4>1 DEF InputUndeleted, Throw, Goto, TypeOK
      <4>2. CASE Input(p)
        <5>1. PICK j \in batch[p] : IF Finishes(p, j)
                                    THEN Goto(p, "finishing") /\ UNCHANGED <<relay, batch>>
                                    ELSE Delete(p, j)
              BY <4>2 DEF Input
        <5>2. CASE Finishes(p, j) BY <4>2, <5>1, <5>2 DEF Input, Goto, TypeOK
        <5>3. CASE ~ Finishes(p, j) BY <4>2, <5>1, <5>3 DEF Input, Delete, Goto, TypeOK
        <5>4. QED BY <5>2, <5>3
      <4>3. QED BY <2>9, <4>1, <4>2
    <3>4. Ready(p)' BY <2>r, <3>2, <3>3 DEF FirstTry
    <3>5. QED BY <1>r, <2>o, <3>3, <3>4 DEF FirstTry
  <2>10. CASE InputForeign(p)
    <3>1. /\ inb[p] = "input" /\ inb'[p] \in {"poll", "input"}
          /\ batch'[p] \subseteq batch[p] /\ relay' \subseteq relay
          /\ UNCHANGED <<setup, outb, got, sent, wire, uploaded>>
          BY <2>10 DEF InputForeign, Delete, Throw, Goto, TypeOK
    <3>2. Ready(p)' BY <2>r, <3>1 DEF FirstTry
    <3>3. QED BY <1>r, <2>o, <3>1, <3>2 DEF FirstTry
  <2>11. QED
         BY <1>3, <2>1, <2>2, <2>3, <2>4, <2>5, <2>6, <2>7, <2>8, <2>9, <2>10
         DEF InStep, OutStep
<1>4. QED BY <1>1, <1>2, <1>3 DEF Next, Network
(* A session puts out one round at a time, and a new one starts over. *)
LEMMA SentSteps ==
    ASSUME TypeOK, NEW p \in Party, [Next]_vars, sent'[p] # 0, sent'[p] # sent[p]
    PROVE  Output(p) /\ sent'[p] = sent[p] + 1
<1>1. sent' # sent OBVIOUS
<1>2. PICK q \in Party : InStep(q) \/ OutStep(q)
      BY <1>1 DEF Next, vars, sessionVars, Network, Arrive, Lose
<1>3. CASE Restart(q) \/ Upload(q) \/ SetupArrives(q)
  <2>1. sent' = [sent EXCEPT ![q] = 0] BY <1>3 DEF Restart, Upload, SetupArrives, StartSession
  <2>2. FALSE BY <2>1 DEF TypeOK
  <2>3. QED BY <2>2
<1>4. CASE Output(q)
  <2>1. sent' = [sent EXCEPT ![q] = @ + 1] BY <1>4 DEF Output
  <2>2. q = p /\ sent'[p] = sent[p] + 1 BY <2>1 DEF TypeOK
  <2>3. QED BY <1>4, <2>2
<1>5. CASE ~ (Restart(q) \/ Upload(q) \/ SetupArrives(q) \/ Output(q))
  <2>1. sent' = sent
        BY <1>2, <1>5 DEF InStep, OutStep, Setup, UploadFails, SetupTimesOut, Poll, PollsExpire,
                          Timeout, Input, InputUndeleted, InputForeign, FinishSleep, Return,
                          OutputDone, sessionVars
  <2>2. QED BY <1>1, <2>1
<1>6. QED BY <1>3, <1>4, <1>5

LEMMA PutOutStays ==
    ASSUME TypeOK, TypeOK', First, OneTranscript, PutOutHeld, [Next]_vars, First',
           attempt' = attempt
    PROVE  PutOutHeld'
<1> SUFFICES ASSUME NEW p \in Party, NEW q \in Peers(p), NEW r \in 1 .. sent'[p]
             PROVE  \E m \in Held(q)' : m.from = p /\ m.to = q /\ m.round = r
    BY DEF PutOutHeld, Peers
<1>t. sent[p] \in 0 .. Rounds /\ q \in Party BY DEF TypeOK, Peers
<1>1. CASE r \in 1 .. sent[p]
  <2>1. PICK m \in Held(q) : m.from = p /\ m.to = q /\ m.round = r BY <1>1 DEF PutOutHeld
  <2>2. m \in Held(q)' BY <1>t, <2>1, HeldStays
  <2>3. QED BY <2>1, <2>2
<1>2. CASE r \notin 1 .. sent[p]
  <2>0. sent'[p] \in 0 .. Rounds BY DEF TypeOK
  <2>s. sent'[p] # 0 /\ sent'[p] # sent[p] BY <1>t, <1>2, <2>0
  <2>1. Output(p) /\ r = NextOut(p) BY <1>t, <1>2, <2>s, SentSteps DEF NextOut
  <2>2. DEFINE msg == [from |-> p, to |-> q, round |-> NextOut(p), try |-> attempt[p],
                       re |-> IF NextOut(p) = 1 THEN 0 ELSE TryOf(p, q), setup |-> setup[p]]
  <2>3. msg \in wire' BY <2>1 DEF Output
  <2>4. msg.from = p /\ msg.to = q /\ msg.round = r BY <2>1
  <2>5. QED BY <2>3, <2>4 DEF Held
<1>3. QED BY <1>1, <1>2

LEMMA FirstInit == Init => FirstInv
<1> SUFFICES ASSUME Init PROVE OneTranscript /\ PutOutHeld BY DEF FirstInv
<1>1. OneTranscript BY DEF Init, OneTranscript, Given
<1>2. \A p \in Party : 1 .. sent[p] = {} BY DEF Init
<1>3. PutOutHeld BY <1>2 DEF PutOutHeld
<1>4. QED BY <1>1, <1>3

LEMMA FirstNext == TypeOK /\ TypeOK' /\ FirstInv /\ [Next]_vars => FirstInv'
<1> SUFFICES ASSUME TypeOK, TypeOK', FirstInv, [Next]_vars, First'
             PROVE  OneTranscript' /\ PutOutHeld'
    BY DEF FirstInv
<1>1. First /\ attempt' = attempt BY FirstStays
<1>2. OneTranscript /\ PutOutHeld BY <1>1 DEF FirstInv
<1>3. QED BY <1>1, <1>2, TranscriptStays, PutOutStays

-----------------------------------------------------------------------------
(* Every variable of a keygen keeps its domain; a session never puts out a *)
(* round before it has what its peers sent in the rounds before it         *)
(* (processOutbound, processInbound).                                      *)
THEOREM KeygenTypeCorrect == Spec => []TypeOK
BY TypeInit, TypeNext, PTL DEF Spec

(* OutboundDrained. startKeygen returns a key share only when its outbound *)
(* loop has put out everything the peers need, after any retries, lost     *)
(* messages and timeouts of others.                                        *)
THEOREM ReturnsDrained == Spec => []OutboundDrained
<1>1. Init => KInv BY TypeInit, DoneInit DEF KInv
<1>2. KInv /\ [Next]_vars => KInv' BY TypeNext, DoneNext DEF KInv
<1>3. KInv => OutboundDrained BY DEF KInv, DoneInv, OutboundDrained
<1>4. QED BY <1>1, <1>2, <1>3, PTL DEF Spec

(* NoMessageDropped. Until somebody starts over, no order of polls, faults *)
(* and failing requests to delete makes processInbound delete a message of *)
(* a peer that its session has not taken.                                  *)
THEOREM NothingDropped == Spec => []NoMessageDropped
<1>1. Init => TypeOK /\ FirstInv BY TypeInit, FirstInit
<1>2. TypeOK /\ FirstInv /\ [Next]_vars => (TypeOK /\ FirstInv)' BY TypeNext, FirstNext
<1>3. FirstInv => NoMessageDropped
      BY DEF FirstInv, First, PutOutHeld, Held, NoMessageDropped
<1>4. QED BY <1>1, <1>2, <1>3, PTL DEF Spec
=============================================================================
