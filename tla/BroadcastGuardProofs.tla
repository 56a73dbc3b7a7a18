------------------------ MODULE BroadcastGuardProofs ------------------------
(* Proofs about BroadcastGuard, for every value of its constants. *)
EXTENDS BroadcastGuard, FiniteSetTheorems, TLAPS

-----------------------------------------------------------------------------
(* Types. *)

(* The commands of a setting are well formed. *)
LEMMA JobsTyped ==
    ASSUME VarTypes
    PROVE  /\ setting.jobs \subseteq Job
           /\ \A j \in setting.jobs : j.approve # j.primary
           /\ setting.running \in Nat /\ setting.landing \in Nat
BY SettingsAssumption DEF VarTypes, Setting

(* What a busy process works on. *)
LEMMA BusyJob ==
    ASSUME TypeOK, NEW p \in Proc, pc[p] # "idle"
    PROVE  job[p] \in Job /\ job[p] # None /\ Cur(p) \in Fp
<1>1. setting.jobs \subseteq Job
  BY JobsTyped DEF TypeOK
<1>2. job[p] \in Job /\ job[p] # None
  BY <1>1 DEF TypeOK, VarTypes, ProcTypes
<1> QED BY <1>2, NoneAssumption DEF TypeOK, VarTypes, ProcTypes, Job, Cur, HasApprove, Legs

(* Appending a well-formed record keeps both sets of records well formed. *)
LEMMA AppendTypes ==
    ASSUME TypeOK, NEW r \in Broadcasts \cup Resolutions, AppendRecord(r)
    PROVE  /\ journal' \subseteq Broadcasts \cup Resolutions
           /\ hist' \subseteq Broadcasts \cup Resolutions
           /\ ord' \in Nat
BY DEF TypeOK, VarTypes, AppendRecord, KeptByPrune

LEMMA RecordBroadcastTypes ==
    ASSUME TypeOK, NEW f \in Fp, NEW h \in Hash, RecordBroadcast(f, h)
    PROVE  /\ journal' \subseteq Broadcasts \cup Resolutions
           /\ hist' \subseteq Broadcasts \cup Resolutions
           /\ ord' \in Nat
<1>1. PICK d \in 0 .. Lag : AppendRecord([t |-> "broadcast", fp |-> f, hash |-> h,
                                          ts |-> clock - d, ord |-> ord])
  BY DEF RecordBroadcast
<1>2. [t |-> "broadcast", fp |-> f, hash |-> h, ts |-> clock - d, ord |-> ord] \in Broadcasts
  BY TimesAssumption DEF TypeOK, VarTypes, Broadcasts
<1> QED BY <1>1, <1>2, AppendTypes

LEMMA RecordResolutionTypes ==
    ASSUME TypeOK, NEW h \in Hash, NEW s \in Status, RecordResolution(h, s)
    PROVE  /\ journal' \subseteq Broadcasts \cup Resolutions
           /\ hist' \subseteq Broadcasts \cup Resolutions
           /\ ord' \in Nat
<1>1. PICK d \in 0 .. Lag : AppendRecord([t |-> "resolved", hash |-> h, status |-> s,
                                          ts |-> clock - d, ord |-> ord])
  BY DEF RecordResolution
<1>2. [t |-> "resolved", hash |-> h, status |-> s, ts |-> clock - d, ord |-> ord] \in Resolutions
  BY TimesAssumption DEF TypeOK, VarTypes, Resolutions
<1> QED BY <1>1, <1>2, AppendTypes

LEMMA LandsTypes ==
    ASSUME TypeOK, NEW p \in Proc, pc[p] # "idle", NEW h \in Hash,
           NEW s \in {"pending", "confirmed", "failed"}, Lands(p, h, s)
    PROVE  chain' \in [Hash -> Tx \cup {None}]
<1>1. job[p].force \in BOOLEAN /\ Cur(p) \in Fp
  BY BusyJob DEF Job
<1>2. [fp |-> Cur(p), status |-> s, at |-> clock, forced |-> Forced(p)] \in Tx
  BY <1>1 DEF Tx, Forced, TypeOK, VarTypes
<1> QED BY <1>2 DEF Lands, TypeOK, VarTypes

LEMMA TypeInit == Init => TypeOK
BY DEF Init, TypeOK, VarTypes, ProcTypes, Phases, Legs

LEMMA TypeStep == TypeOK /\ [Next]_vars => TypeOK'
<1> SUFFICES ASSUME VarTypes, ProcTypes, [Next]_vars PROVE TypeOK'
  BY DEF TypeOK
<1>0. TypeOK
  BY DEF TypeOK
<1> USE DEF Phases, Legs
<1>1. ASSUME NEW p \in Proc, Step(p) PROVE TypeOK'
  <2> USE NoneAssumption
  <2>a. setting.jobs \subseteq Job
    BY JobsTyped
  <2>0. pc[p] # "idle" => job[p] \in Job /\ job[p] # None /\ Cur(p) \in Fp
    BY <1>0, BusyJob
  <2>1. CASE Start(p)
    <3>1. VarTypes'
      BY <2>1, <2>a DEF Start, VarTypes, ghostVars
    <3>2. ProcTypes'
      BY <2>1, <2>a DEF Start, VarTypes, ProcTypes, HasApprove
    <3> QED BY <3>1, <3>2 DEF TypeOK
  <2>2. CASE CheckPasses(p)
    <3>a. OnRecord(Cur(p)) \subseteq Hash
      BY DEF OnRecord, VarTypes, Broadcasts, Resolutions
    <3>b. known' \in [Proc -> SUBSET Hash]
      BY <2>2, <3>a DEF CheckPasses, VarTypes
    <3>1. VarTypes'
      BY <2>2, <2>0, <3>b DEF CheckPasses, NextLegOr, VarTypes, ghostVars
    <3>2. ProcTypes'
      BY <2>2, <2>0 DEF CheckPasses, NextLegOr, VarTypes, ProcTypes, HasApprove
    <3> QED BY <3>1, <3>2 DEF TypeOK
  <2>3. CASE CheckRefuses(p)
    <3>1. VarTypes'
      BY <2>3 DEF CheckRefuses, End, VarTypes, ghostVars
    <3>2. ProcTypes'
      BY <2>3 DEF CheckRefuses, End, VarTypes, ProcTypes, HasApprove
    <3> QED BY <3>1, <3>2 DEF TypeOK
  <2>4. CASE ReserveNothing(p)
    <3>1. VarTypes'
      BY <2>4, <2>0 DEF ReserveNothing, NextLegOr, VarTypes, ghostVars
    <3>2. ProcTypes'
      BY <2>4, <2>0 DEF ReserveNothing, NextLegOr, VarTypes, ProcTypes, HasApprove
    <3> QED BY <3>1, <3>2 DEF TypeOK
  <2>5. CASE ReserveCreate(p)
    <3>1. [by |-> p, at |-> clock] \in Lock
      BY DEF Lock, VarTypes
    <3>2. lock' \in [Fp -> Lock \cup {None}]
      BY <2>5, <3>1, <2>0 DEF ReserveCreate, VarTypes
    <3>3. held' \in [Proc -> SUBSET Fp]
      BY <2>5, <2>0 DEF ReserveCreate, VarTypes
    <3>4. /\ known' \in [Proc -> SUBSET Hash] /\ gap' \in [Proc -> SUBSET Hash]
          /\ left' \in [Hash -> Lock \cup {None}]
      BY <2>5 DEF ReserveCreate, ghostVars, VarTypes
    <3>5. pc' \in [Proc -> Phases] /\ leg' \in [Proc -> Legs] /\ try' \in [Proc -> {1, 2}]
      BY <2>5 DEF ReserveCreate, NextLegOr, VarTypes
    <3>6. VarTypes'
      BY <2>5, <3>2, <3>3, <3>4, <3>5 DEF ReserveCreate, VarTypes
    <3>7. ProcTypes'
      BY <2>5, <2>0 DEF ReserveCreate, NextLegOr, VarTypes, ProcTypes, HasApprove
    <3> QED BY <3>6, <3>7 DEF TypeOK
  <2>6. CASE ReserveExists(p) \/ ReserveRefuse(p) \/ ReserveFindsStale(p)
    <3>1. VarTypes'
      BY <2>6 DEF ReserveExists, ReserveRefuse, ReserveFindsStale, VarTypes, ghostVars
    <3>2. ProcTypes'
      BY <2>6 DEF ReserveExists, ReserveRefuse, ReserveFindsStale, VarTypes, ProcTypes, HasApprove
    <3> QED BY <3>1, <3>2 DEF TypeOK
  <2>7. CASE ReserveSteal(p)
    <3>1. VarTypes'
      BY <2>7, <2>0 DEF ReserveSteal, VarTypes, ghostVars
    <3>2. ProcTypes'
      BY <2>7, <2>0 DEF ReserveSteal, VarTypes, ProcTypes, HasApprove
    <3> QED BY <3>1, <3>2 DEF TypeOK
  <2>9. CASE SendThrows(p)
    <3>1. VarTypes'
      BY <2>9 DEF SendThrows, VarTypes, ghostVars
    <3>2. ProcTypes'
      BY <2>9 DEF SendThrows, VarTypes, ProcTypes, HasApprove
    <3> QED BY <3>1, <3>2 DEF TypeOK
  <2>8. CASE Send(p)
    <3>1. PICK h \in Hash : Lands(p, h, "pending") /\ out' = [out EXCEPT ![p] = h]
      BY <2>8 DEF Send
    <3>2. chain' \in [Hash -> Tx \cup {None}]
      BY <1>0, <2>8, <3>1, LandsTypes DEF Send
    <3>3. VarTypes'
      BY <2>8, <3>1, <3>2 DEF Send, VarTypes, ghostVars
    <3>4. ProcTypes'
      BY <2>8, <3>1, <3>2 DEF Send, VarTypes, ProcTypes, HasApprove
    <3> QED BY <3>3, <3>4 DEF TypeOK
  <2>11. CASE SendDeliverTxFails(p)
    <3>1. PICK h \in Hash : Lands(p, h, "failed") /\ out' = [out EXCEPT ![p] = h]
      BY <2>11 DEF SendDeliverTxFails
    <3>2. chain' \in [Hash -> Tx \cup {None}]
      BY <1>0, <2>11, <3>1, LandsTypes DEF SendDeliverTxFails
    <3>3. VarTypes'
      BY <2>11, <3>1, <3>2 DEF SendDeliverTxFails, VarTypes, ghostVars
    <3>4. ProcTypes'
      BY <2>11, <3>1, <3>2 DEF SendDeliverTxFails, VarTypes, ProcTypes, HasApprove
    <3> QED BY <3>3, <3>4 DEF TypeOK
  <2>10. CASE SendLandsThenThrows(p)
    <3>1. chain' \in [Hash -> Tx \cup {None}]
      BY <1>0, <2>10, LandsTypes DEF SendLandsThenThrows
    <3>2. VarTypes'
      BY <2>10, <3>1 DEF SendLandsThenThrows, VarTypes, ghostVars
    <3>3. ProcTypes'
      BY <2>10, <3>1 DEF SendLandsThenThrows, VarTypes, ProcTypes, HasApprove
    <3> QED BY <3>2, <3>3 DEF TypeOK
  <2>12. CASE Record(p)
    <3>1. Cur(p) \in Fp /\ out[p] \in Hash
      BY <2>0, <2>12 DEF Record, ProcTypes
    <3>2. /\ journal' \subseteq Broadcasts \cup Resolutions
              /\ hist' \subseteq Broadcasts \cup Resolutions /\ ord' \in Nat
      BY <1>0, <2>12, <3>1, RecordBroadcastTypes DEF Record
    <3>3. VarTypes'
      BY <2>12, <3>1, <3>2 DEF Record, AfterRecord, VarTypes, ghostVars
    <3>4. ProcTypes'
      BY <2>12, <3>1, <3>2 DEF Record, AfterRecord, VarTypes, ProcTypes, HasApprove
    <3> QED BY <3>3, <3>4 DEF TypeOK
  <2>13. CASE RecordFailed(p)
    <3>1. out[p] \in Hash
      BY <2>13 DEF RecordFailed, ProcTypes
    <3>2. /\ journal' \subseteq Broadcasts \cup Resolutions
              /\ hist' \subseteq Broadcasts \cup Resolutions /\ ord' \in Nat
      BY <1>0, <2>13, <3>1, RecordResolutionTypes DEF RecordFailed, Status
    <3>3. VarTypes'
      BY <2>13, <3>1, <3>2 DEF RecordFailed, VarTypes, ghostVars
    <3>4. ProcTypes'
      BY <2>13, <3>1, <3>2 DEF RecordFailed, VarTypes, ProcTypes, HasApprove
    <3> QED BY <3>3, <3>4 DEF TypeOK
  <2>13a. CASE RecordLost(p)
    <3>1. VarTypes'
      BY <2>13a DEF RecordLost, AfterRecord, VarTypes, ghostVars
    <3>2. ProcTypes'
      BY <2>13a DEF RecordLost, AfterRecord, VarTypes, ProcTypes, HasApprove
    <3> QED BY <3>1, <3>2 DEF TypeOK
  <2>14. CASE ReceiptArrives(p) \/ ReceiptFails(p)
    <3>1. VarTypes'
      BY <2>14 DEF ReceiptArrives, ReceiptFails, VarTypes, ghostVars
    <3>2. ProcTypes'
      BY <2>14 DEF ReceiptArrives, ReceiptFails, VarTypes, ProcTypes, HasApprove
    <3> QED BY <3>1, <3>2 DEF TypeOK
  <2>15. CASE Release(p)
    <3>1. PICK f \in Fp : Unlink(p, f)
      BY <2>15 DEF Release
    <3>2. lock' \in [Fp -> Lock \cup {None}] /\ held' \in [Proc -> SUBSET Fp]
      BY <3>1 DEF Unlink, VarTypes
    <3>3. CASE End(p)
      <4>1. VarTypes'
        BY <2>15, <3>2, <3>3 DEF Release, End, VarTypes
      <4>2. ProcTypes'
        BY <3>3 DEF End, VarTypes, ProcTypes, HasApprove
      <4> QED BY <4>1, <4>2 DEF TypeOK
    <3>4. CASE UNCHANGED <<pc, leg, try, job, out, known, gap>>
      <4>1. VarTypes'
        BY <2>15, <3>2, <3>4 DEF Release, VarTypes, ghostVars
      <4>2. ProcTypes'
        BY <3>4 DEF ProcTypes, HasApprove
      <4> QED BY <4>1, <4>2 DEF TypeOK
    <3> QED BY <2>15, <3>3, <3>4 DEF Release
  <2>16. CASE ReleaseNothing(p)
    <3>1. VarTypes'
      BY <2>16 DEF ReleaseNothing, End, VarTypes, ghostVars
    <3>2. ProcTypes'
      BY <2>16 DEF ReleaseNothing, End, VarTypes, ProcTypes, HasApprove
    <3> QED BY <3>1, <3>2 DEF TypeOK
  <2>17. CASE Crash(p)
    <3>a. left' \in [Hash -> Lock \cup {None}]
      BY <2>17 DEF Crash, VarTypes
    <3>1. VarTypes'
      BY <2>17, <3>a DEF Crash, End, VarTypes
    <3>2. ProcTypes'
      BY <2>17 DEF Crash, End, VarTypes, ProcTypes, HasApprove
    <3> QED BY <3>1, <3>2 DEF TypeOK
  <2> QED BY <1>1, <2>1, <2>2, <2>3, <2>4, <2>5, <2>6, <2>7, <2>8, <2>9, <2>10, <2>11,
             <2>12, <2>13, <2>13a, <2>14, <2>15, <2>16, <2>17 DEF Step
<1>2. ASSUME NEW h \in Hash, Settle(h) PROVE TypeOK'
  <2>1. chain[h] \in Tx
    BY <1>2 DEF Settle, VarTypes
  <2>2. PICK s \in {"confirmed", "failed"} : chain' = [chain EXCEPT ![h].status = s]
    BY <1>2 DEF Settle
  <2>3. [chain[h] EXCEPT !.status = s] \in Tx
    BY <2>1 DEF Tx
  <2>4. chain' \in [Hash -> Tx \cup {None}]
    BY <2>2, <2>3 DEF VarTypes
  <2>5. VarTypes'
    BY <1>2, <2>4 DEF Settle, VarTypes, procVars, ghostVars
  <2>6. ProcTypes'
    BY <1>2 DEF Settle, ProcTypes, HasApprove, procVars
  <2> QED BY <2>5, <2>6 DEF TypeOK
<1>3. ASSUME NEW h \in Hash, Poll(h) PROVE TypeOK'
  <2>1. chain[h] \in Tx
    BY <1>3 DEF Poll, VarTypes
  <2>2. PICK s \in Status : RecordResolution(h, s)
    BY <1>3, <2>1 DEF Poll, Tx, Status
  <2>3. /\ journal' \subseteq Broadcasts \cup Resolutions
        /\ hist' \subseteq Broadcasts \cup Resolutions /\ ord' \in Nat
    BY <1>0, <2>2, RecordResolutionTypes
  <2>4. VarTypes'
    BY <1>3, <2>3 DEF Poll, VarTypes, procVars, ghostVars
  <2>5. ProcTypes'
    BY <1>3 DEF Poll, ProcTypes, HasApprove, procVars
  <2> QED BY <2>4, <2>5 DEF TypeOK
<1>4. CASE Tick
  BY <1>4 DEF Tick, TypeOK, VarTypes, ProcTypes, HasApprove, procVars, ghostVars
<1>5. CASE UNCHANGED vars
  BY <1>5 DEF vars, TypeOK, VarTypes, ProcTypes, HasApprove
<1> QED BY <1>1, <1>2, <1>3, <1>4, <1>5 DEF Next

(* Every reachable state is well typed: records, locks and transactions    *)
(* have the shape the code gives them, and a process past its broadcast    *)
(* has a hash to record.                                                   *)
THEOREM TypeCorrect == Spec => []TypeOK
BY TypeInit, TypeStep, PTL DEF Spec

-----------------------------------------------------------------------------
(* Compaction. *)

(* What is true of the journal and of the history it is a part of: records *)
(* carry a ts no later than now; the file order and the ts order differ by *)
(* at most Lag; what is gone from the journal is older than Retention.     *)
HistOK ==
    /\ clock \in Nat
    /\ ord \in Nat
    /\ \A r \in hist : r.ts \in Int /\ r.ord \in Nat /\ r.ord < ord /\ r.ts <= clock
JournalInHist == journal \subseteq hist
OrderFollowsTime == \A a, b \in hist : a.ord < b.ord => b.ts >= a.ts - Lag
GoneIsOld == \A r \in hist : r \notin journal => r.ts < clock - Retention

HInv == HistOK /\ JournalInHist /\ OrderFollowsTime /\ GoneIsOld

(* A record appended now. *)
AppendsNow ==
    /\ clock' = clock
    /\ \E r : /\ r.ord = ord /\ r.ts \in Int /\ clock - Lag <= r.ts /\ r.ts <= clock
              /\ AppendRecord(r)

(* A step leaves the records alone while time may pass, or appends one.    *)
LEMMA RecordStep ==
    ASSUME clock \in Nat, [Next]_vars
    PROVE  \/ UNCHANGED <<journal, hist, ord>> /\ (clock' = clock \/ clock' = clock + 1)
           \/ AppendsNow
<1> USE TimesAssumption
<1>1. ASSUME NEW f, NEW h, RecordBroadcast(f, h), clock' = clock PROVE AppendsNow
  <2>1. PICK d \in 0 .. Lag : AppendRecord([t |-> "broadcast", fp |-> f, hash |-> h,
                                            ts |-> clock - d, ord |-> ord])
    BY <1>1 DEF RecordBroadcast
  <2> DEFINE r == [t |-> "broadcast", fp |-> f, hash |-> h, ts |-> clock - d, ord |-> ord]
  <2>2. r.ord = ord /\ r.ts \in Int /\ clock - Lag <= r.ts /\ r.ts <= clock
    OBVIOUS
  <2>3. AppendRecord(r)
    BY <2>1
  <2> HIDE DEF r
  <2> QED BY <1>1, <2>2, <2>3 DEF AppendsNow
<1>2. ASSUME NEW h, NEW s, RecordResolution(h, s), clock' = clock PROVE AppendsNow
  <2>1. PICK d \in 0 .. Lag : AppendRecord([t |-> "resolved", hash |-> h, status |-> s,
                                            ts |-> clock - d, ord |-> ord])
    BY <1>2 DEF RecordResolution
  <2> DEFINE r == [t |-> "resolved", hash |-> h, status |-> s, ts |-> clock - d, ord |-> ord]
  <2>2. r.ord = ord /\ r.ts \in Int /\ clock - Lag <= r.ts /\ r.ts <= clock
    OBVIOUS
  <2>3. AppendRecord(r)
    BY <2>1
  <2> HIDE DEF r
  <2> QED BY <1>2, <2>2, <2>3 DEF AppendsNow
<1>3. ASSUME NEW p \in Proc, Step(p)
      PROVE  UNCHANGED <<journal, hist, ord, clock>> \/ AppendsNow
  <2>1. CASE Record(p) BY <2>1, <1>1 DEF Record
  <2>2. CASE RecordFailed(p) BY <2>2, <1>2 DEF RecordFailed
  <2>2a. CASE RecordLost(p) BY <2>2a DEF RecordLost
  <2>3. CASE Start(p) \/ CheckPasses(p) \/ CheckRefuses(p) \/ Crash(p)
    BY <2>3 DEF Start, CheckPasses, CheckRefuses, Crash
  <2>4. CASE ReserveNothing(p) \/ ReserveCreate(p) \/ ReserveExists(p) \/ ReserveRefuse(p)
    BY <2>4 DEF ReserveNothing, ReserveCreate, ReserveExists, ReserveRefuse
  <2>5. CASE ReserveFindsStale(p) \/ ReserveSteal(p) \/ Release(p) \/ ReleaseNothing(p)
    BY <2>5 DEF ReserveFindsStale, ReserveSteal, Release, ReleaseNothing
  <2>6. CASE Send(p) \/ SendThrows(p) \/ SendLandsThenThrows(p) \/ SendDeliverTxFails(p)
    BY <2>6 DEF Send, SendThrows, SendLandsThenThrows, SendDeliverTxFails
  <2>7. CASE ReceiptArrives(p) \/ ReceiptFails(p)
    BY <2>7 DEF ReceiptArrives, ReceiptFails
  <2> QED BY <1>3, <2>1, <2>2, <2>2a, <2>3, <2>4, <2>5, <2>6, <2>7 DEF Step
<1>4. ASSUME NEW h \in Hash, Settle(h) PROVE UNCHANGED <<journal, hist, ord, clock>>
  BY <1>4 DEF Settle
<1>5. ASSUME NEW h \in Hash, Poll(h) PROVE AppendsNow
  BY <1>5, <1>2 DEF Poll
<1>6. CASE Tick BY <1>6 DEF Tick
<1>7. CASE UNCHANGED vars BY <1>7 DEF vars
<1> QED BY <1>3, <1>4, <1>5, <1>6, <1>7 DEF Next

LEMMA HInvInit == Init => HInv
BY DEF Init, HInv, HistOK, JournalInHist, OrderFollowsTime, GoneIsOld

LEMMA HInvStep == HInv /\ [Next]_vars => HInv'
<1> SUFFICES ASSUME HInv, [Next]_vars PROVE HInv'
  OBVIOUS
<1> USE TimesAssumption DEF HInv, HistOK, JournalInHist, OrderFollowsTime, GoneIsOld
<1>1. CASE UNCHANGED <<journal, hist, ord>> /\ (clock' = clock \/ clock' = clock + 1)
  BY <1>1
<1>2. CASE AppendsNow
  <2>1. PICK r : /\ r.ord = ord /\ r.ts \in Int /\ clock - Lag <= r.ts /\ r.ts <= clock
                 /\ AppendRecord(r)
    BY <1>2 DEF AppendsNow
  <2>2. clock' = clock /\ hist' = hist \cup {r} /\ ord' = ord + 1
    BY <1>2, <2>1 DEF AppendsNow, AppendRecord
  <2>3. HistOK'
    BY <2>1, <2>2
  <2>4. \/ journal' = journal \cup {r}
        \/ journal' = {q \in journal \cup {r} : q.ts >= clock - Retention}
    BY <2>1 DEF AppendRecord, KeptByPrune
  <2>5. JournalInHist'
    BY <2>2, <2>4
  <2>6. OrderFollowsTime'
    <3> SUFFICES ASSUME NEW a \in hist', NEW b \in hist', a.ord < b.ord
                 PROVE  b.ts >= a.ts - Lag
      OBVIOUS
    <3>1. CASE a \in hist /\ b \in hist BY <3>1
    <3>2. CASE a \in hist /\ b = r BY <2>1, <3>2
    <3>3. CASE a = r /\ b \in hist BY <2>1, <3>3
    <3>4. CASE a = r /\ b = r BY <2>1, <3>4
    <3> QED BY <2>2, <3>1, <3>2, <3>3, <3>4
  <2>7. GoneIsOld'
    <3> SUFFICES ASSUME NEW q \in hist', q \notin journal' PROVE q.ts < clock - Retention
      BY <2>2
    <3>1. q.ts \in Int
      BY <2>1, <2>2
    <3> QED BY <2>2, <2>4, <3>1
  <2> QED BY <2>3, <2>5, <2>6, <2>7
<1> QED BY <1>1, <1>2, RecordStep

(* The records that can still matter were not compacted away, so the       *)
(* guard's answer is the same as if nothing ever had been.                 *)
LEMMA HInvImpliesPruneInvisible == HInv => PruneInvisible
<1> SUFFICES ASSUME HInv, NEW f \in Fp, NEW r
             PROVE  r \in journal /\ Blocks(journal, r, clock) /\ r.fp = f
                <=> r \in hist /\ Blocks(hist, r, clock) /\ r.fp = f
  BY DEF PruneInvisible, FindRecentDuplicate
<1> USE TimesAssumption DEF HInv, HistOK, JournalInHist, GoneIsOld
<1>1. CASE ~ (r \in hist /\ r.ts >= clock - Window)
  BY <1>1 DEF Blocks
<1>2. CASE r \in hist /\ r.ts >= clock - Window
  <2>1. r \in journal
    BY <1>2
  <2>2. ASSUME DefinitivelyFailed(hist, r) PROVE DefinitivelyFailed(journal, r)
    <3>1. PICK q \in hist : /\ q.t = "resolved" /\ q.hash = r.hash /\ q.status = "failed"
                            /\ q.ts >= r.ts
                            /\ \A q2 \in hist : q2.t = "resolved" /\ q2.hash = r.hash => q2.ord <= q.ord
      BY <2>2 DEF DefinitivelyFailed
    <3>2. q \in journal
      BY <1>2, <3>1
    <3> QED BY <3>1, <3>2 DEF DefinitivelyFailed
  <2>3. ASSUME DefinitivelyFailed(journal, r) PROVE DefinitivelyFailed(hist, r)
    <3>1. PICK q \in journal : /\ q.t = "resolved" /\ q.hash = r.hash /\ q.status = "failed"
                               /\ q.ts >= r.ts
                               /\ \A q2 \in journal : q2.t = "resolved" /\ q2.hash = r.hash => q2.ord <= q.ord
      BY <2>3 DEF DefinitivelyFailed
    <3>2. ASSUME NEW q2 \in hist, q2.t = "resolved", q2.hash = r.hash PROVE q2.ord <= q.ord
      <4>1. CASE q2 \in journal BY <3>1, <3>2, <4>1
      <4>2. CASE q2 \notin journal
        <5>1. q2.ts < q.ts - Lag
          BY <1>2, <3>1, <4>2
        <5> QED BY <3>1, <5>1 DEF OrderFollowsTime
      <4> QED BY <4>1, <4>2
    <3> QED BY <3>1, <3>2 DEF DefinitivelyFailed
  <2> QED BY <1>2, <2>1, <2>2, <2>3 DEF Blocks
<1> QED BY <1>1, <1>2

(* Compacting the journal never changes which broadcasts block an intent,  *)
(* for any number of processes and records: pruneJournal's comment that no *)
(* in-window broadcast can depend on a pruned record.                      *)
THEOREM PruneIsInvisible == Spec => []PruneInvisible
<1>1. Spec => []HInv
  BY HInvInit, HInvStep, PTL DEF Spec
<1> QED BY <1>1, HInvImpliesPruneInvisible, PTL

-----------------------------------------------------------------------------
(* What the records, the chain and the processes say of a hash.            *)

(* A hash that is on no chain has no record and no sender; the records of  *)
(* a hash name its intent; and what is known to have failed was sent       *)
(* before the copy that has not.                                           *)
HashInv ==
    \A h \in Hash :
        /\ chain[h] = None => /\ \A r \in hist : r.hash # h
                              /\ \A p \in Proc : out[p] # h
        /\ chain[h] # None =>
              \A r \in hist : r.t = "broadcast" /\ r.hash = h => r.fp = chain[h].fp
        /\ chain[h] # None /\ chain[h].status # "failed" =>
              \A r \in hist : r.t = "resolved" /\ r.hash = h /\ r.status = "failed" =>
                                  r.ts < chain[h].at

(* The hash a process holds is one it sent, for the leg it is at or for    *)
(* the approval before it; a forced copy of its transaction may have       *)
(* followed, but not before its own is recorded.                           *)
Sent(p) ==
    /\ pc[p] \in {"idle", "check", "create", "stat", "unlink"} => out[p] = None
    /\ out[p] # None =>
          /\ chain[out[p]].fp \in {job[p].primary, job[p].approve}
          /\ ~ chain[out[p]].forced => ~ Forced(p)
    /\ pc[p] \in {"record", "recordFailed"} =>
          /\ chain[out[p]].fp = Cur(p) /\ chain[out[p]].forced = Forced(p)
          /\ pc[p] = "recordFailed" => chain[out[p]].status = "failed"
    /\ pc[p] = "receipt" => leg[p] = "approve" /\ chain[out[p]].fp = job[p].approve
    /\ pc[p] = "send" /\ out[p] # None =>
          leg[p] = "primary" /\ HasApprove(p) /\ chain[out[p]].fp = job[p].approve

SentInv == \A p \in Proc : Sent(p)

(* When a process is past its receipt wait, its approval is on record and  *)
(* confirmed.                                                              *)
OnRecordAs(f, h) == \E r \in hist : r.t = "broadcast" /\ r.fp = f /\ r.hash = h
Approved(p) ==
    /\ pc[p] = "receipt" => OnRecordAs(job[p].approve, out[p])
    /\ pc[p] = "send" /\ leg[p] = "primary" /\ HasApprove(p) =>
          /\ out[p] # None /\ chain[out[p]].status = "confirmed"
          /\ OnRecordAs(job[p].approve, out[p])
ApprovedInv == \A p \in Proc : Approved(p)

NothingKnown == \A p \in Proc : known[p] = {}

(* The intents p has checked and has still to send. *)
Due(p) ==
    CASE pc[p] \in {"create", "stat", "unlink"} -> {job[p].primary, job[p].approve} \ {None}
      [] pc[p] = "check" /\ leg[p] = "approve" -> {job[p].primary}
      [] pc[p] = "send" -> {Cur(p), job[p].primary}
      [] pc[p] \in {"record", "receipt"} /\ leg[p] = "approve" -> {job[p].primary}
      [] OTHER -> {}

(* The intents whose reservation it has. *)
Taken(p) ==
    CASE pc[p] \in {"create", "stat", "unlink"} /\ leg[p] = "approve" -> {job[p].primary}
      [] pc[p] \in {"send", "record", "recordFailed", "receipt"} ->
             {job[p].primary, job[p].approve} \ {None}
      [] OTHER -> {}

TakenInv == \A p \in Proc : job[p] # None /\ ~ Forced(p) => Taken(p) \subseteq held[p]

(* Of what p has still to send nothing was recorded behind its back.       *)
GapInv ==
    \A p \in Proc, a \in Hash :
        job[p] # None /\ ~ Forced(p) =>
            \A f \in Due(p) : LiveCopy(a, f) /\ Journaled(a) => a \in gap[p]

-----------------------------------------------------------------------------
(* Steps, seen from the records, the chain and a process.                  *)

(* A process does not touch what another one remembers or holds. *)
LEMMA OthersAlone ==
    ASSUME TypeOK, NEW p \in Proc, Step(p), NEW q \in Proc, q # p
    PROVE  /\ pc'[q] = pc[q] /\ leg'[q] = leg[q] /\ job'[q] = job[q]
           /\ held'[q] = held[q] /\ out'[q] = out[q] /\ known'[q] = known[q]
           /\ gap[q] \subseteq gap'[q]
<1> USE DEF TypeOK, VarTypes, ghostVars
<1>1. CASE Start(p) \/ CheckPasses(p) \/ CheckRefuses(p) \/ Crash(p)
  BY <1>1 DEF Start, CheckPasses, CheckRefuses, Crash, End, NextLegOr
<1>2. CASE ReserveNothing(p) \/ ReserveCreate(p) \/ ReserveExists(p) \/ ReserveRefuse(p)
  BY <1>2 DEF ReserveNothing, ReserveCreate, ReserveExists, ReserveRefuse, NextLegOr
<1>3. CASE ReserveFindsStale(p) \/ ReserveSteal(p) \/ ReleaseNothing(p)
  BY <1>3 DEF ReserveFindsStale, ReserveSteal, ReleaseNothing, End
<1>4. CASE Send(p) \/ SendThrows(p) \/ SendLandsThenThrows(p) \/ SendDeliverTxFails(p)
  BY <1>4 DEF Send, SendThrows, SendLandsThenThrows, SendDeliverTxFails
<1>5. CASE Record(p) BY <1>5 DEF Record
<1>6. CASE RecordFailed(p) \/ RecordLost(p) \/ ReceiptArrives(p) \/ ReceiptFails(p)
  BY <1>6 DEF RecordFailed, RecordLost, ReceiptArrives, ReceiptFails
<1>7. CASE Release(p)
  <2>1. PICK f \in Fp : Unlink(p, f) BY <1>7 DEF Release
  <2>2. held'[q] = held[q] BY <2>1 DEF Unlink
  <2> QED BY <1>7, <2>2 DEF Release, End
<1> QED BY <1>1, <1>2, <1>3, <1>4, <1>5, <1>6, <1>7 DEF Step

(* p's transaction lands as h, and p takes the answer, or none. *)
LandsAs(p, h, s) ==
    /\ pc[p] = "send" /\ Lands(p, h, s) /\ UNCHANGED <<hist, clock>>
    /\ out' \in {out, [out EXCEPT ![p] = h]}

(* A resolution of h is appended; a failure only of what has failed. *)
Resolves(h, s) ==
    /\ chain[h] # None /\ (s = "failed" => chain[h].status = "failed")
    /\ RecordResolution(h, s)
    /\ UNCHANGED <<chain, out, clock>>

(* Nothing is recorded or sent; hashes may be forgotten, and time may pass. *)
Forgets ==
    /\ UNCHANGED <<hist, chain>> /\ clock' >= clock
    /\ \A q \in Proc : out'[q] \in {out[q], None}

LEMMA Kinds ==
    ASSUME TypeOK, SentInv, HashInv, [Next]_vars
    PROVE  \/ Forgets
           \/ \E p \in Proc, h \in Hash, s \in {"pending", "failed"} : LandsAs(p, h, s)
           \/ \E p \in Proc : Record(p)
           \/ \E h \in Hash, s \in Status : Resolves(h, s)
           \/ \E h \in Hash : Settle(h)
<1> DEFINE Kind == \/ Forgets
                   \/ \E p \in Proc, h \in Hash, s \in {"pending", "failed"} : LandsAs(p, h, s)
                   \/ \E p \in Proc : Record(p)
                   \/ \E h \in Hash, s \in Status : Resolves(h, s)
                   \/ \E h \in Hash : Settle(h)
<1>c. clock \in Nat BY DEF TypeOK, VarTypes
<1>1. ASSUME NEW p \in Proc, Step(p) PROVE Kind
  <2> USE <1>c DEF TypeOK, VarTypes
  <2>1. CASE Start(p) \/ CheckPasses(p) \/ CheckRefuses(p) \/ Crash(p)
    <3>1. Forgets
      BY <2>1 DEF Start, CheckPasses, CheckRefuses, Crash, End, Forgets
    <3> QED BY <3>1
  <2>2. CASE ReserveNothing(p) \/ ReserveCreate(p) \/ ReserveExists(p) \/ ReserveRefuse(p)
    <3>1. Forgets
      BY <2>2 DEF ReserveNothing, ReserveCreate, ReserveExists, ReserveRefuse, Forgets
    <3> QED BY <3>1
  <2>3. CASE ReserveFindsStale(p) \/ ReserveSteal(p) \/ ReleaseNothing(p) \/ SendThrows(p)
    <3>1. Forgets
      BY <2>3 DEF ReserveFindsStale, ReserveSteal, ReleaseNothing, SendThrows, End, Forgets
    <3> QED BY <3>1
  <2>4. CASE RecordLost(p) \/ ReceiptArrives(p) \/ ReceiptFails(p)
    <3>1. Forgets BY <2>4 DEF RecordLost, ReceiptArrives, ReceiptFails, Forgets
    <3> QED BY <3>1
  <2>5. CASE Release(p)
    <3>1. Forgets BY <2>5 DEF Release, End, Forgets
    <3> QED BY <3>1
  <2>6. CASE Send(p)
    <3>1. PICK h \in Hash : Lands(p, h, "pending") /\ out' = [out EXCEPT ![p] = h]
      BY <2>6 DEF Send
    <3>2. LandsAs(p, h, "pending") BY <2>6, <3>1 DEF Send, LandsAs
    <3> QED BY <3>2
  <2>7. CASE SendDeliverTxFails(p)
    <3>1. PICK h \in Hash : Lands(p, h, "failed") /\ out' = [out EXCEPT ![p] = h]
      BY <2>7 DEF SendDeliverTxFails
    <3>2. LandsAs(p, h, "failed") BY <2>7, <3>1 DEF SendDeliverTxFails, LandsAs
    <3> QED BY <3>2
  <2>8. CASE SendLandsThenThrows(p)
    <3>1. PICK h \in Hash : Lands(p, h, "pending") BY <2>8 DEF SendLandsThenThrows
    <3>2. LandsAs(p, h, "pending") BY <2>8, <3>1 DEF SendLandsThenThrows, LandsAs
    <3> QED BY <3>2
  <2>9. CASE Record(p) BY <2>9
  <2>10. CASE RecordFailed(p)
    <3>1. /\ out[p] \in Hash /\ out[p] # None /\ chain[out[p]].status = "failed"
          BY <2>10, NoneAssumption DEF RecordFailed, SentInv, Sent, ProcTypes
    <3>2. chain[out[p]] # None BY <3>1 DEF HashInv
    <3>3. Resolves(out[p], "failed") BY <2>10, <3>1, <3>2 DEF RecordFailed, Resolves
    <3> QED BY <3>1, <3>3 DEF Status
  <2> QED BY <1>1, <2>1, <2>2, <2>3, <2>4, <2>5, <2>6, <2>7, <2>8, <2>9, <2>10 DEF Step
<1>2. ASSUME NEW h \in Hash, Poll(h) PROVE Kind
  <2>1. chain[h] \in Tx BY <1>2 DEF Poll, TypeOK, VarTypes
  <2>2. CASE chain[h].status # "pending" /\ RecordResolution(h, chain[h].status)
    <3>1. chain[h].status \in Status BY <2>1, <2>2 DEF Tx, Status
    <3>2. Resolves(h, chain[h].status) BY <1>2, <2>2 DEF Poll, Resolves, procVars
    <3> QED BY <3>1, <3>2
  <2>3. CASE chain[h].status = "pending" /\ RecordResolution(h, "timeout")
    <3>1. Resolves(h, "timeout") BY <1>2, <2>3 DEF Poll, Resolves, procVars
    <3> QED BY <3>1 DEF Status
  <2> QED BY <1>2, <2>2, <2>3 DEF Poll
<1>3. CASE Tick BY <1>3, <1>c DEF Tick, procVars, Forgets
<1>4. CASE UNCHANGED vars BY <1>4, <1>c DEF vars, Forgets
<1> QED BY <1>1, <1>2, <1>3, <1>4 DEF Next

(* What becomes of a transaction: it keeps its intent, and if it is sent   *)
(* again that is forced; nobody sends again what has been confirmed or is  *)
(* still to be recorded.                                                   *)
Becomes(x) ==
    /\ chain'[x] # None /\ chain'[x].fp = chain[x].fp
    /\ ~ chain'[x].forced => ~ chain[x].forced
    /\ chain[x].status = "confirmed" => chain'[x] = chain[x]
    /\ (\E q \in Proc : pc[q] \in {"record", "recordFailed"} /\ out[q] = x) =>
          /\ chain'[x].forced = chain[x].forced /\ chain'[x].at = chain[x].at
          /\ chain[x].status = "failed" => chain'[x] = chain[x]
    /\ ~ chain'[x].forced /\ chain'[x].status # "failed" =>
          chain[x].status # "failed" /\ chain'[x].at = chain[x].at

LEMMA ChainKeeps ==
    ASSUME TypeOK, SentInv, HashInv, [Next]_vars, NEW x \in Hash, chain[x] # None
    PROVE  Becomes(x)
<1>t. chain[x] \in Tx BY DEF TypeOK, VarTypes
<1>1. CASE chain'[x] = chain[x] BY <1>1, <1>t DEF Becomes
<1>2. ASSUME NEW p \in Proc, NEW h \in Hash, NEW s \in {"pending", "failed"}, LandsAs(p, h, s)
      PROVE  Becomes(x)
  <2>1. CASE h # x
    <3>1. chain'[x] = chain[x] BY <1>2, <2>1 DEF LandsAs, Lands, TypeOK, VarTypes
    <3> QED BY <1>1, <3>1
  <2>2. CASE h = x
    <3>1. /\ Forced(p) /\ chain[x].fp = Cur(p) /\ chain[x].status = "failed"
          /\ \A q \in Proc : pc[q] \in {"record", "recordFailed"} => out[q] # x
      BY <1>2, <2>2 DEF LandsAs, Lands, MayReturn
    <3>2. chain'[x] = [fp |-> Cur(p), status |-> s, at |-> clock, forced |-> Forced(p)]
      BY <1>2, <2>2 DEF LandsAs, Lands, TypeOK, VarTypes
    <3>3. job[p].force \in BOOLEAN /\ Cur(p) \in Fp BY <1>2, BusyJob DEF LandsAs, Job
    <3>4. [fp |-> Cur(p), status |-> s, at |-> clock, forced |-> Forced(p)] \in Tx
      BY <3>3 DEF Tx, Forced, TypeOK, VarTypes
    <3>5. chain'[x] # None BY <3>2, <3>4, NoneAssumption
    <3>6. chain'[x].fp = chain[x].fp /\ chain'[x].forced = TRUE BY <3>1, <3>2, <3>3 DEF Forced
    <3> QED BY <3>1, <3>5, <3>6 DEF Becomes
  <2> QED BY <2>1, <2>2
<1>3. ASSUME NEW h \in Hash, Settle(h) PROVE Becomes(x)
  <2>1. CASE h # x
    <3>1. chain'[x] = chain[x] BY <1>3, <2>1 DEF Settle, TypeOK, VarTypes
    <3> QED BY <1>1, <3>1
  <2>2. CASE h = x
    <3>1. PICK s \in {"confirmed", "failed"} : chain' = [chain EXCEPT ![x].status = s]
      BY <1>3, <2>2 DEF Settle
    <3>2. chain'[x] = [chain[x] EXCEPT !.status = s] BY <3>1 DEF TypeOK, VarTypes
    <3>3. chain'[x] \in Tx BY <1>t, <3>2 DEF Tx
    <3>4. chain'[x] # None BY <3>3, NoneAssumption
    <3>5. chain[x].status = "pending" BY <1>3, <2>2 DEF Settle
    <3> QED BY <1>t, <3>2, <3>4, <3>5 DEF Becomes, Tx
  <2> QED BY <2>1, <2>2
<1>4. CASE UNCHANGED chain BY <1>1, <1>4
<1> QED BY <1>2, <1>3, <1>4, Kinds DEF Forgets, Record, Resolves

-----------------------------------------------------------------------------
(* The inductive steps.                                                    *)

LEMMA HashInit == Init => HashInv /\ SentInv
BY NoneAssumption DEF Init, HashInv, SentInv, Sent

(* What an append adds to the history. *)
LEMMA Appends ==
    ASSUME NEW f, NEW h, RecordBroadcast(f, h)
    PROVE  \E r : /\ hist' = hist \cup {r}
                  /\ r.t = "broadcast" /\ r.fp = f /\ r.hash = h /\ r.ts >= chain[h].at
<1>1. PICK d \in 0 .. Lag :
          /\ clock - d >= chain[h].at
          /\ AppendRecord([t |-> "broadcast", fp |-> f, hash |-> h, ts |-> clock - d, ord |-> ord])
  BY DEF RecordBroadcast
<1>2. DEFINE r == [t |-> "broadcast", fp |-> f, hash |-> h, ts |-> clock - d, ord |-> ord]
<1>3. r.t = "broadcast" /\ r.fp = f /\ r.hash = h /\ r.ts >= chain[h].at BY <1>1
<1>4. hist' = hist \cup {r} BY <1>1 DEF AppendRecord
<1> HIDE DEF r
<1> QED BY <1>3, <1>4

LEMMA AppendsResolution ==
    ASSUME NEW h, NEW s, RecordResolution(h, s)
    PROVE  \E r : /\ hist' = hist \cup {r}
                  /\ r.t = "resolved" /\ r.hash = h /\ r.status = s
<1>1. PICK d \in 0 .. Lag :
          AppendRecord([t |-> "resolved", hash |-> h, status |-> s, ts |-> clock - d, ord |-> ord])
  BY DEF RecordResolution
<1>2. DEFINE r == [t |-> "resolved", hash |-> h, status |-> s, ts |-> clock - d, ord |-> ord]
<1>3. r.t = "resolved" /\ r.hash = h /\ r.status = s OBVIOUS
<1>4. hist' = hist \cup {r} BY <1>1 DEF AppendRecord
<1> HIDE DEF r
<1> QED BY <1>3, <1>4

LEMMA HashStep == TypeOK /\ SentInv /\ HashInv /\ [Next]_vars => HashInv'
<1> SUFFICES ASSUME TypeOK, SentInv, HashInv, [Next]_vars, NEW x \in Hash
             PROVE  /\ chain'[x] = None => /\ \A r \in hist' : r.hash # x
                                           /\ \A p \in Proc : out'[p] # x
                    /\ chain'[x] # None =>
                          \A r \in hist' : r.t = "broadcast" /\ r.hash = x => r.fp = chain'[x].fp
                    /\ chain'[x] # None /\ chain'[x].status # "failed" =>
                          \A r \in hist' :
                              r.t = "resolved" /\ r.hash = x /\ r.status = "failed" =>
                                  r.ts < chain'[x].at
    BY DEF HashInv
<1> DEFINE Goal == /\ chain'[x] = None => /\ \A r \in hist' : r.hash # x
                                          /\ \A p \in Proc : out'[p] # x
                   /\ chain'[x] # None =>
                         \A r \in hist' : r.t = "broadcast" /\ r.hash = x => r.fp = chain'[x].fp
                   /\ chain'[x] # None /\ chain'[x].status # "failed" =>
                         \A r \in hist' :
                             r.t = "resolved" /\ r.hash = x /\ r.status = "failed" =>
                                 r.ts < chain'[x].at
<1>h. /\ chain[x] = None => /\ \A r \in hist : r.hash # x
                            /\ \A p \in Proc : out[p] # x
      /\ chain[x] # None => \A r \in hist : r.t = "broadcast" /\ r.hash = x => r.fp = chain[x].fp
      /\ chain[x] # None /\ chain[x].status # "failed" =>
            \A r \in hist : r.t = "resolved" /\ r.hash = x /\ r.status = "failed" =>
                                r.ts < chain[x].at
  BY DEF HashInv
<1>n. x # None BY NoneAssumption
<1>1. CASE Forgets
  <2>1. \A p \in Proc : out'[p] = x => out[p] = x BY <1>1, <1>n DEF Forgets
  <2> QED BY <1>1, <1>h, <2>1 DEF Forgets
<1>2. ASSUME NEW p \in Proc, NEW h \in Hash, NEW s \in {"pending", "failed"}, LandsAs(p, h, s)
      PROVE  Goal
  <2>1. CASE h # x
    <3>1. chain'[x] = chain[x] BY <1>2, <2>1 DEF LandsAs, Lands, TypeOK, VarTypes
    <3>2. \A q \in Proc : out'[q] = x => out[q] = x
      BY <1>2, <2>1 DEF LandsAs, TypeOK, VarTypes
    <3> QED BY <1>2, <1>h, <3>1, <3>2 DEF LandsAs
  <2>2. CASE h = x
    <3>1. chain'[x] = [fp |-> Cur(p), status |-> s, at |-> clock, forced |-> Forced(p)]
      BY <1>2, <2>2 DEF LandsAs, Lands, TypeOK, VarTypes
    <3>2. Cur(p) \in Fp /\ job[p].force \in BOOLEAN BY <1>2, BusyJob DEF LandsAs, Job
    <3>3. [fp |-> Cur(p), status |-> s, at |-> clock, forced |-> Forced(p)] \in Tx
      BY <3>2 DEF Tx, Forced, TypeOK, VarTypes
    <3>4. chain'[x] # None BY <3>1, <3>3, NoneAssumption
    <3>5. CASE chain[x] = None BY <1>2, <1>h, <3>4, <3>5 DEF LandsAs
    <3>6. CASE chain[x] # None
      <4>1. chain[x].fp = Cur(p) /\ \A r \in hist : r.hash = x => r.ts < clock
        BY <1>2, <2>2, <3>6 DEF LandsAs, Lands, MayReturn
      <4> QED BY <1>2, <1>h, <3>1, <3>4, <3>6, <4>1 DEF LandsAs
    <3> QED BY <3>5, <3>6
  <2> QED BY <2>1, <2>2
<1>3. ASSUME NEW p \in Proc, Record(p) PROVE Goal
  <2>1. PICK r : hist' = hist \cup {r} /\ r.t = "broadcast" /\ r.fp = Cur(p) /\ r.hash = out[p]
    BY <1>3, Appends DEF Record
  <2>2. UNCHANGED <<chain, out>> BY <1>3 DEF Record
  <2>3. pc[p] = "record" /\ chain[out[p]].fp = Cur(p) BY <1>3 DEF Record, SentInv, Sent
  <2> QED BY <1>h, <2>1, <2>2, <2>3
<1>4. ASSUME NEW h \in Hash, NEW s \in Status, Resolves(h, s) PROVE Goal
  <2>1. PICK r : hist' = hist \cup {r} /\ r.t = "resolved" /\ r.hash = h /\ r.status = s
    BY <1>4, AppendsResolution DEF Resolves
  <2>2. UNCHANGED <<chain, out>> /\ chain[h] # None /\ (s = "failed" => chain[h].status = "failed")
    BY <1>4 DEF Resolves
  <2> QED BY <1>h, <2>1, <2>2
<1>5. ASSUME NEW h \in Hash, Settle(h) PROVE Goal
  <2>1. UNCHANGED <<hist, out>> BY <1>5 DEF Settle, procVars
  <2>2. CASE h # x
    <3>1. chain'[x] = chain[x] BY <1>5, <2>2 DEF Settle, TypeOK, VarTypes
    <3> QED BY <1>h, <2>1, <3>1
  <2>3. CASE h = x
    <3>1. PICK s \in {"confirmed", "failed"} : chain' = [chain EXCEPT ![x].status = s]
      BY <1>5, <2>3 DEF Settle
    <3>2. chain'[x] = [chain[x] EXCEPT !.status = s] BY <3>1 DEF TypeOK, VarTypes
    <3>3. chain[x] # None /\ chain[x].status = "pending" /\ chain[x] \in Tx
      BY <1>5, <2>3 DEF Settle, TypeOK, VarTypes
    <3>4. chain'[x].fp = chain[x].fp /\ chain'[x].at = chain[x].at /\ chain'[x] \in Tx
      BY <3>2, <3>3 DEF Tx
    <3>5. chain'[x] # None BY <3>4, NoneAssumption
    <3> QED BY <1>h, <2>1, <3>3, <3>4, <3>5
  <2> QED BY <2>2, <2>3
<1> QED BY <1>1, <1>2, <1>3, <1>4, <1>5, Kinds

(* Of a process that does nothing in the step. *)
LEMMA SentKept ==
    ASSUME TypeOK, SentInv, HashInv, [Next]_vars, NEW q \in Proc,
           pc'[q] = pc[q], leg'[q] = leg[q], job'[q] = job[q], out'[q] = out[q]
    PROVE  Sent(q)'
<1>1. Sent(q) BY DEF SentInv
<1>2. pc[q] \in {"record", "recordFailed", "receipt"} => out[q] \in Hash /\ out[q] # None
  BY NoneAssumption DEF TypeOK, ProcTypes
<1>3. CASE out[q] = None BY <1>1, <1>2, <1>3 DEF Sent
<1>4. CASE out[q] # None
  <2>1. out[q] \in Hash BY <1>4 DEF TypeOK, VarTypes
  <2>2. chain[out[q]] # None BY <2>1 DEF HashInv
  <2>3. Becomes(out[q]) BY <2>1, <2>2, ChainKeeps
  <2> DEFINE x == out[q]
  <2>4. /\ chain'[x].fp = chain[x].fp /\ (~ chain'[x].forced => ~ chain[x].forced)
        /\ pc[q] \in {"record", "recordFailed"} =>
              /\ chain'[x].forced = chain[x].forced
              /\ chain[x].status = "failed" => chain'[x] = chain[x]
    BY <2>3 DEF Becomes
  <2> QED BY <1>1, <1>4, <2>4 DEF Sent, Cur, Forced, HasApprove
<1> QED BY <1>3, <1>4

(* Of the process that takes the step. *)
LEMMA SentOwn ==
    ASSUME TypeOK, SentInv, HashInv, [Next]_vars, NEW p \in Proc, Step(p)
    PROVE  Sent(p)'
<1> USE DEF TypeOK, VarTypes
<1>1. Sent(p) BY DEF SentInv
<1>n. out[p] # None => out[p] \in Hash /\ chain[out[p]] # None BY DEF HashInv
<1>2. CASE Start(p) \/ CheckRefuses(p) \/ ReleaseNothing(p) \/ Crash(p)
  <2>1. out'[p] = None /\ pc'[p] \in {"idle", "check"}
    BY <1>1, <1>2 DEF Start, CheckRefuses, ReleaseNothing, Crash, End, Sent
  <2> QED BY <2>1 DEF Sent
<1>3. CASE \/ CheckPasses(p) \/ ReserveNothing(p) \/ ReserveCreate(p) \/ ReserveExists(p)
           \/ ReserveRefuse(p) \/ ReserveFindsStale(p) \/ ReserveSteal(p)
  <2>1. out[p] = None /\ out' = out
    BY <1>1, <1>3 DEF CheckPasses, ReserveNothing, ReserveCreate, ReserveExists, ReserveRefuse,
                      ReserveFindsStale, ReserveSteal, Sent
  <2>2. pc'[p] \in {"check", "create", "stat", "unlink", "send", "release"}
    BY <1>3 DEF CheckPasses, ReserveNothing, ReserveCreate, ReserveExists, ReserveRefuse,
                ReserveFindsStale, ReserveSteal, NextLegOr
  <2> QED BY <2>1, <2>2 DEF Sent
<1>4. CASE Send(p) \/ SendDeliverTxFails(p)
  <2>1. PICK h \in Hash, s \in {"pending", "failed"} :
            Lands(p, h, s) /\ out' = [out EXCEPT ![p] = h]
    BY <1>4 DEF Send, SendDeliverTxFails
  <2>2. chain'[h] = [fp |-> Cur(p), status |-> s, at |-> clock, forced |-> Forced(p)]
    BY <2>1 DEF Lands
  <2>3. out'[p] = h /\ pc'[p] = "record" /\ leg' = leg /\ job' = job
    BY <1>4, <2>1 DEF Send, SendDeliverTxFails
  <2>4. Cur(p) \in {job[p].primary, job[p].approve} BY DEF Cur
  <2>5. Cur(p)' = Cur(p) /\ Forced(p)' = Forced(p) BY <2>3 DEF Cur, Forced
  <2>6. /\ chain'[out'[p]].fp = Cur(p) /\ chain'[out'[p]].forced = Forced(p) BY <2>2, <2>3
  <2>8. job[p].force \in BOOLEAN BY <1>4, BusyJob DEF Send, SendDeliverTxFails, Job
  <2>7. ~ chain'[out'[p]].forced => ~ Forced(p)' BY <2>5, <2>6, <2>8 DEF Forced
  <2> QED BY <2>3, <2>4, <2>5, <2>6, <2>7 DEF Sent
<1>5. CASE \/ SendThrows(p) \/ SendLandsThenThrows(p) \/ RecordFailed(p) \/ RecordLost(p)
           \/ ReceiptFails(p) \/ ReceiptArrives(p) \/ Record(p)
  <2>1. UNCHANGED <<out, job>>
    BY <1>5 DEF SendThrows, SendLandsThenThrows, RecordFailed, RecordLost, ReceiptFails,
                ReceiptArrives, Record
  <2>2. ASSUME out[p] # None
        PROVE  /\ chain'[out[p]].fp = chain[out[p]].fp
               /\ ~ chain'[out[p]].forced => ~ Forced(p)
    <3>1. Becomes(out[p]) BY <1>n, <2>2, ChainKeeps
    <3> QED BY <1>1, <2>2, <3>1 DEF Becomes, Sent
  <2>3. CASE pc'[p] = "release"
    BY <1>1, <2>1, <2>2, <2>3 DEF Sent, Forced
  <2>4. CASE Record(p) \/ RecordLost(p)
    <3>1. UNCHANGED <<chain, leg>> BY <2>4 DEF Record, RecordLost
    <3>2. pc'[p] = "release" \/ (pc[p] = "record" /\ pc'[p] = AfterRecord(p))
      BY <2>4 DEF Record, RecordLost
    <3>3. CASE pc[p] = "record" /\ pc'[p] = AfterRecord(p)
      <4>1. /\ chain[out[p]].fp = Cur(p) /\ chain[out[p]].forced = Forced(p)
            /\ out[p] # None => chain[out[p]].fp \in {job[p].primary, job[p].approve}
                                /\ (~ chain[out[p]].forced => ~ Forced(p))
        BY <1>1, <3>3 DEF Sent
      <4>2. out[p] # None BY <3>3, NoneAssumption DEF ProcTypes
      <4>3. CASE leg[p] = "approve"
        BY <2>1, <3>1, <3>3, <4>1, <4>2, <4>3 DEF AfterRecord, Sent, Cur, Forced
      <4>4. CASE leg[p] # "approve"
        BY <2>1, <3>1, <3>3, <4>1, <4>2, <4>4 DEF AfterRecord, Sent, Cur, Forced
      <4> QED BY <4>3, <4>4
    <3> QED BY <2>3, <3>2, <3>3
  <2>5. CASE ReceiptArrives(p)
    <3>1. pc[p] = "receipt" /\ pc'[p] = "send" /\ leg'[p] = "primary" /\ UNCHANGED chain
      BY <2>5 DEF ReceiptArrives
    <3>2. leg[p] = "approve" /\ chain[out[p]].fp = job[p].approve /\ HasApprove(p)
      BY <1>1, <3>1 DEF Sent, ProcTypes
    <3> QED BY <1>1, <2>1, <2>2, <3>1, <3>2 DEF Sent, HasApprove, Forced
  <2>6. CASE SendThrows(p) \/ SendLandsThenThrows(p) \/ RecordFailed(p) \/ ReceiptFails(p)
    BY <2>3, <2>6 DEF SendThrows, SendLandsThenThrows, RecordFailed, ReceiptFails
  <2> QED BY <1>5, <2>4, <2>5, <2>6
<1>6. CASE Release(p)
  <2>1. CASE End(p)
    <3>1. out'[p] = None /\ pc'[p] = "idle" BY <2>1 DEF End
    <3> QED BY <3>1 DEF Sent
  <2>2. CASE UNCHANGED <<pc, leg, try, job, out, known, gap>>
    BY <1>1, <1>6, <2>2 DEF Release, Sent, Cur, Forced, HasApprove
  <2> QED BY <1>6, <2>1, <2>2 DEF Release
<1> QED BY <1>2, <1>3, <1>4, <1>5, <1>6 DEF Step

LEMMA SentStep == TypeOK /\ SentInv /\ HashInv /\ [Next]_vars => SentInv'
<1> SUFFICES ASSUME TypeOK, SentInv, HashInv, [Next]_vars, NEW q \in Proc PROVE Sent(q)'
    BY DEF SentInv
<1>1. ASSUME NEW p \in Proc, Step(p) PROVE Sent(q)'
  <2>1. CASE q = p BY <1>1, <2>1, SentOwn
  <2>2. CASE q # p BY <1>1, <2>2, OthersAlone, SentKept
  <2> QED BY <2>1, <2>2
<1>2. ASSUME NEW h \in Hash, Settle(h) \/ Poll(h) PROVE Sent(q)'
  BY <1>2, SentKept DEF Settle, Poll, procVars
<1>3. CASE Tick \/ UNCHANGED vars BY <1>3, SentKept DEF Tick, procVars, vars
<1> QED BY <1>1, <1>2, <1>3 DEF Next

CInv == TypeOK /\ HInv /\ HashInv /\ SentInv

LEMMA CInvariant == (Init => CInv) /\ (CInv /\ [Next]_vars => CInv')
BY TypeInit, TypeStep, HInvInit, HInvStep, HashInit, HashStep, SentStep DEF CInv

-----------------------------------------------------------------------------
(* Exclusion of reservations, and what a dead process leaves behind, when  *)
(* none outlives StaleAfter while it holds one.                            *)

(* The file of a reservation is there, young, and its owner's.             *)
HeldIsLocked ==
    \A p \in Proc : \A f \in held[p] :
        lock[f] # None /\ lock[f].by = p /\ clock <= lock[f].at + StaleAfter
(* Who is about to remove a file removes a stale one. *)
StealsStale == \A p \in Proc : pc[p] = "unlink" => IsStaleReservation(Cur(p))
(* Within its lifetime, the file of a dead sender is where it left it, and *)
(* nobody has the intent reserved.                                         *)
LeftIsLocked ==
    \A h \in Hash : ~ Lapsed(h) =>
        /\ chain[h] # None /\ lock[chain[h].fp] = left[h]
        /\ \A p \in Proc : chain[h].fp \notin held[p]
(* A reservation file has an owner that will release it. *)
LockedIsHeld ==
    \A f \in Fp : lock[f] # None => lock[f].by \in Proc /\ f \in held[lock[f].by]
OneAtATime == \A p, q \in Proc : pc[p] # "idle" /\ pc[q] # "idle" => p = q

(* No owner dies, or there is never a second process to steal. *)
Undisturbed == IF "crash" \in setting.faults THEN OneAtATime ELSE LockedIsHeld

LockInv == HeldIsLocked /\ StealsStale /\ LeftIsLocked /\ Undisturbed

(* Settings in which no process outlives StaleAfter while it holds a       *)
(* reservation, and processes that may die run one after the other.        *)
Calm(s) == "late" \notin s.faults /\ ("crash" \in s.faults => s.running <= 1)

LEMMA LockInvInit == Init => LockInv
<1> SUFFICES ASSUME Init PROVE LockInv
  OBVIOUS
<1> QED BY DEF Init, LockInv, HeldIsLocked, StealsStale, LeftIsLocked, Lapsed, Undisturbed,
               OneAtATime, LockedIsHeld

(* Every step of a process but the first is one of a busy process. *)
LEMMA BusySteps ==
    ASSUME NEW p \in Proc, Step(p), ~ Start(p)
    PROVE  pc[p] # "idle"
BY DEF Step, CheckPasses, CheckRefuses, ReserveNothing, ReserveCreate, ReserveExists,
       ReserveRefuse, ReserveFindsStale, ReserveSteal, Send, SendThrows, SendLandsThenThrows,
       SendDeliverTxFails, Record, RecordFailed, RecordLost, ReceiptArrives, ReceiptFails,
       Release, ReleaseNothing, Crash

(* When one process acts, no other one is about to remove a file. *)
LEMMA NoOtherThief ==
    ASSUME TypeOK, LockInv, NEW p \in Proc, pc[p] # "idle", NEW q \in Proc, q # p
    PROVE  pc[q] # "unlink"
<1> SUFFICES ASSUME pc[q] = "unlink" PROVE FALSE
  OBVIOUS
<1> USE DEF LockInv, TypeOK, VarTypes
<1>1. CASE "crash" \in setting.faults BY <1>1 DEF Undisturbed, OneAtATime
<1>2. CASE "crash" \notin setting.faults
  <2>1. Cur(q) \in Fp BY BusyJob
  <2>2. lock[Cur(q)] # None /\ clock - lock[Cur(q)].at > StaleAfter
    BY DEF StealsStale, IsStaleReservation
  <2>3. lock[Cur(q)].at \in Nat BY <2>1, <2>2 DEF Lock
  <2>4. clock <= lock[Cur(q)].at + StaleAfter
    BY <1>2, <2>1, <2>2 DEF Undisturbed, LockedIsHeld, HeldIsLocked
  <2> QED BY <2>2, <2>3, <2>4, TimesAssumption
<1> QED BY <1>1, <1>2

(* ... and none at all when nobody dies: no file is ever stale.            *)
LEMMA NothingStale ==
    ASSUME TypeOK, LockInv, "crash" \notin setting.faults, NEW f \in Fp
    PROVE  ~ IsStaleReservation(f)
<1> SUFFICES ASSUME lock[f] # None, clock - lock[f].at > StaleAfter PROVE FALSE
  BY DEF IsStaleReservation
<1>1. lock[f].at \in Nat /\ clock \in Nat BY DEF TypeOK, VarTypes, Lock
<1>2. clock <= lock[f].at + StaleAfter
  BY DEF LockInv, Undisturbed, LockedIsHeld, HeldIsLocked
<1> QED BY <1>1, <1>2, TimesAssumption

LEMMA OneAtATimeStep ==
    ASSUME TypeOK, OneAtATime, setting.running \in Nat, setting.running <= 1,
           NEW p \in Proc, Step(p)
    PROVE  OneAtATime'
<1>1. \A q \in Proc : q # p => pc'[q] = pc[q] BY OthersAlone
<1>2. CASE Start(p)
  <2> DEFINE Busy == {q \in Proc : pc[q] # "idle"}
  <2>1. Cardinality(Busy) < setting.running BY <1>2 DEF Start
  <2>2. ASSUME NEW q \in Proc, pc[q] # "idle" PROVE FALSE
    <3>1. Busy = {q} BY <2>2 DEF OneAtATime
    <3>2. Cardinality({q}) = 1 BY FS_Singleton
    <3> QED BY <2>1, <3>1, <3>2
  <2> QED BY <1>1, <2>2 DEF OneAtATime
<1>3. CASE ~ Start(p)
  <2>1. pc[p] # "idle" BY <1>3, BusySteps
  <2> QED BY <1>1, <2>1 DEF OneAtATime
<1> QED BY <1>2, <1>3

(* The file of a dead sender stays, unless a step removes it or time runs  *)
(* out on it.                                                              *)
LEMMA LeftKept ==
    ASSUME CInv, LockInv, [Next]_vars, UNCHANGED left, clock' >= clock,
           \A f \in Fp : ~ IsStaleReservation(f) /\ lock[f] # None
                             /\ (\A p \in Proc : f \notin held[p]) =>
               lock'[f] = lock[f] /\ \A p \in Proc : f \notin held'[p]
    PROVE  LeftIsLocked'
<1> USE DEF CInv, TypeOK, VarTypes
<1> SUFFICES ASSUME NEW h \in Hash, ~ Lapsed(h)'
             PROVE  /\ chain'[h] # None /\ lock'[chain'[h].fp] = left'[h]
                    /\ \A p \in Proc : chain'[h].fp \notin held'[p]
  BY DEF LeftIsLocked
<1>1. left[h] # None /\ left[h].at \in Nat /\ ~ (clock' - left[h].at > StaleAfter)
  BY DEF Lapsed, Lock
<1>2. clock' \in Nat BY TypeStep
<1>3. ~ (clock - left[h].at > StaleAfter) BY <1>1, <1>2, TimesAssumption
<1>4. /\ chain[h] # None /\ lock[chain[h].fp] = left[h]
      /\ \A p \in Proc : chain[h].fp \notin held[p]
  BY <1>1, <1>3 DEF LockInv, LeftIsLocked, Lapsed
<1>5. chain'[h] # None /\ chain'[h].fp = chain[h].fp BY <1>4, ChainKeeps DEF Becomes
<1>6. chain[h].fp \in Fp BY <1>4 DEF Tx
<1>7. ~ IsStaleReservation(chain[h].fp) BY <1>3, <1>4 DEF IsStaleReservation
<1> QED BY <1>1, <1>4, <1>5, <1>6, <1>7

(* A step that leaves the reservations alone, in which time does not pass. *)
LEMMA LockInvFrame ==
    ASSUME CInv, LockInv, [Next]_vars, UNCHANGED <<setting, lock, held, clock, left>>,
           StealsStale', OneAtATime => OneAtATime'
    PROVE  LockInv'
<1>1. LeftIsLocked' BY LeftKept DEF CInv, TypeOK, VarTypes
<1> QED BY <1>1 DEF LockInv, HeldIsLocked, LockedIsHeld, Undisturbed

LEMMA LockInvStep ==
    ASSUME \A s \in Settings : Calm(s)
    PROVE  CInv /\ LockInv /\ [Next]_vars => LockInv'
<1> SUFFICES ASSUME CInv, LockInv, [Next]_vars PROVE LockInv'
  OBVIOUS
<1>0. TypeOK /\ TypeOK' /\ VarTypes /\ HeldIsLocked /\ StealsStale /\ Undisturbed
  BY TypeStep DEF LockInv, CInv, TypeOK
<1>a. "late" \notin setting.faults /\ setting.running \in Nat
  BY <1>0, JobsTyped DEF VarTypes, Calm
<1>b. "crash" \in setting.faults => setting.running <= 1
  BY <1>0 DEF VarTypes, Calm
<1>1. ASSUME NEW p \in Proc, Step(p) PROVE LockInv'
  <2> USE <1>0
  <2>0. pc[p] # "idle" => Cur(p) \in Fp
    BY BusyJob
  <2>s. setting' = setting
    BY <1>1 DEF Step, Start, CheckPasses, CheckRefuses, ReserveNothing, ReserveCreate,
                ReserveExists, ReserveRefuse, ReserveFindsStale, ReserveSteal, Send, SendThrows,
                SendLandsThenThrows, SendDeliverTxFails, Record, RecordFailed, RecordLost,
                ReceiptArrives, ReceiptFails, Release, ReleaseNothing, Crash
  <2>o. /\ OneAtATime /\ "crash" \in setting.faults => OneAtATime'
        /\ "crash" \in setting.faults => OneAtATime'
    BY <1>1, <1>a, <1>b, OneAtATimeStep DEF Undisturbed
  (* Nobody else is about to steal, unless the step is one of the command line. *)
  <2>t. ASSUME NEW q \in Proc, q # p, pc'[q] = "unlink"
        PROVE  Start(p) /\ pc[q] = "unlink" /\ Cur(q)' = Cur(q)
    <3>1. pc[q] = "unlink" /\ Cur(q)' = Cur(q) BY <1>1, <2>t, OthersAlone DEF Cur
    <3>2. CASE Start(p) BY <3>1, <3>2
    <3>3. CASE ~ Start(p) BY <1>1, <2>t, <3>1, <3>3, BusySteps, NoOtherThief
    <3> QED BY <3>2, <3>3
  (* A step that leaves the reservations alone. *)
  <2>f. ASSUME UNCHANGED <<lock, held, clock, left>>,
               pc'[p] = "unlink" => IsStaleReservation(Cur(p)) /\ Cur(p)' = Cur(p)
        PROVE  LockInv'
    <3>1. StealsStale'
      <4> SUFFICES ASSUME NEW q \in Proc, pc'[q] = "unlink" PROVE IsStaleReservation(Cur(q))'
        BY DEF StealsStale
      <4>1. IsStaleReservation(Cur(q)) /\ Cur(q)' = Cur(q)
        BY <2>f, <2>t DEF StealsStale
      <4> QED BY <2>f, <4>1 DEF IsStaleReservation
    <3>2. LeftIsLocked' BY <2>f, LeftKept DEF CInv, TypeOK, VarTypes
    <3> QED BY <2>f, <2>s, <2>o, <3>1, <3>2 DEF LockInv, HeldIsLocked, LockedIsHeld, Undisturbed
  <2>1. CASE Start(p) \/ CheckPasses(p) \/ CheckRefuses(p)
    <3>1. pc'[p] # "unlink"
      BY <2>1 DEF Start, CheckPasses, CheckRefuses, NextLegOr, End, VarTypes
    <3> QED BY <2>1, <2>f, <3>1 DEF Start, CheckPasses, CheckRefuses, ghostVars
  <2>2. CASE ReserveNothing(p) \/ ReserveExists(p) \/ ReserveRefuse(p)
    <3>1. pc'[p] # "unlink"
      BY <2>2 DEF ReserveNothing, ReserveExists, ReserveRefuse, NextLegOr, VarTypes
    <3> QED BY <2>2, <2>f, <3>1 DEF ReserveNothing, ReserveExists, ReserveRefuse, ghostVars
  <2>3. CASE ReserveCreate(p)
    <3> DEFINE f == Cur(p)
    <3>1. /\ f \in Fp /\ lock[f] = None
          /\ lock' = [lock EXCEPT ![f] = [by |-> p, at |-> clock]]
          /\ held' = [held EXCEPT ![p] = held[p] \cup {f}]
          /\ clock' = clock /\ left' = left
      BY <2>0, <2>3 DEF ReserveCreate, ghostVars
    <3> HIDE DEF f
    <3>2. pc'[p] # "unlink" /\ ~ Start(p)
      BY <2>3 DEF ReserveCreate, NextLegOr, VarTypes, Start
    <3>3. [by |-> p, at |-> clock] # None
      BY NoneAssumption DEF Lock, VarTypes
    <3>4. HeldIsLocked'
      <4> SUFFICES ASSUME NEW q \in Proc, NEW g \in held'[q]
                   PROVE  lock'[g] # None /\ lock'[g].by = q /\ clock <= lock'[g].at + StaleAfter
        BY <3>1 DEF HeldIsLocked
      <4>1. CASE g = f /\ q = p
        BY <3>1, <3>3, <4>1, TimesAssumption DEF VarTypes
      <4>2. CASE g # f \/ q # p
        <5>1. g \in held[q]
          BY <3>1, <4>2 DEF VarTypes
        <5>2. g # f
          BY <3>1, <5>1 DEF HeldIsLocked
        <5> QED BY <3>1, <5>1, <5>2 DEF HeldIsLocked, VarTypes
      <4> QED BY <4>1, <4>2
    <3>5. StealsStale' BY <2>t, <3>2 DEF StealsStale
    <3>6. LeftIsLocked' BY <3>1, LeftKept DEF VarTypes
    <3>7. ASSUME LockedIsHeld PROVE LockedIsHeld'
      <4> SUFFICES ASSUME NEW g \in Fp, lock'[g] # None
                   PROVE  lock'[g].by \in Proc /\ g \in held'[lock'[g].by]
        BY DEF LockedIsHeld
      <4>1. CASE g = f BY <3>1, <4>1 DEF VarTypes
      <4>2. CASE g # f BY <3>1, <3>7, <4>2 DEF LockedIsHeld, VarTypes
      <4> QED BY <4>1, <4>2
    <3> QED BY <2>s, <2>o, <3>4, <3>5, <3>6, <3>7 DEF LockInv, Undisturbed
  <2>4. CASE ReserveFindsStale(p)
    <3>1. IsStaleReservation(Cur(p)) /\ Cur(p)' = Cur(p)
      BY <2>4 DEF ReserveFindsStale, Cur
    <3> QED BY <2>4, <2>f, <3>1 DEF ReserveFindsStale, ghostVars
  <2>5. CASE ReserveSteal(p)
    <3> DEFINE f == Cur(p)
    <3>1. /\ f \in Fp /\ IsStaleReservation(f)
          /\ lock' = [lock EXCEPT ![f] = None] /\ UNCHANGED <<held, clock, left>>
          /\ pc'[p] # "unlink" /\ ~ Start(p)
      BY <2>0, <2>5 DEF ReserveSteal, StealsStale, ghostVars, VarTypes, Start
    <3> HIDE DEF f
    <3>2. \A q \in Proc : f \notin held[q]
      <4>1. lock[f] # None /\ lock[f].at \in Nat /\ clock - lock[f].at > StaleAfter
        BY <3>1 DEF IsStaleReservation, VarTypes, Lock
      <4> QED BY <4>1, TimesAssumption DEF HeldIsLocked, VarTypes
    <3>3. HeldIsLocked' BY <3>1, <3>2 DEF HeldIsLocked, VarTypes
    <3>4. StealsStale' BY <2>t, <3>1 DEF StealsStale
    <3>5. LeftIsLocked' BY <3>1, LeftKept DEF VarTypes
    <3>6. "crash" \in setting.faults
      BY <3>1, NothingStale
    <3> QED BY <2>s, <2>o, <3>3, <3>4, <3>5, <3>6 DEF LockInv, Undisturbed
  <2>6. CASE Send(p) \/ SendThrows(p) \/ SendLandsThenThrows(p) \/ SendDeliverTxFails(p)
    <3>1. pc'[p] # "unlink"
      BY <2>6 DEF Send, SendThrows, SendLandsThenThrows, SendDeliverTxFails, VarTypes
    <3> QED BY <2>6, <2>f, <3>1
            DEF Send, SendThrows, SendLandsThenThrows, SendDeliverTxFails, ghostVars
  <2>7. CASE Record(p) \/ RecordFailed(p) \/ RecordLost(p) \/ ReceiptArrives(p) \/ ReceiptFails(p)
    <3>1. pc'[p] # "unlink"
      BY <2>7 DEF Record, AfterRecord, RecordFailed, RecordLost, ReceiptArrives, ReceiptFails, VarTypes
    <3> QED BY <2>7, <2>f, <3>1
            DEF Record, RecordFailed, RecordLost, ReceiptArrives, ReceiptFails, ghostVars
  <2>8. CASE Release(p)
    <3>1. PICK f \in Fp : Unlink(p, f)
      BY <2>8 DEF Release
    <3>2. /\ f \in held[p] /\ lock' = [lock EXCEPT ![f] = None]
          /\ held' = [held EXCEPT ![p] = held[p] \ {f}] /\ clock' = clock /\ left' = left
      BY <2>8, <3>1 DEF Release, Unlink
    <3>3. pc'[p] # "unlink" /\ ~ Start(p)
      BY <2>8 DEF Release, End, VarTypes, Start
    <3>4. HeldIsLocked'
      <4> SUFFICES ASSUME NEW q \in Proc, NEW g \in held'[q]
                   PROVE  lock'[g] # None /\ lock'[g].by = q /\ clock <= lock'[g].at + StaleAfter
        BY <3>2 DEF HeldIsLocked
      <4>1. g \in held[q] /\ g # f
        BY <3>2 DEF HeldIsLocked, VarTypes
      <4> QED BY <3>2, <4>1 DEF HeldIsLocked, VarTypes
    <3>5. StealsStale' BY <2>t, <3>3 DEF StealsStale
    <3>6. LeftIsLocked' BY <3>2, LeftKept DEF VarTypes
    <3>7. ASSUME LockedIsHeld PROVE LockedIsHeld'
      <4> SUFFICES ASSUME NEW g \in Fp, lock'[g] # None
                   PROVE  lock'[g].by \in Proc /\ g \in held'[lock'[g].by]
        BY DEF LockedIsHeld
      <4> QED BY <3>2, <3>7 DEF LockedIsHeld, VarTypes
    <3> QED BY <2>s, <2>o, <3>4, <3>5, <3>6, <3>7 DEF LockInv, Undisturbed
  <2>9. CASE ReleaseNothing(p)
    <3>1. pc'[p] # "unlink" BY <2>9 DEF ReleaseNothing, End, VarTypes
    <3> QED BY <2>9, <2>f, <3>1 DEF ReleaseNothing
  <2>10. CASE Crash(p)
    <3>1. /\ UNCHANGED <<lock, clock, chain>> /\ held' = [held EXCEPT ![p] = {}]
          /\ pc'[p] = "idle" /\ pc[p] # "idle" /\ "crash" \in setting.faults
      BY <2>10 DEF Crash, End, VarTypes
    <3>2. \A q \in Proc : held'[q] \subseteq held[q] BY <3>1 DEF VarTypes
    <3>3. HeldIsLocked' BY <3>1, <3>2 DEF HeldIsLocked
    <3>4. StealsStale' BY <2>t, <3>1 DEF StealsStale, Start
    <3>5. ASSUME NEW h \in Hash, ~ Lapsed(h)'
          PROVE  /\ chain[h] # None /\ lock[chain[h].fp] = left'[h]
                 /\ \A q \in Proc : chain[h].fp \notin held'[q]
      <4>1. CASE out[p] = h /\ chain[h].fp \in held[p]
        <5>1. left'[h] = lock[chain[h].fp] BY <2>10, <4>1 DEF Crash
        <5>2. chain[h] # None BY <4>1 DEF CInv, HashInv
        <5>3. \A q \in Proc : chain[h].fp \in held[q] => q = p BY <4>1 DEF HeldIsLocked
        <5> QED BY <3>1, <3>2, <5>1, <5>2, <5>3 DEF VarTypes
      <4>2. CASE ~ (out[p] = h /\ chain[h].fp \in held[p])
        <5>1. left'[h] = left[h] BY <2>10, <4>2 DEF Crash
        <5>2. ~ Lapsed(h) BY <3>1, <3>5, <5>1 DEF Lapsed
        <5> QED BY <3>2, <5>1, <5>2 DEF LockInv, LeftIsLocked
      <4> QED BY <4>1, <4>2
    <3>6. LeftIsLocked' BY <3>1, <3>5 DEF LeftIsLocked
    <3> QED BY <2>s, <2>o, <3>1, <3>3, <3>4, <3>6 DEF LockInv, Undisturbed
  <2> QED BY <1>1, <2>1, <2>2, <2>3, <2>4, <2>5, <2>6, <2>7, <2>8, <2>9, <2>10 DEF Step
<1>2. ASSUME NEW h \in Hash, Settle(h) \/ Poll(h) PROVE LockInv'
  <2>1. UNCHANGED <<setting, lock, held, clock, left, pc, leg, job>>
    BY <1>2 DEF Settle, Poll, procVars, ghostVars
  <2> QED BY <1>0, <2>1, LockInvFrame DEF StealsStale, IsStaleReservation, Cur, OneAtATime
<1>3. CASE Tick
  <2>1. /\ \A p \in Proc : \A f \in held[p] : lock[f] # None /\ lock[f].by = p => clock < lock[f].at + StaleAfter
        /\ clock' = clock + 1 /\ UNCHANGED <<setting, lock, held, left, pc, leg, job>>
    BY <1>3, <1>a DEF Tick, procVars, ghostVars
  <2>2. \A p \in Proc : \A f \in held[p] : lock[f].at \in Nat
    BY <1>0 DEF HeldIsLocked, VarTypes, Lock
  <2>3. HeldIsLocked'
    BY <1>0, <2>1, <2>2, TimesAssumption DEF HeldIsLocked, VarTypes
  <2>4. StealsStale'
    <3> SUFFICES ASSUME NEW q \in Proc, pc'[q] = "unlink" PROVE IsStaleReservation(Cur(q))'
      BY DEF StealsStale
    <3>1. IsStaleReservation(Cur(q)) /\ Cur(q)' = Cur(q) /\ Cur(q) \in Fp
      BY <1>0, <2>1, BusyJob DEF StealsStale, Cur
    <3>2. lock[Cur(q)] # None /\ lock[Cur(q)].at \in Nat /\ clock - lock[Cur(q)].at > StaleAfter
      BY <1>0, <3>1 DEF IsStaleReservation, VarTypes, Lock
    <3> QED BY <1>0, <2>1, <3>1, <3>2, TimesAssumption DEF IsStaleReservation, VarTypes
  <2>5. LeftIsLocked' BY <1>0, <2>1, LeftKept DEF VarTypes
  <2> QED BY <1>0, <2>1, <2>3, <2>4, <2>5 DEF LockInv, Undisturbed, OneAtATime, LockedIsHeld
<1>4. CASE UNCHANGED vars
  BY <1>0, <1>4, LockInvFrame DEF vars, StealsStale, IsStaleReservation, Cur, OneAtATime
<1> QED BY <1>1, <1>2, <1>3, <1>4 DEF Next

LEMMA LockInvariant ==
    ASSUME \A s \in Settings : Calm(s)
    PROVE  Spec => [](CInv /\ LockInv)
<1>1. Init => CInv /\ LockInv BY CInvariant, LockInvInit
<1>2. CInv /\ LockInv /\ [Next]_vars => (CInv /\ LockInv)' BY CInvariant, LockInvStep
<1> QED BY <1>1, <1>2, PTL DEF Spec

(* If none keeps a reservation for longer than RESERVATION_STALE_MS, and   *)
(* processes that may die run one after the other, two processes never     *)
(* hold the reservation of one intent, however many there are.             *)
THEOREM ReservationsExclude ==
    ASSUME \A s \in Settings : Calm(s)
    PROVE  Spec => []ReservationExclusive
<1>1. LockInv => ReservationExclusive
  BY DEF LockInv, HeldIsLocked, ReservationExclusive
<1> QED BY <1>1, LockInvariant, PTL

-----------------------------------------------------------------------------
(* A recorded copy blocks.                                                 *)

(* A live copy that is on record blocks its intent, in the journal as it   *)
(* is after any number of compactions.                                     *)
LEMMA RecordedBlocks ==
    ASSUME CInv, NEW h \in Hash, chain[h] # None, chain[h].status # "failed",
           chain[h].at >= clock - Window, Journaled(h)
    PROVE  \E r \in FindRecentDuplicate(journal, chain[h].fp, clock) : r.hash = h
<1> USE DEF CInv
<1>t. chain[h] \in Tx /\ clock \in Nat /\ chain[h].at \in Nat /\ chain[h].fp \in Fp
  BY DEF TypeOK, VarTypes, Tx
<1>1. PICK r \in hist : r.t = "broadcast" /\ r.hash = h /\ r.ts >= chain[h].at
  BY DEF Journaled
<1>2. r.fp = chain[h].fp BY <1>1 DEF HashInv
<1>3. r.ts \in Int BY DEF HInv, HistOK
<1>4. ~ DefinitivelyFailed(hist, r)
  <2> SUFFICES ASSUME NEW q \in hist, q.t = "resolved", q.hash = h, q.status = "failed",
                      q.ts >= r.ts
               PROVE  FALSE
    BY <1>1 DEF DefinitivelyFailed
  <2>1. q.ts < chain[h].at BY DEF HashInv
  <2>2. q.ts \in Int BY DEF HInv, HistOK
  <2> QED BY <1>t, <1>1, <1>3, <2>1, <2>2
<1>5. r.ts >= clock - Window BY <1>t, <1>1, <1>3, TimesAssumption
<1>6. r \in FindRecentDuplicate(hist, chain[h].fp, clock)
  BY <1>1, <1>2, <1>4, <1>5 DEF FindRecentDuplicate, Blocks
<1>7. PruneInvisible BY HInvImpliesPruneInvisible
<1>8. r \in FindRecentDuplicate(journal, chain[h].fp, clock) BY <1>t, <1>6, <1>7 DEF PruneInvisible
<1> QED BY <1>1, <1>8

(* What is on record as live makes the check refuse. *)
LEMMA OnRecordBlocks ==
    ASSUME HInv, NEW f \in Fp, FindRecentDuplicate(journal, f, clock) = {}
    PROVE  OnRecord(f) = {}
<1> SUFFICES ASSUME NEW r \in hist, r.t = "broadcast", r.fp = f, r.ts >= clock - Window,
                    ~ \E q \in hist : /\ q.t = "resolved" /\ q.hash = r.hash
                                      /\ q.status = "failed" /\ q.ts >= r.ts
             PROVE  FALSE
    BY DEF OnRecord
<1>1. r \in FindRecentDuplicate(hist, f, clock)
  BY DEF FindRecentDuplicate, Blocks, DefinitivelyFailed
<1>2. FindRecentDuplicate(hist, f, clock) = {} BY HInvImpliesPruneInvisible DEF PruneInvisible
<1> QED BY <1>1, <1>2

(* Guarded. From the moment it lands until its window is over, a           *)
(* transaction has a reservation file or a journal record that blocks its  *)
(* intent, whatever is compacted and whoever polls, also when its sender   *)
(* dies before it records it: the file it leaves stays for                 *)
(* RESERVATION_STALE_MS.  The exceptions are the named ones of Guarded.    *)
(* Assumed is that none outlives that time while it holds a reservation,   *)
(* and that processes that may die run one after the other: of two that    *)
(* steal one stale file, the second may remove the new file of the first.  *)
THEOREM AlwaysGuarded ==
    ASSUME \A s \in Settings : Calm(s)
    PROVE  Spec => []Guarded
<1>1. ASSUME CInv, LockInv PROVE Guarded
  <2> SUFFICES ASSUME NEW h \in Hash, chain[h] # None, chain[h].status # "failed",
                      chain[h].at >= clock - Window, ~ Unreserved(h), ~ Unrecorded(h)
               PROVE  \/ \E r \in FindRecentDuplicate(journal, chain[h].fp, clock) : r.hash = h
                      \/ ~ chain[h].forced /\ lock[chain[h].fp] # None
    BY DEF Guarded
  <2>1. CASE Journaled(h) BY <1>1, <2>1, RecordedBlocks
  <2>2. CASE ~ Journaled(h)
    <3>1. ~ chain[h].forced BY <2>2 DEF Unreserved
    <3>2. CASE Lapsed(h)
      <4>1. PICK p \in Proc : out[p] = h BY <2>2, <3>2 DEF Unrecorded
      <4>2. chain[h].fp \in held[p] BY <2>2, <4>1 DEF Unreserved
      <4> QED BY <1>1, <3>1, <4>2 DEF LockInv, HeldIsLocked
    <3>3. CASE ~ Lapsed(h)
      <4>1. lock[chain[h].fp] = left[h] /\ left[h] # None
        BY <1>1, <3>3 DEF LockInv, LeftIsLocked, Lapsed
      <4> QED BY <3>1, <4>1
    <3> QED BY <3>2, <3>3
  <2> QED BY <2>1, <2>2
<1> QED BY <1>1, LockInvariant, PTL

-----------------------------------------------------------------------------
(* What may be sent.                                                       *)

LEMMA NothingKnownStep == TypeOK /\ HInv /\ NothingKnown /\ [Next]_vars => NothingKnown'
<1> SUFFICES ASSUME TypeOK, HInv, NothingKnown, [Next]_vars, NEW q \in Proc PROVE known'[q] = {}
    BY DEF NothingKnown
<1>0. known[q] = {} BY DEF NothingKnown
<1>1. ASSUME NEW p \in Proc, Step(p) PROVE known'[q] = {}
  <2>1. CASE q # p BY <1>0, <1>1, <2>1, OthersAlone
  <2>2. CASE q = p /\ CheckPasses(p)
    <3>1. known' = [known EXCEPT ![p] = IF Forced(p) THEN @ ELSE @ \cup OnRecord(Cur(p))]
      BY <2>2 DEF CheckPasses
    <3>2. Cur(p) \in Fp BY <2>2, BusyJob DEF CheckPasses
    <3>3. Forced(p) \/ OnRecord(Cur(p)) = {} BY <2>2, <3>2, OnRecordBlocks DEF CheckPasses
    <3> QED BY <1>0, <2>2, <3>1, <3>3 DEF TypeOK, VarTypes
  <2>3. CASE q = p /\ ~ CheckPasses(p)
    <3>1. known' = known \/ End(p)
      BY <1>1, <2>3 DEF Step, Start, CheckRefuses, ReserveNothing, ReserveCreate, ReserveExists,
                        ReserveRefuse, ReserveFindsStale, ReserveSteal, Send, SendThrows,
                        SendLandsThenThrows, SendDeliverTxFails, Record, RecordFailed, RecordLost,
                        ReceiptArrives, ReceiptFails, Release, ReleaseNothing, Crash, ghostVars
    <3> QED BY <1>0, <2>3, <3>1 DEF End, TypeOK, VarTypes
  <2> QED BY <2>1, <2>2, <2>3
<1>2. CASE ~ \E p \in Proc : Step(p)
  BY <1>0, <1>2 DEF Next, Settle, Poll, Tick, vars, ghostVars
<1> QED BY <1>1, <1>2

(* RecordedNeverResent. Whatever fails and whoever races, what was in the  *)
(* journal as live when a process made its check keeps that process from   *)
(* sending: no pruning and no later resolution loses it.                   *)
THEOREM RecordedStaysRefused == Spec => RecordedNeverResent
<1>1. Init => TypeOK /\ HInv /\ NothingKnown BY TypeInit, HInvInit DEF Init, NothingKnown
<1>2. TypeOK /\ HInv /\ NothingKnown /\ [Next]_vars => (TypeOK /\ HInv /\ NothingKnown)'
  BY TypeStep, HInvStep, NothingKnownStep
<1>3. NothingKnown /\ [Next]_vars =>
          [\A p \in Proc, h \in Hash : LandsNow(p, h) /\ ~ Forced(p) => known[p] = {}]_vars
  BY DEF NothingKnown
<1> QED BY <1>1, <1>2, <1>3, PTL DEF Spec, RecordedNeverResent

(* Nothing that was recorded is forgotten. *)
LEMMA HistGrows == ASSUME TypeOK, SentInv, HashInv, [Next]_vars PROVE hist \subseteq hist'
<1>1. ASSUME NEW p \in Proc, Record(p) PROVE hist \subseteq hist'
  BY <1>1, Appends DEF Record
<1>2. ASSUME NEW h \in Hash, NEW s \in Status, Resolves(h, s) PROVE hist \subseteq hist'
  BY <1>2, AppendsResolution DEF Resolves
<1> QED BY <1>1, <1>2, Kinds DEF Forgets, LandsAs, Settle

LEMMA ApprovedKept ==
    ASSUME TypeOK, SentInv, HashInv, ApprovedInv, [Next]_vars, NEW q \in Proc,
           pc'[q] = pc[q], leg'[q] = leg[q], job'[q] = job[q], out'[q] = out[q]
    PROVE  Approved(q)'
<1>1. Approved(q) BY DEF ApprovedInv
<1>2. \A f, h : OnRecordAs(f, h) => \E r \in hist' : r.t = "broadcast" /\ r.fp = f /\ r.hash = h
  BY HistGrows DEF OnRecordAs
<1>3. ASSUME out[q] # None, chain[out[q]].status = "confirmed" PROVE chain'[out[q]].status = "confirmed"
  <2>1. out[q] \in Hash /\ chain[out[q]] # None BY <1>3 DEF TypeOK, VarTypes, HashInv
  <2>2. Becomes(out[q]) BY <2>1, ChainKeeps
  <2> QED BY <1>3, <2>2 DEF Becomes
<1> QED BY <1>1, <1>2, <1>3 DEF Approved, OnRecordAs, HasApprove

LEMMA ApprovedOwn ==
    ASSUME TypeOK, SentInv, HashInv, ApprovedInv, [Next]_vars, NEW p \in Proc, Step(p),
           "disk" \in setting.faults => \A j \in setting.jobs : j.approve = None
    PROVE  Approved(p)'
<1> USE DEF TypeOK, VarTypes
<1>1. Approved(p) BY DEF ApprovedInv
<1>2. CASE CheckPasses(p) \/ ReserveNothing(p) \/ ReserveCreate(p)
  <2>1. /\ job' = job /\ pc'[p] # "receipt"
        /\ pc'[p] = "send" => leg'[p] = IF HasApprove(p) THEN "approve" ELSE "primary"
    BY <1>2 DEF CheckPasses, ReserveNothing, ReserveCreate, NextLegOr
  <2> QED BY <2>1 DEF Approved, HasApprove
<1>3. CASE Record(p)
  <2>1. PICK r : hist' = hist \cup {r} /\ r.t = "broadcast" /\ r.fp = Cur(p) /\ r.hash = out[p]
    BY <1>3, Appends DEF Record
  <2>2. pc'[p] \in {"receipt", "release", "recordFailed"} /\ UNCHANGED <<job, out, leg>>
    BY <1>3 DEF Record, AfterRecord
  <2>3. pc'[p] = "receipt" => leg[p] = "approve" BY <1>3 DEF Record, AfterRecord
  <2>4. pc'[p] = "receipt" => r \in hist' /\ r.fp = job'[p].approve /\ r.hash = out'[p]
    BY <2>1, <2>2, <2>3 DEF Cur
  <2> QED BY <2>1, <2>2, <2>4 DEF Approved, OnRecordAs
<1>4. CASE RecordLost(p)
  <2>1. pc'[p] \in {"receipt", "release", "recordFailed"} BY <1>4 DEF RecordLost, AfterRecord
  <2>2. pc'[p] # "receipt"
    <3>1. job[p] \in setting.jobs BY <1>4 DEF RecordLost, ProcTypes
    <3>2. ~ HasApprove(p) BY <1>4, <3>1 DEF RecordLost, HasApprove
    <3>3. leg[p] # "approve" BY <3>2 DEF ProcTypes
    <3> QED BY <1>4, <3>3 DEF RecordLost, AfterRecord
  <2> QED BY <2>1, <2>2 DEF Approved
<1>5. CASE ReceiptArrives(p)
  <2>1. /\ OnRecordAs(job[p].approve, out[p]) /\ out[p] # None
        /\ chain[out[p]].status = "confirmed" /\ pc'[p] = "send"
        /\ UNCHANGED <<job, out, chain, hist>>
    BY <1>1, <1>5, NoneAssumption DEF ReceiptArrives, Approved, ProcTypes
  <2> QED BY <2>1 DEF Approved, OnRecordAs
<1>6. CASE Release(p)
  <2>1. pc'[p] \in {"idle", "release"} BY <1>6 DEF Release, End
  <2> QED BY <2>1 DEF Approved
<1>7. CASE \/ Start(p) \/ CheckRefuses(p) \/ ReserveExists(p) \/ ReserveRefuse(p)
           \/ ReserveFindsStale(p) \/ ReserveSteal(p) \/ Send(p) \/ SendThrows(p)
           \/ SendLandsThenThrows(p) \/ SendDeliverTxFails(p) \/ RecordFailed(p)
           \/ ReceiptFails(p) \/ ReleaseNothing(p) \/ Crash(p)
  <2>1. pc'[p] \notin {"receipt", "send"}
    BY <1>7 DEF Start, CheckRefuses, ReserveExists, ReserveRefuse, ReserveFindsStale, ReserveSteal,
                Send, SendThrows, SendLandsThenThrows, SendDeliverTxFails, RecordFailed,
                ReceiptFails, ReleaseNothing, Crash, End
  <2> QED BY <2>1 DEF Approved
<1> QED BY <1>2, <1>3, <1>4, <1>5, <1>6, <1>7 DEF Step

LEMMA ApprovedStep ==
    ASSUME \A s \in Settings : "disk" \in s.faults => \A j \in s.jobs : j.approve = None
    PROVE  TypeOK /\ SentInv /\ HashInv /\ ApprovedInv /\ [Next]_vars => ApprovedInv'
<1> SUFFICES ASSUME TypeOK, SentInv, HashInv, ApprovedInv, [Next]_vars, NEW q \in Proc
             PROVE  Approved(q)'
    BY DEF ApprovedInv
<1>0. "disk" \in setting.faults => \A j \in setting.jobs : j.approve = None BY DEF TypeOK, VarTypes
<1>1. ASSUME NEW p \in Proc, Step(p) PROVE Approved(q)'
  <2>1. CASE q = p BY <1>0, <1>1, <2>1, ApprovedOwn
  <2>2. CASE q # p BY <1>1, <2>2, OthersAlone, ApprovedKept
  <2> QED BY <2>1, <2>2
<1>2. ASSUME NEW h \in Hash, Settle(h) \/ Poll(h) PROVE Approved(q)'
  BY <1>2, ApprovedKept DEF Settle, Poll, procVars
<1>3. CASE Tick \/ UNCHANGED vars BY <1>3, ApprovedKept DEF Tick, procVars, vars
<1> QED BY <1>1, <1>2, <1>3 DEF Next

(* MainNeedsApprove. If the disk takes the records of two-leg commands,    *)
(* the main leg goes out only after its own approval is in the journal and *)
(* confirmed, whatever else fails and whoever sends the same approval.     *)
THEOREM ApprovalFirst ==
    ASSUME \A s \in Settings : "disk" \in s.faults => \A j \in s.jobs : j.approve = None
    PROVE  Spec => MainNeedsApprove
<1>1. Init => CInv /\ ApprovedInv BY CInvariant DEF Init, ApprovedInv, Approved
<1>2. CInv /\ ApprovedInv /\ [Next]_vars => (CInv /\ ApprovedInv)'
  BY CInvariant, ApprovedStep DEF CInv
<1>3. ApprovedInv /\ [Next]_vars =>
          [\A p \in Proc, h \in Hash :
              LandsNow(p, h) /\ HasApprove(p) /\ leg[p] = "primary" =>
                /\ out[p] # None /\ chain[out[p]].status = "confirmed"
                /\ \E r \in hist :
                      r.t = "broadcast" /\ r.fp = job[p].approve /\ r.hash = out[p]]_vars
  BY DEF ApprovedInv, Approved, OnRecordAs, LandsNow
<1> QED BY <1>1, <1>2, <1>3, PTL DEF Spec, MainNeedsApprove

-----------------------------------------------------------------------------
(* The gap between the check and the reservation.                          *)

LEMMA TakenStep ==
    ASSUME \A s \in Settings : "fs" \notin s.faults
    PROVE  TypeOK /\ TakenInv /\ [Next]_vars => TakenInv'
<1> SUFFICES ASSUME TypeOK, TakenInv, [Next]_vars, NEW q \in Proc, job'[q] # None, ~ Forced(q)'
             PROVE  Taken(q)' \subseteq held'[q]
    BY DEF TakenInv
<1> USE DEF TypeOK, VarTypes
<1>0. "fs" \notin setting.faults OBVIOUS
<1>k. ASSUME job'[q] = job[q], pc'[q] = pc[q], leg'[q] = leg[q], held'[q] = held[q]
      PROVE  Taken(q)' \subseteq held'[q]
  BY <1>k DEF TakenInv, Taken, Forced
<1>1. ASSUME Step(q) PROVE Taken(q)' \subseteq held'[q]
  <2> DEFINE p == q
  <2>j. pc[p] # "idle" => job[p] # None /\ Cur(p) \in Fp BY BusyJob
  <2>h. ASSUME job[p] # None, job'[p] = job[p] PROVE Taken(p) \subseteq held[p] /\ ~ Forced(p)
    BY <2>h DEF TakenInv, Forced
  <2>1. CASE ReserveCreate(p)
    <3>1. /\ pc[p] = "create" /\ held'[p] = held[p] \cup {Cur(p)} /\ job' = job
          /\ NextLegOr(p, "create", "send")
      BY <2>1 DEF ReserveCreate
    <3>2. Taken(p) \subseteq held[p] BY <2>h, <2>j, <3>1
    <3>3. CASE leg[p] = "primary" /\ HasApprove(p)
      <4>1. pc'[p] = "create" /\ leg'[p] = "approve" /\ Cur(p) = job[p].primary
        BY <3>1, <3>3 DEF NextLegOr, Cur
      <4> QED BY <3>1, <4>1 DEF Taken
    <3>4. CASE ~ (leg[p] = "primary" /\ HasApprove(p))
      <4>1. pc'[p] = "send" BY <3>1, <3>4 DEF NextLegOr
      <4>2. Taken(p)' = {job[p].primary, job[p].approve} \ {None}
        BY <3>1, <4>1 DEF Taken
      <4>3. CASE leg[p] = "approve"
        <5>1. Taken(p) = {job[p].primary} /\ Cur(p) = job[p].approve BY <3>1, <4>3 DEF Taken, Cur
        <5> QED BY <3>1, <3>2, <4>2, <5>1
      <4>4. CASE leg[p] = "primary"
        <5>1. job[p].approve = None /\ Cur(p) = job[p].primary BY <3>4, <4>4 DEF HasApprove, Cur
        <5> QED BY <3>1, <4>2, <5>1
      <4> QED BY <4>3, <4>4 DEF Legs
    <3> QED BY <3>3, <3>4
  <2>2. CASE ReserveNothing(p)
    <3>1. pc[p] = "create" /\ job' = job /\ Forced(p) BY <1>0, <2>2 DEF ReserveNothing
    <3> QED BY <2>h, <2>j, <3>1
  <2>3. CASE CheckPasses(p)
    <3>1. pc'[p] = "check" \/ (pc'[p] = "create" /\ leg'[p] = "primary")
      BY <2>3 DEF CheckPasses, NextLegOr
    <3> QED BY <3>1 DEF Taken
  <2>4. CASE \/ Start(p) \/ CheckRefuses(p) \/ ReserveRefuse(p) \/ SendThrows(p)
             \/ SendLandsThenThrows(p) \/ RecordFailed(p) \/ ReceiptFails(p) \/ Release(p)
             \/ ReleaseNothing(p) \/ Crash(p)
    <3>1. pc'[p] \in {"idle", "check", "release"}
      BY <2>4 DEF Start, CheckRefuses, ReserveRefuse, SendThrows, SendLandsThenThrows, RecordFailed,
                  ReceiptFails, Release, ReleaseNothing, Crash, End
    <3> QED BY <3>1 DEF Taken
  <2>5. CASE ReserveExists(p) \/ ReserveFindsStale(p) \/ ReserveSteal(p)
    <3>1. /\ pc[p] \in {"create", "stat", "unlink"} /\ UNCHANGED <<leg, job, held>>
          /\ pc'[p] \in {"create", "stat", "unlink", "release"}
      BY <2>5 DEF ReserveExists, ReserveFindsStale, ReserveSteal
    <3>2. Taken(p) \subseteq held[p] BY <2>h, <2>j, <3>1
    <3> QED BY <3>1, <3>2 DEF Taken
  <2>6. CASE Send(p) \/ SendDeliverTxFails(p) \/ Record(p) \/ RecordLost(p) \/ ReceiptArrives(p)
    <3>1. /\ pc[p] \in {"send", "record", "recordFailed", "receipt"} /\ UNCHANGED <<job, held>>
          /\ pc'[p] \in {"send", "record", "recordFailed", "receipt", "release"}
      BY <2>6 DEF Send, SendDeliverTxFails, Record, RecordLost, ReceiptArrives, AfterRecord
    <3>2. Taken(p) \subseteq held[p] BY <2>h, <2>j, <3>1
    <3> QED BY <3>1, <3>2 DEF Taken
  <2> QED BY <1>1, <2>1, <2>2, <2>3, <2>4, <2>5, <2>6 DEF Step
<1>2. ASSUME NEW p \in Proc, Step(p), q # p PROVE Taken(q)' \subseteq held'[q]
  BY <1>2, <1>k, OthersAlone
<1>3. ASSUME NEW h \in Hash, Settle(h) \/ Poll(h) PROVE Taken(q)' \subseteq held'[q]
  BY <1>3, <1>k DEF Settle, Poll, procVars
<1>4. CASE Tick \/ UNCHANGED vars BY <1>4, <1>k DEF Tick, procVars, vars
<1> QED BY <1>1, <1>2, <1>3, <1>4 DEF Next

(* A copy becomes live and recorded only when its sender records it. *)
LEMMA NewlyLive ==
    ASSUME TypeOK, SentInv, HashInv, [Next]_vars, NEW a \in Hash, NEW f \in Fp,
           LiveCopy(a, f)', Journaled(a)'
    PROVE  /\ LiveCopy(a, f)
           /\ Journaled(a) \/ \E r \in Proc : Record(r) /\ out[r] = a
<1> USE DEF LiveCopy, Journaled
<1>c. clock \in Nat /\ Window \in Nat BY TimesAssumption DEF TypeOK, VarTypes
<1>k. clock' \in Nat /\ clock' >= clock
  BY <1>c, Kinds, RecordStep DEF AppendsNow
<1>1. chain[a] # None
  <2> SUFFICES ASSUME chain[a] = None PROVE FALSE OBVIOUS
  <2>1. \A r \in hist : r.hash # a BY DEF HashInv
  <2>2. chain' # chain /\ hist' # hist BY <2>1
  <2> QED BY <2>2, Kinds DEF Forgets, LandsAs, Record, Resolves, Settle
<1>2. Becomes(a) BY <1>1, ChainKeeps
<1>3. LiveCopy(a, f)
  <2>1. /\ chain'[a].fp = chain[a].fp /\ ~ chain[a].forced /\ chain[a].status # "failed"
        /\ chain'[a].at = chain[a].at /\ chain[a].at \in Nat
    BY <1>1, <1>2 DEF Becomes, TypeOK, VarTypes, Tx
  <2> QED BY <1>1, <1>c, <1>k, <2>1
<1>4. chain'[a].at = chain[a].at BY <1>2 DEF Becomes
<1>5. PICK r \in hist' : r.t = "broadcast" /\ r.hash = a /\ r.ts >= chain'[a].at OBVIOUS
<1>6. CASE r \in hist BY <1>3, <1>4, <1>5, <1>6
<1>7. CASE r \notin hist
  <2>1. ASSUME NEW h \in Hash, NEW s \in Status, Resolves(h, s) PROVE FALSE
    <3>1. PICK k : hist' = hist \cup {k} /\ k.t = "resolved" BY <2>1, AppendsResolution DEF Resolves
    <3> QED BY <1>5, <1>7, <3>1
  <2>2. PICK p \in Proc : Record(p)
    BY <1>5, <1>7, <2>1, Kinds DEF Forgets, LandsAs, Settle
  <2>3. PICK k : hist' = hist \cup {k} /\ k.hash = out[p] BY <2>2, Appends DEF Record
  <2> QED BY <1>3, <1>5, <1>7, <2>2, <2>3
<1> QED BY <1>6, <1>7

(* What p has found no duplicate of, in a step that records nothing. *)
JustChecked(p) ==
    {f \in Fp : /\ f = Cur(p) /\ UNCHANGED ord
                /\ Forced(p) \/ FindRecentDuplicate(journal, f, clock) = {}}

(* What p has still to send grows only by what it has just checked. *)
LEMMA DueOwn ==
    ASSUME TypeOK, SentInv, NEW p \in Proc, Step(p), Due(p)' # {}
    PROVE  /\ job'[p] = job[p] /\ job[p] # None /\ gap[p] \subseteq gap'[p]
           /\ \A f \in Due(p)' : f \in Due(p) \cup JustChecked(p)
<1> USE DEF TypeOK, VarTypes, ghostVars
<1>s. Sent(p) BY DEF SentInv
<1>j. pc[p] # "idle" => job[p] # None /\ Cur(p) \in Fp BY BusyJob
<1>1. CASE CheckPasses(p)
  <2>1. /\ pc[p] = "check" /\ job' = job /\ gap' = gap /\ NextLegOr(p, "check", "create")
        /\ Cur(p) \in JustChecked(p)
    BY <1>1, <1>j DEF CheckPasses, JustChecked
  <2>2. CASE leg[p] = "primary" /\ HasApprove(p)
    <3>1. pc'[p] = "check" /\ leg'[p] = "approve" /\ Cur(p) = job[p].primary
      BY <2>1, <2>2 DEF NextLegOr, Cur
    <3> QED BY <1>1, <1>j, <2>1, <3>1 DEF Due
  <2>3. CASE ~ (leg[p] = "primary" /\ HasApprove(p))
    <3>1. pc'[p] = "create" BY <2>1, <2>3 DEF NextLegOr
    <3>2. Due(p)' = {job[p].primary, job[p].approve} \ {None} BY <2>1, <3>1 DEF Due
    <3>3. leg[p] = "approve" => Due(p) = {job[p].primary} /\ Cur(p) = job[p].approve
      BY <2>1 DEF Due, Cur
    <3>4. leg[p] = "primary" => job[p].approve = None /\ Cur(p) = job[p].primary
      BY <2>3 DEF HasApprove, Cur
    <3> QED BY <1>1, <1>j, <2>1, <3>2, <3>3, <3>4 DEF Legs
  <2> QED BY <2>2, <2>3
<1>2. CASE ReserveNothing(p) \/ ReserveCreate(p)
  <2>1. pc[p] = "create" /\ job' = job /\ gap' = gap /\ NextLegOr(p, "create", "send")
    BY <1>2 DEF ReserveNothing, ReserveCreate
  <2>2. Due(p) = {job[p].primary, job[p].approve} \ {None} BY <2>1 DEF Due
  <2>3. pc'[p] = "create" \/ (pc'[p] = "send" /\ leg'[p] = IF HasApprove(p) THEN "approve" ELSE "primary")
    BY <2>1 DEF NextLegOr
  <2>4. job[p].primary # None
    BY <1>j, <2>1, BusyJob, NoneAssumption DEF Job
  <2>5. CASE pc'[p] = "create" BY <1>j, <2>1, <2>2, <2>5 DEF Due
  <2>6. CASE pc'[p] # "create"
    <3>1. Due(p)' = {Cur(p)', job[p].primary} BY <2>1, <2>3, <2>6 DEF Due
    <3>2. Cur(p)' = IF HasApprove(p) THEN job[p].approve ELSE job[p].primary
      BY <2>1, <2>3, <2>6 DEF Cur
    <3> QED BY <1>j, <2>1, <2>2, <2>4, <3>1, <3>2 DEF HasApprove
  <2> QED BY <2>5, <2>6
<1>3. CASE ReserveExists(p) \/ ReserveFindsStale(p) \/ ReserveSteal(p) \/ ReserveRefuse(p)
  <2>1. /\ pc[p] \in {"create", "stat", "unlink"} /\ job' = job /\ gap' = gap
        /\ pc'[p] \in {"create", "stat", "unlink", "release"}
    BY <1>3 DEF ReserveExists, ReserveFindsStale, ReserveSteal, ReserveRefuse
  <2> QED BY <1>j, <2>1 DEF Due
<1>4. CASE Send(p) \/ SendDeliverTxFails(p)
  <2>1. pc[p] = "send" /\ pc'[p] = "record" /\ job' = job /\ leg' = leg /\ gap' = gap
    BY <1>4 DEF Send, SendDeliverTxFails
  <2> QED BY <1>j, <2>1 DEF Due
<1>5. CASE Record(p) \/ RecordLost(p)
  <2>1. /\ pc[p] \in {"record", "recordFailed"} /\ job' = job /\ leg' = leg
        /\ pc'[p] \in {"receipt", "recordFailed", "release"}
        /\ pc'[p] = "receipt" => pc[p] = "record" /\ leg[p] = "approve"
    BY <1>5 DEF Record, RecordLost, AfterRecord
  <2>2. gap[p] \subseteq gap'[p] BY <1>5 DEF Record, RecordLost
  <2> QED BY <1>j, <2>1, <2>2 DEF Due
<1>6. CASE ReceiptArrives(p)
  <2>1. pc[p] = "receipt" /\ pc'[p] = "send" /\ leg'[p] = "primary" /\ job' = job /\ gap' = gap
    BY <1>6 DEF ReceiptArrives
  <2>2. leg[p] = "approve" BY <1>s, <2>1 DEF Sent
  <2> QED BY <1>j, <2>1, <2>2 DEF Due, Cur
<1>7. CASE \/ Start(p) \/ CheckRefuses(p) \/ SendThrows(p) \/ SendLandsThenThrows(p)
           \/ RecordFailed(p) \/ ReceiptFails(p) \/ Release(p) \/ ReleaseNothing(p) \/ Crash(p)
  <2>1. CASE Start(p)
    <3>1. pc'[p] = "check" /\ leg'[p] = "primary" BY <2>1 DEF Start, ProcTypes, Legs
    <3> QED BY <3>1 DEF Due
  <2>2. CASE ~ Start(p)
    <3>1. pc'[p] \in {"idle", "release"}
      BY <1>7, <2>2 DEF CheckRefuses, SendThrows, SendLandsThenThrows, RecordFailed, ReceiptFails,
                        Release, ReleaseNothing, Crash, End
    <3> QED BY <3>1 DEF Due
  <2> QED BY <2>1, <2>2
<1> QED BY <1>1, <1>2, <1>3, <1>4, <1>5, <1>6, <1>7 DEF Step

LEMMA DueKept ==
    ASSUME TypeOK, SentInv, [Next]_vars, NEW q \in Proc, Due(q)' # {}, job'[q] # None
    PROVE  /\ job'[q] = job[q] /\ job[q] # None /\ gap[q] \subseteq gap'[q]
           /\ \A f \in Due(q)' : f \in Due(q) \cup JustChecked(q)
<1>k. ASSUME job'[q] = job[q], pc'[q] = pc[q], leg'[q] = leg[q] PROVE Due(q)' = Due(q)
  BY <1>k DEF Due, Cur
<1>1. ASSUME NEW p \in Proc, Step(p), q # p
      PROVE  /\ job'[q] = job[q] /\ job[q] # None /\ gap[q] \subseteq gap'[q]
             /\ \A f \in Due(q)' : f \in Due(q) \cup JustChecked(q)
  BY <1>1, <1>k, OthersAlone
<1>2. CASE Step(q) BY <1>2, DueOwn
<1>3. ASSUME NEW h \in Hash, Settle(h) \/ Poll(h)
      PROVE  /\ job'[q] = job[q] /\ job[q] # None /\ gap[q] \subseteq gap'[q]
             /\ \A f \in Due(q)' : f \in Due(q) \cup JustChecked(q)
  BY <1>3, <1>k DEF Settle, Poll, procVars, ghostVars
<1>4. CASE Tick \/ UNCHANGED vars BY <1>4, <1>k DEF Tick, procVars, ghostVars, vars
<1> QED BY <1>1, <1>2, <1>3, <1>4 DEF Next

(* Who records while p has reserved an intent records another one, unless  *)
(* it is forced.                                                           *)
LEMMA RecorderIsAlone ==
    ASSUME CInv, LockInv, TakenInv, NEW q \in Proc, NEW r \in Proc, Record(r),
           job[q] # None, ~ Forced(q), NEW f \in Due(q), f \in Fp, ~ InGap(q),
           LiveCopy(out[r], f)
    PROVE  FALSE
<1> USE DEF CInv, TypeOK, VarTypes
<1>1. pc[r] = "record" /\ Sent(r) BY DEF Record, SentInv
<1>2. Cur(r) = f /\ ~ Forced(r) /\ job[r] # None
  BY <1>1, BusyJob DEF Sent, LiveCopy
<1>3. f \in held[r]
  <2>1. f \in Taken(r) BY <1>1, <1>2, NoneAssumption DEF Taken, Cur
  <2> QED BY <1>2, <2>1 DEF TakenInv
<1>4. pc[q] \in {"send", "record", "receipt"} /\ f \in Taken(q)
  <2>1. CASE pc[q] = "send" BY <2>1, NoneAssumption DEF Due, Taken, Cur
  <2>2. CASE pc[q] \in {"record", "receipt"} /\ leg[q] = "approve"
    BY <2>2, NoneAssumption DEF Due, Taken
  <2>3. CASE ~ (pc[q] = "send" \/ (pc[q] \in {"record", "receipt"} /\ leg[q] = "approve"))
    BY <2>3 DEF Due, InGap
  <2> QED BY <2>1, <2>2, <2>3
<1>5. q = r
  <2>1. f \in held[q] BY <1>4 DEF TakenInv
  <2> QED BY <1>3, <2>1 DEF LockInv, HeldIsLocked
<1>6. leg[q] = "approve" /\ f = job[q].primary BY <1>1, <1>5 DEF Due
<1>7. job[q] \in setting.jobs BY DEF ProcTypes
<1>8. job[q].approve # job[q].primary BY <1>7, JobsTyped
<1> QED BY <1>2, <1>5, <1>6, <1>8 DEF Cur

LEMMA GapStep ==
    CInv /\ LockInv /\ TakenInv /\ GapInv /\ [Next]_vars => GapInv'
<1> SUFFICES ASSUME CInv, CInv', LockInv, TakenInv, GapInv, [Next]_vars,
                    NEW q \in Proc, NEW a \in Hash, job'[q] # None, ~ Forced(q)',
                    NEW f \in Due(q)', LiveCopy(a, f)', Journaled(a)'
             PROVE  a \in gap'[q]
    BY CInvariant DEF GapInv
<1>t. TypeOK /\ SentInv /\ HashInv BY DEF CInv
<1>1. /\ job'[q] = job[q] /\ job[q] # None /\ gap[q] \subseteq gap'[q]
      /\ f \in Due(q) \cup JustChecked(q)
  BY <1>t, DueKept
<1>2. ~ Forced(q) BY <1>1 DEF Forced
<1>f. f \in Fp
  <2>1. chain'[a] # None /\ chain'[a].fp = f /\ chain'[a] \in Tx \cup {None}
    BY DEF LiveCopy, CInv, TypeOK, VarTypes
  <2> QED BY <2>1 DEF Tx
<1>3. /\ LiveCopy(a, f)
      /\ Journaled(a) \/ \E r \in Proc : Record(r) /\ out[r] = a
  BY <1>t, <1>f, NewlyLive
<1>4. CASE f \in Due(q)
  <2>1. CASE Journaled(a) BY <1>1, <1>2, <1>3, <1>4, <2>1 DEF GapInv
  <2>2. ASSUME NEW r \in Proc, Record(r), out[r] = a PROVE a \in gap'[q]
    <3>1. CASE InGap(q) BY <2>2, <3>1 DEF Record
    <3>2. CASE ~ InGap(q) BY <1>1, <1>2, <1>f, <1>3, <1>4, <2>2, <3>2, RecorderIsAlone
    <3> QED BY <3>1, <3>2
  <2> QED BY <1>3, <2>1, <2>2
<1>5. CASE f \in JustChecked(q)
  <2>1. UNCHANGED ord /\ FindRecentDuplicate(journal, f, clock) = {}
    BY <1>2, <1>5 DEF JustChecked
  <2>2. ASSUME NEW r \in Proc, Record(r) PROVE FALSE
    BY <1>t, <2>1, <2>2 DEF Record, RecordBroadcast, AppendRecord, TypeOK, VarTypes
  <2>3. Journaled(a) BY <1>3, <2>2
  <2>4. FindRecentDuplicate(journal, chain[a].fp, clock) # {}
    BY <1>3, <2>3, RecordedBlocks DEF LiveCopy
  <2> QED BY <1>3, <2>1, <2>4 DEF LiveCopy
<1> QED BY <1>1, <1>4, <1>5

(* Who still has a live copy that it has not recorded holds its            *)
(* reservation.                                                            *)
LEMMA SenderHolds ==
    ASSUME CInv, TakenInv, NEW q \in Proc, NEW a \in Hash, NEW f \in Fp, out[q] = a, LiveCopy(a, f),
           ~ (pc[q] = "release" /\ f \notin held[q])
    PROVE  f \in held[q]
<1> USE DEF CInv, TypeOK, VarTypes
<1>1. Sent(q) /\ out[q] # None BY NoneAssumption DEF SentInv
<1>2. /\ f \in {job[q].primary, job[q].approve} /\ ~ Forced(q)
      /\ pc[q] \in {"send", "record", "recordFailed", "receipt", "release"}
  BY <1>1 DEF Sent, LiveCopy, Phases
<1>3. job[q] # None BY <1>2 DEF ProcTypes
<1>4. CASE pc[q] = "release" BY <1>4
<1>5. CASE pc[q] # "release"
  <2>1. f \in Taken(q) BY <1>2, <1>5, NoneAssumption DEF Taken
  <2> QED BY <1>2, <1>3, <2>1 DEF TakenInv
<1> QED BY <1>4, <1>5

GuardInv == CInv /\ LockInv /\ TakenInv /\ GapInv

LEMMA OnlyInGap ==
    ASSUME GuardInv, NEW p \in Proc, NEW a \in Hash, pc[p] = "send", ~ Forced(p),
           LiveCopy(a, Cur(p)), ~ Unrecorded(a)
    PROVE  a \in gap[p]
<1> USE DEF GuardInv
<1>1. job[p] # None /\ Cur(p) \in Fp BY BusyJob DEF CInv
<1>2. Cur(p) \in Due(p) BY DEF Due
<1>3. CASE Journaled(a) BY <1>1, <1>2, <1>3 DEF GapInv
<1>4. CASE ~ Journaled(a)
  <2>3. Cur(p) \in held[p]
    <3>1. Cur(p) \in Taken(p) BY <1>1, NoneAssumption DEF Taken, Cur
    <3> QED BY <1>1, <3>1 DEF TakenInv
  <2>a. Lapsed(a) BY <2>3 DEF LockInv, LeftIsLocked, LiveCopy
  <2>1. PICK q \in Proc : out[q] = a /\ ~ (pc[q] = "release" /\ Cur(p) \notin held[q])
    BY <1>4, <2>a DEF Unrecorded, LiveCopy
  <2>2. Cur(p) \in held[q] BY <1>1, <2>1, SenderHolds
  <2>4. p = q BY <2>2, <2>3 DEF LockInv, HeldIsLocked
  <2>5. out[p] # None BY <2>1, <2>4, NoneAssumption
  <2>6. leg[p] = "primary" /\ chain[a].fp = job[p].approve
    BY <2>1, <2>4, <2>5 DEF CInv, SentInv, Sent
  <2>7. job[p] \in setting.jobs BY <1>1 DEF CInv, TypeOK, VarTypes
  <2>8. job[p].approve # job[p].primary BY <2>7, JobsTyped DEF CInv, TypeOK
  <2> QED BY <2>6, <2>8 DEF LiveCopy, Cur
<1> QED BY <1>3, <1>4

(* OnlyCheckGap. If none outlives RESERVATION_STALE_MS while it holds a    *)
(* reservation, those that may die run one after the other, and            *)
(* reservations can be written, an intent is sent twice only if somebody   *)
(* recorded and released between a process's check and its reservation, or *)
(* the earlier copy is not on record: its broadcast threw, its record      *)
(* could not be written, or its sender died and its file has lapsed.       *)
THEOREM GapIsTheOnlyWay ==
    ASSUME \A s \in Settings : Calm(s) /\ "fs" \notin s.faults
    PROVE  Spec => OnlyCheckGap
<1>1. /\ \A s \in Settings : Calm(s)
      /\ \A s \in Settings : "fs" \notin s.faults
  OBVIOUS
<1>2. Init => GuardInv
  BY CInvariant, LockInvInit DEF Init, GuardInv, TakenInv, GapInv
<1>3. GuardInv /\ [Next]_vars => GuardInv'
  <2> SUFFICES ASSUME GuardInv, [Next]_vars PROVE GuardInv'
    OBVIOUS
  <2>1. CInv' BY CInvariant DEF GuardInv
  <2>2. LockInv' BY <1>1, LockInvStep DEF GuardInv
  <2>3. TakenInv' BY <1>1, TakenStep DEF GuardInv, CInv
  <2>4. GapInv' BY GapStep DEF GuardInv
  <2> QED BY <2>1, <2>2, <2>3, <2>4 DEF GuardInv
<1>4. GuardInv /\ [Next]_vars =>
          [\A p \in Proc, a, b \in Hash :
              LandsNow(p, b) /\ ~ Forced(p) /\ LiveCopy(a, Cur(p)) =>
                \/ a \in gap[p]
                \/ Unrecorded(a)
                \/ ~ Journaled(a) /\ Cur(p) \notin held[p]]_vars
  BY OnlyInGap DEF LandsNow
<1> QED BY <1>2, <1>3, <1>4, PTL DEF Spec, OnlyCheckGap

=============================================================================
