-------------------------- MODULE JournalFileProofs --------------------------
(* JournalFile implements Journal: no record within the retention is lost   *)
(* when no process dies or is slow, and with any number of deaths only one  *)
(* that was appended without the lock, if no fresh lock is stolen.          *)
EXTENDS JournalFile, TLAPS

Locked == {"append", "read", "rewrite", "unlock"}
Stealing == {"rename", "inspect"}

Types ==
    /\ file \subseteq Record /\ old \subseteq Record
    /\ lock \in LockFile \cup {None}
    /\ pc \in [Proc -> Phases]
    /\ op \in [Proc -> {"append", "prune"}] /\ rec \in [Proc -> Record]
    /\ holds \in [Proc -> BOOLEAN]
    /\ cut \in [Proc -> SUBSET Record]
    /\ snap \in [Proc -> SUBSET Record]
    /\ begun \in 0 .. MaxCalls /\ late \subseteq Proc

(* The lock file exists exactly while a process in its critical section    *)
(* holds it, so it is never stale and nobody steals it.                    *)
LockIsHeld ==
    /\ lock # None => lock.by \in Proc /\ holds[lock.by] /\ lock.age = 0
    /\ \A p \in Proc : holds[p] => lock # None /\ lock.by = p
    /\ \A p \in Proc : pc[p] \in Locked <=> holds[p]
    /\ \A p \in Proc : pc[p] \notin Stealing
    /\ \A p \in late : op[p] = "prune" /\ pc[p] \in Acquiring

(* What a compaction is about to write is the file without old records, and *)
(* without what was appended since, which had not got the lock.             *)
SnapIsFile ==
    \A p \in Proc : /\ cut[p] \subseteq old
                    /\ pc[p] = "rewrite" => /\ snap[p] \subseteq file
                                            /\ file \ snap[p] \subseteq old \cup bare

Inv == Types /\ LockIsHeld /\ SnapIsFile /\ crashes = 0 /\ bare = {}

LEMMA InvInit == Init => Inv
BY JournalFileAssumption DEF Init, Inv, Types, LockIsHeld, SnapIsFile, Phases, Locked, Stealing, Record

(* Only one process is in a critical section. *)
LEMMA OneLocked ==
    ASSUME Inv, NEW p \in Proc, NEW q \in Proc, pc[p] \in Locked, pc[q] \in Locked
    PROVE  p = q
BY DEF Inv, LockIsHeld

(* The line that was there before is a record. *)
LEMMA ZeroIsRecord == MaxCalls \in Nat /\ 0 \in Record
BY JournalFileAssumption DEF Record

LEMMA InvStep ==
    ASSUME MaxCrashes = 0, "stuck" \notin Faults, "slow" \notin Faults
    PROVE  Inv /\ [Next]_vars => Inv'
<1> SUFFICES ASSUME Inv, [Next]_vars PROVE Inv'
  OBVIOUS
<1> USE DEF Phases, Acquiring, Locked, Stealing
<1>0. Types /\ LockIsHeld /\ SnapIsFile /\ crashes = 0 /\ bare = {}
  BY DEF Inv
<1>1. ASSUME NEW p \in Proc, Step(p) PROVE Inv'
  <2> USE <1>0, ZeroIsRecord
  <2>0. CASE Begin(p)
    <3>0. begun' \in 0 .. MaxCalls /\ begun' \in Record /\ p \notin late
      BY <2>0 DEF Begin, Types, Record, LockIsHeld
    <3>1. Types'
      BY <2>0, <3>0 DEF Begin, Goto, Types
    <3>2. LockIsHeld'
      BY <2>0, <3>0 DEF Begin, Goto, Types, LockIsHeld
    <3>3. SnapIsFile' /\ crashes' = 0 /\ bare' = {}
      BY <2>0 DEF Begin, Goto, Types, SnapIsFile
    <3> QED BY <3>1, <3>2, <3>3 DEF Inv
  <2>1. CASE CreateExists(p) \/ Wait(p) \/ PruneGivesUp(p)
    <3>1. Types'
      BY <2>1 DEF CreateExists, Wait, PruneGivesUp, Goto, Return, Types
    <3>2. LockIsHeld'
      BY <2>1 DEF CreateExists, Wait, PruneGivesUp, Goto, Return, Types, LockIsHeld
    <3>3. SnapIsFile' /\ crashes' = 0 /\ bare' = {}
      BY <2>1 DEF CreateExists, Wait, PruneGivesUp, Goto, Return, Types, SnapIsFile
    <3> QED BY <3>1, <3>2, <3>3 DEF Inv
  <2>2. CASE Create(p)
    <3>a. [by |-> p, call |-> rec[p], age |-> 0] \in LockFile
      BY DEF LockFile, Types
    <3>0. [by |-> p, call |-> rec[p], age |-> 0] # None
      BY <3>a, JournalFileAssumption
    <3>1. Types'
      BY <2>2, <3>a DEF Create, Goto, Types
    <3>2. \A q \in Proc : ~ holds[q]
      BY <2>2 DEF Create, LockIsHeld
    <3>3. LockIsHeld'
      BY <2>2, <3>0, <3>2 DEF Create, Goto, Types, LockIsHeld
    <3>4. SnapIsFile' /\ crashes' = 0 /\ bare' = {}
      BY <2>2 DEF Create, Goto, Types, SnapIsFile
    <3> QED BY <3>1, <3>3, <3>4 DEF Inv
  <2>3. CASE Stat(p)
    <3>0. ~ Stale
      BY DEF Stale, LockIsHeld
    <3>1. Types'
      BY <2>3 DEF Stat, Goto, Types
    <3>2. LockIsHeld'
      BY <2>3, <3>0 DEF Stat, Stale, Goto, Types, LockIsHeld
    <3>3. SnapIsFile' /\ crashes' = 0 /\ bare' = {}
      BY <2>3 DEF Stat, Goto, Types, SnapIsFile
    <3> QED BY <3>1, <3>2, <3>3 DEF Inv
  <2>4. CASE StealRename(p) \/ StealDiscard(p) \/ StealRestore(p)
    BY <2>4 DEF StealRename, StealDiscard, StealRestore, LockIsHeld
  <2>5. CASE AppendGivesUp(p) \/ CreateFails(p)
    BY <2>5 DEF AppendGivesUp, CreateFails, LockIsHeld
  <2>6. CASE Append(p)
    <3>0. holds[p]
      BY <2>6 DEF Append, LockIsHeld
    <3>1. Types'
      BY <2>6 DEF Append, Goto, Types
    <3>2. LockIsHeld'
      BY <2>6 DEF Append, Goto, Types, LockIsHeld
    <3>3. \A q \in Proc : pc[q] # "rewrite"
      BY <1>0, <2>6, OneLocked DEF Append, Inv
    <3>4. SnapIsFile' /\ crashes' = 0 /\ bare' = {}
      BY <2>6, <3>0, <3>3 DEF Append, Goto, Types, SnapIsFile
    <3> QED BY <3>1, <3>2, <3>4 DEF Inv
  <2>7. CASE Unlock(p)
    <3>0. /\ pc[p] = "unlock" /\ holds[p] /\ lock' = None
          /\ \A q \in Proc : q # p => ~ holds[q]
      BY <2>7 DEF Unlock, LockIsHeld
    <3>1. Types'
      BY <2>7, <3>0 DEF Unlock, Goto, Return, Types
    <3>2. LockIsHeld'
      <4>1. pc' = [pc EXCEPT ![p] = "gate"] \/ pc' = [pc EXCEPT ![p] = "idle"]
        BY <2>7 DEF Unlock, Goto, Return
      <4>2. p \notin late /\ op' \in {op, [op EXCEPT ![p] = "append"]}
        BY <2>7, <3>0 DEF Unlock, Return, LockIsHeld
      <4>3. UNCHANGED late /\ holds' = [holds EXCEPT ![p] = FALSE]
        BY <2>7 DEF Unlock
      <4> QED BY <3>0, <4>1, <4>2, <4>3 DEF Types, LockIsHeld
    <3>3. SnapIsFile' /\ crashes' = 0 /\ bare' = {}
      BY <2>7 DEF Unlock, Goto, Return, Types, SnapIsFile
    <3> QED BY <3>1, <3>2, <3>3 DEF Inv
  <2>8. CASE AppendFails(p)
    <3>0. /\ pc[p] = "append" /\ holds[p] /\ lock' = None
          /\ \A q \in Proc : q # p => ~ holds[q]
      BY <2>8 DEF AppendFails, LockIsHeld
    <3>1. Types'
      BY <2>8, <3>0 DEF AppendFails, Goto, Return, Types
    <3>2. LockIsHeld'
      BY <2>8, <3>0 DEF AppendFails, Goto, Return, Types, LockIsHeld
    <3>3. SnapIsFile' /\ crashes' = 0 /\ bare' = {}
      BY <2>8 DEF AppendFails, Goto, Return, Types, SnapIsFile
    <3> QED BY <3>1, <3>2, <3>3 DEF Inv
  <2>9. CASE Gate(p)
    <3>1. Types'
      BY <2>9 DEF Gate, Goto, Return, Types
    <3>2. LockIsHeld'
      <4>1. p \notin late /\ ~ holds[p] /\ pc[p] = "gate"
        BY <2>9 DEF Gate, LockIsHeld
      <4>2. pc' = [pc EXCEPT ![p] = "create"] \/ pc' = [pc EXCEPT ![p] = "idle"]
        BY <2>9 DEF Gate, Goto, Return
      <4>3. op' = [op EXCEPT ![p] = "prune"] \/ op' = [op EXCEPT ![p] = "append"]
        BY <2>9 DEF Gate, Goto, Return
      <4>4. UNCHANGED <<lock, holds, late>>
        BY <2>9 DEF Gate
      <4> QED BY <4>1, <4>2, <4>3, <4>4 DEF Types, LockIsHeld
    <3>3. SnapIsFile' /\ crashes' = 0 /\ bare' = {}
      BY <2>9 DEF Gate, Goto, Return, Types, SnapIsFile
    <3> QED BY <3>1, <3>2, <3>3 DEF Inv
  <2>10. CASE Read(p)
    <3>1. Types'
      BY <2>10 DEF Read, Goto, Return, Types
    <3>2. LockIsHeld'
      BY <2>10 DEF Read, Goto, Return, Types, LockIsHeld
    <3>3. SnapIsFile' /\ crashes' = 0 /\ bare' = {}
      BY <2>10 DEF Read, Goto, Return, Types, SnapIsFile
    <3> QED BY <3>1, <3>2, <3>3 DEF Inv
  <2>11. CASE RewriteFails(p)
    <3>1. Types'
      BY <2>11 DEF RewriteFails, Goto, Return, Types
    <3>2. LockIsHeld'
      BY <2>11 DEF RewriteFails, Goto, Return, Types, LockIsHeld
    <3>3. SnapIsFile' /\ crashes' = 0 /\ bare' = {}
      BY <2>11 DEF RewriteFails, Goto, Return, Types, SnapIsFile
    <3> QED BY <3>1, <3>2, <3>3 DEF Inv
  <2>12. CASE Rewrite(p)
    <3>1. Types'
      BY <2>12 DEF Rewrite, Goto, Types
    <3>2. LockIsHeld'
      BY <2>12 DEF Rewrite, Goto, Types, LockIsHeld
    <3>3. \A q \in Proc : q # p => pc[q] # "rewrite"
      BY <1>0, <2>12, OneLocked DEF Rewrite, Inv
    <3>4. SnapIsFile' /\ crashes' = 0 /\ bare' = {}
      BY <2>12, <3>3 DEF Rewrite, Goto, Types, SnapIsFile
    <3> QED BY <3>1, <3>2, <3>4 DEF Inv
  <2> QED BY <1>1, <2>0, <2>1, <2>2, <2>3, <2>4, <2>5, <2>6, <2>7, <2>8, <2>9, <2>10, <2>11, <2>12
      DEF Step
<1>2. ASSUME NEW p \in Proc, DeadlinePasses(p) PROVE Inv'
  <2>0. op[p] = "prune" /\ pc[p] \in Acquiring
    BY <1>0, <1>2 DEF DeadlinePasses, Abandoned, LockIsHeld
  <2> QED BY <1>0, <1>2, <2>0 DEF DeadlinePasses, Inv, Types, LockIsHeld, SnapIsFile
<1>3. ASSUME NEW p \in Proc, Crash(p) PROVE Inv'
  BY <1>0, <1>3 DEF Crash
<1>4. ASSUME NEW r \in Record, Expire(r) PROVE Inv'
  BY <1>0, <1>4 DEF Expire, Inv, Types, LockIsHeld, SnapIsFile
<1>5. CASE AgeLock
  BY <1>0, <1>5 DEF AgeLock, Abandoned, LockIsHeld
<1>6. CASE UNCHANGED vars
  BY <1>0, <1>6 DEF vars, Inv, Types, LockIsHeld, SnapIsFile
<1> QED BY <1>1, <1>2, <1>3, <1>4, <1>5, <1>6 DEF Next

(* A step that is neither Append nor Rewrite leaves the file alone. *)
LEMMA OthersKeepFile ==
    ASSUME NEW p \in Proc, Step(p) \/ DeadlinePasses(p) \/ Crash(p), ~ Append(p), ~ Rewrite(p)
    PROVE  UNCHANGED <<file, old, bare>>
<1>1. CASE Step(p)
  BY <1>1 DEF Step, Begin, Create, CreateExists, Stat, StealRename, StealDiscard, StealRestore,
              Wait, PruneGivesUp, AppendGivesUp, CreateFails, AppendFails, Unlock, Gate, Read, RewriteFails
<1>2. CASE DeadlinePasses(p)
  BY <1>2 DEF DeadlinePasses
<1>3. CASE Crash(p)
  BY <1>3 DEF Crash
<1> QED BY <1>1, <1>2, <1>3

(* What a compaction drops is old, or was appended without the lock. *)
LEMMA RewriteDrops ==
    ASSUME SnapIsFile, NEW p \in Proc, Rewrite(p)
    PROVE  \E d \in SUBSET (old \cup bare) : file' = file \ d /\ UNCHANGED <<old, bare>>
<1>1. pc[p] = "rewrite" /\ file' = snap[p] /\ UNCHANGED <<old, bare>>
  BY DEF Rewrite
<1>2. snap[p] \subseteq file /\ file \ snap[p] \subseteq old \cup bare
  BY <1>1 DEF SnapIsFile
<1>3. file' = file \ (file \ snap[p])
  BY <1>1, <1>2
<1> QED BY <1>1, <1>2, <1>3

(* A step of the processes is a step of the abstract journal, or changes   *)
(* nothing of it: Append appends, Rewrite compacts.                        *)
LEMMA StepRefines ==
    ASSUME rec \in [Proc -> Record], begun \in 0 .. MaxCalls, SnapIsFile, [Next]_vars
    PROVE  [J!Next]_<<file, old, bare>>
<1>1. ASSUME NEW p \in Proc, Append(p) PROVE J!Append
  BY <1>1 DEF Append, J!Append
<1>2. ASSUME NEW p \in Proc, Rewrite(p) PROVE J!Compact
  BY <1>2, RewriteDrops DEF J!Compact
<1>3. ASSUME NEW r \in Record, Expire(r) PROVE J!Expire
  BY <1>3 DEF Expire, J!Expire
<1>4. ASSUME NEW p \in Proc, Step(p) \/ DeadlinePasses(p) \/ Crash(p)
      PROVE  [J!Next]_<<file, old, bare>>
  BY <1>1, <1>2, <1>4, OthersKeepFile DEF J!Next
<1>5. CASE AgeLock
  BY <1>5 DEF AgeLock
<1>6. CASE UNCHANGED vars
  BY <1>6 DEF vars
<1> QED BY <1>3, <1>4, <1>5, <1>6 DEF Next, J!Next

(* A step loses only old records as long as none was appended without the lock. *)
LEMMA StepKeeps ==
    ASSUME bare = {}, SnapIsFile, [Next]_vars
    PROVE  \A r \in file : r \in file' \/ r \in old
<1>1. ASSUME NEW p \in Proc, Step(p) \/ DeadlinePasses(p) \/ Crash(p)
      PROVE  \A r \in file : r \in file' \/ r \in old
  <2>1. CASE Append(p)
    BY <2>1 DEF Append
  <2>2. CASE Rewrite(p)
    BY <2>2, RewriteDrops
  <2> QED BY <1>1, <2>1, <2>2, OthersKeepFile
<1>2. ASSUME NEW r \in Record, Expire(r) PROVE UNCHANGED file
  BY <1>2 DEF Expire
<1>3. CASE AgeLock
  BY <1>3 DEF AgeLock
<1>4. CASE UNCHANGED vars
  BY <1>4 DEF vars
<1> QED BY <1>1, <1>2, <1>3, <1>4 DEF Next

LEMMA InitRefines == Init => J!Init
BY JournalFileAssumption DEF Init, J!Init, Record

(* The lock file makes append and compaction atomic: whatever the number    *)
(* of processes, the file behaves as the abstract journal and no record     *)
(* within the retention disappears, if nobody dies with the lock, lingers   *)
(* with it for two seconds, or finds that it cannot be created.             *)
THEOREM FileRefinesJournal ==
    ASSUME MaxCrashes = 0, "stuck" \notin Faults, "slow" \notin Faults
    PROVE  Spec => RefinesJournal /\ NeverClobbered
<1>1. Spec => []Inv
  BY InvInit, InvStep, PTL DEF Spec
<1>2. Inv /\ [Next]_vars => [J!Next]_<<file, old, bare>>
  BY StepRefines DEF Inv, Types
<1>3. Inv /\ [Next]_vars => [\A r \in file : r \in file' \/ r \in old]_vars
  BY StepKeeps DEF Inv
<1> QED BY <1>1, <1>2, <1>3, InitRefines, PTL DEF Spec, RefinesJournal, J!Spec, NeverClobbered

-----------------------------------------------------------------------------
(* Type correctness *)

LEMMA TypeStep == TypeOK /\ [Next]_vars => TypeOK'
<1> SUFFICES ASSUME TypeOK, [Next]_vars PROVE TypeOK'
  OBVIOUS
<1> USE DEF TypeOK, Goto, Return, Phases, Record
<1>0. MaxCalls \in Nat
  BY JournalFileAssumption
<1>1. ASSUME NEW p \in Proc, Step(p) PROVE TypeOK'
  <2> USE <1>0
  <2>1. CASE Begin(p)
    BY <2>1 DEF Begin
  <2>2. CASE Create(p)
    BY <2>2 DEF Create, LockFile
  <2>3. CASE CreateExists(p) \/ Wait(p)
    BY <2>3 DEF CreateExists, Wait
  <2>4. CASE CreateFails(p) \/ PruneGivesUp(p)
    <3>1. CASE PruneGivesUp(p)
      BY <3>1 DEF PruneGivesUp
    <3>2. ASSUME CreateFails(p), op[p] = "append" PROVE TypeOK'
      BY <3>2 DEF CreateFails
    <3>3. ASSUME CreateFails(p), op[p] # "append" PROVE TypeOK'
      BY <3>3 DEF CreateFails
    <3> QED BY <2>4, <3>1, <3>2, <3>3
  <2>5. CASE AppendGivesUp(p)
    BY <2>5 DEF AppendGivesUp
  <2>6. CASE Stat(p)
    BY <2>6 DEF Stat
  <2>7. CASE StealRename(p)
    BY <2>7 DEF StealRename
  <2>8. CASE StealDiscard(p)
    BY <2>8 DEF StealDiscard
  <2>9. CASE StealRestore(p)
    BY <2>9 DEF StealRestore
  <2>10. CASE Append(p)
    BY <2>10 DEF Append
  <2>11. CASE RewriteFails(p)
    BY <2>11 DEF RewriteFails
  <2>12. CASE AppendFails(p)
    BY <2>12 DEF AppendFails
  <2>13. CASE Unlock(p)
    BY <2>13 DEF Unlock
  <2>14. CASE Gate(p)
    <3>1. CASE Cardinality(file) > PruneTrigger
      BY <2>14, <3>1 DEF Gate
    <3>2. CASE ~ (Cardinality(file) > PruneTrigger)
      BY <2>14, <3>2 DEF Gate
    <3> QED BY <3>1, <3>2
  <2>15. CASE Read(p)
    BY <2>15 DEF Read
  <2>16. CASE Rewrite(p)
    BY <2>16 DEF Rewrite
  <2> QED BY <1>1, <2>1, <2>2, <2>3, <2>4, <2>5, <2>6, <2>7, <2>8,
             <2>9, <2>10, <2>11, <2>12, <2>13, <2>14, <2>15, <2>16 DEF Step
<1>2. ASSUME NEW p \in Proc, Crash(p) PROVE TypeOK'
  BY <1>0, <1>2 DEF Crash
<1>3. ASSUME NEW r \in Record, Expire(r) PROVE TypeOK'
  BY <1>0, <1>3 DEF Expire
<1>4. CASE AgeLock
  BY <1>4 DEF AgeLock, Abandoned, LockFile
<1>5. ASSUME NEW p \in Proc, DeadlinePasses(p) PROVE TypeOK'
  BY <1>5 DEF DeadlinePasses
<1>6. CASE UNCHANGED vars
  BY <1>6 DEF vars
<1> QED BY <1>1, <1>2, <1>3, <1>4, <1>5, <1>6 DEF Next

(* The lock file, the stolen locks and the records of every process keep their *)
(* shape after any crash, theft and failure; a process that inspects what it   *)
(* renamed away has renamed something (stealStaleLock).                        *)
THEOREM JournalTypeCorrect == Spec => []TypeOK
<1>1. Init => TypeOK
  BY JournalFileAssumption DEF Init, TypeOK, Phases, Record
<1> QED BY <1>1, TypeStep, PTL DEF Spec

-----------------------------------------------------------------------------
(* Crashes, slow holders and locks that cannot be created *)

(* No process renames the live lock of another away in the belief that it is   *)
(* the stale one its stat found.                                               *)
StealsStale == \A p \in Proc : StealRename(p) => lock = None \/ lock.age = 2

(* Whoever holds the lock has a fresh file of its own at the path, and only a  *)
(* holder compacts; a lock that was stolen was stale.                          *)
HoldersLock ==
    \A p \in Proc :
       /\ holds[p] => lock # None /\ lock.by = p /\ lock.age = 0 /\ pc[p] \in Locked
       /\ pc[p] \in {"read", "rewrite"} => holds[p]
       /\ pc[p] = "inspect" => stolen[p].age = 2

CrashInv == TypeOK /\ HoldersLock /\ SnapIsFile

LEMMA LockedAlone ==
    ASSUME HoldersLock, NEW p \in Proc, NEW q \in Proc, holds[p], holds[q]
    PROVE  p = q
BY DEF HoldersLock

LEMMA CrashStep ==
    ASSUME CrashInv, [Next]_vars, [StealsStale]_vars
    PROVE  CrashInv'
<1> USE DEF Goto, Return, Phases, Acquiring, Locked
<1>0. TypeOK /\ HoldersLock /\ SnapIsFile
  BY DEF CrashInv
<1>1. TypeOK'
  BY <1>0, TypeStep
<1>2. ASSUME NEW p \in Proc, Step(p) PROVE HoldersLock' /\ SnapIsFile'
  <2> USE <1>0
  <2>1. CASE Begin(p) \/ CreateExists(p) \/ Wait(p) \/ Stat(p)
    <3>1. HoldersLock'
      BY <2>1 DEF Begin, CreateExists, Wait, Stat, TypeOK, HoldersLock
    <3>2. SnapIsFile'
      BY <2>1 DEF Begin, CreateExists, Wait, Stat, TypeOK, SnapIsFile
    <3> QED BY <3>1, <3>2
  <2>2. CASE PruneGivesUp(p) \/ AppendGivesUp(p) \/ CreateFails(p)
    <3>1. HoldersLock'
      BY <2>2 DEF PruneGivesUp, AppendGivesUp, CreateFails, TypeOK, HoldersLock
    <3>2. SnapIsFile'
      BY <2>2 DEF PruneGivesUp, AppendGivesUp, CreateFails, TypeOK, SnapIsFile
    <3> QED BY <3>1, <3>2
  <2>3. CASE Create(p)
    <3>a. [by |-> p, call |-> rec[p], age |-> 0] \in LockFile
      BY DEF LockFile, TypeOK
    <3>1. [by |-> p, call |-> rec[p], age |-> 0] # None
      BY <3>a, JournalFileAssumption
    <3>2. \A q \in Proc : ~ holds[q]
      BY <2>3 DEF Create, HoldersLock
    <3>3. HoldersLock'
      BY <2>3, <3>1, <3>2 DEF Create, TypeOK, HoldersLock
    <3>4. SnapIsFile'
      BY <2>3 DEF Create, TypeOK, SnapIsFile
    <3> QED BY <3>3, <3>4
  <2>4. CASE StealRename(p)
    <3>1. lock = None \/ lock.age = 2
      <4>1. CASE StealsStale
        BY <2>4, <4>1 DEF StealsStale
      <4>2. CASE UNCHANGED vars
        BY <2>4, <4>2 DEF StealRename, vars, TypeOK
      <4> QED BY <4>1, <4>2
    <3>2. \A q \in Proc : ~ holds[q]
      BY <3>1 DEF HoldersLock
    <3>3. HoldersLock'
      BY <2>4, <3>1, <3>2 DEF StealRename, TypeOK, HoldersLock
    <3>4. SnapIsFile'
      BY <2>4 DEF StealRename, TypeOK, SnapIsFile
    <3> QED BY <3>3, <3>4
  <2>5. CASE StealDiscard(p) \/ StealRestore(p)
    <3>1. HoldersLock'
      BY <2>5 DEF StealDiscard, StealRestore, TypeOK, HoldersLock
    <3>2. SnapIsFile'
      BY <2>5 DEF StealDiscard, StealRestore, TypeOK, SnapIsFile
    <3> QED BY <3>1, <3>2
  <2>6. CASE Append(p)
    <3>1. HoldersLock'
      BY <2>6 DEF Append, TypeOK, HoldersLock
    <3>2. holds[p] => \A q \in Proc : pc[q] # "rewrite"
      BY <2>6, LockedAlone DEF Append, HoldersLock
    <3>3. SnapIsFile'
      BY <2>6, <3>2 DEF Append, TypeOK, SnapIsFile
    <3> QED BY <3>1, <3>3
  <2>7. CASE Unlock(p) \/ AppendFails(p)
    <3>1. holds[p] => \A q \in Proc : q # p => ~ holds[q]
      BY LockedAlone
    <3>2. pc[p] \in {"unlock", "append"} /\ pc'[p] \in {"gate", "idle"}
      BY <2>7 DEF Unlock, AppendFails, TypeOK
    <3>3. HoldersLock'
      BY <2>7, <3>1, <3>2 DEF Unlock, AppendFails, TypeOK, HoldersLock
    <3>4. SnapIsFile'
      BY <2>7 DEF Unlock, AppendFails, TypeOK, SnapIsFile
    <3> QED BY <3>3, <3>4
  <2>8. CASE Gate(p) \/ Read(p) \/ RewriteFails(p)
    <3>1. HoldersLock'
      BY <2>8 DEF Gate, Read, RewriteFails, TypeOK, HoldersLock
    <3>2. SnapIsFile'
      BY <2>8 DEF Gate, Read, RewriteFails, TypeOK, SnapIsFile
    <3> QED BY <3>1, <3>2
  <2>9. CASE Rewrite(p)
    <3>1. HoldersLock'
      BY <2>9 DEF Rewrite, TypeOK, HoldersLock
    <3>2. \A q \in Proc : q # p => pc[q] # "rewrite"
      BY <2>9, LockedAlone DEF Rewrite, HoldersLock
    <3>3. SnapIsFile'
      BY <2>9, <3>2 DEF Rewrite, TypeOK, SnapIsFile
    <3> QED BY <3>1, <3>3
  <2> QED BY <1>2, <2>1, <2>2, <2>3, <2>4, <2>5, <2>6, <2>7, <2>8, <2>9 DEF Step
<1>3. ASSUME NEW p \in Proc, Crash(p) PROVE HoldersLock' /\ SnapIsFile'
  BY <1>0, <1>3 DEF Crash, TypeOK, HoldersLock, SnapIsFile
<1>4. ASSUME NEW r \in Record, Expire(r) PROVE HoldersLock' /\ SnapIsFile'
  BY <1>0, <1>4 DEF Expire, TypeOK, HoldersLock, SnapIsFile
<1>5. ASSUME AgeLock PROVE HoldersLock' /\ SnapIsFile'
  <2>1. \A q \in Proc : ~ holds[q]
    BY <1>0, <1>5 DEF AgeLock, Abandoned, HoldersLock
  <2>2. HoldersLock'
    BY <1>0, <1>5, <2>1 DEF AgeLock, HoldersLock
  <2>3. SnapIsFile'
    BY <1>0, <1>5 DEF AgeLock, SnapIsFile
  <2> QED BY <2>2, <2>3
<1>6. ASSUME NEW p \in Proc, DeadlinePasses(p) PROVE HoldersLock' /\ SnapIsFile'
  BY <1>0, <1>6 DEF DeadlinePasses, HoldersLock, SnapIsFile
<1>7. ASSUME UNCHANGED vars PROVE HoldersLock' /\ SnapIsFile'
  BY <1>0, <1>7 DEF vars, HoldersLock, SnapIsFile
<1>8. HoldersLock' /\ SnapIsFile'
  <2>1. CASE Next
    BY <1>2, <1>3, <1>4, <1>5, <1>6, <2>1 DEF Next
  <2> QED BY <1>7, <2>1
<1> QED BY <1>1, <1>8 DEF CrashInv

(* However many processes there are, however many die, are slow or cannot create  *)
(* the lock, and wherever: the file behaves as the abstract journal, which loses  *)
(* expired records and records that were appended without the lock, as long as no *)
(* stealing process renames a lock that somebody made since its stat, the window  *)
(* stealStaleLock accepts.                                                        *)
THEOREM OnlyFreshTheftLoses == Spec /\ [][StealsStale]_vars => RefinesJournal
<1>1. Init => J!Init /\ CrashInv
  <2>1. Init => TypeOK
    BY JournalFileAssumption DEF Init, TypeOK, Phases, Record
  <2>2. Init => HoldersLock /\ SnapIsFile
    BY DEF Init, HoldersLock, SnapIsFile
  <2> QED BY <2>1, <2>2, InitRefines DEF CrashInv
<1>2. CrashInv /\ [Next]_vars /\ [StealsStale]_vars => CrashInv'
  BY CrashStep
<1>3. CrashInv /\ [Next]_vars => [J!Next]_<<file, old, bare>>
  BY StepRefines DEF CrashInv, TypeOK
<1> QED BY <1>1, <1>2, <1>3, PTL DEF Spec, RefinesJournal, J!Spec
=============================================================================
