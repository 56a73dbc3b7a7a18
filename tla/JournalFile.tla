----------------------------- MODULE JournalFile -----------------------------
(***************************************************************************)
(* How CLI processes share the file broadcasts.jsonl: appendRecord and     *)
(* pruneJournal of agent/broadcastJournal.ts, and the lock file between    *)
(* them (acquireJournalLock, stealStaleLock), one file system call per     *)
(* action.  A lock file carries its age against JOURNAL_LOCK_STALE_MS and, *)
(* for the properties and the clock, the process and the call it is from.  *)
(***************************************************************************)
EXTENDS Naturals, FiniteSets

CONSTANTS
    Proc,         \* CLI processes
    MaxCalls,     \* bound on the calls of appendRecord
    None,         \* no lock file
    PruneTrigger, \* PRUNE_TRIGGER_BYTES, in records
    MaxCrashes,   \* bound on the crashes
    Faults        \* which of "stuck", "slow", "fs" may happen

Record == 0 .. MaxCalls   \* one per call, and a line of an earlier day

LockFile == [by : Proc, call : Record, age : 0 .. 2]   \* 2 is stale

ASSUME JournalFileAssumption ==
    /\ None \notin LockFile
    /\ MaxCalls \in Nat /\ PruneTrigger \in Nat /\ MaxCrashes \in Nat
    /\ Faults \subseteq {"stuck", "slow", "fs"}

VARIABLES
    file,    \* the records in broadcasts.jsonl
    old,     \* records whose ts is past the retention horizon
    lock,    \* the file broadcasts.jsonl.wlock
    stolen,  \* the private name a process renamed a lock to
    pc,      \* where each process is
    op,      \* whether it appends or prunes
    rec,     \* the record it appends
    holds,   \* whether it has a release function
    cut,     \* the records its cutoff will drop
    snap,    \* the lines it kept
    crashes, \* how many processes died so far
    late,    \* processes whose wait for the lock is past its deadline
    bare,    \* records that were appended without the lock
    begun    \* how many calls there were

vars == <<file, old, lock, stolen, pc, op, rec, holds, cut, snap, crashes, late, bare, begun>>

Phases == {"idle", "create", "stat", "rename", "inspect", "wait",
           "append", "read", "rewrite", "unlock", "gate"}
Acquiring == {"create", "stat", "rename", "inspect", "wait"}

Init ==
    /\ file = {0} /\ old \in {{}, {0}}
    /\ lock = None
    /\ stolen = [p \in Proc |-> None]
    /\ pc = [p \in Proc |-> "idle"]
    /\ op = [p \in Proc |-> "append"]
    /\ rec = [p \in Proc |-> 0]
    /\ holds = [p \in Proc |-> FALSE]
    /\ cut = [p \in Proc |-> {}]
    /\ snap = [p \in Proc |-> {}]
    /\ crashes = 0
    /\ late = {} /\ bare = {} /\ begun = 0

Goto(p, label) == pc' = [pc EXCEPT ![p] = label]

(* The call returns, or its process dies: its local variables are gone. *)
Return(p) ==
    /\ Goto(p, "idle")
    /\ op' = [op EXCEPT ![p] = "append"]
    /\ rec' = [rec EXCEPT ![p] = 0]
    /\ cut' = [cut EXCEPT ![p] = {}]
    /\ snap' = [snap EXCEPT ![p] = {}]

(* appendRecord is called, with a record of its own. *)
Begin(p) ==
    /\ pc[p] = "idle"
    /\ begun < MaxCalls
    /\ begun' = begun + 1
    /\ rec' = [rec EXCEPT ![p] = begun']
    /\ Goto(p, "create")
    /\ UNCHANGED <<file, old, lock, stolen, op, holds, cut, snap, crashes, late, bare>>

-----------------------------------------------------------------------------
(* acquireJournalLock *)

(* open(path, 'wx') succeeds. *)
Create(p) ==
    /\ pc[p] = "create"
    /\ lock = None
    /\ lock' = [by |-> p, call |-> rec[p], age |-> 0]
    /\ holds' = [holds EXCEPT ![p] = TRUE]
    /\ Goto(p, IF op[p] = "append" THEN "append" ELSE "read")
    /\ late' = late \ {p}
    /\ UNCHANGED <<file, old, stolen, op, rec, cut, snap, crashes, bare, begun>>

(* ... or fails with EEXIST. *)
CreateExists(p) ==
    /\ pc[p] = "create"
    /\ lock # None
    /\ Goto(p, "stat")
    /\ UNCHANGED <<file, old, lock, stolen, op, rec, holds, cut, snap, crashes, late, bare, begun>>

(* ... or fails for another reason: a prune is skipped, an append proceeds *)
(* without the lock.                                                       *)
CreateFails(p) ==
    /\ "stuck" \in Faults
    /\ pc[p] = "create"
    /\ IF op[p] = "append"
       THEN Goto(p, "append") /\ UNCHANGED <<op, rec, cut, snap>>
       ELSE Return(p)
    /\ late' = late \ {p}
    /\ UNCHANGED <<file, old, lock, stolen, holds, crashes, bare, begun>>

(* The file is there and its mtime is past the limit. *)
Stale == lock # None /\ lock.age = 2

(* statSync finds the lock gone (retry the create), stale (steal it) or    *)
(* fresh (wait).                                                           *)
Stat(p) ==
    /\ pc[p] = "stat"
    /\ \/ lock = None /\ Goto(p, "create")
       \/ Stale /\ Goto(p, "rename")
       \/ lock # None /\ ~ Stale /\ Goto(p, "wait")
    /\ UNCHANGED <<file, old, lock, stolen, op, rec, holds, cut, snap, crashes, late, bare, begun>>

(* Variant of StealRename: a rename that fails is taken for a success. *)
StealRenameUnchecked(p) ==
    /\ pc[p] = "rename"
    /\ stolen' = [stolen EXCEPT ![p] = lock]
    /\ lock' = None
    /\ Goto(p, "inspect")
    /\ UNCHANGED <<file, old, op, rec, holds, cut, snap, crashes, late, bare, begun>>

(* stealStaleLock: rename whatever is at the path to a private name. *)
StealRename(p) ==
    /\ pc[p] = "rename"
    /\ stolen' = [stolen EXCEPT ![p] = lock]
    /\ lock' = None
    /\ Goto(p, IF lock = None THEN "create" ELSE "inspect")
    /\ UNCHANGED <<file, old, op, rec, holds, cut, snap, crashes, late, bare, begun>>

(* ... look at its mtime again, and remove it if it was stale ... *)
StealDiscard(p) ==
    /\ pc[p] = "inspect"
    /\ stolen[p].age = 2
    /\ stolen' = [stolen EXCEPT ![p] = None]
    /\ Goto(p, "create")
    /\ UNCHANGED <<file, old, lock, op, rec, holds, cut, snap, crashes, late, bare, begun>>

(* ... or rename it back, over whatever is there now. *)
StealRestore(p) ==
    /\ pc[p] = "inspect"
    /\ stolen[p].age < 2
    /\ lock' = stolen[p]
    /\ stolen' = [stolen EXCEPT ![p] = None]
    /\ Goto(p, "wait")
    /\ UNCHANGED <<file, old, op, rec, holds, cut, snap, crashes, late, bare, begun>>

(* The lock belongs to nobody who could release it. *)
Abandoned == lock # None /\ ~ holds[lock.by]

(* A call's deadline passes: APPEND_LOCK_WAIT_MS, two seconds, while a lock *)
(* that a dead process left stays for JOURNAL_LOCK_STALE_MS, thirty.  A     *)
(* live holder is done before that, unless it is "slow"; PRUNE_LOCK_WAIT_MS *)
(* is half a second, and may pass behind any holder.                        *)
DeadlinePasses(p) ==
    /\ pc[p] \in Acquiring /\ p \notin late
    /\ Abandoned \/ op[p] = "prune" \/ "slow" \in Faults
    /\ late' = late \cup {p}
    /\ UNCHANGED <<file, old, lock, stolen, pc, op, rec, holds, cut, snap, crashes, bare, begun>>

(* The deadline has not passed: sleep and try again. *)
Wait(p) ==
    /\ pc[p] = "wait" /\ p \notin late
    /\ Goto(p, "create")
    /\ UNCHANGED <<file, old, lock, stolen, op, rec, holds, cut, snap, crashes, late, bare, begun>>

(* The deadline has passed: a prune is skipped ... *)
PruneGivesUp(p) ==
    /\ pc[p] = "wait" /\ p \in late /\ op[p] = "prune"
    /\ Return(p)
    /\ late' = late \ {p}
    /\ UNCHANGED <<file, old, lock, stolen, holds, crashes, bare, begun>>

(* Variant of AppendGivesUp: the deadline is not looked at. *)
AppendWaitsOn(p) ==
    /\ pc[p] = "wait" /\ p \in late /\ op[p] = "append"
    /\ Goto(p, "create")
    /\ UNCHANGED <<file, old, lock, stolen, op, rec, holds, cut, snap, crashes, late, bare, begun>>

(* ... and an append proceeds without the lock. *)
AppendGivesUp(p) ==
    /\ pc[p] = "wait" /\ p \in late /\ op[p] = "append"
    /\ Goto(p, "append")
    /\ late' = late \ {p}
    /\ UNCHANGED <<file, old, lock, stolen, op, rec, holds, cut, snap, crashes, bare, begun>>

-----------------------------------------------------------------------------
(* appendRecord and pruneJournal under the lock *)

Append(p) ==
    /\ pc[p] = "append"
    /\ file' = file \cup {rec[p]}
    /\ Goto(p, "unlock")
    /\ bare' = IF holds[p] THEN bare ELSE bare \cup {rec[p]}
    /\ UNCHANGED <<old, lock, stolen, op, rec, holds, cut, snap, crashes, late, begun>>

(* appendFileSync throws: the lock is released, the error logged. *)
AppendFails(p) ==
    /\ "fs" \in Faults
    /\ pc[p] = "append"
    /\ lock' = IF holds[p] THEN None ELSE lock
    /\ holds' = [holds EXCEPT ![p] = FALSE]
    /\ Return(p)
    /\ UNCHANGED <<file, old, stolen, crashes, late, bare, begun>>

(* The release function: unlink the path, whoever's lock is there. *)
Unlock(p) ==
    /\ pc[p] = "unlock"
    /\ lock' = IF holds[p] THEN None ELSE lock
    /\ holds' = [holds EXCEPT ![p] = FALSE]
    /\ IF op[p] = "append"
       THEN Goto(p, "gate") /\ UNCHANGED <<op, rec, cut, snap>>
       ELSE Return(p)
    /\ UNCHANGED <<file, old, stolen, crashes, late, bare, begun>>

(* Variant of Gate: the compaction reads before it takes the lock. *)
GateReads(p) ==
    /\ pc[p] = "gate"
    /\ IF Cardinality(file) > PruneTrigger
       THEN /\ op' = [op EXCEPT ![p] = "prune"]
            /\ cut' = [cut EXCEPT ![p] = old]
            /\ snap' = [snap EXCEPT ![p] = file \ old]
            /\ Goto(p, "rewrite")
            /\ UNCHANGED rec
       ELSE Return(p)
    /\ UNCHANGED <<file, old, lock, stolen, holds, crashes, late, bare, begun>>

(* maybePruneJournal, and the cutoff pruneJournal computes first. *)
Gate(p) ==
    /\ pc[p] = "gate"
    /\ IF Cardinality(file) > PruneTrigger
       THEN /\ op' = [op EXCEPT ![p] = "prune"]
            /\ cut' = [cut EXCEPT ![p] = old]
            /\ Goto(p, "create")
            /\ UNCHANGED <<rec, snap>>
       ELSE Return(p)
    /\ UNCHANGED <<file, old, lock, stolen, holds, crashes, late, bare, begun>>

(* Read the lines and keep those within the retention; with nothing to     *)
(* prune the file is left alone.                                           *)
Read(p) ==
    /\ pc[p] = "read"
    /\ snap' = [snap EXCEPT ![p] = file \ cut[p]]
    /\ Goto(p, IF file \cap cut[p] = {} THEN "unlock" ELSE "rewrite")
    /\ UNCHANGED <<file, old, lock, stolen, op, rec, holds, cut, crashes, late, bare, begun>>

(* rename(tmp, path): the kept lines replace the file. *)
Rewrite(p) ==
    /\ pc[p] = "rewrite"
    /\ file' = snap[p]
    /\ Goto(p, "unlock")
    /\ UNCHANGED <<old, lock, stolen, op, rec, holds, cut, snap, crashes, late, bare, begun>>

(* Writing or renaming the temporary file fails: nothing has changed. *)
RewriteFails(p) ==
    /\ "fs" \in Faults
    /\ pc[p] = "rewrite"
    /\ Goto(p, "unlock")
    /\ UNCHANGED <<file, old, lock, stolen, op, rec, holds, cut, snap, crashes, late, bare, begun>>

-----------------------------------------------------------------------------
(* The process dies; the lock file stays where it is. *)
Crash(p) ==
    /\ crashes < MaxCrashes
    /\ pc[p] # "idle"
    /\ crashes' = crashes + 1
    /\ Return(p)
    /\ holds' = [holds EXCEPT ![p] = FALSE]
    /\ stolen' = [stolen EXCEPT ![p] = None]
    /\ late' = late \ {p}
    /\ UNCHANGED <<file, old, lock, bare, begun>>

(* A record passes the retention horizon, the oldest first.  That is an     *)
(* hour after its call: the call is over, and a lock it left has long aged. *)
Expire(r) ==
    /\ r \in (0 .. begun) \ old
    /\ \A s \in 0 .. begun : s < r => s \in old
    /\ \A p \in Proc : pc[p] # "idle" => rec[p] > r
    /\ lock # None /\ lock.age < 2 => lock.call > r
    /\ old' = old \cup {r}
    /\ UNCHANGED <<file, lock, stolen, pc, op, rec, holds, cut, snap, crashes, late, bare, begun>>

(* A lock file ages.  A holder is done in less than a second, so that happens *)
(* only to a lock without a holder.  The second step is JOURNAL_LOCK_STALE_MS, *)
(* thirty seconds; the first, after two, has seen the end of every call that  *)
(* was waiting when the holder died.                                          *)
AgeLock ==
    /\ Abandoned
    /\ lock.age < 2
    /\ lock.age = 0 => \A p \in Proc : pc[p] = "idle"
    /\ lock' = [lock EXCEPT !.age = @ + 1]
    /\ UNCHANGED <<file, old, stolen, pc, op, rec, holds, cut, snap, crashes, late, bare, begun>>

(* What a process does by itself. *)
Step(p) ==
    \/ Begin(p) \/ Create(p) \/ CreateExists(p) \/ CreateFails(p) \/ Stat(p)
    \/ StealRename(p) \/ StealDiscard(p) \/ StealRestore(p)
    \/ Wait(p) \/ PruneGivesUp(p) \/ AppendGivesUp(p)
    \/ Append(p) \/ AppendFails(p) \/ Unlock(p) \/ Gate(p) \/ Read(p) \/ Rewrite(p) \/ RewriteFails(p)

Next ==
    \/ \E p \in Proc : Step(p) \/ DeadlinePasses(p) \/ Crash(p)
    \/ \E r \in Record : Expire(r)
    \/ AgeLock

Spec == Init /\ [][Next]_vars

(* A process keeps running until it returns or dies, and time passes. *)
Fairness ==
    \A p \in Proc : /\ WF_vars(pc[p] # "idle" /\ Step(p))
                    /\ WF_vars(DeadlinePasses(p))
FairSpec == Spec /\ Fairness

-----------------------------------------------------------------------------
(* Properties *)

(* Every variable stays in its domain, a process inspecting a stolen lock  *)
(* has one, and a process past the lock knows whether it holds it.         *)
TypeOK ==
    /\ file \subseteq Record /\ old \subseteq Record
    /\ lock \in LockFile \cup {None}
    /\ stolen \in [Proc -> LockFile \cup {None}]
    /\ pc \in [Proc -> Phases]
    /\ op \in [Proc -> {"append", "prune"}]
    /\ rec \in [Proc -> Record]
    /\ holds \in [Proc -> BOOLEAN]
    /\ cut \in [Proc -> SUBSET Record]
    /\ snap \in [Proc -> SUBSET Record]
    /\ crashes \in Nat
    /\ late \subseteq Proc /\ bare \subseteq Record /\ begun \in 0 .. MaxCalls
    /\ \A p \in Proc : pc[p] = "inspect" => stolen[p] # None

(* The file behaves as the abstract journal: a record within the retention *)
(* can be lost only if it was appended without the lock.                   *)
J == INSTANCE Journal WITH Record <- Record, file <- file, old <- old, bare <- bare
RefinesJournal == J!Spec

(* "A concurrent append is never clobbered" (pruneJournal, appendRecord): *)
(* a record that is in the file stays there until it expires.             *)
NeverClobbered == [][\A r \in file : r \in file' \/ r \in old]_vars

(* A call of appendRecord returns, whatever the other processes and a lock *)
(* left by a dead one do: the wait for the lock is bounded.                *)
EveryCallReturns == \A p \in Proc : pc[p] # "idle" ~> pc[p] = "idle"

=============================================================================
