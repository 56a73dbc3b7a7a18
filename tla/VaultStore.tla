----------------------------- MODULE VaultStore -----------------------------
(***************************************************************************)
(* One vault in the storage, and the objects that edit it: VaultBase of    *)
(* sdk/src/vault/VaultBase.ts (edit, save, load) and VaultManager of       *)
(* sdk/src/VaultManager.ts (open, import, delete), in several processes.   *)
(* A field's value is the number of the edit that wrote it.                *)
(***************************************************************************)
EXTENDS FileStorage, Sequences

CONSTANTS
    Host,       \* processes, each with one Storage object
    Placements, \* on which host each instance may live
    Meta,       \* MERGEABLE_VAULT_FIELDS
    Id,         \* the id of the vault, as activeVaultId holds it
    MaxEvents,  \* bound on edits, imports and crashes together
    MaxLives,   \* bound on how often the record is created
    MaxQueue    \* bound on the saves one instance has under way

Keys == "keys" \* the fields that mergeMetadata never merges: the key shares
Fields == Meta \cup {Keys}
Edits == 0..MaxEvents
Data == [Fields -> Edits]

(* life counts, for the properties only, how often the record was created. *)
Stored == [rev : Nat, data : Data, life : Nat]

Save == [data : Data, merge : BOOLEAN, edited : SUBSET Fields, alone : BOOLEAN]

ASSUME VaultStoreAssumption ==
    /\ Placements \subseteq [Client -> Host]
    /\ Keys \notin Meta
    /\ None \notin Client /\ None \notin Stored /\ None \notin Nat /\ Id # None
    /\ {MaxEvents, MaxLives, MaxQueue} \subseteq Nat

VARIABLES
    host,    \* the process of each instance
    inst,    \* each instance, or the import or deletion in its place
    edits,   \* how many edits there were
    lives,   \* how many times the record was created
    deleted, \* whether a deletion was ever asked for
    crashes  \* how many processes died

vars == <<storageVars, host, inst, edits, lives, deleted, crashes>>

VaultKey == "vault"
ActiveKey == "activeVaultId"
Pristine == [f \in Fields |-> 0]

Works == {"none", "open", "saving", "importing", "pointing", "deleting", "clearing"}

(* now: vaultData with the runtime fields; base: persistedVaultData, None   *)
(* without a persisted record; dirty: the fields edited since now was last  *)
(* taken from the storage; saves: saveQueue, with the snapshot each save    *)
(* took when it was called.                                                 *)
Instance == [doing : Works, now : Data, base : Stored \cup {None},
             dirty : SUBSET Fields, saves : Seq(Save)]

Nothing == [doing |-> "none", now |-> Pristine, base |-> None, dirty |-> {}, saves |-> <<>>]

Is(i, work) == inst[i].doing = work

Values(key) == IF key = VaultKey THEN Stored \cup {None} ELSE {Id, None}
Value == Stored \cup {Id, None}

Requests(key) == [key : {key}, check : BOOLEAN, old : Value, new : Values(key)]
Call == [req : Requests(VaultKey) \cup Requests(ActiveKey) \cup {NoCall.req},
         at : Stages, answer : Answers]

TypeOK ==
    /\ disk \in [{VaultKey, ActiveKey} -> Value]
    /\ \A key \in {VaultKey, ActiveKey} : disk[key] \in Values(key)
    /\ flock \in Client \cup {None}
    /\ call \in [Client -> Call]
    /\ host \in [Client -> Host]
    /\ inst \in [Client -> Instance]
    /\ \A i \in Client : Is(i, "none") => inst[i] = Nothing
    /\ edits \in Edits /\ lives \in Nat /\ deleted \in BOOLEAN /\ crashes \in Nat

Init ==
    /\ \/ /\ disk = [k \in {VaultKey, ActiveKey} |->
                       IF k = ActiveKey THEN Id
                       ELSE [rev |-> 1, data |-> Pristine, life |-> 1]]
          /\ lives = 1
       \/ /\ disk = [k \in {VaultKey, ActiveKey} |-> None]
          /\ lives = 0
    /\ flock = None
    /\ call = [i \in Client |-> NoCall]
    /\ host \in Placements
    /\ inst = [i \in Client |-> Nothing]
    /\ edits = 0 /\ deleted = FALSE /\ crashes = 0

record == disk[VaultKey]

Busy(i) == Is(i, "saving") \/ Is(i, "importing")
Becomes(i, new) == inst' = [inst EXCEPT ![i] = new]
Calls(i, req) == call' = [call EXCEPT ![i] = Started(req)] /\ UNCHANGED <<disk, flock>>
Hangs(i) == call' = [call EXCEPT ![i] = NoCall] /\ UNCHANGED <<disk, flock>>

-----------------------------------------------------------------------------
(* Opening and editing *)

(* restorePersistedVaultData and syncRuntimeFromVaultData. *)
Restored(v, r) == [v EXCEPT !.now = r.data, !.base = r, !.dirty = {}]

(* getVaultById: a new instance on the stored record. *)
Open(i) ==
    /\ Is(i, "none") /\ record # None
    /\ Becomes(i, [Restored(Nothing, record) EXCEPT !.doing = "open"])
    /\ UNCHANGED <<storageVars, host, edits, lives, deleted, crashes>>

(* load(), possible while saves are under way: they are no longer alone. *)
Load(i) ==
    /\ Is(i, "open") \/ Is(i, "saving")
    /\ record # None
    /\ Becomes(i, [Restored(inst[i], record) EXCEPT
                     !.saves = [n \in DOMAIN @ |-> [@[n] EXCEPT !.alone = FALSE]]])
    /\ UNCHANGED <<storageVars, host, edits, lives, deleted, crashes>>

(* The application drops an instance that has no save under way. *)
Abandon(i) ==
    /\ Is(i, "open") /\ inst[i].saves = <<>>
    /\ Becomes(i, Nothing)
    /\ UNCHANGED <<storageVars, host, edits, lives, deleted, crashes>>

(* save(): the snapshot of the instance joins the queue. *)
Queued(v, merge) ==
    [v EXCEPT !.saves = Append(@, [data |-> v.now, merge |-> merge, edited |-> v.dirty,
                                   alone |-> @ = <<>>])]

Edited(v, f) == [v EXCEPT !.now[f] = edits + 1, !.dirty = @ \cup {f}]

(* rename, setCurrency, setChains, addPostQuantumKeys: change and save. *)
Edit(i, f) ==
    /\ Is(i, "open") \/ Is(i, "saving")
    /\ Len(inst[i].saves) < MaxQueue /\ edits + crashes < MaxEvents
    /\ edits' = edits + 1
    /\ Becomes(i, Queued(Edited(inst[i], f), FALSE))
    /\ UNCHANGED <<storageVars, host, lives, deleted, crashes>>

(* After a conflict: save({ conflictStrategy: 'merge-metadata' }). *)
SaveMerging(i) ==
    /\ Is(i, "open") /\ inst[i].saves = <<>> /\ inst[i].dirty # {}
    /\ Becomes(i, Queued(inst[i], TRUE))
    /\ UNCHANGED <<storageVars, host, edits, lives, deleted, crashes>>

-----------------------------------------------------------------------------
(* saveUnlocked *)

Revision(r) == IF r = None THEN None ELSE r.rev

(* mergeMetadata: both sides may have changed a field only to one value, *)
(* and the caller no key share.                                          *)
Mergeable(old, local, current) ==
    /\ local[Keys] = old[Keys]
    /\ \A f \in Meta : local[f] \in {old[f], current[f]} \/ current[f] = old[f]

(* Variant of Merged: every field as the caller has it. *)
MergedWhole(old, local, current) == local

Merged(old, local, current) ==
    [f \in Fields |-> IF f \in Meta /\ local[f] # old[f] THEN local[f] ELSE current[f]]

(* Variant of Revises: a record that is gone is no conflict. *)
RevisesOrGone(i) == record = None \/ Revision(inst[i].base) = Revision(record)

(* saveUnlocked compares revisions only. *)
Revises(i) == Revision(inst[i].base) = Revision(record)

Merges(i, save) ==
    /\ save.merge /\ inst[i].base # None /\ record # None
    /\ Mergeable(inst[i].base.data, save.data, record.data)

NextData(i, save) ==
    IF Revises(i) THEN save.data ELSE Merged(inst[i].base.data, save.data, record.data)

(* Variant of NextRevision: the count goes on from the caller's baseline. *)
NextRevisionOfCaller(i) == IF inst[i].base = None THEN 1 ELSE inst[i].base.rev + 1

NextRevision(i) == IF record = None THEN 1 ELSE record.rev + 1

NextRecord(i, save) ==
    [rev |-> NextRevision(i), data |-> NextData(i, save),
     life |-> IF record = None THEN lives + 1 ELSE record.life]

(* withStorageWriteLock: one save at a time on this Storage object. *)
KeyQueueFree(i) == \A j \in Client : host[j] = host[i] /\ Busy(j) => At(j, "idle")

NextSave(i) == Head(inst[i].saves)

(* The record is read, passes the comparison with the baseline and is *)
(* handed to compareAndSet.                                           *)
SaveReads(i) ==
    /\ Is(i, "open") \/ Is(i, "importing")
    /\ inst[i].saves # <<>> /\ At(i, "idle") /\ KeyQueueFree(i)
    /\ Revises(i) \/ Merges(i, NextSave(i))
    /\ Calls(i, CompareAndSet(VaultKey, record, NextRecord(i, NextSave(i))))
    /\ lives' = IF record = None THEN lives + 1 ELSE lives
    /\ Becomes(i, [inst[i] EXCEPT !.doing = IF @ = "open" THEN "saving" ELSE @])
    /\ UNCHANGED <<host, edits, deleted, crashes>>

(* Variant of Failed: a failed import leaves its save behind. *)
FailedUnclean(v) ==
    IF v.doing = "importing" THEN [v EXCEPT !.doing = "none"]
    ELSE [v EXCEPT !.doing = "open", !.saves = Tail(@)]

(* Variant of Failed: the queue stays behind the save that failed. *)
FailedKept(v) == IF v.doing = "importing" THEN Nothing ELSE [v EXCEPT !.doing = "open"]

(* The save rejects and the queue goes on; a failed import has no instance. *)
Failed(v) ==
    IF v.doing = "importing" THEN Nothing
    ELSE [v EXCEPT !.doing = "open", !.saves = Tail(@)]

(* VaultConflictError before anything is written. *)
SaveConflicts(i) ==
    /\ Is(i, "open") \/ Is(i, "importing")
    /\ inst[i].saves # <<>> /\ At(i, "idle") /\ KeyQueueFree(i)
    /\ ~ Revises(i) /\ ~ Merges(i, NextSave(i))
    /\ Becomes(i, Failed(inst[i]))
    /\ UNCHANGED <<storageVars, host, edits, lives, deleted, crashes>>

(* compareAndSet found another record, or the storage failed. *)
SaveRefused(i) ==
    /\ Busy(i)
    /\ Answered(i, "differs") \/ Answered(i, "failed")
    /\ Becomes(i, Failed(inst[i]))
    /\ Hangs(i)
    /\ UNCHANGED <<host, edits, lives, deleted, crashes>>

(* compareAndSet replaced the record: it is the new baseline and runtime. *)
Committed(i) == [Restored(inst[i], call[i].req.new) EXCEPT !.saves = Tail(@)]

SaveCommitted(i) ==
    /\ Is(i, "saving") /\ Answered(i, "done")
    /\ Becomes(i, [Committed(i) EXCEPT !.doing = "open"])
    /\ Hangs(i)
    /\ UNCHANGED <<host, edits, lives, deleted, crashes>>

-----------------------------------------------------------------------------
(* VaultManager *)

(* importVaultWithResult up to save(). An existing record, which the caller *)
(* asked to replace, is the baseline.                                       *)
Import(i) ==
    /\ Is(i, "none") /\ edits + crashes < MaxEvents
    /\ record = None => lives < MaxLives
    /\ edits' = edits + 1
    /\ Becomes(i, Queued([Nothing EXCEPT
            !.doing = "importing", !.base = record, !.dirty = Fields,
            !.now = [f \in Fields |-> edits + 1]], FALSE))
    /\ UNCHANGED <<storageVars, host, lives, deleted, crashes>>

(* Variant of ImportCommitted: a refused save is taken for a committed one. *)
ImportCommittedAnyway(i) ==
    /\ Is(i, "importing") /\ At(i, "done")
    /\ Becomes(i, [Committed(i) EXCEPT !.doing = "pointing"])
    /\ Calls(i, Set(ActiveKey, Id))
    /\ UNCHANGED <<host, edits, lives, deleted, crashes>>

(* The record is durable: set activeVaultId. *)
ImportCommitted(i) ==
    /\ Is(i, "importing") /\ Answered(i, "done")
    /\ Becomes(i, [Committed(i) EXCEPT !.doing = "pointing"])
    /\ Calls(i, Set(ActiveKey, Id))
    /\ UNCHANGED <<host, edits, lives, deleted, crashes>>

(* The import returns its instance, or throws if the pointer cannot be set. *)
ImportReturns(i) ==
    /\ Is(i, "pointing") /\ At(i, "done")
    /\ Becomes(i, IF Answered(i, "done") THEN [inst[i] EXCEPT !.doing = "open"] ELSE Nothing)
    /\ Hangs(i)
    /\ UNCHANGED <<host, edits, lives, deleted, crashes>>

(* deleteVault: look the vault up, remove its record ... *)
Delete(i) ==
    /\ Is(i, "none") /\ record # None
    /\ Becomes(i, [Nothing EXCEPT !.doing = "deleting"])
    /\ Calls(i, Remove(VaultKey))
    /\ deleted' = TRUE
    /\ UNCHANGED <<host, edits, lives, crashes>>

(* ... then the pointer, if it names this vault. *)
DeleteClears(i) ==
    /\ Is(i, "deleting") /\ Answered(i, "done") /\ disk[ActiveKey] = Id
    /\ Becomes(i, [Nothing EXCEPT !.doing = "clearing"])
    /\ Calls(i, Remove(ActiveKey))
    /\ UNCHANGED <<host, edits, lives, deleted, crashes>>

DeleteReturns(i) ==
    /\ \/ Is(i, "clearing") /\ At(i, "done")
       \/ Is(i, "deleting") /\ At(i, "done") /\ (Answered(i, "done") => disk[ActiveKey] # Id)
    /\ Becomes(i, Nothing)
    /\ Hangs(i)
    /\ UNCHANGED <<host, edits, lives, deleted, crashes>>

-----------------------------------------------------------------------------
StorageMoves(i) ==
    StorageStep(i) /\ UNCHANGED <<host, inst, edits, lives, deleted, crashes>>

(* A process dies with its instances. *)
Crash(h) ==
    /\ edits + crashes < MaxEvents
    /\ crashes' = crashes + 1
    /\ LET dead == {i \in Client : host[i] = h} IN
       /\ StorageCrash(dead)
       /\ inst' = [i \in Client |-> IF i \in dead THEN Nothing ELSE inst[i]]
    /\ UNCHANGED <<host, edits, lives, deleted>>

(* What a call that was made does without the caller. *)
Progress(i) ==
    \/ StorageMoves(i)
    \/ SaveReads(i) \/ SaveConflicts(i) \/ SaveCommitted(i) \/ SaveRefused(i)
    \/ ImportCommitted(i) \/ ImportReturns(i)
    \/ DeleteClears(i) \/ DeleteReturns(i)

Request(i) ==
    \/ Open(i) \/ Load(i) \/ Abandon(i)
    \/ SaveMerging(i) \/ Import(i) \/ Delete(i)
    \/ \E f \in Fields : Edit(i, f)

Next ==
    \/ \E i \in Client : Progress(i) \/ Request(i)
    \/ \E h \in Host : Crash(h)

Spec == Init /\ [][Next]_vars

(* Promises, timers and file system calls of a live process go on, and *)
(* withStorageWriteLock serves the saves in the order they came.       *)
FairSpec ==
    /\ Spec
    /\ \A i \in Client : WF_vars(Progress(i)) /\ SF_vars(SaveReads(i) \/ SaveConflicts(i))

-----------------------------------------------------------------------------
(* Properties *)

(* The storage keeps the promise of its interface: whatever crashes, every *)
(* call takes effect at one instant or not at all.                         *)
StorageAtomic == Promise!Spec

(* compareAndSet of the save of i replaces the record. *)
Accepted(i) == Busy(i) /\ At(i, "write") /\ call'[i].answer = "done"

(* BaselinesAgree. Two baselines, or a baseline and the record, with one   *)
(* revision have one content: comparing revisions tells whether the record *)
(* changed (saveUnlocked compares nothing else), as long as the vault was  *)
(* not deleted and imported again in between.                              *)
SameVersion(r, s) == r # None /\ s # None /\ r.rev = s.rev /\ r.life = s.life

Versions == {inst[i].base : i \in Client} \cup {record}

BaselinesAgree == \A r, s \in Versions : SameVersion(r, s) => r = s

(* OnlyOwnEdits. A save that the instance made alone changes no field of    *)
(* the record but those its caller edited: neither a stale instance nor a   *)
(* merge reverts what another process saved.  Excepted are saves called     *)
(* while another save or a load of the same instance was under way, whose   *)
(* snapshot may be older than the baseline they are compared with, and      *)
(* records that were deleted and imported again.                            *)
SameLife(i) == record # None /\ inst[i].base # None /\ inst[i].base.life = record.life

Changed(f) == record'.data[f] # record.data[f]

OnlyOwnEdits ==
    [][\A i \in Client :
          Accepted(i) /\ NextSave(i).alone /\ SameLife(i) =>
             \A f \in Fields : Changed(f) => f \in NextSave(i).edited]_vars

(* NoResurrection. Once a vault is deleted only an import stores it again: *)
(* no save of an instance that was opened before brings it back.           *)
NoResurrection == [][record = None /\ record' # None => \E i \in Client : Is(i, "importing") /\ Accepted(i)]_vars

(* PointerAfterRecord. Import makes the record durable before it names the  *)
(* vault in activeVaultId, whatever dies or fails in between: a pointer to  *)
(* nothing is the work of a deletion.                                       *)
PointerAfterRecord == disk[ActiveKey] = Id /\ record = None => deleted

(* SavesEnd. Every save and import returns, also when earlier saves in its *)
(* queue failed or another process died while it held the storage lock.    *)
SavesEnd == \A i \in Client : inst[i].saves # <<>> ~> inst[i].saves = <<>>

(* StaleSavesReject, as save() promises: a save is accepted without a merge *)
(* only if the record is still the one its instance last saw.               *)
StaleSavesReject ==
    [][\A i \in Client : Accepted(i) /\ ~ NextSave(i).merge => inst[i].base = record]_vars
=============================================================================
