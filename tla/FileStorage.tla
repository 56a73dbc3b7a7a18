----------------------------- MODULE FileStorage -----------------------------
(***************************************************************************)
(* sdk/src/platforms/node/storage.ts: one file per key, every write under  *)
(* an advisory lock on .storage.lock that the kernel releases when its     *)
(* holder exits, every value written to a temporary file and renamed.      *)
(* Reading takes no lock: a rename shows a reader the old or the new file. *)
(***************************************************************************)
EXTENDS Naturals, FiniteSets

CONSTANTS
    Client,  \* callers of the storage
    None,    \* no value, no holder
    Faults   \* which of "full", "busy" may happen

VARIABLES
    disk,  \* the value in the file of each key, None if there is no file
    flock, \* the client whose descriptor holds the lock
    call   \* the call of each client

storageVars == <<disk, flock, call>>

Stages == {"idle", "lock", "compare", "write", "unlock", "done"}
Answers == {"idle", "none", "done", "differs", "failed"}

(* compareAndSet, set and remove: what to write, and whether only over old. *)
CompareAndSet(key, old, new) == [key |-> key, check |-> TRUE, old |-> old, new |-> new]
Set(key, new) == [key |-> key, check |-> FALSE, old |-> None, new |-> new]
Remove(key) == Set(key, None)

Started(req) == [req |-> req, at |-> "lock", answer |-> "none"]

NoCall == [req |-> Remove(None), at |-> "idle", answer |-> "idle"]

At(c, stage) == call[c].at = stage

Answered(c, a) == At(c, "done") /\ call[c].answer = a

(* tryLockFile succeeds. *)
LockStorage(c) ==
    /\ At(c, "lock")
    /\ flock = None
    /\ flock' = c
    /\ call' = [call EXCEPT ![c].at = IF call[c].req.check THEN "compare" ELSE "write"]
    /\ UNCHANGED disk

(* Another descriptor keeps the lock for more than five seconds. *)
LockTimesOut(c) ==
    /\ "busy" \in Faults
    /\ At(c, "lock")
    /\ flock # None
    /\ call' = [call EXCEPT ![c].at = "done", ![c].answer = "failed"]
    /\ UNCHANGED <<disk, flock>>

(* Variant of Compare: the comparison is left to the caller's own read. *)
CompareNothing(c) ==
    /\ At(c, "compare")
    /\ call' = [call EXCEPT ![c].at = "write"]
    /\ UNCHANGED <<disk, flock>>

(* compareAndSet reads the value under the lock. *)
Compare(c) ==
    /\ At(c, "compare")
    /\ call' = IF disk[call[c].req.key] = call[c].req.old
               THEN [call EXCEPT ![c].at = "write"]
               ELSE [call EXCEPT ![c].at = "unlock", ![c].answer = "differs"]
    /\ UNCHANGED <<disk, flock>>

(* writeValue renames its temporary file; removeValue unlinks. *)
Rename(c) ==
    /\ At(c, "write")
    /\ disk' = [disk EXCEPT ![call[c].req.key] = call[c].req.new]
    /\ call' = [call EXCEPT ![c].at = "unlock", ![c].answer = "done"]
    /\ UNCHANGED flock

(* The temporary file cannot be written. *)
WriteFails(c) ==
    /\ "full" \in Faults
    /\ At(c, "write")
    /\ call' = [call EXCEPT ![c].at = "unlock", ![c].answer = "failed"]
    /\ UNCHANGED <<disk, flock>>

(* The finally block of withStorageLock. *)
UnlockStorage(c) ==
    /\ At(c, "unlock")
    /\ flock' = None
    /\ call' = [call EXCEPT ![c].at = "done"]
    /\ UNCHANGED disk

(* The processes of the clients C die: the kernel drops their locks. *)
StorageCrash(C) ==
    /\ flock' = IF flock \in C THEN None ELSE flock
    /\ call' = [c \in Client |-> IF c \in C THEN NoCall ELSE call[c]]
    /\ UNCHANGED disk

StorageStep(c) ==
    \/ LockStorage(c) \/ LockTimesOut(c)
    \/ Compare(c) \/ Rename(c) \/ WriteFails(c)
    \/ UnlockStorage(c)

(* The promise of the interface: the lock and the stages are hidden. *)
Promise == INSTANCE AtomicStorage WITH
    disk <- disk,
    call <- [c \in Client |-> [req |-> call[c].req, answer |-> call[c].answer]]
=============================================================================
