--------------------------- MODULE BroadcastGuard ---------------------------
(***************************************************************************)
(* The cross-process duplicate-broadcast guard of the CLI: the journal of  *)
(* broadcasts and resolutions (agent/broadcastJournal.ts), one reservation *)
(* file per intent fingerprint, and the two callers that use them, the     *)
(* guarded send or swap (core/broadcastGuard.ts) and the agent's sign_tx   *)
(* (agent/executor.ts), which may sign an approve leg before its main leg. *)
(*                                                                         *)
(* A process is one CLI invocation at a time.  Every file system call that *)
(* another process can observe is one action.  Appends are atomic here;    *)
(* JournalFile models how the append and the compaction share the file.    *)
(***************************************************************************)
EXTENDS Integers, FiniteSets

CONSTANTS
    Proc,         \* CLI processes
    Fp,           \* fingerprints of intents
    Hash,         \* transaction hashes
    Settings,     \* what the processes are asked to do and what may go wrong
    None,         \* no lock, no transaction, no hash, no approve leg
    Window,       \* DEFAULT_BROADCAST_WINDOW_MS, in ticks
    StaleAfter,   \* RESERVATION_STALE_MS, in ticks
    Retention,    \* PRUNE_RETENTION_MS, in ticks
    Lag,          \* longest wait between taking a record's ts and appending it
    PruneTrigger  \* PRUNE_TRIGGER_BYTES, in records

Legs == {"primary", "approve"}

(* A command: the fingerprint of its transaction, the one of the approval  *)
(* that precedes it (or None), whether the chain is a Cosmos one, where a  *)
(* failed execution is reported with the hash, and the --force flag.       *)
Job == [primary : Fp, approve : Fp \cup {None}, cosmos : BOOLEAN, force : BOOLEAN]

(* A setting: the commands there are, the failures there may be, and bounds *)
(* on the processes that run at once, the transactions that land, the      *)
(* records ever appended and the clock.                                    *)
Setting == [jobs : SUBSET Job, faults : SUBSET {"crash", "disk", "fs", "late", "throw"},
            running : Nat, landing : Nat, records : Nat, time : Nat]

Status == {"confirmed", "failed", "timeout"}

Lock == [by : Proc, at : Nat]
Tx   == [fp : Fp, status : {"pending", "confirmed", "failed"}, at : Nat,
         forced : BOOLEAN]

Broadcasts  == [t : {"broadcast"}, fp : Fp, hash : Hash, ts : Int, ord : Nat]
Resolutions == [t : {"resolved"}, hash : Hash, status : Status, ts : Int, ord : Nat]

ASSUME TimesAssumption ==
    /\ Window \in Nat /\ StaleAfter \in Nat /\ Lag \in Nat
    /\ Retention \in Nat /\ Retention >= Window + Lag
ASSUME PruneAssumption == PruneTrigger \in Nat
ASSUME NoneAssumption ==
    /\ None \notin Proc /\ None \notin Fp /\ None \notin Hash
    /\ None \notin Lock /\ None \notin Tx /\ None \notin Job
ASSUME SettingsAssumption ==
    \A s \in Settings : s \in Setting /\ \A j \in s.jobs : j.approve # j.primary

VARIABLES
    setting,  \* the setting, which never changes
    clock,    \* Date.now(), in ticks
    journal,  \* the records in broadcasts.jsonl; ord is the file order
    lock,     \* the reservation file of each fingerprint, or None
    chain,    \* what each hash stands for on chain, or None
    pc,       \* where each process is
    leg,      \* the leg its current phase is at
    try,      \* the attempt number in reserveBroadcast
    job,      \* what it broadcasts, None when idle
    held,     \* fingerprints whose reservation it must release
    out,      \* the hash its last broadcast returned
    \* The remaining variables record history; no guard reads them.
    hist,     \* every record ever appended
    ord,      \* how many records were ever appended
    known,    \* broadcasts on record, live, when a process passed its check
    gap,      \* broadcasts recorded between its check and its reservation
    left      \* the reservation file that the dead sender of a hash left behind

procVars  == <<pc, leg, try, job, held, out>>
ghostVars == <<known, gap, left>>
vars == <<setting, clock, journal, lock, chain, pc, leg, try, job, held, out,
          hist, ord, known, gap, left>>

Phases == {"idle", "check", "create", "stat", "unlink", "send", "record",
           "recordFailed", "receipt", "release"}

(* The fingerprint the current leg of p is about. *)
Cur(p) == IF leg[p] = "approve" THEN job[p].approve ELSE job[p].primary
HasApprove(p) == job[p].approve # None
Forced(p) == job[p].force

-----------------------------------------------------------------------------
(* The journal's decision. *)

(* Variant of DefinitivelyFailed: giving up on a poll counts as a failure. *)
DefinitivelyFailedOrTimeout(j, r) ==
    \E q \in j : /\ q.t = "resolved" /\ q.hash = r.hash
                 /\ q.status # "confirmed"
                 /\ q.ts >= r.ts
                 /\ \A q2 \in j : q2.t = "resolved" /\ q2.hash = r.hash => q2.ord <= q.ord

(* Does j hold, as its latest resolution of r's hash, a definitive failure *)
(* that is not older than r?                                               *)
DefinitivelyFailed(j, r) ==
    \E q \in j : /\ q.t = "resolved" /\ q.hash = r.hash
                 /\ q.status = "failed"
                 /\ q.ts >= r.ts
                 /\ \A q2 \in j : q2.t = "resolved" /\ q2.hash = r.hash => q2.ord <= q.ord

(* Variant of Blocks: the window is one tick short. *)
BlocksShortWindow(j, r, now) ==
    /\ r.t = "broadcast"
    /\ r.ts > now - Window
    /\ ~ DefinitivelyFailed(j, r)

Blocks(j, r, now) ==
    /\ r.t = "broadcast"
    /\ r.ts >= now - Window
    /\ ~ DefinitivelyFailed(j, r)

FindRecentDuplicate(j, f, now) == {r \in j : Blocks(j, r, now) /\ r.fp = f}

(* Variant of KeptByPrune: the retention is confused with the lifetime of  *)
(* a reservation.                                                          *)
KeptWithinStale(j, now) == {r \in j : r.ts >= now - StaleAfter}

KeptByPrune(j, now) == {r \in j : r.ts >= now - Retention}

(* appendRecord: append, then compact when the file is large and the lock  *)
(* for it is free.  The ts was taken up to Lag ago.                        *)
AppendRecord(r) ==
    /\ hist' = hist \cup {r}
    /\ ord' = ord + 1
    /\ \/ journal' = journal \cup {r}
       \/ /\ Cardinality(journal) >= PruneTrigger
          /\ journal' = KeptByPrune(journal \cup {r}, clock)

(* Its ts is taken after the broadcast. *)
RecordBroadcast(f, h) ==
    /\ ord < setting.records
    /\ \E d \in 0 .. Lag :
          /\ clock - d >= chain[h].at
          /\ AppendRecord([t |-> "broadcast", fp |-> f, hash |-> h, ts |-> clock - d, ord |-> ord])

RecordResolution(h, s) ==
    /\ ord < setting.records
    /\ \E d \in 0 .. Lag :
          AppendRecord([t |-> "resolved", hash |-> h, status |-> s, ts |-> clock - d, ord |-> ord])

-----------------------------------------------------------------------------
Init ==
    /\ setting \in Settings
    /\ clock = 0
    /\ journal = {} /\ hist = {} /\ ord = 0
    /\ lock = [f \in Fp |-> None]
    /\ chain = [h \in Hash |-> None]
    /\ pc = [p \in Proc |-> "idle"]
    /\ leg = [p \in Proc |-> "primary"]
    /\ try = [p \in Proc |-> 1]
    /\ job = [p \in Proc |-> None]
    /\ held = [p \in Proc |-> {}]
    /\ out = [p \in Proc |-> None]
    /\ known = [p \in Proc |-> {}]
    /\ gap = [p \in Proc |-> {}]
    /\ left = [h \in Hash |-> None]

(* A command starts: its intent and --force come from the command line. *)
Start(p) ==
    /\ pc[p] = "idle"
    /\ Cardinality({q \in Proc : pc[q] # "idle"}) < setting.running
    /\ \E j \in setting.jobs : job' = [job EXCEPT ![p] = j]
    /\ pc' = [pc EXCEPT ![p] = "check"]
    /\ UNCHANGED <<setting, clock, journal, lock, chain, leg, try, held, out,
                   hist, ord, ghostVars>>

(* The command ends, with its result or an error; its memory is gone. *)
End(p) ==
    /\ pc' = [pc EXCEPT ![p] = "idle"]
    /\ leg' = [leg EXCEPT ![p] = "primary"]
    /\ try' = [try EXCEPT ![p] = 1]
    /\ job' = [job EXCEPT ![p] = None]
    /\ out' = [out EXCEPT ![p] = None]
    /\ known' = [known EXCEPT ![p] = {}]
    /\ gap' = [gap EXCEPT ![p] = {}]

(* Variant of NextLegOr: every command is taken to have an approve leg. *)
NextLegAlways(p, same, next) ==
    IF leg[p] = "primary"
    THEN /\ leg' = [leg EXCEPT ![p] = "approve"]
         /\ pc' = [pc EXCEPT ![p] = same]
    ELSE /\ leg' = [leg EXCEPT ![p] = IF next = "send" /\ HasApprove(p) THEN "approve" ELSE "primary"]
         /\ pc' = [pc EXCEPT ![p] = next]

(* The step after the current leg's check or reservation: the approve leg  *)
(* if there is one and it is still due, else the next phase.               *)
NextLegOr(p, same, next) ==
    IF leg[p] = "primary" /\ HasApprove(p)
    THEN /\ leg' = [leg EXCEPT ![p] = "approve"]
         /\ pc' = [pc EXCEPT ![p] = same]
    ELSE /\ leg' = [leg EXCEPT ![p] = IF next = "send" /\ HasApprove(p) THEN "approve" ELSE "primary"]
         /\ pc' = [pc EXCEPT ![p] = next]

(* The broadcasts of f within the window that no record calls failed.      *)
OnRecord(f) ==
    {r.hash : r \in {r \in hist :
        /\ r.t = "broadcast" /\ r.fp = f /\ r.ts >= clock - Window
        /\ ~ \E q \in hist : /\ q.t = "resolved" /\ q.hash = r.hash
                             /\ q.status = "failed" /\ q.ts >= r.ts}}

(* assertNoRecentDuplicate passes: the intent may go on to be reserved. *)
CheckPasses(p) ==
    /\ pc[p] = "check"
    /\ Forced(p) \/ FindRecentDuplicate(journal, Cur(p), clock) = {}
    /\ NextLegOr(p, "check", "create")
    /\ try' = [try EXCEPT ![p] = 1]
    /\ known' = [known EXCEPT ![p] = IF Forced(p) THEN @ ELSE @ \cup OnRecord(Cur(p))]
    /\ UNCHANGED <<setting, clock, journal, lock, chain, job, held, out,
                   hist, ord, gap, left>>

(* DuplicateBroadcastError: nothing is held yet, the command ends. *)
CheckRefuses(p) ==
    /\ pc[p] = "check"
    /\ ~ Forced(p)
    /\ FindRecentDuplicate(journal, Cur(p), clock) # {}
    /\ End(p)
    /\ UNCHANGED <<setting, clock, journal, lock, chain, held, hist, ord, left>>

-----------------------------------------------------------------------------
(* reserveBroadcast, one action per file system call. *)

(* --force, or a file system that cannot hold the lock: no reservation. *)
ReserveNothing(p) ==
    /\ pc[p] = "create"
    /\ Forced(p) \/ "fs" \in setting.faults
    /\ NextLegOr(p, "create", "send")
    /\ try' = [try EXCEPT ![p] = 1]
    /\ UNCHANGED <<setting, clock, journal, lock, chain, job, held, out,
                   hist, ord, ghostVars>>

(* open(path, 'wx') succeeds. *)
ReserveCreate(p) ==
    /\ pc[p] = "create"
    /\ ~ Forced(p)
    /\ lock[Cur(p)] = None
    /\ lock' = [lock EXCEPT ![Cur(p)] = [by |-> p, at |-> clock]]
    /\ held' = [held EXCEPT ![p] = @ \cup {Cur(p)}]
    /\ NextLegOr(p, "create", "send")
    /\ try' = [try EXCEPT ![p] = 1]
    /\ UNCHANGED <<setting, clock, journal, chain, job, out, hist, ord,
                   ghostVars>>

(* open(path, 'wx') fails with EEXIST. *)
ReserveExists(p) ==
    /\ pc[p] = "create"
    /\ ~ Forced(p)
    /\ lock[Cur(p)] # None
    /\ pc' = [pc EXCEPT ![p] = "stat"]
    /\ UNCHANGED <<setting, clock, journal, lock, chain, leg, try, job, held,
                   out,
                   hist, ord, ghostVars>>

(* Variant of IsStaleReservation: stale as soon as the lifetime is reached. *)
IsStaleAtLimit(f) == lock[f] # None /\ clock - lock[f].at >= StaleAfter

(* Variant of IsStaleReservation: a dead owner's file is stale at once. *)
IsStaleWhenOwnerDied(f) ==
    lock[f] # None /\ (clock - lock[f].at > StaleAfter \/ pc[lock[f].by] = "idle")

IsStaleReservation(f) == lock[f] # None /\ clock - lock[f].at > StaleAfter

(* isStaleReservation answers no, also when the file has just vanished:    *)
(* ConcurrentBroadcastError.                                               *)
ReserveRefuse(p) ==
    /\ pc[p] = "stat"
    /\ ~ IsStaleReservation(Cur(p))
    /\ pc' = [pc EXCEPT ![p] = "release"]
    /\ UNCHANGED <<setting, clock, journal, lock, chain, leg, try, job, held,
                   out,
                   hist, ord, ghostVars>>

ReserveFindsStale(p) ==
    /\ pc[p] = "stat"
    /\ IsStaleReservation(Cur(p))
    /\ pc' = [pc EXCEPT ![p] = "unlink"]
    /\ UNCHANGED <<setting, clock, journal, lock, chain, leg, try, job, held,
                   out,
                   hist, ord, ghostVars>>

(* The steal: remove whatever is at the path, then retry the create once. *)
ReserveSteal(p) ==
    /\ pc[p] = "unlink"
    /\ lock' = [lock EXCEPT ![Cur(p)] = None]
    /\ try' = [try EXCEPT ![p] = 2]
    /\ pc' = [pc EXCEPT ![p] = IF try[p] = 1 THEN "create" ELSE "release"]
    /\ UNCHANGED <<setting, clock, journal, chain, leg, job, held, out, hist,
                   ord, ghostVars>>

-----------------------------------------------------------------------------
(* The broadcast itself and what is recorded of it. *)

(* A hash a broadcast may return: a new one, or under --force the hash of  *)
(* an identical transaction whose attempt is over and was recorded as      *)
(* failed at an earlier time.                                              *)
MayReturn(p, h) ==
    \/ /\ chain[h] = None
       /\ Cardinality({k \in Hash : chain[k] # None}) < setting.landing
    \/ /\ Forced(p)
       /\ chain[h] # None
       /\ chain[h].fp = Cur(p) /\ chain[h].status = "failed"
       /\ \E r \in hist : r.t = "resolved" /\ r.hash = h
       /\ \A r \in hist : r.hash = h => r.ts < clock
       /\ \A q \in Proc : pc[q] \in {"record", "recordFailed"} => out[q] # h

Lands(p, h, status) ==
    /\ MayReturn(p, h)
    /\ chain' = [chain EXCEPT ![h] =
          [fp |-> Cur(p), status |-> status, at |-> clock, forced |-> Forced(p)]]

(* broadcast() returns a hash. *)
Send(p) ==
    /\ pc[p] = "send"
    /\ \E h \in Hash : Lands(p, h, "pending") /\ out' = [out EXCEPT ![p] = h]
    /\ pc' = [pc EXCEPT ![p] = "record"]
    /\ UNCHANGED <<setting, clock, journal, lock, leg, try, job, held, hist,
                   ord, ghostVars>>

(* broadcast() throws and nothing reached the chain. *)
SendThrows(p) ==
    /\ pc[p] = "send"
    /\ pc' = [pc EXCEPT ![p] = "release"]
    /\ UNCHANGED <<setting, clock, journal, lock, chain, leg, try, job, held,
                   out,
                   hist, ord, ghostVars>>

(* broadcast() throws after the transaction reached the chain: the window  *)
(* guardedBroadcast documents as left open.                                *)
SendLandsThenThrows(p) ==
    /\ "throw" \in setting.faults
    /\ pc[p] = "send"
    /\ \E h \in Hash : Lands(p, h, "pending")
    /\ pc' = [pc EXCEPT ![p] = "release"]
    /\ UNCHANGED <<setting, clock, journal, lock, leg, try, job, held, out,
                   hist, ord, ghostVars>>

(* A Cosmos DeliverTx failure: included on chain, and failed. *)
SendDeliverTxFails(p) ==
    /\ pc[p] = "send"
    /\ job[p].cosmos
    /\ \E h \in Hash : Lands(p, h, "failed") /\ out' = [out EXCEPT ![p] = h]
    /\ pc' = [pc EXCEPT ![p] = "record"]
    /\ UNCHANGED <<setting, clock, journal, lock, leg, try, job, held, hist,
                   ord, ghostVars>>

(* Once its broadcast is recorded, an approve leg goes on to wait for its  *)
(* receipt; a DeliverTx failure goes on to record that.                    *)
AfterRecord(p) ==
    IF leg[p] = "approve" THEN "receipt"
    ELSE IF job[p].cosmos /\ chain[out[p]].status = "failed" THEN "recordFailed" ELSE "release"

(* q has passed a check and still has to reserve. *)
InGap(q) ==
    \/ pc[q] \in {"create", "stat", "unlink"}
    \/ pc[q] = "check" /\ leg[q] = "approve"

(* recordBroadcast of the hash just returned. *)
Record(p) ==
    /\ pc[p] = "record"
    /\ RecordBroadcast(Cur(p), out[p])
    /\ pc' = [pc EXCEPT ![p] = AfterRecord(p)]
    /\ gap' = [q \in Proc |-> IF InGap(q) THEN gap[q] \cup {out[p]} ELSE gap[q]]
    /\ UNCHANGED <<setting, clock, lock, chain, leg, try, job, held, out,
                   known, left>>

RecordFailed(p) ==
    /\ pc[p] = "recordFailed"
    /\ RecordResolution(out[p], "failed")
    /\ pc' = [pc EXCEPT ![p] = "release"]
    /\ UNCHANGED <<setting, clock, lock, chain, leg, try, job, held, out,
                   ghostVars>>

(* The append of either record fails: it is reported, and the process goes *)
(* on as if it had been made.                                              *)
RecordLost(p) ==
    /\ "disk" \in setting.faults
    /\ \/ pc[p] = "record" /\ pc' = [pc EXCEPT ![p] = AfterRecord(p)]
       \/ pc[p] = "recordFailed" /\ pc' = [pc EXCEPT ![p] = "release"]
    /\ UNCHANGED <<setting, clock, journal, lock, chain, leg, try, job, held,
                   out,
                   hist, ord, ghostVars>>

(* Variant of ReceiptArrives: a receipt wait that timed out is ignored. *)
ReceiptIgnored(p) ==
    /\ pc[p] = "receipt"
    /\ leg' = [leg EXCEPT ![p] = "primary"]
    /\ pc' = [pc EXCEPT ![p] = "send"]
    /\ UNCHANGED <<setting, clock, journal, lock, chain, try, job, held, out,
                   hist, ord, ghostVars>>

(* waitForEvmReceipt returns: the approval is confirmed, sign the main leg. *)
ReceiptArrives(p) ==
    /\ pc[p] = "receipt"
    /\ chain[out[p]].status = "confirmed"
    /\ leg' = [leg EXCEPT ![p] = "primary"]
    /\ pc' = [pc EXCEPT ![p] = "send"]
    /\ UNCHANGED <<setting, clock, journal, lock, chain, try, job, held, out,
                   hist, ord, ghostVars>>

(* ... or reverts, or times out: the main leg is held back. *)
ReceiptFails(p) ==
    /\ pc[p] = "receipt"
    /\ pc' = [pc EXCEPT ![p] = "release"]
    /\ UNCHANGED <<setting, clock, journal, lock, chain, leg, try, job, held,
                   out,
                   hist, ord, ghostVars>>

(* The finally block: unlink the reservation files in the order they were  *)
(* taken, whoever owns them now, and end.                                  *)
Unlink(p, f) ==
    /\ f \in held[p]
    /\ f = job[p].approve => job[p].primary \notin held[p]
    /\ lock' = [lock EXCEPT ![f] = None]
    /\ held' = [held EXCEPT ![p] = @ \ {f}]

Release(p) ==
    /\ pc[p] = "release"
    /\ \E f \in Fp : Unlink(p, f)
    /\ IF held'[p] = {} THEN End(p)
       ELSE UNCHANGED <<pc, leg, try, job, out, known, gap>>
    /\ UNCHANGED <<setting, clock, journal, chain, hist, ord, left>>

(* ... when no reservation was taken. *)
ReleaseNothing(p) ==
    /\ pc[p] = "release" /\ held[p] = {}
    /\ End(p)
    /\ UNCHANGED <<setting, clock, journal, lock, chain, held, hist, ord, left>>

(* The process dies; its reservation files stay, also the one of the       *)
(* transaction it has sent last.                                           *)
Crash(p) ==
    /\ "crash" \in setting.faults
    /\ pc[p] # "idle"
    /\ held' = [held EXCEPT ![p] = {}]
    /\ left' = [h \in Hash |-> IF out[p] = h /\ chain[h].fp \in held[p]
                               THEN lock[chain[h].fp] ELSE left[h]]
    /\ End(p)
    /\ UNCHANGED <<setting, clock, journal, lock, chain, hist, ord>>

-----------------------------------------------------------------------------
(* The surroundings. *)

(* A transaction settles on chain. *)
Settle(h) ==
    /\ chain[h] # None /\ chain[h].status = "pending"
    /\ \E s \in {"confirmed", "failed"} : chain' = [chain EXCEPT ![h].status = s]
    /\ UNCHANGED <<setting, clock, journal, lock, procVars, hist, ord,
                   ghostVars>>

(* A status poll (the session's confirmation poll, or tx-status) learns the *)
(* outcome of a hash, or gives up on one, and records it.                   *)
Poll(h) ==
    /\ chain[h] # None
    /\ \/ chain[h].status # "pending" /\ RecordResolution(h, chain[h].status)
       \/ chain[h].status = "pending" /\ RecordResolution(h, "timeout")
    /\ UNCHANGED <<setting, clock, lock, chain, procVars, ghostVars>>

(* Time passes.  Without the fault "late" a live process never keeps a     *)
(* reservation for longer than StaleAfter.                                 *)
Tick ==
    /\ clock < setting.time
    /\ \/ "late" \in setting.faults
       \/ \A p \in Proc : \A f \in held[p] :
             lock[f] # None /\ lock[f].by = p => clock < lock[f].at + StaleAfter
    /\ clock' = clock + 1
    /\ UNCHANGED <<setting, journal, lock, chain, procVars, hist, ord,
                   ghostVars>>

Step(p) ==
    \/ Start(p) \/ CheckPasses(p) \/ CheckRefuses(p)
    \/ ReserveNothing(p) \/ ReserveCreate(p) \/ ReserveExists(p)
    \/ ReserveRefuse(p) \/ ReserveFindsStale(p) \/ ReserveSteal(p)
    \/ Send(p) \/ SendThrows(p) \/ SendLandsThenThrows(p) \/ SendDeliverTxFails(p)
    \/ Record(p) \/ RecordFailed(p) \/ RecordLost(p) \/ ReceiptArrives(p) \/ ReceiptFails(p)
    \/ Release(p) \/ ReleaseNothing(p) \/ Crash(p)

Next ==
    \/ \E p \in Proc : Step(p)
    \/ \E h \in Hash : Settle(h) \/ Poll(h)
    \/ Tick

Spec == Init /\ [][Next]_vars

-----------------------------------------------------------------------------
(* Properties *)

(* Every variable stays in the domain the code gives it, journal records   *)
(* are well formed, an approval is only worked on when there is one, and a *)
(* process with something to record has a hash.                            *)
VarTypes ==
    /\ setting \in Settings
    /\ clock \in Nat /\ ord \in Nat
    /\ journal \subseteq Broadcasts \cup Resolutions
    /\ hist \subseteq Broadcasts \cup Resolutions
    /\ lock \in [Fp -> Lock \cup {None}]
    /\ chain \in [Hash -> Tx \cup {None}]
    /\ pc \in [Proc -> Phases]
    /\ leg \in [Proc -> Legs]
    /\ try \in [Proc -> {1, 2}]
    /\ job \in [Proc -> setting.jobs \cup {None}]
    /\ held \in [Proc -> SUBSET Fp]
    /\ out \in [Proc -> Hash \cup {None}]
    /\ known \in [Proc -> SUBSET Hash]
    /\ gap \in [Proc -> SUBSET Hash]
    /\ left \in [Hash -> Lock \cup {None}]

ProcTypes ==
    \A p \in Proc :
        /\ pc[p] = "idle" <=> job[p] = None
        /\ leg[p] = "approve" => job[p] # None /\ HasApprove(p)
        /\ pc[p] \in {"record", "recordFailed", "receipt"} => out[p] \in Hash

TypeOK == VarTypes /\ ProcTypes

(* Compaction never changes the guard's answer: what blocks an intent now  *)
(* is the same whether it is computed from the journal or from every       *)
(* record ever appended (PRUNE_RETENTION_MS, pruneJournal,                 *)
(* findRecentDuplicate).                                                   *)
PruneInvisible ==
    \A f \in Fp : FindRecentDuplicate(journal, f, clock) = FindRecentDuplicate(hist, f, clock)

(* Two processes never hold the reservation of one intent (reserveBroadcast). *)
ReservationExclusive ==
    \A p, q \in Proc : p # q => held[p] \cap held[q] = {}

Journaled(h) ==
    \E r \in hist : r.t = "broadcast" /\ r.hash = h /\ r.ts >= chain[h].at

(* The file that a sender left behind when it died, if any, is past its    *)
(* lifetime: from then on it may be stolen, and not before.                *)
Lapsed(h) == left[h] # None => clock - left[h].at > StaleAfter

(* Nobody recorded h and nobody is going to: its broadcast threw, or the   *)
(* record could not be written, and its reservation is given up; or its    *)
(* sender died without a reservation, or so long ago that it has lapsed.   *)
Unrecorded(h) ==
    /\ ~ Journaled(h)
    /\ \A p \in Proc : out[p] = h => pc[p] = "release" /\ chain[h].fp \notin held[p]
    /\ Lapsed(h)

(* h is still to be recorded, and was sent without a reservation: --force  *)
(* takes none, and the file system may not be able to hold one.            *)
Unreserved(h) ==
    /\ ~ Journaled(h)
    /\ chain[h].forced \/ \E p \in Proc : out[p] = h /\ chain[h].fp \notin held[p]

(* From the moment it lands until the window has passed or it failed, a    *)
(* transaction is guarded, by the reservation file or by a journal record  *)
(* that blocks, also when its sender died in between: its file then stays  *)
(* until RESERVATION_STALE_MS is over.  What the code leaves unguarded is  *)
(* named: a broadcast that threw, a record that could not be written, a    *)
(* dead sender's file past that time, and a transaction that is still to   *)
(* be recorded and has no reservation (guardedBroadcast,                   *)
(* recordBroadcastForTx, reserveBroadcast).                                *)
Guarded ==
    \A h \in Hash :
        chain[h] # None /\ chain[h].status # "failed" /\ chain[h].at >= clock - Window =>
            \/ \E r \in FindRecentDuplicate(journal, chain[h].fp, clock) : r.hash = h
            \/ ~ chain[h].forced /\ lock[chain[h].fp] # None
            \/ Unreserved(h) \/ Unrecorded(h)

(* p's transaction of its current leg lands as h in this step. *)
LandsNow(p, h) == pc[p] = "send" /\ pc'[p] # "send" /\ chain'[h] # chain[h]

(* h was sent for f, unforced, within the window, and has not failed. *)
LiveCopy(h, f) ==
    /\ chain[h] # None
    /\ chain[h].fp = f /\ ~ chain[h].forced /\ chain[h].status # "failed"
    /\ chain[h].at >= clock - Window

(* The only ways one intent is sent twice are the gap between a process's  *)
(* journal check and its reservation, when the other process recorded and  *)
(* released in between, and an earlier copy that is not on record: its     *)
(* broadcast threw after it landed, its record could not be written, its   *)
(* sender died and the file it left has lapsed, or the later process could *)
(* take no reservation, which would have refused (guardedBroadcast,        *)
(* signTxFromBuffer).                                                      *)
OnlyCheckGap ==
    [][\A p \in Proc, a, b \in Hash :
          LandsNow(p, b) /\ ~ Forced(p) /\ LiveCopy(a, Cur(p)) =>
            \/ a \in gap[p]
            \/ Unrecorded(a)
            \/ ~ Journaled(a) /\ Cur(p) \notin held[p]]_vars

(* An intent is never sent again while an earlier copy is live within the  *)
(* window.                                                                 *)
NoDoubleSend ==
    [][\A p \in Proc, a, b \in Hash :
          LandsNow(p, b) /\ ~ Forced(p) => ~ LiveCopy(a, Cur(p))]_vars

(* Whatever else fails, a broadcast that was in the journal when a process *)
(* checked, inside the window and not known to have failed, is not sent    *)
(* again by that process (assertNoRecentDuplicate before every leg).       *)
RecordedNeverResent ==
    [][\A p \in Proc, h \in Hash : LandsNow(p, h) /\ ~ Forced(p) => known[p] = {}]_vars

(* On a disk that takes the records, the main leg of a two-leg transaction *)
(* is broadcast only after its approval was journaled and confirmed        *)
(* (signMultiLeg).                                                         *)
MainNeedsApprove ==
    [][\A p \in Proc, h \in Hash :
          LandsNow(p, h) /\ HasApprove(p) /\ leg[p] = "primary" =>
            /\ out[p] # None /\ chain[out[p]].status = "confirmed"
            /\ \E r \in hist :
                  r.t = "broadcast" /\ r.fp = job[p].approve /\ r.hash = out[p]]_vars

=============================================================================
