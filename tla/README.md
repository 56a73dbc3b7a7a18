# A verification project for the Vultisig SDK

This directory holds TLA+ models of the parts of the Vultisig SDK in which
several processes, devices or requests have to agree, TLC configurations that
check them on small instances, and TLAPS proofs of the results that matter most.
`PROJECT.json` lists the runs, the mutants, the hazards, and for every definition
the source lines it stands for.

    tlc -workers 2 -config Guard_core.cfg MCBroadcastGuard.tla
    tlapm BroadcastGuardProofs.tla

## 1. The system

The SDK is a wallet whose private keys exist only as shares. A *secure vault*
has its shares on the user's devices, a *fast vault* has one on VultiServer.
Keys are generated and transactions signed by running a protocol between the
devices, whose messages go through a relay server. Around that are the vault
records in a storage, a CLI with an AI agent, an MCP server, and per-chain code.

| Component | State it keeps | Operations | What is hard | What makes it correct |
|---|---|---|---|---|
| Duplicate-broadcast guard (`clients/cli/src/agent/broadcastJournal.ts`, `core/broadcastGuard.ts`) | journal of broadcasts and outcomes, a reservation file per intent | check, reserve, record, release | sibling CLI processes, crashes, `--force`, clocks | an intent is not sent twice while its first copy may still take effect |
| Signing flow (`agent/executor.ts`, `agent/session.ts`) | pending payload, legs | sign_tx with one or two legs, confirmation poll | a leg fails after the other was sent | main leg only after a confirmed approval; every broadcast recorded |
| Journal file and lock (`broadcastJournal.ts`) | `broadcasts.jsonl`, `.wlock` | append, steal a stale lock, compact | appends during a compaction, crashes | no record within the retention is lost; calls return |
| EVM nonce (`core/VaultStateStore.ts`, `executor.ts`) | lock and last nonce per chain, time of the last broadcast | lock, patch the nonce, sign, record, release | lagging or forgetful nodes, crashes, stale locks | exclusion, no nonce skipped, none reused |
| Keygen, reshare, key import (`packages/core/mpc/dkls`, `schnorr`, `mldsa`) | setup message, protocol session, deadlines, attempt | setup, outbound loop, inbound loop, retry | lost and late messages, failed DELETE, retries on one relay session | all parties get a share or an error |
| Session start and join (`packages/core/mpc/session`, `sdk/src/services/waitForRelayPeerCommittee.ts`) | the relay's participant lists, the committee a device saw | POST with retry, poll, wait | a POST that was applied and whose answer is lost, devices that join in between | one committee, the same for all |
| Keysign (`packages/core/mpc/keysign`) | protocol session, abort flag | setup, outbound, inbound, one call per message | the loop that finishes first aborts the other | a signature for every signer |
| Vault creation and import (`sdk/src/services/Secure*Service.ts`, `JoinSecureVaultService.ts`, `core/mpc/keygenComplete.ts`) | progress of one ceremony | keygens in sequence, reports to the relay, a tolerant or strict wait for them | a device leaves in the middle, cancellation | a vault is kept only if its shares exist |
| Fast vaults (`sdk/src/server`, `services/Fast*Service.ts`) | - | HTTP calls around the same protocols | timeouts | as above |
| File storage (`sdk/src/platforms/node/storage.ts`) | one file per key, an advisory lock | get, set, compareAndSet, remove | other processes, crash in the middle of a write | each key an atomic register |
| Vault and its manager (`sdk/src/vault/VaultBase.ts`, `VaultManager.ts`) | the stored record, an instance's copy and baseline, a queue of saves | open, edit, save, merge, load, import, delete | several instances and processes on one record | no save reverts another's edit or revives a deleted vault |
| Cache service | in-memory values, computations in flight, stored values | get-or-compute, invalidate | invalidation while a computation is in flight | no forgotten value comes back |
| Password cache, events, notifications | maps with timers | get, set, emit | little | - |
| Agent session and backend client | conversation, token store | stream, recover, refresh a token | a broken stream, two processes refreshing | a turn is answered once, nothing is signed twice |
| Chain library, transaction building, Rujira, MCP, examples | none or constant | pure functions, HTTP calls | encodings | unit tests |

How they interact: CLI processes share the journal, the reservations, the
nonce state, the token store and the vault storage through files, and nothing
else. Devices of a ceremony share only the relay. Inside one process the two
loops of a protocol share the session and one flag, and instances of a vault
share the storage object with its queue of writes. Nonces and broadcasts depend
on the answers of nodes, which may lag, forget or fail after having accepted.

Every hazard found in this code, with its line, is in `PROJECT.json` under
`hazards`, with the properties that would notice it or the reason why none does.

## 2. The modules

| Module | Models | Uses | Checked as | Proofs |
|---|---|---|---|---|
| `BroadcastGuard` | journal decision, reservations, guarded send, two-leg signing, polls | - | `MCBroadcastGuard` | `BroadcastGuardProofs` |
| `Journal` | what the journal promises: an append-only log that may forget expired records | - | `JournalFile!RefinesJournal` | |
| `JournalFile` | append, compaction and lock of the journal, per system call | `Journal` | `MCJournalFile` | `JournalFileProofs` |
| `EvmNonce` | chain lock, nonce state, `patchEvmNonce`, node | - | `MCEvmNonce` | `EvmNonceProofs` |
| `Keygen` | the protocols that make or refresh key shares, all parties and the relay | - | `MCKeygen` | `KeygenProofs` |
| `RelaySession` | how the devices of a ceremony find each other and start | - | `MCRelayCeremony` | `RelayCeremonyProofs` |
| `RelaySigning` | signing of the messages of a transaction | `RelaySession` | `MCRelayCeremony` | `RelaySigningProofs` |
| `VaultCreation` | creation and import of a secure vault | `RelaySession` | `MCRelayCeremony` | `RelayCeremonyProofs` |
| `RelayCeremony` | the composition of the last three | all three | `MCRelayCeremony` | |
| `AtomicStorage` | what the Storage interface promises its callers | - | `VaultStore!StorageAtomic` | |
| `FileStorage` | the Node storage: lock, compare, write, rename | `AtomicStorage` | `MCVaultStore` | `VaultStoreProofs` |
| `VaultStore` | instances of a vault and the manager, over the file storage | `FileStorage` | `MCVaultStore` | `VaultStoreProofs`, `VaultStoreHistory` |

`BroadcastGuard` takes the append and the compaction of the journal for one step
each; `JournalFile` is the justification, as it takes them apart and implements
`Journal`, up to the records appended without the lock (finding 2). In the same way `VaultStore` reads and writes records through the
steps of `FileStorage`, which is shown to implement `AtomicStorage` underneath
it. `VaultCreation` takes a whole keygen for one step, with the outcomes that
`Keygen` allows: a party gets its share only if all others take part.

### BroadcastGuard

A process runs one command at a time; `pc`, `leg`, `try`, `job`, `held` and `out`
are its local state, `journal`, `lock` and `chain` what the processes share.
`setting`, chosen initially and never changed, says which commands there are,
what may fail, and the bounds; so one run covers several environments. Every
file system call another process can observe is an action:

| Actions | Code |
|---|---|
| `CheckPasses`, `CheckRefuses` | `assertNoRecentDuplicate`, once per leg, before any reservation |
| `ReserveCreate`, `ReserveExists`, `ReserveRefuse`, `ReserveFindsStale`, `ReserveSteal`, `ReserveNothing` | the two-attempt loop of `reserveBroadcast`: open `wx`, stat, unlink |
| `Send`, `SendThrows`, `SendLandsThenThrows`, `SendDeliverTxFails` | outcomes of `broadcast()` |
| `Record`, `RecordFailed`, `RecordLost` | `recordBroadcast`, `recordResolution`, and their swallowed failure |
| `ReceiptArrives`, `ReceiptFails` | `waitForEvmReceipt` between the legs |
| `Release`, `ReleaseNothing` | the finally block: unlink by name, whoever owns the file |
| `Poll` | the session's confirmation poll and `tx-status` |
| `Crash`, `Settle`, `Tick` | death of a process, the chain, the clock |

A record's timestamp is taken before it is appended, up to `Lag` ticks earlier.
`chain` says what a hash stands for; a forced send may return the hash of an
earlier failed transaction again. `hist`, `ord`, `known` (the live broadcasts on
record when a process passed its check) and `gap` (those recorded between its
check and its reservation) are history for the properties and in no guard, with
one exception that belongs to the chain: a hash comes back only if its earlier
attempt is over (`MayReturn`). `left` is history too: the reservation file that
a process left behind when it died with a broadcast it had not recorded, which
guards the intent until `StaleAfter` (`Lapsed`).

### Journal and JournalFile

`file` is the set of the lines; a line is a record that is appended once, one per
call, and record 0 is a line of an earlier day. `old` holds the records past the
retention. `lock` is the lock file with the process and the call it is from (for the
properties and the clock) and its age: 0, 1 after the two seconds that an append
waits, 2 past the thirty seconds after which it is stale. `stolen[p]` is the
private name a stealing process renames a lock to. The steps are those of `acquireJournalLock`, `stealStaleLock`, `appendRecord`,
`maybePruneJournal` and `pruneJournal`. The synchronous wait loop is `Wait` until
its deadline has passed (`late`), then `AppendGivesUp`, which goes on without the
lock, or `PruneGivesUp`. The deadline (`DeadlinePasses`) may pass
whenever the lock is one that nobody will release, since a dead process's lock
outlives it fifteen times; behind a living holder only if that is slow (fault `slow`), or if
the caller is a compaction, whose wait is shorter. `bare` are the
records that were appended without the lock. `Journal` promises to forget only
expired records and, with a compaction, records of `bare`: that
is what the code does, and finding 2 says what it costs.

### EvmNonce

`lock` and `state` are the two files of `VaultStateStore`. A lock has a flag for
its age; a state file past its lifetime is as good as none (`AgeState`).
`rpc`, `nonce` and `recent` are what a process read, what it will sign with, and whether its last broadcast is under 30 seconds old. The node
is external: it counts pending transactions in nonce order, after a delay
(`Notice`), replaces one with the same nonce, mines, and may drop what is
pending. `pool[n].by` says, for the properties only, which process sent the
transaction as long as the state file remembers that for it, and `overdue` that
a time limit of the code has passed over the transaction: 30 seconds without the
node counting it (`GraceEnds`), or the lifetime of the state file. Both steps wait for the
clock only, never for the node.

### Keygen

Seven operations run the same two loops: key generation, reshare and key import of
the `DKLS` and the `Schnorr` class and ML-DSA key generation. `operation`,
chosen initially, is one of them. They differ in two ways:

| | setup message | deadline |
|---|---|---|
| `dkls` | made in the first attempt, kept for the retries | since the last poll that returned anything |
| `schnorr` | given: the one DKLS used | since the start of the attempt |
| `mldsa`, `schnorrReshare` | uploaded in the first attempt; a retry waits for it | since the start of the attempt |
| `dklsReshare` | the same | since the last poll that returned anything |
| `dklsImport`, `schnorrImport` | remade by the initiator in every attempt | as in their class |

Per party: `inb` is the position of the attempt and its inbound loop, `outb`
that of the outbound loop, `batch` the messages a poll returned that have not
been fed, `got` and `sent` the engine's state. `wire` are messages whose POST
has not been answered: the code does not wait for it, so they arrive in any
order or not at all. The engine is external: rounds, in each of which a party
sends one message to every other and needs theirs for the next. A message knows
its attempt and its setup message; one of a foreign transcript is either ignored
(`Delete`) or makes `inputMessage` throw (fault `"reject"`).

### RelaySession, RelaySigning, VaultCreation, RelayCeremony

`setting` says what a session is for (sign, create, import), who may join and how
many have to. `joined` and `started` are what the relay knows; `device[p]` is
where a device is, the committee it saw, and what it threw. `Gather` is
`waitForDevices` or `waitForRelayPeerCommittee`, a signing taking everybody who is
there and a vault the exact number; `StartRetries`, `CheckFindsStart` and
`CheckFindsNothing` are `startMpcSessionWithRetry`, which after a failed POST asks
the relay whether it was applied; `AwaitStart` is a cosigner.

In `RelaySigning` a device calls `keysign` once per message, sorted by hash.
`loops[p]` holds the call: the inbound loop fetches and feeds, the outbound one
posts to one receiver after the other, and whichever ends first sets `aborted`
for the other, as does the timer of three minutes. Messages are never deleted from
the relay, and are told apart by the `message_id` header (`of`).

In `VaultCreation` a device counts the keygens that gave it a share, reports to
the relay when it has all of them, and waits for the others' reports: the creator
of a vault throws without them, everybody else keeps its vault. The shares are
variables of the call until then, and a device that throws has none left (`Held`). The
report is posted once: if it was applied and its answer is lost, if the
application cancels, or if the device dies after it, the others count on a device that has
dropped its shares (`ReportedInVain`).

### AtomicStorage, FileStorage, VaultStore

`call[c]` is the storage call a caller has under way, `flock` the holder of
`.storage.lock`, which the kernel releases when its holder dies. `Compare` reads
under the lock, `Write` is the rename of the temporary file. In `AtomicStorage` a
call takes effect at one instant between its start and its answer, or fails.

`inst[i]` is an object: its data, the record it takes for the stored one (`base`),
the fields edited since, and the queue of saves, each with the snapshot it was
called with. `SaveReads` is `saveUnlocked` up to `compareAndSet`, under
`withStorageWriteLock`; `SaveConflicts` is the `VaultConflictError`;
`Merged` is `mergeMetadata`. `Import`, `ImportCommitted`, `ImportReturns` and
`Delete`, `DeleteClears`, `DeleteReturns` are `VaultManager`'s operations, with a
storage call between each two. `Crash(h)` takes a process with all its instances.

## 3. What the runs check

| Run | Instance | Shows |
|---|---|---|
| `guard_core` | five settings: 2 processes racing, `Racing`; with and without `--force` on a failing disk, `Forcing`; one process after another with approval, deaths and lost answers, `Approving`; the same with a file system that refuses reservations, `Barred`; 2 processes that may die, before any reservation is stale, `Dying` | `ReservationExclusive`; `Guarded`: a landed transaction is covered by its reservation, then by its record, with no gap at the hand-over, and if its sender died between the two, by the file it left until that is stale; `PruneInvisible`; `RecordedNeverResent`; `MainNeedsApprove`; `OnlyCheckGap`: an intent is sent twice only through the gap between check and reservation, or past a first copy that is not on record |
| `guard_toctou` | `Racing` | **violated**: `NoDoubleSend` |
| `journal_all` | 2 processes, 3 calls, 1 crash, locks that cannot be created, slow holders, failing writes | `RefinesJournal`, with every system call interleaved; `EveryCallReturns` |
| `journal_unlocked` | 2 processes, 3 calls, 1 crash, nothing else | **violated**: `NeverClobbered` |
| `nonce_all` | 2 processes, 3 nonces, 1 crash, lag, eviction, unwritable state, throws | `LockExclusive`; `NoGap`; `OwnNonceFresh`: a process does not reuse a nonce of its own, as long as its transaction is not overdue |
| `nonce_reuse` | 2 processes, lag only | **violated**: `NonceFresh` |
| `keygen_all` | 6 operations, 2 parties, 2 rounds, 2 attempts, 2 faults of any kind for `dkls` and 1 for the others | `OutboundDrained`, `NoMessageDropped`, `KeygenCompletes`, `SetupLostEnds`, `FixedDeadlineReturns` |
| `keygen_returns` | `dkls`, 1 lost message, refused foreign messages | **violated**: `EveryPartyReturns` |
| `vault_all` | 2 instances in one process or in two, 2 edits, imports or crashes, 2 lives of the record, 2 queued saves, a full disk, a busy lock | `StorageAtomic`, `BaselinesAgree`, `PointerAfterRecord`, `OnlyOwnEdits`, `NoResurrection`, `SavesEnd` |
| `vault_aba` | 2 instances, no fault | **violated**: `StaleSavesReject` |
| `ceremony_all` | 7 settings: 2 or 3 devices that sign 1 or 2 messages in 1 to 3 rounds, create a vault or import one, with up to 2 failures | `LockStep`, `OnlyAbortStrands`, `SomebodySigns`, `CommitteesAgree`, `EverybodyGetsVault`, `EveryDeviceEnds`; `VaultIsWhole`: the signers of the creator's vault hold all of their shares, but for one that reported in vain |
| `ceremony_drain` | 2 devices, 2 messages, no fault | **violated**: `EverybodySigns` |

Every passing property has a mutant in `PROJECT.json`: a changed definition, such
as a window one tick short or a compaction that reads before it locks, for which
TLC finds the property violated under the same configuration.

### Findings

1. **A reservation does not make the check fresh** (`guard_toctou`). Process A
   passes the journal check. B checks, reserves, sends, records and releases. A
   reserves, finds the file free, and sends the same intent: the journal is not
   looked at again after the reservation. `OnlyCheckGap` shows that an intent whose
   first copy is on record is sent twice in no other way, so one more check after
   `reserveBroadcast` closes it. It does not help where the first copy is not on
   record: its broadcast threw after the network took it, the record was refused or
   lost, the sender died before it and its reservation has gone stale, or the later process
   could take no reservation.
2. **An append behind a dead process's lock can be lost** (`journal_unlocked`). It
   waits two seconds and then appends without the lock, while the lock becomes
   stale after thirty. If that happens just then, another process has stolen the lock
   and is between the read and the rename of a compaction, which
   then replaces the file without the new record. The comment on `pruneJournal`
   says that a concurrent append is never clobbered. `OnlyFreshTheftLoses` shows that
   these records are all that can be lost, theft of a fresh lock aside.
3. **The pending count is compared with itself** (`nonce_reuse`). Both numbers are
   answers to the same query, so a node that lags twice looks like a node with
   nothing pending, and the recorded nonce of another process is discarded.
4. **Foreign messages keep a DKLS keygen alive for ever** (`keygen_returns`). The
   inactivity clock restarts when a poll returns anything; a message that can
   never be fed stays on the relay and is returned by every poll. Where the
   deadline counts from the start of the attempt the same messages do no harm
   (`FixedDeadlineReturns`).
5. **A revision number does not survive a deletion** (`vault_aba`). An imported
   vault starts at revision 1 again. An instance opened at revision 1 before the
   vault was deleted and imported again passes for current, and its save replaces
   the imported record, key shares included.
6. **The first to have a signature may leave the other without** (`ceremony_drain`).
   The inbound loop aborts the outbound one when it has fed the last message it
   needs, and what the session still has to put out is never asked for. In a
   keygen the outbound loop goes on until the session is drained.
   `OnlyAbortStrands` shows that without failures this is the only way.

Known limits, reproducible with the modules but in no run:

- Two processes can steal one stale reservation: unlink and create are two steps,
  and the second contender unlinks the first one's fresh file. With two processes that
  may die and a clock past the lifetime (`Dying` with `time` 3) TLC finds `ReservationExclusive` and
  `Guarded` violated. The comment on the journal lock describes this interleaving; the
  reservation still has it. So no setting has two processes together with a stale
  reservation, or with `late`, and `ReservationExclusive`, `Guarded` and
  `OnlyCheckGap` say nothing of that case.
- The journal lock can be stolen while fresh: the rename takes whatever is at the
  path, and with three processes the fresh lock is away long enough for a third to
  get in (`RefinesJournal` with three processes). With two it cannot happen.
- A waiter whose journal lock vanishes between its failed create and its stat tries
  again without a look at the deadline (`acquireJournalLock`). `EveryCallReturns` holds
  because the other processes append a finite number of records.
- The grace period of 30 seconds and the lifetime of the state file are guesses about
  the node: where one fails, a process does reuse a nonce of its own. `OwnNonceFresh`
  excepts just the transactions for which it has failed.
- `setKeygenComplete` is not tried again: a report that was applied and whose answer is
  lost leaves the others with a vault of which one signer has no share. `VaultIsWhole`
  shows that this, a cancellation and a death are the only ways to such a vault.
- `processOutbound` of ML-DSA goes on after an error without a look at
  `isKeygenComplete`: a session whose output keeps throwing would keep the call
  although its inbound loop timed out. The model's engine does not throw there.

### Bounds, and why they are enough

Two processes are enough for every interleaving of a check-then-act pair; the one
hazard that needs a third (the stolen journal lock) is named above. Time is in
ticks: what matters is the order of the three limits (reservation lifetime 5 min
< window 10 min <= retention 60 min) and the cases *equal* and *one past*, so window 2,
lifetime 1 and a clock to 3 reach each side of each limit; the proofs cover the
other values. `Lag` is 0 in the runs and arbitrary in the proof of
`PruneIsInvisible`. Records, landings, `MaxNonce`, `MaxCrashes`, `MaxFaults`,
`MaxAttempts` (3 in the code, 2 here), `MaxTries` (3 in the code, 2 here), `MaxCalls` and `MaxEvents`
bound the length of a history; every action fires below them. Two attempts are one that may fail and
one that meets its remains. `Approving` and `Barred` have one
process because their properties are about what later commands make of the traces of earlier
ones, a stale reservation among them; `Dying` has two and a clock to 1, at which a reservation is as
old as it may be without being stale. Three appends with a line of an earlier day are a dead
process's, the one that waits behind its lock, and the one whose compaction has something to drop. Two rounds let a
message be early, in time or late; `ceremony_all` has a setting with three, since the
abort hits a device between its rounds. Three devices are needed where two may agree
without the third. `keygen_all` leaves `schnorrReshare` out: in the model it
is `mldsa` under another name. Two instances of a vault, in one process or in two,
are enough for a stale one; `MaxEvents` 2 lets each change the record once, or one
die. `CHECK_DEADLOCK FALSE` is set everywhere: clocks, records, nonces and attempts
run out, and a ceremony ends.

Symmetry is used for processes and hashes, in safety runs only.

### Faults

What may go wrong is a constant, or part of the setting, so that each run says what
its property survives: `crash` or `MaxCrashes`; `disk`, a record that cannot be
written; `fs`, a reservation, a rename or a state file that cannot be written;
`throw`, a broadcast that throws after the network took it; `late`, a live process
that outlives its own lock; `lag` and `evict`, the node; `stuck`, a lock file that cannot be
created; `slow`, a holder of the journal lock that takes two seconds; `setup`, `lose`, `down`, `undelete`, `slow` (here a party), `reject`, the relay and the engine of
a keygen; `post` and `get`, a request of a ceremony that fails, possibly after it was applied;
`cancel`, the application's abort signal; `full` and `busy`, a disk without space and
a storage lock that another process keeps for five seconds. No passing run enables
`late`: exclusion by a lock that expires does not survive it, and the code has no
answer to it.

### Fairness

`JournalFile!FairSpec`: a process that is in a call keeps taking steps (the code is
synchronous, so nothing else in the process can hold it up), and a deadline that may
pass does (`DeadlinePasses`: `Date.now()` advances). Both are weak fairness, process by
process. Crashes, expiry and the ageing of a lock are not assumed to happen.

`Keygen!FairSpec`: both loops of a party go on, since each iteration ends in a
timer or a request that is answered or fails, requests on the wire end, and a
deadline that may pass at poll after poll does. It is not assumed that a
particular message arrives or that a particular disjunct is taken. A deadline
passes without a fault only when waiting is of no use (`Stalled`): real deadlines of
minutes are taken to be longer than a running protocol needs, and the faults `slow`
and `down` are the exceptions, counted by `MaxFaults`.

`VaultStore!FairSpec`: what a call that was made does without its caller goes on
(promises, timers, system calls), and a save that is at the head of its queue gets
its turn (strong fairness of `SaveReads \/ SaveConflicts`): `withStorageWriteLock` is a
first-come chain of promises, so no other instance of the process can overtake it
for ever. Nobody is assumed to edit, load, import or delete.

`RelayCeremony!FairSpec`: some step of a loop, timer or request is taken as long as
there is one. That is enough because every such step is taken at most once, so none can be
overtaken for ever. Timers fire without a fault only when the device has nothing else to expect.

## 4. What is proved

| Theorem | For all | Assumes |
|---|---|---|
| `BroadcastGuardProofs!TypeCorrect` | processes, intents, hashes, times, settings | the ASSUMEs of the module |
| `BroadcastGuardProofs!PruneIsInvisible` | the same | `Retention >= Window + Lag` |
| `BroadcastGuardProofs!ReservationsExclude`, `AlwaysGuarded` | the same, with crashes | no `late`; processes that may die run one after the other (`Calm`) |
| `BroadcastGuardProofs!RecordedStaysRefused` | the same | `Retention >= Window + Lag` |
| `BroadcastGuardProofs!ApprovalFirst` | the same | a setting with `disk` has no command with an approval |
| `BroadcastGuardProofs!GapIsTheOnlyWay` | the same, with crashes | `Calm`, no `fs` |
| `JournalFileProofs!FileRefinesJournal` | processes, calls, triggers, failing writes | no crash, no `stuck`, no `slow` |
| `JournalFileProofs!JournalTypeCorrect` | the same, crashes | the ASSUMEs of the module |
| `JournalFileProofs!OnlyFreshTheftLoses` | the same, crashes, all faults | no process renames a lock away that is not stale |
| `EvmNonceProofs!ChainLockExcludes` | processes, nonces, gaps | no `late`; nobody has died |
| `EvmNonceProofs!NonceTypeCorrect`, `NonceHasNoGap`, `OwnNonceNeverReused` | processes, nonces, crashes, faults | the ASSUMEs of the module; the last excepts in its statement what is overdue, evicted or of two processes in the critical section |
| `KeygenProofs!KeygenTypeCorrect`, `ReturnsDrained`, `NothingDropped` | operations, parties, rounds, attempts, faults | the ASSUMEs of the module |
| `VaultStoreProofs!VaultTypeCorrect` | instances, processes, fields, bounds, faults | the ASSUMEs of the module |
| `VaultStoreProofs!StorageRefinesPromise` | the same, with crashes | the same |
| `VaultStoreHistory!BaselinesIdentified`, `RecordBeforePointer`, `DeletedStaysDeleted`, `OwnEditsOnly` | the same | the same |
| `RelayCeremonyProofs!CommitteesAreOne` | devices, settings, retries, faults | finitely many devices |
| `RelayCeremonyProofs!WholeVaults`, `VaultsForAll` | the same, chains | the same |
| `RelaySigningProofs!CallsInStep`, `CeremonyTypeCorrect`, `OnlyAbortsStrand`, `SomeoneSigns` | the same, messages, rounds | the same |

- `TypeCorrect`: `TypeOK` is inductive once it says that a process past its
  broadcast has a hash (`ProcTypes`).
- `PruneIsInvisible`: compaction may drop the resolution of a broadcast that is
  kept, or the other way round, so the property is not inductive. `HInv` adds
  that every dropped record is older than the retention (`GoneIsOld`) and that
  file order follows time up to `Lag` (`OrderFollowsTime`). A resolution that
  excuses a broadcast is not older than it, and any later one is younger than the
  window, so all that decides is still there. The assumption on `Retention` is
  what makes the last step go through; the code keeps six windows.
- `ReservationsExclude`: `LockInv` says that a held reservation has a file, young
  and of its holder, and that who is about to unlink a file found it stale (`StealsStale`). That a file a
  process found stale is still the same when it unlinks it needs one of two things (`Undisturbed`): where
  nobody dies, every file has a living holder, so none is ever stale; where processes
  die, they run one after the other. So nobody gets to unlink another's, and two holders would be
  two owners of one file. The first known limit above shows that one of the two is needed.
- `AlwaysGuarded`: a transaction that is not recorded is in the hands of a process that has its
  reservation, and by `LockInv` the file is there; or its sender has died, and the file it left is
  there until it is stale (`LeftIsLocked`). One that is recorded blocks its intent in the whole log,
  because a failure on record is older than a live copy with the same hash (`HashInv`), and
  by `PruneInvisible` in the compacted journal too. `SentInv` ties the hash a process holds to
  its leg. `HashInv`, `SentInv`, `HInv` and `TypeOK` together (`CInv`) are the basis of
  `ApprovalFirst` and `GapIsTheOnlyWay` as well.
- `RecordedStaysRefused`: `NothingKnown` says that no process goes on with a live broadcast it knew
  of when it made its check: a live record of the whole log is one `findRecentDuplicate` returns.
- `ApprovalFirst`: `ApprovedInv` says that whoever waits for its receipt has the approval on record,
  and whoever sends its main leg has it confirmed too. With a failing disk the code itself
  goes on without the record, hence the assumption.
- `GapIsTheOnlyWay`: what a process has checked and has still to send is due (`Due`). `TakenInv`
  says that it holds the reservations of what it is past reserving, so nobody else has an unrecorded copy
  of that; and `GapInv` that each recorded live copy of something due is in its gap, since
  a check that passes finds none (`JustChecked`). So a second copy is sent only where the first
  is in the gap, or is not on record for one of the reasons `Unrecorded` names: within its lifetime, a
  dead sender's file keeps others out as a living one's does (`LeftIsLocked`).
- `FileRefinesJournal`: `Inv` says that the lock file exists exactly while a process
  in its critical section holds it, and that what a compaction is about to
  write is the file without expired records. Each step is then a step of
  `Journal` or changes neither of its variables.
- `OnlyFreshTheftLoses`: with crashes a lock may be stale, and its owner dead; and whoever has waited
  for two seconds appends without it. `CrashInv` drops the claim that a lock has a living owner: who
  holds a release function has the lock (`HoldersLock`), and the snapshot of a compaction is the
  file, up to records appended without the lock (`SnapIsFile`), which are what `Journal` lets a
  compaction lose. A theft keeps this as long as the lock that is renamed away is stale;
  that is the hypothesis `StealsStale`, which the code does not guarantee: the second known
  limit below the findings is an execution with three processes that breaks it and loses a record
  appended under the lock. `journal_all` checks two processes without the hypothesis.
- `ChainLockExcludes`: `LockInv` says that, before any crash, the lock is never
  stale and belongs to whoever is past `acquireChainLock`.
- `NonceHasNoGap`: `GapInv` says that every nonce below what a process has read or chosen, and up to
  what the state file records, is mined or has a transaction (`Reached`), as long as none was
  dropped. A crash or a stale lock copies such a number and makes no new one.
- `OwnNonceNeverReused`: as long as no two processes were in the critical section at once (`overlap`),
  a remembered transaction is covered by the record of its own sender, whose transaction is still the
  one the node has for the recorded nonce (`OwnInv`); whoever is about to sign is above the record
  (`FileInv`); a node that counts a transaction counts those before it (`Closed`). A process's own transaction
  is counted, or recent enough that nobody asks, or was just sent, or is overdue (`GraceInv`): the
  theorem does not assume that a node is timely, and claims nothing of a transaction for
  which it was not.
- `KeygenTypeCorrect`: `TypeOK` is inductive with the conjunct that a session has put
  out only rounds for which it has every message of the earlier ones (`Available`);
  without it the attempt that an answer names could not be typed.
- `ReturnsDrained`: `DoneInv` says that a party past its last input has a message of
  every peer in every round, and that the outbound loop ends only after that or a
  timeout, and with nothing left to put out. The party that returns has both, so it
  has put out every round.
- `NothingDropped`: until somebody starts over (`First`), all sessions have one transcript
  (`OneTranscript`), so that no message is foreign; and what was put out is on its way, on the
  relay, taken or lost (`PutOutHeld`).
- `VaultTypeCorrect`: a request is typed by its key, so `TInv` adds that the request
  an instance has under way fits what it is doing (`Fits`): only then is the record a
  save commits known to be a record, and the answer to a pointer known to be one.
- `StorageRefinesPromise`: `StorageInv` says that whoever is past `lockFile` holds
  the lock, so nobody writes between another's comparison and its rename; and that
  the stages of a call go with its answer. Each step of `VaultStore` is then the
  invocation, effect or failure of one call of `AtomicStorage`, a crash the
  forgetting of some, or a stutter. Crashes need no assumption: the kernel
  releases the lock with its holder.
- `BaselinesIdentified`, `RecordBeforePointer`, `DeletedStaysDeleted`, `OwnEditsOnly`: none of
  these properties is inductive, since an instance may compare now with what it read long ago.
  `HistoryInv` speaks of all versions that anybody holds or is about to store (`Seen`): each
  save continues the version it read (`Continues`), of one life and one revision
  there is one content (`OneContent`), nobody holds a version of a life that has not begun or newer than
  the record of its life (`Lived`, `Latest`), and who is about to create the record begins a life of its
  own (`Unborn`). `OwnInv` says that an instance, and a save it made alone, differ from the baseline in
  edited fields only, and `NamedInv` that before any deletion nothing names a record that is not there.
- `CommitteesAreOne`: every device takes its committee from the relay's list at a
  moment of its own, while others may still join. `StageInv` ties the committee to the
  stage, and `OneCommittee` says that there is one set of joined devices, of the
  required number, which every committee and the relay's list of participants is. A device that
  looks later finds a list that contains this set and has as many members, or refuses it;
  that the two are equal is where the devices have to be finitely many.
- `WholeVaults`: `ShareInv` says that a device may be ahead of a member of its
  committee by at most one keygen, and that whoever reported has all its
  shares, and keeps them unless it reported in vain; it needs `CommitteesAreOne`'s invariant, as
  "the others" has to mean the same for all.
- `VaultsForAll`: when nothing failed, nobody stopped for another reason than the number of
  devices. `EndInv` says so, with what makes it inductive: a device of a vault's session is never in
  a stage of a signing, and has no reason to have failed as long as it has not.
- `CallsInStep`: `StepInv` says that a message on the relay is of a call its sender
  has come to, that an inbound loop that is done took a message of every peer in every round, and
  that therefore no participant is two calls behind another. `StartInv` ties a device's stage to
  the start of the session, and an untouched call to the stages before it. `CeremonyTypeCorrect`
  is proved with it, since what a device fetched has to belong to its call.
- `OnlyAbortsStrand`, `SomeoneSigns`: `CalmInv` describes a signing in which nothing failed: who
  started had joined, a setup is there for each message the initiator came to, and what a session
  has put out is on the relay or still to be posted. The argument is `StalledCut`: a timer fires
  when all participants wait. Take one of those furthest behind. If it waits for messages, it has all of the
  rounds before its last (it would not have put that one out), so it lacks one of somebody
  in the same call who has put out fewer rounds; that one waits too, and lacks one of somebody with
  fewer still, who has then not even answered the round it has. So somebody lacks a message of a
  device that has gone on: the cut the property allows. Who waits for a setup waits for the
  initiator, which is then further behind.

Every safety property of a passing run is stated by a theorem. Only model-checked
are: `ReservationExclusive`, `Guarded` and `OnlyCheckGap` with two processes that may die at once
(`Dying`), `OnlyCheckGap` where reservations cannot be written (`Barred`), and the refinement of
the journal when a lock is renamed away that was just made (two processes). The liveness properties (`EveryCallReturns`, `KeygenCompletes`,
`SetupLostEnds`, `FixedDeadlineReturns`, `SavesEnd`, `EveryDeviceEnds`) stay with TLC: proofs of
liveness under fairness are out of the prover's reach.

## 5. What is not modelled

- Fingerprints, hashes and messages are model values: their computation is not
  modelled, so nothing is said about two intents with one fingerprint.
- The content of transactions, gas, and the policy checks before signing.
- The protocol engines, wallet engines and relay server: external, described by
  what the code relies on.
- A reservation file's age is measured by the clock of the file system; the model
  has one clock.
- Partial lines of the journal: `appendFileSync` of a short line is one step.
- The nonce of a transaction whose approval leg precedes it is modelled as two
  uses of the lock, which is what `signEvmServerTx` does per leg.
- Batched keygens with their message namespaces and mirrored setup messages, a
  reshare that leaves an old member out, and ML-DSA signing.
- Whether all devices sort the messages of a transaction alike is taken from the code
  (`sort()` of hexadecimal hashes); the wrong order is a mutant.
- Storage: `list`, `clear`, the creation of the directory, and reads that are torn by
  other programs.
- The cache service: its values are balances, tiers and addresses that are read
  again after minutes, and nothing that is signed rests on them. Its two hazards, an
  invalidation that does not stop the computation in flight and a test for one that
  comes after an await, are understood without a model.
- Fast vaults and VultiServer, whose client is a sequence of HTTP calls around the same
  protocols, and the agent's conversation with its backend.
- The remaining components of section 1 are sequential, pure or input and output.
  They are also the bulk of the repository: chain data, encodings, command-line
  output.

## 6. Plan

1. `Keygen`: prepared setup messages of a batch; an output that throws.
2. `CacheService`: computations in flight against invalidation; abstract
   specification: a register that forgets.
3. The agent's token store and the recovery of a broken stream.
4. Fast vaults as a ceremony in which the server is a device that never cancels.
5. Proofs: `OnlyFreshTheftLoses` from a hypothesis on the number of processes; `Guarded` with
   two processes that die, up to the first stale reservation; what each finding's repair would establish.
