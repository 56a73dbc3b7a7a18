------------------------------ MODULE EvmNonce ------------------------------
(***************************************************************************)
(* How agent processes choose the nonces of one account on one EVM chain:  *)
(* the chain lock and the last used nonce that VaultStateStore.ts keeps on *)
(* disk, patchEvmNonce and signEvmServerTx of agent/executor.ts, and the   *)
(* node they ask for the nonce, which may not yet know a transaction just  *)
(* broadcast and may drop the pending ones.                                *)
(***************************************************************************)
EXTENDS Naturals

CONSTANTS
    Proc,          \* agent processes
    None,          \* no lock, dead owner, no state, no transaction, no answer
    MaxGap,        \* the gap patchEvmNonce still trusts unverified (3)
    MaxNonce,      \* bound on the nonces
    MaxCrashes,    \* bound on the crashes
    Faults         \* which of "lag", "evict", "fs", "throw", "late" may happen

Nonce == 0 .. MaxNonce
Tx == [by : Proc \cup {None}, seen : BOOLEAN, overdue : BOOLEAN]

ASSUME EvmNonceAssumption ==
    /\ MaxGap \in Nat /\ MaxNonce \in Nat /\ MaxCrashes \in Nat
    /\ None \notin Proc \cup Tx \cup Nat
    /\ None \notin [by : Proc \cup {None}, stale : BOOLEAN]
    /\ Faults \subseteq {"lag", "evict", "fs", "throw", "late"}

VARIABLES
    lock,    \* <chain>.lock: its owner, and whether it is past LOCK_STALE_MS
    state,   \* the nonce in <chain>.state.json, as long as it is heeded
    pc,      \* where each process is
    rpc,     \* the nonce prepareSendTx read
    nonce,   \* the nonce it will sign with
    recent,  \* it broadcast less than 30 s ago
    mined,   \* the account's nonce on chain
    pool,    \* the pending transaction of each nonce: whether the node counts
             \* it and, for the properties only, the process that sent it, as
             \* long as the state file remembers that for it, and whether one of
             \* the code's two time limits then passed over it
    crashes, \* how many processes died so far
    \* The remaining variables record history; no guard reads them.
    evicted, \* the node has dropped transactions
    overlap  \* two processes have been in the critical section at once

procVars == <<pc, rpc, nonce, recent>>
netVars  == <<mined, pool, evicted>>
vars == <<lock, state, procVars, netVars, crashes, overlap>>

Critical == {"prepare", "patch", "pending", "sign", "record"}
Phases == Critical \cup {"idle", "acquire", "inspect", "clean", "release", "unlink"}

Init ==
    /\ lock = None /\ state = None
    /\ pc = [p \in Proc |-> "idle"]
    /\ rpc = [p \in Proc |-> 0]
    /\ nonce = [p \in Proc |-> 0]
    /\ recent = [p \in Proc |-> FALSE]
    /\ mined = 0
    /\ pool = [n \in Nonce |-> None]
    /\ evicted = FALSE
    /\ crashes = 0
    /\ overlap = FALSE

Goto(p, label) == pc' = [pc EXCEPT ![p] = label]

-----------------------------------------------------------------------------
(* acquireChainLock *)

Begin(p) ==
    /\ pc[p] = "idle"
    /\ Goto(p, "acquire")
    /\ UNCHANGED <<lock, state, rpc, nonce, recent, netVars, crashes, overlap>>

(* open(lockPath, 'wx') succeeds ... *)
LockCreate(p) ==
    /\ pc[p] = "acquire"
    /\ lock = None
    /\ lock' = [by |-> p, stale |-> FALSE]
    /\ overlap' = (overlap \/ \E q \in Proc : pc[q] \in Critical)
    /\ Goto(p, "prepare")
    /\ UNCHANGED <<state, rpc, nonce, recent, netVars, crashes>>

(* ... or fails with EEXIST. *)
LockExists(p) ==
    /\ pc[p] = "acquire"
    /\ lock # None
    /\ Goto(p, "inspect")
    /\ UNCHANGED <<lock, state, rpc, nonce, recent, netVars, crashes, overlap>>

(* Variant of Inspect: every lock is taken for a stale one. *)
InspectCleansAny(p) ==
    /\ pc[p] = "inspect"
    /\ Goto(p, IF lock = None THEN "acquire" ELSE "clean")
    /\ UNCHANGED <<lock, state, rpc, nonce, recent, netVars, crashes, overlap>>

(* tryCleanStaleLock reads the lock file: gone (retry), stale (remove it), *)
(* or fresh (sleep and retry, or give up after LOCK_MAX_WAIT_MS).          *)
Inspect(p) ==
    /\ pc[p] = "inspect"
    /\ \/ lock = None /\ Goto(p, "acquire")
       \/ lock # None /\ lock.stale /\ Goto(p, "clean")
       \/ lock # None /\ ~ lock.stale /\ \E label \in {"acquire", "idle"} : Goto(p, label)
    /\ UNCHANGED <<lock, state, rpc, nonce, recent, netVars, crashes, overlap>>

(* ... and unlinks the path, whatever is there now. *)
Clean(p) ==
    /\ pc[p] = "clean"
    /\ lock' = None
    /\ Goto(p, "acquire")
    /\ UNCHANGED <<state, rpc, nonce, recent, netVars, crashes, overlap>>

(* What a command computed is gone when it ends. *)
Forget(p) ==
    /\ rpc' = [rpc EXCEPT ![p] = 0]
    /\ nonce' = [nonce EXCEPT ![p] = 0]

(* The release function reads the lock file and compares the token ... *)
Release(p) ==
    /\ pc[p] = "release"
    /\ Goto(p, IF lock # None /\ lock.by = p THEN "unlink" ELSE "idle")
    /\ Forget(p)
    /\ UNCHANGED <<lock, state, recent, netVars, crashes, overlap>>

(* ... and unlinks the path. *)
Unlink(p) ==
    /\ pc[p] = "unlink"
    /\ lock' = None
    /\ Goto(p, "idle")
    /\ UNCHANGED <<state, rpc, nonce, recent, netVars, crashes, overlap>>

-----------------------------------------------------------------------------
(* The node *)

(* The first nonce from mined on that has no transaction in f. *)
FirstFree(f) ==
    CHOOSE n \in mined .. MaxNonce + 1 :
        /\ n \in Nonce => ~ f[n]
        /\ \A k \in mined .. n - 1 : f[k]

PendingNext == FirstFree([n \in Nonce |-> pool[n] # None])
Counted == FirstFree([n \in Nonce |-> pool[n] # None /\ pool[n].seen])

(* What getTransactionCount(pending) may answer. *)
Views == Counted .. PendingNext

(* The node starts to count a transaction, in the order of the nonces. *)
Notice(n) ==
    /\ n = Counted
    /\ pool[n] # None /\ ~ pool[n].seen
    /\ pool' = [pool EXCEPT ![n].seen = TRUE]
    /\ UNCHANGED <<lock, state, procVars, mined, evicted, crashes, overlap>>

Mine ==
    /\ mined \in Nonce /\ pool[mined] # None
    /\ mined' = mined + 1
    /\ pool' = [pool EXCEPT ![mined] = None]
    /\ UNCHANGED <<lock, state, procVars, evicted, crashes, overlap>>

(* The pending transactions are dropped from the mempool. *)
Evict ==
    /\ "evict" \in Faults
    /\ \E n \in Nonce : pool[n] # None
    /\ pool' = [n \in Nonce |-> None]
    /\ evicted' = TRUE
    /\ UNCHANGED <<lock, state, procVars, mined, crashes, overlap>>

-----------------------------------------------------------------------------
(* signEvmServerTx under the lock *)

(* prepareSendTx reads the pending count from the node, or the latest one  *)
(* when that call fails.                                                   *)
Prepare(p) ==
    /\ pc[p] = "prepare"
    /\ \E v \in Views \cup {mined} : rpc' = [rpc EXCEPT ![p] = v]
    /\ Goto(p, "patch")
    /\ UNCHANGED <<lock, state, nonce, recent, netVars, crashes, overlap>>

(* Preparing, signing or broadcasting throws, and nothing was sent. *)
Fails(p) ==
    /\ pc[p] \in {"prepare", "sign"}
    /\ Goto(p, "release")
    /\ UNCHANGED <<lock, state, rpc, nonce, recent, netVars, crashes, overlap>>

Larger(a, b) == IF a > b THEN a ELSE b

GetNextEvmNonce(onChain) ==
    IF state = None THEN onChain ELSE Larger(onChain, state + 1)

(* What patchEvmNonce read is gone when it returns. *)
Forward(p, label) ==
    /\ Goto(p, label)
    /\ rpc' = IF label = "sign" THEN [rpc EXCEPT ![p] = 0] ELSE rpc

(* Variant of Patch: the node is asked again for a nonce that is its own. *)
PatchAlwaysAsks(p) ==
    /\ pc[p] = "patch"
    /\ nonce' = [nonce EXCEPT ![p] = GetNextEvmNonce(rpc[p])]
    /\ Forward(p, IF recent[p] THEN "sign" ELSE "pending")
    /\ UNCHANGED <<lock, state, recent, netVars, crashes, overlap>>

(* Variant of Patch: the grace period after a broadcast is forgotten. *)
PatchNoGrace(p) ==
    /\ pc[p] = "patch"
    /\ LET next == GetNextEvmNonce(rpc[p]) IN
         /\ nonce' = [nonce EXCEPT ![p] = next]
         /\ Forward(p, IF next = rpc[p] THEN "sign" ELSE "pending")
    /\ UNCHANGED <<lock, state, recent, netVars, crashes, overlap>>

(* patchEvmNonce: the local nonce is only used without asking the node     *)
(* again when this process broadcast recently.                             *)
Patch(p) ==
    /\ pc[p] = "patch"
    /\ LET next == GetNextEvmNonce(rpc[p]) IN
         /\ nonce' = [nonce EXCEPT ![p] = next]
         /\ Forward(p, IF next = rpc[p] \/ recent[p] THEN "sign" ELSE "pending")
    /\ UNCHANGED <<lock, state, recent, netVars, crashes, overlap>>

(* The transactions with a nonce in ns that a process in ps sent are       *)
(* remembered no more.                                                     *)
Forgotten(ps, ns) ==
    [n \in Nonce |-> IF n \in ns /\ pool[n] # None /\ pool[n].by \in ps
                     THEN [pool[n] EXCEPT !.by = None, !.overdue = FALSE] ELSE pool[n]]

(* fetchEvmPendingNonce answers v, or None.  The same answer as before, or *)
(* a large gap that cannot be verified, discards the local state.          *)
PendingAnswer(p) ==
    /\ pc[p] = "pending"
    /\ \E v \in Views \cup {None} :
         IF v = rpc[p] \/ (v = None /\ nonce[p] - rpc[p] > MaxGap)
         THEN /\ state' = None
              /\ pool' = Forgotten(IF v = None THEN Proc ELSE Proc \ {p}, Nonce)
              /\ nonce' = [nonce EXCEPT ![p] = rpc[p]]
         ELSE UNCHANGED <<state, nonce, pool>>
    /\ Forward(p, "sign")
    /\ UNCHANGED <<lock, recent, mined, evicted, crashes, overlap>>

(* The node takes the transaction, in place of one with the same nonce. *)
Lands(p, owner) ==
    /\ nonce[p] \in Nonce /\ nonce[p] >= mined
    /\ pool' = [pool EXCEPT ![nonce[p]] = [by |-> owner, seen |-> "lag" \notin Faults,
                                              overdue |-> FALSE]]

(* broadcastTx returns. *)
Broadcast(p) ==
    /\ pc[p] = "sign"
    /\ Lands(p, p)
    /\ Goto(p, "record")
    /\ UNCHANGED <<lock, state, rpc, nonce, recent, mined, evicted, crashes, overlap>>

(* broadcastTx throws after the transaction reached the node. *)
BroadcastLandsThenThrows(p) ==
    /\ "throw" \in Faults
    /\ pc[p] = "sign"
    /\ Lands(p, None)
    /\ Goto(p, "release")
    /\ UNCHANGED <<lock, state, rpc, nonce, recent, mined, evicted, crashes, overlap>>

(* Variant of Record: the recorded nonce counts the messages from one. *)
RecordNext(p) ==
    /\ pc[p] = "record"
    /\ recent' = [recent EXCEPT ![p] = TRUE]
    /\ state' = nonce[p] + 1
    /\ Goto(p, "release")
    /\ UNCHANGED <<lock, rpc, nonce, netVars, crashes, overlap>>

(* evmLastBroadcast is set and the nonce written, if the disk allows. *)
Record(p) ==
    /\ pc[p] = "record"
    /\ recent' = [recent EXCEPT ![p] = TRUE]
    /\ \/ /\ state' = nonce[p]
          /\ pool' = Forgotten(Proc \ {p}, Nonce)
       \/ /\ "fs" \in Faults
          /\ pool' = Forgotten({p}, {nonce[p]})
          /\ UNCHANGED state
    /\ Goto(p, "release")
    /\ UNCHANGED <<lock, rpc, nonce, mined, evicted, crashes, overlap>>

-----------------------------------------------------------------------------
(* Time and failures *)

Overdue(ns) ==
    [n \in Nonce |-> IF n \in ns /\ pool[n] # None /\ pool[n].by # None
                     THEN [pool[n] EXCEPT !.overdue = TRUE] ELSE pool[n]]

(* The nonces of p's transactions, but for one it has still to record. *)
Recorded(p) ==
    {n \in Nonce : /\ pool[n] # None /\ pool[n].by = p
                   /\ ~ (pc[p] = "record" /\ nonce[p] = n)}

(* 30 s have passed since p's last recorded broadcast, by the clock alone: *)
(* the node may still not count what p sent, which is then overdue.        *)
GraceEnds(p) ==
    /\ recent[p]
    /\ recent' = [recent EXCEPT ![p] = FALSE]
    /\ pool' = Overdue(IF \A n \in Recorded(p) : pool[n].seen THEN {} ELSE Recorded(p))
    /\ UNCHANGED <<lock, state, pc, rpc, nonce, mined, evicted, crashes, overlap>>

(* STATE_TTL_MS have passed since the file was written, by the clock       *)
(* alone: getNextEvmNonce heeds it no more.  What it remembers may still   *)
(* be pending, and is then overdue.                                        *)
AgeState ==
    /\ state # None
    /\ state' = None
    /\ pool' = Overdue(0 .. state)
    /\ UNCHANGED <<lock, procVars, mined, evicted, crashes, overlap>>

(* LOCK_STALE_MS have passed since the lock was taken. *)
AgeLock ==
    /\ lock # None /\ ~ lock.stale
    /\ lock.by = None \/ "late" \in Faults
    /\ lock' = [lock EXCEPT !.stale = TRUE]
    /\ UNCHANGED <<state, procVars, netVars, crashes, overlap>>

(* The process dies; what it broadcast is nobody's, and so is its lock. *)
Crash(p) ==
    /\ crashes < MaxCrashes
    /\ pc[p] # "idle"
    /\ crashes' = crashes + 1
    /\ Goto(p, "idle")
    /\ recent' = [recent EXCEPT ![p] = FALSE]
    /\ lock' = IF lock # None /\ lock.by = p THEN [lock EXCEPT !.by = None] ELSE lock
    /\ pool' = Forgotten({p}, Nonce)
    /\ Forget(p)
    /\ UNCHANGED <<state, mined, evicted, overlap>>

Step(p) ==
    \/ Begin(p) \/ LockCreate(p) \/ LockExists(p) \/ Inspect(p) \/ Clean(p)
    \/ Release(p) \/ Unlink(p)
    \/ Prepare(p) \/ Fails(p) \/ Patch(p) \/ PendingAnswer(p)
    \/ Broadcast(p) \/ BroadcastLandsThenThrows(p) \/ Record(p)
    \/ GraceEnds(p) \/ Crash(p)

Next ==
    \/ \E p \in Proc : Step(p)
    \/ \E n \in Nonce : Notice(n)
    \/ Mine \/ Evict \/ AgeState \/ AgeLock

Spec == Init /\ [][Next]_vars

-----------------------------------------------------------------------------
(* Properties *)

(* Every variable stays in its domain; a process about to remove its lock  *)
(* read its own token, and nobody waits for a nonce it does not need.      *)
TypeOK ==
    /\ lock \in [by : Proc \cup {None}, stale : BOOLEAN] \cup {None}
    /\ state \in Nat \cup {None}
    /\ pc \in [Proc -> Phases]
    /\ rpc \in [Proc -> Nat]
    /\ nonce \in [Proc -> Nat]
    /\ recent \in [Proc -> BOOLEAN]
    /\ mined \in 0 .. MaxNonce + 1
    /\ pool \in [Nonce -> Tx \cup {None}]
    /\ evicted \in BOOLEAN
    /\ crashes \in Nat
    /\ overlap \in BOOLEAN
    /\ \A p \in Proc : pc[p] = "pending" => nonce[p] > rpc[p]

(* As long as no process has died, at most one is between acquiring and    *)
(* releasing the chain lock (acquireChainLock).                            *)
LockExclusive ==
    crashes = 0 =>
        \A p, q \in Proc : pc[p] \in Critical /\ pc[q] \in Critical => p = q

(* p's transaction reaches the node in this step. *)
LandsNow(p) == pc[p] = "sign" /\ pool' # pool /\ pc'[p] \in {"record", "release"}

(* A process never sends a second transaction with the nonce of one it has *)
(* sent itself and that is still pending, whichever pending transactions   *)
(* the node counts (patchEvmNonce's grace period, recordEvmNonce).  This   *)
(* is claimed as long as the state file remembers the transaction (it was  *)
(* written, nobody else wrote the file since, it was not discarded         *)
(* unverified), no transaction is dropped, no two processes were in the    *)
(* critical section at once, and the code's two guesses about time hold:   *)
(* the node counts what a process sent within 30 s of its last broadcast   *)
(* (executor.ts:1651), and a transaction is mined within STATE_TTL_MS      *)
(* (VaultStateStore.ts:46).  A transaction for which a guess has failed is *)
(* overdue, and nothing is claimed about it.                               *)
OwnNonceFresh ==
    [][\A p \in Proc :
          LandsNow(p) /\ pool[nonce[p]] # None /\ pool[nonce[p]].by = p =>
              pool[nonce[p]].overdue \/ evicted \/ overlap]_vars

(* Unless transactions were dropped, no nonce is skipped: what is signed   *)
(* can be mined when its turn comes (getNextEvmNonce, recordEvmNonce).     *)
NoGap == \A p \in Proc : pc[p] = "sign" /\ ~ evicted => nonce[p] <= PendingNext

(* No nonce is used again while a transaction with it is pending, unless   *)
(* one of the code's time limits has passed over its sender's record of it *)
(* (VaultStateStore.ts).                                                   *)
NonceFresh ==
    [][\A p \in Proc :
          LandsNow(p) => pool[nonce[p]] = None \/ pool[nonce[p]].overdue]_vars

=============================================================================
