--------------------------- MODULE EvmNonceProofs ---------------------------
(***************************************************************************)
(* Proofs about EvmNonce, for any number of processes and nonces.  The     *)
(* chain lock excludes as long as nobody dies or is late; no nonce is      *)
(* skipped unless the node drops transactions; and patchEvmNonce never     *)
(* replaces a transaction that the state file remembers.                   *)
(***************************************************************************)
EXTENDS EvmNonce, FiniteSetTheorems, TLAPS

-----------------------------------------------------------------------------
(* The nonces a node answers *)

LEMMA Least ==
    ASSUME NEW S \in SUBSET Nat, S # {}
    PROVE  \E n \in S : \A k \in S : n <= k
<1> DEFINE Below(n) == 0 .. n - 1
           Belows == {Below(n) : n \in S}
           R == StrictSubsetOrdering(Nat)
           F == FiniteSubsetsOf(Nat)
<1>1. IsWellFoundedOn(R, F)
      BY FS_StrictSubsetOrderingWellFounded
<1>2. Belows \subseteq F
  <2>1. ASSUME NEW n \in S PROVE Below(n) \in SUBSET Nat /\ IsFiniteSet(Below(n))
        BY FS_Interval
  <2>2. QED BY <2>1 DEF FiniteSubsetsOf
<1>3. Belows # {} OBVIOUS
<1>4. PICK B \in Belows : \A C \in Belows : <<C, B>> \notin R
  <2> HIDE DEF Belows, R, F
  <2> QED BY <1>1, <1>2, <1>3, WFMin
<1>5. PICK n \in S : B = Below(n) OBVIOUS
<1>6. ASSUME NEW k \in S PROVE n <= k
  <2>1. SUFFICES ASSUME k < n PROVE FALSE OBVIOUS
  <2>2. Below(k) \subseteq Below(n) /\ k \in Below(n) /\ k \notin Below(k) BY <2>1
  <2>3. Below(k) \in SUBSET Nat /\ Below(n) \in SUBSET Nat OBVIOUS
  <2> HIDE DEF Below
  <2>4. <<Below(k), Below(n)>> \in R BY <2>2, <2>3 DEF StrictSubsetOrdering
  <2>5. QED BY <1>4, <1>5, <2>4
<1>7. QED BY <1>6

LEMMA FirstFreeIs ==
    ASSUME mined \in 0 .. MaxNonce + 1, NEW f \in [Nonce -> BOOLEAN]
    PROVE  /\ FirstFree(f) \in mined .. MaxNonce + 1
           /\ FirstFree(f) \in Nonce => ~ f[FirstFree(f)]
           /\ \A k \in mined .. FirstFree(f) - 1 : f[k]
<1> DEFINE Free == {n \in mined .. MaxNonce + 1 : n \in Nonce => ~ f[n]}
<1>1. MaxNonce \in Nat BY EvmNonceAssumption
<1>2. Free \subseteq Nat /\ MaxNonce + 1 \in Free BY <1>1 DEF Nonce
<1>3. PICK n \in Free : \A k \in Free : n <= k
  <2> HIDE DEF Free
  <2> QED BY <1>2, Least
<1>4. \A k \in mined .. n - 1 : f[k] BY <1>1, <1>3 DEF Nonce
<1>5. QED BY <1>3, <1>4 DEF FirstFree

(* What a node may answer for the pending count is a nonce, and one it has *)
(* no transaction for.                                                     *)
LEMMA Answers ==
    ASSUME TypeOK
    PROVE  /\ PendingNext \in mined .. MaxNonce + 1
           /\ PendingNext \in Nonce => pool[PendingNext] = None
           /\ \A k \in mined .. PendingNext - 1 : pool[k] # None
           /\ Counted \in mined .. MaxNonce + 1
           /\ Counted \in Nonce => pool[Counted] = None \/ ~ pool[Counted].seen
           /\ \A k \in mined .. Counted - 1 : pool[k] # None /\ pool[k].seen
<1>1. mined \in 0 .. MaxNonce + 1 /\ MaxNonce \in Nat BY EvmNonceAssumption DEF TypeOK
<1> DEFINE f == [n \in Nonce |-> pool[n] # None]
           g == [n \in Nonce |-> pool[n] # None /\ pool[n].seen]
<1>2. f \in [Nonce -> BOOLEAN] OBVIOUS
<1>3. g \in [Nonce -> BOOLEAN]
  <2>1. ASSUME NEW n \in Nonce PROVE (pool[n] # None /\ pool[n].seen) \in BOOLEAN OBVIOUS
  <2>2. QED BY <2>1
<1>4. PendingNext = FirstFree(f) /\ Counted = FirstFree(g) BY DEF PendingNext, Counted
<1>5. \A k \in mined .. MaxNonce : k \in Nonce BY <1>1 DEF Nonce
<1> HIDE DEF f, g
<1>6. /\ PendingNext \in mined .. MaxNonce + 1
      /\ PendingNext \in Nonce => ~ f[PendingNext]
      /\ \A k \in mined .. PendingNext - 1 : f[k]
      BY <1>1, <1>2, <1>4, FirstFreeIs
<1>7. /\ Counted \in mined .. MaxNonce + 1
      /\ Counted \in Nonce => ~ g[Counted]
      /\ \A k \in mined .. Counted - 1 : g[k]
      BY <1>1, <1>3, <1>4, FirstFreeIs
<1>8. \A n : n \in mined .. MaxNonce + 1 => mined .. n - 1 \subseteq Nonce BY <1>1 DEF Nonce
<1>9. QED BY <1>6, <1>7, <1>8 DEF f, g

LEMMA ViewsAreNonces == TypeOK => Views \cup {mined} \subseteq 0 .. MaxNonce + 1
BY Answers, EvmNonceAssumption DEF TypeOK, Views

-----------------------------------------------------------------------------
(* Types *)

LEMMA NoneIsNone ==
    /\ \A t \in Tx : t # None
    /\ \A n \in Nat : n # None
    /\ \A l \in [by : Proc \cup {None}, stale : BOOLEAN] : l # None
BY EvmNonceAssumption

LEMMA ForgottenType ==
    ASSUME TypeOK, NEW ps, NEW ns
    PROVE  /\ Forgotten(ps, ns) \in [Nonce -> Tx \cup {None}]
           /\ \A n \in Nonce : Forgotten(ps, ns)[n] = None <=> pool[n] = None
<1>1. ASSUME NEW n \in Nonce, pool[n] # None
      PROVE  [pool[n] EXCEPT !.by = None, !.overdue = FALSE] \in Tx
      BY <1>1 DEF TypeOK, Tx
<1>2. QED BY <1>1, NoneIsNone DEF TypeOK, Forgotten

LEMMA OverdueType ==
    ASSUME TypeOK, NEW ns
    PROVE  /\ Overdue(ns) \in [Nonce -> Tx \cup {None}]
           /\ \A n \in Nonce : Overdue(ns)[n] = None <=> pool[n] = None
<1>1. ASSUME NEW n \in Nonce, pool[n] # None
      PROVE  [pool[n] EXCEPT !.overdue = TRUE] \in Tx
      BY <1>1 DEF TypeOK, Tx
<1>2. QED BY <1>1, NoneIsNone DEF TypeOK, Overdue

LEMMA LandsType ==
    ASSUME TypeOK, NEW p \in Proc, NEW owner \in Proc \cup {None}, Lands(p, owner)
    PROVE  pool' \in [Nonce -> Tx \cup {None}]
BY DEF TypeOK, Lands, Tx

LEMMA TypeStep ==
    ASSUME TypeOK, NEW p \in Proc, Step(p)
    PROVE  TypeOK'
<1> USE DEF Goto, Forward, Forget, netVars, procVars
<1>p. Phases = {"prepare", "patch", "pending", "sign", "record", "idle", "acquire",
                "inspect", "clean", "release", "unlink"} BY DEF Phases, Critical
<1>1. CASE Begin(p) BY <1>1, <1>p DEF TypeOK, Begin
<1>2. CASE LockCreate(p) BY <1>2, <1>p DEF TypeOK, LockCreate
<1>3. CASE LockExists(p) BY <1>3, <1>p DEF TypeOK, LockExists
<1>4. CASE Inspect(p) BY <1>4, <1>p DEF TypeOK, Inspect
<1>5. CASE Clean(p) BY <1>5, <1>p DEF TypeOK, Clean
<1>6. CASE Release(p) BY <1>6, <1>p DEF TypeOK, Release
<1>7. CASE Unlink(p) BY <1>7, <1>p DEF TypeOK, Unlink
<1>8. CASE Prepare(p) BY <1>8, <1>p, ViewsAreNonces DEF TypeOK, Prepare
<1>9. CASE Fails(p) BY <1>9, <1>p DEF TypeOK, Fails
<1>10. CASE Patch(p)
  <2> DEFINE next == GetNextEvmNonce(rpc[p])
  <2>1. next \in Nat /\ next >= rpc[p]
        BY DEF TypeOK, GetNextEvmNonce, Larger
  <2>2. /\ nonce' = [nonce EXCEPT ![p] = next]
        /\ pc' = [pc EXCEPT ![p] = IF next = rpc[p] \/ recent[p] THEN "sign" ELSE "pending"]
        BY <1>10 DEF Patch
  <2> HIDE DEF next
  <2>3. nonce' \in [Proc -> Nat] /\ pc' \in [Proc -> Phases] BY <2>1, <2>2, <1>p DEF TypeOK
  <2>4. rpc' = IF pc'[p] = "sign" THEN [rpc EXCEPT ![p] = 0] ELSE rpc
        BY <1>10, <2>2 DEF Patch, next, TypeOK
  <2>5. \A q \in Proc : pc'[q] = "pending" => nonce'[q] > rpc'[q]
        BY <2>1, <2>2, <2>4 DEF TypeOK
  <2>6. rpc' \in [Proc -> Nat] BY <2>4 DEF TypeOK
  <2>7. QED BY <1>10, <2>3, <2>5, <2>6 DEF TypeOK, Patch
<1>11. CASE PendingAnswer(p)
  <2>1. /\ state' \in {state, None}
        /\ pool' \in [Nonce -> Tx \cup {None}]
        /\ nonce' \in {nonce, [nonce EXCEPT ![p] = rpc[p]]}
        /\ pc' = [pc EXCEPT ![p] = "sign"] /\ rpc' = [rpc EXCEPT ![p] = 0]
        BY <1>11, ForgottenType DEF PendingAnswer, TypeOK
  <2>2. nonce' \in [Proc -> Nat] BY <2>1 DEF TypeOK
  <2>3. \A q \in Proc : pc'[q] = "pending" => nonce'[q] > rpc'[q] BY <2>1 DEF TypeOK
  <2>4. pc' \in [Proc -> Phases] /\ rpc' \in [Proc -> Nat] BY <2>1, <1>p DEF TypeOK
  <2>5. QED BY <1>11, <2>1, <2>2, <2>3, <2>4 DEF TypeOK, PendingAnswer
<1>12. CASE Broadcast(p) BY <1>12, <1>p, LandsType DEF TypeOK, Broadcast
<1>13. CASE BroadcastLandsThenThrows(p) BY <1>13, <1>p, LandsType DEF TypeOK, BroadcastLandsThenThrows
<1>14. CASE Record(p)
  <2>1. pool' \in [Nonce -> Tx \cup {None}] BY <1>14, ForgottenType DEF Record
  <2>2. state' \in Nat \cup {None} BY <1>14 DEF Record, TypeOK
  <2>3. QED BY <1>14, <1>p, <2>1, <2>2 DEF TypeOK, Record
<1>15. CASE GraceEnds(p)
  <2>1. pool' \in [Nonce -> Tx \cup {None}] BY <1>15, OverdueType DEF GraceEnds
  <2>2. QED BY <1>15, <2>1 DEF TypeOK, GraceEnds
<1>16. CASE Crash(p)
  <2>1. pool' \in [Nonce -> Tx \cup {None}] BY <1>16, ForgottenType DEF Crash
  <2>2. lock # None => [lock EXCEPT !.by = None] \in [by : Proc \cup {None}, stale : BOOLEAN]
        BY DEF TypeOK
  <2>3. lock' \in [by : Proc \cup {None}, stale : BOOLEAN] \cup {None} BY <1>16, <2>2 DEF Crash, TypeOK
  <2>4. /\ rpc' \in [Proc -> Nat] /\ nonce' \in [Proc -> Nat] /\ recent' \in [Proc -> BOOLEAN]
        /\ pc' \in [Proc -> Phases] /\ crashes' \in Nat
        BY <1>16, <1>p DEF TypeOK, Crash
  <2>5. \A q \in Proc : pc'[q] = "pending" => nonce'[q] > rpc'[q]
        BY <1>16 DEF TypeOK, Crash
  <2>6. QED BY <1>16, <2>1, <2>3, <2>4, <2>5 DEF TypeOK, Crash
<1>17. QED
       BY <1>1, <1>2, <1>3, <1>4, <1>5, <1>6, <1>7, <1>8, <1>9, <1>10, <1>11, <1>12,
          <1>13, <1>14, <1>15, <1>16 DEF Step

LEMMA TypeNext == TypeOK /\ [Next]_vars => TypeOK'
<1> SUFFICES ASSUME TypeOK, [Next]_vars PROVE TypeOK' OBVIOUS
<1>1. CASE \E p \in Proc : Step(p) BY <1>1, TypeStep
<1>2. CASE \E n \in Nonce : Notice(n)
  <2>1. PICK n \in Nonce : Notice(n) BY <1>2
  <2>2. [pool[n] EXCEPT !.seen = TRUE] \in Tx BY <2>1 DEF Notice, TypeOK, Tx
  <2>3. pool' \in [Nonce -> Tx \cup {None}] BY <2>1, <2>2 DEF Notice, TypeOK
  <2>4. QED BY <2>1, <2>3 DEF Notice, TypeOK, procVars
<1>3. CASE Mine
  <2>1. mined' \in 0 .. MaxNonce + 1 BY <1>3, EvmNonceAssumption DEF Mine, Nonce
  <2>2. QED BY <1>3, <2>1 DEF Mine, TypeOK, procVars
<1>4. CASE Evict BY <1>4 DEF Evict, TypeOK, procVars
<1>5. CASE AgeState
  <2>1. pool' \in [Nonce -> Tx \cup {None}] BY <1>5, OverdueType DEF AgeState
  <2>2. QED BY <1>5, <2>1 DEF AgeState, TypeOK, procVars
<1>6. CASE AgeLock BY <1>6 DEF AgeLock, TypeOK, procVars, netVars
<1>7. CASE UNCHANGED vars BY <1>7 DEF vars, procVars, netVars, TypeOK
<1>8. QED BY <1>1, <1>2, <1>3, <1>4, <1>5, <1>6, <1>7 DEF Next

LEMMA TypeInit == Init => TypeOK
<1> SUFFICES ASSUME Init PROVE TypeOK OBVIOUS
<1>1. mined \in 0 .. MaxNonce + 1 BY EvmNonceAssumption DEF Init
<1>2. pc \in [Proc -> Phases] /\ \A p \in Proc : pc[p] # "pending" BY DEF Init, Phases
<1>3. pool \in [Nonce -> Tx \cup {None}] BY DEF Init
<1>4. QED BY <1>1, <1>2, <1>3 DEF Init, TypeOK

(* The files, the nonces of the processes and the node's transactions keep *)
(* their domains; a process asks the node again only for a nonce above the *)
(* one it read (patchEvmNonce).                                            *)
THEOREM NonceTypeCorrect == Spec => []TypeOK
BY TypeInit, TypeNext, PTL DEF Spec

-----------------------------------------------------------------------------
(* The chain lock *)

Holding == Critical \cup {"release", "unlink"}

(* A lock that is never stale is never removed by anybody but its owner,   *)
(* so whoever is past acquireChainLock owns it.                            *)
LockInv ==
    crashes = 0 =>
        /\ lock # None => lock.by \in Proc /\ ~ lock.stale
        /\ \A p \in Proc : /\ pc[p] # "clean"
                           /\ pc[p] \in Holding => lock # None /\ lock.by = p

LEMMA LockInvStep ==
    ASSUME TypeOK, LockInv, [Next]_vars, "late" \notin Faults
    PROVE  LockInv'
<1>t. pc \in [Proc -> Phases] /\ crashes \in Nat
  BY DEF TypeOK
<1> USE <1>t DEF LockInv, Holding, Phases, Critical, Goto
<1>0. None \notin Proc /\ None \notin [by : Proc \cup {None}, stale : BOOLEAN]
  BY EvmNonceAssumption
<1>1. CASE UNCHANGED vars
  BY <1>1 DEF vars, procVars
<1>2. ASSUME NEW p \in Proc, Step(p) PROVE LockInv'
  <2>1. CASE Begin(p)
    BY <2>1 DEF Begin
  <2>2. CASE LockCreate(p)
    <3>1. /\ pc[p] = "acquire" /\ lock = None
          /\ lock' = [by |-> p, stale |-> FALSE]
          /\ pc' = [pc EXCEPT ![p] = "prepare"] /\ crashes' = crashes
      BY <2>2 DEF LockCreate
    <3>2. [by |-> p, stale |-> FALSE] # None
      <4>1. [by |-> p, stale |-> FALSE] \in [by : Proc \cup {None}, stale : BOOLEAN]
        OBVIOUS
      <4> QED
        BY <1>0, <4>1, Zenon
    <3>3. lock' # None /\ lock'.by = p /\ ~ lock'.stale
      BY <3>1, <3>2
    <3>4. ASSUME crashes' = 0, NEW q \in Proc
          PROVE  pc'[q] # "clean" /\ (pc'[q] \in Holding => q = p)
      BY <3>1, <3>4
    <3> QED
      BY <3>3, <3>4
  <2>3. CASE LockExists(p)
    BY <2>3 DEF LockExists
  <2>4. CASE Inspect(p)
    BY <2>4 DEF Inspect
  <2>5. CASE Clean(p)
    BY <2>5 DEF Clean
  <2>6. CASE Release(p)
    BY <2>6 DEF Release
  <2>7. CASE Unlink(p)
    BY <2>7 DEF Unlink
  <2>8. CASE Prepare(p) \/ Fails(p) \/ Patch(p) \/ PendingAnswer(p)
    BY <2>8 DEF Prepare, Fails, Patch, PendingAnswer, Forward
  <2>9. CASE Broadcast(p) \/ BroadcastLandsThenThrows(p) \/ Record(p) \/ GraceEnds(p)
    BY <2>9 DEF Broadcast, BroadcastLandsThenThrows, Record, GraceEnds, procVars
  <2>10. CASE Crash(p)
    <3>1. crashes' = crashes + 1 /\ crashes \in Nat
      BY <2>10 DEF Crash
    <3> QED
      BY <3>1
  <2> QED
    BY <1>2, <2>1, <2>2, <2>3, <2>4, <2>5, <2>6, <2>7, <2>8, <2>9, <2>10 DEF Step
<1>3. CASE \E n \in Nonce : Notice(n)
  BY <1>3 DEF Notice, procVars
<1>4. CASE Mine \/ Evict \/ AgeState
  BY <1>4 DEF Mine, Evict, AgeState, procVars
<1>5. CASE AgeLock
  BY <1>5, <1>0 DEF AgeLock, procVars
<1> QED
  BY <1>1, <1>2, <1>3, <1>4, <1>5 DEF Next

(* As long as nobody dies or is late, two processes are never between      *)
(* acquiring and releasing the chain lock, for any number of processes and *)
(* whatever the node does.                                                 *)
THEOREM ChainLockExcludes ==
    ASSUME "late" \notin Faults
    PROVE  Spec => []LockExclusive
<1>1. Init => TypeOK /\ LockInv
  BY TypeInit DEF Init, LockInv, Phases, Critical, Holding
<1>2. TypeOK /\ LockInv /\ [Next]_vars => TypeOK' /\ LockInv'
  BY TypeNext, LockInvStep
<1>3. LockInv => LockExclusive
  BY DEF LockInv, LockExclusive, Holding
<1> QED
  BY <1>1, <1>2, <1>3, PTL DEF Spec

-----------------------------------------------------------------------------
(* No nonce is skipped *)

(* Every nonce below n is mined or has a transaction. *)
Reached(n) == \A k \in mined .. n - 1 : k \in Nonce /\ pool[k] # None

(* The same after a step. *)
ReachedThen(n) == \A k \in mined' .. n - 1 : k \in Nonce /\ pool'[k] # None

(* As long as nothing is dropped, what the state file and the processes    *)
(* remember is at most the first nonce without a transaction.              *)
GapInv ==
    ~ evicted =>
        /\ state # None => Reached(state + 1)
        /\ \A p \in Proc :
              /\ pc[p] \in {"patch", "pending"} => Reached(rpc[p])
              /\ pc[p] \in {"pending", "sign"} => Reached(nonce[p])
              /\ pc[p] = "record" => Reached(nonce[p] + 1)

LEMMA ReachedIs ==
    ASSUME TypeOK, NEW n \in Nat
    PROVE  n <= PendingNext <=> Reached(n)
<1>1. mined \in 0 .. MaxNonce + 1 /\ MaxNonce \in Nat BY EvmNonceAssumption DEF TypeOK
<1>2. /\ PendingNext \in mined .. MaxNonce + 1
      /\ PendingNext \in Nonce => pool[PendingNext] = None
      /\ \A k \in mined .. PendingNext - 1 : pool[k] # None
      BY Answers
<1> DEFINE m == PendingNext
<1> HIDE DEF m
<1>3. ASSUME n <= m PROVE Reached(n) BY <1>1, <1>2, <1>3 DEF Reached, Nonce, m
<1>4. ASSUME Reached(n), ~ (n <= m) PROVE FALSE
  <2>1. m \in mined .. n - 1 BY <1>1, <1>2, <1>4 DEF m
  <2>2. m \in Nonce /\ pool[m] # None BY <1>4, <2>1 DEF Reached
  <2>3. QED BY <1>2, <2>2 DEF m
<1>5. QED BY <1>3, <1>4 DEF m

(* The node forgets no transaction but by mining it. *)
Grows ==
    /\ mined' >= mined
    /\ \A k \in Nonce : k >= mined' /\ pool[k] # None => pool'[k] # None

LEMMA ReachedGrows ==
    ASSUME TypeOK, TypeOK', Grows, NEW n \in Nat, Reached(n)
    PROVE  ReachedThen(n)
BY DEF Grows, Reached, ReachedThen, TypeOK, Nonce

LEMMA StepGrows ==
    ASSUME TypeOK, NEW p \in Proc, Step(p)
    PROVE  Grows /\ evicted' = evicted
<1>1. \A ps, ns : \A n \in Nonce : Forgotten(ps, ns)[n] = None <=> pool[n] = None
      BY ForgottenType
<1>2. mined' = mined /\ evicted' = evicted
      BY DEF Step, Begin, LockCreate, LockExists, Inspect, Clean, Release, Unlink, Prepare,
             Fails, Patch, PendingAnswer, Broadcast, BroadcastLandsThenThrows, Record,
             GraceEnds, Crash, netVars
<1>3. CASE pool' = pool BY <1>2, <1>3 DEF Grows, TypeOK
<1>4. CASE \E ps, ns : pool' = Forgotten(ps, ns) BY <1>1, <1>2, <1>4 DEF Grows, TypeOK
<1>o. CASE GraceEnds(p) BY <1>2, <1>o, OverdueType DEF Grows, GraceEnds, TypeOK
<1>5. ASSUME NEW owner \in Proc \cup {None}, Lands(p, owner) PROVE Grows
  <2>1. [by |-> owner, seen |-> "lag" \notin Faults, overdue |-> FALSE] # None BY NoneIsNone DEF Tx
  <2>2. QED BY <1>2, <1>5, <2>1 DEF Grows, Lands, TypeOK
<1>6. CASE Broadcast(p) \/ BroadcastLandsThenThrows(p)
      BY <1>2, <1>5, <1>6 DEF Broadcast, BroadcastLandsThenThrows
<1>7. CASE PendingAnswer(p) BY <1>2, <1>3, <1>4, <1>7 DEF PendingAnswer
<1>8. CASE Record(p) BY <1>2, <1>4, <1>8 DEF Record
<1>9. CASE Crash(p) BY <1>2, <1>4, <1>9 DEF Crash
<1>10. QED
       BY <1>2, <1>3, <1>6, <1>7, <1>8, <1>9, <1>o
       DEF Step, Begin, LockCreate, LockExists, Inspect, Clean, Release, Unlink, Prepare,
           Fails, Patch, netVars

LEMMA GapStep ==
    ASSUME TypeOK, TypeOK', GapInv, NEW p \in Proc, Step(p)
    PROVE  GapInv'
<1> SUFFICES ASSUME ~ evicted' PROVE GapInv' BY DEF GapInv
<1>1. Grows /\ ~ evicted BY StepGrows
<1>2. \A n \in Nat : Reached(n) => ReachedThen(n) BY <1>1, ReachedGrows
<1>3. /\ state # None => Reached(state + 1)
      /\ \A q \in Proc :
            /\ pc[q] \in {"patch", "pending"} => Reached(rpc[q])
            /\ pc[q] \in {"pending", "sign"} => Reached(nonce[q])
            /\ pc[q] = "record" => Reached(nonce[q] + 1)
      BY <1>1 DEF GapInv
<1>4. /\ state # None => state \in Nat /\ state + 1 \in Nat
      /\ \A q \in Proc : rpc[q] \in Nat /\ nonce[q] \in Nat /\ nonce[q] + 1 \in Nat
      BY DEF TypeOK
<1>5. /\ state # None => ReachedThen(state + 1)
      /\ \A q \in Proc :
            /\ pc[q] \in {"patch", "pending"} => ReachedThen(rpc[q])
            /\ pc[q] \in {"pending", "sign"} => ReachedThen(nonce[q])
            /\ pc[q] = "record" => ReachedThen(nonce[q] + 1)
      BY <1>2, <1>3, <1>4
<1> DEFINE StateGap == state' # None => ReachedThen(state' + 1)
           ProcGap(q) == /\ pc'[q] \in {"patch", "pending"} => ReachedThen(rpc'[q])
                         /\ pc'[q] \in {"pending", "sign"} => ReachedThen(nonce'[q])
                         /\ pc'[q] = "record" => ReachedThen(nonce'[q] + 1)
<1>6. SUFFICES StateGap /\ \A q \in Proc : ProcGap(q) BY DEF GapInv, Reached, ReachedThen
<1>q. ASSUME NEW q \in Proc, pc'[q] = pc[q], rpc'[q] = rpc[q], nonce'[q] = nonce[q]
      PROVE  ProcGap(q)
      BY <1>5, <1>q
<1>s. ASSUME state' = state PROVE StateGap BY <1>5, <1>s
<1> HIDE DEF StateGap
<1> USE DEF Goto, Forward, Forget, netVars, procVars
<1>7. CASE \/ Begin(p) \/ LockCreate(p) \/ LockExists(p) \/ Inspect(p) \/ Clean(p)
           \/ Release(p) \/ Unlink(p) \/ Crash(p)
           \/ Fails(p) \/ GraceEnds(p)
  <2>1. state' = state BY <1>7 DEF Begin, LockCreate, LockExists, Inspect, Clean, Release, Unlink,
                                  Crash, Fails, GraceEnds
  <2>2. ASSUME NEW q \in Proc PROVE ProcGap(q)
    <3>1. \/ pc'[q] = pc[q] /\ rpc'[q] = rpc[q] /\ nonce'[q] = nonce[q]
          \/ pc'[q] \notin {"patch", "pending", "sign", "record"}
          BY <1>7 DEF TypeOK, Begin, LockCreate, LockExists, Inspect, Clean, Release, Unlink,
                      Crash, Fails, GraceEnds
    <3>2. QED BY <1>q, <3>1
  <2>3. QED BY <1>s, <2>1, <2>2
<1>8. CASE Prepare(p)
  <2>1. PICK v \in Views \cup {mined} : rpc' = [rpc EXCEPT ![p] = v] BY <1>8 DEF Prepare
  <2>2. v \in 0 .. MaxNonce + 1 /\ v <= PendingNext
        BY Answers, ViewsAreNonces, EvmNonceAssumption DEF TypeOK, Views
  <2>3. ReachedThen(v) BY <1>2, <2>2, ReachedIs
  <2>4. ProcGap(p) BY <1>8, <2>1, <2>3 DEF Prepare, TypeOK
  <2>5. \A q \in Proc \ {p} : ProcGap(q) BY <1>8, <2>1, <1>q DEF Prepare, TypeOK
  <2>6. QED BY <1>8, <1>s, <2>4, <2>5 DEF Prepare
<1>9. CASE Patch(p)
  <2> DEFINE next == GetNextEvmNonce(rpc[p])
  <2>1. next = rpc[p] \/ (state # None /\ next = state + 1)
        BY DEF GetNextEvmNonce, Larger
  <2>2. /\ nonce' = [nonce EXCEPT ![p] = next]
        /\ pc' = [pc EXCEPT ![p] = IF next = rpc[p] \/ recent[p] THEN "sign" ELSE "pending"]
        /\ rpc' = IF next = rpc[p] \/ recent[p] THEN [rpc EXCEPT ![p] = 0] ELSE rpc
        /\ pc[p] = "patch" /\ state' = state
        BY <1>9 DEF Patch, TypeOK
  <2> HIDE DEF next
  <2>3. ReachedThen(rpc[p]) /\ ReachedThen(next) BY <1>5, <2>1, <2>2
  <2>4. /\ pc'[p] \in {"sign", "pending"} /\ nonce'[p] = next
        /\ pc'[p] = "pending" => rpc'[p] = rpc[p]
        BY <2>2 DEF TypeOK
  <2>5. ProcGap(p) BY <2>3, <2>4
  <2>6. \A q \in Proc \ {p} : ProcGap(q) BY <2>2, <1>q DEF TypeOK
  <2>7. QED BY <2>2, <1>s, <2>5, <2>6
<1>10. CASE PendingAnswer(p)
  <2>1. /\ state' \in {state, None}
        /\ nonce' \in {nonce, [nonce EXCEPT ![p] = rpc[p]]}
        /\ pc' = [pc EXCEPT ![p] = "sign"] /\ rpc' = [rpc EXCEPT ![p] = 0] /\ pc[p] = "pending"
        BY <1>10 DEF PendingAnswer
  <2>2. nonce'[p] \in {nonce[p], rpc[p]} /\ pc'[p] = "sign" BY <2>1 DEF TypeOK
  <2>3. ProcGap(p) BY <1>5, <2>1, <2>2
  <2>4. \A q \in Proc \ {p} : ProcGap(q) BY <2>1, <1>q DEF TypeOK
  <2>5. StateGap BY <1>s, <2>1 DEF StateGap
  <2>6. QED BY <2>3, <2>4, <2>5
<1>11. CASE Broadcast(p) \/ BroadcastLandsThenThrows(p)
  <2>1. PICK owner \in Proc \cup {None} : Lands(p, owner)
        BY <1>11 DEF Broadcast, BroadcastLandsThenThrows
  <2>2. /\ pc[p] = "sign" /\ pc' \in {[pc EXCEPT ![p] = "record"], [pc EXCEPT ![p] = "release"]}
        /\ UNCHANGED <<rpc, nonce, state, mined>>
        BY <1>11 DEF Broadcast, BroadcastLandsThenThrows
  <2>3. ReachedThen(nonce[p] + 1)
    <3>1. [by |-> owner, seen |-> "lag" \notin Faults, overdue |-> FALSE] # None BY NoneIsNone DEF Tx
    <3>2. nonce[p] \in Nonce /\ pool'[nonce[p]] # None BY <2>1, <3>1 DEF Lands, TypeOK
    <3>3. ReachedThen(nonce[p]) BY <1>5, <2>2
    <3>4. mined \in Nat /\ mined' = mined BY <2>2 DEF TypeOK
    <3>5. ASSUME NEW k \in mined .. nonce[p] PROVE k \in Nonce /\ pool'[k] # None
          BY <1>4, <3>2, <3>3, <3>4 DEF ReachedThen
    <3>6. QED BY <1>4, <3>4, <3>5 DEF ReachedThen
  <2>4. pc'[p] \in {"record", "release"} /\ nonce'[p] = nonce[p] BY <2>2 DEF TypeOK
  <2>5. ProcGap(p) BY <2>3, <2>4
  <2>6. \A q \in Proc \ {p} : ProcGap(q) BY <2>2, <1>q DEF TypeOK
  <2>7. QED BY <2>2, <1>s, <2>5, <2>6
<1>12. CASE Record(p)
  <2>1. /\ pc[p] = "record" /\ pc' = [pc EXCEPT ![p] = "release"]
        /\ UNCHANGED <<rpc, nonce>>
        /\ state' \in {state, nonce[p]}
        BY <1>12 DEF Record
  <2>2. ReachedThen(nonce[p] + 1) BY <1>5, <2>1
  <2>3. StateGap BY <2>1, <2>2, <1>s DEF StateGap
  <2>4. \A q \in Proc : ProcGap(q) BY <2>1, <1>q DEF TypeOK
  <2>5. QED BY <2>3, <2>4
<1>13. QED BY <1>7, <1>8, <1>9, <1>10, <1>11, <1>12 DEF Step

LEMMA GapNext == TypeOK /\ GapInv /\ [Next]_vars => GapInv'
<1> SUFFICES ASSUME TypeOK, GapInv, [Next]_vars PROVE GapInv' OBVIOUS
<1>1. TypeOK' BY TypeNext
<1>2. ASSUME Grows, evicted' = evicted, UNCHANGED procVars,
             state' # None => state' = state
      PROVE  GapInv'
  <2>1. SUFFICES ASSUME ~ evicted PROVE GapInv' BY <1>2 DEF GapInv
  <2>2. \A n \in Nat : Reached(n) => ReachedThen(n) BY <1>1, <1>2, ReachedGrows
  <2>3. /\ state # None => Reached(state + 1)
        /\ \A q \in Proc :
              /\ pc[q] \in {"patch", "pending"} => Reached(rpc[q])
              /\ pc[q] \in {"pending", "sign"} => Reached(nonce[q])
              /\ pc[q] = "record" => Reached(nonce[q] + 1)
        BY <2>1 DEF GapInv
  <2>4. /\ state # None => state + 1 \in Nat
        /\ \A q \in Proc : rpc[q] \in Nat /\ nonce[q] \in Nat /\ nonce[q] + 1 \in Nat
        BY DEF TypeOK
  <2>5. state' # None => ReachedThen(state' + 1) BY <1>2, <2>2, <2>3, <2>4
  <2>6. \A q \in Proc :
            /\ pc'[q] \in {"patch", "pending"} => ReachedThen(rpc'[q])
            /\ pc'[q] \in {"pending", "sign"} => ReachedThen(nonce'[q])
            /\ pc'[q] = "record" => ReachedThen(nonce'[q] + 1)
        BY <1>2, <2>2, <2>3, <2>4 DEF procVars
  <2>7. QED BY <2>5, <2>6 DEF GapInv, Reached, ReachedThen
<1>3. CASE \E p \in Proc : Step(p) BY <1>1, <1>3, GapStep
<1>4. CASE \E n \in Nonce : Notice(n)
  <2>1. PICK n \in Nonce : Notice(n) BY <1>4
  <2>2. [pool[n] EXCEPT !.seen = TRUE] # None BY <2>1, NoneIsNone DEF Notice, TypeOK, Tx
  <2>3. Grows BY <2>1, <2>2 DEF Notice, Grows, TypeOK
  <2>4. QED BY <1>2, <2>1, <2>3 DEF Notice
<1>5. CASE Mine
  <2>1. Grows BY <1>5 DEF Mine, Grows, TypeOK
  <2>2. QED BY <1>2, <1>5, <2>1 DEF Mine
<1>6. CASE Evict BY <1>6 DEF Evict, GapInv
<1>7. CASE AgeState
  <2>1. Grows BY <1>7, OverdueType DEF AgeState, Grows, TypeOK
  <2>2. QED BY <1>2, <1>7, <2>1 DEF AgeState
<1>8. CASE AgeLock \/ UNCHANGED vars
  <2>1. Grows BY <1>8 DEF AgeLock, Grows, TypeOK, netVars, vars
  <2>2. QED BY <1>2, <1>8, <2>1 DEF AgeLock, netVars, vars
<1>9. QED BY <1>3, <1>4, <1>5, <1>6, <1>7, <1>8 DEF Next

(* NoGap. Whatever views the node has of the pending transactions, and     *)
(* whoever crashes, the nonce that patchEvmNonce chose is never above the  *)
(* first free one, unless transactions were dropped.                       *)
THEOREM NonceHasNoGap == Spec => []NoGap
<1>1. Init => GapInv BY DEF Init, GapInv
<1>2. GapInv /\ TypeOK => NoGap
  <2> SUFFICES ASSUME GapInv, TypeOK, NEW p \in Proc, pc[p] = "sign", ~ evicted
               PROVE  nonce[p] <= PendingNext
      BY DEF NoGap
  <2>1. Reached(nonce[p]) /\ nonce[p] \in Nat BY DEF GapInv, TypeOK
  <2>2. QED BY <2>1, ReachedIs
<1>3. QED BY <1>1, <1>2, GapNext, TypeInit, TypeNext, PTL DEF Spec

-----------------------------------------------------------------------------
(* A remembered transaction is not replaced *)

(* p's transaction with nonce n is remembered, and not overdue. *)
Own(p, n) == n \in Nonce /\ pool[n] # None /\ pool[n].by = p /\ ~ pool[n].overdue

(* It has just been sent, and is not recorded yet. *)
Sent(p, n) == pc[p] = "record" /\ nonce[p] = n

(* The state file counts for getNextEvmNonce. *)
Fresh == state # None

(* If the node counts the transaction with nonce n, it counts all before. *)
Closed(n) ==
    n \in Nonce /\ pool[n] # None /\ pool[n].seen =>
        \A k \in mined .. n : pool[k] # None /\ pool[k].seen

PoolInv == \A n \in Nonce :
    pool[n] # None => n >= mined /\ (pool[n].seen \/ "lag" \in Faults)

(* The node is asked again, and counts what a process sent, only when its  *)
(* period of grace is over.                                                *)
GraceInv ==
    /\ \A p \in Proc : pc[p] = "pending" => ~ recent[p]
    /\ \A p \in Proc : \A n \in Nonce :
          Own(p, n) => pool[n].seen \/ recent[p] \/ Sent(p, n)

Alone == ~ overlap => \A p, q \in Proc : pc[p] \in Critical /\ pc[q] \in Critical => p = q

(* What was just sent is the node's transaction for its nonce. *)
SentInv == \A p \in Proc :
    pc[p] = "record" => (nonce[p] < mined \/ Own(p, nonce[p])) /\ Closed(nonce[p])

(* Whoever is about to sign has a nonce above the recorded one. *)
FileInv ==
    Fresh =>
        /\ Closed(state)
        /\ \A p \in Proc : /\ pc[p] \in {"sign", "record"} => nonce[p] > state
                           /\ pc[p] = "pending" => nonce[p] = state + 1

(* A remembered transaction is covered by a record of its own sender, whose *)
(* transaction is still the one the node has for the recorded nonce.       *)
OwnInv == \A p \in Proc : \A n \in Nonce :
    Own(p, n) /\ ~ Sent(p, n) => Fresh /\ n <= state /\ Own(p, state)

RecordInv == ~ evicted /\ ~ overlap => SentInv /\ FileInv /\ OwnInv

NInv == TypeOK /\ GapInv /\ PoolInv /\ GraceInv /\ Alone /\ RecordInv

LEMMA ForgottenIs ==
    ASSUME TypeOK, NEW ps, NEW ns, NEW n \in Nonce
    PROVE  /\ Forgotten(ps, ns)[n] = None <=> pool[n] = None
           /\ pool[n] # None =>
                /\ Forgotten(ps, ns)[n].seen = pool[n].seen
                /\ IF n \in ns /\ pool[n].by \in ps
                   THEN Forgotten(ps, ns)[n].by = None ELSE Forgotten(ps, ns)[n] = pool[n]
<1>1. (Forgotten(ps, ns)[n] = None) <=> (pool[n] = None) BY ForgottenType
<1>2. ASSUME pool[n] # None
      PROVE  /\ [pool[n] EXCEPT !.by = None, !.overdue = FALSE].seen = pool[n].seen
             /\ [pool[n] EXCEPT !.by = None, !.overdue = FALSE].by = None
      BY <1>2 DEF TypeOK, Tx
<1>3. Forgotten(ps, ns)[n] = IF n \in ns /\ pool[n] # None /\ pool[n].by \in ps
                             THEN [pool[n] EXCEPT !.by = None, !.overdue = FALSE] ELSE pool[n]
      BY DEF Forgotten
<1>4. QED BY <1>1, <1>2, <1>3

(* The steps that leave the node, the file and the grace period alone, and *)
(* send nothing.                                                           *)
Quiet(p) ==
    \/ Begin(p) \/ LockCreate(p) \/ LockExists(p) \/ Inspect(p) \/ Clean(p)
    \/ Release(p) \/ Unlink(p) \/ Prepare(p) \/ Fails(p)

LEMMA QuietIs ==
    ASSUME TypeOK, NEW p \in Proc, Quiet(p)
    PROVE  /\ UNCHANGED <<state, recent, mined, pool, evicted>>
           /\ pc[p] # "record" /\ pc'[p] \notin {"pending", "sign", "record"}
           /\ \A q \in Proc : q # p => pc'[q] = pc[q] /\ nonce'[q] = nonce[q]
BY DEF TypeOK, Quiet, Begin, LockCreate, LockExists, Inspect, Clean, Release, Unlink, Prepare,
       Fails, Goto, Forget, netVars

LEMMA QuietKeeps ==
    ASSUME NInv, NEW p \in Proc, Quiet(p)
    PROVE  PoolInv' /\ GraceInv' /\ RecordInv'
<1>1. /\ UNCHANGED <<state, recent, mined, pool, evicted>>
      /\ pc[p] # "record" /\ pc'[p] \notin {"pending", "sign", "record"}
      /\ \A q \in Proc : q # p => pc'[q] = pc[q] /\ nonce'[q] = nonce[q]
      BY QuietIs DEF NInv
<1>2. PoolInv' BY <1>1 DEF NInv, PoolInv
<1>3. GraceInv' BY <1>1 DEF NInv, GraceInv, Own, Sent
<1>4. ASSUME ~ overlap', ~ evicted' PROVE SentInv' /\ FileInv' /\ OwnInv'
  <2>1. ~ overlap /\ ~ evicted
        BY <1>1, <1>4
        DEF NInv, TypeOK, Quiet, Begin, LockCreate, LockExists, Inspect, Clean, Release, Unlink,
            Prepare, Fails
  <2>2. SentInv /\ FileInv /\ OwnInv BY <2>1 DEF NInv, RecordInv
  <2>3. SentInv' BY <1>1, <2>2 DEF SentInv, Own, Closed
  <2>4. FileInv' BY <1>1, <2>2 DEF FileInv, Fresh, Closed
  <2>5. OwnInv' BY <1>1, <2>2 DEF OwnInv, Fresh, Own, Sent
  <2>6. QED BY <2>3, <2>4, <2>5
<1>5. QED BY <1>2, <1>3, <1>4 DEF RecordInv

LEMMA AloneStep ==
    ASSUME NInv, NEW p \in Proc, Step(p)
    PROVE  Alone' /\ (~ overlap' => ~ overlap)
<1>p. pc \in [Proc -> Phases] BY DEF NInv, TypeOK
<1>1. CASE LockCreate(p)
  <2>1. overlap' = (overlap \/ \E q \in Proc : pc[q] \in Critical) /\ pc' = [pc EXCEPT ![p] = "prepare"]
        BY <1>1 DEF LockCreate, Goto
  <2>2. QED BY <1>p, <2>1 DEF Alone, NInv, TypeOK
<1>2. CASE ~ LockCreate(p)
  <2>1. /\ overlap' = overlap
        /\ \A q \in Proc : pc'[q] \in Critical => pc[q] \in Critical
        BY <1>p, <1>2
        DEF Step, Begin, LockExists, Inspect, Clean, Release, Unlink, Prepare, Fails, Patch,
            PendingAnswer, Broadcast, BroadcastLandsThenThrows, Record, GraceEnds, Crash, Goto,
            Forward, procVars, Critical
  <2>2. QED BY <2>1 DEF Alone, NInv
<1>3. QED BY <1>1, <1>2

LEMMA PatchKeeps ==
    ASSUME NInv, NEW p \in Proc, Patch(p)
    PROVE  PoolInv' /\ GraceInv' /\ RecordInv'
<1> DEFINE next == GetNextEvmNonce(rpc[p])
<1>1. /\ UNCHANGED <<state, recent, mined, pool, evicted, overlap>>
      /\ pc[p] = "patch" /\ nonce' = [nonce EXCEPT ![p] = next]
      /\ pc' = [pc EXCEPT ![p] = IF next = rpc[p] \/ recent[p] THEN "sign" ELSE "pending"]
      BY DEF Patch, Forward, Goto, netVars
<1>2. /\ next \in Nat
      /\ Fresh => /\ next >= state + 1 /\ state \in Nat
                  /\ next = rpc[p] \/ next = state + 1
      BY DEF NInv, TypeOK, GetNextEvmNonce, Larger, Fresh
<1> HIDE DEF next
<1>3. /\ nonce'[p] = next /\ pc'[p] \in {"sign", "pending"}
      /\ pc'[p] = "pending" => next # rpc[p] /\ ~ recent[p]
      /\ \A q \in Proc : q # p => pc'[q] = pc[q] /\ nonce'[q] = nonce[q]
      BY <1>1 DEF NInv, TypeOK
<1>4. PoolInv' BY <1>1 DEF NInv, PoolInv
<1>5. GraceInv' BY <1>1, <1>3 DEF NInv, GraceInv, Own, Sent
<1>6. ASSUME ~ overlap', ~ evicted' PROVE SentInv' /\ FileInv' /\ OwnInv'
  <2>1. SentInv /\ FileInv /\ OwnInv BY <1>1, <1>6 DEF NInv, RecordInv
  <2>2. SentInv' BY <1>1, <1>3, <2>1 DEF SentInv, Own, Closed
  <2>3. FileInv' BY <1>1, <1>2, <1>3, <2>1 DEF FileInv, Fresh, Closed
  <2>4. OwnInv' BY <1>1, <1>3, <2>1 DEF OwnInv, Fresh, Own, Sent
  <2>5. QED BY <2>2, <2>3, <2>4
<1>7. QED BY <1>4, <1>5, <1>6 DEF RecordInv

(* Transactions of others, or all, are forgotten, as p goes on to sign.    *)
LEMMA PendingAnswerKeeps ==
    ASSUME NInv, NEW p \in Proc, PendingAnswer(p)
    PROVE  PoolInv' /\ GraceInv' /\ RecordInv'
<1>1. /\ UNCHANGED <<recent, mined, evicted, overlap>>
      /\ pc[p] = "pending" /\ pc' = [pc EXCEPT ![p] = "sign"]
      BY DEF PendingAnswer, Forward, Goto
<1>2. PICK v \in Views \cup {None} :
         IF v = rpc[p] \/ (v = None /\ nonce[p] - rpc[p] > MaxGap)
         THEN /\ state' = None
              /\ pool' = Forgotten(IF v = None THEN Proc ELSE Proc \ {p}, Nonce)
              /\ nonce' = [nonce EXCEPT ![p] = rpc[p]]
         ELSE UNCHANGED <<state, nonce, pool>>
      BY DEF PendingAnswer
<1>3. /\ pc'[p] = "sign"
      /\ \A q \in Proc : q # p => pc'[q] = pc[q]
      BY <1>1 DEF NInv, TypeOK
<1>4. CASE UNCHANGED <<state, nonce, pool>>
  <2>1. PoolInv' BY <1>1, <1>4 DEF NInv, PoolInv
  <2>2. GraceInv' BY <1>1, <1>3, <1>4 DEF NInv, GraceInv, Own, Sent
  <2>3. ASSUME ~ overlap', ~ evicted' PROVE SentInv' /\ FileInv' /\ OwnInv'
    <3>1. SentInv /\ FileInv /\ OwnInv BY <1>1, <2>3 DEF NInv, RecordInv
    <3>2. SentInv' BY <1>1, <1>3, <1>4, <3>1 DEF SentInv, Own, Closed
    <3>3. Fresh => state \in Nat BY DEF NInv, TypeOK, Fresh
    <3>4. FileInv' BY <1>1, <1>3, <1>4, <3>1, <3>3 DEF FileInv, Fresh, Closed
    <3>5. OwnInv' BY <1>1, <1>3, <1>4, <3>1 DEF OwnInv, Fresh, Own, Sent
    <3>6. QED BY <3>2, <3>4, <3>5
  <2>4. QED BY <2>1, <2>2, <2>3 DEF RecordInv
<1>5. CASE /\ v = rpc[p] \/ v = None
           /\ state' = None
           /\ pool' = Forgotten(IF v = None THEN Proc ELSE Proc \ {p}, Nonce)
           /\ nonce' = [nonce EXCEPT ![p] = rpc[p]]
  <2> DEFINE ps == IF v = None THEN Proc ELSE Proc \ {p}
  <2>1. \A n \in Nonce :
           /\ pool'[n] = None <=> pool[n] = None
           /\ pool[n] # None => /\ pool'[n].seen = pool[n].seen
                                /\ IF pool[n].by \in ps THEN pool'[n].by = None ELSE pool'[n] = pool[n]
        BY <1>5, ForgottenIs DEF NInv
  <2>2. None \notin Proc BY EvmNonceAssumption
  <2>3. \A q \in Proc : \A n \in Nonce : Own(q, n)' => Own(q, n) /\ q \notin ps
        BY <2>1, <2>2 DEF Own
  <2>4. PoolInv' BY <1>1, <2>1 DEF NInv, PoolInv
  <2>5. /\ \A q \in Proc : pc[q] = "pending" => ~ recent[q]
        /\ \A q \in Proc : \A n \in Nonce : Own(q, n) => pool[n].seen \/ recent[q] \/ Sent(q, n)
        BY DEF NInv, GraceInv
  <2>6. \A q \in Proc : nonce'[q] = IF q = p THEN rpc[p] ELSE nonce[q] BY <1>5 DEF NInv, TypeOK
  <2>7. GraceInv'
    <3>1. ASSUME NEW q \in Proc, NEW n \in Nonce, Own(q, n)'
          PROVE  pool'[n].seen \/ recent'[q] \/ Sent(q, n)'
      <4>1. Own(q, n) BY <2>3, <3>1
      <4>2. pool[n].seen \/ recent[q] \/ Sent(q, n) BY <2>5, <4>1
      <4>3. pool[n].seen => pool'[n].seen BY <2>1, <4>1 DEF Own
      <4>4. Sent(q, n) => Sent(q, n)' BY <1>1, <1>3, <2>6 DEF Sent
      <4>5. QED BY <1>1, <4>2, <4>3, <4>4
    <3>2. \A q \in Proc : pc'[q] = "pending" => ~ recent'[q] BY <1>1, <1>3, <2>5
    <3>3. QED BY <3>1, <3>2 DEF GraceInv
  <2>8. ASSUME ~ overlap', ~ evicted' PROVE SentInv' /\ FileInv' /\ OwnInv'
    <3>1. SentInv /\ FileInv /\ OwnInv BY <1>1, <2>8 DEF NInv, RecordInv
    <3>2. \A q \in Proc : q # p => pc'[q] \notin Critical
          BY <1>1, <1>3, <2>8 DEF NInv, Alone, Critical
    <3>3. SentInv' BY <1>3, <3>2 DEF SentInv, Critical
    <3>4. FileInv' BY <1>5 DEF FileInv, Fresh
    <3>5. ASSUME NEW q \in Proc, NEW n \in Nonce, Own(q, n)' PROVE FALSE
      <4>1. q = p /\ v # None /\ Own(p, n) /\ v = rpc[p] BY <1>5, <2>3, <3>5
      <4>2. Fresh /\ Own(p, state) BY <1>1, <3>1, <4>1 DEF OwnInv, Sent
      <4>3. pool[state].seen BY <1>1, <2>5, <4>2 DEF Own, Sent
      <4>4. \A k \in mined .. state : pool[k] # None /\ pool[k].seen
            BY <3>1, <4>2, <4>3 DEF FileInv, Closed, Own
      <4>5. state < Counted
        <5>1. /\ Counted \in mined .. MaxNonce + 1
              /\ Counted \in Nonce => pool[Counted] = None \/ ~ pool[Counted].seen
              BY Answers DEF NInv
        <5>2. state \in Nonce /\ mined \in Nat /\ MaxNonce \in Nat
              BY <4>2, EvmNonceAssumption DEF Own, NInv, TypeOK
        <5>3. SUFFICES ASSUME Counted <= state PROVE FALSE BY <5>1, <5>2 DEF Nonce
        <5>4. Counted \in mined .. state /\ Counted \in Nonce BY <5>1, <5>2, <5>3 DEF Nonce
        <5>5. QED BY <4>4, <5>1, <5>4
      <4>6. nonce[p] = state + 1 /\ nonce[p] > rpc[p]
            BY <1>1, <3>1, <4>2 DEF FileInv, NInv, TypeOK
      <4>7. rpc[p] >= Counted
        <5>1. rpc[p] \in Counted .. PendingNext BY <4>1 DEF Views
        <5>2. QED BY <5>1, Answers DEF NInv
      <4>8. rpc[p] \in Nat /\ state \in Nat /\ Counted \in Nat
            BY <4>2, Answers, EvmNonceAssumption DEF NInv, TypeOK, Own, Nonce
      <4>9. QED BY <4>5, <4>6, <4>7, <4>8
    <3>6. OwnInv' BY <3>5 DEF OwnInv
    <3>7. QED BY <3>3, <3>4, <3>6
  <2>9. QED BY <2>4, <2>7, <2>8 DEF RecordInv
<1>6. QED BY <1>2, <1>4, <1>5

(* A transaction lands above the recorded nonce. *)
LEMMA LandsKeeps ==
    ASSUME NInv, NEW p \in Proc, NEW owner \in {p, None}, Lands(p, owner),
           UNCHANGED <<state, rpc, nonce, recent, mined, evicted, overlap>>,
           pc[p] = "sign", pc' = [pc EXCEPT ![p] = IF owner = p THEN "record" ELSE "release"]
    PROVE  PoolInv' /\ GraceInv' /\ RecordInv'
<1> DEFINE s == nonce[p]
           lagging == "lag" \in Faults
<1>1. /\ s \in Nonce /\ s >= mined /\ s \in Nat
      /\ pool' = [pool EXCEPT ![s] = [by |-> owner, seen |-> ~ lagging, overdue |-> FALSE]]
      BY DEF Lands, NInv, TypeOK
<1>2. None \notin Proc /\ MaxNonce \in Nat /\ mined \in Nat
      BY EvmNonceAssumption DEF NInv, TypeOK
<1>3. /\ pool'[s] # None /\ pool'[s].by = owner /\ pool'[s].seen = ~ lagging
      /\ ~ pool'[s].overdue
  <2>1. [by |-> owner, seen |-> ~ lagging, overdue |-> FALSE] \in Tx BY DEF Tx
  <2>2. pool'[s] = [by |-> owner, seen |-> ~ lagging, overdue |-> FALSE] BY <1>1 DEF NInv, TypeOK
  <2>3. pool'[s] # None BY <2>1, <2>2, NoneIsNone
  <2>4. QED BY <2>2, <2>3
<1>4. \A n \in Nonce : n # s => pool'[n] = pool[n] BY <1>1 DEF NInv, TypeOK
<1>5. /\ pc'[p] = IF owner = p THEN "record" ELSE "release"
      /\ \A q \in Proc : q # p => pc'[q] = pc[q]
      BY DEF NInv, TypeOK
<1> HIDE DEF s, lagging
<1>6. \A q \in Proc : \A n \in Nonce :
          Own(q, n)' => IF n = s THEN q = p /\ owner = p ELSE Own(q, n)
      BY <1>2, <1>3, <1>4 DEF Own
<1>7. PoolInv'
  <2>1. ASSUME NEW n \in Nonce, pool'[n] # None
        PROVE  n >= mined' /\ (pool'[n].seen \/ "lag" \in Faults)
    <3>1. CASE n = s BY <1>1, <1>3, <3>1 DEF lagging
    <3>2. CASE n # s BY <1>4, <2>1, <3>2 DEF NInv, PoolInv
    <3>3. QED BY <3>1, <3>2
  <2>2. QED BY <2>1 DEF PoolInv
<1>8. GraceInv'
  <2>1. ASSUME NEW q \in Proc, NEW n \in Nonce, Own(q, n)'
        PROVE  pool'[n].seen \/ recent'[q] \/ Sent(q, n)'
    <3>1. CASE n = s BY <1>5, <1>6, <2>1, <3>1 DEF Sent, s
    <3>2. CASE n # s
      <4>1. Own(q, n) BY <1>6, <2>1, <3>2
      <4>2. pool[n].seen \/ recent[q] \/ Sent(q, n) BY <4>1 DEF NInv, GraceInv
      <4>3. Sent(q, n) => Sent(q, n)' BY <1>5 DEF Sent
      <4>4. QED BY <1>4, <3>2, <4>2, <4>3
    <3>3. QED BY <3>1, <3>2
  <2>2. \A q \in Proc : pc'[q] = "pending" => ~ recent'[q] BY <1>5 DEF NInv, GraceInv
  <2>3. QED BY <2>1, <2>2 DEF GraceInv
<1>9. ASSUME ~ overlap', ~ evicted' PROVE SentInv' /\ FileInv' /\ OwnInv'
  <2>1. SentInv /\ FileInv /\ OwnInv BY <1>9 DEF NInv, RecordInv
  <2>2. \A q \in Proc : q # p => pc'[q] \notin Critical
        BY <1>5, <1>9 DEF NInv, Alone, Critical
  <2>3. Closed(s)'
    <3>1. SUFFICES ASSUME pool'[s].seen, NEW k \in mined .. s PROVE pool'[k] # None /\ pool'[k].seen
          BY DEF Closed, s
    <3>2. ~ lagging BY <1>3, <3>1
    <3>3. CASE k = s BY <1>3, <3>1, <3>3
    <3>4. CASE k # s
      <4>1. k \in Nonce /\ k \in mined .. s - 1 BY <1>1, <1>2, <3>4 DEF Nonce
      <4>2. Reached(s) BY <1>9 DEF NInv, GapInv, s
      <4>3. pool[k] # None /\ pool[k].seen
            BY <3>2, <4>1, <4>2 DEF Reached, NInv, PoolInv, lagging
      <4>4. QED BY <1>4, <3>4, <4>1, <4>3
    <3>5. QED BY <3>3, <3>4
  <2>4. SentInv'
    <3>1. ASSUME owner = p PROVE Own(p, s)' BY <1>1, <1>3, <3>1 DEF Own, s
    <3>2. ASSUME NEW q \in Proc, pc'[q] = "record"
          PROVE  (nonce'[q] < mined' \/ Own(q, nonce[q])') /\ Closed(nonce[q])'
      <4>1. q = p /\ owner = p BY <1>5, <2>2, <3>2 DEF Critical
      <4>2. QED BY <2>3, <3>1, <4>1 DEF s
    <3>3. QED BY <3>2 DEF SentInv
  <2>5. Fresh => state \in Nat /\ s > state
        BY <2>1 DEF FileInv, Fresh, s, NInv, TypeOK
  <2>6. Fresh' = Fresh BY DEF Fresh
  <2>7. FileInv'
    <3>1. ASSUME Fresh PROVE Closed(state)'
      <4>1. Closed(state) BY <2>1, <3>1 DEF FileInv
      <4>2. \A k \in Nonce : k <= state => pool'[k] = pool[k]
            BY <1>1, <1>4, <2>5, <3>1 DEF Nonce
      <4>3. state \in Nonce => mined .. state \subseteq Nonce
            BY <1>2 DEF Nonce
      <4>4. \A k \in mined .. state : k <= state BY <1>2, <2>5, <3>1
      <4>5. state \in Nonce => pool'[state] = pool[state] BY <2>5, <3>1, <4>2
      <4>6. QED BY <4>1, <4>2, <4>3, <4>4, <4>5 DEF Closed
    <3>2. ASSUME Fresh, NEW q \in Proc
          PROVE  /\ pc'[q] \in {"sign", "record"} => nonce'[q] > state'
                 /\ pc'[q] = "pending" => nonce'[q] = state' + 1
          BY <1>5, <2>2, <2>5, <3>2 DEF Critical, s
    <3>3. QED BY <2>6, <3>1, <3>2 DEF FileInv
  <2>8. OwnInv'
    <3>1. ASSUME NEW q \in Proc, NEW n \in Nonce, Own(q, n)', ~ Sent(q, n)'
          PROVE  Fresh' /\ n <= state' /\ Own(q, state)'
      <4>1. CASE n = s BY <1>5, <1>6, <3>1, <4>1 DEF Sent, s
      <4>2. CASE n # s
        <5>1. Own(q, n) BY <1>6, <3>1, <4>2
        <5>2. ~ Sent(q, n) BY <1>5, <3>1 DEF Sent
        <5>3. Fresh /\ n <= state /\ Own(q, state) BY <2>1, <5>1, <5>2 DEF OwnInv
        <5>4. state # s BY <1>1, <2>5, <5>3
        <5>5. Own(q, state)' BY <1>4, <5>3, <5>4 DEF Own
        <5>6. QED BY <2>6, <5>3, <5>5
      <4>3. QED BY <4>1, <4>2
    <3>2. QED BY <3>1 DEF OwnInv
  <2>9. QED BY <2>4, <2>7, <2>8
<1>10. QED BY <1>7, <1>8, <1>9 DEF RecordInv

LEMMA RecordKeeps ==
    ASSUME NInv, NEW p \in Proc, Record(p)
    PROVE  PoolInv' /\ GraceInv' /\ RecordInv'
<1>1. /\ pc[p] = "record" /\ pc' = [pc EXCEPT ![p] = "release"]
      /\ recent' = [recent EXCEPT ![p] = TRUE]
      /\ UNCHANGED <<rpc, nonce, mined, evicted, overlap>>
      BY DEF Record, Goto
<1>2. /\ pc'[p] = "release" /\ \A q \in Proc : q # p => pc'[q] = pc[q]
      /\ recent'[p] /\ \A q \in Proc : q # p => recent'[q] = recent[q]
      BY <1>1 DEF NInv, TypeOK
<1>3. None \notin Proc /\ nonce[p] \in Nat /\ mined \in Nat /\ MaxNonce \in Nat
      BY EvmNonceAssumption DEF NInv, TypeOK
<1>4. PICK ps, ns : /\ pool' = Forgotten(ps, ns)
                    /\ \/ /\ ps = Proc \ {p} /\ ns = Nonce
                          /\ state' = nonce[p]
                       \/ ps = {p} /\ ns = {nonce[p]} /\ state' = state
      BY DEF Record
<1>5. \A n \in Nonce :
          /\ pool'[n] = None <=> pool[n] = None
          /\ pool[n] # None =>
                /\ pool'[n].seen = pool[n].seen
                /\ IF n \in ns /\ pool[n].by \in ps THEN pool'[n].by = None ELSE pool'[n] = pool[n]
      BY <1>4, ForgottenIs DEF NInv
<1>6. \A q \in Proc : \A n \in Nonce : Own(q, n)' <=> Own(q, n) /\ ~ (n \in ns /\ q \in ps)
      BY <1>3, <1>5 DEF Own
<1>7. PoolInv' BY <1>1, <1>5 DEF NInv, PoolInv
<1>8. GraceInv'
  <2>1. ASSUME NEW q \in Proc, NEW n \in Nonce, Own(q, n)'
        PROVE  pool'[n].seen \/ recent'[q] \/ Sent(q, n)'
    <3>1. Own(q, n) BY <1>6, <2>1
    <3>2. pool[n].seen \/ recent[q] \/ Sent(q, n) BY <3>1 DEF NInv, GraceInv
    <3>3. CASE q = p BY <1>2, <3>3
    <3>4. CASE q # p BY <1>1, <1>2, <1>5, <3>1, <3>2, <3>4 DEF Sent, Own
    <3>5. QED BY <3>3, <3>4
  <2>2. \A q \in Proc : pc'[q] = "pending" => ~ recent'[q] BY <1>2 DEF NInv, GraceInv
  <2>3. QED BY <2>1, <2>2 DEF GraceInv
<1>9. ASSUME ~ overlap', ~ evicted' PROVE SentInv' /\ FileInv' /\ OwnInv'
  <2>1. SentInv /\ FileInv /\ OwnInv BY <1>1, <1>9 DEF NInv, RecordInv
  <2>2. \A q \in Proc : pc'[q] \notin Critical
        BY <1>1, <1>2, <1>9 DEF NInv, Alone, Critical
  <2>3. SentInv' BY <2>2 DEF SentInv, Critical
  <2>4. (nonce[p] < mined \/ Own(p, nonce[p])) /\ Closed(nonce[p]) BY <1>1, <2>1 DEF SentInv
  <2>5. \A n : Closed(n) => Closed(n)'
    <3>1. ASSUME NEW n, Closed(n), n \in Nonce, pool'[n] # None, pool'[n].seen,
                 NEW k \in mined .. n
          PROVE  pool'[k] # None /\ pool'[k].seen
      <4>1. k \in Nonce BY <1>3, <3>1 DEF Nonce
      <4>2. pool[k] # None /\ pool[k].seen BY <1>5, <3>1 DEF Closed
      <4>3. QED BY <1>5, <4>1, <4>2
    <3>2. QED BY <1>1, <3>1 DEF Closed
  <2>6. CASE /\ ps = Proc \ {p} /\ ns = Nonce
             /\ state' = nonce[p]
    <3>1. state' # None /\ state' = nonce[p] /\ Fresh' BY <1>3, <2>6, NoneIsNone DEF Fresh
    <3>2. FileInv' BY <1>1, <2>2, <2>4, <2>5, <3>1 DEF FileInv, Critical
    <3>3. ASSUME NEW q \in Proc, NEW n \in Nonce, Own(q, n)'
          PROVE  n <= state' /\ Own(q, state)'
      <4>1. q = p /\ Own(p, n) BY <1>6, <2>6, <3>3
      <4>2. n >= mined BY <4>1 DEF Own, NInv, PoolInv
      <4>3. CASE n = nonce[p]
        <5>1. Own(p, state)' BY <3>1, <3>3, <4>1, <4>3 DEF Own
        <5>2. QED BY <1>3, <3>1, <4>1, <4>3, <5>1
      <4>4. CASE n # nonce[p]
        <5>1. Fresh /\ n <= state BY <2>1, <4>1, <4>4 DEF OwnInv, Sent
        <5>2. nonce[p] > state /\ state \in Nat
              BY <1>1, <2>1, <5>1 DEF FileInv, Fresh, NInv, TypeOK
        <5>3. n < nonce[p] /\ nonce[p] >= mined BY <1>3, <4>2, <5>1, <5>2 DEF Nonce
        <5>4. Own(p, nonce[p]) BY <1>3, <2>4, <5>3
        <5>5. nonce[p] \in Nonce BY <5>4 DEF Own
        <5>6. pool'[nonce[p]] # None /\ pool'[nonce[p]].by = p /\ ~ pool'[nonce[p]].overdue
              BY <1>5, <2>6, <5>4, <5>5 DEF Own
        <5>7. Own(p, state)' BY <3>1, <5>5, <5>6 DEF Own
        <5>8. QED BY <1>3, <3>1, <4>1, <5>3, <5>7 DEF Nonce
      <4>5. QED BY <4>3, <4>4
    <3>4. OwnInv' BY <3>1, <3>3 DEF OwnInv
    <3>5. QED BY <2>3, <3>2, <3>4
  <2>7. CASE ps = {p} /\ ns = {nonce[p]} /\ state' = state
    <3>1. Fresh' = Fresh BY <2>7 DEF Fresh
    <3>2. FileInv'
      <4>1. Fresh => Closed(state)' BY <2>1, <2>5, <2>7 DEF FileInv, Closed
      <4>2. QED BY <2>2, <2>7, <3>1, <4>1 DEF FileInv, Critical, Closed
    <3>3. ASSUME NEW q \in Proc, NEW n \in Nonce, Own(q, n)'
          PROVE  Fresh' /\ n <= state' /\ Own(q, state)'
      <4>1. Own(q, n) /\ ~ Sent(q, n)
        <5>1. Own(q, n) /\ ~ (n = nonce[p] /\ q = p) BY <1>6, <2>7, <3>3
        <5>2. q # p => pc[q] # "record" BY <1>2, <2>2 DEF Critical
        <5>3. QED BY <5>1, <5>2 DEF Sent
      <4>2. Fresh /\ n <= state /\ Own(q, state) BY <2>1, <4>1 DEF OwnInv
      <4>3. state # nonce[p]
        <5>1. nonce[p] > state /\ state \in Nat
              BY <1>1, <2>1, <4>2 DEF FileInv, Fresh, NInv, TypeOK
        <5>2. QED BY <1>3, <5>1
      <4>4. state \in Nonce BY <4>2 DEF Own
      <4>5. Own(q, state)' BY <1>5, <1>3, <2>7, <4>2, <4>3, <4>4 DEF Own
      <4>6. QED BY <2>7, <3>1, <4>2, <4>5
    <3>4. OwnInv' BY <3>3 DEF OwnInv
    <3>5. QED BY <2>3, <3>2, <3>4
  <2>8. QED BY <1>4, <2>6, <2>7
<1>10. QED BY <1>7, <1>8, <1>9 DEF RecordInv

LEMMA CrashKeeps ==
    ASSUME NInv, NEW p \in Proc, Crash(p)
    PROVE  PoolInv' /\ GraceInv' /\ RecordInv'
<1>1. /\ pc' = [pc EXCEPT ![p] = "idle"] /\ recent' = [recent EXCEPT ![p] = FALSE]
      /\ pool' = Forgotten({p}, Nonce) /\ nonce' = [nonce EXCEPT ![p] = 0]
      /\ UNCHANGED <<state, mined, evicted, overlap>>
      BY DEF Crash, Goto, Forget
<1>2. /\ pc'[p] = "idle"
      /\ \A q \in Proc : q # p => pc'[q] = pc[q] /\ recent'[q] = recent[q] /\ nonce'[q] = nonce[q]
      BY <1>1 DEF NInv, TypeOK
<1>3. None \notin Proc /\ mined \in Nat /\ MaxNonce \in Nat BY EvmNonceAssumption DEF NInv, TypeOK
<1>4. \A n \in Nonce :
          /\ pool'[n] = None <=> pool[n] = None
          /\ pool[n] # None =>
                /\ pool'[n].seen = pool[n].seen
                /\ IF pool[n].by = p THEN pool'[n].by = None ELSE pool'[n] = pool[n]
      BY <1>1, ForgottenIs DEF NInv
<1>5. \A q \in Proc : \A n \in Nonce : Own(q, n)' <=> Own(q, n) /\ q # p
      BY <1>3, <1>4 DEF Own
<1>6. \A q \in Proc : \A n : Own(q, n) /\ q # p => Own(q, n)'
      BY <1>3, <1>4 DEF Own
<1>7. \A n : Closed(n) => Closed(n)'
  <2>1. ASSUME NEW n, Closed(n), n \in Nonce, pool'[n] # None, pool'[n].seen,
               NEW k \in mined .. n
        PROVE  pool'[k] # None /\ pool'[k].seen
    <3>1. k \in Nonce BY <1>3, <2>1 DEF Nonce
    <3>2. pool[k] # None /\ pool[k].seen BY <1>4, <2>1 DEF Closed
    <3>3. QED BY <1>4, <3>1, <3>2
  <2>2. QED BY <1>1, <2>1 DEF Closed
<1>8. PoolInv' BY <1>1, <1>4 DEF NInv, PoolInv
<1>9. GraceInv'
  <2>1. ASSUME NEW q \in Proc, NEW n \in Nonce, Own(q, n)'
        PROVE  pool'[n].seen \/ recent'[q] \/ Sent(q, n)'
    <3>1. Own(q, n) /\ q # p BY <1>5, <2>1
    <3>2. pool[n].seen \/ recent[q] \/ Sent(q, n) BY <3>1 DEF NInv, GraceInv
    <3>3. QED BY <1>2, <1>4, <3>1, <3>2 DEF Sent, Own
  <2>2. \A q \in Proc : pc'[q] = "pending" => ~ recent'[q] BY <1>2 DEF NInv, GraceInv
  <2>3. QED BY <2>1, <2>2 DEF GraceInv
<1>10. ASSUME ~ overlap', ~ evicted' PROVE SentInv' /\ FileInv' /\ OwnInv'
  <2>1. SentInv /\ FileInv /\ OwnInv BY <1>1, <1>10 DEF NInv, RecordInv
  <2>2. SentInv'
    <3>1. ASSUME NEW q \in Proc, pc'[q] = "record"
          PROVE  (nonce'[q] < mined' \/ Own(q, nonce[q])') /\ Closed(nonce[q])'
      <4>1. q # p /\ pc[q] = "record" /\ nonce'[q] = nonce[q] BY <1>2, <3>1
      <4>2. (nonce[q] < mined \/ Own(q, nonce[q])) /\ Closed(nonce[q]) BY <2>1, <4>1 DEF SentInv
      <4>3. Closed(nonce[q])' BY <1>7, <4>1, <4>2
      <4>4. Own(q, nonce[q]) => Own(q, nonce[q])' BY <1>6, <4>1
      <4>5. QED BY <1>1, <4>1, <4>2, <4>3, <4>4
    <3>2. QED BY <3>1 DEF SentInv
  <2>3. FileInv'
    <3>1. Fresh' = Fresh BY <1>1 DEF Fresh
    <3>2. Closed(state) => Closed(state)' BY <1>1, <1>7
    <3>3. QED BY <1>1, <1>2, <2>1, <3>1, <3>2 DEF FileInv
  <2>4. OwnInv'
    <3>1. ASSUME NEW q \in Proc, NEW n \in Nonce, Own(q, n)', ~ Sent(q, n)'
          PROVE  Fresh' /\ n <= state' /\ Own(q, state)'
      <4>1. Own(q, n) /\ q # p /\ ~ Sent(q, n) BY <1>2, <1>5, <3>1 DEF Sent
      <4>2. Fresh /\ n <= state /\ Own(q, state) BY <2>1, <4>1 DEF OwnInv
      <4>3. Own(q, state)' BY <1>1, <1>6, <4>1, <4>2
      <4>4. QED BY <1>1, <4>2, <4>3 DEF Fresh
    <3>2. QED BY <3>1 DEF OwnInv
  <2>5. QED BY <2>2, <2>3, <2>4
<1>11. QED BY <1>8, <1>9, <1>10 DEF RecordInv

LEMMA OverdueIs ==
    ASSUME TypeOK, NEW ns, NEW n \in Nonce
    PROVE  /\ Overdue(ns)[n] = None <=> pool[n] = None
           /\ pool[n] # None =>
                /\ Overdue(ns)[n].seen = pool[n].seen /\ Overdue(ns)[n].by = pool[n].by
                /\ n \in ns /\ pool[n].by # None => Overdue(ns)[n].overdue
                /\ n \notin ns => Overdue(ns)[n] = pool[n]
                /\ pool[n].overdue => Overdue(ns)[n].overdue
<1>1. (Overdue(ns)[n] = None) <=> (pool[n] = None) BY OverdueType
<1>2. ASSUME pool[n] # None
      PROVE  LET t == [pool[n] EXCEPT !.overdue = TRUE]
             IN  t.seen = pool[n].seen /\ t.by = pool[n].by /\ t.overdue
      BY <1>2 DEF TypeOK, Tx
<1>3. Overdue(ns)[n] = IF n \in ns /\ pool[n] # None /\ pool[n].by # None
                       THEN [pool[n] EXCEPT !.overdue = TRUE] ELSE pool[n]
      BY DEF Overdue
<1>4. QED BY <1>1, <1>2, <1>3

(* A time limit passes over the transactions with nonces in ns.            *)
LEMMA OverdueKeeps ==
    ASSUME NInv, NEW ns, pool' = Overdue(ns),
           UNCHANGED <<pc, nonce, mined, evicted, overlap>>
    PROVE  /\ PoolInv'
           /\ \A q \in Proc : \A n \in Nonce : Own(q, n)' <=> Own(q, n) /\ n \notin ns
           /\ \A n \in Nonce : pool[n] # None => pool'[n].seen = pool[n].seen
           /\ \A n : Closed(n) => Closed(n)'
<1>1. mined \in Nat /\ MaxNonce \in Nat /\ None \notin Proc
      BY EvmNonceAssumption DEF NInv, TypeOK
<1>2. \A n \in Nonce :
          /\ pool'[n] = None <=> pool[n] = None
          /\ pool[n] # None =>
                /\ pool'[n].seen = pool[n].seen /\ pool'[n].by = pool[n].by
                /\ n \in ns /\ pool[n].by # None => pool'[n].overdue
                /\ n \notin ns => pool'[n] = pool[n]
                /\ pool[n].overdue => pool'[n].overdue
      BY OverdueIs DEF NInv
<1>3. PoolInv' BY <1>2 DEF NInv, PoolInv
<1>4. \A q \in Proc : \A n \in Nonce : Own(q, n)' <=> Own(q, n) /\ n \notin ns
      BY <1>1, <1>2 DEF Own
<1>5. ASSUME NEW n, Closed(n), n \in Nonce, pool'[n] # None, pool'[n].seen,
             NEW k \in mined .. n
      PROVE  pool'[k] # None /\ pool'[k].seen
  <2>1. k \in Nonce BY <1>1, <1>5 DEF Nonce
  <2>2. pool[k] # None /\ pool[k].seen BY <1>2, <1>5 DEF Closed
  <2>3. QED BY <1>2, <2>1, <2>2
<1>6. \A n : Closed(n) => Closed(n)' BY <1>5 DEF Closed
<1>7. QED BY <1>2, <1>3, <1>4, <1>6

LEMMA GraceEndsKeeps ==
    ASSUME NInv, NEW p \in Proc, GraceEnds(p)
    PROVE  PoolInv' /\ GraceInv' /\ RecordInv'
<1>1. PICK ns : /\ pool' = Overdue(ns)
                /\ \/ ns = {} /\ \A n \in Recorded(p) : pool[n].seen
                   \/ ns = Recorded(p)
      BY DEF GraceEnds
<1>2. /\ UNCHANGED <<state, pc, nonce, mined, evicted, overlap>>
      /\ recent' = [recent EXCEPT ![p] = FALSE]
      BY DEF GraceEnds
<1>3. /\ PoolInv'
      /\ \A q \in Proc : \A n \in Nonce : Own(q, n)' <=> Own(q, n) /\ n \notin ns
      /\ \A n \in Nonce : pool[n] # None => pool'[n].seen = pool[n].seen
      /\ \A n : Closed(n) => Closed(n)'
      BY <1>1, <1>2, OverdueKeeps
<1>4. \A n \in Nonce : Own(p, n) /\ ~ Sent(p, n) => n \in Recorded(p)
      BY DEF Own, Sent, Recorded
<1>5. \A q \in Proc : \A n \in ns : Own(q, n) => q = p /\ ~ Sent(p, n)
      BY <1>1 DEF Own, Sent, Recorded
<1>6. /\ ~ recent'[p] /\ \A q \in Proc : q # p => recent'[q] = recent[q]
      BY <1>2 DEF NInv, TypeOK
<1>7. GraceInv'
  <2>1. ASSUME NEW q \in Proc, NEW n \in Nonce, Own(q, n)'
        PROVE  pool'[n].seen \/ recent'[q] \/ Sent(q, n)'
    <3>1. Own(q, n) /\ n \notin ns BY <1>3, <2>1
    <3>2. pool[n].seen \/ recent[q] \/ Sent(q, n) BY <3>1 DEF NInv, GraceInv
    <3>3. Sent(q, n) => Sent(q, n)' BY <1>2 DEF Sent
    <3>4. pool'[n].seen = pool[n].seen BY <1>3, <3>1 DEF Own
    <3>5. q = p => pool[n].seen \/ Sent(p, n) BY <1>1, <1>4, <3>1
    <3>6. QED BY <1>6, <3>2, <3>3, <3>4, <3>5
  <2>2. \A q \in Proc : pc'[q] = "pending" => ~ recent'[q]
        BY <1>2, <1>6 DEF NInv, GraceInv
  <2>3. QED BY <2>1, <2>2 DEF GraceInv
<1>8. ASSUME ~ overlap', ~ evicted' PROVE SentInv' /\ FileInv' /\ OwnInv'
  <2>1. SentInv /\ FileInv /\ OwnInv BY <1>2, <1>8 DEF NInv, RecordInv
  <2>2. SentInv'
    <3>1. ASSUME NEW q \in Proc, pc[q] = "record"
          PROVE  (nonce[q] < mined \/ Own(q, nonce[q])') /\ Closed(nonce[q])'
      <4>1. (nonce[q] < mined \/ Own(q, nonce[q])) /\ Closed(nonce[q]) BY <2>1, <3>1 DEF SentInv
      <4>2. Own(q, nonce[q]) => nonce[q] \in Nonce /\ nonce[q] \notin ns
            BY <1>5, <3>1 DEF Own, Sent
      <4>3. Own(q, nonce[q]) => Own(q, nonce[q])'
        <5>1. SUFFICES ASSUME Own(q, nonce[q]) PROVE Own(q, nonce[q])' OBVIOUS
        <5>2. Own(q, nonce[q])' <=> Own(q, nonce[q]) /\ nonce[q] \notin ns
              BY <1>2, <1>3, <4>2, <5>1 DEF Own
        <5>3. QED BY <4>2, <5>1, <5>2
      <4>4. Closed(nonce[q])' BY <1>2, <1>3, <4>1 DEF Closed
      <4>5. QED BY <4>1, <4>3, <4>4
    <3>2. QED BY <1>2, <3>1 DEF SentInv, Own, Closed
  <2>3. FileInv'
    <3>1. Closed(state) => Closed(state)' BY <1>2, <1>3 DEF Closed
    <3>2. QED BY <1>2, <2>1, <3>1 DEF FileInv, Fresh
  <2>4. OwnInv'
    <3>1. ASSUME NEW q \in Proc, NEW n \in Nonce, Own(q, n)', ~ Sent(q, n)'
          PROVE  Fresh' /\ n <= state' /\ Own(q, state)'
      <4>1. Own(q, n) /\ n \notin ns /\ ~ Sent(q, n) BY <1>2, <1>3, <3>1 DEF Sent
      <4>2. Fresh /\ n <= state /\ Own(q, state) BY <2>1, <4>1 DEF OwnInv
      <4>3. state \notin ns
        <5>1. SUFFICES ASSUME state \in ns PROVE FALSE OBVIOUS
        <5>2. q = p BY <1>5, <4>2, <5>1
        <5>3. ns = Recorded(p) BY <1>1, <5>1
        <5>4. QED BY <1>4, <4>1, <5>2, <5>3
      <4>4. state \in Nonce BY <4>2 DEF Own
      <4>5. Own(q, state)'
        <5>1. pool'[state] # None /\ pool'[state].by = q /\ ~ pool'[state].overdue
              BY <1>1, <4>2, <4>3, <4>4, OverdueIs DEF NInv, Own
        <5>2. QED BY <1>2, <4>4, <5>1 DEF Own
      <4>6. QED BY <1>2, <4>2, <4>5 DEF Fresh
    <3>2. QED BY <3>1 DEF OwnInv
  <2>5. QED BY <2>2, <2>3, <2>4
<1>9. QED BY <1>3, <1>7, <1>8 DEF RecordInv

LEMMA AgeStateKeeps ==
    ASSUME NInv, AgeState
    PROVE  PoolInv' /\ GraceInv' /\ RecordInv'
<1>1. /\ state # None /\ state' = None /\ pool' = Overdue(0 .. state)
      /\ UNCHANGED <<pc, nonce, recent, mined, evicted, overlap>>
      BY DEF AgeState, procVars
<1>2. /\ PoolInv'
      /\ \A q \in Proc : \A n \in Nonce : Own(q, n)' <=> Own(q, n) /\ n \notin 0 .. state
      /\ \A n \in Nonce : pool[n] # None => pool'[n].seen = pool[n].seen
      /\ \A n : Closed(n) => Closed(n)'
      BY <1>1, OverdueKeeps
<1>3. state \in Nat /\ \A n \in Nonce : n \in Nat BY <1>1 DEF NInv, TypeOK, Nonce
<1>4. GraceInv'
  <2>1. ASSUME NEW q \in Proc, NEW n \in Nonce, Own(q, n)'
        PROVE  pool'[n].seen \/ recent'[q] \/ Sent(q, n)'
    <3>1. Own(q, n) BY <1>2, <2>1
    <3>2. pool[n].seen \/ recent[q] \/ Sent(q, n) BY <3>1 DEF NInv, GraceInv
    <3>3. QED BY <1>1, <1>2, <3>1, <3>2 DEF Own, Sent
  <2>2. \A q \in Proc : pc'[q] = "pending" => ~ recent'[q] BY <1>1 DEF NInv, GraceInv
  <2>3. QED BY <2>1, <2>2 DEF GraceInv
<1>5. ASSUME ~ overlap', ~ evicted' PROVE SentInv' /\ FileInv' /\ OwnInv'
  <2>1. SentInv /\ FileInv /\ OwnInv /\ Fresh BY <1>1, <1>5 DEF NInv, RecordInv, Fresh
  <2>2. SentInv'
    <3>1. ASSUME NEW q \in Proc, pc[q] = "record"
          PROVE  (nonce[q] < mined \/ Own(q, nonce[q])') /\ Closed(nonce[q])'
      <4>1. /\ nonce[q] < mined \/ Own(q, nonce[q])
            /\ Closed(nonce[q]) /\ nonce[q] > state /\ nonce[q] \in Nat
            BY <2>1, <3>1 DEF SentInv, FileInv, NInv, TypeOK
      <4>2. nonce[q] \notin 0 .. state BY <1>3, <4>1
      <4>3. Own(q, nonce[q]) => Own(q, nonce[q])'
        <5>1. SUFFICES ASSUME Own(q, nonce[q]) PROVE Own(q, nonce[q])' OBVIOUS
        <5>2. nonce[q] \in Nonce BY <5>1 DEF Own
        <5>3. pool'[nonce[q]] = pool[nonce[q]]
              BY <1>1, <4>2, <5>1, <5>2, OverdueIs DEF NInv, Own
        <5>4. QED BY <1>1, <5>1, <5>3 DEF Own
      <4>4. Closed(nonce[q])' BY <1>1, <1>2, <4>1 DEF Closed
      <4>5. QED BY <4>1, <4>3, <4>4
    <3>2. QED BY <1>1, <3>1 DEF SentInv, Own, Closed
  <2>3. FileInv' BY <1>1 DEF FileInv, Fresh
  <2>4. ASSUME NEW q \in Proc, NEW n \in Nonce, Own(q, n)', ~ Sent(q, n)' PROVE FALSE
    <3>1. Own(q, n) /\ n \notin 0 .. state /\ ~ Sent(q, n) BY <1>1, <1>2, <2>4 DEF Sent
    <3>2. n <= state BY <2>1, <3>1 DEF OwnInv
    <3>3. QED BY <1>3, <3>1, <3>2
  <2>5. OwnInv' BY <2>4 DEF OwnInv
  <2>6. QED BY <2>2, <2>3, <2>5
<1>6. QED BY <1>2, <1>4, <1>5 DEF RecordInv

LEMMA NStep ==
    ASSUME NInv, NEW p \in Proc, Step(p)
    PROVE  NInv'
<1>1. TypeOK' /\ GapInv' BY TypeNext, GapNext DEF NInv, Next
<1>2. Alone' BY AloneStep
<1>3. PoolInv' /\ GraceInv' /\ RecordInv'
  <2>1. CASE Broadcast(p)
    <3>1. pc' = [pc EXCEPT ![p] = IF p = p THEN "record" ELSE "release"]
          BY <2>1 DEF Broadcast, Goto
    <3>2. /\ Lands(p, p) /\ pc[p] = "sign"
          /\ UNCHANGED <<state, rpc, nonce, recent, mined, evicted, overlap>>
          BY <2>1 DEF Broadcast
    <3>3. QED BY <3>1, <3>2, LandsKeeps
  <2>2. CASE BroadcastLandsThenThrows(p)
    <3>1. pc' = [pc EXCEPT ![p] = IF None = p THEN "record" ELSE "release"]
          BY <2>2, EvmNonceAssumption DEF BroadcastLandsThenThrows, Goto
    <3>2. /\ Lands(p, None) /\ pc[p] = "sign"
          /\ UNCHANGED <<state, rpc, nonce, recent, mined, evicted, overlap>>
          BY <2>2 DEF BroadcastLandsThenThrows
    <3>3. QED BY <3>1, <3>2, LandsKeeps
  <2>3. CASE Quiet(p) BY <2>3, QuietKeeps
  <2>4. CASE Patch(p) \/ PendingAnswer(p) \/ Record(p) \/ Crash(p) \/ GraceEnds(p)
        BY <2>4, PatchKeeps, PendingAnswerKeeps, RecordKeeps, CrashKeeps, GraceEndsKeeps
  <2>5. QED BY <2>1, <2>2, <2>3, <2>4 DEF Step, Quiet
<1>4. QED BY <1>1, <1>2, <1>3 DEF NInv

(* A step of the node that leaves a transaction of each nonce whose it is. *)
LEMMA NodeKeeps ==
    ASSUME NInv, TypeOK', UNCHANGED <<state, procVars, evicted, overlap>>,
           mined' >= mined,
           \A n \in Nonce :
              /\ pool'[n] # None => pool[n] # None /\ n >= mined'
              /\ pool[n] # None /\ n >= mined' =>
                    /\ pool'[n] # None /\ pool'[n].by = pool[n].by
                    /\ pool'[n].overdue = pool[n].overdue
                    /\ pool[n].seen => pool'[n].seen
              /\ pool'[n] # None /\ pool'[n].seen /\ ~ pool[n].seen =>
                    \A k \in mined' .. n : pool'[k] # None /\ pool'[k].seen
    PROVE  PoolInv' /\ GraceInv' /\ RecordInv'
<1>1. mined \in Nat /\ mined' \in Nat /\ MaxNonce \in Nat BY EvmNonceAssumption DEF NInv, TypeOK
<1>2. PoolInv' BY DEF NInv, PoolInv
<1>3. \A q \in Proc : \A n \in Nonce : Own(q, n)' => Own(q, n) /\ n >= mined' BY DEF Own
<1>4. \A q \in Proc : \A n \in Nonce : Own(q, n) /\ n >= mined' => Own(q, n)' BY DEF Own
<1>5. GraceInv'
  <2>1. ASSUME NEW q \in Proc, NEW n \in Nonce, Own(q, n)'
        PROVE  pool'[n].seen \/ recent'[q] \/ Sent(q, n)'
    <3>1. Own(q, n) /\ n >= mined' BY <1>3, <2>1
    <3>2. pool[n].seen \/ recent[q] \/ Sent(q, n) BY <3>1 DEF NInv, GraceInv
    <3>3. pool[n].seen => pool'[n].seen BY <3>1 DEF Own
    <3>4. QED BY <3>2, <3>3 DEF Sent, procVars
  <2>2. \A q \in Proc : pc'[q] = "pending" => ~ recent'[q] BY DEF NInv, GraceInv, procVars
  <2>3. QED BY <2>1, <2>2 DEF GraceInv
<1>6. \A n \in Nonce : Closed(n) => Closed(n)'
  <2>1. ASSUME NEW n \in Nonce, Closed(n), pool'[n] # None, pool'[n].seen,
               NEW k \in mined' .. n
        PROVE  pool'[k] # None /\ pool'[k].seen
    <3>1. k \in Nonce /\ k \in mined .. n /\ k >= mined' BY <1>1, <2>1 DEF Nonce
    <3>2. CASE pool[n].seen
      <4>1. pool[k] # None /\ pool[k].seen BY <2>1, <3>1, <3>2 DEF Closed
      <4>2. QED BY <3>1, <4>1
    <3>3. CASE ~ pool[n].seen BY <2>1, <3>3
    <3>4. QED BY <3>2, <3>3
  <2>2. QED BY <2>1 DEF Closed
<1>7. \A n : n \notin Nonce => Closed(n)' BY DEF Closed
<1>8. ASSUME ~ overlap', ~ evicted' PROVE SentInv' /\ FileInv' /\ OwnInv'
  <2>1. SentInv /\ FileInv /\ OwnInv BY <1>8 DEF NInv, RecordInv
  <2>2. SentInv'
    <3>1. ASSUME NEW q \in Proc, pc[q] = "record"
          PROVE  (nonce[q] < mined' \/ Own(q, nonce[q])') /\ Closed(nonce[q])'
      <4>1. (nonce[q] < mined \/ Own(q, nonce[q])) /\ Closed(nonce[q]) /\ nonce'[q] = nonce[q]
            BY <2>1, <3>1 DEF SentInv, procVars
      <4>2. nonce[q] \in Nat BY DEF NInv, TypeOK
      <4>3. Closed(nonce[q])' BY <1>6, <1>7, <4>1
      <4>4. Own(q, nonce[q]) => nonce[q] < mined' \/ Own(q, nonce[q])'
            BY <1>1, <1>4, <4>1, <4>2 DEF Own
      <4>5. QED BY <1>1, <4>1, <4>2, <4>3, <4>4
    <3>2. QED BY <3>1 DEF SentInv, procVars
  <2>3. FileInv'
    <3>1. Fresh' = Fresh BY DEF Fresh
    <3>2. Closed(state) => Closed(state)' BY <1>6, <1>7
    <3>3. QED BY <2>1, <3>1, <3>2 DEF FileInv, procVars
  <2>4. OwnInv'
    <3>1. ASSUME NEW q \in Proc, NEW n \in Nonce, Own(q, n)', ~ Sent(q, n)'
          PROVE  Fresh' /\ n <= state' /\ Own(q, state)'
      <4>1. Own(q, n) /\ n >= mined' /\ ~ Sent(q, n) BY <1>3, <3>1 DEF Sent, procVars
      <4>2. Fresh /\ n <= state /\ Own(q, state) BY <2>1, <4>1 DEF OwnInv
      <4>3. state \in Nonce /\ state >= mined'
            BY <1>1, <4>1, <4>2 DEF Own, Nonce
      <4>4. Own(q, state)' BY <1>4, <4>2, <4>3
      <4>5. QED BY <4>2, <4>4 DEF Fresh
    <3>2. QED BY <3>1 DEF OwnInv
  <2>5. QED BY <2>2, <2>3, <2>4
<1>9. QED BY <1>2, <1>5, <1>8 DEF RecordInv

LEMMA NNext == NInv /\ [Next]_vars => NInv'
<1> SUFFICES ASSUME NInv, [Next]_vars PROVE NInv' OBVIOUS
<1>1. TypeOK' /\ GapInv' BY TypeNext, GapNext DEF NInv
<1>2. mined \in Nat /\ MaxNonce \in Nat BY EvmNonceAssumption DEF NInv, TypeOK
<1>3. CASE \E p \in Proc : Step(p) BY <1>3, NStep
<1>4. ASSUME UNCHANGED <<pc, overlap>>, PoolInv' /\ GraceInv' /\ RecordInv' PROVE NInv'
      BY <1>1, <1>4 DEF NInv, Alone
<1>5. CASE \E n \in Nonce : Notice(n)
  <2>1. PICK n \in Nonce : Notice(n) BY <1>5
  <2>2. pool' = [pool EXCEPT ![n].seen = TRUE] /\ UNCHANGED <<lock, state, procVars, mined, evicted, overlap>>
        BY <2>1 DEF Notice
  <2>3. /\ \A k \in Nonce : k # n => pool'[k] = pool[k]
        /\ pool'[n] # None /\ pool'[n].seen /\ pool'[n].by = pool[n].by /\ pool[n] # None
        /\ pool'[n].overdue = pool[n].overdue
    <3>1. pool[n] \in Tx BY <2>1 DEF Notice, NInv, TypeOK
    <3>2. pool'[n] = [pool[n] EXCEPT !.seen = TRUE] BY <2>2 DEF NInv, TypeOK
    <3>3. pool'[n] \in Tx BY <3>1, <3>2 DEF Tx
    <3>4. pool'[n] # None /\ pool[n] # None BY <3>1, <3>3, NoneIsNone
    <3>5. QED BY <2>2, <3>1, <3>2, <3>4 DEF NInv, TypeOK, Tx
  <2>4. \A k \in mined .. n - 1 : pool[k] # None /\ pool[k].seen
        BY <2>1, Answers DEF Notice, NInv
  <2>5. \A k \in mined .. n : pool'[k] # None /\ pool'[k].seen
    <3>1. SUFFICES ASSUME NEW k \in mined .. n PROVE pool'[k] # None /\ pool'[k].seen OBVIOUS
    <3>2. k \in Nonce /\ (k = n \/ k \in mined .. n - 1) BY <1>2 DEF Nonce
    <3>3. QED BY <2>3, <2>4, <3>2
  <2>6. \A k \in Nonce : pool[k] # None => k >= mined BY DEF NInv, PoolInv
  <2>7. PoolInv' /\ GraceInv' /\ RecordInv'
        BY <1>1, <1>2, <2>2, <2>3, <2>5, <2>6, NodeKeeps
  <2>8. QED BY <1>4, <2>2, <2>7 DEF procVars
<1>6. CASE Mine
  <2>1. /\ mined \in Nonce /\ mined' = mined + 1 /\ pool' = [pool EXCEPT ![mined] = None]
        /\ UNCHANGED <<state, procVars, evicted, overlap>>
        BY <1>6 DEF Mine
  <2>2. pool'[mined] = None /\ \A k \in Nonce : k # mined => pool'[k] = pool[k]
        BY <2>1 DEF NInv, TypeOK
  <2>3. \A k \in Nonce : pool[k] # None => k >= mined /\ k \in Nat BY DEF NInv, PoolInv, Nonce
  <2>4. PoolInv' /\ GraceInv' /\ RecordInv'
        BY <1>1, <1>2, <2>1, <2>2, <2>3, NodeKeeps DEF Nonce
  <2>5. QED BY <1>4, <2>1, <2>4 DEF procVars
<1>7. CASE Evict
  <2>1. PoolInv' /\ GraceInv' BY <1>7 DEF Evict, PoolInv, GraceInv, NInv, Own, procVars
  <2>2. RecordInv' BY <1>7 DEF Evict, RecordInv
  <2>3. QED BY <1>4, <1>7, <2>1, <2>2 DEF Evict, procVars
<1>8. CASE AgeState
  <2>1. PoolInv' /\ GraceInv' /\ RecordInv' BY <1>8, AgeStateKeeps
  <2>2. QED BY <1>4, <1>8, <2>1 DEF AgeState, procVars
<1>9. CASE AgeLock \/ UNCHANGED vars
  <2>1. UNCHANGED <<state, procVars, netVars, overlap>> BY <1>9 DEF AgeLock, vars
  <2>2. PoolInv' /\ GraceInv' BY <2>1 DEF PoolInv, GraceInv, NInv, Own, Sent, netVars, procVars
  <2>3. RecordInv'
        BY <2>1 DEF NInv, RecordInv, SentInv, FileInv, OwnInv, Own, Sent, Closed, Fresh,
                    procVars, netVars
  <2>4. QED BY <1>4, <2>1, <2>2, <2>3 DEF procVars
<1>10. QED BY <1>3, <1>5, <1>6, <1>7, <1>8, <1>9 DEF Next

LEMMA NInit == Init => NInv
<1> SUFFICES ASSUME Init PROVE NInv OBVIOUS
<1>1. TypeOK BY TypeInit
<1>2. GapInv BY DEF Init, GapInv
<1>3. PoolInv BY DEF Init, PoolInv
<1>4. GraceInv BY DEF Init, GraceInv, Own
<1>5. Alone BY DEF Init, Alone, Critical
<1>6. RecordInv BY DEF Init, RecordInv, SentInv, FileInv, OwnInv, Fresh, Own
<1>7. QED BY <1>1, <1>2, <1>3, <1>4, <1>5, <1>6 DEF NInv

(* OwnNonceFresh. Whichever pending transactions the node counts, the      *)
(* nonce that patchEvmNonce chooses is not that of a pending transaction   *)
(* that this process sent and the state file remembers, unless one of the  *)
(* code's time limits failed it: the node did not count what the process   *)
(* had sent when the 30 s of grace were over, or it was still pending when *)
(* the file passed STATE_TTL_MS.                                           *)
THEOREM OwnNonceNeverReused == Spec => OwnNonceFresh
<1>1. ASSUME NInv, Next, NEW p \in Proc, LandsNow(p),
             pool[nonce[p]] # None, pool[nonce[p]].by = p
      PROVE  pool[nonce[p]].overdue \/ evicted \/ overlap
  <2>1. SUFFICES ASSUME ~ pool[nonce[p]].overdue, ~ evicted, ~ overlap PROVE FALSE OBVIOUS
  <2>2. nonce[p] \in Nonce
    <3>1. \A q \in Proc : Step(q) => q = p
          BY <1>1 DEF LandsNow, NInv, TypeOK, Step, Begin, LockCreate, LockExists, Inspect, Clean,
                      Release, Unlink, Prepare, Fails, Patch, PendingAnswer, Forward, Broadcast,
                      BroadcastLandsThenThrows, Record, GraceEnds, Crash, Goto, procVars
    <3>2. \E q \in Proc : Step(q)
          BY <1>1 DEF Next, LandsNow, Notice, Mine, Evict, AgeState, AgeLock, procVars, netVars
    <3>3. Step(p) BY <3>1, <3>2
    <3>4. QED BY <1>1, <3>3
              DEF LandsNow, Step, Begin, LockCreate, LockExists, Inspect, Clean, Release, Unlink,
                  Prepare, Fails, Patch, PendingAnswer, Forward, Broadcast, BroadcastLandsThenThrows,
                  Record, GraceEnds, Crash, Lands, Goto, procVars, netVars, NInv, TypeOK
  <2>3. Own(p, nonce[p]) BY <1>1, <2>1, <2>2 DEF Own
  <2>4. pc[p] = "sign" /\ FileInv /\ OwnInv BY <1>1, <2>1 DEF LandsNow, NInv, RecordInv
  <2>5. Fresh /\ nonce[p] <= state BY <2>2, <2>3, <2>4 DEF OwnInv, Sent
  <2>6. nonce[p] > state /\ nonce[p] \in Nat /\ state \in Nat
        BY <1>1, <2>4, <2>5 DEF FileInv, Fresh, NInv, TypeOK
  <2>7. QED BY <2>5, <2>6
<1>2. NInv /\ [Next]_vars =>
          [\A p \in Proc :
              LandsNow(p) /\ pool[nonce[p]] # None /\ pool[nonce[p]].by = p =>
                  pool[nonce[p]].overdue \/ evicted \/ overlap]_vars
      BY <1>1
<1>3. Spec => []NInv BY NInit, NNext, PTL DEF Spec
<1>4. QED BY <1>2, <1>3, PTL DEF Spec, OwnNonceFresh
=============================================================================
