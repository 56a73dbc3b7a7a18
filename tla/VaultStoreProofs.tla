-------------------------- MODULE VaultStoreProofs --------------------------
(***************************************************************************)
(* Type correctness of the vault store, and the atomicity of the storage   *)
(* under it, for any number of instances, processes, faults and crashes.   *)
(***************************************************************************)
EXTENDS VaultStore, SequenceTheorems, TLAPS

(* What an instance is doing fits the call it has made. *)
Fits(v, x) ==
    /\ v.doing \in {"none", "open"} => x.at = "idle"
    /\ v.doing = "none" => v = Nothing
    /\ v.doing \in {"saving", "importing"} =>
          /\ v.saves # <<>>
          /\ x.at # "idle" => x.req \in Requests(VaultKey) /\ x.req.new \in Stored
    /\ x.at # "idle" => x.req \in Requests(VaultKey) \cup Requests(ActiveKey)

TInv == TypeOK /\ \A i \in Client : Fits(inst[i], call[i])

LEMMA InitTyped == Init => TInv
<1> SUFFICES ASSUME Init PROVE TInv
  OBVIOUS
<1> USE VaultStoreAssumption
<1>1. Pristine \in Data
  BY DEF Pristine, Data, Edits
<1>2. [rev |-> 1, data |-> Pristine, life |-> 1] \in Stored
  BY <1>1 DEF Stored
<1>3. Nothing \in Instance
  BY <1>1 DEF Nothing, Instance, Works
<1>4. NoCall \in Call /\ NoCall.at = "idle"
  BY DEF NoCall, Call, Stages, Answers
<1>5. /\ disk \in [{VaultKey, ActiveKey} -> Value]
      /\ \A key \in {VaultKey, ActiveKey} : disk[key] \in Values(key)
  BY <1>2 DEF Init, Value, Values, VaultKey, ActiveKey
<1>6. /\ inst \in [Client -> Instance] /\ call \in [Client -> Call]
      /\ \A i \in Client : inst[i] = Nothing /\ call[i] = NoCall
  BY <1>3, <1>4 DEF Init
<1>7. flock \in Client \cup {None} /\ host \in [Client -> Host]
  BY DEF Init
<1>8. edits \in Edits /\ lives \in Nat /\ deleted \in BOOLEAN /\ crashes \in Nat
  <2>1. MaxEvents \in Nat
    OBVIOUS
  <2>2. lives \in Nat
    BY DEF Init
  <2>3. edits = 0 /\ deleted = FALSE /\ crashes = 0
    BY DEF Init
  <2>4. edits \in Edits /\ crashes \in Nat
    BY <2>1, <2>3 DEF Edits
  <2>5. deleted \in BOOLEAN
    BY <2>3
  <2> QED BY <2>2, <2>4, <2>5
<1>9. TypeOK
  BY <1>5, <1>6, <1>7, <1>8 DEF TypeOK
<1>10. Fits(Nothing, NoCall)
  BY <1>4 DEF Fits, Nothing
<1> QED BY <1>6, <1>9, <1>10 DEF TInv

-----------------------------------------------------------------------------
(* Instances *)

LEMMA RestoredTyped ==
  ASSUME NEW v \in Instance, NEW r \in Stored
  PROVE  /\ Restored(v, r) \in Instance
         /\ Restored(v, r).doing = v.doing /\ Restored(v, r).saves = v.saves
  BY DEF Instance, Stored, Restored

LEMMA QueuedTyped ==
  ASSUME NEW v \in Instance, NEW m \in BOOLEAN
  PROVE  /\ Queued(v, m) \in Instance
         /\ Queued(v, m).doing = v.doing /\ Queued(v, m).saves # <<>>
<1> DEFINE save == [data |-> v.now, merge |-> m, edited |-> v.dirty, alone |-> v.saves = <<>>]
<1>1. save \in Save
  BY DEF Instance, Save
<1>2. Append(v.saves, save) \in Seq(Save) /\ Append(v.saves, save) # <<>>
  BY <1>1 DEF Instance
<1>3. Queued(v, m) = [v EXCEPT !.saves = Append(v.saves, save)]
  BY DEF Queued, Instance
<1> HIDE DEF save
<1> QED BY <1>2, <1>3 DEF Instance

LEMMA EditedTyped ==
  ASSUME TypeOK, edits + crashes < MaxEvents, NEW v \in Instance, NEW f \in Fields
  PROVE  /\ Edited(v, f) \in Instance
         /\ Edited(v, f).doing = v.doing
<1>1. edits + 1 \in Edits
  BY VaultStoreAssumption DEF TypeOK, Edits
<1>2. [v.now EXCEPT ![f] = edits + 1] \in Data /\ v.dirty \cup {f} \in SUBSET Fields
  BY <1>1 DEF Instance, Data
<1> QED BY <1>2 DEF Edited, Instance

LEMMA DoingTyped ==
  ASSUME NEW v \in Instance, NEW d \in Works
  PROVE  /\ [v EXCEPT !.doing = d] \in Instance
         /\ [v EXCEPT !.doing = d].doing = d /\ [v EXCEPT !.doing = d].saves = v.saves
  BY DEF Instance

LEMMA TailTyped ==
  ASSUME NEW v \in Instance, v.saves # <<>>
  PROVE  /\ [v EXCEPT !.saves = Tail(v.saves)] \in Instance
         /\ [v EXCEPT !.saves = Tail(v.saves)].doing = v.doing
<1>1. v.saves \in Seq(Save)
  BY DEF Instance
<1>2. Tail(v.saves) \in Seq(Save)
  BY <1>1, HeadTailProperties
<1> QED BY <1>2 DEF Instance

LEMMA NothingTyped == Nothing \in Instance /\ Nothing.doing = "none"
<1>1. MaxEvents \in Nat
  BY VaultStoreAssumption
<1>2. Pristine \in Data
  BY <1>1 DEF Pristine, Data, Edits
<1>3. <<>> \in Seq(Save)
  OBVIOUS
<1> QED BY <1>2, <1>3 DEF Nothing, Instance, Works

LEMMA NoCallTyped == NoCall \in Call /\ NoCall.at = "idle"
  BY DEF NoCall, Call, Stages, Answers

LEMMA StartedTyped ==
  ASSUME NEW r \in Requests(VaultKey) \cup Requests(ActiveKey)
  PROVE  Started(r) \in Call /\ Started(r).at = "lock" /\ Started(r).req = r
  BY DEF Started, Call, Stages, Answers

(* A step of the vault code for instance i keeps TInv. *)
LEMMA TurnTyped ==
  ASSUME TInv, NEW i \in Client, NEW v \in Instance, NEW x \in Call,
         inst' = [inst EXCEPT ![i] = v], call' = [call EXCEPT ![i] = x], Fits(v, x),
         UNCHANGED <<disk, flock, host>>,
         edits' \in Edits, lives' \in Nat, deleted' \in BOOLEAN, crashes' \in Nat
  PROVE  TInv'
<1>1. TypeOK'
  BY DEF TInv, TypeOK, Fits, Is
<1>2. \A j \in Client : Fits(inst'[j], call'[j])
  BY DEF TInv, TypeOK
<1> QED BY <1>1, <1>2 DEF TInv, Fits
-----------------------------------------------------------------------------
(* The actions, one lemma each *)

LEMMA Facts ==
  ASSUME TInv, NEW i \in Client
  PROVE  /\ inst[i] \in Instance /\ call[i] \in Call /\ Fits(inst[i], call[i])
         /\ record \in Stored \cup {None} /\ None \notin Stored
         /\ inst = [inst EXCEPT ![i] = inst[i]] /\ call = [call EXCEPT ![i] = call[i]]
         /\ edits \in Edits /\ lives \in Nat /\ deleted \in BOOLEAN /\ crashes \in Nat
         /\ TypeOK
  BY VaultStoreAssumption DEF TInv, TypeOK, record, Values, VaultKey, ActiveKey

LEMMA OpenTyped ==
  ASSUME TInv, NEW i \in Client, Open(i)
  PROVE  TInv'
<1> DEFINE v == [Restored(Nothing, record) EXCEPT !.doing = "open"]
<1> USE Facts, NothingTyped
<1>1. record \in Stored
  BY DEF Open
<1>2. v \in Instance /\ v.doing = "open"
  <2>1. Restored(Nothing, record) \in Instance /\ "open" \in Works
    BY <1>1, RestoredTyped DEF Works
  <2> QED BY <2>1, DoingTyped
<1>3. call[i].at = "idle"
  BY DEF Open, Is, Fits
<1>4. Fits(v, call[i])
  BY <1>2, <1>3 DEF Fits
<1>5. inst' = [inst EXCEPT ![i] = v] /\ call' = [call EXCEPT ![i] = call[i]]
  BY DEF Open, Becomes, storageVars
<1>6. UNCHANGED <<disk, flock, host, edits, lives, deleted, crashes>>
  BY DEF Open, storageVars
<1> HIDE DEF v
<1> QED BY <1>2, <1>4, <1>5, <1>6, TurnTyped

LEMMA LoadTyped ==
  ASSUME TInv, NEW i \in Client, Load(i)
  PROVE  TInv'
<1> USE Facts
<1> DEFINE w == Restored(inst[i], record)
           q == [n \in DOMAIN w.saves |-> [w.saves[n] EXCEPT !.alone = FALSE]]
           v == [w EXCEPT !.saves = q]
<1>1. record \in Stored /\ inst[i].doing \in {"open", "saving"}
  BY DEF Load, Is
<1>2. w \in Instance /\ w.doing = inst[i].doing /\ w.saves = inst[i].saves
  BY <1>1, RestoredTyped
<1>3. w.saves \in Seq(Save)
  BY <1>2 DEF Instance
<1>4. q \in Seq(Save) /\ (w.saves # <<>> => q # <<>>)
  <2>1. DOMAIN w.saves = 1..Len(w.saves) /\ Len(w.saves) \in Nat
    BY <1>3
  <2>2. \A n \in 1..Len(w.saves) : [w.saves[n] EXCEPT !.alone = FALSE] \in Save
    <3> TAKE n \in 1..Len(w.saves)
    <3>1. w.saves[n] \in Save
      BY <1>3, <2>1, ElementOfSeq
    <3> HIDE DEF w
    <3> QED BY <3>1 DEF Save
  <2>3. q \in [1..Len(w.saves) -> Save]
    BY <2>1, <2>2
  <2>4. q \in Seq(Save) /\ Len(q) = Len(w.saves)
    BY <2>1, <2>3, SeqDef
  <2> QED BY <1>3, <2>4, EmptySeq
<1>5. v \in Instance /\ v.doing = inst[i].doing /\ v.saves = q
  BY <1>2, <1>4 DEF Instance
<1>6. Fits(v, call[i])
  BY <1>1, <1>2, <1>4, <1>5 DEF Fits
<1>7. inst' = [inst EXCEPT ![i] = v] /\ call' = [call EXCEPT ![i] = call[i]]
  BY DEF Load, Becomes, storageVars
<1>8. UNCHANGED <<disk, flock, host, edits, lives, deleted, crashes>>
  BY DEF Load, storageVars
<1> HIDE DEF v
<1> QED BY <1>5, <1>6, <1>7, <1>8, TurnTyped

LEMMA AbandonTyped ==
  ASSUME TInv, NEW i \in Client, Abandon(i)
  PROVE  TInv'
<1> USE Facts, NothingTyped
<1>1. Fits(Nothing, call[i])
  BY DEF Abandon, Is, Fits
<1>2. inst' = [inst EXCEPT ![i] = Nothing] /\ call' = [call EXCEPT ![i] = call[i]]
  BY DEF Abandon, Becomes, storageVars
<1>3. UNCHANGED <<disk, flock, host, edits, lives, deleted, crashes>>
  BY DEF Abandon, storageVars
<1> QED BY <1>1, <1>2, <1>3, TurnTyped

LEMMA EditTyped ==
  ASSUME TInv, NEW i \in Client, NEW f \in Fields, Edit(i, f)
  PROVE  TInv'
<1> USE Facts
<1> DEFINE v == Queued(Edited(inst[i], f), FALSE)
<1>1. inst[i].doing \in {"open", "saving"} /\ edits + crashes < MaxEvents
  BY DEF Edit, Is
<1>2. v \in Instance /\ v.doing = inst[i].doing /\ v.saves # <<>>
  BY <1>1, EditedTyped, QueuedTyped
<1>3. Fits(v, call[i])
  BY <1>1, <1>2 DEF Fits
<1>4. inst' = [inst EXCEPT ![i] = v] /\ call' = [call EXCEPT ![i] = call[i]]
  BY DEF Edit, Becomes, storageVars
<1>5. edits' \in Edits
  BY <1>1, VaultStoreAssumption DEF Edit, Edits
<1>6. UNCHANGED <<disk, flock, host, lives, deleted, crashes>>
  BY DEF Edit, storageVars
<1> HIDE DEF v
<1> QED BY <1>2, <1>3, <1>4, <1>5, <1>6, TurnTyped

LEMMA SaveMergingTyped ==
  ASSUME TInv, NEW i \in Client, SaveMerging(i)
  PROVE  TInv'
<1> USE Facts
<1> DEFINE v == Queued(inst[i], TRUE)
<1>1. v \in Instance /\ v.doing = "open" /\ v.saves # <<>>
  BY QueuedTyped DEF SaveMerging, Is
<1>2. Fits(v, call[i])
  BY <1>1 DEF Fits, SaveMerging, Is
<1>3. inst' = [inst EXCEPT ![i] = v] /\ call' = [call EXCEPT ![i] = call[i]]
  BY DEF SaveMerging, Becomes, storageVars
<1>4. UNCHANGED <<disk, flock, host, edits, lives, deleted, crashes>>
  BY DEF SaveMerging, storageVars
<1> HIDE DEF v
<1> QED BY <1>1, <1>2, <1>3, <1>4, TurnTyped

-----------------------------------------------------------------------------
(* A save that is called *)

LEMMA HeadTyped ==
  ASSUME NEW v \in Instance, v.saves # <<>>
  PROVE  Head(v.saves) \in Save
  BY HeadTailProperties DEF Instance

LEMMA MergedTyped ==
  ASSUME NEW old \in Data, NEW local \in Data, NEW current \in Data
  PROVE  Merged(old, local, current) \in Data
  BY DEF Merged, Data

LEMMA NextRecordTyped ==
  ASSUME TInv, NEW i \in Client, NEW save \in Save, Revises(i) \/ Merges(i, save)
  PROVE  NextRecord(i, save) \in Stored
<1> USE Facts
<1>1. inst[i].base \in Stored \cup {None} /\ save.data \in Data
  BY DEF Instance, Save
<1>2. NextRevision(i) \in Nat
  BY DEF NextRevision, Stored
<1>3. NextData(i, save) \in Data
  <2>1. CASE Revises(i)
    BY <1>1, <2>1 DEF NextData
  <2>2. CASE ~ Revises(i)
    <3>1. inst[i].base \in Stored /\ record \in Stored
      BY <1>1, <2>2 DEF Merges
    <3>2. inst[i].base.data \in Data /\ record.data \in Data
      BY <3>1 DEF Stored
    <3> QED BY <1>1, <2>2, <3>2, MergedTyped DEF NextData
  <2> QED BY <2>1, <2>2
<1>4. (IF record = None THEN lives + 1 ELSE record.life) \in Nat
  BY DEF Stored
<1> QED BY <1>2, <1>3, <1>4 DEF NextRecord, Stored

LEMMA SaveReadsTyped ==
  ASSUME TInv, NEW i \in Client, SaveReads(i)
  PROVE  TInv'
<1> USE Facts
<1> DEFINE save == NextSave(i)
           req == CompareAndSet(VaultKey, record, NextRecord(i, save))
           v == [inst[i] EXCEPT !.doing = IF inst[i].doing = "open" THEN "saving" ELSE inst[i].doing]
<1>1. /\ inst[i].doing \in {"open", "importing"} /\ inst[i].saves # <<>>
      /\ Revises(i) \/ Merges(i, save)
  BY DEF SaveReads, Is
<1>2. save \in Save
  BY <1>1, HeadTyped DEF NextSave
<1>3. NextRecord(i, save) \in Stored
  BY <1>1, <1>2, NextRecordTyped
<1>4. req \in Requests(VaultKey) /\ req.new \in Stored
  BY <1>3 DEF CompareAndSet, Requests, Value, Values
<1>5. Started(req) \in Call /\ Started(req).req = req
  BY <1>4, StartedTyped
<1>6. v \in Instance /\ v.doing \in {"saving", "importing"} /\ v.saves # <<>>
  BY <1>1 DEF Instance, Works
<1> HIDE DEF v, req
<1>7. Fits(v, Started(req))
  BY <1>4, <1>5, <1>6 DEF Fits
<1>8. inst' = [inst EXCEPT ![i] = v] /\ call' = [call EXCEPT ![i] = Started(req)]
  BY <1>1 DEF SaveReads, Becomes, Calls, v, req
<1>9. lives' \in Nat
  BY DEF SaveReads
<1>10. UNCHANGED <<disk, flock, host, edits, deleted, crashes>>
  BY DEF SaveReads, Calls
<1> QED BY <1>5, <1>6, <1>7, <1>8, <1>9, <1>10, TurnTyped

(* A save or an import that fails leaves a well-formed instance. *)
LEMMA FailedTyped ==
  ASSUME NEW v \in Instance, v.saves # <<>>
  PROVE  /\ Failed(v) \in Instance
         /\ Failed(v).doing \in {"none", "open"}
         /\ Failed(v).doing = "none" => Failed(v) = Nothing
<1>1. CASE v.doing = "importing"
  BY <1>1, NothingTyped DEF Failed
<1>2. CASE v.doing # "importing"
  <2> DEFINE w == [v EXCEPT !.saves = Tail(v.saves)]
  <2>1. w \in Instance /\ "open" \in Works
    BY TailTyped DEF Works
  <2>2. [w EXCEPT !.doing = "open"] \in Instance /\ [w EXCEPT !.doing = "open"].doing = "open"
    BY <2>1, DoingTyped
  <2>3. Failed(v) = [w EXCEPT !.doing = "open"]
    BY <1>2 DEF Failed, Instance
  <2> QED BY <2>2, <2>3
<1> QED BY <1>1, <1>2

LEMMA SaveConflictsTyped ==
  ASSUME TInv, NEW i \in Client, SaveConflicts(i)
  PROVE  TInv'
<1> USE Facts
<1>1. inst[i].saves # <<>> /\ call[i].at = "idle"
  BY DEF SaveConflicts, At
<1>2. Failed(inst[i]) \in Instance /\ Fits(Failed(inst[i]), call[i])
  BY <1>1, FailedTyped DEF Fits
<1>3. inst' = [inst EXCEPT ![i] = Failed(inst[i])] /\ call' = [call EXCEPT ![i] = call[i]]
  BY DEF SaveConflicts, Becomes, storageVars
<1>4. UNCHANGED <<disk, flock, host, edits, lives, deleted, crashes>>
  BY DEF SaveConflicts, storageVars
<1> QED BY <1>2, <1>3, <1>4, TurnTyped

LEMMA SaveRefusedTyped ==
  ASSUME TInv, NEW i \in Client, SaveRefused(i)
  PROVE  TInv'
<1> USE Facts, NoCallTyped
<1>1. inst[i].saves # <<>>
  BY DEF SaveRefused, Busy, Is, Fits
<1>2. Failed(inst[i]) \in Instance /\ Fits(Failed(inst[i]), NoCall)
  BY <1>1, FailedTyped DEF Fits
<1>3. inst' = [inst EXCEPT ![i] = Failed(inst[i])] /\ call' = [call EXCEPT ![i] = NoCall]
  BY DEF SaveRefused, Becomes, Hangs
<1>4. UNCHANGED <<disk, flock, host, edits, lives, deleted, crashes>>
  BY DEF SaveRefused, Hangs
<1> QED BY <1>2, <1>3, <1>4, TurnTyped

LEMMA CommittedTyped ==
  ASSUME TInv, NEW i \in Client, Busy(i), Answered(i, "done"), NEW d \in Works
  PROVE  /\ [Committed(i) EXCEPT !.doing = d] \in Instance
         /\ [Committed(i) EXCEPT !.doing = d].doing = d
<1> USE Facts
<1>1. inst[i].saves # <<>> /\ call[i].req.new \in Stored
  BY DEF Busy, Is, Fits, Answered, At
<1> DEFINE w == Restored(inst[i], call[i].req.new)
<1>2. w \in Instance /\ w.saves # <<>>
  BY <1>1, RestoredTyped
<1>3. Committed(i) = [w EXCEPT !.saves = Tail(w.saves)]
  BY <1>2 DEF Committed, Instance
<1> HIDE DEF w
<1>4. Committed(i) \in Instance
  BY <1>2, <1>3, TailTyped
<1> QED BY <1>4, DoingTyped

LEMMA SaveCommittedTyped ==
  ASSUME TInv, NEW i \in Client, SaveCommitted(i)
  PROVE  TInv'
<1> USE Facts, NoCallTyped
<1> DEFINE v == [Committed(i) EXCEPT !.doing = "open"]
<1>1. Busy(i) /\ Answered(i, "done") /\ "open" \in Works
  BY DEF SaveCommitted, Busy, Works
<1>2. v \in Instance /\ v.doing = "open"
  BY <1>1, CommittedTyped
<1>3. inst' = [inst EXCEPT ![i] = v] /\ call' = [call EXCEPT ![i] = NoCall]
  BY DEF SaveCommitted, Becomes, Hangs
<1>4. UNCHANGED <<disk, flock, host, edits, lives, deleted, crashes>>
  BY DEF SaveCommitted, Hangs
<1> HIDE DEF v
<1>5. Fits(v, NoCall)
  BY <1>2 DEF Fits
<1> QED BY <1>2, <1>3, <1>4, <1>5, TurnTyped

-----------------------------------------------------------------------------
(* The calls of the manager *)

LEMMA PointerCallTyped ==
  /\ Started(Set(ActiveKey, Id)) \in Call /\ Started(Remove(ActiveKey)) \in Call
  /\ Started(Remove(VaultKey)) \in Call
  /\ Started(Set(ActiveKey, Id)).req \in Requests(ActiveKey)
  /\ Started(Remove(ActiveKey)).req \in Requests(ActiveKey)
  /\ Started(Remove(VaultKey)).req \in Requests(VaultKey)
<1>1. /\ Set(ActiveKey, Id) \in Requests(ActiveKey) /\ Remove(ActiveKey) \in Requests(ActiveKey)
      /\ Remove(VaultKey) \in Requests(VaultKey)
  <2>1. None \in Value /\ Id \in Values(ActiveKey) /\ None \in Values(ActiveKey)
        /\ None \in Values(VaultKey)
    BY DEF Value, Values, ActiveKey, VaultKey
  <2> QED BY <2>1 DEF Set, Remove, Requests
<1> QED BY <1>1, StartedTyped

LEMMA ImportTyped ==
  ASSUME TInv, NEW i \in Client, Import(i)
  PROVE  TInv'
<1> USE Facts, NothingTyped
<1> DEFINE w == [Nothing EXCEPT !.doing = "importing", !.base = record, !.dirty = Fields,
                                !.now = [f \in Fields |-> edits + 1]]
           v == Queued(w, FALSE)
<1>1. edits + 1 \in Edits /\ inst[i].doing = "none"
  BY VaultStoreAssumption DEF Import, Edits, Is
<1>2. [f \in Fields |-> edits + 1] \in Data /\ "importing" \in Works
  BY <1>1 DEF Data, Works
<1>3. w \in Instance /\ w.doing = "importing"
  BY <1>2 DEF Instance
<1>4. inst' = [inst EXCEPT ![i] = v] /\ call' = [call EXCEPT ![i] = call[i]]
  BY DEF Import, Becomes, storageVars
<1>5. edits' \in Edits
  BY <1>1 DEF Import
<1>6. UNCHANGED <<disk, flock, host, lives, deleted, crashes>>
  BY DEF Import, storageVars
<1> HIDE DEF w
<1>7. v \in Instance /\ v.doing = "importing" /\ v.saves # <<>>
  BY <1>3, QueuedTyped
<1> HIDE DEF v
<1>8. Fits(v, call[i])
  BY <1>1, <1>7 DEF Fits
<1> QED BY <1>4, <1>5, <1>6, <1>7, <1>8, TurnTyped

LEMMA ImportCommittedTyped ==
  ASSUME TInv, NEW i \in Client, ImportCommitted(i)
  PROVE  TInv'
<1> USE Facts, PointerCallTyped
<1> DEFINE v == [Committed(i) EXCEPT !.doing = "pointing"]
           x == Started(Set(ActiveKey, Id))
<1>1. Busy(i) /\ Answered(i, "done") /\ "pointing" \in Works
  BY DEF ImportCommitted, Busy, Works
<1>2. v \in Instance /\ v.doing = "pointing"
  BY <1>1, CommittedTyped
<1>3. inst' = [inst EXCEPT ![i] = v] /\ call' = [call EXCEPT ![i] = x]
  BY DEF ImportCommitted, Becomes, Calls
<1>4. UNCHANGED <<disk, flock, host, edits, lives, deleted, crashes>>
  BY DEF ImportCommitted, Calls
<1> HIDE DEF v, x
<1>5. x \in Call /\ Fits(v, x)
  BY <1>2 DEF Fits, x
<1> QED BY <1>2, <1>3, <1>4, <1>5, TurnTyped

LEMMA ImportReturnsTyped ==
  ASSUME TInv, NEW i \in Client, ImportReturns(i)
  PROVE  TInv'
<1> USE Facts, NoCallTyped, NothingTyped
<1> DEFINE v == IF Answered(i, "done") THEN [inst[i] EXCEPT !.doing = "open"] ELSE Nothing
<1>1. "open" \in Works
  BY DEF Works
<1>2. v \in Instance /\ (v.doing = "open" \/ v = Nothing)
  BY <1>1, DoingTyped
<1>3. inst' = [inst EXCEPT ![i] = v] /\ call' = [call EXCEPT ![i] = NoCall]
  BY DEF ImportReturns, Becomes, Hangs
<1>4. UNCHANGED <<disk, flock, host, edits, lives, deleted, crashes>>
  BY DEF ImportReturns, Hangs
<1> HIDE DEF v
<1>5. Fits(v, NoCall)
  BY <1>2 DEF Fits
<1> QED BY <1>2, <1>3, <1>4, <1>5, TurnTyped

LEMMA DeleteTyped ==
  ASSUME TInv, NEW i \in Client, Delete(i)
  PROVE  TInv'
<1> USE Facts, PointerCallTyped, NothingTyped
<1> DEFINE v == [Nothing EXCEPT !.doing = "deleting"]
           x == Started(Remove(VaultKey))
<1>1. "deleting" \in Works
  BY DEF Works
<1>2. v \in Instance /\ v.doing = "deleting"
  BY <1>1, DoingTyped
<1>3. inst' = [inst EXCEPT ![i] = v] /\ call' = [call EXCEPT ![i] = x]
  BY DEF Delete, Becomes, Calls
<1>4. UNCHANGED <<disk, flock, host, edits, lives, crashes>> /\ deleted' \in BOOLEAN
  BY DEF Delete, Calls
<1> HIDE DEF v, x
<1>5. x \in Call /\ Fits(v, x)
  BY <1>2 DEF Fits, x
<1> QED BY <1>2, <1>3, <1>4, <1>5, TurnTyped

LEMMA DeleteClearsTyped ==
  ASSUME TInv, NEW i \in Client, DeleteClears(i)
  PROVE  TInv'
<1> USE Facts, PointerCallTyped, NothingTyped
<1> DEFINE v == [Nothing EXCEPT !.doing = "clearing"]
           x == Started(Remove(ActiveKey))
<1>1. "clearing" \in Works
  BY DEF Works
<1>2. v \in Instance /\ v.doing = "clearing"
  BY <1>1, DoingTyped
<1>3. inst' = [inst EXCEPT ![i] = v] /\ call' = [call EXCEPT ![i] = x]
  BY DEF DeleteClears, Becomes, Calls
<1>4. UNCHANGED <<disk, flock, host, edits, lives, deleted, crashes>>
  BY DEF DeleteClears, Calls
<1> HIDE DEF v, x
<1>5. x \in Call /\ Fits(v, x)
  BY <1>2 DEF Fits, x
<1> QED BY <1>2, <1>3, <1>4, <1>5, TurnTyped

LEMMA DeleteReturnsTyped ==
  ASSUME TInv, NEW i \in Client, DeleteReturns(i)
  PROVE  TInv'
<1> USE Facts, NoCallTyped, NothingTyped
<1>1. inst' = [inst EXCEPT ![i] = Nothing] /\ call' = [call EXCEPT ![i] = NoCall]
  BY DEF DeleteReturns, Becomes, Hangs
<1>2. UNCHANGED <<disk, flock, host, edits, lives, deleted, crashes>>
  BY DEF DeleteReturns, Hangs
<1>3. Fits(Nothing, NoCall)
  BY DEF Fits
<1> QED BY <1>1, <1>2, <1>3, TurnTyped

-----------------------------------------------------------------------------
(* The storage and crashes *)

(* A call of client i that goes on is still the same call. *)
LEMMA OngoingTyped ==
  ASSUME TInv, NEW i \in Client,
         call[i].at # "idle", UNCHANGED <<host, inst, edits, lives, deleted, crashes>>,
         call' \in [Client -> Call], call'[i].req = call[i].req, call'[i].at # "idle",
         \A j \in Client \ {i} : call'[j] = call[j],
         flock' \in Client \cup {None}, disk' \in [{VaultKey, ActiveKey} -> Value],
         \A key \in {VaultKey, ActiveKey} : disk'[key] \in Values(key)
  PROVE  TInv'
<1> USE Facts
<1>1. Fits(inst[i], call'[i])
  BY DEF Fits
<1>2. TypeOK'
  BY DEF TInv, TypeOK, Is
<1>3. \A j \in Client : Fits(inst'[j], call'[j])
  BY <1>1 DEF TInv, TypeOK
<1> QED BY <1>2, <1>3 DEF TInv, Fits

LEMMA Ends ==
  ASSUME call \in [Client -> Call], NEW i \in Client, NEW s \in Stages, NEW a \in Answers,
         call' = [call EXCEPT ![i].at = s, ![i].answer = a]
  PROVE  /\ call' \in [Client -> Call]
         /\ call'[i].req = call[i].req /\ call'[i].at = s
         /\ \A j \in Client \ {i} : call'[j] = call[j]
<1> DEFINE c == [call EXCEPT ![i].at = s]
<1>1. c \in [Client -> Call] /\ c[i].req = call[i].req /\ c[i].at = s
  BY DEF Call
<1>2. \A j \in Client \ {i} : c[j] = call[j]
  OBVIOUS
<1>3. call' = [c EXCEPT ![i].answer = a]
  OBVIOUS
<1> HIDE DEF c
<1>4. call' \in [Client -> Call] /\ call'[i].req = c[i].req /\ call'[i].at = c[i].at
  <2> DEFINE y == [c[i] EXCEPT !.answer = a]
  <2>1. c[i] \in Call
    BY <1>1
  <2>2. y \in Call /\ y.req = c[i].req /\ y.at = c[i].at
    BY <2>1 DEF Call
  <2>3. call' = [c EXCEPT ![i] = y]
    BY <1>3
  <2> HIDE DEF y
  <2> QED BY <1>1, <2>2, <2>3
<1>5. \A j \in Client \ {i} : call'[j] = c[j]
  BY <1>1, <1>3
<1> QED BY <1>1, <1>2, <1>4, <1>5

LEMMA StorageMovesTyped ==
  ASSUME TInv, NEW i \in Client, StorageMoves(i)
  PROVE  TInv'
<1> USE Facts
<1> DEFINE SameCall == /\ call' \in [Client -> Call]
                       /\ call'[i].req = call[i].req /\ call'[i].at # "idle"
                       /\ \A j \in Client \ {i} : call'[j] = call[j]
<1>1. /\ disk \in [{VaultKey, ActiveKey} -> Value]
      /\ \A key \in {VaultKey, ActiveKey} : disk[key] \in Values(key)
      /\ flock \in Client \cup {None} /\ call \in [Client -> Call]
  BY DEF TypeOK
<1>2. /\ call[i].req \in Requests(VaultKey) \cup Requests(ActiveKey) \cup {NoCall.req}
      /\ call[i].answer \in Answers
  BY DEF Call
<1>3. UNCHANGED <<host, inst, edits, lives, deleted, crashes>>
  BY DEF StorageMoves
<1>4. StorageStep(i)
  BY DEF StorageMoves
<1>5. CASE LockStorage(i)
  <2>1. SameCall
    BY <1>1, <1>2, <1>5 DEF LockStorage, Call, Stages, Answers
  <2> QED BY <1>1, <1>3, <1>5, <2>1, OngoingTyped DEF LockStorage, At
<1>6. CASE LockTimesOut(i)
  <2>1. SameCall
    <3>1. call' = [call EXCEPT ![i].at = "done", ![i].answer = "failed"]
      BY <1>6 DEF LockTimesOut
    <3> QED BY <1>1, <3>1, Ends DEF Stages, Answers
  <2> QED BY <1>1, <1>3, <1>6, <2>1, OngoingTyped DEF LockTimesOut, At
<1>7. CASE Compare(i)
  <2>1. SameCall
    <3>1. \/ call' = [call EXCEPT ![i].at = "write"]
          \/ call' = [call EXCEPT ![i].at = "unlock", ![i].answer = "differs"]
      BY <1>7 DEF Compare
    <3>2. CASE call' = [call EXCEPT ![i].at = "write"]
      BY <1>1, <3>2 DEF Call, Stages
    <3>3. CASE call' = [call EXCEPT ![i].at = "unlock", ![i].answer = "differs"]
      BY <1>1, <3>3, Ends DEF Stages, Answers
    <3> QED BY <3>1, <3>2, <3>3
  <2> QED BY <1>1, <1>3, <1>7, <2>1, OngoingTyped DEF Compare, At
<1>8. CASE Rename(i)
  <2>1. SameCall
    <3>1. call' = [call EXCEPT ![i].at = "unlock", ![i].answer = "done"]
      BY <1>8 DEF Rename
    <3> QED BY <1>1, <3>1, Ends DEF Stages, Answers
  <2>2. call[i].req \in Requests(VaultKey) \cup Requests(ActiveKey)
    BY <1>8 DEF Rename, At, Fits
  <2>3. call[i].req.key \in {VaultKey, ActiveKey} /\ call[i].req.new \in Values(call[i].req.key)
    BY <2>2 DEF Requests
  <2>4. \A key \in {VaultKey, ActiveKey} : Values(key) \subseteq Value
    BY DEF Values, Value
  <2>5. disk' = [disk EXCEPT ![call[i].req.key] = call[i].req.new]
    BY <1>8 DEF Rename
  <2>6. disk' \in [{VaultKey, ActiveKey} -> Value]
    BY <1>1, <2>3, <2>4, <2>5
  <2>7. \A key \in {VaultKey, ActiveKey} : disk'[key] \in Values(key)
    BY <1>1, <2>3, <2>5
  <2> QED BY <1>1, <1>3, <1>8, <2>1, <2>6, <2>7, OngoingTyped DEF Rename, At
<1>9. CASE WriteFails(i)
  <2>1. SameCall
    <3>1. call' = [call EXCEPT ![i].at = "unlock", ![i].answer = "failed"]
      BY <1>9 DEF WriteFails
    <3> QED BY <1>1, <3>1, Ends DEF Stages, Answers
  <2> QED BY <1>1, <1>3, <1>9, <2>1, OngoingTyped DEF WriteFails, At
<1>10. CASE UnlockStorage(i)
  <2>1. SameCall
    BY <1>1, <1>2, <1>10 DEF UnlockStorage, Call, Stages, Answers
  <2> QED BY <1>1, <1>3, <1>10, <2>1, OngoingTyped DEF UnlockStorage, At
<1> QED BY <1>4, <1>5, <1>6, <1>7, <1>8, <1>9, <1>10 DEF StorageStep

LEMMA CrashTyped ==
  ASSUME TInv, NEW h \in Host, Crash(h)
  PROVE  TInv'
<1> USE NoCallTyped, NothingTyped
<1> DEFINE dead == {i \in Client : host[i] = h}
<1>1. /\ inst' = [i \in Client |-> IF i \in dead THEN Nothing ELSE inst[i]]
      /\ call' = [i \in Client |-> IF i \in dead THEN NoCall ELSE call[i]]
  BY DEF Crash, StorageCrash
<1>2. flock' \in Client \cup {None} /\ UNCHANGED <<disk, host, edits, lives, deleted>>
  BY DEF Crash, StorageCrash, TInv, TypeOK
<1>3. crashes' \in Nat
  BY DEF Crash, TInv, TypeOK
<1> HIDE DEF dead
<1>4. TypeOK'
  BY <1>1, <1>2, <1>3 DEF TInv, TypeOK, Is
<1>5. Fits(Nothing, NoCall)
  BY DEF Fits
<1>6. \A i \in Client : Fits(inst'[i], call'[i])
  BY <1>1, <1>5 DEF TInv
<1> QED BY <1>4, <1>6 DEF TInv, Fits

-----------------------------------------------------------------------------
LEMMA NextTyped == TInv /\ [Next]_vars => TInv'
<1> SUFFICES ASSUME TInv, [Next]_vars PROVE TInv'
  OBVIOUS
<1>1. ASSUME NEW i \in Client, Progress(i) PROVE TInv'
  BY <1>1, StorageMovesTyped, SaveReadsTyped, SaveConflictsTyped, SaveCommittedTyped,
     SaveRefusedTyped, ImportCommittedTyped, ImportReturnsTyped, DeleteClearsTyped,
     DeleteReturnsTyped DEF Progress
<1>2. ASSUME NEW i \in Client, Request(i) PROVE TInv'
  BY <1>2, OpenTyped, LoadTyped, AbandonTyped, SaveMergingTyped, ImportTyped, DeleteTyped,
     EditTyped DEF Request
<1>3. ASSUME NEW h \in Host, Crash(h) PROVE TInv'
  BY <1>3, CrashTyped
<1>4. CASE UNCHANGED vars
  BY <1>4 DEF vars, storageVars, TInv, TypeOK, Fits, Is
<1> QED BY <1>1, <1>2, <1>3, <1>4 DEF Next

(* Type correctness: every instance, call and stored record keeps its shape,   *)
(* whatever fails, conflicts or dies; in particular what compareAndSet writes  *)
(* under the vault's key is always a record, never a pointer or nothing.       *)
THEOREM VaultTypeCorrect == Spec => []TypeOK
<1>1. Spec => []TInv
  BY InitTyped, NextTyped, PTL DEF Spec
<1>2. TInv => TypeOK
  BY DEF TInv
<1> QED BY <1>1, <1>2, PTL

-----------------------------------------------------------------------------
(* The file storage keeps the promise of the Storage interface, AtomicStorage *)

(* The calls as AtomicStorage sees them. *)
Abstract == [c \in Client |-> [req |-> call[c].req, answer |-> call[c].answer]]

Answering(x) ==
    /\ x.at = "idle" <=> x.answer = "idle"
    /\ x.at \in {"lock", "compare", "write"} <=> x.answer = "none"

(* The lock belongs to the client that is inside, and what it compared still *)
(* holds when it renames: nobody else can write.                             *)
Inside(c) ==
    /\ call[c].at \in {"compare", "write", "unlock"} => flock = c
    /\ call[c].at = "compare" => call[c].req.check
    /\ call[c].at = "write" /\ call[c].req.check => disk[call[c].req.key] = call[c].req.old

StorageInv == \A c \in Client : Answering(call[c]) /\ Inside(c)

(* What the vault code does to the storage: it starts a call, or drops one. *)
ClientTurn(i) ==
    /\ UNCHANGED <<disk, flock>>
    /\ \/ UNCHANGED call
       \/ /\ call[i].at \in {"idle", "done"}
          /\ \E x \in Call : /\ call' = [call EXCEPT ![i] = x]
                             /\ \/ x.at = "lock" /\ x.answer = "none"
                                \/ x.at = "idle" /\ x.answer = "idle"

LEMMA StartedTurn ==
  ASSUME TInv, NEW i \in Client, call[i].at \in {"idle", "done"},
         NEW r \in Requests(VaultKey) \cup Requests(ActiveKey), Calls(i, r)
  PROVE  ClientTurn(i)
<1>1. Started(r) \in Call /\ Started(r).at = "lock" /\ Started(r).answer = "none"
  BY StartedTyped DEF Started
<1> QED BY <1>1 DEF Calls, ClientTurn

LEMMA DroppedTurn ==
  ASSUME NEW i \in Client, call[i].at = "done", Hangs(i)
  PROVE  ClientTurn(i)
<1>1. NoCall \in Call /\ NoCall.at = "idle" /\ NoCall.answer = "idle"
  BY NoCallTyped DEF NoCall
<1> QED BY <1>1 DEF Hangs, ClientTurn

LEMMA ProgressTurn ==
  ASSUME TInv, NEW i \in Client, Progress(i)
  PROVE  StorageStep(i) \/ ClientTurn(i)
<1> USE Facts
<1>1. CASE StorageMoves(i)
  BY <1>1 DEF StorageMoves
<1>2. CASE SaveReads(i)
  <2> DEFINE r == CompareAndSet(VaultKey, record, NextRecord(i, NextSave(i)))
  <2>1. NextSave(i) \in Save
    BY <1>2, HeadTyped DEF SaveReads, NextSave
  <2>2. NextRecord(i, NextSave(i)) \in Stored
    BY <1>2, <2>1, NextRecordTyped DEF SaveReads
  <2>3. r \in Requests(VaultKey)
    BY <2>2 DEF CompareAndSet, Requests, Value, Values
  <2>4. Calls(i, r) /\ call[i].at = "idle"
    BY <1>2 DEF SaveReads, At
  <2> HIDE DEF r
  <2> QED BY <2>3, <2>4, StartedTurn
<1>3. CASE SaveConflicts(i)
  BY <1>3 DEF SaveConflicts, ClientTurn, storageVars
<1>4. CASE SaveCommitted(i) \/ SaveRefused(i) \/ ImportReturns(i) \/ DeleteReturns(i)
  BY <1>4, DroppedTurn
     DEF SaveCommitted, SaveRefused, ImportReturns, DeleteReturns, Answered, At
<1>5. CASE ImportCommitted(i)
  <2>1. Set(ActiveKey, Id) \in Requests(ActiveKey)
    BY DEF Set, Requests, Values, Value, ActiveKey, VaultKey
  <2> QED BY <1>5, <2>1, StartedTurn DEF ImportCommitted, Answered, At
<1>6. CASE DeleteClears(i)
  <2>1. Remove(ActiveKey) \in Requests(ActiveKey)
    BY DEF Remove, Set, Requests, Values, Value, ActiveKey, VaultKey
  <2> QED BY <1>6, <2>1, StartedTurn DEF DeleteClears, Answered, At
<1> QED BY <1>1, <1>2, <1>3, <1>4, <1>5, <1>6 DEF Progress

LEMMA RequestTurn ==
  ASSUME TInv, NEW i \in Client, Request(i)
  PROVE  ClientTurn(i)
<1>1. CASE Delete(i)
  <2>1. Remove(VaultKey) \in Requests(VaultKey)
    BY DEF Remove, Set, Requests, Values, Value
  <2>2. call[i].at = "idle"
    BY <1>1, Facts DEF Delete, Is, Fits
  <2> QED BY <1>1, <2>1, <2>2, StartedTurn DEF Delete
<1>2. CASE ~ Delete(i)
  BY <1>2 DEF Request, Open, Load, Abandon, SaveMerging, Import, Edit, ClientTurn, storageVars
<1> QED BY <1>1, <1>2

-----------------------------------------------------------------------------
(* Each kind of step keeps the invariant and is a step of the promise. *)

LEMMA AbstractCall ==
  ASSUME TypeOK, NEW i \in Client, NEW x \in Call, call' = [call EXCEPT ![i] = x]
  PROVE  /\ Abstract' = [Abstract EXCEPT ![i] = [req |-> x.req, answer |-> x.answer]]
         /\ Abstract'[i] = [req |-> x.req, answer |-> x.answer]
         /\ \A j \in Client : call'[j] = IF j = i THEN x ELSE call[j]
  BY DEF Abstract, TypeOK

(* A step of client i disturbs no other client: nobody else is inside, or it *)
(* touches neither the lock nor the disk.                                    *)
LEMMA OthersKept ==
  ASSUME StorageInv, NEW i \in Client, Answering(call'[i]), Inside(i)',
         \A j \in Client \ {i} : call'[j] = call[j],
         flock \in {i, None} \/ UNCHANGED <<disk, flock>>
  PROVE  StorageInv'
<1> SUFFICES ASSUME NEW j \in Client PROVE Answering(call'[j]) /\ Inside(j)'
  BY DEF StorageInv
<1>1. CASE j = i
  BY <1>1
<1>2. CASE j # i /\ UNCHANGED <<disk, flock>>
  BY <1>2 DEF StorageInv, Inside
<1>3. CASE j # i /\ flock \in {i, None}
  <2>1. call'[j] = call[j] /\ Answering(call[j]) /\ Inside(j)
    BY <1>3 DEF StorageInv
  <2>2. call[j].at \notin {"compare", "write", "unlock"}
    BY <1>3, <2>1, VaultStoreAssumption DEF Inside
  <2> QED BY <2>1, <2>2 DEF Inside
<1> QED BY <1>1, <1>2, <1>3

LEMMA TurnPromised ==
  ASSUME TypeOK, StorageInv, NEW i \in Client, ClientTurn(i)
  PROVE  StorageInv' /\ [Promise!Next]_<<disk, Abstract>>
<1>1. CASE UNCHANGED call
  BY <1>1 DEF ClientTurn, StorageInv, Answering, Inside, Abstract
<1>2. CASE ~ UNCHANGED call
  <2>1. PICK x \in Call : /\ call' = [call EXCEPT ![i] = x]
                          /\ \/ x.at = "lock" /\ x.answer = "none"
                             \/ x.at = "idle" /\ x.answer = "idle"
    BY <1>2 DEF ClientTurn
  <2>2. call[i].at \in {"idle", "done"} /\ UNCHANGED <<disk, flock>>
    BY <1>2 DEF ClientTurn
  <2>3. call'[i] = x /\ \A j \in Client \ {i} : call'[j] = call[j]
    BY <2>1 DEF TypeOK
  <2>4. StorageInv'
    <3>1. Answering(call'[i]) /\ Inside(i)'
      BY <2>1, <2>3 DEF Answering, Inside
    <3> QED BY <2>2, <2>3, <3>1, OthersKept
  <2>5. Promise!Next
    <3>1. Abstract[i].answer = call[i].answer /\ call[i].answer # "none"
      BY <2>2 DEF Abstract, StorageInv, Answering
    <3>2. Abstract'[i].answer \in {"idle", "none"} /\ Abstract' = [Abstract EXCEPT ![i] = Abstract'[i]]
      <4> DEFINE y == [req |-> x.req, answer |-> x.answer]
      <4>1. Abstract' = [Abstract EXCEPT ![i] = y] /\ Abstract'[i] = y
        BY <2>1, AbstractCall
      <4>2. y.answer \in {"idle", "none"}
        BY <2>1
      <4> QED BY <4>1, <4>2
    <3>3. Promise!Invoke(i)
      BY <2>2, <3>1, <3>2 DEF Promise!Invoke, Promise!Pending, Abstract
    <3> QED BY <3>3 DEF Promise!Next
  <2> QED BY <2>4, <2>5
<1> QED BY <1>1, <1>2

(* A call that goes on is, to its caller, still pending. *)
LEMMA GoesOn ==
  ASSUME TypeOK, NEW i \in Client, NEW s, call' = [call EXCEPT ![i].at = s]
  PROVE  /\ call'[i].at = s /\ call'[i].req = call[i].req /\ call'[i].answer = call[i].answer
         /\ \A j \in Client \ {i} : call'[j] = call[j]
         /\ UNCHANGED Abstract
<1>1. call[i] \in Call /\ call \in [Client -> Call]
  BY DEF TypeOK
<1>2. call'[i].at = s /\ call'[i].req = call[i].req /\ call'[i].answer = call[i].answer
  BY <1>1 DEF Call
<1>3. \A j \in Client \ {i} : call'[j] = call[j]
  BY <1>1
<1> QED BY <1>2, <1>3 DEF Abstract

(* What the caller sees when its call is answered. *)
EndsWith(i, s, a) ==
    /\ call'[i].at = s /\ call'[i].req = call[i].req /\ call'[i].answer = a
    /\ \A j \in Client \ {i} : call'[j] = call[j]
    /\ Promise!Answer(i, a)

LEMMA AnsweredWith ==
  ASSUME TypeOK, NEW i \in Client, NEW s \in Stages, NEW a \in Answers,
         call' = [call EXCEPT ![i].at = s, ![i].answer = a]
  PROVE  EndsWith(i, s, a)
<1>1. call[i] \in Call /\ call \in [Client -> Call]
  BY DEF TypeOK
<1>2. call'[i].at = s /\ call'[i].req = call[i].req /\ \A j \in Client \ {i} : call'[j] = call[j]
  BY <1>1, Ends
<1>3. call'[i].answer = a
  BY <1>1 DEF Call
<1>4. Abstract[i] = [req |-> call[i].req, answer |-> call[i].answer]
  BY DEF Abstract
<1>5. Abstract' = [Abstract EXCEPT ![i] = [req |-> call[i].req, answer |-> a]]
  BY <1>2, <1>3 DEF Abstract
<1>6. [Abstract[i] EXCEPT !.answer = a] = [req |-> call[i].req, answer |-> a]
  BY <1>4
<1>7. [Abstract EXCEPT ![i].answer = a] = [Abstract EXCEPT ![i] = [Abstract[i] EXCEPT !.answer = a]]
  OBVIOUS
<1>8. Abstract' = [Abstract EXCEPT ![i].answer = a]
  BY <1>5, <1>6, <1>7
<1>9. Promise!Answer(i, a)
  BY <1>8 DEF Abstract, Promise!Answer
<1> QED BY <1>2, <1>3, <1>9 DEF EndsWith

LEMMA AnswerKeeps ==
  ASSUME StorageInv, NEW i \in Client, NEW s, NEW a, EndsWith(i, s, a),
         s = "done" \/ (s = "unlock" /\ flock' = i), a \in {"done", "differs", "failed"},
         flock \in {i, None} \/ UNCHANGED <<disk, flock>>
  PROVE  StorageInv'
<1>1. Answering(call'[i]) /\ Inside(i)'
  BY DEF EndsWith, Answering, Inside
<1>2. \A j \in Client \ {i} : call'[j] = call[j]
  BY DEF EndsWith
<1> QED BY <1>1, <1>2, OthersKept

-----------------------------------------------------------------------------
LEMMA StoragePromised ==
  ASSUME TypeOK, StorageInv, NEW i \in Client, StorageStep(i)
  PROVE  StorageInv' /\ [Promise!Next]_<<disk, Abstract>>
<1>0. /\ Answering(call[i]) /\ Inside(i) /\ None \notin Client
      /\ Abstract[i] = [req |-> call[i].req, answer |-> call[i].answer]
  BY VaultStoreAssumption DEF StorageInv, Abstract
<1>a. /\ {"done", "unlock"} \subseteq Stages /\ {"done", "differs", "failed"} \subseteq Answers
  BY DEF Stages, Answers
<1>1. CASE LockStorage(i)
  <2> DEFINE s == IF call[i].req.check THEN "compare" ELSE "write"
  <2>1. /\ call' = [call EXCEPT ![i].at = s] /\ call[i].at = "lock"
        /\ flock = None /\ flock' = i /\ UNCHANGED disk
    BY <1>1 DEF LockStorage, At
  <2>2. s \in {"compare", "write"} /\ (s = "compare" <=> call[i].req.check)
    OBVIOUS
  <2> HIDE DEF s
  <2>3. Answering(call'[i]) /\ Inside(i)'
    BY <1>0, <2>1, <2>2, GoesOn DEF Answering, Inside
  <2>4. StorageInv' /\ UNCHANGED <<disk, Abstract>>
    BY <2>1, <2>3, GoesOn, OthersKept
  <2> QED BY <2>4
<1>2. CASE LockTimesOut(i)
  <2>1. /\ call' = [call EXCEPT ![i].at = "done", ![i].answer = "failed"]
        /\ call[i].at = "lock" /\ UNCHANGED <<disk, flock>>
    BY <1>2 DEF LockTimesOut, At
  <2>2. EndsWith(i, "done", "failed")
    BY <1>a, <2>1, AnsweredWith
  <2>3. StorageInv'
    <3>1. Answering(call'[i]) /\ Inside(i)'
      BY <2>2 DEF EndsWith, Answering, Inside
    <3>2. \A j \in Client \ {i} : call'[j] = call[j]
      BY <2>2 DEF EndsWith
    <3> QED BY <2>1, <3>1, <3>2, OthersKept
  <2>4. Promise!Fails(i)
    BY <1>0, <2>1, <2>2 DEF EndsWith, Answering, Promise!Fails, Promise!Pending, Abstract
  <2> QED BY <2>3, <2>4 DEF Promise!Next
<1>3. CASE Compare(i)
  <2>1. call[i].at = "compare" /\ UNCHANGED <<disk, flock>> /\ flock = i /\ call[i].req.check
    BY <1>0, <1>3 DEF Compare, At, Inside
  <2>2. CASE disk[call[i].req.key] = call[i].req.old
    <3>1. call' = [call EXCEPT ![i].at = "write"]
      BY <1>3, <2>2 DEF Compare
    <3>2. Answering(call'[i]) /\ Inside(i)'
      BY <1>0, <2>1, <2>2, <3>1, GoesOn DEF Answering, Inside
    <3>3. StorageInv' /\ UNCHANGED <<disk, Abstract>>
      BY <2>1, <3>1, <3>2, GoesOn, OthersKept
    <3> QED BY <3>3
  <2>3. CASE disk[call[i].req.key] # call[i].req.old
    <3>1. call' = [call EXCEPT ![i].at = "unlock", ![i].answer = "differs"]
      BY <1>3, <2>3 DEF Compare
    <3>2. EndsWith(i, "unlock", "differs")
      BY <1>a, <3>1, AnsweredWith
    <3>3. StorageInv'
      BY <2>1, <3>2, AnswerKeeps
    <3>4. Promise!Differs(i)
      BY <1>0, <2>1, <2>3, <3>2
         DEF EndsWith, Answering, Promise!Differs, Promise!Pending, Abstract
    <3> QED BY <3>3, <3>4 DEF Promise!Next
  <2> QED BY <2>2, <2>3
<1>4. CASE Rename(i)
  <2>1. /\ call' = [call EXCEPT ![i].at = "unlock", ![i].answer = "done"]
        /\ call[i].at = "write" /\ UNCHANGED flock /\ flock = i
        /\ disk' = [disk EXCEPT ![call[i].req.key] = call[i].req.new]
    BY <1>0, <1>4 DEF Rename, At, Inside
  <2>2. EndsWith(i, "unlock", "done")
    BY <1>a, <2>1, AnsweredWith
  <2>3. StorageInv'
    BY <2>1, <2>2, AnswerKeeps
  <2>4. call[i].req.check => disk[call[i].req.key] = call[i].req.old
    BY <1>0, <2>1 DEF Inside
  <2>5. Promise!TakesEffect(i)
    BY <1>0, <2>1, <2>2, <2>4
       DEF EndsWith, Answering, Promise!TakesEffect, Promise!Pending, Abstract
  <2> QED BY <2>3, <2>5 DEF Promise!Next
<1>5. CASE WriteFails(i)
  <2>1. /\ call' = [call EXCEPT ![i].at = "unlock", ![i].answer = "failed"]
        /\ call[i].at = "write" /\ UNCHANGED <<disk, flock>> /\ flock = i
    BY <1>0, <1>5 DEF WriteFails, At, Inside
  <2>2. EndsWith(i, "unlock", "failed")
    BY <1>a, <2>1, AnsweredWith
  <2>3. StorageInv'
    BY <2>1, <2>2, AnswerKeeps
  <2>4. Promise!Fails(i)
    BY <1>0, <2>1, <2>2 DEF EndsWith, Answering, Promise!Fails, Promise!Pending, Abstract
  <2> QED BY <2>3, <2>4 DEF Promise!Next
<1>6. CASE UnlockStorage(i)
  <2>1. /\ call' = [call EXCEPT ![i].at = "done"] /\ call[i].at = "unlock"
        /\ flock = i /\ UNCHANGED disk
    BY <1>0, <1>6 DEF UnlockStorage, At, Inside
  <2>2. call'[i].at = "done" /\ call'[i].answer = call[i].answer
    BY <2>1, GoesOn
  <2>3. Answering(call'[i]) /\ Inside(i)'
    BY <1>0, <2>1, <2>2 DEF Answering, Inside
  <2>4. StorageInv' /\ UNCHANGED <<disk, Abstract>>
    BY <2>1, <2>3, GoesOn, OthersKept
  <2> QED BY <2>4
<1> QED BY <1>1, <1>2, <1>3, <1>4, <1>5, <1>6 DEF StorageStep

LEMMA CrashPromised ==
  ASSUME TypeOK, StorageInv, NEW h \in Host, Crash(h),
         NEW dead \in SUBSET Client, dead = {i \in Client : host[i] = h}
  PROVE  StorageInv' /\ [Promise!Next]_<<disk, Abstract>>
<1>1. /\ flock' = IF flock \in dead THEN None ELSE flock
      /\ \A i \in Client : call'[i] = IF i \in dead THEN NoCall ELSE call[i]
      /\ UNCHANGED disk
  BY DEF Crash, StorageCrash
<1>2. NoCall.at = "idle" /\ NoCall.answer = "idle"
  BY DEF NoCall
<1>3. StorageInv'
  <2> SUFFICES ASSUME NEW j \in Client PROVE Answering(call'[j]) /\ Inside(j)'
    BY DEF StorageInv
  <2>1. CASE j \in dead
    BY <1>1, <1>2, <2>1 DEF Answering, Inside
  <2>2. CASE j \notin dead
    BY <1>1, <2>2 DEF StorageInv, Answering, Inside
  <2> QED BY <2>1, <2>2
<1>4. \A c \in dead : Abstract'[c].answer = "idle"
  BY <1>1, <1>2 DEF Abstract
<1>5. Abstract' = [c \in Client |-> IF c \in dead THEN Abstract'[c] ELSE Abstract[c]]
  BY <1>1 DEF Abstract
<1>6. Promise!Forget(dead)
  BY <1>1, <1>4, <1>5 DEF Promise!Forget, Abstract
<1> QED BY <1>1, <1>3, <1>6 DEF Promise!Next

-----------------------------------------------------------------------------
LEMMA NextPromised ==
  ASSUME TInv, StorageInv, [Next]_vars
  PROVE  StorageInv' /\ [Promise!Next]_<<disk, Abstract>>
<1>0. TypeOK
  BY DEF TInv
<1>1. ASSUME NEW i \in Client, Progress(i) PROVE StorageInv' /\ [Promise!Next]_<<disk, Abstract>>
  BY <1>0, <1>1, ProgressTurn, TurnPromised, StoragePromised
<1>2. ASSUME NEW i \in Client, Request(i) PROVE StorageInv' /\ [Promise!Next]_<<disk, Abstract>>
  BY <1>0, <1>2, RequestTurn, TurnPromised
<1>3. ASSUME NEW h \in Host, Crash(h) PROVE StorageInv' /\ [Promise!Next]_<<disk, Abstract>>
  <2>1. PICK dead \in SUBSET Client : dead = {i \in Client : host[i] = h}
    OBVIOUS
  <2> QED BY <1>0, <1>3, <2>1, CrashPromised
<1>4. CASE UNCHANGED vars
  BY <1>4 DEF vars, storageVars, StorageInv, Answering, Inside, Abstract
<1> QED BY <1>1, <1>2, <1>3, <1>4 DEF Next

(* The storage is atomic to its callers: whatever fails, conflicts or dies,  *)
(* every set, remove and compareAndSet takes effect at one instant, between  *)
(* its call and its answer and only over the value it names, or not at all.  *)
THEOREM StorageRefinesPromise == Spec => StorageAtomic
<1>1. Init => StorageInv
  BY DEF Init, StorageInv, Answering, Inside, NoCall
<1>2. Init => Promise!Init
  BY DEF Init, Promise!Init, NoCall
<1>3. Spec => []TInv
  BY InitTyped, NextTyped, PTL DEF Spec
<1>4. TInv /\ StorageInv /\ [Next]_vars => StorageInv' /\ [Promise!Next]_<<disk, Abstract>>
  BY NextPromised
<1>5. Abstract = [c \in Client |-> [req |-> call[c].req, answer |-> call[c].answer]]
  BY DEF Abstract
<1> QED BY <1>1, <1>2, <1>3, <1>4, PTL DEF Spec, StorageAtomic, Promise!Spec, Abstract
=============================================================================
