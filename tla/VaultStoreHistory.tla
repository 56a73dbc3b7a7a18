------------------------- MODULE VaultStoreHistory -------------------------
(***************************************************************************)
(* What an atomic storage is worth to the vaults, for any number of        *)
(* instances, processes, faults and crashes: revisions identify contents,  *)
(* a save changes only what its caller edited, and imports and deletions   *)
(* leave neither a pointer to nothing nor a vault that comes back.         *)
(***************************************************************************)
EXTENDS VaultStoreProofs

(* The save of i is under way in the storage and has, or has not, replaced *)
(* the record; in the second case it may be about to create one.           *)
Pending(v, x) == v.doing \in {"saving", "importing"} /\ x.at # "idle"
Wrote(v, x) == Pending(v, x) /\ x.at \in {"unlock", "done"} /\ x.answer = "done"
Creates(v, x) == Pending(v, x) /\ ~ Wrote(v, x) /\ x.req.old = None

(* Every save puts the next revision of the record it read in its place; *)
(* only an import may find none.                                         *)
Continues(v, x) ==
    /\ v.doing \in {"open", "saving", "pointing"} => v.base # None
    /\ v.doing = "importing" /\ v.base # None => v.base \in Stored
    /\ Pending(v, x) =>
          /\ x.req.check /\ x.req.key = VaultKey
          /\ x.req.old # None => /\ x.req.new.rev = x.req.old.rev + 1
                                 /\ x.req.new.life = x.req.old.life
          /\ v.doing = "saving" => x.req.old # None
    /\ v.doing \in {"pointing", "clearing"} => x.req.key = ActiveKey
    /\ v.doing = "deleting" => x.req = Remove(VaultKey)

(* What instance i holds of the history of the record. *)
SeenBy(v, x) == {v.base} \cup IF Wrote(v, x) THEN {x.req.new} ELSE {}
Seen == {record} \cup UNION {SeenBy(inst[i], call[i]) : i \in Client}

Creating(i) == Creates(inst[i], call[i])
Birth(i) == call[i].req.new.life

OneContent == \A r, s \in Seen : SameVersion(r, s) => r = s
Lived == \A r \in Seen \ {None} : r.life <= lives
Latest == record # None => \A r \in Seen \ {None} : r.life = record.life => r.rev <= record.rev
Unborn == \A i \in Client : Creating(i) =>
             /\ Birth(i) <= lives
             /\ \A r \in Seen \ {None} : r.life # Birth(i)
             /\ \A j \in Client \ {i} : Creating(j) => Birth(i) # Birth(j)

HistoryInv ==
    /\ \A i \in Client : Continues(inst[i], call[i])
    /\ OneContent /\ Lived /\ Latest /\ Unborn

(* Outside its edits what is in s is the baseline. *)
Only(data, edited, base) == base # None => \A f \in Fields \ edited : data[f] = base.data[f]

Unwritten(v, x) == Pending(v, x) /\ x.at \in {"lock", "compare", "write"} /\ x.req.old # None

Own(v, x) ==
    /\ Only(v.now, v.dirty, v.base)
    /\ \A n \in DOMAIN v.saves : v.saves[n].alone =>
          /\ n = 1
          /\ Only(v.saves[n].data, v.saves[n].edited, v.base)
          /\ Unwritten(v, x) /\ v.base # None /\ v.base.life = x.req.old.life =>
                Only(x.req.new.data, v.saves[n].edited, x.req.old)

OwnInv == \A i \in Client : Own(inst[i], call[i])

(* While no vault was deleted the record comes before everything that names it. *)
Deletes(v) == v.doing \in {"deleting", "clearing"}
Names(v, x) == v.doing = "pointing" \/ Wrote(v, x)

NamedInv ==
    ~ deleted =>
       /\ \A i \in Client : ~ Deletes(inst[i])
       /\ record = None => /\ disk[ActiveKey] # Id
                           /\ \A i \in Client : ~ Names(inst[i], call[i])

StoreInv == HistoryInv /\ OwnInv /\ NamedInv

-----------------------------------------------------------------------------
(* What a step of instance i may add to what is known. *)
Keeps(i, v, x) ==
    /\ Continues(v, x) /\ Own(v, x)
    /\ SeenBy(v, x) \subseteq SeenBy(inst[i], call[i]) \cup {record, None}
    /\ Creates(v, x) => Creating(i) /\ x.req.new = call[i].req.new
    /\ Deletes(v) => Deletes(inst[i]) \/ deleted'
    /\ Names(v, x) => Names(inst[i], call[i])

(* The history stays one as long as no new record appears in it. *)
LEMMA NothingNew ==
  ASSUME HistoryInv, \A i \in Client : Continues(inst'[i], call'[i]),
         Seen' \subseteq Seen \cup {None}, record' \in {record, None}, lives' = lives,
         \A i \in Client : Creating(i)' => Creating(i) /\ Birth(i)' = Birth(i)
  PROVE  HistoryInv'
<1>1. OneContent'
  BY DEF HistoryInv, OneContent, SameVersion
<1>2. Lived'
  BY DEF HistoryInv, Lived
<1>3. Latest'
  BY DEF HistoryInv, Latest
<1>4. Unborn'
  <2> SUFFICES ASSUME NEW i \in Client, Creating(i)'
               PROVE  /\ Birth(i)' <= lives
                      /\ \A r \in Seen' \ {None} : r.life # Birth(i)'
                      /\ \A j \in Client \ {i} : Creating(j)' => Birth(i)' # Birth(j)'
    BY DEF Unborn
  <2> QED BY DEF HistoryInv, Unborn
<1> QED BY <1>1, <1>2, <1>3, <1>4 DEF HistoryInv

LEMMA SeenOf ==
  ASSUME NEW i \in Client
  PROVE  SeenBy(inst[i], call[i]) \subseteq Seen /\ record \in Seen
  BY DEF Seen

LEMMA OneMoves ==
  ASSUME StoreInv, NEW i \in Client, Keeps(i, inst'[i], call'[i]),
         \A j \in Client \ {i} : inst'[j] = inst[j] /\ call'[j] = call[j],
         record' \in {record, None}, lives' = lives
  PROVE  HistoryInv' /\ OwnInv'
<1>1. \A j \in Client : Continues(inst'[j], call'[j]) /\ Own(inst'[j], call'[j])
  BY DEF Keeps, StoreInv, HistoryInv, OwnInv
<1>2. \A j \in Client : SeenBy(inst'[j], call'[j]) \subseteq Seen \cup {None}
  <2> TAKE j \in Client
  <2> QED BY SeenOf DEF Keeps
<1>3. Seen' \subseteq Seen \cup {None}
  BY <1>2 DEF Seen
<1>4. \A j \in Client : Creating(j)' => Creating(j) /\ Birth(j)' = Birth(j)
  <2> TAKE j \in Client
  <2>1. CASE j = i
    BY <2>1 DEF Keeps, Creating, Birth
  <2>2. CASE j # i
    BY <2>2 DEF Creating, Birth
  <2> QED BY <2>1, <2>2
<1>5. HistoryInv'
  BY <1>1, <1>3, <1>4, NothingNew DEF StoreInv
<1> QED BY <1>1, <1>5 DEF OwnInv

LEMMA NamesKept ==
  ASSUME NamedInv, NEW i \in Client, Keeps(i, inst'[i], call'[i]),
         \A j \in Client \ {i} : inst'[j] = inst[j] /\ call'[j] = call[j],
         deleted => deleted', UNCHANGED disk
  PROVE  NamedInv'
<1> SUFFICES ASSUME ~ deleted'
             PROVE  /\ \A j \in Client : ~ Deletes(inst'[j])
                    /\ record' = None => /\ disk'[ActiveKey] # Id
                                         /\ \A j \in Client : ~ Names(inst'[j], call'[j])
  BY DEF NamedInv
<1>1. ~ deleted
  OBVIOUS
<1>2. \A j \in Client : ~ Deletes(inst'[j])
  BY <1>1 DEF NamedInv, Keeps
<1>3. record' = None => disk'[ActiveKey] # Id /\ \A j \in Client : ~ Names(inst'[j], call'[j])
  BY <1>1 DEF NamedInv, Keeps, record
<1> QED BY <1>2, <1>3

(* The step of instance i in the vault code. *)
LEMMA TurnKeeps ==
  ASSUME TInv, StoreInv, NEW i \in Client, NEW v, NEW x, Keeps(i, v, x),
         inst' = [inst EXCEPT ![i] = v], call' = [call EXCEPT ![i] = x],
         UNCHANGED <<disk, lives>>, deleted => deleted'
  PROVE  StoreInv'
<1>1. inst'[i] = v /\ call'[i] = x
      /\ \A j \in Client \ {i} : inst'[j] = inst[j] /\ call'[j] = call[j]
  BY DEF TInv, TypeOK
<1>2. record' = record
  BY DEF record
<1>3. Keeps(i, inst'[i], call'[i])
  BY <1>1
<1>4. HistoryInv' /\ OwnInv'
  BY <1>1, <1>2, <1>3, OneMoves
<1>5. NamedInv'
  BY <1>1, <1>3, NamesKept DEF StoreInv
<1> QED BY <1>4, <1>5 DEF StoreInv

-----------------------------------------------------------------------------
(* Instances *)

LEMMA QueuedParts ==
  ASSUME NEW v \in Instance, NEW m \in BOOLEAN
  PROVE  LET w == Queued(v, m) IN
         /\ w.doing = v.doing /\ w.now = v.now /\ w.base = v.base /\ w.dirty = v.dirty
         /\ w.saves = Append(v.saves, [data |-> v.now, merge |-> m, edited |-> v.dirty,
                                       alone |-> v.saves = <<>>])
  BY DEF Queued, Instance

LEMMA QueuedOwn ==
  ASSUME NEW v \in Instance, NEW x, NEW m \in BOOLEAN, Own(v, x),
         v.saves = <<>> => ~ Pending(v, x)
  PROVE  Own(Queued(v, m), x)
<1> DEFINE w == Queued(v, m)
           s == [data |-> v.now, merge |-> m, edited |-> v.dirty, alone |-> v.saves = <<>>]
<1>1. w.doing = v.doing /\ w.now = v.now /\ w.base = v.base /\ w.dirty = v.dirty
      /\ w.saves = Append(v.saves, s)
  BY QueuedParts
<1>2. v.saves \in Seq(Save) /\ s.data = v.now /\ s.edited = v.dirty /\ (s.alone <=> v.saves = <<>>)
  BY DEF Instance
<1> HIDE DEF w, s
<1>3. Pending(w, x) = Pending(v, x) /\ Unwritten(w, x) = Unwritten(v, x)
  BY <1>1 DEF Pending, Unwritten
<1>4. ASSUME NEW n \in DOMAIN w.saves, w.saves[n].alone
      PROVE  /\ n = 1
             /\ Only(w.saves[n].data, w.saves[n].edited, w.base)
             /\ Unwritten(w, x) /\ w.base # None /\ w.base.life = x.req.old.life =>
                   Only(x.req.new.data, w.saves[n].edited, x.req.old)
  <2>1. DOMAIN w.saves = 1 .. Len(v.saves) + 1 /\ Len(v.saves) \in Nat
        /\ DOMAIN v.saves = 1 .. Len(v.saves)
    BY <1>1, <1>2
  <2>2. CASE n = Len(v.saves) + 1
    <3>1. w.saves[n] = s
      BY <1>1, <1>2, <2>2
    <3>2. v.saves = <<>> /\ n = 1
      BY <1>2, <1>4, <2>2, <3>1
    <3>3. ~ Unwritten(w, x)
      BY <1>3, <3>2 DEF Unwritten
    <3> QED BY <1>1, <1>2, <3>1, <3>2, <3>3 DEF Own
  <2>3. CASE n # Len(v.saves) + 1
    <3>1. n \in DOMAIN v.saves /\ w.saves[n] = v.saves[n]
      BY <1>1, <1>2, <2>1, <2>3
    <3> QED BY <1>1, <1>3, <1>4, <3>1 DEF Own
  <2> QED BY <2>2, <2>3
<1> QED BY <1>1, <1>4 DEF Own, w

LEMMA EditedOwn ==
  ASSUME NEW v \in Instance, NEW x, NEW f \in Fields, Own(v, x)
  PROVE  /\ Own(Edited(v, f), x) /\ Edited(v, f).doing = v.doing
         /\ Edited(v, f).base = v.base /\ Edited(v, f).saves = v.saves
<1> DEFINE w == Edited(v, f)
<1>1. w.doing = v.doing /\ w.base = v.base /\ w.saves = v.saves /\ w.dirty = v.dirty \cup {f}
      /\ w.now = [v.now EXCEPT ![f] = edits + 1]
  BY DEF Edited, Instance
<1>2. v.now \in [Fields -> Edits]
  BY DEF Instance, Data
<1> HIDE DEF w
<1>3. Only(w.now, w.dirty, w.base)
  BY <1>1, <1>2 DEF Own, Only
<1>4. Pending(w, x) = Pending(v, x) /\ Unwritten(w, x) = Unwritten(v, x)
  BY <1>1 DEF Pending, Unwritten
<1> QED BY <1>1, <1>3, <1>4 DEF Own, w

LEMMA TailOwn ==
  ASSUME NEW v \in Instance, NEW w, NEW x, NEW y, Own(v, x), v.saves # <<>>,
         w.saves = Tail(v.saves), Only(w.now, w.dirty, w.base)
  PROVE  Own(w, y)
<1>1. v.saves \in Seq(Save)
  BY DEF Instance
<1>2. ASSUME NEW n \in DOMAIN w.saves, w.saves[n].alone PROVE FALSE
  <2>1. n \in Nat \ {0} /\ n + 1 \in DOMAIN v.saves /\ w.saves[n] = v.saves[n + 1]
    BY <1>1
  <2> QED BY <1>2, <2>1 DEF Own
<1> QED BY <1>2 DEF Own

LEMMA EmptyOwn ==
  ASSUME NEW v, NEW x, v.saves = <<>>, Only(v.now, v.dirty, v.base)
  PROVE  Own(v, x)
  BY DEF Own

LEMMA NothingOwn ==
  ASSUME NEW x
  PROVE Own(Nothing, x) /\ Nothing.base = None /\ Nothing.saves = <<>>
<1>1. Nothing.base = None /\ Nothing.saves = <<>>
  BY DEF Nothing
<1> QED BY <1>1, EmptyOwn DEF Only

LEMMA RestoredParts ==
  ASSUME NEW v \in Instance, NEW r \in Stored
  PROVE  LET w == Restored(v, r) IN
         w.base = r /\ w.doing = v.doing /\ w.saves = v.saves /\ Only(w.now, w.dirty, w.base)
  BY DEF Restored, Instance, Only

LEMMA DoingParts ==
  ASSUME NEW v \in Instance, NEW d
  PROVE  LET w == [v EXCEPT !.doing = d] IN
         /\ w.doing = d /\ w.now = v.now /\ w.base = v.base /\ w.dirty = v.dirty
         /\ w.saves = v.saves
  BY DEF Instance

(* An instance that waits for nothing. *)
LEMMA QuietKeeps ==
  ASSUME NEW i \in Client, NEW v, NEW x, x.at = "idle", Own(v, x),
         v.base \in SeenBy(inst[i], call[i]) \cup {record, None},
         v.doing \in {"open", "importing", "none"}, v.doing = "open" => v.base # None,
         v.doing = "importing" /\ v.base # None => v.base \in Stored
  PROVE  Keeps(i, v, x)
<1>1. ~ Pending(v, x) /\ ~ Wrote(v, x) /\ ~ Creates(v, x) /\ ~ Deletes(v) /\ ~ Names(v, x)
  BY DEF Pending, Wrote, Creates, Deletes, Names
<1> QED BY <1>1 DEF Keeps, Continues, SeenBy

-----------------------------------------------------------------------------
(* The actions, one lemma each *)

Known(i) == TInv /\ StoreInv /\ i \in Client

LEMMA KnownOf ==
  ASSUME NEW i, Known(i)
  PROVE  /\ Continues(inst[i], call[i]) /\ Own(inst[i], call[i])
         /\ inst[i].base \in SeenBy(inst[i], call[i])
         /\ inst[i] \in Instance /\ call[i] \in Call /\ Fits(inst[i], call[i])
         /\ record \in Stored \cup {None} /\ None \notin Stored
         /\ inst = [inst EXCEPT ![i] = inst[i]] /\ call = [call EXCEPT ![i] = call[i]]
         /\ TInv /\ StoreInv /\ i \in Client
  BY Facts DEF Known, StoreInv, HistoryInv, OwnInv, SeenBy

LEMMA OpenKeeps ==
  ASSUME NEW i, Known(i), Open(i)
  PROVE  StoreInv'
<1> USE KnownOf, NothingTyped
<1> DEFINE w == Restored(Nothing, record)
           v == [w EXCEPT !.doing = "open"]
<1>1. record \in Stored
  BY DEF Open
<1>2. w \in Instance /\ w.base = record /\ w.saves = <<>> /\ Only(w.now, w.dirty, w.base)
  BY <1>1, RestoredTyped, RestoredParts, NothingOwn
<1> HIDE DEF w
<1>3. v.doing = "open" /\ v.base = record /\ v.saves = <<>> /\ Only(v.now, v.dirty, v.base)
  BY <1>2, DoingParts
<1>4. inst' = [inst EXCEPT ![i] = v] /\ call' = [call EXCEPT ![i] = call[i]]
      /\ UNCHANGED <<disk, lives, deleted>>
  BY DEF Open, Becomes, storageVars, w
<1>5. call[i].at = "idle"
  BY DEF Open, Is, Fits
<1> HIDE DEF v
<1>6. Keeps(i, v, call[i])
  BY <1>1, <1>3, <1>5, EmptyOwn, QuietKeeps
<1> QED BY <1>4, <1>6, TurnKeeps

LEMMA LoadKeeps ==
  ASSUME NEW i, Known(i), Load(i)
  PROVE  StoreInv'
<1> USE KnownOf
<1> DEFINE w == Restored(inst[i], record)
           q == [n \in DOMAIN w.saves |-> [w.saves[n] EXCEPT !.alone = FALSE]]
           v == [w EXCEPT !.saves = q]
<1>1. record \in Stored /\ inst[i].doing \in {"open", "saving"}
  BY DEF Load, Is
<1>2. w \in Instance /\ w.doing = inst[i].doing /\ w.base = record
      /\ Only(w.now, w.dirty, w.base)
  BY <1>1, RestoredTyped, RestoredParts
<1>3. w.saves \in Seq(Save)
  BY <1>2 DEF Instance
<1>4. \A n \in DOMAIN q : ~ q[n].alone
  <2> TAKE n \in DOMAIN q
  <2>1. w.saves[n] \in Save
    BY <1>3, ElementOfSeq
  <2> HIDE DEF w
  <2> QED BY <2>1 DEF Save
<1>5. inst' = [inst EXCEPT ![i] = v] /\ call' = [call EXCEPT ![i] = call[i]]
      /\ UNCHANGED <<disk, lives, deleted>>
  BY DEF Load, Becomes, storageVars
<1> HIDE DEF w, q
<1>6. v.doing = inst[i].doing /\ v.base = record /\ v.saves = q
      /\ Only(v.now, v.dirty, v.base)
  BY <1>2 DEF Instance
<1> HIDE DEF v
<1>7. Own(v, call[i])
  BY <1>4, <1>6 DEF Own
<1>8. Pending(v, call[i]) = Pending(inst[i], call[i]) /\ Wrote(v, call[i]) = Wrote(inst[i], call[i])
      /\ Creates(v, call[i]) = Creates(inst[i], call[i])
      /\ Deletes(v) = Deletes(inst[i]) /\ Names(v, call[i]) = Names(inst[i], call[i])
  BY <1>6 DEF Pending, Wrote, Creates, Deletes, Names
<1>9. Continues(v, call[i])
  BY <1>1, <1>6, <1>8 DEF Continues
<1>10. Keeps(i, v, call[i])
  BY <1>6, <1>7, <1>8, <1>9 DEF Keeps, SeenBy, Creating
<1> QED BY <1>5, <1>10, TurnKeeps

LEMMA AbandonKeeps ==
  ASSUME NEW i, Known(i), Abandon(i)
  PROVE  StoreInv'
<1> USE KnownOf, NothingTyped
<1>1. inst' = [inst EXCEPT ![i] = Nothing] /\ call' = [call EXCEPT ![i] = call[i]]
      /\ UNCHANGED <<disk, lives, deleted>>
  BY DEF Abandon, Becomes, storageVars
<1>2. call[i].at = "idle"
  BY DEF Abandon, Is, Fits
<1>3. Keeps(i, Nothing, call[i])
  BY <1>2, NothingOwn, QuietKeeps
<1> QED BY <1>1, <1>3, TurnKeeps

(* A save that is called leaves what is under way as it is. *)
LEMMA QueuedKeeps ==
  ASSUME NEW i, Known(i), NEW v \in Instance, NEW m \in BOOLEAN,
         v.doing = inst[i].doing, v.base = inst[i].base, v.saves = inst[i].saves,
         Own(v, call[i])
  PROVE  Keeps(i, Queued(v, m), call[i])
<1> USE KnownOf
<1> DEFINE w == Queued(v, m)
<1>1. w.doing = inst[i].doing /\ w.base = inst[i].base
  BY QueuedParts
<1>2. v.saves = <<>> => ~ Pending(v, call[i])
  BY DEF Fits, Pending
<1>3. Own(w, call[i])
  BY <1>2, QueuedOwn
<1> HIDE DEF w
<1>4. Pending(w, call[i]) = Pending(inst[i], call[i]) /\ Wrote(w, call[i]) = Wrote(inst[i], call[i])
      /\ Creates(w, call[i]) = Creates(inst[i], call[i])
      /\ Deletes(w) = Deletes(inst[i]) /\ Names(w, call[i]) = Names(inst[i], call[i])
  BY <1>1 DEF Pending, Wrote, Creates, Deletes, Names
<1>5. Continues(w, call[i])
  BY <1>1, <1>4 DEF Continues
<1>6. SeenBy(w, call[i]) = SeenBy(inst[i], call[i])
  BY <1>1, <1>4 DEF SeenBy
<1>7. Keeps(i, w, call[i])
  BY <1>3, <1>4, <1>5, <1>6 DEF Keeps, Creating
<1> QED BY <1>7 DEF w

LEMMA EditKeeps ==
  ASSUME NEW i, Known(i), NEW f \in Fields, Edit(i, f)
  PROVE  StoreInv'
<1> USE KnownOf
<1> DEFINE v == Edited(inst[i], f)
<1>1. v \in Instance /\ v.doing = inst[i].doing /\ v.base = inst[i].base
      /\ v.saves = inst[i].saves /\ Own(v, call[i])
  <2>1. TypeOK /\ edits + crashes < MaxEvents
    BY DEF TInv, Edit
  <2>2. v \in Instance /\ v.doing = inst[i].doing
    BY <2>1, EditedTyped
  <2>3. inst[i] \in Instance /\ Own(inst[i], call[i])
    OBVIOUS
  <2>4. v.base = inst[i].base /\ v.saves = inst[i].saves /\ Own(v, call[i])
    BY <2>3, EditedOwn
  <2> QED BY <2>2, <2>4
<1>2. inst' = [inst EXCEPT ![i] = Queued(v, FALSE)] /\ call' = [call EXCEPT ![i] = call[i]]
      /\ UNCHANGED <<disk, lives, deleted>>
  BY DEF Edit, Becomes, storageVars
<1> HIDE DEF v
<1>3. Keeps(i, Queued(v, FALSE), call[i])
  BY <1>1, QueuedKeeps
<1> QED BY <1>2, <1>3, TurnKeeps

LEMMA SaveMergingKeeps ==
  ASSUME NEW i, Known(i), SaveMerging(i)
  PROVE  StoreInv'
<1> USE KnownOf
<1>1. inst' = [inst EXCEPT ![i] = Queued(inst[i], TRUE)] /\ call' = [call EXCEPT ![i] = call[i]]
      /\ UNCHANGED <<disk, lives, deleted>>
  BY DEF SaveMerging, Becomes, storageVars
<1>2. Keeps(i, Queued(inst[i], TRUE), call[i])
  BY QueuedKeeps
<1> QED BY <1>1, <1>2, TurnKeeps

LEMMA ImportKeeps ==
  ASSUME NEW i, Known(i), Import(i)
  PROVE  StoreInv'
<1> USE KnownOf, NothingTyped
<1> DEFINE w == [Nothing EXCEPT !.doing = "importing", !.base = record, !.dirty = Fields,
                                !.now = [f \in Fields |-> edits + 1]]
           v == Queued(w, FALSE)
<1>1. call[i].at = "idle"
  BY DEF Import, Is, Fits
<1>2. w \in Instance /\ w.doing = "importing" /\ w.base = record /\ w.dirty = Fields
      /\ w.saves = <<>>
  <2>1. edits + 1 \in Edits
    BY Facts, VaultStoreAssumption DEF Import, Edits
  <2>2. [f \in Fields |-> edits + 1] \in Data /\ "importing" \in Works
    BY <2>1 DEF Data, Works
  <2>3. Nothing.saves = <<>>
    BY NothingOwn
  <2> QED BY <2>2, <2>3 DEF Instance
<1>3. inst' = [inst EXCEPT ![i] = v] /\ call' = [call EXCEPT ![i] = call[i]]
      /\ UNCHANGED <<disk, lives, deleted>>
  BY DEF Import, Becomes, storageVars
<1> HIDE DEF w
<1>4. Own(w, call[i])
  BY <1>2, EmptyOwn DEF Only
<1>5. Own(v, call[i]) /\ v.doing = "importing" /\ v.base = record
  BY <1>1, <1>2, <1>4, QueuedOwn, QueuedParts DEF Pending
<1> HIDE DEF v
<1>6. Keeps(i, v, call[i])
  BY <1>1, <1>5, QuietKeeps
<1> QED BY <1>3, <1>6, TurnKeeps

LEMMA FailedOwn ==
  ASSUME NEW v \in Instance, NEW x, NEW y, Own(v, x), v.saves # <<>>, NEW w, w = Failed(v)
  PROVE  /\ Own(w, y)
         /\ \/ w = Nothing
            \/ v.doing # "importing" /\ w.doing = "open" /\ w.base = v.base
<1>1. CASE v.doing = "importing"
  BY <1>1, NothingOwn DEF Failed
<1>2. CASE v.doing # "importing"
  <2>1. w.doing = "open" /\ w.base = v.base /\ w.now = v.now /\ w.dirty = v.dirty
        /\ w.saves = Tail(v.saves)
    BY <1>2 DEF Failed, Instance
  <2>2. Own(w, y)
    <3>1. Only(w.now, w.dirty, w.base)
      BY <2>1 DEF Own
    <3> QED BY <2>1, <3>1, TailOwn
  <2> QED BY <1>2, <2>1, <2>2
<1> QED BY <1>1, <1>2

LEMMA SaveConflictsKeeps ==
  ASSUME NEW i, Known(i), SaveConflicts(i)
  PROVE  StoreInv'
<1> USE KnownOf
<1> DEFINE v == Failed(inst[i])
<1>1. inst' = [inst EXCEPT ![i] = v] /\ call' = [call EXCEPT ![i] = call[i]]
      /\ UNCHANGED <<disk, lives, deleted>>
  BY DEF SaveConflicts, Becomes, storageVars
<1>2. call[i].at = "idle" /\ inst[i].saves # <<>> /\ inst[i].doing \in {"open", "importing"}
  BY DEF SaveConflicts, At, Is
<1>3. Own(v, call[i]) /\ (v = Nothing \/ (v.doing = "open" /\ v.base = inst[i].base /\ inst[i].doing = "open"))
  <2>1. inst[i] \in Instance /\ Own(inst[i], call[i]) /\ inst[i].saves # <<>>
    BY <1>2
  <2>2. Own(v, call[i]) /\ (v = Nothing \/ (inst[i].doing # "importing" /\ v.doing = "open" /\ v.base = inst[i].base))
    BY <2>1, FailedOwn
  <2> QED BY <1>2, <2>2
<1> HIDE DEF v
<1>4. Keeps(i, v, call[i])
  BY <1>2, <1>3, QuietKeeps, NothingOwn, NothingTyped DEF Continues
<1> QED BY <1>1, <1>4, TurnKeeps

LEMMA SaveRefusedKeeps ==
  ASSUME NEW i, Known(i), SaveRefused(i)
  PROVE  StoreInv'
<1> USE KnownOf
<1> DEFINE v == Failed(inst[i])
<1>1. inst' = [inst EXCEPT ![i] = v] /\ call' = [call EXCEPT ![i] = NoCall]
      /\ UNCHANGED <<disk, lives, deleted>>
  BY DEF SaveRefused, Becomes, Hangs
<1>2. inst[i].doing \in {"saving", "importing"} /\ inst[i].saves # <<>>
  BY DEF SaveRefused, Busy, Is, Fits
<1>3. Own(v, NoCall) /\ (v = Nothing \/ (v.doing = "open" /\ v.base = inst[i].base /\ inst[i].doing = "saving"))
  <2>1. inst[i] \in Instance /\ Own(inst[i], call[i]) /\ inst[i].saves # <<>>
    BY <1>2
  <2>2. Own(v, NoCall) /\ (v = Nothing \/ (inst[i].doing # "importing" /\ v.doing = "open" /\ v.base = inst[i].base))
    BY <2>1, FailedOwn
  <2> QED BY <1>2, <2>2
<1> HIDE DEF v
<1>4. Keeps(i, v, NoCall)
  BY <1>2, <1>3, QuietKeeps, NothingOwn, NothingTyped, NoCallTyped DEF Continues
<1> QED BY <1>1, <1>4, TurnKeeps

LEMMA CommittedOwn ==
  ASSUME NEW i, Known(i), Busy(i), Answered(i, "done"), NEW d, NEW y
  PROVE  LET v == [Committed(i) EXCEPT !.doing = d] IN
         /\ v.doing = d /\ v.base = call[i].req.new /\ v.base \in Stored
         /\ v.base \in SeenBy(inst[i], call[i])
         /\ Own(v, y)
<1> USE KnownOf
<1>1. inst[i].saves # <<>> /\ call[i].req.new \in Stored /\ Wrote(inst[i], call[i])
  BY DEF Busy, Is, Fits, Answered, At, Wrote, Pending
<1> DEFINE w == Restored(inst[i], call[i].req.new)
           c == Committed(i)
           v == [c EXCEPT !.doing = d]
<1>2. w \in Instance /\ w.saves = inst[i].saves /\ w.base = call[i].req.new
      /\ Only(w.now, w.dirty, w.base)
  BY <1>1, RestoredTyped, RestoredParts
<1>3. c = [w EXCEPT !.saves = Tail(w.saves)]
  BY <1>2 DEF Committed, Instance
<1> HIDE DEF w, c
<1>4. c.saves = Tail(inst[i].saves) /\ c.base = call[i].req.new /\ Only(c.now, c.dirty, c.base)
      /\ c \in Instance
  BY <1>1, <1>2, <1>3, TailTyped DEF Instance
<1>5. v.doing = d /\ v.saves = c.saves /\ v.base = c.base /\ v.now = c.now /\ v.dirty = c.dirty
  BY <1>4, DoingParts
<1> HIDE DEF v
<1>6. Own(v, y)
  BY <1>1, <1>4, <1>5, TailOwn
<1>7. v.base \in SeenBy(inst[i], call[i])
  BY <1>1, <1>4, <1>5 DEF SeenBy
<1> QED BY <1>1, <1>4, <1>5, <1>6, <1>7 DEF v, c

LEMMA SaveCommittedKeeps ==
  ASSUME NEW i, Known(i), SaveCommitted(i)
  PROVE  StoreInv'
<1> USE KnownOf
<1> DEFINE v == [Committed(i) EXCEPT !.doing = "open"]
<1>1. inst' = [inst EXCEPT ![i] = v] /\ call' = [call EXCEPT ![i] = NoCall]
      /\ UNCHANGED <<disk, lives, deleted>>
  BY DEF SaveCommitted, Becomes, Hangs
<1>2. Busy(i) /\ Answered(i, "done")
  BY DEF SaveCommitted, Busy
<1>3. v.doing = "open" /\ v.base \in Stored /\ v.base \in SeenBy(inst[i], call[i])
      /\ Own(v, NoCall)
  BY <1>2, CommittedOwn
<1> HIDE DEF v
<1>4. Keeps(i, v, NoCall)
  BY <1>3, QuietKeeps, NoCallTyped
<1> QED BY <1>1, <1>4, TurnKeeps

(* An instance that waits for the pointer or for a deletion. *)
LEMMA ManagerKeeps ==
  ASSUME NEW i \in Client, NEW v, NEW x, Own(v, x),
         v.base \in SeenBy(inst[i], call[i]) \cup {record, None},
         \/ v.doing = "pointing" /\ v.base # None /\ x.req.key = ActiveKey
            /\ Wrote(inst[i], call[i])
         \/ v.doing = "clearing" /\ x.req.key = ActiveKey
         \/ v.doing = "deleting" /\ x.req = Remove(VaultKey),
         Deletes(v) => Deletes(inst[i]) \/ deleted'
  PROVE  Keeps(i, v, x)
<1>1. ~ Pending(v, x) /\ ~ Wrote(v, x) /\ ~ Creates(v, x)
  BY DEF Pending, Wrote, Creates
<1>2. Names(v, x) => Names(inst[i], call[i])
  BY <1>1 DEF Names
<1> QED BY <1>1, <1>2 DEF Keeps, Continues, SeenBy

LEMMA ImportCommittedKeeps ==
  ASSUME NEW i, Known(i), ImportCommitted(i)
  PROVE  StoreInv'
<1> USE KnownOf
<1> DEFINE v == [Committed(i) EXCEPT !.doing = "pointing"]
           x == Started(Set(ActiveKey, Id))
<1>1. inst' = [inst EXCEPT ![i] = v] /\ call' = [call EXCEPT ![i] = x]
      /\ UNCHANGED <<disk, lives, deleted>>
  BY DEF ImportCommitted, Becomes, Calls
<1>2. Busy(i) /\ Answered(i, "done")
  BY DEF ImportCommitted, Busy
<1>3. v.doing = "pointing" /\ v.base \in Stored /\ v.base \in SeenBy(inst[i], call[i])
      /\ Own(v, x)
  BY <1>2, CommittedOwn
<1>4. x.req.key = ActiveKey /\ Wrote(inst[i], call[i]) /\ ~ Deletes(v)
  <2>1. x.req.key = ActiveKey
    BY DEF Started, Set
  <2>2. Wrote(inst[i], call[i])
    BY <1>2 DEF Busy, Is, Answered, At, Wrote, Pending
  <2> QED BY <1>3, <2>1, <2>2 DEF Deletes
<1> HIDE DEF v, x
<1>5. Keeps(i, v, x)
  BY <1>3, <1>4, ManagerKeeps
<1> QED BY <1>1, <1>5, TurnKeeps

LEMMA ImportReturnsKeeps ==
  ASSUME NEW i, Known(i), ImportReturns(i)
  PROVE  StoreInv'
<1> USE KnownOf
<1> DEFINE v == IF Answered(i, "done") THEN [inst[i] EXCEPT !.doing = "open"] ELSE Nothing
<1>1. inst' = [inst EXCEPT ![i] = v] /\ call' = [call EXCEPT ![i] = NoCall]
      /\ UNCHANGED <<disk, lives, deleted>>
  BY DEF ImportReturns, Becomes, Hangs
<1>2. inst[i].base # None
  BY DEF ImportReturns, Is, Continues
<1>3. CASE ~ Answered(i, "done")
  BY <1>1, <1>3, NothingOwn, NothingTyped, NoCallTyped, QuietKeeps, TurnKeeps
<1>4. CASE Answered(i, "done")
  <2>1. v.doing = "open" /\ v.base = inst[i].base /\ v.now = inst[i].now
        /\ v.dirty = inst[i].dirty /\ v.saves = inst[i].saves
    BY <1>4, DoingParts
  <2> HIDE DEF v
  <2>2. ~ Unwritten(v, NoCall)
    BY NoCallTyped DEF Unwritten
  <2>3. Own(v, NoCall)
    BY <2>1, <2>2 DEF Own
  <2>4. Keeps(i, v, NoCall)
    BY <1>2, <2>1, <2>3, NoCallTyped, QuietKeeps
  <2> QED BY <1>1, <2>4, TurnKeeps
<1> QED BY <1>3, <1>4

(* A deletion goes on with the removal of a key. *)
LEMMA RemovalKeeps ==
  ASSUME NEW i, Known(i), NEW d, NEW r,
         \/ d = "deleting" /\ r = Remove(VaultKey)
         \/ d = "clearing" /\ r = Remove(ActiveKey),
         Becomes(i, [Nothing EXCEPT !.doing = d]), Calls(i, r), UNCHANGED lives,
         deleted => deleted', Deletes(inst[i]) \/ deleted'
  PROVE  StoreInv'
<1> USE KnownOf
<1> DEFINE v == [Nothing EXCEPT !.doing = d]
           x == Started(r)
<1>1. inst' = [inst EXCEPT ![i] = v] /\ call' = [call EXCEPT ![i] = x]
      /\ UNCHANGED <<disk, lives>>
  BY DEF Becomes, Calls
<1>2. v.doing = d /\ v.base = None /\ v.saves = <<>>
  BY NothingTyped, NothingOwn, DoingParts
<1>3. x.req = r /\ Remove(ActiveKey).key = ActiveKey
  BY DEF Started, Remove, Set
<1> HIDE DEF v, x
<1>4. Keeps(i, v, x)
  BY <1>2, <1>3, EmptyOwn, ManagerKeeps DEF Only
<1> QED BY <1>1, <1>4, TurnKeeps

LEMMA DeletionKeeps ==
  ASSUME NEW i, Known(i), Delete(i) \/ DeleteClears(i)
  PROVE  StoreInv'
<1>1. CASE Delete(i)
  BY <1>1, RemovalKeeps DEF Delete
<1>2. CASE DeleteClears(i)
  <2>1. Deletes(inst[i])
    BY <1>2 DEF DeleteClears, Is, Deletes
  <2> QED BY <1>2, <2>1, RemovalKeeps DEF DeleteClears
<1> QED BY <1>1, <1>2

LEMMA DeleteReturnsKeeps ==
  ASSUME NEW i, Known(i), DeleteReturns(i)
  PROVE  StoreInv'
<1> USE KnownOf
<1>1. inst' = [inst EXCEPT ![i] = Nothing] /\ call' = [call EXCEPT ![i] = NoCall]
      /\ UNCHANGED <<disk, lives, deleted>>
  BY DEF DeleteReturns, Becomes, Hangs
<1>2. Keeps(i, Nothing, NoCall)
  BY NothingOwn, NothingTyped, NoCallTyped, QuietKeeps
<1> QED BY <1>1, <1>2, TurnKeeps

-----------------------------------------------------------------------------
(* A save hands its record to the storage. *)

LEMMA SeenTyped ==
  ASSUME TInv
  PROVE  Seen \ {None} \subseteq Stored
<1>1. \A i \in Client : SeenBy(inst[i], call[i]) \ {None} \subseteq Stored
  <2> TAKE i \in Client
  <2>1. inst[i] \in Instance /\ Fits(inst[i], call[i])
    BY Facts
  <2>2. inst[i].base \in Stored \cup {None}
    BY <2>1 DEF Instance
  <2>3. Wrote(inst[i], call[i]) => call[i].req.new \in Stored
    BY <2>1 DEF Wrote, Pending, Fits
  <2> QED BY <2>2, <2>3 DEF SeenBy
<1>2. record \in Stored \cup {None}
  BY VaultStoreAssumption DEF TInv, TypeOK, record, Values, VaultKey, ActiveKey
<1> QED BY <1>1, <1>2 DEF Seen

LEMMA ReadsOwn ==
  ASSUME NEW i, Known(i), NEW s \in Save, Revises(i) \/ Merges(i, s),
         inst[i].base # None, record # None, inst[i].base.life = record.life,
         Only(s.data, s.edited, inst[i].base)
  PROVE  Only(NextRecord(i, s).data, s.edited, record)
<1> USE KnownOf
<1>1. NextRecord(i, s).data = NextData(i, s)
  BY DEF NextRecord
<1>2. CASE Revises(i)
  <2>1. inst[i].base \in Seen /\ record \in Seen
    BY SeenOf
  <2>2. inst[i].base.rev = record.rev
    BY <1>2 DEF Revises, Revision
  <2>3. inst[i].base = record
    BY <2>1, <2>2 DEF StoreInv, HistoryInv, OneContent, SameVersion
  <2>4. NextData(i, s) = s.data
    BY <1>2 DEF NextData
  <2> QED BY <1>1, <2>3, <2>4
<1>3. CASE ~ Revises(i)
  <2>1. NextData(i, s) = Merged(inst[i].base.data, s.data, record.data)
    BY <1>3 DEF NextData
  <2>2. \A f \in Fields \ s.edited : s.data[f] = inst[i].base.data[f]
    BY DEF Only
  <2>3. \A f \in Fields \ s.edited : NextData(i, s)[f] = record.data[f]
    BY <2>1, <2>2 DEF Merged
  <2> QED BY <1>1, <2>3 DEF Only
<1> QED BY <1>2, <1>3

LEMMA ReadsKeeps ==
  ASSUME NEW i, Known(i), SaveReads(i), NEW s, s = NextSave(i), NEW new, new = NextRecord(i, s),
         NEW v, v = [inst[i] EXCEPT !.doing = IF inst[i].doing = "open" THEN "saving" ELSE inst[i].doing],
         NEW x, x = Started(CompareAndSet(VaultKey, record, new))
  PROVE  /\ Continues(v, x) /\ Own(v, x) /\ Pending(v, x)
         /\ SeenBy(v, x) \subseteq SeenBy(inst[i], call[i])
         /\ ~ Deletes(v) /\ ~ Names(v, x)
         /\ x.req.old = record /\ x.req.new = new /\ x.at = "lock"
         /\ new.life = IF record = None THEN lives + 1 ELSE record.life
<1> USE KnownOf
<1>0. Revises(i) \/ Merges(i, s)
  BY DEF SaveReads
<1>1. /\ x.req.check /\ x.req.key = VaultKey /\ x.req.old = record /\ x.req.new = new
      /\ x.at = "lock"
  BY DEF Started, CompareAndSet
<1>2. /\ v.doing = IF inst[i].doing = "open" THEN "saving" ELSE "importing"
      /\ v.now = inst[i].now /\ v.base = inst[i].base /\ v.dirty = inst[i].dirty
      /\ v.saves = inst[i].saves
  BY DoingParts DEF SaveReads, Is
<1>3. Pending(v, x) /\ ~ Wrote(v, x) /\ ~ Deletes(v) /\ ~ Names(v, x)
  BY <1>1, <1>2 DEF Pending, Wrote, Deletes, Names
<1>4. new.life = IF record = None THEN lives + 1 ELSE record.life
  BY DEF NextRecord
<1>5. Continues(v, x)
  <2>1. record # None => new.rev = record.rev + 1 /\ new.life = record.life
    BY DEF NextRecord, NextRevision
  <2>2. ASSUME inst[i].base # None PROVE record # None
    <3>1. inst[i].base \in Stored
      BY <2>2 DEF Instance
    <3>2. inst[i].base.rev \in Nat
      BY <3>1 DEF Stored
    <3> QED BY <1>0, <2>2, <3>2, VaultStoreAssumption DEF Revises, Revision, Merges
  <2>3. inst[i].doing = "open" => inst[i].base # None
    BY DEF Continues
  <2>4. inst[i].base # None => inst[i].base \in Stored
    BY DEF Instance
  <2> QED BY <1>1, <1>2, <2>1, <2>2, <2>3, <2>4 DEF Continues
<1>6. Own(v, x)
  <2>1. inst[i].saves # <<>> /\ inst[i].saves \in Seq(Save)
    BY DEF SaveReads, Instance
  <2>2. s = inst[i].saves[1] /\ s \in Save
    BY <2>1, HeadTyped DEF NextSave
  <2>3. ASSUME NEW n \in DOMAIN v.saves, v.saves[n].alone
        PROVE  /\ n = 1
               /\ Only(v.saves[n].data, v.saves[n].edited, v.base)
               /\ Unwritten(v, x) /\ v.base # None /\ v.base.life = x.req.old.life =>
                     Only(x.req.new.data, v.saves[n].edited, x.req.old)
    <3>1. n = 1 /\ Only(s.data, s.edited, v.base)
      BY <1>2, <2>2, <2>3 DEF Own
    <3>2. ASSUME Unwritten(v, x), v.base # None, v.base.life = x.req.old.life
          PROVE  Only(new.data, s.edited, record)
      <4>1. record # None
        BY <1>1, <3>2 DEF Unwritten
      <4>2. inst[i].base # None /\ inst[i].base.life = record.life
        BY <1>1, <1>2, <3>2
      <4>3. Only(s.data, s.edited, inst[i].base)
        BY <1>2, <3>1
      <4> QED BY <1>0, <2>2, <4>1, <4>2, <4>3, ReadsOwn
    <3> QED BY <1>1, <1>2, <2>2, <3>1, <3>2
  <2>4. Only(v.now, v.dirty, v.base)
    BY <1>2 DEF Own
  <2> QED BY <2>3, <2>4 DEF Own
<1>7. SeenBy(v, x) \subseteq SeenBy(inst[i], call[i])
  BY <1>2, <1>3 DEF SeenBy
<1> QED BY <1>1, <1>3, <1>4, <1>5, <1>6, <1>7

LEMMA SaveReadsKeeps ==
  ASSUME NEW i, Known(i), SaveReads(i)
  PROVE  StoreInv'
<1> USE KnownOf
<1> DEFINE s == NextSave(i)
           new == NextRecord(i, s)
           v == [inst[i] EXCEPT !.doing = IF inst[i].doing = "open" THEN "saving" ELSE inst[i].doing]
           x == Started(CompareAndSet(VaultKey, record, new))
<1>1. inst' = [inst EXCEPT ![i] = v] /\ call' = [call EXCEPT ![i] = x]
      /\ lives' = (IF record = None THEN lives + 1 ELSE lives)
      /\ UNCHANGED <<disk, deleted>>
  <2>1. inst' = [inst EXCEPT ![i] = v]
    BY DEF SaveReads, Becomes
  <2>2. call' = [call EXCEPT ![i] = x] /\ UNCHANGED disk
    BY DEF SaveReads, Calls
  <2> HIDE DEF v, x
  <2>3. lives' = (IF record = None THEN lives + 1 ELSE lives) /\ UNCHANGED deleted
    BY DEF SaveReads
  <2> QED BY <2>1, <2>2, <2>3
<1>2. /\ Continues(v, x) /\ Own(v, x) /\ Pending(v, x)
      /\ SeenBy(v, x) \subseteq SeenBy(inst[i], call[i])
      /\ ~ Deletes(v) /\ ~ Names(v, x)
      /\ x.req.old = record /\ x.req.new = new /\ x.at = "lock"
      /\ new.life = IF record = None THEN lives + 1 ELSE record.life
  BY ReadsKeeps
<1> HIDE DEF s, new, v, x
<1>3. CASE record # None
  <2>1. ~ Creates(v, x)
    BY <1>2, <1>3 DEF Creates
  <2>2. Keeps(i, v, x)
    BY <1>2, <2>1 DEF Keeps
  <2>3. UNCHANGED <<disk, lives>> /\ (deleted => deleted')
    BY <1>1, <1>3
  <2>4. TInv /\ StoreInv /\ i \in Client
    OBVIOUS
  <2> QED BY <1>1, <2>2, <2>3, <2>4, TurnKeeps
<1>4. CASE record = None
  <2>1. /\ inst'[i] = v /\ call'[i] = x
        /\ \A j \in Client \ {i} : inst'[j] = inst[j] /\ call'[j] = call[j]
        /\ record' = record /\ lives' = lives + 1 /\ lives \in Nat
    <3>1. inst'[i] = v /\ call'[i] = x /\ lives \in Nat
          /\ \A j \in Client \ {i} : inst'[j] = inst[j] /\ call'[j] = call[j]
      BY <1>1 DEF TInv, TypeOK
    <3>2. record' = record /\ lives' = lives + 1
      BY <1>1, <1>4 DEF record
    <3> QED BY <3>1, <3>2
  <2>2. Seen' \subseteq Seen
    <3>1. \A j \in Client : SeenBy(inst'[j], call'[j]) \subseteq Seen
      <4> TAKE j \in Client
      <4> QED BY <1>2, <2>1, SeenOf
    <3> QED BY <2>1, <3>1, SeenOf DEF Seen
  <2>3. \A r \in Seen \ {None} : r.life \in Nat /\ r.life <= lives
    BY SeenTyped DEF Stored, StoreInv, HistoryInv, Lived
  <2>4. \A j \in Client : Continues(inst'[j], call'[j]) /\ Own(inst'[j], call'[j])
    BY <1>2, <2>1 DEF StoreInv, HistoryInv, OwnInv
  <2>5. OneContent' /\ Latest'
    BY <2>1, <2>2 DEF StoreInv, HistoryInv, OneContent, SameVersion, Latest
  <2>6. Lived'
    BY <2>1, <2>2, <2>3 DEF Lived
  <2>7. Birth(i)' = lives + 1
    BY <1>2, <1>4, <2>1 DEF Birth
  <2>8. \A j \in Client \ {i} : Creating(j)' => /\ Creating(j) /\ Birth(j)' = Birth(j)
                                               /\ Birth(j) \in Nat /\ Birth(j) <= lives
    <3> TAKE j \in Client \ {i}
    <3>1. Creating(j)' => Creating(j) /\ Birth(j)' = Birth(j)
      BY <2>1 DEF Creating, Birth
    <3>2. Creating(j) => Birth(j) \in Nat /\ Birth(j) <= lives
      <4>1. Fits(inst[j], call[j])
        BY Facts
      <4> QED BY <4>1 DEF Creating, Creates, Pending, Fits, Stored, Birth, StoreInv, HistoryInv, Unborn
    <3> QED BY <3>1, <3>2
  <2>9. Unborn'
    <3> SUFFICES ASSUME NEW j \in Client, Creating(j)'
                 PROVE  /\ Birth(j)' <= lives'
                        /\ \A r \in Seen' \ {None} : r.life # Birth(j)'
                        /\ \A k \in Client \ {j} : Creating(k)' => Birth(j)' # Birth(k)'
      BY DEF Unborn
    <3>1. CASE j = i
      BY <2>1, <2>2, <2>3, <2>7, <2>8, <3>1
    <3>2. CASE j # i
      <4>1. Creating(j) /\ Birth(j)' = Birth(j) /\ Birth(j) \in Nat /\ Birth(j) <= lives
        BY <2>8, <3>2
      <4>2. \A k \in Client \ {j} : Creating(k)' => Birth(j)' # Birth(k)'
        <5> TAKE k \in Client \ {j}
        <5>1. CASE k = i
          BY <2>1, <2>7, <4>1, <5>1
        <5>2. CASE k # i
          BY <2>8, <4>1, <5>2 DEF StoreInv, HistoryInv, Unborn
        <5> QED BY <5>1, <5>2
      <4>3. \A r \in Seen' \ {None} : r.life # Birth(j)'
        BY <2>2, <4>1 DEF StoreInv, HistoryInv, Unborn
      <4> QED BY <2>1, <4>1, <4>2, <4>3
    <3> QED BY <3>1, <3>2
  <2>10. NamedInv'
    <3>1. \A j \in Client : /\ Deletes(inst'[j]) => Deletes(inst[j])
                            /\ Names(inst'[j], call'[j]) => Names(inst[j], call[j])
      BY <1>2, <2>1
    <3>2. NamedInv /\ UNCHANGED <<disk, deleted, record>>
      BY <1>1, <2>1 DEF StoreInv
    <3> QED BY <3>1, <3>2 DEF NamedInv
  <2> QED BY <2>4, <2>5, <2>6, <2>9, <2>10 DEF StoreInv, HistoryInv, OwnInv
<1> QED BY <1>3, <1>4

-----------------------------------------------------------------------------
(* The storage *)

(* A call that goes on without a word to its caller. *)
LEMMA StageKeeps ==
  ASSUME NEW i, Known(i), NEW x, x.req = call[i].req, x.at # "idle", call[i].at # "idle",
         Wrote(inst[i], x) <=> Wrote(inst[i], call[i]),
         x.at \in {"lock", "compare", "write"} => call[i].at \in {"lock", "compare", "write"}
  PROVE  Keeps(i, inst[i], x)
<1> USE KnownOf
<1>1. Pending(inst[i], x) <=> Pending(inst[i], call[i])
  BY DEF Pending
<1>2. Creates(inst[i], x) => Creating(i)
  BY <1>1 DEF Creates, Creating
<1>3. Unwritten(inst[i], x) => Unwritten(inst[i], call[i])
  BY <1>1 DEF Unwritten
<1>4. Continues(inst[i], x)
  BY <1>1 DEF Continues
<1>5. Own(inst[i], x)
  BY <1>3 DEF Own
<1>6. SeenBy(inst[i], x) = SeenBy(inst[i], call[i])
  BY DEF SeenBy
<1>7. Names(inst[i], x) => Names(inst[i], call[i])
  BY DEF Names
<1> QED BY <1>2, <1>4, <1>5, <1>6, <1>7 DEF Keeps

(* The steps of the storage that do not write. *)
LEMMA CallGoesOn ==
  ASSUME NEW i, Known(i), UNCHANGED <<inst, disk, lives, deleted>>, call[i].at # "idle",
         call'[i].req = call[i].req, call'[i].at # "idle",
         \A j \in Client \ {i} : call'[j] = call[j],
         Wrote(inst[i], call'[i]) <=> Wrote(inst[i], call[i]),
         call'[i].at \in {"lock", "compare", "write"} => call[i].at \in {"lock", "compare", "write"}
  PROVE  StoreInv'
<1>1. Keeps(i, inst'[i], call'[i])
  BY StageKeeps
<1>2. StoreInv /\ i \in Client
  BY KnownOf
<1>3. record' = record
  BY DEF record
<1>4. HistoryInv' /\ OwnInv'
  BY <1>1, <1>2, <1>3, OneMoves
<1>5. NamedInv'
  BY <1>1, <1>2, NamesKept DEF StoreInv
<1> QED BY <1>4, <1>5 DEF StoreInv

LEMMA WaitsKeeps ==
  ASSUME NEW i, Known(i), LockStorage(i) \/ LockTimesOut(i) \/ Compare(i) \/ WriteFails(i)
                          \/ UnlockStorage(i),
         UNCHANGED <<inst, lives, deleted>>
  PROVE  StoreInv'
<1> USE KnownOf
<1>1. PICK s \in Stages, a \in {call[i].answer, "failed", "differs"} :
        /\ \/ call' = [call EXCEPT ![i].at = s] /\ a = call[i].answer
           \/ call' = [call EXCEPT ![i].at = s, ![i].answer = a]
        /\ s # "idle" /\ call[i].at # "idle"
        /\ s \in {"lock", "compare", "write"} => call[i].at \in {"lock", "compare", "write"}
        /\ \/ call[i].at \in {"lock", "compare", "write"} /\ (s \in {"compare", "write"} \/ a # "done")
           \/ call[i].at = "unlock" /\ s = "done" /\ a = call[i].answer
  <2>1. CASE LockStorage(i)
    <3> DEFINE s == IF call[i].req.check THEN "compare" ELSE "write"
    <3>1. call' = [call EXCEPT ![i].at = s] /\ call[i].at = "lock"
      BY <2>1 DEF LockStorage, At
    <3>2. s \in {"compare", "write"}
      OBVIOUS
    <3> QED BY <3>1, <3>2 DEF Stages
  <2>2. CASE LockTimesOut(i)
    BY <2>2 DEF LockTimesOut, At, Stages
  <2>3. CASE Compare(i)
    <3>1. CASE disk[call[i].req.key] = call[i].req.old
      BY <2>3, <3>1 DEF Compare, At, Stages
    <3>2. CASE disk[call[i].req.key] # call[i].req.old
      BY <2>3, <3>2 DEF Compare, At, Stages
    <3> QED BY <3>1, <3>2
  <2>4. CASE WriteFails(i)
    BY <2>4 DEF WriteFails, At, Stages
  <2>5. CASE UnlockStorage(i)
    BY <2>5 DEF UnlockStorage, At, Stages
  <2> QED BY <2>1, <2>2, <2>3, <2>4, <2>5
<1>2. call[i].answer \in Answers /\ a \in Answers /\ call \in [Client -> Call]
  BY DEF Call, Answers, TInv, TypeOK
<1>3. /\ call'[i].req = call[i].req /\ call'[i].at = s /\ call'[i].answer = a
      /\ \A j \in Client \ {i} : call'[j] = call[j]
  <2>1. CASE call' = [call EXCEPT ![i].at = s] /\ a = call[i].answer
    BY <1>2, <2>1 DEF Call
  <2>2. CASE call' = [call EXCEPT ![i].at = s, ![i].answer = a]
    <3>1. TypeOK /\ i \in Client
      BY DEF TInv
    <3>2. EndsWith(i, s, a)
      BY <1>2, <2>2, <3>1, AnsweredWith
    <3> QED BY <3>2 DEF EndsWith
  <2> QED BY <1>1, <2>1, <2>2
<1>4. Wrote(inst[i], call'[i]) <=> Wrote(inst[i], call[i])
  BY <1>1, <1>3 DEF Wrote, Pending
<1>5. UNCHANGED disk
  BY DEF LockStorage, LockTimesOut, Compare, WriteFails, UnlockStorage
<1> QED BY <1>1, <1>3, <1>4, <1>5, CallGoesOn

-----------------------------------------------------------------------------
(* The record that a save puts in the place of the one it read is new. *)
LEMMA NewRecord ==
  ASSUME TInv, HistoryInv, NEW i \in Client, Pending(inst[i], call[i]), call[i].at = "write",
         record = call[i].req.old, record' = call[i].req.new,
         Seen' \subseteq Seen \cup {call[i].req.new}, lives' = lives,
         \A j \in Client : Continues(inst'[j], call'[j]),
         \A j \in Client : Creating(j)' => j # i /\ Creating(j) /\ Birth(j)' = Birth(j)
  PROVE  HistoryInv'
<1> DEFINE new == call[i].req.new
<1>1. new \in Stored /\ record \in Stored \cup {None} /\ None \notin Stored
  BY Facts DEF Pending, Fits
<1>2. Seen \ {None} \subseteq Stored /\ record \in Seen
  BY SeenTyped, SeenOf
<1>3. record = None => Creating(i)
  BY DEF Creating, Creates, Wrote
<1>4. record # None => new.rev = record.rev + 1 /\ new.life = record.life
  BY DEF HistoryInv, Continues
<1> HIDE DEF new
<1>5. \A r \in Seen \ {None} : r.life = new.life => r.rev < new.rev
  <2> SUFFICES ASSUME NEW r \in Seen \ {None}, r.life = new.life PROVE r.rev < new.rev
    OBVIOUS
  <2>1. CASE record = None
    BY <1>3, <2>1 DEF HistoryInv, Unborn, Birth, new
  <2>2. CASE record # None
    <3>1. r.rev <= record.rev
      BY <1>4, <2>2 DEF HistoryInv, Latest
    <3>2. r.rev \in Nat /\ record.rev \in Nat
      BY <1>1, <1>2, <2>2 DEF Stored
    <3> QED BY <1>4, <2>2, <3>1, <3>2
  <2> QED BY <2>1, <2>2
<1>6. \A r \in Seen \ {None} : r.rev \in Nat /\ r.life \in Nat
  BY <1>2 DEF Stored
<1>7. new.rev \in Nat /\ new.life \in Nat
  BY <1>1 DEF Stored
<1>8. Seen' \subseteq Seen \cup {new} /\ record' = new
  BY DEF new
<1>9. OneContent'
  <2> SUFFICES ASSUME NEW r \in Seen \cup {new}, NEW t \in Seen \cup {new}, SameVersion(r, t)
               PROVE  r = t
    BY <1>8 DEF OneContent
  <2>1. r # None /\ t # None /\ r.rev = t.rev /\ r.life = t.life
    BY DEF SameVersion
  <2>2. CASE r \in Seen /\ t \in Seen
    BY <2>2 DEF HistoryInv, OneContent
  <2>3. CASE r = new \/ t = new
    BY <1>5, <1>6, <1>7, <2>1, <2>3
  <2> QED BY <2>2, <2>3
<1>10. new.life <= lives
  <2>1. CASE record = None
    BY <1>3, <2>1 DEF HistoryInv, Unborn, Birth, new
  <2>2. CASE record # None
    BY <1>2, <1>4, <2>2 DEF HistoryInv, Lived
  <2> QED BY <2>1, <2>2
<1>11. Lived'
  BY <1>8, <1>10 DEF HistoryInv, Lived
<1>12. Latest'
  BY <1>5, <1>6, <1>7, <1>8 DEF Latest
<1>13. Unborn'
  <2> SUFFICES ASSUME NEW j \in Client, Creating(j)'
               PROVE  /\ Birth(j)' <= lives
                      /\ \A r \in Seen' \ {None} : r.life # Birth(j)'
                      /\ \A k \in Client \ {j} : Creating(k)' => Birth(j)' # Birth(k)'
    BY DEF Unborn
  <2>1. j # i /\ Creating(j) /\ Birth(j)' = Birth(j)
    OBVIOUS
  <2>2. new.life # Birth(j)
    <3>1. CASE record = None
      BY <1>3, <2>1, <3>1 DEF HistoryInv, Unborn, Birth, new
    <3>2. CASE record # None
      BY <1>2, <1>4, <2>1, <3>2 DEF HistoryInv, Unborn
    <3> QED BY <3>1, <3>2
  <2> QED BY <1>8, <2>1, <2>2 DEF HistoryInv, Unborn
<1> QED BY <1>9, <1>11, <1>12, <1>13 DEF HistoryInv

(* What a step of the storage that writes leaves alone. *)
LEMMA RenameParts ==
  ASSUME NEW i, Known(i), StorageInv, Rename(i), UNCHANGED <<inst, lives, deleted>>
  PROVE  /\ call[i].at = "write" /\ inst[i].doing \notin {"none", "open"}
         /\ call'[i].at = "unlock" /\ call'[i].req = call[i].req /\ call'[i].answer = "done"
         /\ \A j \in Client \ {i} : call'[j] = call[j]
         /\ call[i].req.check => disk[call[i].req.key] = call[i].req.old
         /\ disk' = [disk EXCEPT ![call[i].req.key] = call[i].req.new]
         /\ disk \in [{VaultKey, ActiveKey} -> Value]
<1> USE KnownOf
<1>1. /\ call' = [call EXCEPT ![i].at = "unlock", ![i].answer = "done"]
      /\ disk' = [disk EXCEPT ![call[i].req.key] = call[i].req.new]
      /\ call[i].at = "write"
  BY DEF Rename, At
<1>2. EndsWith(i, "unlock", "done")
  <2>1. TypeOK /\ i \in Client
    BY DEF TInv
  <2> QED BY <1>1, <2>1, AnsweredWith DEF Stages, Answers
<1>3. call[i].req.check => disk[call[i].req.key] = call[i].req.old
  BY <1>1 DEF StorageInv, Inside
<1>4. disk \in [{VaultKey, ActiveKey} -> Value]
  BY DEF TInv, TypeOK
<1>5. inst[i].doing \notin {"none", "open"}
  BY <1>1 DEF Fits
<1> QED BY <1>1, <1>2, <1>3, <1>4, <1>5 DEF EndsWith

LEMMA RenameKeeps ==
  ASSUME NEW i, Known(i), StorageInv, Rename(i), UNCHANGED <<inst, lives, deleted>>
  PROVE  StoreInv'
<1> USE KnownOf
<1>0. /\ call[i].at = "write" /\ inst[i].doing \notin {"none", "open"}
      /\ call'[i].at = "unlock" /\ call'[i].req = call[i].req /\ call'[i].answer = "done"
      /\ \A j \in Client \ {i} : call'[j] = call[j]
      /\ call[i].req.check => disk[call[i].req.key] = call[i].req.old
      /\ disk' = [disk EXCEPT ![call[i].req.key] = call[i].req.new]
      /\ disk \in [{VaultKey, ActiveKey} -> Value]
  BY RenameParts
<1>a. VaultKey # ActiveKey
  BY DEF VaultKey, ActiveKey
<1>1. CASE Pending(inst[i], call[i])
  <2>1. call[i].req.check /\ call[i].req.key = VaultKey /\ call[i].req.new \in Stored
    BY <1>1 DEF Continues, Pending, Fits
  <2>2. record = call[i].req.old /\ record' = call[i].req.new /\ disk'[ActiveKey] = disk[ActiveKey]
    BY <1>0, <1>a, <2>1 DEF record
  <2>3. Pending(inst[i], call'[i]) /\ Wrote(inst[i], call'[i]) /\ ~ Wrote(inst[i], call[i])
    BY <1>0, <1>1 DEF Pending, Wrote
  <2>4. Continues(inst[i], call'[i]) /\ Own(inst[i], call'[i])
    <3>1. ~ Unwritten(inst[i], call'[i])
      BY <1>0 DEF Unwritten
    <3> QED BY <1>0, <1>1, <2>3, <3>1 DEF Continues, Own
  <2>5. \A j \in Client : Continues(inst'[j], call'[j]) /\ Own(inst'[j], call'[j])
    BY <1>0, <2>4 DEF StoreInv, HistoryInv, OwnInv
  <2>6. Seen' \subseteq Seen \cup {call[i].req.new}
    <3>1. \A j \in Client : SeenBy(inst'[j], call'[j]) \subseteq Seen \cup {call[i].req.new}
      <4> TAKE j \in Client
      <4>1. CASE j = i
        BY <1>0, <2>3, <4>1, SeenOf DEF SeenBy
      <4>2. CASE j # i
        BY <1>0, <4>2, SeenOf
      <4> QED BY <4>1, <4>2
    <3> QED BY <2>2, <3>1 DEF Seen
  <2>7. \A j \in Client : Creating(j)' => j # i /\ Creating(j) /\ Birth(j)' = Birth(j)
    <3> TAKE j \in Client
    <3>1. ~ Creates(inst[i], call'[i])
      BY <2>3 DEF Creates
    <3> QED BY <1>0, <3>1 DEF Creating, Birth
  <2>8. HistoryInv'
    BY <1>0, <1>1, <2>2, <2>5, <2>6, <2>7, NewRecord DEF StoreInv
  <2>9. NamedInv'
    <3>1. record' # None
      BY <2>1, <2>2
    <3> QED BY <3>1 DEF StoreInv, NamedInv
  <2> QED BY <2>5, <2>8, <2>9 DEF StoreInv, OwnInv
<1>2. CASE ~ Pending(inst[i], call[i])
  <2>1. inst[i].doing \in {"pointing", "clearing", "deleting"}
    BY <1>0, <1>2 DEF Pending, Instance, Works
  <2>2. \/ call[i].req.key = ActiveKey
        \/ call[i].req = Remove(VaultKey) /\ Deletes(inst[i])
    BY <2>1 DEF Continues, Deletes
  <2>3. record' \in {record, None} /\ (record' = record \/ Deletes(inst[i]))
    <3>1. CASE call[i].req.key = ActiveKey
      BY <1>0, <1>a, <3>1 DEF record
    <3>2. CASE call[i].req = Remove(VaultKey) /\ Deletes(inst[i])
      BY <1>0, <3>2 DEF record, Remove, Set
    <3> QED BY <2>2, <3>1, <3>2
  <2>4. ~ Pending(inst[i], call'[i]) /\ ~ Wrote(inst[i], call'[i]) /\ ~ Wrote(inst[i], call[i])
    BY <1>0, <1>2 DEF Pending, Wrote
  <2>5. Keeps(i, inst'[i], call'[i])
    BY <1>0, <2>4, StageKeeps
  <2>6. HistoryInv' /\ OwnInv'
    BY <1>0, <2>3, <2>5, OneMoves
  <2>7. NamedInv'
    <3> SUFFICES ASSUME ~ deleted
                 PROVE  /\ \A j \in Client : ~ Deletes(inst[j])
                        /\ record' = None => /\ disk'[ActiveKey] # Id
                                             /\ \A j \in Client : ~ Names(inst[j], call'[j])
      BY DEF NamedInv
    <3>1. \A j \in Client : ~ Deletes(inst[j])
      BY DEF StoreInv, NamedInv
    <3>2. inst[i].doing = "pointing" /\ record' = record
      BY <2>1, <2>3, <3>1 DEF Deletes
    <3>3. record # None
      BY <3>2 DEF StoreInv, NamedInv, Names
    <3> QED BY <3>1, <3>2, <3>3
  <2> QED BY <2>6, <2>7 DEF StoreInv
<1> QED BY <1>1, <1>2

LEMMA StorageMovesKeeps ==
  ASSUME NEW i, Known(i), StorageInv, StorageMoves(i)
  PROVE  StoreInv'
<1>1. UNCHANGED <<inst, lives, deleted>> /\ StorageStep(i)
  BY DEF StorageMoves
<1> QED BY <1>1, WaitsKeeps, RenameKeeps DEF StorageStep

LEMMA CrashKeeps ==
  ASSUME TInv, StoreInv, NEW h \in Host, Crash(h)
  PROVE  StoreInv'
<1> DEFINE dead == {i \in Client : host[i] = h}
<1>1. /\ \A i \in Client : \/ inst'[i] = Nothing /\ call'[i] = NoCall
                           \/ inst'[i] = inst[i] /\ call'[i] = call[i]
      /\ UNCHANGED <<disk, lives, deleted>>
  BY DEF Crash, StorageCrash
<1>2. Nothing.doing = "none" /\ Nothing.base = None
  BY NothingTyped, NothingOwn
<1>3. /\ Continues(Nothing, NoCall) /\ Own(Nothing, NoCall)
      /\ SeenBy(Nothing, NoCall) = {None} /\ ~ Creates(Nothing, NoCall)
      /\ ~ Deletes(Nothing) /\ ~ Names(Nothing, NoCall)
  <2>1. ~ Pending(Nothing, NoCall) /\ ~ Wrote(Nothing, NoCall)
    BY <1>2 DEF Pending, Wrote
  <2> QED BY <1>2, <2>1, NothingOwn DEF Continues, SeenBy, Creates, Deletes, Names
<1>4. \A i \in Client : Continues(inst'[i], call'[i]) /\ Own(inst'[i], call'[i])
  BY <1>1, <1>3 DEF StoreInv, HistoryInv, OwnInv
<1>5. record' = record
  BY <1>1 DEF record
<1>6. Seen' \subseteq Seen \cup {None}
  <2>1. \A i \in Client : SeenBy(inst'[i], call'[i]) \subseteq Seen \cup {None}
    <3> TAKE i \in Client
    <3> QED BY <1>1, <1>3, SeenOf
  <2> QED BY <1>5, <2>1 DEF Seen
<1>7. \A i \in Client : Creating(i)' => Creating(i) /\ Birth(i)' = Birth(i)
  BY <1>1, <1>3 DEF Creating, Birth
<1>8. HistoryInv'
  BY <1>1, <1>4, <1>5, <1>6, <1>7, NothingNew DEF StoreInv
<1>9. NamedInv'
  BY <1>1, <1>3, <1>5 DEF StoreInv, NamedInv
<1> QED BY <1>4, <1>8, <1>9 DEF StoreInv, OwnInv

LEMMA NextKeeps ==
  ASSUME TInv, StorageInv, StoreInv, [Next]_vars
  PROVE  StoreInv'
<1>1. ASSUME NEW i \in Client, Progress(i) PROVE StoreInv'
  <2>1. Known(i)
    BY DEF Known
  <2> QED BY <1>1, <2>1, StorageMovesKeeps, SaveReadsKeeps, SaveConflictsKeeps,
             SaveCommittedKeeps, SaveRefusedKeeps, ImportCommittedKeeps, ImportReturnsKeeps,
             DeletionKeeps, DeleteReturnsKeeps DEF Progress
<1>2. ASSUME NEW i \in Client, Request(i) PROVE StoreInv'
  <2>1. Known(i)
    BY DEF Known
  <2> QED BY <1>2, <2>1, OpenKeeps, LoadKeeps, AbandonKeeps, SaveMergingKeeps, ImportKeeps,
             DeletionKeeps, EditKeeps DEF Request
<1>3. ASSUME NEW h \in Host, Crash(h) PROVE StoreInv'
  BY <1>3, CrashKeeps
<1>4. CASE UNCHANGED vars
  <2>1. UNCHANGED <<record, Seen>>
    BY <1>4 DEF vars, storageVars, record, Seen
  <2>2. HistoryInv'
    BY <1>4, <2>1 DEF vars, storageVars, StoreInv, HistoryInv, OneContent, Lived, Latest, Unborn,
       Creating, Birth
  <2>3. OwnInv' /\ NamedInv'
    BY <1>4, <2>1 DEF vars, storageVars, StoreInv, OwnInv, NamedInv
  <2> QED BY <2>2, <2>3 DEF StoreInv
<1> QED BY <1>1, <1>2, <1>3, <1>4 DEF Next

LEMMA InitKeeps == Init => StoreInv
<1> SUFFICES ASSUME Init PROVE StoreInv
  OBVIOUS
<1>1. \A i \in Client : inst[i] = Nothing /\ call[i] = NoCall
  BY DEF Init
<1>2. Nothing.doing = "none" /\ Nothing.base = None
  BY NothingTyped, NothingOwn
<1>3. /\ Continues(Nothing, NoCall) /\ Own(Nothing, NoCall)
      /\ SeenBy(Nothing, NoCall) = {None} /\ ~ Creates(Nothing, NoCall)
      /\ ~ Deletes(Nothing) /\ ~ Names(Nothing, NoCall)
  <2>1. ~ Pending(Nothing, NoCall) /\ ~ Wrote(Nothing, NoCall)
    BY <1>2 DEF Pending, Wrote
  <2> QED BY <1>2, <2>1, NothingOwn DEF Continues, SeenBy, Creates, Deletes, Names
<1>4. Seen \subseteq {record, None}
  BY <1>1, <1>3 DEF Seen
<1>5. \/ record = None /\ disk[ActiveKey] = None
      \/ record = [rev |-> 1, data |-> Pristine, life |-> 1] /\ lives = 1
  BY DEF Init, record, VaultKey, ActiveKey
<1>6. OneContent /\ Lived /\ Latest
  BY <1>4, <1>5 DEF OneContent, Lived, Latest, SameVersion
<1>7. Unborn /\ OwnInv /\ \A i \in Client : Continues(inst[i], call[i])
  BY <1>1, <1>3 DEF Unborn, Creating, OwnInv
<1>8. NamedInv
  <2>1. MaxEvents \in Nat /\ None \notin Stored /\ Id # None
    BY VaultStoreAssumption
  <2>2. [rev |-> 1, data |-> Pristine, life |-> 1] \in Stored
    BY <2>1 DEF Stored, Pristine, Data, Edits
  <2>3. record = None => disk[ActiveKey] # Id
    BY <1>5, <2>1, <2>2
  <2> QED BY <1>1, <1>3, <2>3 DEF NamedInv
<1> QED BY <1>6, <1>7, <1>8 DEF StoreInv, HistoryInv

LEMMA StoreHolds == Spec => [](TInv /\ StorageInv /\ StoreInv)
<1>1. Init => TInv /\ StorageInv /\ StoreInv
  BY InitTyped, InitKeeps DEF Init, StorageInv, Answering, Inside, NoCall
<1>2. TInv /\ StorageInv /\ StoreInv /\ [Next]_vars => (TInv /\ StorageInv /\ StoreInv)'
  BY NextTyped, NextPromised, NextKeeps
<1> QED BY <1>1, <1>2, PTL DEF Spec

-----------------------------------------------------------------------------
(* Revisions identify contents: two baselines, or a baseline and the record,   *)
(* of one life and one revision are equal, so the comparison of saveUnlocked   *)
(* can be fooled only by a deletion.                                           *)
THEOREM BaselinesIdentified == Spec => []BaselinesAgree
<1>1. StoreInv => BaselinesAgree
  <2> SUFFICES ASSUME OneContent PROVE BaselinesAgree
    BY DEF StoreInv, HistoryInv
  <2>1. Versions \subseteq Seen
    <3>1. \A i \in Client : inst[i].base \in Seen
      <4> TAKE i \in Client
      <4>1. inst[i].base \in SeenBy(inst[i], call[i])
        BY DEF SeenBy
      <4> QED BY <4>1, SeenOf
    <3>2. record \in Seen
      BY DEF Seen
    <3> QED BY <3>1, <3>2 DEF Versions
  <2> QED BY <2>1 DEF OneContent, BaselinesAgree
<1> QED BY <1>1, StoreHolds, PTL

(* An import names the vault in activeVaultId only when its record is durable: *)
(* a pointer to nothing means that somebody asked for a deletion.              *)
THEOREM RecordBeforePointer == Spec => []PointerAfterRecord
<1>1. StoreInv => PointerAfterRecord
  BY DEF StoreInv, NamedInv, PointerAfterRecord
<1> QED BY <1>1, StoreHolds, PTL

-----------------------------------------------------------------------------
(* What a write of the record shows. *)

LEMMA OnlyRenames ==
  ASSUME TInv, [Next]_vars, record' # record
  PROVE  \E i \in Client : Rename(i) /\ UNCHANGED inst
<1>1. disk' # disk
  BY DEF record
<1>2. PICK i \in Client : StorageMoves(i)
  <2>1. ASSUME NEW i \in Client, Progress(i) PROVE StorageMoves(i)
    <3>1. CASE ~ StorageMoves(i)
      <4>1. UNCHANGED disk
        BY <2>1, <3>1 DEF Progress, SaveReads, SaveConflicts, SaveCommitted, SaveRefused,
           ImportCommitted, ImportReturns, DeleteClears, DeleteReturns, Calls, Hangs, storageVars
      <4> QED BY <1>1, <4>1
    <3> QED BY <3>1
  <2>2. ASSUME NEW i \in Client, Request(i) PROVE FALSE
    BY <1>1, <2>2, RequestTurn DEF ClientTurn
  <2>3. ~ (\E h \in Host : Crash(h)) /\ ~ UNCHANGED vars
    BY <1>1 DEF Crash, StorageCrash, vars, storageVars
  <2> QED BY <2>1, <2>2, <2>3 DEF Next
<1>3. StorageStep(i) /\ UNCHANGED inst
  BY <1>2 DEF StorageMoves
<1>4. Rename(i)
  BY <1>1, <1>3 DEF StorageStep, LockStorage, LockTimesOut, Compare, WriteFails, UnlockStorage
<1> QED BY <1>3, <1>4

(* A record that is written is the one that a save under way hands in. *)
LEMMA SaveWrites ==
  ASSUME TInv, StorageInv, StoreInv, NEW i \in Client, Rename(i), UNCHANGED inst,
         record' # record, record' # None
  PROVE  /\ Pending(inst[i], call[i]) /\ call[i].at = "write" /\ call'[i].answer = "done"
         /\ record = call[i].req.old /\ record' = call[i].req.new
         /\ \A j \in Client \ {i} : call'[j] = call[j]
<1>0. TypeOK /\ inst[i] \in Instance /\ call[i] \in Call /\ Fits(inst[i], call[i])
      /\ Continues(inst[i], call[i])
  BY Facts DEF StoreInv, HistoryInv
<1>1. /\ call[i].at = "write" /\ disk' = [disk EXCEPT ![call[i].req.key] = call[i].req.new]
      /\ disk \in [{VaultKey, ActiveKey} -> Value]
      /\ call[i].req.check => disk[call[i].req.key] = call[i].req.old
  BY <1>0 DEF Rename, At, TypeOK, StorageInv, Inside
<1>2. call[i].req.key = VaultKey /\ record' = call[i].req.new
  BY <1>1 DEF record
<1>3. VaultKey # ActiveKey /\ Remove(VaultKey).new = None
  BY DEF VaultKey, ActiveKey, Remove, Set
<1>4. Pending(inst[i], call[i])
  <2>1. inst[i].doing \notin {"none", "open", "pointing", "clearing", "deleting"}
    BY <1>0, <1>1, <1>2, <1>3 DEF Fits, Continues
  <2> QED BY <1>0, <1>1, <2>1 DEF Pending, Instance, Works
<1>5. EndsWith(i, "unlock", "done")
  BY <1>0, AnsweredWith DEF Rename, Stages, Answers
<1>6. call'[i].answer = "done" /\ \A j \in Client \ {i} : call'[j] = call[j]
  BY <1>5 DEF EndsWith
<1> QED BY <1>0, <1>1, <1>2, <1>4, <1>6 DEF Continues, record

(* No step but an import that commits stores a deleted vault again: no save    *)
(* of an instance that was opened before, whatever it has read and when.       *)
THEOREM DeletedStaysDeleted == Spec => NoResurrection
<1>1. ASSUME TInv, StorageInv, StoreInv, [Next]_vars, record = None, record' # None
      PROVE  \E i \in Client : Is(i, "importing") /\ Accepted(i)
  <2>1. PICK i \in Client : Rename(i) /\ UNCHANGED inst
    BY <1>1, OnlyRenames
  <2>2. /\ Pending(inst[i], call[i]) /\ call[i].at = "write" /\ call[i].req.old = None
        /\ call'[i].answer = "done"
    BY <1>1, <2>1, SaveWrites
  <2>3. Is(i, "importing")
    BY <1>1, <2>2 DEF StoreInv, HistoryInv, Continues, Pending, Is
  <2>4. Accepted(i)
    BY <2>2, <2>3 DEF Accepted, Busy, At
  <2> QED BY <2>3, <2>4
<1>2. TInv /\ StorageInv /\ StoreInv /\ [Next]_vars =>
         [record = None /\ record' # None => \E i \in Client : Is(i, "importing") /\ Accepted(i)]_vars
  BY <1>1
<1> QED BY <1>2, StoreHolds, PTL DEF Spec, NoResurrection

(* A save that its instance made alone changes only what its caller edited, as *)
(* long as the record was not deleted and imported again in between: a stale   *)
(* instance reverts nothing, and neither does a merge.                         *)
THEOREM OwnEditsOnly == Spec => OnlyOwnEdits
<1>1. ASSUME TInv, StorageInv, StoreInv, [Next]_vars, NEW i \in Client,
             Accepted(i), NextSave(i).alone, SameLife(i), NEW f \in Fields, Changed(f)
      PROVE  f \in NextSave(i).edited
  <2>1. record # None /\ inst[i].base # None /\ inst[i].base.life = record.life
        /\ record'.data[f] # record.data[f]
    BY <1>1 DEF SameLife, Changed
  <2>2. call[i].at = "write" /\ inst[i].saves # <<>> /\ inst[i] \in Instance
        /\ Pending(inst[i], call[i])
    BY <1>1, Facts DEF Accepted, At, Busy, Is, Pending, Fits
  <2>3. call'[i].answer = "done" /\ call[i].answer # "done"
    BY <1>1, <2>2 DEF Accepted, StorageInv, Answering
  <2>4. PICK j \in Client : Rename(j) /\ UNCHANGED inst
    BY <1>1, <2>1, OnlyRenames
  <2>5. record' # None
    <3>1. Inside(i) /\ Inside(j) /\ call[j].at = "write"
      BY <1>1, <2>4 DEF StorageInv, Rename, At
    <3>2. j = i
      BY <2>2, <3>1 DEF Inside
    <3>3. call[i].req.key = VaultKey /\ call[i].req.new \in Stored
      BY <1>1, <2>2, Facts DEF StoreInv, HistoryInv, Continues, Pending, Fits
    <3>4. record' = call[i].req.new
      BY <1>1, <2>4, <3>2, <3>3 DEF Rename, TInv, TypeOK, record
    <3> QED BY <3>3, <3>4, VaultStoreAssumption
  <2>6. i = j /\ record = call[i].req.old /\ record' = call[i].req.new
    BY <1>1, <2>1, <2>3, <2>4, <2>5, SaveWrites
  <2>7. Unwritten(inst[i], call[i])
    BY <2>1, <2>2, <2>6 DEF Unwritten
  <2>8. NextSave(i) = inst[i].saves[1] /\ 1 \in DOMAIN inst[i].saves
    BY <2>2 DEF NextSave, Instance
  <2>9. Only(call[i].req.new.data, NextSave(i).edited, call[i].req.old)
    BY <1>1, <2>1, <2>6, <2>7, <2>8 DEF StoreInv, OwnInv, Own
  <2>10. \A g \in Fields \ NextSave(i).edited : record'.data[g] = record.data[g]
    BY <2>1, <2>6, <2>9 DEF Only
  <2> QED BY <2>1, <2>10
<1>2. TInv /\ StorageInv /\ StoreInv /\ [Next]_vars =>
         [\A i \in Client : Accepted(i) /\ NextSave(i).alone /\ SameLife(i) =>
             \A f \in Fields : Changed(f) => f \in NextSave(i).edited]_vars
  BY <1>1
<1> QED BY <1>2, StoreHolds, PTL DEF Spec, OnlyOwnEdits
=============================================================================
