------------------------------- MODULE Journal -------------------------------
(* What the broadcast journal promises the guard that reads it: records are  *)
(* appended one at a time, and only a record past the retention horizon, or  *)
(* one whose writer could not get the journal lock and appended it all the   *)
(* same, is ever removed (agent/broadcastJournal.ts, pruneJournal).          *)
CONSTANT Record
VARIABLES file, old, bare

Init == file \subseteq Record /\ old \subseteq Record /\ bare = {}

Append == \E r \in Record : /\ file' = file \cup {r}
                            /\ bare' \in {bare, bare \cup {r}}
                            /\ UNCHANGED old
Compact == \E d \in SUBSET (old \cup bare) : file' = file \ d /\ UNCHANGED <<old, bare>>
Expire == \E r \in Record \ old : old' = old \cup {r} /\ UNCHANGED <<file, bare>>

Next == Append \/ Compact \/ Expire
Spec == Init /\ [][Next]_<<file, old, bare>>
=============================================================================
