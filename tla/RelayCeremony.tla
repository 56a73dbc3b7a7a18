---------------------------- MODULE RelayCeremony ----------------------------
(* A session of the relay from its first device to the end of its last one: *)
(* RelaySession followed by RelaySigning or by VaultCreation.               *)
EXTENDS RelaySigning, VaultCreation

vars == <<sessionVars, signVars, createVars>>

Init == SessionInit /\ SignInit /\ CreateInit

SessionMoves(p) == SessionStep(p) /\ UNCHANGED <<signVars, createVars>>
SessionBegins(p) == SessionEvent(p) /\ UNCHANGED <<signVars, createVars>>
SignMoves(p) == InboundStep(p) /\ UNCHANGED createVars
SignPosts(p) == OutboundStep(p) /\ UNCHANGED createVars
CreateMoves(p) == CreateStep(p) /\ UNCHANGED signVars

Next ==
    \E p \in Party :
        SessionMoves(p) \/ SessionBegins(p) \/ SignMoves(p) \/ SignPosts(p) \/ CreateMoves(p)

Spec == Init /\ [][Next]_vars

(* Timers fire, requests end and loops go on, as long as any can: every    *)
(* step is taken at most once, so it does not matter whose is taken first. *)
(* That a device joins, is cancelled or dies is not assumed.               *)
Progress == \E p \in Party : SessionMoves(p) \/ SignMoves(p) \/ SignPosts(p) \/ CreateMoves(p)

FairSpec == Spec /\ WF_vars(Progress)

(* Every variable stays in its domain, and what a device fetched, took or *)
(* has to send belongs to its call and its committee.                      *)
TypeOK == SessionTypeOK /\ SignTypeOK /\ CreateTypeOK

(* EveryDeviceEnds. Whoever joined a session gets out of it, with a result *)
(* or with an error, whatever the others do.                               *)
EveryDeviceEnds == <>[]Over
=============================================================================
