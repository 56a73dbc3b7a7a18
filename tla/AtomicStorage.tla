---------------------------- MODULE AtomicStorage ----------------------------
(* What the Storage interface promises its callers (sdk/src/storage/types.ts): *)
(* between the start of a call and its answer the call takes effect at one    *)
(* instant, or fails without any effect.                                      *)
CONSTANT Client

VARIABLES
    disk, \* the value of each key
    call  \* the call of each client: the request, and how it was answered

Init == \A c \in Client : call[c].answer = "idle"

Pending(c) == call[c].answer = "none"

(* A client that has no call pending starts one, or drops the last answer. *)
Invoke(c) ==
    /\ ~ Pending(c)
    /\ call'[c].answer \in {"idle", "none"}
    /\ call' = [call EXCEPT ![c] = call'[c]]
    /\ UNCHANGED disk

Answer(c, a) == call' = [call EXCEPT ![c].answer = a]

(* The value is replaced, provided that it is the one the caller expects. *)
TakesEffect(c) ==
    /\ Pending(c)
    /\ call[c].req.check => disk[call[c].req.key] = call[c].req.old
    /\ disk' = [disk EXCEPT ![call[c].req.key] = call[c].req.new]
    /\ Answer(c, "done")

Differs(c) ==
    /\ Pending(c)
    /\ call[c].req.check
    /\ disk[call[c].req.key] # call[c].req.old
    /\ Answer(c, "differs")
    /\ UNCHANGED disk

Fails(c) == Pending(c) /\ Answer(c, "failed") /\ UNCHANGED disk

(* Clients that died together are forgotten. *)
Forget(C) ==
    /\ \A c \in C : call'[c].answer = "idle"
    /\ call' = [c \in Client |-> IF c \in C THEN call'[c] ELSE call[c]]
    /\ UNCHANGED disk

Next ==
    \/ \E c \in Client : Invoke(c) \/ TakesEffect(c) \/ Differs(c) \/ Fails(c)
    \/ \E C \in SUBSET Client : Forget(C)

Spec == Init /\ [][Next]_<<disk, call>>
=============================================================================
