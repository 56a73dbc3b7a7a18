------------------------------- MODULE Keygen -------------------------------
(***************************************************************************)
(* The protocols that make or refresh the key shares of a secure vault:    *)
(* key generation, reshare and key import of the DKLS and Schnorr classes, *)
(* and the ML-DSA key generation (core/mpc/dkls, schnorr and mldsa).  In   *)
(* each attempt an outbound and an inbound loop share a protocol session   *)
(* and exchange its messages through the relay.  The operations differ in  *)
(* where the setup message comes from and in what a deadline counts from.  *)
(* The protocol engine is external: it is modelled as rounds, in each of   *)
(* which a party sends one message to every other and waits for theirs.    *)
(***************************************************************************)
EXTENDS Naturals

CONSTANTS
    Operations,  \* the operations to look at
    Party,       \* the committee
    Initiator,   \* the party that makes the setup message
    Rounds,      \* rounds of the protocol
    MaxAttempts, \* how often an operation is tried (3)
    MaxFaults,   \* bound on the failures, for each operation
    Faults       \* which of "setup", "lose", "down", "undelete", "slow", "reject" may happen

Operation == {"dkls", "schnorr", "mldsa", "dklsReshare", "schnorrReshare",
              "dklsImport", "schnorrImport"}

ASSUME KeygenAssumption ==
    /\ Operations \subseteq Operation
    /\ Initiator \in Party
    /\ Rounds \in Nat \ {0} /\ MaxAttempts \in Nat \ {0}
    /\ MaxFaults \in [Operations -> Nat]
    /\ Faults \subseteq {"setup", "lose", "down", "undelete", "slow", "reject"}

(* A setup message is named after the attempt of the initiator that made   *)
(* it; 0 is none.                                                          *)
SetupMessage == 0 .. MaxAttempts

(* A message carries the attempt of its sender, the setup message of its   *)
(* session and, from the second round on, the attempt of the receiver that *)
(* it was computed for.                                                    *)
Message == [from : Party, to : Party, round : 1 .. Rounds,
            try : 1 .. MaxAttempts, re : 0 .. MaxAttempts, setup : SetupMessage]

VARIABLES
    operation, \* what the committee runs
    uploaded,  \* the setup message on the relay
    relay,     \* the messages on the relay
    wire,      \* messages posted, but not there yet
    setup,     \* each party's this.setupMessage
    attempt,   \* its attempt
    inb,       \* where an attempt and its inbound loop are
    outb,      \* where its outbound loop is
    batch,     \* messages it fetched and has not fed to its session yet
    got,       \* messages its session has taken
    sent,      \* how many messages its session has put out
    faults,    \* how many failures there were
    lost       \* history, for the properties only: the messages lost

sessionVars == <<batch, got, sent>>
vars == <<operation, uploaded, relay, wire, setup, attempt, inb, outb, sessionVars, faults, lost>>

InPhases == {"start", "upload", "wait", "poll", "expired", "input",
             "finishing", "complete", "lost", "returned", "failed"}
OutPhases == {"idle", "run", "done"}

(* A Schnorr key generation is given the setup message that the DKLS one   *)
(* before it used.                                                         *)
Given == IF operation = "schnorr" THEN 1 ELSE 0

Init ==
    /\ operation \in Operations
    /\ uploaded = Given /\ relay = {} /\ wire = {}
    /\ setup = [p \in Party |-> Given]
    /\ attempt = [p \in Party |-> 1]
    /\ inb = [p \in Party |-> "start"]
    /\ outb = [p \in Party |-> "idle"]
    /\ batch = [p \in Party |-> {}]
    /\ got = [p \in Party |-> {}]
    /\ sent = [p \in Party |-> 0]
    /\ faults = 0 /\ lost = {}

Fails(kind) == kind \in Faults /\ faults < MaxFaults[operation] /\ faults' = faults + 1

Goto(p, label) == inb' = [inb EXCEPT ![p] = label]

(* Variant of AttemptFails: the attempts are not counted. *)
AttemptFailsUncounted(p) == UNCHANGED attempt /\ Goto(p, "start")

(* An attempt throws: the operation tries again, or gives up. *)
AttemptFails(p) ==
    IF attempt[p] < MaxAttempts
    THEN attempt' = [attempt EXCEPT ![p] = @ + 1] /\ Goto(p, "start")
    ELSE UNCHANGED attempt /\ Goto(p, "failed")

-----------------------------------------------------------------------------
(* The protocol engine *)

Peers(p) == Party \ {p}

(* The rounds whose messages p's session can put out: the first, and each  *)
(* one after a round it has every peer's message of.                       *)
HasRound(p, r) == \A q \in Peers(p) : \E m \in got[p] : m.from = q /\ m.round = r
Available(p) == {r \in 1 .. Rounds : \A k \in 1 .. r - 1 : HasRound(p, k)}
NextOut(p) == sent[p] + 1

(* m belongs to the transcript of p's session. *)
Fits(p, m) ==
    /\ m.setup = setup[p]
    /\ m.re \in {0, attempt[p]}
    /\ \A k \in got[p] : k.from = m.from => k.try = m.try

(* The attempt of q that p's session has messages of. *)
TryOf(p, q) == CHOOSE t \in 1 .. MaxAttempts : \E m \in got[p] : m.from = q /\ m.try = t

-----------------------------------------------------------------------------
(* An attempt up to the session *)

(* Variant of StartSession: the count of what was put out is kept. *)
StartSessionCounting(p) ==
    /\ Goto(p, "poll")
    /\ outb' = [outb EXCEPT ![p] = "run"]
    /\ batch' = [batch EXCEPT ![p] = {}]
    /\ got' = [got EXCEPT ![p] = {}]
    /\ UNCHANGED sent

(* A session is made, and both loops start. *)
StartSession(p) ==
    /\ Goto(p, "poll")
    /\ outb' = [outb EXCEPT ![p] = "run"]
    /\ batch' = [batch EXCEPT ![p] = {}]
    /\ got' = [got EXCEPT ![p] = {}]
    /\ sent' = [sent EXCEPT ![p] = 0]

(* A key generation keeps the setup message for its retries. *)
KeepsSetup == operation \in {"dkls", "schnorr"}

(* A key import makes a key and a setup message for every attempt. *)
RemakesSetup == operation \in {"dklsImport", "schnorrImport"}

(* There is a setup message already. *)
Restart(p) ==
    /\ inb[p] = "start"
    /\ KeepsSetup /\ setup[p] # 0
    /\ StartSession(p)
    /\ UNCHANGED <<operation, uploaded, relay, wire, setup, attempt, faults, lost>>

(* The initiator makes the setup message, which it has before it is        *)
(* uploaded; waitForSetupMessage polls for it.                             *)
Setup(p) ==
    /\ inb[p] = "start"
    /\ ~ (KeepsSetup /\ setup[p] # 0)
    /\ IF p = Initiator /\ (attempt[p] = 1 \/ RemakesSetup)
       THEN setup' = [setup EXCEPT ![p] = attempt[p]] /\ Goto(p, "upload")
       ELSE Goto(p, "wait") /\ UNCHANGED setup
    /\ UNCHANGED <<operation, uploaded, relay, wire, attempt, outb, sessionVars, faults, lost>>

Upload(p) ==
    /\ inb[p] = "upload"
    /\ uploaded' = setup[p]
    /\ StartSession(p)
    /\ UNCHANGED <<operation, relay, wire, setup, attempt, faults, lost>>

(* The request fails, though it may have got there. *)
UploadFails(p) ==
    /\ Fails("setup")
    /\ inb[p] = "upload"
    /\ uploaded' \in {uploaded, setup[p]}
    /\ AttemptFails(p)
    /\ UNCHANGED <<operation, relay, wire, setup, outb, sessionVars, lost>>

SetupArrives(p) ==
    /\ inb[p] = "wait" /\ uploaded # 0
    /\ setup' = [setup EXCEPT ![p] = uploaded]
    /\ StartSession(p)
    /\ UNCHANGED <<operation, uploaded, relay, wire, attempt, faults, lost>>

(* Its 50 retries are over; the initiator is slow, or not going to upload. *)
SetupTimesOut(p) ==
    /\ inb[p] = "wait" /\ uploaded = 0
    /\ \/ Fails("slow")
       \/ inb[Initiator] \notin {"start", "upload"} /\ UNCHANGED faults
    /\ AttemptFails(p)
    /\ UNCHANGED <<operation, uploaded, relay, wire, setup, outb, sessionVars, lost>>

-----------------------------------------------------------------------------
(* processOutbound *)

Complete(p) == inb[p] \in {"complete", "lost"}

(* A message of the session is posted to each receiver, and not waited for. *)
Output(p) ==
    /\ outb[p] = "run"
    /\ NextOut(p) \in Available(p)
    /\ sent' = [sent EXCEPT ![p] = @ + 1]
    /\ wire' = wire \cup
         {[from |-> p, to |-> q, round |-> NextOut(p), try |-> attempt[p],
           re |-> IF NextOut(p) = 1 THEN 0 ELSE TryOf(p, q), setup |-> setup[p]] : q \in Peers(p)}
    /\ UNCHANGED <<operation, uploaded, relay, setup, attempt, inb, outb, batch, got, faults, lost>>

(* Variant of OutputDone: completion stops the loop at once. *)
OutputStops(p) ==
    /\ outb[p] = "run"
    /\ Complete(p)
    /\ outb' = [outb EXCEPT ![p] = "done"]
    /\ UNCHANGED <<operation, uploaded, relay, wire, setup, attempt, inb, sessionVars, faults, lost>>

(* The loop stops when there is nothing to put out and isKeygenComplete. *)
OutputDone(p) ==
    /\ outb[p] = "run"
    /\ Complete(p) /\ NextOut(p) \notin Available(p)
    /\ outb' = [outb EXCEPT ![p] = "done"]
    /\ UNCHANGED <<operation, uploaded, relay, wire, setup, attempt, inb, sessionVars, faults, lost>>

-----------------------------------------------------------------------------
(* processInbound *)

Inbox(p) == {m \in relay : m.to = p}

(* A message that is refused keeps q from those it fetched with it. *)
Blocked(q) ==
    \/ \A m \in Inbox(q) : m \in got[q]
    \/ \E m \in Inbox(q) : ~ Fits(q, m)

(* Nobody is going to send anything any more, or need not be. *)
Stalled ==
    /\ wire = {}
    /\ \A q \in Party :
          /\ outb[q] = "run" => NextOut(q) \notin Available(q)
          /\ inb[q] \notin {"start", "upload", "wait", "finishing"}
          /\ inb[q] \in {"poll", "input"} => Blocked(q)

FixedDeadline == {"schnorr", "mldsa", "schnorrReshare", "schnorrImport"}

(* Variant of FromTheStart: every deadline counts from the last answer. *)
NeverFromTheStart == FALSE

(* The deadline counts from the start of the attempt; in the DKLS class it *)
(* counts from the last poll that returned a message.                      *)
FromTheStart == operation \in FixedDeadline

Poll(p) ==
    /\ inb[p] = "poll"
    /\ Inbox(p) # {}
    /\ batch' = [batch EXCEPT ![p] = Inbox(p)]
    /\ Goto(p, "input")
    /\ UNCHANGED <<operation, uploaded, relay, wire, setup, attempt, outb, got, sent, faults, lost>>

(* The deadline is over, at a poll that fails, or returns nothing, or, if  *)
(* it counts from the start, at any.  Deadlines are long: unless something *)
(* is slow, one passes only when waiting is of no use.                     *)
PollsExpire(p) ==
    /\ inb[p] = "poll"
    /\ \/ Fails("down")
       \/ /\ FromTheStart \/ Inbox(p) = {}
          /\ Fails("slow") \/ (Stalled /\ UNCHANGED faults)
    /\ Goto(p, "expired")
    /\ UNCHANGED <<operation, uploaded, relay, wire, setup, attempt, outb, sessionVars, lost>>

Timeout(p) ==
    /\ inb[p] = "expired"
    /\ Goto(p, "lost")
    /\ UNCHANGED <<operation, uploaded, relay, wire, setup, attempt, outb, sessionVars, faults, lost>>

(* Variant of Delete: everything that was fetched is deleted at once. *)
DeleteFetched(p, m) ==
    /\ relay' = relay \ batch[p]
    /\ batch' = [batch EXCEPT ![p] = {}]
    /\ Goto(p, "poll")

(* inputMessage has returned false: the message is deleted from the relay. *)
Delete(p, m) ==
    /\ relay' = relay \ {m}
    /\ batch' = [batch EXCEPT ![p] = @ \ {m}]
    /\ Goto(p, IF batch[p] = {m} THEN "poll" ELSE "input")

(* Something throws: back to polling, with the relay as it is. *)
Throw(p) ==
    /\ batch' = [batch EXCEPT ![p] = {}]
    /\ Goto(p, "poll")
    /\ UNCHANGED relay

Finishes(p, m) == m \notin got[p] /\ \A r \in 1 .. Rounds : HasRound(p, r)'

(* inputMessage of a message that belongs to the session; a second time it *)
(* changes nothing.  The cache of processed messages does not prevent      *)
(* that: it holds '' for each, which its test takes for absent.            *)
Input(p) ==
    /\ inb[p] = "input"
    /\ \E m \in batch[p] :
          /\ Fits(p, m)
          /\ got' = [got EXCEPT ![p] = @ \cup {m}]
          /\ IF Finishes(p, m)
             THEN Goto(p, "finishing") /\ UNCHANGED <<relay, batch>>
             ELSE Delete(p, m)
    /\ UNCHANGED <<operation, uploaded, wire, setup, attempt, outb, sent, faults, lost>>

(* ... when the request to delete it fails. *)
InputUndeleted(p) ==
    /\ Fails("undelete")
    /\ inb[p] = "input"
    /\ \E m \in batch[p] :
          /\ Fits(p, m)
          /\ got' = [got EXCEPT ![p] = @ \cup {m}]
          /\ ~ Finishes(p, m)
    /\ Throw(p)
    /\ UNCHANGED <<operation, uploaded, wire, setup, attempt, outb, sent, lost>>

(* The engine ignores a message of another transcript, or refuses it. *)
InputForeign(p) ==
    /\ inb[p] = "input"
    /\ \E m \in batch[p] :
          /\ ~ Fits(p, m)
          /\ \/ Delete(p, m)
             \/ "reject" \in Faults /\ Throw(p)
    /\ UNCHANGED <<operation, uploaded, wire, setup, attempt, outb, got, sent, faults, lost>>

(* The last second is over: isKeygenComplete is set. *)
FinishSleep(p) ==
    /\ inb[p] = "finishing"
    /\ Goto(p, "complete")
    /\ UNCHANGED <<operation, uploaded, relay, wire, setup, attempt, outb, sessionVars, faults, lost>>

(* Variant of Return: the outbound loop is not waited for. *)
ReturnUnawaited(p) ==
    /\ outb[p] # "idle" /\ Complete(p)
    /\ outb' = [outb EXCEPT ![p] = "idle"]
    /\ IF inb[p] = "complete"
       THEN Goto(p, "returned") /\ UNCHANGED attempt
       ELSE AttemptFails(p)
    /\ UNCHANGED <<operation, uploaded, relay, wire, setup, sessionVars, faults, lost>>

(* Both loops have stopped: the key share is returned, or the attempt lost. *)
Return(p) ==
    /\ outb[p] = "done"
    /\ outb' = [outb EXCEPT ![p] = "idle"]
    /\ IF inb[p] = "complete"
       THEN Goto(p, "returned") /\ UNCHANGED attempt
       ELSE AttemptFails(p)
    /\ UNCHANGED <<operation, uploaded, relay, wire, setup, sessionVars, faults, lost>>

-----------------------------------------------------------------------------
(* The network *)

Arrive(m) ==
    /\ wire' = wire \ {m}
    /\ relay' = relay \cup {m}
    /\ UNCHANGED <<operation, uploaded, setup, attempt, inb, outb, sessionVars, faults, lost>>

(* The request fails: its promise is dropped, nothing is sent again. *)
Lose(m) ==
    /\ Fails("lose")
    /\ wire' = wire \ {m}
    /\ lost' = lost \cup {m}
    /\ UNCHANGED <<operation, uploaded, relay, setup, attempt, inb, outb, sessionVars>>

InStep(p) ==
    \/ Restart(p) \/ Setup(p) \/ Upload(p) \/ UploadFails(p)
    \/ SetupArrives(p) \/ SetupTimesOut(p)
    \/ Poll(p) \/ PollsExpire(p) \/ Timeout(p)
    \/ Input(p) \/ InputUndeleted(p) \/ InputForeign(p) \/ FinishSleep(p) \/ Return(p)
OutStep(p) == Output(p) \/ OutputDone(p)
Network == \E m \in wire : Arrive(m) \/ Lose(m)

Next == (\E p \in Party : InStep(p) \/ OutStep(p)) \/ Network

Spec == Init /\ [][Next]_vars

(* Each loop keeps running, every request ends, and a deadline that is     *)
(* looked at again and again is at some time found passed.                 *)
Fairness ==
    /\ \A p \in Party :
          /\ WF_vars(InStep(p)) /\ WF_vars(OutStep(p))
          /\ SF_vars(PollsExpire(p) /\ UNCHANGED faults)
    /\ WF_vars(Network)
FairSpec == Spec /\ Fairness

-----------------------------------------------------------------------------
(* Properties *)

(* Every variable stays in its domain; a party has fetched messages when   *)
(* it is about to feed one, and its session has put out no more rounds     *)
(* than the peers' messages allow.                                         *)
TypeOK ==
    /\ operation \in Operations
    /\ uploaded \in SetupMessage /\ faults \in 0 .. MaxFaults[operation]
    /\ relay \cup wire \cup lost \subseteq Message
    /\ setup \in [Party -> SetupMessage]
    /\ attempt \in [Party -> 1 .. MaxAttempts]
    /\ inb \in [Party -> InPhases]
    /\ outb \in [Party -> OutPhases]
    /\ batch \in [Party -> SUBSET Message]
    /\ got \in [Party -> SUBSET Message]
    /\ sent \in [Party -> 0 .. Rounds]
    /\ \A p \in Party : /\ inb[p] = "input" => batch[p] # {}
                        /\ 1 .. sent[p] \subseteq Available(p)

(* A party never returns with a message of its session still to be sent:   *)
(* whoever has a key share has posted all that its peers need for theirs   *)
(* (processOutbound goes on until there is nothing to put out).            *)
OutboundDrained == \A p \in Party : inb[p] = "returned" => sent[p] = Rounds

(* As long as nobody starts over, what a party's session put out is on its *)
(* way, on the relay, lost on the way, or taken by the receiver's session: *)
(* a message is deleted only after it was fed, even when the inbound loop  *)
(* breaks off in the middle of what it fetched.                            *)
NoMessageDropped ==
    (\A p \in Party : attempt[p] = 1) =>
        \A p \in Party : \A q \in Peers(p), r \in 1 .. sent[p] :
            \E m \in wire \cup relay \cup got[q] \cup lost :
                m.from = p /\ m.to = q /\ m.round = r

(* Unless something fails, every party ends up with its key share.         *)
KeygenCompletes == <>(faults > 0 \/ \A p \in Party : inb[p] = "returned")

(* If the setup message never gets to the relay, the initiator's retries,   *)
(* which find it kept and do not upload it again, come to nothing, and so  *)
(* do the waits of the others: every call ends with an error.              *)
SetupLostEnds == <>(uploaded # 0 \/ \A p \in Party : inb[p] = "failed")

(* Where the deadline counts from the start of the attempt, every party's  *)
(* call ends, with a key share or with an error, whatever is lost and      *)
(* whatever the other parties' sessions send after they started over.      *)
FixedDeadlineReturns ==
    operation \in FixedDeadline =>
        \A p \in Party : <>(inb[p] \in {"returned", "failed"})

(* Every party's call ends, with a key share or with an error.             *)
EveryPartyReturns == \A p \in Party : <>(inb[p] \in {"returned", "failed"})

=============================================================================
