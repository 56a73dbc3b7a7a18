---------------------------- MODULE RelaySigning ----------------------------
(***************************************************************************)
(* Signing the messages of a transaction one after the other: signWithRelay *)
(* and the cosigner call keysign of core/mpc/keysign/index.ts, in which an *)
(* inbound and an outbound loop share a protocol session and one abort     *)
(* signal.  The engine is external: in each round a party sends one        *)
(* message to every other, after it has theirs of the rounds before.       *)
(***************************************************************************)
EXTENDS RelaySession

VARIABLES
    setups, \* the messages whose setup is on the relay
    relay,  \* the protocol messages on the relay, which nobody deletes
    loops   \* the keysign call of each device

Messages == setting.items
Rounds == setting.rounds

signVars == <<setups, relay, loops>>

(* of: the message_id header, which separates the calls of keysign. *)
RelayMessage == [of : 1 .. Messages, from : Party, to : Party, round : 1 .. Rounds]

(* step: which message is up; inb, outb: the two loops; batch: the answer of *)
(* the last GET; got, sent: what the session took and put out; due: the     *)
(* receivers not posted to yet.                                             *)
Loops == [step : 1 .. Messages, inb : {"poll", "feed", "done", "error"},
          outb : {"run", "post", "done", "rejected"}, batch : SUBSET RelayMessage,
          got : SUBSET RelayMessage, sent : 0 .. Rounds, due : SUBSET Party, aborted : BOOLEAN]

Call(n) == [step |-> n, inb |-> "poll", outb |-> "run", batch |-> {}, got |-> {},
            sent |-> 0, due |-> {}, aborted |-> FALSE]

SignInit ==
    /\ setups = {} /\ relay = {}
    /\ loops = [p \in Party |-> Call(1)]

Update(p, new) == loops' = [loops EXCEPT ![p] = new]

(* Variant of MessageAt: the initiator has them in the order of its inputs. *)
MessageUnsorted(p, n) == IF p = Initiator THEN Messages + 1 - n ELSE n

(* Every device sorts the messages by their hashes, which number them here. *)
MessageAt(p, n) == n

Current(p) == MessageAt(p, loops[p].step)

(* Variant of Inbox: the messages of all calls of keysign. *)
InboxOfSession(p) == {m \in relay : m.to = p}

Inbox(p) == {m \in relay : m.to = p /\ m.of = Current(p)}

-----------------------------------------------------------------------------
(* The engine *)

HasRound(p, got, r) == \A q \in Peers(p) : \E m \in got : m.from = q /\ m.round = r
NextRound(p) == loops[p].sent + 1
HasOutput(p) ==
    NextRound(p) <= Rounds /\ \A r \in 1 .. NextRound(p) - 1 : HasRound(p, loops[p].got, r)
Finished(p, got) == \A r \in 1 .. Rounds : HasRound(p, got, r)

-----------------------------------------------------------------------------
(* ensureSetupMessage, and the session *)

Upload(p) ==
    /\ Is(p, "setup") /\ p = Initiator
    /\ setups' = setups \cup {Current(p)}
    /\ Goto(p, "sign")
    /\ UNCHANGED <<setting, joined, started, faults, relay, loops>>

UploadFails(p) ==
    /\ Is(p, "setup") /\ p = Initiator
    /\ Fails("post")
    /\ setups' \in OrApplied(setups, setups \cup {Current(p)})
    /\ Throws(p, "setup")
    /\ UNCHANGED <<setting, joined, started, relay, loops>>

(* A device that joined too late is not in the setup: no session is made. *)
SetupArrives(p) ==
    /\ Is(p, "setup") /\ p # Initiator /\ Current(p) \in setups
    /\ IF p \in device[p].committee THEN Goto(p, "sign") ELSE Throws(p, "session")
    /\ UNCHANGED <<setting, joined, started, faults, signVars>>

(* q has nothing to do but to wait for others. *)
Waits(q) ==
    \/ Ended(q)
    \/ Is(q, "setup") /\ q # Initiator /\ Current(q) \notin setups
    \/ /\ Is(q, "sign")
       /\ loops[q].inb = "poll" /\ ~ loops[q].aborted /\ Inbox(q) \subseteq loops[q].got
       /\ loops[q].outb # "post"
       /\ loops[q].outb = "run" => ~ HasOutput(q)

Stalled == \A q \in started : Waits(q)

(* 51 polls for the setup have failed. *)
SetupTimesOut(p) ==
    /\ Is(p, "setup") /\ p # Initiator /\ Current(p) \notin setups
    /\ \/ Stalled /\ UNCHANGED faults
       \/ Fails("slow")
    /\ Throws(p, "setup")
    /\ UNCHANGED <<setting, joined, started, signVars>>

-----------------------------------------------------------------------------
(* processOutbound *)

Outbound(p, at) == Is(p, "sign") /\ loops[p].outb = at

Output(p) ==
    /\ Outbound(p, "run") /\ ~ loops[p].aborted
    /\ HasOutput(p)
    /\ Update(p, [loops[p] EXCEPT !.outb = "post", !.sent = @ + 1, !.due = Peers(p)])
    /\ UNCHANGED <<sessionVars, setups, relay>>

ToRelay(p, q) == [of |-> Current(p), from |-> p, to |-> q, round |-> loops[p].sent]

(* Variant of Posted: the loop goes on after the first receiver. *)
PostedToOne(p, q) == [loops[p] EXCEPT !.due = {}, !.outb = "run"]

Posted(p, q) ==
    [loops[p] EXCEPT !.due = @ \ {q}, !.outb = IF loops[p].due = {q} THEN "run" ELSE "post"]

(* chainPromises: one receiver after the other, each request awaited. *)
Post(p, q) ==
    /\ Outbound(p, "post") /\ q \in loops[p].due
    /\ relay' = relay \cup {ToRelay(p, q)}
    /\ Update(p, Posted(p, q))
    /\ UNCHANGED <<sessionVars, setups>>

(* The loop ends with a rejection that nobody handles before the inbound   *)
(* loop is over: Node may end the process, other hosts go on without it.   *)
PostFails(p, q) ==
    /\ Outbound(p, "post") /\ q \in loops[p].due
    /\ Fails("post")
    /\ relay' \in OrApplied(relay, relay \cup {ToRelay(p, q)})
    /\ \/ Throws(p, "crash") /\ UNCHANGED loops
       \/ Update(p, [loops[p] EXCEPT !.outb = "rejected", !.due = {}]) /\ UNCHANGED device
    /\ UNCHANGED <<setting, joined, started, setups>>

(* Variant of Drained: the loop ends when there is nothing to put out. *)
DrainedWhenIdle(p) == ~ HasOutput(p)

(* The abort signal stops the loop, whatever the session has left. *)
Drained(p) == loops[p].aborted

OutboundStops(p) ==
    /\ Outbound(p, "run") /\ Drained(p)
    /\ Update(p, [loops[p] EXCEPT !.outb = "done"])
    /\ UNCHANGED <<sessionVars, setups, relay>>

-----------------------------------------------------------------------------
(* processInbound *)

Inbound(p, at) == Is(p, "sign") /\ loops[p].inb = at

(* A poll that returns nothing new changes nothing. *)
Fetch(p) ==
    /\ Inbound(p, "poll") /\ ~ loops[p].aborted
    /\ ~ (Inbox(p) \subseteq loops[p].got)
    /\ Update(p, [loops[p] EXCEPT !.inb = "feed", !.batch = Inbox(p)])
    /\ UNCHANGED <<sessionVars, setups, relay>>

(* A failed poll ends the call; the abort that follows stops the other loop. *)
FetchFails(p) ==
    /\ Inbound(p, "poll") /\ ~ loops[p].aborted
    /\ Fails("get")
    /\ Update(p, [loops[p] EXCEPT !.inb = "error", !.aborted = TRUE])
    /\ device' = [device EXCEPT ![p].why = "poll"]
    /\ UNCHANGED <<setting, joined, started, setups, relay>>

Taken(p) == loops[p].got \cup loops[p].batch

(* The messages of one answer are fed without a pause; when the session is *)
(* finished by one of them, the other loop is aborted at once.             *)
Feed(p) ==
    /\ Inbound(p, "feed")
    /\ Update(p, IF Finished(p, Taken(p))
                 THEN [loops[p] EXCEPT !.inb = "done", !.aborted = TRUE, !.batch = {}, !.got = Taken(p)]
                 ELSE [loops[p] EXCEPT !.inb = "poll", !.batch = {}, !.got = Taken(p)])
    /\ UNCHANGED <<sessionVars, setups, relay>>

(* The timer of three minutes. *)
Timer(p) ==
    /\ Is(p, "sign") /\ ~ loops[p].aborted
    /\ \/ Stalled /\ UNCHANGED faults
       \/ Fails("slow")
    /\ Update(p, [loops[p] EXCEPT !.aborted = TRUE])
    /\ UNCHANGED <<setting, joined, started, device, setups, relay>>

(* Variant of InboundTimesOut: only the outbound loop looks at the signal. *)
InboundIgnoresAbort(p) == FALSE

(* The inbound loop finds the signal set before its next poll. *)
InboundTimesOut(p) ==
    /\ Inbound(p, "poll") /\ loops[p].aborted
    /\ Update(p, [loops[p] EXCEPT !.inb = "error"])
    /\ device' = [device EXCEPT ![p].why = "timeout"]
    /\ UNCHANGED <<setting, joined, started, faults, setups, relay>>

-----------------------------------------------------------------------------
BothOver(p) == Is(p, "sign") /\ loops[p].outb \in {"done", "rejected"}

(* Variant of Return: the next call goes on with the session of this one. *)
ReturnKeeping(p) ==
    /\ BothOver(p) /\ loops[p].inb = "done"
    /\ IF loops[p].step < Messages
       THEN /\ Goto(p, "setup")
            /\ Update(p, [Call(loops[p].step + 1) EXCEPT !.got = loops[p].got])
       ELSE Goto(p, "signed") /\ UNCHANGED loops
    /\ UNCHANGED <<setting, joined, started, faults, setups, relay>>

(* The signature is returned, and the next message is up. *)
Return(p) ==
    /\ BothOver(p) /\ loops[p].inb = "done"
    /\ IF loops[p].step < Messages
       THEN Goto(p, "setup") /\ Update(p, Call(loops[p].step + 1))
       ELSE Goto(p, "signed") /\ UNCHANGED loops
    /\ UNCHANGED <<setting, joined, started, faults, setups, relay>>

(* The signal is looked at once more after the last message. *)
CancelSigned(p) ==
    /\ BothOver(p) /\ loops[p].inb = "done" /\ p = Initiator /\ loops[p].step = Messages
    /\ Fails("cancel")
    /\ Throws(p, "cancel")
    /\ UNCHANGED <<setting, joined, started, signVars>>

ReturnError(p) ==
    /\ BothOver(p) /\ loops[p].inb = "error"
    /\ Throws(p, device[p].why)
    /\ UNCHANGED <<setting, joined, started, faults, signVars>>

InboundStep(p) ==
    \/ Upload(p) \/ UploadFails(p) \/ SetupArrives(p) \/ SetupTimesOut(p)
    \/ Fetch(p) \/ FetchFails(p) \/ Feed(p) \/ Timer(p) \/ InboundTimesOut(p)
    \/ Return(p) \/ CancelSigned(p) \/ ReturnError(p)

OutboundStep(p) ==
    \/ Output(p) \/ OutboundStops(p)
    \/ \E q \in Party : Post(p, q) \/ PostFails(p, q)

-----------------------------------------------------------------------------
(* Properties *)

SignTypeOK ==
    /\ setups \subseteq 1 .. Messages
    /\ relay \subseteq RelayMessage
    /\ loops \in [Party -> Loops]
    /\ \A p \in Party : /\ loops[p].batch \cup loops[p].got \subseteq Inbox(p)
                        /\ loops[p].due \subseteq Peers(p)

Signed(p, n) == Is(p, "signed") \/ loops[p].step > n

(* LockStep. A device returns the signature of a message only if every     *)
(* participant is at that message or past it: answers of an earlier call   *)
(* of keysign never pass for those of a later one.                         *)
LockStep ==
    \A p \in started, n \in 1 .. Messages :
        Signed(p, n) => \A q \in started : loops[q].step >= n

(* Some message of p for q never got to the relay, and never will. *)
Withheld(p, n, q) ==
    /\ Signed(p, n)
    /\ \E r \in 1 .. Rounds : [of |-> MessageAt(p, n), from |-> p, to |-> q, round |-> r] \notin relay

(* A participant gave up before the session was started. *)
Gone == \E p \in started : device[p].why = "start"

(* OnlyAbortStrands. If nothing fails, a device times out in the middle of *)
(* a protocol only because one that has its signature stopped sending, or  *)
(* because a participant was gone before the protocol began.               *)
OnlyAbortStrands ==
    (\E p \in Party : device[p].why = "timeout") /\ faults = 0 =>
        \/ Gone
        \/ \E p, q \in started, n \in 1 .. Messages : p # q /\ Withheld(p, n, q)

(* SomebodySigns. When a session that was started is over, and nothing     *)
(* failed and all its participants were there, somebody has the signature  *)
(* of the first message.                                                   *)
SomebodySigns ==
    kind = "sign" /\ started # {} /\ Over /\ faults = 0 =>
        Gone \/ \E p \in started : Signed(p, 1)

(* EverybodySigns. ... and every participant has all of them.              *)
EverybodySigns ==
    kind = "sign" /\ started # {} /\ Over /\ faults = 0 =>
        Gone \/ \A p \in started : Is(p, "signed")
=============================================================================
