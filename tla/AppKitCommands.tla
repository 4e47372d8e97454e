---------------------------- MODULE AppKitCommands ----------------------------
(***************************************************************************)
(* Commands between two AppKit applications: send_command and its table of *)
(* pending commands, the dispatcher of the requester's receiver thread,    *)
(* and the dispatcher of the responder (commands.py, on receiver.py).      *)
(* Both receivers acknowledge after their handlers; the channel delivers   *)
(* at least once.  A call may also be made by a handler, on the receiver   *)
(* thread itself.                                                          *)
(***************************************************************************)
EXTENDS Naturals, FiniteSets

CONSTANTS
  Caller,         \* threads of the requester that call send_command
  Nested,         \* a handler of the requester that calls it
  MaxCalls,       \* bound: how many calls each caller makes
  MaxRuns,        \* bound: executions of a command of each caller
  MaxDisturbed,   \* bound: how many commands meet a failure
  None            \* no response

\* correlation_id is fresh for each call.
Cid == UNION {[caller : {c}, call : 1 .. MaxCalls[c]] : c \in Caller}
Job == [cid : Cid, replied : BOOLEAN]      \* a command the responder works on

ASSUME CommandAssumption ==
  /\ Nested \in Caller /\ None \notin Job
  /\ MaxCalls \in [Caller -> Nat] /\ MaxRuns \in [Caller -> Nat]
  /\ MaxDisturbed \in Nat

Response ==
  UNION {[cid : {i}, run : 1 .. MaxRuns[i.caller]] : i \in Cid}
Outcome == [kind : {"none"}] \cup [kind : {"response"}, response : Response]
NoResponse == [kind |-> "none"]     \* begun, sent, timed out or failed
ReceiverState == [pc : {"idle", "nested"}] \cup [pc : {"ack"}, response : Response]

VARIABLES
  calls,          \* how many calls each caller has begun
  caller,         \* where its current call is
  waits,          \* whether its call in progress has wait_for_response
  outcome,        \* the response its last call returned, if it did
  pending,        \* _pending: waiters by correlation_id
  outbox,         \* commands that a row of the requester's outbox, or a copy
                  \* of one that a flusher has read, may still send
  commands,       \* command deliveries queued for the responder
  runs,           \* executions of each command by its handler
  responder,      \* the command it works on
  responses,      \* response deliveries queued for the requester
  receiver,       \* the requester's receiver thread
  disturbed       \* commands that were not answered and acknowledged as they
                  \* should, or are sent again

vars == <<calls, caller, waits, outcome, pending, outbox, commands, runs, responder,
          responses, receiver, disturbed>>
requester == <<calls, caller, waits, outcome, pending>>
channel   == <<outbox, commands, responses, disturbed>>
executor  == <<runs, responder>>

Current(c)  == [caller |-> c, call |-> calls[c]]
Pending     == DOMAIN pending
Waiter      == [done : BOOLEAN, response : Response \cup {None}]
NoWaiter    == [done |-> FALSE, response |-> None]
Idle        == "idle"
CallerState == {Idle, "send", "flush", "answer", "wait", "given up"}

\* A command that a step disturbs, if it does, stays disturbed.
Disturbs(i, failed) ==
  /\ disturbed' = IF failed THEN disturbed \cup {i} ELSE disturbed
  /\ Cardinality(disturbed') <= MaxDisturbed

----------------------------------------------------------------------------
(* send_command.                                                           *)

\* faulty: the waiter is not entered before the request is sent
EntersLate(c, wait) == pending
\* The waiter is in the table before the command is sent.
Entered(c, wait) ==
  IF wait THEN [i \in Pending \cup {Current(c)'} |->
                  IF i = Current(c)' THEN NoWaiter ELSE pending[i]]
  ELSE pending

Begin(c, wait) ==
  /\ caller[c] = Idle /\ calls[c] < MaxCalls[c]
  /\ c = Nested => receiver.pc = "idle"   \* it takes a delivery
  /\ calls' = [calls EXCEPT ![c] = @ + 1]
  /\ pending' = Entered(c, wait)
  /\ caller' = [caller EXCEPT ![c] = "send"] /\ waits' = [waits EXCEPT ![c] = wait]
  /\ outcome' = [outcome EXCEPT ![c] = NoResponse]
  /\ receiver' = IF c = Nested THEN [pc |-> "nested"] ELSE receiver
  /\ UNCHANGED <<channel, executor>>

\* finally: the waiter leaves the table however the call ends.
Removed(c, o) == [i \in Pending \ {Current(c)} |-> pending[i]]

End(c, o) ==
  /\ pending' = Removed(c, o)
  /\ outcome' = [outcome EXCEPT ![c] = o]
  /\ caller' = [caller EXCEPT ![c] = Idle] /\ waits' = [waits EXCEPT ![c] = FALSE]
  /\ receiver' = IF c = Nested THEN [pc |-> "idle"] ELSE receiver

\* send_type has returned: the call goes on to wait, or is over.
Proceed(c) ==
  IF waits[c] THEN /\ caller' = [caller EXCEPT ![c] = "wait"]
                   /\ UNCHANGED <<waits, pending, outcome, receiver>>
  ELSE End(c, NoResponse)

\* Mode "queued" flushes the row it has written, mode "background" leaves it to
\* the worker.
Enqueue(c) ==
  /\ caller[c] = "send"
  /\ outbox' = outbox \cup {Current(c)}
  /\ \/ /\ caller' = [caller EXCEPT ![c] = "flush"]
        /\ UNCHANGED <<waits, pending, outcome, receiver>>
     \/ Proceed(c)
  /\ UNCHANGED <<calls, commands, responses, disturbed, executor>>

\* The request reaches the relay, in mode "direct" or out of the row.
Transmit(c) ==
  /\ caller[c] \in {"send", "flush"}
  /\ caller' = [caller EXCEPT ![c] = "answer"]
  /\ commands' = commands \cup {Current(c)}
  /\ UNCHANGED <<calls, waits, outcome, pending, outbox, responses, disturbed, executor,
                 receiver>>

\* What becomes of the row: it is deleted or a dead letter, or stays to be sent
\* later.  One that stays although the relay has the command, because the answer
\* was lost or because the worker has read it, may be sent twice.
SettleRow(c) ==
  /\ outbox' \in {outbox, outbox \ {Current(c)}}
  /\ Disturbs(Current(c), caller[c] = "answer" /\ Current(c) \in outbox')
  /\ UNCHANGED <<calls, commands, responses, executor>>

\* send_type returns in mode "direct" only with an answer; in mode "queued" also
\* when the request failed, which send_command does not look at.
Returns(c) == caller[c] \in {"flush", "answer"} /\ Proceed(c) /\ SettleRow(c)

\* It raises: the lost answer of mode "direct", or a failing statement.
Raises(c) ==
  /\ caller[c] \in {"send", "flush", "answer"}
  /\ End(c, NoResponse) /\ SettleRow(c)

Send(c) == Enqueue(c) \/ Transmit(c) \/ Returns(c) \/ Raises(c)

\* event.wait returns: the response has been set.
Answered(c) ==
  /\ caller[c] = "wait" /\ Current(c) \in Pending /\ pending[Current(c)].done
  /\ End(c, [kind |-> "response", response |-> pending[Current(c)].response])
  /\ UNCHANGED <<calls, channel, executor>>

\* faulty: no timeout
WaitsForever(c) == FALSE
Unanswered(c) == Current(c) \in Pending => ~pending[Current(c)].done

\* It returns without one: timeout_seconds are over.  The waiter is still in
\* the table until the call has unwound.
TimesOut(c) ==
  /\ caller[c] = "wait" /\ Unanswered(c)
  /\ caller' = [caller EXCEPT ![c] = "given up"]
  /\ UNCHANGED <<calls, waits, outcome, pending, channel, executor, receiver>>

GiveUp(c) ==
  /\ caller[c] = "given up"
  /\ End(c, NoResponse)
  /\ UNCHANGED <<calls, channel, executor>>

----------------------------------------------------------------------------
(* The channel and the responder.                                          *)

\* The caller is flushing the row itself.
InFlush(i) == i = Current(i.caller) /\ caller[i.caller] \in {"flush", "answer"}

\* The worker sends the command and deletes the row, or keeps it because the
\* answer is lost; in the caller's own flush the command is sent by both.
OutboxSends(i) ==
  /\ i \in outbox
  /\ commands' = commands \cup {i} /\ outbox' \in {outbox, outbox \ {i}}
  /\ Disturbs(i, i \in outbox' \/ InFlush(i))
  /\ UNCHANGED <<requester, responses, executor, receiver>>

\* The row ends as a dead letter, or stays "sending".
OutboxDrops(i) ==
  /\ i \in outbox /\ outbox' = outbox \ {i}
  /\ UNCHANGED <<requester, commands, responses, disturbed, executor, receiver>>

\* _handle_command: the handler returns, or raises, or the command has none;
\* each is answered.
Execute(i) ==
  /\ responder = None /\ i \in commands /\ runs[i] < MaxRuns[i.caller]
  /\ runs' = [runs EXCEPT ![i] = @ + 1]
  /\ responder' = [cid |-> i, replied |-> FALSE]
  /\ UNCHANGED <<requester, channel, receiver>>

\* faulty: the correlation_id of another command
Mixed(i) == [i EXCEPT !.caller = CHOOSE c \in Caller : c # i.caller]
\* get_correlation_id(packet.headers)
CorrelationOf(i) == i

\* ctx.reply: a direct send of a packet of its own.
Reply ==
  /\ responder # None /\ ~responder.replied
  /\ responses' = responses \cup
       {[cid |-> CorrelationOf(responder.cid), run |-> runs[responder.cid]]}
  /\ responder' = [responder EXCEPT !.replied = TRUE]
  /\ UNCHANGED <<requester, outbox, commands, disturbed, runs, receiver>>

\* faulty: the delivery stays queued
NotRetired(i) == commands
Retired(i) == commands \ {i}

AckCommand ==
  /\ responder # None /\ responder.replied
  /\ commands' = Retired(responder.cid)
  /\ responder' = None
  /\ UNCHANGED <<requester, outbox, responses, disturbed, runs, receiver>>

\* The reply raises, the ACK is lost or the process stops: the delivery is
\* not acknowledged and comes again.
Disturb ==
  /\ responder # None
  /\ Disturbs(responder.cid, TRUE)
  /\ responder' = None
  /\ UNCHANGED <<requester, outbox, commands, responses, runs, receiver>>

----------------------------------------------------------------------------
(* The requester's receiver: _handle_response, then the ACK.               *)

\* One thread takes one delivery at a time and runs its handlers.
ReceiverFree == receiver.pc = "idle"

HandleResponse(r) ==
  /\ ReceiverFree /\ r \in responses
  /\ pending' = IF r.cid \in Pending
                THEN [pending EXCEPT ![r.cid] = [done |-> TRUE, response |-> r]]
                ELSE pending
  /\ receiver' = [pc |-> "ack", response |-> r]
  /\ UNCHANGED <<calls, caller, waits, outcome, channel, executor>>

\* Acknowledged, or lost and delivered again.
AckResponse(acked) ==
  /\ receiver.pc = "ack"
  /\ responses' = IF acked THEN responses \ {receiver.response} ELSE responses
  /\ receiver' = [pc |-> "idle"]
  /\ UNCHANGED <<requester, outbox, commands, disturbed, executor>>

----------------------------------------------------------------------------
Init ==
  /\ calls = [c \in Caller |-> 0] /\ caller = [c \in Caller |-> Idle]
  /\ waits = [c \in Caller |-> FALSE] /\ outcome = [c \in Caller |-> NoResponse]
  /\ pending = [i \in {} |-> NoWaiter]
  /\ outbox = {} /\ commands = {} /\ responses = {}
  /\ runs = [i \in Cid |-> 0] /\ disturbed = {}
  /\ responder = None /\ receiver = [pc |-> "idle"]

Step(c) == Send(c) \/ Answered(c) \/ TimesOut(c) \/ GiveUp(c)
Respond == (\E i \in Cid : Execute(i)) \/ Reply \/ AckCommand

Next ==
  \/ \E c \in Caller : (\E wait \in BOOLEAN : Begin(c, wait)) \/ Step(c)
  \/ \E i \in Cid : OutboxSends(i) \/ OutboxDrops(i)
  \/ Respond \/ Disturb
  \/ \E r \in responses : HandleResponse(r)
  \/ \E acked \in BOOLEAN : AckResponse(acked)

Spec == Init /\ [][Next]_vars

\* Threads go on, requests end and waits end at their timeout.  Nothing is asked
\* of the outbox, of the responder or of the receiver.
FairSpec == Spec /\ \A c \in Caller : WF_vars(Step(c))

----------------------------------------------------------------------------
TypeOK ==
  /\ (\A c \in Caller : calls[c] \in 0 .. MaxCalls[c])
  /\ caller \in [Caller -> CallerState] /\ waits \in [Caller -> BOOLEAN]
  /\ outcome \in [Caller -> Outcome]
  /\ Pending \subseteq Cid /\ \A i \in Pending : pending[i] \in Waiter
  /\ outbox \subseteq Cid /\ commands \subseteq Cid
  /\ (\A i \in Cid : runs[i] \in 0 .. MaxRuns[i.caller])
  /\ responder \in Job \cup {None}
  /\ responses \subseteq Response /\ disturbed \subseteq Cid
  /\ receiver \in ReceiverState

\* What send_command returns is the response to this very call, whatever late
\* and repeated responses to earlier calls arrive, and the command has been
\* executed for it.
ResponsesMatch ==
  \A c \in Caller : outcome[c].kind = "response" =>
    LET r == outcome[c].response
    IN r.cid = Current(c) /\ r.run \in 1 .. runs[r.cid]

\* A response finds no waiter only when its call is over: none is dropped by
\* a race with the call that waits for it.
NoneDroppedEarly ==
  [][\A r \in responses : HandleResponse(r) /\ r.cid \notin Pending =>
       LET c == r.cid.caller
       IN r.cid.call # calls[c] \/ ~waits[c]]_vars

\* The table holds the calls in progress and nothing else, so that calls that
\* fail or time out do not fill it.
PendingExact ==
  Pending = {Current(c) : c \in {x \in Caller : waits[x]}}

\* A command is executed again only for a reason: its reply, its ACK or the
\* responder's process failed, the answer to its sending was lost so that its row
\* stayed, or caller and worker both had the row in hand.  Nothing else in a call
\* repeats it.
RepeatedForAReason == \A i \in Cid : runs[i] > 1 => i \in disturbed

\* A handler that waits for a response on the receiver thread never gets it:
\* nobody else takes deliveries (appkit/README.md asks for "an active receive
\* loop or receiver thread while waiting").
NestedStarves == outcome[Nested].kind # "response"

\* The table of waiters, the responses handed to them and the thread that hands
\* them over, together.
CommandsInv == TypeOK /\ ResponsesMatch /\ PendingExact /\ NestedStarves

\* Every call ends, a nested one by its timeout.
CallsEnd == \A c \in Caller : caller[c] # Idle ~> caller[c] = Idle
=============================================================================
