---------------------------- MODULE AppKitDelivery ----------------------------
(***************************************************************************)
(* A packet's whole way between two AppKit applications: the outbox of the *)
(* sender (AppKitOutbox), the queue of the relay, and the receiver of the  *)
(* destination (receiver.py) with its handlers, its inbox store and its    *)
(* ACK policy.  The relay keeps a packet id for as long as its delivery:   *)
(* after the ACK it has forgotten it.                                      *)
(***************************************************************************)
EXTENDS AppKitOutbox, Sequences, SequencesExt

CONSTANTS
  AckPolicy,      \* the values of the setting ack_policy
  PollLimit,      \* poll_limit: how many deliveries one poll returns
  MaxDeliveries,  \* bound: deliveries the relay creates of one packet
  MaxFaults       \* bound: answers of ACKs lost, receivers stopped

ASSUME DeliveryAssumption ==
  /\ AckPolicy \subseteq {"after_handler_success", "after_store", "always", "manual"}
  /\ PollLimit \in Nat \ {0} /\ MaxDeliveries \in Nat /\ MaxFaults \in Nat

VARIABLES
  policy,         \* ack_policy of the receiving application
  queue,          \* the relay's deliveries for it, oldest first
  created,        \* how many the relay has created of each packet
  receiver,       \* where poll_once is, with the batch it works through
  inbox,          \* inbox.sqlite3: the deliveries stored
  handled,        \* how often all handlers of a packet have succeeded
  lapsed,         \* packets given up: dead letters, expired, ACKed as failed
  disturbed,      \* packets with a lost answer, a stop or overlapping sends
  faults

relay    == <<queue, created>>
app      == <<policy, receiver, inbox, handled>>
allVars  == <<vars, relay, app, lapsed, disturbed, faults>>
HandledCap == 2

Delivery == [packet : Packet, id : 1 .. MaxDeliveries]
Off      == [pc |-> "off"]       \* no loop runs: not started, or it has ended
Polling  == [pc |-> "polling"]   \* poll_forever is at its call of poll_once
ReceiverState ==
  {Off, Polling} \cup [pc : {"next", "ack early", "handle", "ack", "ack failed"},
                  batch : Seq(Delivery) \ {<<>>}]

Queued(p)   == \E i \in DOMAIN queue : queue[i].packet = p
Current     == Head(receiver.batch)
Goto(pc)    == receiver' = [receiver EXCEPT !.pc = pc]

\* The loop of poll_once goes on with the next delivery, or returns.
Advance == receiver' = IF Len(receiver.batch) = 1 THEN Polling
                       ELSE [pc |-> "next", batch |-> Tail(receiver.batch)]

\* poll_forever has no handler for exceptions: the first one ends the loop, and
\* with it the receiver's thread.  What was polled and not acknowledged is still
\* queued at the relay.
Raise == receiver' = Off

----------------------------------------------------------------------------
(* The outbox against the relay's queue.                                   *)

\* Another request is out for the packet, or its row is gone: the sender
\* works from an old copy.
Overlapping(f, p) ==
  \/ RowsOf(p) = {}
  \/ \E g \in Flusher \ {f} : flusher[g].pc = "call" /\ flusher[g].entry.packet = p

\* The relay takes a packet id it has no packet of, which is answered
\* "accepted", and answers "duplicate" for one it has.
Submit(f) ==
  /\ RelayAccepts(f)
  /\ LET p == flusher[f].entry.packet
     IN IF Queued(p) THEN UNCHANGED <<relay, disturbed>>
        ELSE /\ created[p] < MaxDeliveries
             /\ created' = [created EXCEPT ![p] = @ + 1]
             /\ queue' = Append(queue, [packet |-> p, id |-> created'[p]])
             /\ disturbed' = IF Overlapping(f, p) THEN disturbed \cup {p} ELSE disturbed
  /\ UNCHANGED <<app, lapsed, faults>>

\* The steps of AppKitOutbox that the relay does not see.  A packet that the
\* outbox marks as a dead letter is given up; a request that fails although
\* the relay has accepted it has lost its answer.
DeadNow == {r.packet : r \in {s \in rows' : s.status = "dead_letter"}}

OutboxStep ==
  /\ \/ \E f \in Flusher, mode \in {"queued", "background"}, p \in Packet,
           retry \in Policy, max \in MaxAttempts, expires \in BOOLEAN :
          SendType(f, mode, p, retry, max, expires)
     \/ \E f \in Flusher : \/ SelectDue(f) \/ Lookup(f) \/ DropExpired(f)
                           \/ StartSending(f) \/ Delivered(f)
     \/ \E p \in Packet : BackoffElapses(p) \/ Expire(p)
  /\ lapsed' = lapsed \cup DeadNow
  /\ UNCHANGED <<relay, app, disturbed, faults>>

SendFails(f) ==
  /\ \E classification \in {"retryable", "permanent"} : Failed(f, classification)
  /\ lapsed' = lapsed \cup DeadNow
  /\ disturbed' = IF flusher[f].answered
                  THEN disturbed \cup {flusher[f].entry.packet} ELSE disturbed
  /\ UNCHANGED <<relay, app, faults>>

FlusherStops(f) ==
  /\ Interrupt(f)
  /\ disturbed' = IF flusher[f].pc = "call"
                  THEN disturbed \cup {flusher[f].entry.packet} ELSE disturbed
  /\ UNCHANGED <<relay, app, lapsed, faults>>

\* The lifetime the relay gave the packet ends, and cleanup removes it.
RelayExpires(p) ==
  /\ \E i \in DOMAIN queue : queue[i].packet = p /\ queue' = RemoveAt(queue, i)
  /\ lapsed' = lapsed \cup {p}
  /\ UNCHANGED <<vars, created, app, disturbed, faults>>

----------------------------------------------------------------------------
(* The receiver: poll_once and _handle_delivery.                           *)

\* The application calls poll_forever, poll_once or start_receiver_thread.
Start ==
  /\ receiver = Off /\ receiver' = Polling
  /\ UNCHANGED <<vars, relay, policy, inbox, handled, lapsed, disturbed, faults>>

\* The loop ends between two deliveries: stop() was called, or poll_inbox raises
\* because the relay cannot be reached.
LoopEnds ==
  /\ receiver = Polling /\ Raise
  /\ UNCHANGED <<vars, relay, policy, inbox, handled, lapsed, disturbed, faults>>

Poll ==
  /\ receiver = Polling /\ queue # <<>>
  /\ receiver' = [pc |-> "next",
                  batch |-> SubSeq(queue, 1, Min({PollLimit, Len(queue)}))]
  /\ UNCHANGED <<vars, relay, policy, inbox, handled, lapsed, disturbed, faults>>

\* after_store writes the packet to inbox.sqlite3 and acknowledges it before
\* the handlers run.
Begin ==
  /\ receiver.pc = "next"
  /\ IF policy = "after_store"
     THEN inbox' = inbox \cup {Current} /\ Goto("ack early")
     ELSE inbox' = inbox /\ Goto("handle")
  /\ UNCHANGED <<vars, relay, policy, handled, lapsed, disturbed, faults>>

NeverAck == {"next"}                     \* faulty: leaves every delivery queued
\* What follows the handlers when they succeed.
AfterHandlers ==
  CASE policy \in {"after_handler_success", "always"} -> {"ack"}
    [] policy = "manual"                              -> {"ack", "next"}
    [] policy = "after_store"                         -> {"next"}

\* The dispatcher and all handlers return.  Under manual the handler has
\* called ctx.ack() as its last act, or never does.
HandleOk ==
  /\ receiver.pc = "handle"
  /\ handled' = [handled EXCEPT ![Current.packet] = IF @ < HandledCap THEN @ + 1 ELSE @]
  /\ \E pc \in AfterHandlers : IF pc = "next" THEN Advance ELSE Goto(pc)
  /\ UNCHANGED <<vars, relay, policy, inbox, lapsed, disturbed, faults>>

AckedAnyway == receiver' = [receiver EXCEPT !.pc = "ack"]  \* faulty: finally
\* Where an exception of a handler leads: always acknowledges first.
AfterFailure == IF policy = "always" THEN Goto("ack failed") ELSE Raise

HandleFails ==
  /\ receiver.pc = "handle"
  /\ AfterFailure
  /\ UNCHANGED <<vars, relay, policy, inbox, handled, lapsed, disturbed, faults>>

InQueue(d) == \E i \in DOMAIN queue : queue[i] = d
Retire(d)  == \E i \in DOMAIN queue : queue[i] = d /\ queue' = RemoveAt(queue, i)

\* What follows an ACK the relay has answered.
AfterAck ==
  CASE receiver.pc = "ack early"  -> Goto("handle")
    [] receiver.pc = "ack"        -> Advance
    [] receiver.pc = "ack failed" -> Raise

\* client.ack_delivery: the relay removes the delivery with its packet.
Ack ==
  /\ receiver.pc \in {"ack early", "ack", "ack failed"}
  /\ Retire(Current)
  /\ AfterAck
  /\ lapsed' = IF receiver.pc = "ack failed" THEN lapsed \cup {Current.packet} ELSE lapsed
  /\ UNCHANGED <<vars, created, policy, inbox, handled, disturbed, faults>>

\* The delivery is gone (404): an exception like any other.
AckMissing ==
  /\ receiver.pc \in {"ack early", "ack", "ack failed"} /\ ~InQueue(Current)
  /\ Raise
  /\ UNCHANGED <<vars, relay, policy, inbox, handled, lapsed, disturbed, faults>>

\* The request or its answer is lost.
AckLost ==
  /\ receiver.pc \in {"ack early", "ack", "ack failed"} /\ InQueue(Current)
  /\ faults < MaxFaults /\ faults' = faults + 1
  /\ \/ UNCHANGED <<queue, lapsed>>
     \/ /\ Retire(Current)
        /\ lapsed' = IF receiver.pc = "ack failed" THEN lapsed \cup {Current.packet} ELSE lapsed
  /\ disturbed' = disturbed \cup {Current.packet}
  /\ Raise
  /\ UNCHANGED <<vars, created, policy, inbox, handled>>

\* The process of the receiver stops in the middle of a batch.
ReceiverStops ==
  /\ receiver \notin {Off, Polling}
  /\ faults < MaxFaults /\ faults' = faults + 1
  /\ disturbed' = disturbed \cup {Current.packet}
  /\ receiver' = Off
  /\ UNCHANGED <<vars, relay, policy, inbox, handled, lapsed>>

----------------------------------------------------------------------------
DeliveryInit ==
  /\ Init
  /\ policy \in AckPolicy
  /\ queue = <<>> /\ created = [p \in Packet |-> 0] /\ receiver = Off /\ inbox = {}
  /\ handled = [p \in Packet |-> 0]
  /\ lapsed = {} /\ disturbed = {} /\ faults = 0

Acknowledge == Ack \/ AckMissing \/ AckLost
Receive == Poll \/ Begin \/ HandleOk \/ HandleFails \/ Acknowledge

DeliveryNext ==
  \/ OutboxStep
  \/ \E f \in Flusher : Submit(f) \/ SendFails(f) \/ FlusherStops(f)
  \/ \E p \in Packet : RelayExpires(p)
  \/ Receive \/ Start \/ LoopEnds \/ ReceiverStops

DeliverySpec == DeliveryInit /\ [][DeliveryNext]_allVars

\* A loop that runs goes on, through handlers that return or raise, until it
\* ends.  Nobody has to start another.
ReceiverFairness == WF_allVars(Receive)

\* The worker flushes for ever, its loop catches every exception, requests end,
\* the relay is reachable again and again, and time passes.
OutboxFairness ==
  /\ WF_allVars(SelectDue(Worker) /\ OutboxStep)
  /\ \A f \in Flusher :
       /\ SF_allVars(Submit(f))
       /\ WF_allVars((Flush(f) /\ OutboxStep) \/ SendFails(f))
  /\ \A p \in Packet : WF_allVars(BackoffElapses(p) /\ OutboxStep)

FairDeliverySpec == DeliverySpec /\ ReceiverFairness /\ OutboxFairness

----------------------------------------------------------------------------
DeliveryTypeOK ==
  /\ TypeOK
  /\ policy \in AckPolicy /\ created \in [Packet -> 0 .. MaxDeliveries]
  /\ queue \in Seq(Delivery) /\ receiver \in ReceiverState
  /\ inbox \subseteq Delivery /\ handled \in [Packet -> 0 .. HandledCap]
  /\ lapsed \subseteq Packet /\ disturbed \subseteq Packet
  /\ faults \in 0 .. MaxFaults

\* The packets the receiving application has taken: stored under after_store,
\* handled under the other policies.
Taken == {p \in Packet : IF policy = "after_store" THEN \E d \in inbox : d.packet = p
                         ELSE handled[p] > 0}

\* The packets the outbox still means to send, or the relay has queued.
Held == {p \in Packet : \/ \E r \in RowsOf(p) : r.status # "dead_letter"
                        \/ Queued(p)}

Promise == INSTANCE AtLeastOnce
             WITH Message <- Packet, given <- enqueued, held <- Held, taken <- Taken

\* README.md: "Delivery is at least once".  Outbox, relay and receiver keep
\* that promise together: in every interleaving of retries, lost answers,
\* expiry, stops and ACK policies a packet is in somebody's custody until it
\* is taken or given up.
KeepsPromise == Promise!Spec

\* A packet is handled a second time for a reason only: an answer was lost,
\* a process stopped in the middle, senders overlapped, or the application
\* acknowledges by hand.
RepeatedForAReason ==
  \A p \in Packet : handled[p] > 1 => p \in disturbed \/ policy = "manual"

\* The state keeps its type, and receiver and relay repeat nothing without a
\* reason.
DeliveryInv == DeliveryTypeOK /\ RepeatedForAReason

\* Every packet handed to the outbox is taken or given up in the end, unless
\* a flusher was stopped in the middle or the receiver's loop has ended: one
\* raising handler, failed poll or lost answer of an ACK ends it, and nothing in
\* the AppKit starts another.  A loop that is started again and lives takes what
\* is left.
EventuallyTaken ==
  \A p \in Packet :
    p \in enqueued ~> (p \in Taken \cup lapsed \/ interrupts > 0 \/ receiver = Off)
=============================================================================
