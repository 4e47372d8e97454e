---------------------------- MODULE AppKitOutbox ----------------------------
(***************************************************************************)
(* The durable outbox of the AppKit: SQLiteOutbox in outbox.py, with the   *)
(* send_type and the outbox worker of app.py that drive it.  Each of its   *)
(* SQL statements is a transaction of its own; between them a flusher      *)
(* works from the row it has read.  Flushers are threads, of one process   *)
(* or of several (the worker, a caller of send_type, flush-outbox from the *)
(* command line).  Time is what it does to a row: its backoff elapses, its *)
(* lifetime ends.                                                          *)
(***************************************************************************)
EXTENDS Naturals, FiniteSets, FiniteSetsExt

CONSTANTS
  Packet,          \* the packets to send, by packet_id
  Flusher,         \* threads that flush the outbox
  Worker,          \* the flusher whose loop calls flush_outbox for ever
  Policy,          \* the retry policies applications choose
  MaxAttempts,     \* the max_attempts they choose
  Unlimited,       \* None: no limit on the attempts
  AttemptCap,      \* bound: attempts are counted up to it
  MaxInterrupts    \* bound: how often a flusher is interrupted

ASSUME FlusherAssumption == Worker \in Flusher
ASSUME PolicyAssumption ==
  /\ Policy \subseteq {"none", "bounded", "until_expired", "forever"}
  /\ Unlimited \notin Nat
  /\ MaxAttempts \subseteq Nat \cup {Unlimited}
  /\ AttemptCap \in Nat \ {0} /\ MaxInterrupts \in Nat

VARIABLES
  rows,            \* the table: a set of rows
  enqueued,        \* the packets given to the outbox so far
  life,            \* of each packet, by its expires_at: never, to come, over
  flusher,         \* what each flusher is doing
  accepted,        \* the packets the relay has accepted at some time
  sends,           \* how many requests were made for each packet
  shared,          \* history: packets that two flushers had in hand at once
  interrupts

vars == <<rows, enqueued, life, flusher, accepted, sends, shared, interrupts>>

Status == {"queued", "sending", "failed", "dead_letter"}
Row    == [packet : Packet, status : Status, attempts : 0 .. AttemptCap,
           max : Nat \cup {Unlimited}, due : BOOLEAN]
Life   == {"endless", "limited", "over"}

\* A flusher looks its packet up, works through the rows it has read, or has
\* a request out for one of them.
FlusherState ==
  [pc : {"idle"}] \cup [pc : {"lookup"}, packet : Packet]
  \cup [pc : {"batch"}, todo : SUBSET Row]
  \cup [pc : {"call"}, todo : SUBSET Row, entry : Row, answered : BOOLEAN]

Idle == [pc |-> "idle"]
Batch(todo) == IF todo = {} THEN Idle ELSE [pc |-> "batch", todo |-> todo]
More(n) == IF n < AttemptCap THEN n + 1 ELSE n

----------------------------------------------------------------------------
(* enqueue, with the normalisation of the retry policy.                    *)

MaxAttemptsOf(policy, max) ==
  CASE policy = "none"    -> 1
    [] policy = "forever" -> Unlimited
    [] OTHER              -> max

\* expires_after_seconds is None or 0, or gives the packet a limited life.
LifeOf(policy, expires) ==
  IF expires /\ policy # "forever" THEN "limited" ELSE "endless"

Enqueue(p, policy, max, expires) ==
  /\ p \notin enqueued
  /\ enqueued' = enqueued \cup {p}
  /\ life' = [life EXCEPT ![p] = LifeOf(policy, expires)]
  /\ rows' = rows \cup {[packet |-> p, status |-> "queued", attempts |-> 0,
                         max |-> MaxAttemptsOf(policy, max), due |-> TRUE]}

\* send_type: delivery_mode "queued" goes on to flush the packet, while
\* "background" leaves it to the worker, whose own loop only flushes.
SendType(f, mode, p, policy, max, expires) ==
  /\ f # Worker /\ flusher[f] = Idle
  /\ Enqueue(p, policy, max, expires)
  /\ flusher' = IF mode = "queued"
                THEN [flusher EXCEPT ![f] = [pc |-> "lookup", packet |-> p]]
                ELSE flusher
  /\ UNCHANGED <<accepted, sends, shared, interrupts>>

----------------------------------------------------------------------------
(* flush_due and flush_packet.                                             *)

AnyStatus(r) == r.due                    \* faulty: selects dead letters as well
Due(r) == r.status \in {"queued", "failed"} /\ r.due

\* A flusher has a packet in hand from the step that selects or looks up its
\* row to the one that writes the result: nothing in between tells others.
InHand(f) ==
  CASE flusher[f].pc = "idle"   -> {}
    [] flusher[f].pc = "lookup" -> {flusher[f].packet}
    [] flusher[f].pc = "batch"  -> {e.packet : e \in flusher[f].todo}
    [] flusher[f].pc = "call"   -> {e.packet : e \in flusher[f].todo \cup {flusher[f].entry}}

SelectDue(f) ==
  /\ flusher[f] = Idle
  /\ \E r \in rows : Due(r)
  /\ flusher' = [flusher EXCEPT ![f] = Batch({r \in rows : Due(r)})]
  /\ shared' = shared \cup
       {r.packet : r \in {s \in rows : Due(s) /\ \E g \in Flusher : s.packet \in InHand(g)}}
  /\ UNCHANGED <<rows, enqueued, life, accepted, sends, interrupts>>

\* get_by_packet_id takes the row whatever its status.
Lookup(f) ==
  /\ flusher[f].pc = "lookup"
  /\ flusher' = [flusher EXCEPT ![f] =
                   Batch({r \in rows : r.packet = flusher[f].packet})]
  /\ UNCHANGED <<rows, enqueued, life, accepted, sends, shared, interrupts>>

\* UPDATE ... WHERE outbox_id: no effect on a row that is gone.
Update(p, status, attempts, due) ==
  {IF r.packet = p
   THEN [r EXCEPT !.status = status, !.attempts = attempts, !.due = due]
   ELSE r : r \in rows}
DeadLetter(p, attempts) == Update(p, "dead_letter", attempts, TRUE)

\* expires_at is fixed at enqueue, so that a stale copy has it as well.
Expired(e) == life[e.packet] = "over"

\* _mark_dead_letter without attempts leaves the column as it is.
DropExpired(f) ==
  /\ flusher[f].pc = "batch"
  /\ \E e \in flusher[f].todo :
       /\ Expired(e)
       /\ rows' = {IF r.packet = e.packet
                   THEN [r EXCEPT !.status = "dead_letter", !.due = TRUE]
                   ELSE r : r \in rows}
       /\ flusher' = [flusher EXCEPT ![f] = Batch(@.todo \ {e})]
  /\ UNCHANGED <<enqueued, life, accepted, sends, shared, interrupts>>

\* Marks the row "sending", with the attempts of the copy, and sends.
StartSending(f) ==
  /\ flusher[f].pc = "batch"
  /\ \E e \in flusher[f].todo :
       /\ ~Expired(e)
       /\ rows' = Update(e.packet, "sending", e.attempts, TRUE)
       /\ flusher' = [flusher EXCEPT ![f] =
                        [pc |-> "call", todo |-> @.todo \ {e}, entry |-> e,
                         answered |-> FALSE]]
       /\ sends' = [sends EXCEPT ![e.packet] = More(@)]
  /\ UNCHANGED <<enqueued, life, accepted, shared, interrupts>>

\* The relay accepts the packet, or already has it.
RelayAccepts(f) ==
  /\ flusher[f].pc = "call" /\ ~flusher[f].answered
  /\ accepted' = accepted \cup {flusher[f].entry.packet}
  /\ flusher' = [flusher EXCEPT ![f].answered = TRUE]
  /\ UNCHANGED <<rows, enqueued, life, sends, shared, interrupts>>

Assumed(f) == TRUE                       \* faulty: deletes before the answer
\* client.send_packet returns: "accepted" or "duplicate".
Confirmed(f) == flusher[f].answered

Delivered(f) ==
  /\ flusher[f].pc = "call" /\ Confirmed(f)
  /\ rows' = {r \in rows : r.packet # flusher[f].entry.packet}
  /\ flusher' = [flusher EXCEPT ![f] = Batch(@.todo)]
  /\ UNCHANGED <<enqueued, life, accepted, sends, shared, interrupts>>

RetryOnceMore(e, attempts) ==            \* faulty: off by one
  /\ e.max # Unlimited => attempts <= e.max
  /\ ~Expired(e)
CanRetry(e, attempts) ==
  /\ e.max # Unlimited => attempts < e.max
  /\ ~Expired(e)

LeftSending(p, attempts) == rows         \* faulty: the row keeps its status
\* _backoff_seconds is 0 for the first retry only.
Requeued(p, attempts) == Update(p, "queued", attempts, attempts <= 1)

\* send_packet raises, whether or not the relay has accepted the packet: the
\* answer may be lost (retryable) or unreadable (a ValueError, permanent).
Failed(f, classification) ==
  /\ flusher[f].pc = "call"
  /\ LET e == flusher[f].entry
         attempts == More(e.attempts)
     IN rows' = IF classification = "retryable" /\ CanRetry(e, attempts)
                THEN Requeued(e.packet, attempts)
                ELSE DeadLetter(e.packet, attempts)
  /\ flusher' = [flusher EXCEPT ![f] = Batch(@.todo)]
  /\ UNCHANGED <<enqueued, life, accepted, sends, shared, interrupts>>

----------------------------------------------------------------------------
(* The environment.                                                        *)

BackoffElapses(p) ==
  /\ \E r \in rows : r.packet = p /\ ~r.due
  /\ rows' = {IF r.packet = p THEN [r EXCEPT !.due = TRUE] ELSE r : r \in rows}
  /\ UNCHANGED <<enqueued, life, flusher, accepted, sends, shared, interrupts>>

Expire(p) ==
  /\ life[p] = "limited"
  /\ life' = [life EXCEPT ![p] = "over"]
  /\ UNCHANGED <<rows, enqueued, flusher, accepted, sends, shared, interrupts>>

\* The flusher's process stops and is started again, or a statement of its
\* fails (the database stays locked), which ends the flush.
Interrupt(f) ==
  /\ interrupts < MaxInterrupts
  /\ flusher[f] # Idle
  /\ interrupts' = interrupts + 1
  /\ flusher' = [flusher EXCEPT ![f] = Idle]
  /\ UNCHANGED <<rows, enqueued, life, accepted, sends, shared>>

----------------------------------------------------------------------------
(* The specification.                                                      *)

Init ==
  /\ rows = {} /\ enqueued = {} /\ accepted = {} /\ shared = {}
  /\ life = [p \in Packet |-> "endless"]
  /\ flusher = [f \in Flusher |-> Idle]
  /\ sends = [p \in Packet |-> 0]
  /\ interrupts = 0

Flush(f) ==
  \/ Lookup(f) \/ DropExpired(f) \/ StartSending(f)
  \/ Delivered(f)
  \/ \E classification \in {"retryable", "permanent"} : Failed(f, classification)

Next ==
  \/ \E f \in Flusher, mode \in {"queued", "background"}, p \in Packet,
        policy \in Policy, max \in MaxAttempts, expires \in BOOLEAN :
       SendType(f, mode, p, policy, max, expires)
  \/ \E f \in Flusher : SelectDue(f) \/ Flush(f) \/ RelayAccepts(f) \/ Interrupt(f)
  \/ \E p \in Packet : BackoffElapses(p) \/ Expire(p)

Spec == Init /\ [][Next]_vars

\* The worker keeps flushing, a flush that has begun goes on (a request ends by
\* its timeout at the latest), and time passes.
Fairness ==
  /\ WF_vars(SelectDue(Worker))
  /\ \A f \in Flusher : WF_vars(Flush(f))
  /\ \A p \in Packet : WF_vars(BackoffElapses(p)) /\ WF_vars(Expire(p))

FairSpec == Spec /\ Fairness

----------------------------------------------------------------------------
(* Properties.                                                             *)

TypeOK ==
  /\ rows \subseteq Row
  /\ enqueued \subseteq Packet /\ accepted \subseteq Packet
  /\ shared \subseteq Packet
  /\ life \in [Packet -> Life]
  /\ flusher \in [Flusher -> FlusherState]
  /\ sends \in [Packet -> 0 .. AttemptCap]
  /\ interrupts \in 0 .. MaxInterrupts

RowsOf(p) == {r \in rows : r.packet = p}
Sending(p) == \E f \in Flusher : flusher[f].pc = "call" /\ flusher[f].entry.packet = p

\* A packet leaves the outbox only after the relay has accepted it, however
\* flushers overlap and wherever they are interrupted.
NothingLost == \A p \in enqueued : RowsOf(p) = {} => p \in accepted

\* A row says "sending" only while a request for it is out, but for one row
\* per interruption: flushers that overlap strand nothing by themselves.
StrandedOnlyByInterrupts ==
  Cardinality({p \in Packet : /\ \E r \in RowsOf(p) : r.status = "sending"
                              /\ ~Sending(p)}) <= interrupts

\* A packet is sent at most max_attempts times, with a limit of 0 once, unless
\* two flushers once had it in hand together: the one that writes last sets the
\* attempts back to its copy's.
AttemptsWithinLimit ==
  \A r \in rows : r.max # Unlimited /\ r.packet \notin shared =>
    sends[r.packet] <= IF r.max = 0 THEN 1 ELSE r.max

\* A dead letter stays one ("Dead-lettered packets remain in outbox.sqlite3",
\* apis/appkit/README.md:237).  It does not hold: a flusher with an older copy
\* of the row sends it again, and deletes it.
DeadLettersRemain ==
  [][\A r \in rows : r.status = "dead_letter" =>
       \E s \in rows' : s.packet = r.packet /\ s.status = "dead_letter"]_vars

\* What does hold: only a flusher that shared the packet with another brings a
\* dead letter back.  One flusher alone never does, wherever it is interrupted,
\* and nor do two that merely follow each other.
RevivedOnlyByOverlap ==
  [][\A r \in rows : r.status = "dead_letter" /\ r.packet \notin shared =>
       \E s \in rows' : s.packet = r.packet /\ s.status = "dead_letter"]_vars

Limited(p) == life[p] # "endless" \/ \E r \in RowsOf(p) : r.max # Unlimited
Settled(p) == \A r \in RowsOf(p) : r.status = "dead_letter"

\* A packet whose attempts or lifetime are limited is delivered or ends as a
\* dead letter, unless its flusher is interrupted.
EntriesSettle ==
  \A p \in Packet : Limited(p) ~> (Settled(p) \/ interrupts > 0)

\* The same in spite of interruptions: the queued mode is for when "the process
\* might exit soon after sending" (apis/appkit/README.md).
EntriesSettleDurably == \A p \in Packet : Limited(p) ~> Settled(p)
=============================================================================
