------------------------ MODULE AppKitDelivery_proofs ------------------------
(***************************************************************************)
(* First the outbox alone: it loses nothing and strands nothing by itself, *)
(* for any number of packets, of overlapping flushers and of               *)
(* interruptions; and of a packet that no two of them had in hand together *)
(* it keeps to max_attempts and leaves the dead letter alone.              *)
(*                                                                         *)
(* Then outbox, relay queue and receiver together: they implement the      *)
(* at-least-once channel, and handle a packet twice for a reason only.     *)
(* The composition implements the outbox, so that what was proved of the   *)
(* outbox alone holds in it.                                               *)
(***************************************************************************)
EXTENDS AppKitDelivery, FiniteSetTheorems, SequenceTheorems, TLAPS

USE PolicyAssumption

----------------------------------------------------------------------------
(* The states of a flusher and the writes to the table.                    *)

LEMMA BatchType ==
  ASSUME NEW todo, todo \subseteq Row
  PROVE  /\ Batch(todo) \in FlusherState
         /\ Batch(todo).pc \in {"idle", "batch"}
  BY DEF Batch, Idle, FlusherState

LEMMA BatchTodo ==
  ASSUME NEW f \in Flusher, flusher \in [Flusher -> FlusherState],
         flusher[f].pc = "batch"
  PROVE  flusher[f].todo \subseteq Row
  BY DEF FlusherState

LEMMA CallEntry ==
  ASSUME NEW f \in Flusher, flusher \in [Flusher -> FlusherState],
         flusher[f].pc = "call"
  PROVE  flusher[f].todo \subseteq Row /\ flusher[f].entry \in Row
  BY DEF FlusherState

LEMMA MoreType == \A n \in 0 .. AttemptCap : More(n) \in 0 .. AttemptCap
  BY DEF More

\* The update of a packet's row keeps the table's type and every row.
LEMMA UpdateRows ==
  ASSUME NEW p, NEW status \in Status, NEW attempts \in 0 .. AttemptCap,
         NEW due \in BOOLEAN, rows \subseteq Row
  PROVE  /\ Update(p, status, attempts, due) \subseteq Row
         /\ {r.packet : r \in Update(p, status, attempts, due)}
              = {r.packet : r \in rows}
<1> DEFINE New(r) == IF r.packet = p
                     THEN [r EXCEPT !.status = status, !.attempts = attempts,
                                    !.due = due]
                     ELSE r
<1>1. \A r \in rows : New(r) \in Row /\ New(r).packet = r.packet
  BY DEF Row
<1>2. Update(p, status, attempts, due) = {New(r) : r \in rows}
  BY DEF Update
<1> HIDE DEF New
<1> QED
  BY <1>1, <1>2

----------------------------------------------------------------------------
(* The invariant.                                                          *)

\* Every packet that was given to the outbox has a row or was accepted, and an
\* answer to a request means that the relay has accepted its packet.
OutboxInv ==
  /\ TypeOK
  /\ \A f \in Flusher : flusher[f].pc = "call" /\ flusher[f].answered
                          => flusher[f].entry.packet \in accepted
  /\ enqueued \subseteq {r.packet : r \in rows} \cup accepted

LEMMA OutboxInvInit == Init => OutboxInv
  BY DEF Init, OutboxInv, TypeOK, FlusherState, Idle, Life

LEMMA OutboxInvNext ==
  ASSUME OutboxInv, [Next]_vars
  PROVE  OutboxInv'
<1> USE DEF OutboxInv
\* A step of one flusher, after which it has no answered request.
<1> DEFINE Moves(f, s) == /\ flusher' = [flusher EXCEPT ![f] = s]
                          /\ s \in FlusherState
                          /\ s.pc = "call" => ~s.answered
<1>moves. ASSUME NEW f \in Flusher, NEW s, Moves(f, s), UNCHANGED accepted
          PROVE  /\ flusher' \in [Flusher -> FlusherState]
                 /\ \A g \in Flusher : flusher'[g].pc = "call" /\ flusher'[g].answered
                                         => flusher'[g].entry.packet \in accepted'
  BY <1>moves DEF TypeOK
<1>batch. ASSUME NEW todo, todo \subseteq Row
          PROVE  /\ Batch(todo) \in FlusherState
                 /\ Batch(todo).pc = "call" => ~Batch(todo).answered
  BY <1>batch, BatchType
<1>1. ASSUME NEW f \in Flusher, NEW mode, NEW p \in Packet, NEW retry \in Policy,
             NEW max \in MaxAttempts, NEW expires \in BOOLEAN,
             SendType(f, mode, p, retry, max, expires)
      PROVE  OutboxInv'
  <2> DEFINE row == [packet |-> p, status |-> "queued", attempts |-> 0,
                     max |-> MaxAttemptsOf(retry, max), due |-> TRUE]
  <2>1. MaxAttemptsOf(retry, max) \in Nat \cup {Unlimited}
    BY DEF MaxAttemptsOf
  <2>2. row \in Row /\ row.packet = p
    BY <2>1 DEF Row, Status
  <2>3. rows' = rows \cup {row} /\ enqueued' = enqueued \cup {p}
    BY <1>1 DEF SendType, Enqueue
  <2>4. life' \in [Packet -> Life]
    BY <1>1 DEF SendType, Enqueue, LifeOf, Life, TypeOK
  <2>5. \/ flusher' = flusher
        \/ flusher' = [flusher EXCEPT ![f] = [pc |-> "lookup", packet |-> p]]
    BY <1>1 DEF SendType
  <2>6. [pc |-> "lookup", packet |-> p] \in FlusherState
    BY DEF FlusherState
  <2>7. flusher' \in [Flusher -> FlusherState]
    BY <2>5, <2>6 DEF TypeOK
  <2>8. \A g \in Flusher : flusher'[g].pc = "call" => flusher'[g] = flusher[g]
    BY <2>5 DEF TypeOK
  <2>9. UNCHANGED <<accepted, sends, shared, interrupts>>
    BY <1>1 DEF SendType
  <2> HIDE DEF row
  <2>10. TypeOK'
    BY <2>2, <2>3, <2>4, <2>7, <2>9 DEF TypeOK
  <2>11. enqueued' \subseteq {r.packet : r \in rows'} \cup accepted'
    BY <2>2, <2>3, <2>9
  <2> QED
    BY <2>8, <2>9, <2>10, <2>11
<1>2. ASSUME NEW f \in Flusher, SelectDue(f) PROVE OutboxInv'
  <2>1. Moves(f, Batch({r \in rows : Due(r)}))
    BY <1>2, <1>batch DEF SelectDue, TypeOK
  <2>2. shared' \subseteq Packet
    BY <1>2 DEF SelectDue, TypeOK, Row
  <2> QED
    BY <1>2, <2>1, <2>2, <1>moves DEF SelectDue, TypeOK
<1>3. ASSUME NEW f \in Flusher, Lookup(f) PROVE OutboxInv'
  <2>1. Moves(f, Batch({r \in rows : r.packet = flusher[f].packet}))
    BY <1>3, <1>batch DEF Lookup, TypeOK
  <2> QED
    BY <1>3, <2>1, <1>moves DEF Lookup, TypeOK
<1>4. ASSUME NEW f \in Flusher, DropExpired(f) PROVE OutboxInv'
  <2>1. PICK e \in flusher[f].todo :
          /\ rows' = {IF r.packet = e.packet
                      THEN [r EXCEPT !.status = "dead_letter", !.due = TRUE]
                      ELSE r : r \in rows}
          /\ flusher' = [flusher EXCEPT ![f] = Batch(flusher[f].todo \ {e})]
    BY <1>4 DEF DropExpired, TypeOK
  <2>2. Moves(f, Batch(flusher[f].todo \ {e}))
    BY <1>4, <2>1, <1>batch, BatchTodo DEF DropExpired, TypeOK
  <2> DEFINE New(r) == IF r.packet = e.packet
                       THEN [r EXCEPT !.status = "dead_letter", !.due = TRUE]
                       ELSE r
  <2>3. \A r \in rows : New(r) \in Row /\ New(r).packet = r.packet
    BY DEF Row, Status, TypeOK
  <2>4. rows' = {New(r) : r \in rows}
    BY <2>1
  <2> HIDE DEF New
  <2>5. rows' \subseteq Row /\ {r.packet : r \in rows'} = {r.packet : r \in rows}
    BY <2>3, <2>4
  <2>6. UNCHANGED <<enqueued, life, accepted, sends, shared, interrupts>>
    BY <1>4 DEF DropExpired
  <2> QED
    BY <2>2, <2>5, <2>6, <1>moves DEF TypeOK
<1>5. ASSUME NEW f \in Flusher, StartSending(f) PROVE OutboxInv'
  <2>1. PICK e \in flusher[f].todo :
          /\ rows' = Update(e.packet, "sending", e.attempts, TRUE)
          /\ flusher' = [flusher EXCEPT ![f] =
                           [pc |-> "call", todo |-> flusher[f].todo \ {e},
                            entry |-> e, answered |-> FALSE]]
          /\ sends' = [sends EXCEPT ![e.packet] = More(sends[e.packet])]
    BY <1>5 DEF StartSending, TypeOK
  <2>2. flusher[f].todo \subseteq Row
    BY <1>5, BatchTodo DEF StartSending, TypeOK
  <2>3. e \in Row /\ e.packet \in Packet /\ e.attempts \in 0 .. AttemptCap
    BY <2>2 DEF Row
  <2> DEFINE s == [pc |-> "call", todo |-> flusher[f].todo \ {e}, entry |-> e,
                   answered |-> FALSE]
  <2>4. s \in FlusherState /\ ~s.answered
    BY <2>2, <2>3 DEF FlusherState
  <2> HIDE DEF s
  <2>5. Moves(f, s)
    BY <2>1, <2>4 DEF s
  <2>6. rows' \subseteq Row /\ {r.packet : r \in rows'} = {r.packet : r \in rows}
    BY <2>1, <2>3, UpdateRows DEF Status, TypeOK
  <2>7. sends' \in [Packet -> 0 .. AttemptCap]
    BY <2>1, <2>3, MoreType DEF TypeOK
  <2>8. UNCHANGED <<enqueued, life, accepted, shared, interrupts>>
    BY <1>5 DEF StartSending
  <2> QED
    BY <2>5, <2>6, <2>7, <2>8, <1>moves DEF TypeOK
<1>6. ASSUME NEW f \in Flusher, RelayAccepts(f) PROVE OutboxInv'
  <2> DEFINE Call == [pc : {"call"}, todo : SUBSET Row, entry : Row,
                      answered : BOOLEAN]
  <2>1. flusher[f] \in Call
    BY <1>6 DEF RelayAccepts, TypeOK, FlusherState
  <2>2. \A s \in Call : /\ [s EXCEPT !.answered = TRUE] \in Call
                        /\ [s EXCEPT !.answered = TRUE].entry = s.entry
    OBVIOUS
  <2>3. flusher'[f] = [flusher[f] EXCEPT !.answered = TRUE]
    BY <1>6 DEF RelayAccepts, TypeOK
  <2>4. flusher'[f] \in Call /\ flusher'[f].entry = flusher[f].entry
    BY <2>1, <2>2, <2>3
  <2>5. \A g \in Flusher : g # f => flusher'[g] = flusher[g]
    BY <1>6 DEF RelayAccepts, TypeOK
  <2>6. flusher' \in [Flusher -> FlusherState]
    BY <1>6, <2>4, <2>5 DEF RelayAccepts, TypeOK, FlusherState
  <2>7. /\ accepted' = accepted \cup {flusher[f].entry.packet}
        /\ UNCHANGED <<rows, enqueued, life, sends, shared, interrupts>>
    BY <1>6 DEF RelayAccepts
  <2>8. flusher[f].entry.packet \in Packet
    BY <2>1 DEF Row
  <2> HIDE DEF Call
  <2> QED
    BY <2>4, <2>5, <2>6, <2>7, <2>8 DEF TypeOK
<1>7. ASSUME NEW f \in Flusher, Delivered(f) PROVE OutboxInv'
  <2>1. Moves(f, Batch(flusher[f].todo))
    BY <1>7, <1>batch, CallEntry DEF Delivered, TypeOK
  <2>2. flusher[f].entry.packet \in accepted
    BY <1>7 DEF Delivered, Confirmed
  <2>3. {r.packet : r \in rows} \subseteq
          {r.packet : r \in rows'} \cup {flusher[f].entry.packet}
    BY <1>7 DEF Delivered
  <2>4. rows' \subseteq rows /\ UNCHANGED <<enqueued, life, accepted, sends, shared, interrupts>>
    BY <1>7 DEF Delivered
  <2> QED
    BY <2>1, <2>2, <2>3, <2>4, <1>moves DEF TypeOK
<1>8. ASSUME NEW f \in Flusher, NEW c, Failed(f, c) PROVE OutboxInv'
  <2> DEFINE e == flusher[f].entry
             n == More(e.attempts)
  <2>1. Moves(f, Batch(flusher[f].todo))
    BY <1>8, <1>batch, CallEntry DEF Failed, TypeOK
  <2>2. e \in Row /\ e.attempts \in 0 .. AttemptCap
    BY <1>8, CallEntry DEF Failed, TypeOK, Row
  <2>3. n \in 0 .. AttemptCap
    BY <2>2, MoreType
  <2>4. \/ rows' = Update(e.packet, "queued", n, n <= 1)
        \/ rows' = Update(e.packet, "dead_letter", n, TRUE)
    BY <1>8 DEF Failed, Requeued, DeadLetter
  <2> HIDE DEF e, n
  <2>5. rows' \subseteq Row /\ {r.packet : r \in rows'} = {r.packet : r \in rows}
    <3>1. CASE rows' = Update(e.packet, "queued", n, n <= 1)
      <4>1. (n <= 1) \in BOOLEAN /\ "queued" \in Status /\ rows \subseteq Row
        BY DEF Status, TypeOK
      <4> QED
        BY ONLY <2>3, <3>1, <4>1, UpdateRows
    <3>2. CASE rows' = Update(e.packet, "dead_letter", n, TRUE)
      BY <2>3, <3>2, UpdateRows DEF Status, TypeOK
    <3> QED
      BY <2>4, <3>1, <3>2
  <2>6. UNCHANGED <<enqueued, life, accepted, sends, shared, interrupts>>
    BY <1>8 DEF Failed
  <2> QED
    BY <2>1, <2>5, <2>6, <1>moves DEF TypeOK
<1>9. ASSUME NEW p \in Packet, BackoffElapses(p) PROVE OutboxInv'
  <2> DEFINE New(r) == IF r.packet = p THEN [r EXCEPT !.due = TRUE] ELSE r
  <2>1. \A r \in rows : New(r) \in Row /\ New(r).packet = r.packet
    BY DEF Row, TypeOK
  <2>2. rows' = {New(r) : r \in rows}
    BY <1>9 DEF BackoffElapses
  <2> HIDE DEF New
  <2>3. rows' \subseteq Row /\ {r.packet : r \in rows'} = {r.packet : r \in rows}
    BY <2>1, <2>2
  <2> QED
    BY <1>9, <2>3 DEF BackoffElapses, TypeOK
<1>10. ASSUME NEW p \in Packet, Expire(p) PROVE OutboxInv'
  BY <1>10 DEF Expire, TypeOK, Life
<1>11. ASSUME NEW f \in Flusher, Interrupt(f) PROVE OutboxInv'
  <2>1. Moves(f, Idle)
    BY <1>11 DEF Interrupt, Idle, FlusherState
  <2>2. interrupts' \in 0 .. MaxInterrupts
    BY <1>11 DEF Interrupt, TypeOK
  <2> QED
    BY <1>11, <2>1, <2>2, <1>moves DEF Interrupt, TypeOK
<1>12. CASE UNCHANGED vars
  BY <1>12 DEF vars, TypeOK
<1> HIDE DEF OutboxInv
<1>13. CASE Next
  BY <1>13, <1>1, <1>2, <1>3, <1>4, <1>5, <1>6, <1>7, <1>8, <1>9, <1>10, <1>11
     DEF Next, Flush
<1> QED
  BY <1>12, <1>13

\* What a flusher holds matches the table, whatever overlaps or is interrupted: the
\* inductive invariant of the outbox.
THEOREM OutboxInvariance == Spec => []OutboxInv
  BY OutboxInvInit, OutboxInvNext, PTL DEF Spec

\* Type correctness of the outbox.
THEOREM OutboxTypeCorrect == Spec => []TypeOK
<1>1. OutboxInv => TypeOK
  BY DEF OutboxInv
<1> QED
  BY <1>1, OutboxInvariance, PTL

\* A packet leaves the outbox only after the relay has accepted it, whichever
\* flushers overlap and whenever they are interrupted.
THEOREM NothingIsLost == Spec => []NothingLost
<1>1. OutboxInv => NothingLost
  BY DEF OutboxInv, NothingLost, RowsOf
<1> QED
  BY <1>1, OutboxInvariance, PTL

----------------------------------------------------------------------------
(* What a step does to the packets that have a row, to those that have one *)
(* with work left, and to the dead letters.                                *)

PacketsIn(R) == {r.packet : r \in R}
LiveIn(R) == {r.packet : r \in {s \in R : s.status # "dead_letter"}}
DeadIn(R) == {r.packet : r \in {s \in R : s.status = "dead_letter"}}

\* R is the table with another status for the packet p.
Restated(R, p, status) ==
  /\ \A r \in rows : \E s \in R :
       s.packet = r.packet /\ s.status = IF r.packet = p THEN status ELSE r.status
  /\ \A s \in R : \E r \in rows :
       s.packet = r.packet /\ s.status = IF r.packet = p THEN status ELSE r.status

LEMMA UpdateRestates ==
  ASSUME rows \subseteq Row, NEW p, NEW status, NEW attempts, NEW due
  PROVE  Restated(Update(p, status, attempts, due), p, status)
<1> DEFINE New(r) == IF r.packet = p
                     THEN [r EXCEPT !.status = status, !.attempts = attempts,
                                    !.due = due]
                     ELSE r
<1>1. \A r \in rows : /\ New(r).packet = r.packet
                      /\ New(r).status = IF r.packet = p THEN status ELSE r.status
  BY DEF Row
<1>2. Update(p, status, attempts, due) = {New(r) : r \in rows}
  BY DEF Update
<1> HIDE DEF New
<1> QED
  BY <1>1, <1>2 DEF Restated

LEMMA RestatedSets ==
  ASSUME NEW R, NEW p, NEW status, Restated(R, p, status)
  PROVE  /\ PacketsIn(R) = PacketsIn(rows)
         /\ status = "dead_letter" =>
              /\ LiveIn(R) = LiveIn(rows) \ {p}
              /\ DeadIn(R) = DeadIn(rows) \cup ({p} \cap PacketsIn(rows))
         /\ status # "dead_letter" =>
              /\ LiveIn(R) = LiveIn(rows) \cup ({p} \cap PacketsIn(rows))
              /\ DeadIn(R) = DeadIn(rows) \ {p}
<1>1. PacketsIn(R) = PacketsIn(rows)
  BY DEF Restated, PacketsIn
<1>2. ASSUME status = "dead_letter"
      PROVE  /\ LiveIn(R) = LiveIn(rows) \ {p}
             /\ DeadIn(R) = DeadIn(rows) \cup ({p} \cap PacketsIn(rows))
  <2>1. \A q : q \in LiveIn(R) <=> q \in LiveIn(rows) \ {p}
    BY <1>2 DEF Restated, LiveIn
  <2>2. \A q : q \in DeadIn(R) <=> q \in DeadIn(rows) \cup ({p} \cap PacketsIn(rows))
    BY <1>2 DEF Restated, DeadIn, PacketsIn
  <2> QED
    BY <2>1, <2>2
<1>3. ASSUME status # "dead_letter"
      PROVE  /\ LiveIn(R) = LiveIn(rows) \cup ({p} \cap PacketsIn(rows))
             /\ DeadIn(R) = DeadIn(rows) \ {p}
  <2>1. \A q : q \in LiveIn(R) <=> q \in LiveIn(rows) \cup ({p} \cap PacketsIn(rows))
    BY <1>3 DEF Restated, LiveIn, PacketsIn
  <2>2. \A q : q \in DeadIn(R) <=> q \in DeadIn(rows) \ {p}
    BY <1>3 DEF Restated, DeadIn
  <2> QED
    BY <2>1, <2>2
<1> QED
  BY <1>1, <1>2, <1>3

\* The packet is given up, taken up again, or was sent.
GivenUp(p) ==
  /\ PacketsIn(rows') = PacketsIn(rows)
  /\ LiveIn(rows') = LiveIn(rows) \ {p}
  /\ DeadIn(rows') = DeadIn(rows) \cup ({p} \cap PacketsIn(rows))
TakenUp(p) ==
  /\ PacketsIn(rows') = PacketsIn(rows)
  /\ LiveIn(rows') = LiveIn(rows) \cup ({p} \cap PacketsIn(rows))
  /\ DeadIn(rows') = DeadIn(rows) \ {p}
Gone(p) ==
  /\ PacketsIn(rows') = PacketsIn(rows) \ {p}
  /\ LiveIn(rows') = LiveIn(rows) \ {p}
  /\ DeadIn(rows') = DeadIn(rows) \ {p}
Added(p) ==
  /\ PacketsIn(rows') = PacketsIn(rows) \cup {p}
  /\ LiveIn(rows') = LiveIn(rows) \cup {p}
  /\ DeadIn(rows') = DeadIn(rows)
SameSets ==
  /\ PacketsIn(rows') = PacketsIn(rows)
  /\ LiveIn(rows') = LiveIn(rows)
  /\ DeadIn(rows') = DeadIn(rows)

LEMMA RestatedStep ==
  ASSUME NEW p, NEW status, Restated(rows', p, status)
  PROVE  /\ status = "dead_letter" => GivenUp(p)
         /\ status # "dead_letter" => TakenUp(p)
  BY RestatedSets DEF GivenUp, TakenUp

LEMMA EnqueueAdds ==
  ASSUME NEW p, NEW retry, NEW max, NEW expires, Enqueue(p, retry, max, expires)
  PROVE  p \notin enqueued /\ enqueued' = enqueued \cup {p} /\ Added(p)
<1> DEFINE row == [packet |-> p, status |-> "queued", attempts |-> 0,
                   max |-> MaxAttemptsOf(retry, max), due |-> TRUE]
<1>1. rows' = rows \cup {row} /\ row.packet = p /\ row.status = "queued"
  BY DEF Enqueue
<1> HIDE DEF row
<1>2. \A q : q \in DeadIn(rows') <=> q \in DeadIn(rows)
  BY <1>1 DEF DeadIn
<1>3. \A q : q \in LiveIn(rows') <=> q \in LiveIn(rows) \cup {p}
  BY <1>1 DEF LiveIn
<1>4. \A q : q \in PacketsIn(rows') <=> q \in PacketsIn(rows) \cup {p}
  BY <1>1 DEF PacketsIn
<1> QED
  BY <1>2, <1>3, <1>4 DEF Enqueue, Added

LEMMA DropGivesUp ==
  ASSUME TypeOK, NEW f \in Flusher, DropExpired(f)
  PROVE  \E e \in flusher[f].todo : GivenUp(e.packet)
<1>1. PICK e \in flusher[f].todo :
        rows' = {IF r.packet = e.packet
                 THEN [r EXCEPT !.status = "dead_letter", !.due = TRUE]
                 ELSE r : r \in rows}
  BY DEF DropExpired
<1> DEFINE New(r) == IF r.packet = e.packet
                     THEN [r EXCEPT !.status = "dead_letter", !.due = TRUE]
                     ELSE r
<1>2. \A r \in rows : /\ New(r).packet = r.packet
                      /\ New(r).status = IF r.packet = e.packet THEN "dead_letter" ELSE r.status
  BY DEF TypeOK, Row
<1>3. rows' = {New(r) : r \in rows}
  BY <1>1
<1> HIDE DEF New
<1>4. Restated(rows', e.packet, "dead_letter")
  BY <1>2, <1>3 DEF Restated
<1> QED
  BY <1>4, RestatedStep

LEMMA StartTakesUp ==
  ASSUME TypeOK, NEW f \in Flusher, StartSending(f)
  PROVE  \E e \in flusher[f].todo : TakenUp(e.packet)
<1>1. PICK e \in flusher[f].todo : rows' = Update(e.packet, "sending", e.attempts, TRUE)
  BY DEF StartSending
<1>2. Restated(rows', e.packet, "sending")
  BY <1>1, UpdateRestates DEF TypeOK
<1> QED
  BY <1>2, RestatedStep

LEMMA FailedRestates ==
  ASSUME TypeOK, NEW f \in Flusher, NEW c, Failed(f, c)
  PROVE  GivenUp(flusher[f].entry.packet) \/ TakenUp(flusher[f].entry.packet)
<1> DEFINE p == flusher[f].entry.packet
<1>1. \E n, due : \/ rows' = Update(p, "queued", n, due)
                  \/ rows' = Update(p, "dead_letter", n, due)
  BY DEF Failed, Requeued, DeadLetter
<1>2. Restated(rows', p, "queued") \/ Restated(rows', p, "dead_letter")
  BY <1>1, UpdateRestates DEF TypeOK
<1> QED
  BY <1>2, RestatedStep

LEMMA DeliveredGone ==
  ASSUME NEW f \in Flusher, Delivered(f)
  PROVE  Gone(flusher[f].entry.packet)
<1> DEFINE p == flusher[f].entry.packet
<1>1. rows' = {r \in rows : r.packet # p}
  BY DEF Delivered
<1> HIDE DEF p
<1>2. \A q : /\ q \in PacketsIn(rows') <=> q \in PacketsIn(rows) \ {p}
             /\ q \in LiveIn(rows') <=> q \in LiveIn(rows) \ {p}
             /\ q \in DeadIn(rows') <=> q \in DeadIn(rows) \ {p}
  BY <1>1 DEF PacketsIn, LiveIn, DeadIn
<1> QED
  BY <1>2 DEF Gone, p

LEMMA BackoffSame ==
  ASSUME TypeOK, NEW p \in Packet, BackoffElapses(p)
  PROVE  SameSets
<1> DEFINE New(r) == IF r.packet = p THEN [r EXCEPT !.due = TRUE] ELSE r
<1>1. \A r \in rows : New(r).packet = r.packet /\ New(r).status = r.status
  BY DEF TypeOK, Row
<1>2. rows' = {New(r) : r \in rows}
  BY DEF BackoffElapses
<1> HIDE DEF New
<1>3. \A q : /\ q \in PacketsIn(rows') <=> q \in PacketsIn(rows)
             /\ q \in LiveIn(rows') <=> q \in LiveIn(rows)
             /\ q \in DeadIn(rows') <=> q \in DeadIn(rows)
  BY <1>1, <1>2 DEF PacketsIn, LiveIn, DeadIn
<1> QED
  BY <1>3 DEF SameSets

----------------------------------------------------------------------------
(* Flushers hold rows of packets that were given to the outbox.            *)

Mine(s) ==
  /\ s.pc = "lookup" => s.packet \in enqueued
  /\ s.pc \in {"batch", "call"} => \A e \in s.todo : e.packet \in enqueued
  /\ s.pc = "call" => s.entry.packet \in enqueued

EntriesEnqueued ==
  /\ PacketsIn(rows) \subseteq enqueued
  /\ accepted \subseteq enqueued
  /\ \A f \in Flusher : Mine(flusher[f])

LEMMA BatchMine ==
  ASSUME NEW todo, \A e \in todo : e.packet \in enqueued
  PROVE  Mine(Batch(todo))
  BY DEF Mine, Batch, Idle

LEMMA EntriesEnqueuedNext ==
  ASSUME TypeOK, EntriesEnqueued, [Next]_vars
  PROVE  EntriesEnqueued'
<1>1. ASSUME NEW f \in Flusher, NEW s, Mine(s), UNCHANGED enqueued,
             flusher' = [flusher EXCEPT ![f] = s]
      PROVE  \A g \in Flusher : Mine(flusher[g])'
  BY <1>1 DEF TypeOK, EntriesEnqueued, Mine
<1>2. ASSUME NEW f \in Flusher, NEW mode, NEW p \in Packet, NEW retry, NEW max, NEW expires,
             SendType(f, mode, p, retry, max, expires)
      PROVE  EntriesEnqueued'
  <2>1. enqueued' = enqueued \cup {p} /\ Added(p)
    BY <1>2, EnqueueAdds DEF SendType
  <2>2. \A g \in Flusher : \/ flusher'[g] = flusher[g]
                           \/ flusher'[g] = [pc |-> "lookup", packet |-> p]
    BY <1>2 DEF SendType, TypeOK
  <2>3. \A g \in Flusher : Mine(flusher[g])'
    BY <2>1, <2>2 DEF EntriesEnqueued, Mine
  <2> QED
    BY <1>2, <2>1, <2>3 DEF EntriesEnqueued, Added, SendType
<1>3. ASSUME NEW f \in Flusher, SelectDue(f) PROVE EntriesEnqueued'
  <2>1. Mine(Batch({r \in rows : Due(r)}))
    BY BatchMine DEF EntriesEnqueued, PacketsIn
  <2> QED
    BY <1>1, <1>3, <2>1 DEF SelectDue, EntriesEnqueued
<1>4. ASSUME NEW f \in Flusher, Lookup(f) PROVE EntriesEnqueued'
  <2>1. Mine(Batch({r \in rows : r.packet = flusher[f].packet}))
    BY BatchMine DEF EntriesEnqueued, PacketsIn
  <2> QED
    BY <1>1, <1>4, <2>1 DEF Lookup, EntriesEnqueued
<1>5. ASSUME NEW f \in Flusher, DropExpired(f) PROVE EntriesEnqueued'
  <2>1. PICK e : flusher' = [flusher EXCEPT ![f] = Batch(flusher[f].todo \ {e})]
    BY <1>5 DEF DropExpired, TypeOK
  <2>2. Mine(Batch(flusher[f].todo \ {e}))
    BY <1>5, BatchMine DEF EntriesEnqueued, Mine, DropExpired
  <2>3. PacketsIn(rows') = PacketsIn(rows)
    BY <1>5, DropGivesUp DEF GivenUp
  <2> QED
    BY <1>1, <1>5, <2>1, <2>2, <2>3 DEF DropExpired, EntriesEnqueued
<1>6. ASSUME NEW f \in Flusher, StartSending(f) PROVE EntriesEnqueued'
  <2>1. PICK e \in flusher[f].todo :
          flusher' = [flusher EXCEPT ![f] =
                        [pc |-> "call", todo |-> flusher[f].todo \ {e}, entry |-> e,
                         answered |-> FALSE]]
    BY <1>6 DEF StartSending, TypeOK
  <2>2. Mine([pc |-> "call", todo |-> flusher[f].todo \ {e}, entry |-> e,
              answered |-> FALSE])
    BY <1>6 DEF EntriesEnqueued, Mine, StartSending
  <2>3. PacketsIn(rows') = PacketsIn(rows)
    BY <1>6, StartTakesUp DEF TakenUp
  <2> QED
    BY <1>1, <1>6, <2>1, <2>2, <2>3 DEF StartSending, EntriesEnqueued
<1>7. ASSUME NEW f \in Flusher, RelayAccepts(f) PROVE EntriesEnqueued'
  <2>1. Mine([flusher[f] EXCEPT !.answered = TRUE])
    <3>1. flusher[f].entry.packet \in enqueued /\ \A e \in flusher[f].todo : e.packet \in enqueued
      BY <1>7 DEF EntriesEnqueued, Mine, RelayAccepts
    <3>2. flusher[f] \in [pc : {"call"}, todo : SUBSET Row, entry : Row, answered : BOOLEAN]
      BY <1>7 DEF RelayAccepts, TypeOK, FlusherState
    <3> QED
      BY <3>1, <3>2 DEF Mine
  <2>2. flusher' = [flusher EXCEPT ![f] = [flusher[f] EXCEPT !.answered = TRUE]]
    BY <1>7 DEF RelayAccepts, TypeOK
  <2>3. flusher[f].entry.packet \in enqueued
    BY <1>7 DEF EntriesEnqueued, Mine, RelayAccepts
  <2> QED
    BY <1>1, <1>7, <2>1, <2>2, <2>3 DEF RelayAccepts, EntriesEnqueued
<1>8. ASSUME NEW f \in Flusher, NEW c, Delivered(f) \/ Failed(f, c) PROVE EntriesEnqueued'
  <2>1. Mine(Batch(flusher[f].todo))
    BY <1>8, BatchMine DEF EntriesEnqueued, Mine, Delivered, Failed
  <2>2. PacketsIn(rows') \subseteq PacketsIn(rows)
    BY <1>8, DeliveredGone, FailedRestates DEF Gone, GivenUp, TakenUp
  <2>3. flusher' = [flusher EXCEPT ![f] = Batch(flusher[f].todo)]
    BY <1>8 DEF Delivered, Failed, TypeOK
  <2> QED
    BY <1>1, <1>8, <2>1, <2>2, <2>3 DEF Delivered, Failed, EntriesEnqueued
<1>9. ASSUME NEW p \in Packet, BackoffElapses(p) \/ Expire(p) PROVE EntriesEnqueued'
  <2>1. PacketsIn(rows') = PacketsIn(rows)
    BY <1>9, BackoffSame DEF SameSets, Expire
  <2> QED
    BY <1>9, <2>1 DEF BackoffElapses, Expire, EntriesEnqueued, Mine
<1>10. ASSUME NEW f \in Flusher, Interrupt(f) PROVE EntriesEnqueued'
  <2>1. Mine(Idle)
    BY DEF Mine, Idle
  <2> QED
    BY <1>1, <1>10, <2>1 DEF Interrupt, EntriesEnqueued
<1>11. CASE UNCHANGED vars
  BY <1>11 DEF vars, EntriesEnqueued, Mine
<1>12. CASE Next
  BY <1>12, <1>2, <1>3, <1>4, <1>5, <1>6, <1>7, <1>8, <1>9, <1>10 DEF Next, Flush
<1> QED
  BY <1>11, <1>12

----------------------------------------------------------------------------
(* What stays "sending" without a request.                                 *)

SendingRow(p) == \E r \in rows : r.packet = p /\ r.status = "sending"
Stranded == {p \in Packet : SendingRow(p) /\ ~Sending(p)}

StrandedInv ==
  /\ TypeOK
  /\ IsFiniteSet(Stranded)
  /\ Cardinality(Stranded) <= interrupts

\* A row with another status does not make its packet "sending".
LEMMA RestatedSending ==
  ASSUME NEW p, NEW status, Restated(rows', p, status)
  PROVE  \A q : SendingRow(q)' => \/ q # p /\ SendingRow(q)
                                  \/ q = p /\ status = "sending"
  BY DEF Restated, SendingRow

\* Without an interruption nothing new is stranded.
LEMMA NothingNewStranded ==
  ASSUME TypeOK, Next, UNCHANGED interrupts
  PROVE  Stranded' \subseteq Stranded
<1>1. ASSUME NEW f \in Flusher, NEW s, flusher' = [flusher EXCEPT ![f] = s],
             flusher[f].pc # "call"
      PROVE  \A q : Sending(q) => Sending(q)'
  BY <1>1 DEF Sending, TypeOK
<1>2. ASSUME NEW f \in Flusher, NEW s, flusher' = [flusher EXCEPT ![f] = s],
             flusher[f].pc = "call"
      PROVE  \A q : Sending(q) /\ q # flusher[f].entry.packet => Sending(q)'
  BY <1>2 DEF Sending, TypeOK
<1>3. ASSUME NEW f \in Flusher, NEW mode, NEW p \in Packet, NEW retry, NEW max, NEW expires,
             SendType(f, mode, p, retry, max, expires)
      PROVE  Stranded' \subseteq Stranded
  <2>1. \A q : SendingRow(q)' => SendingRow(q)
    BY <1>3 DEF SendType, Enqueue, SendingRow
  <2>2. \A q : Sending(q) => Sending(q)'
    <3>1. flusher[f].pc # "call"
      BY <1>3 DEF SendType, Idle
    <3> QED
      BY <1>1, <1>3, <3>1 DEF SendType, Sending
  <2> QED
    BY <2>1, <2>2 DEF Stranded
<1>4. ASSUME NEW f \in Flusher, SelectDue(f) \/ Lookup(f)
      PROVE  Stranded' \subseteq Stranded
  <2>1. \A q : SendingRow(q)' <=> SendingRow(q)
    BY <1>4 DEF SelectDue, Lookup, SendingRow
  <2>2. flusher[f].pc # "call" /\ \E s : flusher' = [flusher EXCEPT ![f] = s]
    BY <1>4 DEF SelectDue, Lookup, Idle
  <2> QED
    BY <1>1, <2>1, <2>2 DEF Stranded
<1>5. ASSUME NEW f \in Flusher, DropExpired(f)
      PROVE  Stranded' \subseteq Stranded
  <2>1. \A q : SendingRow(q)' => SendingRow(q)
    BY <1>5 DEF DropExpired, SendingRow, TypeOK, Row
  <2>2. flusher[f].pc # "call" /\ \E s : flusher' = [flusher EXCEPT ![f] = s]
    BY <1>5 DEF DropExpired
  <2> QED
    BY <1>1, <2>1, <2>2 DEF Stranded
<1>6. ASSUME NEW f \in Flusher, StartSending(f)
      PROVE  Stranded' \subseteq Stranded
  <2>1. PICK e \in flusher[f].todo :
          /\ rows' = Update(e.packet, "sending", e.attempts, TRUE)
          /\ flusher' = [flusher EXCEPT ![f] =
                           [pc |-> "call", todo |-> flusher[f].todo \ {e},
                            entry |-> e, answered |-> FALSE]]
    BY <1>6 DEF StartSending, TypeOK
  <2>2. \A q : SendingRow(q)' => q = e.packet \/ SendingRow(q)
    BY <2>1, UpdateRestates, RestatedSending DEF TypeOK
  <2>3. Sending(e.packet)'
    BY <2>1 DEF Sending, TypeOK
  <2>4. \A q : Sending(q) => Sending(q)'
    BY <1>1, <1>6, <2>1 DEF StartSending
  <2> QED
    BY <2>2, <2>3, <2>4 DEF Stranded
<1>7. ASSUME NEW f \in Flusher, RelayAccepts(f)
      PROVE  Stranded' \subseteq Stranded
  <2>1. \A q : Sending(q) => Sending(q)'
    <3>1. flusher[f] \in [pc : {"call"}, todo : SUBSET Row, entry : Row, answered : BOOLEAN]
      BY <1>7 DEF RelayAccepts, TypeOK, FlusherState
    <3>2. flusher'[f].pc = "call" /\ flusher'[f].entry = flusher[f].entry
      BY <1>7, <3>1 DEF RelayAccepts, TypeOK
    <3>3. \A g \in Flusher \ {f} : flusher'[g] = flusher[g]
      BY <1>7 DEF RelayAccepts, TypeOK
    <3> QED
      BY <3>2, <3>3 DEF Sending
  <2> QED
    BY <1>7, <2>1 DEF RelayAccepts, Stranded, SendingRow
<1>8. ASSUME NEW f \in Flusher, Delivered(f)
      PROVE  Stranded' \subseteq Stranded
  <2> DEFINE p == flusher[f].entry.packet
  <2>1. \A q : SendingRow(q)' => SendingRow(q) /\ q # p
    BY <1>8 DEF Delivered, SendingRow
  <2>2. \A q : Sending(q) /\ q # p => Sending(q)'
    BY <1>2, <1>8 DEF Delivered
  <2> QED
    BY <2>1, <2>2 DEF Stranded
<1>9. ASSUME NEW f \in Flusher, NEW c, Failed(f, c)
      PROVE  Stranded' \subseteq Stranded
  <2> DEFINE p == flusher[f].entry.packet
  <2>1. \E n, due : \/ rows' = Update(p, "queued", n, due)
                    \/ rows' = Update(p, "dead_letter", n, due)
    BY <1>9 DEF Failed, Requeued, DeadLetter
  <2>2. Restated(rows', p, "queued") \/ Restated(rows', p, "dead_letter")
    BY <2>1, UpdateRestates DEF TypeOK
  <2>3. \A q : SendingRow(q)' => SendingRow(q) /\ q # p
    BY <2>2, RestatedSending
  <2>4. \A q : Sending(q) /\ q # p => Sending(q)'
    BY <1>2, <1>9 DEF Failed
  <2> QED
    BY <2>3, <2>4 DEF Stranded
<1>10. ASSUME NEW p \in Packet, BackoffElapses(p) \/ Expire(p)
       PROVE  Stranded' \subseteq Stranded
  <2>1. \A q : SendingRow(q)' => SendingRow(q)
    BY <1>10 DEF BackoffElapses, Expire, SendingRow, TypeOK, Row
  <2> QED
    BY <1>10, <2>1 DEF BackoffElapses, Expire, Stranded, Sending
<1>11. ASSUME NEW f \in Flusher, Interrupt(f)
       PROVE  Stranded' \subseteq Stranded
  BY <1>11 DEF Interrupt, TypeOK
<1> QED
  BY <1>3, <1>4, <1>5, <1>6, <1>7, <1>8, <1>9, <1>10, <1>11 DEF Next, Flush

\* An interruption strands the packet of the request it ends.
LEMMA InterruptStrandsOne ==
  ASSUME TypeOK, NEW f \in Flusher, Interrupt(f)
  PROVE  \E p : Stranded' \subseteq Stranded \cup {p}
<1>1. \A g \in Flusher \ {f} : flusher'[g] = flusher[g]
  BY DEF Interrupt, TypeOK
<1>2. \A q : Sending(q) /\ q # flusher[f].entry.packet => Sending(q)'
  BY <1>1 DEF Sending
<1>3. \A q : SendingRow(q)' <=> SendingRow(q)
  BY DEF Interrupt, SendingRow
<1> QED
  BY <1>2, <1>3 DEF Stranded

LEMMA StrandedInvNext ==
  ASSUME StrandedInv, TypeOK', [Next]_vars
  PROVE  StrandedInv'
<1>1. Cardinality(Stranded) \in Nat
  BY FS_CardinalityType DEF StrandedInv
<1>2. interrupts \in Nat /\ interrupts' \in Nat
  BY DEF StrandedInv, TypeOK
<1>3. CASE Stranded' \subseteq Stranded /\ UNCHANGED interrupts
  <2>1. IsFiniteSet(Stranded') /\ Cardinality(Stranded') <= Cardinality(Stranded)
    BY <1>3, FS_Subset DEF StrandedInv
  <2>2. Cardinality(Stranded') \in Nat
    BY <2>1, FS_CardinalityType
  <2> QED
    BY <1>1, <1>2, <1>3, <2>1, <2>2 DEF StrandedInv
<1>4. ASSUME NEW f \in Flusher, Interrupt(f) PROVE StrandedInv'
  <2>1. PICK p : Stranded' \subseteq Stranded \cup {p}
    BY <1>4, InterruptStrandsOne DEF StrandedInv
  <2> DEFINE S == Stranded \cup {p}
  <2>2. IsFiniteSet(S) /\ Cardinality(S) <= Cardinality(Stranded) + 1
    <3>1. IsFiniteSet(Stranded)
      BY DEF StrandedInv
    <3>2. /\ IsFiniteSet(S)
          /\ \/ Cardinality(S) = Cardinality(Stranded)
             \/ Cardinality(S) = Cardinality(Stranded) + 1
      BY <3>1, FS_AddElement
    <3> QED
      BY <1>1, <3>2
  <2>3. IsFiniteSet(Stranded') /\ Cardinality(Stranded') <= Cardinality(S)
    BY <2>1, <2>2, FS_Subset
  <2>4. Cardinality(S) \in Nat /\ Cardinality(Stranded') \in Nat
    BY <2>2, <2>3, FS_CardinalityType
  <2>5. interrupts' = interrupts + 1
    BY <1>4 DEF Interrupt
  <2> HIDE DEF S
  <2> QED
    BY <1>1, <1>2, <2>2, <2>3, <2>4, <2>5 DEF StrandedInv
<1>5. CASE UNCHANGED vars
  <2>1. Stranded' = Stranded
    BY <1>5 DEF vars, Stranded, SendingRow, Sending
  <2> QED
    BY <1>3, <1>5, <2>1 DEF vars
<1>6. CASE Next /\ UNCHANGED interrupts
  BY <1>3, <1>6, NothingNewStranded DEF StrandedInv
<1>7. Next => UNCHANGED interrupts \/ \E f \in Flusher : Interrupt(f)
  BY DEF Next, Flush, SendType, SelectDue, Lookup, DropExpired, StartSending, RelayAccepts,
         Delivered, Failed, BackoffElapses, Expire
<1> QED
  BY <1>4, <1>5, <1>6, <1>7

\* Flushers that overlap strand nothing by themselves: a row says "sending"
\* without a request for it only once per interruption.
THEOREM StrandedExplained == Spec => []StrandedOnlyByInterrupts
<1>1. Init => StrandedInv
  <2> SUFFICES ASSUME Init PROVE StrandedInv
    OBVIOUS
  <2>1. Stranded = {}
    BY DEF Init, Stranded, SendingRow
  <2>2. TypeOK
    BY OutboxInvInit DEF OutboxInv
  <2> QED
    BY <2>1, <2>2, FS_EmptySet DEF StrandedInv, Init
<1>2. StrandedInv /\ TypeOK' /\ [Next]_vars => StrandedInv'
  BY StrandedInvNext
<1>3. StrandedInv => StrandedOnlyByInterrupts
  <2>1. Stranded = {p \in Packet : /\ \E r \in RowsOf(p) : r.status = "sending"
                                   /\ ~Sending(p)}
    BY DEF Stranded, SendingRow, RowsOf
  <2> QED
    BY <2>1 DEF StrandedInv, StrandedOnlyByInterrupts
<1> QED
  BY <1>1, <1>2, <1>3, OutboxTypeCorrect, PTL DEF Spec

----------------------------------------------------------------------------
(* A packet that no two flushers had in hand at once keeps to its limit of *)
(* attempts, and its dead letter stays: only its one holder writes its row,*)
(* from a copy that is current.                                            *)

Limit(r)   == r.max # Unlimited
Most(r)    == IF r.max = 0 THEN 1 ELSE r.max
Waiting(r) == r.status \in {"queued", "failed"}
CopyOf(e, r) == r.packet = e.packet /\ r.attempts = e.attempts /\ r.max = e.max
OnePerPacket(R) == \A r, s \in R : r.packet = s.packet => r = s

\* The places where a flusher has a packet in hand.
Todo(s)      == IF s.pc \in {"batch", "call"} THEN s.todo ELSE {}
Looks(s, p)  == s.pc = "lookup" /\ s.packet = p
InCall(s, p) == s.pc = "call" /\ s.entry.packet = p
Has(s, p)    == Looks(s, p) \/ InCall(s, p) \/ \E e \in Todo(s) : e.packet = p

\* A row that waits has counted every request for its packet, and has one left.
Counted(p) ==
  \A r \in rows : r.packet = p /\ Limit(r) =>
    /\ sends[p] <= Most(r)
    /\ Waiting(r) => sends[p] <= r.attempts /\ r.attempts < Most(r)

\* What the flusher has read of the packet is still what the table says.
CopyCurrent(s, p) ==
  /\ Looks(s, p) => \A r \in rows : r.packet = p => Waiting(r)
  /\ \A e \in Todo(s) : e.packet = p => \E r \in rows : CopyOf(e, r) /\ Waiting(r)
  /\ InCall(s, p) =>
       /\ \E r \in rows : CopyOf(s.entry, r) /\ r.status = "sending"
       /\ Limit(s.entry) => sends[p] <= s.entry.attempts + 1

OneHolder(p) == \A f, g \in Flusher : Has(flusher[f], p) /\ Has(flusher[g], p) => f = g

Unshared(p) ==
  Counted(p) /\ OneHolder(p) /\ \A f \in Flusher : CopyCurrent(flusher[f], p)

OverlapInv ==
  /\ TypeOK /\ EntriesEnqueued /\ OnePerPacket(rows)
  /\ \A p \in Packet \ enqueued : sends[p] = 0
  /\ \A f \in Flusher : OnePerPacket(Todo(flusher[f]))
  /\ \A p \in Packet \ shared : Unshared(p)

LEMMA InHandIs ==
  ASSUME TypeOK, NEW f \in Flusher, NEW p
  PROVE  p \in InHand(f) <=> Has(flusher[f], p)
<1>1. flusher[f] \in FlusherState
  BY DEF TypeOK
<1>2. CASE flusher[f].pc = "idle"
  BY <1>2 DEF InHand, Has, Looks, InCall, Todo
<1>3. CASE flusher[f].pc = "lookup"
  BY <1>3 DEF InHand, Has, Looks, InCall, Todo
<1>4. CASE flusher[f].pc = "batch"
  BY <1>4 DEF InHand, Has, Looks, InCall, Todo
<1>5. CASE flusher[f].pc = "call"
  BY <1>5 DEF InHand, Has, Looks, InCall, Todo
<1> QED
  BY <1>1, <1>2, <1>3, <1>4, <1>5 DEF FlusherState

\* R is the table, with another status and count of attempts for the packet p.
Changed(R, p, status, attempts) ==
  /\ \A s \in R : \E r \in rows :
       /\ s.packet = r.packet /\ s.max = r.max
       /\ IF r.packet = p THEN s.status = status /\ s.attempts = attempts ELSE s = r
  /\ \A r \in rows : \E s \in R :
       /\ s.packet = r.packet /\ s.max = r.max
       /\ IF r.packet = p THEN s.status = status /\ s.attempts = attempts ELSE s = r

LEMMA UpdateChanges ==
  ASSUME rows \subseteq Row, OnePerPacket(rows), NEW p, NEW status, NEW attempts, NEW due
  PROVE  /\ Changed(Update(p, status, attempts, due), p, status, attempts)
         /\ OnePerPacket(Update(p, status, attempts, due))
<1> DEFINE New(r) == IF r.packet = p
                     THEN [r EXCEPT !.status = status, !.attempts = attempts,
                                    !.due = due]
                     ELSE r
<1>1. \A r \in rows : /\ New(r).packet = r.packet /\ New(r).max = r.max
                      /\ IF r.packet = p
                         THEN New(r).status = status /\ New(r).attempts = attempts
                         ELSE New(r) = r
  BY DEF Row
<1>2. Update(p, status, attempts, due) = {New(r) : r \in rows}
  BY DEF Update
<1> HIDE DEF New
<1>3. OnePerPacket({New(r) : r \in rows})
  BY <1>1 DEF OnePerPacket
<1>4. Changed({New(r) : r \in rows}, p, status, attempts)
  BY <1>1 DEF Changed
<1> QED
  BY <1>2, <1>3, <1>4

LEMMA DropChanges ==
  ASSUME TypeOK, OnePerPacket(rows), NEW f \in Flusher, DropExpired(f)
  PROVE  \E e \in flusher[f].todo :
           /\ flusher' = [flusher EXCEPT ![f] = Batch(flusher[f].todo \ {e})]
           /\ OnePerPacket(rows')
           /\ \A r \in rows : r.packet = e.packet => Changed(rows', e.packet, "dead_letter", r.attempts)
           /\ (\A r \in rows : r.packet # e.packet) => rows' = rows
<1>1. PICK e \in flusher[f].todo :
        /\ rows' = {IF r.packet = e.packet
                    THEN [r EXCEPT !.status = "dead_letter", !.due = TRUE]
                    ELSE r : r \in rows}
        /\ flusher' = [flusher EXCEPT ![f] = Batch(flusher[f].todo \ {e})]
  BY DEF DropExpired, TypeOK
<1> DEFINE New(r) == IF r.packet = e.packet
                     THEN [r EXCEPT !.status = "dead_letter", !.due = TRUE]
                     ELSE r
<1>2. \A r \in rows : /\ New(r).packet = r.packet /\ New(r).max = r.max
                      /\ IF r.packet = e.packet
                         THEN New(r).status = "dead_letter" /\ New(r).attempts = r.attempts
                         ELSE New(r) = r
  BY DEF Row, TypeOK
<1>3. rows' = {New(r) : r \in rows}
  BY <1>1
<1> HIDE DEF New
<1>4. OnePerPacket(rows')
  BY <1>2, <1>3 DEF OnePerPacket
<1>5. ASSUME NEW r \in rows, r.packet = e.packet
      PROVE  Changed(rows', e.packet, "dead_letter", r.attempts)
  <2>1. \A s \in rows : s.packet = e.packet => s = r
    BY <1>5 DEF OnePerPacket
  <2> QED
    BY <1>2, <1>3, <2>1 DEF Changed
<1>6. (\A r \in rows : r.packet # e.packet) => rows' = rows
  BY <1>2, <1>3
<1> QED
  BY <1>1, <1>4, <1>5, <1>6

\* A packet that a step leaves alone: its rows, its requests, and what the
\* flushers have of it, but for what they let go.
Narrower(t, s, p) ==
  /\ Looks(t, p) => Looks(s, p)
  /\ \A e \in Todo(t) : e.packet = p => e \in Todo(s)
  /\ InCall(t, p) => InCall(s, p) /\ t.entry = s.entry
SameRows(p) == \A r : r.packet = p => (r \in rows <=> r \in rows')

LEMMA LeftAlone ==
  ASSUME NEW p, Unshared(p), SameRows(p), sends'[p] = sends[p],
         \A f \in Flusher : Narrower(flusher'[f], flusher[f], p)
  PROVE  Unshared(p)'
<1>1. Counted(p)'
  BY DEF Unshared, Counted, SameRows
<1>2. \A f \in Flusher : Has(flusher'[f], p) => Has(flusher[f], p)
  BY DEF Narrower, Has
<1>3. OneHolder(p)'
  BY <1>2 DEF Unshared, OneHolder
<1>4. ASSUME NEW f \in Flusher PROVE CopyCurrent(flusher[f], p)'
  <2>1. CopyCurrent(flusher[f], p) /\ Narrower(flusher'[f], flusher[f], p)
    BY DEF Unshared
  <2>2. Looks(flusher'[f], p) => \A r \in rows' : r.packet = p => Waiting(r)
    BY <2>1 DEF CopyCurrent, Narrower, SameRows
  <2>3. ASSUME NEW e \in Todo(flusher'[f]), e.packet = p
        PROVE  \E r \in rows' : CopyOf(e, r) /\ Waiting(r)
    <3>1. PICK r \in rows : CopyOf(e, r) /\ Waiting(r)
      BY <2>1, <2>3 DEF CopyCurrent, Narrower
    <3> QED
      BY <2>3, <3>1 DEF SameRows, CopyOf
  <2>4. ASSUME InCall(flusher'[f], p)
        PROVE  /\ \E r \in rows' : CopyOf(flusher'[f].entry, r) /\ r.status = "sending"
               /\ Limit(flusher'[f].entry) => sends'[p] <= flusher'[f].entry.attempts + 1
    <3>1. InCall(flusher[f], p) /\ flusher'[f].entry = flusher[f].entry
      BY <2>1, <2>4 DEF Narrower
    <3>2. PICK r \in rows : CopyOf(flusher[f].entry, r) /\ r.status = "sending"
      BY <2>1, <3>1 DEF CopyCurrent
    <3>3. r \in rows'
      BY <3>1, <3>2 DEF SameRows, CopyOf, InCall
    <3> QED
      BY <2>1, <3>1, <3>2, <3>3 DEF CopyCurrent
  <2> QED
    BY <2>2, <2>3, <2>4 DEF CopyCurrent
<1> QED
  BY <1>1, <1>3, <1>4 DEF Unshared

\* A packet that its only holder works on.
LEMMA WorkedOn ==
  ASSUME NEW p, Unshared(p), NEW f \in Flusher, Has(flusher[f], p), NEW t,
         flusher \in [Flusher -> FlusherState],
         flusher' = [flusher EXCEPT ![f] = t], Counted(p)', CopyCurrent(t, p)'
  PROVE  Unshared(p)'
<1>1. \A g \in Flusher : g # f => ~Has(flusher[g], p) /\ flusher'[g] = flusher[g]
  BY DEF Unshared, OneHolder
<1>2. flusher'[f] = t
  OBVIOUS
<1>3. OneHolder(p)'
  BY <1>1 DEF OneHolder
<1>4. \A g \in Flusher : CopyCurrent(flusher[g], p)'
  BY <1>1, <1>2 DEF CopyCurrent, Has
<1> QED
  BY <1>3, <1>4 DEF Unshared

\* The steps of a flusher that write the row of one packet, or let it go.
LEMMA BatchParts ==
  ASSUME NEW todo
  PROVE  /\ Todo(Batch(todo)) = todo
         /\ \A p : ~Looks(Batch(todo), p) /\ ~InCall(Batch(todo), p)
<1>1. CASE todo = {}
  BY <1>1 DEF Batch, Idle, Todo, Looks, InCall
<1>2. CASE todo # {}
  BY <1>2 DEF Batch, Todo, Looks, InCall
<1> QED
  BY <1>1, <1>2

\* Other packets than the one a flusher works on are left alone.
LEMMA OthersAlone ==
  ASSUME OverlapInv, NEW f \in Flusher, NEW t, NEW p, shared' = shared,
         flusher' = [flusher EXCEPT ![f] = t],
         \A q \in Packet : q # p => SameRows(q) /\ sends'[q] = sends[q],
         \A q \in Packet : q # p => Narrower(t, flusher[f], q),
         p \in Packet \ shared => Unshared(p)'
  PROVE  \A q \in Packet \ shared' : Unshared(q)'
<1> SUFFICES ASSUME NEW q \in Packet \ shared PROVE Unshared(q)'
  OBVIOUS
<1>1. CASE q = p
  BY <1>1
<1>2. CASE q # p
  <2>1. \A g \in Flusher : Narrower(flusher'[g], flusher[g], q)
    <3>1. \A g \in Flusher : g # f => flusher'[g] = flusher[g]
      BY DEF OverlapInv, TypeOK
    <3>2. flusher'[f] = t
      BY DEF OverlapInv, TypeOK
    <3> QED
      BY <1>2, <3>1, <3>2 DEF Narrower
  <2>2. SameRows(q) /\ sends'[q] = sends[q] /\ Unshared(q)
    BY <1>2 DEF OverlapInv
  <2> QED
    BY <2>1, <2>2, LeftAlone
<1> QED
  BY <1>1, <1>2

\* What is left to prove of a step once TypeOK and EntriesEnqueued are known.
Rest ==
  /\ OnePerPacket(rows)
  /\ \A p \in Packet \ enqueued : sends[p] = 0
  /\ \A f \in Flusher : OnePerPacket(Todo(flusher[f]))
  /\ \A p \in Packet \ shared : Unshared(p)
DeadStay ==
  \A r \in rows : r.status = "dead_letter" /\ r.packet \notin shared =>
    \E s \in rows' : s.packet = r.packet /\ s.status = "dead_letter"

LEMMA TodosSingle ==
  ASSUME OverlapInv, NEW f \in Flusher, NEW t, OnePerPacket(Todo(t)),
         flusher' = [flusher EXCEPT ![f] = t]
  PROVE  \A g \in Flusher : OnePerPacket(Todo(flusher[g]))'
<1>1. \A g \in Flusher : flusher'[g] = IF g = f THEN t ELSE flusher[g]
  BY DEF OverlapInv, TypeOK
<1> QED
  BY <1>1 DEF OverlapInv, OnePerPacket

\* A step that leaves the table and the counts alone, and in which flushers
\* take nothing in hand.
LEMMA NothingTaken ==
  ASSUME OverlapInv, UNCHANGED <<rows, sends, enqueued, shared>>,
         \A f \in Flusher, p \in Packet : Narrower(flusher'[f], flusher[f], p),
         \A f \in Flusher : Todo(flusher'[f]) \subseteq Todo(flusher[f])
  PROVE  Rest' /\ DeadStay
<1>1. ASSUME NEW p \in Packet \ shared PROVE Unshared(p)'
  <2>1. Unshared(p) /\ SameRows(p) /\ sends'[p] = sends[p]
    BY DEF OverlapInv, SameRows
  <2> QED
    BY <2>1, LeftAlone
<1>2. \A f \in Flusher : OnePerPacket(Todo(flusher'[f]))
  BY DEF OverlapInv, OnePerPacket
<1> QED
  BY <1>1, <1>2 DEF OverlapInv, Rest, DeadStay, OnePerPacket

LEMMA SendOverlap ==
  ASSUME OverlapInv, TypeOK', NEW f \in Flusher, NEW mode, NEW p \in Packet, NEW retry,
         NEW max \in MaxAttempts, NEW expires, SendType(f, mode, p, retry, max, expires)
  PROVE  Rest' /\ DeadStay
<1> DEFINE row == [packet |-> p, status |-> "queued", attempts |-> 0,
                   max |-> MaxAttemptsOf(retry, max), due |-> TRUE]
           look == [pc |-> "lookup", packet |-> p]
<1>1. /\ p \notin enqueued /\ enqueued' = enqueued \cup {p} /\ rows' = rows \cup {row}
      /\ UNCHANGED <<sends, shared>> /\ flusher[f] = Idle
  BY DEF SendType, Enqueue
<1>2. row.max = Unlimited \/ row.max \in Nat
  BY DEF MaxAttemptsOf
<1>3. row.packet = p /\ row.status = "queued" /\ row.attempts = 0
  OBVIOUS
<1> HIDE DEF row
<1>4. \A r \in rows : r.packet # p
  BY <1>1 DEF OverlapInv, EntriesEnqueued, PacketsIn
<1>5. sends[p] = 0
  BY <1>1 DEF OverlapInv
<1>6. OnePerPacket(rows')
  BY <1>1, <1>3, <1>4 DEF OverlapInv, OnePerPacket
<1>7. \A g \in Flusher : ~Has(flusher[g], p)
  BY <1>1 DEF OverlapInv, EntriesEnqueued, Mine, Has, Looks, InCall, Todo
<1>8. \A g \in Flusher : flusher'[g] = flusher[g] \/ (g = f /\ flusher'[g] = look)
  BY DEF SendType, OverlapInv, TypeOK
<1>9. Todo(look) = {} /\ \A q : ~InCall(look, q) /\ (Looks(look, q) <=> q = p)
  BY DEF Todo, InCall, Looks
<1> HIDE DEF look
<1>10. ASSUME NEW q \in Packet \ shared, q # p PROVE Unshared(q)'
  <2>1. \A g \in Flusher : Narrower(flusher'[g], flusher[g], q)
    BY <1>8, <1>9, <1>10 DEF Narrower
  <2>2. SameRows(q) /\ sends'[q] = sends[q] /\ Unshared(q)
    BY <1>1, <1>3, <1>10 DEF SameRows, OverlapInv
  <2> QED
    BY <2>1, <2>2, LeftAlone
<1>11. Unshared(p)'
  <2>1. \A r \in rows' : r.packet = p => r = row
    BY <1>1, <1>4
  <2>2. Counted(p)'
    <3>1. Limit(row) => row.max \in Nat /\ 0 < Most(row) /\ 0 <= Most(row)
      BY <1>2 DEF Limit, Most
    <3> QED
      BY <1>1, <1>3, <1>5, <2>1, <3>1 DEF Counted
  <2>3. \A g \in Flusher : Has(flusher'[g], p) => g = f
    BY <1>7, <1>8
  <2>4. ASSUME NEW g \in Flusher PROVE CopyCurrent(flusher[g], p)'
    <3>1. ~InCall(flusher'[g], p) /\ \A e \in Todo(flusher'[g]) : e.packet # p
      BY <1>7, <1>8, <1>9 DEF Has
    <3>2. \A r \in rows' : r.packet = p => Waiting(r)
      BY <1>3, <2>1 DEF Waiting
    <3> QED
      BY <3>1, <3>2 DEF CopyCurrent
  <2> QED
    BY <2>2, <2>3, <2>4 DEF Unshared, OneHolder
<1>12. \A g \in Flusher : OnePerPacket(Todo(flusher[g]))'
  BY <1>8, <1>9 DEF OverlapInv, OnePerPacket
<1>13. \A q \in Packet \ enqueued' : sends'[q] = 0
  BY <1>1 DEF OverlapInv
<1> QED
  BY <1>1, <1>6, <1>10, <1>11, <1>12, <1>13 DEF Rest, DeadStay

LEMMA SelectOverlap ==
  ASSUME OverlapInv, NEW f \in Flusher, SelectDue(f)
  PROVE  Rest' /\ DeadStay
<1> DEFINE todo == {r \in rows : Due(r)}
<1>1. /\ flusher' = [flusher EXCEPT ![f] = Batch(todo)] /\ flusher[f] = Idle
      /\ UNCHANGED <<rows, sends, enqueued>> /\ shared \subseteq shared'
  BY DEF SelectDue
<1>2. todo \subseteq rows /\ \A e \in todo : Waiting(e)
  BY DEF Due, Waiting
<1>3. \A e \in todo, g \in Flusher : Has(flusher[g], e.packet) => e.packet \in shared'
  BY InHandIs DEF SelectDue, OverlapInv
<1> HIDE DEF todo
<1>4. OnePerPacket(todo)
  BY <1>2 DEF OverlapInv, OnePerPacket
<1>5. \A g \in Flusher : flusher'[g] = IF g = f THEN Batch(todo) ELSE flusher[g]
  BY <1>1 DEF OverlapInv, TypeOK
<1>6. ASSUME NEW p \in Packet \ shared' PROVE Unshared(p)'
  <2>1. Unshared(p)
    BY <1>1, <1>6 DEF OverlapInv
  <2>2. Counted(p)'
    BY <1>1, <2>1 DEF Unshared, Counted
  <2>3. OneHolder(p)'
    <3>1. \A g \in Flusher : g # f /\ Has(flusher'[g], p) => ~\E e \in todo : e.packet = p
      BY <1>3, <1>5, <1>6
    <3>2. Has(flusher'[f], p) => \E e \in todo : e.packet = p
      BY <1>5, BatchParts DEF Has
    <3>3. \A g, h \in Flusher : g # f /\ h # f /\ Has(flusher'[g], p) /\ Has(flusher'[h], p) => g = h
      BY <1>5, <2>1 DEF Unshared, OneHolder
    <3> QED
      BY <3>1, <3>2, <3>3 DEF OneHolder
  <2>4. ASSUME NEW g \in Flusher PROVE CopyCurrent(flusher[g], p)'
    <3>1. CASE g = f
      <4>1. Todo(flusher'[g]) = todo /\ ~Looks(flusher'[g], p) /\ ~InCall(flusher'[g], p)
        BY <1>5, <3>1, BatchParts
      <4>2. \A e \in todo : \E r \in rows' : CopyOf(e, r) /\ Waiting(r)
        BY <1>1, <1>2 DEF CopyOf
      <4> QED
        BY <4>1, <4>2 DEF CopyCurrent
    <3>2. CASE g # f
      BY <1>1, <1>5, <2>1, <3>2 DEF Unshared, CopyCurrent
    <3> QED
      BY <3>1, <3>2
  <2> QED
    BY <2>2, <2>3, <2>4 DEF Unshared
<1>7. \A g \in Flusher : OnePerPacket(Todo(flusher[g]))'
  <2>1. OnePerPacket(Todo(Batch(todo)))
    BY <1>4, BatchParts
  <2> QED
    BY <1>1, <2>1, TodosSingle
<1> QED
  BY <1>1, <1>6, <1>7 DEF OverlapInv, Rest, DeadStay, OnePerPacket

LEMMA LookupOverlap ==
  ASSUME OverlapInv, NEW f \in Flusher, Lookup(f)
  PROVE  Rest' /\ DeadStay
<1>p. PICK p : p = flusher[f].packet
  OBVIOUS
<1>t. PICK todo : todo = {r \in rows : r.packet = p}
  OBVIOUS
<1>1. /\ flusher' = [flusher EXCEPT ![f] = Batch(todo)]
      /\ UNCHANGED <<rows, sends, enqueued, shared>> /\ Looks(flusher[f], p)
  BY <1>p, <1>t DEF Lookup, Looks
<1>2. todo \subseteq rows /\ \A e \in todo : e.packet = p
  BY <1>t
<1>3. p \in Packet \ shared => \A e \in todo : Waiting(e)
  BY <1>1, <1>2 DEF OverlapInv, Unshared, CopyCurrent
<1>4. OnePerPacket(todo)
  BY <1>2 DEF OverlapInv, OnePerPacket
<1>5. ASSUME p \in Packet \ shared PROVE Unshared(p)'
  <2>1. Unshared(p) /\ Has(flusher[f], p)
    BY <1>1, <1>5 DEF OverlapInv, Has
  <2>2. Counted(p)'
    BY <1>1, <2>1 DEF Unshared, Counted
  <2>3. CopyCurrent(Batch(todo), p)'
    <3>1. \A e \in todo : \E r \in rows' : CopyOf(e, r) /\ Waiting(r)
      BY <1>1, <1>2, <1>3, <1>5 DEF CopyOf
    <3> QED
      BY <3>1, BatchParts DEF CopyCurrent
  <2>4. flusher \in [Flusher -> FlusherState]
    BY DEF OverlapInv, TypeOK
  <2> QED
    BY <1>1, <2>1, <2>2, <2>3, <2>4, WorkedOn
<1>6. \A q \in Packet : q # p => SameRows(q) /\ sends'[q] = sends[q]
  BY <1>1 DEF SameRows
<1>7. \A q \in Packet : q # p => Narrower(Batch(todo), flusher[f], q)
  BY <1>2, BatchParts DEF Narrower
<1>8. \A q \in Packet \ shared' : Unshared(q)'
  BY <1>1, <1>5, <1>6, <1>7, OthersAlone
<1>9. \A g \in Flusher : OnePerPacket(Todo(flusher[g]))'
  <2>1. OnePerPacket(Todo(Batch(todo)))
    BY <1>4, BatchParts
  <2> QED
    BY <1>1, <2>1, TodosSingle
<1> QED
  BY <1>1, <1>8, <1>9 DEF OverlapInv, Rest, DeadStay, OnePerPacket

\* A change of a packet's row leaves the rows of others alone, and its own is
\* the only one of the packet.
LEMMA ChangedOthers ==
  ASSUME NEW p, NEW status, NEW n, Changed(rows', p, status, n), NEW q, q # p
  PROVE  SameRows(q)
  BY DEF Changed, SameRows

\* The counts of a packet after a change of its row.
LEMMA ChangedCounted ==
  ASSUME NEW p, NEW status, NEW n, Changed(rows', p, status, n),
         \A r \in rows : r.packet = p /\ Limit(r) =>
           /\ sends'[p] <= Most(r)
           /\ status \in {"queued", "failed"} => sends'[p] <= n /\ n < Most(r)
  PROVE  Counted(p)'
<1> SUFFICES ASSUME NEW s \in rows', s.packet = p, Limit(s)
             PROVE  /\ sends'[p] <= Most(s)
                    /\ Waiting(s) => sends'[p] <= s.attempts /\ s.attempts < Most(s)
  BY DEF Counted
<1>1. PICK r \in rows :
        /\ s.packet = r.packet /\ s.max = r.max
        /\ IF r.packet = p THEN s.status = status /\ s.attempts = n ELSE s = r
  BY DEF Changed
<1>2. Limit(r) /\ Most(r) = Most(s)
  BY <1>1 DEF Limit, Most
<1> QED
  BY <1>1, <1>2 DEF Waiting

LEMMA DropOverlap ==
  ASSUME OverlapInv, NEW f \in Flusher, DropExpired(f)
  PROVE  Rest' /\ DeadStay
<1> DEFINE w == flusher[f]
<1>1. w.pc = "batch" /\ UNCHANGED <<sends, enqueued, shared>>
  BY DEF DropExpired
<1>2. PICK e \in w.todo :
        /\ flusher' = [flusher EXCEPT ![f] = Batch(w.todo \ {e})]
        /\ OnePerPacket(rows')
        /\ \A r \in rows : r.packet = e.packet => Changed(rows', e.packet, "dead_letter", r.attempts)
        /\ (\A r \in rows : r.packet # e.packet) => rows' = rows
  BY DropChanges DEF OverlapInv
<1>p. PICK p : p = e.packet
  OBVIOUS
<1>t. PICK todo : todo = w.todo \ {e}
  OBVIOUS
<1>3. Todo(w) = w.todo /\ OnePerPacket(w.todo) /\ Has(w, p)
  BY <1>1, <1>p DEF OverlapInv, Todo, Has
<1>4. /\ todo \subseteq w.todo /\ \A d \in todo : d.packet # p
      /\ flusher' = [flusher EXCEPT ![f] = Batch(todo)]
  BY <1>2, <1>3, <1>p, <1>t DEF OnePerPacket
<1>5. \A q \in Packet : q # p => SameRows(q)
  <2>1. CASE \E r \in rows : r.packet = p
    <3>1. PICK r \in rows : r.packet = p
      BY <2>1
    <3>2. Changed(rows', p, "dead_letter", r.attempts)
      BY <1>2, <1>p, <3>1
    <3> QED
      BY <3>2, ChangedOthers
  <2>2. CASE ~\E r \in rows : r.packet = p
    BY <1>2, <1>p, <2>2 DEF SameRows
  <2> QED
    BY <2>1, <2>2
<1>6. ASSUME p \in Packet \ shared PROVE Unshared(p)' /\ \A r \in rows : r.packet = p => Waiting(r)
  <2>1. Unshared(p)
    BY <1>6 DEF OverlapInv
  <2>2. PICK r \in rows : CopyOf(e, r) /\ Waiting(r)
    BY <1>3, <1>p, <2>1 DEF Unshared, CopyCurrent
  <2>3. \A s \in rows : s.packet = p => s = r
    BY <1>p, <2>2 DEF CopyOf, OverlapInv, OnePerPacket
  <2>4. r.packet = p /\ Changed(rows', p, "dead_letter", r.attempts)
    BY <1>2, <1>p, <2>2 DEF CopyOf
  <2>5. Counted(p)'
    <3>1. \A s \in rows : s.packet = p /\ Limit(s) => sends'[p] <= Most(s)
      BY <1>1, <2>1 DEF Unshared, Counted
    <3> QED
      BY <2>4, <3>1, ChangedCounted
  <2>6. CopyCurrent(Batch(todo), p)'
    BY <1>4, BatchParts DEF CopyCurrent
  <2>7. flusher \in [Flusher -> FlusherState]
    BY DEF OverlapInv, TypeOK
  <2>8. Unshared(p)'
    BY <1>3, <1>4, <2>1, <2>5, <2>6, <2>7, WorkedOn
  <2> QED
    BY <2>2, <2>3, <2>8
<1>7. \A q \in Packet : q # p => Narrower(Batch(todo), w, q)
  BY <1>3, <1>4, BatchParts DEF Narrower
<1>8. \A q \in Packet \ shared' : Unshared(q)'
  BY <1>1, <1>4, <1>5, <1>6, <1>7, OthersAlone
<1>9. \A g \in Flusher : OnePerPacket(Todo(flusher[g]))'
  <2>1. OnePerPacket(Todo(Batch(todo)))
    BY <1>3, <1>4, BatchParts DEF OnePerPacket
  <2> QED
    BY <1>4, <2>1, TodosSingle
<1>10. DeadStay
  <2> SUFFICES ASSUME NEW r \in rows, r.status = "dead_letter", r.packet \notin shared
               PROVE  \E s \in rows' : s.packet = r.packet /\ s.status = "dead_letter"
    BY DEF DeadStay
  <2>1. r.packet \in Packet
    BY DEF OverlapInv, TypeOK, Row
  <2>2. r.packet # p
    BY <1>6, <2>1 DEF Waiting
  <2> QED
    BY <1>5, <2>1, <2>2 DEF SameRows
<1> QED
  BY <1>1, <1>2, <1>8, <1>9, <1>10 DEF OverlapInv, Rest

LEMMA StartOverlap ==
  ASSUME OverlapInv, NEW f \in Flusher, StartSending(f)
  PROVE  Rest' /\ DeadStay
<1> DEFINE w == flusher[f]
<1>1. w.pc = "batch" /\ UNCHANGED <<enqueued, shared>>
  BY DEF StartSending
<1>2. PICK e \in w.todo :
        /\ rows' = Update(e.packet, "sending", e.attempts, TRUE)
        /\ flusher' = [flusher EXCEPT ![f] =
                         [pc |-> "call", todo |-> w.todo \ {e},
                          entry |-> e, answered |-> FALSE]]
        /\ sends' = [sends EXCEPT ![e.packet] = More(sends[e.packet])]
  BY DEF StartSending, OverlapInv, TypeOK
<1>p. PICK p : p = e.packet
  OBVIOUS
<1>t. PICK todo : todo = w.todo \ {e}
  OBVIOUS
<1>c. PICK call : call = [pc |-> "call", todo |-> todo, entry |-> e, answered |-> FALSE]
  OBVIOUS
<1>3. Todo(w) = w.todo /\ OnePerPacket(w.todo) /\ Has(w, p)
  BY <1>1, <1>p DEF OverlapInv, Todo, Has
<1>4. todo \subseteq w.todo /\ \A d \in todo : d.packet # p
  BY <1>2, <1>3, <1>p, <1>t DEF OnePerPacket
<1>5. /\ Todo(call) = todo /\ flusher' = [flusher EXCEPT ![f] = call] /\ call.entry = e
      /\ \A q : ~Looks(call, q) /\ (InCall(call, q) <=> q = p)
  BY <1>2, <1>p, <1>t, <1>c DEF Todo, Looks, InCall
<1>6. Changed(rows', p, "sending", e.attempts) /\ OnePerPacket(rows')
  BY <1>2, <1>p, UpdateChanges DEF OverlapInv, TypeOK
<1>7. p \in Packet /\ p \in enqueued
  <2>1. w \in FlusherState /\ w.todo \subseteq Row
    BY <1>1 DEF OverlapInv, TypeOK, FlusherState
  <2>2. Mine(w)
    BY DEF OverlapInv, EntriesEnqueued
  <2> QED
    BY <1>1, <1>p, <2>1, <2>2 DEF Row, Mine
<1>8. /\ sends[p] \in Nat /\ sends'[p] \in Nat /\ sends'[p] <= sends[p] + 1
      /\ \A q \in Packet : q # p => sends'[q] = sends[q]
  BY <1>2, <1>7, <1>p DEF More, OverlapInv, TypeOK
<1>9. \A q \in Packet : q # p => SameRows(q)
  BY <1>6, ChangedOthers
<1>10. ASSUME p \in Packet \ shared
       PROVE  Unshared(p)' /\ \A r \in rows : r.packet = p => Waiting(r)
  <2>1. Unshared(p)
    BY <1>10 DEF OverlapInv
  <2>2. PICK r \in rows : CopyOf(e, r) /\ Waiting(r)
    BY <1>3, <1>p, <2>1 DEF Unshared, CopyCurrent
  <2>3. /\ r.packet = p /\ r.max = e.max /\ r.attempts = e.attempts
        /\ r.attempts \in Nat /\ r.max \in Nat \cup {Unlimited}
    BY <1>p, <2>2 DEF CopyOf, OverlapInv, TypeOK, Row
  <2>4. \A s \in rows : s.packet = p => s = r
    BY <2>3 DEF OverlapInv, OnePerPacket
  <2>5. Limit(r) => /\ sends'[p] <= r.attempts + 1 /\ sends'[p] <= Most(r)
    <3>1. ASSUME Limit(r) PROVE sends'[p] <= r.attempts + 1 /\ sends'[p] <= Most(r)
      <4>1. sends[p] <= r.attempts /\ r.attempts < Most(r) /\ r.max \in Nat
        BY <2>1, <2>2, <2>3, <3>1 DEF Unshared, Counted, Limit
      <4> QED
        BY <1>8, <2>3, <4>1 DEF Most
    <3> QED
      BY <3>1
  <2>6. Counted(p)'
    BY <1>6, <2>4, <2>5, ChangedCounted
  <2>7. CopyCurrent(call, p)'
    <3>1. \E s \in rows' : CopyOf(e, s) /\ s.status = "sending"
      BY <1>6, <1>p, <2>3 DEF Changed, CopyOf
    <3>2. Limit(e) => sends'[p] <= e.attempts + 1
      BY <2>3, <2>5 DEF Limit
    <3> QED
      BY <1>4, <1>5, <3>1, <3>2 DEF CopyCurrent
  <2>8. flusher \in [Flusher -> FlusherState]
    BY DEF OverlapInv, TypeOK
  <2>9. Unshared(p)'
    BY <1>3, <1>5, <2>1, <2>6, <2>7, <2>8, WorkedOn
  <2> QED
    BY <2>2, <2>4, <2>9
<1>11. \A q \in Packet : q # p => Narrower(call, w, q)
  BY <1>3, <1>4, <1>5 DEF Narrower
<1>12. \A q \in Packet \ shared' : Unshared(q)'
  BY <1>1, <1>5, <1>8, <1>9, <1>10, <1>11, OthersAlone
<1>13. \A g \in Flusher : OnePerPacket(Todo(flusher[g]))'
  <2>1. OnePerPacket(Todo(call))
    BY <1>3, <1>4, <1>5 DEF OnePerPacket
  <2> QED
    BY <1>5, <2>1, TodosSingle
<1>14. DeadStay
  <2> SUFFICES ASSUME NEW r \in rows, r.status = "dead_letter", r.packet \notin shared
               PROVE  \E s \in rows' : s.packet = r.packet /\ s.status = "dead_letter"
    BY DEF DeadStay
  <2>1. r.packet \in Packet
    BY DEF OverlapInv, TypeOK, Row
  <2>2. r.packet # p
    BY <1>10, <2>1 DEF Waiting
  <2> QED
    BY <1>9, <2>1, <2>2 DEF SameRows
<1>15. \A q \in Packet \ enqueued' : sends'[q] = 0
  BY <1>1, <1>7, <1>8 DEF OverlapInv
<1> QED
  BY <1>6, <1>12, <1>13, <1>14, <1>15 DEF Rest

\* What a flusher with a request out knows of a packet it does not share.
LEMMA CallKnows ==
  ASSUME OverlapInv, NEW f \in Flusher, flusher[f].pc = "call",
         flusher[f].entry.packet \notin shared
  PROVE  /\ Unshared(flusher[f].entry.packet)
         /\ \A d \in flusher[f].todo : d.packet # flusher[f].entry.packet
         /\ \A r \in rows : r.packet = flusher[f].entry.packet =>
              r.status = "sending" /\ CopyOf(flusher[f].entry, r)
<1> DEFINE w == flusher[f]
           p == w.entry.packet
<1>1. w.entry \in Row /\ p \in Packet
  BY CallEntry DEF OverlapInv, TypeOK, Row
<1>2. Unshared(p) /\ InCall(w, p) /\ Todo(w) = w.todo
  BY <1>1 DEF OverlapInv, InCall, Todo
<1>3. PICK r \in rows : CopyOf(w.entry, r) /\ r.status = "sending"
  BY <1>2 DEF Unshared, CopyCurrent
<1>4. \A s \in rows : s.packet = p => s = r
  BY <1>3 DEF CopyOf, OverlapInv, OnePerPacket
<1>5. \A d \in w.todo : d.packet = p => \E s \in rows : CopyOf(d, s) /\ Waiting(s)
  BY <1>2 DEF Unshared, CopyCurrent
<1>6. \A d \in w.todo : d.packet # p
  BY <1>3, <1>4, <1>5 DEF CopyOf, Waiting
<1> QED
  BY <1>2, <1>3, <1>4, <1>6

\* A request ends: the holder goes on with the rest of its batch.
LEMMA CallEnds ==
  ASSUME OverlapInv, NEW f \in Flusher, flusher[f].pc = "call", NEW p, p = flusher[f].entry.packet,
         flusher' = [flusher EXCEPT ![f] = Batch(flusher[f].todo)],
         UNCHANGED <<enqueued, sends, shared>>, OnePerPacket(rows'),
         \A q \in Packet : q # p => SameRows(q),
         p \notin shared => Counted(p)'
  PROVE  Rest' /\ DeadStay
<1> DEFINE w == flusher[f]
<1>t. PICK todo : todo = w.todo
  OBVIOUS
<1>1. /\ Todo(w) = todo /\ Has(w, p) /\ OnePerPacket(todo)
      /\ flusher' = [flusher EXCEPT ![f] = Batch(todo)]
  BY <1>t DEF Todo, Has, InCall, OverlapInv
<1>2. ASSUME p \in Packet \ shared PROVE Unshared(p)'
  <2>1. Unshared(p) /\ \A d \in todo : d.packet # p
    BY <1>2, <1>t, CallKnows
  <2>2. CopyCurrent(Batch(todo), p)'
    BY <2>1, BatchParts DEF CopyCurrent
  <2>3. flusher \in [Flusher -> FlusherState]
    BY DEF OverlapInv, TypeOK
  <2>4. Counted(p)'
    BY <1>2
  <2> QED
    BY <1>1, <2>1, <2>2, <2>3, <2>4, WorkedOn
<1>3. \A q \in Packet : q # p => Narrower(Batch(todo), w, q)
  BY <1>1, BatchParts DEF Narrower
<1>4. \A q \in Packet : q # p => SameRows(q) /\ sends'[q] = sends[q]
  OBVIOUS
<1>5. \A q \in Packet \ shared' : Unshared(q)'
  BY <1>1, <1>2, <1>3, <1>4, OthersAlone
<1>6. \A g \in Flusher : OnePerPacket(Todo(flusher[g]))'
  <2>1. OnePerPacket(Todo(Batch(todo)))
    BY <1>1, BatchParts
  <2> QED
    BY <1>1, <2>1, TodosSingle
<1>7. DeadStay
  <2> SUFFICES ASSUME NEW r \in rows, r.status = "dead_letter", r.packet \notin shared
               PROVE  \E s \in rows' : s.packet = r.packet /\ s.status = "dead_letter"
    BY DEF DeadStay
  <2>1. r.packet \in Packet
    BY DEF OverlapInv, TypeOK, Row
  <2>2. r.packet # p
    BY CallKnows
  <2> QED
    BY <2>1, <2>2 DEF SameRows
<1> QED
  BY <1>5, <1>6, <1>7 DEF OverlapInv, Rest

LEMMA DeliveredOverlap ==
  ASSUME OverlapInv, NEW f \in Flusher, Delivered(f)
  PROVE  Rest' /\ DeadStay
<1>p. PICK p : p = flusher[f].entry.packet
  OBVIOUS
<1>1. /\ flusher[f].pc = "call" /\ rows' = {r \in rows : r.packet # p}
      /\ flusher' = [flusher EXCEPT ![f] = Batch(flusher[f].todo)]
      /\ UNCHANGED <<enqueued, sends, shared>>
  BY <1>p DEF Delivered, OverlapInv, TypeOK
<1>2. OnePerPacket(rows') /\ \A q \in Packet : q # p => SameRows(q)
  BY <1>1 DEF OverlapInv, OnePerPacket, SameRows
<1>3. Counted(p)'
  BY <1>1 DEF Counted
<1> QED
  BY <1>p, <1>1, <1>2, <1>3, CallEnds

LEMMA FailedOverlap ==
  ASSUME OverlapInv, NEW f \in Flusher, NEW c, Failed(f, c)
  PROVE  Rest' /\ DeadStay
<1>e. PICK e : e = flusher[f].entry
  OBVIOUS
<1>p. PICK p : p = e.packet
  OBVIOUS
<1>n. PICK n : n = More(e.attempts)
  OBVIOUS
<1>1. /\ flusher[f].pc = "call"
      /\ flusher' = [flusher EXCEPT ![f] = Batch(flusher[f].todo)]
      /\ UNCHANGED <<enqueued, sends, shared>>
  BY DEF Failed, OverlapInv, TypeOK
<1>2. \/ /\ e.max # Unlimited => n < e.max
         /\ rows' = Update(p, "queued", n, n <= 1)
      \/ rows' = Update(p, "dead_letter", n, TRUE)
  BY <1>e, <1>p, <1>n DEF Failed, Requeued, DeadLetter, CanRetry
<1>3. PICK status \in {"queued", "dead_letter"} :
        /\ Changed(rows', p, status, n) /\ OnePerPacket(rows')
        /\ status = "queued" /\ e.max # Unlimited => n < e.max
  <2>1. \A st, due : /\ Changed(Update(p, st, n, due), p, st, n)
                     /\ OnePerPacket(Update(p, st, n, due))
    BY UpdateChanges DEF OverlapInv, TypeOK
  <2> QED
    BY <1>2, <2>1
<1>4. \A q \in Packet : q # p => SameRows(q)
  BY <1>3, ChangedOthers
<1>5. ASSUME p \notin shared PROVE Counted(p)'
  <2>1. Unshared(p) /\ \A r \in rows : r.packet = p => CopyOf(e, r)
    BY <1>1, <1>5, <1>e, <1>p, CallKnows
  <2>2. e \in Row /\ p \in Packet /\ InCall(flusher[f], p)
    BY <1>1, <1>e, <1>p, CallEntry DEF OverlapInv, TypeOK, Row, InCall
  <2>3. Limit(e) => sends[p] <= e.attempts + 1
    BY <1>e, <2>1, <2>2 DEF Unshared, CopyCurrent
  <2>4. sends[p] \in 0 .. AttemptCap /\ e.attempts \in 0 .. AttemptCap
    BY <2>2 DEF OverlapInv, TypeOK, Row
  <2>5. n \in Nat /\ (Limit(e) => sends[p] <= n)
    BY <1>n, <2>3, <2>4 DEF More
  <2>6. ASSUME NEW r \in rows, r.packet = p, Limit(r)
        PROVE  /\ sends'[p] <= Most(r)
               /\ status \in {"queued", "failed"} => sends'[p] <= n /\ n < Most(r)
    <3>1. r.max = e.max /\ r.max \in Nat /\ Limit(e) /\ sends[p] <= Most(r)
      BY <2>1, <2>6 DEF CopyOf, Limit, OverlapInv, TypeOK, Row, Unshared, Counted
    <3>2. status \in {"queued", "failed"} => n < Most(r)
      BY <1>3, <2>5, <3>1 DEF Limit, Most
    <3> QED
      BY <1>1, <2>5, <3>1, <3>2
  <2> QED
    BY <1>3, <2>6, ChangedCounted
<1> QED
  BY <1>e, <1>p, <1>1, <1>3, <1>4, <1>5, CallEnds

LEMMA BackoffOverlap ==
  ASSUME OverlapInv, NEW p \in Packet, BackoffElapses(p)
  PROVE  Rest' /\ DeadStay
<1> DEFINE New(r) == IF r.packet = p THEN [r EXCEPT !.due = TRUE] ELSE r
<1>1. \A r \in rows : /\ New(r).packet = r.packet /\ New(r).status = r.status
                      /\ New(r).attempts = r.attempts /\ New(r).max = r.max
  BY DEF OverlapInv, TypeOK, Row
<1>2. rows' = {New(r) : r \in rows} /\ UNCHANGED <<flusher, sends, enqueued, shared>>
  BY DEF BackoffElapses
<1> HIDE DEF New
<1>3. OnePerPacket(rows')
  BY <1>1, <1>2 DEF OverlapInv, OnePerPacket
<1>4. ASSUME NEW q \in Packet \ shared PROVE Unshared(q)'
  <2>1. Unshared(q)
    BY <1>4 DEF OverlapInv
  <2>2. Counted(q)'
    <3>1. ASSUME NEW s \in rows', s.packet = q, Limit(s)
          PROVE  /\ sends[q] <= Most(s)
                 /\ Waiting(s) => sends[q] <= s.attempts /\ s.attempts < Most(s)
      <4>1. PICK r \in rows : s = New(r)
        BY <1>2
      <4>2. r.packet = q /\ Limit(r) /\ Most(r) = Most(s) /\ (Waiting(s) <=> Waiting(r))
            /\ s.attempts = r.attempts
        BY <1>1, <3>1, <4>1 DEF Limit, Most, Waiting
      <4> QED
        BY <2>1, <4>2 DEF Unshared, Counted
    <3> QED
      BY <1>2, <3>1 DEF Counted
  <2>3. OneHolder(q)'
    BY <1>2, <2>1 DEF Unshared, OneHolder
  <2>4. ASSUME NEW g \in Flusher PROVE CopyCurrent(flusher[g], q)'
    BY <1>1, <1>2, <2>1 DEF Unshared, CopyCurrent, CopyOf, Waiting
  <2> QED
    BY <2>2, <2>3, <2>4 DEF Unshared
<1>5. DeadStay
  BY <1>1, <1>2 DEF DeadStay
<1> QED
  BY <1>2, <1>3, <1>4, <1>5 DEF OverlapInv, Rest

LEMMA AcceptsOverlap ==
  ASSUME OverlapInv, NEW f \in Flusher, RelayAccepts(f)
  PROVE  Rest' /\ DeadStay
<1>1. flusher[f] \in [pc : {"call"}, todo : SUBSET Row, entry : Row, answered : BOOLEAN]
  BY DEF RelayAccepts, OverlapInv, TypeOK, FlusherState
<1>2. /\ flusher'[f].pc = "call" /\ flusher'[f].todo = flusher[f].todo
      /\ flusher'[f].entry = flusher[f].entry
  BY <1>1 DEF RelayAccepts, OverlapInv, TypeOK
<1>3. \A g \in Flusher : g # f => flusher'[g] = flusher[g]
  BY DEF RelayAccepts, OverlapInv, TypeOK
<1>4. ASSUME NEW g \in Flusher, NEW p \in Packet
      PROVE  Narrower(flusher'[g], flusher[g], p) /\ Todo(flusher'[g]) \subseteq Todo(flusher[g])
  BY <1>1, <1>2, <1>3 DEF Narrower, Todo, Looks, InCall
<1>5. \A g \in Flusher : Todo(flusher'[g]) \subseteq Todo(flusher[g])
  BY <1>1, <1>2, <1>3 DEF Todo
<1>6. UNCHANGED <<rows, sends, enqueued, shared>>
  BY DEF RelayAccepts
<1> QED
  BY <1>4, <1>5, <1>6, NothingTaken

LEMMA InterruptOverlap ==
  ASSUME OverlapInv, NEW f \in Flusher, Interrupt(f)
  PROVE  Rest' /\ DeadStay
<1>1. \A g \in Flusher : flusher'[g] = IF g = f THEN Idle ELSE flusher[g]
  BY DEF Interrupt, OverlapInv, TypeOK
<1>2. Todo(Idle) = {} /\ \A p : ~Looks(Idle, p) /\ ~InCall(Idle, p)
  BY DEF Idle, Todo, Looks, InCall
<1>3. \A g \in Flusher, p \in Packet : Narrower(flusher'[g], flusher[g], p)
  BY <1>1, <1>2 DEF Narrower
<1>4. \A g \in Flusher : Todo(flusher'[g]) \subseteq Todo(flusher[g])
  BY <1>1, <1>2
<1>5. UNCHANGED <<rows, sends, enqueued, shared>>
  BY DEF Interrupt
<1> QED
  BY <1>3, <1>4, <1>5, NothingTaken

LEMMA OverlapNext ==
  ASSUME OverlapInv, TypeOK', [Next]_vars
  PROVE  OverlapInv' /\ DeadStay
<1>1. ASSUME UNCHANGED <<rows, sends, enqueued, shared, flusher>> PROVE Rest' /\ DeadStay
  <2>1. /\ \A f \in Flusher, p \in Packet : Narrower(flusher'[f], flusher[f], p)
        /\ \A f \in Flusher : Todo(flusher'[f]) \subseteq Todo(flusher[f])
    BY <1>1 DEF Narrower
  <2> QED
    BY <1>1, <2>1, NothingTaken
<1>2. Rest' /\ DeadStay
  <2>1. CASE UNCHANGED vars
    BY <1>1, <2>1 DEF vars
  <2>2. ASSUME NEW p \in Packet, Expire(p) PROVE Rest' /\ DeadStay
    BY <1>1, <2>2 DEF Expire
  <2>3. ASSUME NEW f \in Flusher, Flush(f) PROVE Rest' /\ DeadStay
    BY <2>3, LookupOverlap, DropOverlap, StartOverlap, DeliveredOverlap, FailedOverlap DEF Flush
  <2>4. CASE Next
    BY <2>2, <2>3, <2>4, SendOverlap, SelectOverlap, AcceptsOverlap, InterruptOverlap,
       BackoffOverlap DEF Next
  <2> QED
    BY <2>1, <2>4
<1>3. EntriesEnqueued'
  BY EntriesEnqueuedNext DEF OverlapInv
<1> QED
  BY <1>2, <1>3 DEF OverlapInv, Rest

LEMMA OverlapInit == Init => OverlapInv
<1> SUFFICES ASSUME Init PROVE OverlapInv
  OBVIOUS
<1>1. TypeOK
  BY OutboxInvInit DEF OutboxInv
<1>2. \A f \in Flusher : Todo(flusher[f]) = {} /\ \A p : ~Has(flusher[f], p)
  BY DEF Init, Idle, Todo, Has, Looks, InCall
<1>3. EntriesEnqueued
  BY DEF Init, EntriesEnqueued, PacketsIn, Mine, Idle
<1>4. \A p \in Packet : Unshared(p)
  BY <1>2 DEF Init, Unshared, Counted, OneHolder, CopyCurrent, Has
<1> QED
  BY <1>1, <1>2, <1>3, <1>4 DEF Init, OverlapInv, OnePerPacket

\* However many flushers there are and whatever is interrupted, a packet that no
\* two of them had in hand at once is sent at most max_attempts times (once, if
\* that is 0).
THEOREM LimitsAreKept == Spec => []AttemptsWithinLimit
<1>1. OverlapInv /\ TypeOK' /\ [Next]_vars => OverlapInv'
  BY OverlapNext
<1>2. OverlapInv => AttemptsWithinLimit
  <2> SUFFICES ASSUME OverlapInv, NEW r \in rows, Limit(r), r.packet \notin shared
               PROVE  sends[r.packet] <= Most(r)
    BY DEF AttemptsWithinLimit, Limit, Most
  <2>1. r.packet \in Packet
    BY DEF OverlapInv, TypeOK, Row
  <2> QED
    BY <2>1 DEF OverlapInv, Unshared, Counted
<1> QED
  BY <1>1, <1>2, OverlapInit, OutboxTypeCorrect, PTL DEF Spec

\* A dead letter comes back only if two flushers once had its packet in hand
\* together.
THEOREM DeadLettersStay == Spec => RevivedOnlyByOverlap
<1>1. OverlapInv /\ TypeOK' /\ [Next]_vars => OverlapInv'
  BY OverlapNext
<1>2. OverlapInv /\ TypeOK' /\ [Next]_vars =>
        [\A r \in rows : r.status = "dead_letter" /\ r.packet \notin shared =>
           \E s \in rows' : s.packet = r.packet /\ s.status = "dead_letter"]_vars
  BY OverlapNext DEF DeadStay
<1> QED
  BY <1>1, <1>2, OverlapInit, OutboxTypeCorrect, PTL DEF Spec, RevivedOnlyByOverlap

USE DeliveryAssumption

----------------------------------------------------------------------------
(* The composition takes the outbox's steps only.                          *)

LEMMA OutboxSteps == [DeliveryNext]_allVars => [Next]_vars
<1> SUFFICES ASSUME [DeliveryNext]_allVars PROVE [Next]_vars
  OBVIOUS
<1>1. CASE OutboxStep
  BY <1>1 DEF OutboxStep, Next, Flush
<1>2. ASSUME NEW f \in Flusher, Submit(f) \/ SendFails(f) \/ FlusherStops(f)
      PROVE  [Next]_vars
  BY <1>2 DEF Submit, SendFails, FlusherStops, Next, Flush
<1>3. CASE UNCHANGED vars
  BY <1>3
<1>4. ASSUME NEW p \in Packet, RelayExpires(p) PROVE UNCHANGED vars
  BY <1>4 DEF RelayExpires
<1>5. CASE Receive \/ Start \/ LoopEnds \/ ReceiverStops
  BY <1>5, <1>3 DEF Receive, Poll, Begin, HandleOk, HandleFails, Acknowledge, Ack,
                    AckMissing, AckLost, Start, LoopEnds, ReceiverStops
<1> QED
  BY <1>1, <1>2, <1>3, <1>4, <1>5 DEF DeliveryNext, allVars

\* The composition restricts the outbox and adds to it: what the outbox promises
\* by itself, it promises there.
THEOREM ImplementsOutbox == DeliverySpec => Spec
<1>1. DeliveryInit => Init
  BY DEF DeliveryInit
<1> QED
  BY <1>1, OutboxSteps, PTL DEF DeliverySpec, Spec

----------------------------------------------------------------------------
(* Sequences without one of their elements.                                *)

LEMMA RemoveAtElements ==
  ASSUME NEW S, NEW s \in Seq(S), NEW i \in DOMAIN s
  PROVE  /\ RemoveAt(s, i) \in Seq(S)
         /\ Len(RemoveAt(s, i)) = Len(s) - 1
         /\ \A j \in DOMAIN RemoveAt(s, i) :
              RemoveAt(s, i)[j] = IF j < i THEN s[j] ELSE s[j + 1]
<1> DEFINE a == SubSeq(s, 1, i - 1)
           b == SubSeq(s, i + 1, Len(s))
<1>1. i \in 1 .. Len(s) /\ Len(s) \in Nat
  OBVIOUS
<1>2. a \in Seq(S) /\ Len(a) = i - 1 /\ \A j \in 1 .. i - 1 : a[j] = s[j]
  BY <1>1, SubSeqProperties
<1>3. b \in Seq(S) /\ Len(b) = Len(s) - i /\ \A j \in 1 .. Len(s) - i : b[j] = s[i + j]
  BY <1>1, SubSeqProperties
<1> HIDE DEF a, b
<1>4. a \o b \in Seq(S) /\ Len(a \o b) = Len(s) - 1
  BY <1>1, <1>2, <1>3, ConcatProperties
<1>5. \A j \in 1 .. Len(s) - 1 : (a \o b)[j] = IF j < i THEN s[j] ELSE s[j + 1]
  <2> SUFFICES ASSUME NEW j \in 1 .. Len(s) - 1
               PROVE  (a \o b)[j] = IF j < i THEN s[j] ELSE s[j + 1]
    OBVIOUS
  <2>1. (a \o b)[j] = IF j <= i - 1 THEN a[j] ELSE b[j - (i - 1)]
    BY <1>1, <1>2, <1>3, ConcatProperties
  <2>2. CASE j < i
    BY <1>1, <1>2, <2>1, <2>2
  <2>3. CASE ~(j < i)
    <3>1. j - (i - 1) \in 1 .. Len(s) - i /\ i + (j - (i - 1)) = j + 1
      BY <1>1, <2>3
    <3> QED
      BY <1>1, <1>3, <2>1, <2>3, <3>1
  <2> QED
    BY <2>2, <2>3
<1>6. RemoveAt(s, i) = a \o b
  BY DEF RemoveAt, a, b
<1>7. DOMAIN RemoveAt(s, i) = 1 .. Len(s) - 1
  BY <1>4, <1>6
<1> QED
  BY <1>4, <1>5, <1>6, <1>7

\* What is left are the elements at the other places, in their order.
LEMMA RemoveAtPlaces ==
  ASSUME NEW S, NEW s \in Seq(S), NEW i \in DOMAIN s, NEW t, t = RemoveAt(s, i)
  PROVE  /\ t \in Seq(S)
         /\ \A j \in DOMAIN t : \E k \in DOMAIN s : k # i /\ t[j] = s[k]
         /\ \A k \in DOMAIN s : k # i => \E j \in DOMAIN t : t[j] = s[k]
         /\ \A j, l \in DOMAIN t : j # l =>
              \E k, m \in DOMAIN s : k # m /\ t[j] = s[k] /\ t[l] = s[m]
<1>1. i \in 1 .. Len(s) /\ Len(s) \in Nat /\ DOMAIN s = 1 .. Len(s)
  OBVIOUS
<1>2. /\ t \in Seq(S) /\ Len(t) = Len(s) - 1
      /\ \A j \in DOMAIN t : t[j] = IF j < i THEN s[j] ELSE s[j + 1]
  BY RemoveAtElements
<1>3. DOMAIN t = 1 .. Len(s) - 1
  BY <1>2
<1> DEFINE at(j) == IF j < i THEN j ELSE j + 1
<1>4. \A j \in DOMAIN t : at(j) \in DOMAIN s /\ at(j) # i /\ t[j] = s[at(j)]
  BY <1>1, <1>2, <1>3
<1>5. \A j, l \in DOMAIN t : j # l => at(j) # at(l)
  BY <1>1, <1>3
<1>6. ASSUME NEW k \in DOMAIN s, k # i PROVE \E j \in DOMAIN t : at(j) = k
  <2>1. CASE k < i
    BY <1>1, <1>3, <2>1
  <2>2. CASE ~(k < i)
    <3>1. k - 1 \in DOMAIN t /\ at(k - 1) = k
      BY <1>1, <1>3, <1>6, <2>2
    <3> QED
      BY <3>1
  <2> QED
    BY <2>1, <2>2
<1> HIDE DEF at
<1> QED
  BY <1>2, <1>4, <1>5, <1>6

----------------------------------------------------------------------------
(* The invariant.                                                          *)

BatchOf(r)  == IF r.pc \in {"off", "polling"} THEN <<>> ELSE r.batch
Batched     == BatchOf(receiver)
Distinct(s) == \A i, j \in DOMAIN s : s[i] = s[j] => i = j
Numbered(s) == \A i \in DOMAIN s : s[i].id <= created[s[i].packet]
OnePerPacketQueued ==
  \A i, j \in DOMAIN queue : queue[i].packet = queue[j].packet => i = j

\* Deliveries are numbered and distinct, and only of packets the relay accepted.
QueueInv ==
  /\ OnePerPacketQueued /\ Numbered(queue)
  /\ Distinct(Batched) /\ Numbered(Batched)
  /\ \A p \in Packet : created[p] > 0 => p \in accepted
  /\ \A d \in inbox : created[d.packet] > 0
  /\ \A p \in Packet : handled[p] > 0 => created[p] > 0

\* What the receiver acknowledges without giving it up, it has taken.
AckInv ==
  /\ receiver.pc = "ack early" => policy = "after_store" /\ Current \in inbox
  /\ receiver.pc = "ack" => policy # "after_store" /\ handled[Current.packet] > 0
  /\ receiver.pc = "handle" /\ policy = "after_store" => ~InQueue(Current)

\* What the relay has accepted is queued, taken or given up.
Custody ==
  /\ \A p \in accepted : Queued(p) \/ p \in Taken \/ p \in lapsed
  /\ DeadIn(rows) \subseteq lapsed

Answered(p) == \E f \in Flusher : /\ flusher[f].pc = "call" /\ flusher[f].answered
                                  /\ flusher[f].entry.packet = p
SentOff(p) == p \notin PacketsIn(rows) \/ Answered(p)

\* The relay makes one delivery of a packet, and its sender is then done.
CreatedOnce ==
  \A p \in Packet \ disturbed : created[p] <= 1 /\ (created[p] > 0 => SentOff(p))

\* What was handled is not queued any more, but for the ACK to come.
HandledOnce ==
  policy # "manual" =>
    \A p \in Packet \ disturbed : handled[p] > 0 =>
      /\ handled[p] = 1
      /\ Queued(p) => receiver.pc = "ack" /\ Current.packet = p
      /\ \A i \in DOMAIN Batched : Batched[i].packet = p => i = 1 /\ receiver.pc = "ack"

DeliveryIInv ==
  /\ OutboxInv /\ EntriesEnqueued /\ DeliveryTypeOK
  /\ QueueInv /\ AckInv /\ Custody /\ CreatedOnce /\ HandledOnce

LEMMA DeliveryIInvInit == DeliveryInit => DeliveryIInv
<1> SUFFICES ASSUME DeliveryInit PROVE DeliveryIInv
  OBVIOUS
<1>1. OutboxInv
  BY OutboxInvInit DEF DeliveryInit
<1>2. DeliveryTypeOK
  BY <1>1 DEF DeliveryInit, DeliveryTypeOK, OutboxInv, ReceiverState, HandledCap
<1>3. EntriesEnqueued
  BY DEF DeliveryInit, Init, EntriesEnqueued, PacketsIn, Mine, Idle
<1>4. receiver.pc \in {"off", "polling"}
  BY DEF DeliveryInit, Off
<1>5. QueueInv
  BY <1>4 DEF DeliveryInit, QueueInv, OnePerPacketQueued, Numbered, Distinct, Batched, BatchOf
<1>6. AckInv /\ Custody
  BY <1>4 DEF DeliveryInit, Init, AckInv, Custody, DeadIn
<1>7. CreatedOnce /\ HandledOnce
  BY DEF DeliveryInit, CreatedOnce, HandledOnce
<1> QED
  BY <1>1, <1>2, <1>3, <1>5, <1>6, <1>7 DEF DeliveryIInv

----------------------------------------------------------------------------
(* The steps of the outbox that the relay does not see.                    *)

LEMMA DeadNowIs == DeadNow = DeadIn(rows')
  BY DEF DeadNow, DeadIn

\* A packet without a row gets none again.
LEMMA GoneStays ==
  ASSUME TypeOK, NEW p \in enqueued, p \notin PacketsIn(rows), [Next]_vars
  PROVE  p \notin PacketsIn(rows')
<1>1. ASSUME NEW f \in Flusher, NEW mode, NEW q \in Packet, NEW retry, NEW max, NEW expires,
             SendType(f, mode, q, retry, max, expires)
      PROVE  p \notin PacketsIn(rows')
  BY <1>1, EnqueueAdds DEF SendType, Added
<1>2. ASSUME NEW f \in Flusher, DropExpired(f) PROVE p \notin PacketsIn(rows')
  BY <1>2, DropGivesUp DEF GivenUp
<1>3. ASSUME NEW f \in Flusher, StartSending(f) PROVE p \notin PacketsIn(rows')
  BY <1>3, StartTakesUp DEF TakenUp
<1>4. ASSUME NEW f \in Flusher, Delivered(f) PROVE p \notin PacketsIn(rows')
  BY <1>4, DeliveredGone DEF Gone
<1>5. ASSUME NEW f \in Flusher, NEW c, Failed(f, c) PROVE p \notin PacketsIn(rows')
  BY <1>5, FailedRestates DEF GivenUp, TakenUp
<1>6. ASSUME NEW q \in Packet, BackoffElapses(q) PROVE p \notin PacketsIn(rows')
  BY <1>6, BackoffSame DEF SameSets
<1>7. CASE UNCHANGED rows
  BY <1>7 DEF PacketsIn
<1>8. ASSUME NEW f \in Flusher, SelectDue(f) \/ Lookup(f) \/ RelayAccepts(f) \/ Interrupt(f)
      PROVE  UNCHANGED rows
  BY <1>8 DEF SelectDue, Lookup, RelayAccepts, Interrupt
<1>9. ASSUME NEW q \in Packet, Expire(q) PROVE UNCHANGED rows
  BY <1>9 DEF Expire
<1>10. CASE UNCHANGED vars
  BY <1>10, <1>7 DEF vars
<1> QED
  BY <1>1, <1>2, <1>3, <1>4, <1>5, <1>6, <1>7, <1>8, <1>9, <1>10 DEF Next, Flush

\* A request ends with its answer, a failure or an interruption.
LEMMA CallsGoOn ==
  ASSUME TypeOK, OutboxStep, NEW g \in Flusher, flusher[g].pc = "call"
  PROVE  flusher'[g] = flusher[g] \/ Delivered(g)
<1>1. ASSUME NEW f \in Flusher, NEW mode, NEW p \in Packet, NEW retry, NEW max, NEW expires,
             SendType(f, mode, p, retry, max, expires)
      PROVE  flusher'[g] = flusher[g]
  BY <1>1 DEF SendType, Idle, TypeOK
<1>2. ASSUME NEW f \in Flusher, SelectDue(f) \/ Lookup(f) \/ DropExpired(f) \/ StartSending(f)
      PROVE  flusher'[g] = flusher[g]
  <2>1. flusher[f].pc # "call" /\ \E s : flusher' = [flusher EXCEPT ![f] = s]
    <3>1. CASE SelectDue(f) \/ Lookup(f)
      BY <3>1 DEF SelectDue, Lookup, Idle
    <3>2. CASE DropExpired(f)
      BY <3>2 DEF DropExpired
    <3>3. CASE StartSending(f)
      BY <3>3 DEF StartSending
    <3> QED
      BY <1>2, <3>1, <3>2, <3>3
  <2> QED
    BY <2>1 DEF TypeOK
<1>3. ASSUME NEW f \in Flusher, Delivered(f), f # g PROVE flusher'[g] = flusher[g]
  BY <1>3 DEF Delivered, TypeOK
<1>4. ASSUME NEW p \in Packet, BackoffElapses(p) \/ Expire(p) PROVE flusher'[g] = flusher[g]
  BY <1>4 DEF BackoffElapses, Expire
<1> QED
  BY <1>1, <1>2, <1>3, <1>4 DEF OutboxStep

\* A failure or an interruption of one flusher leaves the others' requests.
LEMMA SentOffStays ==
  ASSUME TypeOK, EntriesEnqueued, [Next]_vars, NEW p \in enqueued, SentOff(p),
         OutboxStep \/ \E f \in Flusher : SendFails(f) \/ FlusherStops(f),
         p \notin disturbed'
  PROVE  SentOff(p)'
<1>1. CASE p \notin PacketsIn(rows)
  BY <1>1, GoneStays DEF SentOff
<1>2. ASSUME NEW g \in Flusher, flusher[g].pc = "call", flusher[g].answered,
             flusher[g].entry.packet = p
      PROVE  SentOff(p)'
  <2>1. CASE OutboxStep /\ flusher'[g] = flusher[g]
    BY <1>2, <2>1 DEF SentOff, Answered
  <2>2. CASE Delivered(g)
    BY <1>2, <2>2, DeliveredGone DEF Gone, SentOff
  <2>3. ASSUME NEW f \in Flusher, SendFails(f) \/ FlusherStops(f) PROVE SentOff(p)'
    <3>1. f # g
      BY <1>2, <2>3 DEF SendFails, FlusherStops
    <3>2. flusher'[g] = flusher[g]
      BY <2>3, <3>1 DEF SendFails, FlusherStops, Failed, Interrupt, TypeOK
    <3> QED
      BY <1>2, <3>2 DEF SentOff, Answered
  <2> QED
    BY <1>2, <2>1, <2>2, <2>3, CallsGoOn
<1> QED
  BY <1>1, <1>2 DEF SentOff, Answered

LEMMA OutboxKeepsIInv ==
  ASSUME DeliveryIInv, OutboxInv', EntriesEnqueued', [Next]_vars,
         OutboxStep \/ \E f \in Flusher : SendFails(f) \/ FlusherStops(f)
  PROVE  DeliveryIInv'
<1>1. /\ UNCHANGED <<queue, created, policy, receiver, inbox, handled, faults>>
      /\ disturbed \subseteq disturbed' /\ lapsed \subseteq lapsed'
  BY DEF OutboxStep, SendFails, FlusherStops, relay, app
<1>2. accepted' = accepted
  <2>1. ASSUME NEW f \in Flusher, SendFails(f) \/ FlusherStops(f) PROVE accepted' = accepted
    BY <2>1 DEF SendFails, FlusherStops, Failed, Interrupt
  <2>2. ASSUME OutboxStep PROVE accepted' = accepted
    BY <2>2 DEF OutboxStep, SendType, SelectDue, Lookup, DropExpired, StartSending,
                Delivered, BackoffElapses, Expire
  <2> QED
    BY <2>1, <2>2
<1>3. lapsed' \subseteq lapsed \cup DeadIn(rows') /\ DeadIn(rows') \subseteq lapsed'
  <2>1. CASE lapsed' = lapsed \cup DeadNow
    BY <2>1, DeadNowIs
  <2>2. CASE UNCHANGED <<rows, lapsed>>
    BY <2>2 DEF DeliveryIInv, Custody, DeadIn
  <2>3. ASSUME NEW f \in Flusher, FlusherStops(f) PROVE UNCHANGED <<rows, lapsed>>
    BY <2>3 DEF FlusherStops, Interrupt
  <2> QED
    BY <2>1, <2>2, <2>3 DEF OutboxStep, SendFails
<1>4. \A p \in DeadIn(rows') : p \in Packet
  BY DEF OutboxInv, TypeOK, DeadIn, Row
<1>5. disturbed' \subseteq Packet
  <2>1. \A f \in Flusher : flusher[f].pc = "call" => flusher[f].entry.packet \in Packet
    BY CallEntry DEF DeliveryIInv, OutboxInv, TypeOK, Row
  <2>2. \A f \in Flusher : SendFails(f) => flusher[f].pc = "call"
    BY DEF SendFails, Failed
  <2> QED
    BY <2>1, <2>2 DEF OutboxStep, SendFails, FlusherStops, DeliveryIInv, DeliveryTypeOK
<1>6. DeliveryTypeOK'
  <2>1. TypeOK'
    BY DEF OutboxInv
  <2> QED
    BY <1>1, <1>3, <1>4, <1>5, <2>1 DEF DeliveryIInv, DeliveryTypeOK
<1>7. QueueInv'
  BY <1>1, <1>2 DEF DeliveryIInv, QueueInv, OnePerPacketQueued, Numbered, Distinct, Batched, BatchOf
<1>8. AckInv'
  BY <1>1 DEF DeliveryIInv, AckInv, Current, InQueue
<1>9. Custody'
  <2>1. \A p : (Queued(p)' <=> Queued(p)) /\ (p \in Taken => p \in Taken')
    BY <1>1 DEF Queued, Taken
  <2> QED
    BY <1>1, <1>2, <1>3, <2>1 DEF DeliveryIInv, Custody
<1>10. CreatedOnce'
  <2> SUFFICES ASSUME NEW p \in Packet, p \notin disturbed'
               PROVE  created'[p] <= 1 /\ (created'[p] > 0 => SentOff(p)')
    BY DEF CreatedOnce
  <2>1. created'[p] = created[p] /\ created[p] <= 1 /\ (created[p] > 0 => SentOff(p))
    BY <1>1 DEF DeliveryIInv, CreatedOnce
  <2>2. created[p] > 0 => p \in enqueued
    BY DEF DeliveryIInv, QueueInv, EntriesEnqueued
  <2>3. TypeOK /\ EntriesEnqueued
    BY DEF DeliveryIInv, OutboxInv
  <2>4. created[p] > 0 => SentOff(p)'
    BY <2>1, <2>2, <2>3, SentOffStays
  <2> QED
    BY <2>1, <2>4
<1>11. HandledOnce'
  BY <1>1 DEF DeliveryIInv, HandledOnce, Queued, Batched, Current
<1> QED
  BY <1>6, <1>7, <1>8, <1>9, <1>10, <1>11 DEF DeliveryIInv

----------------------------------------------------------------------------
(* The relay takes a packet.                                               *)

LEMMA AppendPlaces ==
  ASSUME NEW S, NEW s \in Seq(S), NEW d \in S, NEW t, t = Append(s, d)
  PROVE  /\ t \in Seq(S) /\ DOMAIN s \subseteq DOMAIN t
         /\ \A i \in DOMAIN s : t[i] = s[i]
         /\ \E j \in DOMAIN t : j \notin DOMAIN s /\ t[j] = d /\ DOMAIN t = DOMAIN s \cup {j}
<1>1. Len(s) \in Nat /\ DOMAIN s = 1 .. Len(s) /\ DOMAIN t = 1 .. Len(s) + 1
  OBVIOUS
<1>2. Len(s) + 1 \in DOMAIN t /\ Len(s) + 1 \notin DOMAIN s /\ t[Len(s) + 1] = d
  BY <1>1
<1>3. DOMAIN t = DOMAIN s \cup {Len(s) + 1}
  BY <1>1
<1>4. \A i \in DOMAIN s : t[i] = s[i]
  BY <1>1
<1> QED
  BY <1>1, <1>2, <1>3, <1>4

LEMMA NonEmptySeq ==
  ASSUME NEW S, NEW s \in Seq(S), s # <<>>
  PROVE  /\ Len(s) \in Nat \ {0} /\ DOMAIN s = 1 .. Len(s) /\ 1 \in DOMAIN s
         /\ Head(s) = s[1] /\ Head(s) \in S
<1>1. Len(s) \in Nat \ {0}
  BY EmptySeq
<1>2. DOMAIN s = 1 .. Len(s)
  BY LenProperties
<1> QED
  BY <1>1, <1>2

LEMMA BatchPlaces ==
  ASSUME NEW r \in ReceiverState
  PROVE  /\ BatchOf(r) \in Seq(Delivery)
         /\ r.pc \notin {"off", "polling"} =>
              /\ r.pc \in {"next", "ack early", "handle", "ack", "ack failed"}
              /\ r = [pc |-> r.pc, batch |-> r.batch]
              /\ BatchOf(r) = r.batch /\ r.batch \in Seq(Delivery) /\ r.batch # <<>>
              /\ 1 \in DOMAIN r.batch /\ Head(r.batch) = r.batch[1]
              /\ Head(r.batch) \in Delivery
<1>1. CASE r \in {Off, Polling}
  <2>1. r.pc \in {"off", "polling"}
    BY <1>1 DEF Off, Polling
  <2>2. BatchOf(r) = <<>>
    BY <2>1 DEF BatchOf
  <2>3. BatchOf(r) \in Seq(Delivery)
    BY <2>2
  <2> QED
    BY ONLY <2>1, <2>3, Zenon
<1>2. CASE r \notin {Off, Polling}
  <2>1. /\ r.pc \in {"next", "ack early", "handle", "ack", "ack failed"}
        /\ r.batch \in Seq(Delivery) /\ r.batch # <<>>
        /\ r = [pc |-> r.pc, batch |-> r.batch]
    BY <1>2 DEF ReceiverState
  <2>3. 1 \in DOMAIN r.batch /\ Head(r.batch) = r.batch[1] /\ Head(r.batch) \in Delivery
    BY ONLY <2>1, NonEmptySeq
  <2> QED
    BY <2>1, <2>3 DEF BatchOf
<1> QED
  BY <1>1, <1>2

LEMMA SubmitKeepsIInv ==
  ASSUME DeliveryIInv, OutboxInv', EntriesEnqueued', NEW f \in Flusher, Submit(f)
  PROVE  DeliveryIInv'
<1>2. PICK p \in Packet : p = flusher[f].entry.packet
  BY CallEntry DEF DeliveryIInv, OutboxInv, TypeOK, Row, Submit, RelayAccepts
<1>1. /\ UNCHANGED <<rows, policy, receiver, inbox, handled, lapsed, faults>>
      /\ accepted' = accepted \cup {p} /\ flusher[f].pc = "call" /\ ~flusher[f].answered
  BY <1>2 DEF Submit, RelayAccepts, app
<1>3. /\ flusher'[f].pc = "call" /\ flusher'[f].answered /\ flusher'[f].entry = flusher[f].entry
      /\ \A g \in Flusher \ {f} : flusher'[g] = flusher[g]
  <2>1. flusher[f] \in [pc : {"call"}, todo : SUBSET Row, entry : Row, answered : BOOLEAN]
    BY <1>1 DEF DeliveryIInv, OutboxInv, TypeOK, FlusherState
  <2>2. flusher' = [flusher EXCEPT ![f] = [flusher[f] EXCEPT !.answered = TRUE]]
    BY DEF Submit, RelayAccepts
  <2> QED
    BY <2>1, <2>2 DEF DeliveryIInv, OutboxInv, TypeOK
<1>4. Answered(p)' /\ \A q : Answered(q) => Answered(q)'
  BY <1>2, <1>3 DEF Answered
<1>5. CASE Queued(p)
  <2>1. UNCHANGED <<queue, created, disturbed>>
    BY <1>2, <1>5 DEF Submit, relay
  <2>2. DeliveryTypeOK'
    BY <1>1, <2>1 DEF DeliveryIInv, DeliveryTypeOK, OutboxInv
  <2>3. QueueInv'
    BY <1>1, <2>1 DEF DeliveryIInv, QueueInv, OnePerPacketQueued, Numbered, Distinct, Batched, BatchOf
  <2>4. AckInv'
    BY <1>1, <2>1 DEF DeliveryIInv, AckInv, Current, InQueue
  <2>5. Custody'
    <3>1. \A q : (Queued(q)' <=> Queued(q)) /\ (q \in Taken => q \in Taken')
      BY <1>1, <2>1 DEF Queued, Taken
    <3> QED
      BY <1>1, <1>5, <3>1 DEF DeliveryIInv, Custody
  <2>6. CreatedOnce'
    BY <1>1, <1>4, <2>1 DEF DeliveryIInv, CreatedOnce, SentOff
  <2>7. HandledOnce'
    BY <1>1, <2>1 DEF DeliveryIInv, HandledOnce, Queued, Batched, Current
  <2> QED
    BY <2>2, <2>3, <2>4, <2>5, <2>6, <2>7 DEF DeliveryIInv
<1>6. CASE ~Queued(p)
  <2>1. /\ created[p] < MaxDeliveries /\ created' = [created EXCEPT ![p] = created[p] + 1]
        /\ queue' = Append(queue, [packet |-> p, id |-> created'[p]])
        /\ disturbed' = IF Overlapping(f, p) THEN disturbed \cup {p} ELSE disturbed
    BY <1>2, <1>6 DEF Submit
  <2>t. /\ queue \in Seq(Delivery) /\ created \in [Packet -> 0 .. MaxDeliveries]
        /\ receiver \in ReceiverState /\ handled \in [Packet -> 0 .. HandledCap]
        /\ inbox \subseteq Delivery
    BY DEF DeliveryIInv, DeliveryTypeOK
  <2>2. created'[p] = created[p] + 1 /\ \A q \in Packet : q # p => created'[q] = created[q]
    BY <1>2, <2>1, <2>t
  <2>3. PICK d \in Delivery : d.packet = p /\ d.id = created[p] + 1 /\ queue' = Append(queue, d)
    <3>1. [packet |-> p, id |-> created[p] + 1] \in Delivery
      BY <2>1, <2>t DEF Delivery
    <3> QED
      BY <2>1, <2>2, <3>1
  <2>4. /\ queue' \in Seq(Delivery) /\ DOMAIN queue \subseteq DOMAIN queue'
        /\ \A i \in DOMAIN queue : queue'[i] = queue[i]
        /\ \E j \in DOMAIN queue' : /\ j \notin DOMAIN queue /\ queue'[j] = d
                                    /\ DOMAIN queue' = DOMAIN queue \cup {j}
    <3>1. queue \in Seq(Delivery)
      BY <2>t
    <3> QED
      BY ONLY <2>3, <3>1, AppendPlaces
  <2>5. \A i \in DOMAIN queue : queue[i] \in Delivery /\ queue[i].packet \in Packet /\ queue[i].packet # p
    <3>1. \A i \in DOMAIN queue : queue[i] \in Delivery
      BY <2>t
    <3> QED
      BY <1>6, <3>1 DEF Queued, Delivery
  <2>6. Batched \in Seq(Delivery) /\ Batched' = Batched
    BY <1>1, <2>t, BatchPlaces DEF Batched
  <2>7. \A e \in Delivery : /\ e.packet \in Packet /\ e.id \in Nat
                            /\ created[e.packet] \in Nat /\ created'[e.packet] \in Nat
                            /\ created'[e.packet] >= created[e.packet]
    <3>1. \A q \in Packet : /\ created[q] \in Nat /\ created'[q] \in Nat
                            /\ created'[q] >= created[q]
      <4>1. \A q \in Packet : created[q] \in Nat
        BY <2>t
      <4> QED
        BY <2>2, <4>1
    <3> QED
      BY <3>1 DEF Delivery
  <2>8. DeliveryTypeOK'
    <3>1. created' \in [Packet -> 0 .. MaxDeliveries]
      BY <1>2, <2>1, <2>t
    <3>2. disturbed' \subseteq Packet
      BY <1>2, <2>1 DEF DeliveryIInv, DeliveryTypeOK
    <3> QED
      BY <1>1, <2>4, <3>1, <3>2 DEF DeliveryIInv, DeliveryTypeOK, OutboxInv
  <2>9. QueueInv'
    <3>1. OnePerPacketQueued'
      BY <2>3, <2>4, <2>5 DEF DeliveryIInv, QueueInv, OnePerPacketQueued
    <3>2. \A i \in DOMAIN queue' : queue'[i].id <= created'[queue'[i].packet]
      <4>1. \A i \in DOMAIN queue : queue[i].id <= created'[queue[i].packet]
        BY <2>5, <2>2 DEF DeliveryIInv, QueueInv, Numbered
      <4>2. d.id <= created'[d.packet]
        BY <2>2, <2>3, <2>t, <1>2
      <4> QED
        BY <2>4, <4>1, <4>2
    <3>3. \A i \in DOMAIN Batched : Batched[i].id <= created'[Batched[i].packet]
      <4>1. \A i \in DOMAIN Batched : Batched[i] \in Delivery
        BY <2>6
      <4>2. \A i \in DOMAIN Batched : Batched[i].id <= created[Batched[i].packet]
        BY DEF DeliveryIInv, QueueInv, Numbered
      <4> QED
        BY <2>7, <4>1, <4>2
    <3>4. \A q \in Packet : created'[q] > 0 => q \in accepted'
      BY <1>1, <2>2 DEF DeliveryIInv, QueueInv
    <3>5. \A e \in inbox' : created'[e.packet] > 0
      BY <1>1, <2>7, <2>t DEF DeliveryIInv, QueueInv
    <3>6. \A q \in Packet : handled'[q] > 0 => created'[q] > 0
      BY <1>1, <2>2, <2>t DEF DeliveryIInv, QueueInv
    <3> QED
      BY <2>6, <3>1, <3>2, <3>3, <3>4, <3>5, <3>6 DEF DeliveryIInv, QueueInv, Numbered, Distinct
  <2>10. AckInv'
    <3>1. receiver.pc = "handle" /\ policy = "after_store" => ~InQueue(Current)'
      <4> SUFFICES ASSUME receiver.pc = "handle", policy = "after_store"
                   PROVE  ~InQueue(Current)'
        OBVIOUS
      <4>1. Current' = Current /\ ~InQueue(Current)
        BY <1>1 DEF Current, DeliveryIInv, AckInv
      <4>2. Current \in Delivery /\ Current.id <= created[Current.packet]
        BY <2>t, BatchPlaces DEF DeliveryIInv, QueueInv, Numbered, Batched, Current
      <4>3. Current # d
        BY <2>3, <2>7, <4>2
      <4> QED
        BY <2>4, <4>1, <4>3 DEF InQueue
    <3> QED
      BY <1>1, <3>1 DEF DeliveryIInv, AckInv, Current
  <2>11. Queued(p)' /\ \A q : q # p => (Queued(q)' <=> Queued(q))
    BY <2>3, <2>4 DEF Queued
  <2>12. Custody'
    <3>1. \A q : q \in Taken => q \in Taken'
      BY <1>1 DEF Taken
    <3>2. DeadIn(rows)' \subseteq lapsed'
      BY <1>1 DEF DeliveryIInv, Custody
    <3> QED
      BY <1>1, <2>11, <3>1, <3>2 DEF DeliveryIInv, Custody
  <2>13. p \notin disturbed' => created[p] = 0
    <3> SUFFICES ASSUME p \notin disturbed', created[p] # 0 PROVE FALSE
      OBVIOUS
    <3>1. ~Overlapping(f, p) /\ p \notin disturbed
      BY <2>1
    <3>2. SentOff(p)
      BY <1>2, <2>t, <3>1 DEF DeliveryIInv, CreatedOnce
    <3>3. p \in PacketsIn(rows)
      BY <3>1 DEF Overlapping, RowsOf, PacketsIn
    <3>4. PICK g \in Flusher : /\ flusher[g].pc = "call" /\ flusher[g].answered
                               /\ flusher[g].entry.packet = p
      BY <3>2, <3>3 DEF SentOff, Answered
    <3> QED
      BY <1>1, <3>1, <3>4 DEF Overlapping
  <2>14. CreatedOnce'
    <3> SUFFICES ASSUME NEW q \in Packet, q \notin disturbed'
                 PROVE  created'[q] <= 1 /\ (created'[q] > 0 => SentOff(q)')
      BY DEF CreatedOnce
    <3>1. q \notin disturbed
      BY <2>1
    <3>2. CASE q = p
      BY <1>4, <2>2, <2>13, <3>2 DEF SentOff
    <3>3. CASE q # p
      BY <1>1, <1>4, <2>2, <3>1, <3>3 DEF DeliveryIInv, CreatedOnce, SentOff
    <3> QED
      BY <3>2, <3>3
  <2>15. HandledOnce'
    <3> SUFFICES ASSUME policy' # "manual", NEW q \in Packet, q \notin disturbed', handled'[q] > 0
                 PROVE  /\ handled'[q] = 1
                        /\ Queued(q)' => receiver'.pc = "ack" /\ Current'.packet = q
                        /\ \A i \in DOMAIN Batched' :
                             Batched'[i].packet = q => i = 1 /\ receiver'.pc = "ack"
      BY DEF HandledOnce
    <3>1. created[q] > 0
      BY <1>1 DEF DeliveryIInv, QueueInv
    <3>2. q # p /\ q \notin disturbed
      BY <2>1, <2>13, <3>1
    <3> QED
      BY <1>1, <2>6, <2>11, <3>2 DEF DeliveryIInv, HandledOnce, Current
  <2> QED
    BY <2>8, <2>9, <2>10, <2>12, <2>14, <2>15 DEF DeliveryIInv
<1> QED
  BY <1>5, <1>6

----------------------------------------------------------------------------
(* The relay retires a delivery, and the receiver goes on.                 *)

LEMMA RetireQueue ==
  ASSUME queue \in Seq(Delivery), OnePerPacketQueued, NEW d, Retire(d)
  PROVE  /\ queue' \in Seq(Delivery) /\ OnePerPacketQueued'
         /\ d \in Delivery /\ InQueue(d) /\ Queued(d.packet)
         /\ \A i \in DOMAIN queue' : \E k \in DOMAIN queue : queue'[i] = queue[k]
         /\ \A i \in DOMAIN queue' : queue'[i] # d
         /\ \A p : Queued(p)' <=> Queued(p) /\ p # d.packet
<1>1. PICK n \in DOMAIN queue : queue[n] = d /\ queue' = RemoveAt(queue, n)
  BY DEF Retire
<1>2. /\ queue' \in Seq(Delivery)
      /\ \A j \in DOMAIN queue' : \E k \in DOMAIN queue : k # n /\ queue'[j] = queue[k]
      /\ \A k \in DOMAIN queue : k # n => \E j \in DOMAIN queue' : queue'[j] = queue[k]
      /\ \A j, l \in DOMAIN queue' : j # l =>
           \E k, m \in DOMAIN queue : k # m /\ queue'[j] = queue[k] /\ queue'[l] = queue[m]
  BY ONLY <1>1, queue \in Seq(Delivery), RemoveAtPlaces
<1>3. d \in Delivery /\ InQueue(d) /\ Queued(d.packet)
  BY <1>1 DEF InQueue, Queued
<1>4. OnePerPacketQueued'
  <2> SUFFICES ASSUME NEW j \in DOMAIN queue', NEW l \in DOMAIN queue',
                      queue'[j].packet = queue'[l].packet, j # l
               PROVE  FALSE
    BY DEF OnePerPacketQueued
  <2>1. PICK k, m \in DOMAIN queue : k # m /\ queue'[j] = queue[k] /\ queue'[l] = queue[m]
    BY <1>2
  <2> QED
    BY <2>1 DEF OnePerPacketQueued
<1>5. \A i \in DOMAIN queue' : queue'[i].packet # d.packet /\ queue'[i] # d
  BY <1>1, <1>2 DEF OnePerPacketQueued
<1>6. ASSUME NEW p PROVE Queued(p)' <=> Queued(p) /\ p # d.packet
  <2>1. ASSUME NEW k \in DOMAIN queue, queue[k].packet = p, p # d.packet PROVE Queued(p)'
    BY <1>1, <1>2, <2>1 DEF Queued
  <2>2. ASSUME NEW i \in DOMAIN queue', queue'[i].packet = p PROVE Queued(p) /\ p # d.packet
    BY <1>2, <1>5, <2>2 DEF Queued
  <2> QED
    BY <2>1, <2>2 DEF Queued
<1> QED
  BY <1>2, <1>3, <1>4, <1>5, <1>6

\* What is left of the batch are its last deliveries.
BatchAdvances == \A i \in DOMAIN Batched' : i + 1 \in DOMAIN Batched /\ Batched'[i] = Batched[i + 1]
BatchShrinks  == Batched' = Batched \/ BatchAdvances

LEMMA GotoStep ==
  ASSUME receiver \in ReceiverState, receiver.pc \notin {"off", "polling"},
         NEW pc \in {"next", "ack early", "handle", "ack", "ack failed"}, Goto(pc)
  PROVE  /\ receiver' \in ReceiverState /\ receiver'.pc = pc
         /\ Batched' = Batched /\ Current' = Current /\ BatchShrinks
<1>1. /\ receiver = [pc |-> receiver.pc, batch |-> receiver.batch]
      /\ receiver.batch \in Seq(Delivery) \ {<<>>} /\ Batched \in Seq(Delivery)
  BY BatchPlaces DEF Batched
<1>2. receiver' = [pc |-> pc, batch |-> receiver.batch]
  BY <1>1 DEF Goto
<1>3. receiver' \in ReceiverState
  BY <1>1, <1>2 DEF ReceiverState
<1>4. Batched' = Batched /\ Current' = Current
  BY <1>2 DEF Batched, BatchOf, Current
<1> QED
  BY <1>2, <1>3, <1>4 DEF BatchShrinks

LEMMA RaiseStep ==
  ASSUME Raise
  PROVE  /\ receiver' \in ReceiverState /\ receiver'.pc = "off"
         /\ Batched' = <<>> /\ BatchAdvances
<1>1. receiver' = Off /\ receiver'.pc = "off"
  BY DEF Raise, Off
<1>2. Batched' = <<>>
  BY <1>1 DEF Batched, BatchOf
<1>3. DOMAIN <<>> = {}
  OBVIOUS
<1> QED
  BY <1>1, <1>2, <1>3 DEF ReceiverState, BatchAdvances

LEMMA AdvanceStep ==
  ASSUME receiver \in ReceiverState, receiver.pc \notin {"off", "polling"}, Advance
  PROVE  /\ receiver' \in ReceiverState /\ receiver'.pc \in {"polling", "next"}
         /\ BatchAdvances
<1> DEFINE b == receiver.batch
<1>1. b \in Seq(Delivery) /\ Batched = b /\ Len(b) \in Nat \ {0}
  BY BatchPlaces, NonEmptySeq DEF Batched
<1>2. CASE Len(b) = 1
  <2>1. receiver' = Polling /\ receiver'.pc = "polling" /\ Batched' = <<>>
    BY <1>2 DEF Advance, Polling, Batched, BatchOf
  <2>2. DOMAIN <<>> = {}
    OBVIOUS
  <2> QED
    BY <2>1, <2>2 DEF ReceiverState, BatchAdvances
<1>3. CASE Len(b) # 1
  <2>1. receiver' = [pc |-> "next", batch |-> Tail(b)]
    BY <1>3 DEF Advance
  <2>2. /\ Tail(b) \in Seq(Delivery) /\ Len(Tail(b)) = Len(b) - 1
        /\ \A i \in 1 .. Len(b) - 1 : Tail(b)[i] = b[i + 1]
    BY <1>1
  <2>3. Tail(b) # <<>> /\ DOMAIN Tail(b) = 1 .. Len(b) - 1
    <3>1. DOMAIN Tail(b) = 1 .. Len(b) - 1
      BY ONLY <2>2, LenProperties
    <3>2. Tail(b) # <<>>
      <4>1. Len(Tail(b)) # 0
        BY ONLY <1>1, <1>3, <2>2
      <4>2. Len(<<>>) = 0
        OBVIOUS
      <4> QED
        BY <4>1, <4>2
    <3> QED
      BY <3>1, <3>2
  <2>4. Batched' = Tail(b)
    BY <2>1 DEF Batched, BatchOf
  <2> HIDE DEF b
  <2>5. receiver' \in ReceiverState
    BY <2>1, <2>2, <2>3 DEF ReceiverState
  <2>6. \A i \in DOMAIN Batched' : i + 1 \in DOMAIN Batched /\ Batched'[i] = Batched[i + 1]
    BY <1>1, <2>2, <2>3, <2>4
  <2> QED
    BY <2>1, <2>5, <2>6 DEF BatchAdvances
<1> QED
  BY <1>2, <1>3

----------------------------------------------------------------------------
(* What the receiver's steps keep.                                         *)

LEMMA ReceiverTypes ==
  ASSUME DeliveryIInv
  PROVE  /\ queue \in Seq(Delivery) /\ receiver \in ReceiverState /\ Batched \in Seq(Delivery)
         /\ OnePerPacketQueued /\ inbox \subseteq Delivery
         /\ \A i \in DOMAIN queue : queue[i] \in Delivery
         /\ \A i \in DOMAIN Batched : i \in Nat \ {0} /\ Batched[i] \in Delivery
         /\ \A d \in Delivery : d.packet \in Packet /\ d.id \in Nat \ {0}
         /\ \A p \in Packet : created[p] \in Nat /\ handled[p] \in Nat
<1>1. /\ queue \in Seq(Delivery) /\ receiver \in ReceiverState /\ inbox \subseteq Delivery
      /\ created \in [Packet -> 0 .. MaxDeliveries] /\ handled \in [Packet -> 0 .. HandledCap]
      /\ OnePerPacketQueued
  BY DEF DeliveryIInv, DeliveryTypeOK, QueueInv
<1>2. Batched \in Seq(Delivery)
  BY <1>1, BatchPlaces DEF Batched
<1>3. \A i \in DOMAIN queue : queue[i] \in Delivery
  BY <1>1
<1>4. \A i \in DOMAIN Batched : i \in Nat \ {0} /\ Batched[i] \in Delivery
  <2> SUFFICES ASSUME NEW b \in Seq(Delivery), NEW i \in DOMAIN b
               PROVE  i \in Nat \ {0} /\ b[i] \in Delivery
    BY <1>2
  <2> QED
    BY LenProperties, ElementOfSeq
<1>5. \A d \in Delivery : d.packet \in Packet /\ d.id \in Nat \ {0}
  BY DEF Delivery
<1>6. \A p \in Packet : created[p] \in Nat /\ handled[p] \in Nat
  BY <1>1 DEF HandledCap
<1> QED
  BY <1>1, <1>2, <1>3, <1>4, <1>5, <1>6

\* The delivery the receiver works on.
LEMMA CurrentIs ==
  ASSUME DeliveryIInv, receiver.pc \notin {"off", "polling"}
  PROVE  /\ receiver.pc \in {"next", "ack early", "handle", "ack", "ack failed"}
         /\ 1 \in DOMAIN Batched /\ Current = Batched[1] /\ Current \in Delivery
         /\ Current.packet \in Packet /\ created[Current.packet] > 0
         /\ Current.packet \in accepted /\ Current.packet \in enqueued
<1>1. /\ receiver.pc \in {"next", "ack early", "handle", "ack", "ack failed"}
      /\ 1 \in DOMAIN Batched /\ Current = Batched[1] /\ Current \in Delivery
  BY ReceiverTypes, BatchPlaces DEF Batched, Current
<1>2. Current.packet \in Packet /\ Current.id \in Nat \ {0} /\ created[Current.packet] \in Nat
  BY <1>1, ReceiverTypes
<1>3. Current.id <= created[Current.packet]
  BY <1>1 DEF DeliveryIInv, QueueInv, Numbered
<1>4. created[Current.packet] > 0
  BY <1>2, <1>3
<1>5. Current.packet \in accepted /\ Current.packet \in enqueued
  BY <1>2, <1>4 DEF DeliveryIInv, QueueInv, EntriesEnqueued
<1> QED
  BY <1>1, <1>2, <1>4, <1>5

\* An undisturbed packet has had one delivery, which is wherever it shows.
LEMMA OneDelivery ==
  ASSUME DeliveryIInv, NEW p \in Packet, p \notin disturbed
  PROVE  /\ \A i \in DOMAIN queue, j \in DOMAIN Batched :
              queue[i].packet = p /\ Batched[j].packet = p => queue[i] = Batched[j]
         /\ \A i, j \in DOMAIN Batched :
              Batched[i].packet = p /\ Batched[j].packet = p => i = j
<1>1. created[p] <= 1 /\ created[p] \in Nat
  BY ReceiverTypes DEF DeliveryIInv, CreatedOnce
<1>2. \A d, e \in Delivery :
        d.packet = p /\ d.id <= created[d.packet] /\ e.packet = p /\ e.id <= created[e.packet]
          => d = e
  <2> SUFFICES ASSUME NEW d \in Delivery, NEW e \in Delivery,
                      d.packet = p, d.id <= created[d.packet],
                      e.packet = p, e.id <= created[e.packet]
               PROVE  d = e
    OBVIOUS
  <2>1. d.id \in Nat \ {0} /\ e.id \in Nat \ {0}
    BY ReceiverTypes
  <2>2. d.id = 1 /\ e.id = 1
    BY <1>1, <2>1
  <2> QED
    BY <2>2 DEF Delivery
<1>3. \A i \in DOMAIN queue : queue[i] \in Delivery /\ queue[i].id <= created[queue[i].packet]
  BY ReceiverTypes DEF DeliveryIInv, QueueInv, Numbered
<1>4. \A i \in DOMAIN Batched : Batched[i] \in Delivery /\ Batched[i].id <= created[Batched[i].packet]
  BY ReceiverTypes DEF DeliveryIInv, QueueInv, Numbered
<1>5. Distinct(Batched)
  BY DEF DeliveryIInv, QueueInv
<1> QED
  BY <1>2, <1>3, <1>4, <1>5 DEF Distinct

LEMMA BatchKept ==
  ASSUME DeliveryIInv, UNCHANGED created, receiver' \in ReceiverState, BatchShrinks
  PROVE  Distinct(Batched)' /\ Numbered(Batched)'
<1>1. CASE Batched' = Batched
  BY <1>1 DEF DeliveryIInv, QueueInv, Distinct, Numbered
<1>2. CASE BatchAdvances
  <2>1. Batched' \in Seq(Delivery)
    BY BatchPlaces DEF Batched
  <2>2. \A i \in DOMAIN Batched' : i \in Nat
    <3> SUFFICES ASSUME NEW b \in Seq(Delivery), NEW i \in DOMAIN b PROVE i \in Nat
      BY <2>1
    <3> QED
      BY LenProperties
  <2>3. \A i, j \in DOMAIN Batched' : i + 1 = j + 1 => i = j
    BY <2>2
  <2>4. Distinct(Batched) /\ Numbered(Batched)
    BY DEF DeliveryIInv, QueueInv
  <2>5. Distinct(Batched)'
    BY <1>2, <2>3, <2>4 DEF Distinct, BatchAdvances
  <2>6. Numbered(Batched)'
    BY <1>2, <2>4 DEF Numbered, BatchAdvances
  <2> QED
    BY <2>5, <2>6
<1> QED
  BY <1>1, <1>2 DEF BatchShrinks

LEMMA CreatedOnceKept ==
  ASSUME DeliveryIInv, UNCHANGED <<vars, created>>, disturbed \subseteq disturbed'
  PROVE  CreatedOnce'
<1>1. \A p : SentOff(p) => SentOff(p)'
  BY DEF vars, SentOff, Answered, PacketsIn
<1> QED
  BY <1>1 DEF DeliveryIInv, CreatedOnce

LEMMA CustodyKept ==
  ASSUME DeliveryIInv, UNCHANGED <<vars, policy>>, lapsed \subseteq lapsed',
         inbox \subseteq inbox', \A p \in Packet : handled[p] > 0 => handled'[p] > 0,
         \A p : Queued(p) => Queued(p)' \/ p \in Taken' \/ p \in lapsed'
  PROVE  Custody'
<1>1. UNCHANGED <<accepted, rows>>
  BY DEF vars
<1>2. Taken \subseteq Taken'
  BY DEF Taken
<1>3. DeadIn(rows)' \subseteq lapsed'
  BY <1>1 DEF DeliveryIInv, Custody
<1> QED
  BY <1>1, <1>2, <1>3 DEF DeliveryIInv, Custody

\* Between two ACKs neither queue nor batch has what was handled.
LEMMA HandledKept ==
  ASSUME DeliveryIInv, receiver.pc # "ack", UNCHANGED <<policy, handled>>,
         disturbed \subseteq disturbed', \A p : Queued(p)' => Queued(p), BatchShrinks
  PROVE  HandledOnce'
<1> SUFFICES ASSUME policy # "manual", NEW p \in Packet, p \notin disturbed', handled[p] > 0
             PROVE  /\ handled'[p] = 1
                    /\ Queued(p)' => receiver'.pc = "ack" /\ Current'.packet = p
                    /\ \A i \in DOMAIN Batched' :
                         Batched'[i].packet = p => i = 1 /\ receiver'.pc = "ack"
  BY DEF HandledOnce
<1>1. handled[p] = 1 /\ ~Queued(p) /\ \A i \in DOMAIN Batched : Batched[i].packet # p
  BY DEF DeliveryIInv, HandledOnce
<1>2. \A i \in DOMAIN Batched' : Batched'[i].packet # p
  BY <1>1 DEF BatchShrinks, BatchAdvances
<1> QED
  BY <1>1, <1>2

\* After an ACK the delivery has left the queue, or its packet is disturbed.
LEMMA HandledAcked ==
  ASSUME DeliveryIInv, receiver.pc = "ack", UNCHANGED <<policy, handled>>,
         disturbed \subseteq disturbed', receiver' \in ReceiverState, BatchAdvances,
         \A i \in DOMAIN queue' : \E k \in DOMAIN queue : queue'[i] = queue[k],
         Current.packet \in disturbed' \/ ~\E i \in DOMAIN queue' : queue'[i] = Current
  PROVE  HandledOnce'
<1> SUFFICES ASSUME policy # "manual", NEW p \in Packet, p \notin disturbed', handled[p] > 0
             PROVE  /\ handled'[p] = 1
                    /\ Queued(p)' => receiver'.pc = "ack" /\ Current'.packet = p
                    /\ \A i \in DOMAIN Batched' :
                         Batched'[i].packet = p => i = 1 /\ receiver'.pc = "ack"
  BY DEF HandledOnce
<1>1. /\ handled[p] = 1 /\ (Queued(p) => Current.packet = p)
      /\ \A i \in DOMAIN Batched : Batched[i].packet = p => i = 1
  BY DEF DeliveryIInv, HandledOnce
<1>2. \A i \in DOMAIN Batched' : Batched'[i].packet # p
  <2> SUFFICES ASSUME NEW i \in DOMAIN Batched', Batched'[i].packet = p PROVE FALSE
    OBVIOUS
  <2>1. i + 1 \in DOMAIN Batched /\ Batched[i + 1].packet = p
    BY DEF BatchAdvances
  <2>2. i + 1 = 1
    BY <1>1, <2>1
  <2>3. i \in Nat \ {0}
    <3>1. Batched' \in Seq(Delivery)
      BY BatchPlaces DEF Batched
    <3> QED
      BY <3>1, LenProperties
  <2> QED
    BY <2>2, <2>3
<1>3. ~Queued(p)'
  <2> SUFFICES ASSUME NEW i \in DOMAIN queue', queue'[i].packet = p PROVE FALSE
    BY DEF Queued
  <2>1. PICK k \in DOMAIN queue : queue[k] = queue'[i]
    OBVIOUS
  <2>2. Current.packet = p /\ 1 \in DOMAIN Batched /\ Current = Batched[1]
    BY <1>1, <2>1, CurrentIs DEF Queued
  <2>3. queue[k] = Current
    BY <2>1, <2>2, OneDelivery
  <2> QED
    BY <2>1, <2>2, <2>3
<1> QED
  BY <1>1, <1>2, <1>3

LEMMA QueueKept ==
  ASSUME DeliveryIInv, UNCHANGED queue \/ \E d : Retire(d)
  PROVE  /\ queue' \in Seq(Delivery) /\ OnePerPacketQueued'
         /\ \A i \in DOMAIN queue' : \E k \in DOMAIN queue : queue'[i] = queue[k]
         /\ \A p : Queued(p)' => Queued(p)
<1>1. CASE UNCHANGED queue
  BY <1>1, ReceiverTypes DEF OnePerPacketQueued, Queued
<1>2. ASSUME NEW d, Retire(d)
      PROVE  /\ queue' \in Seq(Delivery) /\ OnePerPacketQueued'
             /\ \A i \in DOMAIN queue' : \E k \in DOMAIN queue : queue'[i] = queue[k]
             /\ \A p : Queued(p)' => Queued(p)
  BY <1>2, ReceiverTypes, RetireQueue
<1> QED
  BY <1>1, <1>2

\* A step of the receiver: what is left to show of each.
LEMMA ReceiverStepKeeps ==
  ASSUME DeliveryIInv, OutboxInv', EntriesEnqueued', UNCHANGED <<vars, created, policy>>,
         UNCHANGED queue \/ \E d : Retire(d),
         receiver' \in ReceiverState, Distinct(Batched)', Numbered(Batched)',
         inbox \subseteq inbox', inbox' \subseteq Delivery,
         \A d \in inbox' : created[d.packet] > 0,
         handled' \in [Packet -> 0 .. HandledCap],
         \A p \in Packet : /\ handled[p] > 0 => handled'[p] > 0
                           /\ handled'[p] > 0 => created[p] > 0,
         lapsed \subseteq lapsed', lapsed' \subseteq Packet,
         disturbed \subseteq disturbed', disturbed' \subseteq Packet,
         faults' \in 0 .. MaxFaults,
         \A p : Queued(p) => Queued(p)' \/ p \in Taken' \/ p \in lapsed',
         AckInv', HandledOnce'
  PROVE  DeliveryIInv'
<1>1. /\ queue' \in Seq(Delivery) /\ OnePerPacketQueued'
      /\ \A i \in DOMAIN queue' : \E k \in DOMAIN queue : queue'[i] = queue[k]
  BY QueueKept
<1>2. DeliveryTypeOK'
  BY <1>1 DEF DeliveryIInv, DeliveryTypeOK, OutboxInv
<1>3. QueueInv'
  <2>1. Numbered(queue)'
    BY <1>1 DEF DeliveryIInv, QueueInv, Numbered
  <2>2. accepted' = accepted /\ created' = created
    BY DEF vars
  <2> QED
    BY <1>1, <2>1, <2>2 DEF DeliveryIInv, QueueInv
<1>4. Custody'
  BY CustodyKept
<1>5. CreatedOnce'
  BY CreatedOnceKept
<1> QED
  BY <1>2, <1>3, <1>4, <1>5 DEF DeliveryIInv

\* A step that takes nothing and changes neither queue nor faults.
LEMMA QuietStepKeeps ==
  ASSUME DeliveryIInv, OutboxInv', EntriesEnqueued', UNCHANGED <<vars, created, policy>>,
         UNCHANGED <<queue, inbox, handled, lapsed, disturbed, faults>>,
         receiver' \in ReceiverState, Distinct(Batched)', Numbered(Batched)',
         AckInv', HandledOnce'
  PROVE  DeliveryIInv'
<1>1. \A p : Queued(p) => Queued(p)'
  BY DEF Queued
<1>2. DeliveryTypeOK /\ QueueInv
  BY DEF DeliveryIInv
<1>3. /\ inbox \subseteq Delivery /\ handled \in [Packet -> 0 .. HandledCap]
      /\ lapsed \subseteq Packet /\ disturbed \subseteq Packet /\ faults \in 0 .. MaxFaults
      /\ \A d \in inbox : created[d.packet] > 0
      /\ \A p \in Packet : handled[p] > 0 => created[p] > 0
  BY <1>2 DEF DeliveryTypeOK, QueueInv
<1> QED
  BY <1>1, <1>3, ReceiverStepKeeps

\* The loop begins, or ends between two deliveries.
LEMMA LoopKeepsIInv ==
  ASSUME DeliveryIInv, OutboxInv', EntriesEnqueued', Start \/ LoopEnds
  PROVE  DeliveryIInv'
<1>1. /\ receiver.pc \in {"off", "polling"} /\ receiver' \in {Off, Polling}
      /\ UNCHANGED <<vars, queue, created, policy, inbox, handled, lapsed, disturbed, faults>>
  BY DEF Start, LoopEnds, Raise, relay, Off, Polling
<1>2. /\ receiver' \in ReceiverState /\ receiver'.pc \in {"off", "polling"}
      /\ Batched' = <<>> /\ Batched = <<>>
  <2>1. receiver' \in ReceiverState /\ receiver'.pc \in {"off", "polling"}
    <3>1. receiver' \in ReceiverState
      BY <1>1, Zenon DEF ReceiverState
    <3> QED
      BY <1>1, <3>1 DEF Off, Polling
  <2> QED
    BY <1>1, <2>1 DEF Batched, BatchOf
<1>3. DOMAIN <<>> = {}
  OBVIOUS
<1>4. Distinct(Batched)' /\ Numbered(Batched)'
  BY <1>2, <1>3 DEF Distinct, Numbered
<1>5. AckInv'
  BY <1>2 DEF AckInv
<1>6. HandledOnce'
  BY <1>1, <1>2, <1>3 DEF DeliveryIInv, HandledOnce, Queued
<1> QED
  BY <1>1, <1>2, <1>4, <1>5, <1>6, QuietStepKeeps

LEMMA PollKeepsIInv ==
  ASSUME DeliveryIInv, OutboxInv', EntriesEnqueued', Poll
  PROVE  DeliveryIInv'
<1> DEFINE n == Min({PollLimit, Len(queue)})
           b == SubSeq(queue, 1, n)
<1>1. /\ receiver = Polling /\ queue # <<>> /\ receiver' = [pc |-> "next", batch |-> b]
      /\ UNCHANGED <<vars, queue, created, policy, inbox, handled, lapsed, disturbed, faults>>
  BY DEF Poll, relay
<1>2. queue \in Seq(Delivery) /\ Len(queue) \in Nat \ {0} /\ DOMAIN queue = 1 .. Len(queue)
  BY <1>1, ReceiverTypes, NonEmptySeq
<1>3. n \in 1 .. Len(queue)
  BY <1>2 DEF Min
<1> HIDE DEF n
<1>4. b \in Seq(Delivery) /\ Len(b) = n /\ \A i \in 1 .. n : b[i] = queue[i]
  BY <1>2, <1>3, SubSeqProperties
<1> HIDE DEF b
<1>5. DOMAIN b = 1 .. n /\ b # <<>>
  <2>1. DOMAIN b = 1 .. n
    BY ONLY <1>4, LenProperties
  <2>2. Len(b) # 0 /\ Len(<<>>) = 0
    BY <1>3, <1>4
  <2> QED
    BY <2>1, <2>2
<1>6. receiver' \in ReceiverState /\ receiver'.pc = "next" /\ Batched' = b
  BY <1>1, <1>4, <1>5 DEF ReceiverState, Batched, BatchOf
<1>7. \A i \in DOMAIN b : i \in DOMAIN queue /\ b[i] = queue[i]
  BY <1>2, <1>3, <1>4, <1>5
<1>8. Distinct(Batched)' /\ Numbered(Batched)'
  BY <1>1, <1>6, <1>7 DEF DeliveryIInv, QueueInv, OnePerPacketQueued, Distinct, Numbered
<1>9. AckInv'
  BY <1>6 DEF AckInv
<1>10. HandledOnce'
  <2> SUFFICES ASSUME policy # "manual", NEW p \in Packet, p \notin disturbed, handled[p] > 0
               PROVE  /\ handled[p] = 1 /\ ~Queued(p)
    BY <1>1, <1>6, <1>7 DEF HandledOnce, Queued
  <2> QED
    BY <1>1 DEF DeliveryIInv, HandledOnce, Polling
<1> QED
  BY <1>1, <1>6, <1>8, <1>9, <1>10, QuietStepKeeps

LEMMA BeginKeepsIInv ==
  ASSUME DeliveryIInv, OutboxInv', EntriesEnqueued', Begin
  PROVE  DeliveryIInv'
<1>1. /\ receiver.pc = "next"
      /\ UNCHANGED <<vars, queue, created, policy, handled, lapsed, disturbed, faults>>
  BY DEF Begin, relay
<1>2. PICK pc \in {"ack early", "handle"} :
        /\ Goto(pc)
        /\ pc = "ack early" => policy = "after_store" /\ inbox' = inbox \cup {Current}
        /\ pc = "handle" => policy # "after_store" /\ inbox' = inbox
  BY DEF Begin
<1>3. /\ receiver' \in ReceiverState /\ receiver'.pc = pc /\ Batched' = Batched
      /\ Current' = Current /\ BatchShrinks
  BY <1>1, <1>2, ReceiverTypes, GotoStep
<1>4. Distinct(Batched)' /\ Numbered(Batched)'
  BY <1>1, <1>3, BatchKept
<1>5. Current \in Delivery /\ created[Current.packet] > 0
  BY <1>1, CurrentIs
<1>6. AckInv'
  BY <1>1, <1>2, <1>3 DEF AckInv
<1>7. HandledOnce'
  BY <1>1, <1>3, HandledKept DEF Queued
<1>8. /\ inbox \subseteq inbox' /\ inbox' \subseteq Delivery
      /\ \A d \in inbox' : created[d.packet] > 0
  BY <1>2, <1>5, ReceiverTypes DEF DeliveryIInv, QueueInv
<1>9. /\ handled \in [Packet -> 0 .. HandledCap]
      /\ lapsed \subseteq Packet /\ disturbed \subseteq Packet /\ faults \in 0 .. MaxFaults
      /\ \A p \in Packet : handled[p] > 0 => created[p] > 0
  BY DEF DeliveryIInv, DeliveryTypeOK, QueueInv
<1>10. \A p : Queued(p) => Queued(p)'
  BY <1>1 DEF Queued
<1> QED
  BY <1>1, <1>3, <1>4, <1>6, <1>7, <1>8, <1>9, <1>10, ReceiverStepKeeps

LEMMA HandleFailsKeepsIInv ==
  ASSUME DeliveryIInv, OutboxInv', EntriesEnqueued', HandleFails
  PROVE  DeliveryIInv'
<1>1. /\ receiver.pc = "handle" /\ (Goto("ack failed") \/ Raise)
      /\ UNCHANGED <<vars, queue, created, policy, inbox, handled, lapsed, disturbed, faults>>
  BY DEF HandleFails, AfterFailure, relay
<1>2. /\ receiver' \in ReceiverState /\ receiver'.pc \in {"ack failed", "off"}
      /\ BatchShrinks
  BY <1>1, ReceiverTypes, GotoStep, RaiseStep DEF BatchShrinks
<1>3. Distinct(Batched)' /\ Numbered(Batched)'
  BY <1>1, <1>2, BatchKept
<1>4. AckInv'
  BY <1>2 DEF AckInv
<1>5. HandledOnce'
  BY <1>1, <1>2, HandledKept DEF Queued
<1> QED
  BY <1>1, <1>2, <1>3, <1>4, <1>5, QuietStepKeeps

LEMMA HandleOkKeepsIInv ==
  ASSUME DeliveryIInv, OutboxInv', EntriesEnqueued', HandleOk
  PROVE  DeliveryIInv'
<1>1. PICK c \in Packet : c = Current.packet /\ created[c] > 0
  BY CurrentIs DEF HandleOk
<1>2. /\ receiver.pc = "handle"
      /\ handled' = [handled EXCEPT ![c] = IF handled[c] < HandledCap THEN handled[c] + 1
                                           ELSE handled[c]]
      /\ UNCHANGED <<vars, queue, created, policy, inbox, lapsed, disturbed, faults>>
  BY <1>1 DEF HandleOk, relay
<1>3. PICK pc \in AfterHandlers : IF pc = "next" THEN Advance ELSE Goto(pc)
  BY DEF HandleOk
<1>4. /\ policy \in {"after_handler_success", "after_store", "always", "manual"}
      /\ handled \in [Packet -> 0 .. HandledCap]
      /\ lapsed \subseteq Packet /\ disturbed \subseteq Packet /\ faults \in 0 .. MaxFaults
      /\ \A p \in Packet : handled[p] > 0 => created[p] > 0
      /\ \A d \in inbox : created[d.packet] > 0
  BY DEF DeliveryIInv, DeliveryTypeOK, QueueInv
<1>5. \/ pc = "ack" /\ policy # "after_store" /\ Goto("ack")
      \/ pc = "next" /\ policy \in {"manual", "after_store"} /\ Advance
  BY <1>3, <1>4 DEF AfterHandlers
<1>6. /\ handled'[c] > 0 /\ (handled[c] = 0 => handled'[c] = 1)
      /\ \A p \in Packet : p # c => handled'[p] = handled[p]
      /\ handled' \in [Packet -> 0 .. HandledCap]
  BY <1>2, <1>4 DEF HandledCap
<1>7. /\ receiver' \in ReceiverState /\ BatchShrinks
      /\ pc = "ack" => /\ receiver'.pc = "ack" /\ Batched' = Batched /\ Current' = Current
      /\ pc = "next" => receiver'.pc \in {"next", "polling"} /\ BatchAdvances
  BY <1>2, <1>5, ReceiverTypes, GotoStep, AdvanceStep DEF BatchShrinks
<1>8. Distinct(Batched)' /\ Numbered(Batched)'
  BY <1>2, <1>7, BatchKept
<1>9. AckInv'
  BY <1>1, <1>2, <1>5, <1>6, <1>7 DEF AckInv
<1>10. HandledOnce'
  <2> SUFFICES ASSUME policy # "manual", NEW p \in Packet, p \notin disturbed, handled'[p] > 0
               PROVE  /\ handled'[p] = 1
                      /\ Queued(p) => receiver'.pc = "ack" /\ Current'.packet = p
                      /\ \A i \in DOMAIN Batched' :
                           Batched'[i].packet = p => i = 1 /\ receiver'.pc = "ack"
    BY <1>2 DEF HandledOnce, Queued
  <2>1. /\ 1 \in DOMAIN Batched /\ Current = Batched[1]
        /\ \A i \in DOMAIN Batched : Batched[i].packet = c /\ p = c => i = 1
    BY <1>1, <1>2, CurrentIs, OneDelivery
  <2>2. handled[p] > 0 => /\ handled[p] = 1 /\ ~Queued(p)
                          /\ \A i \in DOMAIN Batched : Batched[i].packet # p
    BY <1>2 DEF DeliveryIInv, HandledOnce
  <2>3. CASE p # c
    BY <1>6, <1>7, <2>2, <2>3 DEF BatchShrinks, BatchAdvances
  <2>4. CASE p = c
    <3>1. handled'[p] = 1
      <4>1. handled[c] \in Nat
        BY ReceiverTypes
      <4> QED
        BY <1>1, <1>6, <2>1, <2>2, <2>4, <4>1
    <3>2. CASE pc = "ack"
      BY <1>1, <1>7, <2>1, <2>4, <3>1, <3>2
    <3>3. CASE pc = "next"
      <4>1. ~Queued(p)
        <5> SUFFICES ASSUME NEW k \in DOMAIN queue, queue[k].packet = p PROVE FALSE
          BY DEF Queued
        <5>1. queue[k] = Current
          BY <1>1, <2>1, <2>4, OneDelivery
        <5>2. ~InQueue(Current)
          BY <1>2, <1>5, <3>3 DEF DeliveryIInv, AckInv
        <5> QED
          BY <5>1, <5>2 DEF InQueue
      <4>2. \A i \in DOMAIN Batched' : Batched'[i].packet # p
        <5> SUFFICES ASSUME NEW i \in DOMAIN Batched', Batched'[i].packet = p PROVE FALSE
          OBVIOUS
        <5>1. i + 1 = 1
          BY <1>7, <2>1, <2>4, <3>3 DEF BatchAdvances
        <5>2. i \in Nat \ {0}
          <6>1. Batched' \in Seq(Delivery)
            BY <1>7, BatchPlaces DEF Batched
          <6> QED
            BY <6>1, LenProperties
        <5> QED
          BY <5>1, <5>2
      <4> QED
        BY <3>1, <4>1, <4>2
    <3> QED
      BY <1>5, <3>2, <3>3
  <2> QED
    BY <2>3, <2>4
<1>11. \A p \in Packet : /\ handled[p] > 0 => handled'[p] > 0
                         /\ handled'[p] > 0 => created[p] > 0
  BY <1>1, <1>4, <1>6
<1>12. \A p : Queued(p) => Queued(p)'
  BY <1>2 DEF Queued
<1> QED
  BY <1>2, <1>4, <1>6, <1>7, <1>8, <1>9, <1>10, <1>11, <1>12, ReceiverTypes, ReceiverStepKeeps

\* The ACK is answered, its answer or the receiver is lost, or the relay
\* removes the packet.
LEMMA RetiringKeepsIInv ==
  ASSUME DeliveryIInv, OutboxInv', EntriesEnqueued', UNCHANGED <<vars, created, policy>>,
         UNCHANGED <<inbox, handled>>,
         \/ UNCHANGED queue
         \/ \E d : Retire(d) /\ (d.packet \in Taken' \/ d.packet \in lapsed'),
         receiver' \in ReceiverState, BatchShrinks,
         lapsed \subseteq lapsed', lapsed' \subseteq Packet,
         disturbed \subseteq disturbed', disturbed' \subseteq Packet,
         faults' \in 0 .. MaxFaults, AckInv', HandledOnce'
  PROVE  DeliveryIInv'
<1>1. Distinct(Batched)' /\ Numbered(Batched)'
  BY BatchKept
<1>2. \A p : Queued(p) => Queued(p)' \/ p \in Taken' \/ p \in lapsed'
  <2>1. CASE UNCHANGED queue
    BY <2>1 DEF Queued
  <2>2. ASSUME NEW d, Retire(d), d.packet \in Taken' \/ d.packet \in lapsed'
        PROVE  \A p : Queued(p) => Queued(p)' \/ p \in Taken' \/ p \in lapsed'
    BY <2>2, ReceiverTypes, RetireQueue
  <2> QED
    BY <2>1, <2>2
<1>3. /\ inbox \subseteq Delivery /\ handled \in [Packet -> 0 .. HandledCap]
      /\ \A d \in inbox : created[d.packet] > 0
      /\ \A p \in Packet : handled[p] > 0 => created[p] > 0
  BY DEF DeliveryIInv, DeliveryTypeOK, QueueInv
<1> QED
  BY <1>1, <1>2, <1>3, ReceiverStepKeeps

\* What an ACK retires has been taken, or is given up with it.
LEMMA AckedIsTaken ==
  ASSUME DeliveryIInv, receiver.pc \in {"ack early", "ack", "ack failed"},
         UNCHANGED <<policy, inbox, handled>>,
         lapsed' = IF receiver.pc = "ack failed" THEN lapsed \cup {Current.packet} ELSE lapsed
  PROVE  /\ Current.packet \in Taken' \/ Current.packet \in lapsed'
         /\ lapsed \subseteq lapsed' /\ lapsed' \subseteq Packet
<1>1. Current.packet \in Packet /\ lapsed \subseteq Packet
  BY CurrentIs DEF DeliveryIInv, DeliveryTypeOK
<1> QED
  BY <1>1 DEF DeliveryIInv, AckInv, Taken

LEMMA AckKeepsIInv ==
  ASSUME DeliveryIInv, OutboxInv', EntriesEnqueued', Ack
  PROVE  DeliveryIInv'
<1>1. /\ receiver.pc \in {"ack early", "ack", "ack failed"}
      /\ UNCHANGED <<vars, created, policy, inbox, handled, disturbed, faults>>
      /\ lapsed' = IF receiver.pc = "ack failed" THEN lapsed \cup {Current.packet} ELSE lapsed
  BY DEF Ack
<1>2. PICK d : d = Current /\ Retire(d)
  BY DEF Ack
<1>3. d.packet \in Taken' \/ d.packet \in lapsed'
  BY <1>1, <1>2, AckedIsTaken
<1>4. lapsed \subseteq lapsed' /\ lapsed' \subseteq Packet
  BY <1>1, AckedIsTaken
<1>5. \/ receiver.pc = "ack early" /\ Goto("handle")
      \/ receiver.pc = "ack" /\ Advance
      \/ receiver.pc = "ack failed" /\ Raise
  BY <1>1 DEF Ack, AfterAck
<1>6. /\ receiver' \in ReceiverState /\ BatchShrinks
      /\ receiver.pc = "ack early" => receiver'.pc = "handle" /\ Current' = Current
      /\ receiver.pc = "ack" => receiver'.pc \in {"next", "polling"} /\ BatchAdvances
      /\ receiver.pc = "ack failed" => receiver'.pc = "off"
  BY <1>1, <1>5, ReceiverTypes, GotoStep, AdvanceStep, RaiseStep DEF BatchShrinks
<1>7. /\ \A i \in DOMAIN queue' : \E k \in DOMAIN queue : queue'[i] = queue[k]
      /\ \A i \in DOMAIN queue' : queue'[i] # d
      /\ \A p : Queued(p)' => Queued(p)
  BY <1>2, ReceiverTypes, RetireQueue
<1>8. AckInv'
  BY <1>1, <1>2, <1>6, <1>7 DEF AckInv, InQueue
<1>9. HandledOnce'
  <2>1. CASE receiver.pc = "ack"
    BY <1>1, <1>2, <1>6, <1>7, <2>1, HandledAcked
  <2>2. CASE receiver.pc # "ack"
    BY <1>1, <1>6, <1>7, <2>2, HandledKept
  <2> QED
    BY <2>1, <2>2
<1>10. disturbed \subseteq Packet /\ faults \in 0 .. MaxFaults
  BY DEF DeliveryIInv, DeliveryTypeOK
<1> QED
  BY <1>1, <1>2, <1>3, <1>4, <1>6, <1>8, <1>9, <1>10, RetiringKeepsIInv

\* The receiver stops, in poll_once or with its process.
LEMMA StopKeepsIInv ==
  ASSUME DeliveryIInv, OutboxInv', EntriesEnqueued', AckMissing \/ AckLost \/ ReceiverStops
  PROVE  DeliveryIInv'
<1>1. /\ receiver.pc \notin {"off", "polling"} /\ Raise /\ UNCHANGED <<vars, created, policy, inbox, handled>>
  <2>1. receiver \notin {Off, Polling} => receiver.pc \notin {"off", "polling"}
    BY ReceiverTypes DEF ReceiverState
  <2> QED
    BY <2>1 DEF AckMissing, AckLost, ReceiverStops, relay, Raise
<1>2. receiver' \in ReceiverState /\ receiver'.pc = "off" /\ BatchAdvances
  BY <1>1, RaiseStep
<1>3. PICK d : d = Current
  OBVIOUS
<1>4. /\ UNCHANGED queue \/ (Retire(d) /\ (d.packet \in Taken' \/ d.packet \in lapsed'))
      /\ lapsed \subseteq lapsed' /\ lapsed' \subseteq Packet
  <2>1. lapsed \subseteq Packet
    BY DEF DeliveryIInv, DeliveryTypeOK
  <2>2. CASE UNCHANGED <<queue, lapsed>>
    BY <2>1, <2>2
  <2>3. CASE /\ AckLost /\ Retire(Current)
             /\ lapsed' = IF receiver.pc = "ack failed" THEN lapsed \cup {Current.packet} ELSE lapsed
    BY <1>1, <1>3, <2>3, AckedIsTaken DEF AckLost
  <2> QED
    BY <2>2, <2>3 DEF AckMissing, AckLost, ReceiverStops, relay
<1>5. /\ disturbed \subseteq disturbed' /\ disturbed' \subseteq Packet /\ faults' \in 0 .. MaxFaults
      /\ Current.packet \in disturbed' \/ (UNCHANGED queue /\ ~InQueue(Current))
  <2>1. Current.packet \in Packet
    BY <1>1, CurrentIs
  <2>2. disturbed \subseteq Packet /\ faults \in 0 .. MaxFaults
    BY DEF DeliveryIInv, DeliveryTypeOK
  <2>3. CASE AckMissing
    BY <2>2, <2>3 DEF AckMissing, relay
  <2>4. CASE AckLost \/ ReceiverStops
    <3>1. faults < MaxFaults /\ faults' = faults + 1 /\ disturbed' = disturbed \cup {Current.packet}
      BY <2>4 DEF AckLost, ReceiverStops
    <3>2. faults' \in 0 .. MaxFaults
      BY <2>2, <3>1
    <3> QED
      BY <2>1, <2>2, <3>1, <3>2
  <2> QED
    BY <2>3, <2>4
<1>6. UNCHANGED queue \/ \E e : Retire(e)
  BY <1>4
<1>7. /\ \A i \in DOMAIN queue' : \E k \in DOMAIN queue : queue'[i] = queue[k]
      /\ \A p : Queued(p)' => Queued(p)
  BY <1>6, QueueKept
<1>8. AckInv'
  BY <1>2 DEF AckInv
<1>9. HandledOnce'
  <2>1. CASE receiver.pc = "ack"
    BY <1>1, <1>2, <1>5, <1>7, <2>1, HandledAcked DEF InQueue
  <2>2. CASE receiver.pc # "ack"
    BY <1>1, <1>2, <1>5, <1>7, <2>2, HandledKept DEF BatchShrinks
  <2> QED
    BY <2>1, <2>2
<1> QED
  BY <1>1, <1>2, <1>4, <1>5, <1>8, <1>9, RetiringKeepsIInv DEF BatchShrinks

LEMMA ExpiryKeepsIInv ==
  ASSUME DeliveryIInv, OutboxInv', EntriesEnqueued', NEW p \in Packet, RelayExpires(p)
  PROVE  DeliveryIInv'
<1>1. /\ UNCHANGED <<vars, created, policy, receiver, inbox, handled, disturbed, faults>>
      /\ lapsed' = lapsed \cup {p}
  BY DEF RelayExpires, app
<1>2. PICK d : Retire(d) /\ d.packet = p
  BY DEF RelayExpires, Retire
<1>3. /\ \A i \in DOMAIN queue' : \E k \in DOMAIN queue : queue'[i] = queue[k]
      /\ \A q : Queued(q)' => Queued(q)
  BY <1>2, ReceiverTypes, RetireQueue
<1>4. receiver' \in ReceiverState /\ Batched' = Batched /\ Current' = Current
  BY <1>1, ReceiverTypes DEF Batched, Current
<1>5. AckInv'
  BY <1>1, <1>3, <1>4 DEF DeliveryIInv, AckInv, InQueue
<1>6. HandledOnce'
  BY <1>1, <1>3, <1>4 DEF DeliveryIInv, HandledOnce
<1>7. lapsed \subseteq Packet /\ disturbed \subseteq Packet /\ faults \in 0 .. MaxFaults
  BY DEF DeliveryIInv, DeliveryTypeOK
<1> QED
  BY <1>1, <1>2, <1>4, <1>5, <1>6, <1>7, RetiringKeepsIInv DEF BatchShrinks

----------------------------------------------------------------------------
(* The theorems.                                                           *)

LEMMA DeliveryIInvNext ==
  ASSUME DeliveryIInv, [DeliveryNext]_allVars
  PROVE  DeliveryIInv'
<1>1. [Next]_vars /\ OutboxInv /\ EntriesEnqueued /\ TypeOK
  BY OutboxSteps DEF DeliveryIInv, OutboxInv
<1>2. OutboxInv' /\ EntriesEnqueued'
  BY <1>1, OutboxInvNext, EntriesEnqueuedNext
<1>3. CASE OutboxStep \/ \E f \in Flusher : SendFails(f) \/ FlusherStops(f)
  BY <1>1, <1>2, <1>3, OutboxKeepsIInv
<1>4. CASE \E f \in Flusher : Submit(f)
  BY <1>2, <1>4, SubmitKeepsIInv
<1>5. CASE \E p \in Packet : RelayExpires(p)
  BY <1>2, <1>5, ExpiryKeepsIInv
<1>6. CASE Receive \/ Start \/ LoopEnds \/ ReceiverStops
  BY <1>2, <1>6, LoopKeepsIInv, PollKeepsIInv, BeginKeepsIInv, HandleOkKeepsIInv, HandleFailsKeepsIInv,
     AckKeepsIInv, StopKeepsIInv DEF Receive, Acknowledge
<1>7. CASE UNCHANGED allVars
  <2>1. /\ UNCHANGED <<vars, queue, created, policy, receiver, inbox, handled>>
        /\ UNCHANGED <<lapsed, disturbed, faults>>
    BY <1>7 DEF allVars, relay, app
  <2>2. Batched' = Batched /\ Current' = Current
    BY <2>1 DEF Batched, Current
  <2>3. AckInv'
    BY <2>1, <2>2 DEF DeliveryIInv, AckInv, InQueue
  <2>4. HandledOnce'
    BY <2>1, <2>2 DEF DeliveryIInv, HandledOnce, Queued
  <2>5. lapsed \subseteq Packet /\ disturbed \subseteq Packet /\ faults \in 0 .. MaxFaults
    BY DEF DeliveryIInv, DeliveryTypeOK
  <2> QED
    BY <1>2, <2>1, <2>2, <2>3, <2>4, <2>5, ReceiverTypes, RetiringKeepsIInv DEF BatchShrinks
<1> QED
  BY <1>3, <1>4, <1>5, <1>6, <1>7 DEF DeliveryNext

\* Queue, batch, inbox and outbox agree on what became of every packet.
THEOREM DeliveryInvariance == DeliverySpec => []DeliveryIInv
  BY DeliveryIInvInit, DeliveryIInvNext, PTL DEF DeliverySpec

\* For any packets, flushers, ACK policies and faults: the state keeps its type,
\* and a packet is handled a second time only after a lost answer, a stop, an
\* overlap of senders, or where the application acknowledges by hand.
THEOREM DeliveryCorrect == DeliverySpec => []DeliveryInv
<1>1. DeliveryIInv => DeliveryInv
  <2> SUFFICES ASSUME DeliveryIInv PROVE DeliveryInv
    OBVIOUS
  <2>1. \A p \in Packet : handled[p] = 1 => ~(handled[p] > 1)
    OBVIOUS
  <2>2. \A p \in Packet : handled[p] > 1 => handled[p] > 0
    BY ReceiverTypes
  <2> QED
    BY <2>1, <2>2 DEF DeliveryIInv, HandledOnce, DeliveryInv, RepeatedForAReason
<1> QED
  BY <1>1, DeliveryInvariance, PTL

----------------------------------------------------------------------------
(* The refinement: every step is one of the at-least-once channel, or none *)
(* of them.                                                                *)

QueuedSet == {p \in Packet : Queued(p)}

LEMMA HeldIs ==
  /\ TypeOK => Held = LiveIn(rows) \cup QueuedSet
  /\ TypeOK' => Held' = LiveIn(rows') \cup QueuedSet'
<1>1. ASSUME TypeOK PROVE Held = LiveIn(rows) \cup QueuedSet
  <2>1. \A r \in rows : r.packet \in Packet
    BY <1>1 DEF TypeOK, Row
  <2> QED
    BY <2>1 DEF Held, QueuedSet, LiveIn, RowsOf
<1>2. ASSUME TypeOK' PROVE Held' = LiveIn(rows') \cup QueuedSet'
  <2>1. \A r \in rows' : r.packet \in Packet
    BY <1>2 DEF TypeOK, Row
  <2> QED
    BY <2>1 DEF Held, QueuedSet, LiveIn, RowsOf
<1> QED
  BY <1>1, <1>2

PromiseStep == [Promise!Next]_(Promise!vars)

LEMMA PromiseStutters ==
  ASSUME UNCHANGED <<enqueued, Held, Taken, lapsed>>
  PROVE  PromiseStep
  BY DEF PromiseStep, Promise!vars

LEMMA PromiseReleases ==
  ASSUME NEW p \in Packet, UNCHANGED <<enqueued, Taken, lapsed>>,
         p \in Held => p \in Taken \cup lapsed, Held' = Held \/ Held' = Held \ {p}
  PROVE  PromiseStep
<1>1. CASE Held' = Held
  BY <1>1, PromiseStutters
<1>2. CASE p \in Held /\ Held' = Held \ {p}
  BY <1>2 DEF PromiseStep, Promise!Next, Promise!Release
<1> QED
  BY <1>1, <1>2

LEMMA PromiseRetries ==
  ASSUME NEW p \in Packet \cap enqueued, UNCHANGED <<enqueued, Taken, lapsed>>,
         Held' = Held \/ Held' = Held \cup {p}
  PROVE  PromiseStep
<1>1. CASE Held' = Held
  BY <1>1, PromiseStutters
<1>2. CASE p \notin Held /\ Held' = Held \cup {p}
  BY <1>2 DEF PromiseStep, Promise!Next, Promise!Retry
<1> QED
  BY <1>1, <1>2

LEMMA PromiseLapses ==
  ASSUME NEW p \in Packet \cap Held, UNCHANGED <<enqueued, Taken>>,
         lapsed' = lapsed \cup {p}, Held' = Held \/ Held' = Held \ {p}
  PROVE  PromiseStep
  BY DEF PromiseStep, Promise!Next, Promise!Lapse

LEMMA PromiseTakes ==
  ASSUME NEW p \in Packet \cap enqueued, UNCHANGED <<enqueued, Held, lapsed>>,
         Taken' = Taken \cup {p}
  PROVE  PromiseStep
  BY DEF PromiseStep, Promise!Next, Promise!Take

\* The outbox gives a packet up, takes it up again, or is rid of it.
LEMMA OutboxPromises ==
  ASSUME DeliveryIInv, TypeOK', NEW p \in Packet \cap enqueued,
         UNCHANGED <<enqueued, queue, policy, inbox, handled>>,
         lapsed' = lapsed \cup DeadIn(rows'),
         GivenUp(p) \/ TakenUp(p) \/ (Gone(p) /\ p \in accepted)
  PROVE  PromiseStep
<1>1. /\ Held = LiveIn(rows) \cup QueuedSet /\ Held' = LiveIn(rows') \cup QueuedSet'
      /\ QueuedSet' = QueuedSet /\ Taken' = Taken
  BY HeldIs DEF DeliveryIInv, OutboxInv, QueuedSet, Queued, Taken
<1>2. DeadIn(rows) \subseteq lapsed
  BY DEF DeliveryIInv, Custody
<1>3. CASE GivenUp(p)
  <2>1. PacketsIn(rows) = LiveIn(rows) \cup DeadIn(rows)
    BY DEF PacketsIn, LiveIn, DeadIn
  <2>2. CASE p \in LiveIn(rows)
    <3>1. p \in Held /\ lapsed' = lapsed \cup {p} /\ (Held' = Held \/ Held' = Held \ {p})
      BY <1>1, <1>2, <1>3, <2>1, <2>2 DEF GivenUp
    <3> QED
      BY <1>1, <3>1, PromiseLapses
  <2>3. CASE p \notin LiveIn(rows)
    <3>1. Held' = Held /\ lapsed' = lapsed
      BY <1>1, <1>2, <1>3, <2>1, <2>3 DEF GivenUp
    <3> QED
      BY <1>1, <3>1, PromiseStutters
  <2> QED
    BY <2>2, <2>3
<1>4. CASE TakenUp(p)
  <2>1. lapsed' = lapsed /\ (Held' = Held \/ Held' = Held \cup {p})
    BY <1>1, <1>2, <1>4 DEF TakenUp
  <2> QED
    BY <1>1, <2>1, PromiseRetries
<1>5. CASE Gone(p) /\ p \in accepted
  <2>1. lapsed' = lapsed
    BY <1>2, <1>5 DEF Gone
  <2>2. CASE Queued(p)
    <3>1. Held' = Held
      BY <1>1, <1>5, <2>2 DEF Gone, QueuedSet
    <3> QED
      BY <1>1, <2>1, <3>1, PromiseStutters
  <2>3. CASE ~Queued(p)
    <3>1. Held' = Held \ {p} /\ p \in Taken \cup lapsed
      BY <1>1, <1>5, <2>3 DEF Gone, QueuedSet, DeliveryIInv, Custody
    <3> QED
      BY <1>1, <2>1, <3>1, PromiseReleases
  <2> QED
    BY <2>2, <2>3
<1> QED
  BY <1>3, <1>4, <1>5

LEMMA OutboxStepPromises ==
  ASSUME DeliveryIInv, TypeOK', OutboxStep
  PROVE  PromiseStep
<1> USE DEF DeliveryIInv, OutboxInv
<1>1. /\ lapsed' = lapsed \cup DeadIn(rows') /\ DeadIn(rows) \subseteq lapsed
      /\ UNCHANGED <<queue, policy, inbox, handled>>
  BY DeadNowIs DEF OutboxStep, relay, app, Custody
<1>2. /\ Held = LiveIn(rows) \cup QueuedSet /\ Held' = LiveIn(rows') \cup QueuedSet'
      /\ QueuedSet' = QueuedSet /\ Taken' = Taken
  BY <1>1, HeldIs DEF QueuedSet, Queued, Taken
<1>3. ASSUME NEW f \in Flusher, NEW mode, NEW p \in Packet, NEW retry, NEW max, NEW expires,
             SendType(f, mode, p, retry, max, expires)
      PROVE  PromiseStep
  <2>1. p \notin enqueued /\ enqueued' = enqueued \cup {p} /\ Added(p)
    BY <1>3, EnqueueAdds DEF SendType
  <2>2. Held' = Held \cup {p} /\ lapsed' = lapsed
    BY <1>1, <1>2, <2>1 DEF Added
  <2> QED
    BY <1>2, <2>1, <2>2 DEF PromiseStep, Promise!Next, Promise!Give
<1>4. CASE UNCHANGED <<rows, enqueued>>
  BY <1>1, <1>2, <1>4, PromiseStutters
<1>5. ASSUME NEW f \in Flusher, SelectDue(f) \/ Lookup(f) PROVE UNCHANGED <<rows, enqueued>>
  BY <1>5 DEF SelectDue, Lookup
<1>6. ASSUME NEW p \in Packet, Expire(p) PROVE UNCHANGED <<rows, enqueued>>
  BY <1>6 DEF Expire
<1>7. ASSUME NEW p \in Packet, BackoffElapses(p) PROVE PromiseStep
  <2>1. SameSets /\ UNCHANGED enqueued
    BY <1>7, BackoffSame DEF BackoffElapses
  <2>2. Held' = Held /\ lapsed' = lapsed
    BY <1>1, <1>2, <2>1 DEF SameSets
  <2> QED
    BY <1>2, <2>1, <2>2, PromiseStutters
<1>8. ASSUME NEW f \in Flusher, DropExpired(f) \/ StartSending(f) PROVE PromiseStep
  <2>1. flusher[f].pc = "batch" /\ UNCHANGED enqueued
    BY <1>8 DEF DropExpired, StartSending
  <2>2. \A e \in flusher[f].todo : e.packet \in Packet \cap enqueued
    BY <2>1, BatchTodo DEF TypeOK, Row, EntriesEnqueued, Mine
  <2>3. \E e \in flusher[f].todo : GivenUp(e.packet) \/ TakenUp(e.packet)
    BY <1>8, DropGivesUp, StartTakesUp
  <2> QED
    BY <1>1, <2>1, <2>2, <2>3, OutboxPromises
<1>9. ASSUME NEW f \in Flusher, Delivered(f) PROVE PromiseStep
  <2>1. flusher[f].pc = "call" /\ flusher[f].answered /\ UNCHANGED enqueued
    BY <1>9 DEF Delivered, Confirmed
  <2>2. flusher[f].entry.packet \in Packet \cap enqueued /\ flusher[f].entry.packet \in accepted
    BY <2>1, CallEntry DEF TypeOK, Row, EntriesEnqueued, Mine
  <2> QED
    BY <1>1, <1>9, <2>1, <2>2, DeliveredGone, OutboxPromises
<1> QED
  BY <1>3, <1>4, <1>5, <1>6, <1>7, <1>8, <1>9 DEF OutboxStep

\* The relay takes a packet: it is held there as well.
LEMMA SubmitPromises ==
  ASSUME DeliveryIInv, TypeOK', NEW f \in Flusher, Submit(f)
  PROVE  PromiseStep
<1> USE DEF DeliveryIInv, OutboxInv
<1>1. PICK p \in Packet \cap enqueued : p = flusher[f].entry.packet
  BY CallEntry DEF Submit, RelayAccepts, TypeOK, Row, EntriesEnqueued, Mine
<1>2. UNCHANGED <<rows, enqueued, lapsed, policy, inbox, handled>>
  BY DEF Submit, RelayAccepts, app
<1>3. /\ Held = LiveIn(rows) \cup QueuedSet /\ Held' = LiveIn(rows) \cup QueuedSet'
      /\ Taken' = Taken
  BY <1>2, HeldIs DEF Taken
<1>4. CASE UNCHANGED queue
  BY <1>2, <1>3, <1>4, PromiseStutters DEF QueuedSet, Queued
<1>5. CASE ~Queued(p)
  <2>1. PICK d : d.packet = p /\ queue' = Append(queue, d) /\ d \in Delivery
    <3>1. /\ created[p] < MaxDeliveries /\ created' = [created EXCEPT ![p] = created[p] + 1]
          /\ queue' = Append(queue, [packet |-> p, id |-> created'[p]])
      BY <1>1, <1>5 DEF Submit
    <3>2. created \in [Packet -> 0 .. MaxDeliveries]
      BY DEF DeliveryTypeOK
    <3>3. [packet |-> p, id |-> created'[p]] \in Delivery
      BY <3>1, <3>2 DEF Delivery
    <3> QED
      BY <3>1, <3>3
  <2>2. /\ \A i \in DOMAIN queue : i \in DOMAIN queue' /\ queue'[i] = queue[i]
        /\ \E j \in DOMAIN queue' : /\ queue'[j] = d
                                    /\ DOMAIN queue' = DOMAIN queue \cup {j}
    <3>1. queue \in Seq(Delivery)
      BY ReceiverTypes
    <3> QED
      BY ONLY <2>1, <3>1, AppendPlaces
  <2>3. QueuedSet' = QueuedSet \cup {p}
    <3>1. \A q : Queued(q)' <=> Queued(q) \/ q = p
      BY <2>1, <2>2 DEF Queued
    <3> QED
      BY <3>1 DEF QueuedSet
  <2> QED
    BY <1>1, <1>2, <1>3, <2>3, PromiseRetries
<1> QED
  BY <1>1, <1>4, <1>5 DEF Submit, relay

\* A sender that fails gives its packet up or keeps it; one that stops
\* changes nothing.
LEMMA SenderPromises ==
  ASSUME DeliveryIInv, TypeOK', NEW f \in Flusher, SendFails(f) \/ FlusherStops(f)
  PROVE  PromiseStep
<1> USE DEF DeliveryIInv, OutboxInv
<1>1. UNCHANGED <<enqueued, queue, policy, inbox, handled>>
  BY DEF SendFails, FlusherStops, Failed, Interrupt, relay, app
<1>2. CASE SendFails(f)
  <2>1. /\ lapsed' = lapsed \cup DeadIn(rows') /\ flusher[f].pc = "call"
        /\ \E c : Failed(f, c)
    BY <1>2, DeadNowIs DEF SendFails, Failed
  <2>2. flusher[f].entry.packet \in Packet \cap enqueued
    BY <2>1, CallEntry DEF TypeOK, Row, EntriesEnqueued, Mine
  <2> QED
    BY <1>1, <2>1, <2>2, FailedRestates, OutboxPromises
<1>3. CASE FlusherStops(f)
  <2>1. UNCHANGED <<rows, lapsed>>
    BY <1>3 DEF FlusherStops, Interrupt
  <2>2. Held' = Held /\ Taken' = Taken
    BY <1>1, <2>1, HeldIs DEF QueuedSet, Queued, Taken
  <2> QED
    BY <1>1, <2>1, <2>2, PromiseStutters
<1> QED
  BY <1>2, <1>3

\* A delivery leaves the relay's queue.
LEMMA RetirePromises ==
  ASSUME DeliveryIInv, UNCHANGED <<vars, policy, inbox, handled>>, NEW d, Retire(d),
         \/ lapsed' = lapsed \cup {d.packet}
         \/ lapsed' = lapsed /\ d.packet \in Taken
  PROVE  PromiseStep
<1>1. /\ Held = LiveIn(rows) \cup QueuedSet /\ Held' = LiveIn(rows) \cup QueuedSet'
      /\ Taken' = Taken /\ enqueued' = enqueued
  BY HeldIs DEF DeliveryIInv, OutboxInv, vars, TypeOK, Taken
<1>2. /\ d.packet \in QueuedSet /\ QueuedSet' = QueuedSet \ {d.packet}
  <2>1. d.packet \in Packet /\ Queued(d.packet)
    BY ReceiverTypes, RetireQueue
  <2>2. \A p : Queued(p)' <=> Queued(p) /\ p # d.packet
    BY ReceiverTypes, RetireQueue
  <2> QED
    BY <2>1, <2>2 DEF QueuedSet
<1>3. d.packet \in Packet \cap Held /\ (Held' = Held \/ Held' = Held \ {d.packet})
  BY <1>1, <1>2 DEF QueuedSet
<1>4. CASE lapsed' = lapsed \cup {d.packet}
  BY <1>1, <1>3, <1>4, PromiseLapses
<1>5. CASE lapsed' = lapsed /\ d.packet \in Taken
  BY <1>1, <1>3, <1>5, PromiseReleases
<1> QED
  BY <1>4, <1>5

LEMMA ReceiverPromises ==
  ASSUME DeliveryIInv, Receive \/ Start \/ LoopEnds \/ ReceiverStops
  PROVE  PromiseStep
<1>0. UNCHANGED <<vars, policy>>
  BY DEF Receive, Poll, Begin, HandleOk, HandleFails, Acknowledge, Ack, AckMissing, AckLost,
         Start, LoopEnds, ReceiverStops
<1>1. ASSUME UNCHANGED queue PROVE Held' = Held /\ enqueued' = enqueued
  BY <1>0, <1>1 DEF vars, Held, Queued, RowsOf
<1>2. CASE UNCHANGED <<queue, lapsed, inbox, handled>>
  <2>1. Taken' = Taken
    BY <1>0, <1>2 DEF Taken
  <2> QED
    BY <1>1, <1>2, <2>1, PromiseStutters
<1>3. ASSUME Poll \/ HandleFails \/ AckMissing \/ Start \/ LoopEnds \/ ReceiverStops
      PROVE  UNCHANGED <<queue, lapsed, inbox, handled>>
  BY <1>3 DEF Poll, HandleFails, AckMissing, Start, LoopEnds, ReceiverStops, relay
<1>4. ASSUME receiver.pc \notin {"off", "polling"} PROVE Current.packet \in Packet \cap enqueued
  BY <1>4, CurrentIs
<1>5. CASE Begin
  <2>1. UNCHANGED <<queue, lapsed, handled>> /\ receiver.pc = "next"
    BY <1>5 DEF Begin, relay
  <2>2. \/ policy = "after_store" /\ inbox' = inbox \cup {Current}
        \/ inbox' = inbox
    BY <1>5 DEF Begin
  <2>3. Taken' = Taken \cup {Current.packet} \/ Taken' = Taken
    <3>1. Current.packet \in Packet
      BY <1>4, <2>1
    <3>2. CASE inbox' = inbox
      BY <1>0, <2>1, <3>2 DEF Taken
    <3>3. CASE policy = "after_store" /\ inbox' = inbox \cup {Current}
      BY <1>0, <3>1, <3>3 DEF Taken
    <3> QED
      BY <2>2, <3>2, <3>3
  <2> QED
    BY <1>1, <1>4, <2>1, <2>3, PromiseTakes, PromiseStutters
<1>6. CASE HandleOk
  <2>1. UNCHANGED <<queue, lapsed, inbox>> /\ receiver.pc = "handle"
    BY <1>6 DEF HandleOk, relay
  <2>2. PICK c \in Packet \cap enqueued : c = Current.packet
    BY <1>4, <2>1
  <2>3. handled' = [handled EXCEPT ![c] = IF handled[c] < HandledCap THEN handled[c] + 1
                                          ELSE handled[c]]
    BY <1>6, <2>2 DEF HandleOk
  <2>4. handled \in [Packet -> 0 .. HandledCap]
    BY DEF DeliveryIInv, DeliveryTypeOK
  <2>5. handled'[c] > 0 /\ \A p \in Packet : p # c => handled'[p] = handled[p]
    BY <2>3, <2>4 DEF HandledCap
  <2>6. Taken' = Taken \cup {c} \/ Taken' = Taken
    <3>1. CASE policy = "after_store"
      BY <1>0, <2>1, <3>1 DEF Taken
    <3>2. CASE policy # "after_store"
      <4>1. \A p \in Packet : handled'[p] > 0 <=> handled[p] > 0 \/ p = c
        BY <2>5
      <4> QED
        BY <1>0, <3>2, <4>1 DEF Taken
    <3> QED
      BY <3>1, <3>2
  <2> QED
    BY <1>1, <2>1, <2>6, PromiseTakes, PromiseStutters
<1>7. CASE Ack \/ AckLost
  <2>1. /\ receiver.pc \in {"ack early", "ack", "ack failed"} /\ UNCHANGED <<inbox, handled>>
        /\ \/ UNCHANGED <<queue, lapsed>>
           \/ /\ Retire(Current)
              /\ lapsed' = IF receiver.pc = "ack failed" THEN lapsed \cup {Current.packet}
                           ELSE lapsed
    BY <1>7 DEF Ack, AckLost
  <2>2. CASE UNCHANGED <<queue, lapsed>>
    BY <1>2, <2>1, <2>2
  <2>3. CASE /\ Retire(Current)
             /\ lapsed' = IF receiver.pc = "ack failed" THEN lapsed \cup {Current.packet}
                          ELSE lapsed
    <3>1. receiver.pc # "ack failed" => Current.packet \in Taken
      <4>1. Current.packet \in Packet
        BY <1>4, <2>1
      <4> QED
        BY <2>1, <4>1 DEF DeliveryIInv, AckInv, Taken
    <3>2. PICK d : d = Current
      OBVIOUS
    <3> QED
      BY <1>0, <2>1, <2>3, <3>1, <3>2, RetirePromises
  <2> QED
    BY <2>1, <2>2, <2>3
<1> QED
  BY <1>2, <1>3, <1>5, <1>6, <1>7 DEF Receive, Acknowledge

\* README.md: "Delivery is at least once".  For any packets, flushers, retry and
\* ACK policies: outbox, relay and receiver together implement that channel; a
\* packet is in somebody's custody until it is taken or given up.
THEOREM DeliveryKeepsPromise == DeliverySpec => KeepsPromise
<1>1. DeliveryInit => Promise!Init
  BY DEF DeliveryInit, Init, Promise!Init, Held, RowsOf, Queued, Taken
<1>2. DeliveryIInv /\ DeliveryIInv' /\ [DeliveryNext]_allVars => [Promise!Next]_(Promise!vars)
  <2> SUFFICES ASSUME DeliveryIInv, DeliveryIInv', [DeliveryNext]_allVars PROVE PromiseStep
    BY DEF PromiseStep
  <2>1. TypeOK'
    BY DEF DeliveryIInv, OutboxInv
  <2>2. CASE OutboxStep
    BY <2>1, <2>2, OutboxStepPromises
  <2>3. ASSUME NEW f \in Flusher, Submit(f) \/ SendFails(f) \/ FlusherStops(f) PROVE PromiseStep
    BY <2>1, <2>3, SubmitPromises, SenderPromises
  <2>4. ASSUME NEW p \in Packet, RelayExpires(p) PROVE PromiseStep
    <3>1. UNCHANGED <<vars, policy, inbox, handled>> /\ lapsed' = lapsed \cup {p}
      BY <2>4 DEF RelayExpires, app
    <3>2. PICK d : Retire(d) /\ d.packet = p
      BY <2>4 DEF RelayExpires, Retire
    <3> QED
      BY <3>1, <3>2, RetirePromises
  <2>5. CASE Receive \/ Start \/ LoopEnds \/ ReceiverStops
    BY <2>5, ReceiverPromises
  <2>6. CASE UNCHANGED allVars
    <3>1. UNCHANGED <<enqueued, Held, Taken, lapsed>>
      BY <2>6 DEF allVars, vars, relay, app, Held, RowsOf, Queued, Taken
    <3> QED
      BY <3>1, PromiseStutters
  <2> QED
    BY <2>2, <2>3, <2>4, <2>5, <2>6 DEF DeliveryNext
<1> QED
  BY <1>1, <1>2, DeliveryInvariance, PTL DEF DeliverySpec, KeepsPromise, Promise!Spec

\* What was proved of the outbox alone holds in the composition: a packet
\* leaves it only after the relay has accepted it ...
THEOREM DeliveryLosesNothing == DeliverySpec => []NothingLost
  BY ImplementsOutbox, NothingIsLost, PTL

\* ... and a row says "sending" without a request for it only once per
\* interruption.
THEOREM DeliveryStrandsNothing == DeliverySpec => []StrandedOnlyByInterrupts
  BY ImplementsOutbox, StrandedExplained, PTL

\* However many flushers there are: of a packet no two of them had in hand
\* together the limit on attempts holds and a dead letter is final in the
\* composition too, whatever relay and receiver do.
THEOREM DeliveryKeepsLimits == DeliverySpec => []AttemptsWithinLimit /\ RevivedOnlyByOverlap
  BY ImplementsOutbox, LimitsAreKept, DeadLettersStay, PTL
=============================================================================
