------------------------- MODULE AppKitCommands_proofs -------------------------
(***************************************************************************)
(* Proofs about AppKitCommands: that send_command returns the response to  *)
(* its own call, that its table holds the calls in progress, and for which *)
(* reasons a command is executed again.                                    *)
(***************************************************************************)
EXTENDS AppKitCommands, TLAPS

\* A call whose command is neither written to the outbox nor sent.
Sends(c) == caller[c] = "send"
Unsent(i) == i.call > calls[i.caller] \/ (i.call = calls[i.caller] /\ Sends(i.caller))

\* A command that somebody is still to send: its caller, which has written its
\* row, or the worker.
At(i, pc) == i.call = calls[i.caller] /\ caller[i.caller] = pc
ToSend(i) == At(i, "flush") \/ (i \in outbox /\ ~At(i, "answer"))

Domains ==
  /\ calls \in [Caller -> Nat] /\ runs \in [Cid -> Nat]
  /\ \A c \in Caller : /\ caller[c] # Idle => calls[c] # 0
                       /\ waits[c] => caller[c] # Idle

\* A response that is queued, kept for a waiter or returned is one of an
\* execution.
ResponsesReal == \A r \in responses : r.run \in 1 .. runs[r.cid]
WaitersMatch ==
  \A i \in Pending : pending[i].done =>
    /\ pending[i].response \in Response
    /\ pending[i].response.cid = i /\ pending[i].response.run \in 1 .. runs[i]
ResponderRuns == responder # None => responder.cid \in Cid /\ runs[responder.cid] >= 1

\* While a handler waits its thread does nothing else.
NestedHolds ==
  /\ caller[Nested] # Idle <=> receiver.pc = "nested"
  /\ \A i \in Pending : i.caller = Nested => ~pending[i].done

\* Without a failure a command is sent once, and when it has been executed only
\* the responder has it.
CommandOnce ==
  \A i \in Cid :
    /\ Unsent(i) => i \notin commands \cup outbox /\ runs[i] = 0
    /\ i \notin disturbed =>
         /\ ToSend(i) => i \notin commands /\ runs[i] = 0
         /\ runs[i] >= 1 => \/ responder # None /\ responder.cid = i
                            \/ i \notin commands

CommandsIInv ==
  /\ TypeOK /\ Domains /\ PendingExact /\ ResponsesReal /\ WaitersMatch /\ ResponderRuns
  /\ NestedHolds /\ ResponsesMatch /\ NestedStarves /\ CommandOnce /\ RepeatedForAReason

----------------------------------------------------------------------------
(* The data.                                                               *)

LEMMA CidFacts ==
  /\ \A i \in Cid : /\ i.caller \in Caller /\ i.call \in 1 .. MaxCalls[i.caller]
                    /\ i = [caller |-> i.caller, call |-> i.call]
  /\ \A c \in Caller, n \in Nat :
       n \in 1 .. MaxCalls[c] => [caller |-> c, call |-> n] \in Cid
BY CommandAssumption DEF Cid

LEMMA ResponseFacts ==
  /\ \A r \in Response : r.cid \in Cid /\ r.run \in 1 .. MaxRuns[r.cid.caller]
  /\ \A i \in Cid : \A n \in 1 .. MaxRuns[i.caller] : [cid |-> i, run |-> n] \in Response
BY DEF Response

LEMMA CurrentFacts ==
  ASSUME TypeOK, Domains, NEW c \in Caller
  PROVE  /\ Current(c).caller = c /\ Current(c).call = calls[c]
         /\ \A i \in Cid : i = Current(c) <=> i.caller = c /\ i.call = calls[c]
         /\ calls[c] # 0 => Current(c) \in Cid
         /\ \A d \in Caller : Current(c) = Current(d) => c = d
BY CidFacts DEF Current, TypeOK, Domains

\* The table, element by element.
LEMMA PendingIs ==
  PendingExact <=> \A i : i \in Pending <=> \E c \in Caller : waits[c] /\ i = Current(c)
BY DEF PendingExact

\* The waiter of a call is in no other call's way.
LEMMA WaiterOf ==
  ASSUME TypeOK, Domains, PendingExact, NEW i \in Pending
  PROVE  i \in Cid /\ waits[i.caller] /\ i = Current(i.caller) /\ i.call = calls[i.caller]
BY PendingIs, CurrentFacts DEF TypeOK, Domains

----------------------------------------------------------------------------
(* Begin and End, the two changes of the table.                            *)

\* A call that begins has a number of its own.
LEMMA BeginCalls ==
  ASSUME TypeOK, Domains, NEW c \in Caller, NEW wait \in BOOLEAN, Begin(c, wait)
  PROVE  /\ calls' = [calls EXCEPT ![c] = @ + 1] /\ calls' \in [Caller -> Nat]
         /\ calls'[c] = calls[c] + 1 /\ calls'[c] \in 1 .. MaxCalls[c]
         /\ \A d \in Caller \ {c} : calls'[d] = calls[d]
<1>1. calls' = [calls EXCEPT ![c] = @ + 1]
  BY DEF Begin
<1>2. calls \in [Caller -> Nat] /\ MaxCalls[c] \in Nat /\ calls[c] < MaxCalls[c]
  BY CommandAssumption DEF Begin, Domains
<1> QED BY <1>1, <1>2

LEMMA BeginNames ==
  ASSUME TypeOK, Domains, NEW c \in Caller, NEW wait \in BOOLEAN, Begin(c, wait)
  PROVE  /\ Current(c)' \in Cid /\ Current(c)' # Current(c)
         /\ Current(c)'.caller = c /\ Current(c)'.call = calls[c] + 1
         /\ \A d \in Caller \ {c} : Current(d)' = Current(d)
<1>1. Current(c)' = [caller |-> c, call |-> calls'[c]]
  BY DEF Current
<1>2. calls[c] \in Nat /\ MaxCalls[c] \in Nat
  BY CommandAssumption DEF Domains
<1>3. Current(c)' \in Cid
  BY <1>1, <1>2, BeginCalls, CidFacts
<1> QED BY <1>1, <1>2, <1>3, BeginCalls DEF Current

LEMMA BeginTable ==
  ASSUME TypeOK, NEW c \in Caller, NEW wait \in BOOLEAN, Begin(c, wait)
  PROVE  /\ Pending' = Pending \cup (IF wait THEN {Current(c)'} ELSE {})
         /\ \A i \in Pending' : pending'[i] = IF wait /\ i = Current(c)' THEN NoWaiter
                                             ELSE pending[i]
<1>1. pending' = Entered(c, wait)
  BY DEF Begin
<1>2. CASE wait
  BY <1>1, <1>2 DEF Entered, Pending
<1>3. CASE ~wait
  BY <1>1, <1>3 DEF Entered, Pending
<1> QED BY <1>2, <1>3

\* The outcomes a call may end with.
LEMMA OutcomeFacts ==
  /\ NoResponse \in Outcome /\ NoResponse.kind # "response"
  /\ \A r \in Response : [kind |-> "response", response |-> r] \in Outcome
BY DEF Outcome, NoResponse

LEMMA EndTable ==
  ASSUME NEW c \in Caller, NEW o, End(c, o)
  PROVE  /\ Pending' = Pending \ {Current(c)}
         /\ \A i \in Pending' : pending'[i] = pending[i]
BY DEF End, Removed, Pending

LEMMA EndTyped ==
  ASSUME TypeOK, NEW c \in Caller, NEW o \in Outcome, End(c, o)
  PROVE  /\ outcome' \in [Caller -> Outcome] /\ caller' \in [Caller -> CallerState]
         /\ waits' \in [Caller -> BOOLEAN]
         /\ caller'[c] = Idle /\ outcome'[c] = o /\ ~waits'[c]
         /\ \A d \in Caller \ {c} : /\ caller'[d] = caller[d] /\ outcome'[d] = outcome[d]
                                   /\ waits'[d] = waits[d]
         /\ receiver' \in ReceiverState
         /\ Pending' \subseteq Cid /\ \A i \in Pending' : pending'[i] \in Waiter
<1>1. Idle \in CallerState
  BY DEF CallerState
<1>2. [pc |-> "idle"] \in ReceiverState
  BY DEF ReceiverState
<1>3. receiver' \in ReceiverState
  BY <1>2 DEF End, TypeOK
<1>4. /\ outcome' \in [Caller -> Outcome] /\ caller' \in [Caller -> CallerState]
      /\ waits' \in [Caller -> BOOLEAN]
  BY <1>1 DEF End, TypeOK
<1>5. /\ caller'[c] = Idle /\ outcome'[c] = o /\ ~waits'[c]
      /\ \A d \in Caller \ {c} : /\ caller'[d] = caller[d] /\ outcome'[d] = outcome[d]
                                /\ waits'[d] = waits[d]
  BY DEF End, TypeOK
<1>6. Pending' \subseteq Cid /\ \A i \in Pending' : pending'[i] \in Waiter
  BY EndTable DEF TypeOK
<1> QED BY <1>3, <1>4, <1>5, <1>6

----------------------------------------------------------------------------
(* Types.                                                                  *)

LEMMA InitCorrect == Init => CommandsIInv
<1> SUFFICES ASSUME Init PROVE CommandsIInv
  OBVIOUS
<1>1. Pending = {} /\ \A c \in Caller : ~waits[c]
  BY DEF Init, Pending
<1>2. Domains
  BY DEF Init, Domains
<1>3. TypeOK
  <2>1. \A i \in Cid : runs[i] \in 0 .. MaxRuns[i.caller]
    BY CidFacts, CommandAssumption DEF Init
  <2>2. \A c \in Caller : calls[c] \in 0 .. MaxCalls[c]
    BY CommandAssumption DEF Init
  <2>3. /\ outcome \in [Caller -> Outcome] /\ caller \in [Caller -> CallerState]
        /\ waits \in [Caller -> BOOLEAN]
    BY OutcomeFacts DEF Init, CallerState
  <2>4. receiver \in ReceiverState
    BY DEF Init, ReceiverState
  <2> QED BY <1>1, <2>1, <2>2, <2>3, <2>4 DEF Init, TypeOK
<1>4. PendingExact
  BY <1>1, PendingIs
<1>5. NestedHolds
  BY <1>1, CommandAssumption DEF Init, NestedHolds
<1>6. ResponsesMatch /\ NestedStarves
  BY CommandAssumption, OutcomeFacts DEF Init, ResponsesMatch, NestedStarves
<1>7. CommandOnce /\ RepeatedForAReason
  BY CidFacts DEF Init, CommandOnce, RepeatedForAReason, ToSend, At, Idle
<1> QED
  BY <1>1, <1>2, <1>3, <1>4, <1>5, <1>6, <1>7
  DEF Init, CommandsIInv, ResponsesReal, WaitersMatch, ResponderRuns

\* What a step of a send does: the call goes on, or it ends.
GoesOn(c) ==
  /\ caller[c] # Idle
  /\ \E pc \in {"flush", "answer", "wait"} : caller' = [caller EXCEPT ![c] = pc]
  /\ UNCHANGED <<waits, pending, outcome, receiver>>

LEMMA SendCases ==
  ASSUME NEW c \in Caller, Send(c)
  PROVE  /\ caller[c] \in {"send", "flush", "answer"} /\ caller[c] # Idle
         /\ commands' \in {commands, commands \cup {Current(c)}}
         /\ outbox' \in {outbox, outbox \cup {Current(c)}, outbox \ {Current(c)}}
         /\ disturbed' \in {disturbed, disturbed \cup {Current(c)}}
         /\ GoesOn(c) \/ End(c, NoResponse)
         /\ UNCHANGED <<calls, responses, executor>>
<1>1. CASE Enqueue(c)
  BY <1>1 DEF Enqueue, Proceed, GoesOn, Idle
<1>2. CASE Transmit(c)
  BY <1>2 DEF Transmit, GoesOn, Idle
<1>3. CASE Returns(c)
  BY <1>3 DEF Returns, Proceed, SettleRow, Disturbs, GoesOn, Idle
<1>4. CASE Raises(c)
  BY <1>4 DEF Raises, SettleRow, Disturbs, Idle
<1> QED BY <1>1, <1>2, <1>3, <1>4 DEF Send

LEMMA TypeStep ==
  ASSUME TypeOK, Domains, WaitersMatch, ResponderRuns, [Next]_vars
  PROVE  TypeOK' /\ Domains'
<1>1. ASSUME NEW c \in Caller, NEW wait \in BOOLEAN, Begin(c, wait) PROVE TypeOK' /\ Domains'
  <2>1. \A d \in Caller : calls'[d] \in 0 .. MaxCalls[d]
    BY <1>1, BeginCalls, CommandAssumption DEF TypeOK
  <2>2. Pending' \subseteq Cid /\ \A i \in Pending' : pending'[i] \in Waiter
    <3>1. NoWaiter \in Waiter
      BY DEF NoWaiter, Waiter
    <3> QED BY <1>1, <3>1, BeginTable, BeginNames DEF TypeOK
  <2>3. /\ outcome' \in [Caller -> Outcome] /\ caller' \in [Caller -> CallerState]
        /\ waits' \in [Caller -> BOOLEAN]
    BY <1>1, OutcomeFacts DEF Begin, TypeOK, CallerState
  <2>4. receiver' \in ReceiverState
    BY <1>1 DEF Begin, TypeOK, ReceiverState
  <2>5. \A d \in Caller : (caller'[d] # Idle => calls'[d] # 0) /\ (waits'[d] => caller'[d] # Idle)
    <3>1. /\ \A d \in Caller \ {c} : caller'[d] = caller[d] /\ waits'[d] = waits[d]
          /\ caller'[c] # Idle
      BY <1>1 DEF Begin, TypeOK, Idle
    <3> QED BY <1>1, <3>1, BeginCalls DEF Domains
  <2> QED BY <1>1, <2>1, <2>2, <2>3, <2>4, <2>5, BeginCalls
          DEF Begin, TypeOK, Domains, channel, executor
<1>2. ASSUME NEW c \in Caller, Send(c) PROVE TypeOK' /\ Domains'
  <2>1. Current(c) \in Cid
    BY <1>2, SendCases, CurrentFacts DEF Domains
  <2>2. commands' \subseteq Cid /\ outbox' \subseteq Cid /\ disturbed' \subseteq Cid
    BY <1>2, <2>1, SendCases DEF TypeOK
  <2>3. CASE GoesOn(c)
    <3>1. /\ caller' \in [Caller -> CallerState] /\ caller'[c] # Idle
          /\ \A d \in Caller \ {c} : caller'[d] = caller[d]
      BY <2>3 DEF GoesOn, TypeOK, CallerState, Idle
    <3> QED BY <1>2, <2>2, <2>3, <3>1, SendCases
            DEF GoesOn, TypeOK, Domains, executor, Pending
  <2>4. CASE End(c, NoResponse)
    <3>1. PICK o \in Outcome : End(c, o)
      BY <2>4, OutcomeFacts
    <3> QED BY <1>2, <2>2, <3>1, SendCases, EndTyped DEF TypeOK, Domains, executor
  <2> QED BY <1>2, <2>3, <2>4, SendCases
<1>3. ASSUME NEW c \in Caller, Answered(c) PROVE TypeOK' /\ Domains'
  <2>1. pending[Current(c)].response \in Response
    BY <1>3 DEF Answered, WaitersMatch
  <2>2. PICK o \in Outcome : End(c, o)
    BY <1>3, <2>1, OutcomeFacts DEF Answered
  <2> QED BY <1>3, <2>2, EndTyped DEF Answered, TypeOK, Domains, channel, executor
<1>4. ASSUME NEW c \in Caller, TimesOut(c) PROVE TypeOK' /\ Domains'
  BY <1>4 DEF TimesOut, TypeOK, Domains, channel, executor, Pending, CallerState, Idle
<1>5. ASSUME NEW c \in Caller, GiveUp(c) PROVE TypeOK' /\ Domains'
  <2>1. PICK o \in Outcome : End(c, o)
    BY <1>5, OutcomeFacts DEF GiveUp
  <2> QED BY <1>5, <2>1, EndTyped DEF GiveUp, TypeOK, Domains, channel, executor
<1>6. ASSUME NEW i \in Cid, OutboxSends(i) \/ OutboxDrops(i) PROVE TypeOK' /\ Domains'
  BY <1>6 DEF OutboxSends, OutboxDrops, Disturbs, TypeOK, Domains, requester, executor, Pending
<1>7. ASSUME NEW i \in Cid, Execute(i) PROVE TypeOK' /\ Domains'
  <2>1. runs' \in [Cid -> Nat] /\ \A j \in Cid : runs'[j] \in 0 .. MaxRuns[j.caller]
    <3>1. runs \in [Cid -> Nat] /\ runs[i] < MaxRuns[i.caller] /\ runs' = [runs EXCEPT ![i] = @ + 1]
      BY <1>7 DEF Execute, Domains
    <3>2. \A j \in Cid : runs[j] \in 0 .. MaxRuns[j.caller] /\ MaxRuns[j.caller] \in Nat
      BY CidFacts, CommandAssumption DEF TypeOK
    <3> QED BY <3>1, <3>2
  <2>2. responder' \in Job
    BY <1>7 DEF Execute, Job
  <2> QED BY <1>7, <2>1, <2>2 DEF Execute, TypeOK, Domains, requester, channel, Pending
<1>8. CASE Reply
  <2>1. PICK j \in Job : j = responder
    BY <1>8 DEF Reply, TypeOK
  <2>2. responder' \in Job
    BY <1>8, <2>1 DEF Reply, Job
  <2>3. [cid |-> j.cid, run |-> runs[j.cid]] \in Response
    <3>1. j.cid \in Cid /\ runs[j.cid] >= 1
      BY <1>8, <2>1 DEF Reply, ResponderRuns
    <3>2. runs[j.cid] \in 1 .. MaxRuns[j.cid.caller]
      BY <3>1, CidFacts, CommandAssumption DEF TypeOK
    <3> QED BY <3>1, <3>2, ResponseFacts
  <2> QED BY <1>8, <2>1, <2>2, <2>3 DEF Reply, CorrelationOf, TypeOK, Domains, requester, Pending
<1>9. CASE AckCommand
  BY <1>9 DEF AckCommand, Retired, TypeOK, Domains, requester, Pending
<1>10. CASE Disturb
  <2>1. disturbed' \subseteq Cid
    BY <1>10 DEF Disturb, Disturbs, ResponderRuns, TypeOK
  <2> QED BY <1>10, <2>1 DEF Disturb, TypeOK, Domains, requester, Pending
<1>11. ASSUME NEW r \in responses, HandleResponse(r) PROVE TypeOK' /\ Domains'
  <2>1. r \in Response
    BY DEF TypeOK
  <2>2. receiver' \in ReceiverState
    BY <1>11, <2>1 DEF HandleResponse, ReceiverState
  <2>3. Pending' = Pending /\ \A i \in Pending : pending'[i] \in Waiter
    BY <1>11, <2>1 DEF HandleResponse, Pending, TypeOK, Waiter
  <2> QED BY <1>11, <2>2, <2>3 DEF HandleResponse, TypeOK, Domains, channel, executor
<1>12. ASSUME NEW acked \in BOOLEAN, AckResponse(acked) PROVE TypeOK' /\ Domains'
  <2>1. receiver' \in ReceiverState /\ responses' \subseteq Response
    BY <1>12 DEF AckResponse, TypeOK, ReceiverState
  <2> QED BY <1>12, <2>1 DEF AckResponse, TypeOK, Domains, requester, executor, Pending
<1>13. CASE UNCHANGED vars
  BY <1>13 DEF vars, TypeOK, Domains, Pending
<1> QED
  BY <1>1, <1>2, <1>3, <1>4, <1>5, <1>6, <1>7, <1>8, <1>9, <1>10, <1>11, <1>12, <1>13
  DEF Next, Step, Respond

----------------------------------------------------------------------------
(* The table: what it holds, what is handed over, and the nested call.     *)

TableInv == PendingExact /\ WaitersMatch /\ NestedHolds /\ ResponsesMatch /\ NestedStarves

\* Responses and waiters stay real while executions only grow in number.
LEMMA MoreRuns ==
  ASSUME WaitersMatch, ResponsesMatch, TypeOK, Domains, Domains',
         \A i \in Cid : runs'[i] >= runs[i], UNCHANGED requester
  PROVE  WaitersMatch' /\ ResponsesMatch'
<1>1. WaitersMatch'
  <2> SUFFICES ASSUME NEW i \in Pending, pending[i].done
               PROVE  /\ pending[i].response \in Response
                      /\ pending[i].response.cid = i
                      /\ pending[i].response.run \in 1 .. runs'[i]
    BY DEF WaitersMatch, requester, Pending
  <2>1. runs'[i] >= runs[i] /\ runs'[i] \in Nat /\ runs[i] \in Nat
    BY DEF TypeOK, Domains
  <2> QED BY <2>1 DEF WaitersMatch
<1>2. ResponsesMatch'
  <2> SUFFICES ASSUME NEW c \in Caller, outcome[c].kind = "response"
               PROVE  /\ outcome[c].response.cid = Current(c)
                      /\ outcome[c].response.run \in 1 .. runs'[outcome[c].response.cid]
    BY DEF ResponsesMatch, requester, Current
  <2>1. outcome[c].response \in Response
    BY DEF TypeOK, Outcome
  <2>2. PICK i \in Cid : i = outcome[c].response.cid
    BY <2>1, ResponseFacts
  <2>3. runs'[i] >= runs[i] /\ runs'[i] \in Nat /\ runs[i] \in Nat
    BY DEF Domains
  <2> QED BY <2>2, <2>3 DEF ResponsesMatch
<1> QED BY <1>1, <1>2

\* The steps of channel and responder leave the table and the thread alone.
LEMMA TableApart ==
  ASSUME TypeOK, Domains, Domains', TableInv, UNCHANGED requester, UNCHANGED receiver,
         \A i \in Cid : runs'[i] >= runs[i]
  PROVE  TableInv'
<1>1. PendingExact' /\ NestedHolds' /\ NestedStarves'
  BY DEF TableInv, PendingExact, NestedHolds, NestedStarves, Pending, Current, requester
<1> QED BY <1>1, MoreRuns DEF TableInv

LEMMA TableBegin ==
  ASSUME TypeOK, Domains, TableInv, NEW c \in Caller, NEW wait \in BOOLEAN, Begin(c, wait)
  PROVE  TableInv'
<1>1. /\ caller' = [caller EXCEPT ![c] = "send"] /\ waits' = [waits EXCEPT ![c] = wait]
      /\ outcome' = [outcome EXCEPT ![c] = NoResponse]
      /\ receiver' = IF c = Nested THEN [pc |-> "nested"] ELSE receiver
      /\ caller[c] = Idle /\ runs' = runs
  BY DEF Begin, executor
<1>2. waits'[c] <=> wait
  BY <1>1 DEF TypeOK
<1>3. \A d \in Caller \ {c} : waits'[d] = waits[d] /\ caller'[d] = caller[d] /\ outcome'[d] = outcome[d]
  BY <1>1 DEF TypeOK
<1>4. ~waits[c] /\ outcome'[c].kind # "response"
  BY <1>1, OutcomeFacts DEF Domains, TypeOK
<1>5. \A i : i \in Pending <=> \E d \in Caller : waits[d] /\ i = Current(d)
  BY PendingIs DEF TableInv
<1>6. PendingExact'
  <2>1. ASSUME NEW i PROVE i \in Pending' <=> \E d \in Caller : waits'[d] /\ i = Current(d)'
    BY <1>2, <1>3, <1>4, <1>5, BeginTable, BeginNames
  <2>2. Pending' = {Current(d)' : d \in {x \in Caller : waits'[x]}}
    BY <2>1
  <2> QED BY <2>2 DEF PendingExact
<1>7. WaitersMatch'
  <2> SUFFICES ASSUME NEW i \in Pending', pending'[i].done
               PROVE  /\ pending'[i].response \in Response
                      /\ pending'[i].response.cid = i
                      /\ pending'[i].response.run \in 1 .. runs'[i]
    BY DEF WaitersMatch
  <2>1. i \in Pending /\ pending'[i] = pending[i]
    BY BeginTable DEF NoWaiter
  <2> QED BY <1>1, <2>1 DEF TableInv, WaitersMatch
<1>8. NestedHolds'
  <2>1. caller'[Nested] # Idle <=> receiver'.pc = "nested"
    <3>1. CASE c = Nested
      BY <1>1, <3>1 DEF TypeOK, Idle
    <3>2. CASE c # Nested
      BY <1>1, <1>3, <3>2, CommandAssumption DEF TableInv, NestedHolds
    <3> QED BY <3>1, <3>2
  <2>2. \A i \in Pending' : i.caller = Nested => ~pending'[i].done
    BY BeginTable DEF TableInv, NestedHolds, NoWaiter
  <2> QED BY <2>1, <2>2 DEF NestedHolds
<1>9. ResponsesMatch' /\ NestedStarves'
  <2>1. \A d \in Caller \ {c} : Current(d)' = Current(d)
    BY BeginNames
  <2> QED BY <1>1, <1>3, <1>4, <2>1, CommandAssumption
          DEF TableInv, ResponsesMatch, NestedStarves
<1> QED BY <1>6, <1>7, <1>8, <1>9 DEF TableInv

\* However a call ends, and with a response only if it was its own.
LEMMA TableEnd ==
  ASSUME TypeOK, Domains, TableInv, NEW c \in Caller, NEW o \in Outcome, End(c, o),
         calls' = calls, runs' = runs,
         o.kind = "response" =>
           c # Nested /\ o.response.cid = Current(c) /\ o.response.run \in 1 .. runs[o.response.cid]
  PROVE  TableInv'
<1>1. \A d : Current(d)' = Current(d)
  BY DEF Current
<1>2. /\ ~waits'[c] /\ caller'[c] = Idle /\ outcome'[c] = o
      /\ \A d \in Caller \ {c} : waits'[d] = waits[d] /\ caller'[d] = caller[d] /\ outcome'[d] = outcome[d]
  BY EndTyped
<1>3. \A i : i \in Pending <=> \E d \in Caller : waits[d] /\ i = Current(d)
  BY PendingIs DEF TableInv
<1>4. PendingExact'
  <2>1. ASSUME NEW i PROVE i \in Pending' <=> \E d \in Caller : waits'[d] /\ i = Current(d)'
    <3>1. \A d \in Caller : Current(d) = Current(c) => d = c
      BY CurrentFacts
    <3> QED BY <1>1, <1>2, <1>3, <3>1, EndTable
  <2>2. Pending' = {Current(d)' : d \in {x \in Caller : waits'[x]}}
    BY <2>1
  <2> QED BY <2>2 DEF PendingExact
<1>5. WaitersMatch'
  BY EndTable DEF TableInv, WaitersMatch
<1>6. NestedHolds'
  <2>1. receiver' = IF c = Nested THEN [pc |-> "idle"] ELSE receiver
    BY DEF End
  <2>2. caller'[Nested] # Idle <=> receiver'.pc = "nested"
    <3>1. CASE c = Nested
      BY <1>2, <2>1, <3>1
    <3>2. CASE c # Nested
      BY <1>2, <2>1, <3>2, CommandAssumption DEF TableInv, NestedHolds
    <3> QED BY <3>1, <3>2
  <2> QED BY <2>2, EndTable DEF TableInv, NestedHolds
<1>7. ResponsesMatch' /\ NestedStarves'
  BY <1>1, <1>2, CommandAssumption DEF TableInv, ResponsesMatch, NestedStarves
<1> QED BY <1>4, <1>5, <1>6, <1>7 DEF TableInv

\* A call sends, is answered, or gives up.
LEMMA TableSend ==
  ASSUME TypeOK, Domains, TableInv, NEW c \in Caller, Send(c)
  PROVE  TableInv'
<1>1. calls' = calls /\ runs' = runs
  BY SendCases DEF executor
<1>2. CASE GoesOn(c)
  <2>1. \A d \in Caller : caller'[d] = Idle <=> caller[d] = Idle
    BY <1>2 DEF GoesOn, Idle, TypeOK
  <2>2. PendingExact'
    BY <1>1, <1>2 DEF GoesOn, TableInv, PendingExact, Current, Pending
  <2> QED BY <1>1, <1>2, <2>1, <2>2, CommandAssumption
          DEF GoesOn, TableInv, WaitersMatch, NestedHolds, ResponsesMatch, NestedStarves, Pending,
              Current
<1>3. CASE End(c, NoResponse)
  BY <1>1, <1>3, OutcomeFacts, TableEnd
<1> QED BY <1>2, <1>3, SendCases

LEMMA TableAnswered ==
  ASSUME TypeOK, Domains, TableInv, NEW c \in Caller, Answered(c)
  PROVE  TableInv'
<1>1. /\ Current(c) \in Pending /\ pending[Current(c)].done
      /\ End(c, [kind |-> "response", response |-> pending[Current(c)].response])
      /\ calls' = calls /\ runs' = runs
  BY DEF Answered, executor
<1> DEFINE r == pending[Current(c)].response
<1>2. r \in Response /\ r.cid = Current(c) /\ r.run \in 1 .. runs[Current(c)]
  BY <1>1 DEF TableInv, WaitersMatch
<1>3. c # Nested
  <2>1. Current(c).caller = c
    BY DEF Current
  <2> QED BY <1>1, <2>1 DEF TableInv, NestedHolds
<1> QED BY <1>1, <1>2, <1>3, OutcomeFacts, TableEnd

LEMMA TableTimesOut ==
  ASSUME TypeOK, Domains, TableInv, NEW c \in Caller, TimesOut(c)
  PROVE  TableInv'
<1>1. /\ calls' = calls /\ runs' = runs /\ outcome' = outcome /\ pending' = pending
      /\ receiver' = receiver /\ waits' = waits
      /\ caller[c] = "wait" /\ caller' = [caller EXCEPT ![c] = "given up"]
  BY DEF TimesOut, executor
<1>2. \A d \in Caller : caller'[d] = Idle <=> caller[d] = Idle
  BY <1>1 DEF Idle, TypeOK
<1>3. PendingExact'
  BY <1>1 DEF TableInv, PendingExact, Current, Pending
<1> QED BY <1>1, <1>2, <1>3, CommandAssumption
        DEF TableInv, WaitersMatch, NestedHolds, ResponsesMatch, NestedStarves, Pending, Current

LEMMA TableGiveUp ==
  ASSUME TypeOK, Domains, TableInv, NEW c \in Caller, GiveUp(c)
  PROVE  TableInv'
<1>1. End(c, NoResponse) /\ calls' = calls /\ runs' = runs
  BY DEF GiveUp, executor
<1> QED BY <1>1, OutcomeFacts, TableEnd

\* The thread that hands a response over is free, and so no nested call waits.
LEMMA TableHandle ==
  ASSUME TypeOK, Domains, TableInv, ResponsesReal, NEW r \in responses, HandleResponse(r)
  PROVE  TableInv'
<1>1. /\ receiver.pc = "idle" /\ receiver'.pc = "ack" /\ Pending' = Pending
      /\ calls' = calls /\ runs' = runs /\ outcome' = outcome /\ caller' = caller
      /\ waits' = waits
      /\ \A i \in Pending : pending'[i] = IF i = r.cid THEN [done |-> TRUE, response |-> r]
                                          ELSE pending[i]
  BY DEF HandleResponse, ReceiverFree, executor, Pending
<1>2. r \in Response /\ r.run \in 1 .. runs[r.cid]
  BY DEF TypeOK, ResponsesReal
<1>3. PendingExact'
  BY <1>1 DEF TableInv, PendingExact, Current
<1>4. WaitersMatch'
  <2> SUFFICES ASSUME NEW i \in Pending, pending'[i].done
               PROVE  /\ pending'[i].response \in Response
                      /\ pending'[i].response.cid = i
                      /\ pending'[i].response.run \in 1 .. runs[i]
    BY <1>1 DEF WaitersMatch
  <2>1. CASE i = r.cid
    BY <1>1, <1>2, <2>1
  <2>2. CASE i # r.cid
    BY <1>1, <2>2 DEF TableInv, WaitersMatch
  <2> QED BY <2>1, <2>2
<1>5. NestedHolds'
  <2>1. caller[Nested] = Idle
    BY <1>1 DEF TableInv, NestedHolds
  <2>2. ASSUME NEW i \in Pending PROVE i.caller # Nested
    <3>1. PendingExact
      BY DEF TableInv
    <3>2. i \in Cid /\ waits[i.caller]
      BY <3>1, WaiterOf
    <3>3. i.caller \in Caller
      BY <3>2, CidFacts
    <3> QED BY <2>1, <3>2, <3>3 DEF Domains
  <2> QED BY <1>1, <2>1, <2>2 DEF NestedHolds
<1>6. ResponsesMatch' /\ NestedStarves'
  BY <1>1 DEF TableInv, ResponsesMatch, NestedStarves, Current
<1> QED BY <1>3, <1>4, <1>5, <1>6 DEF TableInv

LEMMA TableAckResponse ==
  ASSUME TypeOK, Domains, TableInv, NEW acked \in BOOLEAN, AckResponse(acked)
  PROVE  TableInv'
<1>1. /\ receiver.pc = "ack" /\ receiver'.pc = "idle" /\ pending' = pending
      /\ calls' = calls /\ runs' = runs /\ outcome' = outcome /\ caller' = caller
      /\ waits' = waits
  BY DEF AckResponse, requester, executor
<1>2. PendingExact'
  BY <1>1 DEF TableInv, PendingExact, Current, Pending
<1> QED BY <1>1, <1>2
        DEF TableInv, WaitersMatch, NestedHolds, ResponsesMatch, NestedStarves, Pending, Current

LEMMA TableStep ==
  ASSUME TypeOK, Domains, TableInv, ResponsesReal, Domains', [Next]_vars
  PROVE  TableInv'
<1>1. ASSUME NEW i \in Cid, OutboxSends(i) \/ OutboxDrops(i) PROVE TableInv'
  <2>1. UNCHANGED requester /\ UNCHANGED receiver /\ runs' = runs
    BY <1>1 DEF OutboxSends, OutboxDrops, executor
  <2> QED BY <2>1, TableApart DEF Domains
<1>2. ASSUME NEW i \in Cid, Execute(i) PROVE TableInv'
  <2>1. UNCHANGED requester /\ UNCHANGED receiver /\ runs' = [runs EXCEPT ![i] = @ + 1]
    BY <1>2 DEF Execute
  <2>2. \A j \in Cid : runs'[j] >= runs[j]
    BY <2>1 DEF Domains
  <2> QED BY <2>1, <2>2, TableApart
<1>3. CASE Reply \/ AckCommand \/ Disturb
  <2>1. UNCHANGED requester /\ UNCHANGED receiver /\ runs' = runs
    BY <1>3 DEF Reply, AckCommand, Disturb
  <2> QED BY <2>1, TableApart DEF Domains
<1>4. CASE UNCHANGED vars
  <2>1. UNCHANGED requester /\ UNCHANGED receiver /\ runs' = runs
    BY <1>4 DEF vars, requester
  <2> QED BY <2>1, TableApart DEF Domains
<1> QED
  BY <1>1, <1>2, <1>3, <1>4, TableBegin, TableSend, TableAnswered, TableTimesOut, TableGiveUp,
     TableHandle, TableAckResponse
  DEF Next, Step, Respond

----------------------------------------------------------------------------
(* The commands: where each is, and how often it has been executed.        *)

CommandInv == ResponsesReal /\ ResponderRuns /\ CommandOnce /\ RepeatedForAReason

\* Steps of the requester that send nothing and leave nothing more to send.
LEMMA CommandsApart ==
  ASSUME CommandInv, \A i \in Cid : (Unsent(i)' => Unsent(i)) /\ (ToSend(i)' => ToSend(i)),
         UNCHANGED executor, UNCHANGED <<commands, disturbed>>, outbox' \subseteq outbox,
         responses' \subseteq responses
  PROVE  CommandInv'
BY DEF CommandInv, ResponsesReal, ResponderRuns, CommandOnce, RepeatedForAReason, executor

LEMMA UnsentKept ==
  ASSUME NEW i, UNCHANGED <<calls, caller>>
  PROVE  /\ Unsent(i)' <=> Unsent(i)
         /\ \A pc : At(i, pc)' <=> At(i, pc)
BY DEF Unsent, Sends, At

LEMMA CommandBegin ==
  ASSUME TypeOK, Domains, CommandInv, NEW c \in Caller, NEW wait \in BOOLEAN, Begin(c, wait)
  PROVE  CommandInv'
<1>1. ASSUME NEW i \in Cid PROVE (Unsent(i)' => Unsent(i)) /\ (ToSend(i)' => ToSend(i))
  <2>1. CASE i.caller = c
    <3>1. /\ calls'[c] = calls[c] + 1 /\ calls[c] \in Nat /\ i.call \in Nat
          /\ caller[c] = Idle /\ caller'[c] = "send" /\ outbox' = outbox
      BY BeginCalls, CidFacts, CommandAssumption DEF Domains, Begin, TypeOK, channel
    <3>2. Unsent(i)' => Unsent(i)
      BY <2>1, <3>1 DEF Unsent
    <3>3. ~At(i, "answer") /\ ~At(i, "flush")'
      BY <2>1, <3>1 DEF At, Idle
    <3> QED BY <3>1, <3>2, <3>3 DEF ToSend
  <2>2. CASE i.caller # c
    <3>1. i.caller \in Caller \ {c}
      BY <2>2, CidFacts
    <3>2. calls'[i.caller] = calls[i.caller] /\ caller'[i.caller] = caller[i.caller]
      BY <3>1, BeginCalls DEF Begin, TypeOK
    <3>3. outbox' = outbox
      BY DEF Begin, channel
    <3> QED BY <3>2, <3>3 DEF Unsent, Sends, ToSend, At
  <2> QED BY <2>1, <2>2
<1>2. /\ UNCHANGED executor /\ UNCHANGED <<commands, disturbed>> /\ outbox' \subseteq outbox
      /\ responses' \subseteq responses
  BY DEF Begin, channel
<1> QED BY <1>1, <1>2, CommandsApart

\* A caller's step changes the place of its current command only.
LEMMA CallerAdvances ==
  ASSUME TypeOK, Domains, NEW c \in Caller, calls' = calls, ~Sends(c)',
         \A d \in Caller \ {c} : caller'[d] = caller[d]
  PROVE  \A i \in Cid : /\ Unsent(i)' => Unsent(i) /\ i # Current(c)
                        /\ i # Current(c) => \A pc : At(i, pc)' <=> At(i, pc)
<1>1. ASSUME NEW i \in Cid
      PROVE  /\ Unsent(i)' => Unsent(i) /\ i # Current(c)
             /\ i # Current(c) => \A pc : At(i, pc)' <=> At(i, pc)
  <2>1. i.caller \in Caller /\ i.call \in Nat /\ calls[i.caller] \in Nat
    BY CidFacts, CommandAssumption DEF Domains
  <2>2. i = Current(c) <=> i.caller = c /\ i.call = calls[c]
    BY CurrentFacts
  <2>3. CASE i.caller = c
    <3>1. Unsent(i)' => i.call > calls[c]
      BY <2>3 DEF Unsent
    <3> QED BY <2>1, <2>2, <2>3, <3>1 DEF Unsent, At
  <2>4. CASE i.caller # c
    <3>1. caller'[i.caller] = caller[i.caller]
      BY <2>1, <2>4
    <3> QED BY <2>2, <2>4, <3>1 DEF Unsent, Sends, At
  <2> QED BY <2>3, <2>4
<1> QED BY <1>1

\* A step of a call that has not ended, and that touches its own command only.
LEMMA CommandCall ==
  ASSUME TypeOK, Domains, CommandInv, NEW c \in Caller, calls' = calls, ~Sends(c)',
         \A d \in Caller \ {c} : caller'[d] = caller[d],
         UNCHANGED <<responses, executor>>, disturbed \subseteq disturbed',
         NEW k, k = Current(c), k \in Cid,
         \A i : i # k => /\ i \in commands' <=> i \in commands
                         /\ i \in outbox' <=> i \in outbox
                         /\ i \in disturbed' <=> i \in disturbed,
         k \notin disturbed' =>
           /\ ToSend(k)' => k \notin commands' /\ runs[k] = 0
           /\ runs[k] >= 1 => (responder # None /\ responder.cid = k) \/ k \notin commands'
  PROVE  CommandInv'
<1>1. \A i \in Cid : /\ Unsent(i)' => Unsent(i) /\ i # k
                     /\ i # k => \A pc : At(i, pc)' <=> At(i, pc)
  BY CallerAdvances
<1>2. CommandOnce'
  <2> SUFFICES ASSUME NEW i \in Cid
               PROVE  /\ Unsent(i)' => i \notin commands' \cup outbox' /\ runs[i] = 0
                      /\ i \notin disturbed' =>
                           /\ ToSend(i)' => i \notin commands' /\ runs[i] = 0
                           /\ runs[i] >= 1 => \/ responder # None /\ responder.cid = i
                                              \/ i \notin commands'
    BY DEF CommandOnce, executor
  <2>1. CASE i = k
    BY <1>1, <2>1
  <2>2. CASE i # k
    <3>1. ToSend(i)' => ToSend(i)
      BY <1>1, <2>2 DEF ToSend
    <3> QED BY <1>1, <2>2, <3>1 DEF CommandInv, CommandOnce
  <2> QED BY <2>1, <2>2
<1> QED BY <1>2 DEF CommandInv, ResponsesReal, ResponderRuns, RepeatedForAReason, executor

LEMMA CommandSend ==
  ASSUME TypeOK, Domains, CommandInv, NEW c \in Caller, Send(c)
  PROVE  CommandInv'
<1>k. PICK k : k = Current(c)
  OBVIOUS
<1>1. calls' = calls /\ UNCHANGED <<responses, executor>> /\ disturbed \subseteq disturbed'
  BY SendCases
<1>2. ~Sends(c)' /\ \A d \in Caller \ {c} : caller'[d] = caller[d]
  <2>1. CASE GoesOn(c)
    BY <2>1 DEF GoesOn, TypeOK, Sends
  <2>2. CASE End(c, NoResponse)
    BY <2>2 DEF End, Idle, TypeOK, Sends
  <2> QED BY <2>1, <2>2, SendCases
<1>3. k \in Cid /\ \A pc : (At(k, pc) <=> caller[c] = pc) /\ (At(k, pc)' <=> caller'[c] = pc)
  <2>1. k \in Cid
    BY <1>k, SendCases, CurrentFacts DEF Domains
  <2>2. k.caller = c /\ k.call = calls[c]
    BY <1>k, CurrentFacts
  <2> QED BY <1>1, <2>1, <2>2 DEF At
<1>4. \A i : i # k => /\ i \in commands' <=> i \in commands
                      /\ i \in outbox' <=> i \in outbox
                      /\ i \in disturbed' <=> i \in disturbed
  BY <1>k, SendCases
<1>5. /\ caller[c] = "send" => k \notin commands \cup outbox /\ runs[k] = 0
      /\ k \notin disturbed => /\ ToSend(k) => k \notin commands /\ runs[k] = 0
                               /\ runs[k] >= 1 => \/ responder # None /\ responder.cid = k
                                                  \/ k \notin commands
  <2>1. caller[c] = "send" => Unsent(k)
    BY <1>k, CurrentFacts DEF Unsent, Sends
  <2> QED BY <1>3, <2>1 DEF CommandInv, CommandOnce
<1>6. ASSUME k \notin disturbed'
      PROVE  /\ ToSend(k)' => k \notin commands' /\ runs[k] = 0
             /\ runs[k] >= 1 => (responder # None /\ responder.cid = k) \/ k \notin commands'
  <2>1. k \notin disturbed
    BY <1>1, <1>6
  <2>2. CASE Enqueue(c)
    <3>1. caller[c] = "send" /\ commands' = commands
      BY <2>2 DEF Enqueue
    <3> QED BY <1>5, <3>1
  <2>3. CASE Transmit(c)
    <3>1. /\ caller'[c] = "answer" /\ outbox' = outbox
          /\ caller[c] = "send" \/ caller[c] = "flush"
      BY <2>3 DEF Transmit, TypeOK
    <3>2. ~ToSend(k)'
      BY <1>3, <3>1 DEF ToSend
    <3>3. runs[k] = 0
      BY <1>3, <1>5, <2>1, <3>1 DEF ToSend
    <3> QED BY <3>2, <3>3
  <2>4. CASE Returns(c) \/ Raises(c)
    <3>1. /\ commands' = commands /\ caller[c] \in {"send", "flush", "answer"}
          /\ caller[c] = "answer" => k \notin outbox'
          /\ outbox' \subseteq outbox
      BY <1>k, <1>6, <2>4 DEF Returns, Raises, SettleRow, Disturbs
    <3>2. caller'[c] \in {"wait", Idle}
      BY <2>4 DEF Returns, Raises, Proceed, End, TypeOK
    <3>3. ToSend(k)' => k \in outbox' /\ caller[c] # "answer"
      BY <1>3, <3>1, <3>2 DEF ToSend, Idle
    <3>4. ToSend(k)' => caller[c] = "send" \/ ToSend(k)
      BY <1>3, <3>1, <3>3 DEF ToSend
    <3> QED BY <1>5, <2>1, <3>1, <3>4
  <2> QED BY <2>2, <2>3, <2>4 DEF Send
<1> QED BY <1>k, <1>1, <1>2, <1>3, <1>4, <1>6, CommandCall

\* Steps that only end a call or go on with it.
LEMMA CommandEnd ==
  ASSUME TypeOK, Domains, CommandInv, NEW c \in Caller, Answered(c) \/ TimesOut(c) \/ GiveUp(c)
  PROVE  CommandInv'
<1>1. /\ calls' = calls /\ UNCHANGED executor
      /\ UNCHANGED <<commands, outbox, disturbed>> /\ responses' \subseteq responses
  BY DEF Answered, TimesOut, GiveUp, channel
<1>2. ~Sends(c)' /\ \A d \in Caller \ {c} : caller'[d] = caller[d]
  BY DEF Answered, TimesOut, GiveUp, End, Idle, TypeOK, Sends
<1>3. caller[c] \in {"wait", "given up"} /\ caller'[c] \in {Idle, "given up"}
  BY DEF Answered, TimesOut, GiveUp, End, TypeOK
<1>4. ASSUME NEW i \in Cid PROVE (Unsent(i)' => Unsent(i)) /\ (ToSend(i)' => ToSend(i))
  <2>1. /\ Unsent(i)' => Unsent(i) /\ i # Current(c)
        /\ i # Current(c) => \A pc : At(i, pc)' <=> At(i, pc)
    BY <1>1, <1>2, CallerAdvances
  <2>2. CASE i = Current(c)
    <3>1. i.caller = c
      BY <2>2, CurrentFacts
    <3>2. ~At(i, "answer") /\ ~At(i, "flush")'
      BY <1>3, <3>1 DEF At, Idle
    <3> QED BY <1>1, <2>1, <3>2 DEF ToSend
  <2>3. CASE i # Current(c)
    BY <1>1, <2>1, <2>3 DEF ToSend
  <2> QED BY <2>2, <2>3
<1> QED BY <1>1, <1>4, CommandsApart

\* The worker sends a command: undisturbed only if its caller is not sending it,
\* and then for the first and last time.
LEMMA CommandOutbox ==
  ASSUME TypeOK, Domains, CommandInv, NEW i \in Cid, OutboxSends(i)
  PROVE  CommandInv'
<1>1. /\ i \in outbox /\ commands' = commands \cup {i} /\ outbox' \in {outbox, outbox \ {i}}
      /\ disturbed' \in {disturbed, disturbed \cup {i}}
      /\ i \notin disturbed' => i \notin outbox' /\ ~InFlush(i)
      /\ UNCHANGED <<calls, caller, responses, executor>>
  BY DEF OutboxSends, Disturbs, requester
<1>2. \A j \in Cid : (Unsent(j)' <=> Unsent(j)) /\ \A pc : At(j, pc)' <=> At(j, pc)
  BY <1>1, UnsentKept
<1>3. i \notin disturbed' => ~At(i, "flush") /\ ~At(i, "answer")
  <2>1. i.caller \in Caller /\ i.call = calls[i.caller] => i = Current(i.caller)
    BY CurrentFacts
  <2> QED BY <1>1, <2>1, CidFacts DEF At, InFlush
<1>4. ~Unsent(i) /\ (i \notin disturbed' => i \notin disturbed /\ runs[i] = 0 /\ ~ToSend(i)')
  <2>1. ~Unsent(i)
    BY <1>1 DEF CommandInv, CommandOnce
  <2>2. ASSUME i \notin disturbed' PROVE i \notin disturbed /\ runs[i] = 0 /\ ~ToSend(i)'
    <3>1. i \notin disturbed /\ ToSend(i)
      BY <1>1, <1>3, <2>2 DEF ToSend
    <3>2. runs[i] = 0
      BY <3>1 DEF CommandInv, CommandOnce
    <3>3. ~ToSend(i)'
      BY <1>1, <1>2, <1>3, <2>2 DEF ToSend
    <3> QED BY <3>1, <3>2, <3>3
  <2> QED BY <2>1, <2>2
<1>5. CommandOnce'
  <2> SUFFICES ASSUME NEW j \in Cid
               PROVE  /\ Unsent(j)' => j \notin commands' \cup outbox' /\ runs[j] = 0
                      /\ j \notin disturbed' =>
                           /\ ToSend(j)' => j \notin commands' /\ runs[j] = 0
                           /\ runs[j] >= 1 => \/ responder # None /\ responder.cid = j
                                              \/ j \notin commands'
    BY <1>1 DEF CommandOnce, executor
  <2>1. CASE j = i
    BY <1>2, <1>4, <2>1
  <2>2. CASE j # i
    <3>1. ToSend(j)' <=> ToSend(j)
      BY <1>1, <1>2, <2>2 DEF ToSend
    <3> QED BY <1>1, <1>2, <2>2, <3>1 DEF CommandInv, CommandOnce
  <2> QED BY <2>1, <2>2
<1> QED BY <1>1, <1>5 DEF CommandInv, ResponsesReal, ResponderRuns, RepeatedForAReason, executor

LEMMA CommandStep ==
  ASSUME TypeOK, Domains, CommandInv, Domains', [Next]_vars
  PROVE  CommandInv'
<1>1. ASSUME UNCHANGED <<calls, caller>>
      PROVE  /\ \A i \in Cid : Unsent(i)' <=> Unsent(i)
             /\ \A i \in Cid : \A pc : At(i, pc)' <=> At(i, pc)
  BY <1>1, UnsentKept
<1>2. ASSUME NEW i \in Cid, OutboxSends(i) PROVE CommandInv'
  BY <1>2, CommandOutbox
<1>a. ASSUME NEW i \in Cid, OutboxDrops(i) PROVE CommandInv'
  <2>1. /\ outbox' \subseteq outbox /\ responses' = responses /\ UNCHANGED executor
        /\ UNCHANGED <<calls, caller, commands, disturbed>>
    BY <1>a DEF OutboxDrops, requester
  <2>2. \A j \in Cid : (Unsent(j)' => Unsent(j)) /\ (ToSend(j)' => ToSend(j))
    BY <1>1, <2>1 DEF ToSend
  <2> QED BY <2>1, <2>2, CommandsApart
<1>3. ASSUME NEW i \in Cid, Execute(i) PROVE CommandInv'
  <2>1. \A j \in Cid : (Unsent(j)' <=> Unsent(j)) /\ (ToSend(j)' <=> ToSend(j))
    BY <1>1, <1>3 DEF Execute, requester, channel, ToSend
  <2>2. /\ responder = None /\ i \in commands /\ responder' = [cid |-> i, replied |-> FALSE]
        /\ commands' = commands /\ outbox' = outbox /\ responses' = responses
        /\ disturbed' = disturbed
        /\ runs[i] \in Nat /\ runs'[i] = runs[i] + 1
        /\ \A j \in Cid \ {i} : runs'[j] = runs[j]
    BY <1>3 DEF Execute, channel, Domains
  <2>3. ~Unsent(i) /\ (ToSend(i) \/ runs[i] >= 1 => i \in disturbed)
    BY <2>2 DEF CommandInv, CommandOnce
  <2>4. CommandOnce'
    <3> SUFFICES ASSUME NEW j \in Cid
                 PROVE  /\ Unsent(j)' => j \notin commands' \cup outbox' /\ runs'[j] = 0
                        /\ j \notin disturbed' =>
                             /\ ToSend(j)' => j \notin commands' /\ runs'[j] = 0
                             /\ runs'[j] >= 1 => \/ responder' # None /\ responder'.cid = j
                                                 \/ j \notin commands'
      BY DEF CommandOnce
    <3>1. CASE j = i
      <4>1. responder' \in Job
        BY <2>2 DEF Job
      <4>2. responder' # None
        BY <4>1, CommandAssumption
      <4> QED BY <2>1, <2>2, <2>3, <3>1, <4>2
    <3>2. CASE j # i
      BY <2>1, <2>2, <3>2 DEF CommandInv, CommandOnce
    <3> QED BY <3>1, <3>2
  <2>5. RepeatedForAReason'
    <3> SUFFICES ASSUME NEW j \in Cid, runs'[j] > 1 PROVE j \in disturbed
      BY <2>2 DEF RepeatedForAReason
    <3>1. CASE j = i
      BY <2>2, <2>3, <3>1
    <3>2. CASE j # i
      BY <2>2, <3>2 DEF CommandInv, RepeatedForAReason
    <3> QED BY <3>1, <3>2
  <2>6. ResponsesReal'
    <3> SUFFICES ASSUME NEW r \in responses PROVE r.run \in 1 .. runs'[r.cid]
      BY <2>2 DEF ResponsesReal
    <3>1. r.cid \in Cid /\ r.run \in 1 .. runs[r.cid]
      BY ResponseFacts DEF TypeOK, CommandInv, ResponsesReal
    <3> QED BY <2>2, <3>1
  <2>7. ResponderRuns'
    BY <2>2 DEF ResponderRuns
  <2> QED BY <2>4, <2>5, <2>6, <2>7 DEF CommandInv
<1>4. CASE Reply
  <2>1. \A j \in Cid : (Unsent(j)' <=> Unsent(j)) /\ (ToSend(j)' <=> ToSend(j))
    BY <1>1, <1>4 DEF Reply, requester, ToSend
  <2>2. PICK j \in Job : j = responder
    BY <1>4 DEF Reply, TypeOK
  <2>3. responder' # None /\ responder'.cid = j.cid
    <3>1. responder' = [j EXCEPT !.replied = TRUE]
      BY <1>4, <2>2 DEF Reply
    <3>2. [j EXCEPT !.replied = TRUE] \in Job /\ [j EXCEPT !.replied = TRUE].cid = j.cid
      BY DEF Job
    <3> QED BY <3>1, <3>2, CommandAssumption
  <2>4. j.cid \in Cid /\ runs[j.cid] \in Nat /\ runs[j.cid] >= 1
    BY <1>4, <2>2 DEF Reply, CommandInv, ResponderRuns, Domains
  <2>5. ResponsesReal'
    <3>1. responses' = responses \cup {[cid |-> j.cid, run |-> runs[j.cid]]} /\ runs' = runs
      BY <1>4, <2>2 DEF Reply, CorrelationOf
    <3> QED BY <2>4, <3>1 DEF CommandInv, ResponsesReal
  <2>6. CommandOnce'
    BY <1>4, <2>1, <2>2, <2>3 DEF Reply, CommandInv, CommandOnce
  <2> QED BY <1>4, <2>3, <2>4, <2>5, <2>6
          DEF Reply, CommandInv, ResponderRuns, RepeatedForAReason
<1>5. CASE AckCommand
  <2>1. \A j \in Cid : (Unsent(j)' <=> Unsent(j)) /\ (ToSend(j)' <=> ToSend(j))
    BY <1>1, <1>5 DEF AckCommand, requester, ToSend
  <2> QED BY <1>5, <2>1
          DEF AckCommand, Retired, CommandInv, CommandOnce, ResponsesReal, ResponderRuns,
              RepeatedForAReason
<1>6. CASE Disturb
  <2>1. \A j \in Cid : (Unsent(j)' <=> Unsent(j)) /\ (ToSend(j)' <=> ToSend(j))
    BY <1>1, <1>6 DEF Disturb, requester, ToSend
  <2> QED BY <1>6, <2>1
          DEF Disturb, Disturbs, CommandInv, CommandOnce, ResponsesReal, ResponderRuns,
              RepeatedForAReason
<1>7. ASSUME \/ \E r \in responses : HandleResponse(r)
             \/ \E acked \in BOOLEAN : AckResponse(acked)
             \/ UNCHANGED vars
      PROVE  CommandInv'
  <2>1. /\ UNCHANGED <<calls, caller>> /\ UNCHANGED executor
        /\ UNCHANGED <<commands, outbox, disturbed>> /\ responses' \subseteq responses
    BY <1>7 DEF HandleResponse, AckResponse, vars, channel, requester, executor
  <2>2. \A j \in Cid : (Unsent(j)' => Unsent(j)) /\ (ToSend(j)' => ToSend(j))
    BY <1>1, <2>1 DEF ToSend
  <2> QED BY <2>1, <2>2, CommandsApart
<1> QED
  BY <1>2, <1>a, <1>3, <1>4, <1>5, <1>6, <1>7, CommandBegin, CommandSend, CommandEnd
  DEF Next, Step, Respond

----------------------------------------------------------------------------
(* The theorems.                                                           *)

LEMMA InductiveStep == CommandsIInv /\ [Next]_vars => CommandsIInv'
<1> SUFFICES ASSUME CommandsIInv, [Next]_vars PROVE CommandsIInv'
  OBVIOUS
<1>1. TypeOK /\ Domains /\ TableInv /\ CommandInv
  BY DEF CommandsIInv, TableInv, CommandInv
<1>2. TypeOK' /\ Domains'
  BY <1>1, TypeStep DEF TableInv, CommandInv
<1>3. TableInv' /\ CommandInv'
  BY <1>1, <1>2, TableStep, CommandStep DEF CommandInv
<1> QED BY <1>2, <1>3 DEF CommandsIInv, TableInv, CommandInv

LEMMA CommandsInvariant == Spec => []CommandsIInv
BY InitCorrect, InductiveStep, PTL DEF Spec

\* What send_command returns is the answer to that very call, its table holds
\* exactly the calls in progress, and a handler that calls and waits is never
\* answered, for any number of callers, calls and executions.
THEOREM CommandsCorrect == Spec => []CommandsInv
<1>1. CommandsIInv => CommandsInv
  BY DEF CommandsIInv, CommandsInv
<1> QED BY <1>1, CommandsInvariant, PTL

\* A command runs a second time only if its reply, its ACK or the responder
\* failed, if the answer to its sending was lost, or if caller and worker both had
\* its row: however sends, flushes, executions and answers interleave.
THEOREM RepeatsExplained == Spec => []RepeatedForAReason
<1>1. CommandsIInv => RepeatedForAReason
  BY DEF CommandsIInv
<1> QED BY <1>1, CommandsInvariant, PTL

\* A response is dropped only when its call has ended, or did not wait.
THEOREM DropsExplained == Spec => NoneDroppedEarly
<1> DEFINE Dropped ==
      \A r \in responses : HandleResponse(r) /\ r.cid \notin Pending =>
        LET c == r.cid.caller
        IN r.cid.call # calls[c] \/ ~waits[c]
<1>1. CommandsIInv => Dropped
  <2> SUFFICES ASSUME CommandsIInv, NEW r \in responses, r.cid \notin Pending
               PROVE  LET c == r.cid.caller
                      IN r.cid.call # calls[c] \/ ~waits[c]
    OBVIOUS
  <2> DEFINE c == r.cid.caller
  <2>1. TypeOK /\ Domains /\ PendingExact
    BY DEF CommandsIInv
  <2>2. r.cid \in Cid
    BY <2>1, ResponseFacts DEF TypeOK
  <2>3. c \in Caller /\ r.cid = [caller |-> c, call |-> r.cid.call]
    BY <2>2, CidFacts
  <2>4. ASSUME r.cid.call = calls[c] PROVE ~waits[c]
    <3>1. r.cid = Current(c)
      BY <2>3, <2>4 DEF Current
    <3> QED BY <2>1, <2>3, <3>1, PendingIs
  <2> QED BY <2>4
<1> QED BY <1>1, CommandsInvariant, PTL DEF NoneDroppedEarly
=============================================================================
