--------------------------- MODULE InboxLongPoll ---------------------------
(***************************************************************************)
(* The long poll of one node's inbox: poll_inbox in main.py, the           *)
(* InboxNotifier it waits on, and the end of send_packet that notifies it. *)
(* Senders and inbox queries run on pool threads, poll handlers and        *)
(* _notify_in_loop on the event loop, where the code between two awaits is *)
(* one step.  The notifier keeps a slot for each node and the slots do not *)
(* interact.                                                               *)
(***************************************************************************)
EXTENDS Naturals, FiniteSets, FiniteSetsExt

CONSTANTS
  Delivery,   \* bound: the deliveries ever queued for the node
  Poll,       \* the node's connections: each has one poll at a time
  Limit       \* the poll's limit parameter, at least 1

ASSUME InboxAssumption == IsFiniteSet(Delivery) /\ Limit \in Nat \ {0}

VARIABLES
  sent,       \* the deliveries queued so far
  queue,      \* those still queued, with an unexpired packet
  toNotify,   \* committed by a sender that has yet to call notify
  scheduled,  \* handed to the loop by call_soon_threadsafe
  bound,      \* whether the notifier knows the event loop
  version, waiters,             \* the node's slot
  pc, seen, got, late, future   \* of each poll

slot  == <<bound, version, waiters>>
polls == <<pc, seen, got, late, future>>
vars  == <<sent, queue, toNotify, scheduled, slot, polls>>

----------------------------------------------------------------------------
(* Senders, acknowledgements and the notification.                         *)

\* db.commit() in send_packet.
Send(d) ==
  /\ d \notin sent
  /\ sent' = sent \cup {d}
  /\ queue' = queue \cup {d}
  /\ toNotify' = toNotify \cup {d}
  /\ UNCHANGED <<scheduled, slot, polls>>

\* An ACK, the packet's expiry, or the deletion of its endpoint or sender.
Remove(d) ==
  /\ d \in queue
  /\ queue' = queue \ {d}
  /\ UNCHANGED <<sent, toNotify, scheduled, slot, polls>>

\* notify, on the sender's thread: dropped while no poll has bound the loop.
Notify(d) ==
  /\ d \in toNotify
  /\ toNotify' = toNotify \ {d}
  /\ scheduled' = IF bound THEN scheduled \cup {d} ELSE scheduled
  /\ UNCHANGED <<sent, queue, slot, polls>>

OneOf(W) == {p \in W : p = CHOOSE q \in W : TRUE}  \* faulty: wakes one of them
Woken(W) == W

NotifyInLoop(d) ==
  /\ d \in scheduled
  /\ scheduled' = scheduled \ {d}
  /\ version' = version + 1
  /\ waiters' = {}
  /\ future' = [p \in Poll |-> IF p \in Woken(waiters) /\ future[p] = "pending"
                               THEN "set" ELSE future[p]]
  /\ UNCHANGED <<sent, queue, toNotify, bound, pc, seen, got, late>>

----------------------------------------------------------------------------
(* The poll.                                                               *)

\* The top of the loop: snapshot, then the query is given to the pool.
Snapshot(p) ==
  /\ bound' = TRUE
  /\ seen' = [seen EXCEPT ![p] = version]
  /\ pc' = [pc EXCEPT ![p] = "fetch"]
  /\ future' = [future EXCEPT ![p] = "none"]
  /\ UNCHANGED <<sent, queue, toNotify, scheduled, version, got>>

\* wait = 0 is a poll that is late from the start.
Begin(p, nowait) ==
  /\ pc[p] = "idle"
  /\ late' = [late EXCEPT ![p] = nowait]
  /\ Snapshot(p)
  /\ UNCHANGED waiters

\* The oldest rows up to the limit.  queued_at is taken before the commit,
\* so any of them may count as the oldest.
Fetch(p) ==
  /\ pc[p] = "fetch"
  /\ \E D \in SUBSET queue :
       /\ Cardinality(D) <= Limit
       /\ Cardinality(D) < Limit => D = queue
       /\ got' = [got EXCEPT ![p] = D]
  /\ pc' = [pc EXCEPT ![p] = "fetched"]
  /\ UNCHANGED <<sent, queue, toNotify, scheduled, slot, seen, late, future>>

Answer(p) ==
  /\ pc[p] = "fetched"
  /\ got[p] # {} \/ late[p]
  /\ pc' = [pc EXCEPT ![p] = "idle"]
  /\ got' = [got EXCEPT ![p] = {}]
  /\ UNCHANGED <<sent, queue, toNotify, scheduled, slot, seen, late, future>>

\* The deadline passes between the two looks at the clock.
Again(p) ==
  /\ pc[p] = "fetched" /\ got[p] = {} /\ ~late[p]
  /\ late' = [late EXCEPT ![p] = TRUE]
  /\ Snapshot(p)
  /\ UNCHANGED waiters

NeverChanged(p) == FALSE                 \* faulty: waits without comparing
\* wait_for_change returns at once when the slot has moved on.
Changed(p) == version # seen[p]

NothingYet(p) == pc[p] = "fetched" /\ got[p] = {} /\ ~late[p]

Retry(p) ==
  /\ NothingYet(p) /\ Changed(p)
  /\ Snapshot(p)
  /\ UNCHANGED <<waiters, late>>

Wait(p) ==
  /\ NothingYet(p) /\ ~Changed(p)
  /\ waiters' = waiters \cup {p}
  /\ future' = [future EXCEPT ![p] = "pending"]
  /\ pc' = [pc EXCEPT ![p] = "waiting"]
  /\ UNCHANGED <<sent, queue, toNotify, scheduled, bound, version, seen, got, late>>

StillPending(f) == f                     \* faulty: no timeout is set
Cancelled(f) == IF f = "pending" THEN "cancelled" ELSE f

\* The deadline passes; wait_for's timer cancels the future it waits on.
Deadline(p) ==
  /\ pc[p] # "idle" /\ ~late[p]
  /\ late' = [late EXCEPT ![p] = TRUE]
  /\ future' = [future EXCEPT ![p] = Cancelled(future[p])]
  /\ UNCHANGED <<sent, queue, toNotify, scheduled, slot, pc, seen, got>>

LeftBehind(W, p) == W                    \* faulty: no clean-up
Without(W, p) == W \ {p}

\* The handler goes on after its wait: by a notification or by the timeout,
\* which takes the future out of the slot if it is still there.
Wake(p) ==
  /\ pc[p] = "waiting" /\ future[p] \in {"set", "cancelled"}
  /\ waiters' = IF future[p] = "cancelled" THEN Without(waiters, p) ELSE waiters
  /\ Snapshot(p)
  /\ UNCHANGED late

\* The handler's task is cancelled at its await, and then cleans up.
Cancel(p) ==
  /\ pc[p] = "waiting"
  /\ pc' = [pc EXCEPT ![p] = "leaving"]
  /\ future' = [future EXCEPT ![p] = Cancelled(future[p])]
  /\ UNCHANGED <<sent, queue, toNotify, scheduled, slot, seen, got, late>>

Leave(p) ==
  /\ pc[p] = "leaving"
  /\ waiters' = Without(waiters, p)
  /\ pc' = [pc EXCEPT ![p] = "idle"]
  /\ future' = [future EXCEPT ![p] = "none"]
  /\ UNCHANGED <<sent, queue, toNotify, scheduled, bound, version, seen, got, late>>

----------------------------------------------------------------------------
(* The specification.                                                      *)

Init ==
  /\ sent = {} /\ queue = {} /\ toNotify = {} /\ scheduled = {}
  /\ bound = FALSE /\ version = 0 /\ waiters = {}
  /\ pc = [p \in Poll |-> "idle"]
  /\ seen = [p \in Poll |-> 0]
  /\ got = [p \in Poll |-> {}]
  /\ late = [p \in Poll |-> FALSE]
  /\ future = [p \in Poll |-> "none"]

\* What the event loop and the pool run once it is ready.
Serve(p) ==
  Fetch(p) \/ Answer(p) \/ Again(p) \/ Retry(p) \/ Wait(p) \/ Wake(p) \/ Leave(p)

Next ==
  \/ \E d \in Delivery : Send(d) \/ Remove(d) \/ Notify(d) \/ NotifyInLoop(d)
  \/ \E p \in Poll :
       \/ \E nowait \in BOOLEAN : Begin(p, nowait)
       \/ Serve(p) \/ Deadline(p) \/ Cancel(p)

Spec == Init /\ [][Next]_vars

\* Pool threads finish, and the loop runs every callback it was given.
Fairness ==
  /\ \A d \in Delivery : WF_vars(Notify(d)) /\ WF_vars(NotifyInLoop(d))
  /\ \A p \in Poll : WF_vars(Serve(p))

FairSpec == Spec /\ Fairness

----------------------------------------------------------------------------
(* Properties.                                                             *)

TypeOK ==
  /\ sent \subseteq Delivery /\ queue \subseteq sent
  /\ toNotify \subseteq sent /\ scheduled \subseteq sent
  /\ bound \in BOOLEAN /\ version \in Nat /\ waiters \subseteq Poll
  /\ pc \in [Poll -> {"idle", "fetch", "fetched", "waiting", "leaving"}]
  /\ seen \in [Poll -> Nat]
  /\ got \in [Poll -> SUBSET Delivery]
  /\ late \in [Poll -> BOOLEAN]
  /\ future \in [Poll -> {"none", "pending", "set", "cancelled"}]

\* No lost wakeup: while a poll sleeps, the notification of every queued
\* delivery is still on its way, although the sender commits and notifies
\* without regard to where between its snapshot and its wait the poll is.
NoLostWakeup ==
  \A p \in Poll :
    pc[p] = "waiting" /\ future[p] = "pending" => queue \subseteq toNotify \cup scheduled

\* The slot lists exactly the futures it must: every pending one, so that the
\* next notification reaches it, and none of a poll that no longer waits, so
\* that polls that time out do not pile up.
WaitersAreAwaited ==
  /\ \A p \in waiters : pc[p] \in {"waiting", "leaving"}
  /\ \A p \in Poll : future[p] = "pending" => p \in waiters

\* A poll answers soon after a delivery is queued, without waiting for its
\* deadline, unless the delivery is gone by then.
DeliveredPromptly ==
  \A p \in Poll, d \in Delivery :
    (pc[p] # "idle" /\ d \in queue) ~> (pc[p] = "idle" \/ d \notin queue)

\* A poll whose deadline has passed is answered, whatever the order in which
\* the deadline, notifications and a cancellation reach it.
PollsEnd == \A p \in Poll : (pc[p] # "idle" /\ late[p]) ~> (pc[p] = "idle")
=============================================================================
