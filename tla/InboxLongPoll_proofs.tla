------------------------ MODULE InboxLongPoll_proofs ------------------------
(***************************************************************************)
(* No wakeup is lost and the notifier's list of waiters is exact, for any  *)
(* number of deliveries and concurrent polls and any limit.                *)
(***************************************************************************)
EXTENDS InboxLongPoll, FiniteSetTheorems, TLAPS

\* A poll that found nothing and whose snapshot is still the slot's version
\* may go to sleep, so the notifications must already be on their way; a poll
\* in progress has bound the loop, so none of them is dropped.
PollInv(p) ==
  /\ pc[p] # "idle" => bound
  /\ seen[p] <= version
  /\ pc[p] = "fetched" /\ got[p] = {} /\ seen[p] = version
       => queue \subseteq toNotify \cup scheduled
  /\ future[p] = "pending" => pc[p] = "waiting" /\ p \in waiters
  /\ p \in waiters => /\ pc[p] \in {"waiting", "leaving"}
                     /\ future[p] \in {"pending", "cancelled"}
  /\ pc[p] = "waiting" /\ future[p] = "pending"
       => queue \subseteq toNotify \cup scheduled

InboxInv == TypeOK /\ \A p \in Poll : PollInv(p)

USE DEF slot, polls

LEMMA InboxInvInit == Init => InboxInv
<1> SUFFICES ASSUME Init PROVE InboxInv
  OBVIOUS
<1>1. TypeOK
  <2>1. bound \in BOOLEAN
    BY DEF Init
  <2>2. got \in [Poll -> SUBSET Delivery]
    BY DEF Init
  <2> QED
    BY <2>1, <2>2 DEF Init, TypeOK
<1>2. ASSUME NEW p \in Poll PROVE PollInv(p)
  BY DEF Init, PollInv
<1> QED
  BY <1>1, <1>2 DEF InboxInv

\* A query that returns nothing found nothing, as its limit is not 0.
LEMMA FetchEmpty ==
  ASSUME NEW p \in Poll, TypeOK, Fetch(p), got'[p] = {}
  PROVE  queue = {}
<1>1. PICK D \in SUBSET queue : /\ Cardinality(D) < Limit => D = queue
                                /\ got' = [got EXCEPT ![p] = D]
  BY DEF Fetch
<1>2. D = {}
  BY <1>1 DEF TypeOK
<1>3. Cardinality(D) < Limit
  BY <1>2, FS_EmptySet, InboxAssumption
<1> QED
  BY <1>1, <1>2, <1>3

LEMMA InboxInvNext ==
  ASSUME InboxInv, [Next]_vars
  PROVE  InboxInv'
<1> USE DEF InboxInv
<1>1. ASSUME NEW d \in Delivery, Send(d) PROVE InboxInv'
  BY <1>1 DEF Send, TypeOK, PollInv
<1>2. ASSUME NEW d \in Delivery, Remove(d) PROVE InboxInv'
  BY <1>2 DEF Remove, TypeOK, PollInv
<1>3. ASSUME NEW d \in Delivery, Notify(d) PROVE InboxInv'
  BY <1>3 DEF Notify, TypeOK, PollInv
<1>4. ASSUME NEW d \in Delivery, NotifyInLoop(d) PROVE InboxInv'
  <2>1. TypeOK'
    BY <1>4 DEF NotifyInLoop, TypeOK
  <2>2. \A p \in Poll : future'[p] # "pending"
    BY <1>4 DEF NotifyInLoop, TypeOK, PollInv, Woken
  <2>3. \A p \in Poll : seen'[p] < version'
    BY <1>4 DEF NotifyInLoop, TypeOK, PollInv
  <2>4. waiters' = {} /\ UNCHANGED <<pc, bound>>
    BY <1>4 DEF NotifyInLoop
  <2>5. ASSUME NEW p \in Poll PROVE PollInv(p)'
    <3>1. seen'[p] <= version' /\ seen'[p] # version'
      BY <2>1, <2>3 DEF TypeOK
    <3> QED
      BY <2>2, <2>4, <3>1 DEF PollInv
  <2> QED
    BY <2>1, <2>5
<1>5. ASSUME NEW p \in Poll, Snapshot(p), TypeOK', waiters' \subseteq waiters,
             p \notin waiters',
             \A q \in Poll : future[q] = "pending" /\ q # p => q \in waiters'
      PROVE  InboxInv'
  <2>1. PollInv(p)'
    BY <1>5 DEF Snapshot, TypeOK, PollInv
  <2>2. ASSUME NEW q \in Poll, q # p PROVE PollInv(q)'
    BY <1>5, <2>2 DEF Snapshot, TypeOK, PollInv
  <2> QED
    BY <1>5, <2>1, <2>2
<1>6. ASSUME NEW p \in Poll, NEW nowait \in BOOLEAN, Begin(p, nowait)
      PROVE  InboxInv'
  BY <1>5, <1>6 DEF Begin, Snapshot, TypeOK, PollInv
<1>7. ASSUME NEW p \in Poll, Fetch(p) PROVE InboxInv'
  <2>1. TypeOK'
    BY <1>7 DEF Fetch, TypeOK
  <2>2. PollInv(p)'
    BY <1>7, FetchEmpty DEF Fetch, TypeOK, PollInv
  <2>3. ASSUME NEW q \in Poll, q # p PROVE PollInv(q)'
    BY <1>7, <2>3 DEF Fetch, TypeOK, PollInv
  <2> QED
    BY <2>1, <2>2, <2>3
<1>8. ASSUME NEW p \in Poll, Answer(p) PROVE InboxInv'
  BY <1>8 DEF Answer, TypeOK, PollInv
<1>9. ASSUME NEW p \in Poll, Again(p) PROVE InboxInv'
  BY <1>5, <1>9 DEF Again, Snapshot, TypeOK, PollInv
<1>10. ASSUME NEW p \in Poll, Retry(p) PROVE InboxInv'
  BY <1>5, <1>10 DEF Retry, NothingYet, Snapshot, TypeOK, PollInv
<1>11. ASSUME NEW p \in Poll, Wait(p) PROVE InboxInv'
  BY <1>11 DEF Wait, NothingYet, Changed, TypeOK, PollInv
<1>12. ASSUME NEW p \in Poll, Wake(p) PROVE InboxInv'
  <2>1. future[p] = "set" => p \notin waiters
    BY <1>12 DEF PollInv
  <2>2. waiters' \subseteq waiters /\ p \notin waiters'
    BY <1>12, <2>1 DEF Wake, Without
  <2>3. TypeOK'
    BY <1>12, <2>2 DEF Wake, Snapshot, TypeOK
  <2>4. \A q \in Poll : future[q] = "pending" /\ q # p => q \in waiters'
    BY <1>12 DEF Wake, Without, PollInv
  <2> QED
    BY <1>5, <1>12, <2>2, <2>3, <2>4 DEF Wake
<1>13. ASSUME NEW p \in Poll, Leave(p) PROVE InboxInv'
  BY <1>13 DEF Leave, Without, TypeOK, PollInv
<1>14. ASSUME NEW p \in Poll, Deadline(p) PROVE InboxInv'
  BY <1>14 DEF Deadline, Cancelled, TypeOK, PollInv
<1>15. ASSUME NEW p \in Poll, Cancel(p) PROVE InboxInv'
  BY <1>15 DEF Cancel, Cancelled, TypeOK, PollInv
<1>16. CASE UNCHANGED vars
  BY <1>16 DEF vars, TypeOK, PollInv
<1> QED
  BY <1>1, <1>2, <1>3, <1>4, <1>6, <1>7, <1>8, <1>9, <1>10, <1>11, <1>12,
     <1>13, <1>14, <1>15, <1>16 DEF Next, Serve

\* Every poll that might sleep on a queued delivery has its wakeup under way: the
\* inductive invariant of the notifier.
THEOREM InboxInvariance == Spec => []InboxInv
  BY InboxInvInit, InboxInvNext, PTL DEF Spec

\* A delivery queued at any point between a poll's snapshot and its sleep
\* wakes it: there is no interleaving in which it sleeps on.
THEOREM NoWakeupIsLost == Spec => []NoLostWakeup
<1>1. InboxInv => NoLostWakeup
  BY DEF InboxInv, PollInv, NoLostWakeup
<1> QED
  BY <1>1, InboxInvariance, PTL

\* The waiters listed in the slot are the ones that are waiting.
THEOREM WaitersExact == Spec => []WaitersAreAwaited
<1>1. InboxInv => WaitersAreAwaited
  BY DEF InboxInv, PollInv, WaitersAreAwaited, TypeOK
<1> QED
  BY <1>1, InboxInvariance, PTL
=============================================================================
