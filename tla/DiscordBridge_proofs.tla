----------------------- MODULE DiscordBridge_proofs -----------------------
(***************************************************************************)
(* Proofs about the Discord bridge, for every number of endpoints,         *)
(* deliveries and faults and every interleaving of its coroutines.         *)
(***************************************************************************)
EXTENDS DiscordBridge, TLAPS

USE BridgeAssumption DEF relay, notes, tasks, Polling, Reconciling

\* TypeOK, with the number of displays unbounded; a removal has an endpoint.
Typed ==
  /\ link \in [Endpoint -> {"none", "code", "active", "revoked", "deleted"}]
  /\ queue \subseteq Delivery /\ sent \in [Endpoint -> 0 .. MaxDeliveries]
  /\ expired \subseteq Endpoint /\ state \in BridgeState /\ disk \in BridgeState
  /\ redeeming \subseteq Endpoint
  /\ poll \in [pc : Task, batch : SUBSET Delivery, at : SUBSET Delivery, links : SUBSET Endpoint]
  /\ reconcile \in [pc : {"idle", "prune", "delete", "bind", "sever"},
                    links : SUBSET Endpoint, todo : SUBSET Endpoint]
  /\ chat \in Endpoint \cup {NoEndpoint}
  /\ removal \in [pc : {"idle", "revoke", "endpoint", "finish"},
                  endpoint : Endpoint \cup {NoEndpoint}]
  /\ faults \in 0 .. MaxFaults /\ shown \in [Delivery -> Nat]
  /\ orphaned \subseteq Endpoint /\ overtaken \subseteq Endpoint /\ repeated \subseteq Delivery
  /\ removal.pc # "idle" => removal.endpoint \in Endpoint

LEMMA TypedStart == Init => Typed
BY DEF Init, Typed, Empty, BridgeState, IdlePoll, IdleReconcile, Task

LEMMA TypedSteps == Typed /\ [Next]_vars => Typed'
<1> SUFFICES ASSUME Typed, [Next]_vars PROVE Typed'
  OBVIOUS
<1> USE DEF Typed
<1>fault. Fault => faults' \in 0 .. MaxFaults
  BY DEF Fault
<1>bind. \A e \in Endpoint : Bind(state, e) \in BridgeState
  BY DEF Bind, BridgeState
<1>over. \A e \in Endpoint : Overtaking(e) \subseteq Endpoint
  BY DEF Overtaking
<1>del. \A e \in Endpoint : DeleteEndpoint(e) =>
          /\ link' \in [Endpoint -> {"none", "code", "active", "revoked", "deleted"}]
          /\ faults' \in 0 .. MaxFaults
  BY <1>fault DEF DeleteEndpoint
<1>done. Done \/ Raise => poll' \in [pc : Task, batch : SUBSET Delivery, at : SUBSET Delivery,
                                     links : SUBSET Endpoint]
  <2>1. IdlePoll \in [pc : Task, batch : SUBSET Delivery, at : SUBSET Delivery,
                      links : SUBSET Endpoint]
    BY DEF IdlePoll, Task
  <2>2. [poll EXCEPT !.pc = "next", !.at = {}, !.links = {}]
          \in [pc : Task, batch : SUBSET Delivery, at : SUBSET Delivery, links : SUBSET Endpoint]
    BY DEF Task
  <2> QED BY <2>1, <2>2 DEF Done, Raise
<1>goto. \A pc \in Task : Goto(pc) =>
           poll' \in [pc : Task, batch : SUBSET Delivery, at : SUBSET Delivery,
                      links : SUBSET Endpoint]
  BY DEF Goto
<1>task. {"idle", "next", "listing", "listed", "dm", "remember", "ack", "ack unknown"} = Task
  BY DEF Task
<1>turn. \A pc \in {"idle", "prune", "delete", "bind", "sever"}, todo \in SUBSET Endpoint :
           Turn(pc, todo) =>
             reconcile' \in [pc : {"idle", "prune", "delete", "bind", "sever"},
                             links : SUBSET Endpoint, todo : SUBSET Endpoint]
  BY DEF Turn
<1>drop. \A e : Drop(e) =>
           reconcile' \in [pc : {"idle", "prune", "delete", "bind", "sever"},
                           links : SUBSET Endpoint, todo : SUBSET Endpoint]
  BY DEF Drop
<1>active. ActiveLinks \subseteq Endpoint
  BY DEF ActiveLinks
<1>1. ASSUME NEW e \in Endpoint, RemoteRedeem(e) PROVE Typed'
  BY <1>1 DEF RemoteRedeem
<1>2. ASSUME NEW e \in Endpoint, RemoteSend(e) PROVE Typed'
  <2>1. sent[e] + 1 \in 1 .. MaxDeliveries
    BY <1>2 DEF RemoteSend
  <2>2. [endpoint |-> e, n |-> sent[e] + 1] \in Delivery
    BY <2>1 DEF Delivery
  <2> QED BY <1>2, <2>1, <2>2 DEF RemoteSend
<1>3. ASSUME NEW e \in Endpoint, RemoteRevoke(e) \/ Expire(e) PROVE Typed'
  BY <1>3 DEF RemoteRevoke, Expire
<1>4. ASSUME NEW e \in Endpoint, RequestLinkCode(e) PROVE Typed'
  BY <1>4 DEF RequestLinkCode, Store, BridgeState
<1>5. ASSUME NEW e \in Endpoint, RedeemAtRelay(e) \/ RedeemDone(e) \/ RedeemLost(e) PROVE Typed'
  BY <1>5, <1>fault, <1>bind, <1>over DEF RedeemAtRelay, RedeemDone, RedeemLost, Store
<1>6. ASSUME NEW e \in Endpoint, ChatBegin(e) \/ DeleteConfirmed(e) PROVE Typed'
  BY <1>6 DEF ChatBegin, DeleteConfirmed
<1>7. ASSUME NEW ok, ChatEnd(ok) PROVE Typed'
  BY <1>7 DEF ChatEnd, Store, BridgeState
<1>8. CASE RemovalStep
  <2>1. CASE DeleteRevoke
    <3>1. link' \in [Endpoint -> {"none", "code", "active", "revoked", "deleted"}]
          /\ faults' \in 0 .. MaxFaults
      BY <2>1, <1>fault DEF DeleteRevoke
    <3>2. /\ removal' \in [pc : {"idle", "revoke", "endpoint", "finish"},
                           endpoint : Endpoint \cup {NoEndpoint}]
          /\ removal'.endpoint \in Endpoint
      BY <2>1 DEF DeleteRevoke, Removing
    <3> QED BY <2>1, <3>1, <3>2 DEF DeleteRevoke
  <2>2. CASE DeleteHidden
    BY <2>2, <1>del DEF DeleteHidden, Removing
  <2>3. CASE DeleteBinding
    BY <2>3 DEF DeleteBinding, Store, BridgeState
  <2> QED BY <1>8, <2>1, <2>2, <2>3 DEF RemovalStep
<1>9. CASE PollStep
  <2>1. CASE Fetch
    BY <2>1 DEF Fetch, IdlePoll, Task
  <2>2. CASE ListLinks
    BY <2>2, <1>fault, <1>done, <1>active DEF ListLinks, Task
  <2>3. ASSUME NEW d \in Delivery, HandleDelivery(d) PROVE Typed'
    BY <2>3 DEF HandleDelivery, Route, Task
  <2>4. ASSUME NEW d \in Delivery, Materialize(d) PROVE Typed'
    <3>1. d.endpoint \in Endpoint
      BY DEF Delivery
    <3> QED BY <2>4, <3>1, <1>bind, <1>over, <1>done, <1>goto, <1>task DEF Materialize, Store
  <2>5. ASSUME NEW d \in Delivery, SendDm(d) PROVE Typed'
    <3>1. shown' \in [Delivery -> Nat] /\ repeated' \subseteq Delivery
      BY <2>5 DEF SendDm
    <3>2. faults' \in 0 .. MaxFaults
      BY <2>5, <1>fault DEF SendDm
    <3>3. Goto("remember") \/ Raise
      BY <2>5 DEF SendDm
    <3> QED BY <2>5, <3>1, <3>2, <3>3, <1>done, <1>goto, <1>task DEF SendDm
  <2>6. ASSUME NEW d \in Delivery, Remember(d) PROVE Typed'
    <3>1. d.endpoint \in Endpoint
      BY DEF Delivery
    <3>2. state' \in BridgeState /\ disk' \in BridgeState
      BY <2>6, <3>1 DEF Remember, Store, BridgeState, Marked
    <3> QED BY <2>6, <3>2, <1>goto, <1>task DEF Remember
  <2>7. ASSUME NEW d \in Delivery, Ack(d) PROVE Typed'
    BY <2>7, <1>fault, <1>done DEF Ack
  <2> QED BY <1>9, <2>1, <2>2, <2>3, <2>4, <2>5, <2>6, <2>7 DEF PollStep
<1>10. CASE ReconcileStep
  <2>1. CASE ReconcileList
    BY <2>1, <1>active DEF ReconcileList, IdleReconcile
  <2>2. CASE Prune
    <3>1. ExpiredPending \subseteq Endpoint
      BY DEF ExpiredPending
    <3>2. state' \in BridgeState
      BY <2>2 DEF Prune, BridgeState
    <3> QED BY <2>2, <3>1, <3>2, <1>turn DEF Prune
  <2>3. CASE NextPhase
    <3>1. state.pending \subseteq Endpoint /\ Unlinked \subseteq Endpoint
      BY DEF Unlinked, BridgeState
    <3>2. disk' \in BridgeState
      BY <2>3 DEF NextPhase
    <3>3. reconcile' \in [pc : {"idle", "prune", "delete", "bind", "sever"},
                          links : SUBSET Endpoint, todo : SUBSET Endpoint]
      BY <2>3, <3>1, <1>turn DEF NextPhase, IdleReconcile
    <3> QED BY <2>3, <3>2, <3>3 DEF NextPhase
  <2>4. ASSUME NEW e \in Endpoint, DeleteExpired(e) PROVE Typed'
    BY <2>4, <1>del, <1>drop DEF DeleteExpired
  <2>5. ASSUME NEW e \in Endpoint, BindPending(e) PROVE Typed'
    BY <2>5, <1>bind, <1>drop DEF BindPending, Store
  <2>6. ASSUME NEW e \in Endpoint, Sever(e) PROVE Typed'
    <3>1. state' \in BridgeState
      BY <2>6 DEF Sever, BridgeState
    <3> QED BY <2>6, <3>1, <1>drop DEF Sever
  <2> QED BY <1>10, <2>1, <2>2, <2>3, <2>4, <2>5, <2>6 DEF ReconcileStep
<1>11. ASSUME NEW torn \in BOOLEAN, Restart(torn) PROVE Typed'
  <2>1. PICK kept \in BridgeState :
          /\ Store(kept)
          /\ orphaned' = orphaned \cup ((state.bound \cup state.pending) \ (kept.bound \cup kept.pending))
          /\ repeated' = repeated \cup (IF poll.pc = "remember" THEN poll.at ELSE {})
                                  \cup (IF torn THEN state.seen ELSE {})
    BY <1>11 DEF Restart, Empty, BridgeState
  <2>2. orphaned' \subseteq Endpoint /\ repeated' \subseteq Delivery
    BY <2>1 DEF BridgeState
  <2> QED BY <1>11, <2>1, <2>2, <1>fault DEF Restart, Store, IdlePoll, IdleReconcile, Task
<1>12. CASE UNCHANGED vars
  BY <1>12 DEF vars
<1> QED BY <1>1, <1>2, <1>3, <1>4, <1>5, <1>6, <1>7, <1>8, <1>9, <1>10, <1>11, <1>12 DEF Next

----------------------------------------------------------------------------
(* Links and contacts.                                                     *)

\* The endpoints that have had a link: none of them gets an active one again.
Linked == {e \in Endpoint : link[e] \in {"active", "revoked", "deleted"}}

LinkMoves ==
  \A e \in Endpoint : /\ e \in Linked => e \in Linked'
                      /\ link'[e] = "active" => link[e] = "active" \/ e \notin Linked

LEMMA LinkSteps == Typed /\ [Next]_vars => LinkMoves
<1> SUFFICES ASSUME Typed, [Next]_vars PROVE LinkMoves
  OBVIOUS
<1> USE DEF Typed, LinkMoves, Linked
<1>same. link' = link => LinkMoves
  OBVIOUS
<1>del. \A e \in Endpoint : DeleteEndpoint(e) => LinkMoves
  BY DEF DeleteEndpoint
<1>1. ASSUME NEW e \in Endpoint, RemoteRedeem(e) \/ RemoteRevoke(e) PROVE LinkMoves
  BY <1>1 DEF RemoteRedeem, RemoteRevoke
<1>2. ASSUME NEW e \in Endpoint, RequestLinkCode(e) \/ RedeemAtRelay(e) PROVE LinkMoves
  BY <1>2 DEF RequestLinkCode, RedeemAtRelay
<1>3. CASE RemovalStep
  <2>1. CASE DeleteRevoke
    BY <2>1 DEF DeleteRevoke
  <2>2. CASE DeleteHidden
    <3>1. removal.endpoint \in Endpoint
      BY <2>2 DEF DeleteHidden
    <3> QED BY <2>2, <3>1, <1>del DEF DeleteHidden
  <2>3. CASE DeleteBinding
    BY <2>3, <1>same DEF DeleteBinding
  <2> QED BY <1>3, <2>1, <2>2, <2>3 DEF RemovalStep
<1>4. CASE ReconcileStep
  BY <1>4, <1>same, <1>del DEF ReconcileStep, ReconcileList, Prune, NextPhase, DeleteExpired,
     BindPending, Sever
<1>5. CASE PollStep
  BY <1>5, <1>same DEF PollStep, Fetch, ListLinks, HandleDelivery, Materialize, SendDm,
     Remember, Ack
<1> QED
  BY <1>1, <1>2, <1>3, <1>4, <1>5, <1>same DEF Next, vars, RemoteSend, Expire, RedeemDone,
     RedeemLost, ChatBegin, DeleteConfirmed, ChatEnd, Restart

\* Whatever is a contact, is about to be one or has deliveries had a link.
LinksInv ==
  /\ state.bound \subseteq Linked /\ disk.bound \subseteq Linked
  /\ state.severed \subseteq Linked /\ disk.severed \subseteq Linked
  /\ redeeming \subseteq Linked /\ poll.links \subseteq Linked /\ reconcile.links \subseteq Linked
  /\ chat # NoEndpoint => chat \in Linked
  /\ reconcile.pc = "sever" => reconcile.todo \subseteq Linked
  /\ \A d \in queue \cup poll.batch \cup poll.at : d.endpoint \in Linked

LEMMA LinksStart == Init => LinksInv
BY DEF Init, LinksInv, Empty, IdlePoll, IdleReconcile

LEMMA LinksSteps == Typed /\ LinksInv /\ [Next]_vars => LinksInv'
<1> SUFFICES ASSUME Typed, LinksInv, [Next]_vars PROVE LinksInv'
  OBVIOUS
<1>t. /\ state \in BridgeState /\ disk \in BridgeState
      /\ poll \in [pc : Task, batch : SUBSET Delivery, at : SUBSET Delivery, links : SUBSET Endpoint]
      /\ reconcile \in [pc : {"idle", "prune", "delete", "bind", "sever"},
                        links : SUBSET Endpoint, todo : SUBSET Endpoint]
      /\ link \in [Endpoint -> {"none", "code", "active", "revoked", "deleted"}]
  BY DEF Typed
<1>grow. Linked \subseteq Linked'
  BY LinkSteps DEF LinkMoves, Linked
<1>active. ActiveLinks \subseteq Linked
  BY DEF ActiveLinks, Linked
<1>bind. \A e \in Linked : /\ Bind(state, e).bound \subseteq Linked
                           /\ Bind(state, e).severed \subseteq Linked
  BY <1>t DEF Bind, BridgeState, LinksInv
\* The files and the contacts in memory.
<1> DEFINE Contacts == /\ state'.bound \subseteq Linked' /\ disk'.bound \subseteq Linked'
                       /\ state'.severed \subseteq Linked' /\ disk'.severed \subseteq Linked'
           Tasks    == /\ redeeming' \subseteq Linked' /\ poll'.links \subseteq Linked'
                       /\ reconcile'.links \subseteq Linked'
                       /\ chat' # NoEndpoint => chat' \in Linked'
                       /\ reconcile'.pc = "sever" => reconcile'.todo \subseteq Linked'
           Queues   == \A d \in queue' \cup poll'.batch \cup poll'.at : d.endpoint \in Linked'
<1>contacts. UNCHANGED <<state, disk>> => Contacts
  BY <1>grow DEF LinksInv
<1>tasks. UNCHANGED <<redeeming, poll, reconcile, chat>> => Tasks
  BY <1>grow DEF LinksInv
<1>queues. queue' \subseteq queue /\ UNCHANGED poll => Queues
  BY <1>grow DEF LinksInv
<1>qed. Contacts /\ Tasks /\ Queues => LinksInv'
  BY DEF LinksInv
<1> HIDE DEF Contacts, Tasks, Queues
<1>same. /\ UNCHANGED <<state, disk, redeeming, poll, reconcile, chat>>
         /\ queue' \subseteq queue
         => LinksInv'
  BY <1>contacts, <1>tasks, <1>queues, <1>qed
<1>1. ASSUME NEW e \in Endpoint, RemoteRedeem(e) \/ RemoteRevoke(e) \/ Expire(e) PROVE LinksInv'
  BY <1>1, <1>same DEF RemoteRedeem, RemoteRevoke, Expire
<1>2. ASSUME NEW e \in Endpoint, RemoteSend(e) PROVE LinksInv'
  <2>1. [endpoint |-> e, n |-> sent[e] + 1].endpoint = e /\ e \in Linked
    BY <1>2 DEF RemoteSend, Linked
  <2>2. Queues
    BY <1>2, <1>grow, <2>1 DEF RemoteSend, LinksInv, Queues
  <2> QED BY <1>2, <1>contacts, <1>tasks, <1>qed, <2>2 DEF RemoteSend
<1>3. ASSUME NEW e \in Endpoint, RequestLinkCode(e) PROVE LinksInv'
  <2>1. state'.bound = state.bound /\ state'.severed = state.severed /\ disk' = state'
    BY <1>3, <1>t DEF RequestLinkCode, Store, BridgeState
  <2>2. Contacts
    BY <1>grow, <2>1 DEF LinksInv, Contacts
  <2> QED BY <1>3, <1>tasks, <1>queues, <1>qed, <2>2 DEF RequestLinkCode
<1>4. ASSUME NEW e \in Endpoint, RedeemAtRelay(e) PROVE LinksInv'
  <2>1. e \in Linked'
    BY <1>4, <1>t DEF RedeemAtRelay, Linked
  <2>2. Tasks
    BY <1>4, <1>grow, <2>1 DEF RedeemAtRelay, LinksInv, Tasks
  <2> QED BY <1>4, <1>contacts, <1>queues, <1>qed, <2>2 DEF RedeemAtRelay
<1>5. ASSUME NEW e \in Endpoint, RedeemDone(e) PROVE LinksInv'
  <2>1. Contacts
    BY <1>5, <1>grow, <1>bind DEF RedeemDone, Store, LinksInv, Contacts
  <2>2. Tasks
    BY <1>5, <1>grow DEF RedeemDone, LinksInv, Tasks
  <2> QED BY <1>5, <1>queues, <1>qed, <2>1, <2>2 DEF RedeemDone
<1>6. ASSUME NEW e \in Endpoint, RedeemLost(e) PROVE LinksInv'
  <2>1. Tasks
    BY <1>6, <1>grow DEF RedeemLost, LinksInv, Tasks
  <2> QED BY <1>6, <1>contacts, <1>queues, <1>qed, <2>1 DEF RedeemLost
<1>7. ASSUME NEW e \in Endpoint, ChatBegin(e) PROVE LinksInv'
  <2>1. Tasks
    BY <1>7, <1>grow DEF ChatBegin, LinksInv, Tasks
  <2> QED BY <1>7, <1>contacts, <1>queues, <1>qed, <2>1 DEF ChatBegin
<1>8. ASSUME NEW e \in Endpoint, DeleteConfirmed(e) PROVE LinksInv'
  BY <1>8, <1>same DEF DeleteConfirmed
<1>9. ASSUME NEW ok, ChatEnd(ok) PROVE LinksInv'
  <2>1. Tasks
    BY <1>9, <1>grow DEF ChatEnd, LinksInv, Tasks
  <2>2. Contacts
    <3>1. CASE ok
      <4>1. /\ state'.bound = state.bound \cup {chat} /\ state'.severed = state.severed
            /\ disk' = state'
        BY <1>9, <1>t, <3>1 DEF ChatEnd, Store, BridgeState
      <4> QED BY <1>9, <1>grow, <4>1 DEF ChatEnd, LinksInv, Contacts
    <3>2. CASE ~ok
      BY <1>9, <1>contacts, <3>2 DEF ChatEnd
    <3> QED BY <3>1, <3>2
  <2> QED BY <1>9, <1>queues, <1>qed, <2>1, <2>2 DEF ChatEnd
<1>10. CASE RemovalStep
  <2>1. CASE DeleteRevoke \/ DeleteHidden
    BY <2>1, <1>same DEF DeleteRevoke, DeleteHidden
  <2>2. CASE DeleteBinding
    <3>1. /\ state'.bound \subseteq state.bound /\ state'.severed = state.severed
          /\ disk' = state'
      BY <2>2, <1>t DEF DeleteBinding, Store, BridgeState
    <3>2. Contacts
      BY <1>grow, <3>1 DEF LinksInv, Contacts
    <3> QED BY <2>2, <1>tasks, <1>queues, <1>qed, <3>2 DEF DeleteBinding
  <2> QED BY <1>10, <2>1, <2>2 DEF RemovalStep
\* What the inbox loop does to its own variable.
<1>poll. ASSUME UNCHANGED <<redeeming, reconcile, chat>>, queue' \subseteq queue,
                poll'.links \subseteq poll.links \cup Linked,
                poll'.batch \subseteq poll.batch \cup queue,
                poll'.at \subseteq poll.at \cup poll.batch
         PROVE  Tasks /\ Queues
  BY <1>grow, <1>poll DEF LinksInv, Tasks, Queues
<1>done. Done \/ Raise =>
           poll'.links = {} /\ poll'.batch \subseteq poll.batch /\ poll'.at = {}
  <2>1. CASE Raise \/ (Done /\ poll.batch = {})
    BY <2>1 DEF Done, Raise, IdlePoll
  <2>2. CASE Done /\ poll.batch # {}
    <3>1. poll' = [poll EXCEPT !.pc = "next", !.at = {}, !.links = {}]
      BY <2>2 DEF Done
    <3> QED BY <3>1, <1>t
  <2> QED BY <2>1, <2>2
<1>goto. \A pc : Goto(pc) =>
           poll'.links = poll.links /\ poll'.batch = poll.batch /\ poll'.at = poll.at
  BY <1>t DEF Goto
<1>11. CASE PollStep
  <2>1. CASE Fetch
    <3>1. poll'.links = {} /\ poll'.batch = queue /\ poll'.at = {}
      BY <2>1 DEF Fetch, IdlePoll
    <3>2. Tasks /\ Queues
      BY <2>1, <1>poll, <3>1 DEF Fetch
    <3> QED BY <2>1, <3>2, <1>contacts, <1>qed DEF Fetch
  <2>2. CASE ListLinks
    <3>1. /\ poll'.links \subseteq Linked /\ poll'.batch \subseteq poll.batch
          /\ poll'.at \subseteq poll.at
      BY <2>2, <1>t, <1>active, <1>done DEF ListLinks
    <3>2. Tasks /\ Queues
      BY <2>2, <1>poll, <3>1 DEF ListLinks
    <3> QED BY <2>2, <3>2, <1>contacts, <1>qed DEF ListLinks
  <2>3. ASSUME NEW d \in Delivery, HandleDelivery(d) PROVE LinksInv'
    <3>1. poll'.links = poll.links /\ poll'.batch \subseteq poll.batch /\ poll'.at = {d}
      BY <2>3, <1>t DEF HandleDelivery
    <3>2. Tasks /\ Queues
      BY <2>3, <1>poll, <3>1 DEF HandleDelivery
    <3> QED BY <2>3, <3>2, <1>contacts, <1>qed DEF HandleDelivery
  <2>4. ASSUME NEW d \in Delivery, Materialize(d) PROVE LinksInv'
    <3>1. \/ Done \/ \E pc : Goto(pc)
      BY <2>4 DEF Materialize
    <3>2. /\ poll'.links \subseteq poll.links /\ poll'.batch \subseteq poll.batch
          /\ poll'.at \subseteq poll.at
      BY <3>1, <1>done, <1>goto
    <3>3. Tasks /\ Queues
      BY <2>4, <1>poll, <3>2 DEF Materialize
    <3>4. Contacts
      <4>1. CASE d.endpoint \in poll.links
        <5>1. d.endpoint \in Linked
          BY <4>1 DEF LinksInv
        <5> QED BY <2>4, <4>1, <5>1, <1>grow, <1>bind DEF Materialize, Store, Contacts
      <4>2. CASE d.endpoint \notin poll.links
        BY <2>4, <4>2, <1>contacts DEF Materialize
      <4> QED BY <4>1, <4>2
    <3> QED BY <3>3, <3>4, <1>qed
  <2>5. ASSUME NEW d \in Delivery, SendDm(d) PROVE LinksInv'
    <3>1. Raise \/ \E pc : Goto(pc)
      BY <2>5 DEF SendDm
    <3>2. /\ poll'.links \subseteq poll.links /\ poll'.batch \subseteq poll.batch
          /\ poll'.at \subseteq poll.at
      BY <3>1, <1>done, <1>goto
    <3>3. Tasks /\ Queues
      BY <2>5, <1>poll, <3>2 DEF SendDm
    <3> QED BY <2>5, <3>3, <1>contacts, <1>qed DEF SendDm
  <2>6. ASSUME NEW d \in Delivery, Remember(d) PROVE LinksInv'
    <3>1. Tasks /\ Queues
      BY <2>6, <1>poll, <1>goto DEF Remember
    <3>2. /\ state'.bound = state.bound \cup {d.endpoint} /\ state'.severed = state.severed
          /\ disk' = state'
      BY <2>6, <1>t DEF Remember, Store, BridgeState
    <3>3. d.endpoint \in Linked
      BY <2>6 DEF Remember, InHand, LinksInv
    <3>4. Contacts
      BY <1>grow, <3>2, <3>3 DEF LinksInv, Contacts
    <3> QED BY <3>1, <3>4, <1>qed
  <2>7. ASSUME NEW d \in Delivery, Ack(d) PROVE LinksInv'
    <3>1. queue' \subseteq queue /\ (Done \/ Raise)
      BY <2>7 DEF Ack
    <3>2. Tasks /\ Queues
      BY <2>7, <1>poll, <1>done, <3>1 DEF Ack
    <3> QED BY <2>7, <3>2, <1>contacts, <1>qed DEF Ack
  <2> QED BY <1>11, <2>1, <2>2, <2>3, <2>4, <2>5, <2>6, <2>7 DEF PollStep
\* What the reconciliation loop does to its own variable.
<1>turn. ASSUME UNCHANGED <<redeeming, poll, chat>>, reconcile'.links \subseteq Linked,
                reconcile'.pc = "sever" => reconcile'.todo \subseteq Linked
         PROVE  Tasks
  BY <1>grow, <1>turn DEF LinksInv, Tasks
<1>drop. \A e : Drop(e) => /\ reconcile'.links \subseteq Linked
                           /\ reconcile'.pc = "sever" => reconcile'.todo \subseteq Linked
  BY <1>t DEF Drop, LinksInv
<1>12. CASE ReconcileStep
  <2>1. CASE ReconcileList
    <3>1. reconcile'.links = ActiveLinks /\ reconcile'.pc = "prune"
      BY <2>1 DEF ReconcileList, IdleReconcile
    <3>2. Tasks
      BY <2>1, <1>turn, <1>active, <3>1 DEF ReconcileList
    <3> QED BY <2>1, <1>contacts, <1>queues, <1>qed, <3>2 DEF ReconcileList
  <2>2. CASE Prune
    <3>1. reconcile'.links = reconcile.links /\ reconcile'.pc = "delete"
      BY <2>2, <1>t DEF Prune, Turn
    <3>2. Tasks
      BY <2>2, <1>turn, <3>1 DEF Prune, LinksInv
    <3>3. state'.bound = state.bound /\ state'.severed = state.severed /\ disk' = disk
      BY <2>2, <1>t DEF Prune, BridgeState
    <3>4. Contacts
      BY <1>grow, <3>3 DEF LinksInv, Contacts
    <3> QED BY <2>2, <1>queues, <1>qed, <3>2, <3>4 DEF Prune
  <2>3. CASE NextPhase
    <3>1. Unlinked \subseteq Linked
      BY DEF Unlinked, LinksInv
    <3>2. /\ reconcile'.links \subseteq Linked
          /\ reconcile'.pc = "sever" => reconcile'.todo \subseteq Linked
      <4>1. ASSUME NEW pc, NEW todo, Turn(pc, todo)
            PROVE  reconcile'.links = reconcile.links /\ reconcile'.pc = pc /\ reconcile'.todo = todo
        BY <4>1, <1>t DEF Turn
      <4>2. IdleReconcile.links = {} /\ IdleReconcile.pc # "sever"
        BY DEF IdleReconcile
      <4>3. \/ Turn("bind", state.pending) \/ Turn("sever", Unlinked)
            \/ reconcile' = IdleReconcile
        BY <2>3 DEF NextPhase
      <4> QED BY <3>1, <4>1, <4>2, <4>3 DEF LinksInv
    <3>3. Tasks
      BY <2>3, <1>turn, <3>2 DEF NextPhase
    <3>4. Contacts
      BY <2>3, <1>grow DEF NextPhase, LinksInv, Contacts
    <3> QED BY <2>3, <1>queues, <1>qed, <3>3, <3>4 DEF NextPhase
  <2>4. ASSUME NEW e \in Endpoint, DeleteExpired(e) PROVE LinksInv'
    <3>1. Tasks
      BY <2>4, <1>turn, <1>drop DEF DeleteExpired
    <3> QED BY <2>4, <1>contacts, <1>queues, <1>qed, <3>1 DEF DeleteExpired
  <2>5. ASSUME NEW e \in Endpoint, BindPending(e) PROVE LinksInv'
    <3>1. Tasks
      BY <2>5, <1>turn, <1>drop DEF BindPending
    <3>2. Contacts
      <4>1. CASE e \in state.pending \cap reconcile.links
        <5>1. e \in Linked
          BY <4>1 DEF LinksInv
        <5> QED BY <2>5, <4>1, <5>1, <1>grow, <1>bind DEF BindPending, Store, Contacts
      <4>2. CASE e \notin state.pending \cap reconcile.links
        BY <2>5, <4>2, <1>contacts DEF BindPending
      <4> QED BY <4>1, <4>2
    <3> QED BY <2>5, <1>queues, <1>qed, <3>1, <3>2 DEF BindPending
  <2>6. ASSUME NEW e \in Endpoint, Sever(e) PROVE LinksInv'
    <3>1. Tasks
      BY <2>6, <1>turn, <1>drop DEF Sever
    <3>2. /\ state'.bound = state.bound \cup {e} /\ state'.severed = state.severed \cup {e}
          /\ disk' = disk
      BY <2>6, <1>t DEF Sever, BridgeState
    <3>3. e \in Linked
      BY <2>6 DEF Sever, LinksInv
    <3>4. Contacts
      BY <1>grow, <3>2, <3>3 DEF LinksInv, Contacts
    <3> QED BY <2>6, <1>queues, <1>qed, <3>1, <3>4 DEF Sever
  <2> QED BY <1>12, <2>1, <2>2, <2>3, <2>4, <2>5, <2>6 DEF ReconcileStep
<1>13. ASSUME NEW torn \in BOOLEAN, Restart(torn) PROVE LinksInv'
  <2>1. /\ state' = IF torn THEN Empty ELSE disk
        /\ disk' = state'
    BY <1>13 DEF Restart, Store
  <2>2. Contacts
    BY <1>grow, <2>1 DEF LinksInv, Contacts, Empty
  <2>3. Tasks /\ Queues
    BY <1>13, <1>grow DEF Restart, IdlePoll, IdleReconcile, LinksInv, Tasks, Queues
  <2> QED BY <1>qed, <2>2, <2>3
<1>14. CASE UNCHANGED vars
  BY <1>14, <1>same DEF vars
<1> QED
  BY <1>1, <1>2, <1>3, <1>4, <1>5, <1>6, <1>7, <1>8, <1>9, <1>10, <1>11, <1>12, <1>13, <1>14
     DEF Next

----------------------------------------------------------------------------
(* What the bridge knows of those who may send.                            *)

KnownEndpoints ==
  \A e \in Endpoint :
    link[e] \in {"code", "active"} => e \in state.bound \cup state.pending \cup orphaned

\* The links that were listed for a delivery have its link, if it is active.
ListedLinks ==
  poll.pc = "listed" =>
    \A d \in poll.at : link[d.endpoint] = "active" => d.endpoint \in poll.links

\* Whoever may send is known to the bridge, unless it is accounted as lost.
KnownInv == KnownEndpoints /\ ListedLinks

LEMMA KnownStart == Init => KnownInv
BY DEF Init, KnownInv, KnownEndpoints, ListedLinks, IdlePoll

LEMMA KnownSteps == Typed /\ LinksInv /\ KnownInv /\ [Next]_vars => KnownInv'
<1> SUFFICES ASSUME Typed, LinksInv, KnownInv, [Next]_vars PROVE KnownInv'
  OBVIOUS
<1>t. /\ state \in BridgeState /\ disk \in BridgeState
      /\ poll \in [pc : Task, batch : SUBSET Delivery, at : SUBSET Delivery, links : SUBSET Endpoint]
      /\ link \in [Endpoint -> {"none", "code", "active", "revoked", "deleted"}]
  BY DEF Typed
<1>ends. \A d \in Delivery : d.endpoint \in Endpoint
  BY DEF Delivery
\* No link that is open opens, and none is lost sight of.
<1>open. ASSUME \A e \in Endpoint : link'[e] \in {"code", "active"} => link[e] \in {"code", "active"},
                \A e \in Endpoint : e \in state.bound \cup state.pending \cup orphaned =>
                                     e \in state'.bound \cup state'.pending \cup orphaned'
         PROVE  KnownEndpoints'
  BY <1>open DEF KnownInv, KnownEndpoints
<1>listed. ASSUME UNCHANGED poll PROVE ListedLinks'
  <2>1. \A d \in poll.at : /\ d.endpoint \in Endpoint /\ d.endpoint \in Linked
    BY <1>t, <1>ends DEF LinksInv
  <2> QED BY <1>listed, <2>1, LinkSteps DEF KnownInv, ListedLinks, LinkMoves
<1>unlisted. poll'.pc # "listed" => ListedLinks'
  BY DEF ListedLinks
<1>qed. KnownEndpoints' /\ ListedLinks' => KnownInv'
  BY DEF KnownInv
<1>del. \A e \in Endpoint : DeleteEndpoint(e) =>
          \A f \in Endpoint : link'[f] \in {"code", "active"} => link[f] \in {"code", "active"}
  BY <1>t DEF DeleteEndpoint
<1>bind. \A e : /\ Bind(state, e).bound = state.bound \cup {e}
                /\ Bind(state, e).pending = state.pending \ {e}
  BY <1>t DEF Bind, BridgeState
<1>1. ASSUME NEW e \in Endpoint, RemoteRedeem(e) \/ RemoteRevoke(e) PROVE KnownInv'
  <2>1. \A f \in Endpoint : link'[f] \in {"code", "active"} => link[f] \in {"code", "active"}
    BY <1>1, <1>t DEF RemoteRedeem, RemoteRevoke
  <2> QED BY <1>1, <1>open, <1>listed, <1>qed, <2>1 DEF RemoteRedeem, RemoteRevoke
<1>2. ASSUME NEW e \in Endpoint,
             RemoteSend(e) \/ Expire(e) \/ RedeemLost(e) \/ ChatBegin(e) \/ DeleteConfirmed(e)
      PROVE  KnownInv'
  BY <1>2, <1>open, <1>listed, <1>qed DEF RemoteSend, Expire, RedeemLost, ChatBegin, DeleteConfirmed
<1>3. ASSUME NEW e \in Endpoint, RequestLinkCode(e) PROVE KnownInv'
  <2>1. state'.bound = state.bound /\ state'.pending = state.pending \cup {e}
    BY <1>3, <1>t DEF RequestLinkCode, Store, BridgeState
  <2>2. KnownEndpoints'
    BY <1>3, <1>t, <2>1 DEF RequestLinkCode, KnownInv, KnownEndpoints
  <2> QED BY <1>3, <1>listed, <1>qed, <2>2 DEF RequestLinkCode
<1>4. ASSUME NEW e \in Endpoint, RedeemAtRelay(e) PROVE KnownInv'
  <2>1. KnownEndpoints'
    BY <1>4, <1>t DEF RedeemAtRelay, KnownInv, KnownEndpoints
  <2> QED BY <1>4, <1>listed, <1>qed, <2>1 DEF RedeemAtRelay
<1>5. ASSUME NEW e \in Endpoint, RedeemDone(e) PROVE KnownInv'
  BY <1>5, <1>bind, <1>open, <1>listed, <1>qed DEF RedeemDone, Store
<1>6. ASSUME NEW ok, ChatEnd(ok) PROVE KnownInv'
  <2>1. state.bound \subseteq state'.bound /\ state'.pending = state.pending
    BY <1>6, <1>t DEF ChatEnd, Store, BridgeState
  <2> QED BY <1>6, <1>open, <1>listed, <1>qed, <2>1 DEF ChatEnd
<1>7. CASE RemovalStep
  <2>1. CASE DeleteRevoke
    <3>1. \A f \in Endpoint : link'[f] \in {"code", "active"} => link[f] \in {"code", "active"}
      BY <2>1, <1>t DEF DeleteRevoke
    <3> QED BY <2>1, <1>open, <1>listed, <1>qed, <3>1 DEF DeleteRevoke
  <2>2. CASE DeleteHidden
    <3>1. removal.endpoint \in Endpoint
      BY <2>2 DEF DeleteHidden, Typed
    <3> QED BY <2>2, <1>del, <1>open, <1>listed, <1>qed, <3>1 DEF DeleteHidden
  <2>3. CASE DeleteBinding
    <3>1. /\ state'.bound = state.bound \ {removal.endpoint} /\ state'.pending = state.pending
          /\ orphaned' = orphaned \cup {removal.endpoint}
      BY <2>3, <1>t DEF DeleteBinding, Store, BridgeState
    <3> QED BY <2>3, <1>open, <1>listed, <1>qed, <3>1 DEF DeleteBinding
  <2> QED BY <1>7, <2>1, <2>2, <2>3 DEF RemovalStep
<1>goto. \A pc : Goto(pc) => poll'.pc = pc
  BY <1>t DEF Goto
<1>done. Done \/ Raise => poll'.pc # "listed"
  <2>1. CASE Raise \/ (Done /\ poll.batch = {})
    BY <2>1 DEF Done, Raise, IdlePoll
  <2>2. CASE Done /\ poll.batch # {}
    <3>1. poll' = [poll EXCEPT !.pc = "next", !.at = {}, !.links = {}]
      BY <2>2 DEF Done
    <3> QED BY <3>1, <1>t
  <2> QED BY <2>1, <2>2
<1>8. CASE PollStep
  <2>1. CASE Fetch
    <3>1. poll'.pc # "listed"
      BY <2>1 DEF Fetch, IdlePoll
    <3> QED BY <2>1, <1>open, <1>unlisted, <1>qed, <3>1 DEF Fetch
  <2>2. CASE ListLinks
    <3>1. ListedLinks'
      <4>1. CASE Raise
        BY <4>1, <1>done, <1>unlisted
      <4>2. CASE poll' = [poll EXCEPT !.pc = "listed", !.links = ActiveLinks]
        <5>1. poll'.at = poll.at /\ poll'.links = ActiveLinks /\ link' = link
          BY <2>2, <4>2, <1>t DEF ListLinks
        <5> QED BY <5>1, <1>t, <1>ends DEF ListedLinks, ActiveLinks
      <4> QED BY <2>2, <4>1, <4>2 DEF ListLinks
    <3> QED BY <2>2, <1>open, <1>qed, <3>1 DEF ListLinks
  <2>3. ASSUME NEW d \in Delivery, HandleDelivery(d) PROVE KnownInv'
    <3>1. poll'.pc # "listed"
      BY <2>3, <1>t DEF HandleDelivery, Route
    <3> QED BY <2>3, <1>open, <1>unlisted, <1>qed, <3>1 DEF HandleDelivery
  <2>4. ASSUME NEW d \in Delivery, Materialize(d) PROVE KnownInv'
    <3>1. poll'.pc # "listed"
      BY <2>4, <1>goto, <1>done DEF Materialize
    <3>2. KnownEndpoints'
      BY <2>4, <1>bind, <1>open DEF Materialize, Store
    <3> QED BY <1>unlisted, <1>qed, <3>1, <3>2
  <2>5. ASSUME NEW d \in Delivery, SendDm(d) PROVE KnownInv'
    <3>1. poll'.pc # "listed"
      BY <2>5, <1>goto, <1>done DEF SendDm
    <3> QED BY <2>5, <1>open, <1>unlisted, <1>qed, <3>1 DEF SendDm
  <2>6. ASSUME NEW d \in Delivery, Remember(d) PROVE KnownInv'
    <3>1. poll'.pc # "listed"
      BY <2>6, <1>goto DEF Remember
    <3>2. state.bound \subseteq state'.bound /\ state'.pending = state.pending
      BY <2>6, <1>t DEF Remember, Store, BridgeState
    <3> QED BY <2>6, <1>open, <1>unlisted, <1>qed, <3>1, <3>2 DEF Remember
  <2>7. ASSUME NEW d \in Delivery, Ack(d) PROVE KnownInv'
    <3>1. poll'.pc # "listed"
      BY <2>7, <1>done DEF Ack
    <3> QED BY <2>7, <1>open, <1>unlisted, <1>qed, <3>1 DEF Ack
  <2> QED BY <1>8, <2>1, <2>2, <2>3, <2>4, <2>5, <2>6, <2>7 DEF PollStep
<1>9. CASE ReconcileStep
  <2>1. CASE ReconcileList \/ NextPhase
    BY <2>1, <1>open, <1>listed, <1>qed DEF ReconcileList, NextPhase
  <2>2. CASE Prune
    <3>1. /\ state'.bound = state.bound /\ state'.pending = state.pending \ ExpiredPending
          /\ orphaned' = orphaned \cup ExpiredPending
      BY <2>2, <1>t DEF Prune, BridgeState
    <3> QED BY <2>2, <1>open, <1>listed, <1>qed, <3>1 DEF Prune
  <2>3. ASSUME NEW e \in Endpoint, DeleteExpired(e) PROVE KnownInv'
    BY <2>3, <1>del, <1>open, <1>listed, <1>qed DEF DeleteExpired
  <2>4. ASSUME NEW e \in Endpoint, BindPending(e) PROVE KnownInv'
    BY <2>4, <1>bind, <1>open, <1>listed, <1>qed DEF BindPending, Store
  <2>5. ASSUME NEW e \in Endpoint, Sever(e) PROVE KnownInv'
    <3>1. state'.bound = state.bound \cup {e} /\ state'.pending = state.pending
      BY <2>5, <1>t DEF Sever, BridgeState
    <3> QED BY <2>5, <1>open, <1>listed, <1>qed, <3>1 DEF Sever
  <2> QED BY <1>9, <2>1, <2>2, <2>3, <2>4, <2>5 DEF ReconcileStep
<1>10. ASSUME NEW torn \in BOOLEAN, Restart(torn) PROVE KnownInv'
  <2>1. poll'.pc # "listed"
    BY <1>10 DEF Restart, IdlePoll
  <2>2. orphaned' = orphaned \cup ((state.bound \cup state.pending) \ (state'.bound \cup state'.pending))
    BY <1>10 DEF Restart, Store
  <2> QED BY <1>10, <1>open, <1>unlisted, <1>qed, <2>1, <2>2 DEF Restart
<1>11. CASE UNCHANGED vars
  BY <1>11, <1>open, <1>listed, <1>qed DEF vars
<1> QED
  BY <1>1, <1>2, <1>3, <1>4, <1>5, <1>6, <1>7, <1>8, <1>9, <1>10, <1>11 DEF Next

----------------------------------------------------------------------------
(* What the user was shown, and what is remembered of it.                  *)

\* Seen, or shown and about to be entered as seen.
Kept(d) == d \in state.seen \/ (poll.pc = "remember" /\ d \in poll.at)

\* A delivery was shown as often as faults let it, and once while it is kept.
ShownOf(d) ==
  /\ Kept(d) \/ (poll.pc = "ack" /\ d \in poll.at) => shown[d] > 0
  /\ shown[d] > 0 => Kept(d) \/ d \in repeated
  /\ shown[d] > 1 => d \in repeated
  /\ shown[d] <= faults + 1
  /\ ~Kept(d) => shown[d] <= faults

\* What is in hand is new, and file and memory agree on what was seen.
ShownInv ==
  /\ disk.seen = state.seen
  /\ poll.pc \in {"listing", "listed", "dm", "remember"} => poll.at \cap state.seen = {}
  /\ \A d \in Delivery : ShownOf(d)

LEMMA ShownStart == Init => ShownInv
BY DEF Init, ShownInv, ShownOf, Kept, Empty, IdlePoll

LEMMA ShownSteps == Typed /\ ShownInv /\ [Next]_vars => ShownInv'
<1> SUFFICES ASSUME Typed, ShownInv, [Next]_vars PROVE ShownInv'
  OBVIOUS
<1>t. /\ state \in BridgeState /\ disk \in BridgeState /\ repeated \subseteq Delivery
      /\ poll \in [pc : Task, batch : SUBSET Delivery, at : SUBSET Delivery, links : SUBSET Endpoint]
      /\ faults \in Nat /\ shown \in [Delivery -> Nat]
  BY DEF Typed
<1>fault. Fault => faults' = faults + 1
  BY DEF Fault
\* Steps that show nothing, enter nothing as seen, and leave the inbox loop alone.
<1>same. ASSUME state'.seen = state.seen, disk'.seen = disk.seen \/ disk' = state',
                UNCHANGED <<poll, shown, repeated>>, faults' = faults \/ Fault
         PROVE  ShownInv'
  <2>1. ASSUME NEW d \in Delivery PROVE ShownOf(d)'
    BY <1>same, <1>t, <1>fault DEF ShownInv, ShownOf, Kept
  <2> QED BY <1>same, <2>1 DEF ShownInv
\* Steps of the inbox loop that go on, with the same delivery or none in hand.
<1>on. ASSUME state'.seen = state.seen, disk'.seen = disk.seen \/ disk' = state',
              UNCHANGED <<shown, repeated>>, faults' = faults \/ Fault,
              poll.pc # "remember", poll'.pc # "remember",
              poll'.pc \in {"listing", "listed", "dm"} => poll'.at \cap state.seen = {},
              \A d \in poll'.at : poll'.pc = "ack" => d \in state.seen
       PROVE  ShownInv'
  <2>1. ASSUME NEW d \in Delivery PROVE ShownOf(d)'
    BY <1>on, <1>t, <1>fault DEF ShownInv, ShownOf, Kept
  <2> QED BY <1>on, <2>1 DEF ShownInv
<1>bind. \A e : Bind(state, e).seen = state.seen
  BY <1>t DEF Bind, BridgeState
<1>del. \A e : DeleteEndpoint(e) => faults' = faults \/ Fault
  BY DEF DeleteEndpoint
<1>goto. \A pc : Goto(pc) => poll'.pc = pc /\ poll'.at = poll.at
  BY <1>t DEF Goto
<1>done. Done \/ Raise => poll'.pc \in {"idle", "next"} /\ poll'.at = {}
  <2>1. CASE Raise \/ (Done /\ poll.batch = {})
    BY <2>1 DEF Done, Raise, IdlePoll
  <2>2. CASE Done /\ poll.batch # {}
    <3>1. poll' = [poll EXCEPT !.pc = "next", !.at = {}, !.links = {}]
      BY <2>2 DEF Done
    <3> QED BY <3>1, <1>t
  <2> QED BY <2>1, <2>2
<1>1. ASSUME NEW e \in Endpoint,
             \/ RemoteRedeem(e) \/ RemoteSend(e) \/ RemoteRevoke(e) \/ Expire(e)
             \/ RedeemAtRelay(e) \/ RedeemLost(e) \/ ChatBegin(e) \/ DeleteConfirmed(e)
      PROVE  ShownInv'
  BY <1>1, <1>same DEF RemoteRedeem, RemoteSend, RemoteRevoke, Expire, RedeemAtRelay, RedeemLost,
     ChatBegin, DeleteConfirmed
<1>2. ASSUME NEW e \in Endpoint, RequestLinkCode(e) \/ RedeemDone(e) PROVE ShownInv'
  <2>1. state'.seen = state.seen /\ disk' = state'
    BY <1>2, <1>t, <1>bind DEF RequestLinkCode, RedeemDone, Store, BridgeState
  <2> QED BY <1>2, <1>same, <2>1 DEF RequestLinkCode, RedeemDone
<1>3. ASSUME NEW ok, ChatEnd(ok) PROVE ShownInv'
  <2>1. state'.seen = state.seen /\ (disk' = state' \/ disk' = disk)
    BY <1>3, <1>t DEF ChatEnd, Store, BridgeState
  <2> QED BY <1>3, <1>same, <2>1 DEF ChatEnd
<1>4. CASE RemovalStep
  <2>1. CASE DeleteRevoke \/ DeleteHidden
    BY <2>1, <1>same, <1>del DEF DeleteRevoke, DeleteHidden
  <2>2. CASE DeleteBinding
    <3>1. state'.seen = state.seen /\ disk' = state'
      BY <2>2, <1>t DEF DeleteBinding, Store, BridgeState
    <3> QED BY <2>2, <1>same, <3>1 DEF DeleteBinding
  <2> QED BY <1>4, <2>1, <2>2 DEF RemovalStep
<1>5. CASE PollStep
  <2>1. CASE Fetch
    <3>1. poll.pc = "idle" /\ poll'.pc = "next" /\ poll'.at = {}
      BY <2>1 DEF Fetch, IdlePoll
    <3> QED BY <2>1, <1>on, <3>1 DEF Fetch
  <2>2. CASE ListLinks
    <3>1. poll.pc = "listing"
      BY <2>2 DEF ListLinks
    <3>2. /\ poll'.pc \in {"listed", "idle", "next"}
          /\ poll'.pc = "listed" => poll'.at = poll.at
      BY <2>2, <1>t, <1>done DEF ListLinks
    <3>3. faults' = faults \/ Fault
      BY <2>2 DEF ListLinks
    <3> QED BY <2>2, <1>on, <3>1, <3>2, <3>3 DEF ListLinks, ShownInv
  <2>3. ASSUME NEW d \in Delivery, HandleDelivery(d) PROVE ShownInv'
    <3>1. /\ poll.pc = "next" /\ poll'.at = {d}
          /\ IF d \in state.seen THEN poll'.pc = "ack"
             ELSE poll'.pc \in {"dm", "listing", "ack unknown"}
      BY <2>3, <1>t DEF HandleDelivery, Route
    <3> QED BY <2>3, <1>on, <3>1 DEF HandleDelivery
  <2>4. ASSUME NEW d \in Delivery, Materialize(d) PROVE ShownInv'
    <3>1. poll.pc = "listed" /\ poll.at \cap state.seen = {}
      BY <2>4 DEF Materialize, ShownInv
    <3>2. poll'.pc \in {"dm", "idle", "next", "ack unknown"} /\ poll'.at \subseteq poll.at
      BY <2>4, <1>goto, <1>done DEF Materialize
    <3>3. state'.seen = state.seen /\ (disk' = state' \/ disk' = disk)
      BY <2>4, <1>bind DEF Materialize, Store
    <3> QED BY <2>4, <1>on, <3>1, <3>2, <3>3 DEF Materialize
  <2>5. ASSUME NEW d \in Delivery, SendDm(d) PROVE ShownInv'
    <3>1. /\ poll.pc = "dm" /\ poll.at = {d} /\ d \notin state.seen
          /\ state' = state /\ disk' = disk
      BY <2>5 DEF SendDm, InHand, ShownInv
    <3>2. /\ shown[d] <= faults /\ (shown[d] > 0 => d \in repeated)
      BY <3>1 DEF ShownInv, ShownOf, Kept
    <3>3. CASE shown' = [shown EXCEPT ![d] = @ + 1] /\ Goto("remember")
               /\ UNCHANGED <<faults, repeated>>
      <4>1. poll'.pc = "remember" /\ poll'.at = {d}
        BY <3>1, <3>3, <1>goto
      <4>2. ASSUME NEW x \in Delivery PROVE ShownOf(x)'
        <5>1. CASE x = d
          BY <1>t, <3>1, <3>2, <3>3, <4>1, <5>1 DEF ShownOf, Kept
        <5>2. CASE x # d
          <6>1. /\ shown'[x] = shown[x] /\ Kept(x)' <=> Kept(x)
            BY <1>t, <3>1, <3>3, <4>1, <5>2 DEF Kept
          <6> QED BY <1>t, <3>1, <3>3, <4>1, <5>2, <6>1 DEF ShownInv, ShownOf
        <5> QED BY <5>1, <5>2
      <4> QED BY <3>1, <4>1, <4>2 DEF ShownInv
    <3>4. CASE Fault /\ Raise
      <4>1. poll'.pc \in {"idle", "next"} /\ poll'.at = {} /\ faults' = faults + 1
        BY <3>4, <1>done, <1>fault
      <4>2. ASSUME NEW x \in Delivery PROVE ShownOf(x)'
        <5>1. shown'[x] = shown[x] \/ (x = d /\ shown'[x] = shown[x] + 1 /\ x \in repeated')
          <6>1. ~Goto("remember")
            BY <4>1, <1>goto
          <6>2. \/ shown' = [shown EXCEPT ![d] = @ + 1] /\ repeated' = repeated \cup {d}
                \/ shown' = shown
            BY <2>5, <6>1 DEF SendDm
          <6> QED BY <6>2, <1>t
        <5>2. repeated \subseteq repeated'
          BY <2>5 DEF SendDm
        <5>3. Kept(x)' <=> Kept(x)
          BY <3>1, <4>1 DEF Kept
        <5> QED BY <1>t, <3>1, <3>2, <4>1, <5>1, <5>2, <5>3 DEF ShownInv, ShownOf
      <4> QED BY <3>1, <4>1, <4>2 DEF ShownInv
    <3> QED BY <2>5, <3>3, <3>4 DEF SendDm
  <2>6. ASSUME NEW d \in Delivery, Remember(d) PROVE ShownInv'
    <3>1. /\ poll.pc = "remember" /\ poll.at = {d} /\ poll'.pc = "ack" /\ poll'.at = {d}
          /\ UNCHANGED <<shown, repeated, faults>>
      BY <2>6, <1>goto DEF Remember, InHand
    <3>2. state'.seen = state.seen \cup {d} /\ disk' = state'
      BY <2>6, <1>t DEF Remember, Store, Marked, BridgeState
    <3>3. ASSUME NEW x \in Delivery PROVE ShownOf(x)'
      <4>1. Kept(x)' <=> Kept(x)
        BY <3>1, <3>2 DEF Kept
      <4>2. x \in poll'.at => Kept(x)
        BY <3>1 DEF Kept
      <4> QED BY <3>1, <4>1, <4>2 DEF ShownInv, ShownOf
    <3> QED BY <3>1, <3>2, <3>3 DEF ShownInv
  <2>7. ASSUME NEW d \in Delivery, Ack(d) PROVE ShownInv'
    <3>1. poll.pc # "remember" /\ poll'.pc \in {"idle", "next"} /\ poll'.at = {}
      BY <2>7, <1>done DEF Ack
    <3>2. faults' = faults \/ Fault
      BY <2>7 DEF Ack
    <3> QED BY <2>7, <1>on, <3>1, <3>2 DEF Ack
  <2> QED BY <1>5, <2>1, <2>2, <2>3, <2>4, <2>5, <2>6, <2>7 DEF PollStep
<1>6. CASE ReconcileStep
  <2>1. CASE ReconcileList
    BY <2>1, <1>same DEF ReconcileList
  <2>2. CASE Prune
    <3>1. state'.seen = state.seen
      BY <2>2, <1>t DEF Prune, BridgeState
    <3> QED BY <2>2, <1>same, <3>1 DEF Prune
  <2>3. CASE NextPhase
    <3>1. state' = state /\ (disk' = disk \/ disk' = state')
      BY <2>3 DEF NextPhase
    <3> QED BY <2>3, <1>same, <3>1 DEF NextPhase
  <2>4. ASSUME NEW e \in Endpoint, DeleteExpired(e) PROVE ShownInv'
    <3>1. faults' = faults \/ Fault
      BY <2>4, <1>del DEF DeleteExpired
    <3> QED BY <2>4, <1>same, <3>1 DEF DeleteExpired
  <2>5. ASSUME NEW e \in Endpoint, BindPending(e) PROVE ShownInv'
    <3>1. state'.seen = state.seen /\ (disk' = state' \/ disk' = disk)
      BY <2>5, <1>bind DEF BindPending, Store
    <3> QED BY <2>5, <1>same, <3>1 DEF BindPending
  <2>6. ASSUME NEW e \in Endpoint, Sever(e) PROVE ShownInv'
    <3>1. state'.seen = state.seen /\ disk' = disk
      BY <2>6, <1>t DEF Sever, BridgeState
    <3> QED BY <2>6, <1>same, <3>1 DEF Sever
  <2> QED BY <1>6, <2>1, <2>2, <2>3, <2>4, <2>5, <2>6 DEF ReconcileStep
<1>7. ASSUME NEW torn \in BOOLEAN, Restart(torn) PROVE ShownInv'
  <2>1. /\ state' = (IF torn THEN Empty ELSE disk) /\ disk' = state' /\ shown' = shown
        /\ faults' = faults + 1 /\ poll'.pc = "idle" /\ poll'.at = {}
        /\ repeated' = repeated \cup (IF poll.pc = "remember" THEN poll.at ELSE {})
                                \cup (IF torn THEN state.seen ELSE {})
    BY <1>7, <1>fault DEF Restart, Store, IdlePoll
  <2>2. state'.seen = IF torn THEN {} ELSE state.seen
    BY <2>1 DEF ShownInv, Empty
  <2>3. ASSUME NEW d \in Delivery PROVE ShownOf(d)'
    <3>1. Kept(d)' <=> d \in state'.seen
      BY <2>1 DEF Kept
    <3>2. Kept(d) => d \in state'.seen \/ d \in repeated'
      BY <2>1, <2>2 DEF Kept
    <3>3. repeated \subseteq repeated' /\ shown'[d] = shown[d]
      BY <2>1
    <3>4. d \in state'.seen => Kept(d)
      BY <2>2 DEF Kept
    <3> QED BY <1>t, <2>1, <3>1, <3>2, <3>3, <3>4 DEF ShownInv, ShownOf
  <2> QED BY <2>1, <2>3 DEF ShownInv
<1>8. CASE UNCHANGED vars
  BY <1>8, <1>same DEF vars
<1> QED BY <1>1, <1>2, <1>3, <1>4, <1>5, <1>6, <1>7, <1>8 DEF Next

----------------------------------------------------------------------------
(* What is severed.                                                        *)

\* The contacts a coroutine may write back, whether the user still has them.
InUse ==
  {e \in Endpoint :
     \/ e \in state.bound
     \/ e = chat /\ chat # NoEndpoint
     \/ poll.pc \in {"dm", "remember"} /\ \E d \in poll.at : d.endpoint = e
     \/ reconcile.pc = "sever" /\ e \in reconcile.todo}

\* A reconciliation's list of links is out of date only for contacts made since.
ListsContacts ==
  reconcile.pc # "idle" =>
    \A e \in InUse : link[e] = "active" => e \in reconcile.links \cup overtaken

SeveredExplained ==
  \A e \in Endpoint :
    e \in state.severed \cup disk.severed /\ link[e] = "active" => e \in overtaken

\* What is severed was not in the list.
TodoUnlinked == reconcile.pc = "sever" => reconcile.todo \cap reconcile.links = {}

SeverInv == ListsContacts /\ SeveredExplained /\ TodoUnlinked

LEMMA SeverStart == Init => SeverInv
BY DEF Init, SeverInv, ListsContacts, SeveredExplained, TodoUnlinked, Empty,
   IdleReconcile

LEMMA InUseLinked == Typed /\ LinksInv => InUse \subseteq Linked
BY DEF Typed, LinksInv, InUse

LEMMA SeverSteps == Typed /\ LinksInv /\ SeverInv /\ [Next]_vars => SeverInv'
<1> SUFFICES ASSUME Typed, LinksInv, SeverInv, [Next]_vars PROVE SeverInv'
  OBVIOUS
<1>t. /\ state \in BridgeState /\ disk \in BridgeState
      /\ poll \in [pc : Task, batch : SUBSET Delivery, at : SUBSET Delivery, links : SUBSET Endpoint]
      /\ reconcile \in [pc : {"idle", "prune", "delete", "bind", "sever"},
                        links : SUBSET Endpoint, todo : SUBSET Endpoint]
      /\ chat \in Endpoint \cup {NoEndpoint}
  BY DEF Typed
<1>ends. \A d \in Delivery : d.endpoint \in Endpoint
  BY DEF Delivery
<1>was. \A e \in Linked : e \in Endpoint /\ (link'[e] = "active" => link[e] = "active")
  BY LinkSteps DEF LinkMoves, Linked
\* Only contacts made since the links were listed come into use.
<1>lists. ASSUME reconcile'.pc # "idle" =>
                   reconcile.pc # "idle" /\ reconcile'.links = reconcile.links,
                 overtaken \subseteq overtaken',
                 \A e \in InUse' : \/ e \in InUse
                                   \/ e \in reconcile.links \cup overtaken'
          PROVE  ListsContacts'
  BY <1>lists, <1>was, InUseLinked DEF SeverInv, ListsContacts
<1>severed. ASSUME overtaken \subseteq overtaken',
                   \A e \in state'.severed \cup disk'.severed :
                      \/ e \in state.severed \cup disk.severed
                      \/ e \in Linked /\ (link[e] = "active" => e \in overtaken')
            PROVE  SeveredExplained'
  BY <1>severed, <1>was DEF SeverInv, SeveredExplained, LinksInv
\* Only the loop itself adds to what it is to sever.
<1>todo. ASSUME \/ reconcile' = reconcile \/ reconcile'.pc # "sever"
                \/ /\ reconcile.pc = "sever" /\ reconcile'.links = reconcile.links
                   /\ reconcile'.todo \subseteq reconcile.todo
         PROVE  TodoUnlinked'
  BY <1>todo DEF SeverInv, TodoUnlinked
<1>qed. ListsContacts' /\ SeveredExplained' /\ TodoUnlinked' => SeverInv'
  BY DEF SeverInv
\* Steps that bring nothing into use and sever nothing.
<1>same. ASSUME reconcile' = reconcile \/ reconcile'.pc = "idle", overtaken' = overtaken,
                InUse' \subseteq InUse,
                state'.severed \cup disk'.severed \subseteq state.severed \cup disk.severed
         PROVE  SeverInv'
  BY <1>same, <1>lists, <1>severed, <1>todo, <1>qed
\* The parts InUse is made of.
<1>use. ASSUME state'.bound \subseteq state.bound, chat' = chat \/ chat' = NoEndpoint,
               poll' = poll \/ poll'.pc \notin {"dm", "remember"} \/ (poll.pc \in {"dm", "remember"} /\ poll'.at = poll.at),
               reconcile' = reconcile \/ reconcile'.pc # "sever"
                 \/ (reconcile.pc = "sever" /\ reconcile'.todo \subseteq reconcile.todo)
        PROVE  InUse' \subseteq InUse
  BY <1>use DEF InUse
<1>bind. \A e : /\ Bind(state, e).bound = state.bound \cup {e}
                /\ Bind(state, e).severed = state.severed \ {e}
  BY <1>t DEF Bind, BridgeState
<1>over. \A e : /\ overtaken \subseteq Overtaking(e)
                /\ reconcile.pc # "idle" /\ e \notin reconcile.links => e \in Overtaking(e)
  BY DEF Overtaking
\* A contact that is made is no longer severed, and in use from now on.
<1>made. ASSUME NEW e, Store(Bind(state, e)), overtaken' = Overtaking(e), reconcile' = reconcile,
                InUse' \subseteq InUse \cup {e}
         PROVE  SeverInv'
  <2>1. ListsContacts'
    <3>1. CASE reconcile.pc = "idle"
      BY <1>made, <3>1 DEF ListsContacts
    <3>2. CASE reconcile.pc # "idle"
      <4>1. \A f \in InUse' : f \in InUse \/ f \in reconcile.links \cup overtaken'
        BY <1>made, <1>over, <3>2
      <4> QED BY <1>made, <1>over, <1>lists, <4>1
    <3> QED BY <3>1, <3>2
  <2>2. SeveredExplained'
    BY <1>made, <1>bind, <1>over, <1>severed DEF Store
  <2> QED BY <1>made, <1>todo, <2>1, <2>2, <1>qed
<1>1. ASSUME NEW e \in Endpoint,
             \/ RemoteRedeem(e) \/ RemoteSend(e) \/ RemoteRevoke(e) \/ Expire(e)
             \/ RedeemAtRelay(e) \/ RedeemLost(e) \/ DeleteConfirmed(e)
      PROVE  SeverInv'
  BY <1>1, <1>use, <1>same DEF RemoteRedeem, RemoteSend, RemoteRevoke, Expire, RedeemAtRelay,
     RedeemLost, DeleteConfirmed
<1>2. ASSUME NEW e \in Endpoint, RequestLinkCode(e) PROVE SeverInv'
  <2>1. /\ state'.bound = state.bound /\ state'.severed = state.severed /\ disk' = state'
    BY <1>2, <1>t DEF RequestLinkCode, Store, BridgeState
  <2> QED BY <1>2, <1>use, <1>same, <2>1 DEF RequestLinkCode
<1>3. ASSUME NEW e \in Endpoint, RedeemDone(e) PROVE SeverInv'
  <2>1. InUse' \subseteq InUse \cup {e}
    BY <1>3, <1>bind DEF RedeemDone, Store, InUse
  <2> QED BY <1>3, <1>made, <2>1 DEF RedeemDone
<1>4. ASSUME NEW e \in Endpoint, ChatBegin(e) PROVE SeverInv'
  <2>1. InUse' \subseteq InUse
    BY <1>4 DEF ChatBegin, InUse
  <2> QED BY <1>4, <1>same, <2>1 DEF ChatBegin
<1>5. ASSUME NEW ok, ChatEnd(ok) PROVE SeverInv'
  <2>1. state'.bound \subseteq state.bound \cup {chat} /\ state'.severed = state.severed
        /\ (disk' = state' \/ disk' = disk)
    BY <1>5, <1>t DEF ChatEnd, Store, BridgeState
  <2>2. InUse' \subseteq InUse
    BY <1>5, <2>1 DEF ChatEnd, InUse
  <2> QED BY <1>5, <1>same, <2>1, <2>2 DEF ChatEnd
<1>6. CASE RemovalStep
  <2>1. CASE DeleteRevoke \/ DeleteHidden
    BY <2>1, <1>use, <1>same DEF DeleteRevoke, DeleteHidden
  <2>2. CASE DeleteBinding
    <3>1. state'.bound \subseteq state.bound /\ state'.severed = state.severed /\ disk' = state'
      BY <2>2, <1>t DEF DeleteBinding, Store, BridgeState
    <3> QED BY <2>2, <1>use, <1>same, <3>1 DEF DeleteBinding
  <2> QED BY <1>6, <2>1, <2>2 DEF RemovalStep
<1>goto. \A pc : Goto(pc) => poll'.pc = pc /\ poll'.at = poll.at
  BY <1>t DEF Goto
<1>done. Done \/ Raise => poll'.pc \notin {"dm", "remember"}
  <2>1. CASE Raise \/ (Done /\ poll.batch = {})
    BY <2>1 DEF Done, Raise, IdlePoll
  <2>2. CASE Done /\ poll.batch # {}
    <3>1. poll' = [poll EXCEPT !.pc = "next", !.at = {}, !.links = {}]
      BY <2>2 DEF Done
    <3> QED BY <3>1, <1>t
  <2> QED BY <2>1, <2>2
<1>7. CASE PollStep
  <2>1. CASE Fetch
    <3>1. poll'.pc = "next"
      BY <2>1 DEF Fetch, IdlePoll
    <3> QED BY <2>1, <1>use, <1>same, <3>1 DEF Fetch
  <2>2. CASE ListLinks
    <3>1. poll'.pc \notin {"dm", "remember"}
      BY <2>2, <1>t, <1>done DEF ListLinks
    <3> QED BY <2>2, <1>use, <1>same, <3>1 DEF ListLinks
  <2>3. ASSUME NEW d \in Delivery, HandleDelivery(d) PROVE SeverInv'
    <3>1. poll'.at = {d} /\ (poll'.pc \in {"dm", "remember"} => d.endpoint \in state.bound)
      BY <2>3, <1>t DEF HandleDelivery, Route
    <3>2. InUse' \subseteq InUse
      BY <2>3, <3>1 DEF HandleDelivery, InUse
    <3> QED BY <2>3, <1>same, <3>2 DEF HandleDelivery
  <2>4. ASSUME NEW d \in Delivery, Materialize(d) PROVE SeverInv'
    <3>1. CASE d.endpoint \in poll.links
      <4>1. Store(Bind(state, d.endpoint)) /\ overtaken' = Overtaking(d.endpoint)
        BY <2>4, <3>1 DEF Materialize
      <4>2. poll'.at = {d}
        BY <2>4, <3>1, <1>goto DEF Materialize, InHand
      <4>3. InUse' \subseteq InUse \cup {d.endpoint}
        BY <2>4, <1>bind, <4>1, <4>2 DEF Materialize, Store, InUse
      <4> QED BY <2>4, <1>made, <4>1, <4>3 DEF Materialize
    <3>2. CASE d.endpoint \notin poll.links
      <4>1. poll'.pc \notin {"dm", "remember"}
        BY <2>4, <3>2, <1>goto, <1>done DEF Materialize
      <4> QED BY <2>4, <3>2, <1>use, <1>same, <4>1 DEF Materialize
    <3> QED BY <3>1, <3>2
  <2>5. ASSUME NEW d \in Delivery, SendDm(d) PROVE SeverInv'
    <3>1. \/ poll'.pc \notin {"dm", "remember"}
          \/ poll.pc \in {"dm", "remember"} /\ poll'.at = poll.at
      BY <2>5, <1>goto, <1>done DEF SendDm
    <3> QED BY <2>5, <1>use, <1>same, <3>1 DEF SendDm
  <2>6. ASSUME NEW d \in Delivery, Remember(d) PROVE SeverInv'
    <3>1. /\ state'.bound = state.bound \cup {d.endpoint} /\ state'.severed = state.severed
          /\ disk' = state'
      BY <2>6, <1>t DEF Remember, Store, BridgeState
    <3>2. poll.pc = "remember" /\ d \in poll.at /\ poll'.pc = "ack"
      BY <2>6, <1>goto DEF Remember, InHand
    <3>3. InUse' \subseteq InUse
      BY <2>6, <3>1, <3>2 DEF Remember, InUse
    <3> QED BY <2>6, <1>same, <3>1, <3>3 DEF Remember
  <2>7. ASSUME NEW d \in Delivery, Ack(d) PROVE SeverInv'
    <3>1. poll'.pc \notin {"dm", "remember"}
      BY <2>7, <1>done DEF Ack
    <3> QED BY <2>7, <1>use, <1>same, <3>1 DEF Ack
  <2> QED BY <1>7, <2>1, <2>2, <2>3, <2>4, <2>5, <2>6, <2>7 DEF PollStep
<1>drop. \A e : Drop(e) => /\ reconcile'.pc = reconcile.pc /\ reconcile'.links = reconcile.links
                           /\ reconcile'.todo \subseteq reconcile.todo
  BY <1>t DEF Drop
<1>turn. \A pc, todo : Turn(pc, todo) =>
           reconcile'.pc = pc /\ reconcile'.links = reconcile.links /\ reconcile'.todo = todo
  BY <1>t DEF Turn
<1>8. CASE ReconcileStep
  <2>1. CASE ReconcileList
    <3>1. reconcile'.pc = "prune" /\ reconcile'.links = ActiveLinks
      BY <2>1 DEF ReconcileList, IdleReconcile
    <3>2. ListsContacts'
      <4>1. \A e \in InUse' : link'[e] = "active" => e \in ActiveLinks
        BY <2>1 DEF ReconcileList, InUse, ActiveLinks
      <4> QED BY <3>1, <4>1 DEF ListsContacts
    <3> QED BY <2>1, <1>severed, <1>todo, <1>qed, <3>1, <3>2 DEF ReconcileList
  <2>2. CASE Prune
    <3>1. state'.bound = state.bound /\ state'.severed = state.severed /\ disk' = disk
      BY <2>2, <1>t DEF Prune, BridgeState
    <3>2. reconcile.pc = "prune" /\ reconcile'.pc = "delete" /\ reconcile'.links = reconcile.links
      BY <2>2, <1>turn DEF Prune
    <3>3. InUse' \subseteq InUse
      BY <2>2, <1>use, <3>1, <3>2 DEF Prune
    <3> QED BY <2>2, <1>lists, <1>severed, <1>todo, <1>qed, <3>1, <3>2, <3>3 DEF Prune
  <2>3. CASE NextPhase
    <3>1. /\ reconcile.pc # "idle"
          /\ reconcile'.pc # "idle" => reconcile'.links = reconcile.links
          /\ reconcile'.pc = "sever" => reconcile'.todo = Unlinked
      BY <2>3, <1>turn DEF NextPhase, IdleReconcile
    <3>2. InUse' \subseteq InUse
      BY <2>3, <3>1 DEF NextPhase, InUse, Unlinked
    <3>3. state' = state /\ (disk' = disk \/ disk' = state) /\ overtaken' = overtaken
      BY <2>3 DEF NextPhase
    <3>4. TodoUnlinked'
      BY <3>1 DEF TodoUnlinked, Unlinked
    <3> QED BY <1>lists, <1>severed, <1>qed, <3>1, <3>2, <3>3, <3>4
  <2>4. ASSUME NEW e \in Endpoint, DeleteExpired(e) PROVE SeverInv'
    <3>1. InUse' \subseteq InUse
      BY <2>4, <1>use, <1>drop DEF DeleteExpired
    <3> QED BY <2>4, <1>lists, <1>severed, <1>todo, <1>qed, <1>drop, <3>1 DEF DeleteExpired
  <2>5. ASSUME NEW e \in Endpoint, BindPending(e) PROVE SeverInv'
    <3>1. reconcile.pc = "bind"
      BY <2>5 DEF BindPending
    <3>2. CASE e \in state.pending \cap reconcile.links
      <4>1. /\ state'.bound = state.bound \cup {e} /\ state'.severed = state.severed \ {e}
            /\ disk' = state' /\ overtaken' = overtaken
        BY <2>5, <3>2, <1>bind DEF BindPending, Store
      <4>2. InUse' \subseteq InUse \cup {e}
        BY <2>5, <3>1, <4>1, <1>drop DEF BindPending, InUse
      <4> QED BY <2>5, <3>1, <3>2, <4>1, <4>2, <1>lists, <1>severed, <1>todo, <1>qed, <1>drop DEF BindPending
    <3>3. CASE e \notin state.pending \cap reconcile.links
      <4>1. InUse' \subseteq InUse
        BY <2>5, <3>3, <1>use, <1>drop DEF BindPending
      <4> QED BY <2>5, <3>3, <4>1, <1>lists, <1>severed, <1>todo, <1>qed, <1>drop DEF BindPending
    <3> QED BY <3>2, <3>3
  <2>6. ASSUME NEW e \in Endpoint, Sever(e) PROVE SeverInv'
    <3>1. state'.bound = state.bound \cup {e} /\ state'.severed = state.severed \cup {e}
          /\ disk' = disk
      BY <2>6, <1>t DEF Sever, BridgeState
    <3>2. reconcile.pc = "sever" /\ e \in reconcile.todo /\ e \in InUse /\ overtaken' = overtaken
      BY <2>6 DEF Sever, InUse
    <3>3. InUse' \subseteq InUse
      BY <2>6, <3>1, <3>2, <1>drop DEF Sever, InUse
    <3>4. e \in Linked /\ (link[e] = "active" => e \in overtaken)
      BY <3>2, InUseLinked DEF SeverInv, ListsContacts, TodoUnlinked
    <3>5. SeveredExplained'
      BY <1>severed, <3>1, <3>2, <3>4
    <3> QED BY <2>6, <1>lists, <1>todo, <1>qed, <1>drop, <3>2, <3>3, <3>5 DEF Sever
  <2> QED BY <1>8, <2>1, <2>2, <2>3, <2>4, <2>5, <2>6 DEF ReconcileStep
<1>9. ASSUME NEW torn \in BOOLEAN, Restart(torn) PROVE SeverInv'
  <2>1. state' = (IF torn THEN Empty ELSE disk) /\ disk' = state' /\ overtaken' = overtaken
    BY <1>9 DEF Restart, Store
  <2>2. ListsContacts'
    BY <1>9 DEF Restart, IdleReconcile, ListsContacts
  <2>3. TodoUnlinked'
    BY <1>9 DEF Restart, IdleReconcile, TodoUnlinked
  <2> QED BY <1>severed, <1>qed, <2>1, <2>2, <2>3 DEF Empty
<1>10. CASE UNCHANGED vars
  BY <1>10, <1>use, <1>same DEF vars
<1> QED BY <1>1, <1>2, <1>3, <1>4, <1>5, <1>6, <1>7, <1>8, <1>9, <1>10 DEF Next

----------------------------------------------------------------------------
(* What follows.                                                           *)

BridgeIInv == Typed /\ LinksInv /\ KnownInv /\ ShownInv /\ SeverInv

LEMMA BridgeInvariance == Spec => []BridgeIInv
<1>1. Init => BridgeIInv
  BY TypedStart, LinksStart, KnownStart, ShownStart, SeverStart DEF BridgeIInv
<1>2. BridgeIInv /\ [Next]_vars => BridgeIInv'
  BY TypedSteps, LinksSteps, KnownSteps, ShownSteps, SeverSteps DEF BridgeIInv
<1> QED BY <1>1, <1>2, PTL DEF Spec

\* The one state object keeps its type, whatever the coroutines do to it between
\* their awaits, and no delivery is shown a second time without a fault: once
\* more for every fault at most.
THEOREM BridgeRepeatsNothing == Spec => []BridgeInv
<1>1. BridgeIInv => BridgeInv
  <2> SUFFICES ASSUME BridgeIInv PROVE BridgeInv
    OBVIOUS
  <2>1. \A d \in Delivery : shown[d] \in 0 .. MaxFaults + 1
    <3>1. ASSUME NEW d \in Delivery PROVE shown[d] \in 0 .. MaxFaults + 1
      <4>1. shown[d] \in Nat /\ faults \in 0 .. MaxFaults
        BY DEF BridgeIInv, Typed
      <4>2. shown[d] <= faults + 1
        BY DEF BridgeIInv, ShownInv, ShownOf
      <4> QED BY <4>1, <4>2
    <3> QED BY <3>1
  <2>2. TypeOK
    BY <2>1 DEF BridgeIInv, Typed, TypeOK
  <2>3. ShownAgainForAReason
    BY DEF BridgeIInv, ShownInv, ShownOf, ShownAgainForAReason
  <2> QED BY <2>2, <2>3 DEF BridgeInv
<1> QED BY <1>1, BridgeInvariance, PTL

\* A contact is severed while its link is active only if it was made after a
\* reconciliation had listed the links: severing never works from a list that
\* was out of date in any other way.
THEOREM SeveringIsExplained == Spec => []SeveredForAReason
<1>1. BridgeIInv => SeveredForAReason
  BY DEF BridgeIInv, Typed, BridgeState, SeverInv, SeveredExplained, SeveredForAReason
<1> QED BY <1>1, BridgeInvariance, PTL

\* AckedForAReason as an action.
AckForAReason ==
  /\ \A d \in queue \ queue' : shown[d] > 0 \/ poll.pc = "ack unknown"
  /\ poll.pc # "ack unknown" /\ poll'.pc = "ack unknown" =>
       \A d \in poll'.at : d.endpoint \in orphaned \/ link[d.endpoint] # "active"

LEMMA AckSteps == BridgeIInv /\ [Next]_vars => AckForAReason
<1> SUFFICES ASSUME BridgeIInv, [Next]_vars PROVE AckForAReason
  OBVIOUS
<1>t. /\ queue \subseteq Delivery
      /\ poll \in [pc : Task, batch : SUBSET Delivery, at : SUBSET Delivery, links : SUBSET Endpoint]
  BY DEF BridgeIInv, Typed
<1>ends. \A d \in Delivery : d.endpoint \in Endpoint
  BY DEF Delivery
<1>same. ASSUME queue \subseteq queue',
                poll' = poll \/ poll'.pc # "ack unknown"
         PROVE  AckForAReason
  BY <1>same DEF AckForAReason
<1>goto. \A pc : Goto(pc) => poll'.pc = pc /\ poll'.at = poll.at
  BY <1>t DEF Goto
<1>others. \A x \in {"idle", "next", "listed", "remember", "ack"} : x # "ack unknown"
  BY Zenon
<1>done. Done \/ Raise => poll'.pc # "ack unknown"
  <2>1. CASE Raise \/ (Done /\ poll.batch = {})
    <3>1. poll'.pc = "idle"
      BY <2>1 DEF Done, Raise, IdlePoll
    <3> QED BY <3>1, <1>others
  <2>2. CASE Done /\ poll.batch # {}
    <3>1. poll' = [poll EXCEPT !.pc = "next", !.at = {}, !.links = {}]
      BY <2>2 DEF Done
    <3>2. poll'.pc = "next"
      BY <3>1, <1>t
    <3> QED BY <3>2, <1>others
  <2> QED BY <2>1, <2>2
<1>1. ASSUME NEW e \in Endpoint,
             \/ RemoteRedeem(e) \/ RemoteSend(e) \/ RemoteRevoke(e) \/ Expire(e)
             \/ RequestLinkCode(e) \/ RedeemAtRelay(e) \/ RedeemDone(e) \/ RedeemLost(e)
             \/ ChatBegin(e) \/ DeleteConfirmed(e)
      PROVE  AckForAReason
  BY <1>1, <1>same DEF RemoteRedeem, RemoteSend, RemoteRevoke, Expire, RequestLinkCode,
     RedeemAtRelay, RedeemDone, RedeemLost, ChatBegin, DeleteConfirmed
<1>2. ASSUME NEW ok, ChatEnd(ok) PROVE AckForAReason
  BY <1>2, <1>same DEF ChatEnd
<1>3. CASE RemovalStep \/ ReconcileStep
  BY <1>3, <1>same DEF RemovalStep, DeleteRevoke, DeleteHidden, DeleteBinding, ReconcileStep,
     ReconcileList, Prune, NextPhase, DeleteExpired, BindPending, Sever
<1>4. CASE PollStep
  <2>1. CASE Fetch
    <3>1. poll'.pc = "next"
      BY <2>1 DEF Fetch, IdlePoll
    <3> QED BY <2>1, <1>same, <3>1 DEF Fetch
  <2>2. CASE ListLinks
    <3>1. poll'.pc # "ack unknown"
      BY <2>2, <1>t, <1>done DEF ListLinks
    <3> QED BY <2>2, <1>same, <3>1 DEF ListLinks
  <2>3. ASSUME NEW d \in Delivery, HandleDelivery(d) PROVE AckForAReason
    <3>1. CASE poll'.pc # "ack unknown"
      BY <2>3, <1>same, <3>1 DEF HandleDelivery
    <3>2. CASE poll'.pc = "ack unknown"
      <4>1. poll'.at = {d} /\ d.endpoint \notin state.bound \cup state.pending
        BY <2>3, <1>t, <3>2 DEF HandleDelivery, Route
      <4>2. d.endpoint \in orphaned \/ link[d.endpoint] # "active"
        BY <4>1, <1>ends DEF BridgeIInv, KnownInv, KnownEndpoints
      <4> QED BY <2>3, <4>1, <4>2 DEF HandleDelivery, AckForAReason
    <3> QED BY <3>1, <3>2
  <2>4. ASSUME NEW d \in Delivery, Materialize(d) PROVE AckForAReason
    <3>1. CASE poll'.pc # "ack unknown"
      BY <2>4, <1>same, <3>1 DEF Materialize
    <3>2. CASE poll'.pc = "ack unknown"
      <4>1. poll.pc = "listed" /\ poll.at = {d} /\ d.endpoint \notin poll.links
        BY <2>4, <3>2, <1>goto, <1>others DEF Materialize, InHand
      <4>2. poll'.at = {d}
        BY <2>4, <3>2, <4>1, <1>goto, <1>done DEF Materialize
      <4>3. link[d.endpoint] # "active"
        BY <4>1 DEF BridgeIInv, KnownInv, ListedLinks
      <4> QED BY <2>4, <4>2, <4>3 DEF Materialize, AckForAReason
    <3> QED BY <3>1, <3>2
  <2>5. ASSUME NEW d \in Delivery, SendDm(d) PROVE AckForAReason
    <3>1. poll'.pc # "ack unknown"
      BY <2>5, <1>goto, <1>done, <1>others DEF SendDm
    <3> QED BY <2>5, <1>same, <3>1 DEF SendDm
  <2>6. ASSUME NEW d \in Delivery, Remember(d) PROVE AckForAReason
    <3>1. poll'.pc # "ack unknown"
      BY <2>6, <1>goto, <1>others DEF Remember
    <3> QED BY <2>6, <1>same, <3>1 DEF Remember
  <2>7. ASSUME NEW d \in Delivery, Ack(d) PROVE AckForAReason
    <3>1. poll'.pc # "ack unknown" /\ queue \ queue' \subseteq {d}
      BY <2>7, <1>done DEF Ack
    <3>2. poll.pc = "ack" => shown[d] > 0
      BY <2>7 DEF Ack, InHand, BridgeIInv, ShownInv, ShownOf
    <3> QED BY <2>7, <3>1, <3>2 DEF Ack, AckForAReason
  <2> QED BY <1>4, <2>1, <2>2, <2>3, <2>4, <2>5, <2>6, <2>7 DEF PollStep
<1>5. ASSUME NEW torn \in BOOLEAN, Restart(torn) PROVE AckForAReason
  <2>1. poll'.pc = "idle" /\ queue' = queue
    BY <1>5 DEF Restart, IdlePoll
  <2> QED BY <1>same, <2>1
<1>6. CASE UNCHANGED vars
  BY <1>6, <1>same DEF vars
<1> QED BY <1>1, <1>2, <1>3, <1>4, <1>5, <1>6 DEF Next

\* A delivery leaves the queue without having been shown only when it was taken
\* for an unknown one, and it is taken for one only when the bridge has lost its
\* contact, or the link is no longer active.
THEOREM AcksAreExplained == Spec => AckedForAReason
<1>1. BridgeIInv /\ [Next]_vars => [AckForAReason]_vars
  BY AckSteps
<1>2. Spec => [][AckForAReason]_vars
  BY <1>1, BridgeInvariance, PTL DEF Spec
<1> QED
  BY <1>2, PTL DEF AckedForAReason, AckForAReason
=============================================================================
