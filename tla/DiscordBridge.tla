---------------------------- MODULE DiscordBridge ----------------------------
(***************************************************************************)
(* The Discord bridge (arqs_discord_appkit_bot.py): the contacts of one    *)
(* Discord user, each with a hidden endpoint of its own, the coroutines    *)
(* that change them (the inbox loop, the reconciliation loop, slash        *)
(* commands and direct messages), which are interleaved at their awaits,   *)
(* discord_state.json, and the relay as far as the bridge depends on it.   *)
(***************************************************************************)
EXTENDS Naturals, FiniteSets

CONSTANTS
  Endpoint,        \* hidden endpoints, each made by one command of the user
  MaxDeliveries,   \* bound: packets the remote side sends to an endpoint
  MaxFaults,       \* bound: failed calls and restarts
  NoEndpoint

ASSUME BridgeAssumption == MaxDeliveries \in Nat /\ MaxFaults \in Nat

Delivery == [endpoint : Endpoint, n : 1 .. MaxDeliveries]
\* discord_state.json: bindings, those with status severed among them, pending
\* links and seen deliveries.  There is one binding per local endpoint.
BridgeState == [bound : SUBSET Endpoint, severed : SUBSET Endpoint,
                pending : SUBSET Endpoint, seen : SUBSET Delivery]
Empty == [bound |-> {}, severed |-> {}, pending |-> {}, seen |-> {}]
Task == {"idle", "next", "listing", "listed", "dm", "remember", "ack", "ack unknown"}

VARIABLES
  link,            \* relay: what has become of each endpoint's code or link
  queue,           \* relay: deliveries queued for the bridge
  sent,            \* packets sent to each endpoint so far
  expired,         \* pending links whose expires_at has passed
  state,           \* DiscordBridgeState in memory
  disk,            \* discord_state.json
  redeeming,       \* redeemed at the relay, cmd_redeem_link_code goes on
  poll,            \* the inbox loop
  reconcile,       \* the reconciliation loop
  chat,            \* the contact that on_message or cmd_command sends to
  removal,         \* confirm_delete_link
  faults,
  shown,           \* how often each delivery has been sent to the user
  orphaned,        \* endpoints the bridge has lost, or has yet to enter
  overtaken,       \* contacts made while a reconciliation had older links
  repeated         \* deliveries shown without being remembered

vars == <<link, queue, sent, expired, state, disk, redeeming, poll, reconcile,
          chat, removal, faults, shown, orphaned, overtaken, repeated>>
relay == <<link, queue, sent, expired>>
notes == <<shown, orphaned, overtaken, repeated>>
tasks == <<redeeming, poll, reconcile, chat, removal>>

\* faulty: the status of a link is not looked at
AllLinks == {e \in Endpoint : link[e] \in {"active", "revoked"}}
ActiveLinks == {e \in Endpoint : link[e] = "active"}
Store(s) == state' = s /\ disk' = s
Fault == faults < MaxFaults /\ faults' = faults + 1
\* The relay refuses while the endpoint is in use; a failure is ignored.
DeleteEndpoint(e) ==
  \/ /\ link' = IF link[e] = "active" \/ \E d \in queue : d.endpoint = e THEN link
                ELSE [link EXCEPT ![e] = "deleted"]
     /\ faults' = faults
  \/ link' = link /\ Fault

\* faulty: the pending link is removed before the contact is entered
Unpended(s, e) == [s EXCEPT !.pending = @ \ {e}]
Bind(s, e) == [s EXCEPT !.bound = @ \cup {e}, !.severed = @ \ {e}, !.pending = @ \ {e}]
\* A contact made behind the back of a reconciliation.
Overtaking(e) == overtaken \cup {x \in {e} : reconcile.pc # "idle" /\ x \notin reconcile.links}

----------------------------------------------------------------------------
(* The remote side, and time.                                              *)

RemoteRedeem(e) ==
  /\ link[e] = "code" /\ e \notin expired
  /\ link' = [link EXCEPT ![e] = "active"]
  /\ UNCHANGED <<queue, sent, expired, state, disk, tasks, faults, notes>>

RemoteSend(e) ==
  /\ link[e] = "active" /\ sent[e] < MaxDeliveries
  /\ sent' = [sent EXCEPT ![e] = @ + 1]
  /\ queue' = queue \cup {[endpoint |-> e, n |-> sent[e] + 1]}
  /\ UNCHANGED <<link, expired, state, disk, tasks, faults, notes>>

RemoteRevoke(e) ==
  /\ link[e] = "active"
  /\ link' = [link EXCEPT ![e] = "revoked"]
  /\ UNCHANGED <<queue, sent, expired, state, disk, tasks, faults, notes>>

Expire(e) ==
  /\ e \in state.pending /\ e \notin expired
  /\ expired' = expired \cup {e}
  /\ UNCHANGED <<link, queue, sent, state, disk, tasks, faults, notes>>

----------------------------------------------------------------------------
(* Slash commands and direct messages.                                     *)

\* cmd_request_link_code.  Nobody knows the code before the user is told, so
\* the two requests and the save are one step.
RequestLinkCode(e) ==
  /\ link[e] = "none"
  /\ link' = [link EXCEPT ![e] = "code"]
  /\ Store([state EXCEPT !.pending = @ \cup {e}])
  /\ UNCHANGED <<queue, sent, expired, tasks, faults, notes>>

\* cmd_redeem_link_code: from here the remote side may send.
RedeemAtRelay(e) ==
  /\ link[e] = "none"
  /\ link' = [link EXCEPT ![e] = "active"]
  /\ redeeming' = redeeming \cup {e}
  /\ orphaned' = orphaned \cup {e}
  /\ UNCHANGED <<queue, sent, expired, state, disk, poll, reconcile, chat, removal,
                 faults, shown, overtaken, repeated>>

RedeemDone(e) ==
  /\ e \in redeeming
  /\ redeeming' = redeeming \ {e}
  /\ Store(Bind(state, e))
  /\ orphaned' = orphaned \ {e}
  /\ overtaken' = Overtaking(e)
  /\ UNCHANGED <<relay, poll, reconcile, chat, removal, faults, shown, repeated>>

\* The answer is lost.  The endpoint has a link: deleting it fails as well.
RedeemLost(e) ==
  /\ e \in redeeming /\ Fault
  /\ redeeming' = redeeming \ {e}
  /\ UNCHANGED <<relay, state, disk, poll, reconcile, chat, removal, notes>>

\* on_message and cmd_command: the binding is read before the await ...
ChatBegin(e) ==
  /\ chat = NoEndpoint /\ e \in state.bound \ state.severed
  /\ chat' = e
  /\ UNCHANGED <<relay, state, disk, redeeming, poll, reconcile, removal, faults, notes>>

\* ... and written back after it, unless the send has failed.
ChatEnd(ok) ==
  /\ chat # NoEndpoint
  /\ chat' = NoEndpoint
  /\ IF ok THEN Store([state EXCEPT !.bound = @ \cup {chat}])
     ELSE UNCHANGED <<state, disk>>
  /\ UNCHANGED <<relay, redeeming, poll, reconcile, removal, faults, notes>>

DeleteConfirmed(e) ==
  /\ removal.pc = "idle" /\ e \in state.bound
  /\ removal' = [pc |-> "revoke", endpoint |-> e]
  /\ UNCHANGED <<relay, state, disk, redeeming, poll, reconcile, chat, faults, notes>>

Removing(pc) == removal' = [removal EXCEPT !.pc = pc]

\* Both requests may fail; the contact is deleted all the same.
DeleteRevoke ==
  /\ removal.pc = "revoke"
  /\ LET e == removal.endpoint
     IN \/ /\ link' = IF link[e] = "active" THEN [link EXCEPT ![e] = "revoked"] ELSE link
           /\ faults' = faults
        \/ link' = link /\ Fault
  /\ Removing(IF removal.endpoint \in state.pending THEN "finish" ELSE "endpoint")
  /\ UNCHANGED <<queue, sent, expired, state, disk, redeeming, poll, reconcile, chat, notes>>

DeleteHidden ==
  /\ removal.pc = "endpoint"
  /\ DeleteEndpoint(removal.endpoint)
  /\ Removing("finish")
  /\ UNCHANGED <<queue, sent, expired, state, disk, redeeming, poll, reconcile, chat, notes>>

DeleteBinding ==
  /\ removal.pc = "finish"
  /\ Store([state EXCEPT !.bound = @ \ {removal.endpoint}])
  /\ orphaned' = orphaned \cup {removal.endpoint}
  /\ removal' = [pc |-> "idle", endpoint |-> NoEndpoint]
  /\ UNCHANGED <<relay, redeeming, poll, reconcile, chat, faults, shown, overtaken, repeated>>

----------------------------------------------------------------------------
(* The inbox loop: one delivery after the other.                           *)

Polling == <<state, disk, redeeming, reconcile, chat, removal>>
Goto(pc) == poll' = [poll EXCEPT !.pc = pc]
IdlePoll == [pc |-> "idle", batch |-> {}, at |-> {}, links |-> {}]
\* poll.at holds the delivery in hand.
InHand(d) == poll.at = {d}
\* On with the batch.
Done == poll' = IF poll.batch = {} THEN IdlePoll
                ELSE [poll EXCEPT !.pc = "next", !.at = {}, !.links = {}]
\* An exception ends the batch; what is not acknowledged comes again.
Raise == poll' = IdlePoll

Fetch ==
  /\ poll.pc = "idle" /\ queue # {}
  /\ poll' = [IdlePoll EXCEPT !.pc = "next", !.batch = queue]
  /\ UNCHANGED <<relay, Polling, faults, notes>>

\* faulty: pending links are not looked at
UnlessBound(e) == IF e \in state.bound THEN "dm" ELSE "ack unknown"
Route(e) == IF e \in state.bound THEN "dm"
            ELSE IF e \in state.pending THEN "listing" ELSE "ack unknown"

HandleDelivery(d) ==
  /\ poll.pc = "next" /\ d \in poll.batch
  /\ poll' = [poll EXCEPT !.batch = @ \ {d}, !.at = {d},
                          !.pc = IF d \in state.seen THEN "ack" ELSE Route(d.endpoint)]
  /\ UNCHANGED <<relay, Polling, faults, notes>>

\* materialize_pending_binding: list_links is awaited.
ListLinks ==
  /\ poll.pc = "listing"
  /\ \/ poll' = [poll EXCEPT !.pc = "listed", !.links = ActiveLinks] /\ faults' = faults
     \/ Raise /\ Fault
  /\ UNCHANGED <<relay, Polling, notes>>

Materialize(d) ==
  /\ poll.pc = "listed" /\ InHand(d)
  /\ IF d.endpoint \in poll.links
     THEN /\ Store(Bind(state, d.endpoint))
          /\ overtaken' = Overtaking(d.endpoint)
          /\ Goto("dm")
     ELSE /\ UNCHANGED <<state, disk, overtaken>>
          /\ IF d.endpoint \in state.pending THEN Done ELSE Goto("ack unknown")
  /\ UNCHANGED <<relay, redeeming, reconcile, chat, removal, faults, shown, orphaned, repeated>>

\* send_user_dm; it may fail after the first part of a long message.
SendDm(d) ==
  /\ poll.pc = "dm" /\ InHand(d)
  /\ \/ /\ shown' = [shown EXCEPT ![d] = @ + 1]
        /\ Goto("remember")
        /\ UNCHANGED <<faults, repeated>>
     \/ /\ Fault /\ Raise
        /\ \/ shown' = [shown EXCEPT ![d] = @ + 1] /\ repeated' = repeated \cup {d}
           \/ UNCHANGED <<shown, repeated>>
  /\ UNCHANGED <<relay, Polling, orphaned, overtaken>>

\* faulty: nothing is entered
NotMarked(d) == state.seen
Marked(d) == state.seen \cup {d}

\* The binding read before the awaits is written back.
Remember(d) ==
  /\ poll.pc = "remember" /\ InHand(d)
  /\ Store([state EXCEPT !.bound = @ \cup {d.endpoint}, !.seen = Marked(d)])
  /\ Goto("ack")
  /\ UNCHANGED <<relay, redeeming, reconcile, chat, removal, faults, notes>>

\* ack_delivery; a delivery deleted with its endpoint is an error.
Ack(d) ==
  /\ poll.pc \in {"ack", "ack unknown"} /\ InHand(d)
  /\ \/ /\ queue' = queue \ {d} /\ faults' = faults
        /\ IF d \in queue THEN Done ELSE Raise
     \/ /\ queue' \in {queue, queue \ {d}} /\ Fault
        /\ Raise
  /\ UNCHANGED <<link, sent, expired, Polling, notes>>

----------------------------------------------------------------------------
(* The reconciliation loop.                                                *)

Reconciling == <<redeeming, poll, chat, removal>>
IdleReconcile == [pc |-> "idle", links |-> {}, todo |-> {}]
Turn(pc, todo) == reconcile' = [reconcile EXCEPT !.pc = pc, !.todo = todo]
Drop(e) == reconcile' = [reconcile EXCEPT !.todo = @ \ {e}]

ReconcileList ==
  /\ reconcile.pc = "idle"
  /\ reconcile' = [IdleReconcile EXCEPT !.pc = "prune", !.links = ActiveLinks]
  /\ UNCHANGED <<relay, state, disk, Reconciling, faults, notes>>

ExpiredPending == state.pending \cap expired

\* prune_expired_pending_links; nothing is saved yet.
Prune ==
  /\ reconcile.pc = "prune"
  /\ state' = [state EXCEPT !.pending = @ \ ExpiredPending]
  /\ orphaned' = orphaned \cup ExpiredPending
  /\ Turn("delete", ExpiredPending)
  /\ UNCHANGED <<relay, disk, Reconciling, faults, shown, overtaken, repeated>>

DeleteExpired(e) ==
  /\ reconcile.pc = "delete" /\ e \in reconcile.todo
  /\ IF e \in state.bound THEN UNCHANGED <<link, faults>> ELSE DeleteEndpoint(e)
  /\ Drop(e)
  /\ UNCHANGED <<queue, sent, expired, state, disk, Reconciling, notes>>

\* Pending links with a link become bindings, by the links listed before.
BindPending(e) ==
  /\ reconcile.pc = "bind" /\ e \in reconcile.todo
  /\ IF e \in state.pending \cap reconcile.links THEN Store(Bind(state, e))
     ELSE UNCHANGED <<state, disk>>
  /\ Drop(e)
  /\ UNCHANGED <<relay, Reconciling, faults, notes>>

\* faulty: every contact counts as unlinked
SeverAll == state.bound
\* Active bindings without an active link, by the links listed before.
Unlinked == (state.bound \ state.severed) \ reconcile.links

\* A binding deleted during the loop is written back, as severed.
Sever(e) ==
  /\ reconcile.pc = "sever" /\ e \in reconcile.todo
  /\ state' = [state EXCEPT !.severed = @ \cup {e}, !.bound = @ \cup {e}]
  /\ Drop(e)
  /\ UNCHANGED <<relay, disk, Reconciling, faults, notes>>

NextPhase ==
  /\ reconcile.todo = {}
  /\ \/ reconcile.pc = "delete" /\ Turn("bind", state.pending) /\ disk' = disk
     \/ reconcile.pc = "bind" /\ Turn("sever", Unlinked) /\ disk' = disk
     \/ reconcile.pc = "sever" /\ reconcile' = IdleReconcile /\ disk' = state
  /\ UNCHANGED <<relay, state, Reconciling, faults, notes>>

----------------------------------------------------------------------------
\* The process ends and is started again, with discord_state.json; without
\* anything if that was being written, for a file that does not parse is
\* taken for none.
AboutToSave ==
  \/ redeeming # {} \/ chat # NoEndpoint \/ removal.pc = "finish"
  \/ poll.pc \in {"listed", "remember"} \/ reconcile.pc \in {"bind", "sever"}

Restart(torn) ==
  /\ Fault
  /\ torn => AboutToSave
  /\ LET kept == IF torn THEN Empty ELSE disk IN
       /\ Store(kept)
       /\ orphaned' = orphaned \cup ((state.bound \cup state.pending) \ (kept.bound \cup kept.pending))
       /\ repeated' = repeated \cup (IF poll.pc = "remember" THEN poll.at ELSE {})
                               \cup (IF torn THEN state.seen ELSE {})
  /\ redeeming' = {} /\ poll' = IdlePoll /\ reconcile' = IdleReconcile
  /\ chat' = NoEndpoint /\ removal' = [pc |-> "idle", endpoint |-> NoEndpoint]
  /\ UNCHANGED <<relay, shown, overtaken>>

Init ==
  /\ link = [e \in Endpoint |-> "none"] /\ queue = {} /\ sent = [e \in Endpoint |-> 0]
  /\ expired = {} /\ state = Empty /\ disk = Empty
  /\ redeeming = {} /\ poll = IdlePoll /\ reconcile = IdleReconcile
  /\ chat = NoEndpoint /\ removal = [pc |-> "idle", endpoint |-> NoEndpoint]
  /\ faults = 0 /\ shown = [d \in Delivery |-> 0]
  /\ orphaned = {} /\ overtaken = {} /\ repeated = {}

PollStep == Fetch \/ ListLinks
            \/ \E d \in Delivery : HandleDelivery(d) \/ Materialize(d) \/ SendDm(d)
                                   \/ Remember(d) \/ Ack(d)
ReconcileStep == ReconcileList \/ Prune \/ NextPhase
                 \/ \E e \in Endpoint : DeleteExpired(e) \/ BindPending(e) \/ Sever(e)
RemovalStep == DeleteRevoke \/ DeleteHidden \/ DeleteBinding

Next ==
  \/ \E e \in Endpoint :
       \/ RemoteRedeem(e) \/ RemoteSend(e) \/ RemoteRevoke(e) \/ Expire(e)
       \/ RequestLinkCode(e) \/ RedeemAtRelay(e) \/ RedeemDone(e) \/ RedeemLost(e)
       \/ ChatBegin(e) \/ DeleteConfirmed(e)
  \/ \E ok \in BOOLEAN : ChatEnd(ok)
  \/ RemovalStep \/ PollStep \/ ReconcileStep
  \/ \E torn \in BOOLEAN : Restart(torn)

Spec == Init /\ [][Next]_vars

\* Both loops run for ever, and awaited calls return.
FairSpec ==
  /\ Spec
  /\ WF_vars(PollStep) /\ WF_vars(ReconcileStep) /\ WF_vars(RemovalStep)
  /\ WF_vars(\E ok \in BOOLEAN : ChatEnd(ok))
  /\ \A e \in Endpoint : WF_vars(RedeemDone(e) \/ RedeemLost(e))

----------------------------------------------------------------------------
TypeOK ==
  /\ link \in [Endpoint -> {"none", "code", "active", "revoked", "deleted"}]
  /\ queue \subseteq Delivery /\ sent \in [Endpoint -> 0 .. MaxDeliveries]
  /\ expired \subseteq Endpoint /\ state \in BridgeState /\ disk \in BridgeState
  /\ redeeming \subseteq Endpoint
  /\ poll \in [pc : Task, batch : SUBSET Delivery, at : SUBSET Delivery, links : SUBSET Endpoint]
  /\ reconcile \in [pc : {"idle", "prune", "delete", "bind", "sever"},
                    links : SUBSET Endpoint, todo : SUBSET Endpoint]
  /\ chat \in Endpoint \cup {NoEndpoint}
  /\ removal \in [pc : {"idle", "revoke", "endpoint", "finish"},
                  endpoint : Endpoint \cup {NoEndpoint}]
  /\ faults \in 0 .. MaxFaults /\ shown \in [Delivery -> 0 .. MaxFaults + 1]
  /\ orphaned \subseteq Endpoint /\ overtaken \subseteq Endpoint /\ repeated \subseteq Delivery

\* A delivery leaves the queue unseen only if it was taken for an unknown one,
\* and it is taken for one only if the bridge has lost its contact: the user
\* deleted it, its pending link was pruned (a code redeemed shortly before it
\* expires), the state file or the answer to the redemption was lost, or the
\* redemption is still on its way.  Or the link is gone.
AckedForAReason ==
  [][/\ \A d \in queue \ queue' : shown[d] > 0 \/ poll.pc = "ack unknown"
     /\ poll.pc # "ack unknown" /\ poll'.pc = "ack unknown" =>
          \A d \in poll'.at : d.endpoint \in orphaned \/ link[d.endpoint] # "active"]_vars

\* A delivery is shown twice only if Discord failed in the middle of it, the
\* process ended before it was saved as seen, or the state was lost.
ShownAgainForAReason == \A d \in Delivery : shown[d] > 1 => d \in repeated

\* A contact is severed while its link is active only if it was made while a
\* reconciliation had already listed the links.
SeveredForAReason ==
  \A e \in state.bound \cap state.severed : link[e] = "active" => e \in overtaken

\* Whatever the poll loop, the reconciliation and the commands do to the one
\* state object between their awaits, it keeps its type and repeats nothing.
BridgeInv == TypeOK /\ ShownAgainForAReason

\* A contact whose link is gone is marked so in the end, whatever coroutine
\* writes an older copy of it back.
StaleContactsSettle ==
  \A e \in Endpoint :
    (link[e] \in {"revoked", "deleted"} /\ e \in state.bound \ state.severed)
      ~> e \notin state.bound \ state.severed

\* A code that was redeemed becomes a contact, unless it expires, is revoked or
\* lost first.
RedeemedCodesBind ==
  \A e \in Endpoint :
    (e \in state.pending /\ link[e] = "active")
      ~> (e \in state.bound \/ e \in orphaned \/ link[e] # "active")
=============================================================================
