------------------------------ MODULE GuiClient ------------------------------
(***************************************************************************)
(* The desktop client (arqs_messages_gui.py): the user interface thread    *)
(* and its queue, the threads of run_bg and of active polling, the files   *)
(* it keeps, and the relay as far as the client depends on it.  A node has *)
(* one contact.                                                            *)
(***************************************************************************)
EXTENDS Naturals, Sequences, FiniteSets, SequencesExt

CONSTANTS
  Message,         \* messages the contact sends, each at most once to a node
  MaxNodes,        \* bound: identities the user registers
  Job,             \* bound: threads of run_bg at a time
  Poller,          \* bound: polling threads at a time
  MaxOps,          \* bound: commands the user gives
  MaxFaults        \* bound: failed requests, raising callbacks and restarts

ASSUME GuiAssumption ==
  /\ MaxNodes \in Nat \ {0} /\ MaxOps \in Nat /\ MaxFaults \in Nat
  /\ \A S \in {Job, Poller} : S # {} /\ IsFiniteSet(S) /\ S = 1 .. Cardinality(S)

Node == 1 .. MaxNodes
None == 0
Delivery == [node : Node, message : Message]
Command == {"refresh", "poll", "sever", "delete", "register", "redeem"}
\* A thread: the client it uses, deliveries to acknowledge, those it has, and
\* the status of the link it was told.
Thread == [kind : Command \cup {"free", "poller"}, pc : {"call", "ack", "put"},
           node : Node \cup {None}, todo : SUBSET Delivery, items : SUBSET Delivery,
           told : {"none", "active", "revoked"}]
Free == [kind |-> "free", pc |-> "call", node |-> None, todo |-> {}, items |-> {}, told |-> "none"]
Polling == [Free EXCEPT !.kind = "poller"]
\* An entry of ui_queue.
Entry(kind, t) == [kind |-> kind, node |-> t.node, items |-> t.items, told |-> t.told]
Busy == Entry("busy", Free)
Idle == Entry("idle", Free)

VARIABLES
  live, link, queue, sent,        \* the relay: nodes, their links, deliveries
  identity, seenFile,             \* identity.json, seen_deliveries.json
  client,                         \* the identity of self.client
  known,                          \* the node whose endpoints the window lists
  seen, history, record,          \* seen_deliveries, messages, links
  polling,                        \* active_polling
  stop,                           \* poll_stop
  busy, uiq,                      \* busy_count, ui_queue
  modal,                          \* a message box is open
  saving,                         \* the messages are saved, seen is not
  jobs, pollers,                  \* the threads
  ops, faults,
  lost, deleted,                  \* deliveries lost by the window, or by the user
  overtaken,                      \* severed while older answers were under way
  gone                            \* deleted while no answer was under way

vars == <<live, link, queue, sent, identity, seenFile, client, known, seen, history,
          record, polling, stop, busy, uiq, modal, saving, jobs, pollers, ops, faults,
          lost, deleted, overtaken, gone>>
relay == <<live, link, queue, sent>>
disk == <<identity, seenFile>>
views == <<seen, history, record>>
flags == <<polling, stop>>
window == <<known, modal>>
notes == <<lost, deleted, overtaken, gone>>

Of(n) == {d \in queue : d.node = n}
Fault == faults < MaxFaults /\ faults' = faults + 1
Threads == {jobs[j] : j \in Job} \cup {pollers[p] : p \in Poller}
\* Answers a thread holds or has put in the queue.
Answers == {[Entry(t.kind, t) EXCEPT !.items = @ \cup t.todo] : t \in Threads} \cup Range(uiq)
InHand == UNION {a.items : a \in Answers}
\* An answer that shows the contact as linked.
Lists(n) ==
  \E a \in Answers : a.kind \in {"refresh", "redeem"} /\ a.node = n /\ a.told = "active"

----------------------------------------------------------------------------
(* The contact.                                                            *)

RemoteSend(d) ==
  /\ d.node \in live /\ link[d.node] = "active" /\ d \notin sent
  /\ sent' = sent \cup {d} /\ queue' = queue \cup {d}
  /\ UNCHANGED <<live, link, disk, client, window, views, flags, busy, uiq, saving, jobs,
                 pollers, ops, faults, notes>>

----------------------------------------------------------------------------
(* Commands of the user.  Each but register_node takes the identity from   *)
(* the file again (require_client), if there is one.                       *)

Loaded == IF identity # None THEN identity ELSE client

\* run_bg: a thread is started, and says so.
RunBg(kind, n, q) ==
  \E j \in Job :
    /\ jobs[j] = Free /\ \A i \in Job : i < j => jobs[i] # Free
    /\ jobs' = [jobs EXCEPT ![j] = [Free EXCEPT !.kind = kind, !.node = n]]
    /\ uiq' = Append(q, Busy)

\* An open message box takes the window's input.  A command is two of MaxOps.
Ask(cost) == ~saving /\ ~modal /\ ops + cost <= MaxOps /\ ops' = ops + cost

Start(kind) ==
  /\ Ask(2)
  /\ kind = "sever" => record[Loaded] = "server"
  /\ kind = "redeem" => link[Loaded] = "none"
  /\ client' = Loaded
  /\ RunBg(kind, Loaded, uiq)
  /\ UNCHANGED <<relay, disk, window, views, flags, busy, saving, pollers, faults, notes>>

GiveCommand == \E kind \in Command \ {"register"} : Loaded # None /\ Start(kind)

\* register_node does without the saved identity.
RegisterNode ==
  /\ Ask(2)
  /\ Cardinality({j \in Job : jobs[j].kind = "register" /\ jobs[j].node = None})
       < Cardinality({n \in Node : link[n] = "unused"})
  /\ client' = None
  /\ RunBg("register", None, uiq)
  /\ UNCHANGED <<relay, disk, window, views, flags, busy, saving, pollers, faults, notes>>

\* delete_message_history.
DeleteHistory(n) ==
  /\ Ask(2) /\ (record[n] # "none" \/ \E d \in Delivery : d.node = n /\ history[d] > 0)
  /\ history' = [d \in Delivery |-> IF d.node = n THEN 0 ELSE history[d]]
  /\ deleted' = deleted \cup {d \in Delivery : d.node = n /\ history[d] > 0}
  /\ record' = [record EXCEPT ![n] = IF @ \in {"stub", "severed"} THEN "none" ELSE @]
  /\ UNCHANGED <<relay, disk, client, window, seen, flags, busy, uiq, saving, jobs, pollers,
                 faults, lost, overtaken, gone>>

\* _start_poll_thread sets poll_stop and clears it again at once: a thread that
\* waits for the inbox does not notice.
StartPolling ==
  /\ stop' = FALSE /\ polling' = TRUE
  /\ \E p \in Poller : /\ pollers[p] = Free /\ \A i \in Poller : i < p => pollers[i] # Free
                       /\ pollers' = [pollers EXCEPT ![p] = Polling]

\* faulty: the flag is left alone
PollOn == stop
\* _stop_poll_thread.
PollOff == TRUE

\* toggle_active_polling.
Toggle ==
  /\ Ask(1)
  /\ \/ ~polling /\ StartPolling
     \/ polling /\ polling' = FALSE /\ stop' = PollOff /\ pollers' = pollers
  /\ UNCHANGED <<relay, disk, client, window, views, busy, uiq, saving, jobs, faults, notes>>

----------------------------------------------------------------------------
(* The threads of run_bg.                                                  *)

Goto(j, pc) == jobs' = [jobs EXCEPT ![j].pc = pc]
Others == <<disk, client, window, views, flags, busy, saving, pollers, ops, notes>>

\* The callback and then "idle".
Put(j) ==
  /\ jobs[j].kind # "free" /\ jobs[j].pc = "put" /\ jobs[j].kind # "register"
  /\ uiq' = uiq \o <<Entry(jobs[j].kind, jobs[j]), Idle>>
  /\ jobs' = [jobs EXCEPT ![j] = Free]
  /\ UNCHANGED <<relay, Others, faults>>

\* faulty: "idle" is put after a success only
Silent(j) == jobs' = [jobs EXCEPT ![j] = Free] /\ uiq' = Append(uiq, Entry("error", Free))
\* An exception is to be shown in a message box.
Except(j) ==
  jobs' = [jobs EXCEPT ![j] = Free] /\ uiq' = uiq \o <<Entry("error", Free), Idle>>
Call(j, kind) == jobs[j].kind = kind /\ jobs[j].pc = "call"
Answered(j) == jobs[j].node \in live

\* The next identity that the relay gives out.
Fresh(n) == link[n] = "unused" /\ \A i \in Node : i < n => link[i] # "unused"

\* What the relay does with the requests that change it.
Revokes(n)   == link' = [link EXCEPT ![n] = "revoked"] /\ UNCHANGED <<live, queue>>
Redeems(n)   == /\ link[n] = "none" /\ link' = [link EXCEPT ![n] = "active"]
                /\ UNCHANGED <<live, queue>>
Deletes(n)   == live' = live \ {n} /\ queue' = queue \ Of(n) /\ link' = link
Registers(n) == /\ Fresh(n) /\ live' = live \cup {n} /\ link' = [link EXCEPT ![n] = "none"]
                /\ queue' = queue

\* The answer is lost after the relay has acted.
Acted(j) ==
  \/ jobs[j].kind = "sever" /\ Answered(j) /\ Revokes(jobs[j].node)
  \/ jobs[j].kind = "redeem" /\ Answered(j) /\ Redeems(jobs[j].node)
  \/ jobs[j].kind = "delete" /\ Answered(j) /\ Deletes(jobs[j].node)
  \/ jobs[j].kind = "register" /\ \E n \in Node : Registers(n)

\* The node is gone, or the code has been redeemed.
Refused(j) ==
  \/ jobs[j].kind # "register" /\ ~Answered(j)
  \/ jobs[j].kind = "redeem" /\ link[jobs[j].node] # "none"

\* The request fails, before or after the relay has acted on it.  sever_link's
\* job catches the exception and returns it.
Failed(j) ==
  /\ jobs[j].kind # "free" /\ jobs[j].pc = "call"
  /\ \/ Refused(j) /\ UNCHANGED <<live, link, queue, faults>>
     \/ Fault /\ (UNCHANGED <<live, link, queue>> \/ Acted(j))
  /\ IF jobs[j].kind = "sever" THEN Goto(j, "put") /\ uiq' = uiq ELSE Except(j)
  /\ UNCHANGED <<sent, Others>>

Told(j, status) == jobs' = [jobs EXCEPT ![j].pc = "put", ![j].told = status]

Refresh(j) ==
  /\ Call(j, "refresh") /\ Answered(j)
  /\ Told(j, link[jobs[j].node])
  /\ UNCHANGED <<relay, uiq, Others, faults>>

Revoke(j) ==
  /\ Call(j, "sever") /\ Answered(j)
  /\ Revokes(jobs[j].node) /\ Told(j, "revoked")
  /\ UNCHANGED <<sent, uiq, Others, faults>>

Redeem(j) ==
  /\ Call(j, "redeem") /\ Answered(j)
  /\ Redeems(jobs[j].node) /\ Told(j, "active")
  /\ UNCHANGED <<sent, uiq, Others, faults>>

DeleteIdentity(j) ==
  /\ Call(j, "delete") /\ Answered(j)
  /\ Deletes(jobs[j].node) /\ Goto(j, "put")
  /\ UNCHANGED <<sent, uiq, Others, faults>>

RegisterCall(j) ==
  /\ Call(j, "register")
  /\ \E n \in Node : /\ Registers(n)
                     /\ jobs' = [jobs EXCEPT ![j].pc = "put", ![j].node = n]
  /\ UNCHANGED <<sent, uiq, Others, faults>>

\* The thread itself saves the identity; the client has adopted it.
RegisterSave(j) ==
  /\ jobs[j].kind = "register" /\ jobs[j].pc = "put"
  /\ identity' = jobs[j].node /\ client' = jobs[j].node
  /\ uiq' = uiq \o <<Entry("register", jobs[j]), Idle>>
  /\ jobs' = [jobs EXCEPT ![j] = Free]
  /\ UNCHANGED <<relay, seenFile, window, views, flags, busy, saving, pollers, ops, faults,
                 notes>>

----------------------------------------------------------------------------
(* _fetch_inbox_items_with_ack, in a job or in a polling thread.           *)

Fetched(t) == [t EXCEPT !.pc = "ack", !.todo = Of(t.node)]
\* faulty: deliveries that were not acknowledged are not shown
AckedOnly(t, d, ok) == [t EXCEPT !.todo = @ \ {d}, !.items = IF ok THEN @ \cup {d} ELSE @]
\* A failed ACK is logged; the item goes on to the window.
Acked(t, d, ok) == [t EXCEPT !.todo = @ \ {d}, !.items = @ \cup {d}]
AckNow(d, ok) ==
  \/ ok /\ queue' = queue \ {d} /\ faults' = faults
  \/ ~ok /\ queue' \in {queue, queue \ {d}} /\ Fault

FetchOnce(j) ==
  /\ Call(j, "poll") /\ Answered(j)
  /\ jobs' = [jobs EXCEPT ![j] = Fetched(jobs[j])]
  /\ UNCHANGED <<relay, uiq, Others, faults>>

AckOnce(j) ==
  /\ jobs[j].pc = "ack"
  /\ IF jobs[j].todo = {} THEN Goto(j, "put") /\ UNCHANGED <<queue, faults>>
     ELSE \E d \in jobs[j].todo, ok \in BOOLEAN :
            AckNow(d, ok) /\ jobs' = [jobs EXCEPT ![j] = Acked(jobs[j], d, ok)]
  /\ UNCHANGED <<live, link, sent, uiq, Others>>

Polls == <<live, link, sent, disk, client, window, views, flags, busy, saving, jobs, ops, notes>>

\* _poll_loop: nothing is fetched while a command runs.
PollBegin(p) ==
  /\ pollers[p].kind = "poller" /\ pollers[p].pc = "call" /\ pollers[p].node = None
  /\ \/ stop /\ pollers' = [pollers EXCEPT ![p] = Free]
     \/ ~stop /\ busy = 0 /\ client # None
        /\ pollers' = [pollers EXCEPT ![p].node = client]
  /\ UNCHANGED <<Polls, queue, uiq, faults>>

Again(p) == pollers' = [pollers EXCEPT ![p] = Polling]

\* An empty answer or an error: once more.
PollFetch(p) ==
  /\ pollers[p].pc = "call" /\ pollers[p].node # None
  /\ IF Of(pollers[p].node) = {} THEN Again(p)
     ELSE pollers' = [pollers EXCEPT ![p] = Fetched(pollers[p])]
  /\ UNCHANGED <<Polls, queue, uiq, faults>>

PollAck(p) ==
  /\ pollers[p].pc = "ack"
  /\ \E d \in pollers[p].todo, ok \in BOOLEAN :
       AckNow(d, ok) /\ pollers' = [pollers EXCEPT ![p] = Acked(pollers[p], d, ok)]
  /\ UNCHANGED <<Polls, uiq>>

PollPut(p) ==
  /\ pollers[p].pc = "ack" /\ pollers[p].todo = {}
  /\ uiq' = Append(uiq, Entry("poller", pollers[p]))
  /\ Again(p)
  /\ UNCHANGED <<Polls, queue, faults>>

----------------------------------------------------------------------------
(* _process_ui_queue: one entry after the other.  A message box is opened  *)
(* by the callback itself: no entry is taken until somebody closes it.     *)

Showing(kinds) == ~saving /\ ~modal /\ uiq # <<>> /\ Head(uiq).kind \in kinds

Count ==
  /\ Showing({"busy", "idle"})
  /\ busy' = IF Head(uiq).kind = "busy" THEN busy + 1 ELSE IF busy = 0 THEN 0 ELSE busy - 1
  /\ uiq' = Tail(uiq)
  /\ UNCHANGED <<relay, disk, client, window, views, flags, saving, jobs, pollers, ops,
                 faults, notes>>

\* _handle_error; an error of polling is shown without a box.
ShowError ==
  /\ Showing({"error"})
  /\ modal' = TRUE /\ uiq' = Tail(uiq)
  /\ UNCHANGED <<relay, disk, client, known, views, flags, busy, saving, jobs, pollers, ops,
                 faults, notes>>

\* By a person.
CloseBox ==
  /\ modal /\ modal' = FALSE
  /\ UNCHANGED <<relay, disk, client, known, views, flags, busy, uiq, saving, jobs, pollers,
                 ops, faults, notes>>

\* faulty: every item is appended
EveryItem(items) == items
\* Neither in seen_deliveries nor, for _append_message, in message_index.
ToAppend(items) == {d \in items \ seen : history[d] = 0}

\* _handle_incoming_message_item: what is seen, appended and given a record.
Take(got, appended, filed) ==
  /\ seen' = seen \cup got
  /\ history' = [d \in Delivery |-> IF d \in ToAppend(appended) THEN history[d] + 1
                                    ELSE history[d]]
  /\ record' = [n \in Node |-> IF record[n] = "none" /\ \E d \in filed : d.node = n
                               THEN "stub" ELSE record[n]]
  /\ uiq' = Tail(uiq)
  /\ UNCHANGED <<relay, disk, client, window, flags, busy, jobs, pollers, ops, deleted,
                 overtaken, gone>>

\* Each message is saved at once, the set of seen deliveries after the last; then
\* follows a refresh.
Receive ==
  /\ Showing({"poller", "poll"})
  /\ LET new == Head(uiq).items \ seen IN
       /\ Take(new, Head(uiq).items, new)
       /\ saving' = (new # {} \/ Head(uiq).kind = "poll")
  /\ UNCHANGED <<faults, lost>>

\* The callback raises at an item, which counts as seen and may have got its
\* message and its record: the items after it are dropped, nothing is saved.
ReceiveRaises ==
  /\ Showing({"poller", "poll"}) /\ Fault
  /\ LET new == Head(uiq).items \ seen IN
     \E before \in SUBSET new : \E d \in new \ before :
       \E appended, filed \in {before, before \cup {d}} :
         /\ filed \subseteq appended
         /\ Take(before \cup {d}, appended, filed)
         /\ lost' = lost \cup ({d} \ appended) \cup (new \ (before \cup {d} \cup queue))
  /\ saving' = FALSE

SaveSeen ==
  /\ saving
  /\ seenFile' = seen /\ saving' = FALSE
  /\ client' = Loaded
  /\ RunBg("refresh", Loaded, uiq)
  /\ UNCHANGED <<relay, identity, window, views, flags, busy, pollers, ops, faults, notes>>

\* faulty: the status of a listed link is not looked at
AnyStatus(n, told) ==
  [i \in Node |-> IF i = n /\ told # "none" THEN "server"
                  ELSE IF record[i] = "server" THEN "none" ELSE record[i]]
\* _rebuild_server_link_records: records the relay does not list go, but for
\* those of the client's own making.
Rebuilt(n, told) ==
  [i \in Node |-> IF i = n /\ told = "active" THEN "server"
                  ELSE IF record[i] = "server" THEN "none" ELSE record[i]]

ShowLinks ==
  /\ Showing({"refresh"})
  /\ known' = Head(uiq).node
  /\ record' = Rebuilt(Head(uiq).node, Head(uiq).told)
  /\ uiq' = Tail(uiq)
  /\ UNCHANGED <<relay, disk, client, modal, seen, history, flags, busy, saving, jobs,
                 pollers, ops, faults, notes>>

\* _upsert_link_record: the record of a redeemed link is written if the endpoint
\* it was bound to is in the list, which one made for it may not be yet.
Upserted(n) == {record} \cup {[record EXCEPT ![n] = "server"] : i \in {known} \cap {n}}

\* Callbacks that end in a refresh.
Refreshing ==
  /\ Showing({"redeem", "register"})
  /\ IF Head(uiq).kind = "redeem" THEN record' \in Upserted(Head(uiq).node)
     ELSE record' = record
  /\ client' = Loaded
  /\ RunBg("refresh", Loaded, Tail(uiq))
  /\ UNCHANGED <<relay, disk, window, seen, history, flags, busy, saving, pollers, ops,
                 faults, notes>>

\* _mark_link_severed_local.
MarkSevered(n) == [record EXCEPT ![n] = IF @ = "none" THEN @ ELSE "severed"]

\* The link is severed, or a box says that it is not.
ShowSevered ==
  /\ Showing({"sever"})
  /\ LET n == Head(uiq).node IN
       \/ /\ Head(uiq).told = "revoked"
          /\ record' = MarkSevered(n) /\ modal' = modal
          /\ overtaken' = overtaken \cup {i \in {n} : Lists(i)}
       \/ /\ Head(uiq).told = "none"
          /\ modal' = TRUE /\ UNCHANGED <<record, overtaken>>
  /\ uiq' = Tail(uiq)
  /\ UNCHANGED <<relay, disk, client, known, seen, history, flags, busy, saving, jobs,
                 pollers, ops, faults, lost, deleted, gone>>

\* delete_node's done: polling stops, the identity file and all local state go, and
\* a box says so.
ShowDeleted ==
  /\ Showing({"delete"})
  /\ polling' = FALSE /\ stop' = PollOff
  /\ identity' = None /\ client' = None /\ known' = None
  /\ seen' = {} /\ seenFile' = {} /\ history' = [d \in Delivery |-> 0]
  /\ record' = [n \in Node |-> "none"]
  /\ deleted' = deleted \cup {d \in Delivery : history[d] > 0}
  /\ gone' = gone \cup {n \in {Head(uiq).node} : ~Lists(n) /\ \A d \in InHand : d.node # n}
  /\ uiq' = Tail(uiq) /\ modal' = TRUE
  /\ UNCHANGED <<relay, busy, saving, jobs, pollers, ops, faults, lost, overtaken>>

\* The window is closed, or the process ends, and is started again.  A file of
\* seen deliveries that was being written is taken for an empty one.
Restart(torn) ==
  /\ Fault
  /\ torn => saving /\ seen # seenFile
  /\ client' = identity /\ known' = None /\ modal' = FALSE
  /\ seen' = IF torn THEN {} ELSE seenFile
  /\ seenFile' = seen'
  /\ lost' = lost \cup (InHand \ queue)
  /\ busy' = 0 /\ saving' = FALSE
  /\ jobs' = [j \in Job |-> IF j = 1 THEN [Free EXCEPT !.kind = "refresh", !.node = identity]
                            ELSE Free]
  /\ uiq' = <<Busy>>
  /\ stop' = FALSE
  /\ pollers' = [p \in Poller |-> IF p = 1 /\ polling THEN Polling ELSE Free]
  /\ UNCHANGED <<relay, identity, history, record, polling, ops, deleted, overtaken, gone>>

\* A window that has shown what it found at its start: no node, a node, or a node
\* and its contact.
Init ==
  /\ \E status \in {"unused", "none", "active"} :
       /\ link = [n \in Node |-> IF n = 1 THEN status ELSE "unused"]
       /\ live = {n \in {1} : status # "unused"}
       /\ identity = IF status = "unused" THEN None ELSE 1
       /\ record = [n \in Node |-> IF link[n] = "active" THEN "server" ELSE "none"]
  /\ known = identity /\ modal = FALSE
  /\ queue = {} /\ sent = {} /\ client = identity /\ seenFile = {} /\ seen = {}
  /\ history = [d \in Delivery |-> 0] /\ polling \in BOOLEAN /\ stop = FALSE
  /\ busy = 0 /\ uiq = <<>> /\ saving = FALSE /\ jobs = [j \in Job |-> Free]
  /\ pollers = [p \in Poller |-> IF p = 1 /\ polling THEN Polling ELSE Free]
  /\ ops = 0 /\ faults = 0 /\ lost = {} /\ deleted = {} /\ overtaken = {} /\ gone = {}

JobStep(j) == \/ Put(j) \/ Failed(j) \/ Refresh(j) \/ Revoke(j) \/ Redeem(j) \/ DeleteIdentity(j)
              \/ RegisterCall(j) \/ RegisterSave(j) \/ FetchOnce(j) \/ AckOnce(j)
PollStep(p) == PollBegin(p) \/ PollFetch(p) \/ PollAck(p) \/ PollPut(p)
UiStep == \/ Count \/ ShowError \/ Receive \/ ReceiveRaises \/ SaveSeen \/ ShowLinks
          \/ Refreshing \/ ShowSevered \/ ShowDeleted

Next ==
  \/ \E d \in Delivery : RemoteSend(d)
  \/ GiveCommand \/ RegisterNode \/ Toggle \/ \E n \in Node : DeleteHistory(n)
  \/ \E j \in Job : JobStep(j)
  \/ \E p \in Poller : PollStep(p)
  \/ UiStep \/ CloseBox
  \/ \E torn \in BOOLEAN : Restart(torn)

Spec == Init /\ [][Next]_vars

\* Requests return, and the window's queue is looked at every 100 ms, but for the
\* time a box is open: nobody need close it.
FairSpec ==
  /\ Spec /\ WF_vars(UiStep)
  /\ \A j \in Job : WF_vars(JobStep(j))
  /\ \A p \in Poller : WF_vars(PollStep(p))

----------------------------------------------------------------------------
TypeOK ==
  /\ live \subseteq Node /\ queue \subseteq Delivery /\ sent \subseteq Delivery
  /\ link \in [Node -> {"unused", "none", "active", "revoked"}]
  /\ {identity, client, known} \subseteq Node \cup {None} /\ modal \in BOOLEAN
  /\ seen \subseteq Delivery /\ seenFile \subseteq Delivery /\ history \in [Delivery -> Nat]
  /\ record \in [Node -> {"none", "server", "stub", "severed"}]
  /\ polling \in BOOLEAN /\ stop \in BOOLEAN /\ saving \in BOOLEAN
  /\ busy \in 0 .. Cardinality(Job) /\ ops \in 0 .. MaxOps /\ faults \in 0 .. MaxFaults
  /\ \A j \in Job : jobs[j] \in Thread
  /\ \A p \in Poller : pollers[p] \in Thread

\* busy_count, over which polling waits, is the number of commands at work:
\* none is counted that has ended, and none has ended before it is counted.
BusyIsBalanced ==
  busy + Cardinality({i \in DOMAIN uiq : uiq[i].kind = "busy"})
    = Cardinality({j \in Job : jobs[j] # Free})
      + Cardinality({i \in DOMAIN uiq : uiq[i].kind = "idle"})

\* A message is in the history once, however often its delivery is fetched:
\* by two polling threads, after a lost ACK, after a restart that forgot what
\* was seen.
ShownOnce == \A d \in Delivery : history[d] <= 1

\* However commands, polling threads and restarts interleave, the count of
\* commands at work is right and no message is shown twice.
GuiInv == TypeOK /\ BusyIsBalanced /\ ShownOnce

\* A delivery that has left the relay's queue is in the history or on its way
\* to it, unless the user deleted it or its node, the process ended first, or the
\* callback that was to show it raised.
AckedIsAccounted ==
  \A d \in sent : \/ d \in queue \/ history[d] > 0 \/ d \in InHand
                  \/ d \in lost \cup deleted \/ d.node \notin live

\* What the user removed stays away, unless an answer was under way, of a refresh or
\* of redeeming the code: a node that was deleted leaves no message and no contact,
\* and a contact that was severed is not listed as linked again.
RemovedStaysAway ==
  [][\A n \in Node :
       /\ n \in gone' => record'[n] = "none" /\ \A d \in Delivery : d.node = n => history'[d] = 0
       /\ record[n] = "severed" /\ record'[n] = "server" => n \in overtaken]_vars

\* Polling that is switched off ends in every thread, also one that was left
\* behind when polling was switched on again.
PollingEnds == ~polling ~> (polling \/ \A p \in Poller : pollers[p] = Free)

\* With polling on, a queued message is shown, whatever commands, errors and boxes
\* interrupt it, unless somebody leaves a box open for ever.
EventuallyShown ==
  []<>(~modal) =>
    \A d \in Delivery :
      (d \in queue /\ polling)
        ~> (\/ history[d] > 0 \/ d \in lost \cup deleted
            \/ ~polling \/ client # d.node \/ d.node \notin live)

\* ARQS_Messages_GUI_README.md: deliveries are acknowledged after they are
\* saved locally.
AckedIsSaved ==
  \A d \in sent : d \in queue \/ history[d] > 0 \/ d \in deleted \/ d.node \notin live
=============================================================================
