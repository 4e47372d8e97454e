-------------------------- MODULE GuiClient_proofs --------------------------
(***************************************************************************)
(* Proofs about the desktop client, for every number of nodes, messages,   *)
(* threads, commands and faults.                                           *)
(***************************************************************************)
EXTENDS GuiClient, Integers, FiniteSetTheorems, TLAPS

USE GuiAssumption DEF relay, disk, window, views, flags, notes

\* An exception to be shown.
Error == Entry("error", Free)

EntryType == [kind : Command \cup {"free", "poller", "busy", "idle", "error"},
              node : Node \cup {None}, items : SUBSET Delivery,
              told : {"none", "active", "revoked"}]

\* TypeOK, with the count of commands unbounded.
Typed ==
  /\ live \subseteq Node /\ queue \subseteq Delivery /\ sent \subseteq Delivery
  /\ link \in [Node -> {"unused", "none", "active", "revoked"}]
  /\ identity \in Node \cup {None} /\ client \in Node \cup {None}
  /\ known \in Node \cup {None} /\ modal \in BOOLEAN
  /\ seen \subseteq Delivery /\ seenFile \subseteq Delivery /\ history \in [Delivery -> Nat]
  /\ record \in [Node -> {"none", "server", "stub", "severed"}]
  /\ polling \in BOOLEAN /\ stop \in BOOLEAN /\ saving \in BOOLEAN
  /\ busy \in Nat /\ ops \in 0 .. MaxOps /\ faults \in 0 .. MaxFaults
  /\ jobs \in [Job -> Thread] /\ pollers \in [Poller -> Thread]
  /\ uiq \in Seq(EntryType)
  /\ lost \subseteq Delivery /\ deleted \subseteq Delivery
  /\ overtaken \subseteq Node /\ gone \subseteq Node
  /\ \A n \in live : link[n] # "unused"

\* What a job, a polling thread and an entry of the queue may be found in besides
\* their types, where the relay has the links lk and the nodes lv.
JobShape(t, lk, lv) ==
  /\ t.kind # "poller" /\ (t.kind = "free" => t = Free)
  /\ t.pc = "call" => t.items = {} /\ t.todo = {} /\ t.told = "none"
  /\ t.pc = "ack" => t.kind = "poll"
  /\ t.pc = "put" => t.todo = {}
  /\ t.items # {} => t.kind = "poll"
  /\ t.pc # "call" => t.node \in Node \/ t.kind = "sever"
  /\ t.kind = "sever" /\ t.told = "revoked" => t.node \in Node /\ lk[t.node] = "revoked"
  /\ t.kind = "redeem" /\ t.pc = "put" => t.told = "active"
  /\ t.kind = "delete" /\ t.pc = "put" => t.node \notin lv /\ lk[t.node] # "unused"

PollShape(t) ==
  /\ t.kind \in {"free", "poller"} /\ (t.kind = "free" => t = Free)
  /\ t.pc \in {"call", "ack"}
  /\ t.pc = "call" => t.items = {} /\ t.todo = {}

EntryShape(e, lk, lv) ==
  /\ e.items # {} => e.kind \in {"poll", "poller"}
  /\ e.kind \in {"refresh", "redeem", "delete"} => e.node \in Node
  /\ e.kind = "sever" /\ e.told = "revoked" => e.node \in Node /\ lk[e.node] = "revoked"
  /\ e.kind = "redeem" => e.told = "active"
  /\ e.kind = "delete" => e.node \notin lv /\ lk[e.node] # "unused"

ShapeInv ==
  /\ \A j \in Job : JobShape(jobs[j], link, live)
  /\ \A p \in Poller : PollShape(pollers[p])
  /\ \A i \in DOMAIN uiq : EntryShape(uiq[i], link, live)

----------------------------------------------------------------------------
(* The threads and the queue.                                              *)

LEMMA FreeTyped == /\ Free \in Thread /\ Polling \in Thread
                   /\ {Busy, Idle, Error} \subseteq EntryType
  BY DEF Free, Polling, Thread, Busy, Idle, Error, Entry, EntryType, Command

LEMMA EntryTyped == ASSUME NEW t \in Thread, NEW kind \in Command \cup {"poller"}
                    PROVE  Entry(kind, t) \in EntryType
  BY DEF Thread, Entry, EntryType, Command

\* Sequences of entries.
LEMMA Appended ==
  ASSUME NEW S, NEW s \in Seq(S), NEW e \in S, NEW t, t = Append(s, e)
  PROVE  /\ t \in Seq(S) /\ Len(t) = Len(s) + 1 /\ DOMAIN t = 1 .. Len(s) + 1
         /\ \A i \in 1 .. Len(s) : t[i] = s[i]
         /\ t[Len(s) + 1] = e
  OBVIOUS

LEMMA Tailed ==
  ASSUME NEW S, NEW s \in Seq(S), s # <<>>, NEW t, t = Tail(s)
  PROVE  /\ t \in Seq(S) /\ Len(t) = Len(s) - 1 /\ DOMAIN t = 1 .. Len(s) - 1
         /\ Len(s) \in Nat \ {0} /\ Head(s) = s[1] /\ s[1] \in S
         /\ \A i \in 1 .. Len(s) - 1 : t[i] = s[i + 1]
  OBVIOUS

LEMMA TwoAppended ==
  ASSUME NEW S, NEW s \in Seq(S), NEW a \in S, NEW b \in S
  PROVE  s \o <<a, b>> = Append(Append(s, a), b)
  OBVIOUS

LEMMA RunBgTyped ==
  ASSUME NEW kind \in Command, NEW n \in Node \cup {None}, NEW q \in Seq(EntryType),
         jobs \in [Job -> Thread], RunBg(kind, n, q)
  PROVE  jobs' \in [Job -> Thread] /\ uiq' \in Seq(EntryType)
<1>1. [Free EXCEPT !.kind = kind, !.node = n] \in Thread
  BY DEF Free, Thread, Command
<1> QED BY <1>1, FreeTyped DEF RunBg

----------------------------------------------------------------------------
(* Types.                                                                  *)

LEMMA TypedStart == Init => Typed
<1> SUFFICES ASSUME Init PROVE Typed
  OBVIOUS
<1>1. 1 \in Node
  BY DEF Node
<1>2. <<>> \in Seq(EntryType)
  OBVIOUS
<1>3. PICK status \in {"unused", "none", "active"} :
       /\ link = [n \in Node |-> IF n = 1 THEN status ELSE "unused"]
       /\ live = {n \in {1} : status # "unused"}
       /\ identity = IF status = "unused" THEN None ELSE 1
       /\ record = [n \in Node |-> IF link[n] = "active" THEN "server" ELSE "none"]
  BY DEF Init
<1>4. /\ live \subseteq Node /\ link \in [Node -> {"unused", "none", "active", "revoked"}]
      /\ identity \in Node \cup {None} /\ \A n \in live : link[n] # "unused"
      /\ record \in [Node -> {"none", "server", "stub", "severed"}]
  BY <1>1, <1>3
<1>5. jobs \in [Job -> Thread] /\ pollers \in [Poller -> Thread]
  BY FreeTyped DEF Init
<1>6. /\ queue = {} /\ sent = {} /\ client = identity /\ seenFile = {} /\ seen = {}
      /\ history \in [Delivery -> Nat] /\ busy = 0 /\ uiq = <<>> /\ ops = 0 /\ faults = 0
      /\ lost = {} /\ deleted = {} /\ overtaken = {} /\ gone = {}
      /\ known = identity /\ modal = FALSE
  BY DEF Init
<1>7. polling \in BOOLEAN /\ stop \in BOOLEAN /\ saving \in BOOLEAN /\ modal \in BOOLEAN
  BY DEF Init
<1>8. /\ queue \subseteq Delivery /\ sent \subseteq Delivery /\ seen \subseteq Delivery
      /\ seenFile \subseteq Delivery /\ lost \subseteq Delivery /\ deleted \subseteq Delivery
      /\ overtaken \subseteq Node /\ gone \subseteq Node /\ uiq \in Seq(EntryType)
      /\ busy \in Nat /\ ops \in 0 .. MaxOps /\ faults \in 0 .. MaxFaults
      /\ client \in Node \cup {None} /\ known \in Node \cup {None}
  BY <1>2, <1>4, <1>6
<1>9. history \in [Delivery -> Nat]
  BY <1>6
<1> HIDE DEF Thread, Delivery, EntryType, Node, None
<1> QED BY <1>4, <1>5, <1>7, <1>8, <1>9 DEF Typed

\* One thread goes on.
LEMMA JobGoesOn ==
  ASSUME jobs \in [Job -> Thread], NEW j \in Job, NEW pc \in {"call", "ack", "put"}, Goto(j, pc)
  PROVE  jobs' \in [Job -> Thread]
  BY DEF Goto, Thread

LEMMA ToldTyped ==
  ASSUME jobs \in [Job -> Thread], NEW j \in Job,
         NEW status \in {"none", "active", "revoked"}, Told(j, status)
  PROVE  jobs' \in [Job -> Thread]
<1>1. jobs' = [jobs EXCEPT ![j] = [jobs[j] EXCEPT !.pc = "put", !.told = status]]
  BY DEF Told
<1>2. [jobs[j] EXCEPT !.pc = "put", !.told = status] \in Thread
  BY DEF Thread
<1> QED BY <1>1, <1>2

\* What the relay does with a request keeps the types.
RelayTyped ==
  /\ live' \subseteq Node /\ queue' \subseteq Delivery
  /\ link' \in [Node -> {"unused", "none", "active", "revoked"}]
  /\ \A n \in live' : link'[n] # "unused"

LEMMA RelayActs ==
  ASSUME Typed, NEW n \in Node
  PROVE  /\ Revokes(n) => RelayTyped
         /\ Redeems(n) => RelayTyped
         /\ Deletes(n) => RelayTyped
         /\ Registers(n) => RelayTyped
  BY DEF Typed, RelayTyped, Revokes, Redeems, Deletes, Registers

LEMMA TypedJobs == ASSUME Typed, NEW j \in Job, JobStep(j), ShapeInv PROVE Typed'
<1> USE DEF Typed
<1>t. jobs[j] \in Thread
  OBVIOUS
<1>k. jobs[j].kind \in Command \cup {"free", "poller"} /\ JobShape(jobs[j], link, live)
  BY <1>t DEF Thread, ShapeInv
<1>f. Fault => faults' \in 0 .. MaxFaults
  BY DEF Fault
<1>r. \A n \in Node : /\ Revokes(n) => RelayTyped
                      /\ Redeems(n) => RelayTyped
                      /\ Deletes(n) => RelayTyped
                      /\ Registers(n) => RelayTyped
  BY RelayActs
<1>1. CASE Put(j)
  <2>1. jobs[j].kind \in Command
    BY <1>1, <1>k DEF Put, JobShape
  <2>2. Entry(jobs[j].kind, jobs[j]) \in EntryType
    BY <1>t, <2>1, EntryTyped
  <2>3. uiq' \in Seq(EntryType)
    BY <1>1, <2>2, FreeTyped DEF Put
  <2> QED BY <1>1, <2>3, FreeTyped DEF Put, Others
<1>2. CASE Failed(j)
  <2>1. uiq' \in Seq(EntryType) /\ jobs' \in [Job -> Thread]
    <3>1. CASE jobs[j].kind = "sever"
      BY <1>2, <3>1, JobGoesOn DEF Failed
    <3>2. CASE jobs[j].kind # "sever"
      <4>1. uiq' = uiq \o <<Error, Idle>> /\ jobs' = [jobs EXCEPT ![j] = Free]
        BY <1>2, <3>2 DEF Failed, Except, Error
      <4>2. uiq \in Seq(EntryType) /\ Error \in EntryType /\ Idle \in EntryType
        BY FreeTyped
      <4>3. uiq' \in Seq(EntryType)
        BY <4>1, <4>2
      <4> QED BY <4>1, <4>3, FreeTyped
    <3> QED BY <3>1, <3>2
  <2>2. RelayTyped
    <3>1. CASE Acted(j)
      BY <3>1, <1>r DEF Acted, Answered
    <3>2. CASE UNCHANGED <<live, link, queue>>
      BY <3>2 DEF RelayTyped
    <3> QED BY <1>2, <3>1, <3>2 DEF Failed
  <2>3. faults' \in 0 .. MaxFaults
    BY <1>2, <1>f DEF Failed
  <2> QED BY <1>2, <2>1, <2>2, <2>3 DEF Failed, Others, RelayTyped
<1>3. CASE Refresh(j)
  <2>1. jobs[j].node \in Node
    BY <1>3 DEF Refresh, Answered
  <2>2. link[jobs[j].node] \in {"none", "active", "revoked"}
    BY <1>3, <2>1 DEF Refresh, Answered
  <2>3. jobs' \in [Job -> Thread]
    BY <1>3, <2>2, ToldTyped DEF Refresh
  <2> QED BY <1>3, <2>3 DEF Refresh, Others
<1>4. CASE Revoke(j) \/ Redeem(j)
  <2>1. jobs' \in [Job -> Thread]
    BY <1>4, ToldTyped DEF Revoke, Redeem
  <2>2. RelayTyped
    BY <1>4, <1>r DEF Revoke, Redeem, Answered
  <2> QED BY <1>4, <2>1, <2>2 DEF Revoke, Redeem, Others, RelayTyped
<1>9. CASE DeleteIdentity(j)
  <2>1. jobs' \in [Job -> Thread]
    BY <1>9, JobGoesOn DEF DeleteIdentity
  <2>2. RelayTyped
    BY <1>9, <1>r DEF DeleteIdentity, Answered
  <2> QED BY <1>9, <2>1, <2>2 DEF DeleteIdentity, Others, RelayTyped
<1>5. CASE RegisterCall(j)
  <2>1. PICK n \in Node : Registers(n) /\ jobs' = [jobs EXCEPT ![j].pc = "put", ![j].node = n]
    BY <1>5 DEF RegisterCall
  <2>2. jobs' \in [Job -> Thread]
    <3>1. jobs' = [jobs EXCEPT ![j] = [jobs[j] EXCEPT !.pc = "put", !.node = n]]
      BY <2>1
    <3> QED BY <3>1, <1>t DEF Thread
  <2>3. RelayTyped
    BY <2>1, <1>r
  <2> QED BY <1>5, <2>2, <2>3 DEF RegisterCall, Others, RelayTyped
<1>6. CASE RegisterSave(j)
  <2>1. Entry("register", jobs[j]) \in EntryType
    BY <1>t, EntryTyped DEF Command
  <2>2. uiq' \in Seq(EntryType) /\ jobs[j].node \in Node
    BY <1>6, <1>k, <2>1, FreeTyped DEF RegisterSave, JobShape
  <2> QED BY <1>6, <2>2, FreeTyped DEF RegisterSave
<1>7. CASE FetchOnce(j)
  <2>1. Fetched(jobs[j]) \in Thread
    BY <1>t DEF Fetched, Thread, Of
  <2> QED BY <1>7, <2>1 DEF FetchOnce, Others
<1>8. CASE AckOnce(j)
  <2>1. CASE jobs[j].todo = {}
    BY <1>8, <2>1, JobGoesOn DEF AckOnce, Others
  <2>2. CASE jobs[j].todo # {}
    <3>1. PICK d \in jobs[j].todo, ok \in BOOLEAN :
            AckNow(d, ok) /\ jobs' = [jobs EXCEPT ![j] = Acked(jobs[j], d, ok)]
      BY <1>8, <2>2 DEF AckOnce
    <3>2. Acked(jobs[j], d, ok) \in Thread
      BY <1>t DEF Acked, Thread
    <3>3. queue' \subseteq Delivery /\ faults' \in 0 .. MaxFaults
      BY <3>1, <1>f DEF AckNow
    <3> QED BY <1>8, <3>1, <3>2, <3>3 DEF AckOnce, Others
  <2> QED BY <2>1, <2>2
<1> QED BY <1>1, <1>2, <1>3, <1>4, <1>5, <1>6, <1>7, <1>8, <1>9 DEF JobStep

LEMMA TypedPollers == ASSUME Typed, NEW p \in Poller, PollStep(p) PROVE Typed'
<1> USE DEF Typed
<1>t. pollers[p] \in Thread
  OBVIOUS
<1>f. Fault => faults' \in 0 .. MaxFaults
  BY DEF Fault
<1>1. CASE PollBegin(p)
  <2>1. pollers' \in [Poller -> Thread]
    <3>1. CASE pollers' = [pollers EXCEPT ![p] = Free]
      BY <3>1, FreeTyped
    <3>2. CASE pollers' = [pollers EXCEPT ![p].node = client]
      <4>1. pollers' = [pollers EXCEPT ![p] = [pollers[p] EXCEPT !.node = client]]
        BY <3>2
      <4> QED BY <4>1, <1>t DEF Thread
    <3> QED BY <1>1, <3>1, <3>2 DEF PollBegin
  <2> QED BY <1>1, <2>1 DEF PollBegin, Polls
<1>2. CASE PollFetch(p)
  <2>1. Fetched(pollers[p]) \in Thread
    BY <1>t DEF Fetched, Thread, Of
  <2>2. pollers' \in [Poller -> Thread]
    BY <1>2, <2>1, FreeTyped DEF PollFetch, Again
  <2> QED BY <1>2, <2>2 DEF PollFetch, Polls
<1>3. CASE PollAck(p)
  <2>1. PICK d \in pollers[p].todo, ok \in BOOLEAN :
          AckNow(d, ok) /\ pollers' = [pollers EXCEPT ![p] = Acked(pollers[p], d, ok)]
    BY <1>3 DEF PollAck
  <2>2. Acked(pollers[p], d, ok) \in Thread
    BY <1>t DEF Acked, Thread
  <2>3. queue' \subseteq Delivery /\ faults' \in 0 .. MaxFaults
    BY <2>1, <1>f DEF AckNow
  <2> QED BY <1>3, <2>1, <2>2, <2>3 DEF PollAck, Polls
<1>4. CASE PollPut(p)
  <2>1. uiq' \in Seq(EntryType)
    BY <1>4, <1>t, EntryTyped DEF PollPut
  <2>2. pollers' \in [Poller -> Thread]
    BY <1>4, FreeTyped DEF PollPut, Again
  <2> QED BY <1>4, <2>1, <2>2 DEF PollPut, Polls
<1> QED BY <1>1, <1>2, <1>3, <1>4 DEF PollStep

LEMMA TypedUser ==
  ASSUME Typed, GiveCommand \/ RegisterNode \/ Toggle \/ \E n \in Node : DeleteHistory(n)
  PROVE  Typed'
<1> USE DEF Typed
<1>ask. \A cost \in {1, 2} : Ask(cost) => ops' \in 0 .. MaxOps
  BY DEF Ask
<1>load. Loaded \in Node \cup {None}
  BY DEF Loaded
<1>1. ASSUME NEW kind \in Command, Start(kind) PROVE Typed'
  <2>1. jobs' \in [Job -> Thread] /\ uiq' \in Seq(EntryType)
    BY <1>1, <1>load, RunBgTyped DEF Start
  <2> QED BY <1>1, <1>ask, <1>load, <2>1 DEF Start
<1>2. CASE GiveCommand
  BY <1>1, <1>2 DEF GiveCommand
<1>3. CASE RegisterNode
  <2>1. jobs' \in [Job -> Thread] /\ uiq' \in Seq(EntryType)
    BY <1>3, RunBgTyped DEF RegisterNode, Command
  <2> QED BY <1>3, <1>ask, <2>1 DEF RegisterNode
<1>4. CASE Toggle
  <2>1. pollers' \in [Poller -> Thread]
    BY <1>4, FreeTyped DEF Toggle, StartPolling
  <2>2. polling' \in BOOLEAN /\ stop' \in BOOLEAN
    BY <1>4 DEF Toggle, StartPolling, PollOff
  <2> QED BY <1>4, <1>ask, <2>1, <2>2 DEF Toggle
<1>5. ASSUME NEW n \in Node, DeleteHistory(n) PROVE Typed'
  <2>1. history' \in [Delivery -> Nat] /\ record' \in [Node -> {"none", "server", "stub", "severed"}]
    BY <1>5 DEF DeleteHistory
  <2>2. deleted' \subseteq Delivery
    BY <1>5 DEF DeleteHistory
  <2> QED BY <1>5, <1>ask, <2>1, <2>2 DEF DeleteHistory
<1> QED BY <1>2, <1>3, <1>4, <1>5

\* The entry the window takes.
LEMMA Taken ==
  ASSUME Typed, NEW kinds, Showing(kinds)
  PROVE  /\ Head(uiq) \in EntryType /\ Head(uiq).kind \in kinds /\ Head(uiq) = uiq[1]
         /\ 1 \in DOMAIN uiq /\ Tail(uiq) \in Seq(EntryType)
<1>1. uiq \in Seq(EntryType) /\ uiq # <<>> /\ Head(uiq).kind \in kinds
  BY DEF Typed, Showing
<1> QED BY <1>1

\* What a raising callback does with the items: it gets at some of them, appends
\* and files some of these, and fails others.
Raises(items, got, appended, filed, failed) ==
  /\ items = Head(uiq).items /\ got \in SUBSET items
  /\ filed \subseteq appended /\ appended \subseteq got /\ got \cap seen = {}
  /\ Take(got, appended, filed)
  /\ lost' = lost \cup failed /\ failed \subseteq items
  /\ got \subseteq appended \cup lost'
  /\ items \subseteq seen \cup appended \cup lost' \cup queue

LEMMA RaisedAt ==
  ReceiveRaises => \E items, got, appended, filed, failed :
                     Raises(items, got, appended, filed, failed)
<1> SUFFICES ASSUME ReceiveRaises
             PROVE  \E items, got, appended, filed, failed :
                      Raises(items, got, appended, filed, failed)
  OBVIOUS
<1> DEFINE items == Head(uiq).items
           new == items \ seen
           Done(before, d, appended, filed) ==
             /\ filed \subseteq appended
             /\ Take(before \cup {d}, appended, filed)
             /\ lost' = lost \cup ({d} \ appended) \cup (new \ (before \cup {d} \cup queue))
<1>1. PICK before \in SUBSET new : \E d \in new \ before :
        \E appended, filed \in {before, before \cup {d}} : Done(before, d, appended, filed)
  BY DEF ReceiveRaises
<1>2. PICK d \in new \ before :
        \E appended, filed \in {before, before \cup {d}} : Done(before, d, appended, filed)
  BY <1>1
<1>3. PICK appended \in {before, before \cup {d}}, filed \in {before, before \cup {d}} :
        Done(before, d, appended, filed)
  BY <1>2
<1>4. PICK got : got = before \cup {d}
  OBVIOUS
<1>5. PICK failed : failed = ({d} \ appended) \cup (new \ (before \cup {d} \cup queue))
  OBVIOUS
<1>6. Raises(items, got, appended, filed, failed)
  BY <1>3, <1>4, <1>5 DEF Raises
<1> QED BY <1>6

LEMMA TypedWindow ==
  ASSUME Typed, ShapeInv, UiStep
  PROVE  Typed'
<1> USE DEF Typed
<1>load. Loaded \in Node \cup {None}
  BY DEF Loaded
<1>f. Fault => faults' \in 0 .. MaxFaults
  BY DEF Fault
<1>1. CASE Count
  <2>1. uiq' \in Seq(EntryType)
    BY <1>1, Taken DEF Count
  <2>2. busy' \in Nat
    BY <1>1 DEF Count
  <2> QED BY <1>1, <2>1, <2>2 DEF Count
<1>2. CASE Receive \/ ReceiveRaises
  <2>1. Head(uiq) \in EntryType /\ Tail(uiq) \in Seq(EntryType)
    BY <1>2, Taken DEF Receive, ReceiveRaises
  <2>2. Head(uiq).items \subseteq Delivery
    BY <2>1 DEF EntryType
  <2>3. ASSUME NEW got \in SUBSET Delivery, NEW appended, NEW filed, Take(got, appended, filed),
               saving' \in BOOLEAN, faults' \in 0 .. MaxFaults, lost' \subseteq Delivery
        PROVE  Typed'
    <3>1. seen' \subseteq Delivery /\ history' \in [Delivery -> Nat]
      BY <2>3 DEF Take
    <3>2. record' \in [Node -> {"none", "server", "stub", "severed"}]
      BY <2>3 DEF Take
    <3> QED BY <2>1, <2>3, <3>1, <3>2 DEF Take
  <2>4. CASE Receive
    BY <2>2, <2>3, <2>4 DEF Receive
  <2>5. CASE ReceiveRaises
    <3>1. PICK items, got, appended, filed, failed : Raises(items, got, appended, filed, failed)
      BY <2>5, RaisedAt
    <3>2. /\ lost' \subseteq Delivery /\ got \in SUBSET Delivery
          /\ Take(got, appended, filed)
      BY <2>2, <3>1 DEF Raises
    <3>3. saving' = FALSE /\ Fault
      BY <2>5 DEF ReceiveRaises
    <3>4. faults' \in 0 .. MaxFaults
      BY <1>f, <3>3
    <3> QED BY <2>3, <3>2, <3>3, <3>4
  <2> QED BY <1>2, <2>4, <2>5
<1>3. CASE SaveSeen
  <2>1. jobs' \in [Job -> Thread] /\ uiq' \in Seq(EntryType)
    BY <1>3, <1>load, RunBgTyped DEF SaveSeen, Command
  <2> QED BY <1>3, <1>load, <2>1 DEF SaveSeen
<1>4. CASE ShowLinks
  <2>1. /\ uiq' \in Seq(EntryType) /\ Head(uiq) \in EntryType
    BY <1>4, Taken DEF ShowLinks
  <2>2. record' \in [Node -> {"none", "server", "stub", "severed"}]
    BY <1>4 DEF ShowLinks, Rebuilt
  <2>3. known' \in Node \cup {None}
    BY <1>4, <2>1 DEF ShowLinks, EntryType
  <2> QED BY <1>4, <2>1, <2>2, <2>3 DEF ShowLinks
<1>5. CASE Refreshing
  <2>1. Tail(uiq) \in Seq(EntryType)
    BY <1>5, Taken DEF Refreshing
  <2>2. jobs' \in [Job -> Thread] /\ uiq' \in Seq(EntryType)
    BY <1>5, <2>1, <1>load, RunBgTyped DEF Refreshing, Command
  <2>3. record' \in [Node -> {"none", "server", "stub", "severed"}]
    BY <1>5 DEF Refreshing, Upserted
  <2> QED BY <1>5, <1>load, <2>2, <2>3 DEF Refreshing
<1>6. CASE ShowSevered
  <2>1. /\ uiq' \in Seq(EntryType) /\ EntryShape(Head(uiq), link, live) /\ Head(uiq).kind = "sever"
    BY <1>6, Taken DEF ShowSevered, ShapeInv
  <2>2. Head(uiq).told = "revoked" => Head(uiq).node \in Node
    BY <2>1 DEF EntryShape
  <2>3. record' \in [Node -> {"none", "server", "stub", "severed"}]
    BY <1>6 DEF ShowSevered, MarkSevered
  <2>4. overtaken' \subseteq Node /\ modal' \in BOOLEAN
    BY <1>6, <2>2 DEF ShowSevered
  <2> QED BY <1>6, <2>1, <2>3, <2>4 DEF ShowSevered
<1>7. CASE ShowDeleted
  <2>1. /\ uiq' \in Seq(EntryType) /\ EntryShape(Head(uiq), link, live) /\ Head(uiq).kind = "delete"
    BY <1>7, Taken DEF ShowDeleted, ShapeInv
  <2>2. Head(uiq).node \in Node
    BY <2>1 DEF EntryShape
  <2>3. gone' \subseteq Node /\ deleted' \subseteq Delivery
    BY <1>7, <2>2 DEF ShowDeleted
  <2>4. polling' \in BOOLEAN /\ stop' \in BOOLEAN
    BY <1>7 DEF ShowDeleted, PollOff
  <2> QED BY <1>7, <2>1, <2>3, <2>4 DEF ShowDeleted
<1>8. CASE ShowError
  <2>1. uiq' \in Seq(EntryType)
    BY <1>8, Taken DEF ShowError
  <2> QED BY <1>8, <2>1 DEF ShowError
<1> QED BY <1>1, <1>2, <1>3, <1>4, <1>5, <1>6, <1>7, <1>8 DEF UiStep

LEMMA TypedSteps == Typed /\ ShapeInv /\ [Next]_vars => Typed'
<1> SUFFICES ASSUME Typed, ShapeInv, [Next]_vars PROVE Typed'
  OBVIOUS
<1>1. ASSUME NEW d \in Delivery, RemoteSend(d) PROVE Typed'
  BY <1>1 DEF Typed, RemoteSend
<1>2. ASSUME NEW torn \in BOOLEAN, Restart(torn) PROVE Typed'
  <2> USE DEF Typed
  <2>1. faults' \in 0 .. MaxFaults
    BY <1>2 DEF Restart, Fault
  <2>2. seen' \subseteq Delivery /\ seenFile' \subseteq Delivery
    BY <1>2 DEF Restart
  <2>3. lost' \subseteq Delivery
    <3>1. lost' = lost \cup (InHand \ queue)
      BY <1>2 DEF Restart
    <3>2. InHand \subseteq Delivery
      <4>1. ASSUME NEW a \in Answers PROVE a.items \subseteq Delivery
        <5>1. CASE a \in Range(uiq)
          <6>1. a \in EntryType
            BY <5>1 DEF Range
          <6> QED BY <6>1 DEF EntryType
        <5>2. ASSUME NEW t \in Threads, a = [Entry(t.kind, t) EXCEPT !.items = @ \cup t.todo]
              PROVE  a.items \subseteq Delivery
          BY <5>2 DEF Threads, Thread, Entry
        <5> QED BY <4>1, <5>1, <5>2 DEF Answers
      <4> QED BY <4>1 DEF InHand
    <3> QED BY <3>1, <3>2
  <2>4. jobs' \in [Job -> Thread]
    <3>1. [Free EXCEPT !.kind = "refresh", !.node = identity] \in Thread
      BY DEF Free, Thread, Command
    <3> QED BY <1>2, <3>1, FreeTyped DEF Restart
  <2>5. uiq' \in Seq(EntryType)
    BY <1>2, FreeTyped DEF Restart
  <2>6. pollers' \in [Poller -> Thread]
    BY <1>2, FreeTyped DEF Restart
  <2> QED BY <1>2, <2>1, <2>2, <2>3, <2>4, <2>5, <2>6 DEF Restart
<1>4. CASE CloseBox
  BY <1>4 DEF CloseBox, Typed
<1>3. CASE UNCHANGED vars
  BY <1>3 DEF vars, Typed
<1> QED BY <1>1, <1>2, <1>3, <1>4, TypedJobs, TypedPollers, TypedUser, TypedWindow DEF Next

----------------------------------------------------------------------------
(* What threads and entries may hold.                                      *)

\* A link that was used stays used, a revoked one stays revoked, and a node that
\* is gone does not come back.
Moves(lk, lv, lkNext, lvNext) ==
  /\ \A n \in Node : lk[n] # "unused" => lkNext[n] # "unused"
  /\ \A n \in Node : lk[n] = "revoked" => lkNext[n] = "revoked"
  /\ \A n \in Node : n \in lvNext /\ n \notin lv => lk[n] = "unused"
RelayMoves == Moves(link, live, link', live')

LEMMA MovesKeep ==
  ASSUME NEW lk, NEW lv, NEW lkNext, NEW lvNext, Moves(lk, lv, lkNext, lvNext), NEW t
  PROVE  /\ JobShape(t, lk, lv) => JobShape(t, lkNext, lvNext)
         /\ EntryShape(t, lk, lv) => EntryShape(t, lkNext, lvNext)
  BY DEF JobShape, EntryShape, Moves

LEMMA RelaySteps == Typed /\ [Next]_vars => RelayMoves
<1> SUFFICES ASSUME Typed, [Next]_vars PROVE RelayMoves
  OBVIOUS
<1> USE DEF RelayMoves, Moves
<1>same. ASSUME UNCHANGED <<link, live>> PROVE RelayMoves
  BY <1>same
<1>1. ASSUME NEW j \in Job, JobStep(j) PROVE RelayMoves
  <2> DEFINE ActsOn(n) == Revokes(n) \/ Redeems(n) \/ Deletes(n) \/ Registers(n)
  <2>7. ASSUME NEW n, ActsOn(n) PROVE RelayMoves
    BY <2>7 DEF Revokes, Redeems, Deletes, Registers, Fresh, Typed
  <2> HIDE DEF RelayMoves
  <2>1. CASE Failed(j)
    BY <2>1, <2>7, <1>same DEF Failed, Acted
  <2>2. CASE Revoke(j)
    BY <2>2, <2>7 DEF Revoke
  <2>3. CASE Redeem(j)
    BY <2>3, <2>7 DEF Redeem
  <2>4. CASE DeleteIdentity(j)
    BY <2>4, <2>7 DEF DeleteIdentity
  <2>5. CASE RegisterCall(j)
    BY <2>5, <2>7 DEF RegisterCall
  <2>6. CASE Put(j) \/ Refresh(j) \/ RegisterSave(j) \/ FetchOnce(j) \/ AckOnce(j)
    BY <2>6, <1>same DEF Put, Refresh, RegisterSave, FetchOnce, AckOnce
  <2> QED BY <1>1, <2>1, <2>2, <2>3, <2>4, <2>5, <2>6 DEF JobStep
<1>2. CASE ~\E j \in Job : JobStep(j)
  <2>1. UNCHANGED <<link, live>>
    <3>1. ASSUME NEW d \in Delivery, RemoteSend(d) PROVE UNCHANGED <<link, live>>
      BY <3>1 DEF RemoteSend
    <3>2. CASE GiveCommand \/ RegisterNode \/ Toggle \/ \E n \in Node : DeleteHistory(n)
      BY <3>2 DEF GiveCommand, Start, RegisterNode, Toggle, DeleteHistory
    <3>3. ASSUME NEW p \in Poller, PollStep(p) PROVE UNCHANGED <<link, live>>
      BY <3>3 DEF PollStep, PollBegin, PollFetch, PollAck, PollPut, Polls
    <3>4. CASE UiStep
      BY <3>4 DEF UiStep, Count, ShowError, Receive, ReceiveRaises, Take, SaveSeen, ShowLinks,
                  Refreshing, ShowSevered, ShowDeleted
    <3>7. CASE CloseBox
      BY <3>7 DEF CloseBox
    <3>5. ASSUME NEW torn \in BOOLEAN, Restart(torn) PROVE UNCHANGED <<link, live>>
      BY <3>5 DEF Restart
    <3>6. CASE UNCHANGED vars
      BY <3>6 DEF vars
    <3> QED BY <1>2, <3>1, <3>2, <3>3, <3>4, <3>5, <3>6, <3>7 DEF Next
  <2> QED BY <2>1, <1>same
<1> QED BY <1>1, <1>2

LEMMA FreeShapes ==
  ASSUME NEW lk, NEW lv
  PROVE  /\ JobShape(Free, lk, lv) /\ PollShape(Free) /\ PollShape(Polling)
         /\ EntryShape(Busy, lk, lv) /\ EntryShape(Idle, lk, lv) /\ EntryShape(Error, lk, lv)
         /\ \A kind \in Command : \A n :
              JobShape([Free EXCEPT !.kind = kind, !.node = n], lk, lv)
  BY DEF JobShape, PollShape, EntryShape, Free, Polling, Busy, Idle, Error, Entry, Command

LEMMA ShapeStart == Init => ShapeInv
<1> SUFFICES ASSUME Init PROVE ShapeInv
  OBVIOUS
<1>1. uiq = <<>> /\ jobs = [j \in Job |-> Free]
      /\ \A p \in Poller : pollers[p] \in {Free, Polling}
  BY DEF Init
<1>2. DOMAIN uiq = {}
  BY <1>1
<1> QED BY <1>1, <1>2, FreeShapes DEF ShapeInv

\* Where one thread has gone on, and entries were added or taken, each alike.
LEMMA ShapeBy ==
  ASSUME Typed, ShapeInv, RelayMoves,
         \A j \in Job : jobs'[j] = jobs[j] \/ JobShape(jobs'[j], link', live'),
         \A p \in Poller : pollers'[p] = pollers[p] \/ PollShape(pollers'[p]),
         \A i \in DOMAIN uiq' : \/ \E k \in DOMAIN uiq : uiq'[i] = uiq[k]
                                \/ EntryShape(uiq'[i], link', live')
  PROVE  ShapeInv'
<1>1. \A j \in Job : JobShape(jobs'[j], link', live')
  BY MovesKeep DEF RelayMoves, ShapeInv
<1>2. \A p \in Poller : PollShape(pollers'[p])
  BY DEF ShapeInv
<1>3. \A i \in DOMAIN uiq' : EntryShape(uiq'[i], link', live')
  BY MovesKeep DEF RelayMoves, ShapeInv
<1> QED BY <1>1, <1>2, <1>3 DEF ShapeInv

\* The same for the queue itself.
LEMMA QueueBy ==
  ASSUME Typed,
         \/ uiq' = uiq
         \/ uiq # <<>> /\ uiq' = Tail(uiq)
         \/ \E e \in EntryType : EntryShape(e, link', live') /\ uiq' = Append(uiq, e)
         \/ \E e \in EntryType : EntryShape(e, link', live') /\ uiq # <<>> /\ uiq' = Append(Tail(uiq), e)
         \/ \E e, f \in EntryType : /\ EntryShape(e, link', live') /\ EntryShape(f, link', live')
                                    /\ uiq' = uiq \o <<e, f>>
  PROVE  \A i \in DOMAIN uiq' : \/ \E k \in DOMAIN uiq : uiq'[i] = uiq[k]
                                \/ EntryShape(uiq'[i], link', live')
<1>q. uiq \in Seq(EntryType)
  BY DEF Typed
<1> DEFINE Good(e) == EntryShape(e, link', live')
           From(s, t) == \A i \in DOMAIN t : (\E k \in DOMAIN s : t[i] = s[k]) \/ Good(t[i])
<1>app. ASSUME NEW s \in Seq(EntryType), NEW e \in EntryType, Good(e)
        PROVE  From(s, Append(s, e))
  BY <1>app, Appended
<1>tail. ASSUME NEW s \in Seq(EntryType), s # <<>> PROVE Tail(s) \in Seq(EntryType) /\ From(s, Tail(s))
  <2>1. /\ Len(s) \in Nat \ {0} /\ DOMAIN s = 1 .. Len(s) /\ Tail(s) \in Seq(EntryType)
        /\ DOMAIN Tail(s) = 1 .. Len(s) - 1 /\ \A i \in 1 .. Len(s) - 1 : Tail(s)[i] = s[i + 1]
    BY <1>tail, Tailed
  <2>2. ASSUME NEW i \in DOMAIN Tail(s) PROVE i + 1 \in DOMAIN s /\ Tail(s)[i] = s[i + 1]
    BY <2>1
  <2> QED BY <2>1, <2>2
<1>trans. ASSUME NEW s, NEW t, NEW u, From(s, t), From(t, u) PROVE From(s, u)
  BY <1>trans
<1>same. From(uiq, uiq)
  OBVIOUS
<1>seq. \A s \in Seq(EntryType), e \in EntryType : Append(s, e) \in Seq(EntryType)
  OBVIOUS
<1> HIDE DEF Good, From
<1>1. CASE uiq' = uiq
  BY <1>1, <1>same DEF From, Good
<1>2. CASE uiq # <<>> /\ uiq' = Tail(uiq)
  BY <1>2, <1>q, <1>tail DEF From, Good
<1>3. ASSUME NEW e \in EntryType, EntryShape(e, link', live'), uiq' = Append(uiq, e)
      PROVE  From(uiq, uiq')
  BY <1>3, <1>q, <1>app DEF Good
<1>4. ASSUME NEW e \in EntryType, EntryShape(e, link', live'), uiq # <<>>, uiq' = Append(Tail(uiq), e)
      PROVE  From(uiq, uiq')
  BY <1>4, <1>q, <1>app, <1>tail, <1>trans DEF Good
<1>5. ASSUME NEW e \in EntryType, NEW f \in EntryType,
             EntryShape(e, link', live'), EntryShape(f, link', live'), uiq' = uiq \o <<e, f>>
      PROVE  From(uiq, uiq')
  <2>1. uiq' = Append(Append(uiq, e), f)
    BY <1>5, <1>q, TwoAppended
  <2>2. From(uiq, Append(uiq, e)) /\ From(Append(uiq, e), uiq')
    BY <1>5, <1>q, <2>1, <1>app, <1>seq DEF Good
  <2> QED BY <2>2, <1>trans
<1> QED BY <1>1, <1>2, <1>3, <1>4, <1>5 DEF From, Good

LEMMA RunBgShape ==
  ASSUME Typed, NEW kind \in Command, NEW n, NEW q, RunBg(kind, n, q)
  PROVE  /\ \A j \in Job : jobs'[j] = jobs[j] \/ JobShape(jobs'[j], link', live')
         /\ uiq' = Append(q, Busy)
<1>1. PICK j \in Job : jobs' = [jobs EXCEPT ![j] = [Free EXCEPT !.kind = kind, !.node = n]]
  BY DEF RunBg
<1>2. JobShape([Free EXCEPT !.kind = kind, !.node = n], link', live')
  BY FreeShapes
<1>3. \A i \in Job : jobs'[i] = IF i = j THEN [Free EXCEPT !.kind = kind, !.node = n] ELSE jobs[i]
  BY <1>1 DEF Typed
<1> QED BY <1>2, <1>3 DEF RunBg

LEMMA ShapeJobs ==
  ASSUME Typed, ShapeInv, RelayMoves, NEW j \in Job, JobStep(j)
  PROVE  ShapeInv'
<1>t. jobs[j] \in Thread /\ JobShape(jobs[j], link, live)
  BY DEF Typed, ShapeInv
<1>n. \A n \in live : n \in Node /\ link[n] # "unused"
  BY DEF Typed
<1> DEFINE JobsDone == \A i \in Job : jobs'[i] = jobs[i] \/ JobShape(jobs'[i], link', live')
           QueueDone == \A i \in DOMAIN uiq' : \/ \E k \in DOMAIN uiq : uiq'[i] = uiq[k]
                                               \/ EntryShape(uiq'[i], link', live')
<1>s. JobsDone /\ QueueDone /\ pollers' = pollers => ShapeInv'
  BY ShapeBy
<1>one. ASSUME NEW t, jobs' = [jobs EXCEPT ![j] = t], JobShape(t, link', live') PROVE JobsDone
  BY <1>one DEF Typed
<1>same. uiq' = uiq => QueueDone
  BY QueueBy
<1>free. jobs' = [jobs EXCEPT ![j] = Free] => JobsDone
  BY <1>one, FreeShapes
<1> HIDE DEF JobsDone, QueueDone
<1>1. CASE Put(j)
  <2> DEFINE e == Entry(jobs[j].kind, jobs[j])
  <2>1. /\ uiq' = uiq \o <<e, Idle>> /\ jobs' = [jobs EXCEPT ![j] = Free]
        /\ UNCHANGED <<pollers, link, live>>
    BY <1>1 DEF Put, Others
  <2>2. jobs[j].kind \in Command /\ e \in EntryType
    BY <1>1, <1>t, EntryTyped DEF Put, JobShape, Thread
  <2>3. EntryShape(e, link', live')
    BY <1>1, <1>t, <2>1 DEF Put, JobShape, EntryShape, Entry
  <2>4. EntryShape(Idle, link', live')
    BY FreeShapes
  <2> HIDE DEF e
  <2>5. QueueDone
    BY <2>1, <2>2, <2>3, <2>4, FreeTyped, QueueBy DEF QueueDone
  <2> QED BY <2>1, <2>5, <1>s, <1>free
<1>2. CASE Failed(j)
  <2>1. CASE jobs[j].kind = "sever"
    <3>1. /\ jobs' = [jobs EXCEPT ![j] = [jobs[j] EXCEPT !.pc = "put"]] /\ jobs[j].pc = "call"
          /\ uiq' = uiq /\ pollers' = pollers
      BY <1>2, <2>1 DEF Failed, Goto, Others
    <3>2. JobShape([jobs[j] EXCEPT !.pc = "put"], link', live')
      BY <2>1, <3>1, <1>t DEF JobShape, Thread
    <3> QED BY <3>1, <3>2, <1>one, <1>s, <1>same
  <2>2. CASE jobs[j].kind # "sever"
    <3>1. /\ uiq' = uiq \o <<Error, Idle>> /\ jobs' = [jobs EXCEPT ![j] = Free] /\ pollers' = pollers
      BY <1>2, <2>2 DEF Failed, Except, Others, Error
    <3>2. QueueDone
      BY <3>1, FreeTyped, FreeShapes, QueueBy DEF QueueDone
    <3> QED BY <3>1, <3>2, <1>s, <1>free
  <2> QED BY <2>1, <2>2
<1>3. CASE Refresh(j) \/ Redeem(j)
  <2>1. /\ \E told : /\ jobs' = [jobs EXCEPT ![j] = [jobs[j] EXCEPT !.pc = "put", !.told = told]]
                     /\ jobs[j].kind = "redeem" => told = "active"
        /\ uiq' = uiq /\ pollers' = pollers /\ jobs[j].pc = "call" /\ jobs[j].kind \in {"refresh", "redeem"}
        /\ jobs[j].node \in live
    BY <1>3 DEF Refresh, Redeem, Told, Others, Call, Answered
  <2>2. PICK told : /\ jobs' = [jobs EXCEPT ![j] = [jobs[j] EXCEPT !.pc = "put", !.told = told]]
                    /\ jobs[j].kind = "redeem" => told = "active"
    BY <2>1
  <2>3. JobShape([jobs[j] EXCEPT !.pc = "put", !.told = told], link', live')
    BY <2>1, <2>2, <1>t, <1>n DEF JobShape, Thread
  <2>4. JobsDone
    BY <2>2, <2>3, <1>one
  <2> QED BY <2>1, <2>4, <1>s, <1>same
<1>4. CASE Revoke(j)
  <2>1. /\ jobs' = [jobs EXCEPT ![j] = [jobs[j] EXCEPT !.pc = "put", !.told = "revoked"]]
        /\ uiq' = uiq /\ pollers' = pollers /\ jobs[j].pc = "call" /\ jobs[j].kind = "sever"
        /\ jobs[j].node \in live /\ link'[jobs[j].node] = "revoked"
    BY <1>4, <1>n DEF Revoke, Revokes, Told, Others, Call, Answered, Typed
  <2>2. JobShape([jobs[j] EXCEPT !.pc = "put", !.told = "revoked"], link', live')
    BY <2>1, <1>t, <1>n DEF JobShape, Thread
  <2>3. JobsDone
    BY <2>1, <2>2, <1>one
  <2> QED BY <2>1, <2>3, <1>s, <1>same
<1>5. CASE DeleteIdentity(j)
  <2>1. /\ jobs' = [jobs EXCEPT ![j] = [jobs[j] EXCEPT !.pc = "put"]]
        /\ uiq' = uiq /\ pollers' = pollers /\ jobs[j].pc = "call" /\ jobs[j].kind = "delete"
        /\ jobs[j].node \in live /\ link' = link /\ live' = live \ {jobs[j].node}
    BY <1>5 DEF DeleteIdentity, Deletes, Goto, Others, Call, Answered
  <2>2. JobShape([jobs[j] EXCEPT !.pc = "put"], link', live')
    BY <2>1, <1>t, <1>n DEF JobShape, Thread
  <2>3. JobsDone
    BY <2>1, <2>2, <1>one
  <2> QED BY <2>1, <2>3, <1>s, <1>same
<1>6. CASE RegisterCall(j)
  <2>1. /\ uiq' = uiq /\ pollers' = pollers /\ jobs[j].pc = "call" /\ jobs[j].kind = "register"
        /\ \E n \in Node : jobs' = [jobs EXCEPT ![j] = [jobs[j] EXCEPT !.pc = "put", !.node = n]]
    BY <1>6 DEF RegisterCall, Others, Call
  <2>2. PICK n \in Node : jobs' = [jobs EXCEPT ![j] = [jobs[j] EXCEPT !.pc = "put", !.node = n]]
    BY <2>1
  <2>3. JobShape([jobs[j] EXCEPT !.pc = "put", !.node = n], link', live')
    BY <2>1, <1>t DEF JobShape, Thread
  <2>4. JobsDone
    BY <2>2, <2>3, <1>one
  <2> QED BY <2>1, <2>4, <1>s, <1>same
<1>7. CASE RegisterSave(j)
  <2> DEFINE e == Entry("register", jobs[j])
  <2>1. /\ uiq' = uiq \o <<e, Idle>> /\ jobs' = [jobs EXCEPT ![j] = Free]
        /\ pollers' = pollers /\ jobs[j].kind = "register"
    BY <1>7 DEF RegisterSave
  <2>2. e \in EntryType
    BY <1>t, EntryTyped DEF Command
  <2>3. EntryShape(e, link', live') /\ EntryShape(Idle, link', live')
    BY <1>t, <2>1, FreeShapes DEF JobShape, EntryShape, Entry
  <2> HIDE DEF e
  <2>4. QueueDone
    BY <2>1, <2>2, <2>3, FreeTyped, QueueBy DEF QueueDone
  <2> QED BY <2>1, <2>4, <1>s, <1>free
<1>8. CASE FetchOnce(j)
  <2>1. /\ jobs' = [jobs EXCEPT ![j] = Fetched(jobs[j])] /\ uiq' = uiq /\ pollers' = pollers
        /\ jobs[j].pc = "call" /\ jobs[j].kind = "poll" /\ jobs[j].node \in live
    BY <1>8 DEF FetchOnce, Others, Call, Answered
  <2>2. JobShape(Fetched(jobs[j]), link', live')
    BY <2>1, <1>t, <1>n DEF JobShape, Thread, Fetched
  <2>3. JobsDone
    BY <2>1, <2>2, <1>one
  <2> QED BY <2>1, <2>3, <1>s, <1>same
<1>9. CASE AckOnce(j)
  <2>1. uiq' = uiq /\ pollers' = pollers /\ jobs[j].pc = "ack"
    BY <1>9 DEF AckOnce, Others
  <2>2. CASE jobs[j].todo = {}
    <3>1. jobs' = [jobs EXCEPT ![j] = [jobs[j] EXCEPT !.pc = "put"]]
      BY <1>9, <2>2 DEF AckOnce, Goto
    <3>2. JobShape([jobs[j] EXCEPT !.pc = "put"], link', live')
      BY <2>1, <2>2, <1>t DEF JobShape, Thread
    <3>3. JobsDone
      BY <3>1, <3>2, <1>one
    <3> QED BY <2>1, <3>3, <1>s, <1>same
  <2>3. CASE jobs[j].todo # {}
    <3>1. PICK d, ok : jobs' = [jobs EXCEPT ![j] = Acked(jobs[j], d, ok)]
      BY <1>9, <2>3 DEF AckOnce
    <3>2. JobShape(Acked(jobs[j], d, ok), link', live')
      BY <2>1, <1>t DEF JobShape, Thread, Acked, Free
    <3>3. JobsDone
      BY <3>1, <3>2, <1>one
    <3> QED BY <2>1, <3>3, <1>s, <1>same
  <2> QED BY <2>2, <2>3
<1> QED BY <1>1, <1>2, <1>3, <1>4, <1>5, <1>6, <1>7, <1>8, <1>9 DEF JobStep

LEMMA ShapePollers ==
  ASSUME Typed, ShapeInv, RelayMoves, NEW p \in Poller, PollStep(p)
  PROVE  ShapeInv'
<1>t. pollers[p] \in Thread /\ PollShape(pollers[p])
  BY DEF Typed, ShapeInv
<1> DEFINE PollersDone == \A i \in Poller : pollers'[i] = pollers[i] \/ PollShape(pollers'[i])
           QueueDone == \A i \in DOMAIN uiq' : \/ \E k \in DOMAIN uiq : uiq'[i] = uiq[k]
                                               \/ EntryShape(uiq'[i], link', live')
<1>s. PollersDone /\ QueueDone /\ jobs' = jobs => ShapeInv'
  BY ShapeBy
<1>one. ASSUME NEW t, pollers' = [pollers EXCEPT ![p] = t], PollShape(t) PROVE PollersDone
  BY <1>one DEF Typed
<1>same. uiq' = uiq => QueueDone
  BY QueueBy
<1>free. pollers' = [pollers EXCEPT ![p] = Free] \/ Again(p) => PollersDone
  BY <1>one, FreeShapes DEF Again
<1> HIDE DEF PollersDone, QueueDone
<1>1. CASE PollBegin(p)
  <2>1. uiq' = uiq /\ jobs' = jobs /\ pollers[p].kind = "poller" /\ pollers[p].pc = "call"
    BY <1>1 DEF PollBegin, Polls
  <2>2. CASE pollers' = [pollers EXCEPT ![p].node = client]
    <3>1. pollers' = [pollers EXCEPT ![p] = [pollers[p] EXCEPT !.node = client]]
      BY <2>2
    <3>2. PollShape([pollers[p] EXCEPT !.node = client])
      BY <2>1, <1>t DEF PollShape, Thread
    <3> QED BY <2>1, <3>1, <3>2, <1>one, <1>s, <1>same
  <2> QED BY <1>1, <2>1, <2>2, <1>free, <1>s, <1>same DEF PollBegin
<1>2. CASE PollFetch(p)
  <2>1. /\ uiq' = uiq /\ jobs' = jobs /\ pollers[p].node # None
    BY <1>2 DEF PollFetch, Polls
  <2>2. pollers[p].kind = "poller"
    BY <2>1, <1>t DEF PollShape, Free
  <2>3. PollShape(Fetched(pollers[p]))
    BY <2>2, <1>t DEF PollShape, Thread, Fetched
  <2>4. PollersDone
    BY <1>2, <2>3, <1>one, <1>free DEF PollFetch
  <2> QED BY <2>1, <2>4, <1>s, <1>same
<1>3. CASE PollAck(p)
  <2>1. uiq' = uiq /\ jobs' = jobs /\ pollers[p].pc = "ack"
    BY <1>3 DEF PollAck, Polls
  <2>2. PICK d, ok : pollers' = [pollers EXCEPT ![p] = Acked(pollers[p], d, ok)]
    BY <1>3 DEF PollAck
  <2>3. PollShape(Acked(pollers[p], d, ok))
    BY <2>1, <1>t DEF PollShape, Thread, Acked, Free
  <2> QED BY <2>1, <2>2, <2>3, <1>one, <1>s, <1>same
<1>4. CASE PollPut(p)
  <2>1. /\ jobs' = jobs /\ Again(p) /\ uiq' = Append(uiq, Entry("poller", pollers[p]))
    BY <1>4 DEF PollPut, Polls
  <2>2. Entry("poller", pollers[p]) \in EntryType
    BY <1>t, EntryTyped
  <2>3. EntryShape(Entry("poller", pollers[p]), link', live')
    BY DEF EntryShape, Entry
  <2>4. QueueDone
    BY <2>1, <2>2, <2>3, QueueBy DEF QueueDone
  <2> QED BY <2>1, <2>4, <1>free, <1>s
<1> QED BY <1>1, <1>2, <1>3, <1>4 DEF PollStep

LEMMA ShapeSteps == Typed /\ ShapeInv /\ [Next]_vars => ShapeInv'
<1> SUFFICES ASSUME Typed, ShapeInv, [Next]_vars PROVE ShapeInv'
  OBVIOUS
<1>m. RelayMoves
  BY RelaySteps
<1> DEFINE JobsDone == \A j \in Job : jobs'[j] = jobs[j] \/ JobShape(jobs'[j], link', live')
           PollersDone == \A i \in Poller : pollers'[i] = pollers[i] \/ PollShape(pollers'[i])
           QueueDone == \A i \in DOMAIN uiq' : \/ \E k \in DOMAIN uiq : uiq'[i] = uiq[k]
                                               \/ EntryShape(uiq'[i], link', live')
<1>s. JobsDone /\ PollersDone /\ QueueDone => ShapeInv'
  BY <1>m, ShapeBy
<1>same. /\ uiq' = uiq => QueueDone
         /\ jobs' = jobs => JobsDone
         /\ pollers' = pollers => PollersDone
  BY QueueBy
<1>busy. Busy \in EntryType /\ EntryShape(Busy, link', live')
  BY FreeTyped, FreeShapes
<1>run. ASSUME NEW kind \in Command, NEW n, RunBg(kind, n, uiq) PROVE JobsDone /\ QueueDone
  <2>1. uiq' = Append(uiq, Busy) /\ JobsDone
    BY <1>run, RunBgShape
  <2> QED BY <2>1, <1>busy, QueueBy
<1>rest. ASSUME NEW kind \in Command, NEW n, uiq # <<>>, RunBg(kind, n, Tail(uiq)) PROVE JobsDone /\ QueueDone
  <2>1. uiq' = Append(Tail(uiq), Busy) /\ JobsDone
    BY <1>rest, RunBgShape
  <2> QED BY <2>1, <1>busy, <1>rest, QueueBy
<1>tail. uiq # <<>> /\ uiq' = Tail(uiq) => QueueDone
  BY QueueBy
<1>c. {"register", "refresh"} \subseteq Command
  BY DEF Command
<1> HIDE DEF JobsDone, PollersDone, QueueDone
<1>1. ASSUME NEW d \in Delivery, RemoteSend(d) PROVE ShapeInv'
  BY <1>1, <1>same, <1>s DEF RemoteSend
<1>2. CASE GiveCommand
  BY <1>2, <1>run, <1>same, <1>s DEF GiveCommand, Start
<1>3. CASE RegisterNode
  BY <1>3, <1>run, <1>same, <1>s, <1>c DEF RegisterNode
<1>4. CASE Toggle
  <2>1. PollersDone
    BY <1>4, <1>same, FreeShapes DEF Toggle, StartPolling, PollersDone, Typed
  <2> QED BY <1>4, <2>1, <1>same, <1>s DEF Toggle
<1>5. ASSUME NEW n \in Node, DeleteHistory(n) PROVE ShapeInv'
  BY <1>5, <1>same, <1>s DEF DeleteHistory
<1>6. CASE UiStep
  <2>1. CASE SaveSeen
    BY <2>1, <1>run, <1>same, <1>s, <1>c DEF SaveSeen
  <2>2. CASE Refreshing
    BY <2>2, <1>rest, <1>same, <1>s, <1>c DEF Refreshing, Showing
  <2>3. CASE \/ Count \/ ShowError \/ Receive \/ ReceiveRaises \/ ShowLinks \/ ShowSevered
             \/ ShowDeleted
    <3>1. uiq # <<>> /\ uiq' = Tail(uiq) /\ jobs' = jobs /\ pollers' = pollers
      BY <2>3 DEF Count, ShowError, Receive, ReceiveRaises, Take, ShowLinks, ShowSevered,
                  ShowDeleted, Showing
    <3> QED BY <3>1, <1>tail, <1>same, <1>s
  <2> QED BY <1>6, <2>1, <2>2, <2>3 DEF UiStep
<1>7. ASSUME NEW torn \in BOOLEAN, Restart(torn) PROVE ShapeInv'
  <2>1. /\ uiq' = <<Busy>>
        /\ jobs' = [j \in Job |-> IF j = 1 THEN [Free EXCEPT !.kind = "refresh", !.node = identity]
                                  ELSE Free]
        /\ \A p \in Poller : pollers'[p] \in {Free, Polling}
    BY <1>7 DEF Restart
  <2>2. \A j \in Job : JobShape(jobs'[j], link', live')
    BY <2>1, <1>c, FreeShapes
  <2>3. \A p \in Poller : PollShape(pollers'[p])
    BY <2>1, FreeShapes
  <2>4. \A i \in DOMAIN uiq' : EntryShape(uiq'[i], link', live')
    BY <2>1, <1>busy
  <2> QED BY <2>2, <2>3, <2>4 DEF ShapeInv
<1>9. CASE CloseBox
  BY <1>9, <1>same, <1>s DEF CloseBox
<1>8. CASE UNCHANGED vars
  BY <1>8, <1>same, <1>s DEF vars
<1> QED BY <1>1, <1>2, <1>3, <1>4, <1>5, <1>6, <1>7, <1>8, <1>9, <1>m, ShapeJobs, ShapePollers DEF Next

----------------------------------------------------------------------------
(* What is in the hands of the threads S, and in a queue q.                *)

ThreadsHave(d, S, f)  == \E s \in S : d \in f[s].items \cup f[s].todo
QueueHas(d, q)        == \E i \in DOMAIN q : d \in q[i].items
Reports(n, a)         == a.kind \in {"refresh", "redeem"} /\ a.node = n /\ a.told = "active"
ThreadsReport(n, S, f) == \E s \in S : Reports(n, f[s])
QueueReports(n, q)    == \E i \in DOMAIN q : Reports(n, q[i])

InHands(d)  == ThreadsHave(d, Job, jobs) \/ ThreadsHave(d, Poller, pollers) \/ QueueHas(d, uiq)
Reported(n) == \/ ThreadsReport(n, Job, jobs) \/ ThreadsReport(n, Poller, pollers)
               \/ QueueReports(n, uiq)

AnswersOf(jb, pl, q) ==
  {[Entry(t.kind, t) EXCEPT !.items = @ \cup t.todo] :
     t \in {jb[j] : j \in Job} \cup {pl[p] : p \in Poller}}
    \cup {q[i] : i \in DOMAIN q}

LEMMA AnswersHave ==
  ASSUME NEW jb \in [Job -> Thread], NEW pl \in [Poller -> Thread], NEW q \in Seq(EntryType),
         NEW A, A = AnswersOf(jb, pl, q)
  PROVE  /\ \A d : (\E a \in A : d \in a.items)
                     <=> ThreadsHave(d, Job, jb) \/ ThreadsHave(d, Poller, pl) \/ QueueHas(d, q)
         /\ \A n : (\E a \in A : Reports(n, a))
                     <=> \/ ThreadsReport(n, Job, jb) \/ ThreadsReport(n, Poller, pl)
                         \/ QueueReports(n, q)
<1> DEFINE ans(t) == [Entry(t.kind, t) EXCEPT !.items = @ \cup t.todo]
<1>1. ASSUME NEW t \in Thread
      PROVE  /\ ans(t).items = t.items \cup t.todo /\ ans(t).kind = t.kind
             /\ ans(t).node = t.node /\ ans(t).told = t.told
  BY <1>1 DEF Thread, Entry
<1>2. A = {ans(t) : t \in {jb[j] : j \in Job} \cup {pl[p] : p \in Poller}} \cup {q[i] : i \in DOMAIN q}
  BY DEF AnswersOf
<1> HIDE DEF ans
<1>3. \A j \in Job : ans(jb[j]) \in A
  BY <1>2
<1>4. \A p \in Poller : ans(pl[p]) \in A
  BY <1>2
<1>5. \A i \in DOMAIN q : q[i] \in A
  BY <1>2
<1>6. \A a \in A : \/ \E j \in Job : a = ans(jb[j])
                   \/ \E p \in Poller : a = ans(pl[p])
                   \/ \E i \in DOMAIN q : a = q[i]
  BY <1>2
<1>7. ASSUME NEW d PROVE (\E a \in A : d \in a.items)
                     <=> ThreadsHave(d, Job, jb) \/ ThreadsHave(d, Poller, pl) \/ QueueHas(d, q)
  BY <1>1, <1>3, <1>4, <1>5, <1>6 DEF ThreadsHave, QueueHas
<1>8. ASSUME NEW n PROVE (\E a \in A : Reports(n, a))
                     <=> \/ ThreadsReport(n, Job, jb) \/ ThreadsReport(n, Poller, pl)
                         \/ QueueReports(n, q)
  <2>1. \A t \in Thread : Reports(n, ans(t)) <=> Reports(n, t)
    BY <1>1 DEF Reports
  <2> QED BY <2>1, <1>3, <1>4, <1>5, <1>6 DEF ThreadsReport, QueueReports
<1> QED BY <1>7, <1>8

LEMMA HandsAre ==
  /\ Typed => (\A d : d \in InHand <=> InHands(d)) /\ (\A n : Lists(n) <=> Reported(n))
  /\ Typed' => (\A d : d \in InHand' <=> InHands(d)') /\ (\A n : Lists(n)' <=> Reported(n)')
<1>1. Answers = AnswersOf(jobs, pollers, uiq)
  BY DEF Answers, AnswersOf, Threads, Range
<1>2. Answers' = AnswersOf(jobs', pollers', uiq')
  BY DEF Answers, AnswersOf, Threads, Range
<1>3. ASSUME Typed PROVE (\A d : d \in InHand <=> InHands(d)) /\ (\A n : Lists(n) <=> Reported(n))
  <2>1. jobs \in [Job -> Thread] /\ pollers \in [Poller -> Thread] /\ uiq \in Seq(EntryType)
    BY <1>3 DEF Typed
  <2>2. \A d : d \in InHand <=> \E a \in Answers : d \in a.items
    BY DEF InHand
  <2>3. \A n : Lists(n) <=> \E a \in Answers : Reports(n, a)
    BY DEF Lists, Reports
  <2> QED BY <1>1, <2>1, <2>2, <2>3, AnswersHave DEF InHands, Reported
<1>4. ASSUME Typed' PROVE (\A d : d \in InHand' <=> InHands(d)') /\ (\A n : Lists(n)' <=> Reported(n)')
  <2>1. jobs' \in [Job -> Thread] /\ pollers' \in [Poller -> Thread] /\ uiq' \in Seq(EntryType)
    BY <1>4 DEF Typed
  <2>2. \A d : d \in InHand' <=> \E a \in Answers' : d \in a.items
    BY DEF InHand
  <2>3. \A n : Lists(n)' <=> \E a \in Answers' : Reports(n, a)
    BY DEF Lists, Reports
  <2> QED BY <1>2, <2>1, <2>2, <2>3, AnswersHave DEF InHands, Reported
<1> QED BY <1>3, <1>4

\* One of the threads goes on.
LEMMA ThreadsGoOn ==
  ASSUME NEW S, NEW T, NEW f \in [S -> T], NEW s \in S, NEW t, NEW g, g = [f EXCEPT ![s] = t]
  PROVE  /\ \A d : ThreadsHave(d, S, g) => ThreadsHave(d, S, f) \/ d \in t.items \cup t.todo
         /\ \A d : ThreadsHave(d, S, f) => ThreadsHave(d, S, g) \/ d \in f[s].items \cup f[s].todo
         /\ \A d : d \in t.items \cup t.todo => ThreadsHave(d, S, g)
         /\ \A n : ThreadsReport(n, S, g) => ThreadsReport(n, S, f) \/ Reports(n, t)
<1>1. \A i \in S : g[i] = IF i = s THEN t ELSE f[i]
  OBVIOUS
<1> QED BY <1>1 DEF ThreadsHave, ThreadsReport

LEMMA QueueAppended ==
  ASSUME NEW q \in Seq(EntryType), NEW e \in EntryType, NEW r, r = Append(q, e)
  PROVE  /\ \A d : QueueHas(d, r) <=> QueueHas(d, q) \/ d \in e.items
         /\ \A n : QueueReports(n, r) <=> QueueReports(n, q) \/ Reports(n, e)
         /\ r \in Seq(EntryType)
<1>1. /\ r \in Seq(EntryType) /\ DOMAIN r = 1 .. Len(q) + 1 /\ DOMAIN q = 1 .. Len(q)
      /\ \A i \in 1 .. Len(q) : r[i] = q[i]
      /\ r[Len(q) + 1] = e /\ Len(q) \in Nat
  BY Appended
<1>2. /\ \A i \in DOMAIN q : i \in DOMAIN r /\ r[i] = q[i]
      /\ \E i \in DOMAIN r : r[i] = e
      /\ \A i \in DOMAIN r : i \in DOMAIN q \/ r[i] = e
  <2>1. Len(q) + 1 \in DOMAIN r
    BY <1>1
  <2> QED BY <1>1, <2>1
<1> QED BY <1>1, <1>2 DEF QueueHas, QueueReports

LEMMA QueueTaken ==
  ASSUME NEW q \in Seq(EntryType), q # <<>>, NEW r, r = Tail(q)
  PROVE  /\ \A d : QueueHas(d, q) <=> QueueHas(d, r) \/ d \in Head(q).items
         /\ \A n : QueueReports(n, q) <=> QueueReports(n, r) \/ Reports(n, Head(q))
         /\ r \in Seq(EntryType) /\ Head(q) \in EntryType
<1>1. /\ r \in Seq(EntryType) /\ DOMAIN r = 1 .. Len(q) - 1 /\ DOMAIN q = 1 .. Len(q)
      /\ \A i \in 1 .. Len(q) - 1 : r[i] = q[i + 1]
      /\ Len(q) \in Nat \ {0} /\ Head(q) = q[1] /\ q[1] \in EntryType
  BY Tailed
<1>2. /\ \A i \in DOMAIN r : \E k \in DOMAIN q : r[i] = q[k]
      /\ \A k \in DOMAIN q : q[k] = Head(q) \/ \E i \in DOMAIN r : r[i] = q[k]
      /\ \E k \in DOMAIN q : q[k] = Head(q)
  <2>1. ASSUME NEW i \in DOMAIN r PROVE \E k \in DOMAIN q : r[i] = q[k]
    <3>1. i + 1 \in DOMAIN q /\ r[i] = q[i + 1]
      BY <1>1
    <3> QED BY <3>1
  <2>2. ASSUME NEW k \in DOMAIN q PROVE q[k] = Head(q) \/ \E i \in DOMAIN r : r[i] = q[k]
    <3>1. CASE k = 1
      BY <1>1, <3>1
    <3>2. CASE k # 1
      <4>1. k - 1 \in DOMAIN r /\ r[k - 1] = q[k]
        BY <1>1, <3>2
      <4> QED BY <4>1
    <3> QED BY <3>1, <3>2
  <2>3. 1 \in DOMAIN q
    BY <1>1
  <2> QED BY <1>1, <2>1, <2>2, <2>3
<1> QED BY <1>1, <1>2 DEF QueueHas, QueueReports

----------------------------------------------------------------------------
(* The way of a delivery: queued at the relay, in hand, kept.              *)

\* In the history, or accounted for otherwise.
Kept(d) == history[d] > 0 \/ d \in lost \cup deleted \/ d.node \notin live

\* What exists was sent, over a link, and what is queued is for a live node.
SentInv ==
  /\ queue \subseteq sent /\ seen \subseteq sent /\ seenFile \subseteq sent
  /\ \A d \in Delivery : InHands(d) => d \in sent
  /\ \A d \in sent : link[d.node] # "unused"
  /\ \A d \in queue : d.node \in live

\* What left the queue is in hand or kept, and so is all that counts as seen.
AccountInv ==
  /\ \A d \in sent : d \in queue \/ InHands(d) \/ Kept(d)
  /\ \A d \in seen \cup seenFile : Kept(d)

\* What one step does to deliveries and to the answers about links.
Flow ==
  /\ \A d \in Delivery : InHands(d)' => InHands(d) \/ d \in queue
  /\ \A d \in Delivery : InHands(d) => InHands(d)' \/ d \in queue' \/ Kept(d)'
  /\ \A d \in queue : d \in queue' \/ InHands(d)' \/ Kept(d)'
  /\ \A d \in sent : Kept(d) => Kept(d)'
  /\ \A n \in Node : Reported(n)' => Reported(n) \/ (n \in live /\ link'[n] = "active")
  /\ sent \subseteq sent' /\ \A d \in sent' \ sent : d \in queue' /\ link'[d.node] # "unused"
  /\ \A d \in queue' : d.node \in live' /\ (d \in queue \/ d \in sent')
  /\ \A d \in seen' \cup seenFile' : d \in seen \cup seenFile \/ (InHands(d) /\ Kept(d)')

FlowPre == Typed /\ ShapeInv /\ SentInv /\ AccountInv

\* A step that leaves the deliveries where they are.
LEMMA FlowStill ==
  ASSUME FlowPre, UNCHANGED <<live, queue, sent, link, seen, seenFile, history, lost, deleted>>,
         \A d \in Delivery : InHands(d)' <=> InHands(d),
         \A n \in Node : Reported(n)' => Reported(n) \/ (n \in live /\ link'[n] = "active")
  PROVE  Flow
  BY DEF Flow, FlowPre, SentInv, Kept

\* What the relay does with a request, as far as deliveries go.
RelayFlow ==
  /\ queue' \subseteq queue /\ \A d \in queue' : d.node \in live'
  /\ \A d \in queue : d \in queue' \/ d.node \notin live'
  /\ \A d \in sent : d.node \notin live => d.node \notin live'

LEMMA RelayFlows ==
  ASSUME FlowPre
  PROVE  /\ UNCHANGED <<live, queue>> => RelayFlow
         /\ \A n : Revokes(n) \/ Redeems(n) \/ Deletes(n) \/ Registers(n) => RelayFlow
<1>1. (\A d \in queue : d.node \in live) /\ (\A d \in sent : link[d.node] # "unused")
  BY DEF FlowPre, SentInv
<1>2. UNCHANGED <<live, queue>> => RelayFlow
  BY <1>1 DEF RelayFlow
<1>3. ASSUME NEW n, Revokes(n) \/ Redeems(n) PROVE RelayFlow
  BY <1>2, <1>3 DEF Revokes, Redeems
<1>4. ASSUME NEW n, Deletes(n) PROVE RelayFlow
  BY <1>1, <1>4 DEF RelayFlow, Deletes, Of
<1>5. ASSUME NEW n, Registers(n) PROVE RelayFlow
  BY <1>1, <1>5 DEF RelayFlow, Registers, Fresh
<1> QED BY <1>2, <1>3, <1>4, <1>5

\* A step of the relay and of the job j, with t the job afterwards.
LEMMA FlowJob ==
  ASSUME FlowPre, NEW j \in Job, NEW t, jobs' = [jobs EXCEPT ![j] = t],
         UNCHANGED <<pollers, uiq, seen, seenFile, history, lost, deleted, sent>>,
         queue' \subseteq queue, \A d \in queue' : d.node \in live',
         \A d \in t.items \cup t.todo : d \in jobs[j].items \cup jobs[j].todo \/ d \in queue,
         \A d \in jobs[j].items \cup jobs[j].todo : d \in t.items \cup t.todo,
         \A d \in queue : d \in queue' \/ d \in t.items \cup t.todo \/ d.node \notin live',
         \A n \in Node : Reports(n, t) => n \in live /\ link'[n] = "active",
         \A d \in sent : d.node \notin live => d.node \notin live'
  PROVE  Flow
<1>1. jobs \in [Job -> Thread]
  BY DEF FlowPre, Typed
<1>2. /\ \A d : ThreadsHave(d, Job, jobs') => ThreadsHave(d, Job, jobs) \/ d \in t.items \cup t.todo
      /\ \A d : ThreadsHave(d, Job, jobs) => ThreadsHave(d, Job, jobs') \/ d \in jobs[j].items \cup jobs[j].todo
      /\ \A d : d \in t.items \cup t.todo => ThreadsHave(d, Job, jobs')
      /\ \A n : ThreadsReport(n, Job, jobs') => ThreadsReport(n, Job, jobs) \/ Reports(n, t)
  BY <1>1, ThreadsGoOn
<1>3. \A d \in jobs[j].items \cup jobs[j].todo : ThreadsHave(d, Job, jobs)
  BY DEF ThreadsHave
<1>4. \A d \in Delivery : InHands(d)' => InHands(d) \/ d \in queue
  BY <1>2, <1>3 DEF InHands
<1>5. \A d : InHands(d) => InHands(d)'
  BY <1>2 DEF InHands
<1>6. \A d \in queue : d \in queue' \/ InHands(d)' \/ Kept(d)'
  BY <1>2 DEF InHands, Kept
<1>7. \A d \in sent : Kept(d) => Kept(d)'
  BY DEF Kept
<1>8. \A n \in Node : Reported(n)' => Reported(n) \/ (n \in live /\ link'[n] = "active")
  BY <1>2 DEF Reported
<1> QED BY <1>4, <1>5, <1>6, <1>7, <1>8 DEF Flow

\* A job ends, and puts what it had in hand.
LEMMA FlowEnds ==
  ASSUME FlowPre, NEW j \in Job, jobs' = [jobs EXCEPT ![j] = Free],
         UNCHANGED <<pollers, seen, seenFile, history, lost, deleted, sent>>, RelayFlow,
         NEW e \in EntryType, e.items = jobs[j].items \cup jobs[j].todo,
         \A n \in Node : Reports(n, e) => Reports(n, jobs[j]),
         uiq' = uiq \o <<e, Idle>>
  PROVE  Flow
<1>1. jobs \in [Job -> Thread] /\ uiq \in Seq(EntryType)
  BY DEF FlowPre, Typed
<1>2. Free.items = {} /\ Free.todo = {} /\ Idle \in EntryType /\ Idle.items = {}
      /\ \A n : ~Reports(n, Idle) /\ ~Reports(n, Free)
  BY FreeTyped DEF Free, Idle, Entry, Reports
<1>3. /\ \A d : ThreadsHave(d, Job, jobs') => ThreadsHave(d, Job, jobs)
      /\ \A d : ThreadsHave(d, Job, jobs) => ThreadsHave(d, Job, jobs') \/ d \in jobs[j].items \cup jobs[j].todo
      /\ \A n : ThreadsReport(n, Job, jobs') => ThreadsReport(n, Job, jobs)
  <2>1. PICK t : t = Free
    OBVIOUS
  <2>2. jobs' = [jobs EXCEPT ![j] = t]
    BY <2>1
  <2>3. /\ \A d : ThreadsHave(d, Job, jobs') => ThreadsHave(d, Job, jobs) \/ d \in t.items \cup t.todo
        /\ \A d : ThreadsHave(d, Job, jobs) => ThreadsHave(d, Job, jobs') \/ d \in jobs[j].items \cup jobs[j].todo
        /\ \A n : ThreadsReport(n, Job, jobs') => ThreadsReport(n, Job, jobs) \/ Reports(n, t)
    BY <1>1, <2>2, ThreadsGoOn
  <2> QED BY <1>2, <2>1, <2>3
<1>4. /\ \A d : QueueHas(d, uiq') <=> QueueHas(d, uiq) \/ d \in e.items
      /\ \A n \in Node : QueueReports(n, uiq') => QueueReports(n, uiq) \/ Reports(n, jobs[j])
  <2>1. uiq' = Append(Append(uiq, e), Idle)
    BY <1>1, <1>2, TwoAppended
  <2>2. PICK r : r = Append(uiq, e)
    OBVIOUS
  <2>3. /\ \A d : QueueHas(d, r) <=> QueueHas(d, uiq) \/ d \in e.items
        /\ \A n : QueueReports(n, r) <=> QueueReports(n, uiq) \/ Reports(n, e)
        /\ r \in Seq(EntryType)
    BY <1>1, <2>2, QueueAppended
  <2>4. /\ \A d : QueueHas(d, uiq') <=> QueueHas(d, r) \/ d \in Idle.items
        /\ \A n : QueueReports(n, uiq') <=> QueueReports(n, r) \/ Reports(n, Idle)
    BY <1>2, <2>1, <2>2, <2>3, QueueAppended
  <2> QED BY <1>2, <2>3, <2>4
<1>5. /\ \A d \in jobs[j].items \cup jobs[j].todo : ThreadsHave(d, Job, jobs)
      /\ \A n : Reports(n, jobs[j]) => ThreadsReport(n, Job, jobs)
  BY DEF ThreadsHave, ThreadsReport
<1>6. \A d : InHands(d)' <=> InHands(d)
  <2>1. ASSUME NEW d PROVE InHands(d)' <=> InHands(d)
    BY <1>3, <1>4, <1>5 DEF InHands
  <2> QED BY <2>1
<1>7. \A n \in Node : Reported(n)' => Reported(n)
  BY <1>3, <1>4, <1>5 DEF Reported
<1>8. \A d \in sent : Kept(d) => Kept(d)'
  BY DEF Kept, RelayFlow
<1>9. \A d \in queue : d \in queue' \/ Kept(d)'
  BY DEF Kept, RelayFlow
<1> QED BY <1>6, <1>7, <1>8, <1>9 DEF Flow, RelayFlow

LEMMA FlowJobs == ASSUME FlowPre, NEW j \in Job, JobStep(j) PROVE Flow
<1>t. /\ jobs[j] \in Thread /\ JobShape(jobs[j], link, live) /\ live \subseteq Node
      /\ jobs[j].kind \in Command \cup {"free", "poller"} /\ Idle \in EntryType
  BY FreeTyped DEF FlowPre, Typed, ShapeInv, Thread
<1>q. queue \subseteq sent /\ \A d \in queue : d.node \in live
  BY DEF FlowPre, SentInv
<1>r. /\ UNCHANGED <<live, queue>> => RelayFlow
      /\ \A n : Revokes(n) \/ Redeems(n) \/ Deletes(n) \/ Registers(n) => RelayFlow
  BY RelayFlows
<1>1. CASE Put(j)
  <2> DEFINE e == Entry(jobs[j].kind, jobs[j])
  <2>1. /\ uiq' = uiq \o <<e, Idle>> /\ jobs' = [jobs EXCEPT ![j] = Free]
        /\ UNCHANGED <<pollers, seen, seenFile, history, lost, deleted, sent, queue, live>>
    BY <1>1 DEF Put, Others
  <2>2. e \in EntryType
    BY <1>1, <1>t, EntryTyped DEF Put, JobShape
  <2>3. e.items = jobs[j].items /\ jobs[j].todo = {} /\ \A n \in Node : Reports(n, e) => Reports(n, jobs[j])
    BY <1>1, <1>t DEF Put, JobShape, Entry, Reports
  <2> HIDE DEF e
  <2> QED BY <1>r, <2>1, <2>2, <2>3, FlowEnds
<1>2. CASE Failed(j)
  <2>1. jobs[j].items = {} /\ jobs[j].todo = {} /\ jobs[j].told = "none"
        /\ UNCHANGED <<pollers, seen, seenFile, history, lost, deleted, sent>>
    BY <1>2, <1>t DEF Failed, JobShape, Others
  <2>2. RelayFlow
    BY <1>2, <1>r DEF Failed, Acted
  <2>3. CASE jobs[j].kind = "sever"
    <3>1. PICK t : t = [jobs[j] EXCEPT !.pc = "put"]
      OBVIOUS
    <3>2. t.items = {} /\ t.todo = {} /\ \A n : ~Reports(n, t)
      BY <1>t, <2>1, <3>1 DEF Thread, Reports
    <3>3. jobs' = [jobs EXCEPT ![j] = t] /\ uiq' = uiq
      BY <1>2, <2>3, <3>1 DEF Failed, Goto
    <3> QED BY <2>1, <2>2, <3>2, <3>3, FlowJob DEF RelayFlow
  <2>4. CASE jobs[j].kind # "sever"
    <3>1. uiq' = uiq \o <<Error, Idle>> /\ jobs' = [jobs EXCEPT ![j] = Free]
      BY <1>2, <2>4 DEF Failed, Except, Error
    <3>2. Error \in EntryType /\ Error.items = {} /\ \A n : ~Reports(n, Error)
      BY FreeTyped DEF Error, Entry, Free, Reports
    <3>3. PICK e \in EntryType : e = Error
      BY <3>2
    <3> QED BY <2>1, <2>2, <3>1, <3>2, <3>3, FlowEnds
  <2> QED BY <2>3, <2>4
<1>3. CASE Refresh(j) \/ Redeem(j)
  <2>1. PICK told : /\ jobs' = [jobs EXCEPT ![j] = [jobs[j] EXCEPT !.pc = "put", !.told = told]]
                    /\ told = "active" => link'[jobs[j].node] = "active"
    <3>1. CASE Refresh(j)
      BY <3>1 DEF Refresh, Told
    <3>2. CASE Redeem(j)
      BY <3>2, <1>t DEF Redeem, Redeems, Told, Answered, FlowPre, Typed
    <3> QED BY <1>3, <3>1, <3>2
  <2>2. /\ jobs[j].node \in live
        /\ UNCHANGED <<pollers, uiq, seen, seenFile, history, lost, deleted, sent, queue, live>>
    BY <1>3 DEF Refresh, Redeem, Redeems, Call, Answered, Others
  <2>3. PICK t : t = [jobs[j] EXCEPT !.pc = "put", !.told = told]
    OBVIOUS
  <2>4. /\ t.items = jobs[j].items /\ t.todo = jobs[j].todo
        /\ t.node = jobs[j].node /\ t.told = told
    BY <1>t, <2>3 DEF Thread
  <2>5. \A n \in Node : Reports(n, t) => n \in live /\ link'[n] = "active"
    BY <2>1, <2>2, <2>4 DEF Reports
  <2> QED BY <1>q, <2>1, <2>2, <2>3, <2>4, <2>5, FlowJob
<1>4. CASE Revoke(j) \/ DeleteIdentity(j)
  <2>1. PICK told : jobs' = [jobs EXCEPT ![j] = [jobs[j] EXCEPT !.pc = "put", !.told = told]]
    <3>1. CASE Revoke(j)
      BY <3>1 DEF Revoke, Told
    <3>2. CASE DeleteIdentity(j)
      <4>1. [jobs[j] EXCEPT !.pc = "put"] = [jobs[j] EXCEPT !.pc = "put", !.told = jobs[j].told]
        BY <1>t DEF Thread
      <4>2. jobs' = [jobs EXCEPT ![j] = [jobs[j] EXCEPT !.pc = "put"]]
        BY <3>2 DEF DeleteIdentity, Goto
      <4> QED BY <4>1, <4>2
    <3> QED BY <1>4, <3>1, <3>2
  <2>2. /\ UNCHANGED <<pollers, uiq, seen, seenFile, history, lost, deleted, sent>>
        /\ jobs[j].kind \in {"sever", "delete"} /\ RelayFlow
    BY <1>4, <1>r DEF Revoke, DeleteIdentity, Others, Call
  <2>3. PICK t : t = [jobs[j] EXCEPT !.pc = "put", !.told = told]
    OBVIOUS
  <2>4. /\ t.items = jobs[j].items /\ t.todo = jobs[j].todo /\ \A n : ~Reports(n, t)
    BY <1>t, <2>2, <2>3 DEF Thread, Reports
  <2> QED BY <2>1, <2>2, <2>3, <2>4, FlowJob DEF RelayFlow
<1>5. CASE RegisterCall(j)
  <2>1. PICK n \in Node : /\ Registers(n)
                          /\ jobs' = [jobs EXCEPT ![j] = [jobs[j] EXCEPT !.pc = "put", !.node = n]]
    <3>1. PICK n \in Node : Registers(n) /\ jobs' = [jobs EXCEPT ![j].pc = "put", ![j].node = n]
      BY <1>5 DEF RegisterCall
    <3>2. jobs' = [jobs EXCEPT ![j] = [jobs[j] EXCEPT !.pc = "put", !.node = n]]
      BY <3>1
    <3> QED BY <3>1, <3>2
  <2>2. /\ UNCHANGED <<pollers, uiq, seen, seenFile, history, lost, deleted, sent>>
        /\ jobs[j].kind = "register" /\ RelayFlow
    BY <1>5, <1>r, <2>1 DEF RegisterCall, Others, Call
  <2>3. PICK t : t = [jobs[j] EXCEPT !.pc = "put", !.node = n]
    OBVIOUS
  <2>4. /\ t.items = jobs[j].items /\ t.todo = jobs[j].todo /\ \A m : ~Reports(m, t)
    BY <1>t, <2>2, <2>3 DEF Thread, Reports
  <2> QED BY <2>1, <2>2, <2>3, <2>4, FlowJob DEF RelayFlow
<1>6. CASE RegisterSave(j)
  <2> DEFINE e == Entry("register", jobs[j])
  <2>1. /\ uiq' = uiq \o <<e, Idle>> /\ jobs' = [jobs EXCEPT ![j] = Free]
        /\ UNCHANGED <<pollers, seen, seenFile, history, lost, deleted, sent, queue, live>>
    BY <1>6 DEF RegisterSave
  <2>2. e \in EntryType
    BY <1>t, EntryTyped DEF Command
  <2>3. e.items = jobs[j].items /\ jobs[j].todo = {} /\ \A n \in Node : Reports(n, e) => Reports(n, jobs[j])
    BY <1>6, <1>t DEF RegisterSave, JobShape, Entry, Reports
  <2> HIDE DEF e
  <2> QED BY <1>r, <2>1, <2>2, <2>3, FlowEnds
<1>7. CASE FetchOnce(j)
  <2>1. PICK t : t = Fetched(jobs[j])
    OBVIOUS
  <2>2. /\ jobs' = [jobs EXCEPT ![j] = t] /\ jobs[j].kind = "poll" /\ jobs[j].pc = "call"
        /\ UNCHANGED <<pollers, uiq, seen, seenFile, history, lost, deleted, sent, queue, live>>
    BY <1>7, <2>1 DEF FetchOnce, Others, Call
  <2>3. /\ t.items = jobs[j].items /\ t.todo \subseteq queue /\ jobs[j].todo = {} /\ \A n : ~Reports(n, t)
    BY <1>t, <2>1, <2>2 DEF Thread, Reports, Fetched, Of, JobShape
  <2> QED BY <1>q, <2>2, <2>3, FlowJob
<1>8. CASE AckOnce(j)
  <2>1. /\ UNCHANGED <<pollers, uiq, seen, seenFile, history, lost, deleted, sent, live>>
        /\ jobs[j].kind = "poll"
    BY <1>8, <1>t DEF AckOnce, Others, JobShape
  <2>2. CASE jobs[j].todo = {}
    <3>1. PICK t : t = [jobs[j] EXCEPT !.pc = "put"]
      OBVIOUS
    <3>2. queue' = queue /\ jobs' = [jobs EXCEPT ![j] = t]
      BY <1>8, <2>2, <3>1 DEF AckOnce, Goto
    <3>3. /\ t.items = jobs[j].items /\ t.todo = jobs[j].todo /\ \A n : ~Reports(n, t)
      BY <1>t, <2>1, <3>1 DEF Thread, Reports
    <3> QED BY <1>q, <2>1, <3>2, <3>3, FlowJob
  <2>3. CASE jobs[j].todo # {}
    <3>1. PICK d \in jobs[j].todo, ok \in BOOLEAN :
            AckNow(d, ok) /\ jobs' = [jobs EXCEPT ![j] = Acked(jobs[j], d, ok)]
      BY <1>8, <2>3 DEF AckOnce
    <3>2. PICK t : t = Acked(jobs[j], d, ok)
      OBVIOUS
    <3>3. /\ t.items = jobs[j].items \cup {d} /\ t.todo = jobs[j].todo \ {d} /\ \A n : ~Reports(n, t)
      BY <1>t, <2>1, <3>2 DEF Thread, Reports, Acked
    <3>4. queue' \subseteq queue /\ \A c \in queue : c \in queue' \/ c = d
      BY <3>1 DEF AckNow
    <3> QED BY <1>q, <2>1, <3>1, <3>2, <3>3, <3>4, FlowJob
  <2> QED BY <2>2, <2>3
<1> QED BY <1>1, <1>2, <1>3, <1>4, <1>5, <1>6, <1>7, <1>8 DEF JobStep

LEMMA FlowPollers == ASSUME FlowPre, NEW p \in Poller, PollStep(p) PROVE Flow
<1>t. /\ pollers[p] \in Thread /\ PollShape(pollers[p])
      /\ pollers \in [Poller -> Thread] /\ uiq \in Seq(EntryType)
  BY DEF FlowPre, Typed, ShapeInv
<1>q. queue \subseteq sent /\ \A d \in queue : d.node \in live
  BY DEF FlowPre, SentInv
<1>p. /\ Polling.items = {} /\ Polling.todo = {} /\ (\A n : ~Reports(n, Polling))
      /\ Free.items = {} /\ Free.todo = {} /\ (\A n : ~Reports(n, Free))
  BY DEF Polling, Free, Reports
<1>same. UNCHANGED <<live, link, sent, seen, seenFile, history, lost, deleted, jobs>>
  BY DEF PollStep, PollBegin, PollFetch, PollAck, PollPut, Polls
\* The thread goes on as t, and what it had in hand it has, or the queue has.
<1>go. ASSUME NEW t, pollers' = [pollers EXCEPT ![p] = t], \A n : ~Reports(n, t),
              \A d \in t.items \cup t.todo : d \in pollers[p].items \cup pollers[p].todo \/ d \in queue,
              \A d \in pollers[p].items \cup pollers[p].todo : d \in t.items \cup t.todo \/ QueueHas(d, uiq'),
              \A d : QueueHas(d, uiq') => QueueHas(d, uiq) \/ d \in pollers[p].items \cup pollers[p].todo,
              \A d : QueueHas(d, uiq) => QueueHas(d, uiq'),
              \A n : QueueReports(n, uiq') => QueueReports(n, uiq),
              queue' \subseteq queue, \A d \in queue : d \in queue' \/ d \in t.items \cup t.todo
       PROVE  Flow
  <2>1. /\ \A d : ThreadsHave(d, Poller, pollers') => ThreadsHave(d, Poller, pollers) \/ d \in t.items \cup t.todo
        /\ \A d : ThreadsHave(d, Poller, pollers) => \/ ThreadsHave(d, Poller, pollers')
                                                     \/ d \in pollers[p].items \cup pollers[p].todo
        /\ \A d : d \in t.items \cup t.todo => ThreadsHave(d, Poller, pollers')
        /\ \A n : ThreadsReport(n, Poller, pollers') => ThreadsReport(n, Poller, pollers) \/ Reports(n, t)
    BY <1>t, <1>go, ThreadsGoOn
  <2>2. \A d \in pollers[p].items \cup pollers[p].todo : ThreadsHave(d, Poller, pollers)
    BY DEF ThreadsHave
  <2>3. \A d \in Delivery : InHands(d)' => InHands(d) \/ d \in queue
    BY <1>go, <1>same, <2>1, <2>2 DEF InHands
  <2>4. \A d : InHands(d) => InHands(d)'
    BY <1>go, <1>same, <2>1 DEF InHands
  <2>5. \A d \in queue : d \in queue' \/ InHands(d)'
    BY <1>go, <2>1 DEF InHands
  <2>6. \A n \in Node : Reported(n)' => Reported(n)
    BY <1>go, <1>same, <2>1 DEF Reported
  <2>7. \A d \in sent : Kept(d) => Kept(d)'
    BY <1>same DEF Kept
  <2> QED BY <1>go, <1>same, <1>q, <2>3, <2>4, <2>5, <2>6, <2>7 DEF Flow
<1>1. CASE PollBegin(p)
  <2>1. /\ queue' = queue /\ uiq' = uiq /\ pollers[p].items = {} /\ pollers[p].todo = {}
        /\ pollers[p].kind = "poller"
    BY <1>1, <1>t DEF PollBegin, Polls, PollShape
  <2>2. CASE pollers' = [pollers EXCEPT ![p] = Free]
    BY <2>1, <2>2, <1>p, <1>go
  <2>3. CASE pollers' = [pollers EXCEPT ![p].node = client]
    <3>1. PICK t : t = [pollers[p] EXCEPT !.node = client]
      OBVIOUS
    <3>2. t.items = {} /\ t.todo = {} /\ \A n : ~Reports(n, t)
      BY <1>t, <2>1, <3>1 DEF Thread, Reports
    <3>3. pollers' = [pollers EXCEPT ![p] = t]
      BY <2>3, <3>1
    <3> QED BY <2>1, <3>2, <3>3, <1>go
  <2> QED BY <1>1, <2>2, <2>3 DEF PollBegin
<1>2. CASE PollFetch(p)
  <2>1. /\ queue' = queue /\ uiq' = uiq /\ pollers[p].items = {} /\ pollers[p].todo = {}
        /\ pollers[p].kind = "poller"
    BY <1>2, <1>t DEF PollFetch, Polls, PollShape, Free
  <2>2. CASE Again(p)
    BY <2>1, <2>2, <1>p, <1>go DEF Again
  <2>3. CASE pollers' = [pollers EXCEPT ![p] = Fetched(pollers[p])]
    <3>1. PICK t : t = Fetched(pollers[p])
      OBVIOUS
    <3>2. t.items = {} /\ t.todo \subseteq queue /\ \A n : ~Reports(n, t)
      BY <1>t, <2>1, <3>1 DEF Thread, Reports, Fetched, Of
    <3>3. pollers' = [pollers EXCEPT ![p] = t]
      BY <2>3, <3>1
    <3> QED BY <2>1, <3>2, <3>3, <1>go
  <2> QED BY <1>2, <2>2, <2>3 DEF PollFetch
<1>3. CASE PollAck(p)
  <2>1. PICK d \in pollers[p].todo, ok \in BOOLEAN :
          AckNow(d, ok) /\ pollers' = [pollers EXCEPT ![p] = Acked(pollers[p], d, ok)]
    BY <1>3 DEF PollAck
  <2>2. uiq' = uiq /\ pollers[p].kind = "poller"
    BY <1>3, <1>t, <2>1 DEF PollAck, Polls, PollShape, Free
  <2>3. PICK t : t = Acked(pollers[p], d, ok)
    OBVIOUS
  <2>4. /\ t.items = pollers[p].items \cup {d} /\ t.todo = pollers[p].todo \ {d} /\ \A n : ~Reports(n, t)
    BY <1>t, <2>2, <2>3 DEF Thread, Reports, Acked
  <2>5. queue' \subseteq queue /\ \A c \in queue : c \in queue' \/ c = d
    BY <2>1 DEF AckNow
  <2> QED BY <2>1, <2>2, <2>3, <2>4, <2>5, <1>go
<1>4. CASE PollPut(p)
  <2> DEFINE e == Entry("poller", pollers[p])
  <2>1. /\ queue' = queue /\ uiq' = Append(uiq, e) /\ pollers[p].todo = {}
        /\ pollers' = [pollers EXCEPT ![p] = Polling]
    BY <1>4 DEF PollPut, Polls, Again
  <2>2. e \in EntryType /\ e.items = pollers[p].items /\ \A n : ~Reports(n, e)
    BY <1>t, EntryTyped DEF Entry, Reports
  <2> HIDE DEF e
  <2>3. /\ \A d : QueueHas(d, uiq') <=> QueueHas(d, uiq) \/ d \in e.items
        /\ \A n : QueueReports(n, uiq') <=> QueueReports(n, uiq) \/ Reports(n, e)
    BY <1>t, <2>1, <2>2, QueueAppended
  <2> QED BY <2>1, <2>2, <2>3, <1>p, <1>go
<1> QED BY <1>1, <1>2, <1>3, <1>4 DEF PollStep

\* A job is started, and the queue has lost at most an entry that held nothing.
LEMMA RunBgHands ==
  ASSUME FlowPre, NEW kind \in Command, NEW n, NEW q \in Seq(EntryType), RunBg(kind, n, q),
         q = uiq \/ (uiq # <<>> /\ q = Tail(uiq) /\ Head(uiq).items = {}), pollers' = pollers
  PROVE  (\A d : InHands(d)' <=> InHands(d)) /\ \A m : Reported(m)' => Reported(m)
<1>1. PICK j \in Job : /\ jobs[j] = Free /\ uiq' = Append(q, Busy)
                       /\ jobs' = [jobs EXCEPT ![j] = [Free EXCEPT !.kind = kind, !.node = n]]
  BY DEF RunBg
<1>2. PICK t : t = [Free EXCEPT !.kind = kind, !.node = n]
  OBVIOUS
<1>3. /\ t.items = {} /\ t.todo = {} /\ (\A m : ~Reports(m, t))
      /\ jobs[j].items = {} /\ jobs[j].todo = {}
      /\ Busy \in EntryType /\ Busy.items = {} /\ (\A m : ~Reports(m, Busy))
  BY <1>1, <1>2, FreeTyped DEF Free, Reports, Busy, Entry
<1>4. jobs \in [Job -> Thread] /\ uiq \in Seq(EntryType)
  BY DEF FlowPre, Typed
<1>5. /\ \A d : ThreadsHave(d, Job, jobs') => ThreadsHave(d, Job, jobs) \/ d \in t.items \cup t.todo
      /\ \A d : ThreadsHave(d, Job, jobs) => ThreadsHave(d, Job, jobs') \/ d \in jobs[j].items \cup jobs[j].todo
      /\ \A m : ThreadsReport(m, Job, jobs') => ThreadsReport(m, Job, jobs) \/ Reports(m, t)
  <2>1. jobs' = [jobs EXCEPT ![j] = t]
    BY <1>1, <1>2
  <2> QED BY <2>1, <1>4, ThreadsGoOn
<1>6. /\ \A d : QueueHas(d, uiq') <=> QueueHas(d, q) \/ d \in Busy.items
      /\ \A m : QueueReports(m, uiq') <=> QueueReports(m, q) \/ Reports(m, Busy)
  BY <1>1, <1>3, QueueAppended
<1>7. /\ \A d : QueueHas(d, q) <=> QueueHas(d, uiq)
      /\ \A m : QueueReports(m, q) => QueueReports(m, uiq)
  BY <1>4, QueueTaken
<1>8. ASSUME NEW d PROVE InHands(d)' <=> InHands(d)
  BY <1>3, <1>5, <1>6, <1>7 DEF InHands
<1>9. ASSUME NEW m PROVE Reported(m)' => Reported(m)
  BY <1>3, <1>5, <1>6, <1>7 DEF Reported
<1> QED BY <1>8, <1>9

LEMMA FlowUser ==
  ASSUME FlowPre, GiveCommand \/ RegisterNode \/ Toggle \/ \E n \in Node : DeleteHistory(n)
  PROVE  Flow
<1>q. uiq \in Seq(EntryType)
  BY DEF FlowPre, Typed
<1>1. CASE GiveCommand \/ RegisterNode
  <2>1. /\ UNCHANGED <<live, queue, sent, link, seen, seenFile, history, lost, deleted, pollers>>
        /\ \E kind \in Command : \E n : RunBg(kind, n, uiq)
    BY <1>1 DEF GiveCommand, Start, RegisterNode, Command
  <2>2. (\A d : InHands(d)' <=> InHands(d)) /\ \A m : Reported(m)' => Reported(m)
    BY <1>q, <2>1, RunBgHands
  <2> QED BY <2>1, <2>2, FlowStill
<1>2. CASE Toggle
  <2>1. UNCHANGED <<live, queue, sent, link, seen, seenFile, history, lost, deleted, jobs, uiq>>
    BY <1>2 DEF Toggle
  <2>2. /\ \A d : ThreadsHave(d, Poller, pollers') <=> ThreadsHave(d, Poller, pollers)
        /\ \A m : ThreadsReport(m, Poller, pollers') => ThreadsReport(m, Poller, pollers)
    <3>1. CASE pollers' = pollers
      BY <3>1
    <3>2. ASSUME NEW p \in Poller, pollers[p] = Free, pollers' = [pollers EXCEPT ![p] = Polling]
          PROVE  /\ \A d : ThreadsHave(d, Poller, pollers') <=> ThreadsHave(d, Poller, pollers)
                 /\ \A m : ThreadsReport(m, Poller, pollers') => ThreadsReport(m, Poller, pollers)
      <4>1. /\ Polling.items = {} /\ Polling.todo = {} /\ (\A n : ~Reports(n, Polling))
            /\ Free.items = {} /\ Free.todo = {} /\ pollers \in [Poller -> Thread]
        BY DEF Polling, Free, Reports, FlowPre, Typed
      <4> QED BY <3>2, <4>1, ThreadsGoOn
    <3> QED BY <1>2, <3>1, <3>2 DEF Toggle, StartPolling
  <2>3. (\A d : InHands(d)' <=> InHands(d)) /\ \A m : Reported(m)' => Reported(m)
    BY <2>1, <2>2 DEF InHands, Reported
  <2> QED BY <2>1, <2>3, FlowStill
<1>3. ASSUME NEW n \in Node, DeleteHistory(n) PROVE Flow
  <2>1. UNCHANGED <<live, queue, sent, link, seen, seenFile, lost, jobs, pollers, uiq>>
    BY <1>3 DEF DeleteHistory
  <2>2. \A d \in sent : Kept(d) => Kept(d)'
    <3>1. \A d \in Delivery : history'[d] = IF d.node = n THEN 0 ELSE history[d]
      BY <1>3 DEF DeleteHistory
    <3>2. deleted' = deleted \cup {d \in Delivery : d.node = n /\ history[d] > 0}
      BY <1>3 DEF DeleteHistory
    <3>3. sent \subseteq Delivery
      BY DEF FlowPre, Typed
    <3> QED BY <2>1, <3>1, <3>2, <3>3 DEF Kept
  <2>3. (\A d : InHands(d)' <=> InHands(d)) /\ \A m : Reported(m)' => Reported(m)
    BY <2>1 DEF InHands, Reported
  <2> QED BY <2>1, <2>2, <2>3 DEF Flow, FlowPre, SentInv
<1> QED BY <1>1, <1>2, <1>3

\* The window takes an entry, and the threads go on as before.
LEMMA HandsTaken ==
  ASSUME FlowPre, uiq # <<>>, uiq' = Tail(uiq), jobs' = jobs, pollers' = pollers
  PROVE  /\ \A d : InHands(d) <=> InHands(d)' \/ d \in Head(uiq).items
         /\ \A n : Reported(n) <=> Reported(n)' \/ Reports(n, Head(uiq))
<1>1. uiq \in Seq(EntryType)
  BY DEF FlowPre, Typed
<1>2. /\ \A d : QueueHas(d, uiq) <=> QueueHas(d, uiq') \/ d \in Head(uiq).items
      /\ \A n : QueueReports(n, uiq) <=> QueueReports(n, uiq') \/ Reports(n, Head(uiq))
  BY <1>1, QueueTaken
<1>3. ASSUME NEW d PROVE InHands(d) <=> InHands(d)' \/ d \in Head(uiq).items
  BY <1>2 DEF InHands
<1>4. ASSUME NEW n PROVE Reported(n) <=> Reported(n)' \/ Reports(n, Head(uiq))
  BY <1>2 DEF Reported
<1> QED BY <1>3, <1>4

\* What the entry that the window takes may hold.
LEMMA TakenShape ==
  ASSUME Typed, ShapeInv, NEW kinds, Showing(kinds)
  PROVE  /\ Head(uiq) \in EntryType /\ Head(uiq).kind \in kinds /\ uiq # <<>>
         /\ EntryShape(Head(uiq), link, live)
         /\ Head(uiq).kind \notin {"poll", "poller"} => Head(uiq).items = {}
<1>1. /\ Head(uiq) \in EntryType /\ Head(uiq).kind \in kinds /\ Head(uiq) = uiq[1] /\ uiq # <<>>
      /\ 1 \in DOMAIN uiq
  BY Taken DEF Showing
<1> QED BY <1>1 DEF ShapeInv, EntryShape

\* Items of the entry it takes are appended, lost, queued, or were seen before.
LEMMA FlowTake ==
  ASSUME FlowPre, Showing({"poller", "poll"}), NEW items, items = Head(uiq).items,
         NEW got \in SUBSET items, NEW appended, NEW filed, Take(got, appended, filed),
         lost \subseteq lost',
         \A d \in got : d \in seen \cup appended \cup lost',
         \A d \in items : d \in seen \cup appended \cup lost' \cup queue
  PROVE  Flow
<1>t. uiq # <<>> /\ Typed /\ items \subseteq Delivery
  BY TakenShape DEF FlowPre, EntryType
<1>2. /\ UNCHANGED <<live, queue, sent, link, seenFile, deleted, jobs, pollers>>
      /\ uiq' = Tail(uiq) /\ seen' = seen \cup got
      /\ history' = [d \in Delivery |-> IF d \in appended \ seen /\ history[d] = 0
                                        THEN history[d] + 1 ELSE history[d]]
  BY DEF Take, ToAppend
<1>3. /\ \A d : InHands(d) <=> InHands(d)' \/ d \in items
      /\ \A n : Reported(n) <=> Reported(n)' \/ Reports(n, Head(uiq))
  BY <1>2, <1>t, HandsTaken
<1>4. history \in [Delivery -> Nat] /\ seen \subseteq Delivery /\ sent \subseteq Delivery
  BY <1>t DEF Typed
<1>5. ASSUME NEW d \in Delivery, Kept(d) PROVE Kept(d)'
  <2>1. history[d] \in Nat /\ (history'[d] = history[d] \/ history'[d] = history[d] + 1)
    BY <1>2, <1>4
  <2> QED BY <1>2, <1>5, <2>1 DEF Kept
<1>6. ASSUME NEW d \in items, d \in seen \cup appended \cup lost' PROVE Kept(d)'
  <2>2. CASE d \in seen
    <3>1. Kept(d)
      BY <2>2 DEF FlowPre, AccountInv
    <3> QED BY <1>t, <3>1, <1>5
  <2>3. CASE d \in appended /\ d \notin seen
    <3>1. history[d] \in Nat /\ history'[d] = IF history[d] = 0 THEN history[d] + 1 ELSE history[d]
      BY <1>2, <1>4, <1>t, <2>3
    <3>2. history'[d] > 0
      BY <3>1
    <3> QED BY <3>2 DEF Kept
  <2>4. CASE d \in lost'
    BY <2>4 DEF Kept
  <2> QED BY <1>6, <2>2, <2>3, <2>4
<1>7. \A d \in queue' : d.node \in live' /\ d \in queue
  BY <1>2 DEF FlowPre, SentInv
<1>8. \A d \in seen' \cup seenFile' : d \in seen \cup seenFile \/ (InHands(d) /\ Kept(d)')
  BY <1>2, <1>3, <1>6
<1>9. /\ \A d \in Delivery : InHands(d)' => InHands(d)
      /\ \A d \in Delivery : InHands(d) => InHands(d)' \/ d \in queue' \/ Kept(d)'
      /\ \A d \in sent : Kept(d) => Kept(d)'
      /\ \A n \in Node : Reported(n)' => Reported(n)
  BY <1>2, <1>3, <1>4, <1>5, <1>6
<1> QED BY <1>2, <1>7, <1>8, <1>9 DEF Flow

LEMMA FlowReceive == ASSUME FlowPre, Receive \/ ReceiveRaises PROVE Flow
<1>1. CASE Receive
  <2>1. PICK items : items = Head(uiq).items
    OBVIOUS
  <2>2. /\ Showing({"poller", "poll"}) /\ lost' = lost
        /\ Take(items \ seen, items, items \ seen)
    BY <1>1, <2>1 DEF Receive
  <2> QED BY <2>1, <2>2, FlowTake
<1>2. CASE ReceiveRaises
  <2>1. PICK items, got, appended, filed, failed : Raises(items, got, appended, filed, failed)
    BY <1>2, RaisedAt
  <2>2. Showing({"poller", "poll"})
    BY <1>2 DEF ReceiveRaises
  <2> QED BY <2>1, <2>2, FlowTake DEF Raises
<1> QED BY <1>1, <1>2

LEMMA FlowWindow == ASSUME FlowPre, UiStep PROVE Flow
<1>t. uiq \in Seq(EntryType) /\ Typed /\ ShapeInv /\ sent \subseteq Delivery
      /\ history \in [Delivery -> Nat]
  BY DEF FlowPre, Typed
<1>c. "refresh" \in Command
  BY DEF Command
\* An entry without deliveries is taken.
<1>take. ASSUME uiq # <<>>, uiq' = Tail(uiq), Head(uiq).items = {},
                UNCHANGED <<live, queue, sent, link, seen, seenFile, history, lost, deleted, jobs, pollers>>
         PROVE  Flow
  <2>1. /\ \A d : InHands(d) <=> InHands(d)'
        /\ \A n : Reported(n)' => Reported(n)
    BY <1>take, HandsTaken
  <2> QED BY <1>take, <2>1, FlowStill
<1>1. CASE Count
  <2>1. uiq # <<>> /\ Head(uiq).items = {}
    BY <1>1, <1>t, TakenShape DEF Count
  <2> QED BY <1>1, <2>1, <1>take DEF Count
<1>2. CASE SaveSeen
  <2>1. /\ UNCHANGED <<live, queue, sent, link, seen, history, lost, deleted, pollers>>
        /\ RunBg("refresh", Loaded, uiq) /\ seenFile' = seen
    BY <1>2 DEF SaveSeen
  <2>2. (\A d : InHands(d)' <=> InHands(d)) /\ \A m : Reported(m)' => Reported(m)
    BY <1>c, <1>t, <2>1, RunBgHands
  <2>3. \A d \in sent : Kept(d) => Kept(d)'
    BY <2>1 DEF Kept
  <2> QED BY <2>1, <2>2, <2>3 DEF Flow, FlowPre, SentInv
<1>3. CASE ShowLinks
  <2>1. uiq # <<>> /\ Head(uiq).items = {}
    BY <1>3, <1>t, TakenShape DEF ShowLinks
  <2> QED BY <1>3, <2>1, <1>take DEF ShowLinks
<1>4. CASE Refreshing
  <2>1. uiq # <<>> /\ Head(uiq).items = {}
    BY <1>4, <1>t, TakenShape DEF Refreshing
  <2>2. /\ UNCHANGED <<live, queue, sent, link, seen, seenFile, history, lost, deleted, pollers>>
        /\ RunBg("refresh", Loaded, Tail(uiq)) /\ Tail(uiq) \in Seq(EntryType)
    BY <1>4, <1>t, <2>1 DEF Refreshing
  <2>3. (\A d : InHands(d)' <=> InHands(d)) /\ \A m : Reported(m)' => Reported(m)
    BY <1>c, <2>1, <2>2, RunBgHands
  <2> QED BY <2>2, <2>3, FlowStill
<1>5. CASE ShowSevered
  <2>1. uiq # <<>> /\ Head(uiq).items = {}
    BY <1>5, <1>t, TakenShape DEF ShowSevered
  <2> QED BY <1>5, <2>1, <1>take DEF ShowSevered
<1>6. CASE ShowDeleted
  <2>1. uiq # <<>> /\ Head(uiq).items = {}
    BY <1>6, <1>t, TakenShape DEF ShowDeleted
  <2>2. /\ UNCHANGED <<live, queue, sent, link, lost, jobs, pollers>>
        /\ seen' = {} /\ seenFile' = {} /\ uiq' = Tail(uiq)
        /\ deleted' = deleted \cup {d \in Delivery : history[d] > 0}
    BY <1>6 DEF ShowDeleted
  <2>3. /\ \A d : InHands(d) <=> InHands(d)'
        /\ \A n : Reported(n)' => Reported(n)
    BY <2>1, <2>2, HandsTaken
  <2>4. \A d \in sent : Kept(d) => Kept(d)'
    BY <1>t, <2>2 DEF Kept
  <2> QED BY <2>2, <2>3, <2>4 DEF Flow, FlowPre, SentInv
<1>7. CASE ShowError
  <2>1. uiq # <<>> /\ Head(uiq).items = {}
    BY <1>7, <1>t, TakenShape DEF ShowError
  <2> QED BY <1>7, <2>1, <1>take DEF ShowError
<1> QED BY <1>1, <1>2, <1>3, <1>4, <1>5, <1>6, <1>7, FlowReceive DEF UiStep

\* After a restart nothing is in hand.
LEMMA RestartHands ==
  ASSUME NEW torn \in BOOLEAN, Restart(torn)
  PROVE  (\A d : ~InHands(d)') /\ (\A n : ~Reported(n)')
<1>1. /\ uiq' = <<Busy>>
      /\ \A j \in Job : jobs'[j] \in {Free, [Free EXCEPT !.kind = "refresh", !.node = identity]}
      /\ \A p \in Poller : pollers'[p] \in {Free, Polling}
  BY DEF Restart
<1>2. ASSUME NEW t \in {Free, Polling, [Free EXCEPT !.kind = "refresh", !.node = identity]}
      PROVE  t.items = {} /\ t.todo = {} /\ \A n : ~Reports(n, t)
  <2>1. CASE t = Free
    BY <2>1 DEF Free, Reports
  <2>2. CASE t = Polling
    BY <2>2 DEF Free, Polling, Reports
  <2>3. CASE t = [Free EXCEPT !.kind = "refresh", !.node = identity]
    BY <2>3 DEF Free, Reports
  <2> QED BY <1>2, <2>1, <2>2, <2>3
<1>3. Busy.items = {} /\ \A n : ~Reports(n, Busy)
  BY DEF Busy, Entry, Free, Reports
<1>4. \A i \in DOMAIN uiq' : uiq'[i] = Busy
  BY <1>1
<1>5. /\ \A d : ~ThreadsHave(d, Job, jobs') /\ ~ThreadsHave(d, Poller, pollers') /\ ~QueueHas(d, uiq')
      /\ \A n : /\ ~ThreadsReport(n, Job, jobs') /\ ~ThreadsReport(n, Poller, pollers')
                /\ ~QueueReports(n, uiq')
  BY <1>1, <1>2, <1>3, <1>4 DEF ThreadsHave, ThreadsReport, QueueHas, QueueReports
<1>6. ASSUME NEW d PROVE ~InHands(d)'
  BY <1>5 DEF InHands
<1>7. ASSUME NEW n PROVE ~Reported(n)'
  BY <1>5 DEF Reported
<1> QED BY <1>6, <1>7

LEMMA FlowSteps == FlowPre /\ [Next]_vars => Flow
<1> SUFFICES ASSUME FlowPre, [Next]_vars PROVE Flow
  OBVIOUS
<1>1. ASSUME NEW d \in Delivery, RemoteSend(d) PROVE Flow
  <2>1. /\ UNCHANGED <<live, link, seen, seenFile, history, lost, deleted, jobs, pollers, uiq>>
        /\ d.node \in live /\ link[d.node] = "active"
        /\ sent' = sent \cup {d} /\ queue' = queue \cup {d}
    BY <1>1 DEF RemoteSend
  <2>2. (\A c : InHands(c)' <=> InHands(c)) /\ \A m : Reported(m)' <=> Reported(m)
    BY <2>1 DEF InHands, Reported
  <2>3. \A c \in sent : Kept(c) => Kept(c)'
    BY <2>1 DEF Kept
  <2> QED BY <2>1, <2>2, <2>3 DEF Flow, FlowPre, SentInv
<1>2. ASSUME NEW torn \in BOOLEAN, Restart(torn) PROVE Flow
  <2>1. (\A d : ~InHands(d)') /\ (\A n : ~Reported(n)')
    BY <1>2, RestartHands
  <2>2. /\ UNCHANGED <<live, link, queue, sent, history, deleted>>
        /\ lost' = lost \cup (InHand \ queue)
        /\ seen' \subseteq seenFile /\ seenFile' = seen'
    BY <1>2 DEF Restart
  <2>3. \A d : InHands(d) <=> d \in InHand
    BY HandsAre DEF FlowPre
  <2>4. \A d \in Delivery : InHands(d) => d \in queue' \/ Kept(d)'
    BY <2>2, <2>3 DEF Kept
  <2>5. \A d \in sent : Kept(d) => Kept(d)'
    BY <2>2 DEF Kept
  <2> QED BY <2>1, <2>2, <2>4, <2>5 DEF Flow, FlowPre, SentInv
<1>3. CASE CloseBox \/ UNCHANGED vars
  <2>1. UNCHANGED <<live, link, queue, sent, seen, seenFile, history, lost, deleted, jobs, pollers, uiq>>
    BY <1>3 DEF CloseBox, vars
  <2>2. (\A c : InHands(c)' <=> InHands(c)) /\ \A m : Reported(m)' <=> Reported(m)
    BY <2>1 DEF InHands, Reported
  <2> QED BY <2>1, <2>2, FlowStill
<1> QED BY <1>1, <1>2, <1>3, FlowJobs, FlowPollers, FlowUser, FlowWindow DEF Next

\* So what was sent stays accounted for.
LEMMA AccountSteps ==
  ASSUME FlowPre, Flow, RelayMoves, Typed' PROVE SentInv' /\ AccountInv'
<1>t. sent \subseteq Delivery /\ sent' \subseteq Delivery /\ queue \subseteq sent
      /\ live' \subseteq Node /\ seen \subseteq sent /\ seenFile \subseteq sent
  BY DEF FlowPre, Typed, SentInv
<1>1. /\ queue' \subseteq sent' /\ \A d \in queue' : d.node \in live'
  BY <1>t DEF Flow
<1>2. \A d \in Delivery : InHands(d)' => d \in sent'
  BY <1>t DEF Flow, FlowPre, SentInv
<1>3. /\ seen' \subseteq sent' /\ seenFile' \subseteq sent'
      /\ \A d \in seen' \cup seenFile' : Kept(d)'
  <2>1. ASSUME NEW d \in seen' \cup seenFile' PROVE d \in sent' /\ Kept(d)'
    <3>1. d \in Delivery
      BY <2>1 DEF Typed
    <3>2. CASE d \in seen \cup seenFile
      <4>1. d \in sent /\ Kept(d)
        BY <1>t, <3>2 DEF FlowPre, AccountInv
      <4> QED BY <4>1 DEF Flow
    <3>3. CASE InHands(d) /\ Kept(d)'
      BY <3>1, <3>3 DEF Flow, FlowPre, SentInv
    <3> QED BY <3>2, <3>3, <2>1 DEF Flow
  <2> QED BY <2>1
<1>4. \A d \in sent' : link'[d.node] # "unused"
  <2>1. ASSUME NEW d \in sent' PROVE link'[d.node] # "unused"
    <3>1. CASE d \in sent
      <4>1. d.node \in Node /\ link[d.node] # "unused"
        BY <1>t, <3>1 DEF FlowPre, SentInv, Delivery
      <4> QED BY <4>1 DEF RelayMoves, Moves
    <3>2. CASE d \notin sent
      BY <3>2 DEF Flow
    <3> QED BY <3>1, <3>2
  <2> QED BY <2>1
<1>5. \A d \in sent' : d \in queue' \/ InHands(d)' \/ Kept(d)'
  <2>1. ASSUME NEW d \in sent' PROVE d \in queue' \/ InHands(d)' \/ Kept(d)'
    <3>1. d \in Delivery
      BY <1>t
    <3>2. CASE d \notin sent
      BY <3>2 DEF Flow
    <3>3. CASE d \in sent
      <4>1. d \in queue \/ InHands(d) \/ Kept(d)
        BY <3>3 DEF FlowPre, AccountInv
      <4> QED BY <3>1, <3>3, <4>1 DEF Flow
    <3> QED BY <3>2, <3>3
  <2> QED BY <2>1
<1> QED BY <1>1, <1>2, <1>3, <1>4, <1>5 DEF SentInv, AccountInv

----------------------------------------------------------------------------
(* What the window shows.                                                  *)

\* What one step does to the history, the records, and what the user removed.
Views ==
  /\ \A d \in Delivery : \/ history'[d] \in {history[d], 0}
                         \/ history[d] = 0 /\ history'[d] = 1 /\ InHands(d)
  /\ \A n \in Node :
       \/ record'[n] \in {record[n], "none"}
       \/ record'[n] = "server" /\ Reported(n)
       \/ record'[n] = "stub" /\ \E d \in Delivery : d.node = n /\ InHands(d)
       \/ /\ record[n] # "none" /\ record'[n] = "severed" /\ link[n] = "revoked"
          /\ Reported(n) => n \in overtaken'
  /\ overtaken \subseteq overtaken'
  /\ \A n \in gone' \ gone :
       /\ n \notin live /\ link[n] # "unused" /\ record'[n] = "none" /\ ~Reported(n)
       /\ \A d \in Delivery : d.node = n => history'[d] = 0 /\ ~InHands(d)

LEMMA ViewsStill ==
  ASSUME UNCHANGED <<history, record, overtaken, gone>> PROVE Views
  BY DEF Views

LEMMA ViewsReceive == ASSUME FlowPre, Receive \/ ReceiveRaises PROVE Views
<1>1. PICK items, got, appended, filed, failed :
         /\ items = Head(uiq).items /\ got \subseteq items
         /\ appended \subseteq items /\ filed \subseteq items
         /\ Take(got, appended, filed)
  <2>1. CASE Receive
    <3>1. PICK items : items = Head(uiq).items
      OBVIOUS
    <3>2. Take(items \ seen, items, items \ seen)
      BY <2>1, <3>1 DEF Receive
    <3> QED BY <3>1, <3>2
  <2>2. CASE ReceiveRaises
    BY <2>2, RaisedAt DEF Raises
  <2> QED BY <2>1, <2>2
<1>t. /\ uiq # <<>> /\ items \subseteq Delivery
      /\ record \in [Node -> {"none", "server", "stub", "severed"}]
      /\ history \in [Delivery -> Nat]
  BY <1>1, TakenShape DEF FlowPre, Receive, ReceiveRaises, EntryType, Typed
<1>2. /\ UNCHANGED <<overtaken, gone, jobs, pollers>> /\ uiq' = Tail(uiq)
      /\ history' = [d \in Delivery |-> IF d \in appended \ seen /\ history[d] = 0
                                        THEN history[d] + 1 ELSE history[d]]
      /\ record' = [n \in Node |-> IF record[n] = "none" /\ \E d \in filed : d.node = n
                                   THEN "stub" ELSE record[n]]
  BY <1>1 DEF Take, ToAppend
<1>3. \A d \in items : InHands(d) /\ d \in Delivery
  BY <1>1, <1>2, <1>t, HandsTaken
<1>4. ASSUME NEW d \in Delivery
      PROVE  \/ history'[d] \in {history[d], 0}
             \/ history[d] = 0 /\ history'[d] = 1 /\ InHands(d)
  BY <1>1, <1>2, <1>3
<1>5. ASSUME NEW n \in Node
      PROVE  \/ record'[n] \in {record[n], "none"}
             \/ record'[n] = "stub" /\ \E d \in Delivery : d.node = n /\ InHands(d)
  BY <1>1, <1>2, <1>3
<1> QED BY <1>2, <1>4, <1>5 DEF Views

LEMMA ViewsWindow == ASSUME FlowPre, UiStep PROVE Views
<1>t. /\ Typed /\ ShapeInv /\ record \in [Node -> {"none", "server", "stub", "severed"}]
      /\ history \in [Delivery -> Nat]
  BY DEF FlowPre, Typed
<1>l. (\A d : d \in InHand <=> InHands(d)) /\ (\A n : Lists(n) <=> Reported(n))
  BY <1>t, HandsAre
<1>1. CASE Count \/ ShowError \/ SaveSeen
  BY <1>1, ViewsStill DEF Count, ShowError, SaveSeen
<1>5. CASE Refreshing
  <2>1. /\ uiq # <<>> /\ Head(uiq) \in EntryType /\ Head(uiq).kind \in {"redeem", "register"}
        /\ Head(uiq).kind = "redeem" => Head(uiq).told = "active" /\ Head(uiq).node \in Node
    BY <1>5, <1>t, TakenShape DEF Refreshing, EntryShape
  <2>2. /\ UNCHANGED <<history, overtaken, gone>>
        /\ IF Head(uiq).kind = "redeem" THEN record' \in Upserted(Head(uiq).node)
           ELSE record' = record
    BY <1>5 DEF Refreshing
  <2>3. \A n : Reports(n, Head(uiq)) => Reported(n)
    <3>1. uiq \in Seq(EntryType)
      BY <1>t DEF Typed
    <3>2. \A n : Reports(n, Head(uiq)) => QueueReports(n, uiq)
      BY <2>1, <3>1, QueueTaken
    <3> QED BY <3>2 DEF Reported
  <2>4. ASSUME NEW n \in Node
        PROVE  record'[n] \in {record[n], "none"} \/ (record'[n] = "server" /\ Reported(n))
    <3>1. CASE record' = record
      BY <3>1
    <3>2. CASE record' # record
      <4>1. Head(uiq).kind = "redeem" /\ record' = [record EXCEPT ![Head(uiq).node] = "server"]
        BY <2>2, <3>2 DEF Upserted
      <4>2. Reported(Head(uiq).node)
        BY <2>1, <2>3, <4>1 DEF Reports
      <4> QED BY <1>t, <4>1, <4>2
    <3> QED BY <3>1, <3>2
  <2> QED BY <2>2, <2>4 DEF Views
<1>2. CASE ShowLinks
  <2>1. uiq # <<>> /\ Head(uiq).kind = "refresh"
    BY <1>2, <1>t, TakenShape DEF ShowLinks
  <2>2. /\ UNCHANGED <<history, overtaken, gone, jobs, pollers>> /\ uiq' = Tail(uiq)
        /\ record' = Rebuilt(Head(uiq).node, Head(uiq).told)
    BY <1>2 DEF ShowLinks
  <2>3. \A n : Reports(n, Head(uiq)) => Reported(n)
    BY <2>1, <2>2, HandsTaken
  <2>4. \A n \in Node : record'[n] \in {record[n], "none"} \/ (record'[n] = "server" /\ Reported(n))
    BY <1>t, <2>1, <2>2, <2>3 DEF Rebuilt, Reports
  <2> QED BY <2>2, <2>4 DEF Views
<1>6. CASE ShowSevered /\ Head(uiq).told # "revoked"
  BY <1>6, ViewsStill DEF ShowSevered
<1>3. CASE ShowSevered /\ Head(uiq).told = "revoked"
  <2>1. PICK n : n = Head(uiq).node
    OBVIOUS
  <2>2. /\ link[n] = "revoked" /\ n \in Node
    BY <1>3, <1>t, <2>1, TakenShape DEF ShowSevered, EntryShape
  <2>3. /\ UNCHANGED <<history, gone>>
        /\ overtaken' = overtaken \cup {i \in {n} : Lists(i)}
        /\ record' = [record EXCEPT ![n] = IF @ = "none" THEN @ ELSE "severed"]
    BY <1>3, <2>1 DEF ShowSevered, MarkSevered
  <2>4. Reported(n) => n \in overtaken'
    BY <1>l, <2>3
  <2>5. \A i \in Node : \/ record'[i] \in {record[i], "none"}
                        \/ record[i] # "none" /\ record'[i] = "severed" /\ i = n
    BY <1>t, <2>3
  <2> QED BY <2>2, <2>3, <2>4, <2>5 DEF Views
<1>4. CASE ShowDeleted
  <2>1. PICK n : n = Head(uiq).node
    OBVIOUS
  <2>2. n \notin live /\ link[n] # "unused" /\ n \in Node
    BY <1>4, <1>t, <2>1, TakenShape DEF ShowDeleted, EntryShape
  <2>3. /\ history' = [d \in Delivery |-> 0] /\ record' = [i \in Node |-> "none"]
        /\ overtaken' = overtaken
        /\ gone' = gone \cup {i \in {n} : ~Lists(i) /\ \A d \in InHand : d.node # i}
    BY <1>4, <2>1 DEF ShowDeleted
  <2>4. ASSUME NEW i \in gone' \ gone
        PROVE  /\ i = n /\ ~Reported(i) /\ \A d \in Delivery : d.node = i => ~InHands(d)
    BY <1>l, <2>3
  <2> QED BY <2>2, <2>3, <2>4 DEF Views
<1> QED BY <1>1, <1>2, <1>3, <1>4, <1>5, <1>6, ViewsReceive DEF UiStep

LEMMA ViewsSteps == FlowPre /\ [Next]_vars => Views
<1> SUFFICES ASSUME FlowPre, [Next]_vars PROVE Views
  OBVIOUS
<1>1. ASSUME NEW n \in Node, DeleteHistory(n) PROVE Views
  <2>1. /\ \A d \in Delivery : history'[d] \in {history[d], 0}
        /\ \A i \in Node : record'[i] \in {record[i], "none"}
        /\ UNCHANGED <<overtaken, gone>>
    BY <1>1 DEF DeleteHistory, FlowPre, Typed
  <2> QED BY <2>1 DEF Views
<1>2. CASE (\E d \in Delivery : RemoteSend(d)) \/ (\E torn \in BOOLEAN : Restart(torn)) \/ UNCHANGED vars
  <2>1. UNCHANGED <<history, record, overtaken, gone>>
    <3>1. CASE \E d \in Delivery : RemoteSend(d)
      BY <3>1 DEF RemoteSend
    <3>2. CASE \E torn \in BOOLEAN : Restart(torn)
      BY <3>2 DEF Restart
    <3>3. CASE UNCHANGED vars
      BY <3>3 DEF vars
    <3> QED BY <1>2, <3>1, <3>2, <3>3
  <2> QED BY <2>1, ViewsStill
<1>3. CASE GiveCommand \/ RegisterNode \/ Toggle \/ CloseBox
  BY <1>3, ViewsStill DEF GiveCommand, Start, RegisterNode, Toggle, CloseBox
<1>4. ASSUME NEW j \in Job, JobStep(j) PROVE Views
  <2>1. UNCHANGED <<history, record, overtaken, gone>>
    BY <1>4 DEF JobStep, Put, Failed, Refresh, Revoke, Redeem, DeleteIdentity, RegisterCall,
                RegisterSave, FetchOnce, AckOnce, Except, Goto, Told, Others
  <2> QED BY <2>1, ViewsStill
<1>5. ASSUME NEW p \in Poller, PollStep(p) PROVE Views
  <2>1. UNCHANGED <<history, record, overtaken, gone>>
    BY <1>5 DEF PollStep, PollBegin, PollFetch, PollAck, PollPut, Polls
  <2> QED BY <2>1, ViewsStill
<1> QED BY <1>1, <1>2, <1>3, <1>4, <1>5, ViewsWindow DEF Next

\* A node that was deleted while nothing was under way for it.
GoneInv ==
  \A n \in gone : /\ n \notin live /\ link[n] # "unused" /\ record[n] = "none" /\ ~Reported(n)
                  /\ \A d \in Delivery : d.node = n => history[d] = 0 /\ ~InHands(d)

\* A contact that is shown as severed.
SeverInv ==
  \A n \in Node : record[n] = "severed" => link[n] = "revoked" /\ (Reported(n) => n \in overtaken)

LEMMA RemovedSteps ==
  ASSUME FlowPre, GoneInv, SeverInv, Flow, Views, RelayMoves, Typed'
  PROVE  /\ GoneInv' /\ SeverInv'
         /\ \A n \in Node :
              /\ n \in gone' => record'[n] = "none" /\ \A d \in Delivery : d.node = n => history'[d] = 0
              /\ record[n] = "severed" /\ record'[n] = "server" => n \in overtaken
<1>t. /\ gone \subseteq Node /\ gone' \subseteq Node /\ live \subseteq Node
      /\ history \in [Delivery -> Nat]
      /\ \A d \in Delivery : d.node \in Node
  BY DEF FlowPre, Typed, Delivery
<1>1. ASSUME NEW n \in gone'
      PROVE  /\ n \notin live' /\ link'[n] # "unused" /\ record'[n] = "none" /\ ~Reported(n)'
             /\ \A d \in Delivery : d.node = n => history'[d] = 0 /\ ~InHands(d)'
  <2>1. /\ n \notin live /\ link[n] # "unused" /\ ~Reported(n) /\ n \in Node
        /\ \A d \in Delivery : d.node = n => ~InHands(d)
    BY <1>t, <1>1 DEF GoneInv, Views
  <2>2. n \notin live' /\ link'[n] # "unused"
    BY <2>1 DEF RelayMoves, Moves
  <2>3. ~Reported(n)'
    BY <2>1 DEF Flow
  <2>4. \A d \in Delivery : d.node = n => d \notin queue
    BY <2>1 DEF FlowPre, SentInv
  <2>5. \A d \in Delivery : d.node = n => ~InHands(d)'
    BY <2>1, <2>4 DEF Flow
  <2>6. CASE n \notin gone
    BY <1>1, <2>2, <2>3, <2>5, <2>6 DEF Views
  <2>7. CASE n \in gone
    <3>1. \A d \in Delivery : d.node = n => history'[d] = 0
      BY <2>1, <2>7 DEF GoneInv, Views
    <3>2. record'[n] = "none"
      BY <2>1, <2>7 DEF GoneInv, Views
    <3> QED BY <2>2, <2>3, <2>5, <3>1, <3>2
  <2> QED BY <2>6, <2>7
<1>2. ASSUME NEW n \in Node, record'[n] = "severed"
      PROVE  link'[n] = "revoked" /\ (Reported(n)' => n \in overtaken')
  <2>1. link[n] = "revoked" /\ (Reported(n) => n \in overtaken')
    BY <1>2 DEF Views, SeverInv
  <2>2. link'[n] = "revoked"
    BY <2>1 DEF RelayMoves, Moves
  <2>3. Reported(n)' => Reported(n)
    BY <2>2 DEF Flow
  <2> QED BY <2>1, <2>2, <2>3
<1>3. ASSUME NEW n \in Node, record[n] = "severed", record'[n] = "server" PROVE n \in overtaken
  <2>1. Reported(n)
    BY <1>3 DEF Views
  <2> QED BY <1>3, <2>1 DEF SeverInv
<1>4. GoneInv'
  BY <1>1 DEF GoneInv
<1>5. SeverInv'
  BY <1>2 DEF SeverInv
<1> QED BY <1>1, <1>3, <1>4, <1>5

LEMMA RemovedStart == Init => GoneInv /\ SeverInv
<1> SUFFICES ASSUME Init PROVE GoneInv /\ SeverInv
  OBVIOUS
<1>1. gone = {} /\ \A n \in Node : record[n] # "severed"
  BY DEF Init
<1> QED BY <1>1 DEF GoneInv, SeverInv

----------------------------------------------------------------------------
(* The count of commands at work.                                          *)

\* How many of the first k entries are of a kind, and what they add to the count.
Num(q, k, kind) == Cardinality({i \in 1 .. k : q[i].kind = kind})
Adds(q, k)      == Num(q, k, "busy") - Num(q, k, "idle")
AddsOne(e)      == IF e.kind = "busy" THEN 1 ELSE IF e.kind = "idle" THEN 0 - 1 ELSE 0

\* The count b stays within bounds while the window takes the entries of q.
Within(b, q) == \A k \in 0 .. Len(q) : b + Adds(q, k) \in 0 .. Cardinality(Job)
After(b, q)  == b + Adds(q, Len(q))

Working == {j \in Job : jobs[j] # Free}

BusyInv == Within(busy, uiq) /\ After(busy, uiq) = Cardinality(Working)

LEMMA JobNat == IsFiniteSet(Job) /\ Cardinality(Job) \in Nat \ {0} /\ 1 \in Job
<1>1. IsFiniteSet(Job) /\ Job # {} /\ Job = 1 .. Cardinality(Job)
  OBVIOUS
<1>2. Cardinality(Job) \in Nat
  BY <1>1, FS_CardinalityType
<1> QED BY <1>1, <1>2

LEMMA NumCounts ==
  ASSUME NEW q, NEW k \in Nat, NEW kind
  PROVE  /\ Num(q, k, kind) \in Nat /\ Num(q, 0, kind) = 0
         /\ Num(q, k + 1, kind) = Num(q, k, kind) + (IF q[k + 1].kind = kind THEN 1 ELSE 0)
<1> DEFINE S == {i \in 1 .. k : q[i].kind = kind}
           T == {i \in 1 .. k + 1 : q[i].kind = kind}
<1>1. IsFiniteSet(1 .. k)
  BY FS_Interval
<1>2. IsFiniteSet(S) /\ Cardinality(S) \in Nat
  BY <1>1, FS_Subset, FS_CardinalityType
<1>3. Num(q, 0, kind) = 0
  <2>1. {i \in 1 .. 0 : q[i].kind = kind} = {}
    OBVIOUS
  <2> QED BY <2>1, FS_EmptySet DEF Num
<1>4. k + 1 \notin S
  OBVIOUS
<1>5. CASE q[k + 1].kind = kind
  <2>1. T = S \cup {k + 1}
    BY <1>5
  <2> HIDE DEF S, T
  <2>2. Cardinality(T) = Cardinality(S) + 1
    BY <1>2, <1>4, <2>1, FS_AddElement
  <2> USE DEF S, T
  <2> QED BY <1>2, <1>3, <1>5, <2>2 DEF Num
<1>6. CASE q[k + 1].kind # kind
  <2>1. T = S
    BY <1>6
  <2> HIDE DEF S, T
  <2>2. Cardinality(T) = Cardinality(S)
    BY <2>1
  <2> USE DEF S, T
  <2> QED BY <1>2, <1>3, <1>6, <2>2 DEF Num
<1> QED BY <1>5, <1>6

LEMMA NumAppended ==
  ASSUME NEW q \in Seq(EntryType), NEW e \in EntryType, NEW k \in 0 .. Len(q), NEW kind
  PROVE  Num(Append(q, e), k, kind) = Num(q, k, kind)
<1>1. \A i \in 1 .. k : Append(q, e)[i] = q[i]
  OBVIOUS
<1> QED BY <1>1 DEF Num

LEMMA NumTaken ==
  ASSUME NEW q \in Seq(EntryType), q # <<>>, NEW k \in 0 .. Len(q) - 1, NEW kind
  PROVE  Num(q, k + 1, kind) = Num(Tail(q), k, kind) + (IF Head(q).kind = kind THEN 1 ELSE 0)
<1>q. /\ Len(q) \in Nat \ {0} /\ Head(q) = q[1] /\ k \in Nat
      /\ \A i \in 1 .. Len(q) - 1 : Tail(q)[i] = q[i + 1]
  OBVIOUS
<1>r. PICK r : r = Tail(q)
  OBVIOUS
<1> DEFINE S == {i \in 1 .. k : r[i].kind = kind}
           T == {i \in 2 .. k + 1 : q[i].kind = kind}
           U == {i \in 1 .. k + 1 : q[i].kind = kind}
           f == [i \in S |-> i + 1]
<1>1. IsFiniteSet(S)
  <2>1. IsFiniteSet(1 .. k)
    BY <1>q, FS_Interval
  <2> QED BY <2>1, FS_Subset
<1>2. f \in Bijection(S, T)
  <2>1. \A i \in S : i + 1 \in T
    BY <1>q, <1>r
  <2>2. \A i \in T : i - 1 \in S /\ f[i - 1] = i
    BY <1>q, <1>r
  <2>3. \A i, j \in S : f[i] = f[j] => i = j
    BY <1>q
  <2> QED BY <2>1, <2>2, <2>3 DEF Bijection, Injection, Surjection, IsInjective
<1>3. IsFiniteSet(T) /\ Cardinality(T) = Cardinality(S)
  <2>1. ExistsBijection(S, T)
    BY <1>2 DEF ExistsBijection
  <2> HIDE DEF S, T
  <2> QED BY <1>1, <2>1, FS_Bijection
<1>4. Cardinality(U) = Cardinality(T) + (IF q[1].kind = kind THEN 1 ELSE 0)
  <2>1. 1 \notin T /\ U = IF q[1].kind = kind THEN T \cup {1} ELSE T
    BY <1>q
  <2>2. Cardinality(T) \in Nat
    BY <1>3, FS_CardinalityType
  <2> HIDE DEF T, U
  <2>3. CASE q[1].kind = kind
    BY <1>3, <2>1, <2>3, FS_AddElement
  <2>4. CASE q[1].kind # kind
    BY <2>1, <2>2, <2>4
  <2> QED BY <2>3, <2>4
<1>5. Num(q, k + 1, kind) = Cardinality(U) /\ Num(Tail(q), k, kind) = Cardinality(S)
  BY <1>r DEF Num
<1> HIDE DEF S, T, U
<1> QED BY <1>3, <1>4, <1>5, <1>q

\* An entry is added that the count has room for.
LEMMA WithinAppended ==
  ASSUME NEW b \in Nat, NEW q \in Seq(EntryType), NEW e \in EntryType, Within(b, q),
         After(b, q) + AddsOne(e) \in 0 .. Cardinality(Job)
  PROVE  /\ Within(b, Append(q, e)) /\ After(b, Append(q, e)) = After(b, q) + AddsOne(e)
         /\ Append(q, e) \in Seq(EntryType)
<1>r. PICK r : r = Append(q, e)
  OBVIOUS
<1>1. Len(q) \in Nat /\ Len(r) = Len(q) + 1 /\ r[Len(q) + 1] = e /\ r \in Seq(EntryType)
  BY <1>r
<1>2. \A k \in 0 .. Len(q) : Adds(r, k) = Adds(q, k)
  BY <1>r, NumAppended DEF Adds
<1>3. \A k \in Nat : \A kind : Num(r, k, kind) \in Nat
  BY NumCounts
<1>4. Adds(r, Len(r)) = Adds(r, Len(q)) + AddsOne(e)
  <2>1. ASSUME NEW kind
        PROVE  Num(r, Len(q) + 1, kind) = Num(r, Len(q), kind) + (IF r[Len(q) + 1].kind = kind THEN 1 ELSE 0)
    <3>1. PICK k \in Nat : k = Len(q)
      BY <1>1
    <3>2. Num(r, k + 1, kind) = Num(r, k, kind) + (IF r[k + 1].kind = kind THEN 1 ELSE 0)
      BY <3>1, NumCounts
    <3> QED BY <3>1, <3>2
  <2> QED BY <1>1, <1>3, <2>1 DEF Adds, AddsOne
<1>5. Adds(r, Len(q)) = Adds(q, Len(q))
  BY <1>1, <1>2
<1>6. Adds(q, Len(q)) \in Int /\ AddsOne(e) \in Int
  <2>1. Num(q, Len(q), "busy") \in Nat /\ Num(q, Len(q), "idle") \in Nat
    BY <1>1, NumCounts
  <2> QED BY <2>1 DEF Adds, AddsOne
<1>7. After(b, r) = After(b, q) + AddsOne(e)
  BY <1>4, <1>5, <1>6 DEF After
<1>8. ASSUME NEW k \in 0 .. Len(r) PROVE b + Adds(r, k) \in 0 .. Cardinality(Job)
  <2>1. CASE k = Len(r)
    BY <1>7, <2>1 DEF After
  <2>2. CASE k # Len(r)
    <3>1. k \in 0 .. Len(q)
      BY <1>1, <2>2
    <3> QED BY <1>2, <3>1 DEF Within
  <2> QED BY <2>1, <2>2
<1> QED BY <1>1, <1>7, <1>8, <1>r DEF Within

\* The first entry is taken, and counted.
LEMMA WithinTaken ==
  ASSUME NEW b \in Nat, NEW q \in Seq(EntryType), q # <<>>, Within(b, q)
  PROVE  /\ b + AddsOne(Head(q)) \in Nat
         /\ Within(b + AddsOne(Head(q)), Tail(q)) /\ After(b + AddsOne(Head(q)), Tail(q)) = After(b, q)
         /\ Tail(q) \in Seq(EntryType)
<1>r. PICK r : r = Tail(q)
  OBVIOUS
<1>c. PICK c : c = b + AddsOne(Head(q))
  OBVIOUS
<1>1. /\ Len(q) \in Nat \ {0} /\ Len(r) = Len(q) - 1 /\ Head(q) = q[1] /\ AddsOne(Head(q)) \in Int
      /\ r \in Seq(EntryType)
  BY <1>r DEF AddsOne
<1>2. \A k \in Nat : \A kind : Num(r, k, kind) \in Nat
  BY NumCounts
<1>3. ASSUME NEW k \in 0 .. Len(r) PROVE Adds(q, k + 1) = Adds(r, k) + AddsOne(Head(q)) /\ Adds(r, k) \in Int
  <2>1. /\ Num(q, k + 1, "busy") = Num(r, k, "busy") + (IF Head(q).kind = "busy" THEN 1 ELSE 0)
        /\ Num(q, k + 1, "idle") = Num(r, k, "idle") + (IF Head(q).kind = "idle" THEN 1 ELSE 0)
    BY <1>1, <1>r, NumTaken
  <2>2. Num(r, k, "busy") \in Nat /\ Num(r, k, "idle") \in Nat
    BY <1>1, <1>2
  <2> QED BY <2>1, <2>2 DEF Adds, AddsOne
<1>4. ASSUME NEW k \in 0 .. Len(r)
      PROVE  c + Adds(r, k) = b + Adds(q, k + 1) /\ c + Adds(r, k) \in 0 .. Cardinality(Job)
  <2>1. k + 1 \in 0 .. Len(q)
    BY <1>1
  <2>2. b + Adds(q, k + 1) \in 0 .. Cardinality(Job)
    BY <2>1 DEF Within
  <2> QED BY <1>1, <1>3, <1>c, <2>2
<1>5. c \in Nat
  <2>1. 0 \in 0 .. Len(r) /\ Adds(r, 0) = 0
    <3>1. Num(r, 0, "busy") = 0 /\ Num(r, 0, "idle") = 0
      BY NumCounts
    <3> QED BY <1>1, <3>1 DEF Adds
  <2> QED BY <1>1, <1>4, <1>c, <2>1, JobNat
<1>6. After(c, r) = After(b, q)
  <2>1. Len(r) \in 0 .. Len(r) /\ Len(r) + 1 = Len(q)
    BY <1>1
  <2> QED BY <1>4, <2>1 DEF After
<1> QED BY <1>1, <1>4, <1>5, <1>6, <1>c, <1>r DEF Within

\* How the number of jobs at work changes with one of them.
LEMMA WorkingChanges ==
  ASSUME jobs \in [Job -> Thread], NEW j \in Job, NEW t, jobs' = [jobs EXCEPT ![j] = t]
  PROVE  /\ Cardinality(Working) \in 0 .. Cardinality(Job) /\ Cardinality(Working') \in 0 .. Cardinality(Job)
         /\ jobs[j] = Free /\ t # Free => Cardinality(Working') = Cardinality(Working) + 1
         /\ jobs[j] # Free /\ t = Free => Cardinality(Working') = Cardinality(Working) - 1
         /\ jobs[j] # Free /\ t # Free => Working' = Working
<1>1. Working \in SUBSET Job /\ Working' \in SUBSET Job
  BY DEF Working
<1>2. /\ IsFiniteSet(Working) /\ IsFiniteSet(Working')
      /\ Cardinality(Working) \in 0 .. Cardinality(Job) /\ Cardinality(Working') \in 0 .. Cardinality(Job)
  BY <1>1, JobNat, FS_Subset, FS_CardinalityType
<1>3. CASE jobs[j] = Free /\ t # Free
  <2>1. Working' = Working \cup {j} /\ j \notin Working
    BY <1>3 DEF Working
  <2> QED BY <1>2, <1>3, <2>1, FS_AddElement
<1>4. CASE jobs[j] # Free /\ t = Free
  <2>1. Working' = Working \ {j} /\ j \in Working
    BY <1>4 DEF Working
  <2> QED BY <1>2, <1>4, <2>1, FS_RemoveElement
<1>5. CASE jobs[j] # Free /\ t # Free
  <2>1. Working' = Working
    BY <1>5 DEF Working
  <2> QED BY <1>2, <1>5, <2>1
<1> QED BY <1>2, <1>3, <1>4, <1>5

LEMMA BusyStart == Init => BusyInv
<1> SUFFICES ASSUME Init PROVE BusyInv
  OBVIOUS
<1>1. busy = 0 /\ uiq = <<>> /\ Working = {}
  BY DEF Init, Working
<1>2. Len(uiq) = 0 /\ Adds(uiq, 0) = 0
  <2>1. Num(uiq, 0, "busy") = 0 /\ Num(uiq, 0, "idle") = 0
    BY NumCounts
  <2> QED BY <1>1, <2>1 DEF Adds
<1>3. Cardinality(Working) = 0
  BY <1>1, FS_EmptySet
<1> QED BY <1>1, <1>2, <1>3, JobNat DEF BusyInv, Within, After

\* Where neither the count nor the queue nor the number of jobs changes.
LEMMA BusyStill ==
  ASSUME BusyInv, UNCHANGED <<busy, uiq>>, Working' = Working
  PROVE  BusyInv'
<1>1. BusyInv' = (Within(busy', uiq') /\ After(busy', uiq') = Cardinality(Working'))
  BY DEF BusyInv
<1> QED BY <1>1 DEF BusyInv

\* A job is started; the queue it finds says how many are at work.
LEMMA BusyRuns ==
  ASSUME jobs \in [Job -> Thread], NEW kind \in Command, NEW n, NEW q \in Seq(EntryType),
         RunBg(kind, n, q), busy \in Nat, busy' = busy, Within(busy, q),
         After(busy, q) = Cardinality(Working)
  PROVE  BusyInv'
<1>1. PICK j \in Job : /\ jobs[j] = Free /\ uiq' = Append(q, Busy)
                       /\ jobs' = [jobs EXCEPT ![j] = [Free EXCEPT !.kind = kind, !.node = n]]
  BY DEF RunBg
<1>2. PICK t : t = [Free EXCEPT !.kind = kind, !.node = n]
  OBVIOUS
<1>3. t # Free
  <2>1. t.kind = kind /\ Free.kind = "free"
    BY <1>2 DEF Free
  <2> QED BY <2>1 DEF Command
<1>4. jobs' = [jobs EXCEPT ![j] = t]
  BY <1>1, <1>2
<1>5. /\ Cardinality(Working') = Cardinality(Working) + 1
      /\ Cardinality(Working') \in 0 .. Cardinality(Job)
  BY <1>1, <1>3, <1>4, WorkingChanges
<1>6. Busy \in EntryType /\ AddsOne(Busy) = 1
  BY FreeTyped DEF AddsOne, Busy, Entry
<1>7. Within(busy, uiq') /\ After(busy, uiq') = After(busy, q) + 1
  <2>1. After(busy, q) + AddsOne(Busy) \in 0 .. Cardinality(Job)
    BY <1>5, <1>6
  <2>2. Within(busy, Append(q, Busy)) /\ After(busy, Append(q, Busy)) = After(busy, q) + AddsOne(Busy)
    BY <1>6, <2>1, WithinAppended
  <2> QED BY <1>1, <1>6, <2>2
<1>8. BusyInv' = (Within(busy', uiq') /\ After(busy', uiq') = Cardinality(Working'))
  BY DEF BusyInv
<1> QED BY <1>5, <1>7, <1>8

\* A job ends, and its last entry says so.
LEMMA BusyEnds ==
  ASSUME jobs \in [Job -> Thread], uiq \in Seq(EntryType), busy \in Nat, busy' = busy, BusyInv,
         NEW j \in Job, jobs[j] # Free, jobs' = [jobs EXCEPT ![j] = Free],
         NEW e \in EntryType, e.kind \notin {"busy", "idle"},
         uiq' = Append(uiq, Idle) \/ uiq' = uiq \o <<e, Idle>>
  PROVE  BusyInv'
<1>1. /\ Cardinality(Working') = Cardinality(Working) - 1
      /\ Cardinality(Working) \in 0 .. Cardinality(Job)
      /\ Cardinality(Working') \in 0 .. Cardinality(Job)
  BY WorkingChanges
<1>2. Idle \in EntryType /\ AddsOne(Idle) = 0 - 1 /\ AddsOne(e) = 0
  <2>1. Idle.kind = "idle"
    BY DEF Idle, Entry
  <2> QED BY <2>1, FreeTyped DEF AddsOne
<1>3. Within(busy, uiq) /\ After(busy, uiq) = Cardinality(Working)
  BY DEF BusyInv
<1>4. Within(busy, uiq') /\ After(busy, uiq') = After(busy, uiq) - 1
  <2>i. After(busy, uiq) + AddsOne(Idle) \in 0 .. Cardinality(Job)
    BY <1>1, <1>2, <1>3
  <2>e. After(busy, uiq) + AddsOne(e) \in 0 .. Cardinality(Job) /\ After(busy, uiq) + AddsOne(e) = After(busy, uiq)
    BY <1>1, <1>2, <1>3, JobNat
  <2>1. CASE uiq' = Append(uiq, Idle)
    <3>1. /\ Within(busy, Append(uiq, Idle))
          /\ After(busy, Append(uiq, Idle)) = After(busy, uiq) + AddsOne(Idle)
      BY <1>2, <1>3, <2>i, WithinAppended
    <3> QED BY <1>1, <1>2, <1>3, <2>1, <3>1
  <2>2. CASE uiq' = uiq \o <<e, Idle>>
    <3>1. /\ Within(busy, Append(uiq, e)) /\ After(busy, Append(uiq, e)) = After(busy, uiq)
          /\ Append(uiq, e) \in Seq(EntryType)
      BY <1>3, <2>e, WithinAppended
    <3>2. PICK r : r = Append(uiq, e)
      OBVIOUS
    <3>3. uiq' = Append(r, Idle)
      BY <1>2, <2>2, <3>2, TwoAppended
    <3>4. Within(busy, r) /\ After(busy, r) = After(busy, uiq) /\ r \in Seq(EntryType)
      BY <3>1, <3>2
    <3>5. After(busy, r) + AddsOne(Idle) \in 0 .. Cardinality(Job)
      BY <2>i, <3>4
    <3>6. Within(busy, Append(r, Idle)) /\ After(busy, Append(r, Idle)) = After(busy, r) + AddsOne(Idle)
      BY <1>2, <3>4, <3>5, WithinAppended
    <3> QED BY <1>1, <1>2, <1>3, <3>3, <3>4, <3>6
  <2> QED BY <2>1, <2>2
<1>5. BusyInv' = (Within(busy', uiq') /\ After(busy', uiq') = Cardinality(Working'))
  BY DEF BusyInv
<1> QED BY <1>1, <1>3, <1>4, <1>5

LEMMA BusyJobs ==
  ASSUME Typed, ShapeInv, BusyInv, NEW j \in Job, JobStep(j)
  PROVE  BusyInv'
<1>t. /\ jobs \in [Job -> Thread] /\ jobs[j] \in Thread /\ JobShape(jobs[j], link, live)
      /\ uiq \in Seq(EntryType) /\ busy \in Nat /\ Idle \in EntryType
      /\ jobs[j].kind \in Command \cup {"free", "poller"}
  BY FreeTyped DEF Typed, ShapeInv, Thread
<1>b. busy' = busy
  BY DEF JobStep, Put, Failed, Refresh, Revoke, Redeem, DeleteIdentity, RegisterCall,
         RegisterSave, FetchOnce, AckOnce, Others
<1>f. /\ Free.kind = "free" /\ Free.pc = "call"
  BY DEF Free
\* A job that stays at work.
<1>on. ASSUME NEW t, jobs' = [jobs EXCEPT ![j] = t], t.pc # "call", jobs[j] # Free, uiq' = uiq
       PROVE  BusyInv'
  <2>1. t # Free
    BY <1>f, <1>on
  <2>2. Working' = Working
    BY <1>on, <1>t, <2>1, WorkingChanges
  <2> QED BY <1>b, <1>on, <2>2, BusyStill
<1>1. CASE Put(j)
  <2>1. PICK e : e = Entry(jobs[j].kind, jobs[j])
    OBVIOUS
  <2>2. uiq' = uiq \o <<e, Idle>> /\ jobs' = [jobs EXCEPT ![j] = Free] /\ jobs[j].kind # "free"
    BY <1>1, <2>1 DEF Put
  <2>3. jobs[j].kind \in Command
    BY <1>t, <2>2 DEF JobShape
  <2>4. e \in EntryType /\ e.kind \notin {"busy", "idle"}
    BY <1>t, <2>1, <2>3, EntryTyped DEF Entry, Command
  <2> QED BY <1>b, <1>f, <1>t, <2>2, <2>4, BusyEnds
<1>2. CASE Failed(j)
  <2>1. CASE jobs[j].kind = "sever"
    <3>1. PICK t : t = [jobs[j] EXCEPT !.pc = "put"]
      OBVIOUS
    <3>2. t.pc = "put" /\ jobs' = [jobs EXCEPT ![j] = t] /\ uiq' = uiq
      BY <1>2, <1>t, <2>1, <3>1 DEF Failed, Goto, Thread
    <3> QED BY <1>f, <2>1, <3>2, <1>on
  <2>2. CASE jobs[j].kind # "sever"
    <3>1. /\ uiq' = uiq \o <<Error, Idle>> /\ jobs' = [jobs EXCEPT ![j] = Free]
          /\ jobs[j].kind # "free"
      BY <1>2, <2>2 DEF Failed, Except, Error
    <3>2. Error \in EntryType /\ Error.kind = "error"
      BY FreeTyped DEF Error, Entry
    <3> QED BY <1>b, <1>f, <1>t, <3>1, <3>2, BusyEnds
  <2> QED BY <2>1, <2>2
<1>3. CASE Refresh(j) \/ Redeem(j)
  <2>1. PICK told : jobs' = [jobs EXCEPT ![j] = [jobs[j] EXCEPT !.pc = "put", !.told = told]]
    BY <1>3 DEF Refresh, Redeem, Told
  <2>2. PICK t : t = [jobs[j] EXCEPT !.pc = "put", !.told = told]
    OBVIOUS
  <2>3. t.pc = "put" /\ uiq' = uiq /\ jobs[j].kind \in {"refresh", "redeem"}
    BY <1>3, <1>t, <2>2 DEF Refresh, Redeem, Call, Thread
  <2> QED BY <1>f, <2>1, <2>2, <2>3, <1>on
<1>4. CASE Revoke(j) \/ DeleteIdentity(j)
  <2>1. PICK told :
           /\ \/ jobs' = [jobs EXCEPT ![j] = [jobs[j] EXCEPT !.pc = "put", !.told = told]]
              \/ jobs' = [jobs EXCEPT ![j] = [jobs[j] EXCEPT !.pc = "put"]]
           /\ uiq' = uiq /\ jobs[j].kind \in {"sever", "delete"}
    BY <1>4 DEF Revoke, DeleteIdentity, Told, Goto, Call
  <2>2. PICK t : /\ jobs' = [jobs EXCEPT ![j] = t]
                 /\ t \in {[jobs[j] EXCEPT !.pc = "put", !.told = told],
                          [jobs[j] EXCEPT !.pc = "put"]}
    BY <2>1
  <2>3. t.pc = "put"
    BY <1>t, <2>2 DEF Thread
  <2> QED BY <1>f, <2>1, <2>2, <2>3, <1>on
<1>5. CASE RegisterCall(j)
  <2>1. PICK n \in Node : jobs' = [jobs EXCEPT ![j].pc = "put", ![j].node = n]
    BY <1>5 DEF RegisterCall
  <2>2. PICK t : t = [jobs[j] EXCEPT !.pc = "put", !.node = n]
    OBVIOUS
  <2>3. jobs' = [jobs EXCEPT ![j] = t]
    BY <2>1, <2>2
  <2>4. t.pc = "put" /\ uiq' = uiq /\ jobs[j].kind = "register"
    BY <1>5, <1>t, <2>2 DEF RegisterCall, Call, Thread
  <2> QED BY <1>f, <2>3, <2>4, <1>on
<1>6. CASE RegisterSave(j)
  <2>1. PICK e : e = Entry("register", jobs[j])
    OBVIOUS
  <2>2. /\ uiq' = uiq \o <<e, Idle>> /\ jobs' = [jobs EXCEPT ![j] = Free]
        /\ jobs[j].kind = "register"
    BY <1>6, <2>1 DEF RegisterSave
  <2>3. e \in EntryType /\ e.kind = "register"
    BY <1>t, <2>1, EntryTyped DEF Entry, Command
  <2> QED BY <1>b, <1>f, <1>t, <2>2, <2>3, BusyEnds
<1>7. CASE FetchOnce(j)
  <2>1. PICK t : t = Fetched(jobs[j])
    OBVIOUS
  <2>2. /\ jobs' = [jobs EXCEPT ![j] = t] /\ uiq' = uiq /\ t.pc = "ack" /\ jobs[j].kind = "poll"
    BY <1>7, <1>t, <2>1 DEF FetchOnce, Call, Fetched, Thread
  <2> QED BY <1>f, <2>2, <1>on
<1>8. CASE AckOnce(j)
  <2>1. uiq' = uiq /\ jobs[j].pc = "ack"
    BY <1>8 DEF AckOnce
  <2>2. CASE jobs[j].todo = {}
    <3>1. PICK t : t = [jobs[j] EXCEPT !.pc = "put"]
      OBVIOUS
    <3>2. t.pc = "put" /\ jobs' = [jobs EXCEPT ![j] = t]
      BY <1>8, <1>t, <2>2, <3>1 DEF AckOnce, Goto, Thread
    <3> QED BY <1>f, <2>1, <3>2, <1>on
  <2>3. CASE jobs[j].todo # {}
    <3>1. PICK d \in jobs[j].todo, ok \in BOOLEAN : jobs' = [jobs EXCEPT ![j] = Acked(jobs[j], d, ok)]
      BY <1>8, <2>3 DEF AckOnce
    <3>2. PICK t : t = Acked(jobs[j], d, ok)
      OBVIOUS
    <3>3. t.pc = "ack"
      BY <1>t, <2>1, <3>2 DEF Acked, Thread
    <3> QED BY <1>f, <2>1, <3>1, <3>2, <3>3, <1>on
  <2> QED BY <2>2, <2>3
<1> QED BY <1>1, <1>2, <1>3, <1>4, <1>5, <1>6, <1>7, <1>8 DEF JobStep

LEMMA BusyWindow == ASSUME Typed, ShapeInv, BusyInv, UiStep PROVE BusyInv'
<1>t. /\ jobs \in [Job -> Thread] /\ uiq \in Seq(EntryType) /\ busy \in Nat
      /\ Within(busy, uiq) /\ After(busy, uiq) = Cardinality(Working) /\ "refresh" \in Command
  BY DEF Typed, BusyInv, Command
\* An entry is taken that is not counted.
<1>take. ASSUME uiq # <<>>, Head(uiq).kind \notin {"busy", "idle"}
         PROVE  /\ Within(busy, Tail(uiq)) /\ After(busy, Tail(uiq)) = Cardinality(Working)
                /\ Tail(uiq) \in Seq(EntryType)
  <2>1. busy + AddsOne(Head(uiq)) = busy
    BY <1>t, <1>take DEF AddsOne
  <2>2. /\ Within(busy + AddsOne(Head(uiq)), Tail(uiq))
        /\ After(busy + AddsOne(Head(uiq)), Tail(uiq)) = After(busy, uiq)
        /\ Tail(uiq) \in Seq(EntryType)
    BY <1>t, <1>take, WithinTaken
  <2> QED BY <1>t, <2>1, <2>2
<1>1. CASE Count
  <2>1. uiq # <<>> /\ Head(uiq).kind \in {"busy", "idle"}
    BY <1>1, TakenShape DEF Count
  <2>2. PICK c : c = busy + AddsOne(Head(uiq))
    OBVIOUS
  <2>3. c \in Nat /\ Within(c, Tail(uiq)) /\ After(c, Tail(uiq)) = Cardinality(Working)
    <3>1. /\ busy + AddsOne(Head(uiq)) \in Nat
          /\ Within(busy + AddsOne(Head(uiq)), Tail(uiq))
          /\ After(busy + AddsOne(Head(uiq)), Tail(uiq)) = After(busy, uiq)
      BY <1>t, <2>1, WithinTaken
    <3> QED BY <1>t, <2>2, <3>1
  <2>4. /\ uiq' = Tail(uiq) /\ Working' = Working
        /\ busy' = IF Head(uiq).kind = "busy" THEN busy + 1 ELSE IF busy = 0 THEN 0 ELSE busy - 1
    BY <1>1 DEF Count, Working
  <2>5. busy' = c
    BY <1>t, <2>1, <2>2, <2>3, <2>4 DEF AddsOne
  <2>6. BusyInv' = (Within(busy', uiq') /\ After(busy', uiq') = Cardinality(Working'))
    BY DEF BusyInv
  <2> QED BY <2>3, <2>4, <2>5, <2>6
<1>2. CASE SaveSeen
  BY <1>2, <1>t, BusyRuns DEF SaveSeen
<1>3. CASE Refreshing
  <2>1. uiq # <<>> /\ Head(uiq).kind \in {"redeem", "register"}
    BY <1>3, TakenShape DEF Refreshing
  <2>2. /\ Within(busy, Tail(uiq)) /\ After(busy, Tail(uiq)) = Cardinality(Working)
        /\ Tail(uiq) \in Seq(EntryType)
    BY <2>1, <1>take
  <2> QED BY <1>3, <1>t, <2>2, BusyRuns DEF Refreshing
<1>4. CASE \/ ShowError \/ Receive \/ ReceiveRaises \/ ShowLinks \/ ShowSevered
           \/ ShowDeleted
  <2>1. /\ uiq # <<>> /\ Head(uiq).kind \notin {"busy", "idle"}
        /\ uiq' = Tail(uiq) /\ busy' = busy /\ jobs' = jobs
    BY <1>4 DEF ShowError, Receive, ReceiveRaises, Take, ShowLinks, ShowSevered, ShowDeleted,
                Showing
  <2>3. Working' = Working
    BY <2>1 DEF Working
  <2>2. BusyInv' = (Within(busy', uiq') /\ After(busy', uiq') = Cardinality(Working'))
    BY DEF BusyInv
  <2> QED BY <2>1, <2>2, <2>3, <1>take
<1> QED BY <1>1, <1>2, <1>3, <1>4 DEF UiStep

LEMMA BusySteps == Typed /\ ShapeInv /\ BusyInv /\ [Next]_vars => BusyInv'
<1> SUFFICES ASSUME Typed, ShapeInv, BusyInv, [Next]_vars PROVE BusyInv'
  OBVIOUS
<1>t. /\ jobs \in [Job -> Thread] /\ uiq \in Seq(EntryType) /\ busy \in Nat
      /\ Within(busy, uiq) /\ After(busy, uiq) = Cardinality(Working) /\ "register" \in Command
  BY DEF Typed, BusyInv, Command
<1>same. UNCHANGED <<busy, uiq, jobs>> => BusyInv'
  BY BusyStill DEF Working
<1>1. ASSUME NEW d \in Delivery, RemoteSend(d) PROVE BusyInv'
  BY <1>1, <1>same DEF RemoteSend
<1>2. CASE GiveCommand
  BY <1>2, <1>t, BusyRuns DEF GiveCommand, Start
<1>3. CASE RegisterNode
  BY <1>3, <1>t, BusyRuns DEF RegisterNode
<1>4. CASE Toggle
  BY <1>4, <1>same DEF Toggle
<1>5. ASSUME NEW n \in Node, DeleteHistory(n) PROVE BusyInv'
  BY <1>5, <1>same DEF DeleteHistory
<1>6. ASSUME NEW p \in Poller, PollStep(p) PROVE BusyInv'
  <2>1. CASE PollPut(p)
    <3>1. PICK e : e = Entry("poller", pollers[p])
      OBVIOUS
    <3>2. uiq' = Append(uiq, e) /\ busy' = busy /\ Working' = Working
      BY <2>1, <3>1 DEF PollPut, Polls, Working
    <3>3. e \in EntryType /\ AddsOne(e) = 0
      BY <3>1, EntryTyped DEF Typed, Entry, AddsOne
    <3>4. After(busy, uiq) + AddsOne(e) \in 0 .. Cardinality(Job) /\ After(busy, uiq) + AddsOne(e) = After(busy, uiq)
      <4>1. After(busy, uiq) \in 0 .. Cardinality(Job)
        <5>1. Len(uiq) \in 0 .. Len(uiq)
          BY <1>t
        <5> QED BY <1>t, <5>1 DEF Within, After
      <4> QED BY <3>3, <4>1, JobNat
    <3>5. Within(busy, uiq') /\ After(busy, uiq') = After(busy, uiq)
      <4>1. /\ Within(busy, Append(uiq, e))
            /\ After(busy, Append(uiq, e)) = After(busy, uiq) + AddsOne(e)
        BY <1>t, <3>3, <3>4, WithinAppended
      <4> QED BY <3>2, <3>4, <4>1
    <3>6. BusyInv' = (Within(busy', uiq') /\ After(busy', uiq') = Cardinality(Working'))
      BY DEF BusyInv
    <3> QED BY <1>t, <3>2, <3>5, <3>6
  <2>2. CASE PollBegin(p) \/ PollFetch(p) \/ PollAck(p)
    BY <2>2, <1>same DEF PollBegin, PollFetch, PollAck, Polls
  <2> QED BY <1>6, <2>1, <2>2 DEF PollStep
<1>7. ASSUME NEW torn \in BOOLEAN, Restart(torn) PROVE BusyInv'
  <2>1. /\ busy' = 0 /\ uiq' = <<Busy>>
        /\ jobs' = [j \in Job |-> IF j = 1 THEN [Free EXCEPT !.kind = "refresh", !.node = identity]
                                  ELSE Free]
    BY <1>7 DEF Restart
  <2>2. Working' = {1}
    <3>1. [Free EXCEPT !.kind = "refresh", !.node = identity] # Free
      <4>1. /\ [Free EXCEPT !.kind = "refresh", !.node = identity].kind = "refresh"
            /\ Free.kind = "free"
        BY DEF Free
      <4> QED BY <4>1
    <3> QED BY <2>1, <3>1, JobNat DEF Working
  <2>3. Cardinality(Working') = 1
    BY <2>2, FS_Singleton
  <2>4. Busy \in EntryType /\ AddsOne(Busy) = 1 /\ uiq' = Append(<<>>, Busy)
    BY <2>1, FreeTyped DEF AddsOne, Busy, Entry
  <2>5. PICK q : q = <<>>
    OBVIOUS
  <2>6. q \in Seq(EntryType) /\ Len(q) = 0
    BY <2>5
  <2>7. Within(0, uiq') /\ After(0, uiq') = 1
    <3>1. Num(q, 0, "busy") = 0 /\ Num(q, 0, "idle") = 0
      BY NumCounts
    <3>2. Within(0, q) /\ After(0, q) = 0
      BY <2>6, <3>1, JobNat DEF Adds, Within, After
    <3>3. After(0, q) + AddsOne(Busy) \in 0 .. Cardinality(Job)
      BY <2>4, <3>2, JobNat
    <3>4. Within(0, Append(q, Busy)) /\ After(0, Append(q, Busy)) = After(0, q) + AddsOne(Busy)
      <4>1. 0 \in Nat /\ Within(0, q)
        BY <3>2
      <4> QED BY <2>4, <2>6, <3>3, <4>1, WithinAppended, Zenon
    <3> QED BY <2>4, <2>5, <3>2, <3>4
  <2>8. BusyInv' = (Within(busy', uiq') /\ After(busy', uiq') = Cardinality(Working'))
    BY DEF BusyInv
  <2> QED BY <2>1, <2>3, <2>7, <2>8
<1>8. CASE CloseBox \/ UNCHANGED vars
  BY <1>8, <1>same DEF CloseBox, vars
<1> QED BY <1>1, <1>2, <1>3, <1>4, <1>5, <1>6, <1>7, <1>8, BusyJobs, BusyWindow DEF Next

----------------------------------------------------------------------------
(* The theorems.                                                           *)

\* The inductive invariant: types and shapes, the way of the deliveries, what the
\* user removed, the count, and what is in the history.
GuiIInv == FlowPre /\ GoneInv /\ SeverInv /\ BusyInv /\ ShownOnce

LEMMA GuiStart == Init => GuiIInv
<1> SUFFICES ASSUME Init PROVE GuiIInv
  OBVIOUS
<1>1. Typed /\ ShapeInv
  BY TypedStart, ShapeStart
<1>2. /\ queue = {} /\ sent = {} /\ seen = {} /\ seenFile = {} /\ uiq = <<>>
      /\ \A j \in Job : jobs[j] = Free
      /\ \A p \in Poller : pollers[p] \in {Free, Polling}
      /\ \A d \in Delivery : history[d] = 0
  BY DEF Init
<1>3. ASSUME NEW d PROVE ~InHands(d)
  <2>1. Free.items = {} /\ Free.todo = {} /\ Polling.items = {} /\ Polling.todo = {}
    BY DEF Free, Polling
  <2>2. DOMAIN uiq = {}
    BY <1>2
  <2> QED BY <1>2, <2>1, <2>2 DEF InHands, ThreadsHave, QueueHas
<1>4. SentInv
  BY <1>2, <1>3 DEF SentInv
<1>5. AccountInv
  BY <1>2 DEF AccountInv
<1>6. ShownOnce
  BY <1>2 DEF ShownOnce
<1> QED BY <1>1, <1>4, <1>5, <1>6, RemovedStart, BusyStart DEF GuiIInv, FlowPre

LEMMA GuiSteps == GuiIInv /\ [Next]_vars => GuiIInv'
<1> SUFFICES ASSUME GuiIInv, [Next]_vars PROVE GuiIInv'
  OBVIOUS
<1>1. FlowPre /\ Typed /\ ShapeInv /\ GoneInv /\ SeverInv /\ BusyInv /\ ShownOnce
  BY DEF GuiIInv, FlowPre
<1>2. Typed' /\ ShapeInv' /\ BusyInv'
  BY <1>1, TypedSteps, ShapeSteps, BusySteps
<1>3. Flow /\ Views /\ RelayMoves
  BY <1>1, FlowSteps, ViewsSteps, RelaySteps
<1>4. SentInv' /\ AccountInv'
  BY <1>1, <1>2, <1>3, AccountSteps
<1>5. GoneInv' /\ SeverInv'
  BY <1>1, <1>2, <1>3, RemovedSteps
<1>6. ShownOnce'
  <2>1. ASSUME NEW d \in Delivery PROVE history'[d] <= 1
    <3>1. history[d] \in Nat /\ history[d] <= 1
      BY <1>1 DEF ShownOnce, Typed
    <3>2. history'[d] \in {history[d], 0, 1}
      BY <1>3 DEF Views
    <3> QED BY <3>1, <3>2
  <2> QED BY <2>1 DEF ShownOnce
<1> QED BY <1>2, <1>4, <1>5, <1>6 DEF GuiIInv, FlowPre

LEMMA GuiAlways == Spec => []GuiIInv
  BY GuiStart, GuiSteps, PTL DEF Spec

LEMMA BusyIs == GuiIInv => BusyIsBalanced /\ busy <= Cardinality(Job)
<1> SUFFICES ASSUME GuiIInv PROVE BusyIsBalanced /\ busy <= Cardinality(Job)
  OBVIOUS
<1>t. busy \in Nat /\ uiq \in Seq(EntryType)
  BY DEF GuiIInv, FlowPre, Typed
<1>1. PICK k \in Nat : k = Len(uiq) /\ DOMAIN uiq = 1 .. k
  BY <1>t
<1>2. Within(busy, uiq) /\ After(busy, uiq) = Cardinality(Working)
  BY DEF GuiIInv, BusyInv
<1>3. \A kind : Num(uiq, k, kind) \in Nat /\ Num(uiq, 0, kind) = 0
  BY <1>1, NumCounts
<1>4. busy + Num(uiq, k, "busy") = Cardinality(Working) + Num(uiq, k, "idle")
  <2>1. busy + (Num(uiq, k, "busy") - Num(uiq, k, "idle")) = Cardinality(Working)
    BY <1>1, <1>2 DEF After, Adds
  <2>2. Num(uiq, k, "busy") \in Nat /\ Num(uiq, k, "idle") \in Nat
    BY <1>3
  <2> QED BY <1>t, <2>1, <2>2
<1>5. BusyIsBalanced
  BY <1>1, <1>4 DEF BusyIsBalanced, Num, Working
<1>6. busy <= Cardinality(Job)
  <2>1. 0 \in 0 .. Len(uiq) /\ Adds(uiq, 0) = 0
    BY <1>1, <1>3 DEF Adds
  <2>2. busy + 0 \in 0 .. Cardinality(Job)
    BY <1>2, <2>1 DEF Within
  <2> QED BY <1>t, <2>2, JobNat
<1> QED BY <1>5, <1>6

\* The count of commands at work is right and no message is shown twice, however
\* commands, polling threads and restarts interleave.
THEOREM GuiCorrect == Spec => []GuiInv
<1>1. GuiIInv => GuiInv
  <2> SUFFICES ASSUME GuiIInv PROVE GuiInv
    OBVIOUS
  <2>1. BusyIsBalanced /\ busy <= Cardinality(Job)
    BY BusyIs
  <2>2. TypeOK
    BY <2>1, JobNat DEF GuiIInv, FlowPre, Typed, TypeOK
  <2> QED BY <2>1, <2>2 DEF GuiInv, GuiIInv
<1> QED BY <1>1, GuiAlways, PTL

\* A delivery that has left the relay's queue is in the history or on its way to
\* it, unless the user deleted it or its node, the process ended first, or the
\* callback that was to show it raised.
THEOREM AcksAreAccounted == Spec => []AckedIsAccounted
<1>1. GuiIInv => AckedIsAccounted
  <2> SUFFICES ASSUME GuiIInv, NEW d \in sent
               PROVE  \/ d \in queue \/ history[d] > 0 \/ d \in InHand
                      \/ d \in lost \cup deleted \/ d.node \notin live
    BY DEF AckedIsAccounted
  <2>1. d \in queue \/ InHands(d) \/ Kept(d)
    BY DEF GuiIInv, FlowPre, AccountInv
  <2>2. InHands(d) => d \in InHand
    BY HandsAre DEF GuiIInv, FlowPre
  <2> QED BY <2>1, <2>2 DEF Kept
<1> QED BY <1>1, GuiAlways, PTL

\* A node that was deleted leaves no message and no contact, and a contact that
\* was severed is not listed as linked again, unless an answer of a refresh or of
\* redeeming the code was under way.
THEOREM RemovedStaysRemoved == Spec => RemovedStaysAway
<1> DEFINE Away == \A n \in Node :
             /\ n \in gone' => record'[n] = "none" /\ \A d \in Delivery : d.node = n => history'[d] = 0
             /\ record[n] = "severed" /\ record'[n] = "server" => n \in overtaken
<1>1. GuiIInv /\ [Next]_vars => Away
  <2> SUFFICES ASSUME GuiIInv, [Next]_vars PROVE Away
    OBVIOUS
  <2>1. FlowPre /\ GoneInv /\ SeverInv /\ Typed /\ ShapeInv
    BY DEF GuiIInv, FlowPre
  <2>2. Flow /\ Views /\ RelayMoves /\ Typed'
    BY <2>1, FlowSteps, ViewsSteps, RelaySteps, TypedSteps
  <2> QED BY <2>1, <2>2, RemovedSteps
<1>2. Spec => [][Away]_vars
  BY <1>1, GuiAlways, PTL DEF Spec
<1> QED BY <1>2 DEF RemovedStaysAway
=============================================================================
