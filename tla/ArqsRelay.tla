----------------------------- MODULE ArqsRelay -----------------------------
(***************************************************************************)
(* The relay server of ARQS: arqs-server/app/main.py over the SQLite       *)
(* tables of models.py.  A table is a set of rows.  Request handlers run   *)
(* on the threads of the server's pool.  The sqlite3 driver opens a        *)
(* transaction at a handler's first write, so the reads before it see the  *)
(* database as it was then, and the writes, with every read after the      *)
(* first of them, are one atomic step.  A handler whose decision is taken  *)
(* in the first part and carried out in the second is therefore two        *)
(* actions, joined by an entry of req: send, redeem, ack, delete endpoint. *)
(* A handler that writes without a deciding read is one action, and one    *)
(* that is refused before it writes is no action, for it changes nothing.  *)
(***************************************************************************)
EXTENDS Naturals, FiniteSets

CONSTANTS
  Thread,            \* worker threads of the server
  PacketId,          \* packet ids, chosen by the senders
  Content, Size,     \* what a packet carries, and its encoded size in bytes
  Ttl,               \* the lifetimes packet_expiry gives: the sender's ttl_seconds,
                     \* or the default, which is Never under retention.no_expiry
  Never,
  CodeTtl,           \* retention.link_code_ttl_seconds
  SendWindow,        \* rate_limit.send_window_seconds
  MaxSends,          \* rate_limit.max_sends_per_window
  MaxPacketBytes,    \* limits.max_packet_bytes
  EndpointPackets,   \* limits.max_queued_packets_per_endpoint
  EndpointBytes,     \* limits.max_queued_bytes_per_endpoint
  NodeBytes,         \* limits.max_queued_bytes_per_node
  TotalPackets,      \* limits.max_total_queued_packets
  TotalBytes,        \* limits.max_total_queued_bytes
  AdminStatus,       \* bound: the node statuses the administrator makes use of
  MaxRows,           \* bound: how many ids of each kind are ever minted
  MaxClock           \* bound: the last instant

Kind == {"node", "endpoint", "code", "link", "delivery"}

ASSUME ThreadsAssumption == IsFiniteSet(Thread) /\ Thread # {}
ASSUME ContentAssumption == Size \in [Content -> Nat]
ASSUME TimeAssumption ==
  /\ Never \notin Nat
  /\ Ttl \subseteq Nat \cup {Never}
  /\ CodeTtl \in Nat /\ SendWindow \in Nat
ASSUME LimitsAssumption ==
  {MaxSends, MaxPacketBytes, EndpointPackets, EndpointBytes, NodeBytes,
   TotalPackets, TotalBytes} \subseteq Nat
ASSUME BoundsAssumption ==
  /\ AdminStatus \subseteq {"active", "disabled", "revoked"}
  /\ MaxRows \in [Kind -> Nat] /\ MaxClock \in Nat

VARIABLES
  clock,             \* utcnow()
  fresh,             \* how many ids of each kind new_uuid() has produced
  nodes, endpoints,
  codes, links, routes,
  packets, deliveries, sendEvents,
  req                \* what each thread decided and has yet to write

nodeTables  == <<nodes, endpoints>>
linkTables  == <<codes, links, routes>>
queueTables == <<packets, deliveries, sendEvents>>
vars == <<clock, fresh, nodeTables, linkTables, queueTables, req>>

----------------------------------------------------------------------------
(* The rows of each table, and the requests in flight.                     *)

Mode == {"bidirectional", "a_to_b", "b_to_a"}
NodeStatus == {"active", "disabled", "revoked"}

NodeRow     == [id : Nat, status : NodeStatus]
EndpointRow == [id : Nat, node : Nat, default : BOOLEAN]
CodeRow     == [id : Nat, source : Nat, mode : Mode, expires : Nat,
                status : {"active", "used", "expired"}]
LinkRow     == [id : Nat, a : Nat, b : Nat, mode : Mode,
                status : {"active", "revoked"}]
RouteRow    == [from : Nat, to : Nat, link : Nat,
                status : {"active", "revoked"}]
PacketRow   == [id : PacketId, sender : Nat, from : Nat, to : Nat,
                content : Content, expires : Nat \cup {Never}]
DeliveryRow == [id : Nat, packet : PacketId, node : Nat, endpoint : Nat]
EventRow    == [id : Nat, node : Nat, at : Nat]

Idle       == [op |-> "idle"]
SendReq    == [op : {"send"}, sender : Nat, from : Nat, to : Nat, dest : Nat,
               packet : PacketId, content : Content, ttl : Ttl, at : Nat,
               replace : BOOLEAN]
RedeemReq  == [op : {"redeem"}, code : Nat, endpoint : Nat]
AckReq     == [op : {"ack"}, delivery : Nat, packet : PacketId]
DeleteReq  == [op : {"delete"}, endpoint : Nat]
Request    == {Idle} \cup SendReq \cup RedeemReq \cup AckReq \cup DeleteReq

NewId(k)   == fresh[k] + 1
CanMint(k) == fresh[k] < MaxRows[k]
Finish(t)  == req' = [req EXCEPT ![t] = Idle]

----------------------------------------------------------------------------
(* Queries.                                                                *)

NodeActive(n) == [id |-> n, status |-> "active"] \in nodes
Owns(n, e)    == \E r \in endpoints : r.id = e /\ r.node = n
AnyEndpoint(e)    == TRUE           \* faulty: the existence is not looked at
EndpointExists(e) == \E r \in endpoints : r.id = e
ActiveRouteExists(from, to) ==
  \E r \in routes : r.from = from /\ r.to = to /\ r.status = "active"

ExactActiveLinkExists(src, dst, mode) ==
  \E l \in links :
    /\ l.status = "active" /\ l.mode = mode
    /\ \/ l.a = src /\ l.b = dst
       \/ mode = "bidirectional" /\ l.a = dst /\ l.b = src

RedeemRoutes(src, dst, mode) ==
  CASE mode = "bidirectional" -> {<<src, dst>>, <<dst, src>>}
    [] mode = "a_to_b"        -> {<<src, dst>>}
    [] mode = "b_to_a"        -> {<<dst, src>>}

IsExpired(p) == p.expires # Never /\ p.expires <= clock
ExpiryOf(at, ttl) == IF ttl = Never THEN Never ELSE at + ttl

\* The deliveries of D whose packet, a row of P, has not expired.
Active(D, P) == {d \in D : \E p \in P : p.id = d.packet /\ ~IsExpired(p)}
\* SUM(Packet.encoded_size) over the deliveries D: the bytes, counted one by one.
BytesOf(D, P) ==
  Cardinality(UNION {{p} \X (1 .. Size[p.content]) :
                       p \in {q \in P : \E d \in D : d.packet = q.id}})

SendsInWindow(n) ==
  {s \in sendEvents : s.node = n /\ s.at + SendWindow >= clock}
BelowOrAt(count, cap) == count <= cap    \* faulty: one too many
Below(count, cap)     == count < cap
WithinSendRate(n) == Below(Cardinality(SendsInWindow(n)), MaxSends)

\* enforce_queue_limits; the storage cap is the file system's, see Abort.
WithinQueueLimits(to, dest, content, D, P) ==
  LET atEndpoint == {d \in Active(D, P) : d.endpoint = to}
      atNode     == {d \in Active(D, P) : d.node = dest}
  IN /\ Below(Cardinality(atEndpoint), EndpointPackets)
     /\ BytesOf(atEndpoint, P) + Size[content] <= EndpointBytes
     /\ BytesOf(atNode, P) + Size[content] <= NodeBytes
     /\ Below(Cardinality(Active(D, P)), TotalPackets)
     /\ BytesOf(Active(D, P), P) + Size[content] <= TotalBytes

----------------------------------------------------------------------------
(* Identity, endpoints and administration.                                 *)

\* What ON DELETE CASCADE takes along when the nodes N and the endpoints E
\* go.  A route joins the two ends of its link, so both go together.
CascadeDelete(N, E) ==
  /\ nodes'     = {r \in nodes : r.id \notin N}
  /\ endpoints' = {r \in endpoints : r.id \notin E}
  /\ codes'     = {r \in codes : r.source \notin E}
  /\ links'     = {r \in links : r.a \notin E /\ r.b \notin E}
  /\ routes'    = {r \in routes : r.from \notin E /\ r.to \notin E}
  /\ packets'   = {r \in packets : /\ r.sender \notin N
                                   /\ r.from \notin E /\ r.to \notin E}
  /\ deliveries' = {d \in deliveries : /\ d.node \notin N /\ d.endpoint \notin E
                                       /\ \E p \in packets' : p.id = d.packet}
  /\ sendEvents' = {r \in sendEvents : r.node \notin N}

Register ==
  /\ CanMint("node") /\ CanMint("endpoint")
  /\ nodes' = nodes \cup {[id |-> NewId("node"), status |-> "active"]}
  /\ endpoints' = endpoints \cup {[id |-> NewId("endpoint"),
                                   node |-> NewId("node"), default |-> TRUE]}
  /\ fresh' = [fresh EXCEPT !["node"] = NewId("node"),
                            !["endpoint"] = NewId("endpoint")]
  /\ UNCHANGED <<clock, linkTables, queueTables, req>>

\* A node may name any of its endpoints "default".
CreateEndpoint(n, isDefault) ==
  /\ NodeActive(n) /\ CanMint("endpoint")
  /\ endpoints' = endpoints \cup {[id |-> NewId("endpoint"),
                                   node |-> n, default |-> isDefault]}
  /\ fresh' = [fresh EXCEPT !["endpoint"] = NewId("endpoint")]
  /\ UNCHANGED <<clock, nodes, linkTables, queueTables, req>>

Deletable(e) ==
  /\ ~\E l \in links : l.status = "active" /\ e \in {l.a, l.b}
  /\ ~\E d \in Active(deliveries, packets) : d.endpoint = e

DeleteEndpointCheck(t, n, e) ==
  /\ req[t] = Idle
  /\ NodeActive(n)
  /\ [id |-> e, node |-> n, default |-> FALSE] \in endpoints
  /\ Deletable(e)
  /\ req' = [req EXCEPT ![t] = [op |-> "delete", endpoint |-> e]]
  /\ UNCHANGED <<clock, fresh, nodeTables, linkTables, queueTables>>

DeleteEndpointCommit(t) ==
  /\ req[t].op = "delete"
  /\ CascadeDelete({}, {req[t].endpoint})
  /\ Finish(t)
  /\ UNCHANGED <<clock, fresh>>

DeleteIdentity(n) ==
  /\ NodeActive(n)
  /\ CascadeDelete({n}, {e.id : e \in {r \in endpoints : r.node = n}})
  /\ UNCHANGED <<clock, fresh, req>>

\* The administrator's disable, enable and revoke.
SetNodeStatus(n, status) ==
  /\ \E r \in nodes : r.id = n
  /\ nodes' = {IF r.id = n THEN [r EXCEPT !.status = status] ELSE r : r \in nodes}
  /\ UNCHANGED <<clock, fresh, endpoints, linkTables, queueTables, req>>

----------------------------------------------------------------------------
(* Link codes, links and routes.                                           *)

RequestLinkCode(n, e, mode) ==
  /\ NodeActive(n) /\ Owns(n, e) /\ CanMint("code")
  /\ codes' = codes \cup {[id |-> NewId("code"), source |-> e, mode |-> mode,
                           expires |-> clock + CodeTtl, status |-> "active"]}
  /\ fresh' = [fresh EXCEPT !["code"] = NewId("code")]
  /\ UNCHANGED <<clock, nodeTables, links, routes, queueTables, req>>

SetCodeStatus(c, status) ==
  {IF r.id = c THEN [r EXCEPT !.status = status] ELSE r : r \in codes}

RedeemCheck(t, n, e) ==
  /\ req[t] = Idle
  /\ NodeActive(n) /\ Owns(n, e)
  /\ \E c \in codes :
       /\ c.expires > clock /\ c.status = "active" /\ c.source # e
       /\ req' = [req EXCEPT ![t] = [op |-> "redeem", code |-> c.id,
                                     endpoint |-> e]]
  /\ UNCHANGED <<clock, fresh, nodeTables, linkTables, queueTables>>

\* Expiry is looked at first: a used code becomes "expired" too.
RedeemExpired(n, e) ==
  /\ NodeActive(n) /\ Owns(n, e)
  /\ \E c \in codes : /\ c.expires <= clock
                      /\ codes' = SetCodeStatus(c.id, "expired")
  /\ UNCHANGED <<clock, fresh, nodeTables, links, routes, queueTables, req>>

AlwaysClaimable(c) == TRUE               \* faulty: claims whatever the status
\* UPDATE link_codes SET status = 'used' WHERE status = 'active' finds its row.
Claimable(c) == c.status = "active"

SourceOnly(src, dst, mode) == EndpointExists(src)  \* faulty: no look at the links
\* What the claiming transaction looks at before it inserts the link.
LinkAllowed(src, dst, mode) ==
  /\ EndpointExists(src)
  /\ ~ExactActiveLinkExists(src, dst, mode)
  /\ \A p \in RedeemRoutes(src, dst, mode) : ~ActiveRouteExists(p[1], p[2])

RedeemCommit(t) ==
  /\ req[t].op = "redeem" /\ CanMint("link")
  /\ \E c \in codes :
       LET dst == req[t].endpoint
           id  == NewId("link")
       IN /\ c.id = req[t].code /\ Claimable(c)
          /\ LinkAllowed(c.source, dst, c.mode)
          /\ EndpointExists(dst)                     \* the foreign key
          /\ codes' = SetCodeStatus(c.id, "used")
          /\ links' = links \cup {[id |-> id, a |-> c.source, b |-> dst,
                                   mode |-> c.mode, status |-> "active"]}
          /\ routes' = routes \cup
               {[from |-> p[1], to |-> p[2], link |-> id, status |-> "active"] :
                  p \in RedeemRoutes(c.source, dst, c.mode)}
  /\ fresh' = [fresh EXCEPT !["link"] = NewId("link")]
  /\ Finish(t)
  /\ UNCHANGED <<clock, nodeTables, queueTables>>

\* Faulty: revokes one direction only, and misspells the status.
RevokedOneWay(l) ==
  {IF r.link = l /\ r.from < r.to THEN [r EXCEPT !.status = "revoked"] ELSE r :
     r \in routes}
RevokedAsUsed(l) ==
  {IF r.link = l THEN [r EXCEPT !.status = "used"] ELSE r : r \in routes}
RevokedRoutes(l) ==
  {IF r.link = l THEN [r EXCEPT !.status = "revoked"] ELSE r : r \in routes}

\* revoke_link, by the owner of either end, and revoke_link_admin.
RevokeLink(l) ==
  /\ \E r \in links : r.id = l
  /\ links' = {IF r.id = l THEN [r EXCEPT !.status = "revoked"] ELSE r : r \in links}
  /\ routes' = RevokedRoutes(l)
  /\ UNCHANGED <<clock, fresh, nodeTables, codes, queueTables, req>>

----------------------------------------------------------------------------
(* The packet queue.                                                       *)

\* An unexpired packet of that id ends the request here, as a duplicate or a
\* conflict; an expired one is to be deleted by the request's first write,
\* and the limits are then read inside the transaction.
SendCheck(t, n, from, to, p, c, ttl) ==
  /\ req[t] = Idle
  /\ NodeActive(n) /\ Owns(n, from)
  /\ \E e \in endpoints :
       LET existing == {r \in packets : r.id = p}
       IN /\ e.id = to /\ NodeActive(e.node)
          /\ ActiveRouteExists(from, to)
          /\ Size[c] <= MaxPacketBytes
          /\ \A r \in existing : IsExpired(r)
          /\ existing = {} =>
               /\ WithinSendRate(n)
               /\ WithinQueueLimits(to, e.node, c, deliveries, packets)
          /\ req' = [req EXCEPT ![t] =
               [op |-> "send", sender |-> n, from |-> from, to |-> to,
                dest |-> e.node, packet |-> p, content |-> c, ttl |-> ttl,
                at |-> clock, replace |-> existing # {}]]
  /\ UNCHANGED <<clock, fresh, nodeTables, linkTables, queueTables>>

NoForeignKeys(r) == TRUE                 \* faulty: PRAGMA foreign_keys is off
\* The rows the foreign keys of the packet and its delivery point at.
ForeignKeysExist(r) ==
  /\ {r.sender, r.dest} \subseteq {n.id : n \in nodes}
  /\ {r.from, r.to} \subseteq {e.id : e \in endpoints}

SendCommit(t) ==
  LET r    == req[t]
      keep == IF r.replace THEN {p \in packets : p.id # r.packet} ELSE packets
      held == {d \in deliveries : \E p \in keep : p.id = d.packet}
      at   == IF r.replace THEN clock ELSE r.at
      id   == NewId("delivery")
  IN /\ r.op = "send" /\ CanMint("delivery")
     /\ r.replace => /\ WithinSendRate(r.sender)
                     /\ WithinQueueLimits(r.to, r.dest, r.content, held, keep)
     /\ \A p \in keep : p.id # r.packet              \* the primary key
     /\ ForeignKeysExist(r)
     /\ packets' = keep \cup
          {[id |-> r.packet, sender |-> r.sender, from |-> r.from, to |-> r.to,
            content |-> r.content, expires |-> ExpiryOf(at, r.ttl)]}
     /\ deliveries' = held \cup {[id |-> id, packet |-> r.packet,
                                  node |-> r.dest, endpoint |-> r.to]}
     /\ sendEvents' = sendEvents \cup {[id |-> id, node |-> r.sender, at |-> at]}
     /\ fresh' = [fresh EXCEPT !["delivery"] = id]
     /\ Finish(t)
     /\ UNCHANGED <<clock, nodeTables, linkTables>>

\* By delivery id or by packet id: the two name the same pair of rows.
AckCheck(t, n) ==
  /\ req[t] = Idle
  /\ NodeActive(n)
  /\ \E d \in Active(deliveries, packets) :
       /\ d.node = n
       /\ req' = [req EXCEPT ![t] = [op |-> "ack", delivery |-> d.id,
                                     packet |-> d.packet]]
  /\ UNCHANGED <<clock, fresh, nodeTables, linkTables, queueTables>>

\* Deletes the delivery by its id and the packet by its id, which cascades.
AckCommit(t) ==
  /\ req[t].op = "ack"
  /\ packets' = {p \in packets : p.id # req[t].packet}
  /\ deliveries' = {d \in deliveries : /\ d.id # req[t].delivery
                                       /\ d.packet # req[t].packet}
  /\ Finish(t)
  /\ UNCHANGED <<clock, fresh, nodeTables, linkTables, sendEvents>>

PurgedEarly(P) == {p \in P : p.expires = Never}   \* faulty: ignores the clock
Purged(P) == {p \in P : ~IsExpired(p)}

Cleanup ==
  /\ codes' = {IF c.status = "active" /\ c.expires <= clock
               THEN [c EXCEPT !.status = "expired"] ELSE c : c \in codes}
  /\ packets' = Purged(packets)
  /\ deliveries' = {d \in deliveries : \E p \in packets' : p.id = d.packet}
  /\ sendEvents' = {s \in sendEvents : s.at + 2 * SendWindow >= clock}
  /\ UNCHANGED <<clock, fresh, nodeTables, links, routes, req>>

----------------------------------------------------------------------------
(* The specification.                                                      *)

\* A request ends without effect: it lost a race (no row to claim, a
\* duplicate link, a violated key, a limit reached), the storage cap or
\* SQLite's busy timeout refused it, or the server stopped.
Abort(t) ==
  /\ req[t] # Idle
  /\ Finish(t)
  /\ UNCHANGED <<clock, fresh, nodeTables, linkTables, queueTables>>

Tick ==
  /\ clock < MaxClock
  /\ clock' = clock + 1
  /\ UNCHANGED <<fresh, nodeTables, linkTables, queueTables, req>>

Init ==
  /\ clock = 0
  /\ fresh = [k \in Kind |-> 0]
  /\ nodes = {} /\ endpoints = {}
  /\ codes = {} /\ links = {} /\ routes = {}
  /\ packets = {} /\ deliveries = {} /\ sendEvents = {}
  /\ req = [t \in Thread |-> Idle]

NodeId     == 1 .. fresh["node"]
EndpointId == 1 .. fresh["endpoint"]
LinkId     == 1 .. fresh["link"]

IdentityStep ==
  \/ Register
  \/ \E n \in NodeId :
       \/ \E isDefault \in BOOLEAN : CreateEndpoint(n, isDefault)
       \/ \E t \in Thread, e \in EndpointId : DeleteEndpointCheck(t, n, e)
       \/ DeleteIdentity(n)
       \/ \E status \in AdminStatus : SetNodeStatus(n, status)
  \/ \E t \in Thread : DeleteEndpointCommit(t)

LinkStep ==
  \/ \E n \in NodeId, e \in EndpointId :
       \/ \E mode \in Mode : RequestLinkCode(n, e, mode)
       \/ \E t \in Thread : RedeemCheck(t, n, e)
       \/ RedeemExpired(n, e)
  \/ \E t \in Thread : RedeemCommit(t)
  \/ \E l \in LinkId : RevokeLink(l)

QueueStep ==
  \/ \E t \in Thread, n \in NodeId :
       \/ \E from, to \in EndpointId, p \in PacketId, c \in Content, ttl \in Ttl :
            SendCheck(t, n, from, to, p, c, ttl)
       \/ AckCheck(t, n)
  \/ \E t \in Thread : SendCommit(t) \/ AckCommit(t)
  \/ Cleanup

Next ==
  \/ IdentityStep \/ LinkStep \/ QueueStep
  \/ \E t \in Thread : Abort(t)
  \/ Tick

Spec == Init /\ [][Next]_vars

----------------------------------------------------------------------------
(* Properties.                                                             *)

TypeOK ==
  /\ clock \in 0 .. MaxClock
  /\ fresh \in [Kind -> Nat]
  /\ nodes \subseteq NodeRow
  /\ endpoints \subseteq EndpointRow
  /\ codes \subseteq CodeRow
  /\ links \subseteq LinkRow
  /\ routes \subseteq RouteRow
  /\ packets \subseteq PacketRow
  /\ deliveries \subseteq DeliveryRow
  /\ sendEvents \subseteq EventRow
  /\ req \in [Thread -> Request]

\* No row outlives a row it points at, whatever was deleted while a handler
\* was between its checks and its inserts (the foreign keys of models.py).
ReferencesHold ==
  LET ns == {n.id : n \in nodes}
      es == {e.id : e \in endpoints}
  IN /\ \A e \in endpoints : e.node \in ns
     /\ \A c \in codes : c.source \in es
     /\ \A l \in links : l.a \in es /\ l.b \in es
     /\ \A r \in routes : \E l \in links : l.id = r.link
     /\ \A p \in packets : p.sender \in ns /\ p.from \in es /\ p.to \in es
     /\ \A s \in sendEvents : s.node \in ns

\* Every stored packet has exactly one delivery, and the delivery goes to the
\* node that owns the packet's destination endpoint: the two rows are written
\* by one commit of send_packet and every deletion takes both.
OneDeliveryPerPacket ==
  /\ \A p, q \in packets : p.id = q.id => p = q
  /\ \A p \in packets : \E d \in deliveries : d.packet = p.id
  /\ \A d1, d2 \in deliveries : d1.packet = d2.packet => d1 = d2
  /\ \A d \in deliveries :
       /\ \E p \in packets : p.id = d.packet /\ p.to = d.endpoint
       /\ Owns(d.node, d.endpoint)

\* At most one active route leads from an endpoint to another, although the
\* table has no such constraint and two redeemers of different codes may race:
\* the claim of the code opens the transaction before the routes are looked up.
OneActiveRoutePerPair ==
  \A r1, r2 \in routes :
    /\ r1.status = "active" /\ r2.status = "active"
    /\ r1.from = r2.from /\ r1.to = r2.to
    => r1 = r2

\* A link's routes are those its mode asks for, and they are active exactly as
\* long as the link is: no revocation leaves a route open behind it.
RoutesFollowLinks ==
  \A l \in links :
    LET own == {r \in routes : r.link = l.id}
    IN /\ {<<r.from, r.to>> : r \in own} = RedeemRoutes(l.a, l.b, l.mode)
       /\ \A r \in own : r.status = l.status

\* Concurrent sends may pass the endpoint and the total limits together, but by
\* no more than one packet of each of the other threads: enforce_queue_limits
\* counts what is committed, and each request adds one packet.
QueueOvershootBounded ==
  LET others   == Cardinality(Thread) - 1
      queued   == Active(deliveries, packets)
      Within(D, packetCap, byteCap) ==
        /\ Cardinality(D) <= packetCap + others
        /\ BytesOf(D, packets) <= byteCap + others * MaxPacketBytes
  IN /\ Within(queued, TotalPackets, TotalBytes)
     /\ \A e \in EndpointId :
          Within({d \in queued : d.endpoint = e}, EndpointPackets, EndpointBytes)

\* The same for the send rate, whose events are counted before the commit too.
SendRateOvershootBounded ==
  \A n \in NodeId :
    Cardinality(SendsInWindow(n)) <= MaxSends + Cardinality(Thread) - 1

\* Neither limit is passed by more than the requests that run at once: what
\* the count before the commit costs, and no more.
OvershootBounded == QueueOvershootBounded /\ SendRateOvershootBounded

\* A link becomes active only in the step that spends an active code of its
\* first endpoint, and a code that was spent or has expired is never active
\* again: a code yields at most one link, and a revoked link stays revoked.
OneLinkPerCode ==
  [][/\ \A l \in links' \ links : l.status = "active" =>
          \E c \in codes : /\ c.status = "active"
                           /\ c.source = l.a /\ c.mode = l.mode
                           /\ [c EXCEPT !.status = "used"] \in codes'
     /\ \A c \in codes, d \in codes' :
          c.id = d.id /\ c.status # "active" => d.status # "active"]_vars

\* A request to send that found its packet_id expired, and replaces what has
\* the id when it commits.
Replaces(t, p) ==
  /\ req[t].op = "send" /\ req[t].packet = p.id /\ req[t].replace
  /\ req'[t] = Idle

\* The row of an accepted packet that has not expired leaves the queue, or
\* changes, for one of three reasons only: a request that acknowledges its
\* packet id commits, an endpoint at either end is deleted, or a request that
\* found an expired packet of that id replaces it (main.py:702 deletes by id,
\* and meanwhile a concurrent resend may have put an unexpired one in its
\* place).  In the last case a packet of the id is queued afterwards, but its
\* content may be another, which ARQS-SERVER.md:129 rules out: see
\* AcceptedPacketsUnchanged.
PacketsLeaveForAReason ==
  [][\A p \in packets :
       ~IsExpired(p) /\ p \notin packets' =>
         \/ \E t \in Thread : /\ req[t].op = "ack" /\ req[t].packet = p.id
                              /\ req'[t] = Idle
         \/ ~({p.from, p.to} \subseteq {e.id : e \in endpoints'})
         \/ /\ \E t \in Thread : Replaces(t, p)
            /\ \E q \in packets' : q.id = p.id]_vars

\* An endpoint that goes while its node stays has no active link and no queued
\* delivery (ARQS-SERVER.md, "Endpoints").
DeletedEndpointsWereUnused ==
  [][\A e \in endpoints : e \notin endpoints' /\ NodeActive(e.node)'
       => Deletable(e.id)]_vars

\* While a packet is queued and unexpired its packet_id is not taken over by a
\* packet with other content (ARQS-SERVER.md:129).  It does not hold: two
\* resends of an expired packet race (RelayResendRace.cfg).
AcceptedPacketsUnchanged ==
  [][\A p \in packets, q \in packets' :
       p.id = q.id /\ ~IsExpired(p) => q.content = p.content]_vars

\* An ACK removes the delivery it addresses and no other (ARQS-SERVER.md,
\* "Inbox polling and ACK").
AckRemovesItsDelivery ==
  [][\A t \in Thread : req[t].op = "ack" /\ req'[t] = Idle =>
       \A d \in deliveries \ deliveries' : d.id = req[t].delivery]_vars
=============================================================================
