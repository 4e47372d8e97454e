-------------------------- MODULE ArqsRelay_proofs --------------------------
(***************************************************************************)
(* Proofs about the relay, for every number of threads, packets, rows and  *)
(* instants and for every value of the limits.                             *)
(***************************************************************************)
EXTENDS ArqsRelay, FiniteSetTheorems, TLAPS

USE DEF nodeTables, linkTables, queueTables, Kind

\* Type correctness: every table holds rows of its type and every request in
\* flight is one a handler can have decided.
THEOREM TypeCorrect == Spec => []TypeOK
<1> USE DEF TypeOK
<1>idle. \A t \in Thread : Finish(t) /\ TypeOK => req' \in [Thread -> Request]
  BY DEF Finish, Request
<1>code. ASSUME TypeOK, NEW c, NEW s \in {"used", "expired"}
         PROVE  SetCodeStatus(c, s) \subseteq CodeRow
  <2>1. \A r \in codes : [r EXCEPT !.status = s] \in CodeRow
    BY <1>code DEF CodeRow
  <2> QED
    BY <1>code, <2>1 DEF SetCodeStatus
<1>expiry. \A x \in Nat, ttl \in Ttl : ExpiryOf(x, ttl) \in Nat \cup {Never}
  BY TimeAssumption DEF ExpiryOf
<1>1. Init => TypeOK
  BY BoundsAssumption DEF Init, Request
<1>2. TypeOK /\ [Next]_vars => TypeOK'
  <2> SUFFICES ASSUME TypeOK, [Next]_vars PROVE TypeOK'
    OBVIOUS
  <2>1. CASE Register
    <3>1. [id |-> NewId("node"), status |-> "active"] \in NodeRow
      BY DEF NodeRow, NodeStatus, NewId
    <3>2. [id |-> NewId("endpoint"), node |-> NewId("node"), default |-> TRUE]
            \in EndpointRow
      BY DEF EndpointRow, NewId
    <3>3. fresh' \in [Kind -> Nat]
      BY <2>1 DEF Register, NewId
    <3> QED
      BY <2>1, <3>1, <3>2, <3>3 DEF Register
  <2>2. ASSUME NEW n \in NodeId, NEW d \in BOOLEAN, CreateEndpoint(n, d)
        PROVE  TypeOK'
    <3>1. [id |-> NewId("endpoint"), node |-> n, default |-> d] \in EndpointRow
      BY DEF EndpointRow, NewId, NodeId
    <3>2. fresh' \in [Kind -> Nat]
      BY <2>2 DEF CreateEndpoint, NewId
    <3> QED
      BY <2>2, <3>1, <3>2 DEF CreateEndpoint
  <2>3. ASSUME NEW t \in Thread, NEW n \in NodeId, NEW e \in EndpointId,
               DeleteEndpointCheck(t, n, e)
        PROVE  TypeOK'
    <3>1. [op |-> "delete", endpoint |-> e] \in Request
      BY DEF Request, DeleteReq, EndpointId
    <3> QED
      BY <2>3, <3>1 DEF DeleteEndpointCheck
  <2>4. ASSUME NEW N, NEW E, CascadeDelete(N, E)
        PROVE  /\ nodes' \subseteq nodes /\ endpoints' \subseteq endpoints
               /\ codes' \subseteq codes /\ links' \subseteq links
               /\ routes' \subseteq routes /\ packets' \subseteq packets
               /\ deliveries' \subseteq deliveries /\ sendEvents' \subseteq sendEvents
    BY <2>4 DEF CascadeDelete
  <2>5. ASSUME NEW t \in Thread, DeleteEndpointCommit(t)
        PROVE  TypeOK'
    BY <2>4, <2>5, <1>idle DEF DeleteEndpointCommit
  <2>6. ASSUME NEW n \in NodeId, DeleteIdentity(n)
        PROVE  TypeOK'
    BY <2>4, <2>6 DEF DeleteIdentity
  <2>7. ASSUME NEW n \in NodeId, NEW s \in AdminStatus, SetNodeStatus(n, s)
        PROVE  TypeOK'
    <3>1. \A r \in nodes : [r EXCEPT !.status = s] \in NodeRow
      BY BoundsAssumption DEF NodeRow, NodeStatus
    <3> QED
      BY <2>7, <3>1 DEF SetNodeStatus
  <2>8. ASSUME NEW n \in NodeId, NEW e \in EndpointId, NEW m \in Mode,
               RequestLinkCode(n, e, m)
        PROVE  TypeOK'
    <3>1. [id |-> NewId("code"), source |-> e, mode |-> m, expires |-> clock + CodeTtl,
           status |-> "active"] \in CodeRow
      BY TimeAssumption DEF CodeRow, NewId, EndpointId
    <3>2. fresh' \in [Kind -> Nat]
      BY <2>8 DEF RequestLinkCode, NewId
    <3> QED
      BY <2>8, <3>1, <3>2 DEF RequestLinkCode
  <2>9. ASSUME NEW t \in Thread, NEW n \in NodeId, NEW e \in EndpointId,
               RedeemCheck(t, n, e)
        PROVE  TypeOK'
    <3>1. \A c \in codes : [op |-> "redeem", code |-> c.id, endpoint |-> e] \in Request
      BY DEF Request, RedeemReq, CodeRow, EndpointId
    <3> QED
      BY <2>9, <3>1 DEF RedeemCheck
  <2>10. ASSUME NEW n \in NodeId, NEW e \in EndpointId, RedeemExpired(n, e)
         PROVE  TypeOK'
    BY <2>10, <1>code DEF RedeemExpired
  <2>11. ASSUME NEW t \in Thread, RedeemCommit(t)
         PROVE  TypeOK'
    <3>1. PICK c \in codes : /\ c.id = req[t].code
                             /\ codes' = SetCodeStatus(c.id, "used")
                             /\ links' = links \cup
                                  {[id |-> NewId("link"), a |-> c.source,
                                    b |-> req[t].endpoint, mode |-> c.mode,
                                    status |-> "active"]}
                             /\ routes' = routes \cup
                                  {[from |-> p[1], to |-> p[2],
                                    link |-> NewId("link"), status |-> "active"] :
                                    p \in RedeemRoutes(c.source, req[t].endpoint, c.mode)}
      BY <2>11 DEF RedeemCommit
    <3>2. req[t] \in RedeemReq
      BY <2>11 DEF RedeemCommit, Request, Idle, SendReq, AckReq, DeleteReq
    <3>3. c.source \in Nat /\ req[t].endpoint \in Nat /\ c.mode \in Mode
      BY <3>2 DEF RedeemReq, CodeRow
    <3>4. NewId("link") \in Nat /\ fresh' \in [Kind -> Nat]
      BY <2>11 DEF RedeemCommit, NewId
    <3>5. \A p \in RedeemRoutes(c.source, req[t].endpoint, c.mode) :
            p[1] \in Nat /\ p[2] \in Nat
      BY <3>3 DEF RedeemRoutes, Mode
    <3>6. links' \subseteq LinkRow
      BY <3>1, <3>3, <3>4 DEF LinkRow
    <3>7. routes' \subseteq RouteRow
      BY <3>1, <3>4, <3>5 DEF RouteRow
    <3> QED
      BY <2>11, <3>1, <3>4, <3>6, <3>7, <1>idle, <1>code DEF RedeemCommit
  <2>12. ASSUME NEW l \in LinkId, RevokeLink(l)
         PROVE  TypeOK'
    <3>1. \A r \in links : [r EXCEPT !.status = "revoked"] \in LinkRow
      BY DEF LinkRow
    <3>2. \A r \in routes : [r EXCEPT !.status = "revoked"] \in RouteRow
      BY DEF RouteRow
    <3> QED
      BY <2>12, <3>1, <3>2 DEF RevokeLink, RevokedRoutes
  <2>13. ASSUME NEW t \in Thread, NEW n \in NodeId, NEW from \in EndpointId,
                NEW to \in EndpointId, NEW p \in PacketId, NEW c \in Content,
                NEW ttl \in Ttl, SendCheck(t, n, from, to, p, c, ttl)
         PROVE  TypeOK'
    <3>1. PICK e \in endpoints, b \in BOOLEAN :
            req' = [req EXCEPT ![t] =
                     [op |-> "send", sender |-> n, from |-> from, to |-> to,
                      dest |-> e.node, packet |-> p, content |-> c, ttl |-> ttl,
                      at |-> clock, replace |-> b]]
      BY <2>13 DEF SendCheck
    <3>2. [op |-> "send", sender |-> n, from |-> from, to |-> to,
           dest |-> e.node, packet |-> p, content |-> c, ttl |-> ttl,
           at |-> clock, replace |-> b] \in Request
      BY BoundsAssumption DEF Request, SendReq, EndpointRow, NodeId, EndpointId
    <3> QED
      BY <2>13, <3>1, <3>2 DEF SendCheck
  <2>14. ASSUME NEW t \in Thread, NEW n \in NodeId, AckCheck(t, n)
         PROVE  TypeOK'
    <3>1. \A d \in deliveries :
            [op |-> "ack", delivery |-> d.id, packet |-> d.packet] \in Request
      BY DEF Request, AckReq, DeliveryRow
    <3> QED
      BY <2>14, <3>1 DEF AckCheck, Active
  <2>15. ASSUME NEW t \in Thread, SendCommit(t)
         PROVE  TypeOK'
    <3> DEFINE r    == req[t]
               at   == IF r.replace THEN clock ELSE r.at
               newP == [id |-> r.packet, sender |-> r.sender, from |-> r.from,
                        to |-> r.to, content |-> r.content,
                        expires |-> ExpiryOf(at, r.ttl)]
               newD == [id |-> NewId("delivery"), packet |-> r.packet,
                        node |-> r.dest, endpoint |-> r.to]
               newS == [id |-> NewId("delivery"), node |-> r.sender, at |-> at]
    <3>1. r \in SendReq
      BY <2>15 DEF SendCommit, Request, Idle, RedeemReq, AckReq, DeleteReq
    <3>2. NewId("delivery") \in Nat /\ fresh' \in [Kind -> Nat]
      BY <2>15 DEF SendCommit, NewId
    <3>3. at \in Nat
      BY <3>1, BoundsAssumption DEF SendReq
    <3>4. newP \in PacketRow
      <4>1. ExpiryOf(at, r.ttl) \in Nat \cup {Never}
        <5>1. r.ttl \in Ttl
          BY <3>1 DEF SendReq
        <5> QED
          BY <3>3, <5>1, <1>expiry
      <4> QED
        BY <3>1, <4>1 DEF SendReq, PacketRow
    <3>5. newD \in DeliveryRow /\ newS \in EventRow
      BY <3>1, <3>2, <3>3 DEF SendReq, DeliveryRow, EventRow
    <3>6. /\ packets' \subseteq packets \cup {newP}
          /\ deliveries' \subseteq deliveries \cup {newD}
          /\ sendEvents' = sendEvents \cup {newS}
          /\ Finish(t)
          /\ UNCHANGED <<clock, nodeTables, linkTables>>
      BY <2>15 DEF SendCommit
    <3> QED
      BY <3>2, <3>4, <3>5, <3>6, <1>idle
  <2>16. ASSUME NEW t \in Thread, AckCommit(t)
         PROVE  TypeOK'
    BY <2>16, <1>idle DEF AckCommit
  <2>17. CASE Cleanup
    <3>1. \A c \in codes : [c EXCEPT !.status = "expired"] \in CodeRow
      BY DEF CodeRow
    <3> QED
      BY <2>17, <3>1 DEF Cleanup, Purged
  <2>18. ASSUME NEW t \in Thread, Abort(t)
         PROVE  TypeOK'
    BY <2>18, <1>idle DEF Abort
  <2>19. CASE Tick
    BY <2>19, BoundsAssumption DEF Tick
  <2>20. CASE UNCHANGED vars
    BY <2>20 DEF vars
  <2> QED
    BY <2>1, <2>2, <2>3, <2>5, <2>6, <2>7, <2>8, <2>9, <2>10, <2>11, <2>12,
       <2>13, <2>14, <2>15, <2>16, <2>17, <2>18, <2>19, <2>20
       DEF Next, IdentityStep, LinkStep, QueueStep
<1> QED
  BY <1>1, <1>2, PTL DEF Spec

----------------------------------------------------------------------------
(* The routes are changed by three kinds of step only.                      *)

RoutesShrink == routes' \subseteq routes

LEMMA RouteSteps ==
  ASSUME TypeOK, [Next]_vars
  PROVE  \/ RoutesShrink
         \/ \E t \in Thread : RedeemCommit(t)
         \/ \E l \in LinkId : RevokeLink(l)
<1> USE DEF RoutesShrink
<1>1. ASSUME NEW N, NEW E, CascadeDelete(N, E) PROVE RoutesShrink
  BY <1>1 DEF CascadeDelete
<1>2. CASE IdentityStep
  BY <1>1, <1>2 DEF IdentityStep, Register, CreateEndpoint, DeleteEndpointCheck,
     DeleteEndpointCommit, DeleteIdentity, SetNodeStatus
<1>3. CASE LinkStep
  BY <1>3 DEF LinkStep, RequestLinkCode, RedeemCheck, RedeemExpired
<1>4. CASE QueueStep
  <2>1. ASSUME NEW t \in Thread, NEW n, NEW from, NEW to, NEW p, NEW c, NEW ttl,
               SendCheck(t, n, from, to, p, c, ttl)
        PROVE  RoutesShrink
    BY <2>1 DEF SendCheck
  <2>2. ASSUME NEW t \in Thread, NEW n, AckCheck(t, n) PROVE RoutesShrink
    BY <2>2 DEF AckCheck
  <2>3. ASSUME NEW t \in Thread, SendCommit(t) PROVE RoutesShrink
    BY <2>3 DEF SendCommit
  <2>4. ASSUME NEW t \in Thread, AckCommit(t) PROVE RoutesShrink
    BY <2>4 DEF AckCommit
  <2>5. Cleanup => RoutesShrink
    BY DEF Cleanup
  <2> QED
    BY <1>4, <2>1, <2>2, <2>3, <2>4, <2>5 DEF QueueStep
<1>5. CASE Tick \/ UNCHANGED vars \/ \E t \in Thread : Abort(t)
  BY <1>5 DEF Tick, Abort, vars
<1> QED
  BY <1>2, <1>3, <1>4, <1>5 DEF Next

\* However redeemers and revocations interleave, no two active routes lead from
\* one endpoint to another.
THEOREM RouteUniqueness == Spec => []OneActiveRoutePerPair
<1>1. Init => OneActiveRoutePerPair
  BY DEF Init, OneActiveRoutePerPair
<1>2. TypeOK /\ OneActiveRoutePerPair /\ [Next]_vars => OneActiveRoutePerPair'
  <2> SUFFICES ASSUME TypeOK, OneActiveRoutePerPair, [Next]_vars
               PROVE  OneActiveRoutePerPair'
    OBVIOUS
  <2>1. CASE RoutesShrink
    BY <2>1 DEF RoutesShrink, OneActiveRoutePerPair
  <2>2. ASSUME NEW t \in Thread, RedeemCommit(t)
        PROVE  OneActiveRoutePerPair'
    <3>1. PICK c \in codes :
            /\ LinkAllowed(c.source, req[t].endpoint, c.mode)
            /\ routes' = routes \cup
                 {[from |-> p[1], to |-> p[2], link |-> NewId("link"),
                   status |-> "active"] :
                    p \in RedeemRoutes(c.source, req[t].endpoint, c.mode)}
      BY <2>2 DEF RedeemCommit
    <3> DEFINE pairs == RedeemRoutes(c.source, req[t].endpoint, c.mode)
    <3>2. \A p \in pairs, r \in routes :
            ~(r.from = p[1] /\ r.to = p[2] /\ r.status = "active")
      BY <3>1 DEF LinkAllowed, ActiveRouteExists
    <3>3. \A r \in routes' \ routes :
            \E p \in pairs : r = [from |-> p[1], to |-> p[2],
                                 link |-> NewId("link"), status |-> "active"]
      BY <3>1
    <3> HIDE DEF pairs
    <3>4. SUFFICES ASSUME NEW r1 \in routes', NEW r2 \in routes',
                          r1.status = "active", r2.status = "active",
                          r1.from = r2.from, r1.to = r2.to
                   PROVE  r1 = r2
      BY DEF OneActiveRoutePerPair
    <3>5. CASE r1 \in routes /\ r2 \in routes
      BY <3>4, <3>5 DEF OneActiveRoutePerPair
    <3>6. CASE r1 \in routes /\ r2 \notin routes
      BY <3>2, <3>3, <3>4, <3>6
    <3>7. CASE r1 \notin routes /\ r2 \in routes
      BY <3>2, <3>3, <3>4, <3>7
    <3>8. CASE r1 \notin routes /\ r2 \notin routes
      BY <3>3, <3>4, <3>8
    <3> QED
      BY <3>5, <3>6, <3>7, <3>8
  <2>3. ASSUME NEW l \in LinkId, RevokeLink(l)
        PROVE  OneActiveRoutePerPair'
    <3>1. \A r \in routes' : r.status = "active" => r \in routes
      BY <2>3 DEF RevokeLink, RevokedRoutes, TypeOK, RouteRow
    <3> QED
      BY <3>1 DEF OneActiveRoutePerPair
  <2> QED
    BY <2>1, <2>2, <2>3, RouteSteps
<1> QED
  BY <1>1, <1>2, TypeCorrect, PTL DEF Spec

----------------------------------------------------------------------------
(* Rows, their keys and what they point at.                                *)

\* Link ids and code ids are minted once.
LinkIds ==
  /\ \A l \in links : l.id <= fresh["link"]
  /\ \A l1, l2 \in links : l1.id = l2.id => l1 = l2
CodeIds ==
  /\ \A c \in codes : c.id <= fresh["code"]
  /\ \A c1, c2 \in codes : c1.id = c2.id => c1 = c2

\* The invariant the relay's transactions keep: the keys that identify links
\* are what makes a link's routes its own, and that a route joins the ends of
\* its link is what makes a cascade take both or neither.
RelayInv == ReferencesHold /\ LinkIds /\ CodeIds /\ RoutesFollowLinks

NodeIds == {n.id : n \in nodes}
EndpointIds == {e.id : e \in endpoints}

LEMMA RouteEnds ==
  ASSUME NEW r, NEW l, <<r.from, r.to>> \in RedeemRoutes(l.a, l.b, l.mode),
         l.mode \in Mode
  PROVE  {r.from, r.to} = {l.a, l.b}
  BY DEF RedeemRoutes, Mode

\* What the cascade of a deletion leaves behind points at nothing it took.
LEMMA CascadeKeepsReferences ==
  ASSUME TypeOK, RelayInv, NEW N, NEW E, CascadeDelete(N, E),
         \A e \in endpoints : e.node \in N => e.id \in E,
         UNCHANGED fresh
  PROVE  RelayInv'
<1> USE DEF CascadeDelete
<1>1. \A r \in routes : \E l \in links :
        /\ l.id = r.link
        /\ <<r.from, r.to>> \in RedeemRoutes(l.a, l.b, l.mode)
  <2>1. ASSUME NEW r \in routes
        PROVE  \E l \in links : /\ l.id = r.link
                                /\ <<r.from, r.to>> \in RedeemRoutes(l.a, l.b, l.mode)
    <3>1. PICK l \in links : l.id = r.link
      BY DEF RelayInv, ReferencesHold
    <3>2. {<<x.from, x.to>> : x \in {y \in routes : y.link = l.id}}
            = RedeemRoutes(l.a, l.b, l.mode)
      BY DEF RelayInv, RoutesFollowLinks
    <3> QED
      BY <3>1, <3>2
  <2> QED
    BY <2>1
<1>2. \A l \in links : l.mode \in Mode
  BY DEF TypeOK, LinkRow
<1>3. \A r \in routes, l \in links :
        r.link = l.id => {r.from, r.to} = {l.a, l.b}
  <2>1. ASSUME NEW r \in routes, NEW l \in links, r.link = l.id
        PROVE  {r.from, r.to} = {l.a, l.b}
    <3>1. <<r.from, r.to>> \in RedeemRoutes(l.a, l.b, l.mode)
      BY <1>1, <2>1 DEF RelayInv, LinkIds
    <3> QED
      BY <1>2, <3>1, RouteEnds
  <2> QED
    BY <2>1
<1>4. \A r \in routes, l \in links :
        r.link = l.id => (r \in routes' <=> l \in links')
  <2>1. ASSUME NEW r \in routes, NEW l \in links, r.link = l.id
        PROVE  r \in routes' <=> l \in links'
    <3>1. {r.from, r.to} = {l.a, l.b}
      BY <1>3, <2>1
    <3>2. (r.from \notin E /\ r.to \notin E) <=> (l.a \notin E /\ l.b \notin E)
      BY <3>1
    <3> QED
      BY <3>2
  <2> QED
    BY <2>1
<1>5. RoutesFollowLinks'
  <2>1. ASSUME NEW l \in links'
        PROVE  {r \in routes' : r.link = l.id} = {r \in routes : r.link = l.id}
    BY <1>4
  <2> QED
    BY <2>1 DEF RelayInv, RoutesFollowLinks
<1>6. ReferencesHold'
  <2>1. \A n \in nodes : n.id \notin N => n \in nodes'
    OBVIOUS
  <2>2. \A e \in endpoints : e.id \notin E => e \in endpoints'
    OBVIOUS
  <2>3. \A e \in endpoints' : e.node \in NodeIds'
    <3>1. \A e \in endpoints : e.node \in NodeIds
      BY DEF RelayInv, ReferencesHold, NodeIds
    <3> QED
      BY <2>1, <3>1 DEF NodeIds
  <2>4. /\ \A c \in codes' : c.source \in EndpointIds'
        /\ \A l \in links' : l.a \in EndpointIds' /\ l.b \in EndpointIds'
    <3>1. /\ \A c \in codes : c.source \in EndpointIds
          /\ \A l \in links : l.a \in EndpointIds /\ l.b \in EndpointIds
      BY DEF RelayInv, ReferencesHold, EndpointIds
    <3> QED
      BY <2>2, <3>1 DEF EndpointIds
  <2>5. /\ \A p \in packets' : /\ p.sender \in NodeIds'
                               /\ p.from \in EndpointIds' /\ p.to \in EndpointIds'
        /\ \A x \in sendEvents' : x.node \in NodeIds'
    <3>1. /\ \A p \in packets : /\ p.sender \in NodeIds
                                /\ p.from \in EndpointIds /\ p.to \in EndpointIds
          /\ \A x \in sendEvents : x.node \in NodeIds
      BY DEF RelayInv, ReferencesHold, EndpointIds, NodeIds
    <3> QED
      BY <2>1, <2>2, <3>1 DEF EndpointIds, NodeIds
  <2>6. \A r \in routes' : \E l \in links' : l.id = r.link
    BY <1>1, <1>4
  <2> QED
    BY <2>3, <2>4, <2>5, <2>6 DEF ReferencesHold, NodeIds, EndpointIds
<1>7. LinkIds' /\ CodeIds'
  BY DEF RelayInv, LinkIds, CodeIds
<1> QED
  BY <1>5, <1>6, <1>7 DEF RelayInv

\* A step that adds no row but nodes, endpoints and codes of its own minting,
\* or takes rows that nothing points at, keeps the references.
LEMMA GrowthKeepsReferences ==
  ASSUME RelayInv, UNCHANGED <<links, routes>>,
         NodeIds \subseteq NodeIds', EndpointIds \subseteq EndpointIds',
         fresh'["link"] = fresh["link"],
         \A e \in endpoints' : e \in endpoints \/ e.node \in NodeIds',
         \A c \in codes' : c.source \in EndpointIds',
         \A p \in packets' : p \in packets \/ /\ p.sender \in NodeIds'
                                              /\ p.from \in EndpointIds'
                                              /\ p.to \in EndpointIds',
         \A s \in sendEvents' : s \in sendEvents \/ s.node \in NodeIds',
         CodeIds'
  PROVE  RelayInv'
<1>1. /\ \A e \in endpoints : e.node \in NodeIds
      /\ \A l \in links : l.a \in EndpointIds /\ l.b \in EndpointIds
      /\ \A r \in routes : \E l \in links : l.id = r.link
      /\ \A p \in packets : /\ p.sender \in NodeIds
                            /\ p.from \in EndpointIds /\ p.to \in EndpointIds
      /\ \A s \in sendEvents : s.node \in NodeIds
  BY DEF RelayInv, ReferencesHold, NodeIds, EndpointIds
<1>2. /\ \A e \in endpoints' : e.node \in NodeIds'
      /\ \A l \in links' : l.a \in EndpointIds' /\ l.b \in EndpointIds'
      /\ \A r \in routes' : \E l \in links' : l.id = r.link
      /\ \A p \in packets' : /\ p.sender \in NodeIds'
                             /\ p.from \in EndpointIds' /\ p.to \in EndpointIds'
      /\ \A s \in sendEvents' : s.node \in NodeIds'
  BY <1>1
<1>3. ReferencesHold'
  BY <1>2 DEF ReferencesHold, NodeIds, EndpointIds
<1>4. LinkIds' /\ RoutesFollowLinks'
  BY DEF RelayInv, LinkIds, RoutesFollowLinks
<1> QED
  BY <1>3, <1>4 DEF RelayInv

\* Marking a code, whatever the mark, keeps its identity and its source.
LEMMA MarkedCodes ==
  ASSUME TypeOK, NEW c, NEW s
  PROVE  \A d \in SetCodeStatus(c, s) :
           \E b \in codes : /\ d.id = b.id /\ d.source = b.source
                            /\ d = IF b.id = c THEN [b EXCEPT !.status = s] ELSE b
  BY DEF TypeOK, CodeRow, SetCodeStatus

\* The claim of a code inserts a link with a new id and exactly the routes its
\* mode asks for.
LEMMA RedeemKeepsReferences ==
  ASSUME TypeOK, RelayInv, NEW t \in Thread, RedeemCommit(t)
  PROVE  RelayInv'
<1> DEFINE id  == NewId("link")
           dst == req[t].endpoint
<1>1. PICK c \in codes :
        /\ c.id = req[t].code
        /\ EndpointExists(c.source) /\ EndpointExists(dst)
        /\ codes' = SetCodeStatus(c.id, "used")
        /\ links' = links \cup {[id |-> id, a |-> c.source, b |-> dst,
                                 mode |-> c.mode, status |-> "active"]}
        /\ routes' = routes \cup
             {[from |-> p[1], to |-> p[2], link |-> id, status |-> "active"] :
                p \in RedeemRoutes(c.source, dst, c.mode)}
  BY DEF RedeemCommit, LinkAllowed
<1> DEFINE new  == [id |-> id, a |-> c.source, b |-> dst, mode |-> c.mode,
                    status |-> "active"]
           ends == RedeemRoutes(c.source, dst, c.mode)
           own  == {[from |-> p[1], to |-> p[2], link |-> id, status |-> "active"] :
                      p \in ends}
<1>2. /\ fresh["link"] \in Nat /\ id = fresh["link"] + 1 /\ fresh'["link"] = id
      /\ fresh'["code"] = fresh["code"]
      /\ UNCHANGED <<nodes, endpoints, packets, sendEvents>>
  BY DEF RedeemCommit, NewId, TypeOK
<1>3. \A p \in ends : p = <<p[1], p[2]>>
  BY DEF RedeemRoutes, Mode, TypeOK, CodeRow
<1>4. \A r \in routes : r.link # id
  BY <1>2 DEF RelayInv, LinkIds, ReferencesHold
<1>5. LinkIds'
  BY <1>1, <1>2 DEF RelayInv, LinkIds, TypeOK, LinkRow
<1>6. CodeIds'
  <2>1. \A d \in codes' : \E b \in codes :
          d.id = b.id /\ d = IF b.id = c.id THEN [b EXCEPT !.status = "used"] ELSE b
    BY <1>1, MarkedCodes
  <2> QED
    BY <1>2, <2>1 DEF RelayInv, CodeIds
<1>7. RoutesFollowLinks'
  <2> HIDE DEF ends
  <2>1. ASSUME NEW l \in links
        PROVE  {r \in routes' : r.link = l.id} = {r \in routes : r.link = l.id}
    <3>1. l.id # id
      BY <1>2 DEF RelayInv, LinkIds, TypeOK, LinkRow
    <3> QED
      BY <1>1, <3>1
  <2>2. {r \in routes' : r.link = id} = own
    <3>1. routes' = routes \cup own
      BY <1>1 DEF ends
    <3>2. \A r \in own : r.link = id
      OBVIOUS
    <3> HIDE DEF own
    <3> QED
      BY <1>4, <3>1, <3>2
  <2>3. {<<r.from, r.to>> : r \in own} = ends
    <3>1. \A p \in ends :
            LET r == [from |-> p[1], to |-> p[2], link |-> id, status |-> "active"]
            IN r.from = p[1] /\ r.to = p[2]
      OBVIOUS
    <3>2. \A r \in own : <<r.from, r.to>> \in ends
      BY <1>3
    <3>3. \A p \in ends : \E r \in own : p = <<r.from, r.to>>
      BY <1>3, <3>1
    <3> QED
      BY <3>2, <3>3
  <2>4. \A r \in own : r.status = "active"
    OBVIOUS
  <2>5. links' = links \cup {new}
    BY <1>1
  <2>6. ASSUME NEW l \in links'
        PROVE  LET o == {r \in routes' : r.link = l.id}
               IN /\ {<<r.from, r.to>> : r \in o} = RedeemRoutes(l.a, l.b, l.mode)
                  /\ \A r \in o : r.status = l.status
    <3>1. CASE l \in links
      BY <2>1, <3>1 DEF RelayInv, RoutesFollowLinks
    <3>2. CASE l = new
      BY <2>2, <2>3, <2>4, <3>2 DEF ends
    <3> QED
      BY <2>5, <2>6, <3>1, <3>2
  <2> QED
    BY <2>6 DEF RoutesFollowLinks
<1>8. ReferencesHold'
  <2>1. \A d \in codes' : \E b \in codes : d.source = b.source
    BY <1>1, MarkedCodes
  <2>2. \A r \in routes' : r \in routes \/ r.link = id
    BY <1>1
  <2>3. \A r \in routes' : \E l \in links' : l.id = r.link
    <3>1. \A r \in routes : \E l \in links : l.id = r.link
      BY DEF RelayInv, ReferencesHold
    <3>2. new \in links' /\ new.id = id
      BY <1>1
    <3>3. links \subseteq links'
      BY <1>1
    <3> QED
      BY <2>2, <3>1, <3>2, <3>3
  <2>4. \A l \in links' : l \in links \/ (l.a = c.source /\ l.b = dst)
    BY <1>1
  <2>5. NodeIds' = NodeIds /\ EndpointIds' = EndpointIds
    BY <1>2 DEF NodeIds, EndpointIds
  <2>6. c.source \in EndpointIds /\ dst \in EndpointIds
    BY <1>1 DEF EndpointExists, EndpointIds
  <2>7. /\ \A e \in endpoints' : e.node \in NodeIds'
        /\ \A d \in codes' : d.source \in EndpointIds'
        /\ \A l \in links' : l.a \in EndpointIds' /\ l.b \in EndpointIds'
        /\ \A p \in packets' : /\ p.sender \in NodeIds'
                               /\ p.from \in EndpointIds' /\ p.to \in EndpointIds'
        /\ \A s \in sendEvents' : s.node \in NodeIds'
    BY <1>2, <2>1, <2>4, <2>5, <2>6
       DEF RelayInv, ReferencesHold, NodeIds, EndpointIds
  <2> QED
    BY <2>3, <2>7 DEF ReferencesHold, NodeIds, EndpointIds
<1> QED
  BY <1>5, <1>6, <1>7, <1>8 DEF RelayInv

\* A revocation marks the link and its routes in one step.
LEMMA RevokeKeepsReferences ==
  ASSUME TypeOK, RelayInv, NEW l \in LinkId, RevokeLink(l)
  PROVE  RelayInv'
<1> DEFINE L(k) == IF k.id = l THEN [k EXCEPT !.status = "revoked"] ELSE k
           R(r) == IF r.link = l THEN [r EXCEPT !.status = "revoked"] ELSE r
<1>1. links' = {L(k) : k \in links} /\ routes' = {R(r) : r \in routes}
  BY DEF RevokeLink, RevokedRoutes
<1>2. \A k \in links : /\ L(k).id = k.id /\ L(k).a = k.a /\ L(k).b = k.b
                       /\ L(k).mode = k.mode
                       /\ L(k).status = IF k.id = l THEN "revoked" ELSE k.status
  BY DEF TypeOK, LinkRow
<1>3. \A r \in routes : /\ R(r).link = r.link /\ R(r).from = r.from /\ R(r).to = r.to
                        /\ R(r).status = IF r.link = l THEN "revoked" ELSE r.status
  BY DEF TypeOK, RouteRow
<1>4. UNCHANGED <<fresh, nodes, endpoints, codes, packets, sendEvents>>
  BY DEF RevokeLink
<1> HIDE DEF L, R
<1>5. ReferencesHold'
  <2>1. \A r \in routes' : \E k \in links' : k.id = r.link
    BY <1>1, <1>2, <1>3 DEF RelayInv, ReferencesHold
  <2>2. \A k \in links' : \E m \in links : k.a = m.a /\ k.b = m.b
    BY <1>1, <1>2
  <2> QED
    BY <1>4, <2>1, <2>2 DEF RelayInv, ReferencesHold
<1>6. LinkIds' /\ CodeIds'
  BY <1>1, <1>2, <1>4 DEF RelayInv, LinkIds, CodeIds
<1>7. RoutesFollowLinks'
  <2>1. ASSUME NEW k \in links
        PROVE  LET o == {r \in routes' : r.link = k.id}
               IN /\ {<<r.from, r.to>> : r \in o} = RedeemRoutes(k.a, k.b, k.mode)
                  /\ \A r \in o : r.status = L(k).status
    <3> DEFINE o == {r \in routes : r.link = k.id}
    <3>1. {r \in routes' : r.link = k.id} = {R(r) : r \in o}
      BY <1>1, <1>3
    <3>2. {<<r.from, r.to>> : r \in {R(x) : x \in o}} = {<<r.from, r.to>> : r \in o}
      BY <1>3
    <3>3. /\ {<<r.from, r.to>> : r \in o} = RedeemRoutes(k.a, k.b, k.mode)
          /\ \A r \in o : r.status = k.status
      BY DEF RelayInv, RoutesFollowLinks
    <3>4. \A r \in {R(x) : x \in o} : r.status = L(k).status
      BY <1>2, <1>3, <3>3
    <3> QED
      BY <3>1, <3>2, <3>3, <3>4
  <2> QED
    BY <1>1, <1>2, <2>1 DEF RoutesFollowLinks
<1> QED
  BY <1>5, <1>6, <1>7 DEF RelayInv

LEMMA RelayStepsKeepReferences ==
  TypeOK /\ RelayInv /\ [Next]_vars => RelayInv'
<1> SUFFICES ASSUME TypeOK, RelayInv, [Next]_vars PROVE RelayInv'
  OBVIOUS
<1>refs. /\ \A c \in codes : c.source \in EndpointIds
         /\ \A p \in packets : p.sender \in NodeIds
  BY DEF RelayInv, ReferencesHold, NodeIds, EndpointIds
\* The steps that touch none of the tables but packets and sendEvents.
<1>queue. ASSUME UNCHANGED <<fresh, nodes, endpoints, codes, links, routes>>,
                 \A p \in packets' : p \in packets \/ /\ p.sender \in NodeIds
                                                      /\ p.from \in EndpointIds
                                                      /\ p.to \in EndpointIds,
                 \A s \in sendEvents' : s \in sendEvents \/ s.node \in NodeIds
          PROVE  RelayInv'
  <2>1. NodeIds' = NodeIds /\ EndpointIds' = EndpointIds
    BY <1>queue DEF NodeIds, EndpointIds
  <2>2. CodeIds'
    BY <1>queue DEF RelayInv, CodeIds
  <2>3. \A c \in codes' : c.source \in EndpointIds'
    BY <1>refs, <1>queue, <2>1
  <2> QED
    BY <1>queue, <2>1, <2>2, <2>3, GrowthKeepsReferences
\* The steps that mark codes.
<1>marks. ASSUME UNCHANGED <<fresh, nodes, endpoints, links, routes>>,
                 packets' \subseteq packets, sendEvents' \subseteq sendEvents,
                 NEW M, codes' = {M[c] : c \in codes},
                 \A c \in codes : M[c].id = c.id /\ M[c].source = c.source
          PROVE  RelayInv'
  <2>1. NodeIds' = NodeIds /\ EndpointIds' = EndpointIds
    BY <1>marks DEF NodeIds, EndpointIds
  <2>2. CodeIds'
    BY <1>marks DEF RelayInv, CodeIds
  <2>3. \A c \in codes' : c.source \in EndpointIds'
    BY <1>refs, <1>marks, <2>1
  <2> QED
    BY <1>marks, <2>1, <2>2, <2>3, GrowthKeepsReferences
<1>1. CASE Register
  <2>1. /\ NodeIds \subseteq NodeIds' /\ EndpointIds \subseteq EndpointIds'
        /\ NewId("node") \in NodeIds'
    <3> DEFINE n == [id |-> NewId("node"), status |-> "active"]
    <3>1. nodes \subseteq nodes' /\ endpoints \subseteq endpoints' /\ n \in nodes'
      BY <1>1 DEF Register
    <3>2. n.id = NewId("node")
      OBVIOUS
    <3> HIDE DEF n
    <3> QED
      BY <3>1, <3>2 DEF NodeIds, EndpointIds
  <2>2. fresh'["link"] = fresh["link"] /\ fresh'["code"] = fresh["code"]
    BY <1>1 DEF Register, TypeOK
  <2>3. CodeIds'
    BY <1>1, <2>2 DEF Register, RelayInv, CodeIds
  <2>4. \A e \in endpoints' : e \in endpoints \/ e.node \in NodeIds'
    BY <1>1, <2>1 DEF Register
  <2>5. \A c \in codes' : c.source \in EndpointIds'
    BY <1>1, <1>refs, <2>1 DEF Register
  <2>6. UNCHANGED <<links, routes, packets, sendEvents>>
    BY <1>1 DEF Register
  <2> QED
    BY <2>1, <2>2, <2>3, <2>4, <2>5, <2>6, GrowthKeepsReferences
<1>2. ASSUME NEW n \in NodeId, NEW d \in BOOLEAN, CreateEndpoint(n, d)
      PROVE  RelayInv'
  <2>1. /\ NodeIds \subseteq NodeIds' /\ EndpointIds \subseteq EndpointIds'
        /\ n \in NodeIds'
    BY <1>2 DEF CreateEndpoint, NodeActive, NodeIds, EndpointIds
  <2>2. fresh'["link"] = fresh["link"] /\ fresh'["code"] = fresh["code"]
    BY <1>2 DEF CreateEndpoint, TypeOK
  <2>3. CodeIds'
    BY <1>2, <2>2 DEF CreateEndpoint, RelayInv, CodeIds
  <2>4. \A e \in endpoints' : e \in endpoints \/ e.node \in NodeIds'
    BY <1>2, <2>1 DEF CreateEndpoint
  <2>5. \A c \in codes' : c.source \in EndpointIds'
    BY <1>2, <1>refs, <2>1 DEF CreateEndpoint
  <2>6. UNCHANGED <<links, routes, packets, sendEvents>>
    BY <1>2 DEF CreateEndpoint
  <2> QED
    BY <2>1, <2>2, <2>3, <2>4, <2>5, <2>6, GrowthKeepsReferences
<1>3. ASSUME NEW t \in Thread, DeleteEndpointCommit(t)
      PROVE  RelayInv'
  BY <1>3, CascadeKeepsReferences DEF DeleteEndpointCommit
<1>4. ASSUME NEW n \in NodeId, DeleteIdentity(n)
      PROVE  RelayInv'
  BY <1>4, CascadeKeepsReferences DEF DeleteIdentity
<1>5. ASSUME NEW n \in NodeId, NEW s \in AdminStatus, SetNodeStatus(n, s)
      PROVE  RelayInv'
  <2>1. \A r \in nodes : [r EXCEPT !.status = s].id = r.id
    BY DEF TypeOK, NodeRow
  <2>2. NodeIds \subseteq NodeIds'
    BY <1>5, <2>1 DEF SetNodeStatus, NodeIds
  <2>3. UNCHANGED <<fresh, endpoints, codes, links, routes, packets, sendEvents>>
    BY <1>5 DEF SetNodeStatus
  <2>4. EndpointIds' = EndpointIds /\ CodeIds'
    BY <2>3 DEF EndpointIds, CodeIds, RelayInv
  <2>5. \A c \in codes' : c.source \in EndpointIds'
    BY <1>refs, <2>3, <2>4
  <2> QED
    BY <2>2, <2>3, <2>4, <2>5, GrowthKeepsReferences
<1>6. ASSUME NEW n \in NodeId, NEW e \in EndpointId, NEW m \in Mode,
             RequestLinkCode(n, e, m)
      PROVE  RelayInv'
  <2>1. NodeIds' = NodeIds /\ EndpointIds' = EndpointIds /\ e \in EndpointIds
    BY <1>6 DEF RequestLinkCode, NodeIds, EndpointIds, Owns
  <2>2. /\ fresh'["link"] = fresh["link"] /\ fresh'["code"] = fresh["code"] + 1
        /\ fresh["code"] \in Nat
    BY <1>6 DEF RequestLinkCode, NewId, TypeOK
  <2>3. \A c \in codes' : c \in codes \/ (c.id = fresh["code"] + 1 /\ c.source = e)
    BY <1>6 DEF RequestLinkCode, NewId
  <2>4. CodeIds'
    <3>1. \A c \in codes' \ codes, d \in codes' \ codes : c = d
      BY <1>6 DEF RequestLinkCode
    <3>2. \A c \in codes : c.id \in Nat /\ c.id <= fresh["code"]
      BY DEF RelayInv, CodeIds, TypeOK, CodeRow
    <3> QED
      BY <2>2, <2>3, <3>1, <3>2 DEF RelayInv, CodeIds
  <2>5. \A c \in codes' : c.source \in EndpointIds'
    BY <1>refs, <2>1, <2>3
  <2>6. UNCHANGED <<endpoints, links, routes, packets, sendEvents>>
    BY <1>6 DEF RequestLinkCode
  <2> QED
    BY <2>1, <2>2, <2>4, <2>5, <2>6, GrowthKeepsReferences
<1>7. ASSUME NEW n \in NodeId, NEW e \in EndpointId, RedeemExpired(n, e)
      PROVE  RelayInv'
  <2>1. PICK x \in codes : codes' = SetCodeStatus(x.id, "expired")
    BY <1>7 DEF RedeemExpired
  <2> DEFINE M == [c \in codes |->
                     IF c.id = x.id THEN [c EXCEPT !.status = "expired"] ELSE c]
  <2>2. codes' = {M[c] : c \in codes}
    BY <2>1 DEF SetCodeStatus
  <2>3. \A c \in codes : M[c].id = c.id /\ M[c].source = c.source
    BY DEF TypeOK, CodeRow
  <2>4. UNCHANGED <<fresh, nodes, endpoints, links, routes, packets, sendEvents>>
    BY <1>7 DEF RedeemExpired
  <2> HIDE DEF M
  <2> QED
    BY <1>marks, <2>2, <2>3, <2>4
<1>8. CASE Cleanup
  <2> DEFINE M == [c \in codes |-> IF c.status = "active" /\ c.expires <= clock
                                   THEN [c EXCEPT !.status = "expired"] ELSE c]
  <2>1. codes' = {M[c] : c \in codes}
    BY <1>8 DEF Cleanup
  <2>2. \A c \in codes : M[c].id = c.id /\ M[c].source = c.source
    BY DEF TypeOK, CodeRow
  <2>3. /\ packets' \subseteq packets /\ sendEvents' \subseteq sendEvents
        /\ UNCHANGED <<fresh, nodes, endpoints, links, routes>>
    BY <1>8 DEF Cleanup, Purged
  <2> HIDE DEF M
  <2> QED
    BY <1>marks, <2>1, <2>2, <2>3
<1>9. ASSUME NEW t \in Thread, SendCommit(t)
      PROVE  RelayInv'
  <2>1. /\ links' = links /\ routes' = routes /\ codes' = codes
        /\ nodes' = nodes /\ endpoints' = endpoints
        /\ fresh' = [fresh EXCEPT !["delivery"] = NewId("delivery")]
        /\ req[t].sender \in NodeIds
        /\ req[t].from \in EndpointIds /\ req[t].to \in EndpointIds
    BY <1>9 DEF SendCommit, ForeignKeysExist, NodeIds, EndpointIds
  <2>2. fresh'["link"] = fresh["link"] /\ fresh'["code"] = fresh["code"]
    BY <2>1 DEF TypeOK
  <2>3. \A p \in packets' : p \in packets \/ /\ p.sender = req[t].sender
                                             /\ p.from = req[t].from
                                             /\ p.to = req[t].to
    BY <1>9 DEF SendCommit
  <2>4. \A s \in sendEvents' : s \in sendEvents \/ s.node = req[t].sender
    BY <1>9 DEF SendCommit
  <2>5. NodeIds' = NodeIds /\ EndpointIds' = EndpointIds
    BY <2>1 DEF NodeIds, EndpointIds
  <2>6. CodeIds'
    BY <2>1, <2>2 DEF RelayInv, CodeIds
  <2>7. \A c \in codes' : c.source \in EndpointIds'
    BY <1>refs, <2>1, <2>5
  <2> QED
    BY <2>1, <2>2, <2>3, <2>4, <2>5, <2>6, <2>7, GrowthKeepsReferences
<1>10. ASSUME NEW t \in Thread, AckCommit(t)
       PROVE  RelayInv'
  BY <1>10, <1>queue DEF AckCommit
<1>11. ASSUME UNCHANGED <<fresh, nodeTables, linkTables, queueTables>>
       PROVE  RelayInv'
  BY <1>11, <1>queue
<1>12. CASE IdentityStep
  BY <1>1, <1>2, <1>3, <1>4, <1>5, <1>11, <1>12
     DEF IdentityStep, DeleteEndpointCheck
<1>13. CASE LinkStep
  BY <1>6, <1>7, <1>11, <1>13, RedeemKeepsReferences, RevokeKeepsReferences
     DEF LinkStep, RedeemCheck
<1>14. CASE QueueStep
  <2>1. ASSUME NEW t \in Thread, NEW n, NEW from, NEW to, NEW p, NEW c, NEW ttl,
               SendCheck(t, n, from, to, p, c, ttl)
        PROVE  RelayInv'
    BY <1>11, <2>1 DEF SendCheck
  <2>2. ASSUME NEW t \in Thread, NEW n, AckCheck(t, n) PROVE RelayInv'
    BY <1>11, <2>2 DEF AckCheck
  <2> QED
    BY <1>8, <1>9, <1>10, <1>14, <2>1, <2>2 DEF QueueStep
<1>15. CASE Tick \/ UNCHANGED vars \/ \E t \in Thread : Abort(t)
  BY <1>11, <1>15 DEF Tick, Abort, vars
<1> QED
  BY <1>12, <1>13, <1>14, <1>15 DEF Next

LEMMA RelayInvariance == Spec => []RelayInv
<1>1. Init => RelayInv
  BY DEF Init, RelayInv, ReferencesHold, LinkIds, CodeIds, RoutesFollowLinks
<1> QED
  BY <1>1, RelayStepsKeepReferences, TypeCorrect, PTL DEF Spec

\* No row ever outlives a row it points at.
THEOREM ReferentialIntegrity == Spec => []ReferencesHold
<1>1. RelayInv => ReferencesHold
  BY DEF RelayInv
<1> QED
  BY <1>1, RelayInvariance, PTL

\* A link and its routes are opened, revoked and deleted together.
THEOREM RoutesMirrorLinks == Spec => []RoutesFollowLinks
<1>1. RelayInv => RoutesFollowLinks
  BY DEF RelayInv
<1> QED
  BY <1>1, RelayInvariance, PTL

----------------------------------------------------------------------------
(* What a code is worth.                                                   *)

\* The two halves of OneLinkPerCode, as actions.
ActiveLinksSpendCodes ==
  \A l \in links' \ links : l.status = "active" =>
    \E c \in codes : /\ c.status = "active"
                     /\ c.source = l.a /\ c.mode = l.mode
                     /\ [c EXCEPT !.status = "used"] \in codes'
CodesStaySpent ==
  \A c \in codes, d \in codes' :
    c.id = d.id /\ c.status # "active" => d.status # "active"

\* A step that mints no link and marks or drops codes keeps both.
LEMMA MarkingSpendsNothing ==
  ASSUME TypeOK, RelayInv,
         \A l \in links' : l \in links \/ l.status = "revoked",
         \A d \in codes' : d \in codes \/ d.status # "active"
                           \/ d.id = fresh["code"] + 1
  PROVE  ActiveLinksSpendCodes /\ CodesStaySpent
<1>1. ActiveLinksSpendCodes
  BY DEF ActiveLinksSpendCodes
<1>2. CodesStaySpent
  BY DEF CodesStaySpent, RelayInv, CodeIds, TypeOK, CodeRow
<1> QED
  BY <1>1, <1>2

LEMMA RedeemSpendsItsCode ==
  ASSUME TypeOK, RelayInv, NEW t \in Thread, RedeemCommit(t)
  PROVE  ActiveLinksSpendCodes /\ CodesStaySpent
<1>1. PICK c \in codes :
        /\ c.status = "active"
        /\ codes' = SetCodeStatus(c.id, "used")
        /\ links' = links \cup {[id |-> NewId("link"), a |-> c.source,
                                 b |-> req[t].endpoint, mode |-> c.mode,
                                 status |-> "active"]}
  BY DEF RedeemCommit, Claimable
<1>2. [c EXCEPT !.status = "used"] \in codes'
  BY <1>1 DEF SetCodeStatus
<1>3. ActiveLinksSpendCodes
  BY <1>1, <1>2 DEF ActiveLinksSpendCodes
<1>4. \A d \in codes' : d \in codes \/ d.status # "active"
  <2>1. \A b \in codes : [b EXCEPT !.status = "used"].status = "used"
    BY DEF TypeOK, CodeRow
  <2> QED
    BY <1>1, <2>1 DEF SetCodeStatus
<1>5. CodesStaySpent
  BY <1>4 DEF CodesStaySpent, RelayInv, CodeIds
<1> QED
  BY <1>3, <1>5

LEMMA CodeSteps ==
  TypeOK /\ RelayInv /\ [Next]_vars => ActiveLinksSpendCodes /\ CodesStaySpent
<1> DEFINE Goal == ActiveLinksSpendCodes /\ CodesStaySpent
<1> SUFFICES ASSUME TypeOK, RelayInv, [Next]_vars PROVE Goal
  OBVIOUS
<1> HIDE DEF Goal
<1>keep. ASSUME links' \subseteq links, codes' \subseteq codes PROVE Goal
  BY <1>keep, MarkingSpendsNothing DEF Goal
<1>1. ASSUME NEW N, NEW E, CascadeDelete(N, E) PROVE Goal
  BY <1>1, <1>keep DEF CascadeDelete
<1>2. CASE IdentityStep
  BY <1>1, <1>2, <1>keep DEF IdentityStep, Register, CreateEndpoint,
     DeleteEndpointCheck, DeleteEndpointCommit, DeleteIdentity, SetNodeStatus
<1>3. ASSUME NEW n \in NodeId, NEW e \in EndpointId, NEW m \in Mode,
             RequestLinkCode(n, e, m)
      PROVE  Goal
  <2>1. links' = links /\ \A d \in codes' : d \in codes \/ d.id = fresh["code"] + 1
    BY <1>3 DEF RequestLinkCode, NewId
  <2> QED
    BY <2>1, MarkingSpendsNothing DEF Goal
<1>4. ASSUME NEW n \in NodeId, NEW e \in EndpointId, RedeemExpired(n, e)
      PROVE  Goal
  <2>1. \A b \in codes : [b EXCEPT !.status = "expired"].status = "expired"
    BY DEF TypeOK, CodeRow
  <2>2. links' = links /\ \A d \in codes' : d \in codes \/ d.status # "active"
    BY <1>4, <2>1 DEF RedeemExpired, SetCodeStatus
  <2> QED
    BY <2>2, MarkingSpendsNothing DEF Goal
<1>5. CASE Cleanup
  <2>1. \A b \in codes : [b EXCEPT !.status = "expired"].status = "expired"
    BY DEF TypeOK, CodeRow
  <2>2. links' = links /\ \A d \in codes' : d \in codes \/ d.status # "active"
    BY <1>5, <2>1 DEF Cleanup
  <2> QED
    BY <2>2, MarkingSpendsNothing DEF Goal
<1>6. ASSUME NEW l \in LinkId, RevokeLink(l) PROVE Goal
  <2>1. \A k \in links : [k EXCEPT !.status = "revoked"].status = "revoked"
    BY DEF TypeOK, LinkRow
  <2>2. codes' = codes /\ \A k \in links' : k \in links \/ k.status = "revoked"
    BY <1>6, <2>1 DEF RevokeLink
  <2> QED
    BY <2>2, MarkingSpendsNothing DEF Goal
<1>7. ASSUME NEW t \in Thread, RedeemCommit(t) PROVE Goal
  BY <1>7, RedeemSpendsItsCode DEF Goal
<1>8. CASE LinkStep
  BY <1>3, <1>4, <1>6, <1>7, <1>8, <1>keep DEF LinkStep, RedeemCheck
<1>9. CASE QueueStep
  <2>1. ASSUME NEW t \in Thread, NEW n, NEW from, NEW to, NEW p, NEW c, NEW ttl,
               SendCheck(t, n, from, to, p, c, ttl)
        PROVE  Goal
    BY <1>keep, <2>1 DEF SendCheck
  <2>2. ASSUME NEW t \in Thread, NEW n, AckCheck(t, n) PROVE Goal
    BY <1>keep, <2>2 DEF AckCheck
  <2>3. ASSUME NEW t \in Thread, SendCommit(t) PROVE Goal
    BY <1>keep, <2>3 DEF SendCommit
  <2>4. ASSUME NEW t \in Thread, AckCommit(t) PROVE Goal
    BY <1>keep, <2>4 DEF AckCommit
  <2> QED
    BY <1>5, <1>9, <2>1, <2>2, <2>3, <2>4 DEF QueueStep
<1>10. CASE Tick \/ UNCHANGED vars \/ \E t \in Thread : Abort(t)
  BY <1>10, <1>keep DEF Tick, Abort, vars
<1> QED
  BY <1>2, <1>8, <1>9, <1>10 DEF Next

\* A code yields at most one link, and only while it is active: whichever
\* redeemers race, however the cleanup and the revocations fall between them.
THEOREM CodesAreSpentOnce == Spec => OneLinkPerCode
<1>1. TypeOK /\ RelayInv /\ [Next]_vars =>
        [ActiveLinksSpendCodes /\ CodesStaySpent]_vars
  BY CodeSteps
<1>2. Spec => [][ActiveLinksSpendCodes /\ CodesStaySpent]_vars
  BY <1>1, RelayInvariance, TypeCorrect, PTL DEF Spec
<1> QED
  BY <1>2, PTL DEF OneLinkPerCode, ActiveLinksSpendCodes, CodesStaySpent

----------------------------------------------------------------------------
(* The custody of packets.                                                 *)

\* Endpoint ids and delivery ids are minted once.
EndpointKeys ==
  /\ \A e \in endpoints : e.id <= fresh["endpoint"]
  /\ \A e1, e2 \in endpoints : e1.id = e2.id => e1 = e2
DeliveryKeys ==
  /\ \A d \in deliveries : d.id <= fresh["delivery"]
  /\ \A d1, d2 \in deliveries : d1.id = d2.id => d1 = d2

\* What a request found stays true of the rows it named as long as they are
\* there, for ids are never reused: a send's endpoints keep their owners, and
\* the delivery an ACK addresses keeps its packet.
SendNamesOwners(r) ==
  /\ r.from <= fresh["endpoint"] /\ r.to <= fresh["endpoint"]
  /\ \A e \in endpoints : /\ e.id = r.from => e.node = r.sender
                          /\ e.id = r.to   => e.node = r.dest
AckNamesPair(r) ==
  /\ r.delivery <= fresh["delivery"]
  /\ \A d \in deliveries : d.id = r.delivery => d.packet = r.packet
RequestsName ==
  \A t \in Thread : /\ req[t].op = "send" => SendNamesOwners(req[t])
                    /\ req[t].op = "ack"  => AckNamesPair(req[t])

SendersOwn == \A p \in packets : Owns(p.sender, p.from)

CustodyInv ==
  /\ EndpointKeys /\ DeliveryKeys /\ RequestsName
  /\ SendersOwn /\ OneDeliveryPerPacket

\* New rows have new ids, so a step that keeps a request, or ends it, keeps
\* what the request names.
LEMMA NamesKeep ==
  ASSUME TypeOK, RequestsName,
         fresh'["endpoint"] \in Nat, fresh["endpoint"] <= fresh'["endpoint"],
         fresh'["delivery"] \in Nat, fresh["delivery"] <= fresh'["delivery"],
         \A e \in endpoints' : e \in endpoints \/ e.id = fresh["endpoint"] + 1,
         \A d \in deliveries' : d \in deliveries \/ d.id = fresh["delivery"] + 1,
         \A t \in Thread : req'[t] = req[t] \/ req'[t] = Idle
  PROVE  RequestsName'
<1>1. SUFFICES ASSUME NEW t \in Thread
               PROVE  /\ req'[t].op = "send" => SendNamesOwners(req[t])'
                      /\ req'[t].op = "ack"  => AckNamesPair(req[t])'
  BY DEF RequestsName
<1>2. CASE req'[t] = Idle
  BY <1>2 DEF Idle
<1>3. CASE req'[t] = req[t] /\ req[t].op = "send"
  <2>1. req[t] \in SendReq
    BY <1>3 DEF TypeOK, Request, Idle, RedeemReq, AckReq, DeleteReq
  <2>2. SendNamesOwners(req[t])
    BY <1>3 DEF RequestsName
  <2>3. req[t].from \in Nat /\ req[t].to \in Nat
    BY <2>1 DEF SendReq
  <2>4. fresh["endpoint"] \in Nat
    BY DEF TypeOK
  <2>5. SendNamesOwners(req[t])'
    BY <1>3, <2>2, <2>3, <2>4 DEF SendNamesOwners
  <2> QED
    BY <1>3, <2>5
<1>4. CASE req'[t] = req[t] /\ req[t].op = "ack"
  <2>1. req[t] \in AckReq
    BY <1>4 DEF TypeOK, Request, Idle, RedeemReq, SendReq, DeleteReq
  <2>2. AckNamesPair(req[t])
    BY <1>4 DEF RequestsName
  <2>3. req[t].delivery \in Nat
    BY <2>1 DEF AckReq
  <2>4. fresh["delivery"] \in Nat
    BY DEF TypeOK
  <2>5. AckNamesPair(req[t])'
    BY <1>4, <2>2, <2>3, <2>4 DEF AckNamesPair
  <2> QED
    BY <1>4, <2>5
<1> QED
  BY <1>2, <1>3, <1>4

\* A step that leaves the queue and the owners of the endpoints alone.
LEMMA QueueAloneKeepsCustody ==
  ASSUME TypeOK, CustodyInv, UNCHANGED <<packets, deliveries>>,
         fresh'["delivery"] = fresh["delivery"],
         fresh'["endpoint"] \in Nat, fresh["endpoint"] <= fresh'["endpoint"],
         endpoints \subseteq endpoints', EndpointKeys',
         \A e \in endpoints' : e \in endpoints \/ e.id = fresh["endpoint"] + 1,
         \A t \in Thread : req'[t] = req[t] \/ req'[t] = Idle
  PROVE  CustodyInv'
<1>1. fresh["delivery"] \in Nat
  BY DEF TypeOK
<1>2. RequestsName'
  BY <1>1, NamesKeep DEF CustodyInv
<1>3. DeliveryKeys'
  BY DEF CustodyInv, DeliveryKeys
<1>4. \A n, e : Owns(n, e) => Owns(n, e)'
  BY DEF Owns
<1>5. SendersOwn'
  BY <1>4 DEF CustodyInv, SendersOwn
<1>6. OneDeliveryPerPacket'
  BY <1>4 DEF CustodyInv, OneDeliveryPerPacket
<1> QED
  BY <1>2, <1>3, <1>5, <1>6 DEF CustodyInv

\* A deletion takes a packet together with its delivery: the packet's ends are
\* endpoints, the delivery's node owns the one it goes to.
LEMMA CascadeKeepsCustody ==
  ASSUME TypeOK, CustodyInv, NEW N, NEW E, CascadeDelete(N, E),
         \A e \in endpoints : e.node \in N => e.id \in E,
         UNCHANGED fresh,
         \A t \in Thread : req'[t] = req[t] \/ req'[t] = Idle
  PROVE  CustodyInv'
<1> USE DEF CascadeDelete
<1>1. EndpointKeys' /\ DeliveryKeys'
  BY DEF CustodyInv, EndpointKeys, DeliveryKeys
<1>2. fresh["delivery"] \in Nat /\ fresh["endpoint"] \in Nat
  BY DEF TypeOK
<1>3. RequestsName'
  BY <1>2, NamesKeep DEF CustodyInv
<1>4. \A n, e : Owns(n, e) /\ e \notin E => n \notin N /\ Owns(n, e)'
  BY DEF Owns
<1>5. SendersOwn'
  BY <1>4 DEF CustodyInv, SendersOwn
<1>6. \A d \in deliveries : \E p \in packets : p.id = d.packet /\ p.to = d.endpoint
  BY DEF CustodyInv, OneDeliveryPerPacket
<1>7. \A p, q \in packets : p.id = q.id => p = q
  BY DEF CustodyInv, OneDeliveryPerPacket
<1>8. \A d \in deliveries : Owns(d.node, d.endpoint)
  BY DEF CustodyInv, OneDeliveryPerPacket
<1>9. ASSUME NEW p \in packets', NEW d \in deliveries, d.packet = p.id
      PROVE  d \in deliveries'
  <2>1. d.endpoint = p.to
    BY <1>6, <1>7, <1>9
  <2>2. d.endpoint \notin E /\ d.node \notin N
    BY <1>4, <1>8, <2>1
  <2> QED
    BY <1>9, <2>2
<1>10. \A p \in packets' : \E d \in deliveries' : d.packet = p.id
  BY <1>9 DEF CustodyInv, OneDeliveryPerPacket
<1>11. \A d \in deliveries' :
         /\ \E p \in packets' : p.id = d.packet /\ p.to = d.endpoint
         /\ Owns(d.node, d.endpoint)'
  BY <1>4, <1>6, <1>7, <1>8
<1>12. \A d1, d2 \in deliveries' : d1.packet = d2.packet => d1 = d2
  BY DEF CustodyInv, OneDeliveryPerPacket
<1>13. OneDeliveryPerPacket'
  BY <1>7, <1>10, <1>11, <1>12 DEF OneDeliveryPerPacket
<1> QED
  BY <1>1, <1>3, <1>5, <1>13 DEF CustodyInv

\* The commit of a send: what it replaces goes in the same transaction, and the
\* endpoints it names, if they are still there, have kept their owners.
LEMMA SendKeepsCustody ==
  ASSUME TypeOK, CustodyInv, NEW t \in Thread, SendCommit(t)
  PROVE  CustodyInv'
<1> DEFINE r    == req[t]
           keep == IF r.replace THEN {p \in packets : p.id # r.packet} ELSE packets
           held == {d \in deliveries : \E p \in keep : p.id = d.packet}
           id   == NewId("delivery")
           newD == [id |-> id, packet |-> r.packet, node |-> r.dest, endpoint |-> r.to]
<1>1. PICK x : packets' = keep \cup
        {[id |-> r.packet, sender |-> r.sender, from |-> r.from, to |-> r.to,
          content |-> r.content, expires |-> x]}
  BY DEF SendCommit
<1> DEFINE newP == [id |-> r.packet, sender |-> r.sender, from |-> r.from,
                    to |-> r.to, content |-> r.content, expires |-> x]
<1>2. /\ r.op = "send" /\ endpoints' = endpoints
      /\ \A p \in keep : p.id # r.packet
      /\ ForeignKeysExist(r)
      /\ deliveries' = held \cup {newD}
      /\ fresh' = [fresh EXCEPT !["delivery"] = id]
      /\ Finish(t)
  BY DEF SendCommit
<1>3. packets' = keep \cup {newP}
  BY <1>1
<1>4. /\ newP.id = r.packet /\ newP.sender = r.sender
      /\ newP.from = r.from /\ newP.to = r.to
  OBVIOUS
<1>5. /\ newD.id = id /\ newD.packet = r.packet
      /\ newD.node = r.dest /\ newD.endpoint = r.to
  OBVIOUS
<1>6. keep \subseteq packets /\ held \subseteq deliveries
  OBVIOUS
<1>7. /\ \A d \in held : \E p \in keep : p.id = d.packet
      /\ \A d \in deliveries : (\E p \in keep : p.id = d.packet) => d \in held
  OBVIOUS
<1>8. /\ fresh["delivery"] \in Nat /\ fresh["endpoint"] \in Nat
      /\ id = fresh["delivery"] + 1
      /\ fresh'["delivery"] = id /\ fresh'["endpoint"] = fresh["endpoint"]
  BY <1>2 DEF TypeOK, NewId
<1>9. \A u \in Thread : req'[u] = req[u] \/ req'[u] = Idle
  BY <1>2 DEF Finish, TypeOK
<1> HIDE DEF newP, newD, keep, held, id
<1>10. SendNamesOwners(r)
  BY <1>2 DEF CustodyInv, RequestsName
<1>11. Owns(r.sender, r.from) /\ Owns(r.dest, r.to)
  BY <1>2, <1>10 DEF ForeignKeysExist, SendNamesOwners, Owns
<1>12. \A n, e : Owns(n, e)' <=> Owns(n, e)
  BY <1>2 DEF Owns
<1>13. EndpointKeys' /\ DeliveryKeys'
  BY <1>2, <1>5, <1>6, <1>8
     DEF CustodyInv, EndpointKeys, DeliveryKeys, TypeOK, DeliveryRow
<1>14. RequestsName'
  BY <1>2, <1>5, <1>6, <1>8, <1>9, NamesKeep DEF CustodyInv
<1>15. SendersOwn'
  BY <1>3, <1>4, <1>6, <1>11, <1>12 DEF CustodyInv, SendersOwn
<1>16. OneDeliveryPerPacket'
  <2>1. /\ \A p, q \in packets : p.id = q.id => p = q
        /\ \A p \in packets : \E d \in deliveries : d.packet = p.id
        /\ \A d1, d2 \in deliveries : d1.packet = d2.packet => d1 = d2
        /\ \A d \in deliveries : \E p \in packets : p.id = d.packet /\ p.to = d.endpoint
        /\ \A d \in deliveries : Owns(d.node, d.endpoint)
    BY DEF CustodyInv, OneDeliveryPerPacket
  <2>2. \A p, q \in packets' : p.id = q.id => p = q
    BY <1>2, <1>3, <1>4, <1>6, <2>1
  <2>3. \A p \in packets' : \E d \in deliveries' : d.packet = p.id
    BY <1>2, <1>3, <1>4, <1>5, <1>6, <1>7, <2>1
  <2>4. \A d1, d2 \in deliveries' : d1.packet = d2.packet => d1 = d2
    BY <1>2, <1>5, <1>6, <1>7, <2>1
  <2>5. \A d \in deliveries' : \E p \in packets' : p.id = d.packet /\ p.to = d.endpoint
    BY <1>2, <1>3, <1>4, <1>5, <1>6, <1>7, <2>1
  <2>6. \A d \in deliveries' : Owns(d.node, d.endpoint)'
    BY <1>2, <1>5, <1>6, <1>11, <1>12, <2>1
  <2> QED
    BY <2>2, <2>3, <2>4, <2>5, <2>6 DEF OneDeliveryPerPacket
<1> QED
  BY <1>13, <1>14, <1>15, <1>16 DEF CustodyInv

\* An ACK and the cleanup take packets with their deliveries.
LEMMA RemovalKeepsCustody ==
  ASSUME TypeOK, CustodyInv, UNCHANGED <<fresh, endpoints>>,
         packets' \subseteq packets,
         deliveries' = {d \in deliveries : \E p \in packets' : p.id = d.packet},
         \A t \in Thread : req'[t] = req[t] \/ req'[t] = Idle
  PROVE  CustodyInv'
<1>1. EndpointKeys' /\ DeliveryKeys'
  BY DEF CustodyInv, EndpointKeys, DeliveryKeys
<1>2. fresh["delivery"] \in Nat /\ fresh["endpoint"] \in Nat
  BY DEF TypeOK
<1>3. RequestsName'
  BY <1>2, NamesKeep DEF CustodyInv
<1>4. \A n, e : Owns(n, e)' <=> Owns(n, e)
  BY DEF Owns
<1>5. SendersOwn'
  BY <1>4 DEF CustodyInv, SendersOwn
<1>6. OneDeliveryPerPacket'
  <2>1. /\ \A p, q \in packets : p.id = q.id => p = q
        /\ \A p \in packets : \E d \in deliveries : d.packet = p.id
        /\ \A d1, d2 \in deliveries : d1.packet = d2.packet => d1 = d2
        /\ \A d \in deliveries : \E p \in packets : p.id = d.packet /\ p.to = d.endpoint
        /\ \A d \in deliveries : Owns(d.node, d.endpoint)
    BY DEF CustodyInv, OneDeliveryPerPacket
  <2> QED
    BY <1>4, <2>1 DEF OneDeliveryPerPacket
<1> QED
  BY <1>1, <1>3, <1>5, <1>6 DEF CustodyInv

\* An ACK's commit deletes by delivery id and by packet id; the two name a pair.
LEMMA AckTakesAPair ==
  ASSUME TypeOK, CustodyInv, NEW t \in Thread, AckCommit(t)
  PROVE  deliveries' = {d \in deliveries : \E p \in packets' : p.id = d.packet}
<1>1. AckNamesPair(req[t])
  BY DEF AckCommit, CustodyInv, RequestsName
<1>2. \A d \in deliveries : \E p \in packets : p.id = d.packet
  BY DEF CustodyInv, OneDeliveryPerPacket
<1>3. /\ packets' = {p \in packets : p.id # req[t].packet}
      /\ deliveries' = {d \in deliveries : /\ d.id # req[t].delivery
                                           /\ d.packet # req[t].packet}
  BY DEF AckCommit
<1> QED
  BY <1>1, <1>2, <1>3 DEF AckNamesPair

LEMMA RelayStepsKeepCustody ==
  TypeOK /\ CustodyInv /\ [Next]_vars => CustodyInv'
<1> SUFFICES ASSUME TypeOK, CustodyInv, [Next]_vars PROVE CustodyInv'
  OBVIOUS
<1>nat. fresh["delivery"] \in Nat /\ fresh["endpoint"] \in Nat
  BY DEF TypeOK
<1>fin. \A t \in Thread : Finish(t) => \A u \in Thread : req'[u] = req[u] \/ req'[u] = Idle
  BY DEF Finish, TypeOK
\* The steps that change neither the queue nor the endpoints.
<1>idle. ASSUME UNCHANGED <<packets, deliveries, endpoints>>,
                fresh'["delivery"] = fresh["delivery"],
                fresh'["endpoint"] = fresh["endpoint"],
                \A u \in Thread : req'[u] = req[u] \/ req'[u] = Idle
         PROVE  CustodyInv'
  <2>1. EndpointKeys'
    BY <1>idle DEF CustodyInv, EndpointKeys
  <2> QED
    BY <1>idle, <1>nat, <2>1, QueueAloneKeepsCustody
\* The steps that only decide: they add a request.
<1>decide. ASSUME NEW t \in Thread, NEW r, req' = [req EXCEPT ![t] = r],
                  UNCHANGED <<fresh, endpoints, packets, deliveries>>,
                  r.op = "send" => SendNamesOwners(r),
                  r.op = "ack"  => AckNamesPair(r)
           PROVE  CustodyInv'
  <2>1. \A u \in Thread : req'[u] = IF u = t THEN r ELSE req[u]
    BY <1>decide DEF TypeOK
  <2>2. RequestsName
    BY DEF CustodyInv
  <2>3. RequestsName'
    BY <1>decide, <2>1, <2>2 DEF RequestsName, SendNamesOwners, AckNamesPair
  <2>4. EndpointKeys' /\ DeliveryKeys' /\ SendersOwn' /\ OneDeliveryPerPacket'
    BY <1>decide DEF CustodyInv, EndpointKeys, DeliveryKeys, SendersOwn,
       OneDeliveryPerPacket, Owns
  <2> QED
    BY <2>3, <2>4 DEF CustodyInv
<1>1. CASE Register \/ \E n \in NodeId, d \in BOOLEAN : CreateEndpoint(n, d)
  <2>1. PICK n, d : /\ endpoints' = endpoints \cup
                         {[id |-> NewId("endpoint"), node |-> n, default |-> d]}
                    /\ UNCHANGED <<packets, deliveries, req>>
                    /\ fresh'["endpoint"] = NewId("endpoint")
                    /\ fresh'["delivery"] = fresh["delivery"]
    BY <1>1 DEF Register, CreateEndpoint, TypeOK
  <2>2. NewId("endpoint") = fresh["endpoint"] + 1
    BY DEF NewId
  <2>3. EndpointKeys'
    <3>1. \A e \in endpoints : e.id \in Nat
      BY DEF TypeOK, EndpointRow
    <3> QED
      BY <1>nat, <2>1, <2>2, <3>1 DEF CustodyInv, EndpointKeys
  <2> QED
    BY <1>nat, <2>1, <2>2, <2>3, QueueAloneKeepsCustody
<1>2. ASSUME NEW t \in Thread, NEW n \in NodeId, NEW e \in EndpointId,
             DeleteEndpointCheck(t, n, e)
      PROVE  CustodyInv'
  BY <1>2, <1>decide DEF DeleteEndpointCheck
<1>3. ASSUME NEW t \in Thread, DeleteEndpointCommit(t) PROVE CustodyInv'
  BY <1>3, <1>fin, CascadeKeepsCustody DEF DeleteEndpointCommit
<1>4. ASSUME NEW n \in NodeId, DeleteIdentity(n) PROVE CustodyInv'
  BY <1>4, CascadeKeepsCustody DEF DeleteIdentity
<1>5. ASSUME NEW n \in NodeId, NEW s \in AdminStatus, SetNodeStatus(n, s)
      PROVE  CustodyInv'
  BY <1>5, <1>idle DEF SetNodeStatus
<1>6. ASSUME NEW n \in NodeId, NEW e \in EndpointId, NEW m \in Mode,
             RequestLinkCode(n, e, m)
      PROVE  CustodyInv'
  BY <1>6, <1>idle DEF RequestLinkCode, TypeOK
<1>7. ASSUME NEW t \in Thread, NEW n \in NodeId, NEW e \in EndpointId,
             RedeemCheck(t, n, e)
      PROVE  CustodyInv'
  <2>1. PICK c \in codes :
          req' = [req EXCEPT ![t] = [op |-> "redeem", code |-> c.id, endpoint |-> e]]
    BY <1>7 DEF RedeemCheck
  <2> QED
    BY <1>7, <1>decide, <2>1 DEF RedeemCheck
<1>8. ASSUME NEW n \in NodeId, NEW e \in EndpointId, RedeemExpired(n, e)
      PROVE  CustodyInv'
  BY <1>8, <1>idle DEF RedeemExpired
<1>9. ASSUME NEW t \in Thread, RedeemCommit(t) PROVE CustodyInv'
  <2>1. /\ fresh'["delivery"] = fresh["delivery"]
        /\ fresh'["endpoint"] = fresh["endpoint"]
        /\ UNCHANGED <<packets, deliveries, endpoints>> /\ Finish(t)
    BY <1>9 DEF RedeemCommit, TypeOK
  <2> QED
    BY <1>fin, <1>idle, <2>1
<1>10. ASSUME NEW l \in LinkId, RevokeLink(l) PROVE CustodyInv'
  BY <1>10, <1>idle DEF RevokeLink
<1>11. ASSUME NEW t \in Thread, NEW n \in NodeId, NEW from \in EndpointId,
              NEW to \in EndpointId, NEW p \in PacketId, NEW c \in Content,
              NEW ttl \in Ttl, SendCheck(t, n, from, to, p, c, ttl)
       PROVE  CustodyInv'
  <2>1. PICK e \in endpoints, b \in BOOLEAN :
          /\ e.id = to
          /\ req' = [req EXCEPT ![t] =
                      [op |-> "send", sender |-> n, from |-> from, to |-> to,
                       dest |-> e.node, packet |-> p, content |-> c, ttl |-> ttl,
                       at |-> clock, replace |-> b]]
    BY <1>11 DEF SendCheck
  <2> DEFINE r == [op |-> "send", sender |-> n, from |-> from, to |-> to,
                   dest |-> e.node, packet |-> p, content |-> c, ttl |-> ttl,
                   at |-> clock, replace |-> b]
  <2>2. /\ r.op = "send" /\ r.from = from /\ r.to = to
        /\ r.sender = n /\ r.dest = e.node
    OBVIOUS
  <2>3. Owns(n, from)
    BY <1>11 DEF SendCheck
  <2>4. \A e1, e2 \in endpoints : e1.id = e2.id => e1 = e2
    BY DEF CustodyInv, EndpointKeys
  <2>5. req' = [req EXCEPT ![t] = r]
    BY <2>1
  <2> HIDE DEF r
  <2>6. SendNamesOwners(r)
    BY <1>nat, <2>1, <2>2, <2>3, <2>4 DEF SendNamesOwners, Owns, EndpointId
  <2> QED
    BY <1>11, <1>decide, <2>2, <2>5, <2>6 DEF SendCheck
<1>12. ASSUME NEW t \in Thread, NEW n \in NodeId, AckCheck(t, n)
       PROVE  CustodyInv'
  <2>1. PICK d \in deliveries :
          req' = [req EXCEPT ![t] = [op |-> "ack", delivery |-> d.id,
                                     packet |-> d.packet]]
    BY <1>12 DEF AckCheck, Active
  <2> DEFINE r == [op |-> "ack", delivery |-> d.id, packet |-> d.packet]
  <2>2. r.op = "ack" /\ r.delivery = d.id /\ r.packet = d.packet
    OBVIOUS
  <2>3. req' = [req EXCEPT ![t] = r]
    BY <2>1
  <2> HIDE DEF r
  <2>4. AckNamesPair(r)
    BY <2>2 DEF AckNamesPair, CustodyInv, DeliveryKeys
  <2> QED
    BY <1>12, <1>decide, <2>2, <2>3, <2>4 DEF AckCheck
<1>13. ASSUME NEW t \in Thread, AckCommit(t) PROVE CustodyInv'
  <2>1. packets' \subseteq packets /\ Finish(t) /\ UNCHANGED <<fresh, endpoints>>
    BY <1>13 DEF AckCommit
  <2> QED
    BY <1>13, <1>fin, <2>1, AckTakesAPair, RemovalKeepsCustody
<1>14. CASE Cleanup
  BY <1>14, RemovalKeepsCustody DEF Cleanup, Purged
<1>15. CASE IdentityStep
  BY <1>1, <1>2, <1>3, <1>4, <1>5, <1>15 DEF IdentityStep
<1>16. CASE LinkStep
  BY <1>6, <1>7, <1>8, <1>9, <1>10, <1>16 DEF LinkStep
<1>17. CASE QueueStep
  BY <1>11, <1>12, <1>13, <1>14, <1>17, SendKeepsCustody DEF QueueStep
<1>18. ASSUME NEW t \in Thread, Abort(t) PROVE CustodyInv'
  BY <1>18, <1>fin, <1>idle DEF Abort
<1>19. CASE Tick \/ UNCHANGED vars
  BY <1>19, <1>idle DEF Tick, vars
<1> QED
  BY <1>15, <1>16, <1>17, <1>18, <1>19 DEF Next

LEMMA CustodyInvariance == Spec => []CustodyInv
<1>1. Init => CustodyInv
  <2>1. ASSUME Init PROVE RequestsName
    BY <2>1 DEF Init, RequestsName, Idle
  <2> QED
    BY <2>1 DEF Init, CustodyInv, EndpointKeys, DeliveryKeys, SendersOwn,
       OneDeliveryPerPacket
<1> QED
  BY <1>1, RelayStepsKeepCustody, TypeCorrect, PTL DEF Spec

\* A packet is stored exactly as long as the one delivery that names it, and
\* the delivery is addressed to the owner of the packet's destination.
THEOREM PacketsHaveOneDelivery == Spec => []OneDeliveryPerPacket
<1>1. CustodyInv => OneDeliveryPerPacket
  BY DEF CustodyInv
<1> QED
  BY <1>1, CustodyInvariance, PTL

\* PacketsLeaveForAReason as an action.
LeaveForAReason ==
  \A p \in packets :
    ~IsExpired(p) /\ p \notin packets' =>
      \/ \E t \in Thread : /\ req[t].op = "ack" /\ req[t].packet = p.id
                           /\ req'[t] = Idle
      \/ ~({p.from, p.to} \subseteq {e.id : e \in endpoints'})
      \/ /\ \E t \in Thread : Replaces(t, p)
         /\ \E q \in packets' : q.id = p.id

LEMMA LeavingSteps ==
  TypeOK /\ CustodyInv /\ [Next]_vars => LeaveForAReason
<1> SUFFICES ASSUME TypeOK, CustodyInv, [Next]_vars PROVE LeaveForAReason
  OBVIOUS
<1>keep. ASSUME packets \subseteq packets' PROVE LeaveForAReason
  BY <1>keep DEF LeaveForAReason
<1>1. ASSUME NEW N, NEW E, CascadeDelete(N, E),
             \A e \in endpoints : e.node \in N => e.id \in E
      PROVE  LeaveForAReason
  <2>1. \A p \in packets : p.sender \in N => p.from \in E
    BY <1>1 DEF CustodyInv, SendersOwn, Owns
  <2>2. \A e \in endpoints' : e.id \notin E
    BY <1>1 DEF CascadeDelete
  <2>3. \A p \in packets : p.from \notin E /\ p.to \notin E => p \in packets'
    BY <1>1, <2>1 DEF CascadeDelete
  <2> QED
    BY <2>2, <2>3 DEF LeaveForAReason
<1>2. CASE IdentityStep
  <2>1. ASSUME NEW t \in Thread, DeleteEndpointCommit(t) PROVE LeaveForAReason
    BY <1>1, <2>1 DEF DeleteEndpointCommit
  <2>2. ASSUME NEW n \in NodeId, DeleteIdentity(n) PROVE LeaveForAReason
    BY <1>1, <2>2 DEF DeleteIdentity
  <2> QED
    BY <1>2, <2>1, <2>2, <1>keep DEF IdentityStep, Register, CreateEndpoint,
       DeleteEndpointCheck, SetNodeStatus
<1>3. CASE LinkStep
  BY <1>3, <1>keep DEF LinkStep, RequestLinkCode, RedeemCheck, RedeemExpired,
     RedeemCommit, RevokeLink
<1>4. ASSUME NEW t \in Thread, NEW n, NEW from, NEW to, NEW p, NEW c, NEW ttl,
             SendCheck(t, n, from, to, p, c, ttl)
      PROVE  LeaveForAReason
  BY <1>4, <1>keep DEF SendCheck
<1>5. ASSUME NEW t \in Thread, NEW n, AckCheck(t, n) PROVE LeaveForAReason
  BY <1>5, <1>keep DEF AckCheck
<1>6. ASSUME NEW t \in Thread, SendCommit(t) PROVE LeaveForAReason
  \* Only a request that replaces takes a row, and it stores another of the id.
  <2>1. \E q \in packets' : q.id = req[t].packet
    <3>1. \E x : [id |-> req[t].packet, sender |-> req[t].sender,
                  from |-> req[t].from, to |-> req[t].to,
                  content |-> req[t].content, expires |-> x] \in packets'
      BY <1>6 DEF SendCommit
    <3> QED
      BY <3>1
  <2>2. \A p \in packets :
          p \in packets' \/ (req[t].replace /\ p.id = req[t].packet)
    BY <1>6 DEF SendCommit
  <2>3. req[t].op = "send" /\ req'[t] = Idle
    BY <1>6 DEF SendCommit, Finish, TypeOK
  <2>4. ASSUME NEW p \in packets, p \notin packets'
        PROVE  /\ \E x \in Thread : Replaces(x, p)
               /\ \E q \in packets' : q.id = p.id
    <3>1. Replaces(t, p)
      BY <2>2, <2>3, <2>4 DEF Replaces
    <3> QED
      BY <2>1, <2>2, <2>4, <3>1
  <2> QED
    BY <2>4 DEF LeaveForAReason
<1>7. ASSUME NEW t \in Thread, AckCommit(t) PROVE LeaveForAReason
  <2>1. req[t].op = "ack" /\ req'[t] = Idle
    BY <1>7 DEF AckCommit, Finish, TypeOK
  <2>2. \A p \in packets : p \in packets' \/ p.id = req[t].packet
    BY <1>7 DEF AckCommit
  <2> QED
    BY <2>1, <2>2 DEF LeaveForAReason
<1>8. CASE Cleanup
  BY <1>8 DEF Cleanup, Purged, LeaveForAReason
<1>9. CASE QueueStep
  BY <1>4, <1>5, <1>6, <1>7, <1>8, <1>9 DEF QueueStep
<1>10. CASE Tick \/ UNCHANGED vars \/ \E t \in Thread : Abort(t)
  BY <1>10, <1>keep DEF Tick, Abort, vars
<1> QED
  BY <1>2, <1>3, <1>9, <1>10 DEF Next

\* No send, cleanup or deletion of one packet ever drops or changes the row of
\* another, and an accepted packet that has not expired keeps its row until it
\* is acknowledged, one of its endpoints is gone, or a request that found its
\* id expired puts a packet of its own under the id.
THEOREM CustodyIsKept == Spec => PacketsLeaveForAReason
<1>1. TypeOK /\ CustodyInv /\ [Next]_vars => [LeaveForAReason]_vars
  BY LeavingSteps
<1>2. Spec => [][LeaveForAReason]_vars
  BY <1>1, CustodyInvariance, TypeCorrect, PTL DEF Spec
<1> QED
  BY <1>2, PTL DEF PacketsLeaveForAReason, LeaveForAReason

----------------------------------------------------------------------------
(* How far concurrent sends pass the limits.  A request that found room and *)
(* has yet to write counts as if it had written: with those, a limit is     *)
(* passed by the requests of the other threads at most.                     *)

\* What K of the threads may add in bytes, with the others waiting to write.
Slack(k) == (Cardinality(Thread) - k) * MaxPacketBytes

LEMMA ThreadCount ==
  /\ Cardinality(Thread) \in Nat /\ Cardinality(Thread) >= 1
  /\ \A W \in SUBSET Thread : /\ IsFiniteSet(W) /\ Cardinality(W) \in 0 .. Cardinality(Thread)
                              /\ Cardinality(W) = 0 <=> W = {}
                              /\ W # Thread => Cardinality(W) <= Cardinality(Thread) - 1
                              /\ \A t \in W : Cardinality(W \ {t}) = Cardinality(W) - 1
                              /\ \A V \in SUBSET W : /\ Cardinality(V) <= Cardinality(W)
                                                     /\ V # W => Cardinality(V) <= Cardinality(W) - 1
<1>1. Cardinality(Thread) \in Nat /\ Cardinality(Thread) # 0
  BY ThreadsAssumption, FS_CardinalityType, FS_EmptySet
<1>2. ASSUME NEW W \in SUBSET Thread, NEW V \in SUBSET W
      PROVE  /\ IsFiniteSet(W) /\ Cardinality(W) \in Nat /\ Cardinality(V) \in Nat
             /\ Cardinality(V) <= Cardinality(W) /\ (V # W => Cardinality(V) # Cardinality(W))
  <2>1. IsFiniteSet(W)
    BY ThreadsAssumption, FS_Subset
  <2>2. IsFiniteSet(V) /\ Cardinality(V) <= Cardinality(W) /\ (Cardinality(W) = Cardinality(V) => W = V)
    BY <2>1, FS_Subset
  <2> QED BY <2>1, <2>2, FS_CardinalityType
<1>3. ASSUME NEW W \in SUBSET Thread
      PROVE  /\ Cardinality(W) = 0 <=> W = {}
             /\ \A t \in W : Cardinality(W \ {t}) = Cardinality(W) - 1
  <2>1. IsFiniteSet(W)
    BY <1>2
  <2> QED BY <2>1, FS_EmptySet, FS_RemoveElement
<1>4. ASSUME NEW W \in SUBSET Thread
      PROVE  /\ Cardinality(W) \in 0 .. Cardinality(Thread)
             /\ W # Thread => Cardinality(W) <= Cardinality(Thread) - 1
  BY <1>1, <1>2
<1>5. ASSUME NEW W \in SUBSET Thread, NEW V \in SUBSET W
      PROVE  V # W => Cardinality(V) <= Cardinality(W) - 1
  BY <1>2
<1> QED BY <1>1, <1>2, <1>3, <1>4, <1>5

LEMMA SlackFacts ==
  ASSUME NEW j \in Nat, NEW k \in Nat, j <= k, k <= Cardinality(Thread)
  PROVE  /\ Slack(j) \in Nat /\ Slack(k) \in Nat /\ Slack(k) <= Slack(j)
         /\ j < k => Slack(k) + MaxPacketBytes <= Slack(j)
<1>1. MaxPacketBytes \in Nat /\ Cardinality(Thread) \in Nat
  BY LimitsAssumption, ThreadCount
<1>2. PICK a \in Nat : a = Cardinality(Thread) - k
  BY <1>1
<1>3. PICK c \in Nat : c = k - j
  OBVIOUS
<1>4. Cardinality(Thread) - j = a + c
  BY <1>1, <1>2, <1>3
<1>5. (a + c) * MaxPacketBytes = a * MaxPacketBytes + c * MaxPacketBytes
  BY <1>1
<1>6. a * MaxPacketBytes \in Nat /\ c * MaxPacketBytes \in Nat
  BY <1>1
<1>7. c >= 1 => c * MaxPacketBytes >= MaxPacketBytes
  BY <1>1
<1> QED BY <1>1, <1>2, <1>3, <1>4, <1>5, <1>6, <1>7 DEF Slack

\* Room for QUEUED items under CAP, and for USED bytes, when the threads W wait.
CountRoom(queued, W, cap) == queued + Cardinality(W) <= cap + Cardinality(Thread) - 1
ByteRoom(used, W, size, cap) ==
  IF W = {} THEN used <= cap + Slack(1)
  ELSE \E t \in W : used + size[t] <= cap + Slack(Cardinality(W))

\* Fewer are queued, and fewer wait.
LEMMA LessRoom ==
  ASSUME NEW W \in SUBSET Thread, NEW V \in SUBSET W,
         NEW queued \in Nat, NEW queued1 \in Nat, queued1 <= queued,
         NEW used \in Nat, NEW used1 \in Nat, used1 <= used,
         NEW size, NEW size1, \A t \in W : size[t] \in 0 .. MaxPacketBytes,
         \A t \in V : size1[t] = size[t],
         NEW cap \in Nat
  PROVE  /\ CountRoom(queued, W, cap) => CountRoom(queued1, V, cap)
         /\ ByteRoom(used, W, size, cap) => ByteRoom(used1, V, size1, cap)
<1>1. /\ Cardinality(W) \in Nat /\ Cardinality(V) \in Nat /\ Cardinality(V) <= Cardinality(W)
      /\ Cardinality(W) <= Cardinality(Thread) /\ Cardinality(Thread) \in Nat
  BY ThreadCount
<1>2. CountRoom(queued, W, cap) => CountRoom(queued1, V, cap)
  BY <1>1 DEF CountRoom
<1>3. ASSUME ByteRoom(used, W, size, cap) PROVE ByteRoom(used1, V, size1, cap)
  <2>m. MaxPacketBytes \in Nat
    BY LimitsAssumption
  <2>1. CASE W = {}
    BY <1>3, <2>1, SlackFacts, ThreadCount DEF ByteRoom
  <2>2. CASE W # {}
    <3>1. PICK t \in W : used + size[t] <= cap + Slack(Cardinality(W))
      BY <1>3, <2>2 DEF ByteRoom
    <3>2. size[t] \in Nat /\ Cardinality(W) >= 1
      BY <1>1, <2>2, ThreadCount
    <3>3. CASE t \in V
      <4>1. Cardinality(V) # 0
        BY <3>3, ThreadCount
      <4>2. Slack(Cardinality(W)) \in Nat /\ Slack(Cardinality(V)) \in Nat
            /\ Slack(Cardinality(W)) <= Slack(Cardinality(V))
        BY <1>1, <4>1, SlackFacts
      <4>3. used1 + size1[t] <= cap + Slack(Cardinality(V))
        BY <3>1, <3>2, <3>3, <4>2
      <4> QED BY <3>3, <4>3 DEF ByteRoom
    <3>4. CASE t \notin V /\ V = {}
      <4>1. Slack(Cardinality(W)) \in Nat /\ Slack(1) \in Nat /\ Slack(Cardinality(W)) <= Slack(1)
        BY <1>1, <3>2, SlackFacts
      <4>2. used1 <= cap + Slack(1)
        BY <3>1, <3>2, <4>1
      <4> QED BY <3>4, <4>2 DEF ByteRoom
    <3>5. CASE t \notin V /\ V # {}
      <4>1. PICK u \in V : TRUE
        BY <3>5
      <4>2. Cardinality(V) >= 1 /\ Cardinality(V) < Cardinality(W)
        <5>1. V # W
          BY <3>5
        <5> QED BY <1>1, <3>5, <5>1, ThreadCount
      <4>3. /\ Slack(Cardinality(W)) \in Nat /\ Slack(Cardinality(V)) \in Nat
            /\ Slack(Cardinality(W)) + MaxPacketBytes <= Slack(Cardinality(V))
        BY <1>1, <4>2, SlackFacts
      <4>4. size1[u] \in 0 .. MaxPacketBytes
        OBVIOUS
      <4>5. used1 + size1[u] <= cap + Slack(Cardinality(V))
        BY <2>m, <3>1, <3>2, <4>3, <4>4
      <4> QED BY <3>5, <4>5 DEF ByteRoom
    <3> QED BY <3>3, <3>4, <3>5
  <2> QED BY <2>1, <2>2
<1> QED BY <1>2, <1>3

\* One that waits writes.
LEMMA WrittenRoom ==
  ASSUME NEW W \in SUBSET Thread, NEW t \in W, NEW V, V = W \ {t},
         NEW queued \in Nat, NEW queued1 \in Nat, queued1 <= queued + 1,
         NEW used \in Nat, NEW used1 \in Nat,
         NEW size, NEW size1, \A u \in W : size[u] \in 0 .. MaxPacketBytes,
         used1 <= used + size[t], \A u \in V : size1[u] = size[u],
         NEW cap \in Nat
  PROVE  /\ CountRoom(queued, W, cap) => CountRoom(queued1, V, cap)
         /\ ByteRoom(used, W, size, cap) => ByteRoom(used1, V, size1, cap)
<1>1. /\ Cardinality(W) \in Nat /\ Cardinality(V) = Cardinality(W) - 1 /\ Cardinality(W) >= 1
      /\ Cardinality(V) \in Nat /\ Cardinality(W) <= Cardinality(Thread) /\ Cardinality(Thread) \in Nat
  BY ThreadCount
<1>2. CountRoom(queued, W, cap) => CountRoom(queued1, V, cap)
  BY <1>1 DEF CountRoom
<1>3. ASSUME ByteRoom(used, W, size, cap) PROVE ByteRoom(used1, V, size1, cap)
  <2>m. MaxPacketBytes \in Nat
    BY LimitsAssumption
  <2>1. PICK u \in W : used + size[u] <= cap + Slack(Cardinality(W))
    BY <1>3 DEF ByteRoom
  <2>2. size[u] \in 0 .. MaxPacketBytes /\ size[t] \in 0 .. MaxPacketBytes
    OBVIOUS
  <2>3. CASE V = {}
    <3>1. W = {t} /\ u = t
      BY <2>3
    <3>2. Cardinality(W) = 1
      <4>1. Cardinality(V) = 0
        BY <2>3, FS_EmptySet
      <4> QED BY <1>1, <4>1
    <3>3. used1 <= cap + Slack(1)
      <4>1. Slack(1) \in Nat
        BY <1>1, SlackFacts
      <4> QED BY <2>1, <2>2, <2>m, <3>1, <3>2, <4>1
    <3> QED BY <2>3, <3>3 DEF ByteRoom
  <2>4. CASE V # {}
    <3>1. Cardinality(V) >= 1 /\ Cardinality(V) < Cardinality(W)
      <4>1. Cardinality(V) # 0
        BY <2>4, ThreadCount
      <4> QED BY <1>1, <4>1
    <3>2. /\ Slack(Cardinality(W)) \in Nat /\ Slack(Cardinality(V)) \in Nat
          /\ Slack(Cardinality(W)) + MaxPacketBytes <= Slack(Cardinality(V))
      BY <1>1, <3>1, SlackFacts
    <3>3. PICK v \in V : v = u \/ u = t
      BY <2>4
    <3>4. size1[v] = size[v] /\ size[v] \in 0 .. MaxPacketBytes
      BY <3>3
    <3>5. used1 + size1[v] <= cap + Slack(Cardinality(V))
      <4>1. CASE v = u
        BY <2>1, <2>2, <2>m, <3>2, <3>4, <4>1
      <4>2. CASE u = t
        BY <2>1, <2>2, <2>m, <3>2, <3>4, <4>2
      <4> QED BY <3>3, <4>1, <4>2
    <3> QED BY <2>4, <3>5 DEF ByteRoom
  <2> QED BY <2>3, <2>4
<1> QED BY <1>2, <1>3

\* One that finds room waits.
LEMMA CheckedRoom ==
  ASSUME NEW W \in SUBSET Thread, NEW t \in W, NEW queued \in Nat, NEW used \in Nat,
         NEW size, size[t] \in Nat, NEW cap \in Nat
  PROVE  /\ queued < cap => CountRoom(queued, W, cap)
         /\ used + size[t] <= cap => ByteRoom(used, W, size, cap)
<1>1. /\ Cardinality(W) \in Nat /\ Cardinality(W) <= Cardinality(Thread)
      /\ Cardinality(Thread) \in Nat
  BY ThreadCount
<1>2. Slack(Cardinality(W)) \in Nat
  BY <1>1, SlackFacts
<1>3. used + size[t] <= cap => used + size[t] <= cap + Slack(Cardinality(W))
  BY <1>2
<1> QED BY <1>1, <1>3 DEF CountRoom, ByteRoom

\* One that looked for room inside its transaction has written.
LEMMA ReplacedRoom ==
  ASSUME NEW W \in SUBSET Thread, NEW t \in Thread \ W, NEW queued \in Nat, NEW used \in Nat,
         NEW size, \A u \in W : size[u] \in 0 .. MaxPacketBytes, NEW cap \in Nat
  PROVE  /\ queued <= cap => CountRoom(queued, W, cap)
         /\ used <= cap => ByteRoom(used, W, size, cap)
<1>1. /\ Cardinality(W) \in Nat /\ Cardinality(W) <= Cardinality(Thread) - 1
      /\ Cardinality(Thread) \in Nat
  BY ThreadCount
<1>2. ASSUME used <= cap PROVE ByteRoom(used, W, size, cap)
  <2>1. CASE W = {}
    <3>1. Slack(1) \in Nat
      BY ThreadCount, SlackFacts
    <3> QED BY <1>2, <2>1, <3>1 DEF ByteRoom
  <2>2. CASE W # {}
    <3>1. PICK u \in W : TRUE
      BY <2>2
    <3>2. /\ Slack(Cardinality(W)) \in Nat /\ Slack(Cardinality(Thread)) \in Nat
          /\ Slack(Cardinality(Thread)) + MaxPacketBytes <= Slack(Cardinality(W))
      BY <1>1, SlackFacts
    <3>3. MaxPacketBytes \in Nat
      BY LimitsAssumption
    <3>4. used + size[u] <= cap + Slack(Cardinality(W))
      BY <1>2, <3>2, <3>3
    <3> QED BY <2>2, <3>1, <3>4 DEF ByteRoom
  <2> QED BY <2>1, <2>2
<1> QED BY <1>1, <1>2 DEF CountRoom

\* With room, a limit is passed by the other threads' requests at most.
LEMMA RoomBounds ==
  ASSUME NEW W \in SUBSET Thread, NEW queued \in Nat, NEW used \in Nat,
         NEW size, \A u \in W : size[u] \in 0 .. MaxPacketBytes, NEW cap \in Nat
  PROVE  /\ CountRoom(queued, W, cap) => queued <= cap + Cardinality(Thread) - 1
         /\ ByteRoom(used, W, size, cap) =>
              used <= cap + (Cardinality(Thread) - 1) * MaxPacketBytes
<1>1. Cardinality(W) \in Nat /\ Cardinality(W) <= Cardinality(Thread) /\ Cardinality(Thread) \in Nat
      /\ Cardinality(Thread) >= 1
  BY ThreadCount
<1>2. ASSUME ByteRoom(used, W, size, cap) PROVE used <= cap + Slack(1)
  <2>1. CASE W = {}
    BY <1>2, <2>1 DEF ByteRoom
  <2>2. CASE W # {}
    <3>1. PICK t \in W : used + size[t] <= cap + Slack(Cardinality(W))
      BY <1>2, <2>2 DEF ByteRoom
    <3>2. Cardinality(W) >= 1
      BY <1>1, <2>2, ThreadCount
    <3>3. Slack(Cardinality(W)) \in Nat /\ Slack(1) \in Nat /\ Slack(Cardinality(W)) <= Slack(1)
      BY <1>1, <3>2, SlackFacts
    <3>4. size[t] \in 0 .. MaxPacketBytes /\ MaxPacketBytes \in Nat
      BY LimitsAssumption
    <3> QED BY <3>1, <3>3, <3>4
  <2> QED BY <2>1, <2>2
<1> QED BY <1>1, <1>2 DEF CountRoom, Slack

\* The bytes of the packets that D delivers, as BytesOf counts them.
ByteSet(D, P) ==
  UNION {{p} \X (1 .. Size[p.content]) : p \in {q \in P : \E d \in D : d.packet = q.id}}

Small(P) == IsFiniteSet(P) /\ \A p \in P : p.content \in Content /\ Size[p.content] <= MaxPacketBytes

LEMMA BytesCounted ==
  ASSUME NEW D, NEW P, Small(P)
  PROVE  /\ IsFiniteSet(ByteSet(D, P)) /\ BytesOf(D, P) = Cardinality(ByteSet(D, P))
         /\ BytesOf(D, P) \in Nat
<1>1. IsFiniteSet(P \X (1 .. MaxPacketBytes))
  <2>1. IsFiniteSet(1 .. MaxPacketBytes)
    BY LimitsAssumption, FS_Interval
  <2> QED BY <2>1, FS_Product DEF Small
<1>2. ByteSet(D, P) \subseteq P \X (1 .. MaxPacketBytes)
  <2>1. \A p \in P : Size[p.content] \in Nat /\ Size[p.content] <= MaxPacketBytes
    BY ContentAssumption DEF Small
  <2>2. \A p \in P : 1 .. Size[p.content] \subseteq 1 .. MaxPacketBytes
    BY <2>1, LimitsAssumption
  <2>3. \A p \in P : {p} \X (1 .. Size[p.content]) \subseteq P \X (1 .. MaxPacketBytes)
    BY <2>2
  <2> QED BY <2>3 DEF ByteSet
<1>3. IsFiniteSet(ByteSet(D, P))
  BY <1>1, <1>2, FS_Subset
<1>4. BytesOf(D, P) = Cardinality(ByteSet(D, P))
  BY DEF BytesOf, ByteSet
<1> QED BY <1>3, <1>4, FS_CardinalityType

LEMMA FewerBytes ==
  ASSUME NEW D, NEW P, NEW E, NEW Q, Small(P), Small(Q), ByteSet(E, Q) \subseteq ByteSet(D, P)
  PROVE  BytesOf(E, Q) <= BytesOf(D, P)
BY BytesCounted, FS_Subset

LEMMA MoreBytes ==
  ASSUME NEW D, NEW P, NEW E, NEW Q, Small(P), Small(Q), NEW x, NEW n \in Nat,
         ByteSet(E, Q) \subseteq ByteSet(D, P) \cup ({x} \X (1 .. n))
  PROVE  BytesOf(E, Q) <= BytesOf(D, P) + n
<1> DEFINE more == {x} \X (1 .. n)
           all  == ByteSet(D, P) \cup more
<1>1. IsFiniteSet(1 .. n) /\ Cardinality(1 .. n) = n
  BY FS_Interval
<1>2. IsFiniteSet({x}) /\ Cardinality({x}) = 1
  BY FS_Singleton
<1>3. IsFiniteSet(more) /\ Cardinality(more) = n
  <2>1. IsFiniteSet(more) /\ Cardinality(more) = Cardinality({x}) * Cardinality(1 .. n)
    BY <1>1, <1>2, FS_Product
  <2> QED BY <1>1, <1>2, <2>1
<1> HIDE DEF more
<1>4. /\ IsFiniteSet(ByteSet(D, P)) /\ BytesOf(D, P) = Cardinality(ByteSet(D, P))
      /\ BytesOf(D, P) \in Nat /\ BytesOf(E, Q) = Cardinality(ByteSet(E, Q)) /\ BytesOf(E, Q) \in Nat
  BY BytesCounted
<1>5. /\ IsFiniteSet(all)
      /\ Cardinality(all) = BytesOf(D, P) + n - Cardinality(ByteSet(D, P) \cap more)
  BY <1>3, <1>4, FS_Union
<1>6. Cardinality(ByteSet(D, P) \cap more) \in Nat
  BY <1>4, FS_Intersection, FS_CardinalityType
<1>7. Cardinality(ByteSet(E, Q)) <= Cardinality(all)
  <2>1. ByteSet(E, Q) \subseteq all
    BY DEF more
  <2> HIDE DEF all
  <2> QED BY <1>5, <2>1, FS_Subset
<1> HIDE DEF all
<1> QED BY <1>4, <1>5, <1>6, <1>7

----------------------------------------------------------------------------
(* The requests that wait, and what is queued for some endpoints.          *)

\* It was checked, and its commit will not look again.
Waits(t)   == req[t].op = "send" /\ ~req[t].replace
Waiting(E) == {t \in Thread : Waits(t) /\ req[t].to \in E}
Sending(n) == {t \in Thread : Waits(t) /\ req[t].sender = n}
SizeOf     == [t \in Thread |-> IF Waits(t) THEN Size[req[t].content] ELSE 0]

InScope(D, E) == {d \in D : d.endpoint \in E}
Queued(E) == InScope(Active(deliveries, packets), E)

Fits(E, packetCap, byteCap) ==
  /\ CountRoom(Cardinality(Queued(E)), Waiting(E), packetCap)
  /\ ByteRoom(BytesOf(Queued(E), packets), Waiting(E), SizeOf, byteCap)

\* Tables are finite, and no packet is larger than the limit for one.
SmallInv ==
  /\ Small(packets) /\ IsFiniteSet(deliveries) /\ IsFiniteSet(sendEvents)
  /\ \A t \in Thread : req[t].op = "send" => Size[req[t].content] <= MaxPacketBytes

RateFits(n) == CountRoom(Cardinality(SendsInWindow(n)), Sending(n), MaxSends)

OvershootInv ==
  /\ SmallInv
  /\ Fits(Nat, TotalPackets, TotalBytes)
  /\ \A e \in Nat : Fits({e}, EndpointPackets, EndpointBytes)
  /\ \A n \in Nat : RateFits(n)

LEMMA SendRequests ==
  ASSUME TypeOK, NEW t \in Thread, req[t].op = "send"
  PROVE  req[t] \in SendReq
BY DEF TypeOK, Request, Idle, RedeemReq, AckReq, DeleteReq

LEMMA SizesInHand ==
  ASSUME TypeOK, SmallInv
  PROVE  \A t \in Thread : SizeOf[t] \in 0 .. MaxPacketBytes
<1> SUFFICES ASSUME NEW t \in Thread PROVE SizeOf[t] \in 0 .. MaxPacketBytes
  OBVIOUS
<1>1. CASE Waits(t)
  <2>1. req[t] \in SendReq /\ Size[req[t].content] <= MaxPacketBytes
    BY <1>1, SendRequests DEF Waits, SmallInv
  <2>2. Size[req[t].content] \in Nat
    BY <2>1, ContentAssumption DEF SendReq
  <2> QED BY <1>1, <2>1, <2>2, LimitsAssumption DEF SizeOf
<1>2. CASE ~Waits(t)
  BY <1>2, LimitsAssumption DEF SizeOf
<1> QED BY <1>1, <1>2

LEMMA QueueCounts ==
  ASSUME SmallInv
  PROVE  /\ \A E : /\ IsFiniteSet(Queued(E)) /\ Cardinality(Queued(E)) \in Nat
                   /\ BytesOf(Queued(E), packets) \in Nat
         /\ \A n : IsFiniteSet(SendsInWindow(n)) /\ Cardinality(SendsInWindow(n)) \in Nat
<1>1. ASSUME NEW E PROVE IsFiniteSet(Queued(E)) /\ Cardinality(Queued(E)) \in Nat
  <2>1. Queued(E) \subseteq deliveries
    BY DEF Queued, InScope, Active
  <2> QED BY <2>1, FS_Subset, FS_CardinalityType DEF SmallInv
<1>2. ASSUME NEW n PROVE IsFiniteSet(SendsInWindow(n)) /\ Cardinality(SendsInWindow(n)) \in Nat
  <2>1. SendsInWindow(n) \subseteq sendEvents
    BY DEF SendsInWindow
  <2> QED BY <2>1, FS_Subset, FS_CardinalityType DEF SmallInv
<1> QED BY <1>1, <1>2, BytesCounted DEF SmallInv

----------------------------------------------------------------------------
(* Steps that add nothing to the queue and let nothing wait that did not.  *)

Eases ==
  /\ packets' \subseteq packets /\ deliveries' \subseteq deliveries
  /\ sendEvents' \subseteq sendEvents /\ clock <= clock'
  /\ \A t \in Thread : req'[t] = req[t] \/ req'[t].op # "send"

\* What is active, and in the window, only gets less.
LEMMA TimePasses ==
  ASSUME TypeOK, TypeOK', clock <= clock', packets' \subseteq packets, deliveries' \subseteq deliveries,
         sendEvents' \subseteq sendEvents
  PROVE  /\ \A E : Queued(E)' \subseteq Queued(E)
         /\ \A E : ByteSet(Queued(E), packets)' \subseteq ByteSet(Queued(E), packets)
         /\ \A n : SendsInWindow(n)' \subseteq SendsInWindow(n)
<1>1. \A p \in packets : IsExpired(p) => IsExpired(p)'
  BY DEF TypeOK, PacketRow, IsExpired
<1>2. ASSUME NEW E PROVE Queued(E)' \subseteq Queued(E)
  BY <1>1 DEF Queued, InScope, Active
<1>3. ASSUME NEW E PROVE ByteSet(Queued(E), packets)' \subseteq ByteSet(Queued(E), packets)
  BY <1>2 DEF ByteSet
<1>4. ASSUME NEW n PROVE SendsInWindow(n)' \subseteq SendsInWindow(n)
  BY TimeAssumption DEF TypeOK, EventRow, SendsInWindow
<1> QED BY <1>2, <1>3, <1>4

LEMMA EasingIsSmall ==
  ASSUME SmallInv, Eases
  PROVE  SmallInv'
<1>1. IsFiniteSet(packets') /\ IsFiniteSet(deliveries') /\ IsFiniteSet(sendEvents')
  BY FS_Subset DEF SmallInv, Small, Eases
<1> QED BY <1>1 DEF SmallInv, Small, Eases

LEMMA EasingFits ==
  ASSUME TypeOK, TypeOK', OvershootInv, Eases
  PROVE  OvershootInv'
<1>1. SmallInv' /\ SmallInv
  BY EasingIsSmall DEF OvershootInv
<1>2. \A t \in Thread : Waits(t)' => req'[t] = req[t] /\ Waits(t)
  BY DEF Eases, Waits
<1>3. \A t \in Thread : Waits(t)' => SizeOf'[t] = SizeOf[t]
  BY <1>2 DEF SizeOf
<1>4. ASSUME NEW E, NEW pcap \in Nat, NEW bcap \in Nat, Fits(E, pcap, bcap)
      PROVE  Fits(E, pcap, bcap)'
  <2>1. Waiting(E) \in SUBSET Thread /\ Waiting(E)' \in SUBSET Waiting(E)
        /\ \A t \in Waiting(E)' : SizeOf'[t] = SizeOf[t]
    BY <1>2, <1>3 DEF Waiting
  <2>2. Queued(E)' \subseteq Queued(E) /\ ByteSet(Queued(E), packets)' \subseteq ByteSet(Queued(E), packets)
    BY TimePasses DEF Eases
  <2>3. Cardinality(Queued(E)') <= Cardinality(Queued(E)) /\ Cardinality(Queued(E)') \in Nat
        /\ Cardinality(Queued(E)) \in Nat
    <3>1. IsFiniteSet(Queued(E)) /\ Cardinality(Queued(E)) \in Nat
      BY <1>1, QueueCounts
    <3> QED BY <2>2, <3>1, FS_Subset, FS_CardinalityType
  <2>4. BytesOf(Queued(E), packets)' <= BytesOf(Queued(E), packets)
        /\ BytesOf(Queued(E), packets)' \in Nat /\ BytesOf(Queued(E), packets) \in Nat
    <3>1. Small(packets) /\ Small(packets')
      BY <1>1 DEF SmallInv, Small
    <3>2. ByteSet(Queued(E)', packets') \subseteq ByteSet(Queued(E), packets)
      BY <2>2 DEF ByteSet
    <3>3. BytesOf(Queued(E)', packets') <= BytesOf(Queued(E), packets)
      BY <3>1, <3>2, FewerBytes
    <3>4. BytesOf(Queued(E)', packets') \in Nat /\ BytesOf(Queued(E), packets) \in Nat
      BY <3>1, BytesCounted
    <3> QED BY <3>3, <3>4 DEF BytesOf
  <2>5. \A t \in Waiting(E) : SizeOf[t] \in 0 .. MaxPacketBytes
    BY <1>1, <2>1, SizesInHand
  <2> QED BY <1>4, <2>1, <2>3, <2>4, <2>5, LessRoom DEF Fits
<1>5. ASSUME NEW n \in Nat, RateFits(n) PROVE RateFits(n)'
  <2>1. Sending(n) \in SUBSET Thread /\ Sending(n)' \in SUBSET Sending(n)
    BY <1>2 DEF Sending
  <2>2. SendsInWindow(n)' \subseteq SendsInWindow(n)
    BY TimePasses DEF Eases
  <2>3. Cardinality(SendsInWindow(n)') <= Cardinality(SendsInWindow(n))
        /\ Cardinality(SendsInWindow(n)') \in Nat /\ Cardinality(SendsInWindow(n)) \in Nat
    <3>1. IsFiniteSet(SendsInWindow(n)) /\ Cardinality(SendsInWindow(n)) \in Nat
      BY <1>1, QueueCounts
    <3> QED BY <2>2, <3>1, FS_Subset, FS_CardinalityType
  <2>4. /\ Cardinality(Sending(n)') <= Cardinality(Sending(n))
        /\ Cardinality(Sending(n)) \in Nat /\ Cardinality(Sending(n)') \in Nat
        /\ Cardinality(Thread) \in Nat /\ MaxSends \in Nat
    BY <2>1, ThreadCount, LimitsAssumption
  <2> QED BY <1>5, <2>3, <2>4 DEF RateFits, CountRoom
<1> QED BY <1>1, <1>4, <1>5, LimitsAssumption DEF OvershootInv

----------------------------------------------------------------------------
(* What a request that is accepted has found.                              *)

Room(E, packetCap, byteCap, c, D, P) ==
  /\ Cardinality(InScope(Active(D, P), E)) < packetCap
  /\ BytesOf(InScope(Active(D, P), E), P) + Size[c] <= byteCap

LEMMA LimitsSay ==
  ASSUME NEW to \in Nat, NEW dest, NEW c, NEW D \in SUBSET DeliveryRow, NEW P,
         WithinQueueLimits(to, dest, c, D, P)
  PROVE  /\ Room({to}, EndpointPackets, EndpointBytes, c, D, P)
         /\ Room(Nat, TotalPackets, TotalBytes, c, D, P)
<1>1. InScope(Active(D, P), {to}) = {d \in Active(D, P) : d.endpoint = to}
  BY DEF InScope
<1>2. InScope(Active(D, P), Nat) = Active(D, P)
  <2>1. \A d \in Active(D, P) : d.endpoint \in Nat
    BY DEF Active, DeliveryRow
  <2> QED BY <2>1 DEF InScope
<1> QED BY <1>1, <1>2 DEF WithinQueueLimits, Room, Below

\* A request that found room for its packet waits.
LEMMA DecidingFits ==
  ASSUME TypeOK, SmallInv, SmallInv', TypeOK', NEW t \in Thread, req[t] = Idle,
         NEW r \in SendReq, req' = [req EXCEPT ![t] = r],
         UNCHANGED <<clock, packets, deliveries>>,
         NEW E, NEW packetCap \in Nat, NEW byteCap \in Nat,
         Fits(E, packetCap, byteCap),
         ~r.replace /\ r.to \in E =>
           Room(E, packetCap, byteCap, r.content, deliveries, packets)
  PROVE  Fits(E, packetCap, byteCap)'
<1>1. \A u \in Thread : req'[u] = IF u = t THEN r ELSE req[u]
  BY DEF TypeOK
<1>2. ~Waits(t) /\ r.op = "send"
  BY DEF Waits, Idle, SendReq
<1>3. Queued(E)' = Queued(E)
  BY DEF Queued, InScope, Active, IsExpired
<1>4. BytesOf(Queued(E), packets)' = BytesOf(Queued(E), packets)
  BY <1>3 DEF BytesOf
<1>5. Cardinality(Queued(E)) \in Nat /\ BytesOf(Queued(E), packets) \in Nat
  BY QueueCounts
<1>6. \A u \in Thread \ {t} : /\ Waits(u)' <=> Waits(u)
                              /\ SizeOf'[u] = SizeOf[u]
  BY <1>1 DEF Waits, SizeOf
<1>7. CASE ~r.replace /\ r.to \in E
  <2>1. t \in Waiting(E)' /\ Waiting(E)' \in SUBSET Thread
    BY <1>1, <1>2, <1>7 DEF Waiting, Waits
  <2>2. SizeOf'[t] = Size[r.content] /\ SizeOf'[t] \in Nat
    <3>1. Size[r.content] \in Nat
      BY ContentAssumption DEF SendReq
    <3>2. SizeOf'[t] = Size[r.content]
      BY <1>1, <1>2, <1>7 DEF SizeOf, Waits
    <3> QED BY <3>1, <3>2
  <2>3. /\ Cardinality(Queued(E)) < packetCap
        /\ BytesOf(Queued(E), packets) + SizeOf'[t] <= byteCap
    BY <1>7, <2>2 DEF Room, Queued
  <2>4. /\ CountRoom(Cardinality(Queued(E)), Waiting(E)', packetCap)
        /\ ByteRoom(BytesOf(Queued(E), packets), Waiting(E)', SizeOf', byteCap)
    BY <1>5, <2>1, <2>2, <2>3, CheckedRoom
  <2> QED BY <1>3, <1>4, <2>4 DEF Fits
<1>8. CASE r.replace \/ r.to \notin E
  <2>1. Waiting(E) \in SUBSET Thread /\ Waiting(E)' \in SUBSET Waiting(E)
        /\ \A u \in Waiting(E)' : SizeOf'[u] = SizeOf[u]
    <3>1. t \notin Waiting(E)'
      BY <1>1, <1>8 DEF Waiting, Waits
    <3>2. \A u \in Waiting(E)' : u \in Thread \ {t} /\ u \in Waiting(E)
      BY <1>1, <1>6, <3>1 DEF Waiting
    <3> QED BY <1>6, <3>2 DEF Waiting
  <2>2. \A u \in Waiting(E) : SizeOf[u] \in 0 .. MaxPacketBytes
    BY <2>1, SizesInHand
  <2>3. /\ CountRoom(Cardinality(Queued(E)), Waiting(E), packetCap)
        /\ ByteRoom(BytesOf(Queued(E), packets), Waiting(E), SizeOf, byteCap)
    BY DEF Fits
  <2>4. /\ Cardinality(Queued(E)) <= Cardinality(Queued(E))
        /\ BytesOf(Queued(E), packets) <= BytesOf(Queued(E), packets)
    BY <1>5
  <2>5. CountRoom(Cardinality(Queued(E)), Waiting(E)', packetCap)
    BY <1>5, <2>1, <2>2, <2>3, <2>4, LessRoom
  <2>6. ByteRoom(BytesOf(Queued(E), packets), Waiting(E)', SizeOf', byteCap)
    BY <1>5, <2>1, <2>2, <2>3, <2>4, LessRoom
  <2> QED BY <1>3, <1>4, <2>5, <2>6 DEF Fits
<1> QED BY <1>7, <1>8

\* The same for the send rate.
LEMMA DecidingFitsRate ==
  ASSUME TypeOK, SmallInv, NEW t \in Thread, req[t] = Idle,
         NEW r \in SendReq, req' = [req EXCEPT ![t] = r],
         UNCHANGED <<clock, sendEvents>>, NEW n \in Nat, RateFits(n),
         ~r.replace /\ r.sender = n => WithinSendRate(n)
  PROVE  RateFits(n)'
<1>1. \A u \in Thread : req'[u] = IF u = t THEN r ELSE req[u]
  BY DEF TypeOK
<1>2. ~Waits(t) /\ r.op = "send"
  BY DEF Waits, Idle, SendReq
<1>3. SendsInWindow(n)' = SendsInWindow(n) /\ Cardinality(SendsInWindow(n)) \in Nat
  BY QueueCounts DEF SendsInWindow
<1>4. \A u \in Thread \ {t} : Waits(u)' <=> Waits(u)
  BY <1>1 DEF Waits
<1>5. MaxSends \in Nat
  BY LimitsAssumption
<1>6. /\ Cardinality(Sending(n)) \in Nat /\ Cardinality(Sending(n)') \in Nat
      /\ Cardinality(Sending(n)') <= Cardinality(Thread) /\ Cardinality(Thread) \in Nat
  <2>1. Sending(n) \in SUBSET Thread /\ Sending(n)' \in SUBSET Thread
    BY DEF Sending
  <2> QED BY <2>1, ThreadCount
<1>7. CASE ~r.replace /\ r.sender = n
  BY <1>3, <1>5, <1>6, <1>7 DEF WithinSendRate, Below, RateFits, CountRoom
<1>8. CASE r.replace \/ r.sender # n
  <2>1. Sending(n)' \subseteq Sending(n)
    BY <1>1, <1>2, <1>4, <1>8 DEF Sending, Waits
  <2>2. Cardinality(Sending(n)') <= Cardinality(Sending(n))
    <3>1. Sending(n) \in SUBSET Thread /\ Sending(n)' \in SUBSET Sending(n)
      BY <2>1 DEF Sending
    <3> QED BY <3>1, ThreadCount
  <2> QED BY <1>3, <1>5, <1>6, <2>2 DEF RateFits, CountRoom
<1> QED BY <1>7, <1>8

----------------------------------------------------------------------------
(* A request that writes.                                                   *)

\* What the packets KEEP leave of the deliveries.
HeldBy(keep) == {d \in deliveries : \E p \in keep : p.id = d.packet}

\* What a commit of the request r adds to the packets it keeps.
Writes(r, keep) ==
  \E newP, newD, newE :
    /\ newP.id = r.packet /\ newP.content = r.content
    /\ newD.packet = r.packet /\ newD.endpoint = r.to /\ newE.node = r.sender
    /\ packets'    = keep \cup {newP}
    /\ deliveries' = HeldBy(keep) \cup {newD}
    /\ sendEvents' = sendEvents \cup {newE}

LEMMA SendWrites ==
  ASSUME TypeOK, NEW t \in Thread, SendCommit(t)
  PROVE  /\ req[t] \in SendReq /\ clock' = clock
         /\ \A u \in Thread : req'[u] = IF u = t THEN Idle ELSE req[u]
         /\ \E keep \in SUBSET packets :
              /\ \A p \in keep : p.id # req[t].packet
              /\ ~req[t].replace => keep = packets
              /\ req[t].replace =>
                   /\ WithinSendRate(req[t].sender)
                   /\ WithinQueueLimits(req[t].to, req[t].dest, req[t].content,
                                        HeldBy(keep), keep)
              /\ Writes(req[t], keep)
<1> DEFINE r    == req[t]
           keep == IF r.replace THEN {p \in packets : p.id # r.packet} ELSE packets
<1>1. r \in SendReq
  BY SendRequests DEF SendCommit
<1>2. clock' = clock /\ \A u \in Thread : req'[u] = IF u = t THEN Idle ELSE req[u]
  BY DEF SendCommit, Finish, TypeOK
<1>3. \A p \in keep : p.id # r.packet
  BY DEF SendCommit
<1>4. r.replace => /\ WithinSendRate(r.sender)
                   /\ WithinQueueLimits(r.to, r.dest, r.content, HeldBy(keep), keep)
  BY DEF SendCommit, HeldBy
<1>5. PICK x, y :
        /\ packets' = keep \cup
             {[id |-> r.packet, sender |-> r.sender, from |-> r.from, to |-> r.to,
               content |-> r.content, expires |-> x]}
        /\ deliveries' = HeldBy(keep) \cup
             {[id |-> NewId("delivery"), packet |-> r.packet, node |-> r.dest,
               endpoint |-> r.to]}
        /\ sendEvents' = sendEvents \cup
             {[id |-> NewId("delivery"), node |-> r.sender, at |-> y]}
  BY DEF SendCommit, HeldBy
<1> DEFINE newP == [id |-> r.packet, sender |-> r.sender, from |-> r.from, to |-> r.to,
                    content |-> r.content, expires |-> x]
           newD == [id |-> NewId("delivery"), packet |-> r.packet, node |-> r.dest,
                    endpoint |-> r.to]
           newE == [id |-> NewId("delivery"), node |-> r.sender, at |-> y]
<1>6. /\ newP.id = r.packet /\ newP.content = r.content
      /\ newD.packet = r.packet /\ newD.endpoint = r.to /\ newE.node = r.sender
  OBVIOUS
<1>7. /\ packets' = keep \cup {newP} /\ deliveries' = HeldBy(keep) \cup {newD}
      /\ sendEvents' = sendEvents \cup {newE}
  BY <1>5
<1>8. keep \in SUBSET packets /\ (~r.replace => keep = packets)
  OBVIOUS
<1> HIDE DEF newP, newD, newE, keep
<1>9. Writes(r, keep)
  BY <1>6, <1>7 DEF Writes
<1> QED BY <1>1, <1>2, <1>3, <1>4, <1>8, <1>9

\* How the queue grows: one delivery, if it is in scope, and its bytes.
LEMMA WrittenQueue ==
  ASSUME TypeOK, SmallInv, NEW r \in SendReq, Size[r.content] <= MaxPacketBytes,
         clock' = clock, NEW keep \in SUBSET packets, \A p \in keep : p.id # r.packet,
         Writes(r, keep), \A u \in Thread : req'[u] = req[u] \/ req'[u].op # "send", NEW E
  PROVE  /\ SmallInv'
         /\ BytesOf(Queued(E), packets)' \in Nat /\ Cardinality(Queued(E)') \in Nat
         /\ LET kept == InScope(Active(HeldBy(keep), keep), E)
            IN /\ Cardinality(kept) \in Nat /\ BytesOf(kept, keep) \in Nat
               /\ Cardinality(kept) <= Cardinality(Queued(E))
               /\ BytesOf(kept, keep) <= BytesOf(Queued(E), packets)
               /\ Cardinality(Queued(E)') <= Cardinality(kept) + 1
               /\ BytesOf(Queued(E), packets)' <= BytesOf(kept, keep) + Size[r.content]
               /\ r.to \notin E =>
                    /\ Cardinality(Queued(E)') <= Cardinality(kept)
                    /\ BytesOf(Queued(E), packets)' <= BytesOf(kept, keep)
<1>1. PICK newP, newD, newE :
        /\ newP.id = r.packet /\ newP.content = r.content
        /\ newD.packet = r.packet /\ newD.endpoint = r.to
        /\ packets' = keep \cup {newP}
        /\ deliveries' = HeldBy(keep) \cup {newD}
        /\ sendEvents' = sendEvents \cup {newE}
  BY DEF Writes
<1>2. PICK kept : kept = InScope(Active(HeldBy(keep), keep), E)
  OBVIOUS
<1>3. PICK grown : grown = Queued(E)'
  OBVIOUS
<1>4. kept \subseteq Queued(E) /\ kept \subseteq deliveries
  BY <1>2 DEF Queued, InScope, Active, HeldBy
<1>5. \A d \in HeldBy(keep) : d.packet # r.packet
  BY DEF HeldBy
<1>6. grown = InScope(Active(deliveries', packets'), E)
  BY <1>3 DEF Queued, InScope, Active, IsExpired
<1>7. grown \subseteq kept \cup {newD} /\ (r.to \notin E => grown \subseteq kept)
  BY <1>1, <1>2, <1>5, <1>6 DEF InScope, Active
<1>8. \A d \in kept : d.packet # r.packet
  BY <1>2, <1>5 DEF InScope, Active
<1>9. Small(packets) /\ Small(keep) /\ Small(packets')
  <2>1. Small(packets) /\ Small(keep)
    BY FS_Subset DEF SmallInv, Small
  <2>2. IsFiniteSet(packets')
    BY <1>1, <2>1, FS_AddElement DEF Small
  <2>3. \A p \in packets' : p.content \in Content /\ Size[p.content] <= MaxPacketBytes
    BY <1>1, <2>1 DEF Small, SendReq
  <2> QED BY <2>1, <2>2, <2>3 DEF Small
<1>10. ByteSet(kept, keep) \subseteq ByteSet(Queued(E), packets)
  BY <1>4 DEF ByteSet
<1>11. ByteSet(grown, packets') \subseteq
         ByteSet(kept, keep) \cup ({newP} \X (1 .. Size[r.content]))
  <2>1. \A q \in packets' : (\E d \in grown : d.packet = q.id) =>
          q = newP \/ (q \in keep /\ \E d \in kept : d.packet = q.id)
    BY <1>1, <1>7
  <2> QED BY <1>1, <2>1 DEF ByteSet
<1>12. r.to \notin E => ByteSet(grown, packets') \subseteq ByteSet(kept, keep)
  BY <1>1, <1>7, <1>8 DEF ByteSet
<1>13. /\ IsFiniteSet(kept) /\ Cardinality(kept) \in Nat
       /\ Cardinality(kept) <= Cardinality(Queued(E))
  <2>1. IsFiniteSet(Queued(E))
    BY QueueCounts
  <2> QED BY <1>4, <2>1, FS_Subset, FS_CardinalityType
<1>14. /\ Cardinality(grown) \in Nat /\ Cardinality(grown) <= Cardinality(kept) + 1
       /\ r.to \notin E => Cardinality(grown) <= Cardinality(kept)
  <2>1. /\ IsFiniteSet(kept \cup {newD}) /\ Cardinality(kept \cup {newD}) \in Nat
        /\ Cardinality(kept \cup {newD}) <= Cardinality(kept) + 1
    <3>1. PICK all : all = kept \cup {newD}
      OBVIOUS
    <3>2. IsFiniteSet(all) /\ Cardinality(all) \in {Cardinality(kept), Cardinality(kept) + 1}
      BY <1>13, <3>1, FS_AddElement
    <3> QED BY <1>13, <3>1, <3>2
  <2>2. /\ IsFiniteSet(grown) /\ Cardinality(grown) <= Cardinality(kept \cup {newD})
        /\ Cardinality(grown) \in Nat
    BY <1>7, <2>1, FS_Subset, FS_CardinalityType
  <2>3. r.to \notin E => Cardinality(grown) <= Cardinality(kept)
    BY <1>7, <1>13, FS_Subset
  <2> QED BY <1>13, <2>1, <2>2, <2>3
<1>15. /\ BytesOf(kept, keep) \in Nat /\ BytesOf(grown, packets') \in Nat
  BY <1>9, BytesCounted
<1>16. BytesOf(kept, keep) <= BytesOf(Queued(E), packets)
  BY <1>9, <1>10, FewerBytes
<1>17. BytesOf(grown, packets') <= BytesOf(kept, keep) + Size[r.content]
  <2>1. Size[r.content] \in Nat
    BY ContentAssumption DEF SendReq
  <2> QED BY <1>9, <1>11, <2>1, MoreBytes
<1>18. r.to \notin E => BytesOf(grown, packets') <= BytesOf(kept, keep)
  BY <1>9, <1>12, FewerBytes
<1>19. BytesOf(Queued(E), packets)' = BytesOf(grown, packets')
  BY <1>3 DEF BytesOf
<1>20. SmallInv'
  <2>1. IsFiniteSet(deliveries')
    <3>1. IsFiniteSet(HeldBy(keep))
      BY FS_Subset DEF SmallInv, HeldBy
    <3> QED BY <1>1, <3>1, FS_AddElement
  <2>2. IsFiniteSet(sendEvents')
    BY <1>1, FS_AddElement DEF SmallInv
  <2> QED BY <1>9, <2>1, <2>2 DEF SmallInv
<1> QED BY <1>2, <1>3, <1>13, <1>14, <1>15, <1>16, <1>17, <1>18, <1>19, <1>20

\* A request that writes what it found room for.
LEMMA WritingFits ==
  ASSUME TypeOK, SmallInv, NEW t \in Thread, req[t] \in SendReq, clock' = clock,
         \A u \in Thread : req'[u] = IF u = t THEN Idle ELSE req[u],
         NEW keep \in SUBSET packets, \A p \in keep : p.id # req[t].packet,
         ~req[t].replace => keep = packets, Writes(req[t], keep),
         NEW E, NEW packetCap \in Nat, NEW byteCap \in Nat,
         Fits(E, packetCap, byteCap),
         req[t].replace /\ req[t].to \in E =>
           Room(E, packetCap, byteCap, req[t].content, HeldBy(keep), keep)
  PROVE  Fits(E, packetCap, byteCap)'
<1>1. Size[req[t].content] \in 0 .. MaxPacketBytes
  BY ContentAssumption, LimitsAssumption DEF SmallInv, SendReq
<1>2. PICK count, bytes, count1, bytes1, count2, bytes2 :
        /\ count = Cardinality(Queued(E)) /\ bytes = BytesOf(Queued(E), packets)
        /\ count1 = Cardinality(InScope(Active(HeldBy(keep), keep), E))
        /\ bytes1 = BytesOf(InScope(Active(HeldBy(keep), keep), E), keep)
        /\ count2 = Cardinality(Queued(E)') /\ bytes2 = BytesOf(Queued(E), packets)'
  OBVIOUS
<1>3. \A u \in Thread : req'[u] = req[u] \/ req'[u].op # "send"
  BY DEF Idle
<1>4. /\ count1 \in Nat /\ bytes1 \in Nat /\ count2 \in Nat /\ bytes2 \in Nat
      /\ count1 <= count /\ bytes1 <= bytes
      /\ count2 <= count1 + 1 /\ bytes2 <= bytes1 + Size[req[t].content]
      /\ (req[t].to \notin E => count2 <= count1 /\ bytes2 <= bytes1)
  BY <1>1, <1>2, <1>3, WrittenQueue, LimitsAssumption
<1>5. count \in Nat /\ bytes \in Nat
  BY <1>2, QueueCounts
<1>6. PICK W, V : W = Waiting(E) /\ V = Waiting(E)'
  OBVIOUS
<1>7. V = W \ {t} /\ W \in SUBSET Thread
  BY <1>6 DEF Waiting, Waits, Idle
<1>8. \A u \in V : SizeOf'[u] = SizeOf[u]
  <2>1. \A u \in V : u \in Thread /\ req'[u] = req[u]
    BY <1>7
  <2> QED BY <2>1 DEF SizeOf, Waits
<1>9. \A u \in W : SizeOf[u] \in 0 .. MaxPacketBytes
  BY <1>7, SizesInHand
<1>10. CountRoom(count, W, packetCap) /\ ByteRoom(bytes, W, SizeOf, byteCap)
  BY <1>2, <1>6 DEF Fits
<1> SUFFICES CountRoom(count2, V, packetCap) /\ ByteRoom(bytes2, V, SizeOf', byteCap)
  BY <1>2, <1>6 DEF Fits
<1>11. CASE req[t].to \notin E
  <2>1. count2 <= count /\ bytes2 <= bytes /\ V \in SUBSET W
    BY <1>4, <1>5, <1>7, <1>11
  <2>2. CountRoom(count2, V, packetCap)
    BY <1>4, <1>5, <1>7, <1>8, <1>9, <1>10, <2>1, LessRoom
  <2>3. ByteRoom(bytes2, V, SizeOf', byteCap)
    BY <1>4, <1>5, <1>7, <1>8, <1>9, <1>10, <2>1, LessRoom
  <2> QED BY <2>2, <2>3
<1>12. CASE req[t].to \in E /\ ~req[t].replace
  <2>1. t \in W /\ SizeOf[t] = Size[req[t].content]
    BY <1>6, <1>12 DEF Waiting, Waits, SizeOf, SendReq
  <2>2. count2 <= count + 1 /\ bytes2 <= bytes + SizeOf[t]
    BY <1>1, <1>4, <1>5, <2>1
  <2>3. Cardinality(V) = Cardinality(W) - 1 /\ Cardinality(W) \in Nat /\ Cardinality(Thread) \in Nat
    BY <1>7, <2>1, ThreadCount
  <2>4. CountRoom(count2, V, packetCap)
    BY <1>4, <1>5, <1>10, <2>2, <2>3 DEF CountRoom
  <2>5. ByteRoom(bytes2, V, SizeOf', byteCap)
    BY <1>4, <1>5, <1>7, <1>8, <1>9, <1>10, <2>1, <2>2, WrittenRoom
  <2> QED BY <2>4, <2>5
<1>13. CASE req[t].to \in E /\ req[t].replace
  <2>1. count1 < packetCap /\ bytes1 + Size[req[t].content] <= byteCap
    BY <1>2, <1>13 DEF Room
  <2>2. count2 <= packetCap /\ bytes2 <= byteCap
    BY <1>1, <1>4, <2>1
  <2>3. \A u \in V : SizeOf'[u] \in 0 .. MaxPacketBytes
    BY <1>7, <1>8, <1>9
  <2>4. V \in SUBSET Thread /\ t \in Thread \ V
    BY <1>7
  <2>5. CountRoom(count2, V, packetCap)
    BY <1>4, <2>2, <2>3, <2>4, ReplacedRoom
  <2>6. ByteRoom(bytes2, V, SizeOf', byteCap)
    BY <1>4, <2>2, <2>3, <2>4, ReplacedRoom
  <2> QED BY <2>5, <2>6
<1> QED BY <1>11, <1>12, <1>13

\* The same for the send rate.
LEMMA WritingFitsRate ==
  ASSUME TypeOK, SmallInv, NEW t \in Thread, req[t] \in SendReq, clock' = clock,
         \A u \in Thread : req'[u] = IF u = t THEN Idle ELSE req[u],
         NEW keep, Writes(req[t], keep), NEW n \in Nat, RateFits(n),
         req[t].replace => WithinSendRate(req[t].sender)
  PROVE  RateFits(n)'
<1>1. PICK newE : newE.node = req[t].sender /\ sendEvents' = sendEvents \cup {newE}
  BY DEF Writes
<1>2. PICK count, count1 : /\ count = Cardinality(SendsInWindow(n))
                           /\ count1 = Cardinality(SendsInWindow(n)')
  OBVIOUS
<1>3. IsFiniteSet(SendsInWindow(n)) /\ count \in Nat
  BY <1>2, QueueCounts
<1>4. /\ SendsInWindow(n)' \subseteq SendsInWindow(n) \cup {newE}
      /\ (req[t].sender # n => SendsInWindow(n)' \subseteq SendsInWindow(n))
  BY <1>1 DEF SendsInWindow
<1>5. count1 \in Nat /\ count1 <= count + 1
  <2>1. PICK all : all = SendsInWindow(n) \cup {newE}
    OBVIOUS
  <2>2. IsFiniteSet(all) /\ Cardinality(all) \in {count, count + 1}
    BY <1>2, <1>3, <2>1, FS_AddElement
  <2>3. count1 \in Nat /\ count1 <= Cardinality(all)
    BY <1>2, <1>4, <2>1, <2>2, FS_Subset, FS_CardinalityType
  <2> QED BY <1>3, <2>2, <2>3
<1>6. req[t].sender # n => count1 <= count
  BY <1>2, <1>3, <1>4, FS_Subset
<1>7. Sending(n)' = Sending(n) \ {t} /\ Sending(n) \in SUBSET Thread
  BY DEF Sending, Waits, Idle
<1>8. PICK held, held1 : /\ held = Cardinality(Sending(n))
                         /\ held1 = Cardinality(Sending(n)')
  OBVIOUS
<1>9. /\ held \in Nat /\ held1 \in Nat /\ held1 <= held
      /\ held1 <= Cardinality(Thread) - 1 /\ Cardinality(Thread) \in Nat
      /\ (t \in Sending(n) => held1 = held - 1)
  <2>1. Sending(n)' \in SUBSET Sending(n) /\ Sending(n)' \in SUBSET Thread /\ Sending(n)' # Thread
    BY <1>7
  <2> QED BY <1>7, <1>8, <2>1, ThreadCount
<1>10. MaxSends \in Nat /\ count + held <= MaxSends + Cardinality(Thread) - 1
  BY <1>2, <1>8, LimitsAssumption DEF RateFits, CountRoom
<1> SUFFICES count1 + held1 <= MaxSends + Cardinality(Thread) - 1
  BY <1>2, <1>8 DEF RateFits, CountRoom
<1>11. CASE req[t].sender # n
  BY <1>3, <1>5, <1>6, <1>9, <1>10, <1>11
<1>12. CASE req[t].sender = n /\ ~req[t].replace
  <2>1. t \in Sending(n)
    BY <1>12 DEF Sending, Waits, SendReq
  <2> QED BY <1>3, <1>5, <1>9, <1>10, <2>1
<1>13. CASE req[t].sender = n /\ req[t].replace
  <2>1. count < MaxSends
    BY <1>2, <1>13 DEF WithinSendRate, Below
  <2> QED BY <1>3, <1>5, <1>9, <1>10, <2>1
<1> QED BY <1>11, <1>12, <1>13

----------------------------------------------------------------------------
LEMMA SendCheckFits ==
  ASSUME TypeOK, TypeOK', OvershootInv, NEW t \in Thread, NEW n \in NodeId,
         NEW from \in EndpointId, NEW to \in EndpointId, NEW p \in PacketId,
         NEW c \in Content, NEW ttl \in Ttl, SendCheck(t, n, from, to, p, c, ttl)
  PROVE  OvershootInv'
<1>1. PICK e \in endpoints, b \in BOOLEAN :
        /\ Size[c] <= MaxPacketBytes /\ (b <=> {q \in packets : q.id = p} # {})
        /\ {q \in packets : q.id = p} = {} =>
             WithinSendRate(n) /\ WithinQueueLimits(to, e.node, c, deliveries, packets)
        /\ req' = [req EXCEPT ![t] =
             [op |-> "send", sender |-> n, from |-> from, to |-> to,
              dest |-> e.node, packet |-> p, content |-> c, ttl |-> ttl,
              at |-> clock, replace |-> b]]
  BY DEF SendCheck
<1>2. PICK r : r = [op |-> "send", sender |-> n, from |-> from, to |-> to,
                    dest |-> e.node, packet |-> p, content |-> c, ttl |-> ttl,
                    at |-> clock, replace |-> b]
  OBVIOUS
<1>3. r.op = "send" /\ r.sender = n /\ r.to = to /\ r.content = c /\ r.replace = b
  BY <1>2
<1>4. req[t] = Idle /\ req' = [req EXCEPT ![t] = r]
      /\ UNCHANGED <<clock, packets, deliveries, sendEvents>>
  BY <1>1, <1>2 DEF SendCheck
<1>5. \A u \in Thread : req'[u] = IF u = t THEN r ELSE req[u]
  BY <1>4 DEF TypeOK
<1>6. r \in SendReq
  BY <1>3, <1>5 DEF TypeOK, Request, Idle, RedeemReq, AckReq, DeleteReq
<1>7. SmallInv /\ SmallInv'
  BY <1>1, <1>3, <1>4, <1>5 DEF OvershootInv, SmallInv, Small
<1>8. to \in Nat /\ deliveries \in SUBSET DeliveryRow
  BY DEF TypeOK, EndpointId
<1>limits. ~b => /\ WithinSendRate(n)
                 /\ WithinQueueLimits(to, e.node, c, deliveries, packets)
  BY <1>1
<1>9. ~r.replace => /\ Room({to}, EndpointPackets, EndpointBytes, c, deliveries, packets)
                    /\ Room(Nat, TotalPackets, TotalBytes, c, deliveries, packets)
  BY <1>3, <1>8, <1>limits, LimitsSay
<1>10. Fits(Nat, TotalPackets, TotalBytes)'
  BY <1>3, <1>4, <1>6, <1>7, <1>9, DecidingFits, LimitsAssumption DEF OvershootInv
<1>11. ASSUME NEW x \in Nat PROVE Fits({x}, EndpointPackets, EndpointBytes)'
  BY <1>3, <1>4, <1>6, <1>7, <1>9, DecidingFits, LimitsAssumption DEF OvershootInv
<1>12. ASSUME NEW m \in Nat PROVE RateFits(m)'
  BY <1>3, <1>4, <1>6, <1>7, <1>limits, DecidingFitsRate DEF OvershootInv
<1> QED BY <1>7, <1>10, <1>11, <1>12 DEF OvershootInv

LEMMA SendCommitFits ==
  ASSUME TypeOK, OvershootInv, NEW t \in Thread, SendCommit(t)
  PROVE  OvershootInv'
<1>1. /\ req[t] \in SendReq /\ clock' = clock
      /\ \A u \in Thread : req'[u] = IF u = t THEN Idle ELSE req[u]
  BY SendWrites
<1>2. PICK keep \in SUBSET packets :
        /\ \A p \in keep : p.id # req[t].packet
        /\ ~req[t].replace => keep = packets
        /\ req[t].replace =>
             /\ WithinSendRate(req[t].sender)
             /\ WithinQueueLimits(req[t].to, req[t].dest, req[t].content, HeldBy(keep), keep)
        /\ Writes(req[t], keep)
  BY SendWrites
<1>3. SmallInv /\ Size[req[t].content] <= MaxPacketBytes
  BY <1>1 DEF OvershootInv, SmallInv, SendReq
<1>4. SmallInv'
  <2>1. \A u \in Thread : req'[u] = req[u] \/ req'[u].op # "send"
    BY <1>1 DEF Idle
  <2> QED BY <1>1, <1>2, <1>3, <2>1, WrittenQueue
<1>5. req[t].to \in Nat /\ HeldBy(keep) \in SUBSET DeliveryRow
  BY <1>1 DEF SendReq, HeldBy, TypeOK
<1>6. req[t].replace =>
        /\ Room({req[t].to}, EndpointPackets, EndpointBytes, req[t].content, HeldBy(keep), keep)
        /\ Room(Nat, TotalPackets, TotalBytes, req[t].content, HeldBy(keep), keep)
  BY <1>2, <1>5, LimitsSay
<1>7. Fits(Nat, TotalPackets, TotalBytes)'
  BY <1>1, <1>2, <1>3, <1>6, WritingFits, LimitsAssumption DEF OvershootInv
<1>8. ASSUME NEW e \in Nat PROVE Fits({e}, EndpointPackets, EndpointBytes)'
  BY <1>1, <1>2, <1>3, <1>6, WritingFits, LimitsAssumption DEF OvershootInv
<1>9. ASSUME NEW m \in Nat PROVE RateFits(m)'
  BY <1>1, <1>2, <1>3, WritingFitsRate DEF OvershootInv
<1> QED BY <1>4, <1>7, <1>8, <1>9 DEF OvershootInv

LEMMA OtherStepsEase ==
  ASSUME TypeOK, [Next]_vars,
         ~\E t \in Thread : SendCommit(t),
         ~\E t \in Thread, n \in NodeId, from, to \in EndpointId, p \in PacketId,
             c \in Content, ttl \in Ttl : SendCheck(t, n, from, to, p, c, ttl)
  PROVE  Eases
<1>now. clock \in Nat
  BY DEF TypeOK
<1>idle. ASSUME UNCHANGED <<packets, deliveries, sendEvents, req>>,
                clock' = clock \/ clock' = clock + 1
         PROVE  Eases
  BY <1>idle, <1>now DEF Eases
<1>decide. ASSUME NEW t \in Thread, NEW r, r.op # "send", req' = [req EXCEPT ![t] = r],
                  packets' \subseteq packets, deliveries' \subseteq deliveries,
                  sendEvents' \subseteq sendEvents, clock' = clock
           PROVE  Eases
  <2>1. \A u \in Thread : req'[u] = IF u = t THEN r ELSE req[u]
    BY <1>decide DEF TypeOK
  <2> QED BY <1>decide, <1>now, <2>1 DEF Eases
<1>finish. ASSUME NEW t \in Thread, Finish(t), packets' \subseteq packets,
                  deliveries' \subseteq deliveries, sendEvents' \subseteq sendEvents,
                  clock' = clock
           PROVE  Eases
  BY <1>finish, <1>decide DEF Finish, Idle
<1>cascade. ASSUME NEW N, NEW E, CascadeDelete(N, E)
            PROVE  /\ packets' \subseteq packets /\ deliveries' \subseteq deliveries
                   /\ sendEvents' \subseteq sendEvents
  BY <1>cascade DEF CascadeDelete
<1>1. CASE IdentityStep
  <2>1. ASSUME NEW t \in Thread, NEW n, NEW e, DeleteEndpointCheck(t, n, e) PROVE Eases
    <3>1. [op |-> "delete", endpoint |-> e].op # "send"
      OBVIOUS
    <3> QED BY <2>1, <3>1, <1>decide DEF DeleteEndpointCheck
  <2>2. ASSUME NEW t \in Thread, DeleteEndpointCommit(t) PROVE Eases
    BY <2>2, <1>cascade, <1>finish DEF DeleteEndpointCommit
  <2>3. ASSUME NEW n \in NodeId, DeleteIdentity(n) PROVE Eases
    BY <2>3, <1>cascade, <1>now DEF DeleteIdentity, Eases
  <2> QED
    BY <1>1, <2>1, <2>2, <2>3, <1>idle DEF IdentityStep, Register, CreateEndpoint, SetNodeStatus
<1>2. CASE LinkStep
  <2>1. ASSUME NEW t \in Thread, NEW n, NEW e, RedeemCheck(t, n, e) PROVE Eases
    <3>1. PICK c : req' = [req EXCEPT ![t] = [op |-> "redeem", code |-> c, endpoint |-> e]]
      BY <2>1 DEF RedeemCheck
    <3>2. [op |-> "redeem", code |-> c, endpoint |-> e].op # "send"
      OBVIOUS
    <3> QED BY <2>1, <3>1, <3>2, <1>decide DEF RedeemCheck
  <2>2. ASSUME NEW t \in Thread, RedeemCommit(t) PROVE Eases
    BY <2>2, <1>finish DEF RedeemCommit
  <2> QED
    BY <1>2, <2>1, <2>2, <1>idle DEF LinkStep, RequestLinkCode, RedeemExpired, RevokeLink
<1>3. CASE QueueStep
  <2>1. ASSUME NEW t \in Thread, NEW n, AckCheck(t, n) PROVE Eases
    <3>1. PICK d, p : req' = [req EXCEPT ![t] = [op |-> "ack", delivery |-> d, packet |-> p]]
      BY <2>1 DEF AckCheck
    <3>2. [op |-> "ack", delivery |-> d, packet |-> p].op # "send"
      OBVIOUS
    <3> QED BY <2>1, <3>1, <3>2, <1>decide DEF AckCheck
  <2>2. ASSUME NEW t \in Thread, AckCommit(t) PROVE Eases
    BY <2>2, <1>finish DEF AckCommit
  <2>3. CASE Cleanup
    BY <2>3, <1>now DEF Cleanup, Purged, Eases
  <2> QED BY <1>3, <2>1, <2>2, <2>3 DEF QueueStep
<1>4. ASSUME NEW t \in Thread, Abort(t) PROVE Eases
  BY <1>4, <1>finish DEF Abort
<1>5. CASE Tick \/ UNCHANGED vars
  BY <1>5, <1>idle DEF Tick, vars
<1> QED BY <1>1, <1>2, <1>3, <1>4, <1>5 DEF Next

LEMMA OvershootStart == Init => OvershootInv
<1> SUFFICES ASSUME Init PROVE OvershootInv
  OBVIOUS
<1>1. \A t \in Thread : ~Waits(t) /\ req[t].op # "send"
  BY DEF Init, Waits, Idle
<1>2. SmallInv
  BY <1>1, FS_EmptySet DEF Init, SmallInv, Small
<1>3. ASSUME NEW E PROVE /\ Cardinality(Queued(E)) = 0 /\ BytesOf(Queued(E), packets) = 0
                         /\ Waiting(E) = {}
  <2>1. Queued(E) = {} /\ ByteSet(Queued(E), packets) = {} /\ Waiting(E) = {}
    BY <1>1 DEF Init, Queued, InScope, Active, ByteSet, Waiting
  <2> QED BY <1>2, <2>1, BytesCounted, FS_EmptySet DEF SmallInv
<1>4. ASSUME NEW n PROVE SendsInWindow(n) = {} /\ Sending(n) = {}
  BY <1>1 DEF Init, SendsInWindow, Sending
<1>5. /\ Cardinality({}) = 0 /\ Cardinality(Thread) \in Nat /\ Cardinality(Thread) >= 1
      /\ Slack(1) \in Nat
  BY FS_EmptySet, ThreadCount, SlackFacts
<1>6. {MaxSends, EndpointPackets, EndpointBytes, TotalPackets, TotalBytes} \subseteq Nat
  BY LimitsAssumption
<1>7. ASSUME NEW E, NEW packetCap \in Nat, NEW byteCap \in Nat PROVE Fits(E, packetCap, byteCap)
  <2>1. Cardinality(Queued(E)) = 0 /\ Cardinality(Waiting(E)) = 0
    BY <1>3, <1>5
  <2>2. CountRoom(Cardinality(Queued(E)), Waiting(E), packetCap)
    BY <1>5, <2>1 DEF CountRoom
  <2>3. ByteRoom(BytesOf(Queued(E), packets), Waiting(E), SizeOf, byteCap)
    BY <1>3, <1>5 DEF ByteRoom
  <2> QED BY <2>2, <2>3 DEF Fits
<1>8. ASSUME NEW n \in Nat PROVE RateFits(n)
  <2>1. Cardinality(SendsInWindow(n)) = 0 /\ Cardinality(Sending(n)) = 0
    BY <1>4, <1>5
  <2> QED BY <1>5, <1>6, <2>1 DEF RateFits, CountRoom
<1> QED BY <1>2, <1>6, <1>7, <1>8 DEF OvershootInv

LEMMA OvershootInvariance == Spec => []OvershootInv
<1>1. TypeOK /\ TypeOK' /\ OvershootInv /\ [Next]_vars => OvershootInv'
  BY SendCheckFits, SendCommitFits, OtherStepsEase, EasingFits
<1> QED BY <1>1, OvershootStart, TypeCorrect, PTL DEF Spec

\* Requests that run at once pass the limits of the queue and of the send rate
\* by at most one packet for each of the other threads, for every number of
\* threads, every limit and every interleaving of their checks and commits.
THEOREM OvershootIsBounded == Spec => []OvershootBounded
<1>1. ASSUME TypeOK, OvershootInv PROVE OvershootBounded
  <2>1. SmallInv /\ Fits(Nat, TotalPackets, TotalBytes)
    BY <1>1 DEF OvershootInv
  <2>2. ASSUME NEW E, NEW packetCap \in Nat, NEW byteCap \in Nat, Fits(E, packetCap, byteCap)
        PROVE  /\ Cardinality(Queued(E)) <= packetCap + (Cardinality(Thread) - 1)
               /\ BytesOf(Queued(E), packets)
                    <= byteCap + (Cardinality(Thread) - 1) * MaxPacketBytes
    <3>1. Waiting(E) \in SUBSET Thread
      BY DEF Waiting
    <3>2. \A t \in Waiting(E) : SizeOf[t] \in 0 .. MaxPacketBytes
      BY <1>1, <2>1, <3>1, SizesInHand
    <3>3. Cardinality(Queued(E)) \in Nat /\ BytesOf(Queued(E), packets) \in Nat
      BY <2>1, QueueCounts
    <3>4. CountRoom(Cardinality(Queued(E)), Waiting(E), packetCap)
      BY <2>2 DEF Fits
    <3>5. ByteRoom(BytesOf(Queued(E), packets), Waiting(E), SizeOf, byteCap)
      BY <2>2 DEF Fits
    <3>6. Cardinality(Queued(E)) <= packetCap + Cardinality(Thread) - 1
      BY <3>1, <3>2, <3>3, <3>4, RoomBounds
    <3>7. BytesOf(Queued(E), packets) <= byteCap + (Cardinality(Thread) - 1) * MaxPacketBytes
      BY <3>1, <3>2, <3>3, <3>5, RoomBounds
    <3> QED BY <3>3, <3>6, <3>7, ThreadCount
  <2>3. QueueOvershootBounded
    <3>1. Queued(Nat) = Active(deliveries, packets)
      BY <1>1 DEF Queued, InScope, Active, TypeOK, DeliveryRow
    <3>2. \A e : Queued({e}) = {d \in Active(deliveries, packets) : d.endpoint = e}
      BY DEF Queued, InScope
    <3>3. \A e \in EndpointId : e \in Nat
      BY DEF EndpointId
    <3>4. \A e \in EndpointId : Fits({e}, EndpointPackets, EndpointBytes)
      BY <1>1, <3>3 DEF OvershootInv
    <3>5. {EndpointPackets, EndpointBytes, TotalPackets, TotalBytes} \subseteq Nat
      BY LimitsAssumption
    <3>6. /\ Cardinality(Active(deliveries, packets)) <= TotalPackets + (Cardinality(Thread) - 1)
          /\ BytesOf(Active(deliveries, packets), packets)
               <= TotalBytes + (Cardinality(Thread) - 1) * MaxPacketBytes
      BY <2>1, <2>2, <3>1, <3>5
    <3>7. ASSUME NEW e \in EndpointId
          PROVE  /\ Cardinality({d \in Active(deliveries, packets) : d.endpoint = e})
                      <= EndpointPackets + (Cardinality(Thread) - 1)
                 /\ BytesOf({d \in Active(deliveries, packets) : d.endpoint = e}, packets)
                      <= EndpointBytes + (Cardinality(Thread) - 1) * MaxPacketBytes
      BY <2>2, <3>2, <3>4, <3>5
    <3> QED BY <3>6, <3>7 DEF QueueOvershootBounded
  <2>4. SendRateOvershootBounded
    <3> SUFFICES ASSUME NEW n \in NodeId
                 PROVE  Cardinality(SendsInWindow(n)) <= MaxSends + Cardinality(Thread) - 1
      BY DEF SendRateOvershootBounded
    <3>1. RateFits(n)
      BY <1>1 DEF OvershootInv, NodeId
    <3>2. Sending(n) \in SUBSET Thread
      BY DEF Sending
    <3>3. Cardinality(Sending(n)) \in Nat /\ Cardinality(Thread) \in Nat
      BY <3>2, ThreadCount
    <3>4. Cardinality(SendsInWindow(n)) \in Nat /\ MaxSends \in Nat
      BY <2>1, QueueCounts, LimitsAssumption
    <3> QED BY <3>1, <3>3, <3>4 DEF RateFits, CountRoom
  <2> QED BY <2>3, <2>4 DEF OvershootBounded
<1> QED BY <1>1, OvershootInvariance, TypeCorrect, PTL
=============================================================================
