------------------------------ MODULE MCRelay ------------------------------
(***************************************************************************)
(* Small instances of ArqsRelay: one that starts from the empty database   *)
(* and exercises identities, codes, links and routes, and one that starts  *)
(* from two linked nodes and exercises the packet queue.                   *)
(***************************************************************************)
EXTENDS ArqsRelay, TLC

CONSTANTS small, large   \* two contents

MCSize == [c \in Content |-> IF c = small THEN 1 ELSE 2]
NoSize == <<>>

Rows(n, e, c, l, d) ==
  [k \in Kind |-> CASE k = "node" -> n [] k = "endpoint" -> e
                    [] k = "code" -> c [] k = "link" -> l
                    [] k = "delivery" -> d]

LinkRows  == Rows(2, 3, 2, 2, 0)
QueueRows == Rows(2, 3, 1, 1, 3)
RaceRows  == Rows(2, 3, 2, 2, 1)

\* The database after both nodes have registered, the second has created
\* endpoint 3, the first has requested code 1 for its default endpoint and the
\* second has redeemed it into endpoint 3.
InitLinked ==
  /\ clock = 0
  /\ fresh = [k \in Kind |-> CASE k = "node" -> 2 [] k = "endpoint" -> 3
                               [] k \in {"code", "link"} -> 1 [] OTHER -> 0]
  /\ nodes = {[id |-> n, status |-> "active"] : n \in {1, 2}}
  /\ endpoints = {[id |-> 1, node |-> 1, default |-> TRUE],
                  [id |-> 2, node |-> 2, default |-> TRUE],
                  [id |-> 3, node |-> 2, default |-> FALSE]}
  /\ codes = {[id |-> 1, source |-> 1, mode |-> "bidirectional",
               expires |-> CodeTtl, status |-> "used"]}
  /\ links = {[id |-> 1, a |-> 1, b |-> 3, mode |-> "bidirectional",
               status |-> "active"]}
  /\ routes = {[from |-> 1, to |-> 3, link |-> 1, status |-> "active"],
               [from |-> 3, to |-> 1, link |-> 1, status |-> "active"]}
  /\ packets = {} /\ deliveries = {} /\ sendEvents = {}
  /\ req = [t \in Thread |-> Idle]

SpecLinked == InitLinked /\ [][Next]_vars

ThreadSymmetry == Permutations(Thread)
QueueSymmetry  == Permutations(Thread) \cup Permutations(PacketId)
=============================================================================
