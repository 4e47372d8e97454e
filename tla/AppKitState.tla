----------------------------- MODULE AppKitState -----------------------------
(***************************************************************************)
(* The processes of one AppKit application (a long-running one and its     *)
(* command line) and the state directory they share: config.json,          *)
(* identity.json and contacts.json (store.py), the start-up sequence and   *)
(* redeem_link_code (app.py), and the choice of the transport              *)
(* (transport.py, probe_transport of arqs_api.py).  base_url is configured *)
(* and names one host.                                                     *)
(***************************************************************************)
EXTENDS Naturals, FiniteSets

CONSTANTS
  Process,
  Code,           \* link codes, each redeemed under a label of its own
  Policy,         \* transport_policy: values a user gives to setup
  Site,           \* hosts of base_url: local or private?, its scheme
  MaxStarts,      \* bound: starts and setups of the processes together
  MaxNodes,       \* bound: registrations at the relay
  MaxCrashes,     \* bound: interruptions of a process
  None,           \* no value: no override, no file, no endpoint
  Broken          \* text that does not parse

TransportPolicy == {"allow_http", "prefer_https", "require_https"}
Node == 1 .. MaxNodes          \* with the default endpoint registered with it
Config == [policy : TransportPolicy, remembered : BOOLEAN]  \* ... allow_http for the host
Book == UNION {[D -> Node] : D \in SUBSET Code}             \* label -> local endpoint
FileName == {"config", "identity", "contacts"}
Text == [config |-> Config, identity |-> Node, contacts |-> Book]
\* A text on its way into a file, which has been opened for it or not.
Page == UNION {[into : {f}, text : Text[f], open : BOOLEAN] : f \in FileName}

ASSUME StateAssumption ==
  /\ Policy \subseteq TransportPolicy
  /\ Site \subseteq [local : BOOLEAN, scheme : {"http", "https"}]
  /\ MaxStarts \in Nat /\ MaxNodes \in Nat /\ MaxCrashes \in Nat
  /\ IsFiniteSet(Code)
  /\ None # Broken /\ None \notin Page /\ None \notin TransportPolicy \cup {"http", "https"}
  /\ \A f \in FileName : {None, Broken} \cap Text[f] = {}

VARIABLES
  file,           \* the three files: text, and its length
  proc,           \* the processes: where they are and what they hold
  pen,            \* what each is writing to a file
  starts,         \* starts and setups so far
  site,           \* the host of base_url
  nodes,          \* registrations at the relay so far
  links,          \* codes redeemed at the relay -> endpoint they went to
  crashes,        \* interruptions so far
  excuse          \* for the properties: what went wrong that leaves a trace

vars == <<file, proc, pen, starts, site, nodes, links, crashes, excuse>>
relay == <<nodes, links>>

Default == [policy |-> "prefer_https", remembered |-> FALSE]
Off == [pc |-> "off", config |-> Default, base |-> None, node |-> None, code |-> None]

----------------------------------------------------------------------------
(* Files.  write_text opens the file, which empties it, and puts the text  *)
(* at its start: over a longer one that another process has put there      *)
(* since, it leaves the end of that.                                       *)

\* The length of the part in which the texts of one file differ.
PolicyLength(policy) ==
  CASE policy = "allow_http" -> 1 [] policy = "prefer_https" -> 2 [] policy = "require_https" -> 3
Length(f, text) ==
  CASE f = "identity" -> 1
    [] f = "contacts" -> Cardinality(DOMAIN text)
    [] f = "config"   -> PolicyLength(text.policy) + (IF text.remembered THEN 3 ELSE 0)

Emptied(f) == [text |-> Broken, length |-> 0]

Written(f, text) ==
  IF Length(f, text) >= file[f].length THEN [text |-> text, length |-> Length(f, text)]
  ELSE [file[f] EXCEPT !.text = Broken]

Parses(f)  == file[f].text # Broken
Writing(p, f) == pen[p] # None /\ pen[p].into = f
HasOpen(p, f) == Writing(p, f) /\ pen[p].open
Free(p) == pen[p] = None

Save(p, f, text) == pen' = [pen EXCEPT ![p] = [into |-> f, text |-> text, open |-> FALSE]]

Open(p, f) ==
  /\ Writing(p, f) /\ ~pen[p].open
  /\ file' = [file EXCEPT ![f] = Emptied(f)]
  /\ pen' = [pen EXCEPT ![p].open = TRUE]
  /\ excuse' = IF \E q \in Process : HasOpen(q, f)
               THEN [excuse EXCEPT !.torn = @ \cup {f}] ELSE excuse
  /\ UNCHANGED <<proc, starts, site, relay, crashes>>

Write(p, f) ==
  /\ HasOpen(p, f)
  /\ file' = [file EXCEPT ![f] = Written(f, pen[p].text)]
  /\ pen' = [pen EXCEPT ![p] = None]
  /\ UNCHANGED <<proc, starts, site, relay, crashes, excuse>>

----------------------------------------------------------------------------
(* Start-up.                                                               *)

Loaded == IF file["config"].text = None THEN Default ELSE file["config"].text
With(c, o) == IF o = None THEN c ELSE [c EXCEPT !.policy = o]
Allowing(o) == IF o = "allow_http" THEN [excuse EXCEPT !.allowed = TRUE] ELSE excuse

\* The constructor: what the user overrides is saved.
Start(p, o) ==
  /\ proc[p].pc = "off" /\ starts < MaxStarts
  /\ Parses("config")
  /\ starts' = starts + 1
  /\ proc' = [proc EXCEPT ![p].pc = "resolve", ![p].config = With(Loaded, o)]
  /\ IF o = None THEN pen' = pen ELSE Save(p, "config", With(Loaded, o))
  /\ excuse' = Allowing(o)
  /\ UNCHANGED <<file, site, relay, crashes>>

\* setup: with its own copy of the configuration.
Setup(p, o) ==
  /\ proc[p].pc = "ready" /\ Free(p) /\ starts < MaxStarts
  /\ starts' = starts + 1
  /\ proc' = [proc EXCEPT ![p].pc = "resolve", ![p].config = With(@, o), ![p].base = None]
  /\ Save(p, "config", With(proc[p].config, o))
  /\ excuse' = Allowing(o)
  /\ UNCHANGED <<file, site, relay, crashes>>

\* A remembered preference comes before the policy.
Effective(c) == IF c.remembered THEN "allow_http" ELSE c.policy

\* faulty: the host is not looked at
AnyHost(c) == TRUE
\* HTTP without HTTPS under prefer_https.
HttpTolerated(c) == site.local

\* The base URL, or None: the start fails.
Chosen(c, http, https) ==
  LET policy == Effective(c)
  IN CASE https /\ (policy # "allow_http" \/ site.scheme = "https" \/ ~http) -> "https"
       [] http /\ (policy = "allow_http" \/ (policy = "prefer_https" /\ HttpTolerated(c))) -> "http"
       [] OTHER -> None

\* The answers probe_transport can get: an https base_url is asked over HTTPS
\* only.
Probed(http, https) == site.scheme = "https" => ~http

Resolve(p, http, https) ==
  /\ proc[p].pc = "resolve" /\ Free(p)
  /\ Probed(http, https)
  /\ LET base == Chosen(proc[p].config, http, https)
         c == [proc[p].config EXCEPT !.remembered = @ \/ base = "http"]
     IN IF base = None
        THEN proc' = [proc EXCEPT ![p] = Off] /\ pen' = pen
        ELSE /\ proc' = [proc EXCEPT ![p].pc = "identity", ![p].config = c, ![p].base = base]
             /\ Save(p, "config", c)
  /\ UNCHANGED <<file, starts, site, relay, crashes, excuse>>

NoIdentity == file["identity"].text = None

\* load_identity; the default endpoint of an identity cannot be deleted, so
\* list_endpoints has it.
LoadIdentity(p) ==
  /\ proc[p].pc = "identity" /\ Free(p)
  /\ proc' = [proc EXCEPT ![p] =
       IF ~Parses("identity") THEN Off
       ELSE IF NoIdentity THEN [@ EXCEPT !.pc = "register"]
       ELSE [@ EXCEPT !.pc = "ready", !.node = file["identity"].text]]
  /\ excuse' = IF NoIdentity /\ \E q \in Process \ {p} :
                    proc[q].pc = "register" \/ Writing(q, "identity")
               THEN [excuse EXCEPT !.overlap = TRUE] ELSE excuse
  /\ UNCHANGED <<file, pen, starts, site, relay, crashes>>

\* faulty: the new identity is not saved
KeptInMemory(p, n) == pen' = pen
SaveIdentity(p, n) == Save(p, "identity", n)

Register(p) ==
  /\ proc[p].pc = "register" /\ nodes < MaxNodes
  /\ nodes' = nodes + 1
  /\ \/ /\ proc' = [proc EXCEPT ![p].pc = "ready", ![p].node = nodes']
        /\ SaveIdentity(p, nodes')
        /\ excuse' = excuse
     \/ /\ proc' = [proc EXCEPT ![p] = Off]        \* the answer is lost
        /\ pen' = pen
        /\ excuse' = [excuse EXCEPT !.abandoned = @ \cup {nodes'}]
  /\ UNCHANGED <<file, starts, site, links, crashes>>

----------------------------------------------------------------------------
(* redeem_link_code and ContactBook.upsert.                                *)

Redeem(p, c) ==
  /\ proc[p].pc = "ready" /\ Free(p) /\ c \notin DOMAIN links
  /\ links' = [d \in DOMAIN links \cup {c} |-> IF d = c THEN proc[p].node ELSE links[d]]
  /\ \/ /\ proc' = [proc EXCEPT ![p].pc = "upsert", ![p].code = c]
        /\ excuse' = excuse
     \/ /\ proc' = proc                            \* the answer is lost
        /\ excuse' = [excuse EXCEPT !.dropped = @ \cup {c}]
  /\ UNCHANGED <<file, pen, starts, site, nodes, crashes>>

Contacts == IF file["contacts"].text = None THEN [c \in {} |-> 1] ELSE file["contacts"].text

\* faulty: the new contact alone
Alone(p) == [c \in {proc[p].code} |-> proc[p].node]
Upserted(p) == [c \in DOMAIN Contacts \cup {proc[p].code} |->
                  IF c = proc[p].code THEN proc[p].node ELSE Contacts[c]]

\* The whole book is read, and written back with one more contact.
Upsert(p) ==
  /\ proc[p].pc = "upsert" /\ Free(p)
  /\ LET others == {q \in Process : Writing(q, "contacts")}
     IN IF Parses("contacts")
        THEN /\ Save(p, "contacts", Upserted(p))
             /\ excuse' = IF others = {} THEN excuse
                  ELSE [excuse EXCEPT !.dropped = @ \cup {proc[q].code : q \in others \cup {p}}]
        ELSE /\ pen' = pen
             /\ excuse' = [excuse EXCEPT !.dropped = @ \cup {proc[p].code}]
  /\ proc' = [proc EXCEPT ![p].pc = "ready"]
  /\ UNCHANGED <<file, starts, site, relay, crashes>>

----------------------------------------------------------------------------
\* It ends, or the start fails on a request to the relay.
Stop(p) ==
  /\ proc[p].pc \in {"identity", "register", "ready"} /\ Free(p)
  /\ proc' = [proc EXCEPT ![p] = Off]
  /\ UNCHANGED <<file, pen, starts, site, relay, crashes, excuse>>

\* It is interrupted anywhere; what it had in hand is not written.
Crash(p) ==
  /\ proc[p].pc # "off" /\ crashes < MaxCrashes
  /\ crashes' = crashes + 1
  /\ proc' = [proc EXCEPT ![p] = Off] /\ pen' = [pen EXCEPT ![p] = None]
  /\ excuse' = [excuse EXCEPT
       !.torn = @ \cup {f \in FileName : HasOpen(p, f)},
       !.abandoned = @ \cup {n \in Node : Writing(p, "identity") /\ proc[p].node = n},
       !.dropped = @ \cup {c \in Code : /\ proc[p].pc = "upsert" \/ Writing(p, "contacts")
                                        /\ proc[p].code = c}]
  /\ UNCHANGED <<file, starts, site, relay>>

Init ==
  /\ file = [f \in FileName |-> [text |-> None, length |-> 0]]
  /\ proc = [p \in Process |-> Off] /\ pen = [p \in Process |-> None]
  /\ starts = 0
  /\ site \in Site
  /\ nodes = 0 /\ links = [c \in {} |-> 1] /\ crashes = 0
  /\ excuse = [torn |-> {}, abandoned |-> {}, dropped |-> {},
               overlap |-> FALSE, allowed |-> FALSE]

Next ==
  \E p \in Process :
    \/ \E f \in FileName : Open(p, f) \/ Write(p, f)
    \/ \E o \in Policy \cup {None} : Start(p, o) \/ Setup(p, o)
    \/ \E http, https \in BOOLEAN : Resolve(p, http, https)
    \/ LoadIdentity(p) \/ Register(p)
    \/ \E c \in Code : Redeem(p, c)
    \/ Upsert(p) \/ Stop(p) \/ Crash(p)

Spec == Init /\ [][Next]_vars

----------------------------------------------------------------------------
TypeOK ==
  /\ \A f \in FileName : /\ file[f].text \in Text[f] \cup {None, Broken}
                         /\ file[f].length \in 0 .. 6 + Cardinality(Code)
  /\ \A p \in Process :
       /\ proc[p].pc \in {"off", "resolve", "identity", "register", "ready", "upsert"}
       /\ proc[p].config \in Config /\ proc[p].base \in {None, "http", "https"}
       /\ proc[p].node \in Node \cup {None} /\ proc[p].code \in Code \cup {None}
       /\ pen[p] \in Page \cup {None}
  /\ starts \in 0 .. MaxStarts /\ nodes \in 0 .. MaxNodes /\ links \in Book
  /\ excuse.torn \subseteq FileName /\ excuse.abandoned \subseteq Node
  /\ excuse.dropped \subseteq Code

\* A file that does not parse is being written, or it was torn: its writer was
\* interrupted, or two had it open at once.  (No start succeeds after that,
\* or no contact is saved.)
BrokenForAReason ==
  \A f \in FileName :
    file[f].text = Broken => f \in excuse.torn \/ \E p \in Process : HasOpen(p, f)

\* Every identity at the relay is the saved one or about to be saved, unless
\* the answer or the process that had it was lost, or two first starts overlap.
NodesAccounted ==
  \A n \in 1 .. nodes :
    \/ n \in excuse.abandoned \/ excuse.overlap
    \/ file["identity"].text = n
    \/ \E p \in Process : Writing(p, "identity") /\ proc[p].node = n

\* A contact's local endpoint belongs to the saved identity, so that later
\* processes may send from it, unless two first starts overlap.
ContactsUsable ==
  Parses("contacts") /\ Parses("identity") /\ ~excuse.overlap =>
    \A c \in DOMAIN Contacts : Contacts[c] = file["identity"].text

\* A link redeemed at the relay is in the contact book or on its way there;
\* it is lost only with its answer or its process, when the book did not
\* parse, or when two processes update the book at once.
LinksHaveContacts ==
  Parses("contacts") =>
    \A c \in DOMAIN links :
      \/ c \in DOMAIN Contacts \/ c \in excuse.dropped
      \/ \E p \in Process : proc[p].code = c /\ (proc[p].pc = "upsert" \/ Writing(p, "contacts"))

\* Files, identity and contacts fit together, after every crash and overlap
\* that is not named as the reason why they do not.
StateInv == TypeOK /\ BrokenForAReason /\ ContactsUsable /\ LinksHaveContacts

\* Over HTTP to a host that is not local only if a user has once allowed it.
HttpForAReason ==
  \A p \in Process : proc[p].base = "http" => site.local \/ excuse.allowed

\* appkit/README.md: require_https fails if HTTPS is not reachable.
RequireHttpsFails ==
  \A p \in Process :
    proc[p].base # None /\ proc[p].config.policy = "require_https" => proc[p].base = "https"
=============================================================================
