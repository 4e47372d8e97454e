--------------------------- MODULE AppKitState_proofs ---------------------------
(***************************************************************************)
(* Proofs about AppKitState: why a base URL is HTTP, why a file does not   *)
(* parse, where the identities registered at the relay are, and how files, *)
(* identity and contacts fit together.                                     *)
(***************************************************************************)
EXTENDS AppKitState, FiniteSetTheorems, TLAPS

ProcState ==
  [pc : {"off", "resolve", "identity", "register", "ready", "upsert"}, config : Config,
   base : {None, "http", "https"}, node : Node \cup {None}, code : Code \cup {None}]
FileState(f) == [text : Text[f] \cup {None, Broken}, length : Nat]
ExcuseState ==
  [torn : SUBSET FileName, abandoned : SUBSET Node, dropped : SUBSET (Code \cup {None}),
   overlap : BOOLEAN, allowed : BOOLEAN]

\* TypeOK without its bounds on counters, and with the domains.
Typed ==
  /\ file = [f \in FileName |-> file[f]] /\ \A f \in FileName : file[f] \in FileState(f)
  /\ proc \in [Process -> ProcState] /\ pen \in [Process -> Page \cup {None}]
  /\ site \in Site /\ nodes \in 0 .. MaxNodes /\ excuse \in ExcuseState
  /\ links \in Book
  /\ \A p \in Process : /\ proc[p].pc \in {"ready", "upsert"} => proc[p].node \in Node
                        /\ proc[p].pc = "upsert" => proc[p].code \in Code

----------------------------------------------------------------------------
(* The data.                                                               *)

LEMMA TextFacts ==
  /\ Text["config"] = Config /\ Text["identity"] = Node /\ Text["contacts"] = Book
  /\ \A f \in FileName : None \notin Text[f] /\ Broken \notin Text[f]
BY StateAssumption DEF Text

LEMMA PageFacts ==
  /\ None \notin Page
  /\ \A f \in FileName : \A t \in Text[f], o \in BOOLEAN :
       [into |-> f, text |-> t, open |-> o] \in Page
  /\ \A g \in Page : /\ g.into \in FileName /\ g.text \in Text[g.into] /\ g.open \in BOOLEAN
                     /\ g = [into |-> g.into, text |-> g.text, open |-> g.open]
BY StateAssumption DEF Page

LEMMA BookFacts ==
  /\ \A b \in Book : DOMAIN b \subseteq Code /\ \A c \in DOMAIN b : b[c] \in Node
  /\ \A D \in SUBSET Code : \A b \in [D -> Node] : b \in Book
BY DEF Book

LEMMA LengthTyped ==
  ASSUME NEW f \in FileName, NEW t \in Text[f]
  PROVE  Length(f, t) \in Nat
<1>1. CASE f = "identity"
  BY <1>1 DEF Length
<1>2. CASE f = "contacts"
  <2>1. DOMAIN t \subseteq Code
    BY <1>2, TextFacts, BookFacts
  <2>2. Cardinality(DOMAIN t) \in Nat
    BY <2>1, StateAssumption, FS_Subset, FS_CardinalityType
  <2> QED BY <1>2, <2>2 DEF Length
<1>3. CASE f = "config"
  <2>1. t \in Config
    BY <1>3, TextFacts
  <2>2. PolicyLength(t.policy) \in Nat
    BY <2>1 DEF Config, TransportPolicy, PolicyLength
  <2> QED BY <1>3, <2>2 DEF Length
<1> QED BY <1>1, <1>2, <1>3 DEF FileName

LEMMA ConfigFacts ==
  /\ Default \in Config /\ Default.policy # "allow_http" /\ ~Default.remembered
  /\ \A c \in Config, o \in Policy \cup {None} :
       /\ With(c, o) \in Config /\ With(c, o).remembered = c.remembered
       /\ With(c, o).policy = (IF o = None THEN c.policy ELSE o)
  /\ \A c \in Config, b \in BOOLEAN :
       [c EXCEPT !.remembered = b] \in Config /\ [c EXCEPT !.remembered = b].policy = c.policy
         /\ [c EXCEPT !.remembered = b].remembered = b
BY StateAssumption DEF Default, Config, With, TransportPolicy

\* What a process may be turned into.
LEMMA OffFacts == Off \in ProcState
BY ConfigFacts DEF Off, ProcState

LEMMA SaveTyped ==
  ASSUME Typed, NEW p \in Process, NEW f \in FileName, NEW t \in Text[f], Save(p, f, t)
  PROVE  /\ pen' \in [Process -> Page \cup {None}]
         /\ pen'[p] \in Page /\ pen'[p].into = f /\ pen'[p].text = t /\ ~pen'[p].open
         /\ \A q \in Process \ {p} : pen'[q] = pen[q]
<1> DEFINE g == [into |-> f, text |-> t, open |-> FALSE]
<1>1. g \in Page /\ g.into = f /\ g.text = t /\ ~g.open
  BY PageFacts
<1>2. pen' = [pen EXCEPT ![p] = g]
  BY DEF Save
<1> HIDE DEF g
<1> QED BY <1>1, <1>2 DEF Typed

\* Opening empties one file, writing puts a text into it.
LEMMA OpenFacts ==
  ASSUME Typed, NEW p \in Process, NEW f \in FileName, Open(p, f)
  PROVE  /\ pen' \in [Process -> Page \cup {None}]
         /\ pen[p] \in Page /\ pen[p].into = f /\ ~pen[p].open
         /\ pen'[p] \in Page /\ pen'[p].into = f /\ pen'[p].text = pen[p].text /\ pen'[p].open
         /\ \A q \in Process \ {p} : pen'[q] = pen[q]
         /\ file'[f] = Emptied(f) /\ \A g \in FileName \ {f} : file'[g] = file[g]
         /\ file' = [g \in FileName |-> file'[g]]
<1>1. pen[p] \in Page /\ pen[p].into = f /\ ~pen[p].open
  BY DEF Open, Writing, Typed
<1>2. /\ pen' = [pen EXCEPT ![p] = [@ EXCEPT !.open = TRUE]]
      /\ file' = [file EXCEPT ![f] = Emptied(f)]
  BY DEF Open
<1>3. pen[p] \in [into : {f}, text : Text[f], open : BOOLEAN]
  BY <1>1, PageFacts
<1> DEFINE g == [pen[p] EXCEPT !.open = TRUE]
<1>4. /\ g \in [into : {f}, text : Text[f], open : BOOLEAN]
      /\ g.into = f /\ g.text = pen[p].text /\ g.open
  BY <1>3
<1>5. g \in Page
  BY <1>4 DEF Page
<1> QED BY <1>1, <1>2, <1>4, <1>5 DEF Typed

LEMMA WriteFacts ==
  ASSUME Typed, NEW p \in Process, NEW f \in FileName, Write(p, f)
  PROVE  /\ pen' \in [Process -> Page \cup {None}]
         /\ pen[p] \in Page /\ pen[p].into = f /\ pen[p].open /\ pen'[p] = None
         /\ pen[p].text \in Text[f]
         /\ \A q \in Process \ {p} : pen'[q] = pen[q]
         /\ file'[f] = Written(f, pen[p].text)
         /\ \A g \in FileName \ {f} : file'[g] = file[g]
         /\ file' = [g \in FileName |-> file'[g]]
<1>1. pen[p] \in Page /\ pen[p].into = f /\ pen[p].open
  BY DEF Write, HasOpen, Writing, Typed
<1>2. pen' = [pen EXCEPT ![p] = None] /\ file' = [file EXCEPT ![f] = Written(f, pen[p].text)]
  BY DEF Write
<1> QED BY <1>1, <1>2, PageFacts DEF Typed

\* What Written leaves in a file.
LEMMA WrittenFacts ==
  ASSUME Typed, NEW f \in FileName, NEW t \in Text[f]
  PROVE  /\ Written(f, t) \in FileState(f)
         /\ Written(f, t).text \in {t, Broken}
         /\ Length(f, t) >= file[f].length => Written(f, t).text = t
<1>1. file[f] \in FileState(f) /\ Length(f, t) \in Nat
  BY LengthTyped DEF Typed
<1> QED BY <1>1 DEF Written, FileState

LEMMA LoadedFacts ==
  ASSUME Typed, Parses("config")
  PROVE  Loaded \in Config
BY ConfigFacts, TextFacts DEF Typed, FileState, FileName, Parses, Loaded

----------------------------------------------------------------------------
(* Types.                                                                  *)

LEMMA InitTyped == Init => Typed
<1> SUFFICES ASSUME Init PROVE Typed
  OBVIOUS
<1>1. file = [f \in FileName |-> file[f]] /\ \A f \in FileName : file[f] \in FileState(f)
  BY DEF Init, FileState
<1>2. proc \in [Process -> ProcState] /\ pen \in [Process -> Page \cup {None}]
  BY OffFacts DEF Init
<1>3. links \in Book
  <2>1. [c \in {} |-> 1] \in [{} -> Node]
    OBVIOUS
  <2> QED BY <2>1 DEF Init, Book
<1>4. \A p \in Process : proc[p].pc = "off"
  BY DEF Init, Off
<1> QED BY <1>1, <1>2, <1>3, <1>4, StateAssumption DEF Init, Typed, ExcuseState

\* A process is at another place, with other things in hand.
LEMMA ProcFacts ==
  ASSUME Typed, NEW p \in Process
  PROVE  /\ \A x \in ProcState : /\ [proc EXCEPT ![p] = x] \in [Process -> ProcState]
                                 /\ [proc EXCEPT ![p] = x][p] = x
                                 /\ \A q \in Process \ {p} : [proc EXCEPT ![p] = x][q] = proc[q]
         /\ proc[p] \in ProcState
BY DEF Typed

LEMMA ExcuseFacts ==
  ASSUME Typed, NEW o
  PROVE  /\ Allowing(o) \in ExcuseState
         /\ Allowing(o).allowed = (excuse.allowed \/ o = "allow_http")
         /\ Allowing(o).overlap = excuse.overlap
         /\ Allowing(o).torn = excuse.torn /\ Allowing(o).abandoned = excuse.abandoned
BY DEF Typed, Allowing, ExcuseState

LEMMA StartFacts ==
  ASSUME Typed, NEW p \in Process, NEW o \in Policy \cup {None}, Start(p, o)
  PROVE  /\ proc' \in [Process -> ProcState] /\ proc'[p].pc = "resolve"
         /\ proc'[p].config = With(Loaded, o) /\ proc'[p].base = proc[p].base
         /\ proc'[p].node = proc[p].node
         /\ \A q \in Process \ {p} : proc'[q] = proc[q]
<1> DEFINE x == [proc[p] EXCEPT !.pc = "resolve", !.config = With(Loaded, o)]
<1>1. proc' = [proc EXCEPT ![p] = x]
  BY DEF Start
<1>2. With(Loaded, o) \in Config
  BY LoadedFacts, ConfigFacts DEF Start
<1>3. proc[p] \in ProcState
  BY ProcFacts
<1>4. x \in ProcState /\ x.pc = "resolve" /\ x.config = With(Loaded, o)
      /\ x.base = proc[p].base /\ x.node = proc[p].node
  BY <1>2, <1>3 DEF ProcState
<1> QED BY <1>1, <1>4, ProcFacts

LEMMA SetupFacts ==
  ASSUME Typed, NEW p \in Process, NEW o \in Policy \cup {None}, Setup(p, o)
  PROVE  /\ proc' \in [Process -> ProcState] /\ proc'[p].pc = "resolve"
         /\ proc'[p].config = With(proc[p].config, o) /\ proc'[p].base = None
         /\ proc'[p].node = proc[p].node
         /\ \A q \in Process \ {p} : proc'[q] = proc[q]
<1> DEFINE x == [proc[p] EXCEPT !.pc = "resolve", !.config = With(@, o), !.base = None]
<1>1. proc' = [proc EXCEPT ![p] = x]
  BY DEF Setup
<1>2. proc[p] \in ProcState
  BY ProcFacts
<1>3. With(proc[p].config, o) \in Config
  BY <1>2, ConfigFacts DEF ProcState
<1>4. x \in ProcState /\ x.pc = "resolve" /\ x.config = With(proc[p].config, o)
      /\ x.base = None /\ x.node = proc[p].node
  BY <1>2, <1>3 DEF ProcState
<1> QED BY <1>1, <1>4, ProcFacts

\* A start has a base URL or fails.
LEMMA ResolveFacts ==
  ASSUME Typed, NEW p \in Process, NEW http \in BOOLEAN, NEW https \in BOOLEAN,
         Resolve(p, http, https)
  PROVE  /\ proc' \in [Process -> ProcState]
         /\ \A q \in Process \ {p} : proc'[q] = proc[q]
         /\ \/ proc'[p] = Off /\ pen' = pen
            \/ \E base \in {"http", "https"}, c \in Config :
                 /\ base = Chosen(proc[p].config, http, https)
                 /\ c = [proc[p].config EXCEPT !.remembered = @ \/ base = "http"]
                 /\ proc'[p].pc = "identity" /\ proc'[p].config = c /\ proc'[p].base = base
                 /\ Save(p, "config", c)
<1> DEFINE base == Chosen(proc[p].config, http, https)
           c == [proc[p].config EXCEPT !.remembered = @ \/ base = "http"]
           x == [proc[p] EXCEPT !.pc = "identity", !.config = c, !.base = base]
<1>1. proc[p] \in ProcState
  BY ProcFacts
<1>2. CASE base = None
  <2>1. proc' = [proc EXCEPT ![p] = Off] /\ pen' = pen
    BY <1>2 DEF Resolve
  <2> QED BY <2>1, OffFacts, ProcFacts
<1>3. CASE base # None
  <2>1. proc' = [proc EXCEPT ![p] = x] /\ Save(p, "config", c)
    BY <1>3 DEF Resolve
  <2>2. base \in {"http", "https"}
    BY <1>3 DEF Chosen
  <2>3. c \in Config
    BY <1>1, ConfigFacts DEF ProcState, Config
  <2>4. x \in ProcState /\ x.pc = "identity" /\ x.config = c /\ x.base = base
    BY <1>1, <2>2, <2>3 DEF ProcState
  <2> QED BY <2>1, <2>2, <2>3, <2>4, ProcFacts
<1> QED BY <1>2, <1>3

LEMMA LoadFacts ==
  ASSUME Typed, NEW p \in Process, LoadIdentity(p)
  PROVE  /\ proc' \in [Process -> ProcState] /\ \A q \in Process \ {p} : proc'[q] = proc[q]
         /\ \/ proc'[p] = Off
            \/ /\ proc'[p].config = proc[p].config /\ proc'[p].base = proc[p].base
               /\ \/ NoIdentity /\ proc'[p].pc = "register"
                  \/ /\ ~NoIdentity /\ proc'[p].pc = "ready"
                     /\ proc'[p].node = file["identity"].text /\ proc'[p].node \in Node
<1>1. proc[p] \in ProcState
  BY ProcFacts
<1>2. CASE ~Parses("identity")
  <2>1. proc' = [proc EXCEPT ![p] = Off]
    BY <1>2 DEF LoadIdentity
  <2> QED BY <2>1, OffFacts, ProcFacts
<1>3. CASE Parses("identity") /\ NoIdentity
  <2> DEFINE x == [proc[p] EXCEPT !.pc = "register"]
  <2>1. proc' = [proc EXCEPT ![p] = x]
    BY <1>3 DEF LoadIdentity
  <2>2. x \in ProcState /\ x.pc = "register" /\ x.config = proc[p].config /\ x.base = proc[p].base
    BY <1>1 DEF ProcState
  <2> QED BY <1>3, <2>1, <2>2, ProcFacts
<1>4. CASE Parses("identity") /\ ~NoIdentity
  <2> DEFINE x == [proc[p] EXCEPT !.pc = "ready", !.node = file["identity"].text]
  <2>1. proc' = [proc EXCEPT ![p] = x]
    BY <1>4 DEF LoadIdentity
  <2>2. file["identity"].text \in Node
    BY <1>4, TextFacts DEF Typed, FileState, FileName, Parses, NoIdentity
  <2>3. x \in ProcState /\ x.pc = "ready" /\ x.config = proc[p].config /\ x.base = proc[p].base
        /\ x.node = file["identity"].text
    BY <1>1, <2>2 DEF ProcState
  <2> QED BY <1>4, <2>1, <2>2, <2>3, ProcFacts
<1> QED BY <1>2, <1>3, <1>4

LEMMA RegisterFacts ==
  ASSUME Typed, NEW p \in Process, Register(p)
  PROVE  /\ proc' \in [Process -> ProcState] /\ \A q \in Process \ {p} : proc'[q] = proc[q]
         /\ nodes' = nodes + 1 /\ nodes' \in Node
         /\ \/ /\ proc'[p] = Off /\ pen' = pen
               /\ excuse' = [excuse EXCEPT !.abandoned = @ \cup {nodes'}]
            \/ /\ proc'[p].pc = "ready" /\ proc'[p].node = nodes'
               /\ proc'[p].config = proc[p].config /\ proc'[p].base = proc[p].base
               /\ Save(p, "identity", nodes') /\ excuse' = excuse
<1>1. proc[p] \in ProcState
  BY ProcFacts
<1>2. nodes' = nodes + 1 /\ nodes' \in Node
  BY StateAssumption DEF Register, Typed, Node
<1>3. CASE /\ proc' = [proc EXCEPT ![p] = Off] /\ pen' = pen
           /\ excuse' = [excuse EXCEPT !.abandoned = @ \cup {nodes'}]
  BY <1>2, <1>3, OffFacts, ProcFacts
<1>4. CASE /\ proc' = [proc EXCEPT ![p].pc = "ready", ![p].node = nodes']
           /\ SaveIdentity(p, nodes') /\ excuse' = excuse
  <2> DEFINE x == [proc[p] EXCEPT !.pc = "ready", !.node = nodes']
  <2>1. proc' = [proc EXCEPT ![p] = x]
    BY <1>4
  <2>2. x \in ProcState /\ x.pc = "ready" /\ x.node = nodes' /\ x.config = proc[p].config
        /\ x.base = proc[p].base
    BY <1>1, <1>2 DEF ProcState
  <2> QED BY <1>2, <1>4, <2>1, <2>2, ProcFacts DEF SaveIdentity
<1> QED BY <1>3, <1>4 DEF Register

LEMMA RedeemFacts ==
  ASSUME Typed, NEW p \in Process, NEW c \in Code, Redeem(p, c)
  PROVE  /\ proc' \in [Process -> ProcState] /\ \A q \in Process \ {p} : proc'[q] = proc[q]
         /\ proc'[p].config = proc[p].config /\ proc'[p].base = proc[p].base
         /\ proc'[p].node = proc[p].node /\ proc[p].pc = "ready"
         /\ proc'[p].pc = "ready" \/ (proc'[p].pc = "upsert" /\ proc'[p].code = c)
         /\ links' \in Book /\ excuse' \in ExcuseState
         /\ excuse' = [excuse EXCEPT !.dropped = excuse'.dropped]
<1>1. proc[p] \in ProcState /\ proc[p].pc = "ready"
  BY ProcFacts DEF Redeem
<1>2. links' \in Book
  <2>1. DOMAIN links \cup {c} \in SUBSET Code /\ \A d \in DOMAIN links : links[d] \in Node
    BY BookFacts DEF Typed
  <2>2. proc[p].node \in Node
    BY DEF Redeem, Typed
  <2>3. links' \in [DOMAIN links \cup {c} -> Node]
    BY <2>1, <2>2 DEF Redeem
  <2> QED BY <2>1, <2>3, BookFacts
<1>3. CASE proc' = [proc EXCEPT ![p].pc = "upsert", ![p].code = c] /\ excuse' = excuse
  <2> DEFINE x == [proc[p] EXCEPT !.pc = "upsert", !.code = c]
  <2>1. x \in ProcState /\ x.pc = "upsert" /\ x.node = proc[p].node /\ x.config = proc[p].config
        /\ x.base = proc[p].base /\ x.code = c
    BY <1>1 DEF ProcState
  <2>2. excuse' = [excuse EXCEPT !.dropped = excuse'.dropped]
    BY <1>3 DEF Typed, ExcuseState
  <2> QED BY <1>1, <1>2, <1>3, <2>1, <2>2, ProcFacts DEF Typed
<1>4. CASE proc' = proc /\ excuse' = [excuse EXCEPT !.dropped = @ \cup {c}]
  <2>1. excuse' \in ExcuseState /\ excuse'.dropped = excuse.dropped \cup {c}
    BY <1>4 DEF Typed, ExcuseState
  <2> QED BY <1>1, <1>2, <1>4, <2>1, ProcFacts DEF Typed
<1> QED BY <1>3, <1>4 DEF Redeem

\* The book is read, and saved with one more contact.
LEMMA UpsertFacts ==
  ASSUME Typed, NEW p \in Process, Upsert(p)
  PROVE  /\ proc' \in [Process -> ProcState] /\ \A q \in Process \ {p} : proc'[q] = proc[q]
         /\ proc'[p].config = proc[p].config /\ proc'[p].base = proc[p].base
         /\ proc'[p].node = proc[p].node /\ proc'[p].pc = "ready" /\ proc[p].node \in Node
         /\ excuse' \in ExcuseState /\ excuse' = [excuse EXCEPT !.dropped = excuse'.dropped]
         /\ pen' = pen \/ \E b \in Book : Save(p, "contacts", b)
<1> DEFINE x == [proc[p] EXCEPT !.pc = "ready"]
<1>1. proc[p] \in ProcState /\ proc[p].node \in Node /\ proc[p].code \in Code
  BY ProcFacts DEF Upsert, Typed
<1>2. proc' = [proc EXCEPT ![p] = x]
  BY DEF Upsert
<1>3. x \in ProcState /\ x.pc = "ready" /\ x.node = proc[p].node /\ x.config = proc[p].config
      /\ x.base = proc[p].base
  BY <1>1 DEF ProcState
<1>4. excuse' \in ExcuseState /\ excuse' = [excuse EXCEPT !.dropped = excuse'.dropped]
  <2> DEFINE others == {q \in Process : Writing(q, "contacts")}
             D == {proc[q].code : q \in others \cup {p}}
  <2>1. excuse \in ExcuseState /\ D \in SUBSET (Code \cup {None})
    BY DEF Typed, ProcState
  <2> DEFINE Fits(e) == e \in ExcuseState /\ e = [excuse EXCEPT !.dropped = e.dropped]
  <2>2. ASSUME NEW E \in SUBSET (Code \cup {None})
        PROVE  Fits([excuse EXCEPT !.dropped = @ \cup E])
    BY <2>1 DEF ExcuseState
  <2>3. Fits(excuse) /\ Fits([excuse EXCEPT !.dropped = @ \cup D])
        /\ Fits([excuse EXCEPT !.dropped = @ \cup {proc[p].code}])
    <3>1. Fits(excuse)
      BY <2>1 DEF ExcuseState
    <3>2. {proc[p].code} \in SUBSET (Code \cup {None})
      BY <1>1
    <3> HIDE DEF Fits, D
    <3> QED BY <2>1, <2>2, <3>1, <3>2
  <2>4. \/ excuse' = excuse
        \/ excuse' = [excuse EXCEPT !.dropped = @ \cup D]
        \/ excuse' = [excuse EXCEPT !.dropped = @ \cup {proc[p].code}]
    BY DEF Upsert
  <2>5. Fits(excuse')
    <3> HIDE DEF Fits, D
    <3> QED BY <2>3, <2>4
  <2> QED BY <2>5
<1>5. pen' = pen \/ \E b \in Book : Save(p, "contacts", b)
  <2>1. CASE Parses("contacts")
    <3>1. Contacts \in Book
      <4>1. [c \in {} |-> 1] \in Book
        BY DEF Book
      <4> QED BY <2>1, <4>1, TextFacts DEF Contacts, Parses, Typed, FileState, FileName
    <3>2. DOMAIN Contacts \cup {proc[p].code} \in SUBSET Code /\ \A c \in DOMAIN Contacts : Contacts[c] \in Node
      BY <1>1, <3>1, BookFacts
    <3>3. Upserted(p) \in [DOMAIN Contacts \cup {proc[p].code} -> Node]
      BY <1>1, <3>2 DEF Upserted
    <3>4. Upserted(p) \in Book
      BY <3>2, <3>3, BookFacts
    <3> QED BY <2>1, <3>4 DEF Upsert
  <2>2. CASE ~Parses("contacts")
    BY <2>2 DEF Upsert
  <2> QED BY <2>1, <2>2
<1> QED BY <1>1, <1>2, <1>3, <1>4, <1>5, ProcFacts

LEMMA StopFacts ==
  ASSUME Typed, NEW p \in Process, proc' = [proc EXCEPT ![p] = Off]
  PROVE  /\ proc' \in [Process -> ProcState] /\ \A q \in Process \ {p} : proc'[q] = proc[q]
         /\ proc'[p] = Off
BY OffFacts, ProcFacts

LEMMA CrashFacts ==
  ASSUME Typed, NEW p \in Process, Crash(p)
  PROVE  /\ proc' = [proc EXCEPT ![p] = Off]
         /\ pen' \in [Process -> Page \cup {None}] /\ pen'[p] = None
         /\ \A q \in Process \ {p} : pen'[q] = pen[q]
         /\ excuse' \in ExcuseState
         /\ excuse'.torn = excuse.torn \cup {f \in FileName : HasOpen(p, f)}
         /\ excuse'.abandoned = excuse.abandoned \cup
              {n \in Node : Writing(p, "identity") /\ proc[p].node = n}
         /\ excuse'.overlap = excuse.overlap /\ excuse'.allowed = excuse.allowed
BY DEF Crash, Typed, ExcuseState

\* Which file a process writes, once it has saved something.
LEMMA SaveInto ==
  ASSUME Typed, NEW p \in Process, NEW f \in FileName, NEW t \in Text[f], Save(p, f, t)
  PROVE  /\ Writing(p, f)' /\ ~Free(p)' /\ ~pen'[p].open /\ pen'[p].text = t
         /\ \A g \in FileName : ~HasOpen(p, g)' /\ (Writing(p, g)' => g = f)
         /\ \A q \in Process \ {p} : \A g \in FileName :
              (HasOpen(q, g)' <=> HasOpen(q, g)) /\ (Writing(q, g)' <=> Writing(q, g))
<1>1. pen'[p].into = f /\ pen'[p].text = t /\ ~pen'[p].open /\ pen'[p] \in Page
  BY SaveTyped
<1>2. pen'[p] # None
  BY <1>1, PageFacts
<1>3. \A q \in Process \ {p} : pen'[q] = pen[q]
  BY SaveTyped
<1> QED BY <1>1, <1>2, <1>3 DEF Writing, HasOpen, Free

LEMMA TypedStep == Typed /\ [Next]_vars => Typed'
<1> SUFFICES ASSUME Typed, [Next]_vars PROVE Typed'
  OBVIOUS
<1> DEFINE Placed(q) == /\ proc[q].pc \in {"ready", "upsert"} => proc[q].node \in Node
                        /\ proc[q].pc = "upsert" => proc[q].code \in Code
<1>1. ASSUME NEW p \in Process, NEW f \in FileName, Open(p, f) PROVE Typed'
  <2>1. Emptied(f) \in FileState(f)
    BY DEF Emptied, FileState
  <2>2. excuse' \in ExcuseState
    BY <1>1 DEF Open, Typed, ExcuseState
  <2> QED BY <1>1, <2>1, <2>2, OpenFacts DEF Open, Typed, relay
<1>2. ASSUME NEW p \in Process, NEW f \in FileName, Write(p, f) PROVE Typed'
  <2>1. file'[f] \in FileState(f)
    BY <1>2, WriteFacts, WrittenFacts
  <2> QED BY <1>2, <2>1, WriteFacts DEF Write, Typed, relay
<1>3. ASSUME NEW p \in Process, NEW o \in Policy \cup {None}, Start(p, o) PROVE Typed'
  <2>1. pen' \in [Process -> Page \cup {None}]
    <3>1. With(Loaded, o) \in Text["config"]
      BY <1>3, LoadedFacts, ConfigFacts, TextFacts DEF Start
    <3> QED BY <1>3, <3>1, SaveTyped DEF Start, Typed, FileName
  <2>2. \A q \in Process : Placed(q)'
    BY <1>3, StartFacts DEF Typed
  <2>3. excuse' \in ExcuseState
    BY <1>3, ExcuseFacts DEF Start
  <2> QED BY <1>3, <2>1, <2>2, <2>3, StartFacts DEF Start, Typed, relay
<1>4. ASSUME NEW p \in Process, NEW o \in Policy \cup {None}, Setup(p, o) PROVE Typed'
  <2>1. pen' \in [Process -> Page \cup {None}]
    <3>1. With(proc[p].config, o) \in Text["config"]
      BY ProcFacts, ConfigFacts, TextFacts DEF ProcState
    <3> QED BY <1>4, <3>1, SaveTyped DEF Setup, FileName
  <2>2. \A q \in Process : Placed(q)'
    BY <1>4, SetupFacts DEF Typed
  <2>3. excuse' \in ExcuseState
    BY <1>4, ExcuseFacts DEF Setup
  <2> QED BY <1>4, <2>1, <2>2, <2>3, SetupFacts DEF Setup, Typed, relay
<1>5. ASSUME NEW p \in Process, NEW http \in BOOLEAN, NEW https \in BOOLEAN,
             Resolve(p, http, https)
      PROVE  Typed'
  <2>1. pen' \in [Process -> Page \cup {None}]
    <3>1. ASSUME NEW c \in Config, Save(p, "config", c) PROVE pen' \in [Process -> Page \cup {None}]
      <4>1. c \in Text["config"] /\ "config" \in FileName
        BY TextFacts DEF FileName
      <4> QED BY <3>1, <4>1, SaveTyped
    <3> QED BY <1>5, <3>1, ResolveFacts DEF Typed
  <2>2. \A q \in Process : Placed(q)'
    BY <1>5, ResolveFacts DEF Typed, Off
  <2> QED BY <1>5, <2>1, <2>2, ResolveFacts DEF Resolve, Typed, relay
<1>6. ASSUME NEW p \in Process, LoadIdentity(p) PROVE Typed'
  <2>1. \A q \in Process : Placed(q)'
    BY <1>6, LoadFacts DEF Typed, Off
  <2>2. excuse' \in ExcuseState
    BY <1>6 DEF LoadIdentity, Typed, ExcuseState
  <2> QED BY <1>6, <2>1, <2>2, LoadFacts DEF LoadIdentity, Typed, relay
<1>7. ASSUME NEW p \in Process, Register(p) PROVE Typed'
  <2>1. pen' \in [Process -> Page \cup {None}]
    BY <1>7, RegisterFacts, SaveTyped, TextFacts DEF Typed, FileName
  <2>2. \A q \in Process : Placed(q)'
    BY <1>7, RegisterFacts DEF Typed, Off
  <2>3. excuse' \in ExcuseState
    BY <1>7, RegisterFacts DEF Typed, ExcuseState
  <2>4. nodes' \in 0 .. MaxNodes
    BY <1>7, RegisterFacts, StateAssumption DEF Node
  <2> QED BY <1>7, <2>1, <2>2, <2>3, <2>4, RegisterFacts DEF Register, Typed
<1>8. ASSUME NEW p \in Process, NEW c \in Code, Redeem(p, c) PROVE Typed'
  <2>1. \A q \in Process : Placed(q)'
    BY <1>8, RedeemFacts DEF Typed
  <2> QED BY <1>8, <2>1, RedeemFacts DEF Redeem, Typed
<1>9. ASSUME NEW p \in Process, Upsert(p) PROVE Typed'
  <2>1. pen' \in [Process -> Page \cup {None}]
    BY <1>9, UpsertFacts, SaveTyped, TextFacts DEF Typed, FileName
  <2>2. \A q \in Process : Placed(q)'
    BY <1>9, UpsertFacts DEF Typed
  <2> QED BY <1>9, <2>1, <2>2, UpsertFacts DEF Upsert, Typed, relay
<1>10. ASSUME NEW p \in Process, Stop(p) PROVE Typed'
  <2>1. \A q \in Process : Placed(q)'
    BY <1>10, StopFacts DEF Stop, Typed, Off
  <2> QED BY <1>10, <2>1, StopFacts DEF Stop, Typed, relay
<1>11. ASSUME NEW p \in Process, Crash(p) PROVE Typed'
  <2>1. \A q \in Process : Placed(q)'
    BY <1>11, CrashFacts, StopFacts DEF Typed, Off
  <2> QED BY <1>11, <2>1, CrashFacts, StopFacts DEF Crash, Typed, relay
<1>12. CASE UNCHANGED vars
  BY <1>12 DEF vars, Typed, relay
<1> QED
  BY <1>1, <1>2, <1>3, <1>4, <1>5, <1>6, <1>7, <1>8, <1>9, <1>10, <1>11, <1>12 DEF Next

----------------------------------------------------------------------------
(* HTTP.  A configuration that leads to it has a reason wherever it is.    *)

Excused == site.local \/ excuse.allowed
OpensHttp(c) == c.remembered \/ c.policy = "allow_http"

HttpInv ==
  /\ \A p \in Process : (OpensHttp(proc[p].config) => Excused) /\ (proc[p].base = "http" => Excused)
  /\ \A p \in Process : pen[p] # None /\ pen[p].into = "config" => (OpensHttp(pen[p].text) => Excused)
  /\ file["config"].text \in Config => (OpensHttp(file["config"].text) => Excused)

\* Reasons stay.
LEMMA ExcusedKept == Typed /\ [Next]_vars => site' = site /\ (excuse.allowed => excuse'.allowed)
<1> SUFFICES ASSUME Typed, [Next]_vars PROVE site' = site /\ (excuse.allowed => excuse'.allowed)
  OBVIOUS
<1>1. site' = site
  <2>1. ASSUME NEW p \in Process, NEW f \in FileName, Open(p, f) \/ Write(p, f) PROVE site' = site
    BY <2>1 DEF Open, Write
  <2>2. ASSUME NEW p \in Process, NEW o \in Policy \cup {None}, Start(p, o) \/ Setup(p, o)
        PROVE  site' = site
    BY <2>2 DEF Start, Setup
  <2>3. ASSUME NEW p \in Process, \E http, https \in BOOLEAN : Resolve(p, http, https)
        PROVE  site' = site
    BY <2>3 DEF Resolve
  <2>4. ASSUME NEW p \in Process, LoadIdentity(p) \/ Register(p) PROVE site' = site
    BY <2>4 DEF LoadIdentity, Register
  <2>5. ASSUME NEW p \in Process, (\E c \in Code : Redeem(p, c)) \/ Upsert(p) PROVE site' = site
    BY <2>5 DEF Redeem, Upsert
  <2>6. ASSUME NEW p \in Process, Stop(p) \/ Crash(p) PROVE site' = site
    BY <2>6 DEF Stop, Crash
  <2> QED BY <2>1, <2>2, <2>3, <2>4, <2>5, <2>6 DEF Next, vars
<1>2. ASSUME NEW p \in Process, NEW f \in FileName, Open(p, f) PROVE excuse'.allowed = excuse.allowed
  BY <1>2 DEF Open, Typed, ExcuseState
<1>3. ASSUME NEW p \in Process, NEW o \in Policy \cup {None}, Start(p, o) \/ Setup(p, o)
      PROVE  excuse.allowed => excuse'.allowed
  BY <1>3, ExcuseFacts DEF Start, Setup
<1>4. ASSUME NEW p \in Process, LoadIdentity(p) PROVE excuse'.allowed = excuse.allowed
  BY <1>4 DEF LoadIdentity, Typed, ExcuseState
<1>5. ASSUME NEW p \in Process, Register(p) PROVE excuse'.allowed = excuse.allowed
  BY <1>5, RegisterFacts DEF Typed, ExcuseState
<1>6. ASSUME NEW p \in Process, NEW c \in Code, Redeem(p, c) PROVE excuse'.allowed = excuse.allowed
  BY <1>6, RedeemFacts DEF Typed, ExcuseState
<1>7. ASSUME NEW p \in Process, Upsert(p) PROVE excuse'.allowed = excuse.allowed
  BY <1>7, UpsertFacts DEF Typed, ExcuseState
<1>8. ASSUME NEW p \in Process, Crash(p) PROVE excuse'.allowed = excuse.allowed
  BY <1>8, CrashFacts
<1>9. ASSUME UNCHANGED excuse PROVE excuse'.allowed = excuse.allowed
  BY <1>9
<1> QED
  BY <1>1, <1>2, <1>3, <1>4, <1>5, <1>6, <1>7, <1>8, <1>9
  DEF Next, vars, Write, Resolve, Stop

\* A step that trusts what it puts into one process and its pen.
LEMMA HttpKept ==
  ASSUME Typed, HttpInv, Typed', site' = site, excuse.allowed => excuse'.allowed,
         NEW p \in Process, \A q \in Process \ {p} : proc'[q] = proc[q] /\ pen'[q] = pen[q],
         file' = file, (OpensHttp(proc'[p].config) => Excused'), proc'[p].base = "http" => Excused',
         pen'[p] # None /\ pen'[p].into = "config" => (OpensHttp(pen'[p].text) => Excused')
  PROVE  HttpInv'
BY DEF HttpInv, OpensHttp, Excused

LEMMA SavedTrust ==
  ASSUME Typed, NEW p \in Process, NEW f \in FileName, NEW t \in Text[f], Save(p, f, t),
         f = "config" => (OpensHttp(t) => Excused')
  PROVE  /\ pen'[p] # None /\ pen'[p].into = "config" => (OpensHttp(pen'[p].text) => Excused')
         /\ \A q \in Process \ {p} : pen'[q] = pen[q]
<1>1. pen'[p].into = f /\ pen'[p].text = t
  BY SaveTyped
<1> QED BY <1>1, SaveTyped

LEMMA HttpStep == Typed /\ HttpInv /\ Typed' /\ [Next]_vars => HttpInv'
<1> SUFFICES ASSUME Typed, HttpInv, Typed', [Next]_vars PROVE HttpInv'
  OBVIOUS
<1>0. /\ site' = site /\ (excuse.allowed => excuse'.allowed)
      /\ "config" \in FileName /\ "identity" \in FileName /\ "contacts" \in FileName
  BY ExcusedKept DEF FileName
<1>1. ASSUME NEW p \in Process, NEW f \in FileName, Open(p, f) PROVE HttpInv'
  <2>1. \A q \in Process : proc'[q] = proc[q]
    BY <1>1 DEF Open
  <2>2. \A q \in Process : pen'[q] # None => /\ pen[q] # None /\ pen'[q].into = pen[q].into
                                            /\ pen'[q].text = pen[q].text
    BY <1>1, OpenFacts, PageFacts
  <2>3. file'["config"].text \in Config => file'["config"] = file["config"]
    BY <1>0, <1>1, OpenFacts, TextFacts DEF Emptied
  <2> QED BY <1>0, <2>1, <2>2, <2>3 DEF HttpInv, OpensHttp, Excused
<1>2. ASSUME NEW p \in Process, NEW f \in FileName, Write(p, f) PROVE HttpInv'
  <2>1. \A q \in Process : proc'[q] = proc[q]
    BY <1>2 DEF Write
  <2>2. \A q \in Process : pen'[q] # None => pen'[q] = pen[q]
    BY <1>2, WriteFacts
  <2>3. file'["config"].text \in Config =>
          \/ file'["config"] = file["config"]
          \/ f = "config" /\ file'["config"].text = pen[p].text
    BY <1>0, <1>2, WriteFacts, WrittenFacts, TextFacts
  <2>4. pen[p] # None /\ pen[p].into = f
    BY <1>2, WriteFacts, PageFacts
  <2> QED BY <1>0, <2>1, <2>2, <2>3, <2>4 DEF HttpInv, OpensHttp, Excused
<1>3. ASSUME NEW p \in Process, NEW o \in Policy \cup {None}, Start(p, o) PROVE HttpInv'
  <2>1. Loaded \in Config /\ (OpensHttp(Loaded) => Excused)
    <3>1. Loaded \in Config
      BY <1>3, LoadedFacts DEF Start
    <3> QED BY <3>1, ConfigFacts DEF Loaded, HttpInv, OpensHttp
  <2>2. excuse'.allowed = (excuse.allowed \/ o = "allow_http")
    BY <1>3, ExcuseFacts DEF Start
  <2>3. With(Loaded, o) \in Config /\ (OpensHttp(With(Loaded, o)) => Excused')
    <3>1. /\ With(Loaded, o) \in Config /\ With(Loaded, o).remembered = Loaded.remembered
          /\ With(Loaded, o).policy = IF o = None THEN Loaded.policy ELSE o
      BY <2>1, ConfigFacts
    <3>2. OpensHttp(With(Loaded, o)) => OpensHttp(Loaded) \/ o = "allow_http"
      BY <3>1 DEF OpensHttp
    <3> QED BY <1>0, <2>1, <2>2, <3>1, <3>2 DEF Excused
  <2>4. /\ pen'[p] # None /\ pen'[p].into = "config" => (OpensHttp(pen'[p].text) => Excused')
        /\ \A q \in Process \ {p} : pen'[q] = pen[q]
    <3>1. CASE o = None
      <4>1. pen' = pen
        BY <1>3, <3>1 DEF Start
      <4> QED BY <1>0, <4>1 DEF HttpInv, OpensHttp, Excused
    <3>2. CASE o # None
      <4>1. Save(p, "config", With(Loaded, o)) /\ With(Loaded, o) \in Text["config"]
        BY <1>3, <2>3, <3>2, TextFacts DEF Start
      <4> QED BY <1>0, <2>3, <4>1, SavedTrust
    <3> QED BY <3>1, <3>2
  <2>5. proc'[p].config = With(Loaded, o) /\ proc'[p].base = proc[p].base /\ file' = file
    BY <1>3, StartFacts DEF Start
  <2>6. proc'[p].base = "http" => Excused'
    BY <1>0, <2>5 DEF HttpInv, Excused
  <2> QED BY <1>0, <1>3, <2>3, <2>4, <2>5, <2>6, StartFacts, HttpKept
<1>4. ASSUME NEW p \in Process, NEW o \in Policy \cup {None}, Setup(p, o) PROVE HttpInv'
  <2>1. proc[p].config \in Config /\ (OpensHttp(proc[p].config) => Excused)
    BY ProcFacts DEF HttpInv, ProcState
  <2>2. excuse'.allowed = (excuse.allowed \/ o = "allow_http")
    BY <1>4, ExcuseFacts DEF Setup
  <2>3. With(proc[p].config, o) \in Config /\ (OpensHttp(With(proc[p].config, o)) => Excused')
    <3>1. /\ With(proc[p].config, o) \in Config /\ With(proc[p].config, o).remembered = proc[p].config.remembered
          /\ With(proc[p].config, o).policy = IF o = None THEN proc[p].config.policy ELSE o
      BY <2>1, ConfigFacts
    <3>2. OpensHttp(With(proc[p].config, o)) => OpensHttp(proc[p].config) \/ o = "allow_http"
      BY <3>1 DEF OpensHttp
    <3> QED BY <1>0, <2>1, <2>2, <3>1, <3>2 DEF Excused
  <2>4. Save(p, "config", With(proc[p].config, o)) /\ With(proc[p].config, o) \in Text["config"]
    BY <1>4, <2>3, TextFacts DEF Setup
  <2>5. /\ pen'[p] # None /\ pen'[p].into = "config" => (OpensHttp(pen'[p].text) => Excused')
        /\ \A q \in Process \ {p} : pen'[q] = pen[q]
    BY <1>0, <2>3, <2>4, SavedTrust
  <2>6. /\ proc'[p].config = With(proc[p].config, o) /\ file' = file
        /\ proc'[p].base = "http" => Excused'
    BY <1>4, SetupFacts, StateAssumption DEF Setup
  <2> QED BY <1>0, <1>4, <2>3, <2>5, <2>6, SetupFacts, HttpKept
<1>5. ASSUME NEW p \in Process, NEW http \in BOOLEAN, NEW https \in BOOLEAN,
             Resolve(p, http, https)
      PROVE  HttpInv'
  <2>1. proc[p].config \in Config /\ (OpensHttp(proc[p].config) => Excused) /\ file' = file /\ excuse' = excuse
    BY <1>5, ProcFacts DEF HttpInv, ProcState, Resolve
  <2>2. CASE proc'[p] = Off /\ pen' = pen
    <3>1. (OpensHttp(proc'[p].config) => Excused') /\ proc'[p].base # "http"
      BY <2>2, ConfigFacts, StateAssumption DEF Off, OpensHttp
    <3>2. pen'[p] # None /\ pen'[p].into = "config" => (OpensHttp(pen'[p].text) => Excused')
      BY <1>0, <2>2 DEF HttpInv, OpensHttp, Excused
    <3> QED BY <1>0, <1>5, <2>1, <2>2, <3>1, <3>2, ResolveFacts, HttpKept
  <2>3. ASSUME NEW base \in {"http", "https"}, NEW c \in Config,
               base = Chosen(proc[p].config, http, https),
               c = [proc[p].config EXCEPT !.remembered = @ \/ base = "http"],
               proc'[p].config = c, proc'[p].base = base, Save(p, "config", c)
        PROVE  HttpInv'
    <3>1. c.policy = proc[p].config.policy /\ c.remembered = (proc[p].config.remembered \/ base = "http")
      BY <2>1, <2>3 DEF Config
    <3>2. base = "http" => Excused
      <4>1. base = "http" => Effective(proc[p].config) = "allow_http" \/ HttpTolerated(proc[p].config)
        BY <2>3, StateAssumption DEF Chosen
      <4> QED BY <2>1, <4>1 DEF Effective, HttpTolerated, OpensHttp, Excused
    <3>3. (OpensHttp(c) => Excused') /\ (proc'[p].base = "http" => Excused')
      BY <1>0, <2>1, <2>3, <3>1, <3>2 DEF OpensHttp, Excused
    <3>4. /\ pen'[p] # None /\ pen'[p].into = "config" => (OpensHttp(pen'[p].text) => Excused')
          /\ \A q \in Process \ {p} : pen'[q] = pen[q]
      BY <1>0, <2>3, <3>3, SavedTrust, TextFacts
    <3> QED BY <1>0, <1>5, <2>1, <2>3, <3>3, <3>4, ResolveFacts, HttpKept
  <2> QED BY <1>5, <2>2, <2>3, ResolveFacts
<1> DEFINE Quiet(p) == /\ \A q \in Process \ {p} : proc'[q] = proc[q] /\ pen'[q] = pen[q]
                       /\ file' = file
                       /\ \/ proc'[p] = Off
                          \/ proc'[p].config = proc[p].config /\ proc'[p].base = proc[p].base
                       /\ \/ pen'[p] = pen[p] \/ pen'[p] = None
                          \/ \E f \in {"identity", "contacts"} : \E t \in Text[f] : Save(p, f, t)
<1>6. ASSUME NEW p \in Process, Quiet(p) PROVE HttpInv'
  <2>1. (OpensHttp(proc'[p].config) => Excused') /\ (proc'[p].base = "http" => Excused')
    <3>1. CASE proc'[p] = Off
      BY <3>1, ConfigFacts, StateAssumption DEF Off, OpensHttp
    <3>2. CASE proc'[p].config = proc[p].config /\ proc'[p].base = proc[p].base
      BY <1>0, <3>2 DEF HttpInv, OpensHttp, Excused
    <3> QED BY <1>6, <3>1, <3>2
  <2>2. pen'[p] # None /\ pen'[p].into = "config" => (OpensHttp(pen'[p].text) => Excused')
    <3>1. CASE pen'[p] = pen[p] \/ pen'[p] = None
      BY <1>0, <3>1 DEF HttpInv, OpensHttp, Excused
    <3>2. ASSUME NEW f \in {"identity", "contacts"}, NEW t \in Text[f], Save(p, f, t)
          PROVE  pen'[p] # None /\ pen'[p].into = "config" => (OpensHttp(pen'[p].text) => Excused')
      BY <1>0, <3>2, SavedTrust
    <3> QED BY <1>6, <3>1, <3>2
  <2> QED BY <1>0, <1>6, <2>1, <2>2, HttpKept
<1>7. ASSUME NEW p \in Process, LoadIdentity(p) PROVE HttpInv'
  BY <1>6, <1>7, LoadFacts DEF LoadIdentity
<1>8. ASSUME NEW p \in Process, Register(p) PROVE HttpInv'
  <2>1. nodes' \in Text["identity"] /\ \A q \in Process \ {p} : proc'[q] = proc[q]
    BY <1>8, RegisterFacts, TextFacts
  <2>2. file' = file /\ \A q \in Process \ {p} : pen'[q] = pen[q]
    BY <1>0, <1>8, <2>1, RegisterFacts, SaveTyped DEF Register
  <2> QED BY <1>6, <1>8, <2>1, <2>2, RegisterFacts
<1>9. ASSUME NEW p \in Process, NEW c \in Code, Redeem(p, c) PROVE HttpInv'
  BY <1>6, <1>9, RedeemFacts DEF Redeem
<1>10. ASSUME NEW p \in Process, Upsert(p) PROVE HttpInv'
  <2>1. file' = file /\ \A q \in Process \ {p} : pen'[q] = pen[q]
    BY <1>0, <1>10, UpsertFacts, SaveTyped, TextFacts DEF Upsert
  <2> QED BY <1>6, <1>10, <2>1, UpsertFacts, TextFacts
<1>11. ASSUME NEW p \in Process, Stop(p) PROVE HttpInv'
  BY <1>6, <1>11, StopFacts DEF Stop
<1>12. ASSUME NEW p \in Process, Crash(p) PROVE HttpInv'
  BY <1>6, <1>12, CrashFacts, StopFacts DEF Crash
<1>13. CASE UNCHANGED vars
  BY <1>13 DEF vars, HttpInv, OpensHttp, Excused
<1> QED
  BY <1>1, <1>2, <1>3, <1>4, <1>5, <1>7, <1>8, <1>9, <1>10, <1>11, <1>12, <1>13 DEF Next

LEMMA HttpInit == Init => HttpInv
BY ConfigFacts, StateAssumption, TextFacts DEF Init, Off, HttpInv, OpensHttp, FileName

\* Whatever processes run, are interrupted or tear files: a base URL is HTTP
\* only if the host is local or a user has once chosen allow_http.
THEOREM HttpExplained == Spec => []HttpForAReason
<1>1. Init => Typed /\ HttpInv
  BY InitTyped, HttpInit
<1>2. Typed /\ HttpInv /\ [Next]_vars => (Typed /\ HttpInv)'
  BY TypedStep, HttpStep
<1>3. HttpInv => HttpForAReason
  BY DEF HttpInv, HttpForAReason, Excused
<1> QED BY <1>1, <1>2, <1>3, PTL DEF Spec

----------------------------------------------------------------------------
(* Files.  A file that was not torn is empty while a process has it open,  *)
(* and only one has.                                                       *)

FilesInv ==
  \A f \in FileName :
    /\ file[f].text = Broken => f \in excuse.torn \/ \E p \in Process : HasOpen(p, f)
    /\ f \notin excuse.torn =>
         \A p \in Process : HasOpen(p, f) =>
           file[f].length = 0 /\ \A q \in Process : HasOpen(q, f) => q = p

\* Steps that neither open nor write a file.
LEMMA FilesKept ==
  ASSUME FilesInv, file' = file, excuse'.torn = excuse.torn,
         \A p \in Process, f \in FileName : HasOpen(p, f)' <=> HasOpen(p, f)
  PROVE  FilesInv'
BY DEF FilesInv

\* Saving is neither: it requires a free pen, or takes the pen of a process
\* that has nothing open.
LEMMA SaveOpensNothing ==
  ASSUME Typed, NEW p \in Process, Free(p), NEW g \in FileName, NEW t \in Text[g], Save(p, g, t)
  PROVE  \A q \in Process, f \in FileName : HasOpen(q, f)' <=> HasOpen(q, f)
<1>1. \A f \in FileName : ~HasOpen(p, f)
  BY DEF Free, HasOpen, Writing
<1> QED BY <1>1, SaveInto

\* A process that is off, or registers, has nothing in hand.
FreeInv == \A p \in Process : proc[p].pc \in {"off", "register"} => Free(p)

LEMMA FreeKept ==
  ASSUME FreeInv, NEW p \in Process,
         \A q \in Process \ {p} : proc'[q] = proc[q] /\ pen'[q] = pen[q],
         proc'[p].pc \in {"off", "register"} => pen'[p] = None
  PROVE  FreeInv'
BY DEF FreeInv, Free

LEMMA FreeStep == Typed /\ FreeInv /\ [Next]_vars => FreeInv'
<1> SUFFICES ASSUME Typed, FreeInv, [Next]_vars PROVE FreeInv'
  OBVIOUS
<1>1. ASSUME NEW p \in Process, NEW f \in FileName, Open(p, f) PROVE FreeInv'
  <2>1. pen[p] # None /\ proc' = proc
    <3>1. pen[p] \in Page
      BY <1>1, OpenFacts
    <3> QED BY <1>1, <3>1, PageFacts DEF Open
  <2>2. proc[p].pc \notin {"off", "register"}
    BY <2>1 DEF FreeInv, Free
  <2> QED BY <1>1, <2>1, <2>2, OpenFacts, FreeKept
<1>2. ASSUME NEW p \in Process, NEW f \in FileName, Write(p, f) PROVE FreeInv'
  BY <1>2, WriteFacts, FreeKept DEF Write
<1>3. ASSUME NEW p \in Process, NEW o \in Policy \cup {None}, Start(p, o) PROVE FreeInv'
  <2>1. \A q \in Process \ {p} : pen'[q] = pen[q]
    BY <1>3 DEF Start, Save, Typed
  <2> QED BY <1>3, <2>1, StartFacts, FreeKept
<1>4. ASSUME NEW p \in Process, NEW o \in Policy \cup {None}, Setup(p, o) PROVE FreeInv'
  <2>1. \A q \in Process \ {p} : pen'[q] = pen[q]
    BY <1>4 DEF Setup, Save, Typed
  <2> QED BY <1>4, <2>1, SetupFacts, FreeKept
<1>5. ASSUME NEW p \in Process, NEW http \in BOOLEAN, NEW https \in BOOLEAN,
             Resolve(p, http, https)
      PROVE  FreeInv'
  <2>1. \A q \in Process \ {p} : pen'[q] = pen[q]
    BY <1>5, ResolveFacts DEF Save, Typed
  <2>2. proc'[p].pc = "off" => pen'[p] = None
    BY <1>5, ResolveFacts DEF Resolve, Free
  <2>3. proc'[p].pc # "register"
    BY <1>5, ResolveFacts DEF Off
  <2> QED BY <1>5, <2>1, <2>2, <2>3, ResolveFacts, FreeKept
<1>6. ASSUME NEW p \in Process, LoadIdentity(p) PROVE FreeInv'
  BY <1>6, LoadFacts, FreeKept DEF LoadIdentity, Free
<1>7. ASSUME NEW p \in Process, Register(p) PROVE FreeInv'
  <2>1. pen[p] = None
    BY <1>7 DEF Register, FreeInv, Free
  <2>2. \A q \in Process \ {p} : pen'[q] = pen[q]
    BY <1>7, RegisterFacts DEF Save, Typed
  <2>3. proc'[p].pc \in {"off", "register"} => pen'[p] = None
    BY <1>7, <2>1, RegisterFacts
  <2> QED BY <1>7, <2>2, <2>3, RegisterFacts, FreeKept
<1>8. ASSUME NEW p \in Process, NEW c \in Code, Redeem(p, c) PROVE FreeInv'
  BY <1>8, RedeemFacts, FreeKept DEF Redeem
<1>9. ASSUME NEW p \in Process, Upsert(p) PROVE FreeInv'
  <2>1. \A q \in Process \ {p} : pen'[q] = pen[q]
    BY <1>9, UpsertFacts DEF Save, Typed
  <2> QED BY <1>9, <2>1, UpsertFacts, FreeKept
<1>10. ASSUME NEW p \in Process, Stop(p) PROVE FreeInv'
  BY <1>10, StopFacts, FreeKept DEF Stop, Free
<1>11. ASSUME NEW p \in Process, Crash(p) PROVE FreeInv'
  BY <1>11, CrashFacts, StopFacts, FreeKept
<1>12. CASE UNCHANGED vars
  BY <1>12 DEF vars, FreeInv, Free
<1> QED
  BY <1>1, <1>2, <1>3, <1>4, <1>5, <1>6, <1>7, <1>8, <1>9, <1>10, <1>11, <1>12 DEF Next

LEMMA FilesStep == Typed /\ FreeInv /\ FilesInv /\ [Next]_vars => FilesInv'
<1> SUFFICES ASSUME Typed, FreeInv, FilesInv, [Next]_vars PROVE FilesInv'
  OBVIOUS
<1>0. "config" \in FileName /\ "identity" \in FileName /\ "contacts" \in FileName
  BY DEF FileName
<1> DEFINE HeldOpen == \A q \in Process, g \in FileName : HasOpen(q, g)' <=> HasOpen(q, g)
<1>1. ASSUME NEW p \in Process, NEW f \in FileName, Open(p, f) PROVE FilesInv'
  <2>1. /\ file'[f].text = Broken /\ file'[f].length = 0
        /\ \A g \in FileName \ {f} : file'[g] = file[g]
    BY <1>1, OpenFacts DEF Emptied
  <2>2. /\ HasOpen(p, f)' /\ \A g \in FileName \ {f} : ~HasOpen(p, g)' /\ ~HasOpen(p, g)
        /\ \A q \in Process \ {p}, g \in FileName : HasOpen(q, g)' <=> HasOpen(q, g)
    <3>1. pen[p] # None /\ pen'[p] # None
      BY <1>1, OpenFacts, PageFacts
    <3> QED BY <1>1, <3>1, OpenFacts DEF HasOpen, Writing
  <2>3. /\ excuse.torn \subseteq excuse'.torn /\ excuse'.torn \subseteq excuse.torn \cup {f}
        /\ f \notin excuse'.torn => \A q \in Process : ~HasOpen(q, f)
    <3>1. CASE \E q \in Process : HasOpen(q, f)
      BY <1>1, <3>1 DEF Open, Typed, ExcuseState
    <3>2. CASE ~\E q \in Process : HasOpen(q, f)
      BY <1>1, <3>2 DEF Open
    <3> QED BY <3>1, <3>2
  <2>4. ASSUME NEW g \in FileName
        PROVE  /\ file'[g].text = Broken => g \in excuse'.torn \/ \E q \in Process : HasOpen(q, g)'
               /\ g \notin excuse'.torn =>
                    \A q \in Process : HasOpen(q, g)' =>
                      file'[g].length = 0 /\ \A r \in Process : HasOpen(r, g)' => r = q
    <3>1. CASE g = f
      BY <2>1, <2>2, <2>3, <3>1
    <3>2. CASE g # f
      <4>1. \A q \in Process : HasOpen(q, g)' <=> HasOpen(q, g)
        BY <2>2, <3>2
      <4>2. file'[g] = file[g] /\ (g \in excuse'.torn <=> g \in excuse.torn)
        BY <2>1, <2>3, <3>2
      <4> QED BY <4>1, <4>2 DEF FilesInv
    <3> QED BY <3>1, <3>2
  <2> QED BY <2>4 DEF FilesInv
<1>2. ASSUME NEW p \in Process, NEW f \in FileName, Write(p, f) PROVE FilesInv'
  <2>1. /\ HasOpen(p, f) /\ \A g \in FileName : ~HasOpen(p, g)'
        /\ \A g \in FileName \ {f} : ~HasOpen(p, g)
        /\ \A q \in Process \ {p}, g \in FileName : HasOpen(q, g)' <=> HasOpen(q, g)
    BY <1>2, WriteFacts DEF Write, HasOpen, Writing
  <2>2. /\ excuse' = excuse /\ \A g \in FileName \ {f} : file'[g] = file[g]
        /\ pen[p].text \in Text[f] /\ file'[f] = Written(f, pen[p].text)
    BY <1>2, WriteFacts DEF Write
  <2>3. f \notin excuse.torn => file'[f].text # Broken
    <3>1. f \notin excuse.torn => file[f].length = 0
      BY <2>1 DEF FilesInv
    <3>2. Length(f, pen[p].text) \in Nat
      BY <2>2, LengthTyped
    <3> QED BY <2>2, <3>1, <3>2, WrittenFacts, TextFacts
  <2>4. ASSUME NEW g \in FileName
        PROVE  /\ file'[g].text = Broken => g \in excuse.torn \/ \E q \in Process : HasOpen(q, g)'
               /\ g \notin excuse.torn =>
                    \A q \in Process : HasOpen(q, g)' =>
                      file'[g].length = 0 /\ \A r \in Process : HasOpen(r, g)' => r = q
    <3>1. CASE g = f
      <4>1. f \notin excuse.torn => \A q \in Process : ~HasOpen(q, f)'
        BY <2>1 DEF FilesInv
      <4> QED BY <2>3, <3>1, <4>1
    <3>2. CASE g # f
      <4>1. \A q \in Process : HasOpen(q, g)' <=> HasOpen(q, g)
        BY <2>1, <3>2
      <4> QED BY <2>2, <3>2, <4>1 DEF FilesInv
    <3> QED BY <3>1, <3>2
  <2> QED BY <2>2, <2>4 DEF FilesInv
<1>3. ASSUME NEW p \in Process, NEW o \in Policy \cup {None}, Start(p, o) PROVE FilesInv'
  <2>1. HeldOpen
    <3>1. CASE o = None
      BY <1>3, <3>1 DEF Start, HasOpen, Writing
    <3>2. CASE o # None
      <4>1. Free(p) /\ Save(p, "config", With(Loaded, o))
        BY <1>3, <3>2 DEF Start, FreeInv
      <4>2. With(Loaded, o) \in Text["config"]
        BY <1>3, LoadedFacts, ConfigFacts, TextFacts DEF Start
      <4> QED BY <1>0, <4>1, <4>2, SaveOpensNothing
    <3> QED BY <3>1, <3>2
  <2>2. file' = file /\ excuse'.torn = excuse.torn
    BY <1>3, ExcuseFacts DEF Start
  <2> QED BY <2>1, <2>2, FilesKept
<1>4. ASSUME NEW p \in Process, NEW o \in Policy \cup {None}, Setup(p, o) PROVE FilesInv'
  <2>1. HeldOpen
    <3>1. Free(p) /\ Save(p, "config", With(proc[p].config, o))
      BY <1>4 DEF Setup
    <3>2. With(proc[p].config, o) \in Text["config"]
      BY ProcFacts, ConfigFacts, TextFacts DEF ProcState
    <3> QED BY <1>0, <3>1, <3>2, SaveOpensNothing
  <2>2. file' = file /\ excuse'.torn = excuse.torn
    BY <1>4, ExcuseFacts DEF Setup
  <2> QED BY <2>1, <2>2, FilesKept
<1>5. ASSUME NEW p \in Process, NEW http \in BOOLEAN, NEW https \in BOOLEAN,
             Resolve(p, http, https)
      PROVE  FilesInv'
  <2>1. Free(p) /\ file' = file /\ excuse' = excuse
    BY <1>5 DEF Resolve
  <2>2. ASSUME NEW c \in Config, Save(p, "config", c) PROVE HeldOpen
    BY <1>0, <2>1, <2>2, SaveOpensNothing, TextFacts
  <2>3. ASSUME pen' = pen PROVE HeldOpen
    BY <2>3 DEF HasOpen, Writing
  <2>4. HeldOpen
    BY <1>5, <2>2, <2>3, ResolveFacts
  <2> QED BY <2>1, <2>4, FilesKept
<1>6. ASSUME NEW p \in Process, LoadIdentity(p) PROVE FilesInv'
  <2>1. file' = file /\ excuse'.torn = excuse.torn /\ HeldOpen
    BY <1>6 DEF LoadIdentity, Typed, ExcuseState, HasOpen, Writing
  <2> QED BY <2>1, FilesKept
<1>7. ASSUME NEW p \in Process, Register(p) PROVE FilesInv'
  <2>1. Free(p) /\ file' = file /\ nodes' \in Text["identity"]
    BY <1>7, RegisterFacts, TextFacts DEF Register, FreeInv
  <2>2. excuse'.torn = excuse.torn
    BY <1>7, RegisterFacts DEF Typed, ExcuseState
  <2>3. HeldOpen
    <3>1. CASE pen' = pen
      BY <3>1 DEF HasOpen, Writing
    <3>2. CASE Save(p, "identity", nodes')
      BY <1>0, <2>1, <3>2, SaveOpensNothing
    <3> QED BY <1>7, <3>1, <3>2, RegisterFacts
  <2> QED BY <2>1, <2>2, <2>3, FilesKept
<1>8. ASSUME NEW p \in Process, NEW c \in Code, Redeem(p, c) PROVE FilesInv'
  <2>1. file' = file /\ HeldOpen
    BY <1>8 DEF Redeem, HasOpen, Writing
  <2>2. excuse'.torn = excuse.torn
    BY <1>8, RedeemFacts DEF Typed, ExcuseState
  <2> QED BY <2>1, <2>2, FilesKept
<1>9. ASSUME NEW p \in Process, Upsert(p) PROVE FilesInv'
  <2>1. Free(p) /\ file' = file
    BY <1>9 DEF Upsert
  <2>2. excuse'.torn = excuse.torn
    BY <1>9, UpsertFacts DEF Typed, ExcuseState
  <2>3. HeldOpen
    <3>1. CASE pen' = pen
      BY <3>1 DEF HasOpen, Writing
    <3>2. ASSUME NEW b \in Book, Save(p, "contacts", b) PROVE HeldOpen
      BY <1>0, <2>1, <3>2, SaveOpensNothing, TextFacts
    <3> QED BY <1>9, <3>1, <3>2, UpsertFacts
  <2> QED BY <2>1, <2>2, <2>3, FilesKept
<1>10. ASSUME NEW p \in Process, Stop(p) PROVE FilesInv'
  <2>1. file' = file /\ excuse' = excuse /\ HeldOpen
    BY <1>10 DEF Stop, HasOpen, Writing
  <2> QED BY <2>1, FilesKept
<1>11. ASSUME NEW p \in Process, Crash(p) PROVE FilesInv'
  <2>1. /\ \A g \in FileName : ~HasOpen(p, g)' /\ (HasOpen(p, g) => g \in excuse'.torn)
        /\ \A q \in Process \ {p}, g \in FileName : HasOpen(q, g)' <=> HasOpen(q, g)
        /\ excuse.torn \subseteq excuse'.torn /\ file' = file
    BY <1>11, CrashFacts DEF Crash, HasOpen, Writing
  <2> QED BY <2>1 DEF FilesInv
<1>12. CASE UNCHANGED vars
  <2>1. file' = file /\ excuse' = excuse /\ HeldOpen
    BY <1>12 DEF vars, HasOpen, Writing
  <2> QED BY <2>1, FilesKept
<1> QED
  BY <1>1, <1>2, <1>3, <1>4, <1>5, <1>6, <1>7, <1>8, <1>9, <1>10, <1>11, <1>12 DEF Next

LEMMA FilesInit == Init => FreeInv /\ FilesInv
BY StateAssumption DEF Init, FreeInv, FilesInv, Free, HasOpen, Writing

\* A file that does not parse is being written now, or was torn by an
\* interruption or by two writers: no other sequence of steps breaks one.
THEOREM TearsExplained == Spec => []BrokenForAReason
<1>1. Init => Typed /\ FreeInv /\ FilesInv
  BY InitTyped, FilesInit
<1>2. Typed /\ FreeInv /\ FilesInv /\ [Next]_vars => (Typed /\ FreeInv /\ FilesInv)'
  BY TypedStep, FreeStep, FilesStep
<1>3. FilesInv => BrokenForAReason
  BY DEF FilesInv, BrokenForAReason
<1> QED BY <1>1, <1>2, <1>3, PTL DEF Spec

----------------------------------------------------------------------------
(* Identities.  At most one process is about to have one, unless two first *)
(* starts overlap, and until it is saved the file has none.                *)

Hatching(p) == proc[p].pc = "register" \/ Writing(p, "identity")

NodesInv ==
  /\ NodesAccounted
  /\ file["identity"].length \in {0, 1}
  /\ \A p \in Process : Writing(p, "identity") => pen[p].text = proc[p].node
  /\ ~excuse.overlap => \A p \in Process : Hatching(p) =>
       /\ \A q \in Process : Hatching(q) => q = p
       /\ file["identity"].text = IF HasOpen(p, "identity") THEN Broken ELSE None

\* Steps of a process that is about to have no identity.
LEMMA NodesKept ==
  ASSUME Typed, NodesInv, NEW p \in Process, nodes' = nodes,
         file'["identity"] = file["identity"],
         excuse'.abandoned = excuse.abandoned, excuse'.overlap = excuse.overlap,
         \A q \in Process \ {p} : proc'[q] = proc[q] /\ pen'[q] = pen[q],
         ~Writing(p, "identity"), ~Writing(p, "identity")', proc'[p].pc # "register"
  PROVE  NodesInv'
<1>1. \A q \in Process \ {p} : /\ Writing(q, "identity")' <=> Writing(q, "identity")
                               /\ HasOpen(q, "identity")' <=> HasOpen(q, "identity")
                               /\ Hatching(q)' <=> Hatching(q)
  BY DEF Writing, HasOpen, Hatching
<1>2. ~Hatching(p)' /\ ~HasOpen(p, "identity")'
  BY DEF Hatching, HasOpen
<1>3. NodesAccounted'
  BY <1>1 DEF NodesInv, NodesAccounted
<1> QED BY <1>1, <1>2, <1>3 DEF NodesInv

LEMMA NotWriting ==
  ASSUME NEW p \in Process, Free(p)
  PROVE  ~Writing(p, "identity") /\ ~HasOpen(p, "identity")
BY DEF Free, Writing, HasOpen

LEMMA NodeNames ==
  ASSUME Typed
  PROVE  \A n \in 1 .. nodes : n \in Node /\ n # None /\ n # Broken
<1>1. \A n \in 1 .. nodes : n \in Node
  BY StateAssumption DEF Typed, Node
<1> QED BY <1>1, TextFacts DEF FileName

\* What the steps of a file do to the other processes, and to who is about to
\* have an identity.
LEMMA OthersWrite ==
  ASSUME NEW p \in Process, proc' = proc, \A q \in Process \ {p} : pen'[q] = pen[q]
  PROVE  \A q \in Process \ {p} : /\ Writing(q, "identity")' <=> Writing(q, "identity")
                                  /\ HasOpen(q, "identity")' <=> HasOpen(q, "identity")
                                  /\ Hatching(q)' <=> Hatching(q)
BY DEF Writing, HasOpen, Hatching

LEMMA NodesOpen ==
  ASSUME Typed, NodesInv, NEW p \in Process, NEW f \in FileName, Open(p, f)
  PROVE  NodesInv'
<1>1. /\ proc' = proc /\ nodes' = nodes
      /\ excuse'.abandoned = excuse.abandoned /\ excuse'.overlap = excuse.overlap
  BY DEF Open, relay, Typed, ExcuseState
<1>2. pen[p] # None /\ pen'[p] # None
  <2>1. pen[p] \in Page /\ pen'[p] \in Page
    BY OpenFacts
  <2> QED BY <2>1, PageFacts
<1>3. /\ Writing(p, "identity") <=> f = "identity"
      /\ Writing(p, "identity")' <=> f = "identity"
      /\ HasOpen(p, "identity")' <=> f = "identity"
      /\ ~HasOpen(p, "identity")
      /\ pen'[p].text = pen[p].text
  BY <1>2, OpenFacts DEF Writing, HasOpen
<1>4. \A q \in Process \ {p} : pen'[q] = pen[q]
  BY OpenFacts
<1>5. ASSUME NEW q \in Process
      PROVE  /\ Hatching(q)' <=> Hatching(q)
             /\ Writing(q, "identity")' <=> Writing(q, "identity")
             /\ Writing(q, "identity")' => pen'[q].text = proc'[q].node
             /\ q # p \/ f # "identity" => (HasOpen(q, "identity")' <=> HasOpen(q, "identity"))
  <2>1. CASE q = p
    <3>1. Writing(p, "identity") => pen[p].text = proc[p].node
      BY DEF NodesInv
    <3> QED BY <1>1, <1>3, <2>1, <3>1 DEF Hatching, Writing, HasOpen
  <2>2. CASE q # p
    <3>1. pen'[q] = pen[q] /\ proc'[q] = proc[q]
      BY <1>1, <1>4, <2>2
    <3>2. Writing(q, "identity") => pen[q].text = proc[q].node
      BY DEF NodesInv
    <3> QED BY <3>1, <3>2 DEF Hatching, Writing, HasOpen
  <2> QED BY <2>1, <2>2
<1>6. CASE f = "identity"
  <2>1. file'["identity"].text = Broken /\ file'["identity"].length = 0
    BY <1>6, OpenFacts DEF Emptied
  <2>2. Hatching(p)
    BY <1>3, <1>6 DEF Hatching
  <2>3. NodesAccounted'
    <3> SUFFICES ASSUME NEW n \in 1 .. nodes
                 PROVE  \/ n \in excuse.abandoned \/ excuse.overlap
                        \/ \E q \in Process : Writing(q, "identity")' /\ proc[q].node = n
      BY <1>1 DEF NodesAccounted
    <3>1. ~excuse.overlap => file["identity"].text # n
      BY <1>3, <2>2, NodeNames DEF NodesInv
    <3> QED BY <1>5, <3>1 DEF NodesInv, NodesAccounted
  <2>4. ~excuse.overlap => \A q \in Process : Hatching(q)' => q = p
    BY <1>5, <2>2 DEF NodesInv
  <2> QED BY <1>1, <1>3, <1>5, <1>6, <2>1, <2>3, <2>4 DEF NodesInv
<1>7. CASE f # "identity"
  <2>1. file'["identity"] = file["identity"]
    BY <1>7, OpenFacts DEF FileName
  <2>2. NodesAccounted'
    BY <1>1, <1>5, <2>1 DEF NodesInv, NodesAccounted
  <2> QED BY <1>1, <1>5, <1>7, <2>1, <2>2 DEF NodesInv
<1> QED BY <1>6, <1>7

LEMMA NodesWrite ==
  ASSUME Typed, FreeInv, NodesInv, NEW p \in Process, NEW f \in FileName, Write(p, f)
  PROVE  NodesInv'
<1>1. proc' = proc /\ nodes' = nodes /\ excuse' = excuse
  BY DEF Write, relay
<1>2. pen[p] # None /\ pen'[p] = None
  BY WriteFacts, PageFacts
<1>3. /\ ~Writing(p, "identity")' /\ ~HasOpen(p, "identity")'
      /\ Writing(p, "identity") <=> f = "identity"
      /\ HasOpen(p, "identity") <=> f = "identity"
  BY <1>2, WriteFacts DEF Writing, HasOpen
<1>4. ~Hatching(p)'
  BY <1>1, <1>2, <1>3 DEF Hatching, FreeInv, Free
<1>5. \A q \in Process \ {p} : /\ Writing(q, "identity")' <=> Writing(q, "identity")
                               /\ HasOpen(q, "identity")' <=> HasOpen(q, "identity")
                               /\ Hatching(q)' <=> Hatching(q)
                               /\ pen'[q] = pen[q]
  BY <1>1, WriteFacts, OthersWrite
<1>6. \A q \in Process : Writing(q, "identity")' => pen'[q].text = proc'[q].node
  BY <1>1, <1>3, <1>5 DEF NodesInv
<1>7. CASE f = "identity"
  <2>1. Hatching(p) /\ pen[p].text = proc[p].node /\ pen[p].text \in Node
    BY <1>3, <1>7, WriteFacts, TextFacts DEF Hatching, NodesInv
  <2>2. file'["identity"].text = proc[p].node /\ file'["identity"].length = 1
    <3>1. Length("identity", pen[p].text) = 1
      BY DEF Length
    <3>2. 1 >= file["identity"].length
      BY DEF NodesInv
    <3>3. file'["identity"] = Written("identity", pen[p].text)
      BY <1>7, WriteFacts
    <3> QED BY <2>1, <3>1, <3>2, <3>3 DEF Written
  <2>3. ~excuse.overlap => file["identity"].text = Broken /\ \A q \in Process : Hatching(q) => q = p
    BY <1>3, <1>7, <2>1 DEF NodesInv
  <2>4. NodesAccounted'
    <3> SUFFICES ASSUME NEW n \in 1 .. nodes, ~excuse.overlap, n \notin excuse.abandoned
                 PROVE  file'["identity"].text = n
      BY <1>1 DEF NodesAccounted
    <3>1. file["identity"].text # n
      BY <2>3, NodeNames
    <3>2. PICK q \in Process : Writing(q, "identity") /\ proc[q].node = n
      BY <3>1 DEF NodesInv, NodesAccounted
    <3>3. q = p
      BY <2>3, <3>2 DEF Hatching
    <3> QED BY <2>2, <3>2, <3>3
  <2>5. ~excuse.overlap => \A q \in Process : ~Hatching(q)'
    BY <1>4, <1>5, <2>3
  <2> QED BY <1>1, <1>6, <2>2, <2>4, <2>5 DEF NodesInv
<1>8. CASE f # "identity"
  <2>1. file'["identity"] = file["identity"]
    BY <1>8, WriteFacts DEF FileName
  <2>2. \A q \in Process : /\ Writing(q, "identity")' <=> Writing(q, "identity")
                           /\ HasOpen(q, "identity")' <=> HasOpen(q, "identity")
                           /\ Hatching(q)' => Hatching(q)
    BY <1>3, <1>4, <1>5, <1>8
  <2>3. NodesAccounted'
    BY <1>1, <2>1, <2>2 DEF NodesInv, NodesAccounted
  <2> QED BY <1>1, <1>6, <2>1, <2>2, <2>3 DEF NodesInv
<1> QED BY <1>7, <1>8

LEMMA NodesLoad ==
  ASSUME Typed, NodesInv, NEW p \in Process, LoadIdentity(p)
  PROVE  NodesInv'
<1>1. /\ pen' = pen /\ nodes' = nodes /\ file' = file /\ Free(p)
      /\ \A q \in Process \ {p} : proc'[q] = proc[q] /\ pen'[q] = pen[q]
      /\ excuse'.abandoned = excuse.abandoned
  BY LoadFacts DEF LoadIdentity, relay, Typed, ExcuseState
<1>2. ~Writing(p, "identity") /\ ~HasOpen(p, "identity")
  BY <1>1, NotWriting
<1>3. ~Writing(p, "identity")' /\ ~HasOpen(p, "identity")'
  BY <1>1, <1>2 DEF Writing, HasOpen
<1>4. CASE ~NoIdentity
  <2>1. excuse' = excuse
    BY <1>4 DEF LoadIdentity
  <2>2. proc'[p].pc # "register"
    BY <1>4, LoadFacts DEF Off
  <2> QED BY <1>1, <1>2, <1>3, <2>1, <2>2, NodesKept
<1>5. CASE NoIdentity
  <2> DEFINE Overlaps == \E q \in Process \ {p} : proc[q].pc = "register" \/ Writing(q, "identity")
  <2>1. excuse'.overlap = (excuse.overlap \/ Overlaps)
    <3>1. CASE Overlaps
      BY <1>5, <3>1 DEF LoadIdentity, Typed, ExcuseState
    <3>2. CASE ~Overlaps
      <4>1. excuse' = excuse
        BY <1>5, <3>2 DEF LoadIdentity
      <4> QED BY <3>2, <4>1 DEF Typed, ExcuseState
    <3> QED BY <3>1, <3>2
  <2>2. \A q \in Process \ {p} : /\ Writing(q, "identity")' <=> Writing(q, "identity")
                                 /\ HasOpen(q, "identity")' <=> HasOpen(q, "identity")
                                 /\ Hatching(q)' <=> Hatching(q)
    BY <1>1 DEF Writing, HasOpen, Hatching
  <2>3. ~excuse'.overlap => \A q \in Process : Hatching(q)' => q = p
    BY <2>1, <2>2 DEF Hatching
  <2>4. file'["identity"].text = None
    BY <1>1, <1>5 DEF NoIdentity
  <2>5. NodesAccounted'
    BY <1>1, <1>2, <2>1, <2>2 DEF NodesInv, NodesAccounted
  <2>6. \A q \in Process : Writing(q, "identity")' => pen'[q].text = proc'[q].node
    BY <1>1, <1>2 DEF NodesInv, Writing
  <2> QED BY <1>1, <1>3, <2>3, <2>4, <2>5, <2>6 DEF NodesInv
<1> QED BY <1>4, <1>5

LEMMA NodesRegister ==
  ASSUME Typed, FreeInv, NodesInv, NEW p \in Process, Register(p)
  PROVE  NodesInv'
<1>1. /\ file' = file /\ Free(p) /\ Hatching(p) /\ nodes \in Nat /\ nodes' = nodes + 1
      /\ \A q \in Process \ {p} : proc'[q] = proc[q]
      /\ excuse'.overlap = excuse.overlap
  BY RegisterFacts DEF Register, FreeInv, Hatching, Typed, ExcuseState
<1>2. ~Writing(p, "identity") /\ ~HasOpen(p, "identity")
  BY <1>1, NotWriting
<1>3. ~excuse.overlap => file["identity"].text = None /\ \A q \in Process : Hatching(q) => q = p
  BY <1>1, <1>2 DEF NodesInv
<1>4. CASE proc'[p] = Off /\ pen' = pen /\ excuse' = [excuse EXCEPT !.abandoned = @ \cup {nodes'}]
  <2>1. excuse'.abandoned = excuse.abandoned \cup {nodes'}
    BY <1>4 DEF Typed, ExcuseState
  <2>2. \A q \in Process : /\ Writing(q, "identity")' <=> Writing(q, "identity")
                           /\ HasOpen(q, "identity")' <=> HasOpen(q, "identity")
                           /\ Hatching(q)' => Hatching(q)
    BY <1>1, <1>4 DEF Writing, HasOpen, Hatching, Off
  <2>3. ~Hatching(p)'
    BY <1>2, <1>4 DEF Hatching, Writing, Off
  <2>4. NodesAccounted'
    BY <1>1, <1>2, <2>1, <2>2 DEF NodesInv, NodesAccounted
  <2>5. \A q \in Process : Writing(q, "identity")' => pen'[q].text = proc'[q].node
    BY <1>1, <1>2, <1>4 DEF NodesInv, Writing
  <2>6. ~excuse.overlap => \A q \in Process : ~Hatching(q)'
    BY <1>3, <2>2, <2>3
  <2> QED BY <1>1, <2>4, <2>5, <2>6 DEF NodesInv
<1>5. CASE proc'[p].pc = "ready" /\ proc'[p].node = nodes' /\ Save(p, "identity", nodes') /\ excuse' = excuse
  <2>1. nodes' \in Text["identity"] /\ "identity" \in FileName
    BY RegisterFacts, TextFacts DEF FileName
  <2>2. /\ Writing(p, "identity")' /\ ~HasOpen(p, "identity")' /\ pen'[p].text = nodes'
        /\ \A q \in Process \ {p} : pen'[q] = pen[q]
    BY <1>5, <2>1, SaveInto, SaveTyped
  <2>3. \A q \in Process \ {p} : /\ Writing(q, "identity")' <=> Writing(q, "identity")
                                 /\ Hatching(q)' <=> Hatching(q)
    BY <1>1, <2>2 DEF Writing, Hatching
  <2>4. NodesAccounted'
    <3> SUFFICES ASSUME NEW n \in 1 .. nodes', ~excuse.overlap, n \notin excuse.abandoned,
                        file["identity"].text # n
                 PROVE  \E q \in Process : Writing(q, "identity")' /\ proc'[q].node = n
      BY <1>1, <1>5 DEF NodesAccounted
    <3>1. CASE n = nodes'
      BY <1>5, <2>2, <3>1
    <3>2. CASE n # nodes'
      <4>1. n \in 1 .. nodes
        BY <1>1, <3>2
      <4>2. PICK q \in Process : Writing(q, "identity") /\ proc[q].node = n
        BY <4>1 DEF NodesInv, NodesAccounted
      <4>3. q # p
        BY <1>2, <4>2
      <4> QED BY <1>1, <2>3, <4>2, <4>3
    <3> QED BY <3>1, <3>2
  <2>5. \A q \in Process : Writing(q, "identity")' => pen'[q].text = proc'[q].node
    BY <1>1, <1>5, <2>2 DEF NodesInv, Writing
  <2>6. ~excuse.overlap => \A q \in Process : Hatching(q)' => q = p
    BY <1>3, <2>3
  <2> QED BY <1>1, <1>3, <2>2, <2>4, <2>5, <2>6 DEF NodesInv
<1> QED BY <1>4, <1>5, RegisterFacts

LEMMA NodesCrash ==
  ASSUME Typed, NodesInv, NEW p \in Process, Crash(p)
  PROVE  NodesInv'
<1>1. /\ file' = file /\ nodes' = nodes /\ proc'[p] = Off /\ pen'[p] = None
      /\ \A q \in Process \ {p} : proc'[q] = proc[q] /\ pen'[q] = pen[q]
      /\ excuse'.overlap = excuse.overlap
      /\ excuse'.abandoned = excuse.abandoned \cup
           {n \in Node : Writing(p, "identity") /\ proc[p].node = n}
  BY CrashFacts, StopFacts DEF Crash, relay
<1>2. ~Writing(p, "identity")' /\ ~Hatching(p)'
  BY <1>1 DEF Writing, Hatching, Off
<1>3. \A q \in Process \ {p} : /\ Writing(q, "identity")' <=> Writing(q, "identity")
                               /\ HasOpen(q, "identity")' <=> HasOpen(q, "identity")
                               /\ Hatching(q)' <=> Hatching(q)
  BY <1>1 DEF Writing, HasOpen, Hatching
<1>4. NodesAccounted'
  <2> SUFFICES ASSUME NEW n \in 1 .. nodes, n \notin excuse'.abandoned, ~excuse.overlap,
                      file["identity"].text # n
               PROVE  \E q \in Process : Writing(q, "identity")' /\ proc'[q].node = n
    BY <1>1 DEF NodesAccounted
  <2>1. PICK q \in Process : Writing(q, "identity") /\ proc[q].node = n
    BY <1>1 DEF NodesInv, NodesAccounted
  <2>2. q # p
    BY <1>1, <2>1, NodeNames
  <2> QED BY <1>1, <1>3, <2>1, <2>2
<1>5. \A q \in Process : Writing(q, "identity")' => pen'[q].text = proc'[q].node
  BY <1>1 DEF NodesInv, Writing
<1>6. ~excuse'.overlap => \A q \in Process : Hatching(q)' =>
        /\ \A r \in Process : Hatching(r)' => r = q
        /\ file'["identity"].text = IF HasOpen(q, "identity")' THEN Broken ELSE None
  <2> SUFFICES ASSUME ~excuse.overlap, NEW q \in Process \ {p}, Hatching(q)
               PROVE  /\ \A r \in Process : Hatching(r)' => r = q
                      /\ file["identity"].text = IF HasOpen(q, "identity") THEN Broken ELSE None
    BY <1>1, <1>2, <1>3 DEF Hatching, Writing, HasOpen, Off
  <2> QED BY <1>2, <1>3 DEF NodesInv
<1> QED BY <1>1, <1>4, <1>5, <1>6 DEF NodesInv

\* A process that saves its configuration or its contacts has no identity in
\* hand, before or after.
LEMMA SavesElsewhere ==
  ASSUME Typed, NEW p \in Process, Free(p), NEW f \in {"config", "contacts"}, NEW t \in Text[f],
         Save(p, f, t)
  PROVE  /\ ~Writing(p, "identity") /\ ~Writing(p, "identity")'
         /\ \A q \in Process \ {p} : pen'[q] = pen[q]
<1>1. f \in FileName
  BY DEF FileName
<1>2. pen'[p].into = f
  BY <1>1, SaveTyped
<1> QED BY <1>1, <1>2, SaveTyped, NotWriting DEF Writing

LEMMA SavesNothing ==
  ASSUME NEW p \in Process, Free(p), pen' = pen
  PROVE  /\ ~Writing(p, "identity") /\ ~Writing(p, "identity")'
         /\ \A q \in Process \ {p} : pen'[q] = pen[q]
BY NotWriting DEF Writing

LEMMA NodesStep == Typed /\ FreeInv /\ NodesInv /\ [Next]_vars => NodesInv'
<1> SUFFICES ASSUME Typed, FreeInv, NodesInv, [Next]_vars PROVE NodesInv'
  OBVIOUS
<1> DEFINE Elsewhere(p) == /\ ~Writing(p, "identity") /\ ~Writing(p, "identity")'
                           /\ \A q \in Process \ {p} : pen'[q] = pen[q]
<1>1. ASSUME NEW p \in Process, NEW o \in Policy \cup {None}, Start(p, o) PROVE NodesInv'
  <2>1. Free(p)
    BY <1>1 DEF Start, FreeInv
  <2>2. Elsewhere(p)
    <3>1. CASE o = None
      BY <1>1, <2>1, <3>1, SavesNothing DEF Start
    <3>2. CASE o # None
      <4>1. With(Loaded, o) \in Text["config"]
        BY <1>1, LoadedFacts, ConfigFacts, TextFacts DEF Start
      <4>2. Save(p, "config", With(Loaded, o))
        BY <1>1, <3>2 DEF Start
      <4> QED BY <2>1, <4>1, <4>2, SavesElsewhere
    <3> QED BY <3>1, <3>2
  <2>3. /\ nodes' = nodes /\ file' = file
        /\ excuse'.abandoned = excuse.abandoned /\ excuse'.overlap = excuse.overlap
    BY <1>1, ExcuseFacts DEF Start, relay
  <2> QED BY <1>1, <2>2, <2>3, StartFacts, NodesKept
<1>2. ASSUME NEW p \in Process, NEW o \in Policy \cup {None}, Setup(p, o) PROVE NodesInv'
  <2>1. Elsewhere(p)
    <3>1. With(proc[p].config, o) \in Text["config"]
      BY ProcFacts, ConfigFacts, TextFacts DEF ProcState
    <3>2. Free(p) /\ Save(p, "config", With(proc[p].config, o))
      BY <1>2 DEF Setup
    <3> QED BY <3>1, <3>2, SavesElsewhere
  <2>2. /\ nodes' = nodes /\ file' = file
        /\ excuse'.abandoned = excuse.abandoned /\ excuse'.overlap = excuse.overlap
    BY <1>2, ExcuseFacts DEF Setup, relay
  <2> QED BY <1>2, <2>1, <2>2, SetupFacts, NodesKept
<1>3. ASSUME NEW p \in Process, NEW http \in BOOLEAN, NEW https \in BOOLEAN,
             Resolve(p, http, https)
      PROVE  NodesInv'
  <2>1. Free(p) /\ nodes' = nodes /\ file' = file /\ excuse' = excuse
    BY <1>3 DEF Resolve, relay
  <2>2. ASSUME NEW c \in Config, Save(p, "config", c) PROVE Elsewhere(p)
    BY <2>1, <2>2, SavesElsewhere, TextFacts
  <2>3. Elsewhere(p)
    BY <1>3, <2>1, <2>2, SavesNothing, ResolveFacts
  <2>4. proc'[p].pc # "register"
    BY <1>3, ResolveFacts DEF Off
  <2> QED BY <1>3, <2>1, <2>3, <2>4, ResolveFacts, NodesKept
<1>4. ASSUME NEW p \in Process, NEW c \in Code, Redeem(p, c) PROVE NodesInv'
  <2>1. /\ Free(p) /\ pen' = pen /\ nodes' = nodes /\ file' = file
        /\ excuse'.abandoned = excuse.abandoned /\ excuse'.overlap = excuse.overlap
    BY <1>4, RedeemFacts DEF Redeem, Typed, ExcuseState
  <2> QED BY <1>4, <2>1, SavesNothing, RedeemFacts, NodesKept
<1>5. ASSUME NEW p \in Process, Upsert(p) PROVE NodesInv'
  <2>1. /\ Free(p) /\ nodes' = nodes /\ file' = file
        /\ excuse'.abandoned = excuse.abandoned /\ excuse'.overlap = excuse.overlap
    BY <1>5, UpsertFacts DEF Upsert, relay, Typed, ExcuseState
  <2>2. ASSUME NEW b \in Book, Save(p, "contacts", b) PROVE Elsewhere(p)
    BY <2>1, <2>2, SavesElsewhere, TextFacts
  <2>3. Elsewhere(p)
    BY <1>5, <2>1, <2>2, SavesNothing, UpsertFacts
  <2> QED BY <1>5, <2>1, <2>3, UpsertFacts, NodesKept
<1>6. ASSUME NEW p \in Process, Stop(p) PROVE NodesInv'
  <2>1. Free(p) /\ pen' = pen /\ nodes' = nodes /\ file' = file /\ excuse' = excuse
    BY <1>6 DEF Stop, relay
  <2>2. proc'[p].pc # "register"
    BY <1>6, StopFacts DEF Stop, Off
  <2> QED BY <1>6, <2>1, <2>2, SavesNothing, StopFacts, NodesKept DEF Stop
<1>7. CASE UNCHANGED vars
  <2>1. /\ nodes' = nodes /\ file' = file /\ excuse' = excuse /\ proc' = proc /\ pen' = pen
    BY <1>7 DEF vars, relay
  <2> QED BY <2>1 DEF NodesInv, NodesAccounted, Hatching, Writing, HasOpen
<1> QED
  BY <1>1, <1>2, <1>3, <1>4, <1>5, <1>6, <1>7,
     NodesOpen, NodesWrite, NodesLoad, NodesRegister, NodesCrash
  DEF Next

LEMMA NodesInit == Init => NodesInv
BY StateAssumption DEF Init, NodesInv, NodesAccounted, Hatching, Writing, Off, FileName

\* An identity that was registered is saved or about to be, for any number of
\* processes, starts and interruptions; every loss has its reason.
THEOREM IdentitiesExplained == Spec => []NodesAccounted
<1>1. Init => Typed /\ FreeInv /\ NodesInv
  BY InitTyped, FilesInit, NodesInit
<1>2. Typed /\ FreeInv /\ NodesInv /\ [Next]_vars => (Typed /\ FreeInv /\ NodesInv)'
  BY TypedStep, FreeStep, NodesStep
<1>3. NodesInv => NodesAccounted
  BY DEF NodesInv
<1> QED BY <1>1, <1>2, <1>3, PTL DEF Spec

----------------------------------------------------------------------------
(* Sizes: what TypeOK says of counters and of dropped links.               *)

\* What is on its way into the contact book: the process that writes it has
\* put the contact of its own code into the text.
CodeInHand == \A p \in Process : Writing(p, "contacts") => proc[p].code \in DOMAIN pen[p].text

SizesInv ==
  /\ \A f \in FileName : file[f].length <= 6 + Cardinality(Code)
  /\ starts \in 0 .. MaxStarts
  /\ excuse.dropped \subseteq Code
  /\ CodeInHand

LEMMA LengthBound ==
  ASSUME NEW f \in FileName, NEW t \in Text[f]
  PROVE  Length(f, t) <= 6 + Cardinality(Code)
<1>1. Cardinality(Code) \in Nat
  BY StateAssumption, FS_CardinalityType
<1>2. CASE f = "identity"
  BY <1>1, <1>2 DEF Length
<1>3. CASE f = "contacts"
  <2>1. DOMAIN t \subseteq Code
    BY <1>3, TextFacts, BookFacts
  <2>2. Cardinality(DOMAIN t) \in Nat /\ Cardinality(DOMAIN t) <= Cardinality(Code)
    BY <2>1, StateAssumption, FS_Subset, FS_CardinalityType
  <2>3. Length(f, t) = Cardinality(DOMAIN t)
    BY <1>3 DEF Length
  <2> QED BY <1>1, <2>2, <2>3
<1>4. CASE f = "config"
  <2>1. t \in Config
    BY <1>4, TextFacts
  <2>2. PolicyLength(t.policy) \in 1 .. 3
    BY <2>1 DEF Config, TransportPolicy, PolicyLength
  <2> QED BY <1>1, <1>4, <2>2 DEF Length
<1> QED BY <1>2, <1>3, <1>4 DEF FileName

\* A text for the contact book has its labels among the codes.
LEMMA PenBook ==
  ASSUME Typed, NEW p \in Process, Writing(p, "contacts")
  PROVE  /\ pen[p].text \in Book /\ DOMAIN pen[p].text \subseteq Code
         /\ \A c \in DOMAIN pen[p].text : pen[p].text[c] \in Node
<1>1. pen[p] \in Page /\ pen[p].into = "contacts"
  BY DEF Typed, Writing
<1> QED BY <1>1, PageFacts, TextFacts, BookFacts

LEMMA ContactsBook ==
  ASSUME Typed, Parses("contacts")
  PROVE  Contacts \in Book /\ DOMAIN Contacts \subseteq Code /\ \A c \in DOMAIN Contacts : Contacts[c] \in Node
<1>1. [c \in {} |-> 1] \in Book
  BY DEF Book
<1>2. Contacts \in Book
  BY <1>1, TextFacts DEF Contacts, Parses, Typed, FileState, FileName
<1> QED BY <1>2, BookFacts

\* The two ways an update of the contact book goes.
LEMMA UpsertCases ==
  ASSUME Typed, CodeInHand, NEW p \in Process, Upsert(p)
  PROVE  \/ /\ Parses("contacts") /\ Upserted(p) \in Text["contacts"]
            /\ Save(p, "contacts", Upserted(p))
            /\ DOMAIN Upserted(p) = DOMAIN Contacts \cup {proc[p].code}
            /\ excuse.dropped \subseteq excuse'.dropped
            /\ excuse'.dropped \subseteq excuse.dropped \cup Code
            /\ \A q \in Process : Writing(q, "contacts") =>
                 proc[p].code \in excuse'.dropped /\ proc[q].code \in excuse'.dropped
         \/ /\ pen' = pen /\ excuse'.dropped = excuse.dropped \cup {proc[p].code}
            /\ ~Parses("contacts")
<1>1. proc[p].code \in Code /\ proc[p].node \in Node /\ excuse \in ExcuseState
  BY DEF Upsert, Typed
<1>2. CASE Parses("contacts")
  <2> DEFINE others == {q \in Process : Writing(q, "contacts")}
             D == {proc[q].code : q \in others \cup {p}}
  <2>1. Upserted(p) \in Text["contacts"] /\ DOMAIN Upserted(p) = DOMAIN Contacts \cup {proc[p].code}
    <3>1. DOMAIN Contacts \cup {proc[p].code} \in SUBSET Code
      BY <1>1, <1>2, ContactsBook
    <3>2. Upserted(p) \in [DOMAIN Contacts \cup {proc[p].code} -> Node]
      BY <1>1, <1>2, ContactsBook DEF Upserted
    <3>3. Upserted(p) \in Book
      BY <3>1, <3>2, BookFacts
    <3> QED BY <3>2, <3>3, TextFacts
  <2>2. Save(p, "contacts", Upserted(p))
    BY <1>2 DEF Upsert
  <2>3. CASE others = {}
    <3>1. excuse' = excuse
      BY <1>2, <2>3 DEF Upsert
    <3> QED BY <1>2, <2>1, <2>2, <2>3, <3>1
  <2>4. CASE others # {}
    <3>1. excuse' = [excuse EXCEPT !.dropped = @ \cup D]
      BY <1>2, <2>4 DEF Upsert
    <3>2. excuse'.dropped = excuse.dropped \cup D
      BY <1>1, <3>1 DEF ExcuseState
    <3>3. D \subseteq Code
      <4>1. \A q \in others : proc[q].code \in Code
        BY PenBook DEF CodeInHand
      <4> QED BY <1>1, <4>1
    <3>4. \A q \in others : proc[q].code \in D /\ proc[p].code \in D
      OBVIOUS
    <3> HIDE DEF D
    <3> QED BY <1>2, <2>1, <2>2, <3>2, <3>3, <3>4
  <2> QED BY <2>3, <2>4
<1>3. CASE ~Parses("contacts")
  <2>1. pen' = pen /\ excuse' = [excuse EXCEPT !.dropped = @ \cup {proc[p].code}]
    BY <1>3 DEF Upsert
  <2> QED BY <1>1, <1>3, <2>1 DEF ExcuseState
<1> QED BY <1>2, <1>3

\* Steps that leave the files, and those of a process that writes no contacts.
LEMMA SizesKept ==
  ASSUME SizesInv, file' = file, starts' \in 0 .. MaxStarts, excuse'.dropped \subseteq Code,
         NEW p \in Process, \A q \in Process \ {p} : proc'[q] = proc[q] /\ pen'[q] = pen[q],
         Writing(p, "contacts")' => proc'[p].code \in DOMAIN pen'[p].text
  PROVE  SizesInv'
<1>1. CodeInHand'
  BY DEF SizesInv, CodeInHand, Writing
<1> QED BY <1>1 DEF SizesInv

\* Saving a configuration or an identity is not writing contacts.
LEMMA SavesNoContacts ==
  ASSUME Typed, NEW p \in Process, NEW f \in {"config", "identity"}, NEW t \in Text[f], Save(p, f, t)
  PROVE  ~Writing(p, "contacts")' /\ \A q \in Process \ {p} : pen'[q] = pen[q]
<1>1. f \in FileName
  BY DEF FileName
<1>2. pen'[p].into = f
  BY <1>1, SaveTyped
<1> QED BY <1>1, <1>2, SaveTyped DEF Writing

\* What a step outside the files and the contact book does: of the processes,
\* one moves that has no contacts in hand afterwards.
Elsewhere(p) ==
  /\ file' = file /\ links' = links
  /\ \A q \in Process \ {p} : proc'[q] = proc[q] /\ pen'[q] = pen[q]
  /\ ~Writing(p, "contacts")' /\ proc'[p].pc # "upsert"
  /\ excuse.dropped \subseteq excuse'.dropped
  /\ proc[p].pc = "upsert" \/ Writing(p, "contacts") => proc[p].code \in excuse'.dropped
  /\ excuse.overlap => excuse'.overlap
  /\ proc'[p].pc = "ready" /\ ~Hatching(p)' => proc'[p].node = file["identity"].text

LEMMA FreeOfContacts ==
  ASSUME NEW p \in Process, Free(p), proc[p].pc # "upsert"
  PROVE  ~(proc[p].pc = "upsert" \/ Writing(p, "contacts"))
BY DEF Free, Writing

LEMMA StartElsewhere ==
  ASSUME Typed, FreeInv, NEW p \in Process, NEW o \in Policy \cup {None}, Start(p, o)
  PROVE  Elsewhere(p) /\ excuse'.dropped = excuse.dropped
<1>1. Free(p) /\ proc[p].pc # "upsert" /\ file' = file /\ links' = links
  BY DEF Start, FreeInv, relay
<1>2. ~Writing(p, "contacts")' /\ \A q \in Process \ {p} : pen'[q] = pen[q]
  <2>1. CASE o = None
    BY <1>1, <2>1 DEF Start, Free, Writing
  <2>2. CASE o # None
    <3>1. With(Loaded, o) \in Text["config"] /\ Save(p, "config", With(Loaded, o))
      BY <2>2, LoadedFacts, ConfigFacts, TextFacts DEF Start
    <3> QED BY <3>1, SavesNoContacts
  <2> QED BY <2>1, <2>2
<1>3. excuse'.dropped = excuse.dropped /\ excuse'.overlap = excuse.overlap
  BY DEF Start, Allowing, Typed, ExcuseState
<1>4. proc'[p].pc = "resolve" /\ \A q \in Process \ {p} : proc'[q] = proc[q]
  BY StartFacts
<1> QED BY <1>1, <1>2, <1>3, <1>4, FreeOfContacts DEF Elsewhere

LEMMA SetupElsewhere ==
  ASSUME Typed, NEW p \in Process, NEW o \in Policy \cup {None}, Setup(p, o)
  PROVE  Elsewhere(p) /\ excuse'.dropped = excuse.dropped
<1>1. Free(p) /\ proc[p].pc # "upsert" /\ file' = file /\ links' = links
  BY DEF Setup, relay
<1>2. ~Writing(p, "contacts")' /\ \A q \in Process \ {p} : pen'[q] = pen[q]
  <2>1. With(proc[p].config, o) \in Text["config"] /\ Save(p, "config", With(proc[p].config, o))
    BY ProcFacts, ConfigFacts, TextFacts DEF ProcState, Setup
  <2> QED BY <2>1, SavesNoContacts
<1>3. excuse'.dropped = excuse.dropped /\ excuse'.overlap = excuse.overlap
  BY DEF Setup, Allowing, Typed, ExcuseState
<1>4. proc'[p].pc = "resolve" /\ \A q \in Process \ {p} : proc'[q] = proc[q]
  BY SetupFacts
<1> QED BY <1>1, <1>2, <1>3, <1>4, FreeOfContacts DEF Elsewhere

LEMMA ResolveElsewhere ==
  ASSUME Typed, NEW p \in Process, NEW http \in BOOLEAN, NEW https \in BOOLEAN,
         Resolve(p, http, https)
  PROVE  Elsewhere(p) /\ excuse'.dropped = excuse.dropped
<1>1. Free(p) /\ proc[p].pc = "resolve" /\ file' = file /\ links' = links /\ excuse' = excuse
  BY DEF Resolve, relay
<1>2. ~Writing(p, "contacts")' /\ \A q \in Process \ {p} : pen'[q] = pen[q]
  <2>1. ASSUME pen' = pen PROVE ~Writing(p, "contacts")' /\ \A q \in Process \ {p} : pen'[q] = pen[q]
    BY <1>1, <2>1 DEF Free, Writing
  <2>2. ASSUME NEW c \in Config, Save(p, "config", c)
        PROVE  ~Writing(p, "contacts")' /\ \A q \in Process \ {p} : pen'[q] = pen[q]
    BY <2>2, SavesNoContacts, TextFacts
  <2> QED BY <2>1, <2>2, ResolveFacts
<1>3. proc'[p].pc \in {"off", "identity"} /\ \A q \in Process \ {p} : proc'[q] = proc[q]
  BY ResolveFacts DEF Off
<1> QED BY <1>1, <1>2, <1>3, FreeOfContacts DEF Elsewhere

LEMMA LoadElsewhere ==
  ASSUME Typed, NEW p \in Process, LoadIdentity(p)
  PROVE  Elsewhere(p) /\ excuse'.dropped = excuse.dropped
<1>1. Free(p) /\ proc[p].pc = "identity" /\ file' = file /\ links' = links /\ pen' = pen
  BY DEF LoadIdentity, relay
<1>2. excuse'.dropped = excuse.dropped /\ (excuse.overlap => excuse'.overlap)
  BY DEF LoadIdentity, Typed, ExcuseState
<1>3. /\ proc'[p].pc # "upsert" /\ \A q \in Process \ {p} : proc'[q] = proc[q]
      /\ proc'[p].pc = "ready" => proc'[p].node = file["identity"].text
  BY LoadFacts DEF Off
<1>4. ~Writing(p, "contacts")'
  BY <1>1 DEF Free, Writing
<1> QED BY <1>1, <1>2, <1>3, <1>4, FreeOfContacts DEF Elsewhere

LEMMA RegisterElsewhere ==
  ASSUME Typed, FreeInv, NEW p \in Process, Register(p)
  PROVE  Elsewhere(p) /\ excuse'.dropped = excuse.dropped
<1>1. Free(p) /\ proc[p].pc = "register" /\ file' = file /\ links' = links
  BY DEF Register, FreeInv
<1>2. excuse'.dropped = excuse.dropped /\ excuse'.overlap = excuse.overlap
  BY RegisterFacts DEF Typed, ExcuseState
<1>3. /\ ~Writing(p, "contacts")' /\ \A q \in Process \ {p} : pen'[q] = pen[q]
      /\ proc'[p].pc = "off" \/ (proc'[p].pc = "ready" /\ Hatching(p)')
  <2>1. CASE proc'[p] = Off /\ pen' = pen
    BY <1>1, <2>1 DEF Free, Writing, Off
  <2>2. CASE proc'[p].pc = "ready" /\ Save(p, "identity", nodes')
    <3>1. nodes' \in Text["identity"] /\ "identity" \in FileName
      BY RegisterFacts, TextFacts DEF FileName
    <3>2. Writing(p, "identity")'
      BY <2>2, <3>1, SaveInto
    <3> QED BY <2>2, <3>1, <3>2, SavesNoContacts DEF Hatching
  <2> QED BY <2>1, <2>2, RegisterFacts
<1> QED BY <1>1, <1>2, <1>3, RegisterFacts, FreeOfContacts DEF Elsewhere

LEMMA StopElsewhere ==
  ASSUME Typed, NEW p \in Process, Stop(p)
  PROVE  Elsewhere(p) /\ excuse'.dropped = excuse.dropped
<1>1. Free(p) /\ proc[p].pc # "upsert" /\ file' = file /\ links' = links /\ pen' = pen /\ excuse' = excuse
  BY DEF Stop, relay
<1>2. proc'[p].pc = "off" /\ \A q \in Process \ {p} : proc'[q] = proc[q]
  BY StopFacts DEF Stop, Off
<1>3. ~Writing(p, "contacts")'
  BY <1>1 DEF Free, Writing
<1> QED BY <1>1, <1>2, <1>3, FreeOfContacts DEF Elsewhere

LEMMA CrashElsewhere ==
  ASSUME Typed, CodeInHand, NEW p \in Process, Crash(p)
  PROVE  Elsewhere(p) /\ excuse'.dropped \subseteq excuse.dropped \cup Code
<1>1. /\ file' = file /\ links' = links /\ proc'[p].pc = "off" /\ pen'[p] = None
      /\ excuse'.overlap = excuse.overlap
      /\ \A q \in Process \ {p} : proc'[q] = proc[q] /\ pen'[q] = pen[q]
  BY CrashFacts, StopFacts DEF Crash, relay, Off
<1>2. excuse'.dropped = excuse.dropped \cup
        {c \in Code : (proc[p].pc = "upsert" \/ Writing(p, "contacts")) /\ proc[p].code = c}
  BY DEF Crash, Typed, ExcuseState
<1>3. proc[p].pc = "upsert" \/ Writing(p, "contacts") => proc[p].code \in Code
  BY PenBook DEF CodeInHand, Typed
<1>4. ~Writing(p, "contacts")'
  BY <1>1 DEF Writing
<1> QED BY <1>1, <1>2, <1>3, <1>4 DEF Elsewhere

\* Opening and writing: the text a process has in hand stays as it is until it
\* is in the file.
LEMMA OpenContacts ==
  ASSUME Typed, NEW p \in Process, NEW f \in FileName, Open(p, f)
  PROVE  /\ proc' = proc /\ links' = links /\ starts' = starts
         /\ excuse'.dropped = excuse.dropped /\ excuse'.overlap = excuse.overlap
         /\ \A q \in Process, g \in FileName :
              (Writing(q, g)' <=> Writing(q, g)) /\ pen'[q].text = pen[q].text
<1>1. pen[p] # None /\ pen'[p] # None
  BY OpenFacts, PageFacts
<1>2. excuse'.dropped = excuse.dropped /\ excuse'.overlap = excuse.overlap
  BY DEF Open, Typed, ExcuseState
<1> QED BY <1>1, <1>2, OpenFacts DEF Open, relay, Writing

LEMMA WriteContacts ==
  ASSUME Typed, NEW p \in Process, NEW f \in FileName, Write(p, f)
  PROVE  /\ proc' = proc /\ links' = links /\ starts' = starts /\ excuse' = excuse
         /\ HasOpen(p, f) /\ \A g \in FileName : Writing(p, g) => g = f
         /\ \A g \in FileName : ~Writing(p, g)'
         /\ \A q \in Process \ {p} : pen'[q] = pen[q]
         /\ \A q \in Process \ {p}, g \in FileName : Writing(q, g)' <=> Writing(q, g)
         /\ file'[f].text \in {pen[p].text, Broken}
<1>1. file'[f].text \in {pen[p].text, Broken}
  BY WriteFacts, WrittenFacts
<1> QED BY <1>1, WriteFacts DEF Write, relay, HasOpen, Writing

LEMMA SizesStep == Typed /\ FreeInv /\ SizesInv /\ [Next]_vars => SizesInv'
<1> SUFFICES ASSUME Typed, FreeInv, SizesInv, [Next]_vars PROVE SizesInv'
  OBVIOUS
<1>0. "contacts" \in FileName /\ Cardinality(Code) \in Nat
  BY StateAssumption, FS_CardinalityType DEF FileName
<1>1. ASSUME NEW p \in Process, NEW f \in FileName, Open(p, f) PROVE SizesInv'
  <2>1. \A g \in FileName : file'[g].length <= 6 + Cardinality(Code)
    BY <1>0, <1>1, OpenFacts DEF Emptied, SizesInv
  <2>2. CodeInHand'
    BY <1>0, <1>1, OpenContacts DEF SizesInv, CodeInHand
  <2> QED BY <1>1, <2>1, <2>2, OpenContacts DEF SizesInv
<1>2. ASSUME NEW p \in Process, NEW f \in FileName, Write(p, f) PROVE SizesInv'
  <2>1. file'[f].length <= 6 + Cardinality(Code)
    <3>1. pen[p].text \in Text[f] /\ file'[f] = Written(f, pen[p].text)
      BY <1>2, WriteFacts
    <3>2. Length(f, pen[p].text) <= 6 + Cardinality(Code)
      BY <3>1, LengthBound
    <3>3. file'[f].length \in {file[f].length, Length(f, pen[p].text)}
      BY <3>1 DEF Written
    <3> QED BY <3>2, <3>3 DEF SizesInv
  <2>2. \A g \in FileName : file'[g].length <= 6 + Cardinality(Code)
    BY <1>2, <2>1, WriteFacts DEF SizesInv
  <2>3. CodeInHand'
    BY <1>0, <1>2, WriteContacts DEF SizesInv, CodeInHand
  <2> QED BY <1>2, <2>2, <2>3, WriteContacts DEF SizesInv
<1>3. ASSUME NEW p \in Process, Elsewhere(p), starts' \in 0 .. MaxStarts, excuse'.dropped \subseteq Code
      PROVE  SizesInv'
  BY <1>3, SizesKept DEF Elsewhere
<1>4. ASSUME NEW p \in Process, NEW o \in Policy \cup {None}, Start(p, o) PROVE SizesInv'
  <2>1. starts' \in 0 .. MaxStarts
    BY <1>4, StateAssumption DEF Start, SizesInv
  <2> QED BY <1>3, <1>4, <2>1, StartElsewhere DEF SizesInv
<1>5. ASSUME NEW p \in Process, NEW o \in Policy \cup {None}, Setup(p, o) PROVE SizesInv'
  <2>1. starts' \in 0 .. MaxStarts
    BY <1>5, StateAssumption DEF Setup, SizesInv
  <2> QED BY <1>3, <1>5, <2>1, SetupElsewhere DEF SizesInv
<1>6. ASSUME NEW p \in Process, NEW http \in BOOLEAN, NEW https \in BOOLEAN, Resolve(p, http, https)
      PROVE  SizesInv'
  BY <1>3, <1>6, ResolveElsewhere DEF Resolve, SizesInv
<1>7. ASSUME NEW p \in Process, LoadIdentity(p) PROVE SizesInv'
  BY <1>3, <1>7, LoadElsewhere DEF LoadIdentity, SizesInv
<1>8. ASSUME NEW p \in Process, Register(p) PROVE SizesInv'
  BY <1>3, <1>8, RegisterElsewhere DEF Register, SizesInv
<1>9. ASSUME NEW p \in Process, Stop(p) PROVE SizesInv'
  BY <1>3, <1>9, StopElsewhere DEF Stop, SizesInv
<1>10. ASSUME NEW p \in Process, Crash(p) PROVE SizesInv'
  <2>1. CodeInHand /\ starts' = starts
    BY <1>10 DEF SizesInv, Crash
  <2>2. Elsewhere(p) /\ excuse'.dropped \subseteq excuse.dropped \cup Code
    BY <1>10, <2>1, CrashElsewhere
  <2> QED BY <1>3, <2>1, <2>2 DEF SizesInv
<1>11. ASSUME NEW p \in Process, NEW c \in Code, Redeem(p, c) PROVE SizesInv'
  <2>1. ~Writing(p, "contacts")' /\ file' = file /\ starts' = starts /\ pen' = pen
    BY <1>11 DEF Redeem, Free, Writing
  <2>2. excuse'.dropped \subseteq excuse.dropped \cup Code
    BY <1>11 DEF Redeem, Typed, ExcuseState
  <2> QED BY <1>11, <2>1, <2>2, RedeemFacts, SizesKept DEF SizesInv
<1>12. ASSUME NEW p \in Process, Upsert(p) PROVE SizesInv'
  <2>1. /\ file' = file /\ starts' = starts /\ Free(p) /\ proc[p].code \in Code
        /\ \A q \in Process \ {p} : proc'[q] = proc[q]
        /\ proc'[p].code = proc[p].code
    BY <1>12, UpsertFacts DEF Upsert, Typed, ProcState
  <2>2. CodeInHand
    BY DEF SizesInv
  <2>3. CASE /\ Upserted(p) \in Text["contacts"] /\ Save(p, "contacts", Upserted(p))
             /\ DOMAIN Upserted(p) = DOMAIN Contacts \cup {proc[p].code}
             /\ excuse'.dropped \subseteq excuse.dropped \cup Code
    <3>1. pen'[p].text = Upserted(p) /\ \A q \in Process \ {p} : pen'[q] = pen[q]
      BY <1>0, <2>3, SaveTyped
    <3>2. excuse'.dropped \subseteq Code
      BY <2>3 DEF SizesInv
    <3> QED BY <2>1, <2>3, <3>1, <3>2, SizesKept DEF SizesInv
  <2>4. CASE pen' = pen /\ excuse'.dropped = excuse.dropped \cup {proc[p].code}
    <3>1. ~Writing(p, "contacts")' /\ excuse'.dropped \subseteq Code
      BY <2>1, <2>4 DEF Free, Writing, SizesInv
    <3> QED BY <2>1, <2>4, <3>1, SizesKept DEF SizesInv
  <2> QED BY <1>12, <2>2, <2>3, <2>4, UpsertCases
<1>13. CASE UNCHANGED vars
  BY <1>13 DEF vars, SizesInv, CodeInHand, Writing
<1> QED
  BY <1>1, <1>2, <1>4, <1>5, <1>6, <1>7, <1>8, <1>9, <1>10, <1>11, <1>12, <1>13 DEF Next

----------------------------------------------------------------------------
(* Links.  A text on its way into the contact book has every link that was *)
(* in the book, but for those of two processes that write at once.         *)

Upserting(c) == \E p \in Process : proc[p].pc = "upsert" /\ proc[p].code = c

BooksInv ==
  \A q \in Process : Writing(q, "contacts") =>
    /\ \A c \in DOMAIN links : c \in DOMAIN pen[q].text \/ c \in excuse.dropped \/ Upserting(c)
    /\ \A p \in Process \ {q} : Writing(p, "contacts") => proc[p].code \in excuse.dropped

LinksInv == LinksHaveContacts /\ BooksInv

LEMMA LinksKept ==
  ASSUME LinksInv, NEW p \in Process, Elsewhere(p)
  PROVE  LinksInv'
<1>1. \A q \in Process \ {p} : Writing(q, "contacts")' <=> Writing(q, "contacts")
  BY DEF Elsewhere, Writing
<1>2. \A c : Upserting(c) => Upserting(c)' \/ c \in excuse'.dropped
  BY DEF Elsewhere, Upserting
<1>3. LinksHaveContacts'
  <2> SUFFICES ASSUME Parses("contacts"), NEW c \in DOMAIN links
               PROVE  \/ c \in DOMAIN Contacts \/ c \in excuse'.dropped
                      \/ \E q \in Process : /\ proc'[q].code = c
                                            /\ proc'[q].pc = "upsert" \/ Writing(q, "contacts")'
    BY DEF LinksHaveContacts, Parses, Contacts, Elsewhere
  <2> QED BY <1>1 DEF LinksInv, LinksHaveContacts, Elsewhere
<1>4. BooksInv'
  <2> SUFFICES ASSUME NEW q \in Process \ {p}, Writing(q, "contacts")
               PROVE  /\ \A c \in DOMAIN links :
                           c \in DOMAIN pen[q].text \/ c \in excuse'.dropped \/ Upserting(c)'
                      /\ \A r \in Process \ {q, p} :
                           Writing(r, "contacts") => proc[r].code \in excuse'.dropped
    BY <1>1 DEF BooksInv, Elsewhere
  <2> QED BY <1>2 DEF LinksInv, BooksInv, Elsewhere
<1> QED BY <1>3, <1>4 DEF LinksInv

LEMMA LinksOpen ==
  ASSUME Typed, LinksInv, NEW p \in Process, NEW f \in FileName, Open(p, f)
  PROVE  LinksInv'
<1>1. "contacts" \in FileName
  BY DEF FileName
<1>2. \A c : Upserting(c)' <=> Upserting(c)
  BY OpenContacts DEF Upserting
<1>3. BooksInv'
  BY <1>1, <1>2, OpenContacts DEF LinksInv, BooksInv
<1>4. LinksHaveContacts'
  <2>1. CASE f = "contacts"
    BY <2>1, OpenFacts DEF Emptied, LinksHaveContacts, Parses
  <2>2. CASE f # "contacts"
    <3>1. file'["contacts"] = file["contacts"]
      BY <1>1, <2>2, OpenFacts
    <3> QED BY <1>1, <3>1, OpenContacts DEF LinksInv, LinksHaveContacts, Parses, Contacts
  <2> QED BY <2>1, <2>2
<1> QED BY <1>3, <1>4 DEF LinksInv

LEMMA LinksWrite ==
  ASSUME Typed, LinksInv, NEW p \in Process, NEW f \in FileName, Write(p, f)
  PROVE  LinksInv'
<1>1. "contacts" \in FileName
  BY DEF FileName
<1>2. \A c : Upserting(c)' <=> Upserting(c)
  BY WriteContacts DEF Upserting
<1>3. BooksInv'
  BY <1>1, <1>2, WriteContacts DEF LinksInv, BooksInv
<1>4. LinksHaveContacts'
  <2>1. CASE f = "contacts"
    <3> SUFFICES ASSUME Parses("contacts")', NEW c \in DOMAIN links
                 PROVE  c \in DOMAIN Contacts' \/ c \in excuse.dropped \/ Upserting(c)
      BY WriteContacts DEF LinksHaveContacts, Upserting
    <3>1. Writing(p, "contacts")
      BY <2>1, WriteContacts DEF HasOpen
    <3>2. file'["contacts"].text = pen[p].text /\ pen[p].text # None
      <4>1. pen[p].text \in Text["contacts"]
        BY <2>1, WriteFacts
      <4> QED BY <1>1, <2>1, <4>1, WriteContacts, TextFacts DEF Parses
    <3>3. Contacts' = pen[p].text
      BY <3>2 DEF Contacts
    <3> QED BY <3>1, <3>3 DEF LinksInv, BooksInv
  <2>2. CASE f # "contacts"
    <3>1. file'["contacts"] = file["contacts"] /\ ~Writing(p, "contacts")
      BY <1>1, <2>2, WriteFacts, WriteContacts
    <3> QED BY <1>1, <3>1, WriteContacts DEF LinksInv, LinksHaveContacts, Parses, Contacts
  <2> QED BY <2>1, <2>2
<1> QED BY <1>3, <1>4 DEF LinksInv

LEMMA LinksRedeem ==
  ASSUME Typed, LinksInv, NEW p \in Process, NEW c \in Code, Redeem(p, c)
  PROVE  LinksInv'
<1>1. /\ file' = file /\ pen' = pen /\ DOMAIN links' = DOMAIN links \cup {c}
      /\ Free(p) /\ proc[p].pc = "ready" /\ \A q \in Process \ {p} : proc'[q] = proc[q]
  BY RedeemFacts DEF Redeem
<1>2. \A q \in Process : /\ Writing(q, "contacts")' <=> Writing(q, "contacts")
                         /\ proc[q].pc = "upsert" \/ Writing(q, "contacts") => q # p
  BY <1>1 DEF Writing, Free
<1>3. /\ excuse.dropped \subseteq excuse'.dropped
      /\ c \in excuse'.dropped \/ (proc'[p].pc = "upsert" /\ proc'[p].code = c)
  <2>1. CASE proc' = [proc EXCEPT ![p].pc = "upsert", ![p].code = c] /\ excuse' = excuse
    BY <2>1 DEF Typed, ProcState
  <2>2. CASE proc' = proc /\ excuse' = [excuse EXCEPT !.dropped = @ \cup {c}]
    BY <2>2 DEF Typed, ExcuseState
  <2> QED BY <2>1, <2>2 DEF Redeem
<1>4. \A d : Upserting(d) => Upserting(d)'
  BY <1>1, <1>2 DEF Upserting
<1>5. c \in excuse'.dropped \/ Upserting(c)'
  BY <1>3 DEF Upserting
<1>6. BooksInv'
  <2> SUFFICES ASSUME NEW q \in Process \ {p}, Writing(q, "contacts")
               PROVE  /\ \A d \in DOMAIN links \cup {c} :
                           d \in DOMAIN pen[q].text \/ d \in excuse'.dropped \/ Upserting(d)'
                      /\ \A r \in Process \ {q} :
                           Writing(r, "contacts") => proc'[r].code \in excuse'.dropped
    BY <1>1, <1>2 DEF BooksInv
  <2> QED BY <1>1, <1>2, <1>3, <1>4, <1>5 DEF LinksInv, BooksInv
<1>7. LinksHaveContacts'
  <2> SUFFICES ASSUME Parses("contacts"), NEW d \in DOMAIN links \cup {c}
               PROVE  \/ d \in DOMAIN Contacts \/ d \in excuse'.dropped
                      \/ \E q \in Process : /\ proc'[q].code = d
                                            /\ proc'[q].pc = "upsert" \/ Writing(q, "contacts")'
    BY <1>1 DEF LinksHaveContacts, Parses, Contacts
  <2>1. CASE d = c
    BY <1>5, <2>1 DEF Upserting
  <2>2. CASE d # c
    BY <1>1, <1>2, <1>3, <2>2 DEF LinksInv, LinksHaveContacts
  <2> QED BY <2>1, <2>2
<1> QED BY <1>6, <1>7 DEF LinksInv

LEMMA LinksUpsert ==
  ASSUME Typed, CodeInHand, LinksInv, NEW p \in Process, Upsert(p)
  PROVE  LinksInv'
<1>0. "contacts" \in FileName
  BY DEF FileName
<1>1. /\ file' = file /\ links' = links /\ Free(p) /\ proc[p].pc = "upsert"
      /\ proc'[p].pc = "ready" /\ proc'[p].code = proc[p].code
      /\ \A q \in Process \ {p} : proc'[q] = proc[q]
  BY UpsertFacts DEF Upsert, relay, Typed, ProcState
<1>2. ~Writing(p, "contacts")
  BY <1>1 DEF Free, Writing
<1>3. CASE /\ Parses("contacts") /\ Upserted(p) \in Text["contacts"]
           /\ Save(p, "contacts", Upserted(p))
           /\ DOMAIN Upserted(p) = DOMAIN Contacts \cup {proc[p].code}
           /\ excuse.dropped \subseteq excuse'.dropped
           /\ \A q \in Process : Writing(q, "contacts") =>
                proc[p].code \in excuse'.dropped /\ proc[q].code \in excuse'.dropped
  <2>1. /\ Writing(p, "contacts")' /\ pen'[p].text = Upserted(p)
        /\ \A q \in Process \ {p} : Writing(q, "contacts")' <=> Writing(q, "contacts")
        /\ \A q \in Process \ {p} : pen'[q] = pen[q]
    BY <1>0, <1>3, SaveInto, SaveTyped
  <2>2. \A c : Upserting(c) => Upserting(c)' \/ c = proc[p].code
    BY <1>1 DEF Upserting
  <2>3. ASSUME NEW c \in DOMAIN links
        PROVE  c \in DOMAIN pen'[p].text \/ c \in excuse'.dropped \/ Upserting(c)'
    <3>1. \/ c \in DOMAIN Contacts \/ c \in excuse.dropped
          \/ \E q \in Process : proc[q].code = c /\ (proc[q].pc = "upsert" \/ Writing(q, "contacts"))
      BY <1>3 DEF LinksInv, LinksHaveContacts
    <3>2. ASSUME NEW q \in Process, proc[q].code = c, proc[q].pc = "upsert"
          PROVE  c \in DOMAIN pen'[p].text \/ Upserting(c)'
      BY <1>3, <2>1, <2>2, <3>2 DEF Upserting
    <3> QED BY <1>3, <2>1, <3>1, <3>2
  <2>4. BooksInv'
    <3>1. ASSUME NEW q \in Process, Writing(q, "contacts")', NEW c \in DOMAIN links
          PROVE  c \in DOMAIN pen'[q].text \/ c \in excuse'.dropped \/ Upserting(c)'
      <4>1. CASE q = p
        BY <2>3, <4>1
      <4>2. CASE q # p
        BY <1>3, <2>1, <2>2, <3>1, <4>2 DEF LinksInv, BooksInv
      <4> QED BY <4>1, <4>2
    <3>2. ASSUME NEW q \in Process, Writing(q, "contacts")', NEW r \in Process \ {q}, Writing(r, "contacts")'
          PROVE  proc'[r].code \in excuse'.dropped
      BY <1>1, <1>3, <2>1, <3>2
    <3> QED BY <1>1, <3>1, <3>2 DEF BooksInv
  <2>5. LinksHaveContacts'
    <3> SUFFICES ASSUME NEW c \in DOMAIN links
                 PROVE  \/ c \in DOMAIN Contacts \/ c \in excuse'.dropped
                        \/ \E q \in Process : /\ proc'[q].code = c
                                              /\ proc'[q].pc = "upsert" \/ Writing(q, "contacts")'
      BY <1>1 DEF LinksHaveContacts, Parses, Contacts
    <3>1. \/ c \in DOMAIN Contacts \/ c \in excuse.dropped
          \/ \E q \in Process : proc[q].code = c /\ (proc[q].pc = "upsert" \/ Writing(q, "contacts"))
      BY <1>3 DEF LinksInv, LinksHaveContacts
    <3>2. ASSUME NEW q \in Process, proc[q].code = c, proc[q].pc = "upsert" \/ Writing(q, "contacts")
          PROVE  proc'[q].code = c /\ (proc'[q].pc = "upsert" \/ Writing(q, "contacts")')
      BY <1>1, <2>1, <3>2
    <3> QED BY <1>3, <3>1, <3>2
  <2> QED BY <2>4, <2>5 DEF LinksInv
<1>4. CASE pen' = pen /\ excuse'.dropped = excuse.dropped \cup {proc[p].code} /\ ~Parses("contacts")
  <2>1. LinksHaveContacts'
    BY <1>1, <1>4 DEF LinksHaveContacts, Parses
  <2>2. \A c : Upserting(c) => Upserting(c)' \/ c = proc[p].code
    BY <1>1 DEF Upserting
  <2>3. \A q \in Process : Writing(q, "contacts")' <=> Writing(q, "contacts")
    BY <1>4 DEF Writing
  <2>4. BooksInv'
    BY <1>1, <1>2, <1>4, <2>2, <2>3 DEF LinksInv, BooksInv
  <2> QED BY <2>1, <2>4 DEF LinksInv
<1> QED BY <1>3, <1>4, UpsertCases

LEMMA LinksStep == Typed /\ FreeInv /\ SizesInv /\ LinksInv /\ [Next]_vars => LinksInv'
<1> SUFFICES ASSUME Typed, FreeInv, SizesInv, LinksInv, [Next]_vars PROVE LinksInv'
  OBVIOUS
<1>1. CodeInHand
  BY DEF SizesInv
<1>2. CASE UNCHANGED vars
  BY <1>2 DEF vars, LinksInv, LinksHaveContacts, BooksInv, Upserting, Parses, Contacts, Writing
<1> QED
  BY <1>1, <1>2, LinksOpen, LinksWrite, LinksRedeem, LinksUpsert, LinksKept,
     StartElsewhere, SetupElsewhere, ResolveElsewhere, LoadElsewhere, RegisterElsewhere,
     StopElsewhere, CrashElsewhere
  DEF Next

----------------------------------------------------------------------------
(* The identity that contacts and processes use: the saved one, unless two *)
(* first starts overlap.  While a process is about to save the first, no   *)
(* other has one and the book is empty.                                    *)

Saved == file["identity"].text

OwnInv ==
  ~excuse.overlap =>
    /\ \A p \in Process : proc[p].pc \in {"ready", "upsert"} /\ ~Hatching(p) => proc[p].node = Saved
    /\ \A p \in Process : Writing(p, "contacts") => \A c \in DOMAIN pen[p].text : pen[p].text[c] = Saved
    /\ Parses("contacts") => \A c \in DOMAIN Contacts : Contacts[c] = Saved

LEMMA OwnKept ==
  ASSUME OwnInv, NEW p \in Process, Elsewhere(p)
  PROVE  OwnInv'
<1>1. \A q \in Process \ {p} : /\ Writing(q, "contacts")' <=> Writing(q, "contacts")
                               /\ Hatching(q)' <=> Hatching(q)
  BY DEF Elsewhere, Writing, Hatching
<1>2. Saved' = Saved /\ (Parses("contacts")' <=> Parses("contacts")) /\ Contacts' = Contacts
  BY DEF Elsewhere, Saved, Parses, Contacts
<1> SUFFICES ASSUME ~excuse.overlap
             PROVE  /\ \A q \in Process : proc'[q].pc \in {"ready", "upsert"} /\ ~Hatching(q)' =>
                         proc'[q].node = Saved
                    /\ \A q \in Process : Writing(q, "contacts")' =>
                         \A c \in DOMAIN pen'[q].text : pen'[q].text[c] = Saved
                    /\ Parses("contacts") => \A c \in DOMAIN Contacts : Contacts[c] = Saved
  BY <1>2 DEF OwnInv, Elsewhere
<1> QED BY <1>1 DEF OwnInv, Elsewhere, Saved

\* Before the first identity is saved, nobody uses one.
LEMMA NothingOwned ==
  ASSUME Typed, CodeInHand, OwnInv, ~excuse.overlap, Saved \notin Node
  PROVE  /\ \A p \in Process : proc[p].pc \in {"ready", "upsert"} => Hatching(p)
         /\ \A p \in Process : ~Writing(p, "contacts")
         /\ Parses("contacts") => DOMAIN Contacts = {}
<1>1. \A p \in Process : proc[p].pc \in {"ready", "upsert"} => Hatching(p)
  BY DEF OwnInv, Typed
<1>2. ASSUME NEW p \in Process, Writing(p, "contacts") PROVE FALSE
  <2>1. proc[p].code \in DOMAIN pen[p].text
    BY <1>2 DEF CodeInHand
  <2> QED BY <1>2, <2>1, PenBook DEF OwnInv
<1>3. Parses("contacts") => DOMAIN Contacts = {}
  BY ContactsBook DEF OwnInv
<1> QED BY <1>1, <1>2, <1>3

\* A step on the identity file, by the process that is about to have one.
LEMMA OwnHatched ==
  ASSUME Typed, CodeInHand, NodesInv, OwnInv, NEW p \in Process, Writing(p, "identity"),
         proc' = proc, excuse'.overlap = excuse.overlap, file'["contacts"] = file["contacts"],
         \A q \in Process \ {p} : pen'[q] = pen[q], ~Writing(p, "contacts")',
         Hatching(p)' \/ proc[p].node = Saved'
  PROVE  OwnInv'
<1> SUFFICES ASSUME ~excuse.overlap PROVE OwnInv'
  BY DEF OwnInv
<1>1. Saved \notin Node
  <2>1. Saved \in {None, Broken}
    BY DEF NodesInv, Hatching, Saved
  <2> QED BY <2>1, TextFacts DEF FileName
<1>2. \A q \in Process \ {p} : /\ Writing(q, "contacts")' <=> Writing(q, "contacts")
                               /\ Hatching(q)' <=> Hatching(q)
  BY DEF Writing, Hatching
<1>3. \A q \in Process : proc'[q].pc \in {"ready", "upsert"} /\ ~Hatching(q)' => proc'[q].node = Saved'
  BY <1>1, <1>2, NothingOwned
<1>4. \A q \in Process : ~Writing(q, "contacts")'
  BY <1>1, <1>2, NothingOwned
<1>5. Parses("contacts")' => DOMAIN Contacts' = {}
  <2>1. Contacts' = Contacts /\ (Parses("contacts")' <=> Parses("contacts"))
    BY DEF Contacts, Parses
  <2> QED BY <1>1, <2>1, NothingOwned
<1> QED BY <1>3, <1>4, <1>5 DEF OwnInv

\* A step on the contact book: it takes a text that is right, or none.
LEMMA OwnBooked ==
  ASSUME OwnInv, proc' = proc, excuse'.overlap = excuse.overlap, file'["identity"] = file["identity"],
         \A q \in Process : /\ Writing(q, "contacts")' =>
                                 Writing(q, "contacts") /\ pen'[q].text = pen[q].text
                            /\ Hatching(q) => Hatching(q)',
         \/ file'["contacts"] = file["contacts"] \/ ~Parses("contacts")'
         \/ \E q \in Process : Writing(q, "contacts") /\ Contacts' = pen[q].text
  PROVE  OwnInv'
<1>1. Saved' = Saved
  BY DEF Saved
<1> SUFFICES ASSUME ~excuse.overlap, Parses("contacts")'
             PROVE  \A c \in DOMAIN Contacts' : Contacts'[c] = Saved
  BY <1>1 DEF OwnInv
<1>2. CASE file'["contacts"] = file["contacts"]
  <2>1. Contacts' = Contacts /\ Parses("contacts")
    BY <1>2 DEF Contacts, Parses
  <2> QED BY <2>1 DEF OwnInv
<1>3. ASSUME NEW q \in Process, Writing(q, "contacts"), Contacts' = pen[q].text
      PROVE  \A c \in DOMAIN Contacts' : Contacts'[c] = Saved
  BY <1>3 DEF OwnInv
<1> QED BY <1>2, <1>3

LEMMA OwnOpen ==
  ASSUME Typed, CodeInHand, NodesInv, OwnInv, NEW p \in Process, NEW f \in FileName, Open(p, f)
  PROVE  OwnInv'
<1>0. "contacts" \in FileName /\ "identity" \in FileName
  BY DEF FileName
<1>1. Writing(p, f) /\ Writing(p, f)' /\ \A g \in FileName : Writing(p, g)' => g = f
  BY OpenContacts, OpenFacts DEF Open, Writing
<1>2. \A q \in Process : Hatching(q)' <=> Hatching(q)
  BY <1>0, OpenContacts DEF Hatching
<1>3. CASE f = "identity"
  <2>1. file'["contacts"] = file["contacts"] /\ ~Writing(p, "contacts")' /\ Hatching(p)'
    BY <1>0, <1>1, <1>3, OpenFacts DEF Hatching
  <2> QED BY <1>1, <1>3, <2>1, OpenContacts, OpenFacts, OwnHatched
<1>4. CASE f # "identity"
  <2>1. file'["identity"] = file["identity"]
    BY <1>0, <1>4, OpenFacts
  <2>2. file'["contacts"] = file["contacts"] \/ ~Parses("contacts")'
    BY <1>0, OpenFacts DEF Emptied, Parses
  <2> QED BY <1>0, <1>2, <2>1, <2>2, OpenContacts, OwnBooked
<1> QED BY <1>3, <1>4

LEMMA OwnWrite ==
  ASSUME Typed, CodeInHand, NodesInv, OwnInv, NEW p \in Process, NEW f \in FileName, Write(p, f)
  PROVE  OwnInv'
<1>0. "contacts" \in FileName /\ "identity" \in FileName
  BY DEF FileName
<1>1. Writing(p, f) /\ pen[p].text \in Text[f] /\ file'[f] = Written(f, pen[p].text)
  BY WriteFacts, WriteContacts DEF HasOpen
<1>2. CASE f = "identity"
  <2>1. pen[p].text = proc[p].node
    BY <1>1, <1>2 DEF NodesInv
  <2>2. Saved' = proc[p].node
    <3>1. Length("identity", pen[p].text) = 1 /\ 1 >= file["identity"].length
      BY DEF Length, NodesInv
    <3> QED BY <1>1, <1>2, <2>1, <3>1 DEF Written, Saved
  <2>3. file'["contacts"] = file["contacts"] /\ ~Writing(p, "contacts")'
    BY <1>0, <1>2, WriteFacts, WriteContacts
  <2> QED BY <1>1, <1>2, <2>2, <2>3, WriteContacts, OwnHatched
<1>3. CASE f # "identity"
  <2>1. file'["identity"] = file["identity"] /\ ~Writing(p, "identity")
    BY <1>0, <1>3, WriteFacts, WriteContacts
  <2>2. \A q \in Process : Hatching(q) => Hatching(q)'
    BY <1>0, <2>1, WriteContacts DEF Hatching
  <2>3. \A q \in Process : Writing(q, "contacts")' => Writing(q, "contacts") /\ pen'[q].text = pen[q].text
    BY <1>0, WriteContacts
  <2>4. \/ file'["contacts"] = file["contacts"] \/ ~Parses("contacts")'
        \/ \E q \in Process : Writing(q, "contacts") /\ Contacts' = pen[q].text
    <3>1. CASE f = "contacts"
      <4>1. pen[p].text # None
        BY <1>0, <1>1, TextFacts
      <4>2. file'["contacts"].text \in {pen[p].text, Broken}
        BY <3>1, WriteContacts
      <4> QED BY <1>1, <3>1, <4>1, <4>2 DEF Parses, Contacts
    <3>2. CASE f # "contacts"
      BY <1>0, <3>2, WriteFacts
    <3> QED BY <3>1, <3>2
  <2> QED BY <2>1, <2>2, <2>3, <2>4, WriteContacts, OwnBooked
<1> QED BY <1>2, <1>3

LEMMA OwnRedeem ==
  ASSUME Typed, OwnInv, NEW p \in Process, NEW c \in Code, Redeem(p, c)
  PROVE  OwnInv'
<1>1. /\ file' = file /\ pen' = pen /\ Free(p) /\ proc[p].pc = "ready"
      /\ proc'[p].pc \in {"ready", "upsert"} /\ proc'[p].node = proc[p].node
      /\ \A q \in Process \ {p} : proc'[q] = proc[q]
  BY RedeemFacts DEF Redeem
<1>2. excuse'.overlap = excuse.overlap
  BY RedeemFacts DEF Typed, ExcuseState
<1>3. /\ \A q \in Process : Writing(q, "contacts")' <=> Writing(q, "contacts")
      /\ \A q \in Process : Hatching(q)' <=> Hatching(q)
      /\ Saved' = Saved /\ Contacts' = Contacts /\ (Parses("contacts")' <=> Parses("contacts"))
  BY <1>1 DEF Writing, Hatching, Saved, Contacts, Parses
<1> QED BY <1>1, <1>2, <1>3 DEF OwnInv

LEMMA OwnUpsert ==
  ASSUME Typed, CodeInHand, OwnInv, NEW p \in Process, Upsert(p)
  PROVE  OwnInv'
<1>0. "contacts" \in FileName
  BY DEF FileName
<1>1. /\ file' = file /\ Free(p) /\ proc[p].pc = "upsert" /\ proc'[p].pc = "ready"
      /\ proc'[p].node = proc[p].node /\ \A q \in Process \ {p} : proc'[q] = proc[q]
  BY UpsertFacts DEF Upsert
<1>2. excuse'.overlap = excuse.overlap
  BY UpsertFacts DEF Typed, ExcuseState
<1>3. Saved' = Saved /\ Contacts' = Contacts /\ (Parses("contacts")' <=> Parses("contacts")) /\ ~Hatching(p)
  BY <1>1 DEF Saved, Contacts, Parses, Hatching, Free, Writing
<1>4. CASE Parses("contacts") /\ Upserted(p) \in Text["contacts"] /\ Save(p, "contacts", Upserted(p))
  <2>1. /\ pen'[p].text = Upserted(p)
        /\ \A q \in Process \ {p} : pen'[q] = pen[q]
    BY <1>0, <1>4, SaveTyped
  <2>2. ~excuse.overlap => \A c \in DOMAIN Upserted(p) : Upserted(p)[c] = Saved
    BY <1>1, <1>3, <1>4 DEF OwnInv, Upserted
  <2>3. \A q \in Process \ {p} : /\ Writing(q, "contacts")' <=> Writing(q, "contacts")
                                 /\ Hatching(q)' <=> Hatching(q)
    BY <1>1, <2>1 DEF Writing, Hatching
  <2> QED BY <1>1, <1>2, <1>3, <2>1, <2>2, <2>3 DEF OwnInv
<1>5. CASE pen' = pen
  <2>1. \A q \in Process : /\ Writing(q, "contacts")' <=> Writing(q, "contacts")
                           /\ Hatching(q)' <=> Hatching(q)
    BY <1>1, <1>5 DEF Writing, Hatching
  <2> QED BY <1>1, <1>2, <1>3, <1>5, <2>1 DEF OwnInv
<1> QED BY <1>4, <1>5, UpsertCases

LEMMA OwnStep == Typed /\ FreeInv /\ NodesInv /\ SizesInv /\ OwnInv /\ [Next]_vars => OwnInv'
<1> SUFFICES ASSUME Typed, FreeInv, NodesInv, SizesInv, OwnInv, [Next]_vars PROVE OwnInv'
  OBVIOUS
<1>1. CodeInHand
  BY DEF SizesInv
<1>2. CASE UNCHANGED vars
  BY <1>2 DEF vars, OwnInv, Saved, Hatching, Parses, Contacts, Writing
<1> QED
  BY <1>1, <1>2, OwnOpen, OwnWrite, OwnRedeem, OwnUpsert, OwnKept,
     StartElsewhere, SetupElsewhere, ResolveElsewhere, LoadElsewhere, RegisterElsewhere,
     StopElsewhere, CrashElsewhere
  DEF Next

----------------------------------------------------------------------------
(* Together.                                                               *)

StateIInv == Typed /\ FreeInv /\ FilesInv /\ NodesInv /\ SizesInv /\ LinksInv /\ OwnInv

LEMMA FitInit == Init => SizesInv /\ LinksInv /\ OwnInv
<1> SUFFICES ASSUME Init PROVE SizesInv /\ LinksInv /\ OwnInv
  OBVIOUS
<1>1. /\ \A f \in FileName : file[f].text = None /\ file[f].length = 0
      /\ \A p \in Process : proc[p].pc = "off" /\ pen[p] = None
      /\ starts = 0 /\ DOMAIN links = {} /\ excuse.dropped = {}
  BY DEF Init, Off
<1>2. \A p \in Process, f \in FileName : ~Writing(p, f)
  BY <1>1 DEF Writing
<1>3. "contacts" \in FileName /\ Cardinality(Code) \in Nat
  BY StateAssumption, FS_CardinalityType DEF FileName
<1>4. SizesInv
  BY <1>1, <1>2, <1>3, StateAssumption DEF SizesInv, CodeInHand
<1>5. LinksInv
  BY <1>1, <1>2, <1>3 DEF LinksInv, LinksHaveContacts, BooksInv
<1>6. OwnInv
  BY <1>1, <1>2, <1>3 DEF OwnInv, Contacts
<1> QED BY <1>4, <1>5, <1>6

LEMMA FitTyped == StateIInv => TypeOK
<1> SUFFICES ASSUME StateIInv PROVE TypeOK
  OBVIOUS
<1>1. \A f \in FileName : /\ file[f].text \in Text[f] \cup {None, Broken}
                          /\ file[f].length \in 0 .. 6 + Cardinality(Code)
  <2>1. Cardinality(Code) \in Nat
    BY StateAssumption, FS_CardinalityType
  <2> QED BY <2>1 DEF StateIInv, Typed, SizesInv, FileState
<1>2. \A p \in Process :
        /\ proc[p].pc \in {"off", "resolve", "identity", "register", "ready", "upsert"}
        /\ proc[p].config \in Config /\ proc[p].base \in {None, "http", "https"}
        /\ proc[p].node \in Node \cup {None} /\ proc[p].code \in Code \cup {None}
        /\ pen[p] \in Page \cup {None}
  BY DEF StateIInv, Typed, ProcState
<1> QED BY <1>1, <1>2 DEF StateIInv, Typed, SizesInv, ExcuseState, TypeOK

\* Files, identity and contacts fit together for any number of processes,
\* codes, starts and interruptions: a contact is usable with the saved
\* identity, and a link that the relay has redeemed is in the book or on its
\* way, unless one of the named overlaps or losses happened.
THEOREM StateFits == Spec => []StateInv
<1>1. Init => StateIInv
  BY InitTyped, FilesInit, NodesInit, FitInit DEF StateIInv
<1>2. StateIInv /\ [Next]_vars => StateIInv'
  BY TypedStep, FreeStep, FilesStep, NodesStep, SizesStep, LinksStep, OwnStep DEF StateIInv
<1>3. StateIInv => StateInv
  <2>1. FilesInv => BrokenForAReason
    BY DEF FilesInv, BrokenForAReason
  <2>2. OwnInv => ContactsUsable
    BY DEF OwnInv, ContactsUsable, Saved
  <2> QED BY <2>1, <2>2, FitTyped DEF StateIInv, LinksInv, StateInv
<1> QED BY <1>1, <1>2, <1>3, PTL DEF Spec
=============================================================================
