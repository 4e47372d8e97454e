----------------------------- MODULE AccessControl -----------------------------
(***************************************************************************)
(* The runtime settings and IP rules of the relay, the admin CLI processes *)
(* that change them, and the snapshot the server decides on:               *)
(* admin_services.py, db.py and runtime_access_cache.py.  A CLI commits    *)
(* its change and then touches a marker file; a thread of the server       *)
(* compares the marker with the one it saw last and reloads the snapshot.  *)
(* Every commit has a number, and a snapshot carries the number current    *)
(* when its settings were read and the one current when its rules were.    *)
(***************************************************************************)
EXTENDS Integers, FiniteSets, FiniteSetsExt

CONSTANTS
  Admin,          \* processes of the admin CLI
  Ip,             \* addresses that parse
  NoIp,           \* a client address that does not parse
  Modes,          \* the ip_access_mode of the configurations considered
  StaticDenied,   \* blacklist.client_ips of the configuration
  Legacy,         \* the addresses in the blocked_ips table of old databases
  InboxLimit,     \* values of one runtime setting that is not about IPs
  None,           \* no snapshot
  MaxCommits,     \* bound: commits that change something
  MaxFaults       \* bound: processes that stop, reloads that fail

ASSUME AccessAssumption ==
  /\ NoIp \notin Ip /\ StaticDenied \subseteq Ip /\ Legacy \subseteq Ip
  /\ Modes \subseteq {"off", "config", "dynamic"}
  /\ MaxCommits \in Nat /\ MaxFaults \in Nat

VARIABLES
  mode,           \* ip_access_mode, fixed by the configuration
  settings,       \* the row of runtime_settings
  rules,          \* the table ip_access_rules, "none" for an absent row
  commits,        \* commits of settings or rules so far
  marker,         \* the marker file: Absent, 0 when empty, or a token
  stamp,          \* the last token taken from the clock
  admin,          \* what each CLI process is doing
  snapshot, seen, \* _snapshot, _last_marker_token
  watch,          \* the server: down, waiting, or in the middle of a reload
  silent,         \* the last commit whose announcement was lost
  overtaken,      \* the last commit announced behind a reload's back
  faults

vars == <<mode, settings, rules, commits, marker, stamp, admin, snapshot,
          seen, watch, silent, overtaken, faults>>
database == <<mode, settings, rules, commits>>
server   == <<snapshot, seen, watch>>

Absent   == -1
Action   == {"none", "allow", "deny"}
Settings == [policy : {"allow", "deny"}, inbox : InboxLimit]
Rules    == [Ip -> Action]
Snapshot == [settings : Settings, rules : Rules, settingsAt : Nat, rulesAt : Nat]
Change   == [kind : {"rule"}, ip : Ip, action : {"allow", "deny"}]
            \cup [kind : {"remove"}, ip : Ip]
            \cup [kind : {"policy"}, policy : {"allow", "deny"}]
            \cup [kind : {"limit"}, inbox : InboxLimit]
AdminState ==
  [pc : {"idle", "callback", "command", "touch", "write"}]
  \cup [pc : {"decided"}, change : Change]
WatchState ==
  [pc : {"down", "wait", "settings"}]
  \cup [pc : {"rules"}, settings : Settings, at : Nat]
  \cup [pc : {"marker"}, loaded : Snapshot]

At(pc)     == [pc |-> pc]
Token      == IF marker = Absent THEN 0 ELSE marker
Serving    == snapshot # None
Announcing == \E a \in Admin : admin[a].pc \in {"touch", "write"}
Loading    == watch.pc \in {"rules", "marker"}
Allows     == {i \in Ip : rules[i] = "allow"}

----------------------------------------------------------------------------
(* Decisions about one client address.                                     *)

StaticallyDenied(i) == i \in StaticDenied

\* is_ip_allowed: the database decides.
AllowedByDatabase(i) ==
  CASE mode = "off"    -> TRUE
    [] mode = "config" -> ~StaticallyDenied(i)
    [] OTHER -> IF i \in Ip /\ rules[i] # "none" THEN rules[i] = "allow"
                ELSE ~StaticallyDenied(i) /\ settings.policy = "allow"

\* is_ip_blocked: an explicit or static denial.
Blocked(i) ==
  CASE mode = "off" -> FALSE
    [] mode = "config" \/ i = NoIp -> StaticallyDenied(i)
    [] OTHER -> IF rules[i] # "none" THEN rules[i] = "deny"
                ELSE StaticallyDenied(i)

\* faulty: the static list is looked at before the explicit allow rules.
StaticFirst(i) ==
  IF snapshot = None THEN mode = "off" \/ ~StaticallyDenied(i)
  ELSE \/ mode = "off"
       \/ /\ mode # "off" /\ ~StaticallyDenied(i)
          /\ \/ mode = "config"
             \/ i \in {x \in Ip : snapshot.rules[x] = "allow"}
             \/ /\ i \notin {x \in Ip : snapshot.rules[x] = "deny"}
                /\ snapshot.settings.policy = "allow"

\* is_ip_allowed_cached: the snapshot decides, in the order of its tests.
AllowedByCache(i) ==
  IF snapshot = None THEN mode = "off" \/ ~StaticallyDenied(i)
  ELSE \/ mode = "off"
       \/ mode = "config" /\ ~StaticallyDenied(i)
       \/ /\ mode = "dynamic"
          /\ \/ i \in {x \in Ip : snapshot.rules[x] = "allow"}
             \/ /\ i \notin {x \in Ip : snapshot.rules[x] = "deny"}
                /\ ~StaticallyDenied(i)
                /\ snapshot.settings.policy = "allow"

----------------------------------------------------------------------------
(* Commits, and the marker that announces them.                            *)

\* faulty: the import does not look for a rule that exists.
ImportedAnyway(old) == [i \in Ip |-> IF i \in Legacy THEN "deny" ELSE old[i]]

\* ensure_admin_tables: an address of the legacy table gets a rule again
\* unless it has one.
Imported(old) ==
  [i \in Ip |-> IF i \in Legacy /\ old[i] = "none" THEN "deny" ELSE old[i]]

\* It runs once in each process, in a transaction that announces nothing.
EnsureAdminTables ==
  /\ rules' = Imported(rules)
  /\ IF rules' = rules THEN UNCHANGED <<commits, silent>>
     ELSE commits < MaxCommits /\ commits' = commits + 1 /\ silent' = commits'
  /\ UNCHANGED <<mode, settings>>

\* A touch during a reload is recorded as seen although the reload may have
\* read the database before the commit.
Overtake == overtaken' = IF Loading THEN commits ELSE overtaken

\* touch_runtime_access_marker writes the time into the file, which is empty
\* for a moment.
Truncate(a) ==
  /\ admin[a].pc = "touch"
  /\ marker' = 0
  /\ Overtake
  /\ admin' = [admin EXCEPT ![a] = At("write")]
  /\ UNCHANGED <<database, server, stamp, silent, faults>>

Write(a) ==
  /\ admin[a].pc = "write"
  /\ stamp' = stamp + 1
  /\ marker' = stamp'
  /\ Overtake
  /\ admin' = [admin EXCEPT ![a] = At("idle")]
  /\ UNCHANGED <<database, server, silent, faults>>

----------------------------------------------------------------------------
(* A CLI process: the callback prepares the tables, the command runs in a  *)
(* session of its own.                                                     *)

Start(a) ==
  /\ admin[a].pc = "idle" /\ commits < MaxCommits
  /\ admin' = [admin EXCEPT ![a] = At("callback")]
  /\ UNCHANGED <<database, server, marker, stamp, silent, overtaken, faults>>

Callback(a) ==
  /\ admin[a].pc = "callback"
  /\ EnsureAdminTables
  /\ admin' = [admin EXCEPT ![a] = At("command")]
  /\ UNCHANGED <<server, marker, stamp, overtaken, faults>>

\* The checks of the command that are made before its transaction opens: a
\* default of deny needs an allow rule, and is refused without one.
Acceptable(c) == c.kind = "policy" /\ c.policy = "deny" => Allows # {}

Decide(a) ==
  /\ admin[a].pc = "command"
  /\ \E c \in Change :
       admin' = [admin EXCEPT ![a] =
                   IF Acceptable(c) THEN [pc |-> "decided", change |-> c]
                   ELSE At("idle")]
  /\ UNCHANGED <<database, server, marker, stamp, silent, overtaken, faults>>

\* What a change does to the rules.  Removing a rule that is not there is an
\* error, found by the DELETE.
RulesAfter(c) ==
  CASE c.kind = "rule"   -> [rules EXCEPT ![c.ip] = c.action]
    [] c.kind = "remove" -> [rules EXCEPT ![c.ip] = "none"]
    [] OTHER             -> rules

SettingsAfter(c) ==
  CASE c.kind = "policy" -> [settings EXCEPT !.policy = c.policy]
    [] c.kind = "limit"  -> [settings EXCEPT !.inbox = c.inbox]
    [] OTHER             -> settings

NotFound(c) == c.kind = "remove" /\ rules[c.ip] = "none"

\* faulty: remove_ip_rule forgets mark_runtime_access_dirty.
SilentRemoval(c) == c.kind # "remove"

\* Whether a change marks its session, so that the marker is touched.
Announced(c) == TRUE

Commit(a) ==
  /\ admin[a].pc = "decided"
  /\ ~NotFound(admin[a].change)
  /\ commits < MaxCommits /\ commits' = commits + 1
  /\ rules' = RulesAfter(admin[a].change)
  /\ settings' = SettingsAfter(admin[a].change)
  /\ admin' = [admin EXCEPT ![a] =
                 IF Announced(admin[a].change) THEN At("touch") ELSE At("idle")]
  /\ UNCHANGED <<mode, server, marker, stamp, silent, overtaken, faults>>

Refuse(a) ==
  /\ admin[a].pc = "decided"
  /\ NotFound(admin[a].change)
  /\ admin' = [admin EXCEPT ![a] = At("idle")]
  /\ UNCHANGED <<database, server, marker, stamp, silent, overtaken, faults>>

\* The process is killed.  Between its commit and the end of its touch the
\* announcement is lost with it.
Kill(a) ==
  /\ admin[a].pc # "idle"
  /\ faults < MaxFaults /\ faults' = faults + 1
  /\ silent' = IF admin[a].pc \in {"touch", "write"} THEN commits ELSE silent
  /\ admin' = [admin EXCEPT ![a] = At("idle")]
  /\ UNCHANGED <<database, server, marker, stamp, overtaken>>

----------------------------------------------------------------------------
(* The server: start-up and the watcher thread.                            *)

\* on_startup: the tables first, then the first load.
StartServer ==
  /\ watch.pc = "down"
  /\ EnsureAdminTables
  /\ watch' = At("settings")
  /\ UNCHANGED <<marker, stamp, admin, snapshot, seen, overtaken, faults>>

StopServer ==
  /\ watch.pc # "down"
  /\ faults < MaxFaults /\ faults' = faults + 1
  /\ watch' = At("down") /\ snapshot' = None /\ seen' = 0
  /\ UNCHANGED <<database, marker, stamp, admin, silent, overtaken>>

\* One pass of _watcher_loop that finds another token than the last.
Notice ==
  /\ watch.pc = "wait" /\ Token # seen
  /\ watch' = At("settings")
  /\ UNCHANGED <<database, marker, stamp, admin, snapshot, seen, silent,
                 overtaken, faults>>

\* _load_snapshot_from_db: two queries, each a transaction of its own.
LoadSettings ==
  /\ watch.pc = "settings"
  /\ watch' = [pc |-> "rules", settings |-> settings, at |-> commits]
  /\ UNCHANGED <<database, marker, stamp, admin, snapshot, seen, silent,
                 overtaken, faults>>

RulesRead == IF mode = "dynamic" THEN rules ELSE [i \in Ip |-> "none"]

LoadRules ==
  /\ watch.pc = "rules"
  /\ watch' = [pc |-> "marker",
               loaded |-> [settings |-> watch.settings, rules |-> RulesRead,
                           settingsAt |-> watch.at, rulesAt |-> commits]]
  /\ UNCHANGED <<database, marker, stamp, admin, snapshot, seen, silent,
                 overtaken, faults>>

\* initialize_runtime_access_cache creates the marker when there is none.
CreateMarker ==
  /\ watch.pc = "marker" /\ snapshot = None /\ marker = Absent
  /\ stamp' = stamp + 1 /\ marker' = stamp'
  /\ UNCHANGED <<database, server, admin, silent, overtaken, faults>>

\* The marker is read when the database has been, and both are stored.
Store ==
  /\ watch.pc = "marker"
  /\ snapshot = None => marker # Absent
  /\ snapshot' = watch.loaded /\ seen' = Token
  /\ watch' = At("wait")
  /\ UNCHANGED <<database, marker, stamp, admin, silent, overtaken, faults>>

\* faulty: the token is stored when it is noticed, before the reload.
FailAfterStoring ==
  /\ watch.pc \in {"settings", "rules"}
  /\ faults < MaxFaults /\ faults' = faults + 1
  /\ watch' = IF snapshot = None THEN At("down") ELSE At("wait")
  /\ seen' = Token
  /\ UNCHANGED <<database, marker, stamp, admin, snapshot, silent, overtaken>>

\* A reload that fails is logged and left to the next pass, for the token is
\* not stored; at start-up it ends the server.
FailReload ==
  /\ watch.pc \in {"settings", "rules"}
  /\ faults < MaxFaults /\ faults' = faults + 1
  /\ watch' = IF snapshot = None THEN At("down") ELSE At("wait")
  /\ UNCHANGED <<database, marker, stamp, admin, snapshot, seen, silent,
                 overtaken>>

----------------------------------------------------------------------------
Init ==
  /\ mode \in Modes
  /\ \E l \in InboxLimit : settings = [policy |-> "allow", inbox |-> l]
  /\ rules = [i \in Ip |-> "none"]
  /\ commits = 0 /\ stamp = 0 /\ marker = Absent
  /\ admin = [a \in Admin |-> At("idle")]
  /\ snapshot = None /\ seen = 0 /\ watch = At("down")
  /\ silent = 0 /\ overtaken = 0 /\ faults = 0

Cli(a) ==
  \/ Start(a) \/ Callback(a) \/ Decide(a) \/ Commit(a) \/ Refuse(a)
  \/ Truncate(a) \/ Write(a) \/ Kill(a)

Watcher == Notice \/ LoadSettings \/ LoadRules \/ CreateMarker \/ Store

Next == (\E a \in Admin : Cli(a)) \/ Watcher
        \/ StartServer \/ StopServer \/ FailReload

\* The watcher is a thread that polls twice a second; a CLI that has
\* committed goes on to the touch.
Fairness == WF_vars(Watcher)
            /\ \A a \in Admin : WF_vars(Truncate(a) \/ Write(a))

Spec == Init /\ [][Next]_vars /\ Fairness

----------------------------------------------------------------------------
\* Settings, rules, marker, processes and snapshot keep their types.
TypeOK ==
  /\ mode \in Modes /\ settings \in Settings /\ rules \in Rules
  /\ commits \in 0 .. MaxCommits /\ faults \in 0 .. MaxFaults
  /\ stamp \in Nat /\ marker \in {Absent} \cup 0 .. stamp
  /\ seen \in 0 .. stamp
  /\ admin \in [Admin -> AdminState]
  /\ snapshot \in Snapshot \cup {None}
  /\ watch \in WatchState
  /\ silent \in 0 .. commits /\ overtaken \in 0 .. commits

\* Behind(at): something committed later than commit number at, and nothing
\* excuses that: no CLI is about to announce it, its announcement was not
\* lost, and no reload was overtaken.
Behind(at) == at < commits /\ ~Announcing /\ silent <= at /\ overtaken <= at

\* A snapshot that the watcher takes for current (its token is the marker's)
\* holds the latest commit, unless an announcement is under way, was lost
\* with its process or a silent import, or came during a reload.  The
\* hand-over of commit, marker and reload loses nothing in any other way.
StaleForAReason ==
  Serving /\ seen = Token => ~Behind(snapshot.settingsAt)

\* is_ip_allowed_cached and is_ip_allowed are two implementations of one
\* decision: on a current snapshot they agree for every address and mode,
\* and neither lets in what is_ip_blocked calls blocked.
CachedDecisionsAgree ==
  Serving /\ snapshot.settingsAt = commits =>
    \A i \in Ip \cup {NoIp} :
      /\ AllowedByCache(i) <=> AllowedByDatabase(i)
      /\ Blocked(i) => ~AllowedByCache(i)

\* The two implementations of the decision agree in every state the types
\* allow the system to reach.
AccessInv == TypeOK /\ CachedDecisionsAgree

\* The import of the legacy table, repeated by every process, never changes
\* a rule that an administrator has set: only a command does.
ImportKeepsRules ==
  [][\A i \in Ip : rules[i] # "none" /\ rules'[i] # rules[i] =>
       \E a \in Admin : admin[a].pc = "decided" /\ admin'[a].pc = "touch"]_vars

\* The snapshot holds commit number n.
Serves(n) == Serving /\ snapshot.settingsAt >= n

\* A commit the watcher can notice (it waits, and the token differs from the
\* one it knows) is in the snapshot eventually, torn loads, truncated markers
\* and failed reloads notwithstanding, as long as the server runs and no
\* later announcement is lost with its process.
NoticedIsServed ==
  \A n \in 1 .. MaxCommits :
    (watch.pc = "wait" /\ Token # seen /\ commits >= n)
      ~> (Serves(n) \/ ~Serving \/ silent >= n)

\* ADMIN_CLI.md promises "live runtime setting changes without a server
\* restart": while no process stops, what a command commits is served in
\* the end, whatever reload it falls into.
LiveWithoutRestart ==
  \A n \in 1 .. MaxCommits :
    (Serving /\ commits >= n /\ Announcing) ~> (Serves(n) \/ faults > 0)
=============================================================================
