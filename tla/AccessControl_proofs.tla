------------------------- MODULE AccessControl_proofs -------------------------
(***************************************************************************)
(* Proofs about AccessControl: when the cache may be stale, why the cached *)
(* decision is the database's, and what the legacy import leaves alone.    *)
(***************************************************************************)
EXTENDS AccessControl, TLAPS

\* Nothing committed after commit number at is unaccounted for.
Covered(at) ==
  \/ at >= commits \/ Announcing \/ silent > at \/ overtaken > at

\* A snapshot that is not behind holds what the database holds.
Faithful(s) ==
  /\ s.settingsAt <= commits
  /\ s.settingsAt = commits => s.settings = settings /\ s.rules = RulesRead

\* The token in the cache, and the loads in progress.
CacheCovered == Serving /\ seen = Token => Covered(snapshot.settingsAt)
LoadCovered ==
  /\ watch.pc = "rules"  => Covered(watch.at)
  /\ watch.pc = "marker" => Covered(watch.loaded.settingsAt)
CacheFaithful == Serving => Faithful(snapshot)
LoadFaithful ==
  /\ watch.pc = "rules"  => /\ watch.at <= commits
                            /\ watch.at = commits => watch.settings = settings
  /\ watch.pc = "marker" => Faithful(watch.loaded)

AccessIInv == TypeOK /\ CacheCovered /\ LoadCovered /\ CacheFaithful /\ LoadFaithful

USE AccessAssumption

----------------------------------------------------------------------------
(* What the types say of a process and of the watcher at a place.          *)

LEMMA AdminAt ==
  ASSUME TypeOK, NEW a \in Admin, admin[a].pc = "decided"
  PROVE  admin[a].change \in Change
BY DEF TypeOK, AdminState

LEMMA WatchAt ==
  ASSUME TypeOK
  PROVE  /\ watch.pc = "rules" => watch.settings \in Settings /\ watch.at \in Nat
         /\ watch.pc = "marker" => watch.loaded \in Snapshot
         /\ Serving => snapshot \in Snapshot
BY DEF TypeOK, WatchState, Serving

LEMMA Changes ==
  ASSUME TypeOK, NEW c \in Change
  PROVE  RulesAfter(c) \in Rules /\ SettingsAfter(c) \in Settings
<1>1. CASE c.kind = "rule"
  <2>1. c.ip \in Ip /\ c.action \in Action
    BY <1>1 DEF Change, Action
  <2> QED BY <1>1, <2>1 DEF TypeOK, RulesAfter, SettingsAfter, Rules
<1>2. CASE c.kind = "remove"
  <2>1. c.ip \in Ip
    BY <1>2 DEF Change
  <2> QED BY <1>2, <2>1 DEF TypeOK, RulesAfter, SettingsAfter, Rules, Action
<1>3. CASE c.kind = "policy"
  <2>1. c.policy \in {"allow", "deny"}
    BY <1>3 DEF Change
  <2> QED BY <1>3, <2>1 DEF TypeOK, RulesAfter, SettingsAfter, Settings
<1>4. CASE c.kind = "limit"
  <2>1. c.inbox \in InboxLimit
    BY <1>4 DEF Change
  <2> QED BY <1>4, <2>1 DEF TypeOK, RulesAfter, SettingsAfter, Settings
<1> QED BY <1>1, <1>2, <1>3, <1>4 DEF Change

LEMMA ImportTyped == TypeOK => Imported(rules) \in Rules
BY DEF TypeOK, Imported, Rules, Action

LEMMA PcTyped ==
  /\ \A pc \in {"idle", "callback", "command", "touch", "write"} : At(pc) \in AdminState
  /\ \A pc \in {"down", "wait", "settings"} : At(pc) \in WatchState
  /\ \A pc : At(pc).pc = pc
BY DEF At, AdminState, WatchState

----------------------------------------------------------------------------
(* Types.                                                                  *)

LEMMA InitTyped == Init => TypeOK
BY PcTyped DEF Init, TypeOK, Settings, Rules, Action, Absent

\* What EnsureAdminTables leaves typed.
LEMMA TablesTyped ==
  ASSUME TypeOK, EnsureAdminTables
  PROVE  /\ mode' \in Modes /\ settings' \in Settings /\ rules' \in Rules
         /\ commits' \in 0 .. MaxCommits /\ silent' \in 0 .. commits'
         /\ overtaken \in 0 .. commits'
BY ImportTyped DEF EnsureAdminTables, TypeOK

LEMMA TypeStep == TypeOK /\ [Next]_vars => TypeOK'
<1> SUFFICES ASSUME TypeOK, [Next]_vars PROVE TypeOK'
  OBVIOUS
<1>1. ASSUME NEW a \in Admin, Truncate(a) PROVE TypeOK'
  BY <1>1, PcTyped DEF Truncate, Overtake, TypeOK, database, server
<1>2. ASSUME NEW a \in Admin, Write(a) PROVE TypeOK'
  BY <1>2, PcTyped DEF Write, Overtake, TypeOK, database, server
<1>3. ASSUME NEW a \in Admin, Start(a) PROVE TypeOK'
  BY <1>3, PcTyped DEF Start, TypeOK, database, server
<1>4. ASSUME NEW a \in Admin, Callback(a) PROVE TypeOK'
  BY <1>4, PcTyped, TablesTyped DEF Callback, TypeOK, server
<1>5. ASSUME NEW a \in Admin, Decide(a) PROVE TypeOK'
  <2>1. PICK c \in Change : admin' = [admin EXCEPT ![a] =
                   IF Acceptable(c) THEN [pc |-> "decided", change |-> c]
                   ELSE At("idle")]
    BY <1>5 DEF Decide
  <2>2. [pc |-> "decided", change |-> c] \in AdminState
    BY DEF AdminState
  <2>3. admin' \in [Admin -> AdminState]
    BY <2>1, <2>2, PcTyped DEF TypeOK
  <2> QED BY <1>5, <2>3 DEF Decide, TypeOK, database, server
<1>6. ASSUME NEW a \in Admin, Commit(a) PROVE TypeOK'
  <2>1. RulesAfter(admin[a].change) \in Rules /\ SettingsAfter(admin[a].change) \in Settings
    BY <1>6, AdminAt, Changes DEF Commit
  <2>2. admin' \in [Admin -> AdminState]
    BY <1>6, PcTyped DEF Commit, TypeOK
  <2> QED BY <1>6, <2>1, <2>2 DEF Commit, TypeOK, server
<1>7. ASSUME NEW a \in Admin, Refuse(a) PROVE TypeOK'
  BY <1>7, PcTyped DEF Refuse, TypeOK, database, server
<1>8. ASSUME NEW a \in Admin, Kill(a) PROVE TypeOK'
  BY <1>8, PcTyped DEF Kill, TypeOK, database, server
<1>9. CASE Notice
  BY <1>9, PcTyped DEF Notice, TypeOK, database
<1>10. CASE LoadSettings
  <2>1. watch' \in WatchState
    BY <1>10 DEF LoadSettings, TypeOK, WatchState
  <2> QED BY <1>10, <2>1 DEF LoadSettings, TypeOK, database
<1>11. CASE LoadRules
  <2>1. RulesRead \in Rules
    BY DEF RulesRead, TypeOK, Rules, Action
  <2>2. watch' \in WatchState
    BY <1>11, <2>1, WatchAt DEF LoadRules, TypeOK, WatchState, Snapshot
  <2> QED BY <1>11, <2>2 DEF LoadRules, TypeOK, database
<1>12. CASE CreateMarker
  BY <1>12 DEF CreateMarker, TypeOK, database, server
<1>13. CASE Store
  BY <1>13, PcTyped, WatchAt DEF Store, TypeOK, database, Token, Absent
<1>14. CASE StartServer
  BY <1>14, PcTyped, TablesTyped DEF StartServer, TypeOK
<1>15. CASE StopServer
  BY <1>15, PcTyped DEF StopServer, TypeOK, database
<1>16. CASE FailReload
  BY <1>16, PcTyped DEF FailReload, TypeOK, database
<1>17. CASE UNCHANGED vars
  BY <1>17 DEF vars, TypeOK
<1> QED
  BY <1>1, <1>2, <1>3, <1>4, <1>5, <1>6, <1>7, <1>8, <1>9, <1>10, <1>11, <1>12,
     <1>13, <1>14, <1>15, <1>16, <1>17 DEF Next, Cli, Watcher

----------------------------------------------------------------------------
(* A commit that is accounted for stays so, except when the token of a     *)
(* later announcement replaces the marker outside of a load: and then the  *)
(* watcher has not seen the token.                                         *)

LEMMA CoveredKept ==
  ASSUME TypeOK, [Next]_vars, NEW at \in Nat, Covered(at), Loading \/ marker' = marker
  PROVE  Covered(at)'
<1> USE DEF Covered
<1>1. ASSUME NEW a \in Admin, Truncate(a) PROVE Covered(at)'
  BY <1>1 DEF Truncate, Announcing, At, TypeOK
<1>2. ASSUME NEW a \in Admin, Write(a) PROVE Covered(at)'
  <2>1. Loading /\ overtaken' = commits /\ commits' = commits
    BY <1>2 DEF Write, Overtake, TypeOK, Absent, database
  <2> QED BY <2>1 DEF TypeOK
<1>3. ASSUME NEW a \in Admin, Start(a) PROVE Covered(at)'
  BY <1>3 DEF Start, Announcing, At, TypeOK, database
<1>4. ASSUME NEW a \in Admin, Callback(a) PROVE Covered(at)'
  <2>1. Announcing => Announcing'
    BY <1>4 DEF Callback, Announcing, At, TypeOK
  <2>2. \/ commits' = commits /\ silent' = silent
        \/ silent' = commits' /\ commits' = commits + 1
    BY <1>4 DEF Callback, EnsureAdminTables
  <2> QED BY <1>4, <2>1, <2>2 DEF Callback, TypeOK
<1>5. ASSUME NEW a \in Admin, Decide(a) PROVE Covered(at)'
  <2>1. Announcing => Announcing'
    BY <1>5 DEF Decide, Announcing, TypeOK
  <2> QED BY <1>5, <2>1 DEF Decide, database
<1>6. ASSUME NEW a \in Admin, Commit(a) PROVE Covered(at)'
  <2>1. Announcing'
    BY <1>6 DEF Commit, Announced, Announcing, At, TypeOK
  <2> QED BY <2>1
<1>7. ASSUME NEW a \in Admin, Refuse(a) PROVE Covered(at)'
  BY <1>7 DEF Refuse, Announcing, At, TypeOK, database
<1>8. ASSUME NEW a \in Admin, Kill(a) PROVE Covered(at)'
  <2>1. CASE admin[a].pc \in {"touch", "write"}
    BY <1>8, <2>1 DEF Kill, TypeOK, database
  <2>2. CASE admin[a].pc \notin {"touch", "write"}
    BY <1>8, <2>2 DEF Kill, Announcing, At, TypeOK, database
  <2> QED BY <2>1, <2>2
<1>9. CASE Watcher
  BY <1>9 DEF Watcher, Notice, LoadSettings, LoadRules, CreateMarker, Store,
              Announcing, database, server
<1>10. CASE StartServer
  <2>1. \/ commits' = commits /\ silent' = silent
        \/ silent' = commits' /\ commits' = commits + 1
    BY <1>10 DEF StartServer, EnsureAdminTables
  <2> QED BY <1>10, <2>1 DEF StartServer, Announcing, TypeOK
<1>11. CASE StopServer \/ FailReload \/ UNCHANGED vars
  BY <1>11 DEF StopServer, FailReload, vars, Announcing, database
<1> QED
  BY <1>1, <1>2, <1>3, <1>4, <1>5, <1>6, <1>7, <1>8, <1>9, <1>10, <1>11 DEF Next, Cli

\* The watcher's variables and the marker change in the watcher's steps, in
\* start and stop, and the marker in the two halves of a touch.
LEMMA ServerSteps ==
  ASSUME [Next]_vars
  PROVE  \/ Watcher \/ StartServer \/ StopServer \/ FailReload
         \/ UNCHANGED server /\ \/ marker' = marker
                                \/ \E a \in Admin : Truncate(a) \/ Write(a)
BY DEF Next, Cli, Start, Callback, Decide, Commit, Refuse, Truncate, Write, Kill, vars, server

LEMMA CacheCoveredStep ==
  ASSUME AccessIInv, [Next]_vars
  PROVE  CacheCovered'
<1> SUFFICES ASSUME Serving', seen' = Token' PROVE Covered(snapshot.settingsAt)'
  BY DEF CacheCovered
<1> TypeOK /\ CacheCovered /\ LoadCovered
  BY DEF AccessIInv
<1>1. CASE Store
  <2>1. watch.pc = "marker" /\ snapshot' = watch.loaded /\ marker' = marker
    BY <1>1 DEF Store
  <2>2. watch.loaded.settingsAt \in Nat
    BY <2>1, WatchAt DEF Snapshot
  <2>3. Covered(watch.loaded.settingsAt)
    BY <2>1 DEF LoadCovered
  <2>4. commits' = commits /\ silent' = silent /\ overtaken' = overtaken /\ admin' = admin
    BY <1>1 DEF Store, database
  <2> QED BY <2>1, <2>3, <2>4 DEF Covered, Announcing
<1>2. ASSUME NEW a \in Admin, Truncate(a) PROVE Covered(snapshot.settingsAt)'
  BY <1>2 DEF Truncate, Covered, Announcing, At, TypeOK
<1>3. ASSUME NEW a \in Admin, Write(a) PROVE FALSE
  BY <1>3 DEF Write, Token, TypeOK, Absent, server
<1>4. CASE StopServer \/ CreateMarker
  BY <1>4 DEF StopServer, CreateMarker, Serving, server
<1>5. CASE snapshot' = snapshot /\ seen' = seen /\ marker' = marker
  <2>1. Serving /\ Token' = Token /\ snapshot \in Snapshot
    BY <1>5, WatchAt DEF Serving, Token
  <2>2. Covered(snapshot.settingsAt) /\ snapshot.settingsAt \in Nat
    BY <1>5, <2>1 DEF CacheCovered, Snapshot
  <2>3. ASSUME NEW at \in Nat, Covered(at) PROVE Covered(at)'
    BY <1>5, <2>3, CoveredKept
  <2>4. PICK at \in Nat : at = snapshot.settingsAt
    BY <2>2
  <2>5. Covered(at)' /\ snapshot'.settingsAt = at
    BY <1>5, <2>2, <2>3, <2>4
  <2> QED BY <2>5 DEF Covered
<1> QED
  BY <1>1, <1>2, <1>3, <1>4, <1>5, ServerSteps
  DEF Watcher, Notice, LoadSettings, LoadRules, StartServer, FailReload, server

LEMMA LoadCoveredStep ==
  ASSUME AccessIInv, [Next]_vars
  PROVE  LoadCovered'
<1> TypeOK /\ LoadCovered
  BY DEF AccessIInv
<1>1. CASE LoadSettings
  BY <1>1 DEF LoadSettings, LoadCovered, Covered, TypeOK, database
<1>2. CASE LoadRules
  <2>1. Covered(watch.at) /\ watch'.pc = "marker" /\ watch'.loaded.settingsAt = watch.at
    BY <1>2 DEF LoadRules, LoadCovered
  <2>2. commits' = commits /\ silent' = silent /\ overtaken' = overtaken /\ admin' = admin
    BY <1>2 DEF LoadRules, database
  <2> QED BY <2>1, <2>2 DEF LoadCovered, Covered, Announcing
<1>3. CASE Notice \/ Store \/ StartServer \/ StopServer \/ FailReload
  BY <1>3 DEF Notice, Store, StartServer, StopServer, FailReload, LoadCovered, At
<1>4. CASE watch' = watch
  <2>1. ASSUME Loading, NEW at \in Nat, Covered(at) PROVE Covered(at)'
    BY <2>1, CoveredKept
  <2>2. ASSUME watch.pc = "rules" PROVE Covered(watch.at)'
    <3>1. PICK at \in Nat : at = watch.at
      BY <2>2, WatchAt
    <3>2. Covered(at)' /\ watch'.at = at
      BY <1>4, <2>1, <2>2, <3>1 DEF LoadCovered, Loading
    <3> QED BY <3>2 DEF Covered
  <2>3. ASSUME watch.pc = "marker" PROVE Covered(watch.loaded.settingsAt)'
    <3>1. PICK at \in Nat : at = watch.loaded.settingsAt
      BY <2>3, WatchAt DEF Snapshot
    <3>2. Covered(at)' /\ watch'.loaded.settingsAt = at
      BY <1>4, <2>1, <2>3, <3>1 DEF LoadCovered, Loading
    <3> QED BY <3>2 DEF Covered
  <2> QED BY <1>4, <2>2, <2>3 DEF LoadCovered
<1> QED
  BY <1>1, <1>2, <1>3, <1>4, ServerSteps DEF Watcher, CreateMarker, server

----------------------------------------------------------------------------
(* What is current is what the database holds.                             *)

LEMMA DatabaseSteps ==
  ASSUME [Next]_vars
  PROVE  /\ mode' = mode
         /\ \/ commits' = commits + 1
            \/ commits' = commits /\ settings' = settings /\ rules' = rules
BY DEF Next, Cli, Watcher, Start, Callback, Decide, Commit, Refuse, Truncate, Write, Kill,
       Notice, LoadSettings, LoadRules, CreateMarker, Store, StartServer, StopServer,
       FailReload, EnsureAdminTables, vars, database

LEMMA FaithfulKept ==
  ASSUME TypeOK, [Next]_vars, NEW s \in Snapshot, Faithful(s)
  PROVE  Faithful(s)'
<1>1. s.settingsAt \in Nat /\ commits \in Nat
  BY DEF Snapshot, TypeOK
<1>2. CASE commits' = commits + 1
  BY <1>1, <1>2 DEF Faithful
<1>3. CASE commits' = commits /\ settings' = settings /\ rules' = rules
  BY <1>3, DatabaseSteps DEF Faithful, RulesRead
<1> QED BY <1>2, <1>3, DatabaseSteps

LEMMA CacheFaithfulStep ==
  ASSUME AccessIInv, [Next]_vars
  PROVE  CacheFaithful'
<1> TypeOK /\ CacheFaithful /\ LoadFaithful
  BY DEF AccessIInv
<1> SUFFICES ASSUME Serving' PROVE Faithful(snapshot)'
  BY DEF CacheFaithful
<1>1. CASE Store
  <2>1. watch.pc = "marker" /\ snapshot' = watch.loaded
    BY <1>1 DEF Store
  <2>2. PICK s \in Snapshot : s = watch.loaded
    BY <2>1, WatchAt
  <2>3. Faithful(s)'
    BY <2>1, <2>2, FaithfulKept DEF LoadFaithful
  <2> QED BY <2>1, <2>2, <2>3 DEF Faithful
<1>2. CASE StopServer
  BY <1>2 DEF StopServer, Serving
<1>3. CASE snapshot' = snapshot
  <2>1. PICK s \in Snapshot : s = snapshot
    BY <1>3, WatchAt DEF Serving
  <2>2. Faithful(s)'
    BY <1>3, <2>1, FaithfulKept DEF CacheFaithful, Serving
  <2> QED BY <1>3, <2>1, <2>2 DEF Faithful
<1> QED
  BY <1>1, <1>2, <1>3, ServerSteps
  DEF Watcher, Notice, LoadSettings, LoadRules, CreateMarker, StartServer, FailReload, server

LEMMA LoadFaithfulStep ==
  ASSUME AccessIInv, [Next]_vars
  PROVE  LoadFaithful'
<1> TypeOK /\ LoadFaithful
  BY DEF AccessIInv
<1>1. CASE LoadSettings
  BY <1>1 DEF LoadSettings, LoadFaithful, TypeOK, database
<1>2. CASE LoadRules
  BY <1>2 DEF LoadRules, LoadFaithful, Faithful, RulesRead, database
<1>3. CASE Notice \/ Store \/ StartServer \/ StopServer \/ FailReload
  BY <1>3 DEF Notice, Store, StartServer, StopServer, FailReload, LoadFaithful, At
<1>4. CASE watch' = watch
  <2>1. ASSUME watch.pc = "rules"
        PROVE  watch.at <= commits' /\ (watch.at = commits' => watch.settings = settings')
    BY <2>1, WatchAt, DatabaseSteps DEF LoadFaithful, TypeOK
  <2>2. ASSUME watch.pc = "marker" PROVE Faithful(watch.loaded)'
    <3>1. PICK s \in Snapshot : s = watch.loaded
      BY <2>2, WatchAt
    <3>2. Faithful(s)'
      BY <2>2, <3>1, FaithfulKept DEF LoadFaithful
    <3> QED BY <1>4, <3>1, <3>2 DEF Faithful
  <2> QED BY <1>4, <2>1, <2>2 DEF LoadFaithful
<1> QED
  BY <1>1, <1>2, <1>3, <1>4, ServerSteps DEF Watcher, CreateMarker, server

----------------------------------------------------------------------------
LEMMA AccessInductive == Spec => []AccessIInv
<1>1. Init => AccessIInv
  BY InitTyped DEF Init, AccessIInv, CacheCovered, LoadCovered, CacheFaithful, LoadFaithful,
                   Serving, At
<1>2. AccessIInv /\ [Next]_vars => AccessIInv'
  BY TypeStep, CacheCoveredStep, LoadCoveredStep, CacheFaithfulStep, LoadFaithfulStep
  DEF AccessIInv
<1> QED BY <1>1, <1>2, PTL DEF Spec

\* For any number of admin processes, addresses, commits and faults: a cache
\* that the watcher takes for current is behind the database only if an
\* announcement is under way, was lost with its process or an import, or came
\* during a reload.
THEOREM StalenessExplained == Spec => []StaleForAReason
<1>1. AccessIInv => StaleForAReason
  <2> SUFFICES ASSUME AccessIInv, Serving, seen = Token, Behind(snapshot.settingsAt)
               PROVE  FALSE
    BY DEF StaleForAReason
  <2>1. snapshot.settingsAt \in Nat /\ commits \in Nat /\ silent \in Nat /\ overtaken \in Nat
    BY WatchAt DEF AccessIInv, Snapshot, TypeOK
  <2>2. Covered(snapshot.settingsAt)
    BY DEF AccessIInv, CacheCovered
  <2> QED BY <2>1, <2>2 DEF Covered, Behind
<1> QED BY <1>1, AccessInductive, PTL

\* On a snapshot that equals the database the two decisions are one.
LEMMA DecisionsEqual ==
  ASSUME TypeOK, Serving, snapshot.settings = settings, snapshot.rules = RulesRead,
         NEW i \in Ip \cup {NoIp}
  PROVE  /\ AllowedByCache(i) <=> AllowedByDatabase(i)
         /\ Blocked(i) => ~AllowedByCache(i)
<1> USE DEF Serving, StaticallyDenied
<1>1. CASE mode = "off"
  BY <1>1 DEF AllowedByCache, AllowedByDatabase, Blocked
<1>2. CASE mode = "config"
  BY <1>2 DEF AllowedByCache, AllowedByDatabase, Blocked
<1>3. CASE mode = "dynamic"
  <2>1. snapshot.rules = rules
    BY <1>3 DEF RulesRead
  <2>2. i = NoIp => i \notin Ip /\ i \notin StaticDenied
    OBVIOUS
  <2>3. i \in Ip => rules[i] \in {"none", "allow", "deny"}
    BY DEF TypeOK, Rules, Action
  <2>4. CASE i = NoIp
    BY <1>3, <2>1, <2>2, <2>4 DEF AllowedByCache, AllowedByDatabase, Blocked
  <2>5. CASE i \in Ip /\ rules[i] = "none"
    BY <1>3, <2>1, <2>2, <2>5 DEF AllowedByCache, AllowedByDatabase, Blocked
  <2>6. CASE i \in Ip /\ rules[i] # "none"
    BY <1>3, <2>1, <2>2, <2>3, <2>6 DEF AllowedByCache, AllowedByDatabase, Blocked
  <2> QED BY <2>4, <2>5, <2>6
<1> QED BY <1>1, <1>2, <1>3 DEF TypeOK

\* Types are kept, and a current snapshot decides every address, in every mode
\* and under every sequence of changes, as the database would.
THEOREM CacheDecidesAsDatabase == Spec => []AccessInv
<1>1. AccessIInv => AccessInv
  <2> SUFFICES ASSUME AccessIInv PROVE AccessInv
    OBVIOUS
  <2>1. TypeOK
    BY DEF AccessIInv
  <2>2. ASSUME Serving, snapshot.settingsAt = commits, NEW i \in Ip \cup {NoIp}
        PROVE  /\ AllowedByCache(i) <=> AllowedByDatabase(i)
               /\ Blocked(i) => ~AllowedByCache(i)
    <3>1. snapshot.settings = settings /\ snapshot.rules = RulesRead
      BY <2>2 DEF AccessIInv, CacheFaithful, Faithful
    <3> QED BY <2>1, <2>2, <3>1, DecisionsEqual
  <2> QED BY <2>1, <2>2 DEF AccessInv, CachedDecisionsAgree
<1> QED BY <1>1, AccessInductive, PTL

\* However often the tables are prepared, an administrator's rule changes only
\* in the commit of a command.
THEOREM ImportsKeepRules == Spec => ImportKeepsRules
<1>1. ASSUME TypeOK, [Next]_vars, NEW i \in Ip, rules[i] # "none", rules'[i] # rules[i]
      PROVE  \E a \in Admin : admin[a].pc = "decided" /\ admin'[a].pc = "touch"
  <2>1. ASSUME EnsureAdminTables PROVE rules'[i] = rules[i]
    BY <1>1, <2>1 DEF EnsureAdminTables, Imported
  <2>2. ASSUME NEW a \in Admin, Commit(a)
        PROVE  admin[a].pc = "decided" /\ admin'[a].pc = "touch"
    BY <1>1, <2>2 DEF Commit, Announced, At, TypeOK
  <2>3. \/ EnsureAdminTables \/ rules' = rules \/ \E a \in Admin : Commit(a)
    BY <1>1 DEF Next, Cli, Watcher, Start, Callback, Decide, Refuse, Truncate, Write, Kill,
           Notice, LoadSettings, LoadRules, CreateMarker, Store, StartServer, StopServer,
           FailReload, vars, database
  <2> QED BY <1>1, <2>1, <2>2, <2>3
<1>2. TypeOK /\ [Next]_vars =>
        [\A i \in Ip : rules[i] # "none" /\ rules'[i] # rules[i] =>
           \E a \in Admin : admin[a].pc = "decided" /\ admin'[a].pc = "touch"]_vars
  BY <1>1
<1>3. AccessIInv => TypeOK
  BY DEF AccessIInv
<1> QED BY <1>2, <1>3, AccessInductive, PTL DEF Spec, ImportKeepsRules
=============================================================================
