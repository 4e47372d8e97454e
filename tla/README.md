# ARQS in TLA+

ARQS is an authenticated store-and-forward relay for small packets. A client
registers a *node*, which owns *endpoints*; a node links one of its endpoints
to another node's by a *link code*, and linked endpoints exchange *packets*
that the relay queues until the destination node polls its inbox and
acknowledges them. On top of the relay stand AppKit, a library for
applications with an outbox, a receiver and commands; a bridge to Discord; and
a desktop client. This directory holds TLA+ modules of these components, TLC
runs on small instances, and proofs checked by TLAPS.

## 1. The system

| component | source | state | operations | modelled by |
|---|---|---|---|---|
| relay handlers | `arqs-server/app/main.py`, `services.py`, `models.py`, `auth.py`, `db.py` | SQLite tables: nodes, endpoints, link codes, links, routes, packets, deliveries, send events | register, delete identity; create and delete endpoint; request and redeem code; revoke link; send; poll; ack | `ArqsRelay` |
| maintenance and administration | `services.py`, `admin_services.py` | the same tables | cleanup; disable, enable, revoke a node; revoke a link | `ArqsRelay` |
| inbox long poll | `inbox_notifier.py`, `main.py` | a version and a list of waiters per node | snapshot, query, wait, notify, time out, cancel | `InboxLongPoll` |
| IP rules, settings, access cache | `admin_services.py`, `admin_cli.py`, `runtime_access_cache.py`, `db.py` | rules and settings in the database, a marker file, a snapshot in the server | set, remove, import, decide; commit and touch; load, watch, reload | `AccessControl` |
| AppKit outbox | `apis/appkit/outbox.py`, `app.py` | SQLite table of packets to send | enqueue, flush due, flush one, retry, dead-letter | `AppKitOutbox` |
| AppKit receiver | `apis/appkit/receiver.py` | the batch it works through, `inbox.sqlite3` | poll, store, dispatch, ack | `AppKitDelivery`, composed with the outbox and the relay's queue |
| AppKit commands | `commands.py` | a table of waiters, handlers | call, execute, answer, time out | `AppKitCommands` |
| AppKit application, transport | `app.py`, `store.py`, `transport.py`, `arqs_api.py` | JSON files: config, identity, contacts | start, set up, choose a transport, register, redeem, save | `AppKitState` |
| Discord bridge | `adapters/arqs_discord_appkit_bot.py` | contacts, pending links, seen deliveries, in memory and in one file | slash commands, direct messages, inbox loop, reconciliation | `DiscordBridge` |
| desktop client | `clients/arqs_messages_gui.py` | links, history, seen deliveries, queue of the window, threads | commands in threads, active polling, window loop | `GuiClient` |
| the rest | `arqs_conventions.py`, `config.py`, `schemas.py`, `notifier.py`, command lines | none of their own | parsing, validation, printing | not modelled (section 7) |

How they interact. Clients reach the relay by HTTP requests whose answers may
be lost. `send_packet` hands every accepted packet's destination node to the
notifier, which wakes that node's polls. The outbox is the retrying sender in
front of `POST /packets`; the receiver, the bridge and the desktop client are
three consumers behind `GET /inbox` and `POST /packet_ack`. The
administration's command line writes the database the relay reads, and touches
a marker file so that the access cache reloads. An application and its command
line share one state directory.

What is hard. The relay's handlers run concurrently on pool threads, and the
`sqlite3` driver opens a transaction at the first write: what a handler decided
from its reads may be out of date when it writes. The long poll is split
between pool threads and the event loop. The access cache is told of a commit
by a file that is written after it and read after the database. The outbox is
worked on by several threads, of several processes, from copies of its rows,
any of which may stop between two statements. A delivery is handled and
acknowledged in two steps, in an order that depends on a setting. State files
are overwritten in place. The bridge's coroutines change one state object
between their awaits; the desktop client's threads hand their answers to a
window that shows them later. `PROJECT.json` lists these hazards at their
lines.

What makes each component right.
 - relay: a code yields at most one link; routes follow their link; no two
   active routes between the same endpoints; a packet and its delivery live
   and die together; an accepted packet leaves only by ACK, expiry, the deletion
   of an endpoint, or the replacement of a resend that raced with another;
   limits hold up to the concurrency of the server.
 - long poll: no wakeup is lost, polls end at their deadline, no waiter leaks.
 - access: the cached decision is the database's; the cache is current unless
   an announcement was lost; rules of administrators survive the import.
 - outbox and receiver: nothing leaves the outbox unaccepted; limits on
   attempts and dead letters that stay, unless two flushers had the row in hand
   at once; a packet is taken at least once, or given up by a policy the
   application chose, and repeated for a reason only.
 - commands: a call gets its own response, or its timeout.
 - application: files are whole, one identity, contacts that fit it; HTTP only
   where it was allowed.
 - bridge and desktop client: nothing is acknowledged and then forgotten, shown
   twice, or listed after it was removed, without a reason that can be named.

Many properties have the form "X, unless Y happened": the code does not
prevent X, and the property lists every way in which the code lets it happen.
The histories these properties need are variables of their own (`silent`,
`overtaken`, `disturbed`, `lapsed`, `orphaned`, `excuse`, `shared`, ...); no guard reads
them.

## 2. The modules

### ArqsRelay

A table is a set of rows with the columns the properties tell apart. Ids are
`new_uuid()`: `fresh[kind]` counts those produced, so that an id is never used
twice. Packet ids are the senders', so they come from the constant `PacketId`
and are reused. `Content` is everything `packet_matches` compares, and `Size`
the encoded size. `clock` is `utcnow()`.

Atomicity. The sessions have `autoflush=False` and the driver begins a
transaction at the first INSERT, UPDATE or DELETE. So a handler is two steps:
its reads before the first write (`...Check`), and the write transaction with
whatever is read in it (`...Commit`). `req[t]` is what thread `t` decided in
between; `Abort(t)` ends a request with no effect: a lost race, a violated key,
a limit, the storage cap, the busy timeout, or a stop of the server (nothing
survives in `req`, and the database is as the last commit left it, so that a
crash of the whole server is an `Abort` of every thread). The reads of one
`Check` are taken together; the code spreads them over a few milliseconds.
Handlers that decide nothing (register, create endpoint, request code, revoke,
delete identity) are one action. In these, the authentication is read in the
same step as the write, so that the model leaves out a last write that
was authenticated just before its node was disabled.

| action | handler |
|---|---|
| `Register`, `CreateEndpoint`, `DeleteIdentity` | `POST /register`, `POST /endpoints`, `DELETE /identity`, with the cascade of the foreign keys (`CascadeDelete`) |
| `DeleteEndpointCheck`, `DeleteEndpointCommit` | `DELETE /endpoints/{id}` |
| `RequestLinkCode`, `RedeemCheck`, `RedeemExpired`, `RedeemCommit` | `POST /links/request`, `POST /links/redeem` |
| `RevokeLink` | `DELETE /links/{id}` and the administrator's revocation |
| `SendCheck`, `SendCommit` | `POST /packets`, with the limits; `replace` marks a request that first deletes an expired packet of its id |
| `AckCheck`, `AckCommit` | `POST /packet_ack` |
| `Cleanup` | `maintenance_loop`, `run_cleanup_now` |
| `SetNodeStatus` | the administrator's disable, enable, revoke |

A poll of the inbox changes no table. Key rotation is left out, as is the
answer of each request. `SendWindow = 0` in the runs is a window shorter than
the clock's step, so that a window is the events of one instant.

### InboxLongPoll

One node's slot of the notifier: `version` and `waiters`. A poll's `pc` is
`idle`, `fetch` (its query is with the pool), `fetched` (its result is with the
loop), `waiting`, or `leaving` (cancelled). Code between two awaits is one
action: `Snapshot` starts the query in the same step as the pass before ended.
A sender commits (`Send`), then notifies (`Notify`), and the loop runs the
callback later (`NotifyInLoop`): three steps of their own. `Deadline` is the
timer of `wait_for`, which cancels the future; the handler cleans up when it
runs again (`Wake`). `queue` is the node's deliveries as the query sees them,
so that an ACK, expiry or deletion is `Remove`.

### AccessControl

The database holds `settings` and `rules`; `commits` numbers the commits, so
that a snapshot carries the number current when each of its halves was read.
An admin process runs its callback (`Callback`: `ensure_admin_tables`, which
imports the legacy table and announces nothing), decides (`Decide`: the check
that a deny default has an allow rule, made before the transaction), commits,
and then touches the marker: `Truncate` and `Write`, since `write_text` empties
the file first. `Kill` is a process that stops anywhere, `Refuse` a removal that
finds no rule. The server's thread notices another token than the one it
knows, reads settings and rules in two transactions, then the marker, and
stores both (`Notice`, `LoadSettings`, `LoadRules`, `Store`); a load may fail,
and the server may stop.

`AllowedByDatabase` is `is_ip_allowed`, `AllowedByCache` is
`is_ip_allowed_cached`, `Blocked` is `is_ip_blocked`, each in the order of the
code's own tests. Addresses are model values, one of which does not parse.

### AppKitOutbox

The table, and what each flusher is doing: looking its packet up, working
through the copies it read, or waiting for the answer of a request. Every SQL
statement is a step. Time is abstract: `BackoffElapses` makes a row due again,
`Expire` ends a packet's life; the copy and the row share the life, as
`expires_at` never changes. Attempts are counted up to `AttemptCap`. `Failed`
may follow an acceptance whose answer was lost. `Interrupt` is a process that
stops and is started again, or a statement that raises (`database is locked`),
which ends the flush. `shared` records the packets that two flushers had in
hand at once, from the step that selects or looks up a row to the one that
writes the result: the worker's `flush_due`, the flush inside `send_type` and
the command line's run concurrently, and none of them can see it. The relay is
external: it accepts, or it does not. The
batch limit of `flush_due` and the order of a batch are left out: any order is
explored.

### AppKitDelivery and AtLeastOnce

`AppKitDelivery` EXTENDS `AppKitOutbox` and puts its steps together with the
relay's queue and the receiver. `Submit` is the acceptance of `AppKitOutbox`
with what it does to the queue: a packet id the relay has is answered
"duplicate", and one it no longer has (after the ACK) is accepted as new. The
receiver's `pc` is the place in `_handle_delivery`: `next`, `ack early` (under
`after_store`), `handle`, `ack`, `ack failed` (under `always`); an exception
(`Raise`) ends the batch, and with it the loop: `poll_forever` has no `try`, so
that its thread is over (`receiver = Off`). `Start` is the application that
calls it again, which no fairness asks for; `LoopEnds` is `stop()`, or a poll
that raises because the relay cannot be reached. `HandleFails` is any exception
of the dispatcher, a handler or the reply it sends.

`AtLeastOnce` is the abstract channel: a message is given, held by somebody
until it is taken or lapsed, and may be taken again. `KeepsPromise` is the
refinement `INSTANCE AtLeastOnce WITH given <- enqueued, held <- Held, taken <-
Taken`: `Held` is what the outbox still means to send or the relay has queued,
`Taken` what the receiver has stored (`after_store`) or handled (every other
policy). `lapsed` records expiry, dead letters, and the ACK of a failed handler
under `always`.

### AppKitCommands

`send_command` enters a waiter in `pending` if it is to wait (`waits`), sends,
waits, times out, and removes the waiter however it ends. A send is three
steps. `Enqueue` writes the row (modes "queued" and "background"); `Transmit` is
the request at the relay, in mode "direct" or by the caller's own flush;
`Returns` or `Raises` is what `send_type` makes of the answer, with what becomes
of the row (`SettleRow`). `outbox` is the set of commands that a row, or a copy
a flusher has read of one, may still send. A row stays when the answer is lost,
so that a command may be at the relay and in the outbox at once, and
`OutboxSends` sends it again, also after it was executed and acknowledged.
`disturbed` collects the commands to which something of this kind happened.
The responder executes a command delivery, replies and acknowledges; any of the
three may be disturbed, and the delivery comes again. The requester's receiver
thread hands a response to its waiter. `Nested` is a caller that is a handler
on that thread. `TimesOut` and `GiveUp` are the two halves of a timeout: the
waiter is in the table until the call has unwound.

### AppKitState

The three files, each with its text and a length, and processes with what they
hold in memory. `write_text` is two steps (`Open` empties, `Write` fills), and a
shorter text written over a longer one leaves the end of that. `Start` is the
constructor with its saved overrides, `Resolve` the transport (`Probed`,
`Chosen`, `Effective`, `HttpTolerated`), then `LoadIdentity`, `Register`, and
`Redeem` with `Upsert` of the contact book. `Crash` interrupts a process
anywhere. `excuse` records what went wrong that leaves a trace.

### DiscordBridge

Coroutines share `state` and are interleaved at their awaits only, so that the
code between two awaits is one action. `poll` is the inbox loop with its batch
and the delivery in hand, `reconcile` the reconciliation loop with the links
it listed, `chat` a message on its way with the contact read before, `removal`
a deletion, `redeeming` the redemptions whose answer is awaited. `Store` saves
the state, and a step that only changes memory leaves `disk` alone; `Restart`
goes on with the file, or with nothing if it was torn. `link[e]` is the relay's
view of the endpoint's link.

### GuiClient

The window's thread takes one entry of `uiq` after the other (`Count`,
`Receive`, `ShowLinks`, `ShowSevered`, `ShowDeleted`, `ShowError`,
`Refreshing`); commands
run in threads (`jobs`) that put `busy`, their result and `idle` into it, and
polling threads (`pollers`) that put what they fetched. `Receive` saves each
message and then, as a step of its own (`SaveSeen`), the set of seen
deliveries. `record[n]` is what the window lists for the contact of node `n`:
nothing, a link of the relay, a stub made for a message, or a severed one.

`modal` is an open message box. A callback opens it inside `_process_ui_queue`
(an error, a failed severing, the report of a deleted node), so that no entry
behind it, its own `idle` included, is taken and no command is given until
somebody closes it (`CloseBox`). A request may fail before or after the relay
has acted on it (`Failed`, `Acted`): a revocation, redemption, deletion or
registration whose answer is lost has happened. The answer of a redemption
writes the link's record itself (`Upserted`), if the endpoint is among those
the window knows (`known`), and then refreshes. `ReceiveRaises` is a callback
that raises at one item of a batch: the items before it are taken, it may be too,
and those after it, which the relay has already deleted, are shown nowhere.

## 3. The runs

| run | instance | shows |
|---|---|---|
| `relay_links` | 2 threads, 2 nodes, 3 endpoints, 2 codes, 2 links, all modes, 2 instants, from the empty database | `TypeOK`, `ReferencesHold`, `OneActiveRoutePerPair`, `RoutesFollowLinks`, `OneLinkPerCode` |
| `relay_queue` | 2 threads, 3 packet ids, limits of 1 packet per endpoint and 1 send per window, an administrator who disables, 2 instants, from two linked nodes | `OvershootBounded`, `OneDeliveryPerPacket`, `PacketsLeaveForAReason` |
| `relay_delete_race` | 2 threads | violated: `DeletedEndpointsWereUnused` |
| `inbox_long_poll` | 2 polls, 2 deliveries, limit 1 | `NoLostWakeup`, `WaitersAreAwaited`, `DeliveredPromptly`, `PollsEnd` |
| `delivery` | 1 packet, 2 flushers (worker and caller), 2 attempts at most, every ACK policy, 2 deliveries, 1 interruption, 1 fault of the receiver | `NothingLost`, `StrandedOnlyByInterrupts`, `AttemptsWithinLimit`, `RevivedOnlyByOverlap`, `DeliveryInv`, `KeepsPromise`, `EventuallyTaken` |
| `outbox_flush_race` | 1 packet, 2 flushers, 2 attempts at most | violated: `DeadLettersRemain` |
| `access` | 2 admin processes, 1 address (statically denied, in the legacy table) and one that does not parse, all modes, 3 commits, 1 fault | `AccessInv`, `StaleForAReason`, `ImportKeepsRules`, `NoticedIsServed` |
| `commands` | a thread with 2 calls, a handler with 1, the handler's command executed up to twice, 1 command disturbed | `CommandsInv`, `RepeatedForAReason`, `NoneDroppedEarly`, `CallsEnd` |
| `app_state` | 2 processes, 2 codes, 3 starts, 2 registrations, 1 interruption, a public and a local host | `StateInv`, `NodesAccounted`, `HttpForAReason` |
| `bridge` | 1 endpoint, 2 deliveries, 1 failed call or restart | `BridgeInv`, `SeveredForAReason`, `AckedForAReason`, `StaleContactsSettle`, `RedeemedCodesBind` |
| `gui` | 1 node, 1 message, 2 command threads, 2 polling threads, `MaxOps` 4 (a command counts 2, a toggle of polling 1), 1 failed request, raising callback or restart | `GuiInv`, `AckedIsAccounted`, `RemovedStaysAway`, `PollingEnds`, `EventuallyShown` |
| `gui_ack` | as `gui`, with `MaxOps` 2 | violated: `AckedIsSaved` |

Why the bounds are enough.
 - Relay: two handlers race over any one row; two nodes and three endpoints
   give both ends of a link, a second endpoint of the same node and a default
   one; two codes give the two ways of creating the same route; limits of one
   make every second send reach them, and three packets at one endpoint are
   what a wrong limit would let two threads store. The start of `relay_queue`
   is a state of `relay_links`, reached by two registrations, a new endpoint, a
   code and its redemption. `relay_links` has no packets and `relay_queue` no
   second link: the two halves of the tables meet in deletions and in the route
   a send needs, and both runs have those.
 - Delivery: two flushers on one row are what an overlap needs; a limit of two
   attempts lets one of them make the row a dead letter while the other has an
   older copy; a second delivery of the same packet is what a repetition needs.
   Rows of different packets do not interact in the outbox. A batch of two, of
   which an exception drops the rest, takes two packets: `DeliveryBatch.cfg`
   (no run of `PROJECT.json`; `MCAppKitDelivery`, two ACK policies, no faults)
   passes for all but `EventuallyTaken`, and the theorems are about any number.
 - Access: two processes give a commit during another's announcement, three
   commits one before, during and after a reload. The rules of addresses do not
   interact, but for the count of allow rules; the static denial and the legacy
   entry make the one address the hard case of both decisions.
 - Commands: two calls of one caller are what a late response to an earlier
   call needs; the nested handler shares the receiver thread with both. One
   disturbed command at a time (`MaxDisturbed`) leaves the others as the
   undisturbed ones the properties speak of, and may be disturbed repeatedly.
 - Application: two processes write one file, three starts make one restart
   after a crash while the other process runs. A second interruption finds
   files that are already named as torn.
 - Bridge: contacts have endpoints of their own, and every step of the bridge
   works on one of them, so that one endpoint has all interleavings of the two
   loops with the commands; two deliveries make a batch.
 - Desktop client: one node can be deleted and its answers come late, which is
   what the properties about removed contacts need; a second identity after a
   deletion is left out, as is redeeming again after a severing. The window
   starts with no node, a node, or a node and its contact. Four toggles of
   polling, three of which are off, on and off again with a thread left behind,
   fit in `MaxOps`, as do two commands, or a command between two toggles. With
   one message `ReceiveRaises` has no later item to drop; the theorems are about
   any number.

The runs of the relay, of the long poll and of the bridge check deadlock: there
something may always happen. The others may stop: once every packet is taken or a dead
letter, the calls are made, or the commits, starts or commands are used up.

Fairness. The relay's properties, and those of the application, are safety
only.
 - `InboxLongPoll`: pool threads finish and the event loop runs what it was
   given: weak fairness of `Notify`, `NotifyInLoop` and each poll's own steps.
   Time is not fair there: `DeliveredPromptly` holds without any deadline
   passing, and `PollsEnd` is about polls whose deadline has passed.
 - `AppKitDelivery`: the outbox worker loops for ever, as its loop catches every
   exception; requests end by their timeout, backoffs pass (weak:
   `OutboxFairness`); the relay is reachable again and again (strong, for each
   flusher), or no retry would ever help. A receiver loop that runs goes on
   (`ReceiverFairness`), through handlers that return or raise; one that has
   ended is started again by nobody. `EventuallyTaken` therefore promises a
   packet only if no flusher was interrupted and the loop has not ended.
 - `AccessControl`: the watcher polls twice a second, and a process that has
   committed goes on to its touch, unless it is killed. Commits need not happen.
 - `AppKitCommands`: the calling threads go on, requests end and waits end at
   their timeout. Nothing is asked of outbox, responder or receiver.
 - `DiscordBridge`: both loops run for ever and awaited calls return, with a
   result or an exception. The user and the remote side need do nothing.
 - `GuiClient`: requests return and the window's event loop runs every 100 ms
   while no box is open; nobody need close one. `EventuallyShown` has the
   assumption that no box stays open for ever as its hypothesis.

### Where the code and its documents part

Three statements of the documentation are refuted by a run of `PROJECT.json`:
 - `relay_delete_race`: an endpoint can be deleted with an active link or a
   queued delivery that was committed between the check and the delete.
 - `outbox_flush_race`: a dead letter is sent again, and deleted when the relay
   accepts it, by a flusher that has an older copy of its row (`outbox.py:215`;
   `appkit/README.md:237`).
 - `gui_ack`: the desktop client acknowledges deliveries before it has saved
   them. The property is violated at the step of the ACK; no restart is
   needed.

More of this kind can be reproduced with the configurations that no run of
`PROJECT.json` uses (`tlc -config <cfg> <module>`):

| configuration | module | violated | what happens |
|---|---|---|---|
| `RelayAckRace.cfg` | `MCRelay` | `AckRemovesItsDelivery` | an ACK removes another delivery than its own, when the packet expired and was sent again under the same id in between (`main.py:868`; `ARQS-SERVER.md:139`) |
| `RelayResendRace.cfg` | `MCRelay` | `AcceptedPacketsUnchanged` | an accepted packet is replaced by one with other content, when both senders saw an expired packet of that id (`main.py:702`; `ARQS-SERVER.md:129`) |
| `OutboxInterrupted.cfg` | `MCAppKitOutbox` | `EntriesSettleDurably` | a packet whose flusher stops during the request stays `sending` and is never sent again (`outbox.py:193`; `appkit/README.md:13`, `:192`) |
| `AccessLive.cfg` | `AccessControl` | `LiveWithoutRestart` | a commit that falls between a reload's queries and its look at the marker is taken for seen, and is not served until the next one (`runtime_access_cache.py:193`) |
| `AppRequire.cfg` | `MCAppKitState` | `RequireHttpsFails` | a host whose HTTP was once accepted is used over HTTP under `require_https` (`transport.py:34`) |

## 4. Properties worth reading first

 - `StaleForAReason` (access): commit, announcement and reload are three
   hand-overs between processes. The cache is current unless a process was
   killed between commit and touch, an import committed silently, or a touch
   came during a reload; `AccessLive.cfg` shows the last of these.
 - `KeepsPromise` (delivery): with retries, lost answers, four ACK policies and
   stops on both sides there is no step after which nobody answers for a packet
   that was neither taken nor given up.
 - `NestedStarves`, in `CommandsInv`: a handler that calls a command and waits
   for it always runs into its timeout; `CallsEnd` that it does end.
 - `AckedForAReason` (bridge): every way in which the bridge acknowledges a
   packet it has shown nobody, although the link is active.
 - `BusyIsBalanced`, in `GuiInv`: the count over which active polling waits;
   `EventuallyShown` fails when one error path forgets it.
 - `RepeatedForAReason` (commands): a command may run twice although responder
   and requester did nothing wrong, because the answer to its sending was lost
   and its row outlived the ACK.
 - `RevivedOnlyByOverlap` and `AttemptsWithinLimit` (outbox): the exact condition
   under which two flushers break what `outbox_flush_race` shows to be broken.
 - `PacketsLeaveForAReason` and `OneLinkPerCode` (relay): what an accepted
   packet and a spent code are worth under every race of the handlers. The
   first speaks of rows, contents included, and has to name the resend that
   replaces an accepted packet (`RelayResendRace.cfg`) among the reasons.

## 5. The proofs

Eight modules of proofs, from the modules' assumptions on their constants and for
all values of them.

`ArqsRelay_proofs`:
 - `TypeCorrect`: `TypeOK` is inductive by itself; one step per action.
 - `RouteUniqueness`: `OneActiveRoutePerPair` is inductive relative to `TypeOK`.
   `RouteSteps` splits the steps into those that only take routes away,
   `RedeemCommit`, which looked for active routes in the same step, and
   `RevokeLink`, which makes none active.
 - `ReferentialIntegrity`, `RoutesMirrorLinks` and `CodesAreSpentOnce`, from
   `RelayInv`. `RoutesFollowLinks` needs `ReferencesHold` (a route's link is
   there) and that link ids are minted once and never ahead of `fresh`
   (`LinkIds`); then a route joins the ends of its own link, and so
   `CascadeDelete` takes both or neither. `CodesAreSpentOnce` needs that code
   ids are unique, or marking one code might revive another.
 - `PacketsHaveOneDelivery` and `CustodyIsKept`, from `CustodyInv`. An accepted
   packet is its row with its content, so that the racing resend of
   `RelayResendRace.cfg` is one of the reasons for which it goes. The rows a
   handler found may be gone when it commits, and others may have come: the
   invariant says that what it named is still what it meant, because ids are not
   reused (`RequestsName`). A send's endpoints, if there, have the owners the
   check saw; an ACK's delivery, if there, is of the packet the check saw. Packet
   ids are reused, by a resend after expiry, and that is where the two ACK
   deletions, by delivery id and by packet id, come apart: see
   `RelayAckRace.cfg`.
 - `OvershootIsBounded`, from `OvershootInv`. The capacity checks and the insert
   are different transactions, so the limits themselves are not invariant. A
   send that found room and has yet to write is counted as if it had written:
   whoever passes the check passes it against the rows alone, and so a limit is
   passed by the requests of the other threads at most, each of one packet and
   at most `MaxPacketBytes`. `Eases` collects the steps that only delete rows;
   the lemmas about `BytesOf` give what a sum of sizes gains by one packet.

`InboxLongPoll_proofs`: `NoWakeupIsLost` and `WaitersExact`, from `InboxInv`.
`NoLostWakeup` alone is not inductive: a poll between its query and its wait
has to be covered as well, by the clause that if its snapshot is still the
slot's version, every queued delivery is on its way; this in turn needs that an
empty query result means an empty queue (`FetchEmpty`, as the limit is not 0),
that a poll has bound the loop, and that no poll's snapshot is ahead of the
version.

`AppKitDelivery_proofs`, first about the outbox alone:
 - `NothingIsLost` and `OutboxTypeCorrect`, from `OutboxInv`: an answered request
   is of an accepted packet, and every other write keeps a row for each packet
   that has one (`UpdateRows`).
 - `StrandedExplained`, from `StrandedInv`: the packets that are `sending` with
   no request open are finitely many, and every step adds none but `Interrupt`,
   which adds one.
 - `LimitsAreKept` and `DeadLettersStay`, from `OverlapInv`, for any number of
   flushers. A packet that no two flushers have had in hand together has one
   holder at most (`OneHolder`), whose copy is still what the table says
   (`CopyCurrent`), and a row that waits has counted every request made for it
   (`Counted`). Once a packet is in `shared` nothing is claimed of it:
   `outbox_flush_race` is the counterexample. The outbox decides
   after a request whether to give up, so a limit of 0 means one request, as
   with 1; the property says so.

Then about the composition with the receiver:
 - `ImplementsOutbox`: a step of the composition is a step of the outbox or
   leaves it alone; so `DeliveryLosesNothing`, `DeliveryStrandsNothing` and
   `DeliveryKeepsLimits` follow from the above.
 - `DeliveryCorrect` and the refinement `DeliveryKeepsPromise`, from
   `DeliveryIInv`. What the relay accepted is queued, taken or given up
   (`Custody`); what the receiver acknowledges it has taken or given up
   (`AckInv`); a packet whose sender was not disturbed has one delivery
   (`CreatedOnce`) and is handled once, which needs that a handled delivery that
   is still queued is the one being acknowledged, so that no later fetch brings
   it again (`HandledOnce`). With these every step is a step of `AtLeastOnce`
   under the refinement mapping, or a stutter.

`AccessControl_proofs`: `StalenessExplained`, `CacheDecidesAsDatabase` and
`ImportsKeepRules`, from `AccessIInv`. `StaleForAReason` speaks of a snapshot
whose token is the marker's; it is inductive only together with the same for a
load under way (`LoadCovered`: the commit its settings were read at is accounted
for at every step, `CoveredKept`), and it needs that a new token is one the
watcher has not seen, which the types give. The equality of the two decisions
needs that a snapshot of the latest commit holds what the database holds
(`Faithful`), although settings and rules were read in two transactions.

`AppKitCommands_proofs`: `CommandsCorrect` and `DropsExplained` from the table
of waiters, `RepeatsExplained` from the place of each command. `ResponsesMatch`
is about what a call returned; before that the response waits in the table, and
before that in the queue, so the invariant follows it backwards: a waiter that
is done holds a response to its own command (`WaitersMatch`), and a queued
response is of an execution that happened (`ResponsesReal`). `NestedStarves`
holds because the receiver thread is busy exactly while the handler's call is
open (`NestedHolds`), so that nothing is ever put into that call's waiter.
`RepeatedForAReason` needs that a command nothing has happened to is sent once:
while it is yet to be sent, by its caller or from the outbox, it is neither queued
nor executed, and once it has been executed only the responder has it
(`CommandOnce`).

`AppKitState_proofs`: `StateIInv`, in parts over one typing lemma (`TypedStep`).
`HttpExplained`: a configuration that leads to HTTP has its reason wherever it
is, in a process, in the file or on its way to it (`HttpInv`); the property
speaks of the chosen URL alone. `TearsExplained`: a file that was not torn is
empty while it is open, and open in one process (`FilesInv`), so that a write
never leaves the end of a longer text. `IdentitiesExplained`: unless two first
starts overlap, one process at most is about to have an identity, and until it
is saved the file holds none that could be overwritten (`NodesInv`, with
`FreeInv`: who is off or registers has nothing in hand). `StateFits`: every link
made has its contact in the file, in the text a process is about to write, or is
about to be put there, unless overlapping writers dropped it (`LinksInv`), and
contacts and processes use the saved identity (`OwnInv`).

`DiscordBridge_proofs`: `BridgeRepeatsNothing`, `SeveringIsExplained` and
`AcksAreExplained`, from `BridgeIInv`. How often a delivery was shown is bounded
through what becomes of it (`ShownInv`): a delivery that is not kept was shown
only by polls that a fault ended, one each. A contact is severed because it was
missing from the relay's list, and `SeverInv` follows that back to the time the
list was read: every contact in use with an active link is in the list, unless
the link was made after it (`overtaken`). An ACK without a contact needs that
whoever may send is known, or is accounted as lost (`KnownInv`), and that the
list read for a batch has the links of its deliveries.

`GuiClient_proofs`: `GuiCorrect`, `AcksAreAccounted` and `RemovedStaysRemoved`,
from `GuiIInv`. Requests, answers and the window's queue hold copies of
deliveries and of answers about links, all of which may be old. One relation,
`Flow`, says what any step does to deliveries and answers wherever they are, a
second, `Views`, what it does to the history and the records, and `RelayMoves`
what the relay does, also for an answer that is lost; the invariants follow from these without looking at the
actions again. A delivery that left the queue is in some hand or kept
(`AccountInv`); nothing in hand speaks of a contact that was deleted while
nothing was under way for it (`GoneInv`). The count of the busy indicator is
compared with the jobs that work only through the entries the window has yet to
take: it stays between 0 and the number of jobs after each of them (`Within`),
and after the last it is the number of jobs at work (`BusyInv`). The module
assumes that jobs and pollers are numbered from 1, as `Restart` starts those
with number 1.

Proved this way are all invariants and all action properties of the runs that
pass. Model-checked only is liveness: `DeliveredPromptly`, `PollsEnd`,
`EventuallyTaken`, `NoticedIsServed`, `CallsEnd`, `StaleContactsSettle`,
`RedeemedCodesBind`, `PollingEnds` and `EventuallyShown`. It is out of the
prover's reach, which has no rule for fairness and `ENABLED`. The three properties
of section 3 that the code violates are refuted by TLC, on one instance each. No
module declares a recursive operator.

## 6. What could follow

 - Proofs: the safety lemmas that liveness rests on, such as what stays enabled
   while a delivery waits; the conclusions themselves stay with TLC.
 - Bridge: reactions and receipts, which need a second kind of delivery and the
   bounded indexes from message to packet; renaming and choosing a contact.
 - Desktop client: a second identity after a deletion; a second link after a
   severing; sending, with the ping
   that waits for its answer.
 - Application: `remove` and `default` of contacts; `request_link_code`.

## 7. Not modelled

 - `arqs_conventions.py`, `schemas.py`, `config.py`: validation, headers and
   settings. They are functions from text to values or an error; a request that
   does not validate changes no state.
 - Signing and the nonces of `auth.py`, beyond the status of the node that is
   checked with them; key rotation, which replaces one opaque value.
 - `notifier.py` and the command lines: arguments and printing around calls
   that are modelled.
 - Routing of FastAPI, the container, the service files.
 - Request bodies, sizes in bytes, and the log, except where a limit or a
   property is about them.
 - In the bridge: what Discord shows, reactions, receipts, the reply and
   receipt indexes, names and settings of users. In the desktop client:
   widgets, pings, sending, endpoint and code commands, the dialogs about the
   transport. These commands are a request and then a refresh, which is
   modelled.
 - Corruption of a file or of the database by anything but an interrupted or
   overlapping write.
 - Clocks of different machines: expiry is decided by the relay's clock alone.
