# A verification project for 5GPN-Go

TLA+ models of the 5GPN-Go daemon, checked with TLC on small instances and, where noted,
proved with TLAPS for every value of the constants. Paths are relative to the repository
root (`src/` in `PROJECT.json`).

## 1. The system

5GPN-Go is one daemon (`cmd/5gpn`) that keeps a split-tunnel gateway in a consistent state.
Its control plane is a SQLite database; its data plane is three rendered configuration
files with their systemd units (dnsdist, mihomo, sniproxy) plus an in-process resolver. An
HTTP panel, a Unix control socket and a Telegram bot ask for changes concurrently.

| Component | State | Operations | Interacts through | Hard behaviours | What makes it correct |
|---|---|---|---|---|---|
| systemd orchestrator (`internal/orchestrator`) | `applyMu`, `Config` (rollback baseline), files, units | Apply, Rollback, background observation | called by the Applier; calls systemctl; calls back CommitHook and HealthObserver | any of a dozen steps fails; compensation fails too; lock passed to a goroutine | a reported rollback really restored everything; success really is in force; baseline only ever a configuration whose probe passed; lock released |
| Applier (`internal/core/applier.go`) | `variationActive`, `inflight`, `switchInflight`, `protectedExits`, fallback statuses | ApplyRules, ImportRules, SwitchExit, DeleteExit, OnHealth | database, exit store, orchestrator, resolver store | two goroutines finish one change; exits deleted meanwhile; stale views; failing compensation; restart | planes agree between changes; nothing leaks; no lost update; every outcome reported |
| rule versions, snapshots, apply_status (`internal/db`) | SQLite tables | insert, activate, update status | Applier, handlers | failing statements | active version follows the data plane |
| exit store (`internal/exit`) | `exits` rows, one active | Add, Delete, Switch | Applier, handlers | delete racing a switch | active exit always has a row |
| rules / snapshots / exits API, control socket | none of their own | validate, prepare rows, call the Applier | Applier, database | reads before the Applier's lock | selected target is the intended one |
| DoT connection (`internal/resolver/dotconn.go`) | socket, `pending`, `nextID`, `closed` | query, reconnect, reader, retire, close | upstream race; network | id reuse, concurrent redial, retirement from three sides, late replies | own answer or an error; no orphan; no leaked socket; close returns |
| upstream race (`internal/resolver/upstream.go`) | per query: result channel, timers, goroutines | Query, Close | DoT connections | deadline against last reply; fallback start; abandoned goroutines | a failure only when everything failed; no goroutine left; returns |
| Telegram bot manager (`internal/tgbot/manager.go`) | token, admins, cancel, running, generation | Start, UpdateWithCommit, Stop, Serve exit | settings store, bot goroutines | old bot ends after the new one began; commit fails; crash between commit and swap | one live bot, the one a restart would start; status honest |
| resolver, rule table, classifier, spoofing | published table, spoof policy | Publish, Resolve, SetSpoof | front door, Applier, settings | table and policy replaced under a running query; three readings of one rule list | no torn answer; resolver, mihomo and dry run agree on what a rule decides |
| front door and supervisor (`internal/frontdoor`) | listeners, restart budget, degraded flag | Start, serveAll, restart, Shutdown, Status | resolver, daemon boot | crash of one listener while the other serves; shutdown before activation | encrypted listeners survive the plain ones; Status tells the truth; plain DNS recovers or degrades |
| listeners of the daemon (`cmd/5gpn/main.go`, `internal/api/server.go`) | who has which port | boot sequence, stop | front door, forwarders, panel | ports and backends that are hardly checked; a refused bind in the middle | settings that fit never end the daemon and leave the panel reachable |
| QUIC and SNI forwarders (`internal/proxy`) | session table, resource accounts, semaphore | read loop, setups, relays, gc, accept, pipe, Shutdown | exits, panel backend | caps, replacement of a session, gc against traffic against Shutdown | accounts are exact; no relay is orphaned; a stop leaves nothing; nobody waits for ever |
| settings, access gate, preflight (`internal/api`, `internal/access`) | `panel_settings`, live policy, gate snapshot | three update handlers, preflight, boot | resolver, every HTTP route | store and publish are two steps; a restart between them | live state is the stored state; the boot accepts what was stored, a missing route and unusable backend addresses excepted |
| MTProto proxy control (`internal/mtgctl`) | unit file, loaded unit, process | update, generate | systemctl | every command fails before or after its effect; overlapping requests | rotation is all or nothing |
| rule sets and their refresh (`internal/rulesets`) | one row per set | register, sync, periodic refresh, toggle, delete | HTTP sources, rules editor | concurrent syncs, row changed while fetching, conditional requests | an enabled set converges to its source or shows an error |
| apply tracking (`internal/api/applies.go`) | bounded ring | create, track, refresh, finish | Applier, apply_status | lookup by snapshot, not by apply; eviction while polling | a reported outcome is a real one of these rules |
| sessions, wizard, logs, metrics, updater, installer | tables and files | | handlers | | not modelled, section 6 |
| importers, renderers, URI parsers, iOS profiles, web panel | none | text in, text out | | | not modelled: no state |

`PROJECT.json` lists every component with its status, and under `hazards` what a test would
hardly reach, at the line where it bites, with the properties that cover it.

## 2. The modules

| Module | Models | Composition |
|---|---|---|
| `Systemd` | `orchestrator/systemd.go` | stand-alone; instantiated by `Applier` |
| `SystemdProofs` | theorems about `Systemd` | EXTENDS `Systemd` |
| `Applier` | `core/applier.go`, its callers, tables and resolver store | INSTANCE `Systemd`, INSTANCE `ConfigChange` |
| `ConfigChange` | abstract specification: what the pipeline promises | refined by `Applier` |
| `ApplierProofs` | theorems about `Applier`: who owns a change, references, planes, rows, the refinement | EXTENDS `Applier` |
| `DotConn` | `resolver/dotconn.go` | stand-alone |
| `DotConnProofs` | theorems about `DotConn` | EXTENDS `DotConn` |
| `Upstream` | `resolver/upstream.go`, with `dotConn.query` as its caller sees it | stand-alone |
| `UpstreamProofs` | theorems about `Upstream` | EXTENDS `Upstream` |
| `TgbotManager` | `tgbot/manager.go`, both settings handlers, the boot overlay | stand-alone |
| `TgbotManagerProofs` | theorems about `TgbotManager` | EXTENDS `TgbotManager` |
| `QuicForward`, `SniForward` | `proxy/quicforward`, `proxy/sniforward` | extended by `Forwarders` |
| `Forwarders` | `startProxyForwarders` and the stop | composes the two |
| `DaemonProofs` | theorems about `Forwarders`, `Listeners` and their parts | EXTENDS `Forwarders`, `Listeners` |
| `Frontdoor` | `frontdoor`: plain listeners, supervisor, encrypted listeners, Status | extended by `Listeners` |
| `Listeners` | the end of `run`, `startFrontdoor`, `ListenAndServe` | EXTENDS `Frontdoor` |
| `Settings` | the settings handlers, the gate, the preflight, their boot | extended by `Resolve` |
| `Resolve` | `Resolver.Resolve` and the DNS handlers | EXTENDS `Settings` (the live policy) |
| `Mtproxy` | `mtgctl`, `api/mtproxy_settings.go` | extended by `Panel` |
| `Panel` | the requests of the panel behind the gate, and a restart | composes `Resolve` and `Mtproxy` |
| `PanelProofs` | theorems about `Panel` | EXTENDS `Panel` |
| `RuleTable` | what a rule list means: resolver table, mihomo lines, dry run | pure operators |
| `ApplyTracking` | merge, snapshot, ring, refresh | EXTENDS `RuleTable` |
| `RuleSets` | `rulesets`, `api/rulesets.go` | stand-alone |
| `RulePages` | both pages about rules | composes `RuleSets` and `ApplyTracking` |
| `RulePagesProofs` | where the three readings of a list agree; theorems about `RulePages` | EXTENDS `RulePages` |
| `MC*` | constants for TLC | EXTENDS the module |

Definitions that begin with the comment "Mutant" are variants a plausible bug would produce;
no specification uses them. Each is substituted for the definition that follows it to show
that a property can fail.

### Systemd

A lifecycle is a `stage` that follows the code from `render` to `unlock`; each stage has a
success action and a failure action. `disk` and `running` hold, per unit, the configuration
of the rendered file and of the unit, `Down` for a unit a failed reload left stopped and
for a file that does not exist (`restore` removes what was not there before). `health` is
the verdict of this lifecycle's probe, or `nil` in a daemon without a health check: both
kinds of daemon are initial states. A configuration is a model value: rendering is a function of it, and a property about files
only asks which configuration a file came from. `prev` is what `snapshotCurrent` read,
`cand` the request, `lastGood` is `s.Config`. `restoreOk` is the joined error of `restore`.
`agreed` is a history variable (units ran with their files when the lifecycle began).

### Applier

The database is `versions`, `activeRv`, `exits`, `activeExit`, `rows`; the Applier's maps
keep their names. `req[c]` is the program counter and the locals of a caller. The parts of a
method between two releases of `a.mu` or two database calls are one action. A rule set stands
for its YAML, its hash and its table, hence a rules snapshot is identified by its rule set
(the code hashes the rules) and a switch snapshot by its row. `Assembled` is the pair of the
effective rules and the active exit, all that Assemble varies by. `hook` is the position
inside the callbacks CommitHook and OnHealth. `faults` bounds how many database, file or
systemctl failures a behaviour contains; `trusted` is a history variable: no lifecycle has
been reported failed or was cut short since the last confirmed one. `MayStall` allows the
observation budget to end before the probe. `settle` is a switch whose entry has been taken
from `switchInflight` and whose pointer and row are still to be written: compensation and
status write are steps of their own, with the database and `a.mu` free in between.

`ConfigChange` has two planes, at most one open change, and says that the control plane
moves only to what the data plane holds unless the change declares failure.
`ImplementsConfigChange` maps `control` to the active rules and, while a switch is
unsettled, the exit it would return to; `plane` to the common content of files and units.

### DotConn

Queries are named by their call. `sock`, `server`, `reader`, `held` describe a connection,
the requests its server still owes, and its reader goroutine between reading, matching
(under `c.mu`) and delivering (outside it). `retire` is split where the code releases
`c.mu`: `Retire`, then `CloseSocket`, then `SendNil`. `pickID` is the first free id after
`nextID` modulo `IdSpace` (65536 in the code). A broken connection loses what is written to
it but may still deliver replies. Two history variables record what the code cannot tell
apart: `forgotten` (a connection and id given up with the reply to come) and `displaced`
(queries whose entry the `forget` of an earlier holder of the id removed).

### Upstream

One call of `Query`. A source is an address in a pool; its goroutine dials, writes, waits
and sends its result to the buffered channel. Only the write is deaf to the context, as in
`dotConn.query`. `why` is a history variable.

### TgbotManager

`call` is the call that holds `updateMu`; `bot[g]` the goroutine of generation `g`. Start
uses `Overlay(stored)`, the updates use the store, as the code does.

### QuicForward, SniForward, Forwarders

A client address is a key; the w-th worker is also generation w of the session it
establishes. `pending`, `reserved`, `perIP` are the accounts under `resourceMu`; deletions
from the session table are not under it, so dropping a session is split into its moments
(removed from the table, socket closed, account released), which gc, Shutdown, a replacing
setup and the relay itself interleave. A datagram is what the parser makes of it (an Initial,
a complete ClientHello or not, the kind of its name), which decides the upstream. A TCP handler goes through the stages of
`handle` and the two halves of `pipe`. `Forwarders` adds the start (TCP first, undone when
UDP fails) and the stop (UDP then TCP, one timeout).

### Frontdoor, Listeners

`srv[p]` is one plain server: bound, its goroutine started (`ready`), serving, failed.
`stray` records sockets the front door no longer knows: miekg/dns (external) does not close
a server that is shut down before ActivateAndServe. `Listeners` runs the boot with any TLS
mode, panel address, backend addresses and forwarder switches. An address is a host and a
port; which two of them cannot both be bound is what bind(2) says (`Overlap`). A bind fails
because of another listener, because the address is no good, or because the system refuses
(`refused`); the last may always happen. `PanelFits` and `SettingsFit` say, in terms of the
settings alone, what an operator has to avoid; nothing in the code checks it.

### Settings, Resolve, Panel

A CIDR list is one of three kinds, a client one of a few addresses; what validation, policy
and gate tell apart is kept, the text is not. A backend address is the default, another one,
or `wrong`: of the form host:port, all the handler checks, but not one that can be bound.
`face` is how a boot serves the panel (without TLS, with TLS on a port of its own, on :443
next to the forwarder), `booted` the layout of forwarders and backends it acted on, `up`
whether the panel listens. The operator is one of `Clients`; a gate that keeps all of them
out stays as it is until a restart with other settings. A handler is split at validation, commit and
publication under `settingsMu`; the preflight on demand runs without it. `Resolve` pins the
table and later loads the policy; `tables` and `policies` are history variables (what was
live while the query ran). A behaviour of `Panel` is about one page: the two families share
no state.

### Mtproxy

`unit`, `loaded`, `running` are the file, what systemd has loaded and what the process was
started with. As in `parseExecStart`, the secret of a file written by somebody else is the last
word of its command line (`Junk`); a command of one word has none (`Bare`). Every command may fail before or after its effect. `tainted` is a history
variable: a compensation failed or met another request.

### RuleTable, ApplyTracking, RuleSets, RulePages

Names are sequences of labels, most general first; a trailing dot is an empty first label.
What is asked for is a name with the networks and lists (GEOSITE, GEOIP, RULE-SET) it is in:
the resolver looks at the name only. A list without an enabled MATCH sends what no rule
decides three ways: to the active exit in mihomo, to the first exit of the configuration
file or PROXY in the dry run, to the proxy in the resolver. `AgreeOn` therefore speaks of what
a rule decides, and of the resolver where that rule is one on names. `ApplyTracking` abstracts the Applier to
what `Applier` shows of it: one variation at a time, the outcome persisted before the
variation ends, the fallback in memory. Each row of `applies` carries the outcome its apply
really had. A sync of `RuleSets` reads the row, fetches and stores in three steps; content
is its source and version.

## 3. Runs

| Run | Instance | Shows |
|---|---|---|
| `systemd` | 2 configurations, with and without health check, any files missing, all failures | `RolledBackRestores`, `OkIsInForce`, `LastGoodIsProven`, `LifecycleEnds` |
| `applier` | 2 clients, 2 rule sets, 2 exits, 3 rows, 1 failure | `StoreConsistent` (types, table, exits of switches, entries found by OnHealth), `PlanesAgree`, `NothingLeaks`, `CommitAfterHealth`, and with three changes in a row, so that a view can be stale, `NoLostUpdate` |
| `applier_faults` | 1 client, 2 failures, 1 crash, stalls, a fallback of 1 | what survives failing compensation, eviction and restarts: `ReferencesHold`, `SubmittedIsExplained`, `ImplementsConfigChange` |
| `applier_live` | 2 clients, 1 rule set, 1 failure, fairness | `VariationEnds`, `EveryApplyReported` |
| `dotconn` | 2 queries, 1 id, 2 connections, fairness | `Consistent` (`PendingIsCurrent`, `NoOrphan`, `OpenIsCurrent`, `NoWaiterLeft`: no entry outlives its connection or close), `OwnAnswer`, `ReleasedWithConnection`, `CloseEnds` |
| `upstream` | every choice of up to 2 primary and 2 fallback sources | `QueryConsistent` (`GivesUpLast`, `WinnerIsValid`, `DeadlineRetires`, `NobodyIsStuck`: the channel has room for who has still to report), `NothingLeft`, `Returns` |
| `tgbot` | 2 tokens, 1 admin list or none, 3 activations per life, 1 crash | `OneLiveBot`, `StatusHonest`, `BotMatchesSettings`, `EndIsNoticed` |
| `forwarders` | 2 client addresses, 2 setups, 2 connections, 2 arrivals in all, fairness | `ForwardersAccounted` (accounts equal what is open, caps hold), `NoOrphanRelay` (`RelayIsStored`, `SnapshotComplete`: nothing is stored behind Shutdown's snapshot), `StopLeavesNothing`, `NobodyWaits` |
| `listeners` | all flags with the default addresses; 10 panel addresses with 7 TCP backends; 6 UDP backends; bad certificates and policies; 2 restarts in a window, fairness | `FrontdoorConsistent` (ports, status, `OnlyOrphansKeep`: what a drain may wait for in vain), `PanelReachable`, `PlainRecovers` |
| `panel` | 2 overlapping requests of a family, 3 settings requests or queries, 2 secrets, 1 publication, 1 restart, without TLS or on :443 | `PanelConsistent` (live is stored, a changed layout is announced, what a boot accepts), `AnswerExplained`, `MtgConsistent` |
| `rulesets` | 2 sources (one knows dates only), 4 edits, 2 syncs; 3 applies, ring of 2; unsorted pairs of 9 rules (suffixes, a name, a keyword, a network, a list, MATCH, one disabled, one with a trailing dot), 5 requests, the active exit direct; fairness | `SyncConverges`, `TrackedTruthfully`, `RulesConsistent` (`PlanesClassifyAlike`: the readings of a valid list agree on what a rule decides; `TagVouches`: a row's tag is that of its content) |

A run that shows a disagreement between the code and its documentation:

| Run | Documentation | Code |
|---|---|---|
| `applier_crash` | clients poll apply_status until a terminal state is stored | a restart leaves the row of the change under way submitted for ever; the panel, whose ring is gone, answers apply_expired |

Differences that shaped a property instead of a run:

- `SwitchExit` says that on any failure the exit pointer is restored (`applier.go:270-273`);
  when the restoring UPDATE itself fails the pointer stays at the new exit and the row says
  failed. `PlanesAgree` and `ConfigChange` allow a difference only after a declared failure.
- `forget` (`dotconn.go:151-157`) compares the connection of an entry, not the entry. When a
  query has been answered, its id reused on the same connection and only then its
  cancellation noticed, the entry of the new holder is removed. That query is released by
  its own deadline only. With 65536 ids this takes a full turn of the counter; `NoOrphan`,
  `OwnAnswer` and the liveness properties except exactly these queries (`displaced`).
- `Timeout` is called the hard cap on Query (`upstream.go:99`). After the deadline Query
  waits for its goroutines, and `writeFramed` has no write deadline: while a write blocks on
  a full send buffer Query does not return. `Returns` assumes that writes end.

- `PanelReachable`: with a static certificate, a panel port other than 443 and the SNI
  forwarder on, nobody listens on the backend the forwarder sends the panel's name to.
- `PlainRecovers` excepts a server that was closed before its goroutine activated it: it
  serves on unknown to the front door, and `serveAll` waits for it.
- `SyncConverges` excepts a source moved to a server that compares dates only: the date of
  the old source is sent to the new one.
- `TrackedTruthfully`: an older apply id may report a later apply of the same rules, since
  the lookup is by snapshot (`applies.go:140`); never an earlier one.
- `PanelReachable` speaks of settings that fit: a panel port of 53 or 853 with TLS, plain HTTP
  on 80 or 443 (the fail-fast guard, `main.go:381-391`), or a stored `panel_backend_tcp` that
  collides or cannot be bound ends the daemon.
- `BootAccepts` (of `PanelConsistent`) excepts a missing route and the backend addresses, of
  which the handler checks the form alone (`frontdoor_proxy.go:290-299`): 127.0.0.1:99999 is
  stored and ends the next boot or its front door.
- `RulesConsistent` says nothing of what no rule decides (see `RuleTable` above), nor of rules
  and names written with a trailing dot where only some of the planes drop it.
- `SubmittedIsExplained` lets an eviction strand a row: at most one per failure beyond the
  capacity of the fallback.
- `MtgConsistent` excepts requests that overlap while a command fails: they take no lock.

Differences met while reading that no run states:

- Control socket rollback (`ctl_socket_linux.go:313-316`) says it skips the active snapshot;
  it skips the active version id and may choose another version of that snapshot.
- `wizard.go:366-368`: admin ids can be changed without losing the token; a token that is
  only in config.yaml is not used until the next restart.
- `sniforward` comments (73-77, 174-178) say accept blocks at the cap; the code refuses. A
  comment (257-258) says both sides close when either half finishes; `pipe` waits for both.
  gc may drop a session that became active after it was collected. The frame parser
  (`parse.go:223-253`) reads a PING frame (0x01) as an ACK frame.
- When the front door or the QUIC forwarder does not start the log says the panel still
  serves (`main.go:424`); with the SNI forwarder on it is then on the loopback backend only. A DoQ accept error ends its loop while Status
  says running. `bindLocked` (262-264) leaves unstarted sockets.
- The preflight on demand may overwrite a newer result with an older one. DoH behind the
  SNI forwarder sees the client as loopback. A ragged CIDR list is accepted while spoofing
  is off and refused when it is enabled. A boot without an egress address leaves the front
  door down.
- A sync that gets a body without rules stores it and clears the error; applies are refused
  after that. A sync on demand whose context has ended cannot record its error. Rules of a
  deleted set that are already in the active list stay there as manual rules.
- The preview of the rules ignores order and MATCH. `handleAppliesList` dereferences an entry that may have been evicted.

### Bounds

`MaxVersions`, `MaxRows`, `MaxFaults`, `MaxCrashes`, `TerminalCap` (applier), `MaxConns`,
`IdSpace` (DotConn), `MaxGen`, `MaxCrashes` (TgbotManager). Two callers suffice for the
races of the Applier, since `variationActive` admits one change: the others are one
change, one that waits or is refused, and a concurrent DeleteExit. Two failures let a step
and its compensation fail. Two queries and one id make the counter wrap onto an id that is free again
and find it exhausted (the skip over an id in use needs two ids and is not in the instance);
two connections give a stale reader next to an active one.
`TerminalCap = 1` makes the fallback overflow: in `applier_faults` the second failing status
write evicts the first outcome, the one row `SubmittedIsExplained` then allows to be
stranded. Three generations give replaced bots next to
their successors. `MaxSetups`, `MaxConns` and `MaxArrivals` (forwarders) give a session and
its replacement, or one connection at the cap and one refused, or one of each: the two
forwarders interact only through start and stop. `MaxRestartsPerWindow = 2` (5 in the code)
reaches the restart and the give-up. `MaxRequests`, `MaxSecrets`, `MaxPublishes` and
`MaxCrashes` (panel) give two overlapping requests and a query or a restart between their
steps. The session caps of the forwarders do not bind in the instance (the per-address cap
and the setup slots do); the proofs cover them. `MaxEdits`, `MaxApplies`, `RingCap` (rule pages) let a source move under two syncs,
and the same rules be applied again before a poll and after an eviction.

Distinct states: `systemd` 322,616, `applier` 1,418,935, `applier_faults` 2,808,929,
`applier_live` 44,859, `listeners` 264,187, `panel` 2,518,680, `rulesets` 551,477.

### Fairness

- `Systemd`: weak fairness of the lifecycle. Its goroutine never waits for another, and
  systemctl and the probe run under contexts with deadlines.
- `Applier`: strong fairness of each client and of the observer, because they take `a.mu`
  against each other and Go's `sync.Mutex` hands the lock to a waiter starved for 1 ms; weak
  fairness of the delete that holds `a.mu`. Nothing is assumed about new calls.
- `DotConn`: weak fairness of queries, readers, socket closes and nil sends; none for the
  server, the network or the callers' contexts.
- `Upstream`: weak fairness of Query, its timers and goroutines, and of writes: the send
  buffer is not full. None for the upstreams.
- `Forwarders`: weak fairness of the boot and stop sequence, the read loop, the gc loop,
  Shutdown, each worker whose step cannot block (setup, a drop that has begun, a relay whose
  socket is closed) and each TCP handler up to its deadline. Nothing is assumed of clients,
  upstreams or time; a pipe may stay open for ever.
- `Listeners`: weak fairness of the supervisor and of ActivateAndServe of each server.
- `RulePages`: weak fairness of the ticker and of each sync (the HTTP client has a timeout).
- `TgbotManager`: weak fairness of the call under way, of cancelled bots ending and of
  cleanups; no bot has to end by itself.

## 4. Proofs

`SystemdProofs` proves for every set of configurations, with and without a health check:
`TypeCorrect`, `RolledBackIsClean`, `OkMeansInForce` (invariants) and `LastGoodOnlyProven`
(an action property). The assumptions are those of `Systemd`: the boot configuration is a
configuration and `Down` is not.

The properties speak of the end of a lifecycle and say nothing about its middle, so they are
not inductive. `IInv` adds, per stage, what the code has established there: `LockInv` (the
lock is held exactly outside `idle`, no outcome before the end, a rollback's candidate is
the baseline), `ForwardInv` (from `reload` on every file holds the candidate, from `observe`
on every unit does) and `BackwardInv` (the render stages touch no unit; after a clean
restore the files equal `prev`). One lemma per action shows that it keeps `IInv`; `Invariance`
combines them. `LastGoodOnlyProven` follows from `ForwardInv` at the two actions that
assign `lastGood`, together with the verdict of the probe that `ForwardInv` keeps for the
stages behind it.

`TgbotManagerProofs` proves for every set of tokens and admin lists and every number of
activations and restarts: `TypeCorrect`, `AtMostOneBot`, `StatusNeverLies` and
`BotFollowsSettings`. It assumes `TgbotManagerAssumption`: the placeholders for "no token"
and "no admins" are not values, and the bounds are natural numbers. The three properties
are not inductive because they say nothing of a call under way or of bots not yet started.
`IInv` adds `GenerationInv` (`m.cancel` and `m.running` belong to the current generation,
later generations have not been started: this is why a late cleanup cannot touch a
successor) and `CallInv` (what a call carries at each stage: validated settings have a
token and admins, and after its commit the store equals what the swap will build from).

`RulePagesProofs` proves first, for all rule lists and whatever is asked for: `ValidListsAgree`,
what a rule of a list that passes Validate decides goes the same way in mihomo's lines and
in the dry run, and in the resolver's table too when the rule is one on names. What no rule
decides is not claimed, since there the code's readings differ. The argument: the first rule of the stable order that matches is the best of the first matches
of each kind (`FirstOfFirsts`, `SuffixIsFirst`, `BestIsFirstHit`), ranks number the enabled
rules without gaps (`RanksAreComplete`), and an enabled MATCH stays last when disabled rules
are dropped (`MatchStaysLast`).

It then proves for every set of bodies and sources, every ring size and every
number of applies and syncs: `EntriesAreTruthful` (`[]TrackedTruthfully`) and
`RulesAreConsistent` (`[]RulesConsistent`, which cites `ValidListsAgree`). `TrackedTruthfully`
says nothing of a poll between its moments or of the memory it reads, so it is not
inductive; `EditorInv` adds that rows never contradict outcomes (`RowsTruthful`), only the
last apply runs (`RunningIsLast`), memory belongs to the newest apply of its snapshot
(`MemoryIsNewest`) and a pending answer, poll or entry names an apply that exists
(`AnswerOK`, `PollOK`, `RingOK`). `TagVouches` needs `TagInv`: what a sync is about to write is
not newer than its source either, whatever the source served since it was fetched. It assumes `TrackingAssumption`, `RuleSetsAssumption`, and
that the starting lists pass Validate, as Init requires.

`DotConnProofs` proves for every number of queries, connections and message ids:
`MapIsConsistent` (`[]Consistent`) and `AnswersAreOwn` (`[]OwnAnswer`). It assumes
`DotConnAssumption`. The properties say nothing of a reply between the server and its
waiter. `IInv` adds, for each place a reply or a nil can be in, whose it is: connections are
numbered in the order of installation (`Numbered`), a query is pinned to the connection it
was registered on (`Pinned`) and in one place at a time (`OnePlace`); a reply that is owed or
held by a reader belongs to a query that is still in the map, whose id was given up there,
or whose connection is no longer the active one (`RepliesAccounted`); a matched reply goes
to a query of the same connection (`DeliveriesOwn`), a nil to one whose connection ends
(`NilsOwn`). `OwnAnswer` itself excepts an id that was given up on the same connection with a
reply to come, and a server that answers one request twice is not modelled. `NoWaiterLeft` adds `LiveInv`: the active connection is neither closed nor being
given up, and one that is not installed has nobody to give it up.

`ApplierProofs` proves for every number of callers, rule sets, exits,
rows, failures and crashes, with and without a health check, every invariant and action
property the Applier runs check, and that the pipeline implements `ConfigChange`. It
assumes `ApplierAssumption` and `DownAssumption` only. The argument has five layers, each an
inductive invariant on top of the one before:

1. `OwnerInv` (theorems `Ownership`, `ChangesLeaveNothing` = `[]NothingLeaks`). The types,
   what the orchestrator's position says about the hooks (`OrchInv`), what each caller
   carries at each program counter (`CallInv`), and that at most one caller or the observer
   owns the variation (`OneOwner`) while the maps hold entries of the owner alone
   (`OwnersOnly`).
2. `RefInv` (`ReferencesAlwaysHold` = `[]ReferencesHold`, `StoreHoldsTogether` =
   `[]StoreConsistent`). An exit that is being deleted is neither protected nor active, and
   the active exit follows the switch under way (`ExitRefs`), hence the exits a switch may
   need have rows (`SwitchExitsExist`); between SetActiveRuleVersion and Publish the active
   version is the one about to be published (`PublishInv`, `TableFollowsActive`).
3. `AimInv` (`CommitsAreHealthy`, `NoUpdateIsLost`: action properties). What the change
   under way aims at is what its lifecycle renders (`TargetInv`), and the snapshot a caller
   said it replaces stays the active one until the commit (`FreshInv`).
4. `PlaneInv` (`PlanesAlwaysAgree` = `[]PlanesAgree`). A success is reported only of what is
   in force (`OkInv`), and while nothing has failed every file, unit and snapshot still holds
   what was in force before the change (`BaseInv`).
5. `RowsInv` (`SubmittedRowsAreExplained` = `[]SubmittedIsExplained`). The entries of the
   change under way name the newest row and its snapshot, a switch being settled its own
   (`SettleInv`, kept next to `OwnerInv`). `Account` counts: until a row is stranded every entry of the
   fallback has cost a failure, and a row is stranded only by a failure that finds the
   fallback full. Without it the bound of `SubmittedIsExplained` is not inductive.

`PipelineRefines` is `Spec => ImplementsConfigChange`. One lemma per abstract step says what
a concrete step must do to the two planes and to the change to be that step (`NoChange`,
`BeginChange`, `MoveChange`, `ConfirmChange`, `EndChange`, `GiveUpChange`, `RepairChange`,
`CutShortChange`), then one lemma per concrete action cites the one it is. `ChangesSettle`
proves of the abstract specification alone what it is for (`Settled`: planes equal while no
change is open and none has been declared failed); `PipelineSettles` transports it along
the refinement to the pipeline.

`PanelProofs` proves for every number of requests in flight, every set of bodies, stored
settings, domains and questions, and any number of restarts: `SettingsStayConsistent`
(`[]PanelConsistent`), `AnswersAreExplained` (`[]AnswerExplained`) and `RotationIsAtomic`
(`[]MtgConsistent`). It assumes `SettingsAssumption` (a body names the settings of its own
page and is well-formed, a boot finds what the handlers may store), `ResolveAssumption`,
`MtproxyAssumption` and `PanelAssumption`. `IInv` has one part per family:

- `SetInv`: `settingsMu` is held by the request under way (`LockHeld`); what a request is
  going to publish fits the settings it commits (`CommitInv`) and then the stored ones
  (`PublishInv`), where `PolicyFits` does not depend on the route of the moment; the stored settings never ask for
  spoofing with a list that makes no policy (`PolicyReads`, stronger than `BootAccepts`, whose
  exceptions come and go); what is live
  is stale only between the commit and the publication of a request of its kind (`LiveInv`).
- `ResInv`: a query under way has seen the table and the policy that are live and holds one
  of those it has seen (`QueryInv`).
- `MtgInv`: every secret minted was asked for (`MintInv`, by counting); what a request carries
  (`CarryInv`); while no compensation failed or met another request, a request is undone only
  when alone, and what is loaded or running is stale only while some request will still see
  to it (`OverlapInv`); what a request that is alone has reached at each stage (`AloneInv`).

`DaemonProofs` proves, about `Forwarders`, for every limit, number of packets, clients and connections:
`AccountsAreExact` (`[]ForwardersAccounted`), `NoRelayIsOrphaned` (`[]NoOrphanRelay`) and
`StopsAreClean` (`[]StopLeavesNothing`). It assumes `QuicAssumption` and `SniAssumption`. The
properties state totals and say nothing of a single worker, so they are not inductive. `IInv`
adds, per worker, what it holds at each program counter (`SetupOK`, `DropOK`), which stored
sessions have a relay (`StoredOK`), that a key has one setup at a time (`OneSetup`,
`PendingHeld`), and that what the stop waits for cannot come back (`LoopsOK`, `DoneOK`). The
totals follow by counting. One case needs care: a worker that finds the forwarder closed has
released its reservation but still has a socket, so sockets are counted over `Sockets`, the
holders and the refused; the limit stays because nobody reserves once it is closed. `SniInv`
counts the handlers, `BootInv` relates the two forwarders to the boot and the stop.
`SnapshotComplete` is a second induction on top: a promotion under the lock finds the
forwarder closed or comes before the snapshot.

About `Listeners` it proves, for every restart budget and every set of settings, the ones that
collide included: `StatusIsHonest` (`[]FrontdoorConsistent`) and `PanelIsReachable`
(`[]PanelReachable`). It assumes `FrontdoorAssumption` and `ListenersAssumption`. The properties speak of the daemon that is up, so they say nothing
of the ports while run is still taking them. `ListenersIInv` adds which listener may own a
port at each step of run (`MayOwn`, `PortsInv`), how far run has got (`RunInv`), that with
settings that fit a configured listener that is missing was refused (`NothingMissing`), and what the supervisor
holds at each of its steps (`FdInv`), with whom a drain waits for (`WaitInv`).

`UpstreamProofs` proves for every pair of pools: `ReturnsAreJustified` (`[]QueryConsistent`).
It assumes `UpstreamAssumption`. The property speaks of the moment Query returns. `IInv`
accounts for every source before it: a source is idle exactly as long as it was not fired
(`SourcesInv`), a source reports once, its result is in the channel or was received, and
`seen` counts the received ones (`ChannelInv`), which have all failed while the race goes on
(`RaceInv`). Hence `seen >= Expected` means that every source of both pools has failed, and,
counting results sent and sources that have still to report (`QueueCounted`), no send can
find the channel full (`SendsHaveRoom`).

Only model-checked: the liveness properties, which are outside the prover's reach, as is
ENABLED. Every invariant and every action property a run checks is proved. Of six liveness
properties the safety core, that there is nothing left to wait for, is one of these
invariants and so proved for every instance: `NobodyIsStuck` of `NothingLeft` and `Returns`,
`SnapshotComplete` of `NobodyWaits`, `OnlyOrphansKeep` of `PlainRecovers`, `NoWaiterLeft` of
`ReleasedWithConnection` and `CloseEnds`. What stays with TLC is that the scheduler then
takes the remaining steps.

## 5. Abstractions worth knowing

- A database transaction is atomic; a failing statement changes nothing. Reads of the
  handlers that precede the Applier's lock are steps of their own only where a property
  depends on them (the stale view of `NoLostUpdate`).
- systemctl reload of a unit succeeds, or leaves the unit on its old configuration or down.
- Message contents, wording of errors, audit entries and logs are left out.
- `TgbotManager`: validation is a step that may fail; Telegram itself is not modelled.
- `Upstream` assumes that writes end (`upstream.go:346` sets no write deadline) and leaves
  out the pool (a connection dialled after Close, `upstream.go:309`).
- A daemon without a health check is an initial state of `Systemd` and of `Applier`, so runs and
  proofs cover the synchronous result path too. sniproxy is never probed, and a unit that
  dies after its reload is not modelled.
- Inserting the rows of a change and registering it are one step of `Applier`.
- `DotConn` does not represent a socket that was dialled and not yet installed, nor a server
  that answers a request twice.
- `QuicForward` takes a datagram as what the parser makes of it; a CRYPTO length beyond the
  packet (`parse.go:244-248`, an index out of range) is left out.
- `Listeners` leaves out the `-listen` override and the iOS listener.
- The database does not fail in `RuleSets`; that of `Settings` and `Applier` does.

## 6. Not modelled

- Text in, text out, without state: importers, URI parsers, renderers other than mihomo's
  rule lines, iOS profiles, the web panel.
- Telegram commands and the rest of the wizard: they call operations that are modelled.
- Logins, sessions, first-user bootstrap, rate limits: candidates for a module of their own.
- The updater replaces the program, the installer is a one-shot root program; both are
  mostly file I/O. The installer's recorder and undo are a candidate.
- `Frontdoor.Reconcile` and `rebuildAndPublish` have no production caller.
- The no-op orchestrator, logs and metrics hold no state a property depends on.

## 7. What is left

1. `Sessions` (bootstrap, revocation, limiter) and the installer's undo.
2. The upstream pool next to `Upstream` and `DotConn`.
