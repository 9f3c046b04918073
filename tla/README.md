# A TLA+ development of boundary-probe

boundary-probe answers one question: the connection is down, where did it
break? It runs a fixed series of probes (gateway, DNS, canary address, control
hosts, target, captive portal, traceroute), folds what they saw into ten Boolean
signals, classifies the signals with an ordered decision table, and stores the
run in SQLite before it shows the verdict. A stored run can be looked at in a
local web UI, escalated as a report and a support bundle, or captured as a
fixture. The program has little state. What is hard about it is elsewhere: a
verdict is an inference from uncertain, non-simultaneous observations, the
table's rows overlap, pings and requests run in threads, processes share a
database file that any of them may be creating or migrating, and documents made
of a run must show or hide an address in every place it was rendered to.

Everything here is translated from the code under `src/src/boundary_probe/`
(paths below are relative to it). Definitions keep the names of the source.

## 1. Inventory

| Part | Code | State | Operations | What is hard | What makes it correct |
|---|---|---|---|---|---|
| Classification engine | `engine.py`, `models.py` | none | `diagnose`, `gateway_functional`, `refine` | rows overlap; order is semantics; evidence text is fixed per row | claims are true of the signals; a portal outranks what it fakes; repairs move blame outward; a vantage only nudges |
| Collectors | `collectors/*.py` | none | one function per probe | partial answers, thresholds, timeouts, unparsable output | each slice says what the probe saw, no more |
| Control-host check | `collectors/control_hosts.py` | futures, results | submit, collect, wait, sort | completion order, a job that raises, Ctrl-C | quorum over every host's own ping; no thread left behind; ends |
| Normalizer | `normalizer.py` | none | `has_persistent_loss`, `normalize_from_pings` | look-ahead over missing hops; what counts as a destination | an isolated silent router is no loss; more loss never clears |
| Orchestrator | `collectors/orchestrator.py` | slices of a run | `collect_signals` | the network changes between probes; a missing tool | signals never contradict; steady faults are named; it ends |
| Run store | `store/__init__.py` | SQLite file | `connect`, `_ensure_schema`, `insert_run`, `fetch_*` | non-transactional migration; concurrent processes; crashes; busy timeout | acknowledged runs are durable; failed runs leave no trace; schema usable |
| External vantage | `collectors/vantage.py` | none | `collect_vantage` | must fail open | never stops a run |
| CLI | `cli.py` | none | diagnose, history, escalate, capture, watch, ui | order of refine, store, print; partial failure; exit statuses | the exit status tells what became of the run; the target goes only where the user sent it |
| Watch loop | `watch.py` | poll count, panel history | poll, persist, remember, sleep | errors and Ctrl-C between steps; drift | panel and log agree; cadence; ends |
| Configuration | `config.py` | none: the file is read again at each use | `load_config`, `_validate` | invalid or edited file | nothing invalid reaches a probe |
| Runner, parsers | `collectors/_*.py` | none | `run`, parse functions | localisation, timeouts, missing tool | fail toward fault |
| Targets | `targets.py` | none | `parse_target` | forms with and without a port | a port is used or refused, never dropped |
| Web UI | `ui/` | none of its own | GET/POST handlers in threads | concurrent first requests; pages read between other sessions' statements; daemon threads killed | answers and record agree; a link leads to a stored run; newest first; requests end |
| Escalation, bundle, fixture | `templates/`, `bundle.py`, `cli.py` | files | render, scrub, digest, write | one address in many places; two files, written in order | a scrubbed document hides the path everywhere, an unscrubbed one shows it; what was saved stays |
| Calibration | `scripts/` | none | offline statistics | – | – |

How they interact: the CLI, the watch loop and every UI request call
`collect_signals`, which calls the collectors in order; the normalizer turns
the slices into a `SignalSnapshot`; `diagnose` maps that to a `Diagnosis`; the
vantage may refine it; `connect()` and `insert_run` store it. The pieces share
no memory. Processes and UI threads meet only in the database file.

Hazards are listed in `PROJECT.json`, each at its line with the properties aimed
at it. Two carry only a note: the ping's own run time against its subprocess
limit, and a client that sends less of a body than it announced. Three are covered
in part: loss equal to a threshold, a clock that is set back, and the runs that a
racing first use may take away again.

## 2. Modules

```
Engine ── Verdict                      decision table; verdicts of successive runs
  └─ Probes                            collectors and ping-derived signals
       ├─ Network                      external: faults and what probes see under them
       │    └─ Collection ─┬─ DiagnoseRun   collect_signals; the diagnose command
       │  Config, Targets ─┘                load_config; parse_target
       │                        └──► implements Verdict
       ├─ ControlCheck ◄── (INSTANCE) Collection
       └─ ControlPool ──► implements ControlCheck
PathLoss ─┬─ Escalate                  loss over hop tables; escalate and capture
Bundle ───┘                            what a document holds, scrubbed or not
Store ──► implements RunLog            the database, statement by statement
  └─ UiServer                          request threads over the store's sessions
Watch                                  the watch loop, in ticks of a quarter second
Ranking                                a sort, used by ControlPool and UiServer
MC*                                    instances for TLC

OperatorLemmas                         lemmas about Engine's table and about Ranking
  ├─ ControlPoolProofs, EscalateProofs
  ├─ StoreProofs                       the store and the web UI over it
  ├─ VerdictProofs ◄─────────┐ (INSTANCE)
  └─ CollectionProofs ── DiagnoseRunProofs
WatchProofs
```

**Engine** holds the table as a function of the snapshot, row by row in the order
of `_RULES`. A `Diagnosis` is its boundary, its confidence in hundredths, and a
set of *claims*: what the row's fixed evidence and summary text says. Wording is
dropped; what a sentence asserts is kept, because a row that asserts something
its condition does not imply is a real bug of such tables. Three rows do so, by a
sentence that calls the gateway reachable without asking its ping
(`gateway_reachable`); `Overstates` says when. `Snapshots` is the set
of all snapshots that are `Producible`.

**Verdict** runs the engine over arbitrary sequences of producible snapshots, so an
action property relates any two of them (monotonicity, don't-cares). It is also what
one command does with the engine: classify once, consult a vantage at most once.

**Probes** has one operator per collector, from what its probe saw to its slice. A
ping is abstracted to timed out, unparsed, or sent/received/loss; a route command
to failed/found/none; a fetch to a class of status. `snapshot_of` is the last part
of `collect_signals` with `normalize_from_pings`.

**Network** is not part of the program. It is the environment: a set of twelve
faults and, for each probe, the outcomes possible under them. A probe that may go
either way (a LAN resolver with a warm cache, a portal that filters ICMP, 30% or
60% loss) yields a set, and the model takes every choice.

**Collection** is one call of `collect_signals`. `pc` is the collector to run next;
each action is a collector with its early returns, or one of its commands where it
uses the result of the one before: `GatewayRoute` asks for the route, `GatewayPing`
pings the address it named. `Change` toggles one fault between any two probes. `ever` and `always` are history variables (what was wrong
at some time, at all times) that the properties speak about. `CannotStart` and
`ControlHostsFail` are the `FileNotFoundError`/`OSError` that ends a run.

**ControlCheck** and **ControlPool** are the two levels of `collect_control_hosts`:
what callers may rely on, and the thread pool with submission, completion in any
order, `future.result()` re-raising, the `with` block's wait, the stable sort and
Ctrl-C. Collection uses the first, which the second is checked to implement.

**Store** is one `connect()` per session. Python's `sqlite3` runs DDL in autocommit
and opens a transaction before an INSERT; so each DDL statement of
`_ensure_schema` is a durable step of its own, and the two INSERTs take the write
lock until their commit. A session may hit the busy timeout, an I/O error or be
killed at any statement. `Deployments` says which file is there at first and which
sessions have it to themselves. **RunLog** is what callers are promised: runs are
only added, and only a run on record is acknowledged.

**UiServer** composes the store with the request threads of `ui/server.py`. A
request is a session of Store: its handler answers at once (`AnswerAtOnce`: foreign
origin, unknown path, bad form, loading page) or opens the store, after a
collection that may raise, and takes the store's own steps between those of the
other sessions; the answer is sent after the `with` block. Sessions outside
`Requests` are commands of other processes. `Stop` is Ctrl-C: `serve_forever`
ends and the daemon threads are cut off where they stand. What a row adds
to a session's identity is when it was stamped and which id it got: the stamp is
taken by `insert_run` before its INSERT may have to wait, the id with the INSERT.
`Recent` orders by both as `fetch_recent` does, with `Ranked`. A browser follows links only
(`Known`): it asks for a run some answer has named, or for one that never was.
`since` and `cold` are history variables.

**DiagnoseRun** extends Collection with the rest of the command: the arguments
(`line`), history, the target, the configuration before the probes and again after
them, the vantage, the store, the output, Ctrl-C, and the exit status. The output comes
after the commit and may fail (`ShowFails`): a print raises, or the interpreter cannot
flush what was printed (`Unflushed`). **Config** is
`load_config` over a file that is missing, unparsable, or a record of the settings
whose values matter; validation sees the mixture of settings and defaults.
**Targets** is `parse_target` over the form of a target, and the dispatch of
`collect_target_service`. `consulted` is a history variable: where the vantage's
URL came from and whether it was contacted. `Verdicts` maps the command to Verdict:
before the diagnosis it stands for a verdict on a snapshot of nothing measured, from
the step after the vantage on for a refined one.

**PathLoss** is `has_persistent_loss` over a trace given as a partial function from
hop index to loss (an unparsed hop is absent). **Bundle** says which addresses the
parts of a document hold. An address is named for its role (`lan`, `wan`, `isp`,
`dest`, `canary`, `control`), so "the same address in two places" is the same
name in two sets; a part is the set of addresses in it, prose included. Scrubbing,
the second pass and the digest are operators, in the code's order. **Escalate** takes
a run from its trace to the files: `at` is the place in `_escalate`,
`_write_bundle` or `_print_capture`. A write that fails or is cut off leaves the
old file or a spoilt one. **Watch** is `run_watch`; `Second = 4` ticks and
`HistoryCap = 8` are the code's constants, and the time a poll or the store takes
is the environment's choice. Storing a poll, counting it, remembering it and forgetting
the ninth are steps of their own, for Ctrl-C may fall between any two. **Ranking** is a sort by a key with ties broken,
given as a strict total order on a finite set: `list.sort` with positions as ties in
ControlPool, `ORDER BY` that ends in the id in UiServer.

## 3. What the runs check

| Run | Question | Bounds, and why they are enough |
|---|---|---|
| `verdict` | Is the table sound over all verdicts and pairs of verdicts? | None: every producible snapshot (the input space is finite) and every vantage answer. |
| `store_safe` | Where the file is current, or sessions do not overlap, may each session rely on the schema, and does the store implement the log? | Four sessions: two writers in conflict, one more waiting, one migrating before or after them. The theorems remove the bound. |
| `ui` | Do answers and record agree, whatever the sessions do to each other, and what does a race over the file leave to a command that comes alone? | Two requests and one command: a request in conflict with another, with a process outside, and one that reads while the other writes; on a missing or an old file also the command by itself, before or after the race. Every starting file, so first requests race to create or migrate it. A page of one run (`MaxHistory`) is shorter than the history; two values of the clock make runs differ or tie. On a file that is not current the clock and `since` stand still, since the properties that look at it do not speak of that case. |
| `control_pool` | Is the check right in every completion order, with failing jobs and Ctrl-C? | Four positions with one host configured twice, so that the sort meets equal keys; two interrupts, since the second one has an effect of its own; pings that answer all, two, or none. |
| `diagnose_run` | What can a verdict say of the network, what can the command say of the verdict, and is what it does with the engine a behaviour of Verdict? | Two troubles (faults at the start plus changes): a pair of simultaneous faults, a fault that goes, one that comes, one that comes and goes. Three control hosts, quorum two, one host a name. Seven command lines: three that probe, differing in the kind of target and in what they skip, and one for each refusal and for the history. Seven files: none, one that is no TOML, two good ones, two refused, one with a URL that cannot be split. |
| `report` | Is the look-ahead right over any two traces, and does each document hold what it claims? | Five hops: every pattern with a gap of two between a lossy hop and the last one beyond hop 1; no, some or total loss at each. Every combination of options of both commands, over gateways with private and public addresses, known or not, literal and named targets, and traces that arrive or do not. |
| `watch` | Do panel, count and log agree, whatever step an error or Ctrl-C cuts off, and does the cadence hold? | Ten polls, past the cap of eight; probes shorter and longer than the interval; store delays of nothing and three quarters of a second. |

The bounds named: `MaxTroubles`, `MaxInterrupts`, `MaxHops`, `MaxHistory`, `MaxClock`,
`max_polls`, and the sets `Sessions`, `Requests`, `Deployments`, `Forms`, `Jobs`,
`CommandLines`, `Flags`, `Files`, `Pings`, `Losses`, `Runs`, `Escalations`, `Captures`,
`Durations`, `StoreDelays`. Only the runs over the store turn deadlock checking
off: there all sessions may have ended. Sessions are symmetric in the store
run that checks safety only and gives no session a role. A module's type
invariant is a conjunct of one of its properties (`ClaimsFollowSignals`,
`NoPingLeftBehind`, `ExitTellsOutcome`, `SavedFilesStay`, `PanelMatchesLog`, `SchemaInv`).

Properties to begin with:

- `Collection!SteadyFaultIsNamed`: a single fault that holds from the first probe to
  the last is named for what it is (`Expected`), and a network without faults is
  healthy, whichever way the uncertain probes went. This ties collectors,
  normalizer and table together. The losses that occur are 0, 30, 60 and 100 percent, none of
  them a threshold (20, 50), so it does not tell `>` from `>=` there. It says nothing of
  a firewall that drops every ping (`Nameable`, section 4).
  `Expected` depends on the configuration where the program does: whether the
  canary is a name or one of the control hosts, whether a portal is looked for, and
  whether two destinations are names (`NamesLookLossy`).
- `Collection!BlameHasACause` and `HealthyHidesNothing`: for any combination of
  faults, coming and going, no boundary is blamed without a cause there or one that
  changed under way and can be taken for it (`Misleading`), and a healthy verdict hides
  nothing except what `Unseen` spells out. A route that is lost between the route
  command and the gateway ping is blamed on the router; device and portal are never
  blamed for a change.
- `Verdict!ClaimsFollowSignals`: what a report says of the signals is so, in every row
  and after refinement, but that it may call a silent gateway that forwards reachable,
  and then says as well that it forwards.
- `Verdict!RepairMovesBlameOutward`: repairing things never moves the blame toward
  the user.
- `ControlPool!NoPingLeftBehind`: the check never ends over running pings, but for a
  Ctrl-C on top of a failure or a second Ctrl-C.
- `Store!SchemaInv`, `ImplementsRunLog`: see section 5.
- `Store!WarmStoreIsSafe`: a file that has become current, by whatever race, is as safe
  as one that was current from the start, so what can go wrong is confined to first use.
- `DiagnoseRun!ImplementsVerdict`: a command refines its own verdict, at most once.
- `UiServer!AnswerMatchesRecord` and `KnownRunIsFound`: an identifier is sent only for
  a run on record, an error leaves none, nothing is stored for a foreign origin,
  and a link that was shown keeps leading somewhere.
- `Store!OnlyThatDoesNotHeal`: after any race, kill or error, a command that has the file
  to itself finds a usable schema or makes one, but for the one damage that the run
  `store_cold_heal` shows.
- `UiServer!HistoryNewestFirst`: stamped early, stored late, tied within a second: of two
  runs of which one began after the other was acknowledged, the later is above.
- `DiagnoseRun!ExitTellsOutcome`: success means that the verdict on record, or the history,
  was shown; a refusal (2) and a collection that failed (3) that nothing was recorded.
  Any other status leaves that open, since the output may fail after the commit;
  what is on record then is the verdict as it was to be shown.
- `DiagnoseRun!TargetStaysLocal`: the outbound call is made only to the URL the user
  chose last, flag over file, an empty flag meaning none.
- `Escalate!BundleIsWhatItSays`: scrubbed, no part shows the user's path, notes and
  report included; unscrubbed, the path is there; either verifies.
- `Escalate!SavedFilesStay`: success means whole files, and what was reported as saved
  is not overwritten by the same command.
- `Escalate!FixtureFieldsAreClean`: what capture leaves has no public address in the
  fields of gateway and hops, and in its notes none but that of a gateway that failed.
- `Watch!PanelMatchesLog`: panel, count and database agree, but while a poll is being
  noted or when Ctrl-C fell there; even then they are one poll apart.

### Fairness

- `ControlPool`: weak fairness of the caller and of each job's end, for the same
  reason: a running job is a subprocess with a time limit.
- `DiagnoseRun`: weak fairness of the collectors and of the one thread that runs the
  command. Every subprocess and HTTP request has a time limit (`_runner.py`, the
  collectors' `timeout=`), the store step SQLite's busy timeout. `getaddrinfo` in
  `dns.py` has none of its own; that it returns rests on the resolver library's
  own retry limits. Faults, changes, failures and Ctrl-C are never assumed to come.
- `UiServer`: weak fairness of each request's handler, which is a thread of its own.
  A handler that waits for the write lock ends by the busy timeout, not by the
  fairness of whoever holds it: other processes have none. It is assumed that a
  client sends the body it announces (`server.py:118` reads without a limit).
  Where a deployment promises a command the file to itself, a request waits outside
  until that command is through, and `RequestEnds` does not count this waiting.
- `Watch`: weak fairness of the loop. A watch without `--count` does not end; the
  model always has a number of polls, and `WatchEnds` is about that case.
- `Store` has no fairness: it states no liveness.

## 4. Where the code and what it says of itself differ

Each of these is a run TLC must find violated; `PROJECT.json` quotes the lines.

- `store_cold_heal` (`SoloSessionHeals`). `connect()` is documented to yield a
  schema-ensured connection. Migration is a sequence of autocommitted statements.
  A session that read "no version", is overtaken by one that completes the
  migration, and then goes on to drop `runs` and dies, leaves version 2 without a
  table; every later session, even alone, fails.
- `collection_canary` (`OneDeadHostIsNotAnIspFault`). The canary is counted next to
  the control hosts as an independent destination. In the default configuration
  it *is* one of them, so one dead host produces an ISP verdict.
- `collection_loss_hidden` (`HealthyMeansNoLossMeasured`). Loss is charged only if
  the gateway answered pings. Behind a router that ignores them, 30% measured
  loss is reported as healthy, "with no path loss".
- `diagnose_run_vantage` (`VantageFailsOpen`). `urlsplit` stands before the `try` in
  `collect_vantage`; a malformed URL ends the command before the run is stored.

- `report_destination` (`ScrubKeepsDestination`). A scrubbed bundle is documented to keep
  the destination's addresses. Every public hop counts as the user's, so a trace that
  arrives puts the destination among the addresses to remove, and the second
  pass removes it from the resolved addresses, the target and the report.

Seen on the way, without a run of their own:

- "absent hops count as lossy" (TECHNICAL.md:65): the code says that they do not
  (normalizer.py:99-102). `AbsentIsNotLossy` states the code's rule, no run checks it,
  and the theorem `AbsentStaysClean` proves it.
- "the engine falls back to `inconclusive` rather than misfiring" where ping is blocked
  (TECHNICAL.md:118): a network that drops every ping is called `router-gateway`, since
  neither the gateway nor a host beyond it is seen to answer. `SteadyFaultIsNamed` leaves that
  fault out.
- The text of a verdict is not to be "falsely claiming the gateway \"is reachable\""
  (engine.py:31-36). `_gateway_evidence` is careful about it, the fixed text of three
  rows is not: "The local gateway is reachable and forwarding." (engine.py:101), and the
  summaries at engine.py:117 and 200. They are used behind a silent gateway too; `Overstates`
  is the exception that `ClaimsFollowSignals` makes for them.
- A capture is to redact public addresses or refuse (cli.py:541, docs/CALIBRATION.md:60 and
  105). It does so in fields; the note of a gateway that does not answer names its address
  in prose ("ping to ... timed out", gateway.py:50) and is written as it is.
  `FixtureFieldsAreClean` claims the rest and names this exception. The bundle has a second
  pass for it.
- A run acknowledged during a racing first use can be dropped with the table, which is
  why durability is claimed for safe deployments, and the UI's properties about
  runs on record for a file that is current from the start.
- The text of a remote-service report says that "DNS, gateway, IP-level canary pings,
  and control hosts are all healthy" (`templates/__init__.py:63-64`); the row can be
  reached with a silent gateway.
- The docstring of `load_config` says that an invalid file gives the defaults; a value
  out of range exits. Setting fewer than three control hosts alone is refused, since
  the default quorum of three still holds. In the UI the exit ends the request's
  thread and the connection closes without an answer.
- `collect_vantage` also lets an `OverflowError` escape, for an integer latency that no
  float can hold (`VantageRaises` includes it).
- The detail page is sent with `script-src 'none'` (`server.py:25-34`) and copies to the
  clipboard by an inline handler (`ui/templates.py:272`), which that policy blocks.
- An unscrubbed or scrubbed bundle's `signals` lack two of the ten signals, because
  a row does.
- A name that does not resolve counts as a destination that loses everything
  (`control_hosts.py:29-36`). With two names among canary and control hosts and a
  target given by address, a dead resolver is reported as a fault of the ISP
  (`NamesLookLossy` in `Expected` and `Causes`; the default configuration has no two).
- Where a portal answers an HTTP request, a dead service behind it looks alive, so a
  portal that comes and goes can make a run with a dead service healthy (`Unseen`).
- `_validate` lets through thresholds under which a probe cannot succeed: a
  `gateway_min_replies` above the four echoes that are sent, or an `ip_loss_pct` or
  `control_loss_pct` of 0, which no loss is below. A network without faults is not called
  healthy then, which is why the theorems about fault naming exclude them
  (`Discerning`).

## 5. What is proved

`tlapm` checks every proof. Assumptions on the constants are those named in the
modules: `StoreAssumption` (sessions and the "nobody" value are distinct, deployments
are well-formed), `ConfigAssumption` (`ValidConfig`, what `_validate` lets through),
and those of the other modules (`PoolAssumption`, `FormsAssumption`, `NetworkAssumption`,
...), which only say what kind of thing a constant is. TLC evaluates each of them. Where
a theorem needs more, it says so as a hypothesis: `SafeDeployment`, `Discerning`.

A module for a component proves one inductive invariant (at the start, kept by every
action, one step per action) and draws its properties from it. The theorem that it
holds is named after it (`UiInvHolds`, `PoolInvHolds`, `CommandInvHolds`, `ReportInvHolds`).

**OperatorLemmas.** `RankedSorts`: `Ranked` lists each element of a finite set once, the
smaller ones first. `TableDecides`: the table, which is ten records matched field by
field with the first match winning, decides as the chain of questions `Decision`
does, and the verdict is what `build` makes of that answer. The rows are established one by one (`TenRows`, `RowAsks`); that rows overlap is why
it takes the negation of all rows above. `VerdictIsBoundary`: no snapshot is left
without a verdict. `RefineOnlyNudges`: what a vantage can do.

**VerdictProofs.** `VerdictInvHolds`: every verdict is typed, has the boundary the table gives
its snapshot and, refined or not, no claims but that row's and a vantage's. `ClaimsAreTrue`
takes each row's claims to what its condition says once all rows above have
failed (`RowsClaimTruly`); where the fixed sentence about the gateway is not implied, that
traffic flows is, and the row says so. The action properties compare the chain of questions
(`Decision`) for two snapshots that differ where the property lets them:
`RoutesDoNotCount`, `SilenceAccusesNobody`, and `RepairsLeadOutward`, for which
`DecisionDistance` reads off what each distance from the user says of the signals.
`PortalDecides` is the position of one row. `VantageNudges` reads the step that consults
(`RefinementIsTyped`). TLC visits all snapshots; what the proofs add is why the statements hold,
and statements about Verdict to carry over to the command.

**StoreProofs.** For any set of sessions and any deployment: the types
(`TypeCorrect`), the lock (`LockIsReleased`), and that a session that failed has no row
(`FailureLeavesNoTrace`, strengthened to `RowOwner`: a row's session can only be at its
close, returned or killed). In safe deployments (the file is current from the start, or sessions never
overlap) `SchemaInvHolds`. Durability alone is not inductive: to keep acknowledged rows one
must know that nobody is about to drop the table. `SchemaInv` says so:
a current database has nobody migrating (`CurrentIsUsable`), one that is not
current has nobody using it and no rows (`UsedOnlyIfCurrent`), and every session
has in fact achieved what its place in `_ensure_schema` implies (`Achieved`).
`MigratesAlone` turns the deployment's promise into the fact each step of the
induction needs: while the file is not current, at most one session is open.
`Durability` and `SchemaIsEnsured` follow, both parts of what the runs check as `SchemaInv`. `StoreImplementsRunLog`: every step of the store
maps to a step of RunLog or to a stutter; the one step that could remove rows,
`DropRuns`, finds none.

On any file, safe deployment or not: `SoloHealsAllElse` (`OnlyThatDoesNotHeal`), the counterpart of
the run `store_cold_heal`: the damage shown there is the only one that a session with the
file to itself cannot repair. Run `ui` checks it on its instance,
where the UI makes the race (`UiSoloHealsAllElse`); it is proved from `AloneInv`, which says of a
session that overlaps with no other what `SchemaInv` says of all, and of one that
tripped over the schema that the damage is the unrepairable one and stays
(nobody migrates, since the version reads current). Whoever else comes and goes leaves
the invariant alone, since it finds no such session open. `WarmIsForGood` needs no invariant but
the types: a file with both tables current that nobody is migrating has no enabled
statement that drops or creates anything. `UiWarmIsForGood` says it of the UI.

The web UI, in the same module, for any requests beside any commands, any page length and clock:
`UiInv` adds to Store's invariants, which its lemmas prove again for steps that end several
sessions at once (`UiKeepsStore`), what an answer has to do with its request's place in
the store, that ids grow with the INSERTs and stamps lie between a session's begin
and its row, and that what a browser knows is on record while the file is current.
`AnswersAgree`, `LinksLead` and `PagesAreInOrder` (with `RankedSorts`) follow.

**ControlPoolProofs.** For any list of hosts, duplicates included, and any number of
interrupts: `PoolInv` says at each place of the caller which jobs have been submitted,
run, and taken. The caller leaves the `with` block only when no job runs, which gives
`PoolWaits`; the results it sorted are of all jobs, each once (`TakenIsAll`), so the
quorum is over all of them in whatever order they stand (`EveryHostCounts`).
`PoolImplementsControlCheck` maps every step of the pool to one of ControlCheck or to a
stutter; the step that needs an argument is the return, where a stable sort by
position is one of the abstract arrangements (`SortedArranges`).

**CollectionProofs.** For every configuration, set of jobs and number of faults and changes:

- `CollectionTypeCorrect` and `CollectionIsProducible`. No run hands the engine a snapshot
  outside `Snapshots`, so what run `verdict` shows over all of them covers every run
  of the program. The invariant is `SlicesAgree`: an answering gateway was found, and an IPv6
  route is looked for only where no gateway was.
- `SteadyFaultsAreNamed`, `BlameIsCaused`, `HealthyRunsHideNothing`. None of the three is
  inductive, for they speak of a run's end. What is kept along the way is `Observed`: every slice
  so far is what its probe can see of *some* state the network was in, between `always`
  and `ever` (`Nets`), and each slice may have its own; the gateway's has two, one when its
  route was read (`RouteWasSeen`) and one when it was pinged (`GatewaySaw`). Changes only add such
  states (`NetsGrow`). From there: what a slice tells of its state (`GatewayTells`, `DnsTells`,
  `LossTells`, ...), how the losses make the loss signals and the quorum over any list
  of hosts in any arrangement (`LossSignals`, `ControlsTell`), and what the table makes of the
  signals (`VerdictBySlices`). That all this holds of every run is `CollectionIsKnown`. A verdict that mixes two states is caught because the fault
  one probe met and another did not lies in `ever` but not in `always`.
- The hypothesis `Discerning` (the first two; the third needs its last part only): four echoes
  from the gateway are enough, the two reachability thresholds are not 0, and three lost echoes in
  ten exceed the loss threshold. The default configuration (2, 50, 50, 20) and the
  one the runs use satisfy it. Without it the statements are false (section 4), or,
  for the loss threshold, the loss that Network can produce is not loss to the program.

The statements were first checked by TLC alone, on one configuration. Generalising them showed that `Expected`,
`Causes` and `Unseen` had held for that configuration only; they now name the
dependence on the canary, on names among the destinations and on portals.

**DiagnoseRunProofs.** A step of the command is a step of its collection or none
(`CommandCollects`), so all of the above holds of the command (`CommandIsKnown`), and with
it `CommandIsProducible`, `CommandNamesSteadyFaults`, `CommandBlamesWithCause` and
`HealthyCommandsHideNothing`, which `diagnose_run` checks on its instance. `CommandInv`
ties the place in the command to what has been measured, diagnosed, stored and
shown, by whatever step the command ends, output that fails after the commit included:
`ExitsAreTrue`, `TargetsArePreserved`, `RecordFitsMeasurements` (with
`RefineOnlyNudges`) and `TargetIsKept`, for any command lines, files and number of faults.
`CommandImplementsVerdict` maps `Diagnose` to a poll of Verdict (`DiagnosePolls`: the snapshot is
producible, from `SlicesAgree`), `Consult` to a consultation or a stutter (`ConsultConsults`) and every other step
to a stutter (`VerdictRests`). Through it `CommandClaimsAreTrue` carries the theorems of
VerdictProofs over: what a user is told follows from what was measured, with the one exception
that `ClaimsAreTrue` makes.

**EscalateProofs.** For traces of any length: what `has_persistent_loss` flags
(`IsolatedIsIgnored`, `FirstHopIsIgnored`, `WorseStaysFlagged`, and without a run of its own
`AbsentStaysClean`). For
every trace, run and option `ReportInv` says which addresses each part of a document can
hold at each place: `BundlesAreTrue`, `FixturesHide` (the fields, and of the notes which
address may stay), `SavedStay`.

**WatchProofs.** For any number of polls, interval and durations: `PanelAndLogAgree` from
`WatchInv`, which ties poll number, log, panel and place in the loop, and `PollsKeepTheirDistance`
from `PaceInv`, which bounds the time since the last poll at each place of the loop.

### Checked by TLC only

- Liveness (`CheckEnds`, `CommandEnds`, `RequestEnds`, `WatchEnds`): liveness under fairness
  and ENABLED are beyond the prover.
- The runs that expect a violation.

## 6. What is not modelled

- Rendering, wording, remediation text, round-trip times: no property is about them.
- The regular expressions of the platform parsers: their result is an input
  (statistics or none). Loss is taken from the counts.
- The regular expression of a hostname and the syntax of TOML: a target is its form, a
  file its settings.
- The secondary traceroute's signal, which nothing in the engine reads.
- Addresses that are prefixes of one another (redaction replaces substrings), and
  IPv6 addresses, which `public_ips_in` does not look for.
- The client of the UI: the loading page's script and what a browser makes of markup.
- Windows' parsers: the three platforms differ in regular expressions only.
- The calibration scripts: offline, no interaction.

## 7. Plan

Done: the engine and its verdicts, probes and network, collection, control hosts at
two levels, the store with its refinement, the web UI over the store, the diagnose
command with configuration and target, path loss, bundle, escalate and capture,
and the watch loop, each with its theorems.

Still open in the model: Watch over Store's sessions in place of fixed `StoreDelays`;
a request body that arrives in parts; a clock that is set back.

Proved: every invariant, action property and refinement of a passing run. Proofs that could be
added:

1. How much each hypothesis of `Discerning` is needed for which boundary.
2. Watch over Store's sessions, once that composition is modelled.
