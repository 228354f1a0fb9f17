# A TLA+ model of ScamGraph

This directory holds specifications of ScamGraph's programs, the TLC
configurations that check them on small instances, and proofs that TLAPS checks
for every value of the constants. Every definition is translated from the code;
`PROJECT.json` maps each one to the lines it stands for.

Check a run with `tlc -config <run>.cfg <MC module>.tla`, a proof module with
`tlapm <module>.tla`.

## 1. The system

ScamGraph collects threat indicators and citizens' reports, grades URLs, phone
numbers and accounts, and ships a blocklist to a browser extension and a mobile
app.

| Part | State it keeps | Operations | Talks to |
|---|---|---|---|
| Crawl claims and discovery: `apps/engine/app/{crawl_state,discovery,worker}.py` | table `crawl_state`, the Celery queue | ingest, back-fill, claim, enqueue, crawl, mark | Postgres, Redis, Neo4j |
| Feeds, crawler, stores: `feeds/`, `crawler.py`, `pg.py`, `graph.py` | tables `blocklist`, `scans`; the graph | download, crawl, upsert | called by the worker |
| Scoring: `signals/`, `quick_assess` (Dart), `heuristics.js` | none | text to score and grade | called by everyone |
| Community reports: `ReportController`, `ReportDefense` | tables `report_events`, `reports` | report, moderate | Postgres, Neo4j |
| Verdict: `CheckController`, `AttributionController` | none | check | engine, `reports`, `blocklist`, graph |
| Blocklist distribution: `BlocklistController` | none | manifest, snapshot, delta | extension, mobile |
| Graph: `GraphSource`, `GraphAnalyticsController`, `CampaignController` | an eight-second cache | read, rank, group | Neo4j |
| Live feed: `FeedHandler`, `apps/web/lib/feed.ts` | sessions, pool; socket and timer | broadcast, heartbeat, refresh; reconnect | web clients |
| Rate limit: `RateLimitFilter` | a window per client | admit | every `/api` call |
| Alerts, appeals, admin, statistics, search, PDF | single rows | insert, read | Postgres |
| Browser firewall: `apps/extension/background.js`, `lib/`, `blocked.js`, `options.js` | `storage.local`, `storage.session`, alarms, dynamic rules | sync, rebuild, temporary exception, expiry | gateway, browser |
| Mobile: `apps/mobile/lib`, Kotlin receivers | list in memory, preferences, history | load, sync, match, check, record | gateway |
| Main page of the web: `CommandCenter` and its components | last scan, one state per panel, the graph | scan, report, expand, open a case file | gateway |
| Other web pages: `SearchBar`, `share/page.tsx`, `admin/AdminDashboard`, `StatsBar` and the polling panels | a query, a verdict, a table, figures | search, check, moderate, poll | gateway |
| Pages of the extension: `content.js`, `sidepanel.js`, `popup.js` | copies of the stored list, the target shown | guard links and forms, analyse, sync, count | background worker, gateway |

What is hard in it, and therefore what the properties are for:

* **Claims in a shared table.** Several worker processes pick crawl targets. A
  target must not be picked twice, must not be lost when a task, a process or a
  statement is lost, and a transaction locks more than it seems to.
* **Statements that commit one by one.** A report is judged by four statements,
  written by two more, on a thread per request. Whatever overlaps or fails, a
  report must not help where the policy says it must not, nor vanish.
* **Asynchronous handlers over shared storage.** The extension's worker
  interleaves at every `await`, is killed by the browser at will, and its rules
  outlive what they were computed from.
* **Answers that come late, twice or never.** Every panel of the web asks when its
  input changes and is asked again before it is answered. An answer that is not
  the last one's must not reach the screen, and whatever is loading must stop.
* **A broadcast to sessions that come and go.** A scheduler and request threads send
  to one copy-on-write set; a client holds one of several sockets and a timer.
* **Pages that decide from a copy.** The content script, the side panel and the
  popup read the stored list, hold what they read across an `await`, and are told
  of changes by events.
* **Memory before disk.** The mobile app changes its memory at once and sends every
  change over a method channel; the preferences change later, their file later still,
  receivers of messages and calls read them meanwhile, and the app may end at any time.
* Still unmodelled and equally exposed: the graph's two writers, the graph cache, the
  window of the rate limit.

What makes each part correct:

* claims: a claim is one step; only due hosts are claimed; a lost task brings its
  host back; what is marked as crawled is stored; only re-crawls that fill the
  batches can keep a listed host waiting;
* reports: an allowlisted target is never touched; a repeat adds nothing; the
  burst limit holds; the signal of many reports is neither false nor lost; the
  grade of a check follows the independent reporters;
* firewall: the rules agree with what is stored whenever the worker is idle, or
  do so again after any overlap or crash; a temporary exception, while nothing
  overlaps, lasts as long as promised and ends by itself; a block page names the
  domain it blocked;
* live feed: one socket speaks at a time, an event is shown at most once and never
  after leaving, a dead session starves no other one, a panel is connected again;
* web: each panel is about what it stands for; the graph only grows; one report is
  sent at a time; hits and verdicts are those of the question of now; panels end up
  with the data of the gateway;
* extension pages: a secret leaves a listed page only when the user insists; a
  local verdict is about the value shown; counts are exact; nothing stays disabled;
* mobile: memory, calls and preferences agree; no result is lost to an overlapping
  one and none comes back after it was cleared; protection is never on without
  consent; the list is from the gateway the user has set;
* (not yet) graph cache: no older graph replaces a newer one.

`PROJECT.json` lists every component and every hazard with its line.

## 2. Modules

| Module | Models | Kind |
|---|---|---|
| `ClaimRegister` | what `crawl_state.py` promises its callers | abstract specification |
| `CrawlDiscovery` | beat, tasks, transactions, broker, stores | detailed, implements the former |
| `CrawlDiscoveryProofs` | | proofs |
| `ReportFlow` | `POST /api/report` and the grade of `GET /api/check` | detailed |
| `ReportFlowProofs` | | proofs |
| `ExtensionFirewall` | the background worker with gateway, user and browser | composition |
| `ExtensionFirewallProofs` | | proofs |
| `Requests` | requests whose answers a cleanup makes stale | helper of the web modules |
| `Console`, `GraphView` | the scan console with its panels; the graph, the explorer, the case file | detailed |
| `Dashboard` | the main page: both of them, joined by `handleResult` | composition |
| `DashboardProofs` | | proofs |
| `FeedLog` | what a viewer of the live feed may rely on | abstract specification |
| `LiveFeed` | `FeedHandler` of the gateway, `subscribeFeed`, the panel | composition, implements the former |
| `LiveFeedProofs` | | proofs |
| `LatestAnswer` | a field whose screen shows the answer to the question of now | abstract specification |
| `SearchBar`, `SharePage` | the search field, the share page | detailed, implement the former |
| `AdminDesk`, `Panels` | the moderation table with its gateway handlers; the polling panels | detailed |
| `Pages`, `PagesProofs` | a visit to one of the four | composition; proofs |
| `ExtensionStore` | the stored list and what `assess` makes of it | shared by the next three |
| `PageGuard`, `SidePanel`, `Popup` | the content script, the side panel, the popup with the count of blocks | detailed |
| `ExtensionPages`, `ExtensionPagesProofs` | the surfaces over one store | composition; proofs |
| `MobileApp`, `MobileAppProofs` | the Dart isolate, the platform thread, the preferences and their file | detailed; proofs |
| `MC...` | symmetry sets and small instances for TLC | |

### CrawlDiscovery

`tracked`, `sinceEnqueued` and `sinceCrawled` are the rows of `crawl_state`, with
the *age* of a timestamp in place of the timestamp (an age beyond both intervals
is one value), so the state space is finite without bounding time. `queued`
counts tasks on the broker, `inGraph` and `inHistory` stand for Neo4j and
`scans`, `pc`, `op` and `hosts` for what each prefork process is doing.

| Code | Action |
|---|---|
| `ingest_all`, `dispatch_feed_crawls` | `IngestFeeds` |
| `backfill_crawl`, `dispatch_backfill` | `BackfillCrawl` |
| `_ensure` (takes SHARE on the table) | `Ensure` |
| the `SELECT` of the claim under ROW EXCLUSIVE | `SelectEligible` |
| the `INSERT .. ON CONFLICT` and commit | `UpsertClaims` |
| `mark_crawled` | `Ensure`, `MarkCrawled` |
| an error that is swallowed and rolled back | `DatabaseFails`, `DeadlockAbort` |
| `_enqueue` | `Enqueue` per host, `DispatchReturns` |
| `crawl_discovered`, `scan_target` | `CrawlDiscovered`, `ScanTarget` |
| `_run_crawl` | `CrawlAndEnrich`, `UpsertScan`, `PersistScan` |
| the time limit or a crash | `ProcessDies` |

The locks are the heart of it. `_ensure` runs `CREATE INDEX IF NOT EXISTS`,
which locks the table in SHARE mode to the end of the transaction; several
transactions may hold it. The `INSERT` needs ROW EXCLUSIVE, which conflicts with
the SHARE lock of any *other* transaction. So two transactions that both passed
`_ensure` deadlock, Postgres aborts one, and the code swallows the error; in
exchange, no two claims ever write at once, which is what makes `SelectEligible`
and `UpsertClaims` act as one step of `ClaimRegister`.

### ReportFlow

A request is a process with a `pc`; a row of `report_events` or `reports` is
named by the request that wrote it. `ExistsEver`, `BurstCount`, `InsertEvent`,
`CountIndependent` are the statements of `ReportDefense.evaluate`, `EvaluateFails`
its catch block, `SaveReport` and `MergeGraph` what `ReportController.report`
does with the verdict. `GatewayDies` loses the requests in flight. Moderation
is in `AdminDesk`: it updates `reports.status`, which neither `evaluate` nor
`check` reads (a rejected report still counts). `GradeOf` is how
`CheckController` combines the engine's grade, a known organisation, the number of
rows in `reports` and a hit in `blocklist`. `CheckGrade` is the whole check, which
goes on without a source that fails: its parameters say what each source answered,
or that the `COUNT` did not, and the properties quantify over all of them.

### ExtensionFirewall

`list`, `settings` are `storage.local`, `lease` and `incidents` `storage.session`,
`rules` the browser's dynamic rules (a function from ids to domains, so that
rules left behind by another rebuild can be told apart), `alarm` the expiry
alarms, as time left. A handler is a slot with its `pc`, and `held` is what its
local variables hold across an `await`. Each step of a handler is the code
between two awaits:

| Code | Actions |
|---|---|
| `bootstrap` | `Bootstrap`, `PersistSettings`, then as a sync |
| `syncBlocklist` | `SnapshotArrives` or `SyncFails`, `StoreBlocklist` |
| `getTempAllow` | `GetTempAllow`, `PurgeTempAllow` |
| `addTempAllow`, `onAlarm` | `AddTempAllow`, `CreateAlarm`; `DropTempAllow` |
| `rebuildRules` | `ReadInputs`, `SetIncidentMap`, `GetDynamicRules`, `UpdateDynamicRules` |
| `onChanged`, messages | `SettingsChanged`, `ProceedAnyway`, `StatusRequested` |

The three reads of `rebuildRules` are one step: they are issued in one turn, and
only the options page, which writes `settings` alone, can write between them.
The environment is the user (`Visit`, `OpenOptions`, `EditOptions`), the
gateway's table (`TableGrows`; `Snapshot` answers with the seed rows when the
query fails, as `BlocklistController` does), and the browser (`WorkerDies`,
`BrowserRestarts`, which empties the session area and may drop alarms). A domain
is a number, its place in the sorted snapshot, because rule ids are places.

### Console, GraphView, Dashboard

React runs the effects of a state change before the next event, so an action is a
handler with the effects it sets off: `ScanReturns` sets the result and starts the
requests of `AttributionEffect` and `GuideEffect`. Requests on their way are a set
of records (`Requests`): a cleanup makes the live one stale (`Cancel`), a new effect
adds one (`Ask`), and an answer, or a failure, changes the panel only if it is live
(`ignore`, `alive`). The panels' `...View` operators are what their JSX chooses to
show, so that a property speaks about the screen.

| Code | Action |
|---|---|
| `runScan`, `handleSubmit` of `ScanConsole` | `RunScan`; `ScanFails` |
| `handleResult` of `CommandCenter` | `ScanReturns` with `HandleResult` (joint, in `Dashboard`); `ExpandReturns` after its `await` |
| `mergeGraph` | `MergeGraph`: keeps what is there |
| first `GET /api/graph` | `GraphLoads` |
| effects of `AttributionCard`, `ActionGuide` | `AttributionAnswers`, `GuidanceAnswers` |
| `AiSecondOpinion` | `OpinionArrives`, `OpinionTimesOut` |
| `ReportModal` | `ToggleReport`, `SubmitReport`, `ReportReturns` |
| `GraphExplorer`, `CampaignCaseFile` | `FocusEffect`, `Select`; `OpenCaseFile`, `CaseArrives`, `CloseCaseFile` |

### LiveFeed

`sessions` is the copy-on-write set of `FeedHandler`, `loop[t]` the broadcast a
thread is in: its audience is the set at its start. `StartSend` and `EndSend` are
the two ends of `sendMessage`, so another thread may find the session busy, and the
session may die in between. `wire` holds the frames on their way, `readyState`,
`listening` and `timer` are `subscribeFeed`'s. A socket fails (`onerror`) before it
closes (`onclose`), or closes at once; only the close reconnects. `shown` is a
history of every event the panel was given.

### SearchBar, SharePage, AdminDesk, Panels

The search field debounces (`TypeQuery`, `DebounceEnds`) and cancels; the share page
numbers its checks, which is the same as a live request. `AdminDesk` shows a
decision at once and rolls the whole table back to its snapshot if it fails
(`Moderate`, `PostReturns`); the gateway answers a decision, and the list, also when
its database does not (`GatewayDecides`, `Fallback`). In `Panels` data is a version
and polls may overtake each other; `Approach` is the integer easing of `StatsBar`.

### ExtensionPages

`stored` is `storage.local`; a host is the sequence of its labels, so that `Hit`
can walk to its parents as `domainChain` does. `PageGuard` has the copy the page
decides with (`cache`), the notices and reads that bring it up to date, the hovered
link with its timer, and the forms. `SidePanel` has one record per analysis under
way and the one variable they share, `currentValue`. `Popup` has `recordBlocked` as
a read (`VisitBlocked`) and a write (`CountStored`), and the buttons with what each
of them waits for.

### MobileApp

One record has a field per stored value (`url`, `history`, `list`, `meta`,
`family`), and there are three of it: `mem`, what the Dart objects hold, `prefs`, the
map of `SharedPreferences`, which the Kotlin receivers read, and `disk`, its file. A
list is named by the gateway it came from, a result by the number of its check. `calls`
and `replies` are the method channel in both directions, in order; the `for` of a call
says which function awaits it.

| Code | Action |
|---|---|
| `main`, `AppState.load`, `BlocklistStore.load`, `FamilyScreen._load` | `Launch` |
| `configureFlutterEngine`: `setBaseUrl`, `setHistory`, `setPref`; `apply` | `PlatformWrites`; `FileWritten` |
| the end of the isolate or of the process | `Dies` |
| `setBaseUrl` up to and after its `await` | `SetBaseUrl`, `UrlSaved` |
| `BlocklistStore.sync`: answer, first `setPref`, second `setPref`, failure | `SnapshotArrives`, `ListSaved`, `MetaSaved`, `SyncFails` |
| `_runCheck`, `check`, `_record` | `StartCheck`, `CheckJudged`, `CheckErrs`, `CheckSaved` |
| `_openRisk`, `_runLocal`, `_runDeep` | `Share`, `LocalJudged`, `AskDeep`, `DeepJudged`, `DeepFails`, `DeepSaved`, `LeaveScreen` |
| `clearHistory` | `ClearHistory` |
| the family screen | `ToggleConsent`, `ToggleEnabled`, `RegenerateCode`, `LinkGuardian`, `UnlinkGuardian` |

`Launch` is one step because `main` awaits `load` before the first frame, and the
family screen shows no control until it has read its settings: nothing is written
meanwhile. One shared text is open at a time.

## 3. Runs

| Run | Shows | Bounds |
|---|---|---|
| `crawl_claims` | types, lock discipline, atomic claims, task implies row, cooldown before the first crawl, refinement of `ClaimRegister` | 2 hosts, 2 workers, every failure, one of them |
| `crawl_progress` | a marked crawl is stored; no claimed host is stuck; a listed host is eventually crawled and recorded, unless re-crawls take its place again and again | 2 hosts, batches of 1, 1 worker, 2 failures |
| `crawl_mark` (violation) | a finished crawl loses its mark in a deadlock | no failure at all |
| `report_defense` | types, allowlist, repeats, burst limit, a signal that is neither false nor lost, answered reports count, the grade of a check follows the independent reporters | 3 requests, 3 reporters, 2 targets, every failure, two of them |
| `report_repeat` (violation) | two overlapping reports of one reporter count twice | no failure |
| `firewall_rules` | rules, incidents and exceptions agree with storage | 2 domains, one handler at a time |
| `firewall_heals` | one undisturbed rebuild repairs what an overlap, kill or restart left; they do agree again; how alone an exception ends early | 1 domain, 2 handlers, 1 death |
| `web_dashboard` | panels are about what they stand for and answer the last question; one report at a time; the graph grows; scans are drawn, opinions end | 2 targets, 2 grades, 5 clicks |
| `web_feed` | one live socket, always a way back to one, newest rows, no event twice or after leaving, no starved session, reconnection | 2 events, 2 threads, 2 failing sockets |
| `web_pages` | search and share page implement `LatestAnswer`; the moderation table agrees with the gateway; nobody waits without a request; panels catch up | 2 queries, 2 values, 2 decisions, 2 overlapping polls, 1 failed poll |
| `extension_pages` | warnings name what they are about; a secret leaves only when the user insists; local verdicts fit; counts are exact; everything settles | 2 links, 2 forms, 2 analyses, 2 targets, 2 blocks, 2 changes of the store |
| `mobile_app` | memory, calls, preferences and file agree; the history is the last results; consent; no answer is lost; the list follows the gateway; syncs and checks end | 2 gateways, a history of 2, 3 acts of the user or ends of the app, 1 address set per life |

Why the bounds are enough:

* *crawl*: two workers are what a deadlock and a double claim need; two hosts let
  a claim pick one and leave one. Cooldown 1 and re-crawl interval 2 make the two
  differ and let either expire first. `MaxQueued` only stops dispatches while a
  task is already waiting; `FEED_CAP` below the number of hosts (and in
  `crawl_progress` `BACKFILL_BATCH`, too) makes the `LIMIT` choose. The proofs hold for any number of each.
* *report*: an overlap needs two requests, a later repeat a third, and the burst
  limit of one is met by the second report of a reporter; three reporters are what
  a danger by reports alone needs. `SignalNotLost` and
  `AnsweredReportCounts` name the failures under which the code does lose a report
  (a failed count is answered as 0 or 1, a failed insert is swallowed) and nothing
  else excuses it.
* *firewall*: with one domain, one rebuild can still leave a rule behind or
  reject another's batch (no existing id, one new id); two domains make ids move.
  A lease of one tick is granted, renewed and expires; two handlers are what it takes
  to lose one.
* *dashboard*: five clicks are two scans and one more click, or one scan and three:
  a panel is asked about two results, a report is sent, folded away and confirmed, a
  case file is opened, closed and opened for another node. `MockGraph` and
  `LiveGraph` know different nodes, so that a late load can be told apart.
* *feed*: two failures are three sockets, one after the other; two events from two
  threads collide on one session.
* *pages*: two questions are what an overtaking answer needs. A figure that falls
  from 20 to 3 by way of a failed poll makes the easing go both ways. `LiveIds` shares
  a row with the seed rows and `FallbackIds` none.
* *extension pages*: a listed parent domain of the page, one link to it and one
  elsewhere; two blocks and a midnight are the overlaps a count can meet.
* *mobile*: one address set while the sync of the start is under way makes two syncs,
  that may cross; three acts are a manual check, a shared text and a clearing, two
  results and an end, or a change of gateway with a check and an end. Three results fill
  a history of two and push one out. There is a single pairing code, so the part of
  `Consented` that compares codes says nothing in this run (two codes exceed TLC's time);
  `MobileTheorem` proves it for any codes.

`firewall_rules` has properties with the condition `~disturbed`: no two handlers
have overlapped and none was killed. That is the claim the code can keep:
section 5 tells what an overlap does to it, and `RebuildHeals` and `RulesHeal` how that ends.
`LeaseLasts` is checked where handlers do overlap: undisturbed an exception lasts its full
time, and after an overlap or a kill it ends early in the three ways the property names
and in no other.

`BacklogIsWorkedOff` has its exception for the same reason: a `LIMIT` without an order
permits re-crawls to take the place of a host for ever (section 5).

In the same way `PagesInv` has `~crossed`, `PanelFits` `~overlapped` and
`CountIsExact` `~crossedCounts`: the code makes no promise when decisions, analyses
or counts overlap (section 5). `ListFollowsGateway` has `~crossed`, for syncs of
different addresses.

`CHECK_DEADLOCK` is on for the engine, the gateway and the firewall, where `Tick` is
always possible. It is off for the pages of the web and of the extension and for the mobile app: they may
have nothing left to do when the user does nothing and every answer has come.

### Fairness

* `CrawlDiscovery!Fairness`: a started task goes on (weak fairness of its steps,
  per process); the beat sends back-fill tasks for ever and the broker serves its
  queue in order, so each queued task meets an idle worker (strong fairness of
  taking a task); time passes. Failures are bounded by `MaxFaults`, so they stop.
  `crawl_progress` uses one worker process on purpose: with two, `mark_crawled` can
  be aborted by a deadlock every time (`crawl_mark`), and a host is then crawled
  again and again and never recorded. `docker-compose.yml` starts a prefork pool.
* `ExtensionFirewall!Fairness`: a started handler goes on unless it is killed, the
  thirty-minute alarm comes again and again, and the gateway answers it again and
  again. Nothing is assumed of settings events, expiry alarms or start-up, so
  `RulesHeal` says that the periodic sync alone repairs everything.
* `Dashboard!Fairness`: the timer of the opinion fires, a scan and an expand call are
  answered or fail (`fetch` ends in either). Nothing is asked of the other answers or
  of the user.
* `LiveFeed!Fairness`: the browser fires the timer, answers a connection and closes a
  socket that failed.
* `Pages!Fairness`: the interval of a mounted panel ticks for ever, the gateway answers
  a poll it does not fail, and the browser draws frames.
* `ExtensionPages!Fairness`: storage and the worker answer, and a request of the worker
  ends by its timeout at the latest. The gateway need not answer.
* `MobileApp!Fairness`: the platform thread executes calls and answers, Dart resumes
  what awaited them, a fetch of the list ends by its timeout of eight seconds if by
  nothing else, and a manual check is answered, falls back to the rules or fails. Nothing is
  asked of the user, and the gateway need not answer.

## 4. Proofs

`CrawlDiscoveryProofs`, for any set of hosts and workers, any intervals and any
failures:

* `TypeCorrect`, `LockExclusion`: from the lock guards. The invariant is that
  while one process is in `upsert`, no other is in `write` or `upsert`.
* `ClaimsAtomic`: the hosts selected stay due, because nothing but `MarkCrawled`
  and `UpsertClaims` makes a host less due, both need the lock, and time only
  makes hosts more due (`DueStaysDue`).
* `Refinement`: `Spec => RegisterSpec`; each step is a `ClaimAll`, a `Record`, an
  `Age` or a stutter (`StepOfRegister`, `OutsideTransaction`), with `ClaimsAtomic`
  for the guard of `ClaimAll`.
* `Cooldown` follows from the refinement's step lemma; `ClaimBeforeSend` and
  `MarkedIsStored` need as strengthening what each `pc` says of the hosts in hand.
  `MarkedIsStored` assumes that neither the graph nor `scans` fails: when one
  does, the code marks the crawl regardless.

`ReportFlowProofs`, for any finite set of requests:

* `TypeCorrect`; `AllowlistTheorem` (a request with the verdict `reported` is not
  for an allowlisted target, whatever failed);
* `RepeatTheorem`: the row of an earlier request that ended is in the table when
  `ExistsEver` runs, and the verdict `duplicate` or `throttled` keeps its request
  out of the insert; `BurstTheorem` is the same argument with cardinalities;
* `SignalTheorem`: `independent` is never above the present number of distinct
  reporters, since rows are never deleted, and is 1 in the fallback, below any
  threshold the constants allow;
* `GradeTheorem`: a row of `reports` whose request did not fail in the defence is backed
  by a row of `report_events` (`RowBacked`), and rows of one reporter that did not overlap
  are excluded by `RepeatIsRejected`; so three rows are three independent reporters. In
  the other direction each reporter who was told so has a row of his own (`ToldAreCounted`),
  and an allowlisted value has none (`AllowlistedUncounted`). Nothing is assumed of the
  other sources of the check.
* `SignalReaches`: of the answered reporters one counted last, after the rows of the
  others were committed; its count is the number of them all. `AnsweredTheorem`
  follows each request from its verdict to its insert.

`ExtensionFirewallProofs`, for any list, handlers, lease and maximum of rules:

* `TypeCorrect`, whatever overlaps or is killed. `Build` gives a domain the place it has
  in its block; places are different and at most as many as the block has domains, so
  they are all taken (`PlacesCover`, an injection between sets of one size; no
  induction), and the rules are a sequence over the block (`BuildType`, `BuildRules`).
* `ListedTheorem`, `ExceptionTheorem`, `IncidentTheorem` and the first half of
  `LeaseTheorem`: undisturbed, at most one handler runs (`Alone`), and what it has read of the exceptions is what is
  stored (`CopiesAgree`). `AlarmsAgree`: an exception and its alarm end together, except
  between `AddTempAllow` and `CreateAlarm`, or when the alarm has fired. `RulesAgree`:
  unless a rebuild is certain to follow, the rules are those of some block that accords
  with list, settings and exceptions; the rebuild carries such a block to its last step.
  The conjuncts need each other: without `AlarmsAgree` a rebuild could leave out a domain
  whose exception nothing would end. `AccordTheorem` puts the first three together. The
  other half of `LeaseTheorem`, that an exception is cut short in three ways only, holds of
  every step, overlaps included (`CutShort`).
* `RebuildTheorem` has no `~disturbed`: it starts from any reachable state, so from
  whatever overlaps, kills and restarts left. `Carries(h)` says that what the rebuild of
  `h` has read and written up to its `pc` is what the storage asks for; reading the inputs
  establishes it, each step of `h` keeps it until the rules are replaced, and only what
  `Interferes` lists can break it. Type correctness is all it needs of the invariant. It is
  the safety half of `RulesHeal`, whose other half, that such a rebuild comes, is fairness.

`DashboardProofs`, for any targets, nodes, grades and initial graphs:

* `DashboardTheorem`: a live request of a panel is about the last scan (or the open case
  file), because the effect that changes the one replaces the other; stale ones change
  nothing. A report is under way exactly while the form is sending, and the last target
  scanned is drawn or its expand call is under way.
* `AnswersTheorem`: attribution, guidance and case file are three instances of
  `LatestAnswer`, the abstract field that search and share page implement, too. A step
  of the page asks, answers the last question or leaves the panel alone
  (`CardRefines`, `GuidanceRefines`, `DossierRefines`).
* `GrowthTheorem`: merging keeps every node (`MergeKeeps`).

`LiveFeedProofs`, for any number of sockets, events, threads and rows:

* `FeedTheorem`: every socket but the one held is silenced or closed, because a
  reconnect is scheduled only by a close; the rows are the newest events. A mounted panel
  has a timer, or a socket that is open, opens or has failed and will close: none is left
  without a next step, which is what `Reconnects` needs besides fairness.
* `LogTheorem`: frames are on the open socket only, and a loop that still has to send
  to an open session is the first to give it the event: its audience is the set of
  sessions at its start, and a later socket joins with nothing sent before.
* `OthersTheorem` from the same invariant.

`PagesProofs`, for any queries, values, reports and figures:

* `SearchTheorem`, `ShareTheorem`: refinements of `LatestAnswer`, from "a live request
  is for the question that stands there". `PagesTheorem`: the desk's part says that
  the table, or the snapshot of the one decision under way, is what the gateway has.
  `WaitsEnd`, a part of it: a field that searches has a timer or a request, a page that
  checks has a request, a disabled row has its post, so nothing spins for ever unless an
  answer does not come.
* `ApproachCloses`: a frame brings a figure strictly closer and never past its target.

`ExtensionPagesProofs`, for any hosts, lists, links, forms and bounds:

* `AskedTheorem`: the last read under way is of the store as it is, unless a notice is
  under way too (`CopyIInv`), so a caught-up script decides with the store.
* `PanelTheorem`: while analyses do not overlap there is one, and past the tab it is
  about the value shown. `CountTheorem`: what the one count under way will store is the
  number of visits. `SurfacesTheorem` puts the parts together, and says that a page with
  no notice and no read under way holds the store as it is.

`MobileAppProofs`, for any gateways, pairing codes and bounds:

* `MobileTheorem`: preferences, history, what is shown and consent. `IInv` adds what is
  under way: `Waiting` (every call is awaited at most once, by the sync, the address or
  the check whose program counter says so, so an answer resumes the right one), `Seeded`
  (the metadata of a list are sent after the list, so no copy pairs the built-in list
  with the metadata of another), `Histories` (every copy, the file's too, counts down
  from its newest result, which is what a start after an end of the app needs) and
  `ResultsKept` (a result that is shown, or will be, survives every call still to be
  executed). `AppendHolds` and `TailHolds` say what a call and its execution do to what a
  preference will hold. `Attended` is the converse of `Waiting`: for every sync that
  stores, for the manual check and for the shared text there is the call or the answer it
  waits for, so no end of a function is lost (`NoneForgotten`), whatever is left, reopened
  or answered in between.
* `GatewayTheorem`: `FromGateway` says that with no address on its way (`Settled`) and
  no syncs crossed every fetch under way asks the gateway that is set.

Assumptions are the named ASSUMEs of the modules: that sentinels are no values, that
bounds are natural numbers. The bounds (`MaxClicks`, `MaxEvents`, ...) are
constants of any value.

Only model-checked: the eight liveness properties (`NoHostIsStuck`,
`BacklogIsWorkedOff`, `RulesHeal`, `AnswersCome`, `Reconnects`, `PanelsCatchUp`,
`SurfacesSettle`, `MobileSettles`), which rest on fairness and are outside the prover's
reach, and the claims of the violation runs, which are false. Where such a property is the
end of a wait, its safety half is proved: `RebuildTheorem`, and in `FeedInv`, `PagesInv`,
`SurfacesInv` and `MobileInv` that what is waited for is under way.

## 5. What the code does against its own words

* `crawl_mark`: `mark_crawled` calls itself the core of duplicate control and is
  silently undone by the lock order of `_ensure`.
* `report_repeat`: rows of `reports` are not the number of independent reporters
  (`ReportController.java:90`, `ReportDefense.java:18`). Nor in the other direction: the
  row of `report_events` is committed before the insert of line 97, whose error is
  swallowed; that reporter is a duplicate from then on and never counts. (It is the
  failure `AnsweredReportCounts` names.)

Seen while modelling, without a run of their own:

* `worker.py:25` and `discovery.py:19` say that the back-fill works the backlog off
  ("백로그를 계속 조금씩 소진"). The batch is a `LIMIT` without an order
  (`crawl_state.py:112`), over hosts never crawled and hosts due for a re-crawl alike:
  re-crawls may fill it for ever while a listed host waits (`PassedOver`).
* `docs/abuse-defense.md` (sections 2 and 3.1) and `ReportController.java:83` say that one
  report is stored only and that reports alone promote nothing. `CheckController.java:105`
  answers one row with a warning and three with a danger (`GradeCountsReporters`).
* `check` swallows the failure of each of its sources (`CheckController.java:85`, 101, 139):
  while the `COUNT` fails, a value with three reports is answered as if it had none, and
  no part of the answer says so. `GradeFollowsReporters` therefore says nothing of the
  order of two checks.
* `background.js:173`: `addTempAllow`, the expiry alarm and the purge write back all
  exceptions as they read them before an `await`. Overlapping ones lose an exception
  just granted, and the user is blocked again (`WritesStaleCopy`, `DropsOnAlarm`).
* `api.dart:37`: the address is parsed before the `try`, and `app_state.dart:73` catches
  `ApiException` only: with an address that does not parse a check ends in an error
  instead of the offline verdict (`CheckErrs`).
* `BlocklistController.java:124`: the fallback that keeps the gateway's demo alive sends
  five seed rows with a valid count and hash, so the extension's rule "keep last-good
  rules on any failure" (`background.js:88`) does not see a failure: `SnapshotArrives`
  of `ExtensionFirewall` replaces the list by them. The mobile app takes them, too.
* `app_state.dart:59` says that the cached list is renewed when the gateway changes. When
  the sync of the old address is still under way it may end last, and its list stays
  until the next start or the next address (`crossed` in `MobileApp`).
* `LocalDetector.kt` grades a listed value by the severity of its entry, `app_state.dart:127`
  always as danger.
* `background.js:133`: a rebuild that read the settings before the user allowed a domain
  may finish last, and the domain keeps a rule, against `heuristics.js:164`, until the
  next sync (`RulesHeal`).
* `ReportModal` keeps its phase and its confirmation when the target changes: it can
  say of a new target that it was reported. `PanelsAgree`, a part of `DashboardInv`,
  speaks of the target the gateway confirmed.
* `AdminDashboard.tsx:143`: `admin.ts:42` says that `moderateReport` returns the updated
  report; the gateway returns its id and status only, and the row loses its target,
  its note and its votes. The gateway also answers so when its update failed
  (`ReportController.java:139`). A rollback undoes whatever else came since, and seed
  rows 4802 to 4821 may have the ids of real reports: a decision on one decides the
  other.
* `GraphExplorer` runs its focus effect on the last scan, not on the data: a target
  that is drawn later is not flown to. `mergeGraph` keeps the first grade of a node
  that is scanned again.
* `recordBlocked` loses one of two overlapping counts; the popup shows the count of
  yesterday as today's until a visit is blocked (`background.js:363`), and the badge
  keeps it over midnight.
* `sidepanel.js:131`: overlapping analyses may leave the gateway's verdict on one value
  under the name of another.
* `content.js:283`: before the first read of the store a form is not guarded.
* `options.js` writes all settings: an edit made before they were loaded resets the
  others.

## 6. Not modelled

Text heuristics (URL signals, confusables, SMS rules): no state, no order. Parsing
of feeds, HTTP clients, PDF layout, search indexing: I/O and presentation. In the
web: the forms of `WatchlistPanel` and `AppealForm`, which send one request each and
confirm it whether or not it succeeded, the map and the ticker, which show constants,
chart data and layout. In the extension: context menus beyond the target they store,
and, in the firewall, that a rule also matches subdomains. In the gateway: read-only
controllers and single inserts (alerts, appeals), the rate limit and the graph cache.
In the mobile app: the detectors, which are text, the call and message receivers, which
read the list and write nothing, notifications, permissions and the `dangerOnly` switch.

## 7. Plan

Done, with proofs unless noted: `ClaimRegister` and `CrawlDiscovery`; `ReportFlow`;
`ExtensionFirewall`; `Dashboard`; `LiveFeed`; `Pages`; `ExtensionPages`; `MobileApp`.
Every invariant and every action property of a passing run is a theorem, and so are the
refinements (`RegisterSpec`, `OnceAndNotAfterLeaving` and those of `LatestAnswer`).

What would add most, in this order:

1. In `ExtensionFirewall`, a rule that covers the subdomains of its domain.
2. `GraphGrade` and `GraphCache`: two writers of a target's grade; a cache whose
   value and time are written apart. Abstract: a register, and a bounded staleness.
3. `RateLimit`: the fixed window against a sliding one; twice the limit as bound.
4. `Verdict`, `GraphAlgorithms`: grades as operators with monotonicity lemmas;
   components, articulation points and betweenness of `GraphAnalyticsController`
   against definitions over small graphs.
5. Compositions: ingest, blocklist, snapshot, extension and mobile; report, check.
