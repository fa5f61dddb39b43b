# HoneyShield in TLA+

TLA+ models, model-checking runs and machine-checked proofs for the parts of the HoneyShield /
Evation platform whose correctness depends on timing, order and failure: the gateway's way from a
request to a trap and a report, the write path of a trap event, geo lookup, ban enforcement, honey
tokens, sign-in with two factors, access to the admin panel, what a dashboard shows, and the help
desk. Paths below are relative to the repository root, without its leading `src/`.

- `PROJECT.json` lists the components, the runs, the hazards, the theorems, the findings
  and, per definition, the source lines it models.
- `tlc -workers 2 -config MCX.cfg MCX.tla` model-checks a component, `tlapm XProofs.tla`
  checks its proofs.

## 1. The system and its parts

HoneyShield is a set of processes that share two MongoDB databases:

| Process | Where | What it does |
|---|---|---|
| gateway | `services/innotech-gateway` | serves the careers portal, detects attacks, sends them into traps, reports them |
| telemetry | `services/logging-data-extraction` | owns the *malicious* database: events, attacker profiles, honey tokens; broadcasts live alerts |
| threat intelligence | `services/ml-threat-intel` | answers telemetry's enrichment calls |
| admin panel | `admin-panel` (Next.js) | dashboards, bans, maintenance, user administration; reads and writes both databases directly |

None of them uses transactions or locks across calls: each database call is atomic for
one document and nothing else is. Each process is a single event loop (the ML service
has threads), so that code between two awaits is atomic and every await is a point where
anything else may happen. The models follow exactly this grain.

| Component | State | Operations | Interacts with | What is hard | Correct means |
|---|---|---|---|---|---|
| attack reporting | a request per report | `reportAttack`, `POST /internal/attacks`, `processAttack` | gateway → telemetry → dashboards | one write awaited, two tasks started and left, 5 s timeout, no retry | save, then announce, then acknowledge; no false success; every report settles |
| attack event store | `AttackEvent` by `eventID` | create, enrich, delete | telemetry, maintenance | late enrichment against deletion | what was deleted stays deleted |
| attacker profile | `AttackerProfile` by address | upsert with `$inc`, ML roll-up, ban flag, delete | telemetry, ML client, panel | four writers, one of them with a stale read | sums and maxima are those of the reports counted; only reports and bans create |
| ML enrichment client | a task per event | `enrichEventSafe`, `persistEnrichment` | ML service, database | three awaits, any of which may fail | partial results never contradict what was kept |
| ban enforcement | `banned` flags; the gateway's `bannedSet` | ban, unban, poll every 15 s | panel → database → telemetry → gateway | stale answers, failed polls, restart with an empty set | bounded delay, no undoing, convergence |
| honey tokens | two Maps in the gateway, `HoneyToken` documents | recognise, count, record, report, seed, reset, delete | gateway → telemetry | dedup across awaits, quota, boot order, maintenance | quota kept; flag and log agree; nothing acknowledged is lost |
| admin access and user administration | two role caches; `users`, `admin_users` | page gate, API gate, list, patch, delete | panel, safe-zone database | caches with a lifetime, check then act | no decision older than its lifetime; the last admin stays |
| admin maintenance | the collections it deletes | `events`, `profiles`, `tokens`, `all` | every writer above | runs in the middle of anything | modelled in the module that owns the collection |
| threat detection and routing | none but the ban set | `resolveAttackerIp`, `honeyTokenDetector`, `gatekeeper`, `decoyReroute`, routes | proxies → gateway → all traps | headers rewritten by two proxies and written by clients, redirects that carry a request from handler to handler | charged to its sender or to whom it names; one trap per request; what was found gets reported |
| traps | attempt counters, open streams, depth of the labyrinth | fake login, brute trap, trickle, bomb, redirects, tarpit, dump rotation | reporting | counters shared across sleeps, streams ended by any of several events | each stream ends and reports once; redirects lead somewhere; everybody is answered |
| login and two-factor flow | cookies of a browser, two account stores, failure counters | login, register, OTP, enroll, reset, exchange, logout | gateway → panel | documents saved an await after they were read, cookies set by late answers, a step cookie that is not signed | a session means a code of that account as it was when last read; names unique; nobody locked out |
| geo lookup | cache, in-flight map, egress, place of a profile | `initLanEgressGeo`, `resolveIpGeo`, upsert, backfill | reporting, two online services | shared promises, bound, two lifetimes, script beside the service | oldest evicted; no mixed answers in a profile; every attack goes on |
| dashboard feed | two event lists, refresh flags, demo mode | live alert, poll, warm load, switch, clear | Socket.IO, panel API, page, maintenance panel | merge of sources, coalescing, callbacks of an older render | what is shown stays shown; a refresh asked for runs; demo and live data apart |
| HR tickets | tickets, rows of the panel | create, analyse, report; list, status change at two places | portal, gateway page, panel | colliding numbers, answers of overlapping calls | who is thanked has a ticket; the panel is wrong only about rows written since |
| admin database connections | a connection and a kept promise per database | create, hand out, reconnect | all panel routes | a promise that rejected is kept | every call ends |
| others | – | pages, read-only API views, decoy texts, schemas, infrastructure, scripts, ML heuristics | – | – | – |

The *hazards* of `PROJECT.json` name, line by line, what can go wrong in these parts that
a unit test hardly reaches, with the properties that cover it. Six that are known and have no
property are described in section 5.

## 2. Modules

| Module | Contents |
|---|---|
| `AttackLog` | abstract specification: a report is logged, announced, acknowledged, in this order |
| `AttackPipeline` | the write path of a trap event; implements `AttackLog` |
| `BanSync` | bans, the poll loop, the set the gatekeeper asks |
| `HoneyToken` | use, quota, recording, seeding and maintenance of bait credentials |
| `AdminAccess` | two cached role gates and the user administration behind one of them |
| `DashboardFeed` | one open dashboard: alerts, refreshes, the page's own load, demo mode, maintenance |
| `ClientAddress` | operators: the address a request is charged to, behind the proxies |
| `Detection` | operators: what is found in a request, and which threat comes first |
| `Gateway` | requests, traps, counters, streams, redirects and reports; uses the two above |
| `LoginFlow` | sign-in, registration, enrollment and the cookies of a browser |
| `GeoAnswer` | operators: what is made of an answer about the place of an address |
| `GeoLookup` | the egress, the cache, shared lookups, profiles and the backfill script |
| `Connections` | the panel's cached database connections, with outages |
| `HelpDesk` | tickets from both ends; its panel calls run over `Connections` |
| `XProofs` | the theorems about module `X`; those about `BanSync` close `GatewayProofs` |
| `MCX` | the instance of `X` that TLC checks; further `.cfg` files use the same instance |

Definitions whose comment begins with *Mutant* are wrong on purpose. Each is a plausible
bug in one definition, no specification uses them, and each breaks one of the properties when
put in place of the definition that follows it. They are there to show that the property can fail.

### AttackPipeline

| Code | Model |
|---|---|
| `telemetryClient.js` `postInternal`, `reportAttack` | `ReportAttack`, `ReplyArrives`, `GiveUp`; without `ADMIN_SOCKET_TOKEN` nothing is sent (`"skipped"`) |
| `routes/internal.js` `processAttack` | `Arrive`, `GeoResolved`, `SaveLands` / `SaveThrows`, `Resume`; one action per piece of code between awaits |
| `AttackerProfileService.js` `upsertFromAttack` | `Credit` in `UpsertLands`, `UpsertFails` |
| `mlEnrichmentService.js` | `MlAnswers`, `MlWriteEvent`, `MlReadProfile`, `MlRollUp` (with `RollUp`), `MlFails` from any of them |
| `app/api/admin/maintenance`, `app/api/admin/ban` | `StartWipe`, `DeleteEvents`, `DeleteProfiles`, `BanProfile` |
| process death | `Crash`: tasks and handlers vanish, documents stay |

A write that the handler awaits takes effect (`SaveLands`) before the handler hears of it
(`Resume`), so that a crash or the gateway's timeout can fall between them. `SaveThrows`
may have written all the same: the driver reports a broken connection, not a lost write.
That is why `failed` at the gateway does *not* mean that nothing was saved, and why no
property says so.

Abstractions: a geo lookup never throws and is only a delay; a token mismatch (401) looks
to the gateway like a lost request; enrichment turned off looks like `MlFails`; a delete
that fails is one that never lands; severities are ranks, confidences and scores numbers;
an actor group `Unknown` is `Absent`, since its confidence is never stored. Whether an
address is banned is the subject of `BanSync`; here a ban only matters because it upserts
a profile.
`saved`, `alerts`, `credited`, `bannedFirst`, `rolledUp` are history variables.

### BanSync

`banned` is the flag in the database, `bannedSet` the gateway's copy, `polls` the requests
in flight with their age and, once telemetry has read the database, their answer. `Tick`
advances a clock that may not pass a timer that is due. `steady` counts ticks since an
address was last written or a poll last failed. `polls` is a *set* of requests because
`setInterval` does not wait for the previous refresh; that there is never more than one
is a property and not an assumption. The type invariant, initial states, next-state relation
and specification are called `BanTypeOK`, `BanInit`, `BanNext` and `BanSpec`, so that one module
can extend this one and `Gateway`.

### HoneyToken

A request goes through `Present` or `CallApi`, then `UsageSettles` and `ReportSettles`, the
two awaits in `decoyReroute.js` and `decoyController.js`. The usage call itself (`sent`) lands
or is dropped on its own, before or after its caller stopped waiting. Telemetry seeds
(`Seed`, `SeedFails`) before it listens (`Listen`), after every `TelemetryCrash`. A
gateway crash clears both Maps. `Present` also stands for a redirect of a protected path; the
redirect's target, with `token_ack=1`, is `PresentAcknowledged`. A seeding that throws leaves
entries without a document (`unplanted`, history), the server starts nevertheless
(`server.js:93`), and uses of those entries are acknowledged and lost; `AcknowledgedUseIsLogged`
excepts exactly them. Left out: minting (`create`, which has no caller) and a wrong service key
(401).

### AdminAccess

A request comes to one of the two gates, is answered by the cache (`Hit`) or reads
(`Miss`, `ReadUsers`) and stores its decision (`Decide`). The API gate takes the time of the
entry before it reads, the page gate after. Behind the API gate, `Patch` is one update, and
a delete is `StartDelete`, `FindTarget`, `CountAdmins`, `Remove`. `admin_users` rows are
constant (`AdminRole`) because user administration changes none. One operation of the panel
does: with `ALLOW_ADMIN_SELF_REGISTER=true`, off by default, registering inserts a row of role
`user` (`register/verify-otp/route.ts:71`). `LoginFlow` has it; this module assumes the default.
With it, a page decision that found no row and then read the `users` collection could mix two
moments, and what is said here of the page gate does not cover that. The two caches are separate
because Next.js bundles middleware and API routes apart. Note that the gates do not agree
on everyone: a `user` row in `admin_users` hides an `admin` row in `users` from the page
gate and not from the API gate. Both are modelled as written.

### DashboardFeed

| Code | Model |
|---|---|
| `SocketContext.tsx` `refresh` | `Refresh` up to its await (coalesce, throttle, or `Fetch`), `FetchDashboardData` in the route, then `RefreshSucceeds` or `RefreshFails`, both with the `finally` block (`Finally`) |
| poll interval, visibility, timer of the alerts, first call | `Poll`, `RefreshAfterAlert`, `Init`, `LeaveDemo`, `EndMaintenance` |
| `setDemoMode`, the effect of the mode and its cleanup | `Toggle`, `EnterDemo`, `LeaveDemo`, `AbortFlight` |
| bootstrap effect; the load of `app/gateway/dashboard/page.tsx` | `WarmRead`, `ApplyBootstrap`, `WarmFails` |
| `MaintenancePanel.tsx` `runAction` | `StartMaintenance`, `EndMaintenance`, `MaintenanceFails`; the deletion itself is `Wipe`, which may be anybody's |
| `mergeAttackEvents` | `Shown` |

One switch raises `refreshGenerationRef` several times; `epoch` counts switches, because an
answer only asks whether the generation is still its own. A refresh with a signal is over
before the next event of the page once it is aborted, and so is the remembered one it
starts, with the same signal; forced refreshes have no signal and live on. The remembered
refresh is started by the code of the one that ends: with its options, and whatever the
mode is by now. Maintenance carries the mode of the render its request was made in: a live
one undoes its own clearing in the forced refresh; one of the demo mode only clears.
An event deleted after its alert came stays in the list of alerts; no property denies it.
Left out: the limits of the lists, indicators, the cache of the session (whose events are
older than the ones modelled), and unmounting.

### Gateway, ClientAddress, Detection

| Code | Model |
|---|---|
| `clientIpCore.js`, `forwardGatewayClientIp.ts`, `nginx.conf` | `resolveAttackerIp`, `RelayByPanel`, `RelayByNginx`; `Received` is what the gateway sees of a request that came by a way with headers of its own, `Claims` the addresses it names where they are believed |
| `detectionService.js`, `trapTypes.js`, `deceptionPaths.js` | `getThreatTypes`, `threatInfo`, `Path` |
| `honeyTokenDetector.js`, `gatekeeper.js`, `decoyReroute.js`, the routes | operators of these names and `Route`; `CheckReturns`, `UseReturns` are their awaits |
| `traps/*.js`, `decoyController.js`, `sqliDumpRotation.js` | `fakeLogin` / `WakeSlow`, `Stream` with `sendChunk`, `writeOne`, `StreamEvent`, `finalize`; `serveInfiniteRedirect`, `serveScannerTarpit` / `Wake`; one operator per page that reports |
| `telemetryClient.js` `reportAttack` as its callers see it | `Report`, `ReportReturns`: it never throws and gives up after 5 s |
| the browser | `Arrive`, `Follow`, `Leave`, events of a connection |

A request is what the patterns tell apart: a place, the kinds found in its parts, a key, a tag
that a redirect added. `gatekeeper` is one action because nothing in it awaits. Whether an address
is banned is free for the `Bannable` (module `BanSync` has when), and so is what telemetry says of
a key that the catalog does not know. The counter of `fakeLogin` is an object that a sleeping
request may hold after the map has dropped it: `object` keeps its last count, `turn` which attempt
the request was and `left` the number that its answer will announce, made before the report is
awaited. `hops`, `silent`, `seen`, `told` are history along a chain of redirects. `GRANT_ON` and
the other numbers are smaller than in the code, in the same order. The redirects to the file
viewer and the fetch page take along what the query had under that name, or an example when it had
none: `Kept` has every part of the query that this may be. A client may enter the labyrinth at any
depth.

**Whose address.** `resolveAttackerIp` believes address headers that come through a trusted peer
(`clientIpCore.js:154-175`), and takes the first in `X-Forwarded-For` that is not of the machine.
nginx appends to what the client sent (`$proxy_add_x_forwarded_for`) and passes its other headers
on, and the panel takes its word too (`forwardGatewayClientIp.ts:18-34`). So behind either of the
proxies an address that a client writes into a header is the one that bans and counters go by.
The model has this: every request comes with headers of any content (`Headers`: `x-client-ip`,
`x-forwarded-for`, `x-real-ip` and `cf-connecting-ip`, which no deployment of the repository sets
itself). Consequently `ChargedToSender` does *not* say that a ban or a counter finds whoever it
is meant for. It says who else than the sender can be charged: an address that the request named,
and only where headers are believed, so nobody else for a request that names nobody or that comes
straight from a machine that is not trusted, and a proxy only if it was named or is the sender.

Three assumptions: `GatewayAssumption` on the numbers (`MAX_DEPTH` is a multiple of
`CHECKPOINT_DEPTH`, which is at least 2, and the root of the labyrinth lies before it: 20, 5
and 2 in the code), `AddressAssumption` on the names of addresses, and `DeploymentAssumption`:
both proxies are on the machine of the gateway or in `TRUSTED_PROXY_IPS`, and who asks from that
machine comes by proxies on it.

Three comments in the code do not hold of it and are not modelled as if they did: "Log on
entry" (`infiniteRedirect.js:55`) never happens, because the depth counts the segments of
the whole path and is 2 at the root; `/admin/v1/backup` never reaches its route, a pattern takes
it first; `MAX_BYTES` of the trickle is 600 bytes at one per 10 s, an hour and 40 minutes,
and the hard limit is one hour.

### LoginFlow

| Code | Model |
|---|---|
| `realController.js` `loginUser`, `failLogin` | `loginUser`, `FindEmployee`, `WrongPassword`, `RightPassword`, `DrawSecret` |
| `createUser`, `verifyRegistrationOtp` | `createUser`, `SaveUser`; `verifyRegistrationOtp`, `RightEnrollmentCode`, `EnableTotp` |
| `verifyLoginOtp`, `finishBlueTeamOperatorLogin` | `verifyLoginOtp`, `RightCode`, `AnswerOperator` |
| `api/admin/exchange`, `register`, `register/verify-otp`, `logout` | `Exchange`, `Register`, `VerifyRegistration`, `CreateAdminUser`, `Logout` |
| `reset-2fa`, `api/admin/users` | `Reset`, `SaveReset`; `Administer` |
| `loginBruteTrap.js` | `Counted`, `failLogin`, `recordSuccess`, `Sweep` |

A request waits with the document it read (`doc`); `Save` writes the paths it changed into
whatever the document is by then. Cookies change when an answer is delivered (`Deliver`), so
tabs of one browser may overtake each other and answers may be lost. A secret is drawn once
and is never equal to another. Passwords and codes are not data: right and wrong are both
possible at each step. `proven`, `passed`, `coded`, `unissued`, `raced`, `late`, `overtaken`,
`streak` are history.

**What the preauth cookie is worth.** It is plain text, `mode:id`, and not signed
(`realController.js:90-98`, `190-206`, `305-317`): the code steps take whatever the browser
sends. A request may therefore bring the one in the jar or any of `Unissued`, cookies that no
answer had set (`Presented`). With one of those, the step before is not behind it: at sign-in
no password was checked, and at enrollment the page with the account's secret is shown without
one. The model says so rather than exclude it: `unissued` notes the browsers and accounts whose
code came with such a cookie, and `SessionIsEarned` claims a password only of the others. What it
claims of every session is a code accepted for that account in that browser, and that the account
exists, is active and has the name and the role of the session, unless `overtaken`: the users panel
changed it after the request had read it, or enrollment, which does not ask `isActive`
(`realController.js:205-217`), read it inactive.

`EnabledIsProven` excepts a document that was last saved over another request's read (`raced`);
of that overlap it says nothing more.

### GeoLookup, GeoAnswer

`Hit`, `Join`, `Local`, `Lead` are the four ways through `resolveIpGeo` up to its first
await; `ipWhoEnds`, `ipApiEnds` the answers of the services; `Settle` the code after them,
for the request that asked and for those that joined it. `upsertFromAttack` is the place part
of the profile. `cache` and `before` are a Map and its order of insertion. The backfill script
(`BackfillStart`, `BackfillLookup`, `BackfillWrite`) reads its candidates once and writes
them one by one. A restart of the service is a new behaviour over the profiles it finds
(`Stored`). A place is known by how exact its label is and whether it has coordinates; a
lifetime is a number of ticks. Not modelled because nothing reaches it: the branch of
`geoService.js:150-161` (a record always has a label), `resolveIpGeoFast`. Two effects that no
property denies: a profile keeps its country when a later answer says `Unknown`, and the
script, which knows no egress, replaces a private address placed at the fallback by
`LAN / Local`.

### HelpDesk, Connections

`submitContact`, `createTicket`, `ReportEnds` are the contact page; `updateHrTicketStatus` the
gateway's page; `loadTickets`, `updateStatus`, `Connected`, `GET`, `PATCH`, `Fails`, `ShowLoad`,
`ShowUpdate`, `ShowError` a call of the panel from the click to the screen. `createTicket` may
save and still fail to hear of it. `Connections` has what a call gets when it asks for a
connection: a promise that rejected is kept, so after a start without database a panel
process refuses until it is restarted (`adminDb.ts:52` and its two copies); `CallsEnd` says
that it does refuse, and not wait. `behind` and `tried` are history: rows shown that were
written since, so that a row which an overtaken load brings back is excepted from
`PanelUpToDate` until a later answer; and tickets whose report was tried. A report that failed
was tried too: `reportAttack` catches it, and the submitter is thanked all the same.

## 3. Runs

| Run | Instance | Asks | Result |
|---|---|---|---|
| `attack_pipeline` | 2 reports of 1 address, 2 verdicts, 1 admin request, 1 crash | aggregates, order, deletion, liveness of `AttackPipeline`, and that it implements `AttackLog` | holds |
| `ban_sync` | 2 addresses, period 3, timeout 1, 3 writes, 1 restart | delay, stability, convergence | holds |
| `honey_token` | 3 requests of 1 trace and 1 token, a catalog of 2, quota 1, 1 each of sweep, crash, expiry | quota, flag and log, acknowledged uses, history, dedup | holds |
| `admin_access` | 2 users (one with both rows), 2 requests at a time, 3 in all, 2 writes, clock to 2 | age of decisions at both gates, last admin | holds |
| `dashboard_feed` | 1 event, 2 switches, 1 deletion, 1 maintenance request | what is shown stays, what is owed runs, a clean demo, convergence | holds |
| `login_flow` | 2 tabs of 1 browser, 3 documents of 2 names in 2 stores, 3 secrets, 4 preauth cookies never set, 1 admin request | sessions that were earned, unique names, proven secrets, one identity, handoff to the traps | holds |
| `gateway` | 2 requests at a time, 3 clients and 4 ways, 10 choices of address headers, 20 kinds of request, 1 restart | address, streams, redirects, log, countdown, answers | holds |
| `geo_lookup` | 3 addresses (1 private), cache of 2, 2 attacks, the script | order of the cache, places, profiles, progress | holds |
| `help_desk` | 1 ticket number, 2 submitters, 2 calls of the panel, 1 outage | thanks, rows of the panel, calls end | holds |
| `severity_is_worst` | as `attack_pipeline` | "Worst severity observed" (`AttackerProfile.js:46`) | violated |
| `last_admin` | as `admin_access` | "Cannot delete the last admin account" (`users/route.ts:73`) | violated |
| `every_attack_is_logged` | as `gateway` | "It reports every attack to the telemetry service" (gateway `README.md:7`) | violated |

**What the passing runs show**

- *Order* (`ImplementsAttackLog`). Whatever times out, crashes or is lost, the gateway is told
  "sent" only after the event is in the database and on the dashboards.
- *Aggregates* (`ProfileMatchesReports`, `SeverityDropsOnlyWhenStale`). `$inc` and `$max` make
  the sums and maxima independent of order; `upsert: false` means that no enrichment creates a
  profile. The severity, written with `$set` from an earlier read, can fall, and only when
  that read is stale.
- *Deleted stays deleted* (`DeletedStaysDeleted`), against enrichments under way.
- *Bans* (`BanWindow`, `AgreementLasts`, `BansConverge`): enforced within 15 s + 5 s if no
  poll fails; never undone by a late or failed poll, *because* 5 s < 15 s.
- *Tokens* (`QuotaHolds`, `TriggeredIffLogged`, `AcknowledgedUseIsLogged`, `HistoryKept`,
  `RememberedStaysQuiet`).
- *Access* (`ApiDecisionFresh`, `PageDecisionFresh`, `OnlyRacesDeleteLastAdmin`): the API
  gate never acts on an answer older than its TTL, the page gate may by the length of its reads.
- *Dashboard* (`ShownStaysShown`, `OwedIsPaid`, `CleanDemoIsMock`, `FeedConverges`): an event
  on the screen and in the database is not lost to an answer read before it was saved; a
  refresh that an alert asked for during another runs, unthrottled, even if that one fails;
  a demo mode entered with only a fetch under way shows only fixtures; a live dashboard
  comes to list the database, also after a void answer or a failure.
- *Sign-in* (`SessionIsEarned`, `UsernamesUnique`, `EnabledIsProven`,
  `EmployeeIsHimselfUnlessLate`, `HandoffInRange`): a session is of the account whose code was
  given in that browser, with a password if the preauth cookie was one that an answer had set,
  although cookies, documents and stores change between the steps; what the users panel changed
  before the account was read for its code is in the session or prevents it. A secret that is
  enabled was confirmed, unless another request saved in between. The panel takes an employee for
  himself unless an exchange is answered after his sign-in.
- *Gateway* (`ChargedToSender`, `StreamReportsOnce`, `RedirectsLead`, `CountdownHonest`,
  `AttackIsLogged`, `Answered`): through the panel, nginx, both or neither, a request is charged
  to its sender, or to an address it named itself where headers are believed (section 2); a stream
  reports its bytes once; the redirects of the traps end after three, and those of the labyrinth
  are reported every `CHECKPOINT_DEPTH`; the attempts that a failed sign-in announces are, until
  its answer goes, no more than that attempt left and no fewer than the counter leaves by then,
  unless the address was let in meanwhile; they need not be the current ones, as others may be
  counted while the report is awaited; scanners, SSRF, traversal and XSS never end on a page
  without a report, but for two ways out of their trap: SQL beside them in what a redirect took
  along, and a key that telemetry came to know meanwhile, of a trace that has reported one.
  `TypeOK` bounds the counters: nobody is one attempt late.
- *Geo* (`CacheInOrder`, `LanPlaced`, `CityAndPointAgree`, `GoesOn`).
- *Help desk* (`ThankedIsKept`, `PanelUpToDate`, `CallsEnd`).

**Findings.** The three violation runs are disagreements between code and what the
repository says of it. Severity: two enrichments read the profile before either writes and
the milder, written last, stays. Last admin: a delete counts two admins, another request
takes one away, the delete goes on. Log: SQL in a request is answered with a redirect to the
database console, which is shown, and neither reports.

Four more statements are known not to hold; each is a definition marked as such, and TLC
refutes it when it is put into the cfg of its module in place of the properties there.
`AttributionIsBest` (`AttackerProfile.js:50`, "Best threat-actor attribution"): the latest is
stored. `TokenUsedOnce` (`honeyTokenFlow.js:8`): two requests of a trace pass the dedup check
before either is entered. `DemoIsMock` (`TopBar.tsx:130`): the load of the page ends after the
switch and puts real events on the demo screen; there are two more ways, which
`CleanDemoIsMock` excludes. `EmployeeIsAlwaysHimself` (`realController.js:100`): the exception
of the property above.

**Bounds.** The races are between two tasks on one document, so two reports of one address with a
wipe, a ban or a crash in between reach each of them; the events of different addresses share
nothing but the maintenance deletes. The honey-token run has three requests because two fill the
quota and its single 429 and the third must be silent, and a second catalog entry so that a
seeding can fail half way. The ban run needs period > timeout ≥ 1 for stale answers, and three
writes to change an address back and forth during a poll. The admin run has lifetimes long enough
to be hit and to expire within its clock; there `ApiTtl` and `PageTtl` differ so that a mix-up
would show. The dashboard needs an event that may be older or younger than a read or a deletion,
and two switches, so that an answer can outlive a mode and find it again; lists are compared as
sets and events do not interact. The login run needs two tabs to overtake each other, three
secrets (one in use, one shown, one drawn over it) and a name in both stores; the third document
lets a deleted account and a new one of its name coexist. Cookies that no answer set are made out
for the documents of employees, at enrollment and at sign-in; the two modes of the other store
differ from these in the store that is read and the role that is asked for, its operator signs in
with a cookie that was set, and the theorem is about all of them. In the gateway the headers name
one machine outside, the machine itself, or a list of both, in each header by itself; the traps go
by one address, whoever's it is, so that only requests for the portal bring headers. There the
second request only asks for the traps that share something, `GRANT_ON = 3 > SUSPICIOUS_ON = 2`
allows a sleep, a grant during it and an attempt after it, and the labyrinth is walked through its
cap of 4 and entered beyond it. Three redirects follow each other when one form has a traversal in
its credentials and SSRF and SQL in its query, or when telemetry comes to know the key of a
request with SSRF on the way. The cache holds two of three addresses, so the third evicts; the
offline database knows one. One ticket number makes two submitters contend, at once and after one
of them was thanked; lists are narrowed to the open tickets or not at all, since `suspicious`
picks rows by a field that never changes. `Max...` constants are bounds of the instance, not of
the code: the theorems hold for every value of them.

**Fairness.** `AttackPipeline`: the 5 s timer of `AbortSignal.timeout` fires, and the
handler goes on once a database call returned or threw. Nothing is assumed about requests
arriving, ML, upserts, admins or crashes. `BanSync`: the clock and timers run (weak), and
telemetry answers a poll, and the answer arrives, infinitely often if it is asked infinitely
often (strong): an assumption about the environment, without which no gateway converges.
`DashboardFeed`: the interval of a visible tab and the three seconds run out, and a fetch
ends (weak; the browser ends a request whose connection died, the code sets no timeout);
the route answers, and the answer arrives, infinitely often if asked infinitely often
(strong). `Gateway`: sleeps and timers end, and a call to telemetry is answered or given up
(weak, per request); nothing of clients, so a bomb may last. `GeoLookup`: a fetch ends by
its timeout (weak). `HelpDesk`: the driver's first attempt ends by its timeout, and the panel
goes on (weak); nothing about the database coming back.
The other modules state safety only and assume no fairness.

`CHECK_DEADLOCK FALSE` is used where the model may come to rest: all reports settled,
all requests answered and all bounds used up. The ban loop never stops and is checked for
deadlock.

## 4. Proofs

The theorems hold for all values of the constants that satisfy the named assumptions
(`PipelineAssumption`, `BanAssumption`, `HoneyAssumption`, `AccessAssumption`, `FeedAssumption`,
`LoginAssumption`, `GeoAssumption`, `HelpDeskAssumption`, `ConnectionAssumption`,
`GatewayAssumption`, `AddressAssumption`, `DeploymentAssumption`), which TLC evaluates on the
instances. Most say what set a constant is from. Five have content: the two of the gateway's
numbers and deployment (section 2), `BanAssumption` that `Timeout < Period`, `LoginAssumption`
that the stores begin with unique names and no second factor without a secret, `GeoAssumption`
that the profiles found at the start have no coordinates without a place.

- **AttackPipelineProofs.** `TypeInv` is `TypeOK` with `VerdictHeld` (a task past its call
  has a verdict to write), without which types are not inductive. `OrderInv` relates the
  handler's position to the sets: an answered `ok` was saved and announced, `saved` was
  saved. From it follow `NoFalseSuccess` and, one case per action, the refinement
  (`PipelineImplementsLog`): `SaveLands` is `Persist`, `Resume` is `Announce`,
  `ReplyArrives` is `Acknowledge`, everything else stutters.
  `ProfileInv` carries `ProfileHasOrigin` and, in the form "an upper bound that is reached",
  `MlRiskIsHighest`. `StoredInv` says that enrichments belong to existing events, which
  gives `DeletedStaysDeleted`. `SeverityDropsOnlyWhenStale` is proved as an action property.
  `ProfileMatchesReports` (and in it `RiskScoreIsSum`) needs a fact about sums over finite sets: to
  add a member adds its value. The fold that defines a sum is proved to have it, for every finite
  set, by taking a set of least cardinality for which it fails; the library's theorems about
  cardinality give that without an induction over an operator.
- **GatewayProofs, the gateway.** `IInv` is `TypeOK`, `TaskInv` and `ChainInv`. None of the
  properties is inductive: what a request may still do depends on where its handler stopped.
  `Sound` says that, for each place of a request: what was found is what `threatInfo` finds in it,
  a redirect it is about to send is one that `Leads` lists for this threat and place, an answer
  without a report is one that `SilentFits` allows, a stream has reported iff it is finalized and
  has sent no more bytes than intervals passed (`StreamFits`). Every action either hands a request
  to its handler (`Taken`: `Arrive`, `Follow`, `CheckReturns`, through the detector, the
  gatekeeper, the switch and the routes, with one lemma for each kind of handler) or lets it go on
  (`GoesOn`); both keep `Sound`, and a grant of `fakeLogin` reaches into other requests only to
  leave them their count. `ChargedToSender` and `StreamReportsOnce` are parts of `Sound`; that a
  request is charged to its sender or to one it named when it comes is the lemma `AskCharged`:
  through every header of every proxy, no address outside is named but these, and there is one to
  find (`Vouched`, `VouchedResolved`). `CountdownHonest` is carried by `CountFits`, which bounds,
  for each attempt not answered yet, the counter it holds from below by its own turn; every step
  of another attempt keeps that, because it counts up, drops the counter or leaves it. `ChainInv`
  is about the redirects: `Rank` bounds how many a request may still get (none on the console
  without a query, one on a place that has nothing in it but what belongs there, two where a
  redirect took the query along, otherwise three), every redirect of a trap takes one off
  (`Descends`), and in the labyrinth the silent ones are bounded by the depth modulo
  `CHECKPOINT_DEPTH` (`LabyrinthChain`). `RedirectsLead` and `AttackIsLogged` follow. TLC checked
  `IInv` on the instance first; it is there that the bound of two redirects, which an earlier
  instance was too small to refute, turned out to be three.
- **GatewayProofs, the bans.** The invariant `BanInv` ties each poll's age to the timer's phase (so
  that a poll is over before the next begins) and each answer in flight to the database (an
  address steady for longer than the poll's age is reported correctly). `BanWindow`,
  `OnePollAtATime` and `AgreementLasts` follow.
- **HoneyTokenProofs.** Quota and history counters stay in step; a document exists once
  telemetry has listened, unless a failed seeding left it out or maintenance ran (`BootInv`); flag
  and log agree.
- **AdminAccessProofs.** Each kind of information, a read under way, a decision, a cache
  entry, is shown to be true of a moment not too long ago; `Slack` is the part by which
  the gate's time stamp may be later than its reads, 0 for the API gate and `MaxRead` for
  the page gate. `RaceInv` says that a delete past its count saw two admins unless somebody
  wrote since; this gives `OnlyRacesDeleteLastAdmin`.
- **DashboardFeedProofs.** The three properties need five facts together: nobody has seen
  an event that is not saved yet (`SavedInv`), so a new event disturbs no comparison; in
  demo mode no alert is under way and only forced refreshes survive (`DeafInv`); an answer
  that may still be applied has every listed event that is still in the database
  (`FlightInv`), hence `ShownStaysShown`; what is owed is pending and not throttled
  (`OwedInv`), hence `OwedIsPaid`; and `CleanInv` for `CleanDemoIsMock`. TLC checked their
  conjunction on the instance before it was proved.

- **LoginFlowProofs.** `IInv` has one part for each group of variables. `Sound` is what a request
  and the cookies of its answer claim: a preauth cookie names an account whose password that
  browser gave, a waiting code request one that is `Vouched` for, by that password or by a note in
  `unissued`, a session one whose code it gave too, a document about to be saved with a second
  factor has a verified secret (`ReqInv`, `JarInv`). Claims only grow with what was accepted
  (`Grows`), so a lost or late answer cannot make one false. `AccountInv` carries
  `UsernamesUnique` and `EnabledIsProven` through `Save` and `Insert` (lemmas `Saved`,
  `Inserted`), `TrapInv` ties the counter to the failures in a row, and `CookiesTaken` is the case
  analysis behind `EmployeeIsHimselfUnlessLate`. `HandoffInRange` adds that only a failed login
  leads to the traps. `CurrentInv` is the other half of `SessionIsEarned`: every request past its
  last read, every answer under way and every jar with a session agrees with the row it is of, or
  is in `overtaken`; only `Administer` changes such a row, and it puts all of them there.
- **GeoLookupProofs.** Answers are `Honest`: without a place they have no point; every
  conversion keeps that, which gives `CityAndPointAgree`, whichever of service and script
  writes last. The cache is in order because an address is written only when it is not kept
  (`LookInv`: what is looked up is promised in `inFlight`, public, and not in the cache), so a
  new entry is the youngest and the last (`CacheWritten`). `LanPlaced` needs `BootInv`: before
  the server listens, nothing is kept.
- **HelpDeskProofs.** `FormInv` and `AnswerInv` say what a form and an answer under way know of
  a ticket; that no status change takes a ticket away (`StatusSet`), and that `createTicket` takes
  only a free number, keeps both for any number of submitters.

**Model-checked only.** Liveness (`ReportSettles`, `PersistedIsAnnounced`, `BansConverge`,
`FeedConverges`, `Answered`, `GoesOn`, `CallsEnd`), which is out of the prover's reach. Every
invariant and every action property that a run checks is proved.

## 5. Not modelled, and why

- Read-only views, pages, decoy texts, schemas, infrastructure: no state of their own.
- The scoring tables and statistical models of the ML service: data. Its answer is any
  verdict. Its lazy loading checks the error of a model before the lock only, so threads that
  wait while a load fails each try again (`model_registry.py:48`); the registry is off by default.
- `recordScreenResolution`, formatting of events, distances and maps, the classification of
  payloads, fingerprints, the session of the legacy console: they change nothing that the
  properties speak of.
- `2fa/enroll` and the debug code (development only), `safeNext`, the form of the register page.
- `scripts/clear-attack-data.js` deletes what maintenance deletes.
- Two telemetry or two gateway processes at once: the deployment runs one of each.

Known behaviour that no property speaks of, because nothing in the repository promises
otherwise: after `DELETE TOKENS` the gateway still recognises the tokens and their uses are
dropped until the next boot (`maintenance/route.ts:32`); `PATCH` demotes any admin, the caller
and the last one included (`users/route.ts:46`, in the model as the step that races a delete);
a user with rows of different roles in the two stores passes one gate and not the other
(`portalAccess.ts:19`); a report that fails is not retried (`telemetryClient.js:66`); the byte cap
of the trickle is out of reach (`httpTrickle.js:79`); and the loading of models above.

## 6. Plan

What would come next, in this order: a composition of `Gateway` with `BanSync` and
`HoneyToken`, which now stand for each other's free choices; an abstract "reports exactly once"
specification that both streams implement, with a proof of that.
