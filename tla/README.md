# TLA+ verification of the CyberDNS threat intelligence platform

This directory holds TLA+ models of the platform's Go code, the TLC configurations that check
them on small instances, and TLAPS proofs of every safety property the runs check, for every instance.
Source paths below are relative to the repository; each definition of a module that models code
has an entry in `PROJECT.json` ("map") with the lines it stands for.

1. [The system](#1-the-system)
2. [Modules, and how they correspond to the code](#2-modules-and-how-they-correspond-to-the-code)
3. [Runs: what is checked, on which bounds](#3-runs)
4. [Fairness](#4-fairness)
5. [Theorems](#5-theorems)
6. [Where the code and what is said of it disagree](#6-disagreements)
7. [What is abstracted, what is not modelled](#7-abstractions-and-what-is-left-out)
8. [Plan](#8-plan)

To run: `tlc -config SnapshotStore_publish.cfg MCSnapshotStore.tla`, and likewise for every other
`<Module>_<name>.cfg` with `MC<Module>.tla`; `tlapm SnapshotStoreProofs.tla` for the proofs.

## 1. The system

The platform collects malicious domains from public feeds and from OpenCTI, decides which of them
to block, and publishes block lists that DNS resolvers (Blocky) download. Data goes through four
layers, three in PostgreSQL and one on disk:

| Layer | Where | Writers | Readers |
|---|---|---|---|
| L0 evidence | `domain_evidence`, append-only | feed-ingestor, sync-consumer | admin-api |
| L1 merged state | `domains`, `domain_sources` (one row per domain and source), `domain_source_categories` | feed-ingestor, sync-consumer | policy-engine |
| L2 decisions | `domain_decisions` (per domain and category), `decision_changes` | policy-engine | blocklist-generator, admin-api |
| L3 snapshots | `snapshots/<version>/`, `snapshots/current` | blocklist-generator | its own public HTTP server |

### Components

**feed-ingestor** (`cmd/feed-ingestor`, `internal/ingest`, `internal/feed`, `internal/parser`,
`internal/store/store.go`). For each source: fetch conditionally on the ETag of the last completed
import, with retries; parse; validate the size of the list against the last completed import;
one transaction (`Store.Apply`) for evidence, L1 upserts, switching off what has been missing longer
than the grace period, and switching off domains without any active row; one more statement
(`FinishImport`) for the audit. State: `source_imports`, L0, L1. Hard: truncated downloads, lists
that shrink or explode, an `Apply` whose commit is not acknowledged, crashes between `Apply` and
`FinishImport`, two instances. Correct when: lists are applied as a whole, no suspicious list is
applied, what ends well has left the listed domains active, nothing is dropped within the grace period.

**sync-consumer** (`cmd/sync-consumer`, `internal/syncconsumer`, `internal/opencti`,
`internal/store/opencti.go`). A live stream of STIX events (create, update, delete, merge) applied
one by one; a checkpoint in `opencti_stream_state` after every N events or some time. Resumes by
event id after a disconnect, by id or by time after a restart. Hard: replays, lost connections, kills, failing
transactions, a start that fails, merges in two transactions, events lost to the stream's retention window, old events
after newer ones. Correct when: no event is skipped, replays are harmless, L1 mirrors OpenCTI, a
revocation (the analyst's veto) sticks.

**Triggers and service loops** (`internal/store/trigger.go`, `internal/app/trigger.go`). The
dashboard's "run now" buttons insert rows into `admin_triggers`; the feed, policy and generator
services poll for them between scheduled runs and report the result. Hard: two admins at
once, two instances, failing claims and reports, shutdown in the middle of a job. Correct when: a
request runs at most once, duplicates are bounded, requests are taken up, and they do not starve the schedule.

**policy-engine** (`cmd/policy-engine`, `internal/policy`, `internal/store/policyrun.go`). A run reads the
protected and admin lists, streams active L1 evidence grouped by domain and category, evaluates a
pure ladder (protected, veto, allow, manual block, score against threshold, default action) and
replaces the decision table in one transaction that also records changes. Hard: it reads in several
queries, the run's status is a separate statement, failures of commits.
Correct when: decisions follow from evidence, protected domains are never blocked, history agrees with decisions.

**blocklist-generator** (`cmd/blocklist-generator`, `internal/builder`, `internal/tenants`,
`internal/match`, `internal/render`, `internal/snapshot`, `internal/blocklistsrv`). One goroutine builds: reads the blocked
rules category by category, applies tenants' overrides, renders files and publishes them as a new
version directory, then moves the pointer and prunes. HTTP handlers read the same directory without a
lock. Hard: requests that overlap a publication, crashes at any system call, pruning
that fails halfway, rollback. Correct when: `current` always names a complete set, answers are consistent, a
rollback target remains, clients catch up.

**Lists of a tenant** (`builder.buildTenant`, `internal/match`, `Collapse` in `internal/render`, `internal/store/tenant.go`). Part of a
build: per category the blocked rules less what the tenant allows, with what it denies, then all.txt and
allowlist.txt; each list is sorted by reversed labels and collapsed in one pass. No state
survives a build. Hard: an exception below a blocked parent cannot be applied by leaving a rule out;
one pass relies on what the byte order puts next to each other. Correct when: a resolver with the
files blocks what was asked for and nothing else.

**Token resolver** (`internal/store/token.go`, used by `blocklistsrv.serveTenant`). A cache from token to tenant in the public
server: an entry answers alone while it is younger than ttl, and up to max stale when PostgreSQL does not answer.
Hard: requests overtake each other between lookup and cache, revocation during a lookup,
outages. Correct when: no answer is older than the code promises, outages up to max stale go unnoticed, a
change of the token reaches the clients.

**admin-api** (`cmd/admin-api`, `internal/adminapi`, `internal/store/admin.go`, `query.go`): REST with
sessions and roles. A writing request may read the row it is about, judges, writes it with one statement and then adds
a line with the former row to `admin_audit_log`; no transaction holds these together. Hard: requests that interleave between
those steps, fields a request leaves out, a change whose line is lost. Correct when: the log accounts for the
tables, and an enabled source has a license.

**bootstrap** (`cmd/bootstrap`): one-shot upsert of sources, categories and tenants.
**Migrations** (`internal/db`): embedded SQL under an advisory lock. **Frame**: configuration,
metrics, health checks. **web**: a static dashboard. **deploy**: compose files and scripts.

### Interactions

The services never call each other. feed-ingestor and sync-consumer meet in L1 (`L1Merge`);
policy-engine reads L1 and meets the generator in L2 (`PolicyPipeline`); the generator's goroutine
meets its HTTP handlers in the snapshot directory (`SnapshotStore`); admin-api reaches the others
through `admin_triggers` (`TriggerQueue`) and the tables of sources and the allowlist (`AdminApi`; an environment action of
`PolicyPipeline`). The generator's HTTP handlers ask PostgreSQL for tokens (`TokenCache`); what it writes for a tenant is one
set of rules in `PolicyPipeline` and looked into in `DomainLists`.

The hazards of this code, each at its line and with the properties that watch it, are the list
"hazards" of `PROJECT.json`.

## 2. Modules, and how they correspond to the code

| Module | Models | State | A step is |
|---|---|---|---|
| `AtomicPublish` | what publication promises: clients see one whole content, replaced by an offered one in one step | `offered`, `published` | offer, publish, withdraw |
| `SnapshotStore` | `internal/snapshot`, `builder.publish`, `blocklistsrv` | the entries of every version directory and building directory, the pointer, the build goroutine's position, each client's request and cached answer | one system call: mkdir, file write, rename, pointer swap, unlink; in a request: read of the pointer, of the manifest, of the file |
| `OpenCTIStore` | `internal/store/opencti.go` as functions from database to database | (none) | |
| `SyncConsumer` | `Consumer.Run`, `Handle`, `Flush`, restart | OpenCTI's truth and event log, stream window, consumer memory, checkpoint, database, set of applied events | one event, transaction or connection step |
| `TriggerQueue` | `EnqueueTrigger`, `ClaimTrigger`, `FinishTrigger`, `RunLoopWithTrigger` | `admin_triggers` rows, HTTP handlers, loops, due flags | one SQL statement, one job |
| `PolicyPipeline` | `policy-engine` run, `policyrun.go`, `builder.Build` | evidence verdicts, active flags, allowlist, run, `domain_decisions`, history, build, `offered`/`published` | one query or transaction |
| `FeedIngest` | `ingest.One`, `feed.Fetch`, `parser.Validate`, `Store.Apply` | the feed, rows with their age, L0, last completed import, the import of each instance | one HTTP attempt, judgement with `Apply`, `FinishImport` |
| `L1Merge` | the statements of `Apply` and `UpsertOpenCTI`/`DeleteOpenCTI` that write `domains` and `domain_sources` | committed rows, open transactions, rows locked | one row written, one snapshot taken, commit |
| `PolicyLadder` | `internal/policy/policy.go` | rows of a domain per source and category, the lists, the day | a change of the input; decisions are functions of it |
| `TokenCache` | `TokenResolver` | whether the token is valid and the database up, the cache entry, each request; as history the last moment at which each answer was right, and the last write of the cache | read of the cache, lookup, write of the cache; a tick |
| `DomainLists` | `buildTenant`, `applyOverrides`, `Match`, `Collapse` | a tenant's rules, the file in work, the lines of each file | one file begun or ended, one rule of a scan |
| `AdminApi` | the writing handlers of `internal/adminapi`, `Audit` | the rows of sources and the allowlist, `admin_audit_log`, the handlers | the judgement, one statement, the line of the log |
| `MC...` | instances for TLC | | |
| `SnapshotStoreProofs`, `SyncConsumerProofs`, `PolicyPipelineProofs`, `TriggerQueueProofs`, `FeedIngestProofs` (also of `L1Merge`), `PolicyLadderProofs`, `TenantProofs` (of `DomainLists` and `TokenCache`), `AdminApiProofs` | proofs | | |

`SnapshotStore` and `PolicyPipeline` compose through `AtomicPublish`: the first implements it
(`PublishIsAtomic`, with the refinement mapping `Offered`/`Published`), the second uses its actions for
publication, so that its build does not have to go through the system calls again. `SyncConsumer` EXTENDS
`OpenCTIStore` and uses its operators as its transactions.

`TenantProofs` and `FeedIngestProofs` each EXTEND two components, which is why the second one (`TokenCache`, `L1Merge`) has names of its own for its
initial predicate, next-state relation and specification, and for what both have.

Definitions whose comment begins with *Variant* are mutated forms of the definition after them: plausible
bugs, each of which a property of the runs must catch.

**SnapshotStore.** `StartPublish` is `publish` up to `Begin`: nothing happens when the digest is that of the
current set. `Begin`, `Add` (one file, with its `.gz`; `SameAs` when the body is already
stored), `WriteManifest` and `Rename` are `Store.Begin`, `Set.Add` and the first parts of `Set.Commit`; `SetCurrent` is its end, the atomic
replacement of the pointer; `ListVictims` and `Unlink` are `Prune`, entry by entry in any order. `FailPublish` and `FailPrune`
are an error return at any step, where the deferred `Abort` removes the building directory. `Crash` loses the goroutine and nothing on disk.
A request (`Request`, `ReadManifest`, `Resolve`, `Open`) is `Lookup` (pointer, manifest), then the pointer again, then the file, as `serveList` does.

**SyncConsumer.** `Start`, `Connect`, `Deliver`, `DeliverMerge`/`FinishMerge` (two transactions), `Checkpoint`, `Close` are the
loop of `Run`; `FailStart`, `FailHandle`, `FailCheckpoint`, `FailClose`, `Disconnect`, `Stop`, `Kill`, `Trim` are everything that may go
wrong. `FailStart` is a database error in `run` before the loop: the goroutine is over ("ended") and the process stays up, until `Stop` or
`Kill`. `Stop` ends the backoff without another `Flush`, anything else of the loop by way of `Close`. A failing `Handle` records the event as pending before it returns, as the code does.

**TriggerQueue.** `Request`, `Check`, `Insert` are the three statements of `EnqueueTrigger`, outside a
transaction. `Claim` is `FOR UPDATE SKIP LOCKED` with the update: the oldest pending row, atomically. A loop looks for a
request first and then at the clock.

**PolicyPipeline.** `BeginPolicyRun`, `LoadLists`, `EvaluateAll`, `WriteDecisions` and `FinishPolicyRun` are separate, as they are
separate statements or transactions; `ReplaceDecisions` is what `writeDecisions` does to the two tables, and `WriteDecisions` has its
early return on an empty result. `FailRun`, `LoseCommit`, `FailFinish`, `CrashEngine` and `FailBuild` are the faults. A
build reads one category per step (`ReadCategory`). `ApplyOverrides` and `Content` are the tenants' lists, `all.txt` included.

**FeedIngest.** `Begin` reads the last completed import, `NotModified`, `Download` and `FailAttempt` are one HTTP attempt,
`Judge` is `checkComplete`, `Validate` and the comparison of hashes, `Apply` the transaction (`Merge` is its effect on L1), `Finish` is
`FinishImport`; `FailApply`, `FailFinish` and `Crash` are the faults. Time passes by `Tick`.

**L1Merge.** `MergeDomain` upserts row by row, in any order of the staged list; `MergeSources` stands for the statements on the
source's own rows, which nobody else writes; `FindOrphans` and `DropDomain` are the update that switches off
orphans: the set is found by the view the statement began with, then each row is waited for, re-read and written.
`UpsertDomain` is the consumer's loop over an indicator's domains, `Deadlock` PostgreSQL's answer to two
transactions that wait for each other.

**PolicyLadder.** `Score` (best evidence, bonus per independent source up to a cap, staleness penalty up to a
cap, clamped), `Evaluate` (the rungs in their order) and `RevokedByOpenCTI` are translated one to one; the actions
change the input as the other services do.

**TokenCache.** `Read`, `Lookup`, `Write` and `Return` are `Resolve` up to the places where it waits: the read lock, the query, the
write lock, the return. A failed query (`LookupFails`) falls back on the entry that `Read` has seen, as in the code, not
on the one there is by then. The code compares timestamps; the model keeps ages, which stop growing at `Old`, where every
comparison has come out. The entry a request writes is as old as the request (`now` is taken first) and replaces whatever is there. `Change`,
`Outage`, `Invalidate` and `Restart` may come between any two steps.

**DomainLists.** `Begin`, `Scan` and `End` are one turn of `buildTenant` for one file; `Effective` is `applyOverrides`, `Match`
the exact and wildcard lookup, `Before` the comparison of the sort and `Covered` the test of
`Collapse`, which only looks at the last rule it has kept. Names have an order of their own (`Position`) and a relation `Below`; that is all
the code uses of their strings. A list may hold a rule twice, with the category each copy is from; the lines are compared as sets of names.

**AdminApi.** `Authenticated` is the wrapper of every handler, `Look` the read of the row with the judgement (`Accepts`: license of a source
to be enabled, permission for the tier, existence), `Change` the statement, `Audit` the insert of the line. `Updated` takes what a
request leaves out from the row the UPDATE finds (COALESCE), not from the row that was read. `FailChange` covers the
answer that is lost after the statement was done. `FailAudit` is ignored by the code, as is the context
that ends with the client's connection; `Crash` ends every request.

## 3. Runs

All runs finish in about a minute or less on four cores; none expects a violation. "Bounds" lists what makes the
instance small and why it is enough for the interesting cases to occur. Every property has a mutant in
`PROJECT.json`: a plausible bug in a mapped definition that makes TLC report the property violated.

| Run | Specification, states | Properties |
|---|---|---|
| `SnapshotStore_publish` | FairSpec, 150,592 | `CurrentComplete`, `UndisturbedRequest`, `DiskBounded`; `RollbackTargetKept`, `PublishIsAtomic`, `ClientsCatchUp` |
| `SyncConsumer_faults` | Spec, 1,126,361 | `NothingSkipped`, `ReplayIsHarmless`, `MirrorsOpenCTI`; `RevocationSticks` |
| `SyncConsumer_liveness` | FairSpec, 111,675 | `CatchesUp` |
| `TriggerQueue_serve` | FairSpec, 64,846 | `RunsAtMostOnce`, `DuplicatesBounded`; `WaitingIsTaken`, `ScheduleKept`, `EveryRequestEnds` |
| `PolicyPipeline_follows` | FairSpec, 95,925 | `ProtectedOnlyIfAsked`, `ListingsExplained`, `DecisionsRecorded`; `ListsFollowEvidence` |
| `FeedIngest_lists` | FairSpec, 485,583 | `NoLargeChange`, `ListedIsActive`, `ListedArrives` |
| `FeedIngest_instances` | Spec, 1,472,348 | `ActiveIffListed`; `NothingByHalves` |
| `L1Merge_writers` | FairMergeSpec, 111,840 | `FeedDomainsActive`; `TransactionsEnd` |
| `PolicyLadder_life` | Spec, 247,730 | `TypeOK`, `VetoHolds`, `EchoIsNoEvidence`; `TimeOnlyUncovers`, `MoreEvidenceNeverUnblocks` |
| `TokenCache_outage` | FairTokenSpec, 529,204 | `AnswersAreFresh`, `OutageBridged`; `AnswersSettle` |
| `DomainLists_tenant` | Spec, 446,281 | `ResolverBlocks`, `AllIsUnion`, `SuperfluousOnlyWhenTorn` |
| `AdminApi_log` | Spec, 480,476 | `LogExplains`; `LicenseJudged` |

The type invariants of all modules are proved (section 5) and not checked again, but for `PolicyLadder`, where the range of the score is
part of it; the same goes for `RowsExplained` of `SyncConsumer` (the domain of every row is known and has evidence).

**SnapshotStore_publish.** Two list files (the shared one and a tenant's), three contents (tenant's file
equal to the shared one, dropped, and equal with another body), three build stamps used in any order, `Keep` = 2, one client that polls the
tenant's list for ever, one crash, failures at every step without a bound. Three builds are the least with which `Prune`
has a victim besides `current` and a spare. A request is undisturbed
when the pointer has not moved since it began; the answer must then be the right 200, 304, 404 or 503.

**SyncConsumer_faults.** Two indicators with a domain of their own, four edits, checkpoints every two events,
three faults among kills and the window passing the checkpoint while the service is down; merges on. Four events
allow create, create, merge and one more with a checkpoint in between; three faults allow a recovery by time that is killed and
recovered by time again. `RevocationSticks` lets a revoked row be revived in two cases: by an edit later than the row, and by the
replay of an event of an indicator that has been merged since. The run reaches the second (create both, checkpoint, revoke, merge, kill, recover by
time), which should not be: `RevocationFinal` in section 6. Lost connections are left to the other run and to the theorems: together with recoveries by time they break
`NothingSkipped` (section 6). So do the other faults that are not here, and the patterns that share a domain; they have
configurations of their own.

**SyncConsumer_liveness.** Three edits and the other faults: failing transactions, lost connections, SIGTERM, and a window that passes while the
service waits to reconnect. Events may be lost here, as section 6 says; the consumer still gets to the end of the
stream, unless a start has met a database error and the goroutine has ended: `CatchesUp` names that outcome, `AlwaysCatchesUp` (section 6) does not.

**TriggerQueue_serve.** Two handlers, two instances, three rows, one fault among a failing claim, a
failing report and an exit. Three rows let one be claimed while two handlers race. `EveryRequestEnds` speaks of behaviours
without faults, since the code promises no more (section 6).

**PolicyPipeline_follows.** Two domains and categories, two tenants of which one has one category, an exception
for `e` and a denylist with `d`, which is protected for good: the tenant that denies it has it listed, the other one never; two edits of evidence or allowlist, one fault of any kind. The evidence for one pair, (`e`, malware), is never
withdrawn (`Anchor`): without it `ListsFollowEvidence` fails (section 6).

**FeedIngest_lists.** Two domains and up to two lines that repeat a rule, so feeds of one to four lines, a sample of two: from two lines a feed may grow to
three and not to four, from three or four it may not fall to one. Two changes of the feed, two attempts, one fault among those that do not touch
the database or fail before commit, a grace period of one tick and an import that may take one tick. Another source holds `a`.
A feed that gives the same rules in another number of lines is another feed, to be applied again.

**FeedIngest_instances.** Two instances, two domains, feeds of the same rules in two wordings (comments, order), one fault of any kind, lost commits, failed audits and crashes included.

**L1Merge_writers.** One ingestor, two feeds one after the other, the consumer with patterns of two domains, four
transactions, one failing statement. Two domains are the least for a deadlock. With two ingestors, `FeedDomainsActive` fails
in the way `OpenCTIDomainsActive` does in `L1Merge_order`, since both would run the same orphan update: the
property is checked for the deployment the repository describes, one ingestor.

**PolicyLadder_life.** One domain, two feeds that cover different categories, two strengths on either side of the threshold with
its bonus, three days, OpenCTI rows of one or two days, allowlist and manual block entries for a day or for good. The protected
list, whose entries the proofs treat as the others, is left out here.

**TokenCache_outage.** Two requests that overtake each other, a lookup of at most two ticks, ttl one tick and max stale three, so that a lookup
can take longer than ttl and an entry be past ttl, past both, or neither when it is written. Changes, outages and restarts are not bounded.

**DomainLists_tenant.** Two categories with up to two rules each, up to one exception and one denied name, over every choice
of them from five rules: example.com exact and with its subdomains, a subdomain, one below that, and example-x.com, which
the byte order puts between example.com and its subdomains because "-" comes before ".".

**AdminApi_log.** Three requests, which may all be under way at once, of twelve kinds: a source created with and without
a license, changes of license and state that leave out one or the other, disable, purge, add to either tier of the allowlist,
remove. Two requests race for a row; the third makes what one of them has read reappear. Handlers are interchangeable (symmetry).

Deadlock checking is off where the environment may stop for good: `SyncConsumer`, `TriggerQueue` and `AdminApi` (no more
edits or requests) and `L1Merge` (no more transactions).

## 4. Fairness

* `SnapshotStore`: weak fairness of the build goroutine's next step and of each client's requests. The goroutine never
  waits for another one, and the HTTP server gives each request its own. New builds, failures and
  crashes are not fair.
* `SyncConsumer`: weak fairness of the consumer's own step, as long as its goroutine runs: the container is restarted when the process exits
  (`restart: unless-stopped`), `Run` reconnects without limit. A goroutine that has ended takes no step, and no fairness brings it back. Edits and faults are not fair and are bounded, which is
  "the analysts and faults have stopped".
* `TriggerQueue`: weak fairness of each instance's loop: its ticker fires and jobs return. No fairness for handlers.
* `PolicyPipeline`: weak fairness of a policy run and of a build: both services run on a schedule.
* `FeedIngest`: weak fairness of each instance's import and of time.
* `L1Merge`: weak fairness of the statements of each transaction and of PostgreSQL's deadlock detection.
* `TokenCache`: weak fairness of every request's steps, which run in goroutines of their own, and of time. Changes and outages are
  not fair: `AnswersSettle` is about behaviours in which they have stopped.

## 5. Theorems

TLAPS checks these for every value of the constants that satisfies the modules' named assumptions
(`StoreAssumption`, `PipelineAssumption`, `TriggerAssumption`, `IngestAssumption`, `MergeAssumption`, `LadderAssumption`, `TokenAssumption`, `DomainAssumption`, `AncestorsFirst`, `FileAssumption`,
`AdminAssumption`).

**SnapshotStoreProofs.** `CurrentComplete` says that the pointer names a whole set. It is not inductive by itself: that `Rename`
publishes a whole set depends on what the building directory holds at that step, and that pruning
leaves `current` alone on the choice of victims. `IInv` adds

* `DirInv`: at each step of a build, what its building directory or its version directory already holds (`SetInProgress`: files
  are written in the order of their positions, and what is stored or shared is not in `build.todo` any more); victims are never
  `current`; the version being built is not `current` before the swap, its stamp is a used one (`VersionIsFresh`); a
  directory only holds files of its own set (`DirectoryInv`);
* `RequestInv`: a request that no publication has disturbed has read the current version, and remembers it.

`TypeCorrect` and `CurrentIsComplete` follow, `UndisturbedRequestsAreRight` from both parts (a file that the manifest of the current set names is there, hence
no 503, and its body is the one its ETag stands for). `PublicationIsAtomic` shows the refinement: `SetCurrent` maps to the publication of
`AtomicPublish`, every other step of build, prune, crash and request to a stutter or to an offer; it rests on `PublishedIsContent`, which
says that under `CurrentComplete` no file of the mapped content is missing. `FileOfIsStored` (the file that stands for
a list has the same body) needs a least element of a set of positions and takes it from the well-foundedness of the
naturals (`LeastNatural`).

`DiskIsBounded` and `RollbackTargetStays` are about what `Prune` leaves, with the actions of `RollbackSpec` as well as with those of `Spec`. Both count
sets. `KeepInv` says that whatever is a victim, or half pruned by a `Prune` that was interrupted, has at least `Keep` newer sets that are whole; `BoundInv`
that what is neither a victim nor `current` has fewer than `Keep` newer ones of any kind. A victim that loses a file no longer counts
for older sets, but the `Keep` whole ones that are newer than it are newer than those, too. A set that `Rename` adds is whole, for which `Filling` and `Filled` say
what a build has written so far. With `Keep` = 1 the second theorem is false (section 6); for the first any `Keep` will do. The order
of the stamps is arbitrary in both, so a clock that steps back is covered.

**SyncConsumerProofs.** One notion carries the module: the place in the stream at which the process goes on, or a new one would (`Place`), in
every state of connection, memory and checkpoint. `ProgressInv` says that all before it has been applied, and that a restart is never ahead of it; its
`PendingInv` ties what is pending to it. Where a restart begins depends on whether the checkpoint is too old by then, and one that a start has
found too old stays so until the next is written (`checkpoint.late`). `NothingIsSkipped` then has two hypotheses, and both are disagreements of section 6: no handler fails
(`HandlersSucceed`: a failed event is pending all the same), and a reconnect by id finds the id in the stream's window (`Kept`). `StreamHasTheId` shows that
the second holds under `MildFaults`: a consumer with a checkpoint, and either lost connections and kills, or kills and a stream trimmed while the service is
down, any number of them.

`CaughtUpMirrors` adds two more parts to that: `VerdictInv`, that the row of an indicator's domain says what the latest applied event about it
said, and `ActiveInv`, that an active row of an indicator that is gone waits for the event, at the place or after it, that will switch it off.
`ReplaysAreHarmless` compares the database with what each event would have made of it once and in order. After a replay has begun the
database is that of no prefix of the stream, row by row it is (`VersionInv`: row d is as it was after some event at or after the place): a
replayed event finds a row that is newer, and leaves it, or one that it writes again. That is only so because a row that is as late as one write of its
indicator has company in all the others (`CoherentInv`), since the handlers compare row by row. What the database is after each event once and in
order (`Once`) is a recursion over the stream, about which nothing can be shown by an induction of its own; the stream grows by one event at a
time, so the invariant carries it along (`OnceInv`). What an indicator's deletion leaves, nothing to compare with, is
why `Separate` is assumed: no indicator comes back under its id, no two share a domain (section 6 has both counterexamples); and for
`CaughtUpMirrors` that no indicator is for analysis only (the same). `RowsAreExplained` and `TypeCorrect` hold under any faults and patterns, `RevocationsStick`
under any faults for patterns that share no domain. Its invariant, `RecordInv`, says whose record the row of a domain can carry: its own indicator's, or that of one it
was merged into by an event of the log. An event that `isStale` does not recognize as old is then one of an indicator that has been merged later, the exception the property names.

**PolicyPipelineProofs.** `ProtectedStaysOut`: a domain protected for good is on no list but those of a tenant whose denylist has it,
whatever the denylists are; `ContentAsked` says so of what `buildTenant` makes of rules without blocked shielded domains. The inductive part, `ShieldInv`, carries
the absence of blocked shielded pairs from the lists the run has loaded, through the pending decisions, the
table, the build's rules and the offered set to the published one. `ListingsAreExplained` does the same with
`EvidenceInv` and the history of blocked verdicts, `wasBlocked`: what is pending, decided, read or published may outlive the evidence it
came from, so each stage can only be compared with what the evidence once was. `HistoryIsCurrent` is
inductive with `TypeOK`.

**TriggerQueueProofs.** `RequestsRunAtMostOnce` follows from `IInv`, the type invariant with two parts. `RowsInv` says what
the status of a row tells of its runs: none while it is pending, one when it is done or failed. `LoopInv` ties the rows
to the loops: a loop that holds a row finds it marked as running, is the only one to hold it, and has run it only
when it is about to write the result. Without `LoopInv` two instances could finish one row, or a claim could hand out a row that
has been run. `DuplicatesAreBounded` counts: `PlacesInv` says that, per target, the unfinished requests and the handlers
between their check and their insert are together no more than the handlers. An insert moves one place from the
second to the first, a check that finds no request takes a place where there were none of the first kind, and
nothing that the loops or the purge do adds a row to the unfinished ones. The sets are compared with the cardinality theorems of the library,
which is why the handlers have to be finite; the set of instances need not be.

**FeedIngestProofs.** `OnlyWholeLists`: `TypeOK` and `WholeInv`, which says that what an import takes for whole is what the
server listed, and that past the judgement it is whole and was accepted. `OrphansOnlyAreOff` needs only types and the statements of `applyMerge`. The other two theorems are about a single
instance, and the assumption is theirs: with two, an import can be judged by a list that is no longer the last one. `BaselineInv`
says that what an import compares its list with is the last completed one; `AppliedInv` that the rows of the last completed list are
active, for which no fault may come between the commit of a list and its record (section 6). Sizes are counted in accepted lines, as `Validate` does; that an unchanged
list needs no write only depends on equal feeds having equal rules.

The last part of the module is about `L1Merge`. `FeedRowsAreActive` holds for one ingestor, any number of
feeds, domains and transactions of the consumer: `MergeInv` says that the rows of a feed are active only for domains that are active, or
are about to be switched on by the same transaction (`ImportRows`); that what an orphan update has yet to switch off has no active row of
a feed, although its view is old, because only the ingestor itself writes those rows (`ImportOrphans`); and that the consumer's
transactions are about its own source and switch nothing off (`ConsumerRows`). The assumption of one ingestor is the middle part's: with two TLC finds the counterexample.

**PolicyLadderProofs.** One lemma about the functions carries the module: the score grows with the best row, the newest one and the
number of feeds, and shrinks with the day (`ScoreGrows`, from the monotonicity of bonus, penalty and clamp), so more rows that are no weaker
and no older never lower it (`MoreScores`). A day that passes is the same rows read later, under the entries of the lists that have not ended (`TimeGivesNoReason`): a manual block that is in force later is so before,
an exception need not be, and is left out of the comparison; a feed that lists a domain gives a row
of the same strength in the same categories (`FeedInv`), and no row is from the future (`PastInv`), so the new one is the newest; an echo
changes neither of the three quantities, so the two scores bound each other. The invariant is needed because an arbitrary set of rows would not do:
a feed's row with an end or with other categories could lose by being renewed.

**TenantProofs.** `ResolversBlock` and `UnionBlocks`, for any names, rules and categories and any order that puts a name
after what it is below (`AncestorsFirst`): the minimality of the lists is lost where the order tears a family apart (section 6), what they block is
not. `ScanInv`: what a scan has left behind is below a rule it has kept, from which `FilesInv` says that a finished file covers what its rules cover;
`UnionInv` ties all.txt to the categories done so far. `OverridesHarmless` is the argument about exceptions: a rule that `applyOverrides`
leaves out covers only names that allowlist.txt exempts. `OnlyTornIsSuperfluous` says how far from minimal a list can be; with `OrderInv` (what is kept stands before
what is to come, the last rule kept after the others) the property is inductive: the last rule kept before a superfluous one
is the stranger, or is itself torn from the family by one.

The part on tokens proves `Freshness` and `OutageTolerance`, for any number of requests and any durations. An answer from the cache is only as
good as the entry, so `TokenInv` bounds it from both sides: `CacheSound` says that the entry's value was that of the database no
longer ago than the entry's age says (also for a write that comes late, because the entry keeps the age of its request), `CacheRecent` that the
entry is no older than the latest write by more than a lookup may take. `AnswerSound` carries what a request has read through its
lookup, while time passes and other requests write.

**AdminApiProofs.** `EnablingIsJudged`: for any requests, a source comes to be enabled without a license only when a request takes the license away, or
when one enables it that has seen a license and does not name one. The
invariant is that a request about to write was accepted on the row it has read (`Judged`), which by then need not be the row
there is.

`TheLogExplains`: the property asks for an order of the log that explains the tables, so the invariant has to say which. `LogInv` carries the order of the
statements as it has been: the tables around each of them (`History`), the entry that each has written or has still to write, with its place in the log (`Placed`), and
that what a handler has read was in some of those tables (`Remembered`). A statement adds to the history, a line of the log fills a place, and
when everything is settled and no line was lost (`unlogged`) the places are a bijection, which is the order that `LogExplains` asks for.
The tables an order leads to are a recursive function of the number of entries; it is never unfolded for a log of any length, only shown
to be the one that satisfies its equation (`AfterIs`, by a least counterexample).

Every safety property that a run checks is a theorem. Only model-checked are those about liveness under fairness, which is beyond the prover: `ClientsCatchUp`,
`CatchesUp`, `WaitingIsTaken`, `ScheduleKept`, `EveryRequestEnds`, `ListsFollowEvidence`, `ListedArrives`, `TransactionsEnd` and
`AnswersSettle`. The theorems about single instances (`FeedIngest`), one ingestor (`L1Merge`) and
mild faults (`SyncConsumer`) have hypotheses where the runs have bounds: each names the case in which the property fails.

## 6. Disagreements

What comments, documents and messages of the repository say and the code does not do, as met while
modelling. Each row ends with a counterexample to the property named. The properties are defined at the end of the modules, after those that hold;
the runs of `PROJECT.json` state what does hold of the same code. Where the first column names
a run, the property takes the place of the run's own (as an INVARIANT, or as a PROPERTY where its definition is an action or
temporal formula); the other configurations are there for the purpose, with an instance of their own. `SnapshotStore_rollback`, on the
other hand, passes: a rollback to a set that is whole keeps `current` whole.

| Instance | Property | What is said | What happens |
|---|---|---|---|
| `SnapshotStore_publish` | `ETagMatchesBody` | the ETag is the hash of the content (docs/API.md) | `serveList` reads the pointer twice; a publication in between puts the ETag of one set on the file of the next. The client keeps both until the list changes again. |
| `SnapshotStore_half_pruned` | `CurrentComplete` | no rollback into a half-made set (`Rollback`) | it looks for the manifest only, which a `Prune` that failed on the way may have left |
| `SnapshotStore_publish` with `Keep` = 1 | `RollbackTargetKept` | "snapshot.keep phải >= 1 để còn bản rollback" | with 1 only `current` remains |
| `SnapshotStore_leftovers` | `BeginClearsLeftovers` | `Begin` clears what a failed build left | it clears the directory of its own, new version; a crashed build's directory stays |
| `SyncConsumer_liveness` | `NothingSkipped` | the checkpoint is written after the event has been applied | an event whose handler fails is pending all the same, and is flushed when the stream closes |
| `SyncConsumer_long_outage` | `NothingSkipped` | outages longer than max_catch_up resume by time | compared at start only; a connected service resumes by id |
| `SyncConsumer_faults` with "disconnect" in `Faults` | `NothingSkipped` | after a recovery by time there is an exact id, so none is needed any more (runner.go:61) | a connection lost during the replay resumes from an id that the stream has dropped, which starts from now without a word (cmd/sync-consumer/main.go:123) |
| `SyncConsumer_first_event` | `NothingSkipped` | every reconnect starts from the last handled id | before the first event there is none, and the stream starts from now |
| `SyncConsumer_recreated` | `ReplayIsHarmless` | writes are idempotent | a deleted indicator leaves no time to compare with, so a replay of its former life is applied to the rows of its new one |
| `SyncConsumer_faults` | `RevocationFinal` | an indicator just revoked must not come back because an old copy overwrites the new one (opencti.go:71) | a merge gives the row the survivor's id, so the replay of the merged indicator's creation finds nothing to be older than and revives the row, until the replay comes to the later events |
| `SyncConsumer_liveness` | `AlwaysCatchesUp` | waiting for the source is retried rather than standing still for ever (`awaitSource`) | the reads after it are not: an error of `resolveLabels` or `StreamState` ends the goroutine (main.go:96, :117), is logged, and the process stays up and healthy |
| `SyncConsumer_shared_domain` | `VetoHeld` | an analyst's veto must not disappear silently | one row per domain and source: a second indicator on the domain overwrites it |
| `SyncConsumer_analysis_only` | `AnalysisOnlyNeverBlocks` | detection=false must not block | an update to it is skipped and the former row stays |
| `TriggerQueue_serve` | `NoDuplicates` | no duplicate requests | check and insert are separate statements |
| `TriggerQueue_serve` | `AlwaysEnds` | works across restarts | nothing takes back a running row of a process that ended |
| `PolicyPipeline_emptied` | `ListsFollowEvidence` | decisions without evidence must go, or they are exported for ever | `writeDecisions` returns before its DELETE when there is no decision at all |
| `PolicyPipeline_torn` | `FromFinishedRuns` | snapshots are built from completed runs | `BlockedRules` does not look at the run |
| `PolicyPipeline_torn` | `FromOneRun` | never half of one run and half of another | one query per category, no transaction |
| `PolicyPipeline_unrecorded` | `ChangesRecorded` | every change of a decision can be explained later | deleted decisions leave no line |
| `PolicyPipeline_follows` | `ProtectedNeverListed` | no tenant and no policy overrides the protected list | a tenant's denylist is appended unchecked |
| `FeedIngest_reverted` | `ListedIsActive` | a list identical to the last one needs no write | "last" is the last import recorded as completed; one that was applied and not recorded is in between |
| `FeedIngest_flapping` | `GraceKept` | a domain missing for less than the grace period stays | unchanged imports do not renew `last_seen` |
| `FeedIngest_instances` | `FailureWritesNothing` | no failure path writes to L0/L1 | a commit whose answer is lost has |
| `FeedIngest_lingers` | `DroppedLeaves` | a domain leaves after its grace period | only an applied list switches off; a feed that stays the same is never applied again |
| `L1Merge_order` | `OpenCTIDomainsActive` | the merge is commutative between the two services | the orphan update decides on an old view, waits for the row, and switches off what the consumer has just committed |
| `PolicyLadder_life` | `VetoUnblocks` | revoking an indicator unblocks its domain | in the indicator's own categories only |
| `TokenCache_outage` | `InvalidateIsFinal` | a revocation counts at once after `Invalidate` (docs/API.md) | a lookup that has seen the token before the revocation writes its answer into the cache afterwards, and it counts for another ttl |
| `DomainLists_tenant` | `Minimal` | the result of `Collapse` is minimal, since the sort puts an ancestor right before what is below it (render.go:57, :68) | "com.example-x" sorts between "com.example" and "com.example.shop"; the latter stays. Only lines are wasted |
| `AdminApi_log` | `WritesLogged` | every write is in the log (auth.go:5, admin.go:188) | the line is a statement of its own, with the context of the request, and its failure is dropped |
| `AdminApi_log` | `LogInOrder` | the log tells who changed what, and from what | of two requests the later one may be logged first, with a former row that was there before both |
| `AdminApi_log` | `EnabledIsLicensed` | a source is not enabled without a license (api.go:165) | a request without "enabled" may set the license to ""; and the check reads the row before the UPDATE does |

## 7. Abstractions, and what is left out

Assumptions of the models, by module:

* **SnapshotStore**: one builder goroutine per process; builds at least a second apart, so stamps are never shared, but
  clocks may step back, so their order is arbitrary. A process crash, no loss of power (no lost directory
  entries). `Rollback` (called by tests only) is one step and runs while no build does, in `RollbackSpec`. Removal of
  a building directory is one step, pruning of a set is not. The manifest URL is not modelled apart from the requests' own reads.
* **SyncConsumer**: an event's place in the log is its id and its time. The stream sends nothing for ids it has dropped and starts from
  now; with a time to recover from it replays everything from then on. The configuration is right: that an origin or a recovery date that is not ends `run` is left out. `max_catch_up` is within the stream's window, as the
  configuration asks. Confidence, valid_until and last_seen are left out; `MergeOpenCTI`'s deletion of rows
  that would collide has no effect, since rows are keyed by domain and source.
* **TriggerQueue**: age limits are a choice (`purged`); the deletion of a source with its requests is left out. `ScheduleKept`
  depends on the requests being finitely many.
* **PolicyPipeline**: what the evidence of a pair amounts to, below the protected list, is one value per pair
  (`PolicyLadder` looks inside). Rule matching is membership; tenants are constant; file format, header and
  attributions are left out.
* **FeedIngest**: one source; a feed is its rules, the number of accepted lines that give them, and a wording that stands for all else in its bytes.
  ETag and Last-Modified identify these, but the server may still answer 200; a truncation is one that Content-Length or the gzip checksum
  detects. Only one ratio (half) is modelled. `Patience` bounds an import. What makes a feed rejected besides its size (bare TLDs, binary data, the ratio of bad
  lines, the number of public suffixes) is one kind of fault. Categories are left out.
* **L1Merge**: PostgreSQL at READ COMMITTED: a row that was waited for is re-read, subqueries keep the old view. Never
  two imports of one feed at once. Deadlocks are cycles of two.
* **PolicyLadder**: days as the unit; strength is trust times confidence; the default action is MONITOR, as in
  `DefaultConfig`, the only configuration used. A list entry covers the domain or not; it ends on a day or never. The rungs for tenants have no caller.

* **TokenCache**: one token, since entries of different tokens do not touch each other. The update of last_used_at is left out: its failure is
  ignored and nothing reads it there. `MaxLookup` bounds a request; without a bound the age of what a slow lookup writes has none either.
* **DomainLists**: `Position` and `Below` stand for the strings. A resolver takes each line for the whole subtree, as Blocky does and as
  the renderer of the format in use writes them. Rules of types other than exact and wildcard do not occur. The tenant subscribes to the
  categories that are built.
* **AdminApi**: of a session what the handlers see, its user and role, read once per request. One source and one allowlist name exist at the start,
  up to three rows later; of a source's columns the two that a judgement depends on, the others take the same COALESCE.
  The OpenCTI source, which may not be purged, is left out.

Not modelled, and why:

* **The parsers, the canonical form of names, public suffixes, the bytes of a file**: functions of one string each, whose difficulty is in
  characters, not in states; the repository tests them with tables.
* **Sessions and accounts**: each operation is one statement on rows that a request reads once, so interleavings amount to
  their order.
* **Migrations**: one advisory lock is held from before the first read to the end; nothing interleaves but what PostgreSQL decides.
* **Bootstrap**: a sequence of upserts, run again after a failure.
* **Service frame, dashboard, deployment**: configuration, counters, probes, static pages and compose files, without state that another part reads.

## 8. Plan

Done, in this order: `AtomicPublish` and `SnapshotStore` with proofs; `OpenCTIStore` and `SyncConsumer`, proved later; `TriggerQueue` with proofs;
`PolicyPipeline` with proofs; `FeedIngest` and `PolicyLadder` with proofs; `L1Merge`, proved later; `TokenCache`, `DomainLists` and `AdminApi`, each with proofs.

Next modules:

1. `Evaluation`: the streaming group-by of `EvaluateAll`, against the decision of every pair by itself.
2. `TriggerQueue` with `PolicyPipeline`: a request merged into a run that has already read its input.
3. The change of a source's categories, which leaves the rows of the former ones.

Next theorems: the lists of `PolicyPipeline` against the ladder of `PolicyLadder` (what `EvaluateAll` takes as one value per pair); the functions of
`OpenCTIStore` on their own, which the replay argument uses (applied twice they are applied once); the rest of what `Explains` asks for when a line is lost.
