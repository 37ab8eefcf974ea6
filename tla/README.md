# Compute Hedge Operator: verification project

TLA+ models of the compute-hedge operator, the TLC runs that check them on small
instances, and TLAPS proofs of their main properties for every instance.

    tlc -workers 2 -config Workload.cfg MCReconciler     # model-check one run
    tlapm ReconcilerProofs.tla                           # check the proofs

`PROJECT.json` lists the components, runs, mutants, findings, hazards and theorems,
and maps every definition that models code to its lines.

## 1. The system

The operator watches `ComputePosition` objects: a hedged block of GPUs with, if the
user opts in, a Deployment to pause while the spot price is above a cap. Every ten
seconds it reads the price and the utilization of each position, computes the
economics of the hedge, flags idle capacity and lists it in a marketplace, pauses
or resumes the Deployment, and writes the status. A console shows the result.

| Component | State | Operations | Talks to |
|---|---|---|---|
| Controller (`internal/controller`, `api/v1alpha1`) | the status of each position: `IdleSince`, `AvailableForSublet`, `Paused`, `OriginalReplicas`, the last price | `Reconcile`: `evaluateIdle`, `handleMarketplace`, `applyOptionalAction`, `writeStatus` | API server through informer caches, feeds, marketplace |
| Hedge economics (`internal/hedge`) | none | `Compute` | called by the controller |
| Price source (`internal/ocpi`) | none; `Stale` looks at the clock | `Price` over HTTP | mock service or Ornn Data |
| Telemetry source (`internal/telemetry`) | none | `Utilization` over HTTP | mock exporter or Prometheus |
| Marketplace publisher (`internal/market`) | `LogPublisher`: the last offer; `HTTPPublisher`: none | `PublishSupply`, `WithdrawSupply` | the marketplace |
| Operator process (`cmd/operator`) | none | starts a manager, without leader election | all of the above |
| Console backend (`cmd/console`, `internal/console`) | last state, rolling histories, previous prices | `Build` every two seconds, `GET /api/state` | API server, price source |
| Console client (`cmd/console/web`) | shown state, missed polls | poll every two seconds | the backend |
| Configuration (`internal/config`) | none | `Load`, mode resolution | environment, `.env` |
| Mock price service (`internal/pricesim`, `cmd/mockocpi`) | price and spike per SKU | `Step`, `Spike`, `Price` | the price source |
| Mock GPU exporter (`cmd/gpuexporter`) | utilization per position, forced or walking | `step`, `control`, `utilization` | the telemetry source |
| Metrics (`internal/metrics`) | gauges, never read back | | |

What is hard. A reconcile is a read, up to two effects (a marketplace call, an
update of a Deployment) and a status write that records them, with no
transaction around them. The read comes from a cache that may be behind; the
status write may conflict, fail or never happen; users and other processes write
in between; the retry starts from the old status. There is no leader election, so
two operators may do all this at once, no finalizer, and nothing that compares
listings or Deployments with the status later. The idle rule depends on a stored
timestamp with a coarser resolution than the clock, and on a band in which it keeps
what it finds.

What makes each part correct:

- controller: the recorded status is enough to undo what the controller did, and
  says what the Deployment and the marketplace are like; nothing is touched without
  opt-in; when the feeds stop moving and faults stop, every position ends up as its
  spec asks;
- idle detection: no flag before the window is over, no flapping, and the
  flag follows the utilization in the end;
- economics: the identity of basis risk, full use locks the target, and the
  effectiveness and the offer stay in range;
- publishers: a flagged position is listed with the offer it was flagged with, the log's one
  offer is that of a flagged position, what is reported as posted is;
- console: one consistent snapshot per poll, bounded histories; a page that ends up with
  the last State, and a badge that is true on the way;
- configuration: live only when it is asked for and can be, and labelled so;
- mock exporter: an override decides what the operator and the dashboard see.

The hazards behind these, each at its line, are in `PROJECT.json`. Some the models contain and no
property catches, because the code does nothing about them and the properties leave them out
by name: two positions that refer to one Deployment (`WorkloadAccounted` counts it as torn), a
flagged position that is deleted (`OffersAccounted` counts its listing as torn), positions of one name
in two namespaces (`SeriesAgree` is about names that are not shared). `PROJECT.json` lists these without a
property.

## 2. Modules

| Module | What it is |
|---|---|
| `IdleRule` | `evaluateIdle` as an operator on the spec, the stored fields and a reading |
| `Reconciler` | the controller with the API server, caches, marketplace, feeds, faults and users |
| `PauseResume` | abstract: what the optional action promises for one Deployment; `Reconciler` implements it |
| `ReconcilerClaims` | what the documentation says of the controller and the code does not do |
| `IdleDetector` | the idle rule on a clock finer than the stored second, for any utilization |
| `GpuExporter` | the mock exporter composed with `IdleDetector`, which the composition implements |
| `Hedge` | the economics |
| `Config` | environment and `.env` to the marketplace's mode, publisher and label, as operators |
| `Publisher` | both marketplace publishers, the marketplace's answers, all positions, restarts; uses `Config` |
| `Console` | the console's poll, its histories and the State it serves |
| `Page` | the browser page that polls the console |
| `ReconcilerProofs` | theorems about `Reconciler`: types, caches, opt-in, what a status has, the bookkeeping of listings |
| `WorkloadProofs` | theorems about `Reconciler`: the bookkeeping of pauses, with the refinement of `PauseResume` |
| `RestProofs` | theorems about `Reconciler`: the idle window that operators share; what has come to rest is as its spec asks and stays so |
| `IdleDetectorProofs` | theorems about `IdleDetector` and the safety part of `GpuExporter`'s refinement |
| `HedgeProofs`, `ConsoleProofs`, `PublisherProofs`, `PageProofs` | theorems about `Hedge`, `Console`, `Publisher` with `Config`, and `Page` |
| `MCReconciler`, `MCIdleDetector`, `MCHedge`, `MCPublisher`, `MCConsole` | the instances TLC checks; `Page.cfg` needs none |

Definitions whose comment calls them mutants are slight changes of the code that the
properties must notice; nothing else uses them.

### Reconciler

One reconcile is a `job[o]` of operator `o` with three steps, each of which touches
one shared thing.

| Code | Model |
|---|---|
| `Reconcile` up to `handleMarketplace`: cached `Get`, `ParseFloat`, `Utilization`, `Price` with its fallback, `evaluateIdle` | `Observe(o, p)` |
| `handleMarketplace`: no flip; a call that succeeds; a call that fails | `KeepOffer`, `FlipOffer`, `MarketplaceError` |
| `applyOptionalAction`: returns before an update; spike; recovery | `NoAction`, `Pause`, `Resume` with `UpdateReplicas` |
| `writeStatus` and `Status().Update`: accepted; conflict or error | `SaveStatus`, `LoseStatus` |
| informer watch | `SyncPosition`, `SyncDeployment` |
| a process that stops anywhere and starts again | `Restart` |
| users, autoscalers, the Deployment controller | `EditPosition`, `DeletePosition`, `CreatePosition`, `ScaleWorkload`, `TouchWorkload` |
| the clock | `Tick` |

- *Versions.* A `resourceVersion` is only ever compared. `posLag` and `depLag` hold
  the cached copies the API server has replaced since, and `job.current` says
  whether the copy a reconcile works on still is the stored one; a write from a copy
  that is behind conflicts. This keeps the state space finite without a bound on
  the number of writes. An update that changes nothing leaves the version, as the
  API server does.
- *Time.* `IdleSince` is an age, capped at `MaxAge`; `Tick` makes every stored,
  cached and working copy older. Ages beyond the largest window are not told apart.
- *Faults* are named in `Disturbances`; each instance says which may happen. A failed
  call on a Deployment or the marketplace may have been carried out.
- *Prices* are mills; the status keeps them rounded to the cent, as `money` does, and
  the fallback price is the rounded one.
- *Histories.* `desired` is the replicas the user last asked for, `opted` the
  Deployments some spec opted in, `torn` and `tornOffers` the Deployments and listings
  whose bookkeeping something broke. Only properties read them. What tears is listed
  at `WorkloadAccounted` and `OffersAccounted`: the properties say that nothing else
  does. Nor is it for ever: a user who scales a Deployment while no pause is recorded or
  under way mends its bookkeeping, a call that succeeds from a current copy that of a
  listing, and from then on the properties hold again.

Abstracted: formatting, events, metrics, the display fields of the status, the
content of an offer. Left out: more than one reconcile at a time within one
operator (`MaxConcurrentReconciles` is its default, one), and a Deployment that does
not exist (a `Get` that fails is `NoAction` under `workloadError`).

### PauseResume

The abstract specification of a Deployment: up with the replicas its user wants, or down
with exactly these noted, moved from one to the other at once; scaled by its user while it
is up; or broken, until its user scales it by hand. `Reconciler` implements it through a mapping of each
Deployment's state (`Bookkeeping`, defined next to `PausesAtOnce`): a torn one is
broken, else wanted and running replicas are what they are, and noted is what the stored
status notes, or, while the reconcile that moved the replicas has not written its status yet,
what its working copy notes. So a pause happens, for the abstract specification, when
the Deployment is scaled, although the status says so only later, and the status write
itself is a stutter.

### IdleDetector and GpuExporter

`Reconcile` is one reconcile whose status write succeeds; failed ones change nothing
and are left to the interleaving. `NowStored` is the age a truncated "now" has at once.
`EditSpec` is a user who edits threshold and window, also while a window runs.
`lowSince` is the age of the first reading, since the last recovered one, that was low
when it was read, and `confirmed` the window the last low reading of a flagged position
found to be over; only properties read the two. `IdleDetector` lets the utilization move
at will.

`GpuExporter` replaces that by the exporter: `Control` is `POST /control`, and the ticker's
goroutine is three steps, since it takes the lock in `step`, takes it again in `snapshot`,
and sets the gauge without it. An override may come between any two. The HTTP handler
rounds what it answers through an `int`, which for an override of NaN is whatever the
build makes of it (`NaNReported`); the gauge gets the value unrounded.
`DetectorServed` is the refinement: the composition implements `FairSpec` of
`IdleDetector` with the identity as the mapping, so the properties of the detection
hold in the demo. `IdleDetector`'s own `MoveUtil` is what `Control` and `Step` implement.

### Hedge

Prices are integer cents, and what the code divides by a hundred is kept multiplied by
a hundred, so the arithmetic is exact; floating-point rounding is not modelled.
`Evaluate` takes any next input, so that `MoreUseLessRisk` may compare two. The effectiveness is
rounded down, where the status rounds it to the nearest percent
(`computeposition_controller.go:255`): `EffectiveUnlessLeaking` is about what `Compute` returns, and
the status can read 100 over a hedge that leaks half a percent or less.

### Config and Publisher

`Config` keeps of a variable what the code tells apart: absent, empty, a word it knows, any
other value. `Publisher` starts each process with one of a set of settings, each the
environment of the process and a `.env` file.

| Code | Model |
|---|---|
| `LoadDotEnv`, `parseMode`, `envBool`, `resolve`, `marketLive`, `BuildMarketPublisher`, `Sources` | the operators of the same names in `Config` |
| a reconcile that sets the flag: `PublishSupply` of either publisher, the event, the status write | `Publish(p)` |
| one that clears it: `WithdrawSupply`, the event, the status write | `Withdraw(p)` |
| the operator starts again, perhaps with another setting | `Restart` |

The marketplace (external) answers with a status, or carries a request out, or not, and the
answer is lost. A quote stands for size and price of an offer. `Reconciler`
interleaves the steps of a reconcile, has several operators, and takes a call for done or
failed; `Publisher` takes the call apart for all positions and makes the reconcile
one step. `unsure` has the positions whose last flip failed, was not recorded, or was made
under a setting with the other kind of publisher; only properties read it.

### Console

| Code | Model |
|---|---|
| `Build`: `List` | `ListPositions`, or `ListFails` |
| the loop over the items: `buildPosition`, `Push`, `statusPrices` | `BuildPosition(p)`, once for each item |
| `Fetch`, `buildPrices` and the pushes of the portfolio | `FetchPrices` |
| `buildEvents`, the end of `Build`, `latest = st` | `Publish` |
| the process starts again | `Restart` |
| users and the operator | `PositionChanges` |

One goroutine does all of this. A poll is a step at each of its three remote calls, and one
for each item of the list, with `draft` for the locals of `Build` in between; what the loop
has not reached yet is `draft.items`. A handler reads `latest` under its lock, so
it sees what `latest` is. A report (SKU and price) stands for all fields of a card, and
for each of its three series; the list of cards stands for the sums over it, so that the
portfolio series remembers what it summed. `SeriesAgree` compares the two kinds of series
with that. A change is kept as the earlier price, before `round2`. The order in which
`List` returns items is any, so the loop takes any next one. Events count as none or some.

### Page

| Code | Model |
|---|---|
| `setInterval` and `fetch`, whatever is under way | `Tick(r)` |
| an answer: `setState`, `setConn`, `misses` and the render, or the `catch` for a body that does not parse | `Arrive(r)` with `Take` |
| the `catch` for anything else: a refused connection, an answer that breaks off or is not a 200 | `Fail(r)` |
| `GET /api/state` of the backend | `Serve(r)` |
| the backend publishes, stops, starts | `Publish`, `Stop`, `Start` |
| the user loads the page again | `Reload` |

Answers and failures arrive in any order, and a request may fail whether the backend is away or
not. A State is its number and what becomes of it in an answer: one with `null` for an array (see
`ClaimEvents`) crashes the render and unmounts the page; one that cannot be encoded is
answered with an empty body, which the page takes for a failure. The latter happens: a hedged price of
`NaN` passes `ParseFloat` in the controller and in the console, `json.Encode` refuses it, and
`cmd/console/main.go:99` discards the error. (`Console` stops at the State; what the encoder makes
of a NaN is in `Page`.)
`requests[r].since` is what was on the page when the poll was sent, for `NoOlderThanAsked`.
A request that nothing answers or refuses stays under way: `fetch` has no timeout.

## 3. Runs

| Run | Properties | What it shows |
|---|---|---|
| `Workload` | `TypeOK`, `CachesSound`, `WorkloadAccounted`, `AdvisoryByDefault`, `ResumeRestoresNoted`, `PausesAtOnce` | One operator pausing and resuming one Deployment through crashes, failed calls, users scaling, editing (also to critical, and to no workload), deleting and creating, and a feed that fails or repeats an old price: what the status says is what the Deployment is, and pause and resume are atomic, except for what is marked torn. |
| `TwoOperators` | `WorkloadAccounted`, `StatusSound`, `OffersAccounted`, `WindowKept` | Two operator processes on the same position, one that acts or one that is flagged, with failing marketplace calls: the version checks keep the bookkeeping of pauses and listings, except where one of them loses its status write; and neither starts the other's idle window anew. |
| `Converge` | `RestConverged`, `StaysAtRest`, `EventuallyConverges` | Once the feeds repeat one answer (missing or failing ones included) and faults stop, the position comes to rest, after any history of lost writes and failed calls; at rest it is paused or resumed, flagged and listed or neither, as its spec asks; and a settled feed never makes it flap or write anything new again. |
| `IdleDetector` | `TypeOK`, `FlaggedAfterWindow`, `ClearedOnlyPastMargin`, `FollowsUtilization`, `DetectorServed`, `DemoForces` | The idle window, with threshold and window edited while it runs, against a clock of thirds of a second and a stored second, fed by the mock exporter with overrides in and out of range and a NaN: the composition implements the detection under any utilization, and an override decides flag and gauge. |
| `Publisher` | `ListedAsQuoted`, `LastIsFlagged`, `LiveEventsTrue`, `WritesOnlyWithConsent` | Three positions, either publisher, a marketplace that refuses or does not answer, lost status writes and restarts under eight settings of environment and .env. |
| `Page` | `BadgeHonest`, `NoOlderThanAsked`, `FollowsBackend` | Three polls under way at once, answered in any order or not at all, by a backend that publishes, stops and starts, may lose a request while it listens, and may serve a State that crashes the render or that it cannot encode. |
| `Hedge` | `BasisRiskIdentity`, `FullUseLocksTarget`, `EffectiveUnlessLeaking`, `OfferFitsBlock`, `MoreUseLessRisk` | The economics on every pair of inputs of a small grid with out of range utilizations and prices of either sign. |
| `Console` | `TypeOK`, `PublishedTellsOneStory`, `SeriesAgree`, `ChangeAgainstShown`, `ShowsTheCluster` | The console through failing lists, prices and events and restarts, while positions appear, change their SKU and disappear between its calls: each State tells one story, series and changes span the polls as they should, and the page catches up. |
| `ClaimNoted` (violated) | `NotedIsWanted` | The replicas noted by a pause are not those to restore when a status write was lost before. |
| `ClaimStale` (violated) | `StaleTakesNoAction` | A stale price scales the workload. |
| `ClaimListed` (violated) | `ListedWhenFlagged` | A crash between the call and the status write leaves a listing that is never withdrawn, although everything works again. |
| `ClaimEvents` (violated) | `EventsServed` | A poll that finds no event, or whose event list fails, is served with null in place of the empty list. |

Bounds. One position and one Deployment show every interaction of one reconcile with
its surroundings, since the controller's code for different positions shares nothing
but the Deployment, and the proofs cover any number of either. Price and
utilization drive separate halves of a reconcile that meet only in the working copy:
`Workload` varies the first, with the specs that decide about a pause, `TwoOperators` and
`Converge` both. Prices
are on both sides of the cap, and the feed may fail; in `Workload` one rounds down to the cap and then lies in the band
where nothing changes, and is old. `Converge` settles on every pair of answers: a price far under
the cap, one just above it that the status keeps rounded to the cap, or a price feed that fails for
good, so that the stored price decides, with a utilization that is low, in the band, recovered, NaN
or missing. It settles between reconciles (`SettlesBetweenReconciles`): before it settles
everything is possible that is possible after, so a reconcile in which it would settle may as
well end first. `TwoOperators` has utilizations below the threshold and past the margin; in
`Workload` it decides nothing and does not vary. `ReplicaCounts` has two values where a
wrong restore must show. `TwoOperators` stops where everything is torn
(`NotTornYet`): nobody scales there, so `torn` only grows and `WorkloadAccounted` says nothing of it; its position
either acts or is flagged, by spec, and where it is only flagged the price is one and the same
(`OneFeedEach`), since it decides nothing there. Its two operators are interchangeable, and so are the
positions and the quotes of `Publisher`: both runs use permutations as symmetry,
which is sound since they check no liveness. `Publisher` has three positions, so that a
third one may disturb the offer of a second, two quotes, and eight settings, one
for each way in which configuration decides. `IdleDetector` has thirds of a second
and windows of one and two seconds, on either side of what truncation loses. Its utilizations are
the exporter's, which answers with integers: that a NaN clears no flag is `ClearedCorrect`'s alone. `Page` has
three requests under way, and `MaxPublished` bounds its States to four: enough for an
answer that is overtaken by two newer ones, and for one more after the backend has restarted.
No other counter is bounded: the state spaces are finite as they are. `Console` has two positions, of which one takes either of two SKUs (`OneKeepsSku`, which only
keeps users from other changes, and nothing is fair about those), a price
source that answers zero (what a body without the field decodes to) or fails, and
series of two samples, so that a series overflows on the third poll and has gaps.

Deadlock is checked in every run; none can stop: there is always a tick, a reload of the
page, a restart, or another evaluation.

## 4. Fairness

`FairSpec` of `Reconciler` is used by the runs of `EventuallyConverges` and of the
documented claims about the end.

- Weak fairness of the three later steps: every call has a timeout or returns, and a
  reconcile that has begun goes on.
- Strong fairness of `Observe(o, p)`: the workqueue serves every key again
  (`RequeueAfter`, `Requeue` after a conflict, back-off after an error) and alternates
  between keys, but a key is not ready all the time.
- Weak fairness of the watches and of the clock.
- None of faults, users or `Settle`. After `Settle` the feeds repeat one answer, which
  may be a failure, and nothing disturbs any more; `EventuallyConverges` speaks of
  that.

`Spec` of `Console` has weak fairness of the three calls of a poll and of the loop between
them: the ticker goes on and each call ends within five seconds. For `ListPositions` this says that the API server does
not fail every `List`; prices and events may fail for ever.

`FairSpec` of `IdleDetector` has weak fairness of `Reconcile` (the requeue) and `Tick`.
`DemoSpec` has the same, and of the exporter's ticker; none of `Control` or `EditSpec`.

`Spec` of `Page` has weak fairness of the interval, of a backend that answers while it
listens, of answers that arrive, and of requests that are refused while nothing listens. None
of `Publish`, `Start` or `Reload`, and none of requests that fail while the backend listens.
`FollowsBackend` has its premises spelled out: it promises nothing to a page that keeps losing such
requests, and says LIVE only over a last State that can be encoded, RECONNECTING over one that
cannot. A backend that listens and hangs is not covered by
`FollowsBackend`: the page keeps its badge, since nothing times out.

`Publisher` and `Hedge` are checked for safety only.

## 5. Findings

The runs named `Claim...` each check a sentence of a document or a comment that the
code does not live up to, and TLC finds a counterexample; `PROJECT.json` quotes the
lines.

- `ClaimNoted`: the Deployment is scaled before the pause is recorded. When the status
  write is lost, the retry finds zero replicas and notes zero. If the price has fallen
  by then, the position reads as not paused and the workload stays down for good.
- `ClaimListed`: the same order for the marketplace. A call whose status write is lost is
  not undone, and one that failed is not repeated, since the flag does not flip again.
- `ClaimStale`: a stale price pauses and resumes like a fresh one; only the
  recommendation says that no action was taken.
- `ClaimEvents`: without events, or when their list fails, the console serves `null` where
  the page's types say array. The page takes its length while rendering; nothing catches
  that, so React removes the page. A State without positions, or one served before a
  first successful poll, does the same with `positions`.

Seen while modelling, and no run's subject: one sample above the cap pauses a workload,
where `computeposition_types.go:13` says sustained; a reconcile that read a position
before it became critical still pauses it; a low reading, a window spent in the band
between threshold and margin, and another low reading flag a position, where
`computeposition_types.go:40` says utilization must stay low; `.env.example:9` says of a mode
of live "always the real integration (fails loudly if misconfigured)", while a marketplace
mode of live without the flag or the URL silently is the mock; the console labels the
marketplace by its own environment, not the operator's; `market.go:7` asks for a URL, credentials and
the write flag before the live publisher is chosen, while `config.go:105` does not look at the
credentials; `state.go:178` says that fetched prices enrich the mock demo with SKUs that have no
position, and `prices.go:18` has `HTTPPrices` for it, but `cmd/console/main.go:55` wires
`SourcePrices` in every mode, which asks for the positions' SKUs only, so the ticker never shows
another; a hedged price of `NaN`, which nothing rejects, makes the console answer every poll with an
empty 200 and the page say RECONNECTING (see `Page`).

## 6. Proofs

TLAPS checks these theorems for every value of the constants, that is for any number
of operators, positions and Deployments, any specs, feeds and faults. They use the
named assumptions of the modules and nothing else: `ReconcilerAssumption` (types of the
constants, windows within `MaxAge`), `SentinelAssumption` and `IdleRuleAssumption` (model
values differ from what they stand in for), `IdleDetectorAssumption` (windows are whole
seconds within `MaxAge`), `GpuExporterAssumption` (0 and 100 are percents of the walk, and
a NaN is reported as some integer), `HedgeAssumption` (blocks of at least one GPU),
`ConsoleAssumption` (series of at least one sample), `ConfigAssumption` and
`PublisherAssumption` (model values again, and settings are settings), `PageAssumption` (at
least one State). TLC evaluates each of them.

| Theorem | States | Strengthening it needs |
|---|---|---|
| `TypeCorrect`, `CachesCorrect` | `TypeOK`, `CachesSound` | `TypeInv`: both, and `StepsInOrder` |
| `Advisory` | `AdvisoryByDefault` | `OptInKnown` |
| `StatusCorrect` | `StatusSound` | none |
| `OffersCorrect` | `OffersAccounted` | `FailedTorn` |
| `WorkloadCorrect` | `WorkloadAccounted` | `NotShared`, `MovesRecorded`, `NotedWanted`, `SameAccounted` |
| `ResumeCorrect` | `ResumeRestoresNoted` | the same and `FlipRecorded` |
| `PausesCorrect` | `PausesAtOnce`: `Reconciler` implements `PauseResume` | the same and `UpOrDown` |
| `WindowCorrect` | `WindowKept` | `WindowsSound` |
| `RestStays` | `StaysAtRest` | `RoundedSpots` |
| `RestIsConverged` | `RestConverged` | `WorkloadInv` and `OffersAccounted` |
| `DetectorTypes` | `TypeOK` of `IdleDetector` | none |
| `FlaggedCorrect` | `FlaggedAfterWindow` | `Faithful` |
| `ClearedCorrect` | `ClearedOnlyPastMargin` | `FlaggedLong` |
| `DemoImplements` | the safety part of `DetectorServed`: `GpuExporter` implements `IdleDetector` | `ExporterInv` |
| `BasisRiskCorrect`, `FullUseCorrect`, `OfferCorrect`, `EffectivenessCorrect`, `MoreUseCorrect` | the properties of `Hedge` | `Evaluated` |
| `TypeCorrect` of `ConsoleProofs` | `TypeOK` of `Console` | none |
| `StoryCorrect` | `PublishedTellsOneStory` | `Building` |
| `SeriesCorrect` | `SeriesAgree` | `SeriesInv`, and `Building` |
| `ChangeCorrect` | `ChangeAgainstShown` | `Remembered` |
| `ListedAsQuotedAlways`, `LastIsFlaggedAlways`, `LiveEventsTrueAlways` | `ListedAsQuoted`, `LastIsFlagged`, `LiveEventsTrue` | all three together, and `LastOnlyLogged` |
| `ConsentAlways` | `WritesOnlyWithConsent` | `TypeOK` |
| `BadgeCorrect`, `NeverOlderThanAsked` | `BadgeHonest`, `NoOlderThanAsked` | `InStep` |

*`TypeInv`* comes first, everything about `Reconciler` rests on it. A status write sends a
copy that is current, and only because such a copy agrees with the stored object
(`CachesSound`) is what it writes a well-formed object. `StepsInOrder` says that a
reconcile calls the marketplace exactly when the flag flips, and updates a
Deployment only for an eligible spec, hence one with a reference.

*`AdvisoryByDefault`* is about stored specs, while a reconcile works from a cached one.
`OptInKnown` closes the gap: what any stored, cached or working copy opts in is in
`opted`.

*`OffersAccounted`.* Two operators may call the marketplace for one position. What rules
out a contradiction is that only a call from a copy that still is current counts, and two
current copies agree on the stored flag, so they flip it the same way (`CachesSound`,
`StepsInOrder`); the first status write makes the other conflict, which tears the position.
A failed call tears it too, and a later clean flip mends it. `FailedTorn`: while a reconcile
whose call failed may still write its status, the position is torn, or the reconcile that
mended it is still there; then whichever of the two writes first tears it again, since the
other was to record a call.

*`WorkloadAccounted`* is not inductive for three reasons, each with its part. Two positions
could share the Deployment (`NotShared`: then it is torn). An operator in the middle
could hold an outdated copy, or be about to record what is stored already
(`MovesRecorded`: one that moved the replicas has a current copy and flips the stored
pause). And while somebody resumes, the stored status is not what the replicas are like,
yet another operator may already read it: `NotedWanted` keeps the noted replicas equal
to the wanted ones all along, so a second resume changes nothing; `SameAccounted` says
that an update that changed nothing may be recorded. The central lemma,
`CurrentUpdate`, shows that an update from a current copy that does change the replicas is
the only one under way. `RestoreStep` then shows what a status write may do to
a recorded pause.

*`PausesAtOnce`.* The refinement mapping reads what is noted from the stored status, or
from the working copy of whoever has moved the replicas. `UpOrDown` is
`WorkloadAccounted` seen through it: a Deployment that is not torn is up, or down with exactly
one number noted, the wanted one (`WorkloadShape`). Only `ScaleWorkload` mends what is torn
or changes what is wanted (`TornStays`), and leaves a Deployment that is up
(`ScaledUp`); so a step between two such states is a pause, a resume, a user's scaling or
repair, a break, or a stutter.

*`WindowKept`.* `WindowsSound` is what a reconcile with a current copy may be about to store:
the stored start of the window, none, or a new one where none is stored; and the flag, where
it is new, only over the stored start, old enough under the stored spec. It holds from the read
(`EvaluateIdleWindow`) on: any write of the position makes the other copies outdated, an
outdated copy is not stored, and both ends age together (`WindowOlder`).

*`StaysAtRest`*: once the feeds repeat one answer, a copy at rest asks for nothing
(`Rests`), whether it is the stored one, a cached one that is behind or one under way.
`RestNext` has a case for each action: what is read again gives the same flag and no update
(`ObservedRests`), which is where hysteresis and the margin of the resume count; what is
written at last, by whichever operator, is a status at rest (`JobRestsKept`); growing older
ends no rest (`RestsOlder`). The strengthening is `RoundedSpots`: while the price feed fails,
the stored price is read, decided on and stored again, rounded each time, so it must be a
fixed point of the rounding (`MoneyRounded`), or a price at the edge could be paused by one
reconcile and looked at anew by the next. `RestIsConverged` adds what the bookkeeping says:
at rest no reconcile has moved or called anything it is still to record, so
`WorkloadAccounted` and `OffersAccounted` speak of the stored status itself.

*`FlaggedAfterWindow`.* `Faithful`: the stored age is ahead of the age of the first low
reading by less than a second. It holds also when both have reached `MaxAge`, because
windows are not longer than that. `ClearedOnlyPastMargin` needs that a flagged position
keeps a start at least as long ago as the last window a low reading confirmed
(`FlaggedLong`): else the next low reading would clear it. An edit moves the threshold and the
window, and neither the start nor what was confirmed.

*`DemoImplements`.* An override is a percent, none, or a NaN (`OverrideIsPercent`), so
whatever the exporter does, it answers with a utilization (`ReportedIsUtil`) and touches
nothing of the detection: its steps are `MoveUtil` or stutters (`ExporterMoves`).

*`Hedge`.* All five follow from the formulas of `Compute`; the lemmas `Quotient` and
`QuotientGrows` state what rounding a quotient down preserves.

*`PublishedTellsOneStory`* is about the end of a poll. `Building` says what holds in the
loop: every card built so far ends its series, has its SKU in `statusPrices` if it has a
price, no card is both built and still an item, and after the fetch the draft tells one
story. `PushFacts` states once what a push does to a series at its cap.

*`SeriesAgree`* compares a series of one position with that of the portfolio, both of which
lose samples at their cap. `SeriesInv` says it of the builder's series: between polls of
both as they are, in the loop, for a position already pushed, of the portfolio as the poll will
leave it (`Told`). It is carried over a push
by lemmas on `EndsWithReports` alone: samples or lists cut off at the front do not matter
(`EndsKeptSamples`, `EndsKeptLists`), a report added to both keeps it (`EndsPushed`), and a
list without the position counts for nothing (`EndsUnlisted`).

*`ChangeAgainstShown`* relates what is served to what was served before, while the builder
measures against `prevPrices`. `Remembered` ties them together: between polls the builder
remembers the prices on show, and between the fetch and the publication those about to
be shown. `TickerFacts` says what `buildPrices` makes of any prices.

*`Publisher`.* The three invariants are proved together: an event is true because the listing
of its position is what the flip left, and the log's slot is untouched under the live
publisher because it is empty there (`LastOnlyLogged`). `Served` states what either
publisher may return and leave behind; `PublishServes` and `WithdrawServes` show that each
does, so `FlipKeeps` need not tell them apart. `ConsentAlways` unfolds the two gates down
to what the environment and the file say.

*`Page`.* `InStep`: what an answer under way carries was published no earlier than what was on
the page when its poll was sent. It rests on the backend serving only its last State.

Only model-checked: liveness (`EventuallyConverges`, `FollowsUtilization`, `DemoForces`,
`ShowsTheCluster`, `FollowsBackend`, and of `DetectorServed` the fairness), because the
prover has no rule for fairness and `ENABLED`. Of `EventuallyConverges` what is left to TLC
is that a settled operator comes to rest; that it then stays there and has converged is
`RestStays` and `RestIsConverged`. The claims of section 5 are refuted by TLC, which is all
there is to them. Every invariant and every action property of a passing run is proved.

## 7. Not modelled, and the plan

Not modelled, and not planned:

- the mock price service (`pricesim`, `mockocpi`): a demo double whose walk and decaying
  spikes are floating-point noise; `Reconciler` and `Console` already take any price at any
  call, which is more than it can answer;
- the HTTP clients of prices and telemetry beyond what they may answer: they keep no
  state, what remains is the decoding of JSON;
- of the configuration, the choice of price and telemetry source: it follows the same
  `resolve`, and the models take any answer of whichever source;
- Prometheus gauges, which nothing reads back; React components that only render;
  manifests, scripts and generated code.

Planned, in this order:

1. for the other liveness properties the same split as for `EventuallyConverges`: what holds
   in the end, once reached, stays, as a theorem;
2. a theorem that what `Publisher` does for one position is what `Reconciler` takes a
   marketplace call for.
