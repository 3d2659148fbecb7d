# eigenwallet-admin: a verification project in TLA+

`eigenwallet-admin` is the admin console of an ASB, an automated market maker
for BTC-to-XMR atomic swaps that runs as a Kubernetes Deployment. One Rust
process (axum + Leptos) serves the operator's pages, rewrites the market
maker's configuration, scans competitors, and mirrors swaps, balances and
prices into Postgres. These modules model what the console does to that shared
state, one TLA+ action per stretch of code between two `await`s, and say what
it guarantees and what it does not. Paths are relative to the directory that
holds `tla/` and `src/`; `maker.rs:191` abbreviates
`src/src/server/api/maker.rs`, line 191.

## 1. Inventory

### 1.1 Components, their state and operations

| Component | State | Operations |
|---|---|---|
| Maker controls (`server/api/maker.rs`, server functions in `pages/overview.rs`, `pages/spread.rs`) | `config.toml` in the asb-config ConfigMap, the Deployment's `config-version` annotation, table `maker_config_history` | `read_config`, `write_config`, `get_pause_state`, `pause`, `resume` |
| Kubernetes client (`server/kube_client.rs`) | none | forced server-side apply of the ConfigMap, merge patch of the annotation, Job creation, Job logs |
| Spread optimizer (`server/api/spread_optimizer.rs`, `server/pollers/spread_optimizer.rs`) | tables `spread_optimizer_config`, `spread_recommendations` | `recommend`, `save_recommendation`, `apply_recommendation`, the 15-minute `run_once` |
| Tier recommendation (`server/api/spread.rs`, `server/api/market.rs`) | none | `recommend`, `position` |
| Competitor scans (`server/api/competitors.rs`, `server/pollers/competitor_scan.rs`) | tables `competitor_scans`, `competitor_quotes`, Kubernetes Jobs | `trigger`, the spawned `await_scan`, `latest` |
| Swap mirror (`server/pollers/swap_sync.rs`, `server/api/swaps.rs`) | table `swaps` | `upsert` every 15 s, fill-in of the profit columns, `list` |
| Prices (`server/clients/cex.rs`, `server/pollers/cex_prices.rs`, `server/pollers/kraken_backfill.rs`, `server/clients/kraken_ohlc.rs`) | `CexCache`, table `cex_prices` | `fetch_all`, cache, `persist`, one-shot backfill |
| Balances (`server/pollers/balance_snapshot.rs`, `server/pollers/snapshot_backfill.rs`, `server/clients/kraken_private.rs`) | table `balance_snapshots` | `snapshot_once` every 5 min, one-shot reconstruction by rewinding events |
| Accounting (`server/api/charts.rs`, `server/api/roi.rs`, `server/api/capital.rs`) | table `capital_events` | account value, attribution, ROI, capital events |
| Health (`server/api/health.rs`, `clients/asb.rs`, `clients/electrs.rs`, `clients/monerod.rs`, `pages/overview.rs`) | none | one check per dependency, worst-of aggregation |
| Release check (`server/api/version.rs`) | in-memory cache of the latest release | `fetch`, `cached_or_fetch_latest`, `compare_versions` |
| Wallet rules (`server/wallet_rules.rs`) | in-memory rule set | `refresh`, `classify` |
| Login (`server/auth.rs`, `bin/seed_admin.rs`, `server/mod.rs`) | table `admin_credentials`, in-memory sessions | `verify_password`, `set_password`, `auth_gate` |
| Pages and charts (`pages/`, `components/`, `app.rs`) | browser state | rendering |

### 1.2 Interaction

* Every operation is an async function on one tokio runtime. Handlers of HTTP
  requests and the pollers started by `pollers::spawn_all` interleave at every
  `await`; there is no lock and no transaction that spans two awaits. A handler
  whose client goes away is dropped at its current await.
* Operations meet in Postgres, in the Kubernetes API and in asb's RPC. The
  ConfigMap is written without a `resourceVersion`: the last writer wins.
* asb reads its configuration when it starts. The console makes it restart by
  writing a new value (the time in whole seconds) into an annotation of the pod
  template.
* The optimizer calls the maker controls (`read_config`, `write_config`), the
  competitor scans (`latest`), asb (`get_current_quote`, `get_swaps`) and the
  price cache.

### 1.3 What is hard

Check-then-act over several awaits (pause, resume, optimizer), writes in three
places without a transaction (ConfigMap, annotation, history), failures of any
of these turned into a default (`unwrap_or(false)`, `unwrap_or_default()`),
values computed once from whatever price is nearest at that moment, watchers
that live only in memory, and read models composed from several queries.
`PROJECT.json`, "hazards", lists each at its line.

### 1.4 What correctness means, per component

* Maker controls: resume brings back what pause set aside; a maker reported as
  paused is off the market; asb ends up running the ConfigMap; every
  configuration that was in force is in the audit trail.
* Optimizer: recommendations head for the configured bounds by a step at most,
  applies stay within them, no two automatic ones within the cooldown, none of
  a maker that was paused before.
* Competitor scans: a scan ends, once; the latest results shown are the latest
  ones obtained.
* Swap mirror: state, completion and profit of a row agree with each other and
  with asb; a profit uses a price of the time of the swap.
* Prices: they come back after an outage.
* Balances: a live row shows no coin twice; the reconstructed history meets what
  the wallet held, and none of it is lost.
* Accounting: what is attributed to trades is what they brought; what the pages
  join of several answers belongs together.
* Health: an unreachable dependency is reported as such.
* Wallet rules, release check: a failed refresh keeps the last good value, and
  a newer one is taken over.
* Login: after the password is set, it and no other is accepted.
* Connection pool: no connection is lost, and every call ends.

## 2. Plan

The modules in the order of importance in which they were written; all are in
place.

1. **Maker controls** (`Maker`, `MakerAtomic`, `MakerRefinement`,
   `MakerProofs`): every handler that rewrites asb's configuration, their
   interleavings and failures, and the atomic specification they implement.
2. **Spread optimizer** (`SpreadOptimizer`, `SpreadOptimizerProofs`): the
   formula, the clamp and the step cap, over sequences of applies.
3. **Competitor scans and the advice drawn from them** (`Competitors`,
   `TierRecommendation`, `CompetitorsProofs`): Jobs, watchers, overlapping
   scans, restarts; the recommendation as a pure function of the latest scan.
4. **Swap mirror and price history** (`SwapMirror`, `SwapMirrorProofs`): the
   sync, the profit columns, the live samples and the one-shot backfill, in any
   order at start-up.
5. **Balances** (`Balances`, `BalancesProofs`): the live snapshot and the
   reconstruction by rewinding, which is to agree with a forward ledger, and to
   lose no history through the guess whether it was done.
6. **Accounting** (`Accounting`, `AccountingProofs`): attribution against the
   gains of each step, and the answers that the pages join.
7. **Services** (`ConnectionPool`, `Health`, `Login`, `Releases`, `WalletRules`,
   `Prices`, `ConsoleProofs`): what runs beside the maker, composed with 5 and 6
   in `MCConsole`.

`SumLemmas` has the lemmas about sums over finite sets and about the order of
their elements that the proofs of 5, 6 and 7 cite.

What could be added with this method: the sessions of tower-sessions once the
console keeps them somewhere that survives a restart, the classification of
addresses once something uses it, and the log tail once it has a behaviour.

## 3. Modules

### 3.1 Maker

`Maker` models an invocation of a handler as a record `req[r]` with a program
counter; each stretch of code between two awaits is an action named for what
it does.

| In the model | In the code |
|---|---|
| `cm` | `data["config.toml"]` of the asb-config ConfigMap, reduced to `ask_spread` and `max_buy_btc` |
| `annotation` | the Deployment's config-version annotation, a time in whole seconds (`maker.rs:119-122`) |
| `rolling`, `rolledAt`, `running` | asb: down, second of the last roll-out, configuration read at its start |
| `history` | `maker_config_history`, oldest row first |
| `lastApplied` | the newest `spread_recommendations.applied_at` |
| `req[r].prev`, `.new` | the locals `previous_toml` and `new_toml` of the handler |
| `req[r].wroteAt`, `.seen` | history variables: the second of its ConfigMap write; the number of audit rows when a tick asked for the pause state |
| `PauseCheck`, `ResumeLoad`, `ResumeCheck` | the queries at the head of `pause` and `resume` |
| `TickCheckPaused` ... `TickInFlight` | the early returns of the optimizer's `run_once`, in their order |
| `ReadConfig`, `ReadCm`, `WriteCm`, `Bump`, `InsertHistory`, `MarkApplied` | the awaits of `write_config` and `apply_recommendation`, which `pause` and `resume` repeat |
| `Abort` | an awaited call that fails, a client that disconnects, a crash of the console |
| `StartPod`, `PodRestarts`, `SwapStarts`, `SwapCompletes`, `Elapse` | Kubernetes, asb and the clock, external |

Left out of `Maker`: the other keys of the TOML (each is handled as the two
that are modelled), the parsing of decimals, and the preview texts.

`MakerAtomic` is what the controls promise if every operation were one step:
pause sets the configuration aside, resume brings exactly it back.
`MakerRefinement` maps `Maker` to it: an operation takes effect when its
`maker_config_history` row is inserted.

### 3.2 SpreadOptimizer

`SpreadOptimizer` has `recommend` as operators over integers in basis points
(the code rounds to four decimals, half to even: `RoundedQuotient`), and the
cycle around it.

| In the model | In the code |
|---|---|
| `cfg`, `market` | `spread_optimizer_config`, any numbers; what `recommend` reads about swaps, prices and rivals |
| `ask`, `up` | `ask_spread` in the ConfigMap; whether asb answers |
| `priced` | whether the price cache has a mid |
| `held` | the recommendation that `run_once` has saved and not yet decided on |
| `Currents` | asb's quote against the console's mid: `ask` and the difference of the two prices (`Drifts`), or 0 when quote or mid is missing |
| `TickRecommend` | the first half of `run_once` |
| `TickSkip`, `TickDefer`, `TickApply` | its second half: too small a change, the cooldown or a swap, or the apply of the row it holds |
| `ManualApply` | "Apply now", at any moment |
| `SaveConfig`, `AsbComesUp`, `AsbGoesDown`, `MarketChanges`, `PricesComeAndGo` | the form, asb, the market, the price cache |

asb quotes by its own price, not by the console's mid, so that the current
spread that `recommend` measures its step from is not `ask_spread`
(`spread_optimizer.rs:209-218`). `MaxDrift` bounds the difference.
`QuotesMissed` says whether a recommendation may be asked for while asb is down.
The floating point volatility estimate enters as a number of the market.

### 3.3 TierRecommendation and Competitors

`TierRecommendation` has the recommendation of `spread.rs` as operators over
spreads in hundredths of a percent; a scan is a function from reachable peers
to spreads, and `Tier1`, the third smallest of a sorted list in the code, is
the value with fewer than three rows below it and at least three up to it.
`Competitors` has a scan per number: its row, its Kubernetes Job, and the task
that watches it.

| In the model | In the code |
|---|---|
| `started`, `completed` | rows of `competitor_scans`; `completed` lists those with a `completed_at`, in its order |
| `quotes` | rows of `competitor_quotes` |
| `job`, `output` | the Job and what `list-sellers` printed, external |
| `watcher`, `polls`, `logs` | the spawned `await_scan`: where it is (`"gave_up"` after its last poll), its loop counter, its local |
| `Trigger`, `CreateJob` | `trigger`, before and after its first await |
| `PollAgain`, `ReadLogs`, `Persist`, `Complete` | the awaits of `await_scan` |
| `CallFails`, `Crash` | an error that ends the task; a restart that ends all |
| `Latest`, `Offers`, `WithUs` | `latest` |

### 3.4 SwapMirror

Prices are identified with the time they were sampled at, so that "which price
did this profit use" can be asked of a state. Time goes by the hour; candles
lie on full hours, everything else between two. The start date of an `Undated`
swap does not parse, and each sync takes its own time for it.

| In the model | In the code |
|---|---|
| `asb` | what `get_swaps` would answer, external |
| `rows` | table `swaps`; `profit` is the rule and the sample behind `profit_usd` |
| `samples` | `sampled_at` of the rows of `cex_prices` that have prices |
| `sync` | the sync task and the entries of its current cycle still to store |
| `SyncFetch`, `Upsert`, `SyncPrice` | `get_swaps`, one statement per entry, the statement that fills in profits |
| `BackfillStart`, `BackfillFetch`, `BackfillInsert` | `run_once` of the Kraken backfill: gate, candles, insert |
| `SyncFails`, `BackfillFails`, `Restart` | a failing statement or call, possibly after a part was stored; a restart |
| `ShownAt` | the profit column of `api/swaps.rs` |

### 3.5 Balances

Time goes by the hour: events and live rows lie at odd times, full hours are
even. A swap brings one bitcoin and costs two monero, other movements are of one
coin, or of a dollar at Kraken. A recycle takes bitcoin from the wallet, is
credited, sold, turned into monero and sent at Kraken, and arrives at the
wallet; each transfer is on its way for an hour or more (`docs/RECYCLE.md`).
What the operator owns at a time is computed forward from `asb`, `moves` and
`account` (`WalletAt`, `ExchangeAt`, `TransitAt`); the code computes it backward.

| In the model | In the code |
|---|---|
| `asb`, `moves`, `account` | asb's swaps, other movements, steps of recycles at Kraken, external |
| `swaps`, `capital` | the completed rows of `swaps`; `capital_events` |
| `rows` | `balance_snapshots` by `taken_at`; a row is live or reconstructed |
| `recon` | the reconstruction: where it is, its locals `timeline`, `prices`, `btc`, `earliest`, and the rows still to insert |
| `LiveSnapshot` | `snapshot_once`: three balances asked for concurrently, each of which may or may not know a movement of the hour; a failed Kraken counts as empty; the row holds Kraken's dollars too |
| `ReconSwaps` ... `ReconInsert` | the awaits of `snapshot_backfill::run_once` in their order, the insert a chunk at a time |
| `ReconGate` | the count of rows before the earliest event plus an hour, from which the code concludes that the reconstruction was done |
| `Record`, `Mirror` | the operator enters a capital event; the sync of `SwapMirror` |
| `ReconFails`, `Restart` | a statement or call that fails; a restart, after which the reconstruction starts again |

### 3.6 Accounting

The rows of `balance_snapshots` are arbitrary here (any function from times to
values), so that a property holds of whatever `Balances` wrote. Two pages ask:
the overview chart (value series, capital markers, attribution) and the
lifetime tile of the ROI page; each of their queries sees the tables of its own
moment.

| In the model | In the code |
|---|---|
| `snapshots`, `events` | `balance_snapshots`, `capital_events` |
| `page` | which page it is, where its queries are, and their answers |
| `WriteRow`, `AddEvent` | the poller, the reconstruction and the capital form, which write between two queries |
| `ReadSeries`, `ReadMarkers`, `LifetimeEvents`, `LifetimeCurrent`, `ReadSnapshots`, `ReadCapital` | the queries of `charts.rs` and `roi.rs` |
| `attribution` | the cumulative market, trade and capital series of `charts.rs` |
| `Readout`, `AlignedPnl` | what the chart shows at the cursor, joining two answers by position (`components/chart.rs`) |
| `Cards`, `LifetimePnl` | the attribution cards; the lifetime tile |

### 3.7 The services

| Module | State | Actions and the code they are |
|---|---|---|
| `ConnectionPool` | connections in the pool, the stage of each caller | `Call`, `Checkout`, `Finish`: any handler; `ApplyConfig`, `WriteHistory`, `MarkApplied`: `apply_recommendation`, which keeps its connection while `write_config` takes a second one; `Timeout`: the pool's wait ends; `CallEnds`: a failure or a client that is gone |
| `Login` | rows of `admin_credentials`, what each process that sets the password has seen | `LookForRow`, `StorePassword`, `SettingFails`: `set_password` and `seed_admin`, which look and write in two statements; `verify_password` as the set of answers that a query without an order may give |
| `Health` | the condition of each dependency, the verdicts so far | `Check`: the eight checks of `health.rs` one after the other; `Change`: the world meanwhile; `Worst`: the tile. `met` is a history variable: the conditions since the fetch began |
| `Releases` | tags on GitHub, the cache, each request | `ReadCurrent`, `ReadCache`, `FetchLatest`, `FetchFails`, `StoreLatest`: the awaits of `version.rs::fetch`; `compare_versions` |
| `WalletRules` | the ConfigMap, the refreshing task, the cached registry | `load_rules`, `StoreRules`: the two halves of `refresh`; `Edit`: the operator |
| `Prices` | what both exchanges answer, the loop, the cache | `AskKraken`, `AskKucoin`, `CacheFetch`, `StoreRow`: one round of `cex_prices.rs::run`; `Panics`: the division in `cex.rs:67` |

`MCConsole` composes 3.5 to 3.7 by extending their modules. These components call none of each other and
write no state in common except `balance_snapshots`, whose rows `Accounting`
takes as arbitrary; their interleavings could not break a property of any of
them. A behaviour of the composition is therefore of one of them, its `scene`,
in which the others rest in an initial state.

The maker's handlers, the optimizer's numbers, the scans and the mirror are not
composed further: `Maker` has the optimizer's steps with its number abstracted,
`SpreadOptimizer` has the number with the steps of `Maker` abstracted to an
apply, and the optimizer's use of a scan is one read of a row that `Competitors`
shows to be whole.

## 4. Runs

`maker_*` runs instantiate `MCMaker`, `opt_*` `MCSpreadOptimizer`,
`competitors_*` `MCCompetitors`, `mirror_*` `MCSwapMirror`, `console` `MCConsole`.

| Run | Shows |
|---|---|
| `maker_overlap` | with three overlapping pauses, resumes and edits, each possibly cut short at any await, and asb restarting by itself, a stale asb and every ConfigMap content stay accounted for (for ticks and applies the theorems say so) |
| `maker_serial` | handlers one after the other, without faults, implement `MakerAtomic`; pause and resume alternate, resume restores a live configuration; asb settles on the last ConfigMap and a lasting pause empties the wallet |
| `maker_auto` | overlapping ticks, applies, pauses and resumes, each possibly cut short at any await, keep automatic writes a cooldown apart unless the earlier one was cut short before its mark, and a tick leaves a pause alone that was in force before it |
| `opt_market` | a quote that differs from the mid by up to the step, a moving market and "Apply now" at any moment, also between a tick's recommendation and its apply: `ask_spread` stays in its band |
| `opt_config` | with configurations saved at any moment, missing prices, asb down at times and a drifting quote, every recommendation heads for the band, and once configuration and prices stay and asb answers the applies end at the clamped formula, up to noise floor and drift |
| `competitors_scans` | two overlapping scans with API and database faults and restarts: what is shown is whole, no Job is watched for ever, one that ends before its watcher gives up ends in a completed scan unless a fault takes the watcher, and the advice enters the tier and is stable |
| `mirror_steady` | while the console samples every hour, two swaps of any length, one of them without a readable date, failing cycles, restarts and backfills: stored profits fit the outcome and the hour, and every ended swap gets its profit |
| `console` | the reconstruction agrees with the forward ledger and loses no history; no live row counts a coin of a recycle twice or misses more than is on its way; attribution, chart and lifetime tile agree with each other whatever is written between their queries; the pool's callers get stuck only where two connections are needed, and not for ever; the health tile neither misses a lasting outage nor invents one; a shown release and an offered update are recent; a password set alone decides; rules and prices follow their sources after failures |

Runs that are expected to fail, each the shortest behaviour of a disagreement
between the code and what it says of itself (the quotations are in
`PROJECT.json`, "findings"; section 7 has the disagreements without a run):

| Run | Disagreement |
|---|---|
| `maker_retried_pause` | a pause that fails between the ConfigMap write and its row, retried, stashes the off-market configuration; resume then restores that |
| `maker_pause_undone` | an optimizer tick that checked before a pause overwrites it |
| `opt_rolling` | an apply recommended while asb is down takes the current spread for 0 and writes a spread below `min_spread` |
| `mirror_first_start` | at the first start old swaps are priced with a sample of now, and the backfill made for them comes too late |

`AskInBand` and `ResumeRestoresLive` are in passing and in failing runs: they
hold where the conditions of their theorems (5) hold, and the failing runs show
a condition to be needed.

### 4.1 Bounds

`Requests` bounds the invocations (2 or 3): a race needs two handlers, and a
third sees what they left; resume after two pauses needs three. `MaxClock`
bounds the seconds (3 or 4): a stamp is shared by two patches of one second,
a pod needs one more second to start, and a cooldown of 2 can be respected and
missed. Handlers arrive only before the last second and time reaches it only
when none is in progress, so that the bound cuts none short. One other spread
than the initial one tells a lost edit. In `SpreadOptimizer`, the sample of
markets makes each of the floor, the sum of terms, the clamp and the step cap
decide. `opt_market` starts inside the band, as its property needs, with drifts
of up to the step on both sides; `opt_config` also below and above it, with
bounds that cross, a narrow band and automatic applies switched off; its spreads
are tens, to keep those that can be reached few.

`Competitors` has two scans, enough for one to overtake another. Three polls
stand for the code's 120; a Job ends before, between or after them, since its
own deadline is as long as all polls (`kube_client.rs:191`). The listings have
fewer and more rivals than a tier, ties, a seller without an offer, and our own
older quote; the spreads of ours lie below, between, above and at the edges of
the bands.

`SwapMirror` has two swaps, so that a cycle can fail between them, and three
hours, so that the newest sample may be further than an hour from a start; none
starts in the last hour, and where none has started the mirror rests, which is
no deadlock. A day has one
hour there, so that the backfill's gate both opens and closes. One fault or
restart falls anywhere. `Sampled` ties time to the live poller: an hour passes
only after it stored a sample. `mirror_first_start` lets one swap end two hours
before the first start.

`MCConsole` runs until the bounded events are used up; reaching their end is no
deadlock of the console, so deadlock is not checked there. In `Balances` a swap,
the steps of a recycle and a deposit of dollars, two events in all and any two
of them, give every order of an event, the reconstruction's two reads and a live
row over the hours, one fault or restart included; two are enough for a coin to
be on its way, to be seen at both ends if it could be, and to be missed at one.
Of three hours one has prices, one takes those of the hour before and one lacks
a price. `Threshold` is 2 instead of the code's, so that a half-inserted
reconstruction can be mistaken for a whole one if anything can (the proof covers
every threshold from 2 on), and chunks of one row leave an insert half done.
`Accounting` has two contents of a row, one of them with a holding below zero as
a reconstruction can produce, events with and without a value
and of a coin, and one write that falls between any two queries: a join of two
answers needs one write to go wrong. Two of three callers of the pool apply, as
many as it has connections. `Login` needs three setters: two first ones that
leave a row each, and one after them; with four settings one more follows.
`Health` changes twice during a fetch, so that a part can fail and recover
behind the check that would see it. `Releases` has two requests that overlap,
a lifetime and a fetch of one tick each, three ticks for both to pass, two
versions of which one is a prefix of the other, and a tag that is no version.
`WalletRules` allows two edits and two failures, one of each after the other.
`Prices` has answers with everything, without a price, and with a price of zero;
every second round is stored.

### 4.2 Fairness

Weak fairness of every handler step (the executor polls a future whose await
completed), of the start of a pod that Kubernetes took down, and of time. Nobody
has to call anything. `DrainSpec` adds that a swap in flight ends, which its
timelocks force. In `SpreadOptimizer` the poller ticks and decides, asb comes back, and an
apply is not put off at every tick (strong fairness of `TickApply`): the
cooldown passes, and the wallet is quiet at some of the ticks. In `Competitors`
each watcher's next step and the end of each Job are weakly fair: the executor
runs spawned tasks, and a Job ends by its deadline. In `SwapMirror` the sync
task is, which its interval wakes, and the live poller's sample, since some
fetch succeeds. In the console run, a handler that can take a connection, work
with it or time out does so (the executor polls it, and the pool's wait is
bounded), the wallet-rules task ticks each minute and stores what it loaded, and
the price loop goes on, since each of its calls has a timeout; nobody has to
call, edit or quote anything.

## 5. Proofs

Every theorem is about the specification with arbitrary constants, under the
`ASSUME`s of its module (TLC evaluates them in the runs) and what is named here.

`MakerProofs` proves for every set of requests, bound, overlap and fault that
`TypeOK`, `StaleAsbAccounted` and `ConfigAudited` hold. `StaleAsbAccounted` is
not inductive alone: whether a patch rolls asb depends on its stamp, so the
invariant `MakerInv` adds that the stamp of the annotation is not younger than
the last roll-out, that an asb that is up came up in a later second than its
roll-out (`RolloutsInThePast`), and what handlers hold at each await
(`LocalsRead`). A patch with a stamp in the second of its own ConfigMap write
then either differs from the annotation and rolls asb, or equals it, and asb
has been down since that write. `ConfigAudited` follows from `TypeOK` and itself:
a row is inserted before the handler forgets the text it wrote.

`MakerCooldownRespected` needs no hypothesis either. The other properties of
`Maker` hold only under conditions, which are the hypotheses of their theorems;
`maker_retried_pause` shows that one is needed, and section 7 names what breaks
the others.

| Theorem | Assumes | Invariant beside `MakerInv` |
|---|---|---|
| `MakerRowsAlternate` | no overlap | `SerialInv`: at most one handler is in progress, and past its check a pause is on an unpaused maker, a resume on a paused one |
| `MakerOldPausesRespected` | the query of the pause state answers | `TicksSaw`: of the rows there were when a tick asked, no pause is in force; rows are only added, so that a later one must be |
| `MakerCooldownRespected` | nothing | `TicksInv`: one tick at a time; a tick past its cooldown check is a cooldown away from every automatic write that was not cut short; a finished one has left its mark |
| `MakerImplementsAtomic` | no overlap, no handler is cut short | `LogInv`: between two handlers the ConfigMap is what the rows say; within one, its locals are what the rows said at its start |
| `MakerResumeRestoresLive` | the same, and every submitted configuration is live | `LiveInv`: what is in force unpaused, and what a pause stashed, is live |

`MakerImplementsAtomic` is the refinement: with the mapping of
`MakerRefinement`, each `InsertHistory` is a step of `MakerAtomic` and every
other step is a stutter.

`SpreadOptimizerProofs` proves for every configuration and market that a
recommendation is within the step of the current spread it was told and never
farther from the band than it (`RecommendationsHeadForTheBand`, by
`StepTowardBand`). That spread is not the one in force, so that nothing follows
for `ask_spread` without a condition: `AppliesStayInBand` assumes
`QuoteNearMid`, that asb answers and the prices differ by no more than the step,
and that the configuration stays. `BandInv` is inductive because a quote within
a step of a spread in the band leads into the band (`StepIntoBand`), also if
what is applied was recommended before another apply. `opt_rolling` shows that
the condition is needed. No such condition bounds the change per cycle (7).

`CompetitorsProofs` proves that the advice enters the tier for every finite
set of peers and every spread (`AdviceEntersTier`: the recommendation is at or
below the cutoff, fewer than three rows are below the cutoff, and whoever is
below the recommendation is among them), and that a scan that is shown is whole,
for any number of scans and any faults. The invariant behind the latter ties
what is stored to where each watcher is (`Stages`) and the completed scans to
the watchers that are done (`CompletedAreDone`). `AdviceIsStable` shows that who
follows the advice is told to stay, and `AdviceAlwaysHolds` joins the two to the
scans: whatever the latest one contains, the advice drawn from it is of this
kind.

`SwapMirrorProofs` proves `ProfitMatchesOutcome` for any swaps, prices and
faults: what the sync has read as ended is still what asb says
(`EntriesHold`), so a row that counts as completed has the final state, and
the profit stored from it follows from that state.

`ProfitsArePricedNear` proves `PricedWithinTheHour` for a console that runs from
the first hour (`FirstNow = 1`) and samples every hour (`Sampled`): there is a
sample in every hour that has passed (`SamplesHold`), asb's times and those of
the rows agree (`StartsAgree`), and therefore the sample nearest to the time
that the code takes for the completion, the swap's start, is at most an hour
away from it (`PricedNear`). `mirror_first_start` shows why the first
hour matters.

### 5.1 Sums and recursive functions

Three of the books' properties are about sums: over the events later than an
hour, over the steps of an attribution, over capital events. `SumFunctionOnSet`
is a recursive function that takes the elements in an order of its own, and the
induction rules of the library take an operator, which the provers here cannot
instantiate. `SumLemmas` therefore does induction with sets: a set of numbers
that has 0 and with each number the next one has all of them
(`NatSetInduction`), and a collection of sets that has the empty one and with
each set every larger one by an element has every finite set
(`SubsetInduction`). A recursive function is defined because a function that is
right up to n can be made right at n + 1 (`TableExists`, and `CumExists` for the
series of an attribution). From this follow the laws that the proofs cite:
`SumAdd`, `SumSplit`, `SumParts`, `SumRenamed`, `SumSame`; and that the elements
of a finite set of times can be put in order (`RankGrows`, `EveryRank`).

### 5.2 The books

`BalancesProofs` proves `HistoryReachesBack` for every threshold of at least two.
The gate is a guess from a count, and sound for a reason that the code does not
state: `HistoryInv` says that reconstructed rows lie at full hours, none before
the hour of the earliest event of any reconstruction, so at most two of them lie
before that event plus an hour, and a greater count includes a live row.

`RewindingIsExact` proves `ReconstructionMeetsHistory`: wherever the events that
were read were complete when the balances were, each hour's row is what the
operator owned at that hour. The invariant `ReadInv` says what the
reconstruction holds at each await: a timeline of events that have happened, a
bitcoin balance that is the one of a moment since they were read, rows that were
rewound. `EventsAddUp` is the arithmetic: what the code subtracts, a sum over
the later part of its timeline, is the difference of two forward sums, one over
swaps and one over movements (`SwapSumParts`, `MoveSumParts`); the sum over the
timeline is the sum of both, since an event is of one kind or the other
(`SumRenamed` carries each onto its part of the timeline). `BalancesTypes` is the
type invariant, with integers where sums are stored.

`AccountingProofs` is about the answers of a page while rows and events are
written. `AccountingInv` says that each answer is the rows of its times in order
as they still are (`Kept`: rows are never written over), that the rows of the
chart's series have a value, and that the attribution has every row of its
window that has a value and both prices (`WindowsMeet`). `AttributionAddsUp` is
the induction over the snapshots: at each, market, trade and capital add up to
the change of the total, capital is the sum of the events in between, and trade
and capital together are the sum of the gains. With it:

* `CardsAddUp` proves `TradesAreTheGains` at every sample the cursor can
  choose (`NearestIsOne`: there is a nearest one);
* `ChartAddsUp` proves `ReadoutMatchesSeries`. Two answers that begin with the
  same row and are equally long are the same rows (`SameRows`): each row of the
  series is in the attribution, and there are as many. This needs that a row has
  both prices, the theorem's hypothesis: both writers leave out rows without
  (`balance_snapshot.rs:56-62`, `snapshot_backfill.rs:180-189`). The contents in
  the run have them as well;
* `LifetimeAddsUp` proves `LifetimeAgreesWithAttribution`, splitting the
  capital into what came in between the snapshots and the rest.

### 5.3 The services

`ConsoleProofs` has the rest of the console. `ConsoleTypes` joins
the components' type invariants into `ConsoleTypeOK`. The components' own are
`BalancesTypes`, `AccountingTypes`, `ReleasesTypes`, `HealthTypes`, `LoginTypes`,
and parts of `PoolInvariant`, `RulesInv` and `PricesInv`.

*Connection pool*: the connections held and free add up to the pool at any size,
whatever is dropped at whatever stage (`PoolInvariant`), and therefore nobody
can go on only when every connection is held by an apply that waits for its
second (`OnlyAppliesGetStuck`).

*Login*: after a password was set without another setting in progress, exactly
it is accepted. `AloneSaw` says that what a setter in progress alone has found
is still so, `DecidedEverywhere` that a decided password is in every row; the
first makes the second inductive.

*Health*: "Healthy" was preceded by each part being well, and any other verdict
by a part that was not. `HealthInv` has for each verdict so far a condition in
`met` that justifies it (`FoundWell`, `Explained`).

*Releases*: `ReleasesInv` carries for the cache, and for each request, the span
of time in which its release was the greatest one (`BestWithin`): a fetch that
is being stored was so since it was asked for, at most a fetch ago; the cache
since a fetch before it was stored; what is served since a time to live before
that. `ReleasesAreRecent` is its last conjunct. `UpdatesAreFound` adds the order
of versions: of three, the first is less than the second only if it is less than
the third or the third is less than the second (`LessThroughAny`, by the first
number where two of them come apart). A version published long enough ago was
among those the shown one was the greatest of, so that the shown one is greater
than the running one as well.

### 5.4 What eventually happens

The provers have no rule for `ENABLED`, which weak and strong fairness are
defined by. The theorems about liveness therefore take as a hypothesis that the
fair actions are possible where their guards hold: `[]AsbGoesOn`,
`[]PollerGoesOn`, `[]ScansGoOn`, `[]SyncGoesOn`, `[]NobodyHangs`, `[]RulesGoOn`,
`[]FeedGoesOn`. Each only spells a guard out, and none says that anything is
reached; TLC needs no such hypothesis in the runs that check the same properties.
What is proved is the rest: that each fair step leads where it should, and that
no other step (a late handler, an overlapping scan, a failure, an operator) leads
away from there.

| Theorem | Property | Assumes besides | Argument |
|---|---|---|---|
| `MakerAsbConverges` | `AsbConverges` | no handler is cut short, calls come to an end (`<>[]Quiet`) | `QuietInOrder`: with nobody in progress the ConfigMap stays, and by `StaleAsbAccounted` an asb with another configuration is rolling; time passes the second of the roll-out (`SettleInv`: handlers leave a second over), the pod starts and reads the ConfigMap |
| `MakerPauseDrains` | `PauseDrains` | the same, and the pod does not restart by itself | asb comes up with the off-market configuration, offers nothing, and the swap in flight ends |
| `AppliesSettle` | `Settles` | the market stays, a gap that only gets smaller stops changing (`ReachStops`) | `ApplyingInOrder`: recommendations become timely, each apply brings the spread, or what is held of an older recommendation, nearer to the formula, and where it is farther than noise floor and drift an apply is wanted at every tick. The property itself speaks of a configuration and prices that stay, an asb that answers, and a step greater than the drift |
| `ScansAreCompleted` | `ScansEnd` | none | stage by stage; a watcher that polls has a Job, and gives up only one that still runs (`ScanInOrder`) |
| `EndedSwapsGetProfits` | `EndedSwapsAreBooked` | from some time on no fault and no restart (`FaultsStop`); a cycle gets through what it fetched (`CyclesEnd`) | a cycle fetches the ended swap, stores it, and the statement that follows prices it from some sample |
| `CallsEnd` | `EveryCallEnds` | none | `StagesInOrder`: a call only goes on or ends |
| `RulesAreFollowed` | `RulesFollow` | from some time on no load fails (`LoadsRecover`) | a tick loads what the text says, which is stored and then stays |
| `PricesReturn` | `PricesComeBack` | none | a round hears the exchange that quotes, caches all prices, and no later round takes them back; or the division ends the feed |

Two premises stand for an induction over numbers inside a temporal proof, which
the temporal prover, being propositional, cannot do. `ReachStops` says that a
distance that only gets smaller stops changing; it is a natural number
(`ReachIsNatural`), so that this is a fact of arithmetic. `CyclesEnd` says that a
cycle that stores one entry after the other comes to their end; entries only get
fewer. `FaultsStop` and `LoadsRecover` are about the environment: the code promises
nothing to a console that restarts, or a ConfigMap that cannot be read, for ever;
in the runs `MaxFaults` and `MaxFailures` see to it, as `Requests` does to
`<>[]Quiet` (4.1).

### 5.5 Only model-checked

* That the fair actions are possible where their guards hold (`ENABLED`), and
  the two premises above that need induction: TLC checks the liveness
  properties without them.
* `LiveRowsCountOnce`, in the run `console`. The runs that are expected to fail
  are counterexamples, which need no proof.

## 6. Not modelled

`PROJECT.json` lists every component with its status.

* The log tail is a placeholder; `schema.rs`, `models.rs` and `types.rs` are row
  and transfer types.
* Sessions: a flag in tower-sessions' memory store, set by login and cleared by
  logout, whose behaviour is that library's.
* The numbers of the overview (`api/overview.rs`): reads without a state.
* The swap counts per day and the P&L summed from the `swaps` table
  (`charts.rs`): one aggregate query each. `roi::compute`: nothing calls it.
* Forms, layout and rendering; the parsing of TOML, JSON, HTTP and decimals; the
  request signature of Kraken's private API.
* The volatility estimate: floating point, on which the optimizer's bounds
  do not depend; it is an input of `SpreadOptimizer`.

## 7. Disagreements without a run

Places where the code and what it says of itself differ, and which the models
above account for without a run that fails: a condition of a property names the
case, or a property leaves it out. The behaviours of the first ten are reached
in the models.

* `maker.rs:191`: `pause` asks `get_pause_state` and inserts its row several
  awaits later. Of two pauses that overlap both pass, the second stashes what
  the first wrote, and a resume restores the off-market text; `maker.rs:178-179`
  says "Stashes the current [maker] config ... (so resume can restore exact
  values)". `ResumeRestoresLive` also fails in `MCMaker_retried_pause.cfg` with
  `Overlap = TRUE` and no faults.
* `pollers/spread_optimizer.rs:87-93`: a `get_swaps` that fails is defaulted to
  "no swap in flight", and the tick restarts asb under one; `:77-80` says "Don't
  restart asb under an in-flight swap". In `Maker` it is the fault `"read"`.
* `spread_optimizer.rs:363`: an apply that fails after its ConfigMap write is not
  marked, and the next tick may apply within the cooldown
  (`pollers/spread_optimizer.rs:64`, "no consecutive applies within
  `cooldown_seconds`"). `CooldownRespected` excepts it.
* `spread_optimizer.rs:209-218`: the step is measured from asb's quote against
  the console's mid. Where asb quotes more than a step below its `ask_spread`, an
  apply leaves the bounds: with `ask_spread` at the floor of 150 and the quote 30
  lower, 120 + 25 = 145 is written, and each further apply goes on in that
  direction. `up.sql:11` says "Hard floor / ceiling". `AskInBand` and `Settles`
  are about differences of at most a step.
* `pollers/spread_optimizer.rs:108`: a tick applies its own row by id; an "Apply
  now" in the awaits before it, in a market that moved, is overwritten: at 163 the
  tick recommends 188, the button writes 150, and the tick goes from 150 to 188
  with a step of 25. `up.sql:22` says "Max change per cycle".
* `competitors.rs:183-201`: the watcher polls 600 s, and the Job's deadline is
  600 s (`kube_client.rs:191`): a Job that ends at its deadline is never read and
  its scan stays open; `competitors.rs:129-130` says "Polls the resulting Job to
  completion". `ScansEnd` allows a watcher to give up a Job that still runs.
* `balance_snapshot.rs:68`: bitcoin that left the wallet is not credited before 3
  confirmations (`docs/RECYCLE.md:58-59`; 10 for monero on its way back, `:155`),
  and the rows of these minutes show it nowhere; `:4-8` says that the Kraken side
  "prevents the chart from showing a phantom "loss" during a recycle".
  `LiveRowsCountOnce` bounds the dip by what is on its way.
* `snapshot_backfill.rs:88-102`: of the rows that the gate counts, a
  reconstruction writes two at most (`HistoryInv`, 5.2), so that below 100 live
  rows in that hour it runs again at every start; `:88-89` says that many such
  rows mean "an earlier backfill run already filled them".
* `charts.rs:299`: the trade series is the residual of the total and contains the
  change of the dollars at Kraken; the formula at `charts.rs:91-95` does not
  mention dollars: for two of them that became a bitcoin of two dollars it gives
  2, the code 0. `TradesAreTheGains` is what the code computes.
* `charts.rs:402-404`: "Aligned 1:1 with series.points because both come from the
  same filtered snapshot set". If the oldest row leaves the window and a new one
  is stored between the two queries, both series have one length and the P&L at
  each sample is that of the next. `ReadoutMatchesSeries` is about windows that
  begin with the same row.
* `spread.rs:57-62`: "You could widen to ... without losing position". With
  rivals at 1.00 and 1.20 and ours at 0.40 the advice is 1.10, and the position
  goes from first to second. It stays within the tier, which is what
  `AdviceEntersTier` proves.
* `charts.rs:238-241` takes the atomic amount of a USD event for dollars,
  `pages/roi.rs:284-292` shows it as cents.
* `capital.rs:37` accepts only BTC and XMR, and the lifetime tile counts only USD
  events: it goes on asking to "Add capital events on the ROI page"
  (`overview.rs:469`) after they were added.
* `snapshot_backfill.rs:253-256`: a refunded swap is rewound as a loss of its
  bitcoin, "correct in aggregate"; nothing adds it back. `TimelineComplete`
  excludes it.
* `snapshot_backfill.rs:41-45`: a "1-hour window" that, between two buckets,
  reaches almost two hours.
* `snapshot_backfill.rs:10-11`: rows of the live poller are to be left alone. They
  do not lie at full hours, so that no conflict arises, and what a repeated
  reconstruction adds beside them lacks the exchange's share.
* `pollers/swap_sync.rs:40-43`: a start date that does not parse becomes the
  time of the sync, and each sync updates `completed_at` with it: such a swap
  counts as completed just now for ever, while its profit stays.
  `PricedWithinTheHour` exempts it.
* `spread_optimizer.rs:73-104`: any numbers are saved, a negative step or bounds
  that cross among them. The first makes the step cap lead away from the clamped
  formula; the properties of the band exempt both.
* `competitors.rs:187`, `:217`: a Job that fails or whose logs are unreadable
  completes a scan without quotes, which hides the last good one, as a scan that
  finishes late hides a newer one.
* `maker.rs:74-115`: of two overlapping edits the later write drops the earlier
  one, and both are in the audit trail.
* `balance_snapshot.rs:99-103`: a failed Kraken query "doesn't break anything";
  the total drops by the exchange's share for one row, and the attribution takes
  that for trades.
* `asb.rs:113-120`: an error of the call becomes `null`, which means success, so
  that `check_asb` reports "ok" for an asb that is down. The tile still sees it,
  through the checks after it (`HealthyMeansWell`).
* `version.rs:8-10`: a tag "that parses cleanly"; a release candidate counts as
  its release. A failed fetch serves no older release from the cache.
* `competitor_scan.rs:1`: a scan is to start "if one hasn't run recently"; one
  starts at every tick.
* `api/overview.rs`: a balance that could not be asked for is shown as 0.
* `cex.rs:67`: a Bitcoin price of zero ends the price loop for good
  (`PricesComeBack` excepts it).
* `spread_optimizer.rs:348`: an apply keeps a connection while `write_config`
  waits for another; as many applies as the pool has connections block all
  handlers until the pool's timeout (`StuckNeedsApplies`, `EveryCallEnds`).
