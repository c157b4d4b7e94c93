# Formal models of the CollectIQ backend

TLA+ models of the parts of this repository whose correctness depends on the order
of events: jobs that share tables without transactions, requests that fail half-way,
leases that run out, one account-wide rate limit, store notifications in any order. TLC
checks each model on a small instance; TLAPS proves the safety properties that matter
most for every value of the constants. Paths are relative to `src/`.

| Modules | What they model | Checked by |
|---|---|---|
| `CatalogBatches`, `BatchPipeline` | the staged catalog refresh: download and ingest runs over one table | TLC, TLAPS |
| `ProviderSlot` | the account-wide vendor slot and its client | TLC, TLAPS |
| `VendorLimit` | abstract: what the vendor publishes and sees; `ProviderSlot` implements it | TLC, TLAPS |
| `CatalogWriter` | how the rows of a vendor file reach four tables, request by request | TLC, TLAPS |
| `AccountDeletion` | data requests: exports, scheduled deletions, the daily purge | TLC, TLAPS |
| `BackfillRun` | the run lock, the claims and the marks of the backfill of sets | TLC, TLAPS |
| `WorkQueue` | abstract: what a shared registry of sets promises; `BackfillRun` implements it | TLC, TLAPS |
| `Tier3Rotation` | runs that refresh completed sets in turn, halve refused batches, park dead sets | TLC, TLAPS |
| `PriceAlerts` | the writers of an item's price, the evaluation of alerts and the push | TLC, TLAPS |
| `Subscriptions` | entitlements from two stores, and the monthly scan quota | TLC, TLAPS |
| `PricingLookup` | a lookup through three caches, throttles and providers, and the promotion | TLC, TLAPS |

`MC<Module>` gives the constants of `<Module>` their small values; `<Module>Proofs`
holds its theorems, and `SetRegistryProofs` those of the two jobs on the registry of sets,
`BackfillRun` and `Tier3Rotation`. Operators commented `\* Mutant:` are plausible bugs put next to
the definition they would replace; no specification uses them, and each makes one
property fail, which shows that the property says something about the code.

## 1. The system

The backend is a FastAPI application (`app/`, one uvicorn process), about fifteen cron
jobs (`render.yaml`, each a container of its own that runs a script under `scripts/`),
and Supabase: Postgres through PostgREST, object storage, and authentication. There are no
transactions over several requests, except inside the SQL functions. Processes meet only
in tables. What is hard about it follows from that:

* **interleaving**: cron containers overlap each other and the API. The routers
  `data_requests`, `push`, `support`, `subscription_webhooks`, `api_subscription` and
  `portfolio` are `async def` with synchronous bodies, so the API runs them one at a
  time; the `admin_*` routers run on a thread pool, concurrently;
* **partial failure**: every operation is a series of HTTP requests, each of which may
  fail before or after it took effect, and is retried by the same run, by the next run,
  or not at all;
* **crashes**: a container is killed between any two requests; leases and reapers are
  the only recovery;
* **stale reads**: rows are read, kept across requests, and written back, usually by an
  unconditional PATCH;
* **limits**: vendor calls per interval and per day, queue depths, attempts.

### Components

*Staged catalog batches* (modelled). State: `catalog_download_batches` (status, lease,
booked sets, attempts), the stored file, the registry's refresh stamps. Operations:
`download_catalog_batch.py` reaps, resumes or books due sets, waits for a vendor slot,
downloads, validates, uploads; `ingest_catalog_batch.py` reaps, claims, writes, stamps.
Correct when: a batch offered for ingest has its file; a set is stamped only after its
prices are in; two ingesters never share a batch; a batch left by a dead run comes back;
the rotation takes turns; a refused combination is not fetched again and again.

*Provider slot limiter* (modelled). State: `provider_rate_limits` (last grant),
`provider_slot_classes` (last request, used today, quota date). Operations: the function
`acquire_provider_slot` and its client `SharedRateLimiter`. Correct when: requests are
never closer than the vendor allows; an essential job is not overtaken by bulk jobs; a
bulk class keeps its daily cap; nobody starves.

*Catalog writer* (partly modelled). State: `pricecharting_catalog_history`,
`pricecharting_catalog`, `pricecharting_current_price`, `pricecharting_price_history`.
Operations: `write_catalog_rows_with_retry` down to every request. Correct when: a
file that is reported as written is in all tables; the price history misses no price;
no failure keeps a file from being written later.

*Data requests and account deletion* (modelled). State: `data_requests`, the user's
tables, files and account. Operations: file, schedule, cancel, process, purge. Correct
when: nobody loses data out of their time; a completed deletion leaves nothing; a due
deletion is carried out in the end.

*Backfill run lock and set claims* (modelled). State: `backfill_run_lock`,
`pricecharting_set_registry` (claims, `last_fetched_at`, tiers). Operations: acquire and
release the lock, claim rows, search, resolve, load, mark. Correct when: one run works at a
time while its lease lasts; no set is fetched by two or lost by a dead run; every set
comes up again until it is fetched.

*Tier-3 rotation* (modelled). State: `tier3_refreshed_at`, `tier3_failure_count`.
Operations: list, fetch a batch, isolate, write, stamp, strike. Correct when: a stamp is
earned by data; an outage does not park healthy sets; every healthy set has its turn.

*Price alerts and push* (partly) and *repricing and the review queue* (partly). State:
`portfolio_items.raw_json`, `price_alerts`, `push_device_registrations`. Operations: the
sweep, the four admin operations, evaluate, re-arm, dispatch, mark. Correct when: a
crossing that lasts is pushed in the end, once per arming.

*Subscriptions* (modelled). State: `user_subscriptions`, `user_scan_usage`. Operations:
webhooks, verification, override, the quota. Correct when: the entitlement follows the
store, whatever fails or comes late; the month's cap holds.

*Shared pricing cache and throttles* (modelled), *pricing providers*, *scan-derived
promotion* and *recognition* (partly). State: `pricing_cache_entries`,
`pricing_provider_throttle`, each provider's cache in memory, KicksDB's copy of the local
catalog. Operations: a lookup by a scan, a quote or a repricing; the promotion. Correct when:
no price outlives the times to live of the caches it passed through;
a failure does not replace what a later lookup found; an item is priced in the end.

*CSV refresh storage*, *Tier-1 refresh*, *support tickets*, *run records*, *portfolio
matching*, *catalog search*, *FX rates*, *sign-up guard*, *admin services*, *other
importers*, *health checks*: not modelled, see section 5.

### How they interact

```
 cron: download_catalog_batch --asks--> ProviderSlot <--asks-- backfill, refresh, tier 3
            | books, stages (table + bucket)
 cron: ingest_catalog_batch --writes with--> CatalogWriter <-- every other refresh
            | stamps
        set registry  (order of the rotations)  <--claims, marks-- backfill

 app --files, cancels--> data_requests <--purges-- cron;  processes <-- console
 app --writes----------> user tables, bucket  <--empties-- deletion

 stores --notify--> user_subscriptions <--verify-- app;  overrides <-- admin
 scan --bumps--> user_scan_usage
 scan, repricing --look up--> shared cache --> providers;  promotion --> catalog
 sweep, app, admin --rewrite--> portfolio items --evaluated by--> price alerts --> push
```

`BatchPipeline`, `BackfillRun` and `Tier3Rotation` see the slot as a wait that is granted or
not and the writer as a step that succeeds or fails; `ProviderSlot` and `CatalogWriter` open
these two up. `PriceAlerts` sees a lookup as a price or none; `PricingLookup` opens it up.
That the slot is granted in the end, which the first three assume, is `NobodyStarves`.

## 2. The models

Every module begins with what it abstracts from. `faults`, `crashes`, `inputs`, `starts`
and the like count what goes wrong or comes from outside up to a `Max...` bound; they are
the model's, not the code's. History variables are commented as such where declared.

### BatchPipeline

One action per REST call of a run, so that whatever a run read may be stale when it is
used. `status`, `lease`, `booked` and the attempt counters are columns of
`catalog_download_batches`; `stored` the bucket; `refreshedAt` the registry's
`tier3_refreshed_at`; `dl` and `ing` the local variables of the runs (`pc` names the call
made next). `written` is a history variable. `Update` is `BatchStore.update`: a PATCH by
id whatever the status, as in the code; only `IngestClaim` filters on the status it
read. `Crash` stands for a killed process and for a call that raises, both of which leave
the row as it is. Time is seen through `LeaseExpires` (thirty minutes since `claimed_at`)
and `CooldownElapses` (six hours since a refusal). `HonestLeases = FALSE` would let a lease
go stale under a run that is alive; the theorems hold for either value. `DownloadBound` is
the model's, not the code's: a run that would exceed `MaxBatches` ends.

Left out: dry runs, registry rows of unknown sets, changes to which sets are in the
rotation (`Registry` is constant).

| Run | Instance | Shows |
|---|---|---|
| `BatchOnCron` | the production schedule: one run of each kind, depth 1, four sets of which two share a vendor uid, batches of two, three batches, 2 attempts, 2 crashes, 2 expiries | `TypeOK`, `IngestableIsStored`, `RefreshIsEarned`, `ClaimedOnce`, `RotationInTurn` |
| `BatchOverlap` | two ingest runs that overlap, two batches of one set, a crash, an expiry, fairness | `IngestExclusiveWhileLeasesHold`, `EveryBatchSettles` |

Why these bounds suffice: a double booking or a turn taken out of order needs two batches
over the same sets and a third that could overtake, and, where a uid has two rows, a set
besides that could be overtaken; a crash after each of the two
attempts exhausts a batch; the reaper needs one expiry per lease that is lost, and two
expiries cover one of each kind.

`RotationInTurn` speaks of sets of the vendor: of two registry rows with one `console_uid`
the claim drops the later, which then waits while its twin is refreshed again, so row by
row the rotation does not take turns. The attempted proof showed it, on a registry one
row larger than the one checked until then. The theorems remove the bounds for the safety properties
they cover.

Fairness. A living run takes its next step and the cron restarts ended ones (`WF` on the
steps of each run); a waiting download is granted its slot if it stays possible again and
again (`SF` on `DownloadCharge`: `NoSlot` may be the answer any number of times, and
`NobodyStarves` of `ProviderSlot` shows that it is not the answer for ever); thirty minutes
pass (`WF` on `LeaseExpires`). No run is assumed to be free of crashes beyond the bound.
`EveryBatchSettles` names the two ways the code lets a batch stop for good (section 4).

### ProviderSlot

`Commit` and `Verdict` are the body of `acquire_provider_slot`: the roll of the daily
counters, the safety gate, the policy. Timestamps are ages that grow with `Tick` and
saturate where the code cannot tell them apart. A transaction's `now()` is the time it
began, so an ask has a `timer` that grows while it waits for the row lock (`Lag`, at most
`MaxLag`), and everything it reads and writes is seen from back then. The job's `pc`
follows `SharedRateLimiter.acquire`: asking, napping (at most `MaxNap` at a time), giving
up (bulk only), or pacing itself when the database does not answer (`AskFails`, whether or
not the transaction committed). `CallRefused` is the vendor's refusal, which
`fetch_batch_csv_file_with_retry` repeats without a new slot. `granted` is a history
variable: what a class was really granted today, whatever the counters say.

| Run | Instance | Shows |
|---|---|---|
| `SlotGrants` | the jobs `refresh` (essential) and `sets` (bulk, capped), interval 3, window 5, published limit 2, lock waits, naps and late wake-ups of up to 1 tick, days of 7 ticks; one failed ask or refused call, one dead job | `TypeOK`, `BulkCapped`, `EssentialFirst`, `NobodyStarves`, `WithinVendorLimit` |

A tick is about 200 seconds: the interval of 610 s and the window of 900 s are 3 or 4
and 5 ticks, a nap one. The day is shortened to 7 ticks so that midnight falls between any
two steps. The strict orders the code relies on (published limit plus lock wait plus call
delay within the interval; nap plus late wake-up plus two lock waits within the window)
hold in the instance with the least slack integers allow, and are the assumptions of the
theorems.

*Refinement.* `VendorLimit` is what the vendor sees: the requests of one account, the
published interval apart, and nothing is promised once the account has an excuse.
`WithinVendorLimit` is its specification, where `since` is the age of the last request of any
job and `excused` a request that went out without an answer that allowed it, or an
answer that was lost. TLC checks it as a property; `KeepsVendorLimit` proves it.

Fairness. Time passes (`SF` on `Tick`, since a tick has room for finitely many steps), a
living job does what is due (`WF` on its steps), and the cron starts bulk jobs again and
again (`WF` on their `Acquire`). Nothing is assumed of essential jobs, which may die.

`BulkCapped` allows a class its cap and one call: a transaction that began before midnight
and got the row lock after one that began later rolls `quota_date` back and resets every
counter (section 4).

### CatalogWriter

A price stands for the price columns, a metadata value for the columns behind
`catalog_metadata_hash`. A run (`run[w]`) goes through its sub-batches twice, as
`upsert_rows` does: the history pass (three lookups in any order, current prices,
snapshots, closing and inserting versions) and, if no sub-batch failed, the catalog pass.
`Renamed`, `Moved`, `Rekeyed` and `Outdated` are the gates, each asking the table it
guards. Every request that is sent may fail before or after it took effect
(`HistoryRequestFails`, `CatalogRequestFails`); what Postgres refuses because of an index
or a check is `Rejected`. The stamp of a run is the time it started, as in
`ingest_catalog_batch`, whichever file it writes.

| Run | Instance | Shows |
|---|---|---|
| `WriterRetries` | one run at a time, two products in two sub-batches, two files that agree or differ in any column of one product, 2 attempts, 4 starts, 2 failed requests, 1 crash | `TypeOK`, `AgreesUnlessTorn`, `LandsInFull` |
| `WriterOverlap` | two runs at a time on one product, 5 starts, 1 crash, fairness | `EveryFileLands` |
| `WriterHistory` | the instance of `WriterRetries` with 1 failed request | finds that `SnapshotsAgree` fails |

Two files suffice for every gate to say yes and no to each table; two sub-batches for one
to fail and the other not; two faults for a retry to fail at another request than the
first attempt. `CHECK_DEADLOCK FALSE`: once every file landed nothing is left to start.

Fairness. A living run goes on, and the next run of the cron takes up a file that has not
landed (`WF` on starting each file).

With overlapping runs `LandsInFull` and `AgreesUnlessTorn` do not hold, and are not
claimed: two runs that write one product at a time can leave its current version and its
catalog row saying different things.

Left out: the COPY writer (`tier3_copy_writer.py`), importers that call `upsert_rows`
without the retry around it, the size of the halves a timed-out statement is split into.

### AccountDeletion

The API is one process whose routes run to completion: `pc` is the job it is serving, and
the actions that need the API to be idle are those of the app through the API
(`CreateRequest`, `ScheduleDeletion`, `CancelDeletion`, `OpenTicket`, `AddAttachment`).
`AppSaves` and `AppUploads` go past the API, straight to Supabase, and may fall between
any two requests of a job. A job is `PurgeDue` or `ProcessRequest`, and then the requests
of `_process_export` or `_process_deletion` one at a time: list the files, empty the tables
in order, delete the files, delete the account, record, audit. `RequestFails` is a
request whose failure ends the row (before or after it took effect), `AuditFails` one
that ends the whole purge, and the refusals the code passes over are in `DeleteFiles` and
`DeleteAccount`. `saved` and `disturbed` are history variables.

| Run | Instance | Shows |
|---|---|---|
| `DeletionJobs` | two users, two requests, two tables of which one is the tickets, purges of two rows, one write of the app, one failure, one crash | `TypeOK`, `LeavesNothing`, `PurgeKeepsGrace`, `CompletedIsEmptied`, `DueDeletionsSettle` |

Two users and two rows per purge let a purge reach a row after it worked on another; two
tables let it fail between them; one write falls at every point. The theorems hold
for any number of each.

Fairness. The process serves a job to its end (`WF` on its steps) and the daily call of
the cron is served among the others (`SF` on `PurgeDue`: calls are handled in order of
arrival). Users and admins need never act.

Left out: the contents of an export, the caps of a listing, dry runs, and the access
token a deleted user may still hold, with which the app can write until it expires.

### BackfillRun

`lock` is `backfill_run_lock` while its lease lasts, `claims` the rows whose `claimed_at`
is recent, `fetched` those whose `last_fetch_status` is success, `queue` the order of
`last_fetched_at` of all rows (rows one PATCH stamps tie, and get any order), and a run
goes through `acquire`, `claim_rows` (a selection, then an unconditional PATCH of it),
the search per row, the pages of the sites, the marks and the release. `part` says where
on its way each claimed set is. A claim may run out at any moment (half an hour against
three of the lock); `LeaseEnds` may find a run still at work, which has then overrun, and
after which another run may acquire it and the first one's late release must not take it
away. `RunFails` covers the request that fails before or after it took effect.

| Run | Instance | Shows |
|---|---|---|
| `BackfillOverlap` | two runs, two sets of the throttled site, one set per run by the slow path, 1 failed request or crash, 1 run that outlives its lease | `TypeOK`, `OneRunPerLease`, `SharedAsQueue`, `EverySetTried` |

*Refinement.* `WorkQueue` is what a registry promises the runs that share it: a set is
with one run at a time, only that run can complete it, and a completed set is not handed
out again. `SharedAsQueue` is its specification, where a set's owner is the run at work that
claimed it and has not marked it (`Holds`), `done` the sets fetched with success and
`excused` that a run outlived its lease, after which two runs may claim one set. TLC
checks it on the instance, and section 3 names the proof.

Bounds: two runs and one overrun are what it takes for a late release or a late mark; two
sets and a slow path of one for a set that is put off in favour of another. Fairness: the
cron starts runs and a living run goes on (`WF` on `Acquire`, `Step`), leases end (`WF`),
and a set is not refused a slot for ever (`SF` on its `Load`, which may still fail).

Simplified: whether a row's `console_uid` is already known is chosen freely; the failure
count of a row only sorts rows and is left out; a site's sets are one chunk, as they are
under the cron's limits; a refused acquire is no step; the run ledger is left out. Worker ids
are taken to be distinct, as the cron jobs' are: two runs started by hand without one share
the default of `backfill_pricecharting_sets.py:1589`, and the late release of one would then
end the other's lease. The rows that the search by API missed are passed on in the order of the
claim; with more than one search at a time they come in the order the searches end (line
1013), and production runs one (`render.yaml:221`).

### Tier3Rotation

A run lists the sets by `tier3_refreshed_at`, requests them batch by batch, and writes
and stamps a batch it was served. A refused batch goes to `segments`: halves, each probed
by a request while the budget lasts, until the dead sets are alone. `Dead` is a constant;
an outage refuses everything with a transient status. A throttled request counts towards
the breaker. Three strikes (two in the instance) take a set out of the listing. `queue`
is the order of `tier3_refreshed_at`; a listing is the queue `InOrder(Before)`, of which
the `Listed` sets, those below the limit of strikes, are a beginning.

| Run | Instance | Shows |
|---|---|---|
| `Tier3Turns` | two runs, four sets of which one is dead, batches of three, 1 request per run, 1 or 2 probes, 2 strikes, breaker at 1, one outage, one fault | `TypeOK`, `StampsEarned`, `OutagesForgiven`, `EveryHealthySetTurns` |

A batch of *n* may need 2*n* - 1 probes to be taken apart. The shipped default is 4 for batches
of 100 (line 112, `render.yaml:383`), so the instance's budgets are too small for its batches
as well: one probe never finds the dead set of a batch of three, two sometimes do, and most
isolations leave parts of the batch in `segments` when they end, as the shipped ones do. Hence
`StampsEarned` does not say that every stamp is earned, which is false of the code: it says
what is stamped without a file, the parts a spent budget left unprobed, and that nothing
else is. `EveryHealthySetTurns` says in which ways a healthy set misses its turns for ever,
and that there is no other: an outage left it with strikes and a batch of sets with fewer is
always before it, or it is parked (`SetAside`); its batch has a dead set and it is among the
parts left unprobed each time (`LeftUnprobed`), so that it is stamped without a file or not
at all; or batches with a dead set of which no part was served, so that they keep their place,
fill the list (`CrowdedOut`). Section 4 says what that means for the shipped configuration,
and section 3 what is proved of any budget.

Bounds: four sets and batches of three leave one set out of the list, which the dead set's
batch can crowd out; a batch of three is the least that two probes may or may not take
apart. One batch per run, since a run's batches meet only through the breaker, and two of them
are too much for the liveness property. Fairness: the cron starts runs and they go on
(`WF`), the limiter does not refuse the slot of the same batch of every run for ever (`SF`
on `Request`), an outage ends (`WF`).

### PriceAlerts

`item` is the part of `raw_json` that the alerts see, the price and the review flag. The
sweep and the admin's request each keep the copy they read (`sweep.page`, `admin.raw`)
and write it back merged, requests later. The pipeline is one route: it evaluates the
alerts it listed (`Evaluate`), then pushes the triggered ones device by device
(`Push`), and marks them. `status` is the alert's column, `told` a history variable that
counts the pushes of each device since the alert was armed.

| Run | Instance | Shows |
|---|---|---|
| `AlertsPushed` | one item, one alert, two devices that come and go, two prices on either side of the target, one raised request or restart | `TypeOK`, `NotifyOnce`, `EveryCrossingPushed` |

Bounds: items and alerts do not interact but through the list a pipeline works on, whose
limits are taken not to bind (section 4); two devices let a dispatch raise between them.
Fairness: a call that runs goes on (`WF` on `Pipeline`), the cron calls the route every six
hours with the evaluation (`SF` on `Evaluate`), and FCM accepts a push for an alert unless it
refuses it for ever (`SF` on `Push`).

Simplified: one kind of alert, the value columns and the deletion of an alert are
left out, a page of the sweep holds all items. The price of an item is chosen freely;
`PricingLookup` says where it comes from.

### Subscriptions

`google` and `apple` are what the stores know, `inbox` the notifications that were not
answered with a 2xx yet, in no order; `row` is `user_subscriptions`, `handler` the request
between asking the store and the upsert. Google's notification is answered by asking
Google, Apple's carries the transaction. `Refused` is Google's answer that the token is
invalid, which is acknowledged without a write: `disowned` remembers the tokens it was
given for, until Google signals another change of them or has them granted. The quota is
`usage` per day, `scan` the requests between the read of the month's sum and the increment.

| Run | Instance | Shows |
|---|---|---|
| `Subscriptions` | two Google tokens, two billing periods of Apple's, three scans at a time, two days of one month, a limit of 1, six inputs from outside, one failed request or refused token | `TypeOK`, `MonthCapped`, `StoresHeard`, `GoogleSettles` |

Bounds: two tokens for one that supersedes another, two periods for a transaction that
comes late, three scans for a limit of one that two pass over midnight. Fairness: a
request between the store and the upsert goes on (`WF` on `Grants`) and the stores
deliver until they are answered (`WF` on `Notified`).

Simplified: one user, one month, both paid plans are one, the app presents a token the
user bought or the newest transaction; `SIT` and the
other sources that are trusted outside production are left out.

### PricingLookup

One identity, hence one key of the shared cache. `entry` is its row, `memory` each
provider's cache in the process, `open` the providers whose throttle would let a request
pass. A lookup (`look[l]`) reads the row and, unless it hits, asks the providers of the
chain in turn, each from its memory, the local catalog, or request by request, and writes
what it got. `shelf` is the copy of `kicksdb_catalog` that KicksDB's matcher holds for an hour
(`kicksdb_catalog_matcher.py:49-56`), empty for as long when the load failed. Of a price only
its age is kept, of a lookup's prices the `oldest`, and an entry's `left` is what its status
gives it to live. `lag` is the tick a price may age between its answer and its use.
`Promote` is the daily job.

A price of the local catalog passes through three caches: the copy, the provider's memory, which
remembers it like a price of now although the provider calls it `cached`, and the shared
row. Its age counts from when the table was read, and `extra` says that the copy's time to live
comes on top of the other two. The row in the table may itself be of any age: the backfill
(`render.yaml:302-325`) writes only rows that changed, and nothing expires those it no longer
finds. So `PricesFresh` bounds what the caches add, not how old the market's price is.

| Run | Instance | Shows |
|---|---|---|
| `PricingLookups` | two lookups at a time, two providers of which one needs two requests and has a local catalog, both modes of configuration, times to live of 1, 2 and 3 ticks, the copy's of 1, one failure | `TypeOK`, `PricesFresh`, `PriceStands`, `PricedInTheEnd` |

Bounds: two lookups for one that fails after the other found a price; two providers for
a chain and for one throttle that refuses while the other answers; the times to live are
ordered as in the code and all different from a tick but the shortest. Fairness: time
passes (`WF` on `Tick` and on `IntervalPasses`), scans and sweeps come again and a lookup goes
on (`WF` on `Asks` and `Step`), and a lookup that comes to a provider again and again is let
through and quoted a price in the end (`SF` on `Sends` and `Answered`).

Simplified: one currency, a recognition sure enough for a lookup, the categories' times
to live are one, a provider's two throttles are one, requests last for a tick at most.

## 3. What is proved

Each proof goes through an inductive invariant, stronger than the property, because the
property alone says too little about the run that is half-way through its requests.

| Theorem | Property | Inductive invariant, and why it is needed |
|---|---|---|
| `BatchPipelineProofs!TypeCorrect` | `TypeOK` | itself |
| `StoredBeforeIngest` | `IngestableIsStored` | `StoredInv`: the batches on an ingester's reap list, read earlier, the one it works on and the one a downloader is about to publish are stored too, so that no stale PATCH publishes an unstored file |
| `RefreshEarned` | `RefreshIsEarned` | `EarnedInv`: a run about to stamp has written, one about to finish has stamped |
| `IngestMutualExclusion` | `IngestExclusiveWhileLeasesHold` | `ExclusiveInv`: while no lease has run out, the status of a batch tells who holds it and nobody has it on a reap list. Assumes `OneDownloader`, the production schedule: two downloaders can publish one batch twice |
| `SetsClaimedOnce` | `ClaimedOnce` | `CronInv`: a row is in the status that the run at work on it gave it (`RunsMatchRows`), which tells whether an ingester ever claimed it (`AttemptsMatchStatus`); of the batches in flight only the newest was never retried, and a run that passed the check of the queue depth left none (`BookedInTurn`); a combination not validated yet was not refused within its cooldown (`FreshCombinations`). Assumes `OnCron`, the schedule of `render.yaml`: one run of each kind, a queue depth of one |
| `RotationTakesTurns` | `RotationInTurn` | `CronInv` and `StampsInTurn`: from the claim to the stamp, a batch that was never retried holds sets none of which stands behind a set that waits. A set that waits and would be overtaken has an earliest one of its kind, which the claim would have taken (`LeastNumber`). Assumes `OnCron` |
| `ProviderSlotProofs!TypeCorrect` | `TypeOK` | itself, with a bound for every deadline |
| `RequestsSpaced` | `AnsweredCallsSpaced` (no run) | `SpacedInv`: a granted job calls within a lock wait of the time its grant is recorded at, and the last grant precedes the last request by at most lock wait and call delay. Rests on `Published + MaxLag + CallDelay <= Interval` |
| `KeepsVendorLimit` | `WithinVendorLimit` | refinement of `VendorLimit`, from `SpacedInv`: initial states map to initial states, every step to a request, a tick, an excuse or a stutter |
| `PriorityHolds` | `EssentialFirst` | `AliveInv`: a waiting job's class asked no longer ago than its nap, a late wake-up and a lock wait. Assumes `WindowFits`: `MaxNap + Jitter + 2 * MaxLag < ActiveWindow` |
| `CapHolds` | `BulkCapped` | `CapInv`: a capped class has never used more than its cap; what was granted today is at most what the counters say and one forgotten call, and in the time in which a transaction of yesterday may still commit today has at most one grant |
| `CatalogWriterProofs!TypeCorrect` | `TypeOK` | itself |
| `PricesRecorded` | `AgreesUnlessTorn` | `AloneInv`: each gate of the run at work has seen the table it guards, which nobody else writes since (`PriceGate`, `VersionGate`, `MetadataGate`), what a pass went through is written (`PricesPut`, `HistoryPassed`, `CatalogPassed`), and the snapshot of every price is taken but for the run's `observe`. Assumes that one run works at a time (`[]OneAtATime`), as the run does |
| `FilesLandInFull` | `LandsInFull` | `AloneInv`, in which every table of a finished product is told of the file (`AllTold`). The same assumption |
| `AccountDeletionProofs!TypeCorrect` | `TypeOK` | itself |
| `ScheduledOnce` | `OneScheduled` (no run) | two scheduled deletions of one user are the same row |
| `GraceKept` | `PurgeKeepsGrace` | `GraceInv`: the row a purge works on and all it has yet to reach are scheduled and due, since its job keeps cancellations out |
| `CompletedEmptied` | `CompletedIsEmptied` | `EmptiedInv`: the tables before the one the deletion is at are empty but for `saved` |
| `NothingLeft` | `LeavesNothing` | `LeftInv`: of a user nothing disturbed, the list holds every file there still is, and each stage is done when the next begins |
| `SetRegistryProofs!TypeCorrect` | `BackfillRun`'s `TypeOK` | itself |
| `RunsExclusive` | `OneRunPerLease` | `LockInv`: a run at work that has not outlived its lease *has* the lock: the property speaks of pairs of runs, and only the lock excludes a third |
| `QueueImplemented` | `SharedAsQueue` | refinement of `WorkQueue`, from `QueueInv`: while nothing overran, what a run picked or has in hand is not fetched yet (`Open`), nothing is in hand before it is claimed (`Quiet`), and by `LockInv` the run at work is the only one, so each step hands out, settles or stutters |
| `RotationTypeCorrect` | `Tier3Rotation`'s `TypeOK` | `RotationInv`: the types, and that an isolation is only underway below the breaker's threshold, without which a throttled probe would count beyond it |
| `EveryStampEarned` | `StampsEarned` | `Earns`, in the same `RotationInv`: during an isolation each set of the batch has a file, was found dead, or is in a segment (`Covered`), and it ends with no segment or no probe left. For any budget, the shipped one included |
| `ShortBudgetIsBlind` | none: it speaks of batches of any size | `Short`, `Blind`: after *k* halvings a segment has still at least the 2^*k*-th part of the batch, so while the batch is at least 2^budget long every segment is at least 2^probes long, and none is a set alone as long as a probe is left. The powers are a function that doubles (`Doubling`) |
| `AmpleBudgetIsExact` | none: as above | `Afforded`: with a budget of 2*n* - 1 for batches of *n* the probes left pay for all segments (`Affordable`): there are numbers *c*, one per segment and one past the last, with *c*[*i*] at least *c*[*i*+1] and 2*n*-1 more for the *n* sets of segment *i*, that start within the probes left. The numbers stand for a sum, which would need induction. So no segment is left when the isolation ends |
| `EveryOutageForgiven` | `OutagesForgiven` | `StrikesInv`: the strikes of a healthy set and the isolations that may still strike it (`Exposed`) together are at most one per run and outage |
| `PriceAlertsProofs!TypeCorrect` | `TypeOK` | `IInv`, as the next row |
| `NotifiedOnce` | `NotifyOnce` | `Allowed`: what a device was told is at most the failures so far, and one more once the alert is notified or the dispatch at hand has been to that device; and `PipeInv`: what the pipeline has on its list is still in the status it was listed for |
| `SubscriptionsProofs!TypeCorrect` | `TypeOK` | `PaidInv`: no notification and no request is about a token that was never bought, whose answer alone would be a paid plan that has expired |
| `MonthStaysCapped` | `MonthCapped` | `QuotaInv`: past the lock one scan holds the row of its day (`OneHolder`), so the sum of the month and the days a scan has promised to bump (`Promised`) together exceed the limit by less than the days |
| `GoogleSignalsKept` | `GoogleHeard` | `GoogleInv`: a request between Google and the upsert carries what Google says of its token, or a notification is underway that corrects it (`Asked`); only `Refused` takes one away without a write, and `disowned` says of which token |
| `AppleSignalsKept` | `AppleHeard` | `AppleInv`: the order of the transactions (`Rank`), that no notification is newer than Apple's latest, and that the latest was applied or is underway |
| `StoreSignalsKept` | `StoresHeard` | both: a signal is lost in two ways only, `disowned` and `overtaken` |
| `PricingLookupProofs!TypeCorrect` | `TypeOK` | that of the next two rows, for the ages, and `ShelfInv`: the copy of the catalog is dropped when it has its time to live behind it; types of the rest, variable by variable |
| `FreshPrices` | `PricesFresh` | `Fits`, `Dated`: in a provider's memory age and rest of life make up at most its time to live, and that of the copy of the catalog more (`extra`) if the price is of it, whose own age `ShelfInv` bounds; what a lookup carries is at most a tick older, so what it writes starts the last cache young enough |
| `PricesStand` | `PriceStands` | `StandInv`: while a lookup that saw the row and was not raced is on its way without a price, the row has none |

They hold for every number of runs, jobs, users, sets, batches, tables, tokens, lookups,
crashes and failures: the `Max...` bounds occur in guards but no proof uses how large they are. The
assumptions on constants are the `ASSUME`s of the modules, which TLC evaluates on every run.
In `AccountDeletionProofs` what a step may do to the list of requests is stated
once (`RequestsKept`), and so is in the other modules what an update keeps of a record.

Only model-checked:

* liveness, which with fairness and `ENABLED` is beyond the prover: `EveryBatchSettles`,
  `NobodyStarves`, `EveryFileLands`, `DueDeletionsSettle`, `EverySetTried`,
  `EveryHealthySetTurns`, `EveryCrossingPushed`, `GoogleSettles`, `PricedInTheEnd`.

Every safety property that a passing run checks has a theorem, some under the assumption that
the table names.

The five theorems about the rotation speak of an instance of it, `Rotation`, with its
assumption `Tier3RotationAssumption` as hypothesis, since its module and `BackfillRun`
share names. In both modules an order of the sets is a function from places to sets, and
a sorted queue one of the set of `Orders` in which neighbours are in order: the library's
sorts take an operator as argument, which the prover does not expand.

Where a proof needs induction the property is a set and the argument is its least
counterexample: `LeastNumber` (from the well-foundedness of the naturals) and
`SubsetInduction`. So `SubscriptionsProofs` derives what the library's `SumFunction` computes,
from a solution of its recursion that is built up to the size of its domain (`SumsExist`):
that the sum is a number, zero of zeros, and one more for one scan more (`SumBump`). The
induction theorems of the library, which take an operator, are not used.

## 4. Where code and comments part

`WriterHistory` ends in a counterexample: a request fails between the price upsert and
the snapshot insert (`import_pricecharting_catalog.py:1344`). The retry compares with
the price it wrote itself, sees no move, and the history never gets the price. The test
of exactly this failure says "clean retry redoes both sides".

What follows was seen while modelling and has no run of its own. Where a property had to
make room for it, the property is named.

*Batches.*
* A download run that dies after it set `downloaded` and before it published
  (`download_catalog_batch.py:410`) leaves a batch no reaper looks at; with a queue depth
  of one the rotation stops. Migration 20260908 (101-102) says a batch is never "stuck
  forever". A batch whose last ingest died is reaped to `validated` with no attempt left
  and stays there too (`EveryBatchSettles` excepts both).
* A reaper PATCHes rows it listed earlier. If another ingester reaped and claimed the batch
  in between, it is returned while it is written and claimed by a third: the double write
  the compare-and-swap of the claim is there to prevent (`IngestExclusiveWhileLeasesHold`).
* A download run takes its lease with an unconditional PATCH after reading the pending
  rows (`download_catalog_batch.py:328`): two runs would share a batch. The schedule starts one.
* `render.yaml:593` says that `--max-queue-depth 1` "is what makes this single-writer";
  `ingest_failed` is not counted, so a batch that will be retried and a new one are in
  flight together (`ClaimedOnce` says exactly when).
* Rows are stamped with the time of the ingest, not of the download: an older file that
  is retried after a newer one overwrites its prices.
* In the refresh by storage the download of an object is outside the `try`, and an import that
  raises leaves its row: either blocks its source until someone looks.

*Vendor slot.*
* A job whose ask fails paces itself and calls unseen by the others, and a refused CSV
  request is repeated without a slot: the comments of `_shared_rate_limiter.py:30-32`
  ("never faster than the published limit") and `backfill_pricecharting_sets.py:592-593`
  hold only while every ask is answered (`excused` in `WithinVendorLimit`).
* A transaction that began before midnight and gets the row lock after one that began later
  rolls `quota_date` back and resets every counter, so that a class may exceed its "HARD
  daily cap" (20260905:50) by a call (`BulkCapped`).

*Tier 3.*
* The shipped 4 probes (line 112) never take a batch of 100 apart as far as a dead set
  (`ShortBudgetIsBlind`): it gets no strike, against "their tier3_failure_count climbs" and
  "persistently-dead sets drop out" (lines 108-112). As soon as one probe is served, the
  batch is stamped, with the dead set and all sets the probes did not reach, against "each
  set is stamped after a successful write" (line 18); `StampsEarned` and `LeftUnprobed`
  make room for it.
* If no probe is served, which is so with a dead set among the first 12 of 100, nothing is stamped
  or struck: the batch heads the queue on every run, and when such batches fill the list the others
  wait for ever, against "rotating through EVERY completed sportscardspro set" (line 13;
  `CrowdedOut` in `EveryHealthySetTurns`).
* A dead set that answers 503 counts as an outage and is never struck.
* A set with a strike is listed after all without; the probes ask no slot of the limiter.

*Repricing, review and alerts.*
* The sweep writes back the whole `raw_json` it read a page earlier, over an admin's or
  user's edit in between, although `admin_review_queue_service.py:608-609` says it only
  ever writes pricing. The admins' own read, merge and PATCH checks no version either.
* `override_price` writes `estimated_value_low` and `_high` from the range it replaced, and
  `retry_pricing` takes the price away when it finds none.
* The triggered alerts are listed newest first up to a limit: older ones starve while
  that many newer ones cannot be delivered.

*Subscriptions.*
* A row keeps the token of the store it left, and a late notification of that token
  overwrites the plan the new store granted.
* An older Apple transaction delivered late overwrites a newer one (`overtaken` in
  `AppleHeard`). A notification whose token Google calls invalid is acknowledged and leaves
  the row as it was, a paid plan for good (`subscription_webhooks.py:56-59`, `disowned` in
  `GoogleHeard` and `GoogleSettles`).
* `get_entitlement` never looks at `current_period_end`: nothing but a notification ends a
  plan. Scans fail open, and at midnight the month's cap gives way by one (`MonthCapped`).

*Pricing.*
* `cache_policy.py:53-59` keeps a failed lookup for an hour ("cached briefly"), but few
  failures reach it as such: a 5xx or no connection becomes `provider_not_configured`, kept for seven days, and the
  aggregation turns rate limits and timeouts into `no_market_match`, kept for one to three
  days. So a throttled lookup hides the price for days (`PricedInTheEnd` holds only beyond them).
* KicksDB's second to fourth request of one lookup come within 250 ms of the first and are
  refused by its own throttle.
* Offers in two currencies make the aggregation give up: an item priced in AUD by one
  provider and in USD by another has no price.
* A promoted price is never updated.
* A price of the local catalog is remembered and cached like one of now, up to an hour after
  the table was read and however old the row is (`PricesFresh`).

*Deletion.*
* A deletion that fails after it emptied the tickets finds no attachments when it is
  repeated, and they stay in the bucket (`data_request_service.py:513-516`, `530`).
* The audit record raises an error `purge_due` does not catch, and the accounts after it
  wait for the next day, against "One failing account must not stop the rest"
  (data_request_service.py:361-364).
* A refused account deletion is counted and the request completed all the same; a
  half-emptied account can still be cancelled; `process_request` does not look at the
  status of the row, so a console that shows an old list can carry out a cancelled deletion.

## 5. Not modelled

| Part | Why |
|---|---|
| CSV refresh storage | one daily job that stages five bulk files as rows of the batch table under sources of its own, with the statuses and leases of `CatalogBatches`; what can interleave is in `BatchPipeline` |
| Tier-1 refresh | a sequential pass through the same writer; its one decision is a pure predicate |
| Support tickets | one or two requests on the rows of one ticket, one route at a time; their part in a deletion is in `AccountDeletion` |
| Run records, orphan closing | for people to read; no job decides anything by them |
| Matching, catalog search, recognition models | scoring and ranking of text: functions of data without state between calls |
| FX rates, other importers | one upsert from one source, and parsing |
| Sign-up guard | a sliding window inside one process |
| Admin services, health checks | reads, and writes of one row by one request |

Most of the repository's lines are of these kinds: text matching, formatting and mapping of
columns, on which an order of events has no bearing. Of the parts that are modelled
only in part (section 1), the missing operations are named in section 2 under "left out" and "simplified".
