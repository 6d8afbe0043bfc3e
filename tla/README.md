# A verification project for PolyBag

PolyBag is a shipping workstation: it imports orders, packs them into packages,
buys postage, prints labels, exports tracking numbers and closes the day with
manifests. It is a Laravel application; everything that runs at the same time
does so in separate PHP processes (page requests, queue workers, scheduled
commands) that share a database and a cache, and talk to carriers and channels
over HTTP. This directory holds TLA+ models of the parts where that concurrency
matters, what TLC checks of them, and what TLAPS proves.

Contents: [inventory](#inventory), [what is modelled](#what-is-modelled),
[runs](#runs), [findings](#findings), [proofs](#proofs),
[assumptions and limits](#assumptions-and-limits),
[not modelled](#not-modelled), [plan](#plan).

## Inventory

Paths are under `src/app/`. "Hard" names the behaviour that a test hardly
reaches; PROJECT.json lists each hazard at its line.

| Component | State it keeps | Operations | Interacts with | Hard | Correct when |
|---|---|---|---|---|---|
| Package shipping workflow (`Services/PackageShipping`) | cache locks `package-purchase:{id}` and `shipment-blind-purchase:{id}` | `prepareRates`, `ship`, `autoShip` | offer store, sellers, package | interleaved purchases, lost answers, death between two writes, a lock that lapses | no second purchase while one is unresolved; what was paid for is never forgotten |
| Offer store (`Services/PostageSources/OfferStore.php`) | rows of `shipping_offers` | `issue`, `inspect`, `redeem`, `recordPurchase`, `recordFailure`, `awaitingPurchaseConfirmation` | workflow, Amazon, `data:purge` | two claims at once; a failure recorded after a success | an offer is spent once and goes through one life |
| Amazon Buy Shipping (`AmazonBuyShippingAdapter`, `AmazonBuyShippingService`) | none here; Amazon remembers purchases by idempotency key | rates, `createShipment`, `recoverPurchase` | offer store | retries, an answer that proves nothing | a repeat under a key sells nothing new |
| Direct carriers (`Services/Carriers`) | none | rates, `createShipment`, void, track | workflow | no idempotency | - |
| Shopify Shipping (`ShopifyShippingLabelService`, `ShopifyFulfillmentSynchronizer`) | markers in `packages.metadata` | blind purchase, polling, resumption, void synchronisation | workflow, package | purchase accepted before the marker is saved; stale metadata saved whole | one label per fulfillment order |
| Package (`Models/Package.php`) | `status`, label and provenance columns | `markShipped`, `clearShipping` | everyone | compare-and-set on a status that can come back (void, ship again) | a label on record is not overwritten |
| Shipment (`Models/Shipment.php`) | `status` | `updateShippedStatus` | package | read then write | Shipped iff its items are |
| Label lifecycle (`PackageLabels`, `TrackingService`) | tracking and print columns | void, reprint, mark printed, refresh tracking | sellers, package | stale models saved after a call | an answer is written to the label it is about |
| Package drafts (`PackageDrafts`) | the Unshipped package and its items | resume, save, ready, batch-ready | shipment row lock | two stations | one active draft per shipment |
| Label batches (`BatchLabelService`, `GenerateLabelJob`) | `label_batches`, `label_batch_items`, counters | create batch, job, failure clean-up | queue, `autoShip` | redelivery after 90 s, deletion of packages | counters add up; no shipped package is deleted |
| Export (`PackageExportService`, `ExportShippedPackage`) | `package_exports`, `packages.exported` | claim, send, retry, give up | channels, void | lease of 15 minutes, retry racing a running worker | exported iff every destination has this label, or keeps another |
| Pick batches (`PickBatchService`) | `pick_batches`, pivot rows, `picking_status` | create, pick, complete, cancel, remove | shipments | rows read before the transaction | a shipment is in one active batch; counters add up |
| Manifests (`ManifestService`) | `manifests`, `packages.manifest_id` | SCAN form in chunks, retry, close | USPS | form made before it is recorded | a package is on one form |
| Import (`ShipmentImport`) | shipments, items, runs | chunked upsert | sources | re-import over edited orders | a source record maps to one shipment |
| Rates and rules (`RateSelector`, `RuleEvaluator`, `ShippingRateService`, `ServiceApprovalGate`) | approvals, observed services | classify, select for automation, grant, revoke | workflow | none in the selection, some in approval | nothing unapproved or unpriced is bought unattended |
| Carrier accounts (`CarrierAccount`) | scopes, priorities | `resolveForShipment` | adapters, workflow | scope edited between quote and purchase | the account that quoted buys |
| OAuth and sign-on (`OAuthService`, `SsoLoginService`, `AccountLockoutService`) | tokens, attempt counters | refresh, connect, lock out | connectors | rotated refresh tokens, lost increments | - |
| Settings, caches, retention (`SettingsService`, `CacheService`, `PurgeData`) | settings, `sandbox_mode` | save, purge | everyone | sandbox switched while a quote is open | an unresolved purchase is never purged |
| Screens, reports, validation, inference, PII and encryption commands | their own tables | forms and batch jobs | - | - | - |

How the core fits together: rate shopping asks Amazon for rates and the offer
store issues an offer for each; the page shows them; `ship()` takes the
package's lock, asks the seller about every purchase nobody answered for, claims
the chosen offer with one conditional UPDATE, calls the seller, stamps the
offer with the seller's shipment id and marks the package shipped with another
conditional UPDATE. Each of these is a separate transaction or HTTP call, and
the process can die or lose the answer after any of them.

## What is modelled

| Module | Models |
|---|---|
| `PostagePurchase` | buying postage: `ship()`, `autoShip()`, the offer store, the lock, Amazon and direct carriers, `data:purge`, the two clean-ups |
| `OfferLifecycle` | what the offer store promises of one offer, with nothing else in sight |
| `MCPostagePurchase` | symmetry sets for TLC |
| `PostagePurchase_proofs` | the theorems about `PostagePurchase` |
| `PackageExport` | telling channels the label: `exportPackage()`, its ledger, the queued listener, the sweep, retry by hand, against ship and void |
| `LabelExport` | what exporting a package promises of its label, with no ledger, claims, retries or sweeps |
| `PackageExport_proofs` | the theorems about `PackageExport` |
| `ShopifyPurchase` | blind purchases of Shopify labels: the second lock, the markers, resumption, and the synchroniser of voids |
| `ShopifyPurchase_proofs` | the theorems about `ShopifyPurchase` |
| `LabelLifecycle` | what becomes of a recorded label: void, print, track, SCAN form |
| `MCLabelLifecycle` | symmetry sets for TLC |
| `LabelLifecycle_proofs` | the theorems about `LabelLifecycle` |
| `PickBatch` | picking lists and the status of their shipments |
| `MCPickBatch` | an instance with two shipments, a bound and symmetry sets for TLC |
| `PickBatch_proofs` | the theorems about `PickBatch` |

The modules meet in the package row. `PostagePurchase` and `ShopifyPurchase`
are the two ways to a label and end where `markShipped()` records it.
`PackageExport`, `LabelLifecycle` and `PickBatch` begin there, each with the
columns and tables it is about: a `Ship` in them is any purchase that came
through. `clearShipping()` is in all of them that can lose a label.

### PostagePurchase

State and code:

| Variable | Code |
|---|---|
| `packages`, `label` | rows of `packages`; `label[p]` is the label columns, `# None` iff the status is Shipped |
| `rows`, `quotedFor`, `quotedIn`, `consumed`, `referenced`, `failed`, `expired` | rows of `shipping_offers` and their columns `package_id`, `environment`, `consumed_at`, `purchase_reference`, `purchase_failed_at`, `expires_at` |
| `lock` | cache lock `package-purchase:{id}` and who owns it |
| `sold` | what the sellers know: the labels that exist and cost money. A label is named by what the seller recognises a repeated purchase by: the offer for Amazon, nothing but the call itself for a direct carrier |
| `pc`, `asks`, `todo`, `recovering`, `mayDelete` | the local variables of each running request |
| `environment` | the setting `sandbox_mode` |

A `Request` is one call of `ship()`. Requests in `Manual` and `Job` are calls of
`autoShip()`: for the manual page, which deletes its package when the attempt
fails (`cleanupPackage`), and for `GenerateLabelJob`, which does so in
`handleFailure` after anything that is not a success. Steps of a request are cut
where the code leaves the process: one database statement, one remote call, or
one cache operation each.

```
TakeLock -> ListUnresolved -> (AskAgain -> StampRecovered -> ShipRecovered)* -> Relist
   |                                                                              |
TurnAway, NothingToBuy                     Inspect <------------------------------+
                                              |
                    RefuseLocally or Claim -> CarrierSells -> StampPurchase -> MarkShipped
                                              CarrierRefuses -> RecordDecline
                                              CarrierSilent
                                              |
                                           Release -> Cleanup
```

A refusal usually means that nothing was sold. The exception is a reply Amazon
accepts without naming a shipment (`AmazonBuyShippingService.php:244`), which the
driver throws as a refusal: the constant `RefusedMeansUnsold` says whether
`CarrierRefuses` may be that one.

Every path goes to `Release` (the `finally` of `ship()`), and every step may be
followed by `Crash`. Around the requests: `Quote`, `Expire`,
`SwitchSandboxMode`, `Purge`, `AbandonedLockExpires`, and `LockLapses`, the lock
running out under a request that is still at work.

The results of `ship()` are abstracted to what decides a deletion: "shipped",
"failed", or "intact" (`leavePackageIntact`).

What is left out of this module: blind purchases and their second lock (see
`ShopifyPurchase`), the customs-weight prompt's second round (a new call of `ship()`), rate quotes
logged for reports, and voids, which turn a Shipped package back to Unshipped.
So "the recorded label stays" is about purchases racing each other, not about an
operator who voids a label.

### OfferLifecycle

unquoted -> open -> spent -> bought or declined -> discarded, with two things
that are easy to get wrong: a confirmation overrides a refusal, never the other
way round, and an offer that is spent and not settled is never among the
discarded. `OffersLiveTheirLife` says that the columns, read through `StateOf`,
go through this life.

### PackageExport

State and code:

| Variable | Code |
|---|---|
| `shipped`, `voids`, `exported` | `packages.status`, the voids so far (so that `Label` numbers the labels), `packages.exported` |
| `overdue` | `shipped_at` is 24 hours ago and there is no ledger row: the scheduler's query passes the package over |
| `rows` | `package_exports`, unique by package and destination: `status`, `attempts`, an `id` that tells it from the row a void deleted, and `ripe`, what `updated_at` and `locked_at` are compared for: the backoff is over, or the lease is 15 minutes old |
| `heard` | the tracking number each destination has: the last it took, or for one in `Once` the first |
| `call` | the local variables of each running `exportPackage()` |
| `tries` | attempts left of each queued `ExportShippedPackage` |

A `Caller` is a queued listener, one for each label, or a sweep
(`packages:export`). Both run the same code on one package:

```
Listen, Sweep -> Load -> Insert -> Fetch -----------------------> Tell -> Settle
                           ^  \-> Look -> Reclaim -> Refresh ------^         |
                           |       |         |                               |
                           +-------+---------+-------------------------------+
                           |
                           +-> Count -> Flag
```

`Insert` is `insertOrIgnore`, `Reclaim` the conditional update of
`claimDestination()`; each query and the call to the destination are steps of
their own, and a row that has gone in between is an exception (`FetchFails`,
`RefreshFails`) that is retryable and written nowhere. `Settle` writes by row
id; `Flag` writes by package id. `Ship` and `Void` are the transactions of
`markShipped()` and `clearShipping()`, which deletes the ledger. A process may
die before it has queued the listener, and at any step.

A destination that accepts has not always taken what it was sent. Shopify fulfills
a fulfillment order once, and the driver counts "already fulfilled" as success
(`ShopifySource.php:482-489`), as Amazon's counts "already confirmed"; a void takes
nothing back there. `Once` is the set of such destinations, and `Taken` what one
has after a call: the number it had. `FulfilledElsewhere` gives it one that is not
this package's, `Elsewhere`, for packages of one shipment share the fulfillment
order. A database destination is overwritten by every call.

Three constants say how much of the timing the code leaves open is in play:
`VoidsWait`, a label is voided only while nothing exports the package;
`JobsKeepUp`, a listener runs only while a label is recorded; and `CallsAreShort`,
no call is still running when the lease on its claim is 15 minutes old. The code
enforces none of them. The theorems show what holds under them, `late_listener`
what fails without the second, and `export_racing` what holds without the first
two.

### LabelExport

A label is recorded; destinations are informed of it, acknowledged or given up;
the package is flagged; and a label that is withdrawn takes all of that along,
except at a destination that takes one number only. That one is served from then
on, as is one that somebody else gives a number: it counts without hearing of the
next label. `Promise` in `PackageExport` reads the six variables off the code's
state: a destination is informed if the tracking number it has is that of the
label there is, served if it is in `Once` and has another, told or given up by the
status of its ledger row, and the flag is `packages.exported`. `ExportKeepsItsPromise` says that this is a behaviour of
`LabelExport`. What could break it: a destination that counts and neither heard
this label nor keeps another, one that is told again after it counts or was given up, a flag that
is set early or outlives the label, an answer about one label counted for the
next.

### ShopifyPurchase

State and code:

| Variable | Code |
|---|---|
| `label` | the label columns of the packages of one shipment; `# None` iff the status is Shipped |
| `resultId`, `labelId` | `shopify_purchase_result_id` and `shopify_shipping_label_id` in `packages.metadata`, the markers |
| `lock`, `orderLock` | the cache locks `package-purchase:{id}` and `shipment-blind-purchase:{id}` |
| `shop` | what became of each purchase at Shopify |
| `call` | a running `ship()`: its package, the markers on the copy `createShipment()` loaded, the purchase it deals with |
| `visit` | a running `packages:sync-shopify-fulfillments`: the labels of the packages it loaded |
| `noted`, `lapses`, `cutShort` | history, for the properties: purchases a marker was ever saved for, locks lost by a live request, runs that died between the two writes of `applyVoid()` |

```
Begin -> LockOrder -> Revalidate -> Load -> Buy -> Note -> Poll -> Keep -> Fetch -> Merge -> Ship -> Release
             |            |          | \___________________^  \-> Forget ----------------------------^
             +------------+----------|-----------------------------------------------------------^
                                     +--------------------------------> Fetch
List -> (Ask | AskInVain | Ask -> Strip -> Clear)*
```

`Load` is where `purchase()` decides between a label to read again, a purchase
to await, and a new one. Markers are saved as one JSON column from the copy in
memory (`SaveMarkers`), but `markShipped()` reads the stored column once more
(`Merge`) and writes that with its marker (`Ship`). Whether Shopify accepts a second purchase for one fulfillment
order is left open: the model lets it, so what keeps the shop from being charged
twice is PolyBag's own doing. Around them Shopify settles purchases, the
merchant voids a label in the admin, processes die with or without locks, and
locks run out.

### PickBatch

State and code: `shipped` is `packages.status`; `status` and `picking` are the
two columns of `shipments`; `batch` and `total` are `pick_batches.status` and
`total_shipments`; `rows` is `pick_batch_shipments`. A `Clerk` is a process in
`markShipped()` or `clearShipping()`, a `User` one that serves a page of pick
batches:

```
Ship, Void -> Load -> Judge -> Write -> Find -> Remove -> Commit | Overrun
Create;  Open(finish) -> Finish;  Open(cancel) -> Cancel;  Tick -> Check -> Finish
```

Single queries are steps. The database runs transactions at MySQL's default,
REPEATABLE READ, which matters once: `removeFromActiveBatches()` deletes its row
and then asks what is left of the batch, and neither it nor a user who ticks
another row meanwhile sees the other's write. So its transaction is two steps,
`Remove` (what it sees) and `Commit` (what it does), between which its rows are
locked. The other transactions read under a lock or only once.

Three history variables name interleavings that the code does not guard against,
so that the properties can say what holds outside of them: `crossed`, a void and
a shipping of the same shipment computed its status at the same time; `torn`, a
row was ticked while such a transaction was open; `overtaken`, somebody acted on
a batch that had ended, or lost a shipment, since they looked at it. TLC refutes
the properties without each of these.

### LabelLifecycle

State and code: `label`, `tracked`, `delivered`, `printed` and `manifest` are
columns of `packages` (the label's, `tracking_*`, `delivered_at`,
`label_printed_at`, `manifest_id`), with for each the label it is about, which
the code does not record; `carrier` and `onForm` are what the carrier and USPS
know. A `Worker` voids, tracks, prints or manifests; between its reading of the
package and its write lies a call to a carrier, or a browser at a printer.

```
BeginVoid -> AskCarrier -> Clear    BeginTrack -> Record    BeginPrint -> CheckLabel -> MarkLabelPrinted
List -> (Send -> RecordForm | SendTaken -> MarkExternal -> ...)
```

Workers may die, or not hear the answer, after the carrier has acted (`Stop`).
`record()` works on a copy loaded before the call and saves what differs from that
copy: a worker keeps in `seen` whose date of delivery was on it, and an answer
says nothing of a delivery, gives a date the copy does not have, or the one it has,
which is not written (`DateAfter`).

`doubled`, `mixed` and `reported` are history: packages that two workers were
voiding at the same time, packages told something about a label they had lost, and
labels of which a date of delivery was ever recorded. The first two are the
exceptions the properties make: the code guards against neither interleaving, and
what is shown is that nothing else drops a good label or mixes two up.

## Runs

Passing runs:

| Run | Instance | Shows |
|---|---|---|
| `purchase_safety` | 2 packages (one with an Amazon source), 2 offers, a page request, a call of the manual page, a label job, 1 crash | `TypeOK`; a recorded label was sold, and for that package; nobody is at the carrier's door while another purchase on the package is unresolved; an offer with a sale behind it is on record as spent and not as declined; a package has one unresolved purchase at most, and one label that is paid for and on no record; a lock belongs to a request that runs or died |
| `purchase_lapse` | 1 package, 2 offers, 2 requests, 1 crash, sandbox switched once, locks may lapse, a refusal may be of a purchase that was made | no offer is spent by two requests; a recorded label stays; offers live the promised life; every lock comes back |
| `export_safety` | 2 destinations, one of which keeps its first number, 2 labels with a listener each, 1 sweep, 1 crash, 1 retry by hand, voids wait, listeners keep up, calls are short | `TypeOK`; a destination is in the hands of one call at a time; what succeeded stays so; the attempts are bounded, and those beyond the budget are paid for by deaths; a label flagged exported was told to every destination that did not have a number of its own; all this implements `LabelExport` |
| `export_racing` | 1 destination, 2 labels, 1 sweep, 1 crash, voids and listeners at any time, calls are short | a shipped package ends up flagged, voided, or with a destination given up, unless nobody gets to it for a day |
| `shopify_purchase` | 2 packages of one shipment, 2 requests, 1 synchroniser, 2 purchases, 1 void in the admin, 1 death, failed poll or lapsed lock | `TypeOK`; the shop is not charged twice for one order as far as PolyBag can know; a purchase on record can be found again; a voided label does not stay |
| `pick_batch` | a shipment of 2 packages and one of 1, 2 batches, 2 clerks, 2 users, 1 void or 1 death, 2 processes at work at a time | `TypeOK`; the shipment's status is what its packages say; a shipped shipment leaves its list; a shipment is on one list; the last pick ends the batch |
| `label_lifecycle` | 2 packages, 2 labels, 2 forms, 2 workers, 3 attempts, 1 death | `TypeOK`; no good label is dropped; a row speaks of the label it has; a delivery is remembered over answers to copies loaded before it; manifests and forms agree, and a run that ends leaves nothing behind |

About 550,000, 364,000, 1,105,000, 348,000, 565,000, 941,000 and 748,000
distinct states. Each property has a mutant, a
plausible mistake in the code that breaks it under the same configuration:

| Mutant | Mistake |
|---|---|
| `SpendableByAnyPackage` | the offer's package is not compared |
| `SpendableAgain` | the claim does not look at `consumed_at` |
| `BuyUnclaimed` | the purchase goes ahead on the advisory inspection, without a claim |
| `FailPurchased` | a refusal is recorded over a purchase on record |
| `OldEnough` | the purge goes by age alone |
| `GetLockRegardless` | the result of `$lock->get()` is not looked at |
| `Exists` | the package is updated by id alone |
| `AnswerDirectly` | a return outside the `try` |
| `AnyOpen` | the claim disregards the lease and the backoff |
| `ByIdAlone` | the claim is an update by id, without its condition |
| `GivesUpLate` | `>` for `>=` in `isPermanentFailure` |
| `KeptRows` | the void does not delete the ledger |
| `Unlimited` | `$tries` is not set on the listener |
| `Overlooked` | the sweep's query has no clause for rows that have all succeeded |
| `KeepBoth`, `KeepNeither` | the marker of the result outlives that of the label; both are dropped at once |
| `SiblingShipped` | a sibling counts as having bought only when it is Shipped |
| `Marked` | the synchroniser asks for the marker too, and misses a label whose `applyVoid()` was cut short |
| `Signed` | the counter of a batch goes below zero |
| `Always` | the shipment's status is written whether it differs from the copy or not |
| `AnyPending`, `AnyOpen` | a batch takes shipped shipments; it takes shipments of another batch |
| `NeverEnds` | a batch whose last unpicked row goes is left in progress |
| `KeepDate`, `Leave` | `clearShipping()` and `markShipped()` leave the delivery date, or the columns, of the label before |
| `GoOn` | the package is cleared although the carrier refused the void |
| `WholeCopy` | a tracking answer without a date writes back the copy's, not what the row has by now |
| `AllListed` | packages dropped from the request are put on the form all the same |
| `Nobody` | packages that USPS has on a form are dropped and not recorded |

The bounds. Two requests are the least that race; the third is there so that one
can recover what a second lost while yet another comes with its own offer, or to
be the job that deletes. Two offers let a second, different offer be spent
beside an unresolved one, and let one offer be asked about by two. Two packages are
needed only where packages can be mixed up, which is the first run. One crash
leaves a lock and an unresolved offer behind; a second one leaves the same, of
another request. Symmetry covers offers, packages of one kind and requests that
do not clean up; the run with a liveness property uses none.

For the export, a listener and a sweep are two calls of different kinds, the
listeners of two labels two of the same kind. Two destinations let one succeed
where the other fails, so that the flag waits for both, and one of them is in
`Once`; two labels are what a
stale row can be carried over to. `export_safety` has `MaxAttempts = 1`, where
the first failure is the last and a retry by hand gives another, and
`export_racing` 2, where backoffs and shared attempts occur; the theorems hold
for every value.

For Shopify, two packages of one shipment and two requests are the race the
second lock is for, and two purchases the double charge; the one mishap is spent
on a death, a poll without an answer or a lapsed lock, each at any step, and the
void on any label. There is a single synchroniser, as `withoutOverlapping()`
has it. That run is also the one with a liveness property, and uses no symmetry.

For pick batches a shipment of two packages gives two clerks who compute one
status, the other shipment is what remains of a batch when the first leaves it.
At most two processes are at work at a time (`MaxActive`, in a constraint), a
void or a death happens once (`MaxEvents`), and states after somebody was
overtaken are cut off, for the properties on batches say nothing of them; that
they would not hold there is seen by lifting the constraint.

For the life of a label two workers are the least that race, and two packages
the least for a form that one of them is dropped from. A second attempt is
reached; to give up after the last needs more packages than there are attempts,
and is left to the theorem.

Deadlock is not checked: every request is made once, and a system whose
requests are all done and whose offers are all settled has nothing left to do.

Fairness (`FairSpec`): weak fairness of each request's steps, for a PHP process
that runs keeps running and every remote call has a timeout; weak fairness of
the expiry of a dead process's lock, for the cache counts the 180 seconds. A
live lock need never lapse, nobody must quote, purge, crash or switch. In
`PackageExport`: a running call goes on, the scheduler starts a sweep of a
candidate (`routes/console.php`, every five minutes), backoffs end, and leases
of dead calls grow old. No listener need run: the sweep alone must do. In
`ShopifyPurchase`: the synchroniser starts while there is a Shipped package and
goes through its list (`routes/console.php:45-47`, every fifteen minutes);
nothing is asked of requests or of Shopify.

## Findings

Five runs check what a comment or a test says, and TLC finds it violated by
what the code does.

* `shipped_buys`: `ship()` never looks at the status of the package. Two pages
  open on one package, each with a rate of its own: the first ships it; the
  second then takes the free lock, finds nothing unresolved, claims its own
  offer and buys. Only `markShipped()` objects, after the money is spent. The
  lock makes purchases take turns; it does not make the second one stop.
* `confirmed_buys`: a purchase that Amazon confirmed but that came without a
  printable label or a tracking number is stamped, so it is no longer
  unresolved, and the package is not shipped. The next request buys again.
* `job_loses_offer`: a label job whose purchase timed out deletes the package
  and, by the foreign key's cascade, the offer that says a label may exist.
* `late_listener`: neither the listener nor `exportPackage()` looks at the
  status. A listener that starts after its label was voided (a backlog, or a
  retry after five minutes) tells a destination a null tracking number, which a
  database source and Shopify take, and writes a Succeeded row after the void
  has emptied the ledger. The next label inherits the row: it is flagged
  exported, and the destination never hears of it.
* `pick_after_cancel`: the rows of a cancelled batch keep their "Mark Picked"
  button, and ticking the last of them completes the batch: Cancelled becomes
  Completed, and shipments that went back to the pending list become Picked.

Met while modelling, without a run of its own: a label that is voided at Shopify
after it was bought and before it is recorded is recorded and printed all the
same, for `recoverPurchasedLabel()` does not ask and the synchroniser looks at
Shipped packages only; `VoidedLabelIsCleared` says that a later run clears it.
A package of a Shopify order that is exported, voided, shipped again and exported
again, with nothing overlapping, is flagged exported while the order keeps the
voided label's number, for the fulfillment is neither cancelled by the void nor
changed by the second export; the same goes for the second package of a shipment
(`Served`). The metadata that tells a label bought at Amazon stays through a void
as well, and keeps the next label of the package from being confirmed there.
`shipmentAlreadyBoughtALabel()` speaks of a void that "strips the markers in the
same write" as it un-ships the package; `applyVoid()` makes two writes, and
`SyncCrash` between them leaves a Shipped package without markers, which the
next run finds by its status. A package whose label was on a manifest keeps
`manifest_id` through a void, so its next label is not put on a form.

## Proofs

`PostagePurchase_proofs` proves, for every number of packages, offers, requests
and crashes:

| Theorem | Needs | Says |
|---|---|---|
| `TypeCorrect` | - | `TypeOK` |
| `OfferSpentByOne` | - | `OneRequestSpendsAnOffer`, also when locks lapse |
| `RecordedLabelIsGenuine` | - | `RecordedLabelWasSoldForThePackage` |
| `NothingSpentWhileUnresolved` | no lock lapses | `NoPurchaseWhileUnresolved` |
| `PaidOfferIsNeverForgotten` | no lock lapses, `RefusedMeansUnsold` | `PaidOfferKeepsItsEvidence` |
| `EveryLockHasAnOwner` | - | `LockHasAnOwner`, also when locks lapse |
| `UnresolvedOneAtATime` | no lock lapses | `OneUnresolvedPurchase` |
| `UnaccountedIsOne` | no lock lapses, `RefusedMeansUnsold` | `OneUnaccountedLabel` |
| `RecordedLabelIsNeverReplaced` | - | no step replaces the label on a package, also with locks that lapse and jobs that clean up |
| `RecordedLabelStays` | no request cleans up | `RecordedLabelIsFinal` |
| `OffersImplementLifecycle` | no label jobs | `OffersLiveTheirLife` (refinement of `OfferLifecycle`) |

The hypotheses are where the code stops giving the guarantee. "No lock lapses" is
what a comment of the code speaks of: a lock "that expires mid-purchase is
worse than one held too long". "No request cleans up" excludes label jobs and the
manual page, whose clean-up deletes a package by its id; what is left without it
is that no other label takes the place of the recorded one. `RefusedMeansUnsold`
excludes a sale that ends as a recorded refusal, against which the code has
nothing. "No label jobs"
excludes the behaviour of `job_loses_offer`.

The argument:

1. `TypeInv` strengthens `TypeOK` by `Names(r)`: the offers a request holds are
   claimed ones, quoted for the package it names. `TypeOK` alone is not
   inductive, for an offer must be known to be claimed when it is stamped.
2. `HoldsLock`: unless locks lapse, a request that runs owns its package's lock.
   So at most one request is at work on a package (`OneConcern`).
3. `Clear(r)`: from the last reading of the offer store to the carrier's door
   nothing is unresolved but the request's own claim. It is inductive because
   only a claim makes an offer unresolved (`AwaitingGrows`), and a claim on this
   package needs its lock.
4. `LabelInv` adds to the label property that a request about to record a label
   holds one that was sold, and that a call nobody has made has bought nothing.
5. `PaidInv` adds `Undisputed(r)`: no request asks about an offer that was
   declined, none is about to buy under an offer that has been sold under or
   declined, and none is about to record a refusal that a sale contradicts.
6. `AllClear` is `Clear` of every request: when a claim makes an offer unresolved,
   no other offer of its package is (`OneUnresolvedPurchase`).
7. `OneUnaccountedLabel` does not follow from that, for an unresolved offer that is
   deleted with its package stops nobody any more. `KeptInv` adds that an offer a
   label was sold under and not stamped, or may yet be sold under (`MaySell`),
   stays on file as long as its package does: the purge takes settled offers
   only. And nothing is sold for a package that is gone. So when a second label is
   sold, both offers would be on file and unresolved, which 6 rules out.
8. `ColumnSteps` sorts every step by what it does to the columns of an offer;
   each kind is a step of `OfferLifecycle` or a stutter.

`PackageExport_proofs` proves, for every number of destinations, sweeps,
attempts, tries, voids and crashes:

| Theorem | Needs | Says |
|---|---|---|
| `TypeCorrect` | - | `TypeOK` |
| `OneSender` | `VoidsWait`, `CallsAreShort` | `OneSenderPerDestination` |
| `BudgetIsKept` | `VoidsWait`, `CallsAreShort` | `GivesUpInTime` |
| `SucceededStaysFinal` | `VoidsWait`, `CallsAreShort` | `SucceededIsFinal` |
| `AttemptsArePaidFor` | `VoidsWait`, `CallsAreShort` | `AttemptsAreAccountedFor` |
| `FlagIsTrue` | `VoidsWait`, `JobsKeepUp`, `CallsAreShort` | `ExportedMeansTold` |
| `ExportImplementsLabelExport` | `VoidsWait`, `JobsKeepUp`, `CallsAreShort` | `ExportKeepsItsPromise` (refinement of `LabelExport`) |

The argument: `LedgerInv` strengthens "one sender" and the budget by `Owns(c)`, a
call between claim and answer finds its row processing, under a running lease,
with the id and the attempts it loaded. So a row that can be inserted, claimed,
reopened or found stale has no sender, and the sender that settles compares the
attempts that are in the row. `ToldInv` then follows the label: a call runs for
the label there is, sends it, and a row succeeds only after its destination took
it or, for one in `Once`, kept what it had, which is never a null number
(`Known`); `SucceededStays` carries that to the count and the flag.

`Counted(d)` makes `AttemptsAreAccountedFor` inductive: a row that is processing in
nobody's hands (`Held`) has an attempt to spare, for the call that held it has
died. A retryable row has one to spare because its budget is kept
(`GivesUpInTime`), so whoever takes a row over stays within the bound.

For `ExportImplementsLabelExport` the initial states map to the initial state, and
`PromiseSteps` sends each action to one of `LabelExport` or to a stutter: `Ship` to
`Record`, `Void` to `Withdraw`, a `Tell` that was heard to `Inform` or, at a
served destination, to a stutter, `FulfilledElsewhere` to `Serve`, `Settle` to
`Acknowledge`, `GiveUp` or a stutter by its outcome, `RetryByHand` to `Reopen`, the
flag to `Flag`. It needs all of the above, and `BlankInv`: no destination has heard
of a label before it is recorded, and a package without a label has no rows.

`LabelLifecycle_proofs` proves, for every number of packages, labels, forms,
workers, attempts and deaths:

| Theorem | Needs | Says |
|---|---|---|
| `TypeCorrect` | - | `TypeOK` |
| `GoodLabelIsKept` | - | `LiveLabelIsOnRecord` |
| `ToldOfTheRightLabel` | - | `RowSpeaksOfItsLabel` |
| `DeliveryStays` | - | `DeliveryIsRemembered` |
| `FormsAreTrue` | - | `FormsHoldTheirLabels` |
| `NothingLeftBehind` | - | `RunRecordsItsForms` |

The argument: `WorkSteps` and `RowSteps` sort the steps by what they do to a
worker and to the rows, and each invariant goes by those kinds. `TypeInv` adds
that a worker between its reading and its write has something in memory
(`Situated`). `OwnerInv`: a label on a row, or in a worker's memory, was bought
for that package, and an owner never changes. `VoidInv`: outside `doubled`, the
one worker that voids a package has the label that is on it, and clears it only
when the carrier has voided that label. `FormInv`: when a form is about to be
recorded, USPS has the listed label of each package of the request on it.
`DeliveryInv`: a date on a copy of the label that is there means a date on the
row, and only a label that was sold was ever reported delivered, so that a label
cannot come back without its date. `RunInv`: a package that a run dropped from its request is on a manifest, or has
lost the label that was listed; so at the end only those of the last request
need be looked at.

`ShopifyPurchase_proofs` proves, for every number of packages, requests,
purchases, voids and mishaps:

| Theorem | Needs | Says |
|---|---|---|
| `TypeCorrect` | - | `TypeOK` |
| `PurchaseStaysFindable` | one synchroniser | `KnownPurchaseIsFindable` |
| `ChargedOnce` | one synchroniser | `OneKnownPurchase` |

The hypothesis is what `withoutOverlapping()` gives. The argument:

1. `TypeInv`: a request between its purchase and the end knows which purchase it
   deals with, a run about to un-ship a package has found a label on it.
2. `UsedInv`: nobody knows a purchase that has not been made.
3. `LockInv`: unless a lock lapses, a request past `LockOrder` holds the lock of
   the fulfillment order, and so is the only one.
4. `OrderInv`, under the same condition: a package has one marker at most, one
   package of the shipment has a marker or a label, and what the request with
   the lock has in memory agrees with the rows (`Knows`). That is why two
   packages do not buy, and it is not inductive without the other two.
5. `CalmInv`, if besides no run died between its two writes: a recorded label has
   its marker, the labels a run has listed are still on their packages, it
   strips only voided ones, and so whatever is charged is found.
   `ChargedOnce` follows: two purchases that are found are the one marker of the
   one package.

`PickBatch_proofs` proves, for every number of packages, batches, clerks, users,
voids and mishaps, and any finite set of shipments:

| Theorem | Needs | Says |
|---|---|---|
| `TypeCorrect` | - | `TypeOK` |
| `StatusIsTrue` | - | `StatusFollowsThePackages` |
| `OnOneList` | - | `OneListPerShipment` |
| `ShippedIsTakenOff` | - | `ShippedLeavesTheLists` |
| `BatchesEnd` | - | `LastPickEndsTheBatch` |

The argument:

1. `StatusInv`: while only one kind of process is at work on a shipment its
   packages move one way, so what a clerk computed is still right or equals the
   copy it has, and then it writes nothing. As long as the status is wrong there
   is a clerk that is yet to read it, or has read it as it is (`Fixing`).
2. `HoldInv`: a batch is in one transaction at a time, and a transaction that
   leaves the batch in progress leaves a row to pick, for nobody ticked one
   meanwhile. So the last row to go takes the batch with it.
3. `InBounds`: a counter never exceeds the rows of its batch, and a decrement that
   takes no row only widens the gap. So counters that are right now were always
   right (`QuietBefore`), and a clerk that takes a row out finds it there.
4. `OneList`, from 3: what takes a shipment's status off "batched" takes the
   shipment off its list, or ends that list.
5. `OneFound`: so a clerk finds its shipment on one list, whose counter is not
   zero, and nothing but a death stops it before the row is gone (`OnItsWay`).

Constants are assumed to be distinct where the code's ids are, bounds to be
natural numbers (`IdentitiesAssumption`, `ExportAssumption`, `ShopifyAssumption`,
`LifecycleAssumption`, `PickAssumption`, which also has finitely many shipments,
so that they can be counted); TLC evaluates those assumptions in every run.

Only model-checked: the liveness properties (`LockIsReturned`, whose safety half
is `LockHasAnOwner`; `EventuallyExported`; `VoidedLabelIsCleared`), for the prover
has no fairness, and the cases the hypotheses above exclude, as far as the runs include them
(`purchase_safety` has label jobs, `purchase_lapse` has lapsing locks and refusals
of purchases that were made, `export_racing` has voids and listeners at any time). Every other property of a
passing run is proved.

## Assumptions and limits

* Amazon sells at most one label under an idempotency key. A reply the code takes
  for a refusal means that nothing was sold (`RefusedMeansUnsold`) wherever a
  property speaks of paid labels. Two replies may not mean that: one that Amazon
  accepted without a shipment id, and one to a retry by the HTTP library, which
  sends a purchase up to three times and is not in the repository. Both are listed
  as hazards; `purchase_lapse` has them in play.
* `sandbox_mode` is read when an offer is issued, inspected and claimed; that
  the connector chooses its host at the moment it sends is not modelled.
* A seller answers a direct purchase with a label of its own every time it is
  asked. The code has no protection there and promises none.
* A purge meets offers that are days old: it does not delete an offer a running
  request names.
* Amazon is asked for a label in the step that looked the package up. A package
  deleted between the two would be bought for all the same; TLC finds
  `OneUnaccountedLabel` and its companions true in `purchase_safety` also when that
  guard is dropped.
* Each request is made once; a packer who presses the button again is another
  request.
* A lease goes stale only when its call has died (`CallsAreShort`), in all runs and
  in every theorem that needs it: a driver makes one call with an HTTP timeout far
  below 15 minutes. With a slower sender, two calls send at once and one's failure
  could be written over the other's success.
* A void under a running export (without `VoidsWait`) and a listener that outlives
  its label (without `JobsKeepUp`) do break the flag; what is said of the flag is
  said under both.
* A destination that answers with an error may have acted on the call; one that
  rejects it for good has not. Delivery is therefore at least once: a call that
  dies between `Tell` and `Settle` is made again.
* A destination in `Once` keeps the number it has whatever it is sent. Whether it
  is the right one to keep is not the model's to say: the properties name these
  destinations (`Served`) and say what holds of all others.
* The set of destinations is fixed. `EventuallyExported` holds for a package that a
  sweep gets to within the 24 hours the scheduler looks back (`overdue`); the limit
  of 100 packages a sweep is left out, for one package is modelled.
* A carrier voids a label once and refuses a label it has voided; USPS takes a
  label on one form and names every label of a request that is on another.
* The synchroniser's window (30 days, no delivery recorded) is taken to be open:
  a label voided later than that is nobody's business in the code either. The
  tracking it records besides is left out of `ShopifyPurchase`.
* Shopify names the label of a purchase by the purchase: two purchases never
  return the same label.
* Each package of a shipment in `PickBatch` holds items no other package holds,
  so that "every item is in a Shipped package" is "every package is Shipped".
* A SCAN form run is one chunk; a package is listed by the day's run for its ship
  date whatever that date is.
* The manual page creates the package it ships, without an order source, in the
  same call: nobody else has it when that call begins.

## Not modelled

* Label batches as such (`BatchLabelService`, the counters and the status that
  the jobs of a Bus batch share): what a job that is delivered twice does to the
  Bus batch is decided by the framework, which is not in the repository. What a
  job buys and deletes is in `PostagePurchase`.
* Package drafts: every operation that writes locks the shipment first, so they
  take turns, and what is left is the validation of one form.
* Rate selection, rules, approval, and carrier account precedence: functions
  over lists of rates. Their outcome, a rate or none, is an input here.
* Import, account lockout, token refresh: small read-modify-write sequences
  with one row each; the hazards are listed.
* Validation, service inference, catalogues, screens, reports, PII and
  encryption commands: no state that another part races for.
* JavaScript: the repository's `.js` files are the build configuration, a few
  lines of glue for printing and scanning, and minified assets that the Filament
  framework publishes under `public/js`. The program is the PHP under `app/`.

## Plan

The order followed so far was: purchases, export, Shopify, labels, pick batches,
each with its proofs, then the abstract export and the invariants that count what
is unresolved, unaccounted for and attempted. What could come next, with one run
for one question each:

1. `LabelBatch`: job redelivery, counters and final status, against a stated
   assumption of what a Bus batch does. Question: do successes and failures add
   up, and is a package that has a label ever deleted?
2. `RateSelection`: `RateSelector`, approval and rules as operators, checked
   against a declarative definition of "the cheapest priced and approved rate
   that arrives in time".
