--------------------------- MODULE PostagePurchase ---------------------------
(***************************************************************************)
(* Buying postage for a package: EloquentPackageShippingWorkflow::ship()   *)
(* and autoShip(), the offer store they claim offers from, the cache lock  *)
(* that is meant to make one purchase at a time per package, Amazon and    *)
(* direct carriers on the other side of the network, and the housekeeping  *)
(* that deletes rows (data:purge, the clean-up after a failed autoShip).   *)
(*                                                                         *)
(* A Request is one call of ship(): it reads, calls out, and writes in     *)
(* separate steps, so that requests interleave wherever PHP processes can. *)
(* "sold" is what the carriers know; the other tables are what PolyBag     *)
(* knows, and the properties relate the two.                               *)
(***************************************************************************)
EXTENDS Naturals

CONSTANTS
  Package,      \* rows of packages
  Sourced,      \* packages whose order came from an Amazon source: only they get offers
  Offer,        \* identifiers of rows of shipping_offers
  Request,      \* calls of ship(), each made once
  Manual,       \* those made by autoShip() for the manual page, which cleans up
  Job,          \* those made by autoShip() for a GenerateLabelJob, which cleans up too
  None,         \* no package, offer, label or lock holder
  LockMayLapse, \* may the 180 s lock expire under a request still running?
  RefusedMeansUnsold, \* is every purchase the carrier's driver rejects one not made?
  MaxCrashes,   \* bound: processes that die
  MaxSwitches   \* bound: times sandbox mode is switched

ASSUME IdentitiesAssumption ==
  /\ Offer \cap Request = {}
  /\ None \notin Package \cup Offer \cup Request
  /\ Sourced \subseteq Package
  /\ Manual \cup Job \subseteq Request
  /\ Manual \cap Job = {}
  /\ LockMayLapse \in BOOLEAN
  /\ RefusedMeansUnsold \in BOOLEAN
  /\ MaxCrashes \in Nat
  /\ MaxSwitches \in Nat

VARIABLES
  packages,     \* the packages that exist
  label,        \* the label recorded on a package; a package is Shipped iff it has one
  rows,         \* the offers on file
  quotedFor,    \* package_id of an offer
  quotedIn,     \* environment of an offer
  consumed,     \* offers with consumed_at
  referenced,   \* offers with purchase_reference
  failed,       \* offers with purchase_failed_at
  expired,      \* offers whose expires_at has passed
  lock,         \* holder of the cache lock package-purchase:{id}
  sold,         \* labels the carriers have sold
  pc,           \* what each request does next
  asks,         \* the package and the offer each request names
  todo,         \* unresolved offers a request still has to ask about
  recovering,   \* the unresolved offer whose answer a request is handling
  mayDelete,    \* calls whose caller will delete the package when they end
  environment,  \* sandbox or production, from the settings
  crashes, switches

offerVars   == <<rows, quotedFor, quotedIn, consumed, referenced, failed, expired>>
requestVars == <<pc, asks, todo, recovering, mayDelete>>
boundVars   == <<crashes, switches>>
vars == <<packages, label, offerVars, lock, sold, requestVars, environment, boundVars>>

\* A label is named by what the seller recognises a repeated purchase by: the
\* offer, for Amazon, and nothing but the call itself for a direct carrier.
Label == Offer \cup Request

Environments == {"production", "sandbox"}
Answers == {"shipped", "failed", "intact"}
Holding == {"settle", "chase", "stampRecovered", "shipRecovered", "relist", "inspect",
            "claim", "purchase", "stamp", "decline", "markShipped", "release"}
Steps == {"idle", "cleanup", "done", "dead"} \cup Holding

Unattended == Manual \cup Job

Bound(r) == IF asks[r].offer = None THEN r ELSE asks[r].offer

-----------------------------------------------------------------------------
(* The offer store.                                                        *)

Awaiting(p) ==
  {o \in rows : quotedFor[o] = p /\ o \in consumed /\ o \notin referenced \cup failed}

Open(o) == o \in rows /\ quotedIn[o] = environment /\ o \notin expired

\* Two mutants: any package's offer will do, and an offer may be spent again.
SpendableByAnyPackage(o, p) == Open(o) /\ o \notin consumed
SpendableAgain(o, p) == Open(o) /\ quotedFor[o] = p

Spendable(o, p) == Open(o) /\ quotedFor[o] = p /\ o \notin consumed

\* redeem(): nothing to claim for a rate without an offer. The mutant buys on
\* the strength of the advisory inspection alone.
BuyUnclaimed(o) == UNCHANGED consumed

Redeem(o) == consumed' = consumed \cup ({o} \ {None})

\* recordPurchase() writes to a row that is there; its refresh() throws if not.
RecordPurchase(o) == referenced' = referenced \cup ({o} \cap rows)

\* recordFailure() settles only an offer that no purchase settled before. The
\* mutant lets a late refusal speak against a purchase on record.
FailPurchased(o) == failed' = failed \cup ({o} \cap rows)

RecordFailure(o) == failed' = failed \cup ({o} \cap (rows \ referenced))

\* What data:purge may delete of the offers that are old enough. The mutant
\* goes by age alone.
OldEnough(o) == TRUE

Purgeable(o) == o \in consumed => o \in referenced \cup failed

Init ==
  /\ packages = Package
  /\ label = [p \in Package |-> None]
  /\ rows = {} /\ consumed = {} /\ referenced = {} /\ failed = {} /\ expired = {}
  /\ quotedFor = [o \in Offer |-> None]
  /\ quotedIn = [o \in Offer |-> "production"]
  /\ lock = [p \in Package |-> None]
  /\ sold = {}
  /\ pc = [r \in Request |-> "idle"]
  /\ asks = [r \in Request |-> [package |-> None, offer |-> None]]
  /\ todo = [r \in Request |-> {}]
  /\ recovering = [r \in Request |-> None]
  /\ mayDelete = {}
  /\ environment = "production"
  /\ crashes = 0 /\ switches = 0

-----------------------------------------------------------------------------
(* Around the purchase: quotes, settings, time and housekeeping.           *)

\* Rate shopping stores an offer for every rate it may show. It takes no lock.
Quote(o, p) ==
  /\ p \in packages \cap Sourced
  /\ quotedFor[o] = None
  /\ rows' = rows \cup {o}
  /\ quotedFor' = [quotedFor EXCEPT ![o] = p]
  /\ quotedIn' = [quotedIn EXCEPT ![o] = environment]
  /\ UNCHANGED <<packages, label, consumed, referenced, failed, expired, lock, sold,
                 requestVars, environment, boundVars>>

\* The window closes. Nobody looks at the window of a consumed offer.
Expire(o) ==
  /\ o \in rows \ (expired \cup consumed)
  /\ expired' = expired \cup {o}
  /\ UNCHANGED <<packages, label, rows, quotedFor, quotedIn, consumed, referenced, failed,
                 lock, sold, requestVars, environment, boundVars>>

SwitchSandboxMode ==
  /\ switches < MaxSwitches
  /\ switches' = switches + 1
  /\ environment' = CHOOSE e \in Environments : e # environment
  /\ UNCHANGED <<packages, label, offerVars, lock, sold, requestVars, crashes>>

\* data:purge. Retention is counted in days and a purchase in minutes, so the
\* offer's window has closed and no request that is still running names it.
Purge(o) ==
  /\ o \in rows \cap (expired \cup consumed)
  /\ \A r \in Request :
       pc[r] \in Holding => o # asks[r].offer /\ o # recovering[r] /\ o \notin todo[r]
  /\ Purgeable(o)
  /\ rows' = rows \ {o}
  /\ UNCHANGED <<packages, label, quotedFor, quotedIn, consumed, referenced, failed, expired,
                 lock, sold, requestVars, environment, boundVars>>

-----------------------------------------------------------------------------
(* Steps of a request.                                                     *)

At(r, step) == pc[r] = step

GoTo(r, step) == pc' = [pc EXCEPT ![r] = step]

\* What is answered decides what the caller deletes. autoShip() itself keeps the
\* package when the attempt "shipped" or came back "intact" (leavePackageIntact);
\* GenerateLabelJob::handleFailure() keeps it only when the attempt "shipped".
Keeps(r) == IF r \in Job THEN {"shipped"} ELSE {"shipped", "intact"}

Reply(r, outcome) ==
  mayDelete' = IF outcome \in Keeps(r) THEN mayDelete \ {r} ELSE mayDelete

\* Answer the caller, on the way out through "finally". The mutant returns from
\* outside the try.
AnswerDirectly(r, outcome) == GoTo(r, "done") /\ Reply(r, outcome)

Answer(r, outcome) == GoTo(r, "release") /\ Reply(r, outcome)

Untouched(p) == \A r \in Request : asks[r].package # p

\* A caller of ship() loads the package. It is the Ship page, with the rate a
\* packer picked, possibly long ago; or a label job, with a rate just quoted; or
\* the manual page, with a package it has just created and no offers. The last
\* two delete an Unshipped package, and know its status from the copy they load.
Asks(r, p, o) ==
  /\ At(r, "idle")
  /\ p \in packages
  /\ o # None => quotedFor[o] \in (IF r \in Job THEN {p} ELSE Package)
  /\ r \in Manual => p \notin Sourced /\ Untouched(p) /\ o = None
  /\ asks' = [asks EXCEPT ![r] = [package |-> p, offer |-> o]]

Deletable(r, p) == IF r \in Unattended /\ label[p] = None THEN {r} ELSE {}

Finish(r) == GoTo(r, IF r \in Unattended THEN "cleanup" ELSE "done")

\* Cache::lock()->get(). The mutant does not look at what it returned.
GetLockRegardless(p) == TRUE

GetLock(p) == lock[p] = None

TakeLock(r, p, o) ==
  /\ Asks(r, p, o)
  /\ GetLock(p)
  /\ lock' = [lock EXCEPT ![p] = r]
  /\ GoTo(r, "settle")
  /\ mayDelete' = mayDelete \cup Deletable(r, p)
  /\ UNCHANGED <<packages, label, offerVars, sold, todo, recovering, environment, boundVars>>

\* An attempt that ends before it has the lock: "Purchase In Progress", for the
\* lock is taken without waiting, ...
TurnAway(r, p, o) ==
  /\ Asks(r, p, o)
  /\ ~GetLock(p)
  /\ mayDelete' = mayDelete \cup (IF "intact" \in Keeps(r) THEN {} ELSE Deletable(r, p))
  /\ Finish(r)
  /\ UNCHANGED <<packages, label, offerVars, lock, sold, todo, recovering, environment,
                 boundVars>>

\* ... or autoShip() found no rate it may buy unattended.
NothingToBuy(r, p) ==
  /\ r \in Unattended
  /\ Asks(r, p, None)
  /\ mayDelete' = mayDelete \cup Deletable(r, p)
  /\ Finish(r)
  /\ UNCHANGED <<packages, label, offerVars, lock, sold, todo, recovering, environment,
                 boundVars>>

\* The variables of settleEarlierPurchases() go out of scope.
Forget(r) ==
  /\ todo' = [todo EXCEPT ![r] = {}]
  /\ recovering' = [recovering EXCEPT ![r] = None]

\* settleEarlierPurchases(), the first reading of the unresolved offers.
ListUnresolved(r) ==
  /\ At(r, "settle")
  /\ todo' = [todo EXCEPT ![r] = Awaiting(asks[r].package)]
  /\ GoTo(r, IF Awaiting(asks[r].package) = {} THEN "inspect" ELSE "chase")
  /\ UNCHANGED <<packages, label, offerVars, lock, sold, asks, recovering, mayDelete,
                 environment, boundVars>>

\* recoverPurchase() sends the purchase again under the offer's own key, so
\* that Amazon sells at most one label under it. Any answer that is not a sale
\* - a refusal, an exception, silence - leaves the offer as it was.
AskAgain(r, o) ==
  /\ At(r, "chase")
  /\ o \in todo[r]
  /\ todo' = [todo EXCEPT ![r] = @ \ {o}]
  /\ \/ /\ asks[r].package \in packages
        /\ sold' = sold \cup {o}
        /\ recovering' = [recovering EXCEPT ![r] = o]
        /\ GoTo(r, "stampRecovered")
     \/ /\ \/ sold' = sold
           \/ asks[r].package \in packages /\ sold' = sold \cup {o}
        /\ UNCHANGED <<pc, recovering>>
  /\ UNCHANGED <<packages, label, offerVars, lock, asks, mayDelete, environment, boundVars>>

\* AmazonBuyShippingService::purchase() stamps the shipment's id the moment it
\* is confirmed; only then does it read the label, which may be missing or
\* carry no tracking number. Either way the loop goes on to the next offer.
\* A row that has gone makes the stamp throw, which counts as "cannot say".
StampRecovered(r) ==
  LET o == recovering[r] IN
  /\ At(r, "stampRecovered")
  /\ RecordPurchase(o)
  /\ \/ o \in rows /\ GoTo(r, "shipRecovered")
     \/ GoTo(r, "chase")
  /\ UNCHANGED <<packages, label, rows, quotedFor, quotedIn, consumed, failed, expired, lock,
                 sold, asks, todo, recovering, mayDelete, environment, boundVars>>

\* The condition of the UPDATE in Package::markShipped(). The mutant updates by
\* the package's id alone.
Exists(p) == p \in packages

Shippable(p) == p \in packages /\ label[p] = None

\* Package::markShipped() is one conditional UPDATE, and throws when it changes
\* nothing. The offer's reference is filled first if it is still blank, which
\* throws if the row is gone.
RecordLabel(r, l) ==
  LET p == asks[r].package
      filed == l \in Offer => l \in rows
  IN
  /\ RecordPurchase(l)
  /\ IF filed /\ Shippable(p)
       THEN label' = [label EXCEPT ![p] = l] /\ Answer(r, "shipped")
       ELSE label' = label /\ Answer(r, "intact")
  /\ Forget(r)
  /\ UNCHANGED <<packages, rows, quotedFor, quotedIn, consumed, failed, expired, lock, sold,
                 asks, environment, boundVars>>

ShipRecovered(r) ==
  /\ At(r, "shipRecovered")
  /\ RecordLabel(r, recovering[r])

\* The loop is over: what still awaits an answer blocks the package.
Relist(r) ==
  /\ At(r, "chase")
  /\ todo[r] = {}
  /\ IF Awaiting(asks[r].package) = {}
       THEN GoTo(r, "inspect") /\ UNCHANGED mayDelete
       ELSE Answer(r, "intact")
  /\ Forget(r)
  /\ UNCHANGED <<packages, label, offerVars, lock, sold, asks, environment, boundVars>>

\* OfferStore::inspect() is advisory; a rate with no offer has nothing to inspect.
Inspect(r) ==
  /\ At(r, "inspect")
  /\ IF asks[r].offer = None \/ Spendable(asks[r].offer, asks[r].package)
       THEN GoTo(r, "claim") /\ UNCHANGED mayDelete
       ELSE Answer(r, "intact")
  /\ UNCHANGED <<packages, label, offerVars, lock, sold, asks, todo, recovering,
                 environment, boundVars>>

\* Everything that can fail locally fails before the offer is claimed: an
\* account that no longer resolves, nobody to dispatch to, a customs prompt, a
\* missing declared value.
RefuseLocally(r, outcome) ==
  /\ At(r, "claim")
  /\ outcome \in {"failed", "intact"}
  /\ Answer(r, outcome)
  /\ UNCHANGED <<packages, label, offerVars, lock, sold, asks, todo, recovering,
                 environment, boundVars>>

\* OfferStore::redeem(): one conditional UPDATE, which re-checks everything.
Claim(r) ==
  LET o == asks[r].offer IN
  /\ At(r, "claim")
  /\ IF o = None \/ Spendable(o, asks[r].package)
       THEN /\ Redeem(o)
            /\ GoTo(r, "purchase") /\ UNCHANGED mayDelete
       ELSE consumed' = consumed /\ Answer(r, "intact")
  /\ UNCHANGED <<packages, label, rows, quotedFor, quotedIn, referenced, failed, expired,
                 lock, sold, asks, todo, recovering, environment, boundVars>>

\* An Amazon purchase looks its package up first, and declines without one.
Reaches(r) == asks[r].offer = None \/ asks[r].package \in packages

\* createShipment() is answered with a sale.
CarrierSells(r) ==
  /\ At(r, "purchase")
  /\ Reaches(r)
  /\ sold' = sold \cup {Bound(r)}
  /\ GoTo(r, IF asks[r].offer = None THEN "markShipped" ELSE "stamp")
  /\ UNCHANGED <<packages, label, offerVars, lock, asks, todo, recovering, mayDelete,
                 environment, boundVars>>

\* createShipment() is answered with a refusal, or with what the driver takes for
\* one: Amazon accepts a purchase, and does not say as which shipment.
CarrierRefuses(r) ==
  /\ At(r, "purchase")
  /\ \/ sold' = sold
     \/ ~RefusedMeansUnsold /\ Reaches(r) /\ sold' = sold \cup {Bound(r)}
  /\ GoTo(r, "decline")
  /\ UNCHANGED <<packages, label, offerVars, lock, asks, todo, recovering, mayDelete,
                 environment, boundVars>>

\* No answer: a timeout, a dropped connection, a token that could not be
\* refreshed. The label may have been sold. Nothing is written.
CarrierSilent(r, outcome) ==
  /\ At(r, "purchase")
  /\ outcome \in {"failed", "intact"}
  /\ Answer(r, outcome)
  /\ \/ sold' = sold
     \/ Reaches(r) /\ sold' = sold \cup {Bound(r)}
  /\ UNCHANGED <<packages, label, offerVars, lock, asks, todo, recovering, environment,
                 boundVars>>

\* The shipment's id is stamped, then the label is read: without a document
\* or a tracking number the adapter reports a failure.
StampPurchase(r) ==
  LET o == asks[r].offer IN
  /\ At(r, "stamp")
  /\ RecordPurchase(o)
  /\ IF o \in rows
       THEN /\ GoTo(r, "markShipped") \/ GoTo(r, "decline")
            /\ UNCHANGED mayDelete
       ELSE Answer(r, "intact")
  /\ UNCHANGED <<packages, label, rows, quotedFor, quotedIn, consumed, failed, expired, lock,
                 sold, asks, todo, recovering, environment, boundVars>>

\* OfferStore::recordFailure() settles an offer that is not settled yet.
RecordDecline(r) ==
  LET o == asks[r].offer IN
  /\ At(r, "decline")
  /\ RecordFailure(o)
  /\ Answer(r, IF o = None \/ o \in rows THEN "failed" ELSE "intact")
  /\ UNCHANGED <<packages, label, rows, quotedFor, quotedIn, consumed, referenced, expired,
                 lock, sold, asks, todo, recovering, environment, boundVars>>

MarkShipped(r) ==
  /\ At(r, "markShipped")
  /\ RecordLabel(r, Bound(r))

\* The finally of ship(): the lock is released by its owner only.
Release(r) ==
  LET p == asks[r].package IN
  /\ At(r, "release")
  /\ lock' = IF lock[p] = r THEN [lock EXCEPT ![p] = None] ELSE lock
  /\ Finish(r)
  /\ UNCHANGED <<packages, label, offerVars, sold, asks, todo, recovering, mayDelete,
                 environment, boundVars>>

\* cleanupPackage(), or the job's handleFailure(), deletes the package by its id
\* whatever has become of it since it was loaded. Its offers go with it
\* (cascadeOnDelete).
Cleanup(r) ==
  LET p == asks[r].package IN
  /\ At(r, "cleanup")
  /\ IF r \in mayDelete
       THEN /\ packages' = packages \ {p}
            /\ rows' = {o \in rows : quotedFor[o] # p}
       ELSE UNCHANGED <<packages, rows>>
  /\ mayDelete' = mayDelete \ {r}
  /\ GoTo(r, "done")
  /\ UNCHANGED <<label, quotedFor, quotedIn, consumed, referenced, failed, expired, lock,
                 sold, asks, todo, recovering, environment, boundVars>>

Step(r) ==
  \/ ListUnresolved(r)
  \/ \E o \in Offer : AskAgain(r, o)
  \/ StampRecovered(r)
  \/ ShipRecovered(r)
  \/ Relist(r)
  \/ Inspect(r)
  \/ \E outcome \in Answers : RefuseLocally(r, outcome) \/ CarrierSilent(r, outcome)
  \/ Claim(r)
  \/ CarrierSells(r)
  \/ CarrierRefuses(r)
  \/ StampPurchase(r)
  \/ RecordDecline(r)
  \/ MarkShipped(r)
  \/ Release(r)
  \/ Cleanup(r)

-----------------------------------------------------------------------------
(* What can go wrong with the process and with the lock.                   *)

\* The PHP process dies; its lock stays until it expires.
Crash(r) ==
  /\ pc[r] \notin {"idle", "done", "dead"}
  /\ crashes < MaxCrashes
  /\ crashes' = crashes + 1
  /\ GoTo(r, "dead")
  /\ Forget(r)
  /\ mayDelete' = mayDelete \ {r}
  /\ UNCHANGED <<packages, label, offerVars, lock, sold, asks, environment, switches>>

\* PURCHASE_LOCK_SECONDS have passed.
LockExpires(p, holder) ==
  /\ lock[p] = holder
  /\ lock' = [lock EXCEPT ![p] = None]
  /\ UNCHANGED <<packages, label, offerVars, sold, requestVars, environment, boundVars>>

AbandonedLockExpires(p) == \E r \in Request : pc[r] = "dead" /\ LockExpires(p, r)

LockLapses(p) ==
  /\ LockMayLapse
  /\ \E r \in Request : pc[r] \in Holding /\ LockExpires(p, r)

Next ==
  \/ \E r \in Request : Step(r) \/ Crash(r)
  \/ \E r \in Request, p \in Package :
       \/ NothingToBuy(r, p)
       \/ \E o \in Offer \cup {None} : TakeLock(r, p, o) \/ TurnAway(r, p, o)
  \/ \E o \in Offer : Expire(o) \/ Purge(o) \/ \E p \in Package : Quote(o, p)
  \/ SwitchSandboxMode
  \/ \E p \in Package : AbandonedLockExpires(p) \/ LockLapses(p)

Spec == Init /\ [][Next]_vars

\* A request that has begun keeps running (every call it makes has a timeout)
\* and an abandoned lock runs out. Nothing else is owed: nobody has to ask for
\* a quote, and a live lock need never lapse.
FairSpec ==
  /\ Spec
  /\ \A r \in Request : WF_vars(Step(r))
  /\ \A p \in Package : WF_vars(AbandonedLockExpires(p))

-----------------------------------------------------------------------------
(* Properties.                                                             *)

\* The columns and the requests have their types, and the columns of an offer
\* tell one story: only issued offers are on file, only claimed ones have an
\* outcome, and a request that holds a step of ship() names a package.
TypeOK ==
  /\ packages \subseteq Package
  /\ label \in [Package -> Label \cup {None}]
  /\ quotedFor \in [Offer -> Sourced \cup {None}]
  /\ quotedIn \in [Offer -> Environments]
  /\ rows \subseteq {o \in Offer : quotedFor[o] # None}
  /\ consumed \subseteq {o \in Offer : quotedFor[o] # None}
  /\ referenced \subseteq consumed
  /\ failed \subseteq consumed
  /\ expired \subseteq Offer
  /\ lock \in [Package -> Request \cup {None}]
  /\ sold \subseteq Label
  /\ pc \in [Request -> Steps]
  /\ asks \in [Request -> [package : Package \cup {None}, offer : Offer \cup {None}]]
  /\ \A r \in Request : pc[r] \in Holding => asks[r].package \in Package
  /\ todo \in [Request -> SUBSET Offer]
  /\ recovering \in [Request -> Offer \cup {None}]
  /\ mayDelete \subseteq Unattended
  /\ environment \in Environments
  /\ crashes \in 0..MaxCrashes
  /\ switches \in 0..MaxSwitches

\* "Nothing may be spent on the package while one of these stands": a request
\* that is at the carrier's door for a package finds no unresolved purchase on
\* that package but its own. It takes the lock, both readings of the offer
\* store and the claim together to make this true.
NoPurchaseWhileUnresolved ==
  \A r \in Request : At(r, "purchase") => Awaiting(asks[r].package) \subseteq {asks[r].offer}

\* "A label may already exist upstream, and buying again would pay for a second
\* one": however often requests are tried again, cut off or turned away, no
\* package has two purchases at a time whose outcome nobody knows.
OneUnresolvedPurchase ==
  \A p \in Package : \A o1, o2 \in Awaiting(p) : o1 = o2

\* Of the labels Amazon ever sold for a package, PolyBag has lost track of one at
\* most: two crashes, timeouts or clean-ups never leave a second one that is
\* paid for and on record nowhere, not even when the package is gone.
OneUnaccountedLabel ==
  \A o1, o2 \in (sold \cap Offer) \ referenced : quotedFor[o1] = quotedFor[o2] => o1 = o2

\* No lock without an owner that will return it or lose it: a request that runs
\* between taking and releasing it, for that package, or one that died there.
LockHasAnOwner ==
  \A p \in Package : lock[p] # None =>
    pc[lock[p]] \in Holding \cup {"dead"} /\ asks[lock[p]].package = p

\* An offer Amazon sold a label under never looks free: it is claimed, and it
\* is not on record as declined, whatever was lost on the way back.
PaidOfferKeepsItsEvidence ==
  \A o \in sold \cap Offer : o \in consumed \ failed

\* The label a package is recorded with is one a carrier really sold, and sold
\* for this package: an offer quoted for it, or a call made for it.
RecordedLabelWasSoldForThePackage ==
  \A p \in Package : label[p] # None =>
    /\ label[p] \in sold
    /\ label[p] \in Offer => quotedFor[label[p]] = p
    /\ label[p] \in Request => asks[label[p]].package = p

\* Of two requests never both spend one offer - not even when the lock that
\* should have kept them apart has lapsed.
Spending == {"purchase", "stamp", "decline", "markShipped"}

OneRequestSpendsAnOffer ==
  \A r1, r2 \in Request :
    /\ pc[r1] \in Spending
    /\ pc[r2] \in Spending
    /\ asks[r1].offer = asks[r2].offer
    /\ asks[r1].offer # None
    => r1 = r2

\* Whatever races, the label recorded on a package is not replaced by another
\* and its row is not deleted.
RecordedLabelIsFinal ==
  [][\A p \in packages : label[p] # None => p \in packages' /\ label'[p] = label[p]]_vars

\* Offers go through the life OfferLifecycle promises.
StateOf(o) ==
  CASE quotedFor[o] = None -> "unquoted"
    [] quotedFor[o] # None /\ o \notin rows -> "discarded"
    [] o \in rows /\ o \in referenced -> "bought"
    [] o \in rows /\ o \in failed \ referenced -> "declined"
    [] o \in rows /\ o \in consumed \ (failed \cup referenced) -> "spent"
    [] OTHER -> "open"

OfferState == [o \in Offer |-> StateOf(o)]

Lifecycle == INSTANCE OfferLifecycle WITH state <- OfferState

OffersLiveTheirLife == Lifecycle!Spec

\* A package's lock always comes back: no path through ship() keeps it, and a
\* process that died with it loses it.
LockIsReturned == \A p \in Package : lock[p] # None ~> lock[p] = None

-----------------------------------------------------------------------------
(* What comments of the code say and the code does not do.                 *)

\* "A package buys one label": nothing is bought for a package that is already
\* recorded as Shipped.
ShippedPackageBuysNothing ==
  \A r \in Request : At(r, "purchase") => label[asks[r].package] = None

\* "Never a reason to buy again": while a purchase Amazon confirmed has not
\* reached its package, no other purchase is made for that package.
ConfirmedPurchaseIsNotBoughtAgain ==
  \A r \in Request : At(r, "purchase") =>
    \A o \in sold \cap referenced :
      quotedFor[o] = asks[r].package /\ label[quotedFor[o]] = None => asks[r].offer = o

\* "The only evidence that a label may exist": an unresolved offer is never
\* deleted.
UnresolvedOffersSurvive ==
  [][\A o \in rows : o \in consumed \ (referenced \cup failed) => o \in rows']_vars
=============================================================================
