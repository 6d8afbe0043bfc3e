--------------------------- MODULE ShopifyPurchase ---------------------------
(***************************************************************************)
(* Blind purchases of Shopify Shipping labels: ship() with a blind offer   *)
(* under its two locks, ShopifyAdapter, ShopifyShippingLabelService with   *)
(* the markers it keeps in packages.metadata, Shopify on the other side of *)
(* the network, and ShopifyFulfillmentSynchronizer, which un-ships what    *)
(* the merchant voided in the Shopify admin.                               *)
(*                                                                         *)
(* The packages are those of one shipment, which buy against one           *)
(* fulfillment order. A Request or a Sync is a PHP process that makes one  *)
(* call after the other; every query, save and remote call is a step.      *)
(***************************************************************************)
EXTENDS Naturals

CONSTANTS
  Package,    \* packages of the shipment
  Request,    \* processes that serve ship()
  Sync,       \* processes that run packages:sync-shopify-fulfillments
  Purchase,   \* what Shopify names a purchase by: its result id and its label id
  None,       \* no purchase, no package, no lock holder
  Ghost,      \* a lock holder that has died
  MaxVoids,   \* bound: labels voided in the Shopify admin
  MaxMishaps  \* bound: processes that die, polls of the synchroniser that fail,
              \* and locks that run out under a live request

ASSUME ShopifyAssumption ==
  /\ None \notin Purchase \cup Package \cup Request
  /\ Ghost \notin Request \cup {None}
  /\ MaxVoids \in Nat
  /\ MaxMishaps \in Nat

VARIABLES
  label,     \* the label recorded on a package; it is Shipped iff it has one
  resultId,  \* metadata.shopify_purchase_result_id: a purchase in flight
  labelId,   \* metadata.shopify_shipping_label_id: a purchase that came through
  lock,      \* holder of package-purchase:{id}
  orderLock, \* holder of shipment-blind-purchase:{id}
  shop,      \* what became of each purchase at Shopify
  noted,     \* purchases of which a marker has ever been saved
  call,      \* where each request stands
  visit,     \* where each run of the synchroniser stands
  voids, mishaps,
  lapses,    \* locks that ran out under a live request
  cutShort   \* runs that died between the two writes of applyVoid()

rowVars   == <<label, resultId, labelId>>
lockVars  == <<lock, orderLock>>
boundVars == <<voids, mishaps, lapses, cutShort>>
vars == <<rowVars, lockVars, shop, noted, call, visit, boundVars>>

Marker == Purchase \cup {None}
Holder == Request \cup {None, Ghost}
Fates  == {"unused", "running", "failed", "sold", "voided"}

Steps == {"idle", "order", "revalidate", "load", "buy", "note", "poll", "forget",
          "keep", "fetch", "merge", "ship", "release"}

\* What a request has in memory: its package, the markers on the copy that
\* createShipment() loaded, and the purchase it is dealing with.
Call == [pc : Steps, package : Package \cup {None}, resultId : Marker,
         labelId : Marker, purchase : Marker]
Idle == [pc |-> "idle", package |-> None, resultId |-> None,
         labelId |-> None, purchase |-> None]

\* What a run of the synchroniser has in memory: the labels of the packages it
\* loaded and has yet to finish with, which of its copies carry a marker, and the
\* package it is un-shipping.
Visit == [pc : {"idle", "ask", "strip", "clear"}, list : [Package -> Marker],
          marked : SUBSET Package, at : Package \cup {None}]
NoVisit == [pc |-> "idle", list |-> [p \in Package |-> None], marked |-> {}, at |-> None]

Init ==
  /\ label = [p \in Package |-> None]
  /\ resultId = [p \in Package |-> None]
  /\ labelId = [p \in Package |-> None]
  /\ lock = [p \in Package |-> None]
  /\ orderLock = None
  /\ shop = [x \in Purchase |-> "unused"]
  /\ noted = {}
  /\ call = [r \in Request |-> Idle]
  /\ visit = [s \in Sync |-> NoVisit]
  /\ voids = 0 /\ mishaps = 0 /\ lapses = 0 /\ cutShort = 0

-----------------------------------------------------------------------------
(* ship(): the locks around the purchase.                                  *)

At(r, step)   == call[r].pc = step
Become(r, c)  == call' = [call EXCEPT ![r] = c]
GoTo(r, step) == Become(r, [call[r] EXCEPT !.pc = step])

\* The package's lock, taken without waiting; a refused request changes nothing.
Begin(r, p) ==
  /\ At(r, "idle")
  /\ lock[p] = None
  /\ lock' = [lock EXCEPT ![p] = r]
  /\ Become(r, [Idle EXCEPT !.pc = "order", !.package = p])
  /\ UNCHANGED <<rowVars, orderLock, shop, noted, visit, boundVars>>

\* withBlindPurchaseLock(): the shipment's lock, taken after it.
LockOrder(r) ==
  /\ At(r, "order")
  /\ IF orderLock = None
       THEN orderLock' = r /\ GoTo(r, "revalidate")
       ELSE UNCHANGED orderLock /\ GoTo(r, "release")
  /\ UNCHANGED <<rowVars, lock, shop, noted, visit, boundVars>>

HasMarker(p) == resultId[p] # None \/ labelId[p] # None

\* A mutant: a sibling only counts once it is Shipped.
SiblingShipped(p) == \E q \in Package \ {p} : label[q] # None

\* shipmentAlreadyBoughtALabel(): another package of the shipment is Shipped or
\* carries a marker of a purchase.
AlreadyBought(p) ==
  \E q \in Package \ {p} : label[q] # None \/ HasMarker(q)

\* resolveBlindOffer() derives the offers anew; there is none for a shipment
\* that has bought its label.
Revalidate(r) ==
  /\ At(r, "revalidate")
  /\ GoTo(r, IF AlreadyBought(call[r].package) THEN "release" ELSE "load")
  /\ UNCHANGED <<rowVars, lockVars, shop, noted, visit, boundVars>>

\* Both finally blocks. A lock is released by its owner alone.
Release(r) ==
  LET p == call[r].package IN
  /\ At(r, "release")
  /\ lock' = [lock EXCEPT ![p] = IF @ = r THEN None ELSE @]
  /\ orderLock' = IF orderLock = r THEN None ELSE orderLock
  /\ Become(r, Idle)
  /\ UNCHANGED <<rowVars, shop, noted, visit, boundVars>>

-----------------------------------------------------------------------------
(* purchase(): resume what is on record, or buy.                           *)

\* createShipment() loads the package anew and purchase() goes by its markers:
\* a label to read again, a purchase to await, or nothing.
Load(r) ==
  LET p == call[r].package
      c == [call[r] EXCEPT !.resultId = resultId[p], !.labelId = labelId[p]] IN
  /\ At(r, "load")
  /\ \/ /\ labelId[p] # None
        /\ Become(r, [c EXCEPT !.pc = "fetch", !.purchase = labelId[p]])
     \/ /\ labelId[p] = None /\ resultId[p] # None
        /\ Become(r, [c EXCEPT !.pc = "poll", !.purchase = resultId[p]])
     \/ /\ labelId[p] = None /\ resultId[p] = None
        /\ Become(r, [c EXCEPT !.pc = "buy"])
  /\ UNCHANGED <<rowVars, lockVars, shop, noted, visit, boundVars>>

\* The mutation is accepted, and Shopify starts buying. Whether Shopify accepts
\* a second purchase for the order is left to Shopify.
Buy(r, x) ==
  /\ At(r, "buy")
  /\ shop[x] = "unused"
  /\ shop' = [shop EXCEPT ![x] = "running"]
  /\ \/ Become(r, [call[r] EXCEPT !.pc = "note", !.purchase = x])
     \/ GoTo(r, "release")    \* the answer is lost
  /\ UNCHANGED <<rowVars, lockVars, noted, visit, boundVars>>

\* Shopify refuses, the answer to a query is lost, it is no use, the label
\* cannot be downloaded, or the polls are used up: the request ends here.
GiveUp(r) ==
  /\ call[r].pc \in {"buy", "poll", "fetch"}
  /\ GoTo(r, "release")
  /\ UNCHANGED <<rowVars, lockVars, shop, noted, visit, boundVars>>

\* The markers are saved as one column, from the copy in memory.
SaveMarkers(r, result, lab) ==
  LET p == call[r].package IN
  /\ resultId' = [resultId EXCEPT ![p] = result]
  /\ labelId' = [labelId EXCEPT ![p] = lab]
  /\ noted' = noted \cup ({result, lab} \ {None})

\* rememberPurchaseResult(): before the first poll.
Note(r) ==
  /\ At(r, "note")
  /\ SaveMarkers(r, call[r].purchase, call[r].labelId)
  /\ Become(r, [call[r] EXCEPT !.pc = "poll", !.resultId = call[r].purchase])
  /\ UNCHANGED <<label, lockVars, shop, visit, boundVars>>

\* awaitLabel(): a result stays PURCHASED whatever becomes of its label.
Poll(r) ==
  /\ At(r, "poll")
  /\ \/ shop[call[r].purchase] = "failed" /\ GoTo(r, "forget")
     \/ shop[call[r].purchase] \in {"sold", "voided"} /\ GoTo(r, "keep")
  /\ UNCHANGED <<rowVars, lockVars, shop, noted, visit, boundVars>>

\* forgetPurchaseResult(): no label was bought.
Forget(r) ==
  /\ At(r, "forget")
  /\ SaveMarkers(r, None, call[r].labelId)
  /\ GoTo(r, "release")
  /\ UNCHANGED <<label, lockVars, shop, visit, boundVars>>

\* Two mutants of what rememberPurchase() keeps: both markers, or none.
KeepBoth(r)    == SaveMarkers(r, call[r].resultId, call[r].purchase)
KeepNeither(r) == SaveMarkers(r, None, None)

\* rememberPurchase(): the label's marker replaces the result's.
KeepLabel(r) == SaveMarkers(r, None, call[r].purchase)

Keep(r) ==
  /\ At(r, "keep")
  /\ KeepLabel(r)
  /\ GoTo(r, "fetch")
  /\ UNCHANGED <<label, lockVars, shop, visit, boundVars>>

\* The label is read, if it is recovered, and its document downloaded. Shopify
\* may well return a label that has been voided.
Fetch(r) ==
  /\ At(r, "fetch")
  /\ GoTo(r, "merge")
  /\ UNCHANGED <<rowVars, lockVars, shop, noted, visit, boundVars>>

\* markShipped(): the label's marker is merged into the metadata that is stored
\* now, ...
Merge(r) ==
  /\ At(r, "merge")
  /\ Become(r, [call[r] EXCEPT !.pc = "ship", !.resultId = resultId[call[r].package]])
  /\ UNCHANGED <<rowVars, lockVars, shop, noted, visit, boundVars>>

\* ... and the whole column goes onto the package, if it is Unshipped.
Ship(r) ==
  LET p == call[r].package
      x == call[r].purchase IN
  /\ At(r, "ship")
  /\ IF label[p] = None
       THEN /\ label' = [label EXCEPT ![p] = x]
            /\ SaveMarkers(r, call[r].resultId, x)
       ELSE UNCHANGED <<rowVars, noted>>
  /\ GoTo(r, "release")
  /\ UNCHANGED <<lockVars, shop, visit, boundVars>>

Step(r) ==
  \/ LockOrder(r)
  \/ Revalidate(r)
  \/ Load(r)
  \/ \E x \in Purchase : Buy(r, x)
  \/ GiveUp(r)
  \/ Note(r)
  \/ Poll(r)
  \/ Forget(r)
  \/ Keep(r)
  \/ Fetch(r)
  \/ Merge(r)
  \/ Ship(r)
  \/ Release(r)

-----------------------------------------------------------------------------
(* The synchroniser.                                                       *)

Visiting(s, step) == visit[s].pc = step

\* A mutant: candidates() asks for the label's marker too.
Marked(p) == label[p] # None /\ labelId[p] # None

\* candidates(): Shipped with Shopify's postage. All are loaded at once.
Live(p) == label[p] # None

List(s) ==
  /\ Visiting(s, "idle")
  /\ \E p \in Package : Live(p)
  /\ visit' = [visit EXCEPT ![s] =
       [pc |-> "ask", list |-> [p \in Package |-> IF Live(p) THEN label[p] ELSE None],
        marked |-> {p \in Package : Live(p) /\ HasMarker(p)}, at |-> None]]
  /\ UNCHANGED <<rowVars, lockVars, shop, noted, call, boundVars>>

\* On to the next package of the list, if there is one.
Without(list, p) == [list EXCEPT ![p] = None]
Proceed(s, p) ==
  LET rest == Without(visit[s].list, p) IN
  visit' = [visit EXCEPT ![s] =
    IF \A q \in Package : rest[q] = None
      THEN NoVisit
      ELSE [visit[s] EXCEPT !.pc = "ask", !.list = rest,
                            !.marked = @ \ {p}, !.at = None]]

\* Shopify is asked about the fulfillment that carries the tracking number the
\* run has loaded.
Ask(s, p) ==
  /\ Visiting(s, "ask")
  /\ visit[s].list[p] # None
  /\ IF shop[visit[s].list[p]] = "voided"
       THEN visit' = [visit EXCEPT ![s].pc = "strip", ![s].at = p]
       ELSE Proceed(s, p)
  /\ UNCHANGED <<rowVars, lockVars, shop, noted, call, boundVars>>

\* The question gets no answer, and the package waits for the next run.
AskInVain(s, p) ==
  /\ Visiting(s, "ask")
  /\ visit[s].list[p] # None
  /\ mishaps < MaxMishaps
  /\ mishaps' = mishaps + 1
  /\ Proceed(s, p)
  /\ UNCHANGED <<rowVars, lockVars, shop, noted, call, voids, lapses, cutShort>>

\* applyVoid(), the first write: the metadata without markers. save() writes a
\* column that differs from what was loaded, and no other.
Strip(s) ==
  LET p == visit[s].at IN
  /\ Visiting(s, "strip")
  /\ IF p \in visit[s].marked
       THEN /\ resultId' = [resultId EXCEPT ![p] = None]
            /\ labelId' = [labelId EXCEPT ![p] = None]
       ELSE UNCHANGED <<resultId, labelId>>
  /\ visit' = [visit EXCEPT ![s].pc = "clear"]
  /\ UNCHANGED <<label, lockVars, shop, noted, call, boundVars>>

\* The second, clearShipping(): a package that is Shipped, by whatever label.
Clear(s) ==
  LET p == visit[s].at IN
  /\ Visiting(s, "clear")
  /\ label' = [label EXCEPT ![p] = None]
  /\ Proceed(s, p)
  /\ UNCHANGED <<resultId, labelId, lockVars, shop, noted, call, boundVars>>

Round(s) ==
  \/ \E p \in Package : Ask(s, p) \/ AskInVain(s, p)
  \/ Strip(s)
  \/ Clear(s)

-----------------------------------------------------------------------------
(* Shopify, time, and processes that die.                                  *)

Settle(x, fate) ==
  /\ shop[x] = "running"
  /\ shop' = [shop EXCEPT ![x] = fate]
  /\ UNCHANGED <<rowVars, lockVars, noted, call, visit, boundVars>>

VoidInAdmin(x) ==
  /\ shop[x] = "sold"
  /\ voids < MaxVoids
  /\ voids' = voids + 1
  /\ shop' = [shop EXCEPT ![x] = "voided"]
  /\ UNCHANGED <<rowVars, lockVars, noted, call, visit, mishaps, lapses, cutShort>>

\* The process dies with its locks held.
Crash(r) ==
  LET Left(holder) == IF holder = r THEN Ghost ELSE holder IN
  /\ ~At(r, "idle")
  /\ mishaps < MaxMishaps
  /\ mishaps' = mishaps + 1
  /\ Become(r, Idle)
  /\ lock' = [p \in Package |-> Left(lock[p])]
  /\ orderLock' = Left(orderLock)
  /\ UNCHANGED <<rowVars, shop, noted, visit, voids, lapses, cutShort>>

SyncCrash(s) ==
  /\ ~Visiting(s, "idle")
  /\ mishaps < MaxMishaps
  /\ mishaps' = mishaps + 1
  /\ cutShort' = IF Visiting(s, "clear") THEN cutShort + 1 ELSE cutShort
  /\ visit' = [visit EXCEPT ![s] = NoVisit]
  /\ UNCHANGED <<rowVars, lockVars, shop, noted, call, voids, lapses>>

\* The 180 seconds of PURCHASE_LOCK_SECONDS are over.
LocksExpire ==
  /\ Ghost \in {orderLock} \cup {lock[p] : p \in Package}
  /\ lock' = [p \in Package |-> IF lock[p] = Ghost THEN None ELSE lock[p]]
  /\ orderLock' = IF orderLock = Ghost THEN None ELSE orderLock
  /\ UNCHANGED <<rowVars, shop, noted, call, visit, boundVars>>

\* They are over for a request that is still at work.
LocksLapse(r) ==
  LET Lost(holder) == IF holder = r THEN None ELSE holder IN
  /\ ~At(r, "idle")
  /\ mishaps < MaxMishaps
  /\ mishaps' = mishaps + 1
  /\ lapses' = lapses + 1
  /\ lock' = [p \in Package |-> Lost(lock[p])]
  /\ orderLock' = Lost(orderLock)
  /\ UNCHANGED <<rowVars, shop, noted, call, visit, voids, cutShort>>

Next ==
  \/ \E r \in Request :
       \/ \E p \in Package : Begin(r, p)
       \/ Step(r)
       \/ Crash(r)
       \/ LocksLapse(r)
  \/ \E s \in Sync : List(s) \/ Round(s) \/ SyncCrash(s)
  \/ \E x \in Purchase :
       \/ \E fate \in {"sold", "failed"} : Settle(x, fate)
       \/ VoidInAdmin(x)
  \/ LocksExpire

Spec == Init /\ [][Next]_vars

\* The scheduler runs the synchroniser every fifteen minutes and it goes
\* through its list; requests, and the merchant, need do nothing.
Fairness == \A s \in Sync : WF_vars(List(s)) /\ WF_vars(Round(s))

FairSpec == Spec /\ Fairness

-----------------------------------------------------------------------------
(* Properties.                                                             *)

\* Every variable holds a value the rows and the processes can hold, and while
\* no lock lapses a package carries one marker at most: "keeping only one live
\* marker keeps the states unambiguous".
TypeOK ==
  /\ label \in [Package -> Marker]
  /\ resultId \in [Package -> Marker]
  /\ labelId \in [Package -> Marker]
  /\ lapses = 0 => \A p \in Package : resultId[p] = None \/ labelId[p] = None
  /\ lock \in [Package -> Holder]
  /\ orderLock \in Holder
  /\ shop \in [Purchase -> Fates]
  /\ noted \subseteq Purchase
  /\ call \in [Request -> Call]
  /\ visit \in [Sync -> Visit]
  /\ voids \in 0..MaxVoids /\ mishaps \in 0..MaxMishaps
  /\ lapses \in 0..MaxMishaps /\ cutShort \in 0..MaxMishaps

Charged(x) == shop[x] \in {"running", "sold"}

\* However the requests for the packages of a shipment interleave, die and come
\* back, the shop is never charged for two labels that PolyBag knows of: unless
\* a lock lapsed or a run of the synchroniser was cut short, Shopify holds one
\* purchase at most, of those a marker was ever saved for, that is under way or
\* paid and not voided.
OneKnownPurchase ==
  lapses = 0 /\ cutShort = 0 =>
    \A x, y \in noted : Charged(x) /\ Charged(y) => x = y

\* A purchase that a marker was saved for can be found again from a package as
\* long as it costs money, whatever fails after it; so it is resumed, and never
\* repeated.
KnownPurchaseIsFindable ==
  lapses = 0 /\ cutShort = 0 =>
    \A x \in noted : Charged(x) => \E p \in Package : x \in {resultId[p], labelId[p]}

Voided(p) == label[p] # None /\ shop[label[p]] = "voided"

\* A label voided at Shopify does not stay on a package: the synchroniser gets
\* to it, also after runs that failed or died, even between their two writes.
VoidedLabelIsCleared == \A p \in Package : Voided(p) ~> ~Voided(p)
=============================================================================
