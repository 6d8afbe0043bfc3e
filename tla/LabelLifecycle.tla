--------------------------- MODULE LabelLifecycle ---------------------------
(***************************************************************************)
(* What becomes of a label after it is recorded on its package: it is      *)
(* printed, tracked, voided (EloquentPackageLabelWorkflow, Package::       *)
(* clearShipping(), TrackingService) and put on a USPS SCAN form           *)
(* (EndOfDay, ManifestService). Each asks a carrier or a browser between   *)
(* reading the package and writing to it, and nothing locks the package.   *)
(*                                                                         *)
(* A Worker is a PHP process, or a browser that has a label to print, that *)
(* does one of these after the other.                                      *)
(***************************************************************************)
EXTENDS Naturals

CONSTANTS
  Package, Label,
  Form,        \* manifests made of forms that USPS has accepted
  Worker,
  None,        \* no label, no package, no form
  External,    \* a manifest that stands for a form PolyBag has no record of
  Attempts,    \* times a SCAN form is sent
  MaxMishaps   \* bound: workers that die or get no answer after the fact

ASSUME LifecycleAssumption ==
  /\ None \notin Package \cup Label \cup Form \cup {External}
  /\ External \notin Form
  /\ Attempts \in Nat \ {0}
  /\ MaxMishaps \in Nat

VARIABLES
  label,     \* the label on a package; it is Shipped iff it has one
  manifest,  \* packages.manifest_id
  tracked,   \* the label that the tracking columns speak of
  delivered, \* the label whose date of delivery is in packages.delivered_at
  printed,   \* the label that was on the paper when label_printed_at was last set
  carrier,   \* what the carrier knows of each label
  owner,     \* the package a label was bought for
  onForm,    \* the form that USPS has a label on
  work,      \* where each worker stands
  mishaps,
  doubled,   \* packages that two workers were voiding at the same time
  mixed,     \* packages told something of a label they had no more
  reported   \* labels of which a date of delivery was recorded

rowVars     == <<label, manifest, tracked, delivered, printed>>
carrierVars == <<carrier, owner, onForm>>
ghostVars   == <<mishaps, doubled, mixed, reported>>
vars == <<rowVars, carrierVars, work, ghostVars>>

Labels == Label \cup {None}

Steps == {"idle", "void", "clear", "track", "print", "mark", "send", "external", "record"}

\* What an answer to a tracking check says of the delivery: nothing, a date that
\* the copy does not have, or the one it has.
Dates == {"none", "new", "known"}

\* What a worker has in memory: its package, the label on its copy, and the one
\* whose date of delivery was on it then; for a manifest, the labels it has listed,
\* the packages that are left of them, those USPS has named, the attempts made and
\* the form.
Works == [pc : Steps, package : Package \cup {None}, copy : Labels, seen : Labels,
          list : [Package -> Labels], left : SUBSET Package, named : SUBSET Package,
          attempt : 0..Attempts, form : Form \cup {None}]
Idle == [pc |-> "idle", package |-> None, copy |-> None, seen |-> None,
         list |-> [p \in Package |-> None], left |-> {}, named |-> {},
         attempt |-> 0, form |-> None]

Init ==
  /\ label = [p \in Package |-> None]
  /\ manifest = [p \in Package |-> None]
  /\ tracked = [p \in Package |-> None]
  /\ delivered = [p \in Package |-> None]
  /\ printed = [p \in Package |-> None]
  /\ carrier = [x \in Label |-> "unsold"]
  /\ owner = [x \in Label |-> None]
  /\ onForm = [x \in Label |-> None]
  /\ work = [w \in Worker |-> Idle]
  /\ mishaps = 0 /\ doubled = {} /\ mixed = {} /\ reported = {}

At(w, step)   == work[w].pc = step
Become(w, k)  == work' = [work EXCEPT ![w] = k]
GoTo(w, step) == Become(w, [work[w] EXCEPT !.pc = step])

\* A worker takes a copy of a Shipped package.
Start(w, step, p) ==
  /\ At(w, "idle")
  /\ label[p] # None
  /\ Become(w, [Idle EXCEPT !.pc = step, !.package = p, !.copy = label[p],
                            !.seen = delivered[p]])

\* Mutants: the columns stay as they are; delivered_at is forgotten.
Leave(p)    == UNCHANGED <<tracked, delivered, printed>>
KeepDate(p) == /\ tracked' = [tracked EXCEPT ![p] = None]
               /\ printed' = [printed EXCEPT ![p] = None]
               /\ UNCHANGED delivered

\* What both markShipped() and clearShipping() write over.
Blank(p) ==
  /\ tracked' = [tracked EXCEPT ![p] = None]
  /\ delivered' = [delivered EXCEPT ![p] = None]
  /\ printed' = [printed EXCEPT ![p] = None]

-----------------------------------------------------------------------------
(* A package is shipped: some purchase records its label.                  *)

Ship(p, x) ==
  /\ label[p] = None
  /\ carrier[x] = "unsold"
  /\ carrier' = [carrier EXCEPT ![x] = "live"]
  /\ owner' = [owner EXCEPT ![x] = p]
  /\ label' = [label EXCEPT ![p] = x]
  /\ Blank(p)
  /\ UNCHANGED <<manifest, onForm, work, ghostVars>>

-----------------------------------------------------------------------------
(* voidLabel().                                                            *)

Voiding(w, p) == work[w].pc \in {"void", "clear"} /\ work[w].package = p

BeginVoid(w, p) ==
  /\ Start(w, "void", p)
  /\ doubled' = IF \E v \in Worker \ {w} : Voiding(v, p) THEN doubled \cup {p} ELSE doubled
  /\ UNCHANGED <<rowVars, carrierVars, mishaps, mixed, reported>>

\* A mutant: whatever the carrier says, the package loses its label.
GoOn(w) == GoTo(w, "clear")

\* A void the carrier refuses ends there.
Refused(w) == Become(w, Idle)

\* The carrier is asked to void the label on the copy.
AskCarrier(w) ==
  LET x == work[w].copy IN
  /\ At(w, "void")
  /\ \/ /\ carrier[x] = "live"
        /\ carrier' = [carrier EXCEPT ![x] = "voided"]
        /\ GoTo(w, "clear")
     \/ UNCHANGED carrier /\ Refused(w)
  /\ UNCHANGED <<rowVars, owner, onForm, ghostVars>>

\* clearShipping(): a package that is Shipped, by whatever label. It stays on
\* its manifest.
Clear(w) ==
  LET p == work[w].package IN
  /\ At(w, "clear")
  /\ IF label[p] = None
       THEN UNCHANGED rowVars
       ELSE /\ label' = [label EXCEPT ![p] = None]
            /\ Blank(p)
            /\ UNCHANGED manifest
  /\ Become(w, Idle)
  /\ UNCHANGED <<carrierVars, ghostVars>>

-----------------------------------------------------------------------------
(* Tracking and printing.                                                  *)

\* The answer, or the confirmation, is about a label the package has lost.
Mix(w) ==
  LET p == work[w].package IN
  mixed' = IF label[p] # work[w].copy THEN mixed \cup {p} ELSE mixed

\* A mutant: save() writes the whole copy back, with the date as it was loaded.
WholeCopy(w, date) == IF date = "new" THEN work[w].copy ELSE work[w].seen

\* record() sets a date if the answer has one, and save() writes it if it is not
\* the one on the copy; otherwise the row keeps what it has by now.
DateAfter(w, date) == IF date = "new" THEN work[w].copy ELSE delivered[work[w].package]

BeginTrack(w, p) ==
  /\ Start(w, "track", p)
  /\ UNCHANGED <<rowVars, carrierVars, ghostVars>>

\* record(), on the row of the copy's id. A failed check is recorded as well.
Record(w, date) ==
  LET p == work[w].package IN
  /\ At(w, "track")
  /\ date = "known" => work[w].seen # None
  /\ tracked' = [tracked EXCEPT ![p] = work[w].copy]
  /\ delivered' = [delivered EXCEPT ![p] = DateAfter(w, date)]
  /\ reported' = IF date = "none" THEN reported ELSE reported \cup {work[w].copy}
  /\ Become(w, Idle)
  /\ Mix(w)
  /\ UNCHANGED <<label, manifest, printed, carrierVars, mishaps, doubled>>

\* The browser gets the label, prints it and says so.
BeginPrint(w, p) ==
  /\ Start(w, "print", p)
  /\ UNCHANGED <<rowVars, carrierVars, ghostVars>>

\* Refused for a package that is not Shipped by then, ...
CheckLabel(w) ==
  /\ At(w, "print")
  /\ IF label[work[w].package] = None THEN Become(w, Idle) ELSE GoTo(w, "mark")
  /\ UNCHANGED <<rowVars, carrierVars, ghostVars>>

\* ... and saved, by its id, for one that was.
MarkLabelPrinted(w) ==
  /\ At(w, "mark")
  /\ printed' = [printed EXCEPT ![work[w].package] = work[w].copy]
  /\ Become(w, Idle)
  /\ Mix(w)
  /\ UNCHANGED <<label, manifest, tracked, delivered, carrierVars, mishaps, doubled, reported>>

-----------------------------------------------------------------------------
(* SCAN forms.                                                             *)

Unmanifested == {p \in Package : label[p] # None /\ manifest[p] = None}

\* generateManifest() loads the packages.
List(w) ==
  /\ At(w, "idle")
  /\ Unmanifested # {}
  /\ Become(w, [Idle EXCEPT
       !.pc = "send", !.left = Unmanifested,
       !.list = [p \in Package |-> IF p \in Unmanifested THEN label[p] ELSE None]])
  /\ UNCHANGED <<rowVars, carrierVars, ghostVars>>

\* USPS takes a label on one form only, and names those it has on another.
Taken(w) == {p \in work[w].left : onForm[work[w].list[p]] # None}

\* sendScanFormRequest(), accepted.
Send(w, f) ==
  /\ At(w, "send")
  /\ Taken(w) = {}
  /\ \A x \in Label : onForm[x] # f
  /\ onForm' = [x \in Label |->
       IF \E p \in work[w].left : work[w].list[p] = x THEN f ELSE onForm[x]]
  /\ Become(w, [work[w] EXCEPT !.pc = "record", !.form = f])
  /\ UNCHANGED <<rowVars, carrier, owner, ghostVars>>

\* Refused, with the labels that are on a form already.
SendTaken(w) ==
  /\ At(w, "send")
  /\ Taken(w) # {}
  /\ Become(w, [work[w] EXCEPT !.pc = "external", !.named = Taken(w)])
  /\ UNCHANGED <<rowVars, carrierVars, ghostVars>>

\* Refused for another reason.
SendFails(w) ==
  /\ At(w, "send")
  /\ Become(w, Idle)
  /\ UNCHANGED <<rowVars, carrierVars, ghostVars>>

\* A mutant: the packages are dropped from the request, and that is all.
Nobody(w) == {}

\* By the tracking numbers that USPS named, and only packages on no manifest.
Externally(w) ==
  {p \in Package : /\ manifest[p] = None
                   /\ \E q \in work[w].named : label[p] = work[w].list[q]}

MarkExternal(w) ==
  LET left    == work[w].left \ work[w].named
      attempt == work[w].attempt + 1 IN
  /\ At(w, "external")
  /\ manifest' = [p \in Package |-> IF p \in Externally(w) THEN External ELSE manifest[p]]
  /\ Become(w, IF left = {} \/ attempt = Attempts
                 THEN Idle
                 ELSE [work[w] EXCEPT !.pc = "send", !.left = left, !.named = {},
                                      !.attempt = attempt])
  /\ UNCHANGED <<label, tracked, delivered, printed, carrierVars, ghostVars>>

\* A mutant: every package listed is recorded on the form.
AllListed(w) == {p \in Package : work[w].list[p] # None}

\* Those of the request, by their ids.
Requested(w) == work[w].left

RecordForm(w) ==
  /\ At(w, "record")
  /\ manifest' = [p \in Package |-> IF p \in Requested(w) THEN work[w].form ELSE manifest[p]]
  /\ Become(w, Idle)
  /\ UNCHANGED <<label, tracked, delivered, printed, carrierVars, ghostVars>>

-----------------------------------------------------------------------------

\* The worker dies, or it does not hear that the carrier did what it was asked.
Stop(w) ==
  /\ work[w].pc \in {"clear", "external", "record"}
  /\ mishaps < MaxMishaps
  /\ mishaps' = mishaps + 1
  /\ Become(w, Idle)
  /\ UNCHANGED <<rowVars, carrierVars, doubled, mixed, reported>>

Next ==
  \/ \E p \in Package, x \in Label : Ship(p, x)
  \/ \E w \in Worker :
       \/ \E p \in Package : BeginVoid(w, p) \/ BeginTrack(w, p) \/ BeginPrint(w, p)
       \/ AskCarrier(w)
       \/ Clear(w)
       \/ \E date \in Dates : Record(w, date)
       \/ CheckLabel(w)
       \/ MarkLabelPrinted(w)
       \/ List(w)
       \/ \E f \in Form : Send(w, f)
       \/ SendTaken(w)
       \/ SendFails(w)
       \/ MarkExternal(w)
       \/ RecordForm(w)
       \/ Stop(w)

Spec == Init /\ [][Next]_vars

-----------------------------------------------------------------------------
(* Properties.                                                             *)

\* Every variable holds a value the rows, the carrier and the processes can hold,
\* and no package has a date of delivery without the tracking that gave it.
TypeOK ==
  /\ label \in [Package -> Labels]
  /\ manifest \in [Package -> Form \cup {None, External}]
  /\ tracked \in [Package -> Labels]
  /\ delivered \in [Package -> Labels]
  /\ \A p \in Package : delivered[p] # None => tracked[p] # None
  /\ printed \in [Package -> Labels]
  /\ carrier \in [Label -> {"unsold", "live", "voided"}]
  /\ owner \in [Label -> Package \cup {None}]
  /\ onForm \in [Label -> Form \cup {None}]
  /\ work \in [Worker -> Works]
  /\ mishaps \in 0..MaxMishaps
  /\ doubled \subseteq Package /\ mixed \subseteq Package
  /\ reported \subseteq Label

\* A package does not lose a label that is still good at the carrier, unless two
\* workers voided it at the same time: clearShipping() asks for a Shipped
\* package, and not for the label that was voided.
LiveLabelIsOnRecord ==
  \A x \in Label :
    carrier[x] = "live" /\ owner[x] \notin doubled => label[owner[x]] = x

\* What a row says of its label was said of that label, and of none the package
\* had before; unless an answer about that one came in after it was gone.
RowSpeaksOfItsLabel ==
  \A p \in Package \ mixed :
    label[p] # None => {tracked[p], delivered[p], printed[p]} \subseteq {label[p], None}

\* A label that was ever recorded as delivered has a date of delivery as long as
\* it is on its package. Several checks may be under way, each with a copy that
\* was loaded before the date came in, and one that is answered without a date,
\* or not at all, "must not wipe a date recorded earlier".
DeliveryIsRemembered ==
  \A p \in Package : label[p] \in reported => delivered[p] # None

\* Whichever runs crossed or died, a package recorded on a form has had a label
\* on that very form.
FormsHoldTheirLabels ==
  \A p \in Package :
    manifest[p] \in Form => \E x \in Label : owner[x] = p /\ onForm[x] = manifest[p]

\* Packages are left, and the attempts are used up: "failed after multiple retries".
GivesUp(w) == work[w].attempt + 1 = Attempts /\ ~(work[w].left \subseteq work[w].named)

\* A run that comes to its end without giving up leaves no package it listed that
\* has its label on a form at USPS and is on no manifest, also after one that died
\* before it recorded its form; or the next would send the label again, for ever.
RunRecordsItsForms ==
  [][\A w \in Worker :
       /\ At(w, "record") \/ (At(w, "external") /\ ~GivesUp(w))
       /\ work'[w].pc = "idle" /\ mishaps' = mishaps
       => \A p \in Package :
            LET x == work[w].list[p] IN
            x # None /\ label[p] = x /\ onForm[x] # None => manifest'[p] # None]_vars
=============================================================================
