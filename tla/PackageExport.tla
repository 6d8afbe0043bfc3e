---------------------------- MODULE PackageExport ----------------------------
(***************************************************************************)
(* Telling the destinations a shipped package's label: the ledger table    *)
(* package_exports, PackageExportService::exportPackage(), the queued      *)
(* listener and the scheduled sweep that both call it, and the void that   *)
(* takes the label, and the ledger with it, away again.                    *)
(*                                                                         *)
(* One package is modelled: nothing here reads another's rows. A Caller is *)
(* one run of exportPackage() at a time; every query is a step of its own, *)
(* and the call to the destination lies between two of them.               *)
(***************************************************************************)
EXTENDS Naturals

CONSTANTS
  Destination,   \* data sources exported to
  Primary,       \* the one the order came from, the others being global
  Once,          \* those of them that take one tracking number and keep it
  Sweeper,       \* runs of packages:export, on schedule or by hand
  None,          \* no destination, and no tracking number
  Elsewhere,     \* a tracking number that is not this package's
  Tries,         \* ExportShippedPackage::$tries
  MaxAttempts,   \* PackageExportService::MaxAttempts
  VoidsWait,     \* is a label voided only while nothing exports the package?
  JobsKeepUp,    \* does a queued listener only ever run while a label is recorded?
  CallsAreShort, \* does every call outrun the lease on its claim?
  MaxVoids,      \* bound: labels voided
  MaxCrashes,    \* bound: processes that die
  MaxReopens     \* bound: uses of --retry-permanent

\* The listener queued by each shipping is named by the label it recorded.
Job    == 1..(MaxVoids + 1)
Caller == Job \cup Sweeper

ASSUME ExportAssumption ==
  /\ Primary \in Destination
  /\ Once \subseteq Destination
  /\ None \notin Destination
  /\ {None, Elsewhere} \cap Nat = {}
  /\ None # Elsewhere
  /\ Sweeper \cap Job = {}
  /\ Tries \in Nat \ {0}
  /\ MaxAttempts \in Nat \ {0}
  /\ VoidsWait \in BOOLEAN
  /\ JobsKeepUp \in BOOLEAN
  /\ CallsAreShort \in BOOLEAN
  /\ MaxVoids \in Nat
  /\ MaxCrashes \in Nat
  /\ MaxReopens \in Nat

VARIABLES
  shipped,   \* packages.status is Shipped
  voids,     \* labels voided so far
  exported,  \* packages.exported
  overdue,   \* packages.shipped_at is a day ago, and no destination is claimed
  rows,      \* package_exports, one row or none for each destination
  heard,     \* the tracking number each destination has, 0 for a null one
  call,      \* where each call of exportPackage() stands
  tries,     \* runs a queued listener has left
  crashes, reopens

packageVars == <<shipped, voids, exported, overdue>>
boundVars   == <<crashes, reopens>>
vars == <<packageVars, rows, heard, call, tries, boundVars>>

\* Labels are numbered in the order they are bought; 0 is no label.
Label == IF shipped THEN voids + 1 ELSE 0

Statuses == {"none", "processing", "retryable", "succeeded", "permanent"}
Answers  == {"accepted", "refused", "rejected"}
Claiming == {"inserted", "refresh", "tell", "settle"}
Steps    == {"idle", "load", "claim", "found", "reclaim", "count", "flag"} \cup Claiming

\* A row is told from the one a void deleted by the voids before it. "ripe" is
\* what its timestamp says: the backoff has passed, or the lease is 15 min old.
Row   == [id : Nat, status : Statuses, attempts : Nat, ripe : BOOLEAN]
NoRow == [id |-> 0, status |-> "none", attempts |-> 0, ripe |-> FALSE]

\* What a call keeps in its own memory: its next step, the tracking number on
\* the package it loaded, the destinations it has yet to finish with, the one it
\* is at, the id and the attempts on the ledger row it loaded, what the
\* destination answered, and whether it has collected a retryable error.
Call == [pc : Steps, copy : Nat, todo : SUBSET Destination, at : Destination \cup {None},
         id : Nat, attempts : Nat, answer : Answers, failed : BOOLEAN]
Idle == [pc |-> "idle", copy |-> 0, todo |-> {}, at |-> None,
         id |-> 0, attempts |-> 0, answer |-> "accepted", failed |-> FALSE]

-----------------------------------------------------------------------------
(* The queries on the ledger.                                              *)

Missing(d) == rows[d].status = "none"
Settled(r) == r.status \in {"succeeded", "permanent"}

AllSucceeded == \A d \in Destination : rows[d].status = "succeeded"

\* Mutants: the update goes by id alone; it disregards the lease.
ByIdAlone(r) == r.status # "none"
AnyOpen(r)   == r.status \in {"retryable", "processing"}

\* constrainToReadyRetry() or constrainToStaleProcessing().
Claimable(r) == r.status \in {"retryable", "processing"} /\ r.ripe

\* A mutant: the sweep overlooks a package that nobody flagged.
Overlooked == FALSE

\* Every row there is has succeeded, and yet the package is swept up.
Unflagged ==
  /\ \E d \in Destination : ~Missing(d)
  /\ \A d \in Destination : Missing(d) \/ rows[d].status = "succeeded"

\* Shipped, not exported, and something for a sweep to do. A package with no
\* rows at all is a case of a missing one, which the scheduler passes over once
\* the package is a day old; a sweep by hand does not.
Candidate(scheduled) ==
  /\ shipped
  /\ ~exported
  /\ scheduled => ~overdue
  /\ \/ \E d \in Destination : Missing(d) \/ Claimable(rows[d])
     \/ Unflagged

\* The row call k has loaded is still there.
OnFile(k) == rows[k.at].status # "none" /\ rows[k.at].id = k.id

\* A mutant: one attempt too many.
GivesUpLate(attempts) == attempts > MaxAttempts

GivesUp(attempts) == attempts >= MaxAttempts

\* What a void does to the ledger, and a mutant that forgets it.
KeptRows(ledger) == ledger
Cleared(ledger)  == [d \in DOMAIN ledger |-> NoRow]

-----------------------------------------------------------------------------
(* The package gets a label and loses it.                                  *)

\* markShipped(). The event queues the listener after the transaction; a
\* process that dies in between never queues it.
Ship(queued) ==
  /\ ~shipped
  /\ queued \/ crashes < MaxCrashes
  /\ shipped' = TRUE
  /\ exported' = FALSE
  /\ overdue' = FALSE
  /\ tries' = [tries EXCEPT ![voids + 1] = IF queued THEN Tries ELSE 0]
  /\ crashes' = IF queued THEN crashes ELSE crashes + 1
  /\ UNCHANGED <<voids, rows, heard, call, reopens>>

\* clearShipping(): one transaction takes the label and the ledger.
Void ==
  /\ shipped
  /\ voids < MaxVoids
  /\ VoidsWait => \A c \in Caller : call[c].pc = "idle"
  /\ shipped' = FALSE
  /\ voids' = voids + 1
  /\ exported' = FALSE
  /\ overdue' = FALSE
  /\ rows' = Cleared(rows)
  /\ UNCHANGED <<heard, call, tries, boundVars>>

-----------------------------------------------------------------------------
(* A call of exportPackage().                                              *)

At(c, step)   == call[c].pc = step
Become(c, k)  == call' = [call EXCEPT ![c] = k]
GoTo(c, step) == Become(c, [call[c] EXCEPT !.pc = step])

\* The call returns. A listener that collected a retryable error throws, and
\* its job is tried again while tries are left; otherwise the job is done.
Finish(c) ==
  /\ Become(c, Idle)
  /\ tries' = [j \in Job |-> IF j = c /\ ~call[c].failed THEN 0 ELSE tries[j]]

\* On to the next destination, if there is one.
Proceed(c, failed) ==
  LET k == call[c] IN
  Become(c, [Idle EXCEPT !.pc = IF k.todo = {k.at} THEN "count" ELSE "claim",
                         !.copy = k.copy,
                         !.todo = k.todo \ {k.at},
                         !.failed = failed])

\* The row is gone: an exception caught while the call holds no row, which is
\* a retryable error that is written nowhere.
Stumble(c) == Proceed(c, TRUE) /\ UNCHANGED <<packageVars, rows, heard, tries, boundVars>>

\* A mutant: $tries is not set, and the job is retried for ever.
Unlimited(j) == j \in Job

HasTries(j) == tries[j] > 0

\* A queue worker takes the listener's job. It does not look at the status.
Listen(j) ==
  /\ At(j, "idle")
  /\ HasTries(j)
  /\ JobsKeepUp => shipped
  /\ tries' = [tries EXCEPT ![j] = @ - 1]
  /\ GoTo(j, "load")
  /\ UNCHANGED <<packageVars, rows, heard, boundVars>>

\* candidatePackageIds() names the package; the model is loaded by id after.
Sweep(s, scheduled) ==
  /\ At(s, "idle")
  /\ Candidate(scheduled)
  /\ GoTo(s, "load")
  /\ UNCHANGED <<packageVars, rows, heard, tries, boundVars>>

\* The package is read, and everything sent is taken from this copy of it.
Load(c) ==
  /\ At(c, "load")
  /\ IF exported
       THEN Finish(c)
       ELSE /\ Become(c, [Idle EXCEPT !.pc = "claim", !.copy = Label, !.todo = Destination])
            /\ UNCHANGED tries
  /\ UNCHANGED <<packageVars, rows, heard, boundVars>>

\* The primary destination goes first.
HasItsTurn(d, todo) == d = Primary \/ Primary \notin todo

\* claimDestination() tries to insert the row; the unique key decides.
Insert(c, d) ==
  /\ At(c, "claim")
  /\ d \in call[c].todo
  /\ HasItsTurn(d, call[c].todo)
  /\ IF Missing(d)
       THEN /\ rows' = [rows EXCEPT ![d] =
                 [id |-> voids, status |-> "processing", attempts |-> 1, ripe |-> FALSE]]
            /\ Become(c, [call[c] EXCEPT !.pc = "inserted", !.at = d])
       ELSE /\ Become(c, [call[c] EXCEPT !.pc = "found", !.at = d])
            /\ UNCHANGED rows
  /\ overdue' = FALSE
  /\ UNCHANGED <<shipped, voids, exported, heard, tries, boundVars>>

\* It fetches what it inserted, by package and destination and not by id.
Fetch(c) ==
  LET r == rows[call[c].at] IN
  /\ At(c, "inserted")
  /\ ~Missing(call[c].at)
  /\ Become(c, [call[c] EXCEPT !.pc = "tell", !.id = r.id, !.attempts = r.attempts])
  /\ UNCHANGED <<packageVars, rows, heard, tries, boundVars>>

\* Or it fetches the row that was there before, and skips one that is settled.
Look(c) ==
  LET r == rows[call[c].at] IN
  /\ At(c, "found")
  /\ ~Missing(call[c].at)
  /\ IF Settled(r)
       THEN Proceed(c, call[c].failed)
       ELSE Become(c, [call[c] EXCEPT !.pc = "reclaim", !.id = r.id])
  /\ UNCHANGED <<packageVars, rows, heard, tries, boundVars>>

FetchFails(c) ==
  /\ At(c, "inserted") \/ At(c, "found")
  /\ Missing(call[c].at)
  /\ Stumble(c)

TakenOver(r) ==
  [r EXCEPT !.status = "processing", !.attempts = r.attempts + 1, !.ripe = FALSE]

\* The conditional update: of the calls that saw the row, one takes it over.
Reclaim(c) ==
  LET d == call[c].at IN
  /\ At(c, "reclaim")
  /\ IF OnFile(call[c]) /\ Claimable(rows[d])
       THEN /\ rows' = [rows EXCEPT ![d] = TakenOver(rows[d])]
            /\ GoTo(c, "refresh")
       ELSE Proceed(c, call[c].failed) /\ UNCHANGED rows
  /\ UNCHANGED <<packageVars, heard, tries, boundVars>>

\* refresh(): the row is read again, for the attempts now on it.
Refresh(c) ==
  /\ At(c, "refresh")
  /\ OnFile(call[c])
  /\ Become(c, [call[c] EXCEPT !.pc = "tell", !.attempts = rows[call[c].at].attempts])
  /\ UNCHANGED <<packageVars, rows, heard, tries, boundVars>>

RefreshFails(c) ==
  /\ At(c, "refresh")
  /\ ~OnFile(call[c])
  /\ Stumble(c)

\* What a destination has after it took what it was sent. The database driver
\* overwrites; a Shopify order that is already fulfilled, or an Amazon one that
\* is already confirmed, keeps its number, and to the driver that is a success.
Taken(d, number) == IF d \in Once /\ heard[d] # None THEN heard[d] ELSE number

\* The driver tells the destination. One that cannot be reached, or answers with
\* a passing error, may have acted on the call all the same; one that refuses
\* for good has not.
Tell(c, reply) ==
  LET k == call[c] IN
  /\ At(c, "tell")
  /\ \/ reply # "rejected" /\ heard' = [heard EXCEPT ![k.at] = Taken(k.at, k.copy)]
     \/ reply # "accepted" /\ UNCHANGED heard
  /\ Become(c, [call[c] EXCEPT !.pc = "settle", !.answer = reply])
  /\ UNCHANGED <<packageVars, rows, tries, boundVars>>

Outcome(k) ==
  CASE k.answer = "accepted" -> "succeeded"
    [] k.answer = "rejected" -> "permanent"
    [] k.answer = "refused" -> IF GivesUp(k.attempts) THEN "permanent" ELSE "retryable"

\* The answer goes into the ledger, by the id of the row the call loaded.
Settle(c) ==
  LET k == call[c] IN
  /\ At(c, "settle")
  /\ rows' = IF OnFile(k)
               THEN [rows EXCEPT ![k.at] = [@ EXCEPT !.status = Outcome(k), !.ripe = FALSE]]
               ELSE rows
  /\ Proceed(c, k.failed \/ Outcome(k) = "retryable")
  /\ UNCHANGED <<packageVars, heard, tries, boundVars>>

\* markPackageExportedWhenAllDestinationsSucceeded() counts, then updates the
\* package by its id, whatever has happened to it in between.
Count(c) ==
  /\ At(c, "count")
  /\ IF AllSucceeded THEN GoTo(c, "flag") /\ UNCHANGED tries ELSE Finish(c)
  /\ UNCHANGED <<packageVars, rows, heard, boundVars>>

Flag(c) ==
  /\ At(c, "flag")
  /\ exported' = TRUE
  /\ Finish(c)
  /\ UNCHANGED <<shipped, voids, overdue, rows, heard, boundVars>>

Step(c) ==
  \/ Load(c)
  \/ \E d \in Destination : Insert(c, d)
  \/ Fetch(c)
  \/ Look(c)
  \/ FetchFails(c)
  \/ Reclaim(c)
  \/ Refresh(c)
  \/ RefreshFails(c)
  \/ \E reply \in Answers : Tell(c, reply)
  \/ Settle(c)
  \/ Count(c)
  \/ Flag(c)

-----------------------------------------------------------------------------
(* Time, crashes, the operator and others who fulfill the order.           *)

\* The package has been shipped for a day, and there is no row yet.
DayPasses ==
  /\ shipped
  /\ ~overdue
  /\ \A d \in Destination : Missing(d)
  /\ overdue' = TRUE
  /\ UNCHANGED <<shipped, voids, exported, rows, heard, call, tries, boundVars>>

\* The order is fulfilled with another package of the shipment, which carries
\* the same fulfillment order, by the merchant, or, at Amazon, by buying postage
\* there, after which the driver sends nothing and is content.
FulfilledElsewhere(d) ==
  /\ d \in Once
  /\ heard[d] = None
  /\ heard' = [heard EXCEPT ![d] = Elsewhere]
  /\ UNCHANGED <<packageVars, rows, call, tries, boundVars>>

\* The 5, 10, 20 ... minutes after a failed attempt are over.
BackoffPasses(d) ==
  /\ rows[d].status = "retryable"
  /\ ~rows[d].ripe
  /\ rows' = [rows EXCEPT ![d].ripe = TRUE]
  /\ UNCHANGED <<packageVars, heard, call, tries, boundVars>>

\* A claim is 15 minutes old: its call has died, if no driver runs that long.
LeaseGoesStale(d) ==
  /\ rows[d].status = "processing"
  /\ ~rows[d].ripe
  /\ CallsAreShort => \A c \in Caller : call[c].pc \in Claiming => call[c].at # d
  /\ rows' = [rows EXCEPT ![d].ripe = TRUE]
  /\ UNCHANGED <<packageVars, heard, call, tries, boundVars>>

\* packages:export --retry-permanent opens what was given up.
RetryByHand ==
  /\ shipped
  /\ ~exported
  /\ reopens < MaxReopens
  /\ \E d \in Destination : rows[d].status = "permanent"
  /\ rows' = [d \in Destination |->
       IF rows[d].status = "permanent"
         THEN [rows[d] EXCEPT !.status = "retryable", !.attempts = 0, !.ripe = TRUE]
         ELSE rows[d]]
  /\ reopens' = reopens + 1
  /\ UNCHANGED <<packageVars, heard, call, tries, crashes>>

\* The process dies. A listener's job is taken again if it has tries left.
Crash(c) ==
  /\ ~At(c, "idle")
  /\ crashes < MaxCrashes
  /\ crashes' = crashes + 1
  /\ Become(c, Idle)
  /\ UNCHANGED <<packageVars, rows, heard, tries, reopens>>

-----------------------------------------------------------------------------
Init ==
  /\ shipped = FALSE /\ voids = 0 /\ exported = FALSE /\ overdue = FALSE
  /\ rows = [d \in Destination |-> NoRow]
  /\ heard = [d \in Destination |-> None]
  /\ call = [c \in Caller |-> Idle]
  /\ tries = [j \in Job |-> 0]
  /\ crashes = 0 /\ reopens = 0

Next ==
  \/ \E queued \in BOOLEAN : Ship(queued)
  \/ Void
  \/ \E j \in Job : Listen(j)
  \/ \E s \in Sweeper, scheduled \in BOOLEAN : Sweep(s, scheduled)
  \/ \E c \in Caller : Step(c) \/ Crash(c)
  \/ DayPasses
  \/ \E d \in Destination : BackoffPasses(d) \/ LeaseGoesStale(d) \/ FulfilledElsewhere(d)
  \/ RetryByHand

Spec == Init /\ [][Next]_vars

\* A process that runs goes on running; the scheduler starts a sweep every five
\* minutes; time passes. Nobody need ship, void, sweep or reopen anything by
\* hand, and no listener need be run.
Fairness ==
  /\ \A c \in Caller : WF_vars(Step(c))
  /\ \A s \in Sweeper : WF_vars(Sweep(s, TRUE))
  /\ \A d \in Destination : WF_vars(BackoffPasses(d)) /\ WF_vars(LeaseGoesStale(d))

FairSpec == Spec /\ Fairness

-----------------------------------------------------------------------------
(* Properties.                                                             *)

\* Every variable holds a value the tables and the calls can hold; a queued
\* listener never runs more often than its tries allow.
TypeOK ==
  /\ shipped \in BOOLEAN /\ exported \in BOOLEAN /\ overdue \in BOOLEAN
  /\ voids \in 0..MaxVoids
  /\ rows \in [Destination -> Row]
  /\ heard \in [Destination -> Nat \cup {None, Elsewhere}]
  /\ call \in [Caller -> Call]
  /\ tries \in [Job -> 0..Tries]
  /\ crashes \in 0..MaxCrashes
  /\ reopens \in 0..MaxReopens

\* A listener, its retries and the sweeps may all export one package at once,
\* and no destination is ever in the hands of two of them: the insert and the
\* conditional update of claimDestination() let one through.
OneSenderPerDestination ==
  \A c1, c2 \in Caller :
    /\ call[c1].pc \in Claiming
    /\ call[c2].pc \in Claiming
    /\ call[c1].at = call[c2].at
    => c1 = c2

\* What a destination accepted is not sent or settled again: no call ever takes
\* a Succeeded row of the ledger elsewhere, and only a void deletes it.
SucceededIsFinal ==
  [][\A d \in Destination :
       rows[d].status = "succeeded" /\ ~Missing(d)' => rows'[d] = rows[d]]_vars

\* A destination that fails for the MaxAttempts-th time is given up in that
\* same update: no row waits for an attempt beyond the budget, however many
\* calls, crashed or not, shared the attempts.
GivesUpInTime ==
  \A d \in Destination : rows[d].status = "retryable" => rows[d].attempts < MaxAttempts

\* A claim whose process died is taken over whatever attempts it has used up, so
\* the budget alone bounds nothing. Every attempt beyond it is paid for by a
\* death: no destination is claimed more than MaxAttempts times, and once more
\* for each process that died, between two times the operator reopens it.
AttemptsAreAccountedFor ==
  \A d \in Destination : rows[d].attempts <= MaxAttempts + crashes

\* The destinations that keep a number which is not that of the label there is:
\* one voided since, or another package's.
Served == {d \in Once : heard[d] # None /\ ~(shipped /\ heard[d] = Label)}

\* A shipped package that is flagged exported has told every destination the
\* label it has now, and not one voided since: the flag ends all retries. Only
\* one that keeps its first number may have that instead, but never a null one.
ExportedMeansTold ==
  exported /\ shipped =>
    \A d \in Destination : heard[d] = Label \/ (d \in Served /\ heard[d] # 0)

\* The ledger, the calls and the flag together do what LabelExport lays down:
\* no claim, answer or crash, in whatever order, tells a destination that has
\* been told or given up, counts one that never heard and can still be told, or
\* flags early.
Informed  == {d \in Destination : shipped /\ heard[d] = Label}
With(status) == {d \in Destination : rows[d].status = status}

Promise == INSTANCE LabelExport WITH
  labelled <- shipped, informed <- Informed, served <- Served, told <- With("succeeded"),
  givenUp <- With("permanent"), flagged <- exported

ExportKeepsItsPromise == Promise!Spec

\* Whatever dies, including the process that was to queue the listener and the
\* one that was to set the flag, a shipped package is in the end flagged, voided
\* or left with a destination that was given up, unless nobody gets to it for a
\* day.
EventuallyExported ==
  shipped ~> exported \/ ~shipped \/ overdue \/ \E d \in Destination : rows[d].status = "permanent"
=============================================================================
