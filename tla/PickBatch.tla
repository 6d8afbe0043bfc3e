------------------------------ MODULE PickBatch ------------------------------
(***************************************************************************)
(* Picking lists and the status of the shipments on them: PickBatchService *)
(* (create, cancel, complete, remove a shipment), the buttons that call    *)
(* it, and Shipment::updateShippedStatus(), which every shipped or voided  *)
(* package runs and which takes a shipped shipment off its list.           *)
(*                                                                         *)
(* A Clerk is a process that ships or voids a package, a User one that     *)
(* serves the pages of pick batches. Single queries are steps. The         *)
(* database is MySQL at REPEATABLE READ: a transaction is its first read,  *)
(* which fixes what it sees, and a second step with its writes; it keeps   *)
(* the rows it has written to itself until then.                           *)
(***************************************************************************)
EXTENDS Naturals, FiniteSets

CONSTANTS
  Shipment, Package, Batch,
  Clerk, User,
  ShipmentOf,  \* the shipment of a package
  None,        \* no shipment, no batch
  MaxVoids,    \* bound: labels voided
  MaxMishaps   \* bound: clerks that die, or whose transaction is rolled back

ASSUME PickAssumption ==
  /\ ShipmentOf \in [Package -> Shipment]
  /\ IsFiniteSet(Shipment)
  /\ None \notin Shipment \cup Batch
  /\ MaxVoids \in Nat
  /\ MaxMishaps \in Nat

VARIABLES
  shipped,   \* packages whose status is Shipped
  status,    \* shipments.status
  picking,   \* shipments.picking_status
  batch,     \* pick_batches.status, "unused" before it is created
  total,     \* pick_batches.total_shipments
  rows,      \* pick_batch_shipments: a shipment's row in a batch
  clerk,     \* where each clerk stands
  user,      \* where each user stands
  voids, mishaps,
  crossed,   \* shipments whose status was computed while a void came in between
  torn,      \* batches a pick was ticked in while a shipment was taken out
  overtaken  \* has anyone acted on a batch that had changed in the meantime?

shipmentVars == <<shipped, status, picking>>
batchVars    == <<batch, total, rows>>
boundVars    == <<voids, mishaps>>
ghostVars    == <<crossed, torn, overtaken>>
vars == <<shipmentVars, batchVars, clerk, user, boundVars, ghostVars>>

Statuses == {"unused", "in_progress", "completed", "cancelled"}
RowState == {"none", "todo", "picked"}
Endings  == {"goes_on", "cancelled", "completed"}

\* What a clerk has in memory: the shipment, whether it voids, the status on the copy it loaded,
\* the one it computed, the batches it found the shipment in, what is to become
\* of each, and whether the shipment was Batched when the transaction began.
Clerks == [pc : {"idle", "load", "judge", "write", "find", "remove", "commit"},
           shipment : Shipment \cup {None}, voiding : BOOLEAN,
           copy : {"open", "shipped"}, verdict : {"open", "shipped"},
           found : SUBSET Batch, ending : [Batch -> Endings], batched : BOOLEAN]
NoClerk == [pc |-> "idle", shipment |-> None, voiding |-> FALSE,
            copy |-> "open", verdict |-> "open",
            found |-> {}, ending |-> [b \in Batch |-> "goes_on"], batched |-> FALSE]

\* What a user has in memory: the batch, the status on its copy, and the
\* shipments its transaction has read.
Users == [pc : {"idle", "check", "finish", "cancel"}, batch : Batch \cup {None},
          copy : Statuses, ids : SUBSET Shipment]
NoUser == [pc |-> "idle", batch |-> None, copy |-> "unused", ids |-> {}]

Init ==
  /\ shipped = {}
  /\ status = [s \in Shipment |-> "open"]
  /\ picking = [s \in Shipment |-> "pending"]
  /\ batch = [b \in Batch |-> "unused"]
  /\ total = [b \in Batch |-> 0]
  /\ rows = [b \in Batch |-> [s \in Shipment |-> "none"]]
  /\ clerk = [c \in Clerk |-> NoClerk]
  /\ user = [u \in User |-> NoUser]
  /\ voids = 0 /\ mishaps = 0
  /\ crossed = {} /\ torn = {} /\ overtaken = FALSE

Listed(b) == {s \in Shipment : rows[b][s] # "none"}
Todo(b)   == {s \in Shipment : rows[b][s] = "todo"}

\* The rows a transaction of clerk c holds: one row of each batch, and the batch.
Holds(c, b)  == clerk[c].pc = "commit" /\ b \in clerk[c].found
Free(b)      == \A c \in Clerk : ~Holds(c, b)
FreeRow(b, s) == \A c \in Clerk : ~(Holds(c, b) /\ clerk[c].shipment = s)

-----------------------------------------------------------------------------
(* A package is shipped or voided, and its shipment's status computed.     *)

At(c, step)   == clerk[c].pc = step
Become(c, k)  == clerk' = [clerk EXCEPT ![c] = k]
GoTo(c, step) == Become(c, [clerk[c] EXCEPT !.pc = step])

\* A clerk has changed a package of the shipment, and its status is not yet
\* what that clerk makes of it.
Computing(s, voiding) ==
  \E c \in Clerk : /\ clerk[c].pc \in {"load", "judge", "write"}
                   /\ clerk[c].shipment = s
                   /\ clerk[c].voiding = voiding

Cross(s, voiding) ==
  crossed' = IF Computing(s, ~voiding) THEN crossed \cup {s} ELSE crossed

\* The transaction of markShipped().
Ship(c, p) ==
  LET s == ShipmentOf[p] IN
  /\ At(c, "idle")
  /\ p \notin shipped
  /\ shipped' = shipped \cup {p}
  /\ Become(c, [NoClerk EXCEPT !.pc = "load", !.shipment = s])
  /\ Cross(s, FALSE)
  /\ UNCHANGED <<status, picking, batchVars, user, boundVars, torn, overtaken>>

\* The transaction of clearShipping().
Void(c, p) ==
  LET s == ShipmentOf[p] IN
  /\ At(c, "idle")
  /\ p \in shipped
  /\ voids < MaxVoids
  /\ voids' = voids + 1
  /\ shipped' = shipped \ {p}
  /\ Become(c, [NoClerk EXCEPT !.pc = "load", !.shipment = s, !.voiding = TRUE])
  /\ Cross(s, TRUE)
  /\ UNCHANGED <<status, picking, batchVars, user, mishaps, torn, overtaken>>

\* Both load the shipment afterwards.
Load(c) ==
  /\ At(c, "load")
  /\ Become(c, [clerk[c] EXCEPT !.pc = "judge", !.copy = status[clerk[c].shipment]])
  /\ UNCHANGED <<shipmentVars, batchVars, user, boundVars, ghostVars>>

Packages(s) == {p \in Package : ShipmentOf[p] = s}

\* updateShippedStatus() with packing validation: there is a Shipped package, and
\* every item is in one. (Each package holds items that no other package has.)
Verdict(s) ==
  IF Packages(s) # {} /\ Packages(s) \subseteq shipped THEN "shipped" ELSE "open"

Judge(c) ==
  /\ At(c, "judge")
  /\ Become(c, [clerk[c] EXCEPT !.pc = "write", !.verdict = Verdict(clerk[c].shipment)])
  /\ UNCHANGED <<shipmentVars, batchVars, user, boundVars, ghostVars>>

\* A mutant: the status is written whether it differs from the copy or not.
Always(c) == TRUE

\* update() writes a column that differs from the copy.
Dirty(c) == clerk[c].verdict # clerk[c].copy

Write(c) ==
  LET s == clerk[c].shipment IN
  /\ At(c, "write")
  /\ status' = IF Dirty(c) THEN [status EXCEPT ![s] = clerk[c].verdict] ELSE status
  /\ Become(c, IF clerk[c].verdict = "shipped"
                 THEN [NoClerk EXCEPT !.pc = "find", !.shipment = s] ELSE NoClerk)
  /\ UNCHANGED <<shipped, picking, batchVars, user, boundVars, ghostVars>>

-----------------------------------------------------------------------------
(* removeFromActiveBatches(): the shipment leaves the lists it is on.      *)

\* The rows to delete are read before the transaction.
Find(c) ==
  LET s == clerk[c].shipment
      found == {b \in Batch : batch[b] = "in_progress" /\ rows[b][s] = "todo"} IN
  /\ At(c, "find")
  /\ IF found = {}
       THEN Become(c, NoClerk)
       ELSE Become(c, [clerk[c] EXCEPT !.pc = "remove", !.found = found])
  /\ UNCHANGED <<shipmentVars, batchVars, user, boundVars, ghostVars>>

\* A mutant: a batch is left as it is when its last unpicked row goes.
NeverEnds(b, s) == IF Listed(b) \ {s} = {} THEN "cancelled" ELSE "goes_on"

\* "Batches left with no unpicked shipments are completed; emptied batches are
\* cancelled."
EndingWithout(b, s) ==
  IF Listed(b) \ {s} = {} THEN "cancelled"
  ELSE IF Todo(b) \ {s} = {} THEN "completed"
  ELSE "goes_on"

\* The transaction deletes the rows and sees what is left of each batch.
Remove(c) ==
  LET s == clerk[c].shipment
      found == clerk[c].found IN
  /\ At(c, "remove")
  /\ \A b \in found : Free(b)
  /\ Become(c, [clerk[c] EXCEPT
       !.pc = "commit",
       !.ending = [b \in Batch |-> IF b \in found THEN EndingWithout(b, s) ELSE "goes_on"],
       !.batched = picking[s] = "batched"])
  /\ UNCHANGED <<shipmentVars, batchVars, user, boundVars, ghostVars>>

\* A mutant: the column takes any integer.
Signed(b) == TRUE

\* The column total_shipments is unsigned: it cannot go below zero.
CanDecrement(b) == total[b] > 0

\* It commits.
Commit(c) ==
  LET s == clerk[c].shipment
      found == clerk[c].found
      Ends(b) == b \in found /\ clerk[c].ending[b] # "goes_on"
      done == UNION {Listed(b) \ {s} : b \in {x \in found : clerk[c].ending[x] = "completed"}} IN
  /\ At(c, "commit")
  /\ \A b \in found : CanDecrement(b)
  /\ rows' = [b \in Batch |-> IF b \in found THEN [rows[b] EXCEPT ![s] = "none"] ELSE rows[b]]
  /\ total' = [b \in Batch |-> IF b \in found THEN total[b] - 1 ELSE total[b]]
  /\ batch' = [b \in Batch |-> IF Ends(b) THEN clerk[c].ending[b] ELSE batch[b]]
  /\ picking' = [x \in Shipment |->
       IF x = s /\ clerk[c].batched THEN "pending"
       ELSE IF x \in done THEN "picked"
       ELSE picking[x]]
  /\ Become(c, NoClerk)
  /\ overtaken' = (overtaken \/ \E b \in found : batch[b] # "in_progress")
  /\ UNCHANGED <<shipped, status, user, boundVars, crossed, torn>>

\* The counter is at zero, and the transaction is rolled back.
Overrun(c) ==
  /\ At(c, "commit")
  /\ \E b \in clerk[c].found : ~CanDecrement(b)
  /\ Become(c, NoClerk)
  /\ UNCHANGED <<shipmentVars, batchVars, user, boundVars, ghostVars>>

\* The process dies, or the database picks its transaction to end a deadlock.
Stop(c) ==
  /\ ~At(c, "idle")
  /\ mishaps < MaxMishaps
  /\ mishaps' = mishaps + 1
  /\ Become(c, NoClerk)
  /\ UNCHANGED <<shipmentVars, batchVars, user, voids, ghostVars>>

Work(c) ==
  \/ Load(c)
  \/ Judge(c)
  \/ Write(c)
  \/ Find(c)
  \/ Remove(c)
  \/ Commit(c)
  \/ Overrun(c)

-----------------------------------------------------------------------------
(* The users of pick batches.                                              *)

UserAt(u, step)   == user[u].pc = step
UserBecomes(u, k) == user' = [user EXCEPT ![u] = k]

\* Mutants: a shipped shipment is as good as an open one; a batched one is.
AnyPending(s) == picking[s] = "pending"
AnyOpen(s)    == picking[s] # "picked" /\ status[s] = "open"

Eligible(s) == picking[s] = "pending" /\ status[s] = "open"

\* createFromShipments(): one transaction that locks the shipments it takes.
\* autoGenerate() only chooses them.
Create(u, b, chosen) ==
  LET eligible == {s \in chosen : Eligible(s)} IN
  /\ UserAt(u, "idle")
  /\ batch[b] = "unused"
  /\ eligible # {}
  /\ batch' = [batch EXCEPT ![b] = "in_progress"]
  /\ total' = [total EXCEPT ![b] = Cardinality(eligible)]
  /\ rows' = [rows EXCEPT ![b] = [s \in Shipment |-> IF s \in eligible THEN "todo" ELSE "none"]]
  /\ picking' = [s \in Shipment |-> IF s \in eligible THEN "batched" ELSE picking[s]]
  /\ UNCHANGED <<shipped, status, clerk, user, boundVars, ghostVars>>

\* "Mark All Picked" and "Cancel Batch" are there while the batch is in
\* progress. The page loads it, and the transaction its shipments.
Open(u, b, step) ==
  /\ UserAt(u, "idle")
  /\ batch[b] = "in_progress"
  /\ UserBecomes(u, [pc |-> step, batch |-> b, copy |-> batch[b], ids |-> Listed(b)])
  /\ UNCHANGED <<shipmentVars, batchVars, clerk, boundVars, ghostVars>>

\* "Mark Picked", on a row of any batch.
Tick(u, b, s) ==
  /\ UserAt(u, "idle")
  /\ rows[b][s] = "todo"
  /\ FreeRow(b, s)
  /\ rows' = [rows EXCEPT ![b][s] = "picked"]
  /\ UserBecomes(u, [NoUser EXCEPT !.pc = "check", !.batch = b])
  /\ torn' = IF Free(b) THEN torn ELSE torn \cup {b}
  /\ UNCHANGED <<shipmentVars, batch, total, clerk, boundVars, crossed, overtaken>>

\* If no row is left to pick, the batch is completed.
Check(u) ==
  LET b == user[u].batch IN
  /\ UserAt(u, "check")
  /\ UserBecomes(u, IF Todo(b) = {}
                      THEN [pc |-> "finish", batch |-> b, copy |-> batch[b], ids |-> Listed(b)]
                      ELSE NoUser)
  /\ UNCHANGED <<shipmentVars, batchVars, clerk, boundVars, ghostVars>>

\* The batch has ended, or lost a shipment, since the user looked at it.
Overtake(u) ==
  LET b == user[u].batch IN
  overtaken' = (overtaken \/ batch[b] # user[u].copy \/ Listed(b) # user[u].ids)

\* complete().
Finish(u) ==
  LET b == user[u].batch IN
  /\ UserAt(u, "finish")
  /\ Free(b)
  /\ rows' = [rows EXCEPT ![b] =
       [s \in Shipment |-> IF rows[b][s] = "todo" THEN "picked" ELSE rows[b][s]]]
  /\ picking' = [s \in Shipment |-> IF s \in user[u].ids THEN "picked" ELSE picking[s]]
  /\ batch' = IF user[u].copy = "completed" THEN batch ELSE [batch EXCEPT ![b] = "completed"]
  /\ UserBecomes(u, NoUser)
  /\ Overtake(u)
  /\ UNCHANGED <<shipped, status, total, clerk, boundVars, crossed, torn>>

\* cancel(): the rows stay.
Cancel(u) ==
  LET b == user[u].batch IN
  /\ UserAt(u, "cancel")
  /\ Free(b)
  /\ picking' = [s \in Shipment |-> IF s \in user[u].ids THEN "pending" ELSE picking[s]]
  /\ batch' = [batch EXCEPT ![b] = "cancelled"]
  /\ UserBecomes(u, NoUser)
  /\ Overtake(u)
  /\ UNCHANGED <<shipped, status, total, rows, clerk, boundVars, crossed, torn>>

Next ==
  \/ \E c \in Clerk :
       \/ \E p \in Package : Ship(c, p) \/ Void(c, p)
       \/ Work(c)
       \/ Stop(c)
  \/ \E u \in User :
       \/ \E b \in Batch :
            \/ \E chosen \in SUBSET Shipment : Create(u, b, chosen)
            \/ \E step \in {"finish", "cancel"} : Open(u, b, step)
            \/ \E s \in Shipment : Tick(u, b, s)
       \/ Check(u)
       \/ Finish(u)
       \/ Cancel(u)

Spec == Init /\ [][Next]_vars

-----------------------------------------------------------------------------
(* Properties.                                                             *)

\* Every variable holds a value the rows and the processes can hold.
TypeOK ==
  /\ shipped \subseteq Package
  /\ status \in [Shipment -> {"open", "shipped"}]
  /\ picking \in [Shipment -> {"pending", "batched", "picked"}]
  /\ batch \in [Batch -> Statuses]
  /\ total \in [Batch -> Nat]
  /\ rows \in [Batch -> [Shipment -> RowState]]
  /\ clerk \in [Clerk -> Clerks]
  /\ user \in [User -> Users]
  /\ voids \in 0..MaxVoids /\ mishaps \in 0..MaxMishaps
  /\ crossed \subseteq Shipment /\ torn \subseteq Batch /\ overtaken \in BOOLEAN

\* Once the processes that shipped or voided its packages are through, the
\* status of a shipment is what its packages say, in whatever order they read
\* and wrote; unless one died, or a void and a shipping ran into each other.
StatusFollowsThePackages ==
  \A s \in Shipment \ crossed :
    mishaps = 0 /\ ~Computing(s, TRUE) /\ ~Computing(s, FALSE) => status[s] = Verdict(s)

\* The counter of a batch is right. It is not any more once two processes have
\* taken the same shipment out: both decrement it.
Counted(b) == total[b] = Cardinality(Listed(b))

\* No picker is sent for a shipment that has shipped: if one is on a list of a
\* batch in progress, the process that is to take it off is on its way; unless
\* a counter is wrong, which stops it at zero.
ShippedLeavesTheLists ==
  mishaps = 0 /\ ~overtaken /\ (\A b \in Batch : Counted(b)) =>
    \A s \in Shipment, b \in Batch :
      status[s] = "shipped" /\ batch[b] = "in_progress" /\ rows[b][s] = "todo" =>
        \E c \in Clerk : clerk[c].shipment = s /\ clerk[c].pc \in {"find", "remove", "commit"}

\* A shipment is on the list of one batch in progress at most, and no other batch
\* can take it, as long as nobody acted on a batch that had ended, or lost a
\* shipment, since they looked at it.
OneListPerShipment ==
  ~overtaken /\ (\A b \in Batch : Counted(b)) =>
    \A s \in Shipment, a \in Batch :
      batch[a] = "in_progress" /\ rows[a][s] # "none" =>
        /\ picking[s] # "pending"
        /\ \A b \in Batch : batch[b] = "in_progress" /\ rows[b][s] # "none" => a = b

\* Whoever picks or takes out the last shipment of a batch ends it: none stays in
\* progress with nothing left to pick, unless a pick was ticked while the
\* transaction that takes a shipment out was open, which neither of the two sees.
LastPickEndsTheBatch ==
  mishaps = 0 =>
    \A b \in Batch \ torn :
      batch[b] = "in_progress" /\ Todo(b) = {} =>
        \E u \in User : user[u].batch = b /\ user[u].pc \in {"check", "finish", "cancel"}

\* A shipment that a cancelled batch returned to pending is not Picked before it
\* has been on another list.
PendingIsBatchedBeforePicked ==
  [][\A s \in Shipment : picking[s] = "pending" => picking'[s] # "picked"]_vars
=============================================================================
