-------------------------- MODULE PickBatch_proofs --------------------------
(***************************************************************************)
(* Proofs, for every value of the constants, of the invariants that the    *)
(* run of MCPickBatch checks on a small instance.                          *)
(***************************************************************************)
EXTENDS PickBatch, FiniteSetTheorems, TLAPS

(***************************************************************************)
(* Types. A clerk at work has a shipment, and a user a batch, which was    *)
(* created; and a batch that has ended stays so.                           *)
(***************************************************************************)
Ended(b) == batch[b] \in {"completed", "cancelled"}

Taking == {"remove", "commit"}

ClerkSituated(k) ==
  /\ k.pc # "idle" => k.shipment \in Shipment
  /\ k.pc \in Taking => k.found # {}

UserSituated(k) ==
  /\ k.pc # "idle" => k.batch \in Batch
  /\ k.pc = "cancel" => k.copy = "in_progress"

TypeInv ==
  /\ TypeOK
  /\ \A c \in Clerk : ClerkSituated(clerk[c])
  /\ \A u \in User : UserSituated(user[u])

LEMMA NobodyAtWork ==
  /\ NoClerk \in Clerks /\ ClerkSituated(NoClerk) /\ NoClerk.pc = "idle"
  /\ NoUser \in Users /\ UserSituated(NoUser) /\ NoUser.pc = "idle"
  BY DEF NoClerk, Clerks, Endings, ClerkSituated, Taking, NoUser, Users, Statuses, UserSituated

\* One clerk changes, and the others stay what they are.
OnlyClerk(c) ==
  /\ clerk' \in [Clerk -> Clerks]
  /\ \A d \in Clerk : d # c => clerk'[d] = clerk[d]
  /\ \A d \in Clerk : ClerkSituated(clerk'[d])

LEMMA OneClerkChanges ==
  ASSUME TypeInv, NEW c \in Clerk, NEW k \in Clerks, ClerkSituated(k), Become(c, k)
  PROVE  OnlyClerk(c) /\ clerk'[c] = k
  BY DEF TypeInv, TypeOK, Become, OnlyClerk

LEMMA ClerkRests ==
  ASSUME TypeInv, NEW c \in Clerk, Become(c, NoClerk)
  PROVE  OnlyClerk(c) /\ clerk'[c].pc = "idle"
  BY OneClerkChanges, NobodyAtWork

\* What the steps of a clerk leave in its memory.
Same(c) == clerk'[c].shipment = clerk[c].shipment /\ clerk'[c].voiding = clerk[c].voiding

LEMMA Starts ==
  ASSUME TypeInv, NEW c \in Clerk, NEW p \in Package, Ship(c, p) \/ Void(c, p)
  PROVE  /\ OnlyClerk(c)
         /\ clerk'[c].pc = "load"
         /\ clerk'[c].shipment = ShipmentOf[p] /\ ShipmentOf[p] \in Shipment
         /\ Ship(c, p) => clerk'[c].voiding = FALSE
         /\ Void(c, p) => clerk'[c].voiding = TRUE
<1> DEFINE s == ShipmentOf[p]
           k == [NoClerk EXCEPT !.pc = "load", !.shipment = s]
           v == [NoClerk EXCEPT !.pc = "load", !.shipment = s, !.voiding = TRUE]
<1>1. s \in Shipment
  BY PickAssumption
<1>2. /\ k \in Clerks /\ k.pc = "load" /\ k.shipment = s /\ k.voiding = FALSE
      /\ v \in Clerks /\ v.pc = "load" /\ v.shipment = s /\ v.voiding = TRUE
  BY <1>1 DEF NoClerk, Clerks, Endings
<1>3. ClerkSituated(k) /\ ClerkSituated(v)
  BY <1>1, <1>2 DEF ClerkSituated, Taking
<1>4. (Ship(c, p) /\ Become(c, k)) \/ (Void(c, p) /\ Become(c, v))
  BY DEF Ship, Void
<1>5. ~(Ship(c, p) /\ Void(c, p))
  BY DEF Ship, Void
<1> HIDE DEF k, v
<1> QED
  BY <1>1, <1>2, <1>3, <1>4, <1>5, OneClerkChanges

LEMMA Loads ==
  ASSUME TypeInv, NEW c \in Clerk, Load(c)
  PROVE  /\ OnlyClerk(c) /\ Same(c)
         /\ clerk'[c].pc = "judge" /\ clerk'[c].copy = status[clerk[c].shipment]
<1> DEFINE k == [clerk[c] EXCEPT !.pc = "judge", !.copy = status[clerk[c].shipment]]
<1>1. clerk[c] \in Clerks /\ clerk[c].shipment \in Shipment
  BY DEF TypeInv, TypeOK, Load, At, ClerkSituated
<1>2. status[clerk[c].shipment] \in {"open", "shipped"}
  BY <1>1 DEF TypeInv, TypeOK
<1>3. /\ k \in Clerks /\ k.pc = "judge" /\ k.copy = status[clerk[c].shipment]
      /\ k.shipment = clerk[c].shipment /\ k.voiding = clerk[c].voiding
  BY <1>1, <1>2 DEF Clerks
<1>4. ClerkSituated(k) /\ Become(c, k)
  BY <1>1, <1>3 DEF ClerkSituated, Taking, Load
<1> HIDE DEF k
<1> QED
  BY <1>3, <1>4, OneClerkChanges DEF Same

LEMMA Judges ==
  ASSUME TypeInv, NEW c \in Clerk, Judge(c)
  PROVE  /\ OnlyClerk(c) /\ Same(c)
         /\ clerk'[c].pc = "write" /\ clerk'[c].copy = clerk[c].copy
         /\ clerk'[c].verdict = Verdict(clerk[c].shipment)
<1> DEFINE j == Verdict(clerk[c].shipment)
           k == [clerk[c] EXCEPT !.pc = "write", !.verdict = j]
<1>1. clerk[c] \in Clerks /\ clerk[c].shipment \in Shipment
  BY DEF TypeInv, TypeOK, Judge, At, ClerkSituated
<1>2. j \in {"open", "shipped"}
  BY DEF Verdict
<1> HIDE DEF j
<1>3. /\ k \in Clerks /\ k.pc = "write" /\ k.copy = clerk[c].copy /\ k.verdict = j
      /\ k.shipment = clerk[c].shipment /\ k.voiding = clerk[c].voiding
  BY <1>1, <1>2 DEF Clerks
<1>4. ClerkSituated(k) /\ Become(c, k)
  BY <1>1, <1>3 DEF ClerkSituated, Taking, Judge, j
<1> HIDE DEF k
<1> QED
  BY <1>3, <1>4, OneClerkChanges DEF Same, j

LEMMA Writes ==
  ASSUME TypeInv, NEW c \in Clerk, Write(c)
  PROVE  /\ OnlyClerk(c) /\ clerk[c].shipment \in Shipment
         /\ \/ /\ clerk[c].verdict = "shipped"
               /\ clerk'[c].pc = "find" /\ clerk'[c].shipment = clerk[c].shipment
            \/ clerk[c].verdict = "open" /\ clerk'[c].pc = "idle"
<1> DEFINE k == [NoClerk EXCEPT !.pc = "find", !.shipment = clerk[c].shipment]
<1>1. clerk[c] \in Clerks /\ clerk[c].shipment \in Shipment
  BY DEF TypeInv, TypeOK, Write, At, ClerkSituated
<1>2. clerk[c].verdict \in {"open", "shipped"}
  BY <1>1 DEF Clerks
<1>3. k \in Clerks /\ k.pc = "find" /\ k.shipment = clerk[c].shipment
  BY <1>1 DEF NoClerk, Clerks, Endings
<1>4. ClerkSituated(k)
  BY <1>1, <1>3 DEF ClerkSituated, Taking
<1>5. Become(c, IF clerk[c].verdict = "shipped" THEN k ELSE NoClerk)
  BY DEF Write
<1> HIDE DEF k
<1> QED
  BY <1>1, <1>2, <1>3, <1>4, <1>5, OneClerkChanges, ClerkRests

FoundBy(c) == {b \in Batch : batch[b] = "in_progress" /\ rows[b][clerk[c].shipment] = "todo"}

LEMMA Finds ==
  ASSUME TypeInv, NEW c \in Clerk, Find(c)
  PROVE  /\ OnlyClerk(c)
         /\ \/ FoundBy(c) = {} /\ clerk'[c].pc = "idle"
            \/ /\ FoundBy(c) # {} /\ Same(c)
               /\ clerk'[c].pc = "remove" /\ clerk'[c].found = FoundBy(c)
<1> DEFINE k == [clerk[c] EXCEPT !.pc = "remove", !.found = FoundBy(c)]
<1>1. clerk[c] \in Clerks /\ clerk[c].shipment \in Shipment
  BY DEF TypeInv, TypeOK, Find, At, ClerkSituated
<1>2. FoundBy(c) \in SUBSET Batch
  BY DEF FoundBy
<1>3. CASE FoundBy(c) = {}
  BY <1>3, ClerkRests DEF Find, FoundBy
<1>4. CASE FoundBy(c) # {}
  <2>1. Become(c, k)
    BY <1>4 DEF Find, FoundBy
  <2>2. /\ k \in Clerks /\ k.pc = "remove" /\ k.found = FoundBy(c)
        /\ k.shipment = clerk[c].shipment /\ k.voiding = clerk[c].voiding
    BY <1>1, <1>2 DEF Clerks
  <2>3. ClerkSituated(k)
    BY <1>1, <1>4, <2>2 DEF ClerkSituated
  <2> HIDE DEF k
  <2> QED
    BY <1>4, <2>1, <2>2, <2>3, OneClerkChanges DEF Same
<1> QED
  BY <1>3, <1>4

LEMMA Removes ==
  ASSUME TypeInv, NEW c \in Clerk, Remove(c)
  PROVE  /\ OnlyClerk(c) /\ Same(c)
         /\ clerk'[c].pc = "commit" /\ clerk'[c].found = clerk[c].found
         /\ \A b \in clerk[c].found :
              clerk'[c].ending[b] = EndingWithout(b, clerk[c].shipment)
<1> DEFINE e == [b \in Batch |-> IF b \in clerk[c].found
                                   THEN EndingWithout(b, clerk[c].shipment) ELSE "goes_on"]
           g == picking[clerk[c].shipment] = "batched"
           k == [clerk[c] EXCEPT !.pc = "commit", !.ending = e, !.batched = g]
<1>1. clerk[c] \in Clerks /\ ClerkSituated(clerk[c]) /\ clerk[c].pc = "remove"
  BY DEF TypeInv, TypeOK, Remove, At
<1>2. clerk[c].found \in SUBSET Batch
  BY <1>1 DEF Clerks
<1>3. e \in [Batch -> Endings] /\ g \in BOOLEAN
  BY DEF EndingWithout, Endings
<1>4. \A b \in clerk[c].found : e[b] = EndingWithout(b, clerk[c].shipment)
  BY <1>2
<1>5. Become(c, k)
  BY DEF Remove
<1> HIDE DEF e, g
<1>6. /\ k \in Clerks /\ k.pc = "commit" /\ k.found = clerk[c].found /\ k.ending = e
      /\ k.shipment = clerk[c].shipment /\ k.voiding = clerk[c].voiding
  BY <1>1, <1>3 DEF Clerks
<1>7. ClerkSituated(k)
  BY <1>1, <1>6 DEF ClerkSituated, Taking
<1> HIDE DEF k
<1> QED
  BY <1>4, <1>5, <1>6, <1>7, OneClerkChanges DEF Same

\* One user changes.
OnlyUser(u) ==
  /\ user' \in [User -> Users]
  /\ \A v \in User : v # u => user'[v] = user[v]
  /\ \A v \in User : UserSituated(user'[v])

LEMMA OneUserChanges ==
  ASSUME TypeInv, NEW u \in User, NEW k \in Users, UserSituated(k), UserBecomes(u, k)
  PROVE  OnlyUser(u) /\ user'[u] = k
  BY DEF TypeInv, TypeOK, UserBecomes, OnlyUser

LEMMA UserRests ==
  ASSUME TypeInv, NEW u \in User, UserBecomes(u, NoUser)
  PROVE  OnlyUser(u) /\ user'[u] = NoUser /\ user'[u].pc = "idle"
  BY OneUserChanges, NobodyAtWork

LEMMA Opens ==
  ASSUME TypeInv, NEW u \in User, NEW b \in Batch, NEW step \in {"finish", "cancel"},
         Open(u, b, step)
  PROVE  /\ OnlyUser(u)
         /\ user'[u].pc = step /\ user'[u].batch = b
         /\ user'[u].copy = "in_progress" /\ user'[u].ids = Listed(b)
<1> DEFINE k == [pc |-> step, batch |-> b, copy |-> batch[b], ids |-> Listed(b)]
<1>1. batch[b] = "in_progress"
  BY DEF Open
<1>2. k \in Users /\ UserSituated(k)
  BY <1>1 DEF Users, Statuses, Listed, UserSituated
<1> QED
  BY <1>1, <1>2, OneUserChanges DEF Open

LEMMA Ticks ==
  ASSUME TypeInv, NEW u \in User, NEW b \in Batch, NEW s \in Shipment, Tick(u, b, s)
  PROVE  OnlyUser(u) /\ user'[u].pc = "check" /\ user'[u].batch = b
<1> DEFINE k == [NoUser EXCEPT !.pc = "check", !.batch = b]
<1>1. k \in Users /\ k.pc = "check" /\ k.batch = b
  BY DEF NoUser, Users, Statuses
<1>2. UserSituated(k) /\ UserBecomes(u, k)
  BY <1>1 DEF UserSituated, Tick
<1> HIDE DEF k
<1> QED
  BY <1>1, <1>2, OneUserChanges

LEMMA Checks ==
  ASSUME TypeInv, NEW u \in User, Check(u)
  PROVE  LET b == user[u].batch IN
         /\ OnlyUser(u) /\ b \in Batch
         /\ \/ Todo(b) # {} /\ user'[u].pc = "idle"
            \/ /\ Todo(b) = {} /\ user'[u].pc = "finish" /\ user'[u].batch = b
               /\ user'[u].copy = batch[b]
<1> DEFINE b == user[u].batch
           k == [pc |-> "finish", batch |-> b, copy |-> batch[b], ids |-> Listed(b)]
<1>1. b \in Batch
  BY DEF Check, UserAt, TypeInv, UserSituated
<1>2. k \in Users /\ UserSituated(k)
  BY <1>1 DEF TypeInv, TypeOK, Users, Listed, UserSituated
<1> QED
  BY <1>1, <1>2, OneUserChanges, UserRests DEF Check

LEMMA ListedFinite ==
  ASSUME NEW S \in SUBSET Shipment
  PROVE  IsFiniteSet(S) /\ Cardinality(S) \in Nat
  BY PickAssumption, FS_Subset, FS_CardinalityType

LEMMA TypeInvariant == Spec => []TypeInv
<1>1. Init => TypeInv
  <2> SUFFICES ASSUME Init PROVE TypeInv
    OBVIOUS
  <2>1. voids \in 0..MaxVoids /\ mishaps \in 0..MaxMishaps
    BY PickAssumption DEF Init
  <2>2. rows \in [Batch -> [Shipment -> RowState]]
    BY DEF Init, RowState
  <2>3. batch \in [Batch -> Statuses] /\ total \in [Batch -> Nat]
    BY DEF Init, Statuses
  <2> QED
    BY <2>1, <2>2, <2>3, NobodyAtWork DEF Init, TypeInv, TypeOK
<1>2. TypeInv /\ [Next]_vars => TypeInv'
  <2> SUFFICES ASSUME TypeInv, [Next]_vars PROVE TypeInv'
    OBVIOUS
  <2> USE DEF shipmentVars, batchVars, boundVars, ghostVars
  <2>1. CASE UNCHANGED vars
    BY <2>1 DEF vars, TypeInv, TypeOK, ClerkSituated, UserSituated
  <2>2. ASSUME NEW c \in Clerk, NEW p \in Package, Ship(c, p) PROVE TypeInv'
    BY <2>2, Starts DEF Ship, Cross, TypeInv, TypeOK, OnlyClerk, UserSituated
  <2>3. ASSUME NEW c \in Clerk, NEW p \in Package, Void(c, p) PROVE TypeInv'
    <3>1. voids' \in 0..MaxVoids
      BY <2>3, PickAssumption DEF Void, TypeInv, TypeOK
    <3> QED
      BY <2>3, <3>1, Starts DEF Void, Cross, TypeInv, TypeOK, OnlyClerk, UserSituated
  <2>4. ASSUME NEW c \in Clerk, Load(c) PROVE TypeInv'
    BY <2>4, Loads DEF Load, TypeInv, TypeOK, OnlyClerk, UserSituated
  <2>5. ASSUME NEW c \in Clerk, Judge(c) PROVE TypeInv'
    BY <2>5, Judges DEF Judge, TypeInv, TypeOK, OnlyClerk, UserSituated
  <2>6. ASSUME NEW c \in Clerk, Write(c) PROVE TypeInv'
    <3>1. status' \in [Shipment -> {"open", "shipped"}]
      BY <2>6, Writes DEF Write, TypeInv, TypeOK
    <3> QED
      BY <2>6, <3>1, Writes DEF Write, TypeInv, TypeOK, OnlyClerk, UserSituated
  <2>7. ASSUME NEW c \in Clerk, Find(c) PROVE TypeInv'
    BY <2>7, Finds DEF Find, TypeInv, TypeOK, OnlyClerk, UserSituated
  <2>8. ASSUME NEW c \in Clerk, Remove(c) PROVE TypeInv'
    BY <2>8, Removes DEF Remove, TypeInv, TypeOK, OnlyClerk, UserSituated
  <2>9. ASSUME NEW c \in Clerk, Commit(c) PROVE TypeInv'
    <3>1. OnlyClerk(c)
      BY <2>9, ClerkRests DEF Commit
    <3>2. clerk[c].shipment \in Shipment /\ clerk[c].ending \in [Batch -> Endings]
      BY <2>9 DEF Commit, At, TypeInv, TypeOK, ClerkSituated, Clerks
    <3>3. rows' \in [Batch -> [Shipment -> RowState]]
      BY <2>9, <3>2 DEF Commit, TypeInv, TypeOK, RowState
    <3>4. total' \in [Batch -> Nat]
      BY <2>9 DEF Commit, CanDecrement, TypeInv, TypeOK
    <3>5. batch' \in [Batch -> Statuses]
      BY <2>9, <3>2 DEF Commit, TypeInv, TypeOK, Statuses, Endings
    <3>6. picking' \in [Shipment -> {"pending", "batched", "picked"}]
      BY <2>9 DEF Commit, TypeInv, TypeOK
    <3> QED
      BY <2>9, <3>1, <3>3, <3>4, <3>5, <3>6
      DEF Commit, TypeInv, TypeOK, OnlyClerk, UserSituated
  <2>10. ASSUME NEW c \in Clerk, Overrun(c) PROVE TypeInv'
    BY <2>10, ClerkRests DEF Overrun, TypeInv, TypeOK, OnlyClerk, UserSituated
  <2>11. ASSUME NEW c \in Clerk, Stop(c) PROVE TypeInv'
    <3>1. mishaps' \in 0..MaxMishaps
      BY <2>11, PickAssumption DEF Stop, TypeInv, TypeOK
    <3> QED
      BY <2>11, <3>1, ClerkRests DEF Stop, TypeInv, TypeOK, OnlyClerk, UserSituated
  <2>12. ASSUME NEW u \in User, NEW b \in Batch, NEW chosen \in SUBSET Shipment,
                Create(u, b, chosen)
         PROVE  TypeInv'
    <3>1. total' \in [Batch -> Nat]
      BY <2>12, ListedFinite DEF Create, TypeInv, TypeOK
    <3>2. batch' \in [Batch -> Statuses]
      BY <2>12 DEF Create, TypeInv, TypeOK, Statuses
    <3>3. rows' \in [Batch -> [Shipment -> RowState]]
      BY <2>12 DEF Create, TypeInv, TypeOK, RowState
    <3>4. picking' \in [Shipment -> {"pending", "batched", "picked"}]
      BY <2>12 DEF Create, TypeInv, TypeOK
    <3> QED
      BY <2>12, <3>1, <3>2, <3>3, <3>4
      DEF Create, TypeInv, TypeOK, ClerkSituated, UserSituated
  <2>13. ASSUME NEW u \in User, NEW b \in Batch, NEW step \in {"finish", "cancel"},
                Open(u, b, step)
         PROVE  TypeInv'
    BY <2>13, Opens DEF Open, TypeInv, TypeOK, OnlyUser, ClerkSituated
  <2>14. ASSUME NEW u \in User, NEW b \in Batch, NEW s \in Shipment, Tick(u, b, s)
         PROVE  TypeInv'
    <3>1. rows' \in [Batch -> [Shipment -> RowState]]
      BY <2>14 DEF Tick, TypeInv, TypeOK, RowState
    <3> QED
      BY <2>14, <3>1, Ticks DEF Tick, TypeInv, TypeOK, OnlyUser, ClerkSituated
  <2>15. ASSUME NEW u \in User, Check(u) PROVE TypeInv'
    BY <2>15, Checks DEF Check, TypeInv, TypeOK, OnlyUser, ClerkSituated
  <2>16. ASSUME NEW u \in User, Finish(u) PROVE TypeInv'
    <3>1. OnlyUser(u)
      BY <2>16, UserRests DEF Finish
    <3>2. rows' \in [Batch -> [Shipment -> RowState]]
      BY <2>16 DEF Finish, TypeInv, TypeOK, RowState
    <3>3. batch' \in [Batch -> Statuses]
      BY <2>16 DEF Finish, TypeInv, TypeOK, Statuses
    <3>4. picking' \in [Shipment -> {"pending", "batched", "picked"}]
      BY <2>16 DEF Finish, TypeInv, TypeOK
    <3>5. overtaken' \in BOOLEAN
      BY <2>16 DEF Finish, Overtake, TypeInv, TypeOK
    <3> QED
      BY <2>16, <3>1, <3>2, <3>3, <3>4, <3>5
      DEF Finish, TypeInv, TypeOK, OnlyUser, ClerkSituated
  <2>17. ASSUME NEW u \in User, Cancel(u) PROVE TypeInv'
    <3>1. OnlyUser(u)
      BY <2>17, UserRests DEF Cancel
    <3>2. batch' \in [Batch -> Statuses]
      BY <2>17 DEF Cancel, TypeInv, TypeOK, Statuses
    <3>3. picking' \in [Shipment -> {"pending", "batched", "picked"}]
      BY <2>17 DEF Cancel, TypeInv, TypeOK
    <3>4. overtaken' \in BOOLEAN
      BY <2>17 DEF Cancel, Overtake, TypeInv, TypeOK
    <3> QED
      BY <2>17, <3>1, <3>2, <3>3, <3>4
      DEF Cancel, TypeInv, TypeOK, OnlyUser, ClerkSituated
  <2> QED
    BY <2>1, <2>2, <2>3, <2>4, <2>5, <2>6, <2>7, <2>8, <2>9, <2>10, <2>11, <2>12, <2>13,
       <2>14, <2>15, <2>16, <2>17 DEF Next, Work
<1> QED
  BY <1>1, <1>2, PTL DEF Spec

\* For any number of shipments, packages, batches, clerks and users, the rows
\* and the processes keep their types; the counter of a batch does not go below
\* zero, whoever decrements it.
THEOREM TypeCorrect == Spec => []TypeOK
  BY TypeInvariant, PTL DEF TypeInv

(***************************************************************************)
(* The status of a shipment. While one kind of process is at work on it,   *)
(* those that ship or those that void, its packages move one way only. So  *)
(* what a clerk has computed is still right, or it writes nothing; and as  *)
(* long as the status is not what the packages say there is a clerk that   *)
(* is yet to see this or about to write it.                                *)
(***************************************************************************)
Busy(c, s) == clerk[c].pc \in {"load", "judge", "write"} /\ clerk[c].shipment = s

Fixing(c, s) ==
  /\ Busy(c, s)
  /\ clerk[c].pc \in {"judge", "write"} => clerk[c].copy = status[s]
  /\ clerk[c].pc = "write" => clerk[c].verdict = Verdict(s)

Settled(s) ==
  /\ ~(Computing(s, TRUE) /\ Computing(s, FALSE))
  /\ Computing(s, TRUE) => Verdict(s) = "open"
  /\ Computing(s, FALSE) /\ status[s] = "shipped" => Verdict(s) = "shipped"
  /\ \A c \in Clerk : Busy(c, s) =>
       /\ clerk[c].pc # "load" /\ ~clerk[c].voiding /\ clerk[c].copy = "shipped" =>
            Verdict(s) = "shipped"
       /\ clerk[c].pc = "write" =>
            clerk[c].verdict = Verdict(s) \/ clerk[c].verdict = clerk[c].copy
  /\ status[s] # Verdict(s) => \E c \in Clerk : Fixing(c, s)

StatusInv == mishaps = 0 => \A s \in Shipment \ crossed : Settled(s)

LEMMA BusyIsComputing ==
  ASSUME TypeInv, NEW s, NEW c \in Clerk, Busy(c, s)
  PROVE  IF clerk[c].voiding THEN Computing(s, TRUE) ELSE Computing(s, FALSE)
<1>1. clerk[c].voiding \in BOOLEAN
  BY DEF TypeInv, TypeOK, Clerks
<1>2. CASE clerk[c].voiding = TRUE
  BY <1>2 DEF Busy, Computing
<1>3. CASE clerk[c].voiding = FALSE
  BY <1>3 DEF Busy, Computing
<1> QED
  BY <1>1, <1>2, <1>3

\* A step that has nothing to do with the shipment.
LEMMA Unaffected ==
  ASSUME NEW s \in Shipment, Settled(s),
         status'[s] = status[s], Verdict(s)' = Verdict(s),
         \A c \in Clerk : clerk'[c] = clerk[c] \/ (~Busy(c, s) /\ ~Busy(c, s)')
  PROVE  Settled(s)'
<1>1. \A c \in Clerk : Busy(c, s) <=> Busy(c, s)'
  BY DEF Busy
<1>2. \A v : Computing(s, v)' => Computing(s, v)
  BY DEF Computing, Busy
<1>3. \A c \in Clerk : Fixing(c, s) => Fixing(c, s)'
  BY <1>1 DEF Fixing
<1>4. \A c \in Clerk : Busy(c, s)' => clerk'[c] = clerk[c]
  OBVIOUS
<1> QED
  BY <1>1, <1>2, <1>3, <1>4 DEF Settled

LEMMA VerdictOf ==
  /\ \A s : Verdict(s) \in {"open", "shipped"}
  /\ \A p \in Package : p \notin shipped => Verdict(ShipmentOf[p]) = "open"
  BY DEF Verdict, Packages

\* A package is shipped or voided.
LEMMA StatusStarts ==
  ASSUME TypeInv, NEW s \in Shipment, s \notin crossed', Settled(s),
         NEW c \in Clerk, NEW p \in Package, Ship(c, p) \/ Void(c, p)
  PROVE  Settled(s)'
<1>1. /\ OnlyClerk(c) /\ clerk[c].pc = "idle" /\ clerk'[c].pc = "load"
      /\ clerk'[c].shipment = ShipmentOf[p] /\ status' = status
  BY Starts DEF Ship, Void, At
<1>2. CASE ShipmentOf[p] # s
  <2>1. Verdict(s)' = Verdict(s)
    BY <1>2 DEF Ship, Void, Verdict, Packages
  <2>2. ~Busy(c, s) /\ ~Busy(c, s)'
    BY <1>1, <1>2 DEF Busy
  <2> QED
    BY <1>1, <2>1, <2>2, Unaffected DEF OnlyClerk
<1>3. CASE ShipmentOf[p] = s
  <2>1. status[s] \in {"open", "shipped"}
    BY DEF TypeInv, TypeOK
  <2>2. Fixing(c, s)'
    BY <1>1, <1>3 DEF Fixing, Busy
  <2>3. \A d \in Clerk : d # c => clerk'[d] = clerk[d]
    BY <1>1 DEF OnlyClerk
  <2>4. CASE Ship(c, p)
    <3>1. ~Computing(s, TRUE) /\ clerk'[c].voiding = FALSE
      BY <1>3, <2>4, Starts DEF Ship, Cross
    <3>2. ~Computing(s, TRUE)'
      BY <2>3, <3>1 DEF Computing
    <3>3. Verdict(s) = "open"
      BY <1>3, <2>4, VerdictOf DEF Ship
    <3>4. status[s] = "open"
      <4>1. CASE Computing(s, FALSE)
        BY <2>1, <3>3, <4>1 DEF Settled
      <4>2. CASE ~Computing(s, FALSE)
        BY <2>1, <3>1, <3>3, <4>2, BusyIsComputing DEF Settled, Fixing
      <4> QED
        BY <4>1, <4>2
    <3>5. ASSUME NEW d \in Clerk, Busy(d, s)', d # c
          PROVE  /\ clerk'[d].pc # "load" => clerk'[d].copy = "open"
                 /\ clerk'[d].pc = "write" => clerk'[d].verdict = clerk'[d].copy
      <4>1. Busy(d, s) /\ clerk'[d] = clerk[d]
        BY <2>3, <3>5 DEF Busy
      <4>2. ~clerk[d].voiding /\ clerk[d].copy \in {"open", "shipped"}
        BY <3>1, <4>1, BusyIsComputing DEF TypeInv, TypeOK, Clerks
      <4> QED
        BY <3>3, <4>1, <4>2 DEF Settled
    <3>6. status'[s] = "open"
      BY <1>1, <3>4
    <3>7. ASSUME NEW d \in Clerk, Busy(d, s)'
          PROVE  /\ clerk'[d].pc # "load" => clerk'[d].copy = "open"
                 /\ clerk'[d].pc = "write" => clerk'[d].verdict = clerk'[d].copy
      BY <1>1, <3>5, <3>7
    <3> QED
      BY <2>2, <3>2, <3>6, <3>7 DEF Settled
  <2>5. CASE Void(c, p)
    <3>1. ~Computing(s, FALSE) /\ clerk'[c].voiding = TRUE
      BY <1>3, <2>5, Starts DEF Void, Cross
    <3>2. ~Computing(s, FALSE)'
      BY <2>3, <3>1 DEF Computing
    <3>3. Verdict(s)' = "open"
      BY <1>3, <2>5 DEF Void, Verdict, Packages
    <3>4. ASSUME NEW d \in Clerk, Busy(d, s)', d # c
          PROVE  /\ clerk'[d].voiding
                 /\ clerk'[d].pc = "write" =>
                      clerk'[d].verdict = "open" \/ clerk'[d].verdict = clerk'[d].copy
      <4>1. Busy(d, s) /\ clerk'[d] = clerk[d]
        BY <2>3, <3>4 DEF Busy
      <4>2. clerk[d].voiding /\ Computing(s, TRUE)
        BY <3>1, <4>1, BusyIsComputing
      <4> QED
        BY <4>1, <4>2 DEF Settled
    <3>5. ASSUME NEW d \in Clerk, Busy(d, s)'
          PROVE  /\ clerk'[d].pc # "load" => clerk'[d].voiding
                 /\ clerk'[d].pc = "write" =>
                      clerk'[d].verdict = "open" \/ clerk'[d].verdict = clerk'[d].copy
      BY <1>1, <3>4, <3>5
    <3> QED
      BY <2>2, <3>2, <3>3, <3>5 DEF Settled
  <2> QED
    BY <2>4, <2>5
<1> QED
  BY <1>2, <1>3

\* The status is computed and written.
LEMMA StatusWritten ==
  ASSUME TypeInv, NEW s \in Shipment, Settled(s),
         NEW c \in Clerk, Load(c) \/ Judge(c) \/ Write(c)
  PROVE  Settled(s)'
<1>1. /\ OnlyClerk(c) /\ clerk[c].pc \in {"load", "judge", "write"}
      /\ clerk'[c].pc # "idle" => clerk'[c].shipment = clerk[c].shipment
      /\ Verdict(s)' = Verdict(s)
  BY Loads, Judges, Writes DEF Load, Judge, Write, At, Same, Verdict, shipmentVars
<1>2. \A d \in Clerk : d # c => clerk'[d] = clerk[d]
  BY <1>1 DEF OnlyClerk
<1>3. CASE clerk[c].shipment # s
  <2>1. status'[s] = status[s]
    BY <1>3 DEF Load, Judge, Write, TypeInv, TypeOK, shipmentVars
  <2>2. ~Busy(c, s) /\ ~Busy(c, s)'
    BY <1>1, <1>3 DEF Busy
  <2> QED
    BY <1>1, <1>2, <2>1, <2>2, Unaffected
<1>4. CASE clerk[c].shipment = s
  <2>1. \A v : Computing(s, v)' => Computing(s, v)
    <3>1. \A v : Computing(s, v)' => Computing(s, v) \/ (Busy(c, s)' /\ clerk'[c].voiding = v)
      BY <1>2 DEF Computing, Busy
    <3>2. Busy(c, s)' => clerk'[c].voiding = clerk[c].voiding
      BY Loads, Judges, Writes DEF Busy, Same
    <3> QED
      BY <1>1, <1>4, <3>1, <3>2 DEF Computing, Busy
  <2>2. Busy(c, s)
    BY <1>1, <1>4 DEF Busy
  <2>3. CASE Load(c)
    <3>1. status' = status /\ Same(c) /\ clerk'[c].pc = "judge" /\ clerk'[c].copy = status[s]
      BY <1>4, <2>3, Loads DEF Load, shipmentVars
    <3>2. clerk[c].voiding \/ Computing(s, FALSE)
      BY <2>2, BusyIsComputing
    <3>3. \A d \in Clerk : Fixing(d, s) => Fixing(d, s)'
      BY <1>1, <1>2, <1>4, <3>1 DEF Fixing, Busy, Same
    <3>4. \A d \in Clerk : d # c => (Busy(d, s)' <=> Busy(d, s))
      BY <1>2 DEF Busy
    <3> QED
      BY <1>1, <1>2, <2>1, <3>1, <3>2, <3>3, <3>4 DEF Settled, Same
  <2>4. CASE Judge(c)
    <3>1. /\ status' = status /\ Same(c) /\ clerk[c].pc = "judge" /\ clerk'[c].pc = "write"
          /\ clerk'[c].copy = clerk[c].copy /\ clerk'[c].verdict = Verdict(s)
      BY <1>4, <2>4, Judges DEF Judge, At, shipmentVars
    <3>2. \A d \in Clerk : Fixing(d, s) => Fixing(d, s)'
      BY <1>1, <1>2, <1>4, <3>1 DEF Fixing, Busy, Same
    <3>3. \A d \in Clerk : d # c => (Busy(d, s)' <=> Busy(d, s))
      BY <1>2 DEF Busy
    <3> QED
      BY <1>1, <1>2, <2>1, <2>2, <3>1, <3>2, <3>3 DEF Settled, Same
  <2>5. CASE Write(c)
    <3>1. /\ clerk[c].pc = "write" /\ ~Busy(c, s)'
          /\ status'[s] = IF Dirty(c) THEN clerk[c].verdict ELSE status[s]
      BY <1>4, <2>5, Writes DEF Write, At, Busy, TypeInv, TypeOK
    <3>2. \A d \in Clerk : d # c => (Busy(d, s)' <=> Busy(d, s))
      BY <1>2 DEF Busy
    <3>3. \A d \in Clerk : Busy(d, s)' => d # c /\ clerk'[d] = clerk[d] /\ Busy(d, s)
      BY <1>2, <3>1, <3>2
    <3>4. CASE Dirty(c)
      <4>1. status'[s] = Verdict(s)
        BY <2>2, <3>1, <3>4 DEF Settled, Dirty
      <4> QED
        BY <1>1, <2>1, <3>3, <4>1 DEF Settled
    <3>5. CASE ~Dirty(c)
      <4>1. status'[s] = status[s]
        BY <3>1, <3>5
      <4>2. status[s] # Verdict(s) => ~Fixing(c, s)
        BY <3>1, <3>5 DEF Fixing, Dirty
      <4>3. \A d \in Clerk : d # c /\ Fixing(d, s) => Fixing(d, s)'
        BY <1>1, <1>2, <4>1 DEF Fixing, Busy
      <4> QED
        BY <1>1, <2>1, <3>3, <4>1, <4>2, <4>3 DEF Settled
    <3> QED
      BY <3>4, <3>5
  <2> QED
    BY <2>3, <2>4, <2>5
<1> QED
  BY <1>3, <1>4

\* The rest of a clerk's work, and what users do, is about batches.
Elsewhere(c) == Find(c) \/ Remove(c) \/ Commit(c) \/ Overrun(c)

LEMMA StepsOnStatus ==
  ASSUME [Next]_vars, mishaps' = mishaps
  PROVE  \/ UNCHANGED <<shipped, status, clerk, crossed>>
         \/ \E c \in Clerk :
              \/ \E p \in Package : Ship(c, p) \/ Void(c, p)
              \/ (Load(c) \/ Judge(c) \/ Write(c)) /\ UNCHANGED crossed
              \/ Elsewhere(c) /\ UNCHANGED <<shipped, status, crossed>>
              \/ Stop(c)
<1>1. \A c \in Clerk : Load(c) \/ Judge(c) \/ Write(c) => UNCHANGED crossed
  BY DEF Load, Judge, Write, ghostVars
<1>2. \A c \in Clerk : Elsewhere(c) => UNCHANGED <<shipped, status, crossed>>
  BY DEF Elsewhere, Find, Remove, Commit, Overrun, shipmentVars, ghostVars
<1>3. ASSUME NEW u \in User,
             \/ \E b \in Batch :
                  \/ \E chosen \in SUBSET Shipment : Create(u, b, chosen)
                  \/ \E step \in {"finish", "cancel"} : Open(u, b, step)
                  \/ \E s \in Shipment : Tick(u, b, s)
             \/ Check(u) \/ Finish(u) \/ Cancel(u)
      PROVE  UNCHANGED <<shipped, status, clerk, crossed>>
  BY <1>3 DEF Create, Open, Tick, Check, Finish, Cancel, shipmentVars, ghostVars
<1>4. UNCHANGED vars => UNCHANGED <<shipped, status, clerk, crossed>>
  BY DEF vars, shipmentVars, ghostVars
<1> QED
  BY <1>1, <1>2, <1>3, <1>4 DEF Next, Work, Elsewhere

LEMMA MishapsStay ==
  ASSUME TypeInv, [Next]_vars, mishaps' = 0
  PROVE  mishaps = 0 /\ \A c \in Clerk : ~Stop(c)
<1>1. mishaps \in Nat
  BY DEF TypeInv, TypeOK
<1>2. \A c \in Clerk : ~Stop(c)
  BY <1>1 DEF Stop
<1>3. mishaps' = mishaps
  BY <1>2 DEF Next, Work, vars, Ship, Void, Load, Judge, Write, Find, Remove, Commit, Overrun,
              Create, Open, Tick, Check, Finish, Cancel, boundVars
<1> QED
  BY <1>2, <1>3

LEMMA StatusInvariant == Spec => []StatusInv
<1>1. Init => StatusInv
  <2> SUFFICES ASSUME Init, NEW s \in Shipment PROVE Settled(s)
    BY DEF StatusInv
  <2>1. \A c \in Clerk : clerk[c].pc = "idle"
    BY NobodyAtWork DEF Init
  <2>2. status[s] = "open" /\ Verdict(s) = "open"
    BY DEF Init, Verdict
  <2> QED
    BY <2>1, <2>2 DEF Settled, Computing, Busy
<1>2. TypeInv /\ StatusInv /\ [Next]_vars => StatusInv'
  <2> SUFFICES ASSUME TypeInv, StatusInv, [Next]_vars, mishaps' = 0,
                      NEW s \in Shipment, s \notin crossed'
               PROVE  Settled(s)'
    BY DEF StatusInv
  <2>1. mishaps = 0 /\ mishaps' = mishaps /\ \A c \in Clerk : ~Stop(c)
    BY MishapsStay
  <2>2. s \notin crossed => Settled(s)
    BY <2>1 DEF StatusInv
  <2>3. CASE UNCHANGED <<shipped, status, clerk, crossed>>
    BY <2>2, <2>3, Unaffected DEF Verdict
  <2>4. ASSUME NEW c \in Clerk, NEW p \in Package, Ship(c, p) \/ Void(c, p)
        PROVE  Settled(s)'
    <3>1. s \notin crossed
      BY <2>4 DEF Ship, Void, Cross
    <3> QED
      BY <2>2, <2>4, <3>1, StatusStarts
  <2>5. ASSUME NEW c \in Clerk, Load(c) \/ Judge(c) \/ Write(c), UNCHANGED crossed
        PROVE  Settled(s)'
    BY <2>2, <2>5, StatusWritten
  <2>6. ASSUME NEW c \in Clerk, Elsewhere(c), UNCHANGED <<shipped, status, crossed>>
        PROVE  Settled(s)'
    <3>1. OnlyClerk(c)
      BY <2>6, Finds, Removes, ClerkRests DEF Elsewhere, Commit, Overrun
    <3>2. clerk[c].pc \notin {"load", "judge", "write"}
      BY <2>6 DEF Elsewhere, Find, Remove, Commit, Overrun, At
    <3>3. clerk'[c].pc \notin {"load", "judge", "write"}
      BY <2>6, Finds, Removes, ClerkRests DEF Elsewhere, Commit, Overrun
    <3>4. Verdict(s)' = Verdict(s)
      BY <2>6 DEF Verdict
    <3>5. ~Busy(c, s) /\ ~Busy(c, s)'
      BY <3>2, <3>3 DEF Busy
    <3> QED
      BY <2>2, <2>6, <3>1, <3>4, <3>5, Unaffected DEF OnlyClerk
  <2> QED
    BY <2>1, <2>3, <2>4, <2>5, <2>6, StepsOnStatus
<1> QED
  BY <1>1, <1>2, TypeInvariant, PTL DEF Spec

\* For any number of clerks, packages and shipments: the status of a shipment is
\* what its packages say as soon as nobody is at work on it.
THEOREM StatusIsTrue == Spec => []StatusFollowsThePackages
<1>1. TypeInv /\ StatusInv => StatusFollowsThePackages
  <2> SUFFICES ASSUME TypeInv, StatusInv, NEW s \in Shipment, s \notin crossed, mishaps = 0,
                      ~Computing(s, TRUE), ~Computing(s, FALSE)
               PROVE  status[s] = Verdict(s)
    BY DEF StatusFollowsThePackages
  <2> QED
    BY BusyIsComputing DEF StatusInv, Settled, Fixing
<1> QED
  BY <1>1, TypeInvariant, StatusInvariant, PTL

(***************************************************************************)
(* The steps on a batch, on a clerk that takes a shipment out, and on a    *)
(* user.                                                                   *)
(***************************************************************************)
Ends(u, b) == (Finish(u) \/ Cancel(u)) /\ user[u].batch = b

LEMMA StepsOnBatch ==
  ASSUME TypeInv, [Next]_vars, NEW b \in Batch
  PROVE  \/ rows'[b] = rows[b] /\ batch'[b] = batch[b] /\ total'[b] = total[b]
         \/ \E u \in User, chosen \in SUBSET Shipment : Create(u, b, chosen)
         \/ \E u \in User, s \in Shipment : Tick(u, b, s)
         \/ \E c \in Clerk : Commit(c) /\ b \in clerk[c].found
         \/ \E u \in User : Ends(u, b)
<1> DEFINE Still == rows'[b] = rows[b] /\ batch'[b] = batch[b] /\ total'[b] = total[b]
<1>1. ASSUME NEW c \in Clerk, NEW p \in Package, Ship(c, p) \/ Void(c, p) PROVE Still
  BY <1>1 DEF Ship, Void, batchVars
<1>2. ASSUME NEW c \in Clerk,
             Load(c) \/ Judge(c) \/ Write(c) \/ Find(c) \/ Remove(c) \/ Overrun(c) \/ Stop(c)
      PROVE  Still
  BY <1>2 DEF Load, Judge, Write, Find, Remove, Overrun, Stop, batchVars
<1>3. ASSUME NEW c \in Clerk, Commit(c) PROVE b \in clerk[c].found \/ Still
  BY <1>3 DEF Commit, TypeInv, TypeOK
<1>4. ASSUME NEW u \in User, NEW a \in Batch, NEW chosen \in SUBSET Shipment,
             Create(u, a, chosen)
      PROVE  a = b \/ Still
  BY <1>4 DEF Create, TypeInv, TypeOK
<1>5. ASSUME NEW u \in User, NEW a \in Batch, NEW s \in Shipment, Tick(u, a, s)
      PROVE  a = b \/ Still
  BY <1>5 DEF Tick, TypeInv, TypeOK
<1>6. ASSUME NEW u \in User, Check(u) \/ \E a \in Batch, step \in {"finish", "cancel"} : Open(u, a, step)
      PROVE  Still
  BY <1>6 DEF Check, Open, batchVars
<1>7. ASSUME NEW u \in User, Finish(u) \/ Cancel(u) PROVE user[u].batch = b \/ Still
  BY <1>7 DEF Finish, Cancel, TypeInv, TypeOK
<1>8. UNCHANGED vars => Still
  BY DEF vars, batchVars
<1> QED
  BY <1>1, <1>2, <1>3, <1>4, <1>5, <1>6, <1>7, <1>8 DEF Next, Work, Ends

LEMMA StepsOnClerk ==
  ASSUME TypeInv, [Next]_vars, NEW c \in Clerk
  PROVE  \/ clerk'[c] = clerk[c]
         \/ /\ clerk[c].pc \in {"idle", "load", "judge"}
            /\ clerk'[c].pc \in {"load", "judge", "write"}
         \/ clerk'[c].pc = "idle" /\ (Find(c) \/ Commit(c) \/ Overrun(c) \/ Stop(c) \/ Write(c))
         \/ Write(c) \/ Find(c) \/ Remove(c)
<1> DEFINE Goal == \/ clerk'[c] = clerk[c]
                   \/ /\ clerk[c].pc \in {"idle", "load", "judge"}
                      /\ clerk'[c].pc \in {"load", "judge", "write"}
                   \/ clerk'[c].pc = "idle" /\ (Find(c) \/ Commit(c) \/ Overrun(c) \/ Stop(c) \/ Write(c))
                   \/ Write(c) \/ Find(c) \/ Remove(c)
<1>1. ASSUME NEW d \in Clerk, NEW p \in Package, Ship(d, p) \/ Void(d, p) PROVE Goal
  BY <1>1, Starts DEF OnlyClerk, Ship, Void, At
<1>2. ASSUME NEW d \in Clerk, Load(d) PROVE Goal
  BY <1>2, Loads DEF OnlyClerk, Load, At
<1>3. ASSUME NEW d \in Clerk, Judge(d) PROVE Goal
  BY <1>3, Judges DEF OnlyClerk, Judge, At
<1>4. ASSUME NEW d \in Clerk, Write(d) PROVE Goal
  BY <1>4, Writes DEF OnlyClerk
<1>5. ASSUME NEW d \in Clerk, Find(d) PROVE Goal
  BY <1>5, Finds DEF OnlyClerk
<1>6. ASSUME NEW d \in Clerk, Remove(d) PROVE Goal
  BY <1>6, Removes DEF OnlyClerk
<1>7. ASSUME NEW d \in Clerk, Commit(d) \/ Overrun(d) \/ Stop(d) PROVE Goal
  BY <1>7, ClerkRests DEF OnlyClerk, Commit, Overrun, Stop
<1>8. ASSUME NEW u \in User,
             \/ \E b \in Batch :
                  \/ \E chosen \in SUBSET Shipment : Create(u, b, chosen)
                  \/ \E step \in {"finish", "cancel"} : Open(u, b, step)
                  \/ \E s \in Shipment : Tick(u, b, s)
             \/ Check(u) \/ Finish(u) \/ Cancel(u)
      PROVE  clerk' = clerk
  BY <1>8 DEF Create, Open, Tick, Check, Finish, Cancel
<1>9. UNCHANGED vars => clerk' = clerk
  BY DEF vars
<1> QED
  BY <1>1, <1>2, <1>3, <1>4, <1>5, <1>6, <1>7, <1>8, <1>9 DEF Next, Work

LEMMA StepsOnUser ==
  ASSUME TypeInv, [Next]_vars, NEW u \in User
  PROVE  \/ user'[u] = user[u]
         \/ user'[u].pc = "check" /\ user[u].pc = "idle"
         \/ Check(u) \/ Finish(u) \/ Cancel(u)
         \/ \E b \in Batch, step \in {"finish", "cancel"} : Open(u, b, step)
<1> DEFINE Goal == \/ user'[u] = user[u]
                   \/ user'[u].pc = "check" /\ user[u].pc = "idle"
                   \/ Check(u) \/ Finish(u) \/ Cancel(u)
                   \/ \E b \in Batch, step \in {"finish", "cancel"} : Open(u, b, step)
<1>1. ASSUME NEW c \in Clerk,
             (\E p \in Package : Ship(c, p) \/ Void(c, p)) \/ Work(c) \/ Stop(c)
      PROVE  user' = user
  BY <1>1 DEF Work, Ship, Void, Load, Judge, Write, Find, Remove, Commit, Overrun, Stop
<1>2. ASSUME NEW v \in User, NEW b \in Batch, NEW chosen \in SUBSET Shipment, Create(v, b, chosen)
      PROVE  user' = user
  BY <1>2 DEF Create
<1>3. ASSUME NEW v \in User, NEW b \in Batch, NEW step \in {"finish", "cancel"}, Open(v, b, step)
      PROVE  Goal
  BY <1>3, Opens DEF OnlyUser
<1>4. ASSUME NEW v \in User, NEW b \in Batch, NEW s \in Shipment, Tick(v, b, s) PROVE Goal
  BY <1>4, Ticks DEF OnlyUser, Tick, UserAt
<1>5. ASSUME NEW v \in User, Check(v) PROVE Goal
  BY <1>5, Checks DEF OnlyUser
<1>6. ASSUME NEW v \in User, Finish(v) \/ Cancel(v) PROVE Goal
  BY <1>6, UserRests DEF OnlyUser, Finish, Cancel
<1>7. UNCHANGED vars => user' = user
  BY DEF vars
<1> QED
  BY <1>1, <1>2, <1>3, <1>4, <1>5, <1>6, <1>7 DEF Next

\* What they do to a batch.
LEMMA BatchCreated ==
  ASSUME TypeInv, NEW u \in User, NEW b \in Batch, NEW chosen \in SUBSET Shipment,
         Create(u, b, chosen)
  PROVE  /\ batch[b] = "unused" /\ batch'[b] = "in_progress"
         /\ \A s \in Shipment : rows'[b][s] \in {"todo", "none"}
         /\ \A s \in Shipment : rows'[b][s] = "todo" => picking[s] = "pending" /\ status[s] = "open"
         /\ \A s \in Shipment : picking'[s] = IF rows'[b][s] = "todo" THEN "batched" ELSE picking[s]
         /\ \E s \in Shipment : rows'[b][s] = "todo"
         /\ status' = status
<1> DEFINE eligible == {s \in chosen : Eligible(s)}
<1>1. /\ batch[b] = "unused" /\ batch'[b] = "in_progress" /\ status' = status
      /\ \A s \in Shipment : rows'[b][s] = IF s \in eligible THEN "todo" ELSE "none"
      /\ eligible # {} /\ eligible \subseteq Shipment
      /\ \A s \in Shipment : picking'[s] = IF s \in eligible THEN "batched" ELSE picking[s]
  BY DEF Create, TypeInv, TypeOK
<1>2. \A s \in eligible : picking[s] = "pending" /\ status[s] = "open"
  BY DEF Eligible
<1> HIDE DEF eligible
<1> QED
  BY <1>1, <1>2

LEMMA CreatedTotal ==
  ASSUME TypeInv, NEW u \in User, NEW b \in Batch, NEW chosen \in SUBSET Shipment,
         Create(u, b, chosen)
  PROVE  total'[b] = Cardinality(Listed(b)')
<1> DEFINE eligible == {s \in chosen : Eligible(s)}
<1>1. /\ total'[b] = Cardinality(eligible) /\ eligible \subseteq Shipment
      /\ \A s \in Shipment : rows'[b][s] = IF s \in eligible THEN "todo" ELSE "none"
  BY DEF Create, TypeInv, TypeOK
<1> HIDE DEF eligible
<1>2. Listed(b)' = eligible
  BY <1>1 DEF Listed
<1> QED
  BY <1>1, <1>2

LEMMA BatchTicked ==
  ASSUME TypeInv, NEW u \in User, NEW b \in Batch, NEW s \in Shipment, Tick(u, b, s)
  PROVE  /\ rows[b][s] = "todo" /\ rows'[b][s] = "picked"
         /\ \A x \in Shipment : x # s => rows'[b][x] = rows[b][x]
         /\ UNCHANGED <<batch, total, status, picking, clerk, overtaken>>
         /\ Free(b) \/ b \in torn'
         /\ torn \subseteq torn'
  BY DEF Tick, TypeInv, TypeOK, shipmentVars

LEMMA BatchEnds ==
  ASSUME TypeInv, NEW u \in User, NEW b \in Batch, Ends(u, b)
  PROVE  /\ Free(b)
         /\ \A s \in Shipment : rows'[b][s] # "none" <=> rows[b][s] # "none"
         /\ \A s \in Shipment : rows'[b][s] = "todo" => rows[b][s] = "todo"
         /\ batch'[b] \in {batch[b], "completed", "cancelled"}
         /\ Finish(u) /\ user[u].copy # "completed" => batch'[b] = "completed"
         /\ Cancel(u) => batch'[b] = "cancelled"
         /\ UNCHANGED <<total, status, clerk, torn>>
         /\ ~overtaken' => /\ ~overtaken /\ batch[b] = user[u].copy
                           /\ Listed(b) = user[u].ids
         /\ \A s \in Shipment :
              picking'[s] = IF s \notin user[u].ids THEN picking[s]
                            ELSE IF Finish(u) THEN "picked" ELSE "pending"
<1>1. CASE Finish(u)
  <2>1. \A s \in Shipment : rows'[b][s] = IF rows[b][s] = "todo" THEN "picked" ELSE rows[b][s]
    BY <1>1 DEF Finish, Ends, TypeInv, TypeOK
  <2>2. /\ Free(b) /\ UNCHANGED <<total, status, clerk, torn>>
        /\ batch'[b] \in {batch[b], "completed"}
        /\ user[u].copy # "completed" => batch'[b] = "completed"
        /\ \A s \in Shipment : picking'[s] = IF s \in user[u].ids THEN "picked" ELSE picking[s]
        /\ ~Cancel(u)
    BY <1>1 DEF Finish, Cancel, Ends, UserAt, TypeInv, TypeOK
  <2>3. ~overtaken' => ~overtaken /\ batch[b] = user[u].copy /\ Listed(b) = user[u].ids
    BY <1>1 DEF Finish, Ends, Overtake
  <2> QED
    BY <1>1, <2>1, <2>2, <2>3
<1>2. CASE Cancel(u)
  <2>1. /\ Free(b) /\ UNCHANGED <<total, rows, status, clerk, torn>>
        /\ batch'[b] = "cancelled"
        /\ \A s \in Shipment : picking'[s] = IF s \in user[u].ids THEN "pending" ELSE picking[s]
        /\ ~Finish(u)
    BY <1>2 DEF Finish, Cancel, Ends, UserAt, TypeInv, TypeOK
  <2>2. ~overtaken' => ~overtaken /\ batch[b] = user[u].copy /\ Listed(b) = user[u].ids
    BY <1>2 DEF Cancel, Ends, Overtake
  <2> QED
    BY <1>2, <2>1, <2>2
<1> QED
  BY <1>1, <1>2 DEF Ends

LEMMA BatchCommitted ==
  ASSUME TypeInv, NEW c \in Clerk, Commit(c)
  PROVE  LET s == clerk[c].shipment IN
         /\ s \in Shipment /\ clerk[c].found \subseteq Batch /\ clerk[c].found # {}
         /\ \A b \in clerk[c].found :
              /\ Holds(c, b)
              /\ total[b] > 0 /\ total'[b] = total[b] - 1
              /\ rows'[b][s] = "none"
              /\ \A x \in Shipment : x # s => rows'[b][x] = rows[b][x]
              /\ IF clerk[c].ending[b] = "goes_on" THEN batch'[b] = batch[b]
                 ELSE batch'[b] \in {"completed", "cancelled"}
              /\ ~overtaken' => batch[b] = "in_progress"
         /\ \A x \in Shipment : x # s => picking'[x] \in {picking[x], "picked"}
         /\ ~overtaken' => ~overtaken
         /\ UNCHANGED <<status, user, torn>>
         /\ OnlyClerk(c) /\ clerk'[c].pc = "idle"
<1> DEFINE s == clerk[c].shipment
           f == clerk[c].found
<1>1. s \in Shipment /\ f \subseteq Batch /\ f # {} /\ clerk[c].ending \in [Batch -> Endings]
  BY DEF Commit, At, TypeInv, TypeOK, ClerkSituated, Taking, Clerks
<1>2. \A b \in f : /\ Holds(c, b) /\ total[b] > 0 /\ total'[b] = total[b] - 1
  BY <1>1 DEF Commit, At, Holds, CanDecrement
<1>3. \A b \in f : /\ rows'[b][s] = "none"
                   /\ \A x \in Shipment : x # s => rows'[b][x] = rows[b][x]
  BY <1>1 DEF Commit, TypeInv, TypeOK
<1>4. \A b \in f : IF clerk[c].ending[b] = "goes_on" THEN batch'[b] = batch[b]
                   ELSE batch'[b] \in {"completed", "cancelled"}
  BY <1>1 DEF Commit, Endings, TypeInv, TypeOK
<1>5. \A x \in Shipment : x # s => picking'[x] \in {picking[x], "picked"}
  BY DEF Commit
<1>6. /\ ~overtaken' => ~overtaken /\ \A b \in f : batch[b] = "in_progress"
      /\ UNCHANGED <<status, user, torn>>
  BY DEF Commit
<1>7. OnlyClerk(c) /\ clerk'[c].pc = "idle"
  BY ClerkRests DEF Commit
<1> QED
  BY <1>1, <1>2, <1>3, <1>4, <1>5, <1>6, <1>7

(***************************************************************************)
(* Transactions on a batch. The one that takes a shipment out holds the    *)
(* batch from its reading to its commit: so what it found left to pick is  *)
(* still there, unless a row was ticked meanwhile.                         *)
(***************************************************************************)
CreatedBatches ==
  /\ \A c \in Clerk : clerk[c].pc \in Taking => \A b \in clerk[c].found : batch[b] # "unused"
  /\ \A b \in Batch : batch[b] = "unused" => total[b] = 0 /\ \A s \in Shipment : rows[b][s] = "none"
  /\ \A u \in User :
       user[u].pc = "finish" /\ user[u].copy = "completed" => Ended(user[u].batch)

OneHolder == \A b \in Batch, c, d \in Clerk : Holds(c, b) /\ Holds(d, b) => c = d

LeftToPick ==
  \A b \in Batch \ torn, c \in Clerk :
    Holds(c, b) /\ clerk[c].ending[b] = "goes_on" =>
      \E s \in Shipment : s # clerk[c].shipment /\ rows[b][s] = "todo"

HoldInv == CreatedBatches /\ OneHolder /\ LeftToPick

LEMMA CreatedStep ==
  ASSUME TypeInv, CreatedBatches, [Next]_vars
  PROVE  CreatedBatches'
<1>1. ASSUME NEW b \in Batch
      PROVE  /\ batch[b] # "unused" => batch'[b] # "unused"
             /\ Ended(b) => Ended(b)'
  <2>1. ASSUME NEW u \in User, Ends(u, b), Finish(u), user[u].copy = "completed"
        PROVE  Ended(b)
    BY <2>1 DEF CreatedBatches, Ends, Finish, UserAt
  <2>2. ASSUME NEW u \in User, NEW s \in Shipment, Tick(u, b, s) PROVE batch'[b] = batch[b]
    BY <2>2, BatchTicked
  <2>3. ASSUME NEW c \in Clerk, Commit(c), b \in clerk[c].found
        PROVE  batch'[b] \in {batch[b], "completed", "cancelled"}
    BY <2>3, BatchCommitted
  <2>4. ASSUME NEW u \in User, Ends(u, b)
        PROVE  batch'[b] \in {batch[b], "completed", "cancelled"}
    BY <2>4, BatchEnds
  <2>5. ASSUME NEW u \in User, NEW chosen \in SUBSET Shipment, Create(u, b, chosen)
        PROVE  batch[b] = "unused" /\ batch'[b] = "in_progress"
    BY <2>5, BatchCreated
  <2> QED
    BY <2>2, <2>3, <2>4, <2>5, StepsOnBatch DEF Ended
<1>2. ASSUME NEW c \in Clerk, clerk'[c].pc \in Taking, NEW b \in clerk'[c].found
      PROVE  batch'[b] # "unused"
  <2>0. clerk[c] \in Clerks
    BY DEF TypeInv, TypeOK
  <2>1. CASE clerk'[c] = clerk[c]
    BY <1>1, <1>2, <2>0, <2>1 DEF CreatedBatches, Clerks
  <2>2. CASE Write(c)
    BY <1>2, <2>2, Writes DEF Taking
  <2>3. CASE Find(c)
    BY <1>1, <1>2, <2>3, Finds DEF Taking, FoundBy
  <2>4. CASE Remove(c)
    <3>1. clerk[c].pc \in Taking /\ b \in clerk[c].found
      BY <1>2, <2>4, Removes DEF Remove, At, Taking
    <3> QED
      BY <1>1, <2>0, <3>1 DEF CreatedBatches, Clerks
  <2> QED
    BY <1>2, <2>1, <2>2, <2>3, <2>4, StepsOnClerk DEF Taking
<1>3. ASSUME NEW b \in Batch, batch'[b] = "unused"
      PROVE  total'[b] = 0 /\ \A s \in Shipment : rows'[b][s] = "none"
  <2>1. /\ batch[b] = "unused" /\ total[b] = 0 /\ \A s \in Shipment : rows[b][s] = "none"
    BY <1>1, <1>3 DEF CreatedBatches
  <2>2. ASSUME NEW u \in User, NEW chosen \in SUBSET Shipment, Create(u, b, chosen) PROVE FALSE
    BY <1>3, <2>2, BatchCreated
  <2>3. ASSUME NEW u \in User, NEW s \in Shipment, Tick(u, b, s) PROVE FALSE
    BY <2>1, <2>3, BatchTicked
  <2>4. ASSUME NEW c \in Clerk, Commit(c), b \in clerk[c].found PROVE FALSE
    BY <2>1, <2>4, BatchCommitted DEF TypeInv, TypeOK
  <2>5. ASSUME NEW u \in User, Ends(u, b)
        PROVE  total'[b] = 0 /\ \A s \in Shipment : rows'[b][s] = "none"
    BY <2>1, <2>5, BatchEnds
  <2> QED
    BY <2>1, <2>2, <2>3, <2>4, <2>5, StepsOnBatch
<1>4. ASSUME NEW u \in User, user'[u].pc = "finish", user'[u].copy = "completed"
      PROVE  batch'[user'[u].batch] \in {"completed", "cancelled"}
  <2>1. CASE user'[u] = user[u]
    <3>1. user[u].batch \in Batch
      BY <1>4, <2>1 DEF TypeInv, UserSituated
    <3> QED
      BY <1>1, <1>4, <2>1, <3>1 DEF CreatedBatches, Ended
  <2>2. CASE Check(u)
    BY <1>1, <1>4, <2>2, Checks DEF Ended
  <2>3. CASE Finish(u) \/ Cancel(u)
    BY <1>4, <2>3, UserRests DEF Finish, Cancel
  <2>4. ASSUME NEW b \in Batch, NEW step \in {"finish", "cancel"}, Open(u, b, step) PROVE FALSE
    BY <1>4, <2>4, Opens
  <2> QED
    BY <1>4, <2>1, <2>2, <2>3, <2>4, StepsOnUser
<1> QED
  BY <1>2, <1>3, <1>4 DEF CreatedBatches, Ended

\* How a clerk comes to hold a batch.
LEMMA HolderSteps ==
  ASSUME TypeInv, [Next]_vars, NEW c \in Clerk, NEW b \in Batch, Holds(c, b)'
  PROVE  \/ clerk'[c] = clerk[c] /\ Holds(c, b)
         \/ Remove(c) /\ b \in clerk[c].found
<1>1. clerk'[c].pc = "commit" /\ b \in clerk'[c].found
  BY DEF Holds
<1>2. CASE Write(c) \/ Find(c)
  BY <1>1, <1>2, Writes, Finds
<1>3. CASE Remove(c)
  BY <1>1, <1>3, Removes
<1> QED
  BY <1>1, <1>2, <1>3, StepsOnClerk DEF Holds

LEMMA OneHolderStep ==
  ASSUME TypeInv, OneHolder, [Next]_vars
  PROVE  OneHolder'
<1> SUFFICES ASSUME NEW b \in Batch, NEW c \in Clerk, NEW d \in Clerk,
                    Holds(c, b)', Holds(d, b)', c # d
             PROVE  FALSE
  BY DEF OneHolder
<1>1. ASSUME NEW x \in Clerk, NEW y \in Clerk, x # y, Holds(y, b)',
             Remove(x), b \in clerk[x].found
      PROVE  FALSE
  <2>1. clerk'[y] = clerk[y] /\ ~Holds(y, b)
    BY <1>1, Removes DEF Remove, Free, OnlyClerk
  <2> QED
    BY <1>1, <2>1 DEF Holds
<1> QED
  BY <1>1, HolderSteps DEF OneHolder

LEMMA LeftToPickStep ==
  ASSUME TypeInv, HoldInv, [Next]_vars
  PROVE  LeftToPick'
<1> SUFFICES ASSUME NEW b \in Batch, b \notin torn', NEW c \in Clerk,
                    Holds(c, b)', clerk'[c].ending[b] = "goes_on"
             PROVE  \E s \in Shipment : s # clerk'[c].shipment /\ rows'[b][s] = "todo"
  BY DEF LeftToPick
<1>1. CASE Remove(c) /\ b \in clerk[c].found
  <2>1. EndingWithout(b, clerk[c].shipment) = "goes_on"
    BY <1>1, Removes
  <2>2. \E s \in Shipment : s # clerk[c].shipment /\ rows[b][s] = "todo"
    BY <2>1 DEF EndingWithout, Todo
  <2>3. rows' = rows
    BY <1>1 DEF Remove, batchVars
  <2> QED
    BY <1>1, <2>2, <2>3, Removes DEF Same
<1>2. CASE clerk'[c] = clerk[c] /\ Holds(c, b)
  <2>1. clerk[c].pc \in Taking /\ b \in clerk[c].found
    BY <1>2 DEF Holds, Taking
  <2>2. batch[b] # "unused" /\ ~Free(b)
    BY <1>2, <2>1 DEF HoldInv, CreatedBatches, Free
  <2>3. ASSUME NEW u \in User, NEW chosen \in SUBSET Shipment, Create(u, b, chosen) PROVE FALSE
    BY <2>2, <2>3, BatchCreated
  <2>4. ASSUME NEW u \in User, NEW s \in Shipment, Tick(u, b, s) PROVE FALSE
    BY <2>2, <2>4, BatchTicked
  <2>5. ASSUME NEW u \in User, Ends(u, b) PROVE FALSE
    BY <2>2, <2>5, BatchEnds
  <2>6. ASSUME NEW d \in Clerk, Commit(d), b \in clerk[d].found PROVE FALSE
    <3>1. d = c /\ clerk'[d].pc = "idle"
      BY <1>2, <2>6, BatchCommitted DEF HoldInv, OneHolder
    <3> QED
      BY <1>2, <3>1 DEF Holds
  <2>7. rows'[b] = rows[b]
    BY <2>3, <2>4, <2>5, <2>6, StepsOnBatch
  <2>8. b \notin torn
    <3>1. torn \subseteq torn'
      BY DEF Next, Work, vars, Ship, Void, Load, Judge, Write, Find, Remove, Commit, Overrun,
             Stop, Create, Open, Tick, Check, Finish, Cancel, ghostVars
    <3> QED
      BY <3>1
  <2> QED
    BY <1>2, <2>7, <2>8 DEF HoldInv, LeftToPick
<1> QED
  BY <1>1, <1>2, HolderSteps

LEMMA HoldInvariant == Spec => []HoldInv
<1>1. Init => HoldInv
  BY NobodyAtWork
  DEF Init, HoldInv, CreatedBatches, OneHolder, LeftToPick, Holds, Taking, Ended
<1>2. TypeInv /\ HoldInv /\ [Next]_vars => HoldInv'
  BY CreatedStep, OneHolderStep, LeftToPickStep DEF HoldInv
<1> QED
  BY <1>1, <1>2, TypeInvariant, PTL DEF Spec

\* For any number of batches, shipments and people: the last pick, or the last
\* removal, ends the batch, or somebody is about to.
THEOREM BatchesEnd == Spec => []LastPickEndsTheBatch
<1>1. Init => LastPickEndsTheBatch
  BY DEF Init, LastPickEndsTheBatch
<1>2. TypeInv /\ HoldInv /\ LastPickEndsTheBatch /\ [Next]_vars => LastPickEndsTheBatch'
  <2> SUFFICES ASSUME TypeInv, HoldInv, LastPickEndsTheBatch, [Next]_vars, mishaps' = 0,
                      NEW b \in Batch, b \notin torn', batch'[b] = "in_progress",
                      \A s \in Shipment : rows'[b][s] # "todo"
               PROVE  \E u \in User : user'[u].batch = b
                                      /\ user'[u].pc \in {"check", "finish", "cancel"}
    BY DEF LastPickEndsTheBatch, Todo
  <2>1. mishaps = 0
    BY MishapsStay
  <2>2. b \notin torn
    <3>1. torn \subseteq torn'
      BY DEF Next, Work, vars, Ship, Void, Load, Judge, Write, Find, Remove, Commit, Overrun,
             Stop, Create, Open, Tick, Check, Finish, Cancel, ghostVars
    <3> QED
      BY <3>1
  <2>3. ASSUME NEW u \in User, Ends(u, b) PROVE FALSE
    <3>1. Finish(u) => user[u].copy = "completed" /\ user[u].pc = "finish"
      BY <2>3, BatchEnds DEF Finish, UserAt
    <3>2. ~Cancel(u)
      BY <2>3, BatchEnds
    <3>3. Ended(b)
      BY <2>3, <3>1, <3>2 DEF Ends, HoldInv, CreatedBatches
    <3>4. Ended(b)'
      BY <2>3, <3>3, BatchEnds DEF Ended
    <3> QED
      BY <3>4 DEF Ended
  <2>4. CASE rows'[b] = rows[b] /\ batch'[b] = batch[b]
    <3>1. PICK u \in User : user[u].batch = b /\ user[u].pc \in {"check", "finish", "cancel"}
      BY <2>1, <2>2, <2>4 DEF LastPickEndsTheBatch, Todo
    <3>2. ~Finish(u) /\ ~Cancel(u)
      BY <2>3, <3>1 DEF Ends
    <3>3. CASE user'[u] = user[u]
      BY <3>1, <3>3
    <3>4. CASE Check(u)
      BY <2>4, <3>1, <3>4, Checks DEF Todo
    <3>5. ASSUME NEW a \in Batch, NEW step \in {"finish", "cancel"}, Open(u, a, step) PROVE FALSE
      BY <3>1, <3>5 DEF Open, UserAt
    <3>6. user[u].pc # "idle"
      BY <3>1
    <3>7. user'[u] = user[u] \/ Check(u)
      BY <3>2, <3>5, <3>6, StepsOnUser
    <3> QED
      BY <3>3, <3>4, <3>7
  <2>5. ASSUME NEW u \in User, NEW chosen \in SUBSET Shipment, Create(u, b, chosen) PROVE FALSE
    <3>1. \E s \in Shipment : rows'[b][s] = "todo"
      BY <2>5, BatchCreated
    <3> QED
      BY <3>1
  <2>6. ASSUME NEW u \in User, NEW s \in Shipment, Tick(u, b, s)
        PROVE  user'[u].batch = b /\ user'[u].pc = "check"
    BY <2>6, Ticks
  <2>7. ASSUME NEW c \in Clerk, Commit(c), b \in clerk[c].found PROVE FALSE
    <3>1. clerk[c].ending[b] = "goes_on" /\ Holds(c, b)
      BY <2>7, BatchCommitted
    <3>2. PICK s \in Shipment : s # clerk[c].shipment /\ rows[b][s] = "todo"
      BY <2>2, <3>1 DEF HoldInv, LeftToPick
    <3>3. rows'[b][s] = "todo"
      BY <2>7, <3>2, BatchCommitted
    <3> QED
      BY <3>3
  <2> QED
    BY <2>3, <2>4, <2>5, <2>6, <2>7, StepsOnBatch
<1> QED
  BY <1>1, <1>2, TypeInvariant, HoldInvariant, PTL DEF Spec

(***************************************************************************)
(* The lists. A counter never exceeds the rows of its batch, and only gets *)
(* further from them: so if all are right now, they have always been, and  *)
(* no clerk has taken out a row that another one had already taken out.    *)
(***************************************************************************)
On(s, b) == batch[b] = "in_progress" /\ rows[b][s] # "none"

InBounds == \A b \in Batch : total[b] <= Cardinality(Listed(b))

Quiet == ~overtaken /\ \A b \in Batch : Counted(b)

LEMMA CommitCounts ==
  ASSUME TypeInv, NEW c \in Clerk, Commit(c), NEW b \in clerk[c].found
  PROVE  LET n == Cardinality(Listed(b))
             m == Cardinality(Listed(b)')
         IN  /\ n \in Nat /\ m \in Nat
             /\ m = IF clerk[c].shipment \in Listed(b) THEN n - 1 ELSE n
<1> DEFINE s == clerk[c].shipment
<1>1. /\ s \in Shipment /\ rows'[b][s] = "none"
      /\ \A x \in Shipment : x # s => rows'[b][x] = rows[b][x]
  BY BatchCommitted
<1>2. Listed(b)' = Listed(b) \ {s}
  BY <1>1 DEF Listed
<1>3. Listed(b) \in SUBSET Shipment /\ Listed(b)' \in SUBSET Shipment
  BY DEF Listed
<1>4. IsFiniteSet(Listed(b)) /\ Cardinality(Listed(b)) \in Nat /\ Cardinality(Listed(b)') \in Nat
  BY <1>3, ListedFinite
<1>5. CASE s \in Listed(b)
  BY <1>2, <1>4, <1>5, FS_RemoveElement
<1>6. CASE s \notin Listed(b)
  <2>1. Listed(b)' = Listed(b)
    BY <1>2, <1>6
  <2> QED
    BY <1>4, <1>6, <2>1
<1> QED
  BY <1>4, <1>5, <1>6

\* The other steps that keep a batch's rows in their places.
LEMMA RowsStay ==
  ASSUME TypeInv, NEW b \in Batch,
         \/ rows'[b] = rows[b] /\ batch'[b] = batch[b] /\ total'[b] = total[b]
         \/ \E u \in User, s \in Shipment : Tick(u, b, s)
         \/ \E u \in User : Ends(u, b)
  PROVE  Listed(b)' = Listed(b) /\ total'[b] = total[b]
<1>1. CASE rows'[b] = rows[b] /\ total'[b] = total[b]
  BY <1>1 DEF Listed
<1>2. ASSUME NEW u \in User, NEW s \in Shipment, Tick(u, b, s)
      PROVE  Listed(b)' = Listed(b) /\ total'[b] = total[b]
  <2>1. \A x \in Shipment : rows'[b][x] # "none" <=> rows[b][x] # "none"
    BY <1>2, BatchTicked
  <2> QED
    BY <1>2, <2>1, BatchTicked DEF Listed
<1>3. ASSUME NEW u \in User, Ends(u, b)
      PROVE  Listed(b)' = Listed(b) /\ total'[b] = total[b]
  <2>1. \A x \in Shipment : rows'[b][x] # "none" <=> rows[b][x] # "none"
    BY <1>3, BatchEnds
  <2> QED
    BY <1>3, <2>1, BatchEnds DEF Listed
<1> QED
  BY <1>1, <1>2, <1>3

LEMMA InBoundsInvariant == Spec => []InBounds
<1>1. Init => InBounds
  <2> SUFFICES ASSUME Init, NEW b \in Batch PROVE total[b] <= Cardinality(Listed(b))
    BY DEF InBounds
  <2>1. Listed(b) \in SUBSET Shipment
    BY DEF Listed
  <2>2. Cardinality(Listed(b)) \in Nat /\ total[b] = 0
    BY <2>1, ListedFinite DEF Init
  <2> QED
    BY <2>2
<1>2. TypeInv /\ InBounds /\ [Next]_vars => InBounds'
  <2> SUFFICES ASSUME TypeInv, InBounds, [Next]_vars, NEW b \in Batch
               PROVE  total'[b] <= Cardinality(Listed(b)')
    BY DEF InBounds
  <2>1. total[b] \in Nat /\ total[b] <= Cardinality(Listed(b))
    BY DEF TypeInv, TypeOK, InBounds
  <2>2. ASSUME NEW u \in User, NEW chosen \in SUBSET Shipment, Create(u, b, chosen)
        PROVE  total'[b] <= Cardinality(Listed(b)')
    <3>1. total'[b] = Cardinality(Listed(b)')
      BY <2>2, CreatedTotal
    <3>2. Listed(b)' \in SUBSET Shipment
      BY DEF Listed
    <3> QED
      BY <3>1, <3>2, ListedFinite
  <2>3. ASSUME NEW c \in Clerk, Commit(c), b \in clerk[c].found
        PROVE  total'[b] <= Cardinality(Listed(b)')
    <3>1. total'[b] = total[b] - 1
      BY <2>3, BatchCommitted
    <3> QED
      BY <2>1, <2>3, <3>1, CommitCounts
  <2> QED
    BY <2>1, <2>2, <2>3, StepsOnBatch, RowsStay
<1> QED
  BY <1>1, <1>2, TypeInvariant, PTL DEF Spec

LEMMA OvertakenStays ==
  ASSUME [Next]_vars, ~overtaken'
  PROVE  ~overtaken
BY DEF Next, Work, vars, Ship, Void, Load, Judge, Write, Find, Remove, Commit, Overrun,
       Stop, Create, Open, Tick, Check, Finish, Cancel, Overtake, ghostVars

LEMMA QuietBefore ==
  ASSUME TypeInv, HoldInv, InBounds, [Next]_vars, Quiet'
  PROVE  /\ Quiet
         /\ \A c \in Clerk : Commit(c) =>
              \A b \in clerk[c].found :
                batch[b] = "in_progress" /\ clerk[c].shipment \in Listed(b)
<1>1. ASSUME NEW c \in Clerk, Commit(c), NEW b \in clerk[c].found
      PROVE  clerk[c].shipment \in Listed(b) /\ Counted(b)
  <2>1. b \in Batch /\ total'[b] = total[b] - 1
    BY <1>1, BatchCommitted
  <2>2. total'[b] = Cardinality(Listed(b)')
    BY <2>1 DEF Quiet, Counted
  <2>3. total[b] \in Nat /\ total[b] <= Cardinality(Listed(b))
    BY <2>1 DEF TypeInv, TypeOK, InBounds
  <2>4. /\ Cardinality(Listed(b)) \in Nat /\ Cardinality(Listed(b)') \in Nat
        /\ Cardinality(Listed(b)') = IF clerk[c].shipment \in Listed(b)
                                       THEN Cardinality(Listed(b)) - 1
                                       ELSE Cardinality(Listed(b))
    BY <1>1, CommitCounts
  <2>5. total[b] - 1 = IF clerk[c].shipment \in Listed(b)
                         THEN Cardinality(Listed(b)) - 1
                         ELSE Cardinality(Listed(b))
    BY <2>1, <2>2, <2>4
  <2> QED
    BY <2>3, <2>4, <2>5 DEF Counted
<1>2. ASSUME NEW b \in Batch PROVE Counted(b)
  <2>1. Counted(b)'
    BY DEF Quiet
  <2>2. ASSUME NEW u \in User, NEW chosen \in SUBSET Shipment, Create(u, b, chosen)
        PROVE  Counted(b)
    <3>0. batch[b] = "unused"
      BY <2>2, BatchCreated
    <3>1. total[b] = 0 /\ \A s \in Shipment : rows[b][s] = "none"
      BY <3>0 DEF HoldInv, CreatedBatches
    <3>2. Listed(b) = {}
      BY <3>1 DEF Listed
    <3> QED
      BY <3>1, <3>2, FS_EmptySet DEF Counted
  <2>3. Listed(b)' = Listed(b) /\ total'[b] = total[b] => Counted(b)
    BY <2>1 DEF Counted
  <2> QED
    BY <1>1, <2>2, <2>3, StepsOnBatch, RowsStay
<1>3. ~overtaken
  BY OvertakenStays DEF Quiet
<1>4. ASSUME NEW c \in Clerk, Commit(c), NEW b \in clerk[c].found
      PROVE  batch[b] = "in_progress"
  BY <1>4, BatchCommitted DEF Quiet
<1> QED
  BY <1>1, <1>2, <1>3, <1>4 DEF Quiet

LEMMA StepsOnPicking ==
  ASSUME [Next]_vars
  PROVE  \/ picking' = picking
         \/ \E u \in User, b \in Batch, chosen \in SUBSET Shipment : Create(u, b, chosen)
         \/ \E c \in Clerk : Commit(c)
         \/ \E u \in User : Finish(u) \/ Cancel(u)
BY DEF Next, Work, vars, shipmentVars, Ship, Void, Load, Judge, Write, Find, Remove, Overrun,
       Stop, Open, Tick, Check

LEMMA OnlyBatchCreated ==
  ASSUME TypeInv, NEW u \in User, NEW b \in Batch, NEW chosen \in SUBSET Shipment,
         Create(u, b, chosen), NEW a \in Batch, a # b
  PROVE  rows'[a] = rows[a] /\ batch'[a] = batch[a]
  BY DEF Create, TypeInv, TypeOK

\* A shipment comes onto a list in progress only when the batch is created.
LEMMA OnBefore ==
  ASSUME TypeInv, [Next]_vars, NEW b \in Batch, NEW s \in Shipment,
         batch'[b] = "in_progress", rows'[b][s] # "none",
         ~\E u \in User, chosen \in SUBSET Shipment : Create(u, b, chosen)
  PROVE  On(s, b) /\ ~\E u \in User : Cancel(u) /\ user[u].batch = b
<1>1. CASE rows'[b] = rows[b] /\ batch'[b] = batch[b]
  <2>1. ASSUME NEW u \in User, Cancel(u), user[u].batch = b PROVE FALSE
    <3>1. batch'[b] = "cancelled"
      BY <2>1, BatchEnds DEF Ends
    <3> QED
      BY <3>1
  <2> QED
    BY <1>1, <2>1 DEF On
<1>2. ASSUME NEW u \in User, NEW x \in Shipment, Tick(u, b, x)
      PROVE  On(s, b) /\ ~\E v \in User : Cancel(v) /\ user[v].batch = b
  <2>1. rows[b][s] # "none" /\ batch[b] = batch'[b]
    BY <1>2, BatchTicked
  <2>2. \A v \in User : ~Cancel(v)
    BY <1>2 DEF Tick, Cancel, UserAt, UserBecomes, TypeInv, TypeOK, NoUser, batchVars
  <2> QED
    BY <2>1, <2>2 DEF On
<1>3. ASSUME NEW c \in Clerk, Commit(c), b \in clerk[c].found
      PROVE  On(s, b) /\ ~\E v \in User : Cancel(v) /\ user[v].batch = b
  <2>1. rows[b][s] # "none" /\ batch[b] = batch'[b]
    BY <1>3, BatchCommitted
  <2>2. \A v \in User : Cancel(v) /\ user[v].batch = b => FALSE
    <3> SUFFICES ASSUME NEW v \in User, Cancel(v), user[v].batch = b PROVE FALSE
      OBVIOUS
    <3>1. batch'[b] = "cancelled"
      BY BatchEnds DEF Ends
    <3> QED
      BY <3>1
  <2> QED
    BY <2>1, <2>2 DEF On
<1>4. ASSUME NEW u \in User, Ends(u, b)
      PROVE  On(s, b) /\ ~\E v \in User : Cancel(v) /\ user[v].batch = b
  <2>1. rows[b][s] # "none" /\ batch[b] = batch'[b]
    BY <1>4, BatchEnds
  <2>2. \A v \in User : Cancel(v) /\ user[v].batch = b => FALSE
    <3> SUFFICES ASSUME NEW v \in User, Cancel(v), user[v].batch = b PROVE FALSE
      OBVIOUS
    <3>1. batch'[b] = "cancelled"
      BY BatchEnds DEF Ends
    <3> QED
      BY <3>1
  <2> QED
    BY <2>1, <2>2 DEF On
<1> QED
  BY <1>1, <1>2, <1>3, <1>4, StepsOnBatch

OneList ==
  Quiet => \A s \in Shipment, a \in Batch : On(s, a) =>
             /\ picking[s] # "pending"
             /\ \A b \in Batch : On(s, b) => a = b

LEMMA OneListCreated ==
  ASSUME TypeInv, OneList, Quiet, [Next]_vars,
         NEW u \in User, NEW b \in Batch, NEW chosen \in SUBSET Shipment, Create(u, b, chosen),
         NEW s \in Shipment, NEW a \in Batch, On(s, a)'
  PROVE  /\ picking'[s] # "pending"
         /\ \A d \in Batch : On(s, d)' => a = d
<1>1. \A d \in Batch : d # b /\ On(s, d)' => On(s, d)
  BY OnlyBatchCreated DEF On
<1>2. On(s, b)' => picking[s] = "pending" /\ picking'[s] = "batched"
  <2>1. \A x \in Shipment : rows'[b][x] \in {"todo", "none"}
    BY BatchCreated
  <2>2. \A x \in Shipment : rows'[b][x] = "todo" => picking[x] = "pending" /\ status[x] = "open"
    BY BatchCreated
  <2>3. \A x \in Shipment : picking'[x] = IF rows'[b][x] = "todo" THEN "batched" ELSE picking[x]
    BY BatchCreated
  <2> QED
    BY <2>1, <2>2, <2>3 DEF On
<1>3. picking'[s] \in {"batched", picking[s]}
  BY BatchCreated
<1> QED
  BY <1>1, <1>2, <1>3 DEF OneList

LEMMA OneListInvariant == Spec => []OneList
<1>1. Init => OneList
  BY DEF Init, OneList, On
<1>2. TypeInv /\ HoldInv /\ InBounds /\ OneList /\ [Next]_vars => OneList'
  <2> SUFFICES ASSUME TypeInv, HoldInv, InBounds, OneList, [Next]_vars, Quiet',
                      NEW s \in Shipment, NEW a \in Batch, On(s, a)'
               PROVE  /\ picking'[s] # "pending"
                      /\ \A b \in Batch : On(s, b)' => a = b
    BY DEF OneList
  <2>1. Quiet
    BY QuietBefore
  <2>2. ASSUME NEW u \in User, NEW b \in Batch, NEW chosen \in SUBSET Shipment,
               Create(u, b, chosen)
        PROVE  /\ picking'[s] # "pending"
               /\ \A d \in Batch : On(s, d)' => a = d
    BY <2>1, <2>2, OneListCreated
  <2>3. CASE ~\E u \in User, b \in Batch, chosen \in SUBSET Shipment : Create(u, b, chosen)
    <3>1. \A b \in Batch : On(s, b)' =>
            On(s, b) /\ ~\E u \in User : Cancel(u) /\ user[u].batch = b
      BY <2>3, OnBefore DEF On
    <3>2. On(s, a) /\ picking[s] # "pending" /\ \A b \in Batch : On(s, b) => a = b
      BY <2>1, <3>1 DEF OneList
    <3>3. ASSUME NEW c \in Clerk, Commit(c) PROVE picking'[s] # "pending"
      <4>1. CASE clerk[c].shipment # s
        <5>1. picking'[s] \in {picking[s], "picked"}
          BY <3>3, <4>1, BatchCommitted
        <5> QED
          BY <3>2, <5>1
      <4>2. CASE clerk[c].shipment = s
        <5>1. PICK b \in clerk[c].found : b \in Batch
          BY <3>3, BatchCommitted
        <5>2. On(s, b)
          BY <3>3, <4>2, <5>1, QuietBefore DEF On, Listed
        <5>3. rows'[a][s] = "none"
          BY <3>2, <3>3, <4>2, <5>1, <5>2, BatchCommitted
        <5> QED
          BY <5>3 DEF On
      <4> QED
        BY <4>1, <4>2
    <3>4. ASSUME NEW u \in User, Finish(u) \/ Cancel(u) PROVE picking'[s] # "pending"
      <4> DEFINE b == user[u].batch
      <4>1. b \in Batch /\ Ends(u, b)
        BY <3>4 DEF Ends, Finish, Cancel, UserAt, TypeInv, UserSituated
      <4>2. picking'[s] = IF s \notin user[u].ids THEN picking[s]
                          ELSE IF Finish(u) THEN "picked" ELSE "pending"
        BY <4>1, BatchEnds
      <4>3. CASE s \in user[u].ids /\ Cancel(u)
        <5>1. batch[b] = user[u].copy /\ Listed(b) = user[u].ids
          BY <4>1, BatchEnds DEF Quiet
        <5>2. user[u].copy = "in_progress"
          BY <4>3 DEF Cancel, UserAt, TypeInv, UserSituated
        <5>3. On(s, b)
          BY <4>3, <5>1, <5>2 DEF On, Listed
        <5> QED
          BY <3>1, <3>2, <4>1, <4>3, <5>3
      <4>4. CASE s \in user[u].ids /\ Finish(u)
        BY <4>2, <4>4
      <4>5. CASE s \notin user[u].ids
        BY <3>2, <4>2, <4>5
      <4> QED
        BY <3>4, <4>3, <4>4, <4>5
    <3>5. picking'[s] # "pending"
      BY <2>3, <3>2, <3>3, <3>4, StepsOnPicking
    <3> QED
      BY <3>1, <3>2, <3>5
  <2> QED
    BY <2>2, <2>3
<1> QED
  BY <1>1, <1>2, TypeInvariant, HoldInvariant, InBoundsInvariant, PTL DEF Spec

\* For any number of batches and shipments: a shipment is on one list in progress
\* at most, and is not pending while it is, however many people make lists.
THEOREM OnOneList == Spec => []OneListPerShipment
<1>1. OneList => OneListPerShipment
  BY DEF OneList, OneListPerShipment, Quiet, On
<1> QED
  BY <1>1, OneListInvariant, PTL

(***************************************************************************)
(* So a clerk finds its shipment on one list. If that list's counter were  *)
(* at zero the shipment could not be on it, and the clerk is not stopped   *)
(* before the row is gone.                                                 *)
(***************************************************************************)
OneFound ==
  Quiet => \A c \in Clerk : clerk[c].pc \in Taking =>
             \A a \in clerk[c].found, b \in clerk[c].found : a = b

LEMMA OneFoundInvariant == Spec => []OneFound
<1>1. Init => OneFound
  BY NobodyAtWork DEF Init, OneFound, Taking
<1>2. TypeInv /\ HoldInv /\ InBounds /\ OneList /\ OneFound /\ [Next]_vars => OneFound'
  <2> SUFFICES ASSUME TypeInv, HoldInv, InBounds, OneList, OneFound, [Next]_vars, Quiet',
                      NEW c \in Clerk, clerk'[c].pc \in Taking
               PROVE  \A a \in clerk'[c].found, b \in clerk'[c].found : a = b
    BY DEF OneFound
  <2>1. Quiet
    BY QuietBefore
  <2>2. CASE clerk'[c] = clerk[c]
    BY <2>1, <2>2 DEF OneFound
  <2>3. CASE Write(c)
    BY <2>3, Writes DEF Taking
  <2>4. CASE Find(c)
    <3>1. clerk'[c].found = FoundBy(c) /\ clerk[c].shipment \in Shipment
      BY <2>4, Finds DEF Taking, Find, At, TypeInv, ClerkSituated
    <3>2. \A b \in FoundBy(c) : b \in Batch /\ On(clerk[c].shipment, b)
      BY DEF FoundBy, On
    <3> QED
      BY <2>1, <3>1, <3>2 DEF OneList
  <2>5. CASE Remove(c)
    BY <2>1, <2>5, Removes DEF OneFound, Remove, At, Taking
  <2> QED
    BY <2>2, <2>3, <2>4, <2>5, StepsOnClerk DEF Taking
<1> QED
  BY <1>1, <1>2, TypeInvariant, HoldInvariant, InBoundsInvariant, OneListInvariant, PTL DEF Spec

\* Clerk c is to take shipment s off the list of batch b.
TakesOff(c, s, b) ==
  /\ clerk[c].shipment = s
  /\ clerk[c].pc = "find" \/ (clerk[c].pc \in Taking /\ b \in clerk[c].found)

OnItsWay ==
  mishaps = 0 /\ Quiet =>
    \A s \in Shipment, b \in Batch :
      status[s] = "shipped" /\ batch[b] = "in_progress" /\ rows[b][s] = "todo" =>
        \E c \in Clerk : TakesOff(c, s, b)

\* A clerk on its way stays so until the row is gone.
LEMMA StaysOnItsWay ==
  ASSUME TypeInv, OneFound, Quiet, [Next]_vars,
         NEW s \in Shipment, NEW b \in Batch, On(s, b), rows[b][s] = "todo", rows'[b][s] = "todo",
         NEW c \in Clerk, TakesOff(c, s, b), ~Stop(c)
  PROVE  TakesOff(c, s, b)'
<1>1. clerk[c].pc \in {"find", "remove", "commit"} /\ clerk[c].shipment = s
  BY DEF TakesOff, Taking
<1>2. CASE clerk'[c] = clerk[c]
  BY <1>2 DEF TakesOff
<1>3. CASE Find(c)
  <2>1. b \in FoundBy(c)
    BY <1>1 DEF FoundBy, On
  <2> QED
    BY <1>1, <1>3, <2>1, Finds DEF TakesOff, Same, Taking
<1>4. CASE Remove(c)
  <2>1. b \in clerk[c].found
    BY <1>4 DEF Remove, At, TakesOff
  <2> QED
    BY <1>1, <1>4, <2>1, Removes DEF TakesOff, Same, Taking
<1>5. CASE Commit(c)
  <2>1. b \in clerk[c].found
    BY <1>5 DEF Commit, At, TakesOff
  <2>2. rows'[b][s] = "none"
    BY <1>1, <1>5, <2>1, BatchCommitted
  <2> QED
    BY <2>2
<1>6. CASE Overrun(c)
  <2>1. clerk[c].pc \in Taking /\ b \in clerk[c].found
    BY <1>6 DEF Overrun, At, TakesOff, Taking
  <2>2. PICK a \in clerk[c].found : ~CanDecrement(a)
    BY <1>6 DEF Overrun
  <2>3. a = b
    BY <2>1, <2>2 DEF OneFound
  <2>4. total[b] = Cardinality(Listed(b)) /\ total[b] \in Nat /\ ~(total[b] > 0)
    BY <2>2, <2>3 DEF Quiet, Counted, CanDecrement, TypeInv, TypeOK
  <2>5. Listed(b) \in SUBSET Shipment /\ s \in Listed(b)
    BY DEF Listed
  <2>6. Cardinality(Listed(b)) = 0
    BY <2>4
  <2>7. Listed(b) = {}
    BY <2>5, <2>6, ListedFinite, FS_EmptySet
  <2> QED
    BY <2>5, <2>7
<1>7. ~Write(c)
  BY <1>1 DEF Write, At
<1> QED
  BY <1>1, <1>2, <1>3, <1>4, <1>5, <1>6, <1>7, StepsOnClerk

LEMMA StatusWriters ==
  ASSUME [Next]_vars
  PROVE  status' = status \/ \E c \in Clerk : Write(c)
BY DEF Next, Work, vars, shipmentVars, Ship, Void, Load, Judge, Find, Remove, Commit, Overrun,
       Stop, Create, Open, Tick, Check, Finish, Cancel

LEMMA OnItsWayInvariant == Spec => []OnItsWay
<1>1. Init => OnItsWay
  BY DEF Init, OnItsWay
<1>2. /\ TypeInv /\ HoldInv /\ InBounds /\ OneFound /\ OnItsWay
      /\ [Next]_vars
      => OnItsWay'
  <2> SUFFICES ASSUME TypeInv, HoldInv, InBounds, OneFound, OnItsWay, [Next]_vars,
                      mishaps' = 0, Quiet', NEW s \in Shipment, NEW b \in Batch,
                      status'[s] = "shipped", batch'[b] = "in_progress", rows'[b][s] = "todo"
               PROVE  \E c \in Clerk : TakesOff(c, s, b)'
    BY DEF OnItsWay
  <2>1. Quiet /\ mishaps = 0 /\ \A c \in Clerk : ~Stop(c)
    BY QuietBefore, MishapsStay
  <2>2. ASSUME NEW u \in User, NEW chosen \in SUBSET Shipment, Create(u, b, chosen)
        PROVE  status[s] # "shipped" /\ status' = status
    <3>1. status' = status /\ \A x \in Shipment : rows'[b][x] = "todo" => status[x] = "open"
      BY <2>2, BatchCreated
    <3> QED
      BY <3>1
  <2>3. ASSUME NEW c \in Clerk, Write(c), status'[s] # status[s]
        PROVE  TakesOff(c, s, b)'
    <3>1. clerk[c].shipment = s /\ clerk[c].verdict = "shipped"
      BY <2>3 DEF Write, TypeInv, TypeOK
    <3> QED
      BY <2>3, <3>1, Writes DEF TakesOff
  <2>4. status' = status \/ \E c \in Clerk : Write(c)
    BY StatusWriters
  <2>5. CASE status'[s] = status[s]
    <3>1. ~\E u \in User, chosen \in SUBSET Shipment : Create(u, b, chosen)
      BY <2>2, <2>5
    <3>2. On(s, b)
      BY <3>1, OnBefore
    <3>3. rows[b][s] = "todo"
      <4>1. ASSUME NEW u \in User, NEW x \in Shipment, Tick(u, b, x) PROVE rows[b][s] = "todo"
        BY <4>1, BatchTicked
      <4>2. ASSUME NEW c \in Clerk, Commit(c), b \in clerk[c].found PROVE rows[b][s] = "todo"
        BY <4>2, BatchCommitted
      <4>3. ASSUME NEW u \in User, Ends(u, b) PROVE rows[b][s] = "todo"
        BY <4>3, BatchEnds
      <4> QED
        BY <3>1, <4>1, <4>2, <4>3, StepsOnBatch
    <3>4. PICK c \in Clerk : TakesOff(c, s, b)
      BY <2>1, <2>5, <3>2, <3>3 DEF OnItsWay, On
    <3> QED
      BY <2>1, <3>2, <3>3, <3>4, StaysOnItsWay
  <2> QED
    BY <2>3, <2>4, <2>5
<1> QED
  BY <1>1, <1>2, TypeInvariant, HoldInvariant, InBoundsInvariant, OneFoundInvariant, PTL DEF Spec

\* For any number of clerks and batches: a shipped shipment on a list in progress
\* has a clerk on its way to take it off.
THEOREM ShippedIsTakenOff == Spec => []ShippedLeavesTheLists
<1>1. OnItsWay => ShippedLeavesTheLists
  BY DEF OnItsWay, ShippedLeavesTheLists, TakesOff, Quiet, Taking
<1> QED
  BY <1>1, OnItsWayInvariant, PTL
=============================================================================
