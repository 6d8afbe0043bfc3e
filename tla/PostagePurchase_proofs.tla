----------------------- MODULE PostagePurchase_proofs -----------------------
(***************************************************************************)
(* Proofs, for every value of the constants, of what the runs of           *)
(* MCPostagePurchase check on small instances.                             *)
(***************************************************************************)
EXTENDS PostagePurchase, TLAPS

(***************************************************************************)
(* The invariant every other proof stands on: types, and what a request    *)
(* knows about the offers it names. They are spent offers of its own       *)
(* package. TypeOK alone is not inductive: that a reference is only        *)
(* recorded on a spent offer follows from where the request got the offer. *)
(***************************************************************************)
Chasing == {"chase", "stampRecovered", "shipRecovered"}

Names(r) ==
  /\ todo[r] \subseteq consumed
  /\ recovering[r] \in consumed \cup {None}
  /\ pc[r] \in Chasing => \A o \in todo[r] : quotedFor[o] = asks[r].package
  /\ pc[r] \in {"stampRecovered", "shipRecovered"} =>
       recovering[r] # None /\ quotedFor[recovering[r]] = asks[r].package
  /\ pc[r] \in Spending /\ asks[r].offer # None =>
       asks[r].offer \in consumed /\ quotedFor[asks[r].offer] = asks[r].package

TypeInv == TypeOK /\ \A r \in Request : Names(r)

\* Recording a label keeps the types, whichever of the two ways led to it.
LEMMA RecordLabelTypes ==
  ASSUME TypeInv, NEW r \in Request, pc[r] \in Holding, NEW l \in Label,
         l \in Offer => l \in consumed,
         RecordLabel(r, l)
  PROVE  TypeInv'
<1> USE IdentitiesAssumption DEF TypeInv, TypeOK, Names, Chasing, offerVars, requestVars, boundVars,
      RecordLabel, RecordPurchase, Steps, Holding, Spending, GoTo, Reply, Answer, Forget, Label
<1>1. asks[r].package \in Package
  OBVIOUS
<1>2. label' \in [Package -> Label \cup {None}]
  BY <1>1
<1>3. mayDelete' \subseteq Unattended /\ pc' = [pc EXCEPT ![r] = "release"]
  OBVIOUS
<1>4. TypeOK'
  BY <1>2, <1>3
<1>5. \A q \in Request : Names(q)'
  BY <1>3
<1> QED
  BY <1>4, <1>5

LEMMA TypeInvariant == Spec => []TypeInv
<1>1. Init => TypeInv
  BY IdentitiesAssumption
  DEF Init, TypeInv, TypeOK, Names, Chasing, Spending, Steps, Holding, Environments, Label
<1>2. TypeInv /\ [Next]_vars => TypeInv'
  <2> SUFFICES ASSUME TypeInv, [Next]_vars PROVE TypeInv'
    OBVIOUS
  <2> USE IdentitiesAssumption DEF TypeInv, TypeOK, Names, Chasing, offerVars, requestVars, boundVars
  <2>1. CASE UNCHANGED vars
    BY <2>1 DEF vars, Holding
  <2>2. ASSUME NEW r \in Request, Step(r) PROVE TypeInv'
    <3> USE DEF Steps, Holding, Spending, At, GoTo, Reply, Answer, Forget, Label, Bound
    <3>1. CASE ListUnresolved(r)
      BY <3>1 DEF ListUnresolved, Awaiting
    <3>2. CASE \E o \in Offer : AskAgain(r, o)
      <4>1. PICK o \in Offer : AskAgain(r, o)
        BY <3>2
      <4>2. TypeOK'
        <5>1. sold' \subseteq Label
          BY <4>1 DEF AskAgain
        <5>2. pc' \in [Request -> Steps] /\ \A q \in Request : pc'[q] \in Holding => pc[q] \in Holding
          BY <4>1 DEF AskAgain
        <5>3. todo' \in [Request -> SUBSET Offer] /\ recovering' \in [Request -> Offer \cup {None}]
          BY <4>1 DEF AskAgain
        <5> QED
          BY <4>1, <5>1, <5>2, <5>3 DEF AskAgain
      <4>3. \A q \in Request : Names(q)'
        BY <4>1 DEF AskAgain
      <4> QED
        BY <4>2, <4>3
    <3>3. CASE StampRecovered(r)
      <4>1. TypeOK'
        BY <3>3 DEF StampRecovered, RecordPurchase
      <4>2. \A q \in Request : Names(q)'
        BY <3>3 DEF StampRecovered, RecordPurchase
      <4> QED
        BY <4>1, <4>2
    <3>4. CASE ShipRecovered(r)
      <4>1. recovering[r] \in consumed /\ recovering[r] \in Label
        BY <3>4 DEF ShipRecovered
      <4> QED
        BY <3>4, <4>1, RecordLabelTypes DEF ShipRecovered
    <3>5. CASE Relist(r)
      <4>1. TypeOK'
        BY <3>5 DEF Relist
      <4>2. \A q \in Request : Names(q)'
        BY <3>5 DEF Relist
      <4> QED
        BY <4>1, <4>2
    <3>6. CASE Inspect(r)
      BY <3>6 DEF Inspect
    <3>7. CASE \E outcome \in Answers : RefuseLocally(r, outcome) \/ CarrierSilent(r, outcome)
      <4>1. PICK outcome \in Answers : RefuseLocally(r, outcome) \/ CarrierSilent(r, outcome)
        BY <3>7
      <4>2. CASE RefuseLocally(r, outcome)
        BY <4>2 DEF RefuseLocally
      <4>3. CASE CarrierSilent(r, outcome)
        BY <4>3 DEF CarrierSilent
      <4> QED
        BY <4>1, <4>2, <4>3
    <3>8. CASE Claim(r)
      <4>1. TypeOK'
        BY <3>8 DEF Claim, Redeem, Spendable, Open
      <4>2. \A q \in Request : Names(q)'
        BY <3>8 DEF Claim, Redeem, Spendable, Open
      <4> QED
        BY <4>1, <4>2
    <3>9. CASE CarrierSells(r)
      BY <3>9 DEF CarrierSells
    <3>10. CASE CarrierRefuses(r)
      BY <3>10 DEF CarrierRefuses
    <3>11. CASE StampPurchase(r)
      <4>1. TypeOK'
        <5>1. referenced' \subseteq consumed
          BY <3>11 DEF StampPurchase, RecordPurchase
        <5>2. PICK step \in {"markShipped", "decline", "release"} : GoTo(r, step)
          BY <3>11 DEF StampPurchase
        <5>4. pc[r] \in Holding
          BY <3>11 DEF StampPurchase
        <5>5. /\ pc' \in [Request -> Steps]
              /\ \A q \in Request : pc'[q] \in Holding => pc[q] \in Holding
          BY <5>2, <5>4
        <5>6. mayDelete' \subseteq Unattended
          BY <3>11 DEF StampPurchase
        <5>3. UNCHANGED <<packages, label, rows, quotedFor, quotedIn, consumed, failed, expired,
                          lock, sold, asks, todo, recovering, environment, boundVars>>
          BY <3>11 DEF StampPurchase
        <5> QED
          BY <5>1, <5>3, <5>5, <5>6
      <4>2. \A q \in Request : Names(q)'
        BY <3>11 DEF StampPurchase, RecordPurchase
      <4> QED
        BY <4>1, <4>2
    <3>12. CASE RecordDecline(r)
      BY <3>12 DEF RecordDecline, RecordFailure
    <3>13. CASE MarkShipped(r)
      <4>1. Bound(r) \in Label /\ (Bound(r) \in Offer => Bound(r) \in consumed)
        BY <3>13 DEF MarkShipped
      <4> QED
        BY <3>13, <4>1, RecordLabelTypes DEF MarkShipped
    <3>14. CASE Release(r)
      BY <3>14 DEF Release, Finish
    <3>15. CASE Cleanup(r)
      BY <3>15 DEF Cleanup
    <3> QED
      BY <2>2, <3>1, <3>2, <3>3, <3>4, <3>5, <3>6, <3>7, <3>8, <3>9, <3>10, <3>11, <3>12,
         <3>13, <3>14, <3>15 DEF Step
  <2>3. ASSUME NEW r \in Request, Crash(r) PROVE TypeInv'
    BY <2>3 DEF Crash, GoTo, Forget, Steps, Holding, Spending
  <2>4. ASSUME NEW r \in Request, NEW p \in Package, NothingToBuy(r, p) PROVE TypeInv'
    BY <2>4 DEF NothingToBuy, Asks, At, Deletable, Unattended, Finish, GoTo, Steps, Holding, Spending
  <2>5. ASSUME NEW r \in Request, NEW p \in Package, NEW o \in Offer \cup {None},
               TakeLock(r, p, o) \/ TurnAway(r, p, o)
        PROVE  TypeInv'
    <3> USE DEF Asks, At, Deletable, Unattended, GoTo, Steps, Holding, Spending
    <3>1. CASE TakeLock(r, p, o)
      BY <3>1 DEF TakeLock
    <3>2. CASE TurnAway(r, p, o)
      BY <3>2 DEF TurnAway, Finish
    <3> QED
      BY <2>5, <3>1, <3>2
  <2>6. ASSUME NEW o \in Offer, NEW p \in Package, Quote(o, p) PROVE TypeInv'
    <3>1. TypeOK'
      BY <2>6 DEF Quote, Holding
    <3>2. \A q \in Request : Names(q)'
      BY <2>6 DEF Quote, Holding
    <3> QED
      BY <3>1, <3>2
  <2>7. ASSUME NEW o \in Offer, Expire(o) \/ Purge(o) PROVE TypeInv'
    BY <2>7 DEF Expire, Purge, Holding
  <2>8. CASE SwitchSandboxMode
    BY <2>8 DEF SwitchSandboxMode, Environments, Holding
  <2>9. ASSUME NEW p \in Package, AbandonedLockExpires(p) \/ LockLapses(p) PROVE TypeInv'
    <3>1. UNCHANGED <<packages, label, offerVars, sold, requestVars, environment, boundVars>>
      BY <2>9 DEF AbandonedLockExpires, LockLapses, LockExpires
    <3>2. lock' \in [Package -> Request \cup {None}]
      BY <2>9 DEF AbandonedLockExpires, LockLapses, LockExpires
    <3>3. TypeOK'
      BY <3>1, <3>2
    <3>4. \A q \in Request : Names(q)'
      BY <3>1
    <3> QED
      BY <3>3, <3>4
  <2> QED
    BY <2>1, <2>2, <2>3, <2>4, <2>5, <2>6, <2>7, <2>8, <2>9 DEF Next
<1> QED
  BY <1>1, <1>2, PTL DEF Spec

\* Every table, every column and every request keeps its type, and only quoted
\* offers are spent, only spent offers have an outcome.
THEOREM TypeCorrect == Spec => []TypeOK
<1>1. TypeInv => TypeOK
  BY DEF TypeInv
<1> QED
  BY <1>1, TypeInvariant, PTL

-----------------------------------------------------------------------------
(* What a step does to the request that takes it, and to the others.       *)

LEMMA StepMoves ==
  ASSUME TypeInv, NEW r \in Request, Step(r)
  PROVE  /\ asks' = asks
         /\ pc' = [pc EXCEPT ![r] = pc'[r]]
         /\ pc'[r] \in Holding => pc[r] \in Holding
         /\ pc'[r] \in Spending => pc[r] \in Spending \/ Claim(r)
<1> USE DEF TypeInv, TypeOK, requestVars, Holding, Spending, At, GoTo, Answer
<1>1. CASE ListUnresolved(r)
  BY <1>1 DEF ListUnresolved
<1>2. CASE \E o \in Offer : AskAgain(r, o)
  BY <1>2 DEF AskAgain
<1>3. CASE StampRecovered(r)
  BY <1>3 DEF StampRecovered
<1>4. CASE ShipRecovered(r)
  BY <1>4 DEF ShipRecovered, RecordLabel
<1>5. CASE Relist(r)
  BY <1>5 DEF Relist
<1>6. CASE Inspect(r)
  BY <1>6 DEF Inspect
<1>7. CASE \E outcome \in Answers : RefuseLocally(r, outcome) \/ CarrierSilent(r, outcome)
  BY <1>7 DEF RefuseLocally, CarrierSilent
<1>8. CASE Claim(r)
  BY <1>8 DEF Claim
<1>9. CASE CarrierSells(r)
  BY <1>9 DEF CarrierSells
<1>10. CASE CarrierRefuses(r)
  BY <1>10 DEF CarrierRefuses
<1>11. CASE StampPurchase(r)
  BY <1>11 DEF StampPurchase
<1>12. CASE RecordDecline(r)
  BY <1>12 DEF RecordDecline
<1>13. CASE MarkShipped(r)
  BY <1>13 DEF MarkShipped, RecordLabel
<1>14. CASE Release(r)
  BY <1>14 DEF Release, Finish
<1>15. CASE Cleanup(r)
  BY <1>15 DEF Cleanup
<1> QED
  BY <1>1, <1>2, <1>3, <1>4, <1>5, <1>6, <1>7, <1>8, <1>9, <1>10, <1>11, <1>12, <1>13, <1>14, <1>15 DEF Step

\* Nobody but Step(r) moves a request on, once it is past idle.
LEMMA NextMoves ==
  ASSUME TypeInv, [Next]_vars, NEW r \in Request, pc'[r] \in Spending
  PROVE  /\ asks'[r] = asks[r]
         /\ pc[r] \in Spending \/ Claim(r)
<1> USE DEF TypeInv, TypeOK, requestVars, Holding, Spending, At, GoTo
<1>1. ASSUME NEW q \in Request, Step(q)
      PROVE  asks'[r] = asks[r] /\ (pc[r] \in Spending \/ Claim(r))
  BY <1>1, StepMoves
<1>2. ASSUME NEW q \in Request, Crash(q)
      PROVE  asks'[r] = asks[r] /\ pc[r] \in Spending
  BY <1>2 DEF Crash
<1>3. ASSUME NEW q \in Request, NEW p \in Package, NothingToBuy(q, p)
      PROVE  asks'[r] = asks[r] /\ pc[r] \in Spending
  BY <1>3 DEF NothingToBuy, Asks, Finish
<1>4. ASSUME NEW q \in Request, NEW p \in Package, NEW o \in Offer \cup {None},
             TakeLock(q, p, o) \/ TurnAway(q, p, o)
      PROVE  asks'[r] = asks[r] /\ pc[r] \in Spending
  BY <1>4 DEF TakeLock, TurnAway, Asks, Finish
<1>5. ASSUME UNCHANGED <<pc, asks>>
      PROVE  asks'[r] = asks[r] /\ pc[r] \in Spending
  BY <1>5
<1> QED
  BY <1>1, <1>2, <1>3, <1>4, <1>5
  DEF Next, vars, Quote, Expire, Purge, SwitchSandboxMode, AbandonedLockExpires, LockLapses,
      LockExpires

\* No two requests ever spend one offer, with or without a lock that holds: the
\* claim is one conditional UPDATE, and what it leaves behind refuses the next.
THEOREM OfferSpentByOne == Spec => []OneRequestSpendsAnOffer
<1>1. Init => OneRequestSpendsAnOffer
  BY DEF Init, OneRequestSpendsAnOffer, Spending
<1>2. TypeInv /\ OneRequestSpendsAnOffer /\ [Next]_vars => OneRequestSpendsAnOffer'
  <2> SUFFICES ASSUME TypeInv, OneRequestSpendsAnOffer, [Next]_vars,
                      NEW r1 \in Request, NEW r2 \in Request,
                      pc'[r1] \in Spending, pc'[r2] \in Spending,
                      asks'[r1].offer = asks'[r2].offer, asks'[r1].offer # None,
                      r1 # r2
               PROVE  FALSE
    BY DEF OneRequestSpendsAnOffer
  <2>1. asks[r1].offer = asks[r2].offer /\ asks[r1].offer # None
    BY NextMoves
  <2>2. ASSUME NEW r \in Request, NEW q \in Request, r # q, Claim(r), pc'[r] \in Spending,
               pc'[q] \in Spending, asks[r].offer = asks[q].offer, asks[r].offer # None
        PROVE  FALSE
    <3>1. asks[r].offer \notin consumed
      BY <2>2 DEF Claim, Spendable, Answer, GoTo, At, Spending, TypeInv, TypeOK
    <3>2. pc'[q] = pc[q]
      BY <2>2 DEF Claim, Answer, GoTo, TypeInv, TypeOK
    <3> QED
      BY <2>2, <3>1, <3>2 DEF TypeInv, Names
  <2>3. ~Claim(r1) /\ ~Claim(r2)
    BY <2>1, <2>2
  <2> QED
    BY <2>1, <2>3, NextMoves DEF OneRequestSpendsAnOffer
<1> QED
  BY <1>1, <1>2, TypeInvariant, PTL DEF Spec

-----------------------------------------------------------------------------
(* While no lock lapses under a running request.                           *)

HoldsLock == \A r \in Request : pc[r] \in Holding => lock[asks[r].package] = r

\* A request that runs holds the lock of its package.
LEMMA LockHeld ==
  ASSUME ~LockMayLapse
  PROVE  Spec => []HoldsLock
<1>1. Init => HoldsLock
  BY DEF Init, HoldsLock, Holding
<1>2. TypeInv /\ HoldsLock /\ [Next]_vars => HoldsLock'
  <2> SUFFICES ASSUME TypeInv, HoldsLock, [Next]_vars PROVE HoldsLock'
    OBVIOUS
  <2> USE IdentitiesAssumption DEF TypeInv, TypeOK, HoldsLock, offerVars, requestVars, boundVars
  <2>1. ASSUME NEW r \in Request, Step(r) PROVE HoldsLock'
    <3>1. CASE Release(r)
      BY <3>1 DEF Release, Finish, GoTo, At, Holding
    <3>2. CASE ~Release(r)
      <4>1. lock' = lock
        BY <2>1, <3>2 DEF Step, ListUnresolved, AskAgain, StampRecovered, ShipRecovered,
           RecordLabel, Relist, Inspect, RefuseLocally, CarrierSilent, Claim, CarrierSells,
           CarrierRefuses, StampPurchase, RecordDecline, MarkShipped, Cleanup
      <4> QED
        BY <2>1, <4>1, StepMoves
    <3> QED
      BY <3>1, <3>2
  <2>2. ASSUME NEW r \in Request, Crash(r) PROVE HoldsLock'
    BY <2>2 DEF Crash, GoTo, Holding
  <2>3. ASSUME NEW r \in Request, NEW p \in Package, NothingToBuy(r, p) PROVE HoldsLock'
    BY <2>3 DEF NothingToBuy, Asks, Finish, GoTo, At, Holding
  <2>4. ASSUME NEW r \in Request, NEW p \in Package, NEW o \in Offer \cup {None},
               TakeLock(r, p, o)
        PROVE  HoldsLock'
    BY <2>4 DEF TakeLock, GetLock, Asks, GoTo, At, Holding
  <2>5. ASSUME NEW r \in Request, NEW p \in Package, NEW o \in Offer \cup {None},
               TurnAway(r, p, o)
        PROVE  HoldsLock'
    BY <2>5 DEF TurnAway, Asks, Finish, GoTo, At, Holding
  <2>6. ASSUME NEW p \in Package, AbandonedLockExpires(p) PROVE HoldsLock'
    BY <2>6 DEF AbandonedLockExpires, LockExpires, Holding
  <2>7. ASSUME UNCHANGED <<lock, pc, asks>> PROVE HoldsLock'
    BY <2>7
  <2> QED
    BY <2>1, <2>2, <2>3, <2>4, <2>5, <2>6, <2>7
    DEF Next, vars, Quote, Expire, Purge, SwitchSandboxMode, LockLapses
<1> QED
  BY <1>1, <1>2, TypeInvariant, PTL DEF Spec

\* Nobody loses a lock without either returning it or dying, and nobody but the
\* holder returns it: whether or not it lapses, a lock there is has an owner.
THEOREM EveryLockHasAnOwner == Spec => []LockHasAnOwner
<1>1. Init => LockHasAnOwner
  BY DEF Init, LockHasAnOwner
<1>2. TypeInv /\ LockHasAnOwner /\ [Next]_vars => LockHasAnOwner'
  <2> SUFFICES ASSUME TypeInv, LockHasAnOwner, [Next]_vars PROVE LockHasAnOwner'
    OBVIOUS
  <2> USE IdentitiesAssumption DEF TypeInv, TypeOK, LockHasAnOwner, offerVars, requestVars, boundVars
  <2>1. ASSUME NEW r \in Request, Step(r) PROVE LockHasAnOwner'
    <3>1. CASE Release(r)
      BY <3>1 DEF Release, Finish, GoTo, At, Holding
    <3>2. CASE ~Release(r)
      <4>1. lock' = lock /\ asks' = asks /\ pc' = [pc EXCEPT ![r] = pc'[r]]
        BY <2>1, <3>2, StepMoves DEF Step, ListUnresolved, AskAgain, StampRecovered, ShipRecovered,
           RecordLabel, Relist, Inspect, RefuseLocally, CarrierSilent, Claim, CarrierSells,
           CarrierRefuses, StampPurchase, RecordDecline, MarkShipped, Cleanup
      <4>2. CASE pc[r] \in Holding
        <5>1. pc'[r] \in Holding
          BY <2>1, <3>2, <4>2
          DEF Step, ListUnresolved, AskAgain, StampRecovered, ShipRecovered, RecordLabel, Relist,
              Inspect, RefuseLocally, CarrierSilent, Claim, CarrierSells, CarrierRefuses,
              StampPurchase, RecordDecline, MarkShipped, Cleanup, Answer, GoTo, At, Holding
        <5> QED
          BY <4>1, <5>1
      <4>3. CASE pc[r] \notin Holding
        <5>1. pc[r] # "dead"
          BY <2>1 DEF Step, ListUnresolved, AskAgain, StampRecovered, ShipRecovered, Relist, Inspect,
             RefuseLocally, CarrierSilent, Claim, CarrierSells, CarrierRefuses, StampPurchase,
             RecordDecline, MarkShipped, Release, Cleanup, At
        <5> QED
          BY <4>1, <4>3, <5>1
      <4> QED
        BY <4>2, <4>3
    <3> QED
      BY <3>1, <3>2
  <2>2. ASSUME NEW r \in Request, Crash(r) PROVE LockHasAnOwner'
    BY <2>2 DEF Crash, GoTo
  <2>3. ASSUME NEW r \in Request, NEW p \in Package, NothingToBuy(r, p) PROVE LockHasAnOwner'
    BY <2>3 DEF NothingToBuy, Asks, Finish, GoTo, At, Holding
  <2>4. ASSUME NEW r \in Request, NEW p \in Package, NEW o \in Offer \cup {None},
               TakeLock(r, p, o)
        PROVE  LockHasAnOwner'
    BY <2>4 DEF TakeLock, Asks, GoTo, At, Holding
  <2>5. ASSUME NEW r \in Request, NEW p \in Package, NEW o \in Offer \cup {None},
               TurnAway(r, p, o)
        PROVE  LockHasAnOwner'
    BY <2>5 DEF TurnAway, Asks, Finish, GoTo, At, Holding
  <2>6. ASSUME NEW p \in Package, AbandonedLockExpires(p) \/ LockLapses(p)
        PROVE  LockHasAnOwner'
    BY <2>6 DEF AbandonedLockExpires, LockLapses, LockExpires
  <2>7. ASSUME UNCHANGED <<lock, pc, asks>> PROVE LockHasAnOwner'
    BY <2>7
  <2> QED
    BY <2>1, <2>2, <2>3, <2>4, <2>5, <2>6, <2>7
    DEF Next, vars, Quote, Expire, Purge, SwitchSandboxMode
<1> QED
  BY <1>1, <1>2, TypeInvariant, PTL DEF Spec

\* Only a claim makes an offer unresolved, and the one it claims.
LEMMA AwaitingGrows ==
  ASSUME TypeInv, [Next]_vars, NEW p \in Package, NEW o \in Awaiting(p)', o \notin Awaiting(p)
  PROVE  \E q \in Request : /\ Claim(q)
                            /\ pc'[q] = "purchase"
                            /\ asks[q] = [package |-> p, offer |-> o]
<1> USE IdentitiesAssumption DEF TypeInv, TypeOK, Awaiting, offerVars
<1>1. ASSUME NEW q \in Request, Claim(q)
      PROVE  pc'[q] = "purchase" /\ asks[q] = [package |-> p, offer |-> o]
  BY <1>1 DEF Claim, Redeem, Spendable, GoTo
<1>2. ASSUME NEW q \in Request, Step(q), ~Claim(q) PROVE FALSE
  BY <1>2 DEF Step, ListUnresolved, AskAgain, StampRecovered, ShipRecovered,
     RecordLabel, RecordPurchase, RecordFailure, Relist, Inspect, RefuseLocally, CarrierSilent,
     CarrierSells, CarrierRefuses, StampPurchase, RecordDecline, MarkShipped, Release, Cleanup
<1>3. ASSUME NEW q \in Offer, NEW c \in Package, Quote(q, c) PROVE FALSE
  BY <1>3 DEF Quote
<1>4. ASSUME NEW q \in Offer, Expire(q) \/ Purge(q) PROVE FALSE
  BY <1>4 DEF Expire, Purge
<1>5. ASSUME UNCHANGED offerVars PROVE FALSE
  BY <1>5
<1> QED
  BY <1>1, <1>2, <1>3, <1>4, <1>5
  DEF Next, vars, Crash, NothingToBuy, TakeLock, TurnAway, SwitchSandboxMode,
      AbandonedLockExpires, LockLapses, LockExpires

\* Between the last reading of the offer store and the carrier's door, no
\* purchase on the package is unresolved but the one being made.
Clear(r) ==
  /\ pc[r] \in {"inspect", "claim"} => Awaiting(asks[r].package) = {}
  /\ pc[r] = "purchase" => Awaiting(asks[r].package) \subseteq {asks[r].offer}

\* Where a request can have come from when it is about to buy.
LEMMA StepTowardsPurchase ==
  ASSUME TypeInv, [Next]_vars, NEW r \in Request, pc'[r] \in {"inspect", "claim", "purchase"}
  PROVE  /\ asks'[r] = asks[r]
         /\ \/ pc'[r] = pc[r]
            \/ /\ pc'[r] = "inspect" /\ Awaiting(asks[r].package) = {}
               /\ ListUnresolved(r) \/ Relist(r)
            \/ pc'[r] = "claim" /\ pc[r] = "inspect" /\ Inspect(r)
            \/ pc'[r] = "purchase" /\ pc[r] = "claim" /\ Claim(r)
<1> USE DEF TypeInv, TypeOK, requestVars, GoTo, At
<1>1. ASSUME NEW q \in Request, Step(q), q # r
      PROVE  pc'[r] = pc[r] /\ asks'[r] = asks[r]
  BY <1>1, StepMoves
<1>2. CASE Step(r)
  BY <1>2, StepMoves
  DEF Step, ListUnresolved, AskAgain, StampRecovered, ShipRecovered, RecordLabel, Relist,
      Inspect, RefuseLocally, CarrierSilent, Claim, CarrierSells, CarrierRefuses, StampPurchase,
      RecordDecline, MarkShipped, Release, Finish, Cleanup, Answer
<1>3. ASSUME NEW q \in Request, Crash(q)
      PROVE  pc'[r] = pc[r] /\ asks'[r] = asks[r]
  BY <1>3 DEF Crash
<1>4. ASSUME NEW q \in Request, NEW p \in Package, NothingToBuy(q, p)
      PROVE  pc'[r] = pc[r] /\ asks'[r] = asks[r]
  BY <1>4 DEF NothingToBuy, Asks, Finish
<1>5. ASSUME NEW q \in Request, NEW p \in Package, NEW o \in Offer \cup {None},
             TakeLock(q, p, o) \/ TurnAway(q, p, o)
      PROVE  pc'[r] = pc[r] /\ asks'[r] = asks[r]
  BY <1>5 DEF TakeLock, TurnAway, Asks, Finish
<1>6. ASSUME UNCHANGED <<pc, asks>>
      PROVE  pc'[r] = pc[r] /\ asks'[r] = asks[r]
  BY <1>6
<1> QED
  BY <1>1, <1>2, <1>3, <1>4, <1>5, <1>6
  DEF Next, vars, Quote, Expire, Purge, SwitchSandboxMode, AbandonedLockExpires, LockLapses,
      LockExpires

AllClear == \A r \in Request : Clear(r)

LEMMA ClearInvariant ==
  ASSUME ~LockMayLapse
  PROVE  Spec => []AllClear
<1>1. Init => AllClear
  BY DEF Init, AllClear, Clear
<1>2. TypeInv /\ HoldsLock /\ AllClear /\ [Next]_vars => AllClear'
  <2> SUFFICES ASSUME TypeInv, HoldsLock, AllClear, [Next]_vars,
                      NEW r \in Request, pc'[r] \in {"inspect", "claim", "purchase"}
               PROVE  Clear(r)'
    BY DEF AllClear, Clear
  <2> USE DEF AllClear
  <2> DEFINE p == asks[r].package
  <2>1. asks'[r] = asks[r] /\ pc[r] \in Holding /\ p \in Package
    BY StepTowardsPurchase DEF Holding, TypeInv, TypeOK, ListUnresolved, Relist, At
  <2>2. ASSUME NEW o \in Awaiting(p)', o \notin Awaiting(p)
        PROVE  Claim(r) /\ pc'[r] = "purchase" /\ asks[r].offer = o
    <3>1. PICK q \in Request : /\ Claim(q)
                               /\ pc'[q] = "purchase"
                               /\ asks[q] = [package |-> p, offer |-> o]
      BY <2>1, <2>2, AwaitingGrows
    <3>2. pc[q] \in Holding
      BY <3>1 DEF Claim, At, Holding
    <3>3. q = r
      BY <2>1, <3>1, <3>2 DEF HoldsLock
    <3> QED
      BY <3>1, <3>3
  <2>3. CASE Awaiting(p)' \subseteq Awaiting(p)
    BY <2>1, <2>3, StepTowardsPurchase DEF Clear
  <2>4. CASE ~(Awaiting(p)' \subseteq Awaiting(p))
    <3>1. Claim(r) /\ pc'[r] = "purchase"
      BY <2>2, <2>4
    <3>2. Awaiting(p) = {}
      BY <3>1 DEF Claim, At, Clear
    <3> QED
      BY <2>1, <2>2, <3>1, <3>2 DEF Clear
  <2> QED
    BY <2>3, <2>4
<1> QED
  BY <1>1, <1>2, TypeInvariant, LockHeld, PTL DEF Spec

\* "Nothing may be spent on the package while one of these stands": as long as
\* no lock lapses under a running request, a request reaches the carrier only
\* when every other purchase on the package is accounted for.
THEOREM NothingSpentWhileUnresolved ==
  ASSUME ~LockMayLapse
  PROVE  Spec => []NoPurchaseWhileUnresolved
<1>1. AllClear => NoPurchaseWhileUnresolved
  BY DEF AllClear, Clear, NoPurchaseWhileUnresolved, At
<1> QED
  BY <1>1, ClearInvariant, PTL

\* As long as no lock lapses under a running request, a package has one purchase
\* at a time whose outcome nobody knows: the next one is not even claimed.
THEOREM UnresolvedOneAtATime ==
  ASSUME ~LockMayLapse
  PROVE  Spec => []OneUnresolvedPurchase
<1>1. Init => OneUnresolvedPurchase
  BY DEF Init, OneUnresolvedPurchase, Awaiting
<1>2. TypeInv /\ AllClear /\ OneUnresolvedPurchase /\ [Next]_vars => OneUnresolvedPurchase'
  <2> SUFFICES ASSUME TypeInv, AllClear, OneUnresolvedPurchase, [Next]_vars, NEW p \in Package,
                      NEW o1 \in Awaiting(p)', NEW o2 \in Awaiting(p)'
               PROVE  o1 = o2
    BY DEF OneUnresolvedPurchase
  \* The offer just claimed had nothing unresolved beside it.
  <2>1. ASSUME NEW o \in Awaiting(p)', o \notin Awaiting(p), NEW x \in Awaiting(p)'
        PROVE  x = o
    <3>1. PICK q \in Request : Claim(q) /\ pc'[q] = "purchase" /\ asks[q] = [package |-> p, offer |-> o]
      BY <2>1, AwaitingGrows
    <3>2. Awaiting(p) = {}
      BY <3>1 DEF Claim, At, AllClear, Clear
    <3>3. x \notin Awaiting(p)
      BY <3>2
    <3>4. PICK y \in Request : Claim(y) /\ pc'[y] = "purchase" /\ asks[y] = [package |-> p, offer |-> x]
      BY <2>1, <3>3, AwaitingGrows
    <3>5. y = q
      BY <3>1, <3>4 DEF Claim, Answer, GoTo, At, TypeInv, TypeOK
    <3> QED
      BY <3>1, <3>4, <3>5
  <2>2. CASE o1 \in Awaiting(p) /\ o2 \in Awaiting(p)
    BY <2>2 DEF OneUnresolvedPurchase
  <2> QED
    BY <2>1, <2>2
<1> QED
  BY <1>1, <1>2, TypeInvariant, ClearInvariant, PTL DEF Spec

-----------------------------------------------------------------------------
(* What was sold, and what is on record of it.                             *)

\* A request that is about to record a label holds one that was sold, and a
\* call nobody has made has bought nothing.
Bought(r) ==
  /\ pc[r] \in {"stampRecovered", "shipRecovered"} => recovering[r] \in sold
  /\ pc[r] \in {"stamp", "markShipped"} => Bound(r) \in sold
  /\ r \in sold => pc[r] # "idle"

LabelInv == RecordedLabelWasSoldForThePackage /\ \A r \in Request : Bought(r)

\* Nothing is ever unsold, unspent or unreferenced, no call changes what it asked for once it was made,
\* and no offer changes packages or comes back once it has been deleted.
LEMMA Lasting ==
  ASSUME TypeInv, [Next]_vars
  PROVE  /\ sold \subseteq sold' /\ consumed \subseteq consumed' /\ referenced \subseteq referenced'
         /\ \A o \in rows' : o \in rows \/ quotedFor[o] = None
         /\ \A r \in Request : pc[r] # "idle" => asks'[r] = asks[r] /\ pc'[r] # "idle"
         /\ \A o \in Offer : quotedFor[o] # None => quotedFor'[o] = quotedFor[o]
<1> USE DEF TypeInv, TypeOK, offerVars, requestVars
<1>1. sold \subseteq sold'
  BY DEF Next, vars, Step, ListUnresolved, AskAgain, StampRecovered, ShipRecovered, RecordLabel,
     Relist, Inspect, RefuseLocally, CarrierSilent, Claim, CarrierSells, CarrierRefuses,
     StampPurchase, RecordDecline, MarkShipped, Release, Cleanup, Crash, NothingToBuy, TakeLock,
     TurnAway, Quote, Expire, Purge, SwitchSandboxMode, AbandonedLockExpires, LockLapses,
     LockExpires
<1>2. ASSUME NEW r \in Request, pc[r] # "idle"
      PROVE  asks'[r] = asks[r] /\ pc'[r] # "idle"
  <2>1. ASSUME NEW q \in Request, Step(q) PROVE asks'[r] = asks[r] /\ pc'[r] # "idle"
    <3>1. asks' = asks /\ pc' = [pc EXCEPT ![q] = pc'[q]]
      BY <2>1, StepMoves
    <3>2. pc'[q] # "idle"
      BY <2>1 DEF Step, ListUnresolved, AskAgain, StampRecovered, ShipRecovered, RecordLabel,
         Relist, Inspect, RefuseLocally, CarrierSilent, Claim, CarrierSells, CarrierRefuses,
         StampPurchase, RecordDecline, MarkShipped, Release, Cleanup, GoTo, Answer, Finish, At
    <3> QED
      BY <1>2, <3>1, <3>2
  <2>2. ASSUME NEW q \in Request, Crash(q) PROVE asks'[r] = asks[r] /\ pc'[r] # "idle"
    BY <1>2, <2>2 DEF Crash, GoTo
  <2>3. ASSUME NEW q \in Request, NEW p \in Package, NothingToBuy(q, p)
        PROVE  asks'[r] = asks[r] /\ pc'[r] # "idle"
    BY <1>2, <2>3 DEF NothingToBuy, Asks, At, Finish, GoTo
  <2>4. ASSUME NEW q \in Request, NEW p \in Package, NEW o \in Offer \cup {None},
               TakeLock(q, p, o) \/ TurnAway(q, p, o)
        PROVE  asks'[r] = asks[r] /\ pc'[r] # "idle"
    BY <1>2, <2>4 DEF TakeLock, TurnAway, Asks, At, Finish, GoTo
  <2>5. ASSUME UNCHANGED <<pc, asks>> PROVE asks'[r] = asks[r] /\ pc'[r] # "idle"
    BY <1>2, <2>5
  <2> QED
    BY <2>1, <2>2, <2>3, <2>4, <2>5
    DEF Next, vars, Quote, Expire, Purge, SwitchSandboxMode, AbandonedLockExpires, LockLapses,
        LockExpires
<1>3. ASSUME NEW o \in Offer, quotedFor[o] # None PROVE quotedFor'[o] = quotedFor[o]
  <2>1. ASSUME NEW q \in Offer, NEW p \in Package, Quote(q, p) PROVE quotedFor'[o] = quotedFor[o]
    BY <1>3, <2>1 DEF Quote
  <2>2. ASSUME UNCHANGED quotedFor PROVE quotedFor'[o] = quotedFor[o]
    BY <2>2
  <2> QED
    BY <2>1, <2>2
    DEF Next, vars, Step, ListUnresolved, AskAgain, StampRecovered, ShipRecovered, RecordLabel,
        Relist, Inspect, RefuseLocally, CarrierSilent, Claim, CarrierSells, CarrierRefuses,
        StampPurchase, RecordDecline, MarkShipped, Release, Cleanup, Crash, NothingToBuy,
        TakeLock, TurnAway, Expire, Purge, SwitchSandboxMode, AbandonedLockExpires, LockLapses,
        LockExpires
<1>4. consumed \subseteq consumed'
  BY DEF Next, vars, Step, ListUnresolved, AskAgain, StampRecovered, ShipRecovered, RecordLabel,
     Relist, Inspect, RefuseLocally, CarrierSilent, Claim, CarrierSells, CarrierRefuses,
     StampPurchase, RecordDecline, MarkShipped, Release, Cleanup, Crash, NothingToBuy, TakeLock,
     TurnAway, Quote, Expire, Purge, SwitchSandboxMode, AbandonedLockExpires, LockLapses,
     LockExpires, Redeem
<1>5. referenced \subseteq referenced'
  BY DEF Next, vars, Step, ListUnresolved, AskAgain, StampRecovered, ShipRecovered, RecordLabel,
     Relist, Inspect, RefuseLocally, CarrierSilent, Claim, CarrierSells, CarrierRefuses,
     StampPurchase, RecordDecline, MarkShipped, Release, Cleanup, Crash, NothingToBuy, TakeLock,
     TurnAway, Quote, Expire, Purge, SwitchSandboxMode, AbandonedLockExpires, LockLapses,
     LockExpires, RecordPurchase
<1>6. \A o \in rows' : o \in rows \/ quotedFor[o] = None
  BY DEF Next, vars, Step, ListUnresolved, AskAgain, StampRecovered, ShipRecovered, RecordLabel,
     Relist, Inspect, RefuseLocally, CarrierSilent, Claim, CarrierSells, CarrierRefuses,
     StampPurchase, RecordDecline, MarkShipped, Release, Cleanup, Crash, NothingToBuy, TakeLock,
     TurnAway, Quote, Expire, Purge, SwitchSandboxMode, AbandonedLockExpires, LockLapses,
     LockExpires
<1> QED
  BY <1>1, <1>2, <1>3, <1>4, <1>5, <1>6

\* The two ways a label gets recorded: each records one that was sold, for the
\* package the request names.
LEMMA LabelChanges ==
  ASSUME TypeInv, \A r \in Request : Bought(r), [Next]_vars,
         NEW p \in Package, label'[p] # label[p]
  PROVE  /\ label'[p] \in sold
         /\ label'[p] \in Offer => quotedFor[label'[p]] = p
         /\ label'[p] \in Request => pc[label'[p]] # "idle" /\ asks[label'[p]].package = p
<1> USE IdentitiesAssumption DEF TypeInv, TypeOK
<1>1. PICK r \in Request : ShipRecovered(r) \/ MarkShipped(r)
  BY DEF Next, vars, Step, ListUnresolved, AskAgain, StampRecovered,
     Relist, Inspect, RefuseLocally, CarrierSilent, Claim, CarrierSells, CarrierRefuses,
     StampPurchase, RecordDecline, Release, Cleanup, Crash, NothingToBuy, TakeLock,
     TurnAway, Quote, Expire, Purge, SwitchSandboxMode, AbandonedLockExpires, LockLapses,
     LockExpires
<1>2. CASE ShipRecovered(r)
  <2>1. pc[r] = "shipRecovered" /\ label'[p] = recovering[r] /\ asks[r].package = p
    BY <1>2 DEF ShipRecovered, RecordLabel, At
  <2>2. recovering[r] \in Offer /\ recovering[r] \in sold /\ quotedFor[recovering[r]] = p
    BY <2>1 DEF Names, Bought
  <2> QED
    BY <2>1, <2>2
<1>3. CASE MarkShipped(r)
  <2>1. pc[r] = "markShipped" /\ label'[p] = Bound(r) /\ asks[r].package = p
    BY <1>3 DEF MarkShipped, RecordLabel, At
  <2>2. Bound(r) \in sold /\ asks[r].offer \in Offer \cup {None}
    BY <2>1 DEF Bought
  <2>3. CASE asks[r].offer = None
    BY <2>1, <2>2, <2>3 DEF Bound
  <2>4. CASE asks[r].offer # None
    <3>1. Bound(r) = asks[r].offer /\ Bound(r) \in Offer
      BY <2>2, <2>4 DEF Bound
    <3>2. quotedFor[asks[r].offer] = p
      BY <2>1, <2>4 DEF Names, Spending
    <3> QED
      BY <2>1, <2>2, <3>1, <3>2
  <2> QED
    BY <2>3, <2>4
<1> QED
  BY <1>1, <1>2, <1>3

\* A label on record was sold by a carrier, and sold for that package: never for
\* an offer or by a call that belongs to another one.
THEOREM RecordedLabelIsGenuine == Spec => []RecordedLabelWasSoldForThePackage
<1>1. Init => LabelInv
  BY DEF Init, LabelInv, RecordedLabelWasSoldForThePackage, Bought
<1>2. TypeInv /\ TypeInv' /\ LabelInv /\ [Next]_vars => LabelInv'
  <2> SUFFICES ASSUME TypeInv, TypeInv', LabelInv, [Next]_vars PROVE LabelInv'
    OBVIOUS
  <2>1. RecordedLabelWasSoldForThePackage'
    <3> SUFFICES ASSUME NEW p \in Package, label'[p] # None
                 PROVE  /\ label'[p] \in sold'
                        /\ label'[p] \in Offer => quotedFor'[label'[p]] = p
                        /\ label'[p] \in Request => asks'[label'[p]].package = p
      BY DEF RecordedLabelWasSoldForThePackage
    <3>1. /\ label'[p] \in sold
          /\ label'[p] \in Offer => quotedFor[label'[p]] = p
          /\ label'[p] \in Request => pc[label'[p]] # "idle" /\ asks[label'[p]].package = p
      BY LabelChanges DEF LabelInv, RecordedLabelWasSoldForThePackage, Bought
    <3> QED
      BY <3>1, Lasting, IdentitiesAssumption
  <2>2. ASSUME NEW r \in Request PROVE Bought(r)'
    <3> USE IdentitiesAssumption DEF TypeInv, TypeOK, At, GoTo, requestVars
    <3>1. ASSUME r \in sold', r \notin sold PROVE pc[r] # "idle" \/ pc'[r] # "idle"
      BY <3>1 DEF Next, vars, Step, ListUnresolved, AskAgain, StampRecovered, ShipRecovered,
         RecordLabel, Relist, Inspect, RefuseLocally, CarrierSilent, Claim, CarrierSells,
         CarrierRefuses, StampPurchase, RecordDecline, MarkShipped, Release, Cleanup, Crash,
         NothingToBuy, TakeLock, TurnAway, Quote, Expire, Purge, SwitchSandboxMode,
         AbandonedLockExpires, LockLapses, LockExpires, Bound
    <3>2. r \in sold' => pc'[r] # "idle"
      BY <3>1, Lasting DEF LabelInv, Bought
    <3>3. CASE pc'[r] = pc[r] /\ asks'[r] = asks[r] /\ recovering'[r] = recovering[r]
      BY <3>2, <3>3, Lasting DEF LabelInv, Bought, Bound
    <3>4. CASE Step(r)
      BY <3>2, <3>4, StepMoves, Lasting
      DEF Step, ListUnresolved, AskAgain, StampRecovered, ShipRecovered, RecordLabel, Relist,
          Inspect, RefuseLocally, CarrierSilent, Claim, CarrierSells, CarrierRefuses,
          StampPurchase, RecordDecline, MarkShipped, Release, Finish, Cleanup, Answer, LabelInv,
          Bought, Bound
    <3>5. CASE pc'[r] \notin {"stampRecovered", "shipRecovered", "stamp", "markShipped"}
      BY <3>2, <3>5 DEF Bought
    <3>6. ASSUME NEW q \in Request, Step(q), q # r
          PROVE  pc'[r] = pc[r] /\ asks'[r] = asks[r] /\ recovering'[r] = recovering[r]
      <4>1. recovering'[r] = recovering[r]
        BY <3>6
        DEF Step, ListUnresolved, AskAgain, StampRecovered, ShipRecovered, RecordLabel, Relist,
            Inspect, RefuseLocally, CarrierSilent, Claim, CarrierSells, CarrierRefuses,
            StampPurchase, RecordDecline, MarkShipped, Release, Cleanup, Forget
      <4> QED
        BY <3>6, <4>1, StepMoves
    <3>7. ASSUME NEW q \in Request, Crash(q) PROVE Bought(r)'
      <4>1. \/ pc'[r] = "dead"
            \/ pc'[r] = pc[r] /\ asks'[r] = asks[r] /\ recovering'[r] = recovering[r]
        BY <3>7 DEF Crash, Forget
      <4> QED
        BY <3>3, <3>5, <4>1
    <3>8. ASSUME NEW q \in Request, NEW p \in Package,
                 \/ NothingToBuy(q, p)
                 \/ \E o \in Offer \cup {None} : TakeLock(q, p, o) \/ TurnAway(q, p, o)
          PROVE  Bought(r)'
      <4>1. \/ pc'[r] \in {"settle", "cleanup", "done"}
            \/ pc'[r] = pc[r] /\ asks'[r] = asks[r] /\ recovering'[r] = recovering[r]
        BY <3>8 DEF NothingToBuy, TakeLock, TurnAway, Asks, Finish
      <4> QED
        BY <3>3, <3>5, <4>1
    <3>9. ASSUME UNCHANGED requestVars PROVE Bought(r)'
      BY <3>3, <3>9
    <3> QED
      BY <3>3, <3>4, <3>6, <3>7, <3>8, <3>9
      DEF Next, vars, Quote, Expire, Purge, SwitchSandboxMode, AbandonedLockExpires, LockLapses,
          LockExpires
  <2> QED
    BY <2>1, <2>2 DEF LabelInv
<1>3. LabelInv => RecordedLabelWasSoldForThePackage
  BY DEF LabelInv
<1> QED
  BY <1>1, <1>2, <1>3, TypeInvariant, PTL DEF Spec

-----------------------------------------------------------------------------
(* A purchase that was paid for keeps its evidence.                        *)

\* An offer is a request's business when it asks about it or spends it. Under
\* the lock, it is the business of one request at a time.
Concerns(r, o) ==
  \/ pc[r] \in Chasing /\ o \in todo[r]
  \/ pc[r] \in Spending /\ asks[r].offer = o

LEMMA OneConcern ==
  ASSUME TypeInv, HoldsLock, NEW o \in Offer, NEW q \in Request, NEW r \in Request,
         Concerns(q, o), Concerns(r, o)
  PROVE  q = r
<1>1. ASSUME NEW x \in Request, Concerns(x, o)
      PROVE  pc[x] \in Holding /\ quotedFor[o] = asks[x].package
  BY <1>1, IdentitiesAssumption DEF Concerns, TypeInv, TypeOK, Names, Chasing, Spending, Holding
<1> QED
  BY <1>1 DEF HoldsLock

\* Who makes a carrier sell under an offer, and who records a refusal.
LEMMA SoldGrows ==
  ASSUME RefusedMeansUnsold, TypeInv, [Next]_vars, NEW o \in Offer, o \in sold', o \notin sold
  PROVE  /\ UNCHANGED <<packages, offerVars>>
         /\ quotedFor[o] \in packages
         /\ \E q \in Request :
              \/ pc[q] = "chase" /\ o \in todo[q]
              \/ pc[q] = "purchase" /\ asks[q].offer = o /\ pc'[q] \notin {"purchase", "decline"}
<1> USE IdentitiesAssumption DEF TypeInv, TypeOK, At, GoTo
<1>1. ASSUME NEW q \in Request, AskAgain(q, o)
      PROVE  /\ UNCHANGED <<packages, offerVars>>
             /\ quotedFor[o] \in packages
             /\ pc[q] = "chase" /\ o \in todo[q]
  BY <1>1 DEF AskAgain, offerVars, Names, Chasing
<1>2. ASSUME NEW q \in Request,
             CarrierSells(q) \/ \E outcome \in Answers : CarrierSilent(q, outcome)
      PROVE  /\ UNCHANGED <<packages, offerVars>>
             /\ quotedFor[o] \in packages
             /\ pc[q] = "purchase" /\ asks[q].offer = o /\ pc'[q] \notin {"purchase", "decline"}
  BY <1>2 DEF CarrierSells, CarrierSilent, Reaches, Answer, Bound, offerVars, Names, Spending
<1>3. \E q \in Request : \/ AskAgain(q, o)
                         \/ CarrierSells(q) \/ \E outcome \in Answers : CarrierSilent(q, outcome)
  BY DEF Next, vars, Step, ListUnresolved, AskAgain, StampRecovered, ShipRecovered, RecordLabel,
     Relist, Inspect, RefuseLocally, Claim, CarrierRefuses,
     StampPurchase, RecordDecline, MarkShipped, Release, Cleanup, Crash, NothingToBuy, TakeLock,
     TurnAway, Quote, Expire, Purge, SwitchSandboxMode, AbandonedLockExpires, LockLapses,
     LockExpires
<1> QED
  BY <1>1, <1>2, <1>3

LEMMA FailedGrows ==
  ASSUME TypeInv, [Next]_vars, NEW o \in Offer, o \in failed', o \notin failed
  PROVE  /\ sold' = sold
         /\ o \in rows \ referenced
         /\ \E q \in Request : pc[q] = "decline" /\ asks[q].offer = o
<1>1. PICK q \in Request : RecordDecline(q)
  BY DEF Next, vars, Step, ListUnresolved, AskAgain, StampRecovered, ShipRecovered, RecordLabel,
     Relist, Inspect, RefuseLocally, CarrierSilent, Claim, CarrierSells, CarrierRefuses,
     StampPurchase, MarkShipped, Release, Cleanup, Crash, NothingToBuy, TakeLock,
     TurnAway, Quote, Expire, Purge, SwitchSandboxMode, AbandonedLockExpires, LockLapses,
     LockExpires, offerVars
<1> QED
  BY <1>1 DEF RecordDecline, RecordFailure, At

\* No request asks about an offer that was declined, none is about to buy under
\* an offer that has been sold under, and none is about to record a refusal
\* that a sale on file contradicts.
Undisputed(r) ==
  /\ pc[r] \in Chasing => todo[r] \cap failed = {}
  /\ pc[r] = "purchase" /\ asks[r].offer # None => asks[r].offer \notin sold \cup failed
  /\ pc[r] = "decline" /\ asks[r].offer \in sold => asks[r].offer \notin rows \ referenced

PaidInv == PaidOfferKeepsItsEvidence /\ \A r \in Request : Undisputed(r)

\* Where the steps Undisputed talks about come from.
LEMMA StepTowardsDecline ==
  ASSUME RefusedMeansUnsold, TypeInv, [Next]_vars, NEW r \in Request, pc'[r] = "decline"
  PROVE  /\ asks'[r] = asks[r]
         /\ \/ pc[r] = "decline"
            \/ pc[r] = "purchase" /\ sold' = sold
            \/ StampPurchase(r)
<1> USE DEF TypeInv, TypeOK, requestVars, GoTo, At
<1>1. asks'[r] = asks[r]
  BY NextMoves DEF Spending
<1>2. ASSUME NEW q \in Request, Step(q), q # r PROVE pc'[r] = pc[r]
  BY <1>2, StepMoves
<1>3. ASSUME Step(r), ~CarrierRefuses(r), ~StampPurchase(r) PROVE FALSE
  <2>1. ~(\E o \in Offer : AskAgain(r, o))
    BY DEF AskAgain
  <2>2. CASE ListUnresolved(r) \/ StampRecovered(r) \/ Relist(r) \/ Inspect(r)
    BY <2>2 DEF ListUnresolved, StampRecovered, Relist, Inspect, Answer
  <2>3. CASE ShipRecovered(r) \/ MarkShipped(r) \/ RecordDecline(r)
    BY <2>3 DEF ShipRecovered, MarkShipped, RecordLabel, RecordDecline, Answer
  <2>4. CASE Claim(r) \/ CarrierSells(r)
    BY <2>4 DEF Claim, CarrierSells, Answer
  <2>5. CASE \E outcome \in Answers : RefuseLocally(r, outcome) \/ CarrierSilent(r, outcome)
    BY <2>5 DEF RefuseLocally, CarrierSilent, Answer
  <2>6. CASE Release(r) \/ Cleanup(r)
    BY <2>6 DEF Release, Cleanup, Finish
  <2> QED
    BY <1>3, <2>1, <2>2, <2>3, <2>4, <2>5, <2>6 DEF Step
<1>4. CASE CarrierRefuses(r)
  BY <1>4 DEF CarrierRefuses
<1>5. ASSUME NEW q \in Request, Crash(q) PROVE pc'[r] = pc[r]
  BY <1>5 DEF Crash
<1>6. ASSUME NEW q \in Request, NEW p \in Package,
             \/ NothingToBuy(q, p)
             \/ \E o \in Offer \cup {None} : TakeLock(q, p, o) \/ TurnAway(q, p, o)
      PROVE  pc'[r] = pc[r]
  BY <1>6 DEF NothingToBuy, TakeLock, TurnAway, Asks, Finish
<1> QED
  BY <1>1, <1>2, <1>3, <1>4, <1>5, <1>6
  DEF Next, vars, Quote, Expire, Purge, SwitchSandboxMode, AbandonedLockExpires, LockLapses,
      LockExpires

LEMMA StepTowardsChase ==
  ASSUME TypeInv, [Next]_vars, NEW r \in Request, pc'[r] \in Chasing
  PROVE  \/ pc[r] \in Chasing /\ todo'[r] \subseteq todo[r]
         \/ todo'[r] \cap failed' = {} /\ todo'[r] \subseteq rows'
<1> USE DEF TypeInv, TypeOK, requestVars, GoTo, At, Chasing
<1>1. ASSUME NEW q \in Request, Step(q), q # r PROVE pc'[r] = pc[r] /\ todo'[r] = todo[r]
  <2>1. todo'[r] = todo[r]
    BY <1>1
    DEF Step, ListUnresolved, AskAgain, StampRecovered, ShipRecovered, RecordLabel, Relist,
        Inspect, RefuseLocally, CarrierSilent, Claim, CarrierSells, CarrierRefuses,
        StampPurchase, RecordDecline, MarkShipped, Release, Cleanup, Forget
  <2> QED
    BY <1>1, <2>1, StepMoves
<1>2. CASE ListUnresolved(r)
  BY <1>2 DEF ListUnresolved, Awaiting, offerVars
<1>3. ASSUME StampRecovered(r) \/ \E o \in Offer : AskAgain(r, o)
      PROVE  pc[r] \in Chasing /\ todo'[r] \subseteq todo[r]
  BY <1>3 DEF StampRecovered, AskAgain
<1>4. ASSUME Step(r), ~ListUnresolved(r), ~StampRecovered(r), ~\E o \in Offer : AskAgain(r, o)
      PROVE  FALSE
  BY <1>4
  DEF Step, ShipRecovered, RecordLabel, Relist,
      Inspect, RefuseLocally, CarrierSilent, Claim, CarrierSells, CarrierRefuses, StampPurchase,
      RecordDecline, MarkShipped, Release, Finish, Cleanup, Answer
<1>5. ASSUME NEW q \in Request, Crash(q) PROVE pc'[r] = pc[r] /\ todo'[r] = todo[r]
  BY <1>5 DEF Crash, Forget
<1>6. ASSUME NEW q \in Request, NEW p \in Package,
             \/ NothingToBuy(q, p)
             \/ \E o \in Offer \cup {None} : TakeLock(q, p, o) \/ TurnAway(q, p, o)
      PROVE  pc'[r] = pc[r] /\ todo'[r] = todo[r]
  BY <1>6 DEF NothingToBuy, TakeLock, TurnAway, Asks, Finish
<1>7. ASSUME UNCHANGED <<pc, todo>> PROVE pc'[r] = pc[r] /\ todo'[r] = todo[r]
  BY <1>7
<1> QED
  BY <1>1, <1>2, <1>3, <1>4, <1>5, <1>6, <1>7
  DEF Next, vars, Quote, Expire, Purge, SwitchSandboxMode, AbandonedLockExpires, LockLapses,
      LockExpires

LEMMA PaidInvariant ==
  ASSUME ~LockMayLapse, RefusedMeansUnsold
  PROVE  Spec => []PaidInv
<1>1. Init => PaidInv
  BY DEF Init, PaidInv, PaidOfferKeepsItsEvidence, Undisputed, Chasing
<1>2. TypeInv /\ TypeInv' /\ HoldsLock /\ PaidInv /\ [Next]_vars => PaidInv'
  <2> SUFFICES ASSUME TypeInv, TypeInv', HoldsLock, PaidInv, [Next]_vars PROVE PaidInv'
    OBVIOUS
  <2> USE IdentitiesAssumption
  \* Whoever makes a carrier sell under an offer knows it to be spent and not declined.
  <2>1. ASSUME NEW o \in Offer, o \in sold', o \notin sold
        PROVE  /\ failed' = failed /\ o \in consumed \ failed
               /\ \E q \in Request :
                    /\ Concerns(q, o)
                    /\ pc[q] \in {"chase", "purchase"}
                    /\ pc[q] = "purchase" => pc'[q] \notin {"purchase", "decline"}
    <3>1. failed' = failed
      BY <2>1, SoldGrows DEF offerVars
    <3>2. PICK q \in Request :
            \/ pc[q] = "chase" /\ o \in todo[q]
            \/ pc[q] = "purchase" /\ asks[q].offer = o /\ pc'[q] \notin {"purchase", "decline"}
      BY <2>1, SoldGrows
    <3>3. o # None
      OBVIOUS
    <3>4. o \in consumed \ failed
      BY <3>2, <3>3 DEF TypeInv, Names, Spending, Chasing, PaidInv, Undisputed
    <3> QED
      BY <3>1, <3>2, <3>4 DEF Concerns, Chasing, Spending
  \* Whoever records a refusal contradicts no sale.
  <2>2. ASSUME NEW o \in Offer, o \in failed', o \notin failed
        PROVE  /\ sold' = sold /\ o \notin sold
               /\ \E q \in Request : Concerns(q, o) /\ pc[q] = "decline"
    BY <2>2, FailedGrows DEF Concerns, Spending, PaidInv, Undisputed
  <2>3. PaidOfferKeepsItsEvidence'
    BY <2>1, <2>2, Lasting DEF PaidInv, PaidOfferKeepsItsEvidence
  <2>4. ASSUME NEW r \in Request PROVE Undisputed(r)'
    <3>1. ASSUME pc'[r] \in Chasing, NEW o \in todo'[r], o \in failed' PROVE FALSE
      <4>1. pc[r] \in Chasing /\ o \in todo[r]
        BY <3>1, StepTowardsChase
      <4>2. o \in Offer /\ o \notin failed
        BY <4>1 DEF PaidInv, Undisputed, TypeInv, TypeOK
      <4>3. PICK q \in Request : Concerns(q, o) /\ pc[q] = "decline"
        BY <2>2, <3>1, <4>2
      <4>4. q = r
        BY <4>1, <4>2, <4>3, OneConcern DEF Concerns
      <4> QED
        BY <4>1, <4>3, <4>4 DEF Chasing
    <3>2. ASSUME pc'[r] = "purchase", asks'[r].offer # None
          PROVE  asks'[r].offer \notin sold' \cup failed'
      <4> DEFINE o == asks[r].offer
      <4>1. asks'[r] = asks[r] /\ (pc[r] = "purchase" \/ Claim(r))
        BY <3>2, StepTowardsPurchase
      <4>2. o \in Offer
        BY <3>2, <4>1 DEF TypeInv, TypeOK
      <4>3. CASE Claim(r)
        <5>1. o \notin consumed /\ sold' = sold /\ failed' = failed
          BY <3>2, <4>1, <4>3 DEF Claim, Spendable, Answer, GoTo, At, TypeInv, TypeOK
        <5> QED
          BY <4>1, <4>2, <5>1 DEF PaidInv, PaidOfferKeepsItsEvidence, TypeInv, TypeOK
      <4>4. CASE pc[r] = "purchase"
        <5>1. Concerns(r, o) /\ o \notin sold \cup failed
          BY <3>2, <4>1, <4>4 DEF Concerns, Spending, PaidInv, Undisputed
        <5>2. o \notin sold'
          BY <2>1, <3>2, <4>2, <4>4, <5>1, OneConcern
        <5>3. o \notin failed'
          BY <2>2, <4>2, <4>4, <5>1, OneConcern
        <5> QED
          BY <4>1, <5>2, <5>3
      <4> QED
        BY <4>1, <4>3, <4>4
    <3>3. ASSUME pc'[r] = "decline", asks'[r].offer \in sold'
          PROVE  asks'[r].offer \notin rows' \ referenced'
      <4> DEFINE o == asks[r].offer
      <4>1. asks'[r] = asks[r] /\ (pc[r] = "decline" \/ (pc[r] = "purchase" /\ sold' = sold)
                                                   \/ StampPurchase(r))
        BY <3>3, StepTowardsDecline
      <4>2. CASE o = None
        BY <4>1, <4>2 DEF TypeInv, TypeOK
      <4>3. CASE o # None
        <5>1. o \in Offer
          BY <4>3 DEF TypeInv, TypeOK
        <5>2. CASE pc[r] = "decline"
          <6>1. Concerns(r, o) /\ quotedFor[o] # None
            BY <4>3, <5>1, <5>2 DEF Concerns, Spending, TypeInv, TypeOK, Names
          <6>2. o \in sold
            BY <2>1, <3>3, <4>1, <5>1, <5>2, <6>1, OneConcern
          <6> QED
            BY <4>1, <5>2, <6>1, <6>2, Lasting DEF PaidInv, Undisputed
        <5>3. CASE pc[r] = "purchase" /\ sold' = sold
          BY <3>3, <4>1, <4>3, <5>3 DEF PaidInv, Undisputed
        <5>4. CASE StampPurchase(r)
          BY <4>1, <5>4 DEF StampPurchase, RecordPurchase
        <5> QED
          BY <4>1, <5>2, <5>3, <5>4
      <4> QED
        BY <4>2, <4>3
    <3> QED
      BY <3>1, <3>2, <3>3 DEF Undisputed
  <2> QED
    BY <2>3, <2>4 DEF PaidInv
<1> QED
  BY <1>1, <1>2, TypeInvariant, LockHeld, PTL DEF Spec

\* An offer Amazon sold a label under stays claimed and is never put down as
\* declined, as long as no lock lapses under a running request and every refusal
\* is of a purchase that was not made.
THEOREM PaidOfferIsNeverForgotten ==
  ASSUME ~LockMayLapse, RefusedMeansUnsold
  PROVE  Spec => []PaidOfferKeepsItsEvidence
<1>1. PaidInv => PaidOfferKeepsItsEvidence
  BY DEF PaidInv
<1> QED
  BY <1>1, PaidInvariant, PTL

(***************************************************************************)
(* At most one label is paid for and unaccounted for. Two such labels for  *)
(* one package were two unresolved purchases, if both offers are still on  *)
(* file. An offer leaves the file when it is settled, or with its package, *)
(* and nothing is bought for a package that is gone.                       *)
(***************************************************************************)
Kept(o) == o \in rows \/ quotedFor[o] \notin packages

\* The offers a request may yet have a label sold under.
MaySell(r, o) ==
  \/ pc[r] \in Chasing /\ o \in todo[r]
  \/ pc[r] = "purchase" /\ asks[r].offer = o

KeptInv ==
  /\ \A o \in Offer : (\E r \in Request : MaySell(r, o)) => Kept(o)
  /\ \A o \in (sold \cap Offer) \ referenced : Kept(o)

\* Only data:purge takes an offer and leaves its package.
LEMMA KeptStays ==
  ASSUME TypeInv, [Next]_vars, NEW o \in Offer, quotedFor[o] # None, Kept(o), ~Purge(o)
  PROVE  Kept(o)'
<1> USE IdentitiesAssumption DEF TypeInv, TypeOK, offerVars, Kept
<1>1. quotedFor'[o] = quotedFor[o]
  BY Lasting
<1>2. ASSUME NEW r \in Request, Cleanup(r) PROVE Kept(o)'
  BY <1>1, <1>2 DEF Cleanup
<1>3. ASSUME NEW x \in Offer, NEW p \in Package, Quote(x, p) PROVE Kept(o)'
  BY <1>1, <1>3 DEF Quote
<1>4. ASSUME NEW x \in Offer, x # o, Purge(x) PROVE Kept(o)'
  BY <1>1, <1>4 DEF Purge
<1>5. CASE UNCHANGED <<packages, rows>>
  BY <1>1, <1>5
<1> QED
  BY <1>2, <1>3, <1>4, <1>5
  DEF Next, vars, Step, ListUnresolved, AskAgain, StampRecovered, ShipRecovered, RecordLabel,
      Relist, Inspect, RefuseLocally, CarrierSilent, Claim, CarrierSells, CarrierRefuses,
      StampPurchase, RecordDecline, MarkShipped, Release, Crash, NothingToBuy, TakeLock,
      TurnAway, Expire, SwitchSandboxMode, AbandonedLockExpires, LockLapses, LockExpires

\* And data:purge takes none that anybody may yet need.
LEMMA PurgedIsSettled ==
  ASSUME TypeInv, PaidInv, NEW o \in Offer, Purge(o)
  PROVE  /\ \A r \in Request : ~MaySell(r, o)
         /\ o \notin (sold \cap Offer) \ referenced
BY IdentitiesAssumption
DEF Purge, Purgeable, MaySell, Chasing, Holding, PaidInv, PaidOfferKeepsItsEvidence, TypeInv, TypeOK

LEMMA KeptSteps ==
  ASSUME RefusedMeansUnsold, TypeInv, PaidInv, KeptInv, [Next]_vars
  PROVE  KeptInv'
<1> USE IdentitiesAssumption
<1>1. ASSUME NEW o \in Offer, NEW r \in Request, MaySell(r, o) PROVE quotedFor[o] # None
  BY <1>1 DEF MaySell, TypeInv, TypeOK, Names, Spending
<1>2. ASSUME NEW o \in Offer, NEW r \in Request, MaySell(r, o) PROVE Kept(o)'
  BY <1>1, <1>2, KeptStays, PurgedIsSettled DEF KeptInv
<1>3. ASSUME NEW o \in Offer, NEW r \in Request, MaySell(r, o)' PROVE Kept(o)'
  <2>1. CASE MaySell(r, o)
    BY <1>2, <2>1
  <2>2. CASE ~MaySell(r, o) /\ pc'[r] \in Chasing /\ o \in todo'[r]
    <3>1. o \in rows'
      BY <2>2, StepTowardsChase DEF MaySell
    <3> QED
      BY <3>1 DEF Kept
  <2>3. CASE ~MaySell(r, o) /\ pc'[r] = "purchase" /\ asks'[r].offer = o
    <3>1. Claim(r) /\ asks[r].offer = o
      BY <2>3, StepTowardsPurchase DEF MaySell
    <3>2. o \in rows /\ rows' = rows
      BY <2>3, <3>1 DEF Claim, Spendable, Open, Answer, GoTo, At, TypeInv, TypeOK
    <3> QED
      BY <3>2 DEF Kept
  <2> QED
    BY <1>3, <2>1, <2>2, <2>3 DEF MaySell
<1>4. ASSUME NEW o \in Offer, o \in sold', o \notin referenced' PROVE Kept(o)'
  <2>1. o \notin referenced
    BY <1>4, Lasting
  <2>2. CASE o \in sold
    <3>1. quotedFor[o] # None /\ Kept(o)
      BY <2>1, <2>2 DEF PaidInv, PaidOfferKeepsItsEvidence, KeptInv, TypeInv, TypeOK
    <3> QED
      BY <2>1, <2>2, <3>1, KeptStays, PurgedIsSettled
  <2>3. CASE o \notin sold
    <3>1. \E r \in Request : MaySell(r, o)
      BY <1>4, <2>3, SoldGrows DEF MaySell, Chasing
    <3> QED
      BY <1>2, <3>1
  <2> QED
    BY <2>2, <2>3
<1> QED
  BY <1>3, <1>4 DEF KeptInv

\* Of the labels Amazon sold for a package, PolyBag has lost track of one at
\* most, whatever crashed, timed out or was cleaned up, as long as no lock lapses
\* under a running request and every refusal is of a purchase that was not made.
THEOREM UnaccountedIsOne ==
  ASSUME ~LockMayLapse, RefusedMeansUnsold
  PROVE  Spec => []OneUnaccountedLabel
<1>1. Init => KeptInv /\ OneUnaccountedLabel
  BY DEF Init, KeptInv, MaySell, Chasing, OneUnaccountedLabel
<1>2. TypeInv /\ PaidInv /\ KeptInv /\ [Next]_vars => KeptInv'
  BY KeptSteps
<1>3. /\ TypeInv /\ PaidInv /\ PaidInv' /\ KeptInv /\ OneUnresolvedPurchase /\ OneUnaccountedLabel
      /\ [Next]_vars
      => OneUnaccountedLabel'
  <2> SUFFICES ASSUME TypeInv, PaidInv, PaidInv', KeptInv, OneUnresolvedPurchase,
                      OneUnaccountedLabel, [Next]_vars,
                      NEW o1 \in (sold' \cap Offer) \ referenced',
                      NEW o2 \in (sold' \cap Offer) \ referenced',
                      quotedFor'[o1] = quotedFor'[o2]
               PROVE  o1 = o2
    BY DEF OneUnaccountedLabel
  <2> USE IdentitiesAssumption
  <2>1. o1 \notin referenced /\ o2 \notin referenced
    BY Lasting
  <2>2. CASE o1 \in sold /\ o2 \in sold
    <3>1. quotedFor'[o1] = quotedFor[o1] /\ quotedFor'[o2] = quotedFor[o2]
      BY <2>2, Lasting DEF PaidInv, PaidOfferKeepsItsEvidence, TypeInv, TypeOK
    <3> QED
      BY <2>1, <2>2, <3>1 DEF OneUnaccountedLabel
  \* A label is sold while another is unaccounted for: both offers are on file,
  \* and unresolved.
  <2>3. CASE ~(o1 \in sold /\ o2 \in sold)
    <3>1. UNCHANGED <<packages, offerVars>> /\ quotedFor[o1] \in packages
      BY <2>3, SoldGrows DEF offerVars
    <3>2. ASSUME NEW o \in {o1, o2} PROVE Kept(o)
      <4>1. CASE o \in sold
        BY <2>1, <4>1 DEF KeptInv
      <4>2. CASE o \notin sold
        BY <4>2, SoldGrows DEF KeptInv, MaySell, Chasing
      <4> QED
        BY <4>1, <4>2
    <3>3. quotedFor[o1] = quotedFor[o2] /\ quotedFor[o1] \in Package
      BY <3>1 DEF offerVars, TypeInv, TypeOK
    <3>4. o1 \in rows /\ o2 \in rows
      BY <3>1, <3>2, <3>3 DEF Kept
    <3>5. o1 \in consumed \ failed /\ o2 \in consumed \ failed
      BY <3>1 DEF offerVars, PaidInv, PaidOfferKeepsItsEvidence
    <3>6. o1 \in Awaiting(quotedFor[o1]) /\ o2 \in Awaiting(quotedFor[o1])
      BY <2>1, <3>3, <3>4, <3>5 DEF Awaiting
    <3> QED
      BY <3>3, <3>6 DEF OneUnresolvedPurchase
  <2> QED
    BY <2>2, <2>3
<1> QED
  BY <1>1, <1>2, <1>3, TypeInvariant, PaidInvariant, UnresolvedOneAtATime, PTL DEF Spec

-----------------------------------------------------------------------------
(* Steps that take nothing back.                                           *)

LEMMA LabelStays ==
  ASSUME TypeInv, [Next]_vars, NEW p \in Package, label[p] # None
  PROVE  /\ label'[p] = label[p]
         /\ packages' = packages \/ \E r \in Unattended : Cleanup(r)
<1> USE DEF TypeInv, TypeOK
<1>1. ASSUME NEW r \in Request, NEW l, RecordLabel(r, l)
      PROVE  packages' = packages /\ label'[p] = label[p]
  BY <1>1 DEF RecordLabel, Shippable
<1>2. ASSUME NEW r \in Request, Cleanup(r)
      PROVE  label' = label /\ (packages' = packages \/ r \in Unattended)
  BY <1>2 DEF Cleanup
<1> QED
  BY <1>1, <1>2
  DEF Next, vars, Step, ListUnresolved, AskAgain, StampRecovered, ShipRecovered, Relist, Inspect,
      RefuseLocally, CarrierSilent, Claim, CarrierSells, CarrierRefuses, StampPurchase,
      RecordDecline, MarkShipped, Release, Crash, NothingToBuy, TakeLock, TurnAway, Quote,
      Expire, Purge, SwitchSandboxMode, AbandonedLockExpires, LockLapses, LockExpires

\* Whoever races, with locks that lapse and jobs that clean up: the label
\* recorded on a package is never replaced, for markShipped() asks for none.
THEOREM RecordedLabelIsNeverReplaced ==
  Spec => [][\A p \in Package : label[p] # None => label'[p] = label[p]]_vars
<1>1. TypeInv /\ [Next]_vars =>
        [\A p \in Package : label[p] # None => label'[p] = label[p]]_vars
  BY LabelStays
<1> QED
  BY <1>1, TypeInvariant, PTL DEF Spec

\* Where no caller cleans up, the label recorded on a package is neither
\* replaced nor deleted: a racing markShipped() changes nothing.
THEOREM RecordedLabelStays ==
  ASSUME Unattended = {}
  PROVE  Spec => RecordedLabelIsFinal
<1>1. TypeInv /\ [Next]_vars =>
        [\A p \in packages : label[p] # None => p \in packages' /\ label'[p] = label[p]]_vars
  BY LabelStays DEF TypeInv, TypeOK
<1> QED
  BY <1>1, TypeInvariant, PTL DEF Spec, RecordedLabelIsFinal

-----------------------------------------------------------------------------
(* The offer store implements OfferLifecycle.                              *)

\* The manual page deletes packages that cannot have offers.
CleansUpUnsourced ==
  \A r \in mayDelete : pc[r] # "idle" /\ asks[r].package \notin Sourced

LEMMA ManualCleanup ==
  ASSUME Job = {}
  PROVE  Spec => []CleansUpUnsourced
<1>1. Init => CleansUpUnsourced
  BY DEF Init, CleansUpUnsourced
<1>2. TypeInv /\ TypeInv' /\ CleansUpUnsourced /\ [Next]_vars => CleansUpUnsourced'
  <2> SUFFICES ASSUME TypeInv, TypeInv', CleansUpUnsourced, [Next]_vars, NEW r \in mayDelete'
               PROVE  pc'[r] # "idle" /\ asks'[r].package \notin Sourced
    BY DEF CleansUpUnsourced
  <2>1. r \in Request /\ r \in Manual
    BY IdentitiesAssumption DEF TypeInv, TypeOK, Unattended
  <2>2. CASE r \in mayDelete
    BY <2>1, <2>2, Lasting DEF CleansUpUnsourced
  <2>3. CASE r \notin mayDelete
    <3> USE DEF TypeInv, TypeOK, GoTo, Finish, Asks, At, Deletable
    <3>1. PICK q \in Request, p \in Package :
            \/ NothingToBuy(q, p)
            \/ \E o \in Offer \cup {None} : TakeLock(q, p, o) \/ TurnAway(q, p, o)
      BY <2>3 DEF Next, vars, requestVars, Step, ListUnresolved, AskAgain, StampRecovered,
         ShipRecovered, RecordLabel, Relist, Inspect, RefuseLocally, CarrierSilent, Claim,
         CarrierSells, CarrierRefuses, StampPurchase, RecordDecline, MarkShipped, Release,
         Cleanup, Crash, Quote, Expire, Purge, SwitchSandboxMode, AbandonedLockExpires,
         LockLapses, LockExpires, Answer, Reply
    <3>2. q = r
      BY <2>3, <3>1 DEF NothingToBuy, TakeLock, TurnAway
    <3> QED
      BY <2>1, <3>1, <3>2 DEF NothingToBuy, TakeLock, TurnAway
  <2> QED
    BY <2>2, <2>3
<1> QED
  BY <1>1, <1>2, TypeInvariant, PTL DEF Spec

\* All a step can do to the columns that OfferState reads.
columns == <<rows, quotedFor, consumed, referenced, failed>>

LEMMA ColumnSteps ==
  ASSUME Job = {}, TypeInv, CleansUpUnsourced, [Next]_vars
  PROVE  \/ UNCHANGED columns
         \/ \E o \in Offer, p \in Package : Quote(o, p)
         \/ \E o \in Offer : /\ o \in rows \ consumed
                            /\ Redeem(o)
                            /\ UNCHANGED <<rows, quotedFor, referenced, failed>>
         \/ \E o \in consumed : /\ RecordFailure(o)
                               /\ UNCHANGED <<rows, quotedFor, consumed, referenced>>
         \/ \E o \in consumed : /\ RecordPurchase(o)
                               /\ UNCHANGED <<rows, quotedFor, consumed, failed>>
         \/ /\ rows' \subseteq rows
            /\ \A o \in rows \ rows' : Purgeable(o)
            /\ UNCHANGED <<quotedFor, consumed, referenced, failed>>
<1> USE IdentitiesAssumption DEF TypeInv, TypeOK, columns, offerVars, At
<1>1. ASSUME NEW r \in Request, Claim(r)
      PROVE  \/ UNCHANGED columns
             \/ \E o \in Offer : /\ o \in rows \ consumed
                                /\ Redeem(o)
                                /\ UNCHANGED <<rows, quotedFor, referenced, failed>>
  <2>1. CASE asks[r].offer \in Offer /\ Spendable(asks[r].offer, asks[r].package)
    BY <1>1, <2>1 DEF Claim, Spendable, Open
  <2>2. CASE ~(asks[r].offer \in Offer /\ Spendable(asks[r].offer, asks[r].package))
    <3>1. consumed' = consumed
      <4>1. CASE asks[r].offer = None
        BY ONLY <1>1, <4>1 DEF Claim, Redeem
      <4>2. CASE asks[r].offer # None
        <5>1. asks[r].offer \in Offer
          BY <4>2
        <5>2. ~Spendable(asks[r].offer, asks[r].package)
          BY <2>2, <5>1
        <5> QED
          BY ONLY <1>1, <4>2, <5>2 DEF Claim
      <4> QED
        BY ONLY <4>1, <4>2
    <3>2. UNCHANGED <<rows, quotedFor, referenced, failed>>
      BY ONLY <1>1 DEF Claim
    <3> QED
      BY ONLY <3>1, <3>2 DEF columns
  <2> QED
    BY <2>1, <2>2
<1>2. ASSUME NEW r \in Request, RecordDecline(r)
      PROVE  \/ UNCHANGED columns
             \/ \E o \in consumed : /\ RecordFailure(o)
                                   /\ UNCHANGED <<rows, quotedFor, consumed, referenced>>
  <2>1. CASE asks[r].offer = None
    BY <1>2, <2>1 DEF RecordDecline, RecordFailure
  <2>2. CASE asks[r].offer # None
    BY <1>2, <2>2 DEF RecordDecline, Names, Spending
  <2> QED
    BY <2>1, <2>2
<1>3. ASSUME NEW r \in Request,
             StampRecovered(r) \/ ShipRecovered(r) \/ StampPurchase(r) \/ MarkShipped(r)
      PROVE  \/ UNCHANGED columns
             \/ \E o \in consumed : /\ RecordPurchase(o)
                                   /\ UNCHANGED <<rows, quotedFor, consumed, failed>>
  <2>1. CASE StampRecovered(r) \/ ShipRecovered(r)
    BY <2>1 DEF StampRecovered, ShipRecovered, RecordLabel, Names
  <2>2. CASE StampPurchase(r) \/ MarkShipped(r)
    <3>1. CASE asks[r].offer = None
      <4>1. asks[r].offer \notin rows /\ Bound(r) \notin rows
        BY <3>1 DEF Bound
      <4>2. RecordPurchase(asks[r].offer) \/ RecordPurchase(Bound(r))
        BY <2>2 DEF StampPurchase, MarkShipped, RecordLabel
      <4>3. referenced' = referenced
        <5>1. ASSUME NEW x, x \notin rows, RecordPurchase(x) PROVE referenced' = referenced
          BY <5>1 DEF RecordPurchase
        <5> QED
          BY <4>1, <4>2, <5>1
      <4> QED
        BY <2>2, <4>3 DEF StampPurchase, MarkShipped, RecordLabel
    <3>2. CASE asks[r].offer # None
      BY <2>2, <3>2 DEF StampPurchase, MarkShipped, RecordLabel, Bound, Names, Spending
    <3> QED
      BY <3>1, <3>2
  <2> QED
    BY <1>3, <2>1, <2>2
<1>4. ASSUME NEW r \in Request, Cleanup(r) PROVE UNCHANGED columns
  <2>1. CASE r \in mayDelete
    <3>1. \A o \in rows : quotedFor[o] # asks[r].package
      BY <2>1 DEF CleansUpUnsourced
    <3>2. rows' = {o \in rows : quotedFor[o] # asks[r].package}
      BY <1>4, <2>1 DEF Cleanup
    <3>3. rows' = rows
      BY <3>1, <3>2
    <3> QED
      BY <1>4, <3>3 DEF Cleanup
  <2>2. CASE r \notin mayDelete
    BY <1>4, <2>2 DEF Cleanup
  <2> QED
    BY <2>1, <2>2
<1>5. ASSUME NEW o \in Offer, Purge(o)
      PROVE  /\ rows' \subseteq rows
             /\ \A x \in rows \ rows' : Purgeable(x)
             /\ UNCHANGED <<quotedFor, consumed, referenced, failed>>
  BY <1>5 DEF Purge
<1> QED
  BY <1>1, <1>2, <1>3, <1>4, <1>5
  DEF Next, vars, Step, ListUnresolved, AskAgain, Relist, Inspect, RefuseLocally, CarrierSilent,
      CarrierSells, CarrierRefuses, Release, Crash, NothingToBuy, TakeLock, TurnAway, Expire,
      SwitchSandboxMode, AbandonedLockExpires, LockLapses, LockExpires

\* Where no label job cleans up, the offers live the life OfferLifecycle lays
\* down: every step of the purchase workflow and of data:purge is one of its
\* steps, or changes nothing it can see.
THEOREM OffersImplementLifecycle ==
  ASSUME Job = {}
  PROVE  Spec => OffersLiveTheirLife
<1>1. Init => Lifecycle!Init
  BY IdentitiesAssumption DEF Init, Lifecycle!Init, OfferState, StateOf
<1>2. TypeInv /\ TypeInv' /\ CleansUpUnsourced /\ [Next]_vars => [Lifecycle!Next]_OfferState
  <2> SUFFICES ASSUME TypeInv, TypeInv', CleansUpUnsourced, [Next]_vars
               PROVE  Lifecycle!Next \/ UNCHANGED OfferState
    OBVIOUS
  <2> USE IdentitiesAssumption DEF TypeInv, TypeOK
  <2>1. CASE UNCHANGED columns
    BY <2>1 DEF columns, OfferState, StateOf
  <2>2. ASSUME NEW o \in Offer, NEW p \in Package, Quote(o, p) PROVE Lifecycle!Quote(o)
    <3>1. OfferState[o] = "unquoted"
      BY <2>2 DEF Quote, OfferState, StateOf
    <3>2. \A x \in Offer : StateOf(x)' = IF x = o THEN "open" ELSE StateOf(x)
      <4>1. quotedFor' = [quotedFor EXCEPT ![o] = p] /\ rows' = rows \cup {o} /\ o \notin consumed
        BY <2>2 DEF Quote
      <4>2. UNCHANGED <<consumed, referenced, failed>>
        BY <2>2 DEF Quote
      <4>3. StateOf(o)' = "open"
        BY <4>1, <4>2 DEF StateOf
      <4>4. ASSUME NEW x \in Offer, x # o PROVE StateOf(x)' = StateOf(x)
        BY <4>1, <4>2, <4>4 DEF StateOf
      <4> QED
        BY <4>3, <4>4
    <3>3. OfferState' = [OfferState EXCEPT ![o] = "open"]
      BY <3>2 DEF OfferState
    <3> QED
      BY <3>1, <3>3 DEF Lifecycle!Quote, Lifecycle!Advance
  <2>3. ASSUME NEW o \in Offer, o \in rows \ consumed, Redeem(o),
               UNCHANGED <<rows, quotedFor, referenced, failed>>
        PROVE  Lifecycle!Spend(o)
    <3>1. OfferState[o] = "open"
      BY <2>3 DEF OfferState, StateOf
    <3>2. \A x \in Offer : StateOf(x)' = IF x = o THEN "spent" ELSE StateOf(x)
      BY <2>3 DEF Redeem, StateOf
    <3>3. OfferState' = [OfferState EXCEPT ![o] = "spent"]
      BY <3>2 DEF OfferState
    <3> QED
      BY <3>1, <3>3 DEF Lifecycle!Spend, Lifecycle!Advance
  <2>4. ASSUME NEW o \in consumed, RecordFailure(o),
               UNCHANGED <<rows, quotedFor, consumed, referenced>>
        PROVE  Lifecycle!Decline(o) \/ UNCHANGED OfferState
    <3>1. CASE o \in rows \ (referenced \cup failed)
      <4>1. OfferState[o] = "spent"
        BY <3>1 DEF OfferState, StateOf
      <4>2. \A x \in Offer : StateOf(x)' = IF x = o THEN "declined" ELSE StateOf(x)
        BY <2>4, <3>1 DEF RecordFailure, StateOf
      <4>3. OfferState' = [OfferState EXCEPT ![o] = "declined"]
        BY <4>2 DEF OfferState
      <4> QED
        BY <4>1, <4>3 DEF Lifecycle!Decline, Lifecycle!Advance
    <3>2. CASE o \notin rows \ (referenced \cup failed)
      <4>1. failed' = failed
        BY <2>4, <3>2 DEF RecordFailure
      <4> QED
        BY <2>4, <4>1 DEF OfferState, StateOf
    <3> QED
      BY <3>1, <3>2
  <2>5. ASSUME NEW o \in consumed, RecordPurchase(o),
               UNCHANGED <<rows, quotedFor, consumed, failed>>
        PROVE  Lifecycle!Confirm(o) \/ UNCHANGED OfferState
    <3>1. CASE o \in rows \ referenced
      <4>1. OfferState[o] \in {"spent", "declined"}
        BY <3>1 DEF OfferState, StateOf
      <4>2. \A x \in Offer : StateOf(x)' = IF x = o THEN "bought" ELSE StateOf(x)
        BY <2>5, <3>1 DEF RecordPurchase, StateOf
      <4>3. OfferState' = [OfferState EXCEPT ![o] = "bought"]
        BY <4>2 DEF OfferState
      <4> QED
        BY <4>1, <4>3 DEF Lifecycle!Confirm, Lifecycle!Advance
    <3>2. CASE o \notin rows \ referenced
      <4>1. referenced' = referenced
        BY <2>5, <3>2 DEF RecordPurchase
      <4> QED
        BY <2>5, <4>1 DEF OfferState, StateOf
    <3> QED
      BY <3>1, <3>2
  <2>6. ASSUME rows' \subseteq rows, \A o \in rows \ rows' : Purgeable(o),
               UNCHANGED <<quotedFor, consumed, referenced, failed>>
        PROVE  Lifecycle!Discard(rows \ rows')
    <3>1. \A o \in rows \ rows' : OfferState[o] \in {"open", "bought", "declined"}
      BY <2>6 DEF OfferState, StateOf, Purgeable
    <3>2. OfferState' =
            [o \in Offer |-> IF o \in rows \ rows' THEN "discarded" ELSE OfferState[o]]
      BY <2>6 DEF OfferState, StateOf
    <3> QED
      BY <3>1, <3>2 DEF Lifecycle!Discard
  <2>7. rows \ rows' \in SUBSET Offer /\ consumed \subseteq Offer
    OBVIOUS
  <2> QED
    BY <2>1, <2>2, <2>3, <2>4, <2>5, <2>6, <2>7, ColumnSteps DEF Lifecycle!Next
<1> QED
  BY <1>1, <1>2, TypeInvariant, ManualCleanup, PTL DEF Spec, OffersLiveTheirLife, Lifecycle!Spec
=============================================================================
