----------------------- MODULE ShopifyPurchase_proofs -----------------------
(***************************************************************************)
(* Proofs, for every value of the constants, of the invariants that the    *)
(* run of ShopifyPurchase checks on a small instance.                      *)
(***************************************************************************)
EXTENDS ShopifyPurchase, TLAPS

(***************************************************************************)
(* Types. A request that runs has a package, and one that has bought or    *)
(* resumed something knows what; the synchroniser that un-ships a package  *)
(* has found a label on it.                                                *)
(***************************************************************************)
WithPurchase == {"note", "poll", "forget", "keep", "fetch", "merge", "ship"}

Situated(c) ==
  /\ c.pc # "idle" => c.package \in Package
  /\ c.pc \in WithPurchase => c.purchase \in Purchase

Found(v) == v.pc \in {"strip", "clear"} => v.at \in Package /\ v.list[v.at] \in Purchase

Types ==
  /\ label \in [Package -> Marker]
  /\ resultId \in [Package -> Marker]
  /\ labelId \in [Package -> Marker]
  /\ lock \in [Package -> Holder]
  /\ orderLock \in Holder
  /\ shop \in [Purchase -> Fates]
  /\ noted \subseteq Purchase
  /\ call \in [Request -> Call]
  /\ visit \in [Sync -> Visit]
  /\ voids \in 0..MaxVoids /\ mishaps \in 0..MaxMishaps
  /\ lapses \in 0..mishaps /\ cutShort \in 0..mishaps

TypeInv ==
  /\ Types
  /\ \A r \in Request : Situated(call[r])
  /\ \A s \in Sync : Found(visit[s])

\* One request changes, and the others stay what they are.
Only(r) ==
  /\ call' \in [Request -> Call]
  /\ \A q \in Request : q # r => call'[q] = call[q]
  /\ \A q \in Request : Situated(call'[q])

LEMMA OneRequestChanges ==
  ASSUME TypeInv, NEW r \in Request, NEW c \in Call, Situated(c), Become(r, c)
  PROVE  Only(r) /\ call'[r] = c
  BY DEF TypeInv, Types, Become, Only

LEMMA IdleCall == Idle \in Call /\ Situated(Idle) /\ Idle.pc = "idle"
  BY DEF Idle, Call, Steps, Marker, Situated, WithPurchase

LEMMA Rests ==
  ASSUME TypeInv, NEW r \in Request, Become(r, Idle)
  PROVE  Only(r) /\ call'[r].pc = "idle"
  BY OneRequestChanges, IdleCall

\* A request that only moves on.
Same(r, step) ==
  /\ call'[r].pc = step
  /\ call'[r].package = call[r].package
  /\ call'[r].resultId = call[r].resultId
  /\ call'[r].labelId = call[r].labelId
  /\ call'[r].purchase = call[r].purchase

LEMMA MovesOn ==
  ASSUME TypeInv, NEW r \in Request, NEW step \in Steps, GoTo(r, step), ~At(r, "idle"),
         step \in WithPurchase => call[r].purchase \in Purchase
  PROVE  Only(r) /\ Same(r, step)
<1> DEFINE c == [call[r] EXCEPT !.pc = step]
<1>1. call[r] \in Call
  BY DEF TypeInv, Types
<1>2. /\ c \in Call /\ c.pc = step /\ c.package = call[r].package
      /\ c.resultId = call[r].resultId /\ c.labelId = call[r].labelId
      /\ c.purchase = call[r].purchase
  BY <1>1 DEF Call
<1>3. Situated(c)
  BY <1>2 DEF Situated, TypeInv, At
<1>4. Become(r, c)
  BY DEF GoTo
<1> HIDE DEF c
<1> QED
  BY <1>2, <1>3, <1>4, OneRequestChanges DEF Same

\* A request that starts.
LEMMA Begins ==
  ASSUME TypeInv, NEW r \in Request, NEW p \in Package, Begin(r, p)
  PROVE  Only(r) /\ call'[r].pc = "order" /\ call'[r].package = p
                 /\ call'[r].resultId = None /\ call'[r].labelId = None
                 /\ call'[r].purchase = None
<1> DEFINE c == [Idle EXCEPT !.pc = "order", !.package = p]
<1>1. /\ c \in Call /\ c.pc = "order" /\ c.package = p
      /\ c.resultId = None /\ c.labelId = None /\ c.purchase = None
  BY DEF Idle, Call, Steps, Marker
<1>2. Situated(c)
  BY <1>1 DEF Situated, WithPurchase
<1>3. Become(r, c)
  BY DEF Begin
<1> HIDE DEF c
<1> QED
  BY <1>1, <1>2, <1>3, OneRequestChanges

\* What the loaded copy and its markers lead to.
LEMMA Loads ==
  ASSUME TypeInv, NEW r \in Request, Load(r)
  PROVE  LET p == call[r].package IN
         /\ Only(r)
         /\ call'[r].package = p
         /\ call'[r].resultId = resultId[p] /\ call'[r].labelId = labelId[p]
         /\ \/ /\ labelId[p] # None
               /\ call'[r].pc = "fetch" /\ call'[r].purchase = labelId[p]
            \/ /\ labelId[p] = None /\ resultId[p] # None
               /\ call'[r].pc = "poll" /\ call'[r].purchase = resultId[p]
            \/ /\ labelId[p] = None /\ resultId[p] = None
               /\ call'[r].pc = "buy" /\ call'[r].purchase = call[r].purchase
<1> DEFINE p == call[r].package
           c == [call[r] EXCEPT !.resultId = resultId[p], !.labelId = labelId[p]]
           f == [c EXCEPT !.pc = "fetch", !.purchase = labelId[p]]
           g == [c EXCEPT !.pc = "poll", !.purchase = resultId[p]]
           h == [c EXCEPT !.pc = "buy"]
<1>1. call[r] \in Call /\ p \in Package /\ resultId[p] \in Marker /\ labelId[p] \in Marker
  BY DEF TypeInv, Types, Load, At, Situated
<1>2. /\ c \in Call /\ c.package = p /\ c.resultId = resultId[p] /\ c.labelId = labelId[p]
      /\ c.purchase = call[r].purchase
  BY <1>1 DEF Call
<1>3. CASE labelId[p] # None
  <2>1. f \in Call /\ f.pc = "fetch" /\ f.package = p /\ f.purchase = labelId[p]
        /\ f.resultId = resultId[p] /\ f.labelId = labelId[p]
    BY <1>1, <1>2 DEF Call, Steps
  <2>2. Situated(f) /\ Become(r, f)
    BY <1>1, <1>3, <2>1 DEF Situated, Load, Marker
  <2> HIDE DEF f
  <2> QED
    BY <1>3, <2>1, <2>2, OneRequestChanges
<1>4. CASE labelId[p] = None /\ resultId[p] # None
  <2>1. g \in Call /\ g.pc = "poll" /\ g.package = p /\ g.purchase = resultId[p]
        /\ g.resultId = resultId[p] /\ g.labelId = labelId[p]
    BY <1>1, <1>2 DEF Call, Steps
  <2>2. Situated(g) /\ Become(r, g)
    BY <1>1, <1>4, <2>1 DEF Situated, Load, Marker
  <2> HIDE DEF g
  <2> QED
    BY <1>4, <2>1, <2>2, OneRequestChanges
<1>5. CASE labelId[p] = None /\ resultId[p] = None
  <2>1. h \in Call /\ h.pc = "buy" /\ h.package = p /\ h.purchase = call[r].purchase
        /\ h.resultId = resultId[p] /\ h.labelId = labelId[p]
    BY <1>1, <1>2 DEF Call, Steps
  <2>2. Situated(h) /\ Become(r, h)
    BY <1>1, <1>5, <2>1 DEF Situated, Load, WithPurchase
  <2> HIDE DEF h
  <2> QED
    BY <1>5, <2>1, <2>2, OneRequestChanges
<1> QED
  BY <1>3, <1>4, <1>5

LEMMA Buys ==
  ASSUME TypeInv, NEW r \in Request, NEW x \in Purchase, Buy(r, x)
  PROVE  /\ Only(r)
         /\ \/ /\ call'[r].pc = "note" /\ call'[r].purchase = x
               /\ call'[r].package = call[r].package
               /\ call'[r].resultId = call[r].resultId
               /\ call'[r].labelId = call[r].labelId
            \/ Same(r, "release")
<1> DEFINE c == [call[r] EXCEPT !.pc = "note", !.purchase = x]
<1>1. call[r] \in Call /\ call[r].package \in Package
  BY DEF TypeInv, Types, Buy, At, Situated
<1>2. /\ c \in Call /\ c.pc = "note" /\ c.purchase = x /\ c.package = call[r].package
      /\ c.resultId = call[r].resultId /\ c.labelId = call[r].labelId
  BY <1>1 DEF Call, Steps, Marker
<1>3. Situated(c)
  BY <1>1, <1>2 DEF Situated
<1>4. CASE Become(r, c)
  <2> HIDE DEF c
  <2> QED
    BY <1>2, <1>3, <1>4, OneRequestChanges
<1>5. CASE GoTo(r, "release")
  BY <1>5, MovesOn DEF Buy, At, Steps, WithPurchase
<1> QED
  BY <1>4, <1>5 DEF Buy

LEMMA Notes ==
  ASSUME TypeInv, NEW r \in Request, Note(r)
  PROVE  /\ Only(r)
         /\ call'[r].pc = "poll" /\ call'[r].purchase = call[r].purchase
         /\ call'[r].package = call[r].package
         /\ call'[r].resultId = call[r].purchase
         /\ call'[r].labelId = call[r].labelId
<1> DEFINE c == [call[r] EXCEPT !.pc = "poll", !.resultId = call[r].purchase]
<1>1. call[r] \in Call /\ call[r].package \in Package /\ call[r].purchase \in Purchase
  BY DEF TypeInv, Types, Note, At, Situated, WithPurchase
<1>2. /\ c \in Call /\ c.pc = "poll" /\ c.purchase = call[r].purchase
      /\ c.package = call[r].package
      /\ c.resultId = call[r].purchase /\ c.labelId = call[r].labelId
  BY <1>1 DEF Call, Steps, Marker
<1>3. Situated(c) /\ Become(r, c)
  BY <1>1, <1>2 DEF Situated, Note
<1> HIDE DEF c
<1> QED
  BY <1>2, <1>3, OneRequestChanges

\* The stored metadata are read once more before the package is shipped.
LEMMA Merges ==
  ASSUME TypeInv, NEW r \in Request, Merge(r)
  PROVE  /\ Only(r)
         /\ call'[r].pc = "ship" /\ call'[r].purchase = call[r].purchase
         /\ call'[r].package = call[r].package
         /\ call'[r].resultId = resultId[call[r].package]
         /\ call'[r].labelId = call[r].labelId
<1> DEFINE p == call[r].package
           c == [call[r] EXCEPT !.pc = "ship", !.resultId = resultId[p]]
<1>1. call[r] \in Call /\ p \in Package /\ call[r].purchase \in Purchase
      /\ resultId[p] \in Marker
  BY DEF TypeInv, Types, Merge, At, Situated, WithPurchase
<1>2. /\ c \in Call /\ c.pc = "ship" /\ c.purchase = call[r].purchase
      /\ c.package = p /\ c.resultId = resultId[p] /\ c.labelId = call[r].labelId
  BY <1>1 DEF Call, Steps
<1>3. Situated(c) /\ Become(r, c)
  BY <1>1, <1>2 DEF Situated, Merge
<1> HIDE DEF c
<1> QED
  BY <1>2, <1>3, OneRequestChanges

\* One run of the synchroniser changes.
OnlyVisit(s) ==
  /\ visit' \in [Sync -> Visit]
  /\ \A t \in Sync : t # s => visit'[t] = visit[t]
  /\ \A t \in Sync : Found(visit'[t])

LEMMA OneVisitChanges ==
  ASSUME TypeInv, NEW s \in Sync, NEW v \in Visit, Found(v),
         visit' = [visit EXCEPT ![s] = v]
  PROVE  OnlyVisit(s) /\ visit'[s] = v
  BY DEF TypeInv, Types, OnlyVisit

LEMMA NoVisitIsIdle ==
  /\ NoVisit \in Visit /\ Found(NoVisit) /\ NoVisit.pc = "idle"
  /\ \A p \in Package : NoVisit.list[p] = None
  BY DEF NoVisit, Visit, Marker, Found

LEMMA Proceeds ==
  ASSUME TypeInv, NEW s \in Sync, NEW p \in Package, Proceed(s, p)
  PROVE  /\ OnlyVisit(s)
         /\ visit'[s].pc \in {"idle", "ask"}
         /\ \A q \in Package : visit'[s].list[q] = IF q = p THEN None ELSE visit[s].list[q]
<1> DEFINE rest == Without(visit[s].list, p)
           v == [visit[s] EXCEPT !.pc = "ask", !.list = rest, !.marked = @ \ {p}, !.at = None]
<1>1. visit[s] \in Visit
  BY DEF TypeInv, Types
<1>2. visit[s].list \in [Package -> Marker]
  BY <1>1 DEF Visit
<1>3. /\ rest \in [Package -> Marker]
      /\ \A q \in Package : rest[q] = IF q = p THEN None ELSE visit[s].list[q]
  BY <1>2 DEF Without, Marker
<1>4. v \in Visit /\ v.pc = "ask" /\ v.list = rest
  <2> HIDE DEF rest
  <2> QED
    BY <1>1, <1>3 DEF Visit
<1>5. Found(v)
  BY <1>4 DEF Found
<1>6. CASE \A q \in Package : rest[q] = None
  <2>1. visit' = [visit EXCEPT ![s] = NoVisit]
    BY <1>6 DEF Proceed
  <2> QED
    BY <1>3, <1>6, <2>1, NoVisitIsIdle, OneVisitChanges
<1>7. CASE ~\A q \in Package : rest[q] = None
  <2>1. visit' = [visit EXCEPT ![s] = v]
    BY <1>7 DEF Proceed
  <2> HIDE DEF v, rest
  <2> QED
    BY <1>3, <1>4, <1>5, <2>1, OneVisitChanges
<1> QED
  BY <1>6, <1>7

LEMMA Lists ==
  ASSUME TypeInv, NEW s \in Sync, List(s)
  PROVE  /\ OnlyVisit(s)
         /\ visit'[s].pc = "ask"
         /\ \A q \in Package : visit'[s].list[q] = label[q]
<1> DEFINE l == [p \in Package |-> IF Live(p) THEN label[p] ELSE None]
           m == {p \in Package : Live(p) /\ HasMarker(p)}
           v == [pc |-> "ask", list |-> l, marked |-> m, at |-> None]
<1>1. l \in [Package -> Marker] /\ \A q \in Package : l[q] = label[q]
  BY DEF TypeInv, Types, Marker, Live
<1> HIDE DEF l
<1>2. v \in Visit /\ Found(v) /\ v.pc = "ask" /\ v.list = l
  BY <1>1 DEF Visit, Found
<1>3. visit' = [visit EXCEPT ![s] = v]
  BY DEF List, l
<1> HIDE DEF v
<1> QED
  BY <1>1, <1>2, <1>3, OneVisitChanges

\* The synchroniser has its answer, or has made the first of its writes.
LEMMA Asks ==
  ASSUME TypeInv, NEW s \in Sync, NEW p \in Package, Ask(s, p),
         shop[visit[s].list[p]] = "voided"
  PROVE  OnlyVisit(s) /\ visit'[s].pc = "strip" /\ visit'[s].at = p
                      /\ visit'[s].list = visit[s].list
<1> DEFINE v == [visit[s] EXCEPT !.pc = "strip", !.at = p]
<1>1. visit[s] \in Visit /\ visit[s].list[p] \in Purchase
  BY DEF TypeInv, Types, Ask, Visit, Marker
<1>2. v \in Visit /\ v.pc = "strip" /\ v.at = p /\ v.list = visit[s].list
  BY <1>1 DEF Visit
<1>3. Found(v)
  BY <1>1, <1>2 DEF Found
<1>4. visit' = [visit EXCEPT ![s] = v]
  BY DEF Ask, TypeInv, Types
<1> HIDE DEF v
<1> QED
  BY <1>2, <1>3, <1>4, OneVisitChanges

LEMMA Strips ==
  ASSUME TypeInv, NEW s \in Sync, Strip(s)
  PROVE  OnlyVisit(s) /\ visit'[s].pc = "clear" /\ visit'[s].at = visit[s].at
                      /\ visit'[s].list = visit[s].list
<1> DEFINE v == [visit[s] EXCEPT !.pc = "clear"]
<1>1. visit[s] \in Visit /\ Found(visit[s]) /\ visit[s].pc = "strip"
  BY DEF TypeInv, Types, Strip, Visiting
<1>2. v \in Visit /\ v.pc = "clear" /\ v.at = visit[s].at /\ v.list = visit[s].list
  BY <1>1 DEF Visit
<1>3. Found(v)
  BY <1>1, <1>2 DEF Found
<1>4. visit' = [visit EXCEPT ![s] = v]
  BY DEF Strip
<1> HIDE DEF v
<1> QED
  BY <1>2, <1>3, <1>4, OneVisitChanges

LEMMA Counters ==
  ASSUME TypeInv
  PROVE  /\ mishaps < MaxMishaps => mishaps + 1 \in 0..MaxMishaps
         /\ voids < MaxVoids => voids + 1 \in 0..MaxVoids
         /\ \A n \in {lapses, cutShort} : n \in 0..(mishaps + 1) /\ n + 1 \in 0..(mishaps + 1)
  BY ShopifyAssumption DEF TypeInv, Types

LEMMA RequestStepTypes ==
  ASSUME TypeInv, NEW r \in Request, Step(r)
  PROVE  Only(r)
<1>1. ASSUME At(r, "order"), LockOrder(r) PROVE Only(r)
  BY <1>1, MovesOn DEF LockOrder, At, Steps, WithPurchase
<1>2. ASSUME Revalidate(r) PROVE Only(r)
  BY <1>2, MovesOn DEF Revalidate, At, Steps, WithPurchase
<1>3. ASSUME GiveUp(r) PROVE Only(r)
  BY <1>3, MovesOn DEF GiveUp, At, Steps, WithPurchase
<1>4. ASSUME Poll(r) \/ Forget(r) \/ Keep(r) \/ Fetch(r) \/ Ship(r) PROVE Only(r)
  <2>1. call[r].purchase \in Purchase /\ ~At(r, "idle")
    BY <1>4 DEF TypeInv, Situated, WithPurchase, At, Poll, Forget, Keep, Fetch, Ship
  <2> QED
    BY <1>4, <2>1, MovesOn DEF Poll, Forget, Keep, Fetch, Ship, Steps
<1>5. ASSUME Release(r) PROVE Only(r)
  BY <1>5, Rests DEF Release
<1> QED
  BY <1>1, <1>2, <1>3, <1>4, <1>5, Loads, Buys, Notes, Merges DEF Step, LockOrder

LEMMA TypeInvariant == Spec => []TypeInv
<1>1. Init => TypeInv
  BY IdleCall, NoVisitIsIdle, ShopifyAssumption
  DEF Init, TypeInv, Types, Marker, Holder, Fates
<1>2. TypeInv /\ [Next]_vars => TypeInv'
  <2> SUFFICES ASSUME TypeInv, [Next]_vars PROVE TypeInv'
    OBVIOUS
  <2> USE DEF rowVars, lockVars, boundVars
  <2>1. CASE UNCHANGED vars
    BY <2>1 DEF vars, TypeInv, Types, Situated, Found
  <2>2. ASSUME NEW r \in Request, NEW p \in Package, Begin(r, p) PROVE TypeInv'
    BY <2>2, Begins DEF Begin, TypeInv, Types, Only, Holder
  <2>3. ASSUME NEW r \in Request, Step(r) PROVE TypeInv'
    <3>1. Only(r)
      BY <2>3, RequestStepTypes
    <3>2. /\ visit' = visit
          /\ UNCHANGED <<voids, mishaps, lapses, cutShort>>
      BY <2>3 DEF Step, LockOrder, Revalidate, Load, Buy, GiveUp, Note, Poll, Forget, Keep,
                  Fetch, Merge, Ship, Release
    <3>3. lock' \in [Package -> Holder] /\ orderLock' \in Holder
      BY <2>3 DEF Step, LockOrder, Revalidate, Load, Buy, GiveUp, Note, Poll, Forget, Keep,
                  Fetch, Merge, Ship, Release, TypeInv, Types, Holder
    <3>4. shop' \in [Purchase -> Fates]
      BY <2>3 DEF Step, LockOrder, Revalidate, Load, Buy, GiveUp, Note, Poll, Forget, Keep,
                  Fetch, Merge, Ship, Release, TypeInv, Types, Fates
    <3>5. /\ label' \in [Package -> Marker] /\ resultId' \in [Package -> Marker]
          /\ labelId' \in [Package -> Marker] /\ noted' \subseteq Purchase
      <4>1. ~At(r, "idle") => call[r] \in Call /\ call[r].package \in Package
        BY DEF TypeInv, Types, Situated, At
      <4>2. call[r].pc \in WithPurchase => call[r].purchase \in Purchase
        BY DEF TypeInv, Situated
      <4>3. CASE Note(r) \/ Forget(r) \/ Keep(r)
        BY <4>1, <4>2, <4>3 DEF Note, Forget, Keep, KeepLabel, SaveMarkers, At, Call,
                                 Marker, WithPurchase, TypeInv, Types
      <4>4. CASE Ship(r)
        BY <4>1, <4>2, <4>4 DEF Ship, SaveMarkers, At, Call, Marker, WithPurchase, TypeInv, Types
      <4> QED
        BY <2>3, <4>3, <4>4 DEF Step, LockOrder, Revalidate, Load, Buy, GiveUp, Poll, Fetch,
                                Merge, Release, TypeInv, Types
    <3> QED
      BY <3>1, <3>2, <3>3, <3>4, <3>5 DEF TypeInv, Types, Only, Found
  <2>4. ASSUME NEW r \in Request, Crash(r) PROVE TypeInv'
    <3>1. Only(r)
      BY <2>4, Rests DEF Crash
    <3>2. lock' \in [Package -> Holder] /\ orderLock' \in Holder
      BY <2>4 DEF Crash, TypeInv, Types, Holder
    <3> QED
      BY <2>4, <3>1, <3>2, Counters DEF Crash, TypeInv, Types, Only, Found
  <2>5. ASSUME NEW r \in Request, LocksLapse(r) PROVE TypeInv'
    <3>2. lock' \in [Package -> Holder] /\ orderLock' \in Holder
      BY <2>5 DEF LocksLapse, TypeInv, Types, Holder
    <3> QED
      BY <2>5, <3>2, Counters DEF LocksLapse, TypeInv, Types, Situated, Found
  <2>6. ASSUME NEW s \in Sync, List(s) PROVE TypeInv'
    BY <2>6, Lists DEF List, TypeInv, Types, OnlyVisit, Situated
  <2>7. ASSUME NEW s \in Sync, NEW p \in Package, Ask(s, p) PROVE TypeInv'
    <3>1. OnlyVisit(s)
      BY <2>7, Asks, Proceeds DEF Ask
    <3> QED
      BY <2>7, <3>1 DEF Ask, TypeInv, Types, OnlyVisit, Situated
  <2>8. ASSUME NEW s \in Sync, NEW p \in Package, AskInVain(s, p) PROVE TypeInv'
    <3>1. OnlyVisit(s)
      BY <2>8, Proceeds DEF AskInVain
    <3> QED
      BY <2>8, <3>1, Counters DEF AskInVain, TypeInv, Types, OnlyVisit, Situated
  <2>9. ASSUME NEW s \in Sync, Strip(s) PROVE TypeInv'
    <3>1. OnlyVisit(s)
      BY <2>9, Strips
    <3>2. resultId' \in [Package -> Marker] /\ labelId' \in [Package -> Marker]
      BY <2>9 DEF Strip, TypeInv, Types, Marker
    <3> QED
      BY <2>9, <3>1, <3>2 DEF Strip, TypeInv, Types, OnlyVisit, Situated
  <2>10. ASSUME NEW s \in Sync, Clear(s) PROVE TypeInv'
    <3>1. OnlyVisit(s)
      BY <2>10, Proceeds DEF Clear, Visiting, TypeInv, Found
    <3>2. label' \in [Package -> Marker]
      BY <2>10 DEF Clear, TypeInv, Types, Marker
    <3> QED
      BY <2>10, <3>1, <3>2 DEF Clear, TypeInv, Types, OnlyVisit, Situated
  <2>11. ASSUME NEW s \in Sync, SyncCrash(s) PROVE TypeInv'
    <3>1. OnlyVisit(s)
      BY <2>11, NoVisitIsIdle, OneVisitChanges DEF SyncCrash
    <3> QED
      BY <2>11, <3>1, Counters DEF SyncCrash, TypeInv, Types, OnlyVisit, Situated
  <2>12. ASSUME NEW x \in Purchase, NEW fate \in {"sold", "failed"}, Settle(x, fate)
         PROVE  TypeInv'
    BY <2>12 DEF Settle, TypeInv, Types, Situated, Found, Fates
  <2>13. ASSUME NEW x \in Purchase, VoidInAdmin(x) PROVE TypeInv'
    BY <2>13, Counters DEF VoidInAdmin, TypeInv, Types, Situated, Found, Fates
  <2>14. ASSUME LocksExpire PROVE TypeInv'
    BY <2>14 DEF LocksExpire, TypeInv, Types, Situated, Found, Holder
  <2> QED
    BY <2>1, <2>2, <2>3, <2>4, <2>5, <2>6, <2>7, <2>8, <2>9, <2>10, <2>11, <2>12, <2>13, <2>14
    DEF Next, Round
<1> QED
  BY <1>1, <1>2, PTL DEF Spec

(***************************************************************************)
(* What a step may do.                                                     *)
(***************************************************************************)
Writes(r) == Note(r) \/ Forget(r) \/ Keep(r) \/ Ship(r)
Reads(r)  == Load(r) \/ Merge(r)
Quiet(r)  == LockOrder(r) \/ Revalidate(r) \/ GiveUp(r) \/ Poll(r) \/ Fetch(r)

LEMMA RowSteps ==
  ASSUME [Next]_vars
  PROVE  \/ UNCHANGED <<rowVars, noted>>
         \/ \E r \in Request : Writes(r)
         \/ \E s \in Sync : Strip(s) \/ Clear(s)
  BY DEF Next, vars, Writes, Step, Round, Begin, LockOrder, Revalidate, Load, Buy, GiveUp,
         Poll, Fetch, Merge, Release, Crash, LocksLapse, List, Ask, AskInVain, SyncCrash, Settle,
         VoidInAdmin, LocksExpire

LEMMA CallSteps ==
  ASSUME TypeInv, [Next]_vars, NEW v \in Request
  PROVE  \/ call'[v] = call[v]
         \/ call'[v] = Idle
         \/ \E p \in Package : Begin(v, p)
         \/ Quiet(v) \/ Reads(v) \/ (\E x \in Purchase : Buy(v, x)) \/ Writes(v)
<1> DEFINE Goal == \/ call'[v] = call[v]
                   \/ call'[v] = Idle
                   \/ \E p \in Package : Begin(v, p)
                   \/ Quiet(v) \/ Reads(v) \/ (\E x \in Purchase : Buy(v, x)) \/ Writes(v)
<1>1. ASSUME NEW r \in Request, NEW p \in Package, Begin(r, p) PROVE Goal
  BY <1>1, Begins DEF Only
<1>2. ASSUME NEW r \in Request, Step(r) PROVE Goal
  <2>1. r # v => call'[v] = call[v]
    BY <1>2, RequestStepTypes DEF Only
  <2>2. Release(r) => call'[r] = Idle
    BY OneRequestChanges, IdleCall DEF Release
  <2> QED
    BY <1>2, <2>1, <2>2 DEF Step, Quiet, Reads, Writes
<1>3. ASSUME NEW r \in Request, Crash(r) PROVE Goal
  BY <1>3, OneRequestChanges, IdleCall DEF Crash, Only
<1>4. CASE UNCHANGED call
  BY <1>4
<1>5. \/ UNCHANGED call
      \/ \E r \in Request : (\E p \in Package : Begin(r, p)) \/ Step(r) \/ Crash(r)
  BY DEF Next, vars, Round, LocksLapse, List, Ask, AskInVain, Strip, Clear, SyncCrash, Settle,
         VoidInAdmin, LocksExpire
<1> QED
  BY <1>1, <1>2, <1>3, <1>4, <1>5

LEMMA ShopSteps ==
  ASSUME TypeInv, [Next]_vars, NEW x \in Purchase
  PROVE  /\ shop[x] # "unused" => shop'[x] # "unused"
         /\ shop[x] = "failed" => shop'[x] = "failed"
         /\ shop[x] = "voided" => shop'[x] = "voided"
         /\ Charged(x)' => Charged(x) \/ shop[x] = "unused"
<1>1. ASSUME NEW r \in Request, NEW y \in Purchase, Buy(r, y)
      PROVE  shop'[x] = shop[x] \/ (shop[x] = "unused" /\ shop'[x] = "running")
  BY <1>1 DEF Buy, TypeInv, Types
<1>2. ASSUME NEW y \in Purchase, NEW fate \in {"sold", "failed"}, Settle(y, fate)
      PROVE  shop'[x] = shop[x] \/ (shop[x] = "running" /\ shop'[x] \in {"sold", "failed"})
  BY <1>2 DEF Settle, TypeInv, Types
<1>3. ASSUME NEW y \in Purchase, VoidInAdmin(y)
      PROVE  shop'[x] = shop[x] \/ (shop[x] = "sold" /\ shop'[x] = "voided")
  BY <1>3 DEF VoidInAdmin, TypeInv, Types
<1>4. \/ UNCHANGED shop
      \/ \E r \in Request, y \in Purchase : Buy(r, y)
      \/ \E y \in Purchase : (\E fate \in {"sold", "failed"} : Settle(y, fate)) \/ VoidInAdmin(y)
  BY DEF Next, vars, Step, Round, Begin, LockOrder, Revalidate, Load, GiveUp, Note, Poll,
         Forget, Keep, Fetch, Merge, Ship, Release, Crash, LocksLapse, List, Ask, AskInVain, Strip,
         Clear, SyncCrash, LocksExpire
<1> QED
  BY <1>1, <1>2, <1>3, <1>4 DEF Charged

\* What the writing steps leave in the rows of their package.
LEMMA RowsWritten ==
  ASSUME TypeInv, NEW r \in Request, Writes(r)
  PROVE  LET p == call[r].package
             x == call[r].purchase IN
         /\ p \in Package /\ x \in Purchase
         /\ call[r].labelId \in Marker /\ call[r].resultId \in Marker
         /\ Only(r) /\ UNCHANGED <<shop, visit, lapses, cutShort>>
         /\ \A q \in Package : q # p => /\ label'[q] = label[q]
                                        /\ resultId'[q] = resultId[q]
                                        /\ labelId'[q] = labelId[q]
         /\ Note(r) => /\ At(r, "note") /\ label'[p] = label[p]
                       /\ resultId'[p] = x /\ labelId'[p] = call[r].labelId
                       /\ noted' = noted \cup ({x, call[r].labelId} \ {None})
         /\ Forget(r) => /\ At(r, "forget") /\ label'[p] = label[p]
                         /\ resultId'[p] = None /\ labelId'[p] = call[r].labelId
                         /\ noted' = noted \cup ({None, call[r].labelId} \ {None})
                         /\ Same(r, "release")
         /\ Keep(r) => /\ At(r, "keep") /\ label'[p] = label[p]
                       /\ resultId'[p] = None /\ labelId'[p] = x
                       /\ noted' = noted \cup {x}
                       /\ Same(r, "fetch")
         /\ Ship(r) => /\ At(r, "ship")
                       /\ IF label[p] = None
                            THEN /\ label'[p] = x /\ labelId'[p] = x
                                 /\ resultId'[p] = call[r].resultId
                                 /\ noted' = noted \cup ({call[r].resultId, x} \ {None})
                            ELSE /\ label'[p] = label[p] /\ labelId'[p] = labelId[p]
                                 /\ resultId'[p] = resultId[p] /\ noted' = noted
                       /\ Same(r, "release")
<1>1. /\ call[r].package \in Package /\ call[r].purchase \in Purchase
      /\ call[r].labelId \in Marker /\ call[r].resultId \in Marker /\ ~At(r, "idle")
  BY DEF Writes, Note, Forget, Keep, Ship, At, Situated, WithPurchase, TypeInv, Types, Call
<1>2. Note(r) => Only(r)
  BY Notes
<1>3. Forget(r) => Only(r) /\ Same(r, "release")
  BY <1>1, MovesOn DEF Forget, Steps, WithPurchase
<1>4. Keep(r) => Only(r) /\ Same(r, "fetch")
  BY <1>1, MovesOn DEF Keep, Steps, WithPurchase
<1>5. Ship(r) => Only(r) /\ Same(r, "release")
  BY <1>1, MovesOn DEF Ship, Steps, WithPurchase
<1>6. call[r].purchase # None
  BY <1>1, ShopifyAssumption
<1>7. UNCHANGED <<shop, visit, lapses, cutShort>>
  BY DEF Writes, Note, Forget, Keep, Ship, boundVars
<1> QED
  BY <1>1, <1>2, <1>3, <1>4, <1>5, <1>6, <1>7
  DEF Writes, Note, Forget, Keep, KeepLabel, Ship, SaveMarkers, rowVars, TypeInv, Types

\* And what the synchroniser's two leave.
LEMMA RowsTaken ==
  ASSUME TypeInv, NEW s \in Sync, Strip(s) \/ Clear(s)
  PROVE  LET p == visit[s].at IN
         /\ p \in Package /\ visit[s].list[p] \in Purchase
         /\ OnlyVisit(s) /\ UNCHANGED <<shop, call, noted, lapses, cutShort>>
         /\ \A q \in Package : /\ label'[q] \in {label[q], None}
                               /\ resultId'[q] \in {resultId[q], None}
                               /\ labelId'[q] \in {labelId[q], None}
                               /\ q # p => /\ label'[q] = label[q]
                                           /\ resultId'[q] = resultId[q]
                                           /\ labelId'[q] = labelId[q]
         /\ Strip(s) => label' = label
         /\ Clear(s) => label'[p] = None /\ UNCHANGED <<resultId, labelId>>
<1>1. visit[s].at \in Package /\ visit[s].list[visit[s].at] \in Purchase
  BY DEF Strip, Clear, Visiting, TypeInv, Found
<1>2. OnlyVisit(s)
  BY <1>1, Strips, Proceeds DEF Clear
<1> QED
  BY <1>1, <1>2 DEF Strip, Clear, TypeInv, Types, boundVars

(***************************************************************************)
(* No process knows of a purchase that has not been made.                  *)
(***************************************************************************)
Used(x) == x = None \/ shop[x] # "unused"

UsedInv ==
  /\ \A p \in Package : Used(resultId[p]) /\ Used(labelId[p])
  /\ \A x \in noted : shop[x] # "unused"
  /\ \A r \in Request :
       Used(call[r].resultId) /\ Used(call[r].labelId) /\ Used(call[r].purchase)

LEMMA UsedInvariant == Spec => []UsedInv
<1>1. Init => UsedInv
  BY DEF Init, UsedInv, Used, Idle
<1>2. TypeInv /\ UsedInv /\ [Next]_vars => UsedInv'
  <2> SUFFICES ASSUME TypeInv, UsedInv, [Next]_vars PROVE UsedInv'
    OBVIOUS
  <2> DEFINE Sold(x) == x = None \/ shop'[x] # "unused"
  <2>1. ASSUME NEW x \in Marker, Used(x) PROVE Sold(x)
    BY <2>1, ShopSteps DEF Used, Marker
  <2>2. \A p \in Package : Sold(resultId[p]) /\ Sold(labelId[p])
    BY <2>1 DEF UsedInv, TypeInv, Types
  <2>3. \A r \in Request :
          Sold(call[r].resultId) /\ Sold(call[r].labelId) /\ Sold(call[r].purchase)
    BY <2>1 DEF UsedInv, TypeInv, Types, Call
  <2>4. \A x \in noted : shop'[x] # "unused"
    BY ShopSteps DEF UsedInv, TypeInv, Types
  <2> HIDE DEF Sold
  <2>5. /\ \A p \in Package : Sold(resultId'[p]) /\ Sold(labelId'[p])
        /\ \A x \in noted' : shop'[x] # "unused"
    <3>1. CASE UNCHANGED <<rowVars, noted>>
      BY <2>2, <2>4, <3>1 DEF rowVars
    <3>2. ASSUME NEW r \in Request, Writes(r)
          PROVE  /\ \A p \in Package : Sold(resultId'[p]) /\ Sold(labelId'[p])
                 /\ \A x \in noted' : shop'[x] # "unused"
      <4>1. Sold(None)
        BY DEF Sold
      <4>2. \A x \in Marker : Sold(x) /\ x # None => shop'[x] # "unused"
        BY DEF Sold
      <4>3. call[r].purchase # None
        BY <3>2, RowsWritten, ShopifyAssumption
      <4> QED
        BY <2>2, <2>3, <2>4, <3>2, <4>1, <4>2, <4>3, RowsWritten DEF Writes, Marker
    <3>3. ASSUME NEW s \in Sync, Strip(s) \/ Clear(s)
          PROVE  /\ \A p \in Package : Sold(resultId'[p]) /\ Sold(labelId'[p])
                 /\ \A x \in noted' : shop'[x] # "unused"
      <4>1. Sold(None)
        BY DEF Sold
      <4> QED
        BY <2>2, <2>4, <3>3, <4>1, RowsTaken
    <3> QED
      BY <3>1, <3>2, <3>3, RowSteps
  <2>6. ASSUME NEW v \in Request
        PROVE  Sold(call'[v].resultId) /\ Sold(call'[v].labelId) /\ Sold(call'[v].purchase)
    <3>1. Sold(None)
      BY DEF Sold
    <3>2. CASE call'[v] = call[v]
      BY <2>3, <3>2
    <3>3. CASE call'[v] = Idle
      BY <3>1, <3>3 DEF Idle
    <3>4. CASE \E p \in Package : Begin(v, p)
      BY <3>1, <3>4, Begins
    <3>5. CASE Quiet(v)
      <4>1. /\ ~At(v, "idle")
            /\ call[v].pc \in {"poll", "fetch"} => call[v].purchase \in Purchase
        BY <3>5 DEF Quiet, LockOrder, Revalidate, GiveUp, Poll, Fetch, At, TypeInv, Situated,
                    WithPurchase
      <4>2. \E step \in Steps : Same(v, step)
        BY <3>5, <4>1, MovesOn
        DEF Quiet, LockOrder, Revalidate, GiveUp, Poll, Fetch, At, Steps, WithPurchase
      <4> QED
        BY <2>3, <4>2 DEF Same
    <3>6. CASE Reads(v)
      <4>1. call[v].package \in Package
        BY <3>6 DEF Reads, Load, Merge, At, TypeInv, Situated
      <4> QED
        BY <2>2, <2>3, <3>6, <4>1, Loads, Merges DEF Reads
    <3>7. ASSUME NEW x \in Purchase, Buy(v, x)
          PROVE  Sold(call'[v].resultId) /\ Sold(call'[v].labelId) /\ Sold(call'[v].purchase)
      <4>1. Sold(x)
        BY <3>7 DEF Buy, TypeInv, Types, Sold
      <4> QED
        BY <2>3, <3>7, <4>1, Buys DEF Same
    <3>8. CASE Writes(v)
      BY <2>3, <3>8, RowsWritten, Notes DEF Writes, Same
    <3> QED
      BY <3>2, <3>3, <3>4, <3>5, <3>6, <3>7, <3>8, CallSteps
  <2> QED
    BY <2>5, <2>6 DEF UsedInv, Used, Sold
<1> QED
  BY <1>1, <1>2, TypeInvariant, PTL DEF Spec

(***************************************************************************)
(* The locks. Unless one lapses, a request that runs owns its package's,   *)
(* and between the two it owns the shipment's.                             *)
(***************************************************************************)
Checked == {"load", "buy", "note", "poll", "forget", "keep", "fetch", "merge", "ship"}
Ordered(r) == call[r].pc \in Checked \cup {"revalidate"}

Holds(r) ==
  /\ call[r].pc # "idle" => lock[call[r].package] = r
  /\ Ordered(r) => orderLock = r

LockInv == lapses = 0 => \A r \in Request : Holds(r)

LEMMA OneOrdered ==
  ASSUME LockInv, lapses = 0, NEW q \in Request, NEW r \in Request, Ordered(q), Ordered(r)
  PROVE  q = r
  BY DEF LockInv, Holds

LEMMA LapsesStay ==
  ASSUME TypeInv, [Next]_vars
  PROVE  /\ lapses' = 0 => lapses = 0
         /\ cutShort' = 0 => cutShort = 0
<1>1. \/ UNCHANGED <<lapses, cutShort>>
      \/ \E r \in Request : LocksLapse(r)
      \/ \E s \in Sync : SyncCrash(s)
  BY DEF Next, vars, Step, Round, Begin, LockOrder, Revalidate, Load, Buy, GiveUp, Note, Poll,
         Forget, Keep, Fetch, Merge, Ship, Release, Crash, List, Ask, AskInVain, Strip, Clear, Settle,
         VoidInAdmin, LocksExpire, boundVars
<1>2. lapses + 1 # 0 /\ cutShort + 1 # 0
  BY DEF TypeInv, Types
<1>3. ASSUME NEW r \in Request, LocksLapse(r)
      PROVE  lapses' = lapses + 1 /\ cutShort' = cutShort
  BY <1>3 DEF LocksLapse
<1>4. ASSUME NEW s \in Sync, SyncCrash(s)
      PROVE  lapses' = lapses /\ cutShort' \in {cutShort, cutShort + 1}
  BY <1>4 DEF SyncCrash
<1> QED
  BY <1>1, <1>2, <1>3, <1>4

LEMMA LockInvariant == Spec => []LockInv
<1>1. Init => LockInv
  BY DEF Init, LockInv, Holds, Ordered, Checked, Idle
<1>2. TypeInv /\ LockInv /\ [Next]_vars => LockInv'
  <2> SUFFICES ASSUME TypeInv, LockInv, [Next]_vars, lapses' = 0, NEW v \in Request
               PROVE  Holds(v)'
    BY DEF LockInv
  <2> USE DEF rowVars, lockVars, boundVars
  <2>1. Holds(v) /\ lapses = 0 /\ \A r \in Request : Holds(r)
    BY LapsesStay DEF LockInv
  <2>2. v # None /\ v # Ghost /\ (call[v].pc # "idle" => call[v].package \in Package)
    BY ShopifyAssumption DEF TypeInv, Situated
  <2>3. CASE UNCHANGED <<call, lock, orderLock>>
    BY <2>1, <2>3 DEF Holds, Ordered
  <2>4. ASSUME NEW r \in Request, NEW p \in Package, Begin(r, p) PROVE Holds(v)'
    <3>1. CASE r = v
      BY <2>4, <3>1, Begins DEF Begin, Holds, Ordered, Checked, TypeInv, Types
    <3>2. CASE r # v
      BY <2>1, <2>2, <2>4, <3>2, Begins DEF Begin, Only, Holds, Ordered, TypeInv, Types
    <3> QED
      BY <3>1, <3>2
  <2>5. ASSUME NEW r \in Request, LockOrder(r) PROVE Holds(v)'
    <3>1. /\ Only(r) /\ At(r, "order") /\ lock' = lock
          /\ \/ Same(r, "revalidate") /\ orderLock = None /\ orderLock' = r
             \/ Same(r, "release") /\ orderLock' = orderLock
      BY <2>5, MovesOn DEF LockOrder, At, Steps, WithPurchase
    <3>2. CASE r = v
      BY <2>1, <3>1, <3>2 DEF Same, Holds, Ordered, Checked, At
    <3>3. CASE r # v
      BY <2>1, <2>2, <3>1, <3>3 DEF Only, Holds, Ordered
    <3> QED
      BY <3>2, <3>3
  <2>6. ASSUME NEW r \in Request, Release(r) PROVE Holds(v)'
    <3>1. Only(r) /\ call'[r].pc = "idle"
      BY <2>6, Rests DEF Release
    <3>2. r = v => Holds(v)'
      BY <3>1 DEF Holds, Ordered, Checked
    <3>3. r # v => Holds(v)'
      BY <2>1, <2>2, <2>6, <3>1 DEF Release, Only, Holds, Ordered, TypeInv, Types
    <3> QED
      BY <3>2, <3>3
  <2>7. ASSUME NEW r \in Request, Crash(r) PROVE Holds(v)'
    <3>1. Only(r) /\ call'[r].pc = "idle"
      BY <2>7, Rests DEF Crash
    <3>2. r = v => Holds(v)'
      BY <3>1 DEF Holds, Ordered, Checked
    <3>3. r # v => Holds(v)'
      BY <2>1, <2>2, <2>7, <3>1 DEF Crash, Only, Holds, Ordered
    <3> QED
      BY <3>2, <3>3
  <2>8. ASSUME LocksExpire PROVE Holds(v)'
    BY <2>1, <2>2, <2>8 DEF LocksExpire, Holds, Ordered
  <2>9. ASSUME NEW r \in Request, LocksLapse(r) PROVE Holds(v)'
    BY <2>1, <2>9 DEF LocksLapse
  <2>10. ASSUME NEW r \in Request,
                Revalidate(r) \/ GiveUp(r) \/ Poll(r) \/ Fetch(r) \/ Reads(r) \/ Writes(r)
                  \/ \E x \in Purchase : Buy(r, x)
         PROVE  Holds(v)'
    <3>1. UNCHANGED <<lock, orderLock>> /\ Ordered(r)
      BY <2>10 DEF Revalidate, GiveUp, Poll, Fetch, Reads, Load, Merge, Buy, Writes, Note, Forget,
                   Keep, Ship, At, Ordered, Checked
    <3>2. Only(r) /\ call'[r].package = call[r].package
      <4>1. Revalidate(r) => Only(r) /\ call'[r].package = call[r].package
        BY MovesOn DEF Revalidate, At, Same, Steps, WithPurchase
      <4>2. GiveUp(r) => Only(r) /\ call'[r].package = call[r].package
        BY MovesOn DEF GiveUp, At, Same, Steps, WithPurchase
      <4>3. Poll(r) \/ Fetch(r) => Only(r) /\ call'[r].package = call[r].package
        <5>1. Poll(r) \/ Fetch(r) => call[r].purchase \in Purchase
          BY DEF Poll, Fetch, At, TypeInv, Situated, WithPurchase
        <5> QED
          BY <5>1, MovesOn DEF Poll, Fetch, At, Same, Steps
      <4> QED
        BY <2>10, <4>1, <4>2, <4>3, Loads, Merges, Buys, RowsWritten, Notes DEF Same, Reads, Writes
    <3>3. call[r].pc # "idle"
      BY <3>1 DEF Ordered, Checked
    <3> QED
      BY <2>1, <3>1, <3>2, <3>3 DEF Holds, Ordered, Only
  <2> QED
    BY <2>3, <2>4, <2>5, <2>6, <2>7, <2>8, <2>9, <2>10
    DEF Next, vars, Step, Round, Reads, Writes, List, Ask, AskInVain, Strip, Clear, SyncCrash,
        Settle, VoidInAdmin
<1> QED
  BY <1>1, <1>2, TypeInvariant, PTL DEF Spec

(***************************************************************************)
(* What the shipment's lock protects. One package of the shipment at most  *)
(* has a label or a marker of one, by one marker; and the request that has *)
(* the lock knows the markers of its package, but for what the             *)
(* synchroniser may strip.                                                 *)
(***************************************************************************)
Occupied(p) == label[p] # None \/ HasMarker(p)

Exclusive == \A p \in Package : resultId[p] = None \/ labelId[p] = None

OnePackage == \A p, q \in Package : Occupied(p) /\ Occupied(q) => p = q

Knows(r) ==
  LET p == call[r].package
      x == call[r].purchase IN
  /\ call[r].pc \in Checked => \A q \in Package : q # p => ~Occupied(q)
  /\ call[r].pc \in {"buy", "note", "poll", "forget", "keep"} =>
       call[r].labelId = None /\ labelId[p] = None
  /\ call[r].pc \in {"buy", "note", "fetch", "merge", "ship"} => resultId[p] = None
  /\ call[r].pc = "ship" => call[r].resultId = None
  /\ call[r].pc \in {"poll", "forget", "keep"} => resultId[p] \in {None, x}
  /\ call[r].pc \in {"fetch", "merge", "ship"} => labelId[p] \in {None, x}
  /\ call[r].pc = "forget" => shop[x] = "failed"

OrderInv == lapses = 0 => Exclusive /\ OnePackage /\ \A r \in Request : Knows(r)

\* What a step does to the packages that are taken.
LEMMA OrderRows ==
  ASSUME TypeInv, LockInv, OrderInv, lapses = 0, [Next]_vars
  PROVE  Exclusive' /\ OnePackage'
<1>1. CASE UNCHANGED <<rowVars, noted>>
  BY <1>1 DEF OrderInv, Exclusive, OnePackage, Occupied, HasMarker, rowVars
<1>2. ASSUME NEW r \in Request, Writes(r) PROVE Exclusive' /\ OnePackage'
  <2> DEFINE p == call[r].package
  <2>1. Knows(r) /\ Exclusive /\ OnePackage /\ p \in Package
    BY <1>2, RowsWritten DEF OrderInv
  <2>2. \A q \in Package : q # p => ~Occupied(q)
    BY <1>2, <2>1 DEF Knows, Writes, Note, Forget, Keep, Ship, At, Checked
  <2>3. \A q \in Package : q # p => ~Occupied(q)'
    BY <1>2, <2>2, RowsWritten DEF Occupied, HasMarker
  <2>4. \A q \in Package : q # p => resultId'[q] = None \/ labelId'[q] = None
    BY <2>3 DEF Occupied, HasMarker
  <2>5. resultId'[p] = None \/ labelId'[p] = None
    BY <1>2, <2>1, RowsWritten DEF Knows, Writes, At
  <2> QED
    BY <2>3, <2>4, <2>5 DEF Exclusive, OnePackage
<1>3. ASSUME NEW s \in Sync, Strip(s) \/ Clear(s) PROVE Exclusive' /\ OnePackage'
  BY <1>3, RowsTaken DEF OrderInv, Exclusive, OnePackage, Occupied, HasMarker
<1> QED
  BY <1>1, <1>2, <1>3, RowSteps

\* What it does to a request that stays where it is.
LEMMA OrderWaits ==
  ASSUME TypeInv, LockInv, OrderInv, lapses = 0, [Next]_vars,
         NEW v \in Request, call'[v] = call[v]
  PROVE  Knows(v)'
<1> DEFINE p == call[v].package
           x == call[v].purchase
<1>1. Knows(v)
  BY DEF OrderInv
<1>2. call[v].pc \in WithPurchase => x \in Purchase /\ (shop[x] = "failed" => shop'[x] = "failed")
  BY ShopSteps DEF TypeInv, Situated
<1>3. call[v].pc \in Checked => p \in Package
  BY DEF TypeInv, Situated, Checked
<1>4. CASE UNCHANGED <<rowVars, noted>>
  BY <1>1, <1>2, <1>4 DEF Knows, Occupied, HasMarker, rowVars, WithPurchase
<1>5. ASSUME NEW r \in Request, Writes(r) PROVE Knows(v)'
  <2>1. Ordered(r) /\ call'[r].pc # call[r].pc
    BY <1>5, RowsWritten, Notes
    DEF Writes, Same, Note, Forget, Keep, Ship, At, Ordered, Checked
  <2>2. r # v
    BY <2>1
  <2>3. call[v].pc \notin Checked
    BY <2>1, <2>2, OneOrdered DEF Ordered
  <2> QED
    BY <2>3 DEF Knows, Checked
<1>6. ASSUME NEW s \in Sync, Strip(s) \/ Clear(s) PROVE Knows(v)'
  BY <1>1, <1>2, <1>3, <1>6, RowsTaken DEF Knows, Occupied, HasMarker, WithPurchase, Checked
<1> QED
  BY <1>4, <1>5, <1>6, RowSteps

\* And to one that moves.
LEMMA OrderMoves ==
  ASSUME TypeInv, LockInv, OrderInv, lapses = 0, [Next]_vars, NEW v \in Request,
         Quiet(v) \/ Reads(v) \/ (\E x \in Purchase : Buy(v, x)) \/ Writes(v)
  PROVE  Knows(v)'
<1> DEFINE p == call[v].package
           x == call[v].purchase
<1>1. Knows(v) /\ Exclusive
  BY DEF OrderInv
<1>2. p \in Package /\ resultId[p] \in Marker /\ labelId[p] \in Marker
  BY DEF Quiet, LockOrder, Revalidate, GiveUp, Poll, Fetch, Reads, Load, Merge, Buy, Writes, Note,
         Forget, Keep, Ship, At, TypeInv, Types, Situated
<1>3. ASSUME LockOrder(v) \/ GiveUp(v) PROVE Knows(v)'
  <2>1. call'[v].pc \in {"revalidate", "release"}
    BY <1>3, MovesOn DEF LockOrder, GiveUp, At, Steps, WithPurchase, Same
  <2> QED
    BY <2>1 DEF Knows, Checked
<1>4. ASSUME Revalidate(v) PROVE Knows(v)'
  <2>1. UNCHANGED rowVars
    BY <1>4 DEF Revalidate
  <2>2. CASE AlreadyBought(p)
    <3>1. Same(v, "release")
      BY <1>4, <2>2, MovesOn DEF Revalidate, At, Steps, WithPurchase
    <3> QED
      BY <3>1 DEF Same, Knows, Checked
  <2>3. CASE ~AlreadyBought(p)
    <3>1. Same(v, "load")
      BY <1>4, <2>3, MovesOn DEF Revalidate, At, Steps, WithPurchase
    <3>2. \A q \in Package : q # p => ~Occupied(q)
      BY <2>3 DEF AlreadyBought, Occupied
    <3> QED
      BY <2>1, <3>1, <3>2 DEF Same, Knows, Checked, Occupied, HasMarker, rowVars
  <2> QED
    BY <2>2, <2>3
<1>5. ASSUME Poll(v) PROVE Knows(v)'
  <2>1. x \in Purchase /\ UNCHANGED <<rowVars, shop>>
    BY <1>5 DEF Poll, At, TypeInv, Situated, WithPurchase
  <2>2. (Same(v, "forget") /\ shop[x] = "failed") \/ Same(v, "keep")
    BY <1>5, <2>1, MovesOn DEF Poll, At, Steps
  <2> QED
    BY <1>1, <1>5, <2>1, <2>2 DEF Poll, At, Same, Knows, Checked, Occupied, HasMarker, rowVars
<1>6. ASSUME Fetch(v) PROVE Knows(v)'
  <2>1. x \in Purchase /\ UNCHANGED <<rowVars, shop>>
    BY <1>6 DEF Fetch, At, TypeInv, Situated, WithPurchase
  <2>2. Same(v, "merge")
    BY <1>6, <2>1, MovesOn DEF Fetch, At, Steps
  <2> QED
    BY <1>1, <1>6, <2>1, <2>2 DEF Fetch, At, Same, Knows, Checked, Occupied, HasMarker, rowVars
<1>7. ASSUME Load(v) PROVE Knows(v)'
  <2>1. UNCHANGED <<rowVars, shop>> /\ At(v, "load")
    BY <1>7 DEF Load
  <2>2. \A q \in Package : q # p => ~Occupied(q)'
    BY <1>1, <2>1 DEF Knows, At, Checked, Occupied, HasMarker, rowVars
  <2>3. resultId[p] = None \/ labelId[p] = None
    BY <1>1, <1>2 DEF Exclusive
  <2> QED
    BY <1>7, <2>1, <2>2, <2>3, Loads DEF Knows, rowVars
<1>8. ASSUME NEW y \in Purchase, Buy(v, y) PROVE Knows(v)'
  <2>1. UNCHANGED rowVars /\ At(v, "buy")
    BY <1>8 DEF Buy
  <2> QED
    BY <1>1, <1>8, <2>1, Buys DEF Knows, At, Same, Checked, Occupied, HasMarker, rowVars
<1>9. ASSUME Note(v) PROVE Knows(v)'
  <2>1. At(v, "note")
    BY <1>9 DEF Note
  <2>2. \A q \in Package : q # p => ~Occupied(q)'
    BY <1>1, <1>9, <2>1, RowsWritten DEF Writes, Knows, At, Checked, Occupied, HasMarker
  <2> QED
    BY <1>1, <1>9, <2>1, <2>2, Notes, RowsWritten DEF Writes, Knows, At
<1>10. ASSUME Keep(v) PROVE Knows(v)'
  <2>1. At(v, "keep")
    BY <1>10 DEF Keep
  <2>2. \A q \in Package : q # p => ~Occupied(q)'
    BY <1>1, <1>10, <2>1, RowsWritten DEF Writes, Knows, At, Checked, Occupied, HasMarker
  <2> QED
    BY <1>1, <1>10, <2>1, <2>2, RowsWritten DEF Writes, Knows, At, Same
<1>11. ASSUME Forget(v) \/ Ship(v) PROVE Knows(v)'
  <2>1. call'[v].pc = "release"
    BY <1>11, RowsWritten DEF Writes, Same
  <2> QED
    BY <2>1 DEF Knows, Checked
<1>12. ASSUME Merge(v) PROVE Knows(v)'
  <2>1. UNCHANGED rowVars /\ At(v, "merge")
    BY <1>12 DEF Merge
  <2> QED
    BY <1>1, <1>12, <2>1, Merges DEF Knows, At, Checked, Occupied, HasMarker, rowVars
<1> QED
  BY <1>3, <1>4, <1>5, <1>6, <1>7, <1>8, <1>9, <1>10, <1>11, <1>12 DEF Quiet, Reads, Writes

LEMMA OrderInvariant == Spec => []OrderInv
<1>1. Init => OrderInv
  BY DEF Init, OrderInv, Exclusive, OnePackage, Occupied, HasMarker, Knows, Checked, Idle
<1>2. TypeInv /\ LockInv /\ OrderInv /\ [Next]_vars => OrderInv'
  <2> SUFFICES ASSUME TypeInv, LockInv, OrderInv, [Next]_vars, lapses' = 0
               PROVE  Exclusive' /\ OnePackage' /\ \A r \in Request : Knows(r)'
    BY DEF OrderInv
  <2>1. lapses = 0
    BY LapsesStay
  <2>2. ASSUME NEW v \in Request PROVE Knows(v)'
    <3>1. call'[v] = Idle => Knows(v)'
      BY DEF Idle, Knows, Checked
    <3>2. (\E p \in Package : Begin(v, p)) => Knows(v)'
      BY Begins DEF Knows, Checked
    <3> QED
      BY <2>1, <3>1, <3>2, OrderWaits, OrderMoves, CallSteps
  <2> QED
    BY <2>1, <2>2, OrderRows
<1> QED
  BY <1>1, <1>2, TypeInvariant, LockInvariant, PTL DEF Spec

\* However many requests and runs there are, every variable keeps its type, and
\* a package carries one marker at most while no lock lapses.
THEOREM TypeCorrect == Spec => []TypeOK
<1>1. TypeInv /\ OrderInv => TypeOK
  <2>1. TypeInv => lapses \in 0..MaxMishaps /\ cutShort \in 0..MaxMishaps
    BY ShopifyAssumption DEF TypeInv, Types
  <2> QED
    BY <2>1 DEF TypeInv, Types, OrderInv, Exclusive, TypeOK
<1> QED
  BY <1>1, TypeInvariant, OrderInvariant, PTL

(***************************************************************************)
(* The synchroniser, when there is one and nothing goes wrong that the     *)
(* properties exclude. A recorded label has its marker until applyVoid()   *)
(* is under way; the labels a run has loaded are still on their packages,  *)
(* for nothing replaces a label but the run itself; and so what it strips  *)
(* is the marker of a voided label.                                        *)
(***************************************************************************)
Clearing(s, p) == visit[s].pc = "clear" /\ visit[s].at = p

MarkersFollowLabels ==
  \A p \in Package :
    label[p] # None => labelId[p] = label[p] \/ \E s \in Sync : Clearing(s, p)

ListsAreFresh ==
  \A s \in Sync, p \in Package :
    visit[s].list[p] # None => label[p] = visit[s].list[p]

StripsVoided ==
  \A s \in Sync :
    visit[s].pc = "strip" => shop[visit[s].list[visit[s].at]] = "voided"

Findable == \A x \in noted : Charged(x) => \E p \in Package : x \in {resultId[p], labelId[p]}

Calm == lapses = 0 /\ cutShort = 0

CalmInv == Calm => MarkersFollowLabels /\ ListsAreFresh /\ StripsVoided /\ Findable

LEMMA VisitSteps ==
  ASSUME TypeInv, [Next]_vars
  PROVE  \/ UNCHANGED visit
         \/ \E s \in Sync : Strip(s) \/ Clear(s)
         \/ /\ UNCHANGED <<rowVars, noted, shop>>
            /\ \E s \in Sync : \/ List(s) \/ SyncCrash(s)
                               \/ \E p \in Package : Ask(s, p) \/ AskInVain(s, p)
  BY DEF Next, vars, Step, Round, Begin, LockOrder, Revalidate, Load, Buy, GiveUp, Note, Poll,
         Forget, Keep, Fetch, Merge, Ship, Release, Crash, LocksLapse, List, Ask, AskInVain,
         SyncCrash, Settle, VoidInAdmin, LocksExpire

\* A purchase that costs money and has a marker on record has cost money before.
LEMMA ChargedBefore ==
  ASSUME TypeInv, UsedInv, [Next]_vars, NEW x \in noted, Charged(x)'
  PROVE  x \in Purchase /\ x # None /\ Charged(x)
  BY ShopSteps, ShopifyAssumption DEF UsedInv, TypeInv, Types

\* A step of a request, of Shopify or of time.
LEMMA CalmElsewhere ==
  ASSUME TypeInv, UsedInv, OrderInv, CalmInv, Calm, [Next]_vars, UNCHANGED visit
  PROVE  MarkersFollowLabels' /\ ListsAreFresh' /\ StripsVoided' /\ Findable'
<1>1. MarkersFollowLabels /\ ListsAreFresh /\ StripsVoided /\ Findable /\ Exclusive
  BY DEF CalmInv, Calm, OrderInv
<1>2. StripsVoided'
  <2> SUFFICES ASSUME NEW s \in Sync, visit[s].pc = "strip"
               PROVE  shop'[visit[s].list[visit[s].at]] = "voided"
    BY DEF StripsVoided
  <2>1. visit[s].list[visit[s].at] \in Purchase
    BY DEF TypeInv, Found
  <2> QED
    BY <1>1, <2>1, ShopSteps DEF StripsVoided
<1>3. CASE UNCHANGED <<rowVars, noted>>
  <2>1. MarkersFollowLabels' /\ ListsAreFresh'
    BY <1>1, <1>3 DEF MarkersFollowLabels, ListsAreFresh, Clearing, rowVars
  <2>2. Findable'
    BY <1>1, <1>3, ChargedBefore DEF Findable, rowVars
  <2> QED
    BY <1>2, <2>1, <2>2
<1>4. ASSUME NEW r \in Request, Writes(r)
      PROVE  MarkersFollowLabels' /\ ListsAreFresh' /\ Findable'
  <2> DEFINE p == call[r].package
             x == call[r].purchase
  <2>1. Knows(r) /\ p \in Package /\ x \in Purchase /\ x # None
    BY <1>4, RowsWritten, ShopifyAssumption DEF OrderInv, Calm
  <2>2. /\ Note(r) \/ Forget(r) \/ Keep(r) => labelId[p] = None /\ call[r].labelId = None
        /\ Note(r) \/ Ship(r) => resultId[p] = None
        /\ Ship(r) => call[r].resultId = None
        /\ Forget(r) \/ Keep(r) => resultId[p] \in {None, x}
        /\ Ship(r) => labelId[p] \in {None, x}
        /\ Forget(r) => shop[x] = "failed"
    BY <2>1 DEF Knows, Note, Forget, Keep, Ship, At
  <2>3. MarkersFollowLabels'
    BY <1>1, <1>4, <2>1, <2>2, RowsWritten DEF Writes, MarkersFollowLabels, Clearing
  <2>4. ListsAreFresh'
    BY <1>1, <1>4, <2>1, RowsWritten DEF Writes, ListsAreFresh
  <2>5. ASSUME NEW y \in noted', Charged(y)'
        PROVE  \E q \in Package : y \in {resultId'[q], labelId'[q]}
    <3>1. CASE y \notin noted
      BY <1>4, <2>1, <2>2, <2>5, <3>1, RowsWritten DEF Writes
    <3>2. CASE y \in noted
      <4>1. Charged(y) /\ y # None
        BY <2>5, <3>2, ChargedBefore
      <4>2. PICK q \in Package : y \in {resultId[q], labelId[q]}
        BY <1>1, <3>2, <4>1 DEF Findable
      <4>3. CASE q # p
        BY <1>4, <4>2, <4>3, RowsWritten
      <4>4. CASE q = p
        <5>1. ~Note(r)
          BY <2>2, <4>1, <4>2, <4>4
        <5>2. ~Forget(r)
          BY <2>2, <4>1, <4>2, <4>4 DEF Charged
        <5>3. Keep(r) => y = labelId'[p]
          BY <1>4, <2>2, <4>1, <4>2, <4>4, RowsWritten
        <5>4. Ship(r) => y = labelId'[p]
          BY <1>4, <2>2, <4>1, <4>2, <4>4, RowsWritten
        <5> QED
          BY <1>4, <2>1, <5>1, <5>2, <5>3, <5>4 DEF Writes
      <4> QED
        BY <4>3, <4>4
    <3> QED
      BY <3>1, <3>2
  <2> QED
    BY <2>3, <2>4, <2>5 DEF Findable
<1>5. ASSUME NEW s \in Sync, Strip(s) \/ Clear(s) PROVE FALSE
  <2>1. visit'[s].pc \in {"clear", "idle", "ask"} /\ visit[s].pc \in {"strip", "clear"}
    BY <1>5, Strips, Proceeds, RowsTaken DEF Strip, Clear, Visiting
  <2>2. Clear(s)
    BY <1>5, <2>1, Strips DEF Strip, Visiting
  <2> QED
    BY <2>2, Proceeds, RowsTaken DEF Clear, Visiting
<1> QED
  BY <1>2, <1>3, <1>4, <1>5, RowSteps

\* A step of the synchroniser that writes no row.
LEMMA CalmVisit ==
  ASSUME TypeInv, UsedInv, CalmInv, Calm, Calm', [Next]_vars,
         \A s, t \in Sync : s = t,
         UNCHANGED <<rowVars, noted, shop>>, NEW s \in Sync,
         List(s) \/ SyncCrash(s) \/ \E p \in Package : Ask(s, p) \/ AskInVain(s, p)
  PROVE  MarkersFollowLabels' /\ ListsAreFresh' /\ StripsVoided' /\ Findable'
<1>1. MarkersFollowLabels /\ ListsAreFresh /\ StripsVoided /\ Findable
  BY DEF CalmInv, Calm
<1>2. visit[s].pc # "clear"
  BY DEF List, SyncCrash, Ask, AskInVain, Visiting, Calm, TypeInv, Types
<1>3. MarkersFollowLabels'
  BY <1>1, <1>2 DEF MarkersFollowLabels, Clearing, rowVars
<1>4. Findable'
  BY <1>1, ChargedBefore DEF Findable, rowVars
<1>5. CASE List(s)
  BY <1>3, <1>4, <1>5, Lists DEF ListsAreFresh, StripsVoided, rowVars
<1>6. CASE SyncCrash(s)
  <2>1. visit'[s] = NoVisit
    BY <1>6, NoVisitIsIdle, OneVisitChanges DEF SyncCrash
  <2> QED
    BY <1>3, <1>4, <2>1, NoVisitIsIdle DEF ListsAreFresh, StripsVoided
<1>7. ASSUME NEW p \in Package, Proceed(s, p)
      PROVE  ListsAreFresh' /\ StripsVoided'
  BY <1>1, <1>7, Proceeds DEF ListsAreFresh, StripsVoided, rowVars
<1>8. ASSUME NEW p \in Package, Ask(s, p), shop[visit[s].list[p]] = "voided"
      PROVE  ListsAreFresh' /\ StripsVoided'
  BY <1>1, <1>8, Asks DEF ListsAreFresh, StripsVoided, rowVars
<1> QED
  BY <1>3, <1>4, <1>5, <1>6, <1>7, <1>8 DEF Ask, AskInVain

\* The two writes of applyVoid().
LEMMA CalmVoid ==
  ASSUME TypeInv, UsedInv, OrderInv, CalmInv, Calm, [Next]_vars,
         \A s, t \in Sync : s = t, NEW s \in Sync, Strip(s) \/ Clear(s)
  PROVE  MarkersFollowLabels' /\ ListsAreFresh' /\ StripsVoided' /\ Findable'
<1> DEFINE p == visit[s].at
<1>1. MarkersFollowLabels /\ ListsAreFresh /\ StripsVoided /\ Findable /\ Exclusive
  BY DEF CalmInv, Calm, OrderInv
<1>2. p \in Package /\ visit[s].list[p] \in Purchase /\ visit[s].list[p] # None
  BY RowsTaken, ShopifyAssumption
<1>3. CASE Strip(s)
  <2>1. visit[s].pc = "strip" /\ label[p] = visit[s].list[p]
    BY <1>1, <1>2, <1>3 DEF Strip, Visiting, ListsAreFresh
  <2>2. \A q \in Package : label[q] # None => labelId[q] = label[q]
    BY <1>1, <2>1 DEF MarkersFollowLabels, Clearing
  <2>3. shop[labelId[p]] = "voided" /\ resultId[p] = None
    BY <1>1, <1>2, <2>1, <2>2 DEF StripsVoided, Exclusive
  <2>4. MarkersFollowLabels'
    BY <1>3, <2>2, RowsTaken, Strips DEF MarkersFollowLabels, Clearing
  <2>5. ListsAreFresh' /\ StripsVoided'
    BY <1>1, <1>3, RowsTaken, Strips DEF ListsAreFresh, StripsVoided
  <2>6. ASSUME NEW x \in noted', Charged(x)'
        PROVE  \E q \in Package : x \in {resultId'[q], labelId'[q]}
    <3>1. x \in noted
      BY RowsTaken
    <3>2. Charged(x) /\ x # None
      BY <2>6, <3>1, ChargedBefore
    <3>3. PICK q \in Package : x \in {resultId[q], labelId[q]}
      BY <1>1, <3>1, <3>2 DEF Findable
    <3>4. q # p
      BY <2>3, <3>2, <3>3 DEF Charged
    <3> QED
      BY <3>3, <3>4, RowsTaken
  <2> QED
    BY <2>4, <2>5, <2>6 DEF Findable
<1>4. CASE Clear(s)
  <2>1. visit[s].pc = "clear" /\ Proceed(s, p)
    BY <1>4 DEF Clear, Visiting
  <2>2. \A q \in Package : q # p /\ label[q] # None => labelId[q] = label[q]
    BY <1>1 DEF MarkersFollowLabels, Clearing
  <2>3. MarkersFollowLabels'
    BY <1>4, <2>2, RowsTaken DEF MarkersFollowLabels
  <2>4. ListsAreFresh' /\ StripsVoided'
    BY <1>1, <1>2, <2>1, RowsTaken, Proceeds DEF ListsAreFresh, StripsVoided
  <2>5. Findable'
    BY <1>1, <1>4, ChargedBefore, RowsTaken DEF Findable
  <2> QED
    BY <2>3, <2>4, <2>5
<1> QED
  BY <1>3, <1>4

LEMMA CalmInvariant ==
  ASSUME \A s, t \in Sync : s = t
  PROVE  Spec => []CalmInv
<1>1. Init => CalmInv
  BY NoVisitIsIdle
  DEF Init, CalmInv, MarkersFollowLabels, ListsAreFresh, StripsVoided, Findable
<1>2. TypeInv /\ UsedInv /\ OrderInv /\ CalmInv /\ [Next]_vars => CalmInv'
  <2> SUFFICES ASSUME TypeInv, UsedInv, OrderInv, CalmInv, [Next]_vars, Calm'
               PROVE  MarkersFollowLabels' /\ ListsAreFresh' /\ StripsVoided' /\ Findable'
    BY DEF CalmInv
  <2>1. Calm
    BY LapsesStay DEF Calm
  <2> QED
    BY <2>1, CalmElsewhere, CalmVisit, CalmVoid, VisitSteps
<1> QED
  BY <1>1, <1>2, TypeInvariant, UsedInvariant, OrderInvariant, PTL DEF Spec

\* For any number of requests, packages and purchases: what PolyBag once knew to
\* cost money it still finds, however often requests die or polls fail, if there
\* is one run of the synchroniser at a time.
THEOREM PurchaseStaysFindable ==
  ASSUME \A s, t \in Sync : s = t
  PROVE  Spec => []KnownPurchaseIsFindable
<1>1. CalmInv => KnownPurchaseIsFindable
  BY DEF CalmInv, Calm, Findable, KnownPurchaseIsFindable
<1> QED
  BY <1>1, CalmInvariant, PTL

\* And the shop is charged for one of them at most: all that are on record are
\* found as the one marker that the shipment has.
THEOREM ChargedOnce ==
  ASSUME \A s, t \in Sync : s = t
  PROVE  Spec => []OneKnownPurchase
<1>1. TypeInv /\ OrderInv /\ CalmInv => OneKnownPurchase
  <2> SUFFICES ASSUME TypeInv, OrderInv, CalmInv, Calm,
                      NEW x \in noted, NEW y \in noted, Charged(x), Charged(y)
               PROVE  x = y
    BY DEF OneKnownPurchase, Calm
  <2>1. x # None /\ y # None
    BY ShopifyAssumption DEF TypeInv, Types
  <2>2. PICK p \in Package : x \in {resultId[p], labelId[p]}
    BY DEF CalmInv, Findable
  <2>3. PICK q \in Package : y \in {resultId[q], labelId[q]}
    BY DEF CalmInv, Findable
  <2>4. p = q /\ (resultId[p] = None \/ labelId[p] = None)
    BY <2>1, <2>2, <2>3 DEF OrderInv, Calm, OnePackage, Exclusive, Occupied, HasMarker
  <2> QED
    BY <2>1, <2>2, <2>3, <2>4
<1> QED
  BY <1>1, TypeInvariant, OrderInvariant, CalmInvariant, PTL
=============================================================================
