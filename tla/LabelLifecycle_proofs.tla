----------------------- MODULE LabelLifecycle_proofs -----------------------
(***************************************************************************)
(* Proofs, for every value of the constants, of what the run of            *)
(* MCLabelLifecycle checks on a small instance.                            *)
(***************************************************************************)
EXTENDS LabelLifecycle, TLAPS

(***************************************************************************)
(* Types. A worker between its reading and its write knows what it has     *)
(* read, which TypeOK alone does not say.                                  *)
(***************************************************************************)
WithLabel == {"void", "clear", "track", "print", "mark"}
WithList  == {"send", "external", "record"}

Situated(k) ==
  /\ k.pc \in WithLabel => k.package \in Package /\ k.copy \in Label
  /\ k.pc \in WithList => k.attempt < Attempts /\ \A p \in k.left : k.list[p] \in Label
  /\ k.pc = "record" => k.form \in Form

TypeInv == TypeOK /\ \A w \in Worker : Situated(work[w])

\* One worker changes, and the others stay what they are.
LEMMA OneWorkerChanges ==
  ASSUME TypeInv, NEW w \in Worker, NEW k \in Works, Situated(k), Become(w, k)
  PROVE  /\ work' \in [Worker -> Works]
         /\ work'[w] = k
         /\ \A v \in Worker : v # w => work'[v] = work[v]
         /\ \A v \in Worker : Situated(work'[v])
  BY DEF TypeInv, TypeOK, Become

LEMMA IdleIsSituated == Idle \in Works /\ Situated(Idle) /\ Idle.pc = "idle"
  BY LifecycleAssumption DEF Idle, Works, Situated, WithLabel, WithList, Steps, Labels

\* What a worker has once it has read a Shipped package.
LEMMA StartTypes ==
  ASSUME TypeInv, NEW w \in Worker, NEW p \in Package,
         NEW step \in WithLabel, Start(w, step, p)
  PROVE  /\ work' \in [Worker -> Works]
         /\ work'[w].pc = step /\ work'[w].package = p /\ work'[w].copy = label[p]
         /\ work'[w].seen = delivered[p]
         /\ work'[w].list = Idle.list
         /\ \A v \in Worker : v # w => work'[v] = work[v]
         /\ \A v \in Worker : Situated(work'[v])
<1> DEFINE k == [Idle EXCEPT !.pc = step, !.package = p, !.copy = label[p],
                            !.seen = delivered[p]]
<1>1. label[p] \in Label /\ delivered[p] \in Labels
  BY DEF Start, TypeInv, TypeOK, Labels
<1>2. step \in Steps /\ step \notin WithList
  BY DEF WithLabel, WithList, Steps
<1>3. /\ k \in Works /\ k.pc = step /\ k.package = p /\ k.copy = label[p]
      /\ k.seen = delivered[p] /\ k.list = Idle.list
  BY <1>1, <1>2, IdleIsSituated DEF Works, Idle, Labels
<1>4. Situated(k)
  BY <1>1, <1>2, <1>3 DEF Situated, WithLabel, WithList
<1>5. Become(w, k)
  BY DEF Start
<1> HIDE DEF k
<1> QED
  BY <1>3, <1>4, <1>5, OneWorkerChanges

\* What the loader of a manifest has.
LEMMA ListTypes ==
  ASSUME TypeInv, NEW w \in Worker, List(w)
  PROVE  /\ work' \in [Worker -> Works]
         /\ work'[w].pc = "send"
         /\ work'[w].left = Unmanifested
         /\ \A p \in Package : work'[w].list[p] = IF p \in Unmanifested THEN label[p] ELSE None
         /\ \A v \in Worker : v # w => work'[v] = work[v]
         /\ \A v \in Worker : Situated(work'[v])
<1> DEFINE l == [p \in Package |-> IF p \in Unmanifested THEN label[p] ELSE None]
           k == [Idle EXCEPT !.pc = "send", !.left = Unmanifested, !.list = l]
<1>1. l \in [Package -> Labels] /\ Unmanifested \in SUBSET Package
  BY DEF TypeInv, TypeOK, Unmanifested, Labels
<1>2. \A p \in Unmanifested : l[p] \in Label
  BY DEF TypeInv, TypeOK, Unmanifested, Labels
<1> HIDE DEF l
<1>3. k \in Works /\ k.pc = "send" /\ k.left = Unmanifested /\ k.list = l /\ k.attempt = 0
  BY <1>1, IdleIsSituated DEF Works, Idle, Steps
<1>4. 0 < Attempts
  BY LifecycleAssumption
<1>5. Situated(k)
  BY <1>2, <1>3, <1>4 DEF Situated, WithLabel, WithList
<1>6. Become(w, k)
  BY DEF List, l
<1>7. \A p \in Package : k.list[p] = IF p \in Unmanifested THEN label[p] ELSE None
  BY <1>3 DEF l
<1> HIDE DEF k
<1> QED
  BY <1>3, <1>5, <1>6, <1>7, OneWorkerChanges

LEMMA AnotherAttempt ==
  ASSUME NEW n \in 0..Attempts, n < Attempts, n + 1 # Attempts
  PROVE  n + 1 \in 0..Attempts /\ n + 1 < Attempts
  BY LifecycleAssumption

\* What the runs of a manifest go on with.
LEMMA RunTypes ==
  ASSUME TypeInv, NEW w \in Worker, work[w].pc \in WithList
  PROVE  /\ \A f \in Form : LET k == [work[w] EXCEPT !.pc = "record", !.form = f] IN
              k \in Works /\ Situated(k)
         /\ LET k == [work[w] EXCEPT !.pc = "external", !.named = Taken(w)] IN
              k \in Works /\ Situated(k)
         /\ work[w].attempt + 1 # Attempts =>
              LET k == [work[w] EXCEPT !.pc = "send", !.left = work[w].left \ work[w].named,
                                       !.named = {}, !.attempt = work[w].attempt + 1] IN
              k \in Works /\ Situated(k)
<1>1. work[w] \in Works /\ Situated(work[w])
  BY DEF TypeInv, TypeOK
<1>2. /\ work[w].attempt < Attempts /\ work[w].attempt \in 0..Attempts
      /\ \A p \in work[w].left : work[w].list[p] \in Label
  BY <1>1 DEF Situated, WithList, Works
<1>3. ASSUME NEW f \in Form
      PROVE LET k == [work[w] EXCEPT !.pc = "record", !.form = f] IN k \in Works /\ Situated(k)
  BY <1>1, <1>2 DEF Works, Situated, WithLabel, WithList, Steps
<1>4. LET k == [work[w] EXCEPT !.pc = "external", !.named = Taken(w)] IN
        k \in Works /\ Situated(k)
  <2>1. Taken(w) \in SUBSET Package
    BY <1>1 DEF Taken, Works
  <2> QED
    BY <1>1, <1>2, <2>1 DEF Works, Situated, WithLabel, WithList, Steps
<1>5. ASSUME work[w].attempt + 1 # Attempts
      PROVE LET k == [work[w] EXCEPT !.pc = "send", !.left = work[w].left \ work[w].named,
                                     !.named = {}, !.attempt = work[w].attempt + 1] IN
              k \in Works /\ Situated(k)
  <2>1. work[w].attempt + 1 \in 0..Attempts /\ work[w].attempt + 1 < Attempts
    BY <1>2, <1>5, AnotherAttempt
  <2>2. work[w].left \ work[w].named \in SUBSET Package
    BY <1>1 DEF Works
  <2> QED
    BY <1>1, <1>2, <2>1, <2>2 DEF Works, Situated, WithLabel, WithList, Steps
<1> QED
  BY <1>3, <1>4, <1>5

LEMMA TypeInvariant == Spec => []TypeInv
<1>1. Init => TypeInv
  BY IdleIsSituated, LifecycleAssumption DEF Init, TypeInv, TypeOK, Labels
<1>2. TypeInv /\ [Next]_vars => TypeInv'
  <2> SUFFICES ASSUME TypeInv, [Next]_vars PROVE TypeInv'
    OBVIOUS
  <2> USE DEF rowVars, carrierVars, ghostVars
  <2>1. CASE UNCHANGED vars
    BY <2>1 DEF vars, TypeInv, TypeOK
  <2>2. ASSUME NEW p \in Package, NEW x \in Label, Ship(p, x) PROVE TypeInv'
    BY <2>2 DEF Ship, Blank, TypeInv, TypeOK, Labels
  <2>3. ASSUME NEW w \in Worker, NEW p \in Package, BeginVoid(w, p) PROVE TypeInv'
    BY <2>3, StartTypes DEF BeginVoid, WithLabel, TypeInv, TypeOK
  <2>4. ASSUME NEW w \in Worker, NEW p \in Package, BeginTrack(w, p) PROVE TypeInv'
    BY <2>4, StartTypes DEF BeginTrack, WithLabel, TypeInv, TypeOK
  <2>5. ASSUME NEW w \in Worker, NEW p \in Package, BeginPrint(w, p) PROVE TypeInv'
    BY <2>5, StartTypes DEF BeginPrint, WithLabel, TypeInv, TypeOK
  <2>6. ASSUME NEW w \in Worker, AskCarrier(w) PROVE TypeInv'
    <3>1. work[w] \in Works /\ Situated(work[w]) /\ work[w].pc = "void"
      BY <2>6 DEF AskCarrier, At, TypeInv, TypeOK
    <3>2. /\ [work[w] EXCEPT !.pc = "clear"] \in Works
          /\ Situated([work[w] EXCEPT !.pc = "clear"])
      BY <3>1 DEF Works, Situated, WithLabel, WithList, Steps
    <3>3. work' \in [Worker -> Works] /\ \A v \in Worker : Situated(work'[v])
      BY <2>6, <3>2, IdleIsSituated, OneWorkerChanges DEF AskCarrier, Refused, GoTo
    <3> QED
      BY <2>6, <3>3 DEF AskCarrier, TypeInv, TypeOK
  <2>7. ASSUME NEW w \in Worker, Clear(w) PROVE TypeInv'
    <3>1. work' \in [Worker -> Works] /\ \A v \in Worker : Situated(work'[v])
      BY <2>7, IdleIsSituated, OneWorkerChanges DEF Clear
    <3>2. work[w].package \in Package
      BY <2>7 DEF Clear, At, TypeInv, Situated, WithLabel
    <3> QED
      BY <2>7, <3>1, <3>2 DEF Clear, Blank, TypeInv, TypeOK, Labels
  <2>8. ASSUME NEW w \in Worker, NEW date \in Dates, Record(w, date) PROVE TypeInv'
    <3>1. work' \in [Worker -> Works] /\ \A v \in Worker : Situated(work'[v])
      BY <2>8, IdleIsSituated, OneWorkerChanges DEF Record
    <3>2. work[w].package \in Package /\ work[w].copy \in Label
      BY <2>8 DEF Record, At, TypeInv, Situated, WithLabel
    <3>3. DateAfter(w, date) \in Labels
      BY <3>2 DEF DateAfter, TypeInv, TypeOK, Labels
    <3>4. work[w].copy # None
      BY <3>2, LifecycleAssumption
    <3> QED
      BY <2>8, <3>1, <3>2, <3>3, <3>4 DEF Record, Mix, TypeInv, TypeOK, Labels
  <2>9. ASSUME NEW w \in Worker, MarkLabelPrinted(w) PROVE TypeInv'
    <3>1. work' \in [Worker -> Works] /\ \A v \in Worker : Situated(work'[v])
      BY <2>9, IdleIsSituated, OneWorkerChanges DEF MarkLabelPrinted
    <3>2. work[w].package \in Package /\ work[w].copy \in Label
      BY <2>9 DEF MarkLabelPrinted, At, TypeInv, Situated, WithLabel
    <3> QED
      BY <2>9, <3>1, <3>2 DEF MarkLabelPrinted, Mix, TypeInv, TypeOK, Labels
  <2>10. ASSUME NEW w \in Worker, List(w) PROVE TypeInv'
    BY <2>10, ListTypes DEF List, TypeInv, TypeOK
  <2>11. ASSUME NEW w \in Worker, NEW f \in Form, Send(w, f) PROVE TypeInv'
    <3> DEFINE k == [work[w] EXCEPT !.pc = "record", !.form = f]
    <3>1. k \in Works /\ Situated(k)
      BY <2>11, RunTypes DEF Send, At, WithList
    <3>2. work' \in [Worker -> Works] /\ \A v \in Worker : Situated(work'[v])
      BY <2>11, <3>1, OneWorkerChanges DEF Send
    <3>3. onForm' \in [Label -> Form \cup {None}]
      BY <2>11 DEF Send, TypeInv, TypeOK
    <3> QED
      BY <2>11, <3>2, <3>3 DEF Send, TypeInv, TypeOK
  <2>12. ASSUME NEW w \in Worker, SendTaken(w) PROVE TypeInv'
    <3> DEFINE k == [work[w] EXCEPT !.pc = "external", !.named = Taken(w)]
    <3>1. k \in Works /\ Situated(k)
      BY <2>12, RunTypes DEF SendTaken, At, WithList
    <3>2. work' \in [Worker -> Works] /\ \A v \in Worker : Situated(work'[v])
      BY <2>12, <3>1, OneWorkerChanges DEF SendTaken
    <3> QED
      BY <2>12, <3>2 DEF SendTaken, TypeInv, TypeOK
  <2>13. ASSUME NEW w \in Worker, SendFails(w) PROVE TypeInv'
    BY <2>13, IdleIsSituated, OneWorkerChanges DEF SendFails, TypeInv, TypeOK
  <2>14. ASSUME NEW w \in Worker, MarkExternal(w) PROVE TypeInv'
    <3> DEFINE k == [work[w] EXCEPT !.pc = "send", !.left = work[w].left \ work[w].named,
                                    !.named = {}, !.attempt = work[w].attempt + 1]
    <3>1. Become(w, Idle) \/ (work[w].attempt + 1 # Attempts /\ Become(w, k))
      BY <2>14 DEF MarkExternal
    <3>2. work[w].attempt + 1 # Attempts => k \in Works /\ Situated(k)
      BY <2>14, RunTypes DEF MarkExternal, At, WithList
    <3>3. work' \in [Worker -> Works] /\ \A v \in Worker : Situated(work'[v])
      <4> HIDE DEF k
      <4> QED
        BY <3>1, <3>2, IdleIsSituated, OneWorkerChanges
    <3>4. manifest' \in [Package -> Form \cup {None, External}]
      BY <2>14 DEF MarkExternal, TypeInv, TypeOK
    <3> QED
      BY <2>14, <3>3, <3>4 DEF MarkExternal, TypeInv, TypeOK
  <2>15. ASSUME NEW w \in Worker, RecordForm(w) PROVE TypeInv'
    <3>1. work' \in [Worker -> Works] /\ \A v \in Worker : Situated(work'[v])
      BY <2>15, IdleIsSituated, OneWorkerChanges DEF RecordForm
    <3>2. work[w].form \in Form
      BY <2>15 DEF RecordForm, At, TypeInv, Situated
    <3>3. manifest' \in [Package -> Form \cup {None, External}]
      BY <2>15, <3>2 DEF RecordForm, TypeInv, TypeOK
    <3> QED
      BY <2>15, <3>1, <3>3 DEF RecordForm, TypeInv, TypeOK
  <2>16. ASSUME NEW w \in Worker, Stop(w) PROVE TypeInv'
    <3>1. mishaps' \in 0..MaxMishaps
      <4>1. mishaps < MaxMishaps /\ mishaps' = mishaps + 1 /\ mishaps \in 0..MaxMishaps
        BY <2>16 DEF Stop, TypeInv, TypeOK
      <4> QED
        BY <4>1, LifecycleAssumption
    <3> QED
      BY <2>16, <3>1, IdleIsSituated, OneWorkerChanges DEF Stop, TypeInv, TypeOK
  <2>17. ASSUME NEW w \in Worker, CheckLabel(w) PROVE TypeInv'
    <3>1. work[w] \in Works /\ Situated(work[w]) /\ work[w].pc = "print"
      BY <2>17 DEF CheckLabel, At, TypeInv, TypeOK
    <3>2. /\ [work[w] EXCEPT !.pc = "mark"] \in Works
          /\ Situated([work[w] EXCEPT !.pc = "mark"])
      BY <3>1 DEF Works, Situated, WithLabel, WithList, Steps
    <3>3. work' \in [Worker -> Works] /\ \A v \in Worker : Situated(work'[v])
      BY <2>17, <3>2, IdleIsSituated, OneWorkerChanges DEF CheckLabel, GoTo
    <3> QED
      BY <2>17, <3>3 DEF CheckLabel, TypeInv, TypeOK
  <2> QED
    BY <2>1, <2>2, <2>3, <2>4, <2>5, <2>6, <2>7, <2>8, <2>9, <2>10, <2>11, <2>12, <2>13,
       <2>14, <2>15, <2>16, <2>17 DEF Next
<1> QED
  BY <1>1, <1>2, PTL DEF Spec

\* Every variable keeps its type, and no package ever has a date of delivery
\* without the tracking that gave it, whatever overlaps.
THEOREM TypeCorrect == Spec => []TypeOK
  BY TypeInvariant, PTL DEF TypeInv

(***************************************************************************)
(* What a step may do to a worker, and to what is never undone.            *)
(***************************************************************************)
Rests(v) == work'[v].pc = "idle"

\* It has read a package, or the packages for a manifest.
Reads(v) ==
  /\ work'[v].pc \in WithLabel \ {"clear", "mark"}
  /\ work'[v].package \in Package /\ label[work'[v].package] # None
  /\ work'[v].copy = label[work'[v].package]
  /\ work'[v].seen = delivered[work'[v].package]
  /\ work'[v].pc = "void" => BeginVoid(v, work'[v].package)
  /\ UNCHANGED <<rowVars, carrierVars>>
Loads(v) ==
  /\ work'[v].pc = "send" /\ work'[v].left = Unmanifested
  /\ \A p \in Package : work'[v].list[p] = IF p \in Unmanifested THEN label[p] ELSE None
  /\ UNCHANGED <<rowVars, carrierVars>>

\* The carrier has voided the label.
Voids(v) ==
  /\ work[v].pc = "void" /\ work'[v].pc = "clear"
  /\ work'[v].package = work[v].package /\ work'[v].copy = work[v].copy
  /\ carrier'[work[v].copy] = "voided"

\* The package was Shipped, so the label may be marked as printed.
Checks(v) ==
  /\ work[v].pc = "print" /\ work'[v].pc = "mark"
  /\ work'[v].package = work[v].package /\ work'[v].copy = work[v].copy

\* USPS has answered, or the packages it named are marked.
Answered(v) ==
  /\ work[v].pc = "send" /\ work'[v].pc \in {"record", "external"}
  /\ work'[v].list = work[v].list /\ work'[v].left = work[v].left
  /\ work'[v].pc = "record" => Send(v, work'[v].form)
Marks(v) ==
  /\ work[v].pc = "external" /\ work'[v].pc = "send"
  /\ work'[v].list = work[v].list
  /\ work'[v].left = work[v].left \ work[v].named
  /\ MarkExternal(v)

Moves(v) ==
  \/ work'[v] = work[v]
  \/ Rests(v) \/ Reads(v) \/ Loads(v) \/ Voids(v) \/ Checks(v) \/ Answered(v) \/ Marks(v)

LEMMA WorkSteps ==
  ASSUME TypeInv, [Next]_vars, NEW v \in Worker
  PROVE  Moves(v)
<1> USE DEF Moves, rowVars, carrierVars, ghostVars
<1>0. ASSUME NEW w \in Worker, w # v, NEW k, Become(w, k) PROVE Moves(v)
  BY <1>0 DEF Become, TypeInv, TypeOK
<1>1. ASSUME NEW w \in Worker, w = v, Become(w, Idle) PROVE Moves(v)
  BY <1>1, IdleIsSituated, OneWorkerChanges DEF Rests
<1>2. CASE UNCHANGED vars
  BY <1>2 DEF vars
<1>3. ASSUME NEW p \in Package, NEW x \in Label, Ship(p, x) PROVE Moves(v)
  BY <1>3 DEF Ship
<1>4. ASSUME NEW w \in Worker, NEW p \in Package, BeginVoid(w, p) PROVE Moves(v)
  <2>1. CASE w = v
    BY <1>4, <2>1, StartTypes DEF BeginVoid, Reads, WithLabel, Start
  <2> QED
    BY <1>4, <2>1, StartTypes DEF BeginVoid, WithLabel
<1>5. ASSUME NEW w \in Worker, NEW p \in Package, BeginTrack(w, p) \/ BeginPrint(w, p)
      PROVE Moves(v)
  <2>1. CASE w = v
    BY <1>5, <2>1, StartTypes DEF BeginTrack, BeginPrint, Reads, WithLabel, Start
  <2> QED
    BY <1>5, <2>1, StartTypes DEF BeginTrack, BeginPrint, WithLabel
<1>6. ASSUME NEW w \in Worker, AskCarrier(w) PROVE Moves(v)
  <2>1. work[w] \in Works /\ work[w].copy \in Label /\ work[w].pc = "void"
    BY <1>6 DEF AskCarrier, At, TypeInv, TypeOK, Situated, WithLabel
  <2>2. CASE Become(w, Idle)
    BY <1>0, <1>1, <2>2
  <2>3. CASE carrier' = [carrier EXCEPT ![work[w].copy] = "voided"] /\ GoTo(w, "clear")
    BY <2>1, <2>3 DEF GoTo, Become, Voids, Works, TypeInv, TypeOK
  <2> QED
    BY <1>6, <2>2, <2>3 DEF AskCarrier, Refused
<1>7. ASSUME NEW w \in Worker, List(w) PROVE Moves(v)
  BY <1>7, ListTypes DEF Loads, List
<1>8. ASSUME NEW w \in Worker, NEW f \in Form, Send(w, f) PROVE Moves(v)
  <2>1. work[w] \in Works
    BY DEF TypeInv, TypeOK
  <2>2. CASE w = v
    <3>1. /\ work'[v].pc = "record" /\ work'[v].form = f
          /\ work'[v].list = work[v].list /\ work'[v].left = work[v].left
      BY <1>8, <2>1, <2>2 DEF Send, Become, Works, TypeInv, TypeOK
    <3> QED
      BY <1>8, <2>2, <3>1 DEF Answered, Send, At
  <2> QED
    BY <1>0, <1>8, <2>2 DEF Send
<1>9. ASSUME NEW w \in Worker, SendTaken(w) PROVE Moves(v)
  <2>1. work[w] \in Works
    BY DEF TypeInv, TypeOK
  <2>2. CASE w = v
    BY <1>9, <2>1, <2>2 DEF SendTaken, At, Become, Works, Answered, TypeInv, TypeOK
  <2> QED
    BY <1>0, <1>9, <2>2 DEF SendTaken
<1>10. ASSUME NEW w \in Worker, MarkExternal(w) PROVE Moves(v)
  <2> DEFINE k == [work[w] EXCEPT !.pc = "send", !.left = work[w].left \ work[w].named,
                                  !.named = {}, !.attempt = work[w].attempt + 1]
  <2>1. work[w] \in Works
    BY DEF TypeInv, TypeOK
  <2>2. k.pc = "send" /\ k.list = work[w].list /\ k.left = work[w].left \ work[w].named
    BY <2>1 DEF Works
  <2>3. Become(w, Idle) \/ Become(w, k)
    BY <1>10 DEF MarkExternal
  <2> HIDE DEF k
  <2>4. CASE w = v /\ Become(w, k)
    <3>1. work'[v] = k
      BY <2>4 DEF Become, TypeInv, TypeOK
    <3>2. work[v].pc = "external"
      BY <1>10, <2>4 DEF MarkExternal, At
    <3> QED
      BY <1>10, <2>2, <2>4, <3>1, <3>2 DEF Marks
  <2> QED
    BY <1>0, <1>1, <2>3, <2>4
<1>11. ASSUME NEW w \in Worker,
              \/ Clear(w) \/ (\E date \in Dates : Record(w, date))
              \/ MarkLabelPrinted(w) \/ SendFails(w) \/ RecordForm(w) \/ Stop(w)
       PROVE Moves(v)
  <2>1. Become(w, Idle)
    BY <1>11 DEF Clear, Record, MarkLabelPrinted, SendFails, RecordForm, Stop
  <2> QED
    BY <1>0, <1>1, <2>1
<1>12. ASSUME NEW w \in Worker, CheckLabel(w) PROVE Moves(v)
  <2>1. work[w] \in Works /\ work[w].pc = "print"
    BY <1>12 DEF CheckLabel, At, TypeInv, TypeOK
  <2>2. CASE Become(w, Idle)
    BY <1>0, <1>1, <2>2
  <2>3. CASE GoTo(w, "mark")
    BY <2>1, <2>3 DEF GoTo, Become, Checks, Works, TypeInv, TypeOK
  <2> QED
    BY <1>12, <2>2, <2>3 DEF CheckLabel
<1> QED
  BY <1>2, <1>3, <1>4, <1>5, <1>6, <1>7, <1>8, <1>9, <1>10, <1>11, <1>12 DEF Next

\* A label that is sold stays sold to its package, a voided one voided, a form
\* and a manifest are for good, and a package gets a label by Ship and loses it
\* by Clear.
LEMMA RowSteps ==
  ASSUME TypeInv, [Next]_vars
  PROVE  /\ \A x \in Label : \/ carrier'[x] = carrier[x] /\ owner'[x] = owner[x]
                             \/ carrier[x] = "live" /\ carrier'[x] = "voided" /\ owner'[x] = owner[x]
                             \/ \E p \in Package : Ship(p, x)
         /\ \A p \in Package : \/ label'[p] = label[p]
                               \/ \E x \in Label : Ship(p, x)
                               \/ /\ label'[p] = None
                                  /\ \E w \in Worker : Clear(w) /\ work[w].package = p
         /\ \A x \in Label : onForm[x] # None => onForm'[x] = onForm[x]
         /\ \A p \in Package : manifest[p] # None => manifest'[p] # None
<1> USE DEF rowVars, carrierVars, ghostVars
<1>1. CASE UNCHANGED vars
  BY <1>1 DEF vars
<1>2. ASSUME NEW p \in Package, NEW x \in Label, Ship(p, x)
      PROVE  /\ \A y \in Label : y # x => carrier'[y] = carrier[y] /\ owner'[y] = owner[y]
             /\ \A q \in Package : q # p => label'[q] = label[q]
             /\ UNCHANGED <<onForm, manifest>>
  BY <1>2 DEF Ship, TypeInv, TypeOK
<1>3. ASSUME NEW w \in Worker, AskCarrier(w)
      PROVE  /\ \A x \in Label : \/ carrier'[x] = carrier[x]
                                 \/ carrier[x] = "live" /\ carrier'[x] = "voided"
             /\ UNCHANGED <<owner, label, onForm, manifest>>
  BY <1>3 DEF AskCarrier, TypeInv, TypeOK
<1>4. ASSUME NEW w \in Worker, Clear(w)
      PROVE  /\ UNCHANGED <<carrier, owner, onForm, manifest>>
             /\ \A p \in Package : \/ label'[p] = label[p]
                                   \/ label'[p] = None /\ work[w].package = p
  BY <1>4 DEF Clear, TypeInv, TypeOK
<1>5. ASSUME NEW w \in Worker, NEW f \in Form, Send(w, f)
      PROVE  /\ UNCHANGED <<carrier, owner, label, manifest>>
             /\ \A x \in Label : onForm[x] # None => onForm'[x] = onForm[x]
  BY <1>5 DEF Send, Taken, TypeInv, TypeOK
<1>6. ASSUME NEW w \in Worker, MarkExternal(w) \/ RecordForm(w)
      PROVE  /\ UNCHANGED <<carrier, owner, label, onForm>>
             /\ \A p \in Package : manifest[p] # None => manifest'[p] # None
  <2>1. External # None /\ \A f \in Form : f # None
    BY LifecycleAssumption
  <2>2. At(w, "record") => work[w].form \in Form
    BY DEF At, TypeInv, Situated
  <2> QED
    BY <1>6, <2>1, <2>2 DEF MarkExternal, RecordForm
<1>7. ASSUME NEW w \in Worker,
             \/ \E p \in Package : BeginVoid(w, p) \/ BeginTrack(w, p) \/ BeginPrint(w, p)
             \/ \E date \in Dates : Record(w, date)
             \/ CheckLabel(w) \/ MarkLabelPrinted(w) \/ List(w) \/ SendTaken(w)
             \/ SendFails(w) \/ Stop(w)
      PROVE  UNCHANGED <<carrier, owner, label, onForm, manifest>>
  BY <1>7 DEF BeginVoid, BeginTrack, BeginPrint, Record, CheckLabel, MarkLabelPrinted, List,
              SendTaken, SendFails, Stop
<1> QED
  BY <1>1, <1>2, <1>3, <1>4, <1>5, <1>6, <1>7 DEF Next

(***************************************************************************)
(* Whose label it is: the labels on rows and in the memory of workers were *)
(* bought for the packages they are with.                                  *)
(***************************************************************************)
Owned(k) ==
  /\ k.pc \in WithLabel => owner[k.copy] = k.package
  /\ k.pc \in WithList => \A p \in Package : k.list[p] # None => owner[k.list[p]] = p

OwnerInv ==
  /\ \A x \in Label : carrier[x] = "unsold" <=> owner[x] = None
  /\ \A p \in Package : label[p] # None => owner[label[p]] = p
  /\ \A w \in Worker : Owned(work[w])

\* What is sold stays with its package.
LEMMA OwnerStays ==
  ASSUME TypeInv, OwnerInv, [Next]_vars, NEW x \in Label, owner[x] # None
  PROVE  owner'[x] = owner[x] /\ carrier[x] # "unsold"
<1>1. carrier[x] # "unsold"
  BY DEF OwnerInv
<1>2. \A p \in Package : ~Ship(p, x)
  BY <1>1 DEF Ship
<1> QED
  BY <1>1, <1>2, RowSteps

LEMMA OwnerStep ==
  ASSUME TypeInv, OwnerInv, [Next]_vars
  PROVE  OwnerInv'
<1>1. \A x \in Label : carrier'[x] = "unsold" <=> owner'[x] = None
  <2>1. \A p \in Package, x \in Label :
          Ship(p, x) => carrier'[x] = "live" /\ owner'[x] = p /\ p # None
    BY LifecycleAssumption DEF Ship, TypeInv, TypeOK
  <2> QED
    BY <2>1, RowSteps DEF OwnerInv
<1>2. ASSUME NEW p \in Package, label'[p] # None PROVE owner'[label'[p]] = p
  <2>1. CASE label'[p] = label[p]
    <3>1. label[p] \in Label /\ owner[label[p]] = p /\ p # None
      BY <1>2, <2>1, LifecycleAssumption DEF OwnerInv, TypeInv, TypeOK, Labels
    <3> QED
      BY <2>1, <3>1, OwnerStays
  <2>2. ASSUME NEW x \in Label, Ship(p, x) PROVE owner'[label'[p]] = p
    BY <2>2 DEF Ship, TypeInv, TypeOK
  <2> QED
    BY <1>2, <2>1, <2>2, RowSteps
<1>3. ASSUME NEW v \in Worker PROVE Owned(work[v])'
  <2>1. Situated(work[v]) /\ work[v] \in Works /\ Owned(work[v])
    BY DEF TypeInv, TypeOK, OwnerInv
  <2>2. ASSUME work[v].pc \in WithLabel PROVE owner'[work[v].copy] = work[v].package
    BY <2>1, <2>2, OwnerStays, LifecycleAssumption DEF Situated, Owned
  <2>3. ASSUME work[v].pc \in WithList, NEW p \in Package, work[v].list[p] # None
        PROVE  owner'[work[v].list[p]] = p
    <3>1. work[v].list[p] \in Label /\ owner[work[v].list[p]] = p /\ p # None
      BY <2>1, <2>3, LifecycleAssumption DEF Owned, Works, Labels
    <3> QED
      BY <3>1, OwnerStays
  <2>4. CASE work'[v] = work[v]
    BY <2>2, <2>3, <2>4 DEF Owned
  <2>5. CASE Rests(v)
    BY <2>5 DEF Rests, Owned, WithLabel, WithList
  <2>6. CASE Reads(v)
    BY <2>6 DEF Reads, Owned, WithLabel, WithList, OwnerInv, carrierVars
  <2>7. CASE Loads(v)
    BY <2>7 DEF Loads, Owned, WithLabel, WithList, OwnerInv, carrierVars
  <2>8. CASE Voids(v) \/ Checks(v)
    BY <2>2, <2>8 DEF Voids, Checks, Owned, WithLabel, WithList
  <2>9. CASE Answered(v) \/ Marks(v)
    BY <2>3, <2>9 DEF Answered, Marks, Owned, WithLabel, WithList
  <2> QED
    BY <2>4, <2>5, <2>6, <2>7, <2>8, <2>9, WorkSteps DEF Moves
<1> QED
  BY <1>1, <1>2, <1>3 DEF OwnerInv

LEMMA OwnerInvariant == Spec => []OwnerInv
<1>1. Init => OwnerInv
  BY IdleIsSituated DEF Init, OwnerInv, Owned, WithLabel, WithList, Idle
<1> QED
  BY <1>1, OwnerStep, TypeInvariant, PTL DEF Spec

(***************************************************************************)
(* Voids. As long as nobody else is voiding its package, a worker that     *)
(* voids has the label that is on it, and clears it when that is void.     *)
(***************************************************************************)
Alone(p) == \A v, w \in Worker : Voiding(v, p) /\ Voiding(w, p) => v = w

VoidInv ==
  \A p \in Package : p \notin doubled =>
    /\ Alone(p)
    /\ \A w \in Worker : Voiding(w, p) =>
         /\ label[p] = work[w].copy
         /\ work[w].pc = "clear" => carrier[work[w].copy] = "voided"

LEMMA VoidStep ==
  ASSUME TypeInv, OwnerInv, VoidInv, [Next]_vars
  PROVE  VoidInv'
<1> SUFFICES ASSUME NEW p \in Package, p \notin doubled'
             PROVE  /\ Alone(p)'
                    /\ \A w \in Worker : Voiding(w, p)' =>
                         /\ label'[p] = work'[w].copy
                         /\ work'[w].pc = "clear" => carrier'[work'[w].copy] = "voided"
  BY DEF VoidInv
<1> USE DEF rowVars, carrierVars, ghostVars
<1>1. p \notin doubled
  BY DEF Next, vars, Ship, BeginVoid, BeginTrack, BeginPrint, AskCarrier, Clear, Record,
         CheckLabel, MarkLabelPrinted, List, Send, SendTaken, SendFails, MarkExternal,
         RecordForm, Stop
<1>2. Alone(p)
  BY <1>1 DEF VoidInv
\* A new voider is the only one, or the package is doubled.
<1>3. ASSUME NEW v \in Worker, Voiding(v, p)', ~Voiding(v, p)
      PROVE  BeginVoid(v, p) /\ work'[v].pc = "void" /\ work'[v].copy = label[p]
             /\ UNCHANGED label
  BY <1>3, WorkSteps DEF Moves, Rests, Reads, Loads, Voids, Checks, Answered, Marks,
                      Voiding, WithLabel
<1>4. ASSUME NEW v \in Worker, BeginVoid(v, p)
      PROVE  \A w \in Worker : w # v => ~Voiding(w, p)'
  <2>1. \A w \in Worker \ {v} : ~Voiding(w, p)
    BY <1>4 DEF BeginVoid
  <2>2. \A w \in Worker : w # v => work'[w] = work[w]
    BY <1>4, StartTypes DEF BeginVoid, WithLabel
  <2> QED
    BY <2>1, <2>2 DEF Voiding
<1>5. Alone(p)'
  BY <1>2, <1>3, <1>4 DEF Alone
<1>6. ASSUME NEW w \in Worker, Voiding(w, p)', Voiding(w, p)
      PROVE  /\ label'[p] = work'[w].copy
             /\ work'[w].pc = "clear" => carrier'[work'[w].copy] = "voided"
  <2>1. /\ label[p] = work[w].copy
        /\ work[w].pc = "clear" => carrier[work[w].copy] = "voided"
        /\ work[w].copy \in Label
    BY <1>1, <1>6 DEF VoidInv, Voiding, TypeInv, Situated, WithLabel
  <2>2. /\ work'[w].copy = work[w].copy
        /\ \/ work'[w].pc = work[w].pc
           \/ carrier'[work[w].copy] = "voided"
    <3>1. work'[w].pc # "idle" /\ work[w].pc \in {"void", "clear"}
      BY <1>6 DEF Voiding
    <3>2. ~Reads(w)
      <4>1. ASSUME Reads(w) PROVE FALSE
        <5>1. BeginVoid(w, work'[w].package)
          BY <1>6, <4>1 DEF Reads, Voiding
        <5> QED
          BY <3>1, <5>1 DEF BeginVoid, Start, At
      <4> QED
        BY <4>1
    <3> QED
      BY <1>6, <3>1, <3>2, WorkSteps DEF Moves, Rests, Loads, Voids, Checks, Answered, Marks,
                            Voiding
  <2>3. label'[p] = label[p]
    <3>1. \A x \in Label : ~Ship(p, x)
      BY <2>1, LifecycleAssumption DEF Ship
    <3>2. \A v \in Worker : Clear(v) /\ work[v].package = p => FALSE
      <4> SUFFICES ASSUME NEW v \in Worker, Clear(v), work[v].package = p PROVE FALSE
        OBVIOUS
      <4>1. Voiding(v, p)
        BY DEF Clear, At, Voiding
      <4>2. v = w
        BY <1>2, <1>6, <4>1 DEF Alone
      <4>3. work'[v] = Idle
        BY IdleIsSituated, OneWorkerChanges DEF Clear
      <4> QED
        BY <1>6, <4>2, <4>3, IdleIsSituated DEF Voiding
    <3> QED
      BY <3>1, <3>2, RowSteps
  <2>4. carrier[work[w].copy] = "voided" => carrier'[work[w].copy] = "voided"
    <3>1. carrier[work[w].copy] = "voided" => \A q \in Package : ~Ship(q, work[w].copy)
      BY DEF Ship
    <3> QED
      BY <2>1, <3>1, RowSteps
  <2> QED
    BY <2>1, <2>2, <2>3, <2>4
<1> QED
  BY <1>3, <1>5, <1>6

LEMMA VoidInvariant == Spec => []VoidInv
<1>1. Init => VoidInv
  BY IdleIsSituated DEF Init, VoidInv, Alone, Voiding
<1> QED
  BY <1>1, VoidStep, TypeInvariant, OwnerInvariant, PTL DEF Spec

LEMMA DoubledGrows == [Next]_vars => doubled \subseteq doubled'
  BY DEF Next, vars, rowVars, carrierVars, ghostVars, Ship, BeginVoid, BeginTrack, BeginPrint,
         AskCarrier, Clear, Record, CheckLabel, MarkLabelPrinted, List, Send, SendTaken, SendFails,
         MarkExternal, RecordForm, Stop

LEMMA LiveStep ==
  ASSUME TypeInv, OwnerInv, VoidInv, LiveLabelIsOnRecord, [Next]_vars
  PROVE  LiveLabelIsOnRecord'
<1> SUFFICES ASSUME NEW x \in Label, carrier'[x] = "live", owner'[x] \notin doubled'
             PROVE  label'[owner'[x]] = x
  BY DEF LiveLabelIsOnRecord
<1>1. CASE carrier'[x] = carrier[x] /\ owner'[x] = owner[x]
  <2> DEFINE p == owner[x]
  <2>1. p \in Package /\ p \notin doubled
    BY <1>1, DoubledGrows DEF OwnerInv, TypeInv, TypeOK
  <2>2. label[p] = x
    BY <1>1, <2>1 DEF LiveLabelIsOnRecord
  <2>3. \A y \in Label : ~Ship(p, y)
    BY <2>2, LifecycleAssumption DEF Ship
  <2>4. ASSUME NEW w \in Worker, Clear(w), work[w].package = p PROVE FALSE
    <3>1. Voiding(w, p) /\ work[w].pc = "clear"
      BY <2>4 DEF Clear, At, Voiding
    <3> QED
      BY <1>1, <2>1, <2>2, <3>1 DEF VoidInv
  <2> QED
    BY <1>1, <2>1, <2>2, <2>3, <2>4, RowSteps
<1>2. ASSUME NEW p \in Package, Ship(p, x) PROVE label'[owner'[x]] = x
  BY <1>2 DEF Ship, TypeInv, TypeOK
<1> QED
  BY <1>1, <1>2, RowSteps

\* A package keeps a label that is still good at the carrier, unless two workers
\* voided it at the same time.
THEOREM GoodLabelIsKept == Spec => []LiveLabelIsOnRecord
<1>1. Init => LiveLabelIsOnRecord
  BY DEF Init, LiveLabelIsOnRecord
<1> QED
  BY <1>1, LiveStep, TypeInvariant, OwnerInvariant, VoidInvariant, PTL DEF Spec

(***************************************************************************)
(* What is told of a label.                                                *)
(***************************************************************************)

\* The tracking and print columns speak of the label on the row, unless somebody
\* was answered too late.
THEOREM ToldOfTheRightLabel == Spec => []RowSpeaksOfItsLabel
<1>1. Init => RowSpeaksOfItsLabel
  BY DEF Init, RowSpeaksOfItsLabel
<1>2. TypeInv /\ RowSpeaksOfItsLabel /\ [Next]_vars => RowSpeaksOfItsLabel'
  <2> SUFFICES ASSUME TypeInv, RowSpeaksOfItsLabel, [Next]_vars,
                      NEW p \in Package, p \notin mixed', label'[p] # None
               PROVE  {tracked'[p], delivered'[p], printed'[p]} \subseteq {label'[p], None}
    BY DEF RowSpeaksOfItsLabel
  <2> USE DEF rowVars, carrierVars, ghostVars
  <2>1. CASE UNCHANGED <<label, tracked, delivered, printed, mixed>>
    BY <2>1 DEF RowSpeaksOfItsLabel
  <2>2. ASSUME NEW q \in Package, NEW x \in Label, Ship(q, x)
        PROVE  {tracked'[p], delivered'[p], printed'[p]} \subseteq {label'[p], None}
    BY <2>2 DEF Ship, Blank, RowSpeaksOfItsLabel, TypeInv, TypeOK
  <2>3. ASSUME NEW w \in Worker, Clear(w)
        PROVE  {tracked'[p], delivered'[p], printed'[p]} \subseteq {label'[p], None}
    BY <2>3 DEF Clear, Blank, RowSpeaksOfItsLabel, TypeInv, TypeOK
  <2>4. ASSUME NEW w \in Worker, NEW date \in Dates, Record(w, date)
        PROVE  {tracked'[p], delivered'[p], printed'[p]} \subseteq {label'[p], None}
    <3>1. p \notin mixed /\ (work[w].package = p => label[p] = work[w].copy)
      BY <2>4 DEF Record, Mix
    <3> QED
      BY <2>4, <3>1 DEF Record, DateAfter, RowSpeaksOfItsLabel, TypeInv, TypeOK
  <2>5. ASSUME NEW w \in Worker, MarkLabelPrinted(w)
        PROVE  {tracked'[p], delivered'[p], printed'[p]} \subseteq {label'[p], None}
    <3>1. p \notin mixed /\ (work[w].package = p => label[p] = work[w].copy)
      BY <2>5 DEF MarkLabelPrinted, Mix
    <3> QED
      BY <2>5, <3>1 DEF MarkLabelPrinted, RowSpeaksOfItsLabel, TypeInv, TypeOK
  <2> QED
    BY <2>1, <2>2, <2>3, <2>4, <2>5
    DEF Next, vars, BeginVoid, BeginTrack, BeginPrint, AskCarrier, CheckLabel, List, Send, SendTaken,
        SendFails, MarkExternal, RecordForm, Stop
<1> QED
  BY <1>1, <1>2, TypeInvariant, PTL DEF Spec

(***************************************************************************)
(* Deliveries. A check that was under way when a date came in has a copy   *)
(* without it, and one that has a date on its copy was loaded from a row   *)
(* that keeps a date as long as it keeps the label.                        *)
(***************************************************************************)
DeliveryInv ==
  /\ DeliveryIsRemembered
  /\ \A w \in Worker :
       At(w, "track") /\ label[work[w].package] = work[w].copy /\ work[w].seen # None
         => delivered[work[w].package] # None
  /\ \A x \in reported : owner[x] # None

\* A date of delivery leaves a row with its label only.
LEMMA DatesStay ==
  ASSUME TypeInv, [Next]_vars, NEW p \in Package,
         delivered[p] # None, label[p] # None, label'[p] = label[p]
  PROVE  delivered'[p] # None
<1> USE DEF rowVars, carrierVars, ghostVars
<1>1. CASE UNCHANGED delivered
  BY <1>1
<1>2. ASSUME NEW q \in Package, NEW x \in Label, Ship(q, x) PROVE delivered'[p] # None
  BY <1>2 DEF Ship, Blank, TypeInv, TypeOK
<1>3. ASSUME NEW w \in Worker, Clear(w) PROVE delivered'[p] # None
  BY <1>3 DEF Clear, Blank, TypeInv, TypeOK
<1>4. ASSUME NEW w \in Worker, NEW date \in Dates, Record(w, date)
      PROVE  delivered'[p] # None
  <2>1. work[w].copy # None
    BY <1>4, LifecycleAssumption DEF Record, At, TypeInv, Situated, WithLabel
  <2> QED
    BY <1>4, <2>1 DEF Record, DateAfter, TypeInv, TypeOK
<1> QED
  BY <1>1, <1>2, <1>3, <1>4
  DEF Next, vars, BeginVoid, BeginTrack, BeginPrint, AskCarrier, CheckLabel, MarkLabelPrinted,
      List, Send, SendTaken, SendFails, MarkExternal, RecordForm, Stop

\* A package gets a label that nobody had before.
LEMMA NewLabels ==
  ASSUME TypeInv, OwnerInv, [Next]_vars, NEW p \in Package,
         label'[p] # None, owner[label'[p]] # None
  PROVE  label'[p] = label[p]
<1>1. ASSUME NEW x \in Label, Ship(p, x) PROVE FALSE
  <2>1. label'[p] = x /\ carrier[x] = "unsold"
    BY <1>1 DEF Ship, TypeInv, TypeOK
  <2> QED
    BY <2>1 DEF OwnerInv
<1> QED
  BY <1>1, RowSteps

LEMMA DeliveryStep ==
  ASSUME TypeInv, OwnerInv, DeliveryInv, [Next]_vars
  PROVE  DeliveryInv'
<1> USE DEF rowVars, carrierVars, ghostVars
\* What is reported in a step is the label of a worker that has been answered.
<1>1. ASSUME NEW x \in reported', x \notin reported
      PROVE  \E w \in Worker, date \in {"new", "known"} :
               Record(w, date) /\ x = work[w].copy
  BY <1>1 DEF Next, vars, Ship, BeginVoid, BeginTrack, BeginPrint, AskCarrier, Clear, Record,
              CheckLabel, MarkLabelPrinted, List, Send, SendTaken, SendFails, MarkExternal,
              RecordForm, Stop, Dates
<1>2. ASSUME NEW w \in Worker, NEW date \in {"new", "known"}, Record(w, date)
      PROVE  /\ work[w].package \in Package /\ work[w].copy \in Label
             /\ owner[work[w].copy] = work[w].package
             /\ UNCHANGED <<label, owner>>
  BY <1>2 DEF Record, At, TypeInv, Situated, OwnerInv, Owned, WithLabel
<1>3. ASSUME NEW x \in reported' PROVE x \in Label /\ owner[x] # None
  <2>1. CASE x \in reported
    BY <2>1 DEF DeliveryInv, TypeInv, TypeOK
  <2>2. CASE x \notin reported
    BY <1>1, <1>2, <2>2, LifecycleAssumption
  <2> QED
    BY <2>1, <2>2
<1>4. ASSUME NEW p \in Package, label'[p] \in reported' PROVE delivered'[p] # None
  <2>1. label'[p] = label[p] /\ label[p] \in Label /\ label[p] # None
    BY <1>3, <1>4, NewLabels, LifecycleAssumption
  <2>2. CASE label[p] \in reported
    BY <2>1, <2>2, DatesStay DEF DeliveryInv, DeliveryIsRemembered
  <2>3. CASE label[p] \notin reported
    <3>1. PICK w \in Worker, date \in {"new", "known"} :
            Record(w, date) /\ label[p] = work[w].copy
      BY <1>1, <1>4, <2>1, <2>3
    <3>2. p = work[w].package
      BY <1>2, <2>1, <3>1 DEF OwnerInv
    <3>3. CASE date = "new"
      BY <2>1, <3>1, <3>2, <3>3 DEF Record, DateAfter, TypeInv, TypeOK
    <3>4. CASE date = "known"
      <4>1. delivered[p] # None
        BY <3>1, <3>2, <3>4 DEF Record, DeliveryInv
      <4> QED
        BY <2>1, <4>1, DatesStay
    <3> QED
      BY <3>1, <3>3, <3>4
  <2> QED
    BY <2>2, <2>3
<1>5. ASSUME NEW w \in Worker, work'[w].pc = "track",
             label'[work'[w].package] = work'[w].copy, work'[w].seen # None
      PROVE  delivered'[work'[w].package] # None
  <2>1. CASE work'[w] = work[w]
    <3> DEFINE p == work[w].package
    <3>1. /\ work[w].pc = "track" /\ p \in Package /\ work[w].copy \in Label
          /\ owner[work[w].copy] # None /\ work[w].copy # None
      BY <1>5, <2>1, LifecycleAssumption DEF TypeInv, Situated, OwnerInv, Owned, WithLabel
    <3>2. label'[p] = label[p] /\ label[p] = work[w].copy
      BY <1>5, <2>1, <3>1, NewLabels
    <3>3. delivered[p] # None
      BY <1>5, <2>1, <3>1, <3>2 DEF DeliveryInv, At
    <3> QED
      BY <2>1, <3>1, <3>2, <3>3, DatesStay
  <2>2. CASE Reads(w)
    BY <1>5, <2>2 DEF Reads
  <2> QED
    BY <1>5, <2>1, <2>2, WorkSteps DEF Moves, Rests, Loads, Voids, Checks, Answered, Marks
<1>6. \A x \in reported' : owner'[x] # None
  BY <1>3, OwnerStays
<1> QED
  BY <1>4, <1>5, <1>6 DEF DeliveryInv, DeliveryIsRemembered, At

\* Whatever checks are under way, and whatever they were loaded with, a label that
\* was recorded as delivered has a date of delivery as long as its package keeps it.
THEOREM DeliveryStays == Spec => []DeliveryIsRemembered
<1>1. Init => DeliveryInv
  BY IdleIsSituated, LifecycleAssumption DEF Init, DeliveryInv, DeliveryIsRemembered, At
<1>2. Spec => []DeliveryInv
  BY <1>1, DeliveryStep, TypeInvariant, OwnerInvariant, PTL DEF Spec
<1> QED
  BY <1>2, PTL DEF DeliveryInv

(***************************************************************************)
(* SCAN forms. A run that is to record its form knows that USPS has the    *)
(* labels of its request on it; and what a run has dropped is on a         *)
(* manifest, unless the package has lost the label that was listed.        *)
(***************************************************************************)
FormInv ==
  /\ FormsHoldTheirLabels
  /\ \A w \in Worker :
       At(w, "record") => \A p \in work[w].left : onForm[work[w].list[p]] = work[w].form

RunInv ==
  \A w \in Worker : work[w].pc \in WithList =>
    \A p \in Package :
      work[w].list[p] # None /\ p \notin work[w].left =>
        manifest[p] # None \/ label[p] # work[w].list[p]

LEMMA FormStep ==
  ASSUME TypeInv, OwnerInv, FormInv, [Next]_vars
  PROVE  FormInv'
<1> USE DEF rowVars, carrierVars, ghostVars
<1>1. ASSUME NEW p \in Package, NEW f \in Form, manifest[p] = f
      PROVE  \E x \in Label : owner'[x] = p /\ onForm'[x] = f
  <2>1. PICK x \in Label : owner[x] = p /\ onForm[x] = f
    BY <1>1 DEF FormInv, FormsHoldTheirLabels
  <2>2. p # None /\ f # None
    BY LifecycleAssumption
  <2> QED
    BY <2>1, <2>2, OwnerStays, RowSteps
<1>2. \A p \in Package : manifest'[p] \in Form =>
        \/ manifest'[p] = manifest[p]
        \/ \E w \in Worker : RecordForm(w) /\ p \in work[w].left /\ manifest'[p] = work[w].form
  <2>1. External \notin Form
    BY LifecycleAssumption
  <2>2. ASSUME NEW w \in Worker, MarkExternal(w), NEW p \in Package, manifest'[p] \in Form
        PROVE  manifest'[p] = manifest[p]
    BY <2>1, <2>2 DEF MarkExternal
  <2>3. ASSUME NEW w \in Worker, RecordForm(w), NEW p \in Package
        PROVE  manifest'[p] = manifest[p] \/ (p \in work[w].left /\ manifest'[p] = work[w].form)
    BY <2>3 DEF RecordForm, Requested
  <2> QED
    BY <2>2, <2>3
    DEF Next, vars, Ship, BeginVoid, BeginTrack, BeginPrint, AskCarrier, Clear, Record,
        CheckLabel, MarkLabelPrinted, List, Send, SendTaken, SendFails, Stop
<1>3. ASSUME NEW p \in Package, manifest'[p] \in Form
      PROVE  \E x \in Label : owner'[x] = p /\ onForm'[x] = manifest'[p]
  <2>1. CASE manifest'[p] = manifest[p]
    BY <1>1, <1>3, <2>1
  <2>2. ASSUME NEW w \in Worker, RecordForm(w), p \in work[w].left, manifest'[p] = work[w].form
        PROVE  \E x \in Label : owner'[x] = p /\ onForm'[x] = manifest'[p]
    <3> DEFINE x == work[w].list[p]
    <3>1. work[w].pc = "record" /\ x \in Label
      BY <2>2 DEF RecordForm, At, TypeInv, Situated, WithList
    <3>2. owner[x] = p /\ onForm[x] = work[w].form
      BY <2>2, <3>1, LifecycleAssumption DEF FormInv, At, OwnerInv, Owned, WithList
    <3>3. UNCHANGED <<owner, onForm>>
      BY <2>2 DEF RecordForm
    <3> QED
      BY <2>2, <3>1, <3>2, <3>3
  <2> QED
    BY <1>2, <1>3, <2>1, <2>2
<1>4. ASSUME NEW w \in Worker, work'[w].pc = "record", NEW p \in work'[w].left
      PROVE  onForm'[work'[w].list[p]] = work'[w].form
  <2>1. CASE work'[w] = work[w]
    <3> DEFINE x == work[w].list[p]
    <3>1. x \in Label /\ onForm[x] = work[w].form /\ work[w].form # None
      BY <1>4, <2>1, LifecycleAssumption DEF FormInv, At, TypeInv, Situated, WithList
    <3> QED
      BY <2>1, <3>1, RowSteps
  <2>2. CASE Answered(w)
    <3>1. p \in work[w].left /\ work[w].list[p] \in Label
      BY <1>4, <2>2 DEF Answered, TypeInv, Situated, WithList
    <3>2. Send(w, work'[w].form)
      BY <1>4, <2>2 DEF Answered
    <3> QED
      BY <2>2, <3>1, <3>2 DEF Answered, Send
  <2> QED
    BY <1>4, <2>1, <2>2, WorkSteps DEF Moves, Rests, Reads, Loads, Voids, Checks, Marks, WithLabel
<1> QED
  BY <1>3, <1>4 DEF FormInv, FormsHoldTheirLabels, At

\* A package recorded on a form has had a label on that form, whichever runs
\* crossed or died.
THEOREM FormsAreTrue == Spec => []FormsHoldTheirLabels
<1>1. Init => FormInv
  BY IdleIsSituated, LifecycleAssumption DEF Init, FormInv, FormsHoldTheirLabels, At
<1>2. Spec => []FormInv
  BY <1>1, FormStep, TypeInvariant, OwnerInvariant, PTL DEF Spec
<1> QED
  BY <1>2, PTL DEF FormInv

LEMMA RunStep ==
  ASSUME TypeInv, OwnerInv, RunInv, [Next]_vars
  PROVE  RunInv'
<1> USE DEF rowVars, carrierVars, ghostVars
<1> SUFFICES ASSUME NEW w \in Worker, work'[w].pc \in WithList, NEW p \in Package,
                    work'[w].list[p] # None, p \notin work'[w].left
             PROVE  manifest'[p] # None \/ label'[p] # work'[w].list[p]
  BY DEF RunInv
<1>1. ASSUME work[w].pc \in WithList, work[w].list[p] # None,
             manifest[p] # None \/ label[p] # work[w].list[p]
      PROVE  manifest'[p] # None \/ label'[p] # work[w].list[p]
  <2> DEFINE x == work[w].list[p]
  <2>1. x \in Label /\ owner[x] # None
    BY <1>1, LifecycleAssumption DEF OwnerInv, Owned, TypeInv, TypeOK, Works, Labels
  <2>2. ~Ship(p, x)
    BY <2>1, OwnerStays DEF Ship
  <2>3. ASSUME NEW y \in Label, Ship(p, y) PROVE label'[p] = y
    BY <2>3 DEF Ship, TypeInv, TypeOK
  <2> QED
    BY <1>1, <2>1, <2>2, <2>3, LifecycleAssumption, RowSteps
<1>2. CASE work'[w] = work[w] \/ Answered(w)
  <2>1. /\ work[w].pc \in WithList /\ work'[w].list = work[w].list
        /\ work'[w].left = work[w].left
    BY <1>2 DEF Answered, WithList
  <2> QED
    BY <1>1, <2>1 DEF RunInv
<1>3. CASE Loads(w)
  BY <1>3 DEF Loads
<1>4. CASE Marks(w)
  <2>1. /\ work[w].pc = "external" /\ work'[w].list = work[w].list
        /\ p \notin work[w].left \/ p \in work[w].named
        /\ MarkExternal(w)
    BY <1>4 DEF Marks
  <2>2. CASE p \notin work[w].left
    BY <1>1, <2>1, <2>2 DEF RunInv, WithList
  <2>3. CASE p \in work[w].named /\ manifest[p] = None /\ label[p] = work[w].list[p]
    <3>1. p \in Externally(w)
      BY <2>3 DEF Externally
    <3> QED
      BY <2>1, <3>1, LifecycleAssumption DEF MarkExternal
  <2>4. CASE manifest[p] # None \/ label[p] # work[w].list[p]
    BY <1>1, <2>1, <2>4 DEF WithList
  <2> QED
    BY <2>1, <2>2, <2>3, <2>4
<1> QED
  BY <1>2, <1>3, <1>4, WorkSteps DEF Moves, Rests, Reads, Voids, Checks, WithLabel, WithList

\* A run of a manifest ends by these two, if it does not stop short.
LEMMA Ends ==
  ASSUME TypeInv, [Next]_vars, NEW w \in Worker, work[w].pc \in {"external", "record"},
         work'[w].pc = "idle", mishaps' = mishaps
  PROVE  (At(w, "external") /\ MarkExternal(w)) \/ (At(w, "record") /\ RecordForm(w))
<1> USE DEF rowVars, carrierVars, ghostVars
<1>1. ASSUME NEW v \in Worker, NEW k, Become(v, k) PROVE v = w
  BY <1>1 DEF Become, TypeInv, TypeOK
<1>2. mishaps + 1 # mishaps
  BY DEF TypeInv, TypeOK
<1>3. work' # work
  BY DEF TypeInv, TypeOK
<1>4. ~\E p \in Package, x \in Label : Ship(p, x)
  BY <1>3 DEF Ship
<1>5. ASSUME NEW v \in Worker, NEW p \in Package
      PROVE  ~(BeginVoid(v, p) \/ BeginTrack(v, p) \/ BeginPrint(v, p))
  BY <1>1 DEF BeginVoid, BeginTrack, BeginPrint, Start, At
<1>6. ASSUME NEW v \in Worker
      PROVE  /\ ~AskCarrier(v) /\ ~Clear(v) /\ ~CheckLabel(v) /\ ~MarkLabelPrinted(v)
             /\ ~List(v) /\ ~SendTaken(v) /\ ~SendFails(v) /\ ~Stop(v)
             /\ \A date \in Dates : ~Record(v, date)
             /\ \A f \in Form : ~Send(v, f)
  BY <1>1, <1>2 DEF AskCarrier, Refused, GoTo, Clear, CheckLabel, MarkLabelPrinted, List,
                    SendTaken, SendFails, Stop, Record, Send, At
<1>7. ASSUME NEW v \in Worker, MarkExternal(v) \/ RecordForm(v) PROVE v = w
  BY <1>1, <1>7 DEF MarkExternal, RecordForm
<1> QED
  BY <1>3, <1>4, <1>5, <1>6, <1>7 DEF Next, vars, MarkExternal, RecordForm

\* A run that ends, and neither stops short nor gives up, leaves no package whose
\* label USPS has on a form without a manifest.
THEOREM NothingLeftBehind == Spec => RunRecordsItsForms
<1>1. Init => RunInv
  BY IdleIsSituated DEF Init, RunInv, WithList
<1>2. Spec => []RunInv
  BY <1>1, RunStep, TypeInvariant, OwnerInvariant, PTL DEF Spec
<1>3. TypeInv /\ RunInv /\ [Next]_vars =>
       [\A w \in Worker :
         /\ At(w, "record") \/ (At(w, "external") /\ ~GivesUp(w))
         /\ work'[w].pc = "idle" /\ mishaps' = mishaps
         => \A p \in Package :
              LET x == work[w].list[p] IN
              x # None /\ label[p] = x /\ onForm[x] # None => manifest'[p] # None]_vars
  <2> SUFFICES ASSUME TypeInv, RunInv, [Next]_vars, NEW w \in Worker,
                      At(w, "record") \/ (At(w, "external") /\ ~GivesUp(w)),
                      work'[w].pc = "idle", mishaps' = mishaps,
                      NEW p \in Package, work[w].list[p] # None, label[p] = work[w].list[p]
               PROVE  manifest'[p] # None
    OBVIOUS
  <2>1. work[w].pc \in WithList
    BY DEF At, WithList
  <2>2. CASE p \notin work[w].left
    BY <2>1, <2>2, RowSteps DEF RunInv
  <2>3. CASE p \in work[w].left /\ At(w, "record") /\ RecordForm(w)
    <3>1. work[w].form \in Form /\ work[w].form # None
      BY <2>3, LifecycleAssumption DEF At, TypeInv, Situated
    <3> QED
      BY <2>3, <3>1 DEF RecordForm, Requested
  <2>4. CASE p \in work[w].left /\ At(w, "external") /\ MarkExternal(w) /\ ~GivesUp(w)
    <3>1. p \in work[w].named
      <4>1. CASE work[w].attempt + 1 # Attempts /\ ~(work[w].left \subseteq work[w].named)
        <5> DEFINE k == [work[w] EXCEPT !.pc = "send", !.left = work[w].left \ work[w].named,
                                        !.named = {}, !.attempt = work[w].attempt + 1]
        <5>1. Become(w, k)
          BY <2>4, <4>1 DEF MarkExternal
        <5>2. k.pc = "send"
          BY DEF TypeInv, TypeOK, Works
        <5> HIDE DEF k
        <5> QED
          BY <5>1, <5>2 DEF Become, TypeInv, TypeOK
      <4> QED
        BY <2>4, <4>1 DEF GivesUp
    <3>2. manifest[p] = None => p \in Externally(w)
      BY <3>1 DEF Externally
    <3> QED
      BY <2>4, <3>2, LifecycleAssumption DEF MarkExternal
  <2> QED
    BY <2>2, <2>3, <2>4, Ends DEF At
<1> QED
  BY <1>2, <1>3, TypeInvariant, PTL DEF Spec, RunRecordsItsForms
=============================================================================
