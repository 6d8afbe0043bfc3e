------------------------ MODULE PackageExport_proofs ------------------------
(***************************************************************************)
(* Proofs, for every value of the constants, of what the runs of           *)
(* PackageExport check on small instances.                                 *)
(***************************************************************************)
EXTENDS PackageExport, TLAPS

(***************************************************************************)
(* Types. A call that has opened a ledger row knows which destination it   *)
(* is at, which TypeOK alone does not say.                                 *)
(***************************************************************************)
AtWork == Claiming \cup {"found", "reclaim"}

Situated(k) == k.pc \in AtWork => k.at \in Destination

TypeInv == TypeOK /\ \A c \in Caller : Situated(call[c])

\* One call changes, and the others stay what they are.
LEMMA OneCallChanges ==
  ASSUME TypeInv, NEW c \in Caller, NEW k \in Call, Situated(k), Become(c, k)
  PROVE  /\ call' \in [Caller -> Call]
         /\ call'[c] = k
         /\ \A x \in Caller : x # c => call'[x] = call[x]
         /\ \A x \in Caller : Situated(call'[x])
  BY DEF TypeInv, TypeOK, Become

LEMMA IdleIsACall == Idle \in Call /\ Situated(Idle)
  BY DEF Idle, Call, Situated, AtWork, Claiming, Steps, Answers

\* What a call becomes when it leaves a destination.
LEMMA ProceedTypes ==
  ASSUME TypeInv, NEW c \in Caller, NEW failed \in BOOLEAN, Proceed(c, failed)
  PROVE  /\ call' \in [Caller -> Call]
         /\ \A x \in Caller : x # c => call'[x] = call[x]
         /\ \A x \in Caller : Situated(call'[x])
         /\ call'[c].pc \in {"count", "claim"}
         /\ call'[c].copy = call[c].copy
         /\ call'[c].todo = call[c].todo \ {call[c].at}
<1> DEFINE k == [Idle EXCEPT !.pc = IF call[c].todo = {call[c].at} THEN "count" ELSE "claim",
                             !.copy = call[c].copy,
                             !.todo = call[c].todo \ {call[c].at},
                             !.failed = failed]
<1>1. call[c] \in Call
  BY DEF TypeInv, TypeOK
<1>2. k \in Call /\ Situated(k)
  BY <1>1, IdleIsACall DEF Call, Idle, Situated, AtWork, Claiming, Steps
<1>3. Become(c, k)
  BY DEF Proceed
<1>4. k.pc \in {"count", "claim"} /\ k.copy = call[c].copy /\ k.todo = call[c].todo \ {call[c].at}
  BY DEF Idle
<1> HIDE DEF k
<1> QED
  BY <1>2, <1>3, <1>4, OneCallChanges

\* A call that goes on at the same destination keeps what it loaded.
LEMMA GoToTypes ==
  ASSUME TypeInv, NEW c \in Caller, NEW step \in Steps, GoTo(c, step),
         step \in AtWork => call[c].at \in Destination
  PROVE  /\ call' \in [Caller -> Call]
         /\ call'[c] = [call[c] EXCEPT !.pc = step]
         /\ \A x \in Caller : x # c => call'[x] = call[x]
         /\ \A x \in Caller : Situated(call'[x])
<1>1. call[c] \in Call
  BY DEF TypeInv, TypeOK
<1>2. [call[c] EXCEPT !.pc = step] \in Call /\ Situated([call[c] EXCEPT !.pc = step])
  BY <1>1 DEF Call, Situated
<1> QED
  BY <1>2, OneCallChanges DEF GoTo

LEMMA FinishTypes ==
  ASSUME TypeInv, NEW c \in Caller, Finish(c)
  PROVE  /\ call' \in [Caller -> Call]
         /\ call'[c] = Idle
         /\ \A x \in Caller : x # c => call'[x] = call[x]
         /\ \A x \in Caller : Situated(call'[x])
         /\ tries' \in [Job -> 0..Tries]
  BY IdleIsACall, OneCallChanges, ExportAssumption DEF Finish, TypeInv, TypeOK

LEMMA OutcomeTypes ==
  ASSUME NEW k \in Call
  PROVE  Outcome(k) \in {"succeeded", "permanent", "retryable"}
  BY DEF Outcome, Call, Answers

\* What a claim makes of a row.
LEMMA TakenOverTypes ==
  ASSUME NEW r \in Row
  PROVE  /\ TakenOver(r) \in Row
         /\ TakenOver(r).id = r.id
         /\ TakenOver(r).status = "processing"
         /\ TakenOver(r).ripe = FALSE
<1>1. r.attempts + 1 \in Nat
  BY DEF Row
<1>2. \A n \in Nat : [r EXCEPT !.status = "processing", !.attempts = n, !.ripe = FALSE] \in Row
  BY DEF Row, Statuses
<1>3. TakenOver(r) \in Row
  BY <1>1, <1>2 DEF TakenOver
<1>4. /\ TakenOver(r).id = r.id
      /\ TakenOver(r).status = "processing"
      /\ TakenOver(r).ripe = FALSE
  BY DEF TakenOver, Row
<1> QED
  BY <1>3, <1>4

LEMMA TypeInvariant == Spec => []TypeInv
<1>1. Init => TypeInv
  <2> SUFFICES ASSUME Init PROVE TypeInv
    OBVIOUS
  <2>1. rows \in [Destination -> Row]
    BY DEF Init, NoRow, Row, Statuses
  <2>2. call \in [Caller -> Call] /\ \A c \in Caller : Situated(call[c])
    BY IdleIsACall DEF Init
  <2>3. tries \in [Job -> 0..Tries]
    BY ExportAssumption DEF Init
  <2>4. voids \in 0..MaxVoids /\ crashes \in 0..MaxCrashes /\ reopens \in 0..MaxReopens
    BY ExportAssumption DEF Init
  <2>5. /\ shipped \in BOOLEAN /\ exported \in BOOLEAN /\ overdue \in BOOLEAN
        /\ heard \in [Destination -> Nat \cup {None, Elsewhere}]
    BY DEF Init
  <2> QED
    BY <2>1, <2>2, <2>3, <2>4, <2>5 DEF TypeInv, TypeOK
<1>2. TypeInv /\ [Next]_vars => TypeInv'
  <2> SUFFICES ASSUME TypeInv, [Next]_vars PROVE TypeInv'
    OBVIOUS
  <2> USE DEF packageVars, boundVars
  <2>1. CASE UNCHANGED vars
    BY <2>1 DEF vars, TypeInv, TypeOK
  <2>2. ASSUME NEW queued \in BOOLEAN, Ship(queued) PROVE TypeInv'
    <3>1. tries' \in [Job -> 0..Tries]
      <4>1. \A n \in {0, Tries} : [tries EXCEPT ![voids + 1] = n] \in [Job -> 0..Tries]
        <5>1. {0, Tries} \subseteq 0..Tries
          BY ExportAssumption
        <5> QED
          BY <5>1 DEF TypeInv, TypeOK
      <4> QED
        BY <2>2, <4>1 DEF Ship
    <3>2. crashes' \in 0..MaxCrashes
      BY <2>2, ExportAssumption DEF Ship, TypeInv, TypeOK
    <3> QED
      BY <2>2, <3>1, <3>2 DEF Ship, TypeInv, TypeOK
  <2>3. CASE Void
    <3>1. rows' \in [Destination -> Row] /\ voids' \in 0..MaxVoids
      BY <2>3, ExportAssumption DEF Void, Cleared, NoRow, Row, Statuses, TypeInv, TypeOK
    <3> QED
      BY <2>3, <3>1 DEF Void, TypeInv, TypeOK
  <2>4. ASSUME NEW j \in Job, Listen(j) PROVE TypeInv'
    <3>1. tries' \in [Job -> 0..Tries]
      BY <2>4, ExportAssumption DEF Listen, HasTries, TypeInv, TypeOK
    <3>2. "load" \in Steps /\ "load" \notin AtWork /\ j \in Caller
      BY DEF Steps, AtWork, Claiming, Caller
    <3> QED
      BY <2>4, <3>1, <3>2, GoToTypes DEF Listen, TypeInv, TypeOK
  <2>5. ASSUME NEW s \in Sweeper, NEW scheduled \in BOOLEAN, Sweep(s, scheduled) PROVE TypeInv'
    <3>1. "load" \in Steps /\ "load" \notin AtWork /\ s \in Caller
      BY DEF Steps, AtWork, Claiming, Caller
    <3> QED
      BY <2>5, <3>1, GoToTypes DEF Sweep, TypeInv, TypeOK
  <2>6. ASSUME NEW c \in Caller, Step(c) PROVE TypeInv'
    <3> USE <2>6
    <3>0. call[c] \in Call /\ Situated(call[c])
      BY DEF TypeInv, TypeOK
    <3>1. CASE Load(c)
      <4>1. CASE exported
        BY <3>1, <4>1, FinishTypes DEF Load, TypeInv, TypeOK
      <4>2. CASE ~exported
        <5> DEFINE k == [Idle EXCEPT !.pc = "claim", !.copy = Label, !.todo = Destination]
        <5>1. k \in Call /\ Situated(k)
          <6>1. Label \in Nat
            BY DEF Label, TypeInv, TypeOK
          <6> QED
            BY <6>1 DEF Idle, Call, Situated, AtWork, Claiming, Steps, Answers
        <5>2. Become(c, k)
          BY <3>1, <4>2 DEF Load
        <5> HIDE DEF k
        <5> QED
          BY <3>1, <4>2, <5>1, <5>2, OneCallChanges DEF Load, TypeInv, TypeOK
      <4> QED
        BY <4>1, <4>2
    <3>2. ASSUME NEW d \in Destination, Insert(c, d) PROVE TypeInv'
      <4> DEFINE k(step) == [call[c] EXCEPT !.pc = step, !.at = d]
      <4>1. \A step \in {"inserted", "found"} : k(step) \in Call /\ Situated(k(step))
        BY <3>0 DEF Call, Situated, Steps, Claiming
      <4>2. PICK step \in {"inserted", "found"} : Become(c, k(step))
        BY <3>2 DEF Insert
      <4>3. rows' \in [Destination -> Row]
        <5>1. [id |-> voids, status |-> "processing", attempts |-> 1, ripe |-> FALSE] \in Row
          BY DEF Row, Statuses, TypeInv, TypeOK
        <5> QED
          BY <3>2, <5>1 DEF Insert, TypeInv, TypeOK
      <4> HIDE DEF k
      <4> QED
        BY <3>2, <4>1, <4>2, <4>3, OneCallChanges DEF Insert, TypeInv, TypeOK
    <3>3. CASE Fetch(c)
      <4> DEFINE r == rows[call[c].at]
                 k == [call[c] EXCEPT !.pc = "tell", !.id = r.id, !.attempts = r.attempts]
      <4>1. call[c].at \in Destination
        BY <3>0, <3>3 DEF Fetch, At, Situated, AtWork, Claiming
      <4>2. r \in Row
        BY <4>1 DEF TypeInv, TypeOK
      <4>3. k \in Call /\ Situated(k)
        BY <3>0, <4>1, <4>2 DEF Call, Row, Situated, Steps, Claiming
      <4>4. Become(c, k)
        BY <3>3 DEF Fetch
      <4> HIDE DEF k
      <4> QED
        BY <3>3, <4>3, <4>4, OneCallChanges DEF Fetch, TypeInv, TypeOK
    <3>4. CASE Look(c)
      <4> DEFINE r == rows[call[c].at]
                 k == [call[c] EXCEPT !.pc = "reclaim", !.id = r.id]
      <4>1. call[c].at \in Destination
        BY <3>0, <3>4 DEF Look, At, Situated, AtWork, Claiming
      <4>2. r \in Row
        BY <4>1 DEF TypeInv, TypeOK
      <4>3. k \in Call /\ Situated(k)
        BY <3>0, <4>1, <4>2 DEF Call, Row, Situated, Steps
      <4>4. CASE Settled(r)
        BY <3>0, <3>4, <4>4, ProceedTypes DEF Look, Call, TypeInv, TypeOK
      <4>5. CASE ~Settled(r)
        <5>1. Become(c, k)
          BY <3>4, <4>5 DEF Look
        <5> HIDE DEF k
        <5> QED
          BY <3>4, <4>3, <5>1, OneCallChanges DEF Look, TypeInv, TypeOK
      <4> QED
        BY <4>4, <4>5
    <3>5. CASE FetchFails(c) \/ RefreshFails(c)
      BY <3>5, ProceedTypes DEF FetchFails, RefreshFails, Stumble, TypeInv, TypeOK
    <3>6. CASE Reclaim(c)
      <4>1. call[c].at \in Destination
        BY <3>0, <3>6 DEF Reclaim, At, Situated, AtWork
      <4>2. CASE OnFile(call[c]) /\ Claimable(rows[call[c].at])
        <5>1. rows[call[c].at] \in Row
          BY <4>1 DEF TypeInv, TypeOK
        <5>2. rows' \in [Destination -> Row]
          <6>1. TakenOver(rows[call[c].at]) \in Row
            BY <5>1, TakenOverTypes
          <6>2. rows' = [rows EXCEPT ![call[c].at] = TakenOver(rows[call[c].at])]
            BY <3>6, <4>2 DEF Reclaim
          <6> QED
            BY <6>1, <6>2 DEF TypeInv, TypeOK
        <5>3. GoTo(c, "refresh") /\ "refresh" \in Steps
          BY <3>6, <4>2 DEF Reclaim, Steps, Claiming
        <5> QED
          BY <3>6, <4>1, <5>2, <5>3, GoToTypes DEF Reclaim, TypeInv, TypeOK
      <4>3. CASE ~(OnFile(call[c]) /\ Claimable(rows[call[c].at]))
        BY <3>0, <3>6, <4>3, ProceedTypes DEF Reclaim, Call, TypeInv, TypeOK
      <4> QED
        BY <4>2, <4>3
    <3>7. CASE Refresh(c)
      <4> DEFINE k == [call[c] EXCEPT !.pc = "tell", !.attempts = rows[call[c].at].attempts]
      <4>1. call[c].at \in Destination
        BY <3>0, <3>7 DEF Refresh, At, Situated, AtWork, Claiming
      <4>2. rows[call[c].at] \in Row
        BY <4>1 DEF TypeInv, TypeOK
      <4>3. k \in Call /\ Situated(k)
        BY <3>0, <4>1, <4>2 DEF Call, Row, Situated, Steps, Claiming
      <4>4. Become(c, k)
        BY <3>7 DEF Refresh
      <4> HIDE DEF k
      <4> QED
        BY <3>7, <4>3, <4>4, OneCallChanges DEF Refresh, TypeInv, TypeOK
    <3>8. ASSUME NEW reply \in Answers, Tell(c, reply) PROVE TypeInv'
      <4> DEFINE k == [call[c] EXCEPT !.pc = "settle", !.answer = reply]
      <4>1. call[c].at \in Destination
        BY <3>0, <3>8 DEF Tell, At, Situated, AtWork, Claiming
      <4>2. k \in Call /\ Situated(k)
        BY <3>0, <4>1 DEF Call, Situated, Steps, Claiming
      <4>3. Become(c, k)
        BY <3>8 DEF Tell
      <4>4. heard' \in [Destination -> Nat \cup {None, Elsewhere}]
        <5>1. Taken(call[c].at, call[c].copy) \in Nat \cup {None, Elsewhere}
          BY <3>0, <4>1 DEF Taken, Call, TypeInv, TypeOK
        <5> QED
          BY <3>8, <4>1, <5>1 DEF Tell, TypeInv, TypeOK
      <4> HIDE DEF k
      <4> QED
        BY <3>8, <4>2, <4>3, <4>4, OneCallChanges DEF Tell, TypeInv, TypeOK
    <3>9. CASE Settle(c)
      <4>1. call[c].at \in Destination
        BY <3>0, <3>9 DEF Settle, At, Situated, AtWork, Claiming
      <4>2. rows[call[c].at] \in Row
        BY <4>1 DEF TypeInv, TypeOK
      <4>3. rows' \in [Destination -> Row]
        BY <3>0, <3>9, <4>1, <4>2, OutcomeTypes DEF Settle, Row, Statuses, TypeInv, TypeOK
      <4>4. (call[c].failed \/ Outcome(call[c]) = "retryable") \in BOOLEAN
        BY <3>0 DEF Call
      <4>5. Proceed(c, call[c].failed \/ Outcome(call[c]) = "retryable")
        BY <3>9 DEF Settle
      <4> QED
        BY <3>9, <4>3, <4>4, <4>5, ProceedTypes DEF Settle, TypeInv, TypeOK
    <3>10. CASE Count(c)
      <4>1. CASE AllSucceeded
        <5>1. "flag" \in Steps /\ "flag" \notin AtWork
          BY DEF Steps, AtWork, Claiming
        <5> QED
          BY <3>10, <4>1, <5>1, GoToTypes DEF Count, TypeInv, TypeOK
      <4>2. CASE ~AllSucceeded
        BY <3>10, <4>2, FinishTypes DEF Count, TypeInv, TypeOK
      <4> QED
        BY <4>1, <4>2
    <3>11. CASE Flag(c)
      BY <3>11, FinishTypes DEF Flag, TypeInv, TypeOK
    <3> QED
      BY <3>1, <3>2, <3>3, <3>4, <3>5, <3>6, <3>7, <3>8, <3>9, <3>10, <3>11 DEF Step
  <2>7. ASSUME NEW c \in Caller, Crash(c) PROVE TypeInv'
    <3>1. crashes' \in 0..MaxCrashes
      BY <2>7, ExportAssumption DEF Crash, TypeInv, TypeOK
    <3> QED
      BY <2>7, <3>1, IdleIsACall, OneCallChanges DEF Crash, TypeInv, TypeOK
  <2>8. ASSUME NEW d \in Destination, BackoffPasses(d) \/ LeaseGoesStale(d) PROVE TypeInv'
    <3>1. rows' \in [Destination -> Row]
      BY <2>8 DEF BackoffPasses, LeaseGoesStale, Row, TypeInv, TypeOK
    <3> QED
      BY <2>8, <3>1 DEF BackoffPasses, LeaseGoesStale, TypeInv, TypeOK
  <2>9. CASE RetryByHand
    <3>1. rows' \in [Destination -> Row] /\ reopens' \in 0..MaxReopens
      <4>1. \A d \in Destination :
              [rows[d] EXCEPT !.status = "retryable", !.attempts = 0, !.ripe = TRUE] \in Row
        BY DEF Row, Statuses, TypeInv, TypeOK
      <4>2. rows' \in [Destination -> Row]
        BY <2>9, <4>1 DEF RetryByHand, TypeInv, TypeOK
      <4>3. reopens' \in 0..MaxReopens
        <5>1. reopens < MaxReopens /\ reopens' = reopens + 1
          BY <2>9 DEF RetryByHand
        <5>2. reopens \in 0..MaxReopens
          BY DEF TypeInv, TypeOK
        <5> QED
          BY <5>1, <5>2, ExportAssumption
      <4> QED
        BY <4>2, <4>3
    <3> QED
      BY <2>9, <3>1 DEF RetryByHand, TypeInv, TypeOK
  <2>10. CASE DayPasses
    BY <2>10 DEF DayPasses, TypeInv, TypeOK
  <2>11. ASSUME NEW d \in Destination, FulfilledElsewhere(d) PROVE TypeInv'
    BY <2>11 DEF FulfilledElsewhere, TypeInv, TypeOK
  <2> QED
    BY <2>1, <2>2, <2>3, <2>4, <2>5, <2>6, <2>7, <2>8, <2>9, <2>10, <2>11 DEF Next
<1> QED
  BY <1>1, <1>2, PTL DEF Spec

\* Every variable keeps its type, whatever the timing of voids and listeners;
\* in particular a queued listener never runs more often than its tries allow.
THEOREM TypeCorrect == Spec => []TypeOK
  BY TypeInvariant, PTL DEF TypeInv

(***************************************************************************)
(* Who holds a claim. One sender at a time is not inductive: a row that is *)
(* taken over must be known to have no sender, which is what the lease     *)
(* says. A call between its claim and its answer finds its row as it left  *)
(* it, processing and with the lease running, and has loaded its number of *)
(* attempts. Voids have to wait for this: one that deletes the row under a *)
(* call lets the next insert succeed. And calls have to be short: a claim  *)
(* that is 15 minutes old is taken over whether its call runs or not.      *)
(***************************************************************************)
Owns(c) ==
  LET k == call[c]
      r == rows[k.at] IN
  /\ k.pc \in Claiming => r.status = "processing" /\ ~r.ripe
  /\ k.pc \in {"refresh", "tell", "settle"} => k.id = r.id
  /\ k.pc \in {"tell", "settle"} => k.attempts = r.attempts

LedgerInv ==
  /\ OneSenderPerDestination
  /\ \A c \in Caller : Owns(c)
  /\ GivesUpInTime

\* A call goes on, or ends, and no row changes.
LEMMA RowsStay ==
  ASSUME LedgerInv, NEW c \in Caller,
         \A x \in Caller : x # c => call'[x] = call[x],
         rows' = rows,
         Owns(c)',
         call'[c].pc \in Claiming => call[c].pc \in Claiming /\ call'[c].at = call[c].at
  PROVE  LedgerInv'
<1>1. OneSenderPerDestination'
  <2> SUFFICES ASSUME NEW c1 \in Caller, NEW c2 \in Caller,
                      call'[c1].pc \in Claiming, call'[c2].pc \in Claiming,
                      call'[c1].at = call'[c2].at
               PROVE  c1 = c2
    BY DEF OneSenderPerDestination
  <2>1. /\ call[c1].pc \in Claiming /\ call'[c1].at = call[c1].at
        /\ call[c2].pc \in Claiming /\ call'[c2].at = call[c2].at
    OBVIOUS
  <2> QED
    BY <2>1 DEF LedgerInv, OneSenderPerDestination
<1>2. \A x \in Caller : Owns(x)'
  BY DEF LedgerInv, Owns
<1>3. GivesUpInTime'
  BY DEF LedgerInv, GivesUpInTime
<1> QED
  BY <1>1, <1>2, <1>3 DEF LedgerInv

\* A call changes the row of a destination no other call holds.
LEMMA OneRowChanges ==
  ASSUME LedgerInv, NEW c \in Caller, NEW d \in Destination,
         \A x \in Caller : x # c => call'[x] = call[x],
         \A e \in Destination : e # d => rows'[e] = rows[e],
         \A x \in Caller : call[x].pc \in Claiming => call[x].at \in Destination,
         \A x \in Caller : x # c /\ call[x].pc \in Claiming => call[x].at # d,
         Owns(c)',
         call'[c].pc \in Claiming => call'[c].at = d,
         rows'[d].status = "retryable" => rows'[d].attempts < MaxAttempts
  PROVE  LedgerInv'
<1>1. OneSenderPerDestination'
  <2> SUFFICES ASSUME NEW c1 \in Caller, NEW c2 \in Caller,
                      call'[c1].pc \in Claiming, call'[c2].pc \in Claiming,
                      call'[c1].at = call'[c2].at
               PROVE  c1 = c2
    BY DEF OneSenderPerDestination
  <2>1. CASE c1 # c /\ c2 # c
    BY <2>1 DEF LedgerInv, OneSenderPerDestination
  <2>2. CASE c1 = c \/ c2 = c
    BY <2>2
  <2> QED
    BY <2>1, <2>2
<1>2. \A x \in Caller : Owns(x)'
  <2> SUFFICES ASSUME NEW x \in Caller, x # c PROVE Owns(x)'
    OBVIOUS
  <2>1. call[x].pc \in Claiming => rows'[call[x].at] = rows[call[x].at]
    OBVIOUS
  <2>2. Owns(x)
    BY DEF LedgerInv
  <2> QED
    BY <2>1, <2>2 DEF Owns, Claiming
<1>3. GivesUpInTime'
  BY DEF LedgerInv, GivesUpInTime
<1> QED
  BY <1>1, <1>2, <1>3 DEF LedgerInv

\* Something other than a call changes rows that no call holds.
LEMMA NoCallChanges ==
  ASSUME LedgerInv, call' = call,
         \A c \in Caller : call[c].pc \in Claiming => call[c].at \in Destination,
         \A d \in Destination :
           \/ rows'[d] = rows[d]
           \/ /\ \A c \in Caller : call[c].pc \in Claiming => call[c].at # d
              /\ rows'[d].status = "retryable" => rows'[d].attempts < MaxAttempts
  PROVE  LedgerInv'
<1>1. OneSenderPerDestination'
  BY DEF LedgerInv, OneSenderPerDestination
<1>2. \A c \in Caller : Owns(c)'
  <2> SUFFICES ASSUME NEW c \in Caller PROVE Owns(c)'
    OBVIOUS
  <2>1. call[c].pc \in Claiming => rows'[call[c].at] = rows[call[c].at]
    OBVIOUS
  <2>2. Owns(c)
    BY DEF LedgerInv
  <2> QED
    BY <2>1, <2>2 DEF Owns, Claiming
<1>3. GivesUpInTime'
  BY DEF LedgerInv, GivesUpInTime
<1> QED
  BY <1>1, <1>2, <1>3 DEF LedgerInv

\* A call that is not between claim and answer after the step owns nothing.
LEMMA OwnsNothing ==
  ASSUME NEW c \in Caller, call'[c].pc \notin Claiming
  PROVE  Owns(c)'
  BY DEF Owns, Claiming

LEMMA LedgerSteps ==
  ASSUME VoidsWait, CallsAreShort, TypeInv, LedgerInv, [Next]_vars
  PROVE  LedgerInv'
<1> USE DEF packageVars, boundVars
<1>0. \A x \in Caller : call[x] \in Call /\ (call[x].pc \in AtWork => call[x].at \in Destination)
  BY DEF TypeInv, TypeOK, Situated
<1>a. \A x \in Caller : call[x].pc \in Claiming => call[x].at \in Destination
  BY <1>0 DEF AtWork
<1>1. CASE UNCHANGED <<rows, call>>
  BY <1>1, <1>a, NoCallChanges
<1>2. CASE Void
  <2>1. \A c \in Caller : call[c].pc \notin Claiming
    BY <1>2 DEF Void, Claiming
  <2>2. \A d \in Destination : rows'[d].status # "retryable"
    BY <1>2 DEF Void, Cleared, NoRow, TypeInv, TypeOK
  <2> QED
    BY <1>2, <2>1, <2>2, NoCallChanges DEF Void
<1>3. ASSUME NEW j \in Job, Listen(j) PROVE LedgerInv'
  <2>1. "load" \in Steps /\ "load" \notin AtWork /\ "load" \notin Claiming /\ j \in Caller
    BY DEF Steps, AtWork, Claiming, Caller
  <2>2. call'[j].pc = "load" /\ (\A x \in Caller : x # j => call'[x] = call[x]) /\ rows' = rows
    <3>1. GoTo(j, "load") /\ rows' = rows
      BY <1>3 DEF Listen
    <3>2. /\ call'[j] = [call[j] EXCEPT !.pc = "load"]
          /\ \A x \in Caller : x # j => call'[x] = call[x]
      BY <2>1, <3>1, GoToTypes
    <3>3. call[j] \in Call
      BY <1>0, <2>1
    <3> QED
      BY <3>1, <3>2, <3>3 DEF Call
  <2> QED
    BY <2>1, <2>2, OwnsNothing, RowsStay
<1>4. ASSUME NEW s \in Sweeper, NEW scheduled \in BOOLEAN, Sweep(s, scheduled) PROVE LedgerInv'
  <2>1. "load" \in Steps /\ "load" \notin AtWork /\ "load" \notin Claiming /\ s \in Caller
    BY DEF Steps, AtWork, Claiming, Caller
  <2>2. call'[s].pc = "load" /\ (\A x \in Caller : x # s => call'[x] = call[x]) /\ rows' = rows
    <3>1. GoTo(s, "load") /\ rows' = rows
      BY <1>4 DEF Sweep
    <3>2. /\ call'[s] = [call[s] EXCEPT !.pc = "load"]
          /\ \A x \in Caller : x # s => call'[x] = call[x]
      BY <2>1, <3>1, GoToTypes
    <3>3. call[s] \in Call
      BY <1>0, <2>1
    <3> QED
      BY <3>1, <3>2, <3>3 DEF Call
  <2> QED
    BY <2>1, <2>2, OwnsNothing, RowsStay
<1>5. ASSUME NEW c \in Caller, Step(c) PROVE LedgerInv'
  <2> DEFINE Others == \A x \in Caller : x # c => call'[x] = call[x]
  <2>0. call[c] \in Call /\ Owns(c)
    BY <1>0 DEF LedgerInv
  <2>a. call[c].pc \in Claiming => \A x \in Caller :
          x # c /\ call[x].pc \in Claiming => call[x].at # call[c].at
    BY DEF LedgerInv, OneSenderPerDestination
  <2>b. \A failed \in BOOLEAN : Proceed(c, failed) => Others /\ call'[c].pc \notin Claiming
    BY ProceedTypes DEF Claiming
  <2>c. Finish(c) => Others /\ call'[c].pc \notin Claiming
    BY FinishTypes DEF Idle, Claiming
  <2>d. call[c].failed \in BOOLEAN
    BY <2>0 DEF Call
  <2>1. CASE Load(c)
    <3>1. Others /\ call'[c].pc \notin Claiming /\ rows' = rows
      <4>1. CASE exported
        BY <2>1, <4>1, <2>c DEF Load
      <4>2. CASE ~exported
        BY <2>1, <4>2 DEF Load, Become, Idle, Claiming, TypeInv, TypeOK
      <4> QED
        BY <4>1, <4>2
    <3> QED
      BY <3>1, OwnsNothing, RowsStay
  <2>2. ASSUME NEW d \in Destination, Insert(c, d) PROVE LedgerInv'
    <3>0. \A step \in Steps : [call[c] EXCEPT !.pc = step, !.at = d].pc = step
                              /\ [call[c] EXCEPT !.pc = step, !.at = d].at = d
      BY <2>0 DEF Call
    <3>1. CASE Missing(d)
      <4>1. call' = [call EXCEPT ![c] = [call[c] EXCEPT !.pc = "inserted", !.at = d]]
        BY <2>2, <3>1 DEF Insert, Become
      <4>2. Others /\ call'[c].pc = "inserted" /\ call'[c].at = d
        BY <4>1, <3>0 DEF Steps, Claiming, TypeInv, TypeOK
      <4>3. rows' = [rows EXCEPT ![d] =
                [id |-> voids, status |-> "processing", attempts |-> 1, ripe |-> FALSE]]
        BY <2>2, <3>1 DEF Insert
      <4>4. /\ rows'[d].status = "processing" /\ ~rows'[d].ripe
            /\ \A e \in Destination : e # d => rows'[e] = rows[e]
        BY <4>3 DEF TypeInv, TypeOK
      <4>5. Owns(c)'
        BY <4>2, <4>4 DEF Owns
      <4>6. \A x \in Caller : call[x].pc \in Claiming => call[x].at # d
        BY <3>1 DEF LedgerInv, Owns, Missing
      <4> QED
        BY <1>a, <4>2, <4>4, <4>5, <4>6, OneRowChanges
    <3>2. CASE ~Missing(d)
      <4>1. call' = [call EXCEPT ![c] = [call[c] EXCEPT !.pc = "found", !.at = d]] /\ rows' = rows
        BY <2>2, <3>2 DEF Insert, Become
      <4>2. Others /\ call'[c].pc \notin Claiming
        BY <4>1, <3>0 DEF Steps, Claiming, TypeInv, TypeOK
      <4> QED
        BY <4>1, <4>2, OwnsNothing, RowsStay
    <3> QED
      BY <3>1, <3>2
  <2>3. CASE Fetch(c)
    <3> DEFINE r == rows[call[c].at]
    <3>1. call' = [call EXCEPT ![c] =
                [call[c] EXCEPT !.pc = "tell", !.id = r.id, !.attempts = r.attempts]]
      BY <2>3 DEF Fetch, Become
    <3>2. /\ Others /\ rows' = rows
          /\ call'[c].at = call[c].at
          /\ call'[c].id = r.id
          /\ call'[c].attempts = r.attempts
      BY <2>0, <2>3, <3>1 DEF Fetch, Call, TypeInv, TypeOK
    <3>3. call[c].pc \in Claiming
      BY <2>3 DEF Fetch, At, Claiming
    <3>4. Owns(c)'
      BY <2>0, <3>2, <3>3 DEF Owns
    <3> QED
      BY <3>2, <3>3, <3>4, RowsStay
  <2>4. CASE Look(c)
    <3>1. Others /\ call'[c].pc \notin Claiming /\ rows' = rows
      <4>1. CASE Settled(rows[call[c].at])
        BY <2>4, <4>1, <2>b, <2>d DEF Look
      <4>2. CASE ~Settled(rows[call[c].at])
        <5> DEFINE k == [call[c] EXCEPT !.pc = "reclaim", !.id = rows[call[c].at].id]
        <5>1. Become(c, k) /\ rows' = rows
          BY <2>4, <4>2 DEF Look
        <5>2. k.pc \notin Claiming
          BY <2>0 DEF Call, Claiming
        <5> HIDE DEF k
        <5> QED
          BY <5>1, <5>2 DEF Become, TypeInv, TypeOK
      <4> QED
        BY <4>1, <4>2
    <3> QED
      BY <3>1, OwnsNothing, RowsStay
  <2>5. CASE FetchFails(c) \/ RefreshFails(c)
    BY <2>5, <2>b, OwnsNothing, RowsStay DEF FetchFails, RefreshFails, Stumble
  <2>6. CASE Reclaim(c)
    <3> DEFINE d == call[c].at
    <3>0. d \in Destination
      BY <1>0, <2>6 DEF Reclaim, At, AtWork
    <3>1. CASE OnFile(call[c]) /\ Claimable(rows[d])
      <4>1. rows' = [rows EXCEPT ![d] = TakenOver(rows[d])] /\ GoTo(c, "refresh")
        BY <2>6, <3>1 DEF Reclaim
      <4>2. rows[d] \in Row
        BY <3>0 DEF TypeInv, TypeOK
      <4>3. rows'[d] = TakenOver(rows[d]) /\ \A e \in Destination : e # d => rows'[e] = rows[e]
        BY <3>0, <4>1 DEF TypeInv, TypeOK
      <4>4. "refresh" \in Steps /\ "refresh" \in Claiming
        BY DEF Steps, Claiming
      <4>5. Others /\ call'[c] = [call[c] EXCEPT !.pc = "refresh"]
        BY <3>0, <4>1, <4>4, GoToTypes
      <4>6. call'[c].pc = "refresh" /\ call'[c].at = d /\ call'[c].id = call[c].id
        BY <2>0, <4>5 DEF Call
      <4>7. rows[d].id = call[c].id
        BY <3>1 DEF OnFile
      <4>8. Owns(c)'
        <5>1. /\ rows'[d].status = "processing"
              /\ ~rows'[d].ripe
              /\ rows'[d].id = call'[c].id
          BY <4>2, <4>3, <4>6, <4>7, TakenOverTypes
        <5> HIDE DEF d
        <5> QED
          BY <4>6, <5>1 DEF Owns
      <4>9. \A x \in Caller : call[x].pc \in Claiming => call[x].at # d
        BY <3>1 DEF LedgerInv, Owns, Claimable
      <4>10. rows'[d].status # "retryable"
        BY <4>2, <4>3, TakenOverTypes
      <4> HIDE DEF d
      <4> QED
        BY <1>a, <3>0, <4>3, <4>5, <4>6, <4>8, <4>9, <4>10, OneRowChanges
    <3>2. CASE ~(OnFile(call[c]) /\ Claimable(rows[d]))
      BY <2>6, <3>2, <2>b, <2>d, OwnsNothing, RowsStay DEF Reclaim
    <3> QED
      BY <3>1, <3>2
  <2>7. CASE Refresh(c)
    <3>1. call' = [call EXCEPT ![c] =
                [call[c] EXCEPT !.pc = "tell", !.attempts = rows[call[c].at].attempts]]
      BY <2>7 DEF Refresh, Become
    <3>2. /\ Others /\ rows' = rows
          /\ call'[c].at = call[c].at
          /\ call'[c].id = call[c].id
          /\ call'[c].attempts = rows[call[c].at].attempts
      BY <2>0, <2>7, <3>1 DEF Refresh, Call, TypeInv, TypeOK
    <3>3. call[c].pc = "refresh" /\ "refresh" \in Claiming
      BY <2>7 DEF Refresh, At, Claiming
    <3>4. Owns(c)'
      BY <2>0, <3>2, <3>3 DEF Owns
    <3> QED
      BY <3>2, <3>3, <3>4, RowsStay
  <2>8. ASSUME NEW reply \in Answers, Tell(c, reply) PROVE LedgerInv'
    <3>1. call' = [call EXCEPT ![c] = [call[c] EXCEPT !.pc = "settle", !.answer = reply]]
      BY <2>8 DEF Tell, Become
    <3>2. /\ Others /\ rows' = rows
          /\ call'[c].at = call[c].at
          /\ call'[c].id = call[c].id
          /\ call'[c].attempts = call[c].attempts
      BY <2>0, <2>8, <3>1 DEF Tell, Call, TypeInv, TypeOK
    <3>3. call[c].pc = "tell" /\ "tell" \in Claiming
      BY <2>8 DEF Tell, At, Claiming
    <3>4. Owns(c)'
      BY <2>0, <3>2, <3>3 DEF Owns
    <3> QED
      BY <3>2, <3>3, <3>4, RowsStay
  <2>9. CASE Settle(c)
    <3> DEFINE d == call[c].at
    <3>1. call[c].pc = "settle" /\ "settle" \in Claiming /\ d \in Destination
      BY <1>a, <2>9 DEF Settle, At, Claiming
    <3>2. rows[d] \in Row /\ rows[d].status = "processing" /\ call[c].attempts = rows[d].attempts
      BY <2>0, <3>1 DEF Owns, TypeInv, TypeOK
    <3>3. (call[c].failed \/ Outcome(call[c]) = "retryable") \in BOOLEAN
      BY <2>d
    <3>4. Others /\ call'[c].pc \notin Claiming
      BY <2>9, <2>b, <3>3 DEF Settle
    <3>5. \A e \in Destination : e # d => rows'[e] = rows[e]
      BY <2>9 DEF Settle, TypeInv, TypeOK
    <3>6. rows'[d].status = "retryable" => rows'[d].attempts < MaxAttempts
      <4>1. CASE OnFile(call[c])
        <5>1. rows' = [rows EXCEPT ![d] = [rows[d] EXCEPT !.status = Outcome(call[c]), !.ripe = FALSE]]
          BY <2>9, <4>1 DEF Settle
        <5>2. rows'[d].status = Outcome(call[c]) /\ rows'[d].attempts = rows[d].attempts
          BY <3>1, <3>2, <5>1 DEF Row, TypeInv, TypeOK
        <5>3. Outcome(call[c]) = "retryable" => ~GivesUp(call[c].attempts)
          BY <2>0 DEF Outcome, Call, Answers
        <5>4. rows[d].attempts \in Nat
          BY <3>2 DEF Row
        <5> QED
          BY <3>2, <5>2, <5>3, <5>4, ExportAssumption DEF GivesUp
      <4>2. CASE ~OnFile(call[c])
        BY <2>9, <3>2, <4>2 DEF Settle
      <4> QED
        BY <4>1, <4>2
    <3> HIDE DEF d
    <3>7. \A x \in Caller : x # c /\ call[x].pc \in Claiming => call[x].at # d
      BY <2>a, <3>1 DEF d
    <3> QED
      BY <1>a, <3>1, <3>4, <3>5, <3>6, <3>7, OwnsNothing, OneRowChanges
  <2>10. CASE Count(c)
    <3>1. Others /\ call'[c].pc \notin Claiming /\ rows' = rows
      <4>1. CASE AllSucceeded
        BY <2>0, <2>10, <4>1 DEF Count, GoTo, Become, Call, Claiming, TypeInv, TypeOK
      <4>2. CASE ~AllSucceeded
        BY <2>10, <4>2, <2>c DEF Count
      <4> QED
        BY <4>1, <4>2
    <3> QED
      BY <3>1, OwnsNothing, RowsStay
  <2>11. CASE Flag(c)
    BY <2>11, <2>c, OwnsNothing, RowsStay DEF Flag
  <2> QED
    BY <1>5, <2>1, <2>2, <2>3, <2>4, <2>5, <2>6, <2>7, <2>8, <2>9, <2>10, <2>11 DEF Step
<1>6. ASSUME NEW c \in Caller, Crash(c) PROVE LedgerInv'
  <2>1. /\ \A x \in Caller : x # c => call'[x] = call[x]
        /\ call'[c].pc \notin Claiming
        /\ rows' = rows
    BY <1>6 DEF Crash, Become, Idle, Claiming, TypeInv, TypeOK
  <2> QED
    BY <2>1, OwnsNothing, RowsStay
<1>7. ASSUME NEW d \in Destination, BackoffPasses(d) \/ LeaseGoesStale(d) PROVE LedgerInv'
  <2>1. \A c \in Caller : call[c].pc \in Claiming => call[c].at # d
    BY <1>7 DEF LedgerInv, Owns, BackoffPasses, LeaseGoesStale
  <2>2. /\ call' = call
        /\ \A e \in Destination : e # d => rows'[e] = rows[e]
        /\ rows'[d].status = rows[d].status
        /\ rows'[d].attempts = rows[d].attempts
    BY <1>7 DEF BackoffPasses, LeaseGoesStale, Row, TypeInv, TypeOK
  <2>3. rows'[d].status = "retryable" => rows'[d].attempts < MaxAttempts
    BY <2>2 DEF LedgerInv, GivesUpInTime
  <2> QED
    BY <1>a, <2>1, <2>2, <2>3, NoCallChanges
<1>8. CASE RetryByHand
  <2> SUFFICES ASSUME NEW d \in Destination, rows'[d] # rows[d]
               PROVE  /\ \A c \in Caller : call[c].pc \in Claiming => call[c].at # d
                      /\ rows'[d].status = "retryable" => rows'[d].attempts < MaxAttempts
    BY <1>8, <1>a, NoCallChanges DEF RetryByHand
  <2>1. /\ rows[d].status = "permanent"
        /\ rows'[d] = [rows[d] EXCEPT !.status = "retryable", !.attempts = 0, !.ripe = TRUE]
    BY <1>8 DEF RetryByHand
  <2>2. rows'[d].attempts = 0
    BY <2>1 DEF Row, TypeInv, TypeOK
  <2> QED
    BY <2>1, <2>2, ExportAssumption DEF LedgerInv, Owns
<1> QED
  BY <1>1, <1>2, <1>3, <1>4, <1>5, <1>6, <1>7, <1>8
  DEF Next, vars, Ship, DayPasses, FulfilledElsewhere

LEMMA LedgerInvariant ==
  ASSUME VoidsWait, CallsAreShort
  PROVE  Spec => []LedgerInv
<1>1. Init => LedgerInv
  BY DEF Init, LedgerInv, OneSenderPerDestination, Owns, GivesUpInTime, Idle, NoRow, Claiming
<1>2. TypeInv /\ LedgerInv /\ [Next]_vars => LedgerInv'
  BY LedgerSteps
<1> QED
  BY <1>1, <1>2, TypeInvariant, PTL DEF Spec

\* However listeners, their retries and sweeps interleave and die, no
\* destination is in the hands of two of them, as long as no void deletes the
\* ledger under one and no call of a driver outlasts its lease.
THEOREM OneSender ==
  ASSUME VoidsWait, CallsAreShort
  PROVE  Spec => []OneSenderPerDestination
  BY LedgerInvariant, PTL DEF LedgerInv

\* A destination that used up its attempts is never left waiting for another, by
\* a call that neither a void nor the end of its lease takes the row from.
THEOREM BudgetIsKept ==
  ASSUME VoidsWait, CallsAreShort
  PROVE  Spec => []GivesUpInTime
  BY LedgerInvariant, PTL DEF LedgerInv

(***************************************************************************)
(* How often a destination is claimed. A row that nobody holds and that is *)
(* still processing has lost its call to a death, which pays for the claim *)
(* that takes it over; one that waits for another attempt has some left.   *)
(***************************************************************************)
Held(d) == \E c \in Caller : call[c].pc \in Claiming /\ call[c].at = d

Counted(d) ==
  /\ rows[d].attempts <= MaxAttempts + crashes
  /\ rows[d].status = "processing" /\ ~Held(d) => rows[d].attempts < MaxAttempts + crashes

\* The call that holds a row goes on, or the row is not processing any more.
LEMMA CountedStays ==
  ASSUME TypeInv, TypeInv', NEW d \in Destination, Counted(d), crashes' >= crashes,
         rows'[d].attempts <= rows[d].attempts,
         rows'[d].status = "processing" => rows[d].status = "processing" /\ (Held(d) => Held(d)')
  PROVE  Counted(d)'
<1>1. /\ rows[d].attempts \in Nat /\ rows'[d].attempts \in Nat
      /\ crashes \in Nat /\ crashes' \in Nat /\ MaxAttempts \in Nat
  BY ExportAssumption DEF TypeInv, TypeOK, Row
<1> QED
  BY <1>1 DEF Counted

\* A call that does not hold the row, or goes on holding it, takes no hold away.
LEMMA HeldStays ==
  ASSUME NEW c \in Caller, NEW d \in Destination, Held(d),
         \A x \in Caller : x # c => call'[x] = call[x],
         \/ call[c].pc \notin Claiming
         \/ call[c].at # d
         \/ call'[c].pc \in Claiming /\ call'[c].at = call[c].at
  PROVE  Held(d)'
  BY DEF Held

LEMMA CountedSteps ==
  ASSUME TypeInv, TypeInv', LedgerInv, [Next]_vars, NEW d \in Destination, Counted(d)
  PROVE  Counted(d)'
<1> USE DEF packageVars, boundVars
<1>0. /\ \A e \in Destination : rows[e] \in Row /\ rows'[e] \in Row
      /\ crashes \in Nat /\ crashes' \in Nat /\ MaxAttempts \in Nat \ {0}
  BY ExportAssumption DEF TypeInv, TypeOK
<1>a. rows[d].attempts \in Nat /\ rows'[d].attempts \in Nat
  BY <1>0 DEF Row
<1>1. CASE crashes' >= crashes /\ UNCHANGED <<rows, call>>
  BY <1>0, <1>a, <1>1, CountedStays DEF Held
<1>2. CASE Void
  <2>1. rows'[d] = NoRow /\ crashes' = crashes
    BY <1>2 DEF Void, Cleared, TypeInv, TypeOK
  <2> QED
    BY <1>0, <1>a, <2>1, CountedStays DEF NoRow
<1>3. ASSUME NEW c \in Caller, \/ c \in Job /\ Listen(c)
                               \/ c \in Sweeper /\ \E scheduled \in BOOLEAN : Sweep(c, scheduled)
      PROVE  Counted(d)'
  <2>1. call[c].pc = "idle" /\ GoTo(c, "load") /\ UNCHANGED <<rows, crashes>>
    BY <1>3 DEF Listen, Sweep, At
  <2>2. "load" \in Steps /\ "load" \notin AtWork /\ "idle" \notin Claiming
    BY DEF Steps, AtWork, Claiming
  <2>3. Held(d) => Held(d)'
    BY <2>1, <2>2, GoToTypes, HeldStays
  <2> QED
    BY <1>0, <1>a, <2>1, <2>3, CountedStays
<1>4. ASSUME NEW c \in Caller, Step(c) PROVE Counted(d)'
  <2> DEFINE Others == \A x \in Caller : x # c => call'[x] = call[x]
  <2>0. call[c] \in Call /\ Situated(call[c]) /\ Owns(c)
    BY DEF TypeInv, TypeOK, LedgerInv
  <2>a. crashes' = crashes
    BY <1>4 DEF Step, Load, Insert, Fetch, Look, FetchFails, Reclaim, Refresh, RefreshFails,
        Stumble, Tell, Settle, Count, Flag
  <2>b. Others
    <3>1. ASSUME NEW k, Become(c, k) PROVE Others
      BY <3>1 DEF Become, TypeInv, TypeOK
    <3> QED
      BY <1>4, <3>1
      DEF Step, Load, Insert, Fetch, Look, FetchFails, Reclaim, Refresh, RefreshFails,
          Stumble, Tell, Settle, Count, Flag, Finish, Proceed, GoTo
  <2>1. CASE rows' = rows /\ call[c].pc \notin Claiming
    BY <1>0, <1>a, <2>a, <2>b, <2>1, HeldStays, CountedStays
  <2>2. CASE rows' = rows /\ call'[c].pc \in Claiming /\ call'[c].at = call[c].at
    BY <1>0, <1>a, <2>a, <2>b, <2>2, HeldStays, CountedStays
  <2>3. ASSUME NEW e \in Destination, Insert(c, e) PROVE Counted(d)'
    <3>1. call[c].pc \notin Claiming
      BY <2>3 DEF Insert, At, Claiming
    <3>2. CASE rows' = rows
      BY <2>1, <3>1, <3>2
    <3>3. CASE rows' # rows
      <4>1. /\ rows' = [rows EXCEPT ![e] =
                 [id |-> voids, status |-> "processing", attempts |-> 1, ripe |-> FALSE]]
            /\ call' = [call EXCEPT ![c] = [call[c] EXCEPT !.pc = "inserted", !.at = e]]
        BY <2>3, <3>3 DEF Insert, Become
      <4>2. CASE d = e
        <5>1. call'[c].pc = "inserted" /\ call'[c].at = d
          BY <2>0, <4>1, <4>2 DEF Call, TypeInv, TypeOK
        <5>2. Held(d)'
          BY <5>1 DEF Held, Claiming
        <5>3. rows'[d].attempts = 1
          BY <4>1, <4>2 DEF TypeInv, TypeOK
        <5> QED
          BY <1>0, <2>a, <5>2, <5>3 DEF Counted
      <4>3. CASE d # e
        <5>1. rows'[d] = rows[d]
          BY <4>1, <4>3
        <5> QED
          BY <1>0, <1>a, <2>a, <2>b, <3>1, <5>1, HeldStays, CountedStays
      <4> QED
        BY <4>2, <4>3
    <3> QED
      BY <3>2, <3>3
  <2>4. CASE Fetch(c) \/ Refresh(c) \/ \E reply \in Answers : Tell(c, reply)
    <3>1. rows' = rows
      BY <2>4 DEF Fetch, Refresh, Tell
    <3>2. call'[c].pc \in {"tell", "settle"} /\ call'[c].at = call[c].at
      <4>1. CASE Fetch(c)
        BY <2>0, <4>1 DEF Fetch, Become, Call, TypeInv, TypeOK
      <4>2. CASE Refresh(c)
        BY <2>0, <4>2 DEF Refresh, Become, Call, TypeInv, TypeOK
      <4>3. CASE \E reply \in Answers : Tell(c, reply)
        BY <2>0, <4>3 DEF Tell, Become, Call, TypeInv, TypeOK
      <4> QED
        BY <2>4, <4>1, <4>2, <4>3
    <3> QED
      BY <2>2, <3>1, <3>2 DEF Claiming
  \* A row that is held is on file, so these are not the steps of a holder.
  <2>5. CASE FetchFails(c) \/ RefreshFails(c)
    <3>1. rows' = rows
      BY <2>5 DEF FetchFails, RefreshFails, Stumble
    <3>2. call[c].pc \notin Claiming
      BY <2>0, <2>5 DEF FetchFails, RefreshFails, Missing, OnFile, At, Owns, Claiming
    <3> QED
      BY <2>1, <3>1, <3>2
  <2>6. CASE Reclaim(c)
    <3> DEFINE e == call[c].at
    <3>1. e \in Destination /\ call[c].pc \notin Claiming
      BY <2>0, <2>6 DEF Reclaim, At, Situated, AtWork, Claiming
    <3>2. CASE rows' = rows
      BY <2>1, <3>1, <3>2
    <3>3. CASE rows' # rows
      <4>1. Claimable(rows[e]) /\ rows' = [rows EXCEPT ![e] = TakenOver(rows[e])] /\ GoTo(c, "refresh")
        BY <2>6, <3>3 DEF Reclaim
      <4>2. CASE d # e
        <5>1. rows'[d] = rows[d]
          BY <4>1, <4>2
        <5> QED
          BY <1>0, <1>a, <2>a, <2>b, <3>1, <5>1, HeldStays, CountedStays
      <4>3. CASE d = e
        <5>1. rows[d].attempts < MaxAttempts + crashes
          <6>1. CASE rows[d].status = "retryable"
            BY <1>0, <1>a, <6>1 DEF LedgerInv, GivesUpInTime
          <6>2. CASE rows[d].status = "processing"
            <7>1. rows[d].ripe
              BY <4>1, <4>3 DEF Claimable
            <7>2. ~Held(d)
              BY <7>1 DEF Held, LedgerInv, Owns
            <7> QED
              BY <6>2, <7>2 DEF Counted
          <6> QED
            BY <4>1, <4>3, <6>1, <6>2 DEF Claimable
        <5>2. rows'[d].attempts = rows[d].attempts + 1
          BY <1>0, <4>1, <4>3 DEF TakenOver, Row, TypeInv, TypeOK
        <5>3. call'[c].pc = "refresh" /\ call'[c].at = d
          BY <2>0, <4>1, <4>3 DEF GoTo, Become, Call, TypeInv, TypeOK
        <5>4. Held(d)'
          BY <5>3 DEF Held, Claiming
        <5> QED
          BY <1>0, <1>a, <2>a, <5>1, <5>2, <5>4 DEF Counted
      <4> QED
        BY <4>2, <4>3
    <3> QED
      BY <3>2, <3>3
  <2>7. CASE Settle(c)
    <3> DEFINE e == call[c].at
               out == Outcome(call[c])
    <3>1. e \in Destination /\ OnFile(call[c])
      BY <2>0, <2>7 DEF Settle, At, Situated, AtWork, Claiming, Owns, OnFile
    <3>2. rows' = [rows EXCEPT ![e] = [rows[e] EXCEPT !.status = out, !.ripe = FALSE]]
      BY <2>7, <3>1 DEF Settle
    <3>3. CASE d # e
      <4>1. rows'[d] = rows[d]
        BY <3>2, <3>3
      <4> QED
        BY <1>0, <1>a, <2>a, <2>b, <3>3, <4>1, HeldStays, CountedStays
    <3>4. CASE d = e
      <4>1. out # "processing"
        BY <2>0 DEF Outcome, Call, Answers
      <4>2. rows'[d].attempts = rows[d].attempts /\ rows'[d].status = out
        BY <1>0, <3>1, <3>2, <3>4 DEF Row, TypeInv, TypeOK
      <4> QED
        BY <1>0, <1>a, <2>a, <4>1, <4>2, CountedStays
    <3> QED
      BY <3>3, <3>4
  <2>8. CASE Load(c) \/ Look(c) \/ Count(c) \/ Flag(c)
    BY <2>1, <2>8 DEF Load, Look, Count, Flag, At, Claiming
  <2> QED
    BY <1>4, <2>3, <2>4, <2>5, <2>6, <2>7, <2>8 DEF Step
\* A death pays for an attempt.
<1>5. ASSUME NEW c \in Caller, Crash(c) PROVE Counted(d)'
  BY <1>0, <1>a, <1>5 DEF Crash, Counted
<1>6. ASSUME NEW e \in Destination, BackoffPasses(e) \/ LeaseGoesStale(e) PROVE Counted(d)'
  <2>1. rows'[d].status = rows[d].status /\ rows'[d].attempts = rows[d].attempts
    BY <1>0, <1>6 DEF BackoffPasses, LeaseGoesStale, Row, TypeInv, TypeOK
  <2>2. UNCHANGED <<call, crashes>>
    BY <1>6 DEF BackoffPasses, LeaseGoesStale
  <2> QED
    BY <1>0, <1>a, <2>1, <2>2, CountedStays DEF Held
<1>7. CASE RetryByHand
  <2>1. \/ rows'[d] = rows[d]
        \/ rows'[d].attempts = 0 /\ rows'[d].status = "retryable"
    BY <1>0, <1>7 DEF RetryByHand, Row
  <2>2. UNCHANGED <<call, crashes>>
    BY <1>7 DEF RetryByHand
  <2> QED
    BY <1>0, <1>a, <2>1, <2>2, CountedStays DEF Held
<1>8. ASSUME NEW queued \in BOOLEAN, Ship(queued) PROVE Counted(d)'
  BY <1>0, <1>1, <1>8 DEF Ship
<1>9. CASE UNCHANGED vars \/ DayPasses \/ \E e \in Destination : FulfilledElsewhere(e)
  BY <1>0, <1>1, <1>9 DEF vars, DayPasses, FulfilledElsewhere
<1> QED
  BY <1>2, <1>3, <1>4, <1>5, <1>6, <1>7, <1>8, <1>9 DEF Next, Caller

\* As long as no void deletes the ledger under a call and no call outlasts its
\* lease, a destination is claimed MaxAttempts times at most, and once more for
\* each process that died.
THEOREM AttemptsArePaidFor ==
  ASSUME VoidsWait, CallsAreShort
  PROVE  Spec => []AttemptsAreAccountedFor
<1> DEFINE AllCounted == \A d \in Destination : Counted(d)
<1>1. Init => AllCounted
  <2> SUFFICES ASSUME Init, NEW d \in Destination PROVE Counted(d)
    OBVIOUS
  <2>1. rows[d].attempts = 0 /\ rows[d].status = "none" /\ crashes = 0
    BY DEF Init, NoRow
  <2> QED
    BY <2>1, ExportAssumption DEF Counted
<1>2. TypeInv /\ TypeInv' /\ LedgerInv /\ AllCounted /\ [Next]_vars => AllCounted'
  <2> SUFFICES ASSUME TypeInv, TypeInv', LedgerInv, AllCounted, [Next]_vars, NEW d \in Destination
               PROVE  Counted(d)'
    OBVIOUS
  <2> QED
    BY CountedSteps
<1>3. AllCounted => AttemptsAreAccountedFor
  BY DEF Counted, AttemptsAreAccountedFor
<1> QED
  BY <1>1, <1>2, <1>3, TypeInvariant, LedgerInvariant, PTL DEF Spec

(***************************************************************************)
(* What has succeeded stays so: an action that writes to a row finds it    *)
(* processing, retryable or given up, and only a void deletes it.          *)
(***************************************************************************)
LEMMA SucceededStays ==
  ASSUME TypeInv, LedgerInv, [Next]_vars, ~Void,
         NEW d \in Destination, rows[d].status = "succeeded"
  PROVE  rows'[d] = rows[d]
<1> USE DEF packageVars, boundVars
<1>1. CASE rows' = rows
  BY <1>1
<1>2. ASSUME NEW c \in Caller, Step(c) PROVE rows'[d] = rows[d]
  <2>0. call[c] \in Call /\ Owns(c) /\ Situated(call[c])
    BY DEF LedgerInv, TypeInv, TypeOK
  <2>1. ASSUME NEW e \in Destination, Insert(c, e) PROVE rows'[d] = rows[d]
    BY <2>1 DEF Insert, Missing, TypeInv, TypeOK
  <2>2. CASE Reclaim(c)
    <3>1. CASE OnFile(call[c]) /\ Claimable(rows[call[c].at])
      <4>1. rows' = [rows EXCEPT ![call[c].at] = TakenOver(rows[call[c].at])]
        BY <2>2, <3>1 DEF Reclaim
      <4>2. call[c].at # d
        BY <3>1 DEF Claimable
      <4> QED
        BY <4>1, <4>2 DEF TypeInv, TypeOK
    <3>2. CASE ~(OnFile(call[c]) /\ Claimable(rows[call[c].at]))
      BY <2>2, <3>2 DEF Reclaim
    <3> QED
      BY <3>1, <3>2
  <2>3. CASE Settle(c)
    <3>1. call[c].at # d
      BY <2>0, <2>3 DEF Settle, At, Owns, Claiming
    <3> QED
      BY <2>3, <3>1 DEF Settle, TypeInv, TypeOK
  <2> QED
    BY <1>2, <2>1, <2>2, <2>3
    DEF Step, Load, Fetch, Look, FetchFails, Refresh, RefreshFails, Stumble, Tell, Count, Flag
<1>3. ASSUME NEW e \in Destination, BackoffPasses(e) \/ LeaseGoesStale(e)
      PROVE  rows'[d] = rows[d]
  BY <1>3 DEF BackoffPasses, LeaseGoesStale, TypeInv, TypeOK
<1>4. CASE RetryByHand
  BY <1>4 DEF RetryByHand
<1> QED
  BY <1>1, <1>2, <1>3, <1>4
  DEF Next, vars, Ship, Listen, Sweep, Crash, DayPasses, FulfilledElsewhere

\* What a destination accepted is not sent or settled again, if neither a void nor
\* the end of a lease comes between a call and its answer.
THEOREM SucceededStaysFinal ==
  ASSUME VoidsWait, CallsAreShort
  PROVE  Spec => SucceededIsFinal
<1>1. TypeInv /\ LedgerInv /\ [Next]_vars =>
        [\A d \in Destination :
           rows[d].status = "succeeded" /\ ~Missing(d)' => rows'[d] = rows[d]]_vars
  <2> SUFFICES ASSUME TypeInv, LedgerInv, [Next]_vars, NEW d \in Destination,
                      rows[d].status = "succeeded", ~Missing(d)'
               PROVE  rows'[d] = rows[d]
    OBVIOUS
  <2>1. ~Void
    BY DEF Void, Cleared, NoRow, Missing, TypeInv, TypeOK
  <2> QED
    BY <2>1, SucceededStays
<1> QED
  BY <1>1, TypeInvariant, LedgerInvariant, PTL DEF Spec, SucceededIsFinal

(***************************************************************************)
(* What the flag means. The strengthening ties each stage to the label: a  *)
(* call runs for the label there is, what it tells is that label, and a    *)
(* row that has succeeded, for whichever call, was told it or keeps its    *)
(* first number. That nobody was ever told a null one, nor a label that is *)
(* yet to come, is needed to tell a kept number from none. A listener that *)
(* runs late breaks the first of these, and a void under a call the        *)
(* second, so both have to be excluded here.                               *)
(***************************************************************************)
Known(d) == heard[d] = Label \/ (d \in Served /\ heard[d] # 0)

Heard(d) ==
  \/ heard[d] \in {None, Elsewhere} \cup 1..voids
  \/ shipped /\ heard[d] = Label

Faithful(c) ==
  LET k == call[c] IN
  /\ k.pc # "idle" => shipped
  /\ k.pc \notin {"idle", "load"} => k.copy = Label
  /\ k.pc = "settle" /\ k.answer = "accepted" => Known(k.at)
  /\ k.pc = "flag" => AllSucceeded

ToldInv ==
  /\ \A c \in Caller : Faithful(c)
  /\ \A d \in Destination : rows[d].status = "succeeded" => shipped /\ Known(d)
  /\ exported /\ shipped => AllSucceeded
  /\ \A d \in Destination : Heard(d)

\* A call goes on without telling anybody anything.
LEMMA ToldKept ==
  ASSUME ToldInv, NEW c \in Caller, shipped,
         \A x \in Caller : x # c => call'[x] = call[x],
         UNCHANGED <<shipped, voids, heard>>,
         \A d \in Destination : rows[d].status = "succeeded" => rows'[d].status = "succeeded",
         \A d \in Destination :
           rows'[d].status = "succeeded" => rows[d].status = "succeeded" \/ Known(d),
         call'[c].pc # "settle",
         call'[c].pc \notin {"idle", "load"} => call'[c].copy = Label,
         call'[c].pc = "flag" => AllSucceeded,
         exported' => exported \/ AllSucceeded
  PROVE  ToldInv'
<1>1. /\ Label' = Label
      /\ \A d : Known(d)' <=> Known(d)
      /\ \A d : Heard(d)' <=> Heard(d)
  BY DEF Label, Known, Served, Heard
<1>2. AllSucceeded => AllSucceeded'
  BY DEF AllSucceeded
<1>3. \A x \in Caller : Faithful(x)'
  BY <1>1, <1>2 DEF ToldInv, Faithful
<1>4. \A d \in Destination : rows'[d].status = "succeeded" => shipped' /\ Known(d)'
  BY <1>1 DEF ToldInv
<1>5. exported' /\ shipped' => AllSucceeded'
  BY <1>2 DEF ToldInv
<1> QED
  BY <1>1, <1>3, <1>4, <1>5 DEF ToldInv

LEMMA ToldSteps ==
  ASSUME VoidsWait, CallsAreShort, JobsKeepUp, TypeInv, LedgerInv, ToldInv, [Next]_vars
  PROVE  ToldInv'
<1> USE DEF packageVars, boundVars
<1>0. \A x \in Caller : call[x] \in Call /\ Situated(call[x]) /\ Faithful(x) /\ Owns(x)
  BY DEF TypeInv, TypeOK, ToldInv, LedgerInv
<1>a. voids \in Nat /\ \A d \in Destination : heard[d] \in Nat \cup {None, Elsewhere}
  BY ExportAssumption DEF TypeInv, TypeOK
<1>1. CASE UNCHANGED <<shipped, voids, exported, rows, heard, call>>
  BY <1>1 DEF ToldInv, Faithful, Label, AllSucceeded, Known, Served, Heard
<1>2. ASSUME NEW queued \in BOOLEAN, Ship(queued) PROVE ToldInv'
  <2>1. ~shipped /\ ~exported' /\ call' = call /\ rows' = rows
    BY <1>2 DEF Ship
  <2>2. \A x \in Caller : call[x].pc = "idle"
    BY <1>0, <2>1 DEF Faithful
  <2>3. \A d \in Destination : rows[d].status # "succeeded"
    BY <2>1 DEF ToldInv
  <2>4. \A d \in Destination : Heard(d)'
    BY <1>2, <2>1 DEF Ship, ToldInv, Heard
  <2> QED
    BY <2>1, <2>2, <2>3, <2>4 DEF ToldInv, Faithful
<1>3. CASE Void
  <2>1. \A x \in Caller : call[x].pc = "idle"
    BY <1>3 DEF Void
  <2>2. \A d \in Destination : rows'[d].status # "succeeded"
    BY <1>3 DEF Void, Cleared, NoRow, TypeInv, TypeOK
  <2>3. \A d \in Destination : Heard(d)'
    BY <1>a, <1>3 DEF Void, ToldInv, Heard, Label
  <2> QED
    BY <1>3, <2>1, <2>2, <2>3 DEF Void, ToldInv, Faithful
<1>4. ASSUME NEW c \in Caller,
             \/ c \in Job /\ Listen(c)
             \/ c \in Sweeper /\ \E scheduled \in BOOLEAN : Sweep(c, scheduled)
      PROVE  ToldInv'
  <2>1. shipped /\ GoTo(c, "load") /\ UNCHANGED <<packageVars, rows, heard>>
    BY <1>4 DEF Listen, Sweep, Candidate
  <2>2. "load" \in Steps /\ "load" \notin AtWork
    BY DEF Steps, AtWork, Claiming
  <2>3. /\ call'[c] = [call[c] EXCEPT !.pc = "load"]
        /\ \A x \in Caller : x # c => call'[x] = call[x]
    BY <2>1, <2>2, GoToTypes
  <2>4. call'[c].pc = "load"
    BY <1>0, <2>3 DEF Call
  <2> QED
    BY <2>1, <2>3, <2>4, ToldKept
<1>5. ASSUME NEW c \in Caller, Step(c) PROVE ToldInv'
  <2> DEFINE Others == \A x \in Caller : x # c => call'[x] = call[x]
  <2>0. call[c] \in Call /\ Situated(call[c]) /\ Faithful(c) /\ Owns(c)
    BY <1>0
  <2>a. call[c].pc # "idle" /\ shipped
    BY <1>5, <2>0
    DEF Faithful, Step, Load, Insert, Fetch, Look, FetchFails, Reclaim, Refresh, RefreshFails,
        Tell, Settle, Count, Flag, At
  <2>b. call[c].pc # "load" => call[c].copy = Label
    BY <2>0, <2>a DEF Faithful
  <2>c. \A failed \in BOOLEAN : Proceed(c, failed) =>
          Others /\ call'[c].pc \in {"count", "claim"} /\ call'[c].copy = call[c].copy
    BY ProceedTypes
  <2>d. Finish(c) => Others /\ call'[c].pc = "idle"
    BY FinishTypes DEF Idle
  <2>e. call[c].failed \in BOOLEAN
    BY <2>0 DEF Call
  <2>f. ~Void => \A d \in Destination : rows[d].status = "succeeded" => rows'[d] = rows[d]
    BY SucceededStays
  <2>1. CASE Load(c)
    <3>1. CASE exported
      BY <2>1, <2>a, <2>d, <3>1, ToldKept DEF Load
    <3>2. CASE ~exported
      <4>1. /\ call' = [call EXCEPT ![c] =
                 [Idle EXCEPT !.pc = "claim", !.copy = Label, !.todo = Destination]]
            /\ UNCHANGED <<packageVars, rows, heard>>
        BY <2>1, <3>2 DEF Load, Become
      <4>2. Others /\ call'[c].pc = "claim" /\ call'[c].copy = Label
        BY <4>1 DEF Idle, TypeInv, TypeOK
      <4> QED
        BY <2>a, <4>1, <4>2, ToldKept
    <3> QED
      BY <3>1, <3>2
  <2>2. ASSUME NEW d \in Destination, Insert(c, d) PROVE ToldInv'
    <3>1. PICK step \in {"inserted", "found"} :
            call' = [call EXCEPT ![c] = [call[c] EXCEPT !.pc = step, !.at = d]]
      BY <2>2 DEF Insert, Become
    <3>2. Others /\ call'[c].pc = step /\ call'[c].copy = call[c].copy
      BY <2>0, <3>1 DEF Call, TypeInv, TypeOK
    <3>3. \A e \in Destination : rows'[e].status = "succeeded" <=> rows[e].status = "succeeded"
      BY <2>2 DEF Insert, Missing, TypeInv, TypeOK
    <3>4. UNCHANGED <<shipped, voids, exported, heard>> /\ call[c].pc # "load"
      BY <2>2 DEF Insert, At
    <3> QED
      BY <2>a, <2>b, <3>1, <3>2, <3>3, <3>4, ToldKept
  <2>3. CASE Fetch(c)
    <3> DEFINE r == rows[call[c].at]
    <3>1. /\ call' = [call EXCEPT ![c] =
               [call[c] EXCEPT !.pc = "tell", !.id = r.id, !.attempts = r.attempts]]
          /\ UNCHANGED <<packageVars, rows, heard>>
          /\ call[c].pc # "load"
      BY <2>3 DEF Fetch, Become, At
    <3>2. Others /\ call'[c].pc = "tell" /\ call'[c].copy = call[c].copy
      BY <2>0, <3>1 DEF Call, TypeInv, TypeOK
    <3> QED
      BY <2>a, <2>b, <3>1, <3>2, ToldKept
  <2>4. CASE Look(c)
    <3>1. UNCHANGED <<packageVars, rows, heard>> /\ call[c].pc # "load"
      BY <2>4 DEF Look, At
    <3>2. CASE Settled(rows[call[c].at])
      BY <2>4, <2>a, <2>b, <2>c, <2>e, <3>1, <3>2, ToldKept DEF Look
    <3>3. CASE ~Settled(rows[call[c].at])
      <4>1. call' = [call EXCEPT ![c] =
              [call[c] EXCEPT !.pc = "reclaim", !.id = rows[call[c].at].id]]
        BY <2>4, <3>3 DEF Look, Become
      <4>2. Others /\ call'[c].pc = "reclaim" /\ call'[c].copy = call[c].copy
        BY <2>0, <4>1 DEF Call, TypeInv, TypeOK
      <4> QED
        BY <2>a, <2>b, <3>1, <4>2, ToldKept
    <3> QED
      BY <3>2, <3>3
  <2>5. CASE FetchFails(c) \/ RefreshFails(c)
    <3>1. /\ UNCHANGED <<packageVars, rows, heard>>
          /\ call[c].pc # "load"
          /\ Proceed(c, TRUE)
      BY <2>5 DEF FetchFails, RefreshFails, Stumble, At
    <3> QED
      BY <2>a, <2>b, <2>c, <3>1, ToldKept
  <2>6. CASE Reclaim(c)
    <3>1. UNCHANGED <<packageVars, heard>> /\ call[c].pc # "load"
      BY <2>6 DEF Reclaim, At
    <3>2. CASE OnFile(call[c]) /\ Claimable(rows[call[c].at])
      <4>1. rows' = [rows EXCEPT ![call[c].at] = TakenOver(rows[call[c].at])] /\ GoTo(c, "refresh")
        BY <2>6, <3>2 DEF Reclaim
      <4>2. call[c].at \in Destination
        BY <2>0, <2>6 DEF Reclaim, At, Situated, AtWork
      <4>3. TakenOver(rows[call[c].at]).status = "processing"
        BY <4>2, TakenOverTypes DEF TypeInv, TypeOK
      <4>4. \A e \in Destination : rows'[e].status = "succeeded" <=> rows[e].status = "succeeded"
        BY <3>2, <4>1, <4>2, <4>3 DEF Claimable, TypeInv, TypeOK
      <4>5. "refresh" \in Steps
        BY DEF Steps, Claiming
      <4>6. Others /\ call'[c] = [call[c] EXCEPT !.pc = "refresh"]
        BY <4>1, <4>2, <4>5, GoToTypes
      <4>7. call'[c].pc = "refresh" /\ call'[c].copy = call[c].copy
        BY <2>0, <4>6 DEF Call
      <4> QED
        BY <2>a, <2>b, <3>1, <4>4, <4>6, <4>7, ToldKept
    <3>3. CASE ~(OnFile(call[c]) /\ Claimable(rows[call[c].at]))
      <4>1. Proceed(c, call[c].failed) /\ rows' = rows
        BY <2>6, <3>3 DEF Reclaim
      <4> QED
        BY <2>a, <2>b, <2>c, <2>e, <3>1, <4>1, ToldKept
    <3> QED
      BY <3>2, <3>3
  <2>7. CASE Refresh(c)
    <3>1. /\ call' = [call EXCEPT ![c] =
               [call[c] EXCEPT !.pc = "tell", !.attempts = rows[call[c].at].attempts]]
          /\ UNCHANGED <<packageVars, rows, heard>>
          /\ call[c].pc # "load"
      BY <2>7 DEF Refresh, Become, At
    <3>2. Others /\ call'[c].pc = "tell" /\ call'[c].copy = call[c].copy
      BY <2>0, <3>1 DEF Call, TypeInv, TypeOK
    <3> QED
      BY <2>a, <2>b, <3>1, <3>2, ToldKept
  <2>8. ASSUME NEW reply \in Answers, Tell(c, reply) PROVE ToldInv'
    <3> DEFINE d == call[c].at
    <3>1. /\ call' = [call EXCEPT ![c] = [call[c] EXCEPT !.pc = "settle", !.answer = reply]]
          /\ UNCHANGED <<packageVars, rows>>
          /\ call[c].pc = "tell"
      BY <2>8 DEF Tell, Become, At
    <3>2. /\ Others
          /\ call'[c].pc = "settle" /\ call'[c].copy = call[c].copy
          /\ call'[c].at = d /\ call'[c].answer = reply
      BY <2>0, <3>1 DEF Call, TypeInv, TypeOK
    <3>3. d \in Destination /\ rows[d].status = "processing"
      BY <2>0, <3>1 DEF Situated, AtWork, Claiming, Owns
    <3>4. /\ \A e \in Destination : e # d => heard'[e] = heard[e]
          /\ \/ heard'[d] = Label
             \/ d \in Once /\ heard[d] # None /\ heard'[d] = heard[d]
             \/ reply # "accepted" /\ heard'[d] = heard[d]
      BY <2>8, <2>b, <3>1, <3>3 DEF Tell, Taken, TypeInv, TypeOK
    <3>5. /\ Label' = Label /\ AllSucceeded' = AllSucceeded
          /\ shipped' = shipped /\ exported' = exported /\ voids' = voids
      BY <3>1 DEF Label, AllSucceeded
    <3>a. \A e \in Destination : e # d => (Known(e)' <=> Known(e))
      BY <3>4, <3>5 DEF Known, Served
    <3>b. \A e \in Destination : Heard(e)'
      BY <2>a, <3>3, <3>4, <3>5 DEF ToldInv, Heard
    <3>c. ASSUME NEW e \in Destination, e = d, reply = "accepted" PROVE Known(e)'
      <4>1. CASE heard'[e] = Label
        BY <3>5, <4>1 DEF Known
      <4>2. CASE e \in Once /\ heard[e] # None /\ heard'[e] = heard[e] /\ heard[e] # Label
        <5>1. heard[e] = Elsewhere \/ heard[e] \in 1..voids
          BY <4>2 DEF ToldInv, Heard
        <5>2. Elsewhere # 0
          BY ExportAssumption
        <5>3. heard[e] # 0
          BY <1>a, <5>1, <5>2
        <5> QED
          BY <3>5, <4>2, <5>3 DEF Known, Served
      <4> QED
        BY <3>4, <3>c, <4>1, <4>2
    <3>6. \A x \in Caller : x # c /\ call[x].pc = "settle" => call[x].at \in Destination /\ call[x].at # d
      BY <1>0, <3>1 DEF LedgerInv, OneSenderPerDestination, Claiming, Situated, AtWork
    <3>7. Faithful(c)'
      <4>1. PICK e \in Destination : e = d
        BY <3>3
      <4>2. reply = "accepted" => Known(e)'
        BY <3>c, <4>1
      <4> QED
        BY <2>a, <2>b, <3>1, <3>2, <3>5, <4>1, <4>2 DEF Faithful, Known, Served
    <3> HIDE DEF d
    <3>8. \A x \in Caller : x # c => Faithful(x)'
      BY <1>0, <3>2, <3>5, <3>6, <3>a DEF Faithful
    <3>9. \A e \in Destination : rows'[e].status = "succeeded" => shipped' /\ Known(e)'
      BY <3>1, <3>3, <3>5, <3>a DEF ToldInv
    <3> QED
      BY <3>5, <3>7, <3>8, <3>9, <3>b DEF ToldInv
  <2>9. CASE Settle(c)
    <3> DEFINE d == call[c].at
    <3>1. call[c].pc = "settle" /\ UNCHANGED <<packageVars, heard>>
      BY <2>9 DEF Settle, At
    <3>2. d \in Destination
      BY <2>0, <3>1 DEF Situated, AtWork, Claiming
    <3>3. rows'[d].status = "succeeded" => rows[d].status = "succeeded" \/ call[c].answer = "accepted"
      <4>1. CASE OnFile(call[c])
        <5>1. rows' = [rows EXCEPT ![d] = [rows[d] EXCEPT !.status = Outcome(call[c]), !.ripe = FALSE]]
          BY <2>9, <4>1 DEF Settle
        <5>2. rows'[d].status = Outcome(call[c])
          BY <3>2, <5>1 DEF Row, TypeInv, TypeOK
        <5>3. Outcome(call[c]) = "succeeded" => call[c].answer = "accepted"
          BY <2>0 DEF Outcome, Call, Answers
        <5> QED
          BY <5>2, <5>3
      <4>2. CASE ~OnFile(call[c])
        BY <2>9, <4>2 DEF Settle
      <4> QED
        BY <4>1, <4>2
    <3>4. \A e \in Destination : e # d => rows'[e] = rows[e]
      BY <2>9 DEF Settle, TypeInv, TypeOK
    <3>5. call[c].answer = "accepted" => Known(d)
      BY <2>0, <3>1 DEF Faithful
    <3>6. ~Void
      BY <2>a, <3>1 DEF Void
    <3>7. (call[c].failed \/ Outcome(call[c]) = "retryable") \in BOOLEAN
      BY <2>e
    <3>8. Others /\ call'[c].pc \in {"count", "claim"} /\ call'[c].copy = Label
      BY <2>9, <2>b, <2>c, <3>1, <3>7 DEF Settle
    <3> HIDE DEF d
    <3> QED
      BY <2>a, <2>f, <3>1, <3>3, <3>4, <3>5, <3>6, <3>8, ToldKept
  <2>10. CASE Count(c)
    <3>1. UNCHANGED <<packageVars, rows, heard>> /\ call[c].pc = "count"
      BY <2>10 DEF Count, At
    <3>2. CASE AllSucceeded
      <4>1. call' = [call EXCEPT ![c] = [call[c] EXCEPT !.pc = "flag"]]
        BY <2>10, <3>2 DEF Count, GoTo, Become
      <4>2. Others /\ call'[c].pc = "flag" /\ call'[c].copy = call[c].copy
        BY <2>0, <4>1 DEF Call, TypeInv, TypeOK
      <4> QED
        BY <2>a, <2>b, <3>1, <3>2, <4>2, ToldKept
    <3>3. CASE ~AllSucceeded
      BY <2>10, <2>a, <2>d, <3>1, <3>3, ToldKept DEF Count
    <3> QED
      BY <3>2, <3>3
  <2>11. CASE Flag(c)
    <3>1. AllSucceeded
      BY <2>0, <2>11 DEF Flag, At, Faithful
    <3>2. UNCHANGED <<shipped, voids, rows, heard>> /\ Finish(c)
      BY <2>11 DEF Flag
    <3> QED
      BY <2>a, <2>d, <3>1, <3>2, ToldKept
  <2> QED
    BY <1>5, <2>1, <2>2, <2>3, <2>4, <2>5, <2>6, <2>7, <2>8, <2>9, <2>10, <2>11 DEF Step
<1>6. ASSUME NEW c \in Caller, Crash(c) PROVE ToldInv'
  <2>1. /\ call' = [call EXCEPT ![c] = Idle]
        /\ UNCHANGED <<packageVars, rows, heard>>
        /\ call[c].pc # "idle"
    BY <1>6 DEF Crash, Become, At
  <2>2. call'[c].pc = "idle" /\ \A x \in Caller : x # c => call'[x] = call[x]
    BY <2>1 DEF Idle, TypeInv, TypeOK
  <2>3. shipped
    BY <1>0, <2>1 DEF Faithful
  <2> QED
    BY <2>1, <2>2, <2>3, ToldKept
<1>7. ASSUME RetryByHand \/ \E d \in Destination : BackoffPasses(d) \/ LeaseGoesStale(d)
      PROVE  ToldInv'
  <2>1. UNCHANGED <<packageVars, heard, call>>
    BY <1>7 DEF RetryByHand, BackoffPasses, LeaseGoesStale
  <2>2. \A d \in Destination : rows'[d].status = "succeeded" <=> rows[d].status = "succeeded"
    <3> SUFFICES ASSUME NEW d \in Destination
                 PROVE  rows'[d].status = "succeeded" <=> rows[d].status = "succeeded"
      OBVIOUS
    <3>1. CASE RetryByHand
      <4>1. [rows[d] EXCEPT !.status = "retryable", !.attempts = 0, !.ripe = TRUE].status = "retryable"
        BY DEF Row, TypeInv, TypeOK
      <4> QED
        BY <3>1, <4>1 DEF RetryByHand
    <3>2. ASSUME NEW e \in Destination, BackoffPasses(e) \/ LeaseGoesStale(e)
          PROVE  rows'[d].status = "succeeded" <=> rows[d].status = "succeeded"
      BY <3>2 DEF BackoffPasses, LeaseGoesStale, Row, TypeInv, TypeOK
    <3> QED
      BY <1>7, <3>1, <3>2
  <2>3. /\ Label' = Label /\ (AllSucceeded' <=> AllSucceeded)
        /\ \A d : (Known(d)' <=> Known(d)) /\ (Heard(d)' <=> Heard(d))
    BY <2>1, <2>2 DEF Label, AllSucceeded, Known, Served, Heard
  <2> QED
    BY <2>1, <2>2, <2>3 DEF ToldInv, Faithful
\* Nobody had told the destination anything, so nothing counts it as told.
<1>8. ASSUME NEW d \in Destination, FulfilledElsewhere(d) PROVE ToldInv'
  <2>1. /\ UNCHANGED <<packageVars, rows, call>> /\ Label' = Label
        /\ heard[d] = None /\ heard'[d] = Elsewhere
        /\ \A e \in Destination : e # d => heard'[e] = heard[e]
    BY <1>8 DEF FulfilledElsewhere, Label, TypeInv, TypeOK
  <2>2. Label \in Nat
    BY <1>a DEF Label
  <2>3. ~Known(d)
    BY <2>1, <2>2, ExportAssumption DEF Known, Served
  <2>4. \A e \in Destination : Known(e) => Known(e)'
    BY <2>1, <2>3 DEF Known, Served
  <2>5. \A e \in Destination : Heard(e)'
    BY <2>1 DEF ToldInv, Heard
  <2>6. \A x \in Caller : Faithful(x)'
    <3> SUFFICES ASSUME NEW x \in Caller PROVE Faithful(x)'
      OBVIOUS
    <3>1. call[x].pc = "settle" => call[x].at \in Destination
      BY <1>0 DEF Situated, AtWork, Claiming
    <3> QED
      BY <1>0, <2>1, <2>4, <3>1 DEF Faithful, AllSucceeded
  <2> QED
    BY <2>1, <2>4, <2>5, <2>6 DEF ToldInv, AllSucceeded
<1> QED
  BY <1>1, <1>2, <1>3, <1>4, <1>5, <1>6, <1>7, <1>8 DEF Next, vars, DayPasses, Caller

LEMMA ToldInvariant ==
  ASSUME VoidsWait, CallsAreShort, JobsKeepUp
  PROVE  Spec => []ToldInv
<1>1. Init => ToldInv
  BY DEF Init, ToldInv, Faithful, Idle, NoRow, Heard
<1>2. TypeInv /\ LedgerInv /\ ToldInv /\ [Next]_vars => ToldInv'
  BY ToldSteps
<1> QED
  BY <1>1, <1>2, TypeInvariant, LedgerInvariant, PTL DEF Spec

\* The flag that ends all retries is only ever found on a label that every
\* destination was told, or keeps the first number it was given instead of: if
\* voids wait for running calls, these outrun their leases, and listeners run
\* before the label they were queued for is voided.
THEOREM FlagIsTrue ==
  ASSUME VoidsWait, CallsAreShort, JobsKeepUp
  PROVE  Spec => []ExportedMeansTold
<1>1. ToldInv => ExportedMeansTold
  BY DEF ToldInv, ExportedMeansTold, AllSucceeded, Known
<1> QED
  BY <1>1, ToldInvariant, PTL

(***************************************************************************)
(* The export implements LabelExport. A new label must find nobody who     *)
(* knows it, which Heard says, and nothing in the ledger: a package        *)
(* without a label has no rows.                                            *)
(***************************************************************************)
BlankInv == ~shipped => \A d \in Destination : Missing(d)

LEMMA BlankSteps ==
  ASSUME TypeInv, ToldInv, BlankInv, [Next]_vars
  PROVE  BlankInv'
<1> USE DEF packageVars, boundVars
<1>1. CASE UNCHANGED <<shipped, rows>>
  BY <1>1 DEF BlankInv, Missing
<1>2. ASSUME NEW queued \in BOOLEAN, Ship(queued) PROVE BlankInv'
  BY <1>2 DEF Ship, BlankInv
<1>3. CASE Void
  BY <1>3 DEF Void, Cleared, NoRow, BlankInv, Missing, TypeInv, TypeOK
<1>4. ASSUME NEW c \in Caller, Step(c) PROVE BlankInv'
  <2>1. call[c] \in Call /\ Faithful(c)
    BY DEF TypeInv, TypeOK, ToldInv
  <2>2. shipped /\ shipped' = shipped
    BY <1>4, <2>1
    DEF Faithful, Step, Load, Insert, Fetch, Look, FetchFails, Reclaim, Refresh, RefreshFails,
        Stumble, Tell, Settle, Count, Flag, At
  <2> QED
    BY <2>2 DEF BlankInv
<1>5. ASSUME NEW d \in Destination, BackoffPasses(d) \/ LeaseGoesStale(d) PROVE BlankInv'
  BY <1>5 DEF BackoffPasses, LeaseGoesStale, BlankInv, Missing, TypeInv, TypeOK
<1>6. CASE RetryByHand
  BY <1>6 DEF RetryByHand, BlankInv
<1> QED
  BY <1>1, <1>2, <1>3, <1>4, <1>5, <1>6
  DEF Next, vars, Listen, Sweep, Crash, DayPasses, FulfilledElsewhere

\* What keeps the package, what was heard, and who succeeded or was given up,
\* is nothing LabelExport can see.
LEMMA PromiseStutters ==
  ASSUME UNCHANGED <<shipped, voids, exported, heard>>,
         \A d \in Destination : \A status \in {"succeeded", "permanent"} :
           rows'[d].status = status <=> rows[d].status = status
  PROVE  UNCHANGED Promise!vars
<1>1. Informed' = Informed /\ Served' = Served
  BY DEF Informed, Served, Label
<1>2. With("succeeded")' = With("succeeded") /\ With("permanent")' = With("permanent")
  BY DEF With
<1> QED
  BY <1>1, <1>2 DEF Promise!vars

LEMMA PromiseSteps ==
  ASSUME TypeInv, LedgerInv, ToldInv, BlankInv, [Next]_vars
  PROVE  [Promise!Next]_(Promise!vars)
<1> USE DEF packageVars, boundVars
<1>0. /\ voids \in Nat
      /\ \A d \in Destination : heard[d] \in Nat \cup {None, Elsewhere} /\ Heard(d)
  BY ExportAssumption DEF TypeInv, TypeOK, ToldInv
<1>1. CASE UNCHANGED <<shipped, voids, exported, heard, rows>>
  BY <1>1, PromiseStutters
<1>2. ASSUME NEW queued \in BOOLEAN, Ship(queued) PROVE Promise!Record
  <2>1. ~shipped /\ shipped' /\ ~exported' /\ UNCHANGED <<voids, heard, rows>>
    BY <1>2 DEF Ship
  <2>a. \A d \in Destination : heard[d] # voids + 1
    BY <1>0, <2>1, ExportAssumption DEF Heard
  <2>2. Informed' = {}
    BY <2>1, <2>a DEF Informed, Label
  <2>b. Served' = Served
    BY <2>1, <2>a, ExportAssumption DEF Served, Label
  <2>3. With("succeeded")' = {} /\ With("permanent")' = {}
    BY <2>1 DEF With, BlankInv, Missing
  <2> QED
    BY <2>1, <2>2, <2>3, <2>b DEF Promise!Record, Promise!Blank
<1>3. CASE Void
  <2>1. shipped /\ ~shipped' /\ ~exported' /\ rows' = Cleared(rows) /\ heard' = heard
    BY <1>3 DEF Void
  <2>2. With("succeeded")' = {} /\ With("permanent")' = {} /\ Informed' = {}
    BY <2>1 DEF With, Informed, Cleared, NoRow, TypeInv, TypeOK
  <2>3. Label \in Nat
    BY <1>0 DEF Label
  <2>4. Served' = Served \cup (Informed \cap Once)
    BY <2>1, <2>3, ExportAssumption DEF Served, Informed
  <2> QED
    BY <2>1, <2>2, <2>4 DEF Promise!Next, Promise!Withdraw, Promise!Blank
<1>4. ASSUME NEW c \in Caller, Step(c)
      PROVE  Promise!Next \/ UNCHANGED Promise!vars
  <2>0. call[c] \in Call /\ Situated(call[c]) /\ Faithful(c) /\ Owns(c)
    BY DEF TypeInv, TypeOK, ToldInv, LedgerInv
  <2>1. CASE UNCHANGED <<packageVars, heard, rows>>
    BY <2>1, PromiseStutters
  <2>2. ASSUME NEW d \in Destination, Insert(c, d) PROVE UNCHANGED Promise!vars
    <3>1. \A e \in Destination : rows'[e] = rows[e] \/ (rows[e].status = "none" /\ rows'[e].status = "processing")
      BY <2>2 DEF Insert, Missing, TypeInv, TypeOK
    <3> QED
      BY <2>2, <3>1, PromiseStutters DEF Insert
  <2>3. CASE Reclaim(c)
    <3> DEFINE d == call[c].at
    <3>1. d \in Destination
      BY <2>0, <2>3 DEF Reclaim, At, Situated, AtWork
    <3>2. rows' = rows \/ (Claimable(rows[d]) /\ rows' = [rows EXCEPT ![d] = TakenOver(rows[d])])
      BY <2>3 DEF Reclaim
    <3>3. TakenOver(rows[d]).status = "processing"
      BY <3>1 DEF TakenOver, TypeInv, TypeOK, Row
    <3>4. \A e \in Destination : rows'[e] = rows[e]
             \/ (rows[e].status \in {"retryable", "processing"} /\ rows'[e].status = "processing")
      BY <3>1, <3>2, <3>3 DEF Claimable, TypeInv, TypeOK
    <3> QED
      BY <2>3, <3>4, PromiseStutters DEF Reclaim
  <2>4. ASSUME NEW reply \in Answers, Tell(c, reply)
        PROVE  Promise!Inform(call[c].at) \/ UNCHANGED Promise!vars
    <3> DEFINE d == call[c].at
    <3>1. CASE UNCHANGED heard
      BY <2>4, <3>1, PromiseStutters DEF Tell
    <3>a. CASE heard' # heard /\ heard' = [heard EXCEPT ![d] = Taken(d, call[c].copy)]
      <4>0. /\ heard' = [heard EXCEPT ![d] = call[c].copy]
            /\ d \in Once => heard[d] = None
        BY <3>a DEF Taken, TypeInv, TypeOK
      <4>1. d \in Destination /\ rows[d].status = "processing" /\ shipped /\ call[c].copy = Label
        BY <2>0, <2>4 DEF Tell, At, Situated, AtWork, Claiming, Owns, Faithful
      <4>2. UNCHANGED <<shipped, voids, exported, rows>>
        BY <2>4 DEF Tell
      <4>3. Informed' = Informed \cup {d}
        BY <4>0, <4>1, <4>2 DEF Informed, Label, TypeInv, TypeOK
      <4>a. d \notin Served /\ Served' = Served
        BY <4>0, <4>1, <4>2 DEF Served, Label, TypeInv, TypeOK
      <4>4. d \notin With("succeeded") \cup With("permanent")
        BY <4>1 DEF With
      <4>5. With("succeeded")' = With("succeeded") /\ With("permanent")' = With("permanent")
        BY <4>2 DEF With
      <4> QED
        BY <4>1, <4>2, <4>3, <4>4, <4>5, <4>a DEF Promise!Inform
    <3> QED
      BY <2>4, <3>1, <3>a DEF Tell
  <2>5. CASE Settle(c)
    <3> DEFINE k == call[c]
               d == call[c].at
               out == Outcome(call[c])
    <3>1. d \in Destination /\ rows[d].status = "processing" /\ shipped
      BY <2>0, <2>5 DEF Settle, At, Situated, AtWork, Claiming, Owns, Faithful
    <3>2. rows' = rows \/ rows' = [rows EXCEPT ![d] = [rows[d] EXCEPT !.status = out, !.ripe = FALSE]]
      BY <2>5 DEF Settle
    <3>3. rows[d] \in Row /\ [rows[d] EXCEPT !.status = out, !.ripe = FALSE].status = out
      BY <3>1 DEF TypeInv, TypeOK, Row
    <3>4. UNCHANGED <<shipped, voids, exported, heard>> /\ Informed' = Informed /\ Served' = Served
      BY <2>5 DEF Settle, Informed, Served, Label
    <3>5. CASE rows' = rows
      BY <3>4, <3>5, PromiseStutters
    <3>6. CASE rows' # rows
      <4>1. /\ rows'[d].status = out
            /\ \A e \in Destination : e # d => rows'[e] = rows[e]
        BY <3>1, <3>2, <3>3, <3>6 DEF TypeInv, TypeOK
      <4>2. CASE out = "succeeded"
        <5>1. k.answer = "accepted"
          BY <2>0, <4>2 DEF Outcome, Call, Answers, GivesUp
        <5>2. d \in Informed \cup Served
          BY <2>0, <2>5, <3>1, <5>1 DEF Settle, At, Faithful, Known, Informed
        <5>3. With("succeeded")' = With("succeeded") \cup {d} /\ With("permanent")' = With("permanent")
          BY <3>1, <4>1, <4>2 DEF With
        <5>4. d \notin With("permanent")
          BY <3>1 DEF With
        <5> QED
          BY <3>1, <3>4, <5>2, <5>3, <5>4 DEF Promise!Next, Promise!Acknowledge
      <4>3. CASE out = "permanent"
        <5>1. With("permanent")' = With("permanent") \cup {d} /\ With("succeeded")' = With("succeeded")
          BY <3>1, <4>1, <4>3 DEF With
        <5>2. d \notin With("succeeded")
          BY <3>1 DEF With
        <5> QED
          BY <3>1, <3>4, <5>1, <5>2 DEF Promise!Next, Promise!GiveUp
      <4>4. CASE out = "retryable"
        BY <3>1, <3>4, <4>1, <4>4, PromiseStutters
      <4> QED
        BY <2>0, <4>2, <4>3, <4>4 DEF Outcome, Call, Answers
    <3> QED
      BY <3>5, <3>6
  <2>6. CASE Flag(c)
    <3>1. shipped /\ AllSucceeded
      BY <2>0, <2>6 DEF Flag, At, Faithful
    <3>2. With("succeeded") = Destination
      BY <3>1 DEF With, AllSucceeded
    <3>3. exported' /\ UNCHANGED <<shipped, voids, heard, rows>>
      BY <2>6 DEF Flag
    <3>4. UNCHANGED <<Informed, Served, With("succeeded"), With("permanent")>>
      BY <3>3 DEF Informed, Served, Label, With
    <3> QED
      BY <3>1, <3>2, <3>3, <3>4 DEF Promise!Next, Promise!Flag
  <2> QED
    BY <1>4, <2>0, <2>1, <2>2, <2>3, <2>4, <2>5, <2>6
    DEF Step, Load, Fetch, Look, FetchFails, Refresh, RefreshFails, Stumble, Count,
        Promise!Next, Tell, At, Situated, AtWork, Claiming
<1>5. ASSUME NEW d \in Destination, BackoffPasses(d) \/ LeaseGoesStale(d)
      PROVE  UNCHANGED Promise!vars
  <2>1. \A e \in Destination : rows'[e].status = rows[e].status
    BY <1>5 DEF BackoffPasses, LeaseGoesStale, Row, TypeInv, TypeOK
  <2> QED
    BY <1>5, <2>1, PromiseStutters DEF BackoffPasses, LeaseGoesStale
<1>6. CASE RetryByHand
  <2>1. /\ ~exported
        /\ UNCHANGED <<shipped, voids, exported, heard>>
    BY <1>6 DEF RetryByHand
  <2>2. \A d \in Destination :
          rows'[d].status = IF rows[d].status = "permanent" THEN "retryable" ELSE rows[d].status
    BY <1>6 DEF RetryByHand, Row, TypeInv, TypeOK
  <2>3. With("permanent")' = {} /\ With("succeeded")' = With("succeeded")
    BY <2>2 DEF With
  <2>4. Informed' = Informed /\ Served' = Served
    BY <2>1 DEF Informed, Served, Label
  <2> QED
    BY <2>1, <2>3, <2>4 DEF Promise!Next, Promise!Reopen
<1>7. ASSUME NEW d \in Destination, FulfilledElsewhere(d) PROVE Promise!Serve(d)
  <2>1. /\ UNCHANGED <<shipped, voids, exported, rows>> /\ Label' = Label
        /\ d \in Once /\ heard[d] = None /\ heard'[d] = Elsewhere
        /\ \A e \in Destination : e # d => heard'[e] = heard[e]
    BY <1>7 DEF FulfilledElsewhere, Label, TypeInv, TypeOK
  <2>2. Label \in Nat
    BY <1>0 DEF Label
  <2>3. d \notin Informed \cup Served
    BY <2>1, <2>2, ExportAssumption DEF Informed, Served
  <2>4. Informed' = Informed
    BY <2>1, <2>2, ExportAssumption DEF Informed
  <2>5. Served' = Served \cup {d}
    BY <2>1, <2>2, ExportAssumption DEF Served
  <2>6. With("succeeded")' = With("succeeded") /\ With("permanent")' = With("permanent")
    BY <2>1 DEF With
  <2> QED
    BY <2>1, <2>3, <2>4, <2>5, <2>6 DEF Promise!Serve
<1> QED
  BY <1>1, <1>2, <1>3, <1>4, <1>5, <1>6, <1>7
  DEF Next, vars, Listen, Sweep, Crash, DayPasses, Promise!Next

\* Whatever listeners, sweeps and the operator do, and whoever dies when, the
\* export is one that tells the label there is to each destination that has no
\* number to keep, leaves alone those that count or were given up, and flags the
\* package when all count: if voids wait for running calls, these outrun their
\* leases, and listeners run before theirs is voided.
THEOREM ExportImplementsLabelExport ==
  ASSUME VoidsWait, CallsAreShort, JobsKeepUp
  PROVE  Spec => ExportKeepsItsPromise
<1>1. Init => BlankInv /\ Promise!Init
  <2> SUFFICES ASSUME Init PROVE BlankInv /\ Promise!Init
    OBVIOUS
  <2>1. BlankInv
    BY ExportAssumption DEF Init, BlankInv, Label, Missing, NoRow
  <2>2. Informed = {} /\ Served = {} /\ With("succeeded") = {} /\ With("permanent") = {}
    BY ExportAssumption DEF Init, Informed, Served, With, NoRow
  <2> QED
    BY <2>1, <2>2 DEF Init, Promise!Init, Promise!Blank
<1>2. TypeInv /\ ToldInv /\ BlankInv /\ [Next]_vars => BlankInv'
  BY BlankSteps
<1>3. TypeInv /\ LedgerInv /\ ToldInv /\ BlankInv /\ [Next]_vars => [Promise!Next]_(Promise!vars)
  BY PromiseSteps
<1> QED
  BY <1>1, <1>2, <1>3, TypeInvariant, LedgerInvariant, ToldInvariant, PTL
  DEF Spec, ExportKeepsItsPromise, Promise!Spec
=============================================================================
