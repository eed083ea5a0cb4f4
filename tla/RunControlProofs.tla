-------------------------- MODULE RunControlProofs --------------------------
(***************************************************************************)
(* Run control for every set of runs, executors and resources: its typing, *)
(* and that the claims table follows the scheduler state without ever      *)
(* letting two owners onto one resource.                                   *)
(***************************************************************************)
EXTENDS RunControl, TLAPS

-----------------------------------------------------------------------------
(* What the statements against the claims table do to the rows of one     *)
(* owner, to the typing of the table and to its exclusiveness.            *)

\* The rows of one owner in a given table; Held is this for the current one.
Rows(table, o) == {c \in table : c.owner = o}

\* No two rows of a table are for one resource.
Exclusive(table) == \A c, d \in table : c.resource = d.resource => c = d

\* The rows an owner should have with one status.
Whole(o, s) == {[resource |-> x, owner |-> o, status |-> s] : x \in Needs[o]}

\* INSERT of all claims of an owner: typed rows.
LEMMA ClaimedType ==
    ASSUME ClaimsTypeOK, NEW o \in Owner
    PROVE  Claimed(o) \subseteq Claim
<1>1. ASSUME NEW x \in Needs[o]
      PROVE  [resource |-> x, owner |-> o, status |-> "active"] \in Claim
  BY <1>1, NeedsAssumption DEF Claim, ClaimStatus
<1> QED
  BY <1>1 DEF Claimed, ClaimsTypeOK

\* INSERT after the check that nothing is taken keeps the table exclusive.
LEMMA ClaimedExclusive ==
    ASSUME NEW o \in Owner, Free(o), ExclusiveClaims
    PROVE  Exclusive(Claimed(o))
BY DEF Free, ExclusiveClaims, Exclusive, Claimed

\* INSERT for one owner leaves the rows of the others alone.
LEMMA ClaimedOther ==
    ASSUME NEW o \in Owner, NEW p, p # o
    PROVE  Rows(Claimed(o), p) = Held(p)
BY DEF Rows, Claimed, Held

\* INSERT for an owner without rows gives it the whole set.
LEMMA ClaimedOwn ==
    ASSUME NEW o \in Owner, Held(o) = {}
    PROVE  Rows(Claimed(o), o) = Whole(o, "active")
<1>1. \A c \in claims : c.owner # o
  BY DEF Held
<1>2. \A c \in Whole(o, "active") : c.owner = o
  BY DEF Whole
<1>3. Claimed(o) = claims \cup Whole(o, "active")
  BY DEF Claimed, Whole
<1> QED
  BY <1>1, <1>2, <1>3 DEF Rows

\* DELETE of some owners' rows: a subset of the table is left.
LEMMA ReleasedSubset ==
    ASSUME NEW S
    PROVE  /\ Released(S) \subseteq claims
           /\ \A o : o \in S => Rows(Released(S), o) = {}
           /\ \A o : o \notin S => Rows(Released(S), o) = Held(o)
BY DEF Released, Rows, Held

\* A subset of an exclusive table is exclusive, of a typed table typed.
LEMMA SubsetKeeps ==
    ASSUME NEW table, table \subseteq claims
    PROVE  /\ ExclusiveClaims => Exclusive(table)
           /\ ClaimsTypeOK => table \subseteq Claim
BY DEF ExclusiveClaims, Exclusive, ClaimsTypeOK

\* A row whose status becomes quarantined: same resource, same owner.
LEMMA QuarantinedRow ==
    ASSUME NEW c \in Claim
    PROVE  LET d == [c EXCEPT !.status = "quarantined"]
           IN  d \in Claim /\ d.resource = c.resource /\ d.owner = c.owner
BY DEF Claim, ClaimStatus

\* UPDATE ... SET status keeps types and exclusiveness.
LEMMA QuarantinedKeeps ==
    ASSUME ClaimsTypeOK, NEW S
    PROVE  /\ Quarantined(S) \subseteq Claim
           /\ ExclusiveClaims => Exclusive(Quarantined(S))
<1> DEFINE q(c) == IF c.owner \in S THEN [c EXCEPT !.status = "quarantined"] ELSE c
<1>1. ASSUME NEW c \in claims
      PROVE  q(c) \in Claim /\ q(c).resource = c.resource
  BY QuarantinedRow DEF ClaimsTypeOK
<1>2. Quarantined(S) = {q(c) : c \in claims}
  BY DEF Quarantined
<1>3. Quarantined(S) \subseteq Claim
  BY <1>1, <1>2
<1>4. ASSUME ExclusiveClaims, NEW c \in Quarantined(S), NEW d \in Quarantined(S),
             c.resource = d.resource
      PROVE  c = d
  <2>1. PICK c0 \in claims : c = q(c0)
    BY <1>2
  <2>2. PICK d0 \in claims : d = q(d0)
    BY <1>2
  <2>3. c0.resource = d0.resource
    BY <1>1, <1>4, <2>1, <2>2
  <2>4. c0 = d0
    BY <1>4, <2>3 DEF ExclusiveClaims
  <2> QED
    BY <2>1, <2>2, <2>4
<1> QED
  BY <1>3, <1>4 DEF Exclusive

\* UPDATE ... SET status leaves the rows of other owners alone.
LEMMA QuarantinedOther ==
    ASSUME ClaimsTypeOK, NEW S, NEW o, o \notin S
    PROVE  Rows(Quarantined(S), o) = Held(o)
BY QuarantinedRow DEF Quarantined, Rows, Held, ClaimsTypeOK

\* UPDATE ... SET status quarantines all that an owner held.
LEMMA QuarantinedOwn ==
    ASSUME ClaimsTypeOK, NEW S, NEW o \in S, Held(o) = Whole(o, "active")
    PROVE  Rows(Quarantined(S), o) = Whole(o, "quarantined")
<1> DEFINE a(x) == [resource |-> x, owner |-> o, status |-> "active"]
           b(x) == [resource |-> x, owner |-> o, status |-> "quarantined"]
<1>1. ASSUME NEW x PROVE [a(x) EXCEPT !.status = "quarantined"] = b(x)
  OBVIOUS
<1>2. Rows(Quarantined(S), o) = {[c EXCEPT !.status = "quarantined"] : c \in Held(o)}
  <2> DEFINE new(c) == [c EXCEPT !.status = "quarantined"]
             q(c) == IF c.owner \in S THEN new(c) ELSE c
  <2>1. ASSUME NEW c \in claims
        PROVE  new(c).owner = c.owner
    BY QuarantinedRow DEF ClaimsTypeOK
  <2>2. Quarantined(S) = {q(c) : c \in claims}
    BY DEF Quarantined
  <2>3. ASSUME NEW d \in Rows(Quarantined(S), o)
        PROVE  \E c \in Held(o) : d = new(c)
    <3>1. PICK c \in claims : d = q(c)
      BY <2>2 DEF Rows
    <3>2. q(c).owner = c.owner
      BY <2>1
    <3>3. c.owner = o
      BY <3>1, <3>2 DEF Rows
    <3> QED
      BY <3>1, <3>3 DEF Held
  <2>4. ASSUME NEW c \in Held(o)
        PROVE  new(c) \in Rows(Quarantined(S), o)
    <3>1. c \in claims /\ c.owner = o
      BY DEF Held
    <3>2. q(c) = new(c) /\ new(c).owner = o
      BY <2>1, <3>1
    <3> QED
      BY <2>2, <3>1, <3>2 DEF Rows
  <2>5. Rows(Quarantined(S), o) = {new(c) : c \in Held(o)}
    <3> HIDE DEF new
    <3> QED
      BY <2>3, <2>4
  <2> QED
    BY <2>5
<1>3. Held(o) = {a(x) : x \in Needs[o]}
  BY DEF Whole
<1>4. Rows(Quarantined(S), o) = {[a(x) EXCEPT !.status = "quarantined"] : x \in Needs[o]}
  <2> HIDE DEF a
  <2> QED
    BY <1>2, <1>3
<1>5. Rows(Quarantined(S), o) = {b(x) : x \in Needs[o]}
  <2> HIDE DEF a, b
  <2> QED
    BY <1>1, <1>4
<1> QED
  BY <1>5 DEF Whole

-----------------------------------------------------------------------------
(* The operators the transactions are built from. *)

LEMMA NoOutcomeType == NoOutcome \in Outcome
BY DEF NoOutcome, Outcome, Certainty

LEMMA WithStateType ==
    ASSUME NEW row \in RunRow, NEW s \in RunState, NEW why \in Reason
    PROVE  WithState(row, s, why) \in RunRow
BY DEF WithState, RunRow

LEMMA WithOutcomeType ==
    ASSUME NEW row \in RunRow, NEW o \in Outcome
    PROVE  WithOutcome(row, o) \in RunRow
BY DEF WithOutcome, RunRow

LEMMA ClosedWithType ==
    ASSUME RunTypeOK, NEW r \in Run, NEW o \in Outcome
    PROVE  /\ ClosedWith(r, o) \in RunRow
           /\ ClosedWith(r, o).state = "closed"
<1>1. runs[r] \in RunRow
  BY DEF RunTypeOK
<1>2. WithOutcome(runs[r], o) \in RunRow
  BY <1>1, WithOutcomeType
<1>3. "closed" \in RunState /\ "none" \in Reason
  BY DEF RunState, Reason
<1>4. ClosedWith(r, o) \in RunRow
  BY <1>2, <1>3, WithStateType DEF ClosedWith
<1> QED
  BY <1>2, <1>4 DEF ClosedWith, WithState, RunRow

LEMMA GrantedType ==
    ASSUME NEW k \in Nat
    PROVE  Granted(k) \in Lease
BY DEF Granted, Lease

\* Overwriting one element of a sequence.
LEMMA SeqExcept ==
    ASSUME NEW T, NEW s \in Seq(T), NEW i \in 1..Len(s), NEW x \in T
    PROVE  [s EXCEPT ![i] = x] \in Seq(T) /\ Len([s EXCEPT ![i] = x]) = Len(s)
OBVIOUS

\* Ending the last segment keeps the sequence of segments one of segments.
LEMMA FinishedType ==
    ASSUME RunTypeOK, NEW r \in Run, NEW certainty \in Certainty,
           NEW result \in {"succeeded", "failed", "cancelled", "interrupted"}
    PROVE  Finished(r, result, certainty) \in Seq(Segment)
<1>1. segments[r] \in Seq(Segment) /\ Coverage(r) \in Nat
  BY DEF RunTypeOK, Coverage
<1>2. CASE segments[r] = <<>>
  <2>1. Finished(r, result, certainty) = segments[r]
    BY <1>2 DEF Finished
  <2> QED
    BY <1>1, <2>1
<1>3. CASE segments[r] # <<>>
  <2> DEFINE n == Len(segments[r])
             seg == [segments[r][n] EXCEPT !.end = Coverage(r), !.result = result,
                                           !.certainty = certainty]
  <2>1. n \in 1..n /\ segments[r][n] \in Segment
    BY <1>1, <1>3
  <2>2. seg \in Segment
    BY <1>1, <2>1 DEF Segment
  <2>3. Finished(r, result, certainty) = [segments[r] EXCEPT ![n] = seg]
    BY <1>1, <2>1 DEF Finished
  <2> HIDE DEF n, seg
  <2> QED
    BY <1>1, <2>1, <2>2, <2>3, SeqExcept DEF n
<1> QED
  BY <1>2, <1>3

LEMMA HonorCancellationType ==
    ASSUME NEW r, NEW o \in Reported
    PROVE  /\ HonorCancellation(r, o)[1] \in {"succeeded", "failed", "cancelled"}
           /\ HonorCancellation(r, o)[2] \in Certainty
           /\ HonorCancellation(r, o)[1] = "succeeded" =>
                 HonorCancellation(r, o)[2] = "known"
BY DEF HonorCancellation, Reported, Certainty

\* A run whose executor is lost holds what it held, quarantined; the rows of
\* an owner that is not listed stay.
LEMMA AfterLossKeeps ==
    ASSUME ClaimsTypeOK, NEW S
    PROVE  /\ AfterLoss(S) \subseteq Claim
           /\ ExclusiveClaims => Exclusive(AfterLoss(S))
           /\ \A o : o \notin S => Rows(AfterLoss(S), o) = Held(o)
           /\ \A o \in Lost(S) : Held(o) = Whole(o, "active") =>
                 Rows(AfterLoss(S), o) = Whole(o, "quarantined")
<1>1. AfterLoss(S) \subseteq Quarantined(Lost(S))
  BY DEF AfterLoss
<1>2. ASSUME NEW o, o \notin S \ Lost(S)
      PROVE  Rows(AfterLoss(S), o) = Rows(Quarantined(Lost(S)), o)
  BY <1>2 DEF AfterLoss, Rows
<1>3. ASSUME NEW o, o \notin S
      PROVE  Rows(AfterLoss(S), o) = Held(o)
  <2>1. o \notin Lost(S)
    BY <1>3 DEF Lost
  <2> QED
    BY <1>2, <1>3, <2>1, QuarantinedOther
<1>4. ASSUME NEW o \in Lost(S), Held(o) = Whole(o, "active")
      PROVE  Rows(AfterLoss(S), o) = Whole(o, "quarantined")
  BY <1>2, <1>4, QuarantinedOwn
<1>5. Quarantined(Lost(S)) \subseteq Claim
      /\ (ExclusiveClaims => Exclusive(Quarantined(Lost(S))))
  BY QuarantinedKeeps
<1> QED
  BY <1>1, <1>3, <1>4, <1>5 DEF Exclusive

-----------------------------------------------------------------------------
(* Type correctness, one lemma per handler that does more than one update. *)

\* A row written for one run.
LEMMA RunRowType ==
    ASSUME RunTypeOK, NEW r \in Run, NEW row \in RunRow, runs' = [runs EXCEPT ![r] = row]
    PROVE  runs' \in [Run -> RunRow]
BY DEF RunTypeOK

LEMMA ReleasedType ==
    ASSUME ClaimsTypeOK, NEW S
    PROVE  Released(S) \subseteq Claim
BY ReleasedSubset, SubsetKeeps

LEMMA AdmitType ==
    ASSUME RunTypeOK, NEW r \in Run, Admit(r)
    PROVE  RunTypeOK'
<1>1. runs' \in [Run -> RunRow]
  <2>1. [runs[r] EXCEPT !.state = "queued"] \in RunRow
    BY DEF RunTypeOK, RunRow, RunState
  <2> QED
    BY <2>1 DEF RunTypeOK, Admit
<1>2. confirmed' \in [Run -> SUBSET Nat]
  BY DEF RunTypeOK, Admit
<1> QED
  BY <1>1, <1>2 DEF RunTypeOK, Admit, ClaimsTypeOK

LEMMA StartExecutionType ==
    ASSUME RunTypeOK, NEW r \in Run, NEW e \in Executor, StartExecution(r, e)
    PROVE  RunTypeOK'
<1> DEFINE seg == [holders |-> {e}, runtime |-> runtime, start |-> Coverage(r),
                   end |-> 0, result |-> "running", certainty |-> "known"]
<1>1. runs[r] \in RunRow /\ segments[r] \in Seq(Segment) /\ Coverage(r) \in Nat
      /\ Len(segments[r]) \in Nat
  BY DEF RunTypeOK, Coverage
<1>2. runs' \in [Run -> RunRow]
  <2>1. "leased" \in RunState /\ "none" \in Reason
    BY DEF RunState, Reason
  <2>2. WithState(runs[r], "leased", "none") \in RunRow
    BY <1>1, <2>1, WithStateType
  <2> QED
    BY <2>2 DEF RunTypeOK, StartExecution
<1>3. segments' \in [Run -> Seq(Segment)]
  <2>1. seg \in Segment
    BY <1>1 DEF RunTypeOK, Segment, Certainty
  <2>2. segments' = [segments EXCEPT ![r] = Append(segments[r], seg)]
    BY DEF StartExecution
  <2> HIDE DEF seg
  <2>3. Append(segments[r], seg) \in Seq(Segment)
    BY <1>1, <2>1
  <2> QED
    BY <2>2, <2>3 DEF RunTypeOK
<1>4. leases' \in [Run -> Lease]
  BY <1>1, GrantedType DEF RunTypeOK, StartExecution
<1>5. claims' \subseteq Claim
  BY ClaimedType, RunControlAssumption DEF RunTypeOK, StartExecution
<1> QED
  BY <1>2, <1>3, <1>4, <1>5 DEF RunTypeOK, StartExecution, ClaimsTypeOK

\* Telling one more executor the token of a segment.
LEMMA HolderType ==
    ASSUME NEW seg \in Segment, NEW e \in Executor
    PROVE  [seg EXCEPT !.holders = @ \cup {e}] \in Segment
BY DEF Segment

LEMMA RetryStartType ==
    ASSUME RunTypeOK, NEW r \in Run, NEW e \in Executor, RetryStart(r, e)
    PROVE  RunTypeOK'
<1> DEFINE k == leases[r].segment
           seg == [segments[r][k] EXCEPT !.holders = @ \cup {e}]
<1>1. segments[r] \in Seq(Segment) /\ k \in Nat
  BY DEF RunTypeOK, Lease
<1>2. segments' = [segments EXCEPT ![r] = [segments[r] EXCEPT ![k] = seg]]
  BY DEF RetryStart
<1>3. [segments[r] EXCEPT ![k] = seg] \in Seq(Segment)
  <2>1. CASE k \in 1..Len(segments[r])
    <3>1. segments[r][k] \in Segment
      BY <1>1, <2>1
    <3>2. seg \in Segment
      BY <3>1, HolderType
    <3> HIDE DEF seg, k
    <3> QED
      BY <1>1, <2>1, <3>2, SeqExcept
  <2>2. CASE k \notin 1..Len(segments[r])
    <3> HIDE DEF seg, k
    <3>1. [segments[r] EXCEPT ![k] = seg] = segments[r]
      BY <1>1, <2>2
    <3> QED
      BY <1>1, <3>1
  <2> QED
    BY <2>1, <2>2
<1>4. segments' \in [Run -> Seq(Segment)]
  <2> HIDE DEF seg, k
  <2> QED
    BY <1>2, <1>3 DEF RunTypeOK
<1> QED
  BY <1>4 DEF RunTypeOK, RetryStart, ClaimsTypeOK

LEMMA RejectBusyType ==
    ASSUME RunTypeOK, NEW r \in Run, RejectBusy(r)
    PROVE  RunTypeOK'
<1>1. [result |-> "failed", certainty |-> "known", by |-> 0] \in Outcome
  BY DEF Outcome, Certainty
<1>2. runs' \in [Run -> RunRow]
  BY <1>1, ClosedWithType, RunRowType DEF RejectBusy
<1> QED
  BY <1>2 DEF RunTypeOK, RejectBusy, ClaimsTypeOK

LEMMA RequireReconfirmationType ==
    ASSUME RunTypeOK, NEW r \in Run, RequireReconfirmation(r)
    PROVE  RunTypeOK'
<1>1. "attention_required" \in RunState /\ "manual_line_confirmation_expired" \in Reason
  BY DEF RunState, Reason
<1>2. runs' \in [Run -> RunRow]
  BY <1>1, WithStateType DEF RunTypeOK, RequireReconfirmation
<1> QED
  BY <1>2 DEF RunTypeOK, RequireReconfirmation, ClaimsTypeOK

LEMMA HeartbeatType ==
    ASSUME RunTypeOK, NEW r \in Run, NEW k \in 1..Len(segments[r]),
           ReadHeartbeatClock(r, k) \/ RenewLease(r, k)
    PROVE  RunTypeOK'
<1>1. k \in Nat
  BY DEF RunTypeOK
<1>2. CASE ReadHeartbeatClock(r, k)
  BY <1>1, <1>2 DEF RunTypeOK, ReadHeartbeatClock, ClaimsTypeOK
<1>3. CASE RenewLease(r, k)
  <2>1. leases' \in [Run -> Lease]
    BY <1>1, <1>3, GrantedType DEF RunTypeOK, RenewLease
  <2> QED
    BY <1>3, <2>1 DEF RunTypeOK, RenewLease, ClaimsTypeOK
<1> QED
  BY <1>2, <1>3

LEMMA AdvanceCoverageType ==
    ASSUME RunTypeOK, NEW r \in Run, NEW k \in 1..Len(segments[r]),
           NEW n \in 1..PointCount, AdvanceCoverage(r, k, n)
    PROVE  RunTypeOK'
<1>1. k \in Nat /\ n \in Nat /\ covered[r] \in Seq(Nat)
  BY RunControlAssumption DEF RunTypeOK
<1>2. [i \in 1..n |-> k] \in Seq(Nat)
  BY <1>1
<1>3. covered[r] \o [i \in 1..n |-> k] \in Seq(Nat)
  BY <1>1, <1>2
<1>4. covered' \in [Run -> Seq(Nat)]
  BY <1>3 DEF RunTypeOK, AdvanceCoverage
<1> QED
  BY <1>4 DEF RunTypeOK, AdvanceCoverage, ClaimsTypeOK

LEMMA CommitTerminalType ==
    ASSUME RunTypeOK, NEW r \in Run, NEW k \in 1..Len(segments[r]),
           NEW o \in Reported, CommitTerminal(r, k, o)
    PROVE  RunTypeOK'
<1> DEFINE final == HonorCancellation(r, o)
           outcome == [result |-> final[1], certainty |-> final[2], by |-> k]
<1>1. k \in Nat
  BY DEF RunTypeOK
<1>2. outcome \in Outcome
  <2> HIDE DEF final
  <2> QED
    BY <1>1, HonorCancellationType DEF Outcome, Certainty, final
<1>3. runs' \in [Run -> RunRow]
  BY <1>2, ClosedWithType, RunRowType DEF CommitTerminal
<1>4. Finished(r, final[1], final[2]) \in Seq(Segment)
  BY HonorCancellationType, FinishedType
<1>5. segments' \in [Run -> Seq(Segment)]
  BY <1>4 DEF RunTypeOK, CommitTerminal
<1>6. claims' \subseteq Claim
  BY ReleasedType DEF RunTypeOK, CommitTerminal
<1>7. leases' \in [Run -> Lease]
  BY GrantedType DEF RunTypeOK, CommitTerminal, NoLease
<1> QED
  BY <1>3, <1>5, <1>6, <1>7 DEF RunTypeOK, CommitTerminal, ClaimsTypeOK

LEMMA LoseExecutorsType ==
    ASSUME RunTypeOK, NEW S, NEW why \in Reason, LoseExecutors(S, why)
    PROVE  /\ runs' \in [Run -> RunRow]
           /\ segments' \in [Run -> Seq(Segment)]
           /\ leases' \in [Run -> Lease]
<1>1. \A r \in Run : WithState(runs[r], "attention_required", why) \in RunRow
  <2>1. "attention_required" \in RunState
    BY DEF RunState
  <2> QED
    BY <2>1, WithStateType DEF RunTypeOK
<1>2. runs' \in [Run -> RunRow]
  BY <1>1 DEF RunTypeOK, LoseExecutors
<1>3. \A r \in Run : Finished(r, "interrupted", "indeterminate") \in Seq(Segment)
  BY FinishedType DEF Certainty
<1>4. segments' \in [Run -> Seq(Segment)]
  BY <1>3 DEF RunTypeOK, LoseExecutors
<1>5. leases' \in [Run -> Lease]
  BY GrantedType DEF RunTypeOK, LoseExecutors, NoLease
<1> QED
  BY <1>2, <1>4, <1>5

LEMMA MarkExecutorUnknownType ==
    ASSUME RunTypeOK, NEW r \in Run, NEW k, MarkExecutorUnknown(r, k)
    PROVE  RunTypeOK'
<1>1. ClaimsTypeOK /\ "executor_unknown" \in Reason
  BY DEF RunTypeOK, Reason
<1>2. claims' \subseteq Claim
  BY <1>1, AfterLossKeeps DEF MarkExecutorUnknown, ExpireOne
<1>3. /\ runs' \in [Run -> RunRow]
      /\ segments' \in [Run -> Seq(Segment)]
      /\ leases' \in [Run -> Lease]
  BY <1>1, LoseExecutorsType DEF MarkExecutorUnknown, ExpireOne
<1> QED
  BY <1>2, <1>3 DEF RunTypeOK, MarkExecutorUnknown, ClaimsTypeOK

LEMMA CancelQueuedType ==
    ASSUME RunTypeOK, NEW r \in Run, CancelQueued(r)
    PROVE  /\ runs' \in [Run -> RunRow]
           /\ leases' \in [Run -> Lease]
           /\ claims' \subseteq Claim
<1>1. Cancelled \in Outcome
  BY DEF Cancelled, Outcome, Certainty
<1>2. [ClosedWith(r, Cancelled) EXCEPT !.cancelRequested = TRUE] \in RunRow
  <2>1. ASSUME NEW row \in RunRow
        PROVE  [row EXCEPT !.cancelRequested = TRUE] \in RunRow
    BY <2>1 DEF RunRow
  <2> QED
    BY <1>1, <2>1, ClosedWithType
<1>3. runs' \in [Run -> RunRow]
  BY <1>2, RunRowType DEF CancelQueued
<1>4. leases' \in [Run -> Lease]
  BY GrantedType DEF RunTypeOK, CancelQueued, NoLease
<1>5. claims' \subseteq Claim
  BY ReleasedType DEF RunTypeOK, CancelQueued
<1> QED
  BY <1>3, <1>4, <1>5

LEMMA CancelRunType ==
    ASSUME RunTypeOK, NEW r \in Run, CancelRun(r) \/ CancelWaitingChild(r)
    PROVE  RunTypeOK'
<1>1. /\ runs' \in [Run -> RunRow]
      /\ leases' \in [Run -> Lease]
      /\ claims' \subseteq Claim
  <2>1. CASE CancelQueued(r)
    BY <2>1, CancelQueuedType
  <2>2. CASE /\ runs' = [runs EXCEPT ![r].cancelRequested = TRUE]
             /\ UNCHANGED <<claims, leases>>
    <3>1. [runs[r] EXCEPT !.cancelRequested = TRUE] \in RunRow
      BY DEF RunTypeOK, RunRow
    <3>2. runs' = [runs EXCEPT ![r] = [runs[r] EXCEPT !.cancelRequested = TRUE]]
      BY <2>2
    <3> QED
      BY <2>2, <3>1, <3>2, RunRowType DEF RunTypeOK, ClaimsTypeOK
  <2> QED
    BY <2>1, <2>2 DEF CancelRun, CancelWaitingChild
<1> QED
  BY <1>1 DEF RunTypeOK, ClaimsTypeOK, CancelRun, CancelWaitingChild

LEMMA ContinueType ==
    ASSUME RunTypeOK, NEW r \in Run,
           ContinueRun(r) \/ (\E key \in Key : ReconfirmLine(r, key))
    PROVE  RunTypeOK'
<1>1. "queued" \in RunState /\ "none" \in Reason
  BY DEF RunState, Reason
<1>2. WithState(runs[r], "queued", "none") \in RunRow
  BY <1>1, WithStateType DEF RunTypeOK
<1>3. runs' \in [Run -> RunRow]
  BY <1>2, RunRowType DEF ContinueRun, ReconfirmLine
<1>4. claims' \subseteq Claim
  BY ReleasedType DEF RunTypeOK, ContinueRun, ReconfirmLine
<1>5. confirmed' \in [Run -> SUBSET Nat] /\ lineKeys' \in [Run -> SUBSET Key]
  <2>1. CASE ContinueRun(r)
    BY <2>1 DEF RunTypeOK, ContinueRun
  <2>2. ASSUME NEW key \in Key, ReconfirmLine(r, key)
        PROVE  confirmed' \in [Run -> SUBSET Nat] /\ lineKeys' \in [Run -> SUBSET Key]
    <3>1. /\ confirmed' = [confirmed EXCEPT ![r] = @ \cup {runtime}]
          /\ lineKeys' = [lineKeys EXCEPT ![r] = @ \cup {key}]
      BY <2>2 DEF ReconfirmLine
    <3> QED
      BY <3>1 DEF RunTypeOK
  <2> QED
    BY <2>1, <2>2
<1> QED
  BY <1>3, <1>4, <1>5 DEF RunTypeOK, ClaimsTypeOK, ContinueRun, ReconfirmLine

LEMMA CloseAttentionType ==
    ASSUME RunTypeOK, NEW r \in Run, CloseAttention(r)
    PROVE  RunTypeOK'
<1>1. [result |-> "failed", certainty |-> "indeterminate", by |-> 0] \in Outcome
  BY DEF Outcome, Certainty
<1>2. runs' \in [Run -> RunRow]
  BY <1>1, ClosedWithType, RunRowType DEF CloseAttention
<1>3. leases' \in [Run -> Lease]
  BY GrantedType DEF RunTypeOK, CloseAttention, NoLease
<1>4. claims' \subseteq Claim
  BY ReleasedType DEF RunTypeOK, CloseAttention
<1> QED
  BY <1>2, <1>3, <1>4 DEF RunTypeOK, ClaimsTypeOK, CloseAttention

LEMMA SupervisorType ==
    ASSUME RunTypeOK,
           (\E r \in Run : LapseLease(r)) \/ ReadExpiredLeases \/ ExpireLeases
    PROVE  RunTypeOK'
<1>1. CASE \E r \in Run : LapseLease(r)
  <2>1. leases' \in [Run -> Lease]
    BY <1>1 DEF RunTypeOK, LapseLease, Lease
  <2> QED
    BY <1>1, <2>1 DEF RunTypeOK, LapseLease, ClaimsTypeOK
<1>2. CASE ReadExpiredLeases
  <2>1. leases' \in [Run -> Lease]
    <3>1. \A r \in Run : [leases[r] EXCEPT !.overdue = leases[r].expired] \in Lease
      BY DEF RunTypeOK, Lease
    <3> QED
      BY <1>2, <3>1 DEF ReadExpiredLeases
  <2> QED
    BY <1>2, <2>1 DEF RunTypeOK, ReadExpiredLeases, ClaimsTypeOK
<1>3. CASE ExpireLeases
  <2>1. ClaimsTypeOK /\ "executor_lease_expired" \in Reason
    BY DEF RunTypeOK, Reason
  <2>2. claims' \subseteq Claim
    BY <1>3, <2>1, AfterLossKeeps DEF ExpireLeases, ExpireOne
  <2>3. /\ runs' \in [Run -> RunRow]
        /\ segments' \in [Run -> Seq(Segment)]
        /\ leases' \in [Run -> Lease]
    BY <1>3, <2>1, LoseExecutorsType DEF ExpireLeases, ExpireOne
  <2> QED
    BY <1>3, <2>2, <2>3 DEF RunTypeOK, ExpireLeases, ClaimsTypeOK
<1> QED
  BY <1>1, <1>2, <1>3

LEMMA RestartType ==
    ASSUME RunTypeOK, RestartRunRows, claims' \subseteq Claim
    PROVE  RunTypeOK'
<1>1. "daemon_restarted" \in Reason
  BY DEF Reason
<1>2. /\ runs' \in [Run -> RunRow]
      /\ segments' \in [Run -> Seq(Segment)]
      /\ leases' \in [Run -> Lease]
  BY <1>1, LoseExecutorsType DEF RestartRunRows
<1> QED
  BY <1>2 DEF RunTypeOK, RestartRunRows, ClaimsTypeOK

LEMMA RunStepType ==
    ASSUME RunTypeOK, RunStep
    PROVE  RunTypeOK'
<1>1. ASSUME NEW r \in Run, ExecutorStep(r)
      PROVE  RunTypeOK'
  BY <1>1, StartExecutionType, RetryStartType, RejectBusyType,
     RequireReconfirmationType, HeartbeatType, AdvanceCoverageType,
     CommitTerminalType, MarkExecutorUnknownType DEF ExecutorStep
<1>2. ASSUME NEW r \in Run, OperatorStep(r)
      PROVE  RunTypeOK'
  BY <1>2, AdmitType, CancelRunType, ContinueType, CloseAttentionType
     DEF OperatorStep
<1> QED
  BY <1>1, <1>2, SupervisorType DEF RunStep

\* Every variable of run control keeps its type, for all values of the constants.
THEOREM RunTypeCorrect == RunSpec => []RunTypeOK
<1>1. RunInit => RunTypeOK
  BY NoOutcomeType, GrantedType
     DEF RunInit, RunTypeOK, ClaimsTypeOK, RunRow, RunState, Reason, NoLease
<1>2. RunTypeOK /\ [RunNext]_runVars => RunTypeOK'
  <2> SUFFICES ASSUME RunTypeOK, [RunNext]_runVars
               PROVE  RunTypeOK'
    OBVIOUS
  <2>1. CASE RunStep
    BY <2>1, RunStepType
  <2>2. CASE RestartRuns
    <3>1. claims' \subseteq Claim
      BY <2>2, AfterLossKeeps DEF RunTypeOK, RestartRuns
    <3> QED
      BY <2>2, <3>1, RestartType DEF RestartRuns
  <2>3. CASE UNCHANGED runVars
    BY <2>3 DEF runVars, runOnlyVars, RunTypeOK, ClaimsTypeOK
  <2> QED
    BY <2>1, <2>2, <2>3 DEF RunNext
<1> QED
  BY <1>1, <1>2, PTL DEF RunSpec

-----------------------------------------------------------------------------
(***************************************************************************)
(* Claims.  ClaimsMatchState is not inductive: that a lost executor leaves *)
(* its claims quarantined rests on its lease having been that of a leased  *)
(* run, and that a second owner cannot be let in on Free reading a table   *)
(* that is exclusive.  RunInv adds both.                                   *)
(***************************************************************************)

\* The rows a run has in the claims table, read off its scheduler row.
Due(row, r) ==
    IF row.state = "leased" THEN Whole(r, "active")
    ELSE IF row.state = "attention_required"
            /\ row.reason # "manual_line_confirmation_expired"
         THEN Whole(r, "quarantined")
         ELSE {}

RowsMatch(table, rows) == \A r \in Run : Rows(table, r) = Due(rows[r], r)

\* A run has a lease exactly while its scheduler row says leased.
LeasesMatch(rows, ls) ==
    \A r \in Run : IF rows[r].state = "leased" THEN ls[r].segment # 0
                   ELSE ls[r] = NoLease

RunInv == RunTypeOK /\ ExclusiveClaims /\ LeasesMatch(runs, leases) /\ ClaimsMatchState

LEMMA MatchIsRowsMatch == ClaimsMatchState <=> RowsMatch(claims, runs)
BY DEF ClaimsMatchState, RowsMatch, Rows, Held, HoldsExactly, Due, Whole, WiringOnly

\* The three facts a step has to establish, in terms of the tables it writes.
LEMMA RunInvNext ==
    ASSUME RunTypeOK', Exclusive(claims'), LeasesMatch(runs', leases'),
           RowsMatch(claims', runs')
    PROVE  RunInv'
<1>1. ClaimsMatchState'
  BY DEF RowsMatch, ClaimsMatchState, Rows, Held, HoldsExactly, Due, Whole, WiringOnly
<1> QED
  BY <1>1 DEF RunInv, ExclusiveClaims, Exclusive

\* A step that concerns the rows of one run only.
LEMMA OneRunStep ==
    ASSUME RunInv, NEW r \in Run, RunTypeOK', Exclusive(claims'),
           \A p \in Run \ {r} : /\ runs'[p] = runs[p]
                                /\ leases'[p] = leases[p]
                                /\ Rows(claims', p) = Held(p),
           IF runs'[r].state = "leased" THEN leases'[r].segment # 0
           ELSE leases'[r] = NoLease,
           Rows(claims', r) = Due(runs'[r], r)
    PROVE  RunInv'
<1>1. LeasesMatch(runs', leases')
  BY DEF RunInv, LeasesMatch
<1>2. RowsMatch(claims', runs')
  BY MatchIsRowsMatch DEF RunInv, RowsMatch, Rows, Held
<1> QED
  BY <1>1, <1>2, RunInvNext

\* A step that leaves the claims alone and the state and reason of every row.
LEMMA QuietStep ==
    ASSUME RunInv, RunTypeOK', UNCHANGED claims,
           \A r \in Run : /\ runs'[r].state = runs[r].state
                          /\ runs'[r].reason = runs[r].reason
                          /\ leases[r].segment # 0 => leases'[r].segment # 0
                          /\ leases[r] = NoLease => leases'[r] = NoLease
    PROVE  RunInv'
<1>1. LeasesMatch(runs', leases')
  BY DEF RunInv, LeasesMatch
<1>2. RowsMatch(claims', runs')
  BY MatchIsRowsMatch DEF RunInv, RowsMatch, Due
<1> QED
  BY <1>1, <1>2, RunInvNext DEF RunInv, ExclusiveClaims, Exclusive

LEMMA WithStateFields ==
    ASSUME NEW row \in RunRow, NEW s, NEW why
    PROVE  WithState(row, s, why).state = s /\ WithState(row, s, why).reason = why
BY DEF WithState, RunRow

\* A run that is queued, absent or closed owns nothing and has no lease.
LEMMA IdleHoldsNothing ==
    ASSUME RunInv, NEW r \in Run, runs[r].state \notin {"leased", "attention_required"}
    PROVE  Held(r) = {} /\ leases[r] = NoLease
BY DEF RunInv, ClaimsMatchState, LeasesMatch

\* DELETE of a run's rows: the run owns nothing, nobody else is concerned.
LEMMA ReleaseStep ==
    ASSUME RunInv, NEW r \in Run, RunTypeOK', claims' = Released({r}),
           \A p \in Run \ {r} : runs'[p] = runs[p] /\ leases'[p] = leases[p],
           leases'[r] = NoLease, runs'[r].state \in {"queued", "closed"}
    PROVE  RunInv'
<1>1. Exclusive(claims')
  BY ReleasedSubset, SubsetKeeps DEF RunInv
<1>2. Rows(claims', r) = {} /\ \A p \in Run \ {r} : Rows(claims', p) = Held(p)
  BY ReleasedSubset
<1>3. Due(runs'[r], r) = {}
  BY DEF Due
<1> QED
  BY <1>1, <1>2, <1>3, OneRunStep

\* A run that owns nothing changes to another state without claims.
LEMMA IdleStep ==
    ASSUME RunInv, NEW r \in Run, RunTypeOK', UNCHANGED <<claims, leases>>,
           runs[r].state \notin {"leased", "attention_required"},
           \A p \in Run \ {r} : runs'[p] = runs[p],
           runs'[r].state # "leased", Due(runs'[r], r) = {}
    PROVE  RunInv'
<1>1. Held(r) = {} /\ leases[r] = NoLease
  BY IdleHoldsNothing
<1>2. \A p \in Run : Rows(claims', p) = Held(p)
  BY DEF Rows, Held
<1>3. Exclusive(claims')
  BY DEF RunInv, ExclusiveClaims, Exclusive
<1> QED
  BY <1>1, <1>2, <1>3, OneRunStep

LEMMA StartExecutionKeeps ==
    ASSUME RunInv, NEW r \in Run, NEW e \in Executor, StartExecution(r, e)
    PROVE  RunInv'
<1>1. RunTypeOK /\ RunTypeOK' /\ r \in Owner
  BY StartExecutionType, RunControlAssumption DEF RunInv
<1>2. Held(r) = {}
  BY IdleHoldsNothing DEF StartExecution, Startable
<1>3. Exclusive(claims')
  BY <1>1, ClaimedExclusive DEF StartExecution, RunInv
<1>4. Rows(claims', r) = Whole(r, "active")
      /\ \A p \in Run \ {r} : Rows(claims', p) = Held(p)
  BY <1>1, <1>2, ClaimedOwn, ClaimedOther DEF StartExecution
<1>5. runs'[r].state = "leased"
  BY <1>1, WithStateFields DEF RunTypeOK, StartExecution
<1>6. leases'[r].segment # 0
  <2>1. Len(segments[r]) \in Nat
    BY <1>1 DEF RunTypeOK
  <2> QED
    BY <1>1, <2>1 DEF RunTypeOK, StartExecution, Granted
<1>7. \A p \in Run \ {r} : runs'[p] = runs[p] /\ leases'[p] = leases[p]
  BY <1>1 DEF RunTypeOK, StartExecution
<1> QED
  BY <1>1, <1>3, <1>4, <1>5, <1>6, <1>7, OneRunStep DEF Due

LEMMA RetryStartKeeps ==
    ASSUME RunInv, NEW r \in Run, NEW e \in Executor, RetryStart(r, e)
    PROVE  RunInv'
BY RetryStartType, QuietStep DEF RunInv, RetryStart

LEMMA RefusedStartKeeps ==
    ASSUME RunInv, NEW r \in Run, RejectBusy(r) \/ RequireReconfirmation(r)
    PROVE  RunInv'
<1>1. RunTypeOK /\ RunTypeOK'
  BY RejectBusyType, RequireReconfirmationType DEF RunInv
<1>2. runs[r].state = "queued" /\ UNCHANGED <<claims, leases>>
      /\ \A p \in Run \ {r} : runs'[p] = runs[p]
  BY <1>1 DEF RunTypeOK, RejectBusy, RequireReconfirmation, Startable
<1>3. CASE RejectBusy(r)
  <2>1. [result |-> "failed", certainty |-> "known", by |-> 0] \in Outcome
    BY DEF Outcome, Certainty
  <2>2. runs'[r].state = "closed"
    BY <1>1, <1>3, <2>1, ClosedWithType DEF RunTypeOK, RejectBusy
  <2> QED
    BY <1>1, <1>2, <2>2, IdleStep DEF Due
<1>4. CASE RequireReconfirmation(r)
  <2>1. /\ runs'[r].state = "attention_required"
        /\ runs'[r].reason = "manual_line_confirmation_expired"
    BY <1>1, <1>4, WithStateFields DEF RunTypeOK, RequireReconfirmation
  <2> QED
    BY <1>1, <1>2, <2>1, IdleStep DEF Due
<1> QED
  BY <1>3, <1>4

LEMMA HeartbeatKeeps ==
    ASSUME RunInv, NEW r \in Run, NEW k \in 1..Len(segments[r]),
           ReadHeartbeatClock(r, k) \/ RenewLease(r, k)
    PROVE  RunInv'
<1>1. RunTypeOK /\ RunTypeOK' /\ UNCHANGED <<claims, runs>>
  BY HeartbeatType DEF RunInv, ReadHeartbeatClock, RenewLease
<1>2. k # 0
  BY <1>1 DEF RunTypeOK
<1>3. \A p \in Run : /\ leases[p].segment # 0 => leases'[p].segment # 0
                     /\ leases[p] = NoLease => leases'[p] = NoLease
  <2>1. CASE leases' = leases
    BY <2>1
  <2>2. CASE leases[r].segment = k /\ leases' = [leases EXCEPT ![r] = Granted(k)]
    <3>1. leases[r] # NoLease /\ Granted(k).segment = k
      BY <1>2, <2>2 DEF NoLease, Granted
    <3>2. leases'[r] = Granted(k) /\ \A p \in Run \ {r} : leases'[p] = leases[p]
      BY <1>1, <2>2 DEF RunTypeOK
    <3> QED
      BY <1>2, <3>1, <3>2
  <2> QED
    BY <2>1, <2>2 DEF ReadHeartbeatClock, RenewLease
<1> QED
  BY <1>1, <1>3, QuietStep

LEMMA AdvanceCoverageKeeps ==
    ASSUME RunInv, NEW r \in Run, NEW k \in 1..Len(segments[r]),
           NEW n \in 1..PointCount, AdvanceCoverage(r, k, n)
    PROVE  RunInv'
BY AdvanceCoverageType, QuietStep DEF RunInv, AdvanceCoverage

LEMMA CommitTerminalKeeps ==
    ASSUME RunInv, NEW r \in Run, NEW k \in 1..Len(segments[r]),
           NEW o \in Reported, CommitTerminal(r, k, o)
    PROVE  RunInv'
<1> DEFINE final == HonorCancellation(r, o)
           outcome == [result |-> final[1], certainty |-> final[2], by |-> k]
<1>1. RunTypeOK /\ RunTypeOK'
  BY CommitTerminalType DEF RunInv
<1>2. outcome \in Outcome
  <2>1. k \in Nat
    BY <1>1 DEF RunTypeOK
  <2> HIDE DEF final
  <2> QED
    BY <2>1, HonorCancellationType DEF Outcome, Certainty, final
<1>3. runs' = [runs EXCEPT ![r] = ClosedWith(r, outcome)]
  BY DEF CommitTerminal
<1>4. runs'[r].state = "closed" /\ \A p \in Run \ {r} : runs'[p] = runs[p]
  BY <1>1, <1>2, <1>3, ClosedWithType DEF RunTypeOK
<1>5. leases'[r] = NoLease /\ (\A p \in Run \ {r} : leases'[p] = leases[p])
      /\ claims' = Released({r})
  BY <1>1 DEF RunTypeOK, CommitTerminal
<1> QED
  BY <1>1, <1>4, <1>5, ReleaseStep

LEMMA CancelKeeps ==
    ASSUME RunInv, NEW r \in Run, CancelRun(r) \/ CancelWaitingChild(r)
    PROVE  RunInv'
<1>1. RunTypeOK /\ RunTypeOK'
  BY CancelRunType DEF RunInv
<1>2. CASE CancelQueued(r)
  <2>1. Cancelled \in Outcome
    BY DEF Cancelled, Outcome, Certainty
  <2>2. [ClosedWith(r, Cancelled) EXCEPT !.cancelRequested = TRUE].state = "closed"
    BY <1>1, <2>1, ClosedWithType DEF RunRow
  <2>3. runs'[r].state = "closed" /\ \A p \in Run \ {r} : runs'[p] = runs[p]
    BY <1>1, <1>2, <2>2 DEF RunTypeOK, CancelQueued
  <2>4. leases'[r] = NoLease /\ (\A p \in Run \ {r} : leases'[p] = leases[p])
        /\ claims' = Released({r})
    BY <1>1, <1>2 DEF RunTypeOK, CancelQueued
  <2> QED
    BY <1>1, <2>3, <2>4, ReleaseStep
<1>3. CASE /\ runs' = [runs EXCEPT ![r].cancelRequested = TRUE]
           /\ UNCHANGED <<claims, leases>>
  <2>1. \A p \in Run : /\ runs'[p].state = runs[p].state
                       /\ runs'[p].reason = runs[p].reason
    BY <1>1, <1>3 DEF RunTypeOK, RunRow
  <2> QED
    BY <1>1, <1>3, <2>1, QuietStep
<1> QED
  BY <1>2, <1>3 DEF CancelRun, CancelWaitingChild

LEMMA AdmitKeeps ==
    ASSUME RunInv, NEW r \in Run, Admit(r)
    PROVE  RunInv'
<1>1. RunTypeOK /\ RunTypeOK'
  BY AdmitType DEF RunInv
<1>2. runs' = [runs EXCEPT ![r] = [runs[r] EXCEPT !.state = "queued"]]
      /\ UNCHANGED <<claims, leases>> /\ runs[r].state = "absent"
  BY DEF Admit
<1>3. runs'[r].state = "queued" /\ \A p \in Run \ {r} : runs'[p] = runs[p]
  BY <1>1, <1>2 DEF RunTypeOK, RunRow
<1> QED
  BY <1>1, <1>2, <1>3, IdleStep DEF Due

LEMMA ContinueKeeps ==
    ASSUME RunInv, NEW r \in Run,
           ContinueRun(r) \/ (\E key \in Key : ReconfirmLine(r, key))
    PROVE  RunInv'
<1>1. RunTypeOK /\ RunTypeOK'
  BY ContinueType DEF RunInv
<1>2. /\ runs[r].state = "attention_required"
      /\ claims' = Released({r})
      /\ runs' = [runs EXCEPT ![r] = WithState(runs[r], "queued", "none")]
      /\ UNCHANGED leases
  BY DEF ContinueRun, ReconfirmLine, MayContinue
<1>3. runs'[r].state = "queued" /\ \A p \in Run \ {r} : runs'[p] = runs[p]
  BY <1>1, <1>2, WithStateFields DEF RunTypeOK
<1>4. leases[r] = NoLease
  BY <1>2 DEF RunInv, LeasesMatch
<1> QED
  BY <1>1, <1>2, <1>3, <1>4, ReleaseStep

LEMMA CloseAttentionKeeps ==
    ASSUME RunInv, NEW r \in Run, CloseAttention(r)
    PROVE  RunInv'
<1>1. RunTypeOK /\ RunTypeOK'
  BY CloseAttentionType DEF RunInv
<1>2. [result |-> "failed", certainty |-> "indeterminate", by |-> 0] \in Outcome
  BY DEF Outcome, Certainty
<1>3. runs'[r].state = "closed" /\ \A p \in Run \ {r} : runs'[p] = runs[p]
  BY <1>1, <1>2, ClosedWithType DEF RunTypeOK, CloseAttention
<1>4. leases'[r] = NoLease /\ (\A p \in Run \ {r} : leases'[p] = leases[p])
      /\ claims' = Released({r})
  BY <1>1 DEF RunTypeOK, CloseAttention
<1> QED
  BY <1>1, <1>3, <1>4, ReleaseStep

(***************************************************************************)
(* The loss of executors is where the strengthening is needed: every lease *)
(* the code finds is that of a leased run, so each lost run turns all its  *)
(* active claims into quarantined ones and none is deleted.                *)
(***************************************************************************)
LEMMA LossKeeps ==
    ASSUME RunInv, RunTypeOK', NEW S, NEW why \in Reason, LoseExecutors(S, why),
           why # "manual_line_confirmation_expired",
           \A r \in S : r \in Run /\ leases[r] # NoLease,
           Exclusive(claims'),
           \A r \in Run : Rows(claims', r) = Rows(AfterLoss(S), r)
    PROVE  RunInv'
<1>1. RunTypeOK /\ ClaimsTypeOK
  BY DEF RunInv, RunTypeOK
<1>2. Lost(S) = S
  BY DEF RunInv, LeasesMatch, Lost
<1>3. \A r \in Run \ S : runs'[r] = runs[r] /\ leases'[r] = leases[r]
  BY <1>2 DEF LoseExecutors
<1>4. \A r \in S : /\ runs'[r].state = "attention_required"
                   /\ runs'[r].reason = why
                   /\ leases'[r] = NoLease
  BY <1>1, <1>2, WithStateFields DEF RunTypeOK, LoseExecutors
<1>5. LeasesMatch(runs', leases')
  BY <1>3, <1>4 DEF RunInv, LeasesMatch
<1>6. RowsMatch(claims', runs')
  <2>1. ASSUME NEW r \in Run \ S
        PROVE  Rows(claims', r) = Due(runs'[r], r)
    BY <1>1, <1>3, AfterLossKeeps, MatchIsRowsMatch DEF RunInv, RowsMatch, Rows, Held
  <2>2. ASSUME NEW r \in S
        PROVE  Rows(claims', r) = Due(runs'[r], r)
    <3>1. r \in Run /\ runs[r].state = "leased"
      BY <1>2 DEF Lost
    <3>2. Held(r) = Whole(r, "active")
      BY <3>1 DEF RunInv, ClaimsMatchState, HoldsExactly, Whole
    <3>3. Rows(AfterLoss(S), r) = Whole(r, "quarantined")
      BY <1>1, <1>2, <3>2, AfterLossKeeps
    <3> QED
      BY <1>4, <3>1, <3>3 DEF Due
  <2> QED
    BY <2>1, <2>2 DEF RowsMatch
<1> QED
  BY <1>5, <1>6, RunInvNext

LEMMA MarkExecutorUnknownKeeps ==
    ASSUME RunInv, NEW r \in Run, NEW k, MarkExecutorUnknown(r, k)
    PROVE  RunInv'
<1>1. RunTypeOK' /\ ClaimsTypeOK /\ "executor_unknown" \in Reason
  BY MarkExecutorUnknownType DEF RunInv, RunTypeOK, Reason
<1>2. leases[r] # NoLease
  BY DEF MarkExecutorUnknown, NoLease, Granted
<1>3. LoseExecutors({r}, "executor_unknown") /\ claims' = AfterLoss({r})
  BY DEF MarkExecutorUnknown, ExpireOne
<1>4. Exclusive(claims')
  BY <1>1, <1>3, AfterLossKeeps DEF RunInv
<1> QED
  BY <1>1, <1>2, <1>3, <1>4, LossKeeps

LEMMA SupervisorKeeps ==
    ASSUME RunInv,
           (\E r \in Run : LapseLease(r)) \/ ReadExpiredLeases \/ ExpireLeases
    PROVE  RunInv'
<1>1. RunTypeOK /\ RunTypeOK' /\ ClaimsTypeOK
  BY SupervisorType DEF RunInv, RunTypeOK
<1>2. CASE \E r \in Run : LapseLease(r)
  <2>1. UNCHANGED <<claims, runs>>
        /\ \A p \in Run : /\ leases'[p].segment = leases[p].segment
                          /\ leases[p] = NoLease => leases'[p] = leases[p]
    BY <1>1, <1>2 DEF RunTypeOK, LapseLease, Lease
  <2> QED
    BY <1>1, <2>1, QuietStep
<1>3. CASE ReadExpiredLeases
  <2>1. UNCHANGED <<claims, runs>>
        /\ \A p \in Run : /\ leases'[p].segment = leases[p].segment
                          /\ leases[p] = NoLease => leases'[p] = leases[p]
    <3>1. \A p \in Run : leases'[p] = [leases[p] EXCEPT !.overdue = leases[p].expired]
      BY <1>3 DEF ReadExpiredLeases
    <3>2. \A p \in Run : leases'[p].segment = leases[p].segment
      BY <1>1, <3>1 DEF RunTypeOK, Lease
    <3>3. [NoLease EXCEPT !.overdue = NoLease.expired] = NoLease
      <4>1. NoLease \in Lease /\ NoLease.expired = FALSE
        BY DEF NoLease, Granted, Lease
      <4>2. NoLease.overdue = FALSE
        BY DEF NoLease, Granted
      <4> QED
        BY <4>1, <4>2 DEF Lease
    <3> QED
      BY <1>3, <3>1, <3>2, <3>3 DEF ReadExpiredLeases
  <2> QED
    BY <1>1, <2>1, QuietStep
<1>4. CASE ExpireLeases
  <2> DEFINE S == {r \in sweep : StillExpired(r)}
  <2>1. \A r \in S : r \in Run /\ leases[r] # NoLease
    BY <1>1 DEF RunTypeOK, StillExpired, NoLease, Granted
  <2>2. LoseExecutors(S, "executor_lease_expired") /\ claims' = AfterLoss(S)
    BY <1>4 DEF ExpireLeases, ExpireOne
  <2>3. "executor_lease_expired" \in Reason
    BY DEF Reason
  <2>4. Exclusive(claims')
    BY <1>1, <2>2, AfterLossKeeps DEF RunInv
  <2> HIDE DEF S
  <2> QED
    BY <1>1, <2>1, <2>2, <2>3, <2>4, LossKeeps
<1> QED
  BY <1>2, <1>3, <1>4

LEMMA RestartKeeps ==
    ASSUME RunInv, RestartRunRows, claims' \subseteq Claim, Exclusive(claims'),
           \A r \in Run : Rows(claims', r) = Rows(AfterLoss(WithLease), r)
    PROVE  RunInv'
<1>1. RunTypeOK'
  BY RestartType DEF RunInv
<1>2. "daemon_restarted" \in Reason /\ LoseExecutors(WithLease, "daemon_restarted")
  BY DEF Reason, RestartRunRows
<1>3. \A r \in WithLease : r \in Run /\ leases[r] # NoLease
  BY DEF WithLease
<1> QED
  BY <1>1, <1>2, <1>3, LossKeeps

LEMMA RunStepKeeps ==
    ASSUME RunInv, RunStep
    PROVE  RunInv'
<1>1. ASSUME NEW r \in Run, ExecutorStep(r)
      PROVE  RunInv'
  BY <1>1, StartExecutionKeeps, RetryStartKeeps, RefusedStartKeeps, HeartbeatKeeps,
     AdvanceCoverageKeeps, CommitTerminalKeeps, MarkExecutorUnknownKeeps
     DEF ExecutorStep
<1>2. ASSUME NEW r \in Run, OperatorStep(r)
      PROVE  RunInv'
  BY <1>2, AdmitKeeps, CancelKeeps, ContinueKeeps, CloseAttentionKeeps
     DEF OperatorStep
<1> QED
  BY <1>1, <1>2, SupervisorKeeps DEF RunStep

LEMMA RunInitInv ==
    ASSUME RunInit
    PROVE  RunInv
<1>1. RunTypeOK
  BY NoOutcomeType, GrantedType
     DEF RunInit, RunTypeOK, ClaimsTypeOK, RunRow, RunState, Reason, NoLease
<1>2. ExclusiveClaims /\ LeasesMatch(runs, leases)
  BY DEF RunInit, ExclusiveClaims, LeasesMatch
<1>3. ClaimsMatchState
  BY DEF RunInit, ClaimsMatchState, Held
<1> QED
  BY <1>1, <1>2, <1>3 DEF RunInv

\* The inductive invariant of run control.
THEOREM RunInvariant == RunSpec => []RunInv
<1>1. RunInv /\ [RunNext]_runVars => RunInv'
  <2> SUFFICES ASSUME RunInv, [RunNext]_runVars
               PROVE  RunInv'
    OBVIOUS
  <2>1. CASE RunStep
    BY <2>1, RunStepKeeps
  <2>2. CASE RestartRuns
    <3>1. AfterLoss(WithLease) \subseteq Claim /\ Exclusive(AfterLoss(WithLease))
      BY AfterLossKeeps DEF RunInv, RunTypeOK
    <3> QED
      BY <2>2, <3>1, RestartKeeps DEF RestartRuns
  <2>3. CASE UNCHANGED runVars
    BY <2>3, QuietStep DEF runVars, runOnlyVars, RunInv, RunTypeOK, ClaimsTypeOK
  <2> QED
    BY <2>1, <2>2, <2>3 DEF RunNext
<1> QED
  BY <1>1, RunInitInv, PTL DEF RunSpec

\* The claims of every run follow its scheduler state (control_plane.py), for any
\* number of runs and resources and through any number of restarts.
THEOREM RunClaimsFollowState == RunSpec => []ClaimsMatchState
BY RunInvariant, PTL DEF RunInv

\* No two runs are ever on one resource.
THEOREM RunsExclude == RunSpec => []ExclusiveClaims
BY RunInvariant, PTL DEF RunInv
=============================================================================
