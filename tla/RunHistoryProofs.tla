-------------------------- MODULE RunHistoryProofs --------------------------
(***************************************************************************)
(* At most one execution of a run is under way; what a step may never do   *)
(* to a run; what an acknowledged cancellation excludes; and to which      *)
(* execution the points and the outcome of a run belong: for every set of  *)
(* runs, executors and resources, any plan length and any number of        *)
(* executions and restarts.                                                *)
(***************************************************************************)
EXTENDS RunControlProofs, FiniteSetTheorems

(***************************************************************************)
(* What SingleExecution says of one run beside LeasesMatch: a lease is     *)
(* that of the last segment, and no other segment is under way.            *)
(***************************************************************************)
OneExecution(segs, l) ==
    /\ l # NoLease => l.segment = Len(segs)
    /\ \A k \in 1..Len(segs) : segs[k].result = "running" <=> l.segment = k

OneExecutionEach == \A r \in Run : OneExecution(segments[r], leases[r])

\* LeasesMatch, part of RunInv, is what makes the lease of a leased run exist
\* when its execution is ended, so that there is a last segment to end.
ExecutionInv == RunInv /\ OneExecutionEach

LEMMA NoLeaseFields == NoLease.segment = 0
BY DEF NoLease, Granted

LEMMA ExecutionInvImplies ==
    ASSUME ExecutionInv
    PROVE  SingleExecution
BY NoLeaseFields DEF ExecutionInv, OneExecutionEach, OneExecution, RunInv, LeasesMatch,
   SingleExecution

\* The run keeps its segments and the token of its lease, if it has one.
LEMMA SameExecution ==
    ASSUME ExecutionInv, NEW r \in Run,
           segments'[r] = segments[r],
           leases'[r].segment = leases[r].segment,
           leases[r] = NoLease => leases'[r] = NoLease
    PROVE  OneExecution(segments'[r], leases'[r])
BY DEF ExecutionInv, OneExecutionEach, OneExecution

\* _finish_execution_segment together with the deletion of the lease.
LEMMA EndedExecution ==
    ASSUME ExecutionInv, NEW r \in Run, runs[r].state = "leased",
           NEW result, result # "running", NEW certainty,
           segments'[r] = Finished(r, result, certainty), leases'[r] = NoLease
    PROVE  OneExecution(segments'[r], leases'[r])
<1> DEFINE n == Len(segments[r])
<1>1. segments[r] \in Seq(Segment) /\ n \in Nat
  BY DEF ExecutionInv, RunInv, RunTypeOK
<1>2. leases[r].segment # 0 /\ leases[r] # NoLease
  BY NoLeaseFields DEF ExecutionInv, RunInv, LeasesMatch
<1>3. leases[r].segment = n /\ n # 0
  BY <1>2 DEF ExecutionInv, OneExecutionEach, OneExecution
<1> DEFINE seg == [segments[r][n] EXCEPT !.end = Coverage(r), !.result = result,
                                         !.certainty = certainty]
<1>4. segments[r][n] \in Segment
  BY <1>1, <1>3
<1>5. seg.result = result
  BY <1>4 DEF Segment
<1>6. segments'[r] = [segments[r] EXCEPT ![n] = seg]
  BY <1>1, <1>4 DEF Finished
<1> HIDE DEF seg
<1>7. Len(segments'[r]) = n /\ segments'[r][n] = seg
      /\ \A k \in 1..n : k # n => segments'[r][k] = segments[r][k]
  BY <1>1, <1>3, <1>6
<1>8. \A k \in 1..n : segments'[r][k].result # "running"
  BY <1>1, <1>3, <1>5, <1>7 DEF ExecutionInv, OneExecutionEach, OneExecution
<1> QED
  BY <1>7, <1>8, NoLeaseFields DEF OneExecution

-----------------------------------------------------------------------------
(* The actions that write segments or leases. *)

LEMMA StartsExecution ==
    ASSUME ExecutionInv, NEW r \in Run, NEW e \in Executor, StartExecution(r, e)
    PROVE  OneExecutionEach'
<1> DEFINE n == Len(segments[r])
           seg == [holders |-> {e}, runtime |-> runtime, start |-> Coverage(r),
                   end |-> 0, result |-> "running", certainty |-> "known"]
<1>1. segments \in [Run -> Seq(Segment)] /\ leases \in [Run -> Lease] /\ n \in Nat
  BY DEF ExecutionInv, RunInv, RunTypeOK
<1>2. leases[r] = NoLease
  BY DEF ExecutionInv, RunInv, LeasesMatch, StartExecution, Startable
<1>3. segments'[r] = Append(segments[r], seg) /\ leases'[r] = Granted(n + 1)
  BY <1>1 DEF StartExecution
<1>4. seg.result = "running"
  OBVIOUS
<1> HIDE DEF seg
<1>5. Len(segments'[r]) = n + 1 /\ segments'[r][n + 1] = seg
      /\ \A k \in 1..n : segments'[r][k] = segments[r][k]
  BY <1>1, <1>3
<1>6. \A k \in 1..n : segments[r][k].result # "running"
  BY <1>1, <1>2, NoLeaseFields DEF ExecutionInv, OneExecutionEach, OneExecution
<1>7. leases'[r].segment = n + 1
  BY <1>3 DEF Granted
<1>8. OneExecution(segments'[r], leases'[r])
  BY <1>1, <1>4, <1>5, <1>6, <1>7 DEF OneExecution
<1>9. ASSUME NEW p \in Run, p # r
      PROVE  OneExecution(segments'[p], leases'[p])
  <2>1. segments'[p] = segments[p] /\ leases'[p] = leases[p]
    BY <1>1, <1>9 DEF StartExecution
  <2> QED
    BY <2>1, SameExecution
<1> QED
  BY <1>8, <1>9 DEF OneExecutionEach

LEMMA RetriesStart ==
    ASSUME ExecutionInv, NEW r \in Run, NEW e \in Executor, RetryStart(r, e)
    PROVE  OneExecutionEach'
<1> DEFINE j == leases[r].segment
           seg == [segments[r][j] EXCEPT !.holders = @ \cup {e}]
<1>1. segments \in [Run -> Seq(Segment)] /\ leases' = leases
  BY DEF ExecutionInv, RunInv, RunTypeOK, RetryStart
<1>2. j # 0 /\ leases[r] # NoLease
  BY NoLeaseFields DEF RetryStart, SameIntent, Fenced, Live
<1>3. j = Len(segments[r]) /\ j \in 1..Len(segments[r])
  BY <1>1, <1>2 DEF ExecutionInv, OneExecutionEach, OneExecution
<1>4. segments[r][j] \in Segment
  BY <1>1, <1>3
<1>5. seg.result = segments[r][j].result
  BY <1>4 DEF Segment
<1>6. segments'[r] = [segments[r] EXCEPT ![j] = seg]
      /\ \A p \in Run \ {r} : segments'[p] = segments[p]
  BY <1>1 DEF RetryStart
<1> HIDE DEF seg
<1>7. Len(segments'[r]) = Len(segments[r])
      /\ \A k \in 1..Len(segments[r]) : segments'[r][k].result = segments[r][k].result
  BY <1>1, <1>3, <1>5, <1>6
<1>8. OneExecution(segments'[r], leases'[r])
  BY <1>1, <1>7 DEF ExecutionInv, OneExecutionEach, OneExecution
<1>9. \A p \in Run \ {r} : OneExecution(segments'[p], leases'[p])
  BY <1>1, <1>6, SameExecution
<1> QED
  BY <1>8, <1>9 DEF OneExecutionEach

LEMMA Renews ==
    ASSUME ExecutionInv, NEW r \in Run, NEW k \in 1..Len(segments[r]), RenewLease(r, k)
    PROVE  OneExecutionEach'
<1>1. leases \in [Run -> Lease] /\ segments \in [Run -> Seq(Segment)]
      /\ segments' = segments
  BY DEF ExecutionInv, RunInv, RunTypeOK, RenewLease
<1>2. ASSUME NEW p \in Run
      PROVE  /\ leases'[p].segment = leases[p].segment
             /\ leases[p] = NoLease => leases'[p] = NoLease
  <2>1. CASE leases[r].segment = k /\ p = r
    <3>1. leases'[p] = Granted(k)
      BY <1>1, <2>1 DEF RenewLease
    <3>2. k # 0 /\ leases[p] # NoLease
      BY <1>1, <2>1, NoLeaseFields
    <3> QED
      BY <2>1, <3>1, <3>2 DEF Granted
  <2>2. CASE ~(leases[r].segment = k /\ p = r)
    <3>1. leases'[p] = leases[p]
      BY <1>1, <2>2 DEF RenewLease
    <3> QED
      BY <3>1
  <2> QED
    BY <2>1, <2>2
<1> QED
  BY <1>1, <1>2, SameExecution DEF OneExecutionEach

LEMMA Commits ==
    ASSUME ExecutionInv, NEW r \in Run, NEW k, NEW o \in Reported,
           CommitTerminal(r, k, o)
    PROVE  OneExecutionEach'
<1> DEFINE final == HonorCancellation(r, o)
<1>1. leases \in [Run -> Lease] /\ segments \in [Run -> Seq(Segment)]
  BY DEF ExecutionInv, RunInv, RunTypeOK
<1>2. runs[r].state = "leased"
  BY DEF CommitTerminal, Fenced
<1>3. final[1] # "running"
  BY HonorCancellationType
<1>4. segments'[r] = Finished(r, final[1], final[2]) /\ leases'[r] = NoLease
      /\ \A p \in Run \ {r} : segments'[p] = segments[p] /\ leases'[p] = leases[p]
  BY <1>1 DEF CommitTerminal
<1> HIDE DEF final
<1>5. OneExecution(segments'[r], leases'[r])
  BY <1>2, <1>3, <1>4, EndedExecution
<1>6. \A p \in Run \ {r} : OneExecution(segments'[p], leases'[p])
  BY <1>4, SameExecution
<1> QED
  BY <1>5, <1>6 DEF OneExecutionEach

\* Executors are lost by expiry, by a report of their own or by a restart.
LEMMA LosesExecutors ==
    ASSUME ExecutionInv, NEW S, NEW why, LoseExecutors(S, why),
           \A r \in S : r \in Run /\ leases[r] # NoLease
    PROVE  OneExecutionEach'
<1>1. leases \in [Run -> Lease] /\ segments \in [Run -> Seq(Segment)]
  BY DEF ExecutionInv, RunInv, RunTypeOK
<1>2. Lost(S) = S /\ \A r \in S : runs[r].state = "leased"
  BY DEF ExecutionInv, RunInv, LeasesMatch, Lost
<1>3. ASSUME NEW r \in Run, r \in S
      PROVE  OneExecution(segments'[r], leases'[r])
  <2>1. segments'[r] = Finished(r, "interrupted", "indeterminate")
        /\ leases'[r] = NoLease
    BY <1>2, <1>3 DEF LoseExecutors
  <2> QED
    BY <1>2, <1>3, <2>1, EndedExecution
<1>4. ASSUME NEW r \in Run, r \notin S
      PROVE  OneExecution(segments'[r], leases'[r])
  <2>1. segments'[r] = segments[r] /\ leases'[r] = leases[r]
    BY <1>2, <1>4 DEF LoseExecutors
  <2> QED
    BY <2>1, SameExecution
<1> QED
  BY <1>3, <1>4 DEF OneExecutionEach

\* Transactions that delete the lease of a run that has none by then.
LEMMA ClosesIdle ==
    ASSUME ExecutionInv, NEW r \in Run, runs[r].state # "leased",
           leases' = [leases EXCEPT ![r] = NoLease], UNCHANGED segments
    PROVE  OneExecutionEach'
<1>1. leases \in [Run -> Lease] /\ leases[r] = NoLease
  BY DEF ExecutionInv, RunInv, RunTypeOK, LeasesMatch
<1>2. \A p \in Run : leases'[p] = leases[p]
  BY <1>1
<1> QED
  BY <1>2, SameExecution DEF OneExecutionEach

LEMMA QuietExecution ==
    ASSUME ExecutionInv, UNCHANGED <<segments, leases>>
    PROVE  OneExecutionEach'
BY SameExecution DEF OneExecutionEach

LEMMA TimePasses ==
    ASSUME ExecutionInv, (\E r \in Run : LapseLease(r)) \/ ReadExpiredLeases
    PROVE  OneExecutionEach'
<1>1. leases \in [Run -> Lease] /\ UNCHANGED segments
  BY DEF ExecutionInv, RunInv, RunTypeOK, LapseLease, ReadExpiredLeases
<1>2. ASSUME NEW p \in Run
      PROVE  /\ leases'[p].segment = leases[p].segment
             /\ leases[p] = NoLease => leases'[p] = NoLease
  <2>1. CASE \E r \in Run : LapseLease(r)
    BY <1>1, <2>1 DEF LapseLease, Lease
  <2>2. CASE ReadExpiredLeases
    <3>1. leases'[p] = [leases[p] EXCEPT !.overdue = leases[p].expired]
      BY <2>2 DEF ReadExpiredLeases
    <3>2. leases[p] \in Lease
      BY <1>1
    <3>3. leases[p] = NoLease => leases[p].overdue = leases[p].expired
      BY DEF NoLease, Granted
    <3> QED
      BY <3>1, <3>2, <3>3 DEF Lease
  <2> QED
    BY <2>1, <2>2
<1> QED
  BY <1>1, <1>2, SameExecution DEF OneExecutionEach

-----------------------------------------------------------------------------
LEMMA ExecutorStepKeepsOne ==
    ASSUME ExecutionInv, NEW r \in Run, ExecutorStep(r)
    PROVE  OneExecutionEach'
<1>1. ASSUME NEW e \in Executor, StartExecution(r, e) \/ RetryStart(r, e)
      PROVE  OneExecutionEach'
  BY <1>1, StartsExecution, RetriesStart
<1>2. CASE RejectBusy(r) \/ RequireReconfirmation(r)
  BY <1>2, QuietExecution DEF RejectBusy, RequireReconfirmation
<1>3. ASSUME NEW k \in 1..Len(segments[r]), ReadHeartbeatClock(r, k) \/ RenewLease(r, k)
      PROVE  OneExecutionEach'
  BY <1>3, Renews, QuietExecution DEF ReadHeartbeatClock
<1>4. ASSUME NEW k, NEW n, AdvanceCoverage(r, k, n)
      PROVE  OneExecutionEach'
  BY <1>4, QuietExecution DEF AdvanceCoverage
<1>5. ASSUME NEW k, MarkExecutorUnknown(r, k)
      PROVE  OneExecutionEach'
  <2>1. leases[r] # NoLease /\ LoseExecutors({r}, "executor_unknown")
    BY <1>5, NoLeaseFields DEF MarkExecutorUnknown, ExpireOne
  <2> QED
    BY <2>1, LosesExecutors
<1> QED
  BY <1>1, <1>2, <1>3, <1>4, <1>5, Commits DEF ExecutorStep

LEMMA OperatorStepKeepsOne ==
    ASSUME ExecutionInv, NEW r \in Run, OperatorStep(r)
    PROVE  OneExecutionEach'
<1>1. CASE Admit(r) \/ ContinueRun(r) \/ \E key \in Key : ReconfirmLine(r, key)
  BY <1>1, QuietExecution DEF Admit, ContinueRun, ReconfirmLine
<1>2. CASE CancelRun(r) \/ CancelWaitingChild(r)
  <2>1. CASE CancelQueued(r) /\ UNCHANGED segments
    BY <2>1, ClosesIdle DEF CancelQueued
  <2> QED
    BY <1>2, <2>1, QuietExecution DEF CancelRun, CancelWaitingChild
<1>3. CASE CloseAttention(r)
  BY <1>3, ClosesIdle DEF CloseAttention
<1> QED
  BY <1>1, <1>2, <1>3 DEF OperatorStep

LEMMA RunNextKeepsOne ==
    ASSUME ExecutionInv, RunNext
    PROVE  OneExecutionEach'
<1>1. CASE ExpireLeases
  <2> DEFINE S == {r \in sweep : StillExpired(r)}
  <2>1. \A r \in S : r \in Run /\ leases[r] # NoLease
    BY DEF ExecutionInv, RunInv, RunTypeOK, StillExpired, NoLease, Granted
  <2>2. LoseExecutors(S, "executor_lease_expired")
    BY <1>1 DEF ExpireLeases, ExpireOne
  <2> HIDE DEF S
  <2> QED
    BY <2>1, <2>2, LosesExecutors
<1>2. CASE RestartRuns
  BY <1>2, LosesExecutors DEF RestartRuns, RestartRunRows, WithLease
<1> QED
  BY <1>1, <1>2, ExecutorStepKeepsOne, OperatorStepKeepsOne, TimePasses
     DEF RunNext, RunStep

LEMMA RunInvStep ==
    ASSUME RunInv, RunNext
    PROVE  RunInv'
<1>1. CASE RestartRuns
  <2>1. AfterLoss(WithLease) \subseteq Claim /\ Exclusive(AfterLoss(WithLease))
    BY AfterLossKeeps DEF RunInv, RunTypeOK
  <2> QED
    BY <1>1, <2>1, RestartKeeps DEF RestartRuns
<1> QED
  BY <1>1, RunStepKeeps DEF RunNext

\* The tables of the scheduler, and for each run a lease that is that of its last
\* execution, the only one under way.
THEOREM ExecutionInvariant == RunSpec => []ExecutionInv
<1>1. RunInit => ExecutionInv
  <2> SUFFICES ASSUME RunInit PROVE ExecutionInv
    OBVIOUS
  <2>1. OneExecutionEach
    BY NoLeaseFields DEF RunInit, OneExecutionEach, OneExecution
  <2> QED
    BY <2>1, RunInitInv DEF ExecutionInv
<1>2. ExecutionInv /\ [RunNext]_runVars => ExecutionInv'
  <2> SUFFICES ASSUME ExecutionInv, [RunNext]_runVars PROVE ExecutionInv'
    OBVIOUS
  <2>1. CASE RunNext
    BY <2>1, RunNextKeepsOne, RunInvStep DEF ExecutionInv
  <2>2. CASE UNCHANGED runVars
    <3>1. RunInv'
      BY <2>2, QuietStep DEF runVars, runOnlyVars, ExecutionInv, RunInv, RunTypeOK,
         ClaimsTypeOK
    <3> QED
      BY <2>2, <3>1, QuietExecution DEF runVars, runOnlyVars, ExecutionInv
  <2> QED
    BY <2>1, <2>2
<1> QED
  BY <1>1, <1>2, PTL DEF RunSpec

\* At most one execution of a run is under way: starts, retries, commits, lost
\* executors and restarts keep its lease with its last segment (control_plane.py).
THEOREM RunExecutesOnce == RunSpec => []SingleExecution
<1>1. ExecutionInv => SingleExecution
  BY ExecutionInvImplies
<1> QED
  BY <1>1, ExecutionInvariant, PTL

-----------------------------------------------------------------------------
(* Histories. *)

(***************************************************************************)
(* The rows of scheduler_runs and executor_leases taken by themselves.  A  *)
(* cancelled run is never back in the queue; only a closed run has an      *)
(* outcome; a reason is left over from attention only.                     *)
(***************************************************************************)
RowOK(row) ==
    /\ row.cancelRequested => row.state \notin {"absent", "queued"}
    /\ row.state # "closed" => row.outcome = NoOutcome
    /\ row.cancelRequested => row.outcome.result # "succeeded"
    /\ row.state = "leased" => row.reason = "none"

LeaseOK(l) == l.overdue => l.expired

RowsOK == \A r \in Run : RowOK(runs[r]) /\ LeaseOK(leases[r])

HistoryInv == RunInv /\ RowsOK

LEMMA NoOutcomeFields ==
    /\ NoOutcome.by = 0
    /\ NoOutcome.result = "none"
BY DEF NoOutcome

LEMMA LeaseConstants ==
    /\ LeaseOK(NoLease)
    /\ \A k : LeaseOK(Granted(k))
BY DEF LeaseOK, NoLease, Granted

LEMMA WithStateRow ==
    ASSUME NEW row \in RunRow, NEW s, NEW why
    PROVE  /\ WithState(row, s, why).state = s
           /\ WithState(row, s, why).reason = why
           /\ WithState(row, s, why).outcome = row.outcome
           /\ WithState(row, s, why).cancelRequested = row.cancelRequested
BY DEF WithState, RunRow

\* Closing a run that has no outcome records the outcome.
LEMMA ClosedWithRow ==
    ASSUME RunTypeOK, NEW r \in Run, runs[r].outcome = NoOutcome, NEW o
    PROVE  /\ ClosedWith(r, o).state = "closed"
           /\ ClosedWith(r, o).outcome = o
           /\ ClosedWith(r, o).cancelRequested = runs[r].cancelRequested
           /\ ClosedWith(r, o).reason = "none"
BY DEF RunTypeOK, RunRow, ClosedWith, WithOutcome, WithState

\* Ending a segment does not add one.
LEMMA FinishedLength ==
    ASSUME RunTypeOK, NEW r \in Run, NEW result, NEW certainty
    PROVE  Len(Finished(r, result, certainty)) = Len(segments[r])
<1>1. segments[r] \in Seq(Segment)
  BY DEF RunTypeOK
<1>2. CASE segments[r] = <<>>
  BY <1>2 DEF Finished
<1>3. CASE segments[r] # <<>>
  <2> DEFINE n == Len(segments[r])
             seg == [segments[r][n] EXCEPT !.end = Coverage(r), !.result = result,
                                           !.certainty = certainty]
  <2>1. n \in 1..n
    BY <1>1, <1>3
  <2>2. Finished(r, result, certainty) = [segments[r] EXCEPT ![n] = seg]
    BY <1>1, <2>1 DEF Finished
  <2> HIDE DEF seg
  <2> QED
    BY <1>1, <2>2
<1> QED
  BY <1>2, <1>3

-----------------------------------------------------------------------------
(* The invariant, one lemma per shape of a transaction. *)

\* One row is written, leases stay or lose theirs.
LEMMA OneRowOK ==
    ASSUME HistoryInv, NEW r \in Run, NEW row, RowOK(row),
           runs' = [runs EXCEPT ![r] = row],
           leases' = leases \/ leases' = [leases EXCEPT ![r] = NoLease]
    PROVE  RowsOK'
<1>1. runs \in [Run -> RunRow] /\ leases \in [Run -> Lease]
  BY DEF HistoryInv, RunInv, RunTypeOK
<1>2. \A p \in Run : RowOK(runs'[p])
  BY <1>1 DEF HistoryInv, RowsOK
<1>3. \A p \in Run : LeaseOK(leases'[p])
  BY <1>1, LeaseConstants DEF HistoryInv, RowsOK
<1> QED
  BY <1>2, <1>3 DEF RowsOK

\* The rows of runs stay, and of leases what they say about time.
LEMMA SameRowsOK ==
    ASSUME HistoryInv, UNCHANGED <<runs, leases>>
    PROVE  RowsOK'
BY DEF HistoryInv, RowsOK

LEMMA StartOK ==
    ASSUME HistoryInv, NEW r \in Run, NEW e \in Executor, StartExecution(r, e)
    PROVE  RowsOK'
<1> DEFINE row == WithState(runs[r], "leased", "none")
<1>1. runs \in [Run -> RunRow] /\ leases \in [Run -> Lease]
  BY DEF HistoryInv, RunInv, RunTypeOK
<1>2. RowOK(row)
  BY <1>1, WithStateRow
     DEF HistoryInv, RowsOK, RowOK, StartExecution, Startable, NoOutcome
<1>3. runs' = [runs EXCEPT ![r] = row]
      /\ leases' = [leases EXCEPT ![r] = Granted(Len(segments[r]) + 1)]
  BY DEF StartExecution
<1> HIDE DEF row
<1> QED
  BY <1>1, <1>2, <1>3, LeaseConstants DEF HistoryInv, RowsOK

\* The daemon closes a run without an outcome, not as succeeded.
LEMMA ClosedOK ==
    ASSUME HistoryInv, NEW r \in Run, runs[r].outcome = NoOutcome,
           NEW o, o.result # "succeeded"
    PROVE  RowOK(ClosedWith(r, o))
BY ClosedWithRow DEF HistoryInv, RunInv, RowOK

LEMMA CommitOK ==
    ASSUME HistoryInv, NEW r \in Run, NEW k, NEW o \in Reported,
           CommitTerminal(r, k, o)
    PROVE  RowsOK'
<1> DEFINE final == HonorCancellation(r, o)
           out == [result |-> final[1], certainty |-> final[2], by |-> k]
           row == ClosedWith(r, out)
<1>1. runs[r].state = "leased" /\ runs[r].outcome = NoOutcome
  BY DEF CommitTerminal, Fenced, HistoryInv, RowsOK, RowOK
<1>2. runs[r].cancelRequested => final[1] # "succeeded"
  BY DEF HonorCancellation
<1>3. out.result = final[1]
  OBVIOUS
<1>4. runs' = [runs EXCEPT ![r] = row] /\ leases' = [leases EXCEPT ![r] = NoLease]
  BY DEF CommitTerminal
<1> HIDE DEF final
<1> HIDE DEF out
<1>5. RowOK(row)
  BY <1>1, <1>2, <1>3, ClosedWithRow DEF HistoryInv, RunInv, RowOK
<1> QED
  BY <1>4, <1>5, OneRowOK

LEMMA LossOK ==
    ASSUME HistoryInv, NEW S, NEW why, LoseExecutors(S, why)
    PROVE  RowsOK'
<1>1. runs \in [Run -> RunRow]
  BY DEF HistoryInv, RunInv, RunTypeOK
<1>2. ASSUME NEW r \in Run
      PROVE  RowOK(runs'[r])
  <2>1. CASE r \in Lost(S)
    <3>1. runs'[r] = WithState(runs[r], "attention_required", why)
          /\ runs[r].state = "leased"
      BY <2>1 DEF LoseExecutors, Lost
    <3> QED
      BY <1>1, <3>1, WithStateRow DEF HistoryInv, RowsOK, RowOK
  <2>2. CASE r \notin Lost(S)
    BY <2>2 DEF HistoryInv, RowsOK, LoseExecutors
  <2> QED
    BY <2>1, <2>2
<1>3. \A r \in Run : LeaseOK(leases'[r])
  BY LeaseConstants DEF HistoryInv, RowsOK, LoseExecutors
<1> QED
  BY <1>2, <1>3 DEF RowsOK

LEMMA CancelOK ==
    ASSUME HistoryInv, NEW r \in Run, CancelRun(r) \/ CancelWaitingChild(r)
    PROVE  RowsOK'
<1>1. runs[r] \in RunRow /\ RunTypeOK
  BY DEF HistoryInv, RunInv, RunTypeOK
<1>2. CASE CancelQueued(r)
  <2> DEFINE row == [ClosedWith(r, Cancelled) EXCEPT !.cancelRequested = TRUE]
  <2>1. runs[r].outcome = NoOutcome
    BY <1>2 DEF CancelQueued, HistoryInv, RowsOK, RowOK
  <2>2. Cancelled \in Outcome /\ Cancelled.result = "cancelled"
    BY DEF Cancelled, Outcome, Certainty
  <2>3. ClosedWith(r, Cancelled) \in RunRow
    BY <1>1, <2>2, ClosedWithType
  <2>4. row.state = "closed" /\ row.outcome = Cancelled
    BY <1>1, <2>1, <2>3, ClosedWithRow DEF RunRow
  <2>5. RowOK(row)
    BY <2>2, <2>4 DEF RowOK
  <2>6. runs' = [runs EXCEPT ![r] = row] /\ leases' = [leases EXCEPT ![r] = NoLease]
    BY <1>2 DEF CancelQueued
  <2> HIDE DEF row
  <2> QED
    BY <2>5, <2>6, OneRowOK
<1>3. CASE runs[r].state = "leased" /\ runs' = [runs EXCEPT ![r].cancelRequested = TRUE]
           /\ UNCHANGED leases
  <2> DEFINE row == [runs[r] EXCEPT !.cancelRequested = TRUE]
  <2>1. /\ row.state = "leased"
        /\ row.outcome = runs[r].outcome
        /\ row.reason = runs[r].reason
    BY <1>1, <1>3 DEF RunRow
  <2>2. runs' = [runs EXCEPT ![r] = row]
    BY <1>3
  <2>3. RowOK(row)
    BY <1>3, <2>1, NoOutcomeFields DEF HistoryInv, RowsOK, RowOK
  <2> HIDE DEF row
  <2> QED
    BY <1>3, <2>2, <2>3, OneRowOK
<1> QED
  BY <1>2, <1>3 DEF CancelRun, CancelWaitingChild

\* Attention is asked for, given back to the queue, or closed.
LEMMA AttentionOK ==
    ASSUME HistoryInv, NEW r \in Run,
           \/ RequireReconfirmation(r) \/ ContinueRun(r) \/ CloseAttention(r)
           \/ \E key \in Key : ReconfirmLine(r, key)
    PROVE  RowsOK'
<1>1. runs[r] \in RunRow
  BY DEF HistoryInv, RunInv, RunTypeOK
<1>2. CASE RequireReconfirmation(r)
  <2>1. RowOK(WithState(runs[r], "attention_required",
                        "manual_line_confirmation_expired"))
    BY <1>1, <1>2, WithStateRow
       DEF RequireReconfirmation, Startable, HistoryInv, RowsOK, RowOK
  <2> QED
    BY <1>2, <2>1, OneRowOK DEF RequireReconfirmation
<1>3. CASE ContinueRun(r) \/ \E key \in Key : ReconfirmLine(r, key)
  <2>1. MayContinue(r) /\ leases' = leases
        /\ runs' = [runs EXCEPT ![r] = WithState(runs[r], "queued", "none")]
    BY <1>3 DEF ContinueRun, ReconfirmLine
  <2>2. RowOK(WithState(runs[r], "queued", "none"))
    BY <1>1, <2>1, WithStateRow DEF MayContinue, HistoryInv, RowsOK, RowOK
  <2> QED
    BY <2>1, <2>2, OneRowOK
<1>4. CASE CloseAttention(r)
  <2>1. runs[r].outcome = NoOutcome
    BY <1>4 DEF CloseAttention, HistoryInv, RowsOK, RowOK
  <2> QED
    BY <1>4, <2>1, ClosedOK, OneRowOK DEF CloseAttention
<1> QED
  BY <1>2, <1>3, <1>4

LEMMA TimeOK ==
    ASSUME HistoryInv, (\E r \in Run : LapseLease(r)) \/ ReadExpiredLeases
    PROVE  RowsOK'
<1>1. leases \in [Run -> Lease]
  BY DEF HistoryInv, RunInv, RunTypeOK
<1>2. runs' = runs
  BY DEF LapseLease, ReadExpiredLeases
<1>3. CASE \E r \in Run : LapseLease(r)
  <2>1. \A p \in Run : LeaseOK(leases'[p])
    BY <1>1, <1>3 DEF LapseLease, Lease, LeaseOK, HistoryInv, RowsOK
  <2> QED
    BY <1>2, <2>1 DEF HistoryInv, RowsOK
<1>4. CASE ReadExpiredLeases
  <2>1. ASSUME NEW p \in Run PROVE LeaseOK(leases'[p])
    <3>1. leases'[p] = [leases[p] EXCEPT !.overdue = leases[p].expired]
      BY <1>4 DEF ReadExpiredLeases
    <3>2. leases[p] \in Lease
      BY <1>1
    <3> QED
      BY <3>1, <3>2 DEF LeaseOK, Lease
  <2> QED
    BY <1>2, <2>1 DEF HistoryInv, RowsOK
<1> QED
  BY <1>3, <1>4

LEMMA ExecutorStepOK ==
    ASSUME HistoryInv, NEW r \in Run, ExecutorStep(r)
    PROVE  RowsOK'
<1>1. ASSUME NEW e \in Executor, RetryStart(r, e)
      PROVE  RowsOK'
  BY <1>1, SameRowsOK DEF RetryStart
<1>2. CASE RejectBusy(r)
  BY <1>2, ClosedOK, OneRowOK DEF RejectBusy, Startable
<1>3. ASSUME NEW k, ReadHeartbeatClock(r, k)
      PROVE  RowsOK'
  BY <1>3, SameRowsOK DEF ReadHeartbeatClock
<1>4. ASSUME NEW k, RenewLease(r, k)
      PROVE  RowsOK'
  <2>1. leases \in [Run -> Lease] /\ runs' = runs
    BY <1>4 DEF HistoryInv, RunInv, RunTypeOK, RenewLease
  <2>2. \A p \in Run : leases'[p] = leases[p] \/ leases'[p] = Granted(k)
    BY <1>4, <2>1 DEF RenewLease
  <2> QED
    BY <2>1, <2>2, LeaseConstants DEF HistoryInv, RowsOK
<1>5. ASSUME NEW k, NEW n, AdvanceCoverage(r, k, n)
      PROVE  RowsOK'
  BY <1>5, SameRowsOK DEF AdvanceCoverage
<1>6. ASSUME NEW k, MarkExecutorUnknown(r, k)
      PROVE  RowsOK'
  BY <1>6, LossOK DEF MarkExecutorUnknown, ExpireOne
<1> QED
  BY <1>1, <1>2, <1>3, <1>4, <1>5, <1>6, StartOK, CommitOK, AttentionOK
     DEF ExecutorStep

LEMMA AdmitOK ==
    ASSUME HistoryInv, NEW r \in Run, Admit(r)
    PROVE  RowsOK'
<1> DEFINE row == [runs[r] EXCEPT !.state = "queued"]
<1>1. runs[r] \in RunRow
  BY DEF HistoryInv, RunInv, RunTypeOK
<1>2. runs' = [runs EXCEPT ![r] = row] /\ leases' = leases /\ runs[r].state = "absent"
  BY DEF Admit
<1>3. /\ row.state = "queued"
      /\ row.outcome = runs[r].outcome
      /\ row.cancelRequested = runs[r].cancelRequested
  BY <1>1 DEF RunRow
<1>4. RowOK(row)
  BY <1>2, <1>3 DEF HistoryInv, RowsOK, RowOK
<1> HIDE DEF row
<1> QED
  BY <1>2, <1>4, OneRowOK

LEMMA HistoryInvStep ==
    ASSUME HistoryInv, RunNext
    PROVE  HistoryInv'
<1>1. RunInv'
  <2>1. CASE RestartRuns
    <3>1. AfterLoss(WithLease) \subseteq Claim /\ Exclusive(AfterLoss(WithLease))
      BY AfterLossKeeps DEF HistoryInv, RunInv, RunTypeOK
    <3> QED
      BY <2>1, <3>1, RestartKeeps DEF RestartRuns, HistoryInv
  <2> QED
    BY <2>1, RunStepKeeps DEF RunNext, HistoryInv
<1>2. ASSUME NEW r \in Run, OperatorStep(r)
      PROVE  RowsOK'
  BY <1>2, AdmitOK, CancelOK, AttentionOK DEF OperatorStep
<1>3. ASSUME ExpireLeases
      PROVE  RowsOK'
  <2> DEFINE S == {r \in sweep : StillExpired(r)}
  <2>1. LoseExecutors(S, "executor_lease_expired")
    BY <1>3 DEF ExpireLeases, ExpireOne
  <2> HIDE DEF S
  <2> QED
    BY <2>1, LossOK
<1>4. ASSUME RestartRuns
      PROVE  RowsOK'
  <2>1. LoseExecutors(WithLease, "daemon_restarted")
    BY <1>4 DEF RestartRuns, RestartRunRows
  <2> QED
    BY <2>1, LossOK
<1>5. ASSUME NEW r \in Run, LapseLease(r)
      PROVE  RowsOK'
  BY <1>5, TimeOK
<1>6. RowsOK'
  BY <1>2, <1>3, <1>4, <1>5, ExecutorStepOK, TimeOK DEF RunNext, RunStep
<1> QED
  BY <1>1, <1>6 DEF HistoryInv

\* Cancellation, outcome, reason and lease of every run agree (control_plane.py).
THEOREM RunHistoryInvariant == RunSpec => []HistoryInv
<1>1. RunInit => HistoryInv
  <2> SUFFICES ASSUME RunInit PROVE HistoryInv
    OBVIOUS
  <2>1. RowsOK
    BY LeaseConstants, NoOutcomeFields DEF RunInit, RowsOK, RowOK
  <2> QED
    BY <2>1, RunInitInv DEF HistoryInv
<1>2. HistoryInv /\ UNCHANGED runVars => HistoryInv'
  <2> SUFFICES ASSUME HistoryInv, UNCHANGED runVars PROVE HistoryInv'
    OBVIOUS
  <2>1. RunInv'
    BY QuietStep DEF runVars, runOnlyVars, HistoryInv, RunInv, RunTypeOK, ClaimsTypeOK
  <2> QED
    BY <2>1, SameRowsOK DEF runVars, runOnlyVars, HistoryInv
<1>3. HistoryInv /\ [RunNext]_runVars => HistoryInv'
  BY <1>2, HistoryInvStep
<1> QED
  BY <1>1, <1>3, PTL DEF RunSpec

\* An acknowledged cancellation is never followed by a success, whichever of
\* cancellation and commit the writer serves first (executor.py).
THEOREM CancelledStaysUnsuccessful == RunSpec => []CancelledNeverSucceeds
<1>1. HistoryInv => CancelledNeverSucceeds
  BY DEF HistoryInv, RowsOK, RowOK, CancelledNeverSucceeds
<1> QED
  BY <1>1, RunHistoryInvariant, PTL

-----------------------------------------------------------------------------
(* What a step may never do. *)

\* What a lost executor's run was, and what becomes of the claims it had.
LEMMA LossFacts ==
    ASSUME RunInv, NEW S, NEW why, LoseExecutors(S, why),
           \A r \in S : r \in Run /\ leases[r] # NoLease
    PROVE  /\ \A r \in S : runs[r].state = "leased"
           /\ AfterLoss(S) = Quarantined(S)
           /\ \A r \in Run \ S : runs'[r] = runs[r] /\ segments'[r] = segments[r]
           /\ \A r \in S : /\ runs'[r] = WithState(runs[r], "attention_required", why)
                           /\ segments'[r] =
                                 Finished(r, "interrupted", "indeterminate")
<1>1. \A r \in S : runs[r].state = "leased"
  BY DEF RunInv, LeasesMatch
<1>2. Lost(S) = S
  BY <1>1 DEF Lost
<1>3. \A c \in Quarantined(S) : c.owner \notin S \ Lost(S)
  BY <1>2
<1>4. AfterLoss(S) = Quarantined(S)
  BY <1>2, <1>3 DEF AfterLoss
<1> QED
  BY <1>1, <1>2, <1>4 DEF LoseExecutors

\* The three ways to lose executors, as one.
LEMMA LossSteps ==
    ASSUME RunInv,
           \/ \E r \in Run : \E k \in 1..Len(segments[r]) : MarkExecutorUnknown(r, k)
           \/ ExpireLeases
           \/ RestartRuns
    PROVE  \E S \in SUBSET Run :
              \E why \in {"executor_unknown", "executor_lease_expired",
                          "daemon_restarted"} :
                 /\ LoseExecutors(S, why)
                 /\ claims' = AfterLoss(S)
                 /\ covered' = covered
                 /\ \A r \in S : r \in Run /\ leases[r] # NoLease
                 /\ why = "executor_lease_expired" => \A r \in S : StillExpired(r)
<1>1. ASSUME NEW r \in Run, NEW k, MarkExecutorUnknown(r, k)
      PROVE  /\ LoseExecutors({r}, "executor_unknown")
             /\ claims' = AfterLoss({r})
             /\ covered' = covered
             /\ leases[r] # NoLease
  BY <1>1 DEF MarkExecutorUnknown, ExpireOne, NoLease, Granted
<1>2. CASE ExpireLeases
  <2> DEFINE S == {r \in sweep : StillExpired(r)}
  <2>1. LoseExecutors(S, "executor_lease_expired") /\ claims' = AfterLoss(S)
        /\ covered' = covered
    BY <1>2 DEF ExpireLeases, ExpireOne
  <2>2. S \subseteq Run /\ \A r \in S : /\ r \in Run
                                      /\ leases[r] # NoLease
                                      /\ StillExpired(r)
    BY DEF RunInv, RunTypeOK, StillExpired, NoLease, Granted
  <2> HIDE DEF S
  <2> QED
    BY <2>1, <2>2
<1>3. CASE RestartRuns
  <2>1. LoseExecutors(WithLease, "daemon_restarted") /\ claims' = AfterLoss(WithLease)
        /\ covered' = covered
    BY <1>3 DEF RestartRuns, RestartRunRows
  <2>2. WithLease \subseteq Run /\ \A r \in WithLease : r \in Run /\ leases[r] # NoLease
    BY DEF WithLease
  <2> QED
    BY <2>1, <2>2
<1>4. ASSUME NEW r \in Run, NEW k, MarkExecutorUnknown(r, k)
      PROVE  \E S \in SUBSET Run :
                /\ LoseExecutors(S, "executor_unknown")
                /\ claims' = AfterLoss(S)
                /\ covered' = covered
                /\ \A p \in S : p \in Run /\ leases[p] # NoLease
  <2> WITNESS {r} \in SUBSET Run
  <2> QED
    BY <1>1, <1>4
<1> QED
  BY <1>2, <1>3, <1>4

\* A request or a decision about one run writes nothing of another run.
LEMMA OneRunRows ==
    ASSUME RunInv, NEW p \in Run, NEW r \in Run, p # r, ExecutorStep(p) \/ OperatorStep(p)
    PROVE  runs'[r] = runs[r] /\ segments'[r] = segments[r] /\ covered'[r] = covered[r]
<1>1. /\ runs \in [Run -> RunRow]
      /\ segments \in [Run -> Seq(Segment)]
      /\ covered \in [Run -> Seq(Nat)]
  BY DEF RunInv, RunTypeOK
<1>2. CASE \E e \in Executor : StartExecution(p, e) \/ RetryStart(p, e)
  BY <1>1, <1>2 DEF StartExecution, RetryStart
<1>3. CASE RejectBusy(p) \/ RequireReconfirmation(p)
  BY <1>1, <1>3 DEF RejectBusy, RequireReconfirmation
<1>4. ASSUME NEW k, ReadHeartbeatClock(p, k) \/ RenewLease(p, k)
      PROVE  UNCHANGED <<runs, segments, covered>>
  BY <1>4 DEF ReadHeartbeatClock, RenewLease
<1>5. ASSUME NEW k, NEW n, AdvanceCoverage(p, k, n)
      PROVE  UNCHANGED <<runs, segments>> /\ covered'[r] = covered[r]
  BY <1>1, <1>5 DEF AdvanceCoverage
<1>6. ASSUME NEW k, NEW o, CommitTerminal(p, k, o)
      PROVE  runs'[r] = runs[r] /\ segments'[r] = segments[r] /\ covered' = covered
  BY <1>1, <1>6 DEF CommitTerminal
<1>7. ASSUME NEW k, MarkExecutorUnknown(p, k)
      PROVE  runs'[r] = runs[r] /\ segments'[r] = segments[r] /\ covered' = covered
  BY <1>7 DEF MarkExecutorUnknown, ExpireOne, LoseExecutors, Lost
<1>8. CASE OperatorStep(p)
  BY <1>1, <1>8 DEF OperatorStep, Admit, CancelRun, CancelQueued, CancelWaitingChild,
     ContinueRun, ReconfirmLine, CloseAttention
<1> QED
  BY <1>2, <1>3, <1>4, <1>5, <1>6, <1>7, <1>8 DEF ExecutorStep

\* A closed run is in no request's and in no operator's reach.
LEMMA ClosedUntouched ==
    ASSUME HistoryInv, NEW r \in Run, runs[r].state = "closed",
           ExecutorStep(r) \/ OperatorStep(r)
    PROVE  UNCHANGED <<runs, segments, covered>>
<1>1. \A k : ~Fenced(r, k)
  BY DEF Fenced
<1>2. leases[r] = NoLease
  BY DEF HistoryInv, RunInv, LeasesMatch
<1>3. ASSUME NEW k, ReadHeartbeatClock(r, k) \/ RenewLease(r, k)
      PROVE  UNCHANGED <<runs, segments, covered>>
  BY <1>3 DEF ReadHeartbeatClock, RenewLease
<1>4. \A k : ~MarkExecutorUnknown(r, k)
  BY <1>2 DEF MarkExecutorUnknown, NoLease, Granted
<1>5. ~Startable(r) /\ \A e : ~SameIntent(r, e)
  BY <1>1 DEF Startable, SameIntent
<1>6. ~OperatorStep(r)
  BY DEF OperatorStep, Admit, CancelRun, CancelQueued, CancelWaitingChild, ContinueRun,
     ReconfirmLine, MayContinue, CloseAttention
<1> QED
  BY <1>1, <1>3, <1>4, <1>5, <1>6 DEF ExecutorStep, StartExecution, RetryStart, RejectBusy,
     RequireReconfirmation, AdvanceCoverage, CommitTerminal

\* The steps that concern no run in particular, and those that lose executors.
LEMMA StepKinds ==
    ASSUME RunNext
    PROVE  \/ \E p \in Run : ExecutorStep(p) \/ OperatorStep(p)
           \/ UNCHANGED <<claims, runs, segments, covered>>
           \/ ExpireLeases \/ RestartRuns
BY DEF RunNext, RunStep, LapseLease, ReadExpiredLeases

\* A closed run stays as it is, however late what reaches it (executor.py).
THEOREM ClosedRunsStay == RunSpec => ClosedForever
<1>1. ASSUME HistoryInv, RunNext, NEW r \in Run, runs[r].state = "closed"
      PROVE  runs'[r] = runs[r] /\ segments'[r] = segments[r] /\ covered'[r] = covered[r]
  <2>1. ASSUME NEW p \in Run, ExecutorStep(p) \/ OperatorStep(p)
        PROVE  runs'[r] = runs[r] /\ segments'[r] = segments[r]
               /\ covered'[r] = covered[r]
    <3>1. CASE p = r
      BY <1>1, <2>1, <3>1, ClosedUntouched
    <3>2. CASE p # r
      BY <1>1, <2>1, <3>2, OneRunRows DEF HistoryInv
    <3> QED
      BY <3>1, <3>2
  <2>2. CASE ExpireLeases \/ RestartRuns
    <3>1. PICK S \in SUBSET Run, why \in {"executor_unknown", "executor_lease_expired",
                                         "daemon_restarted"} :
             /\ LoseExecutors(S, why) /\ covered' = covered
             /\ \A p \in S : p \in Run /\ leases[p] # NoLease
      BY <1>1, <2>2, LossSteps DEF HistoryInv
    <3>2. r \notin S
      BY <1>1, <3>1, LossFacts DEF HistoryInv
    <3> QED
      BY <1>1, <3>1, <3>2, LossFacts DEF HistoryInv
  <2> QED
    BY <1>1, <2>1, <2>2, StepKinds
<1>2. HistoryInv /\ [RunNext]_runVars =>
         [\A r \in Run : runs[r].state = "closed" =>
            runs'[r] = runs[r] /\ segments'[r] = segments[r]
                /\ covered'[r] = covered[r]]_runVars
  BY <1>1
<1> QED
  BY <1>2, RunHistoryInvariant, PTL DEF RunSpec, ClosedForever

LEMMA CancelledNotStarted ==
    ASSUME HistoryInv, NEW r \in Run, runs[r].cancelRequested,
           ExecutorStep(r) \/ OperatorStep(r)
    PROVE  Len(segments'[r]) = Len(segments[r])
<1>1. RunTypeOK /\ segments \in [Run -> Seq(Segment)]
  BY DEF HistoryInv, RunInv, RunTypeOK
<1>2. ~Startable(r)
  BY DEF HistoryInv, RowsOK, RowOK, Startable
<1>3. ASSUME NEW e \in Executor, StartExecution(r, e) \/ RetryStart(r, e)
      PROVE  Len(segments'[r]) = Len(segments[r])
  <2>1. RetryStart(r, e) /\ segments' = [segments EXCEPT ![r][leases[r].segment].holders = @ \cup {e}]
    BY <1>2, <1>3 DEF StartExecution, RetryStart
  <2> QED
    BY <1>1, <2>1
<1>4. CASE RejectBusy(r) \/ RequireReconfirmation(r) \/ OperatorStep(r)
  BY <1>4 DEF RejectBusy, RequireReconfirmation, OperatorStep, Admit, CancelRun,
     CancelWaitingChild, ContinueRun, ReconfirmLine, CloseAttention
<1>5. ASSUME NEW k, NEW n, \/ ReadHeartbeatClock(r, k) \/ RenewLease(r, k)
                          \/ AdvanceCoverage(r, k, n)
      PROVE  segments' = segments
  BY <1>5 DEF ReadHeartbeatClock, RenewLease, AdvanceCoverage
<1>6. ASSUME NEW k, NEW o \in Reported, CommitTerminal(r, k, o)
      PROVE  Len(segments'[r]) = Len(segments[r])
  BY <1>1, <1>6, FinishedLength DEF CommitTerminal
<1>7. ASSUME NEW k, MarkExecutorUnknown(r, k)
      PROVE  Len(segments'[r]) = Len(segments[r])
  <2>1. segments'[r] = segments[r]
        \/ segments'[r] = Finished(r, "interrupted", "indeterminate")
    BY <1>7 DEF MarkExecutorUnknown, ExpireOne, LoseExecutors
  <2> QED
    BY <1>1, <2>1, FinishedLength
<1> QED
  BY <1>3, <1>4, <1>5, <1>6, <1>7 DEF ExecutorStep

\* A run whose cancellation was acknowledged is not started, not even after its
\* executor was lost and an operator decided about it (control_plane.py).
THEOREM CancelledRunsStayStopped == RunSpec => CancelledNeverRestarts
<1>1. ASSUME HistoryInv, RunNext, NEW r \in Run, runs[r].cancelRequested
      PROVE  Len(segments'[r]) = Len(segments[r])
  <2>1. ASSUME NEW p \in Run, ExecutorStep(p) \/ OperatorStep(p)
        PROVE  Len(segments'[r]) = Len(segments[r])
    <3>1. CASE p = r
      BY <1>1, <2>1, <3>1, CancelledNotStarted
    <3>2. CASE p # r
      BY <1>1, <2>1, <3>2, OneRunRows DEF HistoryInv
    <3> QED
      BY <3>1, <3>2
  <2>2. ASSUME ExpireLeases \/ RestartRuns
        PROVE  Len(segments'[r]) = Len(segments[r])
    <3>1. segments'[r] = segments[r]
          \/ segments'[r] = Finished(r, "interrupted", "indeterminate")
      BY <2>2 DEF ExpireLeases, ExpireOne, RestartRuns, RestartRunRows, LoseExecutors
    <3> QED
      BY <1>1, <3>1, FinishedLength DEF HistoryInv, RunInv
  <2> QED
    BY <1>1, <2>1, <2>2, StepKinds
<1>2. HistoryInv /\ [RunNext]_runVars =>
         [\A r \in Run : runs[r].cancelRequested =>
            Len(segments'[r]) = Len(segments[r])]_runVars
  BY <1>1
<1> QED
  BY <1>2, RunHistoryInvariant, PTL DEF RunSpec, CancelledNeverRestarts

-----------------------------------------------------------------------------
(* Quarantine. *)

\* What a request or a decision does to the quarantined rows of the table.
LEMMA ClaimsWritten ==
    ASSUME HistoryInv, NEW p \in Run, ExecutorStep(p) \/ OperatorStep(p),
           NEW c \in claims, c.status = "quarantined", c \notin claims'
    PROVE  /\ c.owner = p
           /\ runs[p].state = "attention_required"
           /\ runs'[p].state \in {"queued", "closed"}
<1>1. /\ RunTypeOK
      /\ runs \in [Run -> RunRow]
      /\ ClaimsMatchState
      /\ c \in Claim
  BY DEF HistoryInv, RunInv, RunTypeOK, ClaimsTypeOK
<1>2. ASSUME c.owner = p
      PROVE  runs[p].state = "attention_required"
  <2>1. c \in Held(p)
    BY <1>2 DEF Held
  <2>2. runs[p].state # "leased"
    BY <1>1, <2>1 DEF ClaimsMatchState, HoldsExactly
  <2> QED
    BY <1>1, <2>1, <2>2 DEF ClaimsMatchState
<1>3. claims' # claims
  OBVIOUS
<1>4. ASSUME NEW e, StartExecution(p, e)
      PROVE  FALSE
  BY <1>4 DEF StartExecution, Claimed
<1>5. ASSUME NEW k, NEW o, CommitTerminal(p, k, o)
      PROVE  FALSE
  <2>1. runs[p].state = "leased" /\ claims' = Released({p})
    BY <1>5 DEF CommitTerminal, Fenced
  <2>2. c.owner = p
    BY <2>1 DEF Released
  <2> QED
    BY <1>2, <2>1, <2>2
<1>6. ASSUME NEW k, MarkExecutorUnknown(p, k)
      PROVE  FALSE
  <2>1. claims' = AfterLoss({p}) /\ leases[p] # NoLease
        /\ LoseExecutors({p}, "executor_unknown")
    BY <1>6 DEF MarkExecutorUnknown, ExpireOne, NoLease, Granted
  <2>2. claims' = Quarantined({p})
    BY <2>1, LossFacts DEF HistoryInv
  <2>3. c.owner = p
    BY <2>2 DEF Quarantined
  <2>4. runs[p].state = "leased"
    BY <2>1 DEF HistoryInv, RunInv, LeasesMatch
  <2> QED
    BY <1>2, <2>3, <2>4
<1>7. ASSUME CancelRun(p) \/ CancelWaitingChild(p)
      PROVE  FALSE
  <2>1. CancelQueued(p)
    BY <1>3, <1>7 DEF CancelRun, CancelWaitingChild
  <2>2. runs[p].state = "queued" /\ c.owner = p
    BY <2>1 DEF CancelQueued, Released
  <2> QED
    BY <1>2, <2>2
<1>8. CASE ContinueRun(p) \/ \E key \in Key : ReconfirmLine(p, key)
  <2>1. claims' = Released({p}) /\ runs[p].state = "attention_required"
        /\ runs' = [runs EXCEPT ![p] = WithState(runs[p], "queued", "none")]
    BY <1>8 DEF ContinueRun, ReconfirmLine, MayContinue
  <2>2. c.owner = p
    BY <2>1 DEF Released
  <2>3. runs'[p].state = "queued"
    BY <1>1, <2>1, WithStateRow
  <2> QED
    BY <2>1, <2>2, <2>3
<1>9. CASE CloseAttention(p)
  <2>1. claims' = Released({p}) /\ runs[p].state = "attention_required"
    BY <1>9 DEF CloseAttention
  <2>2. c.owner = p
    BY <2>1 DEF Released
  <2>3. runs[p].outcome = NoOutcome
    BY <2>1 DEF HistoryInv, RowsOK, RowOK
  <2>4. runs'[p].state = "closed"
    BY <1>1, <1>9, <2>3, ClosedWithRow DEF CloseAttention
  <2> QED
    BY <2>1, <2>2, <2>4
<1>10. ASSUME NEW e, NEW k, NEW n,
              \/ RetryStart(p, e) \/ RejectBusy(p) \/ RequireReconfirmation(p)
              \/ ReadHeartbeatClock(p, k) \/ RenewLease(p, k) \/ AdvanceCoverage(p, k, n)
              \/ Admit(p)
       PROVE  FALSE
  BY <1>3, <1>10 DEF RetryStart, RejectBusy, RequireReconfirmation, ReadHeartbeatClock,
     RenewLease, AdvanceCoverage, Admit
<1> QED
  BY <1>4, <1>5, <1>6, <1>7, <1>8, <1>9, <1>10 DEF ExecutorStep, OperatorStep

\* Quarantined resources of a run are given back by a decision about that run
\* alone: not by time, a restart, or what happens to others (control_plane.py).
THEOREM QuarantineIsDecided == RunSpec => QuarantineNeedsDecision
<1>1. ASSUME HistoryInv, RunNext, NEW r \in Run, NEW c \in Held(r) \ claims',
             c.status = "quarantined"
      PROVE  /\ runs[r].state = "attention_required"
             /\ runs'[r].state \in {"queued", "closed"}
  <2>1. c \in claims /\ c.owner = r /\ c \notin claims'
    BY <1>1 DEF Held
  <2>2. ASSUME NEW p \in Run, ExecutorStep(p) \/ OperatorStep(p)
        PROVE  /\ runs[r].state = "attention_required"
               /\ runs'[r].state \in {"queued", "closed"}
    BY <1>1, <2>1, <2>2, ClaimsWritten
  <2>3. ASSUME ExpireLeases \/ RestartRuns
        PROVE  FALSE
    <3>1. PICK S \in SUBSET Run, why \in {"executor_unknown", "executor_lease_expired",
                                         "daemon_restarted"} :
             /\ LoseExecutors(S, why) /\ claims' = AfterLoss(S)
             /\ \A p \in S : p \in Run /\ leases[p] # NoLease
      BY <1>1, <2>3, LossSteps DEF HistoryInv
    <3>2. claims' = Quarantined(S) /\ \A p \in S : runs[p].state = "leased"
      BY <1>1, <3>1, LossFacts DEF HistoryInv
    <3>3. r \in S
      BY <2>1, <3>2 DEF Quarantined
    <3>4. HoldsExactly(r, "active")
      BY <1>1, <3>2, <3>3 DEF HistoryInv, RunInv, ClaimsMatchState
    <3> QED
      BY <1>1, <3>4 DEF HoldsExactly
  <2> QED
    BY <1>1, <2>1, <2>2, <2>3, StepKinds
<1>2. HistoryInv /\ [RunNext]_runVars =>
         [\A r \in Run : \A c \in Held(r) \ claims' :
            c.status = "quarantined" =>
               /\ runs[r].state = "attention_required"
               /\ runs'[r].state \in {"queued", "closed"}]_runVars
  BY <1>1
<1> QED
  BY <1>2, RunHistoryInvariant, PTL DEF RunSpec, QuarantineNeedsDecision

-----------------------------------------------------------------------------
(* Fencing. *)

\* What a request or a decision about a run may write into its evidence, and
\* which reason it may leave.
LEMMA EvidenceWritten ==
    ASSUME HistoryInv, NEW r \in Run, ExecutorStep(r) \/ OperatorStep(r)
    PROVE  /\ covered'[r] # covered[r] \/ runs'[r].outcome.by # runs[r].outcome.by =>
                 runs[r].state = "leased" /\ ~leases[r].expired
           /\ runs[r].state = "leased" => runs'[r].reason # "executor_lease_expired"
<1> DEFINE Quiet == /\ covered' = covered
                    /\ runs'[r].outcome.by = runs[r].outcome.by
                    /\ runs[r].state = "leased" =>
                          runs'[r].reason # "executor_lease_expired"
<1>1. /\ RunTypeOK
      /\ runs \in [Run -> RunRow]
      /\ runs[r] \in RunRow
      /\ RowOK(runs[r])
  BY DEF HistoryInv, RunInv, RunTypeOK, RowsOK
<1>2. ASSUME UNCHANGED <<runs, covered>>
      PROVE  Quiet
  BY <1>1, <1>2 DEF RowOK
<1>3. ASSUME NEW s, NEW why, why # "executor_lease_expired", covered' = covered,
             runs' = [runs EXCEPT ![r] = WithState(runs[r], s, why)]
      PROVE  Quiet
  BY <1>1, <1>3, WithStateRow
<1>4. ASSUME NEW o, o.by = 0, runs[r].state # "closed", covered' = covered,
             runs' = [runs EXCEPT ![r] = ClosedWith(r, o)]
      PROVE  Quiet
  <2>1. runs[r].outcome = NoOutcome
    BY <1>1, <1>4 DEF RowOK
  <2>2. runs'[r].outcome = o /\ runs'[r].reason = "none"
    BY <1>1, <1>4, <2>1, ClosedWithRow
  <2> QED
    BY <1>4, <2>1, <2>2, NoOutcomeFields
<1>5. ASSUME NEW e, StartExecution(r, e) \/ RequireReconfirmation(r) \/ ContinueRun(r)
      PROVE  Quiet
  BY <1>3, <1>5 DEF StartExecution, RequireReconfirmation, ContinueRun
<1>6. ASSUME NEW key, ReconfirmLine(r, key)
      PROVE  Quiet
  BY <1>3, <1>6 DEF ReconfirmLine
<1>7. ASSUME NEW e, NEW k, \/ RetryStart(r, e) \/ ReadHeartbeatClock(r, k)
                          \/ RenewLease(r, k)
      PROVE  Quiet
  BY <1>2, <1>7 DEF RetryStart, ReadHeartbeatClock, RenewLease
<1>8. CASE RejectBusy(r) \/ CloseAttention(r)
  <2>1. Quiet
    BY <1>4, <1>8 DEF RejectBusy, Startable, CloseAttention
  <2> QED
    BY <2>1
<1>9. ASSUME CancelQueued(r), covered' = covered
      PROVE  Quiet
  <2>1. ClosedWith(r, Cancelled) \in RunRow
    BY <1>1, ClosedWithType DEF Cancelled, Outcome, Certainty
  <2>2. runs[r].outcome = NoOutcome /\ runs[r].state # "leased"
    BY <1>1, <1>9 DEF CancelQueued, RowOK
  <2>3. runs'[r].outcome = Cancelled
    BY <1>1, <1>9, <2>1, <2>2, ClosedWithRow DEF CancelQueued, RunRow
  <2> QED
    BY <1>9, <2>2, <2>3, NoOutcomeFields DEF Cancelled
<1>10. ASSUME CancelRun(r) \/ CancelWaitingChild(r)
       PROVE  Quiet
  <2>1. CASE runs[r].state = "leased" /\ covered' = covered
             /\ runs' = [runs EXCEPT ![r].cancelRequested = TRUE]
    BY <1>1, <2>1 DEF RunRow, RowOK
  <2> QED
    BY <1>9, <1>10, <2>1 DEF CancelRun, CancelWaitingChild
<1>11. ASSUME Admit(r)
       PROVE  Quiet
  BY <1>1, <1>11 DEF Admit, RunRow
<1>12. ASSUME NEW k, MarkExecutorUnknown(r, k)
       PROVE  Quiet
  <2>1. covered' = covered
        /\ (runs'[r] = runs[r]
             \/ runs'[r] = WithState(runs[r], "attention_required", "executor_unknown"))
    BY <1>12 DEF MarkExecutorUnknown, ExpireOne, LoseExecutors
  <2> QED
    BY <1>1, <2>1, WithStateRow DEF RowOK
<1>13. ASSUME NEW k, NEW n, AdvanceCoverage(r, k, n)
       PROVE  runs' = runs /\ runs[r].state = "leased" /\ ~leases[r].expired
  BY <1>13 DEF AdvanceCoverage, Fenced, Live
<1>14. ASSUME NEW k, NEW o, CommitTerminal(r, k, o)
       PROVE  /\ runs[r].state = "leased" /\ ~leases[r].expired
              /\ runs'[r].reason = "none"
  <2>1. runs[r].state = "leased" /\ ~leases[r].expired
    BY <1>14 DEF CommitTerminal, Fenced, Live
  <2>2. runs[r].outcome = NoOutcome
    BY <1>1, <2>1 DEF RowOK
  <2> QED
    BY <1>1, <1>14, <2>1, <2>2, ClosedWithRow DEF CommitTerminal
<1>15. CASE OperatorStep(r)
  BY <1>5, <1>6, <1>8, <1>10, <1>11, <1>15 DEF OperatorStep
<1>16. CASE ExecutorStep(r)
  BY <1>1, <1>5, <1>7, <1>8, <1>12, <1>13, <1>14, <1>16 DEF ExecutorStep, RowOK
<1> QED
  BY <1>15, <1>16

\* A lost executor's run keeps its evidence.
LEMMA LossWrites ==
    ASSUME HistoryInv, ExpireLeases \/ RestartRuns, NEW r \in Run
    PROVE  /\ covered' = covered /\ runs'[r].outcome = runs[r].outcome
           /\ runs[r].state = "leased" /\ runs'[r].reason = "executor_lease_expired" =>
                 leases[r].expired
<1>1. runs[r] \in RunRow /\ RowOK(runs[r]) /\ LeaseOK(leases[r])
  BY DEF HistoryInv, RunInv, RunTypeOK, RowsOK
<1>2. PICK S \in SUBSET Run, why \in {"executor_unknown", "executor_lease_expired",
                                     "daemon_restarted"} :
         /\ LoseExecutors(S, why) /\ covered' = covered
         /\ \A p \in S : p \in Run /\ leases[p] # NoLease
         /\ why = "executor_lease_expired" => \A p \in S : StillExpired(p)
  BY LossSteps DEF HistoryInv
<1>3. CASE r \in S
  <2>1. runs'[r] = WithState(runs[r], "attention_required", why)
    BY <1>2, <1>3, LossFacts DEF HistoryInv
  <2> QED
    BY <1>1, <1>2, <1>3, <2>1, WithStateRow DEF StillExpired, LeaseOK
<1>4. CASE r \notin S
  <2>1. runs'[r] = runs[r]
    BY <1>2, <1>4, LossFacts DEF HistoryInv
  <2> QED
    BY <1>1, <1>2, <2>1 DEF RowOK
<1> QED
  BY <1>3, <1>4

\* Both fencing properties of one step.
LEMMA FencedStep ==
    ASSUME HistoryInv, RunNext, NEW r \in Run
    PROVE  /\ covered'[r] # covered[r] \/ runs'[r].outcome.by # runs[r].outcome.by =>
                 runs[r].state = "leased" /\ ~leases[r].expired
           /\ runs[r].state = "leased" /\ runs'[r].reason = "executor_lease_expired" =>
                 leases[r].expired
<1>1. RowOK(runs[r])
  BY DEF HistoryInv, RowsOK
<1>2. ASSUME NEW p \in Run, p # r, ExecutorStep(p) \/ OperatorStep(p)
      PROVE  runs'[r] = runs[r] /\ covered'[r] = covered[r]
  BY <1>2, OneRunRows DEF HistoryInv
<1>3. CASE ExpireLeases \/ RestartRuns
  BY <1>3, LossWrites
<1>4. CASE runs'[r] = runs[r] /\ covered'[r] = covered[r]
  BY <1>1, <1>4 DEF RowOK
<1>5. CASE ExecutorStep(r) \/ OperatorStep(r)
  BY <1>5, EvidenceWritten
<1> QED
  BY <1>2, <1>3, <1>4, <1>5, StepKinds

\* Points and outcomes are recorded while the lease of the writer runs, however
\* late the request comes (fenced_transaction in control_plane.py).
THEOREM LateWritesAreRefused == RunSpec => WritesAreFenced
<1>1. HistoryInv /\ [RunNext]_runVars =>
         [\A r \in Run :
            covered'[r] # covered[r] \/ runs'[r].outcome.by # runs[r].outcome.by =>
               runs[r].state = "leased" /\ ~leases[r].expired]_runVars
  BY FencedStep
<1> QED
  BY <1>1, RunHistoryInvariant, PTL DEF RunSpec, WritesAreFenced

\* An executor that renewed after the supervisor listed it is not fenced
\* (expire_executor_leases in control_plane.py).
THEOREM RenewedExecutorsAreSpared == RunSpec => RenewedIsSpared
<1>1. HistoryInv /\ [RunNext]_runVars =>
         [\A r \in Run :
            runs[r].state = "leased" /\ runs'[r].reason = "executor_lease_expired" =>
               leases[r].expired]_runVars
  BY FencedStep
<1> QED
  BY <1>1, RunHistoryInvariant, PTL DEF RunSpec, RenewedIsSpared

-----------------------------------------------------------------------------
(* Which execution the points and the outcome of a run belong to.          *)

(***************************************************************************)
(* The cuts of the coverage cov of one run by its segments.  Beside what   *)
(* CoverageAttributed says, no cut lies beyond what is covered: that is    *)
(* what keeps new points out of the intervals of segments that have ended, *)
(* and a run without segments has no points, so that the first one starts  *)
(* at 0.                                                                   *)
(***************************************************************************)
Reach(seg, cov) == IF seg.result = "running" THEN Len(cov) ELSE seg.end

Cut(segs, cov, k) ==
    /\ segs[k].start = IF k = 1 THEN 0 ELSE segs[k - 1].end
    /\ segs[k].start <= Len(cov)
    /\ Reach(segs[k], cov) <= Len(cov)
    /\ k = Len(segs) => Reach(segs[k], cov) = Len(cov)
    /\ \A i \in (segs[k].start + 1)..Reach(segs[k], cov) : cov[i] = k

CutsOK(segs, cov) ==
    /\ \A k \in 1..Len(segs) : Cut(segs, cov, k)
    /\ segs = <<>> => cov = <<>>

CutsEach == \A r \in Run : CutsOK(segments[r], covered[r])

LEMMA CutsImplies ==
    ASSUME CutsEach
    PROVE  CoverageAttributed
BY DEF CutsEach, CutsOK, Cut, Reach, CoverageAttributed, Coverage

\* A segment is told to another executor, or nothing happens to the run.
LEMMA CutsStay ==
    ASSUME NEW segs \in Seq(Segment), NEW new \in Seq(Segment), NEW cov \in Seq(Nat),
           CutsOK(segs, cov), Len(new) = Len(segs),
           \A k \in 1..Len(segs) : /\ new[k].start = segs[k].start
                                   /\ new[k].end = segs[k].end
                                   /\ new[k].result = segs[k].result
    PROVE  CutsOK(new, cov)
<1>1. \A k \in 1..Len(segs) : k # 1 => k - 1 \in 1..Len(segs)
  OBVIOUS
<1>2. \A k \in 1..Len(segs) : Reach(new[k], cov) = Reach(segs[k], cov)
  BY DEF Reach
<1>3. \A k \in 1..Len(segs) : Cut(new, cov, k)
  BY <1>1, <1>2 DEF CutsOK, Cut
<1>4. new = <<>> => segs = <<>>
  OBVIOUS
<1> QED
  BY <1>3, <1>4 DEF CutsOK

\* The last segment, under way until now, ends where the coverage does.
LEMMA CutsEnd ==
    ASSUME NEW segs \in Seq(Segment), NEW cov \in Seq(Nat), CutsOK(segs, cov),
           segs # <<>>, segs[Len(segs)].result = "running",
           NEW seg, seg.start = segs[Len(segs)].start, seg.end = Len(cov),
           seg.result # "running",
           NEW new, new = [segs EXCEPT ![Len(segs)] = seg]
    PROVE  CutsOK(new, cov)
<1> DEFINE n == Len(segs)
<1>1. n \in 1..n /\ Len(new) = n /\ new[n] = seg
      /\ \A k \in 1..n : k # n => new[k] = segs[k]
  OBVIOUS
<1>2. ASSUME NEW k \in 1..n
      PROVE  /\ Reach(new[k], cov) = Reach(segs[k], cov)
             /\ new[k].start = segs[k].start
             /\ k # 1 => k - 1 \in 1..n /\ new[k - 1] = segs[k - 1]
  <2>1. Reach(segs[n], cov) = Len(cov) /\ Reach(new[n], cov) = Len(cov)
    BY <1>1 DEF Reach
  <2>2. k # 1 => k - 1 \in 1..n /\ k - 1 # n
    OBVIOUS
  <2> QED
    BY <1>1, <2>1, <2>2
<1>3. ASSUME NEW k \in 1..n
      PROVE  Cut(new, cov, k)
  <2>1. Cut(segs, cov, k)
    BY DEF CutsOK
  <2>2. CASE k = n
    <3>1. Reach(new[k], cov) = Len(cov)
      BY <1>1, <2>2 DEF Reach
    <3> QED
      BY <1>1, <1>2, <2>1, <2>2, <3>1 DEF Cut
  <2>3. CASE k # n
    BY <1>1, <1>2, <2>1, <2>3 DEF Cut
  <2> QED
    BY <2>2, <2>3
<1>4. new # <<>>
  BY <1>1
<1> QED
  BY <1>1, <1>3, <1>4 DEF CutsOK

\* A new segment starts where the coverage ends; the one before it has ended there.
LEMMA CutsBegin ==
    ASSUME NEW segs \in Seq(Segment), NEW cov \in Seq(Nat), CutsOK(segs, cov),
           \A k \in 1..Len(segs) : segs[k].result # "running",
           NEW seg, seg.start = Len(cov), seg.result = "running",
           NEW new, new = Append(segs, seg)
    PROVE  CutsOK(new, cov)
<1> DEFINE n == Len(segs)
<1>1. n \in Nat /\ Len(new) = n + 1 /\ new[n + 1] = seg
      /\ \A k \in 1..n : new[k] = segs[k]
  OBVIOUS
<1>2. ASSUME NEW k \in 1..n
      PROVE  Cut(new, cov, k)
  <2>1. k # n + 1 /\ new[k] = segs[k] /\ (k # 1 => new[k - 1] = segs[k - 1])
    BY <1>1
  <2>2. Cut(segs, cov, k)
    BY DEF CutsOK
  <2> QED
    BY <1>1, <2>1, <2>2 DEF Cut
<1>3. Len(cov) = IF n + 1 = 1 THEN 0 ELSE new[n].end
  <2>1. CASE n = 0
    <3>1. cov = <<>>
      BY <2>1 DEF CutsOK
    <3> QED
      BY <2>1, <3>1
  <2>2. CASE n # 0
    <3>1. n \in 1..n /\ new[n] = segs[n]
      BY <1>1, <2>2
    <3>2. segs[n].end = Len(cov)
      BY <3>1 DEF CutsOK, Cut, Reach
    <3> QED
      BY <1>1, <2>2, <3>1, <3>2
  <2> QED
    BY <2>1, <2>2
<1>4. Reach(seg, cov) = Len(cov) /\ Len(cov) \in Nat
  BY DEF Reach
<1>5. Cut(new, cov, n + 1)
  <2>1. n + 1 # 1 => (n + 1) - 1 = n
    BY <1>1
  <2>2. \A i \in (Len(cov) + 1)..Len(cov) : cov[i] = n + 1
    BY <1>4
  <2>3. new[n + 1].start = IF n + 1 = 1 THEN 0 ELSE new[(n + 1) - 1].end
    BY <1>1, <1>3, <2>1
  <2> QED
    BY <1>1, <1>4, <2>2, <2>3 DEF Cut
<1>6. new # <<>>
  BY <1>1
<1> QED
  BY <1>1, <1>2, <1>5, <1>6 DEF CutsOK

\* The execution under way reports points: they fall into its own interval.
LEMMA CutsGrow ==
    ASSUME NEW segs \in Seq(Segment), NEW cov \in Seq(Nat), CutsOK(segs, cov),
           segs # <<>>,
           \A k \in 1..Len(segs) : segs[k].result = "running" <=> k = Len(segs),
           NEW m \in Nat, NEW new, new = cov \o [i \in 1..m |-> Len(segs)]
    PROVE  CutsOK(segs, new)
<1> DEFINE n == Len(segs)
           more == [i \in 1..m |-> n]
<1>1. n \in 1..n /\ more \in Seq(Nat) /\ Len(more) = m /\ Len(cov) \in Nat
  OBVIOUS
<1>2. /\ Len(new) = Len(cov) + m
      /\ \A i \in 1..Len(cov) : new[i] = cov[i]
      /\ \A i \in (Len(cov) + 1)..(Len(cov) + m) : new[i] = n
  BY <1>1
<1> HIDE DEF more
<1>3. ASSUME NEW k \in 1..n
      PROVE  Cut(segs, new, k)
  <2>1. Cut(segs, cov, k)
    BY DEF CutsOK
  <2>2. segs[k] \in Segment
    OBVIOUS
  <2>3. segs[k].start \in Nat /\ segs[k].end \in Nat
    BY <2>2 DEF Segment
  <2>4. CASE k = n
    <3>1. Reach(segs[k], new) = Len(cov) + m /\ Reach(segs[k], cov) = Len(cov)
      BY <1>1, <1>2, <2>4 DEF Reach
    <3>2. ASSUME NEW i \in (segs[k].start + 1)..(Len(cov) + m)
          PROVE  new[i] = k
      <4>1. CASE i <= Len(cov)
        <5>1. i \in 1..Len(cov) /\ i \in (segs[k].start + 1)..Len(cov)
          BY <1>1, <2>3, <4>1
        <5> QED
          BY <1>2, <2>1, <3>1, <5>1 DEF Cut
      <4>2. CASE ~(i <= Len(cov))
        <5>1. i \in (Len(cov) + 1)..(Len(cov) + m)
          BY <1>1, <2>3, <4>2
        <5> QED
          BY <1>2, <2>4, <5>1
      <4> QED
        BY <4>1, <4>2
    <3>3. \A i \in (segs[k].start + 1)..Reach(segs[k], new) : new[i] = k
      BY <3>1, <3>2
    <3>4. /\ segs[k].start <= Len(new)
          /\ Reach(segs[k], new) <= Len(new)
          /\ Reach(segs[k], new) = Len(new)
      BY <1>1, <1>2, <2>1, <2>3, <3>1 DEF Cut
    <3> QED
      BY <2>1, <3>3, <3>4, Zenon DEF Cut
  <2>5. CASE k # n
    <3>1. Reach(segs[k], new) = segs[k].end /\ Reach(segs[k], cov) = segs[k].end
      BY <2>5 DEF Reach
    <3>2. ASSUME NEW i \in (segs[k].start + 1)..segs[k].end
          PROVE  new[i] = k
      <4>1. i \in 1..Len(cov)
        BY <1>1, <2>1, <2>3, <3>1 DEF Cut
      <4> QED
        BY <1>2, <2>1, <3>1, <4>1 DEF Cut
    <3>3. \A i \in (segs[k].start + 1)..Reach(segs[k], new) : new[i] = k
      BY <3>1, <3>2
    <3>4. segs[k].start <= Len(new) /\ Reach(segs[k], new) <= Len(new)
      BY <1>1, <1>2, <2>1, <2>3, <3>1 DEF Cut
    <3> QED
      BY <2>1, <2>5, <3>3, <3>4, Zenon DEF Cut
  <2> QED
    BY <2>4, <2>5
<1> QED
  BY <1>3 DEF CutsOK

-----------------------------------------------------------------------------
(* The transactions that write segments or coverage. *)

CoverageInv == ExecutionInv /\ CutsEach

LEMMA CoverageTypes ==
    ASSUME CoverageInv
    PROVE  /\ RunTypeOK
           /\ segments \in [Run -> Seq(Segment)]
           /\ covered \in [Run -> Seq(Nat)]
           /\ \A r \in Run : CutsOK(segments[r], covered[r])
BY DEF CoverageInv, CutsEach, ExecutionInv, RunInv, RunTypeOK

\* What is under way in a leased run is its last segment.
LEMMA LastIsUnderWay ==
    ASSUME ExecutionInv, NEW r \in Run, runs[r].state = "leased"
    PROVE  /\ segments[r] # <<>>
           /\ leases[r].segment = Len(segments[r])
           /\ \A k \in 1..Len(segments[r]) :
                 segments[r][k].result = "running" <=> k = Len(segments[r])
<1>1. leases[r].segment # 0 /\ leases[r] # NoLease
  BY NoLeaseFields DEF ExecutionInv, RunInv, LeasesMatch
<1>2. leases[r].segment = Len(segments[r])
  BY <1>1 DEF ExecutionInv, OneExecutionEach, OneExecution
<1> QED
  BY <1>1, <1>2 DEF ExecutionInv, OneExecutionEach, OneExecution

\* Ending the execution of a leased run only writes its last segment.
LEMMA EndedSegment ==
    ASSUME ExecutionInv, NEW r \in Run, runs[r].state = "leased",
           NEW result, NEW certainty
    PROVE  \E seg : /\ seg.runtime = segments[r][Len(segments[r])].runtime
                    /\ seg.start = segments[r][Len(segments[r])].start
                    /\ seg.end = Coverage(r)
                    /\ seg.result = result
                    /\ Finished(r, result, certainty) =
                          [segments[r] EXCEPT ![Len(segments[r])] = seg]
<1> DEFINE n == Len(segments[r])
           seg == [segments[r][n] EXCEPT !.end = Coverage(r), !.result = result,
                                         !.certainty = certainty]
<1>1. segments[r] \in Seq(Segment) /\ segments[r] # <<>>
  BY LastIsUnderWay DEF ExecutionInv, RunInv, RunTypeOK
<1>2. segments[r][n] \in Segment
  BY <1>1
<1>3. /\ seg.runtime = segments[r][n].runtime /\ seg.start = segments[r][n].start
      /\ seg.end = Coverage(r) /\ seg.result = result
  BY <1>2 DEF Segment
<1>4. Finished(r, result, certainty) = [segments[r] EXCEPT ![n] = seg]
  BY <1>1, <1>2 DEF Finished
<1> HIDE DEF seg
<1> QED
  BY <1>3, <1>4

LEMMA EndedCuts ==
    ASSUME CoverageInv, NEW r \in Run, runs[r].state = "leased",
           NEW result, result # "running", NEW certainty,
           segments'[r] = Finished(r, result, certainty), covered'[r] = covered[r]
    PROVE  CutsOK(segments'[r], covered'[r])
<1>1. /\ segments[r] \in Seq(Segment) /\ covered[r] \in Seq(Nat)
      /\ CutsOK(segments[r], covered[r])
  BY CoverageTypes
<1>2. segments[r] # <<>> /\ segments[r][Len(segments[r])].result = "running"
  BY <1>1, LastIsUnderWay DEF CoverageInv
<1>3. PICK seg : /\ seg.start = segments[r][Len(segments[r])].start
                 /\ seg.end = Coverage(r)
                 /\ seg.result = result
                 /\ segments'[r] = [segments[r] EXCEPT ![Len(segments[r])] = seg]
  BY EndedSegment DEF CoverageInv
<1>4. seg.end = Len(covered[r]) /\ seg.result # "running"
  BY <1>3 DEF Coverage
<1> QED
  BY <1>1, <1>2, <1>3, <1>4, CutsEnd

LEMMA StartCuts ==
    ASSUME CoverageInv, NEW r \in Run, NEW e \in Executor, StartExecution(r, e)
    PROVE  CutsEach'
<1> DEFINE seg == [holders |-> {e}, runtime |-> runtime, start |-> Coverage(r),
                   end |-> 0, result |-> "running", certainty |-> "known"]
<1>1. segments'[r] = Append(segments[r], seg) /\ covered' = covered
      /\ \A p \in Run \ {r} : segments'[p] = segments[p]
  BY CoverageTypes DEF StartExecution
<1>2. seg.start = Len(covered[r]) /\ seg.result = "running"
  BY DEF Coverage
<1> HIDE DEF seg
<1>3. leases[r] = NoLease
  BY DEF CoverageInv, ExecutionInv, RunInv, LeasesMatch, StartExecution, Startable
<1>4. \A k \in 1..Len(segments[r]) : segments[r][k].result # "running"
  BY <1>3, CoverageTypes, NoLeaseFields
     DEF CoverageInv, ExecutionInv, OneExecutionEach, OneExecution
<1>5. CutsOK(segments'[r], covered'[r])
  BY <1>1, <1>2, <1>4, CoverageTypes, CutsBegin
<1> QED
  BY <1>1, <1>5, CoverageTypes DEF CutsEach

\* A retried start tells the last segment to one more executor.
LEMMA RetrySegments ==
    ASSUME ExecutionInv, NEW r \in Run, NEW e \in Executor, RetryStart(r, e)
    PROVE  /\ \A p \in Run \ {r} : segments'[p] = segments[p]
           /\ segments'[r] \in Seq(Segment)
           /\ Len(segments'[r]) = Len(segments[r])
           /\ \A k \in 1..Len(segments[r]) :
                 /\ segments'[r][k].runtime = segments[r][k].runtime
                 /\ segments'[r][k].start = segments[r][k].start
                 /\ segments'[r][k].end = segments[r][k].end
                 /\ segments'[r][k].result = segments[r][k].result
<1> DEFINE n == Len(segments[r])
           seg == [segments[r][n] EXCEPT !.holders = @ \cup {e}]
<1>1. segments \in [Run -> Seq(Segment)] /\ runs[r].state = "leased"
  BY DEF ExecutionInv, RunInv, RunTypeOK, RetryStart, SameIntent, Fenced
<1>2. leases[r].segment = n /\ n \in 1..n
  BY <1>1, LastIsUnderWay
<1>3. segments[r][n] \in Segment
  BY <1>1, <1>2
<1>4. /\ seg \in Segment
      /\ seg.runtime = segments[r][n].runtime
      /\ seg.start = segments[r][n].start
      /\ seg.end = segments[r][n].end
      /\ seg.result = segments[r][n].result
  BY <1>3 DEF Segment
<1>5. segments'[r] = [segments[r] EXCEPT ![n] = seg]
      /\ \A p \in Run \ {r} : segments'[p] = segments[p]
  BY <1>1, <1>2 DEF RetryStart
<1> HIDE DEF seg
<1> QED
  BY <1>1, <1>2, <1>4, <1>5

LEMMA RetryCuts ==
    ASSUME CoverageInv, NEW r \in Run, NEW e \in Executor, RetryStart(r, e)
    PROVE  CutsEach'
<1>1. covered' = covered
  BY DEF RetryStart
<1>2. /\ \A p \in Run \ {r} : segments'[p] = segments[p]
      /\ segments'[r] \in Seq(Segment) /\ Len(segments'[r]) = Len(segments[r])
      /\ \A k \in 1..Len(segments[r]) : /\ segments'[r][k].start = segments[r][k].start
                                       /\ segments'[r][k].end = segments[r][k].end
                                       /\ segments'[r][k].result = segments[r][k].result
  BY RetrySegments DEF CoverageInv
<1>3. /\ segments[r] \in Seq(Segment) /\ covered[r] \in Seq(Nat)
      /\ CutsOK(segments[r], covered[r])
  BY CoverageTypes
<1>4. CutsOK(segments'[r], covered[r])
  BY <1>2, <1>3, CutsStay
<1>5. \A p \in Run \ {r} : CutsOK(segments'[p], covered[p])
  BY <1>2, CoverageTypes
<1> QED
  BY <1>1, <1>4, <1>5 DEF CutsEach

LEMMA AdvanceCuts ==
    ASSUME CoverageInv, NEW r \in Run, NEW k \in 1..Len(segments[r]),
           NEW m \in 1..PointCount, AdvanceCoverage(r, k, m)
    PROVE  CutsEach'
<1>1. runs[r].state = "leased" /\ k = leases[r].segment
  BY DEF AdvanceCoverage, Fenced, Live
<1>2. k = Len(segments[r])
  BY <1>1, LastIsUnderWay DEF CoverageInv
<1>3. m \in Nat
  BY RunControlAssumption
<1>4. covered'[r] = covered[r] \o [i \in 1..m |-> Len(segments[r])]
      /\ segments' = segments /\ \A p \in Run \ {r} : covered'[p] = covered[p]
  BY <1>2, CoverageTypes DEF AdvanceCoverage
<1>5. CutsOK(segments[r], covered'[r])
  BY <1>1, <1>3, <1>4, CoverageTypes, LastIsUnderWay, CutsGrow DEF CoverageInv
<1> QED
  BY <1>4, <1>5, CoverageTypes DEF CutsEach

LEMMA CommitCuts ==
    ASSUME CoverageInv, NEW r \in Run, NEW k, NEW o \in Reported,
           CommitTerminal(r, k, o)
    PROVE  CutsEach'
<1> DEFINE final == HonorCancellation(r, o)
<1>1. runs[r].state = "leased"
  BY DEF CommitTerminal, Fenced
<1>2. final[1] # "running"
  BY HonorCancellationType
<1>3. segments'[r] = Finished(r, final[1], final[2]) /\ covered' = covered
      /\ \A p \in Run \ {r} : segments'[p] = segments[p]
  BY CoverageTypes DEF CommitTerminal
<1> HIDE DEF final
<1>4. CutsOK(segments'[r], covered'[r])
  BY <1>1, <1>2, <1>3, EndedCuts
<1> QED
  BY <1>3, <1>4, CoverageTypes DEF CutsEach

LEMMA LossCuts ==
    ASSUME CoverageInv, NEW S, NEW why, LoseExecutors(S, why), covered' = covered
    PROVE  CutsEach'
<1>1. ASSUME NEW r \in Run, r \in Lost(S)
      PROVE  CutsOK(segments'[r], covered'[r])
  <2>1. segments'[r] = Finished(r, "interrupted", "indeterminate")
        /\ runs[r].state = "leased"
    BY <1>1 DEF LoseExecutors, Lost
  <2> QED
    BY <2>1, EndedCuts
<1>2. ASSUME NEW r \in Run, r \notin Lost(S)
      PROVE  CutsOK(segments'[r], covered'[r])
  BY <1>2, CoverageTypes DEF LoseExecutors
<1> QED
  BY <1>1, <1>2 DEF CutsEach

LEMMA QuietCuts ==
    ASSUME CoverageInv, UNCHANGED <<segments, covered>>
    PROVE  CutsEach'
BY DEF CoverageInv, CutsEach

LEMMA CoverageStep ==
    ASSUME CoverageInv, RunNext
    PROVE  CutsEach'
<1>1. ASSUME NEW r \in Run, ExecutorStep(r)
      PROVE  CutsEach'
  <2>1. ASSUME NEW e \in Executor, StartExecution(r, e) \/ RetryStart(r, e)
        PROVE  CutsEach'
    BY <2>1, StartCuts, RetryCuts
  <2>2. CASE RejectBusy(r) \/ RequireReconfirmation(r)
    BY <2>2, QuietCuts DEF RejectBusy, RequireReconfirmation
  <2>3. ASSUME NEW k \in 1..Len(segments[r]), ReadHeartbeatClock(r, k) \/ RenewLease(r, k)
        PROVE  CutsEach'
    BY <2>3, QuietCuts DEF ReadHeartbeatClock, RenewLease
  <2>4. ASSUME NEW k, MarkExecutorUnknown(r, k)
        PROVE  CutsEach'
    BY <2>4, LossCuts DEF MarkExecutorUnknown, ExpireOne
  <2> QED
    BY <1>1, <2>1, <2>2, <2>3, <2>4, AdvanceCuts, CommitCuts DEF ExecutorStep
<1>2. ASSUME NEW r \in Run, OperatorStep(r) \/ LapseLease(r)
      PROVE  CutsEach'
  BY <1>2, QuietCuts DEF OperatorStep, Admit, CancelRun, CancelWaitingChild, ContinueRun,
     ReconfirmLine, CloseAttention, LapseLease
<1>3. CASE ReadExpiredLeases
  BY <1>3, QuietCuts DEF ReadExpiredLeases
<1>4. CASE ExpireLeases
  BY <1>4, LossCuts DEF ExpireLeases, ExpireOne
<1>5. CASE RestartRuns
  BY <1>5, LossCuts DEF RestartRuns, RestartRunRows
<1> QED
  BY <1>1, <1>2, <1>3, <1>4, <1>5 DEF RunNext, RunStep

LEMMA ExecutionStep ==
    ASSUME ExecutionInv, [RunNext]_runVars
    PROVE  ExecutionInv'
<1>1. CASE RunNext
  BY <1>1, RunNextKeepsOne, RunInvStep DEF ExecutionInv
<1>2. CASE UNCHANGED runVars
  BY <1>2 DEF runVars, runOnlyVars, ExecutionInv, RunInv, RunTypeOK, ClaimsTypeOK,
     ExclusiveClaims, LeasesMatch, ClaimsMatchState, HoldsExactly, Held, WiringOnly,
     OneExecutionEach, OneExecution
<1> QED
  BY <1>1, <1>2

LEMMA ExecutionInit ==
    ASSUME RunInit
    PROVE  ExecutionInv
BY RunInitInv, NoLeaseFields DEF RunInit, ExecutionInv, OneExecutionEach, OneExecution

\* Every transaction of control_plane.py keeps the cuts of the coverage of each run.
THEOREM RunCoverageInvariant == RunSpec => []CoverageInv
<1>1. RunInit => CoverageInv
  <2> SUFFICES ASSUME RunInit PROVE CoverageInv
    OBVIOUS
  <2>1. CutsEach
    BY DEF RunInit, CutsEach, CutsOK
  <2> QED
    BY <2>1, ExecutionInit DEF CoverageInv
<1>2. CoverageInv /\ [RunNext]_runVars => CoverageInv'
  <2> SUFFICES ASSUME CoverageInv, [RunNext]_runVars PROVE CoverageInv'
    OBVIOUS
  <2>1. CASE RunNext
    BY <2>1, CoverageStep, ExecutionStep DEF CoverageInv
  <2>2. CASE UNCHANGED runVars
    BY <2>2, QuietCuts, ExecutionStep DEF CoverageInv, runVars, runOnlyVars
  <2> QED
    BY <2>1, <2>2
<1> QED
  BY <1>1, <1>2, PTL DEF RunSpec

\* The points of a run lie in the interval of the execution that reported them,
\* and the intervals follow one another (advance_run_coverage, control_plane.py).
THEOREM PointsBelongToTheirExecution == RunSpec => []CoverageAttributed
<1>1. CoverageInv => CoverageAttributed
  BY CutsImplies DEF CoverageInv
<1> QED
  BY <1>1, RunCoverageInvariant, PTL

-----------------------------------------------------------------------------
(***************************************************************************)
(* What OutcomeFromLastExecutor says of one run.  It is inductive: an open *)
(* run has no outcome and so no segment that succeeded, whoever closes it. *)
(***************************************************************************)
OutcomeOK(row, segs, cov) ==
    /\ row.outcome # NoOutcome <=> row.state = "closed"
    /\ row.outcome.by # 0 => /\ row.outcome.by = Len(segs)
                             /\ segs[row.outcome.by].result = row.outcome.result
    /\ row.outcome.result = "succeeded" => Len(cov) = PointCount /\ row.outcome.by # 0
    /\ \A k \in 1..Len(segs) : segs[k].result = "succeeded" => row.outcome.by = k

OutcomesOK == \A r \in Run : OutcomeOK(runs[r], segments[r], covered[r])

OutcomeInv == ExecutionInv /\ OutcomesOK

NoneSucceeded(segs) == \A k \in 1..Len(segs) : segs[k].result # "succeeded"

LEMMA OutcomesImply ==
    ASSUME OutcomesOK
    PROVE  OutcomeFromLastExecutor
BY DEF OutcomesOK, OutcomeOK, OutcomeFromLastExecutor, Coverage

LEMMA OpenHasNoOutcome ==
    ASSUME OutcomeInv, NEW r \in Run, runs[r].state # "closed"
    PROVE  runs[r].outcome = NoOutcome /\ NoneSucceeded(segments[r])
BY NoOutcomeFields DEF OutcomeInv, OutcomesOK, OutcomeOK, NoneSucceeded

LEMMA OpenOK ==
    ASSUME NEW row, row.state # "closed", row.outcome = NoOutcome,
           NEW segs, NoneSucceeded(segs), NEW cov
    PROVE  OutcomeOK(row, segs, cov)
BY NoOutcomeFields DEF OutcomeOK, NoneSucceeded

LEMMA ClosedByDaemonOK ==
    ASSUME NEW row, row.state = "closed", row.outcome.by = 0,
           row.outcome.result \in {"failed", "cancelled"},
           NEW segs, NoneSucceeded(segs), NEW cov
    PROVE  OutcomeOK(row, segs, cov)
BY NoOutcomeFields DEF OutcomeOK, NoneSucceeded

LEMMA OutcomeTypes ==
    ASSUME OutcomeInv
    PROVE  /\ RunTypeOK
           /\ runs \in [Run -> RunRow]
           /\ segments \in [Run -> Seq(Segment)]
           /\ covered \in [Run -> Seq(Nat)]
           /\ \A r \in Run : OutcomeOK(runs[r], segments[r], covered[r])
BY DEF OutcomeInv, OutcomesOK, ExecutionInv, RunInv, RunTypeOK

\* The execution of a leased run ends with this result.
LEMMA EndedResults ==
    ASSUME ExecutionInv, NEW r \in Run, runs[r].state = "leased",
           NoneSucceeded(segments[r]), NEW result, NEW certainty
    PROVE  /\ Len(Finished(r, result, certainty)) = Len(segments[r])
           /\ Finished(r, result, certainty)[Len(segments[r])].result = result
           /\ \A k \in 1..Len(segments[r]) : k # Len(segments[r]) =>
                 Finished(r, result, certainty)[k].result # "succeeded"
<1>1. segments[r] \in Seq(Segment) /\ segments[r] # <<>>
  BY LastIsUnderWay DEF ExecutionInv, RunInv, RunTypeOK
<1>2. PICK seg : /\ seg.result = result
                 /\ Finished(r, result, certainty) =
                       [segments[r] EXCEPT ![Len(segments[r])] = seg]
  BY EndedSegment
<1> QED
  BY <1>1, <1>2 DEF NoneSucceeded

\* A run that stays open, whose segments get no success.
LEMMA StaysOpen ==
    ASSUME OutcomeInv, NEW r \in Run, runs[r].state # "closed",
           runs'[r].state # "closed", runs'[r].outcome = runs[r].outcome,
           NoneSucceeded(segments'[r])
    PROVE  OutcomeOK(runs'[r], segments'[r], covered'[r])
BY OpenHasNoOutcome, OpenOK

\* One run stays open, nothing happens to the others.
LEMMA OneStaysOpen ==
    ASSUME OutcomeInv, NEW r \in Run, runs[r].state # "closed",
           runs'[r].state # "closed", runs'[r].outcome = runs[r].outcome,
           NoneSucceeded(segments'[r]),
           \A p \in Run \ {r} : /\ runs'[p] = runs[p]
                                /\ segments'[p] = segments[p]
                                /\ covered'[p] = covered[p]
    PROVE  OutcomesOK'
<1>1. OutcomeOK(runs'[r], segments'[r], covered'[r])
  BY StaysOpen
<1>2. \A p \in Run \ {r} : OutcomeOK(runs'[p], segments'[p], covered'[p])
  BY OutcomeTypes
<1> QED
  BY <1>1, <1>2 DEF OutcomesOK

\* One open run is closed by the daemon, without success.
LEMMA OneIsClosed ==
    ASSUME OutcomeInv, NEW r \in Run, runs[r].state # "closed", UNCHANGED segments,
           runs'[r].state = "closed", runs'[r].outcome.by = 0,
           runs'[r].outcome.result \in {"failed", "cancelled"},
           \A p \in Run \ {r} : runs'[p] = runs[p] /\ covered'[p] = covered[p]
    PROVE  OutcomesOK'
<1>1. OutcomeOK(runs'[r], segments'[r], covered'[r])
  BY OpenHasNoOutcome, ClosedByDaemonOK
<1>2. \A p \in Run \ {r} : OutcomeOK(runs'[p], segments'[p], covered'[p])
  BY OutcomeTypes
<1> QED
  BY <1>1, <1>2 DEF OutcomesOK

LEMMA SameOutcomes ==
    ASSUME OutcomeInv, UNCHANGED <<runs, segments, covered>>
    PROVE  OutcomesOK'
BY DEF OutcomeInv, OutcomesOK

-----------------------------------------------------------------------------
(* The transactions, by what they do to the outcome. *)

LEMMA StartOutcome ==
    ASSUME OutcomeInv, NEW r \in Run, NEW e \in Executor, StartExecution(r, e)
    PROVE  OutcomesOK'
<1> DEFINE seg == [holders |-> {e}, runtime |-> runtime, start |-> Coverage(r),
                   end |-> 0, result |-> "running", certainty |-> "known"]
           row == WithState(runs[r], "leased", "none")
<1>1. /\ segments'[r] = Append(segments[r], seg) /\ runs'[r] = row
      /\ \A p \in Run \ {r} : runs'[p] = runs[p] /\ segments'[p] = segments[p]
      /\ covered' = covered
  BY OutcomeTypes DEF StartExecution
<1>2. row.state = "leased" /\ row.outcome = runs[r].outcome
  BY OutcomeTypes, WithStateRow
<1>3. runs[r].state # "closed" /\ seg.result = "running"
  BY DEF StartExecution, Startable
<1> HIDE DEF seg, row
<1>4. NoneSucceeded(segments'[r])
  <2>1. NoneSucceeded(segments[r]) /\ segments[r] \in Seq(Segment)
    BY <1>3, OpenHasNoOutcome, OutcomeTypes
  <2> QED
    BY <1>1, <1>3, <2>1 DEF NoneSucceeded
<1> QED
  BY <1>1, <1>2, <1>3, <1>4, OneStaysOpen

LEMMA RetryOutcome ==
    ASSUME OutcomeInv, NEW r \in Run, NEW e \in Executor, RetryStart(r, e)
    PROVE  OutcomesOK'
<1>1. runs[r].state = "leased" /\ runs' = runs /\ covered' = covered
  BY DEF RetryStart, SameIntent, Fenced
<1>2. NoneSucceeded(segments'[r])
  BY <1>1, OpenHasNoOutcome, RetrySegments DEF OutcomeInv, NoneSucceeded
<1> QED
  BY <1>1, <1>2, RetrySegments, OneStaysOpen DEF OutcomeInv

LEMMA AdvanceOutcome ==
    ASSUME OutcomeInv, NEW r \in Run, NEW k, NEW m, AdvanceCoverage(r, k, m)
    PROVE  OutcomesOK'
<1>1. runs[r].state = "leased" /\ runs' = runs /\ segments' = segments
      /\ \A p \in Run \ {r} : covered'[p] = covered[p]
  BY OutcomeTypes DEF AdvanceCoverage, Fenced
<1> QED
  BY <1>1, OpenHasNoOutcome, OneStaysOpen

LEMMA CommitOutcome ==
    ASSUME OutcomeInv, NEW r \in Run, NEW k \in 1..Len(segments[r]), NEW o \in Reported,
           CommitTerminal(r, k, o)
    PROVE  OutcomesOK'
<1> DEFINE final == HonorCancellation(r, o)
           out == [result |-> final[1], certainty |-> final[2], by |-> k]
           row == ClosedWith(r, out)
<1>1. runs[r].state = "leased" /\ leases[r].segment = k
  BY DEF CommitTerminal, Fenced, Live
<1>2. k = Len(segments[r]) /\ k # 0
  BY <1>1, LastIsUnderWay, OutcomeTypes DEF OutcomeInv
<1>3. runs[r].outcome = NoOutcome /\ NoneSucceeded(segments[r])
  BY <1>1, OpenHasNoOutcome
<1>4. out.result = final[1] /\ out.by = k /\ final[1] \in {"succeeded", "failed", "cancelled"}
  BY HonorCancellationType
<1>5. row.state = "closed" /\ row.outcome = out
  BY <1>3, ClosedWithRow, OutcomeTypes
<1>6. /\ runs'[r] = row /\ segments'[r] = Finished(r, final[1], final[2])
      /\ final[1] = "succeeded" => Len(covered[r]) = PointCount
      /\ covered' = covered
      /\ \A p \in Run \ {r} : runs'[p] = runs[p] /\ segments'[p] = segments[p]
  BY OutcomeTypes DEF CommitTerminal, Complete, Coverage
<1> HIDE DEF final
<1> HIDE DEF out
<1> HIDE DEF row
<1>7. /\ Len(segments'[r]) = k /\ segments'[r][k].result = final[1]
      /\ \A j \in 1..k : j # k => segments'[r][j].result # "succeeded"
  BY <1>1, <1>2, <1>3, <1>6, EndedResults DEF OutcomeInv
<1>8. out # NoOutcome
  BY <1>4, NoOutcomeFields
<1>9. OutcomeOK(runs'[r], segments'[r], covered'[r])
  BY <1>2, <1>4, <1>5, <1>6, <1>7, <1>8 DEF OutcomeOK
<1>10. \A p \in Run \ {r} : OutcomeOK(runs'[p], segments'[p], covered'[p])
  BY <1>6, OutcomeTypes
<1> QED
  BY <1>9, <1>10 DEF OutcomesOK

LEMMA LossOutcome ==
    ASSUME OutcomeInv, NEW S, NEW why, LoseExecutors(S, why), covered' = covered
    PROVE  OutcomesOK'
<1>1. ASSUME NEW r \in Run, r \in Lost(S)
      PROVE  OutcomeOK(runs'[r], segments'[r], covered'[r])
  <2>1. /\ segments'[r] = Finished(r, "interrupted", "indeterminate")
        /\ runs'[r] = WithState(runs[r], "attention_required", why)
        /\ runs[r].state = "leased"
    BY <1>1 DEF LoseExecutors, Lost
  <2>2. runs'[r].state = "attention_required" /\ runs'[r].outcome = runs[r].outcome
    BY <2>1, OutcomeTypes, WithStateRow
  <2>3. NoneSucceeded(segments[r])
    BY <2>1, OpenHasNoOutcome
  <2>4. /\ Len(segments'[r]) = Len(segments[r])
        /\ segments'[r][Len(segments[r])].result = "interrupted"
        /\ \A k \in 1..Len(segments[r]) : k # Len(segments[r]) =>
              segments'[r][k].result # "succeeded"
    BY <2>1, <2>3, EndedResults DEF OutcomeInv
  <2>5. NoneSucceeded(segments'[r])
    BY <2>4 DEF NoneSucceeded
  <2> QED
    BY <2>1, <2>2, <2>5, StaysOpen
<1>2. ASSUME NEW r \in Run, r \notin Lost(S)
      PROVE  OutcomeOK(runs'[r], segments'[r], covered'[r])
  BY <1>2, OutcomeTypes DEF LoseExecutors
<1> QED
  BY <1>1, <1>2 DEF OutcomesOK

\* A start that may not begin: the run is rejected, or waits for a confirmation.
LEMMA RefusedOutcome ==
    ASSUME OutcomeInv, NEW r \in Run, RejectBusy(r) \/ RequireReconfirmation(r)
    PROVE  OutcomesOK'
<1>1. runs[r].state = "queued" /\ runs[r].outcome = NoOutcome
      /\ UNCHANGED <<segments, covered>>
  BY DEF RejectBusy, RequireReconfirmation, Startable
<1>2. \A p \in Run \ {r} : runs'[p] = runs[p]
  BY OutcomeTypes DEF RejectBusy, RequireReconfirmation
<1>3. CASE RejectBusy(r)
  <2> DEFINE o == [result |-> "failed", certainty |-> "known", by |-> 0]
  <2>1. runs'[r] = ClosedWith(r, o)
    BY <1>3, OutcomeTypes DEF RejectBusy
  <2>2. o.result = "failed" /\ o.by = 0
    OBVIOUS
  <2> HIDE DEF o
  <2>3. runs'[r].state = "closed" /\ runs'[r].outcome = o
    BY <1>1, <2>1, ClosedWithRow, OutcomeTypes
  <2> QED
    BY <1>1, <1>2, <2>2, <2>3, OneIsClosed
<1>4. CASE RequireReconfirmation(r)
  <2>1. runs'[r] = WithState(runs[r], "attention_required",
                             "manual_line_confirmation_expired")
    BY <1>4, OutcomeTypes DEF RequireReconfirmation
  <2>2. runs'[r].state = "attention_required" /\ runs'[r].outcome = runs[r].outcome
    BY <2>1, OutcomeTypes, WithStateRow
  <2>3. NoneSucceeded(segments'[r])
    BY <1>1, OpenHasNoOutcome
  <2> QED
    BY <1>1, <1>2, <2>2, <2>3, OneStaysOpen
<1> QED
  BY <1>3, <1>4

LEMMA CancelOutcome ==
    ASSUME OutcomeInv, NEW r \in Run, CancelRun(r) \/ CancelWaitingChild(r)
    PROVE  OutcomesOK'
<1>1. UNCHANGED <<segments, covered>> /\ \A p \in Run \ {r} : runs'[p] = runs[p]
  BY OutcomeTypes DEF CancelRun, CancelWaitingChild, CancelQueued
<1>2. CASE CancelQueued(r)
  <2>1. runs[r].state = "queued"
        /\ runs'[r] = [ClosedWith(r, Cancelled) EXCEPT !.cancelRequested = TRUE]
    BY <1>2, OutcomeTypes DEF CancelQueued
  <2>2. Cancelled \in Outcome /\ Cancelled.result = "cancelled" /\ Cancelled.by = 0
    BY DEF Cancelled, Outcome, Certainty
  <2>3. /\ ClosedWith(r, Cancelled) \in RunRow
        /\ ClosedWith(r, Cancelled).state = "closed"
        /\ ClosedWith(r, Cancelled).outcome = Cancelled
    BY <2>1, <2>2, OpenHasNoOutcome, ClosedWithRow, ClosedWithType, OutcomeTypes
  <2>4. runs'[r].state = "closed" /\ runs'[r].outcome = Cancelled
    BY <2>1, <2>3 DEF RunRow
  <2> QED
    BY <1>1, <2>1, <2>2, <2>4, OneIsClosed
<1>3. CASE runs[r].state = "leased" /\ runs' = [runs EXCEPT ![r].cancelRequested = TRUE]
  <2>1. runs'[r].state = "leased" /\ runs'[r].outcome = runs[r].outcome
    BY <1>3, OutcomeTypes DEF RunRow
  <2>2. NoneSucceeded(segments'[r])
    BY <1>1, <1>3, OpenHasNoOutcome
  <2> QED
    BY <1>1, <1>3, <2>1, <2>2, OneStaysOpen
<1> QED
  BY <1>2, <1>3 DEF CancelRun, CancelWaitingChild

LEMMA AttentionOutcome ==
    ASSUME OutcomeInv, NEW r \in Run,
           \/ ContinueRun(r) \/ CloseAttention(r)
           \/ \E key \in Key : ReconfirmLine(r, key)
    PROVE  OutcomesOK'
<1>1. runs[r].state = "attention_required" /\ UNCHANGED <<segments, covered>>
  BY DEF ContinueRun, CloseAttention, ReconfirmLine, MayContinue
<1>2. \A p \in Run \ {r} : runs'[p] = runs[p]
  BY OutcomeTypes DEF ContinueRun, CloseAttention, ReconfirmLine
<1>3. CASE ContinueRun(r) \/ \E key \in Key : ReconfirmLine(r, key)
  <2>1. runs'[r] = WithState(runs[r], "queued", "none")
    BY <1>3, OutcomeTypes DEF ContinueRun, ReconfirmLine
  <2>2. runs'[r].state = "queued" /\ runs'[r].outcome = runs[r].outcome
    BY <2>1, OutcomeTypes, WithStateRow
  <2>3. NoneSucceeded(segments'[r])
    BY <1>1, OpenHasNoOutcome
  <2> QED
    BY <1>1, <1>2, <2>2, <2>3, OneStaysOpen
<1>4. CASE CloseAttention(r)
  <2> DEFINE o == [result |-> "failed", certainty |-> "indeterminate", by |-> 0]
  <2>1. runs'[r] = ClosedWith(r, o)
    BY <1>4, OutcomeTypes DEF CloseAttention
  <2>2. o.result = "failed" /\ o.by = 0
    OBVIOUS
  <2> HIDE DEF o
  <2>3. runs'[r].state = "closed" /\ runs'[r].outcome = o
    BY <1>1, <2>1, OpenHasNoOutcome, ClosedWithRow, OutcomeTypes
  <2> QED
    BY <1>1, <1>2, <2>2, <2>3, OneIsClosed
<1> QED
  BY <1>3, <1>4

LEMMA AdmitOutcome ==
    ASSUME OutcomeInv, NEW r \in Run, Admit(r)
    PROVE  OutcomesOK'
<1>1. runs[r].state = "absent" /\ runs' = [runs EXCEPT ![r].state = "queued"]
      /\ UNCHANGED <<segments, covered>>
  BY DEF Admit
<1>2. runs'[r].state = "queued" /\ runs'[r].outcome = runs[r].outcome
      /\ \A p \in Run \ {r} : runs'[p] = runs[p]
  BY <1>1, OutcomeTypes DEF RunRow
<1>3. NoneSucceeded(segments'[r])
  BY <1>1, OpenHasNoOutcome
<1> QED
  BY <1>1, <1>2, <1>3, OneStaysOpen

LEMMA OutcomeStep ==
    ASSUME OutcomeInv, RunNext
    PROVE  OutcomesOK'
<1>1. ASSUME NEW r \in Run, ExecutorStep(r)
      PROVE  OutcomesOK'
  <2>1. ASSUME NEW e \in Executor, StartExecution(r, e) \/ RetryStart(r, e)
        PROVE  OutcomesOK'
    BY <2>1, StartOutcome, RetryOutcome
  <2>2. ASSUME NEW k \in 1..Len(segments[r]), ReadHeartbeatClock(r, k) \/ RenewLease(r, k)
        PROVE  OutcomesOK'
    BY <2>2, SameOutcomes DEF ReadHeartbeatClock, RenewLease
  <2>3. ASSUME NEW k, MarkExecutorUnknown(r, k)
        PROVE  OutcomesOK'
    BY <2>3, LossOutcome DEF MarkExecutorUnknown, ExpireOne
  <2> QED
    BY <1>1, <2>1, <2>2, <2>3, RefusedOutcome, AdvanceOutcome, CommitOutcome
       DEF ExecutorStep
<1>2. ASSUME NEW r \in Run, OperatorStep(r) \/ LapseLease(r)
      PROVE  OutcomesOK'
  <2>1. CASE LapseLease(r)
    BY <2>1, SameOutcomes DEF LapseLease
  <2> QED
    BY <1>2, <2>1, AdmitOutcome, CancelOutcome, AttentionOutcome DEF OperatorStep
<1>3. CASE ReadExpiredLeases
  BY <1>3, SameOutcomes DEF ReadExpiredLeases
<1>4. CASE ExpireLeases
  BY <1>4, LossOutcome DEF ExpireLeases, ExpireOne
<1>5. CASE RestartRuns
  BY <1>5, LossOutcome DEF RestartRuns, RestartRunRows
<1> QED
  BY <1>1, <1>2, <1>3, <1>4, <1>5 DEF RunNext, RunStep

\* An outcome an executor reported is that of the last execution and means what it
\* says; the daemon never covers up a success (commit_terminal_with_authority).
THEOREM OutcomeIsOfTheLastExecutor == RunSpec => []OutcomeFromLastExecutor
<1>1. RunInit => OutcomeInv
  <2> SUFFICES ASSUME RunInit PROVE OutcomeInv
    OBVIOUS
  <2>1. OutcomesOK
    BY NoOutcomeFields DEF RunInit, OutcomesOK, OutcomeOK
  <2> QED
    BY <2>1, ExecutionInit DEF OutcomeInv
<1>2. OutcomeInv /\ [RunNext]_runVars => OutcomeInv'
  <2> SUFFICES ASSUME OutcomeInv, [RunNext]_runVars PROVE OutcomeInv'
    OBVIOUS
  <2>1. CASE RunNext
    BY <2>1, OutcomeStep, ExecutionStep DEF OutcomeInv
  <2>2. CASE UNCHANGED runVars
    BY <2>2, SameOutcomes, ExecutionStep DEF OutcomeInv, runVars, runOnlyVars
  <2> QED
    BY <2>1, <2>2
<1>3. OutcomeInv => OutcomeFromLastExecutor
  BY OutcomesImply DEF OutcomeInv
<1> QED
  BY <1>1, <1>2, <1>3, PTL DEF RunSpec

-----------------------------------------------------------------------------
(***************************************************************************)
(* What WiringIsVouchedFor says of one guarded run.  Admission writes the  *)
(* confirmations anew, which is safe because a run that is not admitted    *)
(* has no segment.                                                         *)
(***************************************************************************)
Vouched(segs, conf, keys) ==
    /\ segs # <<>> => segs[1].runtime \in conf
    /\ IsFiniteSet(conf)
    /\ IsFiniteSet(keys)
    /\ conf # {} => Cardinality(conf) <= Cardinality(keys) + 1

WiringEach ==
    /\ \A r \in Run : runs[r].state = "absent" => segments[r] = <<>>
    /\ \A r \in Guarded : Vouched(segments[r], confirmed[r], lineKeys[r])

WiringInv == ExecutionInv /\ WiringEach

LEMMA WiringImplies ==
    ASSUME WiringEach
    PROVE  WiringIsVouchedFor
BY DEF WiringEach, Vouched, WiringIsVouchedFor, HasSegment

LEMMA WiringTypes ==
    ASSUME WiringInv
    PROVE  /\ RunTypeOK
           /\ runs \in [Run -> RunRow]
           /\ segments \in [Run -> Seq(Segment)]
           /\ confirmed \in [Run -> SUBSET Nat]
           /\ lineKeys \in [Run -> SUBSET Key]
           /\ Guarded \subseteq Run
BY RunControlAssumption DEF WiringInv, ExecutionInv, RunInv, RunTypeOK

\* Confirmations stay, no run becomes absent or gets its first segment, and first
\* segments keep their runtime.
LEMMA WiringStays ==
    ASSUME WiringInv, UNCHANGED <<confirmed, lineKeys>>,
           \A r \in Run : /\ runs'[r].state = "absent" => runs[r].state = "absent"
                          /\ segments[r] = <<>> <=> segments'[r] = <<>>
                          /\ segments[r] # <<>> =>
                                segments'[r][1].runtime = segments[r][1].runtime
    PROVE  WiringEach'
BY WiringTypes DEF WiringInv, WiringEach, Vouched

LEMMA EndedRuntime ==
    ASSUME ExecutionInv, NEW r \in Run, runs[r].state = "leased",
           NEW result, NEW certainty
    PROVE  /\ segments[r] # <<>>
           /\ Finished(r, result, certainty) # <<>>
           /\ Finished(r, result, certainty)[1].runtime = segments[r][1].runtime
<1>1. segments[r] \in Seq(Segment) /\ segments[r] # <<>>
  BY LastIsUnderWay DEF ExecutionInv, RunInv, RunTypeOK
<1>2. PICK seg : /\ seg.runtime = segments[r][Len(segments[r])].runtime
                 /\ Finished(r, result, certainty) =
                       [segments[r] EXCEPT ![Len(segments[r])] = seg]
  BY EndedSegment
<1> QED
  BY <1>1, <1>2

LEMMA StartWiring ==
    ASSUME WiringInv, NEW r \in Run, NEW e \in Executor, StartExecution(r, e)
    PROVE  WiringEach'
<1> DEFINE seg == [holders |-> {e}, runtime |-> runtime, start |-> Coverage(r),
                   end |-> 0, result |-> "running", certainty |-> "known"]
<1>1. /\ segments'[r] = Append(segments[r], seg)
      /\ \A p \in Run \ {r} : runs'[p] = runs[p] /\ segments'[p] = segments[p]
      /\ UNCHANGED <<confirmed, lineKeys>>
  BY WiringTypes DEF StartExecution
<1>2. runs'[r].state = "leased"
  BY WiringTypes, WithStateRow DEF StartExecution
<1>3. seg.runtime = runtime
  OBVIOUS
<1> HIDE DEF seg
<1>4. segments'[r] # <<>>
      /\ segments'[r][1] = IF segments[r] = <<>> THEN seg ELSE segments[r][1]
  <2> DEFINE n == Len(segments[r])
  <2>1. n \in Nat /\ (segments[r] = <<>> <=> n = 0)
    BY WiringTypes
  <2>2. Len(segments'[r]) = n + 1 /\ segments'[r][n + 1] = seg
        /\ \A k \in 1..n : segments'[r][k] = segments[r][k]
    BY <1>1, WiringTypes
  <2>3. n # 0 => segments'[r][1] = segments[r][1]
    BY <2>1, <2>2
  <2> QED
    BY <2>1, <2>2, <2>3
<1>5. ASSUME r \in Guarded
      PROVE  Vouched(segments'[r], confirmed'[r], lineKeys'[r])
  <2>1. segments[r] = <<>> => runtime \in confirmed[r]
    BY <1>5 DEF StartExecution, ConfirmationCurrent, HasSegment
  <2> QED
    BY <1>1, <1>3, <1>4, <1>5, <2>1 DEF WiringInv, WiringEach, Vouched
<1>6. \A p \in Guarded \ {r} : Vouched(segments'[p], confirmed'[p], lineKeys'[p])
  BY <1>1, WiringTypes DEF WiringInv, WiringEach
<1>7. \A p \in Run : runs'[p].state = "absent" => segments'[p] = <<>>
  BY <1>1, <1>2 DEF WiringInv, WiringEach
<1> QED
  BY <1>5, <1>6, <1>7 DEF WiringEach

LEMMA RetryWiring ==
    ASSUME WiringInv, NEW r \in Run, NEW e \in Executor, RetryStart(r, e)
    PROVE  WiringEach'
<1>1. runs' = runs /\ UNCHANGED <<confirmed, lineKeys>>
  BY DEF RetryStart
<1>2. /\ \A p \in Run \ {r} : segments'[p] = segments[p]
      /\ segments'[r] \in Seq(Segment) /\ Len(segments'[r]) = Len(segments[r])
      /\ \A k \in 1..Len(segments[r]) :
            segments'[r][k].runtime = segments[r][k].runtime
  BY RetrySegments DEF WiringInv
<1>3. segments[r] \in Seq(Segment)
  BY WiringTypes
<1>4. /\ segments[r] = <<>> <=> segments'[r] = <<>>
      /\ segments[r] # <<>> => segments'[r][1].runtime = segments[r][1].runtime
  BY <1>2, <1>3
<1> QED
  BY <1>1, <1>2, <1>4, WiringStays

LEMMA ClosedState ==
    ASSUME RunTypeOK, NEW r \in Run, NEW o
    PROVE  ClosedWith(r, o).state = "closed"
<1>1. runs[r] \in RunRow
  BY DEF RunTypeOK
<1>2. CASE runs[r].outcome = NoOutcome
  BY <1>2, ClosedWithRow
<1>3. CASE runs[r].outcome # NoOutcome
  BY <1>1, <1>3 DEF ClosedWith, WithOutcome, WithState, RunRow
<1> QED
  BY <1>2, <1>3

LEMMA CommitWiring ==
    ASSUME WiringInv, NEW r \in Run, NEW k, NEW o \in Reported, CommitTerminal(r, k, o)
    PROVE  WiringEach'
<1>1. runs[r].state = "leased" /\ UNCHANGED <<confirmed, lineKeys>>
      /\ \A p \in Run \ {r} : runs'[p] = runs[p] /\ segments'[p] = segments[p]
  BY WiringTypes DEF CommitTerminal, Fenced
<1>2. \E result, certainty : segments'[r] = Finished(r, result, certainty)
  BY WiringTypes DEF CommitTerminal
<1>3. runs'[r].state = "closed"
  BY WiringTypes, ClosedState DEF CommitTerminal
<1> QED
  BY <1>1, <1>2, <1>3, EndedRuntime, WiringStays DEF WiringInv

LEMMA LossWiring ==
    ASSUME WiringInv, NEW S, NEW why, LoseExecutors(S, why),
           UNCHANGED <<confirmed, lineKeys>>
    PROVE  WiringEach'
<1>1. ASSUME NEW r \in Run
      PROVE  /\ runs'[r].state = "absent" => runs[r].state = "absent"
             /\ segments[r] = <<>> <=> segments'[r] = <<>>
             /\ segments[r] # <<>> => segments'[r][1].runtime = segments[r][1].runtime
  <2>1. CASE r \in Lost(S)
    <3>1. /\ segments'[r] = Finished(r, "interrupted", "indeterminate")
          /\ runs'[r] = WithState(runs[r], "attention_required", why)
          /\ runs[r].state = "leased"
      BY <2>1 DEF LoseExecutors, Lost
    <3>2. runs'[r].state = "attention_required"
      BY <3>1, WiringTypes, WithStateRow
    <3> QED
      BY <3>1, <3>2, EndedRuntime DEF WiringInv
  <2>2. CASE r \notin Lost(S)
    BY <2>2 DEF LoseExecutors
  <2> QED
    BY <2>1, <2>2
<1> QED
  BY <1>1, WiringStays

LEMMA AdmitWiring ==
    ASSUME WiringInv, NEW r \in Run, Admit(r)
    PROVE  WiringEach'
<1>1. segments[r] = <<>> /\ segments' = segments /\ lineKeys' = lineKeys
      /\ \A p \in Run \ {r} : runs'[p] = runs[p] /\ confirmed'[p] = confirmed[p]
  BY WiringTypes DEF WiringInv, WiringEach, Admit
<1>2. PICK rt : confirmed'[r] = IF r \in Guarded THEN {rt} ELSE {}
  BY WiringTypes DEF Admit
<1>3. IsFiniteSet({rt}) /\ Cardinality({rt}) = 1
  BY FS_Singleton
<1>4. ASSUME r \in Guarded
      PROVE  Vouched(segments'[r], confirmed'[r], lineKeys'[r])
  <2>1. IsFiniteSet(lineKeys[r]) /\ Cardinality(lineKeys[r]) \in Nat
    BY <1>4, FS_CardinalityType DEF WiringInv, WiringEach, Vouched
  <2> QED
    BY <1>1, <1>2, <1>3, <1>4, <2>1 DEF Vouched
<1>5. \A p \in Guarded \ {r} : Vouched(segments'[p], confirmed'[p], lineKeys'[p])
  BY <1>1, WiringTypes DEF WiringInv, WiringEach
<1> QED
  BY <1>1, <1>4, <1>5 DEF WiringInv, WiringEach

LEMMA ReconfirmWiring ==
    ASSUME WiringInv, NEW r \in Run, NEW key \in Key, ReconfirmLine(r, key)
    PROVE  WiringEach'
<1>1. /\ r \in Guarded /\ key \notin lineKeys[r] /\ segments' = segments
      /\ confirmed'[r] = confirmed[r] \cup {runtime}
      /\ lineKeys'[r] = lineKeys[r] \cup {key}
      /\ \A p \in Run \ {r} : runs'[p] = runs[p] /\ confirmed'[p] = confirmed[p]
                              /\ lineKeys'[p] = lineKeys[p]
  BY WiringTypes DEF ReconfirmLine, FreshKey
<1>2. segments[r] = <<>>
  BY DEF ReconfirmLine, HasSegment
<1>3. /\ IsFiniteSet(confirmed[r]) /\ IsFiniteSet(lineKeys[r])
      /\ confirmed[r] # {} => Cardinality(confirmed[r]) <= Cardinality(lineKeys[r]) + 1
  BY <1>1 DEF WiringInv, WiringEach, Vouched
<1>4. /\ Cardinality(confirmed[r]) \in Nat /\ Cardinality(lineKeys[r]) \in Nat
      /\ confirmed[r] = {} => Cardinality(confirmed[r]) = 0
  BY <1>3, FS_CardinalityType, FS_EmptySet
<1>5. /\ IsFiniteSet(confirmed'[r])
      /\ Cardinality(confirmed'[r]) <= Cardinality(confirmed[r]) + 1
  <2>1. /\ IsFiniteSet(confirmed[r] \cup {runtime})
        /\ Cardinality(confirmed[r] \cup {runtime}) =
              IF runtime \in confirmed[r] THEN Cardinality(confirmed[r])
              ELSE Cardinality(confirmed[r]) + 1
    BY <1>3, FS_AddElement, Zenon
  <2> QED
    BY <1>1, <1>4, <2>1
<1>6. /\ IsFiniteSet(lineKeys'[r])
      /\ Cardinality(lineKeys'[r]) = Cardinality(lineKeys[r]) + 1
  <2>1. /\ IsFiniteSet(lineKeys[r] \cup {key})
        /\ Cardinality(lineKeys[r] \cup {key}) =
              IF key \in lineKeys[r] THEN Cardinality(lineKeys[r])
              ELSE Cardinality(lineKeys[r]) + 1
    BY <1>3, FS_AddElement, Zenon
  <2> QED
    BY <1>1, <2>1
<1>7. Cardinality(confirmed'[r]) <= Cardinality(lineKeys'[r]) + 1
  <2>1. Cardinality(confirmed'[r]) \in Nat
    BY <1>5, FS_CardinalityType
  <2> QED
    BY <1>3, <1>4, <1>5, <1>6, <2>1
<1>8. Vouched(segments'[r], confirmed'[r], lineKeys'[r])
  BY <1>1, <1>2, <1>5, <1>6, <1>7 DEF Vouched
<1>9. \A p \in Guarded \ {r} : Vouched(segments'[p], confirmed'[p], lineKeys'[p])
  BY <1>1, WiringTypes DEF WiringInv, WiringEach
<1>10. \A p \in Run : runs'[p].state = "absent" => segments'[p] = <<>>
  BY <1>1, <1>2 DEF WiringInv, WiringEach
<1> QED
  BY <1>1, <1>8, <1>9, <1>10 DEF WiringEach

\* Every other transaction: a run that is admitted stays so, its segments stay.
LEMMA QuietWiring ==
    ASSUME WiringInv, UNCHANGED <<segments, confirmed, lineKeys>>,
           \A r \in Run : runs'[r].state = "absent" => runs[r].state = "absent"
    PROVE  WiringEach'
BY WiringStays

LEMMA RowWiring ==
    ASSUME WiringInv, NEW r \in Run,
           \/ RejectBusy(r) \/ RequireReconfirmation(r) \/ CancelRun(r)
           \/ CancelWaitingChild(r) \/ ContinueRun(r) \/ CloseAttention(r)
    PROVE  WiringEach'
<1>1. UNCHANGED <<segments, confirmed, lineKeys>>
      /\ \A p \in Run \ {r} : runs'[p] = runs[p]
  BY WiringTypes DEF RejectBusy, RequireReconfirmation, CancelRun, CancelWaitingChild,
     CancelQueued, ContinueRun, CloseAttention
<1>2. runs'[r].state # "absent"
  <2>1. CASE RejectBusy(r) \/ CloseAttention(r)
    BY <2>1, WiringTypes, ClosedState DEF RejectBusy, CloseAttention
  <2>2. CASE RequireReconfirmation(r) \/ ContinueRun(r)
    BY <2>2, WiringTypes, WithStateRow DEF RequireReconfirmation, ContinueRun
  <2>3. CASE CancelQueued(r)
    <3>1. runs'[r] = [ClosedWith(r, Cancelled) EXCEPT !.cancelRequested = TRUE]
      BY <2>3, WiringTypes DEF CancelQueued
    <3>2. Cancelled \in Outcome
      BY DEF Cancelled, Outcome, Certainty
    <3>3. ClosedWith(r, Cancelled) \in RunRow /\ ClosedWith(r, Cancelled).state = "closed"
      BY <3>2, WiringTypes, ClosedWithType, ClosedState
    <3> QED
      BY <3>1, <3>3 DEF RunRow
  <2>4. CASE runs[r].state = "leased" /\ runs' = [runs EXCEPT ![r].cancelRequested = TRUE]
    BY <2>4, WiringTypes DEF RunRow
  <2> QED
    BY <2>1, <2>2, <2>3, <2>4 DEF CancelRun, CancelWaitingChild
<1> QED
  BY <1>1, <1>2, QuietWiring

LEMMA WiringStep ==
    ASSUME WiringInv, RunNext
    PROVE  WiringEach'
<1>1. ASSUME NEW r \in Run, ExecutorStep(r)
      PROVE  WiringEach'
  <2>1. ASSUME NEW e \in Executor, StartExecution(r, e) \/ RetryStart(r, e)
        PROVE  WiringEach'
    BY <2>1, StartWiring, RetryWiring
  <2>2. ASSUME NEW k, \/ ReadHeartbeatClock(r, k) \/ RenewLease(r, k)
                      \/ \E m : AdvanceCoverage(r, k, m)
        PROVE  WiringEach'
    BY <2>2, QuietWiring DEF ReadHeartbeatClock, RenewLease, AdvanceCoverage
  <2>3. ASSUME NEW k, MarkExecutorUnknown(r, k)
        PROVE  WiringEach'
    BY <2>3, LossWiring DEF MarkExecutorUnknown, ExpireOne
  <2> QED
    BY <1>1, <2>1, <2>2, <2>3, RowWiring, CommitWiring DEF ExecutorStep
<1>2. ASSUME NEW r \in Run, OperatorStep(r) \/ LapseLease(r)
      PROVE  WiringEach'
  <2>1. CASE LapseLease(r)
    BY <2>1, QuietWiring DEF LapseLease
  <2> QED
    BY <1>2, <2>1, AdmitWiring, ReconfirmWiring, RowWiring DEF OperatorStep
<1>3. CASE ReadExpiredLeases
  BY <1>3, QuietWiring DEF ReadExpiredLeases
<1>4. CASE ExpireLeases
  BY <1>4, LossWiring DEF ExpireLeases, ExpireOne
<1>5. CASE RestartRuns
  BY <1>5, LossWiring DEF RestartRuns, RestartRunRows
<1> QED
  BY <1>1, <1>2, <1>3, <1>4, <1>5 DEF RunNext, RunStep

\* A guarded run first executes under a daemon for which its wiring was confirmed,
\* and no request key confirms twice (manual line confirmation, control_plane.py).
THEOREM GuardedRunsAreVouchedFor == RunSpec => []WiringIsVouchedFor
<1>1. RunInit => WiringInv
  <2> SUFFICES ASSUME RunInit PROVE WiringInv
    OBVIOUS
  <2>1. WiringEach
    BY FS_EmptySet, RunControlAssumption DEF RunInit, WiringEach, Vouched
  <2> QED
    BY <2>1, ExecutionInit DEF WiringInv
<1>2. WiringInv /\ [RunNext]_runVars => WiringInv'
  <2> SUFFICES ASSUME WiringInv, [RunNext]_runVars PROVE WiringInv'
    OBVIOUS
  <2>1. CASE RunNext
    BY <2>1, WiringStep, ExecutionStep DEF WiringInv
  <2>2. CASE UNCHANGED runVars
    BY <2>2, QuietWiring, ExecutionStep DEF WiringInv, runVars, runOnlyVars
  <2> QED
    BY <2>1, <2>2
<1>3. WiringInv => WiringIsVouchedFor
  BY WiringImplies DEF WiringInv
<1> QED
  BY <1>1, <1>2, <1>3, PTL DEF RunSpec
=============================================================================
