----------------------------- MODULE RunControl -----------------------------
(***************************************************************************)
(* Scheduling and executor fencing of runs: SQLiteControlPlane and the     *)
(* services that call it (executor.py, admission.py, resource_waits.py).   *)
(* Every action is one SQLite write transaction, which the daemon's single *)
(* writer serialises; work a handler does before it opens its transaction  *)
(* and whose result the transaction does not check again (a clock reading, *)
(* a list of expired leases) is a step of its own.                         *)
(*                                                                         *)
(* Time is abstract: of expires_at a lease row keeps how it compares with  *)
(* the two clock readings the code makes.  "expired" is expires_at <= now; *)
(* "overdue" is expires_at <= the time of the supervisor's current pass.   *)
(* LapseLease sets the first, a grant or a renewal clears both.            *)
(***************************************************************************)
EXTENDS ResourceClaims, Naturals, Sequences, FiniteSets

CONSTANTS
    Run,          \* admitted submissions
    Guarded,      \* runs admitted with a manual line confirmation
    Executor,     \* client processes that ask to execute a run
    Key,          \* request keys of manual line reconfirmations
    PointCount,   \* points of the fixed plan of every run
    MaxSegments,  \* bound: executions started per run
    MaxRuntime,   \* bound: daemon processes, numbered from 1
    MaxBeats      \* bound: heartbeats that wait for the writer at one time

ASSUME RunControlAssumption ==
    /\ Run \subseteq Owner
    /\ Guarded \subseteq Run
    /\ PointCount \in Nat
    /\ MaxSegments \in Nat
    /\ MaxRuntime \in Nat \ {0}
    /\ MaxBeats \in Nat

VARIABLES
    runs,       \* scheduler_runs joined with run_outcomes
    segments,   \* run_execution_segments in ordinal order
    leases,     \* executor_leases; a token is (run, segment)
    covered,    \* execution_coverage: for each completed point, its writer
    confirmed,  \* runtimes a human confirmed the wiring of a guarded run for
    lineKeys,   \* reconfirmation keys already spent on a run
    runtime,    \* the number of the running daemon process
    sweep,      \* runs the lease supervisor read as expired
    beats       \* tokens of heartbeats that read the clock in time

runOnlyVars ==
    <<runs, segments, leases, covered, confirmed, lineKeys, runtime, sweep, beats>>
runVars == <<claims, runOnlyVars>>

-----------------------------------------------------------------------------
RunState == {"absent", "queued", "leased", "attention_required", "closed"}

Reason == {"none", "executor_lease_expired", "daemon_restarted",
           "executor_unknown", "manual_line_confirmation_expired"}

Certainty == {"known", "indeterminate"}

\* by: the segment whose executor committed it, 0 for the daemon (history).
\* A succeeded outcome is known (validate_outcome_truth_table).
Outcome == {o \in [result : {"none", "succeeded", "failed", "cancelled"},
                   certainty : Certainty, by : Nat] :
               o.result = "succeeded" => o.certainty = "known"}
NoOutcome == [result |-> "none", certainty |-> "known", by |-> 0]

\* The results an executor may report with the certainty it has of the hardware.
Reported == {o \in {"succeeded", "failed", "cancelled"} \X Certainty :
                o[1] = "succeeded" => o[2] = "known"}

RunRow == [state : RunState, cancelRequested : BOOLEAN, reason : Reason,
           outcome : Outcome]

\* holders: executors that were told the token (history); runtime: the daemon
\* process that granted it (history).  result "running" is ended_at IS NULL.
Segment == [holders : SUBSET Executor, runtime : Nat, start : Nat, end : Nat,
            result : {"running", "succeeded", "failed", "cancelled", "interrupted"},
            certainty : Certainty]

Lease == [segment : Nat, expired : BOOLEAN, overdue : BOOLEAN]
Granted(k) == [segment |-> k, expired |-> FALSE, overdue |-> FALSE]
NoLease == Granted(0)

RunTypeOK ==
    /\ ClaimsTypeOK
    /\ runs \in [Run -> RunRow]
    /\ segments \in [Run -> Seq(Segment)]
    /\ leases \in [Run -> Lease]
    /\ covered \in [Run -> Seq(Nat)]
    /\ confirmed \in [Run -> SUBSET Nat]
    /\ lineKeys \in [Run -> SUBSET Key]
    /\ runtime \in Nat
    /\ sweep \subseteq Run
    /\ beats \subseteq Run \X Nat

RunInit ==
    /\ claims = {}
    /\ runs = [r \in Run |-> [state |-> "absent", cancelRequested |-> FALSE,
                              reason |-> "none", outcome |-> NoOutcome]]
    /\ segments = [r \in Run |-> <<>>]
    /\ leases = [r \in Run |-> NoLease]
    /\ covered = [r \in Run |-> <<>>]
    /\ confirmed = [r \in Run |-> {}]
    /\ lineKeys = [r \in Run |-> {}]
    /\ runtime = 1
    /\ sweep = {}
    /\ beats = {}

-----------------------------------------------------------------------------
(* Guards and statements shared by the transactions. *)

Coverage(r) == Len(covered[r])

\* Mutant of Live: any lease of the run will do, the token is not compared.
LiveOfAnySegment(r, k) == leases[r] # NoLease /\ ~leases[r].expired

\* _live_executor: the token is on record for this run and has not expired.
Live(r, k) == k # 0 /\ leases[r].segment = k /\ ~leases[r].expired

\* fenced_transaction: a live token of a run that is leased.
Fenced(r, k) == Live(r, k) /\ runs[r].state = "leased"

HasSegment(r) == segments[r] # <<>>

\* manual_line_confirmation_current_in_transaction.
ConfirmationCurrent(r) ==
    r \notin Guarded \/ HasSegment(r) \/ runtime \in confirmed[r]

\* _update_scheduler_state_in_transaction: the reason is reset unless given.
WithState(row, s, why) == [row EXCEPT !.state = s, !.reason = why]

\* INSERT INTO run_outcomes ... ON CONFLICT DO NOTHING: the first outcome wins.
WithOutcome(row, o) ==
    IF row.outcome = NoOutcome THEN [row EXCEPT !.outcome = o] ELSE row

\* Commit a terminal outcome and close the run in one transaction.
ClosedWith(r, o) == WithState(WithOutcome(runs[r], o), "closed", "none")

\* Mutant of Finished: the first segment of the run is ended, not the last.
FinishedFirst(r, result, certainty) ==
    [segments[r] EXCEPT ![1].end = Coverage(r), ![1].result = result,
                        ![1].certainty = certainty]
\* _finish_execution_segment for the last segment of a run.
Finished(r, result, certainty) ==
    [segments[r] EXCEPT ![Len(segments[r])].end = Coverage(r),
                        ![Len(segments[r])].result = result,
                        ![Len(segments[r])].certainty = certainty]

\* Mutant of HonorCancellation: the executor's outcome is taken as it is.
IgnoreCancellation(r, o) == o

\* _honor_cancellation: a requested cancellation wins the terminal race.
HonorCancellation(r, o) ==
    IF runs[r].cancelRequested /\ o[1] = "succeeded" THEN <<"cancelled", "known">> ELSE o

\* The runs of S whose executor is lost; the others only leave rows behind.
Lost(S) == {r \in S : runs[r].state = "leased"}

\* Mutant of AfterLoss: the abandoned run gives its resources back.
AfterLossReleasing(S) == Released(S)
\* Mutant of AfterLoss: claims without a lease are taken for leftover rows.
AfterLossSweeping(S) ==
    {c \in Quarantined(Lost(S)) : c.owner \in Run => leases[c.owner] # NoLease}
\* The claims table after _expire_one for every run of S: the resources of a
\* leased run are quarantined, leftover rows of any other run deleted.
AfterLoss(S) == {c \in Quarantined(Lost(S)) : c.owner \notin S \ Lost(S)}

(***************************************************************************)
(* The other tables after _expire_one for every run of S; each has a       *)
(* lease.  A leased run needs attention and its segment ends interrupted.  *)
(***************************************************************************)
LoseExecutors(S, why) ==
    /\ runs' = [r \in Run |-> IF r \in Lost(S)
                   THEN WithState(runs[r], "attention_required", why) ELSE runs[r]]
    /\ segments' = [r \in Run |-> IF r \in Lost(S)
                       THEN Finished(r, "interrupted", "indeterminate") ELSE segments[r]]
    /\ leases' = [r \in Run |-> IF r \in S THEN NoLease ELSE leases[r]]

ExpireOne(S, why) == LoseExecutors(S, why) /\ claims' = AfterLoss(S)

-----------------------------------------------------------------------------
(* Admission and the start of an execution. *)

(***************************************************************************)
(* admit_run_in_transaction through submit_run.  A retry of the same       *)
(* submission finds its row and changes nothing.  The confirmation that a  *)
(* guarded submission carries was given under this or an earlier runtime.  *)
(***************************************************************************)
Admit(r) ==
    /\ runs[r].state = "absent"
    /\ runs' = [runs EXCEPT ![r].state = "queued"]
    /\ \E rt \in 1..runtime :
          confirmed' = [confirmed EXCEPT ![r] = IF r \in Guarded THEN {rt} ELSE {}]
    /\ UNCHANGED <<claims, segments, leases, covered, lineKeys, runtime, sweep, beats>>

\* _start_execution up to the resource check: the run may start an execution.
Startable(r) ==
    /\ runs[r].state = "queued"
    /\ runs[r].outcome = NoOutcome

\* start_execution_in_transaction: one segment, one token, every claim.
StartExecution(r, e) ==
    /\ Startable(r)
    /\ ConfirmationCurrent(r)
    /\ Free(r)
    /\ Len(segments[r]) < MaxSegments
    /\ segments' = [segments EXCEPT ![r] = Append(@,
                       [holders |-> {e}, runtime |-> runtime, start |-> Coverage(r),
                        end |-> 0, result |-> "running", certainty |-> "known"])]
    /\ leases' = [leases EXCEPT ![r] = Granted(Len(segments[r]) + 1)]
    /\ claims' = Claimed(r)
    /\ runs' = [runs EXCEPT ![r] = WithState(@, "leased", "none")]
    /\ UNCHANGED <<covered, confirmed, lineKeys, runtime, sweep, beats>>

\* The leased branch of _start_execution recognises the retry of one executor.
SameIntent(r, e) ==
    /\ Fenced(r, leases[r].segment)
    /\ runs[r].outcome = NoOutcome
    /\ e \in segments[r][leases[r].segment].holders

(***************************************************************************)
(* A start for a run that is leased: the same executor gets its token      *)
(* back, everyone else a conflict.                                         *)
(***************************************************************************)
RetryStart(r, e) ==
    /\ SameIntent(r, e)
    /\ segments' = [segments EXCEPT ![r][leases[r].segment].holders = @ \cup {e}]
    /\ UNCHANGED <<claims, runs, leases, covered, confirmed, lineKeys, runtime,
                   sweep, beats>>

\* _fail_resource_rejection: a start that will not wait closes the run.
RejectBusy(r) ==
    /\ Startable(r)
    /\ ConfirmationCurrent(r)
    /\ ~Free(r)
    /\ runs' = [runs EXCEPT ![r] = ClosedWith(r,
                   [result |-> "failed", certainty |-> "known", by |-> 0])]
    /\ UNCHANGED <<claims, segments, leases, covered, confirmed, lineKeys, runtime,
                   sweep, beats>>

\* require_manual_line_reconfirmation_in_transaction.
RequireReconfirmation(r) ==
    /\ Startable(r)
    /\ ~ConfirmationCurrent(r)
    /\ runs' = [runs EXCEPT ![r] = WithState(@, "attention_required",
                                             "manual_line_confirmation_expired")]
    /\ UNCHANGED <<claims, segments, leases, covered, confirmed, lineKeys, runtime,
                   sweep, beats>>

-----------------------------------------------------------------------------
(* What the holder of a token does. *)

\* renew_executor_lease reads its clock before it waits for the writer.
ReadHeartbeatClock(r, k) ==
    /\ Live(r, k)
    /\ Cardinality(beats) < MaxBeats
    /\ beats' = beats \cup {<<r, k>>}
    /\ UNCHANGED <<claims, runs, segments, leases, covered, confirmed, lineKeys,
                   runtime, sweep>>

\* The renewal compares the lease with that reading, not with the time it is now.
RenewLease(r, k) ==
    /\ <<r, k>> \in beats
    /\ beats' = beats \ {<<r, k>>}
    /\ leases' = IF leases[r].segment = k
                 THEN [leases EXCEPT ![r] = Granted(k)] ELSE leases
    /\ UNCHANGED <<claims, runs, segments, covered, confirmed, lineKeys, runtime,
                   sweep>>

\* advance_run_coverage: the next n points of the plan are complete.  A range
\* that is covered already changes nothing, an overlap or a gap is refused.
AdvanceCoverage(r, k, n) ==
    /\ Fenced(r, k)
    /\ Coverage(r) + n <= PointCount
    /\ covered' = [covered EXCEPT ![r] = @ \o [i \in 1..n |-> k]]
    /\ UNCHANGED <<claims, runs, segments, leases, confirmed, lineKeys, runtime,
                   sweep, beats>>

\* Mutant of Complete: any prefix counts as a finished fixed plan.
CompletePrefix(r) == Coverage(r) <= PointCount

\* _validate_successful_point_progress_in_transaction for a fixed plan.
Complete(r) == Coverage(r) = PointCount

(***************************************************************************)
(* commit_terminal_with_authority: the outcome, the end of the segment and *)
(* the closed run with its released claims and lease are one transaction.  *)
(* A commit for a run that is closed only compares the outcomes.           *)
(***************************************************************************)
CommitTerminal(r, k, o) ==
    LET final == HonorCancellation(r, o)
    IN /\ Fenced(r, k)
       /\ final[1] = "succeeded" => Complete(r)
       /\ runs' = [runs EXCEPT ![r] = ClosedWith(r,
                      [result |-> final[1], certainty |-> final[2], by |-> k])]
       /\ segments' = [segments EXCEPT ![r] = Finished(r, final[1], final[2])]
       /\ claims' = Released({r})
       /\ leases' = [leases EXCEPT ![r] = NoLease]
       /\ UNCHANGED <<covered, confirmed, lineKeys, runtime, sweep, beats>>

\* mark_executor_unknown: hardware work under this token ended uncertain.  The
\* token is compared, its expiry is not.
MarkExecutorUnknown(r, k) ==
    /\ k # 0
    /\ leases[r].segment = k
    /\ ExpireOne({r}, "executor_unknown")
    /\ UNCHANGED <<covered, confirmed, lineKeys, runtime, sweep, beats>>

-----------------------------------------------------------------------------
(* Operators: cancellation and attention. *)

Cancelled == [result |-> "cancelled", certainty |-> "known", by |-> 0]

\* Cancellation of a queued run commits its outcome in the same transaction.
CancelQueued(r) ==
    /\ runs[r].state = "queued"
    /\ runs' = [runs EXCEPT ![r] =
                   [ClosedWith(r, Cancelled) EXCEPT !.cancelRequested = TRUE]]
    /\ claims' = Released({r})
    /\ leases' = [leases EXCEPT ![r] = NoLease]

\* cancel_run: close queued work now, ask a leased executor to stop, refuse a
\* run that needs attention; a second request changes nothing.
CancelRun(r) ==
    /\ \/ CancelQueued(r)
       \/ /\ runs[r].state = "leased"
          /\ runs' = [runs EXCEPT ![r].cancelRequested = TRUE]
          /\ UNCHANGED <<claims, leases>>
    /\ UNCHANGED <<segments, covered, confirmed, lineKeys, runtime, sweep, beats>>

\* ProcedureResourceWaits.cancel: the parent procedure of a child that waits for
\* resources and never started is cancelled.
CancelWaitingChild(r) ==
    /\ ~HasSegment(r)
    /\ CancelQueued(r)
    /\ UNCHANGED <<segments, covered, confirmed, lineKeys, runtime, sweep, beats>>

\* The state checks of continue_run_after_attention_in_transaction.
MayContinue(r) ==
    /\ runs[r].state = "attention_required"
    /\ ~runs[r].cancelRequested

\* continue_run_after_attention_in_transaction without a line reconfirmation.
ContinueRun(r) ==
    /\ r \in Guarded => HasSegment(r)
    /\ MayContinue(r)
    /\ claims' = Released({r})
    /\ runs' = [runs EXCEPT ![r] = WithState(@, "queued", "none")]
    /\ UNCHANGED <<segments, leases, covered, confirmed, lineKeys, runtime, sweep, beats>>

\* Mutant of FreshKey: a repeated request mints another confirmation.
AnyKey(r, key) == TRUE
\* No continuation of the run was authorised with this request key before.
FreshKey(r, key) == key \notin lineKeys[r]

\* continue_run_after_attention_in_transaction with a line reconfirmation: valid
\* for the running daemon only.  A replayed key changes nothing.
ReconfirmLine(r, key) ==
    /\ r \in Guarded
    /\ FreshKey(r, key)
    /\ ~HasSegment(r)
    /\ runs[r].reason = "manual_line_confirmation_expired"
    /\ MayContinue(r)
    /\ claims' = Released({r})
    /\ runs' = [runs EXCEPT ![r] = WithState(@, "queued", "none")]
    /\ confirmed' = [confirmed EXCEPT ![r] = @ \cup {runtime}]
    /\ lineKeys' = [lineKeys EXCEPT ![r] = @ \cup {key}]
    /\ UNCHANGED <<segments, leases, covered, runtime, sweep, beats>>

\* resolve_attention with disposition "close".
CloseAttention(r) ==
    /\ runs[r].state = "attention_required"
    /\ runs' = [runs EXCEPT ![r] = ClosedWith(r,
                   [result |-> "failed", certainty |-> "indeterminate", by |-> 0])]
    /\ claims' = Released({r})
    /\ leases' = [leases EXCEPT ![r] = NoLease]
    /\ UNCHANGED <<segments, covered, confirmed, lineKeys, runtime, sweep, beats>>

-----------------------------------------------------------------------------
(* Time, the lease supervisor, and the restart of the daemon. *)

\* expires_at of a lease goes by.
LapseLease(r) ==
    /\ leases[r] # NoLease
    /\ ~leases[r].expired
    /\ leases' = [leases EXCEPT ![r].expired = TRUE]
    /\ UNCHANGED <<claims, runs, segments, covered, confirmed, lineKeys, runtime,
                   sweep, beats>>

\* expire_executor_leases lists the expired leases on a read connection ...
ReadExpiredLeases ==
    /\ sweep = {}
    /\ sweep' = {r \in Run : leases[r].expired}
    /\ sweep' # {}
    /\ leases' = [r \in Run |-> [leases[r] EXCEPT !.overdue = leases[r].expired]]
    /\ UNCHANGED <<claims, runs, segments, covered, confirmed, lineKeys, runtime,
                   beats>>

\* Mutant of StillExpired: a lease is let go until its run ends by itself.
ExpiredAndIdle(r) == leases[r].overdue /\ runs[r].state # "leased"
\* _expire_one compares the lease on record with the time of the pass.
StillExpired(r) == leases[r].overdue

\* ... and fences in a write transaction those that still are.
ExpireLeases ==
    /\ sweep # {}
    /\ ExpireOne({r \in sweep : StillExpired(r)}, "executor_lease_expired")
    /\ sweep' = {}
    /\ UNCHANGED <<covered, confirmed, lineKeys, runtime, beats>>

WithLease == {r \in Run : leases[r] # NoLease}

\* The daemon process ends and the next one starts: abandon_executor_leases runs
\* before any request is served, handlers in flight are gone.
RestartRunRows ==
    /\ runtime < MaxRuntime
    /\ runtime' = runtime + 1
    /\ LoseExecutors(WithLease, "daemon_restarted")
    /\ sweep' = {}
    /\ beats' = {}
    /\ UNCHANGED <<covered, confirmed, lineKeys>>

RestartRuns == RestartRunRows /\ claims' = AfterLoss(WithLease)

-----------------------------------------------------------------------------
ExecutorStep(r) ==
    \/ \E e \in Executor : StartExecution(r, e) \/ RetryStart(r, e)
    \/ RejectBusy(r)
    \/ RequireReconfirmation(r)
    \/ \E k \in 1..Len(segments[r]) :
          \/ ReadHeartbeatClock(r, k)
          \/ RenewLease(r, k)
          \/ \E n \in 1..PointCount : AdvanceCoverage(r, k, n)
          \/ \E o \in Reported : CommitTerminal(r, k, o)
          \/ MarkExecutorUnknown(r, k)

OperatorStep(r) ==
    \/ Admit(r)
    \/ CancelRun(r)
    \/ CancelWaitingChild(r)
    \/ ContinueRun(r)
    \/ \E key \in Key : ReconfirmLine(r, key)
    \/ CloseAttention(r)

\* Everything but the restart, which concerns the sessions as well.
RunStep ==
    \/ \E r \in Run : ExecutorStep(r) \/ OperatorStep(r) \/ LapseLease(r)
    \/ ReadExpiredLeases
    \/ ExpireLeases

RunNext == RunStep \/ RestartRuns

RunSpec == RunInit /\ [][RunNext]_runVars
-----------------------------------------------------------------------------
(* What these transactions promise together. *)

\* Attention that no execution led to: nothing was claimed.
WiringOnly(r) == runs[r].reason = "manual_line_confirmation_expired"

(***************************************************************************)
(* The claims of a run follow its scheduler state: all of its needs and    *)
(* active while it is leased, all of them quarantined while an interrupted *)
(* execution needs attention, none otherwise.  Two tables, eight           *)
(* transactions and a restart keep them together.                          *)
(***************************************************************************)
ClaimsMatchState ==
    \A r \in Run :
        IF runs[r].state = "leased" THEN HoldsExactly(r, "active")
        ELSE IF runs[r].state = "attention_required" /\ ~WiringOnly(r)
             THEN HoldsExactly(r, "quarantined")
             ELSE Held(r) = {}

(***************************************************************************)
(* At most one execution of a run is under way, and it is the last one:    *)
(* a run has a lease iff it is leased, the lease carries the token of the  *)
(* last segment, and every other segment has ended.                        *)
(***************************************************************************)
SingleExecution ==
    \A r \in Run :
        /\ leases[r] # NoLease <=> runs[r].state = "leased"
        /\ leases[r] # NoLease => leases[r].segment = Len(segments[r])
        /\ \A k \in 1..Len(segments[r]) :
              segments[r][k].result = "running" <=> leases[r].segment = k

(***************************************************************************)
(* The segments of a run cut its coverage into consecutive intervals, and  *)
(* every completed point was reported under the token of the segment whose *)
(* interval holds it: a fenced executor that comes back late never adds a  *)
(* point to the evidence of the execution that replaced it.                *)
(***************************************************************************)
CoverageAttributed ==
    \A r \in Run : \A k \in 1..Len(segments[r]) :
        LET seg == segments[r][k]
            last == IF seg.result = "running" THEN Coverage(r) ELSE seg.end
        IN /\ seg.start = IF k = 1 THEN 0 ELSE segments[r][k - 1].end
           /\ k = Len(segments[r]) => last = Coverage(r)
           /\ \A i \in (seg.start + 1)..last : covered[r][i] = k

(***************************************************************************)
(* A closed run has an outcome, no other run has one.  An outcome that an  *)
(* executor reported is that of the last segment and agrees with it, and   *)
(* success means that every planned point is covered; an outcome that the  *)
(* daemon wrote never covers up a segment that succeeded.                  *)
(***************************************************************************)
OutcomeFromLastExecutor ==
    \A r \in Run :
        LET o == runs[r].outcome
        IN /\ o # NoOutcome <=> runs[r].state = "closed"
           /\ o.by # 0 => /\ o.by = Len(segments[r])
                          /\ segments[r][o.by].result = o.result
           /\ o.result = "succeeded" => Coverage(r) = PointCount /\ o.by # 0
           /\ \A k \in 1..Len(segments[r]) :
                 segments[r][k].result = "succeeded" => o.by = k

\* A cancellation the daemon acknowledged is never followed by a success.
CancelledNeverSucceeds ==
    \A r \in Run : runs[r].cancelRequested => runs[r].outcome.result # "succeeded"

(***************************************************************************)
(* A guarded run first touches hardware under a daemon process for which a *)
(* human confirmed its wiring: one confirmation came with the submission,  *)
(* each other one used up a request key, whatever requests were repeated   *)
(* after later restarts.                                                   *)
(***************************************************************************)
WiringIsVouchedFor ==
    \A r \in Guarded :
        /\ HasSegment(r) => segments[r][1].runtime \in confirmed[r]
        /\ confirmed[r] # {} => Cardinality(confirmed[r]) <= Cardinality(lineKeys[r]) + 1

\* A closed run stays as it is: late commits, cancellations, retried starts, the
\* supervisor and restarts change nothing of it.
ClosedForever ==
    [][\A r \in Run : runs[r].state = "closed" =>
          runs'[r] = runs[r] /\ segments'[r] = segments[r] /\ covered'[r] = covered[r]]_runVars

\* After a cancellation was acknowledged no further execution starts, not even
\* when the cancelled executor is lost and the run goes through attention.
CancelledNeverRestarts ==
    [][\A r \in Run : runs[r].cancelRequested => Len(segments'[r]) = Len(segments[r])]_runVars

\* Quarantined resources are given back by a decision about their own run, never
\* by time, by another run or by a restart.
QuarantineNeedsDecision ==
    [][\A r \in Run : \A c \in Held(r) \ claims' :
          c.status = "quarantined" =>
              /\ runs[r].state = "attention_required"
              /\ runs'[r].state \in {"queued", "closed"}]_runVars

\* Points and executor outcomes are recorded only while the lease of the writing
\* segment runs, however late the request arrives.
WritesAreFenced ==
    [][\A r \in Run :
          covered'[r] # covered[r] \/ runs'[r].outcome.by # runs[r].outcome.by =>
              runs[r].state = "leased" /\ ~leases[r].expired]_runVars

\* The supervisor never fences an executor that renewed its lease after the
\* supervisor listed it.
RenewedIsSpared ==
    [][\A r \in Run :
          runs[r].state = "leased" /\ runs'[r].reason = "executor_lease_expired" =>
              leases[r].expired]_runVars
=============================================================================
