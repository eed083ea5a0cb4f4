---------------------------- MODULE AdaptivePlan ----------------------------
(***************************************************************************)
(* An adaptive run: its point plan grows while it is executed.             *)
(*                                                                         *)
(* The executor (_execution_coverage, AdaptiveDomainCoordinator) measures  *)
(* the points it has, asks its optimizer for more, and has every decision  *)
(* recorded by the daemon (SQLiteRunPointLedger) before it measures what   *)
(* the decision added.  Beside it operators queue requests for points,     *)
(* which the executor decides before it asks the optimizer again, cancel   *)
(* the run, or decide about one whose executor was lost.                   *)
(*                                                                         *)
(* A step is one transaction of the daemon, or what the executor does      *)
(* between two requests.  An answer may get lost; the daemon may then      *)
(* still serve the request, after the executor has gone on.  The           *)
(* transactions of the scheduler are those of RunControl, reduced to one   *)
(* run; records and acquisition are those of RunEvidence.                  *)
(***************************************************************************)
EXTENDS Integers, Sequences, SequencesExt, FiniteSets, FiniteSetsExt, Functions

CONSTANTS
    Regions,       \* the outer regions of the plan, in their order
    InitialPoints, \* how many of the authored points are in a region
    PointLimit,    \* total_point_limit
    RegionLimit,   \* per_region_point_limit
    ProposalLimit, \* proposal_limit: attempts of the optimizer (4 * PointLimit)
    MaxSize,       \* bound: points of a fragment
    RequestId,     \* ids of operator requests
    Executor,      \* client processes: each one starts the run at most once
    MaxMishaps,    \* bound: lost answers and crashes of executors
    None

Region == Range(Regions)
PointsIn(R) == FoldFunctionOnSet(+, 0, InitialPoints, R)
InitialCount == PointsIn(Region)

ASSUME AdaptiveAssumption ==
    /\ Regions \in Seq(Region) /\ Regions # <<>> /\ IsInjective(Regions)
    /\ InitialPoints \in [Region -> Nat]
    /\ PointLimit \in Nat /\ InitialCount \in 0..PointLimit
    /\ RegionLimit \in Nat /\ \A r \in Region : InitialPoints[r] =< RegionLimit
    /\ ProposalLimit \in Nat /\ MaxSize \in Nat \ {0} /\ MaxMishaps \in Nat
    /\ None \notin RequestId \cup {"succeeded", "failed", "cancelled"}

VARIABLES
    scope,     \* adaptive_scope of the admitted plan
    run,       \* scheduler_runs: state, lease holder, cancellation, result
    plan,      \* execution_point_plans: accepted_point_count, stop_operation_id
    decisions, \* execution_domain_decisions with the points they accepted
    queue,     \* execution_domain_queue
    covered,   \* execution_coverage
    ex,        \* the executors
    calls,     \* the request each executor waits for
    late,      \* requests nobody waits for any more
    mishaps

durable == <<run, plan, decisions, queue, covered>>
vars == <<scope, durable, ex, calls, late, mishaps>>

-----------------------------------------------------------------------------
Scope == {"per_region", "global"}

\* A fragment of size rows for each of some regions.
Proposal == [source : {"optimizer", "operator"}, regions : (SUBSET Region) \ {{}},
             size : 1..MaxSize]
Total(p) == p.size * Cardinality(p.regions)

\* What identifies a decision: the hash of its index, proposal, request and outcome.
Operation == [index : Nat, proposal : Proposal, request : RequestId \cup {None},
              outcome : {"accepted", "rejected"}]
Decision == [op : Operation, start : Nat]
\* The points of an accepted proposal: Total(proposal) of them, from start on.
Fragment == [start : Nat, proposal : Proposal]
End(f) == f.start + Total(f.proposal)
Added(op) == IF op.outcome = "accepted" THEN Total(op.proposal) ELSE 0

\* An operator's request; region_ids of a selected scope, and then at least one.
Entry == [id : RequestId, scope : {"current", "selected", "all"},
          regions : SUBSET Region, size : 1..MaxSize,
          status : {"pending", "accepted", "rejected", "cancelled"}]
Request == {q \in Entry : /\ q.status = "pending"
                          /\ q.scope = "selected" <=> q.regions # {}}
RegionCount(q) == CASE q.scope = "current" -> 1
                    [] q.scope = "selected" -> Cardinality(q.regions)
                    [] q.scope = "all" -> Cardinality(Region)
Wanted(q) == q.size * RegionCount(q)

NotClosed == <<>>
Abandoned == <<0, "abandoned">>
\* operation_id of a closure: the points the executor has completed, and why it stops.
ClosedAt(n, reason) == <<n, reason>>

Reason == {"optimizer", "regions", "budget"}

\* points: the fragments the executor measures beyond the initial points; ledger:
\* the decisions of its coordinator; open: regions the optimizer has not closed;
\* done, told: points measured, and reported as coverage; over: the optimizer is
\* through; request: the entry it decides; result: how it ends the run.
NewExecutor == [pc |-> "new", points |-> {}, ledger |-> <<>>, open |-> Region,
                done |-> 0, told |-> 0, over |-> FALSE, request |-> None,
                result |-> "failed"]
\* An executor that has left; of its life only what it measured is still of interest.
Left(x) == [x EXCEPT !.pc = "left", !.ledger = <<>>, !.request = None,
                     !.open = Region, !.over = FALSE, !.told = 0]

NoCall == [kind |-> "none"]

Init ==
    /\ scope \in Scope
    /\ run = [state |-> "queued", holder |-> None, started |-> FALSE,
              cancelled |-> FALSE, result |-> None]
    /\ plan = [accepted |-> InitialCount, stop |-> NotClosed]
    /\ decisions = <<>>
    /\ queue = <<>>
    /\ covered = 0
    /\ ex = [e \in Executor |-> NewExecutor]
    /\ calls = [e \in Executor |-> NoCall]
    /\ late = {}
    /\ mishaps = 0

-----------------------------------------------------------------------------
(* The ledger in the daemon. *)

\* fenced_write: only the executor with the lease gets in.
Fenced(e) == run.state = "leased" /\ run.holder = e

Pending(id) == {i \in DOMAIN queue : queue[i].id = id /\ queue[i].status = "pending"}

\* Mutant of CancelPending: the queue is left as it is.
KeepPending(q) == q
\* _cancel_pending_queue_in_transaction
CancelPending(q) ==
    [i \in DOMAIN q |-> IF q[i].status = "pending"
                        THEN [q[i] EXCEPT !.status = "cancelled"] ELSE q[i]]

\* abandon_in_transaction: the run ends without success.
AbandonPlan ==
    IF plan.stop = NotClosed
    THEN /\ plan' = [plan EXCEPT !.stop = Abandoned]
         /\ queue' = CancelPending(queue)
    ELSE UNCHANGED <<plan, queue>>

\* The decision that is on record under the operation of a request.
Recorded(c) == {i \in DOMAIN decisions : decisions[i].op = c.op}

\* The checks of append_decision_in_transaction and _queued_entry_for_decision.
Decidable(c) ==
    IF Recorded(c) # {}
    THEN \A i \in Recorded(c) : decisions[i].start = c.start
    ELSE /\ plan.stop = NotClosed
         /\ c.op.request # None => Pending(c.op.request) # {}
         /\ c.op.outcome = "accepted" =>
                /\ plan.accepted + Added(c.op) =< PointLimit
                /\ c.start = plan.accepted

\* _resolve_queue_entry_in_transaction
Resolved(q, op) ==
    [i \in DOMAIN q |-> IF op.request # None /\ q[i].id = op.request
                        THEN [q[i] EXCEPT !.status = op.outcome] ELSE q[i]]

\* append_run_domain_decision: a decision that is on record already changes nothing.
RecordDecision(c) ==
    /\ IF Recorded(c) # {}
       THEN UNCHANGED <<plan, decisions, queue>>
       ELSE /\ decisions' = Append(decisions, [op |-> c.op, start |-> c.start])
            /\ plan' = [plan EXCEPT !.accepted = @ + Added(c.op)]
            /\ queue' = Resolved(queue, c.op)
    /\ UNCHANGED <<run, covered>>
\* The executor compares the index it is given with its own.
SameIndex(c) ==
    IF Recorded(c) # {} THEN \E i \in Recorded(c) : i = c.op.index + 1
    ELSE Len(decisions) = c.op.index

\* Mutant of AtAcceptedPrefix: what the executor itself has completed is not asked.
AtCoveredPrefix(c) == covered = plan.accepted
\* A plan closes only where coverage, executor and ledger agree.
AtAcceptedPrefix(c) == c.completed = covered /\ covered = plan.accepted

\* close_run_point_plan
Closable(c) ==
    IF plan.stop # NotClosed THEN plan.stop = ClosedAt(c.completed, c.reason)
    ELSE AtAcceptedPrefix(c)
ClosePlan(c) ==
    /\ plan' = [plan EXCEPT !.stop = ClosedAt(c.completed, c.reason)]
    /\ queue' = IF plan.stop = NotClosed THEN CancelPending(queue) ELSE queue
    /\ UNCHANGED <<run, decisions, covered>>

\* advance_in_transaction: the next prefix, or what is covered already.
Coverable(c) == c.end =< covered \/ c.start = covered
Cover(c) ==
    /\ covered' = Max({covered, c.end})
    /\ UNCHANGED <<run, plan, decisions, queue>>

\* _honor_cancellation
FinalResult(c) == IF run.cancelled /\ c.result = "succeeded" THEN "cancelled" ELSE c.result
\* _validate_successful_point_progress_in_transaction, of an adaptive plan.
Committable(c) ==
    FinalResult(c) = "succeeded" =>
        /\ covered \in InitialCount..PointLimit
        /\ plan.stop # NotClosed
        /\ covered = plan.accepted
Closed(result) == [run EXCEPT !.state = "closed", !.result = result]
\* commit_terminal_with_authority
CommitTerminal(c) ==
    /\ run' = Closed(FinalResult(c))
    /\ IF FinalResult(c) = "succeeded" THEN UNCHANGED <<plan, queue>> ELSE AbandonPlan
    /\ UNCHANGED <<decisions, covered>>

\* Whether the daemon serves a request, and what it does then.
Served(c) ==
    /\ Fenced(c.from)
    /\ CASE c.kind = "append" -> Decidable(c)
         [] c.kind = "close" -> Closable(c)
         [] c.kind = "cover" -> Coverable(c)
         [] c.kind = "commit" -> Committable(c)
Serve(c) ==
    \/ c.kind = "append" /\ RecordDecision(c)
    \/ c.kind = "close" /\ ClosePlan(c)
    \/ c.kind = "cover" /\ Cover(c)
    \/ c.kind = "commit" /\ CommitTerminal(c)

-----------------------------------------------------------------------------
(* The executor. *)

\* How far the initial points and some fragments reach.
Extent(F) == Max({InitialCount} \cup {End(f) : f \in F})
\* len(state.points): what the executor has to measure.
PointCount(e) == Extent(ex[e].points)

\* The coordinator's view: decisions are counted before the daemon has them.
AcceptedBy(e) == LET Yes(op) == op.outcome = "accepted" IN SelectSeq(ex[e].ledger, Yes)
AcceptedCount(e) ==
    InitialCount + FoldSeq(LAMBDA op, n : Total(op.proposal) + n, 0, AcceptedBy(e))
InRegion(e, r) ==
    InitialPoints[r] + FoldSeq(LAMBDA op, n : IF r \in op.proposal.regions
                                              THEN op.proposal.size + n ELSE n,
                               0, AcceptedBy(e))
Attempts(e) ==
    LET Own(op) == op.proposal.source = "optimizer" IN Len(SelectSeq(ex[e].ledger, Own))

\* Regions that optimizer_context would offer; the first one is current.
Open(e) == {r \in ex[e].open : InRegion(e, r) < RegionLimit}
NoRegion(e) == scope = "per_region" /\ Open(e) = {}
Current(e) == Regions[Min({i \in DOMAIN Regions : Regions[i] \in Open(e)})]

\* bind: budgets, and regions the optimizer has closed are closed for it.
Fits(e, p) ==
    /\ p.source = "optimizer" => p.regions \subseteq ex[e].open
    /\ AcceptedCount(e) + Total(p) =< PointLimit
    /\ \A r \in p.regions : InRegion(e, r) + p.size =< RegionLimit

\* operator_proposal: a current region exists where the optimizer works by region.
Resolvable(q) == q.scope = "current" => scope = "per_region"
Selected(e, q) == CASE q.scope = "current" -> {Current(e)}
                    [] q.scope = "all" -> Region
                    [] q.scope = "selected" -> q.regions
OperatorProposal(e, q) ==
    [source |-> "operator", regions |-> Selected(e, q), size |-> q.size]

Set(e, x) == ex' = [ex EXCEPT ![e] = x]
Send(e, c, pc) ==
    /\ calls' = [calls EXCEPT ![e] = c]
    /\ Set(e, [ex[e] EXCEPT !.pc = pc])
Local == UNCHANGED <<scope, durable, late, mishaps>>

\* execute_admitted_run reads the execution segments before it asks for the lease;
\* _validate_static_continuation refuses an adaptive run that has one.
ReadHistory(e) ==
    /\ ex[e].pc = "new"
    /\ Set(e, [ex[e] EXCEPT !.pc = IF run.started \/ run.state = "closed" THEN "left"
                                                                         ELSE "starting"])
    /\ UNCHANGED calls /\ Local

\* start_executor; cancellation_requested before any effect ends the run.
Start(e) ==
    /\ ex[e].pc = "starting"
    /\ IF run.state = "queued"
       THEN /\ run' = [run EXCEPT !.state = "leased", !.holder = e, !.started = TRUE]
            /\ Set(e, [ex[e] EXCEPT !.pc = "measuring"])
       ELSE /\ Set(e, [ex[e] EXCEPT !.pc = "left"])
            /\ UNCHANGED run
    /\ UNCHANGED <<scope, plan, decisions, queue, covered, calls, late, mishaps>>

Measure(e) ==
    /\ ex[e].pc = "measuring"
    /\ ex[e].done < PointCount(e)
    /\ Set(e, [ex[e] EXCEPT !.done = @ + 1])
    /\ UNCHANGED calls /\ Local

Coverage(e) == [kind |-> "cover", from |-> e, start |-> ex[e].told, end |-> ex[e].done]

\* Coverage is reported when the last report is long enough ago, at any point of a
\* fragment, and by durable_progress before the next decision.
Flush(e) ==
    /\ ex[e].pc = "measuring"
    /\ \/ /\ ex[e].told < ex[e].done
          /\ Send(e, Coverage(e), "covering")
       \/ /\ ~(ex[e].told < ex[e].done)
          /\ ex[e].done = PointCount(e)
          /\ Set(e, [ex[e] EXCEPT !.pc = "choosing"])
          /\ UNCHANGED calls
    /\ Local

\* The loop condition, and next_queued.
ReadQueue(e) ==
    /\ ex[e].pc = "choosing"
    /\ PointCount(e) < PointLimit /\ ~ex[e].over
    /\ LET waiting == {i \in DOMAIN queue : queue[i].status = "pending"}
       IN Set(e, [ex[e] EXCEPT !.pc = "proposing",
                     !.request = IF waiting = {} THEN None ELSE queue[Min(waiting)].id])
    /\ UNCHANGED calls /\ Local
TheRequest(e) == CHOOSE q \in Range(queue) : q.id = ex[e].request

\* A decision goes into the coordinator's ledger and to the daemon.
Decide(e, p, outcome) ==
    LET op == [index |-> Len(ex[e].ledger), proposal |-> p,
               request |-> ex[e].request, outcome |-> outcome]
    IN /\ outcome = "accepted" => Fits(e, p)
       /\ calls' = [calls EXCEPT ![e] = [kind |-> "append", from |-> e, op |-> op,
         start |-> IF outcome = "accepted" THEN PointCount(e) ELSE 0]]
       /\ Set(e, [ex[e] EXCEPT !.pc = "appending", !.ledger = Append(@, op)])

\* The operator's request comes first.  A proposal is rejected if it does not fit
\* or a target cannot compile it.
DecideRequest(e) ==
    /\ ex[e].pc = "proposing" /\ ex[e].request # None /\ ~NoRegion(e)
    /\ Resolvable(TheRequest(e))
    /\ \E outcome \in {"accepted", "rejected"} :
           Decide(e, OperatorProposal(e, TheRequest(e)), outcome)
    /\ Local

DecideProposal(e) ==
    /\ ex[e].pc = "proposing" /\ ex[e].request = None /\ ~NoRegion(e)
    /\ Attempts(e) < ProposalLimit
    /\ \E R \in (SUBSET Region) \ {{}}, n \in 1..MaxSize, outcome \in {"accepted", "rejected"} :
           Decide(e, [source |-> "optimizer", regions |-> R, size |-> n], outcome)
    /\ Local

\* RegionOptimizationComplete of the current region, or OptimizationComplete.
CompleteOptimization(e) ==
    /\ ex[e].pc = "proposing" /\ ex[e].request = None /\ ~NoRegion(e)
    /\ Attempts(e) < ProposalLimit
    /\ \/ Set(e, [ex[e] EXCEPT !.pc = "choosing", !.over = TRUE])
       \/ /\ scope = "per_region"
          /\ Set(e, [ex[e] EXCEPT !.pc = "choosing", !.open = @ \ {Current(e)}])
    /\ UNCHANGED calls /\ Local

StopReason(e) == IF ex[e].over THEN "optimizer"
                 ELSE IF PointCount(e) < PointLimit THEN "regions" ELSE "budget"
\* The loop is left: everything the plan has is to be measured.
SendClose(e) ==
    /\ \/ ex[e].pc = "choosing" /\ (PointCount(e) = PointLimit \/ ex[e].over)
       \/ ex[e].pc = "proposing" /\ NoRegion(e)
    /\ Send(e, [kind |-> "close", from |-> e, completed |-> ex[e].done,
                reason |-> StopReason(e)], "closing")
    /\ Local

Finish(e, result) == Set(e, [ex[e] EXCEPT !.pc = "finishing", !.result = result,
                                          !.request = None])

\* A device, a read, or the optimizer fails; so do a request for the current region
\* of a plan without one, and an optimizer that has used up its attempts.
Fail(e) ==
    /\ ex[e].pc \in {"measuring", "choosing", "proposing", "closed"}
    /\ Finish(e, "failed")
    /\ UNCHANGED calls /\ Local

\* cancellation_requested is looked at around the effects, and after the last one.
StopForCancellation(e) ==
    /\ ex[e].pc \in {"measuring", "closed"} /\ Fenced(e) /\ run.cancelled
    /\ Finish(e, "cancelled")
    /\ UNCHANGED calls /\ Local
EndLoop(e) ==
    /\ ex[e].pc = "closed"
    /\ Finish(e, "succeeded")
    /\ UNCHANGED calls /\ Local

\* _flush_execution_progress once more, then commit_terminal.
SendLastCoverage(e) ==
    /\ ex[e].pc = "finishing" /\ ex[e].told < ex[e].done
    /\ Send(e, Coverage(e), "flushing")
    /\ Local
SendCommit(e) ==
    /\ ex[e].pc = "finishing" /\ ex[e].told = ex[e].done
    /\ Send(e, [kind |-> "commit", from |-> e, result |-> ex[e].result], "committing")
    /\ Local

\* Mutant of Extend: the points of a proposal are measured whatever its outcome.
ExtendAnyway(x, c) == x.points \cup {[start |-> c.start, proposal |-> c.op.proposal]}
\* state.points.extend, once the decision is on record.
Extend(x, c) ==
    IF c.op.outcome = "accepted"
    THEN x.points \cup {[start |-> c.start, proposal |-> c.op.proposal]} ELSE x.points

\* What an executor does with the answer to its request ...
Answered(e) ==
    LET x == ex[e]  c == calls[e]
    IN CASE x.pc = "covering" -> [x EXCEPT !.pc = "measuring", !.told = c.end]
         [] x.pc = "appending" -> [x EXCEPT !.pc = "measuring", !.request = None,
                                             !.points = Extend(x, c)]
         [] x.pc = "closing" -> [x EXCEPT !.pc = "closed"]
         [] x.pc = "flushing" -> [x EXCEPT !.pc = "finishing", !.told = c.end]
         [] x.pc = "committing" -> Left(x)
\* ... and without one.  RunFinalizationFailed leaves the run to the supervisor.
Unanswered(e) ==
    LET x == ex[e]
    IN CASE x.pc \in {"covering", "appending", "closing"} ->
                [x EXCEPT !.pc = "finishing", !.result = "failed", !.request = None]
         [] x.pc = "flushing" ->
                [x EXCEPT !.pc = "finishing", !.told = x.done,
                          !.result = IF @ = "cancelled" THEN @ ELSE "failed"]
         [] x.pc = "committing" -> Left(x)

ServeCall(e) ==
    LET c == calls[e]
    IN /\ c # NoCall
       /\ calls' = [calls EXCEPT ![e] = NoCall]
       /\ \/ /\ Served(c) /\ Serve(c)
             /\ Set(e, IF c.kind = "append" /\ ~SameIndex(c) THEN Unanswered(e)
                                                            ELSE Answered(e))
          \/ /\ ~Served(c) /\ UNCHANGED durable
             /\ Set(e, Unanswered(e))
       /\ UNCHANGED <<scope, late, mishaps>>

\* The answer gets lost, before or after the daemon has served the request.
LoseAnswer(e) ==
    /\ calls[e] # NoCall
    /\ mishaps < MaxMishaps /\ mishaps' = mishaps + 1
    /\ late' = late \cup {calls[e]}
    /\ calls' = [calls EXCEPT ![e] = NoCall]
    /\ Set(e, Unanswered(e))
    /\ UNCHANGED <<scope, durable>>
ServeLate(c) ==
    /\ Served(c) /\ Serve(c)
    /\ late' = late \ {c}
    /\ UNCHANGED <<scope, ex, calls, mishaps>>

\* The client process ends.
Crash(e) ==
    /\ ex[e].pc \notin {"new", "left"}
    /\ mishaps < MaxMishaps /\ mishaps' = mishaps + 1
    /\ late' = late \cup ({calls[e]} \ {NoCall})
    /\ calls' = [calls EXCEPT ![e] = NoCall]
    /\ Set(e, Left(ex[e]))
    /\ UNCHANGED <<scope, durable>>

-----------------------------------------------------------------------------
(* Operators and the supervisor. *)

Requested == {q.id : q \in Range(queue)}
PendingPoints == LET waiting == {i \in DOMAIN queue : queue[i].status = "pending"}
                 IN MapThenSumSet(LAMBDA i : Wanted(queue[i]), waiting)

\* enqueue: what waits already counts against the remaining budget.  A request id
\* that is known changes nothing.
Enqueue(q) ==
    /\ run.state = "leased"
    /\ q.id \notin Requested
    /\ plan.stop = NotClosed
    /\ PendingPoints + Wanted(q) =< PointLimit - plan.accepted
    /\ queue' = Append(queue, q)
    /\ UNCHANGED <<scope, run, plan, decisions, covered, ex, calls, late, mishaps>>

\* cancel_run
CancelRun ==
    /\ \/ /\ run.state = "queued"
          /\ run' = [Closed("cancelled") EXCEPT !.cancelled = TRUE]
          /\ AbandonPlan
       \/ /\ run.state = "leased" /\ ~run.cancelled
          /\ run' = [run EXCEPT !.cancelled = TRUE]
          /\ UNCHANGED <<plan, queue>>
    /\ UNCHANGED <<scope, decisions, covered, ex, calls, late, mishaps>>

\* Nobody renews the lease of an executor that has left; else it lapses when
\* heartbeats are held up, and the daemon fences it when it restarts.
LoseLease ==
    /\ run.state = "leased"
    /\ run' = [run EXCEPT !.state = "attention"]
    /\ UNCHANGED <<scope, plan, decisions, queue, covered, ex, calls, late>>
LapseLease == LoseLease /\ ex[run.holder].pc = "left" /\ UNCHANGED mishaps
FenceLease ==
    /\ LoseLease
    /\ ex[run.holder].pc # "left" /\ mishaps < MaxMishaps
    /\ mishaps' = mishaps + 1

\* resolve_attention
ContinueRun ==
    /\ run.state = "attention" /\ ~run.cancelled
    /\ run' = [run EXCEPT !.state = "queued"]
    /\ UNCHANGED <<scope, plan, decisions, queue, covered, ex, calls, late, mishaps>>
CloseAttention ==
    /\ run.state = "attention"
    /\ run' = Closed("failed")
    /\ AbandonPlan
    /\ UNCHANGED <<scope, decisions, covered, ex, calls, late, mishaps>>

-----------------------------------------------------------------------------
Step(e) ==
    \/ ReadHistory(e) \/ Start(e) \/ Measure(e) \/ Flush(e) \/ ReadQueue(e)
    \/ DecideRequest(e) \/ DecideProposal(e) \/ CompleteOptimization(e)
    \/ SendClose(e) \/ Fail(e) \/ StopForCancellation(e) \/ EndLoop(e)
    \/ SendLastCoverage(e) \/ SendCommit(e) \/ ServeCall(e)

Next ==
    \/ \E e \in Executor : Step(e) \/ LoseAnswer(e) \/ Crash(e)
    \/ \E c \in late : ServeLate(c)
    \/ \E q \in Request : Enqueue(q)
    \/ CancelRun \/ LapseLease \/ FenceLease \/ ContinueRun \/ CloseAttention

Spec == Init /\ [][Next]_vars

-----------------------------------------------------------------------------
Process == [pc : {"new", "starting", "measuring", "covering", "choosing", "proposing", "appending",
                  "closing", "closed", "finishing", "flushing", "committing", "left"},
            points : SUBSET Fragment, ledger : Seq(Operation), open : SUBSET Region,
            done : Nat, told : Nat, over : BOOLEAN, request : RequestId \cup {None},
            result : {"succeeded", "failed", "cancelled"}]
PlanTypeOK ==
    /\ scope \in Scope
    /\ run \in [state : {"queued", "leased", "attention", "closed"},
                holder : Executor \cup {None}, started : BOOLEAN, cancelled : BOOLEAN,
                result : {None, "succeeded", "failed", "cancelled"}]
    /\ plan \in [accepted : InitialCount..PointLimit,
                 stop : {NotClosed, Abandoned} \cup (Nat \X Reason)]
    /\ decisions \in Seq(Decision)
    /\ queue \in Seq(Entry)
    /\ covered \in 0..PointLimit
    /\ ex \in [Executor -> Process]
    /\ mishaps \in 0..MaxMishaps

\* The points on record, beyond the initial ones.
Fragments == {[start |-> d.start, proposal |-> d.op.proposal] :
                  d \in {e \in Range(decisions) : e.op.outcome = "accepted"}}
PointsOf(f) == f.start..(End(f) - 1)

(***************************************************************************)
(* What is measured was accepted first.  The accepted fragments take up    *)
(* the plan without a gap and without an overlap; what an executor goes by *)
(* is those of them that make up a prefix of the plan, in the same places; *)
(* and neither a measurement nor the coverage is ahead of them, whatever   *)
(* answers get lost and whoever continues the run.                         *)
(***************************************************************************)
PlanLeadsExecutors ==
    /\ InitialCount..(plan.accepted - 1) = UNION {PointsOf(f) : f \in Fragments}
    /\ \A f, g \in Fragments : f # g => PointsOf(f) \cap PointsOf(g) = {}
    /\ covered =< plan.accepted
    /\ \A e \in Executor :
          /\ ex[e].points = {f \in Fragments : f.start < PointCount(e)}
          /\ ex[e].done =< PointCount(e) /\ PointCount(e) =< plan.accepted

(***************************************************************************)
(* An operator is told the truth about a request: pending while the plan   *)
(* can still grow, then accepted or rejected if exactly one decision       *)
(* answers it and says so, cancelled if none does.                         *)
(***************************************************************************)
AnswersAreTrue ==
    \A q \in Range(queue) :
        LET answers == {i \in DOMAIN decisions : decisions[i].op.request = q.id}
        IN /\ q.status \in {"accepted", "rejected"} =>
                 /\ Cardinality(answers) = 1
                 /\ \A i \in answers : /\ decisions[i].op.outcome = q.status
                                        /\ decisions[i].op.proposal.size = q.size
           /\ q.status \in {"pending", "cancelled"} => answers = {}
           /\ q.status = "pending" => plan.stop = NotClosed /\ run.state # "closed"

(***************************************************************************)
(* A run that succeeds has measured its whole plan: the executor that      *)
(* committed it has taken every point ever accepted, by itself, and the    *)
(* coverage says so.                                                       *)
(***************************************************************************)
SuccessIsWholePlan ==
    run.result = "succeeded" =>
        LET x == ex[run.holder]
        IN /\ plan.stop \notin {NotClosed, Abandoned}
           /\ x.points = Fragments
           /\ x.done = plan.accepted /\ covered = plan.accepted
=============================================================================
