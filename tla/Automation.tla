----------------------------- MODULE Automation -----------------------------
(***************************************************************************)
(* One durable procedure (services/automation.py): a sequence of steps     *)
(* that workers replay from the beginning under a lease, each checkpointed *)
(* by a transaction of the daemon.  Workers (automation/worker.py) end,    *)
(* lose answers or their lease at any point; operators cancel, answer and  *)
(* retry.                                                                  *)
(*                                                                         *)
(* A command is two steps: it is sent, when the daemon reads its clock,    *)
(* and it is served when the writer gets to it.  Revisions are compared    *)
(* for equality only, so a worker keeps whether its snapshot is current,   *)
(* older by exactly a cancellation, or stale.  A token is the worker it    *)
(* was granted to: a worker has no command under way when it acquires.     *)
(***************************************************************************)
EXTENDS Integers, Sequences

CONSTANTS
    Worker,
    Definition,    \* the operations of the steps: "run" or "interpretation"
    MaxAttempts,   \* bound: attempts of a step that operators ask for
    MaxMishaps,    \* bound: crashes, lost answers, yields, pauses, contention
    None

ASSUME AutomationAssumption ==
    /\ Definition \in Seq({"run", "interpretation"})
    /\ MaxAttempts \in Nat \ {0} /\ MaxMishaps \in Nat
    /\ None \notin Worker

VARIABLES
    run,        \* procedure_runs: state, cancellation, resource_wait, closure
    attempts,   \* procedure_step_attempts: the states of the attempts per step
    lease,      \* procedure_leases
    wk,         \* the workers and the command each has under way
    child,      \* scheduler_runs: the child runs of the steps, which outlive workers
    blocked,    \* another owner holds what the children need
    mishaps

tables == <<run, attempts, lease>>
vars == <<tables, wk, child, blocked, mishaps>>

-----------------------------------------------------------------------------
Step == 1..Len(Definition)
NoLease == [holder |-> None, expired |-> FALSE]
Idle == [pc |-> "idle", step |-> 1, known |-> "stale", cancelSeen |-> FALSE,
         late |-> FALSE, status |-> "none"]

Command == {"acquire", "begin", "complete", "fail", "attention", "ask", "wait",
            "park", "close", "release"}

\* How a child run closes; a cancelled one has failed for the step.
Outcome == {"succeeded", "failed", "unknown"}

AutomationTypeOK ==
    /\ run \in [state : {"ready", "leased", "waiting_for_input", "attention_required",
                         "closed"},
                cancel : BOOLEAN, wait : 0..Len(Definition),
                closure : {"none", "succeeded", "failed", "cancelled"},
                reason : {"none", "run", "step"}]
    /\ \A k \in Step : \A i \in 1..Len(attempts[k]) :
          attempts[k][i] \in {"running", "waiting_for_input", "succeeded", "failed",
                              "attention_required"}
    /\ lease \in [holder : Worker, expired : BOOLEAN] \cup {NoLease}
    /\ wk \in [Worker -> [pc : Command \cup {"idle", "step", "effect", "executing"},
                          step : 1..(Len(Definition) + 1),
                          known : {"current", "cancelled_since", "stale"},
                          cancelSeen : BOOLEAN, late : BOOLEAN,
                          status : {"none", "succeeded", "failed", "cancelled"}]]
    /\ child \in [Step -> {"absent", "queued", "leased", "fenced"} \cup Outcome]
    /\ blocked \in BOOLEAN
    /\ mishaps \in 0..MaxMishaps

Init ==
    /\ run = [state |-> "ready", cancel |-> FALSE, wait |-> 0, closure |-> "none",
              reason |-> "none"]
    /\ attempts = [k \in Step |-> <<>>]
    /\ lease = NoLease
    /\ wk = [w \in Worker |-> Idle]
    /\ child = [k \in Step |-> "absent"]
    /\ blocked \in BOOLEAN
    /\ mishaps = 0

-----------------------------------------------------------------------------
(* The rows. *)

Latest(k) == IF attempts[k] = <<>> THEN "none" ELSE attempts[k][Len(attempts[k])]
SomeRunning == \E k \in Step : \E i \in 1..Len(attempts[k]) : attempts[k][i] = "running"
WithLatest(k, state) == [attempts EXCEPT ![k][Len(attempts[k])] = state]

InState(state) == [run EXCEPT !.state = state, !.reason = "none"]
ClosedAs(status) == [InState("closed") EXCEPT !.closure = status]

NeverStarted(k) == child[k] \in {"absent", "queued"}
ChildClosed(k) == child[k] \in Outcome
\* resource_waits.ready, and the child's part of list_runnable.
ChildReady(k) == ChildClosed(k) \/ (NeverStarted(k) /\ ~blocked)
\* resource_waits.cancel closes a child that never started.
CancelledChild(k) ==
    [child EXCEPT ![k] = IF NeverStarted(k) THEN "failed" ELSE @]

\* _require_live_lease with the clock of the command, and _leased_run.
HasLease(w) == lease.holder = w /\ ~wk[w].late
Leased(w) == run.state = "leased" /\ HasLease(w)
\* Mutant of Current: a command is served whatever happened since its snapshot.
CurrentAnyway(w) == wk[w].known # "none"
\* _require_revision
Current(w) == wk[w].known = "current"

-----------------------------------------------------------------------------
(* The worker's side of a command. *)

\* The worker goes on at another point with the run it was answered.
At(w, pc) == [wk[w] EXCEPT !.pc = pc]
\* The daemon reads its clock for the command it is sent.
Sending(w, command) == [At(w, command) EXCEPT !.late = lease.expired]
Closing(w, status) == [Sending(w, "close") EXCEPT !.status = status]

\* Everybody's snapshot is out of date but that of the worker who is answered.
Answer(w, next) ==
    wk' = [v \in Worker |->
              IF v = w THEN [next EXCEPT !.known = "current", !.cancelSeen = run.cancel]
              ELSE [wk[v] EXCEPT !.known = "stale"]]
\* A replay changes no row; its answer carries the run as it is.
Replay(w, next) ==
    /\ wk' = [wk EXCEPT ![w] = [next EXCEPT !.known = "current",
                                            !.cancelSeen = run.cancel]]
    /\ UNCHANGED tables
Exit(w) == wk' = [wk EXCEPT ![w] = Idle]
\* The command ended the worker's part in the procedure.
Leave(w) ==
    wk' = [v \in Worker |->
              IF v = w THEN Idle ELSE [wk[v] EXCEPT !.known = "stale"]]

(***************************************************************************)
(* fenced_call after a refusal: the one external write it recovers from is *)
(* a cancellation under its live lease.  A begin becomes the end of the    *)
(* procedure, anything else is sent once more; otherwise the worker gives  *)
(* up and leaves its lease to expire.                                      *)
(***************************************************************************)
Refused(w) ==
    /\ wk' = [wk EXCEPT ![w] =
          IF run.state = "leased" /\ run.cancel /\ @.known = "cancelled_since"
          THEN [(IF @.pc = "begin" THEN Closing(w, "cancelled") ELSE Sending(w, @.pc))
                   EXCEPT !.known = "current", !.cancelSeen = TRUE]
          ELSE Idle]
    /\ UNCHANGED tables

-----------------------------------------------------------------------------
(* Acquisition. *)

\* list_runnable, then the clock of _acquire_lease.
Discover(w) ==
    /\ wk[w].pc = "idle"
    /\ run.state = "ready" \/ (run.state = "leased" /\ lease.expired)
    /\ run.wait # 0 => ChildReady(run.wait)
    /\ wk' = [wk EXCEPT ![w] = [Sending(w, "acquire") EXCEPT !.known = "current"]]
    /\ UNCHANGED <<tables, child, blocked, mishaps>>

\* Mutant of Acquirable: a leased procedure stays with the worker it was given to.
AcquirableOnce(w) == run.state = "ready" /\ (run.wait # 0 => ChildReady(run.wait))
\* Ready, and its child as well if it waits for one; or a lease that had expired
\* when the clock was read.
Acquirable(w) ==
    \/ run.state = "ready" /\ (run.wait # 0 => ChildReady(run.wait))
    \/ run.state = "leased" /\ wk[w].late

Acquire(w) ==
    /\ wk[w].pc = "acquire"
    /\ IF Current(w) /\ Acquirable(w)
       THEN /\ run' = InState("leased")
            /\ lease' = [holder |-> w, expired |-> FALSE]
            /\ Answer(w, [Idle EXCEPT !.pc = "step"])
            /\ UNCHANGED attempts
       ELSE Exit(w) /\ UNCHANGED tables
    /\ UNCHANGED <<child, blocked, mishaps>>

-----------------------------------------------------------------------------
(* The definition replays: what a worker does between two commands. *)

(***************************************************************************)
(* The next step of the definition.  A cancellation the worker knows of    *)
(* ends the replay before another step begins; after the last step the     *)
(* procedure is closed.                                                    *)
(***************************************************************************)
NextStep(w) ==
    /\ wk[w].pc = "step"
    /\ wk' = [wk EXCEPT ![w] =
          IF @.step > Len(Definition) THEN Closing(w, "succeeded")
          ELSE IF @.cancelSeen THEN Closing(w, "cancelled")
          ELSE Sending(w, "begin")]
    /\ UNCHANGED <<tables, child, blocked, mishaps>>

\* The definition asks for attention outside of its steps.  A replay comes to the
\* step that was begun last, so it never asks before one.
AskForAttention(w) ==
    /\ wk[w].pc = "step"
    /\ wk[w].step \in Step => attempts[wk[w].step] = <<>>
    /\ wk' = [wk EXCEPT ![w] = Sending(w, "park")]
    /\ UNCHANGED <<tables, child, blocked, mishaps>>

\* The heartbeat thread has noticed that the lease is gone.
NoticeLoss(w) ==
    /\ wk[w].pc \in {"step", "effect"}
    /\ lease.holder # w \/ lease.expired
    /\ Exit(w)
    /\ UNCHANGED <<tables, child, blocked, mishaps>>

\* A shutdown asks the worker to stop before its next step.
Yield(w) ==
    /\ mishaps < MaxMishaps
    /\ wk[w].pc = "step" /\ wk[w].step \in Step
    /\ wk' = [wk EXCEPT ![w] = Sending(w, "release")]
    /\ mishaps' = mishaps + 1
    /\ UNCHANGED <<tables, child, blocked>>

(***************************************************************************)
(* The effect of a "run" step submits a child under the operation id that  *)
(* all attempts of the step share and starts it as the executor of that    *)
(* name: a start is answered with the lease that is out already, so the    *)
(* worker joins whoever executes the child.  One that is not admitted to   *)
(* its resources is left to wait, the start of a fenced one is refused.    *)
(***************************************************************************)
Verdict(outcome) ==
    CASE outcome = "succeeded" -> "complete"
      [] outcome = "failed" -> "fail"
      [] outcome = "unknown" -> "attention"

Effect(w) ==
    LET k == wk[w].step IN
    /\ wk[w].pc = "effect"
    /\ \/ /\ NeverStarted(k) /\ blocked
          /\ child' = [child EXCEPT ![k] = "queued"]
          /\ wk' = [wk EXCEPT ![w] = Sending(w, "wait")]
       \/ /\ child[k] = "leased" \/ (NeverStarted(k) /\ ~blocked)
          /\ child' = [child EXCEPT ![k] = "leased"]
          /\ wk' = [wk EXCEPT ![w].pc = "executing"]
       \/ /\ child[k] = "fenced"
          /\ wk' = [wk EXCEPT ![w] = Sending(w, "fail")]
          /\ UNCHANGED child
       \/ /\ ChildClosed(k)
          /\ wk' = [wk EXCEPT ![w] = Sending(w, Verdict(child[k]))]
          /\ UNCHANGED child
    /\ UNCHANGED <<tables, blocked, mishaps>>

\* The executor closes the child.  One whose commit is refused, because the
\* child was fenced or another executor closed it, reports a failure.
FinishChild(w) ==
    LET k == wk[w].step IN
    /\ wk[w].pc = "executing"
    /\ \/ /\ child[k] = "leased"
          /\ \E outcome \in Outcome :
                /\ child' = [child EXCEPT ![k] = outcome]
                /\ wk' = [wk EXCEPT ![w] = Sending(w, Verdict(outcome))]
       \/ /\ child[k] # "leased"
          /\ wk' = [wk EXCEPT ![w] = Sending(w, "fail")]
          /\ UNCHANGED child
    /\ UNCHANGED <<tables, blocked, mishaps>>

\* The daemon cannot be reached during the effect.
LoseDaemon(w) ==
    /\ mishaps < MaxMishaps
    /\ wk[w].pc \in {"effect", "executing"}
    /\ wk' = [wk EXCEPT ![w] = Sending(w, "attention")]
    /\ mishaps' = mishaps + 1
    /\ UNCHANGED <<tables, child, blocked>>

Executed(k) == \E w \in Worker : wk[w].pc = "executing" /\ wk[w].step = k

\* The lease supervisor fences a child that nobody renews.
FenceChild(k) ==
    /\ child[k] = "leased" /\ ~Executed(k)
    /\ child' = [child EXCEPT ![k] = "fenced"]
    /\ UNCHANGED <<tables, wk, blocked, mishaps>>

\* An executor does not get to renew in time.
FenceExecuted(k) ==
    /\ mishaps < MaxMishaps
    /\ child[k] = "leased" /\ Executed(k)
    /\ child' = [child EXCEPT ![k] = "fenced"]
    /\ mishaps' = mishaps + 1
    /\ UNCHANGED <<tables, wk, blocked>>

\* An operator cancels a child that waits, or sees a fenced one through.
ResolveChild(k) ==
    /\ \/ child[k] = "queued" /\ child' = [child EXCEPT ![k] = "failed"]
       \/ child[k] = "fenced" /\ \E outcome \in Outcome :
                                    child' = [child EXCEPT ![k] = outcome]
    /\ UNCHANGED <<tables, wk, blocked, mishaps>>

-----------------------------------------------------------------------------
(* The transactions of the worker's commands. *)

(***************************************************************************)
(* _begin_step: a new attempt of a step that has none, or whose last one   *)
(* an operator released from attention; otherwise what is on record is     *)
(* replayed.  An interpretation publishes its question next, a run its     *)
(* effect.                                                                 *)
(***************************************************************************)
Begun(w) ==
    LET k == wk[w].step
    IN IF Definition[k] = "run" THEN At(w, "effect") ELSE Sending(w, "ask")

MayBegin(w) == Leased(w) /\ ~run.cancel

BeginStep(w) ==
    LET k == wk[w].step IN
    /\ wk[w].pc = "begin"
    /\ IF ~MayBegin(w) THEN Refused(w)
       ELSE IF Latest(k) = "succeeded"
       THEN Replay(w, [At(w, "step") EXCEPT !.step = k + 1])
       ELSE IF Latest(k) = "running" THEN Replay(w, Begun(w))
       ELSE IF Latest(k) # "failed" /\ Current(w) /\ ~SomeRunning
       THEN /\ attempts' = [attempts EXCEPT ![k] = Append(@, "running")]
            /\ run' = InState("leased")
            /\ Answer(w, Begun(w))
            /\ UNCHANGED lease
       ELSE Refused(w)
    /\ UNCHANGED <<child, blocked, mishaps>>

\* _complete_step; a cancellation that came during the effect ends the replay.
CompleteStep(w) ==
    LET k == wk[w].step
        next == IF run.cancel THEN Closing(w, "cancelled")
                ELSE [At(w, "step") EXCEPT !.step = k + 1]
    IN
    /\ wk[w].pc = "complete"
    /\ IF Leased(w) /\ Latest(k) = "succeeded" THEN Replay(w, next)
       ELSE IF Leased(w) /\ Current(w) /\ Latest(k) = "running"
       THEN /\ attempts' = WithLatest(k, "succeeded")
            /\ run' = [InState("leased") EXCEPT !.wait = IF @ = k THEN 0 ELSE @]
            /\ Answer(w, next)
            /\ UNCHANGED lease
       ELSE Refused(w)
    /\ UNCHANGED <<child, blocked, mishaps>>

\* _fail_step; the worker closes the procedure as failed next.
FailStep(w) ==
    LET k == wk[w].step IN
    /\ wk[w].pc = "fail"
    /\ IF Leased(w) /\ Latest(k) = "failed" THEN Replay(w, Closing(w, "failed"))
       ELSE IF Leased(w) /\ Current(w) /\ Latest(k) = "running"
       THEN /\ attempts' = WithLatest(k, "failed")
            /\ run' = InState("leased")
            /\ Answer(w, Closing(w, "failed"))
            /\ UNCHANGED lease
       ELSE Refused(w)
    /\ UNCHANGED <<child, blocked, mishaps>>

\* _require_step_attention quarantines the step and the procedure.
RequireStepAttention(w) ==
    LET k == wk[w].step IN
    /\ wk[w].pc = "attention"
    /\ IF Leased(w) /\ Current(w) /\ Latest(k) = "running"
       THEN /\ attempts' = WithLatest(k, "attention_required")
            /\ run' = [InState("attention_required") EXCEPT !.reason = "step"]
            /\ lease' = NoLease
            /\ Leave(w)
       ELSE Refused(w)
    /\ UNCHANGED <<child, blocked, mishaps>>

\* _require_run_attention
RequireRunAttention(w) ==
    /\ wk[w].pc = "park"
    /\ IF Leased(w) /\ Current(w) /\ ~SomeRunning
       THEN /\ run' = [InState("attention_required") EXCEPT !.reason = "run"]
            /\ lease' = NoLease
            /\ Leave(w)
            /\ UNCHANGED attempts
       ELSE Refused(w)
    /\ UNCHANGED <<child, blocked, mishaps>>

\* _wait_step_input publishes the question and gives the lease back.
WaitStepInput(w) ==
    LET k == wk[w].step IN
    /\ wk[w].pc = "ask"
    /\ IF Leased(w) /\ Current(w) /\ Latest(k) = "running"
       THEN /\ attempts' = WithLatest(k, "waiting_for_input")
            /\ run' = IF run.cancel THEN ClosedAs("cancelled")
                                    ELSE InState("waiting_for_input")
            /\ lease' = NoLease
            /\ Leave(w)
       ELSE Refused(w)
    /\ UNCHANGED <<child, blocked, mishaps>>

\* Mutant of WaitStepResources: a cancelled procedure leaves its child queued.
WaitWithoutCancel(w) ==
    LET k == wk[w].step IN
    /\ wk[w].pc = "wait"
    /\ IF run.state = "leased" /\ lease = [holder |-> w, expired |-> FALSE]
             /\ Current(w) /\ Latest(k) = "running" /\ child[k] = "queued"
       THEN /\ run' = [(IF run.cancel THEN ClosedAs("cancelled") ELSE InState("ready"))
                           EXCEPT !.wait = k]
            /\ lease' = NoLease
            /\ Leave(w)
            /\ UNCHANGED <<attempts, child>>
       ELSE Refused(w) /\ UNCHANGED child
    /\ UNCHANGED <<blocked, mishaps>>
(***************************************************************************)
(* wait_step_resources reads its clock with the writer.  The procedure is  *)
(* ready again, with its step running and its child queued; a cancelled    *)
(* one is closed together with the child.                                  *)
(***************************************************************************)
WaitStepResources(w) ==
    LET k == wk[w].step IN
    /\ wk[w].pc = "wait"
    /\ IF run.state = "leased" /\ lease = [holder |-> w, expired |-> FALSE]
             /\ Current(w) /\ Latest(k) = "running" /\ child[k] = "queued"
       THEN /\ run' = [(IF run.cancel THEN ClosedAs("cancelled") ELSE InState("ready"))
                           EXCEPT !.wait = k]
            /\ child' = IF run.cancel THEN CancelledChild(k) ELSE child
            /\ lease' = NoLease
            /\ Leave(w)
            /\ UNCHANGED attempts
       ELSE Refused(w) /\ UNCHANGED child
    /\ UNCHANGED <<blocked, mishaps>>

\* Mutant of ClosureStatus: the procedure ends as its worker says.
WorkerStatus(w) == wk[w].status
\* What a worker ends as succeeded is cancelled if an operator asked for it.
ClosureStatus(w) ==
    IF run.cancel /\ wk[w].status # "failed" THEN "cancelled" ELSE wk[w].status

\* _close
Close(w) ==
    /\ wk[w].pc = "close"
    /\ IF Leased(w) /\ Current(w) /\ ~SomeRunning
       THEN /\ run' = ClosedAs(ClosureStatus(w))
            /\ lease' = NoLease
            /\ Leave(w)
            /\ UNCHANGED attempts
       ELSE Refused(w)
    /\ UNCHANGED <<child, blocked, mishaps>>

\* _release_lease, also with a step that runs: another worker replays it.
Release(w) ==
    /\ wk[w].pc = "release"
    /\ IF Leased(w) /\ Current(w)
       THEN /\ run' = InState("ready")
            /\ lease' = NoLease
            /\ Leave(w)
            /\ UNCHANGED attempts
       ELSE Refused(w)
    /\ UNCHANGED <<child, blocked, mishaps>>

-----------------------------------------------------------------------------
(* Operators. *)

\* Snapshots that were current are older by the cancellation.
AfterCancel ==
    wk' = [v \in Worker |->
              IF wk[v].known = "current" THEN [wk[v] EXCEPT !.known = "cancelled_since"]
              ELSE [wk[v] EXCEPT !.known = "stale"]]
AfterDecision == wk' = [v \in Worker |-> [wk[v] EXCEPT !.known = "stale"]]

\* Mutant of Cancel: a procedure closed with its child keeps the lease.
CancelKeepingLease ==
    LET waiting == run.wait # 0
        withChild == waiting /\ child[run.wait] \notin {"leased", "fenced"}
        pending == run.state = "leased" /\ ~withChild
    IN
    /\ ~run.cancel
    /\ run.state \notin {"closed", "attention_required"}
    /\ waiting => withChild \/ run.state = "leased"
    /\ run' = [(IF pending THEN run ELSE ClosedAs("cancelled")) EXCEPT !.cancel = TRUE]
    /\ child' = IF withChild THEN CancelledChild(run.wait) ELSE child
    /\ AfterCancel
    /\ UNCHANGED <<attempts, lease, blocked, mishaps>>
(***************************************************************************)
(* cancel: work under a lease is asked to stop, everything else is closed  *)
(* at once.  A procedure that waits for a child is closed together with    *)
(* the child unless that has begun.                                        *)
(***************************************************************************)
Cancel ==
    LET waiting == run.wait # 0
        withChild == waiting /\ child[run.wait] \notin {"leased", "fenced"}
        pending == run.state = "leased" /\ ~withChild
    IN
    /\ ~run.cancel
    /\ run.state \notin {"closed", "attention_required"}
    /\ waiting => withChild \/ run.state = "leased"
    /\ run' = [(IF pending THEN run ELSE ClosedAs("cancelled")) EXCEPT !.cancel = TRUE]
    /\ lease' = IF pending THEN lease ELSE NoLease
    /\ child' = IF withChild THEN CancelledChild(run.wait) ELSE child
    /\ AfterCancel
    /\ UNCHANGED <<attempts, blocked, mishaps>>

\* _submit_step_input
SubmitStepInput(k) ==
    /\ run.state = "waiting_for_input"
    /\ Latest(k) = "waiting_for_input"
    /\ attempts' = WithLatest(k, "succeeded")
    /\ run' = InState("ready")
    /\ AfterDecision
    /\ UNCHANGED <<lease, child, blocked, mishaps>>

\* Mutant of RetryStepAttention: the quarantined attempt itself runs again.
RetryInPlace(k) ==
    /\ run.state = "attention_required" /\ run.reason = "step"
    /\ Latest(k) = "attention_required"
    /\ Len(attempts[k]) < MaxAttempts
    /\ attempts' = WithLatest(k, "running")
    /\ run' = InState("ready")
    /\ AfterDecision
    /\ UNCHANGED <<lease, child, blocked, mishaps>>
\* _retry_step_attention
RetryStepAttention(k) ==
    /\ run.state = "attention_required" /\ run.reason = "step"
    /\ Latest(k) = "attention_required"
    /\ Len(attempts[k]) < MaxAttempts
    /\ run' = InState("ready")
    /\ AfterDecision
    /\ UNCHANGED <<attempts, lease, child, blocked, mishaps>>

-----------------------------------------------------------------------------
(* What happens to workers and resources. *)

\* The process of a worker ends, or an answer it needs is lost.
Crash(w) ==
    /\ mishaps < MaxMishaps
    /\ wk[w].pc # "idle"
    /\ Exit(w)
    /\ mishaps' = mishaps + 1
    /\ UNCHANGED <<tables, child, blocked>>

\* Nobody renews the lease of a worker that has given up.
LapseLease ==
    /\ lease # NoLease /\ ~lease.expired
    /\ wk[lease.holder].pc \in {"idle", "acquire"}
    /\ lease' = [lease EXCEPT !.expired = TRUE]
    /\ UNCHANGED <<run, attempts, wk, child, blocked, mishaps>>

\* A worker at work does not get to renew in time.
MissRenewal ==
    /\ mishaps < MaxMishaps
    /\ lease # NoLease /\ ~lease.expired
    /\ wk[lease.holder].pc \notin {"idle", "acquire"}
    /\ lease' = [lease EXCEPT !.expired = TRUE]
    /\ mishaps' = mishaps + 1
    /\ UNCHANGED <<run, attempts, wk, child, blocked>>

Unblock ==
    /\ blocked
    /\ blocked' = FALSE
    /\ UNCHANGED <<tables, wk, child, mishaps>>

Block ==
    /\ mishaps < MaxMishaps
    /\ ~blocked
    /\ blocked' = TRUE
    /\ mishaps' = mishaps + 1
    /\ UNCHANGED <<tables, wk, child>>

-----------------------------------------------------------------------------
CommandStep(w) ==
    \/ Acquire(w) \/ BeginStep(w) \/ CompleteStep(w) \/ FailStep(w)
    \/ RequireStepAttention(w) \/ RequireRunAttention(w)
    \/ WaitStepInput(w) \/ WaitStepResources(w)
    \/ Close(w) \/ Release(w)

WorkerStep(w) ==
    \/ Discover(w) \/ NextStep(w) \/ AskForAttention(w) \/ NoticeLoss(w)
    \/ Effect(w) \/ FinishChild(w)
    \/ CommandStep(w)

Next ==
    \/ \E w \in Worker : WorkerStep(w) \/ Yield(w) \/ LoseDaemon(w) \/ Crash(w)
    \/ Cancel
    \/ \E k \in Step : SubmitStepInput(k) \/ RetryStepAttention(k)
    \/ \E k \in Step : FenceChild(k) \/ FenceExecuted(k) \/ ResolveChild(k)
    \/ LapseLease \/ MissRenewal \/ Unblock \/ Block

Spec == Init /\ [][Next]_vars

\* Resident workers poll and run on, time passes, other owners give resources
\* back.  Nothing makes an operator decide.
FairSpec ==
    /\ Spec
    /\ \A w \in Worker : WF_vars(WorkerStep(w))
    /\ WF_vars(LapseLease) /\ \A k \in Step : WF_vars(FenceChild(k))
    /\ WF_vars(Unblock)
-----------------------------------------------------------------------------
(* Properties. *)

(***************************************************************************)
(* What is on record is a replay of the definition: a step is attempted    *)
(* only after the steps before it succeeded, again only after its last     *)
(* attempt was put to an operator, the lease exists while the run is       *)
(* leased, a run that waits or needs attention says on which step, and     *)
(* succeeded means that every step did.                                    *)
(***************************************************************************)
EarlierSucceeded ==
    \A k \in Step : attempts[k] # <<>> => \A j \in 1..(k - 1) : Latest(j) = "succeeded"
RetriedFromAttention ==
    \A k \in Step : \A i \in 1..(Len(attempts[k]) - 1) :
        attempts[k][i] = "attention_required"
LeaseWithRun == run.state = "leased" <=> lease # NoLease
WaitsForAStep ==
    /\ run.state = "waiting_for_input" => \E k \in Step : Latest(k) = "waiting_for_input"
    /\ run.state = "attention_required" /\ run.reason = "step" =>
          \E k \in Step : Latest(k) = "attention_required"
SucceededInFull == run.closure = "succeeded" => \A k \in Step : Latest(k) = "succeeded"
StepsFollowDefinition ==
    /\ EarlierSucceeded /\ RetriedFromAttention
    /\ LeaseWithRun /\ WaitsForAStep /\ SucceededInFull

\* A cancelled procedure attempts nothing more and never counts as succeeded,
\* whichever command of a worker the request overtakes.
CancellationStops ==
    [][run.cancel => /\ \A k \in Step : Len(attempts'[k]) = Len(attempts[k])
                     /\ run'.closure = "succeeded" => run.closure = "succeeded"]_vars

\* The checkpoint of a step is never taken back: not by a late command of a
\* worker whose lease was taken over, nor by the replay of its replacement.
Settled == {"succeeded", "failed", "attention_required"}
SettledIsFinal ==
    [][\A k \in Step : \A i \in 1..Len(attempts[k]) :
          attempts[k][i] \in Settled => attempts'[k][i] = attempts[k][i]]_vars

\* A lease is taken over, or given up, by another worker only after it expired,
\* however long a command waited for the writer since its clock was read.
LiveLeaseIsKept ==
    [][\A w \in Worker :
          lease = [holder |-> w, expired |-> FALSE] =>
              \/ lease'.holder = w
              \/ lease'.holder = None /\ (wk'[w] = Idle \/ run'.cancel)]_vars

\* A closed procedure leaves no child behind in the queue for resources.
ChildFollowsParent == run.state = "closed" /\ run.wait # 0 => child[run.wait] # "queued"

(***************************************************************************)
(* Runnable work ends or is put to a person, whatever becomes of workers.  *)
(* Halted procedures, with a cancellation or a failed step, are a question *)
(* of their own.                                                           *)
(***************************************************************************)
Halted == run.cancel \/ \E k \in Step : Latest(k) = "failed"
PutToAPerson ==
    \/ run.state \in {"waiting_for_input", "attention_required"}
    \/ run.wait # 0 /\ child[run.wait] = "fenced"
Progress ==
    run.state \in {"ready", "leased"} ~> (run.state = "closed" \/ PutToAPerson \/ Halted)

\* A request to stop after the running step, or a failed step, closes the
\* procedure unless a person has to look at it.
HaltedProcedureCloses == Halted ~> (run.state = "closed" \/ PutToAPerson)
=============================================================================
