-------------------------- MODULE AutomationProofs --------------------------
(***************************************************************************)
(* What is on record of a procedure, for any definition, any number of     *)
(* workers, of attempts and of mishaps: it is a replay of the definition,  *)
(* cancellation and checkpoints hold, a live lease is kept, and a closed   *)
(* procedure leaves no child in the queue.                                 *)
(*                                                                         *)
(* The parts of the invariant are operators of the values they relate, so  *)
(* that a lemma about the new values speaks of no primes.                  *)
(***************************************************************************)
EXTENDS Automation, TLAPS

AttemptState == {"running", "waiting_for_input", "succeeded", "failed",
                 "attention_required"}
Attempts == [Step -> Seq(AttemptState)]
RunRow == [state : {"ready", "leased", "waiting_for_input", "attention_required",
                    "closed"},
           cancel : BOOLEAN, wait : 0..Len(Definition),
           closure : {"none", "succeeded", "failed", "cancelled"},
           reason : {"none", "run", "step"}]
Lease == [holder : Worker, expired : BOOLEAN] \cup {NoLease}
WorkerState == [pc : Command \cup {"idle", "step", "effect", "executing"},
                step : 1..(Len(Definition) + 1),
                known : {"current", "cancelled_since", "stale"},
                cancelSeen : BOOLEAN, late : BOOLEAN,
                status : {"none", "succeeded", "failed", "cancelled"}]
ChildState == {"absent", "queued", "leased", "fenced"} \cup Outcome

AutoTypes ==
    /\ run \in RunRow
    /\ attempts \in Attempts
    /\ lease \in Lease
    /\ wk \in [Worker -> WorkerState]
    /\ child \in [Step -> ChildState]
    /\ blocked \in BOOLEAN
    /\ mishaps \in 0..MaxMishaps

LatestOf(att, k) == IF att[k] = <<>> THEN "none" ELSE att[k][Len(att[k])]

\* EarlierSucceeded and RetriedFromAttention, of these attempts.
InOrder(att) ==
    \A k \in Step : att[k] # <<>> => \A j \in 1..(k - 1) : LatestOf(att, j) = "succeeded"
Retried(att) ==
    \A k \in Step : \A i \in 1..(Len(att[k]) - 1) : att[k][i] = "attention_required"

(***************************************************************************)
(* The rows of the procedure and of its lease, given the attempts.  Beside *)
(* what StepsFollowDefinition says, a question is open only while the run  *)
(* waits for its answer: no attempt is begun over an open one.             *)
(***************************************************************************)
RowsOK(r, att, l) ==
    /\ r.state = "leased" <=> l # NoLease
    /\ r.state = "waiting_for_input" =>
          \E k \in Step : LatestOf(att, k) = "waiting_for_input"
    /\ r.state = "attention_required" /\ r.reason = "step" =>
          \E k \in Step : LatestOf(att, k) = "attention_required"
    /\ r.closure = "succeeded" => \A k \in Step : LatestOf(att, k) = "succeeded"
    /\ \A k \in Step : LatestOf(att, k) = "waiting_for_input" =>
          r.state \in {"waiting_for_input", "closed"}

AtAStep == {"begin", "effect", "executing", "complete", "fail", "attention", "ask", "wait"}

(***************************************************************************)
(* What a worker in state x may rely on, its lease lost or not: the steps  *)
(* it has walked over have succeeded, it ends as it has reason to, and an  *)
(* expired lease it saw is still that one while its snapshot is current.   *)
(***************************************************************************)
Grounded(x, att, cancel) ==
    /\ \A j \in 1..(x.step - 1) : LatestOf(att, j) = "succeeded"
    /\ x.pc \in AtAStep => x.step \in Step
    /\ x.pc = "ask" => Definition[x.step] # "run"
    /\ x.pc \in {"effect", "wait"} => Definition[x.step] = "run"
    /\ x.pc = "close" => x.status # "none"
    /\ x.status = "succeeded" => \A k \in Step : LatestOf(att, k) = "succeeded"
    /\ x.status = "failed" => \E k \in Step : LatestOf(att, k) = "failed"
    /\ x.status = "cancelled" => cancel

WorkerOK(x, att, cancel, expired) ==
    /\ Grounded(x, att, cancel)
    /\ x.cancelSeen => cancel
    /\ x.pc = "acquire" /\ x.known = "current" /\ x.late => expired

AutoInv ==
    /\ AutoTypes
    /\ InOrder(attempts) /\ Retried(attempts)
    /\ RowsOK(run, attempts, lease)
    /\ \A w \in Worker : WorkerOK(wk[w], attempts, run.cancel, lease.expired)

LEMMA AutoInvImplies ==
    ASSUME AutoInv
    PROVE  AutomationTypeOK /\ StepsFollowDefinition
<1>1. AutomationTypeOK
  <2>1. \A k \in Step : attempts[k] \in Seq(AttemptState)
    BY DEF AutoInv, AutoTypes, Attempts
  <2>2. \A k \in Step : \A i \in 1..Len(attempts[k]) : attempts[k][i] \in AttemptState
    BY <2>1
  <2> QED
    BY <2>2 DEF AutoInv, AutoTypes, AutomationTypeOK, RunRow, Lease, WorkerState,
       ChildState, AttemptState
<1>2. \A k \in Step : LatestOf(attempts, k) = Latest(k)
  BY DEF LatestOf, Latest
<1>3. EarlierSucceeded
  BY DEF AutoInv, InOrder, EarlierSucceeded, LatestOf, Latest
<1>4. RetriedFromAttention
  BY DEF AutoInv, Retried, RetriedFromAttention
<1>5. LeaseWithRun /\ WaitsForAStep /\ SucceededInFull
  BY <1>2 DEF AutoInv, RowsOK, LeaseWithRun, WaitsForAStep, SucceededInFull
<1> QED
  BY <1>1, <1>3, <1>4, <1>5 DEF StepsFollowDefinition

-----------------------------------------------------------------------------
(* Attempts: one more of a step, or another state of its last one. *)

Grown(att, k) == [att EXCEPT ![k] = Append(@, "running")]
Marked(att, k, state) == [att EXCEPT ![k][Len(att[k])] = state]

\* What is settled for good stays so.
Stable(att, new) ==
    \A k \in Step : LatestOf(att, k) \in {"succeeded", "failed"} =>
                        LatestOf(new, k) = LatestOf(att, k)

LEMMA StepNumbers == Step \subseteq Nat /\ \A k \in Step : k \in 1..Len(Definition)
BY AutomationAssumption DEF Step

LEMMA LatestFacts ==
    ASSUME NEW att \in Attempts, NEW k \in Step
    PROVE  /\ att[k] \in Seq(AttemptState)
           /\ LatestOf(att, k) \in AttemptState \cup {"none"}
           /\ LatestOf(att, k) = "none" <=> att[k] = <<>>
           /\ att[k] # <<>> => Len(att[k]) \in 1..Len(att[k])
<1>1. att[k] \in Seq(AttemptState)
  BY DEF Attempts
<1>2. att[k] # <<>> => Len(att[k]) \in 1..Len(att[k]) /\ att[k][Len(att[k])] \in AttemptState
  BY <1>1
<1> QED
  BY <1>1, <1>2 DEF LatestOf, AttemptState

LEMMA GrownFacts ==
    ASSUME NEW att \in Attempts, NEW k \in Step
    PROVE  /\ Grown(att, k) \in Attempts
           /\ \A j \in Step \ {k} : Grown(att, k)[j] = att[j]
           /\ Len(Grown(att, k)[k]) = Len(att[k]) + 1
           /\ \A i \in 1..Len(att[k]) : Grown(att, k)[k][i] = att[k][i]
           /\ LatestOf(Grown(att, k), k) = "running"
<1>1. att[k] \in Seq(AttemptState) /\ "running" \in AttemptState
  BY LatestFacts DEF AttemptState
<1>2. /\ Append(att[k], "running") \in Seq(AttemptState)
      /\ Len(Append(att[k], "running")) = Len(att[k]) + 1
      /\ Append(att[k], "running")[Len(att[k]) + 1] = "running"
      /\ \A i \in 1..Len(att[k]) : Append(att[k], "running")[i] = att[k][i]
      /\ Append(att[k], "running") # <<>>
  BY <1>1
<1>3. Grown(att, k)[k] = Append(att[k], "running")
  BY DEF Grown, Attempts
<1>4. Grown(att, k) \in Attempts /\ \A j \in Step \ {k} : Grown(att, k)[j] = att[j]
  BY <1>2 DEF Grown, Attempts
<1>5. LatestOf(Grown(att, k), k) = "running"
  BY <1>2, <1>3 DEF LatestOf
<1> QED
  BY <1>2, <1>3, <1>4, <1>5

LEMMA MarkedFacts ==
    ASSUME NEW att \in Attempts, NEW k \in Step, att[k] # <<>>, NEW state \in AttemptState
    PROVE  /\ Marked(att, k, state) \in Attempts
           /\ \A j \in Step \ {k} : Marked(att, k, state)[j] = att[j]
           /\ Len(Marked(att, k, state)[k]) = Len(att[k])
           /\ \A i \in 1..Len(att[k]) : i # Len(att[k]) =>
                 Marked(att, k, state)[k][i] = att[k][i]
           /\ LatestOf(Marked(att, k, state), k) = state
<1> DEFINE n == Len(att[k])
           new == [att[k] EXCEPT ![n] = state]
<1>1. att[k] \in Seq(AttemptState) /\ n \in 1..n
  BY LatestFacts
<1>2. /\ new \in Seq(AttemptState) /\ Len(new) = n /\ new[n] = state /\ new # <<>>
      /\ \A i \in 1..n : i # n => new[i] = att[k][i]
  BY <1>1
<1>3. Marked(att, k, state) = [att EXCEPT ![k] = new]
  BY DEF Marked
<1> HIDE DEF new
<1>4. /\ Marked(att, k, state)[k] = new
      /\ Marked(att, k, state) \in Attempts
      /\ \A j \in Step \ {k} : Marked(att, k, state)[j] = att[j]
  BY <1>2, <1>3 DEF Attempts
<1>5. LatestOf(Marked(att, k, state), k) = state
  BY <1>2, <1>4 DEF LatestOf
<1> QED
  BY <1>2, <1>4, <1>5

LEMMA OrderKept ==
    ASSUME NEW att \in Attempts, NEW new \in Attempts, Stable(att, new), InOrder(att),
           \A k \in Step : new[k] # <<>> =>
               att[k] # <<>> \/ \A j \in 1..(k - 1) : LatestOf(att, j) = "succeeded"
    PROVE  InOrder(new)
<1>1. \A k \in Step : \A j \in 1..(k - 1) : j \in Step
  BY AutomationAssumption DEF Step
<1> QED
  BY <1>1 DEF InOrder, Stable

\* Two steps with attempts: all but the last of them succeeded.
LEMMA OneUnsettled ==
    ASSUME NEW att \in Attempts, InOrder(att), NEW j \in Step, NEW k \in Step, j # k,
           LatestOf(att, j) \notin {"none", "succeeded"}
    PROVE  LatestOf(att, k) \in {"none", "succeeded"}
<1>1. j \in Nat /\ k \in Nat
  BY AutomationAssumption DEF Step
<1>2. att[j] # <<>>
  BY DEF LatestOf
<1>3. CASE k < j
  <2>1. k \in 1..(j - 1)
    BY <1>3, StepNumbers, <1>1 DEF Step
  <2> QED
    BY <1>2, <2>1 DEF InOrder
<1>4. CASE j < k
  <2>1. j \in 1..(k - 1)
    BY <1>4, <1>1 DEF Step
  <2>2. att[k] = <<>>
    BY <2>1 DEF InOrder
  <2> QED
    BY <2>2 DEF LatestOf
<1> QED
  BY <1>1, <1>3, <1>4

\* _begin_step: an attempt is added to the step that is next.
LEMMA GrownHistory ==
    ASSUME NEW att \in Attempts, InOrder(att), Retried(att), NEW k \in Step,
           \A j \in 1..(k - 1) : LatestOf(att, j) = "succeeded",
           LatestOf(att, k) \in {"none", "attention_required"}
    PROVE  /\ InOrder(Grown(att, k)) /\ Retried(Grown(att, k))
           /\ Stable(att, Grown(att, k))
<1> DEFINE new == Grown(att, k)
           n == Len(att[k])
<1>1. /\ new \in Attempts /\ \A j \in Step \ {k} : new[j] = att[j]
      /\ Len(new[k]) = n + 1 /\ \A i \in 1..n : new[k][i] = att[k][i]
      /\ LatestOf(new, k) = "running"
  BY GrownFacts
<1>2. n \in Nat /\ (att[k] = <<>> => n = 0) /\ (att[k] # <<>> => n \in 1..n)
  BY LatestFacts
<1> HIDE DEF new
<1>3. Stable(att, new)
  BY <1>1 DEF Stable, LatestOf
<1>4. InOrder(new)
  <2>1. \A j \in Step : new[j] # <<>> =>
            att[j] # <<>> \/ \A i \in 1..(j - 1) : LatestOf(att, i) = "succeeded"
    BY <1>1
  <2> QED
    BY <1>1, <1>3, <2>1, OrderKept
<1>5. \A i \in 1..n : att[k][i] = "attention_required"
  <2>1. n # 0 => att[k][n] = "attention_required"
    BY <1>2, LatestFacts DEF LatestOf
  <2>2. \A i \in 1..n : i = n \/ i \in 1..(n - 1)
    BY <1>2
  <2>3. \A i \in 1..(n - 1) : att[k][i] = "attention_required"
    BY DEF Retried
  <2> QED
    BY <1>2, <2>1, <2>2, <2>3
<1>6. Retried(new)
  <2>1. \A i \in 1..(Len(new[k]) - 1) : new[k][i] = "attention_required"
    <3>1. Len(new[k]) - 1 = n
      BY <1>1, <1>2
    <3> QED
      BY <1>1, <1>5, <3>1
  <2>2. \A j \in Step \ {k} : \A i \in 1..(Len(new[j]) - 1) :
            new[j][i] = "attention_required"
    BY <1>1 DEF Retried
  <2> QED
    BY <2>1, <2>2 DEF Retried
<1> QED
  BY <1>3, <1>4, <1>6 DEF new

\* The attempt under way, or the open question, of a step is settled.
LEMMA MarkedHistory ==
    ASSUME NEW att \in Attempts, InOrder(att), Retried(att), NEW k \in Step,
           LatestOf(att, k) \in {"running", "waiting_for_input"}, NEW state \in AttemptState
    PROVE  /\ InOrder(Marked(att, k, state)) /\ Retried(Marked(att, k, state))
           /\ Stable(att, Marked(att, k, state))
<1> DEFINE new == Marked(att, k, state)
           n == Len(att[k])
<1>1. att[k] # <<>>
  BY DEF LatestOf
<1>2. /\ new \in Attempts /\ \A j \in Step \ {k} : new[j] = att[j]
      /\ Len(new[k]) = n /\ \A i \in 1..n : i # n => new[k][i] = att[k][i]
      /\ LatestOf(new, k) = state
  BY <1>1, MarkedFacts
<1>3. n \in 1..n
  BY <1>1, LatestFacts
<1> HIDE DEF new
<1>4. Stable(att, new)
  BY <1>2 DEF Stable, LatestOf
<1>5. InOrder(new)
  <2>1. \A j \in Step : new[j] # <<>> => att[j] # <<>>
    BY <1>1, <1>2
  <2> QED
    BY <1>2, <1>4, <2>1, OrderKept
<1>6. Retried(new)
  <2>1. \A i \in 1..(n - 1) : i \in 1..n /\ i # n
    BY <1>3
  <2>2. \A i \in 1..(Len(new[k]) - 1) : new[k][i] = "attention_required"
    BY <1>2, <2>1 DEF Retried
  <2> QED
    BY <1>2, <2>2 DEF Retried
<1> QED
  BY <1>4, <1>5, <1>6 DEF new

-----------------------------------------------------------------------------
(* Workers. *)

\* A worker whose snapshot ages, while the tables move on.
LEMMA WorkerKept ==
    ASSUME NEW x, NEW y, NEW att \in Attempts, NEW new \in Attempts, Stable(att, new),
           NEW c, NEW d, c => d, NEW e, NEW f, WorkerOK(x, att, c, e), x.step \in Nat,
           x.step <= Len(Definition) + 1,
           y.step = x.step, y.status = x.status, y.pc = x.pc,
           y.cancelSeen = x.cancelSeen,
           y.pc = "acquire" /\ y.known = "current" /\ y.late => f
    PROVE  WorkerOK(y, new, d, f)
<1>1. \A j \in 1..(x.step - 1) : j \in Step
  BY AutomationAssumption DEF Step
<1> QED
  BY <1>1 DEF WorkerOK, Grounded, Stable

LEMMA IdleOK ==
    ASSUME NEW att, NEW c, NEW e
    PROVE  /\ Idle \in WorkerState
           /\ Idle.pc = "idle" /\ Idle.step = 1 /\ Idle.status = "none"
           /\ Idle.cancelSeen = FALSE
           /\ WorkerOK(Idle, att, c, e)
<1>1. /\ Idle.pc = "idle" /\ Idle.step = 1 /\ Idle.status = "none"
      /\ Idle.cancelSeen = FALSE
  BY DEF Idle
<1>2. 1 \in 1..(Len(Definition) + 1) /\ \A j \in 1..(1 - 1) : FALSE
  BY AutomationAssumption
<1>3. Idle \in WorkerState
  BY <1>2 DEF Idle, WorkerState, Command
<1>4. WorkerOK(Idle, att, c, e)
  BY <1>1, <1>2 DEF WorkerOK, Grounded, AtAStep
<1> QED
  BY <1>1, <1>3, <1>4

Pc == Command \cup {"idle", "step", "effect", "executing"}

LEMMA LeaseFields ==
    ASSUME NEW l \in Lease
    PROVE  /\ l.expired \in BOOLEAN
           /\ l # NoLease => l.holder \in Worker
           /\ NoLease.holder = None /\ NoLease.expired = FALSE
<1>1. CASE l = NoLease
  BY <1>1 DEF NoLease
<1>2. CASE l \in [holder : Worker, expired : BOOLEAN]
  BY <1>2 DEF NoLease
<1> QED
  BY <1>1, <1>2 DEF Lease

LEMMA InvTypes ==
    ASSUME AutoInv
    PROVE  /\ AutoTypes
           /\ attempts \in Attempts /\ run \in RunRow /\ run.cancel \in BOOLEAN
           /\ lease.expired \in BOOLEAN
           /\ wk \in [Worker -> WorkerState]
           /\ \A w \in Worker : /\ wk[w] \in WorkerState
                                /\ WorkerOK(wk[w], attempts, run.cancel, lease.expired)
                                /\ wk[w].step \in Nat /\ wk[w].step <= Len(Definition) + 1
<1>1. Len(Definition) \in Nat
  BY AutomationAssumption
<1>2. \A x \in WorkerState : x.step \in Nat /\ x.step <= Len(Definition) + 1
  BY <1>1 DEF WorkerState
<1>3. AutoTypes /\ run \in RunRow /\ lease \in Lease /\ attempts \in Attempts
      /\ wk \in [Worker -> WorkerState]
  BY DEF AutoInv, AutoTypes
<1>4. run.cancel \in BOOLEAN /\ lease.expired \in BOOLEAN
  BY <1>3, LeaseFields DEF RunRow
<1>5. \A w \in Worker : /\ wk[w] \in WorkerState
                        /\ WorkerOK(wk[w], attempts, run.cancel, lease.expired)
  BY <1>3 DEF AutoInv
<1> QED
  BY <1>2, <1>3, <1>4, <1>5

\* The ways a worker's state is written.
LEMMA Written ==
    ASSUME AutoTypes, NEW w \in Worker
    PROVE  /\ \A pc \in Pc :
                 /\ At(w, pc) \in WorkerState
                 /\ At(w, pc).pc = pc /\ At(w, pc).step = wk[w].step
                 /\ At(w, pc).status = wk[w].status
                 /\ At(w, pc).cancelSeen = wk[w].cancelSeen
           /\ \A pc \in Pc :
                 /\ Sending(w, pc) \in WorkerState
                 /\ Sending(w, pc).pc = pc /\ Sending(w, pc).step = wk[w].step
                 /\ Sending(w, pc).status = wk[w].status
                 /\ Sending(w, pc).cancelSeen = wk[w].cancelSeen
                 /\ Sending(w, pc).late = lease.expired
           /\ \A status \in {"succeeded", "failed", "cancelled"} :
                 /\ Closing(w, status) \in WorkerState
                 /\ Closing(w, status).pc = "close"
                 /\ Closing(w, status).step = wk[w].step
                 /\ Closing(w, status).status = status
                 /\ Closing(w, status).cancelSeen = wk[w].cancelSeen
<1>1. wk[w] \in WorkerState /\ lease.expired \in BOOLEAN
  BY LeaseFields DEF AutoTypes
<1>2. ASSUME NEW pc \in Pc
      PROVE  /\ At(w, pc) \in WorkerState
             /\ At(w, pc).pc = pc /\ At(w, pc).step = wk[w].step
             /\ At(w, pc).status = wk[w].status
             /\ At(w, pc).cancelSeen = wk[w].cancelSeen
  BY <1>1 DEF At, WorkerState, Pc
<1>3. ASSUME NEW pc \in Pc
      PROVE  /\ Sending(w, pc) \in WorkerState
             /\ Sending(w, pc).pc = pc /\ Sending(w, pc).step = wk[w].step
             /\ Sending(w, pc).status = wk[w].status
             /\ Sending(w, pc).cancelSeen = wk[w].cancelSeen
             /\ Sending(w, pc).late = lease.expired
  <2>1. Sending(w, pc) = [At(w, pc) EXCEPT !.late = lease.expired]
    BY DEF Sending
  <2> QED
    BY <1>1, <1>2, <2>1 DEF WorkerState
<1>4. ASSUME NEW status \in {"succeeded", "failed", "cancelled"}
      PROVE  /\ Closing(w, status) \in WorkerState
             /\ Closing(w, status).pc = "close"
             /\ Closing(w, status).step = wk[w].step
             /\ Closing(w, status).status = status
             /\ Closing(w, status).cancelSeen = wk[w].cancelSeen
  <2>1. Closing(w, status) = [Sending(w, "close") EXCEPT !.status = status]
        /\ "close" \in Pc
    BY DEF Closing, Pc, Command
  <2> QED
    BY <1>3, <2>1 DEF WorkerState
<1> QED
  BY <1>2, <1>3, <1>4

\* The answer to a command, whose part the worker then goes on with.
Answered(next) == [next EXCEPT !.known = "current", !.cancelSeen = run.cancel]

LEMMA AnsweredOK ==
    ASSUME AutoInv, NEW next \in WorkerState, next.pc # "acquire",
           NEW att, NEW c, Grounded(next, att, c), run.cancel => c, NEW e
    PROVE  Answered(next) \in WorkerState /\ WorkerOK(Answered(next), att, c, e)
<1>1. run.cancel \in BOOLEAN
  BY InvTypes
<1>2. /\ Answered(next) \in WorkerState
      /\ Answered(next).pc = next.pc /\ Answered(next).step = next.step
      /\ Answered(next).status = next.status /\ Answered(next).cancelSeen = run.cancel
  BY <1>1 DEF Answered, WorkerState
<1> QED
  BY <1>2 DEF WorkerOK, Grounded

\* Everyone else's snapshot is stale once the tables were written.
LEMMA StaleOK ==
    ASSUME AutoInv, NEW v \in Worker, NEW att \in Attempts, Stable(attempts, att),
           NEW c, run.cancel => c, NEW e
    PROVE  /\ [wk[v] EXCEPT !.known = "stale"] \in WorkerState
           /\ WorkerOK([wk[v] EXCEPT !.known = "stale"], att, c, e)
<1> DEFINE y == [wk[v] EXCEPT !.known = "stale"]
<1>1. wk[v] \in WorkerState
  BY InvTypes
<1>2. /\ y \in WorkerState
      /\ y.pc = wk[v].pc /\ y.step = wk[v].step /\ y.status = wk[v].status
      /\ y.cancelSeen = wk[v].cancelSeen /\ y.known = "stale"
  BY <1>1 DEF WorkerState
<1> HIDE DEF y
<1>3. /\ WorkerOK(wk[v], attempts, run.cancel, lease.expired)
      /\ wk[v].step \in Nat /\ wk[v].step <= Len(Definition) + 1
      /\ attempts \in Attempts
  BY InvTypes
<1>4. WorkerOK(y, att, c, e)
  BY <1>2, <1>3, WorkerKept
<1> QED
  BY <1>2, <1>4 DEF y

LEMMA AfterAnswer ==
    ASSUME AutoInv, NEW w \in Worker, NEW next \in WorkerState, next.pc # "acquire",
           Answer(w, next), NEW att \in Attempts, Stable(attempts, att),
           NEW c, run.cancel => c, Grounded(next, att, c), NEW e
    PROVE  /\ wk' \in [Worker -> WorkerState]
           /\ \A v \in Worker : WorkerOK(wk'[v], att, c, e)
<1>1. wk' = [v \in Worker |-> IF v = w THEN Answered(next)
                                       ELSE [wk[v] EXCEPT !.known = "stale"]]
  BY DEF Answer, Answered
<1>2. Answered(next) \in WorkerState /\ WorkerOK(Answered(next), att, c, e)
  BY AnsweredOK
<1>3. \A v \in Worker : /\ [wk[v] EXCEPT !.known = "stale"] \in WorkerState
                        /\ WorkerOK([wk[v] EXCEPT !.known = "stale"], att, c, e)
  BY StaleOK
<1> QED
  BY <1>1, <1>2, <1>3

LEMMA AfterLeave ==
    ASSUME AutoInv, NEW w \in Worker, Leave(w), NEW att \in Attempts,
           Stable(attempts, att), NEW c, run.cancel => c, NEW e
    PROVE  /\ wk' \in [Worker -> WorkerState]
           /\ \A v \in Worker : WorkerOK(wk'[v], att, c, e)
<1>1. \A v \in Worker : /\ [wk[v] EXCEPT !.known = "stale"] \in WorkerState
                        /\ WorkerOK([wk[v] EXCEPT !.known = "stale"], att, c, e)
  BY StaleOK
<1> QED
  BY <1>1, IdleOK DEF Leave

\* One worker moves, the tables stay.
LEMMA OneMoves ==
    ASSUME AutoInv, NEW w \in Worker, NEW x \in WorkerState,
           WorkerOK(x, attempts, run.cancel, lease.expired), wk' = [wk EXCEPT ![w] = x],
           UNCHANGED tables, child' \in [Step -> ChildState], blocked' \in BOOLEAN,
           mishaps' \in 0..MaxMishaps
    PROVE  AutoInv'
<1>1. wk' \in [Worker -> WorkerState]
      /\ \A v \in Worker : WorkerOK(wk'[v], attempts, run.cancel, lease.expired)
  BY InvTypes
<1>2. run' = run /\ attempts' = attempts /\ lease' = lease
  BY DEF tables
<1> QED
  BY <1>1, <1>2 DEF AutoInv, AutoTypes

LEMMA RefusedKeeps ==
    ASSUME AutoInv, NEW w \in Worker, wk[w].pc \in Command \ {"acquire"}, Refused(w),
           UNCHANGED <<child, blocked, mishaps>>
    PROVE  AutoInv'
<1> DEFINE next == IF wk[w].pc = "begin" THEN Closing(w, "cancelled")
                                         ELSE Sending(w, wk[w].pc)
<1>1. AutoTypes /\ wk[w].pc \in Pc /\ Grounded(wk[w], attempts, run.cancel)
  BY InvTypes DEF Pc, WorkerOK
<1>2. CASE run.state = "leased" /\ run.cancel /\ wk[w].known = "cancelled_since"
  <2>1. /\ next \in WorkerState /\ next.pc # "acquire" /\ next.step = wk[w].step
        /\ \/ next.pc = wk[w].pc /\ next.status = wk[w].status
           \/ next.pc = "close" /\ next.status = "cancelled"
    <3>1. CASE wk[w].pc = "begin"
      BY <1>1, <3>1, Written
    <3>2. CASE wk[w].pc # "begin"
      BY <1>1, <3>2, Written DEF Command
    <3> QED
      BY <3>1, <3>2
  <2>2. Grounded(next, attempts, run.cancel)
    BY <1>1, <1>2, <2>1 DEF Grounded, AtAStep
  <2>3. wk' = [wk EXCEPT ![w] = [next EXCEPT !.known = "current", !.cancelSeen = TRUE]]
    BY <1>1, <1>2, InvTypes DEF Refused
  <2> HIDE DEF next
  <2>4. wk' = [wk EXCEPT ![w] = Answered(next)]
    BY <1>2, <2>1, <2>3, InvTypes DEF Answered
  <2>5. Answered(next) \in WorkerState
        /\ WorkerOK(Answered(next), attempts, run.cancel, lease.expired)
    BY <2>1, <2>2, AnsweredOK
  <2> QED
    BY <2>4, <2>5, OneMoves DEF Refused, AutoInv, AutoTypes
<1>3. CASE ~(run.state = "leased" /\ run.cancel /\ wk[w].known = "cancelled_since")
  <2>1. wk' = [wk EXCEPT ![w] = Idle]
    BY <1>3, InvTypes DEF Refused
  <2> QED
    BY <2>1, IdleOK, OneMoves DEF Refused, AutoInv, AutoTypes
<1> QED
  BY <1>2, <1>3

-----------------------------------------------------------------------------
(* What a worker does between two commands, and what happens around it. *)

\* The effect of the step the worker is at goes on, or its result is reported.
LEMMA SendsOn ==
    ASSUME AutoInv, NEW w \in Worker, wk[w].pc \in {"effect", "executing"},
           NEW pc \in {"executing", "complete", "fail", "attention", "wait"},
           pc = "wait" => wk[w].pc = "effect",
           NEW x, x = At(w, pc) \/ x = Sending(w, pc)
    PROVE  x \in WorkerState /\ WorkerOK(x, attempts, run.cancel, lease.expired)
<1>1. AutoTypes /\ WorkerOK(wk[w], attempts, run.cancel, lease.expired)
  BY InvTypes
<1>2. pc \in Pc
  BY DEF Pc, Command
<1>3. /\ x \in WorkerState
      /\ x.pc = pc /\ x.step = wk[w].step /\ x.status = wk[w].status
      /\ x.cancelSeen = wk[w].cancelSeen
  BY <1>1, <1>2, Written
<1> QED
  BY <1>1, <1>3 DEF WorkerOK, Grounded, AtAStep

LEMMA DiscoverKeeps ==
    ASSUME AutoInv, NEW w \in Worker, Discover(w)
    PROVE  AutoInv'
<1> DEFINE x == [Sending(w, "acquire") EXCEPT !.known = "current"]
<1>1. AutoTypes /\ WorkerOK(wk[w], attempts, run.cancel, lease.expired)
  BY InvTypes
<1>2. "acquire" \in Pc
  BY DEF Pc, Command
<1>3. Sending(w, "acquire") \in WorkerState
  BY <1>1, <1>2, Written
<1>4. /\ x \in WorkerState /\ x.pc = "acquire" /\ x.step = wk[w].step
      /\ x.status = wk[w].status /\ x.cancelSeen = wk[w].cancelSeen
      /\ x.late = lease.expired
  BY <1>1, <1>2, <1>3, Written DEF WorkerState
<1>5. WorkerOK(x, attempts, run.cancel, lease.expired)
  BY <1>1, <1>4 DEF WorkerOK, Grounded, AtAStep
<1>6. wk' = [wk EXCEPT ![w] = x]
  BY DEF Discover
<1> HIDE DEF x
<1> QED
  BY <1>1, <1>4, <1>5, <1>6, OneMoves DEF Discover, AutoTypes

LEMMA NextStepKeeps ==
    ASSUME AutoInv, NEW w \in Worker, NextStep(w)
    PROVE  AutoInv'
<1> DEFINE x == IF wk[w].step > Len(Definition) THEN Closing(w, "succeeded")
                ELSE IF wk[w].cancelSeen THEN Closing(w, "cancelled")
                ELSE Sending(w, "begin")
<1>1. /\ AutoTypes /\ WorkerOK(wk[w], attempts, run.cancel, lease.expired)
      /\ wk[w].step \in Nat /\ wk[w].step <= Len(Definition) + 1
      /\ wk[w].step \in 1..(Len(Definition) + 1)
  BY InvTypes DEF WorkerState
<1>2. "begin" \in Pc /\ Len(Definition) \in Nat
  BY AutomationAssumption DEF Pc, Command
<1>3. x \in WorkerState /\ WorkerOK(x, attempts, run.cancel, lease.expired)
  <2>1. CASE wk[w].step > Len(Definition)
    <3>1. /\ x \in WorkerState /\ x.pc = "close" /\ x.step = wk[w].step
          /\ x.status = "succeeded" /\ x.cancelSeen = wk[w].cancelSeen
      BY <1>1, <2>1, Written
    <3>2. \A j \in Step : LatestOf(attempts, j) = "succeeded"
      <4>1. \A j \in Step : j \in 1..(wk[w].step - 1)
        BY <1>1, <1>2, <2>1 DEF Step
      <4> QED
        BY <1>1, <4>1 DEF WorkerOK, Grounded
    <3> HIDE DEF x
    <3> QED
      BY <1>1, <3>1, <3>2 DEF WorkerOK, Grounded, AtAStep
  <2>2. CASE ~(wk[w].step > Len(Definition)) /\ wk[w].cancelSeen
    <3>1. /\ x \in WorkerState /\ x.pc = "close" /\ x.step = wk[w].step
          /\ x.status = "cancelled" /\ x.cancelSeen = wk[w].cancelSeen
      BY <1>1, <2>2, Written
    <3> HIDE DEF x
    <3> QED
      BY <1>1, <2>2, <3>1 DEF WorkerOK, Grounded, AtAStep
  <2>3. CASE ~(wk[w].step > Len(Definition)) /\ ~wk[w].cancelSeen
    <3>1. /\ x \in WorkerState /\ x.pc = "begin" /\ x.step = wk[w].step
          /\ x.status = wk[w].status /\ x.cancelSeen = wk[w].cancelSeen
      BY <1>1, <1>2, <2>3, Written
    <3>2. wk[w].step \in Step
      BY <1>1, <1>2, <2>3 DEF Step
    <3> HIDE DEF x
    <3> QED
      BY <1>1, <3>1, <3>2 DEF WorkerOK, Grounded, AtAStep
  <2> QED
    BY <2>1, <2>2, <2>3
<1>4. wk' = [wk EXCEPT ![w] = x]
  BY InvTypes DEF NextStep
<1> HIDE DEF x
<1> QED
  BY <1>1, <1>3, <1>4, OneMoves DEF NextStep, AutoTypes

\* A command of a worker that is between two steps.
LEMMA SendsBetween ==
    ASSUME AutoInv, NEW w \in Worker, NEW pc \in {"park", "release"},
           wk' = [wk EXCEPT ![w] = Sending(w, pc)], UNCHANGED <<tables, child, blocked>>,
           mishaps' \in 0..MaxMishaps
    PROVE  AutoInv'
<1>1. AutoTypes /\ WorkerOK(wk[w], attempts, run.cancel, lease.expired) /\ pc \in Pc
  BY InvTypes DEF Pc, Command
<1>2. /\ Sending(w, pc) \in WorkerState
      /\ Sending(w, pc).pc = pc /\ Sending(w, pc).step = wk[w].step
      /\ Sending(w, pc).status = wk[w].status
      /\ Sending(w, pc).cancelSeen = wk[w].cancelSeen
  BY <1>1, Written
<1>3. WorkerOK(Sending(w, pc), attempts, run.cancel, lease.expired)
  BY <1>1, <1>2 DEF WorkerOK, Grounded, AtAStep
<1> QED
  BY <1>1, <1>2, <1>3, OneMoves DEF AutoTypes

LEMMA ExitKeeps ==
    ASSUME AutoInv, NEW w \in Worker, Exit(w), UNCHANGED <<tables, child, blocked>>,
           mishaps' \in 0..MaxMishaps
    PROVE  AutoInv'
<1>1. AutoTypes
  BY DEF AutoInv
<1> QED
  BY <1>1, IdleOK, OneMoves DEF Exit, AutoTypes

LEMMA VerdictType ==
    ASSUME NEW outcome \in Outcome
    PROVE  Verdict(outcome) \in {"complete", "fail", "attention"}
BY DEF Outcome, Verdict

LEMMA EffectKeeps ==
    ASSUME AutoInv, NEW w \in Worker, Effect(w) \/ FinishChild(w) \/ LoseDaemon(w)
    PROVE  AutoInv'
<1>1. AutoTypes /\ wk[w].step \in Step /\ wk[w].pc \in {"effect", "executing"}
  <2>1. wk[w].pc \in {"effect", "executing"}
    BY DEF Effect, FinishChild, LoseDaemon
  <2> QED
    BY <2>1, InvTypes DEF WorkerOK, Grounded, AtAStep
<1>2. /\ child' \in [Step -> ChildState] /\ blocked' \in BOOLEAN
      /\ mishaps' \in 0..MaxMishaps /\ UNCHANGED tables
  BY <1>1, AutomationAssumption
     DEF Effect, FinishChild, LoseDaemon, AutoTypes, ChildState, Outcome
<1>3. \E pc \in {"executing", "complete", "fail", "attention", "wait"} :
          /\ pc = "wait" => wk[w].pc = "effect"
          /\ \/ wk' = [wk EXCEPT ![w] = At(w, pc)]
             \/ wk' = [wk EXCEPT ![w] = Sending(w, pc)]
  <2>1. CASE Effect(w)
    BY <2>1, VerdictType DEF Effect, ChildClosed, At
  <2>2. CASE FinishChild(w)
    BY <2>2, VerdictType DEF FinishChild
  <2>3. CASE LoseDaemon(w)
    BY <2>3 DEF LoseDaemon
  <2> QED
    BY <2>1, <2>2, <2>3
<1>4. PICK pc \in {"executing", "complete", "fail", "attention", "wait"} :
          /\ pc = "wait" => wk[w].pc = "effect"
          /\ \/ wk' = [wk EXCEPT ![w] = At(w, pc)]
             \/ wk' = [wk EXCEPT ![w] = Sending(w, pc)]
  BY <1>3
<1> QED
  BY <1>1, <1>2, <1>4, SendsOn, OneMoves

\* The workers stay, and the tables as well.
LEMMA NobodyMoves ==
    ASSUME AutoInv, UNCHANGED <<tables, wk>>, child' \in [Step -> ChildState],
           blocked' \in BOOLEAN, mishaps' \in 0..MaxMishaps
    PROVE  AutoInv'
BY DEF AutoInv, AutoTypes, tables

-----------------------------------------------------------------------------
(* Commands: the rows they write and what the worker goes on with. *)

LEMMA RowFields ==
    ASSUME run \in RunRow
    PROVE  /\ \A state \in {"ready", "leased", "waiting_for_input",
                            "attention_required", "closed"} :
                 /\ InState(state) \in RunRow
                 /\ InState(state).state = state
                 /\ InState(state).cancel = run.cancel
                 /\ InState(state).wait = run.wait
                 /\ InState(state).closure = run.closure
                 /\ InState(state).reason = "none"
           /\ \A status \in {"succeeded", "failed", "cancelled"} :
                 /\ ClosedAs(status) \in RunRow
                 /\ ClosedAs(status).state = "closed"
                 /\ ClosedAs(status).cancel = run.cancel
                 /\ ClosedAs(status).wait = run.wait
                 /\ ClosedAs(status).closure = status
<1>1. ASSUME NEW state \in {"ready", "leased", "waiting_for_input",
                            "attention_required", "closed"}
      PROVE  /\ InState(state) \in RunRow
             /\ InState(state).state = state
             /\ InState(state).cancel = run.cancel
             /\ InState(state).wait = run.wait
             /\ InState(state).closure = run.closure
             /\ InState(state).reason = "none"
  BY DEF InState, RunRow
<1>2. ASSUME NEW status \in {"succeeded", "failed", "cancelled"}
      PROVE  /\ ClosedAs(status) \in RunRow
             /\ ClosedAs(status).state = "closed"
             /\ ClosedAs(status).cancel = run.cancel
             /\ ClosedAs(status).wait = run.wait
             /\ ClosedAs(status).closure = status
  BY <1>1 DEF ClosedAs, RunRow
<1> QED
  BY <1>1, <1>2

\* A transaction of a command: rows and workers as they should be.
LEMMA Writes ==
    ASSUME AutoInv, run' \in RunRow, attempts' \in Attempts, lease' \in Lease,
           InOrder(attempts'), Retried(attempts'), RowsOK(run', attempts', lease'),
           wk' \in [Worker -> WorkerState],
           \A w \in Worker : WorkerOK(wk'[w], attempts', run'.cancel, lease'.expired),
           child' \in [Step -> ChildState], blocked' \in BOOLEAN,
           mishaps' \in 0..MaxMishaps
    PROVE  AutoInv'
BY DEF AutoInv, AutoTypes

LEMMA SameIsStable ==
    ASSUME NEW att
    PROVE  Stable(att, att)
BY DEF Stable

LEMMA ReplayKeeps ==
    ASSUME AutoInv, NEW w \in Worker, NEW next \in WorkerState, next.pc # "acquire",
           Grounded(next, attempts, run.cancel), Replay(w, next),
           UNCHANGED <<child, blocked, mishaps>>
    PROVE  AutoInv'
<1>1. wk' = [wk EXCEPT ![w] = Answered(next)] /\ UNCHANGED tables
  BY DEF Replay, Answered
<1>2. Answered(next) \in WorkerState
      /\ WorkerOK(Answered(next), attempts, run.cancel, lease.expired)
  BY AnsweredOK
<1> QED
  BY <1>1, <1>2, OneMoves DEF AutoInv, AutoTypes

\* After a step that succeeded the worker goes on to the next one.
GoingOn(w) == [At(w, "step") EXCEPT !.step = wk[w].step + 1]

LEMMA GoesOn ==
    ASSUME AutoInv, NEW w \in Worker, wk[w].step \in Step, NEW att \in Attempts,
           Stable(attempts, att), LatestOf(att, wk[w].step) = "succeeded",
           NEW c, run.cancel => c
    PROVE  /\ GoingOn(w) \in WorkerState /\ GoingOn(w).pc = "step"
           /\ Grounded(GoingOn(w), att, c)
<1> DEFINE k == wk[w].step
<1>1. AutoTypes /\ WorkerOK(wk[w], attempts, run.cancel, lease.expired)
  BY InvTypes
<1>2. /\ k \in Nat /\ k <= Len(Definition) /\ Len(Definition) \in Nat /\ k >= 1
      /\ \A j \in 1..((k + 1) - 1) : j = k \/ j \in 1..(k - 1)
      /\ \A j \in 1..(k - 1) : j \in Step
  BY AutomationAssumption DEF Step
<1>3. k + 1 \in 1..(Len(Definition) + 1)
  BY <1>2
<1>4. "step" \in Pc
  BY DEF Pc
<1>5. At(w, "step") \in WorkerState /\ At(w, "step").pc = "step"
      /\ At(w, "step").status = wk[w].status
  BY <1>1, <1>4, Written
<1>6. /\ GoingOn(w) \in WorkerState /\ GoingOn(w).pc = "step"
      /\ GoingOn(w).step = k + 1 /\ GoingOn(w).status = wk[w].status
  BY <1>3, <1>5 DEF GoingOn, WorkerState
<1>7. \A j \in 1..(k - 1) : LatestOf(att, j) = "succeeded"
  BY <1>1, <1>2 DEF WorkerOK, Grounded, Stable
<1>8. \A j \in 1..(GoingOn(w).step - 1) : LatestOf(att, j) = "succeeded"
  BY <1>2, <1>6, <1>7
<1> QED
  BY <1>1, <1>6, <1>8 DEF WorkerOK, Grounded, AtAStep, Stable

\* The worker ends the procedure next.
LEMMA GoesToClose ==
    ASSUME AutoInv, NEW w \in Worker, NEW status \in {"failed", "cancelled"},
           NEW att \in Attempts, Stable(attempts, att), NEW c,
           status = "cancelled" => c,
           status = "failed" => \E k \in Step : LatestOf(att, k) = "failed"
    PROVE  /\ Closing(w, status) \in WorkerState /\ Closing(w, status).pc = "close"
           /\ Grounded(Closing(w, status), att, c)
<1>1. AutoTypes /\ WorkerOK(wk[w], attempts, run.cancel, lease.expired)
      /\ wk[w].step \in Nat /\ wk[w].step <= Len(Definition) + 1
  BY InvTypes
<1>2. /\ Closing(w, status) \in WorkerState /\ Closing(w, status).pc = "close"
      /\ Closing(w, status).step = wk[w].step /\ Closing(w, status).status = status
  BY <1>1, Written
<1>3. \A j \in 1..(wk[w].step - 1) : LatestOf(att, j) = "succeeded"
  <2>1. \A j \in 1..(wk[w].step - 1) : j \in Step
    BY <1>1, AutomationAssumption DEF Step
  <2> QED
    BY <1>1, <2>1 DEF WorkerOK, Grounded, Stable
<1> QED
  BY <1>2, <1>3 DEF Grounded, AtAStep

\* A step that has begun goes on with its effect or with its question.
LEMMA GoesToWork ==
    ASSUME AutoInv, NEW w \in Worker, wk[w].step \in Step,
           NEW att \in Attempts, Stable(attempts, att), NEW c, run.cancel => c
    PROVE  /\ Begun(w) \in WorkerState /\ Begun(w).pc \in {"effect", "ask"}
           /\ Grounded(Begun(w), att, c)
<1>1. AutoTypes /\ WorkerOK(wk[w], attempts, run.cancel, lease.expired)
      /\ wk[w].step \in Nat
  BY InvTypes
<1>2. "effect" \in Pc /\ "ask" \in Pc
  BY DEF Pc, Command
<1>3. /\ Begun(w) \in WorkerState
      /\ Begun(w).pc = IF Definition[wk[w].step] = "run" THEN "effect" ELSE "ask"
      /\ Begun(w).step = wk[w].step /\ Begun(w).status = wk[w].status
  <2>1. CASE Definition[wk[w].step] = "run"
    BY <1>1, <1>2, <2>1, Written DEF Begun
  <2>2. CASE Definition[wk[w].step] # "run"
    BY <1>1, <1>2, <2>2, Written DEF Begun
  <2> QED
    BY <2>1, <2>2
<1>4. \A j \in 1..(wk[w].step - 1) : j \in Step
  BY <1>1, AutomationAssumption DEF Step
<1> QED
  BY <1>1, <1>3, <1>4 DEF WorkerOK, Grounded, AtAStep, Stable

\* A command's transaction, its worker answered ...
LEMMA AnswerWrites ==
    ASSUME AutoInv, NEW w \in Worker, NEW next \in WorkerState, next.pc # "acquire",
           Answer(w, next), run' \in RunRow, run.cancel => run'.cancel,
           attempts' \in Attempts, Stable(attempts, attempts'), lease' \in Lease,
           InOrder(attempts'), Retried(attempts'), RowsOK(run', attempts', lease'),
           Grounded(next, attempts', run'.cancel), UNCHANGED <<child, blocked, mishaps>>
    PROVE  AutoInv'
<1>1. /\ wk' \in [Worker -> WorkerState]
      /\ \A v \in Worker : WorkerOK(wk'[v], attempts', run'.cancel, lease'.expired)
  BY AfterAnswer
<1>2. AutoTypes
  BY InvTypes
<1> QED
  BY <1>1, <1>2, Writes DEF AutoTypes

\* ... or gone.
LEMMA LeaveWrites ==
    ASSUME AutoInv, NEW w \in Worker, Leave(w), run' \in RunRow, run.cancel => run'.cancel,
           attempts' \in Attempts, Stable(attempts, attempts'), lease' = NoLease,
           InOrder(attempts'), Retried(attempts'), RowsOK(run', attempts', lease'),
           child' \in [Step -> ChildState], UNCHANGED <<blocked, mishaps>>
    PROVE  AutoInv'
<1>1. /\ wk' \in [Worker -> WorkerState]
      /\ \A v \in Worker : WorkerOK(wk'[v], attempts', run'.cancel, lease'.expired)
  BY AfterLeave
<1>2. AutoTypes /\ lease' \in Lease
  BY InvTypes DEF Lease
<1> QED
  BY <1>1, <1>2, Writes DEF AutoTypes

\* A step that runs, or whose question is open, is the only one.
LEMMA UnderWay ==
    ASSUME AutoInv, NEW k \in Step, Latest(k) \in {"running", "waiting_for_input"}
    PROVE  /\ run.closure # "succeeded"
           /\ \A j \in Step \ {k} : LatestOf(attempts, j) \in {"none", "succeeded"}
           /\ \A state \in AttemptState :
                 LET new == WithLatest(k, state)
                 IN  /\ new \in Attempts /\ Stable(attempts, new)
                     /\ InOrder(new) /\ Retried(new)
                     /\ LatestOf(new, k) = state
                     /\ \A j \in Step \ {k} : LatestOf(new, j) \in {"none", "succeeded"}
<1>1. /\ attempts \in Attempts /\ InOrder(attempts) /\ Retried(attempts)
      /\ RowsOK(run, attempts, lease)
  BY DEF AutoInv, AutoTypes
<1>2. LatestOf(attempts, k) \in {"running", "waiting_for_input"} /\ attempts[k] # <<>>
  BY DEF LatestOf, Latest
<1>3. run.closure # "succeeded"
  BY <1>1, <1>2 DEF RowsOK
<1>4. \A j \in Step \ {k} : LatestOf(attempts, j) \in {"none", "succeeded"}
  BY <1>1, <1>2, OneUnsettled
<1>5. ASSUME NEW state \in AttemptState
      PROVE  LET new == Marked(attempts, k, state)
             IN  /\ new \in Attempts /\ Stable(attempts, new)
                 /\ InOrder(new) /\ Retried(new)
                 /\ LatestOf(new, k) = state
                 /\ \A j \in Step \ {k} : LatestOf(new, j) \in {"none", "succeeded"}
  <2> DEFINE new == Marked(attempts, k, state)
  <2>1. /\ new \in Attempts /\ LatestOf(new, k) = state
        /\ \A j \in Step \ {k} : new[j] = attempts[j]
    BY <1>1, <1>2, MarkedFacts
  <2>2. InOrder(new) /\ Retried(new) /\ Stable(attempts, new)
    BY <1>1, <1>2, MarkedHistory
  <2>3. \A j \in Step \ {k} : LatestOf(new, j) \in {"none", "succeeded"}
    BY <1>4, <2>1 DEF LatestOf
  <2> QED
    BY <2>1, <2>2, <2>3
<1>6. \A state : WithLatest(k, state) = Marked(attempts, k, state)
  BY DEF WithLatest, Marked
<1> QED
  BY <1>3, <1>4, <1>5, <1>6

LEMMA LeasedRows ==
    ASSUME AutoInv, run.state = "leased"
    PROVE  lease # NoLease /\ \A k \in Step : LatestOf(attempts, k) # "waiting_for_input"
BY DEF AutoInv, RowsOK

LEMMA AcquireKeeps ==
    ASSUME AutoInv, NEW w \in Worker, Acquire(w)
    PROVE  AutoInv'
<1>1. AutoTypes
  BY DEF AutoInv
<1>2. CASE Current(w) /\ Acquirable(w)
  <2> DEFINE next == [Idle EXCEPT !.pc = "step"]
  <2>1. /\ run' = InState("leased") /\ lease' = [holder |-> w, expired |-> FALSE]
        /\ Answer(w, next) /\ attempts' = attempts /\ UNCHANGED <<child, blocked, mishaps>>
    BY <1>2 DEF Acquire
  <2>2. next \in WorkerState /\ next.pc = "step" /\ next.step = 1 /\ next.status = "none"
    BY IdleOK DEF WorkerState
  <2>3. Grounded(next, attempts, run'.cancel)
    BY <2>2 DEF Grounded, AtAStep
  <2> HIDE DEF next
  <2>4. /\ run' \in RunRow /\ run'.state = "leased" /\ run'.cancel = run.cancel
        /\ run'.closure = run.closure
    BY <1>1, <2>1, RowFields DEF AutoTypes
  <2>5. lease' \in Lease /\ lease' # NoLease
    BY <2>1, AutomationAssumption DEF Lease, NoLease
  <2>6. RowsOK(run', attempts', lease')
    <3>1. \A k \in Step : LatestOf(attempts, k) # "waiting_for_input"
      BY <1>2 DEF Acquirable, AutoInv, RowsOK
    <3> QED
      BY <2>1, <2>4, <2>5, <3>1 DEF AutoInv, RowsOK
  <2>7. Stable(attempts, attempts') /\ attempts' \in Attempts
        /\ InOrder(attempts') /\ Retried(attempts')
    BY <2>1, SameIsStable DEF AutoInv, AutoTypes
  <2> QED
    BY <2>1, <2>2, <2>3, <2>4, <2>5, <2>6, <2>7, AnswerWrites
<1>3. CASE ~(Current(w) /\ Acquirable(w))
  <2>1. Exit(w) /\ UNCHANGED <<tables, child, blocked, mishaps>>
    BY <1>3 DEF Acquire
  <2> QED
    BY <1>1, <2>1, ExitKeeps DEF AutoTypes
<1> QED
  BY <1>2, <1>3

LEMMA BeginStepKeeps ==
    ASSUME AutoInv, NEW w \in Worker, BeginStep(w)
    PROVE  AutoInv'
<1> DEFINE k == wk[w].step
<1>1. /\ AutoTypes /\ wk[w].pc = "begin" /\ k \in Step
      /\ Grounded(wk[w], attempts, run.cancel)
      /\ attempts \in Attempts /\ InOrder(attempts) /\ Retried(attempts)
      /\ Stable(attempts, attempts) /\ RowsOK(run, attempts, lease)
  BY InvTypes, SameIsStable DEF BeginStep, WorkerOK, Grounded, AtAStep, AutoInv
<1>2. Latest(k) = LatestOf(attempts, k)
  BY DEF Latest, LatestOf
<1>3. UNCHANGED <<child, blocked, mishaps>>
  BY DEF BeginStep
<1> HIDE DEF k
<1>4. CASE Refused(w)
  BY <1>1, <1>3, <1>4, RefusedKeeps DEF Command
<1>5. CASE Latest(k) = "succeeded" /\ Replay(w, GoingOn(w))
  <2>1. GoingOn(w) \in WorkerState /\ GoingOn(w).pc = "step"
        /\ Grounded(GoingOn(w), attempts, run.cancel)
    BY <1>1, <1>2, <1>5, GoesOn DEF k
  <2> QED
    BY <1>3, <1>5, <2>1, ReplayKeeps
<1>6. CASE Replay(w, Begun(w))
  <2>1. Begun(w) \in WorkerState /\ Begun(w).pc \in {"effect", "ask"}
        /\ Grounded(Begun(w), attempts, run.cancel)
    BY <1>1, GoesToWork DEF k
  <2> QED
    BY <1>3, <1>6, <2>1, ReplayKeeps
<1>7. CASE /\ run.state = "leased"
           /\ Latest(k) \notin {"succeeded", "running", "failed"}
           /\ attempts' = Grown(attempts, k) /\ run' = InState("leased")
           /\ Answer(w, Begun(w)) /\ lease' = lease
  <2>1. /\ run' \in RunRow /\ run'.state = "leased" /\ run'.cancel = run.cancel
        /\ run'.closure = run.closure
    BY <1>1, <1>7, RowFields DEF AutoTypes
  <2>2. LatestOf(attempts, k) \in {"none", "attention_required"}
    BY <1>1, <1>2, <1>7, LatestFacts, LeasedRows DEF AttemptState
  <2>3. \A j \in 1..(k - 1) : LatestOf(attempts, j) = "succeeded"
    BY <1>1 DEF Grounded, k
  <2>4. /\ attempts' \in Attempts /\ LatestOf(attempts', k) = "running"
        /\ \A j \in Step \ {k} : LatestOf(attempts', j) = LatestOf(attempts, j)
        /\ InOrder(attempts') /\ Retried(attempts') /\ Stable(attempts, attempts')
    BY <1>1, <1>7, <2>2, <2>3, GrownFacts, GrownHistory DEF LatestOf
  <2>5. RowsOK(run', attempts', lease')
    BY <1>1, <1>7, <2>1, <2>2, <2>4 DEF RowsOK
  <2>6. Begun(w) \in WorkerState /\ Begun(w).pc \in {"effect", "ask"}
        /\ Grounded(Begun(w), attempts', run'.cancel)
    BY <1>1, <2>1, <2>4, GoesToWork DEF k
  <2> QED
    BY <1>1, <1>3, <1>7, <2>1, <2>4, <2>5, <2>6, AnswerWrites DEF AutoTypes
<1> QED
  BY <1>4, <1>5, <1>6, <1>7 DEF BeginStep, MayBegin, Leased, GoingOn, Grown, k

\* CompleteStep and FailStep settle the step that runs and go on with next.
LEMMA SettledKeeps ==
    ASSUME AutoInv, NEW w \in Worker, NEW state \in {"succeeded", "failed"},
           wk[w].step \in Step, run.state = "leased", Latest(wk[w].step) = "running",
           attempts' = WithLatest(wk[w].step, state), lease' = lease,
           run' \in RunRow, run'.state = "leased", run'.cancel = run.cancel,
           run'.closure = run.closure,
           NEW next \in WorkerState, next.pc # "acquire", Answer(w, next),
           Grounded(next, attempts', run.cancel), UNCHANGED <<child, blocked, mishaps>>
    PROVE  AutoInv'
<1> DEFINE k == wk[w].step
<1>1. state \in AttemptState /\ AutoTypes /\ RowsOK(run, attempts, lease)
  BY DEF AttemptState, AutoInv
<1>2. /\ run.closure # "succeeded" /\ attempts' \in Attempts
      /\ Stable(attempts, attempts') /\ InOrder(attempts') /\ Retried(attempts')
      /\ LatestOf(attempts', k) = state
      /\ \A j \in Step \ {k} : LatestOf(attempts', j) \in {"none", "succeeded"}
  BY <1>1, UnderWay
<1> HIDE DEF k
<1>3. \A j \in Step : LatestOf(attempts', j) # "waiting_for_input"
  BY <1>2
<1>4. RowsOK(run', attempts', lease')
  BY <1>1, <1>2, <1>3 DEF RowsOK
<1> QED
  BY <1>1, <1>2, <1>4, AnswerWrites DEF AutoTypes

LEMMA CompleteStepKeeps ==
    ASSUME AutoInv, NEW w \in Worker, CompleteStep(w)
    PROVE  AutoInv'
<1> DEFINE k == wk[w].step
           next == IF run.cancel THEN Closing(w, "cancelled") ELSE GoingOn(w)
<1>1. /\ AutoTypes /\ wk[w].pc = "complete" /\ k \in Step
      /\ attempts \in Attempts /\ Stable(attempts, attempts)
      /\ Latest(k) = LatestOf(attempts, k)
      /\ UNCHANGED <<child, blocked, mishaps>>
  BY InvTypes, SameIsStable
     DEF CompleteStep, WorkerOK, Grounded, AtAStep, AutoInv, Latest, LatestOf
<1>2. ASSUME NEW att \in Attempts, Stable(attempts, att), LatestOf(att, k) = "succeeded"
      PROVE  next \in WorkerState /\ next.pc # "acquire" /\ Grounded(next, att, run.cancel)
  <2>1. CASE run.cancel
    BY <1>2, <2>1, GoesToClose
  <2>2. CASE ~run.cancel
    BY <1>1, <1>2, <2>2, GoesOn
  <2> QED
    BY <2>1, <2>2
<1>3. CASE Refused(w)
  BY <1>1, <1>3, RefusedKeeps DEF Command
<1>4. CASE Latest(k) = "succeeded" /\ Replay(w, next)
  <2>1. next \in WorkerState /\ next.pc # "acquire" /\ Grounded(next, attempts, run.cancel)
    BY <1>1, <1>2, <1>4
  <2> HIDE DEF next
  <2> QED
    BY <1>1, <1>4, <2>1, ReplayKeeps
<1>5. CASE /\ run.state = "leased" /\ Latest(k) = "running"
           /\ attempts' = WithLatest(k, "succeeded")
           /\ run' = [InState("leased") EXCEPT !.wait = IF @ = k THEN 0 ELSE @]
           /\ Answer(w, next) /\ lease' = lease
  <2>1. /\ InState("leased") \in RunRow /\ InState("leased").state = "leased"
        /\ InState("leased").cancel = run.cancel
        /\ InState("leased").closure = run.closure
    BY <1>1, RowFields DEF AutoTypes
  <2>2. /\ run' \in RunRow /\ run'.state = "leased" /\ run'.cancel = run.cancel
        /\ run'.closure = run.closure
    BY <1>5, <2>1, AutomationAssumption DEF RunRow
  <2>3. attempts' \in Attempts /\ Stable(attempts, attempts')
        /\ LatestOf(attempts', k) = "succeeded"
    BY <1>1, <1>5, UnderWay DEF AttemptState
  <2>4. next \in WorkerState /\ next.pc # "acquire" /\ Grounded(next, attempts', run.cancel)
    BY <1>2, <2>3
  <2> HIDE DEF next
  <2> QED
    BY <1>1, <1>5, <2>2, <2>4, SettledKeeps
<1> QED
  BY <1>3, <1>4, <1>5 DEF CompleteStep, Leased, GoingOn

LEMMA FailStepKeeps ==
    ASSUME AutoInv, NEW w \in Worker, FailStep(w)
    PROVE  AutoInv'
<1> DEFINE k == wk[w].step
           next == Closing(w, "failed")
<1>1. /\ AutoTypes /\ wk[w].pc = "fail" /\ k \in Step
      /\ attempts \in Attempts /\ Stable(attempts, attempts)
      /\ Latest(k) = LatestOf(attempts, k)
      /\ UNCHANGED <<child, blocked, mishaps>>
  BY InvTypes, SameIsStable
     DEF FailStep, WorkerOK, Grounded, AtAStep, AutoInv, Latest, LatestOf
<1>2. ASSUME NEW att \in Attempts, Stable(attempts, att), LatestOf(att, k) = "failed"
      PROVE  next \in WorkerState /\ next.pc # "acquire" /\ Grounded(next, att, run.cancel)
  BY <1>1, <1>2, GoesToClose
<1>3. CASE Refused(w)
  BY <1>1, <1>3, RefusedKeeps DEF Command
<1>4. CASE Latest(k) = "failed" /\ Replay(w, next)
  <2>1. next \in WorkerState /\ next.pc # "acquire" /\ Grounded(next, attempts, run.cancel)
    BY <1>1, <1>2, <1>4
  <2> HIDE DEF next
  <2> QED
    BY <1>1, <1>4, <2>1, ReplayKeeps
<1>5. CASE /\ run.state = "leased" /\ Latest(k) = "running"
           /\ attempts' = WithLatest(k, "failed") /\ run' = InState("leased")
           /\ Answer(w, next) /\ lease' = lease
  <2>1. /\ run' \in RunRow /\ run'.state = "leased" /\ run'.cancel = run.cancel
        /\ run'.closure = run.closure
    BY <1>1, <1>5, RowFields DEF AutoTypes
  <2>2. attempts' \in Attempts /\ Stable(attempts, attempts')
        /\ LatestOf(attempts', k) = "failed"
    BY <1>1, <1>5, UnderWay DEF AttemptState
  <2>3. next \in WorkerState /\ next.pc # "acquire" /\ Grounded(next, attempts', run.cancel)
    BY <1>2, <2>2
  <2> HIDE DEF next
  <2> QED
    BY <1>1, <1>5, <2>1, <2>3, SettledKeeps
<1> QED
  BY <1>3, <1>4, <1>5 DEF FailStep, Leased

\* The run is left in a state that nobody owes an answer in, with the attempts as they are.
LEMMA LeftKeeps ==
    ASSUME AutoInv, NEW w \in Worker, Leave(w), run.state = "leased", attempts' = attempts,
           lease' = NoLease, run' \in RunRow, run'.cancel = run.cancel,
           run'.state # "leased", run'.state # "waiting_for_input",
           run'.state = "attention_required" => run'.reason # "step",
           run'.closure = "succeeded" => \A k \in Step : LatestOf(attempts, k) = "succeeded",
           child' \in [Step -> ChildState], UNCHANGED <<blocked, mishaps>>
    PROVE  AutoInv'
<1>1. /\ attempts' \in Attempts /\ Stable(attempts, attempts')
      /\ InOrder(attempts') /\ Retried(attempts')
  BY SameIsStable DEF AutoInv, AutoTypes
<1>2. RowsOK(run', attempts', lease')
  BY LeasedRows DEF RowsOK
<1> QED
  BY <1>1, <1>2, LeaveWrites

LEMMA RequireStepAttentionKeeps ==
    ASSUME AutoInv, NEW w \in Worker, RequireStepAttention(w)
    PROVE  AutoInv'
<1> DEFINE k == wk[w].step
<1>1. /\ AutoTypes /\ wk[w].pc = "attention" /\ k \in Step
      /\ UNCHANGED <<child, blocked, mishaps>>
  BY InvTypes DEF RequireStepAttention, WorkerOK, Grounded, AtAStep
<1>2. CASE Refused(w)
  BY <1>1, <1>2, RefusedKeeps DEF Command
<1>3. CASE ~Refused(w)
  <2>1. /\ run.state = "leased" /\ Latest(k) = "running"
        /\ attempts' = WithLatest(k, "attention_required")
        /\ run' = [InState("attention_required") EXCEPT !.reason = "step"]
        /\ lease' = NoLease /\ Leave(w)
    BY <1>3 DEF RequireStepAttention, Leased
  <2>2. /\ run.closure # "succeeded" /\ attempts' \in Attempts
        /\ Stable(attempts, attempts') /\ InOrder(attempts') /\ Retried(attempts')
        /\ LatestOf(attempts', k) = "attention_required"
        /\ \A j \in Step \ {k} : LatestOf(attempts', j) \in {"none", "succeeded"}
    BY <1>1, <2>1, UnderWay DEF AttemptState
  <2>3. /\ InState("attention_required") \in RunRow
        /\ InState("attention_required").state = "attention_required"
        /\ InState("attention_required").cancel = run.cancel
        /\ InState("attention_required").closure = run.closure
    BY <1>1, RowFields DEF AutoTypes
  <2>4. /\ run' \in RunRow /\ run'.state = "attention_required"
        /\ run'.cancel = run.cancel /\ run'.closure = run.closure
    BY <2>1, <2>3 DEF RunRow
  <2> HIDE DEF k
  <2>5. \A j \in Step : LatestOf(attempts', j) # "waiting_for_input"
    BY <2>2
  <2>6. RowsOK(run', attempts', lease')
    BY <1>1, <2>1, <2>2, <2>4, <2>5 DEF RowsOK
  <2> QED
    BY <1>1, <2>1, <2>2, <2>4, <2>6, LeaveWrites DEF AutoTypes
<1> QED
  BY <1>2, <1>3

LEMMA RequireRunAttentionKeeps ==
    ASSUME AutoInv, NEW w \in Worker, RequireRunAttention(w)
    PROVE  AutoInv'
<1>1. AutoTypes /\ wk[w].pc = "park" /\ UNCHANGED <<child, blocked, mishaps>>
  BY InvTypes DEF RequireRunAttention
<1>2. CASE Refused(w)
  BY <1>1, <1>2, RefusedKeeps DEF Command
<1>3. CASE ~Refused(w)
  <2>1. /\ run.state = "leased" /\ attempts' = attempts
        /\ run' = [InState("attention_required") EXCEPT !.reason = "run"]
        /\ lease' = NoLease /\ Leave(w)
    BY <1>3 DEF RequireRunAttention, Leased
  <2>2. /\ InState("attention_required") \in RunRow
        /\ InState("attention_required").state = "attention_required"
        /\ InState("attention_required").cancel = run.cancel
        /\ InState("attention_required").closure = run.closure
    BY <1>1, RowFields DEF AutoTypes
  <2>3. /\ run' \in RunRow /\ run'.state = "attention_required" /\ run'.reason = "run"
        /\ run'.cancel = run.cancel /\ run'.closure = run.closure
    BY <2>1, <2>2 DEF RunRow
  <2>4. run'.closure = "succeeded" => \A k \in Step : LatestOf(attempts, k) = "succeeded"
    BY <2>3 DEF AutoInv, RowsOK
  <2> QED
    BY <1>1, <2>1, <2>3, <2>4, LeftKeeps DEF AutoTypes
<1> QED
  BY <1>2, <1>3

LEMMA WaitStepInputKeeps ==
    ASSUME AutoInv, NEW w \in Worker, WaitStepInput(w)
    PROVE  AutoInv'
<1> DEFINE k == wk[w].step
<1>1. /\ AutoTypes /\ wk[w].pc = "ask" /\ k \in Step
      /\ UNCHANGED <<child, blocked, mishaps>>
  BY InvTypes DEF WaitStepInput, WorkerOK, Grounded, AtAStep
<1>2. CASE Refused(w)
  BY <1>1, <1>2, RefusedKeeps DEF Command
<1>3. CASE ~Refused(w)
  <2>1. /\ run.state = "leased" /\ Latest(k) = "running"
        /\ attempts' = WithLatest(k, "waiting_for_input")
        /\ run' = IF run.cancel THEN ClosedAs("cancelled") ELSE InState("waiting_for_input")
        /\ lease' = NoLease /\ Leave(w)
    BY <1>3 DEF WaitStepInput, Leased
  <2>2. /\ run.closure # "succeeded" /\ attempts' \in Attempts
        /\ Stable(attempts, attempts') /\ InOrder(attempts') /\ Retried(attempts')
        /\ LatestOf(attempts', k) = "waiting_for_input"
    BY <1>1, <2>1, UnderWay DEF AttemptState
  <2>3. /\ run' \in RunRow /\ run'.state \in {"waiting_for_input", "closed"}
        /\ run'.cancel = run.cancel /\ run'.closure # "succeeded"
    BY <1>1, <2>1, <2>2, RowFields DEF AutoTypes
  <2>4. RowsOK(run', attempts', lease')
    BY <1>1, <2>1, <2>2, <2>3 DEF RowsOK
  <2> QED
    BY <1>1, <2>1, <2>2, <2>3, <2>4, LeaveWrites DEF AutoTypes
<1> QED
  BY <1>2, <1>3

LEMMA CancelledChildType ==
    ASSUME child \in [Step -> ChildState], NEW k \in Step
    PROVE  /\ CancelledChild(k) \in [Step -> ChildState]
           /\ \A j \in Step \ {k} : CancelledChild(k)[j] = child[j]
           /\ CancelledChild(k)[k] \notin {"absent", "queued"}
           /\ child[k] \notin {"absent", "queued"} => CancelledChild(k) = child
<1>1. CancelledChild(k) =
          [child EXCEPT ![k] = IF child[k] \in {"absent", "queued"} THEN "failed"
                                                                    ELSE child[k]]
  BY DEF CancelledChild, NeverStarted
<1>2. "failed" \in ChildState
  BY DEF ChildState, Outcome
<1> QED
  BY <1>1, <1>2

LEMMA WaitStepResourcesKeeps ==
    ASSUME AutoInv, NEW w \in Worker, WaitStepResources(w)
    PROVE  AutoInv'
<1> DEFINE k == wk[w].step
<1>1. /\ AutoTypes /\ wk[w].pc = "wait" /\ k \in Step /\ UNCHANGED <<blocked, mishaps>>
  BY InvTypes DEF WaitStepResources, WorkerOK, Grounded, AtAStep
<1>2. CASE Refused(w) /\ UNCHANGED child
  BY <1>1, <1>2, RefusedKeeps DEF Command
<1>3. CASE ~(Refused(w) /\ UNCHANGED child)
  <2> DEFINE row == IF run.cancel THEN ClosedAs("cancelled") ELSE InState("ready")
  <2>1. /\ run.state = "leased" /\ attempts' = attempts
        /\ run' = [row EXCEPT !.wait = k]
        /\ child' = IF run.cancel THEN CancelledChild(k) ELSE child
        /\ lease' = NoLease /\ Leave(w)
    BY <1>3 DEF WaitStepResources
  <2>2. /\ row \in RunRow /\ row.state \in {"ready", "closed"}
        /\ row.cancel = run.cancel /\ row.closure \in {run.closure, "cancelled"}
    BY <1>1, RowFields DEF AutoTypes
  <2> HIDE DEF row
  <2>3. k \in 0..Len(Definition)
    BY <1>1, AutomationAssumption DEF Step
  <2>4. /\ run' \in RunRow /\ run'.state \in {"ready", "closed"}
        /\ run'.cancel = run.cancel /\ run'.closure \in {run.closure, "cancelled"}
    BY <2>1, <2>2, <2>3 DEF RunRow
  <2>5. run'.closure = "succeeded" => \A j \in Step : LatestOf(attempts, j) = "succeeded"
    BY <2>4 DEF AutoInv, RowsOK
  <2>6. child' \in [Step -> ChildState]
    BY <1>1, <2>1, CancelledChildType DEF AutoTypes
  <2> QED
    BY <1>1, <2>1, <2>4, <2>5, <2>6, LeftKeeps
<1> QED
  BY <1>2, <1>3

LEMMA CloseKeeps ==
    ASSUME AutoInv, NEW w \in Worker, Close(w)
    PROVE  AutoInv'
<1>1. /\ AutoTypes /\ wk[w].pc = "close" /\ UNCHANGED <<child, blocked, mishaps>>
      /\ wk[w] \in WorkerState /\ Grounded(wk[w], attempts, run.cancel)
  BY InvTypes DEF Close, WorkerOK
<1>2. CASE Refused(w)
  BY <1>1, <1>2, RefusedKeeps DEF Command
<1>3. CASE ~Refused(w)
  <2>1. /\ run.state = "leased" /\ attempts' = attempts
        /\ run' = ClosedAs(ClosureStatus(w)) /\ lease' = NoLease /\ Leave(w)
    BY <1>3 DEF Close, Leased
  <2>2. /\ ClosureStatus(w) \in {"succeeded", "failed", "cancelled"}
        /\ ClosureStatus(w) = "succeeded" => wk[w].status = "succeeded"
    BY <1>1 DEF ClosureStatus, Grounded, WorkerState
  <2>3. /\ run' \in RunRow /\ run'.state = "closed" /\ run'.cancel = run.cancel
        /\ run'.closure = ClosureStatus(w)
    BY <1>1, <2>1, <2>2, RowFields DEF AutoTypes
  <2>4. run'.closure = "succeeded" => \A k \in Step : LatestOf(attempts, k) = "succeeded"
    BY <1>1, <2>2, <2>3 DEF Grounded
  <2> QED
    BY <1>1, <2>1, <2>3, <2>4, LeftKeeps DEF AutoTypes
<1> QED
  BY <1>2, <1>3

LEMMA ReleaseKeeps ==
    ASSUME AutoInv, NEW w \in Worker, Release(w)
    PROVE  AutoInv'
<1>1. AutoTypes /\ wk[w].pc = "release" /\ UNCHANGED <<child, blocked, mishaps>>
  BY InvTypes DEF Release
<1>2. CASE Refused(w)
  BY <1>1, <1>2, RefusedKeeps DEF Command
<1>3. CASE ~Refused(w)
  <2>1. /\ run.state = "leased" /\ attempts' = attempts
        /\ run' = InState("ready") /\ lease' = NoLease /\ Leave(w)
    BY <1>3 DEF Release, Leased
  <2>2. /\ run' \in RunRow /\ run'.state = "ready" /\ run'.cancel = run.cancel
        /\ run'.closure = run.closure
    BY <1>1, <2>1, RowFields DEF AutoTypes
  <2>3. run'.closure = "succeeded" => \A k \in Step : LatestOf(attempts, k) = "succeeded"
    BY <2>2 DEF AutoInv, RowsOK
  <2> QED
    BY <1>1, <2>1, <2>2, <2>3, LeftKeeps DEF AutoTypes
<1> QED
  BY <1>2, <1>3

-----------------------------------------------------------------------------
(* Operators and time. *)

LEMMA CancelKeeps ==
    ASSUME AutoInv, Cancel
    PROVE  AutoInv'
<1> DEFINE withChild == run.wait # 0 /\ child[run.wait] \notin {"leased", "fenced"}
           pending == run.state = "leased" /\ ~withChild
           row == IF pending THEN run ELSE ClosedAs("cancelled")
<1>1. /\ run' = [row EXCEPT !.cancel = TRUE]
      /\ lease' = IF pending THEN lease ELSE NoLease
      /\ child' = IF withChild THEN CancelledChild(run.wait) ELSE child
      /\ AfterCancel /\ attempts' = attempts /\ UNCHANGED <<blocked, mishaps>>
  BY DEF Cancel
<1>2. AutoTypes /\ RowsOK(run, attempts, lease)
      /\ InOrder(attempts) /\ Retried(attempts)
  BY DEF AutoInv
<1>3. /\ row \in RunRow
      /\ ~pending => row.state = "closed" /\ row.closure = "cancelled"
  BY <1>2, RowFields DEF AutoTypes
<1>4. /\ run' \in RunRow /\ run'.cancel = TRUE
      /\ run'.state = row.state /\ run'.closure = row.closure /\ run'.reason = row.reason
  BY <1>1, <1>3 DEF RunRow
<1>5. RowsOK(run', attempts', lease') /\ lease' \in Lease
  <2>1. CASE pending
    BY <1>1, <1>2, <1>4, <2>1 DEF RowsOK, AutoTypes
  <2>2. CASE ~pending
    BY <1>1, <1>3, <1>4, <2>2 DEF RowsOK, Lease
  <2> QED
    BY <2>1, <2>2
<1>6. child' \in [Step -> ChildState]
  <2>1. CASE withChild
    <3>1. run.wait \in Step
      BY <1>2, <2>1, AutomationAssumption DEF AutoTypes, RunRow, Step
    <3> QED
      BY <1>1, <1>2, <2>1, <3>1, CancelledChildType DEF AutoTypes
  <2>2. CASE ~withChild
    BY <1>1, <1>2, <2>2 DEF AutoTypes
  <2> QED
    BY <2>1, <2>2
<1>7. ASSUME NEW v \in Worker
      PROVE  wk'[v] \in WorkerState
             /\ WorkerOK(wk'[v], attempts', run'.cancel, lease'.expired)
  <2>1. /\ wk[v] \in WorkerState /\ WorkerOK(wk[v], attempts, run.cancel, lease.expired)
        /\ wk[v].step \in Nat /\ wk[v].step <= Len(Definition) + 1
        /\ attempts \in Attempts
    BY InvTypes
  <2>2. PICK known \in {"cancelled_since", "stale"} : wk'[v] = [wk[v] EXCEPT !.known = known]
    BY <1>1 DEF AfterCancel
  <2>3. /\ wk'[v] \in WorkerState /\ wk'[v].known = known
        /\ wk'[v].pc = wk[v].pc /\ wk'[v].step = wk[v].step
        /\ wk'[v].status = wk[v].status /\ wk'[v].cancelSeen = wk[v].cancelSeen
    BY <2>1, <2>2 DEF WorkerState
  <2>4. Stable(attempts, attempts)
    BY SameIsStable
  <2>5. WorkerOK(wk'[v], attempts, run'.cancel, lease'.expired)
    BY <1>4, <2>1, <2>3, <2>4, WorkerKept
  <2> QED
    BY <1>1, <2>3, <2>5
<1>8. wk' \in [Worker -> WorkerState]
  BY <1>1, <1>7 DEF AfterCancel
<1> HIDE DEF row, pending, withChild
<1> QED
  BY <1>1, <1>2, <1>4, <1>5, <1>6, <1>7, <1>8, Writes DEF AutoTypes

\* Every snapshot is stale after an operator's decision.
LEMMA DecisionKeeps ==
    ASSUME AutoInv, AfterDecision, run' \in RunRow, run'.cancel = run.cancel,
           attempts' \in Attempts, Stable(attempts, attempts'),
           InOrder(attempts'), Retried(attempts'), RowsOK(run', attempts', lease'),
           UNCHANGED <<lease, child, blocked, mishaps>>
    PROVE  AutoInv'
<1>1. AutoTypes
  BY DEF AutoInv
<1>2. \A v \in Worker :
          /\ [wk[v] EXCEPT !.known = "stale"] \in WorkerState
          /\ WorkerOK([wk[v] EXCEPT !.known = "stale"], attempts', run'.cancel,
                      lease'.expired)
  BY StaleOK
<1>3. /\ wk' \in [Worker -> WorkerState]
      /\ \A v \in Worker : WorkerOK(wk'[v], attempts', run'.cancel, lease'.expired)
  BY <1>2 DEF AfterDecision
<1> QED
  BY <1>1, <1>3, Writes DEF AutoTypes

LEMMA SubmitStepInputKeeps ==
    ASSUME AutoInv, NEW k \in Step, SubmitStepInput(k)
    PROVE  AutoInv'
<1>1. /\ AutoTypes /\ RowsOK(run, attempts, lease)
      /\ run.state = "waiting_for_input" /\ Latest(k) = "waiting_for_input"
      /\ attempts' = WithLatest(k, "succeeded") /\ run' = InState("ready")
      /\ AfterDecision /\ UNCHANGED <<lease, child, blocked, mishaps>>
  BY DEF AutoInv, SubmitStepInput
<1>2. /\ run.closure # "succeeded" /\ attempts' \in Attempts
      /\ Stable(attempts, attempts') /\ InOrder(attempts') /\ Retried(attempts')
      /\ LatestOf(attempts', k) = "succeeded"
      /\ \A j \in Step \ {k} : LatestOf(attempts', j) \in {"none", "succeeded"}
  BY <1>1, UnderWay DEF AttemptState
<1>3. /\ run' \in RunRow /\ run'.state = "ready" /\ run'.cancel = run.cancel
      /\ run'.closure = run.closure
  BY <1>1, RowFields DEF AutoTypes
<1>4. \A j \in Step : LatestOf(attempts', j) # "waiting_for_input"
  BY <1>2
<1>5. RowsOK(run', attempts', lease')
  BY <1>1, <1>2, <1>3, <1>4 DEF RowsOK
<1> QED
  BY <1>1, <1>2, <1>3, <1>5, DecisionKeeps

LEMMA RetryStepAttentionKeeps ==
    ASSUME AutoInv, NEW k \in Step, RetryStepAttention(k)
    PROVE  AutoInv'
<1>1. /\ AutoTypes /\ RowsOK(run, attempts, lease)
      /\ run.state = "attention_required" /\ run' = InState("ready")
      /\ AfterDecision /\ UNCHANGED <<attempts, lease, child, blocked, mishaps>>
  BY DEF AutoInv, RetryStepAttention
<1>2. /\ run' \in RunRow /\ run'.state = "ready" /\ run'.cancel = run.cancel
      /\ run'.closure = run.closure
  BY <1>1, RowFields DEF AutoTypes
<1>3. RowsOK(run', attempts', lease')
  BY <1>1, <1>2 DEF RowsOK
<1>4. /\ attempts' \in Attempts /\ Stable(attempts, attempts')
      /\ InOrder(attempts') /\ Retried(attempts')
  BY <1>1, SameIsStable DEF AutoInv, AutoTypes
<1> QED
  BY <1>1, <1>2, <1>3, <1>4, DecisionKeeps

LEMMA ExpiryKeeps ==
    ASSUME AutoInv, LapseLease \/ MissRenewal
    PROVE  AutoInv'
<1>1. /\ lease # NoLease /\ lease' = [lease EXCEPT !.expired = TRUE]
      /\ UNCHANGED <<run, attempts, wk, child, blocked>> /\ mishaps' \in 0..MaxMishaps
  BY AutomationAssumption DEF LapseLease, MissRenewal, AutoInv, AutoTypes
<1>2. lease \in [holder : Worker, expired : BOOLEAN]
  BY <1>1 DEF AutoInv, AutoTypes, Lease
<1>3. lease' \in Lease /\ lease'.expired = TRUE /\ lease' # NoLease
  BY <1>1, <1>2 DEF Lease, NoLease
<1>4. RowsOK(run', attempts', lease')
  BY <1>1, <1>3 DEF AutoInv, RowsOK
<1>5. \A w \in Worker : WorkerOK(wk'[w], attempts', run'.cancel, lease'.expired)
  BY <1>1, <1>3 DEF AutoInv, WorkerOK
<1> QED
  BY <1>1, <1>3, <1>4, <1>5, Writes DEF AutoInv, AutoTypes

LEMMA CommandKeeps ==
    ASSUME AutoInv, NEW w \in Worker, CommandStep(w)
    PROVE  AutoInv'
BY AcquireKeeps, BeginStepKeeps, CompleteStepKeeps, FailStepKeeps,
   RequireStepAttentionKeeps, RequireRunAttentionKeeps, WaitStepInputKeeps,
   WaitStepResourcesKeeps, CloseKeeps, ReleaseKeeps DEF CommandStep

LEMMA WorkerStepKeeps ==
    ASSUME AutoInv, NEW w \in Worker,
           WorkerStep(w) \/ Yield(w) \/ LoseDaemon(w) \/ Crash(w)
    PROVE  AutoInv'
<1>1. AutoTypes
  BY DEF AutoInv
<1>2. CASE AskForAttention(w)
  BY <1>1, <1>2, SendsBetween DEF AskForAttention, AutoTypes
<1>3. CASE Yield(w)
  <2>1. mishaps' \in 0..MaxMishaps
    BY <1>1, <1>3, AutomationAssumption DEF Yield, AutoTypes
  <2> QED
    BY <1>3, <2>1, SendsBetween DEF Yield
<1>4. CASE NoticeLoss(w) \/ Crash(w)
  <2>1. /\ mishaps' \in 0..MaxMishaps /\ Exit(w) /\ UNCHANGED <<tables, child, blocked>>
    BY <1>1, <1>4, AutomationAssumption DEF NoticeLoss, Crash, AutoTypes
  <2> QED
    BY <2>1, ExitKeeps
<1> QED
  BY <1>2, <1>3, <1>4, DiscoverKeeps, NextStepKeeps, EffectKeeps, CommandKeeps
     DEF WorkerStep

LEMMA ChildMovesKeep ==
    ASSUME AutoInv,
           \/ Unblock \/ Block
           \/ \E k \in Step : FenceChild(k) \/ FenceExecuted(k) \/ ResolveChild(k)
    PROVE  AutoInv'
<1>1. AutoTypes
  BY DEF AutoInv
<1>2. /\ UNCHANGED <<tables, wk>> /\ child' \in [Step -> ChildState]
      /\ blocked' \in BOOLEAN /\ mishaps' \in 0..MaxMishaps
  <2>1. CASE Unblock \/ Block
    <3>1. UNCHANGED <<tables, wk>> /\ child' = child /\ blocked' \in BOOLEAN
      BY <2>1 DEF Unblock, Block
    <3>2. mishaps' \in 0..MaxMishaps
      BY <1>1, <2>1, AutomationAssumption DEF Unblock, Block, AutoTypes
    <3> QED
      BY <1>1, <3>1, <3>2 DEF AutoTypes
  <2>2. CASE \E k \in Step : FenceChild(k) \/ FenceExecuted(k) \/ ResolveChild(k)
    <3>1. PICK k \in Step : FenceChild(k) \/ FenceExecuted(k) \/ ResolveChild(k)
      BY <2>2
    <3>2. "fenced" \in ChildState /\ "failed" \in ChildState /\ Outcome \subseteq ChildState
      BY DEF ChildState, Outcome
    <3>3. \E state \in ChildState : child' = [child EXCEPT ![k] = state]
      BY <3>1, <3>2 DEF FenceChild, FenceExecuted, ResolveChild
    <3>4. /\ UNCHANGED <<tables, wk>> /\ blocked' \in BOOLEAN /\ mishaps' \in 0..MaxMishaps
      BY <1>1, <3>1, AutomationAssumption
         DEF FenceChild, FenceExecuted, ResolveChild, AutoTypes
    <3>5. child' \in [Step -> ChildState]
      BY <1>1, <3>3 DEF AutoTypes
    <3> QED
      BY <3>4, <3>5
  <2> QED
    BY <2>1, <2>2
<1> QED
  BY <1>2, NobodyMoves

LEMMA AutoInvStep ==
    ASSUME AutoInv, [Next]_vars
    PROVE  AutoInv'
<1>1. CASE UNCHANGED vars
  BY <1>1 DEF AutoInv, AutoTypes, vars, tables
<1>2. CASE Next
  BY <1>2, WorkerStepKeeps, CancelKeeps, SubmitStepInputKeeps, RetryStepAttentionKeeps,
     ExpiryKeeps, ChildMovesKeep DEF Next
<1> QED
  BY <1>1, <1>2

LEMMA AutoInvInit ==
    ASSUME Init
    PROVE  AutoInv
<1>1. AutoTypes
  <2>1. run \in RunRow /\ mishaps \in 0..MaxMishaps /\ blocked \in BOOLEAN
    BY AutomationAssumption DEF Init, RunRow
  <2>2. attempts \in Attempts /\ lease \in Lease
    BY DEF Init, Attempts, Lease
  <2>3. wk \in [Worker -> WorkerState]
    BY IdleOK DEF Init
  <2>4. child \in [Step -> ChildState]
    BY DEF Init, ChildState
  <2> QED
    BY <2>1, <2>2, <2>3, <2>4 DEF AutoTypes
<1>2. \A k \in Step : attempts[k] = <<>> /\ LatestOf(attempts, k) = "none"
  BY DEF Init, LatestOf
<1>3. InOrder(attempts) /\ Retried(attempts)
  BY <1>2 DEF InOrder, Retried
<1>4. RowsOK(run, attempts, lease)
  BY <1>2 DEF Init, RowsOK
<1>5. \A w \in Worker : WorkerOK(wk[w], attempts, run.cancel, lease.expired)
  BY IdleOK DEF Init
<1> QED
  BY <1>1, <1>3, <1>4, <1>5 DEF AutoInv

-----------------------------------------------------------------------------
(***************************************************************************)
(* The invariant holds of every run of the daemon and its workers.         *)
(***************************************************************************)
THEOREM AutomationInvariant == Spec => []AutoInv
<1>1. Init => AutoInv
  BY AutoInvInit
<1>2. AutoInv /\ [Next]_vars => AutoInv'
  BY AutoInvStep
<1> QED
  BY <1>1, <1>2, PTL DEF Spec

(***************************************************************************)
(* Whatever workers lose, repeat or send too late (_begin_step to _close), *)
(* the record of the procedure is a replay of its definition.              *)
(***************************************************************************)
THEOREM ProcedureFollowsItsDefinition == Spec => [](AutomationTypeOK /\ StepsFollowDefinition)
<1>1. AutoInv => AutomationTypeOK /\ StepsFollowDefinition
  BY AutoInvImplies
<1> QED
  BY <1>1, AutomationInvariant, PTL

-----------------------------------------------------------------------------
(* What a step may never do. *)

\* Attempts are added to a step that an operator released or that has none, and
\* settled while they run or their question is open; nothing else is done to them.
LEMMA AttemptsMove ==
    ASSUME AutoInv, [Next]_vars
    PROVE  \/ attempts' = attempts
           \/ ~run.cancel /\ \E k \in Step : attempts' = Grown(attempts, k)
           \/ \E k \in Step : \E state \in AttemptState :
                 /\ Latest(k) \in {"running", "waiting_for_input"}
                 /\ attempts' = Marked(attempts, k, state)
<1> USE DEF tables
<1>1. ASSUME NEW w \in Worker,
             \/ BeginStep(w) \/ CompleteStep(w) \/ FailStep(w)
             \/ RequireStepAttention(w) \/ WaitStepInput(w)
      PROVE  \/ attempts' = attempts
             \/ ~run.cancel /\ attempts' = Grown(attempts, wk[w].step)
             \/ \E state \in AttemptState :
                   /\ Latest(wk[w].step) \in {"running", "waiting_for_input"}
                   /\ attempts' = Marked(attempts, wk[w].step, state)
  <2>1. Refused(w) => attempts' = attempts
    BY DEF Refused
  <2>2. \A next : Replay(w, next) => attempts' = attempts
    BY DEF Replay
  <2>3. \A state : WithLatest(wk[w].step, state) = Marked(attempts, wk[w].step, state)
    BY DEF WithLatest, Marked
  <2>4. {"succeeded", "failed", "attention_required", "waiting_for_input"} \subseteq AttemptState
    BY DEF AttemptState
  <2>5. CASE BeginStep(w)
    BY <2>1, <2>2, <2>5 DEF BeginStep, MayBegin, Grown
  <2>6. CASE CompleteStep(w)
    BY <2>1, <2>2, <2>3, <2>4, <2>6 DEF CompleteStep
  <2>7. CASE FailStep(w)
    BY <2>1, <2>2, <2>3, <2>4, <2>7 DEF FailStep
  <2>8. CASE RequireStepAttention(w) \/ WaitStepInput(w)
    BY <2>1, <2>3, <2>4, <2>8 DEF RequireStepAttention, WaitStepInput
  <2> QED
    BY <1>1, <2>5, <2>6, <2>7, <2>8
<1>2. ASSUME NEW w \in Worker,
             \/ Acquire(w) \/ RequireRunAttention(w) \/ WaitStepResources(w)
             \/ Close(w) \/ Release(w)
      PROVE  attempts' = attempts
  BY <1>2 DEF Acquire, RequireRunAttention, WaitStepResources, Close, Release, Refused
<1>3. ASSUME NEW w \in Worker,
             \/ Discover(w) \/ NextStep(w) \/ AskForAttention(w) \/ NoticeLoss(w)
             \/ Effect(w) \/ FinishChild(w) \/ Yield(w) \/ LoseDaemon(w) \/ Crash(w)
      PROVE  attempts' = attempts
  BY <1>3 DEF Discover, NextStep, AskForAttention, NoticeLoss, Effect, FinishChild,
     Yield, LoseDaemon, Crash
<1>4. ASSUME NEW k \in Step, SubmitStepInput(k)
      PROVE  Latest(k) = "waiting_for_input" /\ attempts' = Marked(attempts, k, "succeeded")
  BY <1>4 DEF SubmitStepInput, WithLatest, Marked
<1>5. ASSUME \/ UNCHANGED vars \/ Cancel \/ LapseLease \/ MissRenewal \/ Unblock \/ Block
             \/ \E k \in Step : \/ RetryStepAttention(k) \/ FenceChild(k)
                                \/ FenceExecuted(k) \/ ResolveChild(k)
      PROVE  attempts' = attempts
  BY <1>5 DEF vars, Cancel, LapseLease, MissRenewal, Unblock, Block, RetryStepAttention,
     FenceChild, FenceExecuted, ResolveChild
<1>6. CASE \E w \in Worker : WorkerStep(w) \/ Yield(w) \/ LoseDaemon(w) \/ Crash(w)
  <2>1. PICK w \in Worker : WorkerStep(w) \/ Yield(w) \/ LoseDaemon(w) \/ Crash(w)
    BY <1>6
  <2>2. CASE \/ BeginStep(w) \/ CompleteStep(w) \/ FailStep(w)
             \/ RequireStepAttention(w) \/ WaitStepInput(w)
    <3>1. wk[w].step \in Step
      BY <2>2, InvTypes DEF BeginStep, CompleteStep, FailStep, RequireStepAttention,
         WaitStepInput, WorkerOK, Grounded, AtAStep
    <3> QED
      BY <1>1, <2>2, <3>1
  <2> QED
    BY <1>2, <1>3, <2>1, <2>2 DEF WorkerStep, CommandStep
<1>7. "succeeded" \in AttemptState
  BY DEF AttemptState
<1> QED
  BY <1>4, <1>5, <1>6, <1>7 DEF Next

(***************************************************************************)
(* A checkpoint, once it is written, is never rewritten (_complete_step,   *)
(* _fail_step, _require_step_attention): a late command of a worker that   *)
(* lost its lease is refused, and the replacement's replay reads it.       *)
(***************************************************************************)
THEOREM CheckpointsAreFinal == Spec => SettledIsFinal
<1> DEFINE Kept == \A k \in Step : \A i \in 1..Len(attempts[k]) :
                      attempts[k][i] \in Settled => attempts'[k][i] = attempts[k][i]
<1>1. ASSUME AutoInv, [Next]_vars
      PROVE  Kept
  <2>1. attempts \in Attempts
    BY <1>1, InvTypes
  <2>2. ASSUME NEW k \in Step, attempts' = Grown(attempts, k)
        PROVE  Kept
    <3>1. /\ \A j \in Step \ {k} : attempts'[j] = attempts[j]
          /\ \A i \in 1..Len(attempts[k]) : attempts'[k][i] = attempts[k][i]
      BY <2>1, <2>2, GrownFacts
    <3> QED
      BY <3>1
  <2>3. ASSUME NEW k \in Step, NEW state \in AttemptState,
               Latest(k) \in {"running", "waiting_for_input"},
               attempts' = Marked(attempts, k, state)
        PROVE  Kept
    <3>1. attempts[k] # <<>> /\ attempts[k][Len(attempts[k])] \notin Settled
      BY <2>3 DEF Latest, Settled
    <3>2. /\ \A j \in Step \ {k} : attempts'[j] = attempts[j]
          /\ \A i \in 1..Len(attempts[k]) : i # Len(attempts[k]) =>
                attempts'[k][i] = attempts[k][i]
      BY <2>1, <2>3, <3>1, MarkedFacts
    <3> QED
      BY <3>1, <3>2
  <2> QED
    BY <1>1, <2>2, <2>3, AttemptsMove
<1>2. AutoInv /\ [Next]_vars => [Kept]_vars
  BY <1>1
<1> QED
  BY <1>2, AutomationInvariant, PTL DEF Spec, SettledIsFinal

\* How a procedure gets its closure, and never "succeeded" once it was cancelled.
LEMMA ClosureMoves ==
    ASSUME AutoInv, [Next]_vars, run.cancel, run'.closure = "succeeded"
    PROVE  run.closure = "succeeded"
<1> USE DEF tables
<1>1. /\ AutoTypes
      /\ \A state \in {"ready", "leased", "waiting_for_input", "attention_required"} :
            InState(state) \in RunRow /\ InState(state).closure = run.closure
      /\ \A status \in {"succeeded", "failed", "cancelled"} :
            ClosedAs(status) \in RunRow /\ ClosedAs(status).closure = status
  BY RowFields DEF AutoInv, AutoTypes
<1>2. ASSUME NEW r \in RunRow, NEW n, NEW reason, NEW cancel
      PROVE  /\ [r EXCEPT !.wait = n].closure = r.closure
             /\ [r EXCEPT !.reason = reason].closure = r.closure
             /\ [r EXCEPT !.cancel = cancel].closure = r.closure
  BY DEF RunRow
<1>3. ASSUME NEW w \in Worker, WorkerStep(w) \/ Yield(w) \/ LoseDaemon(w) \/ Crash(w)
      PROVE  run.closure = "succeeded"
  <2>1. Refused(w) => run' = run
    BY DEF Refused
  <2>2. \A next : Replay(w, next) => run' = run
    BY DEF Replay
  <2>3. CASE Acquire(w) \/ BeginStep(w) \/ FailStep(w) \/ Release(w)
    BY <1>1, <2>1, <2>2, <2>3 DEF Acquire, BeginStep, FailStep, Release
  <2>4. CASE CompleteStep(w) \/ RequireStepAttention(w) \/ RequireRunAttention(w)
    <3>1. CASE run' = [InState("leased") EXCEPT !.wait = IF @ = wk[w].step THEN 0 ELSE @]
      BY <1>1, <1>2, <3>1
    <3>2. CASE \E reason \in {"run", "step"} :
                  run' = [InState("attention_required") EXCEPT !.reason = reason]
      BY <1>1, <1>2, <3>2
    <3>3. CASE run' = run
      BY <3>3
    <3>4. CompleteStep(w) =>
              run' = run
              \/ run' = [InState("leased") EXCEPT !.wait = IF @ = wk[w].step THEN 0 ELSE @]
      BY <2>1, <2>2 DEF CompleteStep
    <3>5. RequireStepAttention(w) \/ RequireRunAttention(w) =>
              run' = run
              \/ \E reason \in {"run", "step"} :
                    run' = [InState("attention_required") EXCEPT !.reason = reason]
      BY <2>1 DEF RequireStepAttention, RequireRunAttention
    <3> QED
      BY <2>4, <3>1, <3>2, <3>3, <3>4, <3>5
  <2>5. CASE WaitStepInput(w)
    BY <1>1, <2>1, <2>5 DEF WaitStepInput
  <2>6. CASE WaitStepResources(w)
    <3>1. CASE run' = run
      BY <3>1
    <3>2. CASE run' = [(IF run.cancel THEN ClosedAs("cancelled") ELSE InState("ready"))
                           EXCEPT !.wait = wk[w].step]
      BY <1>1, <1>2, <3>2
    <3> QED
      BY <2>1, <2>6, <3>1, <3>2 DEF WaitStepResources
  <2>7. CASE Close(w)
    <3>1. CASE run' = ClosedAs(ClosureStatus(w)) /\ wk[w].pc = "close"
      <4>1. ClosureStatus(w) \in {"failed", "cancelled"}
        BY DEF ClosureStatus
      <4> QED
        BY <1>1, <3>1, <4>1
    <3> QED
      BY <2>1, <2>7, <3>1 DEF Close
  <2>8. CASE \/ Discover(w) \/ NextStep(w) \/ AskForAttention(w) \/ NoticeLoss(w)
             \/ Effect(w) \/ FinishChild(w) \/ Yield(w) \/ LoseDaemon(w) \/ Crash(w)
    BY <2>8 DEF Discover, NextStep, AskForAttention, NoticeLoss, Effect, FinishChild,
       Yield, LoseDaemon, Crash
  <2> QED
    BY <1>3, <2>3, <2>4, <2>5, <2>6, <2>7, <2>8 DEF WorkerStep, CommandStep
<1>4. CASE \E k \in Step : SubmitStepInput(k) \/ RetryStepAttention(k)
  BY <1>1, <1>4 DEF SubmitStepInput, RetryStepAttention
<1>5. CASE \/ UNCHANGED vars \/ LapseLease \/ MissRenewal \/ Unblock \/ Block
           \/ \E k \in Step : FenceChild(k) \/ FenceExecuted(k) \/ ResolveChild(k)
  BY <1>5 DEF vars, LapseLease, MissRenewal, Unblock, Block, FenceChild, FenceExecuted,
     ResolveChild
<1>6. ~Cancel
  BY DEF Cancel
<1> QED
  BY <1>3, <1>4, <1>5, <1>6 DEF Next

(***************************************************************************)
(* cancel is final for the work of a procedure: no attempt is begun after  *)
(* it (_begin_step), and none of the closures that a worker or an operator *)
(* can still bring about counts as success (_close).                       *)
(***************************************************************************)
THEOREM CancellationIsObeyed == Spec => CancellationStops
<1> DEFINE Stops ==
              run.cancel => /\ \A k \in Step : Len(attempts'[k]) = Len(attempts[k])
                            /\ run'.closure = "succeeded" => run.closure = "succeeded"
<1>1. ASSUME AutoInv, [Next]_vars, run.cancel
      PROVE  \A k \in Step : Len(attempts'[k]) = Len(attempts[k])
  <2>1. CASE attempts' = attempts
    BY <2>1
  <2>2. ASSUME NEW k \in Step, NEW state \in AttemptState,
               Latest(k) \in {"running", "waiting_for_input"},
               attempts' = Marked(attempts, k, state)
        PROVE  \A j \in Step : Len(attempts'[j]) = Len(attempts[j])
    <3>1. attempts \in Attempts /\ attempts[k] # <<>>
      BY <1>1, <2>2, InvTypes DEF Latest
    <3>2. /\ \A j \in Step \ {k} : attempts'[j] = attempts[j]
          /\ Len(attempts'[k]) = Len(attempts[k])
      BY <2>2, <3>1, MarkedFacts
    <3> QED
      BY <3>2
  <2> QED
    BY <1>1, <2>1, <2>2, AttemptsMove
<1>2. AutoInv /\ [Next]_vars => [Stops]_vars
  BY <1>1, ClosureMoves
<1> QED
  BY <1>2, AutomationInvariant, PTL DEF Spec, CancellationStops

(***************************************************************************)
(* The lease changes hands (_acquire_lease) or is given up only by its     *)
(* holder, once it expired, or by a cancellation, although _acquire_lease  *)
(* trusts a clock that was read before the command had the writer.         *)
(***************************************************************************)
THEOREM LeaseIsExclusive == Spec => LiveLeaseIsKept
<1> USE DEF tables
<1> DEFINE Kept == \A w \in Worker :
              lease = [holder |-> w, expired |-> FALSE] =>
                  \/ lease'.holder = w
                  \/ lease'.holder = None /\ (wk'[w] = Idle \/ run'.cancel)
<1>1. ASSUME AutoInv, [Next]_vars, NEW w \in Worker,
             lease = [holder |-> w, expired |-> FALSE]
      PROVE  \/ lease'.holder = w
             \/ lease'.holder = None /\ (wk'[w] = Idle \/ run'.cancel)
  <2>1. /\ lease.holder = w /\ lease.expired = FALSE
        /\ NoLease.holder = None /\ lease # NoLease /\ run.state = "leased"
    BY <1>1, AutomationAssumption DEF NoLease, AutoInv, RowsOK
  <2>2. lease' = lease => lease'.holder = w
    BY <2>1
  <2>3. ASSUME NEW v \in Worker, WorkerStep(v) \/ Yield(v) \/ LoseDaemon(v) \/ Crash(v)
        PROVE  \/ lease'.holder = w
               \/ lease'.holder = None /\ (wk'[w] = Idle \/ run'.cancel)
    <3>1. Refused(v) => lease' = lease
      BY DEF Refused
    <3>2. \A next : Replay(v, next) => lease' = lease
      BY DEF Replay
    <3>3. CASE Acquire(v)
      <4>1. ~(Current(v) /\ Acquirable(v))
        BY <1>1, <2>1, <3>3, InvTypes DEF Acquire, Current, Acquirable, WorkerOK
      <4> QED
        BY <2>2, <3>3, <4>1 DEF Acquire
    <3>4. CASE BeginStep(v) \/ CompleteStep(v) \/ FailStep(v)
      BY <2>2, <3>1, <3>2, <3>4 DEF BeginStep, CompleteStep, FailStep
    <3>5. CASE \/ RequireStepAttention(v) \/ RequireRunAttention(v) \/ WaitStepInput(v)
               \/ WaitStepResources(v) \/ Close(v) \/ Release(v)
      <4>1. lease' = lease \/ (lease.holder = v /\ lease' = NoLease /\ Leave(v))
        BY <3>1, <3>5 DEF RequireStepAttention, RequireRunAttention, WaitStepInput,
           WaitStepResources, Close, Release, Leased, HasLease
      <4>2. Leave(w) => wk'[w] = Idle
        BY DEF Leave
      <4> QED
        BY <2>1, <2>2, <4>1, <4>2
    <3>6. CASE \/ Discover(v) \/ NextStep(v) \/ AskForAttention(v) \/ NoticeLoss(v)
               \/ Effect(v) \/ FinishChild(v) \/ Yield(v) \/ LoseDaemon(v) \/ Crash(v)
      BY <2>2, <3>6 DEF Discover, NextStep, AskForAttention, NoticeLoss, Effect,
         FinishChild, Yield, LoseDaemon, Crash
    <3> QED
      BY <2>3, <3>3, <3>4, <3>5, <3>6 DEF WorkerStep, CommandStep
  <2>4. CASE Cancel
    <3>1. run'.cancel = TRUE
      <4>1. /\ run' = [run EXCEPT !.cancel = TRUE]
               \/ run' = [ClosedAs("cancelled") EXCEPT !.cancel = TRUE]
            /\ run \in RunRow /\ ClosedAs("cancelled") \in RunRow
        BY <1>1, <2>4, RowFields DEF Cancel, AutoInv, AutoTypes
      <4> QED
        BY <4>1 DEF RunRow
    <3>2. lease' = lease \/ lease' = NoLease
      BY <2>4 DEF Cancel
    <3> QED
      BY <2>1, <2>2, <3>1, <3>2
  <2>5. CASE LapseLease \/ MissRenewal
    <3>1. lease' = [lease EXCEPT !.expired = TRUE]
      BY <2>5 DEF LapseLease, MissRenewal
    <3> QED
      BY <1>1, <3>1
  <2>6. CASE \/ UNCHANGED vars \/ Unblock \/ Block
             \/ \E k \in Step : \/ SubmitStepInput(k) \/ RetryStepAttention(k)
                                \/ FenceChild(k) \/ FenceExecuted(k) \/ ResolveChild(k)
    BY <2>2, <2>6 DEF vars, Unblock, Block, SubmitStepInput, RetryStepAttention,
       FenceChild, FenceExecuted, ResolveChild
  <2> QED
    BY <1>1, <2>3, <2>4, <2>5, <2>6 DEF Next
<1>2. AutoInv /\ [Next]_vars => [Kept]_vars
  BY <1>1
<1> QED
  BY <1>2, AutomationInvariant, PTL DEF Spec, LiveLeaseIsKept

-----------------------------------------------------------------------------
(* The child that a procedure waits for. *)

NotStarted == {"absent", "queued"}

(***************************************************************************)
(* The row's resource wait: its child exists, and one that still queues    *)
(* belongs to an open procedure that nobody cancelled, in a "run" step     *)
(* that is not settled.                                                    *)
(***************************************************************************)
WaitOK(r, att, ch) ==
    r.wait # 0 =>
        /\ Definition[r.wait] = "run" /\ ch[r.wait] # "absent"
        /\ ch[r.wait] = "queued" =>
              /\ LatestOf(att, r.wait) \in {"running", "attention_required"}
              /\ ~r.cancel /\ r.state # "closed"

\* Whoever executes a child, or reports its failure, found it started.
StartedOK(x, ch) == x.pc \in {"executing", "fail"} => ch[x.step] \notin NotStarted

ChildInv ==
    /\ AutoInv
    /\ WaitOK(run, attempts, child)
    /\ \A w \in Worker : StartedOK(wk[w], child)

\* Children do not return to where they came from.
LEMMA ChildrenMove ==
    ASSUME AutoInv, [Next]_vars, NEW k \in Step
    PROVE  /\ child[k] \notin NotStarted => child'[k] \notin NotStarted
           /\ child[k] # "absent" => child'[k] # "absent"
<1>1. child \in [Step -> ChildState]
  BY DEF AutoInv, AutoTypes
<1>2. \A j : j \in Step => /\ child[k] \notin NotStarted => CancelledChild(j)[k] \notin NotStarted
                           /\ child[k] # "absent" => CancelledChild(j)[k] # "absent"
  BY <1>1, CancelledChildType DEF NotStarted
<1>3. \A state \in ChildState \ {"absent"} : \A j \in Step :
          /\ j = k => [child EXCEPT ![j] = state][k] = state
          /\ j # k => [child EXCEPT ![j] = state][k] = child[k]
  BY <1>1
<1>4. CASE child' = child
  BY <1>4
<1>5. CASE \E j \in Step : child' = CancelledChild(j)
  BY <1>2, <1>5
<1>6. CASE \E j \in Step : \E state \in ChildState \ {"absent", "queued"} :
              child' = [child EXCEPT ![j] = state]
  BY <1>3, <1>6 DEF NotStarted
<1>7. CASE \E j \in Step : child[j] \in NotStarted /\ child' = [child EXCEPT ![j] = "queued"]
  <2>1. "queued" \in ChildState \ {"absent"}
    BY DEF ChildState
  <2> QED
    BY <1>3, <1>7, <2>1 DEF NotStarted
<1>8. {"leased", "fenced", "failed"} \cup Outcome \subseteq ChildState \ {"absent", "queued"}
  BY DEF ChildState, Outcome
<1>9. ASSUME NEW w \in Worker, Effect(w) \/ FinishChild(w)
      PROVE  \/ child' = child
             \/ \E j \in Step : \E state \in ChildState \ {"absent", "queued"} :
                   child' = [child EXCEPT ![j] = state]
             \/ \E j \in Step : child[j] \in NotStarted /\ child' = [child EXCEPT ![j] = "queued"]
  <2>1. wk[w].step \in Step
    BY <1>9, InvTypes DEF Effect, FinishChild, WorkerOK, Grounded, AtAStep
  <2> QED
    BY <1>8, <1>9, <2>1 DEF Effect, FinishChild, NeverStarted, NotStarted
<1>10. ASSUME NEW j \in Step, FenceChild(j) \/ FenceExecuted(j) \/ ResolveChild(j)
       PROVE  \E state \in ChildState \ {"absent", "queued"} :
                  child' = [child EXCEPT ![j] = state]
  BY <1>8, <1>10 DEF FenceChild, FenceExecuted, ResolveChild
<1>11. ASSUME NEW w \in Worker, WaitStepResources(w)
       PROVE  child' = child \/ \E j \in Step : child' = CancelledChild(j)
  <2>1. wk[w].step \in Step
    BY <1>11, InvTypes DEF WaitStepResources, WorkerOK, Grounded, AtAStep
  <2> QED
    BY <1>11, <2>1 DEF WaitStepResources
<1>12. ASSUME Cancel
       PROVE  child' = child \/ \E j \in Step : child' = CancelledChild(j)
  <2>1. run.wait # 0 => run.wait \in Step
    BY AutomationAssumption DEF AutoInv, AutoTypes, RunRow, Step
  <2> QED
    BY <1>12, <2>1 DEF Cancel
<1>13. ASSUME NEW w \in Worker,
              \/ Discover(w) \/ NextStep(w) \/ AskForAttention(w) \/ NoticeLoss(w)
              \/ Yield(w) \/ LoseDaemon(w) \/ Crash(w)
              \/ Acquire(w) \/ BeginStep(w) \/ CompleteStep(w) \/ FailStep(w)
              \/ RequireStepAttention(w) \/ RequireRunAttention(w)
              \/ WaitStepInput(w) \/ Close(w) \/ Release(w)
       PROVE  child' = child
  BY <1>13 DEF Discover, NextStep, AskForAttention, NoticeLoss, Yield, LoseDaemon, Crash,
     Acquire, BeginStep, CompleteStep, FailStep, RequireStepAttention,
     RequireRunAttention, WaitStepInput, Close, Release
<1>14. ASSUME \/ UNCHANGED vars \/ LapseLease \/ MissRenewal \/ Unblock \/ Block
              \/ \E j \in Step : SubmitStepInput(j) \/ RetryStepAttention(j)
       PROVE  child' = child
  BY <1>14 DEF vars, LapseLease, MissRenewal, Unblock, Block, SubmitStepInput,
     RetryStepAttention
<1>15. CASE \E w \in Worker : WorkerStep(w) \/ Yield(w) \/ LoseDaemon(w) \/ Crash(w)
  BY <1>4, <1>5, <1>6, <1>7, <1>9, <1>11, <1>13, <1>15 DEF WorkerStep, CommandStep
<1> QED
  BY <1>4, <1>5, <1>6, <1>10, <1>12, <1>14, <1>15 DEF Next

\* The worker of a command comes to execute a child or to report a failure only if
\* it did so before: FinishChild and Effect aside.
LEMMA CommandMoves ==
    ASSUME AutoInv, NEW w \in Worker,
           \/ CommandStep(w) \/ Discover(w) \/ NextStep(w) \/ AskForAttention(w)
           \/ NoticeLoss(w) \/ Yield(w) \/ LoseDaemon(w) \/ Crash(w),
           wk'[w].pc \in {"executing", "fail"}
    PROVE  wk'[w].pc = wk[w].pc /\ wk'[w].step = wk[w].step
<1>1. /\ wk \in [Worker -> WorkerState] /\ AutoTypes /\ wk[w].pc \in Pc
      /\ AutoTypes => wk[w] \in WorkerState
  BY InvTypes DEF WorkerState, Pc
<1>2. \A pc \in Pc : /\ At(w, pc) \in WorkerState /\ At(w, pc).pc = pc
                     /\ Sending(w, pc) \in WorkerState /\ Sending(w, pc).pc = pc
                     /\ Sending(w, pc).step = wk[w].step
  BY <1>1, Written
<1>3. \A status \in {"succeeded", "failed", "cancelled"} :
          Closing(w, status) \in WorkerState /\ Closing(w, status).pc = "close"
  BY <1>1, Written
<1>4. \A x \in WorkerState :
          LET y == [x EXCEPT !.known = "current", !.cancelSeen = TRUE]
          IN  /\ y.pc = x.pc /\ y.step = x.step
              /\ [x EXCEPT !.known = "current"].pc = x.pc
              /\ Answered(x).pc = x.pc
  BY DEF WorkerState, Answered
<1>5. \A x : wk' = [wk EXCEPT ![w] = x] => wk'[w] = x
  BY <1>1
<1>6. {"acquire", "begin", "close", "park", "release", "attention", "step", "effect", "ask"}
          \subseteq Pc
  BY DEF Pc, Command
<1>7. Idle.pc = "idle" /\ Idle \in WorkerState
  BY IdleOK
<1>8. Refused(w) => \/ wk'[w].pc \in {"idle", "close"}
                    \/ wk'[w].pc = wk[w].pc /\ wk'[w].step = wk[w].step
  <2> DEFINE y == IF wk[w].pc = "begin" THEN Closing(w, "cancelled")
                                        ELSE Sending(w, wk[w].pc)
  <2>1. /\ y \in WorkerState
        /\ y.pc = "close" \/ (y.pc = wk[w].pc /\ y.step = wk[w].step)
    BY <1>1, <1>2, <1>3
  <2>2. ASSUME Refused(w)
        PROVE  wk'[w] = Idle \/ wk'[w] = [y EXCEPT !.known = "current", !.cancelSeen = TRUE]
    BY <1>1, <1>5, <2>2 DEF Refused
  <2>3. ASSUME wk'[w] = [y EXCEPT !.known = "current", !.cancelSeen = TRUE]
        PROVE  wk'[w].pc = y.pc /\ wk'[w].step = y.step
    BY <1>4, <2>1, <2>3
  <2> HIDE DEF y
  <2> QED
    BY <1>7, <2>1, <2>2, <2>3
<1>9. ASSUME NEW next \in WorkerState, Replay(w, next) \/ Answer(w, next)
      PROVE  wk'[w].pc = next.pc
  <2>1. wk'[w] = Answered(next)
    BY <1>1, <1>5, <1>9 DEF Replay, Answer, Answered
  <2> QED
    BY <1>4, <2>1
<1>10. Leave(w) \/ Exit(w) => wk'[w].pc = "idle"
  BY <1>1, <1>5, <1>7 DEF Leave, Exit
<1>11. CASE \/ Discover(w) \/ NextStep(w) \/ AskForAttention(w)
            \/ NoticeLoss(w) \/ Yield(w) \/ LoseDaemon(w) \/ Crash(w)
  <2>1. Discover(w) => wk'[w].pc = "acquire"
    BY <1>2, <1>4, <1>5, <1>6 DEF Discover
  <2>2. NextStep(w) => wk'[w].pc \in {"close", "begin"}
    <3>1. NextStep(w) => \/ \E status \in {"succeeded", "cancelled"} : wk'[w] = Closing(w, status)
                         \/ wk'[w] = Sending(w, "begin")
      BY <1>1, <1>5 DEF NextStep
    <3> QED
      BY <1>2, <1>3, <1>6, <3>1
  <2>3. AskForAttention(w) \/ Yield(w) \/ LoseDaemon(w) =>
            wk'[w].pc \in {"park", "release", "attention"}
    BY <1>2, <1>5, <1>6 DEF AskForAttention, Yield, LoseDaemon
  <2>4. NoticeLoss(w) \/ Crash(w) => wk'[w].pc = "idle"
    BY <1>10 DEF NoticeLoss, Crash
  <2> QED
    BY <1>11, <2>1, <2>2, <2>3, <2>4
<1>12. CASE Acquire(w)
  <2>1. [Idle EXCEPT !.pc = "step"] \in WorkerState /\ [Idle EXCEPT !.pc = "step"].pc = "step"
    BY <1>7 DEF WorkerState
  <2> QED
    BY <1>9, <1>10, <1>12, <2>1 DEF Acquire
<1>13. CASE BeginStep(w) \/ CompleteStep(w)
  <2>1. wk[w].step + 1 \in 1..(Len(Definition) + 1)
    <3>1. wk[w].step \in Step
      BY <1>13, InvTypes DEF BeginStep, CompleteStep, WorkerOK, Grounded, AtAStep
    <3> QED
      BY <3>1, AutomationAssumption DEF Step
  <2>2. GoingOn(w) \in WorkerState /\ GoingOn(w).pc = "step"
    <3>1. At(w, "step") \in WorkerState /\ At(w, "step").pc = "step"
      BY <1>2, <1>6
    <3> QED
      BY <2>1, <3>1 DEF GoingOn, WorkerState
  <2>3. Begun(w) \in WorkerState /\ Begun(w).pc \in {"effect", "ask"}
    BY <1>2, <1>6 DEF Begun
  <2>4. \/ Refused(w)
        \/ \E next \in {GoingOn(w), Begun(w), Closing(w, "cancelled")} :
              Replay(w, next) \/ Answer(w, next)
    BY <1>13 DEF BeginStep, CompleteStep, GoingOn
  <2> QED
    BY <1>3, <1>8, <1>9, <2>2, <2>3, <2>4
<1>14. CASE FailStep(w)
  BY <1>3, <1>8, <1>9, <1>14 DEF FailStep
<1>15. CASE \/ RequireStepAttention(w) \/ RequireRunAttention(w) \/ WaitStepInput(w)
            \/ WaitStepResources(w) \/ Close(w) \/ Release(w)
  BY <1>8, <1>10, <1>15 DEF RequireStepAttention, RequireRunAttention, WaitStepInput,
     WaitStepResources, Close, Release
<1> QED
  BY <1>11, <1>12, <1>13, <1>14, <1>15 DEF CommandStep

\* A worker that does not move keeps its place, as its snapshot ages.
LEMMA OthersStay ==
    ASSUME AutoInv, [Next]_vars, NEW v \in Worker,
           ~(WorkerStep(v) \/ Yield(v) \/ LoseDaemon(v) \/ Crash(v))
    PROVE  wk'[v].pc = wk[v].pc /\ wk'[v].step = wk[v].step
<1>1. wk \in [Worker -> WorkerState]
  BY InvTypes
<1>2. \A known : /\ [wk[v] EXCEPT !.known = known].pc = wk[v].pc
                 /\ [wk[v] EXCEPT !.known = known].step = wk[v].step
  BY <1>1 DEF WorkerState
<1>3. ASSUME NEW w \in Worker, WorkerStep(w) \/ Yield(w) \/ LoseDaemon(w) \/ Crash(w), v # w
      PROVE  wk'[v] = wk[v] \/ \E known : wk'[v] = [wk[v] EXCEPT !.known = known]
  <2>1. (\E x : wk' = [wk EXCEPT ![w] = x]) => wk'[v] = wk[v]
    BY <1>1, <1>3
  <2>2. Refused(w) \/ Exit(w) => wk'[v] = wk[v]
    BY <2>1 DEF Refused, Exit
  <2>3. \A next : /\ Replay(w, next) => wk'[v] = wk[v]
                  /\ Answer(w, next) => wk'[v] = [wk[v] EXCEPT !.known = "stale"]
    BY <1>3, <2>1 DEF Replay, Answer
  <2>4. Leave(w) => wk'[v] = [wk[v] EXCEPT !.known = "stale"]
    BY <1>3 DEF Leave
  <2>5. CASE CommandStep(w)
    BY <2>2, <2>3, <2>4, <2>5 DEF CommandStep, Acquire, BeginStep, CompleteStep, FailStep,
       RequireStepAttention, RequireRunAttention, WaitStepInput, WaitStepResources,
       Close, Release
  <2>6. CASE \/ Discover(w) \/ NextStep(w) \/ AskForAttention(w) \/ NoticeLoss(w)
             \/ FinishChild(w) \/ Yield(w) \/ LoseDaemon(w) \/ Crash(w)
    BY <2>1, <2>2, <2>6 DEF Discover, NextStep, AskForAttention, NoticeLoss, FinishChild,
       Yield, LoseDaemon, Crash
  <2>7. CASE Effect(w)
    BY <1>1, <1>3, <2>1, <2>7 DEF Effect
  <2> QED
    BY <1>3, <2>5, <2>6, <2>7 DEF WorkerStep
<1>4. CASE \/ UNCHANGED vars \/ LapseLease \/ MissRenewal \/ Unblock \/ Block
           \/ \E k \in Step : FenceChild(k) \/ FenceExecuted(k) \/ ResolveChild(k)
  BY <1>4 DEF vars, LapseLease, MissRenewal, Unblock, Block, FenceChild, FenceExecuted,
     ResolveChild
<1>5. CASE Cancel \/ \E k \in Step : SubmitStepInput(k) \/ RetryStepAttention(k)
  <2>1. \/ wk'[v] = [wk[v] EXCEPT !.known = "cancelled_since"]
        \/ wk'[v] = [wk[v] EXCEPT !.known = "stale"]
    BY <1>5 DEF Cancel, SubmitStepInput, RetryStepAttention, AfterCancel, AfterDecision
  <2> QED
    BY <1>1, <2>1 DEF WorkerState
<1>6. CASE \E w \in Worker : WorkerStep(w) \/ Yield(w) \/ LoseDaemon(w) \/ Crash(w)
  BY <1>2, <1>3, <1>6
<1> QED
  BY <1>4, <1>5, <1>6 DEF Next

LEMMA StartedKept ==
    ASSUME ChildInv, [Next]_vars, NEW v \in Worker
    PROVE  StartedOK(wk'[v], child')
<1>1. SUFFICES ASSUME wk'[v].pc \in {"executing", "fail"}
               PROVE  child'[wk'[v].step] \notin NotStarted
  BY DEF StartedOK
<1>2. AutoInv /\ wk \in [Worker -> WorkerState] /\ StartedOK(wk[v], child)
      /\ child \in [Step -> ChildState]
  BY InvTypes DEF ChildInv, AutoTypes
<1>3. CASE wk'[v].pc = wk[v].pc /\ wk'[v].step = wk[v].step
  <2>1. wk[v].step \in Step
    BY <1>1, <1>2, <1>3, InvTypes DEF WorkerOK, Grounded, AtAStep
  <2>2. child[wk[v].step] \notin NotStarted
    BY <1>1, <1>2, <1>3 DEF StartedOK
  <2> QED
    BY <1>2, <1>3, <2>1, <2>2, ChildrenMove
<1>4. CASE \/ CommandStep(v) \/ Discover(v) \/ NextStep(v) \/ AskForAttention(v)
           \/ NoticeLoss(v) \/ Yield(v) \/ LoseDaemon(v) \/ Crash(v)
  BY <1>1, <1>2, <1>3, <1>4, CommandMoves
<1>5. CASE Effect(v) \/ FinishChild(v)
  <2> DEFINE k == wk[v].step
  <2>1. k \in Step /\ wk[v].pc \in {"effect", "executing"}
    BY <1>2, <1>5, InvTypes DEF Effect, FinishChild, WorkerOK, Grounded, AtAStep
  <2>2. wk'[v].step = k
    <3>1. \E pc \in Pc : wk' = [wk EXCEPT ![v] = At(v, pc)]
                         \/ wk' = [wk EXCEPT ![v] = Sending(v, pc)]
      <4>1. \A outcome \in Outcome : Verdict(outcome) \in Pc
        BY VerdictType DEF Pc, Command
      <4>2. {"wait", "executing", "fail"} \subseteq Pc
        BY DEF Pc, Command
      <4> QED
        BY <1>5, <4>1, <4>2 DEF Effect, FinishChild, ChildClosed, At
    <3> QED
      BY <1>2, <3>1, Written DEF AutoInv
  <2>3. wk'[v].pc = "wait" \/ child'[k] \notin NotStarted
    <3>1. CASE FinishChild(v)
      <4>1. child[k] \notin NotStarted
        BY <1>2, <1>5, <2>1, <3>1 DEF FinishChild, StartedOK
      <4> QED
        BY <1>2, <2>1, <4>1, ChildrenMove
    <3>2. CASE Effect(v) /\ wk' = [wk EXCEPT ![v] = Sending(v, "wait")]
      <4>1. "wait" \in Pc
        BY DEF Pc, Command
      <4> QED
        BY <1>2, <3>2, <4>1, Written DEF AutoInv
    <3>3. CASE Effect(v) /\ child' = [child EXCEPT ![k] = "leased"]
      BY <1>2, <2>1, <3>3 DEF NotStarted
    <3>4. CASE Effect(v) /\ child' = child /\ (child[k] = "fenced" \/ ChildClosed(k))
      BY <3>4 DEF NotStarted, ChildClosed, Outcome
    <3> QED
      BY <1>5, <3>1, <3>2, <3>3, <3>4 DEF Effect
  <2> HIDE DEF k
  <2> QED
    BY <1>1, <2>2, <2>3
<1>6. CASE ~(WorkerStep(v) \/ Yield(v) \/ LoseDaemon(v) \/ Crash(v))
  BY <1>2, <1>3, <1>6, OthersStay
<1> QED
  BY <1>4, <1>5, <1>6 DEF WorkerStep

\* A child that still queues, and the procedure that waits for it: what a step may
\* do to the two, the wait itself unchanged.
LEMMA QueuedStays ==
    ASSUME ChildInv, [Next]_vars, run.wait # 0, child[run.wait] = "queued",
           run'.wait = run.wait, child'[run.wait] = "queued"
    PROVE  /\ LatestOf(attempts', run.wait) \in {"running", "attention_required"}
           /\ ~run'.cancel /\ run'.state # "closed"
<1> USE DEF tables
<1> DEFINE n == run.wait
           Held == /\ LatestOf(attempts', n) \in {"running", "attention_required"}
                   /\ ~run'.cancel /\ run'.state # "closed"
<1>0. SUFFICES Held
  OBVIOUS
<1>1. /\ AutoInv /\ AutoTypes /\ n \in Step /\ attempts \in Attempts
      /\ Definition[n] = "run"
      /\ LatestOf(attempts, n) \in {"running", "attention_required"}
      /\ ~run.cancel /\ run.state # "closed" /\ run \in RunRow
      /\ child \in [Step -> ChildState]
  BY AutomationAssumption DEF ChildInv, WaitOK, AutoInv, AutoTypes, RunRow, Step
<1>2. \A k \in Step : Latest(k) = LatestOf(attempts, k)
  BY DEF Latest, LatestOf
<1>3. \A state \in {"ready", "leased", "waiting_for_input", "attention_required"} :
          /\ InState(state) \in RunRow /\ InState(state).state = state
          /\ InState(state).cancel = run.cancel /\ InState(state).wait = n
  BY <1>1, RowFields
<1>4. ASSUME attempts' = attempts, run' = run
      PROVE  Held
  BY <1>1, <1>4
<1>5. ASSUME NEW state \in {"ready", "leased", "waiting_for_input", "attention_required"},
             run' = InState(state) \/ \E reason : run' = [InState(state) EXCEPT !.reason = reason]
      PROVE  ~run'.cancel /\ run'.state # "closed"
  BY <1>1, <1>3, <1>5 DEF RunRow
<1> HIDE DEF n
<1>6. ASSUME NEW k \in Step, NEW state \in AttemptState, Latest(k) = "running",
             attempts' = WithLatest(k, state), k = n => state = "attention_required"
      PROVE  LatestOf(attempts', n) \in {"running", "attention_required"}
  <2>1. /\ LatestOf(attempts', k) = state
        /\ \A j \in Step \ {k} : LatestOf(attempts', j) \in {"none", "succeeded"}
        /\ Stable(attempts, attempts')
    BY <1>1, <1>6, UnderWay
  <2>2. k = n
    BY <1>1, <1>2, <1>6, UnderWay
  <2> QED
    BY <1>6, <2>1, <2>2
<1>7. ASSUME NEW w \in Worker, CommandStep(w), ~Refused(w), ~UNCHANGED tables
      PROVE  Held
  <2> DEFINE k == wk[w].step
  <2>1. /\ Grounded(wk[w], attempts, run.cancel) /\ StartedOK(wk[w], child)
        /\ wk[w] \in WorkerState
    BY <1>1, InvTypes DEF WorkerOK, ChildInv
  <2>2. ~SomeRunning => Latest(n) # "running"
    <3>1. Latest(n) = "running" => attempts[n] # <<>>
      BY DEF Latest
    <3>2. attempts[n] # <<>> => Len(attempts[n]) \in 1..Len(attempts[n])
      BY <1>1, LatestFacts
    <3> QED
      BY <1>1, <3>1, <3>2 DEF SomeRunning, Latest
  <2>3. CASE Acquire(w) \/ RequireRunAttention(w) \/ Release(w)
    BY <1>1, <1>5, <1>7, <2>3 DEF Acquire, RequireRunAttention, Release
  <2>4. CASE BeginStep(w)
    <3>1. /\ k \in Step /\ attempts' = Grown(attempts, k) /\ run' = InState("leased")
      BY <1>7, <2>1, <2>4 DEF BeginStep, Replay, Grown, Grounded, AtAStep
    <3>2. /\ LatestOf(attempts', k) = "running"
          /\ \A j \in Step \ {k} : attempts'[j] = attempts[j]
      BY <1>1, <3>1, GrownFacts
    <3>3. n # k => LatestOf(attempts', n) = LatestOf(attempts, n)
      BY <1>1, <3>2 DEF LatestOf
    <3>4. LatestOf(attempts', n) \in {"running", "attention_required"}
      BY <1>1, <3>2, <3>3
    <3> QED
      BY <1>5, <3>1, <3>4
  <2>5. CASE CompleteStep(w)
    <3>1. /\ k \in Step /\ Latest(k) = "running"
          /\ run' = [InState("leased") EXCEPT !.wait = IF @ = k THEN 0 ELSE @]
      BY <1>7, <2>1, <2>5 DEF CompleteStep, Replay, Grounded, AtAStep
    <3>2. k = n
      BY <1>1, <1>2, <3>1, UnderWay
    <3>3. run'.wait = 0
      BY <1>3, <3>1, <3>2 DEF RunRow
    <3> QED
      BY <3>3
  <2>6. CASE FailStep(w)
    <3>1. k \in Step /\ Latest(k) = "running" /\ wk[w].pc = "fail"
      BY <1>7, <2>1, <2>6 DEF FailStep, Replay, Grounded, AtAStep
    <3>2. k = n
      BY <1>1, <1>2, <3>1, UnderWay
    <3> QED
      BY <2>1, <3>1, <3>2 DEF StartedOK, NotStarted, n
  <2>7. CASE RequireStepAttention(w)
    <3>1. /\ k \in Step /\ Latest(k) = "running"
          /\ attempts' = WithLatest(k, "attention_required")
          /\ run' = [InState("attention_required") EXCEPT !.reason = "step"]
      BY <1>7, <2>1, <2>7 DEF RequireStepAttention, Grounded, AtAStep
    <3>2. LatestOf(attempts', n) \in {"running", "attention_required"}
      BY <1>6, <3>1 DEF AttemptState
    <3> QED
      BY <1>5, <3>1, <3>2
  <2>8. CASE WaitStepInput(w)
    <3>1. k \in Step /\ Latest(k) = "running" /\ Definition[k] # "run"
      BY <1>7, <2>1, <2>8 DEF WaitStepInput, Grounded, AtAStep
    <3>2. k = n
      BY <1>1, <1>2, <3>1, UnderWay
    <3> QED
      BY <1>1, <3>1, <3>2
  <2>9. CASE WaitStepResources(w)
    <3>1. attempts' = attempts /\ run' = [InState("ready") EXCEPT !.wait = wk[w].step]
      BY <1>1, <1>7, <2>9 DEF WaitStepResources
    <3>2. ~run'.cancel /\ run'.state # "closed"
      BY <1>1, <1>3, <3>1 DEF RunRow
    <3> QED
      BY <1>1, <3>1, <3>2
  <2>10. CASE Close(w)
    <3>1. /\ ~SomeRunning /\ wk[w].pc = "close"
      BY <1>7, <2>10 DEF Close
    <3>2. LatestOf(attempts, n) = "attention_required"
      BY <1>1, <1>2, <2>2, <3>1
    <3>3. wk[w].status \notin {"succeeded", "failed", "cancelled"}
      <4>1. \A j \in Step : LatestOf(attempts, j) # "failed"
        <5>1. InOrder(attempts)
          BY <1>1 DEF AutoInv
        <5> QED
          BY <1>1, <3>2, <5>1, OneUnsettled
      <4> QED
        BY <1>1, <2>1, <3>2, <4>1 DEF Grounded
    <3> QED
      BY <2>1, <3>1, <3>3 DEF Grounded, WorkerState
  <2> QED
    BY <1>7, <2>3, <2>4, <2>5, <2>6, <2>7, <2>8, <2>9, <2>10 DEF CommandStep
<1>8. CASE \E w \in Worker : WorkerStep(w) \/ Yield(w) \/ LoseDaemon(w) \/ Crash(w)
  <2>1. PICK w \in Worker : WorkerStep(w) \/ Yield(w) \/ LoseDaemon(w) \/ Crash(w)
    BY <1>8
  <2>2. Refused(w) => UNCHANGED tables
    BY DEF Refused
  <2>3. CASE ~CommandStep(w)
    BY <1>4, <2>1, <2>3 DEF WorkerStep, Discover, NextStep, AskForAttention, NoticeLoss,
       Effect, FinishChild, Yield, LoseDaemon, Crash
  <2> QED
    BY <1>4, <1>7, <2>2, <2>3
<1>9. ~Cancel
  <2>1. Cancel => child' = CancelledChild(n)
    BY DEF Cancel, n
  <2> QED
    BY <1>1, <2>1, CancelledChildType DEF n
<1>10. ASSUME NEW k \in Step, SubmitStepInput(k)
       PROVE  FALSE
  <2>1. k # n /\ LatestOf(attempts, k) = "waiting_for_input" /\ InOrder(attempts)
    BY <1>1, <1>2, <1>10 DEF SubmitStepInput, AutoInv
  <2> QED
    BY <1>1, <2>1, OneUnsettled
<1>11. CASE \E k \in Step : RetryStepAttention(k)
  BY <1>1, <1>5, <1>11 DEF RetryStepAttention
<1>12. CASE \/ UNCHANGED vars \/ LapseLease \/ MissRenewal \/ Unblock \/ Block
            \/ \E k \in Step : FenceChild(k) \/ FenceExecuted(k) \/ ResolveChild(k)
  BY <1>4, <1>12 DEF vars, LapseLease, MissRenewal, Unblock, Block, FenceChild,
     FenceExecuted, ResolveChild
<1> QED
  BY <1>8, <1>9, <1>10, <1>11, <1>12 DEF Next, n

\* A wait is given up, stays, or is what WaitStepResources has just recorded.
LEMMA WaitMoves ==
    ASSUME AutoInv, [Next]_vars
    PROVE  run'.wait \in {0, run.wait} \/ WaitOK(run', attempts', child')
<1> USE DEF tables
<1>1. AutoTypes /\ run \in RunRow /\ child \in [Step -> ChildState]
  BY DEF AutoInv, AutoTypes
<1>2. /\ \A state \in {"ready", "leased", "waiting_for_input", "attention_required", "closed"} :
            /\ InState(state) \in RunRow /\ InState(state).wait = run.wait
            /\ InState(state).cancel = run.cancel /\ InState(state).state = state
      /\ \A status \in {"succeeded", "failed", "cancelled"} :
            ClosedAs(status) \in RunRow /\ ClosedAs(status).wait = run.wait
  BY <1>1, RowFields
<1>3. \A r \in RunRow : /\ [r EXCEPT !.reason = "run"].wait = r.wait
                        /\ [r EXCEPT !.reason = "step"].wait = r.wait
                        /\ [r EXCEPT !.cancel = TRUE].wait = r.wait
  BY DEF RunRow
<1>4. ASSUME NEW w \in Worker, WorkerStep(w) \/ Yield(w) \/ LoseDaemon(w) \/ Crash(w)
      PROVE  run'.wait \in {0, run.wait} \/ WaitOK(run', attempts', child')
  <2>1. Refused(w) => run'.wait = run.wait
    BY DEF Refused
  <2>2. \A next : Replay(w, next) => run'.wait = run.wait
    BY DEF Replay
  <2>3. CASE Acquire(w) \/ BeginStep(w) \/ FailStep(w) \/ Release(w) \/ WaitStepInput(w)
    BY <1>2, <2>1, <2>2, <2>3 DEF Acquire, BeginStep, FailStep, Release, WaitStepInput
  <2>4. CASE CompleteStep(w)
    <3>1. CASE run' = [InState("leased") EXCEPT !.wait = IF @ = wk[w].step THEN 0 ELSE @]
      BY <1>2, <3>1 DEF RunRow
    <3> QED
      BY <2>1, <2>2, <2>4, <3>1 DEF CompleteStep
  <2>5. CASE RequireStepAttention(w) \/ RequireRunAttention(w)
    BY <1>2, <1>3, <2>1, <2>5 DEF RequireStepAttention, RequireRunAttention
  <2>6. CASE Close(w)
    <3>1. CASE run' = ClosedAs(ClosureStatus(w)) /\ wk[w].pc = "close"
      <4>1. wk[w] \in WorkerState /\ wk[w].status # "none"
        BY <3>1, InvTypes DEF WorkerOK, Grounded
      <4>2. ClosureStatus(w) \in {"succeeded", "failed", "cancelled"}
        BY <4>1 DEF ClosureStatus, WorkerState
      <4> QED
        BY <1>2, <3>1, <4>2
    <3> QED
      BY <2>1, <2>6, <3>1 DEF Close
  <2>7. CASE WaitStepResources(w)
    <3> DEFINE k == wk[w].step
               row == IF run.cancel THEN ClosedAs("cancelled") ELSE InState("ready")
    <3>1. CASE /\ k \in Step /\ Definition[k] = "run"
               /\ Latest(k) = "running" /\ child[k] = "queued"
               /\ run' = [row EXCEPT !.wait = k] /\ attempts' = attempts
               /\ child' = IF run.cancel THEN CancelledChild(k) ELSE child
      <4>1. /\ row \in RunRow
            /\ ~run.cancel => row.state = "ready" /\ row.cancel = run.cancel
        BY <1>2
      <4> HIDE DEF row
      <4>2. /\ run'.wait = k
            /\ ~run.cancel => run'.state = "ready" /\ ~run'.cancel
        BY <3>1, <4>1 DEF RunRow
      <4>3. LatestOf(attempts', k) = "running"
        BY <3>1 DEF Latest, LatestOf
      <4>4. child'[k] # "absent" /\ (child'[k] = "queued" => ~run.cancel)
        BY <1>1, <3>1, CancelledChildType
      <4> HIDE DEF k
      <4> QED
        BY <3>1, <4>2, <4>3, <4>4 DEF WaitOK
    <3>2. k \in Step /\ Definition[k] = "run"
      BY <2>7, InvTypes DEF WaitStepResources, WorkerOK, Grounded, AtAStep
    <3> QED
      BY <2>1, <2>7, <3>1, <3>2 DEF WaitStepResources
  <2>8. CASE \/ Discover(w) \/ NextStep(w) \/ AskForAttention(w) \/ NoticeLoss(w)
             \/ Effect(w) \/ FinishChild(w) \/ Yield(w) \/ LoseDaemon(w) \/ Crash(w)
    BY <2>8 DEF Discover, NextStep, AskForAttention, NoticeLoss, Effect, FinishChild,
       Yield, LoseDaemon, Crash
  <2> QED
    BY <1>4, <2>3, <2>4, <2>5, <2>6, <2>7, <2>8 DEF WorkerStep, CommandStep
<1>5. CASE Cancel
  <2>1. run' = [run EXCEPT !.cancel = TRUE] \/ run' = [ClosedAs("cancelled") EXCEPT !.cancel = TRUE]
    BY <1>5 DEF Cancel
  <2> QED
    BY <1>1, <1>2, <1>3, <2>1
<1>6. CASE \E k \in Step : SubmitStepInput(k) \/ RetryStepAttention(k)
  BY <1>2, <1>6 DEF SubmitStepInput, RetryStepAttention
<1>7. CASE \/ UNCHANGED vars \/ LapseLease \/ MissRenewal \/ Unblock \/ Block
           \/ \E k \in Step : FenceChild(k) \/ FenceExecuted(k) \/ ResolveChild(k)
  BY <1>7 DEF vars, LapseLease, MissRenewal, Unblock, Block, FenceChild, FenceExecuted,
     ResolveChild
<1> QED
  BY <1>4, <1>5, <1>6, <1>7 DEF Next

LEMMA ChildInvStep ==
    ASSUME ChildInv, [Next]_vars
    PROVE  ChildInv'
<1>1. AutoInv /\ AutoInv'
  BY AutoInvStep DEF ChildInv
<1>2. \A v \in Worker : StartedOK(wk'[v], child')
  BY StartedKept
<1>3. WaitOK(run', attempts', child')
  <2>1. CASE run'.wait = 0
    BY <2>1 DEF WaitOK
  <2>2. CASE run'.wait = run.wait /\ run.wait # 0
    <3> DEFINE n == run.wait
    <3>1. n \in Step
      BY <1>1, <2>2, AutomationAssumption DEF AutoInv, AutoTypes, RunRow, Step
    <3>2. Definition[n] = "run" /\ child[n] # "absent"
      BY <2>2 DEF ChildInv, WaitOK
    <3>3. child'[n] # "absent"
      BY <1>1, <3>1, <3>2, ChildrenMove
    <3>4. child'[n] = "queued" => child[n] = "queued"
      BY <1>1, <3>1, <3>2, ChildrenMove DEF NotStarted
    <3>5. child'[n] = "queued" =>
              /\ LatestOf(attempts', n) \in {"running", "attention_required"}
              /\ ~run'.cancel /\ run'.state # "closed"
      BY <2>2, <3>4, QueuedStays
    <3> HIDE DEF n
    <3>6. run'.wait = n
      BY <2>2 DEF n
    <3> QED
      BY <3>2, <3>3, <3>5, <3>6 DEF WaitOK
  <2> QED
    BY <1>1, <2>1, <2>2, WaitMoves
<1> QED
  BY <1>1, <1>2, <1>3 DEF ChildInv

(***************************************************************************)
(* No child run is left in the queue for resources by a procedure that is  *)
(* closed, whether a worker closes it (_close), a cancellation (cancel) or *)
(* the two at once (wait_step_resources).                                  *)
(***************************************************************************)
THEOREM NoChildIsLeftBehind == Spec => []ChildFollowsParent
<1>1. Init => ChildInv
  <2>1. ASSUME Init
        PROVE  AutoInv /\ run.wait = 0 /\ \A w \in Worker : wk[w].pc = "idle"
    BY <2>1, AutoInvInit, IdleOK DEF Init
  <2> QED
    BY <2>1 DEF ChildInv, WaitOK, StartedOK
<1>2. ChildInv /\ [Next]_vars => ChildInv'
  BY ChildInvStep
<1>3. ChildInv => ChildFollowsParent
  BY DEF ChildInv, WaitOK, ChildFollowsParent
<1> QED
  BY <1>1, <1>2, <1>3, PTL DEF Spec
=============================================================================
