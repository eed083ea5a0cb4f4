------------------------- MODULE RunHardwareProofs --------------------------
(***************************************************************************)
(* The devices of runs in the daemon's memory, for every set of runs,      *)
(* requests and context objects, any number of executions and restarts:    *)
(* who drives hardware, what cleanup spares, and, for executors that wait  *)
(* for their answers, that nobody drives what another execution connected. *)
(***************************************************************************)
EXTENDS RunHardware, RunHistoryProofs

-----------------------------------------------------------------------------
(* What the transactions do to the token of a lease and to the executions. *)

Count(r) == Len(segments[r])

\* No execution starts and no lease goes; or the next one starts.
Stays(r) == Count(r)' = Count(r) /\ leases'[r].segment = leases[r].segment
Starts(r) ==
    /\ runs[r].state = "queued"
    /\ Count(r)' = Count(r) + 1
    /\ leases'[r].segment = Count(r) + 1
Ends(r) == Count(r)' = Count(r) /\ leases[r].segment # 0 /\ leases'[r].segment = 0

StaysInAttention(r) ==
    runs[r].state = "attention_required" => runs'[r].state = "attention_required"

LEMMA CountType ==
    ASSUME RunInv, NEW r \in Run
    PROVE  Count(r) \in Nat
BY DEF RunInv, RunTypeOK, Count

LEMMA StartMoves ==
    ASSUME RunInv, NEW p \in Run, NEW e \in Executor, StartExecution(p, e), NEW r \in Run
    PROVE  (Stays(r) \/ Starts(r)) /\ StaysInAttention(r)
<1>1. segments \in [Run -> Seq(Segment)] /\ leases \in [Run -> Lease] /\ runs \in [Run -> RunRow]
  BY DEF RunInv, RunTypeOK
<1>2. CASE p = r
  <2> DEFINE seg == [holders |-> {e}, runtime |-> runtime, start |-> Coverage(r),
                     end |-> 0, result |-> "running", certainty |-> "known"]
  <2>1. segments'[r] = Append(segments[r], seg) /\ leases'[r] = Granted(Count(r) + 1)
        /\ runs[r].state = "queued"
    BY <1>1, <1>2 DEF StartExecution, Startable, Count
  <2> HIDE DEF seg
  <2>2. Len(Append(segments[r], seg)) = Len(segments[r]) + 1
    BY <1>1
  <2> QED
    BY <2>1, <2>2 DEF Starts, StaysInAttention, Count, Granted
<1>3. CASE p # r
  BY <1>1, <1>3 DEF StartExecution, Stays, StaysInAttention, Count
<1> QED
  BY <1>2, <1>3

LEMMA RetryMoves ==
    ASSUME RunInv, NEW p \in Run, NEW e \in Executor, RetryStart(p, e), NEW r \in Run
    PROVE  Stays(r) /\ StaysInAttention(r)
<1>1. segments \in [Run -> Seq(Segment)] /\ segments' \in [Run -> Seq(Segment)]
  BY RetryStartType DEF RunInv, RunTypeOK
<1> DEFINE k == leases[p].segment
<1>2. segments' = [segments EXCEPT ![p] = [segments[p] EXCEPT ![k] =
                      [segments[p][k] EXCEPT !.holders = segments[p][k].holders \cup {e}]]]
  BY DEF RetryStart
<1> DEFINE seg == [segments[p][k] EXCEPT !.holders = segments[p][k].holders \cup {e}]
<1>3. segments'[r] = IF r = p THEN [segments[p] EXCEPT ![k] = seg] ELSE segments[r]
  BY <1>1, <1>2
<1> HIDE DEF seg, k
<1>4. DOMAIN segments'[r] = DOMAIN segments[r]
  BY <1>1, <1>3
<1>5. Len(segments'[r]) = Len(segments[r])
  BY <1>1, <1>4
<1> QED
  BY <1>5 DEF RetryStart, Stays, StaysInAttention, Count

LEMMA LossMoves ==
    ASSUME RunInv, NEW S \in SUBSET Run, NEW why, LoseExecutors(S, why),
           \A p \in S : p \in Run /\ leases[p] # NoLease, NEW r \in Run
    PROVE  /\ IF r \in S THEN Ends(r) /\ runs'[r].state = "attention_required" ELSE Stays(r)
           /\ StaysInAttention(r)
<1>1. \A p \in S : runs[p].state = "leased"
  BY DEF RunInv, LeasesMatch
<1>2. RunTypeOK /\ runs[r] \in RunRow
  BY DEF RunInv, RunTypeOK
<1>3. CASE r \in S
  <2>1. runs'[r] = WithState(runs[r], "attention_required", why)
        /\ segments'[r] = Finished(r, "interrupted", "indeterminate")
        /\ leases'[r] = NoLease
    BY <1>1, <1>3 DEF LoseExecutors, Lost
  <2>2. leases[r].segment # 0
    BY <1>1, <1>3 DEF RunInv, LeasesMatch
  <2>3. Count(r)' = Count(r)
    BY <1>2, <2>1, FinishedLength DEF Count
  <2>4. runs'[r].state = "attention_required"
    BY <1>2, <2>1, WithStateFields
  <2> QED
    BY <1>3, <2>1, <2>2, <2>3, <2>4, NoLeaseFields DEF Ends, StaysInAttention
<1>4. CASE r \notin S
  BY <1>4 DEF LoseExecutors, Lost, Stays, StaysInAttention, Count
<1> QED
  BY <1>3, <1>4

LEMMA CommitMoves ==
    ASSUME RunInv, NEW p \in Run, NEW k, NEW o, CommitTerminal(p, k, o), NEW r \in Run
    PROVE  /\ IF r = p THEN Ends(r) /\ leases[r].segment = k ELSE Stays(r)
           /\ StaysInAttention(r)
<1>1. /\ RunTypeOK /\ segments \in [Run -> Seq(Segment)] /\ leases \in [Run -> Lease]
      /\ runs \in [Run -> RunRow]
  BY DEF RunInv, RunTypeOK
<1>2. runs[p].state = "leased" /\ leases[p].segment = k /\ k # 0
  BY DEF CommitTerminal, Fenced, Live
<1> DEFINE final == HonorCancellation(p, o)
<1>3. segments' = [segments EXCEPT ![p] = Finished(p, final[1], final[2])]
      /\ leases' = [leases EXCEPT ![p] = NoLease]
  BY DEF CommitTerminal
<1> HIDE DEF final
<1>4. \A q \in Run \ {p} : runs'[q] = runs[q]
  BY <1>1 DEF CommitTerminal
<1>5. CASE r = p
  BY <1>1, <1>2, <1>3, <1>5, FinishedLength, NoLeaseFields DEF Ends, StaysInAttention, Count
<1>6. CASE r # p
  BY <1>1, <1>3, <1>4, <1>6 DEF Stays, StaysInAttention, Count
<1> QED
  BY <1>5, <1>6

\* Decisions about attention find and leave the run without a lease.
LEMMA DecisionMoves ==
    ASSUME RunInv, NEW p \in Run, NEW r \in Run,
           ContinueRun(p) \/ (\E key \in Key : ReconfirmLine(p, key)) \/ CloseAttention(p)
    PROVE  /\ Stays(r)
           /\ r # p => StaysInAttention(r)
<1>1. leases \in [Run -> Lease] /\ runs \in [Run -> RunRow]
  BY DEF RunInv, RunTypeOK
<1>2. leases[p] = NoLease
  BY DEF RunInv, LeasesMatch, ContinueRun, ReconfirmLine, CloseAttention, MayContinue
<1>3. leases'[r] = leases[r] /\ segments'[r] = segments[r]
  BY <1>1, <1>2 DEF ContinueRun, ReconfirmLine, CloseAttention
<1>4. r # p => runs'[r] = runs[r]
  BY <1>1 DEF ContinueRun, ReconfirmLine, CloseAttention
<1> QED
  BY <1>3, <1>4 DEF Stays, StaysInAttention, Count

LEMMA OtherMoves ==
    ASSUME RunInv, OtherHandlers, NEW r \in Run
    PROVE  (Stays(r) \/ Starts(r)) /\ StaysInAttention(r)
<1>1. /\ segments \in [Run -> Seq(Segment)] /\ leases \in [Run -> Lease]
      /\ runs \in [Run -> RunRow]
  BY DEF RunInv, RunTypeOK
<1>2. PICK p \in Run :
          \/ \E e \in Executor : StartExecution(p, e) \/ RetryStart(p, e)
          \/ RejectBusy(p) \/ RequireReconfirmation(p)
          \/ \E k \in 1..Len(segments[p]) :
                \/ ReadHeartbeatClock(p, k) \/ RenewLease(p, k)
                \/ \E n \in 1..PointCount : AdvanceCoverage(p, k, n)
          \/ Admit(p) \/ CancelRun(p) \/ CancelWaitingChild(p)
          \/ LapseLease(p)
  BY DEF OtherHandlers
<1>3. CASE \E e \in Executor : StartExecution(p, e) \/ RetryStart(p, e)
  BY <1>3, StartMoves, RetryMoves
<1>4. CASE RejectBusy(p) \/ RequireReconfirmation(p) \/ Admit(p)
  <2>1. \A q \in Run \ {p} : runs'[q] = runs[q]
    BY <1>1, <1>4 DEF RejectBusy, RequireReconfirmation, Admit
  <2>2. runs[p].state # "attention_required"
    BY <1>4 DEF RejectBusy, RequireReconfirmation, Admit, Startable
  <2>3. UNCHANGED <<segments, leases>>
    BY <1>4 DEF RejectBusy, RequireReconfirmation, Admit
  <2> QED
    BY <2>1, <2>2, <2>3 DEF Stays, StaysInAttention, Count
<1>5. CASE \E k \in 1..Len(segments[p]) : ReadHeartbeatClock(p, k)
  BY <1>5 DEF ReadHeartbeatClock, Stays, StaysInAttention, Count
<1>6. CASE \E k \in 1..Len(segments[p]) : RenewLease(p, k)
  <2>1. PICK k \in 1..Len(segments[p]) : RenewLease(p, k)
    BY <1>6
  <2>2. leases'[r].segment = leases[r].segment
    BY <1>1, <2>1 DEF RenewLease, Granted
  <2> QED
    BY <2>1, <2>2 DEF RenewLease, Stays, StaysInAttention, Count
<1>7. CASE \E k \in 1..Len(segments[p]) : \E n \in 1..PointCount : AdvanceCoverage(p, k, n)
  BY <1>7 DEF AdvanceCoverage, Stays, StaysInAttention, Count
<1>8. CASE CancelRun(p) \/ CancelWaitingChild(p)
  <2>1. runs[p].state # "attention_required" /\ \A q \in Run \ {p} : runs'[q] = runs[q]
    BY <1>1, <1>8 DEF CancelRun, CancelWaitingChild, CancelQueued
  <2>2. leases'[r] = leases[r] /\ segments' = segments
    <3>1. CASE CancelQueued(p) /\ segments' = segments
      <4>1. leases[p] = NoLease
        BY <3>1 DEF RunInv, LeasesMatch, CancelQueued
      <4> QED
        BY <1>1, <3>1, <4>1 DEF CancelQueued
    <3> QED
      BY <1>8, <3>1 DEF CancelRun, CancelWaitingChild
  <2> QED
    BY <2>1, <2>2 DEF Stays, StaysInAttention, Count
<1>9. CASE LapseLease(p)
  <2>1. leases'[r].segment = leases[r].segment
    BY <1>1, <1>9 DEF LapseLease, Lease
  <2> QED
    BY <1>9, <2>1 DEF LapseLease, Stays, StaysInAttention, Count
<1> QED
  BY <1>2, <1>3, <1>4, <1>5, <1>6, <1>7, <1>8, <1>9

-----------------------------------------------------------------------------
(* Requests, and every step of them as a step of RunControl. *)

OnContext == {"provision", "connect", "record", "store", "batch", "operate",
              "finish", "release", "terminal", "abort", "pop"}

\* A request presents a token that was granted.
CallKnown(t) ==
    /\ At(t, "idle") => calls[t] = Idle
    /\ ~At(t, "idle") => calls[t].run \in Run /\ calls[t].token \in 1..Count(calls[t].run)
    /\ calls[t].step \in {"terminal", "abort", "commit"} => calls[t].outcome \in Reported
    /\ calls[t].step \in OnContext => calls[t].ctx \in Context

LEMMA OtherIsRunStep ==
    ASSUME OtherHandlers
    PROVE  RunStep
BY DEF OtherHandlers, RunStep, ExecutorStep, OperatorStep

\* What a request under way does to the rows of its run.
LEMMA MarkIsRunStep ==
    ASSUME NEW t \in Call, CallKnown(t), MarkRunUnknown(t)
    PROVE  RunStep \/ UNCHANGED runVars
<1> DEFINE r == calls[t].run
           k == calls[t].token
<1>1. r \in Run /\ k \in 1..Len(segments[r])
  BY DEF CallKnown, MarkRunUnknown, At, Count
<1>2. MarkExecutorUnknown(r, k) \/ UNCHANGED runVars
  BY DEF MarkRunUnknown
<1> HIDE DEF r, k
<1> QED
  BY <1>1, <1>2 DEF RunStep, ExecutorStep

LEMMA CommitIsRunStep ==
    ASSUME NEW t \in Call, CallKnown(t), Commit(t)
    PROVE  RunStep \/ UNCHANGED runVars
<1> DEFINE r == calls[t].run
           k == calls[t].token
           o == calls[t].outcome
<1>1. r \in Run /\ k \in 1..Len(segments[r]) /\ o \in Reported
  BY DEF CallKnown, Commit, At, Count
<1>2. CommitTerminal(r, k, o) \/ UNCHANGED runVars
  BY DEF Commit
<1> HIDE DEF r, k, o
<1> QED
  BY <1>1, <1>2 DEF RunStep, ExecutorStep

LEMMA ArriveQuiet ==
    ASSUME NEW t, Arrive(t)
    PROVE  UNCHANGED <<runVars, devices, attention, cleaning, looked, table, context>>
BY DEF Arrive, BeginProvision, BeginOnContext, BeginTerminal, RepeatTerminal

\* The requests' steps that leave the rows alone.
Hardware(t) ==
    \/ CreateContext(t) \/ EnterProvision(t) \/ Connect(t)
    \/ RecordProvision(t) \/ StoreProvision(t)
    \/ LookToDiscard(t) \/ Discard(t)
    \/ EnterBatch(t) \/ EndBatch(t)
    \/ EnterFinish(t) \/ EndFinish(t)
    \/ EnterTerminal(t) \/ EndAbort(t)

LEMMA HardwareQuiet ==
    ASSUME NEW t, Hardware(t)
    PROVE  UNCHANGED <<runVars, attention, cleaning, looked>>
<1>1. CASE CreateContext(t) \/ EnterProvision(t) \/ Connect(t)
  BY <1>1 DEF CreateContext, EnterProvision, Connect
<1>2. CASE RecordProvision(t) \/ StoreProvision(t) \/ LookToDiscard(t) \/ Discard(t)
  BY <1>2 DEF RecordProvision, StoreProvision, LookToDiscard, Discard
<1>3. CASE EnterBatch(t) \/ EndBatch(t) \/ EnterFinish(t)
  BY <1>3 DEF EnterBatch, EndBatch, EnterFinish, LoseRuntime
<1>4. CASE EndFinish(t) \/ EnterTerminal(t) \/ EndAbort(t)
  BY <1>4 DEF EndFinish, EnterTerminal, EndAbort, LoseRuntime
<1> QED
  BY <1>1, <1>2, <1>3, <1>4 DEF Hardware

LEMMA ContinueKinds ==
    ASSUME NEW t, Continue(t)
    PROVE  Hardware(t) \/ MarkRunUnknown(t) \/ Commit(t)
BY DEF Continue, Hardware

\* What is done under _attention_lock.
Attend ==
    \/ ListExpired \/ FenceExpired \/ SupervisorDone
    \/ \E r \in Run : BeginResolve(r) \/ EndResolve(r)
    \/ CleanupStep

LEMMA AttendIsRunStep ==
    ASSUME Attend
    PROVE  RunStep \/ UNCHANGED runVars
<1>1. CASE ListExpired \/ FenceExpired
  BY <1>1 DEF ListExpired, FenceExpired, RunStep
<1>2. CASE SupervisorDone \/ (\E r \in Run : BeginResolve(r)) \/ CleanupStep
  BY <1>2 DEF SupervisorDone, BeginResolve, CleanupStep, LookToClean, CleanUp
<1>3. CASE \E r \in Run : EndResolve(r)
  BY <1>3 DEF EndResolve, RunStep, OperatorStep
<1> QED
  BY <1>1, <1>2, <1>3 DEF Attend

LEMMA NextKinds ==
    ASSUME HardwareNext
    PROVE  \/ OtherHandlers
           \/ \E t \in Call : Arrive(t) \/ Hardware(t) \/ MarkRunUnknown(t) \/ Commit(t)
           \/ Attend
           \/ RestartHardware
BY ContinueKinds DEF HardwareNext, Attend

LEMMA HardwareIsRunStep ==
    ASSUME \A t \in Call : CallKnown(t), [HardwareNext]_allVars
    PROVE  [RunNext]_runVars
<1>1. CASE UNCHANGED allVars
  BY <1>1 DEF allVars
<1>2. CASE HardwareNext
  <2>1. CASE OtherHandlers
    BY <2>1, OtherIsRunStep DEF RunNext
  <2>2. ASSUME NEW t \in Call, Arrive(t) \/ Hardware(t)
        PROVE  UNCHANGED runVars
    BY <2>2, ArriveQuiet, HardwareQuiet
  <2>3. ASSUME NEW t \in Call, MarkRunUnknown(t) \/ Commit(t)
        PROVE  RunStep \/ UNCHANGED runVars
    BY <2>3, MarkIsRunStep, CommitIsRunStep
  <2>4. CASE Attend
    BY <2>4, AttendIsRunStep DEF RunNext
  <2>5. CASE RestartHardware
    BY <2>5 DEF RestartHardware, RunNext
  <2> QED
    BY <1>2, <2>1, <2>2, <2>3, <2>4, <2>5, NextKinds DEF RunNext
<1> QED
  BY <1>1, <1>2

\* Whose executors the supervisor and the restart lose.
LEMMA FenceLoses ==
    ASSUME RunInv, FenceExpired
    PROVE  \E S \in SUBSET Run :
              /\ LoseExecutors(S, "executor_lease_expired")
              /\ \A p \in S : p \in Run /\ leases[p] # NoLease
              /\ cleaning' = S
<1> DEFINE S == {p \in sweep : StillExpired(p)}
<1>1. S \in SUBSET Run /\ \A p \in S : p \in Run /\ leases[p] # NoLease
  BY DEF RunInv, RunTypeOK, StillExpired, NoLease, Granted
<1>2. LoseExecutors(S, "executor_lease_expired") /\ cleaning' = S
  BY DEF FenceExpired, ExpireLeases, ExpireOne
<1> HIDE DEF S
<1> QED
  BY <1>1, <1>2

LEMMA RestartLoses ==
    ASSUME RestartHardware
    PROVE  \E S \in SUBSET Run :
              /\ LoseExecutors(S, "daemon_restarted")
              /\ \A p \in S : p \in Run /\ leases[p] # NoLease
<1>1. WithLease \in SUBSET Run /\ \A p \in WithLease : p \in Run /\ leases[p] # NoLease
  BY DEF WithLease
<1>2. LoseExecutors(WithLease, "daemon_restarted")
  BY DEF RestartHardware, RestartRuns, RestartRunRows
<1> HIDE DEF WithLease
<1> QED
  BY <1>1, <1>2

\* Executions are numbered on.
LEMMA CountGrows ==
    ASSUME RunInv, \A t \in Call : CallKnown(t), HardwareNext, NEW r \in Run
    PROVE  Count(r)' \in Nat /\ Count(r) <= Count(r)'
<1>1. Count(r) \in Nat /\ leases \in [Run -> Lease]
  BY CountType DEF RunInv, RunTypeOK
<1>2. Stays(r) \/ Starts(r) \/ Ends(r) => Count(r)' \in Nat /\ Count(r) <= Count(r)'
  BY <1>1 DEF Stays, Starts, Ends
<1>3. UNCHANGED runVars => Stays(r)
  BY DEF runVars, runOnlyVars, Stays, Count
<1>4. CASE OtherHandlers
  BY <1>2, <1>4, OtherMoves
<1>5. ASSUME NEW t \in Call, Arrive(t) \/ Hardware(t)
      PROVE  Stays(r)
  BY <1>3, <1>5, ArriveQuiet, HardwareQuiet
<1>6. ASSUME NEW p \in Run, NEW k, MarkExecutorUnknown(p, k)
      PROVE  Stays(r) \/ Ends(r)
  <2>1. LoseExecutors({p}, "executor_unknown") /\ leases[p] # NoLease
    BY <1>6, NoLeaseFields DEF MarkExecutorUnknown, ExpireOne
  <2>2. {p} \in SUBSET Run /\ \A q \in {p} : q \in Run /\ leases[q] # NoLease
    BY <2>1
  <2> QED
    BY <2>1, <2>2, LossMoves
<1>7. ASSUME NEW t \in Call, MarkRunUnknown(t)
      PROVE  Stays(r) \/ Ends(r)
  <2>1. calls[t].run \in Run
    BY <1>7 DEF CallKnown, MarkRunUnknown, At
  <2> QED
    BY <1>3, <1>6, <1>7, <2>1 DEF MarkRunUnknown
<1>8. ASSUME NEW t \in Call, Commit(t)
      PROVE  Stays(r) \/ Ends(r)
  <2>1. calls[t].run \in Run
    BY <1>8 DEF CallKnown, Commit, At
  <2>2. CommitTerminal(calls[t].run, calls[t].token, calls[t].outcome) \/ UNCHANGED runVars
    BY <1>8 DEF Commit
  <2> QED
    BY <1>3, <2>1, <2>2, CommitMoves
<1>9. CASE Attend
  <2>1. CASE FenceExpired
    <3>1. PICK S \in SUBSET Run : /\ LoseExecutors(S, "executor_lease_expired")
                                  /\ \A p \in S : p \in Run /\ leases[p] # NoLease
      BY <2>1, FenceLoses
    <3>2. Stays(r) \/ Ends(r)
      BY <3>1, LossMoves
    <3> QED
      BY <1>2, <3>2
  <2>2. CASE ListExpired
    BY <1>1, <1>2, <2>2 DEF ListExpired, ReadExpiredLeases, Lease, Stays, Count
  <2>3. CASE SupervisorDone \/ (\E p \in Run : BeginResolve(p)) \/ CleanupStep
    <3>1. UNCHANGED runVars
      BY <2>3 DEF SupervisorDone, BeginResolve, CleanupStep, LookToClean, CleanUp
    <3> QED
      BY <1>2, <1>3, <3>1
  <2>4. ASSUME NEW p \in Run, EndResolve(p)
        PROVE  Stays(r)
    <3>1. \/ ContinueRun(p) \/ (\E key \in Key : ReconfirmLine(p, key)) \/ CloseAttention(p)
          \/ UNCHANGED runVars
      BY <2>4 DEF EndResolve
    <3> QED
      BY <1>3, <3>1, DecisionMoves
  <2> QED
    BY <1>2, <1>9, <2>1, <2>2, <2>3, <2>4 DEF Attend
<1>10. CASE RestartHardware
  <2>1. PICK S \in SUBSET Run : /\ LoseExecutors(S, "daemon_restarted")
                                /\ \A p \in S : p \in Run /\ leases[p] # NoLease
    BY <1>10, RestartLoses
  <2>2. Stays(r) \/ Ends(r)
    BY <2>1, LossMoves
  <2> QED
    BY <1>2, <2>2
<1> QED
  BY <1>2, <1>4, <1>5, <1>7, <1>8, <1>9, <1>10, NextKinds

-----------------------------------------------------------------------------
(* Types, and what a request that is inside a context's lock relies on. *)

Lock(c) == context[c].lock
Runtime(c) == context[c].runtime
Final(c) == context[c].final

Driving == {"operate", "release", "abort"}
Locking == Driving \cup {"connect", "record", "store"}

CallHolds(t) ==
    /\ calls[t].step \in Locking => Lock(calls[t].ctx) = t
    /\ calls[t].step \in Driving => Runtime(calls[t].ctx) # 0

ShapeInv == HardwareTypeOK /\ \A t \in Call : CallKnown(t) /\ CallHolds(t)

\* Only request t moves; the contexts that others are inside of stay as they are.
Alone(t) == \A u \in Call \ {t} : calls'[u] = calls[u]
Untouched(t) == \A c \in Context : Lock(c) \notin {None, t} => context'[c] = context[c]
Kept(t) ==
    \A u \in Call \ {t} : calls[u].step \in Locking =>
        context'[calls[u].ctx] = context[calls[u].ctx]
LocksOf(t) ==
    \A c \in Context : /\ Lock(c)' \in {Lock(c), None, t}
                       /\ Lock(c)' = t => calls'[t].step # "idle"
Typed ==
    /\ table' \in [Run -> Context \cup {None}]
    /\ context' \in [Context -> ContextRow]
    /\ devices' \subseteq Run \X Nat
    /\ calls' \in [Call -> CallRow]

CountsGrow == \A r \in Run : Count(r) \in Nat /\ Count(r)' \in Nat /\ Count(r) <= Count(r)'

LEMMA NoneFacts ==
    ASSUME NEW x \in Call \cup Context \cup Run
    PROVE  x # None
BY RunHardwareAssumption

LEMMA IdleType == Idle \in CallRow /\ Idle.step = "idle" /\ Idle.run = None /\ Idle.ctx = None
                  /\ Idle.token = 0 /\ Idle.outcome = None
BY DEF Idle, CallRow, Step

LEMMA GoFacts ==
    ASSUME calls \in [Call -> CallRow], NEW t \in Call, NEW s \in Step, Go(t, s)
    PROVE  /\ calls' \in [Call -> CallRow]
           /\ Alone(t)
           /\ calls'[t].step = s
           /\ calls'[t].run = calls[t].run /\ calls'[t].token = calls[t].token
           /\ calls'[t].ctx = calls[t].ctx /\ calls'[t].outcome = calls[t].outcome
BY DEF Go, CallRow, Alone

LEMMA UnlockedFacts ==
    ASSUME NEW ctxs \in [Context -> ContextRow], NEW t \in Call
    PROVE  /\ Unlocked(ctxs, t) \in [Context -> ContextRow]
           /\ \A c \in Context :
                 /\ Unlocked(ctxs, t)[c].lock = IF ctxs[c].lock = t THEN None ELSE ctxs[c].lock
                 /\ Unlocked(ctxs, t)[c].runtime = ctxs[c].runtime
                 /\ Unlocked(ctxs, t)[c].final = ctxs[c].final
                 /\ Unlocked(ctxs, t)[c].provision = ctxs[c].provision
                 /\ ctxs[c].lock # t => Unlocked(ctxs, t)[c] = ctxs[c]
BY DEF Unlocked, ContextRow

LEMMA ReturnFacts ==
    ASSUME calls \in [Call -> CallRow], NEW t \in Call,
           NEW ctxs \in [Context -> ContextRow], Return(t, ctxs)
    PROVE  /\ calls' \in [Call -> CallRow]
           /\ Alone(t)
           /\ calls'[t] = Idle
           /\ context' \in [Context -> ContextRow]
           /\ \A c \in Context :
                 /\ Lock(c)' = IF ctxs[c].lock = t THEN None ELSE ctxs[c].lock
                 /\ Runtime(c)' = ctxs[c].runtime
                 /\ Final(c)' = ctxs[c].final
                 /\ context'[c].provision = ctxs[c].provision
                 /\ ctxs[c].lock # t => context'[c] = ctxs[c]
<1>1. calls' \in [Call -> CallRow] /\ Alone(t) /\ calls'[t] = Idle
  BY IdleType DEF Return, Alone
<1>2. context' = Unlocked(ctxs, t)
  BY DEF Return
<1> QED
  BY <1>1, <1>2, UnlockedFacts DEF Lock, Runtime, Final

LEMMA UntouchedIsKept ==
    ASSUME ShapeInv, NEW t \in Call, Untouched(t)
    PROVE  Kept(t)
<1>1. ASSUME NEW u \in Call \ {t}, calls[u].step \in Locking
      PROVE  context'[calls[u].ctx] = context[calls[u].ctx]
  <2>1. calls[u].ctx \in Context /\ Lock(calls[u].ctx) = u
    BY <1>1 DEF ShapeInv, CallKnown, CallHolds, OnContext, Locking, Driving
  <2>2. u # None
    BY NoneFacts
  <2> QED
    BY <2>1, <2>2 DEF Untouched
<1> QED
  BY <1>1 DEF Kept

\* A request returns and nothing else happens to its contexts.
LEMMA Returned ==
    ASSUME ShapeInv, NEW t \in Call,
           NEW ctxs \in [Context -> ContextRow], Return(t, ctxs),
           \A c \in Context : /\ ctxs[c].lock = Lock(c)
                              /\ Lock(c) \notin {None, t} => ctxs[c] = context[c]
    PROVE  /\ calls' \in [Call -> CallRow] /\ context' \in [Context -> ContextRow]
           /\ Alone(t) /\ Kept(t) /\ LocksOf(t) /\ CallKnown(t)' /\ CallHolds(t)'
<1>1. /\ calls' \in [Call -> CallRow] /\ context' \in [Context -> ContextRow] /\ Alone(t)
      /\ calls'[t] = Idle
      /\ \A c \in Context : /\ Lock(c)' = IF ctxs[c].lock = t THEN None ELSE ctxs[c].lock
                            /\ ctxs[c].lock # t => context'[c] = ctxs[c]
  BY ReturnFacts DEF ShapeInv, HardwareTypeOK
<1>2. Kept(t)
  BY <1>1, UntouchedIsKept DEF Untouched
<1>3. LocksOf(t)
  BY <1>1, NoneFacts DEF LocksOf
<1>4. CallKnown(t)' /\ CallHolds(t)'
  BY <1>1, IdleType DEF CallKnown, CallHolds, At, OnContext, Locking, Driving
<1> QED
  BY <1>1, <1>2, <1>3, <1>4

LEMMA ShapeStep ==
    ASSUME ShapeInv, NEW t \in Call, Typed, Alone(t), Kept(t), LocksOf(t),
           CallKnown(t)', CallHolds(t)', CountsGrow,
           UNCHANGED <<attention, cleaning, looked>>
    PROVE  ShapeInv'
<1>1. ASSUME NEW u \in Call, u # t
      PROVE  CallKnown(u)' /\ CallHolds(u)'
  <2>1. CallKnown(u) /\ CallHolds(u) /\ calls'[u] = calls[u]
    BY <1>1 DEF ShapeInv, Alone
  <2>2. CallKnown(u)'
    BY <2>1 DEF CallKnown, At, CountsGrow
  <2>3. calls[u].step \in Locking => calls[u].ctx \in Context
    BY <2>1 DEF CallKnown, OnContext, Locking, Driving
  <2>4. calls[u].step \in Locking => context'[calls[u].ctx] = context[calls[u].ctx]
    BY <1>1 DEF Kept
  <2>5. CallHolds(u)'
    BY <2>1, <2>4 DEF CallHolds, Locking, Driving, Lock, Runtime
  <2> QED
    BY <2>2, <2>5
<1>2. ASSUME NEW c \in Context, Lock(c)' # None
      PROVE  calls'[Lock(c)'] # Idle
  <2>1. Lock(c) \in Call \cup {None} /\ Lock(c)' \in {Lock(c), t}
    BY <1>2 DEF LocksOf, ShapeInv, HardwareTypeOK, ContextRow, Lock
  <2>2. CASE Lock(c)' = t
    BY <1>2, <2>2, IdleType DEF LocksOf
  <2>3. CASE Lock(c)' = Lock(c) /\ Lock(c) # t
    <3>1. calls[Lock(c)] # Idle
      BY <1>2, <2>3 DEF ShapeInv, HardwareTypeOK, Lock
    <3> QED
      BY <1>2, <2>1, <2>3, <3>1 DEF Alone
  <2> QED
    BY <2>1, <2>2, <2>3
<1>3. HardwareTypeOK'
  BY <1>2 DEF HardwareTypeOK, ShapeInv, Typed, Lock
<1> QED
  BY <1>1, <1>3 DEF ShapeInv

ShapeMove(t) ==
    Typed /\ Alone(t) /\ Kept(t) /\ LocksOf(t) /\ CallKnown(t)' /\ CallHolds(t)'

LEMMA ShapeFacts ==
    ASSUME ShapeInv, NEW t \in Call
    PROVE  /\ table \in [Run -> Context \cup {None}]
           /\ context \in [Context -> ContextRow]
           /\ devices \subseteq Run \X Nat
           /\ calls \in [Call -> CallRow]
           /\ calls[t] \in CallRow
           /\ CallKnown(t) /\ CallHolds(t)
BY DEF ShapeInv, HardwareTypeOK

\* A request goes on to another step with what it has.
LEMMA Went ==
    ASSUME ShapeInv, NEW t \in Call, NEW s \in Step \ {"idle"}, Go(t, s), ~At(t, "idle"),
           CountsGrow,
           s \in {"terminal", "abort", "commit"} => calls[t].outcome \in Reported,
           s \in OnContext => calls[t].ctx \in Context
    PROVE  /\ calls' \in [Call -> CallRow] /\ Alone(t) /\ CallKnown(t)'
           /\ calls'[t].step = s /\ calls'[t].ctx = calls[t].ctx
<1>1. /\ calls' \in [Call -> CallRow] /\ Alone(t) /\ calls'[t].step = s
      /\ calls'[t].run = calls[t].run /\ calls'[t].token = calls[t].token
      /\ calls'[t].ctx = calls[t].ctx /\ calls'[t].outcome = calls[t].outcome
  BY GoFacts, ShapeFacts
<1>2. PICK r \in Run : r = calls[t].run /\ calls[t].token \in 1..Count(r)
  BY ShapeFacts DEF CallKnown
<1>3. calls[t].token \in 1..Count(r)'
  BY <1>2 DEF CountsGrow
<1>4. CallKnown(t)'
  BY <1>1, <1>2, <1>3 DEF CallKnown, At
<1> QED
  BY <1>1, <1>4

LEMMA QuietCounts ==
    ASSUME RunInv, UNCHANGED runVars
    PROVE  CountsGrow
BY CountType DEF CountsGrow, Count, runVars, runOnlyVars

LEMMA PoppedFacts ==
    ASSUME table \in [Run -> Context \cup {None}], NEW r, NEW c,
           table' = Popped(r, c) \/ table' = PopUnused(r, c) \/ table' = table
    PROVE  /\ table' \in [Run -> Context \cup {None}]
           /\ \A q \in Run : table'[q] # table[q] => q = r /\ table[r] = c /\ table'[r] = None
BY DEF Popped, PopUnused

\* The contexts of a step that leaves locks alone.
LEMMA SameContexts ==
    ASSUME ShapeInv, NEW t \in Call, context' = context, calls'[t].step # "idle"
    PROVE  /\ context' \in [Context -> ContextRow] /\ Kept(t) /\ LocksOf(t)
           /\ \A c \in Context : Lock(c)' = Lock(c) /\ Runtime(c)' = Runtime(c)
BY ShapeFacts, UntouchedIsKept DEF Untouched, LocksOf, Lock, Runtime

\* A request has entered a context and perhaps marked it as finalizing.
Entered(c, t, final) ==
    \/ context' = [context EXCEPT ![c].lock = t]
    \/ context' = [context EXCEPT ![c].lock = t, ![c].final = final]
    \/ context' = [context EXCEPT ![c].final = final, ![c].lock = t]

LEMMA EnteredContext ==
    ASSUME ShapeInv, NEW t \in Call, NEW c \in Context, Available(c, t),
           calls'[t].step # "idle",
           NEW final \in {"none", "finalizing", "finalized"},
           Entered(c, t, final)
    PROVE  /\ context' \in [Context -> ContextRow] /\ Kept(t) /\ LocksOf(t)
           /\ Lock(c)' = t /\ Runtime(c)' = Runtime(c)
           /\ \A d \in Context : /\ d # c => context'[d] = context[d]
                                 /\ Runtime(d)' = Runtime(d)
<1>1. context \in [Context -> ContextRow] /\ Lock(c) \in {None, t}
  BY ShapeFacts DEF Available, Lock
<1>2. context' \in [Context -> ContextRow]
  BY <1>1 DEF ContextRow, Entered
<1>3. Lock(c)' = t /\ Runtime(c)' = Runtime(c)
  BY <1>1 DEF ContextRow, Lock, Runtime, Entered
<1>4. \A d \in Context : d # c => context'[d] = context[d]
  BY <1>1 DEF Entered
<1>5. Kept(t)
  BY <1>1, <1>4, UntouchedIsKept DEF Untouched
<1>6. LocksOf(t)
  BY <1>3, <1>4 DEF LocksOf, Lock
<1> QED
  BY <1>2, <1>3, <1>4, <1>5, <1>6 DEF Runtime

LEMMA BeginFacts ==
    ASSUME NEW t, NEW s, NEW r, NEW k, NEW c, Begin(t, s, r, k, c)
    PROVE  calls' = [calls EXCEPT ![t] = [step |-> s, run |-> r, token |-> k, ctx |-> c,
                                          outcome |-> None]]
BY DEF Begin

LEMMA ArriveShape ==
    ASSUME RunInv, ShapeInv, NEW t \in Call, Arrive(t)
    PROVE  ShapeMove(t)
<1>1. UNCHANGED <<runVars, devices, attention, cleaning, looked, table, context>>
  BY ArriveQuiet
<1>2. CountsGrow
  BY <1>1, QuietCounts
<1>3. calls \in [Call -> CallRow] /\ table \in [Run -> Context \cup {None}]
      /\ calls[t] \in CallRow
  BY ShapeFacts
<1>10. PICK r \in Run : \E k \in 1..Len(segments[r]) :
        \/ BeginProvision(t, r, k)
        \/ BeginOnContext(t, r, k, "batch")
        \/ BeginOnContext(t, r, k, "finish")
        \/ \E o \in Reported : BeginTerminal(t, r, k, o) \/ RepeatTerminal(t, r, k, o)
  BY DEF Arrive
<1>4. PICK k \in 1..Len(segments[r]) :
        \/ BeginProvision(t, r, k)
        \/ BeginOnContext(t, r, k, "batch")
        \/ BeginOnContext(t, r, k, "finish")
        \/ \E o \in Reported : BeginTerminal(t, r, k, o) \/ RepeatTerminal(t, r, k, o)
  BY <1>10
<1>5. k \in Nat /\ k \in 1..Count(r) /\ segments' = segments
  BY <1>1, CountType DEF Count, runVars, runOnlyVars
<1>6. PICK s \in {"admitted", "batch", "finish", "discard", "commit", "terminal"},
           c \in Context \cup {None}, o \in Reported \cup {None} :
        /\ calls' = [calls EXCEPT ![t] = [step |-> s, run |-> r, token |-> k, ctx |-> c,
                                          outcome |-> o]]
        /\ s \in {"batch", "finish", "terminal"} => c # None
        /\ s \in {"commit", "terminal"} => o \in Reported
  <2>1. CASE BeginProvision(t, r, k)
    <3>1. calls' = [calls EXCEPT ![t] = [step |-> "admitted", run |-> r, token |-> k,
                                         ctx |-> None, outcome |-> None]]
      BY <2>1, BeginFacts DEF BeginProvision
    <3> QED
      BY <3>1
  <2>2. ASSUME NEW s \in {"batch", "finish"}, BeginOnContext(t, r, k, s)
        PROVE  /\ calls' = [calls EXCEPT ![t] = [step |-> s, run |-> r, token |-> k,
                                                 ctx |-> table[r], outcome |-> None]]
               /\ table[r] \in Context
    BY <1>3, <2>2, BeginFacts DEF BeginOnContext
  <2>3. ASSUME NEW o \in Reported, BeginTerminal(t, r, k, o)
        PROVE  calls' = [calls EXCEPT ![t] = [step |-> IF table[r] = None THEN "commit"
                                                       ELSE "terminal",
                                              run |-> r, token |-> k, ctx |-> table[r],
                                              outcome |-> o]]
    BY <2>3 DEF BeginTerminal
  <2>4. ASSUME NEW o \in Reported, RepeatTerminal(t, r, k, o)
        PROVE  calls' = [calls EXCEPT ![t] = [step |-> "discard", run |-> r, token |-> k,
                                              ctx |-> None, outcome |-> None]]
    BY <2>4, BeginFacts DEF RepeatTerminal
  <2>5. CASE BeginOnContext(t, r, k, "batch")
    BY <2>2, <2>5, NoneFacts
  <2>6. CASE BeginOnContext(t, r, k, "finish")
    BY <2>2, <2>6, NoneFacts
  <2>7. CASE \E o \in Reported : BeginTerminal(t, r, k, o)
    <3>1. table[r] \in Context \cup {None}
      BY <1>3
    <3> QED
      BY <2>3, <2>7, <3>1
  <2>8. CASE \E o \in Reported : RepeatTerminal(t, r, k, o)
    BY <2>4, <2>8
  <2> QED
    BY <1>4, <2>1, <2>5, <2>6, <2>7, <2>8
<1>7. /\ calls'[t] = [step |-> s, run |-> r, token |-> k, ctx |-> c, outcome |-> o]
      /\ calls' \in [Call -> CallRow] /\ Alone(t)
  <2>1. [step |-> s, run |-> r, token |-> k, ctx |-> c, outcome |-> o] \in CallRow
    BY <1>5 DEF CallRow, Step
  <2> QED
    BY <1>3, <1>6, <2>1 DEF Alone
<1>8. CallKnown(t)' /\ CallHolds(t)' /\ calls'[t].step # "idle"
  BY <1>5, <1>6, <1>7 DEF CallKnown, CallHolds, At, OnContext, Locking, Driving, Count
<1>9. Kept(t) /\ LocksOf(t)
  BY <1>1, <1>8, SameContexts
<1> QED
  BY <1>1, <1>7, <1>8, <1>9, ShapeFacts DEF ShapeMove, Typed

-----------------------------------------------------------------------------
(* What each step of a request does, for all the proofs below. *)

Goes(t, s) ==
    /\ calls'[t].step = s
    /\ calls'[t].run = calls[t].run /\ calls'[t].token = calls[t].token
    /\ calls'[t].ctx = calls[t].ctx
Returns(t) == calls'[t] = Idle

SameMemory == \A c \in Context : Runtime(c)' = Runtime(c) /\ Final(c)' = Final(c)
Only(c) == \A d \in Context \ {c} : Runtime(d)' = Runtime(d) /\ Final(d)' = Final(d)

LEMMA GoesFacts ==
    ASSUME ShapeInv, NEW t \in Call, NEW s \in Step \ {"idle"}, Go(t, s), ~At(t, "idle"),
           CountsGrow,
           s \in {"terminal", "abort", "commit"} => calls[t].outcome \in Reported,
           s \in OnContext => calls[t].ctx \in Context
    PROVE  /\ calls' \in [Call -> CallRow] /\ Alone(t) /\ CallKnown(t)' /\ Goes(t, s)
<1>1. calls' \in [Call -> CallRow] /\ Alone(t) /\ CallKnown(t)'
  BY Went
<1>2. Goes(t, s)
  BY GoFacts, ShapeFacts DEF Goes
<1> QED
  BY <1>1, <1>2

\* A request that goes on without touching a context.
LEMMA GoesQuietly ==
    ASSUME ShapeInv, NEW t \in Call, NEW s \in Step \ {"idle"}, Go(t, s), ~At(t, "idle"),
           CountsGrow,
           s \in {"terminal", "abort", "commit"} => calls[t].outcome \in Reported,
           s \in OnContext => calls[t].ctx \in Context,
           s \in Locking => Lock(calls[t].ctx) = t,
           s \in Driving => Runtime(calls[t].ctx) # 0,
           UNCHANGED <<table, context>>, devices' \subseteq Run \X Nat
    PROVE  ShapeMove(t) /\ Goes(t, s) /\ SameMemory
<1>1. calls' \in [Call -> CallRow] /\ Alone(t) /\ CallKnown(t)' /\ Goes(t, s)
  BY GoesFacts
<1>2. calls'[t].step # "idle"
  BY <1>1 DEF Goes
<1>3. /\ context' \in [Context -> ContextRow] /\ Kept(t) /\ LocksOf(t)
      /\ \A c \in Context : Lock(c)' = Lock(c) /\ Runtime(c)' = Runtime(c)
  BY <1>2, SameContexts
<1>4. CallHolds(t)'
  BY <1>1 DEF CallHolds, Goes, Lock, Runtime
<1>5. SameMemory
  BY DEF SameMemory, Runtime, Final
<1> QED
  BY <1>1, <1>3, <1>4, <1>5, ShapeFacts DEF ShapeMove, Typed

\* A request that returns; whatever it wrote, it wrote in contexts it may write.
LEMMA ReturnsFrom ==
    ASSUME ShapeInv, NEW t \in Call,
           NEW ctxs \in [Context -> ContextRow], Return(t, ctxs),
           \A c \in Context : /\ ctxs[c].lock = Lock(c)
                              /\ Lock(c) \notin {None, t} => ctxs[c] = context[c],
           devices' \subseteq Run \X Nat, table' \in [Run -> Context \cup {None}]
    PROVE  /\ ShapeMove(t) /\ Returns(t)
           /\ \A c \in Context : Runtime(c)' = ctxs[c].runtime /\ Final(c)' = ctxs[c].final
<1>1. /\ calls' \in [Call -> CallRow] /\ context' \in [Context -> ContextRow]
      /\ Alone(t) /\ Kept(t) /\ LocksOf(t) /\ CallKnown(t)' /\ CallHolds(t)'
  BY Returned
<1>2. /\ calls'[t] = Idle
      /\ \A c \in Context : Runtime(c)' = ctxs[c].runtime /\ Final(c)' = ctxs[c].final
  BY ReturnFacts, ShapeFacts
<1> QED
  BY <1>1, <1>2 DEF ShapeMove, Typed, Returns

LEMMA ReturnsQuietly ==
    ASSUME ShapeInv, NEW t \in Call, Return(t, context),
           devices' \subseteq Run \X Nat, table' \in [Run -> Context \cup {None}]
    PROVE  ShapeMove(t) /\ Returns(t) /\ SameMemory
<1>1. context \in [Context -> ContextRow]
  BY ShapeFacts
<1>2. \A c \in Context : /\ context[c].lock = Lock(c)
                         /\ Lock(c) \notin {None, t} => context[c] = context[c]
  BY DEF Lock
<1>3. /\ ShapeMove(t) /\ Returns(t)
      /\ \A c \in Context : Runtime(c)' = context[c].runtime /\ Final(c)' = context[c].final
  BY <1>1, <1>2, ReturnsFrom
<1> QED
  BY <1>3 DEF SameMemory, Runtime, Final

\* A request that goes on to a context it has found.
LEMMA GoesTo ==
    ASSUME ShapeInv, NEW t \in Call, NEW s \in {"provision", "pop"}, NEW c \in Context,
           calls' = [calls EXCEPT ![t].step = s, ![t].ctx = c], ~At(t, "idle"), CountsGrow
    PROVE  /\ calls' \in [Call -> CallRow] /\ Alone(t) /\ CallKnown(t)' /\ CallHolds(t)'
           /\ calls'[t].step = s /\ calls'[t].ctx = c
           /\ calls'[t].run = calls[t].run /\ calls'[t].token = calls[t].token
<1>1. /\ calls' \in [Call -> CallRow] /\ Alone(t)
      /\ calls'[t].step = s /\ calls'[t].ctx = c
      /\ calls'[t].run = calls[t].run /\ calls'[t].token = calls[t].token
  <2>1. calls'[t] = [calls[t] EXCEPT !.step = s, !.ctx = c] /\ Alone(t)
    BY ShapeFacts DEF Alone
  <2>2. calls'[t] \in CallRow /\ calls'[t].step = s /\ calls'[t].ctx = c
        /\ calls'[t].run = calls[t].run /\ calls'[t].token = calls[t].token
    BY <2>1, ShapeFacts DEF CallRow, Step
  <2> QED
    BY <2>1, <2>2, ShapeFacts
<1>2. PICK r \in Run : r = calls[t].run /\ calls[t].token \in 1..Count(r)
  BY ShapeFacts DEF CallKnown
<1>3. calls[t].token \in 1..Count(r)'
  BY <1>2 DEF CountsGrow
<1>4. CallKnown(t)'
  BY <1>1, <1>2, <1>3 DEF CallKnown, At, OnContext
<1>5. CallHolds(t)'
  BY <1>1 DEF CallHolds, Locking, Driving
<1> QED
  BY <1>1, <1>4, <1>5

LEMMA CreateFacts ==
    ASSUME RunInv, ShapeInv, NEW t \in Call, CreateContext(t)
    PROVE  \E c \in Context :
              /\ ShapeMove(t) /\ devices' = devices
              /\ calls'[t].step = "provision" /\ calls'[t].ctx = c
              /\ calls'[t].run = calls[t].run /\ calls'[t].token = calls[t].token
              /\ \/ table[calls[t].run] = c /\ UNCHANGED <<table, context>>
                 \/ /\ table[calls[t].run] = None /\ Unreferenced(c)
                    /\ table' = [table EXCEPT ![calls[t].run] = c]
                    /\ Runtime(c)' = 0 /\ Final(c)' = "none" /\ Only(c)
<1> DEFINE r == calls[t].run
<1>1. ~At(t, "idle") /\ r \in Run /\ CountsGrow
  BY ShapeFacts, QuietCounts DEF CreateContext, At, CallKnown
<1>2. PICK c \in Context :
         /\ IF table[r] = None THEN Unreferenced(c) ELSE c = table[r]
         /\ table' = [table EXCEPT ![r] = c]
         /\ context' = IF table[r] = None
                       THEN [context EXCEPT ![c] = NewContext] ELSE context
         /\ calls' = [calls EXCEPT ![t].step = "provision", ![t].ctx = c]
  BY DEF CreateContext
<1>3. /\ calls' \in [Call -> CallRow] /\ Alone(t) /\ CallKnown(t)' /\ CallHolds(t)'
      /\ calls'[t].step = "provision" /\ calls'[t].ctx = c
      /\ calls'[t].run = calls[t].run /\ calls'[t].token = calls[t].token
  BY <1>1, <1>2, GoesTo
<1>4. devices' = devices /\ table' \in [Run -> Context \cup {None}]
  BY <1>1, <1>2, ShapeFacts DEF CreateContext
<1>5. CASE table[r] # None
  <2>1. table' = table /\ context' = context /\ table[r] = c
    BY <1>1, <1>2, <1>5, ShapeFacts
  <2>2. context' \in [Context -> ContextRow] /\ Kept(t) /\ LocksOf(t)
    BY <1>3, <2>1, SameContexts
  <2> QED
    BY <1>3, <1>4, <2>1, <2>2, ShapeFacts DEF ShapeMove, Typed
<1>6. CASE table[r] = None
  <2>1. NewContext \in ContextRow /\ NewContext.lock = None /\ NewContext.runtime = 0
        /\ NewContext.final = "none"
    BY DEF NewContext, ContextRow
  <2>2. /\ context' \in [Context -> ContextRow] /\ context'[c] = NewContext
        /\ \A d \in Context \ {c} : context'[d] = context[d]
    BY <1>2, <1>6, <2>1, ShapeFacts
  <2>3. LocksOf(t)
    BY <1>3, <2>1, <2>2 DEF LocksOf, Lock
  <2>4. Kept(t)
    <3>1. ASSUME NEW u \in Call \ {t}, calls[u].step \in Locking
          PROVE  context'[calls[u].ctx] = context[calls[u].ctx]
      <4>1. calls[u].ctx \in Context
        BY <3>1, ShapeFacts DEF CallKnown, OnContext, Locking, Driving
      <4>2. calls[u].ctx # c
        BY <1>2, <1>6 DEF Unreferenced
      <4> QED
        BY <2>2, <4>1, <4>2
    <3> QED
      BY <3>1 DEF Kept
  <2>5. Runtime(c)' = 0 /\ Final(c)' = "none" /\ Only(c)
    BY <2>1, <2>2 DEF Runtime, Final, Only
  <2> QED
    BY <1>2, <1>3, <1>4, <1>6, <2>2, <2>3, <2>4, <2>5, ShapeFacts DEF ShapeMove, Typed
<1> QED
  BY <1>5, <1>6

\* Facts every step of a request under way starts from.
LEMMA UnderWay ==
    ASSUME ShapeInv, NEW t \in Call, ~At(t, "idle")
    PROVE  /\ calls[t].run \in Run /\ calls[t].token \in 1..Count(calls[t].run)
           /\ calls[t].step \in OnContext => calls[t].ctx \in Context
           /\ calls[t].step \in Locking => Lock(calls[t].ctx) = t
           /\ calls[t].step \in Driving => Runtime(calls[t].ctx) # 0
BY ShapeFacts DEF CallKnown, CallHolds

\* A request enters a context and goes on inside of it.
LEMMA EntersFacts ==
    ASSUME ShapeInv, CountsGrow, NEW t \in Call, NEW s \in Locking, NEW c \in Context,
           c = calls[t].ctx, ~At(t, "idle"), Go(t, s), Available(c, t),
           s \in Driving => Runtime(c) # 0,
           s = "abort" => calls[t].outcome \in Reported,
           NEW final \in {"none", "finalizing", "finalized"},
           Entered(c, t, final),
           UNCHANGED <<table, devices>>
    PROVE  /\ ShapeMove(t) /\ Goes(t, s)
           /\ \A d \in Context : Runtime(d)' = Runtime(d)
           /\ Only(c)
<1>1. s \in Step \ {"idle"} /\ (s \in {"terminal", "abort", "commit"} => s = "abort")
  BY DEF Locking, Driving, Step
<1>2. calls' \in [Call -> CallRow] /\ Alone(t) /\ CallKnown(t)' /\ Goes(t, s)
  BY <1>1, GoesFacts
<1>3. calls'[t].step # "idle"
  BY <1>1, <1>2 DEF Goes
<1>4. /\ context' \in [Context -> ContextRow] /\ Kept(t) /\ LocksOf(t)
      /\ Lock(c)' = t /\ Runtime(c)' = Runtime(c)
      /\ \A d \in Context : /\ d # c => context'[d] = context[d]
                            /\ Runtime(d)' = Runtime(d)
  BY <1>3, EnteredContext
<1>5. CallHolds(t)'
  <2>1. calls'[t].ctx = c /\ calls'[t].step = s
    BY <1>2 DEF Goes
  <2>2. context'[c].lock = t /\ context'[c].runtime = context[c].runtime
    BY <1>4 DEF Lock, Runtime
  <2> QED
    BY <2>1, <2>2 DEF CallHolds, Lock, Runtime
<1>6. Only(c)
  BY <1>4 DEF Only, Runtime, Final
<1>7. table' \in [Run -> Context \cup {None}] /\ devices' \subseteq Run \X Nat
  BY ShapeFacts
<1> QED
  BY <1>2, <1>4, <1>5, <1>6, <1>7 DEF ShapeMove, Typed

LEMMA EnterProvisionFacts ==
    ASSUME RunInv, ShapeInv, NEW t \in Call, EnterProvision(t)
    PROVE  /\ ShapeMove(t) /\ devices' = devices
           /\ \/ /\ Provisionable(calls[t].run, calls[t].token, calls[t].ctx)
                 /\ Goes(t, "connect") /\ table' = table
                 /\ \A c \in Context : Runtime(c)' = Runtime(c) /\ Final(c)' = Final(c)
              \/ /\ Returns(t) /\ SameMemory
                 /\ table' \in {table, PopUnused(calls[t].run, calls[t].ctx)}
<1> DEFINE r == calls[t].run
           k == calls[t].token
<1>1. ~At(t, "idle") /\ CountsGrow /\ calls[t].step = "provision"
  BY QuietCounts DEF EnterProvision, At
<1>2. PICK c \in Context : c = calls[t].ctx
  BY <1>1, UnderWay DEF OnContext
<1>3. devices' = devices /\ devices' \subseteq Run \X Nat /\ Available(c, t)
  BY <1>2, ShapeFacts DEF EnterProvision
<1>4. CASE /\ Provisionable(r, k, c) /\ context' = [context EXCEPT ![c].lock = t]
           /\ Go(t, "connect") /\ UNCHANGED table
  <2>1. "connect" \in Locking /\ "connect" \notin Driving
    BY DEF Locking, Driving
  <2>2. "none" \in {"none", "finalizing", "finalized"} /\ UNCHANGED <<table, devices>>
        /\ Entered(c, t, "none")
    BY <1>3, <1>4 DEF Entered
  <2>3. /\ ShapeMove(t) /\ Goes(t, "connect")
        /\ \A d \in Context : Runtime(d)' = Runtime(d)
        /\ Only(c)
    BY <1>1, <1>2, <1>3, <1>4, <2>1, <2>2, EntersFacts
  <2>4. Final(c)' = Final(c)
    BY <1>2, <1>4, ShapeFacts DEF Final, ContextRow
  <2> QED
    BY <1>2, <1>3, <1>4, <2>3, <2>4 DEF Only
<1>5. CASE Return(t, context) /\ table' \in {table, PopUnused(r, c)}
  <2>1. table' \in [Run -> Context \cup {None}]
    BY <1>5, PoppedFacts, ShapeFacts
  <2> QED
    BY <1>2, <1>3, <1>5, <2>1, ReturnsQuietly
<1> QED
  BY <1>2, <1>4, <1>5 DEF EnterProvision

LEMMA ConnectFacts ==
    ASSUME RunInv, ShapeInv, NEW t \in Call, Connect(t)
    PROVE  /\ ShapeMove(t) /\ SameMemory
           /\ \/ /\ Acquirable(calls[t].run) /\ Goes(t, "record")
                 /\ devices' = devices \cup {<<calls[t].run, calls[t].token>>}
                 /\ table' = table
              \/ Returns(t) /\ UNCHANGED <<table, devices>>
              \/ /\ Returns(t) /\ devices' = devices
                 /\ table' = PopUnused(calls[t].run, calls[t].ctx)
              \/ Goes(t, "mark") /\ UNCHANGED <<table, devices>>
<1> DEFINE r == calls[t].run
           k == calls[t].token
           c == calls[t].ctx
<1>1. ~At(t, "idle") /\ CountsGrow /\ calls[t].step = "connect"
  BY QuietCounts DEF Connect, At
<1>2. r \in Run /\ c \in Context /\ Lock(c) = t /\ k \in Nat
  BY <1>1, UnderWay, CountType DEF OnContext, Locking
<1>3. devices \subseteq Run \X Nat /\ table \in [Run -> Context \cup {None}]
  BY ShapeFacts
<1>4. "record" \in Step \ {"idle"} /\ "mark" \in Step \ {"idle"}
      /\ "mark" \notin OnContext \cup Locking \cup Driving /\ "record" \notin Driving
  BY DEF Step, OnContext, Locking, Driving
<1>5. CASE /\ Acquirable(r) /\ devices' = devices \cup {<<r, k>>}
           /\ Go(t, "record") /\ UNCHANGED <<table, context>>
  <2>1. devices' \subseteq Run \X Nat
    BY <1>2, <1>3, <1>5
  <2>2. ShapeMove(t) /\ Goes(t, "record") /\ SameMemory
    BY <1>1, <1>2, <1>4, <1>5, <2>1, GoesQuietly
  <2> QED
    BY <1>5, <2>2
<1>6. CASE /\ table[r] = c /\ Return(t, [context EXCEPT ![c].provision = "rejected"])
           /\ UNCHANGED <<table, devices>>
  <2> DEFINE ctxs == [context EXCEPT ![c].provision = "rejected"]
  <2>1. ctxs \in [Context -> ContextRow]
    BY <1>2, ShapeFacts DEF ContextRow
  <2>2. \A d \in Context : /\ ctxs[d].lock = Lock(d)
                           /\ ctxs[d].runtime = Runtime(d) /\ ctxs[d].final = Final(d)
                           /\ d # c => ctxs[d] = context[d]
    BY <1>2, ShapeFacts DEF ContextRow, Lock, Runtime, Final
  <2>3. \A d \in Context : /\ ctxs[d].lock = Lock(d)
                           /\ Lock(d) \notin {None, t} => ctxs[d] = context[d]
    BY <1>2, <2>2
  <2>4. Return(t, ctxs)
    BY <1>6
  <2>5. devices' \subseteq Run \X Nat /\ table' \in [Run -> Context \cup {None}]
    BY <1>3, <1>6
  <2> HIDE DEF ctxs
  <2>6. /\ ShapeMove(t) /\ Returns(t)
        /\ \A d \in Context : Runtime(d)' = ctxs[d].runtime /\ Final(d)' = ctxs[d].final
    BY <2>1, <2>3, <2>4, <2>5, ReturnsFrom
  <2> QED
    BY <1>6, <2>2, <2>6 DEF SameMemory
<1>7. CASE table' = PopUnused(r, c) /\ Return(t, context) /\ UNCHANGED devices
  <2>1. table' \in [Run -> Context \cup {None}] /\ devices' \subseteq Run \X Nat
    BY <1>3, <1>7, PoppedFacts
  <2> QED
    BY <1>7, <2>1, ReturnsQuietly
<1>8. CASE Go(t, "mark") /\ UNCHANGED <<table, context, devices>>
  <2>1. devices' \subseteq Run \X Nat
    BY <1>3, <1>8
  <2>2. ShapeMove(t) /\ Goes(t, "mark") /\ SameMemory
    BY <1>1, <1>4, <1>8, <2>1, GoesQuietly
  <2> QED
    BY <1>8, <2>2
<1> QED
  BY <1>5, <1>6, <1>7, <1>8 DEF Connect

LEMMA RecordFacts ==
    ASSUME RunInv, ShapeInv, NEW t \in Call, RecordProvision(t)
    PROVE  /\ ShapeMove(t) /\ SameMemory /\ table' = table
           /\ \/ Goes(t, "store") /\ devices' = devices
                 /\ Fenced(calls[t].run, calls[t].token)
              \/ Goes(t, "mark") /\ devices' = Without(t)
<1>1. ~At(t, "idle") /\ CountsGrow /\ calls[t].step = "record"
  BY QuietCounts DEF RecordProvision, At
<1>2. calls[t].ctx \in Context /\ Lock(calls[t].ctx) = t
  BY <1>1, UnderWay DEF OnContext, Locking
<1>3. "store" \in Step \ {"idle"} /\ "mark" \in Step \ {"idle"}
      /\ "mark" \notin OnContext \cup Locking \cup Driving /\ "store" \notin Driving
  BY DEF Step, OnContext, Locking, Driving
<1>4. devices' \subseteq Run \X Nat /\ UNCHANGED <<table, context>>
  BY ShapeFacts DEF RecordProvision, Without
<1>5. CASE Fenced(calls[t].run, calls[t].token) /\ Go(t, "store") /\ devices' = devices
  <2>1. ShapeMove(t) /\ Goes(t, "store") /\ SameMemory
    BY <1>1, <1>2, <1>3, <1>4, <1>5, GoesQuietly
  <2> QED
    BY <1>4, <1>5, <2>1
<1>6. CASE Go(t, "mark") /\ devices' = Without(t)
  <2>1. ShapeMove(t) /\ Goes(t, "mark") /\ SameMemory
    BY <1>1, <1>3, <1>4, <1>6, GoesQuietly
  <2> QED
    BY <1>4, <1>6, <2>1
<1> QED
  BY <1>5, <1>6 DEF RecordProvision

LEMMA StoreFacts ==
    ASSUME RunInv, ShapeInv, NEW t \in Call, StoreProvision(t)
    PROVE  \E c \in Context :
              /\ c = calls[t].ctx
              /\ ShapeMove(t) /\ Returns(t) /\ table' = table
              /\ \A d \in Context : Final(d)' = Final(d)
              /\ \/ /\ table[calls[t].run] = c /\ devices' = devices
                    /\ Runtime(c)' = calls[t].token /\ Only(c)
                 \/ /\ table[calls[t].run] # c /\ devices' = Without(t)
                    /\ SameMemory
<1> DEFINE r == calls[t].run
           k == calls[t].token
<1>1. ~At(t, "idle") /\ calls[t].step = "store"
  BY DEF StoreProvision, At
<1>2. PICK c \in Context : c = calls[t].ctx
  BY <1>1, UnderWay DEF OnContext
<1>3. Lock(c) = t /\ k \in Nat
  BY <1>1, <1>2, UnderWay, CountType DEF Locking
<1>4. /\ devices' \subseteq Run \X Nat /\ table' = table
      /\ table' \in [Run -> Context \cup {None}]
  BY ShapeFacts DEF StoreProvision, Without
<1>5. CASE /\ table[r] = c /\ devices' = devices
           /\ Return(t, [context EXCEPT ![c].provision = "ready", ![c].runtime = k])
  <2> DEFINE ctxs == [context EXCEPT ![c].provision = "ready", ![c].runtime = k]
  <2>1. ctxs \in [Context -> ContextRow]
    BY <1>2, <1>3, ShapeFacts DEF ContextRow
  <2>2. \A d \in Context : /\ ctxs[d].lock = Lock(d) /\ ctxs[d].final = Final(d)
                           /\ ctxs[d].runtime = IF d = c THEN k ELSE Runtime(d)
                           /\ d # c => ctxs[d] = context[d]
    BY <1>2, <1>3, ShapeFacts DEF ContextRow, Lock, Runtime, Final
  <2>3. \A d \in Context : /\ ctxs[d].lock = Lock(d)
                           /\ Lock(d) \notin {None, t} => ctxs[d] = context[d]
    BY <1>3, <2>2
  <2>4. Return(t, ctxs)
    BY <1>5
  <2> HIDE DEF ctxs
  <2>5. /\ ShapeMove(t) /\ Returns(t)
        /\ \A d \in Context : Runtime(d)' = ctxs[d].runtime /\ Final(d)' = ctxs[d].final
    BY <1>4, <2>1, <2>3, <2>4, ReturnsFrom
  <2> QED
    BY <1>2, <1>4, <1>5, <2>2, <2>5 DEF Only
<1>6. CASE table[r] # c /\ devices' = Without(t) /\ Return(t, context)
  <2>1. ShapeMove(t) /\ Returns(t) /\ SameMemory
    BY <1>4, <1>6, ReturnsQuietly
  <2> QED
    BY <1>2, <1>4, <1>6, <2>1 DEF SameMemory
<1> QED
  BY <1>2, <1>5, <1>6 DEF StoreProvision

Loses(t, c) ==
    /\ Goes(t, "mark") /\ devices' = Without(t) /\ table' = table
    /\ Runtime(c)' = 0 /\ Final(c)' = Final(c) /\ Only(c)

LEMMA LoseFacts ==
    ASSUME RunInv, ShapeInv, NEW t \in Call, LoseRuntime(t), calls[t].step \in Driving
    PROVE  \E c \in Context : c = calls[t].ctx /\ ShapeMove(t) /\ Loses(t, c)
<1>1. ~At(t, "idle") /\ CountsGrow
  BY QuietCounts DEF LoseRuntime, At, Driving
<1>2. PICK c \in Context : c = calls[t].ctx
  BY <1>1, UnderWay DEF OnContext, Driving
<1>3. Lock(c) = t
  BY <1>1, <1>2, UnderWay DEF Locking
<1>4. /\ devices' \subseteq Run \X Nat /\ devices' = Without(t) /\ table' = table
      /\ table' \in [Run -> Context \cup {None}]
  BY ShapeFacts DEF LoseRuntime, Without
<1>5. "mark" \in Step \ {"idle"} /\ "mark" \notin OnContext \cup Locking \cup Driving
  BY DEF Step, OnContext, Locking, Driving
<1>6. calls' \in [Call -> CallRow] /\ Alone(t) /\ CallKnown(t)' /\ Goes(t, "mark")
  BY <1>1, <1>5, GoesFacts DEF LoseRuntime
<1>7. context' = [context EXCEPT ![c].runtime = 0]
  BY <1>2 DEF LoseRuntime
<1>8. /\ context' \in [Context -> ContextRow]
      /\ \A d \in Context : d # c => context'[d] = context[d]
      /\ Runtime(c)' = 0 /\ Final(c)' = Final(c) /\ Lock(c)' = t
  BY <1>2, <1>3, <1>7, ShapeFacts DEF ContextRow, Runtime, Final, Lock
<1>9. Kept(t)
  BY <1>3, <1>8, UntouchedIsKept DEF Untouched
<1>10. LocksOf(t)
  BY <1>5, <1>6, <1>8 DEF LocksOf, Lock, Goes
<1>11. CallHolds(t)'
  BY <1>5, <1>6 DEF CallHolds, Goes
<1>12. Only(c)
  BY <1>8 DEF Only, Runtime, Final
<1> QED
  BY <1>2, <1>4, <1>6, <1>8, <1>9, <1>10, <1>11, <1>12 DEF ShapeMove, Typed, Loses

LEMMA DiscardFacts ==
    ASSUME RunInv, ShapeInv, NEW t \in Call, Discard(t)
    PROVE  /\ ShapeMove(t) /\ Returns(t) /\ SameMemory /\ devices' = devices
           /\ table' = Popped(calls[t].run, calls[t].ctx)
<1>1. /\ Return(t, context) /\ devices' = devices
      /\ table' = Popped(calls[t].run, calls[t].ctx)
  BY DEF Discard
<1>2. devices' \subseteq Run \X Nat /\ table' \in [Run -> Context \cup {None}]
  BY <1>1, PoppedFacts, ShapeFacts
<1> QED
  BY <1>1, <1>2, ReturnsQuietly

LEMMA LookToDiscardFacts ==
    ASSUME RunInv, ShapeInv, NEW t \in Call, LookToDiscard(t)
    PROVE  /\ ShapeMove(t) /\ SameMemory /\ UNCHANGED <<table, devices>>
           /\ \/ Returns(t) /\ table[calls[t].run] = None
              \/ /\ table[calls[t].run] # None
                 /\ calls'[t].step = "pop" /\ calls'[t].ctx = table[calls[t].run]
                 /\ calls'[t].run = calls[t].run /\ calls'[t].token = calls[t].token
<1> DEFINE r == calls[t].run
<1>1. ~At(t, "idle") /\ CountsGrow
  BY QuietCounts DEF LookToDiscard, At
<1>2. r \in Run
  BY <1>1, UnderWay
<1>3. /\ devices' \subseteq Run \X Nat /\ table' \in [Run -> Context \cup {None}]
      /\ UNCHANGED <<table, devices>>
  BY ShapeFacts DEF LookToDiscard
<1>4. CASE table[r] = None
  <2>1. Return(t, context)
    BY <1>4 DEF LookToDiscard
  <2>2. ShapeMove(t) /\ Returns(t) /\ SameMemory
    BY <1>3, <2>1, ReturnsQuietly
  <2> QED
    BY <1>3, <1>4, <2>2
<1>5. CASE table[r] # None
  <2>1. PICK c \in Context : c = table[r]
    BY <1>2, <1>5, ShapeFacts
  <2>2. calls' = [calls EXCEPT ![t].step = "pop", ![t].ctx = c] /\ context' = context
    BY <1>5, <2>1 DEF LookToDiscard
  <2>3. /\ calls' \in [Call -> CallRow] /\ Alone(t) /\ CallKnown(t)' /\ CallHolds(t)'
        /\ calls'[t].step = "pop" /\ calls'[t].ctx = c
        /\ calls'[t].run = calls[t].run /\ calls'[t].token = calls[t].token
    BY <1>1, <2>2, GoesTo
  <2>4. context' \in [Context -> ContextRow] /\ Kept(t) /\ LocksOf(t)
    BY <2>2, <2>3, SameContexts
  <2> QED
    BY <1>3, <1>5, <2>1, <2>2, <2>3, <2>4 DEF ShapeMove, Typed, SameMemory, Runtime, Final
<1> QED
  BY <1>4, <1>5

LEMMA MarkFacts ==
    ASSUME RunInv, ShapeInv, CountsGrow, NEW t \in Call, MarkRunUnknown(t)
    PROVE  ShapeMove(t) /\ SameMemory /\ Goes(t, "discard") /\ UNCHANGED <<table, devices>>
<1>1. ~At(t, "idle") /\ Go(t, "discard")
      /\ UNCHANGED <<table, context>> /\ devices' = devices
  BY DEF MarkRunUnknown, At
<1>2. "discard" \in Step \ {"idle"} /\ "discard" \notin OnContext \cup Locking \cup Driving
  BY DEF Step, OnContext, Locking, Driving
<1>3. devices' \subseteq Run \X Nat
  BY <1>1, ShapeFacts
<1>4. ShapeMove(t) /\ Goes(t, "discard") /\ SameMemory
  BY <1>1, <1>2, <1>3, GoesQuietly
<1> QED
  BY <1>1, <1>4

LEMMA CommitFacts ==
    ASSUME RunInv, ShapeInv, CountsGrow, NEW t \in Call, Commit(t)
    PROVE  /\ ShapeMove(t) /\ SameMemory /\ UNCHANGED <<table, devices>>
           /\ Goes(t, "discard") \/ Returns(t)
<1>1. /\ ~At(t, "idle") /\ UNCHANGED table /\ devices' = devices
      /\ (Go(t, "discard") /\ UNCHANGED context) \/ Return(t, context)
  BY DEF Commit, At
<1>2. "discard" \in Step \ {"idle"} /\ "discard" \notin OnContext \cup Locking \cup Driving
  BY DEF Step, OnContext, Locking, Driving
<1>3. devices' \subseteq Run \X Nat /\ table' \in [Run -> Context \cup {None}]
  BY <1>1, ShapeFacts
<1>4. CASE Go(t, "discard") /\ UNCHANGED context
  BY <1>1, <1>2, <1>3, <1>4, GoesQuietly
<1>5. CASE Return(t, context)
  BY <1>1, <1>3, <1>5, ReturnsQuietly
<1> QED
  BY <1>1, <1>4, <1>5

LEMMA EnterBatchFacts ==
    ASSUME RunInv, ShapeInv, NEW t \in Call, EnterBatch(t)
    PROVE  /\ ShapeMove(t) /\ SameMemory /\ UNCHANGED <<table, devices>>
           /\ \/ /\ Goes(t, "operate") /\ Live(calls[t].run, calls[t].token)
                 /\ Runtime(calls[t].ctx) # 0
              \/ Returns(t)
<1>1. ~At(t, "idle") /\ CountsGrow /\ calls[t].step = "batch"
  BY QuietCounts DEF EnterBatch, At
<1>2. PICK c \in Context : c = calls[t].ctx
  BY <1>1, UnderWay DEF OnContext
<1>3. /\ devices' \subseteq Run \X Nat /\ table' \in [Run -> Context \cup {None}]
      /\ UNCHANGED <<table, devices>> /\ Available(c, t)
  BY <1>2, ShapeFacts DEF EnterBatch
<1>4. CASE /\ Live(calls[t].run, calls[t].token) /\ context[c].runtime # 0
           /\ context' = [context EXCEPT ![c].lock = t] /\ Go(t, "operate")
  <2>1. "operate" \in Locking /\ "operate" # "abort" /\ "none" \in {"none", "finalizing", "finalized"}
        /\ Entered(c, t, "none") /\ Runtime(c) # 0
    BY <1>4 DEF Locking, Driving, Entered, Runtime
  <2>2. /\ ShapeMove(t) /\ Goes(t, "operate")
        /\ \A d \in Context : Runtime(d)' = Runtime(d)
        /\ Only(c)
    BY <1>1, <1>2, <1>3, <1>4, <2>1, EntersFacts
  <2>3. Final(c)' = Final(c)
    BY <1>4, ShapeFacts DEF Final, ContextRow
  <2> QED
    BY <1>2, <1>3, <1>4, <2>1, <2>2, <2>3 DEF Only, SameMemory
<1>5. CASE Return(t, context)
  BY <1>3, <1>5, ReturnsQuietly
<1> QED
  BY <1>2, <1>4, <1>5 DEF EnterBatch

LEMMA EndBatchFacts ==
    ASSUME RunInv, ShapeInv, NEW t \in Call, EndBatch(t)
    PROVE  /\ ShapeMove(t)
           /\ \/ Returns(t) /\ SameMemory /\ UNCHANGED <<table, devices>>
              \/ \E c \in Context : c = calls[t].ctx /\ Loses(t, c)
<1>1. calls[t].step \in Driving
  BY DEF EndBatch, At, Driving
<1>2. CASE Return(t, context) /\ UNCHANGED <<table, devices>>
  <2>1. devices' \subseteq Run \X Nat /\ table' \in [Run -> Context \cup {None}]
    BY <1>2, ShapeFacts
  <2> QED
    BY <1>2, <2>1, ReturnsQuietly
<1>3. CASE LoseRuntime(t)
  BY <1>1, <1>3, LoseFacts
<1> QED
  BY <1>2, <1>3 DEF EndBatch

LEMMA EnterFinishFacts ==
    ASSUME RunInv, ShapeInv, NEW t \in Call, EnterFinish(t)
    PROVE  /\ ShapeMove(t) /\ UNCHANGED <<table, devices>>
           /\ \A d \in Context : Runtime(d)' = Runtime(d)
           /\ \/ /\ Goes(t, "release") /\ Live(calls[t].run, calls[t].token)
                 /\ \E c \in Context : /\ c = calls[t].ctx /\ Only(c)
                                       /\ Final(c) = "none" /\ Runtime(c) # 0
              \/ Returns(t) /\ SameMemory
<1>1. ~At(t, "idle") /\ CountsGrow /\ calls[t].step = "finish"
  BY QuietCounts DEF EnterFinish, At
<1>2. PICK c \in Context : c = calls[t].ctx
  BY <1>1, UnderWay DEF OnContext
<1>3. /\ devices' \subseteq Run \X Nat /\ table' \in [Run -> Context \cup {None}]
      /\ UNCHANGED <<table, devices>> /\ Available(c, t)
  BY <1>2, ShapeFacts DEF EnterFinish
<1>4. CASE /\ Live(calls[t].run, calls[t].token)
           /\ context[c].final = "none" /\ context[c].runtime # 0
           /\ context' = [context EXCEPT ![c].lock = t, ![c].final = "finalizing"]
           /\ Go(t, "release")
  <2>1. "release" \in Locking /\ "release" # "abort"
        /\ "finalizing" \in {"none", "finalizing", "finalized"}
        /\ Entered(c, t, "finalizing") /\ Runtime(c) # 0 /\ Final(c) = "none"
    BY <1>4 DEF Locking, Driving, Entered, Runtime, Final
  <2>2. /\ ShapeMove(t) /\ Goes(t, "release")
        /\ \A d \in Context : Runtime(d)' = Runtime(d)
        /\ Only(c)
    BY <1>1, <1>2, <1>3, <1>4, <2>1, EntersFacts
  <2> QED
    BY <1>2, <1>3, <1>4, <2>1, <2>2
<1>5. CASE Return(t, context)
  <2>1. ShapeMove(t) /\ Returns(t) /\ SameMemory
    BY <1>3, <1>5, ReturnsQuietly
  <2> QED
    BY <1>3, <2>1 DEF SameMemory
<1> QED
  BY <1>2, <1>4, <1>5 DEF EnterFinish

LEMMA EndFinishFacts ==
    ASSUME RunInv, ShapeInv, NEW t \in Call, EndFinish(t)
    PROVE  \E c \in Context :
              /\ c = calls[t].ctx /\ ShapeMove(t)
              /\ \/ /\ Returns(t) /\ table' = table /\ devices' = Without(t)
                    /\ Runtime(c)' = 0 /\ Only(c)
                 \/ Loses(t, c)
<1>1. calls[t].step \in Driving /\ calls[t].step = "release" /\ ~At(t, "idle")
  BY DEF EndFinish, At, Driving
<1>2. PICK c \in Context : c = calls[t].ctx
  BY <1>1, UnderWay DEF OnContext
<1>3. Lock(c) = t
  BY <1>1, <1>2, UnderWay DEF Locking
<1>4. CASE /\ devices' = Without(t) /\ table' = table
           /\ Return(t, [context EXCEPT ![c].runtime = 0, ![c].provision = "none",
                                        ![c].final = "finalized"])
  <2> DEFINE ctxs == [context EXCEPT ![c].runtime = 0, ![c].provision = "none",
                                     ![c].final = "finalized"]
  <2>1. ctxs \in [Context -> ContextRow]
    BY ShapeFacts DEF ContextRow
  <2>2. \A d \in Context : /\ ctxs[d].lock = Lock(d)
                           /\ d # c => ctxs[d] = context[d]
    BY ShapeFacts DEF ContextRow, Lock
  <2>3. \A d \in Context : /\ ctxs[d].lock = Lock(d)
                           /\ Lock(d) \notin {None, t} => ctxs[d] = context[d]
    BY <1>3, <2>2
  <2>4. ctxs[c].runtime = 0
    BY ShapeFacts DEF ContextRow
  <2>5. Return(t, ctxs)
    BY <1>4
  <2>6. devices' \subseteq Run \X Nat /\ table' \in [Run -> Context \cup {None}]
    BY <1>4, ShapeFacts DEF Without
  <2> HIDE DEF ctxs
  <2>7. /\ ShapeMove(t) /\ Returns(t)
        /\ \A d \in Context : Runtime(d)' = ctxs[d].runtime /\ Final(d)' = ctxs[d].final
    BY <2>1, <2>3, <2>5, <2>6, ReturnsFrom
  <2>8. Only(c)
    BY <2>2, <2>7 DEF Only, Runtime, Final
  <2> QED
    BY <1>2, <1>4, <2>4, <2>7, <2>8
<1>5. CASE LoseRuntime(t)
  BY <1>1, <1>5, LoseFacts
<1> QED
  BY <1>2, <1>4, <1>5 DEF EndFinish

LEMMA EnterTerminalFacts ==
    ASSUME RunInv, ShapeInv, NEW t \in Call, EnterTerminal(t)
    PROVE  /\ ShapeMove(t) /\ UNCHANGED <<table, devices>>
           /\ \A d \in Context : Runtime(d)' = Runtime(d)
           /\ \/ Returns(t) /\ SameMemory
              \/ \E c \in Context :
                    /\ c = calls[t].ctx /\ Live(calls[t].run, calls[t].token)
                    /\ \/ Goes(t, "commit") /\ SameMemory /\ Final(c) # "none"
                       \/ /\ Goes(t, "commit") /\ Only(c)
                          /\ Final(c) = "none" /\ Runtime(c) = 0
                       \/ /\ Goes(t, "abort") /\ Only(c)
                          /\ Final(c) = "none" /\ Runtime(c) # 0
<1>1. ~At(t, "idle") /\ CountsGrow /\ calls[t].step = "terminal"
  BY QuietCounts DEF EnterTerminal, At
<1>2. PICK c \in Context : c = calls[t].ctx
  BY <1>1, UnderWay DEF OnContext
<1>3. /\ devices' \subseteq Run \X Nat /\ table' \in [Run -> Context \cup {None}]
      /\ UNCHANGED <<table, devices>> /\ Available(c, t)
  BY <1>2, ShapeFacts DEF EnterTerminal
<1>4. calls[t].outcome \in Reported
  BY <1>1, ShapeFacts DEF CallKnown
<1>5. "commit" \in Step \ {"idle"} /\ "commit" \notin OnContext \cup Locking \cup Driving
  BY DEF Step, OnContext, Locking, Driving
<1>6. CASE Return(t, context)
  <2>1. ShapeMove(t) /\ Returns(t) /\ SameMemory
    BY <1>3, <1>6, ReturnsQuietly
  <2> QED
    BY <1>3, <2>1 DEF SameMemory
<1>7. CASE /\ Live(calls[t].run, calls[t].token) /\ context[c].final # "none"
           /\ Go(t, "commit") /\ UNCHANGED context
  <2>1. UNCHANGED <<table, context>>
    BY <1>3, <1>7
  <2>2. ShapeMove(t) /\ Goes(t, "commit") /\ SameMemory
    BY <1>1, <1>3, <1>4, <1>5, <1>7, <2>1, GoesQuietly
  <2> QED
    BY <1>2, <1>3, <1>7, <2>2 DEF SameMemory, Final
<1>8. CASE /\ Live(calls[t].run, calls[t].token) /\ context[c].final = "none"
           /\ context[c].runtime = 0 /\ Go(t, "commit")
           /\ context' = [context EXCEPT ![c].final = "finalizing", ![c].provision = "none"]
  <2>1. calls' \in [Call -> CallRow] /\ Alone(t) /\ CallKnown(t)' /\ Goes(t, "commit")
    BY <1>1, <1>4, <1>5, <1>8, GoesFacts
  <2>2. /\ context' \in [Context -> ContextRow]
        /\ Lock(c)' = Lock(c) /\ Runtime(c)' = Runtime(c)
        /\ \A d \in Context : d # c => context'[d] = context[d]
    BY <1>8, ShapeFacts DEF ContextRow, Lock, Runtime
  <2>3. Lock(c) \in {None, t}
    BY <1>3 DEF Available, Lock
  <2>4. Kept(t)
    BY <2>2, <2>3, UntouchedIsKept DEF Untouched
  <2>5. LocksOf(t)
    BY <1>5, <2>1, <2>2, <2>3 DEF LocksOf, Lock, Goes
  <2>6. CallHolds(t)'
    BY <1>5, <2>1 DEF CallHolds, Goes
  <2>7. ShapeMove(t)
    BY <1>3, <2>1, <2>2, <2>4, <2>5, <2>6 DEF ShapeMove, Typed
  <2>8. Only(c) /\ \A d \in Context : Runtime(d)' = Runtime(d)
    BY <2>2 DEF Only, Runtime, Final
  <2> QED
    BY <1>2, <1>3, <1>8, <2>1, <2>7, <2>8 DEF Runtime, Final
<1>9. CASE /\ Live(calls[t].run, calls[t].token) /\ context[c].final = "none"
           /\ context[c].runtime # 0 /\ Go(t, "abort")
           /\ context' = [context EXCEPT ![c].final = "finalizing", ![c].lock = t]
  <2>1. "abort" \in Locking /\ "finalizing" \in {"none", "finalizing", "finalized"}
        /\ Entered(c, t, "finalizing") /\ Runtime(c) # 0 /\ Final(c) = "none"
    BY <1>9 DEF Locking, Driving, Entered, Runtime, Final
  <2>2. /\ ShapeMove(t) /\ Goes(t, "abort")
        /\ \A d \in Context : Runtime(d)' = Runtime(d)
        /\ Only(c)
    BY <1>1, <1>2, <1>3, <1>4, <1>9, <2>1, EntersFacts
  <2> QED
    BY <1>2, <1>3, <1>9, <2>1, <2>2
<1> QED
  BY <1>2, <1>6, <1>7, <1>8, <1>9 DEF EnterTerminal

LEMMA EndAbortFacts ==
    ASSUME RunInv, ShapeInv, NEW t \in Call, EndAbort(t)
    PROVE  \E c \in Context :
              /\ c = calls[t].ctx /\ ShapeMove(t)
              /\ \/ /\ Goes(t, "commit") /\ table' = table /\ devices' = Without(t)
                    /\ Runtime(c)' = 0 /\ Only(c)
                 \/ Loses(t, c)
<1>1. calls[t].step \in Driving /\ calls[t].step = "abort" /\ ~At(t, "idle")
  BY DEF EndAbort, At, Driving
<1>2. PICK c \in Context : c = calls[t].ctx
  BY <1>1, UnderWay DEF OnContext
<1>3. Lock(c) = t /\ calls[t].outcome \in Reported
  BY <1>1, <1>2, UnderWay, ShapeFacts DEF Locking, CallKnown
<1>4. CASE /\ devices' = Without(t) /\ table' = table /\ UNCHANGED runVars /\ Go(t, "commit")
           /\ context' = Unlocked([context EXCEPT ![c].runtime = 0,
                                                  ![c].provision = "none"], t)
  <2> DEFINE ctxs == [context EXCEPT ![c].runtime = 0, ![c].provision = "none"]
  <2>1. ctxs \in [Context -> ContextRow]
    BY ShapeFacts DEF ContextRow
  <2>2. \A d \in Context : /\ ctxs[d].lock = Lock(d)
                           /\ d # c => ctxs[d] = context[d]
    BY ShapeFacts DEF ContextRow, Lock
  <2>3. ctxs[c].runtime = 0
    BY ShapeFacts DEF ContextRow
  <2>4. context' = Unlocked(ctxs, t)
    BY <1>4
  <2>5. devices' \subseteq Run \X Nat /\ table' \in [Run -> Context \cup {None}]
    BY <1>4, ShapeFacts DEF Without
  <2>6. CountsGrow /\ "commit" \in Step \ {"idle"}
        /\ "commit" \notin OnContext \cup Locking \cup Driving
    BY <1>4, QuietCounts DEF Step, OnContext, Locking, Driving
  <2> HIDE DEF ctxs
  <2>7. calls' \in [Call -> CallRow] /\ Alone(t) /\ CallKnown(t)' /\ Goes(t, "commit")
    BY <1>1, <1>3, <1>4, <2>6, GoesFacts
  <2>8. /\ context' \in [Context -> ContextRow]
        /\ \A d \in Context :
              /\ Lock(d)' = IF Lock(d) = t THEN None ELSE Lock(d)
              /\ Runtime(d)' = ctxs[d].runtime /\ Final(d)' = ctxs[d].final
              /\ Lock(d) # t => context'[d] = ctxs[d]
    BY <2>1, <2>2, <2>4, UnlockedFacts DEF Lock, Runtime, Final
  <2>9. Kept(t)
    <3>1. Untouched(t)
      BY <1>3, <2>2, <2>8 DEF Untouched
    <3> QED
      BY <3>1, UntouchedIsKept
  <2>10. LocksOf(t)
    BY <2>8, NoneFacts DEF LocksOf
  <2>11. CallHolds(t)'
    BY <2>6, <2>7 DEF CallHolds, Goes
  <2>12. Only(c)
    BY <2>2, <2>8 DEF Only, Runtime, Final
  <2> QED
    BY <1>2, <1>4, <2>3, <2>5, <2>7, <2>8, <2>9, <2>10, <2>11, <2>12 DEF ShapeMove, Typed
<1>5. CASE LoseRuntime(t)
  BY <1>1, <1>5, LoseFacts
<1> QED
  BY <1>2, <1>4, <1>5 DEF EndAbort

LEMMA HardwareShape ==
    ASSUME RunInv, ShapeInv, NEW t \in Call, Hardware(t)
    PROVE  ShapeMove(t)
<1>1. CASE CreateContext(t)
  BY <1>1, CreateFacts
<1>2. CASE EnterProvision(t)
  BY <1>2, EnterProvisionFacts
<1>3. CASE Connect(t)
  BY <1>3, ConnectFacts
<1>4. CASE RecordProvision(t)
  BY <1>4, RecordFacts
<1>5. CASE StoreProvision(t)
  BY <1>5, StoreFacts
<1>6. CASE LookToDiscard(t)
  BY <1>6, LookToDiscardFacts
<1>7. CASE Discard(t)
  BY <1>7, DiscardFacts
<1>8. CASE EnterBatch(t)
  BY <1>8, EnterBatchFacts
<1>9. CASE EndBatch(t)
  BY <1>9, EndBatchFacts
<1>10. CASE EnterFinish(t)
  BY <1>10, EnterFinishFacts
<1>11. CASE EndFinish(t)
  BY <1>11, EndFinishFacts
<1>12. CASE EnterTerminal(t)
  BY <1>12, EnterTerminalFacts
<1>13. CASE EndAbort(t)
  BY <1>13, EndAbortFacts
<1> QED
  BY <1>1, <1>2, <1>3, <1>4, <1>5, <1>6, <1>7, <1>8, <1>9, <1>10, <1>11, <1>12, <1>13
     DEF Hardware

\* Steps that leave requests and contexts alone.
LEMMA ShapeQuiet ==
    ASSUME ShapeInv, CountsGrow, UNCHANGED <<table, context, devices, calls>>,
           attention' \in Run \cup {None, "supervisor"}, cleaning' \subseteq Run,
           looked' \in [Run -> Context \cup {None}]
    PROVE  ShapeInv'
<1>1. HardwareTypeOK'
  BY DEF ShapeInv, HardwareTypeOK
<1>2. ASSUME NEW u \in Call
      PROVE  CallKnown(u)' /\ CallHolds(u)'
  <2>1. CallKnown(u) /\ CallHolds(u) /\ calls'[u] = calls[u] /\ context' = context
    BY DEF ShapeInv
  <2>2. CallKnown(u)'
    BY <2>1 DEF CallKnown, At, CountsGrow
  <2>3. CallHolds(u)'
    BY <2>1 DEF CallHolds, Lock, Runtime
  <2> QED
    BY <2>2, <2>3
<1> QED
  BY <1>1, <1>2 DEF ShapeInv

\* What cleanup does.
LEMMA CleanUpFacts ==
    ASSUME ShapeInv, NEW r \in Run, CleanUp(r)
    PROVE  \E c \in Context :
              /\ c = looked[r] /\ Lock(c) = None
              /\ table' = Popped(r, c) /\ table' \in [Run -> Context \cup {None}]
              /\ context' \in [Context -> ContextRow]
              /\ \A d \in Context : Lock(d)' = Lock(d) /\ Final(d)' = Final(d)
              /\ \A d \in Context : d # c => context'[d] = context[d]
              /\ \/ table[r] = c /\ Runtime(c)' = 0 /\ devices' = devices \ {<<r, Runtime(c)>>}
                 \/ table[r] # c /\ context' = context /\ UNCHANGED <<table, devices>>
              /\ Only(c)
              /\ cleaning' = cleaning \ {r}
              /\ looked' = [looked EXCEPT ![r] = None]
              /\ UNCHANGED <<calls, attention>>
<1>1. context \in [Context -> ContextRow] /\ table \in [Run -> Context \cup {None}]
      /\ looked \in [Run -> Context \cup {None}]
  BY DEF ShapeInv, HardwareTypeOK
<1>2. PICK c \in Context : c = looked[r]
  BY <1>1 DEF CleanUp
<1>3. /\ context[c].lock = None /\ table' = Popped(r, c)
      /\ IF table[r] = c
         THEN /\ devices' = devices \ {<<r, context[c].runtime>>}
              /\ context' = [context EXCEPT ![c].runtime = 0]
         ELSE UNCHANGED <<devices, context>>
      /\ cleaning' = cleaning \ {r} /\ looked' = [looked EXCEPT ![r] = None]
      /\ UNCHANGED <<calls, attention>>
  BY <1>2 DEF CleanUp
<1>4. table' \in [Run -> Context \cup {None}] /\ (table[r] # c => table' = table)
  BY <1>1, <1>3, PoppedFacts DEF Popped
<1>5. CASE table[r] = c
  <2>1. /\ context' \in [Context -> ContextRow]
        /\ \A d \in Context : d # c => context'[d] = context[d]
        /\ context'[c].runtime = 0 /\ context'[c].lock = context[c].lock
        /\ context'[c].final = context[c].final
    BY <1>1, <1>3, <1>5 DEF ContextRow
  <2> QED
    BY <1>2, <1>3, <1>4, <1>5, <2>1 DEF Lock, Runtime, Final, Only
<1>6. CASE table[r] # c
  BY <1>1, <1>2, <1>3, <1>4, <1>6 DEF Lock, Runtime, Final, Only
<1> QED
  BY <1>5, <1>6

LEMMA CleanUpShape ==
    ASSUME RunInv, ShapeInv, NEW r \in Run, CleanUp(r)
    PROVE  ShapeInv'
<1>1. PICK c \in Context :
              /\ c = looked[r] /\ Lock(c) = None
              /\ table' = Popped(r, c) /\ table' \in [Run -> Context \cup {None}]
              /\ context' \in [Context -> ContextRow]
              /\ \A d \in Context : Lock(d)' = Lock(d) /\ Final(d)' = Final(d)
              /\ \A d \in Context : d # c => context'[d] = context[d]
              /\ \/ table[r] = c /\ Runtime(c)' = 0 /\ devices' = devices \ {<<r, Runtime(c)>>}
                 \/ table[r] # c /\ context' = context /\ UNCHANGED <<table, devices>>
              /\ Only(c)
              /\ cleaning' = cleaning \ {r}
              /\ looked' = [looked EXCEPT ![r] = None]
              /\ UNCHANGED <<calls, attention>>
  BY CleanUpFacts
<1>2. CountsGrow
  BY QuietCounts DEF CleanUp
<1>3. ASSUME NEW u \in Call
      PROVE  CallKnown(u)' /\ CallHolds(u)'
  <2>1. CallKnown(u) /\ CallHolds(u) /\ calls'[u] = calls[u]
    BY <1>1 DEF ShapeInv
  <2>2. CallKnown(u)'
    BY <1>2, <2>1 DEF CallKnown, At, CountsGrow
  <2>3. ASSUME calls[u].step \in Locking
        PROVE  context'[calls[u].ctx] = context[calls[u].ctx]
    <3>1. calls[u].ctx \in Context /\ Lock(calls[u].ctx) = u
      BY <2>1, <2>3 DEF CallKnown, CallHolds, OnContext, Locking, Driving
    <3>2. calls[u].ctx # c
      BY <1>1, <3>1, NoneFacts
    <3> QED
      BY <1>1, <3>1, <3>2
  <2>4. CallHolds(u)'
    BY <2>1, <2>3 DEF CallHolds, Lock, Runtime, Locking
  <2> QED
    BY <2>2, <2>4
<1>4. devices' \subseteq Run \X Nat /\ cleaning' \subseteq Run
      /\ looked' \in [Run -> Context \cup {None}] /\ attention' = attention
  BY <1>1 DEF ShapeInv, HardwareTypeOK
<1>5. HardwareTypeOK'
  BY <1>1, <1>4 DEF HardwareTypeOK, ShapeInv, Lock
<1> QED
  BY <1>3, <1>5 DEF ShapeInv

LEMMA FreshShape == HardwareInit => ShapeInv
<1> SUFFICES ASSUME HardwareInit PROVE ShapeInv
  OBVIOUS
<1>1. NewContext \in ContextRow /\ NewContext.lock = None
  BY DEF NewContext, ContextRow
<1>2. HardwareTypeOK
  BY <1>1, IdleType DEF HardwareTypeOK, HardwareInit
<1>3. \A t \in Call : calls[t] = Idle
  BY DEF HardwareInit
<1>4. \A t \in Call : CallKnown(t) /\ CallHolds(t)
  BY <1>3, IdleType DEF CallKnown, CallHolds, At, OnContext, Locking, Driving
<1> QED
  BY <1>2, <1>4 DEF ShapeInv

LEMMA ShapeInvStep ==
    ASSUME RunInv, ShapeInv, [HardwareNext]_allVars
    PROVE  ShapeInv'
<1>1. CASE UNCHANGED allVars
  <2>1. UNCHANGED runVars /\ UNCHANGED hardwareVars
    BY <1>1 DEF allVars
  <2>2. CountsGrow
    BY <2>1, QuietCounts
  <2> QED
    BY <2>1, <2>2, ShapeQuiet DEF hardwareVars, ShapeInv, HardwareTypeOK
<1>2. ASSUME HardwareNext
      PROVE  CountsGrow
  BY <1>2, CountGrows, CountType DEF CountsGrow, ShapeInv
<1>3. CASE HardwareNext /\ OtherHandlers
  BY <1>2, <1>3, ShapeQuiet DEF OtherHandlers, hardwareVars, ShapeInv, HardwareTypeOK
<1>4. ASSUME HardwareNext, NEW t \in Call,
             Arrive(t) \/ Hardware(t) \/ MarkRunUnknown(t) \/ Commit(t)
      PROVE  ShapeInv'
  <2>1. CountsGrow
    BY <1>2, <1>4
  <2>2. ShapeMove(t)
    BY <1>4, <2>1, ArriveShape, HardwareShape, MarkFacts, CommitFacts
  <2>3. UNCHANGED <<attention, cleaning, looked>>
    BY <1>4, ArriveQuiet, HardwareQuiet DEF MarkRunUnknown, Commit
  <2> QED
    BY <2>1, <2>2, <2>3, ShapeStep DEF ShapeMove
<1>5. CASE HardwareNext /\ Attend
  <2>1. CASE ListExpired \/ FenceExpired \/ SupervisorDone \/ (\E r \in Run : BeginResolve(r) \/ EndResolve(r))
    <3>1. UNCHANGED <<table, context, devices, calls, looked>>
      BY <2>1 DEF ListExpired, FenceExpired, SupervisorDone, BeginResolve, EndResolve
    <3>2. cleaning' \subseteq Run
      <4>1. sweep \subseteq Run /\ cleaning \subseteq Run
        BY DEF RunInv, RunTypeOK, ShapeInv, HardwareTypeOK
      <4> QED
        BY <2>1, <4>1 DEF ListExpired, FenceExpired, SupervisorDone, BeginResolve, EndResolve
    <3>3. attention' \in Run \cup {None, "supervisor"}
      BY <2>1 DEF ListExpired, FenceExpired, SupervisorDone, BeginResolve, EndResolve,
                  ShapeInv, HardwareTypeOK
    <3> QED
      BY <1>2, <1>5, <3>1, <3>2, <3>3, ShapeQuiet DEF ShapeInv, HardwareTypeOK
  <2>2. ASSUME NEW r \in Run, LookToClean(r)
        PROVE  ShapeInv'
    <3>1. UNCHANGED <<table, context, devices, calls, attention>>
      BY <2>2 DEF LookToClean
    <3>2. cleaning' \subseteq Run /\ looked' \in [Run -> Context \cup {None}]
      BY <2>2 DEF LookToClean, ShapeInv, HardwareTypeOK
    <3> QED
      BY <1>2, <1>5, <3>1, <3>2, ShapeQuiet DEF ShapeInv, HardwareTypeOK
  <2> QED
    BY <1>5, <2>1, <2>2, CleanUpShape DEF Attend, CleanupStep
<1>6. CASE RestartHardware
  <2>1. HardwareInit'
    BY <1>6 DEF RestartHardware, HardwareInit
  <2>2. (HardwareInit => ShapeInv)'
    BY FreshShape, PTL
  <2> QED
    BY <2>1, <2>2
<1> QED
  BY <1>1, <1>3, <1>4, <1>5, <1>6, NextKinds

-----------------------------------------------------------------------------
(* Who owns devices: the contexts a run may come back to, and the requests *)
(* that are about to store what they connected.                            *)

\* Ways from a run to a context.
Refers(r, c) ==
    \/ table[r] = c
    \/ looked[r] = c
    \/ \E t \in Call : calls[t].run = r /\ calls[t].ctx = c

\* Requests that have connected devices and not stored them yet.
Recording(t) == calls[t].step \in {"record", "store"}

RefersOnce == \A q, r \in Run : \A c \in Context : Refers(q, c) /\ Refers(r, c) => q = r

StoredOK ==
    \A r \in Run : \A c \in Context : Refers(r, c) /\ Runtime(c) # 0 =>
        /\ <<r, Runtime(c)>> \in devices
        /\ \A d \in Context : Refers(r, d) /\ Runtime(d) # 0 => d = c

RecordingOK ==
    \A t \in Call : Recording(t) =>
        /\ <<calls[t].run, calls[t].token>> \in devices
        /\ \A c \in Context : Refers(calls[t].run, c) => Runtime(c) = 0
        /\ \A u \in Call : Recording(u) /\ calls[u].run = calls[t].run => u = t

OwnersApart == \A d, e \in devices : d # e => Needs[d[1]] \cap Needs[e[1]] = {}
OwnersTyped == devices \subseteq Run \X (Nat \ {0})

DevicesInv == RefersOnce /\ StoredOK /\ RecordingOK /\ OwnersApart /\ OwnersTyped

\* What a step may do that connects nothing.
RefsShrink == \A r \in Run : \A c \in Context : Refers(r, c)' => Refers(r, c)
RuntimesShrink == \A c \in Context : Runtime(c)' \in {Runtime(c), 0}
RecordersShrink ==
    \A u \in Call : Recording(u)' =>
        /\ Recording(u)
        /\ calls'[u].run = calls[u].run /\ calls'[u].token = calls[u].token
OwnedKept ==
    /\ \A r \in Run : \A c \in Context :
          Refers(r, c)' /\ Runtime(c)' # 0 => <<r, Runtime(c)>> \in devices'
    /\ \A u \in Call : Recording(u)' => <<calls[u].run, calls[u].token>> \in devices'

LEMMA LetGoStep ==
    ASSUME DevicesInv, RefsShrink, RuntimesShrink, RecordersShrink, OwnedKept,
           devices' \subseteq devices
    PROVE  DevicesInv'
<1>1. RefersOnce'
  BY DEF DevicesInv, RefersOnce, RefsShrink
<1>2. StoredOK'
  <2> SUFFICES ASSUME NEW r \in Run, NEW c \in Context, Refers(r, c)', Runtime(c)' # 0
               PROVE  /\ <<r, Runtime(c)'>> \in devices'
                      /\ \A d \in Context : Refers(r, d)' /\ Runtime(d)' # 0 => d = c
    BY DEF StoredOK
  <2>1. Refers(r, c) /\ Runtime(c)' = Runtime(c)
    BY DEF RefsShrink, RuntimesShrink
  <2>2. <<r, Runtime(c)'>> \in devices'
    BY <2>1 DEF OwnedKept
  <2>3. ASSUME NEW d \in Context, Refers(r, d)', Runtime(d)' # 0
        PROVE  d = c
    <3>1. Refers(r, d) /\ Runtime(d)' = Runtime(d)
      BY <2>3 DEF RefsShrink, RuntimesShrink
    <3> QED
      BY <2>1, <2>3, <3>1 DEF DevicesInv, StoredOK
  <2> QED
    BY <2>2, <2>3
<1>3. RecordingOK'
  <2> SUFFICES ASSUME NEW t \in Call, Recording(t)'
               PROVE  /\ <<calls'[t].run, calls'[t].token>> \in devices'
                      /\ \A c \in Context : Refers(calls[t].run, c)' => Runtime(c)' = 0
                      /\ \A u \in Call : Recording(u)' /\ calls'[u].run = calls'[t].run => u = t
    BY DEF RecordingOK
  <2>1. Recording(t) /\ calls'[t].run = calls[t].run /\ calls'[t].token = calls[t].token
    BY DEF RecordersShrink
  <2>2. <<calls'[t].run, calls'[t].token>> \in devices'
    BY <2>1 DEF OwnedKept
  <2>3. calls[t].run \in Run
    BY <2>1 DEF DevicesInv, RecordingOK, OwnersTyped
  <2>4. ASSUME NEW c \in Context, Refers(calls[t].run, c)'
        PROVE  Runtime(c)' = 0
    <3>1. PICK r \in Run : r = calls'[t].run /\ r = calls[t].run
      BY <2>1, <2>3
    <3>2. Refers(r, c)'
      BY <2>4, <3>1
    <3>3. Runtime(c) = 0
      BY <2>1, <3>1, <3>2 DEF RefsShrink, DevicesInv, RecordingOK
    <3> QED
      BY <3>3 DEF RuntimesShrink
  <2>5. ASSUME NEW u \in Call, Recording(u)', calls'[u].run = calls'[t].run
        PROVE  u = t
    BY <2>1, <2>5 DEF RecordersShrink, DevicesInv, RecordingOK
  <2> QED
    BY <2>2, <2>4, <2>5
<1>4. OwnersApart' /\ OwnersTyped'
  BY DEF DevicesInv, OwnersApart, OwnersTyped
<1> QED
  BY <1>1, <1>2, <1>3, <1>4 DEF DevicesInv

\* Nothing is connected and nothing let go.
LEMMA QuietDevices ==
    ASSUME DevicesInv, RefsShrink, RecordersShrink, devices' = devices,
           \A c \in Context : Runtime(c)' = Runtime(c)
    PROVE  DevicesInv'
<1>1. RuntimesShrink
  BY DEF RuntimesShrink
<1>2. OwnedKept
  <2>1. ASSUME NEW r \in Run, NEW c \in Context, Refers(r, c)', Runtime(c)' # 0
        PROVE  <<r, Runtime(c)>> \in devices'
    BY <2>1 DEF RefsShrink, DevicesInv, StoredOK
  <2>2. ASSUME NEW u \in Call, Recording(u)'
        PROVE  <<calls[u].run, calls[u].token>> \in devices'
    BY <2>2 DEF RecordersShrink, DevicesInv, RecordingOK
  <2> QED
    BY <2>1, <2>2 DEF OwnedKept
<1> QED
  BY <1>1, <1>2, LetGoStep

\* A request lets go of what its token owns, and its run is left with nothing to use.
LEMMA LetGo ==
    ASSUME DevicesInv, RefsShrink, RuntimesShrink, RecordersShrink,
           NEW t \in Call, devices' = Without(t),
           \A c \in Context : Refers(calls[t].run, c) => Runtime(c)' = 0,
           \A u \in Call : Recording(u)' => calls[u].run # calls[t].run
    PROVE  DevicesInv'
<1>1. devices' \subseteq devices
  BY DEF Without
<1>2. OwnedKept
  <2>1. ASSUME NEW r \in Run, NEW c \in Context, Refers(r, c)', Runtime(c)' # 0
        PROVE  <<r, Runtime(c)>> \in devices'
    <3>1. Refers(r, c) /\ Runtime(c) # 0
      BY <2>1 DEF RefsShrink, RuntimesShrink
    <3>2. <<r, Runtime(c)>> \in devices /\ r # calls[t].run
      BY <2>1, <3>1 DEF DevicesInv, StoredOK
    <3> QED
      BY <3>2 DEF Without
  <2>2. ASSUME NEW u \in Call, Recording(u)'
        PROVE  <<calls[u].run, calls[u].token>> \in devices'
    <3>1. <<calls[u].run, calls[u].token>> \in devices /\ calls[u].run # calls[t].run
      BY <2>2 DEF RecordersShrink, DevicesInv, RecordingOK
    <3> QED
      BY <3>1 DEF Without
  <2> QED
    BY <2>1, <2>2 DEF OwnedKept
<1> QED
  BY <1>1, <1>2, LetGoStep

\* The ways of one request to contexts.
LEMMA CallRefs ==
    ASSUME NEW t \in Call, Alone(t), looked' = looked,
           \A r \in Run : table'[r] \in {table[r], None},
           \A c \in Context : \A r \in Run :
               calls'[t].run = r /\ calls'[t].ctx = c => Refers(r, c)
    PROVE  RefsShrink
<1> SUFFICES ASSUME NEW r \in Run, NEW c \in Context, Refers(r, c)'
             PROVE  Refers(r, c)
  BY DEF RefsShrink
<1>1. c # None
  BY NoneFacts
<1>2. CASE table'[r] = c
  BY <1>1, <1>2 DEF Refers
<1>3. CASE looked'[r] = c
  BY <1>3 DEF Refers
<1>4. CASE \E u \in Call : calls'[u].run = r /\ calls'[u].ctx = c
  <2>1. PICK u \in Call : calls'[u].run = r /\ calls'[u].ctx = c
    BY <1>4
  <2>2. CASE u = t
    BY <2>1, <2>2
  <2>3. CASE u # t
    BY <2>1, <2>3 DEF Alone, Refers
  <2> QED
    BY <2>2, <2>3
<1> QED
  BY <1>2, <1>3, <1>4 DEF Refers

LEMMA StepRefs ==
    ASSUME NEW t \in Call, Alone(t), looked' = looked,
           \A r \in Run : table'[r] \in {table[r], None},
           \/ Returns(t)
           \/ calls'[t].run = calls[t].run
              /\ calls'[t].ctx \in {calls[t].ctx, table[calls[t].run]}
    PROVE  RefsShrink
<1>1. ASSUME NEW c \in Context, NEW r \in Run, calls'[t].run = r, calls'[t].ctx = c
      PROVE  Refers(r, c)
  <2>1. CASE Returns(t)
    BY <1>1, <2>1, IdleType, NoneFacts DEF Returns
  <2>2. CASE calls'[t].run = calls[t].run
              /\ calls'[t].ctx \in {calls[t].ctx, table[calls[t].run]}
    BY <1>1, <2>2 DEF Refers
  <2> QED
    BY <2>1, <2>2
<1> QED
  BY <1>1, CallRefs

LEMMA StepRecorders ==
    ASSUME NEW t \in Call, Alone(t),
           Recording(t)' => /\ Recording(t)
                            /\ calls'[t].run = calls[t].run /\ calls'[t].token = calls[t].token
    PROVE  RecordersShrink
<1> SUFFICES ASSUME NEW u \in Call, Recording(u)'
             PROVE  /\ Recording(u)
                    /\ calls'[u].run = calls[u].run /\ calls'[u].token = calls[u].token
  BY DEF RecordersShrink
<1>1. CASE u = t
  BY <1>1
<1>2. CASE u # t
  BY <1>2 DEF Alone, Recording
<1> QED
  BY <1>1, <1>2

LEMMA TableShrinks ==
    ASSUME ShapeInv, NEW r, NEW c,
           table' = Popped(r, c) \/ table' = PopUnused(r, c) \/ table' = table
    PROVE  \A q \in Run : table'[q] \in {table[q], None}
BY PoppedFacts DEF ShapeInv, HardwareTypeOK

\* A request that goes on or returns without touching devices or runtimes.
LEMMA QuietRequest ==
    ASSUME ShapeInv, DevicesInv, NEW t \in Call, Alone(t), looked' = looked,
           devices' = devices, \A c \in Context : Runtime(c)' = Runtime(c),
           \A q \in Run : table'[q] \in {table[q], None},
           \/ Returns(t)
           \/ /\ calls'[t].run = calls[t].run
              /\ calls'[t].ctx \in {calls[t].ctx, table[calls[t].run]}
              /\ \/ calls'[t].step \notin {"record", "store"}
                 \/ Recording(t) /\ calls'[t].token = calls[t].token
    PROVE  DevicesInv'
<1>1. RefsShrink
  BY StepRefs
<1>2. RecordersShrink
  <2>1. Recording(t)' => /\ Recording(t)
                         /\ calls'[t].run = calls[t].run /\ calls'[t].token = calls[t].token
    BY IdleType DEF Returns, Recording
  <2> QED
    BY <2>1, StepRecorders
<1> QED
  BY <1>1, <1>2, QuietDevices

\* A request that drove hardware of a context has let go of it.
LEMMA DroveAndLetGo ==
    ASSUME ShapeInv, DevicesInv, NEW t \in Call, NEW c \in Context, c = calls[t].ctx,
           calls[t].step \in Driving, Alone(t), looked' = looked, table' = table,
           devices' = Without(t), Runtime(c)' = 0, Only(c),
           \/ Returns(t)
           \/ /\ calls'[t].run = calls[t].run /\ calls'[t].ctx = calls[t].ctx
              /\ calls'[t].step \notin {"record", "store"}
    PROVE  DevicesInv'
<1>1. /\ calls[t].run \in Run /\ Runtime(c) # 0
      /\ Refers(calls[t].run, c)
  BY UnderWay DEF At, Driving, Refers
<1>2. RefsShrink
  BY StepRefs
<1>3. RecordersShrink
  <2>1. ~Recording(t)'
    BY IdleType DEF Returns, Recording
  <2> QED
    BY <2>1, StepRecorders
<1>4. RuntimesShrink
  BY DEF RuntimesShrink, Only
<1>5. ASSUME NEW d \in Context, Refers(calls[t].run, d)
      PROVE  Runtime(d)' = 0
  <2>1. CASE d = c
    BY <2>1
  <2>2. CASE d # c
    <3>1. Runtime(d) = 0
      BY <1>1, <1>5, <2>2 DEF DevicesInv, StoredOK
    <3> QED
      BY <2>2, <3>1 DEF Only
  <2> QED
    BY <2>1, <2>2
<1>6. ASSUME NEW u \in Call, Recording(u)'
      PROVE  calls[u].run # calls[t].run
  <2>1. Recording(u)
    BY <1>3, <1>6 DEF RecordersShrink
  <2> QED
    BY <1>1, <2>1 DEF DevicesInv, RecordingOK
<1> QED
  BY <1>2, <1>3, <1>4, <1>5, <1>6, LetGo

\* A request that could not record or store what it had connected lets go of it.
LEMMA RecorderLetsGo ==
    ASSUME ShapeInv, DevicesInv, NEW t \in Call, Recording(t), Alone(t), looked' = looked,
           table' = table, devices' = Without(t), SameMemory,
           \/ Returns(t)
           \/ /\ calls'[t].run = calls[t].run /\ calls'[t].ctx = calls[t].ctx
              /\ calls'[t].step \notin {"record", "store"}
    PROVE  DevicesInv'
<1>1. RefsShrink
  BY StepRefs
<1>2. RecordersShrink /\ ~Recording(t)'
  <2>1. ~Recording(t)'
    BY IdleType DEF Returns, Recording
  <2> QED
    BY <2>1, StepRecorders
<1>3. RuntimesShrink
  BY DEF RuntimesShrink, SameMemory
<1>4. \A d \in Context : Refers(calls[t].run, d) => Runtime(d)' = 0
  BY DEF SameMemory, DevicesInv, RecordingOK
<1>5. \A u \in Call : Recording(u)' => calls[u].run # calls[t].run
  BY <1>2 DEF RecordersShrink, DevicesInv, RecordingOK
<1> QED
  BY <1>1, <1>2, <1>3, <1>4, <1>5, LetGo

LEMMA CreateDevices ==
    ASSUME RunInv, ShapeInv, DevicesInv, NEW t \in Call, CreateContext(t)
    PROVE  DevicesInv'
<1>1. PICK c \in Context :
              /\ ShapeMove(t) /\ devices' = devices
              /\ calls'[t].step = "provision" /\ calls'[t].ctx = c
              /\ calls'[t].run = calls[t].run /\ calls'[t].token = calls[t].token
              /\ \/ table[calls[t].run] = c /\ UNCHANGED <<table, context>>
                 \/ /\ table[calls[t].run] = None /\ Unreferenced(c)
                    /\ table' = [table EXCEPT ![calls[t].run] = c]
                    /\ Runtime(c)' = 0 /\ Final(c)' = "none" /\ Only(c)
  BY CreateFacts
<1>2. looked' = looked /\ Alone(t) /\ calls[t].run \in Run
  BY <1>1, UnderWay DEF CreateContext, ShapeMove, At
<1>3. CASE table[calls[t].run] = c /\ UNCHANGED <<table, context>>
  <2>1. \A d \in Context : Runtime(d)' = Runtime(d)
    BY <1>3 DEF Runtime
  <2> QED
    BY <1>1, <1>2, <1>3, <2>1, QuietRequest
<1>4. CASE /\ table[calls[t].run] = None /\ Unreferenced(c)
           /\ table' = [table EXCEPT ![calls[t].run] = c]
           /\ Runtime(c)' = 0 /\ Only(c)
  <2>1. PICK r \in Run : r = calls[t].run
    BY <1>2
  <2>2. \A q \in Run : ~Refers(q, c)
    BY <1>4 DEF Unreferenced, Refers
  \* The new context is known to this run only, the others to whom they were.
  <2>3. ASSUME NEW q \in Run, NEW d \in Context, Refers(q, d)'
        PROVE  IF d = c THEN q = r ELSE Refers(q, d)
    <3>1. d # None
      BY NoneFacts
    <3>2. CASE table'[q] = d
      <4>1. table'[q] = IF q = r THEN c ELSE table[q]
        BY <1>4, <2>1, ShapeFacts
      <4> QED
        BY <2>2, <3>2, <4>1 DEF Refers
    <3>3. CASE looked'[q] = d
      BY <1>2, <2>2, <3>3 DEF Refers
    <3>4. CASE \E u \in Call : calls'[u].run = q /\ calls'[u].ctx = d
      <4>1. PICK u \in Call : calls'[u].run = q /\ calls'[u].ctx = d
        BY <3>4
      <4>2. CASE u = t
        BY <1>1, <2>1, <4>1, <4>2
      <4>3. CASE u # t
        <5>1. calls'[u] = calls[u]
          BY <1>2, <4>3 DEF Alone
        <5> QED
          BY <2>2, <4>1, <5>1 DEF Refers
      <4> QED
        BY <4>2, <4>3
    <3> QED
      BY <2>3, <3>2, <3>3, <3>4 DEF Refers
  <2>4. \A d \in Context : d # c => Runtime(d)' = Runtime(d)
    BY <1>4 DEF Only
  <2>5. RefersOnce'
    BY <2>3 DEF DevicesInv, RefersOnce
  <2>6. StoredOK'
    <3> SUFFICES ASSUME NEW q \in Run, NEW d \in Context, Refers(q, d)', Runtime(d)' # 0
                 PROVE  /\ <<q, Runtime(d)'>> \in devices'
                        /\ \A e \in Context : Refers(q, e)' /\ Runtime(e)' # 0 => e = d
      BY DEF StoredOK
    <3>1. d # c
      BY <1>4
    <3>2. Refers(q, d) /\ Runtime(d)' = Runtime(d)
      BY <2>3, <2>4, <3>1
    <3>3. ASSUME NEW e \in Context, Refers(q, e)', Runtime(e)' # 0
          PROVE  e = d
      <4>1. e # c
        BY <1>4, <3>3
      <4>2. Refers(q, e) /\ Runtime(e)' = Runtime(e)
        BY <2>3, <2>4, <3>3, <4>1
      <4> QED
        BY <3>2, <3>3, <4>2 DEF DevicesInv, StoredOK
    <3> QED
      BY <1>1, <3>2, <3>3 DEF DevicesInv, StoredOK
  <2>7. RecordersShrink
    BY <1>1, <1>2, StepRecorders DEF Recording
  <2>8. RecordingOK'
    <3> SUFFICES ASSUME NEW u \in Call, Recording(u)'
                 PROVE  /\ <<calls'[u].run, calls'[u].token>> \in devices'
                        /\ \A d \in Context : Refers(calls[u].run, d)' => Runtime(d)' = 0
                        /\ \A v \in Call : Recording(v)' /\ calls'[v].run = calls'[u].run => v = u
      BY DEF RecordingOK
    <3>1. Recording(u) /\ calls'[u].run = calls[u].run /\ calls'[u].token = calls[u].token
      BY <2>7 DEF RecordersShrink
    <3>2. <<calls'[u].run, calls'[u].token>> \in devices'
      BY <1>1, <3>1 DEF DevicesInv, RecordingOK
    <3>3. PICK q \in Run : q = calls[u].run
      BY <3>1 DEF DevicesInv, RecordingOK, OwnersTyped
    <3>4. ASSUME NEW d \in Context, Refers(q, d)'
          PROVE  Runtime(d)' = 0
      <4>1. CASE d = c
        BY <1>4, <4>1
      <4>2. CASE d # c
        <5>1. Refers(q, d) /\ Runtime(d)' = Runtime(d)
          BY <2>3, <2>4, <3>4, <4>2
        <5> QED
          BY <3>1, <3>3, <5>1 DEF DevicesInv, RecordingOK
      <4> QED
        BY <4>1, <4>2
    <3>5. \A v \in Call : Recording(v)' /\ calls'[v].run = calls'[u].run => v = u
      BY <2>7, <3>1 DEF RecordersShrink, DevicesInv, RecordingOK
    <3>6. \A d \in Context : Refers(calls[u].run, d)' => Runtime(d)' = 0
      BY <3>1, <3>3, <3>4
    <3> QED
      BY <3>2, <3>5, <3>6
  <2>9. OwnersApart' /\ OwnersTyped'
    BY <1>1 DEF DevicesInv, OwnersApart, OwnersTyped
  <2> QED
    BY <2>5, <2>6, <2>8, <2>9 DEF DevicesInv
<1> QED
  BY <1>1, <1>3, <1>4

\* A run that may acquire its instruments owns none.
LEMMA AcquirableOwnsNone ==
    ASSUME DevicesInv, NEW r \in Run, Acquirable(r)
    PROVE  /\ \A d \in devices : d[1] # r
           /\ \A c \in Context : Refers(r, c) => Runtime(c) = 0
           /\ \A u \in Call : Recording(u) => calls[u].run # r
<1>1. \A d \in devices : d[1] # r
  BY RunHardwareAssumption DEF Acquirable
<1>2. ASSUME NEW c \in Context, Refers(r, c)
      PROVE  Runtime(c) = 0
  <2> SUFFICES ASSUME Runtime(c) # 0 PROVE FALSE
    OBVIOUS
  <2>1. <<r, Runtime(c)>> \in devices
    BY <1>2 DEF DevicesInv, StoredOK
  <2> QED
    BY <1>1, <2>1
<1>3. \A u \in Call : Recording(u) => calls[u].run # r
  BY <1>1 DEF DevicesInv, RecordingOK
<1> QED
  BY <1>1, <1>2, <1>3

LEMMA ConnectDevices ==
    ASSUME RunInv, ShapeInv, DevicesInv, NEW t \in Call, Connect(t)
    PROVE  DevicesInv'
<1>1. /\ ShapeMove(t) /\ SameMemory
      /\ \/ /\ Acquirable(calls[t].run) /\ Goes(t, "record")
            /\ devices' = devices \cup {<<calls[t].run, calls[t].token>>}
            /\ table' = table
         \/ Returns(t) /\ UNCHANGED <<table, devices>>
         \/ /\ Returns(t) /\ devices' = devices
            /\ table' = PopUnused(calls[t].run, calls[t].ctx)
         \/ Goes(t, "mark") /\ UNCHANGED <<table, devices>>
  BY ConnectFacts
<1>2. Alone(t) /\ looked' = looked /\ \A c \in Context : Runtime(c)' = Runtime(c)
  BY <1>1 DEF Connect, ShapeMove, SameMemory
<1>3. CASE \/ Returns(t) /\ UNCHANGED <<table, devices>>
           \/ Returns(t) /\ devices' = devices /\ table' = PopUnused(calls[t].run, calls[t].ctx)
           \/ Goes(t, "mark") /\ UNCHANGED <<table, devices>>
  <2>1. \A q \in Run : table'[q] \in {table[q], None}
    BY <1>3, TableShrinks
  <2> QED
    BY <1>2, <1>3, <2>1, QuietRequest DEF Goes
<1>4. CASE /\ Acquirable(calls[t].run) /\ Goes(t, "record") /\ table' = table
           /\ devices' = devices \cup {<<calls[t].run, calls[t].token>>}
  <2>1. PICK r \in Run : r = calls[t].run /\ calls[t].token \in Nat \ {0}
    BY UnderWay, CountType DEF Connect, At
  <2>2. /\ \A d \in devices : d[1] # r
        /\ \A c \in Context : Refers(r, c) => Runtime(c) = 0
        /\ \A u \in Call : Recording(u) => calls[u].run # r
    BY <1>4, <2>1, AcquirableOwnsNone
  <2>3. RefsShrink
    BY <1>2, <1>4, StepRefs DEF Goes
  <2>4. \A u \in Call : u # t => (Recording(u)' => Recording(u) /\ calls'[u] = calls[u])
    BY <1>2 DEF Alone, Recording
  <2>5. calls'[t].run = r /\ calls'[t].token = calls[t].token
    BY <1>4, <2>1 DEF Goes
  <2>6. RefersOnce'
    BY <2>3 DEF DevicesInv, RefersOnce, RefsShrink
  <2>7. StoredOK'
    <3> SUFFICES ASSUME NEW q \in Run, NEW d \in Context, Refers(q, d)', Runtime(d)' # 0
                 PROVE  /\ <<q, Runtime(d)'>> \in devices'
                        /\ \A e \in Context : Refers(q, e)' /\ Runtime(e)' # 0 => e = d
      BY DEF StoredOK
    <3>1. Refers(q, d) /\ Runtime(d)' = Runtime(d)
      BY <1>2, <2>3 DEF RefsShrink
    <3>2. \A e \in Context : Refers(q, e)' => Refers(q, e)
      BY <2>3 DEF RefsShrink
    <3>3. <<q, Runtime(d)>> \in devices
          /\ \A e \in Context : Refers(q, e) /\ Runtime(e) # 0 => e = d
      BY <3>1 DEF DevicesInv, StoredOK
    <3> QED
      BY <1>2, <1>4, <3>1, <3>2, <3>3
  <2>8. RecordingOK'
    <3> SUFFICES ASSUME NEW u \in Call, Recording(u)'
                 PROVE  /\ <<calls'[u].run, calls'[u].token>> \in devices'
                        /\ \A d \in Context : Refers(calls[u].run, d)' => Runtime(d)' = 0
                        /\ \A v \in Call : Recording(v)' /\ calls'[v].run = calls'[u].run => v = u
      BY DEF RecordingOK
    <3>1. CASE u = t
      <4>1. <<calls'[u].run, calls'[u].token>> \in devices'
        BY <1>4, <2>1, <2>5, <3>1
      <4>2. \A d \in Context : Refers(r, d)' => Runtime(d)' = 0
        BY <1>2, <2>2, <2>3 DEF RefsShrink
      <4>3. \A v \in Call : Recording(v)' /\ calls'[v].run = r => v = u
        BY <2>2, <2>4, <3>1
      <4> QED
        BY <2>5, <3>1, <4>1, <4>2, <4>3
    <3>2. CASE u # t
      <4>1. Recording(u) /\ calls'[u] = calls[u]
        BY <2>4, <3>2
      <4>2. PICK q \in Run : q = calls[u].run
        BY <4>1 DEF DevicesInv, RecordingOK, OwnersTyped
      <4>3. <<calls'[u].run, calls'[u].token>> \in devices'
        BY <1>4, <4>1 DEF DevicesInv, RecordingOK
      <4>4. \A d \in Context : Refers(q, d)' => Runtime(d)' = 0
        BY <1>2, <2>3, <4>1, <4>2 DEF RefsShrink, DevicesInv, RecordingOK
      <4>5. \A v \in Call : Recording(v)' /\ calls'[v].run = q => v = u
        <5> SUFFICES ASSUME NEW v \in Call, Recording(v)', calls'[v].run = q
                     PROVE  v = u
          OBVIOUS
        <5>1. v # t
          BY <2>2, <2>5, <4>1, <4>2
        <5> QED
          BY <2>4, <4>1, <4>2, <5>1 DEF DevicesInv, RecordingOK
      <4> QED
        BY <4>1, <4>2, <4>3, <4>4, <4>5
    <3> QED
      BY <3>1, <3>2
  <2>9. OwnersApart'
    <3>1. \A d \in devices : Needs[d[1]] \cap Needs[r] = {}
      BY <1>4, <2>1 DEF Acquirable
    <3> QED
      BY <1>4, <2>1, <3>1 DEF DevicesInv, OwnersApart
  <2>10. OwnersTyped'
    BY <1>4, <2>1 DEF DevicesInv, OwnersTyped
  <2> QED
    BY <2>6, <2>7, <2>8, <2>9, <2>10 DEF DevicesInv
<1> QED
  BY <1>1, <1>3, <1>4

LEMMA StoreDevices ==
    ASSUME RunInv, ShapeInv, DevicesInv, NEW t \in Call, StoreProvision(t)
    PROVE  DevicesInv'
<1>1. PICK c \in Context :
              /\ c = calls[t].ctx
              /\ ShapeMove(t) /\ Returns(t) /\ table' = table
              /\ \A d \in Context : Final(d)' = Final(d)
              /\ \/ /\ table[calls[t].run] = c /\ devices' = devices
                    /\ Runtime(c)' = calls[t].token /\ Only(c)
                 \/ /\ table[calls[t].run] # c /\ devices' = Without(t)
                    /\ SameMemory
  BY StoreFacts
<1>2. Alone(t) /\ looked' = looked /\ Recording(t)
  BY <1>1 DEF StoreProvision, ShapeMove, Recording, At
<1>3. CASE table[calls[t].run] # c /\ devices' = Without(t) /\ SameMemory
  BY <1>1, <1>2, <1>3, RecorderLetsGo
<1>4. CASE /\ table[calls[t].run] = c /\ devices' = devices
           /\ Runtime(c)' = calls[t].token /\ Only(c)
  <2>1. PICK r \in Run : r = calls[t].run /\ calls[t].token \in Nat \ {0}
    BY <1>2 DEF DevicesInv, RecordingOK, OwnersTyped
  <2>2. RefsShrink
    BY <1>1, <1>2, StepRefs
  <2>3. RecordersShrink /\ ~Recording(t)'
    <3>1. ~Recording(t)'
      BY <1>1, IdleType DEF Returns, Recording
    <3> QED
      BY <1>2, <3>1, StepRecorders
  <2>4. Refers(r, c) /\ <<r, calls[t].token>> \in devices
        /\ \A d \in Context : Refers(r, d) => Runtime(d) = 0
    BY <1>2, <1>4, <2>1 DEF DevicesInv, RecordingOK, Refers
  <2>5. RefersOnce'
    BY <2>2 DEF DevicesInv, RefersOnce, RefsShrink
  <2>6. StoredOK'
    <3> SUFFICES ASSUME NEW q \in Run, NEW d \in Context, Refers(q, d)', Runtime(d)' # 0
                 PROVE  /\ <<q, Runtime(d)'>> \in devices'
                        /\ \A e \in Context : Refers(q, e)' /\ Runtime(e)' # 0 => e = d
      BY DEF StoredOK
    <3>1. \A e \in Context : Refers(q, e)' => Refers(q, e)
      BY <2>2 DEF RefsShrink
    <3>2. \A e \in Context : e # c => Runtime(e)' = Runtime(e)
      BY <1>4 DEF Only
    <3>3. CASE q = r
      <4>1. \A e \in Context : Refers(r, e) /\ Runtime(e)' # 0 => e = c
        BY <2>4, <3>2
      <4> QED
        BY <1>4, <2>4, <3>1, <3>3, <4>1
    <3>4. CASE q # r
      <4>1. \A e \in Context : Refers(q, e) => e # c
        BY <2>4, <3>4 DEF DevicesInv, RefersOnce
      <4>2. Refers(q, d) /\ Runtime(d)' = Runtime(d)
        BY <3>1, <3>2, <4>1
      <4>3. <<q, Runtime(d)>> \in devices
            /\ \A e \in Context : Refers(q, e) /\ Runtime(e) # 0 => e = d
        BY <4>2 DEF DevicesInv, StoredOK
      <4> QED
        BY <1>4, <3>1, <3>2, <4>1, <4>2, <4>3
    <3> QED
      BY <3>3, <3>4
  <2>7. RecordingOK'
    <3> SUFFICES ASSUME NEW u \in Call, Recording(u)'
                 PROVE  /\ <<calls'[u].run, calls'[u].token>> \in devices'
                        /\ \A d \in Context : Refers(calls[u].run, d)' => Runtime(d)' = 0
                        /\ \A v \in Call : Recording(v)' /\ calls'[v].run = calls'[u].run => v = u
      BY DEF RecordingOK
    <3>1. /\ Recording(u) /\ u # t
          /\ calls'[u].run = calls[u].run /\ calls'[u].token = calls[u].token
      BY <2>3 DEF RecordersShrink
    <3>2. PICK q \in Run : q = calls[u].run
      BY <3>1 DEF DevicesInv, RecordingOK, OwnersTyped
    <3>3. q # r
      BY <1>2, <2>1, <3>1, <3>2 DEF DevicesInv, RecordingOK
    <3>4. <<calls'[u].run, calls'[u].token>> \in devices'
      BY <1>4, <3>1 DEF DevicesInv, RecordingOK
    <3>5. ASSUME NEW d \in Context, Refers(q, d)'
          PROVE  Runtime(d)' = 0
      <4>1. Refers(q, d)
        BY <2>2, <3>5 DEF RefsShrink
      <4>2. d # c
        BY <2>4, <3>3, <4>1 DEF DevicesInv, RefersOnce
      <4>3. Runtime(d)' = Runtime(d)
        BY <1>4, <4>2 DEF Only
      <4> QED
        BY <3>1, <3>2, <4>1, <4>3 DEF DevicesInv, RecordingOK
    <3>6. \A v \in Call : Recording(v)' /\ calls'[v].run = calls'[u].run => v = u
      BY <2>3, <3>1 DEF RecordersShrink, DevicesInv, RecordingOK
    <3> QED
      BY <3>1, <3>2, <3>4, <3>5, <3>6
  <2>8. OwnersApart' /\ OwnersTyped'
    BY <1>4 DEF DevicesInv, OwnersApart, OwnersTyped
  <2> QED
    BY <2>5, <2>6, <2>7, <2>8 DEF DevicesInv
<1> QED
  BY <1>1, <1>3, <1>4

LEMMA HardwareDevices ==
    ASSUME RunInv, ShapeInv, DevicesInv, NEW t \in Call, Hardware(t)
    PROVE  DevicesInv'
<1>1. looked' = looked
  BY HardwareQuiet
<1>2. CASE CreateContext(t) \/ Connect(t) \/ StoreProvision(t)
  BY <1>2, CreateDevices, ConnectDevices, StoreDevices
<1>3. CASE EnterProvision(t)
  <2>1. /\ ShapeMove(t) /\ devices' = devices
        /\ \/ /\ Goes(t, "connect") /\ table' = table
              /\ \A c \in Context : Runtime(c)' = Runtime(c) /\ Final(c)' = Final(c)
           \/ /\ Returns(t) /\ SameMemory
              /\ table' \in {table, PopUnused(calls[t].run, calls[t].ctx)}
    BY <1>3, EnterProvisionFacts
  <2>2. \A q \in Run : table'[q] \in {table[q], None}
    BY <2>1, TableShrinks
  <2>3. Alone(t) /\ \A c \in Context : Runtime(c)' = Runtime(c)
    BY <2>1 DEF ShapeMove, SameMemory
  <2> QED
    BY <1>1, <2>1, <2>2, <2>3, QuietRequest DEF Goes
<1>4. CASE RecordProvision(t)
  <2>1. /\ ShapeMove(t) /\ SameMemory /\ table' = table
        /\ \/ Goes(t, "store") /\ devices' = devices
           \/ Goes(t, "mark") /\ devices' = Without(t)
    BY <1>4, RecordFacts
  <2>2. Alone(t) /\ Recording(t)
    BY <1>4, <2>1 DEF ShapeMove, RecordProvision, Recording, At
  <2>3. CASE Goes(t, "store") /\ devices' = devices
    BY <1>1, <2>1, <2>2, <2>3, QuietRequest DEF Goes, SameMemory
  <2>4. CASE Goes(t, "mark") /\ devices' = Without(t)
    BY <1>1, <2>1, <2>2, <2>4, RecorderLetsGo DEF Goes
  <2> QED
    BY <2>1, <2>3, <2>4
<1>5. CASE LookToDiscard(t)
  <2>1. /\ ShapeMove(t) /\ SameMemory /\ UNCHANGED <<table, devices>>
        /\ \/ Returns(t)
           \/ /\ calls'[t].step = "pop" /\ calls'[t].ctx = table[calls[t].run]
              /\ calls'[t].run = calls[t].run
    BY <1>5, LookToDiscardFacts
  <2> QED
    BY <1>1, <2>1, QuietRequest DEF ShapeMove, SameMemory
<1>6. CASE Discard(t)
  <2>1. /\ ShapeMove(t) /\ Returns(t) /\ SameMemory /\ devices' = devices
        /\ table' = Popped(calls[t].run, calls[t].ctx)
    BY <1>6, DiscardFacts
  <2>2. \A q \in Run : table'[q] \in {table[q], None}
    BY <2>1, TableShrinks
  <2> QED
    BY <1>1, <2>1, <2>2, QuietRequest DEF ShapeMove, SameMemory
<1>7. CASE EnterBatch(t)
  <2>1. /\ ShapeMove(t) /\ SameMemory /\ UNCHANGED <<table, devices>>
        /\ Goes(t, "operate") \/ Returns(t)
    BY <1>7, EnterBatchFacts
  <2> QED
    BY <1>1, <2>1, QuietRequest DEF ShapeMove, SameMemory, Goes
<1>8. CASE EnterFinish(t)
  <2>1. /\ ShapeMove(t) /\ UNCHANGED <<table, devices>>
        /\ \A d \in Context : Runtime(d)' = Runtime(d)
        /\ Goes(t, "release") \/ Returns(t)
    BY <1>8, EnterFinishFacts
  <2> QED
    BY <1>1, <2>1, QuietRequest DEF ShapeMove, Goes
<1>9. CASE EnterTerminal(t)
  <2>1. /\ ShapeMove(t) /\ UNCHANGED <<table, devices>>
        /\ \A d \in Context : Runtime(d)' = Runtime(d)
        /\ Returns(t) \/ Goes(t, "commit") \/ Goes(t, "abort")
    BY <1>9, EnterTerminalFacts
  <2> QED
    BY <1>1, <2>1, QuietRequest DEF ShapeMove, Goes
<1>10. ASSUME NEW c \in Context, c = calls[t].ctx, ShapeMove(t), calls[t].step \in Driving,
              \/ /\ Returns(t) \/ Goes(t, "commit")
                 /\ table' = table /\ devices' = Without(t)
                 /\ Runtime(c)' = 0 /\ Only(c)
              \/ Loses(t, c)
       PROVE  DevicesInv'
  <2>1. /\ table' = table /\ devices' = Without(t) /\ Runtime(c)' = 0 /\ Only(c)
        /\ Returns(t) \/ Goes(t, "commit") \/ Goes(t, "mark")
    BY <1>10 DEF Loses
  <2>2. Alone(t)
    BY <1>10 DEF ShapeMove
  <2> QED
    BY <1>1, <1>10, <2>1, <2>2, DroveAndLetGo DEF Goes
<1>11. CASE EndBatch(t)
  <2>1. calls[t].step \in Driving
    BY <1>11 DEF EndBatch, At, Driving
  <2>2. /\ ShapeMove(t)
        /\ \/ Returns(t) /\ SameMemory /\ UNCHANGED <<table, devices>>
           \/ \E c \in Context : c = calls[t].ctx /\ Loses(t, c)
    BY <1>11, EndBatchFacts
  <2>3. CASE Returns(t) /\ SameMemory /\ UNCHANGED <<table, devices>>
    BY <1>1, <2>2, <2>3, QuietRequest DEF ShapeMove, SameMemory
  <2> QED
    BY <1>10, <2>1, <2>2, <2>3
<1>12. CASE EndFinish(t)
  <2>1. calls[t].step \in Driving
    BY <1>12 DEF EndFinish, At, Driving
  <2> QED
    BY <1>10, <1>12, <2>1, EndFinishFacts
<1>13. CASE EndAbort(t)
  <2>1. calls[t].step \in Driving
    BY <1>13 DEF EndAbort, At, Driving
  <2> QED
    BY <1>10, <1>13, <2>1, EndAbortFacts
<1> QED
  BY <1>2, <1>3, <1>4, <1>5, <1>6, <1>7, <1>8, <1>9, <1>11, <1>12, <1>13 DEF Hardware

\* A request that arrives finds its context in the table, or has none.
LEMMA ArriveFacts ==
    ASSUME ShapeInv, NEW t \in Call, Arrive(t)
    PROVE  \E r \in Run, k \in Nat :
              /\ k \in 1..Count(r)
              /\ At(t, "idle") /\ Serves(t, r, k)
              /\ calls'[t].run = r /\ calls'[t].token = k
              /\ \/ calls'[t].step = "admitted" /\ calls'[t].ctx = None /\ Live(r, k)
                 \/ /\ calls'[t].step \in {"batch", "finish", "terminal"}
                    /\ calls'[t].ctx = table[r] /\ table[r] # None
                 \/ /\ calls'[t].step = "commit" /\ calls'[t].ctx = None
                    /\ table[r] = None /\ Live(r, k)
                 \/ /\ calls'[t].step = "discard" /\ calls'[t].ctx = None
                    /\ runs[r].state = "closed"
<1>1. PICK r \in Run : \E k \in 1..Len(segments[r]) :
        \/ BeginProvision(t, r, k)
        \/ BeginOnContext(t, r, k, "batch")
        \/ BeginOnContext(t, r, k, "finish")
        \/ \E o \in Reported : BeginTerminal(t, r, k, o) \/ RepeatTerminal(t, r, k, o)
  BY DEF Arrive
<1>2. PICK k \in 1..Len(segments[r]) :
        \/ BeginProvision(t, r, k)
        \/ BeginOnContext(t, r, k, "batch")
        \/ BeginOnContext(t, r, k, "finish")
        \/ \E o \in Reported : BeginTerminal(t, r, k, o) \/ RepeatTerminal(t, r, k, o)
  BY <1>1
<1>3. k \in Nat /\ k \in 1..Count(r)
  BY DEF Count
<1>4. CASE BeginProvision(t, r, k)
  <2>1. calls'[t] = [step |-> "admitted", run |-> r, token |-> k, ctx |-> None,
                     outcome |-> None]
    BY <1>4, BeginFacts, ShapeFacts DEF BeginProvision
  <2> QED
    BY <1>3, <1>4, <2>1 DEF BeginProvision, Begin, Serves
<1>5. ASSUME NEW s \in {"batch", "finish"}, BeginOnContext(t, r, k, s)
      PROVE  /\ At(t, "idle") /\ Serves(t, r, k)
             /\ calls'[t].run = r /\ calls'[t].token = k /\ calls'[t].step = s
             /\ calls'[t].ctx = table[r] /\ table[r] # None
  <2>1. calls'[t] = [step |-> s, run |-> r, token |-> k, ctx |-> table[r], outcome |-> None]
    BY <1>5, BeginFacts, ShapeFacts DEF BeginOnContext
  <2> QED
    BY <1>5, <2>1 DEF BeginOnContext, Begin, Serves
<1>6. CASE BeginOnContext(t, r, k, "batch") \/ BeginOnContext(t, r, k, "finish")
  BY <1>3, <1>5, <1>6
<1>7. ASSUME NEW o \in Reported, BeginTerminal(t, r, k, o)
      PROVE  /\ At(t, "idle") /\ Serves(t, r, k)
             /\ calls'[t].run = r /\ calls'[t].token = k
             /\ calls'[t].step = (IF table[r] = None THEN "commit" ELSE "terminal")
             /\ calls'[t].ctx = table[r] /\ (table[r] = None => Live(r, k))
  <2>1. calls'[t] = [step |-> IF table[r] = None THEN "commit" ELSE "terminal",
                     run |-> r, token |-> k, ctx |-> table[r], outcome |-> o]
    BY <1>7, ShapeFacts DEF BeginTerminal
  <2> QED
    BY <1>7, <2>1 DEF BeginTerminal, Serves
<1>8. CASE \E o \in Reported : BeginTerminal(t, r, k, o)
  BY <1>3, <1>7, <1>8
<1>9. ASSUME NEW o \in Reported, RepeatTerminal(t, r, k, o)
      PROVE  /\ At(t, "idle") /\ Serves(t, r, k)
             /\ calls'[t].run = r /\ calls'[t].token = k /\ calls'[t].step = "discard"
             /\ calls'[t].ctx = None /\ runs[r].state = "closed"
  <2>1. calls'[t] = [step |-> "discard", run |-> r, token |-> k, ctx |-> None,
                     outcome |-> None]
    BY <1>9, BeginFacts, ShapeFacts DEF RepeatTerminal
  <2> QED
    BY <1>9, <2>1 DEF RepeatTerminal, AlreadyClosed, Begin, Serves
<1>10. CASE \E o \in Reported : RepeatTerminal(t, r, k, o)
  BY <1>3, <1>9, <1>10
<1> QED
  BY <1>2, <1>4, <1>6, <1>8, <1>10

LEMMA ArriveDevices ==
    ASSUME RunInv, ShapeInv, DevicesInv, NEW t \in Call, Arrive(t)
    PROVE  DevicesInv'
<1>1. UNCHANGED <<devices, looked, table, context>>
  BY ArriveQuiet
<1>2. PICK r \in Run, k \in Nat :
              /\ calls'[t].run = r
              /\ calls'[t].step \in {"admitted", "batch", "finish", "terminal", "commit", "discard"}
              /\ calls'[t].ctx \in {None, table[r]}
  BY ArriveFacts
<1>3. Alone(t)
  BY ArriveShape DEF ShapeMove
<1>4. RefsShrink
  <2>1. ASSUME NEW c \in Context, NEW q \in Run, calls'[t].run = q, calls'[t].ctx = c
        PROVE  Refers(q, c)
    BY <1>2, <2>1, NoneFacts DEF Refers
  <2> QED
    BY <1>1, <1>3, <2>1, CallRefs
<1>5. RecordersShrink
  <2>1. ~Recording(t)'
    BY <1>2 DEF Recording
  <2> QED
    BY <1>3, <2>1, StepRecorders
<1> QED
  BY <1>1, <1>4, <1>5, QuietDevices DEF Runtime

\* Steps that touch no request, context or device.
LEMMA StillDevices ==
    ASSUME DevicesInv, UNCHANGED <<table, context, devices, calls>>,
           \A r \in Run : looked'[r] \in {looked[r], table[r], None}
    PROVE  DevicesInv'
<1>1. RefsShrink
  BY NoneFacts DEF RefsShrink, Refers
<1>2. RecordersShrink
  BY DEF RecordersShrink, Recording
<1> QED
  BY <1>1, <1>2, QuietDevices DEF Runtime

LEMMA CleanUpDevices ==
    ASSUME RunInv, ShapeInv, DevicesInv, NEW r \in Run, CleanUp(r)
    PROVE  DevicesInv'
<1>1. PICK c \in Context :
              /\ c = looked[r] /\ Lock(c) = None
              /\ table' = Popped(r, c) /\ table' \in [Run -> Context \cup {None}]
              /\ context' \in [Context -> ContextRow]
              /\ \A d \in Context : Lock(d)' = Lock(d) /\ Final(d)' = Final(d)
              /\ \A d \in Context : d # c => context'[d] = context[d]
              /\ \/ table[r] = c /\ Runtime(c)' = 0 /\ devices' = devices \ {<<r, Runtime(c)>>}
                 \/ table[r] # c /\ context' = context /\ UNCHANGED <<table, devices>>
              /\ Only(c)
              /\ cleaning' = cleaning \ {r}
              /\ looked' = [looked EXCEPT ![r] = None]
              /\ UNCHANGED <<calls, attention>>
  BY CleanUpFacts
<1>2. RefsShrink
  <2>1. \A q \in Run : table'[q] \in {table[q], None}
    BY <1>1, TableShrinks
  <2>2. \A q \in Run : looked'[q] \in {looked[q], None}
    BY <1>1 DEF ShapeInv, HardwareTypeOK
  <2> QED
    BY <1>1, <2>1, <2>2, NoneFacts DEF RefsShrink, Refers
<1>3. RecordersShrink
  BY <1>1 DEF RecordersShrink, Recording
<1>4. CASE table[r] # c /\ context' = context /\ UNCHANGED <<table, devices>>
  BY <1>2, <1>3, <1>4, QuietDevices DEF Runtime
<1>5. CASE table[r] = c /\ Runtime(c)' = 0 /\ devices' = devices \ {<<r, Runtime(c)>>}
  <2>1. RuntimesShrink /\ \A d \in Context : d # c => Runtime(d)' = Runtime(d)
    BY <1>1, <1>5 DEF RuntimesShrink, Only
  <2>2. Refers(r, c)
    BY <1>5 DEF Refers
  <2>3. OwnedKept
    <3>1. ASSUME NEW q \in Run, NEW d \in Context, Refers(q, d)', Runtime(d)' # 0
          PROVE  <<q, Runtime(d)>> \in devices'
      <4>1. d # c /\ Runtime(d)' = Runtime(d) /\ Refers(q, d)
        BY <1>2, <1>5, <2>1, <3>1 DEF RefsShrink
      <4>2. <<q, Runtime(d)>> \in devices
        BY <3>1, <4>1 DEF DevicesInv, StoredOK
      <4>3. CASE Runtime(c) = 0
        BY <1>5, <3>1, <4>1, <4>2, <4>3
      <4>4. CASE Runtime(c) # 0
        <5>1. q # r
          BY <2>2, <3>1, <4>1, <4>4 DEF DevicesInv, StoredOK
        <5> QED
          BY <1>5, <4>2, <5>1
      <4> QED
        BY <4>3, <4>4
    <3>2. ASSUME NEW u \in Call, Recording(u)'
          PROVE  <<calls[u].run, calls[u].token>> \in devices'
      <4>1. Recording(u) /\ <<calls[u].run, calls[u].token>> \in devices
        BY <1>3, <3>2 DEF RecordersShrink, DevicesInv, RecordingOK
      <4>2. CASE calls[u].run = r
        <5>1. Runtime(c) = 0
          BY <2>2, <4>1, <4>2 DEF DevicesInv, RecordingOK
        <5>2. calls[u].token # 0
          BY <4>1 DEF DevicesInv, OwnersTyped
        <5> QED
          BY <1>5, <4>1, <5>1, <5>2
      <4>3. CASE calls[u].run # r
        BY <1>5, <4>1, <4>3
      <4> QED
        BY <4>2, <4>3
    <3> QED
      BY <3>1, <3>2 DEF OwnedKept
  <2>4. devices' \subseteq devices
    BY <1>5
  <2> QED
    BY <1>2, <1>3, <2>1, <2>3, <2>4, LetGoStep
<1> QED
  BY <1>1, <1>4, <1>5

LEMMA FreshDevices == HardwareInit => DevicesInv
<1> SUFFICES ASSUME HardwareInit PROVE DevicesInv
  OBVIOUS
<1>1. \A r \in Run : \A c \in Context : ~Refers(r, c)
  BY IdleType, NoneFacts DEF HardwareInit, Refers
<1>2. \A t \in Call : ~Recording(t)
  BY IdleType DEF HardwareInit, Recording
<1>3. devices = {}
  BY DEF HardwareInit
<1> QED
  BY <1>1, <1>2, <1>3
     DEF DevicesInv, RefersOnce, StoredOK, RecordingOK, OwnersApart, OwnersTyped

LEMMA DevicesInvStep ==
    ASSUME RunInv, ShapeInv, DevicesInv, [HardwareNext]_allVars
    PROVE  DevicesInv'
<1>1. CASE UNCHANGED allVars \/ OtherHandlers
  <2>1. UNCHANGED hardwareVars
    BY <1>1 DEF allVars, OtherHandlers
  <2> QED
    BY <2>1, StillDevices DEF hardwareVars
<1>2. ASSUME NEW t \in Call, Arrive(t) \/ Hardware(t)
      PROVE  DevicesInv'
  BY <1>2, ArriveDevices, HardwareDevices
<1>3. ASSUME HardwareNext, NEW t \in Call, MarkRunUnknown(t) \/ Commit(t)
      PROVE  DevicesInv'
  <2>1. CountsGrow
    BY <1>3, CountGrows, CountType DEF CountsGrow, ShapeInv
  <2>2. /\ ShapeMove(t) /\ SameMemory /\ UNCHANGED <<table, devices>>
        /\ Goes(t, "discard") \/ Returns(t)
    BY <1>3, <2>1, MarkFacts, CommitFacts
  <2>3. looked' = looked
    BY <1>3 DEF MarkRunUnknown, Commit
  <2> QED
    BY <2>2, <2>3, QuietRequest DEF ShapeMove, SameMemory, Goes
<1>4. CASE Attend
  <2>1. CASE ListExpired \/ FenceExpired \/ SupervisorDone \/ (\E r \in Run : BeginResolve(r) \/ EndResolve(r))
    <3>1. UNCHANGED <<table, context, devices, calls, looked>>
      BY <2>1 DEF ListExpired, FenceExpired, SupervisorDone, BeginResolve, EndResolve
    <3> QED
      BY <3>1, StillDevices
  <2>2. ASSUME NEW r \in Run, LookToClean(r)
        PROVE  DevicesInv'
    <3>1. UNCHANGED <<table, context, devices, calls>>
      BY <2>2 DEF LookToClean
    <3>2. \A q \in Run : looked'[q] \in {looked[q], table[q], None}
      BY <2>2 DEF LookToClean, ShapeInv, HardwareTypeOK
    <3> QED
      BY <3>1, <3>2, StillDevices
  <2> QED
    BY <1>4, <2>1, <2>2, CleanUpDevices DEF Attend, CleanupStep
<1>5. CASE RestartHardware
  <2>1. HardwareInit'
    BY <1>5 DEF RestartHardware, HardwareInit
  <2>2. (HardwareInit => DevicesInv)'
    BY FreshDevices, PTL
  <2> QED
    BY <2>1, <2>2
<1> QED
  BY <1>1, <1>2, <1>3, <1>4, <1>5, NextKinds

-----------------------------------------------------------------------------
(* Cleanup, and what it spares. *)

\* Whoever holds _attention_lock cleans up runs in attention only, and the list of
\* expired executors is the supervisor's.
CleaningInv ==
    /\ sweep # {} => attention = "supervisor" /\ cleaning = {}
    /\ \A r \in Run : looked[r] # None => r \in cleaning
    /\ \A r \in cleaning : runs[r].state = "attention_required"
                           /\ attention \in {r, "supervisor"}

HardwareInv == RunInv /\ ShapeInv /\ DevicesInv /\ CleaningInv

LEMMA OtherSweep ==
    ASSUME OtherHandlers
    PROVE  UNCHANGED <<sweep, runtime>>
<1>1. PICK p \in Run :
          \/ \E e \in Executor : StartExecution(p, e) \/ RetryStart(p, e)
          \/ RejectBusy(p) \/ RequireReconfirmation(p)
          \/ \E k \in 1..Len(segments[p]) :
                \/ ReadHeartbeatClock(p, k) \/ RenewLease(p, k)
                \/ \E n \in 1..PointCount : AdvanceCoverage(p, k, n)
          \/ Admit(p) \/ CancelRun(p) \/ CancelWaitingChild(p)
          \/ LapseLease(p)
  BY DEF OtherHandlers
<1>2. CASE \E e \in Executor : StartExecution(p, e) \/ RetryStart(p, e)
  BY <1>2 DEF StartExecution, RetryStart
<1>3. CASE RejectBusy(p) \/ RequireReconfirmation(p) \/ Admit(p) \/ LapseLease(p)
  BY <1>3 DEF RejectBusy, RequireReconfirmation, Admit, LapseLease
<1>4. CASE \E k \in 1..Len(segments[p]) :
                \/ ReadHeartbeatClock(p, k) \/ RenewLease(p, k)
                \/ \E n \in 1..PointCount : AdvanceCoverage(p, k, n)
  BY <1>4 DEF ReadHeartbeatClock, RenewLease, AdvanceCoverage
<1>5. CASE CancelRun(p) \/ CancelWaitingChild(p)
  BY <1>5 DEF CancelRun, CancelWaitingChild, CancelQueued
<1> QED
  BY <1>1, <1>2, <1>3, <1>4, <1>5

\* Steps that leave the lock of the attention and its holder's work alone.
LEMMA CleaningStays ==
    ASSUME CleaningInv, ShapeInv, UNCHANGED <<sweep, attention, cleaning, looked>>,
           \A r \in Run : StaysInAttention(r)
    PROVE  CleaningInv'
BY DEF CleaningInv, StaysInAttention, ShapeInv, HardwareTypeOK

LEMMA RequestMoves ==
    ASSUME RunInv, ShapeInv, NEW t \in Call, MarkRunUnknown(t) \/ Commit(t)
    PROVE  /\ \A r \in Run : StaysInAttention(r)
           /\ UNCHANGED <<sweep, runtime, attention, cleaning, looked>>
<1>1. CallKnown(t)
  BY ShapeFacts
<1>2. UNCHANGED runVars => /\ \A r \in Run : StaysInAttention(r)
                           /\ UNCHANGED <<sweep, runtime>>
  BY DEF runVars, runOnlyVars, StaysInAttention
<1>3. UNCHANGED <<attention, cleaning, looked>>
  BY DEF MarkRunUnknown, Commit
<1>4. CASE MarkRunUnknown(t)
  <2>1. PICK p \in Run, k \in Nat : MarkExecutorUnknown(p, k) \/ UNCHANGED runVars
    BY <1>1, <1>4, CountType DEF MarkRunUnknown, CallKnown, At
  <2>2. ASSUME MarkExecutorUnknown(p, k), NEW r \in Run
        PROVE  StaysInAttention(r)
    <3>1. LoseExecutors({p}, "executor_unknown") /\ leases[p] # NoLease
      BY <2>2, NoLeaseFields DEF MarkExecutorUnknown, ExpireOne
    <3>2. {p} \in SUBSET Run /\ \A q \in {p} : q \in Run /\ leases[q] # NoLease
      BY <3>1
    <3> QED
      BY <3>1, <3>2, LossMoves
  <2> QED
    BY <1>2, <1>3, <2>1, <2>2 DEF MarkExecutorUnknown
<1>5. CASE Commit(t)
  <2>1. calls[t].run \in Run
    BY <1>1, <1>5 DEF Commit, CallKnown, At
  <2>2. CommitTerminal(calls[t].run, calls[t].token, calls[t].outcome) \/ UNCHANGED runVars
    BY <1>5 DEF Commit
  <2>3. CASE CommitTerminal(calls[t].run, calls[t].token, calls[t].outcome)
    <3>1. \A r \in Run : StaysInAttention(r)
      BY <2>1, <2>3, CommitMoves
    <3> QED
      BY <1>3, <2>3, <3>1 DEF CommitTerminal
  <2> QED
    BY <1>2, <1>3, <2>2, <2>3
<1> QED
  BY <1>4, <1>5

LEMMA CleaningInvStep ==
    ASSUME HardwareInv, [HardwareNext]_allVars
    PROVE  CleaningInv'
<1> USE DEF HardwareInv
<1>1. CASE UNCHANGED allVars
  BY <1>1 DEF allVars, hardwareVars, runVars, runOnlyVars, CleaningInv
<1>2. CASE OtherHandlers
  <2>1. \A r \in Run : StaysInAttention(r)
    BY <1>2, OtherMoves
  <2> QED
    BY <1>2, <2>1, OtherSweep, CleaningStays DEF OtherHandlers, hardwareVars
<1>3. ASSUME NEW t \in Call, Arrive(t) \/ Hardware(t)
      PROVE  CleaningInv'
  <2>1. UNCHANGED <<runVars, attention, cleaning, looked>>
    BY <1>3, ArriveQuiet, HardwareQuiet
  <2> QED
    BY <2>1, CleaningStays DEF runVars, runOnlyVars, StaysInAttention
<1>4. ASSUME NEW t \in Call, MarkRunUnknown(t) \/ Commit(t)
      PROVE  CleaningInv'
  BY <1>4, RequestMoves, CleaningStays
<1>5. CASE Attend
  <2>1. attention = None => cleaning = {} /\ sweep = {}
    <3>1. None # "supervisor" /\ \A r \in Run : r # None
      BY RunHardwareAssumption
    <3> QED
      BY <3>1 DEF CleaningInv, ShapeInv, HardwareTypeOK
  <2>2. CASE ListExpired
    <3>1. cleaning' = {} /\ attention' = "supervisor" /\ UNCHANGED <<looked, cleaning>>
      BY <2>1, <2>2 DEF ListExpired
    <3> QED
      BY <3>1 DEF CleaningInv
  <2>3. CASE FenceExpired
    <3>1. PICK S \in SUBSET Run :
              /\ LoseExecutors(S, "executor_lease_expired")
              /\ \A p \in S : p \in Run /\ leases[p] # NoLease
              /\ cleaning' = S
      BY <2>3, FenceLoses
    <3>2. \A r \in S : runs'[r].state = "attention_required"
      BY <3>1, LossMoves
    <3>3. sweep # {} /\ sweep' = {} /\ attention' = "supervisor" /\ looked' = looked
      BY <2>3 DEF FenceExpired, ExpireLeases
    <3>4. \A r \in Run : looked'[r] = None
      BY <3>3 DEF CleaningInv
    <3> QED
      BY <3>1, <3>2, <3>3, <3>4 DEF CleaningInv
  <2>4. CASE SupervisorDone
    BY <2>4 DEF SupervisorDone, CleaningInv, runVars, runOnlyVars
  <2>5. ASSUME NEW p \in Run, BeginResolve(p)
        PROVE  CleaningInv'
    <3>1. /\ sweep' = {} /\ attention' = p /\ runs' = runs /\ looked' = looked
          /\ cleaning' = IF runs[p].state = "attention_required" THEN {p} ELSE {}
      BY <2>1, <2>5 DEF BeginResolve, runVars, runOnlyVars
    <3>2. \A r \in Run : looked[r] = None
      BY <2>1, <2>5 DEF BeginResolve, CleaningInv
    <3> QED
      BY <3>1, <3>2 DEF CleaningInv
  <2>6. ASSUME NEW p \in Run, EndResolve(p)
        PROVE  CleaningInv'
    <3>1. sweep = {}
      BY <2>6, RunHardwareAssumption DEF EndResolve, CleaningInv
    <3>2. sweep' = sweep /\ cleaning' = {} /\ looked' = looked
      <4>1. UNCHANGED <<cleaning, looked>> /\ cleaning = {}
        BY <2>6 DEF EndResolve
      <4>2. CASE ContinueRun(p) \/ (\E key \in Key : ReconfirmLine(p, key)) \/ CloseAttention(p)
        BY <4>1, <4>2 DEF ContinueRun, ReconfirmLine, CloseAttention
      <4>3. CASE UNCHANGED runVars
        BY <4>1, <4>3 DEF runVars, runOnlyVars
      <4> QED
        BY <2>6, <4>2, <4>3 DEF EndResolve
    <3>3. cleaning = {}
      BY <2>6 DEF EndResolve
    <3> QED
      BY <3>1, <3>2, <3>3 DEF CleaningInv
  <2>7. ASSUME NEW p \in Run, LookToClean(p)
        PROVE  CleaningInv'
    <3>1. /\ UNCHANGED <<sweep, runs, attention>>
          /\ p \in cleaning /\ \A q \in Run : looked[q] = None
          /\ \/ cleaning' = cleaning \ {p} /\ looked' = looked
             \/ looked' = [looked EXCEPT ![p] = table[p]] /\ cleaning' = cleaning
      BY <2>7 DEF LookToClean, runVars, runOnlyVars
    <3>2. sweep = {}
      BY <3>1 DEF CleaningInv
    <3> QED
      BY <3>1, <3>2 DEF CleaningInv, ShapeInv, HardwareTypeOK
  <2>8. ASSUME NEW p \in Run, CleanUp(p)
        PROVE  CleaningInv'
    <3>1. /\ UNCHANGED <<sweep, runs, attention>> /\ looked[p] # None
          /\ cleaning' = cleaning \ {p} /\ looked' = [looked EXCEPT ![p] = None]
      BY <2>8 DEF CleanUp, runVars, runOnlyVars
    <3>2. sweep = {}
      BY <3>1 DEF CleaningInv
    <3>3. \A r \in Run : looked'[r] # None => r # p /\ looked[r] # None
      BY <3>1 DEF ShapeInv, HardwareTypeOK
    <3> QED
      BY <3>1, <3>2, <3>3 DEF CleaningInv
  <2> QED
    BY <1>5, <2>2, <2>3, <2>4, <2>5, <2>6, <2>7, <2>8 DEF Attend, CleanupStep
<1>6. CASE RestartHardware
  BY <1>6 DEF RestartHardware, RestartRuns, RestartRunRows, CleaningInv
<1> QED
  BY <1>1, <1>2, <1>3, <1>4, <1>5, <1>6, NextKinds

LEMMA HardwareInvInit ==
    ASSUME RunInit, HardwareInit
    PROVE  HardwareInv
<1>1. CleaningInv
  BY DEF RunInit, HardwareInit, CleaningInv
<1> QED
  BY <1>1, RunInitInv, FreshShape, FreshDevices DEF HardwareInv

LEMMA RunInvKept ==
    ASSUME RunInv, ShapeInv, [HardwareNext]_allVars
    PROVE  RunInv' /\ [RunNext]_runVars
<1>1. \A t \in Call : CallKnown(t)
  BY DEF ShapeInv
<1>2. [RunNext]_runVars
  BY <1>1, HardwareIsRunStep
<1>3. CASE RunNext
  BY <1>2, <1>3, RunInvStep
<1>4. CASE UNCHANGED runVars
  BY <1>2, <1>4, QuietStep DEF runVars, runOnlyVars, RunInv, RunTypeOK, ClaimsTypeOK
<1> QED
  BY <1>2, <1>3, <1>4

LEMMA HardwareInvStep ==
    ASSUME HardwareInv, [HardwareNext]_allVars
    PROVE  HardwareInv'
<1>1. RunInv' /\ ShapeInv' /\ DevicesInv'
  BY RunInvKept, ShapeInvStep, DevicesInvStep DEF HardwareInv
<1> QED
  BY <1>1, CleaningInvStep DEF HardwareInv

\* The invariant of the run hardware: types, what a request inside a context's lock
\* relies on, who owns devices, and whom the holder of _attention_lock cleans up.
THEOREM HardwareInvariant == HardwareSpec => []HardwareInv
<1>1. RunInit /\ HardwareInit => HardwareInv
  BY HardwareInvInit
<1>2. HardwareInv /\ [HardwareNext]_allVars => HardwareInv'
  BY HardwareInvStep
<1> QED
  BY <1>1, <1>2, PTL DEF HardwareSpec

\* Types of the tables and objects in the daemon's memory; whoever holds the lock of a
\* RunContext is under way.
THEOREM HardwareTypeCorrect == HardwareSpec => []HardwareTypeOK
<1>1. HardwareInv => HardwareTypeOK
  BY DEF HardwareInv, ShapeInv
<1> QED
  BY <1>1, HardwareInvariant, PTL

\* Every step of the handlers is a transaction of RunControl or leaves its rows alone:
\* what is proved of run scheduling holds with the devices as well.
THEOREM HardwareImplementsRuns == HardwareSpec => RunSpec
<1>1. HardwareInv /\ [HardwareNext]_allVars => [RunNext]_runVars
  BY RunInvKept DEF HardwareInv
<1> QED
  BY <1>1, HardwareInvariant, PTL DEF HardwareSpec, RunSpec

\* What the table says a run may use is owned by it: fault, finish, abort and cleanup
\* forget the devices they let go of, under the same lock (runtime.py).
THEOREM StoredIsOwnedHolds == HardwareSpec => []StoredIsOwned
<1>1. ASSUME HardwareInv, NEW r \in Run, table[r] # None, context[table[r]].runtime # 0
      PROVE  <<r, context[table[r]].runtime>> \in devices
  <2>1. PICK c \in Context : c = table[r]
    BY <1>1 DEF HardwareInv, ShapeInv, HardwareTypeOK
  <2>2. Refers(r, c) /\ Runtime(c) # 0
    BY <1>1, <2>1 DEF Refers, Runtime
  <2>3. <<r, Runtime(c)>> \in devices
    BY <1>1, <2>2 DEF HardwareInv, DevicesInv, StoredOK
  <2> QED
    BY <2>1, <2>3 DEF Runtime
<1>2. HardwareInv => StoredIsOwned
  BY <1>1 DEF StoredIsOwned
<1> QED
  BY <1>2, HardwareInvariant, PTL

\* A call that drives hardware drives owned hardware, and no two calls drive devices
\* of the same instruments, whichever contexts they hold and however the requests of
\* one executor overlap.
THEOREM OneDriverHolds == HardwareSpec => []OneDriver
<1>1. ASSUME HardwareInv, NEW t \in Drivers
      PROVE  \E c \in Context :
                /\ t \in Call /\ c = calls[t].ctx /\ Lock(c) = t /\ Runtime(c) # 0
                /\ calls[t].run \in Run /\ Refers(calls[t].run, c)
                /\ <<calls[t].run, Runtime(c)>> \in devices
  <2>1. t \in Call /\ calls[t].step \in Driving
    BY DEF Drivers, Driving
  <2>2. PICK c \in Context : c = calls[t].ctx
    BY <1>1, <2>1, ShapeFacts DEF HardwareInv, CallKnown, OnContext, Driving
  <2>3. Lock(c) = t /\ Runtime(c) # 0 /\ calls[t].run \in Run
    BY <1>1, <2>1, <2>2, UnderWay DEF HardwareInv, At, Driving, Locking
  <2>4. Refers(calls[t].run, c)
    BY <2>1, <2>2 DEF Refers
  <2>5. <<calls[t].run, Runtime(c)>> \in devices
    BY <1>1, <2>3, <2>4 DEF HardwareInv, DevicesInv, StoredOK
  <2> QED
    BY <2>1, <2>2, <2>3, <2>4, <2>5
<1>2. ASSUME HardwareInv, NEW t \in Drivers, NEW u \in Drivers \ {t}
      PROVE  Needs[calls[u].run] \cap Needs[calls[t].run] = {}
  <2>1. PICK c \in Context :
                /\ t \in Call /\ c = calls[t].ctx /\ Lock(c) = t /\ Runtime(c) # 0
                /\ calls[t].run \in Run /\ Refers(calls[t].run, c)
                /\ <<calls[t].run, Runtime(c)>> \in devices
    BY <1>1, <1>2
  <2>2. PICK d \in Context :
                /\ u \in Call /\ d = calls[u].ctx /\ Lock(d) = u /\ Runtime(d) # 0
                /\ calls[u].run \in Run /\ Refers(calls[u].run, d)
                /\ <<calls[u].run, Runtime(d)>> \in devices
    BY <1>1, <1>2
  <2>3. c # d
    BY <2>1, <2>2
  <2>4. calls[t].run # calls[u].run
    BY <1>2, <2>1, <2>2, <2>3 DEF HardwareInv, DevicesInv, StoredOK
  <2>5. <<calls[u].run, Runtime(d)>> # <<calls[t].run, Runtime(c)>>
    BY <2>4
  <2> DEFINE du == <<calls[u].run, Runtime(d)>>
             dt == <<calls[t].run, Runtime(c)>>
  <2>6. du \in devices /\ dt \in devices /\ du # dt
    BY <2>1, <2>2, <2>5
  <2>7. Needs[du[1]] \cap Needs[dt[1]] = {}
    BY <1>2, <2>6 DEF HardwareInv, DevicesInv, OwnersApart
  <2> QED
    BY <2>7
<1>3. ASSUME HardwareInv, NEW t \in Drivers
      PROVE  <<calls[t].run, context[calls[t].ctx].runtime>> \in devices
  <2>1. PICK c \in Context : c = calls[t].ctx /\ <<calls[t].run, Runtime(c)>> \in devices
    BY <1>1, <1>3
  <2> QED
    BY <2>1 DEF Runtime
<1>4. HardwareInv => OneDriver
  BY <1>2, <1>3 DEF OneDriver
<1> QED
  BY <1>4, HardwareInvariant, PTL

\* A request lets devices of its own token go, or none.
LEMMA RequestLetsGo ==
    ASSUME RunInv, ShapeInv, NEW t \in Call, Hardware(t)
    PROVE  devices \subseteq devices' \/ (devices' = Without(t) /\ calls'[t] # calls[t])
<1>1. Idle.step = "idle"
  BY IdleType
<1>2. CASE CreateContext(t) \/ EnterProvision(t) \/ Connect(t) \/ LookToDiscard(t) \/ Discard(t)
  BY <1>2 DEF CreateContext, EnterProvision, Connect, LookToDiscard, Discard
<1>3. CASE EnterBatch(t) \/ EnterFinish(t) \/ EnterTerminal(t)
  BY <1>3 DEF EnterBatch, EnterFinish, EnterTerminal
<1>4. CASE RecordProvision(t)
  <2>1. calls[t].step = "record"
    BY <1>4 DEF RecordProvision, At
  <2>2. devices' = devices \/ (Goes(t, "mark") /\ devices' = Without(t))
    BY <1>4, RecordFacts
  <2> QED
    BY <2>1, <2>2 DEF Goes
<1>5. CASE StoreProvision(t)
  <2>1. calls[t].step = "store" /\ Returns(t) /\ devices' \in {devices, Without(t)}
    BY <1>5, StoreFacts DEF StoreProvision, At
  <2> QED
    BY <1>1, <2>1 DEF Returns
<1>6. ASSUME NEW c \in Context, calls[t].step \in Driving,
             \/ /\ Returns(t) \/ Goes(t, "commit")
                /\ devices' = Without(t)
             \/ Loses(t, c)
      PROVE  devices' = Without(t) /\ calls'[t] # calls[t]
  BY <1>1, <1>6 DEF Loses, Returns, Goes, Driving
<1>7. CASE EndBatch(t)
  <2>1. calls[t].step \in Driving
    BY <1>7 DEF EndBatch, At, Driving
  <2>2. devices' = devices \/ \E c \in Context : Loses(t, c)
    BY <1>7, EndBatchFacts
  <2> QED
    BY <1>6, <2>1, <2>2
<1>8. CASE EndFinish(t)
  <2>1. calls[t].step \in Driving
    BY <1>8 DEF EndFinish, At, Driving
  <2> QED
    BY <1>6, <1>8, <2>1, EndFinishFacts
<1>9. CASE EndAbort(t)
  <2>1. calls[t].step \in Driving
    BY <1>9 DEF EndAbort, At, Driving
  <2> QED
    BY <1>6, <1>9, <2>1, EndAbortFacts
<1> QED
  BY <1>2, <1>3, <1>4, <1>5, <1>7, <1>8, <1>9 DEF Hardware

\* Cleanup lets go of devices whose run has no lease.
LEMMA CleanUpSpares ==
    ASSUME HardwareInv, NEW r \in Run, CleanUp(r), NEW d \in devices \ devices'
    PROVE  leases[d[1]].segment # d[2]
<1>1. looked[r] # None /\ (devices' = devices
        \/ devices' = devices \ {<<r, context[looked[r]].runtime>>})
  BY DEF CleanUp
<1>2. d = <<r, context[looked[r]].runtime>>
  BY <1>1
<1>3. runs[r].state = "attention_required"
  BY <1>1 DEF HardwareInv, CleaningInv
<1>4. leases[r].segment = 0
  BY <1>3, NoLeaseFields DEF HardwareInv, RunInv, LeasesMatch
<1>5. d[1] = r /\ d[2] # 0
  BY <1>2 DEF HardwareInv, DevicesInv, OwnersTyped
<1> QED
  BY <1>4, <1>5

LEMMA SparedStep ==
    ASSUME HardwareInv, [HardwareNext]_allVars, NEW d \in devices \ devices',
           leases[d[1]].segment = d[2], runtime' = runtime
    PROVE  \E t \in Call : calls'[t] # calls[t] /\ <<calls[t].run, calls[t].token>> = d
<1>1. CASE UNCHANGED allVars \/ OtherHandlers
  BY <1>1 DEF allVars, hardwareVars, OtherHandlers
<1>2. ASSUME NEW t \in Call, Arrive(t) \/ MarkRunUnknown(t) \/ Commit(t)
      PROVE  FALSE
  BY <1>2, ArriveQuiet DEF MarkRunUnknown, Commit
<1>3. ASSUME NEW t \in Call, Hardware(t)
      PROVE  calls'[t] # calls[t] /\ <<calls[t].run, calls[t].token>> = d
  BY <1>3, RequestLetsGo DEF HardwareInv, Without
<1>4. CASE Attend
  <2>1. CASE ListExpired \/ FenceExpired \/ SupervisorDone
             \/ (\E r \in Run : BeginResolve(r) \/ EndResolve(r) \/ LookToClean(r))
    BY <2>1 DEF ListExpired, FenceExpired, SupervisorDone, BeginResolve, EndResolve, LookToClean
  <2>2. CASE \E r \in Run : CleanUp(r)
    BY <2>2, CleanUpSpares
  <2> QED
    BY <1>4, <2>1, <2>2 DEF Attend, CleanupStep
<1>5. CASE RestartHardware
  <2>1. runtime' = runtime + 1 /\ runtime \in Nat
    BY <1>5 DEF RestartHardware, RestartRuns, RestartRunRows, HardwareInv, RunInv, RunTypeOK
  <2> QED
    BY <2>1
<1> QED
  BY <1>1, <1>2, <1>3, <1>4, <1>5, NextKinds

\* Devices of the executor that holds the lease are let go by its own requests or with
\* the process: _cleanup_run_state reaches runs in attention only, and those have no lease.
THEOREM LiveIsSparedHolds == HardwareSpec => LiveIsSpared
<1>1. HardwareInv /\ [HardwareNext]_allVars =>
        [\A d \in devices \ devices' :
            leases[d[1]].segment = d[2] /\ runtime' = runtime =>
              \E t \in Call : calls'[t] # calls[t] /\ <<calls[t].run, calls[t].token>> = d]_allVars
  BY SparedStep
<1> QED
  BY <1>1, HardwareInvariant, PTL DEF HardwareSpec, LiveIsSpared

-----------------------------------------------------------------------------
(* Executors that wait for their answers: nobody drives what another       *)
(* execution connected.                                                    *)

Provisioning == {"connect", "record", "store"}
Leaving == {"mark", "discard", "pop", "commit"}

\* Token k is that of the last execution, which is under way or being cleaned up.
Fresh(r, k) == k = Count(r) /\ (leases[r].segment = k \/ r \in cleaning)

\* A request that has let go of context c, whatever it had of it.
Past(t, c) == calls[t].step \in Leaving \/ (At(t, "terminal") /\ calls[t].ctx # c)

\* What a request of an executor that waits for its answers relies on.
SerialOK(t) ==
    \A c \in Context :
        /\ calls[t].ctx = c =>
              /\ calls[t].step \in Provisioning => Final(c) = "none"
              /\ At(t, "store") /\ table[calls[t].run] = c =>
                    Fresh(calls[t].run, calls[t].token)
              /\ calls[t].step \in {"batch", "finish", "terminal"}
                    /\ leases[calls[t].run].segment = calls[t].token =>
                    Runtime(c) \in {0, calls[t].token}
              /\ calls[t].step \in Driving => Runtime(c) = calls[t].token
        /\ Past(t, c) /\ table[calls[t].run] = c => Runtime(c) # calls[t].token

\* What the table has for a run is the last execution's, and empty while a context
\* that is no longer in the table is cleaned up.
TableOK(r) ==
    \A c \in Context : table[r] = c =>
        /\ Runtime(c) # 0 => Fresh(r, Runtime(c))
        /\ looked[r] \notin {None, c} =>
              /\ Runtime(c) = 0
              /\ \A t \in Call : calls[t].step \in Provisioning => calls[t].ctx # c

\* Somebody is finalizing a context that still has a runtime.
FinalOK ==
    \A c \in Context : Final(c) # "none" /\ Runtime(c) # 0 =>
        \E t \in Call : calls[t].step \in {"release", "abort"} /\ calls[t].ctx = c

OneEach ==
    \A t, u \in Call :
        ~At(t, "idle") /\ ~At(u, "idle")
          /\ calls[t].run = calls[u].run /\ calls[t].token = calls[u].token => t = u

SerialInv == OneEach /\ (\A t \in Call : SerialOK(t)) /\ (\A r \in Run : TableOK(r)) /\ FinalOK

LEMMA LeaseIsLast ==
    ASSUME ExecutionInv, NEW r \in Run, NEW k, k # 0, leases[r].segment = k
    PROVE  k = Count(r) /\ runs[r].state = "leased"
BY NoLeaseFields DEF ExecutionInv, OneExecutionEach, OneExecution, RunInv, LeasesMatch, Count

LEMMA FreshState ==
    ASSUME HardwareInv, ExecutionInv, NEW r \in Run, NEW k, k # 0, Fresh(r, k)
    PROVE  runs[r].state \in {"leased", "attention_required"}
BY LeaseIsLast DEF Fresh, HardwareInv, CleaningInv

\* The rows and the cleanup leave the executions fresh, but for the one that a request
\* past its use of devices ends.
FreshStays(t) ==
    /\ \A q \in Run : leases'[q].segment \in {leases[q].segment, 0}
    /\ \A q \in Run : \A k \in Nat \ {0} : Fresh(q, k) =>
          \/ Fresh(q, k)'
          \/ calls[t].step \in Leaving /\ q = calls[t].run /\ k = calls[t].token

LEMMA QuietFresh ==
    ASSUME NEW t, UNCHANGED <<runVars, cleaning>>
    PROVE  FreshStays(t)
BY DEF FreshStays, Fresh, Count, runVars, runOnlyVars

LEMMA IdleSerial ==
    ASSUME NEW t \in Call, Returns(t)
    PROVE  SerialOK(t)'
<1>1. calls'[t].step = "idle" /\ calls'[t].ctx = None
  BY IdleType DEF Returns
<1>2. \A c \in Context : c # None
  BY NoneFacts
<1> QED
  BY <1>1, <1>2 DEF SerialOK, Past, Leaving, At

\* A request that waits while another one moves.
LEMMA OtherSerial ==
    ASSUME ShapeInv, NEW t \in Call, NEW u \in Call \ {t}, SerialOK(u), OneEach, ~At(t, "idle"),
           Alone(t), Kept(t), RuntimesShrink, FreshStays(t),
           \A q \in Run : table'[q] \in {table[q], None}
    PROVE  SerialOK(u)'
<1>1. calls'[u] = calls[u]
  BY DEF Alone
<1>2. CASE At(u, "idle")
  <2>1. Returns(u)
    BY <1>1, <1>2, ShapeFacts DEF Returns, CallKnown
  <2> QED
    BY <2>1, IdleSerial
<1>3. CASE ~At(u, "idle")
  <2>1. PICK r \in Run : r = calls[u].run
    BY <1>3, UnderWay
  <2>2. PICK k \in Nat \ {0} : k = calls[u].token
    BY <1>3, UnderWay DEF ShapeInv
  <2> SUFFICES ASSUME NEW c \in Context
               PROVE  /\ calls[u].ctx = c =>
                            /\ calls[u].step \in Provisioning => Final(c)' = "none"
                            /\ calls[u].step = "store" /\ table'[r] = c => Fresh(r, k)'
                            /\ calls[u].step \in {"batch", "finish", "terminal"}
                                 /\ leases'[r].segment = k => Runtime(c)' \in {0, k}
                            /\ calls[u].step \in Driving => Runtime(c)' = k
                      /\ Past(u, c) /\ table'[r] = c => Runtime(c)' # k
    BY <1>1, <2>1, <2>2 DEF SerialOK, At, Past
  <2>3. Runtime(c)' \in {Runtime(c), 0}
    BY DEF RuntimesShrink
  <2>4. table'[r] = c => table[r] = c
    BY NoneFacts
  <2>5. leases'[r].segment = k => leases[r].segment = k
    BY DEF FreshStays
  <2>6. Past(u, c) /\ table'[r] = c => Runtime(c)' # k
    BY <2>1, <2>2, <2>3, <2>4 DEF SerialOK
  <2>7. ASSUME calls[u].ctx = c, calls[u].step \in Locking
        PROVE  Runtime(c)' = Runtime(c) /\ Final(c)' = Final(c)
    BY <2>7 DEF Kept, Runtime, Final
  <2>8. ASSUME calls[u].ctx = c
        PROVE  /\ calls[u].step \in Provisioning => Final(c)' = "none"
               /\ calls[u].step \in {"batch", "finish", "terminal"}
                     /\ leases'[r].segment = k => Runtime(c)' \in {0, k}
               /\ calls[u].step \in Driving => Runtime(c)' = k
    BY <2>1, <2>2, <2>3, <2>5, <2>7, <2>8 DEF SerialOK, Locking, Provisioning
  <2>9. ASSUME calls[u].ctx = c, calls[u].step = "store", table'[r] = c
        PROVE  Fresh(r, k)'
    <3>1. Fresh(r, k)
      BY <2>1, <2>2, <2>4, <2>9 DEF SerialOK, At
    <3>2. ~(calls[t].run = r /\ calls[t].token = k)
      BY <1>3, <2>1, <2>2 DEF OneEach
    <3> QED
      BY <3>1, <3>2 DEF FreshStays
  <2> QED
    BY <2>6, <2>8, <2>9
<1> QED
  BY <1>2, <1>3

\* The invariant after a step of a request that stores nothing and makes no context.
LEMMA RequestSerial ==
    ASSUME HardwareInv, SerialInv, NEW t \in Call, ~At(t, "idle"), ShapeMove(t),
           looked' = looked, RuntimesShrink, FreshStays(t),
           \A q \in Run : table'[q] \in {table[q], None},
           Returns(t) \/ (calls'[t].run = calls[t].run /\ calls'[t].token = calls[t].token),
           calls'[t].step \in Provisioning =>
              /\ calls'[t].ctx = calls[t].ctx /\ calls[t].ctx \in Context
              /\ calls[t].step \in Provisioning \/ looked[calls[t].run] = None,
           SerialOK(t)', FinalOK'
    PROVE  SerialInv'
<1>1. Alone(t) /\ Kept(t) /\ ShapeInv
  BY DEF ShapeMove, HardwareInv
<1>2. OneEach'
  <2>1. ASSUME NEW u \in Call, ~At(u, "idle")'
        PROVE  /\ ~At(u, "idle")
               /\ calls'[u].run = calls[u].run /\ calls'[u].token = calls[u].token
    BY <1>1, <2>1, IdleType DEF Alone, Returns, At
  <2> QED
    BY <2>1 DEF SerialInv, OneEach
<1>3. \A u \in Call : SerialOK(u)'
  <2>1. ASSUME NEW u \in Call \ {t}
        PROVE  SerialOK(u)'
    BY <1>1, OtherSerial DEF SerialInv
  <2> QED
    BY <2>1
<1>4. ASSUME NEW r \in Run, NEW c \in Context, table'[r] = c
      PROVE  /\ Runtime(c)' # 0 => Fresh(r, Runtime(c))'
             /\ looked'[r] \notin {None, c} =>
                   /\ Runtime(c)' = 0
                   /\ \A u \in Call : calls'[u].step \in Provisioning => calls'[u].ctx # c
  <2>1. table[r] = c /\ Runtime(c)' \in {Runtime(c), 0}
    BY <1>4, NoneFacts DEF RuntimesShrink
  <2>2. /\ Runtime(c) # 0 => Fresh(r, Runtime(c))
        /\ looked[r] \notin {None, c} =>
              /\ Runtime(c) = 0
              /\ \A u \in Call : calls[u].step \in Provisioning => calls[u].ctx # c
    BY <2>1 DEF SerialInv, TableOK
  <2>3. ASSUME Runtime(c)' # 0
        PROVE  Fresh(r, Runtime(c))'
    <3>1. PICK k \in Nat \ {0} : k = Runtime(c) /\ k = Runtime(c)'
      BY <1>1, <2>1, <2>3, ShapeFacts DEF Runtime, ContextRow
    <3>2. Fresh(r, k)
      BY <2>2, <3>1
    <3>3. ~(calls[t].step \in Leaving /\ r = calls[t].run /\ k = calls[t].token)
      <4>1. Past(t, c) /\ table[calls[t].run] = c => Runtime(c) # calls[t].token
        BY DEF SerialInv, SerialOK
      <4> QED
        BY <2>1, <3>1, <4>1 DEF Past
    <3>4. Fresh(r, k)'
      BY <3>2, <3>3 DEF FreshStays
    <3> QED
      BY <3>1, <3>4 DEF Fresh
  <2>4. ASSUME looked'[r] \notin {None, c}, NEW u \in Call, calls'[u].step \in Provisioning
        PROVE  calls'[u].ctx # c
    <3>1. CASE u # t
      BY <1>1, <2>2, <2>4, <3>1 DEF Alone
    <3>2. CASE u = t /\ calls[t].step \in Provisioning
      BY <2>2, <2>4, <3>2
    <3>3. CASE u = t /\ looked[calls[t].run] = None
      <4>1. calls'[t].ctx = calls[t].ctx /\ calls[t].run \in Run
        BY <1>1, <2>4, <3>3, UnderWay
      <4>2. calls[t].ctx = c => calls[t].run = r
        BY <2>1, <4>1 DEF HardwareInv, DevicesInv, RefersOnce, Refers
      <4> QED
        BY <2>4, <3>3, <4>1, <4>2
    <3> QED
      BY <2>4, <3>1, <3>2, <3>3
  <2> QED
    BY <2>1, <2>2, <2>3, <2>4
<1>5. \A r \in Run : TableOK(r)'
  BY <1>4 DEF TableOK
<1> QED
  BY <1>2, <1>3, <1>5 DEF SerialInv

\* Nobody starts or stops finalizing.
LEMMA FinalStays ==
    ASSUME FinalOK, NEW t \in Call, Alone(t), calls[t].step \notin {"release", "abort"},
           \A c \in Context : Runtime(c)' \in {Runtime(c), 0} /\ Final(c)' = Final(c)
    PROVE  FinalOK'
BY DEF FinalOK, Alone

\* A request has finalized its context, or begun to.
LEMMA FinalMoves ==
    ASSUME FinalOK, NEW t \in Call, Alone(t), NEW c \in Context, Only(c), calls[t].ctx = c,
           Runtime(c)' = 0
             \/ (calls'[t].step \in {"release", "abort"} /\ calls'[t].ctx = c)
             \/ (Final(c)' = "none")
    PROVE  FinalOK'
<1>1. ASSUME NEW d \in Context, Final(d)' # "none", Runtime(d)' # 0, d # c
      PROVE  \E u \in Call : calls'[u].step \in {"release", "abort"} /\ calls'[u].ctx = d
  <2>1. PICK u \in Call : calls[u].step \in {"release", "abort"} /\ calls[u].ctx = d
    BY <1>1 DEF FinalOK, Only
  <2> QED
    BY <1>1, <2>1 DEF Alone
<1> QED
  BY <1>1 DEF FinalOK

LEMMA LeavingSerial ==
    ASSUME NEW t \in Call, calls'[t].step \in Leaving,
           calls'[t].run = calls[t].run, calls'[t].token = calls[t].token,
           \A c \in Context : table'[calls[t].run] = c => Runtime(c)' # calls[t].token
    PROVE  SerialOK(t)'
BY DEF SerialOK, Past, Leaving, At, Provisioning, Driving

LEMMA DrivingSerial ==
    ASSUME NEW t \in Call, NEW s \in Driving, Goes(t, s), NEW c \in Context, c = calls[t].ctx,
           Runtime(c)' = calls[t].token
    PROVE  SerialOK(t)'
BY DEF Goes, SerialOK, Past, Leaving, At, Provisioning, Driving

LEMMA ConnectingSerial ==
    ASSUME NEW t \in Call, NEW s \in {"connect", "record"}, Goes(t, s),
           NEW c \in Context, c = calls[t].ctx, Final(c)' = "none"
    PROVE  SerialOK(t)'
BY DEF Goes, SerialOK, Past, Leaving, At, Provisioning, Driving

\* Of the contexts of its run the one that a request drives has the only runtime.
LEMMA DrivenOnly ==
    ASSUME HardwareInv, NEW t \in Call, calls[t].step \in Driving, NEW c \in Context,
           calls[t].ctx = c, NEW d \in Context, table[calls[t].run] = d, d # c
    PROVE  Runtime(d) = 0
<1>1. calls[t].run \in Run /\ Runtime(c) # 0
  BY UnderWay DEF HardwareInv, At, Driving
<1>2. Refers(calls[t].run, c) /\ Refers(calls[t].run, d)
  BY DEF Refers
<1> QED
  BY <1>1, <1>2 DEF HardwareInv, DevicesInv, StoredOK

\* A request that does hardware work keeps its rows as they are.
LEMMA HardwareFresh ==
    ASSUME NEW t \in Call, Hardware(t)
    PROVE  FreshStays(t) /\ looked' = looked
BY HardwareQuiet, QuietFresh

LEMMA TokenFacts ==
    ASSUME HardwareInv, NEW t \in Call, ~At(t, "idle")
    PROVE  calls[t].run \in Run /\ calls[t].token \in Nat \ {0}
BY UnderWay DEF HardwareInv

LEMMA SameRuntimes ==
    ASSUME \A c \in Context : Runtime(c)' = Runtime(c)
    PROVE  RuntimesShrink
BY DEF RuntimesShrink

LEMMA EnterProvisionSerial ==
    ASSUME HardwareInv, ExecutionInv, SerialInv, NEW t \in Call, EnterProvision(t)
    PROVE  SerialInv'
<1>1. /\ ShapeMove(t)
      /\ \/ /\ Provisionable(calls[t].run, calls[t].token, calls[t].ctx)
            /\ Goes(t, "connect") /\ table' = table
            /\ \A c \in Context : Runtime(c)' = Runtime(c) /\ Final(c)' = Final(c)
         \/ /\ Returns(t) /\ SameMemory
            /\ table' \in {table, PopUnused(calls[t].run, calls[t].ctx)}
  BY EnterProvisionFacts DEF HardwareInv
<1>2. calls[t].step = "provision" /\ ~At(t, "idle") /\ FreshStays(t) /\ looked' = looked
  BY HardwareFresh DEF EnterProvision, At, Hardware
<1>3. PICK c \in Context : c = calls[t].ctx
  BY <1>2, UnderWay DEF HardwareInv, OnContext
<1>4. (\A d \in Context : Runtime(d)' = Runtime(d) /\ Final(d)' = Final(d)) /\ RuntimesShrink
  BY <1>1, SameRuntimes DEF SameMemory
<1>5. \A q \in Run : table'[q] \in {table[q], None}
  BY <1>1, TableShrinks DEF HardwareInv
<1>6. FinalOK'
  BY <1>1, <1>2, <1>4, FinalStays DEF ShapeMove, SerialInv
<1>7. CASE Returns(t)
  <2>1. SerialOK(t)' /\ calls'[t].step \notin Provisioning
    BY <1>7, IdleSerial, IdleType DEF Returns, Provisioning
  <2> QED
    BY <1>1, <1>2, <1>4, <1>5, <1>6, <1>7, <2>1, RequestSerial
<1>8. CASE Provisionable(calls[t].run, calls[t].token, c) /\ Goes(t, "connect")
  <2>1. Final(c) = "none" /\ leases[calls[t].run].segment = calls[t].token
        /\ calls[t].token # 0
    BY <1>8 DEF Provisionable, Live, Final
  <2>2. SerialOK(t)'
    BY <1>3, <1>4, <1>8, <2>1, ConnectingSerial
  <2>3. calls[t].run \in Run
    BY <1>2, TokenFacts
  <2>4. runs[calls[t].run].state = "leased"
    BY <2>1, <2>3, LeaseIsLast
  <2>5. looked[calls[t].run] = None
    BY <2>3, <2>4 DEF HardwareInv, CleaningInv
  <2>6. calls'[t].ctx = calls[t].ctx /\ calls'[t].run = calls[t].run
        /\ calls'[t].token = calls[t].token
    BY <1>8 DEF Goes
  <2> QED
    BY <1>1, <1>2, <1>3, <1>4, <1>5, <1>6, <2>2, <2>5, <2>6, RequestSerial
<1> QED
  BY <1>1, <1>3, <1>7, <1>8

LEMMA ConnectSerial ==
    ASSUME HardwareInv, SerialInv, NEW t \in Call, Connect(t)
    PROVE  SerialInv'
<1>1. /\ ShapeMove(t) /\ SameMemory
      /\ \/ Goes(t, "record") /\ table' = table
         \/ Returns(t) /\ UNCHANGED <<table, devices>>
         \/ Returns(t) /\ table' = PopUnused(calls[t].run, calls[t].ctx)
         \/ Goes(t, "mark") /\ UNCHANGED <<table, devices>>
  BY ConnectFacts DEF HardwareInv
<1>2. calls[t].step = "connect" /\ ~At(t, "idle") /\ FreshStays(t) /\ looked' = looked
  BY HardwareFresh DEF Connect, At, Hardware
<1>3. PICK c \in Context : c = calls[t].ctx
  BY <1>2, UnderWay DEF HardwareInv, OnContext
<1>4. (\A d \in Context : Runtime(d)' = Runtime(d) /\ Final(d)' = Final(d)) /\ RuntimesShrink
  BY <1>1, SameRuntimes DEF SameMemory
<1>5. \A q \in Run : table'[q] \in {table[q], None}
  BY <1>1, TableShrinks DEF HardwareInv
<1>6. FinalOK'
  BY <1>1, <1>2, <1>4, FinalStays DEF ShapeMove, SerialInv
<1>7. calls[t].run \in Run /\ calls[t].token \in Nat \ {0}
  BY <1>2, TokenFacts
<1>8. CASE Returns(t)
  <2>1. SerialOK(t)' /\ calls'[t].step \notin Provisioning
    BY <1>8, IdleSerial, IdleType DEF Returns, Provisioning
  <2> QED
    BY <1>1, <1>2, <1>4, <1>5, <1>6, <1>8, <2>1, RequestSerial
<1>9. CASE Goes(t, "record")
  <2>1. Final(c) = "none" /\ calls[t].step \in Provisioning
    BY <1>2, <1>3 DEF SerialInv, SerialOK, Provisioning
  <2>2. SerialOK(t)'
    BY <1>3, <1>4, <1>9, <2>1, ConnectingSerial
  <2>3. calls'[t].ctx = calls[t].ctx /\ calls'[t].run = calls[t].run
        /\ calls'[t].token = calls[t].token
    BY <1>9 DEF Goes
  <2> QED
    BY <1>1, <1>2, <1>3, <1>4, <1>5, <1>6, <2>1, <2>2, <2>3, RequestSerial
<1>10. CASE Goes(t, "mark")
  <2>1. Acquirable(calls[t].run)
    <3>1. calls \in [Call -> CallRow] /\ calls'[t].step = "mark"
      BY <1>10, ShapeFacts DEF HardwareInv, Goes
    <3>2. Go(t, "record") => calls'[t].step = "record"
      BY <3>1 DEF Go, CallRow
    <3>3. \A ctxs : Return(t, ctxs) => calls'[t].step = "idle"
      BY <3>1, IdleType DEF Return
    <3> QED
      BY <3>1, <3>2, <3>3 DEF Connect
  <2>2. \A d \in Context : table[calls[t].run] = d => Runtime(d) = 0
    BY <1>7, <2>1, AcquirableOwnsNone DEF HardwareInv, Refers
  <2>3. calls'[t].step = "mark" /\ calls'[t].run = calls[t].run
        /\ calls'[t].token = calls[t].token
    BY <1>10 DEF Goes
  <2>4. \A d \in Context : table'[calls[t].run] = d => Runtime(d)' # calls[t].token
    BY <1>4, <1>5, <1>7, <2>2, NoneFacts
  <2>5. SerialOK(t)' /\ calls'[t].step \notin Provisioning
    BY <2>3, <2>4, LeavingSerial DEF Leaving, Provisioning
  <2> QED
    BY <1>1, <1>2, <1>4, <1>5, <1>6, <2>3, <2>5, RequestSerial
<1> QED
  BY <1>1, <1>8, <1>9, <1>10

LEMMA RecordSerial ==
    ASSUME HardwareInv, ExecutionInv, SerialInv, NEW t \in Call, RecordProvision(t)
    PROVE  SerialInv'
<1>1. /\ ShapeMove(t) /\ SameMemory /\ table' = table
      /\ \/ Goes(t, "store") /\ Fenced(calls[t].run, calls[t].token)
         \/ Goes(t, "mark")
  BY RecordFacts DEF HardwareInv
<1>2. calls[t].step = "record" /\ ~At(t, "idle") /\ FreshStays(t) /\ looked' = looked
  BY HardwareFresh DEF RecordProvision, At, Hardware
<1>3. PICK c \in Context : c = calls[t].ctx
  BY <1>2, UnderWay DEF HardwareInv, OnContext
<1>4. (\A d \in Context : Runtime(d)' = Runtime(d) /\ Final(d)' = Final(d)) /\ RuntimesShrink
  BY <1>1, SameRuntimes DEF SameMemory
<1>5. \A q \in Run : table'[q] \in {table[q], None}
  BY <1>1
<1>6. FinalOK'
  BY <1>1, <1>2, <1>4, FinalStays DEF ShapeMove, SerialInv
<1>7. calls[t].run \in Run /\ calls[t].token \in Nat \ {0}
  BY <1>2, TokenFacts
<1>8. CASE Goes(t, "store") /\ Fenced(calls[t].run, calls[t].token)
  <2>1. PICK r \in Run, k \in Nat \ {0} : r = calls[t].run /\ k = calls[t].token
    BY <1>7
  <2>2. leases[r].segment = k
    BY <1>8, <2>1 DEF Fenced, Live
  <2>3. k = Count(r)
    BY <2>1, <2>2, LeaseIsLast
  <2>4. Fresh(r, k)
    BY <2>2, <2>3 DEF Fresh
  <2>5. UNCHANGED <<runVars, cleaning>>
    BY HardwareQuiet DEF RecordProvision, Hardware
  <2>6. Fresh(r, k)'
    BY <2>4, <2>5 DEF Fresh, Count, runVars, runOnlyVars
  <2>7. Final(c)' = "none" /\ calls[t].step \in Provisioning
    BY <1>2, <1>3, <1>4 DEF SerialInv, SerialOK, Provisioning
  <2>8. /\ calls'[t].step = "store" /\ calls'[t].ctx = c
        /\ calls'[t].run = r /\ calls'[t].token = k
    BY <1>3, <1>8, <2>1 DEF Goes
  <2>9. SerialOK(t)'
    BY <2>6, <2>7, <2>8 DEF SerialOK, Past, Leaving, At, Driving
  <2> QED
    BY <1>1, <1>2, <1>3, <1>4, <1>5, <1>6, <2>1, <2>7, <2>8, <2>9, RequestSerial
<1>9. CASE Goes(t, "mark")
  <2>1. \A d \in Context : table[calls[t].run] = d => Runtime(d) = 0
    BY <1>2, <1>7 DEF HardwareInv, DevicesInv, RecordingOK, Recording, Refers
  <2>2. calls'[t].step = "mark" /\ calls'[t].run = calls[t].run
        /\ calls'[t].token = calls[t].token
    BY <1>9 DEF Goes
  <2>3. \A d \in Context : table'[calls[t].run] = d => Runtime(d)' # calls[t].token
    BY <1>1, <1>4, <1>7, <2>1
  <2>4. SerialOK(t)' /\ calls'[t].step \notin Provisioning
    BY <2>2, <2>3, LeavingSerial DEF Leaving, Provisioning
  <2> QED
    BY <1>1, <1>2, <1>4, <1>5, <1>6, <2>2, <2>4, RequestSerial
<1> QED
  BY <1>1, <1>8, <1>9

LEMMA LookSerial ==
    ASSUME HardwareInv, SerialInv, NEW t \in Call, LookToDiscard(t) \/ Discard(t)
    PROVE  SerialInv'
<1>1. /\ ShapeMove(t) /\ SameMemory
      /\ \/ table' = table
         \/ table' = Popped(calls[t].run, calls[t].ctx)
      /\ \/ Returns(t)
         \/ /\ calls'[t].step = "pop"
            /\ calls'[t].run = calls[t].run /\ calls'[t].token = calls[t].token
  BY LookToDiscardFacts, DiscardFacts DEF HardwareInv
<1>2. /\ calls[t].step \in Leaving /\ calls[t].step \notin {"release", "abort"}
      /\ ~At(t, "idle") /\ FreshStays(t) /\ looked' = looked
  BY HardwareFresh DEF LookToDiscard, Discard, At, Hardware, Leaving
<1>3. (\A d \in Context : Runtime(d)' = Runtime(d) /\ Final(d)' = Final(d)) /\ RuntimesShrink
  BY <1>1, SameRuntimes DEF SameMemory
<1>4. \A q \in Run : table'[q] \in {table[q], None}
  BY <1>1, TableShrinks DEF HardwareInv
<1>5. FinalOK'
  BY <1>1, <1>2, <1>3, FinalStays DEF ShapeMove, SerialInv
<1>6. calls[t].run \in Run
  BY <1>2, TokenFacts
<1>7. CASE Returns(t)
  <2>1. SerialOK(t)' /\ calls'[t].step \notin Provisioning
    BY <1>7, IdleSerial, IdleType DEF Returns, Provisioning
  <2> QED
    BY <1>1, <1>2, <1>3, <1>4, <1>5, <1>7, <2>1, RequestSerial
<1>8. CASE /\ calls'[t].step = "pop"
           /\ calls'[t].run = calls[t].run /\ calls'[t].token = calls[t].token
  <2>1. \A d \in Context : table[calls[t].run] = d => Runtime(d) # calls[t].token
    BY <1>2 DEF SerialInv, SerialOK, Past
  <2>2. \A d \in Context : table'[calls[t].run] = d => Runtime(d)' # calls[t].token
    BY <1>3, <1>4, <1>6, <2>1, NoneFacts
  <2>3. SerialOK(t)' /\ calls'[t].step \notin Provisioning
    BY <1>8, <2>2, LeavingSerial DEF Leaving, Provisioning
  <2> QED
    BY <1>1, <1>2, <1>3, <1>4, <1>5, <1>8, <2>3, RequestSerial
<1> QED
  BY <1>1, <1>7, <1>8

\* A request that gets into a context drives what is its own.
LEMMA OwnRuntime ==
    ASSUME SerialInv, NEW t \in Call, calls[t].step \in {"batch", "finish", "terminal"},
           NEW c \in Context, c = calls[t].ctx, Live(calls[t].run, calls[t].token),
           Runtime(c) # 0
    PROVE  Runtime(c) = calls[t].token
<1>1. SerialOK(t)
  BY DEF SerialInv
<1>2. leases[calls[t].run].segment = calls[t].token
  BY DEF Live
<1>3. Runtime(c) \in {0, calls[t].token}
  BY <1>1, <1>2 DEF SerialOK
<1> QED
  BY <1>3

LEMMA EnterBatchSerial ==
    ASSUME HardwareInv, SerialInv, NEW t \in Call, EnterBatch(t)
    PROVE  SerialInv'
<1>1. /\ ShapeMove(t) /\ SameMemory /\ UNCHANGED <<table, devices>>
      /\ \/ /\ Goes(t, "operate") /\ Live(calls[t].run, calls[t].token)
            /\ Runtime(calls[t].ctx) # 0
         \/ Returns(t)
  BY EnterBatchFacts DEF HardwareInv
<1>2. calls[t].step = "batch" /\ ~At(t, "idle") /\ FreshStays(t) /\ looked' = looked
  BY HardwareFresh DEF EnterBatch, At, Hardware
<1>3. PICK c \in Context : c = calls[t].ctx
  BY <1>2, UnderWay DEF HardwareInv, OnContext
<1>4. (\A d \in Context : Runtime(d)' = Runtime(d) /\ Final(d)' = Final(d)) /\ RuntimesShrink
  BY <1>1, SameRuntimes DEF SameMemory
<1>5. \A q \in Run : table'[q] \in {table[q], None}
  BY <1>1
<1>6. FinalOK'
  BY <1>1, <1>2, <1>4, FinalStays DEF ShapeMove, SerialInv
<1>7. CASE Returns(t)
  <2>1. SerialOK(t)' /\ calls'[t].step \notin Provisioning
    BY <1>7, IdleSerial, IdleType DEF Returns, Provisioning
  <2> QED
    BY <1>1, <1>2, <1>4, <1>5, <1>6, <1>7, <2>1, RequestSerial
<1>8. CASE Goes(t, "operate") /\ Live(calls[t].run, calls[t].token) /\ Runtime(c) # 0
  <2>1. Runtime(c) = calls[t].token
    BY <1>2, <1>3, <1>8, OwnRuntime
  <2>2. Runtime(c)' = calls[t].token /\ "operate" \in Driving
    BY <1>4, <2>1 DEF Driving
  <2>3. SerialOK(t)'
    BY <1>3, <1>8, <2>2, DrivingSerial
  <2>4. calls'[t].step \notin Provisioning /\ calls'[t].run = calls[t].run
        /\ calls'[t].token = calls[t].token
    BY <1>8 DEF Goes, Provisioning
  <2> QED
    BY <1>1, <1>2, <1>4, <1>5, <1>6, <2>3, <2>4, RequestSerial
<1> QED
  BY <1>1, <1>3, <1>7, <1>8

LEMMA EnterFinishSerial ==
    ASSUME HardwareInv, SerialInv, NEW t \in Call, EnterFinish(t)
    PROVE  SerialInv'
<1>1. /\ ShapeMove(t) /\ UNCHANGED <<table, devices>>
      /\ \A d \in Context : Runtime(d)' = Runtime(d)
      /\ \/ /\ Goes(t, "release") /\ Live(calls[t].run, calls[t].token)
            /\ \E c \in Context : /\ c = calls[t].ctx /\ Only(c)
                                  /\ Final(c) = "none" /\ Runtime(c) # 0
         \/ Returns(t) /\ SameMemory
  BY EnterFinishFacts DEF HardwareInv
<1>2. calls[t].step = "finish" /\ ~At(t, "idle") /\ FreshStays(t) /\ looked' = looked
  BY HardwareFresh DEF EnterFinish, At, Hardware
<1>3. RuntimesShrink /\ \A q \in Run : table'[q] \in {table[q], None}
  BY <1>1, SameRuntimes
<1>4. CASE Returns(t) /\ SameMemory
  <2>1. SerialOK(t)' /\ calls'[t].step \notin Provisioning
    BY <1>4, IdleSerial, IdleType DEF Returns, Provisioning
  <2>2. FinalOK'
    BY <1>1, <1>2, <1>4, FinalStays DEF ShapeMove, SerialInv, SameMemory
  <2> QED
    BY <1>1, <1>2, <1>3, <1>4, <2>1, <2>2, RequestSerial
<1>5. CASE Goes(t, "release") /\ Live(calls[t].run, calls[t].token)
  <2>1. calls'[t].step = "release" /\ calls'[t].run = calls[t].run
        /\ calls'[t].token = calls[t].token /\ calls'[t].ctx = calls[t].ctx
    BY <1>5 DEF Goes
  <2>2. PICK c \in Context : c = calls[t].ctx /\ Only(c) /\ Runtime(c) # 0
    BY <1>1, <2>1, IdleType DEF Returns
  <2>3. Runtime(c) = calls[t].token
    BY <1>2, <1>5, <2>2, OwnRuntime
  <2>4. Runtime(c)' = calls[t].token /\ "release" \in Driving
    BY <1>1, <2>3 DEF Driving
  <2>5. SerialOK(t)'
    BY <1>5, <2>2, <2>4, DrivingSerial
  <2>6. FinalOK'
    BY <1>1, <2>1, <2>2, FinalMoves DEF ShapeMove, SerialInv
  <2> QED
    BY <1>1, <1>2, <1>3, <2>1, <2>5, <2>6, RequestSerial DEF Provisioning
<1> QED
  BY <1>1, <1>4, <1>5

LEMMA EnterTerminalSerial ==
    ASSUME HardwareInv, SerialInv, NEW t \in Call, EnterTerminal(t)
    PROVE  SerialInv'
<1>1. /\ ShapeMove(t) /\ UNCHANGED <<table, devices>>
      /\ \A d \in Context : Runtime(d)' = Runtime(d)
      /\ \/ Returns(t) /\ SameMemory
         \/ \E c \in Context :
               /\ c = calls[t].ctx /\ Live(calls[t].run, calls[t].token)
               /\ \/ Goes(t, "commit") /\ SameMemory /\ Final(c) # "none"
                  \/ /\ Goes(t, "commit") /\ Only(c)
                     /\ Final(c) = "none" /\ Runtime(c) = 0
                  \/ /\ Goes(t, "abort") /\ Only(c)
                     /\ Final(c) = "none" /\ Runtime(c) # 0
  BY EnterTerminalFacts DEF HardwareInv
<1>2. calls[t].step = "terminal" /\ ~At(t, "idle") /\ FreshStays(t) /\ looked' = looked
      /\ Available(calls[t].ctx, t)
  BY HardwareFresh DEF EnterTerminal, At, Hardware
<1>3. RuntimesShrink /\ \A q \in Run : table'[q] \in {table[q], None}
  BY <1>1, SameRuntimes
<1>4. calls[t].run \in Run /\ calls[t].token \in Nat \ {0}
  BY <1>2, TokenFacts
<1>5. CASE Returns(t) /\ SameMemory
  <2>1. SerialOK(t)' /\ calls'[t].step \notin Provisioning
    BY <1>5, IdleSerial, IdleType DEF Returns, Provisioning
  <2>2. FinalOK'
    BY <1>1, <1>2, <1>5, FinalStays DEF ShapeMove, SerialInv, SameMemory
  <2> QED
    BY <1>1, <1>2, <1>3, <1>5, <2>1, <2>2, RequestSerial
<1>6. ASSUME NEW c \in Context, c = calls[t].ctx, Goes(t, "commit"),
             Runtime(c) = 0, FinalOK'
      PROVE  SerialInv'
  <2>1. \A d \in Context : table[calls[t].run] = d /\ d # c => Runtime(d) # calls[t].token
    BY <1>2, <1>6 DEF SerialInv, SerialOK, Past, At
  <2>2. \A d \in Context : table'[calls[t].run] = d => Runtime(d)' # calls[t].token
    BY <1>1, <1>4, <1>6, <2>1
  <2>3. calls'[t].step = "commit" /\ calls'[t].run = calls[t].run
        /\ calls'[t].token = calls[t].token
    BY <1>6 DEF Goes
  <2>4. SerialOK(t)' /\ calls'[t].step \notin Provisioning
    BY <2>2, <2>3, LeavingSerial DEF Leaving, Provisioning
  <2> QED
    BY <1>1, <1>2, <1>3, <1>6, <2>3, <2>4, RequestSerial
<1>7. ASSUME NEW c \in Context, c = calls[t].ctx, Goes(t, "commit"), SameMemory,
             Final(c) # "none"
      PROVE  SerialInv'
  <2>1. Runtime(c) = 0
    <3>1. ASSUME NEW u \in Call, calls[u].step \in {"release", "abort"}, calls[u].ctx = c
          PROVE  FALSE
      <4>1. u # t /\ u # None /\ Lock(c) \in {None, t}
        BY <1>2, <1>7, <3>1, NoneFacts DEF Available, Lock
      <4>2. Lock(c) = u
        BY <3>1, UnderWay DEF HardwareInv, At, Locking, Driving
      <4> QED
        BY <4>1, <4>2
    <3> QED
      BY <1>7, <3>1 DEF SerialInv, FinalOK
  <2>2. FinalOK'
    BY <1>1, <1>2, <1>7, FinalStays DEF ShapeMove, SerialInv, SameMemory
  <2> QED
    BY <1>6, <1>7, <2>1, <2>2
<1>8. ASSUME NEW c \in Context, c = calls[t].ctx, Goes(t, "commit"), Only(c), Runtime(c) = 0
      PROVE  SerialInv'
  <2>1. Runtime(c)' = 0
    BY <1>1, <1>8
  <2>2. FinalOK'
    BY <1>1, <1>8, <2>1, FinalMoves DEF ShapeMove, SerialInv
  <2> QED
    BY <1>6, <1>8, <2>2
<1>9. ASSUME NEW c \in Context, c = calls[t].ctx, Goes(t, "abort"), Only(c), Runtime(c) # 0,
             Live(calls[t].run, calls[t].token)
      PROVE  SerialInv'
  <2>1. calls'[t].step = "abort" /\ calls'[t].run = calls[t].run
        /\ calls'[t].token = calls[t].token /\ calls'[t].ctx = calls[t].ctx
    BY <1>9 DEF Goes
  <2>2. Runtime(c) = calls[t].token
    BY <1>2, <1>9, OwnRuntime
  <2>3. Runtime(c)' = calls[t].token /\ "abort" \in Driving
    BY <1>1, <2>2 DEF Driving
  <2>4. SerialOK(t)'
    BY <1>9, <2>3, DrivingSerial
  <2>5. FinalOK'
    BY <1>1, <1>9, <2>1, FinalMoves DEF ShapeMove, SerialInv
  <2> QED
    BY <1>1, <1>2, <1>3, <2>1, <2>4, <2>5, RequestSerial DEF Provisioning
<1> QED
  BY <1>1, <1>5, <1>7, <1>8, <1>9

\* A request has driven a context and let go of what it had.
LEMMA DroveSerial ==
    ASSUME HardwareInv, SerialInv, NEW t \in Call, Hardware(t), ShapeMove(t),
           calls[t].step \in Driving, NEW c \in Context, c = calls[t].ctx,
           table' = table, Runtime(c)' = 0, Only(c),
           Returns(t) \/ Goes(t, "commit") \/ Goes(t, "mark")
    PROVE  SerialInv'
<1>1. ~At(t, "idle") /\ FreshStays(t) /\ looked' = looked
  BY HardwareFresh DEF At, Driving
<1>2. RuntimesShrink /\ \A q \in Run : table'[q] \in {table[q], None}
  BY DEF RuntimesShrink, Only
<1>3. FinalOK'
  BY FinalMoves DEF ShapeMove, SerialInv
<1>4. CASE Returns(t)
  <2>1. SerialOK(t)' /\ calls'[t].step \notin Provisioning
    BY <1>4, IdleSerial, IdleType DEF Returns, Provisioning
  <2> QED
    BY <1>1, <1>2, <1>3, <1>4, <2>1, RequestSerial
<1>5. CASE Goes(t, "commit") \/ Goes(t, "mark")
  <2>1. calls'[t].step \in {"commit", "mark"} /\ calls'[t].run = calls[t].run
        /\ calls'[t].token = calls[t].token
    BY <1>5 DEF Goes
  <2>2. calls[t].token # 0
    BY <1>1, TokenFacts
  <2>3. \A d \in Context : table[calls[t].run] = d /\ d # c => Runtime(d) = 0
    BY DrivenOnly
  <2>4. \A d \in Context : table'[calls[t].run] = d => Runtime(d)' # calls[t].token
    BY <2>2, <2>3 DEF Only
  <2>5. SerialOK(t)' /\ calls'[t].step \notin Provisioning
    BY <2>1, <2>4, LeavingSerial DEF Leaving, Provisioning
  <2> QED
    BY <1>1, <1>2, <1>3, <2>1, <2>5, RequestSerial
<1> QED
  BY <1>4, <1>5

LEMMA DriversEndSerial ==
    ASSUME HardwareInv, SerialInv, NEW t \in Call, EndBatch(t) \/ EndFinish(t) \/ EndAbort(t)
    PROVE  SerialInv'
<1>1. /\ calls[t].step \in Driving /\ Hardware(t)
      /\ ~At(t, "idle") /\ FreshStays(t) /\ looked' = looked
  BY HardwareFresh DEF EndBatch, EndFinish, EndAbort, At, Hardware, Driving
<1>2. ASSUME NEW c \in Context, c = calls[t].ctx, ShapeMove(t),
             \/ /\ Returns(t) \/ Goes(t, "commit")
                /\ table' = table /\ Runtime(c)' = 0 /\ Only(c)
             \/ Loses(t, c)
      PROVE  SerialInv'
  BY <1>1, <1>2, DroveSerial DEF Loses
<1>3. CASE EndFinish(t)
  BY <1>2, <1>3, EndFinishFacts DEF HardwareInv
<1>4. CASE EndAbort(t)
  BY <1>2, <1>4, EndAbortFacts DEF HardwareInv
<1>5. CASE EndBatch(t)
  <2>1. /\ ShapeMove(t)
        /\ \/ Returns(t) /\ SameMemory /\ UNCHANGED <<table, devices>>
           \/ \E c \in Context : c = calls[t].ctx /\ Loses(t, c)
    BY <1>5, EndBatchFacts DEF HardwareInv
  <2>2. CASE Returns(t) /\ SameMemory /\ UNCHANGED <<table, devices>>
    <3>1. calls[t].step = "operate"
      BY <1>5 DEF EndBatch, At
    <3>2. RuntimesShrink /\ \A q \in Run : table'[q] \in {table[q], None}
      BY <2>2, SameRuntimes DEF SameMemory
    <3>3. FinalOK'
      BY <2>1, <2>2, <3>1, FinalStays DEF ShapeMove, SerialInv, SameMemory
    <3>4. SerialOK(t)' /\ calls'[t].step \notin Provisioning
      BY <2>2, IdleSerial, IdleType DEF Returns, Provisioning
    <3> QED
      BY <1>1, <2>1, <2>2, <3>2, <3>3, <3>4, RequestSerial
  <2> QED
    BY <1>2, <2>1, <2>2
<1> QED
  BY <1>3, <1>4, <1>5

\* A context that is new to everybody.
LEMMA CreateSerial ==
    ASSUME HardwareInv, SerialInv, NEW t \in Call, CreateContext(t)
    PROVE  SerialInv'
<1>1. PICK c \in Context :
              /\ ShapeMove(t) /\ devices' = devices
              /\ calls'[t].step = "provision" /\ calls'[t].ctx = c
              /\ calls'[t].run = calls[t].run /\ calls'[t].token = calls[t].token
              /\ \/ table[calls[t].run] = c /\ UNCHANGED <<table, context>>
                 \/ /\ table[calls[t].run] = None /\ Unreferenced(c)
                    /\ table' = [table EXCEPT ![calls[t].run] = c]
                    /\ Runtime(c)' = 0 /\ Final(c)' = "none" /\ Only(c)
  BY CreateFacts DEF HardwareInv
<1>2. /\ calls[t].step = "admitted" /\ ~At(t, "idle") /\ FreshStays(t) /\ looked' = looked
      /\ UNCHANGED <<runVars, cleaning>>
  BY HardwareFresh, HardwareQuiet DEF CreateContext, At, Hardware
<1>3. SerialOK(t)' /\ calls'[t].step \notin Provisioning
  BY <1>1 DEF SerialOK, Past, Leaving, At, Provisioning, Driving
<1>4. CASE table[calls[t].run] = c /\ UNCHANGED <<table, context>>
  <2>1. \A d \in Context : Runtime(d)' = Runtime(d) /\ Final(d)' = Final(d)
    BY <1>4 DEF Runtime, Final
  <2>2. RuntimesShrink /\ \A q \in Run : table'[q] \in {table[q], None}
    BY <1>4, <2>1, SameRuntimes
  <2>3. FinalOK'
    BY <1>1, <1>2, <2>1, FinalStays DEF ShapeMove, SerialInv
  <2> QED
    BY <1>1, <1>2, <1>3, <2>2, <2>3, RequestSerial
<1>5. CASE /\ table[calls[t].run] = None /\ Unreferenced(c)
           /\ table' = [table EXCEPT ![calls[t].run] = c]
           /\ Runtime(c)' = 0 /\ Final(c)' = "none" /\ Only(c)
  <2>1. PICK p \in Run : p = calls[t].run
    BY <1>2, TokenFacts
  <2>2. Alone(t) /\ \A u \in Call : calls[u].ctx # c
    BY <1>1, <1>5 DEF ShapeMove, Unreferenced
  <2>3. /\ table'[p] = c /\ \A q \in Run : q # p => table'[q] = table[q] /\ table[q] # c
        /\ table[p] = None
    BY <1>5, <2>1, ShapeFacts DEF HardwareInv, Unreferenced
  <2>4. \A d \in Context : d # c => Runtime(d)' = Runtime(d) /\ Final(d)' = Final(d)
    BY <1>5 DEF Only
  <2>5. OneEach'
    BY <1>1, <1>2, <2>2 DEF SerialInv, OneEach, Alone, At
  <2>6. FinalOK'
    <3>1. ASSUME NEW d \in Context, Final(d)' # "none", Runtime(d)' # 0
          PROVE  \E u \in Call : calls'[u].step \in {"release", "abort"} /\ calls'[u].ctx = d
      <4>1. PICK u \in Call : calls[u].step \in {"release", "abort"} /\ calls[u].ctx = d
        BY <1>5, <2>4, <3>1 DEF SerialInv, FinalOK
      <4> QED
        BY <1>2, <2>2, <4>1 DEF Alone
    <3> QED
      BY <3>1 DEF FinalOK
  <2>7. ASSUME NEW u \in Call \ {t}, ~At(u, "idle"), NEW d \in Context
        PROVE  /\ calls[u].ctx = d =>
                     /\ calls[u].step \in Provisioning => Final(d)' = "none"
                     /\ calls[u].step = "store" /\ table'[calls[u].run] = d =>
                           Fresh(calls[u].run, calls[u].token)'
                     /\ calls[u].step \in {"batch", "finish", "terminal"}
                          /\ leases'[calls[u].run].segment = calls[u].token =>
                          Runtime(d)' \in {0, calls[u].token}
                     /\ calls[u].step \in Driving => Runtime(d)' = calls[u].token
               /\ Past(u, d) /\ table'[calls[u].run] = d => Runtime(d)' # calls[u].token
    <3>1. PICK r \in Run, k \in Nat \ {0} : r = calls[u].run /\ k = calls[u].token
      BY <2>7, TokenFacts
    <3>2. CASE d = c
      BY <1>5, <2>2, <3>1, <3>2
    <3>3. CASE d # c
      <4>1. Runtime(d)' = Runtime(d) /\ Final(d)' = Final(d)
        BY <2>4, <3>3
      <4>2. table'[r] = d => table[r] = d
        BY <2>3, <3>3
      <4>3. leases' = leases /\ (Fresh(r, k) => Fresh(r, k)')
        BY <1>2 DEF Fresh, Count, runVars, runOnlyVars
      <4>4. SerialOK(u)
        BY DEF SerialInv
      <4>5. Past(u, d) /\ table'[r] = d => Runtime(d)' # k
        BY <3>1, <4>1, <4>2, <4>4 DEF SerialOK
      <4>6. calls[u].ctx = d =>
                     /\ calls[u].step \in Provisioning => Final(d)' = "none"
                     /\ calls[u].step \in {"batch", "finish", "terminal"}
                          /\ leases'[r].segment = k => Runtime(d)' \in {0, k}
                     /\ calls[u].step \in Driving => Runtime(d)' = k
        BY <3>1, <4>1, <4>3, <4>4 DEF SerialOK
      <4>7. calls[u].ctx = d /\ calls[u].step = "store" /\ table'[r] = d => Fresh(r, k)
        BY <3>1, <4>2, <4>4 DEF SerialOK, At
      <4>8. calls'[u] = calls[u]
        BY <2>2 DEF Alone
      <4>9. calls[u].ctx = d /\ calls[u].step = "store" /\ table'[r] = d =>
              Fresh(calls[u].run, calls[u].token)'
        BY <3>1, <4>3, <4>7, <4>8 DEF Fresh
      <4> QED
        BY <3>1, <4>5, <4>6, <4>9
    <3> QED
      BY <3>2, <3>3
  <2>8. \A u \in Call : SerialOK(u)'
    <3>1. ASSUME NEW u \in Call \ {t}, At(u, "idle")
          PROVE  Returns(u)
      BY <2>2, <3>1, ShapeFacts DEF HardwareInv, Alone, Returns, CallKnown
    <3>2. ASSUME NEW u \in Call \ {t}, ~At(u, "idle")
          PROVE  SerialOK(u)'
      <4>1. calls'[u] = calls[u]
        BY <2>2 DEF Alone
      <4> QED
        BY <2>7, <3>2, <4>1 DEF SerialOK, At, Past
    <3> QED
      BY <1>3, <3>1, <3>2, IdleSerial
  <2>9. ASSUME NEW r \in Run, NEW d \in Context, table'[r] = d
        PROVE  /\ Runtime(d)' # 0 => Fresh(r, Runtime(d))'
               /\ looked'[r] \notin {None, d} =>
                     /\ Runtime(d)' = 0
                     /\ \A u \in Call : calls'[u].step \in Provisioning => calls'[u].ctx # d
    <3>1. CASE r = p
      <4>1. d = c
        BY <2>3, <2>9, <3>1
      <4> QED
        BY <1>3, <1>5, <2>2, <4>1 DEF Alone
    <3>2. CASE r # p
      <4>1. table[r] = d /\ d # c /\ Runtime(d)' = Runtime(d)
        BY <2>3, <2>4, <2>9, <3>2
      <4>2. Runtime(d) # 0 => Fresh(r, Runtime(d))
        BY <4>1 DEF SerialInv, TableOK
      <4>3. Runtime(d)' # 0 => Fresh(r, Runtime(d))'
        BY <1>2, <4>1, <4>2 DEF Fresh, Count, runVars, runOnlyVars
      <4>4. looked'[r] \notin {None, d} =>
              /\ Runtime(d)' = 0
              /\ \A u \in Call : calls'[u].step \in Provisioning => calls'[u].ctx # d
        BY <1>2, <1>3, <2>2, <4>1 DEF SerialInv, TableOK, Alone
      <4> QED
        BY <4>3, <4>4
    <3> QED
      BY <3>1, <3>2
  <2> QED
    BY <2>5, <2>6, <2>8, <2>9 DEF SerialInv, TableOK
<1> QED
  BY <1>1, <1>4, <1>5

\* What a request connected becomes what the table has for its run.
LEMMA StoreSerial ==
    ASSUME HardwareInv, ExecutionInv, SerialInv, NEW t \in Call, StoreProvision(t)
    PROVE  SerialInv'
<1>1. PICK c \in Context :
              /\ c = calls[t].ctx
              /\ ShapeMove(t) /\ Returns(t) /\ table' = table
              /\ \A d \in Context : Final(d)' = Final(d)
              /\ \/ /\ table[calls[t].run] = c
                    /\ Runtime(c)' = calls[t].token /\ Only(c)
                 \/ /\ table[calls[t].run] # c /\ SameMemory
  BY StoreFacts DEF HardwareInv
<1>2. /\ calls[t].step = "store" /\ ~At(t, "idle") /\ FreshStays(t) /\ looked' = looked
      /\ UNCHANGED <<runVars, cleaning>>
  BY HardwareFresh, HardwareQuiet DEF StoreProvision, At, Hardware
<1>3. SerialOK(t)' /\ calls'[t].step \notin Provisioning
  BY <1>1, IdleSerial, IdleType DEF Returns, Provisioning
<1>4. CASE SameMemory
  <2>1. RuntimesShrink /\ \A q \in Run : table'[q] \in {table[q], None}
    BY <1>1, <1>4, SameRuntimes DEF SameMemory
  <2>2. FinalOK'
    BY <1>1, <1>2, <1>4, FinalStays DEF ShapeMove, SerialInv, SameMemory
  <2> QED
    BY <1>1, <1>2, <1>3, <2>1, <2>2, RequestSerial
<1>5. CASE table[calls[t].run] = c /\ Runtime(c)' = calls[t].token /\ Only(c)
  <2>1. PICK p \in Run, k \in Nat \ {0} : p = calls[t].run /\ k = calls[t].token
    BY <1>2, TokenFacts
  <2>2. Alone(t) /\ Lock(c) = t
    BY <1>1, <1>2, UnderWay DEF ShapeMove, HardwareInv, Locking
  <2>3. Fresh(p, k) /\ Final(c) = "none"
    BY <1>1, <1>2, <1>5, <2>1 DEF SerialInv, SerialOK, At, Provisioning
  <2>4. \A q \in Run : table[q] = c => q = p
    BY <1>5, <2>1 DEF HardwareInv, DevicesInv, RefersOnce, Refers
  <2>5. \A q \in Run : \A u \in Call : calls[u].run = q /\ calls[u].ctx = c => q = p
    BY <1>5, <2>1 DEF HardwareInv, DevicesInv, RefersOnce, Refers
  <2>6. \A d \in Context : d # c => Runtime(d)' = Runtime(d) /\ Final(d)' = Final(d)
    BY <1>5 DEF Only
  <2>7. \A q \in Run : \A j : Fresh(q, j) => Fresh(q, j)'
    BY <1>2 DEF Fresh, Count, runVars, runOnlyVars
  <2>8. OneEach'
    <3>1. ASSUME NEW u \in Call, ~At(u, "idle")'
          PROVE  u # t /\ calls'[u] = calls[u] /\ ~At(u, "idle")
      BY <1>1, <2>2, <3>1, IdleType DEF Alone, Returns, At
    <3> QED
      BY <3>1 DEF SerialInv, OneEach
  <2>9. FinalOK'
    BY <1>1, <2>2, <2>3, <2>6, FinalMoves DEF SerialInv, Only
  <2>10. ASSUME NEW u \in Call \ {t}, ~At(u, "idle")
         PROVE  SerialOK(u)'
    <3>1. PICK r \in Run, j \in Nat \ {0} : r = calls[u].run /\ j = calls[u].token
      BY <2>10, TokenFacts
    <3>2. calls'[u] = calls[u] /\ SerialOK(u)
      BY <2>2 DEF Alone, SerialInv
    <3> SUFFICES ASSUME NEW d \in Context
                 PROVE  /\ calls[u].ctx = d =>
                              /\ calls[u].step \in Provisioning => Final(d)' = "none"
                              /\ calls[u].step = "store" /\ table'[r] = d => Fresh(r, j)'
                              /\ calls[u].step \in {"batch", "finish", "terminal"}
                                   /\ leases'[r].segment = j => Runtime(d)' \in {0, j}
                              /\ calls[u].step \in Driving => Runtime(d)' = j
                        /\ Past(u, d) /\ table'[r] = d => Runtime(d)' # j
      BY <3>1, <3>2 DEF SerialOK, At, Past
    <3>3. table' = table /\ leases' = leases /\ Final(d)' = Final(d)
      BY <1>1, <1>2 DEF runVars, runOnlyVars
    <3>4. calls[u].ctx = d =>
             /\ calls[u].step \in Provisioning => Final(d)' = "none"
             /\ calls[u].step = "store" /\ table'[r] = d => Fresh(r, j)'
      BY <2>7, <3>1, <3>2, <3>3 DEF SerialOK, At
    <3>5. CASE d # c
      <4>1. Runtime(d)' = Runtime(d)
        BY <2>6, <3>5
      <4> QED
        BY <3>1, <3>2, <3>3, <3>4, <4>1 DEF SerialOK
    <3>6. CASE d = c
      <4>1. Runtime(d)' = k
        BY <1>5, <2>1, <3>6
      <4>2. ASSUME calls[u].ctx = d, calls[u].step \in {"batch", "finish", "terminal"},
                   leases'[r].segment = j
            PROVE  j = k
        <5>1. r = p
          BY <2>5, <3>1, <3>6, <4>2
        <5>2. j = Count(r)
          BY <3>1, <3>3, <4>2, LeaseIsLast
        <5> QED
          BY <2>3, <5>1, <5>2 DEF Fresh
      <4>3. ASSUME calls[u].ctx = d, calls[u].step \in Driving
            PROVE  FALSE
        <5>1. Lock(d) = u
          BY <2>10, <4>3, UnderWay DEF HardwareInv, Locking
        <5> QED
          BY <2>2, <3>6, <5>1
      <4>4. ASSUME table'[r] = d
            PROVE  j # k
        <5>1. r = p
          BY <2>4, <3>3, <3>6, <4>4
        <5> QED
          BY <1>2, <2>1, <2>10, <3>1, <5>1 DEF SerialInv, OneEach
      <4> QED
        BY <3>4, <4>1, <4>2, <4>3, <4>4
    <3> QED
      BY <3>5, <3>6
  <2>11. \A u \in Call : SerialOK(u)'
    <3>1. ASSUME NEW u \in Call \ {t}, At(u, "idle")
          PROVE  Returns(u)
      BY <2>2, <3>1, ShapeFacts DEF HardwareInv, Alone, Returns, CallKnown
    <3> QED
      BY <1>3, <2>10, <3>1, IdleSerial
  <2>12. ASSUME NEW r \in Run, NEW d \in Context, table'[r] = d
         PROVE  /\ Runtime(d)' # 0 => Fresh(r, Runtime(d))'
                /\ looked'[r] \notin {None, d} =>
                      /\ Runtime(d)' = 0
                      /\ \A u \in Call : calls'[u].step \in Provisioning => calls'[u].ctx # d
    <3>1. table[r] = d
      BY <1>1, <2>12
    <3>2. TableOK(r)
      BY DEF SerialInv
    <3>3. ASSUME NEW u \in Call, calls'[u].step \in Provisioning
          PROVE  calls'[u] = calls[u]
      BY <1>3, <2>2, <3>3 DEF Alone
    <3>4. CASE d = c
      <4>1. r = p
        BY <2>4, <3>1, <3>4
      <4>2. looked[r] \in {None, d}
        BY <1>1, <1>2, <3>1, <3>2, <3>4 DEF TableOK, Provisioning
      <4>3. Fresh(r, Runtime(d))'
        BY <1>5, <2>1, <2>3, <2>7, <3>4, <4>1 DEF Fresh
      <4> QED
        BY <1>2, <4>2, <4>3
    <3>5. CASE d # c
      <4>1. Runtime(d)' = Runtime(d)
        BY <2>6, <3>5
      <4>2. Runtime(d)' # 0 => Fresh(r, Runtime(d))'
        BY <2>7, <3>1, <3>2, <4>1 DEF TableOK, Fresh
      <4> QED
        BY <1>2, <3>1, <3>2, <3>3, <4>1, <4>2 DEF TableOK
    <3> QED
      BY <3>4, <3>5
  <2> QED
    BY <2>8, <2>9, <2>11, <2>12 DEF SerialInv, TableOK
<1> QED
  BY <1>1, <1>4, <1>5

LEMMA HardwareSerial ==
    ASSUME HardwareInv, ExecutionInv, SerialInv, NEW t \in Call, Hardware(t)
    PROVE  SerialInv'
<1>1. CASE CreateContext(t) \/ EnterProvision(t) \/ Connect(t)
  BY <1>1, CreateSerial, EnterProvisionSerial, ConnectSerial
<1>2. CASE RecordProvision(t) \/ StoreProvision(t) \/ LookToDiscard(t) \/ Discard(t)
  BY <1>2, RecordSerial, StoreSerial, LookSerial
<1>3. CASE EnterBatch(t) \/ EnterFinish(t) \/ EnterTerminal(t)
  BY <1>3, EnterBatchSerial, EnterFinishSerial, EnterTerminalSerial
<1>4. CASE EndBatch(t) \/ EndFinish(t) \/ EndAbort(t)
  BY <1>4, DriversEndSerial
<1> QED
  BY <1>1, <1>2, <1>3, <1>4 DEF Hardware

\* A request that ends the execution it has the token of.
LEMMA EndsFresh ==
    ASSUME ExecutionInv, NEW t \in Call, NEW r \in Run, NEW k \in Nat \ {0},
           calls[t].run = r, calls[t].token = k, calls[t].step \in Leaving,
           leases[r].segment = k, Ends(r), \A q \in Run \ {r} : Stays(q), cleaning' = cleaning
    PROVE  FreshStays(t)
<1>1. \A q \in Run : leases'[q].segment \in {leases[q].segment, 0}
  BY DEF Ends, Stays
<1>2. ASSUME NEW q \in Run, NEW j \in Nat \ {0}, Fresh(q, j)
      PROVE  Fresh(q, j)' \/ (q = r /\ j = k)
  <2>1. CASE q = r
    BY <1>2, <2>1, LeaseIsLast DEF Fresh
  <2>2. CASE q # r
    BY <1>2, <2>2 DEF Fresh, Stays
  <2> QED
    BY <2>1, <2>2
<1> QED
  BY <1>1, <1>2 DEF FreshStays

LEMMA RequestFresh ==
    ASSUME HardwareInv, ExecutionInv, NEW t \in Call, MarkRunUnknown(t) \/ Commit(t)
    PROVE  FreshStays(t)
<1>1. calls[t].step \in Leaving /\ ~At(t, "idle")
  BY DEF MarkRunUnknown, Commit, At, Leaving
<1>2. PICK r \in Run, k \in Nat \ {0} : r = calls[t].run /\ k = calls[t].token
  BY <1>1, TokenFacts
<1>3. cleaning' = cleaning /\ RunInv
  BY RequestMoves DEF HardwareInv
<1>4. CASE UNCHANGED runVars
  BY <1>3, <1>4, QuietFresh
<1>5. CASE MarkExecutorUnknown(r, k)
  <2>1. LoseExecutors({r}, "executor_unknown") /\ leases[r].segment = k /\ leases[r] # NoLease
    BY <1>2, <1>5, NoLeaseFields DEF MarkExecutorUnknown, ExpireOne
  <2>2. {r} \in SUBSET Run /\ \A q \in {r} : q \in Run /\ leases[q] # NoLease
    BY <2>1
  <2>3. \A q \in Run : IF q \in {r} THEN Ends(q) ELSE Stays(q)
    BY <1>3, <2>1, <2>2, LossMoves
  <2> QED
    BY <1>1, <1>2, <1>3, <2>1, <2>3, EndsFresh
<1>6. CASE CommitTerminal(r, k, calls[t].outcome)
  <2>1. \A q \in Run : IF q = r THEN Ends(q) /\ leases[q].segment = k ELSE Stays(q)
    BY <1>3, <1>6, CommitMoves
  <2> QED
    BY <1>1, <1>2, <1>3, <2>1, EndsFresh
<1>7. MarkRunUnknown(t) => MarkExecutorUnknown(r, k) \/ UNCHANGED runVars
  BY <1>2 DEF MarkRunUnknown
<1>8. Commit(t) => CommitTerminal(r, k, calls[t].outcome) \/ UNCHANGED runVars
  BY <1>2 DEF Commit
<1> QED
  BY <1>4, <1>5, <1>6, <1>7, <1>8

LEMMA EndingSerial ==
    ASSUME HardwareInv, ExecutionInv, SerialInv, CountsGrow,
           NEW t \in Call, MarkRunUnknown(t) \/ Commit(t)
    PROVE  SerialInv'
<1>1. /\ ShapeMove(t) /\ SameMemory /\ UNCHANGED <<table, devices>>
      /\ Goes(t, "discard") \/ Returns(t)
  BY MarkFacts, CommitFacts DEF HardwareInv
<1>2. /\ calls[t].step \in Leaving /\ calls[t].step \notin {"release", "abort"}
      /\ ~At(t, "idle") /\ FreshStays(t)
  BY RequestFresh DEF MarkRunUnknown, Commit, At, Leaving
<1>3. looked' = looked
  BY RequestMoves DEF HardwareInv
<1>4. (\A d \in Context : Runtime(d)' = Runtime(d) /\ Final(d)' = Final(d)) /\ RuntimesShrink
  BY <1>1, SameRuntimes DEF SameMemory
<1>5. \A q \in Run : table'[q] \in {table[q], None}
  BY <1>1
<1>6. FinalOK'
  BY <1>1, <1>2, <1>4, FinalStays DEF ShapeMove, SerialInv
<1>7. CASE Returns(t)
  <2>1. SerialOK(t)' /\ calls'[t].step \notin Provisioning
    BY <1>7, IdleSerial, IdleType DEF Returns, Provisioning
  <2> QED
    BY <1>1, <1>2, <1>3, <1>4, <1>5, <1>6, <1>7, <2>1, RequestSerial
<1>8. CASE Goes(t, "discard")
  <2>1. \A d \in Context : table[calls[t].run] = d => Runtime(d) # calls[t].token
    BY <1>2 DEF SerialInv, SerialOK, Past
  <2>2. \A d \in Context : table'[calls[t].run] = d => Runtime(d)' # calls[t].token
    BY <1>1, <1>4, <2>1
  <2>3. calls'[t].step = "discard" /\ calls'[t].run = calls[t].run
        /\ calls'[t].token = calls[t].token
    BY <1>8 DEF Goes
  <2>4. SerialOK(t)' /\ calls'[t].step \notin Provisioning
    BY <2>2, <2>3, LeavingSerial DEF Leaving, Provisioning
  <2> QED
    BY <1>1, <1>2, <1>3, <1>4, <1>5, <1>6, <2>3, <2>4, RequestSerial
<1> QED
  BY <1>1, <1>7, <1>8

\* A request that waits while nothing in memory and no row changes.
LEMMA StillSerial ==
    ASSUME NEW u \in Call, SerialOK(u), calls'[u] = calls[u],
           UNCHANGED <<runVars, table, context, cleaning>>
    PROVE  SerialOK(u)'
<1>1. \A c \in Context : Runtime(c)' = Runtime(c) /\ Final(c)' = Final(c)
  BY DEF Runtime, Final
<1>2. \A r, k : Fresh(r, k)' <=> Fresh(r, k)
  BY DEF Fresh, Count, runVars, runOnlyVars
<1>3. \A c : Past(u, c)' <=> Past(u, c)
  BY DEF Past, At
<1>4. leases' = leases
  BY DEF runVars, runOnlyVars
<1> QED
  BY <1>1, <1>2, <1>3, <1>4 DEF SerialOK, At

\* An executor that waits for its answers sends a request.
LEMMA ArriveSerial ==
    ASSUME ~Overlap, HardwareInv, ExecutionInv, SerialInv, NEW t \in Call, Arrive(t)
    PROVE  SerialInv'
<1>1. PICK r \in Run, k \in Nat :
              /\ k \in 1..Count(r)
              /\ At(t, "idle") /\ Serves(t, r, k)
              /\ calls'[t].run = r /\ calls'[t].token = k
              /\ \/ calls'[t].step = "admitted" /\ calls'[t].ctx = None /\ Live(r, k)
                 \/ /\ calls'[t].step \in {"batch", "finish", "terminal"}
                    /\ calls'[t].ctx = table[r] /\ table[r] # None
                 \/ /\ calls'[t].step = "commit" /\ calls'[t].ctx = None
                    /\ table[r] = None /\ Live(r, k)
                 \/ /\ calls'[t].step = "discard" /\ calls'[t].ctx = None
                    /\ runs[r].state = "closed"
  BY ArriveFacts DEF HardwareInv
<1>2. Alone(t) /\ UNCHANGED <<runVars, table, context, cleaning, looked>>
  BY ArriveShape, ArriveQuiet DEF HardwareInv, ShapeMove
<1>3. \A c \in Context : Runtime(c)' = Runtime(c) /\ Final(c)' = Final(c)
  BY <1>2 DEF Runtime, Final
<1>4. \A q, j : Fresh(q, j) => Fresh(q, j)'
  BY <1>2 DEF Fresh, Count, runVars, runOnlyVars
<1>5. k # 0 /\ k \in Nat
  BY <1>1
<1>6. \A c \in Context : table[r] = c /\ Runtime(c) # 0 => Fresh(r, Runtime(c))
  BY DEF SerialInv, TableOK
<1>7. OneEach'
  <2>1. \A u \in Call : <<calls[u].run, calls[u].token>> # <<r, k>>
    BY <1>1 DEF Serves
  <2>2. ASSUME NEW u \in Call \ {t}
        PROVE  /\ ~At(u, "idle")' => ~At(u, "idle")
               /\ calls'[u].run = calls[u].run /\ calls'[u].token = calls[u].token
               /\ ~(calls'[u].run = r /\ calls'[u].token = k)
    BY <1>2, <2>1, <2>2 DEF Alone, At
  <2> QED
    BY <1>1, <2>2 DEF SerialInv, OneEach
<1>8. ASSUME NEW u \in Call \ {t}
      PROVE  SerialOK(u)'
  BY <1>2, <1>8, StillSerial DEF SerialInv, Alone
<1>9. SerialOK(t)'
  <2>1. CASE calls'[t].step = "admitted"
    BY <2>1 DEF SerialOK, Past, Leaving, At, Provisioning, Driving
  <2>2. CASE calls'[t].step \in {"batch", "finish", "terminal"} /\ calls'[t].ctx = table[r]
    <3> SUFFICES ASSUME NEW c \in Context, table[r] = c, leases[r].segment = k
                 PROVE  Runtime(c) \in {0, k}
      BY <1>1, <1>2, <1>3, <2>2
         DEF SerialOK, Past, Leaving, At, Provisioning, Driving, runVars, runOnlyVars
    <3>1. k = Count(r)
      BY <1>5, LeaseIsLast
    <3> QED
      BY <1>6, <3>1 DEF Fresh
  <2>3. CASE calls'[t].step = "commit" /\ table[r] = None
    <3>1. \A c \in Context : table'[r] # c
      BY <1>2, <2>3, NoneFacts
    <3> QED
      BY <1>1, <2>3, <3>1 DEF SerialOK, Past, Leaving, At, Provisioning, Driving
  <2>4. CASE calls'[t].step = "discard" /\ runs[r].state = "closed"
    <3>1. \A c \in Context : table[r] = c => Runtime(c) = 0
      BY <1>6, <2>4, FreshState
    <3>2. \A c \in Context : table'[r] = c => Runtime(c)' # k
      BY <1>2, <1>3, <1>5, <3>1
    <3> QED
      BY <1>1, <2>4, <3>2 DEF SerialOK, Past, Leaving, At, Provisioning, Driving
  <2> QED
    BY <1>1, <2>1, <2>2, <2>3, <2>4
<1>10. ASSUME NEW q \in Run, NEW c \in Context, table'[q] = c
       PROVE  /\ Runtime(c)' # 0 => Fresh(q, Runtime(c))'
              /\ looked'[q] \notin {None, c} =>
                    /\ Runtime(c)' = 0
                    /\ \A u \in Call : calls'[u].step \in Provisioning => calls'[u].ctx # c
  <2>1. TableOK(q) /\ table[q] = c
    BY <1>2, <1>10 DEF SerialInv
  <2>2. Runtime(c)' # 0 => Fresh(q, Runtime(c))'
    BY <1>3, <1>4, <2>1 DEF TableOK, Fresh
  <2>3. ASSUME NEW u \in Call, calls'[u].step \in Provisioning
        PROVE  calls'[u] = calls[u]
    BY <1>1, <1>2, <2>3 DEF Alone, Provisioning
  <2> QED
    BY <1>2, <1>3, <2>1, <2>2, <2>3 DEF TableOK
<1>11. FinalOK'
  BY <1>1, <1>2, <1>3, FinalStays DEF SerialInv, At
<1> QED
  BY <1>7, <1>8, <1>9, <1>10, <1>11 DEF SerialInv, TableOK

\* Steps that move no request: rows change, and what the table has may be dropped.
\* The last execution of a run that the table has a context for stays fresh, unless
\* that context took the place of the one that is cleaned up.
LEMMA AttendSerial ==
    ASSUME ShapeInv, SerialInv, calls' = calls, RuntimesShrink,
           \A q \in Run : table'[q] \in {table[q], None},
           \A q \in Run : looked'[q] \in {looked[q], table[q], None},
           \A c \in Context : Final(c)' = Final(c),
           \A t \in Call : calls[t].step \in Driving =>
               Runtime(calls[t].ctx)' = Runtime(calls[t].ctx),
           \A t \in Call : ~At(t, "idle")
                           /\ leases'[calls[t].run].segment = calls[t].token =>
               leases[calls[t].run].segment = calls[t].token,
           \A q \in Run : \A k \in Nat \ {0} : table'[q] # None /\ Fresh(q, k) =>
               Fresh(q, k)' \/ looked[q] \notin {None, table[q]}
    PROVE  SerialInv'
<1>1. OneEach'
  BY DEF SerialInv, OneEach, At
<1>2. ASSUME NEW u \in Call, ~At(u, "idle")
      PROVE  SerialOK(u)'
  <2>1. PICK r \in Run, k \in Nat \ {0} : r = calls[u].run /\ k = calls[u].token
    BY <1>2, UnderWay
  <2>2. SerialOK(u) /\ TableOK(r) /\ calls'[u] = calls[u]
    BY DEF SerialInv
  <2> SUFFICES ASSUME NEW c \in Context
               PROVE  /\ calls[u].ctx = c =>
                            /\ calls[u].step \in Provisioning => Final(c)' = "none"
                            /\ calls[u].step = "store" /\ table'[r] = c => Fresh(r, k)'
                            /\ calls[u].step \in {"batch", "finish", "terminal"}
                                 /\ leases'[r].segment = k => Runtime(c)' \in {0, k}
                            /\ calls[u].step \in Driving => Runtime(c)' = k
                      /\ Past(u, c) /\ table'[r] = c => Runtime(c)' # k
    BY <2>1, <2>2 DEF SerialOK, At, Past
  <2>3. Runtime(c)' \in {Runtime(c), 0} /\ (table'[r] = c => table[r] = c)
    BY NoneFacts DEF RuntimesShrink
  <2>4. Past(u, c) /\ table'[r] = c => Runtime(c)' # k
    BY <2>1, <2>2, <2>3 DEF SerialOK
  <2>5. ASSUME calls[u].ctx = c
        PROVE  /\ calls[u].step \in Provisioning => Final(c)' = "none"
               /\ calls[u].step \in {"batch", "finish", "terminal"}
                     /\ leases'[r].segment = k => Runtime(c)' \in {0, k}
               /\ calls[u].step \in Driving => Runtime(c)' = k
    BY <1>2, <2>1, <2>2, <2>3, <2>5 DEF SerialOK
  <2>6. ASSUME calls[u].ctx = c, calls[u].step = "store", table'[r] = c
        PROVE  Fresh(r, k)'
    <3>1. Fresh(r, k) /\ table'[r] # None
      BY <2>1, <2>2, <2>3, <2>6, NoneFacts DEF SerialOK, At
    <3>2. looked[r] \in {None, table[r]}
      BY <2>2, <2>3, <2>6 DEF TableOK, Provisioning
    <3> QED
      BY <3>1, <3>2
  <2> QED
    BY <2>4, <2>5, <2>6
<1>3. \A u \in Call : SerialOK(u)'
  <2>1. ASSUME NEW u \in Call, At(u, "idle")
        PROVE  Returns(u)
    BY <2>1, ShapeFacts DEF Returns, CallKnown
  <2> QED
    BY <1>2, <2>1, IdleSerial
<1>4. ASSUME NEW r \in Run, NEW c \in Context, table'[r] = c
      PROVE  /\ Runtime(c)' # 0 => Fresh(r, Runtime(c))'
             /\ looked'[r] \notin {None, c} =>
                   /\ Runtime(c)' = 0
                   /\ \A u \in Call : calls'[u].step \in Provisioning => calls'[u].ctx # c
  <2>1. TableOK(r) /\ table[r] = c /\ Runtime(c)' \in {Runtime(c), 0} /\ c # None
    BY <1>4, NoneFacts DEF SerialInv, RuntimesShrink
  <2>2. context \in [Context -> ContextRow]
    BY DEF ShapeInv, HardwareTypeOK
  <2>3. ASSUME Runtime(c)' # 0
        PROVE  Fresh(r, Runtime(c))'
    <3>1. PICK k \in Nat \ {0} : k = Runtime(c) /\ k = Runtime(c)'
      BY <2>1, <2>2, <2>3 DEF Runtime, ContextRow
    <3>2. Fresh(r, k) /\ looked[r] \in {None, table[r]}
      BY <2>1, <3>1 DEF TableOK
    <3>3. Fresh(r, k)'
      BY <1>4, <2>1, <3>2
    <3> QED
      BY <3>1, <3>3 DEF Fresh
  <2> QED
    BY <2>1, <2>3 DEF TableOK
<1>5. FinalOK'
  BY DEF SerialInv, FinalOK, RuntimesShrink
<1> QED
  BY <1>1, <1>3, <1>4, <1>5 DEF SerialInv, TableOK

\* What the other transactions do to the executions and leases.
LEMMA OtherHandlersSerial ==
    ASSUME HardwareInv, ExecutionInv, SerialInv, OtherHandlers
    PROVE  SerialInv'
<1>1. UNCHANGED <<table, context, calls, cleaning, looked>> /\ ShapeInv
  BY DEF OtherHandlers, hardwareVars, HardwareInv
<1>2. \A r \in Run : Stays(r) \/ Starts(r)
  BY OtherMoves DEF HardwareInv
<1>3. \A c \in Context : Runtime(c)' = Runtime(c) /\ Final(c)' = Final(c)
  BY <1>1 DEF Runtime, Final
<1>4. ASSUME NEW q \in Run, NEW k \in Nat \ {0}, Fresh(q, k)
      PROVE  Fresh(q, k)'
  <2>1. runs[q].state # "queued"
    BY <1>4, FreshState
  <2>2. Stays(q)
    BY <1>2, <2>1 DEF Starts
  <2> QED
    BY <1>1, <1>4, <2>2 DEF Fresh, Stays
<1>5. ASSUME NEW t \in Call, ~At(t, "idle"), leases'[calls[t].run].segment = calls[t].token
      PROVE  leases[calls[t].run].segment = calls[t].token
  <2>1. calls[t].run \in Run /\ calls[t].token \in 1..Count(calls[t].run)
    BY <1>1, <1>5, UnderWay
  <2>2. Count(calls[t].run) \in Nat
    BY <2>1, CountType DEF HardwareInv
  <2>3. ~Starts(calls[t].run)
    BY <1>5, <2>1, <2>2 DEF Starts
  <2> QED
    BY <1>2, <1>5, <2>1, <2>3 DEF Stays
<1>6. \A t \in Call : calls[t].step \in Driving => Runtime(calls[t].ctx)' = Runtime(calls[t].ctx)
  BY <1>1 DEF Runtime
<1> QED
  BY <1>1, <1>3, <1>4, <1>5, <1>6, SameRuntimes, AttendSerial

\* Nothing in memory changes but who is cleaned up.
LEMMA StandStill ==
    ASSUME UNCHANGED <<table, context, calls>>
    PROVE  /\ RuntimesShrink
           /\ \A c \in Context : Runtime(c)' = Runtime(c) /\ Final(c)' = Final(c)
           /\ \A t \in Call : calls[t].step \in Driving =>
                 Runtime(calls[t].ctx)' = Runtime(calls[t].ctx)
<1>1. \A c \in Context : Runtime(c)' = Runtime(c) /\ Final(c)' = Final(c)
  BY DEF Runtime, Final
<1>2. \A t \in Call : Runtime(calls[t].ctx)' = context[calls'[t].ctx].runtime
  BY DEF Runtime
<1>3. RuntimesShrink
  BY <1>1, SameRuntimes
<1> QED
  BY <1>1, <1>2, <1>3 DEF Runtime

\* The holder of the attention lock lists, fences, or lets the lock go.
LEMMA FencingSerial ==
    ASSUME HardwareInv, SerialInv, ListExpired \/ FenceExpired \/ SupervisorDone
    PROVE  SerialInv'
<1>1. UNCHANGED <<table, context, calls, looked>> /\ ShapeInv /\ RunInv
  BY DEF ListExpired, FenceExpired, SupervisorDone, HardwareInv
<1>2. ASSUME \A q \in Run : leases'[q].segment = leases[q].segment \/ leases'[q].segment = 0,
             \A q \in Run : \A k \in Nat \ {0} : Fresh(q, k) => Fresh(q, k)'
      PROVE  SerialInv'
  <2>1. ASSUME NEW t \in Call, ~At(t, "idle"), leases'[calls[t].run].segment = calls[t].token
        PROVE  leases[calls[t].run].segment = calls[t].token
    <3>1. calls[t].run \in Run /\ calls[t].token # 0
      BY <2>1, TokenFacts
    <3> QED
      BY <1>2, <2>1, <3>1
  <2> QED
    BY <1>1, <1>2, <2>1, StandStill, AttendSerial
<1>3. CASE ListExpired
  <2>1. \A q \in Run : leases'[q].segment = leases[q].segment
    BY <1>1, <1>3 DEF ListExpired, ReadExpiredLeases, RunInv, RunTypeOK, Lease
  <2>2. UNCHANGED <<segments, cleaning>>
    BY <1>3 DEF ListExpired, ReadExpiredLeases
  <2> QED
    BY <1>2, <2>1, <2>2 DEF Fresh, Count
<1>4. CASE FenceExpired
  <2>1. PICK S \in SUBSET Run :
            /\ LoseExecutors(S, "executor_lease_expired")
            /\ \A p \in S : p \in Run /\ leases[p] # NoLease
            /\ cleaning' = S
    BY <1>1, <1>4, FenceLoses
  <2>2. cleaning = {}
    BY <1>4 DEF FenceExpired, ExpireLeases, HardwareInv, CleaningInv
  <2>3. \A q \in Run : IF q \in S THEN Ends(q) ELSE Stays(q)
    BY <1>1, <2>1, LossMoves
  <2>4. \A q \in Run : \A k \in Nat \ {0} : Fresh(q, k) => Fresh(q, k)'
    BY <2>1, <2>2, <2>3 DEF Fresh, Ends, Stays
  <2> QED
    BY <1>2, <2>3, <2>4 DEF Ends, Stays
<1>5. CASE SupervisorDone
  <2>1. UNCHANGED <<segments, leases, cleaning>>
    BY <1>5 DEF SupervisorDone, runVars, runOnlyVars
  <2> QED
    BY <1>2, <2>1 DEF Fresh, Count
<1> QED
  BY <1>3, <1>4, <1>5

\* An operator resolves: nothing is cleaned up before, the rows change after.
LEMMA ResolveSerial ==
    ASSUME HardwareInv, SerialInv, NEW p \in Run, BeginResolve(p) \/ EndResolve(p)
    PROVE  SerialInv'
<1>1. UNCHANGED <<table, context, calls, looked>> /\ ShapeInv /\ RunInv
  BY DEF BeginResolve, EndResolve, HardwareInv
<1>2. \A r \in Run : Stays(r)
  <2>1. CASE UNCHANGED runVars
    BY <2>1 DEF Stays, Count, runVars, runOnlyVars
  <2>2. CASE ContinueRun(p) \/ (\E key \in Key : ReconfirmLine(p, key)) \/ CloseAttention(p)
    BY <1>1, <2>2, DecisionMoves
  <2> QED
    BY <2>1, <2>2 DEF BeginResolve, EndResolve
<1>3. cleaning = {}
  <2>1. CASE EndResolve(p)
    BY <2>1 DEF EndResolve
  <2>2. CASE BeginResolve(p)
    BY <2>2, RunHardwareAssumption DEF BeginResolve, HardwareInv, CleaningInv, ShapeInv, HardwareTypeOK
  <2> QED
    BY <2>1, <2>2
<1>4. \A q \in Run : \A k \in Nat \ {0} : Fresh(q, k) => Fresh(q, k)'
  BY <1>2, <1>3 DEF Fresh, Stays
<1>5. ASSUME NEW t \in Call, ~At(t, "idle"), leases'[calls[t].run].segment = calls[t].token
      PROVE  leases[calls[t].run].segment = calls[t].token
  BY <1>2, <1>5, TokenFacts DEF Stays
<1> QED
  BY <1>1, <1>4, <1>5, StandStill, AttendSerial

\* The holder of the lock looks up the context that it will clean up.
LEMMA LookToCleanSerial ==
    ASSUME HardwareInv, SerialInv, NEW p \in Run, LookToClean(p)
    PROVE  SerialInv'
<1>1. UNCHANGED <<runVars, table, context, calls>> /\ ShapeInv
  BY DEF LookToClean, HardwareInv
<1>2. /\ \A q \in Run : looked'[q] \in {looked[q], table[q], None}
      /\ \A q \in Run : table[q] # None => (q \in cleaning => q \in cleaning')
  BY DEF LookToClean, HardwareInv, ShapeInv, HardwareTypeOK
<1>3. segments' = segments /\ leases' = leases
  BY <1>1 DEF runVars, runOnlyVars
<1>4. \A q \in Run : \A k \in Nat \ {0} : table'[q] # None /\ Fresh(q, k) => Fresh(q, k)'
  BY <1>1, <1>2, <1>3 DEF Fresh, Count
<1> QED
  BY <1>1, <1>2, <1>3, <1>4, StandStill, AttendSerial

\* The context is dropped, or the table has another one by now.
LEMMA CleanUpSerial ==
    ASSUME HardwareInv, SerialInv, NEW p \in Run, CleanUp(p)
    PROVE  SerialInv'
<1>1. PICK c \in Context :
              /\ c = looked[p] /\ Lock(c) = None
              /\ table' = Popped(p, c)
              /\ \A d \in Context : Final(d)' = Final(d)
              /\ \/ table[p] = c /\ Runtime(c)' = 0
                 \/ table[p] # c /\ context' = context /\ table' = table
              /\ Only(c)
              /\ cleaning' = cleaning \ {p}
              /\ looked' = [looked EXCEPT ![p] = None]
              /\ calls' = calls
  BY CleanUpFacts DEF HardwareInv
<1>2. ShapeInv /\ UNCHANGED <<segments, leases>>
  BY DEF CleanUp, runVars, runOnlyVars, HardwareInv
<1>3. \A q \in Run : looked'[q] \in {looked[q], None}
  BY <1>1, <1>2 DEF ShapeInv, HardwareTypeOK
<1>4. \A q \in Run : table'[q] \in {table[q], None}
  BY <1>1, <1>2, TableShrinks
<1>5. Runtime(c)' \in {Runtime(c), 0}
  BY <1>1 DEF Runtime
<1>6. RuntimesShrink
  BY <1>1, <1>5 DEF Only, RuntimesShrink
<1>7. ASSUME NEW t \in Call, calls[t].step \in Driving
      PROVE  Runtime(calls[t].ctx)' = Runtime(calls[t].ctx)
  <2>1. PICK d \in Context : d = calls[t].ctx /\ Lock(d) = t
    BY <1>2, <1>7, UnderWay DEF At, Driving, OnContext, Locking
  <2>2. d # c
    BY <1>1, <2>1, NoneFacts
  <2>3. Runtime(d)' = Runtime(d) /\ calls'[t] = calls[t]
    BY <1>1, <2>2 DEF Only
  <2> QED
    BY <2>1, <2>3 DEF Runtime
<1>8. ASSUME NEW q \in Run, NEW k \in Nat \ {0}, table'[q] # None, Fresh(q, k)
      PROVE  Fresh(q, k)' \/ looked[q] \notin {None, table[q]}
  <2>1. CASE q # p
    BY <1>1, <1>2, <1>8, <2>1 DEF Fresh, Count
  <2>2. CASE q = p
    <3>1. table[p] # c
      BY <1>1, <1>2, <1>8, <2>2 DEF Popped, ShapeInv, HardwareTypeOK
    <3> QED
      BY <1>1, <2>2, <3>1, NoneFacts
  <2> QED
    BY <2>1, <2>2
<1> QED
  BY <1>1, <1>2, <1>3, <1>4, <1>6, <1>7, <1>8, AttendSerial

LEMMA FreshSerial == HardwareInit => SerialInv
<1> SUFFICES ASSUME HardwareInit
             PROVE  SerialInv
  OBVIOUS
<1>1. \A t \in Call : calls[t].step = "idle" /\ calls[t].ctx = None
  BY DEF HardwareInit, Idle
<1>2. \A r \in Run : \A c \in Context : table[r] # c /\ Final(c) = "none"
  BY NoneFacts DEF HardwareInit, NewContext, Final
<1>3. \A t \in Call : SerialOK(t)
  BY <1>1, <1>2, NoneFacts DEF SerialOK, Past, Leaving, At, Provisioning, Driving
<1>4. \A c \in Context : Final(c) = "none"
  BY DEF HardwareInit, NewContext, Final
<1> QED
  BY <1>1, <1>2, <1>3, <1>4 DEF SerialInv, OneEach, At, TableOK, FinalOK

LEMMA SerialInvStep ==
    ASSUME ~Overlap, HardwareInv, ExecutionInv, SerialInv, [HardwareNext]_allVars
    PROVE  SerialInv'
<1>1. CASE UNCHANGED allVars
  <2>1. UNCHANGED <<runVars, table, context, calls, cleaning, looked>>
    BY <1>1 DEF allVars, hardwareVars
  <2>2. segments' = segments /\ leases' = leases
    BY <2>1 DEF runVars, runOnlyVars
  <2>3. ShapeInv /\ \A q \in Run : \A k \in Nat \ {0} : Fresh(q, k) => Fresh(q, k)'
    BY <2>1, <2>2 DEF Fresh, Count, HardwareInv
  <2> QED
    BY <2>1, <2>2, <2>3, StandStill, AttendSerial
<1>2. ASSUME NEW t \in Call, Arrive(t) \/ Hardware(t)
      PROVE  SerialInv'
  BY <1>2, ArriveSerial, HardwareSerial
<1>3. ASSUME NEW t \in Call, MarkRunUnknown(t) \/ Commit(t), HardwareNext
      PROVE  SerialInv'
  <2>1. \A r \in Run : Count(r) \in Nat /\ Count(r)' \in Nat /\ Count(r) <= Count(r)'
    BY <1>3, CountGrows, CountType DEF HardwareInv, ShapeInv
  <2> QED
    BY <1>3, <2>1, EndingSerial DEF CountsGrow
<1>4. CASE Attend
  BY <1>4, FencingSerial, ResolveSerial, LookToCleanSerial, CleanUpSerial DEF Attend, CleanupStep
<1>5. CASE RestartHardware
  <2>1. HardwareInit'
    BY <1>5 DEF RestartHardware, HardwareInit
  <2>2. (HardwareInit => SerialInv)'
    BY FreshSerial, PTL
  <2> QED
    BY <2>1, <2>2
<1> QED
  BY <1>1, <1>2, <1>3, <1>4, <1>5, OtherHandlersSerial, NextKinds

\* Executors that wait for their answers: whose devices a request may use, and what the
\* table holds for the last execution of a run.
THEOREM SerialInvariant == ~Overlap => (HardwareSpec => []SerialInv)
<1> SUFFICES ASSUME ~Overlap
             PROVE  HardwareSpec => []SerialInv
  OBVIOUS
<1>1. HardwareInit => SerialInv
  BY FreshSerial
<1>2. HardwareInv /\ ExecutionInv /\ SerialInv /\ [HardwareNext]_allVars => SerialInv'
  BY SerialInvStep
<1> QED
  BY <1>1, <1>2, HardwareInvariant, HardwareImplementsRuns, ExecutionInvariant, PTL
     DEF HardwareSpec

\* execute_run_hardware, finish_run_hardware and finalize_run look a context up before
\* they take its lock and validate the lease: what they find in it then is their own.
THEOREM DrivesItsOwnHolds == ~Overlap => (HardwareSpec => []DrivesItsOwn)
<1> SUFFICES ASSUME ~Overlap
             PROVE  HardwareSpec => []DrivesItsOwn
  OBVIOUS
<1>1. ASSUME HardwareInv, SerialInv, NEW t \in Drivers
      PROVE  context[calls[t].ctx].runtime = calls[t].token
  <2>1. PICK c \in Context : c = calls[t].ctx
    BY <1>1, UnderWay DEF HardwareInv, Drivers, At, OnContext
  <2>2. SerialOK(t) /\ calls[t].step \in Driving
    BY <1>1 DEF SerialInv, Drivers, Driving
  <2>3. Runtime(c) = calls[t].token
    BY <2>1, <2>2 DEF SerialOK
  <2> QED
    BY <2>1, <2>3 DEF Runtime
<1>2. HardwareInv /\ SerialInv => DrivesItsOwn
  BY <1>1 DEF DrivesItsOwn
<1> QED
  BY <1>2, HardwareInvariant, SerialInvariant, PTL

\* What a request that is not at "pop" takes from the table had nothing stored in it.
LEMMA RequestDrops ==
    ASSUME HardwareInv, NEW t \in Call, Hardware(t), ~Discard(t),
           NEW r \in Run, NEW c \in Context, table[r] = c, table'[r] # c
    PROVE  Runtime(c) = 0 /\ devices' = devices
<1>1. table \in [Run -> Context \cup {None}] /\ c # None
  BY NoneFacts DEF HardwareInv, ShapeInv, HardwareTypeOK
<1>2. table' # table
  BY <1>1
<1>3. ASSUME CreateContext(t)
      PROVE  FALSE
  <2>1. PICK d \in Context : /\ IF table[calls[t].run] = None
                                THEN Unreferenced(d) ELSE d = table[calls[t].run]
                             /\ table' = [table EXCEPT ![calls[t].run] = d]
    BY <1>3 DEF CreateContext
  <2> QED
    BY <1>1, <1>2, <2>1
<1>4. (EnterProvision(t) \/ Connect(t)) /\ devices' = devices
      /\ table' = PopUnused(calls[t].run, calls[t].ctx)
  BY <1>2, <1>3 DEF Hardware, EnterProvision, Connect, RecordProvision, StoreProvision,
     LookToDiscard, EnterBatch, EndBatch, EnterFinish, EndFinish, EnterTerminal, EndAbort,
     LoseRuntime
<1>5. context[calls[t].ctx].runtime = 0 /\ table' = Popped(calls[t].run, calls[t].ctx)
  BY <1>2, <1>4 DEF PopUnused
<1>6. table[calls[t].run] = calls[t].ctx /\ r = calls[t].run
  BY <1>1, <1>2, <1>5 DEF Popped
<1> QED
  BY <1>4, <1>5, <1>6 DEF Runtime

\* A late request of an earlier execution drops what it finds, and never its own.
LEMMA LateDiscard ==
    ASSUME HardwareInv, SerialInv, NEW t \in Call, Discard(t),
           NEW r \in Run, NEW c \in Context, table[r] = c, table'[r] # c, Runtime(c) # 0
    PROVE  /\ At(t, "pop") /\ calls'[t] # calls[t]
           /\ calls[t].run = r /\ calls[t].token < Runtime(c)
<1>1. At(t, "pop") /\ ~At(t, "idle") /\ Returns(t)
  BY DiscardFacts DEF Discard, At, HardwareInv
<1>2. calls'[t] # calls[t]
  BY <1>1, IdleType DEF Returns, At
<1>3. calls[t].run = r /\ calls[t].token \in 1..Count(r)
  <2>1. table' = Popped(calls[t].run, calls[t].ctx) /\ table \in [Run -> Context \cup {None}]
    BY DEF Discard, HardwareInv, ShapeInv, HardwareTypeOK
  <2>2. r = calls[t].run
    BY <2>1 DEF Popped
  <2> QED
    BY <1>1, <2>2, UnderWay DEF HardwareInv
<1>4. Runtime(c) # calls[t].token
  BY <1>1, <1>3 DEF SerialInv, SerialOK, Past, Leaving, At
<1>5. Runtime(c) = Count(r)
  BY DEF SerialInv, TableOK, Fresh
<1>6. Count(r) \in Nat
  BY CountType DEF HardwareInv
<1> QED
  BY <1>1, <1>2, <1>3, <1>4, <1>5, <1>6

LEMMA DroppedStep ==
    ASSUME HardwareInv, SerialInv, [HardwareNext]_allVars,
           NEW r \in Run, NEW c \in Context, table[r] = c, table'[r] # c
    PROVE  \/ <<r, Runtime(c)>> \notin devices'
           \/ \E t \in Call :
                 /\ At(t, "pop") /\ calls'[t] # calls[t]
                 /\ calls[t].run = r /\ calls[t].token < Runtime(c)
<1>1. Runtime(c) = 0 => <<r, Runtime(c)>> \notin devices
  BY DEF HardwareInv, DevicesInv, OwnersTyped
<1>2. CASE UNCHANGED table
  BY <1>2
<1>3. ASSUME NEW t \in Call, Hardware(t), ~Discard(t)
      PROVE  <<r, Runtime(c)>> \notin devices'
  BY <1>1, <1>3, RequestDrops
<1>4. ASSUME NEW t \in Call, Discard(t)
      PROVE  \/ <<r, Runtime(c)>> \notin devices'
             \/ /\ At(t, "pop") /\ calls'[t] # calls[t]
                /\ calls[t].run = r /\ calls[t].token < Runtime(c)
  <2>1. devices' = devices
    BY <1>4 DEF Discard
  <2> QED
    BY <1>1, <1>4, <2>1, LateDiscard
<1>5. ASSUME NEW p \in Run, CleanUp(p)
      PROVE  <<r, Runtime(c)>> \notin devices'
  <2>1. PICK d \in Context :
            /\ table' = Popped(p, d)
            /\ \/ table[p] = d /\ devices' = devices \ {<<p, Runtime(d)>>}
               \/ table' = table
    BY <1>5, CleanUpFacts DEF HardwareInv
  <2>2. table \in [Run -> Context \cup {None}]
    BY DEF HardwareInv, ShapeInv, HardwareTypeOK
  <2>3. r = p /\ d = c
    BY <2>1, <2>2 DEF Popped
  <2> QED
    BY <2>1, <2>3
<1>6. CASE RestartHardware
  BY <1>6 DEF RestartHardware
<1>7. Attend => table' = table \/ \E p \in Run : CleanUp(p)
  BY DEF Attend, ListExpired, FenceExpired, SupervisorDone, BeginResolve, EndResolve,
     CleanupStep, LookToClean
<1>8. OtherHandlers => table' = table
  BY DEF OtherHandlers, hardwareVars
<1>9. \A t \in Call : Arrive(t) \/ MarkRunUnknown(t) \/ Commit(t) => table' = table
  BY ArriveQuiet DEF MarkRunUnknown, Commit
<1>10. UNCHANGED allVars => table' = table
  BY DEF allVars, hardwareVars
<1> QED
  BY <1>2, <1>3, <1>4, <1>5, <1>6, <1>7, <1>8, <1>9, <1>10, NextKinds

\* _discard_run_state pops the context that the table has for the run, whichever it is:
\* an executor that waits for its answers never drops its own with devices in it.
THEOREM DroppedLetsGoHolds == ~Overlap => (HardwareSpec => DroppedLetsGo)
<1> SUFFICES ASSUME ~Overlap
             PROVE  HardwareSpec => DroppedLetsGo
  OBVIOUS
<1>1. ASSUME HardwareInv, SerialInv, [HardwareNext]_allVars, NEW r \in Run,
             table[r] # None, table'[r] # table[r]
      PROVE  \/ <<r, context[table[r]].runtime>> \notin devices'
             \/ \E t \in Call :
                   /\ At(t, "pop") /\ calls'[t] # calls[t]
                   /\ calls[t].run = r /\ calls[t].token < context[table[r]].runtime
  <2>1. PICK c \in Context : table[r] = c
    BY <1>1 DEF HardwareInv, ShapeInv, HardwareTypeOK
  <2>2. Runtime(c) = context[table[r]].runtime
    BY <2>1 DEF Runtime
  <2> QED
    BY <1>1, <2>1, <2>2, DroppedStep
<1>2. HardwareInv /\ SerialInv /\ [HardwareNext]_allVars =>
        [\A r \in Run : table[r] # None /\ table'[r] # table[r] =>
          LET k == context[table[r]].runtime
          IN \/ <<r, k>> \notin devices'
             \/ \E t \in Call :
                   /\ At(t, "pop") /\ calls'[t] # calls[t]
                   /\ calls[t].run = r /\ calls[t].token < k]_allVars
  BY <1>1
<1> QED
  BY <1>2, HardwareInvariant, SerialInvariant, PTL DEF HardwareSpec, DroppedLetsGo
=============================================================================
