# A TLA+ model of scopecat's daemon and its executors

Scopecat is a local-first toolkit for laboratory experiments. One long-running
daemon (`packages/scopecat-server`) is the only writer of a SQLite database and
the only process that talks to instruments. Client processes ("executors") run
experiments by sending it requests over HTTP; workers replay procedures made of
such experiments and of questions to people; people open interactive instrument
sessions, cancel runs and procedures, and decide what happens to runs, sessions
and procedures whose hardware or effects were left in an uncertain state.

The project is about what this distributed part promises:

- **ownership**: never two owners on one instrument, no quarantined instrument
  given back by itself, no device connected for an owner that is gone;
- **execution**: one executor at a time writes, whoever replaced it and whatever
  requests of its predecessor are still under way; cancellation is kept;
- **evidence**: what coverage, seal and outcome of a run say is what was
  measured, over continuations, lost answers and restarts, in fixed and in
  adaptive plans;
- **automation**: a procedure's checkpoints follow its definition, are never
  taken back, and runnable work ends or is put to a person.

All paths below are relative to `src/packages/scopecat-server/src/scopecat_server/`
unless they begin with `src/`, `docs/` or `scopecat/` (the client package,
`src/packages/scopecat/src/scopecat/`).

## 1. Inventory

### Parts, state, operations

| part | state | operations | what makes it correct |
|---|---|---|---|
| resource claims (`storage/sqlite/control_plane.py`, `schema.py:151`) | table `resource_claims`: resource, owner, active or quarantined | claim all needs, release, quarantine | one owner per resource; claims follow the owner's state |
| run scheduling (`control_plane.py`, `services/executor.py`, `admission.py`, `resource_waits.py`) | `scheduler_runs`, `run_execution_segments`, `executor_leases`, `run_outcomes`, coverage, line confirmations | admit, start, heartbeat, coverage, terminal commit, cancel, continue, reconfirm, close attention, expire, restart | one execution at a time, fenced writes, outcomes that belong to the last execution, cancellation is kept |
| instrument sessions (`control_plane.py:970-1533`, `instruments/runtime.py`) | `instrument_sessions`; contexts, their two locks, connected devices | open, renew, start/finish an operation, fail, close, expire, resolve, restart | devices only under claims, unfinished or unknown effects end in attention |
| lease supervisor (`services/leases.py`, `runtime.py:3600`) | its one thread and the lists it works on | list and fence executors, list and expire sessions | whatever expired is fenced, what renewed is spared |
| run hardware (`runtime.py`, `_runtime_state.py`, `_runtime_support.py`) | `_run_contexts`, `RunContext` objects and locks, owned actors, `_attention_lock` | provision, batch, finish, terminal fallback, discard, cleanup, resolve | one driver at a time, devices of a fenced or closed run are let go |
| instrument actors (`instruments/actors.py`) | owner, connection, epoch, retirement gates | acquire, release, fault, retire, replace backend, shut down | one connection per device, no owner that nobody knows of, every retirement and the shutdown end |
| instrument workers (`instruments/worker*.py`, `backend.py`) | a process per worker, its pipes | driver calls | a call returns, fails or is unknown |
| measurements (`services/active_measurements.py`, `storage/sqlite/execution.py:1333`, `scopecat/execution/interpreter.py`) | buffers per segment, appended chunks, acquisition groups, seal, projection | initialize, ingest, flush, commit a group, cover, seal, finalize | coverage and groups are durable records of one execution, a seal names all of its output |
| adaptive plans (`storage/sqlite/execution.py:733`, `services/point_plans.py`, `scopecat/adaptive_coordination.py`) | accepted points, decisions, operator queue, closure; the executor's coordinator | propose, decide, queue, close, abandon | what is measured was accepted, requests are answered truly, success is the whole plan |
| domain jobs (`execution.py:470`) | transitions of resumable jobs | invoke, suspend, resume, end | transitions in execution order |
| procedure automation (`services/automation.py`, `storage/sqlite/automation.py`, `scopecat/automation/worker.py`) | procedure runs, leases, step attempts, inputs, resource waits; the worker's replay | lease, begin, settle, wait, answer, retry, cancel, close | checkpoints follow the definition and stay, children follow their parents, runnable work ends or is put to a person |
| schedules, project workers, calibration tasks | due times, worker processes, task queues | trigger, start, stop | at most one run per due time |
| exit drain, background rounds (`services/exit_drain.py`) | admission gate, work in flight | begin, finish, drain | nothing is admitted after the drain |
| lifecycle (`lifecycle.py`, `_daemon_entry.py`) | discovery file, lock of the home | start, stop | one daemon per home |
| configuration, samples, devices, analyses, exchange | versioned documents, catalogues, files | create, revise, query | optimistic revisions |
| authoring, compiler, planning, SDK, UI, desktop host, instruments, quantum (other packages) | none in the daemon | pure functions and clients | - |

### How they interact

- An executor's request is served by its own thread. Every change of the
  database is one write transaction; the daemon serialises them (single writer).
- A handler that touches hardware alternates between volatile state under locks
  (`_run_lock`, the lock of a `RunContext`, `lease_lock` and `runtime.lock` of a
  session, `_open_lock`, `_attention_lock`), device calls that may take long,
  and transactions that re-validate the executor's token ("fence").
- Runs and sessions meet in one table, `resource_claims`.
- One supervisor thread fences executors and expires sessions.
- At start the daemon abandons every executor lease and reconciles every session
  before it serves anything (`reconcile_startup`, `runtime.py:3762`).
- Operators resolve attention: continue, reconfirm the wiring, or close.
- A worker leases a procedure and replays its definition from the first step:
  settled steps answer from their checkpoint, the next one is begun, its child
  run is submitted and executed (or joined, if a predecessor started it).
- An executor hands measurement records to a buffer in the daemon, which
  appends them asynchronously; coverage and groups are committed only after what
  they name. An adaptive run asks its optimizer, or the operators' queue, for
  more points and has each decision recorded before it measures them.

### What is hard here

Clock readings taken before the wait for the writer; lists read on one
connection and used in another transaction; contexts looked up in a table and
locked later; device calls between a check and its use; a handler that changes
memory first and the database next; a supervisor that waits for the locks of
those it supervises; a daemon that ends between two transactions; retries of
requests whose answers were lost; a successor that finds half of what its
predecessor recorded; connects that finish after the maintenance they overlap
with; checkpoints of a worker that is gone. `PROJECT.json` lists the hazards line by line.

## 2. Modules

| module | models | extends |
|---|---|---|
| `ResourceClaims` | the claims table and the statements run against it | - |
| `RunControl` | every transaction of run scheduling | `ResourceClaims` |
| `InstrumentSessions` | the session table together with the daemon's contexts, devices and locks for it | `ResourceClaims` |
| `ControlPlane` | runs and sessions over one table, the supervisor, the restart | `RunControl`, `InstrumentSessions` |
| `Ownership` | abstract: owners hold, lose and give back exclusive resources | - |
| `RunHardware` | the run contexts in memory and the handlers that use them, on top of `RunControl` | `RunControl` |
| `InstrumentActors` | the actors of the devices: acquisition, maintenance, replacement of the driver backend, shutdown | - |
| `RunEvidence` | measurement buffer, log, groups, coverage, seal and outcome of one run, with the executor that produces them | - |
| `AdaptivePlan` | the growing plan of an adaptive run: executor, optimizer, operator queue, ledger | - |
| `Automation` | one procedure: its leases, attempts, input, waits and child run, the workers that replay it, the operators | - |
| `RunControlProofs` | theorems: the claims table; types, claims, leases of runs | `RunControl` |
| `RunHistoryProofs` | theorems: one execution, how runs may change, which execution points and outcome belong to, confirmed wiring | `RunControlProofs` |
| `RunHardwareProofs` | theorems: locks, owners and drivers of run hardware, its refinement of run scheduling | `RunHardware`, `RunHistoryProofs` |
| `ControlPlaneProofs` | theorems: types, claims, devices, ends of sessions; their composition with runs, renewed leases, unknown effects, the refinement of `Ownership` | `ControlPlane`, `RunHistoryProofs` |
| `InstrumentActorsProofs` | theorems: owners, connections and the backend of devices | `InstrumentActors` |
| `AutomationProofs` | theorems: checkpoints, cancellation, leases and the child of a procedure | `Automation` |
| `RunEvidenceProofs` | theorems: coverage, groups, seal and outcome of a run against its log | `RunEvidence` |
| `AdaptivePlanProofs` | theorems: the accepted points, what executors measure of them, requests and success of adaptive runs | `AdaptivePlan` |
| `MC...` | values of the constants for TLC | the module they instantiate |

`RunControl` has one action per transaction. What a handler does before its
transaction and does not check again is a step of its own: `ReadHeartbeatClock`
(the clock `renew_executor_lease` reads before it waits for the writer) and
`ReadExpiredLeases` (the supervisor's list). A token is the pair of a run and the
ordinal of a segment. Requests may come from any token that was ever granted, in
any order, at any time: lost, late, repeated and reordered requests need no
network in the model.

`InstrumentSessions` and `RunHardware` go through a handler in steps. A step ends
where another thread can get in: before a lock is taken, around a device call,
around a transaction. In `RunHardware` each of the `Call` slots serves one
request; `calls[t].step` is its program counter. Looking up a context and locking
it are separate steps, as in the code. `Overlap` says whether the requests of one
executor overlap: they do when a client sends them from several threads, and when
a worker joins a child run that a predecessor still executes.

`ControlPlane` composes runs and sessions and gives the supervisor its one
thread (`phase`). Its refinement mapping `HeldByState` computes, from the rows of
`scheduler_runs` and `instrument_sessions` *without* the claims table, what every
owner holds; TLC checks that this implements `Ownership`.

`InstrumentActors` goes below `RunHardware`, where a device is merely owned or
not. Threads acquire groups of devices key by key; a slot of a device is one
actor object with its owner, its connection and the backend it was connected
through. A retirement, the replacement of the backend and the shutdown close
gates, wait for acquisitions under way and disconnect; each step ends where the
code releases a lock or calls a driver.

`RunEvidence` has the executor as a program that measures, hands over, flushes,
commits groups and coverage, and seals (`ex[e].pc`, `mode`), the daemon's buffer
and ingest as steps of their own because they run on the daemon's event loop, and
the log, groups, coverage, seal and outcome as the rows they are. The scheduling of
`RunControl` is reduced to the row and lease of one run.

`AdaptivePlan` sends one request at a time to the daemon (`calls`); a lost
answer moves the request to `late`, from where the daemon may still serve it. The
executor's view (`points`, `ledger`, `open`) and the daemon's (`plan`,
`decisions`, `queue`) are separate state, as in the code, where the coordinator
counts a decision before the daemon has it. An accepted fragment is recorded with
the position of its first point, as `point_index` is in the code, so that what an
executor measures is a set of fragments and how far it reaches a largest element.
Records and groups are those of `RunEvidence`.

`Automation` has the procedure's row, attempts and lease, the worker's position in
its replay, and its child run reduced to what a procedure can see of `RunControl`
(absent, queued, leased, fenced, ended). Commands carry the revision and the
lease the worker last saw; renewals are abstracted to "the lease has lapsed or
not", read before the writer is waited for.

Definitions called "Mutant of ..." stand beside the definition they would
replace. Each is a plausible mistake in that piece of code; `PROJECT.json`
says which property it breaks.

### Abstractions

- **Time.** `expires_at` is kept as two facts: whether it has passed
  (`expired`), and whether it had at the time of the supervisor's pass
  (`overdue`). The wall clock is assumed not to run backwards. How *long* a wait
  takes is not modelled.
- **Claims.** The schema makes the resource a primary key, which would refuse a
  second row; the model's table would accept it, so exclusiveness is shown of the
  checks in the handlers.
- **Plans.** `RunControl` and `RunEvidence` have fixed plans: `PointCount` points
  in the groups of `Schedule`, coverage is a prefix. `AdaptivePlan` has a
  fragment as a number of rows for each of some regions; coordinates, their
  snapping and the content of observations are left out.
- **Requests** are well formed and authorised, their idempotence is modelled by
  the state it depends on (segment holders, request keys, stored receipts,
  operation ids, revisions).
- **Devices.** Connecting, observing and reconciling the run-start state is one
  step of `RunHardware`. A driver call returns, fails or ends unknown.
- **AlreadyClosed** compares result and certainty of outcomes, not their problems.
- **Restart.** The two reconciling transactions of a start run before any request
  is served and are idempotent; they are one step.
- **Procedures.** A definition is a sequence of steps that measure
  (`run`) or ask a person (`interpretation`); other step kinds settle like one of
  these two. Submission, practice ownership and check completion are left out.
- History variables: `runtime`, `holders`, `by`, the writers in `covered`,
  `unknown` record who did what and influence only the bounds.

## 3. Runs

| run | instance | states | shows |
|---|---|---|---|
| `run_history` | a guarded run and one that competes with it for an instrument, three executions, three processes, two executors | 633,000 | one execution at a time, coverage and outcome belong to their execution, cancellation is kept, wiring is confirmed, quarantine ends by decision |
| `control_plane` | two runs, a session, one restart | 1,095,000 | claims are exclusive and follow the rows, devices only under claims, renewed leases are spared, attention for unfinished operations, refinement of `Ownership` |
| `sessions_crash` | two sessions, restarts | 113 | **violated**: see findings |
| `supervisor` | a run and a session that compete for one device, a session with another, fairness | 185,000 | expired executors and sessions are fenced although the thread may wait for another session; unknown effects are quarantined within a process |
| `run_hardware` | one execution, two overlapping calls, three contexts, a heartbeat, two processes, fairness | 293,000 | one driver at a time, stored runtimes are owned, cleanup spares whoever renewed, the attention lock is always given back |
| `run_hardware_serial` | three executions, two calls that do not overlap if they are of one executor, three contexts, fairness | 414,000 | nobody drives a predecessor's hardware, only a late request of an earlier execution drops a context with devices, hardware of the first two executions is let go once they are fenced |
| `run_hardware_late` | two calls, three executions, four contexts | 250,000 until found | **violated**: see findings |
| `instrument_actors` | two devices, two threads, one release, one replacement, the shutdown, fairness | 68,000 | one connection per device, no ghost owner, owners keep their devices, nothing connected through an old backend, maintenance and shutdown end with nothing left |
| `run_evidence` | three points in the groups `<<{0,2},{1}>>`, chunks of two, two executions, one mishap | 1,178,000 | coverage is durable, groups come from one execution, a continuation is accepted, seals are complete, selections final |
| `adaptive_plan` | two regions, one initial point, limit three (two per region), one attempt of the optimizer, one operator request, two executors, one mishap | 2,350,000 | what is measured was accepted, requests are answered truly, success is the whole plan |
| `automation` | a procedure that measures and then asks, two workers, two attempts per step, two mishaps, fairness | 83,000 | checkpoints follow the definition and stay, the child follows its parent, cancellation stops, live leases are kept, runnable work ends or is put to a person |
| `automation_halted` | the same with the property the documentation states | 7,600 | **violated**: see findings |

Each module has a type invariant (`TypeOK`, `HardwareTypeOK`, `ActorsTypeOK`,
`EvidenceTypeOK`, `PlanTypeOK`, `AutomationTypeOK`). All but `EvidenceTypeOK` and
`PlanTypeOK` are proved; these two can be added to the configuration of their module.

### Bounds

`MaxSegments` executions per run (two are enough for a predecessor and a
successor, three for a middle one), `MaxRuntime` daemon processes, `MaxBeats`
heartbeats between clock and writer, `PointCount` points, `Call` requests at one
time, `Context` context objects. A context object that neither the table nor a
thread refers to is reused, so `Context` bounds the objects alive at one time: one per
call, one in the table and one the cleanup waits for cover every case. Two runs suffice for
contention because every transaction concerns one owner and those it conflicts
with; the theorems cover any number. `run_history` gives the run that only
competes one execution and both together three (`FewExecutions`).

In `supervisor` the session that has a device of its own can be active and in use
while the other session, or the run, is past its lease: then the one thread may hold the first
one's lease lock and wait for its turn. `PlainEnd` leaves out what a run ends
with, which neither leases nor sessions depend on.

`OverlapBound` and `SerialBound` keep the two hardware runs with fairness small:
two outcomes of a request (in `SerialBound` a fixed one for each execution: the
middle one fails, the others succeed), no cancellation of an execution, and in
`OverlapBound` no execution of a restarted daemon. One execution suffices for `run_hardware`: what
overlaps is requests of one token. `run_hardware_serial` has three because a
late request of the first, a request of the second and the third execution's context can meet:
without its exception `DroppedLetsGo` fails there.

`MaxMishaps` bounds lost answers, crashes, lost leases and restarts where they are
choices of the environment: one in `run_evidence` and `adaptive_plan` (any place,
then an undisturbed successor), two in `automation` (a worker is lost, and then
its replacement). In `adaptive_plan` the limits are chosen so that the
optimizer and the operator compete for the last points, of a region and of the
run; a second executor gets into a continued run only if it read the run's
history before the first one started. `Slot`s of `InstrumentActors` are the actor
objects of one device alive at one time: the old and the new one.

`CHECK_DEADLOCK FALSE` everywhere: when everything is closed and the bounds are
used up, or after the shutdown, nothing is left to do.
Symmetry is used for executors, calls and contexts in runs without liveness. The hardware
runs with fairness cut the same states by order (`InOrder`): a new context is the
first object that is free, and a request that finds no call under way is the first call.
A behaviour that leaves the order differs from one that keeps it by an exchange of two
objects nobody refers to, or of two calls that are idle, at each such step. No
call that could go on is renamed, so its fairness, and with it liveness, is not affected.

### Fairness

`FairSpec` (`supervisor`): weak fairness of the supervisor thread's next step
(it repeats its pass forever, `leases.py:76-87`), of a device call that has begun
(calls return or fail; a worker that hangs is outside the model), of the steps
after it and of a heartbeat that has begun. Two assumptions are about time. The
supervisor gets a session's `lease_lock` by *strong* fairness: that lock is also taken
by heartbeats, but these are a third of the lease apart
(`scopecat/api/instruments.py:184-191`), so it is free again and again and for
long. Its turn at `runtime.lock` is not assumed: an owner may run one operation
after the other and keep the thread waiting. What ends the wait is that the thread
holds the lease lock meanwhile, so the session cannot renew, its lease runs out
(`RunsOut`) and its next operation is refused. Without `RunsOut` TLC finds the
thread waiting forever for a session that is in use, while the lease of another one is over.
Nothing makes an owner renew or an
operator decide. With weak fairness the supervisor may starve at `_open_lock`
if sessions are opened without end; each session of the model is opened once, so
this is not represented. `FairHardwareSpec` (`run_hardware`, `run_hardware_serial`): weak
fairness of every call under way, and of the one thread that holds `_attention_lock`
(`HolderStep`: the supervisor's pass, or an operator's resolution). Nothing makes a request arrive or a lease lapse. The
daemon may restart.

`instrument_actors`: threads run on, and a driver call returns because the worker
bounds each of them by an operation timeout (`instruments/worker.py:281`, `638`).
Nothing makes a thread acquire, or an operator begin maintenance.

`automation`: a resident worker polls for procedures it may run
(`scopecat/api/project_worker.py:313-346`), a worker that is alive takes its next
step, leases of dead workers lapse, the supervisor fences a child that nobody
renews, other owners of the resources free them. Nobody makes an operator answer,
retry or cancel: `Progress` ends in "is put to a person". It excepts the states in which
a procedure is `Halted`; that these exist is the finding of `automation_halted`.

## 4. Proofs

All theorems hold for all values of the constants that satisfy the named
assumptions (`NeedsAssumption`, `RunControlAssumption`, `SessionAssumption`,
`OwnersAssumption`, `RunHardwareAssumption`, `ActorsAssumption`,
`AutomationAssumption`, `EvidenceAssumption`, `AdaptiveAssumption`): any runs, sessions, executors and resources, any number of
executions, heartbeats and restarts.

**Claims.** The first lemmas of `RunControlProofs` say what claiming, releasing and
quarantining do to the rows of an owner and of everyone else. What is proved of
runs, sessions and hardware rests on them.

**Runs: types and claims** (`RunControlProofs`). `RunTypeCorrect`:
`RunSpec => []RunTypeOK`. `RunInvariant`: `RunSpec => []RunInv`, where
`RunInv == RunTypeOK /\ ExclusiveClaims /\ LeasesMatch /\ ClaimsMatchState`; its
corollaries are `RunClaimsFollowState` and `RunsExclude`.
`ClaimsMatchState` alone is not inductive: `_expire_one` quarantines the claims of
a leased run and *deletes* those of any other run that has a lease row, and
heartbeats and commits find a run by its lease. `LeasesMatch` (a run has a lease iff it
is leased) closes the gap. `ExclusiveClaims` needs the types: a start adds rows
for resources no row mentions. The proof has one lemma per transaction
(`...Keeps`), each from two general facts: a step that changes one run
(`OneRunStep`), and a step that touches neither claims nor states (`QuietStep`).

**Runs: executions** (`RunHistoryProofs`). `RunExecutesOnce`:
`RunSpec => []SingleExecution`, from `ExecutionInv`, which adds to `RunInv` that a
lease carries the token of the last segment and that no other segment is under
way. `RunInv` is needed because `_finish_execution_segment` ends the *last*
segment, which is the one under way only if the run it is called for has a lease.

**Runs: histories** (`RunHistoryProofs`). `HistoryInv` adds to `RunInv` how
cancellation, outcome, reason and lease of one run belong together (an outcome
exists only in a closed run, a cancelled run is never queued, overdue leases are
expired ones). From it follow what no step may do: succeed after a cancellation
(`CancelledStaysUnsuccessful`), touch a closed run (`ClosedRunsStay`), restart a
cancelled run (`CancelledRunsStayStopped`), give back quarantined resources
without a decision (`QuarantineIsDecided`), record what an expired or replaced
token writes (`LateWritesAreRefused`), fence an executor that renewed in time
(`RenewedExecutorsAreSpared`).

**Runs: evidence of executions** (`RunHistoryProofs`).
`PointsBelongToTheirExecution`: `RunSpec => []CoverageAttributed`. `CoverageInv`
adds to `ExecutionInv` that no cut lies beyond what is covered, which is what keeps
new points out of intervals that have ended (that the ends are ordered would need
an induction over the segments, this does not), and that a run without segments has
no points. `OutcomeIsOfTheLastExecutor`: `RunSpec => []OutcomeFromLastExecutor`,
inductive together with `ExecutionInv`: an open run has no outcome, hence no
segment that succeeded, whoever closes it next. `GuardedRunsAreVouchedFor`:
`RunSpec => []WiringIsVouchedFor`; `WiringInv` adds that the sets compared are
finite, and that a run not yet admitted has no segment, because admission writes
the confirmations anew.

**Sessions** (`ControlPlaneProofs`). `SessionInvariant`: `SessionSpec => []SessionInv`,
where `SessionInv` adds `HandlersOK` to types and claims: what a half-done
handler has left of its session. Without it nothing is inductive: the step that
closes a row does not touch the devices, it relies on an earlier step of its
thread having let go of them, and on nobody having opened or visited the session
in between. Corollaries: `SessionClaimsFollowState`, `DevicesUnderClaims`,
`UnfinishedGoesThroughAttention`, `ClosedSessionsStay`.

**Composition** (`ControlPlaneProofs`). `PlaneInvariant`: `Spec => []PlaneInv`,
the conjunction of `RunInv` and `SessionInv`. Each side's steps are shown to leave
the rows of the other alone (`RunEffectForeign`, `SessionEffectForeign`); the
restart composes the loss of executors with the reconciliation of sessions on one
table. `PlaneImplementsOwnership`: `Spec => ImplementsOwnership`, the refinement,
by reducing every step to one of four effects on what its owner holds (nothing,
acquire, give up, lose) and these to steps of `Ownership`. The invariant is
needed in one place: an owner finds its resources free in the *claims table*,
`Ownership` wants no conflicting owner to hold by its *row*. Also
`PlaneTypeCorrect`, `PlaneClaimsFollowState`, `PlaneDevicesUnderClaims`,
`RunsStayOffSessions`, `SessionQuarantineIsDecided` and
`PlaneUnfinishedGoesThroughAttention`.

`RenewedAreSparedHolds`: `Spec => RenewedAreSpared`. What was past its time when the
supervisor listed it (`overdue`) is still `expired` as long as nobody renewed it
(`TermsOK`, and `LeaseOK` of run histories, whose step lemmas are used for the runs);
only `Expire` gives back a lease lock it has taken. `OnlyRestartsForget`, for any number
of restarts: no step but a restart closes a session that had an effect of unknown
outcome and has not been through attention. `UnknownOK` is the invariant: such a session
waits for its own thread to mark it, with its context gone and its lock held, so that no owner,
expiry or abort reaches it. Its corollary `UnknownEffectStaysQuarantined` is
`MaxRuntime = 1 => (Spec => UnknownEffectIsQuarantined)`; with restarts the
property does not hold (finding 1), and this is the only reason.

**Run hardware** (`RunHardwareProofs`), for any runs, requests and context objects,
and with overlapping requests. `RunHardwareAssumption` says that every run of the model needs
instruments: one that needs none stores a receipt and no runtime
(`instruments/runtime.py:487-502`). `HardwareInvariant`: `HardwareSpec => []HardwareInv`,
where `HardwareInv` has four parts. `RunInv` is kept because every step is one of
`RunControl` or leaves its rows alone; that is `HardwareImplementsRuns`:
`HardwareSpec => RunSpec`. `ShapeInv` says what a request keeps from step to step: a
token that was granted, its context, and inside of that context's lock the lock and
the runtime it drives. `DevicesInv` is about the ways from a run to a context
(`Refers`: the table, a request, the cleanup): a context is reached from one
run only, of the contexts reached from a run at most one has a runtime, and what it has
is owned; while a request has connected devices and not yet stored them, none has
one. Nothing weaker is inductive, because a dropped context lives on in requests that
wait for its lock and can come to drive it. That a second connect cannot slip in between is due to the actors
alone: whoever connects finds no owner of a device the run needs, hence no
runtime in any context of the run. `CleaningInv` says that cleanup reaches runs in attention only.
Corollaries are `HardwareTypeCorrect`, `StoredIsOwnedHolds`, `OneDriverHolds` and
`LiveIsSparedHolds`, where runs in attention have no lease.

For executors that wait for an answer before they send the next request (no `Overlap`),
`SerialInvariant` adds whose hardware it is: `~Overlap => (HardwareSpec => []SerialInv)`.
A request of an execution that was replaced can still wait for a context of the new
one, and nothing it looks at before it takes the lock keeps it off. What does is that the
lease is validated again inside of the lock: `SerialOK` says that a
request whose token is that of the lease finds in its context nothing or what is its
own. It holds because what the table has is the last
execution's (`TableOK`, `Fresh`), which needs in turn that a request that ends its
execution has let go of its devices first (`Past`), that the cleanup which was overtaken by a
resolution waits for a context that is not in the table any more, that nobody provisions
one that is being finalized (`FinalOK`), and that no two requests present one token
(`OneEach`). `ExecutionInv` of run scheduling, got through the refinement, supplies that the
lease is that of the last execution. Corollaries: `DrivesItsOwnHolds` and
`DroppedLetsGoHolds`, the second of which proves that finding 4 below is the only way for
a context to be dropped with devices in it.

**Devices** (`InstrumentActorsProofs`), for any devices, threads, groups and
actor objects. `ActorsInvariant`: `Spec => []ActorsInv`. None of `OneConnection`,
`NoGhostOwner` and `ConnectedToActive` is inductive by itself: each says something
of the actor in the table, while the steps that could break it act on the actor
object a thread got hold of some steps ago. `ActorsInv` says what each of them
knows in between: of a thread, for every step of an acquisition, whose handles it
has, where it is counted and which actor it is connecting, alone and with nobody
owning it (`RequestOK`, `LineOK`); of a device, that an actor object which is not
registered is neither owned nor connected (`DeviceOK`); of a retirement, that once
the acquisitions behind its gate have drained it knows every registered actor
there, and in the end there is none (`RetirementOK`); of the replacement, that all gates are closed
until the previous backend has stopped, so that nothing is connected when the
active one changes (`ReplacementOK`, `BackendOK`). Corollaries are
`OneConnectionHolds`, `NoGhostOwnerHolds`, `ConnectedToActiveHolds`, and the action
property `OwnerKeepsDeviceHolds`: `Spec => OwnerKeepsDevice`, where a connecting
thread is shown to be alone with its actor.

**Procedures** (`AutomationProofs`), for any definition, any number of workers, of
attempts and of mishaps. `AutomationInvariant`: `Spec => []AutoInv`, from which
`ProcedureFollowsItsDefinition` (`StepsFollowDefinition` and the types). The
checkpoints are not inductive alone: the daemon never checks that the step a
worker begins is the next one, or that a worker that ends a procedure has been
through it. It is the worker's replay that makes it so, and `AutoInv` says what of
that outlasts a lost lease (`Grounded`): the steps a worker walked over *have*
succeeded, whoever settled them, and it ends the procedure for a reason that is on
record. It adds that a question is open only while the procedure waits for the
answer, without which `_begin_step` could append an attempt over an open question
(its condition names only failed, running and succeeded ones), and that an expired
lease which an acquisition saw is still that lease while its snapshot is current.
Everything a transaction does to attempts is one of two operations, `Grown` and
`Marked`; both keep what is settled (`Stable`), and that is all the workers rely
on. From it `CheckpointsAreFinal`: `Spec => SettledIsFinal`, `CancellationIsObeyed`:
`Spec => CancellationStops`, and `LeaseIsExclusive`: `Spec => LiveLeaseIsKept`.
`NoChildIsLeftBehind`: `Spec => []ChildFollowsParent`; `ChildInv` ties a child that
queues to an unsettled step of a procedure that nobody cancelled, and says that
whoever executes a child, or reports that it failed, found it started.

**Evidence** (`RunEvidenceProofs`), for any number of points, any schedule that
partitions them into groups, any chunk size, and any number of executions, restarts
and broken connections (`EvidenceAssumption`). `EvidenceInvariant`:
`Spec => []EvidenceInv`. The four invariants are about tables, and the daemon
takes what it writes into them from the executor: it never checks that a coverage
ends between two groups, that the points it covers are in completed groups
(`advance_in_transaction` asks for *a* record of each), or that a run that ends in
success has been sealed. So the invariant follows the executor through its requests. `WorkOK`
says that what it leaves out is covered or committed, that it takes no group twice, and
that its next coverage lies within what it leaves out and what it has handed on;
`StageOK` that it asks for coverage when every group handed on has been acknowledged,
for the seal when every group executed has, and for success after the seal; `MadeOK`
that the records it holds are those of its groups, for an executor that may still seal.
`CallOK` is what remains of this for a request that nobody waits for any more and that
the daemon may serve much later: committed groups stay committed, so an old coverage
or seal is as justified as on the day it was sent (`CallStays`, `ExecutorStays`).

Two facts carry the tables. A durable cut has every group on one side
(`CutSplitsNoGroup`), which is why a coverage and a set of groups read one after the
other fit together (`ContinuationIsAcceptedHolds`). And a point has a selected
record iff its group is completed (`SelectedPoints`): advancing the coverage finds all
its points selected, and a seal whose count is right does too, because the points its
executor counts are as many points of completed groups (`CountedPoints`,
`SealSelectsNothing`). For these plans `_finalize_measurement_projection` therefore
never chooses anything that `commit_recovery_groups` has not, and
`GroupFromOneExecutionHolds` and `SelectionIsFinalHolds` follow. Of the buffer the
invariant says no more than its type: whatever it holds, the append is checked against the
log and the seal against the fragment. `SealedIsCompleteHolds` needs that after a seal nothing is
appended, and that a commit after it would find its points selected.
`CoverageIsDurableHolds` is the remaining corollary, `EvidenceTypeCorrect` the types.
TLC checked `EvidenceInv` on the instance of `run_evidence` before it was proved.

**Adaptive plans** (`AdaptivePlanProofs`), for any regions, initial points, limits and
sizes of fragments, and any number of executors, requests and lost answers
(`AdaptiveAssumption`). `PlanInvariant`: `Spec => []PlanInv`. The daemon checks that an
accepted fragment starts where its plan ends and that coverage, the caller's count and
the plan agree when it closes; it keeps no relation between its tables and what an
executor measures, and it may serve a request long after its sender went on. `PlanInv`
supplies both. `LedgerOK`: the accepted fragments tile the plan (`Tiled`), and a closed plan
is covered to the end. `QueueOK`: a request has at most one decision, and its status
tells which (`Matched`). `ExecutorOK`: the fragments an executor goes by are the first ones
(`Leading`), also if another executor's decisions, or late ones of its own, have extended the plan
since, an append it waits for starts where they end, and one that
is going to report success has measured the whole of a closed plan. `CallOK` says what stays
true of a request however late it is served: the entry it decides exists, the coverage
it reports ends within the plan, the success it reports is of the whole plan.

Three facts carry it. A decision served late is refused or starts at the end of the
plan, so an executor that has moved on never finds points inserted before its own
(`LeadingStays`). The operation of a decision names its content, so an executor whose
decision was already on record gets the points it expects, in their places. And a closed plan
changes no more, which is why success may be committed late. Corollaries are
`PlanLeadsExecutorsHolds`, `AnswersAreTrueHolds`, `SuccessIsWholePlanHolds` and, for the types,
`PlanTypeCorrect`. TLC checked `PlanInv` on the instance of `adaptive_plan` before it was
proved. Of the coordinator's ledger the proof uses its type only: whether a proposal fits
its budgets is the executor's business, and the theorems hold whatever it decides.

**Only model-checked:** what must eventually happen: that expired leases are fenced,
that devices of a fenced token are let go and the attention lock is freed, the end of
every maintenance, and the progress of procedures. Liveness, ENABLED and induction over
data are out of the prover's reach and stay with TLC. Every invariant and action property
that a passing run checks is stated by a theorem.

## 5. Findings

1. **An unknown effect can be forgotten by a restart** (`sessions_crash`).
   `_execute_interactive_apply` records an unknown receipt and clears the active
   operation in one transaction and quarantines the session in another
   (`instruments/runtime.py:3219-3227`). A daemon that ends in between closes the
   session as idle at its next start and frees the instruments.
2. **A cancelled procedure can stay open for good** (`automation_halted`). When a
   worker ends between the begin and the settlement of a step and a cancellation
   is pending, no replacement may begin the step (`worker.py:736-741`,
   `services/automation.py:1135`), settle it or close the procedure
   (`automation.py:1806`), and no command of an operator ends it.
3. **So can one whose step has failed** (`automation_halted`). A worker that ends
   between `fail_step` and `close` leaves a procedure whose replayed step is
   refused (`automation.py:1157`); every replacement lets its lease lapse. An
   operator can still cancel it.
4. **A closed run can still own hardware** (`run_hardware_late`). A request that
   loses its hardware marks its executor unknown and drops the context *the table
   holds*, which may be its successor's, without releasing what is in it
   (`instruments/runtime.py:3704-3712`, called from `4185` even if the token is no
   longer on record). The terminal commit of the successor then finds no context,
   and nobody releases the actors until the daemon ends; the docstrings of
   `finalize_run` and `await_run_cleanup` (`3675`, `3725`) promise otherwise. It takes
   two executions that went by and a resolution that overtook the cleanup: the
   attempt to prove the property found it, TLC on two executions could not.
   `DroppedLetsGo` says that this is the only way a context with devices is dropped.
   The request it takes is the second execution's: a late, refused provision of the
   first one drops the second's context while that is empty, the second's request
   connects in it and loses its lease, and then drops the third's. For this reason
   `FencedLetsGo` is about the tokens of the first two executions.

### Seen while modelling, without a run

- **A resolved run can still own hardware.** A provision of the successor that
  waits for a context which its predecessor drops from the table connects
  hardware where cleanup does not look for it (`instruments/runtime.py:443-460`,
  `3704-3712`, `3724-3732`); the docstring of `await_run_cleanup` promises
  "Complete hardware cleanup before quarantined resources are released." The
  hardware is let go when the request ends, hence the `Idling(r)` of
  `ClosedRunLetsGo`.
- With overlapping requests of one executor `DroppedLetsGo` fails as well: a
  provision served between `finalize_run`'s look at the table (`runtime.py:3677`)
  and the commit stores a runtime that `release_run` drops without release.
- `docs/development/architecture/daemon.md:157-159` says that a run with an unknown
  finalization is "cancelled with indeterminate certainty", while
  `_lose_run_runtime` marks its executor unknown: the run needs attention.
- A run that was interrupted, continued and then cancelled or rejected in the
  queue is closed with an outcome worded "before execution started"
  (`services/executor.py:400`, `864`).
- An unknown child is recorded as a known failure: a replacement worker's start of
  a fenced child, or a refused terminal commit, raises an error that
  `scopecat/api/procedures.py:539-552` does not tell from a failure of the step, so
  the procedure closes as failed; `docs/development/architecture/automation.md:139-141`
  wants attention.
- A replacement worker that joins a live child gets the predecessor's token
  (`services/executor.py:790`): for a while two processes execute one run. This is
  the `Overlap` of `run_hardware`.
- Cancelling a procedure that is `ready` closes it at once although an attempt may be
  recorded as running.
- A definition that cannot be resolved any more cannot be parked while an attempt
  is recorded as running (`services/automation.py:1519-1526`).
- Records that a predecessor appended beyond its last group make the seal of the
  continued execution conflict (`storage/sqlite/execution.py:1694`, `2346-2395`);
  compare `docs/concepts/experiment-dataflow.md:296-301`.
- An operator's request for the *current* region of a plan whose optimizer works on
  all regions is accepted by the daemon (`services/point_plans.py:222-240`), but
  `operator_proposal` raises where the loop does not catch it
  (`scopecat/execution/interpreter.py:885`, `scopecat/adaptive_coordination.py:281-286`),
  so the run fails instead of the request being rejected.
- Whether an adaptive run has an execution is read before the lease is requested
  (`interpreter.py:124-140`): an executor that reads too early starts a continued
  run and measures its initial points again. `SuccessIsWholePlan` shows that it
  cannot succeed unless it measured the whole plan itself.
- When the optimizer has closed all regions, pending requests of operators are
  cancelled, although operators may extend closed regions.

## 6. Not modelled, and the plan

| part | why |
|---|---|
| domain jobs (`storage/sqlite/execution.py:470-730`) | runs with a domain target are not continued (`interpreter.py:944`); their transitions pass the fence that `CoverageAttributed` is about |
| instrument worker process, transport | seen by the daemon as calls that return, fail or end unknown |
| schedules, calibration tasks | produce procedures; each is one procedure of `Automation` |
| exit drain, background rounds, lifecycle | a gate in front of handlers, a lock file; no state shared with the rest |
| configuration, samples, devices, analyses, exchange, cleanup | sequential transactions with optimistic revisions |
| HTTP transport, client SDK | decoding and forwarding; retries and lost answers are part of the models |
| authoring, compiler, planning, instrument and quantum packages, UI, desktop host | pure functions, drivers and views; they make up most of the repository's lines, and no run of a concurrent model would say anything of them |

What is mapped is therefore a small share of the repository: the transactions,
locks and loops of the daemon and of its executors and workers. The plan for
what is left:

1. domain jobs, beside `AdaptivePlan`;
2. the exit drain, in front of `ControlPlane`;
3. the budgets of the regions (`per_region_point_limit`), which only the coordinator of an
   executor enforces: sums over its ledger, for TLC.
