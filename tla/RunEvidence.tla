---------------------------- MODULE RunEvidence ----------------------------
(***************************************************************************)
(* The evidence of a recorded scan with a static point plan: measurement   *)
(* records from the executor that takes them to the dataset that is sealed *)
(* (interpreter.py and daemon/execution.py on the executor's side;         *)
(* ActiveMeasurementStore, ExecutorService and sqlite/execution.py on the  *)
(* daemon's).                                                              *)
(*                                                                         *)
(* The points are measured in the groups of a schedule.  Records pass      *)
(* through a buffer in the daemon to the acquisition log; a completed      *)
(* group fixes which records of the log it is made of; the coverage says   *)
(* how long a prefix of the points is complete.  An execution segment that *)
(* loses its lease is followed by another one, which leaves out what is    *)
(* complete.                                                               *)
(*                                                                         *)
(* The lease is the one of RunControl, reduced to which segment holds it.  *)
(* A step is one transaction, one section under the buffer's lock, or what *)
(* the executor does between two requests.  The answer to a request may    *)
(* get lost; the daemon then goes on with it while the executor does       *)
(* something else.                                                         *)
(***************************************************************************)
EXTENDS Integers, Sequences, FiniteSets, SequencesExt

CONSTANTS
    PointCount,   \* points of the plan: 0 .. PointCount - 1
    Schedule,     \* the point groups in the order of their execution
    ChunkLimit,   \* MEASUREMENT_CHUNK_RECORD_LIMIT: records of one append
    MaxSegments,  \* bound: executions of the run
    MaxMishaps    \* bound: restarts, broken connections and aborted executions

Point == 0..(PointCount - 1)
GroupIndex == 1..Len(Schedule)
Segment == 1..MaxSegments

ASSUME EvidenceAssumption ==
    /\ PointCount \in Nat \ {0}
    /\ MaxSegments \in Nat \ {0}
    /\ MaxMishaps \in Nat
    /\ ChunkLimit \in Nat \ {0}
    /\ Schedule \in Seq(SUBSET Point)
    /\ \A g \in GroupIndex : Schedule[g] # {}
    /\ \A g, h \in GroupIndex : g # h => Schedule[g] \cap Schedule[h] = {}
    /\ Point = UNION {Schedule[g] : g \in GroupIndex}

VARIABLES
    run,        \* the scheduler's row: its state, and the segment with the lease
    log,        \* execution_measurement_appends and _records, in acquisition order
    fragments,  \* execution_measurement_fragments: the segments that have one
    groups,     \* execution_recovery_groups: the segment a group was completed in
    selected,   \* execution_measurement_projection: the acquisition of a point
    covered,    \* execution_coverage
    sealed,     \* execution_measurement_seals: the segment, what its executor took
    active,     \* the buffer of the run in ActiveMeasurementStore
    ex,         \* the executors, one per segment
    calls,      \* requests the daemon is executing
    reaping,    \* reconcile_volatile_state has found the run without a lease
    mishaps     \* how many of those the bound is for

durable == <<run, log, fragments, groups, selected, covered, sealed>>
vars == <<durable, active, ex, calls, reaping, mishaps>>

-----------------------------------------------------------------------------
NoSegment == 0

\* The record of a point, as the executor of a segment measured it.
Record == [point : Point, seg : Segment]
\* A row of the log: start is the acquisition_start of the append it came with.
Row == [rec : Record, by : Segment, start : Nat]

NoBuffer == [seg |-> NoSegment, received |-> 0, durable |-> 0, pending |-> <<>>]

Request == {"header", "ingest", "flush", "groups", "cover", "seal", "success", "failure"}
\* What an executor is doing: it restores the coverage, measures a group, hands
\* records over before the next effect, makes a checkpoint, or finishes.
Mode == {"restore", "measure", "transfer", "check", "final"}
\* start, skip: coverage and groups as read before the lease; base: where the log
\* stood; made: the records taken; sent: how many the daemon has acknowledged;
\* executed: the groups taken; handed: those passed on with their coverage; done:
\* those committed; told: the coverage confirmed.
Executor == [pc : Request \cup {"new", "reading", "refused", "ready", "running", "gone"},
             mode : Mode, fault : {"none", "effect", "recording", "header"},
             start : Nat, skip : SUBSET GroupIndex, base : Nat,
             made : Seq(Record), sent : Nat, executed : SUBSET GroupIndex,
             handed : SUBSET GroupIndex, done : SUBSET GroupIndex, told : Nat]
NewExecutor == [pc |-> "new", mode |-> "restore", fault |-> "none",
                start |-> 0, skip |-> {}, base |-> 0, made |-> <<>>, sent |-> 0,
                executed |-> {}, handed |-> {}, done |-> {}, told |-> 0]
\* An executor that has left.  One without a lease counts as gone as soon as no
\* request of it is in progress: the fence refuses every other.
Gone == [NewExecutor EXCEPT !.pc = "gone"]

Sealing == [seg : Segment \cup {NoSegment}, recs : Seq(Record), count : Nat]
NotSealed == [seg |-> NoSegment, recs |-> <<>>, count |-> 0]

\* The request an executor waits for, one whose answer it does not wait for any
\* more, and the flush the daemon does before it fences the executor itself.
Slot == {"awaited", "lost", "daemon"}
\* recs, start: the records and their position, or the chunk that is flushed;
\* by: the segment of the buffer; set: the groups; count: the points.
Call == [kind : Request \cup {"none", "retain"},
         pc : {"sent", "checked", "flushing", "taken", "appended", "stored", "ok", "failed"},
         recs : Seq(Record), start : Nat, by : Nat, set : SUBSET GroupIndex, count : Nat]
NoCall == [kind |-> "none", pc |-> "sent", recs |-> <<>>, start |-> 0, by |-> NoSegment,
           set |-> {}, count |-> 0]

EvidenceTypeOK ==
    /\ run \in [state : {"queued", "leased", "attention", "closed", "succeeded"},
                seg : Segment \cup {NoSegment}]
    /\ log \in Seq(Row)
    /\ fragments \in [Segment -> Nat \cup {-1}]
    /\ groups \in [GroupIndex -> Segment \cup {NoSegment}]
    /\ selected \in [Point -> 0..Len(log)]
    /\ covered \in 0..PointCount
    /\ sealed \in Sealing
    /\ active \in [seg : Segment \cup {NoSegment}, received : Nat, durable : Nat,
                   pending : Seq(Record)]
    /\ ex \in [Segment -> Executor]
    /\ calls \in [Segment -> [Slot -> Call]]
    /\ reaping \in BOOLEAN
    /\ mishaps \in 0..MaxMishaps

Init ==
    /\ run = [state |-> "queued", seg |-> NoSegment]
    /\ log = <<>>
    /\ fragments = [e \in Segment |-> -1]
    /\ groups = [g \in GroupIndex |-> NoSegment]
    /\ selected = [p \in Point |-> 0]
    /\ covered = 0
    /\ sealed = NotSealed
    /\ active = NoBuffer
    /\ ex = [e \in Segment |-> NewExecutor]
    /\ calls = [e \in Segment |-> [s \in Slot |-> NoCall]]
    /\ reaping = FALSE
    /\ mishaps = 0

-----------------------------------------------------------------------------
(* The schedule: PointExecutionPlan and CanonicalPointBuffer. *)

Union(G) == UNION {Schedule[g] : g \in G}
Prefix(n) == {p \in Point : p < n}

\* Mutant of IsDurableCut: the coverage may end anywhere.
EveryCut(n) == n \in 0..PointCount
\* Whole groups, in the order of the schedule, that are a prefix of the points.
IsDurableCut(n) ==
    \E k \in 0..Len(Schedule) : Union(1..k) = Prefix(n)

\* The points of a group as a forward traversal comes to them: in ascending order, the
\* i-th is at least as large as i of them.
InOrder(S) == [i \in 1..Cardinality(S) |-> CHOOSE p \in S : Cardinality({q \in S : q <= p}) = i]

Before(n) == {g \in GroupIndex : Schedule[g] \subseteq Prefix(n)}

WrittenFor(rows, seg) == SelectSeq(rows, LAMBDA row : row.by = seg)
RowsOf(seg) == WrittenFor(log, seg)
RowsFrom(start) == SelectSeq(log, LAMBDA row : row.start = start)
Recs(rows) == [i \in 1..Len(rows) |-> rows[i].rec]
IndicesOf(p) == {i \in 1..Len(log) : log[i].rec.point = p}

Remaining(x) == GroupIndex \ (Before(x.start) \cup x.skip \cup x.executed)
\* next_index of the executor's buffer: what it may cover.
NextIndex(x) ==
    Max({n \in 0..PointCount :
        IsDurableCut(n) /\ Prefix(n) \subseteq Prefix(x.start) \cup Union(x.skip \cup x.executed)})

\* Recovered points are those of completed groups beyond the coverage.
RecordCount(x) ==
    x.start + Cardinality(Union(x.skip \ Before(x.start))) + Len(x.made)

-----------------------------------------------------------------------------
(* The executor: execute_admitted_run and the daemon session it runs with. *)

Live(e) == run.state = "leased" /\ run.seg = e

\* Ingest is a handler of the event loop itself: while one is in progress no
\* request is taken and no answer given.  The other handlers have a thread each.
Ingesting == \E e \in Segment, s \in Slot :
                 calls[e][s].kind = "ingest" /\ calls[e][s].pc \notin {"sent", "ok", "failed"}

\* The requests in the order in which a checkpoint or the end makes them: the
\* completed groups not yet handed on go first, then those with their coverage.
Stages == <<"ingest", "flush", "rest", "groups", "cover", "seal", "success", "failure">>

\* Mutant of Handed: the groups wait for the end of the run, their coverage does not.
HandedAtEnd(x) == IF x.mode = "final" THEN x.handed \ x.done ELSE {}
Handed(x) == x.handed \ x.done
Rest(x) == (x.executed \ x.handed) \ x.done

\* Whether the executor, in its mode, has use for a request.
Needed(x, stage) ==
    CASE stage = "ingest" -> x.mode # "restore" /\ x.sent < Len(x.made)
      [] stage = "flush" -> x.mode \in {"restore", "check", "final"} /\ x.fault # "header"
      [] stage = "rest" -> x.mode = "final" /\ Rest(x) # {}
      [] stage = "groups" -> x.mode \in {"check", "final"} /\ Handed(x) # {}
      [] stage = "cover" -> x.mode \in {"restore", "check", "final"} /\ x.told < NextIndex(x)
      [] stage = "seal" -> x.mode = "final" /\ x.fault \notin {"recording", "header"}
      [] stage = "success" -> x.mode = "final" /\ x.fault = "none"
      [] stage = "failure" -> x.mode = "final" /\ x.fault # "none"

StageOf(x) == IF x.pc = "groups" /\ Rest(x) # {} /\ x.mode = "final" THEN "rest" ELSE x.pc
\* The executor at the first request it needs after the stages up to k.
From(x, k) ==
    LET next == {j \in (k + 1)..Len(Stages) : Needed(x, Stages[j])}
        stage == Stages[Min(next)]
    IN  [x EXCEPT !.pc = IF next = {} THEN "running"
                         ELSE IF stage = "rest" THEN "groups" ELSE stage]
Number(stage) == CHOOSE j \in 1..Len(Stages) : Stages[j] = stage

Finish(x) == From([x EXCEPT !.mode = "final"], 0)

CurrentGroup(x) == CHOOSE g \in GroupIndex : x.made[Len(x.made)].point \in Schedule[g]

\* The executor once the records of its group are in the hands of the transport.
\* Coverage goes out when the group has extended it, at once or at a later group.
Accounted(x) ==
    LET y == [x EXCEPT !.executed = @ \cup {CurrentGroup(x)}, !.mode = "check"]
        z == IF NextIndex(y) > NextIndex(x) THEN [y EXCEPT !.handed = y.executed] ELSE y
    IN  {[z EXCEPT !.pc = "running"]}
          \cup (IF NextIndex(y) > NextIndex(x) THEN {From(z, 0)} ELSE {})

\* What the executor does after a request, and after one that failed.
Succeeded(x, call) ==
    LET y == CASE x.pc = "header" -> [x EXCEPT !.base = call.count]
               [] x.pc = "ingest" -> [x EXCEPT !.sent = Len(x.made)]
               [] x.pc = "groups" -> [x EXCEPT !.done = @ \cup call.set]
               [] x.pc = "cover" -> [x EXCEPT !.told = call.count]
               [] OTHER -> x
    IN  CASE x.pc = "header" -> {IF y.told < NextIndex(y) THEN From(y, 0)
                                 ELSE [y EXCEPT !.pc = "running"]}
          [] x.pc \in {"success", "failure"} -> {Gone}
          [] x.mode = "measure" -> Accounted(y)
          [] OTHER -> {From(y, Number(StageOf(x)))}
Broken(x) ==
    IF x.pc = "header"
    THEN LET y == [x EXCEPT !.fault = "header"]
         IN  IF y.told < NextIndex(y) THEN From(y, 0) ELSE [y EXCEPT !.pc = "running"]
    ELSE IF x.pc \in {"success", "failure"} \/ x.mode = "restore" THEN Gone
    ELSE CASE x.mode = "transfer" -> Finish([x EXCEPT !.fault = "effect"])
           [] x.mode \in {"measure", "check"} -> Finish([x EXCEPT !.fault = "recording"])
           [] x.mode = "final" -> [x EXCEPT !.pc = "failure", !.fault = "recording"]

\* An executor does its next step, a request if that is what it is at.
RequestOf(x) ==
    LET request == [NoCall EXCEPT !.kind = x.pc]
    IN  CASE x.pc \notin Request -> NoCall
          [] x.pc = "ingest" -> [request EXCEPT !.recs = SubSeq(x.made, x.sent + 1, Len(x.made)),
                                                !.start = x.base + x.sent]
          [] x.pc = "groups" -> [request EXCEPT !.set = IF StageOf(x) = "rest" THEN Rest(x)
                                                        ELSE Handed(x)]
          [] x.pc = "seal" -> [request EXCEPT !.recs = x.made, !.count = RecordCount(x)]
          [] x.pc = "cover" -> [request EXCEPT !.start = x.told, !.count = NextIndex(x)]
          [] OTHER -> request
Become(e, x) ==
    /\ ex' = [ex EXCEPT ![e] = x]
    /\ calls' = [calls EXCEPT ![e]["awaited"] = RequestOf(x)]

Mishap == mishaps < MaxMishaps /\ mishaps' = mishaps + 1

\* Coverage and completed groups are read before there is a lease: by an executor
\* that waits for the run while another one has it, they are out of date by then.
ReadCoverage(e) ==
    /\ ex[e].pc = "new"
    /\ IF run.state = "queued" /\ run.seg = e - 1 THEN mishaps' = mishaps ELSE Mishap
    /\ Become(e, [ex[e] EXCEPT !.pc = "reading", !.start = covered, !.told = covered])
    /\ UNCHANGED <<durable, active, reaping>>

\* A coverage that ends inside a group is refused.
Accepted(start, completed) ==
    /\ IsDurableCut(start)
    /\ \A g \in completed : Schedule[g] \subseteq Prefix(start) \/ Schedule[g] \cap Prefix(start) = {}
ReadGroups(e) ==
    /\ ex[e].pc = "reading"
    /\ LET completed == {g \in GroupIndex : groups[g] # NoSegment}
       IN  Become(e, [ex[e] EXCEPT !.skip = completed,
               !.pc = IF Accepted(ex[e].start, completed) THEN "ready" ELSE "refused"])
    /\ UNCHANGED <<durable, active, reaping, mishaps>>

Begin(e) ==
    /\ ex[e].pc = "ready" /\ run.state = "queued" /\ run.seg = e - 1 /\ ~Ingesting
    /\ run' = [state |-> "leased", seg |-> e]
    /\ Become(e, [ex[e] EXCEPT !.pc = "header"])
    /\ UNCHANGED <<log, fragments, groups, selected, covered, sealed, active, reaping, mishaps>>

\* The next group is measured; its records are sent on at once or kept.
Measure(e) ==
    LET x == ex[e]
        points == InOrder(Schedule[Min(Remaining(x))])
        y == [x EXCEPT !.mode = "measure",
                       !.made = @ \o [i \in 1..Len(points) |-> [point |-> points[i], seg |-> e]]]
    IN  /\ x.pc = "running" /\ x.fault = "none" /\ Remaining(x) # {} /\ x.sent = Len(x.made)
        /\ \E z \in Accounted(y) \cup {From(y, 0)} : Become(e, z)
        /\ UNCHANGED <<durable, active, reaping, mishaps>>

\* Records that are still with the executor go out before the effects of the next
\* group.
Transfer(e) ==
    LET x == [ex[e] EXCEPT !.mode = "transfer"]
    IN  /\ x.pc = "running" /\ x.fault = "none" /\ Remaining(x) # {} /\ x.sent < Len(x.made)
        /\ Become(e, From(x, 0))
        /\ UNCHANGED <<durable, active, reaping, mishaps>>

\* The plan is done, an effect fails, or the header did.
Stop(e) ==
    LET x == ex[e]
    IN  /\ x.pc = "running"
        /\ \/ (Remaining(x) = {} \/ x.fault # "none") /\ Become(e, Finish(x))
           \/ x.fault = "none" /\ Become(e, Finish([x EXCEPT !.fault = "effect"]))
        /\ UNCHANGED <<durable, active, reaping, mishaps>>

\* The connection breaks: the executor sees an error; the daemon may go on with the
\* request, at once, later or never.  Bound: one such request of an executor.
Lose(e) ==
    LET x == Broken(ex[e])
    IN  /\ Live(e) /\ calls[e]["awaited"] # NoCall /\ calls[e]["lost"] = NoCall /\ Mishap
        /\ ex' = [ex EXCEPT ![e] = x]
        /\ calls' = [calls EXCEPT ![e]["awaited"] = RequestOf(x),
                                  ![e]["lost"] = calls[e]["awaited"]]
        /\ UNCHANGED <<durable, active, reaping>>

-----------------------------------------------------------------------------
(* The daemon: ExecutorService over ActiveMeasurementStore and the tables. *)

At(e, s, kind, pc) == calls[e][s].kind = kind /\ calls[e][s].pc = pc

\* The next step of a request.  Its answer reaches the executor that waits for it;
\* an answer that gets lost is a request nobody waits for any more.
Proceed(e, s, call) ==
    IF call.pc \notin {"ok", "failed"} THEN ex' = ex /\ calls' = [calls EXCEPT ![e][s] = call]
    ELSE IF s # "awaited" THEN ex' = ex /\ calls' = [calls EXCEPT ![e][s] = NoCall]
    ELSE \E x \in IF ~Live(e) THEN {Gone}
                  ELSE IF call.pc = "ok" THEN Succeeded(ex[e], call) ELSE {Broken(ex[e])} :
            Become(e, x)
Goto(e, s, pc) == Proceed(e, s, [calls[e][s] EXCEPT !.pc = pc])
\* An error where the guard does not hold.
Require(guard, e, s, pc) == Goto(e, s, IF guard THEN pc ELSE "failed")

Projected == {p \in Point : selected[p] # 0}
\* Mutant of Finalized: points that are fixed are chosen again.
FinalizedAgain(points) ==
    [p \in Point |-> IF p \in points /\ IndicesOf(p) # {} THEN Max(IndicesOf(p)) ELSE selected[p]]
\* _finalize_measurement_projection: the latest record of each point not fixed yet.
Finalized(points) ==
    [p \in Point |-> IF p \in points /\ selected[p] = 0 /\ IndicesOf(p) # {}
                     THEN Max(IndicesOf(p)) ELSE selected[p]]

Header(e, s) ==
    /\ At(e, s, "header", "sent") /\ ~Ingesting
    /\ IF Live(e)
       THEN /\ fragments' = [fragments EXCEPT ![e] = IF @ = -1 THEN Len(log) ELSE @]
            /\ Proceed(e, s, [calls[e][s] EXCEPT !.pc = "stored", !.count = Len(log)])
       ELSE fragments' = fragments /\ Goto(e, s, "failed")
    /\ UNCHANGED <<run, log, groups, selected, covered, sealed, active, reaping, mishaps>>

\* ActiveMeasurementStore.initialize, after the transaction.
Initialize(e, s) ==
    /\ At(e, s, "header", "stored")
    /\ active' = IF active.seg = e THEN active
                 ELSE [seg |-> e, received |-> fragments[e], durable |-> fragments[e],
                       pending |-> <<>>]
    /\ Goto(e, s, "ok")
    /\ UNCHANGED <<durable, reaping, mishaps>>

\* fence_executor and the segment of the buffer.
CheckSegment(e, s) ==
    /\ \E kind \in {"ingest", "flush"} : At(e, s, kind, "sent")
    /\ ~Ingesting
    /\ Require(Live(e) /\ active.seg = e, e, s, "checked")
    /\ UNCHANGED <<durable, active, reaping, mishaps>>

\* ActiveMeasurementStore.ingest
Receive(e, s) ==
    LET call == calls[e][s]
        next == active.seg # NoSegment /\ call.start = active.received
    IN  /\ At(e, s, "ingest", "checked")
        /\ active' = IF next
                     THEN [active EXCEPT !.pending = @ \o call.recs, !.received = @ + Len(call.recs)]
                     ELSE active
        /\ Require(next, e, s, "stored")
        /\ UNCHANGED <<durable, reaping, mishaps>>

\* _flush_measurements: the segment the records will be written for is the
\* buffer's.
StartFlush(e, s) ==
    /\ \/ At(e, s, "ingest", "stored")
       \/ At(e, s, "flush", "checked")
       \/ At(e, s, "retain", "sent")
    /\ IF active.seg = NoSegment THEN Goto(e, s, "failed")
       ELSE Proceed(e, s, [calls[e][s] EXCEPT !.pc = "flushing", !.by = active.seg])
    /\ UNCHANGED <<durable, active, reaping, mishaps>>

\* next_chunk: as much as a chunk holds; an ingest leaves what does not fill one.
TakeChunk(e, s) ==
    LET call == calls[e][s]
        enough == Len(active.pending) >= IF call.kind = "ingest" THEN ChunkLimit ELSE 1
        chunk == SubSeq(active.pending, 1, Min({ChunkLimit, Len(active.pending)}))
    IN  /\ call.pc = "flushing"
        /\ IF active.seg # NoSegment /\ enough
           THEN Proceed(e, s, [call EXCEPT !.pc = "taken", !.recs = chunk])
           ELSE Require(active.seg # NoSegment, e, s, "ok")
        /\ UNCHANGED <<durable, active, reaping, mishaps>>

\* The append of a chunk where the buffer says the log stands.  One that is there
\* already, from the same segment and with the same records, is accepted.
AppendChunk(e, s) ==
    LET call == calls[e][s]
        existing == RowsFrom(active.durable)
        known == existing # <<>> /\ Recs(existing) = call.recs /\ existing[1].by = call.by
        next == /\ existing = <<>> /\ sealed = NotSealed
                /\ fragments[call.by] # -1 /\ active.durable = Len(log)
        rows == [i \in 1..Len(call.recs) |->
                    [rec |-> call.recs[i], by |-> call.by, start |-> active.durable]]
    IN  /\ call.pc = "taken"
        /\ LET ok == active.seg # NoSegment /\ Live(e)
           IN  /\ log' = IF ok /\ next THEN log \o rows ELSE log
               /\ Require(ok /\ (known \/ next), e, s, "appended")
        /\ UNCHANGED <<run, fragments, groups, selected, covered, sealed, active, reaping, mishaps>>

\* commit_chunk
CommitChunk(e, s) ==
    LET call == calls[e][s]
        prefix == active.seg # NoSegment /\ IsPrefix(call.recs, active.pending)
    IN  /\ call.pc = "appended"
        /\ active' = IF prefix
                     THEN [active EXCEPT !.durable = @ + Len(call.recs),
                               !.pending = SubSeq(@, Len(call.recs) + 1, Len(@))]
                     ELSE active
        /\ Require(prefix, e, s, "flushing")
        /\ UNCHANGED <<durable, reaping, mishaps>>

\* Mutant of OwnRecords: the first record of the point, whoever took it.
FirstRecord(e, p) == {i \in IndicesOf(p) : \A j \in IndicesOf(p) : i <= j}
\* The rows with the content the executor has for the point.
OwnRecords(e, p) == {i \in IndicesOf(p) : log[i].rec.seg = e}

\* commit_recovery_groups: each new group with the records its executor took, and
\* all of them or none.
CommitGroups(e, s) ==
    LET call == calls[e][s]
        new == {g \in call.set : groups[g] = NoSegment}
        valid == /\ Live(e)
                 /\ \A g \in call.set \ new : groups[g] = e
                 /\ \A p \in Union(new) : selected[p] = 0 /\ OwnRecords(e, p) # {}
    IN  /\ At(e, s, "groups", "sent") /\ ~Ingesting
        /\ IF valid
           THEN /\ groups' = [g \in GroupIndex |-> IF g \in new THEN e ELSE groups[g]]
                /\ selected' = [p \in Point |-> IF p \in Union(new) THEN Max(OwnRecords(e, p))
                                                ELSE selected[p]]
           ELSE UNCHANGED <<groups, selected>>
        /\ Require(valid, e, s, "ok")
        /\ UNCHANGED <<run, log, fragments, covered, sealed, active, reaping, mishaps>>

\* advance_in_transaction; the executor takes only the answer it expects.
AdvanceCoverage(e, s) ==
    LET call == calls[e][s]
        range == {p \in Point : call.start <= p /\ p < call.count}
        next == covered < call.count /\ call.start = covered /\ \A p \in range : IndicesOf(p) # {}
    IN  /\ At(e, s, "cover", "sent") /\ ~Ingesting
        /\ IF Live(e) /\ next
           THEN covered' = call.count /\ selected' = Finalized(range)
           ELSE UNCHANGED <<covered, selected>>
        /\ Require(Live(e) /\ (next \/ covered = call.count), e, s, "ok")
        /\ UNCHANGED <<run, log, fragments, groups, sealed, active, reaping, mishaps>>

\* seal_measurements: the buffer is looked at first.
CheckFlushed(e, s) ==
    /\ At(e, s, "seal", "sent") /\ ~Ingesting
    /\ IF active.seg # NoSegment /\ active.received = active.durable
       THEN Proceed(e, s, [calls[e][s] EXCEPT !.pc = "checked", !.by = active.seg])
       ELSE Goto(e, s, "failed")
    /\ UNCHANGED <<durable, active, reaping, mishaps>>

\* Mutant of NamesFragment: records beyond those named are let through.
NamesPrefix(call) == IsPrefix(call.recs, Recs(RowsOf(call.by)))
NamesFragment(call) == Recs(RowsOf(call.by)) = call.recs
\* The seal counts the points of the dataset and names the records of its fragment.
Seal(e, s) ==
    LET call == calls[e][s]
        seal == [seg |-> call.by, recs |-> call.recs, count |-> call.count]
        final == Finalized(Point)
        valid == /\ sealed = NotSealed /\ fragments[call.by] # -1
                 /\ {p \in Point : final[p] # 0} = Prefix(call.count)
                 /\ NamesFragment(call)
    IN  /\ At(e, s, "seal", "checked")
        /\ IF Live(e) /\ valid THEN sealed' = seal /\ selected' = final
                               ELSE UNCHANGED <<sealed, selected>>
        /\ Require(Live(e) /\ (valid \/ sealed = seal), e, s, "stored")
        /\ UNCHANGED <<run, log, fragments, groups, covered, active, reaping, mishaps>>

\* commit_terminal
Terminal(e, s) ==
    \E outcome \in {"success", "failure"} :
        LET valid == Live(e) /\ (outcome = "success" => covered = PointCount)
        IN  /\ At(e, s, outcome, "sent") /\ ~Ingesting
            /\ run' = IF valid
                      THEN [run EXCEPT !.state = IF outcome = "success" THEN "succeeded" ELSE "closed"]
                      ELSE run
            /\ Require(valid, e, s, "stored")
            /\ UNCHANGED <<log, fragments, groups, selected, covered, sealed, active, reaping, mishaps>>

\* The buffer goes after a seal and after the end of the run.
ClearBuffer(e, s) ==
    /\ \E kind \in {"seal", "success", "failure"} : At(e, s, kind, "stored")
    /\ active' = NoBuffer
    /\ Goto(e, s, "ok")
    /\ UNCHANGED <<durable, reaping, mishaps>>

\* _mark_run_unknown first writes out what was received, if it can.
StartRetain(e) ==
    /\ Live(e) /\ active.seg # NoSegment /\ calls[e]["daemon"] = NoCall
    /\ Mishap
    /\ calls' = [calls EXCEPT ![e]["daemon"] = [NoCall EXCEPT !.kind = "retain"]]
    /\ UNCHANGED <<durable, active, ex, reaping>>
\* mark_executor_unknown: after the flush of a retain, or at the end of the lease
\* of an executor that has crashed or hangs.
Fence(e) ==
    /\ Live(e)
    /\ run' = [run EXCEPT !.state = "attention"]
    /\ ex' = [ex EXCEPT ![e] = IF calls[e]["awaited"] = NoCall THEN Gone ELSE @]
    /\ UNCHANGED <<log, fragments, groups, selected, covered, sealed, active, calls, reaping, mishaps>>

\* reconcile_volatile_state looks at the run, then drops its buffer: as a rule
\* before anything else happens.
Fenced == active.seg # NoSegment /\ run.state # "leased"
Reconcile ==
    /\ Fenced
    /\ active' = NoBuffer
    /\ UNCHANGED <<durable, ex, calls, reaping, mishaps>>
FindFenced ==
    /\ Fenced /\ ~reaping /\ Mishap
    /\ reaping' = TRUE
    /\ UNCHANGED <<durable, active, ex, calls>>
DropBuffer ==
    /\ reaping
    /\ reaping' = FALSE /\ active' = NoBuffer
    /\ UNCHANGED <<durable, ex, calls, mishaps>>

\* The operator has a run that needs attention executed again.
Continue ==
    /\ run.state = "attention" /\ run.seg < MaxSegments /\ ~Ingesting
    /\ run' = [run EXCEPT !.state = "queued"]
    /\ UNCHANGED <<log, fragments, groups, selected, covered, sealed, active, ex, calls, reaping, mishaps>>

\* The daemon goes down and comes back: what it held in memory is gone.
Restart ==
    /\ Mishap
    /\ active # NoBuffer \/ \E e \in Segment, s \in Slot : calls[e][s] # NoCall
    /\ run' = IF run.state = "leased" THEN [run EXCEPT !.state = "attention"] ELSE run
    /\ active' = NoBuffer /\ reaping' = FALSE
    /\ calls' = [e \in Segment |-> [s \in Slot |-> NoCall]]
    /\ ex' = [e \in Segment |-> IF e <= run.seg THEN Gone ELSE ex[e]]
    /\ UNCHANGED <<log, fragments, groups, selected, covered, sealed>>

-----------------------------------------------------------------------------
ExecutorStep(e) ==
    \/ ReadCoverage(e) \/ ReadGroups(e) \/ Begin(e) \/ Measure(e) \/ Transfer(e) \/ Stop(e)
    \/ Lose(e)
HandlerStep(e, s) ==
    \/ Header(e, s) \/ Initialize(e, s) \/ CheckSegment(e, s) \/ Receive(e, s)
    \/ StartFlush(e, s) \/ TakeChunk(e, s) \/ AppendChunk(e, s) \/ CommitChunk(e, s)
    \/ CommitGroups(e, s) \/ AdvanceCoverage(e, s)
    \/ CheckFlushed(e, s) \/ Seal(e, s) \/ Terminal(e, s) \/ ClearBuffer(e, s)
DaemonStep ==
    \/ \E e \in Segment : StartRetain(e) \/ Fence(e)
    \/ Reconcile \/ FindFenced \/ DropBuffer \/ Continue \/ Restart

Next ==
    \/ \E e \in Segment : ExecutorStep(e) \/ \E s \in Slot : HandlerStep(e, s)
    \/ DaemonStep
Spec == Init /\ [][Next]_vars

-----------------------------------------------------------------------------
(* What makes the evidence of a run trustworthy. *)

GroupOf(p) == CHOOSE g \in GroupIndex : p \in Schedule[g]

\* A point below the coverage belongs to a completed group and has its record in the
\* acquisition log: a continued execution leaves it out for good.
CoverageIsDurable ==
    \A p \in Prefix(covered) : /\ groups[GroupOf(p)] # NoSegment
                               /\ selected[p] # 0 /\ log[selected[p]].rec.point = p

\* A group enters the dataset as a whole and with the records of the execution that
\* completed it, whatever else the log holds for its points.
GroupFromOneExecution ==
    \A p \in Point : LET seg == groups[GroupOf(p)]
                     IN  IF seg = NoSegment THEN selected[p] = 0
                         ELSE selected[p] # 0 /\ log[selected[p]].rec = [point |-> p, seg |-> seg]

\* No crash leaves coverage and groups that a continued execution refuses.
ContinuationIsAccepted == \A e \in Segment : ex[e].pc # "refused"

\* What a seal names is the whole output of the execution that sealed, and stays
\* so; a run that succeeded has a sealed dataset with every point.
SealedIsComplete ==
    /\ sealed # NotSealed => /\ Recs(RowsOf(sealed.seg)) = sealed.recs
                             /\ Projected = Prefix(sealed.count)
    /\ run.state = "succeeded" => sealed # NotSealed /\ Projected = Point

\* A point's record is chosen once.
SelectionIsFinal == [][\A p \in Point : selected[p] # 0 => selected'[p] = selected[p]]_vars
=============================================================================
