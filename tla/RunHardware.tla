---------------------------- MODULE RunHardware -----------------------------
(***************************************************************************)
(* The devices of a leased run in the daemon's memory: _run_contexts of    *)
(* InstrumentRuntimeService (runtime.py), the handlers that provision, use *)
(* and finalize them, the terminal commit that ends them, and the cleanup  *)
(* after an executor was fenced or before an operator's resolution.        *)
(*                                                                         *)
(* A handler is a call that goes through steps; a step ends where another  *)
(* thread can get in: before a wait for a context's lock, around a device  *)
(* call, around a transaction of RunControl.  Looking a context up in the  *)
(* table and locking it are two steps, as in the code.                     *)
(***************************************************************************)
EXTENDS RunControl

CONSTANTS
    Call,       \* requests being served at one time
    Context,    \* RunContext objects; one that nobody refers to is reused
    Overlap,    \* may an executor send a request before the last one returned?
    None        \* no context, no call, no run

ASSUME RunHardwareAssumption ==
    /\ Overlap \in BOOLEAN
    /\ None \notin Call \cup Context \cup Run \cup {"supervisor"}
    /\ "supervisor" \notin Run
    /\ \A r \in Run : Needs[r] # {}  \* without instruments nothing is provisioned

VARIABLES
    table,      \* _run_contexts: run to context
    context,    \* the RunContext objects
    devices,    \* <<run, segment>> whose token owns the actors of the run
    calls,      \* the handlers under way
    attention,  \* holder of _attention_lock: None, "supervisor", or the run
                \* an operator resolves
    cleaning,   \* runs that holder has still to clean up
    looked      \* for each run, the context it found in the table and waits for

hardwareVars == <<table, context, devices, calls, attention, cleaning, looked>>
allVars == <<runVars, hardwareVars>>

-----------------------------------------------------------------------------
\* runtime: the segment whose OwnershipRuntime is stored, 0 for none.
ContextRow == [lock : Call \cup {None}, runtime : Nat,
               provision : {"none", "rejected", "ready"},
               final : {"none", "finalizing", "finalized"}]
NewContext == [lock |-> None, runtime |-> 0, provision |-> "none", final |-> "none"]

\* What a call does next.
Step == {"idle",
         "admitted", "provision", "connect", "record", "store",   \* provision_run
         "batch", "operate",                                \* execute_run_hardware
         "finish", "release",                               \* finish_run_hardware
         "terminal", "finalize", "abort", "commit",         \* commit_terminal
         "mark", "discard", "pop"}                          \* the ways out

CallRow == [step : Step, run : Run \cup {None}, token : Nat,
            ctx : Context \cup {None}, outcome : Reported \cup {None}]
Idle == [step |-> "idle", run |-> None, token |-> 0, ctx |-> None, outcome |-> None]

\* What each variable holds; a lock is held by a call under way.
HardwareTypeOK ==
    /\ table \in [Run -> Context \cup {None}]
    /\ context \in [Context -> ContextRow]
    /\ devices \subseteq Run \X Nat
    /\ calls \in [Call -> CallRow]
    /\ attention \in Run \cup {None, "supervisor"}
    /\ cleaning \subseteq Run
    /\ looked \in [Run -> Context \cup {None}]
    /\ \A c \in Context : context[c].lock # None => calls[context[c].lock] # Idle

HardwareInit ==
    /\ table = [r \in Run |-> None]
    /\ context = [c \in Context |-> NewContext]
    /\ devices = {}
    /\ calls = [t \in Call |-> Idle]
    /\ attention = None
    /\ cleaning = {}
    /\ looked = [r \in Run |-> None]

-----------------------------------------------------------------------------
(* The parts handlers are made of. *)

At(t, step) == calls[t].step = step
Go(t, step) == calls' = [calls EXCEPT ![t].step = step]

\* A context object that is neither in the table nor known to a thread.
Unreferenced(c) ==
    /\ \A r \in Run : table[r] # c
    /\ \A t \in Call : calls[t].ctx # c
    /\ \A r \in Run : looked[r] # c

\* with context.lock; the locks are reentrant.
Available(c, t) == context[c].lock \in {None, t}
\* The contexts once call t has left its with-blocks.
Unlocked(ctxs, t) ==
    [c \in Context |-> IF ctxs[c].lock = t THEN [ctxs[c] EXCEPT !.lock = None] ELSE ctxs[c]]

\* A call returns or raises.
Return(t, ctxs) ==
    /\ calls' = [calls EXCEPT ![t] = Idle]
    /\ context' = Unlocked(ctxs, t)

\* InstrumentActorRegistry.acquire: an actor has one owner.
Acquirable(r) == \A d \in devices : Needs[d[1]] \cap Needs[r] = {}

\* fault_ownership or release_instruments for the devices of a call's token.
Without(t) == devices \ {<<calls[t].run, calls[t].token>>}

\* The table without the entry of a run, if it still is the given context.
Popped(r, c) == IF table[r] = c THEN [table EXCEPT ![r] = None] ELSE table

\* Call t can take a request that presents token k of run r.
Serves(t, r, k) ==
    /\ At(t, "idle")
    /\ Overlap \/ \A u \in Call : <<calls[u].run, calls[u].token>> # <<r, k>>

Begin(t, step, r, k, c) ==
    /\ Serves(t, r, k)
    /\ calls' = [calls EXCEPT ![t] = [step |-> step, run |-> r, token |-> k,
                                      ctx |-> c, outcome |-> None]]

-----------------------------------------------------------------------------
(* provision_run. *)

\* The fence before any volatile state is allocated.
BeginProvision(t, r, k) ==
    /\ Live(r, k)
    /\ Begin(t, "admitted", r, k, None)
    /\ UNCHANGED <<runVars, table, context, devices, attention, cleaning, looked>>

\* _create_run_context: setdefault.
CreateContext(t) ==
    LET r == calls[t].run
    IN /\ At(t, "admitted")
       /\ \E c \in Context :
             /\ IF table[r] = None THEN Unreferenced(c) ELSE c = table[r]
             /\ table' = [table EXCEPT ![r] = c]
             /\ context' = IF table[r] = None
                           THEN [context EXCEPT ![c] = NewContext] ELSE context
             /\ calls' = [calls EXCEPT ![t].step = "provision", ![t].ctx = c]
       /\ UNCHANGED <<runVars, devices, attention, cleaning, looked>>

\* The except block of provision_run: a context that nothing was stored in goes.
PopUnused(r, c) ==
    IF context[c].provision = "none" /\ context[c].runtime = 0
           /\ context[c].final = "none"
    THEN Popped(r, c) ELSE table

\* The lease is validated again under the lock, and the run is not finalized.
Provisionable(r, k, c) == Live(r, k) /\ context[c].final = "none"

\* With the lock: refuse, repeat the receipt, or go on to connect.
EnterProvision(t) ==
    LET r == calls[t].run
        k == calls[t].token
        c == calls[t].ctx
    IN /\ At(t, "provision")
       /\ Available(c, t)
       /\ \/ /\ Provisionable(r, k, c) /\ context[c].provision = "none"
             /\ context' = [context EXCEPT ![c].lock = t]
             /\ Go(t, "connect")
             /\ UNCHANGED table
          \/ /\ ~Provisionable(r, k, c)
             /\ table' = PopUnused(r, c)
             /\ Return(t, context)
          \/ /\ Provisionable(r, k, c) /\ context[c].provision # "none"
             /\ UNCHANGED table
             /\ Return(t, context)
       /\ UNCHANGED <<runVars, devices, attention, cleaning, looked>>

\* _open_ownership and the reconciliation of the run-start state.
Connect(t) ==
    LET r == calls[t].run
        c == calls[t].ctx
    IN /\ At(t, "connect")
       /\ \/ /\ Acquirable(r)              \* connected and observed
             /\ devices' = devices \cup {<<r, calls[t].token>>}
             /\ Go(t, "record")
             /\ UNCHANGED <<table, context>>
          \/ /\ table[r] = c               \* a rejection is stored as the receipt
             /\ Return(t, [context EXCEPT ![c].provision = "rejected"])
             /\ UNCHANGED <<table, devices>>
          \/ /\ table' = PopUnused(r, c)   \* an error, or the context is gone
             /\ Return(t, context)
             /\ UNCHANGED devices
          \/ /\ Acquirable(r)              \* the run-start state is unknown
             /\ Go(t, "mark")
             /\ UNCHANGED <<table, context, devices>>
       /\ UNCHANGED <<runVars, attention, cleaning, looked>>

\* Mutant of RecordProvision: a refused event leaves the devices connected.
RecordProvisionLeaking(t) ==
    /\ At(t, "record")
    /\ Go(t, IF Fenced(calls[t].run, calls[t].token) THEN "store" ELSE "mark")
    /\ UNCHANGED <<runVars, table, context, devices, attention, cleaning, looked>>
\* The event is recorded under the fence; without it the devices are let go.
RecordProvision(t) ==
    /\ At(t, "record")
    /\ IF Fenced(calls[t].run, calls[t].token)
       THEN Go(t, "store") /\ UNCHANGED devices
       ELSE Go(t, "mark") /\ devices' = Without(t)
    /\ UNCHANGED <<runVars, table, context, attention, cleaning, looked>>

\* _store_run_provision.
StoreProvision(t) ==
    LET c == calls[t].ctx
    IN /\ At(t, "store")
       /\ \/ /\ table[calls[t].run] = c
             /\ Return(t, [context EXCEPT ![c].provision = "ready",
                                          ![c].runtime = calls[t].token])
             /\ UNCHANGED devices
          \/ /\ table[calls[t].run] # c
             /\ devices' = Without(t)
             /\ Return(t, context)
       /\ UNCHANGED <<runVars, table, attention, cleaning, looked>>

-----------------------------------------------------------------------------
(* The ways out: the executor is marked unknown, the context dropped. *)

\* Mutant of MarkRunUnknown: it takes _attention_lock, under the context's lock.
MarkUnderAttention(t) ==
    LET r == calls[t].run
        k == calls[t].token
    IN /\ At(t, "mark")
       /\ attention = None
       /\ Go(t, "discard")
       /\ IF leases[r].segment = k
          THEN MarkExecutorUnknown(r, k) ELSE UNCHANGED runVars
       /\ UNCHANGED <<table, context, devices, attention, cleaning, looked>>

\* mark_executor_unknown; a token that is no longer on record is ignored.
MarkRunUnknown(t) ==
    LET r == calls[t].run
        k == calls[t].token
    IN /\ At(t, "mark")
       /\ Go(t, "discard")
       /\ IF leases[r].segment = k
          THEN MarkExecutorUnknown(r, k) ELSE UNCHANGED runVars
       /\ UNCHANGED <<table, context, devices, attention, cleaning, looked>>

\* _discard_run_state looks the context up ...
LookToDiscard(t) ==
    /\ At(t, "discard")
    /\ IF table[calls[t].run] = None
       THEN Return(t, context)
       ELSE /\ calls' = [calls EXCEPT ![t].step = "pop", ![t].ctx = table[calls[t].run]]
            /\ UNCHANGED context
    /\ UNCHANGED <<runVars, table, devices, attention, cleaning, looked>>

\* ... and drops it under its lock; devices it may still hold are not released.
Discard(t) ==
    /\ At(t, "pop")
    /\ Available(calls[t].ctx, t)
    /\ table' = Popped(calls[t].run, calls[t].ctx)
    /\ Return(t, context)
    /\ UNCHANGED <<runVars, devices, attention, cleaning, looked>>

\* Mutant of LoseRuntime: the faulted devices stay in the context.
LoseRuntimeKeeping(t) ==
    /\ devices' = Without(t)
    /\ Go(t, "mark")
    /\ UNCHANGED <<runVars, table, context, attention, cleaning, looked>>
\* _lose_run_runtime: fault the devices, forget them, then mark and discard.
LoseRuntime(t) ==
    /\ devices' = Without(t)
    /\ context' = [context EXCEPT ![calls[t].ctx].runtime = 0]
    /\ Go(t, "mark")
    /\ UNCHANGED <<runVars, table, attention, cleaning, looked>>

-----------------------------------------------------------------------------
(* execute_run_hardware and finish_run_hardware. *)

BeginOnContext(t, r, k, step) ==
    /\ table[r] # None
    /\ Begin(t, step, r, k, table[r])
    /\ UNCHANGED <<runVars, table, context, devices, attention, cleaning, looked>>

\* Mutant of EnterBatch: the batch does not hold the context's lock.
EnterBatchUnlocked(t) ==
    /\ At(t, "batch")
    /\ IF Live(calls[t].run, calls[t].token) /\ context[calls[t].ctx].runtime # 0
       THEN Go(t, "operate") /\ UNCHANGED context
       ELSE Return(t, context)
    /\ UNCHANGED <<runVars, table, devices, attention, cleaning, looked>>
\* A batch runs on a provisioned runtime under the lock and a live lease.
EnterBatch(t) ==
    LET c == calls[t].ctx
    IN /\ At(t, "batch")
       /\ Available(c, t)
       /\ IF Live(calls[t].run, calls[t].token) /\ context[c].runtime # 0
          THEN context' = [context EXCEPT ![c].lock = t] /\ Go(t, "operate")
          ELSE Return(t, context)
       /\ UNCHANGED <<runVars, table, devices, attention, cleaning, looked>>

\* The batch has a definite receipt, or its outcome is indeterminate.
EndBatch(t) ==
    /\ At(t, "operate")
    /\ \/ /\ Return(t, context)
          /\ UNCHANGED <<runVars, table, devices, attention, cleaning, looked>>
       \/ LoseRuntime(t)

\* Under the lock and a live lease a runtime is finalized at most once.
EnterFinish(t) ==
    LET c == calls[t].ctx
    IN /\ At(t, "finish")
       /\ Available(c, t)
       /\ IF /\ Live(calls[t].run, calls[t].token)
             /\ context[c].final = "none"
             /\ context[c].runtime # 0
          THEN /\ context' = [context EXCEPT ![c].lock = t, ![c].final = "finalizing"]
               /\ Go(t, "release")
          ELSE Return(t, context)
       /\ UNCHANGED <<runVars, table, devices, attention, cleaning, looked>>

\* _finalize_run_instruments restored and released every device, or lost them.
EndFinish(t) ==
    LET c == calls[t].ctx
    IN /\ At(t, "release")
       /\ \/ /\ devices' = Without(t)
             /\ Return(t, [context EXCEPT ![c].runtime = 0, ![c].provision = "none",
                                          ![c].final = "finalized"])
             /\ UNCHANGED <<runVars, table, attention, cleaning, looked>>
          \/ LoseRuntime(t)

-----------------------------------------------------------------------------
(* commit_terminal: finalize_run, the transaction, release_run. *)

\* A success needs the whole plan.
Substantiated(r, o) == HonorCancellation(r, o)[1] = "succeeded" => Complete(r)
\* _matches_terminal_intent: the run is closed with the outcome of this command.
AlreadyClosed(r, o) ==
    /\ runs[r].state = "closed"
    /\ <<runs[r].outcome.result, runs[r].outcome.certainty>> = HonorCancellation(r, o)

\* A commit that is repeated only drops what the run left in memory.
RepeatTerminal(t, r, k, o) ==
    /\ AlreadyClosed(r, o)
    /\ Begin(t, "discard", r, k, None)
    /\ UNCHANGED <<runVars, table, context, devices, attention, cleaning, looked>>

\* finalize_run looks the context up; without one it only validates the lease.
BeginTerminal(t, r, k, o) ==
    /\ runs[r].state # "closed"
    /\ Serves(t, r, k)
    /\ Substantiated(r, o)
    /\ table[r] = None => Live(r, k)
    /\ calls' = [calls EXCEPT ![t] =
                    [step |-> IF table[r] = None THEN "commit" ELSE "terminal",
                     run |-> r, token |-> k, ctx |-> table[r], outcome |-> o]]
    /\ UNCHANGED <<runVars, table, context, devices, attention, cleaning, looked>>

\* Mutant of EnterTerminal: devices that are still provisioned are not finalized.
EnterTerminalBare(t) ==
    LET c == calls[t].ctx
    IN /\ At(t, "terminal")
       /\ Available(c, t)
       /\ IF Live(calls[t].run, calls[t].token)
          THEN Go(t, "commit") /\ UNCHANGED context
          ELSE Return(t, context)
       /\ UNCHANGED <<runVars, table, devices, attention, cleaning, looked>>
\* With the lock: what was left provisioned is aborted and released.
EnterTerminal(t) ==
    LET c == calls[t].ctx
    IN /\ At(t, "terminal")
       /\ Available(c, t)
       /\ \/ /\ ~Live(calls[t].run, calls[t].token)
             /\ Return(t, context)
          \/ /\ Live(calls[t].run, calls[t].token)
             /\ context[c].final # "none"
             /\ Go(t, "commit")
             /\ UNCHANGED context
          \/ /\ Live(calls[t].run, calls[t].token)
             /\ context[c].final = "none"
             /\ IF context[c].runtime = 0
                THEN /\ context' = [context EXCEPT ![c].final = "finalizing",
                                                   ![c].provision = "none"]
                     /\ Go(t, "commit")
                ELSE /\ context' = [context EXCEPT ![c].final = "finalizing", ![c].lock = t]
                     /\ Go(t, "abort")
       /\ UNCHANGED <<runVars, table, devices, attention, cleaning, looked>>

EndAbort(t) ==
    LET c == calls[t].ctx
    IN /\ At(t, "abort")
       /\ \/ /\ devices' = Without(t)
             /\ context' = Unlocked([context EXCEPT ![c].runtime = 0,
                                                    ![c].provision = "none"], t)
             /\ Go(t, "commit")
             /\ UNCHANGED <<runVars, table, attention, cleaning, looked>>
          \/ LoseRuntime(t)

\* The transaction; a refused commit leaves the context for another attempt,
\* unless the same commit closed the run meanwhile.
Commit(t) ==
    LET r == calls[t].run
        k == calls[t].token
        o == calls[t].outcome
    IN /\ At(t, "commit")
       /\ \/ CommitTerminal(r, k, o) /\ Go(t, "discard") /\ UNCHANGED context
          \/ AlreadyClosed(r, o) /\ Go(t, "discard") /\ UNCHANGED <<runVars, context>>
          \/ /\ ~(Fenced(r, k) /\ Substantiated(r, o))
             /\ ~AlreadyClosed(r, o)
             /\ Return(t, context)
             /\ UNCHANGED runVars
       /\ UNCHANGED <<table, devices, attention, cleaning, looked>>

-----------------------------------------------------------------------------
(* The supervisor and the operator hold _attention_lock while they clean.  *)

\* expire_leases: list and fence under the lock, then clean up every fenced run.
ListExpired ==
    /\ attention = None
    /\ ReadExpiredLeases
    /\ attention' = "supervisor"
    /\ UNCHANGED <<table, context, devices, calls, cleaning, looked>>

\* Mutant of FenceExpired: everything listed is cleaned up, fenced or not.
FenceExpiredCleanListed ==
    /\ attention = "supervisor"
    /\ ExpireLeases
    /\ cleaning' = sweep
    /\ UNCHANGED <<table, context, devices, calls, attention, looked>>
FenceExpired ==
    /\ attention = "supervisor"
    /\ ExpireLeases
    /\ cleaning' = {r \in sweep : StillExpired(r)}
    /\ UNCHANGED <<table, context, devices, calls, attention, looked>>

\* resolve_run_attention: clean up first ...
BeginResolve(r) ==
    /\ attention = None
    /\ attention' = r
    /\ cleaning' = IF runs[r].state = "attention_required" THEN {r} ELSE {}
    /\ UNCHANGED <<runVars, table, context, devices, calls, looked>>

\* ... then apply the disposition, or be refused.
EndResolve(r) ==
    /\ attention = r
    /\ cleaning = {}
    /\ \/ ContinueRun(r)
       \/ \E key \in Key : ReconfirmLine(r, key)
       \/ CloseAttention(r)
       \/ UNCHANGED runVars
    /\ attention' = None
    /\ UNCHANGED <<table, context, devices, calls, cleaning, looked>>

\* _cleanup_run_state looks the context up, one run after the other ...
LookToClean(r) ==
    /\ r \in cleaning
    /\ \A q \in Run : looked[q] = None
    /\ IF table[r] = None
       THEN cleaning' = cleaning \ {r} /\ UNCHANGED looked
       ELSE looked' = [looked EXCEPT ![r] = table[r]] /\ UNCHANGED cleaning
    /\ UNCHANGED <<runVars, table, context, devices, calls, attention>>

\* Mutant of CleanUp: what the context holds is faulted, the context kept.
CleanUpKeeping(r) ==
    /\ looked[r] # None
    /\ context[looked[r]].lock = None
    /\ devices' = devices \ {<<r, context[looked[r]].runtime>>}
    /\ cleaning' = cleaning \ {r}
    /\ looked' = [looked EXCEPT ![r] = None]
    /\ UNCHANGED <<runVars, table, context, calls, attention>>
\* ... and under its lock drops it and faults what it holds.
CleanUp(r) ==
    /\ looked[r] # None
    /\ context[looked[r]].lock = None
    /\ table' = Popped(r, looked[r])
    /\ IF table[r] = looked[r]
       THEN /\ devices' = devices \ {<<r, context[looked[r]].runtime>>}
            /\ context' = [context EXCEPT ![looked[r]].runtime = 0]
       ELSE UNCHANGED <<devices, context>>
    /\ cleaning' = cleaning \ {r}
    /\ looked' = [looked EXCEPT ![r] = None]
    /\ UNCHANGED <<runVars, calls, attention>>

SupervisorDone ==
    /\ attention = "supervisor"
    /\ sweep = {}
    /\ cleaning = {}
    /\ attention' = None
    /\ UNCHANGED <<runVars, table, context, devices, calls, cleaning, looked>>

\* The process ends with everything in its memory; its connections drop.
RestartHardware ==
    /\ RestartRuns
    /\ table' = [r \in Run |-> None]
    /\ context' = [c \in Context |-> NewContext]
    /\ devices' = {}
    /\ calls' = [t \in Call |-> Idle]
    /\ attention' = None
    /\ cleaning' = {}
    /\ looked' = [r \in Run |-> None]

-----------------------------------------------------------------------------
\* The transactions of RunControl that touch nothing in memory.
OtherHandlers ==
    /\ \E r \in Run :
          \/ \E e \in Executor : StartExecution(r, e) \/ RetryStart(r, e)
          \/ RejectBusy(r) \/ RequireReconfirmation(r)
          \/ \E k \in 1..Len(segments[r]) :
                \/ ReadHeartbeatClock(r, k) \/ RenewLease(r, k)
                \/ \E n \in 1..PointCount : AdvanceCoverage(r, k, n)
          \/ Admit(r) \/ CancelRun(r) \/ CancelWaitingChild(r)
          \/ LapseLease(r)
    /\ UNCHANGED hardwareVars

\* A request arrives.
Arrive(t) ==
    \E r \in Run : \E k \in 1..Len(segments[r]) :
        \/ BeginProvision(t, r, k)
        \/ BeginOnContext(t, r, k, "batch")
        \/ BeginOnContext(t, r, k, "finish")
        \/ \E o \in Reported : BeginTerminal(t, r, k, o) \/ RepeatTerminal(t, r, k, o)

\* A handler goes on.
Continue(t) ==
    \/ CreateContext(t) \/ EnterProvision(t) \/ Connect(t)
    \/ RecordProvision(t) \/ StoreProvision(t)
    \/ MarkRunUnknown(t) \/ LookToDiscard(t) \/ Discard(t)
    \/ EnterBatch(t) \/ EndBatch(t)
    \/ EnterFinish(t) \/ EndFinish(t)
    \/ EnterTerminal(t) \/ EndAbort(t) \/ Commit(t)

CleanupStep == \E r \in Run : LookToClean(r) \/ CleanUp(r)

HardwareNext ==
    \/ OtherHandlers
    \/ \E t \in Call : Arrive(t) \/ Continue(t)
    \/ ListExpired \/ FenceExpired \/ SupervisorDone
    \/ \E r \in Run : BeginResolve(r) \/ EndResolve(r)
    \/ CleanupStep
    \/ RestartHardware

HardwareSpec == RunInit /\ HardwareInit /\ [][HardwareNext]_allVars

-----------------------------------------------------------------------------
(* What the handlers promise together. *)

\* Calls that drive hardware.
Drivers == {t \in Call : calls[t].step \in {"operate", "release", "abort"}}
Idling(r) == \A t \in Call : calls[t].run # r
OwnsNothing(r) == \A d \in devices : d[1] # r

\* What the table says a run may use is still owned by it: devices are never let
\* go behind the back of the context that the next request will find.
StoredIsOwned ==
    \A r \in Run : table[r] # None /\ context[table[r]].runtime # 0 =>
        <<r, context[table[r]].runtime>> \in devices

\* A call that drives hardware drives hardware that is owned, and no other call
\* drives a device of the same instruments, not even after a context was dropped
\* from the table under a request that waits for it.
OneDriver ==
    \A t \in Drivers :
        /\ <<calls[t].run, context[calls[t].ctx].runtime>> \in devices
        /\ \A u \in Drivers \ {t} : Needs[calls[u].run] \cap Needs[calls[t].run] = {}

\* Devices of the executor that holds the lease are let go by its own requests
\* only, or with the process: no cleanup after another executor reaches them.
LiveIsSpared ==
    [][\A d \in devices \ devices' :
          leases[d[1]].segment = d[2] /\ runtime' = runtime =>
            \E t \in Call : calls'[t] # calls[t] /\ <<calls[t].run, calls[t].token>> = d]_allVars

\* An executor drives what was connected and observed under its own token, never
\* what the executor it replaces left behind.
DrivesItsOwn ==
    \A t \in Drivers : context[calls[t].ctx].runtime = calls[t].token

\* A context that still owns devices leaves the table without letting them go in
\* one case only: a late request of an earlier execution drops whatever context it
\* finds.  An executor that waits for its answers never drops its own, and no
\* cleanup or refusal drops one that is in use.
DroppedLetsGo ==
    [][\A r \in Run : table[r] # None /\ table'[r] # table[r] =>
          LET k == context[table[r]].runtime
          IN \/ <<r, k>> \notin devices'
             \/ \E t \in Call :
                   /\ At(t, "pop") /\ calls'[t] # calls[t]
                   /\ calls[t].run = r /\ calls[t].token < k]_allVars

\* finalize_run and await_run_cleanup: "Release any instrument ownership left before
\* a terminal commit", "Complete hardware cleanup before quarantined resources are
\* released".  A run that is closed or waits to be continued would own nothing once
\* its requests have returned.  The case above breaks it in the third execution.
ClosedRunLetsGo ==
    \A r \in Run : runs[r].state \in {"queued", "closed"} /\ Idling(r) => OwnsNothing(r)

\* The thread that holds _attention_lock, the supervisor's or an operator's.
HolderStep == FenceExpired \/ CleanupStep \/ SupervisorDone \/ \E r \in Run : EndResolve(r)

\* Handlers go on, the holder of _attention_lock as well; nothing makes a request
\* arrive, a lease lapse or the operator decide.
FairHardwareSpec ==
    /\ HardwareSpec
    /\ \A t \in Call : WF_allVars(Continue(t))
    /\ WF_allVars(HolderStep)

\* The holder of _attention_lock waits for the locks of contexts, requests keep
\* these during slow device calls and wait for a second one when they drop what the
\* table holds: no such waits go in a circle, and the lock is always given back.
AttentionIsFreed == attention # None ~> attention = None

\* A token of the first two executions that was fenced, given back or replaced and
\* still owns devices.  In the third ClosedRunLetsGo fails, and with it this.
Behind(r) == \E k \in 1..2 : <<r, k>> \in devices /\ leases[r].segment # k

\* Devices of such a token are let go: after a lease that ran out during a slow
\* connect, a lost batch, a failed finish, a cleanup that was overtaken.
FencedLetsGo == \A r \in Run : Behind(r) ~> ~Behind(r)
=============================================================================
