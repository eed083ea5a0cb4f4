-------------------------- MODULE InstrumentActors --------------------------
(***************************************************************************)
(* The registry of instrument actors (actors.py): one actor per physical   *)
(* device, which owns the only connection to it.  Threads of sessions and  *)
(* runs acquire devices through it; meanwhile maintenance retires idle     *)
(* actors, a replacement swaps the driver backend (devices.py, owner.py)   *)
(* and the daemon shuts down (InstrumentRuntimeService).                   *)
(*                                                                         *)
(* A step is a section under the registry's condition or under the lock of *)
(* one actor.  Only a connect holds an actor's lock for long: "connecting".*)
(* Objects are slots: a device has one registered actor at a time, another *)
(* slot stands for an object somebody still refers to.  An epoch is        *)
(* represented by the thread that owns it, which tells apart what the      *)
(* comparison of handles tells apart.                                      *)
(***************************************************************************)
EXTENDS Integers, Sequences

CONSTANTS
    Key,          \* exclusivity keys, one per physical device
    Thread,       \* requests that acquire devices
    Retirer,      \* maintenance requests: release of idle devices, device edits
    Replacement,  \* the retirement token of a backend replacement
    Backend,      \* backend endpoints, a new one for each replacement
    FirstBackend,
    Slot,         \* actor objects per device
    Wants,        \* the devices a thread asks for, in the order of its request
    Scope,        \* the devices a maintenance request is about
    None

ASSUME ActorsAssumption ==
    /\ FirstBackend \in Backend
    /\ Wants \in [Thread -> Seq(Key) \ {<<>>}]
    /\ \A t \in Thread : \A i, j \in 1..Len(Wants[t]) : Wants[t][i] = Wants[t][j] => i = j
    /\ Scope \in [Retirer -> (SUBSET Key) \ {{}}]
    /\ Replacement \notin Retirer
    /\ None \notin Thread \cup Retirer \cup {Replacement} \cup Backend \cup Slot \cup Key

VARIABLES
    accepting,   \* _accepting of the registry
    replacing,   \* _replacing_backend
    active,      \* _active_backend
    retiring,    \* _retirements: whose marker a key carries
    acquiring,   \* _acquiring: the acquisitions counted for a key
    registered,  \* _actors: the actor object of a key
    actors,      \* the actor objects
    stuck,       \* devices with a connection whose disconnect failed
    backend,     \* _endpoint of the backend owner
    stopped,     \* backends that were told to shut down
    th,          \* the threads inside an acquisition or an ownership
    held,        \* the handles a thread was given: the actor they name
    rt,          \* the retirements in progress
    rep,         \* the backend replacement in progress
    sd           \* the shutdown of the instrument service

registry == <<accepting, replacing, active, retiring, acquiring, registered>>
lifecycle == <<rt, rep, sd>>
vars == <<registry, actors, stuck, backend, stopped, th, held, lifecycle>>

-----------------------------------------------------------------------------
Party == Retirer \cup {Replacement}

\* An actor: _shutdown, the owner of the current epoch, the backend of its handle.
Actor == [down : BOOLEAN, owner : Thread \cup {None}, conn : Backend \cup {None}]
NewActor == [down |-> FALSE, owner |-> None, conn |-> None]

ThreadPc == {"idle", "asked", "gated", "connecting", "connected", "discarding",
             "failing", "owner", "releasing", "faulting"}
\* got: how many of the devices it wants the thread has handles of.
Request == [pc : ThreadPc, backend : Backend \cup {None}, got : Nat, slot : Slot \cup {None}]
Idle == [pc |-> "idle", backend |-> None, got |-> 0, slot |-> None]

Retirement == [pc : {"idle", "gated", "checking", "retiring", "retired", "leaving"},
               left : SUBSET (Key \X Slot)]
NoRetirement == [pc |-> "idle", left |-> {}]

Replacing == [pc : {"idle", "waiting", "gating", "retiring", "publishing", "stopping"},
              new : Backend \cup {None}, old : Backend \cup {None}]
NoReplacement == [pc |-> "idle", new |-> None, old |-> None]

ActorsTypeOK ==
    /\ accepting \in BOOLEAN
    /\ replacing \in BOOLEAN
    /\ active \in Backend \cup {None}
    /\ retiring \in [Key -> Party \cup {None}]
    /\ acquiring \in [Key -> SUBSET Thread]
    /\ registered \in [Key -> Slot \cup {None}]
    /\ actors \in [Key -> [Slot -> Actor]]
    /\ stuck \subseteq Key
    /\ backend \in Backend
    /\ stopped \subseteq Backend
    /\ th \in [Thread -> Request]
    /\ held \in [Thread -> [Key -> Slot \cup {None}]]
    /\ \A t \in Thread : th[t].got <= Len(Wants[t])
    /\ \A t \in Thread, k \in Key :
          held[t][k] # None <=> \E i \in 1..th[t].got : Wants[t][i] = k
    /\ rt \in [Party -> Retirement]
    /\ rep \in Replacing
    /\ sd \in [pc : {"running", "draining", "closing", "done"}, left : SUBSET (Key \X Slot)]

Init ==
    /\ accepting = TRUE
    /\ replacing = FALSE
    /\ active = None
    /\ retiring = [k \in Key |-> None]
    /\ acquiring = [k \in Key |-> {}]
    /\ registered = [k \in Key |-> None]
    /\ actors = [k \in Key |-> [s \in Slot |-> NewActor]]
    /\ stuck = {}
    /\ backend = FirstBackend
    /\ stopped = {}
    /\ th = [t \in Thread |-> Idle]
    /\ held = [t \in Thread |-> [k \in Key |-> None]]
    /\ rt = [m \in Party |-> NoRetirement]
    /\ rep = NoReplacement
    /\ sd = [pc |-> "running", left |-> {}]

-----------------------------------------------------------------------------
At(t, pc) == th[t].pc = pc
Goto(t, pc) == th' = [th EXCEPT ![t].pc = pc]

\* The device a thread is about to acquire, and the last one it got.
Target(t) == Wants[t][th[t].got + 1]
Last(t) == Wants[t][th[t].got]

(* The actor: what one lock of it protects. *)

\* A connect in progress holds the actor's lock.
Locked(k, s) == \E t \in Thread : At(t, "connecting") /\ Target(t) = k /\ th[t].slot = s

\* Mutant of Detach: an actor whose disconnect failed stays usable.
DetachAndForget(k, s, down, ok) ==
    /\ actors' = [actors EXCEPT ![k][s] = [down |-> down, owner |-> None, conn |-> None]]
    /\ stuck' = IF ok THEN stuck ELSE stuck \cup {k}
\* _detach_connection and _disconnect at the end of an epoch.  When the driver
\* does not confirm, the device may still be connected: the actor is shut down.
Detach(k, s, down, ok) ==
    /\ actors' = [actors EXCEPT ![k][s] = [down |-> down \/ ~ok, owner |-> None, conn |-> None]]
    /\ stuck' = IF ok THEN stuck ELSE stuck \cup {k}

\* The connection, if there is one, is discarded with the epoch.
Sever(k, s, down) ==
    \E ok \in BOOLEAN : (ok \/ actors[k][s].conn # None) /\ Detach(k, s, down, ok)

-----------------------------------------------------------------------------
(* InstrumentActorRegistry.acquire, for each device of a group in turn. *)

Mine(t) == actors[Target(t)][th[t].slot]
MineLocked(t) == Locked(Target(t), th[t].slot)

\* A session or a run asks for a group of devices on the current backend.
Ask(t) ==
    /\ At(t, "idle")
    /\ sd.pc = "running"
    /\ th' = [th EXCEPT ![t] = [Idle EXCEPT !.pc = "asked", !.backend = backend]]
    /\ UNCHANGED <<registry, actors, stuck, backend, stopped, held, lifecycle>>

\* No lifecycle gate is closed for the key.
Open(k) == accepting /\ ~replacing /\ retiring[k] = None

\* Mutant of Admitted: an endpoint read before a replacement is not noticed.
AdmittedOnAnyBackend(t) == Open(Target(t))
Admitted(t) == Open(Target(t)) /\ active \in {None, th[t].backend}

\* An object nobody refers to any more can stand for the next actor of the key.
Unused(k, s) ==
    /\ registered[k] # s
    /\ \A t \in Thread : held[t][k] # s /\ ~(th[t].slot = s /\ Target(t) = k)
    /\ \A m \in Party : <<k, s>> \notin rt[m].left
    /\ <<k, s>> \notin sd.left
    /\ actors[k][s].conn = None

\* The first section: the gates are checked and the acquisition is counted.
Enter(t) ==
    /\ At(t, "asked")
    /\ Admitted(t)
    /\ LET k == Target(t)
       IN  \E s \in Slot :
             /\ \/ registered[k] = s /\ UNCHANGED <<registered, actors>>
                \/ /\ registered[k] = None
                   /\ Unused(k, s)
                   /\ s = CHOOSE u \in Slot : Unused(k, u)
                   /\ registered' = [registered EXCEPT ![k] = s]
                   /\ actors' = [actors EXCEPT ![k][s] = NewActor]
             /\ acquiring' = [acquiring EXCEPT ![k] = @ \cup {t}]
             /\ th' = [th EXCEPT ![t].pc = "gated", ![t].slot = s]
    /\ UNCHANGED <<accepting, replacing, active, retiring, stuck, backend, stopped, held, lifecycle>>

\* The group ends with an error, or is given up: what it got goes back.
Unwind(t, got, pc) ==
    th' = [th EXCEPT ![t] = IF got = 0 THEN Idle ELSE [@ EXCEPT !.pc = pc, !.got = got, !.slot = None]]

\* A gate is closed: the group fails and what it holds is released.
Refused(t) ==
    /\ At(t, "asked")
    /\ ~Admitted(t)
    /\ Unwind(t, th[t].got, "releasing")
    /\ UNCHANGED <<registry, actors, stuck, backend, stopped, held, lifecycle>>

Usable(t) == ~Mine(t).down /\ Mine(t).owner = None

\* Mutant of Counted: an acquisition that ends stays counted.
StillCounted(t) == UNCHANGED acquiring
\* _finish_acquire.
Counted(t) == acquiring' = [acquiring EXCEPT ![Target(t)] = @ \ {t}]
\* The error of an acquisition ends the group, which releases what it holds.
Failed(t) ==
    /\ Counted(t)
    /\ Unwind(t, th[t].got, "releasing")

\* _InstrumentActor.acquire finds the actor shut down or owned.
Conflict(t) ==
    /\ At(t, "gated")
    /\ ~MineLocked(t)
    /\ ~Usable(t)
    /\ Failed(t)
    /\ UNCHANGED <<accepting, replacing, active, retiring, registered, actors, stuck,
                   backend, stopped, held, lifecycle>>

\* The idle connection is the one asked for: a new epoch on it.
Reuse(t) ==
    /\ At(t, "gated")
    /\ ~MineLocked(t)
    /\ Usable(t)
    /\ Mine(t).conn = th[t].backend
    /\ actors' = [actors EXCEPT ![Target(t)][th[t].slot].owner = t]
    /\ Goto(t, "connected")
    /\ UNCHANGED <<registry, stuck, backend, stopped, held, lifecycle>>

\* Another binding or endpoint than the idle connection has: disconnect it first.
\* The binding is data, so any idle connection may have to go.
DropIdle(t) ==
    /\ At(t, "gated")
    /\ ~MineLocked(t)
    /\ Usable(t)
    /\ Mine(t).conn # None
    /\ \E ok \in BOOLEAN :
          /\ Detach(Target(t), th[t].slot, FALSE, ok)
          /\ IF ok THEN Goto(t, "connecting") /\ UNCHANGED acquiring ELSE Failed(t)
    /\ UNCHANGED <<accepting, replacing, active, retiring, registered,
                   backend, stopped, held, lifecycle>>

Dial(t) ==
    /\ At(t, "gated")
    /\ ~MineLocked(t)
    /\ Usable(t)
    /\ Mine(t).conn = None
    /\ Goto(t, "connecting")
    /\ UNCHANGED <<registry, actors, stuck, backend, stopped, held, lifecycle>>

\* The driver connects or it does not; a backend that was told to shut down and
\* did not confirm it may still connect.
Connect(t) ==
    /\ At(t, "connecting")
    /\ \/ /\ actors' = [actors EXCEPT ![Target(t)][th[t].slot] =
                            [@ EXCEPT !.owner = t, !.conn = th[t].backend]]
          /\ Goto(t, "connected")
          /\ UNCHANGED acquiring
       \/ /\ Failed(t)
          /\ UNCHANGED actors
    /\ UNCHANGED <<accepting, replacing, active, retiring, registered, stuck,
                   backend, stopped, held, lifecycle>>

Current(t) == registered[Target(t)] = th[t].slot

MayPublish(t) == Open(Target(t)) /\ Current(t)

\* The last section: no gate closed meanwhile, so the handle is handed out.
Publish(t) ==
    /\ At(t, "connected")
    /\ MayPublish(t)
    /\ Counted(t)
    /\ held' = [held EXCEPT ![t][Target(t)] = th[t].slot]
    /\ LET got == th[t].got + 1
       IN  th' = [th EXCEPT ![t] = [@ EXCEPT !.pc = IF got = Len(Wants[t]) THEN "owner" ELSE "asked",
                                             !.got = got, !.slot = None]]
    /\ UNCHANGED <<accepting, replacing, active, retiring, registered, actors, stuck,
                   backend, stopped, lifecycle>>

TurnAway(t) ==
    /\ At(t, "connected")
    /\ ~MayPublish(t)
    /\ Goto(t, "discarding")
    /\ UNCHANGED <<registry, actors, stuck, backend, stopped, held, lifecycle>>

\* Mutant of Discard: the handle that was not handed out keeps the device.
KeepUndelivered(t) ==
    /\ At(t, "discarding")
    /\ Goto(t, "failing")
    /\ UNCHANGED <<registry, actors, stuck, backend, stopped, held, lifecycle>>
\* owned.fault() of the handle that was not handed out; after a shutdown of the
\* actor it is stale, and the conflict is suppressed.
Discard(t) ==
    /\ At(t, "discarding")
    /\ IF Mine(t).owner = t
       THEN Sever(Target(t), th[t].slot, Mine(t).down)
       ELSE UNCHANGED <<actors, stuck>>
    /\ Goto(t, "failing")
    /\ UNCHANGED <<registry, backend, stopped, held, lifecycle>>

\* Only now is the acquisition over for the maintenance that waits for it.
Finish(t) ==
    /\ At(t, "failing")
    /\ Failed(t)
    /\ UNCHANGED <<accepting, replacing, active, retiring, registered, actors, stuck,
                   backend, stopped, held, lifecycle>>

-----------------------------------------------------------------------------
(* The end of an ownership: its instruments one by one, with the errors of stale *)
(* handles ignored.  The drain of a shutdown does the same for the owner.        *)

\* The session or the run ends, or has to give its devices up after a fault.
EndOwnership(t) ==
    /\ At(t, "owner")
    /\ \E pc \in {"releasing", "faulting"} : Goto(t, pc)
    /\ UNCHANGED <<registry, actors, stuck, backend, stopped, held, lifecycle>>

Valid(t, k) == held[t][k] # None /\ actors[k][held[t][k]].owner = t
GoesBack(t) ==
    /\ held' = [held EXCEPT ![t][Last(t)] = None]
    /\ Unwind(t, th[t].got - 1, th[t].pc)

\* release() of the last device: the epoch ends and the idle connection stays.
Release(t) ==
    /\ At(t, "releasing")
    /\ LET k == Last(t)
       IN  IF Valid(t, k)
           THEN actors' = [actors EXCEPT ![k][held[t][k]].owner = None]
           ELSE UNCHANGED actors
    /\ GoesBack(t)
    /\ UNCHANGED <<registry, stuck, backend, stopped, lifecycle>>

\* fault() of the last device: the epoch ends and the connection is discarded.
Fault(t) ==
    /\ At(t, "faulting")
    /\ LET k == Last(t)
       IN  IF Valid(t, k)
           THEN Sever(k, held[t][k], actors[k][held[t][k]].down)
           ELSE UNCHANGED <<actors, stuck>>
    /\ GoesBack(t)
    /\ UNCHANGED <<registry, backend, stopped, lifecycle>>

-----------------------------------------------------------------------------
(* Retirement: a gate per key, and the actors behind it closed when idle. *)

Behind(m) == {k \in Key : retiring[k] = m}
RetirementAt(m, pc) == rt[m].pc = pc
Advance(m, pc) == rt' = [rt EXCEPT ![m].pc = pc]

\* begin_retirement; it does not look at _replacing_backend.
BeginRetirement(m) ==
    /\ m \in Retirer
    /\ RetirementAt(m, "idle")
    /\ accepting
    /\ \A k \in Scope[m] : retiring[k] = None
    /\ retiring' = [k \in Key |-> IF k \in Scope[m] THEN m ELSE retiring[k]]
    /\ Advance(m, "gated")
    /\ UNCHANGED <<accepting, replacing, active, acquiring, registered, actors, stuck,
                   backend, stopped, th, held, rep, sd>>

\* Behind the gate the request finds the device claimed, or may not go on.
Blocked(m) ==
    /\ RetirementAt(m, "gated")
    /\ Advance(m, "leaving")
    /\ UNCHANGED <<registry, actors, stuck, backend, stopped, th, held, rep, sd>>

Drained(m) == \A k \in Behind(m) : acquiring[k] = {}

\* _retire_idle has waited for the acquisitions that entered before the gate.
Drain(m) ==
    /\ RetirementAt(m, "gated")
    /\ Drained(m)
    /\ rt' = [rt EXCEPT ![m] = [pc |-> "checking",
                                left |-> {ks \in Behind(m) \X Slot : registered[ks[1]] = ks[2]}]]
    /\ UNCHANGED <<registry, actors, stuck, backend, stopped, th, held, rep, sd>>

\* Mutant of IsIdle: an owner does not keep its actor from being retired.
IsUp(k, s) == ~actors[k][s].down
\* require_idle.
IsIdle(k, s) == ~actors[k][s].down /\ actors[k][s].owner = None

\* The whole group is checked before a connection is touched.  Owners can only
\* go while the gate is closed, so the checks are one step.
CheckGroup(m) ==
    /\ RetirementAt(m, "checking")
    /\ \A ks \in rt[m].left : ~Locked(ks[1], ks[2])
    /\ Advance(m, IF \A ks \in rt[m].left : IsIdle(ks[1], ks[2]) THEN "retiring" ELSE "leaving")
    /\ UNCHANGED <<registry, actors, stuck, backend, stopped, th, held, rep, sd>>

\* retire_idle of one actor: checked again, shut down and disconnected; only when
\* the driver confirms is the actor removed from the registry.  Nobody else adds
\* or removes the actor of a retiring key, so the removal is part of the step.
RetireOne(m, k, s) ==
    /\ RetirementAt(m, "retiring")
    /\ <<k, s>> \in rt[m].left
    /\ ~Locked(k, s)
    /\ IF IsIdle(k, s)
       THEN \E ok \in BOOLEAN :
               /\ ok \/ actors[k][s].conn # None
               /\ Detach(k, s, TRUE, ok)
               /\ registered' = IF ok THEN [registered EXCEPT ![k] = None] ELSE registered
               /\ rt' = [rt EXCEPT ![m] = [pc |-> IF ok THEN "retiring" ELSE "leaving",
                                           left |-> @.left \ {<<k, s>>}]]
       ELSE Advance(m, "leaving") /\ UNCHANGED <<registered, actors, stuck>>
    /\ UNCHANGED <<accepting, replacing, active, retiring, acquiring,
                   backend, stopped, th, held, rep, sd>>

Retired(m) ==
    /\ RetirementAt(m, "retiring")
    /\ rt[m].left = {}
    /\ Advance(m, "retired")
    /\ UNCHANGED <<registry, actors, stuck, backend, stopped, th, held, rep, sd>>

\* release_gate on the way out; a replacement's gate outlives the replacement.
OpenGate(m) ==
    /\ rt[m].pc \in {"retired", "leaving"}
    /\ m = Replacement => rep.pc = "idle"
    /\ retiring' = [k \in Key |-> IF retiring[k] = m THEN None ELSE retiring[k]]
    /\ rt' = [rt EXCEPT ![m] = NoRetirement]
    /\ UNCHANGED <<accepting, replacing, active, acquiring, registered, actors, stuck,
                   backend, stopped, th, held, rep, sd>>

-----------------------------------------------------------------------------
(* DeviceService.replace_backend inside InstrumentRuntimeService.replace_backend: *)
(* _mutation_lock until the gates are open again, _shutdown_lock while rep is not *)
(* idle.                                                                          *)

BeginReplacement(b) ==
    /\ rep.pc = "idle"
    /\ RetirementAt(Replacement, "idle")
    /\ sd.pc = "running"
    /\ b \notin stopped \cup {backend}
    /\ ~replacing
    /\ \A k \in Key : retiring[k] = None
    /\ replacing' = TRUE
    /\ rep' = [pc |-> "waiting", new |-> b, old |-> backend]
    /\ UNCHANGED <<accepting, active, retiring, acquiring, registered, actors, stuck,
                   backend, stopped, th, held, rt, sd>>

Quiet == \A k \in Key : acquiring[k] = {}

ReplacementDrained ==
    /\ rep.pc = "waiting"
    /\ Quiet
    /\ rep' = [rep EXCEPT !.pc = "gating"]
    /\ UNCHANGED <<registry, actors, stuck, backend, stopped, th, held, rt, sd>>

\* Another maintenance may have got in while the replacement waited.
GateReplacement ==
    /\ rep.pc = "gating"
    /\ \A k \in Key : retiring[k] = None
    /\ retiring' = [k \in Key |-> Replacement]
    /\ Advance(Replacement, "gated")
    /\ rep' = [rep EXCEPT !.pc = "retiring"]
    /\ UNCHANGED <<accepting, replacing, active, acquiring, registered, actors, stuck,
                   backend, stopped, th, held, sd>>

\* The gate is taken, an actor is not idle or the device revisions cannot be saved:
\* the previous backend stays.  The new one is shut down; nobody has seen it, so
\* it can stand for the next replacement.
FailReplacement ==
    /\ \/ rep.pc = "gating" /\ \E k \in Key : retiring[k] # None
       \/ rep.pc = "retiring" /\ rt[Replacement].pc \in {"retired", "leaving"}
    /\ replacing' = FALSE
    /\ rep' = NoReplacement
    /\ UNCHANGED <<accepting, active, retiring, acquiring, registered, actors, stuck,
                   backend, stopped, th, held, rt, sd>>

\* The revisions are durable: InstrumentBackendOwner.replace.
PublishBackend ==
    /\ rep.pc = "retiring"
    /\ RetirementAt(Replacement, "retired")
    /\ backend' = rep.new
    /\ rep' = [rep EXCEPT !.pc = "publishing"]
    /\ UNCHANGED <<registry, actors, stuck, stopped, th, held, rt, sd>>

\* The registry accepts the new endpoint only, from now on.
Activate ==
    /\ rep.pc = "publishing"
    /\ active' = rep.new
    /\ replacing' = FALSE
    /\ rep' = [rep EXCEPT !.pc = "stopping"]
    /\ UNCHANGED <<accepting, retiring, acquiring, registered, actors, stuck,
                   backend, stopped, th, held, rt, sd>>

\* previous.shutdown(), confirmed or not.
StopPrevious ==
    /\ rep.pc = "stopping"
    /\ stopped' = stopped \cup {rep.old}
    /\ rep' = NoReplacement
    /\ UNCHANGED <<registry, actors, stuck, backend, th, held, rt, sd>>

-----------------------------------------------------------------------------
(* InstrumentRuntimeService.shutdown, which excludes a replacement. *)

StopAccepting ==
    /\ sd.pc = "running"
    /\ rep.pc = "idle"
    /\ accepting' = FALSE
    /\ sd' = [sd EXCEPT !.pc = "draining"]
    /\ UNCHANGED <<replacing, active, retiring, acquiring, registered, actors, stuck,
                   backend, stopped, th, held, rt, rep>>

\* The worker is terminated when the drain takes too long.
Deadline ==
    /\ sd.pc \in {"draining", "closing"}
    /\ stopped' = stopped \cup {backend}
    /\ UNCHANGED <<registry, actors, stuck, backend, th, held, lifecycle>>

\* InstrumentActorRegistry.shutdown: the actors there are, one by one.
CloseRegistry ==
    /\ sd.pc = "draining"
    /\ sd' = [pc |-> "closing", left |-> {ks \in Key \X Slot : registered[ks[1]] = ks[2]}]
    /\ UNCHANGED <<registry, actors, stuck, backend, stopped, th, held, rt, rep>>

\* Mutant of ShutDownActor: an actor somebody owns is left to its owner.
ShutDownIdleActor(k, s) ==
    /\ sd.pc = "closing"
    /\ <<k, s>> \in sd.left
    /\ ~Locked(k, s)
    /\ IF actors[k][s].down \/ actors[k][s].owner # None
       THEN UNCHANGED <<actors, stuck>>
       ELSE Sever(k, s, TRUE)
    /\ sd' = [sd EXCEPT !.left = @ \ {<<k, s>>}]
    /\ UNCHANGED <<registry, backend, stopped, th, held, rt, rep>>
\* The lock of a connecting actor is waited for; errors are collected.
ShutDownActor(k, s) ==
    /\ sd.pc = "closing"
    /\ <<k, s>> \in sd.left
    /\ ~Locked(k, s)
    /\ IF actors[k][s].down THEN UNCHANGED <<actors, stuck>> ELSE Sever(k, s, TRUE)
    /\ sd' = [sd EXCEPT !.left = @ \ {<<k, s>>}]
    /\ UNCHANGED <<registry, backend, stopped, th, held, rt, rep>>

StopEndpoint ==
    /\ sd.pc = "closing"
    /\ sd.left = {}
    /\ stopped' = stopped \cup {backend}
    /\ sd' = [sd EXCEPT !.pc = "done"]
    /\ UNCHANGED <<registry, actors, stuck, backend, th, held, rt, rep>>

-----------------------------------------------------------------------------
\* What a thread does once it has asked; the driver's calls return.
Proceed(t) ==
    \/ Enter(t) \/ Refused(t)
    \/ Conflict(t) \/ Reuse(t) \/ DropIdle(t) \/ Dial(t)
    \/ Connect(t)
    \/ Publish(t) \/ TurnAway(t)
    \/ Discard(t) \/ Finish(t)
    \/ Release(t) \/ Fault(t)

Retire(m) ==
    \/ Drain(m) \/ CheckGroup(m) \/ Retired(m) \/ OpenGate(m)
    \/ \E k \in Key, s \in Slot : RetireOne(m, k, s)

Replace ==
    \/ ReplacementDrained \/ GateReplacement \/ FailReplacement
    \/ PublishBackend \/ Activate \/ StopPrevious

ShutDown ==
    \/ CloseRegistry \/ StopEndpoint
    \/ \E k \in Key, s \in Slot : ShutDownActor(k, s)

Next ==
    \/ \E t \in Thread : Ask(t) \/ Proceed(t) \/ EndOwnership(t)
    \/ \E m \in Party : BeginRetirement(m) \/ Blocked(m) \/ Retire(m)
    \/ \E b \in Backend : BeginReplacement(b)
    \/ Replace
    \/ StopAccepting \/ Deadline \/ ShutDown

Spec == Init /\ [][Next]_vars

\* Every thread that is not waiting runs on, and a call of the driver returns:
\* the worker bounds it with its operation timeout.  Nobody has to ask, to give
\* a device up, or to begin maintenance.
FairSpec ==
    /\ Spec
    /\ \A t \in Thread : WF_vars(Proceed(t))
    /\ \A m \in Party : WF_vars(Retire(m))
    /\ WF_vars(Replace)
    /\ WF_vars(ShutDown)

-----------------------------------------------------------------------------
(* Properties. *)

\* The lines to a device that may be in use: connections of actor objects,
\* connects under way, and a connection whose disconnect was not confirmed.
Lines(k) ==
    {<<"actor", s>> : s \in {s \in Slot : actors[k][s].conn # None}}
        \cup {<<"connect", t>> : t \in {t \in Thread : At(t, "connecting") /\ Target(t) = k}}
        \cup {<<"stuck", k>> : x \in {k} \cap stuck}

\* A physical device never has two lines to it, not even across actor objects,
\* after a failed disconnect, a retirement, a replacement or a shutdown.
OneConnection == \A k \in Key : \A a, b \in Lines(k) : a = b

\* An actor's owner is a thread that still knows it: it holds the handle, or its
\* acquisition is about to publish or to discard it.  A device with a forgotten
\* owner could not be used again before a restart.
NoGhostOwner ==
    \A k \in Key, s \in Slot, t \in Thread :
        actors[k][s].owner = t =>
            \/ held[t][k] = s
            \/ th[t].pc \in {"connected", "discarding"} /\ Target(t) = k /\ th[t].slot = s

\* Neither maintenance nor a replacement takes a device from an owner that has
\* been given its handle: only the owner's own release or fault does, and the
\* shutdown of the daemon.
OwnerKeepsDevice ==
    [][\A t \in Thread, k \in Key :
         held[t][k] # None /\ held'[t][k] = held[t][k] /\ accepting' /\ Valid(t, k) =>
             /\ Valid(t, k)'
             /\ actors'[k][held[t][k]].conn = actors[k][held[t][k]].conn
             /\ registered'[k] = held[t][k]]_vars

\* While the daemon runs, no device is connected through a backend that was told
\* to shut down, and after a replacement none through another than the new one.
ConnectedToActive ==
    accepting =>
        \A k \in Key, s \in Slot :
            LET b == actors[k][s].conn
            IN  b # None => b \notin stopped /\ active \in {None, b}

\* When the shutdown is done, nothing is owned and nothing is connected, however
\* slow the connects were that it overlapped with.
AllClosed ==
    \A k \in Key, s \in Slot : actors[k][s].owner = None /\ actors[k][s].conn = None

\* Maintenance, a replacement and the shutdown wait for acquisitions under way;
\* each of them ends and opens its gates again, the shutdown with nothing left
\* that is owned or connected.
MaintenanceEnds ==
    /\ \A m \in Party : rt[m].pc # "idle" ~> rt[m].pc = "idle"
    /\ rep.pc # "idle" ~> rep.pc = "idle"
    /\ sd.pc # "running" ~> [](sd.pc = "done" /\ AllClosed)
=============================================================================
