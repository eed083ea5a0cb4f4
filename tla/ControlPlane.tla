---------------------------- MODULE ControlPlane ----------------------------
(***************************************************************************)
(* Runs and instrument sessions over one claims table, the one supervisor  *)
(* thread that expires both (OwnershipLeaseSupervisor, expire_leases), and *)
(* the restart of the daemon, which reconciles both before it serves.      *)
(***************************************************************************)
EXTENDS RunControl, InstrumentSessions

ASSUME OwnersAssumption == Owner = Run \cup Session /\ Run \cap Session = {}

VARIABLE phase   \* what the supervisor's pass looks at: "runs" or "sessions"

vars == <<claims, runOnlyVars, sessionOnlyVars, phase>>

TypeOK == RunTypeOK /\ SessionTypeOK /\ phase \in {"runs", "sessions"}

Init == RunInit /\ SessionInit /\ phase = "runs"

-----------------------------------------------------------------------------
RunHandlers ==
    /\ \E r \in Run : ExecutorStep(r) \/ OperatorStep(r) \/ LapseLease(r)
    /\ UNCHANGED <<sessionOnlyVars, phase>>

SessionHandlers ==
    /\ \E s \in Session :
          \/ OpenStep(s) \/ OwnerStep(s) \/ CleanupStep(s)
          \/ ResolveSession(s)
          \/ LapseSession(s)
    /\ UNCHANGED <<runOnlyVars, phase>>

(***************************************************************************)
(* One pass of expire_leases.  Runs first: list, then fence.  Then the     *)
(* sessions, whose list waits for _open_lock and whose expiry waits for    *)
(* the locks of each session; the next pass begins when this one is done.  *)
(***************************************************************************)
ListRuns == phase = "runs" /\ ReadExpiredLeases /\ UNCHANGED <<sessionOnlyVars, phase>>

FenceRuns ==
    /\ phase = "runs"
    /\ ExpireLeases
    /\ phase' = "sessions"
    /\ UNCHANGED sessionOnlyVars

NoExpiredRun ==
    /\ phase = "runs"
    /\ sweep = {}
    /\ \A r \in Run : ~leases[r].expired
    /\ phase' = "sessions"
    /\ UNCHANGED <<claims, runOnlyVars, sessionOnlyVars>>

ListSessions ==
    phase = "sessions" /\ ReadExpiredSessions /\ UNCHANGED <<runOnlyVars, phase>>

NoExpiredSession ==
    /\ phase = "sessions"
    /\ opening = {}
    /\ listed = {}
    /\ \A s \in Session : Active(s) => ~terms[s].expired
    /\ phase' = "runs"
    /\ UNCHANGED <<claims, runOnlyVars, sessionOnlyVars>>

VisitSession(s) ==
    /\ phase = "sessions"
    /\ ExpiryStep(s)
    /\ phase' = IF listed' = {} THEN "runs" ELSE "sessions"
    /\ UNCHANGED runOnlyVars

SupervisorStep ==
    \/ ListRuns \/ FenceRuns \/ NoExpiredRun
    \/ ListSessions \/ NoExpiredSession
    \/ \E s \in Session : VisitSession(s)

\* reconcile_startup: executors are abandoned, then sessions reconciled.
Restart ==
    /\ RestartRunRows
    /\ ReconcileSessions
    /\ claims' = Reconciled(AfterLoss(WithLease))
    /\ RestartVolatile
    /\ phase' = "runs"
    /\ UNCHANGED <<terms, unknown>>

Next == RunHandlers \/ SessionHandlers \/ SupervisorStep \/ Restart

Spec == Init /\ [][Next]_vars

-----------------------------------------------------------------------------
(***************************************************************************)
(* The rows of scheduler_runs and instrument_sessions alone, without the   *)
(* claims table, behave as owners of exclusive resources.                  *)
(***************************************************************************)
HeldByState ==
    [o \in Owner |->
        IF o \in Run
        THEN IF runs[o].state = "leased" THEN "active"
             ELSE IF runs[o].state = "attention_required" /\ ~WiringOnly(o)
                  THEN "quarantined" ELSE "none"
        ELSE IF Active(o) THEN "active"
             ELSE IF sessions[o].state = "attention_required"
                  THEN "quarantined" ELSE "none"]

Abstract == INSTANCE Ownership WITH held <- HeldByState

\* Every step of the control plane acquires, ends or decides an ownership, or
\* leaves all of them alone.
ImplementsOwnership == Abstract!OwnershipSpec

(***************************************************************************)
(* In the one claims table the rows of every run and of every session are  *)
(* those its own row calls for, whoever fenced, expired or closed it.      *)
(***************************************************************************)
ClaimsFollowRows == ClaimsMatchState /\ SessionClaimsMatchState

(***************************************************************************)
(* While the daemon holds the devices of a session no run that needs one   *)
(* of them executes, and none that may have left one in an unknown state   *)
(* waits for its operator.                                                 *)
(***************************************************************************)
NoRunBesideSession ==
    \A s \in hardware : \A r \in Run :
        Needs[r] \cap Needs[s] # {} =>
            runs[r].state # "leased"
                /\ (runs[r].state = "attention_required" => WiringOnly(r))

(***************************************************************************)
(* Whoever renewed its lease after the supervisor listed it keeps what it  *)
(* owns: an executor is not fenced and the row of a session is left alone  *)
(* when the supervisor gets to it, unless the lease has lapsed again.      *)
(***************************************************************************)
RenewedAreSpared ==
    /\ RenewedIsSpared
    /\ [][\A s \in Session :
            leaseLock[s] = "expiring" /\ leaseLock'[s] = "free" /\ runtime' = runtime
                /\ sessions'[s] # sessions[s] => terms[s].expired]_vars

\* The one handler at a time that opens a session, operates in it or ends it; the
\* supervisor takes its lease_lock; a lease runs out while that lock is held.
GoesOn(s) ==
    /\ \/ Connect(s) \/ ConnectFails(s) \/ FinishOpen(s)
       \/ FinishOperation(s) \/ LoseOperation(s) \/ CleanupStep(s)
    /\ UNCHANGED <<runOnlyVars, phase>>

GetsLeaseLock(s) == BeginExpire(s) /\ UNCHANGED <<runOnlyVars, phase>>

RunsOut(s) ==
    /\ leaseLock[s] = "expiring"
    /\ LapseSession(s)
    /\ UNCHANGED <<runOnlyVars, phase>>

(***************************************************************************)
(* Threads run on, device calls return, the supervisor repeats its pass.   *)
(* Heartbeats of a session are a third of its lease apart, so the          *)
(* supervisor gets a lease_lock that is free again and again.  Nothing of  *)
(* the kind is assumed of runtime.lock, which an owner may take for one    *)
(* operation after the other; but time goes by, and the lease of a session *)
(* that cannot be renewed runs out.                                        *)
(***************************************************************************)
FairSpec ==
    /\ Spec
    /\ WF_vars(SupervisorStep)
    /\ \A s \in Session :
          /\ WF_vars(GoesOn(s))
          /\ WF_vars(Renew(s) /\ UNCHANGED <<runOnlyVars, phase>>)
          /\ SF_vars(GetsLeaseLock(s))
          /\ WF_vars(RunsOut(s))

(***************************************************************************)
(* Neither an executor nor a session keeps what it owns past its lease,    *)
(* unless a heartbeat that was on its way renews it: the supervisor's one  *)
(* thread ends it, although that thread may be kept waiting by another     *)
(* session, which was renewed in time and is in use all along.             *)
(***************************************************************************)
ExpiredIsFenced ==
    /\ \A r \in Run : leases[r].expired ~> ~leases[r].expired
    /\ \A s \in Session :
          (Active(s) /\ terms[s].expired) ~> ~(Active(s) /\ terms[s].expired)
=============================================================================
