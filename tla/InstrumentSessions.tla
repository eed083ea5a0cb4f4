------------------------- MODULE InstrumentSessions -------------------------
(***************************************************************************)
(* Direct-interaction sessions: the table instrument_sessions of           *)
(* SQLiteControlPlane together with the daemon's volatile state for it in  *)
(* InstrumentRuntimeService (runtime.py), which holds the devices.         *)
(*                                                                         *)
(* A step is what one thread does between two points where another one can *)
(* get in: a SQLite write transaction, a device call, a wait for a lock.   *)
(* Three locks matter: _open_lock (held while "opening"), the lease_lock   *)
(* of a session context and its runtime.lock ("busy" says what the holder  *)
(* of the latter is about to do).                                          *)
(*                                                                         *)
(* Time is abstract as in RunControl: "expired" is expires_at <= now, and  *)
(* "overdue" is expires_at <= the time of the supervisor's pass.           *)
(***************************************************************************)
EXTENDS ResourceClaims

CONSTANT Session   \* instrument sessions, one per open_operation_id

ASSUME SessionAssumption == Session \subseteq Owner

VARIABLES
    sessions,   \* instrument_sessions: state and active operation
    terms,      \* expires_at of a session, as compared by the code
    opening,    \* the session being opened, if any: holds _open_lock
    contexts,   \* _sessions: sessions with a published SessionContext
    hardware,   \* sessions whose OwnershipRuntime holds its instruments
    busy,       \* holder of the session's runtime.lock
    leaseLock,  \* holder of the session's lease_lock
    listed,     \* expired sessions the supervisor's pass has still to visit
    unknown     \* sessions that had an effect of unknown outcome (history)

sessionOnlyVars ==
    <<sessions, terms, opening, contexts, hardware, busy, leaseLock, listed, unknown>>
sessionVars == <<claims, sessionOnlyVars>>

-----------------------------------------------------------------------------
SessionState == {"absent", "active", "attention_required", "closed"}

\* op: active_operation_id IS NOT NULL.
SessionRow == [state : SessionState, op : BOOLEAN]

Term == [expired : BOOLEAN, overdue : BOOLEAN]
FreshTerm == [expired |-> FALSE, overdue |-> FALSE]

\* free; in a device operation; to close after a failed observation or after the
\* owner ended the session; to mark the session as lost.
Busy == {"free", "operating", "unobservable", "ending", "lost"}

SessionTypeOK ==
    /\ ClaimsTypeOK
    /\ sessions \in [Session -> SessionRow]
    /\ terms \in [Session -> Term]
    /\ opening \subseteq Session
    /\ contexts \subseteq Session
    /\ hardware \subseteq Session
    /\ busy \in [Session -> Busy]
    /\ leaseLock \in [Session -> {"free", "renewing", "expiring"}]
    /\ listed \subseteq Session
    /\ unknown \subseteq Session

VolatileInit ==
    /\ opening = {}
    /\ contexts = {}
    /\ hardware = {}
    /\ busy = [s \in Session |-> "free"]
    /\ leaseLock = [s \in Session |-> "free"]
    /\ listed = {}

SessionInit ==
    /\ claims = {}
    /\ sessions = [s \in Session |-> [state |-> "absent", op |-> FALSE]]
    /\ terms = [s \in Session |-> FreshTerm]
    /\ unknown = {}
    /\ VolatileInit

-----------------------------------------------------------------------------
(* Guards and statements shared by the transactions. *)

Active(s) == sessions[s].state = "active"

\* _live_instrument_session.
SessionLive(s) == Active(s) /\ ~terms[s].expired

\* Mutant of Unfinished: nothing is left to finish once the lease has run out.
UnfinishedAndLive(s) == sessions[s].op /\ ~terms[s].expired
\* The row says that an instrument operation started and did not finish.
Unfinished(s) == sessions[s].op

\* state = 'closed' and no active operation; the end status is left out.
ClosedRow == [state |-> "closed", op |-> FALSE]

\* Mutant of Close: the row is closed and its claims are kept.
CloseRowOnly(s) ==
    /\ sessions' = [sessions EXCEPT ![s] = ClosedRow]
    /\ UNCHANGED claims
\* _close_instrument_session_in_transaction.
Close(s) ==
    /\ sessions' = [sessions EXCEPT ![s] = ClosedRow]
    /\ claims' = Released({s})

\* Mutant of MarkUnknown: a lost session is closed like any other.
MarkByClosing(s) ==
    IF Active(s)
    THEN /\ sessions' = [sessions EXCEPT ![s] = [state |-> "closed", op |-> FALSE]]
         /\ claims' = Released({s})
    ELSE UNCHANGED <<sessions, claims>>
\* _mark_unknown: quarantine an active session; of any other row the error
\* is suppressed.  The unfinished operation stays on record.
MarkUnknown(s) ==
    IF Active(s)
    THEN /\ sessions' = [sessions EXCEPT ![s].state = "attention_required"]
         /\ claims' = Quarantined({s})
    ELSE UNCHANGED <<sessions, claims>>

\* fault_ownership or release_instruments, then _pop_runtime.
LetGo(s) == hardware' = hardware \ {s} /\ contexts' = contexts \ {s}

\* The runtime.lock of a published session is free and the lease is live.
Entered(s) == s \in contexts /\ busy[s] = "free" /\ SessionLive(s)

-----------------------------------------------------------------------------
(* open_session: _open_lock is held from the first step to the last.       *)

\* open_instrument_session.  A retry with the same operation id returns the row.
BeginOpen(s) ==
    /\ opening = {}
    /\ sessions[s].state = "absent"
    /\ Free(s)
    /\ sessions' = [sessions EXCEPT ![s] = [state |-> "active", op |-> FALSE]]
    /\ terms' = [terms EXCEPT ![s] = FreshTerm]
    /\ claims' = Claimed(s)
    /\ opening' = {s}
    /\ UNCHANGED <<contexts, hardware, busy, leaseLock, listed, unknown>>

\* _open_ownership connects and observes every instrument.
Connect(s) ==
    /\ s \in opening \ hardware
    /\ hardware' = hardware \cup {s}
    /\ UNCHANGED <<claims, sessions, terms, opening, contexts, busy, leaseLock, listed,
                   unknown>>

\* Mutant of AbortOpen: the devices of the open that took too long are kept.
AbortOpenConnected(s) ==
    /\ Close(s)
    /\ opening' = {}
    /\ UNCHANGED <<terms, hardware, contexts, busy, leaseLock, listed, unknown>>
\* fault_ownership, where something is connected, and _abort_open_session.
AbortOpen(s) ==
    /\ Close(s)
    /\ opening' = {}
    /\ hardware' = hardware \ {s}
    /\ UNCHANGED <<terms, contexts, busy, leaseLock, listed, unknown>>

\* The connection or the first observation failed.
ConnectFails(s) == s \in opening \ hardware /\ AbortOpen(s)

\* Renewal before the context is published: an open that took longer than its
\* lease is given up.
FinishOpen(s) ==
    /\ s \in opening \cap hardware
    /\ \/ /\ SessionLive(s)
          /\ terms' = [terms EXCEPT ![s] = FreshTerm]
          /\ contexts' = contexts \cup {s}
          /\ opening' = {}
          /\ UNCHANGED <<claims, sessions, hardware, busy, leaseLock, listed, unknown>>
       \/ ~SessionLive(s) /\ AbortOpen(s)

-----------------------------------------------------------------------------
(* The owner: heartbeats, operations and the end of the session.           *)

\* renew_session under lease_lock: the clock is read before the transaction ...
BeginRenew(s) ==
    /\ s \in contexts
    /\ leaseLock[s] = "free"
    /\ SessionLive(s)
    /\ leaseLock' = [leaseLock EXCEPT ![s] = "renewing"]
    /\ UNCHANGED <<claims, sessions, terms, opening, contexts, hardware, busy, listed,
                   unknown>>

\* ... which compares the lease with that reading.
Renew(s) ==
    /\ leaseLock[s] = "renewing"
    /\ leaseLock' = [leaseLock EXCEPT ![s] = "free"]
    /\ terms' = IF Active(s) THEN [terms EXCEPT ![s] = FreshTerm] ELSE terms
    /\ UNCHANGED <<claims, sessions, opening, contexts, hardware, busy, listed, unknown>>

\* apply, invoke or collect up to start_instrument_operation.
StartOperation(s) ==
    /\ Entered(s)
    /\ ~sessions[s].op
    /\ sessions' = [sessions EXCEPT ![s].op = TRUE]
    /\ busy' = [busy EXCEPT ![s] = "operating"]
    /\ UNCHANGED <<claims, terms, opening, contexts, hardware, leaseLock, listed, unknown>>

\* finish_instrument_operation after a definite receipt.
FinishOperation(s) ==
    /\ busy[s] = "operating"
    /\ SessionLive(s)
    /\ sessions' = [sessions EXCEPT ![s].op = FALSE]
    /\ busy' = [busy EXCEPT ![s] = "free"]
    /\ UNCHANGED <<claims, terms, opening, contexts, hardware, leaseLock, listed, unknown>>

(***************************************************************************)
(* The operation is lost: its receipt is "unknown" and was recorded as a   *)
(* finish, or the driver failed, or the finish was refused because the     *)
(* lease had run out meanwhile.  _lose_runtime lets go of the devices      *)
(* before it marks the session.                                            *)
(***************************************************************************)
LoseOperation(s) ==
    /\ busy[s] = "operating"
    /\ \/ /\ SessionLive(s)                \* unknown receipt, audited
          /\ sessions' = [sessions EXCEPT ![s].op = FALSE]
       \/ UNCHANGED sessions               \* driver failure, or refused audit
    /\ unknown' = unknown \cup {s}
    /\ LetGo(s)
    /\ busy' = [busy EXCEPT ![s] = "lost"]
    /\ UNCHANGED <<claims, terms, opening, leaseLock, listed>>

\* Mutant of MarkLost: the handler is left without giving runtime.lock back.
MarkLostLocked(s) ==
    /\ busy[s] = "lost"
    /\ MarkUnknown(s)
    /\ UNCHANGED <<terms, opening, contexts, hardware, busy, leaseLock, listed, unknown>>
\* The last step of _lose_runtime, and of a failed end.
MarkLost(s) ==
    /\ busy[s] = "lost"
    /\ MarkUnknown(s)
    /\ busy' = [busy EXCEPT ![s] = "free"]
    /\ UNCHANGED <<terms, opening, contexts, hardware, leaseLock, listed, unknown>>

\* A read before an operation fails: _end_failed_observation lets go ...
FailObservation(s) ==
    /\ Entered(s)
    /\ LetGo(s)
    /\ busy' = [busy EXCEPT ![s] = "unobservable"]
    /\ UNCHANGED <<claims, sessions, terms, opening, leaseLock, listed, unknown>>

\* ... and then closes the session, or marks it if the close is refused.
CloseUnobservable(s) ==
    /\ busy[s] = "unobservable"
    /\ IF Active(s) /\ ~sessions[s].op THEN Close(s) ELSE MarkUnknown(s)
    /\ busy' = [busy EXCEPT ![s] = "free"]
    /\ UNCHANGED <<terms, opening, contexts, hardware, leaseLock, listed, unknown>>

\* close_session or abort_session: release the devices ...
EndSession(s) ==
    /\ Entered(s)
    /\ \/ /\ hardware' = hardware \ {s}
          /\ busy' = [busy EXCEPT ![s] = "ending"]
          /\ UNCHANGED contexts
       \/ /\ LetGo(s)                      \* the abort or the release failed
          /\ busy' = [busy EXCEPT ![s] = "lost"]
    /\ UNCHANGED <<claims, sessions, terms, opening, leaseLock, listed, unknown>>

\* ... and close the row, whether or not the lease has run out by now.
CloseEnded(s) ==
    /\ busy[s] = "ending"
    /\ IF Active(s) /\ ~sessions[s].op THEN Close(s) ELSE MarkUnknown(s)
    /\ contexts' = contexts \ {s}
    /\ busy' = [busy EXCEPT ![s] = "free"]
    /\ UNCHANGED <<terms, opening, hardware, leaseLock, listed, unknown>>

\* resolve_attention: the operator reconciled the devices.
ResolveSession(s) ==
    /\ opening = {}
    /\ sessions[s].state = "attention_required"
    /\ s \in contexts => busy[s] = "free"
    /\ LetGo(s)
    /\ Close(s)
    /\ UNCHANGED <<terms, opening, busy, leaseLock, listed, unknown>>

-----------------------------------------------------------------------------
(* Time, the lease supervisor, and the restart of the daemon.              *)

LapseSession(s) ==
    /\ SessionLive(s)
    /\ terms' = [terms EXCEPT ![s].expired = TRUE]
    /\ UNCHANGED <<claims, sessions, opening, contexts, hardware, busy, leaseLock, listed,
                   unknown>>

\* expire_leases lists the expired sessions while no session is being opened.
ReadExpiredSessions ==
    /\ opening = {}
    /\ listed = {}
    /\ listed' = {s \in Session : Active(s) /\ terms[s].expired}
    /\ listed' # {}
    /\ terms' = [s \in Session |-> [terms[s] EXCEPT !.overdue = terms[s].expired]]
    /\ UNCHANGED <<claims, sessions, opening, contexts, hardware, busy, leaseLock, unknown>>

\* Mutant of StillOverdue: the list read earlier is not compared again.
ListedAndActive(s) == Active(s)
\* current.state = "active" and current.expires_at <= checked_at.
StillOverdue(s) == Active(s) /\ terms[s].overdue

\* _expire_session of a session without a context.
ExpireWithoutContext(s) ==
    /\ s \in listed \ contexts
    /\ leaseLock[s] # "expiring"
    /\ IF StillOverdue(s) THEN MarkUnknown(s) ELSE UNCHANGED <<sessions, claims>>
    /\ listed' = listed \ {s}
    /\ UNCHANGED <<terms, opening, contexts, hardware, busy, leaseLock, unknown>>

\* The supervisor gets the lease_lock; it keeps heartbeats out from here on.
BeginExpire(s) ==
    /\ s \in listed \cap contexts
    /\ \A t \in Session : leaseLock[t] # "expiring"
    /\ leaseLock[s] = "free"
    /\ leaseLock' = [leaseLock EXCEPT ![s] = "expiring"]
    /\ UNCHANGED <<claims, sessions, terms, opening, contexts, hardware, busy, listed,
                   unknown>>

(***************************************************************************)
(* The supervisor gets the runtime.lock as well.  An idle session is       *)
(* released and closed, one whose release fails or whose operation is on   *)
(* record is lost, one that was renewed or has ended is left alone.        *)
(***************************************************************************)
Expire(s) ==
    /\ leaseLock[s] = "expiring"
    /\ busy[s] = "free"
    /\ IF StillOverdue(s)
       THEN /\ LetGo(s)
            /\ (~Unfinished(s) /\ Close(s)) \/ MarkUnknown(s)
       ELSE UNCHANGED <<sessions, claims, hardware, contexts>>
    /\ leaseLock' = [leaseLock EXCEPT ![s] = "free"]
    /\ listed' = listed \ {s}
    /\ UNCHANGED <<terms, opening, busy, unknown>>

\* reconcile_instrument_sessions_after_restart: what was in an operation is
\* quarantined, every other active session closed.
ReconcileSessions ==
    LET lost == {s \in Session : Active(s) /\ Unfinished(s)}
        idle == {s \in Session : Active(s) /\ ~Unfinished(s)}
    IN sessions' = [s \in Session |->
            IF s \in lost THEN [sessions[s] EXCEPT !.state = "attention_required"]
            ELSE IF s \in idle THEN ClosedRow ELSE sessions[s]]

\* What the reconciliation makes of a claims table.
Reconciled(table) ==
    LET lost == {s \in Session : Active(s) /\ Unfinished(s)}
        idle == {s \in Session : Active(s) /\ ~Unfinished(s)}
    IN {IF c.owner \in lost THEN [c EXCEPT !.status = "quarantined"] ELSE c :
            c \in {d \in table : d.owner \notin idle}}

\* The process is gone with its contexts, connections, locks and lists.
RestartVolatile ==
    /\ opening' = {}
    /\ contexts' = {}
    /\ hardware' = {}
    /\ busy' = [s \in Session |-> "free"]
    /\ leaseLock' = [s \in Session |-> "free"]
    /\ listed' = {}

RestartSessions ==
    /\ ReconcileSessions
    /\ claims' = Reconciled(claims)
    /\ RestartVolatile
    /\ UNCHANGED <<terms, unknown>>

-----------------------------------------------------------------------------
OpenStep(s) == BeginOpen(s) \/ Connect(s) \/ ConnectFails(s) \/ FinishOpen(s)

OwnerStep(s) ==
    \/ BeginRenew(s) \/ Renew(s)
    \/ StartOperation(s) \/ FinishOperation(s) \/ LoseOperation(s)
    \/ FailObservation(s) \/ EndSession(s)

CleanupStep(s) == MarkLost(s) \/ CloseUnobservable(s) \/ CloseEnded(s)

ExpiryStep(s) == ExpireWithoutContext(s) \/ BeginExpire(s) \/ Expire(s)

SessionStep ==
    \/ \E s \in Session :
          \/ OpenStep(s) \/ OwnerStep(s) \/ CleanupStep(s) \/ ExpiryStep(s)
          \/ ResolveSession(s)
          \/ LapseSession(s)
    \/ ReadExpiredSessions

SessionNext == SessionStep \/ RestartSessions

SessionSpec == SessionInit /\ [][SessionNext]_sessionVars

-----------------------------------------------------------------------------
(* What these handlers promise together. *)

(***************************************************************************)
(* The claims of a session follow its row: all of its instruments while it *)
(* is active, all of them quarantined while it needs attention, none       *)
(* before it is opened and after it is closed.                             *)
(***************************************************************************)
SessionClaimsMatchState ==
    \A s \in Session :
        IF Active(s) THEN HoldsExactly(s, "active")
        ELSE IF sessions[s].state = "attention_required" THEN HoldsExactly(s, "quarantined")
             ELSE Held(s) = {}

(***************************************************************************)
(* The daemon holds the devices of a session only under claims of that     *)
(* session that nobody else can take: whichever way a session ends, its    *)
(* devices are let go before its claims.                                   *)
(***************************************************************************)
HardwareIsClaimed ==
    \A s \in hardware : Active(s) /\ HoldsExactly(s, "active")

\* An operation that was started and not finished is never swept under the rug:
\* its session goes through attention, whatever ends it.
UnfinishedNeedsAttention ==
    [][\A s \in Session :
          Active(s) /\ sessions[s].op => sessions'[s].state # "closed"]_sessionVars

\* A quarantined instrument is given back by the resolution of its own session.
SessionQuarantineNeedsDecision ==
    [][\A s \in Session : \A c \in Held(s) \ claims' :
          c.status = "quarantined" =>
              sessions[s].state = "attention_required"
                  /\ sessions'[s].state = "closed"]_sessionVars

\* A closed session stays closed: a handler that was about to mark it as lost
\* when the supervisor and the operator were faster does not quarantine it again.
ClosedSessionForever ==
    [][\A s \in Session :
          sessions[s].state = "closed" => sessions'[s] = sessions[s]]_sessionVars

\* An effect of unknown outcome keeps its instruments from everyone else until
\* an operator resolves the session.
UnknownEffectIsQuarantined ==
    [][\A s \in unknown : Active(s) => sessions'[s].state # "closed"]_sessionVars
=============================================================================
