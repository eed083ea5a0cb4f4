------------------------- MODULE ControlPlaneProofs -------------------------
(***************************************************************************)
(* Instrument sessions for every set of sessions and instruments: the      *)
(* claims of a session follow its row, its devices are held only under     *)
(* those claims, and what it left unfinished goes through attention.  Then *)
(* runs and sessions over one claims table, for every set of either: what  *)
(* each side is proved to keep, the other does not disturb, and together   *)
(* they behave as owners of exclusive resources (Ownership).               *)
(***************************************************************************)
EXTENDS ControlPlane, RunHistoryProofs

(***************************************************************************)
(* The properties say nothing of the handlers that are half done, and are  *)
(* not inductive: a handler that was about to close a row finds the        *)
(* devices gone because of what it did before it got there.  HandlersOK    *)
(* says what a half-done handler has left of its session.                  *)
(***************************************************************************)
DevicesOK(s) ==
    s \in hardware =>
        /\ Active(s)
        /\ s \in contexts \cup opening
        /\ busy[s] \in {"free", "operating"}

\* A session being opened has been visited by nobody else.
OpeningOK(s) ==
    s \in opening =>
        /\ Active(s) /\ ~sessions[s].op
        /\ busy[s] = "free"
        /\ s \notin contexts \cup listed

\* Whoever works on a session found its row; the supervisor found it expired.
KnownOK(s) ==
    /\ s \in contexts \cup listed \/ busy[s] # "free" => sessions[s].state # "absent"
    /\ leaseLock[s] = "expiring" => s \in listed

\* _open_lock is held for one session.
OneOpening == \A s, t \in opening : s = t

HandlersOK ==
    /\ OneOpening
    /\ \A s \in Session : DevicesOK(s) /\ OpeningOK(s) /\ KnownOK(s)

SessionInv ==
    SessionTypeOK /\ ExclusiveClaims /\ SessionClaimsMatchState /\ HandlersOK

\* The rows of the sessions in a claims table that follows their rows.
SessionDue(row, s) ==
    IF row.state = "active" THEN Whole(s, "active")
    ELSE IF row.state = "attention_required" THEN Whole(s, "quarantined")
         ELSE {}

SessionRowsMatch(table, rows) ==
    \A s \in Session : Rows(table, s) = SessionDue(rows[s], s)

LEMMA SessionMatch == SessionClaimsMatchState <=> SessionRowsMatch(claims, sessions)
BY DEF SessionClaimsMatchState, SessionRowsMatch, Rows, Held, HoldsExactly, SessionDue,
   Whole, Active

LEMMA SessionMatchNext ==
    SessionClaimsMatchState' <=> SessionRowsMatch(claims', sessions')
BY DEF SessionClaimsMatchState, SessionRowsMatch, Rows, Held, HoldsExactly, SessionDue,
   Whole, Active

\* What the transactions do to the rows and the claims.
SessionRowsOK ==
    /\ ClaimsTypeOK /\ ExclusiveClaims
    /\ sessions \in [Session -> SessionRow]
    /\ SessionClaimsMatchState

LEMMA SessionRowsOKNext ==
    ASSUME claims' \subseteq Claim, sessions' \in [Session -> SessionRow],
           Exclusive(claims'), SessionRowsMatch(claims', sessions')
    PROVE  SessionRowsOK'
BY SessionMatchNext DEF SessionRowsOK, ClaimsTypeOK, ExclusiveClaims, Exclusive

\* A transaction that writes the row and the claims of one session.
LEMMA OneSessionRow ==
    ASSUME SessionRowsOK, NEW s \in Session, NEW row \in SessionRow,
           sessions' = [sessions EXCEPT ![s] = row],
           claims' \subseteq Claim, Exclusive(claims'),
           \A t \in Session \ {s} : Rows(claims', t) = Held(t),
           Rows(claims', s) = SessionDue(row, s)
    PROVE  SessionRowsOK'
<1>1. sessions' \in [Session -> SessionRow] /\ sessions'[s] = row
      /\ \A t \in Session \ {s} : sessions'[t] = sessions[t]
  BY DEF SessionRowsOK
<1>2. SessionRowsMatch(claims', sessions')
  BY <1>1, SessionMatch DEF SessionRowsOK, SessionRowsMatch, Rows, Held
<1> QED
  BY <1>1, <1>2, SessionRowsOKNext

\* A transaction that writes neither claims nor the state of a row.
LEMMA SameStates ==
    ASSUME SessionRowsOK, UNCHANGED claims, sessions' \in [Session -> SessionRow],
           \A s \in Session : sessions'[s].state = sessions[s].state
    PROVE  SessionRowsOK'
<1>1. SessionRowsMatch(claims', sessions')
  BY SessionMatch DEF SessionRowsOK, SessionRowsMatch, SessionDue
<1> QED
  BY <1>1, SessionRowsOKNext DEF SessionRowsOK, ClaimsTypeOK, ExclusiveClaims, Exclusive

LEMMA Closes ==
    ASSUME SessionRowsOK, NEW s \in Session, Close(s)
    PROVE  SessionRowsOK' /\ sessions'[s] = ClosedRow
<1>1. ClosedRow \in SessionRow /\ SessionDue(ClosedRow, s) = {}
  BY DEF ClosedRow, SessionRow, SessionState, SessionDue
<1>2. claims' = Released({s}) /\ sessions' = [sessions EXCEPT ![s] = ClosedRow]
  BY DEF Close
<1>3. claims' \subseteq Claim /\ Exclusive(claims')
  BY <1>2, ReleasedSubset, SubsetKeeps DEF SessionRowsOK
<1>4. Rows(claims', s) = {} /\ \A t \in Session \ {s} : Rows(claims', t) = Held(t)
  BY <1>2, ReleasedSubset
<1>5. SessionRowsOK'
  BY <1>1, <1>2, <1>3, <1>4, OneSessionRow
<1> QED
  BY <1>2, <1>5 DEF SessionRowsOK

LEMMA MarksUnknown ==
    ASSUME SessionRowsOK, NEW s \in Session, MarkUnknown(s)
    PROVE  SessionRowsOK'
<1>1. CASE ~Active(s)
  BY <1>1, SameStates DEF MarkUnknown, SessionRowsOK
<1>2. CASE Active(s)
  <2> DEFINE row == [sessions[s] EXCEPT !.state = "attention_required"]
  <2>1. row \in SessionRow /\ row.state = "attention_required"
    BY DEF SessionRowsOK, SessionRow, SessionState
  <2>2. sessions' = [sessions EXCEPT ![s] = row] /\ claims' = Quarantined({s})
    BY <1>2 DEF MarkUnknown
  <2>3. Held(s) = Whole(s, "active")
    BY <1>2 DEF SessionRowsOK, SessionClaimsMatchState, HoldsExactly, Whole
  <2>4. claims' \subseteq Claim /\ Exclusive(claims')
    BY <2>2, QuarantinedKeeps DEF SessionRowsOK
  <2>5. Rows(claims', s) = Whole(s, "quarantined")
        /\ \A t \in Session \ {s} : Rows(claims', t) = Held(t)
    BY <2>2, <2>3, QuarantinedOwn, QuarantinedOther DEF SessionRowsOK
  <2>6. Rows(claims', s) = SessionDue(row, s)
    BY <2>1, <2>5 DEF SessionDue
  <2> HIDE DEF row
  <2> QED
    BY <2>1, <2>2, <2>4, <2>5, <2>6, OneSessionRow
<1> QED
  BY <1>1, <1>2

LEMMA BeginsOpen ==
    ASSUME SessionRowsOK, NEW s \in Session, BeginOpen(s)
    PROVE  SessionRowsOK'
<1> DEFINE row == [state |-> "active", op |-> FALSE]
<1>1. row \in SessionRow /\ SessionDue(row, s) = Whole(s, "active")
  BY DEF SessionRow, SessionState, SessionDue
<1>2. s \in Owner /\ Held(s) = {}
  BY SessionAssumption DEF BeginOpen, SessionRowsOK, SessionClaimsMatchState, Active
<1>3. claims' = Claimed(s) /\ sessions' = [sessions EXCEPT ![s] = row] /\ Free(s)
  BY DEF BeginOpen
<1>4. claims' \subseteq Claim /\ Exclusive(claims')
  BY <1>2, <1>3, ClaimedType, ClaimedExclusive DEF SessionRowsOK
<1>5. Rows(claims', s) = Whole(s, "active")
      /\ \A t \in Session \ {s} : Rows(claims', t) = Held(t)
  BY <1>2, <1>3, ClaimedOwn, ClaimedOther
<1> HIDE DEF row
<1> QED
  BY <1>1, <1>3, <1>4, <1>5, OneSessionRow

-----------------------------------------------------------------------------
(* Every step of a session keeps its rows and claims together. *)

\* The handlers that write the row of a session and leave its state alone.
LEMMA OperationRows ==
    ASSUME SessionRowsOK, NEW s \in Session, UNCHANGED claims,
           \E b \in BOOLEAN : sessions' = [sessions EXCEPT ![s].op = b]
    PROVE  SessionRowsOK'
<1>1. PICK b \in BOOLEAN : sessions' = [sessions EXCEPT ![s] = [sessions[s] EXCEPT !.op = b]]
  OBVIOUS
<1>2. /\ [sessions[s] EXCEPT !.op = b] \in SessionRow
      /\ [sessions[s] EXCEPT !.op = b].state = sessions[s].state
  BY DEF SessionRowsOK, SessionRow
<1>3. sessions' \in [Session -> SessionRow]
      /\ \A t \in Session : sessions'[t].state = sessions[t].state
  BY <1>1, <1>2 DEF SessionRowsOK
<1> QED
  BY <1>3, SameStates

LEMMA UnwrittenRows ==
    ASSUME SessionRowsOK, UNCHANGED <<claims, sessions>>
    PROVE  SessionRowsOK'
BY SameStates DEF SessionRowsOK

LEMMA OpenRows ==
    ASSUME SessionRowsOK, NEW s \in Session, OpenStep(s)
    PROVE  SessionRowsOK'
<1>1. CASE BeginOpen(s)
  BY <1>1, BeginsOpen
<1>2. CASE AbortOpen(s)
  BY <1>2, Closes DEF AbortOpen
<1>3. CASE UNCHANGED <<claims, sessions>>
  BY <1>3, UnwrittenRows
<1> QED
  BY <1>1, <1>2, <1>3 DEF OpenStep, Connect, ConnectFails, FinishOpen

LEMMA OwnerRows ==
    ASSUME SessionRowsOK, NEW s \in Session, OwnerStep(s)
    PROVE  SessionRowsOK'
<1>1. CASE UNCHANGED <<claims, sessions>>
  BY <1>1, UnwrittenRows
<1>2. ASSUME NEW b \in BOOLEAN, UNCHANGED claims,
             sessions' = [sessions EXCEPT ![s].op = b]
      PROVE  SessionRowsOK'
  BY <1>2, OperationRows
<1> QED
  BY <1>1, <1>2 DEF OwnerStep, BeginRenew, Renew, StartOperation, FinishOperation,
     LoseOperation, FailObservation, EndSession

LEMMA EndRows ==
    ASSUME SessionRowsOK, NEW s \in Session,
           CleanupStep(s) \/ ExpiryStep(s) \/ ResolveSession(s) \/ LapseSession(s)
    PROVE  SessionRowsOK'
<1>1. CASE Close(s)
  BY <1>1, Closes
<1>2. CASE MarkUnknown(s)
  BY <1>2, MarksUnknown
<1>3. CASE UNCHANGED <<claims, sessions>>
  BY <1>3, UnwrittenRows
<1> QED
  BY <1>1, <1>2, <1>3 DEF CleanupStep, MarkLost, CloseUnobservable, CloseEnded,
     ExpiryStep, ExpireWithoutContext, BeginExpire, Expire, ResolveSession, LapseSession

LEMMA SessionStepRows ==
    ASSUME SessionRowsOK, SessionStep
    PROVE  SessionRowsOK'
BY OpenRows, OwnerRows, EndRows, UnwrittenRows DEF SessionStep, ReadExpiredSessions

-----------------------------------------------------------------------------
(* The volatile state: typing, and what half-done handlers have left. *)

VolatileTypeOK ==
    /\ terms \in [Session -> Term]
    /\ opening \subseteq Session
    /\ contexts \subseteq Session
    /\ hardware \subseteq Session
    /\ busy \in [Session -> Busy]
    /\ leaseLock \in [Session -> {"free", "renewing", "expiring"}]
    /\ listed \subseteq Session
    /\ unknown \subseteq Session

LEMMA TermType == FreshTerm \in Term
BY DEF FreshTerm, Term

LEMMA SessionStepVolatile ==
    ASSUME VolatileTypeOK, SessionStep
    PROVE  VolatileTypeOK'
<1>1. ASSUME NEW s \in Session, OpenStep(s)
      PROVE  VolatileTypeOK'
  BY <1>1, TermType DEF VolatileTypeOK, OpenStep, BeginOpen, Connect, ConnectFails,
     AbortOpen, FinishOpen
<1>2. ASSUME NEW s \in Session, OwnerStep(s)
      PROVE  VolatileTypeOK'
  BY <1>2, TermType DEF VolatileTypeOK, OwnerStep, BeginRenew, Renew, StartOperation,
     FinishOperation, LoseOperation, FailObservation, EndSession, LetGo, Busy
<1>3. ASSUME NEW s \in Session, CleanupStep(s) \/ ExpiryStep(s) \/ ResolveSession(s)
      PROVE  VolatileTypeOK'
  BY <1>3 DEF VolatileTypeOK, CleanupStep, MarkLost, CloseUnobservable, CloseEnded,
     ExpiryStep, ExpireWithoutContext, BeginExpire, Expire, ResolveSession, LetGo, Busy
<1>4. ASSUME NEW s \in Session, LapseSession(s)
      PROVE  VolatileTypeOK'
  BY <1>4 DEF VolatileTypeOK, LapseSession, Term
<1>5. ASSUME ReadExpiredSessions
      PROVE  VolatileTypeOK'
  BY <1>5 DEF VolatileTypeOK, ReadExpiredSessions, Term
<1> QED
  BY <1>1, <1>2, <1>3, <1>4, <1>5 DEF SessionStep

\* What HandlersOK is proved from.
Before == VolatileTypeOK /\ sessions \in [Session -> SessionRow] /\ HandlersOK

\* A step of one session: what HandlersOK says of the others is not disturbed.
LEMMA OneHandler ==
    ASSUME Before, NEW s \in Session,
           \A t \in Session \ {s} :
              /\ sessions'[t] = sessions[t]
              /\ busy'[t] = busy[t]
              /\ leaseLock'[t] = leaseLock[t]
              /\ t \in opening' <=> t \in opening
              /\ t \in contexts' <=> t \in contexts
              /\ t \in hardware' => t \in hardware
              /\ t \in listed' <=> t \in listed,
           OneOpening', DevicesOK(s)', OpeningOK(s)', KnownOK(s)'
    PROVE  HandlersOK'
BY DEF Before, HandlersOK, DevicesOK, OpeningOK, KnownOK, Active

LEMMA OpenHandlers ==
    ASSUME Before, NEW s \in Session, OpenStep(s)
    PROVE  HandlersOK'
<1> USE DEF Before, VolatileTypeOK
<1>1. CASE BeginOpen(s)
  <2>1. OneOpening' /\ DevicesOK(s)' /\ OpeningOK(s)' /\ KnownOK(s)'
    BY <1>1 DEF HandlersOK, OneOpening, DevicesOK, OpeningOK, KnownOK, Active, BeginOpen
  <2> QED
    BY <1>1, <2>1, OneHandler DEF BeginOpen
<1>2. CASE Connect(s)
  <2>1. OneOpening' /\ DevicesOK(s)' /\ OpeningOK(s)' /\ KnownOK(s)'
    BY <1>2 DEF HandlersOK, OneOpening, DevicesOK, OpeningOK, KnownOK, Active, Connect
  <2> QED
    BY <1>2, <2>1, OneHandler DEF Connect
<1>3. CASE s \in opening /\ AbortOpen(s)
  <2>1. OneOpening' /\ DevicesOK(s)' /\ OpeningOK(s)' /\ KnownOK(s)'
    BY <1>3 DEF HandlersOK, OneOpening, DevicesOK, OpeningOK, KnownOK, Active, AbortOpen,
       Close, ClosedRow
  <2> QED
    BY <1>3, <2>1, OneHandler DEF AbortOpen, Close, HandlersOK, OneOpening
<1>4. CASE FinishOpen(s) /\ SessionLive(s) /\ ~AbortOpen(s)
  <2>1. OneOpening' /\ DevicesOK(s)' /\ OpeningOK(s)' /\ KnownOK(s)'
    BY <1>4 DEF HandlersOK, OneOpening, DevicesOK, OpeningOK, KnownOK, Active, FinishOpen
  <2> QED
    BY <1>4, <2>1, OneHandler DEF FinishOpen, HandlersOK, OneOpening
<1> QED
  BY <1>1, <1>2, <1>3, <1>4 DEF OpenStep, ConnectFails, FinishOpen

LEMMA OwnerHandlers ==
    ASSUME Before, NEW s \in Session, OwnerStep(s)
    PROVE  HandlersOK'
<1>1. OneOpening' /\ DevicesOK(s)' /\ OpeningOK(s)' /\ KnownOK(s)'
  <2> USE DEF Before, VolatileTypeOK, HandlersOK, OneOpening, DevicesOK, OpeningOK, KnownOK,
              Active, SessionRow
  <2>1. CASE BeginRenew(s) \/ Renew(s)
    BY <2>1 DEF BeginRenew, Renew
  <2>2. CASE StartOperation(s) \/ FinishOperation(s)
    BY <2>2 DEF StartOperation, FinishOperation, Entered, SessionLive
  <2>3. CASE LoseOperation(s)
    BY <2>3 DEF LoseOperation, LetGo, SessionLive
  <2>4. CASE FailObservation(s) \/ EndSession(s)
    BY <2>4 DEF FailObservation, EndSession, LetGo, Entered, SessionLive
  <2> QED
    BY <2>1, <2>2, <2>3, <2>4 DEF OwnerStep
<1> QED
  BY <1>1, OneHandler DEF Before, VolatileTypeOK, OwnerStep, BeginRenew, Renew,
     StartOperation, FinishOperation, LoseOperation, FailObservation, EndSession, LetGo

LEMMA EndHandlers ==
    ASSUME Before, NEW s \in Session,
           CleanupStep(s) \/ ExpiryStep(s) \/ ResolveSession(s) \/ LapseSession(s)
    PROVE  HandlersOK'
<1>1. OneOpening' /\ DevicesOK(s)' /\ OpeningOK(s)' /\ KnownOK(s)'
  <2> USE DEF Before, VolatileTypeOK, HandlersOK, OneOpening, DevicesOK, OpeningOK, KnownOK,
              Active, SessionRow
  <2>1. CASE CleanupStep(s)
    BY <2>1 DEF CleanupStep, MarkLost, CloseUnobservable, CloseEnded, Close, MarkUnknown,
       ClosedRow
  <2>2. CASE ExpireWithoutContext(s)
    BY <2>2 DEF ExpireWithoutContext, MarkUnknown
  <2>3. CASE BeginExpire(s)
    BY <2>3 DEF BeginExpire
  <2>4. CASE Expire(s)
    BY <2>4 DEF Expire, LetGo, Close, MarkUnknown, ClosedRow
  <2>5. CASE ResolveSession(s)
    BY <2>5 DEF ResolveSession, LetGo, Close, ClosedRow
  <2>6. CASE LapseSession(s)
    BY <2>6 DEF LapseSession
  <2> QED
    BY <2>1, <2>2, <2>3, <2>4, <2>5, <2>6 DEF ExpiryStep
<1>2. \A t \in Session \ {s} :
         /\ sessions'[t] = sessions[t]
         /\ busy'[t] = busy[t]
         /\ leaseLock'[t] = leaseLock[t]
         /\ t \in opening' <=> t \in opening
         /\ t \in contexts' <=> t \in contexts
         /\ t \in hardware' => t \in hardware
         /\ t \in listed' <=> t \in listed
  BY DEF Before, VolatileTypeOK, CleanupStep, MarkLost, CloseUnobservable, CloseEnded,
     ExpiryStep, ExpireWithoutContext, BeginExpire, Expire, ResolveSession, LapseSession,
     LetGo, Close, MarkUnknown
<1> QED
  BY <1>1, <1>2, OneHandler

LEMMA ListHandlers ==
    ASSUME Before, ReadExpiredSessions
    PROVE  HandlersOK'
BY DEF Before, VolatileTypeOK, HandlersOK, OneOpening, DevicesOK, OpeningOK, KnownOK,
   Active, ReadExpiredSessions

LEMMA SessionStepHandlers ==
    ASSUME Before, SessionStep
    PROVE  HandlersOK'
BY OpenHandlers, OwnerHandlers, EndHandlers, ListHandlers DEF SessionStep

-----------------------------------------------------------------------------
(* The restart of the daemon. *)

LostSessions == {s \in Session : Active(s) /\ Unfinished(s)}
IdleSessions == {s \in Session : Active(s) /\ ~Unfinished(s)}

\* A row after the reconciliation.
Lose(c) == [c EXCEPT !.status = "quarantined"]
Reconcile(c) == IF c.owner \in LostSessions THEN Lose(c) ELSE c

LEMMA ReconciledIs ==
    ASSUME NEW table
    PROVE  Reconciled(table) =
              {Reconcile(c) : c \in {d \in table : d.owner \notin IdleSessions}}
BY DEF Reconciled, Reconcile, Lose, LostSessions, IdleSessions

LEMMA ReconcileRow ==
    ASSUME NEW c \in Claim
    PROVE  /\ Reconcile(c) \in Claim
           /\ Reconcile(c).resource = c.resource
           /\ Reconcile(c).owner = c.owner
BY DEF Reconcile, Lose, Claim, ClaimStatus

\* The reconciliation keeps types and exclusiveness, quarantines what lost
\* sessions hold, deletes what idle ones hold, and touches nobody else's rows.
LEMMA ReconciledKeeps ==
    ASSUME NEW table, table \subseteq Claim
    PROVE  /\ Reconciled(table) \subseteq Claim
           /\ Exclusive(table) => Exclusive(Reconciled(table))
           /\ \A o : o \notin LostSessions \cup IdleSessions =>
                        Rows(Reconciled(table), o) = Rows(table, o)
           /\ \A s \in IdleSessions : Rows(Reconciled(table), s) = {}
           /\ \A s \in LostSessions : Rows(table, s) = Whole(s, "active") =>
                        Rows(Reconciled(table), s) = Whole(s, "quarantined")
<1> DEFINE kept == {d \in table : d.owner \notin IdleSessions}
<1>1. Reconciled(table) = {Reconcile(c) : c \in kept}
  BY ReconciledIs
<1>2. \A c \in kept : /\ c \in table /\ c \in Claim /\ Reconcile(c) \in Claim
                      /\ Reconcile(c).resource = c.resource
                      /\ Reconcile(c).owner = c.owner
  BY ReconcileRow
<1>3. Reconciled(table) \subseteq Claim
  BY <1>1, <1>2
<1>4. ASSUME Exclusive(table), NEW c \in Reconciled(table), NEW d \in Reconciled(table),
             c.resource = d.resource
      PROVE  c = d
  <2>1. PICK c0 \in kept : c = Reconcile(c0)
    BY <1>1
  <2>2. PICK d0 \in kept : d = Reconcile(d0)
    BY <1>1
  <2>3. c0.resource = d0.resource /\ c0 \in table /\ d0 \in table
    BY <1>2, <1>4, <2>1, <2>2
  <2> HIDE DEF kept
  <2>4. c0 = d0
    BY <1>4, <2>3 DEF Exclusive
  <2> QED
    BY <2>1, <2>2, <2>4
<1>5. ASSUME NEW o, o \notin LostSessions \cup IdleSessions
      PROVE  Rows(Reconciled(table), o) = Rows(table, o)
  <2>1. \A c \in kept : c.owner = o => Reconcile(c) = c
    BY <1>5 DEF Reconcile
  <2>2. \A c \in table : c.owner = o => c \in kept
    BY <1>5
  <2> HIDE DEF kept
  <2> QED
    BY <1>1, <1>2, <2>1, <2>2 DEF Rows
<1>6. ASSUME NEW s \in IdleSessions
      PROVE  Rows(Reconciled(table), s) = {}
  <2>1. \A c \in kept : c.owner # s
    OBVIOUS
  <2> HIDE DEF kept
  <2> QED
    BY <1>1, <1>2, <2>1 DEF Rows
<1>7. ASSUME NEW s \in LostSessions, Rows(table, s) = Whole(s, "active")
      PROVE  Rows(Reconciled(table), s) = Whole(s, "quarantined")
  <2> DEFINE a(x) == [resource |-> x, owner |-> s, status |-> "active"]
             b(x) == [resource |-> x, owner |-> s, status |-> "quarantined"]
  <2>1. s \notin IdleSessions
    BY DEF LostSessions, IdleSessions
  <2>2. \A c \in kept : c.owner = s <=> c \in Whole(s, "active")
    BY <1>7 DEF Rows
  <2>3. \A c \in Whole(s, "active") : c \in kept
    BY <1>7, <2>1 DEF Rows
  <2>4. ASSUME NEW x \in Needs[s] PROVE Reconcile(a(x)) = b(x)
    BY DEF Reconcile, Lose
  <2>5. Whole(s, "active") = {a(x) : x \in Needs[s]}
        /\ Whole(s, "quarantined") = {b(x) : x \in Needs[s]}
    BY DEF Whole
  <2> HIDE DEF kept, a, b
  <2>6. Rows(Reconciled(table), s) = {Reconcile(c) : c \in Whole(s, "active")}
    BY <1>1, <1>2, <2>2, <2>3 DEF Rows
  <2> QED
    BY <2>4, <2>5, <2>6
<1> QED
  BY <1>3, <1>4, <1>5, <1>6, <1>7 DEF Exclusive

\* The start of a daemon re-establishes the invariant, whatever the table that
\* is reconciled, if it has the rows of the sessions.
LEMMA RestartKeepsSessions ==
    ASSUME SessionInv, ReconcileSessions, RestartVolatile, UNCHANGED <<terms, unknown>>,
           NEW table, table \subseteq Claim, Exclusive(table),
           \A s \in Session : Rows(table, s) = Held(s),
           claims' = Reconciled(table)
    PROVE  SessionInv'
<1>1. \A s \in Session : Rows(table, s) = SessionDue(sessions[s], s)
  BY SessionMatch DEF SessionInv, SessionRowsMatch, Rows, Held
<1>2. \A s \in Session : sessions'[s] =
         IF s \in LostSessions THEN [sessions[s] EXCEPT !.state = "attention_required"]
         ELSE IF s \in IdleSessions THEN ClosedRow ELSE sessions[s]
  BY DEF ReconcileSessions, LostSessions, IdleSessions
<1>3. \A s \in Session :
         /\ [sessions[s] EXCEPT !.state = "attention_required"] \in SessionRow
         /\ [sessions[s] EXCEPT !.state = "attention_required"].state = "attention_required"
         /\ ClosedRow \in SessionRow /\ ClosedRow.state = "closed"
  BY DEF SessionInv, SessionTypeOK, SessionRow, SessionState, ClosedRow
<1>4. sessions' \in [Session -> SessionRow]
  BY <1>2, <1>3 DEF ReconcileSessions, SessionInv, SessionTypeOK
<1>5. ASSUME NEW s \in Session
      PROVE  Rows(claims', s) = SessionDue(sessions'[s], s)
  <2>1. CASE s \in LostSessions
    <3>1. Rows(table, s) = Whole(s, "active")
      BY <1>1, <2>1 DEF LostSessions, Active, SessionDue
    <3> QED
      BY <1>2, <1>3, <2>1, <3>1, ReconciledKeeps DEF SessionDue
  <2>2. CASE s \in IdleSessions
    <3>1. s \notin LostSessions
      BY <2>2 DEF LostSessions, IdleSessions
    <3> QED
      BY <1>2, <1>3, <2>2, <3>1, ReconciledKeeps DEF SessionDue
  <2>3. CASE s \notin LostSessions \cup IdleSessions
    BY <1>1, <1>2, <2>3, ReconciledKeeps
  <2> QED
    BY <2>1, <2>2, <2>3
<1>6. SessionRowsOK'
  BY <1>4, <1>5, ReconciledKeeps, SessionRowsOKNext DEF SessionRowsMatch
<1>7. HandlersOK'
  BY DEF RestartVolatile, HandlersOK, OneOpening, DevicesOK, OpeningOK, KnownOK
<1>8. VolatileTypeOK'
  BY DEF RestartVolatile, SessionInv, SessionTypeOK, VolatileTypeOK, Busy
<1> QED
  BY <1>6, <1>7, <1>8 DEF SessionInv, SessionRowsOK, SessionTypeOK, VolatileTypeOK

-----------------------------------------------------------------------------
(* The inductive invariant. *)

LEMMA SessionStepKeeps ==
    ASSUME SessionInv, SessionStep
    PROVE  SessionInv'
<1>1. SessionRowsOK /\ VolatileTypeOK /\ Before
  BY DEF SessionInv, SessionTypeOK, SessionRowsOK, VolatileTypeOK, Before
<1>2. SessionRowsOK' /\ VolatileTypeOK' /\ HandlersOK'
  BY <1>1, SessionStepRows, SessionStepVolatile, SessionStepHandlers
<1> QED
  BY <1>2 DEF SessionInv, SessionTypeOK, SessionRowsOK, VolatileTypeOK

\* A step of somebody else, who leaves the rows of the sessions alone.
LEMMA ForeignToSessions ==
    ASSUME SessionInv, UNCHANGED sessionOnlyVars, claims' \subseteq Claim,
           Exclusive(claims'), \A s \in Session : Rows(claims', s) = Held(s)
    PROVE  SessionInv'
<1>1. SessionRowsMatch(claims', sessions')
  BY SessionMatch DEF SessionInv, sessionOnlyVars, SessionRowsMatch, Rows, Held
<1>2. SessionRowsOK'
  BY <1>1, SessionRowsOKNext DEF SessionInv, SessionTypeOK, sessionOnlyVars
<1>3. HandlersOK'
  BY DEF SessionInv, HandlersOK, OneOpening, DevicesOK, OpeningOK, KnownOK, Active,
     sessionOnlyVars
<1> QED
  BY <1>2, <1>3 DEF SessionInv, SessionTypeOK, SessionRowsOK, sessionOnlyVars

LEMMA SessionInitInv ==
    ASSUME SessionInit
    PROVE  SessionInv
<1>1. [state |-> "absent", op |-> FALSE] \in SessionRow
  BY DEF SessionRow, SessionState
<1>2. SessionTypeOK
  BY <1>1, TermType DEF SessionInit, VolatileInit, SessionTypeOK, ClaimsTypeOK, Busy
<1>3. SessionClaimsMatchState /\ ExclusiveClaims
  BY DEF SessionInit, SessionClaimsMatchState, ExclusiveClaims, Held, Active
<1>4. HandlersOK
  BY DEF SessionInit, VolatileInit, HandlersOK, OneOpening, DevicesOK, OpeningOK, KnownOK
<1> QED
  BY <1>2, <1>3, <1>4 DEF SessionInv

\* Rows, claims, devices and half-done handlers of every session agree
\* (control_plane.py and runtime.py).
THEOREM SessionInvariant == SessionSpec => []SessionInv
<1>1. SessionInv /\ [SessionNext]_sessionVars => SessionInv'
  <2> SUFFICES ASSUME SessionInv, [SessionNext]_sessionVars
               PROVE  SessionInv'
    OBVIOUS
  <2>1. CASE SessionStep
    BY <2>1, SessionStepKeeps
  <2>2. CASE RestartSessions
    <3>1. claims \subseteq Claim /\ Exclusive(claims)
          /\ \A s \in Session : Rows(claims, s) = Held(s)
      BY DEF SessionInv, SessionTypeOK, ClaimsTypeOK, ExclusiveClaims, Exclusive, Rows, Held
    <3> QED
      BY <2>2, <3>1, RestartKeepsSessions DEF RestartSessions
  <2>3. CASE UNCHANGED sessionVars
    <3>1. claims' \subseteq Claim /\ Exclusive(claims')
          /\ \A s \in Session : Rows(claims', s) = Held(s)
      BY <2>3 DEF SessionInv, SessionTypeOK, ClaimsTypeOK, ExclusiveClaims, Exclusive,
         Rows, Held, sessionVars
    <3> QED
      BY <2>3, <3>1, ForeignToSessions DEF sessionVars
  <2> QED
    BY <2>1, <2>2, <2>3 DEF SessionNext
<1> QED
  BY <1>1, SessionInitInv, PTL DEF SessionSpec

\* The claims of every session follow its row, for any number of sessions and
\* instruments and through any number of restarts (control_plane.py).
THEOREM SessionClaimsFollowState == SessionSpec => []SessionClaimsMatchState
BY SessionInvariant, PTL DEF SessionInv

\* Whichever way a session ends, its devices are let go before its claims
\* (runtime.py).
THEOREM DevicesUnderClaims == SessionSpec => []HardwareIsClaimed
<1>1. SessionInv => HardwareIsClaimed
  BY DEF SessionInv, SessionTypeOK, HandlersOK, DevicesOK, SessionClaimsMatchState,
     HardwareIsClaimed
<1> QED
  BY <1>1, SessionInvariant, PTL

-----------------------------------------------------------------------------
(* How the row of a session may change. *)

RowStep(s) ==
    /\ Active(s) /\ sessions[s].op => sessions'[s].state # "closed"
    /\ sessions[s].state = "closed" => sessions'[s] = sessions[s]
    /\ sessions[s].state = "attention_required" =>
          sessions'[s].state \in {"attention_required", "closed"}

LEMMA OpenRowStep ==
    ASSUME SessionInv, NEW s \in Session, OpenStep(s)
    PROVE  RowStep(s) /\ \A t \in Session \ {s} : sessions'[t] = sessions[t]
BY DEF SessionInv, SessionTypeOK, HandlersOK, OpeningOK, RowStep, Active, OpenStep,
   BeginOpen, Connect, ConnectFails, AbortOpen, FinishOpen, Close, ClosedRow

LEMMA OwnerRowStep ==
    ASSUME SessionInv, NEW s \in Session, OwnerStep(s)
    PROVE  RowStep(s) /\ \A t \in Session \ {s} : sessions'[t] = sessions[t]
<1>1. sessions \in [Session -> SessionRow]
  BY DEF SessionInv, SessionTypeOK
<1>2. CASE UNCHANGED sessions
  BY <1>2 DEF RowStep, Active
<1>3. ASSUME SessionLive(s), NEW b \in BOOLEAN,
             sessions' = [sessions EXCEPT ![s].op = b]
      PROVE  RowStep(s) /\ \A t \in Session \ {s} : sessions'[t] = sessions[t]
  BY <1>1, <1>3 DEF SessionLive, RowStep, Active, SessionRow
<1> QED
  BY <1>2, <1>3 DEF OwnerStep, BeginRenew, Renew, StartOperation, FinishOperation,
     LoseOperation, FailObservation, EndSession, Entered

LEMMA EndRowStep ==
    ASSUME SessionInv, NEW s \in Session,
           CleanupStep(s) \/ ExpiryStep(s) \/ ResolveSession(s) \/ LapseSession(s)
    PROVE  RowStep(s) /\ \A t \in Session \ {s} : sessions'[t] = sessions[t]
<1>1. sessions \in [Session -> SessionRow]
  BY DEF SessionInv, SessionTypeOK
<1>2. CASE UNCHANGED sessions
  BY <1>2 DEF RowStep, Active
<1>3. CASE MarkUnknown(s)
  BY <1>1, <1>3 DEF MarkUnknown, RowStep, Active, SessionRow
<1>4. CASE Close(s) /\ Active(s) /\ ~sessions[s].op
  BY <1>1, <1>4 DEF Close, ClosedRow, RowStep, Active
<1>5. CASE Close(s) /\ sessions[s].state = "attention_required"
  BY <1>1, <1>5 DEF Close, ClosedRow, RowStep, Active
<1> QED
  BY <1>2, <1>3, <1>4, <1>5 DEF CleanupStep, MarkLost, CloseUnobservable, CloseEnded,
     ExpiryStep, ExpireWithoutContext, BeginExpire, Expire, StillOverdue, Unfinished,
     ResolveSession, LapseSession

LEMMA SessionStepRow ==
    ASSUME SessionInv, SessionStep, NEW t \in Session
    PROVE  RowStep(t)
<1>1. ASSUME UNCHANGED sessions \/ sessions'[t] = sessions[t]
      PROVE  RowStep(t)
  BY <1>1 DEF RowStep, Active
<1> QED
  BY <1>1, OpenRowStep, OwnerRowStep, EndRowStep DEF SessionStep, ReadExpiredSessions

LEMMA RestartRow ==
    ASSUME SessionInv, ReconcileSessions, NEW t \in Session
    PROVE  RowStep(t)
<1>1. sessions[t] \in SessionRow
  BY DEF SessionInv, SessionTypeOK
<1>2. sessions'[t] =
         IF Active(t) /\ Unfinished(t)
         THEN [sessions[t] EXCEPT !.state = "attention_required"]
         ELSE IF Active(t) /\ ~Unfinished(t) THEN ClosedRow ELSE sessions[t]
  BY DEF ReconcileSessions
<1> QED
  BY <1>1, <1>2 DEF RowStep, Active, Unfinished, SessionRow

\* A quarantined row of a session goes with the attention of its session.
LEMMA QuarantineGoesWithAttention ==
    ASSUME SessionInv, SessionInv', NEW s \in Session, RowStep(s),
           NEW c \in Held(s) \ claims', c.status = "quarantined"
    PROVE  sessions[s].state = "attention_required" /\ sessions'[s].state = "closed"
<1>1. c \in claims /\ c.owner = s /\ Held(s) # {}
  BY DEF Held
<1>2. ~Active(s)
  BY DEF SessionInv, SessionClaimsMatchState, HoldsExactly
<1>3. sessions[s].state = "attention_required"
  BY <1>1, <1>2 DEF SessionInv, SessionClaimsMatchState
<1>4. Held(s) = Whole(s, "quarantined")
  BY <1>2, <1>3 DEF SessionInv, SessionClaimsMatchState, HoldsExactly, Whole
<1>5. Rows(claims', s) = SessionDue(sessions'[s], s)
  BY SessionMatchNext DEF SessionInv, SessionRowsMatch
<1>6. sessions'[s].state # "attention_required"
  <2>1. c \notin Rows(claims', s)
    BY DEF Rows
  <2> QED
    BY <1>4, <1>5, <2>1 DEF SessionDue
<1> QED
  BY <1>3, <1>6 DEF RowStep

LEMMA SessionNextRow ==
    ASSUME SessionInv, [SessionNext]_sessionVars, NEW s \in Session
    PROVE  RowStep(s)
<1>1. CASE UNCHANGED sessionVars
  BY <1>1 DEF sessionVars, sessionOnlyVars, RowStep, Active
<1> QED
  BY <1>1, SessionStepRow, RestartRow DEF SessionNext, RestartSessions

\* An operation that was started and not finished is never swept under the rug,
\* whichever handler ends its session (control_plane.py, runtime.py).
THEOREM UnfinishedGoesThroughAttention == SessionSpec => UnfinishedNeedsAttention
<1>1. SessionInv /\ [SessionNext]_sessionVars =>
         [\A s \in Session :
             Active(s) /\ sessions[s].op => sessions'[s].state # "closed"]_sessionVars
  BY SessionNextRow DEF RowStep
<1> QED
  BY <1>1, SessionInvariant, PTL DEF SessionSpec, UnfinishedNeedsAttention

\* A closed session stays closed, however late its handlers are (runtime.py).
THEOREM ClosedSessionsStay == SessionSpec => ClosedSessionForever
<1>1. SessionInv /\ [SessionNext]_sessionVars =>
         [\A s \in Session :
             sessions[s].state = "closed" => sessions'[s] = sessions[s]]_sessionVars
  BY SessionNextRow DEF RowStep
<1> QED
  BY <1>1, SessionInvariant, PTL DEF SessionSpec, ClosedSessionForever
-----------------------------------------------------------------------------
(* Runs and sessions together. *)

PlaneInv == RunInv /\ SessionInv /\ phase \in {"runs", "sessions"}

LEMMA Disjoint == \A r \in Run : r \in Owner /\ r \notin Session
BY OwnersAssumption

LEMMA SessionIsOwner == \A s \in Session : s \in Owner /\ s \notin Run
BY OwnersAssumption

-----------------------------------------------------------------------------
(***************************************************************************)
(* What an owner holds, read off its row alone, and the four things a step *)
(* of either side does to it and to the claims.                            *)
(***************************************************************************)
RunHeld(row) ==
    IF row.state = "leased" THEN "active"
    ELSE IF row.state = "attention_required"
            /\ row.reason # "manual_line_confirmation_expired"
         THEN "quarantined" ELSE "none"

SessionHeld(row) ==
    IF row.state = "active" THEN "active"
    ELSE IF row.state = "attention_required" THEN "quarantined" ELSE "none"

RunsQuiet == UNCHANGED claims /\ \A r \in Run : RunHeld(runs'[r]) = RunHeld(runs[r])

OthersSame(r) == \A p \in Run \ {r} : RunHeld(runs'[p]) = RunHeld(runs[p])

RunAcquires(r) ==
    /\ Free(r) /\ claims' = Claimed(r)
    /\ RunHeld(runs[r]) = "none" /\ RunHeld(runs'[r]) = "active"
    /\ OthersSame(r)

RunGivesUp(r) ==
    /\ claims' = Released({r})
    /\ RunHeld(runs'[r]) = "none"
    /\ OthersSame(r)

RunsLost(S) ==
    /\ claims' = AfterLoss(S)
    /\ \A r \in S : RunHeld(runs[r]) = "active" /\ RunHeld(runs'[r]) = "quarantined"
    /\ \A r \in Run \ S : RunHeld(runs'[r]) = RunHeld(runs[r])

RunEffect ==
    \/ RunsQuiet
    \/ \E r \in Run : RunAcquires(r) \/ RunGivesUp(r)
    \/ \E S \in SUBSET Run : RunsLost(S)

LEMMA SameRunRows ==
    ASSUME UNCHANGED claims,
           \A r \in Run : /\ runs'[r].state = runs[r].state
                          /\ runs'[r].reason = runs[r].reason
    PROVE  RunEffect
BY DEF RunEffect, RunsQuiet, RunHeld

\* Every run the code loses was leased.
LEMMA LossHeld ==
    ASSUME RunInv, NEW S, NEW why \in Reason, LoseExecutors(S, why),
           why # "manual_line_confirmation_expired",
           \A r \in S : r \in Run /\ leases[r] # NoLease
    PROVE  /\ \A r \in S : RunHeld(runs[r]) = "active" /\ RunHeld(runs'[r]) = "quarantined"
           /\ \A r \in Run \ S : RunHeld(runs'[r]) = RunHeld(runs[r])
<1>1. Lost(S) = S
  BY DEF RunInv, LeasesMatch, Lost
<1>2. \A r \in S : runs[r].state = "leased"
  BY <1>1 DEF Lost
<1>3. \A r \in S : /\ runs'[r].state = "attention_required"
                   /\ runs'[r].reason = why
  BY <1>1, WithStateFields DEF RunInv, RunTypeOK, LoseExecutors
<1>4. \A r \in Run \ S : runs'[r] = runs[r]
  BY <1>1 DEF LoseExecutors
<1> QED
  BY <1>2, <1>3, <1>4 DEF RunHeld

LEMMA LossEffect ==
    ASSUME RunInv, NEW S, NEW why \in Reason, LoseExecutors(S, why),
           claims' = AfterLoss(S), why # "manual_line_confirmation_expired",
           \A r \in S : r \in Run /\ leases[r] # NoLease
    PROVE  RunsLost(S) /\ S \in SUBSET Run
BY LossHeld DEF RunsLost

LEMMA ExecutorEffect ==
    ASSUME RunInv, NEW r \in Run, ExecutorStep(r)
    PROVE  RunEffect
<1>1. RunTypeOK /\ runs \in [Run -> RunRow]
  BY DEF RunInv, RunTypeOK
<1>2. ASSUME NEW e \in Executor, StartExecution(r, e)
      PROVE  RunAcquires(r)
  <2>1. runs'[r].state = "leased" /\ \A p \in Run \ {r} : runs'[p] = runs[p]
    BY <1>1, <1>2, WithStateFields DEF StartExecution
  <2> QED
    BY <1>2, <2>1 DEF RunAcquires, RunHeld, OthersSame, StartExecution, Startable
<1>3. CASE RejectBusy(r)
  <2>1. [result |-> "failed", certainty |-> "known", by |-> 0] \in Outcome
    BY DEF Outcome, Certainty
  <2>2. runs'[r].state = "closed" /\ \A p \in Run \ {r} : runs'[p] = runs[p]
    BY <1>1, <1>3, <2>1, ClosedWithType DEF RejectBusy
  <2> QED
    BY <1>3, <2>2 DEF RunEffect, RunsQuiet, RunHeld, RejectBusy, Startable
<1>4. CASE RequireReconfirmation(r)
  <2>1. /\ runs'[r].reason = "manual_line_confirmation_expired"
        /\ runs'[r].state = "attention_required"
        /\ \A p \in Run \ {r} : runs'[p] = runs[p]
    BY <1>1, <1>4, WithStateFields DEF RequireReconfirmation
  <2> QED
    BY <1>4, <2>1 DEF RunEffect, RunsQuiet, RunHeld, RequireReconfirmation, Startable
<1>5. ASSUME NEW k \in 1..Len(segments[r]), NEW o \in Reported, CommitTerminal(r, k, o)
      PROVE  RunGivesUp(r)
  <2> DEFINE final == HonorCancellation(r, o)
             outcome == [result |-> final[1], certainty |-> final[2], by |-> k]
  <2>1. outcome \in Outcome
    <3>1. k \in Nat
      BY <1>1 DEF RunTypeOK
    <3> HIDE DEF final
    <3> QED
      BY <3>1, HonorCancellationType DEF Outcome, Certainty, final
  <2>2. runs' = [runs EXCEPT ![r] = ClosedWith(r, outcome)]
    BY <1>5 DEF CommitTerminal
  <2>3. runs'[r].state = "closed" /\ \A p \in Run \ {r} : runs'[p] = runs[p]
    BY <1>1, <2>1, <2>2, ClosedWithType
  <2> QED
    BY <1>5, <2>3 DEF RunGivesUp, RunHeld, OthersSame, CommitTerminal
<1>6. ASSUME NEW k, MarkExecutorUnknown(r, k)
      PROVE  RunEffect
  <2>1. leases[r] # NoLease
    BY <1>6 DEF MarkExecutorUnknown, NoLease, Granted
  <2>2. LoseExecutors({r}, "executor_unknown") /\ claims' = AfterLoss({r})
        /\ "executor_unknown" \in Reason
    BY <1>6 DEF MarkExecutorUnknown, ExpireOne, Reason
  <2> QED
    BY <2>1, <2>2, LossEffect DEF RunEffect
<1>7. CASE UNCHANGED <<claims, runs>>
  BY <1>7, SameRunRows
<1> QED
  BY <1>2, <1>3, <1>4, <1>5, <1>6, <1>7 DEF ExecutorStep, RunEffect, RetryStart,
     ReadHeartbeatClock, RenewLease, AdvanceCoverage

LEMMA OperatorEffect ==
    ASSUME RunInv, NEW r \in Run, OperatorStep(r)
    PROVE  RunEffect
<1>1. RunTypeOK /\ runs \in [Run -> RunRow]
  BY DEF RunInv, RunTypeOK
<1>2. CASE Admit(r)
  <2>1. runs'[r].state = "queued" /\ \A p \in Run \ {r} : runs'[p] = runs[p]
    BY <1>1, <1>2 DEF Admit, RunRow
  <2> QED
    BY <1>2, <2>1 DEF RunEffect, RunsQuiet, RunHeld, Admit
<1>3. CASE CancelQueued(r)
  <2>1. Cancelled \in Outcome
    BY DEF Cancelled, Outcome, Certainty
  <2>2. [ClosedWith(r, Cancelled) EXCEPT !.cancelRequested = TRUE].state = "closed"
    BY <1>1, <2>1, ClosedWithType DEF RunRow
  <2>3. runs'[r].state = "closed" /\ \A p \in Run \ {r} : runs'[p] = runs[p]
    BY <1>1, <1>3, <2>2 DEF CancelQueued
  <2> QED
    BY <1>3, <2>3 DEF RunEffect, RunGivesUp, RunHeld, OthersSame, CancelQueued
<1>4. CASE runs' = [runs EXCEPT ![r].cancelRequested = TRUE] /\ UNCHANGED claims
  <2>1. \A p \in Run : /\ runs'[p].state = runs[p].state
                       /\ runs'[p].reason = runs[p].reason
    BY <1>1, <1>4 DEF RunRow
  <2> QED
    BY <1>4, <2>1, SameRunRows
<1>5. CASE claims' = Released({r})
           /\ runs' = [runs EXCEPT ![r] = WithState(@, "queued", "none")]
  <2>1. runs'[r].state = "queued" /\ \A p \in Run \ {r} : runs'[p] = runs[p]
    BY <1>1, <1>5, WithStateFields
  <2> QED
    BY <1>5, <2>1 DEF RunEffect, RunGivesUp, RunHeld, OthersSame
<1>6. CASE CloseAttention(r)
  <2>1. [result |-> "failed", certainty |-> "indeterminate", by |-> 0] \in Outcome
    BY DEF Outcome, Certainty
  <2>2. runs'[r].state = "closed" /\ \A p \in Run \ {r} : runs'[p] = runs[p]
    BY <1>1, <1>6, <2>1, ClosedWithType DEF CloseAttention
  <2> QED
    BY <1>6, <2>2 DEF RunEffect, RunGivesUp, RunHeld, OthersSame, CloseAttention
<1> QED
  BY <1>2, <1>3, <1>4, <1>5, <1>6 DEF OperatorStep, CancelRun, CancelWaitingChild,
     ContinueRun, ReconfirmLine

LEMMA RunStepEffect ==
    ASSUME RunInv, RunStep
    PROVE  RunEffect
<1>1. ASSUME NEW r \in Run, LapseLease(r)
      PROVE  RunEffect
  BY <1>1, SameRunRows DEF LapseLease
<1>2. CASE ReadExpiredLeases
  BY <1>2, SameRunRows DEF ReadExpiredLeases
<1>3. CASE ExpireLeases
  <2> DEFINE S == {r \in sweep : StillExpired(r)}
  <2>1. \A r \in S : r \in Run /\ leases[r] # NoLease
    BY DEF RunInv, RunTypeOK, StillExpired, NoLease, Granted
  <2>2. LoseExecutors(S, "executor_lease_expired") /\ claims' = AfterLoss(S)
        /\ "executor_lease_expired" \in Reason
    BY <1>3 DEF ExpireLeases, ExpireOne, Reason
  <2> HIDE DEF S
  <2> QED
    BY <2>1, <2>2, LossEffect DEF RunEffect
<1> QED
  BY <1>1, <1>2, <1>3, ExecutorEffect, OperatorEffect DEF RunStep

-----------------------------------------------------------------------------
(* The same for a session. *)

SessionsQuiet ==
    /\ UNCHANGED claims
    /\ \A s \in Session : SessionHeld(sessions'[s]) = SessionHeld(sessions[s])

OtherSessionsSame(s) ==
    \A t \in Session \ {s} : SessionHeld(sessions'[t]) = SessionHeld(sessions[t])

SessionAcquires(s) ==
    /\ Free(s) /\ claims' = Claimed(s)
    /\ SessionHeld(sessions[s]) = "none" /\ SessionHeld(sessions'[s]) = "active"
    /\ OtherSessionsSame(s)

SessionGivesUp(s) ==
    /\ claims' = Released({s})
    /\ SessionHeld(sessions'[s]) = "none"
    /\ OtherSessionsSame(s)

SessionLost(s) ==
    /\ claims' = Quarantined({s})
    /\ SessionHeld(sessions[s]) = "active" /\ SessionHeld(sessions'[s]) = "quarantined"
    /\ OtherSessionsSame(s)

SessionEffect ==
    \/ SessionsQuiet
    \/ \E s \in Session : SessionAcquires(s) \/ SessionGivesUp(s) \/ SessionLost(s)

LEMMA SessionStepEffect ==
    ASSUME SessionInv, SessionStep
    PROVE  SessionEffect
<1>1. sessions \in [Session -> SessionRow]
  BY DEF SessionInv, SessionTypeOK
<1>2. CASE UNCHANGED <<claims, sessions>>
  BY <1>2 DEF SessionEffect, SessionsQuiet
<1>3. ASSUME NEW s \in Session, NEW b \in BOOLEAN, UNCHANGED claims,
             sessions' = [sessions EXCEPT ![s].op = b]
      PROVE  SessionEffect
  <2>1. \A t \in Session : sessions'[t].state = sessions[t].state
    BY <1>1, <1>3 DEF SessionRow
  <2> QED
    BY <1>3, <2>1 DEF SessionEffect, SessionsQuiet, SessionHeld
<1>4. ASSUME NEW s \in Session, BeginOpen(s)
      PROVE  SessionAcquires(s)
  <2>1. sessions[s].state = "absent" /\ sessions'[s].state = "active"
        /\ \A t \in Session \ {s} : sessions'[t] = sessions[t]
    BY <1>1, <1>4 DEF BeginOpen
  <2> QED
    BY <1>4, <2>1 DEF SessionAcquires, SessionHeld, OtherSessionsSame, BeginOpen
<1>5. ASSUME NEW s \in Session, Close(s)
      PROVE  SessionGivesUp(s)
  <2>1. sessions'[s].state = "closed" /\ \A t \in Session \ {s} : sessions'[t] = sessions[t]
    BY <1>1, <1>5 DEF Close, ClosedRow
  <2> QED
    BY <1>5, <2>1 DEF SessionGivesUp, SessionHeld, OtherSessionsSame, Close
<1>6. ASSUME NEW s \in Session, MarkUnknown(s)
      PROVE  SessionEffect
  <2>1. CASE ~Active(s)
    BY <1>2, <1>6, <2>1 DEF MarkUnknown
  <2>2. CASE Active(s)
    <3>1. sessions'[s].state = "attention_required"
          /\ \A t \in Session \ {s} : sessions'[t] = sessions[t]
      BY <1>1, <1>6, <2>2 DEF MarkUnknown, SessionRow
    <3> QED
      BY <1>6, <2>2, <3>1 DEF SessionEffect, SessionLost, SessionHeld, OtherSessionsSame,
         MarkUnknown, Active
  <2> QED
    BY <2>1, <2>2
<1>7. ASSUME NEW s \in Session, OpenStep(s)
      PROVE  SessionEffect
  BY <1>2, <1>4, <1>5, <1>7 DEF OpenStep, Connect, ConnectFails, AbortOpen, FinishOpen,
     SessionEffect
<1>8. ASSUME NEW s \in Session, OwnerStep(s)
      PROVE  SessionEffect
  BY <1>2, <1>3, <1>8 DEF OwnerStep, BeginRenew, Renew, StartOperation, FinishOperation,
     LoseOperation, FailObservation, EndSession
<1>9. ASSUME NEW s \in Session,
             CleanupStep(s) \/ ExpiryStep(s) \/ ResolveSession(s) \/ LapseSession(s)
      PROVE  SessionEffect
  BY <1>2, <1>5, <1>6, <1>9 DEF CleanupStep, MarkLost, CloseUnobservable, CloseEnded,
     ExpiryStep, ExpireWithoutContext, BeginExpire, Expire, ResolveSession, LapseSession,
     SessionEffect
<1> QED
  BY <1>2, <1>7, <1>8, <1>9 DEF SessionStep, ReadExpiredSessions

-----------------------------------------------------------------------------
(* Neither side touches the rows of the other. *)

LEMMA RunEffectForeign ==
    ASSUME ClaimsTypeOK, RunEffect, NEW s \in Session
    PROVE  Rows(claims', s) = Held(s)
<1>1. s \notin Run
  BY SessionIsOwner
<1>2. CASE RunsQuiet
  BY <1>2 DEF RunsQuiet, Rows, Held
<1>3. ASSUME NEW r \in Run, RunAcquires(r)
      PROVE  Rows(claims', s) = Held(s)
  BY <1>1, <1>3, ClaimedOther, Disjoint DEF RunAcquires
<1>4. ASSUME NEW r \in Run, RunGivesUp(r)
      PROVE  Rows(claims', s) = Held(s)
  BY <1>1, <1>4, ReleasedSubset DEF RunGivesUp
<1>5. ASSUME NEW S \in SUBSET Run, RunsLost(S)
      PROVE  Rows(claims', s) = Held(s)
  BY <1>1, <1>5, AfterLossKeeps DEF RunsLost
<1> QED
  BY <1>2, <1>3, <1>4, <1>5 DEF RunEffect

LEMMA SessionEffectForeign ==
    ASSUME ClaimsTypeOK, SessionEffect, NEW r \in Run
    PROVE  Rows(claims', r) = Held(r)
<1>1. r \notin Session
  BY Disjoint
<1>2. CASE SessionsQuiet
  BY <1>2 DEF SessionsQuiet, Rows, Held
<1>3. ASSUME NEW s \in Session, SessionAcquires(s)
      PROVE  Rows(claims', r) = Held(r)
  BY <1>1, <1>3, ClaimedOther, SessionIsOwner DEF SessionAcquires
<1>4. ASSUME NEW s \in Session, SessionGivesUp(s) \/ SessionLost(s)
      PROVE  Rows(claims', r) = Held(r)
  BY <1>1, <1>4, ReleasedSubset, QuarantinedOther DEF SessionGivesUp, SessionLost
<1> QED
  BY <1>2, <1>3, <1>4 DEF SessionEffect

LEMMA ForeignToRuns ==
    ASSUME RunInv, UNCHANGED runOnlyVars, claims' \subseteq Claim, Exclusive(claims'),
           \A r \in Run : Rows(claims', r) = Held(r)
    PROVE  RunInv'
<1>1. RunTypeOK' /\ LeasesMatch(runs', leases')
  BY DEF RunInv, RunTypeOK, ClaimsTypeOK, runOnlyVars
<1>2. RowsMatch(claims', runs')
  BY MatchIsRowsMatch DEF RunInv, RowsMatch, Rows, Held, runOnlyVars
<1> QED
  BY <1>1, <1>2, RunInvNext

LEMMA InvClaims ==
    /\ RunInv => claims \subseteq Claim /\ Exclusive(claims)
    /\ SessionInv => claims \subseteq Claim /\ Exclusive(claims)
BY DEF RunInv, RunTypeOK, SessionInv, SessionTypeOK, ClaimsTypeOK, ExclusiveClaims,
   Exclusive

LEMMA InvClaimsNext ==
    /\ RunInv' => claims' \subseteq Claim /\ Exclusive(claims')
    /\ SessionInv' => claims' \subseteq Claim /\ Exclusive(claims')
BY DEF RunInv, RunTypeOK, SessionInv, SessionTypeOK, ClaimsTypeOK, ExclusiveClaims,
   Exclusive

LEMMA RunSideKeeps ==
    ASSUME PlaneInv, RunStep, UNCHANGED sessionOnlyVars
    PROVE  RunInv' /\ SessionInv'
<1>1. RunInv'
  BY RunStepKeeps DEF PlaneInv
<1>2. \A s \in Session : Rows(claims', s) = Held(s)
  BY RunStepEffect, RunEffectForeign DEF PlaneInv, RunInv, RunTypeOK
<1> QED
  BY <1>1, <1>2, InvClaimsNext, ForeignToSessions DEF PlaneInv

LEMMA SessionSideKeeps ==
    ASSUME PlaneInv, SessionStep, UNCHANGED runOnlyVars
    PROVE  RunInv' /\ SessionInv'
<1>1. SessionInv'
  BY SessionStepKeeps DEF PlaneInv
<1>2. \A r \in Run : Rows(claims', r) = Held(r)
  BY SessionStepEffect, SessionEffectForeign DEF PlaneInv, RunInv, RunTypeOK
<1> QED
  BY <1>1, <1>2, InvClaimsNext, ForeignToRuns DEF PlaneInv

\* reconcile_startup: what the executors lost is reconciled with the sessions.
LEMMA RestartTable ==
    ASSUME PlaneInv
    PROVE  /\ AfterLoss(WithLease) \subseteq Claim
           /\ Exclusive(AfterLoss(WithLease))
           /\ \A s \in Session : Rows(AfterLoss(WithLease), s) = Held(s)
<1>1. \A s \in Session : s \notin WithLease
  BY SessionIsOwner DEF WithLease
<1> QED
  BY <1>1, AfterLossKeeps DEF PlaneInv, RunInv, RunTypeOK

LEMMA RestartSideKeeps ==
    ASSUME PlaneInv, Restart
    PROVE  RunInv' /\ SessionInv'
<1> DEFINE table == AfterLoss(WithLease)
<1>1. claims' = Reconciled(table)
  BY DEF Restart
<1>2. SessionInv'
  <2> HIDE DEF table
  <2> QED
    BY <1>1, RestartTable, RestartKeepsSessions DEF Restart, PlaneInv, table
<1>3. \A r \in Run : Rows(claims', r) = Rows(table, r)
  <2>1. \A r \in Run : r \notin LostSessions \cup IdleSessions
    BY Disjoint DEF LostSessions, IdleSessions
  <2> QED
    BY <1>1, <2>1, RestartTable, ReconciledKeeps
<1>4. RunInv'
  BY <1>1, <1>2, <1>3, InvClaimsNext, RestartKeeps DEF Restart, PlaneInv
<1> QED
  BY <1>2, <1>4

\* Each step of the control plane is one of these.
LEMMA PlaneSteps ==
    ASSUME Next
    PROVE  \/ RunStep /\ UNCHANGED sessionOnlyVars
           \/ SessionStep /\ UNCHANGED runOnlyVars
           \/ UNCHANGED <<claims, runOnlyVars, sessionOnlyVars>>
           \/ Restart
BY DEF Next, RunHandlers, SessionHandlers, SupervisorStep, ListRuns, FenceRuns,
   NoExpiredRun, ListSessions, NoExpiredSession, VisitSession, RunStep, SessionStep

LEMMA PlaneStutter ==
    ASSUME PlaneInv, UNCHANGED <<claims, runOnlyVars, sessionOnlyVars>>
    PROVE  RunInv' /\ SessionInv'
<1>1. claims' \subseteq Claim /\ Exclusive(claims')
      /\ \A o : Rows(claims', o) = Held(o)
  BY InvClaims DEF PlaneInv, Rows, Held
<1> QED
  BY <1>1, ForeignToRuns, ForeignToSessions DEF PlaneInv

\* The invariants of runs and of sessions hold of both together, over one table
\* and through the restart that reconciles both (runtime.py, control_plane.py).
THEOREM PlaneInvariant == Spec => []PlaneInv
<1>1. Init => PlaneInv
  BY RunInitInv, SessionInitInv DEF Init, PlaneInv
<1>2. PlaneInv /\ [Next]_vars => PlaneInv'
  <2> SUFFICES ASSUME PlaneInv, [Next]_vars PROVE PlaneInv'
    OBVIOUS
  <2>1. RunInv' /\ SessionInv'
    BY PlaneSteps, RunSideKeeps, SessionSideKeeps, RestartSideKeeps, PlaneStutter DEF vars
  <2>2. phase' \in {"runs", "sessions"}
    BY DEF PlaneInv, vars, Next, RunHandlers, SessionHandlers, SupervisorStep, ListRuns,
       FenceRuns, NoExpiredRun, ListSessions, NoExpiredSession, VisitSession, Restart
  <2> QED
    BY <2>1, <2>2 DEF PlaneInv
<1> QED
  BY <1>1, <1>2, PTL DEF Spec

\* Claims of runs and sessions follow their rows side by side (control_plane.py).
THEOREM PlaneClaimsFollowState ==
    Spec => [](ClaimsFollowRows /\ ExclusiveClaims)
BY PlaneInvariant, PTL DEF PlaneInv, RunInv, SessionInv, ClaimsFollowRows

\* Types of every table and of the daemon's volatile state.
THEOREM PlaneTypeCorrect == Spec => []TypeOK
BY PlaneInvariant, PTL DEF PlaneInv, RunInv, SessionInv, TypeOK

\* Beside a session whose devices the daemon holds no run that needs one of them
\* executes or waits for its operator (runtime.py, control_plane.py).
THEOREM RunsStayOffSessions == Spec => []NoRunBesideSession
<1>1. PlaneInv => NoRunBesideSession
  <2> SUFFICES ASSUME PlaneInv, NEW s \in hardware, NEW r \in Run,
                      Needs[r] \cap Needs[s] # {},
                      ~(/\ runs[r].state # "leased"
                        /\ runs[r].state = "attention_required" => WiringOnly(r))
               PROVE  FALSE
    BY Zenon DEF NoRunBesideSession
  <2> PICK x \in Needs[r] \cap Needs[s] : TRUE
    OBVIOUS
  <2>1. s \in Session /\ Active(s) /\ r # s
    BY Disjoint DEF PlaneInv, SessionInv, SessionTypeOK, HandlersOK, DevicesOK
  <2>2. PICK c \in claims : c.resource = x /\ c.owner = s
    <3>1. Held(s) = Whole(s, "active")
      BY <2>1 DEF PlaneInv, SessionInv, SessionClaimsMatchState, HoldsExactly, Whole
    <3>2. [resource |-> x, owner |-> s, status |-> "active"] \in Held(s)
      BY <3>1 DEF Whole
    <3> QED
      BY <3>2 DEF Held
  <2>3. PICK d \in claims : d.resource = x /\ d.owner = r
    <3>1. PICK status : Held(r) = Whole(r, status)
      <4>1. HoldsExactly(r, "active") \/ HoldsExactly(r, "quarantined")
        BY DEF PlaneInv, RunInv, ClaimsMatchState
      <4> QED
        BY <4>1 DEF HoldsExactly, Whole
    <3>2. [resource |-> x, owner |-> r, status |-> status] \in Held(r)
      BY <3>1 DEF Whole
    <3> QED
      BY <3>2 DEF Held
  <2> QED
    BY <2>1, <2>2, <2>3 DEF PlaneInv, RunInv, ExclusiveClaims
<1> QED
  BY <1>1, PlaneInvariant, PTL

-----------------------------------------------------------------------------
(***************************************************************************)
(* The refinement.  OwnHeld is one entry of HeldByState.  The lemmas that  *)
(* follow turn what a step does to the entries into a step of Ownership.   *)
(***************************************************************************)
OwnHeld(o) == IF o \in Run THEN RunHeld(runs[o]) ELSE SessionHeld(sessions[o])

LEMMA HeldIs == HeldByState = [o \in Owner |-> OwnHeld(o)]
BY DEF HeldByState, OwnHeld, RunHeld, SessionHeld, WiringOnly, Active

LEMMA HeldIsNext == HeldByState' = [o \in Owner |-> OwnHeld(o)']
BY DEF HeldByState, OwnHeld, RunHeld, SessionHeld, WiringOnly, Active

LEMMA HeldValues == \A o : OwnHeld(o) \in {"none", "active", "quarantined"}
BY DEF OwnHeld, RunHeld, SessionHeld

LEMMA Stutters ==
    ASSUME \A o \in Owner : OwnHeld(o)' = OwnHeld(o)
    PROVE  HeldByState' = HeldByState
BY HeldIs, HeldIsNext

\* What an owner holds by its row it has rows for.
LEMMA HeldHasRows ==
    ASSUME PlaneInv, NEW o \in Owner, OwnHeld(o) # "none"
    PROVE  \A x \in Needs[o] : \E c \in claims : c.resource = x
<1>1. PICK status : Held(o) = Whole(o, status)
  <2>1. CASE o \in Run
    BY <2>1 DEF PlaneInv, RunInv, ClaimsMatchState, HoldsExactly, Whole, OwnHeld, RunHeld,
       WiringOnly
  <2>2. CASE o \notin Run
    <3>1. o \in Session
      BY <2>2, OwnersAssumption
    <3> QED
      BY <2>2, <3>1 DEF PlaneInv, SessionInv, SessionClaimsMatchState, HoldsExactly, Whole,
         OwnHeld, SessionHeld, Active
  <2> QED
    BY <2>1, <2>2
<1>2. ASSUME NEW x \in Needs[o]
      PROVE  \E c \in claims : c.resource = x
  <2>1. [resource |-> x, owner |-> o, status |-> status] \in Held(o)
    BY <1>1 DEF Whole
  <2> QED
    BY <2>1 DEF Held
<1> QED
  BY <1>2

LEMMA Acquires ==
    ASSUME PlaneInv, NEW o \in Owner, Free(o),
           OwnHeld(o) = "none", OwnHeld(o)' = "active",
           \A p \in Owner \ {o} : OwnHeld(p)' = OwnHeld(p)
    PROVE  Abstract!OwnershipNext
<1>1. ASSUME NEW p \in Owner, Needs[o] \cap Needs[p] # {}
      PROVE  OwnHeld(p) = "none"
  BY <1>1, HeldHasRows DEF Free
<1>2. HeldByState' = [HeldByState EXCEPT ![o] = "active"]
  BY HeldIs, HeldIsNext
<1>3. Abstract!Acquire(o)
  BY <1>1, <1>2, HeldIs DEF Abstract!Acquire, Abstract!Conflicting
<1> QED
  BY <1>3 DEF Abstract!OwnershipNext

LEMMA Ends ==
    ASSUME NEW F \in SUBSET Owner, NEW L \in SUBSET Owner, F \cap L = {},
           \A o \in F \cup L : OwnHeld(o) = "active",
           \A o \in F : OwnHeld(o)' = "none",
           \A o \in L : OwnHeld(o)' = "quarantined",
           \A o \in Owner \ (F \cup L) : OwnHeld(o)' = OwnHeld(o)
    PROVE  Abstract!OwnershipNext
<1>1. Abstract!End(F, L)
  <2>1. \A o \in F \cup L : HeldByState[o] = "active"
    BY HeldIs
  <2>2. HeldByState' = [o \in Owner |-> IF o \in F THEN "none"
                           ELSE IF o \in L THEN "quarantined" ELSE HeldByState[o]]
    BY HeldIs, HeldIsNext
  <2> QED
    BY <2>1, <2>2 DEF Abstract!End
<1> QED
  BY <1>1 DEF Abstract!OwnershipNext

\* An owner that gives up ends its ownership, or is the subject of a decision,
\* or held nothing.
LEMMA GivesUp ==
    ASSUME NEW o \in Owner, OwnHeld(o)' = "none",
           \A p \in Owner \ {o} : OwnHeld(p)' = OwnHeld(p)
    PROVE  Abstract!OwnershipNext \/ HeldByState' = HeldByState
<1>1. CASE OwnHeld(o) = "none"
  BY <1>1, Stutters
<1>2. CASE OwnHeld(o) = "active"
  <2> DEFINE F == {o}  L == {}
  <2>1. F \in SUBSET Owner /\ L \in SUBSET Owner /\ F \cap L = {}
    OBVIOUS
  <2> QED
    BY <1>2, <2>1, Ends
<1>3. CASE OwnHeld(o) = "quarantined"
  <2>1. HeldByState' = [HeldByState EXCEPT ![o] = "none"]
    BY HeldIs, HeldIsNext
  <2>2. Abstract!Decide(o)
    BY <1>3, <2>1, HeldIs DEF Abstract!Decide
  <2> QED
    BY <2>2 DEF Abstract!OwnershipNext
<1> QED
  BY <1>1, <1>2, <1>3, HeldValues

LEMMA Loses ==
    ASSUME NEW L \in SUBSET Owner,
           \A o \in L : OwnHeld(o) = "active" /\ OwnHeld(o)' = "quarantined",
           \A o \in Owner \ L : OwnHeld(o)' = OwnHeld(o)
    PROVE  Abstract!OwnershipNext
<1> DEFINE F == {}
<1>1. F \in SUBSET Owner /\ F \cap L = {}
  OBVIOUS
<1> QED
  BY <1>1, Ends

LEMMA RunSideRefines ==
    ASSUME PlaneInv, RunEffect, UNCHANGED sessionOnlyVars
    PROVE  Abstract!OwnershipNext \/ HeldByState' = HeldByState
<1>1. \A r \in Run : r \in Owner /\ OwnHeld(r) = RunHeld(runs[r])
                     /\ OwnHeld(r)' = RunHeld(runs'[r])
  BY Disjoint DEF OwnHeld, RunHeld
<1>2. \A o \in Owner \ Run : OwnHeld(o)' = OwnHeld(o)
  BY DEF OwnHeld, SessionHeld, sessionOnlyVars
<1>3. CASE RunsQuiet
  BY <1>1, <1>2, <1>3, Stutters DEF RunsQuiet
<1>4. ASSUME NEW r \in Run, RunAcquires(r)
      PROVE  Abstract!OwnershipNext
  <2>1. \A p \in Owner \ {r} : OwnHeld(p)' = OwnHeld(p)
    BY <1>1, <1>2, <1>4 DEF RunAcquires, OthersSame
  <2> QED
    BY <1>1, <1>4, <2>1, Acquires DEF RunAcquires
<1>5. ASSUME NEW r \in Run, RunGivesUp(r)
      PROVE  Abstract!OwnershipNext \/ HeldByState' = HeldByState
  <2>1. \A p \in Owner \ {r} : OwnHeld(p)' = OwnHeld(p)
    BY <1>1, <1>2, <1>5 DEF RunGivesUp, OthersSame
  <2> QED
    BY <1>1, <1>5, <2>1, GivesUp DEF RunGivesUp
<1>6. ASSUME NEW S \in SUBSET Run, RunsLost(S)
      PROVE  Abstract!OwnershipNext
  <2>1. S \in SUBSET Owner /\ \A o \in Owner \ S : OwnHeld(o)' = OwnHeld(o)
    BY <1>1, <1>2, <1>6 DEF RunsLost
  <2> QED
    BY <1>1, <1>6, <2>1, Loses DEF RunsLost
<1> QED
  BY <1>3, <1>4, <1>5, <1>6 DEF RunEffect

LEMMA SessionSideRefines ==
    ASSUME PlaneInv, SessionEffect, UNCHANGED runOnlyVars
    PROVE  Abstract!OwnershipNext \/ HeldByState' = HeldByState
<1>1. \A s \in Session : s \in Owner /\ OwnHeld(s) = SessionHeld(sessions[s])
                         /\ OwnHeld(s)' = SessionHeld(sessions'[s])
  BY SessionIsOwner DEF OwnHeld, SessionHeld
<1>2. \A o \in Owner \ Session : OwnHeld(o)' = OwnHeld(o)
  BY OwnersAssumption DEF OwnHeld, RunHeld, runOnlyVars
<1>3. CASE SessionsQuiet
  BY <1>1, <1>2, <1>3, Stutters DEF SessionsQuiet
<1>4. ASSUME NEW s \in Session, OtherSessionsSame(s)
      PROVE  \A p \in Owner \ {s} : OwnHeld(p)' = OwnHeld(p)
  BY <1>1, <1>2, <1>4 DEF OtherSessionsSame
<1>5. ASSUME NEW s \in Session, SessionAcquires(s)
      PROVE  Abstract!OwnershipNext
  BY <1>1, <1>4, <1>5, Acquires DEF SessionAcquires
<1>6. ASSUME NEW s \in Session, SessionGivesUp(s)
      PROVE  Abstract!OwnershipNext \/ HeldByState' = HeldByState
  BY <1>1, <1>4, <1>6, GivesUp DEF SessionGivesUp
<1>7. ASSUME NEW s \in Session, SessionLost(s)
      PROVE  Abstract!OwnershipNext
  <2> DEFINE L == {s}
  <2>1. L \in SUBSET Owner /\ \A o \in Owner \ L : OwnHeld(o)' = OwnHeld(o)
    BY <1>1, <1>4, <1>7 DEF SessionLost
  <2> QED
    BY <1>1, <1>7, <2>1, Loses DEF SessionLost
<1> QED
  BY <1>3, <1>5, <1>6, <1>7 DEF SessionEffect

\* A restart loses executors and sessions in an operation, and ends idle sessions.
LEMMA RestartRefines ==
    ASSUME PlaneInv, Restart
    PROVE  Abstract!OwnershipNext
<1> DEFINE F == IdleSessions
           L == WithLease \cup LostSessions
<1>1. F \in SUBSET Owner /\ L \in SUBSET Owner /\ F \cap L = {}
  BY Disjoint, SessionIsOwner DEF IdleSessions, LostSessions, WithLease
<1>2. /\ \A r \in WithLease :
            RunHeld(runs[r]) = "active" /\ RunHeld(runs'[r]) = "quarantined"
      /\ \A r \in Run \ WithLease : RunHeld(runs'[r]) = RunHeld(runs[r])
  <2>1. LoseExecutors(WithLease, "daemon_restarted") /\ "daemon_restarted" \in Reason
    BY DEF Restart, RestartRunRows, Reason
  <2>2. \A r \in WithLease : r \in Run /\ leases[r] # NoLease
    BY DEF WithLease
  <2> QED
    BY <2>1, <2>2, LossHeld DEF PlaneInv
<1>3. \A s \in Session : sessions'[s] =
         IF s \in LostSessions THEN [sessions[s] EXCEPT !.state = "attention_required"]
         ELSE IF s \in IdleSessions THEN ClosedRow ELSE sessions[s]
  BY DEF Restart, ReconcileSessions, LostSessions, IdleSessions
<1>4. \A s \in LostSessions :
         SessionHeld(sessions[s]) = "active" /\ SessionHeld(sessions'[s]) = "quarantined"
  <2>1. \A s \in LostSessions : s \in Session /\ sessions[s] \in SessionRow
    BY DEF PlaneInv, SessionInv, SessionTypeOK, LostSessions
  <2> QED
    BY <1>3, <2>1 DEF LostSessions, Active, SessionHeld, SessionRow
<1>5. \A s \in IdleSessions :
         SessionHeld(sessions[s]) = "active" /\ SessionHeld(sessions'[s]) = "none"
  <2>1. \A s \in IdleSessions : s \in Session /\ s \notin LostSessions
                                  /\ sessions[s].state = "active"
    BY DEF IdleSessions, LostSessions, Active
  <2>2. SessionHeld(ClosedRow) = "none"
    BY DEF SessionHeld, ClosedRow
  <2> QED
    BY <1>3, <2>1, <2>2 DEF SessionHeld
<1>6. \A s \in Session \ (LostSessions \cup IdleSessions) :
         SessionHeld(sessions'[s]) = SessionHeld(sessions[s])
  BY <1>3
<1>7. \A r \in Run : OwnHeld(r) = RunHeld(runs[r]) /\ OwnHeld(r)' = RunHeld(runs'[r])
  BY DEF OwnHeld, RunHeld
<1>8. \A s \in Session : /\ s \notin Run
                         /\ OwnHeld(s) = SessionHeld(sessions[s])
                         /\ OwnHeld(s)' = SessionHeld(sessions'[s])
  BY SessionIsOwner DEF OwnHeld, SessionHeld
<1>9. /\ \A o \in F : OwnHeld(o) = "active" /\ OwnHeld(o)' = "none"
      /\ \A o \in L : OwnHeld(o) = "active" /\ OwnHeld(o)' = "quarantined"
      /\ \A o \in Owner \ (F \cup L) : OwnHeld(o)' = OwnHeld(o)
  BY <1>2, <1>4, <1>5, <1>6, <1>7, <1>8, OwnersAssumption
     DEF IdleSessions, LostSessions, WithLease
<1> HIDE DEF F, L
<1> QED
  BY <1>1, <1>9, Ends

\* The tables of runs and sessions behave as owners of exclusive resources: what
\* is held or was lost nobody else acquires, what was lost comes back by a decision
\* about its owner, and a restart gives nothing away (control_plane.py).
THEOREM PlaneImplementsOwnership == Spec => ImplementsOwnership
<1>1. Init => Abstract!OwnershipInit
  <2> SUFFICES ASSUME Init PROVE HeldByState = [o \in Owner |-> "none"]
    BY DEF Abstract!OwnershipInit
  <2>1. \A r \in Run : runs[r].state = "absent"
    BY DEF Init, RunInit
  <2>2. \A s \in Session : sessions[s].state = "absent"
    BY DEF Init, SessionInit
  <2>3. \A o \in Owner : OwnHeld(o) = "none"
    BY <2>1, <2>2, OwnersAssumption DEF OwnHeld, RunHeld, SessionHeld
  <2> QED
    BY <2>3, HeldIs
<1>2. PlaneInv /\ [Next]_vars => [Abstract!OwnershipNext]_HeldByState
  <2> SUFFICES ASSUME PlaneInv, [Next]_vars
               PROVE  Abstract!OwnershipNext \/ HeldByState' = HeldByState
    OBVIOUS
  <2>1. CASE RunStep /\ UNCHANGED sessionOnlyVars
    BY <2>1, RunStepEffect, RunSideRefines DEF PlaneInv
  <2>2. CASE SessionStep /\ UNCHANGED runOnlyVars
    BY <2>2, SessionStepEffect, SessionSideRefines DEF PlaneInv
  <2>3. CASE UNCHANGED <<claims, runOnlyVars, sessionOnlyVars>>
    BY <2>3, Stutters DEF OwnHeld, RunHeld, SessionHeld, runOnlyVars, sessionOnlyVars
  <2>4. CASE Restart
    BY <2>4, RestartRefines
  <2> QED
    BY <2>1, <2>2, <2>3, <2>4, PlaneSteps DEF vars
<1> QED
  BY <1>1, <1>2, PlaneInvariant, PTL DEF Spec, ImplementsOwnership, Abstract!OwnershipSpec

-----------------------------------------------------------------------------
(* What may change in the row of a session, beside runs. *)

LEMMA PlaneRow ==
    ASSUME PlaneInv, [Next]_vars, NEW s \in Session
    PROVE  RowStep(s)
<1>1. CASE UNCHANGED sessions
  BY <1>1 DEF RowStep, Active
<1> QED
  BY <1>1, PlaneSteps, SessionStepRow, RestartRow
     DEF PlaneInv, Restart, vars, sessionOnlyVars

\* A quarantined instrument is given back by the resolution of its own session,
\* whatever runs, other sessions and restarts do (control_plane.py, runtime.py).
THEOREM SessionQuarantineIsDecided == Spec => SessionQuarantineNeedsDecision
<1>1. PlaneInv /\ PlaneInv' /\ [Next]_vars =>
         [\A s \in Session : \A c \in Held(s) \ claims' :
             c.status = "quarantined" =>
                sessions[s].state = "attention_required"
                   /\ sessions'[s].state = "closed"]_sessionVars
  BY PlaneRow, QuarantineGoesWithAttention DEF PlaneInv
<1> QED
  BY <1>1, PlaneInvariant, PTL DEF Spec, SessionQuarantineNeedsDecision

\* Beside runs and restarts as well, an unfinished operation is not swept under
\* the rug (runtime.py).
THEOREM PlaneUnfinishedGoesThroughAttention == Spec => UnfinishedNeedsAttention
<1>1. PlaneInv /\ [Next]_vars =>
         [\A s \in Session :
             Active(s) /\ sessions[s].op => sessions'[s].state # "closed"]_sessionVars
  BY PlaneRow DEF RowStep
<1> QED
  BY <1>1, PlaneInvariant, PTL DEF Spec, UnfinishedNeedsAttention

\* The devices the daemon holds for a session are claimed by it, beside runs and
\* restarts as well (runtime.py).
THEOREM PlaneDevicesUnderClaims == Spec => []HardwareIsClaimed
<1>1. PlaneInv => HardwareIsClaimed
  BY DEF PlaneInv, SessionInv, SessionTypeOK, HandlersOK, DevicesOK,
     SessionClaimsMatchState, HardwareIsClaimed
<1> QED
  BY <1>1, PlaneInvariant, PTL

-----------------------------------------------------------------------------
(* Leases that are renewed while the supervisor is on its way. *)

\* What was past its time for the pass of the supervisor still is.
TermsOK == \A s \in Session : terms[s].overdue => terms[s].expired

PlaneLeases == PlaneInv /\ RowsOK /\ TermsOK

LEMMA SessionTermsOK ==
    ASSUME SessionInv, TermsOK, SessionStep
    PROVE  TermsOK'
<1>1. terms \in [Session -> Term]
  BY DEF SessionInv, SessionTypeOK
<1>2. CASE UNCHANGED terms
  BY <1>2 DEF TermsOK
<1>3. ASSUME NEW s \in Session, terms' = [terms EXCEPT ![s] = FreshTerm]
      PROVE  TermsOK'
  BY <1>1, <1>3 DEF TermsOK, FreshTerm
<1>4. ASSUME NEW s \in Session, LapseSession(s)
      PROVE  TermsOK'
  BY <1>1, <1>4 DEF TermsOK, LapseSession, Term
<1>5. CASE ReadExpiredSessions
  <2>1. \A s \in Session : terms'[s] = [terms[s] EXCEPT !.overdue = terms[s].expired]
    BY <1>5 DEF ReadExpiredSessions
  <2> QED
    BY <1>1, <2>1 DEF TermsOK, Term
<1>6. ASSUME NEW s \in Session, OpenStep(s) \/ OwnerStep(s)
      PROVE  TermsOK'
  BY <1>2, <1>3, <1>6 DEF OpenStep, BeginOpen, Connect, ConnectFails, AbortOpen,
     FinishOpen, OwnerStep, BeginRenew, Renew, StartOperation, FinishOperation,
     LoseOperation, FailObservation, EndSession
<1>7. ASSUME NEW s \in Session, CleanupStep(s) \/ ExpiryStep(s) \/ ResolveSession(s)
      PROVE  UNCHANGED terms
  BY <1>7 DEF CleanupStep, MarkLost, CloseUnobservable, CloseEnded, ExpiryStep,
     ExpireWithoutContext, BeginExpire, Expire, ResolveSession
<1> QED
  BY <1>2, <1>4, <1>5, <1>6, <1>7 DEF SessionStep

LEMMA PlaneLeasesStep ==
    ASSUME PlaneLeases, PlaneInv', [Next]_vars
    PROVE  PlaneLeases'
<1>1. HistoryInv
  BY DEF PlaneLeases, PlaneInv, HistoryInv
<1>2. CASE RunStep /\ UNCHANGED sessionOnlyVars
  BY <1>1, <1>2, HistoryInvStep
     DEF HistoryInv, RunNext, PlaneLeases, TermsOK, sessionOnlyVars
<1>3. CASE SessionStep /\ UNCHANGED runOnlyVars
  BY <1>1, <1>3, SameRowsOK, SessionTermsOK DEF PlaneLeases, PlaneInv, runOnlyVars
<1>4. CASE UNCHANGED <<claims, runOnlyVars, sessionOnlyVars>>
  BY <1>1, <1>4, SameRowsOK DEF PlaneLeases, TermsOK, runOnlyVars, sessionOnlyVars
<1>5. CASE Restart
  <2>1. LoseExecutors(WithLease, "daemon_restarted") /\ UNCHANGED terms
    BY <1>5 DEF Restart, RestartRunRows
  <2> QED
    BY <1>1, <2>1, LossOK DEF PlaneLeases, TermsOK
<1> QED
  BY <1>2, <1>3, <1>4, <1>5, PlaneSteps DEF vars

LEMMA PlaneLeasesInvariant == Spec => []PlaneLeases
<1>1. Init => PlaneLeases
  <2> SUFFICES ASSUME Init PROVE PlaneLeases
    OBVIOUS
  <2>1. PlaneInv
    BY RunInitInv, SessionInitInv DEF Init, PlaneInv
  <2>2. RowsOK
    BY LeaseConstants, NoOutcomeFields DEF Init, RunInit, RowsOK, RowOK
  <2>3. TermsOK
    BY DEF Init, SessionInit, FreshTerm, TermsOK
  <2> QED
    BY <2>1, <2>2, <2>3 DEF PlaneLeases
<1>2. PlaneLeases /\ PlaneInv' /\ [Next]_vars => PlaneLeases'
  BY PlaneLeasesStep
<1> QED
  BY <1>1, <1>2, PlaneInvariant, PTL DEF Spec

\* A run is fenced for its lease only while the lease has run out.
LEMMA RunIsSpared ==
    ASSUME PlaneLeases, [Next]_vars, NEW r \in Run,
           runs[r].state = "leased", runs'[r].reason = "executor_lease_expired"
    PROVE  leases[r].expired
<1>1. HistoryInv /\ RowOK(runs[r]) /\ runs[r] \in RunRow
  BY DEF PlaneLeases, PlaneInv, HistoryInv, RowsOK, RunInv, RunTypeOK
<1>2. CASE RunStep
  BY <1>1, <1>2, FencedStep DEF RunNext
<1>3. runs'[r] # runs[r]
  BY <1>1 DEF RowOK
<1>4. ~Restart
  <2> SUFFICES ASSUME Restart PROVE FALSE
    OBVIOUS
  <2>1. runs'[r] = WithState(runs[r], "attention_required", "daemon_restarted")
    BY <1>3 DEF Restart, RestartRunRows, LoseExecutors
  <2> QED
    BY <1>1, <2>1, WithStateRow
<1> QED
  BY <1>2, <1>3, <1>4, PlaneSteps DEF vars, runOnlyVars

\* The lock of an expiry is freed by the expiry, if not by a restart.
LEMMA SessionIsSpared ==
    ASSUME PlaneLeases, [Next]_vars, NEW s \in Session,
           leaseLock[s] = "expiring", leaseLock'[s] = "free", runtime' = runtime,
           sessions'[s] # sessions[s]
    PROVE  terms[s].expired
<1>1. /\ leaseLock \in [Session -> {"free", "renewing", "expiring"}]
      /\ runtime \in Nat
  BY DEF PlaneLeases, PlaneInv, SessionInv, SessionTypeOK, RunInv, RunTypeOK
<1>2. SessionStep
  <2>1. ~Restart
    BY <1>1 DEF Restart, RestartRunRows
  <2> QED
    BY <2>1, PlaneSteps DEF vars, sessionOnlyVars
<1>3. PICK t \in Session : leaseLock' # leaseLock /\ (BeginRenew(t) \/ Renew(t)
                                \/ BeginExpire(t) \/ Expire(t))
  BY <1>2 DEF SessionStep, OpenStep, BeginOpen, Connect, ConnectFails, AbortOpen,
     FinishOpen, OwnerStep, StartOperation, FinishOperation, LoseOperation,
     FailObservation, EndSession, CleanupStep, MarkLost, CloseUnobservable, CloseEnded,
     ExpiryStep, ExpireWithoutContext, ResolveSession, LapseSession, ReadExpiredSessions
<1>4. t = s /\ Expire(s)
  BY <1>1, <1>3 DEF BeginRenew, Renew, BeginExpire, Expire
<1>5. StillOverdue(s)
  BY <1>4 DEF Expire
<1> QED
  BY <1>5 DEF StillOverdue, PlaneLeases, TermsOK

\* An executor or a session that renewed after the supervisor listed it keeps what
\* it owns (expire_leases in leases.py, control_plane.py and runtime.py).
THEOREM RenewedAreSparedHolds == Spec => RenewedAreSpared
<1>1. PlaneLeases /\ [Next]_vars =>
         [\A r \in Run :
            runs[r].state = "leased" /\ runs'[r].reason = "executor_lease_expired" =>
               leases[r].expired]_runVars
  BY RunIsSpared
<1>2. PlaneLeases /\ [Next]_vars =>
         [\A s \in Session :
            leaseLock[s] = "expiring" /\ leaseLock'[s] = "free" /\ runtime' = runtime
                /\ sessions'[s] # sessions[s] => terms[s].expired]_vars
  BY SessionIsSpared
<1> QED
  BY <1>1, <1>2, PlaneLeasesInvariant, PTL DEF Spec, RenewedAreSpared, RenewedIsSpared

-----------------------------------------------------------------------------
(* Effects of unknown outcome. *)

\* A session that lost an operation is about to be marked, and reached by nobody else.
ToBeMarked(s) ==
    s \in unknown =>
        /\ sessions[s].state # "absent"
        /\ Active(s) => busy[s] = "lost" /\ s \notin contexts \cup opening
UnknownOK == \A s \in Session : ToBeMarked(s)
NotForgotten(s) == s \in unknown /\ Active(s) => sessions'[s].state # "closed"

\* What a step leaves alone of a session keeps it to be marked.
LEMMA StillMarked ==
    ASSUME UnknownOK, NEW t \in Session, sessions'[t] = sessions[t], busy'[t] = busy[t],
           t \in unknown' => t \in unknown, t \in contexts' => t \in contexts,
           t \in opening' => t \in opening
    PROVE  ToBeMarked(t)' /\ NotForgotten(t)
BY DEF UnknownOK, ToBeMarked, NotForgotten, Active

LEMMA UnknownOpen ==
    ASSUME SessionInv, UnknownOK, NEW s \in Session, OpenStep(s), NEW t \in Session
    PROVE  ToBeMarked(t)' /\ NotForgotten(t)
<1>1. sessions \in [Session -> SessionRow] /\ ToBeMarked(s) /\ OneOpening
  BY DEF SessionInv, SessionTypeOK, HandlersOK, UnknownOK
<1>2. CASE t # s
  BY <1>1, <1>2, StillMarked DEF OpenStep, BeginOpen, Connect, ConnectFails, AbortOpen,
     FinishOpen, Close
<1>3. s \in unknown => ~OpenStep(s) \/ ~Active(s)
  BY <1>1 DEF ToBeMarked, OpenStep, BeginOpen, Connect, ConnectFails, FinishOpen, Active
<1>4. Active(s) \/ BeginOpen(s)
  BY DEF OpenStep, Connect, ConnectFails, FinishOpen, SessionInv, HandlersOK, OpeningOK
<1>5. s \notin unknown
  BY <1>1, <1>3, <1>4 DEF ToBeMarked, BeginOpen
<1>6. unknown' = unknown
  BY DEF OpenStep, BeginOpen, Connect, ConnectFails, AbortOpen, FinishOpen
<1> QED
  BY <1>2, <1>5, <1>6 DEF ToBeMarked, NotForgotten

LEMMA UnknownOwner ==
    ASSUME SessionInv, UnknownOK, NEW s \in Session, OwnerStep(s), NEW t \in Session
    PROVE  ToBeMarked(t)' /\ NotForgotten(t)
<1>1. /\ sessions \in [Session -> SessionRow] /\ busy \in [Session -> Busy]
      /\ ToBeMarked(s) /\ OpeningOK(s) /\ KnownOK(s)
  BY DEF SessionInv, SessionTypeOK, HandlersOK, UnknownOK
<1>2. CASE t # s
  BY <1>1, <1>2, StillMarked DEF OwnerStep, BeginRenew, Renew, StartOperation,
     FinishOperation, LoseOperation, FailObservation, EndSession, LetGo
<1>3. CASE BeginRenew(s) \/ Renew(s)
  BY <1>2, <1>3, StillMarked DEF BeginRenew, Renew
<1>4. CASE StartOperation(s) \/ FinishOperation(s) \/ FailObservation(s) \/ EndSession(s)
  <2>1. Active(s) /\ busy[s] # "lost"
    BY <1>4 DEF StartOperation, FinishOperation, FailObservation, EndSession, Entered,
       SessionLive
  <2>2. s \notin unknown /\ unknown' = unknown
    BY <1>1, <1>4, <2>1
       DEF ToBeMarked, StartOperation, FinishOperation, FailObservation, EndSession
  <2> QED
    BY <1>2, <2>2 DEF ToBeMarked, NotForgotten
<1>5. CASE LoseOperation(s)
  <2>1. sessions'[s].state = sessions[s].state /\ sessions[s].state # "absent"
    BY <1>1, <1>5 DEF LoseOperation, KnownOK, SessionRow
  <2>2. busy'[s] = "lost" /\ s \notin contexts' \cup opening'
    BY <1>1, <1>5 DEF LoseOperation, LetGo, OpeningOK
  <2> QED
    BY <1>2, <2>1, <2>2 DEF ToBeMarked, NotForgotten, Active
<1> QED
  BY <1>3, <1>4, <1>5 DEF OwnerStep

LEMMA UnknownEnd ==
    ASSUME SessionInv, UnknownOK, NEW s \in Session, NEW t \in Session,
           CleanupStep(s) \/ ExpiryStep(s) \/ ResolveSession(s) \/ LapseSession(s)
    PROVE  ToBeMarked(t)' /\ NotForgotten(t)
<1>1. /\ sessions \in [Session -> SessionRow] /\ busy \in [Session -> Busy]
      /\ ToBeMarked(s)
  BY DEF SessionInv, SessionTypeOK, UnknownOK
<1>2. unknown' = unknown /\ contexts' \subseteq contexts /\ opening' = opening
  BY DEF CleanupStep, MarkLost, CloseUnobservable, CloseEnded, ExpiryStep,
     ExpireWithoutContext, BeginExpire, Expire, ResolveSession, LapseSession, LetGo
<1>3. CASE t # s
  <2>1. sessions'[t] = sessions[t] /\ busy'[t] = busy[t]
    BY <1>1, <1>3 DEF CleanupStep, MarkLost, CloseUnobservable, CloseEnded, ExpiryStep,
       ExpireWithoutContext, BeginExpire, Expire, ResolveSession, LapseSession, Close,
       MarkUnknown
  <2> QED
    BY <1>2, <2>1, StillMarked
<1>4. CASE UNCHANGED <<sessions, busy>>
  BY <1>2, <1>4, StillMarked
<1>5. CASE ~Active(s) /\ sessions'[s].state \in {sessions[s].state, "closed"}
  BY <1>1, <1>2, <1>3, <1>5 DEF ToBeMarked, NotForgotten, Active
<1>6. CASE Active(s) /\ MarkUnknown(s)
  <2>1. sessions'[s].state = "attention_required"
    BY <1>1, <1>6 DEF MarkUnknown, SessionRow
  <2> QED
    BY <1>3, <2>1 DEF ToBeMarked, NotForgotten, Active
<1>7. CASE Active(s) /\ busy[s] # "lost"
  BY <1>1, <1>2, <1>3, <1>7 DEF ToBeMarked, NotForgotten
<1>8. CASE CleanupStep(s)
  BY <1>1, <1>5, <1>6, <1>7, <1>8
     DEF CleanupStep, MarkLost, CloseUnobservable, CloseEnded, Close, ClosedRow, MarkUnknown
<1>9. CASE ExpiryStep(s)
  BY <1>4, <1>5, <1>6, <1>7, <1>9 DEF ExpiryStep, ExpireWithoutContext, BeginExpire, Expire,
     StillOverdue
<1>10. CASE ResolveSession(s)
  BY <1>1, <1>5, <1>10 DEF ResolveSession, Close, ClosedRow, Active
<1>11. CASE LapseSession(s)
  BY <1>4, <1>11 DEF LapseSession
<1> QED
  BY <1>8, <1>9, <1>10, <1>11

\* One step: what is to be marked stays so, and only a restart forgets it.
LEMMA UnknownStep ==
    ASSUME PlaneInv, UnknownOK, [Next]_vars
    PROVE  UnknownOK' /\ (runtime' = runtime => \A s \in Session : NotForgotten(s))
<1>1. SessionInv /\ sessions \in [Session -> SessionRow] /\ runtime \in Nat
  BY DEF PlaneInv, SessionInv, SessionTypeOK, RunInv, RunTypeOK
<1>2. CASE UNCHANGED sessionOnlyVars
  BY <1>2, StillMarked DEF sessionOnlyVars, UnknownOK
<1>3. CASE SessionStep
  <2>1. CASE ReadExpiredSessions
    BY <2>1, StillMarked DEF ReadExpiredSessions, UnknownOK
  <2> QED
    BY <1>1, <1>3, <2>1, UnknownOpen, UnknownOwner, UnknownEnd DEF SessionStep, UnknownOK
<1>4. CASE Restart
  <2>1. \A s \in Session : ToBeMarked(s)'
    <3> TAKE s \in Session
    <3>1. unknown' = unknown /\ ToBeMarked(s) /\ sessions[s] \in SessionRow
      BY <1>1, <1>4 DEF Restart, UnknownOK
    <3>2. sessions'[s] =
             IF Active(s) /\ Unfinished(s)
             THEN [sessions[s] EXCEPT !.state = "attention_required"]
             ELSE IF Active(s) /\ ~Unfinished(s) THEN ClosedRow ELSE sessions[s]
      BY <1>4 DEF Restart, ReconcileSessions
    <3> QED
      BY <3>1, <3>2 DEF ToBeMarked, Active, ClosedRow, SessionRow
  <2>2. runtime' # runtime
    BY <1>1, <1>4 DEF Restart, RestartRunRows
  <2> QED
    BY <2>1, <2>2 DEF UnknownOK
<1> QED
  BY <1>2, <1>3, <1>4, PlaneSteps DEF vars

\* An effect of unknown outcome leads to quarantine whatever handler, expiry or
\* operator gets to its session, through any number of restarts; the restart alone
\* can forget it (_execute_interactive_apply in runtime.py).
THEOREM OnlyRestartsForget ==
    Spec => [][runtime' = runtime =>
                  \A s \in Session : NotForgotten(s)]_sessionVars
<1>1. Init => UnknownOK
  BY DEF Init, SessionInit, UnknownOK, ToBeMarked
<1>2. PlaneInv /\ UnknownOK /\ [Next]_vars => UnknownOK'
  BY UnknownStep
<1>3. PlaneInv /\ UnknownOK /\ [Next]_vars =>
         [runtime' = runtime => \A s \in Session : NotForgotten(s)]_sessionVars
  BY UnknownStep
<1> QED
  BY <1>1, <1>2, <1>3, PlaneInvariant, PTL DEF Spec

\* Only a restart gives the daemon another process.
LEMMA SameProcess ==
    ASSUME RunStep
    PROVE  runtime' = runtime
<1>1. ASSUME NEW r \in Run, ExecutorStep(r)
      PROVE  runtime' = runtime
  BY <1>1 DEF ExecutorStep, StartExecution, RetryStart, RejectBusy, RequireReconfirmation,
     ReadHeartbeatClock, RenewLease, AdvanceCoverage, CommitTerminal, MarkExecutorUnknown
<1>2. ASSUME NEW r \in Run, OperatorStep(r) \/ LapseLease(r)
      PROVE  runtime' = runtime
  BY <1>2 DEF OperatorStep, Admit, CancelRun, CancelWaitingChild, ContinueRun,
     ReconfirmLine, CloseAttention, LapseLease
<1> QED
  BY <1>1, <1>2 DEF RunStep, ReadExpiredLeases, ExpireLeases

\* Within one process of the daemon an effect of unknown outcome keeps its
\* instruments until an operator resolves the session (runtime.py).
THEOREM UnknownEffectStaysQuarantined ==
    MaxRuntime = 1 => (Spec => UnknownEffectIsQuarantined)
<1> SUFFICES ASSUME MaxRuntime = 1
             PROVE  Spec => UnknownEffectIsQuarantined
  OBVIOUS
<1>1. Init => runtime = 1
  BY DEF Init, RunInit
<1>2. runtime = 1 /\ [Next]_vars => (runtime = 1)' /\ runtime' = runtime
  <2> SUFFICES ASSUME runtime = 1, [Next]_vars PROVE runtime' = runtime
    OBVIOUS
  <2>1. ~Restart
    BY DEF Restart, RestartRunRows
  <2> QED
    BY <2>1, SameProcess, PlaneSteps DEF vars, runOnlyVars
<1>3. [runtime' = runtime => \A s \in Session : NotForgotten(s)]_sessionVars
         /\ runtime' = runtime /\ unknown \subseteq Session =>
      [\A s \in unknown : Active(s) => sessions'[s].state # "closed"]_sessionVars
  BY DEF NotForgotten
<1>4. PlaneInv => unknown \subseteq Session
  BY DEF PlaneInv, SessionInv, SessionTypeOK
<1> QED
  BY <1>1, <1>2, <1>3, <1>4, OnlyRestartsForget, PlaneInvariant, PTL
     DEF Spec, UnknownEffectIsQuarantined
=============================================================================
