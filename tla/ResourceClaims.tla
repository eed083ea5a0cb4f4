--------------------------- MODULE ResourceClaims ---------------------------
(***************************************************************************)
(* The table resource_claims of the control plane: which run or instrument *)
(* session owns which exclusive resource, and whether its ownership is     *)
(* active or quarantined.  The schema keeps the resource unique            *)
(* (schema.py:151-162); the model keeps the table as a set of rows, so     *)
(* that uniqueness is something the operations have to establish.          *)
(***************************************************************************)
CONSTANTS
    Resource,   \* the exclusivity keys and domain targets of a deployment
    Owner,      \* runs and instrument sessions
    Needs       \* the claims an owner was admitted (run) or opened (session) with

ASSUME NeedsAssumption == Needs \in [Owner -> SUBSET Resource]

VARIABLE claims

ClaimStatus == {"active", "quarantined"}

Claim == [resource : Resource, owner : Owner, status : ClaimStatus]

ClaimsTypeOK == claims \subseteq Claim

-----------------------------------------------------------------------------
(* The statements the transactions run against the table. *)

\* The rows of one owner: WHERE owner_kind = ? AND owner_id = ?.
Held(o) == {c \in claims : c.owner = o}

\* Mutant of Free: only the rows another owner still uses actively conflict.
FreeOfActive(o) ==
    \A c \in claims : c.resource \in Needs[o] => c.status # "active"

\* No row exists for any resource the owner needs, whatever its status.
Free(o) == \A c \in claims : c.resource \notin Needs[o]

\* The table after an owner claims everything it needs in one transaction.
Claimed(o) ==
    claims \cup {[resource |-> x, owner |-> o, status |-> "active"] : x \in Needs[o]}

\* The table after DELETE ... WHERE owner_id IN S.
Released(S) == {c \in claims : c.owner \notin S}

\* The table after UPDATE ... SET status = 'quarantined' WHERE owner_id IN S.
Quarantined(S) ==
    {IF c.owner \in S THEN [c EXCEPT !.status = "quarantined"] ELSE c : c \in claims}

-----------------------------------------------------------------------------
\* The whole admitted set is held with one status, and nothing beside it.
HoldsExactly(o, s) ==
    Held(o) = {[resource |-> x, owner |-> o, status |-> s] : x \in Needs[o]}

(***************************************************************************)
(* No two owners have rows for one resource: a run and a session, or two   *)
(* runs, are never both let onto one instrument.                           *)
(***************************************************************************)
ExclusiveClaims ==
    \A c, d \in claims : c.resource = d.resource => c = d
=============================================================================
