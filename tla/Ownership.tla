----------------------------- MODULE Ownership ------------------------------
(***************************************************************************)
(* What the control plane promises about exclusive resources, without its  *)
(* tables: an owner holds everything it needs, or has lost control of it,  *)
(* or holds nothing.  Nobody acquires what another owner holds or has lost *)
(* control of, and what was lost comes back by a decision about its owner  *)
(* alone.                                                                  *)
(***************************************************************************)
CONSTANTS Owner, Needs

VARIABLE held

OwnershipInit == held = [o \in Owner |-> "none"]

Conflicting(o, p) == o # p /\ Needs[o] \cap Needs[p] # {}

Acquire(o) ==
    /\ held[o] = "none"
    /\ \A p \in Owner : Conflicting(o, p) => held[p] = "none"
    /\ held' = [held EXCEPT ![o] = "active"]

\* Owners finish (F) and are lost (L); a restart of the daemon ends several.
End(F, L) ==
    /\ F \cap L = {}
    /\ \A o \in F \cup L : held[o] = "active"
    /\ held' = [o \in Owner |-> IF o \in F THEN "none"
                                ELSE IF o \in L THEN "quarantined" ELSE held[o]]

Decide(o) == held[o] = "quarantined" /\ held' = [held EXCEPT ![o] = "none"]

OwnershipNext ==
    \/ \E o \in Owner : Acquire(o) \/ Decide(o)
    \/ \E F, L \in SUBSET Owner : End(F, L)

OwnershipSpec == OwnershipInit /\ [][OwnershipNext]_held
=============================================================================
