--------------------------- MODULE MCRunHardware ---------------------------
(***************************************************************************)
(* RunHardware on one run with one instrument.                             *)
(***************************************************************************)
EXTENDS RunHardware, TLC

CONSTANTS r1, daq, t1, t2, c1, c2, c3

MCNeeds == [o \in Owner |-> {daq}]

\* The calls are interchangeable, and so are the context objects.
CallsAndContexts == Permutations(Call) \cup Permutations(Context)

(***************************************************************************)
(* For liveness, which symmetry would not leave intact, the same by order: *)
(* a new context is the first free object, a request that finds no call    *)
(* under way is the first.  What this leaves out has another name only.    *)
(***************************************************************************)
InOrder ==
    /\ table[r1] = None /\ table'[r1] = c2 => ~Unreferenced(c1)
    /\ table[r1] = None /\ table'[r1] = c3 => ~Unreferenced(c1) /\ ~Unreferenced(c2)
    /\ calls[t1] = Idle /\ calls[t2] = Idle => calls'[t2] = Idle

Success == <<"succeeded", "known">>
Failure == <<"failed", "indeterminate">>

\* Two outcomes, no cancellation of an execution, and none started after a restart.
OverlapBound ==
    /\ \A t \in Call : calls[t].outcome \in {None, Success, Failure}
    /\ runs[r1].cancelRequested => runs[r1].state = "closed"
    /\ \A k \in DOMAIN segments[r1] : segments[r1][k].runtime = 1

\* One outcome for each execution, not the same for all, and no cancellation.
SerialBound ==
    /\ \A t \in Call :
          calls[t].outcome \in {None, IF calls[t].token = 2 THEN Failure ELSE Success}
    /\ ~runs[r1].cancelRequested
=============================================================================
