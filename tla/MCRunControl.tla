---------------------------- MODULE MCRunControl ----------------------------
(***************************************************************************)
(* RunControl on two runs that compete for one instrument; the second also *)
(* needs another one and was admitted with a manual line confirmation.     *)
(***************************************************************************)
EXTENDS RunControl, TLC

CONSTANTS r1, r2, daq, laser, e1, e2

MCNeeds == [o \in Owner |-> IF o = r1 THEN {daq} ELSE {daq, laser}]

\* The bound of three executions is for both runs together, one of them at most
\* of the run that only competes.
FewExecutions ==
    Len(segments[r1]) <= 1 /\ Len(segments[r1]) + Len(segments[r2]) <= 3

\* The executors are interchangeable, the runs are not.
Executors == Permutations(Executor)
=============================================================================
