--------------------------- MODULE MCControlPlane ---------------------------
(***************************************************************************)
(* ControlPlane with runs and sessions that all want one instrument, a run *)
(* and a session another one as well; or with a session beside a run and a *)
(* session that compete for the other instrument.                          *)
(***************************************************************************)
EXTENDS ControlPlane

CONSTANTS r1, r2, s1, s2, daq, laser

MCNeeds == [o \in Owner |-> IF o \in {r1, s1} THEN {daq} ELSE {daq, laser}]

MCSeparateNeeds == [o \in Owner |-> IF o = s2 THEN {laser} ELSE {daq}]

\* The bound on how the run ends where only sessions and leases matter.
PlainEnd ==
    runs[r1].outcome.result \in {"none", "succeeded"} /\ ~runs[r1].cancelRequested
=============================================================================
