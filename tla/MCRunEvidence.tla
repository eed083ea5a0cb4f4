--------------------------- MODULE MCRunEvidence ---------------------------
(***************************************************************************)
(* RunEvidence with three points in two groups, the first of which is not  *)
(* contiguous, and a second execution after the first.                     *)
(***************************************************************************)
EXTENDS RunEvidence

MCSchedule == <<{0, 2}, {1}>>
=============================================================================
