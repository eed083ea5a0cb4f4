---------------------------- MODULE MCAutomation ----------------------------
(***************************************************************************)
(* Automation on a procedure that measures and then asks for a judgment.   *)
(***************************************************************************)
EXTENDS Automation

MCDefinition == <<"run", "interpretation">>
=============================================================================
