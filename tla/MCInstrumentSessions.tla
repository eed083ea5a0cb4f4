------------------------ MODULE MCInstrumentSessions ------------------------
(***************************************************************************)
(* InstrumentSessions on two sessions that both want one instrument; one   *)
(* of them wants another as well.                                          *)
(***************************************************************************)
EXTENDS InstrumentSessions

CONSTANTS s1, s2, daq, laser

MCNeeds == [o \in Owner |-> IF o = s1 THEN {daq} ELSE {daq, laser}]
=============================================================================
