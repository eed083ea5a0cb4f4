------------------------- MODULE MCInstrumentActors -------------------------
(***************************************************************************)
(* InstrumentActors with a thread that wants both devices and one that     *)
(* wants the first of them, a release of the first device, and one         *)
(* replacement of the backend.                                             *)
(***************************************************************************)
EXTENDS InstrumentActors

CONSTANTS daq, laser, both, first

MCWants == [t \in Thread |-> IF t = both THEN <<laser, daq>> ELSE <<daq>>]
MCScope == [m \in Retirer |-> {daq}]
=============================================================================
