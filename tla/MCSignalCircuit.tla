--------------------------- MODULE MCSignalCircuit ---------------------------
(***************************************************************************)
(* Calls that may overlap, three failures to trip, two ticks to wait.       *)
(***************************************************************************)
EXTENDS SignalCircuit
=============================================================================
