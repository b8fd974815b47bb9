--------------------------- MODULE MCDiagnostics ---------------------------
(***************************************************************************)
(* Diagnostics for TLC: two tasks that are alike.                          *)
(***************************************************************************)
EXTENDS Diagnostics, TLC

CONSTANTS telemetry, sync

MCCallers == {telemetry, sync}
MCSymmetry == Permutations(MCCallers)
=============================================================================
