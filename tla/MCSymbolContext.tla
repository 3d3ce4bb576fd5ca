-------------------------- MODULE MCSymbolContext --------------------------
(* Instances of SymbolContext for TLC. *)
EXTENDS SymbolContext

CONSTANTS t1, t2
=============================================================================
