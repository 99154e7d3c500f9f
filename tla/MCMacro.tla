------------------------------ MODULE MCMacro -------------------------------
(* A small instance of Macro.                                              *)
EXTENDS Macro
=============================================================================
