------------------------------ MODULE MCParser ------------------------------
(***************************************************************************)
(* Model-checking instance of Parser: the names are model values given in  *)
(* the configurations.                                                     *)
(***************************************************************************)
EXTENDS Parser
=============================================================================
