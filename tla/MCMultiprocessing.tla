-------------------------- MODULE MCMultiprocessing --------------------------
(***************************************************************************)
(* An instance of Multiprocessing: a result is longer than a pipe, so that *)
(* children block in write() until the manager reads their pipe.           *)
(***************************************************************************)
EXTENDS Multiprocessing

AnyFailure == {"fork", "init", "ready", "run", "report", "write"}
=============================================================================
