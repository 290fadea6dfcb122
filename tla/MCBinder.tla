------------------------------ MODULE MCBinder ------------------------------
(* Two clients that are counted, a generic one and one of the mount service, *)
(* each of which, like the service itself, runs 0, 1 or 2 times.             *)
EXTENDS Binder
=============================================================================
