------------------------------ MODULE MCLaunch ------------------------------
(* Values for model checking Launch. *)
EXTENDS Launch

Pids == 0..2
=============================================================================
