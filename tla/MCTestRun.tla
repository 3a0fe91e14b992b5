----------------------------- MODULE MCTestRun -----------------------------
(* Model checking of TestRun; the cfg files give the constants their values. *)
EXTENDS TestRun
=============================================================================
