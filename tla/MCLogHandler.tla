---------------------------- MODULE MCLogHandler ----------------------------
(* Values for model checking LogHandler. *)
EXTENDS LogHandler
CONSTANTS main, reader, user
=============================================================================
