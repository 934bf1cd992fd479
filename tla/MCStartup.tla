------------------------------ MODULE MCStartup ------------------------------
(***************************************************************************)
(* Startup for TLC: two tables, and crashes enough to cut one start short  *)
(* at each file and a second one in between.                               *)
(***************************************************************************)
EXTENDS Startup

=============================================================================
