---------------------------- MODULE MCLoginGuard ----------------------------
(***************************************************************************)
(* LoginGuard for TLC: a window of two ticks with one slot, blocks of two  *)
(* ticks (a violation that a reset took away meanwhile) or three (the      *)
(* bound), a second violation that overflows, and a clock long enough for  *)
(* the window to move on and a block to run out.                           *)
(***************************************************************************)
EXTENDS LoginGuard

=============================================================================
