--------------------------- MODULE MCSupervision ----------------------------
(***************************************************************************)
(* Small instances of Supervision for TLC: the constants of the .cfg files *)
(* are small integers in the proportions that matter (a cap that bites     *)
(* before the last restart, a clock that outlasts a whole streak).         *)
(***************************************************************************)
EXTENDS Supervision

=============================================================================
