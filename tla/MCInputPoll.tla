---------------------------- MODULE MCInputPoll ----------------------------
(***************************************************************************)
(* InputPoll for TLC: the configuration chooses the sizes.                 *)
(***************************************************************************)
EXTENDS InputPoll
=============================================================================
