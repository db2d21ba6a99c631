---------------------------- MODULE MCMoonlight ----------------------------
(***************************************************************************)
(* Moonlight for TLC: two textures, and the two timings in which something *)
(* outside main moves `state` at an unexpected moment: the connection that *)
(* fails while it starts, and the alarm that is armed after its stream has *)
(* ended (a late callback writes what that alarm's HOME button writes).    *)
(***************************************************************************)
EXTENDS Moonlight

LateThreads == {{"early_termination", "late_input"}}
=============================================================================
