------------------------- MODULE MCControllerInput -------------------------
(***************************************************************************)
(* ControllerInput for TLC: the configurations choose the sizes.           *)
(***************************************************************************)
EXTENDS ControllerInput
=============================================================================
