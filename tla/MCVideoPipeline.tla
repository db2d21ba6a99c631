-------------------------- MODULE MCVideoPipeline --------------------------
(***************************************************************************)
(* VideoPipeline for TLC: the configurations choose the sizes.             *)
(***************************************************************************)
EXTENDS VideoPipeline
=============================================================================
