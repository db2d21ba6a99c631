-------------------------- MODULE MCStreamSession --------------------------
(***************************************************************************)
(* StreamSession for TLC.                                                  *)
(***************************************************************************)
EXTENDS StreamSession

\* Everything at once, and everything but one: what holds under a set of
\* timings holds under its subsets, and every property excludes one at most.
AllButOne == {AdverseTimings} \cup {AdverseTimings \ {t} : t \in AdverseTimings}

OnlyLateInput == {{"late_input"}}
=============================================================================
