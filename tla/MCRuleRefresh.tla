---------------------------- MODULE MCRuleRefresh ----------------------------
(***************************************************************************)
(* RuleRefresh in two instances: two workers with two lanes on two         *)
(* refreshes of two targets, the second of which may retry the first; and  *)
(* two schedulers and one worker on two refreshes of one target, for the   *)
(* monthly schedule and for the end of every refresh.                      *)
(***************************************************************************)
EXTENDS RuleRefresh, TLC

\* The slots of the first instance are interchangeable; the second, which
\* checks liveness, has no symmetry.
ProcessSymmetry == Permutations(Workers)
=============================================================================
