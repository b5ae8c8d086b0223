-------------------------- MODULE MCComplianceCycle --------------------------
(***************************************************************************)
(* ComplianceCycle with one token, which two requests may carry at once,   *)
(* and syncs of two SKCs that two workers may be at.                       *)
(***************************************************************************)
EXTENDS ComplianceCycle, TLC

CONSTANTS s1, s2

MCAsked  == (s1 :> "report") @@ (s2 :> "photos")
Symmetry == Permutations(Workers) \cup Permutations(Requests)
=============================================================================
