-------------------------- MODULE MCPublishProtocol --------------------------
(***************************************************************************)
(* PublishProtocol with two requests, two competing runs and two attempts  *)
(* per request: enough for a retry after a failure, for a second run that  *)
(* finds the authorization used, and for one request finishing before,     *)
(* after or without the other.                                             *)
(***************************************************************************)
EXTENDS PublishProtocol, TLC

Symmetry == Permutations(Requests) \cup Permutations(Runs)
=============================================================================
