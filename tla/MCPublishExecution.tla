------------------------- MODULE MCPublishExecution -------------------------
(***************************************************************************)
(* PublishExecution with two jobs, two workers, two attempts per job and   *)
(* one extra delivery: enough for a retry after an explicit failure, for a *)
(* worker that finds its claim gone, for two transactions of different     *)
(* jobs that overlap, and for one job finishing without the other.  The    *)
(* run that looks for a lapsed claim uses one worker and one job.          *)
(***************************************************************************)
EXTENDS PublishExecution, TLC

Symmetry == Permutations(Jobs) \cup Permutations(Workers)
=============================================================================
