--------------------------- MODULE MCPublishBatch ---------------------------
(***************************************************************************)
(* PublishBatch with two recorded preflights and two runs, so that a batch *)
(* is authorized again while its first run is still at work.  Two calls    *)
(* overlap on a batch of one item, whose draft is publishable in one       *)
(* version, or not publishable.                                            *)
(***************************************************************************)
EXTENDS PublishBatch, TLC

Symmetry == Permutations(Sessions)
=============================================================================
