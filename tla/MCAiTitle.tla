------------------------------- MODULE MCAiTitle -------------------------------
(***************************************************************************)
(* AiTitle with one slot and one place in the queue for three keys, so     *)
(* that a run holds the slot, one waits and one is refused, with two       *)
(* entries in the cache and two overlapping saves.                         *)
(***************************************************************************)
EXTENDS AiTitle
=============================================================================
