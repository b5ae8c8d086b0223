--------------------------- MODULE MCPublishOutbox ---------------------------
(***************************************************************************)
(* PublishOutbox with two commands, two dispatchers with equal or distinct *)
(* dispatcherIds and two faults: enough for a lost lease that a successor  *)
(* holds, under the same id or another, for a batch cut short, and for a   *)
(* command added again after its job was removed.                          *)
(***************************************************************************)
EXTENDS PublishOutbox
=============================================================================
