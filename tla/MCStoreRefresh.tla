--------------------------- MODULE MCStoreRefresh ---------------------------
(***************************************************************************)
(* StoreRefresh with two workers and two launchers, two refreshes, so that *)
(* one can be timed out and overtaken by the next, and one change of       *)
(* SHEIN's data.                                                           *)
(***************************************************************************)
EXTENDS StoreRefresh
=============================================================================
