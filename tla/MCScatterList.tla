--------------------------- MODULE MCScatterList ---------------------------
(***************************************************************************)
(* Instances of ScatterList for TLC.                                       *)
(***************************************************************************)
EXTENDS ScatterList
============================================================================
