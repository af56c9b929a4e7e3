----------------------------- MODULE MCLogPage -----------------------------
(* The instance of LogPage for TLC. *)
EXTENDS LogPage
============================================================================
