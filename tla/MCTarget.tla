------------------------------ MODULE MCTarget ------------------------------
(***************************************************************************)
(* Instances of Target for TLC.                                            *)
(***************************************************************************)
EXTENDS Target

\* The commands in an order that fills the list of pending requests: connect,
\* the configuration, and requests for events up to and beyond the limit of
\* two, with each of the others at one of the places where it is handled
\* differently.
MCCommand ==
    <<{"connect", "refused", "outline", "flags"},
      {"connect", "cc"},
      {"cc", "get", "setaen", "aer", "admin", "otherlog", "badsgl", "unknown"},
      {"setaen", "aer"},
      {"aer"}>>
============================================================================
