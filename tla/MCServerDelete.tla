--------------------------- MODULE MCServerDelete ---------------------------
(***************************************************************************)
(* Instances of ServerDelete: one API driver (or two) and the sweep.        *)
(***************************************************************************)
EXTENDS ServerDelete, TLC

CONSTANTS api, sweep
=============================================================================
