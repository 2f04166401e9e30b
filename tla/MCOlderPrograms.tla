-------------------------- MODULE MCOlderPrograms --------------------------
(***************************************************************************)
(* An instance of OlderPrograms for TLC.                                   *)
(***************************************************************************)
EXTENDS OlderPrograms, TLC
=============================================================================
