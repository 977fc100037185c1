---------------------------- MODULE MCVMASession ----------------------------
(***************************************************************************)
(* Instances of VMASession for TLC.                                        *)
(***************************************************************************)
EXTENDS VMASession

CONSTANTS r1
==============================================================================
