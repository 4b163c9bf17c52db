---------------------------- MODULE MCSourceTree ----------------------------
(***************************************************************************)
(* Instances of SourceTree for TLC.                                        *)
(***************************************************************************)
EXTENDS SourceTreeProperties

CONSTANTS r1, r2
=============================================================================
