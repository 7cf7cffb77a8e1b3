---------------------------- MODULE MCReleaseGate ----------------------------
(***************************************************************************)
(* A small workspace for TLC: the sources go back and forth between two    *)
(* contents.                                                               *)
(***************************************************************************)
EXTENDS ReleaseGate

CONSTANTS s1, s2

=============================================================================
