----------------------- MODULE MCArtifactPublication -----------------------
(***************************************************************************)
(* A small workspace for TLC.                                              *)
(***************************************************************************)
EXTENDS ArtifactPublication

CONSTANTS proc1, proc2, v1, v2

=============================================================================
