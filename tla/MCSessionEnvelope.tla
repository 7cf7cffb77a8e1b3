------------------------- MODULE MCSessionEnvelope -------------------------
(***************************************************************************)
(* Two programs and two authorization contexts for TLC.                    *)
(***************************************************************************)
EXTENDS SessionEnvelope

CONSTANTS prog1, prog2, c1, c2

=============================================================================
