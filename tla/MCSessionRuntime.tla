-------------------------- MODULE MCSessionRuntime --------------------------
(***************************************************************************)
(* Two sessions, two principals and two scopes for TLC.                    *)
(***************************************************************************)
EXTENDS SessionRuntime

CONSTANTS s1, s2, w1, w2, k1, k2

=============================================================================
