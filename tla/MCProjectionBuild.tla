-------------------------- MODULE MCProjectionBuild --------------------------
(***************************************************************************)
(* Small workspaces for TLC: two versions of one scope and one of another. *)
(***************************************************************************)
EXTENDS ProjectionBuild, TLC

CONSTANTS b1, b2, ns1, ns2, v1, v2, w

MCScopeOf == [v \in Version |-> IF v = w THEN ns2 ELSE ns1]

\* Builders are interchangeable.
Builders == Permutations(Builder)

=============================================================================
