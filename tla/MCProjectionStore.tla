-------------------------- MODULE MCProjectionStore --------------------------
(***************************************************************************)
(* A small store for TLC: a plan from the first version and one that goes  *)
(* on from its target.  A third, p2, is a retry of the first, or a rival   *)
(* of it with another target.                                              *)
(***************************************************************************)
EXTENDS ProjectionStore, TLC

CONSTANTS p1, p2, p3, r1, r2, r3, v0, v1, v2, c1, c2

MCRunOf == [p \in Plan |-> CASE p = p1 -> r1 [] p = p2 -> r2 [] OTHER -> r3]
MCBaseOf == [p \in Plan |-> IF p = p3 THEN v1 ELSE v0]
MCTargetOf == [p \in Plan |-> IF p = p3 THEN v2 ELSE v1]
MCEarlier == [p \in Plan |-> IF p = p2 THEN {p1} ELSE {}]

MCRivalEarlier == [p \in Plan |-> {}]
MCRivalTargetOf == [MCTargetOf EXCEPT ![p2] = v2]

\* Callers are interchangeable.
Callers == Permutations(Client)

=============================================================================
