----------------------- MODULE MCPermissionedRevision -----------------------
(***************************************************************************)
(* A small store for TLC: one claim whose source can move from one document*)
(* to another (two tuples, of which it needs exactly one), and a second    *)
(* claim with one tuple.                                                   *)
(***************************************************************************)
EXTENDS PermissionedRevision, TLC

CONSTANTS claim, other, source1, source2, only, v1, v2, main, branch, f1, t1

MCResourceOf == [x \in Tuple |-> IF x = only THEN other ELSE claim]
MCViewable == [r \in Resource |-> {{x} : x \in {y \in Tuple : MCResourceOf[y] = r}}]
MCWatermarkOf == (main :> v1) @@ (branch :> v2)

=============================================================================
