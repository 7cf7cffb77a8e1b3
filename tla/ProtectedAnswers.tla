-------------------------- MODULE ProtectedAnswers --------------------------
(***************************************************************************)
(* What the permissioned query service promises, without its cache, its    *)
(* checks and its phases: resources are revoked and stay revoked, and each *)
(* call answers, at one instant, from evidence none of which is revoked,   *)
(* or answers nothing.                                                     *)
(***************************************************************************)
CONSTANTS
  Resource,   \* everything that can be revoked
  Item,       \* what an answer is made of
  Ids,        \* Ids[i]: the resources item i depends on
  Thread      \* who asks

VARIABLES
  revoked,    \* the resources no answer may depend on any more
  delivered   \* each caller's last answer

Init ==
  /\ revoked = {}
  /\ delivered = [t \in Thread |-> {}]

\* Revocation only ever adds.
Revoke ==
  /\ revoked' \in SUBSET Resource
  /\ revoked \subseteq revoked'
  /\ UNCHANGED delivered

Respond(t) ==
  /\ \E answer \in SUBSET Item :
       /\ (UNION {Ids[i] : i \in answer}) \cap revoked = {}
       /\ delivered' = [delivered EXCEPT ![t] = answer]
  /\ UNCHANGED revoked

Next == Revoke \/ \E t \in Thread : Respond(t)

Spec == Init /\ [][Next]_<<revoked, delivered>>

=============================================================================
