------------------------- MODULE RevocationLifecycle -------------------------
(***************************************************************************)
(* authz.EpochRevocationLifecycle: for every resource a reconciliation has *)
(* touched, the revision that touched it last and whether the resource is  *)
(* still blocked.  Prepare closes the gate, Commit opens it for grants,    *)
(* and Allows asks it.  The resource invalidator that Prepare calls after  *)
(* it released the mutex is wired to the tombstones of the query cache:    *)
(* that loop is a step of the reconciler (module PermissionedRevision).    *)
(***************************************************************************)
EXTENDS RevisionPublisher, Tombstones

\* lifecycleResourceState; a resource in no transition has epoch 0.
State == [revision : Revision, blocked : BOOLEAN, pendingGrant : BOOLEAN]

VARIABLES
  states        \* EpochRevocationLifecycle.states

LifecycleTypeOK == states \in [Resource -> State]

Unknown == [revision |-> NoRevision, blocked |-> FALSE, pendingGrant |-> FALSE]

LifecycleInit == states = [r \in Resource |-> Unknown]

Known(r) == states[r].revision.epoch > 0

\* authz.RevocationTransition
Transition == [base : Revision, target : Revision,
               retired : SUBSET Resource, granted : SUBSET Resource]

Touched(transition) == transition.retired \cup transition.granted

(***************************************************************************)
(* Prepare refuses to go back to an older epoch, and to grant a retired or *)
(* an already granted resource again without a newer epoch.                *)
(***************************************************************************)
PrepareRefused(transition) ==
  \E r \in Touched(transition) :
    /\ Known(r)
    /\ \/ states[r].revision.epoch > transition.target.epoch
       \/ /\ r \in transition.granted
          /\ states[r].blocked /\ ~states[r].pendingGrant
          /\ transition.target.epoch <= states[r].revision.epoch
       \/ /\ r \in transition.granted
          /\ ~states[r].blocked
          /\ states[r].revision.epoch = transition.target.epoch
          /\ transition.base.epoch >= transition.target.epoch

\* Faulty variant: only what is retired is blocked, grants wait for the epoch.
PrepareRetired(transition) ==
  states' = [r \in Resource |->
    IF r \in Touched(transition)
    THEN [revision |-> transition.target, blocked |-> r \in transition.retired,
          pendingGrant |-> r \in transition.granted]
    ELSE states[r]]

Prepare(transition) ==
  states' = [r \in Resource |->
    IF r \in Touched(transition)
    THEN [revision |-> transition.target, blocked |-> TRUE,
          pendingGrant |-> r \in transition.granted]
    ELSE states[r]]

CommitRefused(transition) ==
  \E r \in Touched(transition) :
    \/ ~Known(r)
    \/ states[r].revision # transition.target
    \/ /\ ~states[r].blocked
       /\ ~(r \in transition.granted /\ ~states[r].pendingGrant)

\* What is only retired stays blocked: only a later grant can open it.
Commit(transition) ==
  states' = [r \in Resource |->
    IF r \in transition.granted
    THEN [revision |-> states[r].revision, blocked |-> FALSE, pendingGrant |-> FALSE]
    ELSE states[r]]

\* May a reader that holds this revision use evidence of r?
Allows(revision, r) ==
  Known(r) =>
    /\ ~states[r].blocked
    /\ revision.epoch >= states[r].revision.epoch
    /\ revision.epoch = states[r].revision.epoch => revision = states[r].revision

=============================================================================
