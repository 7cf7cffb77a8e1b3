------------------------- MODULE PermissionedRevision -------------------------
(***************************************************************************)
(* How authorization changes reach the readers of a permissioned           *)
(* application: authz.TupleReconciler moves the OpenFGA store to a new     *)
(* tuple projection under a new revision, permissionedRevisionState        *)
(* rebinds the serving scope after a build or a checkout, and both race    *)
(* with readers that begin and finish against the published revision.      *)
(* The reconciler holds its mutex for a whole Reconcile call, so one       *)
(* reconciliation runs at a time; nothing else is held across a step but   *)
(* scopeMu, which refreshScope holds from its comparison to its end.       *)
(***************************************************************************)
EXTENDS RevocationLifecycle

CONSTANTS
  Tuple,          \* Catalog tuples OpenFGA may hold
  ResourceOf,     \* ResourceOf[x]: the claim tuple x is about, and bound to
  Viewable,       \* Viewable[r]: the tuples of r that let the reader view r
  Scope,          \* serving scopes (ArtifactAuthorizationScope)
  WatermarkOf,    \* WatermarkOf[s]: the ACL watermark of scope s
  Refresher,      \* goroutines that run RefreshAuthorizationScope
  Reader,         \* goroutines that run Query, ReadDerivedArtifact, ...
  MaxEpoch,       \* bound: no revision beyond this epoch is planned
  MaxReservations,\* bound: no attempt to move the revision begins beyond it
  MaxSelections   \* bound: builds and checkouts in a behaviour

ASSUME PermissionedRevisionAssumption ==
  /\ ResourceOf \in [Tuple -> Resource]
  /\ Viewable \in [Resource -> SUBSET SUBSET Tuple]
  /\ WatermarkOf \in [Scope -> Watermark]
  /\ MaxEpoch \in Nat
  /\ MaxReservations \in Nat
  /\ MaxSelections \in Nat

VARIABLES
  store,       \* external: the tuples OpenFGA holds
  bindings,    \* the tuple projection reconciled last
  selected,    \* the scope of the artifacts selected on disk
  selections,  \* builds and checkouts so far
  scope,       \* permissionedRevisionState.scope
  rpc,         \* where the reconciliation is
  plan,        \* its TupleReconciliationPlan
  reserved,    \* its RevisionReservation
  todo,        \* resources its Prepare has still to invalidate
  changes,     \* tuples ApplyTupleChanges has still to write or delete
  fpc,         \* where each refresh is
  next,        \* the scope it read from the provider
  ticket,      \* its RevisionReservation, or the one it asks for
  pc,          \* where each reader is
  seen,        \* the selected scope it read last
  revision,    \* the revision it began with
  evidence,    \* the resources its answer depends on
  unchecked,   \* evidence that finish has still to ask the lifecycle about
  moved,       \* history: evidence whose tuples changed before finish compared
  torn,        \* history: resources whose last application is incomplete
  tried        \* history: plans applied, maybe in part, since store was last as published

sharedVars == <<publisherVars, states, tombstoneVars, store, selected, selections>>
reconcileVars == <<rpc, plan, reserved, todo, changes, bindings>>
refreshVars == <<fpc, next, ticket, scope>>
readerVars == <<pc, seen, revision, evidence, unchecked>>
history == <<moved, torn, tried>>
vars == <<sharedVars, reconcileVars, refreshVars, readerVars, history>>

TuplesOf(r, tuples) == {x \in tuples : ResourceOf[x] = r}

Bound(tuples) == {ResourceOf[x] : x \in tuples}

\* OpenFGA's answer for the reader, from the tuples it holds now.
CanView == {r \in Resource : TuplesOf(r, store) \in Viewable[r]}

(***************************************************************************)
(* TupleReconciliationPlan.  PlanCatalogTupleReconciliation computes the   *)
(* delta between two projections; tuple changes need a newer revision with *)
(* another ACL watermark.                                                  *)
(***************************************************************************)
Plan == [from : SUBSET Tuple, to : SUBSET Tuple, base : Revision, target : Revision]

Writes(p) == p.to \ p.from
Deletes(p) == p.from \ p.to

TransitionOf(p) ==
  [base |-> p.base, target |-> p.target,
   retired |-> Bound(Deletes(p)), granted |-> Bound(Writes(p))]

Noop(p) == p.from = p.to /\ p.target = p.base

ValidPlan(p) ==
  \/ Noop(p)
  \/ /\ Advances(p.base, p.target)
     /\ p.from # p.to => p.target.acl # p.base.acl

ReconcilePC == {"idle", "check", "reserve", "prepare", "invalidate",
                "apply", "commit", "publish", "abort"}
RefreshPC == {"idle", "lock", "reserve", "publish"}
ReaderPC == {"idle", "begin", "current", "read", "gate",
             "finish", "scope", "compare", "allows", "done"}

TypeOK ==
  /\ PublisherTypeOK
  /\ LifecycleTypeOK
  /\ TombstonesTypeOK
  /\ store \in SUBSET Tuple
  /\ bindings \in SUBSET Tuple
  /\ selected \in Scope
  /\ selections \in 0 .. MaxSelections
  /\ scope \in Scope
  /\ rpc \in ReconcilePC
  /\ plan \in Plan
  /\ reserved \in Reservation
  /\ todo \in SUBSET Resource
  /\ changes \in SUBSET Tuple
  /\ fpc \in [Refresher -> RefreshPC]
  /\ next \in [Refresher -> Scope]
  /\ ticket \in [Refresher -> Reservation]
  /\ pc \in [Reader -> ReaderPC]
  /\ seen \in [Reader -> Scope]
  /\ revision \in [Reader -> Revision]
  /\ evidence \in [Reader -> SUBSET Resource]
  /\ unchecked \in [Reader -> SUBSET Resource]
  /\ moved \in [Reader -> SUBSET Resource]
  /\ torn \in SUBSET Resource
  /\ tried \in SUBSET ((SUBSET Tuple) \X (SUBSET Tuple))

\* newPermissionedRevisionState: epoch 1, with the watermark of the bound scope.
Init ==
  /\ PublisherInit
  /\ LifecycleInit
  /\ TombstonesInit
  /\ store \in SUBSET Tuple
  /\ bindings = store
  /\ scope \in Scope
  /\ current.acl = WatermarkOf[scope]
  /\ selected = scope
  /\ selections = 0
  /\ rpc = "idle"
  /\ plan = [from |-> bindings, to |-> bindings, base |-> current, target |-> current]
  /\ reserved = NoReservation
  /\ todo = {}
  /\ changes = {}
  /\ fpc = [f \in Refresher |-> "idle"]
  /\ next = [f \in Refresher |-> scope]
  /\ ticket = [f \in Refresher |-> NoReservation]
  /\ pc = [t \in Reader |-> "idle"]
  /\ seen = [t \in Reader |-> scope]
  /\ revision = [t \in Reader |-> NoRevision]
  /\ evidence = [t \in Reader |-> {}]
  /\ unchecked = [t \in Reader |-> {}]
  /\ moved = [t \in Reader |-> {}]
  /\ torn = {}
  /\ tried = {}

-----------------------------------------------------------------------------
(***************************************************************************)
(* TupleReconciler.Reconcile.  The caller plans from the projection        *)
(* reconciled last and from the revision it sees, or retries a plan that   *)
(* failed.  A failure aborts the reservation and leaves the gate closed.   *)
(***************************************************************************)
Submit(p) ==
  /\ rpc = "idle"
  /\ nextReservation < MaxReservations
  /\ p = plan \/ (p.from = bindings /\ p.base = current)
  /\ ValidPlan(p)
  /\ plan' = p
  /\ rpc' = "check"
  /\ UNCHANGED <<sharedVars, reserved, todo, changes, bindings, refreshVars, readerVars, history>>

CheckBase ==
  /\ rpc = "check"
  /\ rpc' = IF current # plan.base \/ Noop(plan) THEN "idle" ELSE "reserve"
  /\ UNCHANGED <<sharedVars, plan, reserved, todo, changes, bindings, refreshVars, readerVars, history>>

ReserveTarget ==
  /\ rpc = "reserve"
  /\ IF CanReserve(plan.base, plan.target)
     THEN /\ Reserve(plan.base, plan.target)
          /\ reserved' = NewReservation(plan.base, plan.target)
          /\ rpc' = IF plan.from = plan.to THEN "publish" ELSE "prepare"
     ELSE /\ rpc' = "idle"
          /\ UNCHANGED <<publisherVars, reserved>>
  /\ UNCHANGED <<states, tombstoneVars, store, selected, selections,
                 plan, todo, changes, bindings, refreshVars, readerVars, history>>

PrepareLifecycle ==
  /\ rpc = "prepare"
  /\ IF PrepareRefused(TransitionOf(plan))
     THEN /\ rpc' = "abort"
          /\ UNCHANGED <<states, todo>>
     ELSE /\ Prepare(TransitionOf(plan))
          /\ todo' = Touched(TransitionOf(plan))
          /\ rpc' = "invalidate"
  /\ UNCHANGED <<publisherVars, tombstoneVars, store, selected, selections,
                 plan, reserved, changes, bindings, refreshVars, readerVars, history>>

\* The invalidator: QueryCache.InvalidateResource for each touched resource.
Invalidate ==
  /\ rpc = "invalidate"
  /\ IF todo = {}
     THEN /\ rpc' = "apply"
          /\ changes' = Writes(plan) \cup Deletes(plan)
          /\ UNCHANGED <<tombstoneVars, todo>>
     ELSE /\ \E r \in todo : Tombstone(r) /\ todo' = todo \ {r}
          /\ UNCHANGED <<rpc, changes>>
  /\ UNCHANGED <<publisherVars, states, store, selected, selections,
                 plan, reserved, bindings, refreshVars, readerVars, history>>

\* Faulty variant: a batch with a duplicate write is dropped as a whole.
ApplyStrict(p, batch, tuples) ==
  IF batch \cap Writes(p) \cap tuples # {}
  THEN tuples
  ELSE (tuples \cup (batch \cap Writes(p))) \ (batch \cap Deletes(p))

(***************************************************************************)
(* ApplyTupleChanges: transactional batches, each applied whole, and none  *)
(* splits the changes of one authorization object.  A duplicate write or a *)
(* missing delete is ignored.                                              *)
(***************************************************************************)
Batches(tuples) ==
  {b \in (SUBSET tuples) \ {{}} : \A x \in b : TuplesOf(ResourceOf[x], tuples) \subseteq b}

Apply(p, batch, tuples) == (tuples \cup (batch \cap Writes(p))) \ (batch \cap Deletes(p))

InFlight(t) == pc[t] \in {"gate", "finish", "scope", "compare"}

ApplyBatch ==
  /\ rpc = "apply"
  /\ IF changes = {}
     THEN /\ rpc' = "commit"
          /\ UNCHANGED <<store, changes, history>>
     ELSE /\ \E batch \in Batches(changes) :
               /\ store' = Apply(plan, batch, store)
               /\ changes' = changes \ batch
               /\ torn' = (torn \ Touched(TransitionOf(plan))) \cup Bound(changes \ batch)
               /\ tried' = tried \cup {<<plan.from, plan.to>>}
               /\ moved' = [t \in Reader |->
                    IF InFlight(t)
                    THEN moved[t] \cup {r \in evidence[t] : TuplesOf(r, store') # TuplesOf(r, store)}
                    ELSE moved[t]]
          /\ UNCHANGED rpc
  /\ UNCHANGED <<publisherVars, states, tombstoneVars, selected, selections,
                 plan, reserved, todo, bindings, refreshVars, readerVars>>

CommitLifecycle ==
  /\ rpc = "commit"
  /\ IF CommitRefused(TransitionOf(plan))
     THEN rpc' = "abort" /\ UNCHANGED states
     ELSE rpc' = "publish" /\ Commit(TransitionOf(plan))
  /\ UNCHANGED <<publisherVars, tombstoneVars, store, selected, selections,
                 plan, reserved, todo, changes, bindings, refreshVars, readerVars, history>>

PublishTarget ==
  /\ rpc = "publish"
  /\ IF CanPublish(reserved)
     THEN /\ Publish(reserved)
          /\ bindings' = plan.to
          /\ rpc' = "idle"
          /\ reserved' = NoReservation
          /\ tried' = IF store = plan.to THEN {} ELSE tried
     ELSE /\ rpc' = "abort"
          /\ UNCHANGED <<publisherVars, bindings, reserved, tried>>
  /\ UNCHANGED <<states, tombstoneVars, store, selected, selections,
                 plan, todo, changes, refreshVars, readerVars, moved, torn>>

\* A cancelled context or a failed call, at any point after the reservation.
ReconcileFails ==
  /\ rpc \in {"prepare", "invalidate", "apply", "commit", "publish"}
  /\ rpc' = "abort"
  /\ UNCHANGED <<sharedVars, plan, reserved, todo, changes, bindings, refreshVars, readerVars, history>>

AbortReservation ==
  /\ rpc = "abort"
  /\ Abort(reserved)
  /\ rpc' = "idle"
  /\ reserved' = NoReservation
  /\ todo' = {}
  /\ changes' = {}
  /\ UNCHANGED <<states, tombstoneVars, store, selected, selections,
                 plan, bindings, refreshVars, readerVars, history>>

-----------------------------------------------------------------------------
(***************************************************************************)
(* Builds and checkouts select other artifacts (external to this module),  *)
(* and then call refreshScope.                                             *)
(***************************************************************************)
Select(s) ==
  /\ selections < MaxSelections
  /\ selections' = selections + 1
  /\ selected' = s
  /\ UNCHANGED <<publisherVars, states, tombstoneVars, store,
                 reconcileVars, refreshVars, readerVars, history>>

ScopeLocked == \E f \in Refresher : fpc[f] \in {"reserve", "publish"}

\* The provider is asked before scopeMu is taken.
ReadProvider(f) ==
  /\ fpc[f] = "idle"
  /\ nextReservation < MaxReservations
  /\ fpc' = [fpc EXCEPT ![f] = "lock"]
  /\ next' = [next EXCEPT ![f] = selected]
  /\ UNCHANGED <<sharedVars, reconcileVars, ticket, scope, readerVars, history>>

LockScope(f) ==
  /\ fpc[f] = "lock"
  /\ ~ScopeLocked
  /\ IF next[f] = scope
     THEN /\ fpc' = [fpc EXCEPT ![f] = "idle"]
          /\ UNCHANGED ticket
     ELSE /\ fpc' = [fpc EXCEPT ![f] = "reserve"]
          /\ ticket' = [ticket EXCEPT ![f] =
               [id |-> 0, expected |-> current,
                target |-> [acl |-> WatermarkOf[next[f]], epoch |-> current.epoch + 1]]]
  /\ UNCHANGED <<sharedVars, reconcileVars, next, scope, readerVars, history>>

RefreshReserve(f) ==
  /\ fpc[f] = "reserve"
  /\ IF CanReserve(ticket[f].expected, ticket[f].target)
     THEN /\ Reserve(ticket[f].expected, ticket[f].target)
          /\ ticket' = [ticket EXCEPT ![f] = NewReservation(@.expected, @.target)]
          /\ fpc' = [fpc EXCEPT ![f] = "publish"]
     ELSE /\ fpc' = [fpc EXCEPT ![f] = "idle"]
          /\ ticket' = [ticket EXCEPT ![f] = NoReservation]
          /\ UNCHANGED publisherVars
  /\ UNCHANGED <<states, tombstoneVars, store, selected, selections,
                 reconcileVars, next, scope, readerVars, history>>

\* Publish, or fail and abort; either way scopeMu is released.
RefreshPublish(f) ==
  /\ fpc[f] = "publish"
  /\ fpc' = [fpc EXCEPT ![f] = "idle"]
  /\ ticket' = [ticket EXCEPT ![f] = NoReservation]
  /\ \/ /\ CanPublish(ticket[f])
        /\ Publish(ticket[f])
        /\ scope' = next[f]
     \/ /\ Abort(ticket[f])
        /\ UNCHANGED scope
  /\ UNCHANGED <<states, tombstoneVars, store, selected, selections,
                 reconcileVars, next, readerVars, history>>

-----------------------------------------------------------------------------
(***************************************************************************)
(* A reader (Query, ReadDerivedArtifact, AuthorizeProtectedContent): begin,*)
(* the service call, finish.  verifyCurrentScope asks the provider first   *)
(* and reads the bound scope second.                                       *)
(***************************************************************************)
Continue(t, label) ==
  /\ pc' = [pc EXCEPT ![t] = label]
  /\ UNCHANGED <<evidence, unchecked, revision, moved>>

\* The call returns: with its answer from "done", with an error from elsewhere.
Return(t) ==
  /\ pc' = [pc EXCEPT ![t] = "idle"]
  /\ evidence' = [evidence EXCEPT ![t] = {}]
  /\ unchecked' = [unchecked EXCEPT ![t] = {}]
  /\ revision' = [revision EXCEPT ![t] = NoRevision]
  /\ moved' = [moved EXCEPT ![t] = {}]

\* What every step of a reader leaves alone.
ReaderFrame == UNCHANGED <<sharedVars, reconcileVars, refreshVars, torn, tried>>

ReadSelected(t) ==
  /\ pc[t] \in {"idle", "finish"}
  /\ seen' = [seen EXCEPT ![t] = selected]
  /\ Continue(t, IF pc[t] = "idle" THEN "begin" ELSE "scope")
  /\ ReaderFrame

VerifyScope(t) ==
  /\ pc[t] \in {"begin", "scope"}
  /\ ~ScopeLocked
  /\ IF seen[t] = scope
     THEN Continue(t, IF pc[t] = "begin" THEN "current" ELSE "compare")
     ELSE Return(t)
  /\ UNCHANGED seen
  /\ ReaderFrame

(***************************************************************************)
(* begin requires the current revision to have the watermark of the        *)
(* authorization context.  The context is older than the call and may have *)
(* any watermark, so the comparison may go either way.                     *)
(***************************************************************************)
BeginCurrent(t) ==
  /\ pc[t] = "current"
  /\ \/ Return(t)
     \/ /\ pc' = [pc EXCEPT ![t] = "read"]
        /\ revision' = [revision EXCEPT ![t] = current]
        /\ UNCHANGED <<evidence, unchecked, moved>>
  /\ UNCHANGED seen
  /\ ReaderFrame

(***************************************************************************)
(* The service call, seen from here: its final check finds evidence that   *)
(* may be viewed, and its cache gate admits the evidence or fails the call.*)
(* Module AuthorizedQuery has the detail.                                  *)
(***************************************************************************)
CheckEvidence(t) ==
  /\ pc[t] = "read"
  /\ \/ Return(t)
     \/ /\ pc' = [pc EXCEPT ![t] = "gate"]
        /\ \E found \in (SUBSET CanView) \ {{}} : evidence' = [evidence EXCEPT ![t] = found]
        /\ UNCHANGED <<unchecked, revision, moved>>
  /\ UNCHANGED seen
  /\ ReaderFrame

CacheGate(t) ==
  /\ pc[t] = "gate"
  /\ IF Admits(evidence[t]) THEN Continue(t, "finish") ELSE Return(t)
  /\ UNCHANGED seen
  /\ ReaderFrame

FinishCurrent(t) ==
  /\ pc[t] = "compare"
  /\ IF current = revision[t]
     THEN /\ pc' = [pc EXCEPT ![t] = "allows"]
          /\ unchecked' = [unchecked EXCEPT ![t] = evidence[t]]
          /\ UNCHANGED <<evidence, revision, moved>>
     ELSE Return(t)
  /\ UNCHANGED seen
  /\ ReaderFrame

\* Faulty variant: the first resource that is allowed lets the others through.
FinishAllowsOne(t) ==
  /\ pc[t] = "allows"
  /\ \/ unchecked[t] = {} /\ Continue(t, "done")
     \/ \E r \in unchecked[t] :
          IF Allows(revision[t], r)
          THEN /\ unchecked' = [unchecked EXCEPT ![t] = {}]
               /\ UNCHANGED <<pc, evidence, revision, moved>>
          ELSE Return(t)
  /\ UNCHANGED seen
  /\ ReaderFrame

FinishAllows(t) ==
  /\ pc[t] = "allows"
  /\ \/ unchecked[t] = {} /\ Continue(t, "done")
     \/ \E r \in unchecked[t] :
          IF Allows(revision[t], r)
          THEN /\ unchecked' = [unchecked EXCEPT ![t] = @ \ {r}]
               /\ UNCHANGED <<pc, evidence, revision, moved>>
          ELSE Return(t)
  /\ UNCHANGED seen
  /\ ReaderFrame

Returned(t) ==
  /\ pc[t] = "done"
  /\ Return(t)
  /\ UNCHANGED seen
  /\ ReaderFrame

-----------------------------------------------------------------------------
BoundedRevision == [acl : Watermark, epoch : 1 .. MaxEpoch]

Plannable ==
  {plan} \cup [from : {bindings}, to : SUBSET Tuple, base : {current}, target : BoundedRevision]

ReconcileStep ==
  \/ \E p \in Plannable : Submit(p)
  \/ CheckBase \/ ReserveTarget \/ PrepareLifecycle \/ Invalidate \/ ApplyBatch
  \/ CommitLifecycle \/ PublishTarget \/ ReconcileFails \/ AbortReservation

RefreshStep(f) == ReadProvider(f) \/ LockScope(f) \/ RefreshReserve(f) \/ RefreshPublish(f)

ReaderStep(t) ==
  \/ ReadSelected(t) \/ VerifyScope(t) \/ BeginCurrent(t) \/ CheckEvidence(t)
  \/ CacheGate(t) \/ FinishCurrent(t) \/ FinishAllows(t) \/ Returned(t)

\* With every call returned and the bounds reached, the program waits.
AtRest ==
  /\ rpc = "idle"
  /\ \A f \in Refresher : fpc[f] = "idle"
  /\ \A t \in Reader : pc[t] = "idle"
  /\ UNCHANGED vars

Next ==
  \/ AtRest
  \/ ReconcileStep
  \/ \E s \in Scope : Select(s)
  \/ \E f \in Refresher : RefreshStep(f)
  \/ \E t \in Reader : ReaderStep(t)

Spec == Init /\ [][Next]_vars

-----------------------------------------------------------------------------
(***************************************************************************)
(* What finish certifies: for every piece of evidence of an answer, the    *)
(* tuples its authorization rests on did not change between the final      *)
(* check and the moment finish compared revisions.  The check was therefore*)
(* still true then, of all the evidence at once, although finish asks the  *)
(* lifecycle about one resource after the other, later.                    *)
(***************************************************************************)
FinishSound == \A t \in Reader : pc[t] = "done" => evidence[t] \cap moved[t] = {}

(***************************************************************************)
(* A resource that a reconciliation is changing, or that a failed one left *)
(* half changed, is closed to every holder of the published revision.      *)
(***************************************************************************)
Changing == IF rpc \in {"invalidate", "apply", "commit", "publish"}
            THEN Touched(TransitionOf(plan)) ELSE {}

HalfDoneIsClosed == \A r \in torn \cup Changing : ~Allows(current, r)

(***************************************************************************)
(* Retrying a partial reconciliation converges (openfga_write.go): if the  *)
(* store was only touched by attempts of this plan, then when the plan is  *)
(* published the store holds the desired projection and nothing else.      *)
(***************************************************************************)
RetryConverges ==
  rpc = "publish" /\ tried \subseteq {<<plan.from, plan.to>>} => store = plan.to

(***************************************************************************)
(* Whoever holds a reservation can publish it: the reconciler and the      *)
(* scope refresh never lose the compare and swap to each other.            *)
(***************************************************************************)
PublishNeverLost ==
  /\ rpc = "publish" => CanPublish(reserved)
  /\ \A f \in Refresher : fpc[f] = "publish" => CanPublish(ticket[f])

(***************************************************************************)
(* A grant that was committed and published can be used: what the          *)
(* lifecycle allows at the published revision, the cache gate admits.      *)
(***************************************************************************)
CommittedGrantUsable ==
  \A x \in bindings : rpc = "idle" /\ tried = {} /\ Known(ResourceOf[x])
    /\ Allows(current, ResourceOf[x]) => Admits({ResourceOf[x]})

-----------------------------------------------------------------------------
(***************************************************************************)
(* Why the properties above hold: an inductive strengthening, in parts.    *)
(* One attempt at a time holds the publisher, and the revision does not    *)
(* move under it.                                                          *)
(***************************************************************************)
Holding == {"prepare", "invalidate", "apply", "commit", "publish", "abort"}

Exclusive ==
  /\ rpc \in Holding =>
       /\ pending = {reserved}
       /\ current = plan.base /\ reserved.expected = plan.base /\ reserved.target = plan.target
       /\ Advances(plan.base, plan.target)
       /\ \A f \in Refresher : fpc[f] # "publish"
  /\ \A f \in Refresher : fpc[f] = "publish" =>
       /\ pending = {ticket[f]}
       /\ current = ticket[f].expected
       /\ Advances(ticket[f].expected, ticket[f].target)
  /\ \A f, g \in Refresher :
       fpc[f] \in {"reserve", "publish"} /\ fpc[g] \in {"reserve", "publish"} => f = g

\* What is being changed, or was left half changed, carries the target and is blocked.
GateClosed ==
  /\ rpc \in {"invalidate", "apply", "commit"} =>
       \A r \in Touched(TransitionOf(plan)) : states[r].revision = plan.target /\ states[r].blocked
  /\ rpc = "publish" => \A r \in Touched(TransitionOf(plan)) : states[r].revision = plan.target
  /\ rpc = "apply" =>
       /\ changes \subseteq Writes(plan) \cup Deletes(plan)
       /\ torn \cap Touched(TransitionOf(plan)) \subseteq Bound(changes)
  /\ rpc = "commit" => torn \cap Touched(TransitionOf(plan)) = {}
  /\ \A r \in torn : Known(r) /\ states[r].blocked

\* Evidence that moved under a reader is known to the lifecycle at a later epoch.
MovedIsNewer ==
  \A t \in Reader :
    /\ pc[t] \notin {"idle", "begin", "current"} => revision[t].epoch <= current.epoch
    /\ pc[t] \in {"idle", "begin", "current", "read"} => moved[t] = {}
    /\ \A r \in moved[t] : states[r].revision.epoch > revision[t].epoch
    /\ pc[t] \in {"allows", "done"} => evidence[t] \cap moved[t] \subseteq unchecked[t]
    /\ pc[t] = "done" => unchecked[t] = {}

\* How far the store is from the projection that was reconciled last.
Between(p, tuples) == p[1] \cap p[2] \subseteq tuples /\ tuples \subseteq p[1] \cup p[2]

Progress ==
  LET mine == tried \subseteq {<<plan.from, plan.to>>}
  IN  /\ plan.base.epoch <= current.epoch
      /\ plan.base = current => plan.from = bindings
      /\ tried = {} => store = bindings
      /\ \A p \in tried : tried = {p} => Between(p, store)
      /\ rpc = "apply" /\ mine =>
           /\ Writes(plan) \ changes \subseteq store
           /\ (Deletes(plan) \ changes) \cap store = {}
      /\ rpc \in {"commit", "publish"} /\ mine => store = plan.to

(***************************************************************************)
(* The inductive invariant: safe by induction over Next for every number   *)
(* of readers, refreshers, tuples, resources and epochs.                   *)
(***************************************************************************)
Inductive == TypeOK /\ Exclusive /\ GateClosed /\ MovedIsNewer /\ Progress

=============================================================================
