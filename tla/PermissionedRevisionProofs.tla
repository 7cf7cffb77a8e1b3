---------------------- MODULE PermissionedRevisionProofs ----------------------
(***************************************************************************)
(* Proofs about PermissionedRevision, for every value of its constants:    *)
(* its invariants follow from Inductive, which every step preserves.       *)
(***************************************************************************)
EXTENDS PermissionedRevision, TLAPS

-----------------------------------------------------------------------------
(***************************************************************************)
(* Type correctness.                                                       *)
(***************************************************************************)
LEMMA NoRevisionType == NoRevision \in Revision /\ NoReservation \in Reservation
  BY RevisionPublisherAssumption DEF NoRevision, NoReservation, Revision, Reservation

LEMMA InitType == Init => TypeOK
  <1> SUFFICES ASSUME Init PROVE TypeOK
    OBVIOUS
  <1>1. current \in Revision
    BY DEF Init, PublisherInit, Revision
  <1>2. PublisherTypeOK
    BY <1>1 DEF Init, PublisherInit, PublisherTypeOK
  <1>3. LifecycleTypeOK
    BY NoRevisionType DEF Init, LifecycleInit, LifecycleTypeOK, Unknown, State
  <1>4. TombstonesTypeOK
    BY DEF Init, TombstonesInit, TombstonesTypeOK
  <1>5. plan \in Plan
    BY <1>1 DEF Init, Plan
  <1> QED
    BY <1>2, <1>3, <1>4, <1>5, NoRevisionType, PermissionedRevisionAssumption
    DEF Init, TypeOK, ReconcilePC, RefreshPC, ReaderPC

\* The targets of the two kinds of reservation are revisions.
LEMMA NewReservationType ==
  ASSUME nextReservation \in Nat, NEW expected \in Revision, NEW target \in Revision
  PROVE  NewReservation(expected, target) \in Reservation
  BY DEF NewReservation, Reservation

LEMMA PlannableType ==
  ASSUME TypeOK, NEW p \in Plannable
  PROVE  p \in Plan
  BY DEF TypeOK, PublisherTypeOK, Plannable, BoundedRevision, Revision, Plan

LEMMA TombstoneType ==
  ASSUME TombstonesTypeOK, NEW r \in Resource, Tombstone(r)
  PROVE  TombstonesTypeOK'
  BY DEF TombstonesTypeOK, Tombstone

LEMMA TransitionType ==
  ASSUME NEW p \in Plan
  PROVE  /\ TransitionOf(p) \in Transition
         /\ Touched(TransitionOf(p)) \subseteq Resource
  BY PermissionedRevisionAssumption DEF Plan, TransitionOf, Transition, Touched, Bound, Writes, Deletes

LEMMA ReconcileType ==
  ASSUME TypeOK, ReconcileStep
  PROVE  TypeOK'
  <1> USE DEF TypeOK, PublisherTypeOK, LifecycleTypeOK, TombstonesTypeOK, sharedVars, reconcileVars,
              refreshVars, readerVars, history, publisherVars, tombstoneVars
  <1> DEFINE T == TransitionOf(plan)
  <1>0. T \in Transition /\ Touched(T) \subseteq Resource
    BY TransitionType
  <1>1. ASSUME NEW p \in Plannable, Submit(p) PROVE TypeOK'
    BY <1>1, PlannableType DEF Submit, ReconcilePC
  <1>2. CASE CheckBase
    BY <1>2 DEF CheckBase, ReconcilePC
  <1>3. CASE ReserveTarget
    <2>1. NewReservation(plan.base, plan.target) \in Reservation
      BY NewReservationType DEF Plan
    <2> QED
      BY <1>3, <2>1 DEF ReserveTarget, Reserve, ReconcilePC
  <1>4. CASE PrepareLifecycle
    <2>1. Prepare(T) => states' \in [Resource -> State]
      BY <1>0 DEF Prepare, State, Transition
    <2> QED
      BY <1>0, <1>4, <2>1 DEF PrepareLifecycle, ReconcilePC
  <1>5. CASE Invalidate
    <2>1. TombstonesTypeOK'
      BY <1>5, TombstoneType DEF Invalidate
    <2>2. todo' \in SUBSET Resource /\ changes' \in SUBSET Tuple /\ rpc' \in ReconcilePC
      BY <1>5 DEF Invalidate, Writes, Deletes, Plan, ReconcilePC
    <2> QED
      BY <1>5, <2>1, <2>2 DEF Invalidate
  <1>6. CASE ApplyBatch
    <2>1. changes' \in SUBSET Tuple /\ store' \in SUBSET Tuple /\ rpc' \in ReconcilePC
      BY <1>6 DEF ApplyBatch, Apply, Writes, Deletes, Plan, history, ReconcilePC
    <2>2. torn' \in SUBSET Resource
      BY <1>6, <2>1, PermissionedRevisionAssumption DEF ApplyBatch, Bound, history
    <2>3. tried' \in SUBSET ((SUBSET Tuple) \X (SUBSET Tuple))
      <3>1. <<plan.from, plan.to>> \in (SUBSET Tuple) \X (SUBSET Tuple)
        BY DEF Plan
      <3>2. tried' = tried \/ tried' = tried \cup {<<plan.from, plan.to>>}
        BY <1>6 DEF ApplyBatch, history
      <3> QED
        BY <3>1, <3>2
    <2>4. moved' \in [Reader -> SUBSET Resource]
      <3>1. CASE changes = {}
        BY <1>6, <3>1 DEF ApplyBatch, history
      <3>2. CASE changes # {}
        <4> DEFINE Moved(t) == {r \in evidence[t] : TuplesOf(r, store') # TuplesOf(r, store)}
        <4>1. moved' = [t \in Reader |-> IF InFlight(t) THEN moved[t] \cup Moved(t) ELSE moved[t]]
          BY <1>6, <3>2 DEF ApplyBatch
        <4>2. \A t \in Reader : Moved(t) \in SUBSET Resource
          OBVIOUS
        <4> HIDE DEF Moved
        <4> QED
          BY <4>1, <4>2
      <3> QED
        BY <3>1, <3>2
    <2> QED
      BY <1>6, <2>1, <2>2, <2>3, <2>4 DEF ApplyBatch
  <1>7. CASE CommitLifecycle
    <2>1. Commit(T) => states' \in [Resource -> State]
      BY DEF Commit, State
    <2> QED
      BY <1>7, <2>1 DEF CommitLifecycle, ReconcilePC
  <1>8. CASE PublishTarget
    <2>1. CASE CanPublish(reserved)
      BY <1>8, <2>1, NoRevisionType DEF PublishTarget, Publish, Reservation, Plan, ReconcilePC
    <2>2. CASE ~CanPublish(reserved)
      BY <1>8, <2>2 DEF PublishTarget, ReconcilePC
    <2> QED
      BY <2>1, <2>2
  <1>9. CASE ReconcileFails
    BY <1>9 DEF ReconcileFails, ReconcilePC
  <1>10. CASE AbortReservation
    BY <1>10, NoRevisionType DEF AbortReservation, Abort, ReconcilePC
  <1> QED
    BY <1>1, <1>2, <1>3, <1>4, <1>5, <1>6, <1>7, <1>8, <1>9, <1>10 DEF ReconcileStep

LEMMA RefreshType ==
  ASSUME TypeOK, NEW f \in Refresher, RefreshStep(f)
  PROVE  TypeOK'
  <1> USE DEF TypeOK, PublisherTypeOK, LifecycleTypeOK, TombstonesTypeOK, sharedVars, reconcileVars,
              readerVars, history, publisherVars, tombstoneVars
  <1>1. CASE ReadProvider(f)
    BY <1>1 DEF ReadProvider, RefreshPC
  <1>2. CASE LockScope(f)
    <2> DEFINE target == [acl |-> WatermarkOf[next[f]], epoch |-> current.epoch + 1]
    <2>1. [id |-> 0, expected |-> current, target |-> target] \in Reservation
      BY PermissionedRevisionAssumption DEF Reservation, Revision
    <2> QED
      BY <1>2, <2>1 DEF LockScope, RefreshPC
  <1>3. CASE RefreshReserve(f)
    <2>1. NewReservation(ticket[f].expected, ticket[f].target) \in Reservation
      BY NewReservationType DEF Reservation
    <2> QED
      BY <1>3, <2>1, NoRevisionType DEF RefreshReserve, Reserve, RefreshPC
  <1>4. CASE RefreshPublish(f)
    BY <1>4, NoRevisionType DEF RefreshPublish, Publish, Abort, Reservation, RefreshPC
  <1> QED
    BY <1>1, <1>2, <1>3, <1>4 DEF RefreshStep

LEMMA ReaderType ==
  ASSUME TypeOK, NEW t \in Reader, ReaderStep(t)
  PROVE  TypeOK'
  <1> USE NoRevisionType
      DEF TypeOK, PublisherTypeOK, LifecycleTypeOK, TombstonesTypeOK, sharedVars, reconcileVars,
          refreshVars, publisherVars, tombstoneVars, ReaderFrame, Continue, Return, ReaderPC
  <1>1. CASE ReadSelected(t)
    BY <1>1 DEF ReadSelected
  <1>2. CASE VerifyScope(t)
    BY <1>2 DEF VerifyScope
  <1>3. CASE BeginCurrent(t)
    BY <1>3 DEF BeginCurrent
  <1>4. CASE CheckEvidence(t)
    BY <1>4 DEF CheckEvidence, CanView
  <1>5. CASE CacheGate(t)
    BY <1>5 DEF CacheGate
  <1>6. CASE FinishCurrent(t)
    BY <1>6 DEF FinishCurrent
  <1>7. CASE FinishAllows(t)
    BY <1>7 DEF FinishAllows
  <1>8. CASE Returned(t)
    BY <1>8 DEF Returned
  <1> QED
    BY <1>1, <1>2, <1>3, <1>4, <1>5, <1>6, <1>7, <1>8 DEF ReaderStep

LEMMA TypeStep == TypeOK /\ [Next]_vars => TypeOK'
  <1> SUFFICES ASSUME TypeOK, [Next]_vars PROVE TypeOK'
    OBVIOUS
  <1>1. ASSUME NEW s \in Scope, Select(s) PROVE TypeOK'
    BY <1>1, PermissionedRevisionAssumption
    DEF Select, TypeOK, PublisherTypeOK, LifecycleTypeOK, TombstonesTypeOK, reconcileVars,
        refreshVars, readerVars, history, publisherVars, tombstoneVars
  <1>2. CASE UNCHANGED vars
    BY <1>2 DEF vars, TypeOK, PublisherTypeOK, LifecycleTypeOK, TombstonesTypeOK, sharedVars,
                reconcileVars, refreshVars, readerVars, history, publisherVars, tombstoneVars
  <1> QED
    BY <1>1, <1>2, ReconcileType, RefreshType, ReaderType DEF Next, AtRest

(***************************************************************************)
(* The state of the reconciler, the publisher, the lifecycle and the       *)
(* readers stays in its types.                                             *)
(***************************************************************************)
THEOREM TypeCorrect == Spec => []TypeOK
  BY InitType, TypeStep, PTL DEF Spec

-----------------------------------------------------------------------------
(***************************************************************************)
(* One attempt at a time: a reservation is only made when none is pending, *)
(* and only its holder ends it.                                            *)
(***************************************************************************)
LEMMA InitExclusive == Init => Exclusive
  BY DEF Init, Exclusive, Holding

LEMMA ReconcileExclusive ==
  ASSUME TypeOK, Exclusive, ReconcileStep
  PROVE  Exclusive'
  <1> USE DEF Exclusive, Holding, sharedVars, publisherVars, refreshVars
  <1>1. ASSUME NEW p \in Plannable, Submit(p) PROVE Exclusive'
    BY <1>1 DEF Submit
  <1>2. CASE CheckBase
    BY <1>2 DEF CheckBase
  <1>3. CASE ReserveTarget
    <2>1. CASE CanReserve(plan.base, plan.target)
      <3>1. \A f \in Refresher : fpc[f] # "publish"
        BY <2>1 DEF CanReserve
      <3> QED
        BY <1>3, <2>1, <3>1 DEF ReserveTarget, CanReserve, Reserve, NewReservation
    <2>2. CASE ~CanReserve(plan.base, plan.target)
      BY <1>3, <2>2 DEF ReserveTarget
    <2> QED
      BY <2>1, <2>2
  <1>4. CASE PrepareLifecycle
    BY <1>4 DEF PrepareLifecycle
  <1>5. CASE Invalidate
    BY <1>5 DEF Invalidate
  <1>6. CASE ApplyBatch
    BY <1>6 DEF ApplyBatch
  <1>7. CASE CommitLifecycle
    BY <1>7 DEF CommitLifecycle
  <1>8. CASE PublishTarget
    BY <1>8 DEF PublishTarget, Publish
  <1>9. CASE ReconcileFails
    BY <1>9 DEF ReconcileFails
  <1>10. CASE AbortReservation
    BY <1>10 DEF AbortReservation, Abort
  <1> QED
    BY <1>1, <1>2, <1>3, <1>4, <1>5, <1>6, <1>7, <1>8, <1>9, <1>10 DEF ReconcileStep

LEMMA RefreshExclusive ==
  ASSUME TypeOK, Exclusive, NEW f \in Refresher, RefreshStep(f)
  PROVE  Exclusive'
  <1> USE DEF TypeOK, Exclusive, Holding, sharedVars, publisherVars, reconcileVars
  <1>1. CASE ReadProvider(f)
    BY <1>1 DEF ReadProvider
  <1>2. CASE LockScope(f)
    BY <1>2 DEF LockScope, ScopeLocked
  <1>3. CASE RefreshReserve(f)
    <2>1. CASE CanReserve(ticket[f].expected, ticket[f].target)
      <3>1. rpc \notin Holding /\ \A g \in Refresher : fpc[g] # "publish"
        BY <2>1 DEF CanReserve
      <3> QED
        BY <1>3, <2>1, <3>1 DEF RefreshReserve, CanReserve, Reserve, NewReservation
    <2>2. CASE ~CanReserve(ticket[f].expected, ticket[f].target)
      BY <1>3, <2>2 DEF RefreshReserve
    <2> QED
      BY <2>1, <2>2
  <1>4. CASE RefreshPublish(f)
    BY <1>4 DEF RefreshPublish, Publish, Abort
  <1> QED
    BY <1>1, <1>2, <1>3, <1>4 DEF RefreshStep

LEMMA ReaderFrames ==
  ASSUME NEW t \in Reader, ReaderStep(t)
  PROVE  UNCHANGED <<sharedVars, reconcileVars, refreshVars, torn, tried>>
  BY DEF ReaderStep, ReadSelected, VerifyScope, BeginCurrent, CheckEvidence, CacheGate,
         FinishCurrent, FinishAllows, Returned, ReaderFrame

LEMMA ExclusiveStep == TypeOK /\ Exclusive /\ [Next]_vars => Exclusive'
  <1> SUFFICES ASSUME TypeOK, Exclusive, [Next]_vars PROVE Exclusive'
    OBVIOUS
  <1>1. ASSUME NEW s \in Scope, Select(s) PROVE Exclusive'
    BY <1>1 DEF Select, Exclusive, publisherVars, reconcileVars, refreshVars
  <1>2. ASSUME NEW t \in Reader, ReaderStep(t) PROVE Exclusive'
    BY <1>2, ReaderFrames DEF Exclusive, sharedVars, publisherVars, reconcileVars, refreshVars
  <1>3. CASE UNCHANGED vars
    BY <1>3 DEF vars, Exclusive, sharedVars, publisherVars, reconcileVars, refreshVars
  <1> QED
    BY <1>1, <1>2, <1>3, ReconcileExclusive, RefreshExclusive DEF Next, AtRest

(***************************************************************************)
(* Whoever holds a reservation can publish it: reconciliations and scope   *)
(* refreshes never lose the compare and swap to each other.                *)
(***************************************************************************)
THEOREM NeverLost == Spec => []PublishNeverLost
  <1>1. TypeOK /\ Exclusive => PublishNeverLost
    BY DEF TypeOK, Exclusive, Holding, PublishNeverLost, CanPublish
  <1> QED
    BY <1>1, InitType, InitExclusive, TypeStep, ExclusiveStep, PTL DEF Spec

-----------------------------------------------------------------------------
(***************************************************************************)
(* The gate: Prepare closes what a plan touches before the store changes,  *)
(* and Commit opens it only when the whole plan was applied.               *)
(***************************************************************************)
LEMMA InitGate == Init => GateClosed
  BY DEF Init, GateClosed

LEMMA TouchedBound ==
  ASSUME NEW p \in Plan
  PROVE  Touched(TransitionOf(p)) = Bound(Writes(p) \cup Deletes(p))
  BY DEF Touched, TransitionOf, Bound

LEMMA ReconcileGate ==
  ASSUME TypeOK, Exclusive, GateClosed, ReconcileStep
  PROVE  GateClosed'
  <1> DEFINE T == TransitionOf(plan)
  <1> USE DEF GateClosed, sharedVars, history, Known
  <1>0. Touched(T) \subseteq Resource /\ T.granted \subseteq Touched(T) /\ T.target = plan.target
    BY TransitionType DEF TypeOK, TransitionOf, Touched
  <1>1. ASSUME NEW p \in Plannable, Submit(p) PROVE GateClosed'
    BY <1>1 DEF Submit
  <1>2. CASE CheckBase
    BY <1>2 DEF CheckBase
  <1>3. CASE ReserveTarget
    <2>1. plan.from = plan.to => Touched(T) = {}
      BY DEF Touched, TransitionOf, Writes, Deletes, Bound
    <2> QED
      BY <1>3, <2>1 DEF ReserveTarget
  <1>4. CASE PrepareLifecycle
    <2>1. CASE PrepareRefused(T)
      BY <1>4, <2>1 DEF PrepareLifecycle
    <2>2. CASE ~PrepareRefused(T)
      <3>1. \A r \in Touched(T) : states'[r].revision = plan.target /\ states'[r].blocked
        BY <1>0, <1>4, <2>2 DEF PrepareLifecycle, Prepare
      <3>2. plan.target.epoch > 0
        BY <1>4 DEF PrepareLifecycle, TypeOK, Exclusive, Holding, Advances, Plan, Revision
      <3>3. ASSUME NEW r \in torn PROVE states'[r].revision.epoch > 0 /\ states'[r].blocked
        <4>1. CASE r \in Touched(T)
          BY <3>1, <3>2, <4>1
        <4>2. CASE r \notin Touched(T)
          BY <1>4, <2>2, <4>2 DEF PrepareLifecycle, Prepare, TypeOK
        <4> QED
          BY <4>1, <4>2
      <3> QED
        BY <1>4, <2>2, <3>1, <3>3 DEF PrepareLifecycle
    <2> QED
      BY <2>1, <2>2
  <1>5. CASE Invalidate
    <2>1. CASE todo = {}
      <3>1. Bound(Writes(plan) \cup Deletes(plan)) = Touched(T)
        BY TouchedBound DEF TypeOK
      <3> QED
        BY <1>5, <2>1, <3>1 DEF Invalidate
    <2>2. CASE todo # {}
      BY <1>5, <2>2 DEF Invalidate
    <2> QED
      BY <2>1, <2>2
  <1>6. CASE ApplyBatch
    <2>1. CASE changes = {}
      BY <1>6, <2>1 DEF ApplyBatch, Bound
    <2>2. CASE changes # {}
      <3>1. PICK batch \in Batches(changes) :
              /\ changes' = changes \ batch
              /\ torn' = (torn \ Touched(T)) \cup Bound(changes \ batch)
        BY <1>6, <2>2 DEF ApplyBatch
      <3>2. Bound(changes \ batch) \subseteq Touched(T)
        BY <1>6, TouchedBound DEF ApplyBatch, TypeOK, Bound
      <3>3. plan.target.epoch > 0
        BY <1>6 DEF ApplyBatch, TypeOK, Exclusive, Holding, Advances, Plan, Revision
      <3>4. \A r \in torn' : states[r].revision.epoch > 0 /\ states[r].blocked
        BY <1>6, <3>1, <3>2, <3>3 DEF ApplyBatch
      <3> QED
        BY <1>6, <2>2, <3>1, <3>2, <3>4 DEF ApplyBatch
    <2> QED
      BY <2>1, <2>2
  <1>7. CASE CommitLifecycle
    <2>1. CASE CommitRefused(T)
      BY <1>7, <2>1 DEF CommitLifecycle
    <2>2. CASE ~CommitRefused(T)
      <3>1. \A r \in Resource : states'[r].revision = states[r].revision
        BY <1>7, <2>2 DEF CommitLifecycle, Commit
      <3>2. \A r \in Resource \ Touched(T) : states'[r] = states[r]
        BY <1>0, <1>7, <2>2 DEF CommitLifecycle, Commit
      <3>3. torn \subseteq Resource /\ torn \cap Touched(T) = {}
        BY <1>7 DEF CommitLifecycle, TypeOK
      <3> QED
        BY <1>0, <1>7, <2>2, <3>1, <3>2, <3>3 DEF CommitLifecycle
    <2> QED
      BY <2>1, <2>2
  <1>8. CASE PublishTarget
    BY <1>8 DEF PublishTarget
  <1>9. CASE ReconcileFails
    BY <1>9 DEF ReconcileFails
  <1>10. CASE AbortReservation
    BY <1>10 DEF AbortReservation
  <1> QED
    BY <1>1, <1>2, <1>3, <1>4, <1>5, <1>6, <1>7, <1>8, <1>9, <1>10 DEF ReconcileStep

LEMMA GateFrame ==
  ASSUME GateClosed, UNCHANGED <<states, reconcileVars, torn>>
  PROVE  GateClosed'
  BY DEF GateClosed, Known, reconcileVars

LEMMA RefreshFrames ==
  ASSUME NEW f \in Refresher, RefreshStep(f)
  PROVE  UNCHANGED <<states, store, reconcileVars, readerVars, history>>
  BY DEF RefreshStep, ReadProvider, LockScope, RefreshReserve, RefreshPublish, sharedVars

LEMMA GateStep == TypeOK /\ Exclusive /\ GateClosed /\ [Next]_vars => GateClosed'
  <1> SUFFICES ASSUME TypeOK, Exclusive, GateClosed, [Next]_vars PROVE GateClosed'
    OBVIOUS
  <1>1. ASSUME NEW s \in Scope, Select(s) PROVE GateClosed'
    BY <1>1, GateFrame DEF Select, history
  <1>2. ASSUME NEW t \in Reader, ReaderStep(t) PROVE GateClosed'
    BY <1>2, ReaderFrames, GateFrame DEF sharedVars
  <1>3. ASSUME NEW f \in Refresher, RefreshStep(f) PROVE GateClosed'
    BY <1>3, RefreshFrames, GateFrame DEF history
  <1>4. CASE UNCHANGED vars
    BY <1>4, GateFrame DEF vars, sharedVars, history
  <1> QED
    BY <1>1, <1>2, <1>3, <1>4, ReconcileGate DEF Next, AtRest

(***************************************************************************)
(* A resource being changed, or left half changed by a failed attempt, is  *)
(* closed to every holder of the published revision.                       *)
(***************************************************************************)
THEOREM HalfDoneClosed == Spec => []HalfDoneIsClosed
  <1>1. TypeOK /\ Exclusive /\ GateClosed => HalfDoneIsClosed
    <2> SUFFICES ASSUME TypeOK, Exclusive, GateClosed, NEW r \in torn \cup Changing
                 PROVE  ~Allows(current, r)
      BY DEF HalfDoneIsClosed
    <2>1. CASE r \in torn
      BY <2>1 DEF GateClosed, Allows
    <2>2. CASE r \in Changing
      <3>1. states[r].revision = plan.target
        BY <2>2 DEF Changing, GateClosed
      <3>2. current = plan.base /\ plan.target.epoch > current.epoch
        BY <2>2 DEF Changing, Exclusive, Holding, Advances
      <3> QED
        BY <3>1, <3>2 DEF Allows, Known, TypeOK, PublisherTypeOK, Plan, Revision
    <2> QED
      BY <2>1, <2>2
  <1> QED
    BY <1>1, InitType, InitExclusive, InitGate, TypeStep, ExclusiveStep, GateStep, PTL DEF Spec

-----------------------------------------------------------------------------
(***************************************************************************)
(* Readers: tuples only change under a target newer than the revision any  *)
(* reader in flight began with, so what moved is refused by Allows.        *)
(***************************************************************************)
LEMMA InitMoved == Init => MovedIsNewer
  BY DEF Init, MovedIsNewer

LEMMA UnmovedFrame ==
  ASSUME MovedIsNewer, UNCHANGED <<readerVars, moved>>,
         current'.epoch >= current.epoch, TypeOK, TypeOK',
         \A r \in Resource : states'[r].revision.epoch >= states[r].revision.epoch
  PROVE  MovedIsNewer'
  <1> SUFFICES ASSUME NEW t \in Reader,
                      pc[t] \notin {"idle", "begin", "current"} => revision[t].epoch <= current.epoch,
                      \A r \in moved[t] : states[r].revision.epoch > revision[t].epoch
               PROVE  /\ pc[t] \notin {"idle", "begin", "current"} => revision[t].epoch <= current'.epoch
                      /\ \A r \in moved[t] : states'[r].revision.epoch > revision[t].epoch
    BY DEF MovedIsNewer, readerVars
  <1>1. current.epoch \in Nat /\ current'.epoch \in Nat /\ revision[t].epoch \in Nat
    BY DEF TypeOK, PublisherTypeOK, Revision
  <1>2. \A r \in Resource : states[r].revision.epoch \in Nat /\ states'[r].revision.epoch \in Nat
    BY DEF TypeOK, LifecycleTypeOK, State, Revision
  <1>3. moved[t] \subseteq Resource
    BY DEF TypeOK
  <1> QED
    BY <1>1, <1>2, <1>3

LEMMA ReconcileMoved ==
  ASSUME TypeOK, TypeOK', Exclusive, GateClosed, MovedIsNewer, ReconcileStep
  PROVE  MovedIsNewer'
  <1> DEFINE T == TransitionOf(plan)
  <1> USE DEF sharedVars, publisherVars, history
  <1>0. ASSUME UNCHANGED <<current, states, readerVars, moved>> PROVE MovedIsNewer'
    BY <1>0 DEF MovedIsNewer, readerVars
  <1>1. ASSUME NEW p \in Plannable, Submit(p) PROVE MovedIsNewer'
    BY <1>0, <1>1 DEF Submit
  <1>2. CASE CheckBase
    BY <1>0, <1>2 DEF CheckBase
  <1>3. CASE ReserveTarget
    BY <1>0, <1>3 DEF ReserveTarget, Reserve
  <1>4. CASE PrepareLifecycle
    <2>1. ASSUME NEW r \in Resource PROVE states'[r].revision.epoch >= states[r].revision.epoch
      <3>1. CASE r \in Touched(T) /\ ~PrepareRefused(T)
        <4>1. states'[r].revision = plan.target
          BY <1>4, <3>1 DEF PrepareLifecycle, Prepare, TransitionOf
        <4>2. Known(r) => ~(states[r].revision.epoch > plan.target.epoch)
          BY <3>1 DEF PrepareRefused, TransitionOf
        <4> QED
          BY <4>1, <4>2 DEF Known, TypeOK, LifecycleTypeOK, State, Plan, Revision
      <3>2. CASE ~(r \in Touched(T) /\ ~PrepareRefused(T))
        <4>1. states'[r] = states[r]
          BY <1>4, <3>2 DEF PrepareLifecycle, Prepare
        <4> QED
          BY <4>1 DEF TypeOK, LifecycleTypeOK, State, Revision
      <3> QED
        BY <3>1, <3>2
    <2>2. current'.epoch >= current.epoch
      BY <1>4 DEF PrepareLifecycle, TypeOK, PublisherTypeOK, Revision
    <2> QED
      BY <1>4, <2>1, <2>2, UnmovedFrame DEF PrepareLifecycle
  <1>5. CASE Invalidate
    BY <1>0, <1>5 DEF Invalidate
  <1>6. CASE ApplyBatch
    <2>1. CASE changes = {}
      BY <1>0, <1>6, <2>1 DEF ApplyBatch
    <2>2. CASE changes # {}
      <3>1. PICK batch \in Batches(changes) :
              /\ store' = Apply(plan, batch, store)
              /\ moved' = [t \in Reader |->
                   IF InFlight(t)
                   THEN moved[t] \cup {r \in evidence[t] : TuplesOf(r, store') # TuplesOf(r, store)}
                   ELSE moved[t]]
        BY <1>6, <2>2 DEF ApplyBatch
      <3>2. ASSUME NEW r \in Resource, TuplesOf(r, store') # TuplesOf(r, store)
            PROVE  states[r].revision = plan.target
        <4>1. r \in Bound(Writes(plan) \cup Deletes(plan))
          BY <1>6, <3>1, <3>2 DEF ApplyBatch, Apply, TuplesOf, Bound, GateClosed
        <4> QED
          BY <1>6, <4>1, TouchedBound DEF ApplyBatch, GateClosed, TypeOK
      <3>3. ASSUME NEW t \in Reader PROVE
              /\ pc[t] \notin {"idle", "begin", "current"} => revision[t].epoch <= current.epoch
              /\ pc[t] \in {"idle", "begin", "current", "read"} => moved'[t] = {}
              /\ \A r \in moved'[t] : states[r].revision.epoch > revision[t].epoch
              /\ pc[t] \in {"allows", "done"} => evidence[t] \cap moved'[t] \subseteq unchecked[t]
              /\ pc[t] = "done" => unchecked[t] = {}
        <4>1. CASE InFlight(t)
          <5>1. revision[t].epoch <= current.epoch
            BY <4>1 DEF InFlight, MovedIsNewer
          <5>2. plan.target.epoch > revision[t].epoch
            BY <1>6, <5>1 DEF ApplyBatch, Exclusive, Holding, Advances, TypeOK, PublisherTypeOK, Plan, Revision
          <5>3. moved'[t] = moved[t] \cup {r \in evidence[t] : TuplesOf(r, store') # TuplesOf(r, store)}
            BY <3>1, <4>1
          <5>4. ASSUME NEW r \in moved'[t] PROVE states[r].revision.epoch > revision[t].epoch
            <6>1. CASE r \in moved[t]
              BY <6>1 DEF MovedIsNewer
            <6>2. CASE r \in evidence[t] /\ TuplesOf(r, store') # TuplesOf(r, store)
              BY <3>2, <5>2, <6>2 DEF TypeOK
            <6> QED
              BY <5>3, <5>4, <6>1, <6>2
          <5> QED
            BY <4>1, <5>1, <5>4 DEF InFlight
        <4>2. CASE ~InFlight(t)
          BY <3>1, <4>2 DEF MovedIsNewer
        <4> QED
          BY <4>1, <4>2
      <3> QED
        BY <1>6, <3>3 DEF ApplyBatch, MovedIsNewer, readerVars
    <2> QED
      BY <2>1, <2>2
  <1>7. CASE CommitLifecycle
    <2>1. \A r \in Resource : states'[r].revision = states[r].revision
      BY <1>7 DEF CommitLifecycle, Commit, TypeOK, LifecycleTypeOK
    <2>2. \A r \in Resource : states'[r].revision.epoch >= states[r].revision.epoch
      BY <2>1 DEF TypeOK, LifecycleTypeOK, State, Revision
    <2>3. current'.epoch >= current.epoch
      BY <1>7 DEF CommitLifecycle, TypeOK, PublisherTypeOK, Revision
    <2> QED
      BY <1>7, <2>2, <2>3, UnmovedFrame DEF CommitLifecycle
  <1>8. CASE PublishTarget
    <2>1. current'.epoch >= current.epoch
      BY <1>8 DEF PublishTarget, Publish, Exclusive, Holding, Advances, TypeOK, PublisherTypeOK, Plan, Revision
    <2>2. \A r \in Resource : states'[r].revision.epoch >= states[r].revision.epoch
      BY <1>8 DEF PublishTarget, TypeOK, LifecycleTypeOK, State, Revision
    <2> QED
      BY <1>8, <2>1, <2>2, UnmovedFrame DEF PublishTarget
  <1>9. CASE ReconcileFails
    BY <1>0, <1>9 DEF ReconcileFails
  <1>10. CASE AbortReservation
    BY <1>0, <1>10 DEF AbortReservation, Abort
  <1> QED
    BY <1>1, <1>2, <1>3, <1>4, <1>5, <1>6, <1>7, <1>8, <1>9, <1>10 DEF ReconcileStep

LEMMA RefreshMoved ==
  ASSUME TypeOK, TypeOK', Exclusive, MovedIsNewer, NEW f \in Refresher, RefreshStep(f)
  PROVE  MovedIsNewer'
  <1>1. current'.epoch >= current.epoch
    <2>1. CASE RefreshPublish(f)
      BY <2>1 DEF RefreshPublish, Publish, Abort, Exclusive, Advances, TypeOK, PublisherTypeOK, Reservation, Revision
    <2>2. CASE ReadProvider(f) \/ LockScope(f) \/ RefreshReserve(f)
      BY <2>2 DEF ReadProvider, LockScope, RefreshReserve, Reserve, sharedVars, publisherVars,
                  TypeOK, PublisherTypeOK, Revision
    <2> QED
      BY <2>1, <2>2 DEF RefreshStep
  <1>2. \A r \in Resource : states'[r].revision.epoch >= states[r].revision.epoch
    BY RefreshFrames DEF TypeOK, LifecycleTypeOK, State, Revision
  <1> QED
    BY <1>1, <1>2, RefreshFrames, UnmovedFrame DEF history

LEMMA ReaderMoved ==
  ASSUME TypeOK, MovedIsNewer, NEW t \in Reader, ReaderStep(t)
  PROVE  MovedIsNewer'
  <1> USE DEF MovedIsNewer, TypeOK, ReaderFrame, sharedVars, publisherVars, Continue, Return
  <1>1. CASE ReadSelected(t)
    BY <1>1 DEF ReadSelected
  <1>2. CASE VerifyScope(t)
    BY <1>2 DEF VerifyScope
  <1>3. CASE BeginCurrent(t)
    BY <1>3 DEF BeginCurrent, PublisherTypeOK, Revision
  <1>4. CASE CheckEvidence(t)
    BY <1>4 DEF CheckEvidence
  <1>5. CASE CacheGate(t)
    BY <1>5 DEF CacheGate
  <1>6. CASE FinishCurrent(t)
    BY <1>6 DEF FinishCurrent
  <1>7. CASE FinishAllows(t)
    <2>1. ASSUME NEW r \in unchecked[t], r \in moved[t] PROVE ~Allows(revision[t], r)
      BY <2>1 DEF Allows, Known, PublisherTypeOK, LifecycleTypeOK, State, Revision
    <2> QED
      BY <1>7, <2>1 DEF FinishAllows
  <1>8. CASE Returned(t)
    BY <1>8 DEF Returned
  <1> QED
    BY <1>1, <1>2, <1>3, <1>4, <1>5, <1>6, <1>7, <1>8 DEF ReaderStep

LEMMA MovedStep ==
  TypeOK /\ TypeOK' /\ Exclusive /\ GateClosed /\ MovedIsNewer /\ [Next]_vars => MovedIsNewer'
  <1> SUFFICES ASSUME TypeOK, TypeOK', Exclusive, GateClosed, MovedIsNewer, [Next]_vars
               PROVE  MovedIsNewer'
    OBVIOUS
  <1>1. ASSUME NEW s \in Scope, Select(s) PROVE MovedIsNewer'
    BY <1>1 DEF Select, MovedIsNewer, publisherVars, readerVars, history
  <1>2. CASE UNCHANGED vars
    BY <1>2 DEF vars, MovedIsNewer, sharedVars, publisherVars, readerVars, history
  <1> QED
    BY <1>1, <1>2, ReconcileMoved, RefreshMoved, ReaderMoved DEF Next, AtRest

(***************************************************************************)
(* What finish certifies: no tuple that the answer's authorization rests   *)
(* on changed between the final check and the comparison of revisions.     *)
(***************************************************************************)
THEOREM FinishIsSound == Spec => []FinishSound
  <1>1. MovedIsNewer => FinishSound
    BY DEF MovedIsNewer, FinishSound
  <1> QED
    BY <1>1, InitType, InitExclusive, InitGate, InitMoved,
       TypeStep, ExclusiveStep, GateStep, MovedStep, PTL DEF Spec

-----------------------------------------------------------------------------
(***************************************************************************)
(* Retries: as long as only one plan was tried, the store is between its   *)
(* two projections, and each batch brings it closer to the second.         *)
(***************************************************************************)
LEMMA InitProgress == Init => Progress
  BY DEF Init, Progress, PublisherInit, Revision

LEMMA ApplyBetween ==
  ASSUME NEW p \in Plan, NEW batch \in SUBSET (Writes(p) \cup Deletes(p)), NEW tuples \in SUBSET Tuple,
         Between(<<p.from, p.to>>, tuples)
  PROVE  Between(<<p.from, p.to>>, Apply(p, batch, tuples))
  BY DEF Between, Apply, Writes, Deletes

LEMMA ApplyDone ==
  ASSUME NEW p \in Plan, NEW batch \in SUBSET (Writes(p) \cup Deletes(p)), NEW tuples \in SUBSET Tuple,
         NEW done \in SUBSET (Writes(p) \cup Deletes(p)),
         Writes(p) \cap done \subseteq tuples,
         Deletes(p) \cap done \cap tuples = {}
  PROVE  /\ Writes(p) \cap (done \cup batch) \subseteq Apply(p, batch, tuples)
         /\ Deletes(p) \cap (done \cup batch) \cap Apply(p, batch, tuples) = {}
  BY DEF Apply, Writes, Deletes

LEMMA ReconcileProgress ==
  ASSUME TypeOK, Exclusive, GateClosed, Progress, ReconcileStep
  PROVE  Progress'
  <1> DEFINE pair == <<plan.from, plan.to>>
             mine == tried \subseteq {pair}
  <1> USE DEF sharedVars, publisherVars, history
  <1>0. plan.base.epoch \in Nat /\ current.epoch \in Nat /\ plan.target.epoch \in Nat
    BY DEF TypeOK, PublisherTypeOK, Plan, Revision
  <1>00. rpc \in Holding => plan.base = current /\ plan.from = bindings
    BY DEF Exclusive, Progress
  <1>1. ASSUME NEW p \in Plannable, Submit(p) PROVE Progress'
    <2>1. p.base.epoch <= current.epoch /\ (p.base = current => p.from = bindings)
      <3>1. CASE p = plan
        BY <3>1 DEF Progress
      <3>2. CASE p.from = bindings /\ p.base = current
        BY <3>2, <1>0
      <3> QED
        BY <1>1, <3>1, <3>2 DEF Submit
    <2> QED
      BY <1>1, <2>1 DEF Submit, Progress
  <1>2. CASE CheckBase
    BY <1>2 DEF CheckBase, Progress
  <1>3. CASE ReserveTarget
    <2>1. CASE CanReserve(plan.base, plan.target) /\ plan.from = plan.to
      <3>1. plan.from = bindings
        BY <2>1 DEF CanReserve, Progress
      <3>2. mine => store = plan.to
        <4>1. CASE tried = {}
          BY <2>1, <3>1, <4>1 DEF Progress
        <4>2. CASE tried = {pair}
          BY <2>1, <4>2 DEF Progress, Between
        <4> QED
          BY <4>1, <4>2
      <3> QED
        BY <1>3, <2>1, <3>2 DEF ReserveTarget, Reserve, Progress
    <2>2. CASE ~(CanReserve(plan.base, plan.target) /\ plan.from = plan.to)
      BY <1>3, <2>2 DEF ReserveTarget, Reserve, Progress
    <2> QED
      BY <2>1, <2>2
  <1>4. CASE PrepareLifecycle
    BY <1>4 DEF PrepareLifecycle, Progress
  <1>5. CASE Invalidate
    BY <1>5 DEF Invalidate, Progress
  <1>6. CASE ApplyBatch
    <2>0. plan \in Plan /\ store \in SUBSET Tuple /\ changes \subseteq Writes(plan) \cup Deletes(plan)
      BY <1>6 DEF ApplyBatch, TypeOK, GateClosed
    <2>1. mine => Between(pair, store)
      <3>1. CASE tried = {}
        BY <1>6, <1>00, <3>1 DEF ApplyBatch, Holding, Progress, Between
      <3>2. CASE tried = {pair}
        BY <3>2 DEF Progress
      <3> QED
        BY <3>1, <3>2
    <2>2. mine => /\ Writes(plan) \ changes \subseteq store
                  /\ (Deletes(plan) \ changes) \cap store = {}
      BY <1>6 DEF ApplyBatch, Progress
    <2>3. CASE changes = {}
      <3>1. mine => store = plan.to
        BY <2>0, <2>1, <2>2, <2>3 DEF Between, Writes, Deletes
      <3> QED
        BY <1>6, <2>3, <3>1 DEF ApplyBatch, Progress
    <2>4. CASE changes # {}
      <3>1. PICK batch \in Batches(changes) :
              /\ store' = Apply(plan, batch, store)
              /\ changes' = changes \ batch
              /\ tried' = tried \cup {pair}
        BY <1>6, <2>4 DEF ApplyBatch
      <3>2. mine => /\ Between(pair, store')
                    /\ Writes(plan) \ changes' \subseteq store'
                    /\ (Deletes(plan) \ changes') \cap store' = {}
        <4> DEFINE done == (Writes(plan) \cup Deletes(plan)) \ changes
        <4>1. SUFFICES ASSUME mine
                       PROVE  /\ Between(pair, store')
                              /\ Writes(plan) \cap (done \cup batch) \subseteq store'
                              /\ Deletes(plan) \cap (done \cup batch) \cap store' = {}
          BY <2>0, <3>1
        <4>2. Writes(plan) \cap done \subseteq store /\ Deletes(plan) \cap done \cap store = {}
          BY <2>2, <4>1
        <4>3. batch \in SUBSET (Writes(plan) \cup Deletes(plan))
          BY <2>0 DEF Batches
        <4>4. done \in SUBSET (Writes(plan) \cup Deletes(plan))
          OBVIOUS
        <4>5. Between(pair, store')
          BY <2>0, <2>1, <3>1, <4>1, <4>3, ApplyBetween
        <4> HIDE DEF done
        <4> QED
          BY <2>0, <3>1, <4>2, <4>3, <4>4, <4>5, ApplyDone
      <3>3. ASSUME NEW p \in tried', tried' = {p} PROVE Between(p, store')
        BY <3>1, <3>2, <3>3
      <3> QED
        BY <1>6, <2>4, <3>1, <3>2, <3>3 DEF ApplyBatch, Progress
    <2> QED
      BY <2>3, <2>4
  <1>7. CASE CommitLifecycle
    BY <1>7 DEF CommitLifecycle, Progress
  <1>8. CASE PublishTarget
    <2>1. CASE CanPublish(reserved)
      <3>1. current' = plan.target /\ plan.target.epoch > plan.base.epoch /\ plan.base.epoch = current.epoch
        BY <1>8, <2>1 DEF PublishTarget, Publish, Exclusive, Holding, Advances
      <3>2. tried' = {} => store = plan.to
        BY <1>8, <2>1 DEF PublishTarget, Progress
      <3> QED
        BY <1>0, <1>8, <2>1, <3>1, <3>2 DEF PublishTarget, Progress
    <2>2. CASE ~CanPublish(reserved)
      BY <1>8, <2>2 DEF PublishTarget, Progress
    <2> QED
      BY <2>1, <2>2
  <1>9. CASE ReconcileFails
    BY <1>9 DEF ReconcileFails, Progress
  <1>10. CASE AbortReservation
    BY <1>10 DEF AbortReservation, Abort, Progress
  <1> QED
    BY <1>1, <1>2, <1>3, <1>4, <1>5, <1>6, <1>7, <1>8, <1>9, <1>10 DEF ReconcileStep

LEMMA ProgressFrame ==
  ASSUME Progress, UNCHANGED <<current, store, tried, reconcileVars>>
  PROVE  Progress'
  BY DEF Progress, reconcileVars

LEMMA RefreshProgress ==
  ASSUME TypeOK, Exclusive, Progress, NEW f \in Refresher, RefreshStep(f)
  PROVE  Progress'
  <1>1. CASE RefreshPublish(f)
    <2>1. current' = current \/ current'.epoch > current.epoch
      BY <1>1 DEF RefreshPublish, Publish, Abort, Exclusive, Advances
    <2>2. plan.base.epoch <= current.epoch
      BY DEF Progress
    <2>3. plan.base.epoch \in Nat /\ current.epoch \in Nat
      BY DEF TypeOK, PublisherTypeOK, Plan, Revision
    <2>4. CASE current' = current
      BY <2>4, RefreshFrames, ProgressFrame DEF history
    <2>5. CASE current'.epoch > current.epoch /\ current'.epoch \in Nat
      BY <2>2, <2>3, <2>5, RefreshFrames DEF Progress, reconcileVars, history
    <2>6. current'.epoch \in Nat
      BY RefreshType DEF TypeOK, PublisherTypeOK, Revision
    <2> QED
      BY <2>1, <2>4, <2>5, <2>6
  <1>2. CASE ReadProvider(f) \/ LockScope(f) \/ RefreshReserve(f)
    <2>1. UNCHANGED current
      BY <1>2 DEF ReadProvider, LockScope, RefreshReserve, Reserve, sharedVars, publisherVars
    <2> QED
      BY <2>1, RefreshFrames, ProgressFrame DEF history
  <1> QED
    BY <1>1, <1>2 DEF RefreshStep

LEMMA ProgressStep == TypeOK /\ Exclusive /\ GateClosed /\ Progress /\ [Next]_vars => Progress'
  <1> SUFFICES ASSUME TypeOK, Exclusive, GateClosed, Progress, [Next]_vars PROVE Progress'
    OBVIOUS
  <1>1. ASSUME NEW s \in Scope, Select(s) PROVE Progress'
    BY <1>1, ProgressFrame DEF Select, publisherVars, history
  <1>2. ASSUME NEW t \in Reader, ReaderStep(t) PROVE Progress'
    BY <1>2, ReaderFrames, ProgressFrame DEF sharedVars, publisherVars
  <1>3. CASE UNCHANGED vars
    BY <1>3, ProgressFrame DEF vars, sharedVars, publisherVars, history
  <1> QED
    BY <1>1, <1>2, <1>3, ReconcileProgress, RefreshProgress DEF Next, AtRest

(***************************************************************************)
(* Inductive is an invariant, as TLC finds on the small instances.         *)
(***************************************************************************)
THEOREM InductiveHolds == Spec => []Inductive
  <1>1. Init => Inductive
    BY InitType, InitExclusive, InitGate, InitMoved, InitProgress DEF Inductive
  <1>2. Inductive /\ [Next]_vars => Inductive'
    BY TypeStep, ExclusiveStep, GateStep, MovedStep, ProgressStep DEF Inductive
  <1> QED
    BY <1>1, <1>2, PTL DEF Spec

(***************************************************************************)
(* A retried reconciliation converges: when a plan whose attempts were the *)
(* only ones since the last clean publication is published, the store      *)
(* holds its desired projection and nothing else.                          *)
(***************************************************************************)
THEOREM RetriesConverge == Spec => []RetryConverges
  <1>1. Inductive => RetryConverges
    BY DEF Inductive, Progress, RetryConverges
  <1> QED
    BY <1>1, InductiveHolds, PTL

=============================================================================
