-------------------------- MODULE RevisionPublisher --------------------------
(***************************************************************************)
(* authz.AtomicRevisionPublisher: the authorization revision in force, and *)
(* at most one reservation for the next one.  Publication is a compare and *)
(* swap in two calls: Reserve, then Publish or Abort.  Every method holds  *)
(* the publisher's mutex throughout, so each is one step of its caller.    *)
(***************************************************************************)
EXTENDS Naturals

CONSTANTS
  Watermark     \* ACL watermarks; store, model and identity never change

ASSUME RevisionPublisherAssumption == Watermark # {}

\* authz.AuthorizationRevision; epoch 0 is the revision of no snapshot.
Revision == [acl : Watermark, epoch : Nat]
NoRevision == [acl |-> CHOOSE acl \in Watermark : TRUE, epoch |-> 0]

\* authz.RevisionReservation; ids start at 1.
Reservation == [id : Nat, expected : Revision, target : Revision]
NoReservation == [id |-> 0, expected |-> NoRevision, target |-> NoRevision]

VARIABLES
  current,          \* AtomicRevisionPublisher.current
  pending,          \* AtomicRevisionPublisher.pending: empty or a singleton
  nextReservation   \* AtomicRevisionPublisher.nextReservation

publisherVars == <<current, pending, nextReservation>>

PublisherTypeOK ==
  /\ current \in Revision
  /\ pending \in SUBSET Reservation
  /\ nextReservation \in Nat

PublisherInit ==
  /\ current \in [acl : Watermark, epoch : {1}]
  /\ pending = {}
  /\ nextReservation = 0

\* AuthorizationRevision.validateAdvance
Advances(base, target) == target.epoch > base.epoch

\* Faulty variant: a reservation that is pending is overwritten.
CanReserveAgain(expected, target) ==
  /\ Advances(expected, target)
  /\ current = expected

\* Reserve fails with a pending reservation, or when expected is out of date.
CanReserve(expected, target) ==
  /\ Advances(expected, target)
  /\ pending = {}
  /\ current = expected

NewReservation(expected, target) ==
  [id |-> nextReservation + 1, expected |-> expected, target |-> target]

Reserve(expected, target) ==
  /\ nextReservation' = nextReservation + 1
  /\ pending' = {NewReservation(expected, target)}
  /\ UNCHANGED current

CanPublish(reservation) ==
  /\ pending = {reservation}
  /\ current = reservation.expected

Publish(reservation) ==
  /\ current' = reservation.target
  /\ pending' = {}
  /\ UNCHANGED nextReservation

Abort(reservation) ==
  /\ pending' = pending \ {reservation}
  /\ UNCHANGED <<current, nextReservation>>

=============================================================================
