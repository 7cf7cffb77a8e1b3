-------------------------- MODULE SideEffectBridge --------------------------
(***************************************************************************)
(* runtime.SideEffectBridge: the side effects that wait for a              *)
(* confirmation.  Every method is one step, under the bridge's mutex.      *)
(***************************************************************************)
EXTENDS Naturals, Sequences, SequencesExt

CONSTANTS
  Session,      \* session ids
  None,         \* no session, no request
  MaxRequests   \* bound: requests in a behaviour

ASSUME SideEffectBridgeAssumption ==
  /\ MaxRequests \in Nat
  /\ None \notin Session /\ None \notin 1 .. MaxRequests

VARIABLES
  queue,    \* request ids in the order of the requests
  pending,  \* requests that were not consumed
  emitted   \* pending requests a caller was asked to confirm

bridgeVars == <<queue, pending, emitted>>

\* A tool that changes the artifact scope (build, checkout), or another one.
Request == [id : 1 .. MaxRequests, session : Session, rescopes : BOOLEAN]

BridgeTypeOK ==
  /\ queue \in Seq(1 .. MaxRequests)
  /\ pending \subseteq Request
  /\ emitted \subseteq 1 .. MaxRequests

BridgeInit == queue = <<>> /\ pending = {} /\ emitted = {}

RequestOf(id) == CHOOSE r \in pending : r.id = id

\* Requests of one run of the agent: each is queued and not executed.
Enqueue(requests) ==
  [queue |-> queue \o [i \in DOMAIN requests |-> requests[i].id],
   pending |-> pending \cup {requests[i] : i \in DOMAIN requests}]

\* The requests of the session that wait.
Waiting(session, requests) == {r.id : r \in {r \in requests : r.session = session}}

\* Faulty variant: whatever was requested last is offered, also beside an open offer.
OfferAny(session, ids, requests) ==
  LET own == Waiting(session, requests)
      at == {i \in DOMAIN ids : ids[i] \in own}
  IN IF at = {} THEN None ELSE ids[Max(at)]

\* PendingEvents: the session's first request, unless one is open already.
Offer(session, ids, requests) ==
  LET own == Waiting(session, requests)
      at == {i \in DOMAIN ids : ids[i] \in own}
  IN IF at = {} \/ own \cap emitted # {} THEN None ELSE ids[Min(at)]

\* pendingForRequestLocked
IsPending(session, id) == \E r \in pending : r.id = id /\ r.session = session

\* retryEvents: a request that was not consumed is offered again.
Retry(session, id) == IF IsPending(session, id) /\ id \in emitted THEN id ELSE None

\* consume: a request is answered once.
Consume(id) ==
  [queue |-> RemoveFirst(queue, id),
   pending |-> {r \in pending : r.id # id}]

=============================================================================
