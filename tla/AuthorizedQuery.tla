--------------------------- MODULE AuthorizedQuery ---------------------------
(***************************************************************************)
(* authorized.Service over its QueryCache: concurrent queries, concurrent  *)
(* readers of evidence already handed out (OpenCitation and                *)
(* AuthorizeProtectedContent, which have the same shape), the revocation   *)
(* coordinator, and the authorizer they all ask.  The service holds no     *)
(* lock across its calls: only one cache operation or one call to another  *)
(* service is a single step.                                               *)
(***************************************************************************)
EXTENDS QueryCache

CONSTANTS
  Principal,      \* principals requests are made for
  PrincipalOf,    \* PrincipalOf[q]: the principal of request q
  Strict,         \* requests with consistency higher_consistency
  Own,            \* Own[i]: the authorization boundary of item i itself
  Boundaries,     \* Boundaries[i]: the boundaries of all i's provenance
  Querier,        \* goroutines that run Service.Query
  Reader,         \* goroutines that run OpenCitation, AuthorizeProtectedContent
  Coordinator,    \* goroutines that run RevocationCoordinator.Apply
  Modes,          \* values of TraversalConfig.Enabled a service is built with
  EvidenceLimit,  \* Service.evidenceLimit
  Workload        \* bounds: who runs, the largest batch, how much starts and changes

Thread == Querier \cup Reader

\* Authorization boundaries are resources, and gated like any other resource.
ASSUME AuthorizedQueryAssumption ==
  /\ PrincipalOf \in [Request -> Principal]
  /\ Strict \subseteq Request
  /\ Own \in [Item -> Resource]
  /\ Boundaries \in [Item -> SUBSET Resource]
  /\ \A i \in Item : Own[i] \in Boundaries[i] /\ Boundaries[i] \subseteq Ids[i]
  /\ Querier \cap Reader = {}
  /\ Modes \subseteq BOOLEAN
  /\ EvidenceLimit \in Nat \ {0}
  /\ Workload \subseteq [threads : SUBSET Thread, maxBatchChecks : Nat \ {0},
                          maxStarts : Nat, maxChanges : Nat]

VARIABLES
  traversal,  \* whether the service traverses the graph: fixed when it is built
  workload,   \* the bounds of this behaviour
  granted,    \* external: the boundaries each principal may view now
  replica,    \* external: what minimize_latency checks may still answer from
  pc,         \* where each thread is
  req,        \* the request a thread works for
  items,      \* the evidence items a thread holds
  hit,        \* the cache snapshot a query revalidates
  left,       \* boundaries not yet sent to the authorizer
  allowed,    \* boundaries the authorizer allowed so far
  delivered,  \* what the thread's last call returned: {} is an error
  answered,   \* evidence packages handed out: sessions keep them
  todo,       \* resources an Apply has still to tombstone
  starts,     \* queries and reads started
  changes,    \* relationship changes made
  since       \* history: boundaries granted at some time since the load

threadVars == <<pc, req, items, hit, left, allowed, delivered>>
vars == <<cacheVars, traversal, workload, granted, replica, threadVars, answered, todo, starts, changes, since>>

BoundariesOf(evidence) == UNION {Boundaries[i] : i \in evidence}

\* What the authorizer is asked about.
Object == BoundariesOf(Item)

Answer == [request : Request, items : SUBSET Item]

\* Discovery, retrieval and fresh evidence; then the cached path; then reads.
QueryPC == {"prerank", "retrieve", "final", "select", "gate", "put",
            "cache", "reload", "cacheFinal", "confirm", "miss"}
ReadPC == {"first", "open", "second", "regate"}

TypeOK ==
  /\ CacheTypeOK
  /\ traversal \in Modes
  /\ granted \in [Principal -> SUBSET Object]
  /\ replica \in [Principal -> SUBSET Object]
  /\ pc \in [Thread -> {"idle"} \cup QueryPC \cup ReadPC]
  /\ req \in [Thread -> Request]
  /\ items \in [Thread -> SUBSET Item]
  /\ hit \in [Thread -> Entry]
  /\ left \in [Thread -> SUBSET Object]
  /\ allowed \in [Thread -> SUBSET Object]
  /\ delivered \in [Thread -> SUBSET Item]
  /\ answered \subseteq Answer
  /\ todo \in [Coordinator -> SUBSET Resource]
  /\ workload \in Workload
  /\ starts \in 0 .. workload.maxStarts
  /\ changes \in 0 .. workload.maxChanges
  /\ since \in [Thread -> SUBSET Object]

\* The service is new and has answered nothing; any relationship may exist.
Init ==
  /\ CacheInit
  /\ traversal \in Modes
  /\ workload \in Workload
  /\ granted \in [Principal -> SUBSET Object]
  /\ replica = granted
  /\ pc = [t \in Thread |-> "idle"]
  /\ req = [t \in Thread |-> CHOOSE q \in Request : TRUE]
  /\ items = [t \in Thread |-> {}]
  /\ hit = [t \in Thread |-> NoEntry]
  /\ left = [t \in Thread |-> {}]
  /\ allowed = [t \in Thread |-> {}]
  /\ delivered = [t \in Thread |-> {}]
  /\ answered = {}
  /\ todo = [c \in Coordinator |-> {}]
  /\ starts = 0
  /\ changes = 0
  /\ since = [t \in Thread |-> {}]

-----------------------------------------------------------------------------
(***************************************************************************)
(* The authorizer (OpenFGA), outside the program: relationships change at  *)
(* any time, and a minimize_latency check may miss the latest change.      *)
(***************************************************************************)
Change(p, r) ==
  /\ changes < workload.maxChanges
  /\ changes' = changes + 1
  /\ \/ /\ r \notin granted[p]
        /\ granted' = [granted EXCEPT ![p] = @ \cup {r}]
        /\ since' = [t \in Thread |->
             IF pc[t] # "idle" /\ PrincipalOf[req[t]] = p THEN since[t] \cup {r} ELSE since[t]]
     \/ /\ r \in granted[p]
        /\ granted' = [granted EXCEPT ![p] = @ \ {r}]
        /\ UNCHANGED since
  /\ UNCHANGED <<cacheVars, replica, threadVars, answered, todo, starts>>

CatchUp(p) ==
  /\ replica[p] # granted[p]
  /\ replica' = [replica EXCEPT ![p] = granted[p]]
  /\ UNCHANGED <<cacheVars, granted, threadVars, answered, todo, starts, changes, since>>

-----------------------------------------------------------------------------
(***************************************************************************)
(* One BatchCheck of checkObjects or checkTraversalResources: at most      *)
(* MaxBatchChecks boundaries at a time.  A traversal query takes a failed  *)
(* batch as a denial (lenient); elsewhere it fails the call (see Fail).    *)
(***************************************************************************)
Views(t, live) ==
  LET p == PrincipalOf[req[t]]
  IN  IF live \/ req[t] \in Strict THEN {granted[p]} ELSE {granted[p], replica[p]}

CheckBatch(t, live, lenient) ==
  /\ left[t] # {}
  /\ \E batch \in SUBSET left[t] :
       /\ Cardinality(batch) <= workload.maxBatchChecks
       /\ batch = left[t] \/ Cardinality(batch) = workload.maxBatchChecks
       /\ left' = [left EXCEPT ![t] = @ \ batch]
       /\ \/ \E view \in Views(t, live) : allowed' = [allowed EXCEPT ![t] = @ \cup (batch \cap view)]
          \/ lenient /\ UNCHANGED allowed
  /\ UNCHANGED <<cacheVars, granted, replica, pc, req, items, hit, delivered, answered, todo, starts, changes, since>>

\* Faulty variant: decisions made before the load are not asked for again.
LoadKeepsDecisions(t, evidence) ==
  /\ since' = [since EXCEPT ![t] = granted[PrincipalOf[req[t]]]]
  /\ left' = [left EXCEPT ![t] = BoundariesOf(evidence) \ allowed[t]]
  /\ UNCHANGED allowed

\* The exact load: what was granted before it says nothing of what follows.
Load(t, evidence) ==
  /\ since' = [since EXCEPT ![t] = granted[PrincipalOf[req[t]]]]
  /\ left' = [left EXCEPT ![t] = BoundariesOf(evidence)]
  /\ allowed' = [allowed EXCEPT ![t] = {}]

Goto(t, label) == pc' = [pc EXCEPT ![t] = label]

\* A call returns evidence, or an error: the goroutine's locals are gone.
Return(t, evidence) ==
  /\ Goto(t, "idle")
  /\ delivered' = [delivered EXCEPT ![t] = evidence]
  /\ items' = [items EXCEPT ![t] = {}]
  /\ hit' = [hit EXCEPT ![t] = NoEntry]
  /\ left' = [left EXCEPT ![t] = {}]
  /\ allowed' = [allowed EXCEPT ![t] = {}]
  /\ since' = [since EXCEPT ![t] = {}]

\* A step that only moves a thread on.
Continue(t, label) ==
  /\ Goto(t, label)
  /\ UNCHANGED <<items, hit, left, allowed, delivered, since>>

\* Without traversal the lookup key is the request; with it, the path too.
KeyOf(t) == <<req[t], IF traversal THEN items[t] ELSE {}>>

-----------------------------------------------------------------------------
(***************************************************************************)
(* Service.Query.  Without traversal the cache is consulted first.         *)
(***************************************************************************)
Lookup(t, k) ==
  /\ hit' = [hit EXCEPT ![t] = Get(k)]
  /\ left' = [left EXCEPT ![t] = BoundariesOf(Get(k).items)]
  /\ allowed' = [allowed EXCEPT ![t] = {}]

\* Discovery names every item; the next checks ask for their own boundaries.
Discover(t) ==
  /\ Goto(t, "prerank")
  /\ hit' = [hit EXCEPT ![t] = NoEntry]
  /\ left' = [left EXCEPT ![t] = {Own[i] : i \in Item}]
  /\ allowed' = [allowed EXCEPT ![t] = {}]

BeginQuery(t, q) ==
  /\ pc[t] = "idle"
  /\ t \in workload.threads /\ starts < workload.maxStarts
  /\ starts' = starts + 1
  /\ req' = [req EXCEPT ![t] = q]
  /\ delivered' = [delivered EXCEPT ![t] = {}]
  /\ \/ /\ ~traversal
        /\ Get(<<q, {}>>) # NoEntry
        /\ Lookup(t, <<q, {}>>)
        /\ Goto(t, "cache")
     \/ /\ traversal \/ Get(<<q, {}>>) = NoEntry
        /\ Discover(t)
  /\ UNCHANGED <<cacheVars, granted, replica, items, answered, todo, changes, since>>

(***************************************************************************)
(* revalidateCached: a live check of every bound boundary, an exact load,  *)
(* and a second live check.  Any denial or error abandons the snapshot.    *)
(***************************************************************************)
CacheCheck(t) ==
  /\ pc[t] \in {"cache", "cacheFinal"}
  /\ CheckBatch(t, TRUE, traversal)

Denied(t) ==
  /\ left[t] = {}
  /\ ~(BoundariesOf(hit[t].items) \subseteq allowed[t])

RevalidationFails(t) ==
  /\ \/ pc[t] \in {"cache", "cacheFinal"} /\ (Denied(t) \/ left[t] # {})
     \/ pc[t] = "reload"
  /\ Continue(t, "miss")
  /\ UNCHANGED <<cacheVars, granted, replica, req, answered, todo, starts, changes>>

CacheChecked(t) ==
  /\ pc[t] \in {"cache", "cacheFinal"}
  /\ left[t] = {} /\ ~Denied(t)
  /\ Continue(t, IF pc[t] = "cache" THEN "reload" ELSE "confirm")
  /\ UNCHANGED <<cacheVars, granted, replica, req, answered, todo, starts, changes>>

CacheReload(t) ==
  /\ pc[t] = "reload"
  /\ Load(t, hit[t].items)
  /\ Goto(t, "cacheFinal")
  /\ UNCHANGED <<cacheVars, granted, replica, req, items, hit, delivered, answered, todo, starts, changes>>

\* containsRevision decides whether the revalidated snapshot is still current.
ReturnCached(t) ==
  /\ pc[t] = "confirm"
  /\ ContainsRevision(KeyOf(t), hit[t].revision)
  /\ Return(t, hit[t].items)
  /\ answered' = answered \cup {[request |-> req[t], items |-> hit[t].items]}
  /\ UNCHANGED <<cacheVars, granted, replica, req, todo, starts, changes>>

SnapshotReplaced(t) ==
  /\ pc[t] = "confirm"
  /\ ~ContainsRevision(KeyOf(t), hit[t].revision)
  /\ IF traversal THEN Return(t, {}) ELSE Continue(t, "miss")
  /\ UNCHANGED <<cacheVars, granted, replica, req, answered, todo, starts, changes>>

\* deleteIfRevision; then a query without traversal starts afresh.
Miss(t) ==
  /\ pc[t] = "miss"
  /\ DeleteIfRevision(KeyOf(t), hit[t].revision)
  /\ IF traversal
     THEN Return(t, {})
     ELSE Discover(t) /\ UNCHANGED <<items, delivered, since>>
  /\ UNCHANGED <<granted, replica, req, answered, todo, starts, changes>>

(***************************************************************************)
(* Discovery authorizes what the provider may rank; what it retrieves is   *)
(* its choice among that.  Each item is authorized by its own boundary     *)
(* only: the final check covers the provenance the load reveals.           *)
(***************************************************************************)
PreRank(t) ==
  /\ pc[t] = "prerank"
  /\ \/ CheckBatch(t, FALSE, traversal)
     \/ /\ left[t] = {}
        /\ Continue(t, "retrieve")
        /\ UNCHANGED <<cacheVars, granted, replica, req, answered, todo, starts, changes>>

RetrieveAndLoad(t) ==
  /\ pc[t] = "retrieve"
  /\ \E selected \in SUBSET {i \in Item : Own[i] \in allowed[t]} :
       /\ selected # {}
       /\ Cardinality(selected) <= EvidenceLimit
       /\ items' = [items EXCEPT ![t] = selected]
       /\ Load(t, selected)
  /\ Goto(t, "final")
  /\ UNCHANGED <<cacheVars, granted, replica, req, hit, delivered, answered, todo, starts, changes>>

\* checkEvidence / finalizeTraversalEvidence: drop the items not fully allowed.
FinalCheck(t) ==
  /\ pc[t] = "final"
  /\ \/ CheckBatch(t, FALSE, traversal)
     \/ /\ left[t] = {}
        /\ LET kept == {i \in items[t] : Boundaries[i] \subseteq allowed[t]}
           IN  IF kept = {}
               THEN Return(t, {})
               ELSE /\ items' = [items EXCEPT ![t] = kept]
                    /\ Goto(t, IF traversal THEN "select" ELSE "gate")
                    /\ UNCHANGED <<hit, left, allowed, delivered, since>>
        /\ UNCHANGED <<cacheVars, granted, replica, req, answered, todo, starts, changes>>

\* With traversal the cache is consulted here, under the selected paths.
TraversalLookup(t) ==
  /\ pc[t] = "select"
  /\ Lookup(t, KeyOf(t))
  /\ Goto(t, IF Get(KeyOf(t)) = NoEntry THEN "gate" ELSE "cache")
  /\ UNCHANGED <<cacheVars, granted, replica, req, items, delivered, answered, todo, starts, changes, since>>

\* The last gate before the evidence is sent to generation.
Gate(t) ==
  /\ pc[t] = "gate"
  /\ IF Admits(ResourceIDs(items[t])) THEN Continue(t, "put") ELSE Return(t, {})
  /\ UNCHANGED <<cacheVars, granted, replica, req, answered, todo, starts, changes>>

GenerateAndPut(t) ==
  /\ pc[t] = "put"
  /\ PutAccepts(items[t])
  /\ Put(KeyOf(t), items[t])
  /\ Return(t, items[t])
  /\ answered' = answered \cup {[request |-> req[t], items |-> items[t]]}
  /\ UNCHANGED <<granted, replica, req, todo, starts, changes>>

PutRefused(t) ==
  /\ pc[t] = "put"
  /\ ~PutAccepts(items[t])
  /\ Return(t, {})
  /\ UNCHANGED <<cacheVars, granted, replica, req, answered, todo, starts, changes>>

-----------------------------------------------------------------------------
(***************************************************************************)
(* OpenCitation and AuthorizeProtectedContent: gate, live check, load,     *)
(* live check, gate.  They start from evidence handed out earlier.         *)
(***************************************************************************)
BeginRead(t, a) ==
  /\ pc[t] = "idle"
  /\ t \in workload.threads /\ starts < workload.maxStarts
  /\ starts' = starts + 1
  /\ IF Admits(ResourceIDs(a.items))
     THEN /\ Goto(t, "first")
          /\ req' = [req EXCEPT ![t] = a.request]
          /\ items' = [items EXCEPT ![t] = a.items]
          /\ delivered' = [delivered EXCEPT ![t] = {}]
          /\ left' = [left EXCEPT ![t] = BoundariesOf(a.items)]
          /\ UNCHANGED <<hit, allowed, since>>
     ELSE Return(t, {}) /\ UNCHANGED req
  /\ UNCHANGED <<cacheVars, granted, replica, answered, todo, changes>>

ReadCheck(t) ==
  /\ pc[t] \in {"first", "second"}
  /\ \/ CheckBatch(t, TRUE, FALSE)
     \/ /\ left[t] = {}
        /\ IF BoundariesOf(items[t]) \subseteq allowed[t]
           THEN Continue(t, IF pc[t] = "first" THEN "open" ELSE "regate")
           ELSE Return(t, {})
        /\ UNCHANGED <<cacheVars, granted, replica, req, answered, todo, starts, changes>>

ReadLoad(t) ==
  /\ pc[t] = "open"
  /\ Load(t, items[t])
  /\ Goto(t, "second")
  /\ UNCHANGED <<cacheVars, granted, replica, req, items, hit, delivered, answered, todo, starts, changes>>

\* Faulty variant: the gate that opened the read is not asked again.
ReadGateOnce(t) ==
  /\ pc[t] = "regate"
  /\ Return(t, items[t])
  /\ UNCHANGED <<cacheVars, granted, replica, req, answered, todo, starts, changes>>

ReadGate(t) ==
  /\ pc[t] = "regate"
  /\ Return(t, IF Admits(ResourceIDs(items[t])) THEN items[t] ELSE {})
  /\ UNCHANGED <<cacheVars, granted, replica, req, answered, todo, starts, changes>>

\* Any call to the authorizer, the provider or the loader may fail the call.
Fail(t) ==
  /\ pc[t] \in {"prerank", "retrieve", "final", "put", "first", "open", "second"}
  /\ Return(t, {})
  /\ UNCHANGED <<cacheVars, granted, replica, req, answered, todo, starts, changes>>

-----------------------------------------------------------------------------
(***************************************************************************)
(* RevocationCoordinator.Apply: tombstone some of the resources of an      *)
(* evidence binding, one at a time.  The live report that follows changes  *)
(* nothing, so Apply is over when nothing is left to tombstone.            *)
(***************************************************************************)
BeginApply(c, a) ==
  /\ todo[c] = {}
  /\ \E requested \in (SUBSET ResourceIDs(a.items)) \ {{}} : todo' = [todo EXCEPT ![c] = requested]
  /\ UNCHANGED <<cacheVars, granted, replica, threadVars, answered, starts, changes, since>>

ApplyOne(c) ==
  /\ \E r \in todo[c] :
       /\ InvalidateResource(r)
       /\ todo' = [todo EXCEPT ![c] = @ \ {r}]
  /\ UNCHANGED <<granted, replica, threadVars, answered, starts, changes, since>>

-----------------------------------------------------------------------------
QueryStep(t) ==
  \/ CacheCheck(t) \/ RevalidationFails(t) \/ CacheChecked(t) \/ CacheReload(t)
  \/ ReturnCached(t) \/ SnapshotReplaced(t) \/ Miss(t)
  \/ PreRank(t) \/ RetrieveAndLoad(t) \/ FinalCheck(t) \/ TraversalLookup(t)
  \/ Gate(t) \/ GenerateAndPut(t) \/ PutRefused(t)

ReadStep(t) == ReadCheck(t) \/ ReadLoad(t) \/ ReadGate(t)

External(p) == CatchUp(p) \/ \E r \in Object : Change(p, r)

\* With every call returned and the bounds reached, the program waits.
AtRest ==
  /\ \A t \in Thread : pc[t] = "idle"
  /\ \A c \in Coordinator : todo[c] = {}
  /\ UNCHANGED vars

Next ==
  /\ UNCHANGED <<traversal, workload>>
  /\ \/ AtRest
     \/ \E p \in Principal : External(p)
     \/ \E t \in Querier : QueryStep(t) \/ Fail(t) \/ \E q \in Request : BeginQuery(t, q)
     \/ \E t \in Reader : ReadStep(t) \/ Fail(t) \/ \E a \in answered : BeginRead(t, a)
     \/ \E c \in Coordinator : ApplyOne(c) \/ \E a \in answered : BeginApply(c, a)

Spec == Init /\ [][Next]_vars

-----------------------------------------------------------------------------
(***************************************************************************)
(* A query whose snapshot has the revision that is in the cache under its  *)
(* key holds what the cache holds: containsRevision cannot be fooled by an *)
(* entry that was deleted, evicted or invalidated and put again.           *)
(***************************************************************************)
SnapshotFaithful ==
  \A t \in Thread :
    hit[t].revision # 0 /\ entries[KeyOf(t)].revision = hit[t].revision
      => entries[KeyOf(t)].items = hit[t].items

(***************************************************************************)
(* The promise to callers: no answer, cached, fresh or reopened, is        *)
(* returned once a resource it depends on was tombstoned, not even by a    *)
(* call that was in flight, and tombstones are for ever (also when the     *)
(* tombstone table overflows and the cache drops it).                      *)
(***************************************************************************)
Promise == INSTANCE ProtectedAnswers WITH revoked <- Revoked

KeepsPromise == Promise!Spec

(***************************************************************************)
(* An answer that is cached, reopened or asked for at higher consistency   *)
(* was fully authorized after its content was loaded: for each boundary    *)
(* there is an instant between the exact load and the return at which the  *)
(* principal could view it.  Checks made before the load do not count.     *)
(***************************************************************************)
AuthorizedAfterLoad ==
  [][\A t \in Thread :
       /\ delivered'[t] # {} /\ pc[t] # "idle" /\ pc'[t] = "idle"
       /\ t \in Reader \/ hit[t].revision # 0 \/ req[t] \in Strict
       => BoundariesOf(delivered'[t]) \subseteq since[t]]_vars

=============================================================================
