# knote: TLA+ models and proofs

knote is a local-first knowledge tool: it builds a knowledge graph from the files
of a git workspace, answers questions about it in a terminal session, and, in its
permissioned composition, lets a principal see only what an authorizer (OpenFGA)
lets that principal view. This directory models the parts of knote in which the
order of steps, or a rule applied to data of any shape, decides whether an answer
is right. The models are written from the Go sources in `src/`; PROJECT.json maps
each definition to the lines it stands for.

## 1. Inventory

| component | state | operations | interacts through | hard behaviour |
|---|---|---|---|---|
| `authorized.QueryCache` | entries, tombstones, disabled flag, revision counter; a mutex | get, put, deleteIfRevision, containsRevision, InvalidateResource | called by the query service, the revocation coordinator and the lifecycle's invalidator | repopulation by calls in flight, revision reuse, both capacities |
| `authorized.Service` | none across calls | Query, OpenCitation, AuthorizeProtectedContent | KAG provider, authorizer, exact loader, cache | no lock across calls: everything may change between two of them |
| traversal | a budget per call | discover, expand, follow, check, finalize | the service | several batches per hop, denials on the way, limits |
| `RevocationCoordinator` | none | Apply | cache, then authorizer | partial application, several coordinators |
| `AtomicRevisionPublisher` | current revision, one pending reservation | Current, Reserve, Publish, Abort | reconciler and scope refresh | compare and swap in two calls |
| `EpochRevocationLifecycle` | revision and gate of each resource | Prepare, Commit, Allows | reconciler, readers' finish | gate against publication order |
| `TupleReconciler` | a mutex | Reconcile | publisher, lifecycle, OpenFGA writes | failure at any point, retry, replanning |
| `permissionedRevisionState` | the bound scope | refreshScope, begin, finish, currentForScope | publisher, lifecycle, artifact selection on disk | several reads that are not atomic together |
| `LocalAuthorizer` | tuples, an index of claim bindings; a lock | AddTuple, RemoveTuple, Check, BatchCheck | the query service | an index that must follow every tuple that comes and goes |
| OpenFGA | tuples (external) | Check, BatchCheck, Write | everyone above | stale answers at `minimize_latency` |
| catalog planner and replay | none; projections are values | PlanReconciliation, PlanRevocations, Replay, the graph export | build service, projection store | closure over derived resources, one failed operation, several runs on one another |
| projection store | runs, receipts, projections, a pointer on disk | InitializeServing, Execute, RollbackServing | build service | crash between two writes, late and repeated runs |
| artifact publication | bundles, a selection, a lock file | StageArtifacts, PublishArtifacts, readers, prune | build, bundle loader, git commit | stale lock, readers against pruning |
| git repository, release gate | the worktree, commits, tags | Commit, Tag, Checkout, Eval, Release | artifact publication | what was evaluated against what is released |
| knowledge build service | none; everything on disk | Build | projection store, artifact publication | crash anywhere, other builds, checkouts |
| session runtime (`Manager`) | the session, its binding, event channels | Start, SendMessage, Confirm, /new, /resume, slash tools | session files, side-effect bridge, agent, terminal | failing halfway, contexts that change |
| side-effect bridge | queue of confirmations | Request, PendingEvents, Confirm | runtime, agent tools | answered once, never block the queue |
| session envelope files | JSON files, a lock directory | bind, rebind | several processes | stale lock recovery |
| protected replay | none | filterPersistedEvents | resume, agent history | content bound to evidence, restricted turns |
| KAG client and adapter, telemetry, protocol types, remote repository, command line | no state of interest | | | process I/O, output, validation |

What makes each correct, in one line:

* cache and service: no answer depends on a resource that was revoked before the
  answer was returned; a snapshot is returned only if it is still the cached one;
  cached, reopened and strict answers rest on decisions made after the exact load.
* traversal: it goes exactly as far as it is allowed to, and what it shows was
  allowed when it came up and again at the end, all the way to it.
* revision, lifecycle, reconciler, scope: an answer that finish lets through was
  authorized, as a whole, at one instant; a half applied change is closed; a retry
  converges; the two users of the publisher do not disturb each other.
* authorizers: the in-process one decides as the relation model does, and taking
  access away never gives any.
* catalog: what is served rests on served documents; a revocation takes exactly what
  cannot stand without the revoked; what the planner plans, replay carries out.
* projection store: the pointer only moves by compare and swap from the base of a
  complete plan, and every crash leaves a state a successor repairs.
* artifacts: readers see one selected bundle, complete, and publication from an old
  base fails; a commit takes the selected bundle and nothing of others.
* build: the catalog serves a version before the artifacts select it; a build that
  nobody disturbs publishes, whatever earlier ones left.
* release: what is tagged was evaluated as it stands, whoever works on the workspace
  meanwhile (false as it stands, section 6; four lapses are the only ways).
* session: one writer at a time; a bound session is never rebound silently, its
  principal never changes, and nothing runs while the binding in memory is not the one
  on disk.
* runtime and bridge: the confirmation that is shown is the one that is answered, and
  what runs is what was approved, in order, once.
* replay: an event is replayed exactly when the session may show it now.

## 2. Modules

```
 Tombstones ---------------------+
     |                           |        AuthorizationModel     ReplayFilter * Traversal *
 QueryCache    RevisionPublisher |               |                    |             |
     |                 |         |         LocalAuthorizer * ---------+-------------+
 AuthorizedQuery *     |         |                                    |
  (implements    RevocationLifecycle              ReleaseGate * - MCDecisions
   ProtectedAnswers)   |
                 PermissionedRevision *

 CatalogProjection - CatalogPlanner -+- CatalogReplay ---+- CatalogLifecycle *
                                     +- Materialization -+

 ProjectionStore * (implements CatalogServing)      ProjectionBuild
 PublicationLock - ArtifactPublication *
 SideEffectBridge - SessionRuntime *                SessionEnvelope *
```

A module M with a star has its theorems and their proofs in MProofs; those of the four that
MCDecisions composes are in DecisionsProofs, those of the catalog in CatalogProofs.

An `MC` module gives the constants of a specification small values; MCDecisions also
composes four that share nothing.

**Tombstones, QueryCache** (`cache.go`). Every method holds the mutex from its first
read to its last write, so each is one operator with primed variables and its callers
decide when it happens. A key is a request and, with traversal, the path set; keys,
ids and items are model values. Revision 0 is "not found". `Tombstones` is apart
because the lifecycle's invalidator writes the same table. The time, which only
reports a latency, is left out.

**AuthorizedQuery** (`service.go`, `revocation.go`, and traversal as far as it changes
the query). A thread is a goroutine in one call, `pc` names the call it makes next,
and each call to the authorizer, the loader, the provider or the cache is one step.
`left` and `allowed` hold the boundaries still to be checked and those allowed:
`checkObjects` sends at most `MaxBatchChecks` per call. The mode chooses between the
two programs in the code: without traversal the cache is looked up first, and a failed
revalidation falls through to a fresh query; with traversal the lookup follows the
final check, under the selected paths, and a failed revalidation fails the query; a
failed batch check denies its objects. A validation error and a provider error are the
same step, `Fail`. OpenCitation and AuthorizeProtectedContent have the same shape
(gate, check, load, check, gate) and share the read actions. `BeginApply` and `ApplyOne`
are RevocationCoordinator.Apply: one InvalidateResource per step.
The authorizer is external: `granted` is the truth, `replica` what `minimize_latency` may
still answer from.

**ProtectedAnswers** is the promise without phases, checks and cache: revocation only
grows, and each answer is free of revoked resources at the instant it is returned.
AuthorizedQuery implements it with `revoked <- Revoked`.

**Traversal** (`traversal.go`, `derived_policy.go`) is one traversal: discovery, retrieval,
and then hop by hop claims of the entities reached and the entities those lead to. Each
call to the provider and each batch of a check is a step; a batch may deny anything, which
stands for whatever happened to the relationships meanwhile. Paths are sequences that
alternate entities and claims. The provider answers exactly or with a claim too many.
Scores choose among paths and limits cut a traversal off with an error; the former are
left out (any choice is possible), the latter are constants.

**RevisionPublisher, RevocationLifecycle** (`revision.go`, `revocation_lifecycle.go`) are
operators again, for the same reason as the cache.

**PermissionedRevision** composes them with `reconciliation.go`, `openfga_write.go` and
`cmd/knote/permissioned_revision.go`. `rpc` is the one reconciliation under way (its
mutex covers the whole call); every error path after the reservation goes through
`abort`, which is the deferred Abort. Batches hold all the changes of an
authorization object or none, as `openFGAWriteBatches` groups them; which objects share a
batch is left open. A refresh holds `scopeMu` from `LockScope` to its end; the
publication and the assignment of the scope are one step because no one can read the
scope in between. A reader's service call is one check and one cache gate here, since
AuthorizedQuery has the detail. Watermarks stand for whole revisions: store, model and
identity never change in a running process. `moved`, `torn` and `tried` are history
variables that only properties read.
The repository builds a reconciler only in its tests; the lifecycle, the publisher
and the invalidator are those the command line wires.

**AuthorizationModel** (`model/authorization.fga`) has one operator per relation: the users
it holds for, given the tuples. **LocalAuthorizer** (`local.go`) has the tuples, the index
of claim bindings that is kept next to them, and the evaluation the code does over them.
The types form layers, so that no evaluation comes back to where it started; what the
code does about cycles is left out. A batch check denies everything when the claim of one
item has incomplete bindings, which the callers see as a denial.

**ReplayFilter** (`runtime/replay.go`) is the filter of persisted events as a function of the
log, with the rules for blocks of protected content, turns and slash commands.

**CatalogProjection, CatalogPlanner, CatalogReplay** (`catalog/types.go`, `planner.go`,
`replay.go`, `graph_projection.go`). A projection maps ids to resources; validators are
predicates; a planning function returns the set of its plans, which is empty when it
refuses. Ids of operations and plans are digests of what they stand for in the code and
are that here. Contents are told apart and nothing more. **Materialization**
(`versioned/projection_build.go`) is what a build makes of the sources: an entity per
document, a statement and a claim per chunk, one bundle. **CatalogLifecycle** runs
reconciliations, builds and revocations on one another; a run succeeds as a whole or has
one operation fail. A build of unchanged sources changes nothing; the base of a build is
the public projection of the selected bundle, without tombstones.

**ProjectionStore** (`catalog/projection_store.go`). Every method holds the store's file lock,
which the kernel frees when the process dies; each durable write is a step, and
`Interrupt`, a write error or the end of the process, can fall between any two. Callers
keep plans computed from old bases and come back with them. A plan may be a retry
of others (`Earlier`), which have the same base and target and other run identities;
`nextProjectionRunIdentity` takes a new one only when the run of each earlier one failed, or
succeeded and owns the pointer no more (`Retired`). It implements **CatalogServing**: one
projection serves, it appears whole, a plan replaces only its own base, a rollback gives the
base back.

**PublicationLock, ArtifactPublication** (`artifact_publication_lock.go`, `artifact_bundle.go`,
`git.go`). A step is a system call, or some that nobody can come between. Bundles are
staged without a lock, the selection and the compatibility exports change under it, and
Commit prunes under it and commits with unrelated staged work put aside. The lock is a
file with the owner's token; `MinutePasses` lets a minute go by, after which contenders
take it for abandoned.

**ReleaseGate** (`versioned/service.go`, `eval.go`, `git.go`). The workspace and a commit are
three parts: sources, artifacts, evaluation results; a knowledge hash is the pair of the
first two. Eval and Release take several steps and no lock, so an editor, a build, a commit, a
checkout and each other come between any two. `Dirty(fails)` is `gitClient.Dirty`, which counts
a workspace as clean when `git status` fails. `lapses` is a history variable: the ways in which the
running release can have gone wrong so far, each recorded by the step that does it, and a tag
keeps those it came about with. Tags do not move, so the last one (`tagged`) stands for each. There is one
evaluation and one release at a time, and the gate reads its files at once.

**ProjectionBuild** (`versioned/projection_build.go`) is Build over the calls of the store and
the repository, each one step with whatever may be left when it is cut short: the journal
of the pair of versions, the retry identities, the receipts of namespace and staging (an
operation that failed has one too, and the process may stop before the run is recorded as
failed), the rollback when publication fails, and the resumption of what an earlier build
left. A version belongs to the tenant and namespace it was built for. A build whose scope is
not that of the selected projection plans from the empty projection of its scope (`BaseIn`),
and still publishes over the selected bundle (`publication`). When that publication fails,
nothing is rolled back; the next build finds its version served and resumes.

**SessionEnvelope** (`repository/local/session.go`) is bind and rebind of one envelope by
several programs with the lock directory, its recovery when stale, and crashes.

**SideEffectBridge, SessionRuntime** (`runtime/`, `tui/model.go`). The bridge is operators, a
method each, under its mutex. The runtime composes it with its only client, the terminal,
which waits for every call: messages, slash tools, confirmations, /new and /resume, and
the authorization binding in memory and on disk, with the context provider answering
differently between two steps of a call. `hidden`, `torn` and `rebound` are history variables
(section 3).

Definitions whose comment begins with "Faulty variant" are the code with one
plausible mistake; no specification uses them. PROJECT.json names, for each property of
each run, the variant that the property refutes.

## 3. Runs

| run | instance | what it shows |
|---|---|---|
| `query` | 2 queriers with 3 calls, or a querier and a reader with 2 calls, one boundary per batch and 2 relationship changes; 1 coordinator; both cache positions; capacity 1, 2 tombstones for 3 resources | no revoked result is stored (`NoRevokedEntry`), `WithinCapacity`, a confirmed snapshot is the cached one (`SnapshotFaithful`), `AuthorizedAfterLoad`, and ProtectedAnswers is implemented (`KeepsPromise`) |
| `revision_scopes` | 1 reader, 1 refresh, one claim whose source moves, epochs to 3, 2 reservations | `FinishSound` while reconciliations, checkouts and builds move the revision; `HalfDoneIsClosed`, `RetryConverges`, `PublishNeverLost` |
| `revision_grants` | 1 reconciler | violates `CommittedGrantUsable` (section 6) |
| `store_journal` | 2 callers, a plan, its retry under another run identity and a successor, 2 operations each, 3 interrupts | the pointer can be resolved after any crash (`PointerResolvable`), the journal tells what happened (`JournalTruthful`), an owner is settled before it is replaced, and CatalogServing is implemented (`ServingAtomically`) |
| `catalog` | 3 runs on one another from 4 foundings: 9 workspaces (4 of them catalogs that must be refused, one of these for two claims that support each other), 4 states of the sources, every single revocation, every single failed operation in the first run | `PlansReplay`, `FailureWithheld`, `ReconciliationExact`, `RevocationExact`, `AlwaysPlannable`, `SourceGrounded`, `GraphDerivable` |
| `artifacts` | 2 processes, 2 versions of 2 files, 4 calls, 1 error, 1 crash | `SelectedWhole`, `CommitCoherent`, `CommitsOnlyKnowledge`, `PublishedFromBase`, `ExportsFollowPointer`; under fairness `WaitersServed` |
| `release` | 2 contents of the sources, 2 commits, 1 edit, 1 evaluation | violates `ReleasesEvaluated` (section 6) |
| `session_envelope` | 2 programs, 2 contexts, 4 calls, 1 crash | the envelope changes only from what the caller expected (`ReplacedAsExpected`); under fairness `CallsReturn` |
| `session_runtime` | 2 sessions, 2 principals, 2 scopes, 3 requests, 6 calls, 2 changes from outside | one request of the live session is open, the oldest, and it is shown or covered by an error (`FirstIsShown`); what is approved runs in order, once (`AnsweredInOrder`); nothing runs under a binding other than the envelope's (`BoundAsOnDisk`); `SessionKeepsPrincipal` |
| `build` | 2 builders, 3 builds, 3 faults, 2 edits (of the sources, or of the namespace), 2 versions of one namespace and one of another | a build selects only what was served, in the journal in which it succeeds what was selected for its scope (`CatalogBeforeArtifacts`); a build that nobody disturbs publishes, with three named exceptions (`LoneBuildPublishes`) |
| `build_wedged` | 1 builder, 2 builds, 2 faults | violates `CandidateRemovedBeforeRetry` (section 6) |
| `decisions` | 16 tuples that come and go around one claim with two candidates for its subject; logs of 4 events of 18 kinds; a traversal of 4 entities and 5 claims (a diamond and a way back), 2 denying batches; 2 contents of the sources, 2 commits, 2 edits, 1 evaluation | `BindingsExact`, `AgreesWithModel`, `RevocationNeverGrants`; `ReplayExact`; `TraversalExact`; releases are spoilt in four ways and in no other (`SpoiltOnlyByLapses`) |

Every property of a passing run is refuted by one of the faulty variants, under the same bounds.

**Bounds.** In `query` three calls are what it takes to store a result, take a snapshot of it,
and replace it under the snapshot, the longest cache scenario the properties distinguish.
Capacity 1 makes every second key evict; two tombstones for three resources make the table
overflow (10,000 in the code). One grant and one loss suffice to make a decision stale and
refresh it. In `revision_scopes` two reservations allow a failed attempt and its retry or a
refresh of the scope; readers do not affect each other, so one is enough. In `store_journal` three
interrupts cut an attempt, its recovery and the retry short; two operations distinguish none,
some and all receipts. The third run of `catalog` starts from what a build or a revocation left of
a first one; larger catalogs add nothing that the closure over two levels of derivation does
not show. `build` needs three faults for a failed publication, a rollback that is cut short and
a crash in the resumption. Two denying batches of `decisions` can hit two hops of a path or both
arms of the diamond. An edit makes the results of the one evaluation stale, another edit or a
checkout undoes it, and each of the four lapses spoils a release under these bounds; a second evaluation or a third commit
adds nothing (TLC went through both once).

**Exceptions the properties name.**

* `FirstIsShown` has `hidden`: when a call of SendMessage fails after the agent asked for a
  confirmation, the runtime puts the error behind the offer (`runtime.go:232-239`), and the
  terminal clears its confirmation when an error comes last (`model.go:468-473`). The request stays
  open: `PendingEvents` offers nothing more of its session while it is unanswered, so every
  later request of the session waits behind it until the program is started again. The property
  says just that: there is one open request, the oldest, it is shown unless it is so covered, and no
  other failure covers or loses one.
* `BoundAsOnDisk` says what still holds when memory and disk do differ, at rest, after a bind that
  could not write its envelope (`NoEnvelope`) or after the program's own rebind failed behind its
  rename (`torn`): neither the agent nor a side effect runs until the two agree again. It does
  except what another program does after a call compared the two (`rebound`), which the code
  cannot see.
* `LoneBuildPublishes` has three: a rollback that was cut short left a candidate (`Wedged`, section
  6); the run that the build takes up has a failed receipt and was not recorded as failed,
  which this build does, so that the next one gets a new run (`FailureTakenUp`); a commit pruned
  the bundle after its staging got a receipt, so that the resumed build fails once and the next
  one stages again (`BundlePruned`).
* `SpoiltOnlyByLapses` has four: other artifacts are selected between the questions and the
  knowledge hash of an evaluation (`answers`); the workspace moves between the gate and the second look
  at it (`gated`); `git status` fails at that look while there are changes (`status`); HEAD moves between
  that look and the tag (`head`). The last three are about the
  release that makes the tag and no other. Each is needed: without any one TLC finds a release it
  spoilt. A first look that fails, stale results, and results that commits and checkouts carry about
  do no harm.

**Excluded instances.** Some instances are outside the bounds because the property fails there
and the code takes no position on the case; change the constant to see the counterexample.

* `artifacts`, `Proc` of three and `MaxCrashes` 1: a contender that saw a stale lock and was slow
  renames the fresh one another contender has just created
  (`artifact_publication_lock.go:97`). The token in the lock protects the owner's removal, not
  this. `session_envelope` with a living owner that is slow for more than the limit loses its lock in
  the same way (`session.go:396`, `486`); a minute passes there only without a living owner. No run
  covers what such a thief does; the proofs about both say that nothing else disturbs the lock.
* `artifacts`, `Started = FALSE`: a commit that finds no bundles directory takes no lock, and a
  first publication may come between its steps.
* `store_journal`, `Earlier <- MCRivalEarlier`, `TargetOf <- MCRivalTargetOf`: two plans from one base in
  the same journal of which neither is a retry of the other. Builds give each pair of versions a
  journal of its own.

**Deadlock** is checked in every run: with nothing in progress `AtRest` (or its like) lets the
program wait, and any state in which a call is stuck is reported.

**Fairness.** ArtifactPublication and SessionEnvelope assume that a call that can take a step takes
one, for each process that has not died (the processes are independent and block on nothing but
the lock they poll), and that a minute passes for a lock whose owner is dead. Under that, who
waits for a lock gets on. Calls are bounded, so nobody is starved by newcomers for ever: the
code has no queue and makes no promise of that kind. The other modules state no fairness and no
liveness: a failed reconciliation, build or confirmation is retried only if someone does so.

## 4. Proofs

Eight modules hold machine-checked proofs (TLAPS). They are about every value of the
constants under the named assumptions of the modules: sets that the code keeps finite are
finite, bounds are naturals, constant functions have their types, and `None`, which stands for a
missing file, lock, call or argument, is none of the things it stands next to
(`NoneIsNoFile`, `NoneIsNoLock`, `NoneIsNoDirectory`). None of them uses fairness. In each
module one inductive invariant (`Inductive` in the first, `IInv` in most others) has the type
invariant as a conjunct; a lemma shows it for the initial states, and one lemma per action, or
per group of actions with the same effect, shows that a step preserves it. TLC checked
the invariants on the runs' instances before they were proved.

| module | theorem | property |
|---|---|---|
| PermissionedRevisionProofs | `FinishIsSound`, `HalfDoneClosed`, `RetriesConverge`, `NeverLost` | `FinishSound`, `HalfDoneIsClosed`, `RetryConverges`, `PublishNeverLost` |
| DecisionsProofs | `BindingsAlwaysExact`, `AlwaysAgreesWithModel`, `RevocationGrantsNothing`; `TraversesExactly`; `ReplaysExactly`; `SpoiltInFourWays` | `BindingsExact`, `AgreesWithModel`, `RevocationNeverGrants`; `TraversalExact`; `ReplayExact`; `SpoiltOnlyByLapses` |
| CatalogProofs | `PlansAreReplayed`, `FailuresAreWithheld`, `ReconcilesExactly`, `RevokesExactly`, `AlwaysPlans`, `ServesGrounded`, `GraphsDerive` | `PlansReplay`, `FailureWithheld`, `ReconciliationExact`, `RevocationExact`, `AlwaysPlannable`, `SourceGrounded`, `GraphDerivable` |
| AuthorizedQueryProofs | `NothingRevokedCached`, `CapacityKept`, `SnapshotsFaithful`, `AnswersAuthorized`, `PromiseKept` | `NoRevokedEntry`, `WithinCapacity`, `SnapshotFaithful`, `AuthorizedAfterLoad`, `KeepsPromise` |
| ProjectionStoreProofs | `AuditsTruthful`, `OwnersSettled`, `ServesAtomically`, `PointersResolvable` | `JournalTruthful`, `OwnerSettledBeforeReplaced`, `ServingAtomically`, `PointerResolvable` |
| SessionEnvelopeProofs | `NoBindIsUndone` | `ReplacedAsExpected` |
| SessionRuntimeProofs | `ShowsTheFirst`, `RunsWhatWasApproved`, `BindingOnDisk`, `KeepsPrincipal` | `FirstIsShown`, `AnsweredInOrder`, `BoundAsOnDisk`, `SessionKeepsPrincipal` |
| ArtifactPublicationProofs | `SelectedIsWhole`, `CommitsOneVersion`, `CommitsNothingElse`, `PublishesFromItsBase`, `ExportsFollow` | `SelectedWhole`, `CommitCoherent`, `CommitsOnlyKnowledge`, `PublishedFromBase`, `ExportsFollowPointer` |

**PermissionedRevision.** `FinishSound` alone is not inductive: to know that evidence which moved
is refused one must know that it was touched at an epoch later than the reader's, that this
epoch cannot be reached while the change is under way, and hence that the publisher
does not move under its holder. `Inductive` says so in parts:

* `Exclusive`: one attempt holds the publisher, its reservation is the pending one, and
  the current revision is its base. From it follows `PublishNeverLost`.
* `GateClosed`: what is being changed carries the target revision and is blocked until
  Commit; what was left half changed stays blocked. With `Exclusive` it gives
  `HalfDoneIsClosed`.
* `MovedIsNewer`: evidence that moved under a reader carries a later epoch than the
  reader's, so `Allows` refuses it. It gives `FinishSound`.
* `Progress`: a store that only one plan has touched lies between its two projections,
  and what the plan has applied is in place. It gives `RetryConverges`.

**LocalAuthorizer.** The index counts the tuples of each claim and names exactly its source,
subject and object; the count needs the cardinality of a finite set with one element more or
less. From it, the evaluation in the code and the relations of the model agree layer by layer,
organization to claim, except where the bindings of a claim are incomplete, which the code
denies. The relations are monotone in the tuples and antitone in restrictions, so taking a tuple
away, or adding a restriction, gives nobody anything.

**Traversal.** `TraversalExact` compares what the code gathers hop by hop, in sets of paths that
it extends, prunes and drops, with levels that are defined from the history of denials at the end.
`TraversalInv` says of every stage where the traversal stands on these levels: at an expansion the
frontier is the last level, what was visited are the ends of all of them, and what ended are the
paths that no longer path begins with (`OnLevel`); between the two checks of a hop the
claim paths are those that the denials so far leave; afterwards there is no further level, or the
limit is reached (`AtEnd`). A denial extends the history, and a history determines the
levels it has come to (`LevelsAgree`, `LevelsStay`). The paths that
ended, with the last level, are those that no other path begins with (`TipsAreMaximal`), as each level
is one hop longer than the one before. The nodes and
claims of a graph are finite (`TraversalAssumption`), which the limits on their numbers need.

**ReplayFilter.** The loop's two flags are, at each event, what the property says of the turn the event is
in (`TurnExact`); one step of the loop is one more event in an open turn (`RestrictedOn`, `PlainOn`). A block
is valid when all its events carry the binding of the first one, and there is a first one (`BlockExact`).

Levels and the loop are recursive functions. `LevelsUnfold` and `FilteredUnfold` justify their equations:
a function that solves them exists up to each length, by the least length without one, so the one that
the definition chooses solves them; `Upwards` then carries a fact from each position to the next.

**AuthorizedQuery.** `IInv` has a part for the cache and one for each goroutine:

* `CacheInv`: revisions come from one counter, an entry without a revision is blank, none rests
  on a tombstone, and the capacity is kept. Eviction takes the entry with the oldest revision, which
  exists because a finite set of numbers has a least element; a put into a full cache therefore
  keeps its size.
* `ThreadInv`: a goroutine holds a snapshot on the cached path and only there, and as long as
  the entry has the revision of the snapshot it has its content (`Faithful`; a revision is never
  given out twice); what it has allowed since its exact load covers what it is about to return
  (`CheckedSinceLoad`, phase by phase).

`Revised` is the fact about the cache that the other goroutines need of a step: every entry was
kept, blanked or stamped with a revision nobody has seen. `PromiseKept` is step simulation: a
goroutine's step is an answer from unrevoked evidence or a stutter of ProtectedAnswers, and the
coordinator's steps only add to what is revoked.

**ProjectionStore.** `Locked` says that only the holder of the file lock is in a call, and `Knows` what
this one knows to be on disk at each of its writes. `FilesInv` is what an interruption leaves:
files hold what their names say, the pointer's owner is in the journal with its receipts and with what
it replaced, and a plan that was served owns the pointer still or its run says that it
succeeded. As the lock is freed when its holder dies, a crash only forgets `Knows`, and the next
caller rebuilds it from `FilesInv`. `ServesAtomically` maps each write to a step of
CatalogServing or a stutter, the write of the pointer being the one that counts.

`PointersResolvable` has the hypothesis `AttemptsOfOnePair`: the plans of the journal are the
attempts of one pair of versions, each but the first a retry of those before it. Builds use a
journal so (`projectionJournalRoot`, `nextProjectionRunIdentity`). `PairInv` then says that an
attempt that anybody has, or that is in the journal, comes after attempts that are over and own
the pointer no more (`RetiredBefore`), which stays so (`RetiredStays`), and hence that a run is withheld only
for a receipt that failed. The hypothesis is needed: with a rival, a plan that is found stale with all
its receipts is withheld, and when it is cut short then and the base is served again by a
rollback, its retry takes the pointer with the withheld projection still in the run.
`PointersResolvableUnlessWithheld` says, without any hypothesis, that this is the only way; the
run, which adds a successor of the pair, has no such state either.

**SessionEnvelope.** The lock directory names no owner, so the invariant is about who thinks what of it:
only a lock that a dead program left gets old, and a held lock was seen stale by nobody. Unless a
recovery renamed a lock it had not found stale (`stolen`), there is one program between Acquire
and Unlock (`LockExcludes`), and the envelope it is about to replace is the one it rechecked.

**SessionRuntime.** The invariant falls into two halves that each step preserves independently.
`Bindings` says of each label of a call whether the binding in memory, the envelope on disk and
the values the call carries agree, or in which of the two ways they came apart (`torn`, no
envelope), unless another program came in between (`rebound`). `Books` says that the bridge's queue is the
waiting requests in the order of their ids, and that whatever waits is newer than every answer
of its session. `Phases` rests on it: no other session has an open confirmation, at most one of the
live session is open, the oldest (`OnlyOffer`); a message, a slash command or a resumption finds none
open but a covered one (`Quiet`), and a confirmation whose request was consumed finds nothing
offered yet (`NothingOpen`). `CoveredWaits` says of the covered ones (`hidden`) that they wait, which is
why nothing of their session is ever offered again.

**ReleaseGate.** The theorem has no hypothesis about who works on the workspace. `GateInv` says what
holds as long as no lapse was recorded that could spoil it: results tell which artifacts were asked
wherever they are carried, through commits and checkouts; a release that has passed the gate
would pass it again, and at the tag HEAD would; tags are what the property says. `Noted` is
what a step records, from which each part survives the steps that anybody takes meanwhile.

**Catalog.** `CatalogInv` says of the last run what the properties say, and of what serves (`BaseInv`) what
the next run needs: that it passes the code's validator, that records are there where they must be, that no
plan it remembers is of a later version, and that no set of resources that serve rests on itself
(`Grounded`). The last is not something a projection's validator looks at, which sees one
resource at a time: it comes from the catalog's check for cycles or from the layers of a build, and is
kept by revocation, as what is kept rests on nothing it did not rest on before. It gives
`SourceGrounded`. Each step is proved once for every plan that is accepted, then for the three kinds of runs.

* *Planning and replay.* `PlanIsAccepted` turns a plan into its parts; `ReplayIs`, `NothingLess` and `RetryIs`
  compute what `Replay` does with a plan, with one that lacks an operation and with one it has
  seen, from the two modules' separate definitions of a complete plan.
* *Revocation.* `ClosureClosed` and `ClosureLeast`: the rounds of the planner's queue have reached their end when
  there were as many as resources, and end with the least set that contains the selection and every
  resource that it invalidates. What stands without the selection is then left out of each
  round (`StandsApart`), and what is left out of all of them stands (`KeptStands`), so the
  two are `Survivors`. The rounds are a recursive function: `RoundsExist` is the argument by the
  least counterexample.
* *What serves next.* A catalog (`CatalogGrounded`), the bundle of a build (`MaterializedGrounded`) and what a
  revocation keeps (`KeptGrounded`) are each valid, recorded and grounded, and replay and
  publication serve exactly them.
* *There is always a plan.* `AlwaysPlans` needs more of the projection that serves than its validator looks
  at, `WholeServes`: what is live refers only to what is live, a chunk to its document, and the snapshot has
  each document that serves, once. It is kept on top of `CatalogInv` (`StepWhole`). From it, what a
  revocation keeps (`KeptSound`), what a build makes (`MaterializedSound`) and what ends as a tombstone or as
  revoked (`EndedValid`) each pass every check of the planner (`SoundPlans`), the number of
  documents in the snapshot included (`CountedOnce`), and the bundle that a build writes first passes the
  validators of projection and graph (`BundlePublishable`).

The assumptions: ids are finitely many; catalogs and sources have the types of the code's structures. A
catalog need not be sound, the planner's validation is part of the proof. `GraphsDerive` has the hypothesis `OneAcl`,
that the resources of a catalog carry the versions of one access list: the graph contract demands one for
all its bindings (`graph_bindings.go`), the planner does not, and the build gives every resource the
same (`projection_build.go:131`); so do the workspaces of the run.

**ArtifactPublication.** What the lock protects holds as long as it excludes, so the theorems are
about behaviours with `[][Undisturbed]_vars`: a contender renames no lock of a living owner, and no
commit goes without a lock for want of a bundles directory. `NothingDisturbs` proves that every
behaviour is of this kind when owners are fast, the directory is there, and there
are two processes or no crash, which covers the run; the other instances are those that section 3
excludes. The invariant says of each process what it knows of its locals (`KnowsCall`), of the disk
while it has the lock (`KnowsDisk`: the staged bundle is whole, the base is current, the exports
match, unrelated work is out of the index) and of the directory it is emptying, which another
process may have renamed since (`KnowsOpened`); and of the repository that the selected bundle is whole and
the index and the head hold one version each.

## 5. Only model-checked, not modelled

Only model-checked: the build (`CatalogBeforeArtifacts`, `LoneBuildPublishes`) and the liveness properties `WaitersServed` and `CallsReturn`. Liveness and
ENABLED have to stay with TLC, as do the library's induction theorems, which take an operator as
parameter: where a proof above goes through a recursive function it argues from a least
counterexample, one function at a time. Type invariants outside the eight
proved modules are stated by each module and hold in the instances above.

`AuthorizedAfterLoad` speaks of cached, reopened and strict answers only: a fresh answer at
`minimize_latency` may rest on a decision the authorizer took from a stale replica, which the
consistency preference permits. `RetryConverges` speaks of retries of one plan: a
different plan, computed from the projection published last, does not know what a failed
one left in the store. `TraversalExact` takes the provider at its word for the claims it names and
not for those it keeps back.

Not modelled, and why:

* validation of provider answers and of records beyond what the catalog's properties tell
  apart, digests, canonical orders, file formats: the answer is an error, and an error is
  possible wherever a call is;
* the KAG client and adapter (one subprocess per call), telemetry, rendering of the terminal,
  the remote repository (every method is unimplemented), the command line: they keep no state
  that others depend on;
* the projection of catalog claims to tuples (an input of the reconciler here), the predicate
  filters of a traversal, the flat files written without a bundle, the listings of the git client.

## 6. Disagreement between code and comments

`release`: `README.md:152` says that "`/release [tag]` requires a clean workspace and a non-stale eval
report with no adapter errors". `gitClient.Dirty` (`git.go:34-38`) answers false when `git status` fails
(it times out, or another process holds what it needs). The gate looks at the results of the
workspace, and when they are not committed and the look of Tag fails, Tag names HEAD all the same.
TLC tags a commit that has no results at all. `SpoiltOnlyByLapses` names the other three ways, which need somebody to work on the workspace during the evaluation or the release.

`revision_grants`: the lifecycle lets a committed grant be used at its target revision
(`revocation_lifecycle.go:83-85`, `reconciliation.go:474`; the test at
`permissioned_revision_test.go:153` expects a granted resource to be available again). `Prepare`
however invalidates every touched resource, granted ones included, and the invalidator
the command line wires (`permissioned_revision.go:45-64`) puts each under a permanent
tombstone of the query cache, so every query whose evidence includes the resource
fails at the cache gate (`service.go:289`) until the process restarts. It fails closed.

`build_wedged`: `doc/adr/0003-permission-safe-graph-projection.md:83` says that after a failed
publication the catalog's pointer is rolled back and the unselected candidate is removed before
retry. `RollbackServing` (`projection_store.go:228`) writes the pointer first and removes the candidate
afterwards; when it is cut short in between, nothing removes the candidate later, and every later
build of the same pair of versions finds it in its way (`ErrJournalConflict`) until the sources change.

## 7. Plan

Done: the modules of section 2 and the proofs of section 4. What would add most next:

1. The invariant of ProjectionBuild that gives `CatalogBeforeArtifacts`.
2. The projection of catalog claims to authorization tuples (`authz/catalog_projection.go`), which
   would join CatalogLifecycle to PermissionedRevision.
