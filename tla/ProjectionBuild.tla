--------------------------- MODULE ProjectionBuild ---------------------------
(***************************************************************************)
(* Build of the versioned knowledge service.  A build derives a projection *)
(* version from the sources, runs the plan from the selected version to it *)
(* in a journal of that pair, and then selects the staged bundle.  Several *)
(* processes may build at once: only the calls on one journal exclude each *)
(* other, and the publication of artifacts compares and swaps.             *)
(* ProjectionStore and ArtifactPublication describe those calls write by   *)
(* write; here each is one step, with what may be left when it is cut      *)
(* short.                                                                  *)
(***************************************************************************)
EXTENDS Naturals, FiniteSetsExt

CONSTANTS
  Builder,     \* processes that build
  Version,     \* projection versions
  Scope,       \* tenant and namespace of the configuration
  ScopeOf,     \* the scope of a version
  None,        \* no run, no selection
  MaxAttempts, \* run identities of one journal
  MaxBuilds,   \* builds
  MaxFaults,   \* errors and crashes
  MaxEdits     \* edits, checkouts and commits between the steps of builds

ASSUME ProjectionBuildAssumption ==
  /\ ScopeOf \in [Version -> Scope]
  /\ Version \cap Scope = {} /\ None \notin Nat \cup Version \cup Scope
  /\ MaxAttempts \in Nat \ {0} /\ MaxBuilds \in Nat
  /\ MaxFaults \in Nat /\ MaxEdits \in Nat

\* The base of a plan: a version, or the empty projection of a scope, which
\* goes by the name of the scope.
Base == Version \cup Scope
Selection == Version \cup {None}

\* projectionJournalRoot: one journal per base and successor, of one scope.
Pair == {j \in Base \X Version :
           j[1] \in {ScopeOf[j[2]]} \cup {v \in Version \ {j[2]} : ScopeOf[v] = ScopeOf[j[2]]}}

Attempt == 1 .. MaxAttempts

\* A run with the operations whose receipts say that they succeeded (KAG
\* build, then staging), and whether there is a receipt that says failed.
Run == [state : {"absent", "running", "succeeded", "failed"}, done : 0 .. 2,
        failing : BOOLEAN]

\* The owner of the serving pointer is None while it names the base, and
\* the candidate is the run whose plan wrote the target's projection file.
Journal == [owner : Attempt \cup {None}, candidate : Attempt \cup {None},
            runs : [Attempt -> Run]]

VARIABLES
  sources,  \* the version that the sources and the configuration give
  selected, \* the version artifacts/current.json names, if it is there
  journals, \* the projection journals
  built,    \* versions whose KAG namespace is built
  staged,   \* versions with a staged bundle
  pc,       \* the next step of a build
  build,    \* its target, base, publication base and run
  builds, faults, edits,
  \* history
  lone,     \* nobody else has worked on the workspace during the build
  served,   \* journals whose serving pointer has reached the target
  halfway,  \* journals with a rollback that was cut short
  chosen    \* selections there have been

files == <<selected, journals, built, staged>>
vars == <<sources, files, pc, build, builds, faults, edits, lone, served, halfway, chosen>>

Step == {"idle", "base", "open", "serving", "identity", "verify", "execute",
         "corpus", "stage", "recheck", "publish", "reconcile", "restore"}

NoRun == [state |-> "absent", done |-> 0, failing |-> FALSE]

TypeOK ==
  /\ sources \in Version /\ selected \in Selection
  /\ journals \in [Pair -> Journal]
  /\ built \subseteq Version /\ staged \subseteq Version
  /\ pc \in [Builder -> Step]
  /\ build \in [Builder -> [target : Version, base : Base, publication : Selection,
                            run : Attempt \cup {None}]]
  /\ builds \in 0 .. MaxBuilds /\ faults \in 0 .. MaxFaults /\ edits \in 0 .. MaxEdits
  /\ lone \in [Builder -> BOOLEAN]
  /\ served \subseteq Pair /\ halfway \subseteq Pair /\ chosen \subseteq Selection

\* What a build knows when it has read the sources.
Started == [target |-> sources, base |-> ScopeOf[sources], publication |-> None, run |-> None]

Init ==
  /\ sources \in Version /\ selected = None
  /\ journals = [j \in Pair |-> [owner |-> None, candidate |-> None,
                                 runs |-> [a \in Attempt |-> NoRun]]]
  /\ built = {} /\ staged = {}
  /\ pc = [b \in Builder |-> "idle"]
  /\ build = [b \in Builder |-> Started]
  /\ builds = 0 /\ faults = 0 /\ edits = 0
  /\ lone = [b \in Builder |-> FALSE]
  /\ served = {} /\ halfway = {} /\ chosen = {None}

-----------------------------------------------------------------------------
\* Reads and conditions

PairOf(b) == <<build[b].base, build[b].target>>
JournalOf(b) == journals[PairOf(b)]
RunIn(j, a) == journals[j].runs[a]

\* build.noop: the path without a run.
Noop(b) == build[b].run = None

\* nextProjectionRunIdentity passes over a run that failed, and over one
\* that succeeded and does not own the pointer any more.
Retired(j, a) ==
  \/ RunIn(j, a).state = "failed"
  \/ RunIn(j, a).state = "succeeded" /\ journals[j].owner # a

\* selectedBaseProjection: a selected projection of another scope counts as
\* none, and the base is the empty projection of the scope.
BaseIn(scope) ==
  IF selected # None /\ ScopeOf[selected] = scope THEN selected ELSE scope

\* verifySelectedBaseProjection
BaseSelected(b) == BaseIn(ScopeOf[build[b].target]) = build[b].base

\* Faulty variant: the selection is replaced, whatever it is.
AnyPublicationBase(b) == TRUE

\* compareArtifactPublicationBase, under the publication lock
PublicationBaseMatches(b) == selected = build[b].publication

\* writeJSONOnce of the candidate: its content names the plan.
CandidateFree(j, a) == journals[j].candidate \in {None, a}

-----------------------------------------------------------------------------
\* Control of a build

Active(b) == pc[b] # "idle"
At(b, step) == pc[b] = step
Goto(b, step) == pc' = [pc EXCEPT ![b] = step]

\* The build returns, with an answer or an error.
Return(b) == Goto(b, "idle")

Fault(b) ==
  /\ faults < MaxFaults /\ faults' = faults + 1
  /\ lone' = [lone EXCEPT ![b] = FALSE]

NoFault == UNCHANGED <<faults, lone>>

\* The other builds of the moment are not alone.
Disturb(others) == lone' = [b \in Builder |-> lone[b] /\ b \notin others]

Unless(ok, b, step) == Goto(b, IF ok THEN step ELSE "idle")

-----------------------------------------------------------------------------
\* prepareArtifactProjection

\* Sources and configuration are read, and the version computed from them.
ReadSources(b) ==
  /\ At(b, "idle") /\ builds < MaxBuilds
  /\ builds' = builds + 1
  /\ build' = [build EXCEPT ![b] = Started]
  /\ lone' = [c \in Builder |-> c = b /\ \A d \in Builder : ~Active(d)]
  /\ Goto(b, "base")
  /\ UNCHANGED <<files, served, halfway, chosen, faults>>

\* The base of the plan is of the configured scope; the publication base is
\* whatever is selected.
ReadBase(b) ==
  /\ At(b, "base")
  /\ build' = [build EXCEPT ![b].base = BaseIn(ScopeOf[build[b].target]),
                            ![b].publication = selected]
  /\ Goto(b, IF selected = build[b].target THEN "verify" ELSE "open")
  /\ NoFault /\ UNCHANGED <<files, served, halfway, chosen, builds>>

\* InitializeServing: a pointer that names another version is a conflict.
OpenJournal(b) ==
  /\ At(b, "open")
  /\ Goto(b, IF JournalOf(b).owner = None THEN "identity" ELSE "serving")
  /\ NoFault /\ UNCHANGED <<files, build, served, halfway, chosen, builds>>

\* Faulty variant: a journal that serves the target already is an error.
ServingIsConflict(b) ==
  /\ At(b, "serving")
  /\ Return(b)
  /\ NoFault /\ UNCHANGED <<files, build, served, halfway, chosen, builds>>

\* ServingProjection, after a conflict
ReadServing(b) ==
  /\ At(b, "serving")
  /\ Unless(JournalOf(b).owner # None, b, "verify")
  /\ NoFault /\ UNCHANGED <<files, build, served, halfway, chosen, builds>>

NextRunIdentity(b) ==
  LET live == {a \in Attempt : ~Retired(PairOf(b), a)}
  IN /\ At(b, "identity")
     /\ live # {}
     /\ build' = [build EXCEPT ![b].run = Min(live)]
     /\ Goto(b, "verify")
     /\ NoFault /\ UNCHANGED <<files, served, halfway, chosen, builds>>

-----------------------------------------------------------------------------
\* executeProjectionBuild

VerifyBase(b) ==
  /\ At(b, "verify")
  /\ Unless(BaseSelected(b), b, IF Noop(b) THEN "corpus" ELSE "execute")
  /\ NoFault /\ UNCHANGED <<files, build, served, halfway, chosen, builds>>

SetRun(j, a, state, done, failing) ==
  [journals[j] EXCEPT !.runs[a] = [state |-> state, done |-> done, failing |-> failing]]

\* The operations after the first n run, up to the last.
Operated(b, n, last) ==
  LET t == {build[b].target}
  IN /\ built' = IF n < 1 /\ last >= 1 THEN built \cup t ELSE built
     /\ staged' = IF n < 2 /\ last = 2 THEN staged \cup t ELSE staged

NothingOperated == UNCHANGED <<built, staged>>

\* Execute finds a terminal run and answers from the journal.
AnswerFromJournal(b, j, a) ==
  /\ RunIn(j, a).state \in {"succeeded", "failed"}
  /\ Unless(RunIn(j, a).state = "succeeded", b, "recheck")
  /\ NoFault /\ NothingOperated /\ UNCHANGED <<journals, served>>

\* The pointer has reached the target.  Its owner is settled first; another
\* run is recorded as failed and the build is stale.
SettleOwner(b, j, a) ==
  LET owner == journals[j].owner
      settled == [journals EXCEPT ![j] = SetRun(j, owner, "succeeded", 2, FALSE)]
  IN /\ RunIn(j, a).state \notin {"succeeded", "failed"}
     /\ owner # None
     /\ journals' = IF owner = a THEN settled
          ELSE [settled EXCEPT ![j].runs[a].state = "failed"]
     /\ Unless(owner = a, b, "recheck")
     /\ NoFault /\ NothingOperated /\ UNCHANGED served

\* A run that is to be executed, from the base its plan has.
Open(j, a) ==
  /\ RunIn(j, a).state \in {"absent", "running"}
  /\ journals[j].owner = None

\* The operations without a receipt run in order, and the process stops
\* after some of them.  One that has no receipt may have had its effect.
OperationsCut(b, j, a) ==
  /\ Open(j, a) /\ ~RunIn(j, a).failing
  /\ \E n \in RunIn(j, a).done .. 2, more \in {0, 1} :
       /\ n + more <= 2
       /\ journals' = [journals EXCEPT ![j] = SetRun(j, a, "running", n, FALSE)]
       /\ Operated(b, RunIn(j, a).done, n + more)
  /\ Return(b) /\ Fault(b) /\ UNCHANGED served

\* An operation fails and gets a receipt that says so.  The run is recorded
\* as failed, or the process stops before it is.
OperationFails(b, j, a) ==
  /\ Open(j, a) /\ ~RunIn(j, a).failing
  /\ \E n \in RunIn(j, a).done .. 1, more \in {0, 1}, state \in {"running", "failed"} :
       /\ journals' = [journals EXCEPT ![j] = SetRun(j, a, state, n, TRUE)]
       /\ Operated(b, RunIn(j, a).done, n + more)
  /\ Return(b) /\ Fault(b) /\ UNCHANGED served

\* A run that is taken up with a failed receipt: nothing is operated any
\* more, and the run is recorded as failed.
RecordFailure(b, j, a) ==
  /\ Open(j, a) /\ RunIn(j, a).failing
  /\ journals' = [journals EXCEPT ![j].runs[a].state = "failed"]
  /\ Return(b)
  /\ NoFault /\ NothingOperated /\ UNCHANGED served

\* All operations have receipts: the candidate, the pointer and the run are
\* written, in this order, as far as the process gets.
Advance(b, j, a, written) ==
  LET state == IF written = 3 THEN "succeeded" ELSE "running"
  IN /\ Open(j, a) /\ ~RunIn(j, a).failing
     /\ CandidateFree(j, a)
     /\ journals' = [journals EXCEPT ![j] =
          [SetRun(j, a, state, 2, FALSE) EXCEPT
             !.candidate = a, !.owner = IF written >= 2 THEN a ELSE None]]
     /\ served' = IF written >= 2 THEN served \cup {j} ELSE served
     /\ Operated(b, RunIn(j, a).done, 2)
     /\ IF written = 3 THEN Goto(b, "recheck") /\ NoFault
                       ELSE Return(b) /\ Fault(b)

\* The candidate of another plan is in the way: ErrJournalConflict.
CandidateConflict(b, j, a) ==
  /\ Open(j, a) /\ ~RunIn(j, a).failing
  /\ ~CandidateFree(j, a)
  /\ journals' = [journals EXCEPT ![j] = SetRun(j, a, "running", 2, FALSE)]
  /\ Operated(b, RunIn(j, a).done, 2)
  /\ Return(b) /\ NoFault /\ UNCHANGED served

Execute(b) ==
  LET j == PairOf(b)  a == build[b].run
  IN /\ At(b, "execute")
     /\ \/ AnswerFromJournal(b, j, a)
        \/ SettleOwner(b, j, a)
        \/ OperationsCut(b, j, a)
        \/ OperationFails(b, j, a)
        \/ RecordFailure(b, j, a)
        \/ \E written \in 1 .. 3 : Advance(b, j, a, written)
        \/ CandidateConflict(b, j, a)
     /\ UNCHANGED <<selected, build, halfway, chosen, builds>>

\* Without a run, the namespace is built and the bundle staged again.
BuildCorpus(b) ==
  /\ At(b, "corpus")
  /\ built' = built \cup {build[b].target}
  /\ Goto(b, "stage")
  /\ NoFault
  /\ UNCHANGED <<selected, journals, staged, build, served, halfway, chosen, builds>>

StageArtifacts(b) ==
  /\ At(b, "stage")
  /\ staged' = staged \cup {build[b].target}
  /\ Goto(b, "recheck")
  /\ NoFault
  /\ UNCHANGED <<selected, journals, built, build, served, halfway, chosen, builds>>

RecheckBase(b) ==
  /\ At(b, "recheck")
  /\ Unless(BaseSelected(b), b, "publish")
  /\ NoFault /\ UNCHANGED <<files, build, served, halfway, chosen, builds>>

\* PublishArtifacts: it needs the staged bundle and the selection the build
\* started from.  It may fail although the selection has moved.
AfterError(b) == Goto(b, IF Noop(b) THEN "idle" ELSE "reconcile")

Publish(b) ==
  LET may == PublicationBaseMatches(b) /\ build[b].target \in staged
  IN /\ At(b, "publish")
     /\ \/ ~may /\ AfterError(b) /\ NoFault /\ UNCHANGED <<selected, chosen>>
        \/ AfterError(b) /\ Fault(b) /\ UNCHANGED <<selected, chosen>>
        \/ /\ may
           /\ selected' = build[b].target
           /\ chosen' = chosen \cup {selected'}
           /\ \/ Return(b) /\ NoFault
              \/ AfterError(b) /\ Fault(b)
     /\ UNCHANGED <<journals, built, staged, build, served, halfway, builds>>

\* reconcileArtifactPublicationFailure: the publication has been committed
\* after all, or the base is selected still and the pointer goes back to it.
\* The empty base counts as selected only if nothing was and is selected:
\* after a change of scope the pointer stays where it is.
BaseStillSelected(b) ==
  \/ selected = build[b].base
  \/ selected = None /\ build[b].publication = None

Reconcile(b) ==
  /\ At(b, "reconcile")
  /\ Unless(BaseStillSelected(b), b, "restore")
  /\ NoFault /\ UNCHANGED <<files, build, served, halfway, chosen, builds>>

\* RollbackServing writes the pointer and then removes the candidate.
RollbackServing(b) ==
  LET j == PairOf(b)
      restored == [journals[j] EXCEPT !.owner = None]
  IN /\ At(b, "restore")
     /\ \/ /\ journals[j].owner # build[b].run
           /\ NoFault /\ UNCHANGED <<journals, halfway>>
        \/ /\ journals[j].owner = build[b].run
           /\ journals' = [journals EXCEPT ![j] = [restored EXCEPT !.candidate = None]]
           /\ NoFault /\ UNCHANGED halfway
        \/ /\ journals[j].owner = build[b].run
           /\ journals' = [journals EXCEPT ![j] = restored]
           /\ halfway' = halfway \cup {j}
           /\ Fault(b)
     /\ Return(b)
     /\ UNCHANGED <<selected, built, staged, build, served, chosen, builds>>

\* Any other step fails, or the process stops.
Stop(b) ==
  /\ Active(b) /\ Return(b) /\ Fault(b)
  /\ UNCHANGED <<files, build, served, halfway, chosen, builds>>

Build(b) ==
  \/ ReadSources(b) \/ ReadBase(b) \/ OpenJournal(b) \/ ReadServing(b)
  \/ NextRunIdentity(b) \/ VerifyBase(b) \/ Execute(b) \/ BuildCorpus(b)
  \/ StageArtifacts(b) \/ RecheckBase(b) \/ Publish(b) \/ Reconcile(b)
  \/ RollbackServing(b) \/ Stop(b)

-----------------------------------------------------------------------------
\* The rest of the workspace

\* Other sources, or another namespace in the configuration.
EditSources ==
  /\ sources' \in Version \ {sources}
  /\ UNCHANGED <<selected, staged, chosen>>

\* An earlier commit with its sources, artifacts and bundle.
Checkout ==
  \E v \in chosen :
    /\ selected' = v
    /\ sources' \in Version
    /\ staged' = staged \cup ({v} \cap Version)
    /\ UNCHANGED chosen

\* Commit prunes the bundles that are not selected.
CommitPrunes ==
  /\ staged' = staged \cap {selected}
  /\ UNCHANGED <<sources, selected, chosen>>

Edit ==
  /\ edits < MaxEdits /\ edits' = edits + 1
  /\ EditSources \/ Checkout \/ CommitPrunes
  /\ Disturb(Builder)
  /\ UNCHANGED <<journals, built, pc, build, builds, faults, served, halfway>>

AtRest == (\A b \in Builder : ~Active(b)) /\ UNCHANGED vars

Next ==
  \/ \E b \in Builder : Build(b) /\ UNCHANGED <<sources, edits>>
  \/ Edit
  \/ AtRest

Spec == Init /\ [][Next]_vars

-----------------------------------------------------------------------------
\* Properties

\* "Catalog projection publication succeeds before artifacts/current.json
\* advances" (ADR 0003): a build moves the selection to a version only if
\* that version was served by the journal in which it succeeds what the
\* selection was for its scope, the empty projection after a change of
\* scope, and with the namespace built and the bundle staged, whatever other
\* builds, checkouts, changes of scope and crashes came between its steps.
CatalogBeforeArtifacts ==
  [][ (selected' # selected /\ edits' = edits) =>
        /\ <<BaseIn(ScopeOf[selected']), selected'>> \in served
        /\ selected' \in built \cap staged ]_vars

\* The candidate that a rollback, cut short, left in the journal is in the way.
Wedged(b) ==
  /\ At(b, "execute")
  /\ PairOf(b) \in halfway /\ ~CandidateFree(PairOf(b), build[b].run)

\* The run that the build took up has a failed receipt; now it is recorded.
FailureTakenUp(b) ==
  /\ At(b, "execute")
  /\ RunIn(PairOf(b), build[b].run).failing
  /\ journals'[PairOf(b)].runs[build[b].run].state = "failed"

\* The run has the receipt of a staging whose bundle a commit has pruned since.
BundlePruned(b) ==
  /\ ~Noop(b) /\ RunIn(PairOf(b), build[b].run).done = 2
  /\ build[b].target \notin staged

\* A build that nobody disturbs publishes what the sources say, whatever
\* earlier builds left in its journal when they crashed, failed or were
\* overtaken.  There are three exceptions: a rollback that was cut short, a
\* failure that an earlier build stopped before recording, which this build
\* records instead so that the next one gets a new run, and a bundle that a
\* commit pruned after the staging got its receipt.
LoneBuildPublishes ==
  [][ \A b \in Builder : (Active(b) /\ pc'[b] = "idle" /\ lone[b] /\ lone'[b]) =>
        selected' = sources \/ Wedged(b) \/ FailureTakenUp(b) \/ BundlePruned(b) ]_vars

\* ADR 0003 says that after a failed publication "the unselected Catalog
\* candidate is removed before retry": a build that runs alone finds no
\* candidate in its way but its own.
CandidateRemovedBeforeRetry ==
  \A b \in Builder : (At(b, "execute") /\ lone[b]) =>
    \/ JournalOf(b).owner # None
    \/ CandidateFree(PairOf(b), build[b].run)

=============================================================================
