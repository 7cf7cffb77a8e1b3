----------------------------- MODULE ReleaseGate -----------------------------
(***************************************************************************)
(* Evaluation, commit, release and checkout of the versioned service on a  *)
(* Git workspace.  The workspace and a commit consist of three parts: the  *)
(* sources (with configuration and questions), the selected artifacts and  *)
(* the evaluation results.  A knowledge hash is the pair of the first two. *)
(* Evaluation and release take several steps and no lock: an editor, a     *)
(* build, a commit, a checkout and each other may come between any two.    *)
(***************************************************************************)
EXTENDS Naturals, FiniteSets

CONSTANTS
  Source,     \* contents of the sources
  None,       \* absent artifacts, results or answers
  MaxEdits,   \* changes of the sources
  MaxCommits, \* commits
  MaxEvals    \* evaluations

ASSUME ReleaseGateAssumption ==
  /\ None \notin Source /\ Source # {}
  /\ {MaxEdits, MaxCommits, MaxEvals} \subseteq Nat

\* What knowledgeHash covers.
Knowledge == [sources : Source, artifacts : Source \cup {None}]

\* evals/results.jsonl: the hash written, whether there was an adapter
\* error, and, for the properties, the artifacts that were asked.
Results == [hash : Knowledge, failed : BOOLEAN, asked : Source \cup {None}]

Evals == [results : Results \cup {None}, report : BOOLEAN]
Tree == [sources : Source, artifacts : Source \cup {None}, evals : Evals]

VARIABLES
  work,    \* the workspace
  head,    \* the commit HEAD names
  commits, \* the commits of the repository
  tagged,  \* the last release tag: its commit, and the lapses of its release
  eval,    \* the running evaluation: its step and its results
  release, \* the step of the running release
  edits, evals,
  lapses   \* history: in which ways the running release may have gone wrong

gateVars == <<work, head, commits, tagged, eval, release, edits, evals, lapses>>

Way == {"answers", "gated", "status", "head"}

NoEval == [step |-> "none", results |-> None]

GateTypeOK ==
  /\ work \in Tree /\ head \in commits
  /\ commits \subseteq Tree
  /\ tagged \in [tree : commits, lapses : SUBSET Way] \cup {None}
  /\ eval \in [step : {"none", "ask", "hash", "results", "report"},
               results : Results \cup {None}]
  /\ release \in {"none", "gate", "clean", "tag"}
  /\ edits \in 0 .. MaxEdits /\ evals \in 0 .. MaxEvals
  /\ lapses \subseteq Way

GateInit ==
  /\ \E s \in Source :
       work = [sources |-> s, artifacts |-> None,
               evals |-> [results |-> None, report |-> FALSE]]
  /\ head = work /\ commits = {work} /\ tagged = None
  /\ eval = NoEval /\ release = "none"
  /\ edits = 0 /\ evals = 0 /\ lapses = {}

-----------------------------------------------------------------------------
\* Conditions

KnowledgeOf(tree) == [sources |-> tree.sources, artifacts |-> tree.artifacts]

Changed == work # head

\* gitClient.Dirty: where git status fails, the workspace counts as clean.
Dirty(fails) == ~fails /\ Changed

-----------------------------------------------------------------------------
\* One-step operations

Edit(s) ==
  /\ edits < MaxEdits
  /\ s # work.sources
  /\ work' = [work EXCEPT !.sources = s]
  /\ edits' = edits + 1
  /\ UNCHANGED <<head, commits, tagged, eval, release, evals>>

\* service.Build selects the artifacts of the current sources.
Build ==
  /\ work' = [work EXCEPT !.artifacts = work.sources]
  /\ UNCHANGED <<head, commits, tagged, eval, release, edits, evals>>

\* gitClient.Commit; an unchanged tree is an error.
Commit ==
  /\ Changed
  /\ Cardinality(commits \cup {work}) <= MaxCommits
  /\ head' = work
  /\ commits' = commits \cup {work}
  /\ UNCHANGED <<work, tagged, eval, release, edits, evals>>

\* git checkout takes the parts of the ref; one that was changed is kept
\* when the ref does not change it, and is an error otherwise.
Merged(part, ref) == IF work[part] = head[part] THEN ref[part] ELSE work[part]
Conflict(part, ref) == work[part] # head[part] /\ ref[part] # head[part]

Checkout(ref, allowDirty) ==
  /\ ref \in commits
  /\ \E fails \in BOOLEAN : ~Dirty(fails) \/ allowDirty
  /\ \A part \in {"sources", "artifacts", "evals"} : ~Conflict(part, ref)
  /\ work' = [part \in DOMAIN work |-> Merged(part, ref)]
  /\ head' = ref
  /\ UNCHANGED <<commits, tagged, eval, release, edits, evals>>

-----------------------------------------------------------------------------
\* Eval

\* The questions and the selected manifest are read once.
EvalBegin ==
  /\ eval.step = "none" /\ evals < MaxEvals
  /\ eval' = [step |-> "ask",
              results |-> [hash |-> KnowledgeOf(work), failed |-> FALSE,
                           asked |-> work.artifacts]]
  /\ evals' = evals + 1
  /\ UNCHANGED <<work, head, commits, tagged, release, edits>>

\* The questions are explained; an adapter error is a result.
EvalAsk ==
  /\ eval.step = "ask"
  /\ \E failed \in BOOLEAN :
       eval' = [eval EXCEPT !.step = "hash", !.results.failed = failed]
  /\ UNCHANGED <<work, head, commits, tagged, release, edits, evals>>

\* KnowledgeHash, when the answers are there.
EvalHash ==
  /\ eval.step = "hash"
  /\ eval' = [eval EXCEPT !.step = "results", !.results.hash = KnowledgeOf(work)]
  /\ UNCHANGED <<work, head, commits, tagged, release, edits, evals>>

\* WriteEval: results.jsonl, then report.md.
WriteResults ==
  /\ eval.step = "results"
  /\ work' = [work EXCEPT !.evals.results = eval.results]
  /\ eval' = [eval EXCEPT !.step = "report"]
  /\ UNCHANGED <<head, commits, tagged, release, edits, evals>>

WriteReport ==
  /\ eval.step = "report"
  /\ work' = [work EXCEPT !.evals.report = TRUE]
  /\ eval' = NoEval
  /\ UNCHANGED <<head, commits, tagged, release, edits, evals>>

\* The evaluation fails or its process stops.
EvalAbort ==
  /\ eval.step # "none"
  /\ eval' = NoEval
  /\ UNCHANGED <<work, head, commits, tagged, release, edits, evals>>

-----------------------------------------------------------------------------
\* Release

EndRelease ==
  /\ release' = "none"
  /\ UNCHANGED <<work, head, commits, tagged, eval, edits, evals>>

Goto(step) ==
  /\ release' = step
  /\ UNCHANGED <<work, head, commits, tagged, eval, edits, evals>>

ReleaseBegin ==
  /\ release = "none"
  /\ \E fails \in BOOLEAN : ~Dirty(fails)
  /\ Goto("gate")

\* Faulty variant: results of any knowledge version will do.
StaleGateOpen ==
  LET e == work.evals
  IN e.report /\ e.results # None /\ ~e.results.failed

\* evalGate
GateOpen ==
  LET e == work.evals
  IN /\ e.report
     /\ e.results # None
     /\ e.results.hash = KnowledgeOf(work)
     /\ ~e.results.failed

ReleaseGate ==
  /\ release = "gate"
  /\ IF GateOpen THEN Goto("clean") ELSE EndRelease

\* Tag looks at the workspace again ...
TagClean ==
  /\ release = "clean"
  /\ \E fails \in BOOLEAN : IF Dirty(fails) THEN EndRelease ELSE Goto("tag")

\* ... and git tag names HEAD.
TagHead ==
  /\ release = "tag"
  /\ tagged' = [tree |-> head, lapses |-> lapses]
  /\ release' = "none"
  /\ UNCHANGED <<work, head, commits, eval, edits, evals>>

-----------------------------------------------------------------------------
\* What can spoil a release, recorded by the step that does it: other artifacts
\* are selected between the questions and the knowledge hash; the workspace
\* moves between the gate and the second look; that look fails while there are
\* changes; HEAD moves before the tag.  The last three are about one release;
\* the first spoils results, which any later release may find.
Lapse(way) ==
  CASE way = "answers" -> eval.step \in {"ask", "hash"} /\ work'.artifacts # work.artifacts
    [] way = "gated"   -> release = "clean" /\ work' # work
    [] way = "status"  -> release = "clean" /\ release' = "tag" /\ Changed
    [] way = "head"  -> release = "tag" /\ head' # head

GateStep ==
  \/ \E s \in Source : Edit(s)
  \/ Build \/ Commit
  \/ \E ref \in commits, allowDirty \in BOOLEAN : Checkout(ref, allowDirty)
  \/ EvalBegin \/ EvalAsk \/ EvalHash \/ WriteResults \/ WriteReport \/ EvalAbort
  \/ ReleaseBegin \/ ReleaseGate \/ TagClean \/ TagHead

Lasting == IF release = "none" THEN lapses \cap {"answers"} ELSE lapses

GateNext == GateStep /\ lapses' = Lasting \cup {way \in Way : Lapse(way)}

GateSpec == GateInit /\ [][GateNext]_gateVars

-----------------------------------------------------------------------------
\* Properties

\* The results in a tagged commit are without an error and of its knowledge.
Fresh(tree) ==
  LET r == tree.evals.results
  IN r # None /\ ~r.failed /\ r.hash = KnowledgeOf(tree)

\* README: "/release [tag] requires a clean workspace and a non-stale eval
\* report with no adapter errors."  What a tag names was evaluated as it
\* stands: its results are fresh and its artifacts are the ones that were asked.
ReleasesEvaluated ==
  tagged # None =>
    Fresh(tagged.tree) /\ tagged.tree.evals.results.asked = tagged.tree.artifacts

\* Nothing but those four ways leads to another release, whoever works on the
\* workspace during evaluations and releases, and whatever spoilt earlier
\* releases: stale results are refused, results carried by commits and checkouts
\* keep their meaning, and a failing first look (service.Release) does no harm.
SpoiltOnlyByLapses ==
  tagged # None =>
    /\ tagged.lapses \subseteq {"answers"} => Fresh(tagged.tree)
    /\ tagged.lapses = {} => tagged.tree.evals.results.asked = tagged.tree.artifacts

=============================================================================
