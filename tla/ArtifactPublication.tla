------------------------- MODULE ArtifactPublication -------------------------
(***************************************************************************)
(* The artifacts directory of a workspace: immutable bundles are staged    *)
(* without a lock, one is selected by current.json under the publication   *)
(* lock, the flat compatibility exports follow it, and git.Commit prunes   *)
(* the bundles that are not selected and commits the one that is.  A step  *)
(* is a system call, or some that nobody can come between.  A bundle is    *)
(* known by its version, which is its projection ID and fixes its files.   *)
(***************************************************************************)
EXTENDS PublicationLock, FiniteSets

CONSTANTS
  Version,    \* projection versions
  FileCount,  \* files of a bundle, in the order written; the manifest last
  Started,    \* the bundles directory exists from the beginning
  MaxCalls,   \* calls made
  MaxErrors,  \* calls that end early with an error
  MaxCrashes  \* processes that stop for good

ASSUME ArtifactPublicationAssumption ==
  /\ Version \cap Proc = {} /\ None \notin Version
  /\ FileCount \in Nat \ {0}
  /\ Started \in BOOLEAN
  /\ {MaxCalls, MaxErrors, MaxCrashes} \subseteq Nat

File == 1 .. FileCount

ASSUME NoneIsNoDirectory == \A files \in SUBSET File : None # files

\* Entries of bundles/: a bundle, or the temporary directory of a stager.
Entry == Version \cup Proc

VARIABLES
  bundlesDir,  \* artifacts/bundles exists
  bundles,     \* its entries: the files in each, None when there is none
  current,     \* current.json
  exports,     \* the flat compatibility files, by the version they came from
  index,       \* the Git index: the artifacts added, and somebody's change
  head,        \* the last commit
  call,        \* the arguments and local variables of a process's call
  calls, errors, crashes

diskVars == <<bundlesDir, bundles, current, exports>>
gitVars == <<index, head>>
bounds == <<calls, errors, crashes>>
vars == <<lockVars, diskVars, gitVars, call, bounds>>

Snapshot == [current : Version \cup {None}, bundle : Version \cup {None},
             exports : [File -> Version \cup {None}]]
NoSnapshot == [current |-> None, bundle |-> None, exports |-> [f \in File |-> None]]

Kind == {"build", "commit", "read"}

Call == [kind : Kind, version : Version \cup {None}, base : Version \cup {None},
         next : 1 .. FileCount + 1, locked : BOOLEAN, shelved : BOOLEAN,
         doomed : SUBSET Entry, victim : Entry \cup {None},
         opened : Entry \cup {None}, unlinks : SUBSET File]

NoCall == [kind |-> "read", version |-> None, base |-> None, next |-> 1,
           locked |-> FALSE, shelved |-> FALSE, doomed |-> {},
           victim |-> None, opened |-> None, unlinks |-> {}]

PC == {"idle", "dead", "lock", "steal", "release", "unlock",
       "stage", "write", "rename", "exports", "verify", "compare", "select",
       "refresh", "guard", "paths", "shelve", "keep", "list", "prune",
       "empty", "rmdir", "add", "commit", "restore", "files", "recheck"}

TypeOK ==
  /\ lockFile \in LockFile \cup {None}
  /\ slow \in 0 .. MaxSlow
  /\ pc \in [Proc -> PC]
  /\ bundlesDir \in BOOLEAN
  /\ bundles \in [Entry -> (SUBSET File) \cup {None}]
  /\ current \in Version \cup {None}
  /\ exports \in [File -> Version \cup {None}]
  /\ index \in [artifacts : Snapshot, unrelated : BOOLEAN]
  /\ head \in [artifacts : Snapshot, unrelated : BOOLEAN]
  /\ call \in [Proc -> Call]
  /\ calls \in 0 .. MaxCalls /\ errors \in 0 .. MaxErrors
  /\ crashes \in 0 .. MaxCrashes

Init ==
  /\ LockInit
  /\ pc = [p \in Proc |-> "idle"]
  /\ bundlesDir = Started
  /\ bundles = [e \in Entry |-> None]
  /\ current = None
  /\ exports = [f \in File |-> None]
  /\ index = [artifacts |-> NoSnapshot, unrelated |-> TRUE]
  /\ head = [artifacts |-> NoSnapshot, unrelated |-> FALSE]
  /\ call = [p \in Proc |-> NoCall]
  /\ calls = 0 /\ errors = 0 /\ crashes = 0

-----------------------------------------------------------------------------
\* Conditions and control

\* verifyImmutableBundle, verifyStagedArtifactBundle
Whole(e) == bundles[e] = File

Holds(e, files) == bundles[e] # None /\ files \subseteq bundles[e]

\* ReadCurrentArtifactManifest: nothing is selected, or all of it is there.
SelectionValid == current # None => Whole(current)

\* requireArtifactExport for every exported file
ExportsMatch(v) == \A f \in File : exports[f] = v

Set(p, field, value) == [call EXCEPT ![p][field] = value]

\* The calls as they see it when a directory gets another name, or none.
Renamed(e, name) ==
  [q \in Proc |-> IF call[q].opened = e THEN [call[q] EXCEPT !.opened = name] ELSE call[q]]

Only(p, label) ==
  /\ Goto(p, label)
  /\ UNCHANGED <<diskVars, gitVars, call>>

\* The deferred calls of a call that returns: a temporary directory is
\* removed, other people's index entries are restored, the lock is released.
Leave(p) ==
  /\ Goto(p, CASE call[p].shelved -> "restore"
               [] ~call[p].shelved /\ call[p].locked -> "release"
               [] OTHER -> "idle")
  /\ bundles' = [bundles EXCEPT ![p] = None]
  /\ call' = Renamed(p, None)
  /\ UNCHANGED <<bundlesDir, current, exports, gitVars>>

Begin(p, new, label) ==
  /\ At(p, "idle")
  /\ calls < MaxCalls
  /\ calls' = calls + 1
  /\ call' = [call EXCEPT ![p] = new]
  /\ Goto(p, label)
  /\ UNCHANGED <<lockFile, slow, diskVars, gitVars, errors, crashes>>

\* writeArtifactBundle reads the base before it stages.
BeginBuild(p) ==
  \E v \in Version :
    Begin(p, [NoCall EXCEPT !.kind = "build", !.version = v, !.base = current], "stage")

BeginCommit(p) == Begin(p, [NoCall EXCEPT !.kind = "commit"], "guard")

\* readCurrentArtifactSelection: the pointer, and the manifest it names.
BeginRead(p) ==
  /\ current # None
  /\ Holds(current, {FileCount})
  /\ Begin(p, [NoCall EXCEPT !.version = current], "files")

-----------------------------------------------------------------------------
\* StageArtifacts: no lock

\* ensureImmutableBundle finds the bundle, or makes a temporary directory.
Stage(p) ==
  LET v == call[p].version
  IN /\ At(p, "stage")
     /\ bundlesDir' = TRUE
     /\ IF bundles[v] # None
        THEN /\ Goto(p, IF Whole(v) THEN "lock" ELSE "idle")
             /\ UNCHANGED bundles
        ELSE /\ bundles' = [bundles EXCEPT ![p] = {}]
             /\ Goto(p, "write")
     /\ UNCHANGED <<current, exports, gitVars, call>>

\* The files in order, into the directory as long as it is there.
WriteFile(p) ==
  LET f == call[p].next
  IN /\ At(p, "write")
     /\ IF bundles[p] = None THEN Leave(p)
        ELSE /\ bundles' = [bundles EXCEPT ![p] = @ \cup {f}]
             /\ call' = Set(p, "next", f + 1)
             /\ Goto(p, IF f = FileCount THEN "rename" ELSE "write")
             /\ UNCHANGED <<bundlesDir, current, exports, gitVars>>

\* The rename; a directory that somebody has open keeps its files' fate.
RenameBundle(p) ==
  LET v == call[p].version
  IN /\ At(p, "rename")
     /\ \/ bundles[p] = None /\ Leave(p)
        \/ /\ bundles[p] # None /\ bundles[v] = None
           /\ bundles' = [bundles EXCEPT ![v] = bundles[p], ![p] = None]
           /\ call' = Renamed(p, v)
           /\ Goto(p, "lock")
           /\ UNCHANGED <<bundlesDir, current, exports, gitVars>>
        \/ /\ bundles[p] # None /\ bundles[v] # None
           /\ IF Whole(v)
              THEN /\ bundles' = [bundles EXCEPT ![p] = None]
                   /\ call' = Renamed(p, None)
                   /\ Goto(p, "lock")
                   /\ UNCHANGED <<bundlesDir, current, exports, gitVars>>
              ELSE Leave(p)

-----------------------------------------------------------------------------
\* PublishArtifacts and Commit: the lock

Acquire(p) ==
  /\ CreateLock(p, IF call[p].kind = "build" THEN "exports" ELSE "paths")
  /\ call' = Set(p, "locked", TRUE)
  /\ UNCHANGED <<diskVars, gitVars>>

Contend(p) ==
  /\ SeeStaleLock(p) \/ RenameStaleLock(p) \/ ReadToken(p) \/ RemoveLock(p)
  /\ UNCHANGED <<diskVars, gitVars, call>>

\* stageCompatibilityExportsFromBundle: the exported files can be read.
StageExports(p) ==
  LET v == call[p].version
  IN /\ At(p, "exports")
     /\ IF Holds(v, File \ {FileCount})
        THEN Only(p, "verify") ELSE Leave(p)

\* Faulty variant: what was staged is published unseen.
VerifyNothing(p) == At(p, "verify") /\ Only(p, "compare")

VerifyStaged(p) ==
  /\ At(p, "verify")
  /\ IF Whole(call[p].version) THEN Only(p, "compare") ELSE Leave(p)

\* Faulty variant: the pointer is replaced, whoever moved it.
CompareNothing(p) == At(p, "compare") /\ Only(p, "select")

\* compareArtifactPublicationBase
CompareBase(p) ==
  /\ At(p, "compare")
  /\ IF current = call[p].base THEN Only(p, "select") ELSE Leave(p)

\* current.json is the serving commit point.
SelectBundle(p) ==
  /\ At(p, "select")
  /\ current' = call[p].version
  /\ call' = Set(p, "next", 1)
  /\ Goto(p, "refresh")
  /\ UNCHANGED <<bundlesDir, bundles, exports, gitVars>>

\* Faulty variant: the exports are refreshed after the lock is released.
RefreshUnlocked(p) ==
  LET f == call[p].next
  IN /\ At(p, "refresh")
     /\ lockFile' = IF lockFile # None /\ lockFile.token = p THEN None ELSE lockFile
     /\ IF f <= FileCount
        THEN /\ exports' = [exports EXCEPT ![f] = call[p].version]
             /\ call' = Set(p, "next", f + 1)
             /\ UNCHANGED <<pc, bundlesDir, bundles, current, gitVars>>
        ELSE Leave(p)
     /\ UNCHANGED slow

\* stagedCompatibilityExports.publish, file by file and still under the lock.
RefreshExports(p) ==
  LET f == call[p].next
  IN /\ At(p, "refresh")
     /\ IF f <= FileCount
        THEN /\ exports' = [exports EXCEPT ![f] = call[p].version]
             /\ call' = Set(p, "next", f + 1)
             /\ UNCHANGED <<pc, bundlesDir, bundles, current, gitVars>>
        ELSE Leave(p)
     /\ UNCHANGED <<lockFile, slow>>

-----------------------------------------------------------------------------
\* Commit

\* lockArtifactPublicationForCommit: no bundles, no lock.
GuardCommit(p) ==
  /\ At(p, "guard")
  /\ Only(p, IF bundlesDir THEN "lock" ELSE "paths")

\* Faulty variant: the exports are committed as they are.
PathsWithoutExports(p) ==
  /\ At(p, "paths")
  /\ IF SelectionValid
     THEN /\ call' = Set(p, "version", current)
          /\ Goto(p, "shelve")
          /\ UNCHANGED <<diskVars, gitVars>>
     ELSE Leave(p)

\* committableArtifactPaths: the selected bundle, equal to its exports; with
\* no selection, the flat files alone.
CommitPaths(p) ==
  /\ At(p, "paths")
  /\ IF SelectionValid /\ (current # None => ExportsMatch(current))
     THEN /\ call' = Set(p, "version", current)
          /\ Goto(p, "shelve")
          /\ UNCHANGED <<diskVars, gitVars>>
     ELSE Leave(p)

\* Faulty variant: what others have staged stays in the index.
ShelveNothing(p) == At(p, "shelve") /\ Only(p, "keep")

\* shelveUnrelatedStagedChanges
Shelve(p) ==
  /\ At(p, "shelve")
  /\ index' = [index EXCEPT !.unrelated = FALSE]
  /\ call' = Set(p, "shelved", index.unrelated)
  /\ Goto(p, "keep")
  /\ UNCHANGED <<diskVars, head>>

\* pruneUnselectedArtifactBundles reads the selection again ...
PruneKeep(p) ==
  /\ At(p, "keep")
  /\ \/ ~bundlesDir /\ Only(p, "add")
     \/ /\ bundlesDir
        /\ IF SelectionValid
           THEN /\ call' = Set(p, "base", current)
                /\ Goto(p, "list")
                /\ UNCHANGED <<diskVars, gitVars>>
           ELSE Leave(p)

\* ... lists the directory ...
PruneList(p) ==
  /\ At(p, "list")
  /\ call' = Set(p, "doomed", {e \in Entry : bundles[e] # None} \ {call[p].base})
  /\ Goto(p, "prune")
  /\ UNCHANGED <<diskVars, gitVars>>

\* ... and removes the other entries: an empty one at once, one with files
\* by opening it, removing what it held, and then its name.
PruneEntry(p) ==
  /\ At(p, "prune")
  /\ \/ call[p].doomed = {} /\ Only(p, "add")
     \/ \E e \in call[p].doomed :
          IF bundles[e] \in {None, {}}
          THEN /\ bundles' = [bundles EXCEPT ![e] = None]
               /\ call' = [Renamed(e, None) EXCEPT ![p].doomed = @ \ {e}]
               /\ UNCHANGED <<pc, bundlesDir, current, exports, gitVars>>
          ELSE /\ call' = [call EXCEPT ![p].victim = e, ![p].opened = e,
                                       ![p].unlinks = bundles[e]]
               /\ Goto(p, "empty")
               /\ UNCHANGED <<diskVars, gitVars>>

PruneFile(p) ==
  LET e == call[p].opened
  IN /\ At(p, "empty")
     /\ \E f \in call[p].unlinks :
          /\ bundles' = IF e = None THEN bundles
                        ELSE [bundles EXCEPT ![e] = @ \ {f}]
          /\ call' = Set(p, "unlinks", call[p].unlinks \ {f})
          /\ Goto(p, IF call[p].unlinks = {f} THEN "rmdir" ELSE "empty")
     /\ UNCHANGED <<bundlesDir, current, exports, gitVars>>

PruneDirectory(p) ==
  LET e == call[p].victim
  IN /\ At(p, "rmdir")
     /\ IF bundles[e] \in {None, {}}
        THEN /\ bundles' = [bundles EXCEPT ![e] = None]
             /\ call' = [Renamed(e, None) EXCEPT
                  ![p].doomed = @ \ {e}, ![p].victim = None, ![p].opened = None]
             /\ Goto(p, "prune")
             /\ UNCHANGED <<bundlesDir, current, exports, gitVars>>
        ELSE Leave(p)

\* git rm --cached artifacts; git add of the paths found before.
AddPaths(p) ==
  LET v == call[p].version
  IN /\ At(p, "add")
     /\ IF v = None \/ Whole(v)
        THEN /\ index' = [index EXCEPT !.artifacts =
                  [current |-> IF v = None THEN None ELSE current,
                   bundle |-> v, exports |-> exports]]
             /\ Goto(p, "commit")
             /\ UNCHANGED <<diskVars, head, call>>
        ELSE Leave(p)

\* git commit takes the index; nothing to commit is an error.
CommitIndex(p) ==
  /\ At(p, "commit")
  /\ head' = index
  /\ Goto(p, IF call[p].shelved THEN "restore"
             ELSE IF call[p].locked THEN "release" ELSE "idle")
  /\ UNCHANGED <<diskVars, index, call>>

\* restoreStagedChanges, before the lock is released
Restore(p) ==
  /\ At(p, "restore")
  /\ index' = [index EXCEPT !.unrelated = TRUE]
  /\ call' = Set(p, "shelved", FALSE)
  /\ Goto(p, IF call[p].locked THEN "release" ELSE "idle")
  /\ UNCHANGED <<diskVars, head>>

-----------------------------------------------------------------------------
\* ReadCurrentArtifactManifest, Metadata and Bundle

\* The files of the bundle selected first; one is missing: an error.
ReadFiles(p) ==
  LET f == call[p].next
  IN /\ At(p, "files")
     /\ \/ f > FileCount /\ Only(p, "recheck")
        \/ /\ f <= FileCount /\ Holds(call[p].version, {f})
           /\ call' = Set(p, "next", f + 1)
           /\ UNCHANGED <<pc, diskVars, gitVars>>
        \/ f <= FileCount /\ ~Holds(call[p].version, {f}) /\ Leave(p)

\* The pointer is read once more: ErrArtifactPublicationStaleBase.
Recheck(p) ==
  /\ At(p, "recheck")
  /\ IF current = call[p].version
     THEN /\ call' = Set(p, "next", 1)
          /\ Goto(p, "idle")
          /\ UNCHANGED <<diskVars, gitVars>>
     ELSE Leave(p)

-----------------------------------------------------------------------------
\* An error ends the call; its deferred calls run.
CanFail == PC \ {"idle", "dead", "release", "unlock", "restore", "guard"}

Error(p) ==
  /\ pc[p] \in CanFail
  /\ errors < MaxErrors
  /\ errors' = errors + 1
  /\ Leave(p)
  /\ UNCHANGED <<lockFile, slow, calls, crashes>>

\* The process stops and does not come back: no deferred call runs.
Crash(p) ==
  /\ pc[p] \notin {"idle", "dead"}
  /\ crashes < MaxCrashes
  /\ crashes' = crashes + 1
  /\ Goto(p, "dead")
  /\ call' = [call EXCEPT ![p] = NoCall]
  /\ UNCHANGED <<lockFile, slow, diskVars, gitVars, calls, errors>>

\* The steps that leave the lock alone.
FileStep(p) ==
  \/ Stage(p) \/ WriteFile(p) \/ RenameBundle(p)
  \/ StageExports(p) \/ VerifyStaged(p) \/ CompareBase(p) \/ SelectBundle(p)
  \/ GuardCommit(p) \/ CommitPaths(p) \/ Shelve(p)
  \/ PruneKeep(p) \/ PruneList(p) \/ PruneEntry(p) \/ PruneFile(p) \/ PruneDirectory(p)
  \/ AddPaths(p) \/ CommitIndex(p) \/ Restore(p)
  \/ ReadFiles(p) \/ Recheck(p)

Step(p) ==
  /\ \/ FileStep(p) /\ UNCHANGED <<lockFile, slow>>
     \/ RefreshExports(p)
     \/ Acquire(p) \/ Contend(p)
  /\ UNCHANGED bounds

MinutePasses == Age /\ UNCHANGED <<diskVars, gitVars, call, bounds>>

\* Nobody calls: the workspace may stay as it is.
AtRest == (\A p \in Proc : pc[p] \in {"idle", "dead"}) /\ UNCHANGED vars

Next ==
  \/ \E p \in Proc : BeginBuild(p) \/ BeginCommit(p) \/ BeginRead(p)
                    \/ Step(p) \/ Error(p) \/ Crash(p)
  \/ MinutePasses
  \/ AtRest

\* A running call goes on; a minute without a living owner passes.
Fairness == (\A p \in Proc : WF_vars(Step(p))) /\ WF_vars(MinutePasses)

Spec == Init /\ [][Next]_vars /\ Fairness

-----------------------------------------------------------------------------
\* Properties

\* The bundle that current.json selects is whole, although bundles are
\* staged, abandoned half-written and pruned file by file beside it.
SelectedWhole == current # None => Whole(current)

\* A commit holds one version: its pointer, its whole bundle and exports
\* that equal it, or no selection at all.
CommitCoherent ==
  LET a == head.artifacts
  IN a.bundle # None => a.current = a.bundle /\ \A f \in File : a.exports[f] = a.bundle

\* A commit takes nothing that others had staged, and no interleaving of
\* two commits gives it back too early.
CommitsOnlyKnowledge == ~head.unrelated

\* The comment in PublishArtifacts: publication is serialized through the
\* legacy refresh, so that an older publisher cannot overwrite exports
\* produced by a newer current pointer.
ExportsFollowPointer ==
  [][ \A f \in File : exports'[f] # exports[f] => exports'[f] = current ]_vars

\* The pointer moves only from the version its publisher started from.
PublishedFromBase ==
  [][ current' # current =>
        \E p \in Proc : At(p, "select") /\ call[p].base = current ]_vars

\* Whoever waits for the lock gets on, after an owner died with it too.
WaitersServed == \A p \in Proc : At(p, "lock") ~> ~At(p, "lock")

=============================================================================
