---------------------- MODULE ArtifactPublicationProofs ----------------------
(***************************************************************************)
(* Proofs about ArtifactPublication, for any processes, versions, files    *)
(* and bounds.  What the lock protects holds as long as it excludes: the   *)
(* theorems are about behaviours in which no contender renames the lock of *)
(* a living owner and no commit goes without one.  NothingDisturbs says    *)
(* which instances have only such behaviours.                              *)
(***************************************************************************)
EXTENDS ArtifactPublication, TLAPS

\* A step that respects the lock: one that is taken for abandoned has no living owner,
\* and lockArtifactPublicationForCommit finds a bundles directory.
Undisturbed ==
  \A p \in Proc : /\ RenameStaleLock(p) => lockFile = None \/ At(lockFile.token, "dead")
                  /\ GuardCommit(p) => bundlesDir

\* Who has the lock, and who works without it.
Working == {"exports", "verify", "compare", "select", "refresh", "paths", "shelve", "keep",
            "list", "prune", "empty", "rmdir", "add", "commit", "restore", "release", "unlock"}
Outside == {"lock", "steal", "stage", "write", "rename", "guard", "files", "recheck"}

Emptying == {"empty", "rmdir"}
Pruning == {"list", "prune"} \cup Emptying
Gathering == {"shelve", "keep", "add"} \cup Pruning
Committing == {"keep", "add", "commit"} \cup Pruning
Building == {"stage", "write", "rename", "exports", "verify", "compare", "select", "refresh"}

\* What a call knows of its locals.
KnowsCall(p) ==
  /\ pc[p] \in Working => call[p].locked
  /\ pc[p] \in Outside => ~call[p].locked /\ ~call[p].shelved
  /\ pc[p] \in Building => call[p].version \in Version
  /\ pc[p] \in {"lock", "steal"} /\ call[p].kind = "build" => call[p].version \in Version
  /\ pc[p] = "guard" => call[p].kind = "commit"
  /\ pc[p] = "stage" => call[p].next = 1
  /\ pc[p] = "write" => call[p].next \in File
  /\ pc[p] \in {"files", "recheck"} => call[p].version \in Version

\* What a call that has the lock knows of the disk.
KnowsDisk(p) ==
  /\ pc[p] \in Working => lockFile # None /\ lockFile.token = p
  /\ pc[p] \in {"compare", "select"} => Whole(call[p].version)
  /\ pc[p] = "select" => call[p].base = current
  /\ pc[p] = "refresh" => call[p].version = current
  /\ pc[p] \in Gathering =>
       call[p].version = current /\ (current # None => ExportsMatch(current))
  /\ pc[p] \in Committing => ~index.unrelated
  /\ pc[p] \in Pruning => call[p].base = current
  /\ pc[p] \in {"prune"} \cup Emptying => current \notin call[p].doomed
  /\ pc[p] \in Emptying => call[p].victim \in call[p].doomed

\* The directory being emptied is none that serves, under whatever name it goes by now.
KnowsOpened(p) ==
  pc[p] \in Emptying /\ call[p].opened # None =>
    call[p].opened # current /\ bundles[call[p].opened] # None

Coherent(a) ==
  a.bundle # None => a.current = a.bundle /\ \A f \in File : a.exports[f] = a.bundle

Repository ==
  /\ SelectedWhole /\ ~head.unrelated
  /\ Coherent(index.artifacts) /\ Coherent(head.artifacts)

IInv ==
  /\ TypeOK /\ Repository
  /\ \A p \in Proc : KnowsCall(p) /\ KnowsDisk(p) /\ KnowsOpened(p)

-----------------------------------------------------------------------------
LEMMA Constants ==
  /\ None \notin Proc /\ None \notin Version /\ None \notin Entry
  /\ Version \cap Proc = {} /\ Version \subseteq Entry /\ Proc \subseteq Entry
  /\ FileCount \in Nat \ {0} /\ 1 \in File /\ FileCount \in File
  /\ File \in SUBSET File /\ {} \in SUBSET File /\ None # File /\ None # {}
<1>1. None \notin Proc /\ None \notin Version /\ Version \cap Proc = {} /\ FileCount \in Nat \ {0}
  BY PublicationLockAssumption, ArtifactPublicationAssumption
<1>2. 1 \in File /\ FileCount \in File
  BY <1>1 DEF File
<1> QED
  BY <1>1, <1>2, NoneIsNoDirectory DEF Entry

LEMMA InitHolds == Init => IInv
<1> SUFFICES ASSUME Init PROVE IInv
  OBVIOUS
<1>1. /\ calls \in 0 .. MaxCalls /\ errors \in 0 .. MaxErrors /\ crashes \in 0 .. MaxCrashes
      /\ slow \in 0 .. MaxSlow
  BY ArtifactPublicationAssumption, PublicationLockAssumption DEF Init, LockInit
<1>2. NoCall \in Call
  BY Constants DEF NoCall, Call, Kind
<1>3. NoSnapshot \in Snapshot
  BY DEF NoSnapshot, Snapshot
<1>4. TypeOK
  BY <1>1, <1>2, <1>3, ArtifactPublicationAssumption DEF Init, LockInit, TypeOK, PC
<1>5. Repository
  BY Constants DEF Init, Repository, SelectedWhole, Coherent, NoSnapshot
<1>6. \A p \in Proc : KnowsCall(p) /\ KnowsDisk(p) /\ KnowsOpened(p)
  BY DEF Init, KnowsCall, KnowsDisk, KnowsOpened, Working, Outside, Building, Gathering,
         Committing, Pruning, Emptying
<1> QED
  BY <1>4, <1>5, <1>6 DEF IInv

-----------------------------------------------------------------------------
(***************************************************************************)
(* What a step of one process leaves to the others                         *)
(***************************************************************************)

\* All locals but the name of the directory that is open.
SameLocals(q) ==
  /\ call'[q].kind = call[q].kind /\ call'[q].version = call[q].version
  /\ call'[q].base = call[q].base /\ call'[q].next = call[q].next
  /\ call'[q].locked = call[q].locked /\ call'[q].shelved = call[q].shelved
  /\ call'[q].doomed = call[q].doomed /\ call'[q].victim = call[q].victim

OthersGoOn(p) == \A q \in Proc \ {p} : pc'[q] = pc[q] /\ SameLocals(q)

\* The lock excludes.
LEMMA OneAtWork ==
  ASSUME IInv, NEW p \in Proc, NEW q \in Proc, pc[p] \in Working, pc[q] \in Working
  PROVE  p = q
BY DEF IInv, KnowsDisk

LEMMA IdleKnowsNothing ==
  ASSUME NEW q \in Proc, pc'[q] \notin Working
  PROVE  KnowsDisk(q)' /\ KnowsOpened(q)'
BY DEF KnowsDisk, KnowsOpened, Working, Gathering, Committing, Pruning, Emptying

LEMMA LocalsKept ==
  ASSUME NEW q \in Proc, KnowsCall(q), pc'[q] = pc[q], SameLocals(q)
  PROVE  KnowsCall(q)'
BY DEF KnowsCall, SameLocals

\* Who has the lock does as it pleases: the others know nothing of the disk.
LEMMA WorkerGood ==
  ASSUME IInv, NEW p \in Proc, pc[p] \in Working, OthersGoOn(p), TypeOK',
         lockFile' = lockFile \/ pc'[p] \notin Working,
         Repository', KnowsCall(p)', KnowsDisk(p)', KnowsOpened(p)'
  PROVE  IInv'
<1>1. ASSUME NEW q \in Proc \ {p} PROVE KnowsCall(q)' /\ KnowsDisk(q)' /\ KnowsOpened(q)'
  <2>1. pc'[q] = pc[q] /\ SameLocals(q) /\ KnowsCall(q)
    BY DEF OthersGoOn, IInv
  <2>2. pc[q] \notin Working
    BY OneAtWork
  <2> QED
    BY <2>1, <2>2, IdleKnowsNothing, LocalsKept
<1> QED
  BY <1>1 DEF IInv

\* Who has not leaves alone what the one who has relies on.
LEMMA OutsiderGood ==
  ASSUME IInv, NEW p \in Proc, pc[p] \notin Working, OthersGoOn(p), TypeOK',
         UNCHANGED <<current, exports, index, head>>,
         \/ lockFile' = lockFile
         \/ \A q \in Proc \ {p} : pc[q] \notin Working,
         \A v \in Version : bundles[v] # None => bundles'[v] = bundles[v],
         KnowsCall(p)', KnowsDisk(p)', KnowsOpened(p)',
         \A q \in Proc \ {p} : KnowsOpened(q)'
  PROVE  IInv'
<1>1. current \in Version \cup {None} /\ SelectedWhole
  BY DEF IInv, TypeOK, Repository
<1>2. Repository'
  BY <1>1, Constants DEF IInv, Repository, SelectedWhole, Whole, Coherent
<1>3. ASSUME NEW q \in Proc \ {p} PROVE KnowsCall(q)' /\ KnowsDisk(q)'
  <2>1. pc'[q] = pc[q] /\ SameLocals(q) /\ KnowsCall(q) /\ KnowsDisk(q)
    BY DEF OthersGoOn, IInv
  <2>2. CASE pc[q] \notin Working
    BY <2>1, <2>2, IdleKnowsNothing, LocalsKept
  <2>3. CASE pc[q] \in Working
    <3>1. lockFile' = lockFile
      BY <2>3
    <3>2. pc[q] \in {"compare", "select"} => Whole(call[q].version)'
      <4>1. pc[q] \in {"compare", "select"} => call[q].version \in Version
        BY <2>1 DEF KnowsCall, Building
      <4> QED
        BY <2>1, <4>1, Constants DEF KnowsDisk, Whole, SameLocals
    <3>3. ExportsMatch(current)' = ExportsMatch(current)
      BY DEF ExportsMatch
    <3> QED
      BY <2>1, <3>1, <3>2, <3>3, LocalsKept DEF KnowsDisk, SameLocals
  <2> QED
    BY <2>2, <2>3
<1> QED
  BY <1>2, <1>3 DEF IInv

-----------------------------------------------------------------------------
(***************************************************************************)
(* The variables after a step                                              *)
(***************************************************************************)
BoundsTyped ==
  /\ slow \in 0 .. MaxSlow /\ calls \in 0 .. MaxCalls
  /\ errors \in 0 .. MaxErrors /\ crashes \in 0 .. MaxCrashes

DiskTyped == bundlesDir \in BOOLEAN /\ bundles \in [Entry -> (SUBSET File) \cup {None}]

LEMMA Facts ==
  ASSUME IInv, NEW p \in Proc
  PROVE  /\ pc \in [Proc -> PC] /\ call \in [Proc -> Call] /\ call[p] \in Call /\ DiskTyped
         /\ lockFile \in LockFile \cup {None} /\ current \in Version \cup {None}
         /\ exports \in [File -> Version \cup {None}] /\ BoundsTyped
         /\ index \in [artifacts : Snapshot, unrelated : BOOLEAN]
         /\ head \in [artifacts : Snapshot, unrelated : BOOLEAN]
         /\ KnowsCall(p) /\ KnowsDisk(p) /\ KnowsOpened(p) /\ Repository
  BY DEF IInv, TypeOK, BoundsTyped, DiskTyped

LEMMA TypeGood ==
  ASSUME IInv, BoundsTyped', DiskTyped', lockFile' \in LockFile \cup {None},
         pc' \in [Proc -> PC], call' \in [Proc -> Call],
         current' \in Version \cup {None}, exports' \in [File -> Version \cup {None}],
         index' \in [artifacts : Snapshot, unrelated : BOOLEAN],
         head' \in [artifacts : Snapshot, unrelated : BOOLEAN]
  PROVE  TypeOK'
BY DEF TypeOK, BoundsTyped, DiskTyped

LEMMA GotoGood ==
  ASSUME IInv, NEW p \in Proc, NEW label \in PC, Goto(p, label)
  PROVE  /\ pc' \in [Proc -> PC] /\ pc'[p] = label
         /\ \A q \in Proc \ {p} : pc'[q] = pc[q]
BY DEF IInv, TypeOK, Goto

LEMMA RenamedGood ==
  ASSUME IInv, NEW e, NEW name \in Entry \cup {None}, call' = Renamed(e, name)
  PROVE  /\ call' \in [Proc -> Call] /\ \A q \in Proc : SameLocals(q)
         /\ \A q \in Proc :
              call'[q].opened = IF call[q].opened = e THEN name ELSE call[q].opened
<1>1. call \in [Proc -> Call]
  BY DEF IInv, TypeOK
<1>2. ASSUME NEW q \in Proc
      PROVE  /\ call'[q] \in Call /\ SameLocals(q)
             /\ call'[q].opened = IF call[q].opened = e THEN name ELSE call[q].opened
  <2>1. call[q] \in Call
    BY <1>1
  <2>2. call'[q] = IF call[q].opened = e THEN [call[q] EXCEPT !.opened = name] ELSE call[q]
    BY DEF Renamed
  <2> QED
    BY <2>1, <2>2 DEF Call, SameLocals
<1>3. call' = [q \in Proc |-> call'[q]]
  BY DEF Renamed
<1> QED
  BY <1>2, <1>3

\* A step that changes nothing but the place of a call.
LEMMA OnlyGood ==
  ASSUME IInv, NEW p \in Proc, pc[p] \in Working, NEW label \in PC, Only(p, label),
         UNCHANGED <<lockFile, slow, bounds>>,
         KnowsCall(p)', KnowsDisk(p)', label \notin Emptying
  PROVE  IInv'
<1>1. /\ pc' \in [Proc -> PC] /\ pc'[p] = label
      /\ \A q \in Proc \ {p} : pc'[q] = pc[q]
  BY GotoGood DEF Only
<1>2. UNCHANGED <<bundlesDir, bundles, current, exports, index, head, call>>
  BY DEF Only, diskVars, gitVars
<1>3. OthersGoOn(p)
  BY <1>1, <1>2 DEF OthersGoOn, SameLocals
<1>4. TypeOK'
  BY <1>1, <1>2 DEF IInv, TypeOK, bounds
<1>5. Repository' /\ KnowsOpened(p)'
  BY <1>1, <1>2 DEF IInv, Repository, SelectedWhole, Whole, Coherent, KnowsOpened
<1> QED
  BY <1>3, <1>4, <1>5, WorkerGood

\* The deferred calls.
LEMMA LeaveGood ==
  ASSUME IInv, NEW p \in Proc, pc[p] \in Working \cup Outside, Leave(p),
         lockFile' = lockFile, BoundsTyped'
  PROVE  IInv'
<1>0. /\ call[p] \in Call /\ DiskTyped /\ KnowsCall(p) /\ KnowsDisk(p) /\ Repository
      /\ current \in Version \cup {None}
  BY Facts
<1>1. /\ call' = Renamed(p, None) /\ bundles' = [bundles EXCEPT ![p] = None]
      /\ UNCHANGED <<bundlesDir, current, exports, index, head>>
  BY DEF Leave, gitVars
<1>2. /\ call' \in [Proc -> Call] /\ \A q \in Proc : SameLocals(q)
      /\ \A q \in Proc :
           call'[q].opened = IF call[q].opened = p THEN None ELSE call[q].opened
  BY <1>1, RenamedGood
<1>3. PICK label \in PC :
        /\ Goto(p, label)
        /\ pc[p] \in Working => label \in {"restore", "release"}
        /\ pc[p] \in Outside => label = "idle"
  <2>1. call[p].shelved \in BOOLEAN /\ call[p].locked \in BOOLEAN
    BY <1>0 DEF Call
  <2>2. CASE pc[p] \in Working
    <3>1. call[p].locked
      BY <1>0, <2>2 DEF KnowsCall
    <3>2. Goto(p, IF call[p].shelved THEN "restore" ELSE "release")
      BY <2>1, <3>1 DEF Leave
    <3>3. pc[p] \notin Outside
      BY <2>2 DEF Working, Outside
    <3> QED
      BY <3>2, <3>3 DEF PC
  <2>3. CASE pc[p] \in Outside
    <3>1. ~call[p].locked /\ ~call[p].shelved
      BY <1>0, <2>3 DEF KnowsCall
    <3>2. Goto(p, "idle")
      BY <3>1 DEF Leave
    <3>3. pc[p] \notin Working
      BY <2>3 DEF Working, Outside
    <3> QED
      BY <3>2, <3>3 DEF PC
  <2> QED
    BY <2>2, <2>3
<1>4. /\ pc' \in [Proc -> PC] /\ pc'[p] = label
      /\ \A q \in Proc \ {p} : pc'[q] = pc[q]
  BY <1>3, GotoGood
<1>5. bundles' \in [Entry -> (SUBSET File) \cup {None}]
      /\ \A e \in Entry \ {p} : bundles'[e] = bundles[e]
  BY <1>0, <1>1, Constants DEF DiskTyped
<1>6. TypeOK'
  BY <1>0, <1>1, <1>2, <1>4, <1>5, TypeGood, Facts DEF DiskTyped
<1>7. OthersGoOn(p)
  BY <1>2, <1>4 DEF OthersGoOn
<1>8. Repository'
  BY <1>0, <1>1, <1>5, Constants DEF Repository, SelectedWhole, Whole, Coherent
<1>9. KnowsCall(p)' /\ KnowsDisk(p)' /\ KnowsOpened(p)'
  <2>1. pc'[p] \in {"restore", "release"} \cup {"idle"}
    BY <1>3, <1>4
  <2>2. pc'[p] \in Working => lockFile' # None /\ lockFile'.token = p /\ call'[p].locked
    <3>1. pc'[p] \in Working => pc[p] \in Working
      BY <1>3, <1>4 DEF Working, Outside
    <3> QED
      BY <1>0, <1>2, <3>1 DEF KnowsCall, KnowsDisk, SameLocals
  <2> QED
    BY <2>1, <2>2 DEF KnowsCall, KnowsDisk, KnowsOpened, Outside, Building, Gathering,
                      Committing, Pruning, Emptying
<1>10. CASE pc[p] \in Working
  BY <1>6, <1>7, <1>8, <1>9, <1>10, WorkerGood
<1>11. CASE pc[p] \in Outside
  <2>1. pc[p] \notin Working
    BY <1>11 DEF Working, Outside
  <2>2. \A v \in Version : bundles[v] # None => bundles'[v] = bundles[v]
    BY <1>5, Constants
  <2>3. ASSUME NEW q \in Proc \ {p} PROVE KnowsOpened(q)'
    <3>1. KnowsOpened(q) /\ pc'[q] = pc[q] /\ call[q] \in Call
      BY <1>4, Facts
    <3>2. call[q].opened \in Entry \cup {None}
      BY <3>1 DEF Call
    <3> QED
      BY <1>1, <1>2, <1>5, <3>1, <3>2 DEF KnowsOpened
  <2> QED
    BY <1>1, <1>6, <1>7, <1>9, <2>1, <2>2, <2>3, OutsiderGood
<1> QED
  BY <1>10, <1>11

\* A step without the lock that changes no bundle.
LEMMA OutsiderStep ==
  ASSUME IInv, NEW p \in Proc, pc[p] \notin Working,
         NEW label \in PC, Goto(p, label),
         NEW new \in Call, call' = [call EXCEPT ![p] = new],
         UNCHANGED <<bundlesDir, bundles, current, exports, index, head>>, BoundsTyped',
         lockFile' \in LockFile \cup {None},
         \/ lockFile' = lockFile
         \/ \A q \in Proc \ {p} : pc[q] \notin Working,
         KnowsCall(p)', KnowsDisk(p)', label \notin Emptying
  PROVE  IInv'
<1>1. /\ pc' \in [Proc -> PC] /\ pc'[p] = label
      /\ \A q \in Proc \ {p} : pc'[q] = pc[q]
  BY GotoGood
<1>2. call' \in [Proc -> Call] /\ \A q \in Proc \ {p} : call'[q] = call[q]
  BY Facts
<1>3. DiskTyped'
  BY Facts DEF DiskTyped
<1>4. TypeOK'
  BY <1>1, <1>2, <1>3, Facts, TypeGood
<1>5. OthersGoOn(p)
  BY <1>1, <1>2 DEF OthersGoOn, SameLocals
<1>6. KnowsOpened(p)' /\ \A q \in Proc \ {p} : KnowsOpened(q)'
  BY <1>1, <1>2 DEF IInv, KnowsOpened
<1> QED
  BY <1>4, <1>5, <1>6, OutsiderGood

\* A step of who has the lock that changes no bundle.
LEMMA WorkerStep ==
  ASSUME IInv, NEW p \in Proc, pc[p] \in Working,
         NEW label \in PC, Goto(p, label),
         NEW new \in Call, call' = [call EXCEPT ![p] = new],
         UNCHANGED <<lockFile, slow, bounds, bundlesDir, bundles>>,
         current' \in Version \cup {None}, exports' \in [File -> Version \cup {None}],
         index' \in [artifacts : Snapshot, unrelated : BOOLEAN],
         head' \in [artifacts : Snapshot, unrelated : BOOLEAN],
         Repository', KnowsCall(p)', KnowsDisk(p)', KnowsOpened(p)'
  PROVE  IInv'
<1>1. /\ pc' \in [Proc -> PC] /\ pc'[p] = label
      /\ \A q \in Proc \ {p} : pc'[q] = pc[q]
  BY GotoGood
<1>2. call' \in [Proc -> Call] /\ \A q \in Proc \ {p} : call'[q] = call[q]
  BY Facts
<1>3. DiskTyped' /\ BoundsTyped'
  BY Facts DEF DiskTyped, BoundsTyped, bounds
<1>4. TypeOK'
  BY <1>1, <1>2, <1>3, Facts, TypeGood
<1>5. OthersGoOn(p)
  BY <1>1, <1>2 DEF OthersGoOn, SameLocals
<1> QED
  BY <1>4, <1>5, WorkerGood

-----------------------------------------------------------------------------
(***************************************************************************)
(* The beginning of a call, and staging                                    *)
(***************************************************************************)
LEMMA BeginGood ==
  ASSUME IInv, NEW p \in Proc, BeginBuild(p) \/ BeginCommit(p) \/ BeginRead(p)
  PROVE  IInv'
<1>0. current \in Version \cup {None} /\ FileCount \in Nat /\ BoundsTyped /\ MaxCalls \in Nat
  BY Facts, Constants, ArtifactPublicationAssumption
<1>1. NoCall \in Call
  BY Constants DEF NoCall, Call, Kind
<1>2. PICK new \in Call, label \in {"stage", "guard", "files"} :
        /\ Begin(p, new, label)
        /\ ~new.locked /\ ~new.shelved /\ new.next = 1
        /\ label \in {"stage", "files"} => new.version \in Version
        /\ label = "guard" => new.kind = "commit"
  <2>1. CASE BeginBuild(p)
    <3>1. PICK v \in Version :
            Begin(p, [NoCall EXCEPT !.kind = "build", !.version = v, !.base = current], "stage")
      BY <2>1 DEF BeginBuild
    <3>2. [NoCall EXCEPT !.kind = "build", !.version = v, !.base = current] \in Call
      BY <1>0, <1>1 DEF Call, Kind
    <3> QED
      BY <3>1, <3>2 DEF NoCall
  <2>2. CASE BeginCommit(p)
    <3>1. [NoCall EXCEPT !.kind = "commit"] \in Call
      BY <1>1 DEF Call, Kind
    <3> QED
      BY <2>2, <3>1 DEF BeginCommit, NoCall
  <2>3. CASE BeginRead(p)
    <3>1. current \in Version
      BY <1>0, <2>3 DEF BeginRead
    <3>2. [NoCall EXCEPT !.version = current] \in Call
      BY <1>1, <3>1 DEF Call
    <3> QED
      BY <2>3, <3>1, <3>2 DEF BeginRead, NoCall
  <2> QED
    BY <2>1, <2>2, <2>3
<1>3. /\ pc[p] = "idle" /\ Goto(p, label) /\ call' = [call EXCEPT ![p] = new]
      /\ UNCHANGED <<lockFile, bundlesDir, bundles, current, exports, index, head>>
  BY <1>2 DEF Begin, At, diskVars, gitVars
<1>4. BoundsTyped'
  <2>1. calls + 1 \in 0 .. MaxCalls
    BY <1>0, <1>2 DEF Begin, BoundsTyped
  <2> QED
    BY <1>0, <1>2, <2>1 DEF Begin, BoundsTyped
<1>5. pc'[p] = label /\ call'[p] = new /\ label \in PC
  BY <1>3, Facts, GotoGood DEF PC
<1>6. KnowsCall(p)' /\ KnowsDisk(p)'
  BY <1>2, <1>5 DEF KnowsCall, KnowsDisk, Working, Outside, Building, Gathering, Committing,
                    Pruning, Emptying
<1> QED
  BY <1>2, <1>3, <1>4, <1>5, <1>6, Facts, OutsiderStep DEF Working, Emptying

\* Stage is alone with its temporary directory.
LEMMA StageGood ==
  ASSUME IInv, NEW p \in Proc, Stage(p), UNCHANGED <<lockFile, slow, bounds>>
  PROVE  IInv'
<1>0. /\ call[p] \in Call /\ DiskTyped /\ KnowsCall(p) /\ BoundsTyped /\ pc[p] = "stage"
      /\ call \in [Proc -> Call]
  BY Facts DEF Stage, At
<1>1. UNCHANGED <<current, exports, index, head, call, lockFile>> /\ bundlesDir' = TRUE
  BY DEF Stage, gitVars
<1>2. PICK label \in {"lock", "idle", "write"} : Goto(p, label)
  BY DEF Stage
<1>3. /\ pc' \in [Proc -> PC] /\ pc'[p] = label
      /\ \A q \in Proc \ {p} : pc'[q] = pc[q]
  BY <1>2, GotoGood DEF PC
<1>4. /\ bundles' \in [Entry -> (SUBSET File) \cup {None}]
      /\ \A e \in Entry \ {p} : bundles'[e] = bundles[e]
      /\ bundles'[p] # None \/ bundles' = bundles
  BY <1>0, Constants DEF Stage, DiskTyped
<1>5. BoundsTyped' /\ DiskTyped'
  BY <1>0, <1>1, <1>4 DEF BoundsTyped, DiskTyped, bounds
<1>6. TypeOK'
  BY <1>1, <1>3, <1>5, TypeGood, Facts
<1>7. OthersGoOn(p)
  BY <1>1, <1>3 DEF OthersGoOn, SameLocals
<1>8. KnowsCall(p)' /\ KnowsDisk(p)' /\ KnowsOpened(p)'
  BY <1>0, <1>1, <1>3, Constants
     DEF KnowsCall, KnowsDisk, KnowsOpened, Working, Outside, Building, Gathering, Committing,
         Pruning, Emptying
<1>9. \A v \in Version : bundles'[v] = bundles[v]
  BY <1>4, Constants
<1>10. ASSUME NEW q \in Proc \ {p} PROVE KnowsOpened(q)'
  <2>1. KnowsOpened(q) /\ call[q].opened \in Entry \cup {None}
    BY <1>0, Facts DEF Call
  <2> QED
    BY <1>1, <1>3, <1>4, <2>1 DEF KnowsOpened
<1> QED
  BY <1>0, <1>1, <1>6, <1>7, <1>8, <1>9, <1>10, OutsiderGood DEF Working

LEMMA WriteFileGood ==
  ASSUME IInv, NEW p \in Proc, WriteFile(p), UNCHANGED <<lockFile, slow, bounds>>
  PROVE  IInv'
<1>0. /\ call[p] \in Call /\ DiskTyped /\ KnowsCall(p) /\ BoundsTyped /\ pc[p] = "write"
      /\ call \in [Proc -> Call]
  BY Facts DEF WriteFile, At
<1>01. BoundsTyped'
  BY <1>0 DEF BoundsTyped, bounds
<1>1. CASE bundles[p] = None
  BY <1>0, <1>01, <1>1, LeaveGood DEF WriteFile, Outside
<1>2. CASE bundles[p] # None
  <2> DEFINE f == call[p].next
  <2>1. f \in File /\ call[p].version \in Version
    BY <1>0 DEF KnowsCall, Building
  <2>2. /\ bundles' = [bundles EXCEPT ![p] = @ \cup {f}]
        /\ call' = Set(p, "next", f + 1)
        /\ Goto(p, IF f = FileCount THEN "rename" ELSE "write")
        /\ UNCHANGED <<bundlesDir, current, exports, index, head>>
    BY <1>2 DEF WriteFile, gitVars
  <2> HIDE DEF f
  <2>3. PICK label \in {"rename", "write"} :
          Goto(p, label) /\ (label = "write" => f # FileCount)
    BY <2>2
  <2>4. /\ pc' \in [Proc -> PC] /\ pc'[p] = label
        /\ \A q \in Proc \ {p} : pc'[q] = pc[q]
    BY <2>3, GotoGood DEF PC
  <2>5. f + 1 \in 1 .. FileCount + 1 /\ (f # FileCount => f + 1 \in File)
    BY <2>1, Constants DEF File
  <2>6. /\ call' \in [Proc -> Call] /\ \A q \in Proc \ {p} : call'[q] = call[q]
        /\ call'[p] = [call[p] EXCEPT !.next = f + 1]
    BY <1>0, <2>2, <2>5 DEF Set, Call
  <2>7. /\ bundles' \in [Entry -> (SUBSET File) \cup {None}]
        /\ \A e \in Entry \ {p} : bundles'[e] = bundles[e]
        /\ bundles'[p] # None
    <3>1. bundles[p] \in SUBSET File
      BY <1>0, <1>2, Constants DEF DiskTyped
    <3>2. bundles[p] \cup {f} \in SUBSET File
      BY <2>1, <3>1
    <3> QED
      BY <1>0, <2>2, <3>2, NoneIsNoDirectory, Constants DEF DiskTyped
  <2>8. TypeOK'
    BY <1>01, <1>0, <2>2, <2>4, <2>6, <2>7, TypeGood, Facts DEF DiskTyped
  <2>9. OthersGoOn(p)
    BY <2>4, <2>6 DEF OthersGoOn, SameLocals
  <2>10. KnowsCall(p)' /\ KnowsDisk(p)' /\ KnowsOpened(p)'
    <3>1. ~call'[p].locked /\ ~call'[p].shelved /\ call'[p].version \in Version
          /\ call'[p].next = f + 1
      BY <1>0, <2>1, <2>6 DEF KnowsCall, Outside, Call
    <3> QED
      BY <2>3, <2>4, <2>5, <3>1
         DEF KnowsCall, KnowsDisk, KnowsOpened, Working, Outside, Building, Gathering,
             Committing, Pruning, Emptying
  <2>11. \A v \in Version : bundles'[v] = bundles[v]
    BY <2>7, Constants
  <2>12. ASSUME NEW q \in Proc \ {p} PROVE KnowsOpened(q)'
    <3>1. KnowsOpened(q) /\ call[q].opened \in Entry \cup {None}
      BY <1>0, Facts DEF Call
    <3> QED
      BY <2>2, <2>4, <2>6, <2>7, <3>1 DEF KnowsOpened
  <2> QED
    BY <1>0, <2>2, <2>8, <2>9, <2>10, <2>11, <2>12, OutsiderGood DEF Working
<1> QED
  BY <1>1, <1>2

\* The rename gives a whole directory its name, whoever has it open for pruning.
LEMMA RenameGood ==
  ASSUME IInv, NEW p \in Proc, RenameBundle(p), UNCHANGED <<lockFile, slow, bounds>>
  PROVE  IInv'
<1> DEFINE v == call[p].version
<1>0. /\ call[p] \in Call /\ DiskTyped /\ KnowsCall(p) /\ BoundsTyped /\ pc[p] = "rename"
      /\ call \in [Proc -> Call] /\ v \in Version /\ p \in Entry /\ v \in Entry /\ v # p
  <2>1. KnowsCall(p) /\ pc[p] = "rename"
    BY Facts DEF RenameBundle, At
  <2>2. v \in Version
    BY <2>1 DEF KnowsCall, Building
  <2> QED
    BY <2>1, <2>2, Facts, Constants
<1>01. BoundsTyped'
  BY <1>0 DEF BoundsTyped, bounds
<1> HIDE DEF v
<1>1. ASSUME NEW name \in Entry \cup {None}, call' = Renamed(p, name), Goto(p, "lock"),
             UNCHANGED <<bundlesDir, current, exports, index, head>>,
             bundles' \in [Entry -> (SUBSET File) \cup {None}],
             \A e \in Entry \ {p} : bundles[e] # None => bundles'[e] = bundles[e],
             name # None => /\ name \in Version /\ bundles[name] = None
                            /\ bundles'[name] # None
      PROVE  IInv'
  <2>1. /\ pc' \in [Proc -> PC] /\ pc'[p] = "lock"
        /\ \A q \in Proc \ {p} : pc'[q] = pc[q]
    BY <1>1, GotoGood DEF PC
  <2>2. /\ call' \in [Proc -> Call] /\ \A q \in Proc : SameLocals(q)
        /\ \A q \in Proc :
             call'[q].opened = IF call[q].opened = p THEN name ELSE call[q].opened
    BY <1>1, RenamedGood
  <2>3. TypeOK'
    BY <1>0, <1>01, <1>1, <2>1, <2>2, TypeGood, Facts DEF DiskTyped
  <2>4. OthersGoOn(p)
    BY <2>1, <2>2 DEF OthersGoOn
  <2>5. KnowsCall(p)' /\ KnowsDisk(p)' /\ KnowsOpened(p)'
    <3>1. ~call'[p].locked /\ ~call'[p].shelved /\ call'[p].version \in Version
      BY <1>0, <2>2 DEF KnowsCall, Outside, Building, SameLocals
    <3> QED
      BY <2>1, <3>1 DEF KnowsCall, KnowsDisk, KnowsOpened, Working, Outside, Building, Gathering,
                        Committing, Pruning, Emptying
  <2>6. \A x \in Version : bundles[x] # None => bundles'[x] = bundles[x]
    BY <1>1, Constants
  <2>7. ASSUME NEW q \in Proc \ {p} PROVE KnowsOpened(q)'
    <3>1. KnowsOpened(q) /\ call[q].opened \in Entry \cup {None} /\ pc'[q] = pc[q]
      BY <1>0, <2>1, Facts DEF Call
    <3>2. name # None => name # current
      BY <1>1, Facts, Constants DEF Repository, SelectedWhole, Whole
    <3>3. CASE call[q].opened = p
      BY <1>1, <2>2, <3>2, <3>3 DEF KnowsOpened
    <3>4. CASE call[q].opened # p
      <4>1. call'[q].opened = call[q].opened
        BY <2>2, <3>4
      <4>2. call[q].opened # None /\ bundles[call[q].opened] # None =>
              bundles'[call[q].opened] # None
        BY <1>1, <3>1, <3>4
      <4> QED
        BY <1>1, <3>1, <4>1, <4>2 DEF KnowsOpened
    <3> QED
      BY <3>3, <3>4
  <2> QED
    BY <1>0, <1>1, <2>3, <2>4, <2>5, <2>6, <2>7, OutsiderGood DEF Working
<1>2. CASE bundles[p] = None /\ Leave(p)
  BY <1>0, <1>01, <1>2, LeaveGood DEF Outside
<1>3. CASE /\ bundles[p] # None /\ bundles[v] = None
           /\ bundles' = [bundles EXCEPT ![v] = bundles[p], ![p] = None]
           /\ call' = Renamed(p, v) /\ Goto(p, "lock")
           /\ UNCHANGED <<bundlesDir, current, exports, gitVars>>
  <2>1. /\ bundles' \in [Entry -> (SUBSET File) \cup {None}]
        /\ \A e \in Entry \ {p, v} : bundles'[e] = bundles[e]
        /\ bundles'[v] = bundles[p]
    BY <1>0, <1>3 DEF DiskTyped
  <2>2. v # None
    BY <1>0, Constants
  <2> QED
    BY <1>0, <1>1, <1>3, <2>1, <2>2 DEF gitVars
<1>4. CASE bundles' = [bundles EXCEPT ![p] = None] /\ call' = Renamed(p, None) /\ Goto(p, "lock")
           /\ UNCHANGED <<bundlesDir, current, exports, gitVars>>
  <2>1. /\ bundles' \in [Entry -> (SUBSET File) \cup {None}]
        /\ \A e \in Entry \ {p} : bundles'[e] = bundles[e]
    BY <1>0, <1>4 DEF DiskTyped
  <2> QED
    BY <1>1, <1>4, <2>1 DEF gitVars
<1>5. CASE Leave(p)
  BY <1>0, <1>01, <1>5, LeaveGood DEF Outside
<1> QED
  BY <1>2, <1>3, <1>4, <1>5 DEF RenameBundle, v

-----------------------------------------------------------------------------
(***************************************************************************)
(* The way to the lock, and readers                                        *)
(***************************************************************************)
LEMMA GuardGood ==
  ASSUME IInv, NEW p \in Proc, GuardCommit(p), bundlesDir, UNCHANGED <<lockFile, slow, bounds>>
  PROVE  IInv'
<1>1. /\ pc[p] = "guard" /\ Goto(p, "lock")
      /\ UNCHANGED <<bundlesDir, bundles, current, exports, index, head, call>>
  BY DEF GuardCommit, Only, At, diskVars, gitVars
<1>2. pc'[p] = "lock" /\ call[p] \in Call /\ call' = [call EXCEPT ![p] = call[p]] /\ KnowsCall(p)
  BY <1>1, Facts, GotoGood DEF PC
<1>3. BoundsTyped'
  BY Facts DEF BoundsTyped, bounds
<1>4. KnowsCall(p)' /\ KnowsDisk(p)'
  BY <1>1, <1>2 DEF KnowsCall, KnowsDisk, Working, Outside, Building, Gathering, Committing,
                    Pruning, Emptying
<1> QED
  BY <1>1, <1>2, <1>3, <1>4, Facts, OutsiderStep DEF Working, Emptying, PC

LEMMA ReaderGood ==
  ASSUME IInv, NEW p \in Proc, ReadFiles(p) \/ Recheck(p), UNCHANGED <<lockFile, slow, bounds>>
  PROVE  IInv'
<1>0. /\ pc[p] \in {"files", "recheck"} /\ pc[p] \notin Working /\ pc[p] \in Outside
      /\ call[p] \in Call /\ call \in [Proc -> Call] /\ KnowsCall(p)
  BY Facts DEF ReadFiles, Recheck, At, Working, Outside
<1>1. BoundsTyped'
  BY Facts DEF BoundsTyped, bounds
<1>2. ~call[p].locked /\ ~call[p].shelved /\ call[p].version \in Version
  BY <1>0 DEF KnowsCall
<1>3. CASE Leave(p)
  BY <1>0, <1>1, <1>3, LeaveGood
<1>4. ASSUME NEW n \in 1 .. FileCount + 1, NEW label \in {"files", "recheck", "idle"},
             Goto(p, label), call' = [call EXCEPT ![p].next = n],
             UNCHANGED <<bundlesDir, bundles, current, exports, index, head>>
      PROVE  IInv'
  <2> DEFINE new == [call[p] EXCEPT !.next = n]
  <2>1. new \in Call /\ call' = [call EXCEPT ![p] = new]
    BY <1>0, <1>4 DEF Call
  <2>2. ~new.locked /\ ~new.shelved /\ new.version = call[p].version
    BY <1>0, <1>2 DEF Call
  <2> HIDE DEF new
  <2>3. pc'[p] = label /\ call'[p] = new /\ label \in PC
    BY <1>0, <1>4, <2>1, GotoGood DEF PC
  <2>4. KnowsCall(p)' /\ KnowsDisk(p)'
    BY <1>2, <2>2, <2>3 DEF KnowsCall, KnowsDisk, Working, Outside, Building, Gathering,
                            Committing, Pruning, Emptying
  <2> QED
    BY <1>0, <1>1, <1>4, <2>1, <2>3, <2>4, Facts, OutsiderStep DEF Emptying
<1>5. CASE ReadFiles(p) /\ ~Leave(p)
  <2> DEFINE f == call[p].next
  <2>1. f \in 1 .. FileCount + 1 /\ (f <= FileCount => f + 1 \in 1 .. FileCount + 1)
    BY <1>0, Constants DEF Call
  <2>2. CASE Only(p, "recheck")
    <3>1. Goto(p, "recheck") /\ call' = [call EXCEPT ![p].next = f]
          /\ UNCHANGED <<bundlesDir, bundles, current, exports, index, head>>
      BY <1>0, <2>2 DEF Only, diskVars, gitVars, Call
    <3> QED
      BY <1>4, <2>1, <3>1
  <2>3. CASE /\ f <= FileCount /\ call' = Set(p, "next", f + 1)
             /\ UNCHANGED <<pc, diskVars, gitVars>>
    <3>1. pc[p] = "files" /\ Goto(p, "files")
      BY <1>5, <2>3, Facts DEF ReadFiles, At, Goto
    <3>2. call' = [call EXCEPT ![p].next = f + 1]
          /\ UNCHANGED <<bundlesDir, bundles, current, exports, index, head>>
      BY <2>3 DEF Set, diskVars, gitVars
    <3> QED
      BY <1>4, <2>1, <2>3, <3>1, <3>2
  <2> QED
    BY <1>5, <2>2, <2>3 DEF ReadFiles
<1>6. CASE Recheck(p) /\ ~Leave(p)
  <2>1. call' = [call EXCEPT ![p].next = 1] /\ Goto(p, "idle")
        /\ UNCHANGED <<bundlesDir, bundles, current, exports, index, head>>
    BY <1>6 DEF Recheck, Set, diskVars, gitVars
  <2>2. 1 \in 1 .. FileCount + 1
    BY Constants
  <2> QED
    BY <1>4, <2>1, <2>2
<1> QED
  BY <1>3, <1>5, <1>6

LEMMA AcquireGood ==
  ASSUME IInv, NEW p \in Proc, Acquire(p), UNCHANGED bounds
  PROVE  IInv'
<1>0. /\ pc[p] = "lock" /\ call[p] \in Call /\ call \in [Proc -> Call] /\ KnowsCall(p)
      /\ lockFile = None
  BY Facts DEF Acquire, CreateLock, At
<1>1. /\ lockFile' = [token |-> p, recent |-> TRUE] /\ call' = [call EXCEPT ![p].locked = TRUE]
      /\ UNCHANGED <<slow, bundlesDir, bundles, current, exports, index, head>>
      /\ Goto(p, IF call[p].kind = "build" THEN "exports" ELSE "paths")
  BY DEF Acquire, CreateLock, Set, diskVars, gitVars
<1>2. PICK label \in {"exports", "paths"} :
        Goto(p, label) /\ (label = "exports" => call[p].kind = "build")
  BY <1>1
<1>3. BoundsTyped'
  BY <1>1, Facts DEF BoundsTyped, bounds
<1> DEFINE new == [call[p] EXCEPT !.locked = TRUE]
<1>4. new \in Call /\ new.locked /\ new.version = call[p].version /\ call' = [call EXCEPT ![p] = new]
  BY <1>0, <1>1 DEF Call
<1> HIDE DEF new
<1>5. pc'[p] = label /\ call'[p] = new /\ label \in PC
  BY <1>0, <1>2, <1>4, GotoGood DEF PC
<1>6. lockFile' \in LockFile /\ lockFile'.token = p /\ lockFile' # None
  <2>1. [token |-> p, recent |-> TRUE] \in LockFile
    BY DEF LockFile
  <2>2. [token |-> p, recent |-> TRUE].token = p
    OBVIOUS
  <2> QED
    BY <1>1, <2>1, <2>2, NoneIsNoLock
<1>7. KnowsCall(p)' /\ KnowsDisk(p)'
  BY <1>0, <1>2, <1>4, <1>5, <1>6
     DEF KnowsCall, KnowsDisk, Working, Outside, Building, Gathering, Committing, Pruning, Emptying
<1>8. \A q \in Proc \ {p} : pc[q] \notin Working
  BY <1>0 DEF IInv, KnowsDisk
<1> QED
  BY <1>0, <1>1, <1>2, <1>3, <1>4, <1>5, <1>6, <1>7, <1>8, OutsiderStep DEF Working, Emptying

LEMMA ContendGood ==
  ASSUME IInv, NEW p \in Proc, Contend(p), UNCHANGED bounds,
         RenameStaleLock(p) => lockFile = None \/ At(lockFile.token, "dead")
  PROVE  IInv'
<1>0. /\ call[p] \in Call /\ call \in [Proc -> Call] /\ KnowsCall(p) /\ KnowsDisk(p)
      /\ UNCHANGED <<slow, call, bundlesDir, bundles, current, exports, index, head>>
  BY Facts DEF Contend, SeeStaleLock, RenameStaleLock, ReadToken, RemoveLock, diskVars, gitVars
<1>1. BoundsTyped' /\ call' = [call EXCEPT ![p] = call[p]]
  BY <1>0, Facts DEF BoundsTyped, bounds
<1>2. CASE SeeStaleLock(p)
  <2>1. pc[p] = "lock" /\ Goto(p, "steal") /\ lockFile' = lockFile
    BY <1>2 DEF SeeStaleLock, At
  <2>2. pc'[p] = "steal"
    BY <2>1, GotoGood DEF PC
  <2>3. KnowsCall(p)' /\ KnowsDisk(p)'
    BY <1>0, <2>1, <2>2 DEF KnowsCall, KnowsDisk, Working, Outside, Building, Gathering,
                            Committing, Pruning, Emptying
  <2> QED
    BY <1>0, <1>1, <2>1, <2>3, Facts, OutsiderStep DEF Working, Emptying, PC
<1>3. CASE RenameStaleLock(p)
  <2>1. pc[p] = "steal" /\ Goto(p, "lock") /\ lockFile' = None
    BY <1>3 DEF RenameStaleLock, At
  <2>2. pc'[p] = "lock"
    BY <2>1, GotoGood DEF PC
  <2>3. KnowsCall(p)' /\ KnowsDisk(p)'
    BY <1>0, <2>1, <2>2 DEF KnowsCall, KnowsDisk, Working, Outside, Building, Gathering,
                            Committing, Pruning, Emptying
  <2>4. \A q \in Proc : pc[q] \notin Working
    BY <1>3 DEF IInv, KnowsDisk, At, Working
  <2> QED
    BY <1>0, <1>1, <2>1, <2>3, <2>4, OutsiderStep DEF Working, Emptying, PC
<1>4. ASSUME pc[p] \in {"release", "unlock"}, NEW label \in {"unlock", "idle"}, Goto(p, label),
             lockFile' \in {lockFile, None}, label = "unlock" => lockFile' = lockFile
      PROVE  IInv'
  <2>1. /\ pc' \in [Proc -> PC] /\ pc'[p] = label
        /\ \A q \in Proc \ {p} : pc'[q] = pc[q]
    BY <1>4, GotoGood DEF PC
  <2>2. TypeOK'
    BY <1>0, <1>1, <1>4, <2>1, Facts, TypeGood DEF DiskTyped
  <2>3. OthersGoOn(p)
    BY <1>0, <2>1 DEF OthersGoOn, SameLocals
  <2>4. pc[p] \in Working /\ (label = "idle" => label \notin Working)
    BY <1>4 DEF Working
  <2>5. Repository'
    BY <1>0, Facts DEF Repository, SelectedWhole, Whole, Coherent
  <2>6. KnowsCall(p)' /\ KnowsDisk(p)' /\ KnowsOpened(p)'
    BY <1>0, <1>4, <2>1, <2>4 DEF KnowsCall, KnowsDisk, KnowsOpened, Working, Outside, Building,
                                  Gathering, Committing, Pruning, Emptying
  <2> QED
    BY <1>4, <2>1, <2>2, <2>3, <2>4, <2>5, <2>6, WorkerGood
<1>5. CASE ReadToken(p)
  <2>1. pc[p] = "release" /\ lockFile # None /\ lockFile.token = p
    BY <1>0, <1>5 DEF ReadToken, At, KnowsDisk, Working
  <2> QED
    BY <1>4, <1>5, <2>1 DEF ReadToken
<1>6. CASE RemoveLock(p)
  BY <1>4, <1>6 DEF RemoveLock, At
<1> QED
  BY <1>0, <1>2, <1>3, <1>5, <1>6 DEF Contend

-----------------------------------------------------------------------------
(***************************************************************************)
(* Publication                                                             *)
(***************************************************************************)

\* A publisher that goes from one check to the next, or gives up.
LEMMA CheckGood ==
  ASSUME IInv, NEW p \in Proc, StageExports(p) \/ VerifyStaged(p) \/ CompareBase(p),
         UNCHANGED <<lockFile, slow, bounds>>
  PROVE  IInv'
<1>0. /\ pc[p] \in Working /\ KnowsCall(p) /\ KnowsDisk(p)
  BY Facts DEF StageExports, VerifyStaged, CompareBase, At, Working
<1>1. CASE Leave(p)
  <2>1. BoundsTyped'
    BY Facts DEF BoundsTyped, bounds
  <2> QED
    BY <1>0, <1>1, <2>1, LeaveGood
<1>2. ASSUME NEW label \in {"verify", "compare", "select"}, Only(p, label),
             pc[p] \in {"exports", "verify", "compare"},
             label \in {"compare", "select"} => Whole(call[p].version),
             label = "select" => call[p].base = current
      PROVE  IInv'
  <2>1. /\ pc'[p] = label /\ label \in PC
        /\ UNCHANGED <<bundlesDir, bundles, current, exports, index, head, call>>
    BY <1>2, GotoGood DEF Only, PC, diskVars, gitVars
  <2>2. KnowsCall(p)'
    BY <1>0, <1>2, <2>1 DEF KnowsCall, Working, Outside, Building
  <2>3. KnowsDisk(p)'
    BY <1>0, <1>2, <2>1 DEF KnowsDisk, Whole, Working, Gathering, Committing, Pruning, Emptying
  <2> QED
    BY <1>0, <1>2, <2>1, <2>2, <2>3, OnlyGood DEF Emptying
<1>3. CASE StageExports(p)
  BY <1>1, <1>2, <1>3 DEF StageExports, At
<1>4. CASE VerifyStaged(p)
  BY <1>1, <1>2, <1>4 DEF VerifyStaged, At
<1>5. CASE CompareBase(p)
  <2>1. pc[p] = "compare" /\ Whole(call[p].version)
    BY <1>0, <1>5 DEF CompareBase, At, KnowsDisk
  <2> QED
    BY <1>1, <1>2, <1>5, <2>1 DEF CompareBase
<1> QED
  BY <1>3, <1>4, <1>5

LEMMA SelectGood ==
  ASSUME IInv, NEW p \in Proc, SelectBundle(p), UNCHANGED <<lockFile, slow, bounds>>
  PROVE  IInv'
<1>0. /\ pc[p] = "select" /\ KnowsCall(p) /\ KnowsDisk(p) /\ Repository
      /\ call[p] \in Call /\ call \in [Proc -> Call]
  BY Facts DEF SelectBundle, At
<1> DEFINE new == [call[p] EXCEPT !.next = 1]
<1>1. /\ new \in Call /\ call' = [call EXCEPT ![p] = new]
      /\ new.version = call[p].version /\ new.locked = call[p].locked
  <2>1. call' = Set(p, "next", 1) /\ 1 \in 1 .. FileCount + 1
    BY Constants DEF SelectBundle
  <2> QED
    BY <1>0, <2>1 DEF Set, Call
<1> HIDE DEF new
<1>2. /\ current' = call[p].version /\ Goto(p, "refresh")
      /\ UNCHANGED <<bundlesDir, bundles, exports, index, head>>
  BY DEF SelectBundle, gitVars
<1>3. pc'[p] = "refresh" /\ call'[p] = new
  BY <1>0, <1>1, <1>2, GotoGood DEF PC
<1>4. call[p].version \in Version /\ Whole(call[p].version) /\ call[p].locked
  BY <1>0 DEF KnowsCall, KnowsDisk, Building, Working
<1>5. Repository'
  BY <1>0, <1>2, <1>4 DEF Repository, SelectedWhole, Whole, Coherent
<1>6. KnowsCall(p)' /\ KnowsDisk(p)' /\ KnowsOpened(p)'
  BY <1>0, <1>1, <1>2, <1>3, <1>4
     DEF KnowsCall, KnowsDisk, KnowsOpened, Working, Outside, Building, Gathering, Committing,
         Pruning, Emptying
<1> QED
  BY <1>0, <1>1, <1>2, <1>4, <1>5, <1>6, Facts, WorkerStep DEF Working, PC

LEMMA RefreshGood ==
  ASSUME IInv, NEW p \in Proc, RefreshExports(p), UNCHANGED bounds
  PROVE  IInv'
<1>0. /\ pc[p] = "refresh" /\ pc[p] \in Working /\ KnowsCall(p) /\ KnowsDisk(p) /\ Repository
      /\ call[p] \in Call /\ call \in [Proc -> Call] /\ UNCHANGED <<lockFile, slow>>
  BY Facts DEF RefreshExports, At, Working
<1>1. CASE Leave(p)
  <2>1. BoundsTyped'
    BY <1>0, Facts DEF BoundsTyped, bounds
  <2> QED
    BY <1>0, <1>1, <2>1, LeaveGood
<1>2. CASE ~Leave(p)
  <2> DEFINE f == call[p].next
             new == [call[p] EXCEPT !.next = f + 1]
  <2>1. /\ f \in File /\ f + 1 \in 1 .. FileCount + 1
        /\ exports' = [exports EXCEPT ![f] = call[p].version]
        /\ call' = Set(p, "next", f + 1)
        /\ UNCHANGED <<pc, bundlesDir, bundles, current, index, head>>
    <3>1. f <= FileCount /\ f \in 1 .. FileCount + 1
      BY <1>0, <1>2 DEF RefreshExports, Call
    <3>2. f \in File /\ f + 1 \in 1 .. FileCount + 1
      BY <3>1, Constants DEF File
    <3> QED
      BY <1>2, <3>1, <3>2 DEF RefreshExports, gitVars
  <2>2. /\ new \in Call /\ call' = [call EXCEPT ![p] = new]
        /\ new.version = call[p].version /\ new.locked = call[p].locked
    BY <1>0, <2>1 DEF Set, Call
  <2> HIDE DEF new, f
  <2>3. call[p].version \in Version /\ call[p].locked
    BY <1>0 DEF KnowsCall, Building, Working
  <2>4. exports' \in [File -> Version \cup {None}]
    BY <2>1, <2>3, Facts
  <2>5. Goto(p, "refresh") /\ pc'[p] = "refresh" /\ call'[p] = new
    BY <1>0, <2>1, <2>2, Facts DEF Goto
  <2>6. Repository'
    BY <1>0, <2>1 DEF Repository, SelectedWhole, Whole, Coherent
  <2>7. KnowsCall(p)' /\ KnowsDisk(p)' /\ KnowsOpened(p)'
    BY <1>0, <2>1, <2>2, <2>3, <2>5
       DEF KnowsCall, KnowsDisk, KnowsOpened, Working, Outside, Building, Gathering, Committing,
           Pruning, Emptying
  <2> QED
    BY <1>0, <2>1, <2>2, <2>4, <2>5, <2>6, <2>7, Facts, WorkerStep DEF PC
<1> QED
  BY <1>1, <1>2

-----------------------------------------------------------------------------
(***************************************************************************)
(* Commit                                                                  *)
(***************************************************************************)
LEMMA PathsGood ==
  ASSUME IInv, NEW p \in Proc, CommitPaths(p), UNCHANGED <<lockFile, slow, bounds>>
  PROVE  IInv'
<1>0. /\ pc[p] = "paths" /\ pc[p] \in Working /\ KnowsCall(p) /\ KnowsDisk(p) /\ Repository
      /\ call[p] \in Call /\ call \in [Proc -> Call] /\ current \in Version \cup {None}
  BY Facts DEF CommitPaths, At, Working
<1>1. CASE Leave(p)
  <2>1. BoundsTyped'
    BY Facts DEF BoundsTyped, bounds
  <2> QED
    BY <1>0, <1>1, <2>1, LeaveGood
<1>2. CASE ~Leave(p)
  <2> DEFINE new == [call[p] EXCEPT !.version = current]
  <2>1. /\ call' = Set(p, "version", current) /\ Goto(p, "shelve")
        /\ UNCHANGED <<bundlesDir, bundles, current, exports, index, head>>
        /\ current # None => ExportsMatch(current)
    BY <1>2 DEF CommitPaths, diskVars, gitVars
  <2>2. /\ new \in Call /\ call' = [call EXCEPT ![p] = new]
        /\ new.version = current /\ new.locked = call[p].locked
    BY <1>0, <2>1 DEF Set, Call
  <2> HIDE DEF new
  <2>3. pc'[p] = "shelve" /\ call'[p] = new
    BY <1>0, <2>1, <2>2, GotoGood DEF PC
  <2>4. Repository'
    BY <1>0, <2>1 DEF Repository, SelectedWhole, Whole, Coherent
  <2>5. KnowsCall(p)' /\ KnowsDisk(p)' /\ KnowsOpened(p)'
    BY <1>0, <2>1, <2>2, <2>3
       DEF KnowsCall, KnowsDisk, KnowsOpened, ExportsMatch, Working, Outside, Building, Gathering,
           Committing, Pruning, Emptying
  <2> QED
    BY <1>0, <2>1, <2>2, <2>3, <2>4, <2>5, Facts, WorkerStep DEF PC
<1> QED
  BY <1>1, <1>2

LEMMA ShelveGood ==
  ASSUME IInv, NEW p \in Proc, Shelve(p), UNCHANGED <<lockFile, slow, bounds>>
  PROVE  IInv'
<1>0. /\ pc[p] = "shelve" /\ pc[p] \in Working /\ KnowsCall(p) /\ KnowsDisk(p) /\ Repository
      /\ call[p] \in Call /\ call \in [Proc -> Call]
      /\ index \in [artifacts : Snapshot, unrelated : BOOLEAN]
  BY Facts DEF Shelve, At, Working
<1> DEFINE new == [call[p] EXCEPT !.shelved = index.unrelated]
<1>1. /\ index' = [index EXCEPT !.unrelated = FALSE] /\ call' = Set(p, "shelved", index.unrelated)
      /\ Goto(p, "keep") /\ UNCHANGED <<bundlesDir, bundles, current, exports, head>>
  BY DEF Shelve, diskVars
<1>2. /\ new \in Call /\ call' = [call EXCEPT ![p] = new]
      /\ new.version = call[p].version /\ new.locked = call[p].locked
  BY <1>0, <1>1 DEF Set, Call
<1> HIDE DEF new
<1>3. pc'[p] = "keep" /\ call'[p] = new
  BY <1>0, <1>1, <1>2, GotoGood DEF PC
<1>4. /\ index' \in [artifacts : Snapshot, unrelated : BOOLEAN]
      /\ ~index'.unrelated /\ index'.artifacts = index.artifacts
  BY <1>0, <1>1
<1>5. Repository'
  BY <1>0, <1>1, <1>4 DEF Repository, SelectedWhole, Whole, Coherent
<1>6. KnowsCall(p)' /\ KnowsDisk(p)' /\ KnowsOpened(p)'
  BY <1>0, <1>1, <1>2, <1>3, <1>4
     DEF KnowsCall, KnowsDisk, KnowsOpened, ExportsMatch, Working, Outside, Building, Gathering,
         Committing, Pruning, Emptying
<1> QED
  BY <1>0, <1>1, <1>2, <1>3, <1>4, <1>5, <1>6, Facts, WorkerStep DEF PC

\* The bundle to keep is the selected one, and nothing that is listed is it.
LEMMA ListGood ==
  ASSUME IInv, NEW p \in Proc, PruneKeep(p) \/ PruneList(p), UNCHANGED <<lockFile, slow, bounds>>
  PROVE  IInv'
<1>0. /\ pc[p] \in {"keep", "list"} /\ pc[p] \in Working /\ KnowsCall(p) /\ KnowsDisk(p)
      /\ Repository /\ call[p] \in Call /\ call \in [Proc -> Call]
      /\ current \in Version \cup {None}
  BY Facts DEF PruneKeep, PruneList, At, Working
<1>00. call[p].locked /\ ~index.unrelated /\ call[p].version = current
       /\ (current # None => ExportsMatch(current))
  BY <1>0 DEF KnowsCall, KnowsDisk, Working, Gathering, Committing, Pruning
<1>1. CASE Leave(p)
  <2>1. BoundsTyped'
    BY Facts DEF BoundsTyped, bounds
  <2> QED
    BY <1>0, <1>1, <2>1, LeaveGood
<1>2. CASE Only(p, "add")
  <2>1. pc'[p] = "add" /\ UNCHANGED <<bundlesDir, bundles, current, exports, index, head, call>>
    BY <1>2, GotoGood DEF Only, PC, diskVars, gitVars
  <2>2. KnowsCall(p)' /\ KnowsDisk(p)'
    BY <1>0, <1>00, <2>1 DEF KnowsCall, KnowsDisk, ExportsMatch, Working, Outside, Building,
                             Gathering, Committing, Pruning, Emptying
  <2> QED
    BY <1>0, <1>2, <2>2, OnlyGood DEF Emptying, PC
<1>3. ASSUME NEW new \in Call, call' = [call EXCEPT ![p] = new], NEW label \in {"list", "prune"},
             Goto(p, label), UNCHANGED <<bundlesDir, bundles, current, exports, index, head>>,
             new.version = call[p].version, new.locked = call[p].locked,
             new.base = current, label = "prune" => current \notin new.doomed
      PROVE  IInv'
  <2>1. pc'[p] = label /\ call'[p] = new /\ label \in PC
    BY <1>0, <1>3, GotoGood DEF PC
  <2>2. Repository'
    BY <1>0, <1>3 DEF Repository, SelectedWhole, Whole, Coherent
  <2>3. KnowsCall(p)' /\ KnowsDisk(p)' /\ KnowsOpened(p)'
    BY <1>0, <1>00, <1>3, <2>1
       DEF KnowsCall, KnowsDisk, KnowsOpened, ExportsMatch, Working, Outside, Building, Gathering,
           Committing, Pruning, Emptying
  <2> QED
    BY <1>0, <1>3, <2>1, <2>2, <2>3, Facts, WorkerStep
<1>4. CASE PruneKeep(p)
  <2> DEFINE new == [call[p] EXCEPT !.base = current]
  <2>1. CASE ~Leave(p) /\ ~Only(p, "add")
    <3>1. /\ call' = Set(p, "base", current) /\ Goto(p, "list")
          /\ UNCHANGED <<bundlesDir, bundles, current, exports, index, head>>
      BY <1>4, <2>1 DEF PruneKeep, diskVars, gitVars
    <3>2. /\ new \in Call /\ call' = [call EXCEPT ![p] = new] /\ new.base = current
          /\ new.version = call[p].version /\ new.locked = call[p].locked
      BY <1>0, <3>1 DEF Set, Call
    <3> HIDE DEF new
    <3> QED
      BY <1>3, <3>1, <3>2
  <2> QED
    BY <1>1, <1>2, <2>1
<1>5. CASE PruneList(p)
  <2> DEFINE listed == {e \in Entry : bundles[e] # None} \ {call[p].base}
             new == [call[p] EXCEPT !.doomed = listed]
  <2>1. call[p].base = current /\ listed \in SUBSET Entry /\ current \notin listed
    BY <1>0, <1>5 DEF PruneList, At, KnowsDisk, Pruning
  <2>2. /\ call' = Set(p, "doomed", listed) /\ Goto(p, "prune")
        /\ UNCHANGED <<bundlesDir, bundles, current, exports, index, head>>
    BY <1>5 DEF PruneList, diskVars, gitVars
  <2> HIDE DEF listed
  <2>3. /\ new \in Call /\ call' = [call EXCEPT ![p] = new] /\ new.base = call[p].base
        /\ new.version = call[p].version /\ new.locked = call[p].locked /\ new.doomed = listed
    BY <1>0, <2>1, <2>2 DEF Set, Call
  <2> HIDE DEF new
  <2> QED
    BY <1>3, <2>1, <2>2, <2>3
<1> QED
  BY <1>4, <1>5 DEF PruneKeep, PruneList

LEMMA AddGood ==
  ASSUME IInv, NEW p \in Proc, AddPaths(p), UNCHANGED <<lockFile, slow, bounds>>
  PROVE  IInv'
<1>0. /\ pc[p] = "add" /\ pc[p] \in Working /\ KnowsCall(p) /\ KnowsDisk(p) /\ Repository
      /\ call[p] \in Call /\ call \in [Proc -> Call] /\ current \in Version \cup {None}
      /\ index \in [artifacts : Snapshot, unrelated : BOOLEAN]
      /\ exports \in [File -> Version \cup {None}]
  BY Facts DEF AddPaths, At, Working
<1>00. call[p].locked /\ ~index.unrelated /\ call[p].version = current
       /\ (current # None => ExportsMatch(current))
  BY <1>0 DEF KnowsCall, KnowsDisk, Working, Gathering, Committing
<1>1. CASE Leave(p)
  <2>1. BoundsTyped'
    BY Facts DEF BoundsTyped, bounds
  <2> QED
    BY <1>0, <1>1, <2>1, LeaveGood
<1>2. CASE ~Leave(p)
  <2> DEFINE added == [current |-> current, bundle |-> current, exports |-> exports]
  <2>1. /\ index' = [index EXCEPT !.artifacts = added] /\ Goto(p, "commit")
        /\ UNCHANGED <<bundlesDir, bundles, current, exports, head, call>>
    <3>1. (IF current = None THEN None ELSE current) = current
      OBVIOUS
    <3> QED
      BY <1>00, <1>2, <3>1 DEF AddPaths, diskVars
  <2>2. added \in Snapshot /\ Coherent(added)
    BY <1>0, <1>00 DEF Snapshot, Coherent, ExportsMatch
  <2> HIDE DEF added
  <2>3. /\ index' \in [artifacts : Snapshot, unrelated : BOOLEAN]
        /\ index'.artifacts = added /\ ~index'.unrelated
    BY <1>0, <1>00, <2>1, <2>2
  <2>4. pc'[p] = "commit"
    BY <2>1, GotoGood DEF PC
  <2>5. Repository'
    BY <1>0, <2>1, <2>2, <2>3 DEF Repository, SelectedWhole, Whole, Coherent
  <2>6. KnowsCall(p)' /\ KnowsDisk(p)' /\ KnowsOpened(p)'
    BY <1>0, <1>00, <2>1, <2>3, <2>4
       DEF KnowsCall, KnowsDisk, KnowsOpened, Working, Outside, Building, Gathering, Committing,
           Pruning, Emptying
  <2>7. call' = [call EXCEPT ![p] = call[p]]
    BY <1>0, <2>1
  <2> QED
    BY <1>0, <2>1, <2>3, <2>5, <2>6, <2>7, Facts, WorkerStep DEF PC
<1> QED
  BY <1>1, <1>2

LEMMA CommitGood ==
  ASSUME IInv, NEW p \in Proc, CommitIndex(p) \/ Restore(p), UNCHANGED <<lockFile, slow, bounds>>
  PROVE  IInv'
<1>0. /\ pc[p] \in {"commit", "restore"} /\ pc[p] \in Working /\ KnowsCall(p) /\ KnowsDisk(p)
      /\ Repository /\ call[p] \in Call /\ call \in [Proc -> Call]
      /\ index \in [artifacts : Snapshot, unrelated : BOOLEAN]
      /\ head \in [artifacts : Snapshot, unrelated : BOOLEAN] /\ call[p].locked
  <2>1. pc[p] \in {"commit", "restore"}
    BY DEF CommitIndex, Restore, At
  <2>2. pc[p] \in Working
    BY <2>1 DEF Working
  <2> QED
    BY <2>1, <2>2, Facts DEF KnowsCall
<1>1. ASSUME NEW new \in Call, call' = [call EXCEPT ![p] = new], NEW label \in {"restore", "release"},
             Goto(p, label), UNCHANGED <<bundlesDir, bundles, current, exports>>,
             index' \in [artifacts : Snapshot, unrelated : BOOLEAN],
             index'.artifacts = index.artifacts,
             head' = head \/ (pc[p] = "commit" /\ head' = index),
             new.locked = call[p].locked
      PROVE  IInv'
  <2>1. pc'[p] = label /\ call'[p] = new /\ label \in PC
    BY <1>0, <1>1, GotoGood DEF PC
  <2>2. pc[p] = "commit" => ~index.unrelated
    BY <1>0 DEF KnowsDisk, Committing
  <2>3. Repository'
    BY <1>0, <1>1, <2>2 DEF Repository, SelectedWhole, Whole, Coherent
  <2>4. KnowsCall(p)' /\ KnowsDisk(p)' /\ KnowsOpened(p)'
    BY <1>0, <1>1, <2>1
       DEF KnowsCall, KnowsDisk, KnowsOpened, Working, Outside, Building, Gathering, Committing,
           Pruning, Emptying
  <2> QED
    BY <1>0, <1>1, <2>1, <2>3, <2>4, Facts, WorkerStep
<1>2. CASE CommitIndex(p)
  <2>1. PICK label \in {"restore", "release"} : Goto(p, label)
    BY <1>0, <1>2 DEF CommitIndex
  <2>2. call' = [call EXCEPT ![p] = call[p]] /\ UNCHANGED <<bundlesDir, bundles, current, exports>>
    BY <1>0, <1>2 DEF CommitIndex, diskVars
  <2> QED
    BY <1>0, <1>1, <1>2, <2>1, <2>2 DEF CommitIndex, At
<1>3. CASE Restore(p)
  <2> DEFINE new == [call[p] EXCEPT !.shelved = FALSE]
  <2>1. /\ index' = [index EXCEPT !.unrelated = TRUE] /\ call' = Set(p, "shelved", FALSE)
        /\ Goto(p, "release") /\ UNCHANGED <<bundlesDir, bundles, current, exports, head>>
    BY <1>0, <1>3 DEF Restore, diskVars
  <2>2. /\ new \in Call /\ call' = [call EXCEPT ![p] = new] /\ new.locked = call[p].locked
    BY <1>0, <2>1 DEF Set, Call
  <2>3. /\ index' \in [artifacts : Snapshot, unrelated : BOOLEAN]
        /\ index'.artifacts = index.artifacts
    BY <1>0, <2>1
  <2> HIDE DEF new
  <2> QED
    BY <1>1, <2>1, <2>2, <2>3
<1> QED
  BY <1>2, <1>3

-----------------------------------------------------------------------------
(***************************************************************************)
(* Pruning                                                                 *)
(***************************************************************************)

\* Whatever a prune removes, it is not from the selected bundle.
LEMMA PruneStep ==
  ASSUME IInv, NEW p \in Proc, pc[p] \in {"prune"} \cup Emptying,
         NEW label \in {"prune"} \cup Emptying, Goto(p, label),
         UNCHANGED <<lockFile, slow, bounds, bundlesDir, current, exports, index, head>>,
         call' \in [Proc -> Call], \A q \in Proc \ {p} : SameLocals(q),
         bundles' \in [Entry -> (SUBSET File) \cup {None}],
         current # None => bundles'[current] = bundles[current],
         call'[p].version = call[p].version, call'[p].locked = call[p].locked,
         call'[p].base = call[p].base, call'[p].doomed \subseteq call[p].doomed,
         label \in Emptying => call'[p].victim \in call'[p].doomed,
         KnowsOpened(p)'
  PROVE  IInv'
<1>0. /\ pc[p] \in Working /\ KnowsCall(p) /\ KnowsDisk(p) /\ Repository /\ label \in PC
  BY Facts DEF Emptying, Working, PC
<1>1. /\ pc' \in [Proc -> PC] /\ pc'[p] = label
      /\ \A q \in Proc \ {p} : pc'[q] = pc[q]
  BY <1>0, GotoGood
<1>2. BoundsTyped' /\ DiskTyped'
  BY Facts DEF BoundsTyped, DiskTyped, bounds
<1>3. TypeOK'
  BY <1>1, <1>2, Facts, TypeGood
<1>4. OthersGoOn(p)
  BY <1>1 DEF OthersGoOn
<1>5. Repository'
  BY <1>0 DEF Repository, SelectedWhole, Whole, Coherent
<1>6. /\ call[p].version = current /\ (current # None => ExportsMatch(current))
      /\ ~index.unrelated /\ call[p].base = current /\ current \notin call[p].doomed
      /\ call[p].locked /\ lockFile # None /\ lockFile.token = p
  BY <1>0 DEF KnowsCall, KnowsDisk, Gathering, Committing, Pruning
<1>7. KnowsCall(p)'
  BY <1>1, <1>6 DEF KnowsCall, Outside, Building, Emptying
<1>8. KnowsDisk(p)'
  BY <1>1, <1>6 DEF KnowsDisk, ExportsMatch, Emptying
<1> QED
  BY <1>0, <1>3, <1>4, <1>5, <1>7, <1>8, WorkerGood

LEMMA RenamedAll ==
  ASSUME IInv, NEW e, NEW name \in Entry \cup {None}
  PROVE  /\ Renamed(e, name) \in [Proc -> Call]
         /\ \A q \in Proc :
              LET c == Renamed(e, name)[q]
              IN /\ c.kind = call[q].kind /\ c.version = call[q].version
                 /\ c.base = call[q].base /\ c.next = call[q].next
                 /\ c.locked = call[q].locked /\ c.shelved = call[q].shelved
                 /\ c.doomed = call[q].doomed /\ c.victim = call[q].victim
<1>1. call \in [Proc -> Call]
  BY DEF IInv, TypeOK
<1>2. ASSUME NEW q \in Proc
      PROVE  LET c == Renamed(e, name)[q]
             IN /\ c \in Call
                /\ c.kind = call[q].kind /\ c.version = call[q].version
                /\ c.base = call[q].base /\ c.next = call[q].next
                /\ c.locked = call[q].locked /\ c.shelved = call[q].shelved
                /\ c.doomed = call[q].doomed /\ c.victim = call[q].victim
  <2>1. call[q] \in Call
    BY <1>1
  <2>2. Renamed(e, name)[q] =
          IF call[q].opened = e THEN [call[q] EXCEPT !.opened = name] ELSE call[q]
    BY DEF Renamed
  <2> QED
    BY <2>1, <2>2 DEF Call
<1>3. Renamed(e, name) = [q \in Proc |-> Renamed(e, name)[q]]
  BY DEF Renamed
<1> QED
  BY <1>2, <1>3

LEMMA PruneEntryGood ==
  ASSUME IInv, NEW p \in Proc, PruneEntry(p), UNCHANGED <<lockFile, slow, bounds>>
  PROVE  IInv'
<1>0. /\ pc[p] = "prune" /\ pc[p] \in Working /\ KnowsCall(p) /\ KnowsDisk(p)
      /\ call[p] \in Call /\ call \in [Proc -> Call] /\ DiskTyped
      /\ current \in Version \cup {None}
  BY Facts DEF PruneEntry, At, Working
<1>00. current \notin call[p].doomed /\ call[p].doomed \subseteq Entry
  BY <1>0 DEF KnowsDisk, Call
<1>1. CASE Only(p, "add")
  <2>1. pc'[p] = "add" /\ UNCHANGED <<bundlesDir, bundles, current, exports, index, head, call>>
    BY <1>1, GotoGood DEF Only, PC, diskVars, gitVars
  <2>2. KnowsCall(p)' /\ KnowsDisk(p)'
    BY <1>0, <2>1 DEF KnowsCall, KnowsDisk, ExportsMatch, Working, Outside, Building,
                      Gathering, Committing, Pruning, Emptying
  <2> QED
    BY <1>0, <1>1, <2>2, OnlyGood DEF Emptying, PC
<1>2. ASSUME NEW e \in call[p].doomed, bundles' = [bundles EXCEPT ![e] = None],
             call' = [Renamed(e, None) EXCEPT ![p].doomed = @ \ {e}],
             UNCHANGED <<pc, bundlesDir, current, exports, gitVars>>
      PROVE  IInv'
  <2> DEFINE c == Renamed(e, None)
  <2>1. c \in [Proc -> Call] /\ c[p].doomed = call[p].doomed
        /\ c[p].version = call[p].version /\ c[p].locked = call[p].locked /\ c[p].base = call[p].base
    BY RenamedAll
  <2>2. \A q \in Proc \ {p} : SameLocals(q)
    BY <1>2, RenamedAll DEF SameLocals
  <2> HIDE DEF c
  <2>3. call' = [c EXCEPT ![p].doomed = @ \ {e}]
    BY <1>2 DEF c
  <2>4. /\ call' \in [Proc -> Call] /\ call'[p].doomed = call[p].doomed \ {e}
        /\ call'[p].version = call[p].version /\ call'[p].locked = call[p].locked
        /\ call'[p].base = call[p].base
    BY <2>1, <2>3 DEF Call
  <2>5. /\ bundles' \in [Entry -> (SUBSET File) \cup {None}]
        /\ current # None => bundles'[current] = bundles[current]
    BY <1>0, <1>00, <1>2, Constants DEF DiskTyped
  <2>6. Goto(p, "prune") /\ pc'[p] = "prune"
    BY <1>0, <1>2, Facts DEF Goto
  <2> QED
    BY <1>0, <1>2, <2>2, <2>4, <2>5, <2>6, PruneStep DEF gitVars, KnowsOpened, Emptying
<1>3. ASSUME NEW e \in call[p].doomed, bundles[e] \notin {None, {}},
             call' = [call EXCEPT ![p].victim = e, ![p].opened = e, ![p].unlinks = bundles[e]],
             Goto(p, "empty"), UNCHANGED <<diskVars, gitVars>>
      PROVE  IInv'
  <2>1. e \in Entry /\ e # current /\ bundles[e] \in SUBSET File
    BY <1>0, <1>00, <1>3 DEF DiskTyped
  <2>2. /\ call'[p] = [call[p] EXCEPT !.victim = e, !.opened = e, !.unlinks = bundles[e]]
        /\ \A q \in Proc \ {p} : call'[q] = call[q]
    BY <1>0, <1>3
  <2>3. call'[p] \in Call
    BY <1>0, <2>1, <2>2 DEF Call
  <2>4. call' \in [Proc -> Call]
    BY <1>0, <1>3, <2>2, <2>3
  <2>5. /\ call'[p].doomed = call[p].doomed /\ call'[p].victim = e /\ call'[p].opened = e
        /\ call'[p].version = call[p].version /\ call'[p].locked = call[p].locked
        /\ call'[p].base = call[p].base
    BY <1>0, <2>2 DEF Call
  <2>6. UNCHANGED <<bundlesDir, bundles, current, exports, index, head>>
    BY <1>3 DEF diskVars, gitVars
  <2>7. \A q \in Proc \ {p} : SameLocals(q)
    BY <2>2 DEF SameLocals
  <2>8. KnowsOpened(p)'
    BY <1>3, <2>1, <2>5, <2>6 DEF KnowsOpened
  <2> QED
    BY <1>0, <1>3, <2>4, <2>5, <2>6, <2>7, <2>8, PruneStep DEF Emptying, DiskTyped
<1> QED
  BY <1>1, <1>2, <1>3 DEF PruneEntry

LEMMA PruneFileGood ==
  ASSUME IInv, NEW p \in Proc, PruneFile(p), UNCHANGED <<lockFile, slow, bounds>>
  PROVE  IInv'
<1> DEFINE e == call[p].opened
<1>0. /\ pc[p] = "empty" /\ KnowsDisk(p) /\ KnowsOpened(p)
      /\ call[p] \in Call /\ call \in [Proc -> Call] /\ DiskTyped
      /\ e \in Entry \cup {None} /\ call[p].unlinks \subseteq File
  <2>1. call[p] \in Call
    BY Facts
  <2> QED
    BY <2>1, Facts DEF PruneFile, At, Call
<1>1. e # None => e # current /\ bundles[e] \in SUBSET File
  BY <1>0 DEF KnowsOpened, Emptying, DiskTyped
<1>2. PICK f \in call[p].unlinks :
        /\ bundles' = IF e = None THEN bundles ELSE [bundles EXCEPT ![e] = @ \ {f}]
        /\ call' = Set(p, "unlinks", call[p].unlinks \ {f})
        /\ Goto(p, IF call[p].unlinks = {f} THEN "rmdir" ELSE "empty")
  BY DEF PruneFile
<1>3. PICK label \in Emptying : Goto(p, label)
  BY <1>2 DEF Emptying
<1>4. UNCHANGED <<bundlesDir, current, exports, index, head>>
  BY DEF PruneFile, gitVars
<1>5. /\ call' \in [Proc -> Call] /\ \A q \in Proc \ {p} : call'[q] = call[q]
      /\ call'[p] = [call[p] EXCEPT !.unlinks = call[p].unlinks \ {f}]
  BY <1>0, <1>2 DEF Set, Call
<1>6. /\ call'[p].doomed = call[p].doomed /\ call'[p].victim = call[p].victim
      /\ call'[p].opened = e /\ call'[p].version = call[p].version
      /\ call'[p].locked = call[p].locked /\ call'[p].base = call[p].base
  BY <1>0, <1>5 DEF Call
<1> HIDE DEF e
<1>7. /\ bundles' \in [Entry -> (SUBSET File) \cup {None}]
      /\ current # None => bundles'[current] = bundles[current]
      /\ e # None => bundles'[e] # None
  <2>1. CASE e = None
    BY <1>0, <1>2, <2>1 DEF DiskTyped
  <2>2. CASE e # None
    <3>1. bundles[e] \ {f} \in SUBSET File /\ e \in Entry
      BY <1>0, <1>1, <2>2
    <3>2. bundles' = [bundles EXCEPT ![e] = bundles[e] \ {f}]
      BY <1>2, <2>2
    <3>3. bundles' \in [Entry -> (SUBSET File) \cup {None}] /\ bundles'[e] = bundles[e] \ {f}
          /\ \A x \in Entry \ {e} : bundles'[x] = bundles[x]
      BY <1>0, <3>1, <3>2 DEF DiskTyped
    <3>4. bundles'[e] # None
      BY <3>1, <3>3, NoneIsNoDirectory
    <3> QED
      BY <1>1, <2>2, <3>3, <3>4, Facts, Constants
  <2> QED
    BY <2>1, <2>2
<1>8. call'[p].victim \in call'[p].doomed
  BY <1>0, <1>6 DEF KnowsDisk, Emptying
<1>9. KnowsOpened(p)'
  BY <1>1, <1>4, <1>6, <1>7 DEF KnowsOpened
<1>10. \A q \in Proc \ {p} : SameLocals(q)
  BY <1>5 DEF SameLocals
<1>11. pc[p] \in {"prune"} \cup Emptying
  BY <1>0 DEF Emptying
<1> QED
  BY <1>3, <1>4, <1>5, <1>6, <1>7, <1>8, <1>9, <1>10, <1>11, PruneStep

LEMMA PruneDirectoryGood ==
  ASSUME IInv, NEW p \in Proc, PruneDirectory(p), UNCHANGED <<lockFile, slow, bounds>>
  PROVE  IInv'
<1> DEFINE e == call[p].victim
<1>0. /\ pc[p] = "rmdir" /\ pc[p] \in Working /\ KnowsDisk(p)
      /\ call[p] \in Call /\ call \in [Proc -> Call] /\ DiskTyped
  BY Facts DEF PruneDirectory, At, Working
<1>00. e \in call[p].doomed /\ call[p].doomed \subseteq Entry /\ current \notin call[p].doomed
  BY <1>0 DEF KnowsDisk, Emptying, Call
<1> HIDE DEF e
<1>1. CASE Leave(p)
  <2>1. BoundsTyped'
    BY Facts DEF BoundsTyped, bounds
  <2> QED
    BY <1>0, <1>1, <2>1, LeaveGood
<1>2. CASE ~Leave(p)
  <2> DEFINE c == Renamed(e, None)
  <2>1. /\ bundles' = [bundles EXCEPT ![e] = None] /\ Goto(p, "prune")
        /\ call' = [c EXCEPT ![p].doomed = @ \ {e}, ![p].victim = None, ![p].opened = None]
        /\ UNCHANGED <<bundlesDir, current, exports, index, head>>
    BY <1>2 DEF PruneDirectory, e, gitVars
  <2>2. c \in [Proc -> Call] /\ c[p].doomed = call[p].doomed
        /\ c[p].version = call[p].version /\ c[p].locked = call[p].locked /\ c[p].base = call[p].base
    BY RenamedAll
  <2>3. \A q \in Proc \ {p} : SameLocals(q)
    BY <2>1, RenamedAll DEF SameLocals
  <2> HIDE DEF c
  <2>4. /\ call' \in [Proc -> Call] /\ call'[p].doomed = call[p].doomed \ {e}
        /\ call'[p].version = call[p].version /\ call'[p].locked = call[p].locked
        /\ call'[p].base = call[p].base
    <3>1. call'[p] = [c[p] EXCEPT !.doomed = @ \ {e}, !.victim = None, !.opened = None]
      BY <2>1, <2>2
    <3> DEFINE left == c[p].doomed \ {e}
    <3>2. c[p] \in Call /\ left \in SUBSET Entry
      BY <2>2 DEF Call
    <3>3. call'[p] = [c[p] EXCEPT !.doomed = left, !.victim = None, !.opened = None]
      BY <3>1
    <3> HIDE DEF left
    <3>4. call'[p] \in Call /\ call'[p].doomed = left
          /\ call'[p].version = c[p].version /\ call'[p].locked = c[p].locked
          /\ call'[p].base = c[p].base
      BY <3>2, <3>3 DEF Call
    <3> QED
      BY <2>1, <2>2, <3>4 DEF left
  <2>5. /\ bundles' \in [Entry -> (SUBSET File) \cup {None}]
        /\ current # None => bundles'[current] = bundles[current]
    BY <1>0, <1>00, <2>1, Facts, Constants DEF DiskTyped
  <2>6. pc'[p] = "prune" /\ pc[p] \in {"prune"} \cup Emptying
    BY <1>0, <2>1, GotoGood DEF PC, Emptying
  <2>7. KnowsOpened(p)'
    BY <2>6 DEF KnowsOpened, Emptying
  <2> QED
    BY <2>1, <2>3, <2>4, <2>5, <2>6, <2>7, PruneStep DEF Emptying
<1> QED
  BY <1>1, <1>2

-----------------------------------------------------------------------------
(***************************************************************************)
(* All steps                                                               *)
(***************************************************************************)
LEMMA ErrorGood ==
  ASSUME IInv, NEW p \in Proc, Error(p)
  PROVE  IInv'
<1>1. pc[p] \in Working \cup Outside
  BY DEF Error, CanFail, PC, Working, Outside
<1>2. BoundsTyped'
  <2>1. errors + 1 \in 0 .. MaxErrors
    BY Facts, ArtifactPublicationAssumption DEF Error, BoundsTyped
  <2> QED
    BY <2>1, Facts DEF Error, BoundsTyped
<1> QED
  BY <1>1, <1>2, LeaveGood DEF Error

\* Who dies knows nothing any more; its lock stays.
LEMMA CrashGood ==
  ASSUME IInv, NEW p \in Proc, Crash(p)
  PROVE  IInv'
<1>0. /\ Goto(p, "dead") /\ call' = [call EXCEPT ![p] = NoCall]
      /\ UNCHANGED <<lockFile, slow, bundlesDir, bundles, current, exports, index, head>>
  BY DEF Crash, diskVars, gitVars
<1>1. /\ pc' \in [Proc -> PC] /\ pc'[p] = "dead"
      /\ \A q \in Proc \ {p} : pc'[q] = pc[q]
  BY <1>0, GotoGood DEF PC
<1>2. NoCall \in Call
  BY Constants DEF NoCall, Call, Kind
<1>3. call' \in [Proc -> Call] /\ \A q \in Proc \ {p} : call'[q] = call[q]
  BY <1>0, <1>2, Facts
<1>4. BoundsTyped'
  <2>1. crashes + 1 \in 0 .. MaxCrashes
    BY Facts, ArtifactPublicationAssumption DEF Crash, BoundsTyped
  <2> QED
    BY <1>0, <2>1, Facts DEF Crash, BoundsTyped
<1>5. TypeOK'
  BY <1>0, <1>1, <1>3, <1>4, Facts, TypeGood DEF DiskTyped
<1>6. OthersGoOn(p)
  BY <1>1, <1>3 DEF OthersGoOn, SameLocals
<1>7. KnowsCall(p)' /\ KnowsDisk(p)' /\ KnowsOpened(p)'
  BY <1>1 DEF KnowsCall, KnowsDisk, KnowsOpened, Working, Outside, Building, Gathering, Committing,
              Pruning, Emptying
<1>8. CASE pc[p] \in Working
  <2>1. Repository'
    BY <1>0, Facts DEF Repository, SelectedWhole, Whole, Coherent
  <2> QED
    BY <1>0, <1>5, <1>6, <1>7, <1>8, <2>1, WorkerGood
<1>9. CASE pc[p] \notin Working
  <2>1. \A q \in Proc \ {p} : KnowsOpened(q)'
    BY <1>0, <1>1, <1>3 DEF IInv, KnowsOpened
  <2> QED
    BY <1>0, <1>5, <1>6, <1>7, <1>9, <2>1, OutsiderGood
<1> QED
  BY <1>8, <1>9

LEMMA AgeGood ==
  ASSUME IInv, MinutePasses
  PROVE  IInv'
<1>1. /\ lockFile \in LockFile /\ lockFile' = [lockFile EXCEPT !.recent = FALSE]
      /\ UNCHANGED <<pc, bundlesDir, bundles, current, exports, index, head, call,
                     calls, errors, crashes>>
  BY DEF MinutePasses, Age, IInv, TypeOK, diskVars, gitVars, bounds
<1>2. lockFile' \in LockFile /\ lockFile'.token = lockFile.token /\ lockFile' # None
  BY <1>1, NoneIsNoLock DEF LockFile
<1>3. slow' \in 0 .. MaxSlow
  <2>1. slow \in 0 .. MaxSlow /\ MaxSlow \in Nat
    BY PublicationLockAssumption DEF IInv, TypeOK
  <2>2. slow' = slow \/ (slow < MaxSlow /\ slow' = slow + 1)
    BY DEF MinutePasses, Age
  <2> QED
    BY <2>1, <2>2
<1>4. TypeOK'
  BY <1>1, <1>2, <1>3 DEF IInv, TypeOK
<1>5. Repository'
  BY <1>1 DEF IInv, Repository, SelectedWhole, Whole, Coherent
<1>6. \A p \in Proc : KnowsCall(p)' /\ KnowsDisk(p)' /\ KnowsOpened(p)'
  BY <1>1, <1>2 DEF IInv, KnowsCall, KnowsDisk, KnowsOpened, Whole, ExportsMatch
<1> QED
  BY <1>4, <1>5, <1>6 DEF IInv

LEMMA FileStepGood ==
  ASSUME IInv, NEW p \in Proc, FileStep(p), UNCHANGED <<lockFile, slow, bounds>>,
         GuardCommit(p) => bundlesDir
  PROVE  IInv'
BY StageGood, WriteFileGood, RenameGood, CheckGood, SelectGood, GuardGood, PathsGood, ShelveGood,
   ListGood, PruneEntryGood, PruneFileGood, PruneDirectoryGood, AddGood, CommitGood, ReaderGood
   DEF FileStep

LEMMA StutterGood ==
  ASSUME IInv, UNCHANGED vars
  PROVE  IInv'
<1>1. UNCHANGED <<lockFile, pc, slow, bundlesDir, bundles, current, exports, index, head, call,
                  calls, errors, crashes>>
  BY DEF vars, lockVars, diskVars, gitVars, bounds
<1> QED
  BY <1>1 DEF IInv, TypeOK, Repository, SelectedWhole, Whole, Coherent, KnowsCall, KnowsDisk,
              KnowsOpened, ExportsMatch

LEMMA InductiveStep == IInv /\ [Next]_vars /\ [Undisturbed]_vars => IInv'
<1> SUFFICES ASSUME IInv, [Next]_vars, [Undisturbed]_vars PROVE IInv'
  OBVIOUS
<1>1. CASE UNCHANGED vars
  BY <1>1, StutterGood
<1>2. ASSUME NEW p \in Proc, Step(p), Undisturbed PROVE IInv'
  <2>1. UNCHANGED bounds
    BY <1>2 DEF Step
  <2>2. CASE FileStep(p) /\ UNCHANGED <<lockFile, slow>>
    BY <1>2, <2>1, <2>2, FileStepGood DEF Undisturbed
  <2>3. CASE Contend(p)
    BY <1>2, <2>1, <2>3, ContendGood DEF Undisturbed
  <2> QED
    BY <1>2, <2>1, <2>2, <2>3, RefreshGood, AcquireGood DEF Step
<1> QED
  BY <1>1, <1>2, BeginGood, ErrorGood, CrashGood, AgeGood DEF Next, AtRest

\* The invariant: what every step of a build, a commit and a read knows of the disk and
\* of the lock, in every behaviour that respects the lock.
THEOREM PublicationInvariant == Spec /\ [][Undisturbed]_vars => []IInv
<1> QED
  BY InitHolds, InductiveStep, PTL DEF Spec

\* SelectedWhole: whatever stages and prunes beside it, the selected bundle is whole.
THEOREM SelectedIsWhole == Spec /\ [][Undisturbed]_vars => []SelectedWhole
<1>1. IInv => SelectedWhole
  BY DEF IInv, Repository
<1> QED
  BY <1>1, PublicationInvariant, PTL

\* CommitCoherent: a commit holds one version, whole, with the exports that equal it.
THEOREM CommitsOneVersion == Spec /\ [][Undisturbed]_vars => []CommitCoherent
<1>1. IInv => CommitCoherent
  BY DEF IInv, Repository, Coherent, CommitCoherent
<1> QED
  BY <1>1, PublicationInvariant, PTL

\* CommitsOnlyKnowledge: what others have staged is in no commit.
THEOREM CommitsNothingElse == Spec /\ [][Undisturbed]_vars => []CommitsOnlyKnowledge
<1>1. IInv => CommitsOnlyKnowledge
  BY DEF IInv, Repository, CommitsOnlyKnowledge
<1> QED
  BY <1>1, PublicationInvariant, PTL

-----------------------------------------------------------------------------
(***************************************************************************)
(* What moves the pointer and the exports, and where a step leads          *)
(***************************************************************************)
LEMMA LeaveEffects ==
  ASSUME NEW p \in Proc, Leave(p)
  PROVE  /\ UNCHANGED <<bundlesDir, current, exports>>
         /\ \E label \in PC \ {"dead", "steal"} : Goto(p, label)
<1>1. Goto(p, IF call[p].shelved THEN "restore" ELSE IF call[p].locked THEN "release" ELSE "idle")
  BY DEF Leave
<1> QED
  BY <1>1 DEF Leave, PC

LEMMA FileStepEffects ==
  ASSUME NEW p \in Proc, FileStep(p)
  PROVE  /\ pc[p] \notin {"idle", "dead", "lock", "steal"} /\ exports' = exports
         /\ bundlesDir' \in {bundlesDir, TRUE} /\ (current' = current \/ SelectBundle(p))
         /\ pc' = pc \/ \E label \in PC \ {"dead", "steal"} : Goto(p, label)
<1> DEFINE Effects ==
      /\ exports' = exports /\ bundlesDir' \in {bundlesDir, TRUE}
      /\ current' = current \/ SelectBundle(p)
      /\ pc' = pc \/ \E label \in PC \ {"dead", "steal"} : Goto(p, label)
<1>1. pc[p] \notin {"idle", "dead", "lock", "steal"}
  BY DEF FileStep, Stage, WriteFile, RenameBundle, StageExports, VerifyStaged, CompareBase,
         SelectBundle, GuardCommit, CommitPaths, Shelve, PruneKeep, PruneList, PruneEntry,
         PruneFile, PruneDirectory, AddPaths, CommitIndex, Restore, ReadFiles, Recheck, At
<1> SUFFICES Effects
  BY <1>1
<1>2. CASE Leave(p)
  BY <1>2, LeaveEffects
<1>3. ASSUME NEW label \in PC \ {"dead", "steal"}, Only(p, label) PROVE Effects
  BY <1>3 DEF Only, diskVars
<1>4. CASE Stage(p)
  <2>1. \E label \in {"lock", "idle", "write"} : Goto(p, label)
    BY <1>4 DEF Stage
  <2> QED
    BY <1>4, <2>1 DEF Stage, PC
<1>5. CASE (WriteFile(p) \/ RenameBundle(p)) /\ ~Leave(p)
  <2>1. \E label \in {"rename", "write", "lock"} : Goto(p, label)
    BY <1>5 DEF WriteFile, RenameBundle
  <2> QED
    BY <1>5, <2>1 DEF WriteFile, RenameBundle, PC
<1>6. CASE (StageExports(p) \/ VerifyStaged(p) \/ CompareBase(p) \/ GuardCommit(p)) /\ ~Leave(p)
  <2>1. \E label \in {"verify", "compare", "select", "lock", "paths"} : Only(p, label)
    BY <1>6 DEF StageExports, VerifyStaged, CompareBase, GuardCommit
  <2> QED
    BY <1>3, <2>1 DEF PC
<1>7. CASE SelectBundle(p)
  BY <1>7 DEF SelectBundle, PC
<1>8. CASE (CommitPaths(p) \/ Shelve(p) \/ PruneKeep(p) \/ PruneList(p)) /\ ~Leave(p)
  <2>1. \E label \in {"shelve", "keep", "add", "list", "prune"} : Goto(p, label)
    BY <1>8 DEF CommitPaths, Shelve, PruneKeep, PruneList, Only
  <2>2. UNCHANGED <<bundlesDir, current, exports>>
    BY <1>8 DEF CommitPaths, Shelve, PruneKeep, PruneList, Only, diskVars
  <2> QED
    BY <2>1, <2>2 DEF PC
<1>9. CASE (PruneEntry(p) \/ PruneFile(p) \/ PruneDirectory(p)) /\ ~Leave(p)
  <2>1. pc' = pc \/ \E label \in {"add", "empty", "rmdir", "prune"} : Goto(p, label)
    BY <1>9 DEF PruneEntry, PruneFile, PruneDirectory, Only
  <2>2. UNCHANGED <<bundlesDir, current, exports>>
    BY <1>9 DEF PruneEntry, PruneFile, PruneDirectory, Only, diskVars
  <2> QED
    BY <2>1, <2>2 DEF PC
<1>10. CASE (AddPaths(p) \/ CommitIndex(p) \/ Restore(p)) /\ ~Leave(p)
  <2>1. \E label \in {"commit", "restore", "release", "idle"} : Goto(p, label)
    BY <1>10 DEF AddPaths, CommitIndex, Restore
  <2>2. UNCHANGED <<bundlesDir, current, exports>>
    BY <1>10 DEF AddPaths, CommitIndex, Restore, diskVars
  <2> QED
    BY <2>1, <2>2 DEF PC
<1>11. CASE (ReadFiles(p) \/ Recheck(p)) /\ ~Leave(p)
  <2>1. pc' = pc \/ \E label \in {"recheck", "idle"} : Goto(p, label)
    BY <1>11 DEF ReadFiles, Recheck, Only
  <2>2. UNCHANGED <<bundlesDir, current, exports>>
    BY <1>11 DEF ReadFiles, Recheck, Only, diskVars
  <2> QED
    BY <2>1, <2>2 DEF PC
<1> QED
  BY <1>2, <1>4, <1>5, <1>6, <1>7, <1>8, <1>9, <1>10, <1>11 DEF FileStep

\* Of the other steps one refreshes the exports, and none moves the pointer.
LEMMA PointerMoves ==
  ASSUME [Next]_vars
  PROVE  /\ current' = current \/ \E p \in Proc : SelectBundle(p)
         /\ exports' = exports \/ \E p \in Proc : RefreshExports(p) /\ ~Leave(p)
<1>1. CASE UNCHANGED vars
  BY <1>1 DEF vars, diskVars
<1>2. ASSUME NEW p \in Proc, BeginBuild(p) \/ BeginCommit(p) \/ BeginRead(p) \/ Crash(p)
      PROVE  UNCHANGED <<current, exports>>
  BY <1>2 DEF BeginBuild, BeginCommit, BeginRead, Begin, Crash, diskVars
<1>3. ASSUME NEW p \in Proc, Error(p) PROVE UNCHANGED <<current, exports>>
  BY <1>3, LeaveEffects DEF Error
<1>4. ASSUME NEW p \in Proc, Acquire(p) \/ Contend(p) PROVE UNCHANGED <<current, exports>>
  BY <1>4 DEF Acquire, Contend, diskVars
<1>5. ASSUME NEW p \in Proc, RefreshExports(p)
      PROVE  current' = current /\ (exports' = exports \/ ~Leave(p))
  BY <1>5 DEF RefreshExports, Leave
<1>6. CASE MinutePasses
  BY <1>6 DEF MinutePasses, diskVars
<1> QED
  BY <1>1, <1>2, <1>3, <1>4, <1>5, <1>6, FileStepEffects DEF Next, Step, AtRest

\* PublishedFromBase: the pointer moves only from the version its publisher started from.
THEOREM PublishesFromItsBase == Spec /\ [][Undisturbed]_vars => PublishedFromBase
<1>1. IInv /\ [Next]_vars =>
        [current' # current => \E p \in Proc : At(p, "select") /\ call[p].base = current]_vars
  <2>1. ASSUME IInv, NEW p \in Proc, SelectBundle(p)
        PROVE  At(p, "select") /\ call[p].base = current
    BY <2>1 DEF SelectBundle, At, IInv, KnowsDisk
  <2> QED
    BY <2>1, PointerMoves
<1> QED
  BY <1>1, PublicationInvariant, PTL DEF Spec, PublishedFromBase

\* ExportsFollowPointer: a compatibility export becomes what the pointer selects.
THEOREM ExportsFollow == Spec /\ [][Undisturbed]_vars => ExportsFollowPointer
<1>1. IInv /\ [Next]_vars =>
        [\A f \in File : exports'[f] # exports[f] => exports'[f] = current]_vars
  <2>1. ASSUME IInv, NEW p \in Proc, RefreshExports(p), ~Leave(p), NEW f \in File,
               exports'[f] # exports[f]
        PROVE  exports'[f] = current
    <3>1. call[p].version = current
      BY <2>1 DEF RefreshExports, At, IInv, KnowsDisk
    <3>2. exports' = [exports EXCEPT ![call[p].next] = call[p].version]
      BY <2>1 DEF RefreshExports
    <3>3. exports \in [File -> Version \cup {None}]
      BY <2>1 DEF IInv, TypeOK
    <3> QED
      BY <2>1, <3>1, <3>2, <3>3
  <2> QED
    BY <2>1, PointerMoves
<1> QED
  BY <1>1, PublicationInvariant, PTL DEF Spec, ExportsFollowPointer

-----------------------------------------------------------------------------
(***************************************************************************)
(* Instances that respect the lock: the bundles directory is there from    *)
(* the beginning, living owners are fast, and there are two processes or   *)
(* none dies                                                               *)
(***************************************************************************)
Sheltered ==
  /\ Started /\ MaxSlow = 0
  /\ MaxCrashes = 0 \/ \E a, b \in Proc : Proc = {a, b}

OwnerDead == lockFile # None /\ At(lockFile.token, "dead")

\* A stale lock is a dead owner's, and who saw it stale is the only one left to take it.
Calm ==
  /\ bundlesDir
  /\ lockFile # None /\ ~lockFile.recent => OwnerDead
  /\ \A p \in Proc : At(p, "steal") => OwnerDead
  /\ MaxCrashes = 0 => \A p \in Proc : ~At(p, "dead")

LEMMA CalmInit == Sheltered /\ Init => Calm
<1> SUFFICES ASSUME Sheltered, Init PROVE Calm
  OBVIOUS
<1>1. bundlesDir
  BY Zenon DEF Init, Sheltered
<1>2. lockFile = None
  BY DEF Init, LockInit
<1>3. \A p \in Proc : pc[p] = "idle"
  BY DEF Init
<1> QED
  BY <1>1, <1>2, <1>3 DEF Calm, At

LEMMA CalmRespects ==
  ASSUME IInv, Calm, [Next]_vars PROVE [Undisturbed]_vars
<1>1. ASSUME NEW p \in Proc, RenameStaleLock(p) PROVE At(lockFile.token, "dead")
  BY <1>1 DEF RenameStaleLock, Calm, OwnerDead
<1>2. \A p \in Proc : GuardCommit(p) => bundlesDir
  BY DEF Calm
<1> QED
  BY <1>1, <1>2 DEF Undisturbed

\* Nobody else is about to take a lock.
LEMMA NoRival ==
  ASSUME Sheltered, IInv, Calm, NEW p \in Proc, pc[p] \notin {"dead"}, NEW q \in Proc \ {p},
         At(q, "steal")
  PROVE  FALSE
<1>1. lockFile \in LockFile \cup {None} /\ OwnerDead
  BY DEF Calm, IInv, TypeOK
<1>2. lockFile.token \in Proc /\ pc[lockFile.token] = "dead"
  BY <1>1 DEF LockFile, OwnerDead, At
<1>3. lockFile.token \notin {p, q}
  BY <1>2 DEF At
<1>4. CASE MaxCrashes = 0
  BY <1>2, <1>4 DEF Calm, At
<1>5. CASE \E a, b \in Proc : Proc = {a, b}
  BY <1>2, <1>3, <1>5
<1> QED
  BY <1>4, <1>5 DEF Sheltered

\* Steps that leave the lock file alone.
LEMMA CalmElsewhere ==
  ASSUME Sheltered, IInv, Calm, NEW p \in Proc, pc[p] # "dead", lockFile' = lockFile,
         bundlesDir' \in {bundlesDir, TRUE},
         pc' = pc \/ \E label \in PC \ {"dead", "steal"} : Goto(p, label)
  PROVE  Calm'
<1>1. /\ pc' \in [Proc -> PC] /\ \A q \in Proc \ {p} : pc'[q] = pc[q]
      /\ pc'[p] = pc[p] \/ pc'[p] \notin {"dead", "steal"}
  <2>1. CASE pc' = pc
    BY <2>1, Facts
  <2>2. ASSUME NEW label \in PC \ {"dead", "steal"}, Goto(p, label)
        PROVE  /\ pc' \in [Proc -> PC] /\ \A q \in Proc \ {p} : pc'[q] = pc[q]
               /\ pc'[p] = pc[p] \/ pc'[p] \notin {"dead", "steal"}
    BY <2>2, GotoGood
  <2> QED
    BY <2>1, <2>2
<1>2. OwnerDead => OwnerDead'
  <2>1. lockFile # None => lockFile.token \in Proc
    BY DEF IInv, TypeOK, LockFile
  <2> QED
    BY <1>1, <2>1 DEF OwnerDead, At
<1>3. \A q \in Proc : At(q, "steal")' => At(q, "steal")
  BY <1>1 DEF At
<1>4. \A q \in Proc : At(q, "dead")' => At(q, "dead")
  BY <1>1 DEF At
<1> QED
  BY <1>2, <1>3, <1>4 DEF Calm

LEMMA CalmStep ==
  ASSUME Sheltered, IInv, Calm, [Next]_vars PROVE Calm'
<1>0. /\ pc \in [Proc -> PC] /\ lockFile \in LockFile \cup {None} /\ slow \in 0 .. MaxSlow
  BY DEF IInv, TypeOK
<1>1. CASE UNCHANGED vars
  BY <1>1 DEF vars, lockVars, diskVars, Calm, OwnerDead, At
<1>2. ASSUME NEW p \in Proc, BeginBuild(p) \/ BeginCommit(p) \/ BeginRead(p) PROVE Calm'
  <2>1. PICK label \in {"stage", "guard", "files"} : \E new : Begin(p, new, label)
    BY <1>2 DEF BeginBuild, BeginCommit, BeginRead
  <2>2. pc[p] # "dead" /\ lockFile' = lockFile /\ bundlesDir' = bundlesDir /\ Goto(p, label)
    BY <2>1 DEF Begin, At, diskVars
  <2> QED
    BY <2>2, CalmElsewhere DEF PC
<1>3. ASSUME NEW p \in Proc, FileStep(p), lockFile' = lockFile PROVE Calm'
  BY <1>3, FileStepEffects, CalmElsewhere
<1>4. ASSUME NEW p \in Proc, RefreshExports(p) PROVE Calm'
  <2>1. pc[p] # "dead" /\ lockFile' = lockFile
    BY <1>4 DEF RefreshExports, At
  <2>2. CASE Leave(p)
    BY <2>1, <2>2, LeaveEffects, CalmElsewhere
  <2>3. CASE ~Leave(p)
    BY <1>4, <2>1, <2>3, CalmElsewhere DEF RefreshExports
  <2> QED
    BY <2>2, <2>3
<1>5. ASSUME NEW p \in Proc, Error(p) PROVE Calm'
  BY <1>5, LeaveEffects, CalmElsewhere DEF Error, CanFail
<1>6. ASSUME NEW p \in Proc, Crash(p) PROVE Calm'
  <2>1. /\ pc' \in [Proc -> PC] /\ pc'[p] = "dead" /\ lockFile' = lockFile
        /\ \A q \in Proc \ {p} : pc'[q] = pc[q]
        /\ bundlesDir' = bundlesDir
    BY <1>6, GotoGood DEF Crash, PC, diskVars
  <2>2. MaxCrashes # 0
    BY <1>6, Facts DEF Crash, BoundsTyped
  <2>3. OwnerDead => OwnerDead'
    <3>1. lockFile # None => lockFile.token \in Proc
      BY <1>0 DEF LockFile
    <3> QED
      BY <2>1, <3>1 DEF OwnerDead, At
  <2>4. \A q \in Proc : At(q, "steal")' => At(q, "steal")
    BY <2>1 DEF At
  <2> QED
    BY <2>1, <2>2, <2>3, <2>4 DEF Calm
<1>7. ASSUME NEW p \in Proc, Acquire(p) PROVE Calm'
  <2>1. /\ pc[p] = "lock" /\ lockFile = None /\ lockFile' = [token |-> p, recent |-> TRUE]
        /\ bundlesDir' = bundlesDir
        /\ \E label \in {"exports", "paths"} : Goto(p, label)
    BY <1>7 DEF Acquire, CreateLock, At, diskVars
  <2>2. /\ \A q \in Proc \ {p} : pc'[q] = pc[q]
        /\ pc'[p] \in {"exports", "paths"}
    BY <2>1, GotoGood DEF PC
  <2>3. \A q \in Proc : ~At(q, "steal")
    BY <2>1 DEF Calm, OwnerDead
  <2>4. lockFile'.recent /\ \A q \in Proc : ~At(q, "steal")'
    BY <2>1, <2>2, <2>3 DEF At
  <2>5. \A q \in Proc : At(q, "dead")' => At(q, "dead")
    BY <2>2 DEF At
  <2> QED
    BY <2>1, <2>4, <2>5 DEF Calm
<1>8. ASSUME NEW p \in Proc, Contend(p) PROVE Calm'
  <2>0. bundlesDir' = bundlesDir
    BY <1>8 DEF Contend, diskVars
  <2>1. CASE SeeStaleLock(p)
    <3>1. /\ OwnerDead /\ lockFile' = lockFile /\ pc[p] = "lock" /\ Goto(p, "steal")
      BY <2>1 DEF SeeStaleLock, Calm, At
    <3>2. /\ pc'[p] = "steal" /\ \A q \in Proc \ {p} : pc'[q] = pc[q]
      BY <3>1, GotoGood DEF PC
    <3>3. OwnerDead'
      <4>1. lockFile.token \in Proc \ {p}
        BY <1>0, <3>1 DEF LockFile, OwnerDead, At
      <4> QED
        BY <3>1, <3>2, <4>1 DEF OwnerDead, At
    <3>4. \A q \in Proc : At(q, "dead")' => At(q, "dead")
      BY <3>2 DEF At
    <3> QED
      BY <2>0, <3>3, <3>4 DEF Calm
  <2>2. ASSUME NEW label \in {"lock", "idle"}, pc[p] # "dead", Goto(p, label), lockFile' = None
        PROVE  Calm'
    <3>1. /\ pc'[p] = label /\ \A q \in Proc \ {p} : pc'[q] = pc[q]
      BY <2>2, GotoGood DEF PC
    <3>2. \A q \in Proc \ {p} : ~At(q, "steal")
      BY <2>2, NoRival
    <3>3. \A q \in Proc : ~At(q, "steal")' /\ (At(q, "dead")' => At(q, "dead"))
      BY <3>1, <3>2 DEF At
    <3> QED
      BY <2>0, <2>2, <3>3 DEF Calm
  <2>3. CASE RenameStaleLock(p)
    BY <2>2, <2>3 DEF RenameStaleLock, At
  <2>4. CASE RemoveLock(p)
    BY <2>2, <2>4 DEF RemoveLock, At
  <2>5. CASE ReadToken(p)
    <3>1. pc[p] # "dead" /\ lockFile' = lockFile /\ \E label \in {"unlock", "idle"} : Goto(p, label)
      BY <2>5 DEF ReadToken, At
    <3> QED
      BY <2>0, <3>1, CalmElsewhere DEF PC
  <2> QED
    BY <1>8, <2>1, <2>3, <2>4, <2>5 DEF Contend
<1>9. CASE MinutePasses
  <2>1. /\ lockFile \in LockFile /\ lockFile' = [lockFile EXCEPT !.recent = FALSE]
        /\ pc' = pc /\ bundlesDir' = bundlesDir
    BY <1>0, <1>9 DEF MinutePasses, Age, diskVars
  <2>2. At(lockFile.token, "dead")
    <3>1. ~(slow < MaxSlow)
      BY <1>0 DEF Sheltered
    <3> QED
      BY <1>9, <3>1 DEF MinutePasses, Age
  <2>3. lockFile' \in LockFile /\ lockFile'.token = lockFile.token
    BY <2>1 DEF LockFile
  <2>4. OwnerDead'
    BY <2>1, <2>2, <2>3, NoneIsNoLock DEF OwnerDead, At
  <2> QED
    BY <2>1, <2>4 DEF Calm, At
<1> QED
  BY <1>1, <1>2, <1>3, <1>4, <1>5, <1>6, <1>7, <1>8, <1>9 DEF Next, Step, AtRest

\* In such an instance every behaviour respects the lock, so that the theorems above hold
\* of it without more.
THEOREM NothingDisturbs ==
  ASSUME Sheltered
  PROVE  Spec => [][Undisturbed]_vars /\ []IInv
<1>1. Init => IInv /\ Calm
  BY InitHolds, CalmInit
<1>2. IInv /\ Calm /\ [Next]_vars => IInv' /\ Calm'
  BY CalmRespects, CalmStep, InductiveStep
<1>3. IInv /\ Calm /\ [Next]_vars => [Undisturbed]_vars
  BY CalmRespects
<1> QED
  BY <1>1, <1>2, <1>3, PTL DEF Spec

=============================================================================
