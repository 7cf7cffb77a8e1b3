--------------------------- MODULE PublicationLock ---------------------------
(***************************************************************************)
(* The lock file artifacts/.current.json.lock.  It is created exclusively  *)
(* with the owner's token; a contender that finds it unchanged for a       *)
(* minute renames it away and tries again; the owner removes it when the   *)
(* token in it is still its own.  Looking and renaming, and reading the    *)
(* token and removing, are two system calls each.                          *)
(***************************************************************************)
EXTENDS Naturals

CONSTANTS
  Proc,    \* processes, one call each at a time; the token of an attempt
  None,    \* an absent file, version or name
  MaxSlow  \* times a living owner holds the lock for a minute

ASSUME PublicationLockAssumption == None \notin Proc /\ MaxSlow \in Nat

VARIABLES
  lockFile, \* the owner's token, and whether it was written within a minute
  pc,       \* the next step of a process
  slow      \* living owners that were slow so far

lockVars == <<lockFile, pc, slow>>

LockFile == [token : Proc, recent : BOOLEAN]

ASSUME NoneIsNoLock == None \notin LockFile

LockInit == lockFile = None /\ slow = 0

At(p, label) == pc[p] = label
Goto(p, label) == pc' = [pc EXCEPT ![p] = label]

-----------------------------------------------------------------------------
\* acquireArtifactPublicationLock: O_EXCL; held(p) is the step that follows.
CreateLock(p, held) ==
  /\ At(p, "lock")
  /\ lockFile = None
  /\ lockFile' = [token |-> p, recent |-> TRUE]
  /\ Goto(p, held)
  /\ UNCHANGED slow

\* Faulty variant: a stale lock is left where it is.
SeeNoStaleLock(p) == FALSE /\ UNCHANGED lockVars

\* recoverStaleArtifactPublicationLock: Lstat.
SeeStaleLock(p) ==
  /\ At(p, "lock")
  /\ lockFile # None /\ ~lockFile.recent
  /\ Goto(p, "steal")
  /\ UNCHANGED <<lockFile, slow>>

\* The rename takes whatever lock is there by now.
RenameStaleLock(p) ==
  /\ At(p, "steal")
  /\ lockFile' = None
  /\ Goto(p, "lock")
  /\ UNCHANGED slow

\* release: the token is read ...
ReadToken(p) ==
  /\ At(p, "release")
  /\ Goto(p, IF lockFile # None /\ lockFile.token = p THEN "unlock" ELSE "idle")
  /\ UNCHANGED <<lockFile, slow>>

\* ... and the file removed.
RemoveLock(p) ==
  /\ At(p, "unlock")
  /\ lockFile' = None
  /\ Goto(p, "idle")
  /\ UNCHANGED slow

\* A minute passes.
Age ==
  /\ lockFile # None /\ lockFile.recent
  /\ IF At(lockFile.token, "dead") THEN UNCHANGED slow
     ELSE slow < MaxSlow /\ slow' = slow + 1
  /\ lockFile' = [lockFile EXCEPT !.recent = FALSE]
  /\ UNCHANGED pc

=============================================================================
