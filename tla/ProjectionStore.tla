-------------------------- MODULE ProjectionStore --------------------------
(***************************************************************************)
(* catalog.ProjectionStore: the durable journal of projection runs and the *)
(* serving pointer.  Every method holds the store's file lock throughout;  *)
(* each action below is one durable write of one method with the reads and *)
(* decisions that follow it, so that a write error or the death of the     *)
(* process (Interrupt) can fall between any two writes.  The lock is freed *)
(* by the kernel.  Callers keep the plan and the base they read and may    *)
(* come back with them after other callers have moved the pointer.         *)
(***************************************************************************)
EXTENDS Naturals, FiniteSetsExt

CONSTANTS
  Client,        \* processes that open the store
  Version,       \* projection versions
  Plan,          \* catalog.ProjectionPlan, by PlanID
  Run,           \* catalog.SyncRun, by RunID
  RunOf,         \* the run of a plan
  BaseOf,        \* the version a plan starts from
  TargetOf,      \* the version it produces
  Earlier,       \* the plans that a plan is a retry of, under other runs
  Initial,       \* the version of the first serving projection
  OpCount,       \* operations of a plan, executed in order
  None,          \* an absent file, pointer, owner or holder
  MaxInterrupts  \* calls that are cut short

ASSUME ProjectionStoreAssumption ==
  /\ RunOf \in [Plan -> Run]
  /\ BaseOf \in [Plan -> Version]
  /\ TargetOf \in [Plan -> Version]
  /\ \A p \in Plan : TargetOf[p] # BaseOf[p] /\ TargetOf[p] # Initial
  /\ Earlier \in [Plan -> SUBSET Plan]
  /\ Initial \in Version
  /\ OpCount \in Nat \ {0}
  /\ None \notin Client \cup Version \cup Plan \cup Run
  /\ MaxInterrupts \in Nat

Op == 1 .. OpCount

\* A projection by its version, the plan that produced it (AppliedPlanIDs,
\* with the receipts of its operations) and its State.
Projection == [version : Version, plan : Plan \cup {None}, published : BOOLEAN]
InitialProjection == [version |-> Initial, plan |-> None, published |-> TRUE]
Produced(p) == [version |-> TargetOf[p], plan |-> p, published |-> TRUE]
Withheld(p) == [version |-> TargetOf[p], plan |-> p, published |-> FALSE]

\* ServingPointer: RunID and PlanID are both set or both empty.
Pointer == [version : Version, plan : Plan \cup {None}]

ASSUME NoneIsNoFile == None \notin Projection /\ None \notin Pointer

RunState == {"absent", "staged", "running", "succeeded", "failed"}
Outcome == {"absent", "succeeded", "failed"}

Terminal == {"succeeded", "failed"}

Method == {"Initialize", "Stage", "Record", "Execute", "Finalize", "Rollback"}

VARIABLES
  \* files
  pointer,        \* serving.json
  projections,    \* projections/<version>.json
  plans,          \* runs/<run>/plan.json
  runs,           \* runs/<run>/run.json: the State
  results,        \* runs/<run>/results/<operation>.json: the Outcome
  runProjections, \* runs/<run>/projection.json
  \* processes
  lock,           \* the holder of the store's file lock
  pc,             \* the next write of a client's call
  session,        \* the call: method, plan, base, pending result, success
  interrupts,     \* calls cut short so far
  \* history
  replaced        \* per plan, the projection it replaced in serving

files == <<pointer, projections, plans, runs, results, runProjections>>
storeVars == <<files, lock, pc, session, interrupts, replaced>>

NoSession == [method |-> "Stage", plan |-> None, base |-> None,
              result |-> [op |-> 1, outcome |-> "absent"], won |-> FALSE]

PC == {"idle", "initProjection", "initPointer", "plan", "run", "record",
       "gate", "reconcileProjection", "reconcileRun", "start", "operate",
       "receipt", "finalize", "staleReceipt",
       "failProjection", "failRun", "candidate", "pointer", "ownProjection",
       "ownRun", "restore", "remove"}

StoreTypeOK ==
  /\ pointer \in Pointer \cup {None}
  /\ projections \in [Version -> Projection \cup {None}]
  /\ plans \in [Run -> Plan \cup {None}]
  /\ runs \in [Run -> RunState]
  /\ results \in [Run -> [Op -> Outcome]]
  /\ runProjections \in [Run -> Projection \cup {None}]
  /\ lock \in Client \cup {None}
  /\ pc \in [Client -> PC]
  /\ session \in [Client -> [method : Method, plan : Plan \cup {None},
                             base : Projection \cup {None},
                             result : [op : Op, outcome : Outcome],
                             won : BOOLEAN]]
  /\ interrupts \in 0 .. MaxInterrupts
  /\ replaced \in [Plan -> Projection \cup {None}]

StoreInit ==
  /\ pointer = None
  /\ projections = [v \in Version |-> None]
  /\ plans = [r \in Run |-> None]
  /\ runs = [r \in Run |-> "absent"]
  /\ results = [r \in Run |-> [o \in Op |-> "absent"]]
  /\ runProjections = [r \in Run |-> None]
  /\ lock = None
  /\ pc = [c \in Client |-> "idle"]
  /\ session = [c \in Client |-> NoSession]
  /\ interrupts = 0
  /\ replaced = [p \in Plan |-> None]

-----------------------------------------------------------------------------
\* Reads and conditions

\* writeJSONOnce accepts an absent file, or one with the same content.
CanWriteOnce(file, content) == file \in {None, content}

Receipts(r) == {o \in Op : results[r][o] # "absent"}
Missing(r) == Op \ Receipts(r)
AnyFailed(r) == \E o \in Op : results[r][o] = "failed"

\* Replay, on a complete set of receipts.
Replayed(p) == IF AnyFailed(RunOf[p]) THEN Withheld(p) ELSE Produced(p)

Owns(p) == pointer = [version |-> TargetOf[p], plan |-> p]

\* Faulty variant: the pointer is advanced from wherever it is.
AnyPointerMatches(p) == TRUE

PointerMatchesBase(p) == pointer.version = BaseOf[p]

\* Faulty variant: a pointer whose owner crashed is taken as it is.
OwnerUnsettledIgnored == FALSE

\* The run that owns the pointer still has to be recorded as succeeded.
OwnerUnsettled ==
  /\ pointer.plan # None
  /\ runs[RunOf[pointer.plan]] \notin Terminal

\* nextProjectionRunIdentity passes over a run that failed, and over one
\* that succeeded and does not own the pointer any more.
Retired(p) ==
  \/ runs[RunOf[p]] = "failed"
  \/ runs[RunOf[p]] = "succeeded" /\ pointer.plan # p

\* reconcilePointerOwnerLocked finds nothing that contradicts the pointer.
OwnerConsistent ==
  LET p == pointer.plan
      r == RunOf[p]
  IN p # None =>
       /\ pointer.version = TargetOf[p]
       /\ plans[r] = p
       /\ runs[r] \notin {"absent", "failed"}
       /\ runs[r] = "succeeded" => runProjections[r] = projections[TargetOf[p]]
       /\ runs[r] # "succeeded" =>
            /\ Missing(r) = {} /\ ~AnyFailed(r)
            /\ projections[BaseOf[p]] # None
            /\ projections[TargetOf[p]] = Produced(p)
            /\ CanWriteOnce(runProjections[r], Produced(p))

\* verifyBaseProjectionLocked
BaseVerified(c) ==
  projections[BaseOf[session[c].plan]] = session[c].base

-----------------------------------------------------------------------------
\* Control of a call

RunIn(c) == RunOf[session[c].plan]

Goto(c, label) == pc' = [pc EXCEPT ![c] = label]

At(c, label) == pc[c] = label

Return(c, won) ==
  /\ pc' = [pc EXCEPT ![c] = "idle"]
  /\ lock' = None
  /\ session' = [session EXCEPT ![c] = [NoSession EXCEPT
       !.plan = session[c].plan, !.base = session[c].base, !.won = won]]

\* A durable write and the step that follows it; other files stay.
Wrote(c, label) == Goto(c, label) /\ UNCHANGED <<lock, session>>

\* A decision without a write.
Decide(c, label) == Wrote(c, label) /\ UNCHANGED files

Fail(c) == Return(c, FALSE) /\ UNCHANGED files

\* A caller reads the serving projection and computes a plan from it.  It
\* takes a new run identity only if the earlier attempts are retired.
Prepare(c, p) ==
  /\ At(c, "idle") /\ lock = None
  /\ pointer # None
  /\ BaseOf[p] = pointer.version
  /\ \A q \in Earlier[p] : Retired(q)
  /\ session' = [session EXCEPT ![c] = [NoSession EXCEPT
       !.plan = p, !.base = projections[pointer.version]]]
  /\ UNCHANGED <<files, lock, pc, interrupts, replaced>>

\* A call of one of the methods, as far as its first write.
Enter(c, m, first) ==
  /\ At(c, "idle") /\ lock = None
  /\ lock' = c
  /\ Goto(c, first)
  /\ session' = [session EXCEPT ![c].method = m]
  /\ UNCHANGED <<files, interrupts, replaced>>

\* InitializeServing changes nothing when a pointer exists.
CallInitialize(c) == pointer = None /\ Enter(c, "Initialize", "initProjection")

CallWithPlan(c, m) ==
  /\ session[c].plan # None
  /\ Enter(c, m, "plan")

CallRecord(c, o, outcome) ==
  /\ session[c].plan # None
  /\ At(c, "idle") /\ lock = None
  /\ lock' = c
  /\ Goto(c, "plan")
  /\ session' = [session EXCEPT ![c].method = "Record",
                                ![c].result = [op |-> o, outcome |-> outcome]]
  /\ UNCHANGED <<files, interrupts, replaced>>

\* RollbackServing is for a caller whose Execute has succeeded.
CallRollback(c) ==
  /\ session[c].won
  /\ Owns(session[c].plan) /\ BaseVerified(c)
  /\ Enter(c, "Rollback", "restore")

Call(c) ==
  \/ CallInitialize(c)
  \/ \E m \in {"Stage", "Execute", "Finalize"} : CallWithPlan(c, m)
  \/ \E o \in Op, outcome \in {"succeeded", "failed"} : CallRecord(c, o, outcome)
  \/ CallRollback(c)

-----------------------------------------------------------------------------
\* InitializeServing

WriteInitialProjection(c) ==
  /\ At(c, "initProjection")
  /\ projections' = [projections EXCEPT ![Initial] = InitialProjection]
  /\ Wrote(c, "initPointer")
  /\ UNCHANGED <<pointer, plans, runs, results, runProjections, replaced>>

WriteInitialPointer(c) ==
  /\ At(c, "initPointer")
  /\ pointer' = [version |-> Initial, plan |-> None]
  /\ Return(c, FALSE)
  /\ UNCHANGED <<projections, plans, runs, results, runProjections, replaced>>

-----------------------------------------------------------------------------
\* stageLocked

WritePlan(c) ==
  /\ At(c, "plan")
  /\ IF CanWriteOnce(plans[RunIn(c)], session[c].plan)
     THEN /\ plans' = [plans EXCEPT ![RunIn(c)] = session[c].plan]
          /\ Wrote(c, "run")
          /\ UNCHANGED <<pointer, projections, runs, results, runProjections>>
     ELSE Fail(c)
  /\ UNCHANGED replaced

WriteRun(c) ==
  /\ At(c, "run")
  /\ runs' = [runs EXCEPT ![RunIn(c)] = IF @ = "absent" THEN "staged" ELSE @]
  /\ CASE session[c].method = "Stage" -> Return(c, FALSE)
       [] session[c].method = "Record" -> Wrote(c, "record")
       [] OTHER -> Wrote(c, "gate")
  /\ UNCHANGED <<pointer, projections, plans, results, runProjections, replaced>>

CanRecord(r, res) == results[r][res.op] \in {"absent", res.outcome}

\* recordResultLocked, called by RecordResult
RecordResult(c) ==
  LET r == RunIn(c)  res == session[c].result
  IN /\ At(c, "record")
     /\ IF CanRecord(r, res)
        THEN /\ results' = [results EXCEPT ![r][res.op] = res.outcome]
             /\ Return(c, FALSE)
             /\ UNCHANGED <<pointer, projections, plans, runs, runProjections>>
        ELSE Fail(c)
     /\ UNCHANGED replaced

-----------------------------------------------------------------------------
\* Execute and Finalize: the pointer's owner first

\* A terminal run is answered from the journal; a pointer that contradicts
\* its owner stops every call.
Gate(c) ==
  /\ At(c, "gate")
  /\ \/ /\ runs[RunIn(c)] \in Terminal
        /\ Return(c, runs[RunIn(c)] = "succeeded")
        /\ UNCHANGED files
     \/ /\ runs[RunIn(c)] \notin Terminal
        /\ pointer = None \/ ~OwnerConsistent
        /\ Fail(c)
     \/ /\ runs[RunIn(c)] \notin Terminal
        /\ pointer # None /\ OwnerConsistent
        /\ Decide(c, IF OwnerUnsettled THEN "reconcileProjection" ELSE "start")
  /\ UNCHANGED replaced

ReconcileProjection(c) ==
  LET p == pointer.plan
  IN /\ At(c, "reconcileProjection")
     /\ runProjections' = [runProjections EXCEPT ![RunOf[p]] = Produced(p)]
     /\ Wrote(c, "reconcileRun")
     /\ UNCHANGED <<pointer, projections, plans, runs, results, replaced>>

ReconcileRun(c) ==
  /\ At(c, "reconcileRun")
  /\ runs' = [runs EXCEPT ![RunOf[pointer.plan]] = "succeeded"]
  /\ Wrote(c, "start")
  /\ UNCHANGED <<pointer, projections, plans, results, runProjections, replaced>>

\* The run is read again; then the base and the pointer are compared with
\* those of the plan.  A pointer of the plan's own has been reconciled and
\* its run is terminal, so the other stale pointers are somebody else's.
Start(c) ==
  LET p == session[c].plan
      live == runs[RunIn(c)] \notin Terminal
      running == [runs EXCEPT ![RunIn(c)] = "running"]
  IN /\ At(c, "start")
     /\ \/ /\ ~live
           /\ Return(c, runs[RunIn(c)] = "succeeded")
           /\ UNCHANGED files
        \/ live /\ ~BaseVerified(c) /\ Fail(c)
        \/ /\ live /\ BaseVerified(c) /\ ~PointerMatchesBase(p)
           /\ Decide(c, "staleReceipt")
        \/ /\ live /\ BaseVerified(c) /\ PointerMatchesBase(p)
           /\ session[c].method = "Finalize"
           /\ Decide(c, "finalize")
        \/ /\ live /\ BaseVerified(c) /\ PointerMatchesBase(p)
           /\ session[c].method = "Execute"
           /\ runs' = running
           /\ Wrote(c, "operate")
           /\ UNCHANGED <<pointer, projections, plans, results, runProjections>>
     /\ UNCHANGED replaced

\* Operations without a receipt, in order; after a failure the rest are
\* blocked.  The executor's effect is outside the store.
Operate(c) ==
  /\ At(c, "operate")
  /\ \/ Missing(RunIn(c)) = {} /\ Decide(c, "finalize")
     \/ \E outcome \in {"succeeded", "failed"} :
          /\ Missing(RunIn(c)) # {}
          /\ AnyFailed(RunIn(c)) => outcome = "failed"
          /\ session' = [session EXCEPT ![c].result =
               [op |-> Min(Missing(RunIn(c))), outcome |-> outcome]]
          /\ Goto(c, "receipt")
          /\ UNCHANGED <<files, lock>>
  /\ UNCHANGED replaced

WriteReceipt(c) ==
  LET res == session[c].result
  IN /\ At(c, "receipt")
     /\ results' = [results EXCEPT ![RunIn(c)][res.op] = res.outcome]
     /\ Wrote(c, "operate")
     /\ UNCHANGED <<pointer, projections, plans, runs, runProjections, replaced>>

-----------------------------------------------------------------------------
\* finalizeLocked: Replay decides

Finalize(c) ==
  LET r == RunIn(c)
  IN /\ At(c, "finalize")
     /\ \/ Missing(r) # {} /\ Fail(c)
        \/ /\ Missing(r) = {}
           /\ Decide(c, IF Replayed(session[c].plan).published
                        THEN "candidate" ELSE "failProjection")
     /\ UNCHANGED replaced

\* The run's projection when it does not serve: failed, or stale.
WriteWithheld(c) ==
  LET r == RunIn(c)  content == Withheld(session[c].plan)
  IN /\ At(c, "failProjection")
     /\ IF CanWriteOnce(runProjections[r], content)
        THEN /\ runProjections' = [runProjections EXCEPT ![r] = content]
             /\ Wrote(c, "failRun")
             /\ UNCHANGED <<pointer, projections, plans, runs, results>>
        ELSE Fail(c)
     /\ UNCHANGED replaced

FailRun(c) ==
  /\ At(c, "failRun")
  /\ runs' = [runs EXCEPT ![RunIn(c)] = "failed"]
  /\ Return(c, FALSE)
  /\ UNCHANGED <<pointer, projections, plans, results, runProjections, replaced>>

WriteCandidate(c) ==
  LET p == session[c].plan
  IN /\ At(c, "candidate")
     /\ IF CanWriteOnce(projections[TargetOf[p]], Produced(p))
        THEN /\ projections' = [projections EXCEPT ![TargetOf[p]] = Produced(p)]
             /\ Wrote(c, "pointer")
             /\ UNCHANGED <<pointer, plans, runs, results, runProjections>>
        ELSE Fail(c)
     /\ UNCHANGED replaced

AdvancePointer(c) ==
  LET p == session[c].plan
  IN /\ At(c, "pointer")
     /\ pointer' = [version |-> TargetOf[p], plan |-> p]
     /\ replaced' = [replaced EXCEPT ![p] = projections[pointer.version]]
     /\ Wrote(c, "ownProjection")
     /\ UNCHANGED <<projections, plans, runs, results, runProjections>>

WriteOwnProjection(c) ==
  LET r == RunIn(c)  content == Produced(session[c].plan)
  IN /\ At(c, "ownProjection")
     /\ IF CanWriteOnce(runProjections[r], content)
        THEN /\ runProjections' = [runProjections EXCEPT ![r] = content]
             /\ Wrote(c, "ownRun")
             /\ UNCHANGED <<pointer, projections, plans, runs, results>>
        ELSE Fail(c)
     /\ UNCHANGED replaced

SucceedRun(c) ==
  /\ At(c, "ownRun")
  /\ runs' = [runs EXCEPT ![RunIn(c)] = "succeeded"]
  /\ Return(c, TRUE)
  /\ UNCHANGED <<pointer, projections, plans, results, runProjections, replaced>>

-----------------------------------------------------------------------------
\* persistStaleFailureLocked

StaleReceipt(c) ==
  LET r == RunIn(c)
  IN /\ At(c, "staleReceipt")
     /\ \/ Missing(r) = {} /\ Decide(c, "failProjection")
        \/ /\ Missing(r) # {}
           /\ results' = [results EXCEPT ![r][Min(Missing(r))] = "failed"]
           /\ Wrote(c, "staleReceipt")
           /\ UNCHANGED <<pointer, projections, plans, runs, runProjections>>
     /\ UNCHANGED replaced

-----------------------------------------------------------------------------
\* RollbackServing

\* Faulty variant: the candidate is removed before the pointer leaves it.
RemoveBeforeRestore(c) ==
  /\ At(c, "restore")
  /\ projections' = [projections EXCEPT ![TargetOf[session[c].plan]] = None]
  /\ Wrote(c, "remove")
  /\ UNCHANGED <<pointer, plans, runs, results, runProjections, replaced>>

RestorePointer(c) ==
  /\ At(c, "restore")
  /\ pointer' = [version |-> BaseOf[session[c].plan], plan |-> None]
  /\ Wrote(c, "remove")
  /\ UNCHANGED <<projections, plans, runs, results, runProjections, replaced>>

RemoveCandidate(c) ==
  /\ At(c, "remove")
  /\ projections' = [projections EXCEPT ![TargetOf[session[c].plan]] = None]
  /\ Return(c, FALSE)
  /\ UNCHANGED <<pointer, plans, runs, results, runProjections, replaced>>

-----------------------------------------------------------------------------
\* A write fails, or the process stops and forgets its session.
Interrupt(c) ==
  /\ ~At(c, "idle")
  /\ interrupts < MaxInterrupts
  /\ interrupts' = interrupts + 1
  /\ Goto(c, "idle")
  /\ lock' = None
  /\ \E s \in {NoSession, [NoSession EXCEPT !.plan = session[c].plan,
                                            !.base = session[c].base]} :
       session' = [session EXCEPT ![c] = s]
  /\ UNCHANGED <<files, replaced>>

Write(c) ==
  \/ WriteInitialProjection(c) \/ WriteInitialPointer(c)
  \/ WritePlan(c) \/ WriteRun(c) \/ RecordResult(c)
  \/ Gate(c) \/ ReconcileProjection(c) \/ ReconcileRun(c) \/ Start(c)
  \/ Operate(c) \/ WriteReceipt(c) \/ Finalize(c)
  \/ WriteWithheld(c) \/ FailRun(c) \/ StaleReceipt(c)
  \/ WriteCandidate(c) \/ AdvancePointer(c) \/ WriteOwnProjection(c) \/ SucceedRun(c)
  \/ RestorePointer(c) \/ RemoveCandidate(c)

StoreStep(c) ==
  \/ Call(c)
  \/ Write(c) /\ UNCHANGED interrupts
  \/ Interrupt(c)

\* Nobody calls: the store may stay as it is.
AtRest == lock = None /\ UNCHANGED storeVars

StoreNext ==
  \/ \E c \in Client : (\E p \in Plan : Prepare(c, p)) \/ StoreStep(c)
  \/ AtRest

StoreSpec == StoreInit /\ [][StoreNext]_storeVars

-----------------------------------------------------------------------------
\* Properties

\* A pointer found after any crash can be resolved: the plan it names is in
\* the journal with all its receipts, its base and its projection are on
\* disk as Replay computes them, so reconcilePointerOwnerLocked never answers
\* ErrJournalConflict; a pointer nobody owns names a published projection.
PointerResolvable ==
  pointer # None =>
    /\ OwnerConsistent
    /\ projections[pointer.version] # None
    /\ projections[pointer.version].published

\* The audit journal tells the truth: a run recorded as succeeded did take
\* the pointer, one recorded as failed never did, and the projection kept
\* with the run is the one that was, or was not, served.
JournalTruthful ==
  \A r \in Run : runs[r] \in Terminal =>
    LET p == plans[r]
        won == runs[r] = "succeeded"
    IN /\ won <=> replaced[p] # None
       /\ runProjections[r] = IF won THEN Produced(p) ELSE Withheld(p)

\* A successor reconciles the owner of the pointer before it replaces it
\* (the comment of reconcilePointerOwnerLocked), and so does a rollback.
OwnerSettledBeforeReplaced ==
  [][ (pointer # None /\ pointer.plan # None /\ pointer' # pointer)
        => runs[RunOf[pointer.plan]] = "succeeded" ]_storeVars

\* Readers get whole projections that only the plans made from them replace.
Serving == INSTANCE CatalogServing WITH
  serving <- IF pointer = None THEN None
             ELSE LET file == projections[pointer.version]
                  IN IF file # None /\ file.published
                     THEN [version |-> file.version, plan |-> file.plan]
                     ELSE None,
  replaced <- [p \in Plan |-> IF replaced[p] = None THEN None
                ELSE [version |-> replaced[p].version, plan |-> replaced[p].plan]]

ServingAtomically == Serving!ServingSpec

=============================================================================
