---------------------------- MODULE CatalogProofs ----------------------------
(***************************************************************************)
(* Proofs about the catalog, for any resources and workspaces, any number  *)
(* of versions and any failures: what planning and replay do to a          *)
(* projection, what a build makes of its sources, that the rounds in which *)
(* the planner follows dependents end with the least closed set, and the   *)
(* invariant of the runs, which is that each did what it promises and left *)
(* a projection from which the next can.                                   *)
(***************************************************************************)
EXTENDS CatalogLifecycle, FiniteSetTheorems, WellFoundedInduction, TLAPS

-----------------------------------------------------------------------------
\* Resources

\* Metadata of a resource, and what has its fields.
Metadata(c, a, s, p, t, u, d, x) ==
  [content |-> c, acl |-> a, source |-> s, projection |-> p,
   state |-> t, status |-> u, deps |-> d, record |-> x]

IsResource(r) ==
  r = Metadata(r.content, r.acl, r.source, r.projection, r.state, r.status, r.deps, r.record)

Shaped(resources) ==
  /\ resources = [id \in DOMAIN resources |-> resources[id]]
  /\ \A id \in DOMAIN resources : IsResource(resources[id])

\* Two states of one resource.
SameResource(r, s) ==
  /\ r.content = s.content /\ r.acl = s.acl /\ r.source = s.source
  /\ r.projection = s.projection /\ r.deps = s.deps /\ r.record = s.record

LEMMA MetadataIs ==
  ASSUME NEW c, NEW a, NEW s, NEW p, NEW t, NEW u, NEW d, NEW x
  PROVE  LET r == Metadata(c, a, s, p, t, u, d, x)
         IN /\ IsResource(r)
            /\ r.content = c /\ r.acl = a /\ r.source = s /\ r.projection = p
            /\ r.state = t /\ r.status = u /\ r.deps = d /\ r.record = x
BY DEF Metadata, IsResource

LEMMA EndedIs ==
  ASSUME NEW run, NEW r, IsResource(r), NEW st
  PROVE  Ended(run, r, st) = Metadata(r.content, r.acl, run.snapshot.version, run.target,
                                      st, r.status, r.deps, None)
<1> DEFINE a == [r EXCEPT !.source = run.snapshot.version]
           b == [a EXCEPT !.projection = run.target]
           c == [b EXCEPT !.state = st]
           d == [c EXCEPT !.record = None]
<1>1. Ended(run, r, st) = d
  BY DEF IsResource, Metadata, Ended
<1>2. a = Metadata(r.content, r.acl, run.snapshot.version, r.projection,
                   r.state, r.status, r.deps, r.record)
  BY DEF IsResource, Metadata
<1> HIDE DEF a
<1>3. b = Metadata(r.content, r.acl, run.snapshot.version, run.target,
                   r.state, r.status, r.deps, r.record)
  BY <1>2 DEF Metadata
<1> HIDE DEF b
<1>4. c = Metadata(r.content, r.acl, run.snapshot.version, run.target,
                   st, r.status, r.deps, r.record)
  BY <1>3 DEF Metadata
<1> HIDE DEF c
<1>5. d = Metadata(r.content, r.acl, run.snapshot.version, run.target,
                   st, r.status, r.deps, None)
  BY <1>4 DEF Metadata
<1> QED
  BY <1>1, <1>5

LEMMA InStateAndStatus ==
  ASSUME NEW r, IsResource(r), NEW st, NEW sts
  PROVE  [r EXCEPT !.state = st, !.status = sts]
           = Metadata(r.content, r.acl, r.source, r.projection, st, sts, r.deps, r.record)
<1> DEFINE s == [r EXCEPT !.state = st]
           t == [s EXCEPT !.status = sts]
<1>1. [r EXCEPT !.state = st, !.status = sts] = t
  BY DEF IsResource, Metadata
<1>2. s = Metadata(r.content, r.acl, r.source, r.projection, st, r.status, r.deps, r.record)
  BY DEF IsResource, Metadata
<1> HIDE DEF s
<1>3. t = Metadata(r.content, r.acl, r.source, r.projection, st, sts, r.deps, r.record)
  BY <1>2 DEF Metadata
<1> QED
  BY <1>1, <1>3

LEMMA InState ==
  ASSUME NEW r, IsResource(r), NEW st
  PROVE  [r EXCEPT !.state = st]
           = Metadata(r.content, r.acl, r.source, r.projection, st, r.status, r.deps, r.record)
BY DEF IsResource, Metadata

-----------------------------------------------------------------------------
\* Plans

\* What the planner accepts, and the plan it makes of it.
Accepted(run, base, targets, stale) ==
  /\ stale \in {"revoke", "tombstone"}
  /\ PlannableRun(run, base)
  /\ Shaped(base.resources) /\ Shaped(targets)
  /\ \A id \in DOMAIN targets : /\ targets[id].state = "staged" /\ targets[id].status = Pending
                                /\ Acceptable(run, id, targets[id])
  /\ ProjectionValid(Replacement(run, base, targets, stale))
  /\ \A a \in base.applied : a.plan.run.target # run.target

PlanOf(run, base, targets, stale) ==
  [run |-> run, operations |-> Operations(run, base, targets, stale)]

Changed(base, targets, id) ==
  id \in DOMAIN base.resources /\ Definition(id, base.resources[id]) # Definition(id, targets[id])

LEMMA StaleApart ==
  ASSUME NEW base, NEW targets
  PROVE  /\ Stale(base, targets) \cap DOMAIN targets = {}
         /\ Stale(base, targets) \subseteq Live(base.resources)
         /\ Live(base.resources) \subseteq DOMAIN base.resources
BY DEF Stale, Live

LEMMA OperationFields ==
  ASSUME NEW kind, NEW id, NEW r
  PROVE  /\ Operation(kind, id, r).kind = kind /\ Operation(kind, id, r).id = id
         /\ Operation(kind, id, r).resource = r
BY DEF Operation

\* The operations, one by one.
LEMMA OperationsAre ==
  ASSUME NEW run, NEW base, NEW targets, NEW stale, NEW o
  PROVE  o \in Operations(run, base, targets, stale) <=>
           \/ \E id \in DOMAIN targets : /\ Changed(base, targets, id)
                                         /\ o = Operation("supersede", id, Ended(run, base.resources[id], "superseded"))
           \/ \E id \in DOMAIN targets, k \in TargetKinds : o = Operation(k, id, targets[id])
           \/ \E id \in Stale(base, targets) :
                o = Operation(stale, id, Ended(run, base.resources[id], Terminus(stale)))
<1> DEFINE A == {Operation("supersede", id, Ended(run, base.resources[id], "superseded")) :
                   id \in {x \in DOMAIN targets \cap DOMAIN base.resources :
                             Definition(x, base.resources[x]) # Definition(x, targets[x])}}
           B == UNION {{Operation(k, id, targets[id]) : k \in TargetKinds} : id \in DOMAIN targets}
           C == {Operation(stale, id, Ended(run, base.resources[id], Terminus(stale))) :
                   id \in Stale(base, targets)}
<1>1. o \in Operations(run, base, targets, stale) <=> (o \in A \/ o \in B \/ o \in C)
  BY DEF Operations
<1>2. o \in A <=> \E id \in DOMAIN targets : /\ Changed(base, targets, id)
                    /\ o = Operation("supersede", id, Ended(run, base.resources[id], "superseded"))
  BY DEF Changed
<1>3. o \in B <=> \E id \in DOMAIN targets, k \in TargetKinds : o = Operation(k, id, targets[id])
  OBVIOUS
<1>4. o \in C <=> \E id \in Stale(base, targets) :
                    o = Operation(stale, id, Ended(run, base.resources[id], Terminus(stale)))
  OBVIOUS
<1> HIDE DEF A, B, C
<1> QED
  BY <1>1, <1>2, <1>3, <1>4

LEMMA OfTarget ==
  ASSUME NEW run, NEW base, NEW targets, NEW stale, NEW id \in DOMAIN targets, NEW o
  PROVE  o \in OfResource(PlanOf(run, base, targets, stale), id) <=>
           \/ /\ Changed(base, targets, id)
              /\ o = Operation("supersede", id, Ended(run, base.resources[id], "superseded"))
           \/ \E k \in TargetKinds : o = Operation(k, id, targets[id])
<1>1. id \notin Stale(base, targets)
  BY StaleApart
<1>2. o \in OfResource(PlanOf(run, base, targets, stale), id)
        <=> o \in Operations(run, base, targets, stale) /\ o.id = id
  BY DEF OfResource, PlanOf
<1> QED
  BY <1>1, <1>2, OperationsAre, OperationFields

LEMMA OfStale ==
  ASSUME NEW run, NEW base, NEW targets, NEW stale, NEW id \in Stale(base, targets)
  PROVE  OfResource(PlanOf(run, base, targets, stale), id)
           = {Operation(stale, id, Ended(run, base.resources[id], Terminus(stale)))}
<1>1. id \notin DOMAIN targets
  BY StaleApart
<1>2. \A o : o \in OfResource(PlanOf(run, base, targets, stale), id)
        <=> o \in Operations(run, base, targets, stale) /\ o.id = id
  BY DEF OfResource, PlanOf
<1>3. \A o : o \in OfResource(PlanOf(run, base, targets, stale), id)
        <=> o = Operation(stale, id, Ended(run, base.resources[id], Terminus(stale)))
  BY <1>1, <1>2, OperationsAre, OperationFields
<1> QED
  BY <1>3

LEMMA PlannedIds ==
  ASSUME NEW run, NEW base, NEW targets, NEW stale
  PROVE  {o.id : o \in PlanOf(run, base, targets, stale).operations}
           = DOMAIN targets \cup Stale(base, targets)
<1> DEFINE O == Operations(run, base, targets, stale)
<1>1. PlanOf(run, base, targets, stale).operations = O
  BY DEF PlanOf
<1>2. ASSUME NEW o \in O PROVE o.id \in DOMAIN targets \cup Stale(base, targets)
  BY OperationsAre, OperationFields
<1>3. ASSUME NEW id \in DOMAIN targets PROVE \E o \in O : o.id = id
  <2>1. "stage" \in TargetKinds
    BY DEF TargetKinds
  <2>2. Operation("stage", id, targets[id]) \in O
    BY <2>1, OperationsAre
  <2> QED
    BY <2>2, OperationFields
<1>4. ASSUME NEW id \in Stale(base, targets) PROVE \E o \in O : o.id = id
  <2>1. Operation(stale, id, Ended(run, base.resources[id], Terminus(stale))) \in O
    BY OperationsAre
  <2> QED
    BY <2>1, OperationFields
<1> HIDE DEF O
<1> QED
  BY <1>1, <1>2, <1>3, <1>4

LEMMA PlannedTargets ==
  ASSUME NEW run, NEW base, NEW targets, NEW stale, stale \in {"revoke", "tombstone"}
  PROVE  Targeted(PlanOf(run, base, targets, stale)) = DOMAIN targets
<1> DEFINE plan == PlanOf(run, base, targets, stale)
<1>1. ASSUME NEW id \in DOMAIN targets PROVE KindsOf(plan, id) \cap TargetKinds # {}
  <2>1. "stage" \in TargetKinds
    BY DEF TargetKinds
  <2>2. Operation("stage", id, targets[id]) \in OfResource(plan, id)
    BY <2>1, OfTarget
  <2> QED
    BY <2>1, <2>2, OperationFields DEF KindsOf
<1>2. ASSUME NEW id \in Stale(base, targets) PROVE KindsOf(plan, id) \cap TargetKinds = {}
  <2>1. KindsOf(plan, id) = {stale}
    BY OfStale, OperationFields DEF KindsOf
  <2> QED
    BY <2>1 DEF TargetKinds
<1>3. {o.id : o \in plan.operations} = DOMAIN targets \cup Stale(base, targets)
  BY PlannedIds
<1> HIDE DEF plan
<1> QED
  BY <1>1, <1>2, <1>3 DEF Targeted, plan

\* A set of numbers has a least one.
LEMMA LeastOf ==
  ASSUME NEW N, N \subseteq Nat, N # {}
  PROVE  \E n \in N : \A m \in N : n <= m
<1> DEFINE Below == {0 .. n : n \in N}
<1>1. Below \subseteq FiniteSubsetsOf(Nat) /\ Below # {}
  <2>1. ASSUME NEW n \in N PROVE 0 .. n \in FiniteSubsetsOf(Nat)
    BY FS_Interval DEF FiniteSubsetsOf
  <2> QED
    BY <2>1
<1>2. PICK b \in Below : \A a \in Below : <<a, b>> \notin StrictSubsetOrdering(Nat)
  <2> HIDE DEF Below
  <2> QED
    BY <1>1, FS_StrictSubsetOrderingWellFounded, WFMin
<1>3. PICK n \in N : b = 0 .. n
  OBVIOUS
<1>4. ASSUME NEW m \in N, m < n PROVE FALSE
  <2>1. 0 .. m \in Below /\ 0 .. m \in SUBSET Nat /\ b \in SUBSET Nat
    BY <1>3
  <2>2. 0 .. m \subseteq b /\ n \in b /\ n \notin 0 .. m
    BY <1>3, <1>4
  <2>3. <<0 .. m, b>> \in StrictSubsetOrdering(Nat)
    BY <2>1, <2>2 DEF StrictSubsetOrdering
  <2> QED
    BY <1>2, <2>1, <2>3
<1> QED
  BY <1>4

\* A set that has 0 and with each number of 0 .. n the next one has them all.
LEMMA Upwards ==
  ASSUME NEW n \in Nat, NEW Good, 0 \in Good,
         \A h \in 1 .. n : h - 1 \in Good => h \in Good
  PROVE  \A h \in 0 .. n : h \in Good
<1> SUFFICES ASSUME (0 .. n) \ Good # {} PROVE FALSE
  OBVIOUS
<1>1. PICK h \in (0 .. n) \ Good : \A g \in (0 .. n) \ Good : h <= g
  <2> DEFINE N == (0 .. n) \ Good
  <2>1. N \subseteq Nat /\ N # {}
    OBVIOUS
  <2> HIDE DEF N
  <2>2. \E h \in N : \A g \in N : h <= g
    BY <2>1, LeastOf
  <2> QED
    BY <2>2 DEF N
<1>2. h \in 1 .. n /\ h - 1 \in 0 .. n /\ ~(h <= h - 1)
  BY <1>1
<1> QED
  BY <1>1, <1>2

-----------------------------------------------------------------------------
\* The result of a plan

StaleOperation(run, base, stale, id) ==
  Operation(stale, id, Ended(run, base.resources[id], Terminus(stale)))

LEMMA StagedIs ==
  ASSUME NEW run, NEW base, NEW targets, NEW stale, NEW id \in DOMAIN targets
  PROVE  (CHOOSE o \in OfResource(PlanOf(run, base, targets, stale), id) : o.kind = "stage").resource
           = targets[id]
<1> DEFINE O == OfResource(PlanOf(run, base, targets, stale), id)
<1>1. "stage" \in TargetKinds
  BY DEF TargetKinds
<1>2. Operation("stage", id, targets[id]) \in O /\ Operation("stage", id, targets[id]).kind = "stage"
  BY <1>1, OfTarget, OperationFields
<1>3. \A o \in O : o.kind = "stage" => o.resource = targets[id]
  BY OfTarget, OperationFields
<1>4. (CHOOSE o \in O : o.kind = "stage") \in O /\ (CHOOSE o \in O : o.kind = "stage").kind = "stage"
  <2> HIDE DEF O
  <2> QED
    BY <1>2
<1> QED
  BY <1>3, <1>4

LEMMA EndingIs ==
  ASSUME NEW run, NEW base, NEW targets, NEW stale, NEW id \in Stale(base, targets)
  PROVE  (CHOOSE o \in OfResource(PlanOf(run, base, targets, stale), id) : TRUE)
           = StaleOperation(run, base, stale, id)
BY OfStale DEF StaleOperation

\* Every resource of a replayed plan.
ResultOf(run, base, targets, stale, failed, id) ==
  IF id \in DOMAIN targets
  THEN [targets[id] EXCEPT !.state = TargetState(PlanOf(run, base, targets, stale), failed, id),
                           !.status = StatusAfter(PlanOf(run, base, targets, stale), failed, id)]
  ELSE [Ended(run, base.resources[id], Terminus(stale)) EXCEPT
          !.state = IF StaleOperation(run, base, stale, id) \in failed THEN "failed" ELSE Terminus(stale)]

Results(run, base, targets, stale, failed) ==
  [id \in DOMAIN targets \cup Stale(base, targets) |-> ResultOf(run, base, targets, stale, failed, id)]

LEMMA ReplayedIs ==
  ASSUME NEW run, NEW base, NEW targets, NEW stale, NEW failed
  PROVE  /\ Replayed(PlanOf(run, base, targets, stale), base, failed).version = run.target
         /\ Replayed(PlanOf(run, base, targets, stale), base, failed).snapshot = run.snapshot
         /\ Replayed(PlanOf(run, base, targets, stale), base, failed).state
              = IF failed = {} THEN "serving" ELSE "failed"
<1>1. PlanOf(run, base, targets, stale).run = run
  BY DEF PlanOf
<1> QED
  BY <1>1 DEF Replayed

LEMMA ReplayedResources ==
  ASSUME NEW run, NEW base, NEW targets, NEW stale, stale \in {"revoke", "tombstone"}, NEW failed,
         Shaped(base.resources)
  PROVE  Replayed(PlanOf(run, base, targets, stale), base, failed).resources
           = Results(run, base, targets, stale, failed)
<1> DEFINE plan == PlanOf(run, base, targets, stale)
           target(id) == (CHOOSE o \in OfResource(plan, id) : o.kind = "stage").resource
           ended(id) == (CHOOSE o \in OfResource(plan, id) : TRUE)
           result(id) == IF id \in Targeted(plan)
             THEN [target(id) EXCEPT !.state = TargetState(plan, failed, id),
                                     !.status = StatusAfter(plan, failed, id)]
             ELSE [ended(id).resource EXCEPT
                     !.state = IF ended(id) \in failed THEN "failed" ELSE @]
<1>3. Replayed(plan, base, failed).resources = [id \in {o.id : o \in plan.operations} |-> result(id)]
  <2> HIDE DEF plan
  <2> QED
    BY DEF Replayed
<1>4. ASSUME NEW id \in DOMAIN targets
      PROVE  result(id) = ResultOf(run, base, targets, stale, failed, id)
  <2>1. id \in Targeted(plan)
    BY PlannedTargets
  <2>2. target(id) = targets[id]
    BY StagedIs
  <2> HIDE DEF target, ended
  <2> QED
    BY <2>1, <2>2 DEF ResultOf
<1>5. ASSUME NEW id \in Stale(base, targets)
      PROVE  result(id) = ResultOf(run, base, targets, stale, failed, id)
  <2>1. id \notin DOMAIN targets /\ id \in DOMAIN base.resources
    BY StaleApart
  <2>2. id \notin Targeted(plan)
    BY <2>1, PlannedTargets
  <2>3. ended(id) = StaleOperation(run, base, stale, id)
    BY EndingIs
  <2> HIDE DEF ended
  <2>4. ended(id).resource = Ended(run, base.resources[id], Terminus(stale))
    BY <2>3, OperationFields DEF StaleOperation
  <2>5. IsResource(base.resources[id])
    BY <2>1 DEF Shaped
  <2>6. ended(id).resource = Metadata(base.resources[id].content, base.resources[id].acl,
          run.snapshot.version, run.target, Terminus(stale), base.resources[id].status,
          base.resources[id].deps, None)
    BY <2>4, <2>5, EndedIs
  <2>7. ended(id).resource.state = Terminus(stale)
    BY <2>6, MetadataIs
  <2> HIDE DEF target, ended
  <2> QED
    BY <2>1, <2>2, <2>3, <2>4, <2>7 DEF ResultOf
<1>6. {o.id : o \in plan.operations} = DOMAIN targets \cup Stale(base, targets)
  BY PlannedIds
<1> HIDE DEF plan, result
<1>7. Replayed(plan, base, failed).resources = [id \in DOMAIN targets \cup Stale(base, targets) |->
                                ResultOf(run, base, targets, stale, failed, id)]
  BY <1>3, <1>4, <1>5, <1>6
<1> QED
  BY <1>7 DEF plan, Results

LEMMA ResultOfTarget ==
  ASSUME NEW run, NEW base, NEW targets, NEW stale, NEW failed, Shaped(targets),
         NEW id \in DOMAIN targets
  PROVE  LET r == targets[id]
             plan == PlanOf(run, base, targets, stale)
         IN ResultOf(run, base, targets, stale, failed, id)
              = Metadata(r.content, r.acl, r.source, r.projection, TargetState(plan, failed, id),
                         StatusAfter(plan, failed, id), r.deps, r.record)
<1> DEFINE state == TargetState(PlanOf(run, base, targets, stale), failed, id)
           status == StatusAfter(PlanOf(run, base, targets, stale), failed, id)
<1>1. IsResource(targets[id])
  BY DEF Shaped
<1>2. ResultOf(run, base, targets, stale, failed, id) = [targets[id] EXCEPT !.state = state, !.status = status]
  BY DEF ResultOf
<1> HIDE DEF state, status
<1>3. [targets[id] EXCEPT !.state = state, !.status = status]
        = Metadata(targets[id].content, targets[id].acl, targets[id].source, targets[id].projection,
                   state, status, targets[id].deps, targets[id].record)
  BY <1>1, InStateAndStatus
<1> QED
  BY <1>2, <1>3 DEF state, status

LEMMA ResultOfStale ==
  ASSUME NEW run, NEW base, NEW targets, NEW stale, NEW failed, Shaped(base.resources),
         NEW id \in Stale(base, targets)
  PROVE  LET r == base.resources[id]
         IN ResultOf(run, base, targets, stale, failed, id)
              = Metadata(r.content, r.acl, run.snapshot.version, run.target,
                         IF StaleOperation(run, base, stale, id) \in failed
                         THEN "failed" ELSE Terminus(stale), r.status, r.deps, None)
<1> DEFINE r == base.resources[id]
           e == Ended(run, r, Terminus(stale))
           state == IF StaleOperation(run, base, stale, id) \in failed THEN "failed" ELSE Terminus(stale)
           m == Metadata(r.content, r.acl, run.snapshot.version, run.target,
                         Terminus(stale), r.status, r.deps, None)
<1>1. id \notin DOMAIN targets /\ id \in DOMAIN base.resources
  BY StaleApart
<1>2. ResultOf(run, base, targets, stale, failed, id) = [e EXCEPT !.state = state]
  BY <1>1 DEF ResultOf
<1>3. IsResource(r)
  BY <1>1 DEF Shaped
<1> HIDE DEF r, state
<1>4. e = m
  BY <1>3, EndedIs
<1>5. [m EXCEPT !.state = state]
        = Metadata(r.content, r.acl, run.snapshot.version, run.target, state, r.status, r.deps, None)
  BY DEF Metadata
<1> HIDE DEF e, m
<1> QED
  BY <1>2, <1>4, <1>5 DEF r, state

\* Without failures a replay makes the projection that the planner validated.
LEMMA ReplacementIs ==
  ASSUME NEW run, NEW base, NEW targets, NEW stale, stale \in {"revoke", "tombstone"},
         Shaped(base.resources), Shaped(targets)
  PROVE  LET p == Replayed(PlanOf(run, base, targets, stale), base, {})
             q == Replacement(run, base, targets, stale)
         IN p.version = q.version /\ p.snapshot = q.snapshot /\ p.state = q.state /\ p.resources = q.resources
<1> DEFINE plan == PlanOf(run, base, targets, stale)
<1>1. \A id : TargetState(plan, {}, id) = "serving" /\ StatusAfter(plan, {}, id) = Succeeded
  BY DEF TargetState, StatusAfter, Succeeded
<1>2. ASSUME NEW id \in DOMAIN targets
      PROVE  ResultOf(run, base, targets, stale, {}, id)
               = [targets[id] EXCEPT !.state = "serving", !.status = Succeeded]
  BY <1>1 DEF ResultOf
<1>3. ASSUME NEW id \in Stale(base, targets)
      PROVE  /\ id \notin DOMAIN targets
             /\ ResultOf(run, base, targets, stale, {}, id) = Ended(run, base.resources[id], Terminus(stale))
  <2>1. id \notin DOMAIN targets /\ id \in DOMAIN base.resources
    BY StaleApart
  <2>2. IsResource(base.resources[id])
    BY <2>1 DEF Shaped
  <2> QED
    BY <2>1, <2>2, EndedIs, ResultOfStale
<1>4. /\ Replayed(plan, base, {}).version = run.target
      /\ Replayed(plan, base, {}).snapshot = run.snapshot
      /\ Replayed(plan, base, {}).state = "serving"
      /\ Replayed(plan, base, {}).resources = Results(run, base, targets, stale, {})
  BY ReplayedIs, ReplayedResources
<1> DEFINE replaced(id) == IF id \in DOMAIN targets
              THEN [targets[id] EXCEPT !.state = "serving", !.status = Succeeded]
              ELSE Ended(run, base.resources[id], Terminus(stale))
<1>5. /\ Replacement(run, base, targets, stale).version = run.target
      /\ Replacement(run, base, targets, stale).snapshot = run.snapshot
      /\ Replacement(run, base, targets, stale).state = "serving"
      /\ Replacement(run, base, targets, stale).resources =
           [id \in DOMAIN targets \cup Stale(base, targets) |-> replaced(id)]
  BY DEF Replacement
<1>6. \A id \in DOMAIN targets \cup Stale(base, targets) :
        ResultOf(run, base, targets, stale, {}, id) = replaced(id)
  BY <1>2, <1>3
<1> HIDE DEF plan, replaced
<1> QED
  BY <1>4, <1>5, <1>6 DEF plan, Results

-----------------------------------------------------------------------------
\* A replayed plan is a valid projection

\* The resources of a plan's result, whatever failed, are those of the
\* replacement but for states and statuses.
LEMMA SameAsReplacement ==
  ASSUME NEW run, NEW base, NEW targets, NEW stale, NEW failed,
         Shaped(base.resources), Shaped(targets),
         NEW id \in DOMAIN targets \cup Stale(base, targets)
  PROVE  LET r == ResultOf(run, base, targets, stale, failed, id)
         IN IsResource(r) /\ SameResource(r, ResultOf(run, base, targets, stale, {}, id))
<1>1. CASE id \in DOMAIN targets
  BY <1>1, ResultOfTarget, MetadataIs DEF SameResource
<1>2. CASE id \in Stale(base, targets)
  BY <1>2, ResultOfStale, MetadataIs DEF SameResource
<1> QED
  BY <1>1, <1>2

LEMMA FailedServesNothing ==
  ASSUME NEW run, NEW base, NEW targets, NEW stale \in {"revoke", "tombstone"}, NEW failed, failed # {},
         Shaped(base.resources), Shaped(targets),
         NEW id \in DOMAIN targets \cup Stale(base, targets)
  PROVE  ResultOf(run, base, targets, stale, failed, id).state # "serving"
<1>1. CASE id \in DOMAIN targets
  <2>1. TargetState(PlanOf(run, base, targets, stale), failed, id) # "serving"
    BY DEF TargetState
  <2> QED
    BY <1>1, <2>1, ResultOfTarget, MetadataIs
<1>2. CASE id \in Stale(base, targets)
  <2>1. Terminus(stale) # "serving"
    BY DEF Terminus
  <2> QED
    BY <1>2, <2>1, ResultOfStale, MetadataIs
<1> QED
  BY <1>1, <1>2

\* Validity, resource by resource.
ValidIn(p, id) ==
  LET r == p.resources[id]
  IN /\ ResourceValid(id, r)
     /\ r.projection = p.version
     /\ r.source = p.snapshot.version
     /\ p.state = "serving" => \/ IsTerminal(r) \/ IsServing(id, r)
                               \/ IsQuarantined(id, r)
     /\ p.state # "serving" => ~IsServing(id, r)
     /\ (TypeOf[id] = "claim" /\ r.record # None) => ClaimRecordResolves(id, p.resources)
     /\ (TypeOf[id] = "artifact" /\ r.record # None) => SecurityRecordResolves(id, p.resources)
     /\ DependenciesValid(id, p.resources)
     /\ (TypeOf[id] = "chunk" /\ IsServing(id, r)) =>
          /\ IsServing(ParentOf[id], p.resources[ParentOf[id]])
          /\ InheritsDocument(id, p.resources)

LEMMA ValidByResource ==
  ASSUME NEW p
  PROVE  ProjectionValid(p) <=>
           /\ \A id \in DOMAIN p.resources : ValidIn(p, id)
           /\ p.state = "serving" => Cardinality(SnapshotDocuments(p.resources)) = p.snapshot.count
BY DEF ProjectionValid, ValidIn

\* What does not serve is as valid as what does.
LEMMA WithheldValid ==
  ASSUME NEW p, NEW q, ProjectionValid(q), p.state = "failed",
         p.version = q.version, p.snapshot = q.snapshot,
         DOMAIN p.resources = DOMAIN q.resources,
         \A id \in DOMAIN p.resources : /\ SameResource(p.resources[id], q.resources[id])
                                        /\ p.resources[id].state # "serving"
  PROVE  ProjectionValid(p)
<1>1. \A id \in DOMAIN p.resources : ~IsServing(id, p.resources[id])
  BY DEF IsServing
<1>2. \A id \in DOMAIN p.resources : Pin(id, p.resources[id]) = Pin(id, q.resources[id])
  BY DEF Pin, SameResource
<1>3. \A pin : Resolves(pin, p.resources) <=> Resolves(pin, q.resources)
  BY <1>2 DEF Resolves
<1>4. SUFFICES ASSUME NEW id \in DOMAIN p.resources PROVE ValidIn(p, id)
  BY ValidByResource
<1> DEFINE r == p.resources[id]
           s == q.resources[id]
<1>5. ValidIn(q, id) /\ SameResource(r, s) /\ Pin(id, r) = Pin(id, s)
  BY <1>2, ValidByResource
<1>6. ResourceValid(id, r)
  <2>1. ResourceValid(id, s)
    BY <1>5 DEF ValidIn
  <2>2. /\ r.source = s.source /\ r.acl = s.acl /\ r.projection = s.projection
        /\ r.deps = s.deps /\ r.record = s.record /\ r.state # "serving"
    BY <1>5 DEF SameResource
  <2>3. EvidenceCurrent(r, r.record.groups) <=> EvidenceCurrent(s, s.record.groups)
    BY <2>2 DEF EvidenceCurrent
  <2> HIDE DEF r, s
  <2> QED
    BY <2>1, <2>2, <2>3, <1>5 DEF ResourceValid
<1>7. r.projection = p.version /\ r.source = p.snapshot.version
  BY <1>5 DEF ValidIn, SameResource
<1>8. ASSUME TypeOf[id] = "claim" /\ r.record # None PROVE ClaimRecordResolves(id, p.resources)
  <2>1. s.record # None /\ r.record = s.record /\ r.deps = s.deps
    BY <1>5, <1>8 DEF SameResource
  <2>2. ClaimRecordResolves(id, q.resources)
    BY <1>5, <1>8, <2>1 DEF ValidIn
  <2> QED
    BY <1>3, <2>1, <2>2 DEF ClaimRecordResolves
<1>9. ASSUME TypeOf[id] = "artifact" /\ r.record # None PROVE SecurityRecordResolves(id, p.resources)
  <2>1. s.record # None /\ r.record = s.record /\ r.deps = s.deps
    BY <1>5, <1>9 DEF SameResource
  <2>2. SecurityRecordResolves(id, q.resources)
    BY <1>5, <1>9, <2>1 DEF ValidIn
  <2> QED
    BY <1>1, <1>3, <2>1, <2>2 DEF SecurityRecordResolves
<1>10. DependenciesValid(id, p.resources)
  <2>1. DependenciesValid(id, q.resources) /\ r.deps = s.deps
    BY <1>5 DEF ValidIn, SameResource
  <2> QED
    BY <1>1, <2>1 DEF DependenciesValid
<1>11. ~IsServing(id, r)
  BY <1>1
<1> QED
  BY <1>6, <1>7, <1>8, <1>9, <1>10, <1>11 DEF ValidIn

LEMMA ReplayedValid ==
  ASSUME NEW run, NEW base, NEW targets, NEW stale, Accepted(run, base, targets, stale), NEW failed
  PROVE  ProjectionValid(Replayed(PlanOf(run, base, targets, stale), base, failed))
<1> DEFINE p == Replayed(PlanOf(run, base, targets, stale), base, failed)
           q == Replacement(run, base, targets, stale)
           z == Replayed(PlanOf(run, base, targets, stale), base, {})
           S == DOMAIN targets \cup Stale(base, targets)
<1>1. /\ stale \in {"revoke", "tombstone"} /\ Shaped(base.resources) /\ Shaped(targets)
      /\ ProjectionValid(q)
  BY DEF Accepted
<1>2. z.version = q.version /\ z.snapshot = q.snapshot /\ z.state = q.state /\ z.resources = q.resources
  BY <1>1, ReplacementIs
<1>3. ProjectionValid(z)
  <2> HIDE DEF z, q
  <2> QED
    BY <1>1, <1>2, ValidByResource DEF ValidIn
<1>4. CASE failed = {}
  BY <1>3, <1>4
<1>5. CASE failed # {}
  <2>1. /\ p.version = run.target /\ p.snapshot = run.snapshot /\ p.state = "failed"
        /\ p.resources = Results(run, base, targets, stale, failed)
    BY <1>1, <1>5, ReplayedIs, ReplayedResources
  <2>2. /\ z.version = run.target /\ z.snapshot = run.snapshot
        /\ z.resources = Results(run, base, targets, stale, {})
    BY <1>1, ReplayedIs, ReplayedResources
  <2>3. \A id \in S :
          /\ SameResource(ResultOf(run, base, targets, stale, failed, id), ResultOf(run, base, targets, stale, {}, id))
          /\ ResultOf(run, base, targets, stale, failed, id).state # "serving"
    BY <1>1, <1>5, SameAsReplacement, FailedServesNothing
  <2> HIDE DEF p, z, S
  <2>4. /\ DOMAIN p.resources = DOMAIN z.resources
        /\ \A id \in DOMAIN p.resources : /\ SameResource(p.resources[id], z.resources[id])
                                          /\ p.resources[id].state # "serving"
    BY <2>1, <2>2, <2>3 DEF Results, S
  <2> QED
    BY <1>3, <2>1, <2>2, <2>4, WithheldValid DEF p
<1> QED
  BY <1>4, <1>5

-----------------------------------------------------------------------------
\* Replay carries out what the planner accepts

LEMMA PlannedOnce ==
  ASSUME NEW run, NEW base, NEW targets, NEW stale,
         NEW id \in DOMAIN targets \cup Stale(base, targets)
  PROVE  LET plan == PlanOf(run, base, targets, stale)
         IN Cardinality(OfResource(plan, id)) = Cardinality(KindsOf(plan, id))
<1> DEFINE plan == PlanOf(run, base, targets, stale)
           O == OfResource(plan, id)
           K == KindsOf(plan, id)
<1>1. \A o, p \in O : o.kind = p.kind => o = p
  <2>1. CASE id \in DOMAIN targets
    <3>1. "supersede" \notin TargetKinds
      BY DEF TargetKinds
    <3> QED
      BY <2>1, <3>1, OfTarget, OperationFields
  <2>2. CASE id \in Stale(base, targets)
    BY <2>2, OfStale
  <2> QED
    BY <2>1, <2>2
<1>2. K = {o.kind : o \in O}
  BY DEF KindsOf
<1>3. IsFiniteSet(K)
  <2>1. CASE id \in DOMAIN targets
    <3>1. K \subseteq TargetKinds \cup {"supersede"}
      BY <2>1, <1>2, OfTarget, OperationFields
    <3>2. IsFiniteSet(TargetKinds \cup {"supersede"})
      <4>1. TargetKinds \cup {"supersede"} =
              ((((((({} \cup {"stage"}) \cup {"project_content"}) \cup {"project_acl"}) \cup {"project_index"})
                 \cup {"project_graph"}) \cup {"project_artifact"}) \cup {"publish"}) \cup {"supersede"}
        BY DEF TargetKinds
      <4>2. IsFiniteSet((({} \cup {"stage"}) \cup {"project_content"}) \cup {"project_acl"})
        BY FS_EmptySet, FS_AddElement
      <4> DEFINE T == (({} \cup {"stage"}) \cup {"project_content"}) \cup {"project_acl"}
      <4> HIDE DEF T
      <4>3. IsFiniteSet(((T \cup {"project_index"}) \cup {"project_graph"}) \cup {"project_artifact"})
        BY <4>2, FS_AddElement DEF T
      <4> DEFINE U == ((T \cup {"project_index"}) \cup {"project_graph"}) \cup {"project_artifact"}
      <4> HIDE DEF U
      <4>4. IsFiniteSet((U \cup {"publish"}) \cup {"supersede"})
        BY <4>3, FS_AddElement DEF U
      <4> QED
        BY <4>1, <4>4 DEF T, U
    <3> QED
      BY <3>1, <3>2, FS_Subset
  <2>2. CASE id \in Stale(base, targets)
    <3>1. O = {Operation(stale, id, Ended(run, base.resources[id], Terminus(stale)))}
      BY <2>2, OfStale
    <3>2. K = {Operation(stale, id, Ended(run, base.resources[id], Terminus(stale))).kind}
      BY <1>2, <3>1
    <3> QED
      BY <3>2, FS_Singleton
  <2> QED
    BY <2>1, <2>2
<1> DEFINE f == [k \in K |-> CHOOSE o \in O : o.kind = k]
<1> HIDE DEF O, K
<1>4. \A k \in K : f[k] \in O /\ f[k].kind = k
  <2>1. ASSUME NEW k \in K PROVE (CHOOSE o \in O : o.kind = k) \in O /\ (CHOOSE o \in O : o.kind = k).kind = k
    BY <1>2
  <2> QED
    BY <2>1
<1>5. f \in [K -> O]
  BY <1>4
<1> HIDE DEF f
<1>6. \A k, m \in K : f[k] = f[m] => k = m
  BY <1>4
<1>7. ASSUME NEW o \in O PROVE \E k \in K : f[k] = o
  <2>1. o.kind \in K
    BY <1>2
  <2>2. f[o.kind] \in O /\ f[o.kind].kind = o.kind
    BY <2>1, <1>4
  <2> QED
    BY <2>1, <2>2, <1>1
<1>8. f \in Bijection(K, O)
  BY <1>5, <1>6, <1>7 DEF Bijection, Injection, Surjection, IsInjective
<1>9. Cardinality(K) = Cardinality(O)
  BY <1>3, <1>8, FS_Bijection DEF ExistsBijection
<1> QED
  BY <1>9 DEF K, O

LEMMA TargetsComplete ==
  ASSUME NEW run, NEW base, NEW targets, NEW stale, NEW id \in DOMAIN targets
  PROVE  TargetComplete(PlanOf(run, base, targets, stale), base, id)
<1> DEFINE plan == PlanOf(run, base, targets, stale)
           O == OfResource(plan, id)
           staged == {o.resource : o \in {x \in O : x.kind \in TargetKinds}}
           superseded == {o.resource : o \in {x \in O : x.kind = "supersede"}}
           old == Ended(run, base.resources[id], "superseded")
<1>1. "supersede" \notin TargetKinds /\ "stage" \in TargetKinds
  BY DEF TargetKinds
<1>2. \A o : o \in O <=> \/ Changed(base, targets, id) /\ o = Operation("supersede", id, old)
                         \/ \E k \in TargetKinds : o = Operation(k, id, targets[id])
  BY OfTarget
<1>3. plan.run = run
  BY DEF PlanOf
<1> HIDE DEF O, old
<1>4. staged = {targets[id]}
  <2>1. \A r \in staged : r = targets[id]
    BY <1>1, <1>2, OperationFields
  <2>2. Operation("stage", id, targets[id]) \in O
    BY <1>1, <1>2
  <2>3. targets[id] \in staged
    BY <2>2, <1>1, OperationFields
  <2> QED
    BY <2>1, <2>3
<1>5. \A s \in superseded : Changed(base, targets, id) /\ s = old
  BY <1>1, <1>2, OperationFields
<1>6. Changed(base, targets, id) => old \in superseded
  <2>1. ASSUME Changed(base, targets, id) PROVE old \in superseded
    <3>1. Operation("supersede", id, old) \in O
      BY <1>2, <2>1
    <3> QED
      BY <3>1, OperationFields
  <2> QED
    BY <2>1
<1>7. KindsOf(plan, id) \ {"supersede"} = TargetKinds
  <2>1. KindsOf(plan, id) = {o.kind : o \in O}
    BY DEF KindsOf, O
  <2>2. \A k \in TargetKinds : Operation(k, id, targets[id]) \in O
    BY <1>2
  <2>3. \A k \in TargetKinds : k \in {o.kind : o \in O}
    BY <2>2, OperationFields
  <2>4. \A o \in O : o.kind = "supersede" \/ o.kind \in TargetKinds
    BY <1>2, OperationFields
  <2> HIDE DEF plan
  <2> QED
    BY <1>1, <2>1, <2>3, <2>4
<1> HIDE DEF staged, superseded
<1>8. (superseded # {}) <=> Changed(base, targets, id)
  BY <1>5, <1>6
<1>9. \A s \in superseded : s = Ended(plan.run, base.resources[id], "superseded")
  BY <1>3, <1>5 DEF old
<1> QED
  BY <1>4, <1>7, <1>8, <1>9 DEF TargetComplete, staged, superseded, O, Changed

LEMMA StaleMatches ==
  ASSUME NEW run, NEW base, NEW targets, NEW stale \in {"revoke", "tombstone"},
         Shaped(base.resources), ProjectionValid(base), NEW id \in Stale(base, targets)
  PROVE  TerminalMatches(PlanOf(run, base, targets, stale), base, id)
<1> DEFINE plan == PlanOf(run, base, targets, stale)
           r == base.resources[id]
           e == Ended(run, r, Terminus(stale))
           old == [r EXCEPT !.source = e.source, !.record = IF TypeOf[id] = "claim" THEN None ELSE @]
<1>1. id \in Live(base.resources) /\ id \in DOMAIN base.resources
  BY StaleApart
<1>2. IsResource(r)
  BY <1>1 DEF Shaped
<1>3. TypeOf[id] \notin {"claim", "artifact"} => r.record = None
  BY <1>1, ValidByResource DEF ValidIn, ResourceValid
<1>4. OfResource(plan, id) = {Operation(stale, id, e)}
  BY OfStale
<1>5. KindsOf(plan, id) = {stale}
  BY <1>4, OperationFields DEF KindsOf
<1>6. e = Metadata(r.content, r.acl, run.snapshot.version, run.target, Terminus(stale), r.status, r.deps, None)
  BY <1>2, EndedIs
<1>7. old = Metadata(r.content, r.acl, e.source, r.projection, r.state, r.status, r.deps,
                     IF TypeOf[id] = "claim" THEN None ELSE r.record)
  <2> DEFINE s == [r EXCEPT !.source = e.source]
             t == [s EXCEPT !.record = IF TypeOf[id] = "claim" THEN None ELSE @]
  <2> HIDE DEF r, e
  <2>1. old = t
    BY <1>2 DEF IsResource, Metadata
  <2>2. s = Metadata(r.content, r.acl, e.source, r.projection, r.state, r.status, r.deps, r.record)
    BY <1>2 DEF IsResource, Metadata
  <2> HIDE DEF s
  <2>3. s.record = r.record
    BY <2>2, MetadataIs
  <2>4. t = Metadata(r.content, r.acl, e.source, r.projection, r.state, r.status, r.deps,
                     IF TypeOf[id] = "claim" THEN None ELSE r.record)
    BY <2>2, <2>3 DEF Metadata
  <2> QED
    BY <2>1, <2>4
<1> HIDE DEF old, r
<1>8. e.state = Terminus(stale) /\ e.content = r.content /\ e.acl = r.acl /\ e.deps = r.deps /\ e.record = None
  <2> HIDE DEF e
  <2> QED
    BY <1>6, MetadataIs
<1> HIDE DEF e
<1>9. /\ old.content = r.content /\ old.acl = r.acl /\ old.source = e.source /\ old.deps = r.deps
      /\ old.record = IF TypeOf[id] = "claim" THEN None ELSE r.record
  BY <1>7, MetadataIs
<1>10. Definition(id, old) = Definition(id, e)
  BY <1>3, <1>8, <1>9 DEF Definition
<1>11. EndsAs(id, r, e, Terminus(stale))
  BY <1>8, <1>10 DEF EndsAs, old
<1>12. Operation(stale, id, e).resource = e
  BY OperationFields
<1> QED
  BY <1>1, <1>4, <1>5, <1>11, <1>12 DEF TerminalMatches, r

LEMMA PlanCarriesOut ==
  ASSUME NEW run, NEW base, NEW targets, NEW stale, Accepted(run, base, targets, stale)
  PROVE  ReplayPlanValid(PlanOf(run, base, targets, stale), base)
<1> DEFINE plan == PlanOf(run, base, targets, stale)
           S == DOMAIN targets \cup Stale(base, targets)
<1>1. /\ stale \in {"revoke", "tombstone"} /\ Shaped(base.resources) /\ ProjectionValid(base)
  BY DEF Accepted, PlannableRun
<1>2. {o.id : o \in plan.operations} = S
  BY PlannedIds
<1>3. Targeted(plan) = DOMAIN targets
  BY <1>1, PlannedTargets
<1>4. \A id \in S : Cardinality(OfResource(plan, id)) = Cardinality(KindsOf(plan, id))
  BY PlannedOnce
<1>5. \A id \in DOMAIN targets : TargetComplete(plan, base, id)
  BY TargetsComplete
<1>6. \A id \in Stale(base, targets) : TerminalMatches(plan, base, id)
  BY <1>1, StaleMatches
<1>7. Live(base.resources) \subseteq S
  BY DEF Stale
<1> HIDE DEF plan
<1> QED
  BY <1>2, <1>3, <1>4, <1>5, <1>6, <1>7 DEF ReplayPlanValid, plan

LEMMA AcceptedFacts ==
  ASSUME NEW run, NEW base, NEW targets, NEW stale, Accepted(run, base, targets, stale)
  PROVE  /\ stale \in {"revoke", "tombstone"} /\ Shaped(base.resources) /\ Shaped(targets)
         /\ ProjectionValid(base) /\ base.state = "serving" /\ base.version = run.base
         /\ ~\E a \in base.applied : a.plan.run = run
<1>1. \A a \in base.applied : a.plan.run # run
  BY DEF Accepted
<1> QED
  BY <1>1 DEF Accepted, PlannableRun

LEMMA ReplayIs ==
  ASSUME NEW run, NEW base, NEW targets, NEW stale, Accepted(run, base, targets, stale), NEW failed
  PROVE  LET plan == PlanOf(run, base, targets, stale)
         IN Replay(plan, base, failed) =
              {[projection |-> Replayed(plan, base, failed), noop |-> FALSE,
                state |-> IF failed = {} THEN "succeeded" ELSE "failed"]}
<1> DEFINE plan == PlanOf(run, base, targets, stale)
           outcome == IF failed = {} THEN "succeeded" ELSE "failed"
           r == [projection |-> Replayed(plan, base, failed), noop |-> FALSE, state |-> outcome]
<1>1. plan.run = run
  BY DEF PlanOf
<1>2. ProjectionValid(base) /\ ~\E a \in base.applied : a.plan = plan
  BY <1>1, AcceptedFacts
<1>3. Applicable(plan, base)
  BY <1>1, AcceptedFacts, PlanCarriesOut DEF Applicable
<1>4. ProjectionValid(Replayed(plan, base, failed))
  BY ReplayedValid
<1>5. Replay(plan, base, failed) = {x \in {r} : ProjectionValid(x.projection)}
  BY <1>2, <1>3 DEF Replay
<1>6. r.projection = Replayed(plan, base, failed)
  OBVIOUS
<1> HIDE DEF r
<1>7. {x \in {r} : ProjectionValid(x.projection)} = {r}
  BY <1>4, <1>6
<1> QED
  BY <1>5, <1>7 DEF r

LEMMA RetryIs ==
  ASSUME NEW run, NEW base, NEW targets, NEW stale, Accepted(run, base, targets, stale),
         NEW failed, NEW again
  PROVE  LET plan == PlanOf(run, base, targets, stale)
             result == Replayed(plan, base, failed)
         IN Replay(plan, result, again) =
              {[projection |-> result, noop |-> TRUE,
                state |-> IF failed = {} THEN "succeeded" ELSE "failed"]}
<1> DEFINE plan == PlanOf(run, base, targets, stale)
           result == Replayed(plan, base, failed)
           entry == [plan |-> plan, failed |-> failed]
<1>1. plan.run = run
  BY DEF PlanOf
<1>2. \A a \in base.applied : a.plan # plan
  BY <1>1, AcceptedFacts
<1>3. result.applied = base.applied \cup {entry}
  BY DEF Replayed
<1>4. entry.plan = plan /\ entry.failed = failed
  OBVIOUS
<1>5. ProjectionValid(result)
  BY ReplayedValid
<1> HIDE DEF plan, result, entry
<1>6. \E a \in result.applied : a.plan = plan
  BY <1>3, <1>4
<1>7. AppliedState(plan, result) = IF failed = {} THEN "succeeded" ELSE "failed"
  <2>1. (\E a \in result.applied : a.plan = plan /\ a.failed # {}) <=> failed # {}
    BY <1>2, <1>3, <1>4
  <2> QED
    BY <2>1 DEF AppliedState
<1>8. Replay(plan, result, again) =
        {[projection |-> result, state |-> AppliedState(plan, result), noop |-> TRUE]}
  BY <1>5, <1>6 DEF Replay
<1> QED
  BY <1>7, <1>8 DEF plan, result

LEMMA NothingLess ==
  ASSUME NEW run, NEW base, NEW targets, NEW stale, Accepted(run, base, targets, stale),
         NEW o \in PlanOf(run, base, targets, stale).operations
  PROVE  Replay([PlanOf(run, base, targets, stale) EXCEPT !.operations = @ \ {o}], base, {}) = {}
<1> DEFINE plan == PlanOf(run, base, targets, stale)
           less == [plan EXCEPT !.operations = @ \ {o}]
<1>1. less.run = run /\ less.operations = plan.operations \ {o}
  BY DEF PlanOf
<1>2. ProjectionValid(base) /\ \A a \in base.applied : a.plan # less
  <2>1. ProjectionValid(base) /\ ~\E a \in base.applied : a.plan.run = run
    BY AcceptedFacts
  <2> HIDE DEF less
  <2> QED
    BY <1>1, <2>1
<1>3. o \in Operations(run, base, targets, stale)
  BY DEF PlanOf
<1> HIDE DEF less
<1>4. ~ReplayPlanValid(less, base)
  <2>1. \A id : OfResource(less, id) = OfResource(plan, id) \ {o}
    BY <1>1 DEF OfResource
  <2>2. CASE \E id \in Stale(base, targets) :
               o = Operation(stale, id, Ended(run, base.resources[id], Terminus(stale)))
    <3>1. PICK id \in Stale(base, targets) :
               o = Operation(stale, id, Ended(run, base.resources[id], Terminus(stale)))
      BY <2>2
    <3>2. OfResource(less, id) = {}
      BY <2>1, <3>1, OfStale
    <3>3. id \notin {x.id : x \in less.operations}
      BY <3>2 DEF OfResource
    <3>4. id \in Live(base.resources)
      BY StaleApart
    <3> QED
      BY <3>3, <3>4 DEF ReplayPlanValid
  <2>3. CASE \E id \in DOMAIN targets, k \in TargetKinds : o = Operation(k, id, targets[id])
    <3>1. PICK id \in DOMAIN targets, k \in TargetKinds : o = Operation(k, id, targets[id])
      BY <2>3
    <3>2. PICK m \in TargetKinds : m # k
      <4>1. "stage" \in TargetKinds /\ "publish" \in TargetKinds
        BY DEF TargetKinds
      <4> QED
        BY <4>1
    <3> DEFINE p == Operation(m, id, targets[id])
    <3>3. p \in OfResource(plan, id)
      BY <3>2, OfTarget
    <3>4. p \in OfResource(less, id) /\ p.kind = m /\ p.id = id
      BY <2>1, <3>1, <3>2, <3>3, OperationFields
    <3>5. k \notin KindsOf(less, id)
      <4>1. "supersede" \notin TargetKinds
        BY DEF TargetKinds
      <4>2. \A x \in OfResource(less, id) : x # o /\ x \in OfResource(plan, id)
        BY <2>1
      <4>3. \A x \in OfResource(less, id) : x.kind # k
        BY <3>1, <4>1, <4>2, OfTarget, OperationFields
      <4> QED
        BY <4>3 DEF KindsOf
    <3> HIDE DEF p
    <3>6. id \in {x.id : x \in less.operations}
      BY <3>4 DEF OfResource
    <3>7. m \in KindsOf(less, id)
      BY <3>4 DEF KindsOf
    <3>8. id \in Targeted(less)
      BY <3>2, <3>6, <3>7 DEF Targeted
    <3>9. ~TargetComplete(less, base, id)
      <4>1. KindsOf(less, id) \ {"supersede"} # TargetKinds
        BY <3>1, <3>5
      <4> QED
        BY <4>1 DEF TargetComplete
    <3> QED
      BY <3>6, <3>8, <3>9 DEF ReplayPlanValid
  <2>4. CASE \E id \in DOMAIN targets :
               /\ Changed(base, targets, id)
               /\ o = Operation("supersede", id, Ended(run, base.resources[id], "superseded"))
    <3>1. PICK id \in DOMAIN targets :
               /\ Changed(base, targets, id)
               /\ o = Operation("supersede", id, Ended(run, base.resources[id], "superseded"))
      BY <2>4
    <3>2. "supersede" \notin TargetKinds /\ "stage" \in TargetKinds
      BY DEF TargetKinds
    <3> DEFINE O == OfResource(less, id)
               staged == {x.resource : x \in {y \in O : y.kind \in TargetKinds}}
               superseded == {x.resource : x \in {y \in O : y.kind = "supersede"}}
               p == Operation("stage", id, targets[id])
    <3>3. \A x \in O : \E k \in TargetKinds : x = Operation(k, id, targets[id])
      BY <2>1, <3>1, OfTarget
    <3>4. p \in OfResource(plan, id)
      BY <3>2, OfTarget
    <3>5. p.kind = "stage" /\ p.id = id /\ o.kind = "supersede"
      BY <3>1, OperationFields
    <3> HIDE DEF p
    <3>6. p \in O
      BY <2>1, <3>4, <3>5
    <3>7. \A x \in O : x.kind \in TargetKinds /\ x.resource = targets[id]
      BY <3>3, OperationFields
    <3>8. id \in {x.id : x \in less.operations}
      BY <3>5, <3>6 DEF OfResource
    <3>9. "stage" \in KindsOf(less, id)
      BY <3>5, <3>6 DEF KindsOf
    <3>10. id \in Targeted(less)
      BY <3>2, <3>8, <3>9 DEF Targeted
    <3>11. ~TargetComplete(less, base, id)
      <4> HIDE DEF O
      <4>1. superseded = {} /\ staged \subseteq {targets[id]}
        BY <3>2, <3>7
      <4>2. ASSUME TargetComplete(less, base, id) PROVE FALSE
        <5>1. PICK target \in staged :
                (superseded # {}) <=>
                  /\ id \in DOMAIN base.resources
                  /\ Definition(id, base.resources[id]) # Definition(id, target)
          BY <4>2 DEF TargetComplete, O
        <5> HIDE DEF staged, superseded
        <5> QED
          BY <3>1, <4>1, <5>1 DEF Changed
      <4> QED
        BY <4>2
    <3> QED
      BY <3>8, <3>10, <3>11 DEF ReplayPlanValid
  <2> QED
    BY <1>3, <2>2, <2>3, <2>4, OperationsAre
<1>5. Replay(less, base, {}) = {}
  BY <1>2, <1>4 DEF Replay, Applicable
<1> QED
  BY <1>5 DEF less

\* What a replay makes of the resources.
LEMMA ReplayServes ==
  ASSUME NEW run, NEW base, NEW targets, NEW stale, Accepted(run, base, targets, stale)
  PROVE  LET resources == Replayed(PlanOf(run, base, targets, stale), base, {}).resources
         IN /\ Serving(resources) = DOMAIN targets
            /\ \A id \in DOMAIN targets :
                 resources[id] = Metadata(targets[id].content, targets[id].acl, targets[id].source,
                   targets[id].projection, "serving", Succeeded, targets[id].deps, targets[id].record)
            /\ \A id \in Stale(base, targets) :
                 resources[id].state = Terminus(stale) /\ resources[id].record = None
<1> DEFINE plan == PlanOf(run, base, targets, stale)
           resources == Replayed(plan, base, {}).resources
           S == DOMAIN targets \cup Stale(base, targets)
<1>0. stale \in {"revoke", "tombstone"} /\ Shaped(base.resources) /\ Shaped(targets)
  BY AcceptedFacts
<1>a. resources = Results(run, base, targets, stale, {})
  BY <1>0, ReplayedResources
<1>1. resources = [id \in S |-> ResultOf(run, base, targets, stale, {}, id)]
  BY <1>a DEF Results
<1>2. \A id : TargetState(plan, {}, id) = "serving" /\ StatusAfter(plan, {}, id) = Succeeded
  BY DEF TargetState, StatusAfter, Succeeded
<1>3. ASSUME NEW id \in DOMAIN targets
      PROVE  resources[id] = Metadata(targets[id].content, targets[id].acl, targets[id].source,
               targets[id].projection, "serving", Succeeded, targets[id].deps, targets[id].record)
  <2> HIDE DEF resources
  <2> QED
    BY <1>1, <1>2, AcceptedFacts, ResultOfTarget
<1>4. ASSUME NEW id \in Stale(base, targets)
      PROVE  resources[id].state = Terminus(stale) /\ resources[id].record = None
  <2> HIDE DEF resources
  <2>1. resources[id] = Metadata(base.resources[id].content, base.resources[id].acl,
          run.snapshot.version, run.target, Terminus(stale), base.resources[id].status,
          base.resources[id].deps, None)
    BY <1>1, AcceptedFacts, ResultOfStale
  <2> QED
    BY <2>1, MetadataIs
<1>5. DOMAIN resources = S
  BY <1>1
<1> HIDE DEF resources
<1>6. ASSUME NEW id \in DOMAIN targets PROVE IsServing(id, resources[id])
  <2>1. /\ resources[id].state = "serving" /\ resources[id].status = Succeeded
        /\ resources[id].record = targets[id].record
    BY <1>3, MetadataIs
  <2>2. TypeOf[id] = "artifact" => targets[id].record # None
    BY DEF Accepted, Acceptable
  <2>3. Ready(resources[id])
    BY <2>1 DEF Ready, Succeeded
  <2> QED
    BY <2>1, <2>2, <2>3 DEF IsServing
<1>7. ASSUME NEW id \in Stale(base, targets) PROVE ~IsServing(id, resources[id])
  <2>1. Terminus(stale) # "serving"
    BY AcceptedFacts DEF Terminus
  <2> QED
    BY <1>4, <2>1 DEF IsServing
<1>8. Serving(resources) = DOMAIN targets
  BY <1>5, <1>6, <1>7 DEF Serving
<1> QED
  BY <1>3, <1>4, <1>8 DEF resources

LEMMA FailureWithholds ==
  ASSUME NEW run, NEW base, NEW targets, NEW stale, Accepted(run, base, targets, stale),
         NEW failed \in SUBSET PlanOf(run, base, targets, stale).operations, failed # {}
  PROVE  LET resources == Replayed(PlanOf(run, base, targets, stale), base, failed).resources
         IN /\ Serving(resources) = {}
            /\ \A o \in failed : resources[o.id].state = "failed"
<1> DEFINE plan == PlanOf(run, base, targets, stale)
           resources == Replayed(plan, base, failed).resources
           S == DOMAIN targets \cup Stale(base, targets)
<1>0. stale \in {"revoke", "tombstone"} /\ Shaped(base.resources) /\ Shaped(targets)
  BY AcceptedFacts
<1>a. resources = Results(run, base, targets, stale, failed)
  BY <1>0, ReplayedResources
<1>1. resources = [id \in S |-> ResultOf(run, base, targets, stale, failed, id)]
  BY <1>a DEF Results
<1>2. \A id \in S : ResultOf(run, base, targets, stale, failed, id).state # "serving"
  BY <1>0, FailedServesNothing
<1> HIDE DEF resources
<1>3. Serving(resources) = {}
  BY <1>1, <1>2 DEF Serving, IsServing
<1>4. ASSUME NEW o \in failed PROVE resources[o.id].state = "failed"
  <2>1. o \in plan.operations
    OBVIOUS
  <2>2. o.id \in S
    BY <2>1, PlannedIds
  <2>3. CASE o.id \in DOMAIN targets
    <3>1. TargetState(plan, failed, o.id) = "failed"
      BY DEF TargetState
    <3> QED
      BY <1>1, <2>2, <2>3, <3>1, AcceptedFacts, ResultOfTarget, MetadataIs
  <2>4. CASE o.id \in Stale(base, targets)
    <3>1. o \in OfResource(plan, o.id)
      BY <2>1 DEF OfResource
    <3>2. o = StaleOperation(run, base, stale, o.id)
      BY <2>4, <3>1, OfStale DEF StaleOperation
    <3>3. resources[o.id] = Metadata(base.resources[o.id].content, base.resources[o.id].acl,
            run.snapshot.version, run.target,
            IF StaleOperation(run, base, stale, o.id) \in failed THEN "failed" ELSE Terminus(stale),
            base.resources[o.id].status, base.resources[o.id].deps, None)
      BY <1>1, <2>2, <2>4, AcceptedFacts, ResultOfStale
    <3> QED
      BY <3>2, <3>3, MetadataIs
  <2> QED
    BY <2>2, <2>3, <2>4
<1> QED
  BY <1>3, <1>4 DEF resources

-----------------------------------------------------------------------------
\* Planning

Staged(desired) ==
  [id \in DOMAIN desired |-> [desired[id] EXCEPT !.state = "staged", !.status = Pending]]

LEMMA StagedAre ==
  ASSUME NEW desired, Shaped(desired)
  PROVE  /\ DOMAIN Staged(desired) = DOMAIN desired /\ Shaped(Staged(desired))
         /\ \A id \in DOMAIN desired :
              Staged(desired)[id] = Metadata(desired[id].content, desired[id].acl, desired[id].source,
                desired[id].projection, "staged", Pending, desired[id].deps, desired[id].record)
<1>1. \A id \in DOMAIN desired :
        Staged(desired)[id] = Metadata(desired[id].content, desired[id].acl, desired[id].source,
          desired[id].projection, "staged", Pending, desired[id].deps, desired[id].record)
  <2>1. ASSUME NEW id \in DOMAIN desired
        PROVE  Staged(desired)[id] = Metadata(desired[id].content, desired[id].acl, desired[id].source,
                 desired[id].projection, "staged", Pending, desired[id].deps, desired[id].record)
    <3>1. IsResource(desired[id])
      BY DEF Shaped
    <3>2. Staged(desired)[id] = [desired[id] EXCEPT !.state = "staged", !.status = Pending]
      BY DEF Staged
    <3> QED
      BY <3>1, <3>2, InStateAndStatus
  <2> QED
    BY <2>1
<1>2. DOMAIN Staged(desired) = DOMAIN desired
      /\ Staged(desired) = [id \in DOMAIN Staged(desired) |-> Staged(desired)[id]]
  BY DEF Staged
<1>3. \A id \in DOMAIN desired : IsResource(Staged(desired)[id])
  BY <1>1, MetadataIs
<1> QED
  BY <1>1, <1>2, <1>3 DEF Shaped

\* The security records of artifacts have their fields.
RecordShaped(s) ==
  /\ s = [artifact |-> s.artifact, mode |-> s.mode, groups |-> s.groups]
  /\ \A g \in s.groups : g = [complete |-> g.complete, pins |-> g.pins]

\* The records of claims do.
ClaimShaped(c) ==
  /\ c = [bound |-> c.bound, endpoints |-> c.endpoints, document |-> c.document,
          mode |-> c.mode, groups |-> c.groups]
  /\ \A g \in c.groups : g = [complete |-> g.complete, evidence |-> g.evidence]

Recorded(resources) ==
  /\ DOMAIN resources \subseteq Id
  /\ \A id \in DOMAIN resources :
       /\ (TypeOf[id] = "artifact" /\ resources[id].record # None) => RecordShaped(resources[id].record)
       /\ (TypeOf[id] = "claim" /\ resources[id].record # None) => ClaimShaped(resources[id].record)

\* The resources of a catalog have the versions of one access list.
OneAcl ==
  /\ \A f \in Founding : \A x, y \in DOMAIN CatalogOf(f.workspace, InitialRun) :
       CatalogOf(f.workspace, InitialRun)[x].acl = CatalogOf(f.workspace, InitialRun)[y].acl
  /\ \A w \in Workspace, v \in 0 .. MaxVersion : \A x, y \in DOMAIN CatalogOf(w, ScanRun(v, w)) :
       CatalogOf(w, ScanRun(v, w))[x].acl = CatalogOf(w, ScanRun(v, w))[y].acl

\* What a resource rests on: a claim not on its endpoints.
EvidenceIds(c) == {e.pin.id : e \in UNION {g.evidence : g \in c.groups}}

RestsOn(id, r) ==
  IF TypeOf[id] = "claim" THEN {r.record.document.id} \cup EvidenceIds(r.record) ELSE r.deps

\* No resources rest on themselves, and they have one access list.
Grounded(resources, ids) ==
  /\ \A id \in ids : TypeOf[id] = "claim" => resources[id].record # None
  /\ \A S \in (SUBSET ids) \ {{}} : \E id \in S : RestsOn(id, resources[id]) \cap S = {}
  /\ OneAcl => \A x, y \in ids : resources[x].acl = resources[y].acl

\* What a step of the lifecycle starts from.
BaseInv ==
  /\ current.version \in 0 .. MaxVersion /\ current.state = "serving"
  /\ Shaped(current.resources) /\ Recorded(current.resources)
  /\ ProjectionValid(current)
  /\ Grounded(current.resources, Serving(current.resources))
  /\ \A a \in current.applied : a.plan.run.target \in 0 .. current.version

LEMMA PlanIsAccepted ==
  ASSUME BaseInv, NEW run, run.target = current.version + 1, NEW desired, Shaped(desired),
         NEW stale \in {"revoke", "tombstone"},
         NEW plan \in PlanResources(run, current, desired, stale)
  PROVE  Accepted(run, current, Staged(desired), stale) /\ plan = PlanOf(run, current, Staged(desired), stale)
<1> DEFINE targets == Staged(desired)
<1>1. /\ PlannableRun(run, current)
      /\ \A id \in DOMAIN targets : Acceptable(run, id, targets[id])
      /\ ProjectionValid(Replacement(run, current, targets, stale))
      /\ plan = [run |-> run, operations |-> Operations(run, current, targets, stale)]
  BY DEF PlanResources, Staged
<1>2. Shaped(targets) /\ DOMAIN targets = DOMAIN desired
  BY StagedAre
<1>3. \A id \in DOMAIN targets : targets[id].state = "staged" /\ targets[id].status = Pending
  <2>1. ASSUME NEW id \in DOMAIN desired PROVE targets[id].state = "staged" /\ targets[id].status = Pending
    BY StagedAre, MetadataIs
  <2> QED
    BY <1>2, <2>1
<1>4. \A a \in current.applied : a.plan.run.target # run.target
  BY DEF BaseInv
<1>5. Shaped(current.resources)
  BY DEF BaseInv
<1> HIDE DEF targets
<1>6. Accepted(run, current, targets, stale) /\ plan = PlanOf(run, current, targets, stale)
  BY <1>1, <1>2, <1>3, <1>4, <1>5 DEF Accepted, PlanOf
<1> QED
  BY <1>6 DEF targets

-----------------------------------------------------------------------------
\* The end of a run

Finished(kind, input, base, plan, failed) ==
  [kind |-> kind, input |-> input, base |-> base, plan |-> plan, failed |-> failed,
   outcome |-> IF failed = {} THEN "succeeded" ELSE "failed",
   result |-> Replayed(plan, base, failed)]

LEMMA FinishedIs ==
  ASSUME NEW kind, NEW input, NEW base, NEW plan, NEW failed
  PROVE  LET run == Finished(kind, input, base, plan, failed)
         IN /\ run.kind = kind /\ run.input = input /\ run.base = base /\ run.plan = plan
            /\ run.failed = failed
            /\ run.outcome = IF failed = {} THEN "succeeded" ELSE "failed"
            /\ run.result = Replayed(plan, base, failed)
BY DEF Finished

LEMMA FinishIs ==
  ASSUME NEW kind, NEW input, NEW run, NEW targets, NEW stale, NEW failed,
         Accepted(run, current, targets, stale),
         Finish(kind, input, PlanOf(run, current, targets, stale), failed)
  PROVE  LET plan == PlanOf(run, current, targets, stale)
         IN /\ last' = Finished(kind, input, current, plan, failed)
            /\ failed # {} => current' = current
            /\ failed = {} /\ kind = "build" => current' = PublicProjection(run, input)
            /\ failed = {} /\ kind # "build" => current' = Replayed(plan, current, {})
<1> DEFINE plan == PlanOf(run, current, targets, stale)
           r == [projection |-> Replayed(plan, current, failed), noop |-> FALSE,
                 state |-> IF failed = {} THEN "succeeded" ELSE "failed"]
<1>1. Replay(plan, current, failed) = {r}
  BY ReplayIs
<1>2. r.projection = Replayed(plan, current, failed)
      /\ r.state = IF failed = {} THEN "succeeded" ELSE "failed"
  OBVIOUS
<1>3. plan.run = run
  BY DEF PlanOf
<1>4. Finish(kind, input, plan, failed)
  OBVIOUS
<1> HIDE DEF r, plan
<1>5. (CHOOSE x \in {r} : TRUE) = r /\ {r} # {}
  OBVIOUS
<1>6. /\ last' = [kind |-> kind, input |-> input, base |-> current, plan |-> plan,
                  failed |-> failed, outcome |-> r.state, result |-> r.projection]
      /\ current' = IF r.state # "succeeded" THEN current
                    ELSE IF kind = "build" THEN PublicProjection(plan.run, input)
                    ELSE r.projection
  BY <1>1, <1>4, <1>5 DEF Finish
<1>7. last' = Finished(kind, input, current, plan, failed)
  BY <1>2, <1>6 DEF Finished
<1>8. ASSUME failed # {} PROVE current' = current
  <2>1. r.state # "succeeded"
    BY <1>2, <1>8
  <2> QED
    BY <1>6, <2>1
<1>9. (failed = {} /\ kind = "build") => current' = PublicProjection(run, input)
  BY <1>2, <1>3, <1>6
<1>10. (failed = {} /\ kind # "build") => current' = Replayed(plan, current, {})
  BY <1>2, <1>6
<1> QED
  BY <1>7, <1>8, <1>9, <1>10 DEF plan

-----------------------------------------------------------------------------
\* What is planned for has metadata

LEMMA CatalogShaped ==
  ASSUME NEW catalog
  PROVE  Shaped(ResourceMetadata(catalog))
<1> DEFINE m == ResourceMetadata(catalog)
<1>1. m = [id \in DOMAIN m |-> m[id]]
  BY DEF ResourceMetadata
<1>2. ASSUME NEW id \in DOMAIN m PROVE IsResource(m[id])
  <2> DEFINE item == catalog[id]
             deps == CatalogDependencies(id, item)
             record == CASE TypeOf[id] = "claim" -> ClaimRecord(item)
                         [] TypeOf[id] = "artifact" -> item.record
                         [] OTHER -> None
  <2>1. m[id] = Metadata(item.content, item.acl, item.source, item.projection, "staged", Pending,
                         deps, record)
    BY DEF ResourceMetadata, Metadata
  <2> HIDE DEF m, item, deps, record
  <2> QED
    BY <2>1, MetadataIs
<1> HIDE DEF m
<1> QED
  BY <1>1, <1>2 DEF Shaped, m

LEMMA ResourceIs ==
  ASSUME NEW run, NEW content, NEW deps, NEW record
  PROVE  Resource(run, content, deps, record)
           = Metadata(content, 0, run.snapshot.version, run.target, "staged", Pending, deps, record)
BY DEF Resource, Metadata

LEMMA MaterializedShaped ==
  ASSUME NEW run, NEW sources
  PROVE  Shaped(Materialized(run, sources))
<1> DEFINE documents == DOMAIN sources
           chunks == ChunksOf(sources)
           part == {<<d, Resource(run, sources[d].content, {}, None)>> : d \in documents} \cup
              {<<EntityOf[d], EntityOfDocument(run, sources, d)>> : d \in documents} \cup
              {<<c, Resource(run, ChunkText(sources, c), {ParentOf[c]}, None)>> : c \in chunks} \cup
              {<<StatementOf[c], Resource(run, ChunkText(sources, c), {c}, None)>> : c \in chunks} \cup
              {<<ClaimOf[c], ClaimOfChunk(run, sources, c)>> : c \in chunks} \cup
              {<<Bundle, BundleOf(run, sources)>>}
           m == [id \in {p[1] : p \in part} |-> (CHOOSE p \in part : p[1] = id)[2]]
<1>1. Materialized(run, sources) = m
  BY DEF Materialized
<1>2. \A content, deps, record : IsResource(Resource(run, content, deps, record))
  BY ResourceIs, MetadataIs
<1>3. \A d : IsResource(EntityOfDocument(run, sources, d))
  BY <1>2 DEF EntityOfDocument
<1>4. \A c : IsResource(ClaimOfChunk(run, sources, c))
  BY <1>2 DEF ClaimOfChunk
<1>5. IsResource(BundleOf(run, sources))
  <2> DEFINE pins == {DocumentPin(run, sources, d) : d \in DOMAIN sources} \cup
                     {ChunkPin(run, sources, c) : c \in ChunksOf(sources)}
             summary == Resource(run, SummaryOf(Cardinality(DOMAIN sources), Cardinality(ChunksOf(sources))),
                                 {p.id : p \in pins}, None)
             record == [artifact |-> Pin(Bundle, summary), mode |-> "all_required",
                        groups |-> {[complete |-> TRUE, pins |-> pins]}]
  <2>1. BundleOf(run, sources) = [summary EXCEPT !.record = record]
    BY DEF BundleOf
  <2>2. IsResource(summary)
    BY <1>2
  <2> HIDE DEF summary, record
  <2>3. [summary EXCEPT !.record = record]
          = Metadata(summary.content, summary.acl, summary.source, summary.projection,
                     summary.state, summary.status, summary.deps, record)
    BY <2>2 DEF IsResource, Metadata
  <2> QED
    BY <2>1, <2>3, MetadataIs
<1>6. \A p \in part : \E x, y : p = <<x, y>> /\ IsResource(y)
  <2>1. \A d \in documents : IsResource(Resource(run, sources[d].content, {}, None))
                            /\ IsResource(EntityOfDocument(run, sources, d))
    BY <1>2, <1>3
  <2>2. \A c \in chunks : /\ IsResource(Resource(run, ChunkText(sources, c), {ParentOf[c]}, None))
                          /\ IsResource(Resource(run, ChunkText(sources, c), {c}, None))
                          /\ IsResource(ClaimOfChunk(run, sources, c))
    BY <1>2, <1>4
  <2> QED
    BY <2>1, <2>2, <1>5
<1> HIDE DEF part
<1>7. ASSUME NEW id \in DOMAIN m PROVE IsResource(m[id])
  <2>1. \E p \in part : p[1] = id
    OBVIOUS
  <2>2. (CHOOSE p \in part : p[1] = id) \in part
    BY <2>1
  <2> QED
    BY <1>6, <2>2
<1>8. m = [id \in DOMAIN m |-> m[id]]
  OBVIOUS
<1> HIDE DEF m
<1> QED
  BY <1>1, <1>7, <1>8 DEF Shaped

\* What a resource that a revocation keeps rests on, and its record.
CarriedDeps(run, id, base, selected) ==
  LET r == base.resources[id]
  IN IF TypeOf[id] = "artifact" /\ r.record # None
     THEN {p.id : p \in UNION {g.pins : g \in ReboundGroups(run, r.record, selected, base.resources)}}
     ELSE r.deps

CarriedRecord(run, id, base, selected) ==
  LET r == base.resources[id]
  IN IF TypeOf[id] = "claim" /\ r.record # None THEN ReboundClaim(run, r.record)
     ELSE IF TypeOf[id] = "artifact" /\ r.record # None
     THEN [r.record EXCEPT !.groups = ReboundGroups(run, r.record, selected, base.resources),
                           !.artifact.projection = run.target]
     ELSE r.record

LEMMA CarriedIs ==
  ASSUME NEW run, NEW id, NEW base, NEW selected, IsResource(base.resources[id])
  PROVE  LET r == base.resources[id]
         IN CarriedForward(run, id, base, selected)
              = Metadata(r.content, r.acl, r.source, run.target, r.state, r.status,
                         CarriedDeps(run, id, base, selected), CarriedRecord(run, id, base, selected))
<1> DEFINE r == base.resources[id]
           a == [r EXCEPT !.projection = run.target]
<1> HIDE DEF r
<1>1. a = Metadata(r.content, r.acl, r.source, run.target, r.state, r.status, r.deps, r.record)
  BY DEF IsResource, Metadata, r
<1>2. ASSUME NEW x
      PROVE  [r EXCEPT !.projection = run.target, !.record = x]
               = Metadata(r.content, r.acl, r.source, run.target, r.state, r.status, r.deps, x)
  <2>1. [r EXCEPT !.projection = run.target, !.record = x] = [a EXCEPT !.record = x]
    BY DEF IsResource, Metadata, r
  <2>2. [a EXCEPT !.record = x] =
          Metadata(r.content, r.acl, r.source, run.target, r.state, r.status, r.deps, x)
    <3> HIDE DEF a
    <3> QED
      BY <1>1 DEF Metadata
  <2> HIDE DEF a
  <2> QED
    BY <2>1, <2>2
<1>3. ASSUME NEW y, NEW x
      PROVE  [r EXCEPT !.projection = run.target, !.deps = y, !.record = x]
               = Metadata(r.content, r.acl, r.source, run.target, r.state, r.status, y, x)
  <2> DEFINE b == [a EXCEPT !.deps = y]
             c == [b EXCEPT !.record = x]
  <2>1. [r EXCEPT !.projection = run.target, !.deps = y, !.record = x] = c
    BY DEF IsResource, Metadata, r
  <2>2. b = Metadata(r.content, r.acl, r.source, run.target, r.state, r.status, y, r.record)
    <3> HIDE DEF a
    <3> QED
      BY <1>1 DEF Metadata
  <2> HIDE DEF b
  <2>3. c = Metadata(r.content, r.acl, r.source, run.target, r.state, r.status, y, x)
    BY <2>2 DEF Metadata
  <2> QED
    BY <2>1, <2>3
<1>4. CASE TypeOf[id] = "claim" /\ r.record # None
  <2>1. CarriedForward(run, id, base, selected)
          = [r EXCEPT !.projection = run.target, !.record = ReboundClaim(run, @)]
    BY <1>4 DEF CarriedForward, r
  <2>2. [r EXCEPT !.projection = run.target, !.record = ReboundClaim(run, @)]
          = [r EXCEPT !.projection = run.target, !.record = ReboundClaim(run, r.record)]
    BY DEF IsResource, Metadata, r
  <2>3. [r EXCEPT !.projection = run.target, !.record = ReboundClaim(run, r.record)]
          = Metadata(r.content, r.acl, r.source, run.target, r.state, r.status, r.deps,
                     ReboundClaim(run, r.record))
    BY <1>2
  <2>4. /\ CarriedDeps(run, id, base, selected) = r.deps
        /\ CarriedRecord(run, id, base, selected) = ReboundClaim(run, r.record)
    BY <1>4 DEF CarriedDeps, CarriedRecord, r
  <2> QED
    BY <2>1, <2>2, <2>3, <2>4 DEF r
<1>5. CASE TypeOf[id] = "artifact" /\ r.record # None
  <2> DEFINE groups == ReboundGroups(run, r.record, selected, base.resources)
             deps == {p.id : p \in UNION {g.pins : g \in groups}}
             record == [r.record EXCEPT !.groups = groups, !.artifact.projection = run.target]
  <2>1. CarriedForward(run, id, base, selected) = ReboundArtifact(run, r, selected, base.resources)
    BY <1>5 DEF CarriedForward, r
  <2>2. ReboundArtifact(run, r, selected, base.resources)
          = [r EXCEPT !.projection = run.target, !.deps = deps,
                      !.record = [@ EXCEPT !.groups = groups, !.artifact.projection = run.target]]
    BY DEF ReboundArtifact
  <2>3. CarriedDeps(run, id, base, selected) = deps /\ CarriedRecord(run, id, base, selected) = record
    BY <1>5 DEF CarriedDeps, CarriedRecord, r
  <2> HIDE DEF groups, deps
  <2>4. [r EXCEPT !.projection = run.target, !.deps = deps,
                  !.record = [@ EXCEPT !.groups = groups, !.artifact.projection = run.target]]
          = [r EXCEPT !.projection = run.target, !.deps = deps, !.record = record]
    BY DEF IsResource, Metadata, r
  <2> HIDE DEF record
  <2>5. [r EXCEPT !.projection = run.target, !.deps = deps, !.record = record]
          = Metadata(r.content, r.acl, r.source, run.target, r.state, r.status, deps, record)
    BY <1>3
  <2> QED
    BY <2>1, <2>2, <2>3, <2>4, <2>5 DEF r
<1>6. CASE ~(TypeOf[id] = "claim" /\ r.record # None) /\ ~(TypeOf[id] = "artifact" /\ r.record # None)
  <2>1. CarriedForward(run, id, base, selected) = a
    BY <1>6 DEF CarriedForward, r
  <2>2. CarriedDeps(run, id, base, selected) = r.deps /\ CarriedRecord(run, id, base, selected) = r.record
    BY <1>6 DEF CarriedDeps, CarriedRecord, r
  <2> HIDE DEF a
  <2> QED
    BY <1>1, <2>1, <2>2 DEF r
<1> QED
  BY <1>4, <1>5, <1>6

-----------------------------------------------------------------------------
\* The records of what is planned for

LEMMA StagedRecorded ==
  ASSUME NEW desired, Shaped(desired), Recorded(desired)
  PROVE  Recorded(Staged(desired))
<1>1. /\ DOMAIN Staged(desired) = DOMAIN desired
      /\ \A id \in DOMAIN desired :
           Staged(desired)[id] = Metadata(desired[id].content, desired[id].acl, desired[id].source,
             desired[id].projection, "staged", Pending, desired[id].deps, desired[id].record)
  BY StagedAre
<1>2. \A id \in DOMAIN desired : Staged(desired)[id].record = desired[id].record
  BY <1>1, MetadataIs
<1> QED
  BY <1>1, <1>2 DEF Recorded

LEMMA GroundedLike ==
  ASSUME NEW a, NEW b, NEW I, NEW J, J \subseteq I, Grounded(a, I),
         \A id \in J : /\ b[id].acl = a[id].acl
                       /\ TypeOf[id] = "claim" => b[id].record # None
                       /\ RestsOn(id, b[id]) \subseteq RestsOn(id, a[id])
  PROVE  Grounded(b, J)
<1>1. ASSUME NEW S \in (SUBSET J) \ {{}}
      PROVE  \E id \in S : RestsOn(id, b[id]) \cap S = {}
  <2>1. S \in (SUBSET I) \ {{}}
    OBVIOUS
  <2>2. PICK id \in S : RestsOn(id, a[id]) \cap S = {}
    BY <2>1 DEF Grounded
  <2>3. RestsOn(id, b[id]) \subseteq RestsOn(id, a[id])
    OBVIOUS
  <2> QED
    BY <2>2, <2>3
<1>2. OneAcl => \A x, y \in J : b[x].acl = b[y].acl
  BY DEF Grounded
<1> QED
  BY <1>1, <1>2 DEF Grounded

LEMMA SameGrounds ==
  ASSUME NEW a, NEW b, NEW I, NEW J, J \subseteq I, Grounded(a, I),
         \A id \in J : /\ b[id].acl = a[id].acl /\ b[id].deps = a[id].deps
                       /\ TypeOf[id] = "claim" => b[id].record = a[id].record
  PROVE  Grounded(b, J)
<1>1. \A id \in J : RestsOn(id, b[id]) = RestsOn(id, a[id])
  BY DEF RestsOn
<1>2. \A id \in J : TypeOf[id] = "claim" => b[id].record # None
  BY DEF Grounded
<1> QED
  BY <1>1, <1>2, GroundedLike

LEMMA StagedGrounded ==
  ASSUME NEW desired, Shaped(desired), Grounded(desired, DOMAIN desired)
  PROVE  Grounded(Staged(desired), DOMAIN Staged(desired))
<1>1. /\ DOMAIN Staged(desired) = DOMAIN desired
      /\ \A id \in DOMAIN desired :
           Staged(desired)[id] = Metadata(desired[id].content, desired[id].acl, desired[id].source,
             desired[id].projection, "staged", Pending, desired[id].deps, desired[id].record)
  BY StagedAre
<1>2. \A id \in DOMAIN desired : /\ Staged(desired)[id].record = desired[id].record
                                 /\ Staged(desired)[id].deps = desired[id].deps
                                 /\ Staged(desired)[id].acl = desired[id].acl
  BY <1>1, MetadataIs
<1> QED
  BY <1>1, <1>2, SameGrounds

LEMMA CatalogMetadataIs ==
  ASSUME NEW catalog, NEW id \in DOMAIN catalog
  PROVE  LET r == ResourceMetadata(catalog)[id]
         IN /\ r.acl = catalog[id].acl
            /\ r.deps = CatalogDependencies(id, catalog[id])
            /\ TypeOf[id] = "claim" => r.record = ClaimRecord(catalog[id])
            /\ TypeOf[id] = "artifact" => r.record = catalog[id].record
<1> DEFINE item == catalog[id]
           deps == CatalogDependencies(id, item)
           record == CASE TypeOf[id] = "claim" -> ClaimRecord(item)
                       [] TypeOf[id] = "artifact" -> item.record
                       [] OTHER -> None
<1>1. ResourceMetadata(catalog)[id]
        = Metadata(item.content, item.acl, item.source, item.projection, "staged", Pending, deps, record)
  BY DEF ResourceMetadata, Metadata
<1>2. TypeOf[id] = "claim" => record = ClaimRecord(item)
  OBVIOUS
<1>3. TypeOf[id] = "artifact" => record = item.record
  OBVIOUS
<1> HIDE DEF record, deps
<1> QED
  BY <1>1, <1>2, <1>3, MetadataIs DEF deps

LEMMA CatalogGrounded ==
  ASSUME NEW catalog, Catalogued(catalog), CatalogValid(catalog),
         OneAcl => \A x, y \in DOMAIN catalog : catalog[x].acl = catalog[y].acl
  PROVE  Grounded(ResourceMetadata(catalog), DOMAIN ResourceMetadata(catalog))
<1> DEFINE m == ResourceMetadata(catalog)
<1>1. DOMAIN m = DOMAIN catalog /\ DOMAIN catalog \subseteq Id
  BY DEF ResourceMetadata, Catalogued
<1>2. ASSUME NEW id \in DOMAIN catalog, TypeOf[id] = "claim"
      PROVE  /\ m[id].record # None
             /\ RestsOn(id, m[id]) = {catalog[id].document.id} \cup {e.pin.id : e \in EvidenceOf(catalog[id])}
             /\ TypeOf[catalog[id].document.id] = "document"
  <2>1. m[id].record = ClaimRecord(catalog[id])
    BY <1>2, CatalogMetadataIs
  <2>2. ClaimRecord(catalog[id]) # None
    BY DEF ClaimRecord, None
  <2>3. ClaimRecord(catalog[id]).document = catalog[id].document
        /\ ClaimRecord(catalog[id]).groups = catalog[id].groups
    BY DEF ClaimRecord
  <2>4. TypeOf[catalog[id].document.id] = "document"
    BY <1>2 DEF CatalogValid, DocumentResolves
  <2> HIDE DEF m
  <2> QED
    BY <1>2, <2>1, <2>2, <2>3, <2>4 DEF RestsOn, EvidenceIds, EvidenceOf
<1>3. ASSUME NEW id \in DOMAIN catalog, TypeOf[id] # "claim"
      PROVE  RestsOn(id, m[id]) = CatalogDependencies(id, catalog[id])
  BY <1>3, CatalogMetadataIs DEF RestsOn
<1>4. \A id \in DOMAIN catalog : m[id].acl = catalog[id].acl
  BY CatalogMetadataIs
<1> HIDE DEF m
<1>5. ASSUME NEW S \in (SUBSET DOMAIN catalog) \ {{}}
      PROVE  \E id \in S : RestsOn(id, m[id]) \cap S = {}
  <2>1. CASE \E id \in S : TypeOf[id] = "document"
    <3>1. PICK id \in S : TypeOf[id] = "document"
      BY <2>1
    <3>2. catalog[id].groups = {}
      BY <3>1 DEF CatalogValid, ItemValid
    <3>3. CatalogDependencies(id, catalog[id]) = {}
      BY <3>1, <3>2 DEF CatalogDependencies, EvidenceOf
    <3> QED
      BY <1>3, <3>1, <3>3
  <2>2. CASE \A id \in S : TypeOf[id] # "document"
    <3>1. CASE \E id \in S : TypeOf[id] = "chunk"
      <4>1. PICK id \in S : TypeOf[id] = "chunk"
        BY <3>1
      <4>2. catalog[id].groups = {} /\ TypeOf[catalog[id].document.id] = "document"
        BY <4>1 DEF CatalogValid, ItemValid, DocumentResolves
      <4>3. CatalogDependencies(id, catalog[id]) = {catalog[id].document.id}
        BY <4>1, <4>2 DEF CatalogDependencies, EvidenceOf
      <4>4. RestsOn(id, m[id]) = {catalog[id].document.id}
        BY <1>3, <4>1, <4>3
      <4>5. catalog[id].document.id \notin S
        BY <2>2, <4>2
      <4> QED
        BY <4>4, <4>5
    <3>2. CASE \A id \in S : TypeOf[id] # "chunk"
      <4>1. S \in (SUBSET Derived(catalog)) \ {{}}
        <5>1. \A id \in S : id \in DOMAIN catalog /\ TypeOf[id] \in {"entity", "claim", "artifact"}
          BY <1>1, <2>2, <3>2, CatalogProjectionAssumption
        <5> QED
          BY <5>1 DEF Derived
      <4>2. PICK id \in S : \A e \in EvidenceOf(catalog[id]) : e.pin.id \notin S
        BY <4>1 DEF CatalogValid, ProvenanceAcyclic
      <4>3. CASE TypeOf[id] = "claim"
        <5>1. /\ RestsOn(id, m[id]) = {catalog[id].document.id} \cup {e.pin.id : e \in EvidenceOf(catalog[id])}
              /\ TypeOf[catalog[id].document.id] = "document"
          BY <1>2, <4>3
        <5>2. catalog[id].document.id \notin S
          BY <2>2, <5>1
        <5> QED
          BY <4>2, <5>1, <5>2
      <4>4. CASE TypeOf[id] # "claim"
        <5>1. CatalogDependencies(id, catalog[id]) = {e.pin.id : e \in EvidenceOf(catalog[id])}
          BY <3>2, <4>4 DEF CatalogDependencies
        <5> QED
          BY <1>3, <4>2, <4>4, <5>1
      <4> QED
        BY <4>3, <4>4
    <3> QED
      BY <3>1, <3>2
  <2> QED
    BY <2>1, <2>2
<1>6. OneAcl => \A x, y \in DOMAIN catalog : m[x].acl = m[y].acl
  BY <1>4
<1>7. \A id \in DOMAIN catalog : TypeOf[id] = "claim" => m[id].record # None
  BY <1>2
<1>8. Grounded(m, DOMAIN m)
  BY <1>1, <1>5, <1>6, <1>7 DEF Grounded
<1> QED
  BY <1>8 DEF m

LEMMA CatalogRecorded ==
  ASSUME NEW catalog, Catalogued(catalog), CatalogValid(catalog)
  PROVE  Recorded(ResourceMetadata(catalog))
<1> DEFINE m == ResourceMetadata(catalog)
<1>1. DOMAIN m = DOMAIN catalog
  BY DEF ResourceMetadata
<1>2. ASSUME NEW id \in DOMAIN catalog, TypeOf[id] = "artifact"
      PROVE  m[id].record = catalog[id].record
  BY <1>2, CatalogMetadataIs
<1>3. ASSUME NEW id \in DOMAIN catalog, TypeOf[id] = "artifact", catalog[id].record # None
      PROVE  RecordShaped(catalog[id].record)
  <2> DEFINE s == catalog[id].record
  <2>1. s = [artifact |-> s.artifact, mode |-> s.mode, groups |-> s.groups]
    BY <1>3 DEF Catalogued
  <2>2. s.groups = {[complete |-> g.complete, pins |-> {e.pin : e \in g.evidence}] :
                      g \in catalog[id].groups}
    BY <1>3 DEF CatalogValid, ItemValid
  <2> HIDE DEF s
  <2>3. \A g \in s.groups : g = [complete |-> g.complete, pins |-> g.pins]
    BY <2>2
  <2> QED
    BY <2>1, <2>3 DEF RecordShaped, s
<1>4. DOMAIN catalog \subseteq Id
  BY DEF Catalogued
<1>5. ASSUME NEW id \in DOMAIN catalog, TypeOf[id] = "claim"
      PROVE  ClaimShaped(m[id].record)
  <2> DEFINE c == ClaimRecord(catalog[id])
  <2>1. m[id].record = c
    BY <1>5, CatalogMetadataIs
  <2>2. c = [bound |-> c.bound, endpoints |-> c.endpoints, document |-> c.document,
             mode |-> c.mode, groups |-> c.groups] /\ c.groups = catalog[id].groups
    BY DEF ClaimRecord
  <2>3. \A g \in catalog[id].groups : g = [complete |-> g.complete, evidence |-> g.evidence]
    BY DEF Catalogued
  <2> HIDE DEF c, m
  <2> QED
    BY <2>1, <2>2, <2>3 DEF ClaimShaped
<1> HIDE DEF m
<1> QED
  BY <1>1, <1>2, <1>3, <1>4, <1>5 DEF Recorded, m

LEMMA BundleRecorded ==
  ASSUME NEW run, NEW sources
  PROVE  RecordShaped(BundleOf(run, sources).record)
<1> DEFINE pins == {DocumentPin(run, sources, d) : d \in DOMAIN sources} \cup
                   {ChunkPin(run, sources, c) : c \in ChunksOf(sources)}
           summary == Resource(run, SummaryOf(Cardinality(DOMAIN sources), Cardinality(ChunksOf(sources))),
                               {p.id : p \in pins}, None)
           group == [complete |-> TRUE, pins |-> pins]
           record == [artifact |-> Pin(Bundle, summary), mode |-> "all_required", groups |-> {group}]
<1>1. BundleOf(run, sources) = [summary EXCEPT !.record = record]
  BY DEF BundleOf
<1>2. "record" \in DOMAIN summary
  BY DEF Resource
<1> HIDE DEF summary
<1>3. BundleOf(run, sources).record = record
  <2> HIDE DEF record
  <2> QED
    BY <1>1, <1>2
<1>4. RecordShaped(record)
  <2> HIDE DEF pins
  <2>1. group = [complete |-> group.complete, pins |-> group.pins]
    OBVIOUS
  <2> HIDE DEF group
  <2> QED
    BY <2>1 DEF RecordShaped
<1> QED
  BY <1>3, <1>4

LEMMA ChunksKnown ==
  ASSUME NEW sources \in SourceSet, NEW c \in ChunksOf(sources)
  PROVE  /\ c \in Id /\ TypeOf[c] = "chunk"
         /\ StatementOf[c] \in Id /\ TypeOf[StatementOf[c]] = "entity"
         /\ ClaimOf[c] \in Id /\ TypeOf[ClaimOf[c]] = "claim"
         /\ ParentOf[c] \in DOMAIN sources /\ c \in DOMAIN sources[ParentOf[c]].chunks
<1>1. PICK d \in DOMAIN sources : c \in DOMAIN sources[d].chunks
  BY DEF ChunksOf
<1>2. c \in DOMAIN ClaimOf /\ ParentOf[c] = d
  BY <1>1, CatalogLifecycleAssumption
<1> QED
  BY <1>1, <1>2, MaterializationAssumption

LEMMA DocumentsKnown ==
  ASSUME NEW sources \in SourceSet, NEW d \in DOMAIN sources
  PROVE  /\ d \in Id /\ TypeOf[d] = "document"
         /\ EntityOf[d] \in Id /\ TypeOf[EntityOf[d]] = "entity"
BY CatalogLifecycleAssumption, MaterializationAssumption

LEMMA ClaimOfChunkIs ==
  ASSUME NEW run, NEW sources, NEW c
  PROVE  LET r == ClaimOfChunk(run, sources, c)
         IN /\ ClaimShaped(r.record) /\ r.record # None /\ r.acl = 0
            /\ r.record.document.id = ParentOf[c]
            /\ EvidenceIds(r.record) = {c}
<1> DEFINE document == DocumentPin(run, sources, ParentOf[c])
           endpoints == {StatementOf[c], EntityOf[ParentOf[c]]}
           e == [pin |-> ChunkPin(run, sources, c), document |-> document]
           group == [complete |-> TRUE, evidence |-> {e}]
           record == [bound |-> TRUE, endpoints |-> endpoints, document |-> document,
                      mode |-> "any_support", groups |-> {group}]
           deps == {ParentOf[c], c} \cup endpoints
<1>1. ClaimOfChunk(run, sources, c) = Resource(run, ChunkText(sources, c), deps, record)
  BY DEF ClaimOfChunk
<1>2. e.pin.id = c /\ document.id = ParentOf[c]
  BY DEF ChunkPin, DocumentPin, Pin
<1> HIDE DEF document, endpoints, e
<1>3. group = [complete |-> group.complete, evidence |-> group.evidence] /\ group.evidence = {e}
  OBVIOUS
<1> HIDE DEF group
<1>4. /\ record.document = document /\ record.groups = {group}
      /\ record = [bound |-> record.bound, endpoints |-> record.endpoints, document |-> record.document,
                   mode |-> record.mode, groups |-> record.groups]
  OBVIOUS
<1>5. record # None
  BY DEF None
<1> HIDE DEF record, deps
<1>6. ClaimOfChunk(run, sources, c).record = record /\ ClaimOfChunk(run, sources, c).acl = 0
  BY <1>1, ResourceIs, MetadataIs
<1>7. EvidenceIds(record) = {c}
  BY <1>2, <1>3, <1>4 DEF EvidenceIds
<1>8. ClaimShaped(record)
  BY <1>3, <1>4 DEF ClaimShaped
<1> QED
  BY <1>2, <1>4, <1>5, <1>6, <1>7, <1>8

\* The parts of a build.
ClaimPart(run, sources, id, r) ==
  /\ TypeOf[id] = "claim"
  /\ \E c \in ChunksOf(sources) : id = ClaimOf[c] /\ r = ClaimOfChunk(run, sources, c)

BundlePart(run, sources, id, r) ==
  TypeOf[id] = "artifact" /\ id = Bundle /\ r = BundleOf(run, sources)

PartOf(run, sources, id, r) ==
  \/ /\ id \in DOMAIN sources /\ TypeOf[id] = "document"
     /\ r = Resource(run, sources[id].content, {}, None)
  \/ /\ TypeOf[id] = "entity"
     /\ \E d \in DOMAIN sources : id = EntityOf[d] /\ r = EntityOfDocument(run, sources, d)
  \/ /\ id \in ChunksOf(sources) /\ TypeOf[id] = "chunk"
     /\ r = Resource(run, ChunkText(sources, id), {ParentOf[id]}, None)
  \/ /\ TypeOf[id] = "entity"
     /\ \E c \in ChunksOf(sources) :
          id = StatementOf[c] /\ r = Resource(run, ChunkText(sources, c), {c}, None)
  \/ ClaimPart(run, sources, id, r)
  \/ BundlePart(run, sources, id, r)

LEMMA MaterializedIs ==
  ASSUME NEW run, NEW sources \in SourceSet, NEW id \in DOMAIN Materialized(run, sources)
  PROVE  PartOf(run, sources, id, Materialized(run, sources)[id])
<1> DEFINE documents == DOMAIN sources
           chunks == ChunksOf(sources)
           part == {<<d, Resource(run, sources[d].content, {}, None)>> : d \in documents} \cup
              {<<EntityOf[d], EntityOfDocument(run, sources, d)>> : d \in documents} \cup
              {<<c, Resource(run, ChunkText(sources, c), {ParentOf[c]}, None)>> : c \in chunks} \cup
              {<<StatementOf[c], Resource(run, ChunkText(sources, c), {c}, None)>> : c \in chunks} \cup
              {<<ClaimOf[c], ClaimOfChunk(run, sources, c)>> : c \in chunks} \cup
              {<<Bundle, BundleOf(run, sources)>>}
           m == [x \in {p[1] : p \in part} |-> (CHOOSE p \in part : p[1] = x)[2]]
           p == CHOOSE p \in part : p[1] = id
<1>1. Materialized(run, sources) = m
  BY DEF Materialized
<1>2. \A d \in documents : TypeOf[d] = "document" /\ TypeOf[EntityOf[d]] = "entity"
  BY CatalogLifecycleAssumption, MaterializationAssumption
<1>3. \A c \in chunks : TypeOf[c] = "chunk" /\ TypeOf[StatementOf[c]] = "entity" /\ TypeOf[ClaimOf[c]] = "claim"
  BY ChunksKnown
<1>4. p \in part /\ p[1] = id /\ m[id] = p[2]
  <2>1. id \in {q[1] : q \in part}
    BY <1>1
  <2> HIDE DEF part
  <2>2. \E q \in part : q[1] = id
    BY <2>1
  <2> QED
    BY <2>1, <2>2
<1> HIDE DEF p, m
<1>5. CASE p \in {<<d, Resource(run, sources[d].content, {}, None)>> : d \in documents}
  BY <1>1, <1>2, <1>4, <1>5 DEF PartOf
<1>6. CASE p \in {<<EntityOf[d], EntityOfDocument(run, sources, d)>> : d \in documents}
  BY <1>1, <1>2, <1>4, <1>6 DEF PartOf
<1>7. CASE p \in {<<c, Resource(run, ChunkText(sources, c), {ParentOf[c]}, None)>> : c \in chunks}
  <2>1. PICK c \in chunks : p = <<c, Resource(run, ChunkText(sources, c), {ParentOf[c]}, None)>>
    BY <1>7
  <2>2. id = c /\ m[id] = Resource(run, ChunkText(sources, id), {ParentOf[id]}, None) /\ TypeOf[id] = "chunk"
    BY <1>3, <1>4, <2>1
  <2>3. PartOf(run, sources, id, m[id])
    BY <2>2 DEF PartOf
  <2> QED
    BY <1>1, <2>3
<1>8. CASE p \in {<<StatementOf[c], Resource(run, ChunkText(sources, c), {c}, None)>> : c \in chunks}
  <2>1. PICK c \in chunks : p = <<StatementOf[c], Resource(run, ChunkText(sources, c), {c}, None)>>
    BY <1>8
  <2>2. /\ id = StatementOf[c] /\ m[id] = Resource(run, ChunkText(sources, c), {c}, None)
        /\ TypeOf[StatementOf[c]] = "entity"
    BY <1>3, <1>4, <2>1
  <2>3. PartOf(run, sources, id, m[id])
    BY <2>2 DEF PartOf
  <2> QED
    BY <1>1, <2>3
<1>9. CASE p \in {<<ClaimOf[c], ClaimOfChunk(run, sources, c)>> : c \in chunks}
  <2>1. PICK c \in chunks : p = <<ClaimOf[c], ClaimOfChunk(run, sources, c)>>
    BY <1>9
  <2>2. id = ClaimOf[c] /\ m[id] = ClaimOfChunk(run, sources, c) /\ TypeOf[ClaimOf[c]] = "claim"
    BY <1>3, <1>4, <2>1
  <2>3. ClaimPart(run, sources, id, m[id])
    BY <2>2 DEF ClaimPart
  <2>4. PartOf(run, sources, id, m[id])
    BY <2>3 DEF PartOf
  <2> QED
    BY <1>1, <2>4
<1>10. CASE p = <<Bundle, BundleOf(run, sources)>>
  <2>1. id = Bundle /\ m[id] = BundleOf(run, sources) /\ TypeOf[Bundle] = "artifact"
    BY <1>4, <1>10, MaterializationAssumption
  <2>2. BundlePart(run, sources, id, m[id])
    BY <2>1 DEF BundlePart
  <2>3. PartOf(run, sources, id, m[id])
    BY <2>2 DEF PartOf
  <2> QED
    BY <1>1, <2>3
<1> QED
  BY <1>4, <1>5, <1>6, <1>7, <1>8, <1>9, <1>10

LEMMA MaterializedRecorded ==
  ASSUME NEW run, NEW sources \in SourceSet
  PROVE  Recorded(Materialized(run, sources))
<1> DEFINE m == Materialized(run, sources)
<1>1. ASSUME NEW id \in DOMAIN m
      PROVE  /\ id \in Id
             /\ TypeOf[id] = "artifact" => RecordShaped(m[id].record)
             /\ TypeOf[id] = "claim" => ClaimShaped(m[id].record)
  <2>0. PartOf(run, sources, id, m[id])
    BY MaterializedIs
  <2> HIDE DEF m
  <2>1. id \in Id
    <3>1. \A d \in DOMAIN sources : d \in Id /\ EntityOf[d] \in Id
      BY DocumentsKnown
    <3>2. \A c \in ChunksOf(sources) : c \in Id /\ StatementOf[c] \in Id /\ ClaimOf[c] \in Id
      BY ChunksKnown
    <3>3. Bundle \in Id
      BY MaterializationAssumption
    <3> QED
      BY <2>0, <3>1, <3>2, <3>3 DEF PartOf, ClaimPart, BundlePart
  <2>2. TypeOf[id] = "artifact" => m[id] = BundleOf(run, sources)
    BY <2>0 DEF PartOf, ClaimPart, BundlePart
  <2>3. TypeOf[id] = "claim" => \E c : m[id] = ClaimOfChunk(run, sources, c)
    BY <2>0 DEF PartOf, ClaimPart, BundlePart
  <2> HIDE DEF m
  <2> QED
    BY <2>1, <2>2, <2>3, BundleRecorded, ClaimOfChunkIs
<1> HIDE DEF m
<1> QED
  BY <1>1 DEF Recorded, m

LEMMA BundleIs ==
  ASSUME NEW run, NEW sources
  PROVE  LET r == BundleOf(run, sources)
         IN r.acl = 0 /\ r.deps = DOMAIN sources \cup ChunksOf(sources)
<1> DEFINE pins == {DocumentPin(run, sources, d) : d \in DOMAIN sources} \cup
                   {ChunkPin(run, sources, c) : c \in ChunksOf(sources)}
           content == SummaryOf(Cardinality(DOMAIN sources), Cardinality(ChunksOf(sources)))
           summary == Resource(run, content, {p.id : p \in pins}, None)
           record == [artifact |-> Pin(Bundle, summary), mode |-> "all_required",
                      groups |-> {[complete |-> TRUE, pins |-> pins]}]
<1>1. BundleOf(run, sources) = [summary EXCEPT !.record = record]
  BY DEF BundleOf
<1>2. {p.id : p \in pins} = DOMAIN sources \cup ChunksOf(sources)
  <2>1. \A d : DocumentPin(run, sources, d).id = d
    BY DEF DocumentPin, Pin
  <2>2. \A c : ChunkPin(run, sources, c).id = c
    BY DEF ChunkPin, Pin
  <2> QED
    BY <2>1, <2>2
<1>3. IsResource(summary) /\ summary.acl = 0 /\ summary.deps = {p.id : p \in pins}
  <2> HIDE DEF pins, content
  <2> QED
    BY ResourceIs, MetadataIs
<1>9. summary = Metadata(summary.content, summary.acl, summary.source, summary.projection,
                          summary.state, summary.status, summary.deps, summary.record)
  BY <1>3 DEF IsResource
<1> HIDE DEF summary, record
<1>4. [summary EXCEPT !.record = record]
        = Metadata(summary.content, summary.acl, summary.source, summary.projection,
                   summary.state, summary.status, summary.deps, record)
  BY <1>9 DEF Metadata
<1> QED
  BY <1>1, <1>2, <1>3, <1>4, MetadataIs

LEMMA MaterializedGrounded ==
  ASSUME NEW run, NEW sources \in SourceSet
  PROVE  Grounded(Materialized(run, sources), DOMAIN Materialized(run, sources))
<1> DEFINE m == Materialized(run, sources)
           D == DOMAIN sources
           C == ChunksOf(sources)
<1>1. \A content, deps, record : LET r == Resource(run, content, deps, record)
                                 IN r.acl = 0 /\ r.deps = deps
  BY ResourceIs, MetadataIs
<1>2. \A d \in D : LET r == EntityOfDocument(run, sources, d)
                   IN r.acl = 0 /\ r.deps \subseteq D \cup C
  <2> SUFFICES ASSUME NEW d \in D
               PROVE  EntityOfDocument(run, sources, d).acl = 0
                      /\ EntityOfDocument(run, sources, d).deps \subseteq D \cup C
    OBVIOUS
  <2>1. DOMAIN sources[d].chunks \subseteq C
    BY DEF ChunksOf
  <2> QED
    BY <1>1, <2>1 DEF EntityOfDocument
<1>3. ASSUME NEW id \in DOMAIN m
      PROVE  /\ m[id].acl = 0
             /\ TypeOf[id] = "claim" => m[id].record # None
             /\ RestsOn(id, m[id]) \subseteq D \cup C
             /\ TypeOf[id] = "document" => RestsOn(id, m[id]) = {}
             /\ TypeOf[id] = "chunk" => RestsOn(id, m[id]) \subseteq D
  <2>1. CASE id \in D /\ TypeOf[id] = "document" /\ m[id] = Resource(run, sources[id].content, {}, None)
    BY <1>1, <2>1 DEF RestsOn
  <2>2. CASE TypeOf[id] = "entity" /\ \E d \in D : m[id] = EntityOfDocument(run, sources, d)
    BY <1>2, <2>2 DEF RestsOn
  <2>3. CASE id \in C /\ TypeOf[id] = "chunk" /\ m[id] = Resource(run, ChunkText(sources, id), {ParentOf[id]}, None)
    BY <1>1, <2>3, ChunksKnown DEF RestsOn
  <2>4. CASE TypeOf[id] = "entity" /\ \E c \in C : m[id] = Resource(run, ChunkText(sources, c), {c}, None)
    BY <1>1, <2>4 DEF RestsOn
  <2>5. CASE TypeOf[id] = "claim" /\ \E c \in C : m[id] = ClaimOfChunk(run, sources, c)
    <3>1. PICK c \in C : m[id] = ClaimOfChunk(run, sources, c)
      BY <2>5
    <3>2. ParentOf[c] \in D
      BY ChunksKnown
    <3>3. /\ m[id].record # None /\ m[id].acl = 0
          /\ m[id].record.document.id = ParentOf[c] /\ EvidenceIds(m[id].record) = {c}
      BY <3>1, ClaimOfChunkIs
    <3> HIDE DEF m
    <3> QED
      BY <2>5, <3>2, <3>3 DEF RestsOn
  <2>6. CASE TypeOf[id] = "artifact" /\ m[id] = BundleOf(run, sources)
    BY <2>6, BundleIs DEF RestsOn
  <2>7. PartOf(run, sources, id, m[id])
    BY MaterializedIs
  <2> HIDE DEF m
  <2> QED
    BY <2>1, <2>2, <2>3, <2>4, <2>5, <2>6, <2>7 DEF PartOf, ClaimPart, BundlePart
<1> HIDE DEF m
<1>4. ASSUME NEW S \in (SUBSET DOMAIN m) \ {{}}
      PROVE  \E id \in S : RestsOn(id, m[id]) \cap S = {}
  <2>1. \A d \in D : TypeOf[d] = "document"
    BY DocumentsKnown
  <2>2. \A c \in C : TypeOf[c] = "chunk"
    BY ChunksKnown
  <2>3. CASE \E id \in S : TypeOf[id] = "document"
    BY <1>3, <2>3
  <2>4. CASE \A id \in S : TypeOf[id] # "document"
    <3>1. CASE \E id \in S : TypeOf[id] = "chunk"
      BY <1>3, <2>1, <2>4, <3>1
    <3>2. CASE \A id \in S : TypeOf[id] # "chunk"
      BY <1>3, <2>1, <2>2, <2>4, <3>2
    <3> QED
      BY <3>1, <3>2
  <2> QED
    BY <2>3, <2>4
<1> QED
  BY <1>3, <1>4 DEF Grounded, m

-----------------------------------------------------------------------------
\* The closure of a revocation

\* The queue after each number of rounds.
Rounds(f, resources, selection, n) ==
  f = [i \in 0 .. n |-> IF i = 0 THEN selection ELSE f[i - 1] \cup Dependents(resources, f[i - 1])]

LEMMA RoundsExist ==
  ASSUME NEW resources, NEW selection, NEW n \in Nat
  PROVE  \E f : Rounds(f, resources, selection, n)
<1> DEFINE Good == {m \in 0 .. n : \E f : Rounds(f, resources, selection, m)}
<1>1. 0 \in Good
  <2> DEFINE f == [i \in 0 .. 0 |-> selection]
  <2>1. Rounds(f, resources, selection, 0)
    <3>1. \A i \in 0 .. 0 : i = 0
      OBVIOUS
    <3> QED
      BY <3>1 DEF Rounds
  <2> QED
    BY <2>1
<1>2. ASSUME NEW m \in 1 .. n, m - 1 \in Good PROVE m \in Good
  <2>1. PICK f : Rounds(f, resources, selection, m - 1)
    BY <1>2
  <2> DEFINE g == [i \in 0 .. m |-> IF i = m THEN f[m - 1] \cup Dependents(resources, f[m - 1]) ELSE f[i]]
  <2>2. \A i \in 0 .. m - 1 : i \in 0 .. m /\ i # m /\ g[i] = f[i]
    OBVIOUS
  <2>3. g[m] = f[m - 1] \cup Dependents(resources, f[m - 1])
    OBVIOUS
  <2>4. g = [i \in 0 .. m |-> g[i]]
    OBVIOUS
  <2> HIDE DEF g
  <2>5. ASSUME NEW i \in 0 .. m
        PROVE  g[i] = IF i = 0 THEN selection ELSE g[i - 1] \cup Dependents(resources, g[i - 1])
    <3>1. CASE i = m
      <4>1. i # 0 /\ g[i - 1] = f[m - 1]
        BY <3>1, <2>2
      <4> QED
        BY <3>1, <4>1, <2>3
    <3>2. CASE i # m
      <4>1. i \in 0 .. m - 1 /\ g[i] = f[i] /\ (i # 0 => g[i - 1] = f[i - 1])
        BY <3>2, <2>2
      <4>2. f[i] = IF i = 0 THEN selection ELSE f[i - 1] \cup Dependents(resources, f[i - 1])
        BY <2>1, <4>1 DEF Rounds
      <4> QED
        BY <4>1, <4>2
    <3> QED
      BY <3>1, <3>2
  <2>6. Rounds(g, resources, selection, m)
    BY <2>4, <2>5 DEF Rounds
  <2> QED
    BY <2>6
<1> HIDE DEF Good
<1>3. n \in Good
  BY <1>1, <1>2, Upwards
<1> QED
  BY <1>3 DEF Good

LEMMA ClosureUnfold ==
  ASSUME NEW base, Cardinality(DOMAIN base.resources) \in Nat, NEW selection
  PROVE  \E f : /\ Rounds(f, base.resources, selection, Cardinality(DOMAIN base.resources))
                /\ RevocationClosure(base, selection) = f[Cardinality(DOMAIN base.resources)]
<1> DEFINE resources == base.resources
           most == Cardinality(DOMAIN base.resources)
           selected == CHOOSE s : s = [n \in 0 .. most |->
             IF n = 0 THEN selection ELSE s[n - 1] \cup Dependents(resources, s[n - 1])]
<1>1. \E f : f = [n \in 0 .. most |->
             IF n = 0 THEN selection ELSE f[n - 1] \cup Dependents(resources, f[n - 1])]
  <2> HIDE DEF most, resources
  <2>1. PICK f : Rounds(f, resources, selection, most)
    BY RoundsExist DEF most, resources
  <2>2. f = [n \in 0 .. most |->
             IF n = 0 THEN selection ELSE f[n - 1] \cup Dependents(resources, f[n - 1])]
    BY <2>1 DEF Rounds
  <2> QED
    BY <2>2
<1>2. selected = [n \in 0 .. most |->
             IF n = 0 THEN selection ELSE selected[n - 1] \cup Dependents(resources, selected[n - 1])]
  BY <1>1
<1>3. RevocationClosure(base, selection) = selected[most]
  BY DEF RevocationClosure
<1> HIDE DEF selected
<1> QED
  BY <1>2, <1>3 DEF Rounds

\* The closure has the selection, and all dependents of its own.
LEMMA ClosureClosed ==
  ASSUME NEW base, IsFiniteSet(DOMAIN base.resources), NEW selection \in SUBSET DOMAIN base.resources
  PROVE  /\ selection \subseteq RevocationClosure(base, selection)
         /\ RevocationClosure(base, selection) \subseteq DOMAIN base.resources
         /\ Dependents(base.resources, RevocationClosure(base, selection))
              \subseteq RevocationClosure(base, selection)
<1> DEFINE resources == base.resources
           D == DOMAIN resources
           N == Cardinality(D)
<1>1. N \in Nat
  BY FS_CardinalityType
<1>2. PICK f : Rounds(f, resources, selection, N) /\ RevocationClosure(base, selection) = f[N]
  BY <1>1, ClosureUnfold
<1>3. \A B : Dependents(resources, B) \subseteq D
  BY DEF Dependents
<1>4. f[0] = selection
  <2>1. 0 \in 0 .. N
    BY <1>1
  <2> QED
    BY <1>2, <2>1 DEF Rounds
<1>5. \A m \in 1 .. N : f[m] = f[m - 1] \cup Dependents(resources, f[m - 1])
  <2>1. \A m \in 1 .. N : m \in 0 .. N /\ m # 0
    BY <1>1
  <2> QED
    BY <1>2, <2>1 DEF Rounds
<1> DEFINE Stable(m) == Dependents(resources, f[m]) \subseteq f[m]
           Good == {m \in 0 .. N : /\ selection \subseteq f[m] /\ f[m] \subseteq D
                                   /\ Stable(m) \/ m <= Cardinality(f[m])}
<1>6. \A B \in SUBSET D : IsFiniteSet(B) /\ Cardinality(B) \in Nat
  BY FS_Subset, FS_CardinalityType
<1> HIDE DEF D, N, resources
<1>7. 0 \in Good
  <2>1. 0 <= Cardinality(f[0])
    BY <1>4, <1>6 DEF D, resources
  <2> QED
    BY <1>1, <1>4, <2>1 DEF D, resources
<1>8. ASSUME NEW m \in 1 .. N, m - 1 \in Good PROVE m \in Good
  <2>1. /\ selection \subseteq f[m - 1] /\ f[m - 1] \subseteq D
        /\ Stable(m - 1) \/ m - 1 <= Cardinality(f[m - 1])
    BY <1>8
  <2>2. f[m] = f[m - 1] \cup Dependents(resources, f[m - 1])
    BY <1>5
  <2>3. selection \subseteq f[m] /\ f[m] \subseteq D
    BY <2>1, <2>2, <1>3 DEF D
  <2>4. CASE Stable(m - 1)
    <3>1. f[m] = f[m - 1]
      BY <2>2, <2>4
    <3>2. Stable(m)
      BY <2>4, <3>1
    <3> QED
      BY <1>1, <2>3, <3>2
  <2>5. CASE ~Stable(m - 1)
    <3>1. f[m - 1] \in SUBSET f[m] /\ f[m - 1] # f[m]
      BY <2>2, <2>5
    <3>2. /\ IsFiniteSet(f[m]) /\ Cardinality(f[m]) \in Nat
          /\ Cardinality(f[m - 1]) \in Nat
      BY <1>6, <2>1, <2>3
    <3>3. /\ Cardinality(f[m - 1]) <= Cardinality(f[m])
          /\ Cardinality(f[m - 1]) # Cardinality(f[m])
      BY <3>1, <3>2, FS_Subset
    <3>4. m - 1 <= Cardinality(f[m - 1])
      BY <2>1, <2>5
    <3>5. m <= Cardinality(f[m])
      BY <1>1, <3>2, <3>3, <3>4
    <3> QED
      BY <1>1, <2>3, <3>5
  <2> QED
    BY <2>4, <2>5
<1> HIDE DEF Good
<1>9. N \in Good
  BY <1>1, <1>7, <1>8, Upwards
<1>10. selection \subseteq f[N] /\ f[N] \subseteq D /\ (Stable(N) \/ N <= Cardinality(f[N]))
  BY <1>9 DEF Good
<1>11. Stable(N)
  <2>1. SUFFICES ASSUME N <= Cardinality(f[N]) PROVE Stable(N)
    BY <1>10
  <2>2. IsFiniteSet(D) /\ f[N] \in SUBSET D /\ Cardinality(f[N]) \in Nat
    BY <1>6, <1>10 DEF D, resources
  <2>3. Cardinality(f[N]) <= Cardinality(D)
    BY <2>2, FS_Subset
  <2>4. Cardinality(D) = Cardinality(f[N])
    BY <1>1, <2>1, <2>2, <2>3 DEF N
  <2>5. f[N] = D
    BY <2>2, <2>4, FS_Subset
  <2> QED
    BY <1>3, <2>5 DEF D
<1> QED
  BY <1>2, <1>10, <1>11 DEF D, resources

\* What no round reaches from outside of it stays out of the closure.
LEMMA ClosureLeast ==
  ASSUME NEW base, IsFiniteSet(DOMAIN base.resources), NEW selection \in SUBSET DOMAIN base.resources,
         NEW S, S \cap selection = {},
         \A B : B \cap S = {} => Dependents(base.resources, B) \cap S = {}
  PROVE  RevocationClosure(base, selection) \cap S = {}
<1> DEFINE resources == base.resources
           N == Cardinality(DOMAIN base.resources)
<1>1. N \in Nat
  BY FS_CardinalityType
<1>2. PICK f : Rounds(f, resources, selection, N) /\ RevocationClosure(base, selection) = f[N]
  BY <1>1, ClosureUnfold
<1> DEFINE Good == {m \in 0 .. N : f[m] \cap S = {}}
<1> HIDE DEF N
<1>3. 0 \in Good
  <2>1. 0 \in 0 .. N
    BY <1>1
  <2>2. f[0] = selection
    BY <1>2, <2>1 DEF Rounds
  <2> QED
    BY <2>1, <2>2
<1>4. ASSUME NEW m \in 1 .. N, m - 1 \in Good PROVE m \in Good
  <2>1. m \in 0 .. N /\ m # 0
    BY <1>1
  <2>2. f[m] = f[m - 1] \cup Dependents(resources, f[m - 1])
    BY <1>2, <2>1 DEF Rounds
  <2>3. f[m - 1] \cap S = {}
    BY <1>4
  <2>4. Dependents(resources, f[m - 1]) \cap S = {}
    BY <2>3
  <2> QED
    BY <2>1, <2>2, <2>3, <2>4
<1> HIDE DEF Good
<1>5. N \in Good
  BY <1>1, <1>3, <1>4, Upwards
<1> QED
  BY <1>2, <1>5 DEF Good

-----------------------------------------------------------------------------
\* What a revocation keeps

KeptOf(base, selection) ==
  {id \in Live(base.resources) \ RevocationClosure(base, selection) :
     ~IsQuarantined(id, base.resources[id])}

KeptResources(run, base, selection) ==
  [id \in KeptOf(base, selection) |-> CarriedForward(run, id, base, RevocationClosure(base, selection))]

LEMMA KeptShaped ==
  ASSUME NEW run, NEW base, Shaped(base.resources), NEW selection
  PROVE  Shaped(KeptResources(run, base, selection))
<1> DEFINE kept == KeptResources(run, base, selection)
<1>1. DOMAIN kept = KeptOf(base, selection) /\ kept = [id \in DOMAIN kept |-> kept[id]]
  BY DEF KeptResources
<1>2. ASSUME NEW id \in KeptOf(base, selection) PROVE IsResource(kept[id])
  <2>1. IsResource(base.resources[id])
    BY DEF KeptOf, Live, Shaped
  <2>2. kept[id] = CarriedForward(run, id, base, RevocationClosure(base, selection))
    BY DEF KeptResources
  <2> QED
    BY <2>1, <2>2, CarriedIs, MetadataIs
<1> HIDE DEF kept
<1> QED
  BY <1>1, <1>2 DEF Shaped, kept

LEMMA RevocationPlans ==
  ASSUME NEW run, NEW base, NEW selection, NEW plan \in PlanRevocations(run, base, selection)
  PROVE  /\ selection \subseteq DOMAIN base.resources
         /\ plan \in PlanResources(run, base, KeptResources(run, base, selection), "revoke")
BY DEF PlanRevocations, KeptResources, KeptOf

ReboundPins(run, g) == {[p EXCEPT !.projection = run.target] : p \in g.pins}

LEMMA ReboundGroupIs ==
  ASSUME NEW run, NEW s, RecordShaped(s), NEW selected, NEW resources, NEW h
  PROVE  h \in ReboundGroups(run, s, selected, resources) <=>
           \E g \in KeptGroups(s, selected, resources) :
             h = [complete |-> g.complete, pins |-> ReboundPins(run, g)]
<1> DEFINE pins(g) == ReboundPins(run, g)
<1>1. h \in ReboundGroups(run, s, selected, resources) <=>
        \E g \in KeptGroups(s, selected, resources) : h = [g EXCEPT !.pins = pins(g)]
  BY DEF ReboundGroups, ReboundPins
<1>2. \A g \in KeptGroups(s, selected, resources) : g = [complete |-> g.complete, pins |-> g.pins]
  BY DEF KeptGroups, RecordShaped
<1>3. ASSUME NEW g, g = [complete |-> g.complete, pins |-> g.pins], NEW x
      PROVE  [g EXCEPT !.pins = x] = [complete |-> g.complete, pins |-> x]
  BY <1>3
<1>4. \A g \in KeptGroups(s, selected, resources) :
        [g EXCEPT !.pins = pins(g)] = [complete |-> g.complete, pins |-> pins(g)]
  <2> SUFFICES ASSUME NEW g \in KeptGroups(s, selected, resources)
               PROVE  [g EXCEPT !.pins = pins(g)] = [complete |-> g.complete, pins |-> pins(g)]
    OBVIOUS
  <2> HIDE DEF pins
  <2> QED
    BY <1>2, <1>3
<1> HIDE DEF pins
<1>5. h \in ReboundGroups(run, s, selected, resources) <=>
        \E g \in KeptGroups(s, selected, resources) : h = [complete |-> g.complete, pins |-> pins(g)]
  BY <1>1, <1>4
<1> QED
  BY <1>5 DEF pins

LEMMA ReboundPinIs ==
  ASSUME NEW run, NEW id, NEW r, NEW p, p = Pin(id, r)
  PROVE  ReboundPin(run, p) = [id |-> p.id, content |-> p.content, acl |-> p.acl,
                               source |-> run.snapshot.version, projection |-> run.target]
<1> DEFINE a == [p EXCEPT !.source = run.snapshot.version]
           b == [a EXCEPT !.projection = run.target]
<1>1. ReboundPin(run, p) = b
  BY DEF ReboundPin, Pin
<1>2. p = [id |-> p.id, content |-> p.content, acl |-> p.acl, source |-> p.source, projection |-> p.projection]
  BY DEF Pin
<1>3. a = [id |-> p.id, content |-> p.content, acl |-> p.acl,
           source |-> run.snapshot.version, projection |-> p.projection]
  BY <1>2
<1> HIDE DEF a
<1>4. b = [id |-> p.id, content |-> p.content, acl |-> p.acl,
           source |-> run.snapshot.version, projection |-> run.target]
  BY <1>3
<1> QED
  BY <1>1, <1>4

\* A reference of the evidence, in the version after.
ReboundEvidence(run, e) ==
  [pin |-> ReboundPin(run, e.pin), document |-> ReboundPin(run, e.document)]

ReboundAll(run, g) == {ReboundEvidence(run, e) : e \in g.evidence}

LEMMA ReboundClaimIs ==
  ASSUME NEW run, NEW c, ClaimShaped(c)
  PROVE  LET u == ReboundClaim(run, c)
         IN /\ ClaimShaped(u) /\ u # None
            /\ u.bound = c.bound /\ u.endpoints = c.endpoints /\ u.mode = c.mode
            /\ u.document = ReboundPin(run, c.document)
            /\ \A h : h \in u.groups <=>
                 \E g \in c.groups : h = [complete |-> g.complete, evidence |-> ReboundAll(run, g)]
<1> DEFINE document == ReboundPin(run, c.document)
           groups == {[g EXCEPT !.evidence = ReboundAll(run, g)] : g \in c.groups}
           u == [c EXCEPT !.document = document, !.groups = groups]
<1>1. ReboundClaim(run, c) = u
  BY DEF ReboundClaim, ReboundAll, ReboundEvidence
<1>2. ASSUME NEW g \in c.groups
      PROVE  [g EXCEPT !.evidence = ReboundAll(run, g)]
               = [complete |-> g.complete, evidence |-> ReboundAll(run, g)]
  <2>1. g = [complete |-> g.complete, evidence |-> g.evidence]
    BY DEF ClaimShaped
  <2> QED
    BY <2>1
<1>3. \A h : h \in groups <=>
        \E g \in c.groups : h = [complete |-> g.complete, evidence |-> ReboundAll(run, g)]
  BY <1>2
<1>4. \A h \in groups : h = [complete |-> h.complete, evidence |-> h.evidence]
  BY <1>3
<1> HIDE DEF document, groups
<1>5. c = [bound |-> c.bound, endpoints |-> c.endpoints, document |-> c.document,
           mode |-> c.mode, groups |-> c.groups]
  BY DEF ClaimShaped
<1>6. u = [bound |-> c.bound, endpoints |-> c.endpoints, document |-> document,
           mode |-> c.mode, groups |-> groups]
  <2> DEFINE a == [c EXCEPT !.document = document]
             b == [a EXCEPT !.groups = groups]
  <2>1. u = b
    BY <1>5
  <2>2. a = [bound |-> c.bound, endpoints |-> c.endpoints, document |-> document,
             mode |-> c.mode, groups |-> c.groups]
    BY <1>5
  <2> HIDE DEF a
  <2>3. b = [bound |-> c.bound, endpoints |-> c.endpoints, document |-> document,
             mode |-> c.mode, groups |-> groups]
    BY <2>2
  <2> QED
    BY <2>1, <2>3
<1> HIDE DEF u
<1>7. /\ u.bound = c.bound /\ u.endpoints = c.endpoints /\ u.mode = c.mode
      /\ u.document = document /\ u.groups = groups /\ u # None
  BY <1>6 DEF None
<1>8. ClaimShaped(u)
  BY <1>4, <1>6, <1>7 DEF ClaimShaped
<1> QED
  BY <1>1, <1>3, <1>7, <1>8 DEF document

\* A claim goes on resting on what it rested on.
LEMMA ReboundRests ==
  ASSUME NEW run, NEW resources, NEW id, TypeOf[id] = "claim",
         ClaimShaped(resources[id].record), ClaimRecordResolves(id, resources)
  PROVE  LET c == resources[id].record
             u == ReboundClaim(run, c)
         IN u.document.id = c.document.id /\ EvidenceIds(u) \subseteq EvidenceIds(c)
<1> DEFINE c == resources[id].record
           u == ReboundClaim(run, c)
<1>1. /\ u.document = ReboundPin(run, c.document)
      /\ \A h : h \in u.groups <=>
           \E g \in c.groups : h = [complete |-> g.complete, evidence |-> ReboundAll(run, g)]
  BY ReboundClaimIs
<1>2. \A p : Resolves(p, resources) => ReboundPin(run, p).id = p.id
  <2> SUFFICES ASSUME NEW p, Resolves(p, resources) PROVE ReboundPin(run, p).id = p.id
    OBVIOUS
  <2>1. p = Pin(p.id, resources[p.id])
    BY DEF Resolves
  <2>2. ReboundPin(run, p) = [id |-> p.id, content |-> p.content, acl |-> p.acl,
                              source |-> run.snapshot.version, projection |-> run.target]
    BY <2>1, ReboundPinIs
  <2> QED
    BY <2>2
<1>3. Resolves(c.document, resources) /\ \A g \in c.groups : \A e \in g.evidence : Resolves(e.pin, resources)
  BY DEF ClaimRecordResolves
<1> HIDE DEF u, c
<1>4. ASSUME NEW h \in u.groups, NEW x \in h.evidence
      PROVE  \E g \in c.groups : \E e \in g.evidence : x.pin.id = e.pin.id
  <2>1. PICK g \in c.groups : h = [complete |-> g.complete, evidence |-> ReboundAll(run, g)]
    BY <1>1
  <2>2. h.evidence = ReboundAll(run, g)
    BY <2>1
  <2>3. PICK e \in g.evidence : x = ReboundEvidence(run, e)
    BY <2>2 DEF ReboundAll
  <2>4. x.pin = ReboundPin(run, e.pin)
    BY <2>3 DEF ReboundEvidence
  <2> QED
    BY <1>2, <1>3, <2>4
<1>5. EvidenceIds(u) \subseteq EvidenceIds(c)
  <2>1. ASSUME NEW y \in EvidenceIds(u) PROVE y \in EvidenceIds(c)
    <3>1. PICK h \in u.groups : \E x \in h.evidence : y = x.pin.id
      BY DEF EvidenceIds
    <3>2. \E g \in c.groups : \E e \in g.evidence : y = e.pin.id
      BY <1>4, <3>1
    <3> QED
      BY <3>2 DEF EvidenceIds
  <2> QED
    BY <2>1
<1>6. u.document.id = c.document.id
  BY <1>1, <1>2, <1>3
<1> QED
  BY <1>5, <1>6 DEF u, c

LEMMA KeptRecorded ==
  ASSUME NEW run, NEW base, Shaped(base.resources), Recorded(base.resources), ProjectionValid(base),
         NEW selection
  PROVE  Recorded(KeptResources(run, base, selection))
<1> DEFINE selected == RevocationClosure(base, selection)
           kept == KeptResources(run, base, selection)
<1>1. DOMAIN kept = KeptOf(base, selection) /\ KeptOf(base, selection) \subseteq DOMAIN base.resources
  BY DEF KeptResources, KeptOf, Live
<1>2. ASSUME NEW id \in KeptOf(base, selection)
      PROVE  kept[id].record = CarriedRecord(run, id, base, selected)
  <2>1. IsResource(base.resources[id])
    BY <1>1 DEF Shaped
  <2>2. kept[id] = CarriedForward(run, id, base, selected)
    BY DEF KeptResources
  <2> HIDE DEF kept, selected
  <2> QED
    BY <2>1, <2>2, CarriedIs, MetadataIs
<1> HIDE DEF kept, selected
<1>3. ASSUME NEW id \in KeptOf(base, selection), TypeOf[id] = "artifact", kept[id].record # None
      PROVE  RecordShaped(kept[id].record)
  <2> DEFINE s == base.resources[id].record
             groups == ReboundGroups(run, s, selected, base.resources)
             t == [s EXCEPT !.groups = groups]
             u == [s EXCEPT !.groups = groups, !.artifact.projection = run.target]
  <2>1. s # None
    <3>1. TypeOf[id] # "claim"
      BY <1>3
    <3>2. s = None => CarriedRecord(run, id, base, selected) = s
      BY <3>1 DEF CarriedRecord
    <3> QED
      BY <1>2, <1>3, <3>2
  <2>2. kept[id].record = u
    BY <1>2, <1>3, <2>1 DEF CarriedRecord
  <2>3. RecordShaped(s)
    BY <1>1, <1>3, <2>1 DEF Recorded
  <2>4. \A h \in groups : h = [complete |-> h.complete, pins |-> h.pins]
    <3>1. \A h \in groups : \E x, y : h = [complete |-> x, pins |-> y]
      BY <2>3, ReboundGroupIs
    <3> HIDE DEF groups
    <3> QED
      BY <3>1
  <2> HIDE DEF groups
  <2>5. s = [artifact |-> s.artifact, mode |-> s.mode, groups |-> s.groups]
    BY <2>3 DEF RecordShaped
  <2>6. u = [artifact |-> u.artifact, mode |-> u.mode, groups |-> u.groups] /\ u.groups = groups
    <3>1. DOMAIN u = {"artifact", "mode", "groups"} /\ u.groups = groups /\ u = [x \in DOMAIN u |-> u[x]]
      BY <2>5
    <3> HIDE DEF u
    <3>2. u = [artifact |-> u.artifact, mode |-> u.mode, groups |-> u.groups]
      BY <3>1
    <3> QED
      BY <3>1, <3>2
  <2> HIDE DEF u
  <2> QED
    BY <2>2, <2>4, <2>6 DEF RecordShaped
<1>4. ASSUME NEW id \in KeptOf(base, selection), TypeOf[id] = "claim", kept[id].record # None
      PROVE  ClaimShaped(kept[id].record)
  <2> DEFINE c == base.resources[id].record
  <2>1. c # None
    <3>1. c = None => CarriedRecord(run, id, base, selected) = c
      BY <1>4 DEF CarriedRecord
    <3> QED
      BY <1>2, <1>4, <3>1
  <2>2. kept[id].record = ReboundClaim(run, c)
    BY <1>2, <1>4, <2>1 DEF CarriedRecord
  <2>3. ClaimShaped(c)
    BY <1>1, <1>4, <2>1 DEF Recorded
  <2> HIDE DEF c
  <2> QED
    BY <2>2, <2>3, ReboundClaimIs
<1>5. DOMAIN kept \subseteq Id
  BY <1>1 DEF Recorded
<1> QED
  BY <1>1, <1>3, <1>4, <1>5 DEF Recorded, kept

\* In a projection that serves, what is not taken goes on serving.
LEMMA KeptServes ==
  ASSUME NEW base, ProjectionValid(base), base.state = "serving", NEW selection
  PROVE  KeptOf(base, selection) = Serving(base.resources) \ RevocationClosure(base, selection)
<1>1. ASSUME NEW id \in DOMAIN base.resources
      PROVE  (~IsTerminal(base.resources[id]) /\ ~IsQuarantined(id, base.resources[id]))
               <=> IsServing(id, base.resources[id])
  <2> DEFINE r == base.resources[id]
  <2>1. IsTerminal(r) \/ IsServing(id, r) \/ IsQuarantined(id, r)
    BY ValidByResource DEF ValidIn
  <2>2. IsServing(id, r) => ~IsTerminal(r)
    BY DEF IsServing, IsTerminal
  <2>3. IsServing(id, r) => ~IsQuarantined(id, r)
    BY DEF IsServing, IsQuarantined
  <2> QED
    BY <2>1, <2>2, <2>3
<1> QED
  BY <1>1 DEF KeptOf, Live, Serving

\* What is kept stands on what is kept.
LEMMA KeptStands ==
  ASSUME NEW base, IsFiniteSet(DOMAIN base.resources), ProjectionValid(base), base.state = "serving",
         NEW selection \in SUBSET DOMAIN base.resources, NEW id \in KeptOf(base, selection)
  PROVE  Stands(id, KeptOf(base, selection), base.resources)
<1> DEFINE resources == base.resources
           selected == RevocationClosure(base, selection)
           S == KeptOf(base, selection)
           r == resources[id]
<1>1. S = Serving(resources) \ selected
  BY KeptServes
<1>2. Dependents(resources, selected) \subseteq selected
  BY ClosureClosed
<1> HIDE DEF S, selected
<1>3. id \in DOMAIN resources /\ IsServing(id, r) /\ id \notin selected
  BY <1>1 DEF Serving, S
<1>4. ValidIn(base, id)
  BY <1>3, ValidByResource
<1>5. r.deps \cap selected = {} \/ ~Invalidated(id, selected, resources)
  BY <1>2, <1>3 DEF Dependents
<1>6. \A x : (x \in DOMAIN resources /\ IsServing(x, resources[x]) /\ x \notin selected) => x \in S
  BY <1>1 DEF Serving
<1>7. CASE TypeOf[id] = "artifact"
  <2> DEFINE s == r.record
  <2>1. s # None
    BY <1>3, <1>7 DEF IsServing
  <2>2. s.mode \in {"any_support", "all_required"}
    BY <1>4, <1>7, <2>1 DEF ValidIn, ResourceValid, SecurityRecordValid
  <2>3. SecurityRecordResolves(id, resources)
    BY <1>4, <1>7, <2>1 DEF ValidIn
  <2>4. \A g \in s.groups : \A p \in g.pins : p.id \in DOMAIN resources /\ p.id \in r.deps
    BY <2>3 DEF SecurityRecordResolves, Resolves
  <2>5. CASE s.mode = "any_support"
    <3>1. \E g \in s.groups : g.complete /\ \A p \in g.pins : IsServing(p.id, resources[p.id]) /\ p.id \notin selected
      <4>1. CASE ~Invalidated(id, selected, resources)
        BY <4>1, <1>7, <2>1, <2>5 DEF Invalidated, GroupAvailable
      <4>2. CASE r.deps \cap selected = {}
        <5>1. \E g \in s.groups : g.complete /\ GroupServing(g, resources)
          BY <1>3, <2>3, <2>5 DEF SecurityRecordResolves
        <5>2. \A g \in s.groups : \A p \in g.pins : p.id \notin selected
          BY <2>4, <4>2
        <5> QED
          BY <5>1, <5>2 DEF GroupServing
      <4> QED
        BY <1>5, <4>1, <4>2
    <3>2. PICK g \in s.groups : g.complete /\ \A p \in g.pins : IsServing(p.id, resources[p.id]) /\ p.id \notin selected
      BY <3>1
    <3>3. \A p \in g.pins : p.id \in S
      BY <1>6, <2>4, <3>2
    <3>4. {p.id : p \in g.pins} \subseteq S
      BY <3>3
    <3> QED
      BY <1>7, <2>5, <3>2, <3>4 DEF Stands, S
  <2>6. CASE s.mode = "all_required"
    <3>1. \A g \in s.groups : \A p \in g.pins : IsServing(p.id, resources[p.id]) /\ p.id \notin selected
      <4>1. CASE ~Invalidated(id, selected, resources)
        BY <4>1, <1>7, <2>1, <2>6 DEF Invalidated
      <4>2. CASE r.deps \cap selected = {}
        <5>1. \A g \in s.groups : GroupServing(g, resources)
          BY <1>3, <2>3, <2>6 DEF SecurityRecordResolves
        <5>2. \A g \in s.groups : \A p \in g.pins : p.id \notin selected
          BY <2>4, <4>2
        <5> QED
          BY <5>1, <5>2 DEF GroupServing
      <4> QED
        BY <1>5, <4>1, <4>2
    <3>2. \A g \in s.groups : \A p \in g.pins : p.id \in S
      BY <1>6, <2>4, <3>1
    <3>3. \A g \in s.groups : {p.id : p \in g.pins} \subseteq S
      BY <3>2
    <3> QED
      BY <1>7, <2>6, <3>3 DEF Stands, S
  <2> QED
    BY <2>2, <2>5, <2>6
<1>8. CASE TypeOf[id] # "artifact"
  <2>1. r.deps \cap selected = {}
    BY <1>5, <1>8 DEF Invalidated
  <2>2. r.deps \subseteq Serving(resources)
    BY <1>3, <1>4, <1>8 DEF ValidIn, DependenciesValid
  <2> QED
    BY <1>1, <1>8, <2>1, <2>2 DEF Stands, S
<1> QED
  BY <1>7, <1>8

\* What stands without the selection is not in its closure.
LEMMA StandsApart ==
  ASSUME NEW base, IsFiniteSet(DOMAIN base.resources), ProjectionValid(base),
         NEW selection \in SUBSET DOMAIN base.resources,
         NEW S \in SUBSET (Serving(base.resources) \ selection),
         \A id \in S : Stands(id, S, base.resources)
  PROVE  RevocationClosure(base, selection) \cap S = {}
<1> DEFINE resources == base.resources
<1>1. \A x \in S : x \in DOMAIN resources /\ IsServing(x, resources[x])
  BY DEF Serving
<1>2. ASSUME NEW B, B \cap S = {}, NEW id \in S, id \in Dependents(resources, B)
      PROVE  FALSE
  <2>1. resources[id].deps \cap B # {} /\ Invalidated(id, B, resources)
    BY <1>2 DEF Dependents
  <2>2. Stands(id, S, resources)
    OBVIOUS
  <2>3. \A x \in S : x \notin B
    BY <1>2
  <2>4. CASE TypeOf[id] = "artifact"
    <3>1. resources[id].record # None
      BY <1>1, <2>4 DEF IsServing
    <3>2. CASE resources[id].record.mode = "any_support"
      <4>1. PICK g \in resources[id].record.groups : g.complete /\ {p.id : p \in g.pins} \subseteq S
        BY <2>2, <2>4, <3>2 DEF Stands
      <4>2. \A p \in g.pins : p.id \in S
        BY <4>1
      <4>3. GroupAvailable(g, B, resources)
        BY <1>1, <2>3, <4>1, <4>2 DEF GroupAvailable
      <4> QED
        BY <2>1, <2>4, <3>1, <3>2, <4>3 DEF Invalidated
    <3>3. CASE resources[id].record.mode # "any_support"
      <4>1. \A g \in resources[id].record.groups : {p.id : p \in g.pins} \subseteq S
        BY <2>2, <2>4, <3>3 DEF Stands
      <4>2. \A g \in resources[id].record.groups : \A p \in g.pins : p.id \in S
        BY <4>1
      <4> QED
        BY <1>1, <2>1, <2>3, <2>4, <3>1, <3>3, <4>2 DEF Invalidated
    <3> QED
      BY <3>2, <3>3
  <2>5. CASE TypeOf[id] # "artifact"
    <3>1. resources[id].deps \subseteq S
      BY <2>2, <2>5 DEF Stands
    <3> QED
      BY <2>1, <2>3, <3>1
  <2> QED
    BY <2>4, <2>5
<1>3. S \cap selection = {}
  OBVIOUS
<1>4. \A B : B \cap S = {} => Dependents(base.resources, B) \cap S = {}
  BY <1>2
<1> QED
  BY <1>3, <1>4, ClosureLeast

LEMMA KeptSurvives ==
  ASSUME NEW base, IsFiniteSet(DOMAIN base.resources), ProjectionValid(base), base.state = "serving",
         NEW selection \in SUBSET DOMAIN base.resources
  PROVE  KeptOf(base, selection) = Survivors(base, selection)
<1> DEFINE K == KeptOf(base, selection)
           C == {S \in SUBSET (Serving(base.resources) \ selection) :
                   \A id \in S : Stands(id, S, base.resources)}
<1>1. K = Serving(base.resources) \ RevocationClosure(base, selection)
  BY KeptServes
<1>2. K \in C
  <2>1. \A id \in K : Stands(id, K, base.resources)
    BY KeptStands
  <2>2. selection \subseteq RevocationClosure(base, selection)
    BY ClosureClosed
  <2> HIDE DEF K
  <2> QED
    BY <1>1, <2>1, <2>2
<1>3. ASSUME NEW S \in C PROVE S \subseteq K
  <2>1. RevocationClosure(base, selection) \cap S = {}
    BY StandsApart
  <2> HIDE DEF K
  <2> QED
    BY <1>1, <2>1
<1>4. Survivors(base, selection) = UNION C
  BY DEF Survivors
<1> HIDE DEF K, C
<1>5. UNION C = K
  BY <1>2, <1>3
<1> QED
  BY <1>4, <1>5 DEF K

\* What is kept rests on what is kept, and on nothing new.
LEMMA KeptDeps ==
  ASSUME NEW run, NEW base, IsFiniteSet(DOMAIN base.resources), ProjectionValid(base),
         base.state = "serving", Recorded(base.resources),
         NEW selection \in SUBSET DOMAIN base.resources, NEW id \in KeptOf(base, selection)
  PROVE  CarriedDeps(run, id, base, RevocationClosure(base, selection))
           \subseteq KeptOf(base, selection) \cap base.resources[id].deps
<1> DEFINE resources == base.resources
           selected == RevocationClosure(base, selection)
           S == KeptOf(base, selection)
           r == resources[id]
           s == r.record
           groups == ReboundGroups(run, s, selected, resources)
<1>1. S = Serving(resources) \ selected
  BY KeptServes
<1>2. Stands(id, S, resources)
  BY KeptStands
<1> HIDE DEF S, selected
<1>3. id \in DOMAIN resources /\ IsServing(id, r)
  BY <1>1 DEF Serving, S
<1>4. CASE TypeOf[id] # "artifact"
  <2>1. CarriedDeps(run, id, base, selected) = r.deps
    BY <1>4 DEF CarriedDeps
  <2>2. r.deps \subseteq S
    BY <1>2, <1>4 DEF Stands
  <2> QED
    BY <2>1, <2>2 DEF selected, S
<1>5. CASE TypeOf[id] = "artifact"
  <2>1. s # None
    BY <1>3, <1>5 DEF IsServing
  <2>2. RecordShaped(s) /\ SecurityRecordResolves(id, resources)
    <3>1. ValidIn(base, id)
      BY <1>3, ValidByResource
    <3> QED
      BY <1>3, <1>5, <2>1, <3>1 DEF Recorded, ValidIn
  <2>3. CarriedDeps(run, id, base, selected) = {p.id : p \in UNION {g.pins : g \in groups}}
    BY <1>5, <2>1 DEF CarriedDeps
  <2>4. ASSUME NEW g \in KeptGroups(s, selected, resources), NEW p \in g.pins
        PROVE  p.id \in S \cap r.deps /\ [p EXCEPT !.projection = run.target].id = p.id
    <3>1. g \in s.groups
      BY DEF KeptGroups
    <3>2. Resolves(p, resources)
      BY <2>2, <3>1 DEF SecurityRecordResolves
    <3>3. p.id \in DOMAIN resources /\ p = Pin(p.id, resources[p.id])
      BY <3>2 DEF Resolves
    <3>4. [p EXCEPT !.projection = run.target].id = p.id
      <4>1. "id" \in DOMAIN p
        BY <3>3 DEF Pin
      <4> QED
        BY <4>1
    <3>5. p.id \in r.deps
      BY <2>2, <3>1 DEF SecurityRecordResolves
    <3>6. CASE s.mode = "any_support"
      <4>1. GroupAvailable(g, selected, resources)
        BY <3>6 DEF KeptGroups
      <4>2. IsServing(p.id, resources[p.id]) /\ p.id \notin selected
        BY <4>1 DEF GroupAvailable
      <4> QED
        BY <1>1, <3>3, <3>4, <3>5, <4>2 DEF Serving
    <3>7. CASE s.mode # "any_support"
      <4>1. {q.id : q \in g.pins} \subseteq S
        BY <1>2, <1>5, <3>1, <3>7 DEF Stands
      <4> QED
        BY <3>4, <3>5, <4>1
    <3> QED
      BY <3>6, <3>7
  <2>5. ASSUME NEW h \in groups, NEW q \in h.pins PROVE q.id \in S \cap r.deps
    <3>1. PICK g \in KeptGroups(s, selected, resources) :
             h = [complete |-> g.complete, pins |-> ReboundPins(run, g)]
      BY <2>2, ReboundGroupIs
    <3>2. h.pins = ReboundPins(run, g)
      BY <3>1
    <3>3. PICK p \in g.pins : q = [p EXCEPT !.projection = run.target]
      BY <3>2 DEF ReboundPins
    <3> QED
      BY <2>4, <3>3
  <2> HIDE DEF groups
  <2>6. {q.id : q \in UNION {h.pins : h \in groups}} \subseteq S \cap r.deps
    BY <2>5
  <2> QED
    BY <2>3, <2>6 DEF selected, S
<1> QED
  BY <1>4, <1>5

LEMMA KeptGrounded ==
  ASSUME NEW run, NEW base, IsFiniteSet(DOMAIN base.resources), ProjectionValid(base),
         base.state = "serving", Shaped(base.resources), Recorded(base.resources),
         Grounded(base.resources, Serving(base.resources)),
         NEW selection \in SUBSET DOMAIN base.resources
  PROVE  Grounded(KeptResources(run, base, selection), KeptOf(base, selection))
<1> DEFINE selected == RevocationClosure(base, selection)
           kept == KeptResources(run, base, selection)
           K == KeptOf(base, selection)
<1>1. K = Serving(base.resources) \ selected
  BY KeptServes
<1>2. ASSUME NEW id \in K
      PROVE  /\ kept[id].acl = base.resources[id].acl
             /\ kept[id].deps = CarriedDeps(run, id, base, selected)
             /\ kept[id].record = CarriedRecord(run, id, base, selected)
  <2>1. IsResource(base.resources[id])
    BY <1>1 DEF Serving, Shaped
  <2>2. kept[id] = CarriedForward(run, id, base, selected)
    BY DEF KeptResources
  <2> HIDE DEF kept, selected, K
  <2> QED
    BY <2>1, <2>2, CarriedIs, MetadataIs
<1>3. \A id \in K : CarriedDeps(run, id, base, selected) \subseteq base.resources[id].deps
  BY KeptDeps
<1> HIDE DEF selected, kept, K
<1>4. ASSUME NEW id \in K, TypeOf[id] = "claim"
      PROVE  /\ kept[id].record # None
             /\ RestsOn(id, kept[id]) \subseteq RestsOn(id, base.resources[id])
  <2> DEFINE c == base.resources[id].record
  <2>1. id \in DOMAIN base.resources /\ id \in Serving(base.resources)
    BY <1>1 DEF Serving
  <2>2. c # None
    BY <1>4, <2>1 DEF Grounded
  <2>3. ClaimShaped(c) /\ ClaimRecordResolves(id, base.resources)
    <3>1. ValidIn(base, id)
      BY <2>1, ValidByResource
    <3> QED
      BY <1>4, <2>1, <2>2, <3>1 DEF ValidIn, Recorded
  <2>4. kept[id].record = ReboundClaim(run, c)
    BY <1>2, <1>4, <2>2 DEF CarriedRecord
  <2>5. /\ ReboundClaim(run, c).document.id = c.document.id
        /\ EvidenceIds(ReboundClaim(run, c)) \subseteq EvidenceIds(c)
    BY <1>4, <2>3, ReboundRests
  <2>6. ReboundClaim(run, c) # None
    BY <2>3, ReboundClaimIs
  <2> QED
    BY <1>4, <2>4, <2>5, <2>6 DEF RestsOn
<1>5. ASSUME NEW id \in K, TypeOf[id] # "claim"
      PROVE  RestsOn(id, kept[id]) \subseteq RestsOn(id, base.resources[id])
  BY <1>2, <1>3, <1>5 DEF RestsOn
<1>6. K \subseteq Serving(base.resources)
  BY <1>1
<1>7. Grounded(kept, K)
  BY <1>2, <1>4, <1>5, <1>6, GroundedLike
<1> QED
  BY <1>7 DEF kept, K

-----------------------------------------------------------------------------
\* The invariant

\* A run was of one of the three kinds, and ended in one of the three ways.
RunKnown ==
  /\ last.kind \in {"none", "reconcile", "build", "revoke"}
  /\ last.outcome \in {"none", "succeeded", "failed", "refused"}

\* What is known of the last run and of what serves after it.
CatalogInv ==
  /\ BaseInv
  /\ RunKnown
  /\ PlansReplay
  /\ FailureWithheld
  /\ ReconciliationExact
  /\ RevocationExact

LEMMA PublicShaped ==
  ASSUME NEW run, NEW resources, Shaped(resources)
  PROVE  LET p == PublicProjection(run, resources)
         IN /\ p.version = run.target /\ p.state = "serving" /\ p.applied = {}
            /\ Shaped(p.resources) /\ DOMAIN p.resources = DOMAIN resources
            /\ \A id \in DOMAIN resources :
                 p.resources[id] = Metadata(resources[id].content, resources[id].acl, resources[id].source,
                   resources[id].projection, "serving", Succeeded, resources[id].deps, resources[id].record)
<1> DEFINE p == PublicProjection(run, resources)
           public == [id \in DOMAIN resources |->
                        [resources[id] EXCEPT !.state = "serving", !.status = Succeeded]]
<1>1. /\ p.version = run.target /\ p.state = "serving" /\ p.applied = {} /\ p.resources = public
  BY DEF PublicProjection
<1>2. ASSUME NEW id \in DOMAIN resources
      PROVE  public[id] = Metadata(resources[id].content, resources[id].acl, resources[id].source,
               resources[id].projection, "serving", Succeeded, resources[id].deps, resources[id].record)
  <2>1. IsResource(resources[id])
    BY DEF Shaped
  <2>2. public[id] = [resources[id] EXCEPT !.state = "serving", !.status = Succeeded]
    OBVIOUS
  <2> QED
    BY <2>1, <2>2, InStateAndStatus
<1>3. DOMAIN public = DOMAIN resources /\ public = [id \in DOMAIN public |-> public[id]]
  OBVIOUS
<1> HIDE DEF public
<1>4. \A id \in DOMAIN public : IsResource(public[id])
  BY <1>2, <1>3, MetadataIs
<1> QED
  BY <1>1, <1>2, <1>3, <1>4 DEF Shaped

LEMMA ReplayedShaped ==
  ASSUME NEW run, NEW base, NEW targets, NEW stale, Accepted(run, base, targets, stale), NEW failed
  PROVE  Shaped(Replayed(PlanOf(run, base, targets, stale), base, failed).resources)
<1> DEFINE S == DOMAIN targets \cup Stale(base, targets)
           results == Results(run, base, targets, stale, failed)
<1>1. stale \in {"revoke", "tombstone"} /\ Shaped(base.resources) /\ Shaped(targets)
  BY AcceptedFacts
<1>2. Replayed(PlanOf(run, base, targets, stale), base, failed).resources = results
  BY <1>1, ReplayedResources
<1>3. \A id \in S : IsResource(ResultOf(run, base, targets, stale, failed, id))
  BY <1>1, SameAsReplacement
<1>4. results = [id \in DOMAIN results |-> results[id]]
      /\ \A id \in DOMAIN results : IsResource(results[id])
  BY <1>3 DEF Results
<1> QED
  BY <1>2, <1>4 DEF Shaped

LEMMA PublicRecorded ==
  ASSUME NEW run, NEW resources, Shaped(resources), Recorded(resources)
  PROVE  Recorded(PublicProjection(run, resources).resources)
<1> DEFINE p == PublicProjection(run, resources).resources
<1>1. /\ DOMAIN p = DOMAIN resources
      /\ \A id \in DOMAIN resources :
           p[id] = Metadata(resources[id].content, resources[id].acl, resources[id].source,
             resources[id].projection, "serving", Succeeded, resources[id].deps, resources[id].record)
  BY PublicShaped
<1> HIDE DEF p
<1>2. \A id \in DOMAIN resources : p[id].record = resources[id].record
  BY <1>1, MetadataIs
<1> QED
  BY <1>1, <1>2 DEF Recorded, p

LEMMA ReplayedRecorded ==
  ASSUME NEW run, NEW base, NEW targets, NEW stale, Accepted(run, base, targets, stale),
         Recorded(base.resources), Recorded(targets)
  PROVE  Recorded(Replayed(PlanOf(run, base, targets, stale), base, {}).resources)
<1> DEFINE resources == Replayed(PlanOf(run, base, targets, stale), base, {}).resources
           S == DOMAIN targets \cup Stale(base, targets)
<1>1. stale \in {"revoke", "tombstone"} /\ Shaped(base.resources) /\ Shaped(targets)
  BY AcceptedFacts
<1>2. resources = Results(run, base, targets, stale, {})
  BY <1>1, ReplayedResources
<1> HIDE DEF resources
<1>3. DOMAIN resources = S
  BY <1>2 DEF Results
<1>4. S \subseteq Id
  BY StaleApart DEF Recorded
<1>5. ASSUME NEW id \in DOMAIN targets
      PROVE  resources[id].record = targets[id].record
  <2>1. resources[id] = ResultOf(run, base, targets, stale, {}, id)
    BY <1>2 DEF Results
  <2> QED
    BY <1>1, <2>1, ResultOfTarget, MetadataIs
<1>6. ASSUME NEW id \in Stale(base, targets)
      PROVE  resources[id].record = None
  <2>1. resources[id] = ResultOf(run, base, targets, stale, {}, id)
    BY <1>2 DEF Results
  <2> QED
    BY <1>1, <2>1, ResultOfStale, MetadataIs
<1> QED
  BY <1>3, <1>4, <1>5, <1>6 DEF Recorded, resources

LEMMA PublicGrounded ==
  ASSUME NEW run, NEW resources, Shaped(resources), Grounded(resources, DOMAIN resources)
  PROVE  LET p == PublicProjection(run, resources) IN Grounded(p.resources, Serving(p.resources))
<1> DEFINE p == PublicProjection(run, resources).resources
<1>1. /\ DOMAIN p = DOMAIN resources
      /\ \A id \in DOMAIN resources :
           p[id] = Metadata(resources[id].content, resources[id].acl, resources[id].source,
             resources[id].projection, "serving", Succeeded, resources[id].deps, resources[id].record)
  BY PublicShaped
<1> HIDE DEF p
<1>2. \A id \in DOMAIN resources : /\ p[id].record = resources[id].record
                                   /\ p[id].deps = resources[id].deps /\ p[id].acl = resources[id].acl
  BY <1>1, MetadataIs
<1>3. Serving(p) \subseteq DOMAIN resources
  BY <1>1 DEF Serving
<1>4. Grounded(p, Serving(p))
  BY <1>2, <1>3, SameGrounds
<1> QED
  BY <1>4 DEF p

LEMMA ReplayedGrounded ==
  ASSUME NEW run, NEW base, NEW targets, NEW stale, Accepted(run, base, targets, stale),
         Grounded(targets, DOMAIN targets)
  PROVE  LET p == Replayed(PlanOf(run, base, targets, stale), base, {})
         IN Grounded(p.resources, Serving(p.resources))
<1> DEFINE p == Replayed(PlanOf(run, base, targets, stale), base, {}).resources
<1>1. /\ Serving(p) = DOMAIN targets
      /\ \A id \in DOMAIN targets :
           p[id] = Metadata(targets[id].content, targets[id].acl, targets[id].source,
             targets[id].projection, "serving", Succeeded, targets[id].deps, targets[id].record)
  BY ReplayServes
<1> HIDE DEF p
<1>2. \A id \in DOMAIN targets : /\ p[id].record = targets[id].record
                                 /\ p[id].deps = targets[id].deps /\ p[id].acl = targets[id].acl
  BY <1>1, MetadataIs
<1>3. Grounded(p, Serving(p))
  BY <1>1, <1>2, SameGrounds
<1> QED
  BY <1>3 DEF p

\* The base of the next run.
LEMMA NextBase ==
  ASSUME BaseInv, NEW kind, NEW input, NEW run, NEW targets, NEW stale, NEW failed,
         current.version < MaxVersion, run.target = current.version + 1,
         Accepted(run, current, targets, stale), Recorded(targets), Grounded(targets, DOMAIN targets),
         Finish(kind, input, PlanOf(run, current, targets, stale), failed),
         kind = "build" => /\ Shaped(input) /\ Recorded(input) /\ Grounded(input, DOMAIN input)
                           /\ ProjectionValid(PublicProjection(run, input))
  PROVE  BaseInv'
<1> DEFINE plan == PlanOf(run, current, targets, stale)
           entry == [plan |-> plan, failed |-> {}]
<1>0. current.version \in Nat /\ run.target \in 0 .. MaxVersion /\ run.target > current.version
  BY CatalogLifecycleAssumption DEF BaseInv
<1>1. CASE failed # {}
  <2>1. current' = current
    BY <1>1, FinishIs
  <2> QED
    BY <2>1 DEF BaseInv
<1>2. CASE failed = {} /\ kind = "build"
  <2> DEFINE p == PublicProjection(run, input)
  <2>1. current' = p
    BY <1>2, FinishIs
  <2>2. p.version = run.target /\ p.state = "serving" /\ p.applied = {} /\ Shaped(p.resources)
    BY <1>2, PublicShaped
  <2>3. ProjectionValid(p)
    BY <1>2
  <2>4. Recorded(p.resources)
    BY <1>2, PublicRecorded
  <2>5. Grounded(p.resources, Serving(p.resources))
    BY <1>2, PublicGrounded
  <2> HIDE DEF p
  <2> QED
    BY <1>0, <2>1, <2>2, <2>3, <2>4, <2>5 DEF BaseInv
<1>3. CASE failed = {} /\ kind # "build"
  <2> DEFINE p == Replayed(plan, current, {})
  <2>1. current' = p
    BY <1>3, FinishIs
  <2>2. p.version = run.target /\ p.state = "serving"
    BY ReplayedIs
  <2>3. Shaped(p.resources) /\ ProjectionValid(p)
    BY ReplayedShaped, ReplayedValid
  <2>4. p.applied = current.applied \cup {entry}
    BY DEF Replayed
  <2>5. entry.plan.run = run
    BY DEF PlanOf
  <2>6. Recorded(p.resources)
    BY ReplayedRecorded DEF BaseInv
  <2>8. Grounded(p.resources, Serving(p.resources))
    BY ReplayedGrounded
  <2> HIDE DEF p, entry
  <2>7. ASSUME NEW a \in p.applied PROVE a.plan.run.target \in 0 .. p.version
    <3>1. CASE a = entry
      BY <3>1, <2>2, <2>5, <1>0
    <3>2. CASE a \in current.applied
      BY <3>2, <2>2, <1>0 DEF BaseInv
    <3> QED
      BY <3>1, <3>2, <2>4
  <2> QED
    BY <1>0, <2>1, <2>2, <2>3, <2>6, <2>7, <2>8 DEF BaseInv
<1> QED
  BY <1>1, <1>2, <1>3

LEMMA FinishReplays ==
  ASSUME NEW kind \in {"reconcile", "build", "revoke"}, NEW input, NEW run, NEW targets, NEW stale, NEW failed,
         Accepted(run, current, targets, stale),
         Finish(kind, input, PlanOf(run, current, targets, stale), failed)
  PROVE  RunKnown' /\ PlansReplay'
<1> DEFINE plan == PlanOf(run, current, targets, stale)
           outcome == IF failed = {} THEN "succeeded" ELSE "failed"
<1>1. last' = Finished(kind, input, current, plan, failed)
  BY FinishIs
<1>2. /\ last'.plan = plan /\ last'.base = current /\ last'.failed = failed
      /\ last'.outcome = outcome /\ last'.result = Replayed(plan, current, failed)
  BY <1>1, FinishedIs
<1>3. outcome # "refused"
  OBVIOUS
<1>8. RunKnown'
  <2>1. last'.kind = kind /\ last'.outcome = outcome
    BY <1>1, <1>2, FinishedIs
  <2> QED
    BY <2>1 DEF RunKnown
<1>4. \A o \in plan.operations : Replay([plan EXCEPT !.operations = @ \ {o}], current, {}) = {}
  BY NothingLess
<1>5. \A again : Replay(plan, Replayed(plan, current, failed), again)
                   = {[projection |-> Replayed(plan, current, failed), state |-> outcome, noop |-> TRUE]}
  BY RetryIs
<1> HIDE DEF plan, outcome
<1>6. ReplayStrict'
  BY <1>2, <1>4 DEF ReplayStrict
<1>7. RetryIsNoop'
  BY <1>2, <1>5 DEF RetryIsNoop
<1> QED
  BY <1>2, <1>3, <1>6, <1>7, <1>8 DEF PlansReplay

LEMMA FinishWithholds ==
  ASSUME NEW kind, NEW input, NEW run, NEW targets, NEW stale,
         NEW failed \in SUBSET PlanOf(run, current, targets, stale).operations,
         Accepted(run, current, targets, stale),
         Finish(kind, input, PlanOf(run, current, targets, stale), failed)
  PROVE  FailureWithheld'
<1> DEFINE plan == PlanOf(run, current, targets, stale)
           result == Replayed(plan, current, failed)
<1>1. last' = Finished(kind, input, current, plan, failed)
  BY FinishIs
<1>2. /\ last'.base = current /\ last'.failed = failed /\ last'.result = result
      /\ last'.outcome = IF failed = {} THEN "succeeded" ELSE "failed"
  BY <1>1, FinishedIs
<1>3. last'.outcome = "failed" => failed # {}
  BY <1>2
<1>4. ASSUME failed # {}
      PROVE  /\ Serving(result.resources) = {}
             /\ \A o \in failed : result.resources[o.id].state = "failed"
             /\ current' = current
  BY <1>4, FailureWithholds, FinishIs
<1> HIDE DEF result
<1> QED
  BY <1>2, <1>3, <1>4 DEF FailureWithheld

LEMMA FinishReconciles ==
  ASSUME BaseInv, NEW kind, NEW input, NEW run, NEW stale, NEW failed,
         Shaped(input), Accepted(run, current, Staged(input), stale),
         Finish(kind, input, PlanOf(run, current, Staged(input), stale), failed),
         kind # "revoke" => stale = "tombstone"
  PROVE  ReconciliationExact'
<1> DEFINE targets == Staged(input)
           plan == PlanOf(run, current, targets, stale)
           result == Replayed(plan, current, {})
<1>1. last' = Finished(kind, input, current, plan, failed)
  BY FinishIs
<1>2. /\ last'.kind = kind /\ last'.input = input /\ last'.base = current
      /\ last'.result = Replayed(plan, current, failed)
      /\ last'.outcome = IF failed = {} THEN "succeeded" ELSE "failed"
  BY <1>1, FinishedIs
<1> HIDE DEF plan
<1>3. SUFFICES ASSUME kind \in {"reconcile", "build"}, failed = {}
               PROVE  /\ Serving(result.resources) = DOMAIN input
                      /\ \A id \in DOMAIN input :
                           /\ Definition(id, result.resources[id]) = Definition(id, input[id])
                           /\ result.resources[id].record = input[id].record
                           /\ current'.resources[id] = result.resources[id]
                      /\ \A id \in Live(current.resources) \ DOMAIN input :
                           result.resources[id].state = "tombstoned" /\ result.resources[id].record = None
  <2>1. last'.outcome = "succeeded" => failed = {}
    BY <1>2
  <2>2. failed = {} => last'.result = result
    BY <1>2
  <2> HIDE DEF result
  <2> QED
    BY <1>2, <2>1, <2>2 DEF ReconciliationExact
<1> USE DEF plan
<1>4. DOMAIN targets = DOMAIN input
  BY StagedAre
<1>5. /\ Serving(result.resources) = DOMAIN targets
      /\ \A id \in DOMAIN targets :
           result.resources[id] = Metadata(targets[id].content, targets[id].acl, targets[id].source,
             targets[id].projection, "serving", Succeeded, targets[id].deps, targets[id].record)
      /\ \A id \in Stale(current, targets) :
           result.resources[id].state = Terminus(stale) /\ result.resources[id].record = None
  BY ReplayServes
<1>6. ASSUME NEW id \in DOMAIN input
      PROVE  result.resources[id] = Metadata(input[id].content, input[id].acl, input[id].source,
               input[id].projection, "serving", Succeeded, input[id].deps, input[id].record)
  <2>1. targets[id] = Metadata(input[id].content, input[id].acl, input[id].source,
          input[id].projection, "staged", Pending, input[id].deps, input[id].record)
    BY StagedAre
  <2>2. result.resources[id] = Metadata(targets[id].content, targets[id].acl, targets[id].source,
          targets[id].projection, "serving", Succeeded, targets[id].deps, targets[id].record)
    BY <1>4, <1>5
  <2> HIDE DEF targets, result
  <2>3. /\ targets[id].content = input[id].content /\ targets[id].acl = input[id].acl
        /\ targets[id].source = input[id].source /\ targets[id].projection = input[id].projection
        /\ targets[id].deps = input[id].deps /\ targets[id].record = input[id].record
    BY <2>1, MetadataIs
  <2> QED
    BY <2>2, <2>3
<1>7. ASSUME NEW id \in DOMAIN input
      PROVE  current'.resources[id] = result.resources[id]
  <2>1. CASE kind = "build"
    <3>1. current' = PublicProjection(run, input)
      BY <1>3, <2>1, FinishIs
    <3>2. PublicProjection(run, input).resources[id]
            = Metadata(input[id].content, input[id].acl, input[id].source,
                input[id].projection, "serving", Succeeded, input[id].deps, input[id].record)
      BY PublicShaped
    <3> QED
      BY <1>6, <3>1, <3>2
  <2>2. CASE kind = "reconcile"
    <3>1. current' = result
      BY <1>3, <2>2, FinishIs
    <3> QED
      BY <3>1
  <2> QED
    BY <1>3, <2>1, <2>2
<1>8. ASSUME NEW id \in DOMAIN input
      PROVE  /\ Definition(id, result.resources[id]) = Definition(id, input[id])
             /\ result.resources[id].record = input[id].record
  <2> HIDE DEF result
  <2>1. /\ result.resources[id].content = input[id].content /\ result.resources[id].acl = input[id].acl
        /\ result.resources[id].source = input[id].source /\ result.resources[id].deps = input[id].deps
        /\ result.resources[id].record = input[id].record
    BY <1>6, MetadataIs
  <2> QED
    BY <2>1 DEF Definition
<1>9. ASSUME NEW id \in Live(current.resources) \ DOMAIN input
      PROVE  result.resources[id].state = "tombstoned" /\ result.resources[id].record = None
  <2>1. id \in Stale(current, targets)
    BY <1>4 DEF Stale
  <2>2. Terminus(stale) = "tombstoned"
    BY <1>3 DEF Terminus
  <2> QED
    BY <1>5, <2>1, <2>2
<1> HIDE DEF result, targets
<1> QED
  BY <1>4, <1>5, <1>7, <1>8, <1>9

-----------------------------------------------------------------------------
\* The steps

LEMMA NoRunIs ==
  /\ NoRun.kind = "none" /\ NoRun.plan = None /\ NoRun.result = None /\ NoRun.outcome = "none"
BY DEF NoRun

LEMMA QuietInv ==
  ASSUME last = NoRun
  PROVE  RunKnown /\ PlansReplay /\ FailureWithheld /\ ReconciliationExact /\ RevocationExact
<1>1. last.kind = "none" /\ last.plan = None /\ last.result = None /\ last.outcome = "none"
  BY NoRunIs
<1> QED
  BY <1>1 DEF RunKnown, PlansReplay, ReplayStrict, RetryIsNoop, FailureWithheld, ReconciliationExact, RevocationExact

LEMMA InitInv ==
  ASSUME LifecycleInit
  PROVE  CatalogInv
<1>1. PICK f \in Founding : /\ CatalogValid(CatalogOf(f.workspace, InitialRun))
                             /\ current = InitialProjection(f.workspace, f.legacy)
                             /\ ProjectionValid(current)
  BY DEF LifecycleInit
<1> DEFINE catalog == CatalogOf(f.workspace, InitialRun)
           m == ResourceMetadata(catalog)
           resources == [id \in DOMAIN m |->
              [m[id] EXCEPT !.state = "serving", !.status = Succeeded,
                            !.record = IF id \in f.legacy THEN None ELSE @]]
<1>2. /\ current.version = 0 /\ current.state = "serving" /\ current.applied = {}
      /\ current.resources = resources
  BY <1>1 DEF InitialProjection
<1>3. Shaped(m) /\ Recorded(m) /\ Grounded(m, DOMAIN m)
  <2>1. Catalogued(catalog)
    BY CatalogLifecycleAssumption
  <2>2. OneAcl => \A x, y \in DOMAIN catalog : catalog[x].acl = catalog[y].acl
    BY DEF OneAcl
  <2> HIDE DEF catalog
  <2> QED
    BY <1>1, <2>1, <2>2, CatalogShaped, CatalogRecorded, CatalogGrounded DEF catalog
<1> HIDE DEF m
<1>4. ASSUME NEW id \in DOMAIN m
      PROVE  /\ IsResource(resources[id])
             /\ resources[id].record = IF id \in f.legacy THEN None ELSE m[id].record
             /\ resources[id].acl = m[id].acl /\ resources[id].deps = m[id].deps
  <2> DEFINE r == m[id]
             a == [r EXCEPT !.state = "serving"]
             b == [a EXCEPT !.status = Succeeded]
             c == [b EXCEPT !.record = IF id \in f.legacy THEN None ELSE @]
             record == IF id \in f.legacy THEN None ELSE r.record
  <2>1. IsResource(r)
    BY <1>3 DEF Shaped
  <2>2. resources[id] = [r EXCEPT !.state = "serving", !.status = Succeeded,
                                  !.record = IF id \in f.legacy THEN None ELSE @]
    OBVIOUS
  <2> HIDE DEF r, resources
  <2>3. resources[id] = c
    BY <2>1, <2>2 DEF IsResource, Metadata
  <2>4. b = Metadata(r.content, r.acl, r.source, r.projection, "serving", Succeeded, r.deps, r.record)
    <3>1. a = Metadata(r.content, r.acl, r.source, r.projection, "serving", r.status, r.deps, r.record)
      BY <2>1 DEF IsResource, Metadata
    <3> HIDE DEF a
    <3> QED
      BY <3>1 DEF Metadata
  <2>5. c = Metadata(r.content, r.acl, r.source, r.projection, "serving", Succeeded, r.deps, record)
    <3> HIDE DEF b
    <3> QED
      BY <2>4 DEF Metadata
  <2> HIDE DEF c
  <2>6. record = IF id \in f.legacy THEN None ELSE m[id].record
    BY DEF r
  <2> HIDE DEF record
  <2> QED
    BY <2>3, <2>5, <2>6, MetadataIs DEF r
<1>5. Shaped(resources) /\ DOMAIN resources = DOMAIN m
  BY <1>4 DEF Shaped
<1> HIDE DEF resources
<1>6. Recorded(resources)
  BY <1>3, <1>4, <1>5 DEF Recorded
<1>a. Grounded(resources, Serving(resources))
  <2>1. Serving(resources) \subseteq DOMAIN m
    BY <1>5 DEF Serving
  <2>2. \A id \in DOMAIN m : TypeOf[id] = "claim" => resources[id].record = m[id].record
    BY <1>4, CatalogLifecycleAssumption
  <2> QED
    BY <1>3, <1>4, <2>1, <2>2, SameGrounds
<1>7. BaseInv
  BY <1>1, <1>2, <1>5, <1>6, <1>a, CatalogLifecycleAssumption DEF BaseInv
<1>8. last = NoRun
  BY DEF LifecycleInit
<1> QED
  BY <1>7, <1>8, QuietInv DEF CatalogInv

LEMMA FailuresArePlanned ==
  ASSUME NEW plan, NEW failing, NEW failed \in Failures(plan, failing)
  PROVE  failed \in SUBSET plan.operations
BY DEF Failures

LEMMA ReconcileInv ==
  ASSUME BaseInv, current.version < MaxVersion, NEW workspace \in Workspace, NEW failing,
         Reconcile(workspace, failing)
  PROVE  CatalogInv'
<1> DEFINE run == ReconciliationRun(current, workspace)
           input == ResourceMetadata(CatalogOf(workspace, run))
<1>1. PICK plan \in PlanFullReconciliation(run, current, CatalogOf(workspace, run)) :
        \E failed \in Failures(plan, failing) : Finish("reconcile", input, plan, failed)
  BY DEF Reconcile
<1>2. PICK failed \in Failures(plan, failing) : Finish("reconcile", input, plan, failed)
  BY <1>1
<1>3. run.target = current.version + 1
  BY DEF ReconciliationRun, ScanRun
<1>4. plan \in PlanResources(run, current, input, "tombstone")
  BY <1>1 DEF PlanFullReconciliation
<1>5. Shaped(input) /\ Recorded(input) /\ Grounded(input, DOMAIN input)
  <2>0. run = ScanRun(current.version, workspace) /\ current.version \in 0 .. MaxVersion
    BY DEF BaseInv, ReconciliationRun
  <2>1. Catalogued(CatalogOf(workspace, run))
    BY <2>0, CatalogLifecycleAssumption
  <2>3. OneAcl => \A x, y \in DOMAIN CatalogOf(workspace, run) :
                    CatalogOf(workspace, run)[x].acl = CatalogOf(workspace, run)[y].acl
    BY <2>0 DEF OneAcl
  <2>2. CatalogValid(CatalogOf(workspace, run))
    BY <1>1 DEF PlanFullReconciliation
  <2> HIDE DEF run
  <2> QED
    BY <2>1, <2>2, <2>3, CatalogShaped, CatalogRecorded, CatalogGrounded
<1> HIDE DEF run, input
<1>6. Accepted(run, current, Staged(input), "tombstone") /\ plan = PlanOf(run, current, Staged(input), "tombstone")
  BY <1>3, <1>4, <1>5, PlanIsAccepted
<1>7. failed \in SUBSET plan.operations
  BY FailuresArePlanned
<1>a. Recorded(Staged(input)) /\ Grounded(Staged(input), DOMAIN Staged(input))
  BY <1>5, StagedRecorded, StagedGrounded
<1>8. BaseInv'
  BY <1>2, <1>3, <1>6, <1>a, NextBase
<1>9. RunKnown' /\ PlansReplay' /\ FailureWithheld'
  BY <1>2, <1>6, <1>7, FinishReplays, FinishWithholds
<1>10. ReconciliationExact'
  BY <1>2, <1>5, <1>6, FinishReconciles
<1>11. RevocationExact'
  <2>1. last'.kind = "reconcile"
    BY <1>2, <1>6, FinishIs, FinishedIs
  <2> QED
    BY <2>1 DEF RevocationExact
<1> QED
  BY <1>8, <1>9, <1>10, <1>11 DEF CatalogInv

LEMMA BuildInv ==
  ASSUME BaseInv, current.version < MaxVersion, NEW sources \in SourceSet, NEW failing,
         Build(sources, failing)
  PROVE  CatalogInv'
<1> DEFINE run == BuildRun(current, sources)
           input == Materialized(run, sources)
<1>1. PICK plan \in PlanBuild(current, sources) :
        \E failed \in Failures(plan, failing) : Finish("build", Materialized(plan.run, sources), plan, failed)
  BY DEF Build
<1>2. PICK failed \in Failures(plan, failing) : Finish("build", Materialized(plan.run, sources), plan, failed)
  BY <1>1
<1>3. run.target = current.version + 1
  BY DEF BuildRun
<1>4. plan \in PlanResources(run, current, input, "tombstone")
      /\ ProjectionValid(PublicProjection(run, input))
  BY <1>1 DEF PlanBuild, Publishable
<1>5. Shaped(input) /\ Recorded(input) /\ Grounded(input, DOMAIN input)
  BY MaterializedShaped, MaterializedRecorded, MaterializedGrounded
<1> HIDE DEF run
<1>6. Accepted(run, current, Staged(input), "tombstone") /\ plan = PlanOf(run, current, Staged(input), "tombstone")
  <2> HIDE DEF input
  <2> QED
    BY <1>3, <1>4, <1>5, PlanIsAccepted
<1>7. Finish("build", input, plan, failed)
  <2>1. plan.run = run
    BY <1>6 DEF PlanOf
  <2> QED
    BY <1>2, <2>1
<1>8. failed \in SUBSET plan.operations
  BY FailuresArePlanned
<1> HIDE DEF input
<1>a. Recorded(Staged(input)) /\ Grounded(Staged(input), DOMAIN Staged(input))
  BY <1>5, StagedRecorded, StagedGrounded
<1>9. BaseInv'
  BY <1>3, <1>4, <1>5, <1>6, <1>7, <1>a, NextBase
<1>10. RunKnown' /\ PlansReplay' /\ FailureWithheld'
  BY <1>6, <1>7, <1>8, FinishReplays, FinishWithholds
<1>11. ReconciliationExact'
  BY <1>5, <1>6, <1>7, FinishReconciles
<1>12. RevocationExact'
  <2>1. last'.kind = "build"
    BY <1>6, <1>7, FinishIs, FinishedIs
  <2> QED
    BY <2>1 DEF RevocationExact
<1> QED
  BY <1>9, <1>10, <1>11, <1>12 DEF CatalogInv

LEMMA FinishRevokes ==
  ASSUME BaseInv, NEW run, NEW selection \in SUBSET DOMAIN current.resources, NEW failed,
         Accepted(run, current, Staged(KeptResources(run, current, selection)), "revoke"),
         Finish("revoke", selection,
                PlanOf(run, current, Staged(KeptResources(run, current, selection)), "revoke"), failed)
  PROVE  RevocationExact'
<1> DEFINE input == KeptResources(run, current, selection)
           targets == Staged(input)
           plan == PlanOf(run, current, targets, "revoke")
           result == Replayed(plan, current, {})
           selected == RevocationClosure(current, selection)
           K == KeptOf(current, selection)
<1>1. last' = Finished("revoke", selection, current, plan, failed)
  BY FinishIs
<1>2. /\ last'.kind = "revoke" /\ last'.input = selection /\ last'.base = current
      /\ last'.result = Replayed(plan, current, failed)
      /\ last'.outcome = IF failed = {} THEN "succeeded" ELSE "failed"
  BY <1>1, FinishedIs
<1>3. IsFiniteSet(DOMAIN current.resources) /\ ProjectionValid(current) /\ current.state = "serving"
      /\ Shaped(current.resources) /\ Recorded(current.resources)
  BY CatalogProjectionAssumption, FS_Subset DEF BaseInv, Recorded
<1>4. K = Survivors(current, selection)
  BY <1>3, KeptSurvives
<1>5. SUFFICES /\ Serving(result.resources) = K
               /\ \A id \in K : /\ result.resources[id].content = current.resources[id].content
                                /\ result.resources[id].deps \subseteq K
               /\ \A id \in Live(current.resources) \ K :
                    result.resources[id].state = "revoked" /\ result.resources[id].record = None
  <2>1. last'.outcome = "succeeded" => last'.result = result
    BY <1>2
  <2> HIDE DEF result, K, plan
  <2> QED
    BY <1>2, <1>4, <2>1 DEF RevocationExact
<1>6. Shaped(input) /\ DOMAIN input = K
  BY <1>3, KeptShaped DEF KeptResources
<1>7. DOMAIN targets = K
      /\ \A id \in K :
           targets[id] = Metadata(input[id].content, input[id].acl, input[id].source,
             input[id].projection, "staged", Pending, input[id].deps, input[id].record)
  BY <1>6, StagedAre
<1>8. /\ Serving(result.resources) = DOMAIN targets
      /\ \A id \in DOMAIN targets :
           result.resources[id] = Metadata(targets[id].content, targets[id].acl, targets[id].source,
             targets[id].projection, "serving", Succeeded, targets[id].deps, targets[id].record)
      /\ \A id \in Stale(current, targets) :
           result.resources[id].state = Terminus("revoke") /\ result.resources[id].record = None
  BY ReplayServes
<1>9. ASSUME NEW id \in K
      PROVE  /\ input[id].content = current.resources[id].content
             /\ input[id].deps \subseteq K
  <2>1. IsResource(current.resources[id])
    BY <1>3 DEF KeptOf, Live, Shaped
  <2>2. input[id] = CarriedForward(run, id, current, selected)
    BY DEF KeptResources
  <2>3. CarriedDeps(run, id, current, selected) \subseteq K
    BY <1>3, KeptDeps
  <2> HIDE DEF input, K, selected
  <2> QED
    BY <2>1, <2>2, <2>3, CarriedIs, MetadataIs
<1> HIDE DEF input, targets, result, K
<1>10. ASSUME NEW id \in K
       PROVE  /\ result.resources[id].content = current.resources[id].content
              /\ result.resources[id].deps \subseteq K
  <2>1. targets[id].content = input[id].content /\ targets[id].deps = input[id].deps
    BY <1>7, MetadataIs
  <2>2. result.resources[id].content = targets[id].content /\ result.resources[id].deps = targets[id].deps
    BY <1>7, <1>8, MetadataIs
  <2> QED
    BY <1>9, <2>1, <2>2
<1>11. \A id \in Live(current.resources) \ K :
         result.resources[id].state = "revoked" /\ result.resources[id].record = None
  BY <1>7, <1>8 DEF Stale, Terminus
<1> QED
  BY <1>7, <1>8, <1>10, <1>11

LEMMA RevokeInv ==
  ASSUME BaseInv, current.version < MaxVersion, NEW selection, NEW failing,
         Revoke(selection, failing)
  PROVE  CatalogInv'
<1> DEFINE run == RevocationRun(current)
           kept == KeptResources(run, current, selection)
<1>1. PICK plan \in PlanRevocations(run, current, selection) :
        \E failed \in Failures(plan, failing) : Finish("revoke", selection, plan, failed)
  BY DEF Revoke
<1>2. PICK failed \in Failures(plan, failing) : Finish("revoke", selection, plan, failed)
  BY <1>1
<1>3. run.target = current.version + 1
  BY DEF RevocationRun
<1>4. plan \in PlanResources(run, current, kept, "revoke") /\ selection \in SUBSET DOMAIN current.resources
  BY RevocationPlans
<1>5. Shaped(kept) /\ Recorded(kept) /\ Grounded(kept, DOMAIN kept)
  <2>1. IsFiniteSet(DOMAIN current.resources)
    BY CatalogProjectionAssumption, FS_Subset DEF BaseInv, Recorded
  <2>2. DOMAIN kept = KeptOf(current, selection)
    BY DEF KeptResources
  <2> HIDE DEF run
  <2> QED
    BY <1>4, <2>1, <2>2, KeptShaped, KeptRecorded, KeptGrounded DEF BaseInv
<1> HIDE DEF run, kept
<1>6. Accepted(run, current, Staged(kept), "revoke") /\ plan = PlanOf(run, current, Staged(kept), "revoke")
  BY <1>3, <1>4, <1>5, PlanIsAccepted
<1>7. failed \in SUBSET plan.operations
  BY FailuresArePlanned
<1>a. Recorded(Staged(kept)) /\ Grounded(Staged(kept), DOMAIN Staged(kept))
  BY <1>5, StagedRecorded, StagedGrounded
<1>8. BaseInv'
  BY <1>2, <1>3, <1>6, <1>a, NextBase
<1>9. RunKnown' /\ PlansReplay' /\ FailureWithheld'
  BY <1>2, <1>6, <1>7, FinishReplays, FinishWithholds
<1>10. ReconciliationExact'
  <2>1. last' = Finished("revoke", selection, current, plan, failed)
    BY <1>2, <1>6, FinishIs
  <2>2. last'.kind = "revoke"
    BY <2>1, FinishedIs
  <2> QED
    BY <2>2 DEF ReconciliationExact
<1>11. RevocationExact'
  BY <1>2, <1>4, <1>6, FinishRevokes DEF kept
<1> QED
  BY <1>8, <1>9, <1>10, <1>11 DEF CatalogInv

LEMMA StepInv ==
  ASSUME CatalogInv, [LifecycleNext]_lifecycleVars
  PROVE  CatalogInv'
<1>1. BaseInv
  BY DEF CatalogInv
<1>2. ASSUME NEW failing, current.version < MaxVersion, RunWith(failing) PROVE CatalogInv'
  BY <1>1, <1>2, ReconcileInv, BuildInv, RevokeInv DEF RunWith
<1>3. CASE RunSucceeds
  BY <1>2, <1>3 DEF RunSucceeds
<1>4. CASE RunFails
  <2>1. current.version < MaxVersion
    BY <1>1, <1>4, CatalogLifecycleAssumption DEF RunFails, BaseInv
  <2> QED
    BY <1>2, <1>4, <2>1 DEF RunFails
<1>5. CASE Report
  <2>1. last' = NoRun /\ current' = current
    BY <1>5 DEF Report
  <2>2. BaseInv'
    BY <1>1, <2>1 DEF BaseInv
  <2>3. RunKnown' /\ PlansReplay' /\ FailureWithheld' /\ ReconciliationExact' /\ RevocationExact'
    <3>1. last'.kind = "none" /\ last'.plan = None /\ last'.result = None /\ last'.outcome = "none"
      BY <2>1, NoRunIs
    <3> QED
      BY <3>1 DEF RunKnown, PlansReplay, ReplayStrict, RetryIsNoop, FailureWithheld, ReconciliationExact, RevocationExact
  <2> QED
    BY <2>2, <2>3 DEF CatalogInv
<1>6. CASE UNCHANGED lifecycleVars
  BY <1>6 DEF lifecycleVars, CatalogInv, BaseInv, RunKnown, PlansReplay, ReplayStrict, RetryIsNoop,
              FailureWithheld, ReconciliationExact, RevocationExact
<1> QED
  BY <1>3, <1>4, <1>5, <1>6 DEF LifecycleNext, AtRest

\* The catalog's invariant: what is stated of each run, and of what serves
\* after it what the next run needs.
THEOREM CatalogInvariant == LifecycleSpec => []CatalogInv
<1> QED
  BY InitInv, StepInv, PTL DEF LifecycleSpec
-----------------------------------------------------------------------------
\* What a projection that serves is good for

\* A claim that serves rests on what serves.
LEMMA ClaimServes ==
  ASSUME NEW p, ProjectionValid(p), NEW id \in Serving(p.resources), TypeOf[id] = "claim",
         p.resources[id].record # None
  PROVE  LET c == p.resources[id].record
             serving == Serving(p.resources)
         IN /\ ClaimRecordValid(c) /\ ClaimRecordResolves(id, p.resources)
            /\ c.document.id \in serving /\ c.endpoints \subseteq serving
            /\ \A g \in c.groups : \A e \in g.evidence : e.pin.id \in serving
<1> DEFINE r == p.resources[id]
           c == r.record
<1>1. id \in DOMAIN p.resources /\ IsServing(id, r)
  BY DEF Serving
<1>2. ValidIn(p, id)
  BY <1>1, ValidByResource
<1>3. ClaimRecordValid(c) /\ ClaimRecordResolves(id, p.resources)
  BY <1>2 DEF ValidIn, ResourceValid
<1>4. r.deps \subseteq Serving(p.resources)
  BY <1>1, <1>2 DEF ValidIn, DependenciesValid
<1>5. /\ c.document.id \in r.deps /\ c.endpoints \subseteq r.deps
      /\ \A g \in c.groups : \A e \in g.evidence : e.pin.id \in r.deps
  BY <1>3 DEF ClaimRecordResolves
<1> QED
  BY <1>3, <1>4, <1>5

LEMMA BaseGrounded == BaseInv => SourceGrounded
<1> DEFINE resources == current.resources
           serving == Serving(resources)
<1>1. SUFFICES ASSUME BaseInv, NEW S \in (SUBSET serving) \ {{}}
               PROVE  \E id \in S : Supported(id, serving \ S, resources)
  BY DEF SourceGrounded
<1>2. PICK id \in S : RestsOn(id, resources[id]) \cap S = {}
  BY <1>1 DEF BaseInv, Grounded
<1>3. id \in DOMAIN resources /\ IsServing(id, resources[id])
  BY DEF Serving
<1>4. ValidIn(current, id)
  BY <1>1, <1>3, ValidByResource DEF BaseInv
<1>5. CASE TypeOf[id] = "claim"
  <2> DEFINE c == resources[id].record
  <2>1. c.document.id \in serving /\ \A g \in c.groups : \A e \in g.evidence : e.pin.id \in serving
    BY <1>1, <1>5, ClaimServes DEF BaseInv, Grounded
  <2>2. c.document.id \notin S /\ \A g \in c.groups : \A e \in g.evidence : e.pin.id \notin S
    BY <1>2, <1>5 DEF RestsOn, EvidenceIds
  <2> HIDE DEF serving
  <2>3. Supported(id, serving \ S, resources)
    BY <1>5, <2>1, <2>2 DEF Supported
  <2> QED
    BY <2>3
<1>6. CASE TypeOf[id] = "artifact"
  <2> DEFINE s == resources[id].record
  <2>1. s # None
    BY <1>3, <1>6 DEF IsServing
  <2>2. s.mode \in {"any_support", "all_required"} /\ SecurityRecordResolves(id, resources)
    BY <1>4, <1>6, <2>1 DEF ValidIn, ResourceValid, SecurityRecordValid
  <2>3. ASSUME NEW g \in s.groups, GroupServing(g, resources)
        PROVE  {p.id : p \in g.pins} \subseteq serving \ S
    <3>1. \A p \in g.pins : p.id \in DOMAIN resources /\ p.id \in resources[id].deps
      BY <2>2 DEF SecurityRecordResolves, Resolves
    <3>2. \A p \in g.pins : p.id \notin S
      BY <1>2, <1>6, <3>1 DEF RestsOn
    <3>3. \A p \in g.pins : p.id \in serving
      BY <2>3, <3>1 DEF GroupServing, Serving
    <3> HIDE DEF serving
    <3> QED
      BY <3>2, <3>3
  <2> HIDE DEF serving
  <2>4. CASE s.mode = "any_support"
    <3>1. PICK g \in s.groups : g.complete /\ GroupServing(g, resources)
      BY <1>3, <2>2, <2>4 DEF SecurityRecordResolves
    <3>2. {p.id : p \in g.pins} \subseteq serving \ S
      BY <2>3, <3>1
    <3>3. Supported(id, serving \ S, resources)
      BY <1>6, <2>4, <3>1, <3>2 DEF Supported, Stands
    <3> QED
      BY <3>3
  <2>5. CASE s.mode = "all_required"
    <3>1. \A g \in s.groups : GroupServing(g, resources)
      BY <1>3, <2>2, <2>5 DEF SecurityRecordResolves
    <3>2. \A g \in s.groups : {p.id : p \in g.pins} \subseteq serving \ S
      BY <2>3, <3>1
    <3>3. Supported(id, serving \ S, resources)
      BY <1>6, <2>5, <3>2 DEF Supported, Stands
    <3> QED
      BY <3>3
  <2> QED
    BY <2>2, <2>4, <2>5
<1>7. CASE TypeOf[id] \notin {"claim", "artifact"}
  <2>1. resources[id].deps \subseteq serving
    BY <1>3, <1>4, <1>7 DEF ValidIn, DependenciesValid
  <2>2. resources[id].deps \cap S = {}
    BY <1>2, <1>7 DEF RestsOn
  <2> HIDE DEF serving
  <2>3. Supported(id, serving \ S, resources)
    BY <1>7, <2>1, <2>2 DEF Supported, Stands
  <2> QED
    BY <2>3
<1> QED
  BY <1>5, <1>6, <1>7

LEMMA Derivable ==
  ASSUME NEW p, ProjectionValid(p), Serving(p.resources) # {},
         \A id \in Serving(p.resources) : TypeOf[id] = "claim" => p.resources[id].record # None,
         \A x, y \in Serving(p.resources) : p.resources[x].acl = p.resources[y].acl
  PROVE  GraphResourcesValid(p) /\ GraphClaimsValid(p)
<1> DEFINE resources == p.resources
           serving == Serving(resources)
           bound == GraphResources(p)
<1>1. ASSUME NEW id \in serving
      PROVE  /\ id \in DOMAIN resources /\ IsServing(id, resources[id]) /\ ValidIn(p, id)
             /\ resources[id].source = p.snapshot.version
             /\ resources[id].projection = p.version
  BY ValidByResource DEF Serving, ValidIn
<1>2. \A id \in serving : TypeOf[id] # "claim" => id \in bound
  BY DEF GraphResources
<1>3. bound \subseteq serving
  BY DEF GraphResources
<1>4. bound # {}
  <2>1. PICK id \in serving : TRUE
    OBVIOUS
  <2>2. CASE TypeOf[id] = "claim"
    <3>1. /\ p.resources[id].record.document.id \in serving
          /\ TypeOf[p.resources[id].record.document.id] = "document"
      BY <2>2, ClaimServes DEF ClaimRecordResolves
    <3> QED
      BY <1>2, <3>1
  <2> QED
    BY <1>2, <2>2
<1>5. ASSUME NEW id \in bound, TypeOf[id] = "chunk" PROVE ParentOf[id] \in bound
  <2>1. id \in serving
    BY <1>3
  <2>2. IsServing(ParentOf[id], resources[ParentOf[id]]) /\ InheritsDocument(id, resources)
    BY <1>1, <1>5, <2>1 DEF ValidIn
  <2>3. ParentOf[id] \in serving /\ TypeOf[ParentOf[id]] = "document"
    BY <2>2 DEF InheritsDocument, Serving
  <2> QED
    BY <1>2, <2>3
<1>6. \A x, y \in bound : /\ resources[x].source = resources[y].source
                          /\ resources[x].acl = resources[y].acl
                          /\ resources[x].projection = resources[y].projection
  BY <1>1, <1>3
<1>7. GraphResourcesValid(p)
  BY <1>4, <1>5, <1>6 DEF GraphResourcesValid
<1>8. ASSUME NEW id \in GraphClaims(p)
      PROVE  LET c == resources[id].record
             IN /\ c.document.id \in bound
                /\ c.document.source = resources[c.document.id].source
                /\ c.endpoints # {}
                /\ \A x \in c.endpoints : x \in bound /\ TypeOf[x] = "entity"
                /\ \A g \in c.groups : \A e \in g.evidence :
                     /\ e.pin.id \in bound
                     /\ TypeOf[e.pin.id] \in {"document", "chunk"}
                     /\ ParentOf[e.pin.id] = c.document.id
  <2> DEFINE c == resources[id].record
  <2>1. id \in bound /\ TypeOf[id] = "claim"
    BY DEF GraphClaims
  <2>2. c.bound /\ id \in serving
    BY <2>1 DEF GraphResources
  <2>3. /\ ClaimRecordValid(c) /\ ClaimRecordResolves(id, resources)
        /\ c.document.id \in serving /\ c.endpoints \subseteq serving
        /\ \A g \in c.groups : \A e \in g.evidence : e.pin.id \in serving
    BY <2>1, <2>2, ClaimServes
  <2>4. TypeOf[c.document.id] = "document" /\ Resolves(c.document, resources)
    BY <2>3 DEF ClaimRecordResolves
  <2>5. c.document.source = resources[c.document.id].source
    BY <2>4 DEF Resolves, Pin
  <2>6. \A g \in c.groups : \A e \in g.evidence :
          /\ TypeOf[e.pin.id] \in {"document", "chunk"} /\ ParentOf[e.pin.id] = c.document.id
    BY <2>2, <2>3 DEF ClaimRecordValid, ClaimRecordResolves
  <2>7. c.endpoints # {} /\ \A x \in c.endpoints : TypeOf[x] = "entity"
    BY <2>2, <2>3 DEF ClaimRecordValid, ClaimRecordResolves
  <2>8. c.document.id \in bound
    BY <1>2, <2>3, <2>4
  <2>9. \A x \in c.endpoints : x \in bound
    BY <1>2, <2>3, <2>7
  <2>10. \A g \in c.groups : \A e \in g.evidence : e.pin.id \in bound
    BY <1>2, <2>3, <2>6
  <2> QED
    BY <2>5, <2>6, <2>7, <2>8, <2>9, <2>10
<1>9. GraphClaimsValid(p)
  BY <1>8 DEF GraphClaimsValid
<1> QED
  BY <1>7, <1>9

LEMMA BaseDerivable == BaseInv /\ OneAcl => GraphDerivable
<1> SUFFICES ASSUME BaseInv, OneAcl, Serving(current.resources) # {}
             PROVE  GraphResourcesValid(current) /\ GraphClaimsValid(current)
  BY DEF GraphDerivable
<1> QED
  BY Derivable DEF BaseInv, Grounded

-----------------------------------------------------------------------------
\* Plans that are not refused

\* A claim and an artifact with the records that a plan may carry.
ClaimSound(id, t) ==
  LET r == t[id]
  IN /\ ClaimRecordValid(r.record)
     /\ r.record.document.source = r.source
     /\ r.record.document.acl = r.acl
     /\ r.record.document.projection = r.projection
     /\ EvidenceCurrent(r, r.record.groups)
     /\ ClaimRecordResolves(id, t)

ArtifactSound(id, t) ==
  LET r == t[id]
      pins == UNION {g.pins : g \in r.record.groups}
  IN /\ r.record # None
     /\ SecurityRecordValid(r.record)
     /\ r.record.artifact = Pin(id, r)
     /\ \A p \in pins : Resolves(p, t)
     /\ r.deps = {p.id : p \in pins}

\* Resources that a plan is made for, by which no validator stops it.
SoundIn(run, id, t) ==
  LET r == t[id]
  IN /\ r.source = run.snapshot.version /\ r.projection = run.target
     /\ id \notin r.deps /\ r.deps \subseteq DOMAIN t
     /\ TypeOf[id] \notin {"document", "chunk"} => r.deps # {}
     /\ TypeOf[id] \notin {"claim", "artifact"} => r.record = None
     /\ (TypeOf[id] = "claim" /\ r.record # None) => ClaimSound(id, t)
     /\ TypeOf[id] = "artifact" => ArtifactSound(id, t)
     /\ TypeOf[id] = "chunk" => InheritsDocument(id, t)

Sound(run, t) == \A id \in DOMAIN t : SoundIn(run, id, t)

\* Resources are as sound as others that differ in state and status, also
\* when there are more.
LEMMA SoundLike ==
  ASSUME NEW run, NEW t, NEW q, DOMAIN t \subseteq DOMAIN q,
         \A id \in DOMAIN t : SameResource(q[id], t[id]),
         NEW id \in DOMAIN t, SoundIn(run, id, t)
  PROVE  SoundIn(run, id, q)
<1>1. \A x \in DOMAIN t : Pin(x, q[x]) = Pin(x, t[x])
  BY DEF Pin, SameResource
<1>2. \A pin : Resolves(pin, t) => Resolves(pin, q)
  BY <1>1 DEF Resolves
<1> DEFINE r == q[id]
           s == t[id]
<1>3. /\ r.source = s.source /\ r.acl = s.acl /\ r.projection = s.projection
      /\ r.deps = s.deps /\ r.record = s.record /\ Pin(id, r) = Pin(id, s)
  BY <1>1 DEF SameResource
<1>4. EvidenceCurrent(r, r.record.groups) <=> EvidenceCurrent(s, s.record.groups)
  BY <1>3 DEF EvidenceCurrent
<1>5. ClaimRecordResolves(id, t) => ClaimRecordResolves(id, q)
  BY <1>2, <1>3 DEF ClaimRecordResolves
<1>6. InheritsDocument(id, t) => InheritsDocument(id, q)
  BY <1>3 DEF InheritsDocument, SameResource
<1>7. ClaimSound(id, t) => ClaimSound(id, q)
  <2> HIDE DEF r, s
  <2> QED
    BY <1>3, <1>4, <1>5 DEF ClaimSound, r, s
<1>8. ArtifactSound(id, t) => ArtifactSound(id, q)
  <2> HIDE DEF r, s
  <2> QED
    BY <1>2, <1>3 DEF ArtifactSound, r, s
<1> HIDE DEF r, s
<1> QED
  BY <1>3, <1>6, <1>7, <1>8 DEF SoundIn, r, s

\* What is sound is valid in a projection that serves all of it.
LEMMA SoundValid ==
  ASSUME NEW run, NEW t, NEW p, Sound(run, t), DOMAIN t \subseteq DOMAIN p.resources,
         p.version = run.target, p.snapshot = run.snapshot, p.state = "serving",
         \A id \in DOMAIN t : /\ SameResource(p.resources[id], t[id])
                              /\ p.resources[id].state = "serving" /\ p.resources[id].status = Succeeded,
         NEW id \in DOMAIN t
  PROVE  ValidIn(p, id)
<1> DEFINE q == p.resources
           r == q[id]
<1>1. ASSUME NEW x \in DOMAIN t PROVE SoundIn(run, x, q)
  BY SoundLike DEF Sound
<1>2. ASSUME NEW x \in DOMAIN t PROVE IsServing(x, q[x])
  <2>1. Ready(q[x])
    BY DEF Ready, Succeeded
  <2>2. TypeOf[x] = "artifact" => q[x].record # None
    BY <1>1 DEF SoundIn, ArtifactSound
  <2> QED
    BY <2>1, <2>2 DEF IsServing
<1>3. SoundIn(run, id, q) /\ IsServing(id, r) /\ Ready(r)
  BY <1>1, <1>2 DEF IsServing
<1>4. r.deps \subseteq DOMAIN t
  BY DEF Sound, SoundIn, SameResource
<1>5. \A x \in r.deps : IsServing(x, q[x]) /\ x \in DOMAIN q
  BY <1>2, <1>4
<1> HIDE DEF q, r
<1>6. ResourceValid(id, r)
  BY <1>3 DEF ResourceValid, SoundIn, ClaimSound, ArtifactSound, r
<1>7. (TypeOf[id] = "claim" /\ r.record # None) => ClaimRecordResolves(id, q)
  BY <1>3 DEF SoundIn, ClaimSound, r
<1>8. (TypeOf[id] = "artifact" /\ r.record # None) => SecurityRecordResolves(id, q)
  <2> SUFFICES ASSUME TypeOf[id] = "artifact" PROVE SecurityRecordResolves(id, q)
    OBVIOUS
  <2> DEFINE s == r.record
  <2>1. ArtifactSound(id, q)
    BY <1>3 DEF SoundIn
  <2>2. /\ s.mode \in {"any_support", "all_required"} /\ s.groups # {}
        /\ s.mode = "any_support" => \A g \in s.groups : g.complete
    BY <2>1 DEF ArtifactSound, SecurityRecordValid, r
  <2>3. /\ \A p_1 \in UNION {g.pins : g \in s.groups} : Resolves(p_1, q)
        /\ r.deps = {p_1.id : p_1 \in UNION {g.pins : g \in s.groups}}
    BY <2>1 DEF ArtifactSound, r
  <2>4. \A g \in s.groups : GroupServing(g, q)
    BY <1>5, <2>3 DEF GroupServing
  <2> HIDE DEF s
  <2>5. s.mode = "any_support" => \E g \in s.groups : g.complete /\ GroupServing(g, q)
    BY <2>2, <2>4
  <2> QED
    BY <2>2, <2>3, <2>4, <2>5 DEF SecurityRecordResolves, s, r
<1>9. DependenciesValid(id, q)
  BY <1>3, <1>5 DEF DependenciesValid, SoundIn, Serving, r
<1>10. TypeOf[id] = "chunk" => IsServing(ParentOf[id], q[ParentOf[id]]) /\ InheritsDocument(id, q)
  <2> SUFFICES ASSUME TypeOf[id] = "chunk" PROVE IsServing(ParentOf[id], q[ParentOf[id]]) /\ InheritsDocument(id, q)
    OBVIOUS
  <2>1. ParentOf[id] \in DOMAIN t
    BY DEF Sound, SoundIn, InheritsDocument
  <2> QED
    BY <1>2, <1>3, <2>1 DEF SoundIn
<1>11. r.projection = p.version /\ r.source = p.snapshot.version
  BY <1>3 DEF SoundIn, r
<1> QED
  BY <1>3, <1>6, <1>7, <1>8, <1>9, <1>10, <1>11 DEF ValidIn, q, r

\* A set of documents has as many as they have ids.
LEMMA CountedOnce ==
  ASSUME NEW D, NEW S, IsFiniteSet(S), \A d \in D : d.id \in S,
         \A x, y \in D : x.id = y.id => x = y, \A s \in S : \E d \in D : d.id = s
  PROVE  Cardinality(D) = Cardinality(S)
<1> DEFINE f == [s \in S |-> CHOOSE d \in D : d.id = s]
<1>1. \A s \in S : f[s] \in D /\ f[s].id = s
  OBVIOUS
<1>2. f \in [S -> D]
  BY <1>1
<1> HIDE DEF f
<1>3. \A a, b \in S : f[a] = f[b] => a = b
  BY <1>1
<1>4. \A d \in D : \E s \in S : f[s] = d
  BY <1>1
<1>5. f \in Injection(S, D) /\ f \in Surjection(S, D)
  BY <1>2, <1>3, <1>4 DEF Injection, IsInjective, Surjection
<1>6. ExistsBijection(S, D)
  BY <1>5 DEF ExistsBijection, Bijection
<1> QED
  BY <1>6, FS_Bijection

\* What a projection that serves has for the runs to come: what is live rests
\* on what is, a chunk on its document, and the snapshot knows the documents.
Snapshotted(snapshot, resources) ==
  /\ \A x, y \in snapshot.documents : x.id = y.id => x = y
  /\ \A d \in snapshot.documents : TypeOf[d.id] = "document"
  /\ \A id \in Serving(resources) :
       TypeOf[id] = "document" => \E d \in snapshot.documents : d.id = id

Whole(p) ==
  /\ \A id \in Live(p.resources) : p.resources[id].deps \subseteq Live(p.resources)
  /\ \A id \in Serving(p.resources) :
       TypeOf[id] = "chunk" => ParentOf[id] \in p.resources[id].deps
  /\ Snapshotted(p.snapshot, p.resources)

LEMMA ReplacementHas ==
  ASSUME NEW run, NEW base, NEW targets, NEW stale, Shaped(base.resources), Shaped(targets)
  PROVE  LET p == Replacement(run, base, targets, stale)
         IN /\ p.version = run.target /\ p.snapshot = run.snapshot /\ p.state = "serving"
            /\ DOMAIN p.resources = DOMAIN targets \cup Stale(base, targets)
            /\ \A id \in DOMAIN targets :
                 /\ SameResource(p.resources[id], targets[id])
                 /\ p.resources[id].state = "serving" /\ p.resources[id].status = Succeeded
            /\ \A id \in Stale(base, targets) :
                 /\ p.resources[id].state = Terminus(stale) /\ p.resources[id].record = None
                 /\ p.resources[id].source = run.snapshot.version
                 /\ p.resources[id].projection = run.target
                 /\ p.resources[id].deps = base.resources[id].deps
<1> DEFINE replaced(id) == IF id \in DOMAIN targets
              THEN [targets[id] EXCEPT !.state = "serving", !.status = Succeeded]
              ELSE Ended(run, base.resources[id], Terminus(stale))
<1>1. /\ Replacement(run, base, targets, stale).version = run.target
      /\ Replacement(run, base, targets, stale).snapshot = run.snapshot
      /\ Replacement(run, base, targets, stale).state = "serving"
      /\ Replacement(run, base, targets, stale).resources =
           [id \in DOMAIN targets \cup Stale(base, targets) |-> replaced(id)]
  BY DEF Replacement
<1>2. ASSUME NEW id \in DOMAIN targets
      PROVE  /\ SameResource(replaced(id), targets[id])
             /\ replaced(id).state = "serving" /\ replaced(id).status = Succeeded
  <2> DEFINE r == targets[id]
  <2>1. replaced(id) = Metadata(r.content, r.acl, r.source, r.projection, "serving", Succeeded, r.deps, r.record)
    BY InStateAndStatus DEF Shaped
  <2> HIDE DEF replaced, r
  <2>2. /\ replaced(id).content = r.content /\ replaced(id).acl = r.acl /\ replaced(id).source = r.source
        /\ replaced(id).projection = r.projection /\ replaced(id).deps = r.deps /\ replaced(id).record = r.record
        /\ replaced(id).state = "serving" /\ replaced(id).status = Succeeded
    BY <2>1, MetadataIs
  <2> QED
    BY <2>2 DEF SameResource, r
<1>3. ASSUME NEW id \in Stale(base, targets)
      PROVE  /\ replaced(id).state = Terminus(stale) /\ replaced(id).record = None
             /\ replaced(id).source = run.snapshot.version /\ replaced(id).projection = run.target
             /\ replaced(id).deps = base.resources[id].deps
  <2> DEFINE r == base.resources[id]
  <2>1. IsResource(r) /\ replaced(id) = Ended(run, r, Terminus(stale))
    BY StaleApart DEF Shaped
  <2>2. replaced(id) = Metadata(r.content, r.acl, run.snapshot.version, run.target, Terminus(stale), r.status, r.deps, None)
    BY <2>1, EndedIs
  <2> HIDE DEF replaced
  <2> QED
    BY <2>2, MetadataIs
<1> HIDE DEF replaced
<1> QED
  BY <1>1, <1>2, <1>3

\* What ends in a run is valid where it ended: it rests on what was live too.
LEMMA EndedValid ==
  ASSUME NEW run, NEW base, NEW targets, NEW stale \in {"revoke", "tombstone"},
         Shaped(base.resources), Shaped(targets), ProjectionValid(base), Whole(base),
         NEW id \in Stale(base, targets)
  PROVE  ValidIn(Replacement(run, base, targets, stale), id)
<1> DEFINE p == Replacement(run, base, targets, stale)
           r == p.resources[id]
<1>1. /\ p.version = run.target /\ p.snapshot = run.snapshot /\ p.state = "serving"
      /\ DOMAIN p.resources = DOMAIN targets \cup Stale(base, targets)
      /\ r.state = Terminus(stale) /\ r.record = None
      /\ r.source = run.snapshot.version /\ r.projection = run.target
      /\ r.deps = base.resources[id].deps
  BY ReplacementHas
<1>2. r.state \in {"revoked", "tombstoned"}
  BY <1>1 DEF Terminus
<1>3. id \in Live(base.resources) /\ id \in DOMAIN base.resources
  BY StaleApart
<1>4. id \notin base.resources[id].deps
  BY <1>3, ValidByResource DEF ValidIn, ResourceValid
<1>5. base.resources[id].deps \subseteq DOMAIN targets \cup Stale(base, targets)
  BY <1>3 DEF Whole, Stale
<1> HIDE DEF p
<1>6. ResourceValid(id, r)
  BY <1>1, <1>2, <1>4 DEF ResourceValid
<1>7. ~IsServing(id, r) /\ IsTerminal(r)
  BY <1>2 DEF IsServing, IsTerminal
<1>8. DependenciesValid(id, p.resources)
  BY <1>1, <1>5, <1>7 DEF DependenciesValid
<1> QED
  BY <1>1, <1>6, <1>7, <1>8 DEF ValidIn, p

\* Resources by which no validator stops it are planned.
LEMMA SoundPlans ==
  ASSUME BaseInv, Whole(current), NEW run, run.base = current.version, run.target = current.version + 1,
         NEW desired, Shaped(desired), Sound(run, desired), NEW stale \in {"revoke", "tombstone"},
         Cardinality(SnapshotDocuments(Replacement(run, current, Staged(desired), stale).resources))
           = run.snapshot.count
  PROVE  PlanResources(run, current, desired, stale) # {}
<1> DEFINE targets == Staged(desired)
           p == Replacement(run, current, targets, stale)
<1>1. /\ DOMAIN targets = DOMAIN desired /\ Shaped(targets)
      /\ \A id \in DOMAIN targets : /\ SameResource(targets[id], desired[id])
                                    /\ targets[id].state = "staged"
  <2>1. /\ DOMAIN targets = DOMAIN desired /\ Shaped(targets)
        /\ \A id \in DOMAIN desired :
             targets[id] = Metadata(desired[id].content, desired[id].acl, desired[id].source,
               desired[id].projection, "staged", Pending, desired[id].deps, desired[id].record)
    BY StagedAre
  <2> HIDE DEF targets
  <2>2. ASSUME NEW id \in DOMAIN desired
        PROVE  SameResource(targets[id], desired[id]) /\ targets[id].state = "staged"
    <3>1. /\ targets[id].content = desired[id].content /\ targets[id].acl = desired[id].acl
          /\ targets[id].source = desired[id].source /\ targets[id].projection = desired[id].projection
          /\ targets[id].deps = desired[id].deps /\ targets[id].record = desired[id].record
          /\ targets[id].state = "staged"
      BY <2>1, MetadataIs
    <3> QED
      BY <3>1 DEF SameResource
  <2> QED
    BY <2>1, <2>2
<1>2. targets = [id \in DOMAIN desired |-> [desired[id] EXCEPT !.state = "staged", !.status = Pending]]
  BY DEF Staged
<1> HIDE DEF targets
<1>3. Sound(run, targets)
  BY <1>1, SoundLike DEF Sound
<1>4. PlannableRun(run, current)
  <2>1. current.version # run.target
    BY CatalogLifecycleAssumption DEF BaseInv
  <2> QED
    BY <2>1 DEF PlannableRun, BaseInv
<1>5. ASSUME NEW id \in DOMAIN targets PROVE Acceptable(run, id, targets[id])
  <2> DEFINE r == targets[id]
  <2>1. SoundIn(run, id, targets) /\ r.state = "staged"
    BY <1>1, <1>3 DEF Sound
  <2>2. ResourceValid(id, r)
    BY <2>1 DEF ResourceValid, SoundIn, ClaimSound, ArtifactSound
  <2> QED
    BY <2>1, <2>2 DEF Acceptable, SoundIn, ArtifactSound
<1>6. ChunksBounded(targets)
  BY <1>3 DEF ChunksBounded, Sound, SoundIn
<1>7. ProjectionValid(p)
  <2>1. /\ p.version = run.target /\ p.snapshot = run.snapshot /\ p.state = "serving"
        /\ DOMAIN p.resources = DOMAIN targets \cup Stale(current, targets)
        /\ \A id \in DOMAIN targets : /\ SameResource(p.resources[id], targets[id])
                                      /\ p.resources[id].state = "serving" /\ p.resources[id].status = Succeeded
    BY <1>1, ReplacementHas DEF BaseInv
  <2>2. \A id \in Stale(current, targets) : ValidIn(p, id)
    BY <1>1, EndedValid DEF BaseInv
  <2>3. Cardinality(SnapshotDocuments(p.resources)) = run.snapshot.count
    BY DEF targets
  <2> HIDE DEF p
  <2>4. \A id \in DOMAIN targets : ValidIn(p, id)
    BY <1>3, <2>1, SoundValid
  <2> QED
    BY <2>1, <2>2, <2>3, <2>4, ValidByResource
<1> HIDE DEF p
<1>8. PlanResources(run, current, desired, stale)
        = {[run |-> run, operations |-> Operations(run, current, targets, stale)]}
  BY <1>2, <1>4, <1>5, <1>6, <1>7 DEF PlanResources, p
<1> QED
  BY <1>8

\* The documents that a replacement counts.
LEMMA ReplacedDocuments ==
  ASSUME NEW run, NEW base, NEW targets, NEW stale \in {"revoke", "tombstone"},
         Shaped(base.resources), Shaped(targets)
  PROVE  SnapshotDocuments(Replacement(run, base, targets, stale).resources)
           = {id \in DOMAIN targets \cup (IF stale = "revoke" THEN Stale(base, targets) ELSE {}) :
                TypeOf[id] = "document"}
<1> DEFINE q == Replacement(run, base, targets, stale).resources
<1>1. /\ DOMAIN q = DOMAIN targets \cup Stale(base, targets)
      /\ \A id \in DOMAIN targets : q[id].state = "serving" /\ q[id].status = Succeeded
      /\ \A id \in Stale(base, targets) : q[id].state = Terminus(stale)
  BY ReplacementHas
<1> HIDE DEF q
<1>2. ASSUME NEW id \in DOMAIN targets, TypeOf[id] = "document" PROVE IsServing(id, q[id])
  BY <1>1, <1>2 DEF IsServing, Ready, Succeeded
<1>3. ASSUME NEW id \in Stale(base, targets)
      PROVE  ~IsServing(id, q[id]) /\ (q[id].state = "revoked" <=> stale = "revoke")
  BY <1>1 DEF IsServing, Terminus
<1>4. Stale(base, targets) \cap DOMAIN targets = {}
  BY StaleApart
<1> QED
  BY <1>1, <1>2, <1>3, <1>4 DEF SnapshotDocuments, q

-----------------------------------------------------------------------------
\* What a revocation keeps is sound

\* What the lemmas below assume of the base and the run of a revocation.
Revocable(run, base, selection) ==
  /\ IsFiniteSet(DOMAIN base.resources) /\ Shaped(base.resources) /\ Recorded(base.resources)
  /\ ProjectionValid(base) /\ base.state = "serving" /\ Whole(base)
  /\ Grounded(base.resources, Serving(base.resources))
  /\ run.snapshot.version = base.snapshot.version
  /\ selection \in SUBSET DOMAIN base.resources

LEMMA KeptIs ==
  ASSUME NEW run, NEW base, NEW selection, Revocable(run, base, selection),
         NEW id \in KeptOf(base, selection)
  PROVE  LET r == base.resources[id]
             k == KeptResources(run, base, selection)[id]
         IN /\ id \in DOMAIN base.resources /\ IsServing(id, r) /\ ValidIn(base, id)
            /\ k.content = r.content /\ k.acl = r.acl
            /\ k.source = run.snapshot.version /\ r.source = run.snapshot.version
            /\ k.projection = run.target
            /\ k.deps = CarriedDeps(run, id, base, RevocationClosure(base, selection))
            /\ k.record = CarriedRecord(run, id, base, RevocationClosure(base, selection))
            /\ k.deps \subseteq KeptOf(base, selection) /\ k.deps \subseteq r.deps
<1> DEFINE selected == RevocationClosure(base, selection)
           K == KeptOf(base, selection)
           r == base.resources[id]
           k == KeptResources(run, base, selection)[id]
<1>1. K = Serving(base.resources) \ selected
  BY KeptServes DEF Revocable
<1>2. id \in DOMAIN base.resources /\ IsServing(id, r)
  BY <1>1 DEF Serving
<1>3. ValidIn(base, id)
  BY <1>2, ValidByResource DEF Revocable
<1>4. CarriedDeps(run, id, base, selected) \subseteq K \cap r.deps
  BY KeptDeps DEF Revocable
<1>5. k = CarriedForward(run, id, base, selected)
  BY DEF KeptResources
<1>6. IsResource(r)
  BY <1>2 DEF Shaped, Revocable
<1>7. k = Metadata(r.content, r.acl, r.source, run.target, r.state, r.status,
                   CarriedDeps(run, id, base, selected), CarriedRecord(run, id, base, selected))
  BY <1>5, <1>6, CarriedIs
<1>8. r.source = run.snapshot.version
  BY <1>3 DEF ValidIn, Revocable
<1> HIDE DEF k, r, K, selected
<1>9. /\ k.content = r.content /\ k.acl = r.acl /\ k.source = r.source /\ k.projection = run.target
      /\ k.deps = CarriedDeps(run, id, base, selected) /\ k.record = CarriedRecord(run, id, base, selected)
  BY <1>7, MetadataIs
<1> QED
  BY <1>2, <1>3, <1>4, <1>8, <1>9 DEF k, r, K, selected

\* A pin of what is kept is one of its next version.
LEMMA KeptPin ==
  ASSUME NEW run, NEW base, NEW selection, Revocable(run, base, selection),
         NEW p, p.id \in KeptOf(base, selection), Resolves(p, base.resources)
  PROVE  /\ ReboundPin(run, p) = Pin(p.id, KeptResources(run, base, selection)[p.id])
         /\ [p EXCEPT !.projection = run.target] = Pin(p.id, KeptResources(run, base, selection)[p.id])
         /\ Resolves(ReboundPin(run, p), KeptResources(run, base, selection))
         /\ Resolves([p EXCEPT !.projection = run.target], KeptResources(run, base, selection))
<1> DEFINE id == p.id
           r == base.resources[id]
           kept == KeptResources(run, base, selection)
           k == kept[id]
           next == [id |-> p.id, content |-> p.content, acl |-> p.acl,
                    source |-> run.snapshot.version, projection |-> run.target]
<1>1. p = Pin(id, r)
  BY DEF Resolves
<1>2. /\ k.content = r.content /\ k.acl = r.acl /\ r.source = run.snapshot.version
      /\ k.source = run.snapshot.version /\ k.projection = run.target
  BY KeptIs
<1>3. ReboundPin(run, p) = next
  BY <1>1, ReboundPinIs
<1>4. DOMAIN kept = KeptOf(base, selection)
  BY DEF KeptResources
<1> HIDE DEF k, r, kept
<1>5. /\ p.content = r.content /\ p.acl = r.acl /\ p.source = r.source
      /\ p = [id |-> p.id, content |-> p.content, acl |-> p.acl, source |-> p.source, projection |-> p.projection]
  BY <1>1 DEF Pin
<1>6. Pin(id, k) = next
  BY <1>2, <1>5 DEF Pin
<1>7. [p EXCEPT !.projection = run.target] = next
  BY <1>2, <1>5
<1>8. next.id = p.id
  OBVIOUS
<1> HIDE DEF next
<1>9. Resolves(next, kept)
  BY <1>4, <1>6, <1>8 DEF Resolves, k
<1> QED
  BY <1>3, <1>6, <1>7, <1>9 DEF k, kept

\* The references of a claim that is kept, in the version after.
LEMMA KeptEvidence ==
  ASSUME NEW run, NEW base, NEW selection, Revocable(run, base, selection),
         NEW id \in KeptOf(base, selection), TypeOf[id] = "claim"
  PROVE  LET c == base.resources[id].record
             kept == KeptResources(run, base, selection)
             rebound(p) == /\ ReboundPin(run, p).id = p.id /\ ReboundPin(run, p).acl = p.acl
                           /\ ReboundPin(run, p).source = run.snapshot.version
                           /\ ReboundPin(run, p).projection = run.target
                           /\ Resolves(ReboundPin(run, p), kept)
         IN /\ c # None /\ ClaimShaped(c) /\ ClaimRecordValid(c)
            /\ ClaimRecordResolves(id, base.resources)
            /\ kept[id].record = ReboundClaim(run, c) /\ kept[id].deps = base.resources[id].deps
            /\ c.document.acl = base.resources[id].acl
            /\ rebound(c.document)
            /\ \A g \in c.groups : \A e \in g.evidence : rebound(e.pin)
<1> DEFINE r == base.resources[id]
           c == r.record
           K == KeptOf(base, selection)
           kept == KeptResources(run, base, selection)
           k == kept[id]
           selected == RevocationClosure(base, selection)
           rebound(p) == /\ ReboundPin(run, p).id = p.id /\ ReboundPin(run, p).acl = p.acl
                         /\ ReboundPin(run, p).source = run.snapshot.version
                         /\ ReboundPin(run, p).projection = run.target
                         /\ Resolves(ReboundPin(run, p), kept)
<1>1. /\ id \in DOMAIN base.resources /\ IsServing(id, r) /\ ValidIn(base, id)
      /\ k.deps = CarriedDeps(run, id, base, selected)
      /\ k.record = CarriedRecord(run, id, base, selected) /\ k.deps \subseteq K
  BY KeptIs
<1>2. c # None
  <2>1. id \in Serving(base.resources)
    BY <1>1 DEF Serving
  <2> QED
    BY <2>1 DEF Revocable, Grounded
<1>3. ClaimShaped(c)
  BY <1>1, <1>2 DEF Revocable, Recorded
<1>4. ClaimRecordValid(c) /\ c.document.acl = r.acl /\ ClaimRecordResolves(id, base.resources)
  BY <1>1, <1>2 DEF ValidIn, ResourceValid
<1>5. k.record = ReboundClaim(run, c) /\ k.deps = r.deps
  BY <1>1, <1>2 DEF CarriedRecord, CarriedDeps
<1> HIDE DEF k, K, kept, selected
<1>6. /\ c.document.id \in r.deps /\ Resolves(c.document, base.resources)
      /\ \A g \in c.groups : \A e \in g.evidence : e.pin.id \in r.deps /\ Resolves(e.pin, base.resources)
  BY <1>4 DEF ClaimRecordResolves
<1>7. ASSUME NEW p, p.id \in r.deps, Resolves(p, base.resources)
      PROVE  rebound(p)
  <2>1. p.id \in K
    BY <1>1, <1>5, <1>7
  <2>2. Resolves(ReboundPin(run, p), kept)
    BY <1>7, <2>1, KeptPin DEF K, kept
  <2>3. p = Pin(p.id, base.resources[p.id])
    BY <1>7 DEF Resolves
  <2>4. ReboundPin(run, p) = [id |-> p.id, content |-> p.content, acl |-> p.acl,
                              source |-> run.snapshot.version, projection |-> run.target]
    BY <2>3, ReboundPinIs
  <2> QED
    BY <2>2, <2>4
<1> HIDE DEF rebound
<1>8. rebound(c.document) /\ \A g \in c.groups : \A e \in g.evidence : rebound(e.pin)
  BY <1>6, <1>7
<1> QED
  BY <1>2, <1>3, <1>4, <1>5, <1>8 DEF rebound, k, kept

LEMMA KeptClaimSound ==
  ASSUME NEW run, NEW base, NEW selection, Revocable(run, base, selection),
         NEW id \in KeptOf(base, selection), TypeOf[id] = "claim"
  PROVE  ClaimSound(id, KeptResources(run, base, selection))
<1> DEFINE c == base.resources[id].record
           K == KeptOf(base, selection)
           kept == KeptResources(run, base, selection)
           k == kept[id]
           u == ReboundClaim(run, c)
<1>1. /\ c # None /\ ClaimShaped(c) /\ ClaimRecordValid(c)
      /\ ClaimRecordResolves(id, base.resources)
      /\ k.record = u /\ k.deps = base.resources[id].deps /\ c.document.acl = base.resources[id].acl
      /\ ReboundPin(run, c.document).id = c.document.id
      /\ ReboundPin(run, c.document).acl = c.document.acl
      /\ ReboundPin(run, c.document).source = run.snapshot.version
      /\ ReboundPin(run, c.document).projection = run.target
      /\ Resolves(ReboundPin(run, c.document), kept)
  BY KeptEvidence
<1>2. \A g \in c.groups : \A e \in g.evidence :
        /\ ReboundPin(run, e.pin).id = e.pin.id /\ ReboundPin(run, e.pin).acl = e.pin.acl
        /\ ReboundPin(run, e.pin).source = run.snapshot.version
        /\ ReboundPin(run, e.pin).projection = run.target
        /\ Resolves(ReboundPin(run, e.pin), kept)
  BY KeptEvidence
<1>3. /\ k.source = run.snapshot.version /\ k.projection = run.target
      /\ k.acl = base.resources[id].acl /\ k.deps \subseteq K
  BY KeptIs
<1>4. /\ ClaimShaped(u) /\ u.bound = c.bound /\ u.endpoints = c.endpoints /\ u.mode = c.mode
      /\ u.document = ReboundPin(run, c.document)
      /\ \A h : h \in u.groups <=>
           \E g \in c.groups : h = [complete |-> g.complete, evidence |-> ReboundAll(run, g)]
  BY <1>1, ReboundClaimIs
<1>5. DOMAIN kept = K
  BY DEF KeptResources
<1> HIDE DEF c, K, kept, k, u
<1>6. ASSUME NEW g \in c.groups, NEW e \in g.evidence
      PROVE  e.document = c.document /\ EvidenceValid(e)
  BY <1>1 DEF ClaimRecordValid, ProvenanceValid
\* Each reference of the claim is one of the claim before it.
<1>7. ASSUME NEW h \in u.groups
      PROVE  \E g \in c.groups : /\ h.complete = g.complete /\ h.evidence # {}
                                 /\ \A x \in h.evidence : \E e \in g.evidence :
                                      /\ x.pin = ReboundPin(run, e.pin)
                                      /\ x.document = ReboundPin(run, e.document)
  <2>1. PICK g \in c.groups : h = [complete |-> g.complete, evidence |-> ReboundAll(run, g)]
    BY <1>4
  <2>2. h.complete = g.complete /\ h.evidence = ReboundAll(run, g)
    BY <2>1
  <2>3. g.evidence # {}
    BY <1>1 DEF ClaimRecordValid, ProvenanceValid
  <2>4. PICK e0 \in g.evidence : TRUE
    BY <2>3
  <2>5. ReboundEvidence(run, e0) \in h.evidence
    BY <2>2 DEF ReboundAll
  <2>6. ASSUME NEW x \in h.evidence
        PROVE  \E e \in g.evidence : x.pin = ReboundPin(run, e.pin) /\ x.document = ReboundPin(run, e.document)
    BY <2>2 DEF ReboundAll, ReboundEvidence
  <2> QED
    BY <2>2, <2>5, <2>6
<1>8. ASSUME NEW h \in u.groups, NEW x \in h.evidence
      PROVE  /\ EvidenceValid(x) /\ x.document = u.document
             /\ x.pin.source = run.snapshot.version /\ x.pin.projection = run.target
             /\ Resolves(x.pin, kept)
             /\ \E g \in c.groups : \E e \in g.evidence : x.pin.id = e.pin.id /\ h.complete = g.complete
  <2>1. PICK g \in c.groups : /\ h.complete = g.complete
                              /\ \A y \in h.evidence : \E e \in g.evidence :
                                   /\ y.pin = ReboundPin(run, e.pin)
                                   /\ y.document = ReboundPin(run, e.document)
    BY <1>7
  <2>2. PICK e \in g.evidence : x.pin = ReboundPin(run, e.pin) /\ x.document = ReboundPin(run, e.document)
    BY <2>1
  <2>3. e.document = c.document /\ EvidenceValid(e)
    BY <1>6
  <2>4. x.document = u.document
    BY <1>4, <2>2, <2>3
  <2>5. /\ x.pin.id = e.pin.id /\ x.pin.acl = e.pin.acl
        /\ x.pin.source = run.snapshot.version /\ x.pin.projection = run.target
        /\ Resolves(x.pin, kept)
    BY <1>2, <2>2
  <2>6. EvidenceValid(x)
    <3>1. /\ x.document.acl = e.document.acl /\ x.document.source = run.snapshot.version
          /\ x.document.projection = run.target
      BY <1>1, <2>2, <2>3
    <3>2. e.pin.acl = e.document.acl /\ (TypeOf[e.pin.id] = "document" => e.pin = e.document)
      BY <2>3 DEF EvidenceValid
    <3> QED
      BY <2>2, <2>5, <3>1, <3>2 DEF EvidenceValid
  <2> QED
    BY <2>1, <2>4, <2>5, <2>6
<1>9. c.groups # {} => u.groups # {}
  BY <1>4
<1>10. ProvenanceValid(u.mode, u.groups)
  <2>1. /\ c.mode \in {"any_support", "all_required"} /\ c.groups # {}
        /\ \A g \in c.groups : c.mode = "any_support" => g.complete
    BY <1>1 DEF ClaimRecordValid, ProvenanceValid
  <2>2. ASSUME NEW h \in u.groups PROVE h.evidence # {} /\ (u.mode = "any_support" => h.complete)
    BY <1>4, <1>7, <2>1
  <2> QED
    BY <1>4, <1>8, <1>9, <2>1, <2>2 DEF ProvenanceValid
<1>11. ClaimRecordValid(u)
  <2>1. ASSUME u.bound
        PROVE  /\ u.endpoints # {}
               /\ \A h \in u.groups : /\ h.complete
                                      /\ \A x \in h.evidence : TypeOf[x.pin.id] \in {"document", "chunk"}
    <3>1. /\ c.endpoints # {}
          /\ \A g \in c.groups : /\ g.complete
                                 /\ \A e \in g.evidence : TypeOf[e.pin.id] \in {"document", "chunk"}
      BY <1>1, <1>4, <2>1 DEF ClaimRecordValid
    <3> QED
      BY <1>4, <1>7, <1>8, <3>1
  <2>2. ~u.bound => u.endpoints = {}
    BY <1>1, <1>4 DEF ClaimRecordValid
  <2> QED
    BY <1>8, <1>10, <2>1, <2>2 DEF ClaimRecordValid
<1>12. EvidenceCurrent(k, u.groups)
  BY <1>3, <1>8 DEF EvidenceCurrent
<1>13. ClaimRecordResolves(id, kept)
  <2>1. /\ TypeOf[c.document.id] = "document"
        /\ \A g \in c.groups : \A e \in g.evidence :
             TypeOf[e.pin.id] \in {"document", "chunk"} => ParentOf[e.pin.id] = c.document.id
        /\ \A x \in c.endpoints : TypeOf[x] = "entity"
        /\ k.deps = {c.document.id} \cup {e.pin.id : e \in UNION {g.evidence : g \in c.groups}} \cup c.endpoints
    BY <1>1 DEF ClaimRecordResolves, c
  <2>2. u.document.id = c.document.id /\ Resolves(u.document, kept)
    BY <1>1, <1>4
  <2>3. {x.pin.id : x \in UNION {h.evidence : h \in u.groups}}
          = {e.pin.id : e \in UNION {g.evidence : g \in c.groups}}
    <3>1. ASSUME NEW g \in c.groups, NEW e \in g.evidence
          PROVE  \E h \in u.groups : \E x \in h.evidence : x.pin.id = e.pin.id
      <4> DEFINE h == [complete |-> g.complete, evidence |-> ReboundAll(run, g)]
                 x == ReboundEvidence(run, e)
      <4>1. h \in u.groups
        BY <1>4
      <4>2. x \in h.evidence
        BY DEF ReboundAll
      <4>3. x.pin.id = e.pin.id
        BY <1>2 DEF ReboundEvidence
      <4> HIDE DEF h, x
      <4> QED
        BY <4>1, <4>2, <4>3
    <3> QED
      BY <1>8, <3>1
  <2>4. c.endpoints \subseteq DOMAIN kept
    BY <1>3, <1>5, <2>1
  <2>5. \A x \in UNION {h.evidence : h \in u.groups} :
          /\ Resolves(x.pin, kept) /\ x.document = u.document
          /\ TypeOf[x.pin.id] \in {"document", "chunk"} => ParentOf[x.pin.id] = u.document.id
    BY <1>8, <2>1, <2>2
  <2>6. kept[id].record = u /\ kept[id].deps = k.deps
    BY <1>1 DEF k
  <2>7. TypeOf[u.document.id] = "document" /\ \A x \in u.endpoints : x \in DOMAIN kept /\ TypeOf[x] = "entity"
    BY <1>4, <2>1, <2>2, <2>4
  <2>8. k.deps = {u.document.id} \cup {x.pin.id : x \in UNION {h.evidence : h \in u.groups}} \cup u.endpoints
    BY <1>4, <2>1, <2>2, <2>3
  <2> QED
    BY <2>2, <2>5, <2>6, <2>7, <2>8 DEF ClaimRecordResolves
<1>14. u.document.source = k.source /\ u.document.acl = k.acl /\ u.document.projection = k.projection
  BY <1>1, <1>3, <1>4 DEF c
<1> QED
  BY <1>1, <1>11, <1>12, <1>13, <1>14 DEF ClaimSound, k, kept

LEMMA KeptArtifactSound ==
  ASSUME NEW run, NEW base, NEW selection, Revocable(run, base, selection),
         NEW id \in KeptOf(base, selection), TypeOf[id] = "artifact"
  PROVE  /\ ArtifactSound(id, KeptResources(run, base, selection))
         /\ KeptResources(run, base, selection)[id].deps # {}
<1> DEFINE resources == base.resources
           r == resources[id]
           s == r.record
           selected == RevocationClosure(base, selection)
           K == KeptOf(base, selection)
           kept == KeptResources(run, base, selection)
           k == kept[id]
           groups == ReboundGroups(run, s, selected, resources)
           t == [s EXCEPT !.groups = groups, !.artifact.projection = run.target]
<1>1. /\ id \in DOMAIN resources /\ IsServing(id, r) /\ ValidIn(base, id)
      /\ k.content = r.content /\ k.acl = r.acl
      /\ k.source = run.snapshot.version /\ r.source = run.snapshot.version
      /\ k.projection = run.target
      /\ k.deps = CarriedDeps(run, id, base, selected)
      /\ k.record = CarriedRecord(run, id, base, selected)
      /\ k.deps \subseteq K
  BY KeptIs
<1>2. s # None /\ RecordShaped(s)
  BY <1>1 DEF IsServing, Revocable, Recorded
<1>3. SecurityRecordValid(s) /\ s.artifact = Pin(id, r) /\ SecurityRecordResolves(id, resources)
  BY <1>1, <1>2 DEF ValidIn, ResourceValid
<1>4. k.record = t /\ k.deps = {p.id : p \in UNION {g.pins : g \in groups}}
  BY <1>1, <1>2 DEF CarriedRecord, CarriedDeps
<1>5. Stands(id, K, resources)
  BY KeptStands DEF Revocable
<1>6. K = Serving(resources) \ selected
  BY KeptServes DEF Revocable
<1>7. \A h : h \in groups <=>
        \E g \in KeptGroups(s, selected, resources) : h = [complete |-> g.complete, pins |-> ReboundPins(run, g)]
  BY <1>2, ReboundGroupIs
<1>8. k.source = run.snapshot.version /\ k.projection = run.target /\ DOMAIN kept = K
  BY <1>1 DEF KeptResources
<1> HIDE DEF groups
<1>9. t.groups = groups /\ t.mode = s.mode /\ t.artifact = [s.artifact EXCEPT !.projection = run.target]
  <2>1. s = [artifact |-> s.artifact, mode |-> s.mode, groups |-> s.groups]
    BY <1>2 DEF RecordShaped
  <2> HIDE DEF s
  <2> QED
    BY <2>1
<1>10. t.artifact = Pin(id, k)
  <2>1. s.artifact = [id |-> id, content |-> r.content, acl |-> r.acl, source |-> r.source,
                      projection |-> r.projection]
    BY <1>3 DEF Pin
  <2> HIDE DEF t, k, r, s
  <2>2. [s.artifact EXCEPT !.projection = run.target]
          = [id |-> id, content |-> r.content, acl |-> r.acl, source |-> r.source, projection |-> run.target]
    BY <2>1
  <2> QED
    BY <1>1, <1>9, <2>2 DEF Pin
<1> HIDE DEF t, k, s, r, K, kept, selected
\* There is a group that is kept.
<1>11. \E g \in s.groups : g \in KeptGroups(s, selected, resources)
  <2>1. s.groups # {} /\ s.mode \in {"any_support", "all_required"}
    BY <1>3 DEF SecurityRecordValid
  <2>2. CASE s.mode = "any_support"
    <3>1. PICK g \in s.groups : g.complete /\ {p.id : p \in g.pins} \subseteq K
      BY <1>5, <2>2 DEF Stands, s, r
    <3>2. \A p \in g.pins : p.id \in Serving(resources) /\ p.id \notin selected
      BY <1>6, <3>1
    <3>3. GroupAvailable(g, selected, resources)
      BY <3>1, <3>2 DEF GroupAvailable, Serving
    <3> QED
      BY <3>3 DEF KeptGroups
  <2>3. CASE s.mode = "all_required"
    BY <2>1, <2>3 DEF KeptGroups
  <2> QED
    BY <2>1, <2>2, <2>3
<1>12. groups # {}
  BY <1>7, <1>11
\* Every pin is of what is kept, in its next version.
<1>13. ASSUME NEW h \in groups
       PROVE  /\ h.pins # {} /\ (s.mode = "any_support" => h.complete)
              /\ \A p \in h.pins : /\ p.id # id /\ p.projection = run.target
                                   /\ Resolves(p, kept)
  <2>1. PICK g \in KeptGroups(s, selected, resources) :
          h = [complete |-> g.complete, pins |-> ReboundPins(run, g)]
    BY <1>7
  <2>2. h.complete = g.complete /\ h.pins = ReboundPins(run, g) /\ g \in s.groups
    BY <2>1 DEF KeptGroups
  <2>3. g.pins # {} /\ (s.mode = "any_support" => g.complete) /\ \A p \in g.pins : p.id # id
    <3>1. s.artifact.id = id
      BY <1>3 DEF Pin
    <3> QED
      BY <1>3, <2>2, <3>1 DEF SecurityRecordValid
  <2>4. PICK q0 \in g.pins : TRUE
    BY <2>3
  <2>5. [q0 EXCEPT !.projection = run.target] \in h.pins
    BY <2>2 DEF ReboundPins
  <2>6. ASSUME NEW p \in h.pins
        PROVE  p.id # id /\ p.projection = run.target /\ Resolves(p, kept)
    <3>1. PICK q \in g.pins : p = [q EXCEPT !.projection = run.target]
      BY <2>2 DEF ReboundPins
    <3>2. Resolves(q, resources)
      BY <1>3, <2>2 DEF SecurityRecordResolves, s, r
    <3>3. q = Pin(q.id, resources[q.id])
      BY <3>2 DEF Resolves
    <3>4. p.id = q.id /\ p.projection = run.target
      <4>1. q = [id |-> q.id, content |-> q.content, acl |-> q.acl, source |-> q.source, projection |-> q.projection]
        BY <3>3 DEF Pin
      <4> QED
        BY <3>1, <4>1
    <3>5. p.id \in k.deps
      BY <1>4
    <3>6. q.id \in KeptOf(base, selection)
      BY <1>1, <3>4, <3>5 DEF K
    <3>7. Resolves(p, kept)
      BY <3>1, <3>2, <3>6, KeptPin DEF kept
    <3> QED
      BY <2>3, <3>4, <3>7
  <2> QED
    BY <2>2, <2>3, <2>5, <2>6
<1>14. t # None
  <2>1. s = [artifact |-> s.artifact, mode |-> s.mode, groups |-> s.groups]
    BY <1>2 DEF RecordShaped
  <2>2. DOMAIN t = {"artifact", "mode", "groups"}
    BY <2>1 DEF t
  <2>3. DOMAIN None = {"none"}
    BY DEF None
  <2> QED
    BY <2>2, <2>3
<1>15. SecurityRecordValid(t)
  <2>1. t.artifact.id = id /\ t.artifact.projection = run.target
    BY <1>8, <1>10 DEF Pin
  <2>2. s.mode \in {"any_support", "all_required"}
    BY <1>3 DEF SecurityRecordValid
  <2> QED
    BY <1>9, <1>12, <1>13, <2>1, <2>2 DEF SecurityRecordValid
<1>16. k.deps # {}
  <2>1. PICK h \in groups : TRUE
    BY <1>12
  <2>2. PICK p \in h.pins : TRUE
    BY <1>13
  <2>3. p.id \in k.deps
    BY <1>4
  <2> QED
    BY <2>3
<1>17. \A p \in UNION {g.pins : g \in t.groups} : Resolves(p, kept)
  BY <1>9, <1>13
<1>18. k.deps = {p.id : p \in UNION {g.pins : g \in t.groups}}
  BY <1>4, <1>9
<1>19. ArtifactSound(id, kept)
  <2>1. kept[id] = k /\ k.record = t
    BY <1>4 DEF k
  <2> QED
    BY <1>10, <1>14, <1>15, <1>17, <1>18, <2>1 DEF ArtifactSound
<1> QED
  BY <1>16, <1>19 DEF kept, k

LEMMA KeptSound ==
  ASSUME NEW run, NEW base, NEW selection, Revocable(run, base, selection)
  PROVE  Sound(run, KeptResources(run, base, selection))
<1> DEFINE K == KeptOf(base, selection)
           kept == KeptResources(run, base, selection)
<1>1. DOMAIN kept = K
  BY DEF KeptResources
<1>2. SUFFICES ASSUME NEW id \in K PROVE SoundIn(run, id, kept)
  BY <1>1 DEF Sound
<1> DEFINE r == base.resources[id]
           k == kept[id]
           selected == RevocationClosure(base, selection)
<1>3. /\ id \in DOMAIN base.resources /\ IsServing(id, r) /\ ValidIn(base, id)
      /\ k.content = r.content /\ k.acl = r.acl
      /\ k.source = run.snapshot.version /\ k.projection = run.target
      /\ k.deps = CarriedDeps(run, id, base, selected)
      /\ k.record = CarriedRecord(run, id, base, selected)
      /\ k.deps \subseteq K /\ k.deps \subseteq r.deps
  BY KeptIs
<1>4. TypeOf[id] # "artifact" => k.deps = r.deps
  BY <1>3 DEF CarriedDeps
<1>5. id \notin r.deps /\ (TypeOf[id] \notin {"claim", "artifact"} => r.record = None)
  BY <1>3 DEF ValidIn, ResourceValid
<1>6. TypeOf[id] \notin {"document", "chunk"} => r.deps # {}
  BY <1>3 DEF ValidIn, DependenciesValid
<1>7. TypeOf[id] = "claim" => ClaimSound(id, kept)
  BY KeptClaimSound
<1>8. TypeOf[id] = "artifact" => ArtifactSound(id, kept) /\ k.deps # {}
  BY KeptArtifactSound
<1>9. TypeOf[id] \notin {"claim", "artifact"} => k.record = None
  BY <1>3, <1>5 DEF CarriedRecord
<1>10. TypeOf[id] = "chunk" => InheritsDocument(id, kept)
  <2> SUFFICES ASSUME TypeOf[id] = "chunk" PROVE InheritsDocument(id, kept)
    OBVIOUS
  <2>1. id \in Serving(base.resources)
    BY <1>3 DEF Serving
  <2>2. ParentOf[id] \in r.deps
    BY <2>1 DEF Revocable, Whole
  <2>3. ParentOf[id] \in K
    BY <1>3, <1>4, <2>2
  <2>4. InheritsDocument(id, base.resources)
    BY <1>3 DEF ValidIn
  <2>5. /\ kept[ParentOf[id]].acl = base.resources[ParentOf[id]].acl
        /\ kept[ParentOf[id]].source = run.snapshot.version /\ kept[ParentOf[id]].projection = run.target
    BY <2>3, KeptIs
  <2> HIDE DEF kept, K
  <2> QED
    BY <1>1, <1>3, <2>3, <2>4, <2>5 DEF InheritsDocument
<1> HIDE DEF kept, K, r
<1> QED
  BY <1>1, <1>3, <1>4, <1>5, <1>6, <1>7, <1>8, <1>9, <1>10 DEF SoundIn, k

-----------------------------------------------------------------------------
\* What a build makes is sound

LEMMA ResourceHas ==
  ASSUME NEW run, NEW content, NEW deps, NEW record
  PROVE  LET r == Resource(run, content, deps, record)
         IN /\ r.content = content /\ r.acl = 0 /\ r.source = run.snapshot.version
            /\ r.projection = run.target /\ r.deps = deps /\ r.record = record
<1> DEFINE r == Resource(run, content, deps, record)
<1>1. r = Metadata(content, 0, run.snapshot.version, run.target, "staged", Pending, deps, record)
  BY ResourceIs
<1> HIDE DEF r
<1> QED
  BY <1>1, MetadataIs DEF r

LEMMA MaterializedHas ==
  ASSUME NEW run, NEW sources \in SourceSet
  PROVE  LET known == DOMAIN Materialized(run, sources)
         IN /\ Bundle \in known
            /\ \A d \in DOMAIN sources : d \in known /\ EntityOf[d] \in known
            /\ \A c \in ChunksOf(sources) : c \in known /\ StatementOf[c] \in known /\ ClaimOf[c] \in known
<1> DEFINE documents == DOMAIN sources
           chunks == ChunksOf(sources)
           part == {<<d, Resource(run, sources[d].content, {}, None)>> : d \in documents} \cup
              {<<EntityOf[d], EntityOfDocument(run, sources, d)>> : d \in documents} \cup
              {<<c, Resource(run, ChunkText(sources, c), {ParentOf[c]}, None)>> : c \in chunks} \cup
              {<<StatementOf[c], Resource(run, ChunkText(sources, c), {c}, None)>> : c \in chunks} \cup
              {<<ClaimOf[c], ClaimOfChunk(run, sources, c)>> : c \in chunks} \cup
              {<<Bundle, BundleOf(run, sources)>>}
<1>1. DOMAIN Materialized(run, sources) = {p[1] : p \in part}
  BY DEF Materialized
<1>2. \A x, r : <<x, r>> \in part => x \in {p[1] : p \in part}
  <2> SUFFICES ASSUME NEW x, NEW r, <<x, r>> \in part PROVE x \in {p[1] : p \in part}
    OBVIOUS
  <2> HIDE DEF part
  <2>1. <<x, r>>[1] = x
    OBVIOUS
  <2> QED
    BY <2>1
<1>3. <<Bundle, BundleOf(run, sources)>> \in part
  OBVIOUS
<1>4. ASSUME NEW d \in documents
      PROVE  /\ <<d, Resource(run, sources[d].content, {}, None)>> \in part
             /\ <<EntityOf[d], EntityOfDocument(run, sources, d)>> \in part
  OBVIOUS
<1>5. ASSUME NEW c \in chunks
      PROVE  /\ <<c, Resource(run, ChunkText(sources, c), {ParentOf[c]}, None)>> \in part
             /\ <<StatementOf[c], Resource(run, ChunkText(sources, c), {c}, None)>> \in part
             /\ <<ClaimOf[c], ClaimOfChunk(run, sources, c)>> \in part
  OBVIOUS
<1> HIDE DEF part
<1> QED
  BY <1>1, <1>2, <1>3, <1>4, <1>5

\* The record of a claim that a build makes.
ChunkEndpoints(c) == {StatementOf[c], EntityOf[ParentOf[c]]}

ChunkGroup(run, sources, c) ==
  [complete |-> TRUE,
   evidence |-> {[pin |-> ChunkPin(run, sources, c), document |-> DocumentPin(run, sources, ParentOf[c])]}]

LEMMA ClaimOfChunkHas ==
  ASSUME NEW run, NEW sources, NEW c
  PROVE  LET r == ClaimOfChunk(run, sources, c)
         IN /\ r.acl = 0 /\ r.source = run.snapshot.version /\ r.projection = run.target
            /\ r.deps = {ParentOf[c], c} \cup ChunkEndpoints(c)
            /\ r.record.bound /\ r.record.endpoints = ChunkEndpoints(c)
            /\ r.record.document = DocumentPin(run, sources, ParentOf[c])
            /\ r.record.mode = "any_support" /\ r.record.groups = {ChunkGroup(run, sources, c)}
<1> DEFINE document == DocumentPin(run, sources, ParentOf[c])
           record == [bound |-> TRUE, endpoints |-> ChunkEndpoints(c), document |-> document,
                      mode |-> "any_support", groups |-> {ChunkGroup(run, sources, c)}]
           deps == {ParentOf[c], c} \cup ChunkEndpoints(c)
           r == ClaimOfChunk(run, sources, c)
<1>1. r = Resource(run, ChunkText(sources, c), deps, record)
  BY DEF ClaimOfChunk, ChunkEndpoints, ChunkGroup
<1>2. /\ record.bound /\ record.endpoints = ChunkEndpoints(c) /\ record.document = document
      /\ record.mode = "any_support" /\ record.groups = {ChunkGroup(run, sources, c)}
  OBVIOUS
<1> HIDE DEF r, record, deps, document
<1>3. /\ r.acl = 0 /\ r.source = run.snapshot.version /\ r.projection = run.target
      /\ r.deps = deps /\ r.record = record
  BY <1>1, ResourceHas
<1> QED
  BY <1>2, <1>3 DEF r, deps, document

LEMMA BundleHas ==
  ASSUME NEW run, NEW sources
  PROVE  LET r == BundleOf(run, sources)
             pins == {DocumentPin(run, sources, d) : d \in DOMAIN sources} \cup
                     {ChunkPin(run, sources, c) : c \in ChunksOf(sources)}
         IN /\ r.acl = 0 /\ r.source = run.snapshot.version /\ r.projection = run.target
            /\ r.deps = {p.id : p \in pins}
            /\ r.record = [artifact |-> Pin(Bundle, r), mode |-> "all_required",
                           groups |-> {[complete |-> TRUE, pins |-> pins]}]
<1> DEFINE pins == {DocumentPin(run, sources, d) : d \in DOMAIN sources} \cup
                   {ChunkPin(run, sources, c) : c \in ChunksOf(sources)}
           content == SummaryOf(Cardinality(DOMAIN sources), Cardinality(ChunksOf(sources)))
           deps == {p.id : p \in pins}
           summary == Resource(run, content, deps, None)
           groups == {[complete |-> TRUE, pins |-> pins]}
           record == [artifact |-> Pin(Bundle, summary), mode |-> "all_required", groups |-> groups]
           r == BundleOf(run, sources)
<1>1. r = [summary EXCEPT !.record = record]
  BY DEF BundleOf
<1>2. summary = Metadata(content, 0, run.snapshot.version, run.target, "staged", Pending, deps, None)
  BY ResourceIs
<1> HIDE DEF summary, content, deps, groups, pins
<1>3. r = Metadata(content, 0, run.snapshot.version, run.target, "staged", Pending, deps, record)
  <2> HIDE DEF record, r
  <2> QED
    BY <1>1, <1>2 DEF Metadata
<1>4. Pin(Bundle, summary) = Pin(Bundle, r)
  <2> HIDE DEF r, record
  <2> QED
    BY <1>2, <1>3, MetadataIs DEF Pin
<1>5. record = [artifact |-> Pin(Bundle, r), mode |-> "all_required", groups |-> groups]
  <2> HIDE DEF r
  <2> QED
    BY <1>4
<1> HIDE DEF record, r
<1>6. /\ r.acl = 0 /\ r.source = run.snapshot.version /\ r.projection = run.target
      /\ r.deps = deps /\ r.record = record
  BY <1>3, MetadataIs
<1> QED
  BY <1>5, <1>6 DEF r, deps, groups, pins

LEMMA EntityOfDocumentHas ==
  ASSUME NEW run, NEW sources, NEW d \in DOMAIN sources
  PROVE  LET r == EntityOfDocument(run, sources, d)
         IN /\ r.acl = 0 /\ r.source = run.snapshot.version /\ r.projection = run.target
            /\ r.record = None /\ r.deps # {} /\ r.deps \subseteq {d} \cup ChunksOf(sources)
<1> DEFINE chunks == DOMAIN sources[d].chunks
           deps == IF chunks = {} THEN {d} ELSE chunks
           r == EntityOfDocument(run, sources, d)
<1>1. r = Resource(run, sources[d].title, deps, None)
  BY DEF EntityOfDocument
<1>2. deps # {} /\ deps \subseteq {d} \cup ChunksOf(sources)
  BY DEF ChunksOf
<1> HIDE DEF r, deps
<1>3. /\ r.acl = 0 /\ r.source = run.snapshot.version /\ r.projection = run.target
      /\ r.record = None /\ r.deps = deps
  BY <1>1, ResourceHas
<1> QED
  BY <1>2, <1>3 DEF r

\* Whatever a build makes has its versions.
LEMMA MaterializedVersions ==
  ASSUME NEW run, NEW sources \in SourceSet, NEW id \in DOMAIN Materialized(run, sources)
  PROVE  LET r == Materialized(run, sources)[id]
         IN r.acl = 0 /\ r.source = run.snapshot.version /\ r.projection = run.target
<1> DEFINE r == Materialized(run, sources)[id]
           versions == r.acl = 0 /\ r.source = run.snapshot.version /\ r.projection = run.target
<1>1. PartOf(run, sources, id, r)
  BY MaterializedIs
<1> HIDE DEF r
<1>2. ASSUME \E d \in DOMAIN sources : r = EntityOfDocument(run, sources, d) PROVE versions
  BY <1>2, EntityOfDocumentHas
<1>3. ASSUME \E content, deps, record : r = Resource(run, content, deps, record) PROVE versions
  BY <1>3, ResourceHas
<1>4. ASSUME \E c \in ChunksOf(sources) : r = ClaimOfChunk(run, sources, c) PROVE versions
  BY <1>4, ClaimOfChunkHas
<1>5. ASSUME r = BundleOf(run, sources) PROVE versions
  BY <1>5, BundleHas
<1>6. \/ \E d \in DOMAIN sources : r = EntityOfDocument(run, sources, d)
      \/ \E content, deps, record : r = Resource(run, content, deps, record)
      \/ \E c \in ChunksOf(sources) : r = ClaimOfChunk(run, sources, c)
      \/ r = BundleOf(run, sources)
  BY <1>1 DEF PartOf, ClaimPart, BundlePart
<1> HIDE DEF versions
<1>7. versions
  BY <1>2, <1>3, <1>4, <1>5, <1>6
<1> QED
  BY <1>7 DEF versions, r

LEMMA MaterializedDocument ==
  ASSUME NEW run, NEW sources \in SourceSet, NEW id \in DOMAIN Materialized(run, sources),
         TypeOf[id] = "document"
  PROVE  LET r == Materialized(run, sources)[id]
         IN /\ id \in DOMAIN sources /\ r.content = sources[id].content
            /\ r.deps = {} /\ r.record = None /\ Pin(id, r) = DocumentPin(run, sources, id)
<1> DEFINE r == Materialized(run, sources)[id]
           content == sources[id].content
           s == Resource(run, content, {}, None)
<1>1. PartOf(run, sources, id, r)
  BY MaterializedIs
<1> HIDE DEF r
<1>2. id \in DOMAIN sources /\ r = s
  BY <1>1 DEF PartOf, ClaimPart, BundlePart
<1>3. Pin(id, s) = DocumentPin(run, sources, id)
  BY DEF DocumentPin
<1> HIDE DEF content
<1>4. s.content = content /\ s.deps = {} /\ s.record = None
  BY ResourceHas
<1> QED
  BY <1>2, <1>3, <1>4 DEF r, content

LEMMA MaterializedChunk ==
  ASSUME NEW run, NEW sources \in SourceSet, NEW id \in DOMAIN Materialized(run, sources),
         TypeOf[id] = "chunk"
  PROVE  LET r == Materialized(run, sources)[id]
         IN /\ id \in ChunksOf(sources) /\ r.deps = {ParentOf[id]} /\ r.record = None
            /\ Pin(id, r) = ChunkPin(run, sources, id)
<1> DEFINE r == Materialized(run, sources)[id]
           content == ChunkText(sources, id)
           s == Resource(run, content, {ParentOf[id]}, None)
           t == Resource(run, content, {}, None)
<1>1. PartOf(run, sources, id, r)
  BY MaterializedIs
<1> HIDE DEF r
<1>2. id \in ChunksOf(sources) /\ r = s
  BY <1>1 DEF PartOf, ClaimPart, BundlePart
<1>3. Pin(id, t) = ChunkPin(run, sources, id)
  BY DEF ChunkPin
<1> HIDE DEF content
<1>4. /\ s.content = content /\ s.acl = 0 /\ s.source = run.snapshot.version /\ s.projection = run.target
      /\ s.deps = {ParentOf[id]} /\ s.record = None
      /\ t.content = content /\ t.acl = 0 /\ t.source = run.snapshot.version /\ t.projection = run.target
  BY ResourceHas
<1>5. Pin(id, s) = Pin(id, t)
  BY <1>4 DEF Pin
<1> QED
  BY <1>2, <1>3, <1>4, <1>5 DEF r

LEMMA DocumentPinHas ==
  ASSUME NEW run, NEW sources \in SourceSet, NEW d \in DOMAIN sources
  PROVE  /\ DocumentPin(run, sources, d).id = d /\ DocumentPin(run, sources, d).acl = 0
         /\ DocumentPin(run, sources, d).source = run.snapshot.version
         /\ DocumentPin(run, sources, d).projection = run.target
         /\ Resolves(DocumentPin(run, sources, d), Materialized(run, sources))
<1> DEFINE m == Materialized(run, sources)
           pin == DocumentPin(run, sources, d)
<1>1. d \in DOMAIN m /\ TypeOf[d] = "document"
  BY MaterializedHas, DocumentsKnown
<1>2. Pin(d, m[d]) = pin
  BY <1>1, MaterializedDocument
<1>3. m[d].acl = 0 /\ m[d].source = run.snapshot.version /\ m[d].projection = run.target
  BY <1>1, MaterializedVersions
<1> HIDE DEF m, pin
<1>4. pin.id = d /\ pin.acl = 0 /\ pin.source = run.snapshot.version /\ pin.projection = run.target
  BY <1>2, <1>3 DEF Pin
<1>5. Resolves(pin, m)
  BY <1>1, <1>2, <1>4 DEF Resolves
<1> QED
  BY <1>4, <1>5 DEF m, pin

LEMMA ChunkPinHas ==
  ASSUME NEW run, NEW sources \in SourceSet, NEW c \in ChunksOf(sources)
  PROVE  /\ ChunkPin(run, sources, c).id = c /\ ChunkPin(run, sources, c).acl = 0
         /\ ChunkPin(run, sources, c).source = run.snapshot.version
         /\ ChunkPin(run, sources, c).projection = run.target
         /\ Resolves(ChunkPin(run, sources, c), Materialized(run, sources))
<1> DEFINE m == Materialized(run, sources)
           pin == ChunkPin(run, sources, c)
<1>1. c \in DOMAIN m /\ TypeOf[c] = "chunk"
  BY MaterializedHas, ChunksKnown
<1>2. Pin(c, m[c]) = pin
  BY <1>1, MaterializedChunk
<1>3. m[c].acl = 0 /\ m[c].source = run.snapshot.version /\ m[c].projection = run.target
  BY <1>1, MaterializedVersions
<1> HIDE DEF m, pin
<1>4. pin.id = c /\ pin.acl = 0 /\ pin.source = run.snapshot.version /\ pin.projection = run.target
  BY <1>2, <1>3 DEF Pin
<1>5. Resolves(pin, m)
  BY <1>1, <1>2, <1>4 DEF Resolves
<1> QED
  BY <1>4, <1>5 DEF m, pin

LEMMA MaterializedClaimSound ==
  ASSUME NEW run, NEW sources \in SourceSet, NEW id \in DOMAIN Materialized(run, sources),
         TypeOf[id] = "claim"
  PROVE  /\ ClaimSound(id, Materialized(run, sources))
         /\ LET r == Materialized(run, sources)[id]
            IN id \notin r.deps /\ r.deps \subseteq DOMAIN Materialized(run, sources) /\ r.deps # {}
<1> DEFINE m == Materialized(run, sources)
           r == m[id]
           u == r.record
<1>1. PartOf(run, sources, id, r)
  BY MaterializedIs
<1> HIDE DEF r
<1>2. PICK c \in ChunksOf(sources) : r = ClaimOfChunk(run, sources, c)
  BY <1>1 DEF PartOf, ClaimPart, BundlePart
<1> DEFINE d == ParentOf[c]
           document == DocumentPin(run, sources, d)
           pin == ChunkPin(run, sources, c)
           e == [pin |-> pin, document |-> document]
           group == ChunkGroup(run, sources, c)
           endpoints == ChunkEndpoints(c)
<1>3. /\ r.acl = 0 /\ r.source = run.snapshot.version /\ r.projection = run.target
      /\ r.deps = {d, c} \cup endpoints
      /\ u.bound /\ u.endpoints = endpoints /\ u.document = document
      /\ u.mode = "any_support" /\ u.groups = {group}
  BY <1>2, ClaimOfChunkHas
<1>a. endpoints = {StatementOf[c], EntityOf[d]}
  BY DEF ChunkEndpoints
<1>4. /\ TypeOf[c] = "chunk" /\ TypeOf[StatementOf[c]] = "entity" /\ d \in DOMAIN sources
  BY ChunksKnown
<1>5. TypeOf[d] = "document" /\ TypeOf[EntityOf[d]] = "entity"
  BY <1>4, DocumentsKnown
<1>6. /\ document.id = d /\ document.acl = 0 /\ document.source = run.snapshot.version
      /\ document.projection = run.target /\ Resolves(document, m)
  BY <1>4, DocumentPinHas
<1>7. /\ pin.id = c /\ pin.acl = 0 /\ pin.source = run.snapshot.version
      /\ pin.projection = run.target /\ Resolves(pin, m)
  BY ChunkPinHas
<1>8. /\ c \in DOMAIN m /\ d \in DOMAIN m /\ StatementOf[c] \in DOMAIN m /\ EntityOf[d] \in DOMAIN m
  BY <1>4, MaterializedHas
<1>9. /\ e.pin = pin /\ e.document = document /\ group.complete = TRUE /\ group.evidence = {e}
  BY DEF ChunkGroup
<1> HIDE DEF m, u, document, pin, e, group, endpoints
<1>10. EvidenceValid(e)
  BY <1>4, <1>6, <1>7, <1>9 DEF EvidenceValid
<1>11. ClaimRecordValid(u)
  BY <1>3, <1>4, <1>7, <1>9, <1>10, <1>a DEF ClaimRecordValid, ProvenanceValid
<1>12. EvidenceCurrent(r, u.groups)
  BY <1>3, <1>7, <1>9 DEF EvidenceCurrent
<1>13. ClaimRecordResolves(id, m)
  <2>1. UNION {g.evidence : g \in u.groups} = {e}
    BY <1>3, <1>9
  <2>2. m[id].record = u /\ m[id].deps = r.deps
    BY DEF m, r, u
  <2>3. {x.pin.id : x \in {e}} = {c}
    BY <1>7, <1>9
  <2>4. u.endpoints = endpoints /\ \A x \in endpoints : x \in DOMAIN m /\ TypeOf[x] = "entity"
    BY <1>3, <1>4, <1>5, <1>8, <1>a
  <2>5. m[id].deps = {u.document.id} \cup {x.pin.id : x \in UNION {g.evidence : g \in u.groups}} \cup u.endpoints
    BY <1>3, <1>6, <2>1, <2>2, <2>3
  <2>6. TypeOf[u.document.id] = "document" /\ Resolves(u.document, m)
    BY <1>3, <1>5, <1>6
  <2>7. \A x \in UNION {g.evidence : g \in u.groups} :
          /\ Resolves(x.pin, m) /\ x.document = u.document
          /\ TypeOf[x.pin.id] \in {"document", "chunk"} => ParentOf[x.pin.id] = u.document.id
    BY <1>3, <1>6, <1>7, <1>9, <2>1
  <2> QED
    BY <2>2, <2>4, <2>5, <2>6, <2>7 DEF ClaimRecordResolves
<1>14. u.document.source = r.source /\ u.document.acl = r.acl /\ u.document.projection = r.projection
  BY <1>3, <1>6
<1>15. id \notin r.deps /\ r.deps \subseteq DOMAIN m /\ r.deps # {}
  BY <1>3, <1>4, <1>5, <1>8, <1>a
<1>16. ClaimSound(id, m)
  BY <1>11, <1>12, <1>13, <1>14 DEF ClaimSound, m, r, u
<1> QED
  BY <1>15, <1>16 DEF m, r

LEMMA MaterializedBundleSound ==
  ASSUME NEW run, NEW sources \in SourceSet, ChunksOf(sources) # {},
         NEW id \in DOMAIN Materialized(run, sources), TypeOf[id] = "artifact"
  PROVE  /\ ArtifactSound(id, Materialized(run, sources))
         /\ LET r == Materialized(run, sources)[id]
            IN id \notin r.deps /\ r.deps \subseteq DOMAIN Materialized(run, sources) /\ r.deps # {}
<1> DEFINE m == Materialized(run, sources)
           r == m[id]
           u == r.record
           pins == {DocumentPin(run, sources, d) : d \in DOMAIN sources} \cup
                   {ChunkPin(run, sources, c) : c \in ChunksOf(sources)}
           group == [complete |-> TRUE, pins |-> pins]
<1>1. PartOf(run, sources, id, r)
  BY MaterializedIs
<1> HIDE DEF r
<1>2. r = BundleOf(run, sources) /\ id = Bundle
  BY <1>1 DEF PartOf, ClaimPart, BundlePart
<1>3. /\ r.acl = 0 /\ r.source = run.snapshot.version /\ r.projection = run.target
      /\ r.deps = {p.id : p \in pins}
      /\ u = [artifact |-> Pin(id, r), mode |-> "all_required", groups |-> {group}]
  BY <1>2, BundleHas
<1>4. \A d \in DOMAIN sources :
        /\ TypeOf[d] = "document" /\ DocumentPin(run, sources, d).id = d /\ d \in DOMAIN m
        /\ DocumentPin(run, sources, d).projection = run.target
        /\ Resolves(DocumentPin(run, sources, d), m)
  BY DocumentsKnown, DocumentPinHas, MaterializedHas
<1>5. \A c \in ChunksOf(sources) :
        /\ TypeOf[c] = "chunk" /\ ChunkPin(run, sources, c).id = c /\ c \in DOMAIN m
        /\ ChunkPin(run, sources, c).projection = run.target
        /\ Resolves(ChunkPin(run, sources, c), m)
  BY ChunksKnown, ChunkPinHas, MaterializedHas
<1> HIDE DEF m
<1>6. ASSUME NEW p \in pins
      PROVE  /\ TypeOf[p.id] \in {"document", "chunk"} /\ p.id \in DOMAIN m
             /\ p.projection = run.target /\ Resolves(p, m)
  BY <1>4, <1>5
<1>7. pins # {}
  OBVIOUS
<1> HIDE DEF pins
<1>8. /\ u.artifact = Pin(id, r) /\ u.mode = "all_required" /\ u.groups = {group} /\ u # None
      /\ group.pins = pins /\ group.complete = TRUE
  BY <1>3 DEF None
<1> HIDE DEF u, group
<1>9. u.artifact.id = id /\ u.artifact.projection = run.target
  BY <1>3, <1>8 DEF Pin
<1>10. \A p \in pins : p.id # id
  BY <1>6
<1>11. SecurityRecordValid(u)
  BY <1>6, <1>7, <1>8, <1>9, <1>10 DEF SecurityRecordValid
<1>12. UNION {g.pins : g \in u.groups} = pins
  BY <1>8
<1>13. id \notin r.deps /\ r.deps \subseteq DOMAIN m /\ r.deps # {}
  BY <1>3, <1>6, <1>7
<1>14. ArtifactSound(id, m)
  BY <1>3, <1>6, <1>8, <1>11, <1>12 DEF ArtifactSound, m, r, u
<1> QED
  BY <1>13, <1>14 DEF m, r

LEMMA MaterializedSound ==
  ASSUME NEW run, NEW sources \in SourceSet, ChunksOf(sources) # {}
  PROVE  Sound(run, Materialized(run, sources))
<1> DEFINE m == Materialized(run, sources)
<1>1. SUFFICES ASSUME NEW id \in DOMAIN m PROVE SoundIn(run, id, m)
  BY DEF Sound
<1> DEFINE r == m[id]
<1>2. r.acl = 0 /\ r.source = run.snapshot.version /\ r.projection = run.target
  BY MaterializedVersions
<1>3. PartOf(run, sources, id, r)
  BY MaterializedIs
<1>4. CASE TypeOf[id] = "document"
  <2>1. r.deps = {} /\ r.record = None
    BY <1>4, MaterializedDocument
  <2> HIDE DEF m
  <2> QED
    BY <1>2, <1>4, <2>1 DEF SoundIn
<1>5. CASE TypeOf[id] = "chunk"
  <2>1. id \in ChunksOf(sources) /\ r.deps = {ParentOf[id]} /\ r.record = None
    BY <1>5, MaterializedChunk
  <2>2. ParentOf[id] \in DOMAIN sources
    BY <2>1, ChunksKnown
  <2>3. ParentOf[id] \in DOMAIN m /\ TypeOf[ParentOf[id]] = "document"
    BY <2>2, MaterializedHas, DocumentsKnown
  <2>4. /\ m[ParentOf[id]].acl = 0 /\ m[ParentOf[id]].source = run.snapshot.version
        /\ m[ParentOf[id]].projection = run.target
    BY <2>3, MaterializedVersions
  <2> HIDE DEF m
  <2>5. InheritsDocument(id, m)
    BY <1>2, <2>3, <2>4 DEF InheritsDocument
  <2> QED
    BY <1>2, <1>5, <2>1, <2>3, <2>5 DEF SoundIn
<1>6. CASE TypeOf[id] = "entity"
  <2>1. r.record = None /\ r.deps # {} /\ id \notin r.deps /\ r.deps \subseteq DOMAIN m
    <3>1. CASE \E d \in DOMAIN sources : r = EntityOfDocument(run, sources, d)
      <4>1. PICK d \in DOMAIN sources : r = EntityOfDocument(run, sources, d)
        BY <3>1
      <4> HIDE DEF r
      <4>2. r.record = None /\ r.deps # {} /\ r.deps \subseteq {d} \cup ChunksOf(sources)
        BY <4>1, EntityOfDocumentHas
      <4>3. \A x \in {d} \cup ChunksOf(sources) : TypeOf[x] # "entity" /\ x \in DOMAIN m
        BY DocumentsKnown, ChunksKnown, MaterializedHas
      <4> QED
        BY <1>6, <4>2, <4>3
    <3>2. CASE \E c \in ChunksOf(sources) : r = Resource(run, ChunkText(sources, c), {c}, None)
      <4>1. PICK c \in ChunksOf(sources) : r = Resource(run, ChunkText(sources, c), {c}, None)
        BY <3>2
      <4> HIDE DEF r
      <4>2. r.record = None /\ r.deps = {c}
        BY <4>1, ResourceHas
      <4>3. TypeOf[c] = "chunk" /\ c \in DOMAIN m
        BY ChunksKnown, MaterializedHas
      <4> QED
        BY <1>6, <4>2, <4>3
    <3> HIDE DEF r
    <3> QED
      BY <1>3, <1>6, <3>1, <3>2 DEF PartOf, ClaimPart, BundlePart
  <2> HIDE DEF m
  <2> QED
    BY <1>2, <1>6, <2>1 DEF SoundIn
<1>7. CASE TypeOf[id] = "claim"
  <2>1. ClaimSound(id, m) /\ id \notin r.deps /\ r.deps \subseteq DOMAIN m /\ r.deps # {}
    BY <1>7, MaterializedClaimSound
  <2> HIDE DEF m
  <2> QED
    BY <1>2, <1>7, <2>1 DEF SoundIn
<1>8. CASE TypeOf[id] = "artifact"
  <2>1. ArtifactSound(id, m) /\ id \notin r.deps /\ r.deps \subseteq DOMAIN m /\ r.deps # {}
    BY <1>8, MaterializedBundleSound
  <2> HIDE DEF m
  <2> QED
    BY <1>2, <1>8, <2>1 DEF SoundIn
<1>9. TypeOf[id] \in {"document", "chunk", "entity", "claim", "artifact"}
  <2> HIDE DEF r, m
  <2> QED
    BY <1>3 DEF PartOf, ClaimPart, BundlePart
<1> QED
  BY <1>4, <1>5, <1>6, <1>7, <1>8, <1>9

-----------------------------------------------------------------------------
\* Whatever serves is whole

\* Resources that make a whole projection of a snapshot when they serve.
WholeFor(snapshot, t) ==
  /\ \A id \in DOMAIN t : /\ t[id].deps \subseteq DOMAIN t
                          /\ TypeOf[id] = "chunk" => ParentOf[id] \in t[id].deps
                          /\ TypeOf[id] = "document" => \E d \in snapshot.documents : d.id = id
  /\ \A x, y \in snapshot.documents : x.id = y.id => x = y
  /\ \A d \in snapshot.documents : TypeOf[d.id] = "document"

LEMMA WholeServed ==
  ASSUME NEW p, NEW t, WholeFor(p.snapshot, t), Live(p.resources) = DOMAIN t,
         Serving(p.resources) \subseteq DOMAIN t,
         \A id \in DOMAIN t : p.resources[id].deps = t[id].deps
  PROVE  Whole(p)
BY DEF Whole, WholeFor, Snapshotted

LEMMA ReplayedWhole ==
  ASSUME NEW run, NEW base, NEW targets, NEW stale, Accepted(run, base, targets, stale),
         WholeFor(run.snapshot, targets)
  PROVE  Whole(Replayed(PlanOf(run, base, targets, stale), base, {}))
<1> DEFINE p == Replayed(PlanOf(run, base, targets, stale), base, {})
<1>1. stale \in {"revoke", "tombstone"} /\ Shaped(base.resources)
  BY AcceptedFacts
<1>2. p.snapshot = run.snapshot /\ DOMAIN p.resources = DOMAIN targets \cup Stale(base, targets)
  <2>1. p.snapshot = run.snapshot
    BY ReplayedIs
  <2>2. p.resources = Results(run, base, targets, stale, {})
    BY <1>1, ReplayedResources
  <2>3. DOMAIN Results(run, base, targets, stale, {}) = DOMAIN targets \cup Stale(base, targets)
    BY DEF Results
  <2> HIDE DEF p
  <2> QED
    BY <2>1, <2>2, <2>3
<1>3. /\ Serving(p.resources) = DOMAIN targets
      /\ \A id \in DOMAIN targets :
           p.resources[id] = Metadata(targets[id].content, targets[id].acl, targets[id].source,
             targets[id].projection, "serving", Succeeded, targets[id].deps, targets[id].record)
      /\ \A id \in Stale(base, targets) : p.resources[id].state = Terminus(stale)
  BY ReplayServes
<1> HIDE DEF p
<1>4. \A id \in DOMAIN targets : p.resources[id].deps = targets[id].deps /\ p.resources[id].state = "serving"
  BY <1>3, MetadataIs
<1>5. Live(p.resources) = DOMAIN targets
  BY <1>1, <1>2, <1>3, <1>4 DEF Live, IsTerminal, Terminus
<1> QED
  BY <1>2, <1>3, <1>4, <1>5, WholeServed DEF p

LEMMA PublicWhole ==
  ASSUME NEW run, NEW resources, Shaped(resources), WholeFor(run.snapshot, resources)
  PROVE  Whole(PublicProjection(run, resources))
<1> DEFINE p == PublicProjection(run, resources)
<1>1. /\ DOMAIN p.resources = DOMAIN resources
      /\ \A id \in DOMAIN resources :
           p.resources[id] = Metadata(resources[id].content, resources[id].acl, resources[id].source,
             resources[id].projection, "serving", Succeeded, resources[id].deps, resources[id].record)
  BY PublicShaped
<1>2. p.snapshot = run.snapshot
  BY DEF PublicProjection
<1> HIDE DEF p
<1>3. \A id \in DOMAIN resources : p.resources[id].deps = resources[id].deps /\ p.resources[id].state = "serving"
  BY <1>1, MetadataIs
<1>4. Live(p.resources) = DOMAIN resources /\ Serving(p.resources) \subseteq DOMAIN resources
  BY <1>1, <1>3 DEF Live, IsTerminal, Serving
<1> QED
  BY <1>2, <1>3, <1>4, WholeServed DEF p

LEMMA StagedWhole ==
  ASSUME NEW snapshot, NEW desired, Shaped(desired), WholeFor(snapshot, desired)
  PROVE  WholeFor(snapshot, Staged(desired))
<1> DEFINE t == Staged(desired)
<1>1. /\ DOMAIN t = DOMAIN desired
      /\ \A id \in DOMAIN desired :
           t[id] = Metadata(desired[id].content, desired[id].acl, desired[id].source,
             desired[id].projection, "staged", Pending, desired[id].deps, desired[id].record)
  BY StagedAre
<1> HIDE DEF t
<1>2. \A id \in DOMAIN desired : t[id].deps = desired[id].deps
  BY <1>1, MetadataIs
<1> QED
  BY <1>1, <1>2 DEF WholeFor, t

\* A valid catalog refers to nothing but its own, and its snapshot is of its
\* documents.
LEMMA CatalogWhole ==
  ASSUME NEW version, NEW catalog, CatalogValid(catalog), DOMAIN catalog \subseteq Id
  PROVE  WholeFor(CatalogSnapshot(version, catalog), ResourceMetadata(catalog))
<1> DEFINE m == ResourceMetadata(catalog)
           documents == CatalogSnapshot(version, catalog).documents
<1>1. DOMAIN m = DOMAIN catalog /\ \A id \in DOMAIN catalog : m[id].deps = CatalogDependencies(id, catalog[id])
  BY CatalogMetadataIs DEF ResourceMetadata
<1>2. documents = {[id |-> x, content |-> catalog[x].content, acl |-> catalog[x].acl] :
                     x \in {y \in DOMAIN catalog : TypeOf[y] = "document"}}
  BY DEF CatalogSnapshot, SourceSnapshot
<1> HIDE DEF m, documents
<1>3. \A d \in documents :
        /\ d.id \in DOMAIN catalog /\ TypeOf[d.id] = "document"
        /\ d = [id |-> d.id, content |-> catalog[d.id].content, acl |-> catalog[d.id].acl]
  BY <1>2
<1>4. ASSUME NEW id \in DOMAIN catalog, TypeOf[id] = "document" PROVE \E d \in documents : d.id = id
  <2> DEFINE d == [id |-> id, content |-> catalog[id].content, acl |-> catalog[id].acl]
  <2>1. d \in documents /\ d.id = id
    BY <1>2, <1>4
  <2> QED
    BY <2>1
<1>5. ASSUME NEW id \in DOMAIN catalog
      PROVE  /\ CatalogDependencies(id, catalog[id]) \subseteq DOMAIN catalog
             /\ TypeOf[id] = "chunk" => ParentOf[id] \in CatalogDependencies(id, catalog[id])
  <2> DEFINE item == catalog[id]
  <2>1. /\ ItemValid(id, item)
        /\ TypeOf[id] \in {"chunk", "claim"} => DocumentResolves(item.document, catalog)
        /\ (TypeOf[id] = "claim" /\ item.bound) => \A x \in item.endpoints : x \in DOMAIN catalog
        /\ id \in Derived(catalog) => ProvenanceResolves(id, catalog)
    BY DEF CatalogValid
  <2>2. TypeOf[id] \in {"document", "chunk", "entity", "claim", "artifact"}
    BY CatalogProjectionAssumption
  <2>3. \A e \in EvidenceOf(item) : e.pin.id \in DOMAIN catalog
    <3>1. CASE TypeOf[id] \in {"document", "chunk"}
      <4>1. item.groups = {}
        BY <2>1, <3>1 DEF ItemValid
      <4> QED
        BY <4>1 DEF EvidenceOf
    <3>2. CASE TypeOf[id] \in {"entity", "claim", "artifact"}
      BY <2>1, <3>2 DEF Derived, ProvenanceResolves, Resolves, EvidenceOf
    <3> QED
      BY <2>2, <3>1, <3>2
  <2>4. TypeOf[id] \in {"chunk", "claim"} => item.document.id \in DOMAIN catalog
    BY <2>1 DEF DocumentResolves, Resolves
  <2>5. TypeOf[id] = "chunk" => item.document.id = ParentOf[id]
    BY <2>1 DEF ItemValid
  <2> HIDE DEF item
  <2>6. CatalogDependencies(id, item) \subseteq DOMAIN catalog
    BY <2>1, <2>3, <2>4 DEF CatalogDependencies
  <2>7. TypeOf[id] = "chunk" => ParentOf[id] \in CatalogDependencies(id, item)
    BY <2>5 DEF CatalogDependencies
  <2> QED
    BY <2>6, <2>7 DEF item
<1>6. \A x, y \in documents : x.id = y.id => x = y
  BY <1>3
<1> QED
  BY <1>1, <1>3, <1>4, <1>5, <1>6 DEF WholeFor, m, documents

LEMMA KeptWhole ==
  ASSUME NEW run, NEW base, NEW selection, Revocable(run, base, selection),
         run.snapshot = LiveSnapshot(base)
  PROVE  WholeFor(run.snapshot, KeptResources(run, base, selection))
<1> DEFINE K == KeptOf(base, selection)
           kept == KeptResources(run, base, selection)
<1>1. DOMAIN kept = K /\ K \subseteq Serving(base.resources)
  BY KeptServes DEF KeptResources, Revocable
<1>2. run.snapshot.documents = {d \in base.snapshot.documents : d.id \in Serving(base.resources)}
  BY DEF LiveSnapshot, SourceSnapshot
<1>3. ASSUME NEW id \in K
      PROVE  /\ kept[id].deps \subseteq K
             /\ TypeOf[id] = "chunk" => ParentOf[id] \in kept[id].deps
             /\ TypeOf[id] = "document" => \E d \in run.snapshot.documents : d.id = id
  <2>1. /\ kept[id].deps \subseteq K
        /\ kept[id].deps = CarriedDeps(run, id, base, RevocationClosure(base, selection))
    BY KeptIs
  <2>2. TypeOf[id] # "artifact" => kept[id].deps = base.resources[id].deps
    BY <2>1 DEF CarriedDeps
  <2>3. id \in Serving(base.resources)
    BY <1>1
  <2>4. TypeOf[id] = "chunk" => ParentOf[id] \in base.resources[id].deps
    BY <2>3 DEF Revocable, Whole
  <2>5. TypeOf[id] = "document" => \E d \in base.snapshot.documents : d.id = id
    BY <2>3 DEF Revocable, Whole, Snapshotted
  <2> HIDE DEF kept, K
  <2> QED
    BY <1>2, <2>1, <2>2, <2>3, <2>4, <2>5
<1>4. /\ \A x, y \in run.snapshot.documents : x.id = y.id => x = y
      /\ \A d \in run.snapshot.documents : TypeOf[d.id] = "document"
  BY <1>2 DEF Revocable, Whole, Snapshotted
<1> HIDE DEF kept, K
<1> QED
  BY <1>1, <1>3, <1>4 DEF WholeFor, kept

LEMMA MaterializedWhole ==
  ASSUME NEW selected, NEW sources \in SourceSet, ChunksOf(sources) # {}
  PROVE  LET run == BuildRun(selected, sources)
         IN WholeFor(run.snapshot, Materialized(run, sources))
<1> DEFINE run == BuildRun(selected, sources)
           m == Materialized(run, sources)
           documents == run.snapshot.documents
<1>1. documents = {[id |-> d, content |-> sources[d].content, acl |-> 0] : d \in DOMAIN sources}
  BY DEF BuildRun, SourceSnapshot
<1> HIDE DEF run, documents
<1>2. Sound(run, m)
  BY MaterializedSound
<1>3. \A d \in documents :
        /\ d.id \in DOMAIN sources /\ d = [id |-> d.id, content |-> sources[d.id].content, acl |-> 0]
  BY <1>1
<1>4. ASSUME NEW id \in DOMAIN m
      PROVE  /\ m[id].deps \subseteq DOMAIN m
             /\ TypeOf[id] = "chunk" => ParentOf[id] \in m[id].deps
             /\ TypeOf[id] = "document" => id \in DOMAIN sources
  BY <1>2, MaterializedChunk, MaterializedDocument DEF Sound, SoundIn
<1>5. ASSUME NEW id \in DOMAIN sources PROVE \E d \in documents : d.id = id
  <2> DEFINE d == [id |-> id, content |-> sources[id].content, acl |-> 0]
  <2>1. d \in documents /\ d.id = id
    BY <1>1
  <2> QED
    BY <2>1
<1>6. \A x, y \in documents : x.id = y.id => x = y
  BY <1>3
<1>7. \A d \in documents : TypeOf[d.id] = "document"
  BY <1>3, DocumentsKnown
<1> HIDE DEF m
<1> QED
  BY <1>4, <1>5, <1>6, <1>7 DEF WholeFor, m, documents, run

LEMMA WholeInit ==
  ASSUME LifecycleInit
  PROVE  Whole(current)
<1>1. PICK f \in Founding : /\ CatalogValid(CatalogOf(f.workspace, InitialRun))
                             /\ current = InitialProjection(f.workspace, f.legacy)
                             /\ ProjectionValid(current)
  BY DEF LifecycleInit
<1> DEFINE catalog == CatalogOf(f.workspace, InitialRun)
           m == ResourceMetadata(catalog)
           resources == [id \in DOMAIN m |->
              [m[id] EXCEPT !.state = "serving", !.status = Succeeded,
                            !.record = IF id \in f.legacy THEN None ELSE @]]
<1>2. current.snapshot = CatalogSnapshot(0, catalog) /\ current.resources = resources
  BY <1>1 DEF InitialProjection
<1>3. WholeFor(CatalogSnapshot(0, catalog), m)
  <2>1. DOMAIN catalog \subseteq Id
    BY CatalogLifecycleAssumption DEF Catalogued
  <2> HIDE DEF catalog
  <2> QED
    BY <1>1, <2>1, CatalogWhole DEF catalog
<1>4. Shaped(m)
  BY CatalogShaped
<1> HIDE DEF m, catalog
<1>5. ASSUME NEW id \in DOMAIN m
      PROVE  resources[id].deps = m[id].deps /\ resources[id].state = "serving"
  <2> DEFINE r == m[id]
  <2>1. IsResource(r)
    BY <1>4 DEF Shaped
  <2>2. resources[id] = [r EXCEPT !.state = "serving", !.status = Succeeded,
                                  !.record = IF id \in f.legacy THEN None ELSE @]
    OBVIOUS
  <2> HIDE DEF r, resources
  <2> QED
    BY <2>1, <2>2 DEF IsResource, Metadata, r
<1>6. DOMAIN resources = DOMAIN m
  OBVIOUS
<1> HIDE DEF resources
<1>7. Live(resources) = DOMAIN m /\ Serving(resources) \subseteq DOMAIN m
  BY <1>5, <1>6 DEF Live, IsTerminal, Serving
<1> QED
  BY <1>2, <1>3, <1>5, <1>7, WholeServed

\* What serves after a run is whole when what it was for is.
LEMMA NextWhole ==
  ASSUME BaseInv, Whole(current), NEW kind, NEW input, NEW run, NEW desired, NEW stale, NEW failed,
         Shaped(desired), WholeFor(run.snapshot, desired),
         Accepted(run, current, Staged(desired), stale),
         Finish(kind, input, PlanOf(run, current, Staged(desired), stale), failed),
         kind = "build" => input = desired
  PROVE  Whole(current')
<1> DEFINE targets == Staged(desired)
           plan == PlanOf(run, current, targets, stale)
<1>1. WholeFor(run.snapshot, targets)
  BY StagedWhole
<1> HIDE DEF targets
<1>2. CASE failed # {}
  <2>1. current' = current
    BY <1>2, FinishIs DEF targets
  <2> QED
    BY <2>1
<1>3. CASE failed = {} /\ kind = "build"
  <2>1. current' = PublicProjection(run, desired)
    BY <1>3, FinishIs DEF targets
  <2>2. Whole(PublicProjection(run, desired))
    BY PublicWhole
  <2> QED
    BY <2>1, <2>2
<1>4. CASE failed = {} /\ kind # "build"
  <2>1. current' = Replayed(plan, current, {})
    BY <1>4, FinishIs DEF targets
  <2>2. Whole(Replayed(plan, current, {}))
    BY <1>1, ReplayedWhole DEF targets
  <2> QED
    BY <2>1, <2>2
<1> QED
  BY <1>2, <1>3, <1>4

LEMMA ReconcileWhole ==
  ASSUME BaseInv, Whole(current), current.version < MaxVersion, NEW workspace \in Workspace, NEW failing,
         Reconcile(workspace, failing)
  PROVE  Whole(current')
<1> DEFINE run == ScanRun(current.version, workspace)
           catalog == CatalogOf(workspace, run)
           input == ResourceMetadata(catalog)
<1>1. PICK plan \in PlanFullReconciliation(run, current, catalog) :
        \E failed \in Failures(plan, failing) : Finish("reconcile", input, plan, failed)
  BY DEF Reconcile, ReconciliationRun
<1>2. PICK failed \in Failures(plan, failing) : Finish("reconcile", input, plan, failed)
  BY <1>1
<1>3. run.target = current.version + 1
  BY DEF ScanRun
<1>4. DOMAIN catalog \subseteq Id
  BY CatalogLifecycleAssumption DEF Catalogued, BaseInv
<1> HIDE DEF run, catalog
<1>5. /\ CatalogValid(catalog) /\ CatalogSnapshot(run.snapshot.version, catalog) = run.snapshot
      /\ plan \in PlanResources(run, current, input, "tombstone")
  BY <1>1 DEF PlanFullReconciliation
<1>6. Shaped(input) /\ WholeFor(run.snapshot, input)
  BY <1>4, <1>5, CatalogShaped, CatalogWhole
<1> HIDE DEF input
<1>7. Accepted(run, current, Staged(input), "tombstone") /\ plan = PlanOf(run, current, Staged(input), "tombstone")
  BY <1>3, <1>5, <1>6, PlanIsAccepted
<1> QED
  BY <1>2, <1>6, <1>7, NextWhole

LEMMA BuildWhole ==
  ASSUME BaseInv, Whole(current), NEW sources \in SourceSet, NEW failing, Build(sources, failing)
  PROVE  Whole(current')
<1> DEFINE run == BuildRun(current, sources)
           input == Materialized(run, sources)
<1>1. PICK plan \in PlanBuild(current, sources) :
        \E failed \in Failures(plan, failing) : Finish("build", Materialized(plan.run, sources), plan, failed)
  BY DEF Build
<1>2. PICK failed \in Failures(plan, failing) : Finish("build", Materialized(plan.run, sources), plan, failed)
  BY <1>1
<1>3. run.target = current.version + 1
  BY DEF BuildRun
<1>4. plan \in PlanResources(run, current, input, "tombstone") /\ ChunksOf(sources) # {}
  BY <1>1 DEF PlanBuild
<1>5. Shaped(input) /\ WholeFor(run.snapshot, input)
  BY <1>4, MaterializedShaped, MaterializedWhole
<1> HIDE DEF run
<1>6. Accepted(run, current, Staged(input), "tombstone") /\ plan = PlanOf(run, current, Staged(input), "tombstone")
  <2> HIDE DEF input
  <2> QED
    BY <1>3, <1>4, <1>5, PlanIsAccepted
<1>7. Finish("build", input, plan, failed)
  <2>1. plan.run = run
    BY <1>6 DEF PlanOf
  <2> QED
    BY <1>2, <2>1
<1> HIDE DEF input
<1> QED
  BY <1>5, <1>6, <1>7, NextWhole

LEMMA RevocationRunIs ==
  ASSUME BaseInv, Whole(current), NEW selection \in SUBSET DOMAIN current.resources
  PROVE  LET run == RevocationRun(current)
         IN /\ Revocable(run, current, selection) /\ run.snapshot = LiveSnapshot(current)
            /\ run.base = current.version /\ run.target = current.version + 1
<1>1. IsFiniteSet(DOMAIN current.resources)
  BY CatalogProjectionAssumption, FS_Subset DEF BaseInv, Recorded
<1> QED
  BY <1>1 DEF Revocable, RevocationRun, LiveSnapshot, SourceSnapshot, BaseInv

LEMMA RevokeWhole ==
  ASSUME BaseInv, Whole(current), NEW selection, NEW failing, Revoke(selection, failing)
  PROVE  Whole(current')
<1> DEFINE run == RevocationRun(current)
           kept == KeptResources(run, current, selection)
<1>1. PICK plan \in PlanRevocations(run, current, selection) :
        \E failed \in Failures(plan, failing) : Finish("revoke", selection, plan, failed)
  BY DEF Revoke
<1>2. PICK failed \in Failures(plan, failing) : Finish("revoke", selection, plan, failed)
  BY <1>1
<1>3. plan \in PlanResources(run, current, kept, "revoke") /\ selection \in SUBSET DOMAIN current.resources
  BY RevocationPlans
<1>4. /\ Revocable(run, current, selection) /\ run.snapshot = LiveSnapshot(current)
      /\ run.target = current.version + 1
  BY <1>3, RevocationRunIs
<1> HIDE DEF run
<1>5. Shaped(kept) /\ WholeFor(run.snapshot, kept)
  BY <1>4, KeptShaped, KeptWhole DEF BaseInv
<1> HIDE DEF kept
<1>6. Accepted(run, current, Staged(kept), "revoke") /\ plan = PlanOf(run, current, Staged(kept), "revoke")
  BY <1>3, <1>4, <1>5, PlanIsAccepted
<1> QED
  BY <1>2, <1>5, <1>6, NextWhole

WholeServes == Whole(current)

LEMMA StepWhole ==
  ASSUME CatalogInv, WholeServes, [LifecycleNext]_lifecycleVars
  PROVE  WholeServes'
<1>1. BaseInv /\ Whole(current)
  BY DEF CatalogInv, WholeServes
<1>2. ASSUME NEW failing, current.version < MaxVersion, RunWith(failing) PROVE Whole(current')
  BY <1>1, <1>2, ReconcileWhole, BuildWhole, RevokeWhole DEF RunWith
<1>3. CASE RunSucceeds
  BY <1>2, <1>3 DEF RunSucceeds, WholeServes
<1>4. CASE RunFails
  <2>1. current.version < MaxVersion
    BY <1>1, <1>4, CatalogLifecycleAssumption DEF RunFails, BaseInv
  <2> QED
    BY <1>2, <1>4, <2>1 DEF RunFails, WholeServes
<1>5. CASE Report
  BY <1>1, <1>5 DEF Report, WholeServes
<1>6. CASE UNCHANGED lifecycleVars
  BY <1>1, <1>6 DEF lifecycleVars, WholeServes
<1> QED
  BY <1>3, <1>4, <1>5, <1>6 DEF LifecycleNext, AtRest

-----------------------------------------------------------------------------
\* There is a plan

LEMMA RevocationPlannable ==
  ASSUME BaseInv, Whole(current), NEW selection \in SUBSET DOMAIN current.resources
  PROVE  PlanRevocations(RevocationRun(current), current, selection) # {}
<1> DEFINE run == RevocationRun(current)
           kept == KeptResources(run, current, selection)
           targets == Staged(kept)
           documents == run.snapshot.documents
           served == {id \in Serving(current.resources) : TypeOf[id] = "document"}
<1>1. /\ Revocable(run, current, selection) /\ run.snapshot = LiveSnapshot(current)
      /\ run.base = current.version /\ run.target = current.version + 1
  BY RevocationRunIs
<1>2. /\ documents = {d \in current.snapshot.documents : d.id \in Serving(current.resources)}
      /\ run.snapshot.count = Cardinality(documents)
  BY <1>1 DEF LiveSnapshot, SourceSnapshot
<1>3. PlanRevocations(run, current, selection) = PlanResources(run, current, kept, "revoke")
  BY DEF PlanRevocations, KeptResources, KeptOf
<1> HIDE DEF run
<1>4. DOMAIN kept = KeptOf(current, selection)
  BY DEF KeptResources
<1>5. Shaped(kept) /\ Sound(run, kept)
  BY <1>1, KeptShaped, KeptSound DEF BaseInv
<1>6. DOMAIN kept \subseteq Live(current.resources)
  BY <1>4 DEF KeptOf
<1> HIDE DEF kept, documents
<1>7. DOMAIN targets = DOMAIN kept /\ Shaped(targets)
  BY <1>5, StagedAre
<1> HIDE DEF targets
<1>8. DOMAIN targets \cup Stale(current, targets) = Live(current.resources)
  BY <1>6, <1>7 DEF Stale
<1>9. ASSUME NEW id \in DOMAIN current.resources, TypeOf[id] = "document"
      PROVE  ~IsTerminal(current.resources[id]) <=> IsServing(id, current.resources[id])
  <2>1. \/ IsTerminal(current.resources[id]) \/ IsServing(id, current.resources[id])
        \/ IsQuarantined(id, current.resources[id])
    BY ValidByResource DEF ValidIn, BaseInv
  <2> QED
    BY <1>9, <2>1 DEF IsQuarantined, IsServing, IsTerminal
<1>10. {id \in Live(current.resources) : TypeOf[id] = "document"} = served
  BY <1>9 DEF Live, Serving
<1>11. SnapshotDocuments(Replacement(run, current, targets, "revoke").resources) = served
  BY <1>7, <1>8, <1>10, ReplacedDocuments DEF BaseInv
<1>12. Cardinality(documents) = Cardinality(served)
  <2>1. IsFiniteSet(served)
    BY CatalogProjectionAssumption, FS_Subset DEF BaseInv, Recorded, Serving
  <2>2. \A d \in documents : d.id \in served
    BY <1>2 DEF Whole, Snapshotted
  <2>3. \A x, y \in documents : x.id = y.id => x = y
    BY <1>2 DEF Whole, Snapshotted
  <2>4. \A id \in served : \E d \in documents : d.id = id
    BY <1>2 DEF Whole, Snapshotted
  <2> HIDE DEF served
  <2> QED
    BY <2>1, <2>2, <2>3, <2>4, CountedOnce
<1> HIDE DEF served
<1>13. PlanResources(run, current, kept, "revoke") # {}
  BY <1>1, <1>2, <1>5, <1>11, <1>12, SoundPlans DEF targets
<1> QED
  BY <1>3, <1>13 DEF run

\* The documents that a build counts, in its bundle and in its plan.
LEMMA BuiltDocuments ==
  ASSUME NEW selected, NEW sources \in SourceSet
  PROVE  LET run == BuildRun(selected, sources)
         IN /\ {id \in DOMAIN Materialized(run, sources) : TypeOf[id] = "document"} = DOMAIN sources
            /\ run.snapshot.count = Cardinality(DOMAIN sources)
<1> DEFINE run == BuildRun(selected, sources)
           documents == run.snapshot.documents
<1>1. /\ documents = {[id |-> d, content |-> sources[d].content, acl |-> 0] : d \in DOMAIN sources}
      /\ run.snapshot.count = Cardinality(documents)
  BY DEF BuildRun, SourceSnapshot
<1> HIDE DEF run
<1>2. {id \in DOMAIN Materialized(run, sources) : TypeOf[id] = "document"} = DOMAIN sources
  <2> DEFINE known == DOMAIN Materialized(run, sources)
  <2>1. \A id \in known : TypeOf[id] = "document" => id \in DOMAIN sources
    BY MaterializedDocument
  <2>2. \A d \in DOMAIN sources : d \in known /\ TypeOf[d] = "document"
    BY MaterializedHas, DocumentsKnown
  <2> HIDE DEF known
  <2>3. {id \in known : TypeOf[id] = "document"} = DOMAIN sources
    BY <2>1, <2>2
  <2> QED
    BY <2>3 DEF known
<1> HIDE DEF documents
<1>3. IsFiniteSet(DOMAIN sources)
  BY DocumentsKnown, CatalogProjectionAssumption, FS_Subset
<1>4. \A d \in documents :
        /\ d.id \in DOMAIN sources /\ d = [id |-> d.id, content |-> sources[d.id].content, acl |-> 0]
  BY <1>1
<1>5. ASSUME NEW id \in DOMAIN sources PROVE \E d \in documents : d.id = id
  <2> DEFINE d == [id |-> id, content |-> sources[id].content, acl |-> 0]
  <2>1. d \in documents /\ d.id = id
    BY <1>1
  <2> QED
    BY <2>1
<1>6. \A x, y \in documents : x.id = y.id => x = y
  BY <1>4
<1>7. Cardinality(documents) = Cardinality(DOMAIN sources)
  BY <1>3, <1>4, <1>5, <1>6, CountedOnce
<1> QED
  BY <1>1, <1>2, <1>7 DEF run

\* The bundle is accepted.
LEMMA BundlePublishable ==
  ASSUME NEW selected, NEW sources \in SourceSet, ChunksOf(sources) # {}
  PROVE  LET run == BuildRun(selected, sources)
         IN Publishable(PublicProjection(run, Materialized(run, sources)))
<1> DEFINE run == BuildRun(selected, sources)
           m == Materialized(run, sources)
           p == PublicProjection(run, m)
<1>1. /\ {id \in DOMAIN m : TypeOf[id] = "document"} = DOMAIN sources
      /\ run.snapshot.count = Cardinality(DOMAIN sources)
  BY BuiltDocuments
<1> HIDE DEF run
<1>2. Shaped(m) /\ Sound(run, m)
  BY MaterializedShaped, MaterializedSound
<1>3. ASSUME NEW id \in DOMAIN m
      PROVE  /\ m[id].acl = 0
             /\ TypeOf[id] = "artifact" => m[id].record # None
  BY <1>2, MaterializedVersions DEF Sound, SoundIn, ArtifactSound
<1>4. ASSUME NEW id \in DOMAIN m, TypeOf[id] = "claim" PROVE m[id].record # None
  <2>1. PICK c : m[id] = ClaimOfChunk(run, sources, c)
    BY <1>4, MaterializedIs DEF PartOf, ClaimPart, BundlePart
  <2> QED
    BY <2>1, ClaimOfChunkIs
<1>5. PICK c : c \in DOMAIN m
  BY MaterializedHas
<1> HIDE DEF m
<1>6. /\ p.version = run.target /\ p.state = "serving" /\ DOMAIN p.resources = DOMAIN m
      /\ \A id \in DOMAIN m :
           p.resources[id] = Metadata(m[id].content, m[id].acl, m[id].source,
             m[id].projection, "serving", Succeeded, m[id].deps, m[id].record)
  BY <1>2, PublicShaped
<1>7. p.snapshot = run.snapshot
  BY DEF PublicProjection
<1> HIDE DEF p
<1>8. ASSUME NEW id \in DOMAIN m
      PROVE  /\ SameResource(p.resources[id], m[id])
             /\ p.resources[id].state = "serving" /\ p.resources[id].status = Succeeded
  <2>1. /\ p.resources[id].content = m[id].content /\ p.resources[id].acl = m[id].acl
        /\ p.resources[id].source = m[id].source /\ p.resources[id].projection = m[id].projection
        /\ p.resources[id].deps = m[id].deps /\ p.resources[id].record = m[id].record
        /\ p.resources[id].state = "serving" /\ p.resources[id].status = Succeeded
    BY <1>6, MetadataIs
  <2> QED
    BY <2>1 DEF SameResource
<1>9. \A id \in DOMAIN p.resources : ValidIn(p, id)
  BY <1>2, <1>6, <1>7, <1>8, SoundValid
<1>10. Serving(p.resources) = DOMAIN m
  <2>1. \A id \in DOMAIN m : TypeOf[id] = "artifact" => p.resources[id].record # None
    BY <1>3, <1>8 DEF SameResource
  <2>2. \A id \in DOMAIN m : Ready(p.resources[id])
    BY <1>8 DEF Ready, Succeeded
  <2>3. \A id \in DOMAIN m : IsServing(id, p.resources[id])
    BY <1>8, <2>1, <2>2 DEF IsServing
  <2> QED
    BY <1>6, <2>3 DEF Serving
<1>11. SnapshotDocuments(p.resources) = DOMAIN sources
  BY <1>1, <1>6, <1>10 DEF SnapshotDocuments, Serving
<1>12. ProjectionValid(p)
  BY <1>1, <1>7, <1>9, <1>11, ValidByResource
<1>13. /\ \A id \in Serving(p.resources) : TypeOf[id] = "claim" => p.resources[id].record # None
       /\ \A x, y \in Serving(p.resources) : p.resources[x].acl = p.resources[y].acl
  BY <1>3, <1>4, <1>8, <1>10 DEF SameResource
<1>14. GraphResourcesValid(p) /\ GraphClaimsValid(p)
  BY <1>5, <1>10, <1>12, <1>13, Derivable
<1> QED
  BY <1>12, <1>14 DEF Publishable, p, m, run

LEMMA BuildPlannable ==
  ASSUME BaseInv, Whole(current), NEW sources \in SourceSet, ChunksOf(sources) # {}
  PROVE  PlanBuild(current, sources) # {}
<1> DEFINE run == BuildRun(current, sources)
           m == Materialized(run, sources)
           targets == Staged(m)
<1>1. PlanBuild(current, sources) = PlanResources(run, current, m, "tombstone")
  BY BundlePublishable DEF PlanBuild
<1>2. /\ {id \in DOMAIN m : TypeOf[id] = "document"} = DOMAIN sources
      /\ run.snapshot.count = Cardinality(DOMAIN sources)
  BY BuiltDocuments
<1>3. run.base = current.version /\ run.target = current.version + 1
  BY DEF BuildRun
<1> HIDE DEF run
<1>4. Shaped(m) /\ Sound(run, m)
  BY MaterializedShaped, MaterializedSound
<1> HIDE DEF m
<1>5. DOMAIN targets = DOMAIN m /\ Shaped(targets)
  BY <1>4, StagedAre
<1> HIDE DEF targets
<1>6. SnapshotDocuments(Replacement(run, current, targets, "tombstone").resources) = DOMAIN sources
  <2>1. SnapshotDocuments(Replacement(run, current, targets, "tombstone").resources)
          = {id \in DOMAIN targets \cup {} : TypeOf[id] = "document"}
    BY <1>5, ReplacedDocuments DEF BaseInv
  <2> QED
    BY <1>2, <1>5, <2>1
<1>7. PlanResources(run, current, m, "tombstone") # {}
  BY <1>2, <1>3, <1>4, <1>6, SoundPlans DEF targets
<1> QED
  BY <1>1, <1>7 DEF run, m

\* From a projection in the invariant there is a plan for every revocation,
\* and for every build.
LEMMA BasePlannable ==
  ASSUME BaseInv, WholeServes
  PROVE  AlwaysPlannable
<1>1. Whole(current)
  BY DEF WholeServes
<1>2. \A selection \in Selections(current) :
        PlanRevocations(RevocationRun(current), current, selection) # {}
  BY <1>1, RevocationPlannable DEF Selections
<1>3. \A sources \in SourceSet : ChunksOf(sources) # {} => PlanBuild(current, sources) # {}
  BY <1>1, BuildPlannable
<1> QED
  BY <1>2, <1>3 DEF AlwaysPlannable

-----------------------------------------------------------------------------
\* The theorems

\* The last run is of a kind there is, and what serves is a projection of
\* known resources, of a version there may be.
THEOREM LifecycleTyped == LifecycleSpec => []LifecycleTypeOK
<1>1. CatalogInv => LifecycleTypeOK
  BY DEF CatalogInv, BaseInv, Recorded, RunKnown, LifecycleTypeOK
<1> QED
  BY <1>1, CatalogInvariant, PTL

\* What the planner accepts, Replay carries out as well when an operation
\* failed; with an operation missing it carries out nothing, and the second
\* time it changes nothing and tells how the first ended.
THEOREM PlansAreReplayed == LifecycleSpec => []PlansReplay
<1>1. CatalogInv => PlansReplay
  BY DEF CatalogInv
<1> QED
  BY <1>1, CatalogInvariant, PTL

\* After a failed operation nothing of the new version serves, the base goes
\* on serving, and each resource that failed is marked.
THEOREM FailuresAreWithheld == LifecycleSpec => []FailureWithheld
<1>1. CatalogInv => FailureWithheld
  BY DEF CatalogInv
<1> QED
  BY <1>1, CatalogInvariant, PTL

\* A reconciliation and a build serve what was built, each resource as it was
\* built, and leave a tombstone of everything else that was there.
THEOREM ReconcilesExactly == LifecycleSpec => []ReconciliationExact
<1>1. CatalogInv => ReconciliationExact
  BY DEF CatalogInv
<1> QED
  BY <1>1, CatalogInvariant, PTL

\* A revocation takes what was selected and exactly what cannot stand without
\* it: what the planner's queue finds in rounds is what is left out of every
\* set of resources that stands without the selection.
THEOREM RevokesExactly == LifecycleSpec => []RevocationExact
<1>1. CatalogInv => RevocationExact
  BY DEF CatalogInv
<1> QED
  BY <1>1, CatalogInvariant, PTL

\* Whatever serves, after any runs, rests on documents that serve.
THEOREM ServesGrounded == LifecycleSpec => []SourceGrounded
<1>1. CatalogInv => SourceGrounded
  BY BaseGrounded DEF CatalogInv
<1> QED
  BY <1>1, CatalogInvariant, PTL

\* Where every catalog has the versions of one access list, as the build gives
\* it, the graph can be derived from every projection that serves.
THEOREM GraphsDerive == OneAcl => (LifecycleSpec => []GraphDerivable)
<1>1. CatalogInv /\ OneAcl => GraphDerivable
  BY BaseDerivable DEF CatalogInv
<1>2. ASSUME OneAcl PROVE LifecycleSpec => []GraphDerivable
  <2>1. CatalogInv => GraphDerivable
    BY <1>1, <1>2
  <2> QED
    BY <2>1, CatalogInvariant, PTL
<1> QED
  BY <1>2

\* Any runs leave a projection that the next can plan from: there is a plan to
\* revoke whatever is selected of it, and to build any sources with text.
THEOREM AlwaysPlans == LifecycleSpec => []AlwaysPlannable
<1>1. LifecycleInit => WholeServes
  BY WholeInit DEF WholeServes
<1>2. CatalogInv /\ WholeServes /\ [LifecycleNext]_lifecycleVars => WholeServes'
  BY StepWhole
<1>3. CatalogInv /\ WholeServes => AlwaysPlannable
  BY BasePlannable DEF CatalogInv
<1> QED
  BY <1>1, <1>2, <1>3, CatalogInvariant, PTL DEF LifecycleSpec

=============================================================================
