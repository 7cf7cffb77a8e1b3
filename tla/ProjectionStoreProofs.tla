------------------------ MODULE ProjectionStoreProofs ------------------------
(***************************************************************************)
(* Proofs about module ProjectionStore, for any plans, versions, callers   *)
(* and crashes: the journal tells the truth, an owner is settled before it *)
(* is replaced, readers are served as module CatalogServing promises, and, *)
(* in the journal of a build, whose plans are all attempts of one pair,    *)
(* every pointer can be resolved.                                          *)
(***************************************************************************)
EXTENDS ProjectionStore, FiniteSetTheorems, WellFoundedInduction, TLAPS

-----------------------------------------------------------------------------
(***************************************************************************)
(* The inductive invariant.  Only the holder of the lock is in a call.     *)
(***************************************************************************)
Locked == \A c \in Client : pc[c] # "idle" <=> lock = c

\* Files hold what their names say.
WholeFiles ==
  /\ \A v \in Version : projections[v] # None =>
       projections[v].version = v /\ projections[v].published
  /\ pointer # None => projections[pointer.version] # None

\* A run is of one plan, written before its state and its projection.
WholeRun(r) ==
  /\ plans[r] # None => RunOf[plans[r]] = r
  /\ runs[r] # "absent" => plans[r] # None
  /\ runProjections[r] # None =>
       /\ plans[r] # None
       /\ runProjections[r] \in {Produced(plans[r]), Withheld(plans[r])}

\* The pointer's owner is in the journal, complete, with what it replaced.
OwnerJournaled ==
  LET p == pointer.plan
      r == RunOf[p]
  IN pointer # None /\ p # None =>
       /\ pointer.version = TargetOf[p]
       /\ plans[r] = p
       /\ runs[r] \notin {"absent", "failed"}
       /\ Missing(r) = {} /\ ~AnyFailed(r)
       /\ projections[TargetOf[p]] = Produced(p)
       /\ replaced[p] # None
       /\ projections[BaseOf[p]] = replaced[p]

\* A plan that was served still owns the pointer, or its run says so.
Served(p) ==
  replaced[p] # None =>
    /\ plans[RunOf[p]] = p
    /\ \/ runs[RunOf[p]] = "succeeded"
       \/ pointer # None /\ pointer.plan = p

\* What a caller keeps from one call to the next.
Bound(c) ==
  /\ session[c].plan # None => pointer # None /\ session[c].base # None
  /\ session[c].won => session[c].plan # None /\ runs[RunIn(c)] = "succeeded"

Settled ==
  pointer # None /\ pointer.plan # None => runs[RunOf[pointer.plan]] = "succeeded"

\* Where a call stands when its run is not over and its plan never served.
Early == {"operate", "receipt", "finalize", "staleReceipt", "failProjection",
          "failRun", "candidate", "pointer"}
Owned == {"ownProjection", "ownRun"}
Staged == {"record", "gate", "reconcileProjection", "reconcileRun", "start"}
            \cup Early \cup Owned

\* What the holder of the lock knows to be on disk at each write.
Knows(c) ==
  LET p == session[c].plan
      r == RunOf[p]
  IN /\ pc[c] \notin {"idle", "initProjection", "initPointer"} => p # None
     /\ pc[c] \in {"initProjection", "initPointer"} => pointer = None
     /\ pc[c] = "initPointer" => projections[Initial] = InitialProjection
     /\ pc[c] \in {"run"} \cup Staged => plans[r] = p
     /\ pc[c] \in Staged => runs[r] # "absent"
     /\ pc[c] \in {"reconcileProjection", "reconcileRun"} =>
          pointer.plan # None /\ runs[RunOf[pointer.plan]] \notin Terminal
     /\ pc[c] = "reconcileRun" =>
          runProjections[RunOf[pointer.plan]] = Produced(pointer.plan)
     /\ pc[c] \in {"start"} \cup Early => Settled
     /\ pc[c] \in Early => runs[r] \notin Terminal /\ replaced[p] = None
     /\ pc[c] = "receipt" => session[c].result.op \in Missing(r)
     /\ pc[c] \in {"candidate", "pointer"} =>
          PointerMatchesBase(p) /\ Missing(r) = {} /\ ~AnyFailed(r)
     /\ pc[c] \in {"operate", "receipt", "finalize"} => PointerMatchesBase(p)
     /\ pc[c] = "pointer" => projections[TargetOf[p]] = Produced(p)
     /\ pc[c] = "failRun" => runProjections[r] = Withheld(p)
     /\ pc[c] \in Owned => Owns(p) /\ runs[r] \notin Terminal
     /\ pc[c] = "ownRun" => runProjections[r] = Produced(p)
     /\ pc[c] = "restore" =>
          session[c].won /\ Owns(p) /\ projections[BaseOf[p]] # None
     /\ pc[c] = "remove" => pointer = [version |-> BaseOf[p], plan |-> None]

FilesInv ==
  /\ WholeFiles
  /\ \A r \in Run : WholeRun(r)
  /\ OwnerJournaled
  /\ \A p \in Plan : Served(p)
  /\ JournalTruthful

IInv ==
  /\ StoreTypeOK
  /\ Locked
  /\ FilesInv
  /\ \A c \in Client : Bound(c) /\ Knows(c)

-----------------------------------------------------------------------------
(***************************************************************************)
(* More is true in the journal of a build.  Its plans are the attempts of  *)
(* one pair, so they start from one version, and each attempt takes the    *)
(* next run identity (nextProjectionRunIdentity).                          *)
(***************************************************************************)
AttemptsOfOnePair ==
  \A p, q \in Plan :
    /\ BaseOf[p] = Initial
    /\ p # q => p \in Earlier[q] \/ q \in Earlier[p]

\* The attempts before a plan that somebody has, or that is in the journal,
\* are over and do not own the pointer.
RetiredBefore(p) == \A q \in Earlier[p] : Retired(q)

CallOfPair(c) ==
  LET p == session[c].plan
  IN /\ p # None => RetiredBefore(p)
     /\ pc[c] \in {"staleReceipt", "failProjection"} => AnyFailed(RunOf[p])

RunOfPair(r) ==
  LET p == plans[r]
  IN p # None =>
       /\ pointer # None /\ RetiredBefore(p)
       /\ runProjections[r] = Withheld(p) => AnyFailed(r)

PairInv ==
  /\ \A c \in Client : CallOfPair(c)
  /\ \A r \in Run : RunOfPair(r)
  /\ pointer # None /\ pointer.plan = None => pointer.version = Initial

-----------------------------------------------------------------------------
\* Types, in the shape the steps need them

FilesTyped ==
  /\ pointer \in Pointer \cup {None}
  /\ projections \in [Version -> Projection \cup {None}]
  /\ plans \in [Run -> Plan \cup {None}]
  /\ runs \in [Run -> RunState]
  /\ results \in [Run -> [Op -> Outcome]]
  /\ runProjections \in [Run -> Projection \cup {None}]
  /\ replaced \in [Plan -> Projection \cup {None}]

Session == [method : Method, plan : Plan \cup {None}, base : Projection \cup {None},
            result : [op : Op, outcome : Outcome], won : BOOLEAN]

CallsTyped ==
  /\ lock \in Client \cup {None}
  /\ pc \in [Client -> PC]
  /\ session \in [Client -> Session]
  /\ interrupts \in 0 .. MaxInterrupts

LEMMA Types == StoreTypeOK <=> FilesTyped /\ CallsTyped
BY DEF StoreTypeOK, FilesTyped, CallsTyped, Session

\* A set of numbers has a least one.
LEMMA HasMinimum ==
  ASSUME NEW N, N \subseteq Nat, N # {}
  PROVE  \E n \in N : \A m \in N : n <= m
<1> DEFINE Below == {0 .. n : n \in N}
<1>1. Below \subseteq FiniteSubsetsOf(Nat) /\ Below # {}
  <2>1. ASSUME NEW n \in N PROVE 0 .. n \in FiniteSubsetsOf(Nat)
    BY FS_Interval DEF FiniteSubsetsOf
  <2> QED
    BY <2>1
<1>2. PICK b \in Below : \A a \in Below : <<a, b>> \notin StrictSubsetOrdering(Nat)
  <2> HIDE DEF Below
  <2> QED
    BY <1>1, FS_StrictSubsetOrderingWellFounded, WFMin
<1>3. PICK n \in N : b = 0 .. n
  OBVIOUS
<1>4. ASSUME NEW m \in N, m < n PROVE FALSE
  <2>1. 0 .. m \in Below /\ 0 .. m \in SUBSET Nat /\ b \in SUBSET Nat
    BY <1>3
  <2>2. 0 .. m \subseteq b /\ n \in b /\ n \notin 0 .. m
    BY <1>3, <1>4
  <2>3. <<0 .. m, b>> \in StrictSubsetOrdering(Nat)
    BY <2>1, <2>2 DEF StrictSubsetOrdering
  <2> QED
    BY <1>2, <2>1, <2>3
<1> QED
  BY <1>4

\* None is none of the things that are written.
LEMMA NotNone ==
  /\ \A p \in Plan : p # None
  /\ \A c \in Client : c # None
  /\ \A f \in Projection : f # None
  /\ \A q \in Pointer : q # None
BY ProjectionStoreAssumption, NoneIsNoFile

\* The plans of the journal and what they produce.
LEMMA PlanTypes ==
  ASSUME NEW p \in Plan
  PROVE  /\ RunOf[p] \in Run /\ BaseOf[p] \in Version /\ TargetOf[p] \in Version
         /\ TargetOf[p] # BaseOf[p] /\ TargetOf[p] # Initial
         /\ Produced(p) \in Projection /\ Withheld(p) \in Projection
         /\ Produced(p) # Withheld(p)
         /\ [version |-> TargetOf[p], plan |-> p] \in Pointer
         /\ [version |-> BaseOf[p], plan |-> None] \in Pointer
BY ProjectionStoreAssumption DEF Produced, Withheld, Projection, Pointer

\* What every write of a call on a plan starts from.
LEMMA Calling ==
  ASSUME IInv, NEW c \in Client, pc[c] \notin {"idle", "initProjection", "initPointer"}
  PROVE  /\ session[c].plan \in Plan
         /\ RunIn(c) \in Run /\ RunIn(c) = RunOf[session[c].plan]
         /\ lock = c
         /\ pointer \in Pointer /\ pointer # None
         /\ pointer.version \in Version /\ pointer.plan \in Plan \cup {None}
         /\ projections[pointer.version] \in Projection
         /\ projections[pointer.version] # None
<1>1. session[c] \in Session /\ session[c].plan # None
  BY Types DEF IInv, CallsTyped, Knows
<1>2. session[c].plan \in Plan /\ pointer # None /\ lock = c
  BY <1>1 DEF IInv, Session, Bound, Locked
<1>3. pointer \in Pointer
  BY <1>2, Types DEF IInv, FilesTyped
<1>4. pointer.version \in Version /\ pointer.plan \in Plan \cup {None}
  BY <1>3 DEF Pointer
<1>5. projections[pointer.version] \in Projection
  BY <1>2, <1>4, Types DEF IInv, FilesTyped, FilesInv, WholeFiles
<1>6. RunIn(c) = RunOf[session[c].plan] /\ RunIn(c) \in Run
  BY <1>2, PlanTypes DEF RunIn
<1> QED
  BY <1>2, <1>3, <1>4, <1>5, <1>6, NotNone

-----------------------------------------------------------------------------
(***************************************************************************)
(* A step of a call.  The other callers are idle and stay so; they only    *)
(* need to know that a pointer stays and that success is for ever.         *)
(***************************************************************************)
Kept ==
  /\ pointer # None => pointer' # None
  /\ \A r \in Run : runs[r] = "succeeded" => runs'[r] = "succeeded"

Others(c) ==
  /\ lock' \in {c, None}
  /\ pc'[c] # "idle" <=> lock' = c
  /\ \A d \in Client \ {c} : pc'[d] = pc[d] /\ session'[d] = session[d]

StepGood(c) ==
  /\ StoreTypeOK' /\ FilesInv' /\ Kept /\ Others(c)
  /\ Bound(c)' /\ Knows(c)'

LEMMA StepKeepsInv ==
  ASSUME IInv, NEW c \in Client, lock \in {c, None}, StepGood(c)
  PROVE  IInv'
<1>1. ASSUME NEW d \in Client \ {c}
      PROVE  pc[d] = "idle" /\ pc'[d] = "idle" /\ session'[d] = session[d]
  BY NotNone DEF IInv, Locked, StepGood, Others
<1>2. Locked'
  BY <1>1, NotNone DEF StepGood, Others, Locked
<1>3. ASSUME NEW d \in Client \ {c} PROVE Bound(d)'
  <2>1. Bound(d) /\ session[d] \in Session
    BY Types DEF IInv, CallsTyped
  <2>2. session[d].plan # None => session[d].plan \in Plan
    BY <2>1 DEF Session
  <2>3. session[d].won => runs'[RunOf[session[d].plan]] = "succeeded"
    BY <2>1, <2>2, PlanTypes DEF Bound, RunIn, StepGood, Kept
  <2> QED
    BY <1>1, <2>1, <2>3 DEF Bound, RunIn, StepGood, Kept
<1>4. ASSUME NEW d \in Client \ {c} PROVE Knows(d)'
  BY <1>1 DEF Knows, Staged, Early, Owned
<1> QED
  BY <1>2, <1>3, <1>4 DEF IInv, StepGood

\* Nothing is known of a caller that is not in a call.
LEMMA IdleKnows ==
  ASSUME NEW c \in Client, pc[c] = "idle"
  PROVE  Knows(c)
BY DEF Knows, Staged, Early, Owned

LEMMA FilesUnchanged ==
  ASSUME FilesInv, FilesTyped, UNCHANGED <<files, replaced>>
  PROVE  FilesInv' /\ FilesTyped' /\ Kept
BY DEF files, FilesInv, FilesTyped, Kept, WholeFiles, WholeRun, OwnerJournaled, Served,
       JournalTruthful, Missing, Receipts, AnyFailed

LEMMA NoSessionType ==
  NoSession \in Session /\ NoSession.plan = None /\ NoSession.base = None /\ ~NoSession.won
<1>1. 1 \in Op /\ "Stage" \in Method /\ "absent" \in Outcome /\ FALSE \in BOOLEAN
  BY ProjectionStoreAssumption DEF Op, Method, Outcome
<1> QED
  BY <1>1 DEF NoSession, Session

\* A call returns.
LEMMA ReturnGood ==
  ASSUME IInv, NEW c \in Client, pc[c] # "idle", NEW won \in BOOLEAN, Return(c, won),
         UNCHANGED interrupts, FilesTyped', FilesInv', Kept,
         won => session[c].plan # None /\ runs'[RunIn(c)] = "succeeded"
  PROVE  StepGood(c)
<1>1. CallsTyped /\ Bound(c) /\ session[c] \in Session
  BY Types DEF IInv, CallsTyped
<1>2. /\ session'[c] = [NoSession EXCEPT !.plan = session[c].plan,
                                         !.base = session[c].base, !.won = won]
      /\ \A d \in Client \ {c} : session'[d] = session[d]
      /\ pc'[c] = "idle" /\ \A d \in Client \ {c} : pc'[d] = pc[d]
      /\ lock' = None
  BY <1>1 DEF Return, CallsTyped
<1>3. session'[c] \in Session
  BY <1>1, <1>2, NoSessionType DEF Session
<1>4. CallsTyped'
  BY <1>1, <1>2, <1>3 DEF CallsTyped, Return, PC
<1>5. session'[c].plan = session[c].plan /\ session'[c].base = session[c].base
      /\ session'[c].won = won
  BY <1>2 DEF NoSession
<1>6. Bound(c)'
  BY <1>1, <1>5 DEF Bound, RunIn, Kept
<1>7. Knows(c)'
  BY <1>2 DEF Knows, Staged, Early, Owned
<1>8. Others(c)
  BY <1>2, NotNone DEF Others
<1> QED
  BY <1>4, <1>6, <1>7, <1>8, Types DEF StepGood, StoreTypeOK, FilesTyped, CallsTyped, Session

LEMMA FailGood ==
  ASSUME IInv, NEW c \in Client, pc[c] # "idle", Fail(c), UNCHANGED <<interrupts, replaced>>
  PROVE  StepGood(c)
<1>1. FilesInv' /\ FilesTyped' /\ Kept
  BY FilesUnchanged, Types DEF IInv, Fail
<1> QED
  BY <1>1, ReturnGood DEF Fail

\* A call goes on with its next write.
LEMMA WroteGood ==
  ASSUME IInv, NEW c \in Client, pc[c] # "idle", NEW label \in PC \ {"idle"},
         Wrote(c, label), UNCHANGED interrupts, FilesTyped', FilesInv', Kept, Knows(c)'
  PROVE  StepGood(c)
<1>1. CallsTyped /\ Bound(c) /\ lock = c
  BY Types DEF IInv, Locked
<1>2. /\ pc'[c] = label /\ \A d \in Client \ {c} : pc'[d] = pc[d]
      /\ UNCHANGED <<lock, session>>
  BY <1>1 DEF Wrote, Goto, CallsTyped
<1>3. CallsTyped'
  BY <1>1, <1>2 DEF CallsTyped, Wrote, Goto
<1>4. Bound(c)'
  <2>1. session[c].plan # None => session[c].plan \in Plan
    BY <1>1 DEF CallsTyped, Session
  <2> QED
    BY <1>1, <1>2, <2>1, PlanTypes DEF Bound, RunIn, Kept
<1>5. Others(c)
  BY <1>1, <1>2, NotNone DEF Others
<1> QED
  BY <1>3, <1>4, <1>5, Types DEF StepGood, StoreTypeOK, FilesTyped, CallsTyped, Session

LEMMA DecideGood ==
  ASSUME IInv, NEW c \in Client, pc[c] # "idle", NEW label \in PC \ {"idle"},
         Decide(c, label), UNCHANGED <<interrupts, replaced>>, Knows(c)'
  PROVE  StepGood(c)
<1>1. FilesInv' /\ FilesTyped' /\ Kept
  BY FilesUnchanged, Types DEF IInv, Decide
<1> QED
  BY <1>1, WroteGood DEF Decide

-----------------------------------------------------------------------------
(***************************************************************************)
(* A write to one kind of file, and what it takes to keep the files sound. *)
(***************************************************************************)

\* run.json: a state that the run's plan and projection bear out.
LEMMA RunWritten ==
  ASSUME StoreTypeOK, FilesInv, NEW r \in Run, NEW state \in RunState \ {"absent"},
         runs' = [runs EXCEPT ![r] = state],
         UNCHANGED <<pointer, projections, plans, results, runProjections, replaced>>,
         plans[r] # None,
         runs[r] \in Terminal => state = runs[r],
         state = "succeeded" => replaced[plans[r]] # None
                                  /\ runProjections[r] = Produced(plans[r]),
         state = "failed" => replaced[plans[r]] = None
                               /\ runProjections[r] = Withheld(plans[r])
  PROVE  FilesInv' /\ FilesTyped' /\ Kept
<1>1. FilesTyped /\ FilesTyped'
  BY Types DEF FilesTyped
<1>2. \A q \in Run : runs'[q] = IF q = r THEN state ELSE runs[q]
  BY <1>1 DEF FilesTyped
<1>3. WholeFiles' /\ \A q \in Run : WholeRun(q)'
  BY <1>2 DEF FilesInv, WholeFiles, WholeRun
<1>4. Kept
  BY <1>2 DEF Kept, Terminal
<1>5. OwnerJournaled'
  BY <1>1, <1>2, PlanTypes DEF FilesInv, OwnerJournaled, Missing, Receipts, AnyFailed, Pointer, FilesTyped
<1>6. ASSUME NEW p \in Plan PROVE Served(p)'
  BY <1>2, PlanTypes DEF FilesInv, Served, Terminal
<1>7. JournalTruthful'
  BY <1>1, <1>2 DEF FilesInv, JournalTruthful, Terminal
<1> QED
  BY <1>1, <1>3, <1>4, <1>5, <1>6, <1>7 DEF FilesInv

\* The run's projection.json, while the run is not over.
LEMMA RunProjectionWritten ==
  ASSUME StoreTypeOK, FilesInv, NEW r \in Run, NEW content,
         runProjections' = [runProjections EXCEPT ![r] = content],
         UNCHANGED <<pointer, projections, plans, runs, results, replaced>>,
         plans[r] # None, runs[r] \notin Terminal,
         content \in {Produced(plans[r]), Withheld(plans[r])}
  PROVE  FilesInv' /\ FilesTyped' /\ Kept
<1>1. FilesTyped /\ plans[r] \in Plan
  BY Types DEF FilesTyped
<1>2. FilesTyped'
  BY <1>1, PlanTypes DEF FilesTyped
<1>3. \A q \in Run : q # r => runProjections'[q] = runProjections[q]
  BY <1>1 DEF FilesTyped
<1>4. WholeFiles' /\ \A q \in Run : WholeRun(q)'
  BY <1>1, <1>3, NotNone DEF FilesInv, WholeFiles, WholeRun, FilesTyped
<1>5. OwnerJournaled' /\ \A p \in Plan : Served(p)'
  BY DEF FilesInv, OwnerJournaled, Served, Missing, Receipts, AnyFailed
<1>6. JournalTruthful'
  BY <1>3 DEF FilesInv, JournalTruthful
<1> QED
  BY <1>2, <1>4, <1>5, <1>6 DEF FilesInv, Kept

\* A receipt is written once.
LEMMA ReceiptWritten ==
  ASSUME StoreTypeOK, FilesInv, NEW r \in Run, NEW o \in Op,
         NEW outcome \in Outcome \ {"absent"},
         results' = [results EXCEPT ![r][o] = outcome],
         UNCHANGED <<pointer, projections, plans, runs, runProjections, replaced>>,
         results[r][o] \in {"absent", outcome}
  PROVE  /\ FilesInv' /\ FilesTyped' /\ Kept
         /\ \A q \in Run : AnyFailed(q) => AnyFailed(q)'
<1>1. FilesTyped
  BY Types
<1>2. FilesTyped'
  BY <1>1 DEF FilesTyped
<1>3. /\ \A q \in Run \ {r} : results'[q] = results[q]
      /\ \A i \in Op : i # o => results'[r][i] = results[r][i]
      /\ results'[r][o] = outcome
  BY <1>1 DEF FilesTyped
<1>4. \A q \in Run : Missing(q) = {} => results'[q] = results[q]
  <2> SUFFICES ASSUME Missing(r) = {} PROVE results'[r] = results[r]
    BY <1>3
  <2>1. results[r][o] # "absent"
    BY DEF Missing, Receipts
  <2> QED
    BY <1>1, <1>2, <1>3, <2>1 DEF FilesTyped
<1>5. OwnerJournaled'
  BY <1>1, <1>4, PlanTypes DEF FilesInv, OwnerJournaled, Missing, Receipts, AnyFailed, Pointer, FilesTyped
<1>6. \A q \in Run : AnyFailed(q) => AnyFailed(q)'
  BY <1>3 DEF AnyFailed
<1>7. /\ WholeFiles' /\ JournalTruthful' /\ Kept
      /\ \A q \in Run : WholeRun(q)'
      /\ \A p \in Plan : Served(p)'
  BY DEF FilesInv, WholeFiles, JournalTruthful, WholeRun, Served, Kept
<1> QED
  BY <1>2, <1>5, <1>6, <1>7 DEF FilesInv

\* plan.json, written once.
LEMMA PlanWritten ==
  ASSUME StoreTypeOK, FilesInv, NEW p \in Plan,
         plans' = [plans EXCEPT ![RunOf[p]] = p],
         UNCHANGED <<pointer, projections, runs, results, runProjections, replaced>>,
         plans[RunOf[p]] \in {None, p}
  PROVE  FilesInv' /\ FilesTyped' /\ Kept
<1>1. FilesTyped
  BY Types
<1>2. FilesTyped'
  BY <1>1 DEF FilesTyped
<1>3. /\ RunOf[p] \in Run /\ plans'[RunOf[p]] = p
      /\ \A q \in Run : q # RunOf[p] => plans'[q] = plans[q]
      /\ \A q \in Run : plans[q] # None => plans'[q] = plans[q]
  BY <1>1, PlanTypes DEF FilesTyped
<1>4. \A q \in Run : WholeRun(q)'
  BY <1>3, NotNone DEF FilesInv, WholeRun
<1>5. OwnerJournaled'
  BY <1>1, <1>3, PlanTypes DEF FilesInv, OwnerJournaled, Missing, Receipts, AnyFailed, Pointer, FilesTyped
<1>6. \A q \in Plan : Served(q)'
  BY <1>3, PlanTypes, NotNone DEF FilesInv, Served
<1>7. JournalTruthful'
  BY <1>3 DEF FilesInv, JournalTruthful, WholeRun, Terminal
<1> QED
  BY <1>2, <1>4, <1>5, <1>6, <1>7 DEF FilesInv, WholeFiles, Kept

-----------------------------------------------------------------------------
\* Calls

LEMMA EnterGood ==
  ASSUME IInv, NEW c \in Client, At(c, "idle"), lock = None, lock' = c,
         NEW first \in PC \ {"idle"}, Goto(c, first),
         NEW s \in Session, session' = [session EXCEPT ![c] = s],
         s.plan = session[c].plan, s.base = session[c].base, s.won = session[c].won,
         UNCHANGED <<files, interrupts, replaced>>, Knows(c)'
  PROVE  StepGood(c)
<1>1. CallsTyped /\ FilesTyped /\ Bound(c)
  BY Types DEF IInv
<1>2. FilesInv' /\ FilesTyped' /\ Kept
  BY <1>1, FilesUnchanged DEF IInv
<1>3. /\ pc'[c] = first /\ \A d \in Client \ {c} : pc'[d] = pc[d]
      /\ session'[c] = s /\ \A d \in Client \ {c} : session'[d] = session[d]
  BY <1>1 DEF Goto, CallsTyped
<1>4. CallsTyped'
  BY <1>1, <1>3 DEF CallsTyped, Goto
<1>5. Bound(c)'
  BY <1>1, <1>3 DEF Bound, RunIn, files
<1>6. Others(c)
  BY <1>3 DEF Others
<1> QED
  BY <1>2, <1>4, <1>5, <1>6, Types DEF StepGood, StoreTypeOK, FilesTyped, CallsTyped, Session

LEMMA MethodChosen ==
  ASSUME IInv, NEW c \in Client, NEW m \in Method
  PROVE  /\ [session[c] EXCEPT !.method = m] \in Session
         /\ session[c] \in Session
BY Types DEF IInv, CallsTyped, Session

LEMMA CallGood ==
  ASSUME IInv, NEW c \in Client, Call(c)
  PROVE  StepGood(c)
<1> USE DEF At
<1>0. pc[c] = "idle" /\ lock = None /\ CallsTyped /\ Bound(c)
  BY Types DEF IInv, Call, CallInitialize, CallWithPlan, CallRecord, CallRollback, Enter
<1>1. ASSUME NEW first \in PC, Goto(c, first) PROVE pc'[c] = first
  BY <1>0, <1>1 DEF Goto, CallsTyped
<1>2. ASSUME NEW m \in Method, NEW first \in PC \ {"idle"}, Enter(c, m, first), Knows(c)'
      PROVE  StepGood(c)
  <2> DEFINE s == [session[c] EXCEPT !.method = m]
  <2>1. s \in Session /\ session[c] \in Session
    BY MethodChosen
  <2>2. s.plan = session[c].plan /\ s.base = session[c].base /\ s.won = session[c].won
    BY <2>1 DEF Session
  <2>3. session' = [session EXCEPT ![c] = s]
    BY <1>0, <1>2 DEF Enter, CallsTyped
  <2> HIDE DEF s
  <2> QED
    BY <1>2, <2>1, <2>2, <2>3, EnterGood DEF Enter
<1>3. ASSUME NEW m \in Method, NEW first \in PC, Enter(c, m, first)
      PROVE  /\ session'[c].plan = session[c].plan /\ session'[c].won = session[c].won
             /\ pc'[c] = first
             /\ UNCHANGED <<files, replaced>>
  BY <1>0, <1>1, <1>3 DEF Enter, CallsTyped, Session
<1>4. CASE CallInitialize(c)
  <2>1. Enter(c, "Initialize", "initProjection") /\ pointer = None
    BY <1>4 DEF CallInitialize
  <2>2. "Initialize" \in Method /\ "initProjection" \in PC
    BY DEF Method, PC
  <2>3. pc'[c] = "initProjection" /\ pointer' = None
    BY <1>3, <2>1, <2>2 DEF files
  <2>4. Knows(c)'
    BY <2>3 DEF Knows, Staged, Early, Owned
  <2> QED
    BY <1>2, <2>1, <2>2, <2>4
<1>5. ASSUME NEW m \in {"Stage", "Execute", "Finalize"}, CallWithPlan(c, m)
      PROVE  StepGood(c)
  <2>1. Enter(c, m, "plan") /\ session[c].plan # None
    BY <1>5 DEF CallWithPlan
  <2>2. m \in Method /\ "plan" \in PC
    BY DEF Method, PC
  <2>3. pc'[c] = "plan" /\ session'[c].plan # None
    BY <1>3, <2>1, <2>2
  <2>4. Knows(c)'
    BY <2>3 DEF Knows, Staged, Early, Owned
  <2> QED
    BY <1>2, <2>1, <2>2, <2>4
<1>6. ASSUME NEW o \in Op, NEW outcome \in {"succeeded", "failed"}, CallRecord(c, o, outcome)
      PROVE  StepGood(c)
  <2> DEFINE s == [session[c] EXCEPT !.method = "Record",
                                     !.result = [op |-> o, outcome |-> outcome]]
  <2>1. s \in Session /\ session[c] \in Session
    BY <1>0 DEF CallsTyped, Session, Method, Outcome
  <2>2. s.plan = session[c].plan /\ s.base = session[c].base /\ s.won = session[c].won
    BY <2>1 DEF Session
  <2>3. session' = [session EXCEPT ![c] = s] /\ "plan" \in PC
    BY <1>0, <1>6 DEF CallRecord, CallsTyped, PC
  <2> HIDE DEF s
  <2>4. pc'[c] = "plan" /\ session'[c].plan # None
    BY <1>0, <1>1, <1>6, <2>2, <2>3 DEF CallRecord, CallsTyped
  <2>5. Knows(c)'
    BY <2>4 DEF Knows, Staged, Early, Owned
  <2> QED
    BY <1>6, <2>1, <2>2, <2>3, <2>5, EnterGood DEF CallRecord
<1>7. CASE CallRollback(c)
  <2>1. /\ Enter(c, "Rollback", "restore") /\ session[c].won
        /\ Owns(session[c].plan) /\ BaseVerified(c)
    BY <1>7 DEF CallRollback
  <2>2. "Rollback" \in Method /\ "restore" \in PC
    BY DEF Method, PC
  <2>3. /\ pc'[c] = "restore" /\ session'[c].plan = session[c].plan /\ session'[c].won
        /\ UNCHANGED <<files, replaced>>
    BY <1>3, <2>1, <2>2
  <2>4. Knows(c)'
    BY <1>0, <2>1, <2>3 DEF Knows, Staged, Early, Owned, Bound, BaseVerified, Owns, files
  <2> QED
    BY <1>2, <2>1, <2>2, <2>4
<1> QED
  BY <1>4, <1>5, <1>6, <1>7 DEF Call

\* A caller that prepares a plan reads the serving projection, which is there.
LEMMA PrepareGood ==
  ASSUME IInv, NEW c \in Client, NEW p \in Plan, Prepare(c, p)
  PROVE  StepGood(c)
<1>1. FilesInv' /\ FilesTyped' /\ Kept /\ FilesTyped /\ CallsTyped /\ FilesInv
  BY FilesUnchanged, Types DEF IInv, Prepare
<1>2. pointer.version \in Version /\ pointer # None
  BY <1>1 DEF Prepare, FilesTyped, Pointer
<1>3. projections[pointer.version] \in Projection /\ projections[pointer.version] # None
  BY <1>1, <1>2 DEF FilesTyped, FilesInv, WholeFiles
<1> DEFINE s == [NoSession EXCEPT !.plan = p, !.base = projections[pointer.version]]
<1>4. /\ s \in Session
      /\ s.plan = p /\ s.base = projections[pointer.version] /\ ~s.won
  BY <1>3, NoSessionType DEF Session
<1>6. session' = [session EXCEPT ![c] = s]
  BY DEF Prepare
<1> HIDE DEF s
<1>7. /\ session'[c] = s /\ \A d \in Client \ {c} : session'[d] = session[d]
      /\ session' \in [Client -> Session]
  BY <1>1, <1>4, <1>6 DEF CallsTyped
<1>8. CallsTyped'
  BY <1>1, <1>7 DEF CallsTyped, Prepare
<1>9. Bound(c)'
  BY <1>2, <1>3, <1>4, <1>7 DEF Bound, Prepare, files
<1>10. Knows(c)'
  BY DEF Knows, Staged, Early, Owned, Prepare, At
<1>11. Others(c)
  BY <1>7, NotNone DEF Others, Prepare, At
<1> QED
  BY <1>1, <1>8, <1>9, <1>10, <1>11, Types
     DEF StepGood, StoreTypeOK, FilesTyped, CallsTyped, Session

LEMMA InterruptGood ==
  ASSUME IInv, NEW c \in Client, Interrupt(c)
  PROVE  StepGood(c)
<1>1. FilesInv' /\ FilesTyped' /\ Kept /\ CallsTyped /\ Bound(c)
  BY FilesUnchanged, Types DEF IInv, Interrupt
<1>2. PICK s \in {NoSession, [NoSession EXCEPT !.plan = session[c].plan,
                                               !.base = session[c].base]} :
        session' = [session EXCEPT ![c] = s]
  BY DEF Interrupt
<1>3. /\ (s.plan = session[c].plan /\ s.base = session[c].base) \/ s.plan = None
      /\ ~s.won /\ s \in Session
  <2>1. session[c].plan \in Plan \cup {None} /\ session[c].base \in Projection \cup {None}
    BY <1>1 DEF CallsTyped, Session
  <2> QED
    BY <1>2, <2>1, NoSessionType DEF Session
<1>4. /\ session'[c] = s /\ \A d \in Client \ {c} : session'[d] = session[d]
      /\ pc'[c] = "idle" /\ \A d \in Client \ {c} : pc'[d] = pc[d]
      /\ lock' = None
  BY <1>1, <1>2 DEF CallsTyped, Interrupt, Goto
<1>5. CallsTyped'
  BY <1>1, <1>2, <1>3, ProjectionStoreAssumption DEF CallsTyped, Interrupt, Goto, PC
<1>6. Bound(c)'
  BY <1>1, <1>3, <1>4 DEF Bound, Interrupt, files
<1>7. Knows(c)'
  BY <1>4 DEF Knows, Staged, Early, Owned
<1>8. Others(c)
  BY <1>4, NotNone DEF Others
<1> QED
  BY <1>1, <1>5, <1>6, <1>7, <1>8, Types
     DEF StepGood, StoreTypeOK, FilesTyped, CallsTyped, Session

-----------------------------------------------------------------------------
\* Writes, one by one

\* After a write the call stands at its next one, with the same session.
LEMMA NextWrite ==
  ASSUME IInv, NEW c \in Client, NEW label, Wrote(c, label)
  PROVE  pc'[c] = label /\ session' = session
BY Types DEF IInv, CallsTyped, Wrote, Goto

LEMMA WriteInitialProjectionGood ==
  ASSUME IInv, NEW c \in Client, WriteInitialProjection(c), UNCHANGED interrupts
  PROVE  StepGood(c)
<1>1. FilesTyped /\ FilesInv /\ pointer = None /\ pc[c] # "idle"
  BY Types DEF IInv, WriteInitialProjection, At, Knows
<1>2. /\ Initial \in Version /\ InitialProjection \in Projection
      /\ InitialProjection.version = Initial /\ InitialProjection.published
  BY ProjectionStoreAssumption DEF InitialProjection, Projection
<1>3. FilesTyped' /\ projections'[Initial] = InitialProjection
  BY <1>1, <1>2 DEF FilesTyped, WriteInitialProjection
<1>4. FilesInv' /\ Kept
  <2>1. WholeFiles'
    BY <1>1, <1>2 DEF FilesTyped, FilesInv, WholeFiles, WriteInitialProjection
  <2>2. OwnerJournaled' /\ \A r \in Run : WholeRun(r)'
    BY <1>1 DEF FilesInv, OwnerJournaled, WholeRun, WriteInitialProjection
  <2>3. JournalTruthful' /\ \A p \in Plan : Served(p)'
    BY <1>1 DEF FilesInv, Served, JournalTruthful, WriteInitialProjection
  <2> QED
    BY <2>1, <2>2, <2>3 DEF FilesInv, Kept, WriteInitialProjection
<1>5. pc'[c] = "initPointer" /\ "initPointer" \in PC
  BY NextWrite DEF WriteInitialProjection, PC
<1>6. Knows(c)'
  BY <1>1, <1>3, <1>5 DEF Knows, Staged, Early, Owned, WriteInitialProjection
<1> QED
  BY <1>1, <1>3, <1>4, <1>5, <1>6, WroteGood DEF WriteInitialProjection

LEMMA WriteInitialPointerGood ==
  ASSUME IInv, NEW c \in Client, WriteInitialPointer(c), UNCHANGED interrupts
  PROVE  StepGood(c)
<1>1. /\ FilesTyped /\ FilesInv /\ pointer = None /\ pc[c] # "idle"
      /\ projections[Initial] = InitialProjection
  BY Types DEF IInv, WriteInitialPointer, At, Knows
<1>2. Initial \in Version /\ InitialProjection \in Projection
  BY ProjectionStoreAssumption DEF InitialProjection, Projection
<1>3. FilesTyped' /\ pointer'.version = Initial /\ pointer'.plan = None
  BY <1>1, <1>2 DEF FilesTyped, WriteInitialPointer, Pointer
<1>4. WholeFiles' /\ OwnerJournaled'
  BY <1>1, <1>2, <1>3, NotNone DEF FilesInv, WholeFiles, OwnerJournaled, WriteInitialPointer
<1>5. /\ JournalTruthful'
      /\ \A r \in Run : WholeRun(r)'
      /\ \A p \in Plan : Served(p)'
  BY <1>1 DEF FilesInv, WholeRun, Served, JournalTruthful, WriteInitialPointer
<1>6. FilesInv' /\ Kept
  BY <1>1, <1>4, <1>5 DEF FilesInv, Kept, WriteInitialPointer
<1> QED
  BY <1>1, <1>3, <1>6, ReturnGood DEF WriteInitialPointer

LEMMA WritePlanGood ==
  ASSUME IInv, NEW c \in Client, WritePlan(c), UNCHANGED interrupts
  PROVE  StepGood(c)
<1> DEFINE p == session[c].plan
<1>1. pc[c] = "plan" /\ p \in Plan /\ RunIn(c) = RunOf[p] /\ RunIn(c) \in Run
  BY Calling DEF WritePlan, At
<1>2. CASE ~CanWriteOnce(plans[RunIn(c)], p)
  BY <1>1, <1>2, FailGood DEF WritePlan
<1>3. CASE CanWriteOnce(plans[RunIn(c)], p)
  <2>1. /\ plans' = [plans EXCEPT ![RunOf[p]] = p] /\ plans[RunOf[p]] \in {None, p}
        /\ UNCHANGED <<pointer, projections, runs, results, runProjections, replaced>>
        /\ Wrote(c, "run")
    BY <1>1, <1>3 DEF WritePlan, CanWriteOnce
  <2>2. FilesInv' /\ FilesTyped' /\ Kept
    BY <1>1, <2>1, PlanWritten DEF IInv
  <2>3. pc'[c] = "run" /\ session' = session /\ "run" \in PC
    BY <2>1, NextWrite DEF PC
  <2>4. plans'[RunOf[p]] = p
    BY <1>1, <2>1, Types DEF IInv, FilesTyped
  <2>5. Knows(c)'
    BY <1>1, <2>3, <2>4, NotNone DEF Knows, Staged, Early, Owned
  <2> QED
    BY <1>1, <2>1, <2>2, <2>3, <2>5, WroteGood
<1> QED
  BY <1>2, <1>3

LEMMA WriteRunGood ==
  ASSUME IInv, NEW c \in Client, WriteRun(c), UNCHANGED interrupts
  PROVE  StepGood(c)
<1> DEFINE p == session[c].plan
           r == RunIn(c)
           state == IF runs[r] = "absent" THEN "staged" ELSE runs[r]
<1>1. /\ pc[c] = "run" /\ p \in Plan /\ r = RunOf[p] /\ r \in Run /\ plans[r] = p
      /\ FilesTyped
  BY Calling, Types DEF WriteRun, At, IInv, Knows
<1>2. state \in RunState \ {"absent"} /\ runs' = [runs EXCEPT ![r] = state]
  BY <1>1 DEF WriteRun, RunState, FilesTyped
<1>3. runs[r] \in Terminal =>
        /\ state = runs[r]
        /\ runs[r] = "succeeded" <=> replaced[p] # None
        /\ runProjections[r] = IF runs[r] = "succeeded" THEN Produced(p) ELSE Withheld(p)
  BY <1>1 DEF IInv, FilesInv, JournalTruthful, Terminal
<1>4. FilesInv' /\ FilesTyped' /\ Kept
  <2>1. UNCHANGED <<pointer, projections, plans, results, runProjections, replaced>>
    BY DEF WriteRun
  <2>2. /\ plans[r] # None
        /\ runs[r] \in Terminal => state = runs[r]
        /\ state = "succeeded" => replaced[plans[r]] # None
                                    /\ runProjections[r] = Produced(plans[r])
        /\ state = "failed" => replaced[plans[r]] = None
                                 /\ runProjections[r] = Withheld(plans[r])
    BY <1>1, <1>3, NotNone DEF Terminal
  <2> HIDE DEF state, r
  <2> QED
    BY <1>1, <1>2, <2>1, <2>2, RunWritten DEF IInv
<1>5. CASE session[c].method = "Stage"
  BY <1>1, <1>4, <1>5, ReturnGood DEF WriteRun
<1>6. ASSUME NEW label \in {"record", "gate"}, Wrote(c, label)
      PROVE  StepGood(c)
  <2>1. pc'[c] = label /\ session' = session /\ label \in PC \ {"idle"}
    BY <1>6, NextWrite DEF PC
  <2>2. runs'[r] # "absent" /\ plans'[r] = p
    BY <1>1, <1>2 DEF FilesTyped, WriteRun
  <2>3. Knows(c)'
    BY <1>1, <2>1, <2>2, NotNone DEF Knows, Staged, Early, Owned
  <2> QED
    BY <1>1, <1>4, <1>6, <2>1, <2>3, WroteGood
<1> QED
  BY <1>5, <1>6 DEF WriteRun

LEMMA RecordResultGood ==
  ASSUME IInv, NEW c \in Client, RecordResult(c), UNCHANGED interrupts
  PROVE  StepGood(c)
<1> DEFINE r == RunIn(c)
           res == session[c].result
<1>1. pc[c] = "record" /\ r \in Run /\ session[c] \in Session
  BY Calling, Types DEF RecordResult, At, IInv, CallsTyped
<1>2. CASE ~CanRecord(r, res)
  BY <1>1, <1>2, FailGood DEF RecordResult
<1>3. CASE CanRecord(r, res)
  <2>1. res.op \in Op /\ res.outcome \in Outcome
    BY <1>1 DEF Session
  <2>2. CASE res.outcome = "absent"
    <3>1. results' = results
      <4>1. results \in [Run -> [Op -> Outcome]] /\ results[r][res.op] = "absent"
        BY <1>3, <2>2, Types DEF CanRecord, IInv, FilesTyped
      <4>2. results' = [results EXCEPT ![r] = [results[r] EXCEPT ![res.op] = "absent"]]
        BY <1>3, <2>2 DEF RecordResult
      <4>3. [results[r] EXCEPT ![res.op] = "absent"] = results[r]
        BY <1>1, <2>1, <4>1
      <4> QED
        BY <1>1, <4>1, <4>2, <4>3
    <3>2. FilesInv' /\ FilesTyped' /\ Kept
      BY <1>3, <3>1, FilesUnchanged, Types DEF RecordResult, IInv, files
    <3> QED
      BY <1>1, <1>3, <3>2, ReturnGood DEF RecordResult
  <2>3. CASE res.outcome # "absent"
    <3>1. FilesInv' /\ FilesTyped' /\ Kept
      BY <1>1, <1>3, <2>1, <2>3, ReceiptWritten DEF RecordResult, CanRecord, IInv
    <3> QED
      BY <1>1, <1>3, <3>1, ReturnGood DEF RecordResult
  <2> QED
    BY <2>2, <2>3
<1> QED
  BY <1>2, <1>3

LEMMA GateGood ==
  ASSUME IInv, NEW c \in Client, Gate(c), UNCHANGED interrupts
  PROVE  StepGood(c)
<1> DEFINE p == session[c].plan
           r == RunIn(c)
<1>1. /\ pc[c] = "gate" /\ p \in Plan /\ r = RunOf[p] /\ r \in Run
      /\ plans[r] = p /\ runs[r] # "absent" /\ FilesTyped /\ FilesInv
      /\ pointer # None
  BY Calling, Types DEF Gate, At, IInv, Knows, Staged
<1>2. CASE runs[r] \in Terminal /\ Return(c, runs[r] = "succeeded") /\ UNCHANGED files
  <2>1. FilesInv' /\ FilesTyped' /\ Kept
    BY <1>1, <1>2, FilesUnchanged DEF Gate
  <2>2. (runs[r] = "succeeded") \in BOOLEAN
    OBVIOUS
  <2>3. runs[r] = "succeeded" => p # None /\ runs'[r] = "succeeded"
    BY <1>1, <1>2, NotNone DEF files
  <2> QED
    BY <1>1, <1>2, <2>1, <2>2, <2>3, ReturnGood
<1>3. CASE Fail(c)
  BY <1>1, <1>3, FailGood DEF Gate
<1>4. CASE /\ OwnerConsistent /\ OwnerUnsettled
           /\ Decide(c, "reconcileProjection")
  <2>1. /\ pc'[c] = "reconcileProjection" /\ session' = session
        /\ "reconcileProjection" \in PC \ {"idle"}
    BY <1>4, NextWrite DEF Decide, PC
  <2>2. Knows(c)'
    BY <1>1, <1>4, <2>1, NotNone DEF Knows, Staged, Early, Owned, OwnerUnsettled, Decide, files
  <2> QED
    BY <1>1, <1>4, <2>1, <2>2, DecideGood DEF Gate
<1>5. CASE /\ OwnerConsistent /\ ~OwnerUnsettled
           /\ Decide(c, "start")
  <2>1. pc'[c] = "start" /\ session' = session /\ "start" \in PC \ {"idle"}
    BY <1>5, NextWrite DEF Decide, PC
  <2>2. Settled
    BY <1>5 DEF Settled, OwnerConsistent, OwnerUnsettled, Terminal
  <2>3. Knows(c)'
    BY <1>1, <1>5, <2>1, <2>2, NotNone DEF Knows, Staged, Early, Owned, Settled, Decide, files
  <2> QED
    BY <1>1, <1>5, <2>1, <2>3, DecideGood DEF Gate
<1> QED
  BY <1>2, <1>3, <1>4, <1>5 DEF Gate

LEMMA ReconcileProjectionGood ==
  ASSUME IInv, NEW c \in Client, ReconcileProjection(c), UNCHANGED interrupts
  PROVE  StepGood(c)
<1> DEFINE q == pointer.plan
<1>1. /\ pc[c] = "reconcileProjection" /\ session[c].plan \in Plan /\ q \in Plan
      /\ plans[RunIn(c)] = session[c].plan /\ runs[RunIn(c)] # "absent"
      /\ pointer # None /\ runs[RunOf[q]] \notin Terminal
  BY Calling, NotNone DEF ReconcileProjection, At, IInv, Knows, Staged
<1>2. RunOf[q] \in Run /\ plans[RunOf[q]] = q
  BY <1>1, PlanTypes, NotNone DEF IInv, FilesInv, OwnerJournaled
<1>3. FilesInv' /\ FilesTyped' /\ Kept
  BY <1>1, <1>2, RunProjectionWritten, NotNone DEF ReconcileProjection, IInv
<1>4. /\ pc'[c] = "reconcileRun" /\ session' = session
      /\ "reconcileRun" \in PC \ {"idle"}
  BY NextWrite DEF ReconcileProjection, PC
<1>5. runProjections'[RunOf[q]] = Produced(q)
  BY <1>2, Types DEF IInv, FilesTyped, ReconcileProjection
<1>6. Knows(c)'
  BY <1>1, <1>4, <1>5, NotNone DEF Knows, Staged, Early, Owned, ReconcileProjection, RunIn
<1> QED
  BY <1>1, <1>3, <1>4, <1>6, WroteGood DEF ReconcileProjection

LEMMA ReconcileRunGood ==
  ASSUME IInv, NEW c \in Client, ReconcileRun(c), UNCHANGED interrupts
  PROVE  StepGood(c)
<1> DEFINE q == pointer.plan
<1>1. /\ pc[c] = "reconcileRun" /\ session[c].plan \in Plan /\ q \in Plan
      /\ plans[RunIn(c)] = session[c].plan /\ runs[RunIn(c)] # "absent"
      /\ RunIn(c) \in Run
      /\ pointer # None /\ runs[RunOf[q]] \notin Terminal
      /\ runProjections[RunOf[q]] = Produced(q)
  BY Calling, NotNone DEF ReconcileRun, At, IInv, Knows, Staged
<1>2. RunOf[q] \in Run /\ plans[RunOf[q]] = q /\ replaced[q] # None
  BY <1>1, PlanTypes, NotNone DEF IInv, FilesInv, OwnerJournaled
<1>3. "succeeded" \in RunState \ {"absent"}
  BY DEF RunState
<1>4. FilesInv' /\ FilesTyped' /\ Kept
  BY <1>1, <1>2, <1>3, RunWritten, NotNone DEF ReconcileRun, IInv
<1>5. pc'[c] = "start" /\ session' = session /\ "start" \in PC \ {"idle"}
  BY NextWrite DEF ReconcileRun, PC
<1>6. runs'[RunOf[q]] = "succeeded" /\ runs'[RunIn(c)] # "absent"
  BY <1>1, <1>2, Types DEF IInv, FilesTyped, ReconcileRun
<1>7. Knows(c)'
  BY <1>1, <1>5, <1>6, NotNone DEF Knows, Staged, Early, Owned, ReconcileRun, RunIn, Settled
<1> QED
  BY <1>1, <1>4, <1>5, <1>7, WroteGood DEF ReconcileRun

\* A plan whose run is not over, while the pointer's owner is settled, was
\* never served.
LEMMA NeverServed ==
  ASSUME IInv, NEW p \in Plan, Settled, runs[RunOf[p]] \notin Terminal
  PROVE  replaced[p] = None
BY NotNone DEF IInv, FilesInv, Served, Settled, Terminal

LEMMA StartGood ==
  ASSUME IInv, NEW c \in Client, Start(c), UNCHANGED interrupts
  PROVE  StepGood(c)
<1> DEFINE p == session[c].plan
           r == RunIn(c)
           live == runs[r] \notin Terminal
<1>1. /\ pc[c] = "start" /\ p \in Plan /\ r = RunOf[p] /\ r \in Run
      /\ plans[r] = p /\ runs[r] # "absent" /\ FilesTyped /\ FilesInv
      /\ pointer # None /\ Settled
  BY Calling, Types DEF Start, At, IInv, Knows, Staged
<1>2. CASE ~live /\ Return(c, runs[r] = "succeeded") /\ UNCHANGED files
  <2>1. FilesInv' /\ FilesTyped' /\ Kept
    BY <1>1, <1>2, FilesUnchanged DEF Start
  <2>2. (runs[r] = "succeeded") \in BOOLEAN
    OBVIOUS
  <2>3. runs[r] = "succeeded" => p # None /\ runs'[r] = "succeeded"
    BY <1>1, <1>2, NotNone DEF files
  <2> QED
    BY <1>1, <1>2, <2>1, <2>2, <2>3, ReturnGood
<1>3. CASE Fail(c)
  BY <1>1, <1>3, FailGood DEF Start
<1>4. ASSUME live PROVE replaced[p] = None
  BY <1>1, <1>4, NeverServed
<1>5. ASSUME live, NEW label \in {"staleReceipt", "finalize"}, Decide(c, label),
             label = "finalize" => PointerMatchesBase(p)
      PROVE  StepGood(c)
  <2>1. pc'[c] = label /\ session' = session /\ label \in PC \ {"idle"}
    BY <1>5, NextWrite DEF Decide, PC
  <2>2. Knows(c)'
    BY <1>1, <1>4, <1>5, <2>1, NotNone
       DEF Knows, Staged, Early, Owned, Settled, Decide, Start, files, PointerMatchesBase
  <2> QED
    BY <1>1, <1>5, <2>1, <2>2, DecideGood DEF Start
<1>6. CASE /\ live /\ PointerMatchesBase(p)
           /\ runs' = [runs EXCEPT ![r] = "running"]
           /\ Wrote(c, "operate")
           /\ UNCHANGED <<pointer, projections, plans, results, runProjections>>
  <2>1. "running" \in RunState \ {"absent"}
    BY DEF RunState
  <2>2. FilesInv' /\ FilesTyped' /\ Kept
    <3>1. runs' = [runs EXCEPT ![r] = "running"] /\ plans[r] # None /\ runs[r] \notin Terminal
      BY <1>1, <1>6, NotNone
    <3>2. UNCHANGED <<pointer, projections, plans, results, runProjections, replaced>>
      BY <1>6 DEF Start
    <3> HIDE DEF r
    <3> QED
      BY <1>1, <2>1, <3>1, <3>2, RunWritten DEF IInv
  <2>3. pc'[c] = "operate" /\ session' = session /\ "operate" \in PC \ {"idle"}
    BY <1>6, NextWrite DEF PC
  <2>4. /\ runs'[r] = "running"
        /\ \A q \in Run : q # r => runs'[q] = runs[q]
    BY <1>1, <1>6 DEF FilesTyped
  <2>5. Settled'
    BY <1>1, <1>6, <2>2, <2>4 DEF Settled, Kept, Terminal, FilesTyped, FilesInv, OwnerJournaled
  <2>6. Knows(c)'
    BY <1>1, <1>4, <1>6, <2>3, <2>4, <2>5, NotNone
       DEF Knows, Staged, Early, Owned, Start, PointerMatchesBase, Terminal
  <2> QED
    BY <1>1, <1>6, <2>2, <2>3, <2>6, WroteGood
<1> QED
  BY <1>2, <1>3, <1>5, <1>6 DEF Start

\* The next operation without a receipt.
LEMMA MinMissing ==
  ASSUME NEW r \in Run, Missing(r) # {}
  PROVE  Min(Missing(r)) \in Missing(r) /\ Missing(r) \subseteq Op
<1>1. Missing(r) \subseteq Nat /\ Missing(r) \subseteq Op
  BY ProjectionStoreAssumption DEF Missing, Op
<1>2. PICK m \in Missing(r) : \A n \in Missing(r) : m <= n
  BY <1>1, HasMinimum
<1> QED
  BY <1>1, <1>2 DEF Min

\* What a call knows in which its plan is not served yet.
LEMMA EarlyFacts ==
  ASSUME IInv, NEW c \in Client, pc[c] \in Early
  PROVE  /\ session[c].plan \in Plan
         /\ RunIn(c) = RunOf[session[c].plan] /\ RunIn(c) \in Run
         /\ plans[RunIn(c)] = session[c].plan
         /\ runs[RunIn(c)] \notin {"absent", "succeeded", "failed"}
         /\ replaced[session[c].plan] = None
         /\ pointer # None /\ pointer.version \in Version /\ Settled
         /\ FilesTyped /\ FilesInv /\ pc[c] # "idle"
<1>1. Knows(c) /\ FilesTyped
  BY Types DEF IInv
<1>2. pc[c] \notin {"idle", "initProjection", "initPointer"}
  BY DEF Early
<1> QED
  BY <1>1, <1>2, Calling DEF Knows, Staged, IInv, Terminal

LEMMA OperateGood ==
  ASSUME IInv, NEW c \in Client, Operate(c), UNCHANGED interrupts
  PROVE  StepGood(c)
<1> DEFINE p == session[c].plan
           r == RunIn(c)
<1>1. pc[c] = "operate" /\ pc[c] \in Early /\ PointerMatchesBase(p)
  BY DEF Operate, At, Early, IInv, Knows
<1>2. CASE Decide(c, "finalize")
  <2>1. pc'[c] = "finalize" /\ session' = session /\ "finalize" \in PC \ {"idle"}
    BY <1>2, NextWrite DEF Decide, PC
  <2>2. Knows(c)'
    BY <1>1, <1>2, <2>1, EarlyFacts, NotNone
       DEF Knows, Staged, Early, Owned, Settled, Decide, Operate, files, PointerMatchesBase, Terminal
  <2> QED
    BY <1>1, <1>2, <2>1, <2>2, DecideGood DEF Operate
<1>3. ASSUME NEW outcome \in {"succeeded", "failed"}, Missing(r) # {},
             session' = [session EXCEPT ![c].result =
               [op |-> Min(Missing(r)), outcome |-> outcome]],
             Goto(c, "receipt"), UNCHANGED <<files, lock>>
      PROVE  StepGood(c)
  <2>1. CallsTyped /\ Bound(c) /\ session[c] \in Session /\ lock = c /\ "receipt" \in PC
    BY <1>1, Types DEF IInv, CallsTyped, Locked, PC
  <2>2. Min(Missing(r)) \in Missing(r) /\ Min(Missing(r)) \in Op
    BY <1>1, <1>3, EarlyFacts, MinMissing
  <2> DEFINE s == [session[c] EXCEPT !.result = [op |-> Min(Missing(r)), outcome |-> outcome]]
  <2>3. /\ s \in Session /\ s.plan = p /\ s.base = session[c].base /\ s.won = session[c].won
        /\ s.result.op = Min(Missing(r))
    BY <2>1, <2>2 DEF Session, Outcome
  <2>4. session' = [session EXCEPT ![c] = s]
    BY <1>3, <2>1 DEF CallsTyped
  <2> HIDE DEF s
  <2>5. /\ pc'[c] = "receipt" /\ \A d \in Client \ {c} : pc'[d] = pc[d]
        /\ session'[c] = s /\ \A d \in Client \ {c} : session'[d] = session[d]
    BY <1>3, <2>1, <2>4 DEF CallsTyped, Goto
  <2>6. FilesInv' /\ FilesTyped' /\ Kept
    BY <1>1, <1>3, EarlyFacts, FilesUnchanged DEF Operate
  <2>7. CallsTyped'
    BY <1>3, <2>1, <2>3, <2>4 DEF CallsTyped, Goto
  <2>8. Bound(c)'
    BY <1>3, <2>1, <2>3, <2>5 DEF Bound, RunIn, files
  <2>9. Missing(r)' = Missing(r)
    BY <1>3, <2>3, <2>5 DEF Missing, Receipts, files, RunIn
  <2>10. Knows(c)'
    BY <1>1, <1>3, <2>2, <2>3, <2>5, <2>9, EarlyFacts, NotNone
       DEF Knows, Staged, Early, Owned, Settled, Operate, files, PointerMatchesBase, Terminal, RunIn
  <2>11. Others(c)
    BY <1>3, <2>1, <2>5, NotNone DEF Others
  <2> QED
    BY <2>6, <2>7, <2>8, <2>10, <2>11, Types
       DEF StepGood, StoreTypeOK, FilesTyped, CallsTyped, Session
<1> QED
  BY <1>2, <1>3 DEF Operate

LEMMA WriteReceiptGood ==
  ASSUME IInv, NEW c \in Client, WriteReceipt(c), UNCHANGED interrupts
  PROVE  StepGood(c)
<1> DEFINE p == session[c].plan
           r == RunIn(c)
           res == session[c].result
<1>1. /\ pc[c] = "receipt" /\ pc[c] \in Early /\ PointerMatchesBase(p)
      /\ res.op \in Missing(r) /\ session[c] \in Session
  BY EarlyFacts, Types DEF WriteReceipt, At, Early, IInv, Knows, CallsTyped
<1>2. res.op \in Op /\ results[r][res.op] = "absent" /\ res.outcome \in Outcome
  BY <1>1 DEF Missing, Receipts, Session
<1>3. FilesInv' /\ FilesTyped' /\ Kept
  <2>1. CASE res.outcome # "absent"
    <3>1. /\ r \in Run /\ StoreTypeOK /\ FilesInv
          /\ results' = [results EXCEPT ![r][res.op] = res.outcome]
          /\ UNCHANGED <<pointer, projections, plans, runs, runProjections, replaced>>
      BY <1>1, EarlyFacts DEF WriteReceipt, IInv
    <3> HIDE DEF r, res
    <3> QED
      BY <1>2, <2>1, <3>1, ReceiptWritten
  <2>2. CASE res.outcome = "absent"
    <3>1. results' = results
      <4>1. results \in [Run -> [Op -> Outcome]] /\ r \in Run
        BY <1>1, EarlyFacts DEF FilesTyped
      <4>2. results' = [results EXCEPT ![r] = [results[r] EXCEPT ![res.op] = "absent"]]
        BY <2>2 DEF WriteReceipt
      <4>3. [results[r] EXCEPT ![res.op] = "absent"] = results[r]
        BY <1>2, <4>1
      <4> QED
        BY <4>1, <4>2, <4>3
    <3> QED
      BY <1>1, <3>1, EarlyFacts, FilesUnchanged DEF WriteReceipt, files
  <2> QED
    BY <2>1, <2>2
<1>4. pc'[c] = "operate" /\ session' = session /\ "operate" \in PC \ {"idle"}
  BY NextWrite DEF WriteReceipt, PC
<1>5. Knows(c)'
  BY <1>1, <1>4, EarlyFacts, NotNone
     DEF Knows, Staged, Early, Owned, Settled, WriteReceipt, PointerMatchesBase, Terminal
<1> QED
  BY <1>1, <1>3, <1>4, <1>5, WroteGood DEF WriteReceipt

LEMMA FinalizeGood ==
  ASSUME IInv, NEW c \in Client, Finalize(c), UNCHANGED interrupts
  PROVE  StepGood(c)
<1> DEFINE p == session[c].plan
           r == RunIn(c)
<1>1. pc[c] = "finalize" /\ pc[c] \in Early /\ PointerMatchesBase(p)
  BY DEF Finalize, At, Early, IInv, Knows
<1>2. CASE Fail(c)
  BY <1>1, <1>2, FailGood, EarlyFacts DEF Finalize
<1>3. CASE Missing(r) = {} /\ ~Replayed(p).published /\ Decide(c, "failProjection")
  <2>1. /\ pc'[c] = "failProjection" /\ session' = session
        /\ "failProjection" \in PC \ {"idle"}
    BY <1>3, NextWrite DEF Decide, PC
  <2>2. Knows(c)'
    BY <1>1, <1>3, <2>1, EarlyFacts, NotNone
       DEF Knows, Staged, Early, Owned, Settled, Decide, Finalize, files, Terminal
  <2> QED
    BY <1>1, <1>3, <2>1, <2>2, DecideGood DEF Finalize
<1>4. CASE Missing(r) = {} /\ Replayed(p).published /\ Decide(c, "candidate")
  <2>1. pc'[c] = "candidate" /\ session' = session /\ "candidate" \in PC \ {"idle"}
    BY <1>4, NextWrite DEF Decide, PC
  <2>2. ~AnyFailed(r)
    BY <1>1, <1>4, EarlyFacts DEF Replayed, Withheld
  <2>3. Missing(r)' = {} /\ ~AnyFailed(r)'
    BY <1>4, <2>1, <2>2 DEF Missing, Receipts, AnyFailed, Decide, files, RunIn
  <2>4. Knows(c)'
    BY <1>1, <1>4, <2>1, <2>3, EarlyFacts, NotNone
       DEF Knows, Staged, Early, Owned, Settled, Decide, Finalize, files, PointerMatchesBase, Terminal, RunIn
  <2> QED
    BY <1>1, <1>4, <2>1, <2>4, DecideGood DEF Finalize
<1> QED
  BY <1>2, <1>3, <1>4 DEF Finalize

LEMMA WriteWithheldGood ==
  ASSUME IInv, NEW c \in Client, WriteWithheld(c), UNCHANGED interrupts
  PROVE  StepGood(c)
<1> DEFINE p == session[c].plan
           r == RunIn(c)
<1>1. pc[c] = "failProjection" /\ pc[c] \in Early
  BY DEF WriteWithheld, At, Early
<1>2. CASE ~CanWriteOnce(runProjections[r], Withheld(p))
  BY <1>1, <1>2, FailGood, EarlyFacts DEF WriteWithheld
<1>3. CASE CanWriteOnce(runProjections[r], Withheld(p))
  <2>1. /\ runProjections' = [runProjections EXCEPT ![r] = Withheld(p)]
        /\ Wrote(c, "failRun")
        /\ UNCHANGED <<pointer, projections, plans, runs, results, replaced>>
    BY <1>3 DEF WriteWithheld
  <2>2. FilesInv' /\ FilesTyped' /\ Kept
    <3>1. /\ r \in Run /\ plans[r] = p /\ plans[r] # None /\ runs[r] \notin Terminal
          /\ StoreTypeOK /\ FilesInv
      BY <1>1, EarlyFacts, NotNone DEF IInv, Terminal
    <3> HIDE DEF r, p
    <3> QED
      BY <2>1, <3>1, RunProjectionWritten
  <2>3. pc'[c] = "failRun" /\ session' = session /\ "failRun" \in PC \ {"idle"}
    BY <2>1, NextWrite DEF PC
  <2>4. runProjections'[r] = Withheld(p)
    BY <1>1, <2>1, EarlyFacts DEF FilesTyped
  <2>5. Knows(c)'
    BY <1>1, <2>1, <2>3, <2>4, EarlyFacts, NotNone
       DEF Knows, Staged, Early, Owned, Settled, Terminal
  <2> QED
    BY <1>1, <2>1, <2>2, <2>3, <2>5, WroteGood
<1> QED
  BY <1>2, <1>3

LEMMA FailRunGood ==
  ASSUME IInv, NEW c \in Client, FailRun(c), UNCHANGED interrupts
  PROVE  StepGood(c)
<1> DEFINE r == RunIn(c)
<1>1. /\ pc[c] = "failRun" /\ pc[c] \in Early
      /\ runProjections[r] = Withheld(session[c].plan)
  BY EarlyFacts DEF FailRun, At, Early, IInv, Knows
<1>2. FilesInv' /\ FilesTyped' /\ Kept
  <2>1. "failed" \in RunState \ {"absent"}
    BY DEF RunState
  <2>2. /\ r \in Run /\ plans[r] = session[c].plan /\ plans[r] # None
        /\ replaced[plans[r]] = None /\ runs[r] \notin Terminal
        /\ StoreTypeOK /\ FilesInv
    BY <1>1, EarlyFacts, NotNone DEF IInv, Terminal
  <2>3. /\ runs' = [runs EXCEPT ![r] = "failed"]
        /\ UNCHANGED <<pointer, projections, plans, results, runProjections, replaced>>
    BY DEF FailRun
  <2> HIDE DEF r
  <2> QED
    BY <1>1, <2>1, <2>2, <2>3, RunWritten
<1> QED
  BY <1>1, <1>2, ReturnGood DEF FailRun

LEMMA StaleReceiptGood ==
  ASSUME IInv, NEW c \in Client, StaleReceipt(c), UNCHANGED interrupts
  PROVE  StepGood(c)
<1> DEFINE r == RunIn(c)
<1>1. pc[c] = "staleReceipt" /\ pc[c] \in Early
  BY DEF StaleReceipt, At, Early
<1>2. CASE Decide(c, "failProjection")
  <2>1. /\ pc'[c] = "failProjection" /\ session' = session
        /\ "failProjection" \in PC \ {"idle"}
    BY <1>2, NextWrite DEF Decide, PC
  <2>2. Knows(c)'
    BY <1>1, <1>2, <2>1, EarlyFacts, NotNone
       DEF Knows, Staged, Early, Owned, Settled, Decide, StaleReceipt, files, Terminal
  <2> QED
    BY <1>1, <1>2, <2>1, <2>2, DecideGood DEF StaleReceipt
<1>3. CASE /\ Missing(r) # {}
           /\ results' = [results EXCEPT ![r][Min(Missing(r))] = "failed"]
           /\ Wrote(c, "staleReceipt")
           /\ UNCHANGED <<pointer, projections, plans, runs, runProjections>>
  <2>1. Min(Missing(r)) \in Op /\ results[r][Min(Missing(r))] = "absent"
    BY <1>1, <1>3, EarlyFacts, MinMissing DEF Missing, Receipts
  <2>2. FilesInv' /\ FilesTyped' /\ Kept
    <3>1. "failed" \in Outcome \ {"absent"}
      BY DEF Outcome
    <3>2. UNCHANGED <<pointer, projections, plans, runs, runProjections, replaced>>
      BY <1>3 DEF StaleReceipt
    <3> QED
      BY <1>1, <1>3, <2>1, <3>1, <3>2, EarlyFacts, ReceiptWritten DEF IInv
  <2>3. /\ pc'[c] = "staleReceipt" /\ session' = session
        /\ "staleReceipt" \in PC \ {"idle"}
    BY <1>3, NextWrite DEF PC
  <2>4. Knows(c)'
    BY <1>1, <1>3, <2>3, EarlyFacts, NotNone
       DEF Knows, Staged, Early, Owned, Settled, StaleReceipt, Terminal
  <2> QED
    BY <1>1, <1>3, <2>2, <2>3, <2>4, WroteGood DEF StaleReceipt
<1> QED
  BY <1>2, <1>3 DEF StaleReceipt

LEMMA WriteCandidateGood ==
  ASSUME IInv, NEW c \in Client, WriteCandidate(c), UNCHANGED interrupts
  PROVE  StepGood(c)
<1> DEFINE p == session[c].plan
           r == RunIn(c)
<1>1. /\ pc[c] = "candidate" /\ pc[c] \in Early
      /\ PointerMatchesBase(p) /\ Missing(r) = {} /\ ~AnyFailed(r)
  BY EarlyFacts DEF WriteCandidate, At, Early, IInv, Knows
<1>2. CASE ~CanWriteOnce(projections[TargetOf[p]], Produced(p))
  BY <1>1, <1>2, FailGood, EarlyFacts DEF WriteCandidate
<1>3. CASE CanWriteOnce(projections[TargetOf[p]], Produced(p))
  <2>1. /\ projections' = [projections EXCEPT ![TargetOf[p]] = Produced(p)]
        /\ projections[TargetOf[p]] \in {None, Produced(p)}
        /\ Wrote(c, "pointer")
        /\ UNCHANGED <<pointer, plans, runs, results, runProjections, replaced>>
    BY <1>3 DEF WriteCandidate, CanWriteOnce
  <2>2. /\ p \in Plan /\ TargetOf[p] \in Version /\ Produced(p) \in Projection
        /\ Produced(p).version = TargetOf[p] /\ Produced(p).published
    BY <1>1, EarlyFacts, PlanTypes DEF Produced
  <2>3. /\ FilesTyped' /\ projections'[TargetOf[p]] = Produced(p)
        /\ \A v \in Version : projections[v] # None => projections'[v] = projections[v]
        /\ \A v \in Version : v # TargetOf[p] => projections'[v] = projections[v]
    BY <1>1, <2>1, <2>2, EarlyFacts DEF FilesTyped
  <2>4. WholeFiles'
    BY <1>1, <2>1, <2>2, <2>3, EarlyFacts DEF FilesInv, WholeFiles
  <2>5. OwnerJournaled'
    <3> SUFFICES ASSUME pointer # None, pointer.plan # None
                 PROVE  LET q == pointer.plan
                        IN /\ projections'[TargetOf[q]] = Produced(q)
                           /\ projections'[BaseOf[q]] = replaced[q]
      BY <1>1, <2>1, EarlyFacts DEF FilesInv, OwnerJournaled, Missing, Receipts, AnyFailed
    <3>1. pointer.plan \in Plan
      BY <1>1, EarlyFacts DEF FilesTyped, Pointer
    <3> QED
      BY <1>1, <2>3, <3>1, EarlyFacts, PlanTypes, NotNone DEF FilesInv, OwnerJournaled
  <2>6. /\ JournalTruthful' /\ Kept
        /\ \A q \in Run : WholeRun(q)'
        /\ \A q \in Plan : Served(q)'
    BY <1>1, <2>1, EarlyFacts DEF FilesInv, WholeRun, Served, JournalTruthful, Kept
  <2>7. FilesInv'
    BY <2>4, <2>5, <2>6 DEF FilesInv
  <2>8. pc'[c] = "pointer" /\ session' = session /\ "pointer" \in PC \ {"idle"}
    BY <2>1, NextWrite DEF PC
  <2>9. Missing(r)' = {} /\ ~AnyFailed(r)'
    BY <1>1, <2>1, <2>8 DEF Missing, Receipts, AnyFailed, RunIn
  <2>10. Knows(c)'
    BY <1>1, <2>1, <2>3, <2>8, <2>9, EarlyFacts, NotNone
       DEF Knows, Staged, Early, Owned, Settled, Terminal, PointerMatchesBase, RunIn
  <2> QED
    BY <1>1, <2>1, <2>3, <2>6, <2>7, <2>8, <2>10, EarlyFacts, WroteGood
<1> QED
  BY <1>2, <1>3

LEMMA AdvancePointerGood ==
  ASSUME IInv, NEW c \in Client, AdvancePointer(c), UNCHANGED interrupts
  PROVE  StepGood(c)
<1> DEFINE p == session[c].plan
           r == RunIn(c)
           old == projections[pointer.version]
<1>1. /\ pc[c] = "pointer" /\ pc[c] \in Early
      /\ pointer.version = BaseOf[p] /\ Missing(r) = {} /\ ~AnyFailed(r)
      /\ projections[TargetOf[p]] = Produced(p)
  BY EarlyFacts DEF AdvancePointer, At, Early, IInv, Knows, PointerMatchesBase
<1>2. /\ p \in Plan /\ r = RunOf[p] /\ r \in Run /\ plans[r] = p /\ TargetOf[p] \in Version
      /\ runs[r] \notin {"absent", "succeeded", "failed"} /\ replaced[p] = None
      /\ pointer # None /\ FilesTyped /\ FilesInv /\ Settled
      /\ Produced(p) # None
  BY <1>1, EarlyFacts, PlanTypes, NotNone
<1>3. old \in Projection /\ old # None
  BY <1>1, Calling
<1>4. /\ pointer' = [version |-> TargetOf[p], plan |-> p]
      /\ pointer'.version = TargetOf[p] /\ pointer'.plan = p /\ pointer' # None
      /\ pointer' \in Pointer
  BY <1>2, PlanTypes, NotNone DEF AdvancePointer
<1>5. /\ replaced'[p] = old
      /\ \A q \in Plan : q # p => replaced'[q] = replaced[q]
      /\ UNCHANGED <<projections, plans, runs, results, runProjections>>
  BY <1>2 DEF AdvancePointer, FilesTyped
<1>6. FilesTyped'
  BY <1>2, <1>3, <1>4 DEF FilesTyped, AdvancePointer
<1>7. WholeFiles'
  BY <1>1, <1>2, <1>4, <1>5 DEF FilesInv, WholeFiles
<1>8. OwnerJournaled'
  BY <1>1, <1>2, <1>3, <1>4, <1>5, NotNone DEF OwnerJournaled, Missing, Receipts, AnyFailed
<1>9. ASSUME NEW q \in Plan PROVE Served(q)'
  BY <1>2, <1>3, <1>4, <1>5, NotNone DEF FilesInv, Served, Settled
<1>10. JournalTruthful'
  <2> SUFFICES ASSUME NEW q \in Run, runs[q] \in Terminal
               PROVE  plans[q] \in Plan /\ plans[q] # p
    BY <1>2, <1>5 DEF FilesInv, JournalTruthful, Terminal
  <2>1. plans[q] # None /\ RunOf[plans[q]] = q
    BY <1>2 DEF FilesInv, WholeRun, Terminal
  <2> QED
    BY <1>2, <2>1 DEF FilesTyped, Terminal
<1>11. \A q \in Run : WholeRun(q)'
  BY <1>2, <1>5 DEF FilesInv, WholeRun
<1>12. FilesInv' /\ Kept
  BY <1>4, <1>5, <1>7, <1>8, <1>9, <1>10, <1>11 DEF FilesInv, Kept
<1>13. pc'[c] = "ownProjection" /\ session' = session /\ "ownProjection" \in PC \ {"idle"}
  BY NextWrite DEF AdvancePointer, PC
<1>14. Knows(c)'
  BY <1>2, <1>4, <1>5, <1>13, NotNone DEF Knows, Staged, Early, Owned, Terminal, Owns, RunIn
<1> QED
  BY <1>1, <1>6, <1>12, <1>13, <1>14, WroteGood DEF AdvancePointer

LEMMA WriteOwnProjectionGood ==
  ASSUME IInv, NEW c \in Client, WriteOwnProjection(c), UNCHANGED interrupts
  PROVE  StepGood(c)
<1> DEFINE p == session[c].plan
           r == RunIn(c)
<1>1. /\ pc[c] = "ownProjection" /\ p \in Plan /\ r = RunOf[p] /\ r \in Run
      /\ plans[r] = p /\ runs[r] \notin {"absent", "succeeded", "failed"}
      /\ Owns(p) /\ pointer # None /\ StoreTypeOK /\ FilesInv
  BY Calling DEF WriteOwnProjection, At, IInv, Knows, Staged, Owned, Terminal
<1>2. CASE ~CanWriteOnce(runProjections[r], Produced(p))
  BY <1>1, <1>2, FailGood DEF WriteOwnProjection
<1>3. CASE CanWriteOnce(runProjections[r], Produced(p))
  <2>1. /\ runProjections' = [runProjections EXCEPT ![r] = Produced(p)]
        /\ Wrote(c, "ownRun")
        /\ UNCHANGED <<pointer, projections, plans, runs, results, replaced>>
    BY <1>3 DEF WriteOwnProjection
  <2>2. FilesInv' /\ FilesTyped' /\ Kept
    <3>1. plans[r] # None /\ runs[r] \notin Terminal
      BY <1>1, NotNone DEF Terminal
    <3> HIDE DEF r, p
    <3> QED
      BY <1>1, <2>1, <3>1, RunProjectionWritten
  <2>3. pc'[c] = "ownRun" /\ session' = session /\ "ownRun" \in PC \ {"idle"}
    BY <2>1, NextWrite DEF PC
  <2>4. runProjections'[r] = Produced(p)
    BY <1>1, <2>1, Types DEF FilesTyped
  <2>5. Knows(c)'
    BY <1>1, <2>1, <2>3, <2>4, NotNone DEF Knows, Staged, Early, Owned, Terminal, Owns, RunIn
  <2> QED
    BY <1>1, <2>1, <2>2, <2>3, <2>5, WroteGood
<1> QED
  BY <1>2, <1>3

LEMMA SucceedRunGood ==
  ASSUME IInv, NEW c \in Client, SucceedRun(c), UNCHANGED interrupts
  PROVE  StepGood(c)
<1> DEFINE p == session[c].plan
           r == RunIn(c)
<1>1. /\ pc[c] = "ownRun" /\ p \in Plan /\ r = RunOf[p] /\ r \in Run
      /\ plans[r] = p /\ runs[r] \notin Terminal /\ runProjections[r] = Produced(p)
      /\ Owns(p) /\ pointer # None /\ StoreTypeOK /\ FilesInv
  BY Calling DEF SucceedRun, At, IInv, Knows, Staged, Owned
<1>2. replaced[p] # None
  BY <1>1, NotNone DEF Owns, FilesInv, OwnerJournaled
<1>3. /\ runs' = [runs EXCEPT ![r] = "succeeded"]
      /\ UNCHANGED <<pointer, projections, plans, results, runProjections, replaced>>
      /\ Return(c, TRUE)
  BY DEF SucceedRun
<1>4. FilesInv' /\ FilesTyped' /\ Kept
  <2>1. "succeeded" \in RunState \ {"absent"} /\ plans[r] # None
    BY <1>1, NotNone DEF RunState
  <2> HIDE DEF r, p
  <2> QED
    BY <1>1, <1>2, <1>3, <2>1, RunWritten
<1>5. p # None /\ runs'[r] = "succeeded"
  BY <1>1, <1>3, NotNone, Types DEF FilesTyped
<1> QED
  BY <1>1, <1>3, <1>4, <1>5, ReturnGood

LEMMA RestorePointerGood ==
  ASSUME IInv, NEW c \in Client, RestorePointer(c), UNCHANGED interrupts
  PROVE  StepGood(c)
<1> DEFINE p == session[c].plan
<1>1. /\ pc[c] = "restore" /\ p \in Plan /\ BaseOf[p] \in Version
      /\ session[c].won /\ Owns(p) /\ projections[BaseOf[p]] # None
      /\ pointer # None /\ FilesTyped /\ FilesInv /\ runs[RunOf[p]] = "succeeded"
  BY Calling, PlanTypes, Types DEF RestorePointer, At, IInv, Knows, Bound, RunIn
<1>2. /\ pointer' = [version |-> BaseOf[p], plan |-> None]
      /\ pointer'.version = BaseOf[p] /\ pointer'.plan = None /\ pointer' # None
      /\ pointer' \in Pointer
      /\ UNCHANGED <<projections, plans, runs, results, runProjections, replaced>>
  BY <1>1, PlanTypes, NotNone DEF RestorePointer
<1>3. FilesTyped'
  BY <1>1, <1>2 DEF FilesTyped
<1>4. WholeFiles' /\ OwnerJournaled'
  BY <1>1, <1>2 DEF FilesInv, WholeFiles, OwnerJournaled
<1>5. ASSUME NEW q \in Plan PROVE Served(q)'
  BY <1>1, <1>2 DEF FilesInv, Served, Owns
<1>6. JournalTruthful' /\ \A r \in Run : WholeRun(r)'
  BY <1>1, <1>2 DEF FilesInv, JournalTruthful, WholeRun
<1>7. FilesInv' /\ Kept
  BY <1>2, <1>4, <1>5, <1>6 DEF FilesInv, Kept
<1>8. pc'[c] = "remove" /\ session' = session /\ "remove" \in PC \ {"idle"}
  BY NextWrite DEF RestorePointer, PC
<1>9. Knows(c)'
  BY <1>1, <1>2, <1>8, NotNone DEF Knows, Staged, Early, Owned
<1> QED
  BY <1>1, <1>3, <1>7, <1>8, <1>9, WroteGood DEF RestorePointer

LEMMA RemoveCandidateGood ==
  ASSUME IInv, NEW c \in Client, RemoveCandidate(c), UNCHANGED interrupts
  PROVE  StepGood(c)
<1> DEFINE p == session[c].plan
<1>1. /\ pc[c] = "remove" /\ p \in Plan /\ TargetOf[p] # BaseOf[p]
      /\ pointer = [version |-> BaseOf[p], plan |-> None]
      /\ pointer.version = BaseOf[p] /\ pointer.plan = None
      /\ BaseOf[p] \in Version /\ FilesTyped /\ FilesInv
  <2>1. pc[c] = "remove" /\ Knows(c) /\ FilesTyped /\ FilesInv
    BY Types DEF RemoveCandidate, At, IInv
  <2>2. pointer = [version |-> BaseOf[p], plan |-> None]
    BY <2>1 DEF Knows
  <2> QED
    BY <2>1, <2>2, Calling, PlanTypes
<1>2. /\ projections' = [projections EXCEPT ![TargetOf[p]] = None]
      /\ \A v \in Version : projections'[v] = IF v = TargetOf[p] THEN None ELSE projections[v]
      /\ UNCHANGED <<pointer, plans, runs, results, runProjections, replaced>>
  BY <1>1 DEF RemoveCandidate, FilesTyped
<1>3. FilesTyped'
  BY <1>1, <1>2 DEF FilesTyped
<1>4. WholeFiles' /\ OwnerJournaled'
  BY <1>1, <1>2 DEF FilesInv, WholeFiles, OwnerJournaled
<1>5. /\ JournalTruthful' /\ Kept
      /\ \A r \in Run : WholeRun(r)'
      /\ \A q \in Plan : Served(q)'
  BY <1>1, <1>2 DEF FilesInv, JournalTruthful, WholeRun, Served, Kept
<1>6. FilesInv'
  BY <1>4, <1>5 DEF FilesInv
<1> QED
  BY <1>1, <1>3, <1>5, <1>6, ReturnGood DEF RemoveCandidate

-----------------------------------------------------------------------------
\* The invariant holds

LEMMA WriteGood ==
  ASSUME IInv, NEW c \in Client, Write(c), UNCHANGED interrupts
  PROVE  StepGood(c)
<1>1. CASE \/ WriteInitialProjection(c) \/ WriteInitialPointer(c)
           \/ WritePlan(c) \/ WriteRun(c) \/ RecordResult(c)
  BY <1>1, WriteInitialProjectionGood, WriteInitialPointerGood,
     WritePlanGood, WriteRunGood, RecordResultGood
<1>2. CASE Gate(c) \/ ReconcileProjection(c) \/ ReconcileRun(c) \/ Start(c)
  BY <1>2, GateGood, ReconcileProjectionGood, ReconcileRunGood, StartGood
<1>3. CASE Operate(c) \/ WriteReceipt(c) \/ Finalize(c)
  BY <1>3, OperateGood, WriteReceiptGood, FinalizeGood
<1>4. CASE WriteWithheld(c) \/ FailRun(c) \/ StaleReceipt(c)
  BY <1>4, WriteWithheldGood, FailRunGood, StaleReceiptGood
<1>5. CASE \/ WriteCandidate(c) \/ AdvancePointer(c)
           \/ WriteOwnProjection(c) \/ SucceedRun(c)
  BY <1>5, WriteCandidateGood, AdvancePointerGood, WriteOwnProjectionGood, SucceedRunGood
<1>6. CASE RestorePointer(c) \/ RemoveCandidate(c)
  BY <1>6, RestorePointerGood, RemoveCandidateGood
<1> QED
  BY <1>1, <1>2, <1>3, <1>4, <1>5, <1>6 DEF Write

\* Whoever takes a step holds the lock, or finds it free.
LEMMA HolderSteps ==
  ASSUME IInv, NEW c \in Client,
         (\E p \in Plan : Prepare(c, p)) \/ StoreStep(c)
  PROVE  lock \in {c, None} /\ StepGood(c)
<1>1. CASE \E p \in Plan : Prepare(c, p)
  BY <1>1, PrepareGood DEF Prepare
<1>2. CASE Call(c)
  BY <1>2, CallGood DEF Call, CallInitialize, CallWithPlan, CallRecord, CallRollback, Enter
<1>3. CASE Write(c) /\ UNCHANGED interrupts
  <2>1. pc[c] # "idle"
    BY <1>3 DEF Write, At, WriteInitialProjection, WriteInitialPointer, WritePlan, WriteRun,
                RecordResult, Gate, ReconcileProjection, ReconcileRun, Start, Operate,
                WriteReceipt, Finalize, WriteWithheld, FailRun, StaleReceipt, WriteCandidate,
                AdvancePointer, WriteOwnProjection, SucceedRun, RestorePointer, RemoveCandidate
  <2> QED
    BY <1>3, <2>1, WriteGood DEF IInv, Locked
<1>4. CASE Interrupt(c)
  BY <1>4, InterruptGood DEF Interrupt, At, IInv, Locked
<1> QED
  BY <1>1, <1>2, <1>3, <1>4 DEF StoreStep

LEMMA InitGood == StoreInit => IInv
<1> SUFFICES ASSUME StoreInit PROVE IInv
  OBVIOUS
<1>1. FilesTyped
  BY DEF StoreInit, FilesTyped, RunState, Outcome
<1>2. CallsTyped
  BY NoSessionType, ProjectionStoreAssumption DEF StoreInit, CallsTyped, PC
<1>3. Locked
  BY NotNone DEF StoreInit, Locked
<1>4. FilesInv
  BY DEF StoreInit, FilesInv, WholeFiles, WholeRun, OwnerJournaled, Served, JournalTruthful, Terminal
<1>5. ASSUME NEW c \in Client PROVE Bound(c) /\ Knows(c)
  BY NoSessionType, IdleKnows DEF StoreInit, Bound
<1> QED
  BY <1>1, <1>2, <1>3, <1>4, <1>5, Types DEF IInv

LEMMA InvUnchanged == IInv /\ UNCHANGED storeVars => IInv'
<1> SUFFICES ASSUME IInv, UNCHANGED storeVars PROVE IInv'
  OBVIOUS
<1>1. FilesInv' /\ FilesTyped' /\ CallsTyped'
  BY FilesUnchanged, Types DEF IInv, storeVars, CallsTyped
<1>2. Locked' /\ \A c \in Client : Bound(c)'
  BY DEF IInv, storeVars, files, Locked, Bound, RunIn
<1>3. \A c \in Client : Knows(c)'
  BY DEF IInv, storeVars, files, Knows, Settled, Owns, PointerMatchesBase, Missing, Receipts, AnyFailed
<1> QED
  BY <1>1, <1>2, <1>3, Types DEF IInv, StoreTypeOK, FilesTyped, CallsTyped, Session

LEMMA NextGood == IInv /\ [StoreNext]_storeVars => IInv'
BY HolderSteps, StepKeepsInv, InvUnchanged DEF StoreNext, AtRest

\* The journal's invariant: whatever is interrupted, the files are whole, the
\* pointer's owner is journaled with what it replaced, and the holder of the
\* lock finds on disk what the writes before left there.
THEOREM JournalInvariant == StoreSpec => []IInv
BY InitGood, NextGood, PTL DEF StoreSpec

\* Files and calls stay in their types.
THEOREM StoreTypeCorrect == StoreSpec => []StoreTypeOK
<1>1. IInv => StoreTypeOK
  BY DEF IInv
<1> QED
  BY <1>1, JournalInvariant, PTL

\* A run recorded as succeeded took the pointer, a failed one never did, and
\* the projection kept with the run is the one served or withheld (Execute,
\* Finalize and the reconciliation of the pointer's owner).
THEOREM AuditsTruthful == StoreSpec => []JournalTruthful
<1>1. IInv => JournalTruthful
  BY DEF IInv, FilesInv
<1> QED
  BY <1>1, JournalInvariant, PTL

-----------------------------------------------------------------------------
(***************************************************************************)
(* What a step does to the pointer, to what is served and to the journal.  *)
(***************************************************************************)

\* The three writes that move the pointer.
Moves(c) == WriteInitialPointer(c) \/ AdvancePointer(c) \/ RestorePointer(c)

\* Other steps leave the pointer, and the projection it names, as they are.
Still ==
  /\ UNCHANGED <<pointer, replaced>>
  /\ pointer # None => projections'[pointer.version] = projections[pointer.version]

LEMMA MovesOrStill ==
  ASSUME IInv, [StoreNext]_storeVars
  PROVE  (\E c \in Client : Moves(c)) \/ Still
<1> SUFFICES ASSUME NEW c \in Client, Write(c), ~Moves(c) PROVE Still
  <2>1. CASE UNCHANGED storeVars
    BY <2>1 DEF storeVars, files, Still
  <2>2. ASSUME NEW c \in Client, \E p \in Plan : Prepare(c, p) PROVE Still
    BY <2>2 DEF Prepare, files, Still
  <2>3. ASSUME NEW c \in Client, Call(c) PROVE Still
    BY <2>3 DEF Call, CallInitialize, CallWithPlan, CallRecord, CallRollback, Enter, files, Still
  <2>4. ASSUME NEW c \in Client, Interrupt(c) PROVE Still
    BY <2>4 DEF Interrupt, files, Still
  <2> QED
    BY <2>1, <2>2, <2>3, <2>4 DEF StoreNext, StoreStep, AtRest
<1>1. CASE WriteInitialProjection(c)
  BY <1>1 DEF IInv, Knows, At, WriteInitialProjection, Still
<1>2. CASE WritePlan(c) \/ WriteRun(c) \/ RecordResult(c)
  BY <1>2 DEF WritePlan, WriteRun, RecordResult, Fail, files, Still
<1>3. CASE Gate(c) \/ ReconcileProjection(c) \/ ReconcileRun(c) \/ Start(c)
  BY <1>3 DEF Gate, ReconcileProjection, ReconcileRun, Start, Fail, Decide, files, Still
<1>4. CASE Operate(c) \/ WriteReceipt(c) \/ Finalize(c)
  BY <1>4 DEF Operate, WriteReceipt, Finalize, Fail, Decide, files, Still
<1>5. CASE WriteWithheld(c) \/ FailRun(c) \/ StaleReceipt(c)
  BY <1>5 DEF WriteWithheld, FailRun, StaleReceipt, Fail, Decide, files, Still
<1>6. CASE WriteOwnProjection(c) \/ SucceedRun(c)
  BY <1>6 DEF WriteOwnProjection, SucceedRun, Fail, files, Still
<1>7. CASE WriteCandidate(c)
  <2>1. pc[c] \in Early
    BY <1>7 DEF WriteCandidate, At, Early
  <2>2. /\ session[c].plan \in Plan /\ pointer.version \in Version
        /\ projections[pointer.version] # None
        /\ TargetOf[session[c].plan] \in Version
        /\ projections \in [Version -> Projection \cup {None}]
    BY <2>1, EarlyFacts, PlanTypes DEF FilesInv, WholeFiles, FilesTyped
  <2> QED
    BY <1>7, <2>2 DEF WriteCandidate, CanWriteOnce, Fail, files, Still
<1>8. CASE RemoveCandidate(c)
  <2>1. /\ session[c].plan \in Plan /\ pointer \in Pointer
        /\ pointer.version \in Version
        /\ pointer = [version |-> BaseOf[session[c].plan], plan |-> None]
    BY <1>8, Calling DEF RemoveCandidate, At, IInv, Knows
  <2>2. pointer.version # TargetOf[session[c].plan]
    BY <2>1, PlanTypes
  <2>3. projections'[pointer.version] = projections[pointer.version]
    BY <1>8, <2>1, <2>2, Types DEF RemoveCandidate, IInv, FilesTyped
  <2> QED
    BY <1>8, <2>3 DEF RemoveCandidate, Still
<1> QED
  BY <1>1, <1>2, <1>3, <1>4, <1>5, <1>6, <1>7, <1>8 DEF Write, Moves

\* What each move starts from and comes to.
LEMMA Advances ==
  ASSUME IInv, NEW c \in Client, AdvancePointer(c)
  PROVE  \E p \in Plan :
           /\ session[c].plan = p /\ replaced[p] = None
           /\ pointer # None /\ pointer.version = BaseOf[p]
           /\ Settled
           /\ pointer' = [version |-> TargetOf[p], plan |-> p]
           /\ replaced' = [replaced EXCEPT ![p] = projections[BaseOf[p]]]
           /\ projections[BaseOf[p]] # None
           /\ projections[TargetOf[p]] = Produced(p)
           /\ UNCHANGED projections
<1>1. pc[c] = "pointer" /\ pc[c] \in Early /\ Knows(c)
  BY DEF AdvancePointer, At, Early, IInv
<1>2. pointer.version = BaseOf[session[c].plan] /\ projections[TargetOf[session[c].plan]]
        = Produced(session[c].plan)
  BY <1>1 DEF Knows, PointerMatchesBase
<1>3. projections[pointer.version] # None
  BY <1>1, Calling
<1> session[c].plan \in Plan
  BY <1>1, EarlyFacts
<1> WITNESS session[c].plan \in Plan
<1> QED
  BY <1>1, <1>2, <1>3, EarlyFacts DEF AdvancePointer

LEMMA Restores ==
  ASSUME IInv, NEW c \in Client, RestorePointer(c)
  PROVE  \E p \in Plan :
           /\ session[c].plan = p /\ runs[RunOf[p]] = "succeeded"
           /\ pointer # None /\ pointer.version = TargetOf[p] /\ pointer.plan = p
           /\ projections[TargetOf[p]] = Produced(p)
           /\ replaced[p] # None /\ projections[BaseOf[p]] = replaced[p]
           /\ pointer' = [version |-> BaseOf[p], plan |-> None]
           /\ UNCHANGED <<projections, replaced>>
<1>1. pc[c] = "restore" /\ Knows(c) /\ Bound(c) /\ OwnerJournaled /\ session[c].plan \in Plan
  BY Calling DEF RestorePointer, At, IInv, FilesInv
<1>2. pointer.version = TargetOf[session[c].plan] /\ pointer.plan = session[c].plan
  BY <1>1 DEF Knows, Owns
<1> session[c].plan \in Plan
  BY <1>1
<1> WITNESS session[c].plan \in Plan
<1> QED
  BY <1>1, <1>2, Calling, NotNone DEF RestorePointer, OwnerJournaled, Bound, RunIn, Knows

LEMMA Initializes ==
  ASSUME IInv, NEW c \in Client, WriteInitialPointer(c)
  PROVE  /\ pointer = None /\ projections[Initial] = InitialProjection
         /\ pointer' = [version |-> Initial, plan |-> None]
         /\ UNCHANGED <<projections, replaced>>
BY DEF WriteInitialPointer, At, IInv, Knows

LEMMA OwnerSettledStep ==
  ASSUME IInv, [StoreNext]_storeVars,
         pointer # None, pointer.plan # None, pointer' # pointer
  PROVE  runs[RunOf[pointer.plan]] = "succeeded"
<1>1. PICK c \in Client : Moves(c)
  BY MovesOrStill DEF Still
<1>2. CASE AdvancePointer(c)
  BY <1>2, Advances DEF Settled
<1>3. CASE RestorePointer(c)
  BY <1>3, Restores
<1> QED
  BY <1>1, <1>2, <1>3, Initializes DEF Moves

\* Nobody moves the pointer, forward or back, before its owner's run is
\* recorded as succeeded (reconcilePointerOwnerLocked, RollbackServing).
THEOREM OwnersSettled == StoreSpec => OwnerSettledBeforeReplaced
<1>1. IInv /\ [StoreNext]_storeVars
        => [(pointer # None /\ pointer.plan # None /\ pointer' # pointer)
              => runs[RunOf[pointer.plan]] = "succeeded"]_storeVars
  BY OwnerSettledStep
<1> QED
  BY <1>1, JournalInvariant, PTL DEF StoreSpec, OwnerSettledBeforeReplaced

-----------------------------------------------------------------------------
(***************************************************************************)
(* The refinement of CatalogServing.                                       *)
(***************************************************************************)
Content(file) == [version |-> file.version, plan |-> file.plan]

Shown ==
  IF pointer = None THEN None
  ELSE LET file == projections[pointer.version]
       IN IF file # None /\ file.published
          THEN [version |-> file.version, plan |-> file.plan]
          ELSE None

Replacements == [p \in Plan |-> IF replaced[p] = None THEN None
                  ELSE [version |-> replaced[p].version, plan |-> replaced[p].plan]]

LEMMA ShownFile ==
  ASSUME IInv, pointer # None
  PROVE  /\ Shown = Content(projections[pointer.version])
         /\ projections[pointer.version] # None
         /\ projections[pointer.version].version = pointer.version
         /\ Shown \in Pointer /\ Shown # None
<1>1. /\ pointer.version \in Version
      /\ projections[pointer.version] \in Projection \cup {None}
      /\ projections[pointer.version] # None
  BY Types DEF IInv, FilesTyped, Pointer, FilesInv, WholeFiles
<1>2. /\ projections[pointer.version].version = pointer.version
      /\ projections[pointer.version].published
  BY <1>1 DEF IInv, FilesInv, WholeFiles
<1>3. Shown = Content(projections[pointer.version])
  BY <1>1, <1>2 DEF Shown, Content
<1> QED
  BY <1>1, <1>2, <1>3, NotNone DEF Content, Projection, Pointer

LEMMA ServingInitially == StoreInit => Serving!ServingInit
BY DEF StoreInit, Serving!ServingInit

LEMMA ServingStep ==
  ASSUME IInv, [StoreNext]_storeVars
  PROVE  [Serving!ServingNext]_(Serving!servingVars)
<1> SUFFICES Serving!ServingNext \/ (Shown' = Shown /\ Replacements' = Replacements)
  BY DEF Serving!servingVars, Shown, Replacements
<1>1. CASE Still
  BY <1>1 DEF Still, Shown, Replacements
<1>2. ASSUME NEW c \in Client, WriteInitialPointer(c) PROVE Serving!ServingNext
  <2>1. Shown = None /\ Replacements' = Replacements
    BY <1>2, Initializes DEF Shown, Replacements
  <2>2. pointer' # None /\ pointer'.version = Initial /\ projections'[Initial] = InitialProjection
    BY <1>2, Initializes, NotNone, ProjectionStoreAssumption DEF Pointer
  <2>3. InitialProjection # None
    BY NotNone, ProjectionStoreAssumption DEF InitialProjection, Projection
  <2>4. Shown' = [version |-> Initial, plan |-> None]
    BY <2>2, <2>3 DEF Shown, InitialProjection
  <2>5. Serving!Initialize
    BY <2>1, <2>4 DEF Serving!Initialize, Serving!Published, Shown, Replacements
  <2> QED
    BY <2>5 DEF Serving!ServingNext
<1>3. ASSUME NEW c \in Client, AdvancePointer(c) PROVE Serving!ServingNext
  <2>1. PICK p \in Plan :
           /\ replaced[p] = None
           /\ pointer # None /\ pointer.version = BaseOf[p]
           /\ pointer' = [version |-> TargetOf[p], plan |-> p]
           /\ replaced' = [replaced EXCEPT ![p] = projections[BaseOf[p]]]
           /\ projections[BaseOf[p]] # None
           /\ projections[TargetOf[p]] = Produced(p)
           /\ UNCHANGED projections
    BY <1>3, Advances
  <2>2. Shown = Content(projections[BaseOf[p]]) /\ Shown # None /\ Shown.version = BaseOf[p]
    BY <2>1, ShownFile DEF Content
  <2>3. pointer' # None /\ pointer'.version = TargetOf[p] /\ Produced(p) # None
    BY <2>1, PlanTypes, NotNone
  <2>4. Shown' = [version |-> TargetOf[p], plan |-> p]
    BY <2>1, <2>3 DEF Shown, Produced
  <2>5. Replacements' = [Replacements EXCEPT ![p] = Shown]
    <3>1. replaced \in [Plan -> Projection \cup {None}]
      BY Types DEF IInv, FilesTyped
    <3>2. \A q \in Plan : replaced'[q] = IF q = p THEN projections[BaseOf[p]] ELSE replaced[q]
      BY <2>1, <3>1
    <3> QED
      BY <2>1, <2>2, <3>2 DEF Replacements, Content
  <2>6. Serving!Advance(p)
    BY <2>2, <2>4, <2>5 DEF Serving!Advance, Serving!Published, Shown, Replacements
  <2> QED
    BY <2>6 DEF Serving!ServingNext
<1>4. ASSUME NEW c \in Client, RestorePointer(c) PROVE Serving!ServingNext
  <2>1. PICK p \in Plan :
           /\ pointer # None /\ pointer.version = TargetOf[p]
           /\ projections[TargetOf[p]] = Produced(p)
           /\ replaced[p] # None /\ projections[BaseOf[p]] = replaced[p]
           /\ pointer' = [version |-> BaseOf[p], plan |-> None]
           /\ UNCHANGED <<projections, replaced>>
    BY <1>4, Restores
  <2>2. Shown = [version |-> TargetOf[p], plan |-> p]
    BY <2>1, ShownFile DEF Content, Produced
  <2>3. pointer' # None /\ pointer'.version = BaseOf[p]
    BY <2>1, PlanTypes, NotNone
  <2>4. Shown' = Content(projections[BaseOf[p]])
    <3>1. projections[BaseOf[p]].published
      BY <2>1, PlanTypes DEF IInv, FilesInv, WholeFiles
    <3> QED
      BY <2>1, <2>3, <3>1 DEF Shown, Content
  <2>5. Shown' = Replacements[p] /\ Replacements' = Replacements
    BY <2>1, <2>4 DEF Replacements, Content
  <2>6. Serving!Restore(p)
    BY <2>2, <2>5 DEF Serving!Restore, Serving!Published, Shown, Replacements
  <2> QED
    BY <2>6 DEF Serving!ServingNext
<1> QED
  BY <1>1, <1>2, <1>3, <1>4, MovesOrStill DEF Moves

\* Readers are served as CatalogServing says: a projection appears whole, is
\* replaced only by a plan made from it, and a rollback gives it back.
THEOREM ServesAtomically == StoreSpec => ServingAtomically
<1>1. StoreInit => Serving!ServingInit
  BY ServingInitially
<1>2. IInv /\ [StoreNext]_storeVars => [Serving!ServingNext]_(Serving!servingVars)
  BY ServingStep
<1> QED
  BY <1>1, <1>2, JournalInvariant, PTL DEF StoreSpec, ServingAtomically, Serving!ServingSpec

-----------------------------------------------------------------------------
(***************************************************************************)
(* Whatever is found, one thing only can stand in the pointer's way: its   *)
(* owner's projection was withheld once as stale.                          *)
(***************************************************************************)
WithheldOnce ==
  /\ pointer # None /\ pointer.plan # None
  /\ runProjections[RunOf[pointer.plan]] = Withheld(pointer.plan)

ResolvableUnlessWithheld == PointerResolvable \/ WithheldOnce

LEMMA OwnerFound ==
  ASSUME IInv, ~WithheldOnce
  PROVE  PointerResolvable
<1> SUFFICES ASSUME pointer # None PROVE OwnerConsistent
  BY ShownFile, Types DEF PointerResolvable, IInv, FilesInv, WholeFiles, FilesTyped, Pointer
<1> SUFFICES ASSUME pointer.plan # None PROVE OwnerConsistent
  BY DEF OwnerConsistent
<1> DEFINE p == pointer.plan
           r == RunOf[p]
<1>1. p \in Plan /\ r \in Run /\ BaseOf[p] \in Version
  BY Types, PlanTypes DEF IInv, FilesTyped, Pointer
<1>2. /\ pointer.version = TargetOf[p] /\ plans[r] = p /\ runs[r] \notin {"absent", "failed"}
      /\ Missing(r) = {} /\ ~AnyFailed(r)
      /\ projections[TargetOf[p]] = Produced(p)
      /\ projections[BaseOf[p]] # None
  BY <1>1, NotNone DEF IInv, FilesInv, OwnerJournaled
<1>3. CanWriteOnce(runProjections[r], Produced(p))
  BY <1>1, <1>2 DEF IInv, FilesInv, WholeRun, CanWriteOnce, WithheldOnce
<1>4. runs[r] = "succeeded" => runProjections[r] = Produced(p)
  BY <1>1, <1>2 DEF IInv, FilesInv, JournalTruthful, Terminal
<1> QED
  BY <1>2, <1>3, <1>4 DEF OwnerConsistent

\* For any plans, rivals included: after any crash the pointer's owner is in
\* the journal, complete, and can be reconciled, unless its projection was
\* withheld (persistStaleFailureLocked cut short, and the base served again).
THEOREM PointersResolvableUnlessWithheld == StoreSpec => []ResolvableUnlessWithheld
<1>1. IInv => ResolvableUnlessWithheld
  BY OwnerFound DEF ResolvableUnlessWithheld
<1> QED
  BY <1>1, JournalInvariant, PTL

-----------------------------------------------------------------------------
\* Among the attempts of one pair, that does not happen.

LEMMA RunFrom ==
  ASSUME [StoreNext]_storeVars, runs' # runs
  PROVE  \E c \in Client : WriteRun(c) \/ ReconcileRun(c) \/ Start(c) \/ FailRun(c) \/ SucceedRun(c)
<1> SUFFICES ASSUME NEW c \in Client, Write(c)
             PROVE  WriteRun(c) \/ ReconcileRun(c) \/ Start(c) \/ FailRun(c) \/ SucceedRun(c)
  BY DEF StoreNext, StoreStep, AtRest, storeVars, files, Prepare, Interrupt,
         Call, CallInitialize, CallWithPlan, CallRecord, CallRollback, Enter
<1> QED
  BY DEF Write, WriteInitialProjection, WriteInitialPointer, WritePlan, RecordResult,
         Gate, ReconcileProjection, Operate, WriteReceipt, Finalize, WriteWithheld, StaleReceipt,
         WriteCandidate, AdvancePointer, WriteOwnProjection, RestorePointer, RemoveCandidate,
         Fail, Decide, files

\* A run that is over stays as it is recorded.
LEMMA TerminalStays ==
  ASSUME IInv, [StoreNext]_storeVars, NEW r \in Run, runs[r] \in Terminal
  PROVE  runs'[r] = runs[r]
<1>1. runs \in [Run -> RunState]
  BY Types DEF IInv, FilesTyped
<1>2. ASSUME NEW q, NEW state, runs' = [runs EXCEPT ![q] = state],
             runs[q] \notin Terminal
      PROVE  runs'[r] = runs[r]
  BY <1>1, <1>2
<1>3. ASSUME NEW c \in Client, WriteRun(c) PROVE runs'[r] = runs[r]
  BY <1>1, <1>3 DEF WriteRun, Terminal
<1>4. ASSUME NEW c \in Client, ReconcileRun(c) PROVE runs'[r] = runs[r]
  BY <1>2, <1>4 DEF ReconcileRun, At, IInv, Knows
<1>5. ASSUME NEW c \in Client, Start(c) PROVE runs'[r] = runs[r]
  BY <1>2, <1>5 DEF Start, Fail, Decide, files
<1>6. ASSUME NEW c \in Client, FailRun(c) PROVE runs'[r] = runs[r]
  BY <1>2, <1>6 DEF FailRun, At, IInv, Knows, Early, RunIn
<1>7. ASSUME NEW c \in Client, SucceedRun(c) PROVE runs'[r] = runs[r]
  BY <1>2, <1>7 DEF SucceedRun, At, IInv, Knows, Owned, RunIn
<1> QED
  BY <1>3, <1>4, <1>5, <1>6, <1>7, RunFrom

\* An attempt that is retired stays so: only a live run takes the pointer.
LEMMA RetiredStays ==
  ASSUME IInv, [StoreNext]_storeVars, NEW p \in Plan, Retired(p), pointer # None
  PROVE  Retired(p)'
<1>1. runs[RunOf[p]] \in Terminal /\ RunOf[p] \in Run
  BY PlanTypes DEF Retired, Terminal
<1>2. runs'[RunOf[p]] = runs[RunOf[p]]
  BY <1>1, TerminalStays
<1>3. ASSUME pointer.plan # p PROVE pointer'.plan # p
  <2>1. CASE Still
    BY <1>3, <2>1 DEF Still
  <2>2. ASSUME NEW c \in Client, AdvancePointer(c) PROVE pointer'.plan # p
    <3>1. pc[c] = "pointer" /\ pc[c] \in Early /\ Knows(c)
      BY <2>2 DEF AdvancePointer, At, Early, IInv
    <3>2. runs[RunOf[session[c].plan]] \notin Terminal
      BY <3>1 DEF Knows
    <3>3. pointer'.plan = session[c].plan
      BY <2>2, Advances
    <3> QED
      BY <1>1, <3>2, <3>3
  <2>3. ASSUME NEW c \in Client, RestorePointer(c) PROVE pointer'.plan # p
    <3>1. pointer'.plan = None
      BY <2>3, Restores
    <3> QED
      BY <3>1, NotNone
  <2> QED
    BY <2>1, <2>2, <2>3, MovesOrStill, Initializes DEF Moves
<1> QED
  BY <1>2, <1>3 DEF Retired

LEMMA RetiredBeforeStays ==
  ASSUME IInv, [StoreNext]_storeVars, NEW p \in Plan, RetiredBefore(p), pointer # None
  PROVE  RetiredBefore(p)'
<1>1. Earlier[p] \subseteq Plan
  BY ProjectionStoreAssumption
<1> QED
  BY <1>1, RetiredStays DEF RetiredBefore

\* A failed receipt stays.
LEMMA FailureStays ==
  ASSUME IInv, [StoreNext]_storeVars, NEW r \in Run, AnyFailed(r)
  PROVE  AnyFailed(r)'
<1>1. CASE UNCHANGED results
  BY <1>1 DEF AnyFailed
<1>2. ASSUME NEW c \in Client, NEW o \in Op, NEW outcome,
             results' = [results EXCEPT ![RunIn(c)][o] = outcome],
             results[RunIn(c)][o] \in {"absent", outcome}
      PROVE  AnyFailed(r)'
  <2>1. PICK i \in Op : results[r][i] = "failed"
    BY DEF AnyFailed
  <2>2. results \in [Run -> [Op -> Outcome]]
    BY Types DEF IInv, FilesTyped
  <2>3. results'[r][i] = "failed"
    BY <1>2, <2>1, <2>2
  <2> QED
    BY <2>3 DEF AnyFailed
<1>3. ASSUME NEW c \in Client, RecordResult(c), results' # results PROVE AnyFailed(r)'
  <2>1. session[c].result.op \in Op
    BY Types DEF IInv, CallsTyped, Session
  <2> QED
    BY <1>2, <1>3, <2>1 DEF RecordResult, CanRecord, Fail, files
<1>4. ASSUME NEW c \in Client, WriteReceipt(c) PROVE AnyFailed(r)'
  <2>1. session[c].result.op \in Missing(RunIn(c))
    BY <1>4 DEF WriteReceipt, At, IInv, Knows, RunIn
  <2> QED
    BY <1>2, <1>4, <2>1 DEF WriteReceipt, Missing, Receipts
<1>5. ASSUME NEW c \in Client, StaleReceipt(c), results' # results PROVE AnyFailed(r)'
  <2>1. Missing(RunIn(c)) # {}
        /\ results' = [results EXCEPT ![RunIn(c)][Min(Missing(RunIn(c)))] = "failed"]
    BY <1>5 DEF StaleReceipt, Decide, files
  <2>2. Min(Missing(RunIn(c))) \in Missing(RunIn(c))
    BY <1>5, <2>1, EarlyFacts, MinMissing DEF StaleReceipt, At, Early
  <2> QED
    BY <1>2, <2>1, <2>2 DEF Missing, Receipts
<1>6. ASSUME results' # results
      PROVE  \E c \in Client : RecordResult(c) \/ WriteReceipt(c) \/ StaleReceipt(c)
  <2> SUFFICES ASSUME NEW c \in Client, Write(c)
               PROVE  RecordResult(c) \/ WriteReceipt(c) \/ StaleReceipt(c)
    BY <1>6 DEF StoreNext, StoreStep, AtRest, storeVars, files, Prepare, Interrupt,
                Call, CallInitialize, CallWithPlan, CallRecord, CallRollback, Enter
  <2> QED
    BY <1>6 DEF Write, WriteInitialProjection, WriteInitialPointer, WritePlan, WriteRun,
                Gate, ReconcileProjection, ReconcileRun, Start, Operate, Finalize,
                WriteWithheld, FailRun, WriteCandidate, AdvancePointer, WriteOwnProjection,
                SucceedRun, RestorePointer, RemoveCandidate, Fail, Decide, files
<1> QED
  BY <1>1, <1>3, <1>4, <1>5, <1>6

LEMMA ReturnsWith ==
  ASSUME IInv, NEW c \in Client, NEW won \in BOOLEAN, Return(c, won)
  PROVE  session'[c].plan = session[c].plan /\ pc'[c] = "idle"
<1>1. session \in [Client -> Session] /\ pc \in [Client -> PC]
  BY Types DEF IInv, CallsTyped
<1> QED
  BY <1>1, NoSessionType DEF Return, Session

\* A write keeps the plan of its call, and knows why it comes to withhold.
LEMMA WriteControl ==
  ASSUME IInv, NEW c \in Client, Write(c)
  PROVE  /\ session'[c].plan = session[c].plan
         /\ pc'[c] \in {"staleReceipt", "failProjection"} =>
              \/ StaleReceipt(c)
              \/ AnyFailed(RunIn(c))
              \/ /\ pc[c] = "start" /\ runs[RunIn(c)] \notin Terminal
                 /\ ~PointerMatchesBase(session[c].plan)
<1>1. session \in [Client -> Session] /\ pc \in [Client -> PC]
  BY Types DEF IInv, CallsTyped
<1> DEFINE SamePlan == session'[c].plan = session[c].plan
           Plain == SamePlan /\ pc'[c] \notin {"staleReceipt", "failProjection"}
<1>2. /\ Return(c, TRUE) => Plain
      /\ Return(c, FALSE) => Plain
      /\ Return(c, runs[RunIn(c)] = "succeeded") => Plain
  BY ReturnsWith
<1>3. CASE WriteInitialProjection(c) \/ WriteInitialPointer(c) \/ WritePlan(c)
  <2>1. Plain
    BY <1>1, <1>2, <1>3 DEF Wrote, Goto, WriteInitialProjection, WriteInitialPointer, WritePlan, Fail
  <2> QED
    BY <2>1
<1>4. CASE WriteRun(c) \/ RecordResult(c)
  <2>1. Plain
    BY <1>1, <1>2, <1>4 DEF Wrote, Goto, WriteRun, RecordResult, Fail
  <2> QED
    BY <2>1
<1>5. CASE Gate(c) \/ ReconcileProjection(c) \/ ReconcileRun(c)
  <2>1. Plain
    BY <1>1, <1>2, <1>5 DEF Wrote, Goto, Gate, ReconcileProjection, ReconcileRun, Fail, Decide
  <2> QED
    BY <2>1
<1>6. CASE Start(c)
  <2>1. \/ Plain
        \/ /\ SamePlan /\ ~PointerMatchesBase(session[c].plan)
           /\ pc[c] = "start" /\ runs[RunIn(c)] \notin Terminal
    BY <1>1, <1>2, <1>6 DEF Wrote, Goto, Start, Fail, Decide, At
  <2> QED
    BY <2>1
<1>7. CASE Operate(c) \/ WriteReceipt(c)
  <2>1. ASSUME NEW result, session' = [session EXCEPT ![c].result = result], Goto(c, "receipt")
        PROVE  Plain
    BY <1>1, <2>1 DEF Goto, Session
  <2>2. Plain
    BY <1>1, <1>2, <1>7, <2>1 DEF Wrote, Goto, Operate, WriteReceipt, Decide
  <2> QED
    BY <2>2
<1>8. CASE Finalize(c)
  <2>1. Plain \/ (SamePlan /\ AnyFailed(RunIn(c)))
    BY <1>1, <1>2, <1>8 DEF Wrote, Goto, Finalize, Fail, Decide, Replayed, Produced, RunIn
  <2> QED
    BY <2>1
<1>9. CASE WriteWithheld(c) \/ FailRun(c) \/ WriteOwnProjection(c) \/ SucceedRun(c)
  <2>1. Plain
    BY <1>1, <1>2, <1>9 DEF Wrote, Goto, WriteWithheld, FailRun, WriteOwnProjection, SucceedRun, Fail
  <2> QED
    BY <2>1
<1>10. CASE StaleReceipt(c)
  <2>1. SamePlan
    BY <1>1, <1>10 DEF Wrote, Goto, StaleReceipt, Decide
  <2> QED
    BY <1>10, <2>1
<1>11. CASE WriteCandidate(c) \/ AdvancePointer(c) \/ RestorePointer(c) \/ RemoveCandidate(c)
  <2>1. Plain
    BY <1>1, <1>2, <1>11
       DEF Wrote, Goto, WriteCandidate, AdvancePointer, RestorePointer, RemoveCandidate, Fail
  <2> QED
    BY <2>1
<1> QED
  BY <1>3, <1>4, <1>5, <1>6, <1>7, <1>8, <1>9, <1>10, <1>11 DEF Write

\* Where the plan of a caller comes from.
LEMMA PlanComesFrom ==
  ASSUME IInv, [StoreNext]_storeVars, NEW d \in Client
  PROVE  \/ session'[d].plan \in {session[d].plan, None}
         \/ \E p \in Plan : Prepare(d, p) /\ session'[d].plan = p
<1> SUFFICES ASSUME NEW c \in Client,
                    (\E p \in Plan : Prepare(c, p)) \/ StoreStep(c)
             PROVE  \/ session'[d].plan \in {session[d].plan, None}
                    \/ \E p \in Plan : Prepare(d, p) /\ session'[d].plan = p
  BY DEF StoreNext, AtRest, storeVars
<1>1. CASE d # c
  BY <1>1, HolderSteps DEF StepGood, Others
<1> SUFFICES ASSUME d = c
             PROVE  \/ session'[c].plan \in {session[c].plan, None}
                    \/ \E p \in Plan : Prepare(c, p) /\ session'[c].plan = p
  BY <1>1
<1>2. session \in [Client -> Session]
  BY Types DEF IInv, CallsTyped
<1>3. ASSUME NEW p \in Plan, Prepare(c, p) PROVE session'[c].plan = p
  BY <1>2, <1>3, NoSessionType DEF Prepare, Session
<1>4. ASSUME Call(c) PROVE session'[c].plan = session[c].plan
  BY <1>2, <1>4 DEF Call, CallInitialize, CallWithPlan, CallRecord, CallRollback, Enter, Session
<1>5. ASSUME Interrupt(c) PROVE session'[c].plan \in {session[c].plan, None}
  BY <1>2, <1>5, NoSessionType DEF Interrupt, Session
<1> QED
  BY <1>3, <1>4, <1>5, WriteControl DEF StoreStep

\* At the start of a live attempt the pointer is at the base of the pair: its
\* owner would be an attempt that is over, before or after this one.
LEMMA StartMatches ==
  ASSUME IInv, PairInv, AttemptsOfOnePair, NEW c \in Client,
         pc[c] = "start", runs[RunIn(c)] \notin Terminal
  PROVE  PointerMatchesBase(session[c].plan)
<1> DEFINE p == session[c].plan
           q == pointer.plan
<1>1. /\ p \in Plan /\ RunIn(c) = RunOf[p]
      /\ pointer # None /\ q \in Plan \cup {None}
  BY Calling
<1>2. ASSUME q # None PROVE FALSE
  <2>1. q \in Plan /\ RunOf[q] \in Run
    BY <1>1, <1>2, PlanTypes
  <2>2. runs[RunOf[q]] = "succeeded" /\ plans[RunOf[q]] = q
    BY <1>1, <1>2 DEF IInv, Knows, Settled, FilesInv, OwnerJournaled
  <2>3. p # q
    BY <1>1, <2>2 DEF Terminal
  <2>4. CASE q \in Earlier[p]
    <3>1. Retired(q)
      BY <1>1, <2>4, NotNone DEF PairInv, CallOfPair, RetiredBefore
    <3> QED
      BY <2>2, <3>1 DEF Retired
  <2>5. CASE p \in Earlier[q]
    <3>1. Retired(p)
      BY <1>2, <2>1, <2>2, <2>5 DEF PairInv, RunOfPair, RetiredBefore
    <3> QED
      BY <1>1, <3>1 DEF Retired, Terminal
  <2> QED
    BY <1>1, <2>1, <2>3, <2>4, <2>5 DEF AttemptsOfOnePair
<1> QED
  BY <1>1, <1>2 DEF PairInv, PointerMatchesBase, AttemptsOfOnePair

LEMMA CallStep ==
  ASSUME IInv, IInv', PairInv, [StoreNext]_storeVars, AttemptsOfOnePair, NEW d \in Client
  PROVE  CallOfPair(d)'
<1> SUFFICES ASSUME NEW p, p = session'[d].plan
             PROVE  /\ p # None => RetiredBefore(p)'
                    /\ pc'[d] \in {"staleReceipt", "failProjection"} => AnyFailed(RunOf[p])'
  BY DEF CallOfPair, RetiredBefore, Retired, AnyFailed
<1>1. ASSUME p # None PROVE RetiredBefore(p)'
  <2>1. p \in Plan
    <3>1. session'[d] \in Session
      BY Types DEF IInv, StoreTypeOK, Session
    <3> QED
      BY <1>1, <3>1 DEF Session
  <2>2. RetiredBefore(p) /\ pointer # None
    <3>1. CASE p = session[d].plan
      BY <1>1, <3>1 DEF IInv, Bound, PairInv, CallOfPair
    <3>2. CASE Prepare(d, p)
      BY <3>2 DEF Prepare, RetiredBefore
    <3> QED
      BY <1>1, <3>1, <3>2, PlanComesFrom
  <2> QED
    BY <2>1, <2>2, RetiredBeforeStays
<1>2. ASSUME pc'[d] \in {"staleReceipt", "failProjection"}
      PROVE  AnyFailed(RunOf[p])'
  <2>1. CASE UNCHANGED storeVars
    BY <1>2, <2>1 DEF storeVars, files, PairInv, CallOfPair, AnyFailed
  <2>2. ASSUME NEW c \in Client, (\E q \in Plan : Prepare(c, q)) \/ StoreStep(c)
        PROVE  c = d /\ Write(d)
    <3>1. c = d
      BY <1>2, <2>2, HolderSteps, NotNone DEF StepGood, Others, IInv, Locked
    <3>2. pc \in [Client -> PC]
      BY Types DEF IInv, CallsTyped
    <3>3. ~ \E q \in Plan : Prepare(d, q)
      BY <1>2, <3>2 DEF Prepare, At
    <3>4. ~Interrupt(d)
      BY <1>2, <3>2 DEF Interrupt, Goto
    <3>5. ~Call(d)
      BY <1>2, <3>2 DEF Call, CallInitialize, CallWithPlan, CallRecord, CallRollback, Enter, Goto
    <3> QED
      BY <2>2, <3>1, <3>3, <3>4, <3>5 DEF StoreStep
  <2>3. CASE Write(d)
    <3>1. p = session[d].plan /\ RunOf[p] = RunIn(d)
      BY <2>3, WriteControl DEF RunIn
    <3>2. RunOf[p] \in Run
      <4>1. session'[d] \in Session /\ session'[d].plan # None
        BY <1>2 DEF IInv, StoreTypeOK, Session, Knows
      <4> QED
        BY <4>1, PlanTypes DEF Session
    <3>3. AnyFailed(RunOf[p])
      <4>1. CASE StaleReceipt(d)
        BY <3>1, <4>1 DEF PairInv, CallOfPair, StaleReceipt, At
      <4>2. ~(pc[d] = "start" /\ runs[RunIn(d)] \notin Terminal
                /\ ~PointerMatchesBase(session[d].plan))
        BY StartMatches
      <4> QED
        BY <1>2, <2>3, <3>1, <4>1, <4>2, WriteControl
    <3> QED
      BY <3>2, <3>3, FailureStays
  <2> QED
    BY <2>1, <2>2, <2>3 DEF StoreNext, AtRest
<1> QED
  BY <1>1, <1>2

LEMMA RunProjectionFrom ==
  ASSUME [StoreNext]_storeVars, runProjections' # runProjections
  PROVE  \E c \in Client : WriteWithheld(c) \/ ReconcileProjection(c) \/ WriteOwnProjection(c)
<1> SUFFICES ASSUME NEW c \in Client, Write(c)
             PROVE  WriteWithheld(c) \/ ReconcileProjection(c) \/ WriteOwnProjection(c)
  BY DEF StoreNext, StoreStep, AtRest, storeVars, files, Prepare, Interrupt,
         Call, CallInitialize, CallWithPlan, CallRecord, CallRollback, Enter
<1> QED
  BY DEF Write, WriteInitialProjection, WriteInitialPointer, WritePlan, WriteRun, RecordResult,
         Gate, ReconcileRun, Start, Operate, WriteReceipt, Finalize, FailRun, StaleReceipt,
         WriteCandidate, AdvancePointer, SucceedRun, RestorePointer, RemoveCandidate,
         Fail, Decide, files

LEMMA PlanFrom ==
  ASSUME [StoreNext]_storeVars, plans' # plans
  PROVE  \E c \in Client : WritePlan(c)
<1> SUFFICES ASSUME NEW c \in Client, Write(c) PROVE WritePlan(c)
  BY DEF StoreNext, StoreStep, AtRest, storeVars, files, Prepare, Interrupt,
         Call, CallInitialize, CallWithPlan, CallRecord, CallRollback, Enter
<1> QED
  BY DEF Write, WriteInitialProjection, WriteInitialPointer, WriteRun, RecordResult,
         Gate, ReconcileProjection, ReconcileRun, Start, Operate, WriteReceipt, Finalize,
         WriteWithheld, FailRun, StaleReceipt, WriteCandidate, AdvancePointer,
         WriteOwnProjection, SucceedRun, RestorePointer, RemoveCandidate, Fail, Decide, files

\* A plan in the journal was some caller's.
LEMMA JournaledStep ==
  ASSUME IInv, PairInv, [StoreNext]_storeVars, NEW r \in Run,
         NEW p \in Plan, p = plans'[r]
  PROVE  pointer' # None /\ RetiredBefore(p)'
<1>1. pointer # None /\ RetiredBefore(p)
  <2>1. CASE plans'[r] = plans[r]
    BY <2>1, NotNone DEF PairInv, RunOfPair
  <2>2. ASSUME NEW c \in Client, WritePlan(c), plans'[r] # plans[r]
        PROVE  pointer # None /\ RetiredBefore(p)
    <3>1. pc[c] = "plan" /\ session[c].plan \in Plan /\ pointer # None
      BY <2>2, Calling DEF WritePlan, At
    <3>2. plans'[r] = session[c].plan
      BY <2>2, Types DEF WritePlan, Fail, files, IInv, FilesTyped
    <3> QED
      BY <3>1, <3>2, NotNone DEF PairInv, CallOfPair
  <2> QED
    BY <2>1, <2>2, PlanFrom
<1>2. pointer' # None
  <2>1. CASE Still
    BY <1>1, <2>1 DEF Still
  <2>2. ASSUME NEW c \in Client, AdvancePointer(c) PROVE pointer' # None
    BY <2>2, Advances, PlanTypes, NotNone
  <2>3. ASSUME NEW c \in Client, RestorePointer(c) PROVE pointer' # None
    BY <2>3, Restores, PlanTypes, NotNone
  <2> QED
    BY <1>1, <2>1, <2>2, <2>3, MovesOrStill, Initializes DEF Moves
<1> QED
  BY <1>1, <1>2, RetiredBeforeStays

LEMMA WithheldStep ==
  ASSUME IInv, IInv', PairInv, [StoreNext]_storeVars, NEW r \in Run,
         plans'[r] # None, runProjections'[r] = Withheld(plans'[r])
  PROVE  AnyFailed(r)'
<1> SUFFICES AnyFailed(r)
  BY FailureStays
<1>1. plans'[r] \in Plan /\ runProjections \in [Run -> Projection \cup {None}]
  BY Types DEF IInv, StoreTypeOK, FilesTyped
<1>2. CASE runProjections'[r] = runProjections[r]
  <2>1. runProjections[r] # None
    BY <1>1, <1>2, PlanTypes, NotNone
  <2>2. plans[r] # None /\ runProjections[r] \in {Produced(plans[r]), Withheld(plans[r])}
    BY <2>1 DEF IInv, FilesInv, WholeRun
  <2>3. runProjections[r] = Withheld(plans[r])
    <3>1. ~runProjections[r].published
      BY <1>2 DEF Withheld
    <3>2. Produced(plans[r]).published
      BY DEF Produced
    <3> QED
      BY <2>2, <3>1, <3>2
  <2> QED
    BY <2>2, <2>3 DEF PairInv, RunOfPair
<1>3. ASSUME NEW q, NEW p, runProjections' = [runProjections EXCEPT ![q] = Produced(p)]
      PROVE  runProjections'[r] = runProjections[r]
  BY <1>1, <1>3 DEF Produced, Withheld
<1>4. ASSUME NEW c \in Client, WriteWithheld(c), runProjections'[r] # runProjections[r]
      PROVE  AnyFailed(r)
  <2>1. pc[c] = "failProjection" /\ pc[c] \in Early
    BY <1>4 DEF WriteWithheld, At, Early
  <2>2. r = RunOf[session[c].plan]
    BY <1>1, <1>4, <2>1, EarlyFacts DEF WriteWithheld, Fail, files
  <2> QED
    BY <2>1, <2>2 DEF PairInv, CallOfPair
<1> QED
  BY <1>2, <1>3, <1>4, RunProjectionFrom DEF ReconcileProjection, WriteOwnProjection, Fail, files

LEMMA RunStep ==
  ASSUME IInv, IInv', PairInv, [StoreNext]_storeVars, NEW r \in Run
  PROVE  RunOfPair(r)'
<1> SUFFICES ASSUME NEW p, p = plans'[r], p # None
             PROVE  /\ pointer' # None /\ RetiredBefore(p)'
                    /\ runProjections'[r] = Withheld(p) => AnyFailed(r)'
  BY DEF RunOfPair, RetiredBefore, Retired, Withheld, AnyFailed
<1>1. p \in Plan
  BY DEF IInv, StoreTypeOK
<1> QED
  BY <1>1, JournaledStep, WithheldStep

\* A pointer that nobody owns is at the base of the pair, first or again.
LEMMA UnownedStep ==
  ASSUME IInv, PairInv, [StoreNext]_storeVars, AttemptsOfOnePair,
         pointer' # None, pointer'.plan = None
  PROVE  pointer'.version = Initial
<1>1. CASE Still
  BY <1>1 DEF Still, PairInv
<1>2. ASSUME NEW c \in Client, AdvancePointer(c) PROVE FALSE
  BY <1>2, Advances, NotNone
<1>3. ASSUME NEW c \in Client, RestorePointer(c) PROVE pointer'.version = Initial
  BY <1>3, Restores DEF AttemptsOfOnePair
<1> QED
  BY <1>1, <1>2, <1>3, MovesOrStill, Initializes DEF Moves

LEMMA PairStep ==
  ASSUME IInv, IInv', PairInv, [StoreNext]_storeVars, AttemptsOfOnePair
  PROVE  PairInv'
BY CallStep, RunStep, UnownedStep DEF PairInv

LEMMA PairInit == StoreInit => PairInv
<1> SUFFICES ASSUME StoreInit PROVE PairInv
  OBVIOUS
<1>1. \A c \in Client : session[c].plan = None /\ pc[c] = "idle"
  BY NoSessionType DEF StoreInit
<1> QED
  BY <1>1 DEF StoreInit, PairInv, CallOfPair, RunOfPair

LEMMA PairResolvable ==
  ASSUME IInv, PairInv
  PROVE  PointerResolvable
<1> SUFFICES ASSUME WithheldOnce PROVE FALSE
  BY OwnerFound
<1>1. pointer.plan \in Plan /\ RunOf[pointer.plan] \in Run
  BY Types, PlanTypes DEF WithheldOnce, IInv, FilesTyped, Pointer
<1> QED
  BY <1>1, NotNone DEF WithheldOnce, IInv, FilesInv, OwnerJournaled, PairInv, RunOfPair

\* In the journal of a build, whatever attempts at its pair fail, are cut
\* short, published or rolled back, the pointer found after any crash can be
\* resolved (reconcilePointerOwnerLocked).
THEOREM PointersResolvable ==
  ASSUME AttemptsOfOnePair
  PROVE  StoreSpec => []PointerResolvable
<1>1. StoreInit => PairInv
  BY PairInit
<1>2. IInv /\ IInv' /\ PairInv /\ [StoreNext]_storeVars => PairInv'
  BY PairStep
<1>3. IInv /\ PairInv => PointerResolvable
  BY PairResolvable
<1> QED
  BY <1>1, <1>2, <1>3, JournalInvariant, PTL DEF StoreSpec

=============================================================================
