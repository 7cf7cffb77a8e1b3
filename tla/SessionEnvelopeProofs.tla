------------------------ MODULE SessionEnvelopeProofs ------------------------
(***************************************************************************)
(* Proofs about SessionEnvelope, for any set of programs and contexts and  *)
(* any bounds.  As long as no recovery took away a lock it had not looked  *)
(* at, the lock directory excludes: the program between Acquire and Unlock *)
(* is alone, the lock it holds is neither stale nor seen as stale, and the *)
(* envelope it is about to replace is the one it rechecked.                *)
(***************************************************************************)
EXTENDS SessionEnvelope, TLAPS

\* Program p is between Acquire and Unlock.
Holding(p) == pc[p] \in {"recheck", "write", "unlock", "give up"}

\* The envelope a call of p may replace.
MayReplace(p) == IF op[p] = "bind" THEN None ELSE expected[p]

\* Only what a dead program left gets old.
OldIsLeft == stale => lock = "left"

\* A lock that is held was seen stale by nobody.
FreshIsUnseen == lock = "held" => seen = {}

Alone == \A p, q \in Program : Holding(p) /\ Holding(q) => p = q

HolderHasLock == \A p \in Program : Holding(p) => lock = "held"

\* What was rechecked under the lock is still there when it is replaced.
StillExpected == \A p \in Program : pc[p] = "write" => envelope = MayReplace(p)

Excludes == Alone /\ HolderHasLock /\ StillExpected

IInv == TypeOK /\ OldIsLeft /\ FreshIsUnseen /\ (~stolen => Excludes)

-----------------------------------------------------------------------------
\* The bounds are naturals, and what a call may store has a type.
LEMMA StoredType ==
  ASSUME TypeOK, NEW context \in Context, calls < MaxCalls
  PROVE  /\ [context |-> context, boundAt |-> calls + 1] \in Stored
         /\ calls + 1 \in 0 .. MaxCalls
<1>1. calls + 1 \in 1 .. MaxCalls
  <2>1. calls \in 0 .. MaxCalls /\ MaxCalls \in Nat
    BY SessionEnvelopeAssumption DEF TypeOK
  <2> QED
    BY <2>1
<1> QED
  BY <1>1 DEF Stored, Envelope

LEMMA InitHolds == Init => IInv
<1> SUFFICES ASSUME Init PROVE IInv
  OBVIOUS
<1>1. None \in Stored /\ 0 \in 0 .. MaxCalls /\ 0 \in 0 .. MaxCrashes
  BY SessionEnvelopeAssumption DEF Stored
<1>2. TypeOK
  BY <1>1 DEF Init, TypeOK
<1> QED
  BY <1>2 DEF Init, IInv, OldIsLeft, FreshIsUnseen, Excludes, Alone, HolderHasLock,
              StillExpected, Holding

LEMMA TypeStep == TypeOK /\ [Next]_vars => TypeOK'
<1> SUFFICES ASSUME TypeOK, [Next]_vars PROVE TypeOK'
  OBVIOUS
<1> USE DEF TypeOK
<1>1. ASSUME NEW p \in Program, Step(p) PROVE TypeOK'
  <2>1. UNCHANGED <<callVars, crashes>>
    BY <1>1 DEF Step, LoadForBind, LoadForRebind, AlreadyThere, Acquire, Contend, SeeLock,
                RenameLock, Recheck, Write, Unlock, Reload
  <2>2. envelope' \in {envelope, next[p]}
    BY <1>1 DEF Step, LoadForBind, LoadForRebind, AlreadyThere, Acquire, Contend, SeeLock,
                RenameLock, Recheck, Write, Unlock, Reload
  <2>3. /\ lock' \in {"free", "held", "left"} /\ stale' \in BOOLEAN
        /\ seen' \subseteq Program /\ stolen' \in BOOLEAN
    BY <1>1 DEF Step, LoadForBind, LoadForRebind, AlreadyThere, Acquire, Contend, SeeLock,
                RenameLock, Recheck, Write, Unlock, Reload, lockVars
  <2>4. pc' \in [Program -> {"idle", "load", "wait", "recover", "rename", "recheck",
                             "write", "unlock", "give up", "reload"}]
    BY <1>1 DEF Step, LoadForBind, LoadForRebind, AlreadyThere, Acquire, Contend, SeeLock,
                RenameLock, Recheck, Write, Unlock, Reload, Goto
  <2> QED
    BY <2>1, <2>2, <2>3, <2>4 DEF callVars
<1>2. ASSUME NEW p \in Program, Crash(p) PROVE TypeOK'
  <2>1. crashes' \in 0 .. MaxCrashes
    <3> HIDE DEF TypeOK
    <3>1. crashes \in 0 .. MaxCrashes /\ MaxCrashes \in Nat
      BY SessionEnvelopeAssumption DEF TypeOK
    <3>2. crashes < MaxCrashes /\ crashes' = crashes + 1
      BY <1>2 DEF Crash
    <3> QED
      BY <3>1, <3>2
  <2> QED
    BY <1>2, <2>1 DEF Crash, Goto, callVars
<1>3. ASSUME NEW p \in Program, NEW kind \in {"bind", "rebind"}, NEW context \in Context,
             Begin(p, kind, context)
      PROVE  TypeOK'
  <2>1. /\ calls' \in 0 .. MaxCalls
        /\ next' \in [Program -> Stored]
    BY <1>3, StoredType DEF Begin
  <2> QED
    BY <1>3, <2>1 DEF Begin, Goto, lockVars
<1>4. CASE MinutePasses
  BY <1>4 DEF MinutePasses, callVars
<1>5. CASE UNCHANGED vars
  BY <1>5 DEF vars
<1> QED
  BY <1>1, <1>2, <1>3, <1>4, <1>5 DEF Next, AtRest

-----------------------------------------------------------------------------
\* A step that leaves lock and envelope alone, and brings no one to hold it.
LEMMA Elsewhere ==
  ASSUME IInv, TypeOK', UNCHANGED <<envelope, lockVars>>,
         NEW p \in Program, ~Holding(p), ~Holding(p)',
         \A q \in Program \ {p} : pc'[q] = pc[q] /\ op'[q] = op[q] /\ expected'[q] = expected[q]
  PROVE  IInv'
<1>1. \A q \in Program : Holding(q)' => q # p /\ Holding(q)
  BY DEF Holding
<1>2. \A q \in Program : pc'[q] = "write" =>
        q # p /\ pc[q] = "write" /\ MayReplace(q)' = MayReplace(q)
  BY DEF Holding, MayReplace
<1> QED
  BY <1>1, <1>2 DEF IInv, lockVars, OldIsLeft, FreshIsUnseen, Excludes, Alone, HolderHasLock,
                    StillExpected

\* The holder goes on, with its call as it was and the lock held.
LEMMA HolderGoesOn ==
  ASSUME IInv, TypeOK', UNCHANGED <<lockVars, callVars>>,
         NEW p \in Program, Holding(p),
         \A q \in Program \ {p} : pc'[q] = pc[q],
         envelope' = envelope \/ pc[p] = "write",
         pc'[p] = "write" => envelope' = MayReplace(p)
  PROVE  IInv'
<1>1. ASSUME ~stolen PROVE Excludes'
  <2>1. \A q \in Program : Holding(q) => q = p
    BY <1>1 DEF IInv, Excludes, Alone
  <2>2. \A q \in Program : Holding(q)' => q = p
    BY <2>1 DEF Holding
  <2>3. lock' = "held"
    BY <1>1 DEF IInv, Excludes, HolderHasLock, lockVars
  <2>4. StillExpected'
    BY <2>2 DEF StillExpected, Holding, MayReplace, callVars
  <2> QED
    BY <2>2, <2>3, <2>4 DEF Excludes, Alone, HolderHasLock
<1> QED
  BY <1>1 DEF IInv, lockVars, OldIsLeft, FreshIsUnseen

\* A program lets go of the lock, or dies with it.
LEMMA HolderGone ==
  ASSUME IInv, TypeOK', UNCHANGED <<envelope, callVars>>, stolen' = stolen,
         NEW p \in Program, Holding(p), ~Holding(p)',
         \A q \in Program \ {p} : pc'[q] = pc[q],
         OldIsLeft', FreshIsUnseen'
  PROVE  IInv'
<1>1. ASSUME ~stolen PROVE Excludes'
  <2>1. \A q \in Program : Holding(q) => q = p
    BY <1>1 DEF IInv, Excludes, Alone
  <2>2. \A q \in Program : ~Holding(q)'
    BY <2>1 DEF Holding
  <2> QED
    BY <2>2 DEF Excludes, Alone, HolderHasLock, StillExpected, Holding
<1> QED
  BY <1>1 DEF IInv

LEMMA AcquireGood ==
  ASSUME IInv, TypeOK', NEW p \in Program, Acquire(p)
  PROVE  IInv'
<1>1. OldIsLeft' /\ FreshIsUnseen'
  BY DEF Acquire, OldIsLeft, FreshIsUnseen
<1>2. ASSUME ~stolen PROVE Excludes'
  <2>1. \A q \in Program : ~Holding(q)
    BY <1>2 DEF IInv, Excludes, HolderHasLock, Acquire
  <2>2. \A q \in Program : Holding(q)' => q = p
    BY <2>1 DEF Acquire, Goto, Holding, IInv, TypeOK
  <2>3. pc'[p] = "recheck" /\ lock' = "held"
    BY DEF Acquire, Goto, IInv, TypeOK
  <2> QED
    BY <2>2, <2>3 DEF Excludes, Alone, HolderHasLock, StillExpected, Holding
<1> QED
  BY <1>1, <1>2 DEF IInv, Acquire

LEMMA SeeLockGood ==
  ASSUME IInv, TypeOK', NEW p \in Program, SeeLock(p)
  PROVE  IInv'
<1>1. /\ UNCHANGED <<envelope, lock, stale, stolen, callVars>>
      /\ \A q \in Program \ {p} : pc'[q] = pc[q]
      /\ ~Holding(p)'
      /\ seen' = seen \/ lock = "left"
  BY DEF SeeLock, Goto, Holding, IInv, TypeOK, OldIsLeft
<1>2. \A q \in Program : Holding(q)' => Holding(q) /\ pc'[q] = pc[q]
  BY <1>1 DEF Holding
<1>3. ~stolen => Excludes'
  BY <1>1, <1>2 DEF IInv, Excludes, Alone, HolderHasLock, StillExpected, Holding, MayReplace, callVars
<1> QED
  BY <1>1, <1>3 DEF IInv, OldIsLeft, FreshIsUnseen

\* A recovery that takes away what it looked at takes the lock of nobody alive.
LEMMA RenameLockGood ==
  ASSUME IInv, TypeOK', NEW p \in Program, RenameLock(p)
  PROVE  IInv'
<1>1. OldIsLeft' /\ FreshIsUnseen'
  BY DEF RenameLock, OldIsLeft, FreshIsUnseen
<1>2. ASSUME ~stolen' PROVE Excludes'
  <2>1. ~stolen /\ (lock = "free" \/ p \in seen)
    BY <1>2 DEF RenameLock
  <2>2. lock # "held"
    BY <2>1 DEF IInv, FreshIsUnseen
  <2>3. \A q \in Program : ~Holding(q)
    BY <2>1, <2>2 DEF IInv, Excludes, HolderHasLock
  <2>4. \A q \in Program : ~Holding(q)'
    BY <2>3 DEF RenameLock, Goto, Holding, IInv, TypeOK
  <2> QED
    BY <2>4 DEF Excludes, Alone, HolderHasLock, StillExpected, Holding
<1> QED
  BY <1>1, <1>2 DEF IInv

LEMMA StepGood ==
  ASSUME IInv, TypeOK', NEW p \in Program, Step(p)
  PROVE  IInv'
<1>1. CASE \/ LoadForBind(p) \/ LoadForRebind(p) \/ AlreadyThere(p) \/ Contend(p) \/ Reload(p)
  <2>1. /\ UNCHANGED <<envelope, lockVars, callVars>>
        /\ ~Holding(p) /\ ~Holding(p)'
        /\ \A q \in Program \ {p} : pc'[q] = pc[q]
    BY <1>1 DEF LoadForBind, LoadForRebind, AlreadyThere, Contend, Reload, Goto, Holding, IInv, TypeOK
  <2> QED
    BY <2>1, Elsewhere DEF callVars
<1>2. CASE Acquire(p)
  BY <1>2, AcquireGood
<1>3. CASE SeeLock(p)
  BY <1>3, SeeLockGood
<1>4. CASE RenameLock(p)
  BY <1>4, RenameLockGood
<1>5. CASE Recheck(p)
  <2>1. /\ UNCHANGED <<lockVars, callVars, envelope>>
        /\ Holding(p)
        /\ \A q \in Program \ {p} : pc'[q] = pc[q]
        /\ pc'[p] = "write" => envelope = MayReplace(p)
    BY <1>5 DEF Recheck, Goto, Holding, MayReplace, IInv, TypeOK
  <2> QED
    BY <2>1, HolderGoesOn
<1>6. CASE Write(p)
  <2>1. /\ UNCHANGED <<lockVars, callVars>>
        /\ Holding(p) /\ pc[p] = "write" /\ pc'[p] # "write"
        /\ \A q \in Program \ {p} : pc'[q] = pc[q]
    BY <1>6 DEF Write, Goto, Holding, IInv, TypeOK
  <2> QED
    BY <2>1, HolderGoesOn
<1>7. CASE Unlock(p)
  <2>1. /\ UNCHANGED <<envelope, callVars>> /\ stolen' = stolen
        /\ Holding(p) /\ ~Holding(p)'
        /\ \A q \in Program \ {p} : pc'[q] = pc[q]
        /\ OldIsLeft' /\ FreshIsUnseen'
    BY <1>7 DEF Unlock, Goto, Holding, IInv, TypeOK, OldIsLeft, FreshIsUnseen
  <2> QED
    BY <2>1, HolderGone
<1> QED
  BY <1>1, <1>2, <1>3, <1>4, <1>5, <1>6, <1>7 DEF Step

LEMMA CrashGood ==
  ASSUME IInv, TypeOK', NEW p \in Program, Crash(p)
  PROVE  IInv'
<1>1. /\ UNCHANGED <<envelope, stale, seen, stolen, callVars>>
      /\ ~Holding(p)'
      /\ \A q \in Program \ {p} : pc'[q] = pc[q]
      /\ lock' = IF Holding(p) THEN "left" ELSE lock
  BY DEF Crash, Goto, Holding, IInv, TypeOK
<1>2. CASE Holding(p)
  <2>1. OldIsLeft' /\ FreshIsUnseen'
    BY <1>1, <1>2 DEF OldIsLeft, FreshIsUnseen
  <2> QED
    BY <1>1, <1>2, <2>1, HolderGone
<1>3. CASE ~Holding(p)
  BY <1>1, <1>3, Elsewhere DEF lockVars, callVars
<1> QED
  BY <1>2, <1>3

LEMMA BeginGood ==
  ASSUME IInv, TypeOK', NEW p \in Program, NEW kind \in {"bind", "rebind"},
         NEW context \in Context, Begin(p, kind, context)
  PROVE  IInv'
<1>1. /\ UNCHANGED <<envelope, lockVars>>
      /\ ~Holding(p) /\ ~Holding(p)'
      /\ \A q \in Program \ {p} : pc'[q] = pc[q] /\ op'[q] = op[q] /\ expected'[q] = expected[q]
  BY DEF Begin, Goto, Holding, IInv, TypeOK
<1> QED
  BY <1>1, Elsewhere

LEMMA InductiveStep == IInv /\ [Next]_vars => IInv'
<1> SUFFICES ASSUME IInv, [Next]_vars PROVE IInv'
  OBVIOUS
<1>0. TypeOK'
  BY TypeStep DEF IInv
<1>1. ASSUME NEW p \in Program, Step(p) PROVE IInv'
  BY <1>0, <1>1, StepGood
<1>2. ASSUME NEW p \in Program, Crash(p) PROVE IInv'
  BY <1>0, <1>2, CrashGood
<1>3. ASSUME NEW p \in Program, NEW kind \in {"bind", "rebind"}, NEW context \in Context,
             Begin(p, kind, context)
      PROVE  IInv'
  BY <1>0, <1>3, BeginGood
<1>4. CASE MinutePasses
  BY <1>0, <1>4 DEF MinutePasses, IInv, callVars, OldIsLeft, FreshIsUnseen, Excludes, Alone,
                    HolderHasLock, StillExpected, Holding, MayReplace
<1>5. CASE UNCHANGED vars
  BY <1>0, <1>5 DEF vars, IInv, OldIsLeft, FreshIsUnseen, Excludes, Alone,
                    HolderHasLock, StillExpected, Holding, MayReplace
<1> QED
  BY <1>1, <1>2, <1>3, <1>4, <1>5 DEF Next, AtRest

\* The invariant of the lock and of the file it protects, whatever dies where.
THEOREM EnvelopeInvariant == Spec => []IInv
<1> QED
  BY InitHolds, InductiveStep, PTL DEF Spec

\* Every variable keeps its type.
THEOREM EnvelopeTypeCorrect == Spec => []TypeOK
<1>1. IInv => TypeOK
  BY DEF IInv
<1> QED
  BY <1>1, EnvelopeInvariant, PTL

\* The lock directory has no owner, and still two programs are between Acquire and
\* Unlock only after a recovery renamed a lock it had not found stale.
THEOREM LockExcludes == Spec => [](~stolen => Alone)
<1>1. IInv => (~stolen => Alone)
  BY DEF IInv, Excludes
<1> QED
  BY <1>1, EnvelopeInvariant, PTL

-----------------------------------------------------------------------------
LEMMA ReplacesOnlyExpected ==
  IInv /\ [Next]_vars =>
    (envelope' # envelope /\ ~stolen =>
       \/ envelope = None
       \/ \E p \in Program :
            op[p] = "rebind" /\ expected[p] = envelope /\ next[p] = envelope')
<1> SUFFICES ASSUME IInv, Next, envelope' # envelope, ~stolen, envelope # None
             PROVE  \E p \in Program :
                      op[p] = "rebind" /\ expected[p] = envelope /\ next[p] = envelope'
  BY DEF vars
<1>1. PICK p \in Program : Write(p)
  BY DEF Next, AtRest, vars, MinutePasses, Step, Crash, Begin, LoadForBind, LoadForRebind,
         AlreadyThere, Acquire, Contend, SeeLock, RenameLock, Recheck, Unlock, Reload
<1>2. envelope = MayReplace(p)
  BY <1>1 DEF IInv, Excludes, StillExpected, Write
<1>3. op[p] \in {"bind", "rebind"}
  BY DEF IInv, TypeOK
<1> QED
  BY <1>1, <1>2, <1>3 DEF MayReplace, Write

\* ReplacedAsExpected: no bind and no rebind of any program undoes another, also when
\* the lock of a dead one was recovered, unless a recovery took a live lock.
THEOREM NoBindIsUndone == Spec => ReplacedAsExpected
<1>1. IInv /\ [Next]_vars =>
        [envelope' # envelope /\ ~stolen =>
           \/ envelope = None
           \/ \E p \in Program :
                op[p] = "rebind" /\ expected[p] = envelope /\ next[p] = envelope']_vars
  BY ReplacesOnlyExpected
<1> QED
  BY <1>1, EnvelopeInvariant, PTL DEF Spec, ReplacedAsExpected

=============================================================================
