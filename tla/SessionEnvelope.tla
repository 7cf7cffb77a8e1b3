--------------------------- MODULE SessionEnvelope ---------------------------
(***************************************************************************)
(* The authorization envelope of one session on disk: programs on the same *)
(* workspace bind it (write once) and rebind it (compare and swap).  A     *)
(* mutex serializes the calls of one program, so that a program has one    *)
(* call at a time; a lock directory, without an owner, serializes the      *)
(* programs.  Between any two steps a program may die and start again.     *)
(***************************************************************************)
EXTENDS Naturals

CONSTANTS
  Program,     \* programs with the workspace open
  Context,     \* authorization contexts an envelope binds a session to
  None,        \* no envelope
  MaxCalls,    \* bound: calls in a behaviour
  MaxCrashes   \* bound: programs that die in a call

ASSUME SessionEnvelopeAssumption ==
  /\ None \notin Program
  /\ MaxCalls \in Nat /\ MaxCrashes \in Nat

VARIABLES
  envelope,  \* the envelope file: what it binds to and when it was bound
  lock,      \* the lock directory: "free", "held", or "left" by a dead program
  stale,     \* the lock directory is older than a minute
  pc,        \* where each program is in its call
  op,        \* "bind" or "rebind"
  expected,  \* the envelope a rebind was asked to replace
  next,      \* the envelope a call was asked to write
  calls,     \* calls begun, which tell apart when envelopes were bound
  crashes,   \* programs that died
  seen,      \* history: programs that found this very lock directory stale
  stolen     \* history: a recovery took away a lock it had not looked at

vars == <<envelope, lock, stale, pc, op, expected, next, calls, crashes,
          seen, stolen>>

Envelope == [context : Context, boundAt : 1 .. MaxCalls]
Stored == Envelope \cup {None}

\* validateSameAuthorizationBinding: BoundAt does not count.
SameBinding(x, y) == x.context = y.context

TypeOK ==
  /\ envelope \in Stored
  /\ lock \in {"free", "held", "left"}
  /\ stale \in BOOLEAN
  /\ pc \in [Program -> {"idle", "load", "wait", "recover", "rename", "recheck",
                         "write", "unlock", "give up", "reload"}]
  /\ op \in [Program -> {"bind", "rebind"}]
  /\ expected \in [Program -> Stored]
  /\ next \in [Program -> Stored]
  /\ calls \in 0 .. MaxCalls
  /\ crashes \in 0 .. MaxCrashes
  /\ seen \subseteq Program
  /\ stolen \in BOOLEAN

Init ==
  /\ envelope = None
  /\ lock = "free"
  /\ stale = FALSE
  /\ pc = [p \in Program |-> "idle"]
  /\ op = [p \in Program |-> "bind"]
  /\ expected = [p \in Program |-> None]
  /\ next = [p \in Program |-> None]
  /\ calls = 0
  /\ crashes = 0
  /\ seen = {}
  /\ stolen = FALSE

Goto(p, label) == pc' = [pc EXCEPT ![p] = label]

lockVars == <<lock, stale, seen, stolen>>
callVars == <<op, expected, next, calls>>

-----------------------------------------------------------------------------
\* A call takes the mutex.  Rebind expects an envelope its caller loaded before.
Begin(p, kind, context) ==
  /\ pc[p] = "idle" /\ calls < MaxCalls
  /\ kind = "rebind" => envelope # None
  /\ calls' = calls + 1
  /\ op' = [op EXCEPT ![p] = kind]
  /\ expected' = [expected EXCEPT ![p] = envelope]
  /\ next' = [next EXCEPT ![p] = [context |-> context, boundAt |-> calls + 1]]
  /\ Goto(p, "load")
  /\ UNCHANGED <<envelope, lockVars, crashes>>

\* bindSessionAuthorization: an envelope that is there decides the call.
LoadForBind(p) ==
  /\ pc[p] = "load" /\ op[p] = "bind"
  /\ Goto(p, IF envelope = None THEN "wait" ELSE "idle")
  /\ UNCHANGED <<envelope, lockVars, callVars, crashes>>

\* rebindSessionAuthorization: nothing to do, somebody was faster, or replace.
LoadForRebind(p) ==
  /\ pc[p] = "load" /\ op[p] = "rebind"
  /\ Goto(p, IF envelope # expected[p] \/ SameBinding(expected[p], next[p])
             THEN "idle" ELSE "wait")
  /\ UNCHANGED <<envelope, lockVars, callVars, crashes>>

\* publishSessionAuthorization looks for the file before it tries the lock.
AlreadyThere(p) ==
  /\ pc[p] = "wait" /\ op[p] = "bind" /\ envelope # None
  /\ Goto(p, "reload")
  /\ UNCHANGED <<envelope, lockVars, callVars, crashes>>

Acquire(p) ==
  /\ pc[p] = "wait" /\ lock = "free"
  /\ lock' = "held" /\ stale' = FALSE /\ seen' = {}
  /\ Goto(p, "recheck")
  /\ UNCHANGED <<envelope, callVars, crashes, stolen>>

Contend(p) ==
  /\ pc[p] = "wait" /\ lock # "free"
  /\ Goto(p, "recover")
  /\ UNCHANGED <<envelope, lockVars, callVars, crashes>>

\* Faulty variant: the lock of a dead program is waited for.
SeeNoStale(p) ==
  /\ pc[p] = "recover"
  /\ Goto(p, "wait")
  /\ UNCHANGED <<envelope, lockVars, callVars, crashes>>

\* recoverStaleSessionAuthorizationLock looks at the age of the lock ...
SeeLock(p) ==
  /\ pc[p] = "recover"
  /\ IF lock # "free" /\ stale
     THEN Goto(p, "rename") /\ seen' = seen \cup {p}
     ELSE Goto(p, "wait") /\ UNCHANGED seen
  /\ UNCHANGED <<envelope, lock, stale, stolen, callVars, crashes>>

\* ... and then renames and removes whatever has its name.
RenameLock(p) ==
  /\ pc[p] = "rename"
  /\ lock' = "free" /\ stale' = FALSE
  /\ stolen' = (stolen \/ (lock # "free" /\ p \notin seen))
  /\ Goto(p, "wait")
  /\ UNCHANGED <<envelope, seen, callVars, crashes>>

\* Faulty variant: the file is not looked at again under the lock.
RecheckNothing(p) ==
  /\ pc[p] = "recheck"
  /\ Goto(p, "write")
  /\ UNCHANGED <<envelope, lockVars, callVars, crashes>>

\* Under the lock: still no file for a bind, still the expected one for a rebind.
Recheck(p) ==
  /\ pc[p] = "recheck"
  /\ Goto(p, IF envelope = IF op[p] = "bind" THEN None ELSE expected[p]
             THEN "write" ELSE "give up")
  /\ UNCHANGED <<envelope, lockVars, callVars, crashes>>

\* The staged file is renamed to its place.
Write(p) ==
  /\ pc[p] = "write"
  /\ envelope' = next[p]
  /\ Goto(p, "unlock")
  /\ UNCHANGED <<lockVars, callVars, crashes>>

\* os.Remove(lockPath).  A bind that created nothing loads again.
Unlock(p) ==
  /\ pc[p] \in {"unlock", "give up"}
  /\ lock' = "free" /\ stale' = FALSE
  /\ Goto(p, IF op[p] = "bind" /\ pc[p] = "give up" THEN "reload" ELSE "idle")
  /\ UNCHANGED <<envelope, seen, stolen, callVars, crashes>>

Reload(p) ==
  /\ pc[p] = "reload"
  /\ Goto(p, "idle")
  /\ UNCHANGED <<envelope, lockVars, callVars, crashes>>

-----------------------------------------------------------------------------
\* A program dies in a call; the lock it held stays behind.
Crash(p) ==
  /\ pc[p] # "idle" /\ crashes < MaxCrashes
  /\ crashes' = crashes + 1
  /\ lock' = IF pc[p] \in {"recheck", "write", "unlock", "give up"}
             THEN "left" ELSE lock
  /\ Goto(p, "idle")
  /\ UNCHANGED <<envelope, stale, seen, stolen, callVars>>

\* A program holds the lock for less than a minute.
MinutePasses ==
  /\ lock = "left" /\ ~stale
  /\ stale' = TRUE
  /\ UNCHANGED <<envelope, lock, pc, seen, stolen, callVars, crashes>>

\* With every call returned and the bound reached, the programs wait.
AtRest ==
  /\ \A p \in Program : pc[p] = "idle"
  /\ UNCHANGED vars

Step(p) ==
  \/ LoadForBind(p) \/ LoadForRebind(p) \/ AlreadyThere(p) \/ Acquire(p)
  \/ Contend(p) \/ SeeLock(p) \/ RenameLock(p) \/ Recheck(p) \/ Write(p)
  \/ Unlock(p) \/ Reload(p)

Next ==
  \/ MinutePasses
  \/ AtRest
  \/ \E p \in Program : Step(p) \/ Crash(p)
  \/ \E p \in Program, kind \in {"bind", "rebind"}, context \in Context :
       Begin(p, kind, context)

\* A call polls until it returns, and time passes.
Fairness == WF_vars(MinutePasses) /\ \A p \in Program : WF_vars(Step(p))

Spec == Init /\ [][Next]_vars /\ Fairness

-----------------------------------------------------------------------------
(***************************************************************************)
(* Of the programs that bind a new session one succeeds, and an envelope   *)
(* is replaced only by a rebind that expected this very envelope: no bind  *)
(* and no rebind undoes another, also when the lock of a dead program was  *)
(* recovered, as long as no recovery took away the lock of a live one.     *)
(***************************************************************************)
ReplacedAsExpected ==
  [][envelope' # envelope /\ ~stolen =>
       \/ envelope = None
       \/ \E p \in Program :
            op[p] = "rebind" /\ expected[p] = envelope /\ next[p] = envelope']_vars

(***************************************************************************)
(* Every bind and every rebind returns, although a program died and left   *)
(* its lock behind: somebody recovers it once it is a minute old.          *)
(***************************************************************************)
CallsReturn == \A p \in Program : pc[p] # "idle" ~> pc[p] = "idle"

=============================================================================
