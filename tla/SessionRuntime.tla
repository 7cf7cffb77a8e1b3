--------------------------- MODULE SessionRuntime ---------------------------
(***************************************************************************)
(* runtime.Manager with its only client, the terminal interface, which     *)
(* waits for every call: messages and slash commands, confirmations of     *)
(* side effects, new and resumed sessions, and the authorization context a *)
(* permissioned session is bound to, in memory and in its envelope.        *)
(* Between the steps of a call the context provider may answer otherwise   *)
(* and another program may rebind an envelope.  SessionEnvelope justifies  *)
(* that a bind and a rebind of an envelope are one step each here.         *)
(***************************************************************************)
EXTENDS SideEffectBridge

CONSTANTS
  Who,         \* principals (with model, agent, task and consistency)
  Scope,       \* knowledge bases and watermarks, which a build may change
  Modes,       \* may the program be permissioned, or not
  MaxCalls,    \* bound: calls of the client
  MaxChanges   \* bound: changes of the provider, of the disk and of the program

ASSUME SessionRuntimeAssumption ==
  /\ Modes \subseteq BOOLEAN /\ None \notin Who
  /\ MaxCalls \in Nat /\ MaxChanges \in Nat

Context == [who : Who, scope : Scope]
NoContext == [who |-> None, scope |-> None]

VARIABLES
  permissioned,  \* the capability profile, with a context provider
  provider,      \* what the context provider answers
  session,       \* the live session, None before a start
  binding,       \* the context the live session is bound to in memory
  envelope,      \* per session: its envelope's context and when it was written
  opened,        \* sessions with an event log on disk
  shown,         \* the confirmation the terminal shows
  hidden,        \* offers of this program an error followed in the same answer
  answered,      \* history: request, session and answer of every confirmation
  executed,      \* history: executed requests in order
  torn,          \* history: sessions whose own rebind replaced the envelope only
  rebound,       \* history: sessions another program rebound since they were checked
  pc,            \* where the client's call is
  call,          \* its locals
  calls,         \* calls so far
  changes,       \* changes so far
  written,       \* envelopes written so far
  made           \* requests so far

sessionVars == <<session, binding, envelope, opened, torn, rebound, written>>
clientVars == <<shown, hidden, answered, executed>>
environment == <<permissioned, provider, changes>>
vars == <<bridgeVars, sessionVars, clientVars, environment, pc, call, calls, made>>

Envelope == [context : Context, at : Nat \ {0}]
NoEnvelope == [context |-> NoContext, at |-> 0]

NoCall == [op |-> "none", id |-> None, target |-> None, context |-> NoContext,
           expected |-> NoEnvelope, next |-> NoContext]

Op == {"message", "slash", "resume", "approve"}

Call == [op : Op \cup {"none"}, id : 1 .. MaxRequests \cup {None},
         target : Session \cup {None}, context : Context \cup {NoContext},
         expected : Envelope \cup {NoEnvelope}, next : Context \cup {NoContext}]

Answers == [id : 1 .. MaxRequests, session : Session, approved : BOOLEAN]

TypeOK ==
  /\ BridgeTypeOK
  /\ permissioned \in Modes /\ provider \in Context
  /\ session \in Session \cup {None} /\ opened \subseteq Session
  /\ binding \in Context \cup {NoContext}
  /\ envelope \in [Session -> Envelope \cup {NoEnvelope}]
  /\ shown \in 1 .. MaxRequests \cup {None} /\ hidden \subseteq 1 .. MaxRequests
  /\ answered \in Seq(Answers) /\ executed \in Seq(1 .. MaxRequests)
  /\ torn \subseteq Session /\ rebound \subseteq Session
  /\ pc \in {"start", "idle", "ask", "bind", "save", "run", "ask target",
             "authorize", "adopt", "expect", "execute", "refresh", "ask again", "rebind", "offer"}
  /\ call \in Call
  /\ calls \in 0 .. MaxCalls /\ changes \in 0 .. MaxChanges
  /\ written \in Nat /\ made \in 0 .. MaxRequests

Init ==
  /\ BridgeInit
  /\ permissioned \in Modes /\ provider \in Context
  /\ session = None /\ binding = NoContext
  /\ envelope = [s \in Session |-> NoEnvelope]
  /\ opened = {}
  /\ shown = None /\ hidden = {} /\ answered = <<>> /\ executed = <<>>
  /\ torn = {} /\ rebound = {} /\ pc = "start" /\ call = NoCall
  /\ calls = 0 /\ changes = 0 /\ written = 0 /\ made = 0

\* The call returns events; the last one decides what the terminal shows.
Return(last) == pc' = "idle" /\ call' = NoCall /\ shown' = last

Goto(label) == pc' = label /\ UNCHANGED shown

\* The envelope was found to agree with the binding.
Agreed(s) == torn' = torn \ {s} /\ rebound' = rebound \ {s}

-----------------------------------------------------------------------------
\* newSession, and Start without a session to resume: nothing is authorized yet.
NewSession(s) ==
  /\ pc \in {"start", "idle"} /\ shown = None /\ calls < MaxCalls
  /\ s \notin opened
  /\ calls' = calls + 1
  /\ session' = s /\ opened' = opened \cup {s}
  /\ binding' = NoContext
  /\ Return(None)
  /\ UNCHANGED <<bridgeVars, envelope, torn, rebound, written, hidden, answered,
                 executed, environment, made>>

\* Start with a session to resume: its envelope is the first thing to decide.
StartResume(s) ==
  /\ pc = "start" /\ calls < MaxCalls /\ s \in opened
  /\ calls' = calls + 1
  /\ call' = [NoCall EXCEPT !.op = "resume", !.target = s]
  /\ Goto(IF permissioned THEN "ask target" ELSE "adopt")
  /\ UNCHANGED <<bridgeVars, sessionVars, hidden, answered, executed, environment, made>>

\* SendMessage: a message, a slash command with a tool, or /resume.
SendMessage(op, s) ==
  /\ pc = "idle" /\ shown = None /\ calls < MaxCalls
  /\ op \in {"message", "slash", "resume"} /\ (op = "resume" => s \in opened)
  /\ calls' = calls + 1
  /\ call' = [NoCall EXCEPT !.op = op, !.target = s]
  /\ Goto(IF permissioned THEN "ask"
          ELSE IF op = "resume" THEN "adopt" ELSE "run")
  /\ UNCHANGED <<bridgeVars, sessionVars, hidden, answered, executed, environment, made>>

\* Faulty variant: a confirmation that failed is not offered again.
FailSilently == Return(None)

\* SendMessage or Confirm failed before it did anything: a request that was not
\* consumed is offered again.
Fail ==
  Return(IF call.op = "approve" THEN Retry(session, call.id) ELSE None)

\* authorizationContext of the live session.
Ask ==
  /\ pc = "ask"
  /\ call' = [call EXCEPT !.context = provider]
  /\ Goto("bind")
  /\ UNCHANGED <<bridgeVars, sessionVars, hidden, answered, executed, environment, calls, made>>

\* bindAuthorizationContext: once per live session.
Bind ==
  /\ pc = "bind"
  /\ IF binding \in {NoContext, call.context}
     THEN binding' = call.context /\ Goto("save") /\ UNCHANGED call
     ELSE Fail /\ UNCHANGED binding
  /\ UNCHANGED <<bridgeVars, session, envelope, opened, torn, rebound, written,
                 hidden, answered, executed, environment, calls, made>>

Write(s, context) ==
  /\ envelope' = [envelope EXCEPT ![s] = [context |-> context, at |-> written + 1]]
  /\ written' = written + 1

AfterSave == CASE call.op = "resume" -> "ask target"
               [] call.op = "approve" -> "expect"
               [] OTHER -> "run"

\* BindAuthorization: written once; a later bind agrees with it or fails.
Save ==
  /\ pc = "save"
  /\ IF envelope[session] = NoEnvelope
     THEN Write(session, binding) /\ Agreed(session) /\ Goto(AfterSave) /\ UNCHANGED call
     ELSE /\ UNCHANGED <<envelope, written>>
          /\ IF envelope[session].context = binding
             THEN Agreed(session) /\ Goto(AfterSave) /\ UNCHANGED call
             ELSE Fail /\ UNCHANGED <<torn, rebound>>
  /\ UNCHANGED <<bridgeVars, session, binding, opened,
                 hidden, answered, executed, environment, calls, made>>

\* BindAuthorization could not write the envelope.
SaveFails ==
  /\ pc = "save" /\ envelope[session] = NoEnvelope /\ Fail
  /\ UNCHANGED <<bridgeVars, sessionVars, hidden, answered, executed, environment, calls, made>>

-----------------------------------------------------------------------------
\* The agent of an unrestricted program has every tool; a slash command is one.
Requests ==
  LET most == IF call.op = "slash" THEN 1 ELSE IF permissioned THEN 0 ELSE 2
  IN {[i \in 1 .. n |-> [id |-> made + i, session |-> session, rescopes |-> kind[i]]] :
        n \in {n \in 0 .. most : made + n <= MaxRequests}, kind \in [1 .. 2 -> BOOLEAN]}

\* The agent, or the tool of the command, runs: it may request side effects, and
\* it may fail otherwise.  An error that is not of a pending request is the last
\* event of the agent's answer, but not of the command's.
Run(requests, fails) ==
  /\ pc = "run"
  /\ call.op = "slash" /\ requests # <<>> => ~fails
  /\ LET now == Enqueue(requests)
         offer == Offer(session, now.queue, now.pending)
         covered == fails /\ call.op = "message" /\ offer # None
     IN /\ queue' = now.queue /\ pending' = now.pending
        /\ made' = made + Len(requests)
        /\ emitted' = emitted \cup ({offer} \ {None})
        /\ hidden' = hidden \cup (IF covered THEN {offer} ELSE {})
        /\ Return(IF covered THEN None ELSE offer)
  /\ UNCHANGED <<sessionVars, answered, executed, environment, calls>>

-----------------------------------------------------------------------------
\* authorizeSessionResume asks for the context of the session to resume ...
AskTarget ==
  /\ pc = "ask target"
  /\ call' = [call EXCEPT !.context = provider]
  /\ Goto("authorize")
  /\ UNCHANGED <<bridgeVars, sessionVars, hidden, answered, executed, environment, calls, made>>

\* ValidateFor
Authorized(s, context) == envelope[s] # NoEnvelope /\ envelope[s].context = context

\* ... which its envelope has to agree with.
Authorize ==
  /\ pc = "authorize"
  /\ IF Authorized(call.target, call.context)
     THEN call' = [call EXCEPT !.expected = envelope[call.target]] /\ Goto("adopt")
     ELSE /\ pc' = IF session = None THEN "start" ELSE "idle"
          /\ call' = NoCall /\ shown' = None
  /\ UNCHANGED <<bridgeVars, sessionVars, hidden, answered, executed, environment, calls, made>>

\* The session becomes the live one, with the context it was authorized for.
Adopt ==
  /\ pc = "adopt"
  /\ session' = call.target /\ binding' = call.context
  /\ IF envelope[call.target] = call.expected
     THEN Agreed(call.target) ELSE UNCHANGED <<torn, rebound>>
  /\ Return(None)
  /\ UNCHANGED <<bridgeVars, envelope, opened, written, hidden, answered,
                 executed, environment, calls, made>>

-----------------------------------------------------------------------------
Answer(id, approved) ==
  Append(answered, [id |-> id, session |-> session, approved |-> approved])

\* Confirm without approval: the request is consumed and nothing is executed.
Reject ==
  /\ pc = "idle" /\ shown # None /\ calls < MaxCalls /\ IsPending(session, shown)
  /\ calls' = calls + 1
  /\ queue' = Consume(shown).queue /\ pending' = Consume(shown).pending
  /\ answered' = Answer(shown, FALSE)
  /\ call' = NoCall /\ Goto("offer")
  /\ UNCHANGED <<emitted, sessionVars, hidden, executed, environment, made>>

\* Confirm with approval.
Approve ==
  /\ pc = "idle" /\ shown # None /\ calls < MaxCalls
  /\ calls' = calls + 1
  /\ call' = [NoCall EXCEPT !.op = "approve", !.id = shown]
  /\ Goto(IF permissioned THEN "ask" ELSE "execute")
  /\ UNCHANGED <<bridgeVars, sessionVars, hidden, answered, executed, environment, made>>

\* withSessionAuthorizationExpectation: the envelope a rebind will replace.
Expect ==
  /\ pc = "expect"
  /\ IF Authorized(session, call.context)
     THEN /\ call' = [call EXCEPT !.expected = envelope[session]] /\ Goto("execute")
          /\ Agreed(session)
     ELSE Fail /\ UNCHANGED <<torn, rebound>>
  /\ UNCHANGED <<bridgeVars, session, binding, envelope, opened, written, hidden, answered,
                 executed, environment, calls, made>>

\* SideEffectBridge.Confirm: consumed first, then executed, with or without success;
\* an artifact scope that changed is what the provider answers from now on.
Execute(ok, scope) ==
  /\ pc = "execute" /\ IsPending(session, call.id)
  /\ queue' = Consume(call.id).queue /\ pending' = Consume(call.id).pending
  /\ answered' = Answer(call.id, TRUE)
  /\ executed' = Append(executed, call.id)
  /\ LET rescopes == permissioned /\ ok /\ RequestOf(call.id).rescopes
     IN /\ rescopes \/ scope = provider.scope
        /\ provider' = [provider EXCEPT !.scope = scope]
        /\ Goto(IF rescopes THEN "refresh" ELSE "offer")
  /\ UNCHANGED <<emitted, sessionVars, hidden, permissioned, changes, call, calls, made>>

\* withPermissionedScopeRefresh: the next scope is looked at, or cannot be.
Refresh(ok) ==
  /\ pc = "refresh"
  /\ Goto(IF ok THEN "ask again" ELSE "offer")
  /\ UNCHANGED <<bridgeVars, sessionVars, hidden, answered, executed, environment,
                 call, calls, made>>

\* RebindSessionAuthorization
AskAgain ==
  /\ pc = "ask again"
  /\ call' = [call EXCEPT !.next = provider]
  /\ Goto("rebind")
  /\ UNCHANGED <<bridgeVars, sessionVars, hidden, answered, executed, environment, calls, made>>

\* Faulty variant: whatever the provider answers is a change of the scope.
AllowsAnyTransition(current, next) == TRUE

\* allowsArtifactScopeTransition: a build changes the scope and nothing else.
AllowsArtifactScopeTransition(current, next) == current.who = next.who

\* Faulty variant: the binding in memory stays.
RebindDiskOnly ==
  /\ pc = "rebind"
  /\ LET next == call.next
     IN IF binding = call.context /\ AllowsArtifactScopeTransition(binding, next)
           /\ binding # next /\ envelope[session] = call.expected
        THEN Write(session, next)
        ELSE UNCHANGED <<envelope, written>>
  /\ Goto("offer")
  /\ UNCHANGED <<bridgeVars, binding, session, opened, torn, rebound, hidden, answered,
                 executed, environment, call, calls, made>>

\* Under the manager's mutex: the binding is the expected one and so is the
\* envelope; then the envelope is replaced, and after it the binding.
Rebind ==
  /\ pc = "rebind"
  /\ LET next == call.next
     IN IF binding = call.context /\ AllowsArtifactScopeTransition(binding, next)
           /\ binding # next /\ envelope[session] = call.expected
        THEN Write(session, next) /\ binding' = next
        ELSE UNCHANGED <<envelope, written, binding>>
  /\ Goto("offer")
  /\ UNCHANGED <<bridgeVars, session, opened, torn, rebound, hidden, answered,
                 executed, environment, call, calls, made>>

\* The envelope was replaced, and the directory could not be synchronized.
RebindTorn ==
  /\ pc = "rebind" /\ changes < MaxChanges
  /\ AllowsArtifactScopeTransition(binding, call.next)
  /\ binding = call.context /\ binding # call.next
  /\ envelope[session] = call.expected
  /\ Write(session, call.next)
  /\ changes' = changes + 1 /\ torn' = torn \cup {session}
  /\ Goto("offer")
  /\ UNCHANGED <<bridgeVars, session, binding, opened, rebound, hidden, answered, executed,
                 permissioned, provider, call, calls, made>>

\* The answer of a confirmation ends with the next offer.
OfferNext ==
  /\ pc = "offer"
  /\ LET offer == Offer(session, queue, pending)
     IN emitted' = emitted \cup ({offer} \ {None}) /\ Return(offer)
  /\ UNCHANGED <<queue, pending, sessionVars, hidden, answered, executed,
                 environment, calls, made>>

-----------------------------------------------------------------------------
\* Another identity, or another published scope.
ProviderChanges(context) ==
  /\ changes < MaxChanges /\ permissioned /\ context # provider
  /\ provider' = context /\ changes' = changes + 1
  /\ UNCHANGED <<bridgeVars, sessionVars, clientVars, permissioned, pc, call, calls, made>>

\* Another program with this session live rebinds it after a build of its own.
OtherProgramRebinds(s, scope) ==
  /\ changes < MaxChanges /\ permissioned
  /\ envelope[s] # NoEnvelope /\ scope # envelope[s].context.scope
  /\ Write(s, [envelope[s].context EXCEPT !.scope = scope])
  /\ changes' = changes + 1 /\ rebound' = rebound \cup {s}
  /\ UNCHANGED <<bridgeVars, session, binding, opened, torn, clientVars, permissioned,
                 provider, pc, call, calls, made>>

\* The program ends and is started again: the bridge and the binding are gone.
Restart ==
  /\ pc = "idle" /\ session # None /\ changes < MaxChanges
  /\ changes' = changes + 1
  /\ pc' = "start" /\ session' = None /\ binding' = NoContext
  /\ queue' = <<>> /\ pending' = {} /\ emitted' = {} /\ hidden' = {} /\ shown' = None
  /\ UNCHANGED <<envelope, opened, torn, rebound, written, answered,
                 executed, permissioned, provider, call, calls, made>>

AtRest == pc \in {"start", "idle"} /\ UNCHANGED vars

Next ==
  \/ \E s \in Session : NewSession(s) \/ StartResume(s)
  \/ \E op \in Op, s \in Session : SendMessage(op, s)
  \/ Ask \/ Bind \/ Save \/ SaveFails
  \/ \E requests \in Requests, fails \in BOOLEAN : Run(requests, fails)
  \/ AskTarget \/ Authorize \/ Adopt
  \/ Reject \/ Approve \/ Expect
  \/ \E ok \in BOOLEAN, scope \in Scope : Execute(ok, scope)
  \/ \E ok \in BOOLEAN : Refresh(ok)
  \/ AskAgain \/ Rebind \/ RebindTorn \/ OfferNext
  \/ \E context \in Context : ProviderChanges(context)
  \/ \E s \in Session, scope \in Scope : OtherProgramRebinds(s, scope)
  \/ Restart
  \/ AtRest

Spec == Init /\ [][Next]_vars

-----------------------------------------------------------------------------
Own == Waiting(session, pending)

(***************************************************************************)
(* Between two calls exactly one request of the live session is open, the  *)
(* oldest that nobody answered, and the terminal shows it: also after a    *)
(* confirmation that failed before it consumed the request, after a        *)
(* resumed session and after an executed tool that failed.  An error that  *)
(* followed the offer in the agent's answer covers it for good: it stays   *)
(* open and unanswered and holds back every later request of its session   *)
(* until the program is started again; no other failure loses an offer.    *)
(***************************************************************************)
FirstIsShown ==
  /\ hidden \subseteq {r.id : r \in pending}
  /\ pc = "idle" =>
       IF Own = {} THEN shown = None
       ELSE LET first == Min(Own)
            IN /\ Own \cap emitted = {first}
               /\ shown = IF first \in hidden THEN None ELSE first

(***************************************************************************)
(* The requests of a session are answered in their order and once each,    *)
(* and what was executed are the approved ones in the order of approval.   *)
(***************************************************************************)
AnsweredInOrder ==
  /\ \A i, j \in DOMAIN answered : i < j =>
       /\ answered[i].id # answered[j].id
       /\ answered[i].session = answered[j].session => answered[i].id < answered[j].id
  /\ Range(executed) = {a.id : a \in {a \in Range(answered) : a.approved}}
  /\ \A i, j \in DOMAIN executed : i < j =>
       \E k, l \in DOMAIN answered :
         k < l /\ answered[k].id = executed[i] /\ answered[l].id = executed[j]

(***************************************************************************)
(* Whatever the provider answers and whichever program rebinds it, a       *)
(* session stays with the principal, model, agent and task it was bound    *)
(* for first: a change of scope changes the scope alone.                   *)
(***************************************************************************)
SessionKeepsPrincipal ==
  [][\A s \in Session : envelope[s] # NoEnvelope =>
        envelope'[s] # NoEnvelope /\ envelope'[s].context.who = envelope[s].context.who]_vars

(***************************************************************************)
(* The agent of a permissioned session runs, and an approved side effect   *)
(* is executed, only under the context its envelope has, whatever failed   *)
(* before: also after a bind that could not write the envelope and after a *)
(* rebind of this program that was torn after it replaced the envelope.    *)
(* Between two calls memory and disk differ only after one of these two    *)
(* (in the first there is no envelope yet).  Both hold unless another      *)
(* program rebound the session after the call last compared the two.       *)
(***************************************************************************)
BoundAsOnDisk ==
  permissioned /\ session \notin rebound =>
    /\ pc \in {"run", "execute"} => Authorized(session, binding)
    /\ pc = "idle" =>
         \/ session \in torn
         \/ envelope[session] = NoEnvelope
         \/ envelope[session].context = binding

=============================================================================
