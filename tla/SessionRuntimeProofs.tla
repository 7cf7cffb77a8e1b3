------------------------ MODULE SessionRuntimeProofs ------------------------
(***************************************************************************)
(* Proofs about SessionRuntime and the bridge it composes, for any         *)
(* sessions, principals and scopes and any bounds.  The invariant has two  *)
(* halves that a step preserves each for itself: what a label of the call  *)
(* says of the binding in memory and the envelope on disk (Bindings), and  *)
(* what it says of the requests of the live session (Phases), which rests  *)
(* on the books of the bridge (Books).                                     *)
(***************************************************************************)
EXTENDS SessionRuntime, SequenceTheorems, FiniteSetTheorems, WellFoundedInduction, TLAPS

\* What a label says of the call under way.
Control ==
  /\ pc \in {"start", "idle"} => call.op = "none"
  /\ pc = "run" => call.op \in {"message", "slash"}
  /\ pc \in {"ask target", "authorize", "adopt"} => call.op = "resume"
  /\ pc \in {"expect", "execute", "refresh", "ask again", "rebind"} => call.op = "approve"
  /\ pc \in {"ask", "bind", "save"} => call.op # "none"
  /\ pc = "offer" => call.op \in {"approve", "none"}
  /\ call.op = "resume" => call.target \in opened
  /\ call.op = "approve" => call.id # None
  /\ pc = "start" => session = None
  /\ pc \notin {"start", "ask target", "authorize", "adopt"} => session # None
  /\ session # None => session \in opened

\* The steps that only a permissioned program takes.
Authorizing == {"ask", "bind", "save", "ask target", "authorize", "expect",
                "refresh", "ask again", "rebind"}

\* The steps of a confirmation that has not consumed its request, and of one that has.
Unconsumed == {"ask", "bind", "save", "expect", "execute"}
Consumed == {"refresh", "ask again", "rebind", "offer"}

\* Memory and disk agree, and the call knows what it will replace or adopt.
Bindings ==
  /\ pc \in Authorizing => permissioned
  /\ \A s \in Session \ opened : envelope[s] = NoEnvelope
  /\ pc \in {"bind", "authorize"} => call.context \in Context
  /\ pc = "save" => call.context \in Context
  /\ permissioned /\ pc \in {"save", "expect"} => binding = call.context
  /\ pc = "rebind" => call.next \in Context
  /\ permissioned /\ session # None =>
       /\ binding = NoContext => envelope[session] = NoEnvelope
       /\ \/ session \in torn \cup rebound
          \/ envelope[session] = NoEnvelope
          \/ envelope[session].context = binding
  /\ permissioned /\ pc \in {"adopt", "execute", "refresh", "ask again", "rebind"} =>
       call.expected # NoEnvelope /\ call.expected.context = call.context
  /\ permissioned /\ pc = "adopt" =>
       call.target \in rebound \/ envelope[call.target] = call.expected
  /\ permissioned /\ pc \in {"run", "execute"} =>
       session \in rebound \/ Authorized(session, binding)

\* The queue has the requests that wait, each once, the oldest first.
Ordered(ids, requests) ==
  /\ \A i, j \in DOMAIN ids : i < j => ids[i] < ids[j]
  /\ \A i \in DOMAIN ids : \E r \in requests : r.id = ids[i]
  /\ \A r \in requests : \E i \in DOMAIN ids : ids[i] = r.id
  /\ \A r, q \in requests : r.id = q.id => r = q

\* What was requested, offered or answered has a number that was given out.
Numbered ==
  /\ \A r \in pending : r.id <= made
  /\ \A id \in emitted \cup hidden : id <= made
  /\ \A i \in DOMAIN answered : answered[i].id <= made

\* What waits was not answered, and no later request of its session was.
AnsweredBefore ==
  \A i \in DOMAIN answered, r \in pending :
    answered[i].id # r.id /\ (answered[i].session = r.session => answered[i].id < r.id)

\* An offer that an error covered stays open and waits, as nobody can answer it.
CoveredWaits == hidden \subseteq emitted /\ hidden \subseteq {r.id : r \in pending}

Books ==
  /\ Ordered(queue, pending)
  /\ Numbered
  /\ AnsweredBefore
  /\ AnsweredInOrder
  /\ CoveredWaits

\* The oldest request of the session was offered, and no other of it.
OnlyOffer(s, id) ==
  /\ id \in Waiting(s, pending) /\ id \in emitted
  /\ \A j \in Waiting(s, pending) : id <= j /\ (j \in emitted => j = id)

\* Nothing is to be confirmed in the session, or an error covers what is.
Quiet(s) == Waiting(s, pending) = {} \/ \E id \in hidden : OnlyOffer(s, id)

\* The live session has an offer that no error covers.
Open(id) == id \notin hidden /\ OnlyOffer(session, id)

\* None of the requests of the live session was offered.
NothingOpen == \A id \in Waiting(session, pending) : id \notin emitted

\* Where a call stands and what is open in the sessions.
Phases ==
  /\ \A s \in Session : s # session => Quiet(s)
  /\ pc = "idle" => IF shown = None THEN Quiet(session) ELSE Open(shown)
  /\ call.op \in {"message", "slash", "resume"} => Quiet(session)
  /\ call.op = "approve" /\ pc \in Unconsumed => Open(call.id)
  /\ pc \in Consumed => NothingOpen

IInv == TypeOK /\ Control /\ Bindings /\ Books /\ Phases

-----------------------------------------------------------------------------
(***************************************************************************)
(* Types                                                                   *)
(***************************************************************************)

\* None stands for no request, no session and no principal, and nothing else.
LEMMA NoneIsNothing ==
  /\ None \notin Session /\ None \notin 1 .. MaxRequests
  /\ NoContext \notin Context /\ NoEnvelope \notin Envelope
  /\ MaxRequests \in Nat
BY SideEffectBridgeAssumption, SessionRuntimeAssumption DEF Context, NoContext, Envelope, NoEnvelope

LEMMA NoCallType == NoCall \in Call
BY DEF NoCall, Call, Op

LEMMA InitTyped == Init => TypeOK
<1> SUFFICES ASSUME Init PROVE TypeOK
  OBVIOUS
<1>1. /\ calls \in 0 .. MaxCalls /\ changes \in 0 .. MaxChanges
      /\ written \in Nat /\ made \in 0 .. MaxRequests
  BY SessionRuntimeAssumption, SideEffectBridgeAssumption DEF Init
<1>2. BridgeTypeOK
  BY DEF Init, BridgeInit, BridgeTypeOK
<1>3. call \in Call
  BY NoCallType DEF Init
<1>4. answered \in Seq(Answers) /\ executed \in Seq(1 .. MaxRequests)
  BY DEF Init
<1> QED
  BY <1>1, <1>2, <1>3, <1>4 DEF Init, TypeOK

\* What the bridge returns has the types of the bridge.
LEMMA EnqueueTyped ==
  ASSUME TypeOK, session # None, NEW requests \in Requests
  PROVE  /\ requests \in Seq(Request)
         /\ made + Len(requests) \in 0 .. MaxRequests
         /\ \A i \in 1 .. Len(requests) :
              requests[i].id = made + i /\ requests[i].session = session
         /\ Enqueue(requests).queue \in Seq(1 .. MaxRequests)
         /\ Enqueue(requests).pending \subseteq Request
         /\ Enqueue(requests).queue = queue \o [i \in 1 .. Len(requests) |-> made + i]
         /\ Enqueue(requests).pending = pending \cup {requests[i] : i \in 1 .. Len(requests)}
<1> DEFINE most == IF call.op = "slash" THEN 1 ELSE IF permissioned THEN 0 ELSE 2
           R(n, kind) == [i \in 1 .. n |->
                            [id |-> made + i, session |-> session, rescopes |-> kind[i]]]
<1>1. PICK n \in 0 .. most, kind \in [1 .. 2 -> BOOLEAN] :
        made + n <= MaxRequests /\ requests = R(n, kind)
  BY DEF Requests
<1>2. /\ n \in Nat /\ n <= 2 /\ made \in Nat /\ made + n <= MaxRequests /\ MaxRequests \in Nat
      /\ session \in Session
  <2>1. most \in {0, 1, 2}
    OBVIOUS
  <2>2. made \in 0 .. MaxRequests /\ session \in Session
    BY DEF TypeOK
  <2> HIDE DEF most, R
  <2> QED
    BY <1>1, <2>1, <2>2, NoneIsNothing
<1>3. \A i \in 1 .. n : made + i \in 1 .. MaxRequests /\ kind[i] \in BOOLEAN
  BY <1>1, <1>2
<1>4. \A i \in 1 .. n : R(n, kind)[i] \in Request
  BY <1>2, <1>3 DEF Request
<1>5. requests \in Seq(Request) /\ Len(requests) = n /\ DOMAIN requests = 1 .. n
  BY <1>1, <1>2, <1>4
<1>6. \A i \in 1 .. n : requests[i].id = made + i /\ requests[i].session = session
  BY <1>1
<1>7. [i \in DOMAIN requests |-> requests[i].id] = [i \in 1 .. n |-> made + i]
  BY <1>5, <1>6
<1>8. [i \in 1 .. n |-> made + i] \in Seq(1 .. MaxRequests)
  BY <1>2, <1>3
<1>9. queue \in Seq(1 .. MaxRequests) /\ pending \subseteq Request
  BY DEF TypeOK, BridgeTypeOK
<1>10. queue \o [i \in 1 .. n |-> made + i] \in Seq(1 .. MaxRequests)
  BY <1>8, <1>9, ConcatProperties
<1>11. \A i \in 1 .. n : requests[i] \in Request
  BY <1>1, <1>4
<1> HIDE DEF R, most
<1> QED
  BY <1>2, <1>5, <1>6, <1>7, <1>9, <1>10, <1>11 DEF Enqueue

\* A sequence without one of its elements, where it occurs once.
LEMMA RemoveFirstIs ==
  ASSUME NEW S, NEW q \in Seq(S), NEW k \in 1 .. Len(q),
         \A i \in 1 .. Len(q) : q[i] = q[k] => i = k
  PROVE  /\ RemoveFirst(q, q[k]) \in Seq(S)
         /\ Len(RemoveFirst(q, q[k])) = Len(q) - 1
         /\ \A i \in 1 .. Len(q) - 1 :
              RemoveFirst(q, q[k])[i] = IF i < k THEN q[i] ELSE q[i + 1]
<1> DEFINE a == SubSeq(q, 1, k - 1)
           b == SubSeq(q, k + 1, Len(q))
<1>1. Len(q) \in Nat /\ k \in Nat /\ 1 <= k /\ k <= Len(q)
  BY LenProperties
<1>2. {i \in 1 .. Len(q) : q[i] = q[k]} = {k}
  OBVIOUS
<1>3. Min({k}) = k
  BY <1>1 DEF Min
<1>4. RemoveFirst(q, q[k]) = a \o b
  BY <1>2, <1>3 DEF RemoveFirst, RemoveAt, SelectInSeq
<1>5. /\ a \in Seq(S) /\ Len(a) = k - 1
      /\ \A i \in 1 .. k - 1 : a[i] = q[i]
  <2>1. \A i \in 1 .. k - 1 : q[i] \in S
    BY <1>1, ElementOfSeq
  <2> QED
    BY <1>1, <2>1, SubSeqProperties
<1>6. /\ b \in Seq(S) /\ Len(b) = Len(q) - k
      /\ \A i \in 1 .. Len(q) - k : b[i] = q[i + k]
  <2>1. \A i \in k + 1 .. Len(q) : q[i] \in S
    BY <1>1, ElementOfSeq
  <2> QED
    BY <1>1, <2>1, SubSeqProperties
<1> HIDE DEF a, b
<1>7. a \o b \in Seq(S) /\ Len(a \o b) = Len(q) - 1
  <2>1. a \o b \in Seq(S) /\ Len(a \o b) = Len(a) + Len(b)
    BY <1>5, <1>6, ConcatProperties
  <2> QED
    BY <1>1, <1>5, <1>6, <2>1
<1>8. ASSUME NEW i \in 1 .. Len(q) - 1
      PROVE  (a \o b)[i] = IF i < k THEN q[i] ELSE q[i + 1]
  <2>1. (a \o b)[i] = IF i <= k - 1 THEN a[i] ELSE b[i - (k - 1)]
    BY <1>1, <1>5, <1>6, ConcatProperties
  <2>2. CASE i < k
    BY <1>1, <1>5, <2>1, <2>2
  <2>3. CASE ~(i < k)
    <3>1. ~(i <= k - 1) /\ i - (k - 1) \in 1 .. Len(q) - k /\ (i - (k - 1)) + k = i + 1
      BY <1>1, <2>3
    <3> QED
      BY <1>6, <2>1, <2>3, <3>1
  <2> QED
    BY <2>2, <2>3
<1> QED
  BY <1>4, <1>7, <1>8

LEMMA ConsumeTyped ==
  ASSUME TypeOK, Ordered(queue, pending), NEW id, NEW s, IsPending(s, id)
  PROVE  /\ Consume(id).queue \in Seq(1 .. MaxRequests)
         /\ Consume(id).pending \subseteq Request
         /\ Ordered(Consume(id).queue, Consume(id).pending)
         /\ id \in 1 .. MaxRequests
<1> DEFINE q == Consume(id).queue
           p == Consume(id).pending
<1>1. /\ queue \in Seq(1 .. MaxRequests) /\ pending \subseteq Request
      /\ Len(queue) \in Nat /\ DOMAIN queue = 1 .. Len(queue)
      /\ \A i \in 1 .. Len(queue) : queue[i] \in 1 .. MaxRequests
  BY ElementOfSeq, LenProperties DEF TypeOK, BridgeTypeOK
<1>2. PICK k \in 1 .. Len(queue) : queue[k] = id
  BY <1>1 DEF IsPending, Ordered
<1>3. \A i, j \in 1 .. Len(queue) : i < j => queue[i] < queue[j]
  BY <1>1 DEF Ordered
<1>4. \A i \in 1 .. Len(queue) : queue[i] = queue[k] => i = k
  BY <1>1, <1>3
<1>5. /\ q \in Seq(1 .. MaxRequests) /\ Len(q) = Len(queue) - 1
      /\ \A i \in 1 .. Len(queue) - 1 : q[i] = IF i < k THEN queue[i] ELSE queue[i + 1]
  BY <1>1, <1>2, <1>4, RemoveFirstIs DEF Consume
<1>6. DOMAIN q = 1 .. Len(queue) - 1
  BY <1>5, LenProperties
<1>7. p = {r \in pending : r.id # id}
  BY DEF Consume
<1> HIDE DEF p, q
<1>8. ASSUME NEW i \in DOMAIN q, NEW j \in DOMAIN q, i < j PROVE q[i] < q[j]
  <2> DEFINE at(n) == IF n < k THEN n ELSE n + 1
  <2>1. i \in 1 .. Len(queue) - 1 /\ j \in 1 .. Len(queue) - 1
    BY <1>6
  <2>2. q[i] = queue[at(i)] /\ q[j] = queue[at(j)]
    BY <1>5, <2>1
  <2>3. at(i) \in 1 .. Len(queue) /\ at(j) \in 1 .. Len(queue) /\ at(i) < at(j)
    BY <1>1, <1>8, <2>1
  <2> HIDE DEF at
  <2> QED
    BY <1>3, <2>2, <2>3
<1>9. ASSUME NEW i \in DOMAIN q PROVE \E r \in p : r.id = q[i]
  <2>1. PICK j \in 1 .. Len(queue) : q[i] = queue[j] /\ j # k
    BY <1>1, <1>5, <1>6
  <2>2. PICK r \in pending : r.id = queue[j]
    BY <1>1 DEF Ordered
  <2> QED
    BY <1>2, <1>4, <1>7, <2>1, <2>2
<1>10. ASSUME NEW r \in p PROVE \E i \in DOMAIN q : q[i] = r.id
  <2>1. PICK j \in 1 .. Len(queue) : queue[j] = r.id
    BY <1>1, <1>7 DEF Ordered
  <2>2. j # k
    BY <1>2, <1>7, <2>1
  <2>3. CASE j < k
    BY <1>1, <1>5, <1>6, <2>1, <2>3
  <2>4. CASE j > k
    <3>1. j - 1 \in 1 .. Len(queue) - 1 /\ ~(j - 1 < k) /\ (j - 1) + 1 = j
      BY <1>1, <2>4
    <3> QED
      BY <1>5, <1>6, <2>1, <3>1
  <2> QED
    BY <1>1, <2>2, <2>3, <2>4
<1>11. \A r, x \in p : r.id = x.id => r = x
  BY <1>7 DEF Ordered
<1>12. Ordered(q, p)
  BY <1>8, <1>9, <1>10, <1>11 DEF Ordered
<1> QED
  BY <1>1, <1>2, <1>5, <1>7, <1>12 DEF q, p

LEMMA EnqueueOrdered ==
  ASSUME TypeOK, Ordered(queue, pending), Numbered, session # None, NEW requests \in Requests
  PROVE  Ordered(Enqueue(requests).queue, Enqueue(requests).pending)
<1> DEFINE n == Len(requests)
           new == [i \in 1 .. n |-> made + i]
           q == Enqueue(requests).queue
           p == Enqueue(requests).pending
           m == Len(queue)
<1>1. /\ n \in Nat /\ m \in Nat /\ made \in Nat
      /\ \A i \in 1 .. n : requests[i].id = made + i
      /\ q = queue \o new
      /\ p = pending \cup {requests[i] : i \in 1 .. n}
  <2>1. made \in Nat /\ queue \in Seq(1 .. MaxRequests)
    <3>1. made \in 0 .. MaxRequests /\ queue \in Seq(1 .. MaxRequests)
      BY DEF TypeOK, BridgeTypeOK
    <3> QED
      BY <3>1, NoneIsNothing
  <2> QED
    BY <2>1, EnqueueTyped, LenProperties
<1>2. /\ DOMAIN queue = 1 .. m /\ DOMAIN q = 1 .. m + n
      /\ \A i \in 1 .. m : queue[i] \in Nat
      /\ \A i \in 1 .. m + n : q[i] = IF i <= m THEN queue[i] ELSE made + (i - m)
  <2>1. queue \in Seq(Nat) /\ new \in Seq(Nat) /\ Len(new) = n
    <3>1. queue \in Seq(1 .. MaxRequests)
      BY DEF TypeOK, BridgeTypeOK
    <3>2. queue \in Seq(Nat)
      <4>1. 1 .. MaxRequests \subseteq Nat
        BY NoneIsNothing
      <4> QED
        BY <3>1, <4>1, SeqMonotonic
    <3>3. \A i \in 1 .. n : made + i \in Nat
      BY <1>1
    <3> QED
      BY <1>1, <3>2, <3>3
  <2>2. \A i \in 1 .. m + n : q[i] = IF i <= m THEN queue[i] ELSE new[i - m]
    BY <1>1, <2>1, ConcatProperties
  <2>3. DOMAIN q = 1 .. m + n
    BY <1>1, <2>1, ConcatProperties, LenProperties
  <2> QED
    BY <1>1, <2>1, <2>2, <2>3, LenProperties, ElementOfSeq
<1>3. \A r \in pending : r.id <= made /\ r.id \in Nat
  <2>1. \A r \in pending : r.id \in 1 .. MaxRequests
    BY DEF TypeOK, BridgeTypeOK, Request
  <2> QED
    BY <2>1, NoneIsNothing DEF Numbered
<1>4. \A i \in 1 .. m : queue[i] <= made
  BY <1>2, <1>3 DEF Ordered
<1> HIDE DEF n, new, q, p, m
<1>5. ASSUME NEW i \in DOMAIN q, NEW j \in DOMAIN q, i < j PROVE q[i] < q[j]
  <2>0. i \in 1 .. m + n /\ j \in 1 .. m + n /\ m \in Nat /\ n \in Nat
    BY <1>1, <1>2
  <2>1. CASE j <= m
    <3>1. i \in 1 .. m /\ j \in 1 .. m /\ q[i] = queue[i] /\ q[j] = queue[j]
      BY <1>1, <1>2, <1>5, <2>1
    <3> QED
      BY <1>2, <1>5, <3>1 DEF Ordered
  <2>2. CASE i <= m /\ j > m
    <3>1. i \in 1 .. m /\ q[i] = queue[i] /\ j - m \in 1 .. n /\ q[j] = made + (j - m)
      BY <1>1, <1>2, <2>2
    <3>2. queue[i] <= made /\ queue[i] \in Nat
      BY <1>2, <1>4, <3>1
    <3> QED
      BY <1>1, <3>1, <3>2
  <2>3. CASE i > m
    <3>0. ~(i <= m) /\ ~(j <= m)
      BY <1>5, <2>0, <2>3
    <3>1. q[i] = made + (i - m) /\ q[j] = made + (j - m)
      BY <1>2, <2>0, <3>0
    <3> QED
      BY <1>1, <1>5, <2>0, <3>1
  <2> QED
    BY <2>0, <2>1, <2>2, <2>3
<1>6. ASSUME NEW i \in DOMAIN q PROVE \E r \in p : r.id = q[i]
  <2>1. CASE i <= m
    <3>1. i \in DOMAIN queue /\ q[i] = queue[i]
      BY <1>1, <1>2, <2>1
    <3> QED
      BY <1>1, <3>1 DEF Ordered
  <2>2. CASE i > m
    <3>1. i - m \in 1 .. n /\ q[i] = made + (i - m)
      BY <1>1, <1>2, <2>2
    <3> QED
      BY <1>1, <3>1
  <2>3. i <= m \/ i > m
    <3>1. m \in Nat /\ n \in Nat
      BY <1>1
    <3>2. i \in 1 .. m + n
      BY <1>2
    <3> QED
      BY <3>1, <3>2
  <2> QED
    BY <2>1, <2>2, <2>3
<1>7. ASSUME NEW r \in p PROVE \E i \in DOMAIN q : q[i] = r.id
  <2>1. CASE r \in pending
    <3>1. PICK i \in 1 .. m : queue[i] = r.id
      BY <1>2, <2>1 DEF Ordered
    <3>2. i \in 1 .. m + n /\ i <= m
      BY <1>1
    <3> QED
      BY <1>2, <3>1, <3>2
  <2>2. ASSUME NEW k \in 1 .. n, r = requests[k] PROVE \E i \in DOMAIN q : q[i] = r.id
    <3>1. m + k \in 1 .. m + n /\ ~(m + k <= m) /\ (m + k) - m = k
      BY <1>1
    <3> QED
      BY <1>1, <1>2, <2>2, <3>1
  <2> QED
    BY <1>1, <2>1, <2>2
<1>8. ASSUME NEW r \in p, NEW x \in p, r.id = x.id PROVE r = x
  <2>1. \A y \in p : y \in pending \/ \E k \in 1 .. n : y = requests[k] /\ y.id = made + k
    BY <1>1
  <2>2. CASE r \in pending /\ x \in pending
    BY <1>8, <2>2 DEF Ordered
  <2>3. CASE ~(r \in pending /\ x \in pending)
    BY <1>1, <1>3, <1>8, <2>1, <2>3
  <2> QED
    BY <2>2, <2>3
<1>9. Ordered(q, p)
  BY <1>5, <1>6, <1>7, <1>8 DEF Ordered
<1> QED
  BY <1>9 DEF q, p

\* A set of naturals that is not empty has a smallest member.
LEMMA HasMinimum ==
  ASSUME NEW N, N \subseteq Nat, N # {}
  PROVE  \E n \in N : \A m \in N : n <= m
<1> DEFINE Below == {0 .. n : n \in N}
<1>1. Below \subseteq FiniteSubsetsOf(Nat) /\ Below # {}
  <2>1. ASSUME NEW n \in N PROVE 0 .. n \in FiniteSubsetsOf(Nat)
    BY FS_Interval DEF FiniteSubsetsOf
  <2> QED
    BY <2>1
<1>2. PICK b \in Below : \A a \in Below : <<a, b>> \notin StrictSubsetOrdering(Nat)
  <2> HIDE DEF Below
  <2> QED
    BY <1>1, FS_StrictSubsetOrderingWellFounded, WFMin
<1>3. PICK n \in N : b = 0 .. n
  OBVIOUS
<1>4. ASSUME NEW m \in N, m < n PROVE FALSE
  <2>1. 0 .. m \in Below /\ 0 .. m \in SUBSET Nat /\ b \in SUBSET Nat
    BY <1>3
  <2>2. 0 .. m \subseteq b /\ n \in b /\ n \notin 0 .. m
    BY <1>3, <1>4
  <2>3. <<0 .. m, b>> \in StrictSubsetOrdering(Nat)
    BY <2>1, <2>2 DEF StrictSubsetOrdering
  <2> QED
    BY <1>2, <2>1, <2>3
<1> QED
  BY <1>4

\* What is offered is the oldest request of the session, if none is open.
LEMMA OfferIs ==
  ASSUME NEW s, NEW ids \in Seq(1 .. MaxRequests), NEW requests, Ordered(ids, requests)
  PROVE  LET own == Waiting(s, requests)
             offer == Offer(s, ids, requests)
         IN IF own = {} \/ own \cap emitted # {} THEN offer = None
            ELSE offer \in own /\ offer \in 1 .. MaxRequests /\ \A j \in own : offer <= j
<1> DEFINE own == Waiting(s, requests)
           at == {i \in DOMAIN ids : ids[i] \in own}
<1>1. /\ Len(ids) \in Nat /\ DOMAIN ids = 1 .. Len(ids)
      /\ \A i \in 1 .. Len(ids) : ids[i] \in 1 .. MaxRequests
  BY ElementOfSeq, LenProperties
<1>2. \A id \in own : \E i \in DOMAIN ids : ids[i] = id
  BY DEF Waiting, Ordered
<1>3. at = {} <=> own = {}
  BY <1>2
<1>4. CASE own = {} \/ own \cap emitted # {}
  BY <1>3, <1>4 DEF Offer
<1>5. CASE own # {} /\ own \cap emitted = {}
  <2>1. at \subseteq Nat /\ at # {}
    BY <1>1, <1>3, <1>5
  <2>2. \E n \in at : \A m \in at : n <= m
    BY <2>1, HasMinimum
  <2> DEFINE first == Min(at)
  <2>3. first \in at /\ \A m \in at : first <= m
    BY <2>2 DEF Min
  <2>4. Offer(s, ids, requests) = ids[first]
    BY <1>5, <2>1 DEF Offer
  <2> HIDE DEF first
  <2>5. ASSUME NEW j \in own PROVE ids[first] <= j
    <3>1. PICK i \in at : ids[i] = j
      BY <1>2
    <3>2. first <= i /\ first \in Nat /\ i \in Nat
      BY <2>1, <2>3
    <3>3. CASE first = i
      BY <1>1, <3>1, <3>3
    <3>4. CASE first < i
      <4>1. ids[first] < ids[i]
        BY <2>3, <3>4 DEF Ordered
      <4>2. ids[first] \in Nat /\ ids[i] \in Nat
        BY <1>1, <2>3
      <4> QED
        BY <3>1, <4>1, <4>2
    <3> QED
      BY <3>2, <3>3, <3>4
  <2> QED
    BY <1>1, <1>5, <2>3, <2>4, <2>5
<1> QED
  BY <1>4, <1>5

\* The locals of a call keep their types when one of them is assigned.
LEMMA CallTyped ==
  ASSUME call \in Call
  PROVE  /\ \A c \in Context : [call EXCEPT !.context = c] \in Call /\ [call EXCEPT !.next = c] \in Call
         /\ \A e \in Envelope \cup {NoEnvelope} : [call EXCEPT !.expected = e] \in Call
         /\ \A op \in Op, s \in Session : [NoCall EXCEPT !.op = op, !.target = s] \in Call
         /\ \A id \in 1 .. MaxRequests : [NoCall EXCEPT !.op = "approve", !.id = id] \in Call
<1>1. ASSUME NEW c \in Context
      PROVE  [call EXCEPT !.context = c] \in Call /\ [call EXCEPT !.next = c] \in Call
  BY DEF Call
<1>2. ASSUME NEW e \in Envelope \cup {NoEnvelope} PROVE [call EXCEPT !.expected = e] \in Call
  BY DEF Call
<1>3. ASSUME NEW op \in Op, NEW s \in Session
      PROVE  [NoCall EXCEPT !.op = op, !.target = s] \in Call
  BY NoCallType DEF Call
<1>4. ASSUME NEW id \in 1 .. MaxRequests
      PROVE  [NoCall EXCEPT !.op = "approve", !.id = id] \in Call
  BY NoCallType DEF Call, Op
<1> QED
  BY <1>1, <1>2, <1>3, <1>4

Labels == {"start", "idle", "ask", "bind", "save", "run", "ask target",
           "authorize", "adopt", "expect", "execute", "refresh", "ask again", "rebind", "offer"}

\* Types of what the actions change: a call and its label, an envelope, the books.
CallTypes == pc \in Labels /\ call \in Call /\ shown \in 1 .. MaxRequests \cup {None}

SessionTypes ==
  /\ session \in Session \cup {None} /\ opened \subseteq Session
  /\ binding \in Context \cup {NoContext}
  /\ envelope \in [Session -> Envelope \cup {NoEnvelope}]
  /\ torn \subseteq Session /\ rebound \subseteq Session /\ written \in Nat

BookTypes ==
  /\ BridgeTypeOK /\ hidden \subseteq 1 .. MaxRequests
  /\ answered \in Seq(Answers) /\ executed \in Seq(1 .. MaxRequests)
  /\ made \in 0 .. MaxRequests

BoundTypes ==
  /\ permissioned \in Modes /\ provider \in Context
  /\ calls \in 0 .. MaxCalls /\ changes \in 0 .. MaxChanges

LEMMA TypesAre == TypeOK <=> CallTypes /\ SessionTypes /\ BookTypes /\ BoundTypes
BY DEF TypeOK, CallTypes, SessionTypes, BookTypes, BoundTypes, Labels

LEMMA Counted ==
  ASSUME BoundTypes
  PROVE  /\ calls < MaxCalls => calls + 1 \in 0 .. MaxCalls
         /\ changes < MaxChanges => changes + 1 \in 0 .. MaxChanges
BY SessionRuntimeAssumption DEF BoundTypes

LEMMA WriteTyped ==
  ASSUME SessionTypes, NEW s, NEW c \in Context, Write(s, c)
  PROVE  envelope' \in [Session -> Envelope \cup {NoEnvelope}] /\ written' \in Nat
<1>1. [context |-> c, at |-> written + 1] \in Envelope
  BY DEF Envelope, SessionTypes
<1>2. written' \in Nat
  BY DEF Write, SessionTypes
<1> QED
  BY <1>1, <1>2 DEF Write, SessionTypes

\* What a failed confirmation shows is a request or nothing.
LEMMA FailTyped ==
  ASSUME TypeOK, Fail
  PROVE  CallTypes'
<1>1. NoCall \in Call /\ "idle" \in Labels
  BY NoCallType DEF Labels
<1>2. Retry(session, call.id) \in 1 .. MaxRequests \cup {None}
  BY DEF Retry, IsPending, TypeOK, BridgeTypeOK, Request
<1> QED
  BY <1>1, <1>2 DEF Fail, Return, CallTypes

LEMMA ReturnTyped ==
  ASSUME NEW last \in 1 .. MaxRequests \cup {None}, Return(last)
  PROVE  CallTypes'
BY NoCallType DEF Return, CallTypes, Labels

LEMMA GotoTyped ==
  ASSUME TypeOK, NEW label \in Labels, Goto(label), call' \in Call
  PROVE  CallTypes'
BY DEF Goto, TypeOK, CallTypes

LEMMA TypeStep == TypeOK /\ Control /\ Bindings /\ Books /\ [Next]_vars => TypeOK'
<1> SUFFICES ASSUME TypeOK, Control, Bindings, Books, [Next]_vars PROVE TypeOK'
  OBVIOUS
<1>0. CallTypes /\ SessionTypes /\ BookTypes /\ BoundTypes
  BY TypesAre
<1>01. CallTypes' /\ SessionTypes' /\ BookTypes' /\ BoundTypes' => TypeOK'
  BY DEF TypeOK, CallTypes, SessionTypes, BookTypes, BoundTypes, Labels
<1> DEFINE Kept == /\ UNCHANGED <<bridgeVars, hidden, answered, executed, made>> => BookTypes'
                   /\ UNCHANGED sessionVars => SessionTypes'
                   /\ UNCHANGED <<permissioned, provider, changes, calls>> => BoundTypes'
                   /\ UNCHANGED <<permissioned, provider, changes>> /\ calls' = calls + 1
                         /\ calls < MaxCalls => BoundTypes'
                   /\ UNCHANGED <<permissioned, provider, calls>> /\ changes' = changes + 1
                         /\ changes < MaxChanges => BoundTypes'
                   /\ UNCHANGED <<pc, call, shown>> => CallTypes'
<1>00. Kept
  BY <1>0, Counted DEF CallTypes, SessionTypes, BookTypes, BoundTypes, BridgeTypeOK, bridgeVars, sessionVars
<1> HIDE DEF Kept
<1>1. ASSUME NEW s \in Session, NewSession(s) PROVE TypeOK'
  <2>1. CallTypes'
    BY <1>1, ReturnTyped DEF NewSession
  <2>2. SessionTypes'
    BY <1>0, <1>1 DEF NewSession, SessionTypes
  <2> QED
    BY <1>00, <1>1, <2>1, <2>2, <1>01 DEF Kept, NewSession, environment, bridgeVars
<1>2. ASSUME NEW s \in Session, StartResume(s) PROVE TypeOK'
  <2>1. CallTypes'
    BY <1>0, <1>2, CallTyped, GotoTyped DEF StartResume, Op, Labels, CallTypes
  <2> QED
    BY <1>00, <1>2, <2>1, <1>01 DEF Kept, StartResume, environment, bridgeVars
<1>3. ASSUME NEW op \in Op, NEW s \in Session, SendMessage(op, s) PROVE TypeOK'
  <2>1. CallTypes'
    BY <1>0, <1>3, CallTyped, GotoTyped DEF SendMessage, Labels, CallTypes
  <2> QED
    BY <1>00, <1>3, <2>1, <1>01 DEF Kept, SendMessage, environment, bridgeVars
<1>4. CASE Ask \/ AskTarget \/ AskAgain
  <2>1. CallTypes'
    BY <1>0, <1>4, CallTyped, GotoTyped DEF Ask, AskTarget, AskAgain, Labels, CallTypes, BoundTypes
  <2> QED
    BY <1>00, <1>4, <2>1, <1>01 DEF Kept, Ask, AskTarget, AskAgain, environment, bridgeVars
<1>5. CASE Bind
  <2>1. CallTypes'
    BY <1>0, <1>5, FailTyped, GotoTyped DEF Bind, Labels, CallTypes
  <2>2. SessionTypes'
    BY <1>0, <1>5 DEF Bind, SessionTypes, Bindings
  <2> QED
    BY <1>00, <1>5, <2>1, <2>2, <1>01 DEF Kept, Bind, environment, bridgeVars
<1>6. CASE Save
  <2>1. CallTypes'
    BY <1>0, <1>6, FailTyped, GotoTyped DEF Save, AfterSave, Labels, CallTypes
  <2>2. SessionTypes'
    <3>1. torn' \subseteq Session /\ rebound' \subseteq Session
      BY <1>0, <1>6 DEF Save, Agreed, SessionTypes
    <3>2. envelope' \in [Session -> Envelope \cup {NoEnvelope}] /\ written' \in Nat
      BY <1>0, <1>6, WriteTyped DEF Save, SessionTypes, Bindings, Authorizing
    <3> QED
      BY <1>0, <1>6, <3>1, <3>2 DEF Save, SessionTypes
  <2> QED
    BY <1>00, <1>6, <2>1, <2>2, <1>01 DEF Kept, Save, environment, bridgeVars
<1>7. CASE SaveFails
  <2>1. CallTypes'
    BY <1>7, FailTyped DEF SaveFails
  <2> QED
    BY <1>00, <1>7, <2>1, <1>01 DEF Kept, SaveFails, environment, bridgeVars
<1>8. ASSUME NEW requests \in Requests, NEW fails \in BOOLEAN, Run(requests, fails) PROVE TypeOK'
  <2> DEFINE now == Enqueue(requests)
             offer == Offer(session, now.queue, now.pending)
             covered == fails /\ call.op = "message" /\ offer # None
  <2>1. /\ now.queue \in Seq(1 .. MaxRequests) /\ now.pending \subseteq Request
        /\ made + Len(requests) \in 0 .. MaxRequests
    BY <1>8, EnqueueTyped DEF Run, Control
  <2>2. offer \in 1 .. MaxRequests \cup {None}
    <3>1. Ordered(now.queue, now.pending)
      BY <1>8, EnqueueOrdered DEF Run, Control, Books
    <3> QED
      BY <2>1, <3>1, OfferIs
  <2> HIDE DEF now, offer
  <2>3. /\ queue' = now.queue /\ pending' = now.pending /\ made' = made + Len(requests)
        /\ emitted' = emitted \cup ({offer} \ {None})
        /\ hidden' = hidden \cup (IF covered THEN {offer} ELSE {})
        /\ Return(IF covered THEN None ELSE offer)
    BY <1>8 DEF Run, now, offer
  <2>4. CallTypes'
    BY <2>2, <2>3, ReturnTyped
  <2>5. emitted' \subseteq 1 .. MaxRequests /\ hidden' \subseteq 1 .. MaxRequests
    BY <1>0, <2>2, <2>3 DEF BookTypes, BridgeTypeOK
  <2>6. BookTypes'
    BY <1>0, <1>8, <2>1, <2>3, <2>5 DEF BookTypes, BridgeTypeOK, Run
  <2> QED
    BY <1>00, <1>8, <2>4, <2>6, <1>01 DEF Kept, Run, environment
<1>9. CASE Authorize
  <2>1. CallTypes'
    <3>1. CASE Authorized(call.target, call.context)
      <4>1. envelope[call.target] \in Envelope \cup {NoEnvelope}
        BY <1>0, <1>9 DEF Authorize, Control, SessionTypes
      <4> QED
        BY <1>0, <1>9, <3>1, <4>1, CallTyped, GotoTyped DEF Authorize, Labels, CallTypes
    <3>2. CASE ~Authorized(call.target, call.context)
      BY <1>9, <3>2, NoCallType DEF Authorize, Labels, CallTypes
    <3> QED
      BY <3>1, <3>2
  <2> QED
    BY <1>00, <1>9, <2>1, <1>01 DEF Kept, Authorize, environment, bridgeVars
<1>10. CASE Adopt
  <2>1. CallTypes'
    BY <1>10, ReturnTyped DEF Adopt
  <2>2. SessionTypes'
    <3>1. call.target \in Session /\ call.context \in Context \cup {NoContext}
      BY <1>0, <1>10 DEF Adopt, Control, CallTypes, Call, SessionTypes
    <3>2. torn' \subseteq Session /\ rebound' \subseteq Session
      BY <1>0, <1>10 DEF Adopt, Agreed, SessionTypes
    <3> QED
      BY <1>0, <1>10, <3>1, <3>2 DEF Adopt, SessionTypes
  <2> QED
    BY <1>00, <1>10, <2>1, <2>2, <1>01 DEF Kept, Adopt, environment, bridgeVars
<1>11. CASE Reject
  <2>1. /\ Consume(shown).queue \in Seq(1 .. MaxRequests)
        /\ Consume(shown).pending \subseteq Request
        /\ shown \in 1 .. MaxRequests
    BY <1>11, ConsumeTyped DEF Reject, Books
  <2>2. [id |-> shown, session |-> session, approved |-> FALSE] \in Answers
    BY <1>0, <1>11, <2>1 DEF Answers, Reject, SessionTypes, Control
  <2>3. answered' \in Seq(Answers)
    BY <1>0, <1>11, <2>2, AppendProperties DEF Reject, Answer, BookTypes
  <2>4. BookTypes'
    BY <1>0, <1>11, <2>1, <2>3 DEF BookTypes, BridgeTypeOK, Reject
  <2>5. CallTypes'
    BY <1>11, GotoTyped, NoCallType DEF Reject, Labels
  <2> QED
    BY <1>00, <1>11, <2>4, <2>5, <1>01 DEF Kept, Reject, environment
<1>12. CASE Approve
  <2>1. CallTypes'
    <3>1. shown \in 1 .. MaxRequests
      BY <1>0, <1>12 DEF Approve, CallTypes
    <3> QED
      BY <1>0, <1>12, <3>1, CallTyped, GotoTyped DEF Approve, Labels, CallTypes
  <2> QED
    BY <1>00, <1>12, <2>1, <1>01 DEF Kept, Approve, environment, bridgeVars
<1>13. CASE Expect
  <2>1. CallTypes'
    <3>1. envelope[session] \in Envelope \cup {NoEnvelope}
      BY <1>0, <1>13 DEF Expect, Control, SessionTypes
    <3> QED
      BY <1>0, <1>13, <3>1, CallTyped, GotoTyped, FailTyped DEF Expect, Labels, CallTypes
  <2>2. SessionTypes'
    <3>1. torn' \subseteq Session /\ rebound' \subseteq Session
      BY <1>0, <1>13 DEF Expect, Agreed, SessionTypes
    <3> QED
      BY <1>0, <1>13, <3>1 DEF Expect, SessionTypes
  <2> QED
    BY <1>00, <1>13, <2>1, <2>2, <1>01 DEF Kept, Expect, environment, bridgeVars
<1>14. ASSUME NEW ok \in BOOLEAN, NEW scope \in Scope, Execute(ok, scope) PROVE TypeOK'
  <2>1. /\ Consume(call.id).queue \in Seq(1 .. MaxRequests)
        /\ Consume(call.id).pending \subseteq Request
        /\ call.id \in 1 .. MaxRequests
    BY <1>14, ConsumeTyped DEF Execute, Books
  <2>2. [id |-> call.id, session |-> session, approved |-> TRUE] \in Answers
    BY <1>0, <1>14, <2>1 DEF Answers, Execute, SessionTypes, Control
  <2>3. answered' \in Seq(Answers) /\ executed' \in Seq(1 .. MaxRequests)
    BY <1>0, <1>14, <2>1, <2>2, AppendProperties DEF Execute, Answer, BookTypes
  <2>4. BookTypes'
    BY <1>0, <1>14, <2>1, <2>3 DEF BookTypes, BridgeTypeOK, Execute
  <2>5. CallTypes'
    BY <1>0, <1>14, GotoTyped DEF Execute, Labels, CallTypes
  <2>6. provider' \in Context
    BY <1>0, <1>14 DEF Execute, BoundTypes, Context
  <2>7. BoundTypes'
    BY <1>0, <1>14, <2>6 DEF Execute, BoundTypes
  <2> QED
    BY <1>00, <1>14, <2>4, <2>5, <2>7, <1>01 DEF Kept, Execute
<1>15. ASSUME NEW ok \in BOOLEAN, Refresh(ok) PROVE TypeOK'
  <2>1. CallTypes'
    BY <1>0, <1>15, GotoTyped DEF Refresh, Labels, CallTypes
  <2> QED
    BY <1>00, <1>15, <2>1, <1>01 DEF Kept, Refresh, environment, bridgeVars
<1>16. CASE Rebind
  <2>1. CallTypes'
    BY <1>0, <1>16, GotoTyped DEF Rebind, Labels, CallTypes
  <2>2. SessionTypes'
    BY <1>0, <1>16, WriteTyped DEF Rebind, SessionTypes, Bindings
  <2> QED
    BY <1>00, <1>16, <2>1, <2>2, <1>01 DEF Kept, Rebind, environment, bridgeVars
<1>17. CASE RebindTorn
  <2>1. CallTypes'
    BY <1>0, <1>17, GotoTyped DEF RebindTorn, Labels, CallTypes
  <2>2. SessionTypes'
    BY <1>0, <1>17, WriteTyped DEF RebindTorn, SessionTypes, Bindings, Control
  <2> QED
    BY <1>00, <1>17, <2>1, <2>2, <1>01 DEF Kept, RebindTorn, bridgeVars
<1>18. CASE OfferNext
  <2> DEFINE offer == Offer(session, queue, pending)
  <2>1. offer \in 1 .. MaxRequests \cup {None}
    BY <1>0, OfferIs DEF Books, BookTypes, BridgeTypeOK
  <2>2. emitted' = emitted \cup ({offer} \ {None}) /\ Return(offer)
    BY <1>18 DEF OfferNext
  <2> HIDE DEF offer
  <2>3. CallTypes'
    BY <2>1, <2>2, ReturnTyped
  <2>4. BookTypes'
    BY <1>0, <1>18, <2>1, <2>2 DEF BookTypes, BridgeTypeOK, OfferNext
  <2> QED
    BY <1>00, <1>18, <2>3, <2>4, <1>01 DEF Kept, OfferNext, environment
<1>19. ASSUME NEW context \in Context, ProviderChanges(context) PROVE TypeOK'
  <2>1. BoundTypes'
    BY <1>0, <1>19, Counted DEF ProviderChanges, BoundTypes
  <2> QED
    BY <1>00, <1>19, <2>1, <1>01 DEF Kept, ProviderChanges, bridgeVars, clientVars
<1>20. ASSUME NEW s \in Session, NEW scope \in Scope, OtherProgramRebinds(s, scope) PROVE TypeOK'
  <2>1. [envelope[s].context EXCEPT !.scope = scope] \in Context
    BY <1>0, <1>20 DEF OtherProgramRebinds, SessionTypes, Envelope, Context
  <2>2. SessionTypes'
    BY <1>0, <1>20, <2>1, WriteTyped DEF OtherProgramRebinds, SessionTypes
  <2> QED
    BY <1>00, <1>20, <2>2, <1>01 DEF Kept, OtherProgramRebinds, bridgeVars, clientVars
<1>21. CASE Restart
  <2>1. CallTypes' /\ SessionTypes'
    BY <1>0, <1>21 DEF Restart, CallTypes, SessionTypes, Labels
  <2>2. BookTypes'
    BY <1>0, <1>21 DEF Restart, BookTypes, BridgeTypeOK
  <2> QED
    BY <1>00, <1>21, <2>1, <2>2, <1>01 DEF Kept, Restart
<1>22. CASE UNCHANGED vars
  BY <1>00, <1>22, <1>01 DEF Kept, vars, clientVars, sessionVars, environment
<1> QED
  BY <1>1, <1>2, <1>3, <1>4, <1>5, <1>6, <1>7, <1>8, <1>9, <1>10, <1>11, <1>12, <1>13, <1>14,
     <1>15, <1>16, <1>17, <1>18, <1>19, <1>20, <1>21, <1>22 DEF Next, AtRest

-----------------------------------------------------------------------------
(***************************************************************************)
(* The call and the binding                                                *)
(***************************************************************************)

\* A call that ends forgets its locals.
LEMMA Ended ==
  ASSUME pc' = "idle", call' = NoCall, session' # None,
         session' \in opened'
  PROVE  Control'
BY DEF Control, NoCall

LEMMA ControlStep == TypeOK /\ Control /\ [Next]_vars => Control'
<1> SUFFICES ASSUME TypeOK, Control, [Next]_vars PROVE Control'
  OBVIOUS
<1>0. call \in Call /\ session \in Session \cup {None} /\ None \notin Session
  BY NoneIsNothing DEF TypeOK
<1>f. ASSUME Fail, UNCHANGED sessionVars, pc \in {"bind", "save", "expect"} PROVE Control'
  BY <1>f, Ended DEF Fail, Return, sessionVars, Control
<1>1. ASSUME NEW s \in Session, NewSession(s) PROVE Control'
  BY <1>0, <1>1, Ended DEF NewSession, Return
<1>2. ASSUME NEW s \in Session, StartResume(s) PROVE Control'
  BY <1>2 DEF StartResume, Control, Goto, NoCall, sessionVars
<1>3. ASSUME NEW op \in Op, NEW s \in Session, SendMessage(op, s) PROVE Control'
  BY <1>3 DEF SendMessage, Control, Goto, NoCall, sessionVars
<1>4. CASE Ask \/ AskTarget \/ AskAgain
  BY <1>0, <1>4 DEF Ask, AskTarget, AskAgain, Control, Goto, sessionVars, Call
<1>5. CASE Bind
  <2>1. CASE binding \in {NoContext, call.context}
    BY <1>5, <2>1 DEF Bind, Control, Goto
  <2>2. CASE ~(binding \in {NoContext, call.context})
    BY <1>5, <2>2, <1>f DEF Bind, sessionVars
  <2> QED
    BY <2>1, <2>2
<1>6. CASE Save
  <2>1. CASE Goto(AfterSave) /\ UNCHANGED call
    BY <1>0, <1>6, <2>1 DEF Save, AfterSave, Control, Goto, Call, Op
  <2>2. CASE Fail
    <3>1. UNCHANGED <<session, opened>> /\ pc = "save"
      BY <1>6 DEF Save
    <3> QED
      BY <2>2, <3>1, Ended DEF Fail, Return, Control
  <2> QED
    BY <1>6, <2>1, <2>2 DEF Save
<1>7. CASE SaveFails
  BY <1>7, <1>f DEF SaveFails
<1>8. ASSUME NEW requests \in Requests, NEW fails \in BOOLEAN, Run(requests, fails) PROVE Control'
  BY <1>0, <1>8, Ended DEF Run, Return, Control, sessionVars
<1>9. CASE Authorize
  <2>1. CASE Authorized(call.target, call.context)
    BY <1>0, <1>9, <2>1 DEF Authorize, Control, Goto, sessionVars, Call
  <2>2. CASE ~Authorized(call.target, call.context)
    <3>1. /\ pc' = IF session = None THEN "start" ELSE "idle"
          /\ UNCHANGED <<session, opened>>
      BY <1>9, <2>2 DEF Authorize, sessionVars
    <3>2. call'.op = "none"
      BY <1>9, <2>2 DEF Authorize, NoCall
    <3> QED
      BY <3>1, <3>2 DEF Control
  <2> QED
    BY <2>1, <2>2
<1>10. CASE Adopt
  <2>1. call.target \in opened /\ opened \subseteq Session
    BY <1>10 DEF Adopt, Control, TypeOK
  <2>2. pc' = "idle" /\ call' = NoCall /\ session' = call.target /\ opened' = opened
    BY <1>10 DEF Adopt, Return
  <2> QED
    BY <1>0, <2>1, <2>2, Ended
<1>11. CASE Reject
  BY <1>11 DEF Reject, Goto, Control, NoCall, sessionVars
<1>12. CASE Approve
  BY <1>12 DEF Approve, Goto, Control, NoCall, sessionVars
<1>13. CASE Expect
  <2>1. CASE Authorized(session, call.context)
    BY <1>0, <1>13, <2>1 DEF Expect, Goto, Control, Call
  <2>2. CASE ~Authorized(session, call.context)
    <3>1. Fail /\ UNCHANGED sessionVars /\ pc = "expect"
      BY <1>13, <2>2 DEF Expect, sessionVars
    <3> QED
      BY <3>1, <1>f
  <2> QED
    BY <2>1, <2>2
<1>14. ASSUME NEW ok \in BOOLEAN, NEW scope \in Scope, Execute(ok, scope) PROVE Control'
  <2>1. pc' \in {"refresh", "offer"} /\ UNCHANGED <<call, session, opened>> /\ pc = "execute"
    BY <1>14 DEF Execute, Goto, sessionVars
  <2> QED
    BY <2>1 DEF Control
<1>15. ASSUME NEW ok \in BOOLEAN, Refresh(ok) PROVE Control'
  BY <1>15 DEF Refresh, Goto, Control, sessionVars
<1>16. CASE Rebind \/ RebindTorn
  BY <1>16 DEF Rebind, RebindTorn, Goto, Control
<1>17. CASE OfferNext
  BY <1>17, Ended DEF OfferNext, Return, Control, sessionVars
<1>18. CASE Restart
  BY <1>18 DEF Restart, Control
<1>19. CASE UNCHANGED <<pc, call, session, opened>>
  BY <1>19 DEF Control
<1>20. ASSUME NEW context \in Context, ProviderChanges(context) PROVE Control'
  BY <1>19, <1>20 DEF ProviderChanges, sessionVars
<1>21. ASSUME NEW s \in Session, NEW scope \in Scope, OtherProgramRebinds(s, scope) PROVE Control'
  BY <1>19, <1>21 DEF OtherProgramRebinds
<1>22. CASE UNCHANGED vars
  BY <1>19, <1>22 DEF vars, sessionVars
<1> QED
  BY <1>1, <1>2, <1>3, <1>4, <1>5, <1>6, <1>7, <1>8, <1>9, <1>10, <1>11, <1>12, <1>13, <1>14,
     <1>15, <1>16, <1>17, <1>18, <1>20, <1>21, <1>22 DEF Next, AtRest

\* A step that leaves the call's locals, the binding and the disk as they are.
LEMMA SameBindings ==
  ASSUME TypeOK, Bindings, UNCHANGED <<sessionVars, permissioned>>,
         permissioned, UNCHANGED call,
         pc \in {"execute", "refresh"}, pc' \in {"refresh", "ask again", "offer"}
  PROVE  Bindings'
BY DEF Bindings, sessionVars

\* What is not of a session is not of what it is bound to.
LEMMA SessionsKeep == UNCHANGED sessionVars =>
                        \A s : Authorized(s, binding)' = Authorized(s, binding)
BY DEF sessionVars, Authorized

\* A call that ends needs nothing of what it knew.
LEMMA EndedBindings ==
  ASSUME Bindings, UNCHANGED <<sessionVars, permissioned>>, pc' \in {"idle", "start", "offer"}
  PROVE  Bindings'
BY DEF Bindings, sessionVars, Authorizing

LEMMA BindingsStep == TypeOK /\ Control /\ Bindings /\ [Next]_vars => Bindings'
<1> SUFFICES ASSUME TypeOK, Control, Bindings, [Next]_vars PROVE Bindings'
  OBVIOUS
<1>0. /\ None \notin Session /\ NoContext \notin Context
      /\ call \in Call /\ provider \in Context
      /\ envelope \in [Session -> Envelope \cup {NoEnvelope}]
      /\ session \in Session \cup {None} /\ opened \subseteq Session
  BY NoneIsNothing DEF TypeOK
<1>00. ASSUME NEW s \in Session, NEW c, Write(s, c)
       PROVE  /\ envelope'[s] # NoEnvelope /\ envelope'[s].context = c
              /\ \A x \in Session \ {s} : envelope'[x] = envelope[x]
  <2>0. written + 1 # 0
    <3>1. written \in Nat
      BY DEF TypeOK
    <3> QED
      BY <3>1
  <2>1. envelope'[s] = [context |-> c, at |-> written + 1]
    BY <1>0, <1>00 DEF Write
  <2> QED
    BY <1>0, <1>00, <2>0, <2>1 DEF Write, NoEnvelope
<1>f. ASSUME Fail, UNCHANGED <<sessionVars, permissioned>> PROVE Bindings'
  BY <1>f, EndedBindings DEF Fail, Return
<1>1. ASSUME NEW s \in Session, NewSession(s) PROVE Bindings'
  BY <1>0, <1>1 DEF NewSession, Return, Bindings, Authorizing, environment
<1>2. ASSUME NEW s \in Session, StartResume(s) PROVE Bindings'
  BY <1>0, <1>2 DEF StartResume, Goto, Bindings, Authorizing, environment, sessionVars
<1>3. ASSUME NEW op \in Op, NEW s \in Session, SendMessage(op, s) PROVE Bindings'
  BY <1>0, <1>3 DEF SendMessage, Goto, Bindings, Authorizing, environment, sessionVars
<1>4. CASE Ask \/ AskTarget
  BY <1>0, <1>4 DEF Ask, AskTarget, Goto, Bindings, Authorizing, environment, sessionVars, Call
<1>5. CASE AskAgain
  BY <1>0, <1>5 DEF AskAgain, Goto, Bindings, Authorizing, environment, sessionVars, Call
<1>6. CASE Bind
  <2>1. CASE binding \in {NoContext, call.context}
    BY <1>0, <1>6, <2>1 DEF Bind, Goto, Bindings, Authorizing, environment
  <2>2. CASE ~(binding \in {NoContext, call.context})
    BY <1>6, <2>2, <1>f DEF Bind, sessionVars, environment
  <2> QED
    BY <2>1, <2>2
<1>7. CASE Save
  <2>0. session \in opened /\ session \in Session /\ permissioned /\ binding \in Context
    BY <1>0, <1>7 DEF Save, Control, Bindings, Authorizing
  <2>1. CASE envelope[session] = NoEnvelope
    <3>1. Write(session, binding) /\ Agreed(session) /\ Goto(AfterSave)
          /\ UNCHANGED <<call, session, binding, opened, permissioned>>
      BY <1>7, <2>1 DEF Save, environment
    <3>2. AfterSave \in {"ask target", "expect", "run"}
      BY DEF AfterSave
    <3>3. envelope'[session].context = binding /\ envelope'[session] # NoEnvelope
      BY <1>00, <2>0, <3>1
    <3>4. \A s \in Session \ opened : envelope'[s] = NoEnvelope
      BY <1>00, <2>0, <3>1 DEF Bindings
    <3> QED
      BY <1>0, <1>7, <2>0, <3>1, <3>2, <3>3, <3>4 DEF Goto, Bindings, Save, Agreed, Authorized
  <2>2. CASE envelope[session] # NoEnvelope /\ envelope[session].context = binding
    <3>1. AfterSave \in {"ask target", "expect", "run"}
      BY DEF AfterSave
    <3> QED
      BY <1>7, <2>0, <2>2, <3>1 DEF Save, Goto, Bindings, Agreed, Authorized, environment
  <2>3. CASE envelope[session] # NoEnvelope /\ envelope[session].context # binding
    BY <1>7, <2>3, <1>f DEF Save, sessionVars, environment
  <2> QED
    BY <2>1, <2>2, <2>3
<1>8. CASE SaveFails
  BY <1>8, <1>f DEF SaveFails, environment
<1>9. ASSUME NEW requests \in Requests, NEW fails \in BOOLEAN, Run(requests, fails) PROVE Bindings'
  BY <1>9, EndedBindings DEF Run, Return, environment
<1>10. CASE Authorize
  <2>1. CASE Authorized(call.target, call.context)
    BY <1>0, <1>10, <2>1 DEF Authorize, Authorized, Goto, Bindings, Authorizing, environment, sessionVars, Call
  <2>2. CASE ~Authorized(call.target, call.context)
    BY <1>10, <2>2, EndedBindings DEF Authorize, environment
  <2> QED
    BY <2>1, <2>2
<1>11. CASE Adopt
  <2>1. call.target \in opened /\ call.target \in Session
    BY <1>0, <1>11 DEF Adopt, Control
  <2>2. ASSUME permissioned
        PROVE  /\ binding' # NoContext \/ envelope'[session'] = NoEnvelope
               /\ \/ session' \in rebound'
                  \/ envelope'[session'].context = binding'
    <3>1. call.expected # NoEnvelope /\ call.expected.context = call.context
      BY <1>11, <2>2 DEF Adopt, Bindings
    <3>2. call.expected \in Envelope
      BY <1>0, <3>1 DEF Call
    <3>3. call.context \in Context
      BY <3>1, <3>2 DEF Envelope
    <3>4. call.target \in rebound \/ envelope[call.target] = call.expected
      BY <1>11, <2>2 DEF Adopt, Bindings
    <3> QED
      BY <1>0, <1>11, <3>1, <3>3, <3>4 DEF Adopt, Agreed
  <2> QED
    BY <1>11, <2>1, <2>2 DEF Adopt, Return, Bindings, Authorizing, environment
<1>12. CASE Reject
  BY <1>12, EndedBindings DEF Reject, Goto, environment
<1>13. CASE Approve
  BY <1>13 DEF Approve, Goto, Bindings, Authorizing, environment, sessionVars
<1>14. CASE Expect
  <2>1. CASE Authorized(session, call.context)
    <3>1. /\ pc = "expect" /\ pc' = "execute" /\ session \in Session /\ permissioned
          /\ UNCHANGED <<session, binding, envelope, opened, permissioned>>
          /\ call' = [call EXCEPT !.expected = envelope[session]]
          /\ torn' = torn \ {session} /\ rebound' = rebound \ {session}
      BY <1>0, <1>14, <2>1 DEF Expect, Agreed, Goto, Control, Bindings, Authorizing, environment
    <3>2. /\ binding = call.context /\ envelope[session].context = binding
          /\ envelope[session] # NoEnvelope
      BY <2>1, <3>1 DEF Bindings, Authorized
    <3>3. call'.expected = envelope[session] /\ call'.context = call.context
      BY <1>0, <3>1 DEF Call
    <3>4. Authorized(session, binding)'
      BY <3>1, <3>2 DEF Authorized
    <3> QED
      BY <3>1, <3>2, <3>3, <3>4 DEF Bindings, Authorizing
  <2>2. CASE ~Authorized(session, call.context)
    BY <1>14, <2>2, <1>f DEF Expect, environment, sessionVars
  <2> QED
    BY <2>1, <2>2
<1>15. ASSUME NEW ok \in BOOLEAN, NEW scope \in Scope, Execute(ok, scope) PROVE Bindings'
  <2>1. UNCHANGED <<sessionVars, permissioned, call>> /\ pc = "execute"
    BY <1>15 DEF Execute
  <2>2. pc' = "offer" \/ (pc' = "refresh" /\ permissioned)
    BY <1>15 DEF Execute, Goto
  <2> QED
    BY <2>1, <2>2, SameBindings, EndedBindings DEF Authorizing
<1>16. ASSUME NEW ok \in BOOLEAN, Refresh(ok) PROVE Bindings'
  BY <1>16, SameBindings DEF Refresh, Goto, environment, Bindings, Authorizing
<1>17. CASE Rebind \/ RebindTorn
  <2>0. /\ session \in opened /\ session \in Session /\ permissioned /\ call.next \in Context
        /\ pc' = "offer" /\ UNCHANGED <<session, opened, permissioned>>
    BY <1>0, <1>17 DEF Rebind, RebindTorn, Goto, Control, Bindings, Authorizing, environment
  <2>1. CASE UNCHANGED <<envelope, binding, torn, rebound>>
    BY <2>0, <2>1 DEF Bindings, Authorizing
  <2>2. CASE /\ Write(session, call.next)
             /\ binding' = call.next \/ (binding' = binding /\ session \in torn')
             /\ binding # NoContext \/ binding' # NoContext
    <3>1. envelope'[session].context = call.next
      BY <1>00, <2>0, <2>2
    <3>2. \A s \in Session \ opened : envelope'[s] = NoEnvelope
      BY <1>00, <2>0, <2>2 DEF Bindings
    <3>3. binding' # NoContext
      BY <1>0, <2>0, <2>2
    <3> QED
      BY <2>0, <2>2, <3>1, <3>2, <3>3 DEF Bindings, Authorizing
  <2>3. RebindTorn => binding # NoContext
    <3>1. SUFFICES ASSUME RebindTorn PROVE binding # NoContext
      OBVIOUS
    <3>2. envelope[session] = call.expected /\ call.expected # NoEnvelope
      BY <2>0, <3>1 DEF RebindTorn, Bindings
    <3> QED
      BY <1>0, <2>0, <3>2 DEF Bindings
  <2>4. CASE Rebind
    <3>1. \/ binding' = call.next /\ call.next # NoContext
          \/ UNCHANGED <<envelope, binding>>
      BY <1>0, <2>0, <2>4 DEF Rebind
    <3> QED
      BY <1>0, <2>0, <2>1, <2>2, <2>4 DEF Rebind
  <2>5. CASE RebindTorn
    BY <2>0, <2>2, <2>3, <2>5 DEF RebindTorn
  <2> QED
    BY <1>17, <2>4, <2>5
<1>18. CASE OfferNext
  BY <1>18, EndedBindings DEF OfferNext, Return, environment
<1>19. ASSUME NEW context \in Context, ProviderChanges(context) PROVE Bindings'
  BY <1>19, SessionsKeep DEF ProviderChanges, Bindings, sessionVars
<1>20. ASSUME NEW s \in Session, NEW scope \in Scope, OtherProgramRebinds(s, scope) PROVE Bindings'
  <2> DEFINE c == [envelope[s].context EXCEPT !.scope = scope]
  <2>1. Write(s, c) /\ envelope[s] # NoEnvelope /\ rebound' = rebound \cup {s} /\ torn' = torn
    BY <1>20 DEF OtherProgramRebinds
  <2> HIDE DEF c
  <2>2. \A x \in Session \ {s} : envelope'[x] = envelope[x]
    BY <1>00, <2>1
  <2>3. s \in opened
    BY <2>1 DEF Bindings
  <2>4. /\ UNCHANGED <<session, binding, opened, permissioned, pc, call>>
        /\ call.op = "resume" => call.target \in opened
        /\ pc = "adopt" => call.op = "resume"
    BY <1>20 DEF OtherProgramRebinds, Control
  <2>5. permissioned /\ session # None /\ binding = NoContext => envelope'[session] = NoEnvelope
    BY <1>0, <2>1, <2>2 DEF Bindings
  <2>6. \A x \in Session \ opened : envelope'[x] = NoEnvelope
    BY <2>2, <2>3 DEF Bindings
  <2>7. permissioned /\ pc \in {"run", "execute"} =>
          session' \in rebound' \/ Authorized(session, binding)'
    <3>1. CASE session = s
      BY <2>1, <2>4, <3>1
    <3>2. CASE session # s
      <4>1. session \in Session => envelope'[session] = envelope[session]
        BY <2>2, <3>2
      <4>2. pc \in {"run", "execute"} => session \in Session
        BY <1>0 DEF Control
      <4> QED
        BY <2>1, <2>4, <4>1, <4>2 DEF Bindings, Authorized
    <3> QED
      BY <3>1, <3>2
  <2>8. pc' \in {"run", "execute"} => pc \in {"run", "execute"}
    BY <2>4
  <2>9. permissioned /\ session # None =>
          \/ session' \in torn' \cup rebound'
          \/ envelope'[session'] = NoEnvelope
          \/ envelope'[session'].context = binding'
    BY <1>0, <2>1, <2>2, <2>4 DEF Bindings
  <2>10. permissioned /\ pc = "adopt" =>
           call'.target \in rebound' \/ envelope'[call'.target] = call'.expected
    BY <1>0, <2>1, <2>2, <2>4 DEF Bindings
  <2> QED
    BY <1>0, <2>4, <2>5, <2>6, <2>7, <2>8, <2>9, <2>10 DEF Bindings, Authorizing
<1>21. CASE Restart
  <2>1. /\ pc' = "start" /\ session' = None
        /\ UNCHANGED <<envelope, opened, permissioned>>
    BY <1>21 DEF Restart
  <2> QED
    BY <2>1 DEF Bindings, Authorizing
<1>22. CASE UNCHANGED vars
  BY <1>22, SessionsKeep DEF vars, Bindings, sessionVars, environment
<1> QED
  BY <1>1, <1>2, <1>3, <1>4, <1>5, <1>6, <1>7, <1>8, <1>9, <1>10, <1>11, <1>12, <1>13, <1>14,
     <1>15, <1>16, <1>17, <1>18, <1>19, <1>20, <1>21, <1>22 DEF Next, AtRest

-----------------------------------------------------------------------------
(***************************************************************************)
(* The books of the bridge and what is open in the sessions                *)
(***************************************************************************)

LEMMA BooksKept ==
  ASSUME Books, UNCHANGED <<queue, pending, hidden, answered, executed, made>>,
         emitted \subseteq emitted',
         \A id \in emitted' : id \in emitted \/ id <= made
  PROVE  Books'
<1>1. CoveredWaits'
  BY DEF Books, CoveredWaits
<1>2. (Ordered(queue, pending) /\ Numbered /\ AnsweredBefore)'
  BY DEF Books, Ordered, Numbered, AnsweredBefore
<1>3. AnsweredInOrder'
  BY DEF Books, AnsweredInOrder, Range
<1> QED
  BY <1>1, <1>2, <1>3 DEF Books

\* New requests have numbers of their own, behind all others in the queue.
LEMMA RunBooks ==
  ASSUME TypeOK, Control, Books, NEW requests \in Requests, NEW fails, Run(requests, fails)
  PROVE  Books'
<1> DEFINE now == Enqueue(requests)
           offer == Offer(session, now.queue, now.pending)
           n == Len(requests)
<1>0. session # None /\ queue' = now.queue /\ pending' = now.pending /\ made' = made + n
  BY DEF Run, Control
<1>1. /\ \A i \in 1 .. n : requests[i].id = made + i /\ requests[i].session = session
      /\ pending' = pending \cup {requests[i] : i \in 1 .. n}
      /\ queue' \in Seq(1 .. MaxRequests)
  BY <1>0, EnqueueTyped
<1>2. Ordered(queue', pending')
  BY <1>0, EnqueueOrdered DEF Books
<1>3. n \in Nat /\ made \in Nat
  <2>1. made \in 0 .. MaxRequests /\ requests \in Seq(Request)
    BY <1>0, EnqueueTyped DEF TypeOK
  <2> QED
    BY <2>1, NoneIsNothing, LenProperties
<1>4. \A r \in pending' : r \in pending \/ (r.id > made /\ r.id <= made')
  BY <1>0, <1>1, <1>3
<1>5. /\ \A r \in pending : r.id \in Nat
      /\ \A id \in emitted \cup hidden : id \in Nat
      /\ \A i \in DOMAIN answered : answered[i].id \in Nat
  <2>1. /\ \A r \in pending : r.id \in 1 .. MaxRequests
        /\ \A id \in emitted \cup hidden : id \in 1 .. MaxRequests
    BY DEF TypeOK, BridgeTypeOK, Request
  <2>2. \A i \in DOMAIN answered : answered[i] \in Answers
    BY ElementOfSeq, LenProperties DEF TypeOK
  <2> QED
    BY <2>1, <2>2, NoneIsNothing DEF Answers
<1>o. offer = None \/ offer \in Waiting(session, pending')
  BY <1>0, <1>1, <1>2, OfferIs
<1>6. offer = None \/ offer <= made'
  <2>2. \A r \in pending' : r.id <= made'
    BY <1>0, <1>3, <1>4, <1>5 DEF Books, Numbered
  <2> QED
    BY <1>o, <2>2 DEF Waiting
<1>7. /\ emitted' = emitted \cup ({offer} \ {None})
      /\ hidden' \subseteq hidden \cup ({offer} \ {None})
      /\ UNCHANGED <<answered, executed>>
  BY DEF Run
<1> HIDE DEF now, offer, n
<1>8. Numbered'
  BY <1>0, <1>3, <1>4, <1>5, <1>6, <1>7 DEF Books, Numbered
<1>9. AnsweredBefore'
  <2>1. ASSUME NEW i \in DOMAIN answered, NEW r \in pending', r \notin pending
        PROVE  answered[i].id < r.id /\ answered[i].id # r.id
    <3>1. r.id > made /\ answered[i].id <= made /\ answered[i].id \in Nat
      BY <1>4, <1>5, <2>1 DEF Books, Numbered
    <3>2. r.id \in Nat
      <4>1. r \in {requests[k] : k \in 1 .. n}
        BY <1>1, <2>1
      <4> QED
        BY <1>1, <1>3, <4>1
    <3> QED
      BY <1>3, <3>1, <3>2
  <2> QED
    BY <1>7, <2>1 DEF Books, AnsweredBefore
<1>10. AnsweredInOrder'
  BY <1>7 DEF Books, AnsweredInOrder, Range
<1>11. CoveredWaits'
  <2>1. offer = None \/ offer \in {r.id : r \in pending'}
    BY <1>o DEF Waiting
  <2>2. {r.id : r \in pending} \subseteq {r.id : r \in pending'}
    BY <1>1
  <2> QED
    BY <1>7, <2>1, <2>2 DEF Books, CoveredWaits
<1> QED
  BY <1>2, <1>8, <1>9, <1>10, <1>11 DEF Books

\* The request that is open is the one that is answered: no older one of its session
\* waits, and none of those answered is younger.
LEMMA ConsumeBooks ==
  ASSUME TypeOK, Control, Books, session # None,
         NEW id, Open(id), NEW approved \in BOOLEAN,
         queue' = Consume(id).queue, pending' = Consume(id).pending,
         answered' = Answer(id, approved),
         executed' = IF approved THEN Append(executed, id) ELSE executed,
         UNCHANGED <<emitted, hidden, made, session>>
  PROVE  /\ Books' /\ NothingOpen'
         /\ \A s \in Session : s # session => (Quiet(s) => Quiet(s)')
<1> DEFINE m == Len(answered)
           n == Len(executed)
           new == [id |-> id, session |-> session, approved |-> approved]
<1>1. PICK r0 \in pending : r0.id = id /\ r0.session = session
  BY DEF Open, Waiting, OnlyOffer
<1>2. /\ Ordered(queue', pending') /\ id \in 1 .. MaxRequests
      /\ pending' = {r \in pending : r.id # id}
  BY <1>1, ConsumeTyped DEF Books, IsPending, Consume
<1>3. /\ m \in Nat /\ DOMAIN answered = 1 .. m /\ DOMAIN answered' = 1 .. m + 1
      /\ \A i \in 1 .. m : answered'[i] = answered[i] /\ answered[i] \in Answers
      /\ answered'[m + 1] = new
  <2>1. answered \in Seq(Answers) /\ new \in Answers
    BY <1>2 DEF TypeOK, Answers
  <2>2. answered' = Append(answered, new)
    BY DEF Answer
  <2> QED
    BY <2>1, <2>2, AppendProperties, LenProperties, ElementOfSeq
<1>4. /\ n \in Nat /\ DOMAIN executed = 1 .. n
      /\ approved => /\ DOMAIN executed' = 1 .. n + 1
                     /\ \A i \in 1 .. n : executed'[i] = executed[i]
                     /\ executed'[n + 1] = id
      /\ ~approved => executed' = executed
  <2>1. executed \in Seq(1 .. MaxRequests)
    BY DEF TypeOK
  <2> QED
    BY <1>2, <2>1, AppendProperties, LenProperties
<1>5. new.id = id /\ new.session = session /\ new.approved = approved
  OBVIOUS
<1> HIDE DEF m, n, new
<1>6. \A i \in 1 .. m :
        /\ answered[i].id # id /\ answered[i].id <= made
        /\ answered[i].session = session => answered[i].id < id
  BY <1>1, <1>3 DEF Books, AnsweredBefore, Numbered
<1>7. Numbered'
  <2>1. id <= made
    BY <1>1 DEF Books, Numbered
  <2>2. \A i \in 1 .. m + 1 : i \in 1 .. m \/ i = m + 1
    BY <1>3
  <2> QED
    BY <1>2, <1>3, <1>5, <1>6, <2>1, <2>2 DEF Books, Numbered
<1>8. AnsweredBefore'
  <2>1. ASSUME NEW r \in pending' PROVE r.id # id /\ (r.session = session => id < r.id)
    <3>1. r.session = session => id <= r.id
      BY <1>2 DEF Open, Waiting, OnlyOffer
    <3>2. r.id \in Nat /\ id \in Nat
      <4>1. r.id \in 1 .. MaxRequests
        BY <1>2 DEF TypeOK, BridgeTypeOK, Request
      <4> QED
        BY <1>2, <4>1, NoneIsNothing
    <3> QED
      BY <1>2, <3>1, <3>2
  <2>2. \A i \in 1 .. m + 1 : i \in 1 .. m \/ i = m + 1
    BY <1>3
  <2> QED
    BY <1>2, <1>3, <1>5, <2>1, <2>2 DEF Books, AnsweredBefore
<1>9. AnsweredInOrder'
  <2>1. ASSUME NEW i \in DOMAIN answered', NEW j \in DOMAIN answered', i < j
        PROVE  /\ answered'[i].id # answered'[j].id
               /\ answered'[i].session = answered'[j].session => answered'[i].id < answered'[j].id
    <3>1. i \in 1 .. m /\ (j \in 1 .. m \/ j = m + 1)
      BY <1>3, <2>1
    <3>2. CASE j \in 1 .. m
      <4>1. answered'[i] = answered[i] /\ answered'[j] = answered[j]
        BY <1>3, <3>1, <3>2
      <4>2. i \in DOMAIN answered /\ j \in DOMAIN answered
        BY <1>3, <3>1, <3>2
      <4> QED
        BY <2>1, <4>1, <4>2 DEF Books, AnsweredInOrder
    <3>3. CASE j = m + 1
      <4>1. answered'[i] = answered[i] /\ answered'[j] = new
        BY <1>3, <3>1, <3>3
      <4>2. answered[i].id # id /\ (answered[i].session = session => answered[i].id < id)
        BY <1>6, <3>1
      <4>3. answered'[j].id = id /\ answered'[j].session = session
        BY <1>5, <4>1
      <4> QED
        BY <4>1, <4>2, <4>3
    <3> QED
      BY <3>1, <3>2, <3>3
  <2>2. Range(executed)' = {a.id : a \in {a \in Range(answered)' : a.approved}}
    <3>1. Range(executed) = {a.id : a \in {a \in Range(answered) : a.approved}}
      BY DEF Books, AnsweredInOrder
    <3>2. Range(answered)' = Range(answered) \cup {new}
      <4>1. \A i \in 1 .. m + 1 : i \in 1 .. m \/ i = m + 1
        BY <1>3
      <4>2. 1 .. m \subseteq 1 .. m + 1 /\ m + 1 \in 1 .. m + 1
        BY <1>3
      <4> QED
        BY <1>3, <4>1, <4>2 DEF Range
    <3>3. Range(executed)' = IF approved THEN Range(executed) \cup {id} ELSE Range(executed)
      <4>1. \A i \in 1 .. n + 1 : i \in 1 .. n \/ i = n + 1
        BY <1>4
      <4>2. 1 .. n \subseteq 1 .. n + 1 /\ n + 1 \in 1 .. n + 1
        BY <1>4
      <4> QED
        BY <1>4, <4>1, <4>2 DEF Range
    <3> QED
      BY <1>5, <3>1, <3>2, <3>3
  <2>3. ASSUME NEW i \in DOMAIN executed', NEW j \in DOMAIN executed', i < j
        PROVE  \E k, l \in DOMAIN answered' :
                 k < l /\ answered'[k].id = executed'[i] /\ answered'[l].id = executed'[j]
    <3>1. CASE i \in 1 .. n /\ j \in 1 .. n
      <4>1. executed'[i] = executed[i] /\ executed'[j] = executed[j]
        BY <1>4, <3>1
      <4>2. PICK k, l \in 1 .. m :
              k < l /\ answered[k].id = executed[i] /\ answered[l].id = executed[j]
        BY <1>3, <1>4, <2>3, <3>1 DEF Books, AnsweredInOrder
      <4>3. k \in DOMAIN answered' /\ l \in DOMAIN answered'
        BY <1>3
      <4> QED
        BY <1>3, <4>1, <4>2, <4>3
    <3>2. CASE approved /\ i \in 1 .. n /\ j = n + 1
      <4>1. executed'[i] = executed[i] /\ executed'[j] = id
        BY <1>4, <3>2
      <4>2. executed[i] \in Range(executed)
        BY <1>4, <3>2 DEF Range
      <4>3. PICK k \in 1 .. m : answered[k].id = executed[i]
        <5>1. PICK a \in Range(answered) : a.id = executed[i]
          BY <4>2 DEF Books, AnsweredInOrder
        <5> QED
          BY <1>3, <5>1 DEF Range
      <4>4. k \in DOMAIN answered' /\ m + 1 \in DOMAIN answered' /\ k < m + 1
        BY <1>3
      <4> QED
        BY <1>3, <1>5, <4>1, <4>3, <4>4
    <3> QED
      BY <1>4, <2>3, <3>1, <3>2
  <2> QED
    BY <2>1, <2>2, <2>3 DEF AnsweredInOrder
<1>10. NothingOpen'
  BY <1>2 DEF NothingOpen, Open, Waiting, OnlyOffer
<1>11. ASSUME NEW s \in Session, s # session, Quiet(s) PROVE Quiet(s)'
  <2>1. \A r \in pending : r.session = s => r.id # id
    BY <1>1, <1>11 DEF Books, Ordered
  <2>2. Waiting(s, pending') = Waiting(s, pending)
    BY <1>2, <2>1 DEF Waiting
  <2> QED
    BY <1>11, <2>2 DEF Quiet, OnlyOffer
<1>12. CoveredWaits'
  BY <1>2 DEF Books, CoveredWaits, Open
<1> QED
  BY <1>2, <1>7, <1>8, <1>9, <1>10, <1>11, <1>12 DEF Books

LEMMA BooksStep == TypeOK /\ Control /\ Books /\ Phases /\ [Next]_vars => Books'
<1> SUFFICES ASSUME TypeOK, Control, Books, Phases, [Next]_vars PROVE Books'
  OBVIOUS
<1>0. CASE UNCHANGED <<bridgeVars, hidden, answered, executed, made>>
  BY <1>0, BooksKept DEF bridgeVars
<1>1. ASSUME NEW requests \in Requests, NEW fails \in BOOLEAN, Run(requests, fails) PROVE Books'
  BY <1>1, RunBooks
<1>2. CASE Reject
  <2>1. session # None /\ Open(shown)
    BY <1>2 DEF Reject, Control, Phases
  <2>2. /\ queue' = Consume(shown).queue /\ pending' = Consume(shown).pending
        /\ answered' = Answer(shown, FALSE) /\ executed' = executed
        /\ UNCHANGED <<emitted, hidden, made, session>>
    BY <1>2 DEF Reject, sessionVars
  <2> QED
    BY <2>1, <2>2, ConsumeBooks
<1>3. ASSUME NEW ok \in BOOLEAN, NEW scope \in Scope, Execute(ok, scope) PROVE Books'
  <2>1. session # None /\ Open(call.id)
    BY <1>3 DEF Execute, Control, Phases, Unconsumed
  <2>2. /\ queue' = Consume(call.id).queue /\ pending' = Consume(call.id).pending
        /\ answered' = Answer(call.id, TRUE) /\ executed' = Append(executed, call.id)
        /\ UNCHANGED <<emitted, hidden, made, session>>
    BY <1>3 DEF Execute, sessionVars
  <2> QED
    BY <2>1, <2>2, ConsumeBooks
<1>4. CASE OfferNext
  <2> DEFINE offer == Offer(session, queue, pending)
  <2>1. offer = None \/ offer \in Waiting(session, pending)
    BY OfferIs DEF Books, TypeOK, BridgeTypeOK
  <2>2. emitted' = emitted \cup ({offer} \ {None})
    BY <1>4 DEF OfferNext
  <2> HIDE DEF offer
  <2>3. \A id \in emitted' : id \in emitted \/ id <= made
    BY <2>1, <2>2 DEF Books, Numbered, Waiting
  <2> QED
    BY <1>4, <2>2, <2>3, BooksKept DEF OfferNext
<1>5. CASE Restart
  <2>1. /\ queue' = <<>> /\ DOMAIN queue' = {} /\ pending' = {} /\ emitted' = {}
        /\ hidden' = {} /\ UNCHANGED <<answered, executed, made>>
    BY <1>5 DEF Restart
  <2>2. Ordered(queue', pending')
    BY <2>1 DEF Ordered
  <2>3. Numbered' /\ AnsweredBefore'
    BY <2>1 DEF Books, Numbered, AnsweredBefore
  <2>4. AnsweredInOrder'
    <3>1. UNCHANGED <<answered, executed>> /\ AnsweredInOrder
      BY <2>1 DEF Books
    <3> QED
      BY <3>1 DEF AnsweredInOrder, Range
  <2>5. CoveredWaits'
    BY <2>1 DEF CoveredWaits
  <2> QED
    BY <2>2, <2>3, <2>4, <2>5 DEF Books
<1> QED
  BY <1>0, <1>1, <1>2, <1>3, <1>4, <1>5
     DEF Next, NewSession, StartResume, SendMessage, Ask, Bind, Save, SaveFails, AskTarget,
         Authorize, Adopt, Approve, Expect, Refresh, AskAgain, Rebind, RebindTorn,
         ProviderChanges, OtherProgramRebinds, AtRest, vars, clientVars

\* With the books as they are, a session is as quiet as it was.
LEMMA StillPhases ==
  ASSUME Phases, UNCHANGED <<pending, emitted, hidden, session>>,
         pc' = "idle" => IF shown' = None THEN Quiet(session) ELSE Open(shown'),
         call'.op \in {"message", "slash", "resume"} => Quiet(session),
         call'.op = "approve" /\ pc' \in Unconsumed => Open(call'.id),
         pc' \in Consumed => NothingOpen
  PROVE  Phases'
<1>1. \A s : Quiet(s)' = Quiet(s)
  BY DEF Quiet, Waiting, OnlyOffer
<1>2. \A id : Open(id) =>
        /\ id \in Waiting(session', pending') /\ id \in emitted'
        /\ \A j \in Waiting(session', pending') : id <= j /\ (j \in emitted' => j = id)
  BY DEF Open, OnlyOffer
<1>3. NothingOpen' = NothingOpen
  BY DEF NothingOpen
<1>4. pc' = "idle" => IF shown' = None THEN Quiet(session)' ELSE Open(shown)'
  BY <1>1, <1>2 DEF Open, OnlyOffer
<1>5. call'.op = "approve" /\ pc' \in Unconsumed => Open(call.id)'
  BY <1>2 DEF Open, OnlyOffer
<1>6. \A s \in Session : s # session' => Quiet(s)'
  BY <1>1 DEF Phases
<1>7. call'.op \in {"message", "slash", "resume"} => Quiet(session)'
  BY <1>1
<1> QED
  BY <1>3, <1>4, <1>5, <1>6, <1>7 DEF Phases

\* A program without a session has no request of it.
LEMMA NobodyWaits == TypeOK /\ session = None => Quiet(session)
BY NoneIsNothing DEF TypeOK, BridgeTypeOK, Request, Quiet, Waiting

\* What is open is offered again, when the call fails before it consumes.
LEMMA FailPhases ==
  ASSUME TypeOK, Phases, Fail, UNCHANGED <<pending, emitted, hidden, session>>,
         pc \in Unconsumed, call.op \in Op
  PROVE  Phases'
<1>1. call.op = "approve" => Open(call.id) /\ shown' = call.id /\ call.id # None
  <2>1. SUFFICES ASSUME call.op = "approve"
                 PROVE  Open(call.id) /\ shown' = call.id /\ call.id # None
    OBVIOUS
  <2>2. Open(call.id)
    BY <2>1 DEF Phases
  <2>3. call.id \in emitted /\ IsPending(session, call.id)
    BY <2>2 DEF Open, Waiting, IsPending, OnlyOffer
  <2>4. call.id \in 1 .. MaxRequests
    BY <2>3 DEF TypeOK, BridgeTypeOK
  <2> QED
    BY <2>1, <2>2, <2>3, <2>4, NoneIsNothing DEF Fail, Return, Retry
<1>2. call.op # "approve" => Quiet(session) /\ shown' = None
  BY DEF Phases, Op, Fail, Return
<1>3. pc' = "idle" /\ call'.op = "none"
  BY DEF Fail, Return, NoCall
<1> QED
  BY <1>1, <1>2, <1>3, StillPhases DEF Consumed

LEMMA PhasesStep ==
  TypeOK /\ Control /\ Bindings /\ Books /\ Phases /\ [Next]_vars => Phases'
<1> SUFFICES ASSUME TypeOK, Control, Bindings, Books, Phases, [Next]_vars PROVE Phases'
  OBVIOUS
<1>0. /\ None \notin Session /\ call \in Call
      /\ session \in Session \cup {None} /\ opened \subseteq Session
  BY NoneIsNothing DEF TypeOK
<1>n. session = None => Quiet(session)
  BY NobodyWaits
<1>o. /\ call.op \in {"message", "slash", "resume"} => Quiet(session)
      /\ call.op = "approve" /\ pc \in Unconsumed => Open(call.id)
      /\ pc = "idle" => IF shown = None THEN Quiet(session) ELSE Open(shown)
      /\ pc \in Consumed => NothingOpen
      /\ call.op \in Op \cup {"none"}
  BY <1>0 DEF Phases, Call
<1>1. ASSUME NEW s \in Session, NewSession(s) PROVE Phases'
  <2>1. /\ pc' = "idle" /\ shown' = None /\ call' = NoCall /\ session' = s
        /\ UNCHANGED <<pending, emitted, hidden>>
        /\ s # session /\ Quiet(session)
    <3>1. s # session
      BY <1>0, <1>1 DEF NewSession, Control
    <3>2. Quiet(session)
      BY <1>1, <1>n, <1>o DEF NewSession, Control
    <3> QED
      BY <1>1, <3>1, <3>2 DEF NewSession, Return, bridgeVars
  <2>2. \A x \in Session : Quiet(x)
    BY <2>1 DEF Phases
  <2>3. \A x \in Session : Quiet(x)'
    BY <2>1, <2>2 DEF Quiet, Waiting, OnlyOffer
  <2>4. Quiet(session)'
    BY <2>1, <2>3
  <2> QED
    BY <2>1, <2>3, <2>4 DEF Phases, NoCall, Unconsumed, Consumed
<1>2. ASSUME NEW s \in Session, StartResume(s) PROVE Phases'
  <2>1. /\ pc' \in {"ask target", "adopt"} /\ call'.op = "resume"
        /\ UNCHANGED <<pending, emitted, hidden, session>> /\ Quiet(session)
    BY <1>2, <1>n DEF StartResume, Goto, NoCall, bridgeVars, sessionVars, Control
  <2> QED
    BY <2>1, StillPhases DEF Unconsumed, Consumed
<1>3. ASSUME NEW op \in Op, NEW s \in Session, SendMessage(op, s) PROVE Phases'
  <2>1. /\ pc' \in {"ask", "adopt", "run"} /\ call'.op # "approve"
        /\ UNCHANGED <<pending, emitted, hidden, session>> /\ Quiet(session)
    BY <1>3, <1>o DEF SendMessage, Goto, NoCall, bridgeVars, sessionVars
  <2> QED
    BY <2>1, StillPhases DEF Consumed
<1>4. CASE Ask \/ AskTarget \/ AskAgain
  <2>1. /\ UNCHANGED <<pending, emitted, hidden, session>>
        /\ call'.op = call.op /\ call'.id = call.id
        /\ pc' # "idle" /\ (pc' \in Unconsumed => pc \in Unconsumed)
        /\ pc' \in Consumed => pc \in Consumed
    BY <1>0, <1>4 DEF Ask, AskTarget, AskAgain, Goto, Unconsumed, Consumed, bridgeVars, sessionVars, Call
  <2> QED
    BY <1>o, <2>1, StillPhases
<1>5. CASE Fail /\ pc \in {"bind", "save", "expect"} /\ UNCHANGED <<pending, emitted, hidden, session>>
  <2>1. call.op \in Op /\ pc \in Unconsumed
    BY <1>5, <1>o DEF Control, Op, Unconsumed
  <2> QED
    BY <1>5, <2>1, FailPhases
<1>6. CASE /\ pc \in Unconsumed /\ pc' # "idle" /\ pc' \notin Consumed
           /\ call'.op = call.op /\ call'.id = call.id
           /\ UNCHANGED <<pending, emitted, hidden, session>>
  BY <1>6, <1>o, StillPhases
<1>7. CASE Bind \/ Save \/ SaveFails \/ Expect
  <2>1. UNCHANGED <<pending, emitted, hidden, session>> /\ pc \in {"bind", "save", "expect"}
    BY <1>7 DEF Bind, Save, SaveFails, Expect, bridgeVars, sessionVars
  <2>2. Fail \/ (/\ pc' \in {"save", "ask target", "expect", "run", "execute"}
                /\ call'.op = call.op /\ call'.id = call.id)
    BY <1>0, <1>7 DEF Bind, Save, SaveFails, Expect, Goto, AfterSave, Call
  <2> QED
    BY <1>5, <1>6, <2>1, <2>2 DEF Unconsumed, Consumed
<1>8. ASSUME NEW requests \in Requests, NEW fails \in BOOLEAN, Run(requests, fails) PROVE Phases'
  <2> DEFINE now == Enqueue(requests)
             offer == Offer(session, now.queue, now.pending)
             covered == fails /\ call.op = "message" /\ offer # None
             n == Len(requests)
             own == Waiting(session, pending)
  <2>1. /\ session # None /\ UNCHANGED session /\ pending' = now.pending
        /\ emitted' = emitted \cup ({offer} \ {None})
        /\ hidden' = hidden \cup (IF covered THEN {offer} ELSE {})
        /\ pc' = "idle" /\ call' = NoCall
        /\ shown' = IF covered THEN None ELSE offer
    BY <1>8 DEF Run, Return, Control, sessionVars
  <2>2. /\ pending' = pending \cup {requests[i] : i \in 1 .. n}
        /\ \A i \in 1 .. n : requests[i].id = made + i /\ requests[i].session = session
        /\ now.queue \in Seq(1 .. MaxRequests) /\ Ordered(now.queue, now.pending)
    BY <2>1, <1>8, EnqueueTyped, EnqueueOrdered DEF Books
  <2>3. n \in Nat /\ made \in Nat
    <3>1. made \in 0 .. MaxRequests /\ requests \in Seq(Request)
      BY <1>8, <2>1, EnqueueTyped DEF TypeOK
    <3> QED
      BY <3>1, NoneIsNothing, LenProperties
  <2>4. IF Waiting(session, pending') = {} \/ Waiting(session, pending') \cap emitted # {}
        THEN offer = None
        ELSE /\ offer \in Waiting(session, pending') /\ offer \in 1 .. MaxRequests
             /\ \A j \in Waiting(session, pending') : offer <= j
    BY <2>1, <2>2, OfferIs
  <2>5. Quiet(session)
    BY <1>8, <1>o DEF Run, Control
  <2>10. \A r, x \in pending' : r.id = x.id => r = x
    BY <2>1, <2>2 DEF Ordered
  <2> HIDE DEF now, offer, n
  <2>11. /\ offer = None => emitted' = emitted /\ hidden' = hidden
         /\ \A s : None \notin Waiting(s, pending')
    <3>1. \A r \in pending' : r.id \in 1 .. MaxRequests
      <4>1. pending' \subseteq Request
        BY <1>8, <2>1, EnqueueTyped DEF now
      <4> QED
        BY <4>1 DEF Request
    <3> QED
      BY <2>1, <3>1, NoneIsNothing DEF Waiting
  <2>12. ASSUME NEW r \in pending', r \notin pending
         PROVE  r.id \in Nat /\ made < r.id /\ r.id \notin emitted \cup hidden
    <3>1. PICK i \in 1 .. n : r = requests[i]
      BY <2>2, <2>12
    <3>2. r.id = made + i
      BY <2>2, <3>1
    <3> QED
      BY <2>3, <3>2 DEF Books, Numbered
  <2>6. own \subseteq Waiting(session, pending')
    BY <2>2 DEF Waiting
  <2>7. ASSUME NEW s \in Session, s # session PROVE Quiet(s)'
    <3>1. Waiting(s, pending') = Waiting(s, pending)
      BY <2>2, <2>7 DEF Waiting
    <3>2. Quiet(s)
      BY <2>7 DEF Phases
    <3>3. offer \notin Waiting(s, pending')
      <4>1. CASE offer = None
        BY <2>11, <4>1
      <4>2. CASE offer # None
        <5>1. offer \in Waiting(session, pending')
          BY <2>4, <4>2
        <5> QED
          BY <2>7, <2>10, <5>1 DEF Waiting
      <4> QED
        BY <4>1, <4>2
    <3> QED
      BY <2>1, <3>1, <3>2, <3>3 DEF Quiet, OnlyOffer
  <2>8. IF shown' = None THEN Quiet(session)' ELSE Open(shown)'
    <3>1. ASSUME NEW id \in hidden, OnlyOffer(session, id)
          PROVE  IF shown' = None THEN Quiet(session)' ELSE Open(shown)'
      <4>1. offer = None /\ shown' = None /\ hidden' = hidden /\ emitted' = emitted
        BY <2>1, <2>4, <2>6, <2>11, <3>1 DEF OnlyOffer
      <4>2. id <= made /\ id \in Nat
        <5>1. id \in 1 .. MaxRequests
          BY DEF TypeOK
        <5> QED
          BY <5>1, NoneIsNothing DEF Books, Numbered
      <4>3. \A j \in Waiting(session, pending') : id <= j /\ (j \in emitted => j = id)
        <5>1. ASSUME NEW r \in pending', r.session = session
              PROVE  id <= r.id /\ (r.id \in emitted => r.id = id)
          <6>1. CASE r \in pending
            BY <3>1, <5>1, <6>1 DEF OnlyOffer, Waiting
          <6>2. CASE r \notin pending
            BY <2>3, <2>12, <4>2, <6>2
          <6> QED
            BY <6>1, <6>2
        <5> QED
          BY <5>1 DEF Waiting
      <4>4. OnlyOffer(session, id)'
        BY <2>1, <2>6, <3>1, <4>1, <4>3 DEF OnlyOffer
      <4> QED
        BY <3>1, <4>1, <4>4 DEF Quiet
    <3>2. CASE own = {}
      <4>1. \A id \in Waiting(session, pending') : id \notin emitted /\ id \notin hidden
        <5>1. ASSUME NEW r \in pending', r.session = session PROVE r.id \notin emitted \cup hidden
          BY <2>12, <3>2, <5>1 DEF Waiting
        <5> QED
          BY <5>1 DEF Waiting
      <4>2. CASE Waiting(session, pending') = {}
        <5>1. shown' = None
          BY <2>1, <2>4, <4>2
        <5> QED
          BY <2>1, <4>2, <5>1 DEF Quiet, OnlyOffer
      <4>3. CASE Waiting(session, pending') # {}
        <5>1. /\ offer \in Waiting(session, pending') /\ offer \in 1 .. MaxRequests
              /\ \A j \in Waiting(session, pending') : offer <= j
          BY <2>4, <4>1, <4>3
        <5>2. offer # None
          BY <5>1, NoneIsNothing
        <5>0. PICK first : first = offer
          OBVIOUS
        <5>3. OnlyOffer(session, first)'
          BY <2>1, <4>1, <5>1, <5>2, <5>0 DEF OnlyOffer
        <5>4. CASE covered
          BY <2>1, <5>2, <5>3, <5>4, <5>0 DEF Quiet
        <5>5. CASE ~covered
          <6>1. shown' = first /\ first \notin hidden' /\ first # None
            BY <2>1, <4>1, <5>1, <5>2, <5>5, <5>0
          <6>2. Open(shown)'
            BY <5>3, <6>1 DEF Open, OnlyOffer
          <6> QED
            BY <6>1, <6>2
        <5> QED
          BY <5>4, <5>5
      <4> QED
        BY <4>2, <4>3
    <3> QED
      BY <2>5, <3>1, <3>2 DEF Quiet, OnlyOffer
  <2> QED
    BY <2>1, <2>7, <2>8 DEF Phases, NoCall, Unconsumed, Consumed
<1>9. CASE Authorize
  <2>1. UNCHANGED <<pending, emitted, hidden, session>> /\ Quiet(session)
    BY <1>9, <1>o DEF Authorize, Control, bridgeVars, sessionVars
  <2>2. \/ pc' = "adopt" /\ call'.op = "resume"
        \/ pc' \in {"start", "idle"} /\ call'.op = "none" /\ shown' = None
    BY <1>0, <1>9 DEF Authorize, Goto, Control, Call, NoCall
  <2> QED
    BY <2>1, <2>2, StillPhases DEF Unconsumed, Consumed
<1>10. CASE Adopt
  <2>1. /\ session' = call.target /\ pc' = "idle" /\ call' = NoCall /\ shown' = None
        /\ UNCHANGED <<pending, emitted, hidden>>
        /\ call.op = "resume" /\ call.target \in opened
    BY <1>10 DEF Adopt, Return, Control, bridgeVars
  <2>2. \A s \in Session : Quiet(s)
    BY <1>o, <2>1 DEF Phases
  <2>3. \A s \in Session : Quiet(s)'
    BY <2>1, <2>2 DEF Quiet, Waiting, OnlyOffer
  <2>4. Quiet(session)'
    BY <1>0, <2>1, <2>3
  <2> QED
    BY <2>1, <2>3, <2>4 DEF Phases, NoCall, Unconsumed, Consumed
<1>11. CASE Reject
  <2>1. session # None /\ Open(shown)
    BY <1>11, <1>o DEF Reject, Control
  <2>2. /\ queue' = Consume(shown).queue /\ pending' = Consume(shown).pending
        /\ answered' = Answer(shown, FALSE) /\ executed' = executed
        /\ UNCHANGED <<emitted, hidden, made, session>>
        /\ pc' = "offer" /\ call' = NoCall
    BY <1>11 DEF Reject, Goto, sessionVars
  <2>3. NothingOpen' /\ \A s \in Session : s # session => (Quiet(s) => Quiet(s)')
    BY <2>1, <2>2, ConsumeBooks
  <2> QED
    BY <2>2, <2>3 DEF Phases, NoCall
<1>12. CASE Approve
  <2>1. /\ UNCHANGED <<pending, emitted, hidden, session>> /\ Open(shown)
        /\ call'.op = "approve" /\ call'.id = shown /\ pc' \in {"ask", "execute"}
    BY <1>12, <1>o DEF Approve, Goto, NoCall, bridgeVars, sessionVars
  <2> QED
    BY <2>1, StillPhases DEF Consumed
<1>13. ASSUME NEW ok \in BOOLEAN, NEW scope \in Scope, Execute(ok, scope) PROVE Phases'
  <2>1. session # None /\ Open(call.id)
    BY <1>13, <1>o DEF Execute, Control, Unconsumed
  <2>2. /\ queue' = Consume(call.id).queue /\ pending' = Consume(call.id).pending
        /\ answered' = Answer(call.id, TRUE) /\ executed' = Append(executed, call.id)
        /\ UNCHANGED <<emitted, hidden, made, session>>
        /\ pc' \in {"refresh", "offer"} /\ call' = call /\ call.op = "approve"
    BY <1>13 DEF Execute, Goto, sessionVars, Control
  <2>3. NothingOpen' /\ \A s \in Session : s # session => (Quiet(s) => Quiet(s)')
    BY <2>1, <2>2, ConsumeBooks
  <2> QED
    BY <2>2, <2>3 DEF Phases, Unconsumed
<1>14. CASE (\E ok \in BOOLEAN : Refresh(ok)) \/ Rebind \/ RebindTorn
  <2>1. /\ UNCHANGED <<pending, emitted, hidden, session, call>>
        /\ pc \in Consumed /\ pc' \in {"ask again", "offer"} /\ call.op = "approve"
    BY <1>14 DEF Refresh, Rebind, RebindTorn, Goto, Consumed, Control, bridgeVars, sessionVars
  <2> QED
    BY <1>o, <2>1, StillPhases DEF Unconsumed
<1>15. CASE OfferNext
  <2> DEFINE offer == Offer(session, queue, pending)
             own == Waiting(session, pending)
  <2>1. /\ UNCHANGED <<pending, hidden, session>> /\ emitted' = emitted \cup ({offer} \ {None})
        /\ pc' = "idle" /\ call' = NoCall /\ shown' = offer
    BY <1>15 DEF OfferNext, Return, sessionVars
  <2>2. NothingOpen
    BY <1>15, <1>o DEF OfferNext, Consumed
  <2>3. IF own = {} THEN offer = None
        ELSE offer \in own /\ offer \in 1 .. MaxRequests /\ \A j \in own : offer <= j
    <3>1. own \cap emitted = {}
      BY <2>2 DEF NothingOpen
    <3>2. queue \in Seq(1 .. MaxRequests)
      BY DEF TypeOK, BridgeTypeOK
    <3> QED
      BY <3>1, <3>2, OfferIs DEF Books
  <2> HIDE DEF offer
  <2>4. ASSUME NEW s \in Session, s # session PROVE Quiet(s)'
    <3>1. Quiet(s)
      BY <2>4 DEF Phases
    <3>2. offer # None => offer \notin Waiting(s, pending)
      <4>1. \A r, x \in pending : r.id = x.id => r = x
        BY DEF Books, Ordered
      <4> QED
        BY <2>3, <2>4, <4>1 DEF Waiting
    <3> QED
      BY <2>1, <3>1, <3>2 DEF Quiet, OnlyOffer
  <2>5. IF shown' = None THEN Quiet(session)' ELSE Open(shown)'
    <3>1. CASE own = {}
      BY <2>1, <2>3, <3>1 DEF Quiet, OnlyOffer
    <3>2. CASE own # {}
      <4>1. offer # None /\ emitted' = emitted \cup {offer} /\ shown' = offer
        BY <2>1, <2>3, <3>2, NoneIsNothing
      <4>2. PICK first : first = offer
        OBVIOUS
      <4>3. OnlyOffer(session, first)'
        BY <2>1, <2>2, <2>3, <3>2, <4>1, <4>2 DEF NothingOpen, OnlyOffer
      <4>4. first \notin hidden
        BY <2>2, <2>3, <3>2, <4>2 DEF NothingOpen, Books, CoveredWaits
      <4>5. Open(shown)'
        BY <2>1, <4>1, <4>2, <4>3, <4>4 DEF Open, OnlyOffer
      <4> QED
        BY <4>1, <4>2, <4>5
    <3> QED
      BY <3>1, <3>2
  <2> QED
    BY <2>1, <2>4, <2>5 DEF Phases, NoCall, Unconsumed, Consumed
<1>16. CASE UNCHANGED <<pending, emitted, hidden, session, shown, pc, call>>
  BY <1>16, <1>o, StillPhases
<1>17. ASSUME NEW context \in Context, ProviderChanges(context) PROVE Phases'
  BY <1>16, <1>17 DEF ProviderChanges, bridgeVars, sessionVars, clientVars
<1>18. ASSUME NEW s \in Session, NEW scope \in Scope, OtherProgramRebinds(s, scope) PROVE Phases'
  BY <1>16, <1>18 DEF OtherProgramRebinds, bridgeVars, clientVars
<1>19. CASE Restart
  <2>1. pending' = {} /\ pc' = "start" /\ call' = call /\ pc = "idle"
    BY <1>19 DEF Restart
  <2>2. \A s : Waiting(s, pending') = {}
    BY <2>1 DEF Waiting
  <2>3. (\A s \in Session : Quiet(s)') /\ Quiet(session)'
    BY <2>2 DEF Quiet, OnlyOffer
  <2> QED
    BY <2>1, <2>3 DEF Phases, Unconsumed, Consumed
<1>20. CASE UNCHANGED vars
  BY <1>16, <1>20 DEF vars, bridgeVars, sessionVars, clientVars
<1> QED
  BY <1>1, <1>2, <1>3, <1>4, <1>7, <1>8, <1>9, <1>10, <1>11, <1>12, <1>13, <1>14, <1>15,
     <1>17, <1>18, <1>19, <1>20 DEF Next, AtRest

-----------------------------------------------------------------------------
(***************************************************************************)
(* The theorems                                                            *)
(***************************************************************************)

LEMMA InitHolds == Init => IInv
<1> SUFFICES ASSUME Init PROVE IInv
  OBVIOUS
<1>1. TypeOK
  BY InitTyped
<1>2. Control
  BY DEF Init, Control, NoCall
<1>3. Bindings
  BY DEF Init, Bindings, Authorizing
<1>4. /\ queue = <<>> /\ DOMAIN queue = {} /\ pending = {} /\ emitted = {} /\ hidden = {}
      /\ answered = <<>> /\ DOMAIN answered = {} /\ executed = <<>> /\ DOMAIN executed = {}
  BY DEF Init, BridgeInit
<1>5. Ordered(queue, pending) /\ Numbered /\ AnsweredBefore
  BY <1>4 DEF Ordered, Numbered, AnsweredBefore
<1>6. AnsweredInOrder
  <2>1. Range(executed) = {} /\ Range(answered) = {}
    BY <1>4 DEF Range
  <2> QED
    BY <1>4, <2>1 DEF AnsweredInOrder
<1>7. Phases
  <2>1. \A s : Waiting(s, pending) = {}
    BY <1>4 DEF Waiting
  <2> QED
    BY <2>1 DEF Init, NoCall, Phases, Quiet, Unconsumed, Consumed
<1>8. CoveredWaits
  BY <1>4 DEF CoveredWaits
<1> QED
  BY <1>1, <1>2, <1>3, <1>5, <1>6, <1>7, <1>8 DEF IInv, Books

LEMMA InductiveStep == IInv /\ [Next]_vars => IInv'
BY TypeStep, ControlStep, BindingsStep, BooksStep, PhasesStep DEF IInv

\* The invariant of the manager with its bridge and its envelopes.
THEOREM RuntimeInvariant == Spec => []IInv
<1> QED
  BY InitHolds, InductiveStep, PTL DEF Spec

\* Every variable keeps its type.
THEOREM RuntimeTypeCorrect == Spec => []TypeOK
<1>1. IInv => TypeOK
  BY DEF IInv
<1> QED
  BY <1>1, RuntimeInvariant, PTL

\* The smallest of some naturals is their minimum.
LEMMA MinIs ==
  ASSUME NEW N, N \subseteq Nat, NEW n \in N, \A m \in N : n <= m
  PROVE  Min(N) = n
<1>1. \A k \in N : (\A m \in N : k <= m) => k = n
  OBVIOUS
<1> QED
  BY <1>1 DEF Min

\* FirstIsShown: between two calls the oldest unanswered request of the live session
\* is its only open one, and it is shown; only an error that follows the offer in the
\* answer of the agent covers it, and then for as long as the program runs.
THEOREM ShowsTheFirst == Spec => []FirstIsShown
<1>1. IInv => FirstIsShown
  <2> SUFFICES ASSUME IInv PROVE FirstIsShown
    OBVIOUS
  <2>1. hidden \subseteq {r.id : r \in pending}
    BY DEF IInv, Books, CoveredWaits
  <2>2. Own \subseteq Nat /\ None \notin Own
    <3>0. pending \subseteq Request
      BY DEF IInv, TypeOK, BridgeTypeOK
    <3>1. Own \subseteq 1 .. MaxRequests
      BY <3>0 DEF Request, Own, Waiting
    <3>2. 1 .. MaxRequests \subseteq Nat /\ None \notin 1 .. MaxRequests
      BY NoneIsNothing
    <3> QED
      BY <3>1, <3>2
  <2>3. ASSUME NEW id, OnlyOffer(session, id)
        PROVE  id \in Own /\ Min(Own) = id /\ Own \cap emitted = {id}
    <3>1. id \in Own /\ Own \cap emitted = {id} /\ \A m \in Own : id <= m
      BY <2>3 DEF OnlyOffer, Own
    <3> QED
      BY <2>2, <3>1, MinIs
  <2>4. ASSUME pc = "idle"
        PROVE  IF Own = {} THEN shown = None
               ELSE Own \cap emitted = {Min(Own)}
                    /\ shown = IF Min(Own) \in hidden THEN None ELSE Min(Own)
    <3>1. IF shown = None THEN Quiet(session) ELSE Open(shown)
      BY <2>4 DEF IInv, Phases
    <3>2. CASE shown = None
      BY <2>3, <3>1, <3>2 DEF Quiet, Own
    <3>3. CASE shown # None
      BY <2>3, <3>1, <3>3 DEF Open
    <3> QED
      BY <3>2, <3>3
  <2> QED
    BY <2>1, <2>4 DEF FirstIsShown
<1> QED
  BY <1>1, RuntimeInvariant, PTL

\* AnsweredInOrder: requests are answered once and in their order, and what runs is
\* what was approved, once and in the order of approval.
THEOREM RunsWhatWasApproved == Spec => []AnsweredInOrder
<1>1. IInv => AnsweredInOrder
  BY DEF IInv, Books
<1> QED
  BY <1>1, RuntimeInvariant, PTL

\* BoundAsOnDisk: unless another program rebound the session since the call compared
\* the two, a permissioned session runs and executes only under the context of its
\* envelope, and between two calls memory and disk differ only after a bind that could
\* not write or a rebind that was torn.
THEOREM BindingOnDisk == Spec => []BoundAsOnDisk
<1>1. IInv => BoundAsOnDisk
  BY DEF IInv, Control, Bindings, BoundAsOnDisk
<1> QED
  BY <1>1, RuntimeInvariant, PTL

LEMMA KeepsWho ==
  ASSUME IInv, Next, NEW s \in Session, envelope[s] # NoEnvelope
  PROVE  envelope'[s] # NoEnvelope /\ envelope'[s].context.who = envelope[s].context.who
<1>0. /\ envelope \in [Session -> Envelope \cup {NoEnvelope}]
      /\ session \in Session \cup {None} /\ None \notin Session
      /\ written \in Nat
  BY NoneIsNothing DEF IInv, TypeOK
<1>1. ASSUME NEW x \in Session, NEW c, Write(x, c), x = s => c.who = envelope[s].context.who
      PROVE  envelope'[s] # NoEnvelope /\ envelope'[s].context.who = envelope[s].context.who
  <2>1. CASE x = s
    <3>1. envelope'[s] = [context |-> c, at |-> written + 1] /\ written + 1 # 0
      BY <1>0, <1>1, <2>1 DEF Write
    <3> QED
      BY <1>1, <2>1, <3>1 DEF NoEnvelope
  <2>2. CASE x # s
    BY <1>0, <1>1, <2>2 DEF Write
  <2> QED
    BY <2>1, <2>2
<1>2. CASE UNCHANGED envelope
  BY <1>2
<1>3. CASE Save
  <2>1. session \in Session
    BY <1>0, <1>3 DEF Save, IInv, Control
  <2> QED
    BY <1>1, <1>2, <1>3, <2>1 DEF Save
<1>4. CASE Rebind \/ RebindTorn
  <2>1. session \in Session /\ permissioned
    BY <1>0, <1>4 DEF Rebind, RebindTorn, IInv, Control, Bindings, Authorizing
  <2>2. call.expected.context = call.context
    BY <1>4, <2>1 DEF Rebind, RebindTorn, IInv, Bindings
  <2>3. \/ UNCHANGED envelope
        \/ /\ Write(session, call.next) /\ call.next.who = call.context.who
           /\ envelope[session] = call.expected
    BY <1>4 DEF Rebind, RebindTorn, AllowsArtifactScopeTransition
  <2> QED
    BY <1>1, <1>2, <2>1, <2>2, <2>3
<1>5. ASSUME NEW x \in Session, NEW scope \in Scope, OtherProgramRebinds(x, scope)
      PROVE  envelope'[s] # NoEnvelope /\ envelope'[s].context.who = envelope[s].context.who
  <2> DEFINE c == [envelope[x].context EXCEPT !.scope = scope]
  <2>1. Write(x, c) /\ envelope[x] \in Envelope
    BY <1>0, <1>5 DEF OtherProgramRebinds
  <2>2. c.who = envelope[x].context.who
    BY <2>1 DEF Envelope, Context
  <2> HIDE DEF c
  <2> QED
    BY <1>1, <2>1, <2>2
<1> QED
  BY <1>2, <1>3, <1>4, <1>5
     DEF Next, NewSession, StartResume, SendMessage, Ask, Bind, SaveFails, Run, AskTarget,
         Authorize, Adopt, Reject, Approve, Expect, Execute, Refresh, AskAgain, OfferNext,
         ProviderChanges, Restart, AtRest, vars, sessionVars

\* SessionKeepsPrincipal: a session stays with the principal, model, agent and task it
\* was first bound for, whatever the provider answers and whoever rebinds it.
THEOREM KeepsPrincipal == Spec => SessionKeepsPrincipal
<1>1. IInv /\ [Next]_vars =>
        [\A s \in Session : envelope[s] # NoEnvelope =>
           envelope'[s] # NoEnvelope /\ envelope'[s].context.who = envelope[s].context.who]_vars
  BY KeepsWho
<1> QED
  BY <1>1, RuntimeInvariant, PTL DEF Spec, SessionKeepsPrincipal

=============================================================================
