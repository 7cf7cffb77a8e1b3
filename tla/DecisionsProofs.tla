--------------------------- MODULE DecisionsProofs ---------------------------
(***************************************************************************)
(* Proofs about what is decided of each resource, event and commit: by the *)
(* local authorizer, for any users, objects, snapshots and offered tuples; *)
(* on a traversal, for any graph, limits and answers of the authorizer; in *)
(* a replay, for any recorded events; and by the release gate, for any     *)
(* contents of the sources and any bounds.  Modules LocalAuthorizer,       *)
(* Traversal, ReplayFilter and ReleaseGate share no state, and a lemma     *)
(* here is about one of them, but for the two about numbers.               *)
(***************************************************************************)
EXTENDS LocalAuthorizer, Traversal, ReplayFilter, ReleaseGate,
        FiniteSetTheorems, SequenceTheorems, WellFoundedInduction, TLAPS

-----------------------------------------------------------------------------
\* A set of numbers has a least one.
LEMMA LeastOf ==
  ASSUME NEW N, N \subseteq Nat, N # {}
  PROVE  \E n \in N : \A m \in N : n <= m
<1> DEFINE Below == {0 .. n : n \in N}
<1>1. Below \subseteq FiniteSubsetsOf(Nat) /\ Below # {}
  <2>1. ASSUME NEW n \in N PROVE 0 .. n \in FiniteSubsetsOf(Nat)
    BY FS_Interval DEF FiniteSubsetsOf
  <2> QED
    BY <2>1
<1>2. PICK b \in Below : \A a \in Below : <<a, b>> \notin StrictSubsetOrdering(Nat)
  <2> HIDE DEF Below
  <2> QED
    BY <1>1, FS_StrictSubsetOrderingWellFounded, WFMin
<1>3. PICK n \in N : b = 0 .. n
  OBVIOUS
<1>4. ASSUME NEW m \in N, m < n PROVE FALSE
  <2>1. 0 .. m \in Below /\ 0 .. m \in SUBSET Nat /\ b \in SUBSET Nat
    BY <1>3
  <2>2. 0 .. m \subseteq b /\ n \in b /\ n \notin 0 .. m
    BY <1>3, <1>4
  <2>3. <<0 .. m, b>> \in StrictSubsetOrdering(Nat)
    BY <2>1, <2>2 DEF StrictSubsetOrdering
  <2> QED
    BY <1>2, <2>1, <2>3
<1> QED
  BY <1>4

\* A set that has 0 and with each number of 0 .. n the next one has them all.
LEMMA Upwards ==
  ASSUME NEW n \in Nat, NEW Good, 0 \in Good,
         \A h \in 1 .. n : h - 1 \in Good => h \in Good
  PROVE  \A h \in 0 .. n : h \in Good
<1> SUFFICES ASSUME (0 .. n) \ Good # {} PROVE FALSE
  OBVIOUS
<1>1. PICK h \in (0 .. n) \ Good : \A g \in (0 .. n) \ Good : h <= g
  <2> DEFINE N == (0 .. n) \ Good
  <2>1. N \subseteq Nat /\ N # {}
    OBVIOUS
  <2> HIDE DEF N
  <2>2. \E h \in N : \A g \in N : h <= g
    BY <2>1, LeastOf
  <2> QED
    BY <2>2 DEF N
<1>2. h \in 1 .. n /\ h - 1 \in 0 .. n /\ ~(h <= h - 1)
  BY <1>1
<1> QED
  BY <1>1, <1>2

-----------------------------------------------------------------------------
(***************************************************************************)
(* The local authorizer                                                    *)
(***************************************************************************)
\* The inductive invariant of the local authorizer.
AuthorizerInv == AuthorizerTypeOK /\ BindingsExact

-----------------------------------------------------------------------------
\* The index

\* A relation that binds a claim is assigned to documents and entities only.
LEMMA SingularUsers ==
  ASSUME NEW t \in ModelTuple, t.relation \in Singular
  PROVE  /\ t.user \in Document \cup Entity
         /\ t.user # NoObject
BY LocalAuthorizerAssumption DEF ModelTuple, Singular

\* Adding a tuple adds it to those about its object.
LEMMA AboutAdded ==
  ASSUME NEW T, NEW t, NEW c
  PROVE  About(T \cup {t}, c) = IF t.object = c THEN About(T, c) \cup {t} ELSE About(T, c)
BY DEF About

LEMMA AboutRemoved ==
  ASSUME NEW T, NEW t, NEW c
  PROVE  About(T \ {t}, c) = IF t.object = c THEN About(T, c) \ {t} ELSE About(T, c)
BY DEF About

LEMMA AboutFinite ==
  ASSUME NEW T, IsFiniteSet(T), NEW c
  PROVE  IsFiniteSet(About(T, c)) /\ Cardinality(About(T, c)) \in Nat
<1>1. About(T, c) \subseteq T
  BY DEF About
<1>2. IsFiniteSet(About(T, c))
  BY <1>1, FS_Subset
<1> QED
  BY <1>2, FS_CardinalityType

\* The first index is exact.
LEMMA InitIndexed == AuthorizerInit => AuthorizerInv
<1> SUFFICES ASSUME AuthorizerInit PROVE AuthorizerInv
  OBVIOUS
<1>1. tuples \subseteq ModelTuple /\ IsFiniteSet(tuples) /\ SnapshotValid(tuples)
  BY LocalAuthorizerAssumption DEF AuthorizerInit, SnapshotValid
<1>2. claimBindings = IndexOf(tuples)
  BY DEF AuthorizerInit
<1>3. ASSUME NEW c \in Claim, NEW r \in Singular
      PROVE  /\ claimBindings[c].of[r] \in Document \cup Entity \cup {NoObject}
             /\ claimBindings[c].of[r] # NoObject => Has(claimBindings[c].of[r], r, c)
             /\ \A t \in About(tuples, c) :
                  t.relation = r => claimBindings[c].of[r] = t.user
  <2> DEFINE A == Assigned(tuples, r, c)
  <2>1. claimBindings[c].of[r] = IF A = {} THEN NoObject ELSE CHOOSE x \in A : TRUE
    BY <1>2 DEF IndexOf
  <2>2. \A x \in A : /\ \E t \in tuples : t.user = x /\ t.relation = r /\ t.object = c
                     /\ x \in Document \cup Entity
    BY <1>1, SingularUsers DEF Assigned
  <2>3. \A x \in A : Has(x, r, c)
    BY <1>1, <2>2 DEF Has, Tuple, ModelTuple
  <2>4. \A t \in About(tuples, c) : t.relation = r => t.user \in A
    BY DEF About, Assigned
  <2>5. \A x, y \in A : x = y
    <3> SUFFICES ASSUME NEW x \in A, NEW y \in A PROVE x = y
      OBVIOUS
    <3>1. About(tuples, c) # {}
      BY DEF About, Assigned
    <3> QED
      BY <1>1, <3>1 DEF SnapshotValid
  <2>6. CASE A = {}
    BY <2>1, <2>4, <2>6
  <2>7. CASE A # {}
    <3>1. (CHOOSE x \in A : TRUE) \in A
      BY <2>7
    <3>2. claimBindings[c].of[r] \in A
      BY <2>1, <2>7, <3>1
    <3> HIDE DEF A
    <3> QED
      BY <2>2, <2>3, <2>4, <2>5, <3>2
  <2> QED
    BY <2>6, <2>7
<1>4. ASSUME NEW c \in Claim
      PROVE  claimBindings[c].count = Cardinality(About(tuples, c))
  BY <1>2 DEF IndexOf
<1>5. claimBindings \in
        [Claim -> [count : Nat, of : [Singular -> Document \cup Entity \cup {NoObject}]]]
  <2> SUFFICES ASSUME NEW c \in Claim
               PROVE  claimBindings[c] \in
                        [count : Nat, of : [Singular -> Document \cup Entity \cup {NoObject}]]
    BY <1>2 DEF IndexOf
  <2>1. claimBindings[c] = [count |-> claimBindings[c].count, of |-> claimBindings[c].of]
    BY <1>2 DEF IndexOf
  <2>2. claimBindings[c].of =
          [r \in Singular |-> IF Assigned(tuples, r, c) = {} THEN NoObject
                              ELSE CHOOSE x \in Assigned(tuples, r, c) : TRUE]
    BY <1>2 DEF IndexOf
  <2>3. claimBindings[c].count \in Nat
    BY <1>1, <1>4, AboutFinite
  <2>4. claimBindings[c].of \in [Singular -> Document \cup Entity \cup {NoObject}]
    BY <1>3, <2>2
  <2> QED
    BY <2>1, <2>3, <2>4
<1> QED
  BY <1>1, <1>3, <1>4, <1>5 DEF AuthorizerInv, AuthorizerTypeOK, BindingsExact

\* What the index says of one claim, as a fact about any set of tuples.
Binding == [count : Nat, of : [Singular -> Document \cup Entity \cup {NoObject}]]

Exact(T, b, c) ==
  /\ b \in Binding
  /\ b.count = Cardinality(About(T, c))
  /\ \A r \in Singular : b.of[r] # NoObject => Tuple(b.of[r], r, c) \in T
  /\ \A r \in Singular : \A t \in About(T, c) : t.relation = r => b.of[r] = t.user

LEMMA AuthorizerInvExact ==
  AuthorizerInv <=> /\ tuples \subseteq ModelTuple /\ IsFiniteSet(tuples)
           /\ claimBindings \in [Claim -> Binding]
           /\ \A c \in Claim : Exact(tuples, claimBindings[c], c)
BY DEF AuthorizerInv, AuthorizerTypeOK, BindingsExact, Exact, Binding, Has

LEMMA TupleFields ==
  ASSUME NEW t \in ModelTuple
  PROVE  t = Tuple(t.user, t.relation, t.object)
BY DEF ModelTuple, Tuple

\* The index of a claim stays exact when a tuple about it is added.
LEMMA BoundExact ==
  ASSUME NEW T, T \subseteq ModelTuple, IsFiniteSet(T),
         NEW t \in ModelTuple, t \notin T,
         NEW b, Exact(T, b, t.object),
         t.relation \in Singular => b.of[t.relation] \in {NoObject, t.user}
  PROVE  Exact(T \cup {t}, Bound(b, t), t.object)
<1> DEFINE c == t.object
           U == T \cup {t}
           n == Bound(b, t)
<1>1. About(U, c) = About(T, c) \cup {t} /\ t \notin About(T, c)
  BY AboutAdded DEF About
<1>2. b \in Binding /\ n.count = b.count + 1
  BY DEF Exact, Bound
<1>3. n.of = IF t.relation \in Singular THEN [b.of EXCEPT ![t.relation] = t.user] ELSE b.of
  BY DEF Bound
<1>4. ASSUME NEW r \in Singular
      PROVE  n.of[r] = IF r = t.relation THEN t.user ELSE b.of[r]
  BY <1>2, <1>3 DEF Binding
<1>5. n.count = Cardinality(About(U, c))
  <2>1. IsFiniteSet(About(T, c))
    BY AboutFinite
  <2>2. Cardinality(About(U, c)) = Cardinality(About(T, c)) + 1
    BY <1>1, <2>1, FS_AddElement
  <2> QED
    BY <1>2, <2>2 DEF Exact
<1>6. n \in Binding
  <2>1. t.relation \in Singular => t.user \in Document \cup Entity
    BY SingularUsers
  <2>2. n.of \in [Singular -> Document \cup Entity \cup {NoObject}]
    BY <1>2, <1>3, <2>1 DEF Binding
  <2>3. n = [count |-> n.count, of |-> n.of]
    BY DEF Bound
  <2>4. n.count \in Nat
    BY <1>2 DEF Binding
  <2> QED
    BY <2>2, <2>3, <2>4 DEF Binding
<1>7. ASSUME NEW r \in Singular, n.of[r] # NoObject
      PROVE  Tuple(n.of[r], r, c) \in U
  <2>1. CASE r = t.relation
    BY <1>4, <2>1, TupleFields
  <2>2. CASE r # t.relation
    BY <1>4, <1>7, <2>2 DEF Exact
  <2> QED
    BY <2>1, <2>2
<1>8. ASSUME NEW r \in Singular, NEW s \in About(U, c), s.relation = r
      PROVE  n.of[r] = s.user
  <2>1. CASE s = t
    BY <1>4, <1>8, <2>1
  <2>2. CASE s # t
    <3>1. s \in About(T, c)
      BY <1>1, <2>2
    <3>2. b.of[r] = s.user /\ s \in ModelTuple
      BY <1>8, <3>1 DEF Exact, About
    <3>3. s.user # NoObject
      BY <1>8, <3>2, SingularUsers
    <3> QED
      BY <1>4, <3>2, <3>3
  <2> QED
    BY <2>1, <2>2
<1> HIDE DEF c, U, n
<1>9. Exact(U, n, c)
  BY <1>5, <1>6, <1>7, <1>8 DEF Exact
<1> QED
  BY <1>9 DEF c, U, n

\* The index of a claim stays exact when a tuple about it is removed.
LEMMA UnboundExact ==
  ASSUME NEW T, T \subseteq ModelTuple, IsFiniteSet(T),
         NEW t \in T, NEW b, Exact(T, b, t.object)
  PROVE  Exact(T \ {t}, IF b.count = 1 THEN NoBindings ELSE Unbound(b, t), t.object)
<1> DEFINE c == t.object
           U == T \ {t}
<1>1. About(U, c) = About(T, c) \ {t} /\ t \in About(T, c)
  BY AboutRemoved DEF About
<1>2. /\ Cardinality(About(U, c)) = b.count - 1
      /\ Cardinality(About(U, c)) \in Nat
      /\ IsFiniteSet(About(U, c))
  <2>1. IsFiniteSet(About(T, c))
    BY AboutFinite
  <2>2. /\ IsFiniteSet(About(U, c))
        /\ Cardinality(About(U, c)) = Cardinality(About(T, c)) - 1
    BY <1>1, <2>1, FS_RemoveElement
  <2> QED
    BY <2>2, FS_CardinalityType DEF Exact
<1>3. b \in Binding
  BY DEF Exact
<1>4. CASE b.count = 1
  <2> DEFINE n == NoBindings
  <2>1. About(U, c) = {}
    BY <1>2, <1>4, FS_EmptySet
  <2>2. n \in Binding /\ n.count = 0 /\ \A r \in Singular : n.of[r] = NoObject
    BY DEF NoBindings, Binding
  <2>3. n.count = Cardinality(About(U, c))
    BY <2>1, <2>2, FS_EmptySet
  <2> HIDE DEF c, U, n
  <2>4. Exact(U, n, c)
    BY <2>1, <2>2, <2>3 DEF Exact
  <2> QED
    BY <1>4, <2>4 DEF c, U, n
<1>5. CASE b.count # 1
  <2> DEFINE n == Unbound(b, t)
  <2>1. n.count = Cardinality(About(U, c))
    BY <1>2 DEF Unbound
  <2>2. n.of = IF t.relation \in Singular /\ b.of[t.relation] = t.user
               THEN [b.of EXCEPT ![t.relation] = NoObject] ELSE b.of
    BY DEF Unbound
  <2>3. n \in Binding
    <3>1. n.of \in [Singular -> Document \cup Entity \cup {NoObject}]
      BY <1>3, <2>2 DEF Binding
    <3>2. n = [count |-> n.count, of |-> n.of]
      BY DEF Unbound
    <3> QED
      BY <1>2, <2>1, <3>1, <3>2 DEF Binding
  <2>4. ASSUME NEW r \in Singular
        PROVE  n.of[r] = IF r = t.relation THEN NoObject ELSE b.of[r]
    <3>1. r = t.relation => b.of[r] = t.user
      BY <1>1 DEF Exact
    <3> QED
      BY <1>3, <2>2, <3>1 DEF Binding
  <2>5. ASSUME NEW r \in Singular, n.of[r] # NoObject
        PROVE  Tuple(n.of[r], r, c) \in U
    <3>1. r # t.relation /\ n.of[r] = b.of[r]
      BY <2>4, <2>5
    <3>2. Tuple(b.of[r], r, c) \in T
      BY <2>5, <3>1 DEF Exact
    <3>3. Tuple(b.of[r], r, c) # t
      BY <3>1 DEF Tuple
    <3> QED
      BY <3>1, <3>2, <3>3
  <2>6. ASSUME NEW r \in Singular, NEW s \in About(U, c), s.relation = r
        PROVE  n.of[r] = s.user
    <3>1. s \in About(T, c) /\ s # t /\ s \in ModelTuple /\ t \in ModelTuple
      BY <1>1 DEF About
    <3>2. b.of[r] = s.user
      BY <2>6, <3>1 DEF Exact
    <3>3. r = t.relation => b.of[r] = t.user
      BY <1>1 DEF Exact
    <3>4. s = Tuple(s.user, r, c) /\ t = Tuple(t.user, t.relation, c)
      BY <2>6, <3>1, TupleFields DEF About
    <3>5. r # t.relation
      BY <3>1, <3>2, <3>3, <3>4
    <3> QED
      BY <2>4, <3>2, <3>5
  <2> HIDE DEF c, U, n
  <2>7. Exact(U, n, c)
    BY <2>1, <2>3, <2>5, <2>6 DEF Exact
  <2> QED
    BY <1>5, <2>7 DEF c, U, n
<1> QED
  BY <1>4, <1>5

\* The index of another claim is not concerned.
LEMMA OtherExact ==
  ASSUME NEW T, NEW t, NEW b, NEW c, c # t.object, Exact(T, b, c)
  PROVE  Exact(T \cup {t}, b, c) /\ Exact(T \ {t}, b, c)
<1>1. About(T \cup {t}, c) = About(T, c) /\ About(T \ {t}, c) = About(T, c)
  BY DEF About
<1>2. ASSUME NEW u, NEW r PROVE Tuple(u, r, c) # t
  BY DEF Tuple
<1> QED
  BY <1>1, <1>2 DEF Exact

LEMMA NextIndexed == AuthorizerInv /\ [AuthorizerNext]_authorizerVars => AuthorizerInv'
<1> SUFFICES ASSUME AuthorizerInv, [AuthorizerNext]_authorizerVars PROVE AuthorizerInv'
  OBVIOUS
<1>1. /\ tuples \subseteq ModelTuple /\ IsFiniteSet(tuples)
      /\ claimBindings \in [Claim -> Binding]
      /\ \A c \in Claim : Exact(tuples, claimBindings[c], c)
  BY AuthorizerInvExact
<1>2. ASSUME NEW t \in Offered, AddTuple(t)
      PROVE  AuthorizerInv'
  <2>1. t \in ModelTuple /\ t \notin tuples /\ tuples' = tuples \cup {t}
    BY <1>2 DEF AddTuple, Valid
  <2>2. tuples' \subseteq ModelTuple /\ IsFiniteSet(tuples')
    BY <1>1, <2>1, FS_AddElement
  <2>3. ASSUME NEW c \in Claim
        PROVE  Exact(tuples', claimBindings'[c], c)
    <3>1. CASE c = t.object
      <4>1. claimBindings'[c] = Bound(claimBindings[c], t)
        BY <1>1, <1>2, <3>1 DEF AddTuple
      <4>2. t.relation \in Singular => claimBindings[c].of[t.relation] \in {NoObject, t.user}
        BY <1>2, <3>1 DEF AddTuple, Conflicts
      <4> QED
        BY <1>1, <2>1, <3>1, <4>1, <4>2, BoundExact
    <3>2. CASE c # t.object
      <4>1. claimBindings'[c] = claimBindings[c]
        BY <1>1, <1>2, <3>2 DEF AddTuple
      <4> QED
        BY <1>1, <2>1, <3>2, <4>1, OtherExact
    <3> QED
      BY <3>1, <3>2
  <2>4. claimBindings' \in [Claim -> Binding]
    <3>1. claimBindings' = [c \in Claim |-> claimBindings'[c]]
      BY <1>1, <1>2 DEF AddTuple
    <3> QED
      BY <2>3, <3>1 DEF Exact
  <2> QED
    BY <2>2, <2>3, <2>4
    DEF AuthorizerInv, AuthorizerTypeOK, BindingsExact, Exact, Binding, Has
<1>3. ASSUME NEW t \in Offered, RemoveTuple(t)
      PROVE  AuthorizerInv'
  <2>1. t \in ModelTuple /\ t \in tuples /\ tuples' = tuples \ {t}
    BY <1>3 DEF RemoveTuple, Valid
  <2>2. tuples' \subseteq ModelTuple /\ IsFiniteSet(tuples')
    BY <1>1, <2>1, FS_RemoveElement
  <2>3. ASSUME NEW c \in Claim
        PROVE  Exact(tuples', claimBindings'[c], c)
    <3>1. CASE c = t.object
      <4>1. claimBindings'[c] =
              IF claimBindings[c].count = 1 THEN NoBindings ELSE Unbound(claimBindings[c], t)
        BY <1>1, <1>3, <3>1 DEF RemoveTuple
      <4> QED
        BY <1>1, <2>1, <3>1, <4>1, UnboundExact
    <3>2. CASE c # t.object
      <4>1. claimBindings'[c] = claimBindings[c]
        BY <1>1, <1>3, <3>2 DEF RemoveTuple
      <4> QED
        BY <1>1, <2>1, <3>2, <4>1, OtherExact
    <3> QED
      BY <3>1, <3>2
  <2>4. claimBindings' \in [Claim -> Binding]
    <3>1. claimBindings' = [c \in Claim |-> claimBindings'[c]]
      BY <1>1, <1>3 DEF RemoveTuple
    <3> QED
      BY <2>3, <3>1 DEF Exact
  <2> QED
    BY <2>2, <2>3, <2>4
    DEF AuthorizerInv, AuthorizerTypeOK, BindingsExact, Exact, Binding, Has
<1>4. ASSUME UNCHANGED authorizerVars
      PROVE  AuthorizerInv'
  BY <1>4 DEF authorizerVars, AuthorizerInv, AuthorizerTypeOK, BindingsExact, Has
<1> QED
  BY <1>2, <1>3, <1>4 DEF AuthorizerNext

\* Whatever tuples come and go, the index of the local authorizer stays exact.
THEOREM BindingsAlwaysExact == AuthorizerSpec => []BindingsExact
<1>1. AuthorizerSpec => []AuthorizerInv
  BY InitIndexed, NextIndexed, PTL DEF AuthorizerSpec
<1> QED
  BY <1>1, PTL DEF AuthorizerInv

-----------------------------------------------------------------------------
\* Decisions

\* With an exact index, a claim can be evaluated exactly when it has a
\* source, a subject and an object.
EvaluableIsBound ==
  \A c \in Claim : Evaluable(c) <=> \A r \in Singular : Assigned(tuples, r, c) # {}

LEMMA BoundEvaluable == AuthorizerInv => EvaluableIsBound
<1> SUFFICES ASSUME AuthorizerInv, NEW c \in Claim
             PROVE  Evaluable(c) <=> \A r \in Singular : Assigned(tuples, r, c) # {}
  BY DEF EvaluableIsBound
<1>1. tuples \subseteq ModelTuple /\ IsFiniteSet(tuples) /\ Exact(tuples, claimBindings[c], c)
  BY AuthorizerInvExact
<1>2. ASSUME NEW r \in Singular
      PROVE  claimBindings[c].of[r] # NoObject <=> Assigned(tuples, r, c) # {}
  <2>1. ASSUME claimBindings[c].of[r] # NoObject
        PROVE  Assigned(tuples, r, c) # {}
    <3>1. Tuple(claimBindings[c].of[r], r, c) \in tuples
      BY <1>1, <2>1 DEF Exact
    <3> QED
      BY <3>1 DEF Assigned, Tuple
  <2>2. ASSUME NEW t \in tuples, t.relation = r, t.object = c
        PROVE  claimBindings[c].of[r] # NoObject
    <3>1. t \in About(tuples, c) /\ t \in ModelTuple
      BY <1>1, <2>2 DEF About
    <3>2. t.user # NoObject
      BY <2>2, <3>1, SingularUsers
    <3> QED
      BY <1>1, <2>2, <3>1, <3>2 DEF Exact
  <2> QED
    BY <2>1, <2>2 DEF Assigned
<1>3. ASSUME Assigned(tuples, "subject", c) # {}
      PROVE  claimBindings[c].count > 0
  <2>1. About(tuples, c) # {}
    BY <1>3 DEF Assigned, About
  <2>2. IsFiniteSet(About(tuples, c)) /\ Cardinality(About(tuples, c)) \in Nat
    BY <1>1, AboutFinite
  <2>3. Cardinality(About(tuples, c)) # 0
    BY <2>1, <2>2, FS_EmptySet
  <2> QED
    BY <1>1, <2>2, <2>3 DEF Exact
<1>4. "subject" \in Singular
  BY DEF Singular
<1> QED
  BY <1>2, <1>3, <1>4 DEF Evaluable, Complete

LEMMA HasIsAssigned ==
  ASSUME tuples \subseteq ModelTuple, NEW u, NEW r, NEW x
  PROVE  Has(u, r, x) <=> u \in Assigned(tuples, r, x)
<1>1. ASSUME NEW t \in tuples, t.user = u, t.relation = r, t.object = x
      PROVE  t = Tuple(u, r, x)
  BY <1>1, TupleFields
<1> QED
  BY <1>1 DEF Has, Assigned, Tuple

LEMMA DirectIsHolder ==
  ASSUME tuples \subseteq ModelTuple, NEW u \in User, NEW r, NEW x
  PROVE  Direct(u, r, x) <=> u \in Holders(tuples, r, x)
<1>1. \A v, s, y : Has(v, s, y) <=> v \in Assigned(tuples, s, y)
  BY HasIsAssigned
<1> QED
  BY <1>1 DEF Direct, Holders, Members

\* Each kind of object is decided as the model decides it.
LEMMA OrganizationAgrees ==
  ASSUME tuples \subseteq ModelTuple, NEW u \in User, NEW x
  PROVE  InOrganization(u, x) <=> u \in Colleagues(tuples, x)
<1>1. \A o : Has(o, "organization", x) <=> o \in Assigned(tuples, "organization", x)
  BY HasIsAssigned
<1>2. \A o : Direct(u, "member", o) <=> u \in Holders(tuples, "member", o)
  BY DirectIsHolder
<1>3. Assigned(tuples, "organization", x) \subseteq Organization
  BY DEF Assigned, ModelTuple
<1> QED
  BY <1>1, <1>2, <1>3 DEF InOrganization, Colleagues

LEMMA GrantAgrees ==
  ASSUME tuples \subseteq ModelTuple, NEW u \in User, NEW access \in Access, NEW x
  PROVE  /\ DirectAccess(u, access, x) <=> u \in Granted(tuples, access, x)
         /\ Restricted(u, access, x) <=> u \in Holders(tuples, "restricted", x)
BY DirectIsHolder DEF DirectAccess, Restricted, Granted

LEMMA KnowledgeBaseAgrees ==
  ASSUME tuples \subseteq ModelTuple, NEW u \in User, NEW access \in Access, NEW k
  PROVE  KnowledgeBaseAccess(u, access, k) <=> u \in OfKnowledgeBase(tuples, access, k)
BY OrganizationAgrees, GrantAgrees DEF KnowledgeBaseAccess, OfKnowledgeBase

LEMMA DocumentAgrees ==
  ASSUME tuples \subseteq ModelTuple, NEW u \in User, NEW access \in Access,
         NEW d \in Document
  PROVE  DocumentAccess(u, access, d) <=> u \in OfDocument(tuples, access, d)
<1>1. \A k : Has(k, "parent", d) <=> k \in Assigned(tuples, "parent", d)
  BY HasIsAssigned
<1>2. Assigned(tuples, "parent", d) \subseteq KnowledgeBase
  BY DEF Assigned, ModelTuple
<1>3. \A k : KnowledgeBaseAccess(u, access, k) <=> u \in OfKnowledgeBase(tuples, access, k)
  BY KnowledgeBaseAgrees
<1>4. /\ InOrganization(u, d) <=> u \in Colleagues(tuples, d)
      /\ DirectAccess(u, access, d) <=> u \in Granted(tuples, access, d)
      /\ Restricted(u, access, d) <=> u \in Holders(tuples, "restricted", d)
  BY OrganizationAgrees, GrantAgrees
<1> QED
  BY <1>1, <1>2, <1>3, <1>4 DEF DocumentAccess, OfDocument, Scoping, From

LEMMA SourceAgrees ==
  ASSUME tuples \subseteq ModelTuple, NEW u \in User, NEW access \in Access, NEW x
  PROVE  SourceAccess(u, access, x) <=>
           \E d \in Assigned(tuples, "source_document", x) : u \in OfDocument(tuples, access, d)
<1>1. \A d : Has(d, "source_document", x) <=> d \in Assigned(tuples, "source_document", x)
  BY HasIsAssigned
<1>2. Assigned(tuples, "source_document", x) \subseteq Document
  BY DEF Assigned, ModelTuple
<1>3. \A d \in Document : DocumentAccess(u, access, d) <=> u \in OfDocument(tuples, access, d)
  BY DocumentAgrees
<1> QED
  BY <1>1, <1>2, <1>3 DEF SourceAccess

LEMMA EntityAgrees ==
  ASSUME tuples \subseteq ModelTuple, NEW u \in User, NEW access \in Access,
         NEW e \in Entity
  PROVE  EntityAccess(u, access, e) <=> u \in OfEntity(tuples, access, e)
<1>1. SourceAccess(u, access, e) <=>
        \E d \in Assigned(tuples, "source_document", e) : u \in OfDocument(tuples, access, d)
  BY SourceAgrees
<1>2. /\ InOrganization(u, e) <=> u \in Colleagues(tuples, e)
      /\ DirectAccess(u, access, e) <=> u \in Granted(tuples, access, e)
      /\ Restricted(u, access, e) <=> u \in Holders(tuples, "restricted", e)
  BY OrganizationAgrees, GrantAgrees
<1> QED
  BY <1>1, <1>2 DEF EntityAccess, OfEntity, Scoping, From

LEMMA EndAgrees ==
  ASSUME tuples \subseteq ModelTuple, NEW u \in User, NEW access \in Access, NEW c,
         NEW r \in {"subject", "object"}
  PROVE  EndAccess(u, access, c, r) <=>
           \E e \in Assigned(tuples, r, c) : u \in OfEntity(tuples, access, e)
<1>1. \A e : Has(e, r, c) <=> e \in Assigned(tuples, r, c)
  BY HasIsAssigned
<1>2. Assigned(tuples, r, c) \subseteq Entity
  BY DEF Assigned, ModelTuple
<1>3. \A e \in Entity : EntityAccess(u, access, e) <=> u \in OfEntity(tuples, access, e)
  BY EntityAgrees
<1> QED
  BY <1>1, <1>2, <1>3 DEF EndAccess

LEMMA ClaimAgrees ==
  ASSUME tuples \subseteq ModelTuple, NEW u \in User, NEW access \in Access,
         NEW c \in Claim
  PROVE  ClaimAccess(u, access, c) <=> Evaluable(c) /\ u \in OfClaim(tuples, access, c)
<1>1. SourceAccess(u, access, c) <=>
        \E d \in Assigned(tuples, "source_document", c) : u \in OfDocument(tuples, access, d)
  BY SourceAgrees
<1>2. /\ EndAccess(u, access, c, "subject") <=>
           \E e \in Assigned(tuples, "subject", c) : u \in OfEntity(tuples, access, e)
      /\ EndAccess(u, access, c, "object") <=>
           \E e \in Assigned(tuples, "object", c) : u \in OfEntity(tuples, access, e)
  BY EndAgrees
<1>3. /\ InOrganization(u, c) <=> u \in Colleagues(tuples, c)
      /\ DirectAccess(u, access, c) <=> u \in Granted(tuples, access, c)
      /\ Restricted(u, access, c) <=> u \in Holders(tuples, "restricted", c)
  BY OrganizationAgrees, GrantAgrees
<1> QED
  BY <1>1, <1>2, <1>3 DEF ClaimAccess, OfClaim, Scoping, From

LEMMA IndexedAgrees == AuthorizerInv => AgreesWithModel
<1> SUFFICES ASSUME AuthorizerInv, NEW u \in User, NEW access \in Access, NEW x \in Scoped
             PROVE  Allowed(u, access, x) <=>
                      /\ u \in Permitted(tuples, access, x)
                      /\ x \in Claim => \A r \in Singular : Assigned(tuples, r, x) # {}
  BY DEF AgreesWithModel
<1>1. tuples \subseteq ModelTuple /\ EvaluableIsBound
  BY AuthorizerInvExact, BoundEvaluable
<1>2. CASE x \in KnowledgeBase
  BY <1>1, <1>2, KnowledgeBaseAgrees, AuthorizationModelAssumption DEF Allowed, Permitted
<1>3. CASE x \in Document
  BY <1>1, <1>3, DocumentAgrees, AuthorizationModelAssumption DEF Allowed, Permitted
<1>4. CASE x \in Entity
  BY <1>1, <1>4, EntityAgrees, AuthorizationModelAssumption DEF Allowed, Permitted
<1>5. CASE x \in Claim
  BY <1>1, <1>5, ClaimAgrees, AuthorizationModelAssumption
  DEF Allowed, Permitted, EvaluableIsBound
<1> QED
  BY <1>2, <1>3, <1>4, <1>5 DEF Scoped, Derived

\* The local authorizer decides as the OpenFGA model does, however its tuples
\* came and went.
THEOREM AlwaysAgreesWithModel == AuthorizerSpec => []AgreesWithModel
<1>1. AuthorizerSpec => []AuthorizerInv
  BY InitIndexed, NextIndexed, PTL DEF AuthorizerSpec
<1> QED
  BY <1>1, IndexedAgrees, PTL

-----------------------------------------------------------------------------
\* Revocations

\* Every tuple that is there now was there before, except restrictions, and
\* every restriction is still there.
Shrunk ==
  /\ \A u, r, x : r # "restricted" /\ Has(u, r, x)' => Has(u, r, x)
  /\ \A x : Has(Anyone, "restricted", x) => Has(Anyone, "restricted", x)'

Revoking ==
  \/ \E t \in tuples : t.relation # "restricted" /\ tuples' = tuples \ {t}
  \/ \E x \in Derived : tuples' = tuples \cup {Tuple(Anyone, "restricted", x)}

LEMMA RevokingShrinks == Revoking => Shrunk
<1>1. ASSUME NEW t \in tuples, t.relation # "restricted", tuples' = tuples \ {t}
      PROVE  Shrunk
  BY <1>1 DEF Shrunk, Has, Tuple
<1>2. ASSUME NEW x \in Derived, tuples' = tuples \cup {Tuple(Anyone, "restricted", x)}
      PROVE  Shrunk
  <2>1. ASSUME NEW u, NEW r, NEW y, r # "restricted"
        PROVE  Tuple(u, r, y) # Tuple(Anyone, "restricted", x)
    BY <2>1 DEF Tuple
  <2> QED
    BY <1>2, <2>1 DEF Shrunk, Has
<1> QED
  BY <1>1, <1>2 DEF Revoking

\* Only everybody can be restricted.
RestrictsEverybody ==
  \A u, x : Direct(u, "restricted", x) <=> Has(Anyone, "restricted", x)

LEMMA RestrictionsAreForAll == tuples \subseteq ModelTuple => RestrictsEverybody
<1> SUFFICES ASSUME tuples \subseteq ModelTuple PROVE RestrictsEverybody
  OBVIOUS
<1>1. ASSUME NEW u, NEW x, Has(u, "restricted", x) PROVE u = Anyone
  BY <1>1 DEF Has, Tuple, ModelTuple
<1> QED
  BY <1>1 DEF RestrictsEverybody, Direct

\* What a user reaches without the check of a claim's index only shrinks.
LEMMA ShrunkDirect ==
  ASSUME Shrunk, NEW u, NEW r, r # "restricted", NEW x
  PROVE  Direct(u, r, x)' => Direct(u, r, x)
BY DEF Shrunk, Direct

LEMMA ShrunkGrants ==
  ASSUME Shrunk, RestrictsEverybody, RestrictsEverybody', NEW u, NEW access, NEW x
  PROVE  /\ InOrganization(u, x)' => InOrganization(u, x)
         /\ DirectAccess(u, access, x)' => DirectAccess(u, access, x)
         /\ Restricted(u, access, x) => Restricted(u, access, x)'
<1>1. \A y : Direct(u, "member", y)' => Direct(u, "member", y)
  BY ShrunkDirect
<1>2. /\ Direct(u, "viewer", x)' => Direct(u, "viewer", x)
      /\ Direct(u, "editor", x)' => Direct(u, "editor", x)
  BY ShrunkDirect
<1>3. \A o : Has(o, "organization", x)' => Has(o, "organization", x)
  BY DEF Shrunk
<1>4. Direct(u, "restricted", x) => Direct(u, "restricted", x)'
  BY DEF Shrunk, RestrictsEverybody
<1> QED
  BY <1>1, <1>2, <1>3, <1>4 DEF InOrganization, DirectAccess, Restricted

LEMMA ShrunkAccess ==
  ASSUME Shrunk, RestrictsEverybody, RestrictsEverybody', NEW u, NEW access, NEW x
  PROVE  /\ KnowledgeBaseAccess(u, access, x)' => KnowledgeBaseAccess(u, access, x)
         /\ DocumentAccess(u, access, x)' => DocumentAccess(u, access, x)
         /\ SourceAccess(u, access, x)' => SourceAccess(u, access, x)
         /\ EntityAccess(u, access, x)' => EntityAccess(u, access, x)
         /\ \A r \in {"subject", "object"} :
              EndAccess(u, access, x, r)' => EndAccess(u, access, x, r)
<1>1. \A y : /\ InOrganization(u, y)' => InOrganization(u, y)
             /\ DirectAccess(u, access, y)' => DirectAccess(u, access, y)
             /\ Restricted(u, access, y) => Restricted(u, access, y)'
  BY ShrunkGrants
<1>2. \A v, r, y : r # "restricted" /\ Has(v, r, y)' => Has(v, r, y)
  BY DEF Shrunk
<1>3. \A y : KnowledgeBaseAccess(u, access, y)' => KnowledgeBaseAccess(u, access, y)
  BY <1>1 DEF KnowledgeBaseAccess
<1>4. \A y : DocumentAccess(u, access, y)' => DocumentAccess(u, access, y)
  BY <1>1, <1>2, <1>3 DEF DocumentAccess
<1>5. \A y : SourceAccess(u, access, y)' => SourceAccess(u, access, y)
  BY <1>2, <1>4 DEF SourceAccess
<1>6. \A y : EntityAccess(u, access, y)' => EntityAccess(u, access, y)
  BY <1>1, <1>5 DEF EntityAccess
<1>7. \A r \in {"subject", "object"} :
        EndAccess(u, access, x, r)' => EndAccess(u, access, x, r)
  BY <1>2, <1>6 DEF EndAccess
<1> QED
  BY <1>3, <1>4, <1>5, <1>6, <1>7

LEMMA ShrunkAllowed ==
  ASSUME Shrunk, RestrictsEverybody, RestrictsEverybody',
         EvaluableIsBound, EvaluableIsBound',
         tuples \subseteq ModelTuple, tuples' \subseteq ModelTuple,
         NEW u, NEW access, NEW x
  PROVE  Allowed(u, access, x)' => Allowed(u, access, x)
<1>1. /\ KnowledgeBaseAccess(u, access, x)' => KnowledgeBaseAccess(u, access, x)
      /\ DocumentAccess(u, access, x)' => DocumentAccess(u, access, x)
      /\ SourceAccess(u, access, x)' => SourceAccess(u, access, x)
      /\ EntityAccess(u, access, x)' => EntityAccess(u, access, x)
      /\ EndAccess(u, access, x, "subject")' => EndAccess(u, access, x, "subject")
      /\ EndAccess(u, access, x, "object")' => EndAccess(u, access, x, "object")
  BY ShrunkAccess
<1>2. /\ InOrganization(u, x)' => InOrganization(u, x)
      /\ DirectAccess(u, access, x)' => DirectAccess(u, access, x)
      /\ Restricted(u, access, x) => Restricted(u, access, x)'
  BY ShrunkGrants
<1>3. ASSUME x \in Claim, Evaluable(x)' PROVE Evaluable(x)
  <2>1. ASSUME NEW r \in Singular PROVE Assigned(tuples, r, x) # {}
    <3>1. PICK t \in tuples' : t.relation = r /\ t.object = x
      BY <1>3 DEF EvaluableIsBound, Assigned
    <3>2. t = Tuple(t.user, r, x) /\ r # "restricted"
      BY <3>1, TupleFields DEF Singular
    <3>3. Tuple(t.user, r, x) \in tuples
      BY <3>1, <3>2 DEF Shrunk, Has
    <3> QED
      BY <3>3 DEF Assigned, Tuple
  <2> QED
    BY <1>3, <2>1 DEF EvaluableIsBound
<1>4. x \in Claim => (ClaimAccess(u, access, x)' => ClaimAccess(u, access, x))
  BY <1>1, <1>2, <1>3 DEF ClaimAccess
<1> QED
  BY <1>1, <1>4 DEF Allowed

\* Removing a tuple or restricting an object grants nobody anything.
THEOREM RevocationGrantsNothing == AuthorizerSpec => RevocationNeverGrants
<1> DEFINE Known == /\ tuples \subseteq ModelTuple
                    /\ RestrictsEverybody
                    /\ EvaluableIsBound
<1>1. AuthorizerSpec => []AuthorizerInv
  BY InitIndexed, NextIndexed, PTL DEF AuthorizerSpec
<1>2. AuthorizerInv => Known
  BY AuthorizerInvExact, BoundEvaluable, RestrictionsAreForAll
<1>3. ASSUME Known, Known', Revoking
      PROVE  \A u \in User, access \in Access, x \in Scoped :
               Allowed(u, access, x)' => Allowed(u, access, x)
  <2>1. Shrunk
    BY <1>3, RevokingShrinks
  <2> QED
    BY <1>3, <2>1, ShrunkAllowed
<1>4. Known /\ Known' =>
        [ Revoking => \A u \in User, access \in Access, x \in Scoped :
                        Allowed(u, access, x)' => Allowed(u, access, x) ]_authorizerVars
  BY <1>3
<1>5. [][ Revoking => \A u \in User, access \in Access, x \in Scoped :
                        Allowed(u, access, x)' => Allowed(u, access, x) ]_authorizerVars
        <=> RevocationNeverGrants
  BY DEF RevocationNeverGrants, Revoking
<1> HIDE DEF Known
<1> QED
  BY <1>1, <1>2, <1>4, <1>5, PTL

-----------------------------------------------------------------------------
(***************************************************************************)
(* Traversal                                                               *)
(***************************************************************************)
\* What histories say.
Past == [started : SUBSET Node, claims : Seq(SUBSET Link), objects : Seq(SUBSET Node)]

\* Paths that ended before level n.
Tips(past, n) ==
  UNION {{p \in LevelsOf(past)[h] : \A q \in LevelsOf(past)[h + 1] : ~IsPrefix(p, q)} :
           h \in 0 .. n - 1}

Early == {"idle", "failed", "discover", "retrieve", "start"}
Late == {"load", "final", "done"}

Resources == Node \cup Link \cup Evidence

Typed ==
  /\ TraversalTypeOK
  /\ history \in Past /\ batches \in Nat /\ denials \in Nat
  /\ asked \cup approved \subseteq Resources

\* The traversal has reached the last level of its history.
OnLevel ==
  /\ frontier = Levels[Hops]
  /\ terminals = Tips(history, Hops)
  /\ visited = UNION {EndsOf(Levels[h]) : h \in 0 .. Hops}
  /\ Hops < limits.depth

\* And is at its end.
AtEnd ==
  /\ terminals = Tips(history, Hops) \cup Levels[Hops]
  /\ Hops < limits.depth =>
       \/ Levels[Hops] = {}
       \/ Len(history.claims) > Hops /\
            \A p \in Levels[Hops] : OnwardFrom(history, p, Hops + 1) = {}

\* What is asked in each stage, of all that may follow.
Sought ==
  /\ stage \in {"discover", "retrieve", "start"} => asked \cup approved \subseteq Node
  /\ stage = "claims" =>
       /\ asked \cup approved \subseteq edges
       /\ {k \in Link : FromOf[k] \in EndsOf(frontier)} \subseteq edges
  /\ stage = "objects" =>
       /\ asked \cup approved \subseteq {ToOf[k] : k \in edges}
       /\ EndsOf(claimPaths) \subseteq edges

TraversalInv ==
  /\ Typed
  /\ stage \in Early => history = NoHistory /\ terminals = {}
  /\ stage \in {"expand", "claims"} => OnLevel /\ Len(history.claims) = Hops
  /\ stage \in {"follow", "objects"} =>
       /\ OnLevel /\ Len(history.claims) = Hops + 1
       /\ claimPaths = UNION {{Append(p, k) : k \in OnwardFrom(history, p, Hops + 1)} : p \in frontier}
  /\ stage \in Late => AtEnd
  /\ Sought
  /\ stage = "done" => DeliveredExact

-----------------------------------------------------------------------------
(***************************************************************************)
(* Levels: what the recursive definition says                              *)
(***************************************************************************)
Before(levels, h) == UNION {EndsOf(levels[g]) : g \in 0 .. h - 1}

\* The equations of a function of levels, up to level n.
Solves(past, levels, n) ==
  levels = [h \in 0 .. n |->
              IF h = 0 THEN {<<x>> : x \in past.started}
              ELSE LevelAfter(past, h, levels[h - 1], Before(levels, h))]

LEMMA SolutionExists ==
  ASSUME NEW past, NEW n \in Nat
  PROVE  \E levels : Solves(past, levels, n)
<1> DEFINE Good == {m \in Nat : \E levels : Solves(past, levels, m)}
<1>1. 0 \in Good
  <2> DEFINE f == [h \in 0 .. 0 |-> {<<x>> : x \in past.started}]
  <2>1. f = [h \in 0 .. 0 |-> IF h = 0 THEN {<<x>> : x \in past.started}
                              ELSE LevelAfter(past, h, f[h - 1], Before(f, h))]
    <3>1. \A h \in 0 .. 0 : h = 0
      OBVIOUS
    <3> QED
      BY <3>1, Zenon
  <2>2. Solves(past, f, 0)
    BY <2>1 DEF Solves
  <2> QED
    BY <2>2
<1>2. ASSUME NEW m \in 1 .. n, m - 1 \in Good PROVE m \in Good
  <2>1. PICK f : Solves(past, f, m - 1)
    BY <1>2
  <2> DEFINE g == [h \in 0 .. m |-> IF h = m THEN LevelAfter(past, m, f[m - 1], Before(f, m)) ELSE f[h]]
  <2>2. \A h \in 0 .. m - 1 : h \in 0 .. m /\ h # m /\ g[h] = f[h]
    OBVIOUS
  <2>3. ASSUME NEW h \in 0 .. m PROVE Before(g, h) = Before(f, h)
    <3>1. \A j \in 0 .. h - 1 : g[j] = f[j]
      BY <2>2
    <3> HIDE DEF g
    <3> QED
      BY <3>1 DEF Before
  <2>4. ASSUME NEW h \in 0 .. m
        PROVE  g[h] = IF h = 0 THEN {<<x>> : x \in past.started}
                      ELSE LevelAfter(past, h, g[h - 1], Before(g, h))
    <3>1. CASE h = m
      <4>1. h # 0 /\ g[h - 1] = f[m - 1] /\ g[h] = LevelAfter(past, m, f[m - 1], Before(f, m))
        BY <3>1, <2>2
      <4> QED
        BY <3>1, <4>1, <2>3
    <3>2. CASE h # m
      <4>1. h \in 0 .. m - 1 /\ g[h] = f[h]
        BY <3>2, <2>2
      <4>2. f[h] = IF h = 0 THEN {<<x>> : x \in past.started}
                   ELSE LevelAfter(past, h, f[h - 1], Before(f, h))
        BY <2>1, <4>1 DEF Solves
      <4>3. h # 0 => g[h - 1] = f[h - 1]
        BY <4>1, <2>2
      <4> HIDE DEF g
      <4> QED
        BY <4>1, <4>2, <4>3, <2>3
    <3> QED
      BY <3>1, <3>2
  <2>5. DOMAIN g = 0 .. m /\ g = [h \in 0 .. m |-> g[h]]
    OBVIOUS
  <2>6. Solves(past, g, m)
    <3> HIDE DEF g
    <3> QED
      BY <2>4, <2>5 DEF Solves
  <2> QED
    BY <2>6
<1> HIDE DEF Good
<1>3. n \in Good
  BY <1>1, <1>2, Upwards
<1> QED
  BY <1>3 DEF Good

\* LevelsOf, without recursion.
LEMMA LevelsUnfold ==
  ASSUME NEW past, Len(past.objects) \in Nat
  PROVE  Solves(past, LevelsOf(past), Len(past.objects))
<1>1. PICK f : Solves(past, f, Len(past.objects))
  BY SolutionExists
<1>2. f = [h \in 0 .. Len(past.objects) |->
             IF h = 0 THEN {<<x>> : x \in past.started}
             ELSE LevelAfter(past, h, f[h - 1], UNION {EndsOf(f[g]) : g \in 0 .. h - 1})]
  BY <1>1 DEF Solves, Before
<1> DEFINE paths == CHOOSE p : p = [h \in 0 .. Len(past.objects) |->
             IF h = 0 THEN {<<x>> : x \in past.started}
             ELSE LevelAfter(past, h, p[h - 1], UNION {EndsOf(p[g]) : g \in 0 .. h - 1})]
<1>3. paths = [h \in 0 .. Len(past.objects) |->
             IF h = 0 THEN {<<x>> : x \in past.started}
             ELSE LevelAfter(past, h, paths[h - 1], UNION {EndsOf(paths[g]) : g \in 0 .. h - 1})]
  BY <1>2
<1>4. LevelsOf(past) = [h \in 0 .. Len(past.objects) |-> paths[h]]
  BY DEF LevelsOf
<1> HIDE DEF paths
<1>5. LevelsOf(past) = paths
  BY <1>3, <1>4
<1> QED
  BY <1>3, <1>5 DEF Solves, Before

LEMMA FirstLevel ==
  ASSUME NEW past, Len(past.objects) \in Nat
  PROVE  LevelsOf(past)[0] = {<<x>> : x \in past.started}
<1>1. 0 \in 0 .. Len(past.objects)
  OBVIOUS
<1> QED
  BY <1>1, LevelsUnfold DEF Solves

LEMMA NextLevel ==
  ASSUME NEW past, Len(past.objects) \in Nat, NEW h \in 1 .. Len(past.objects)
  PROVE  LevelsOf(past)[h] = LevelAfter(past, h, LevelsOf(past)[h - 1], Before(LevelsOf(past), h))
<1>1. h \in 0 .. Len(past.objects) /\ h # 0
  OBVIOUS
<1> QED
  BY <1>1, LevelsUnfold DEF Solves

\* A history determines the levels it has come to.
LEMMA LevelsAgree ==
  ASSUME NEW past, NEW other, Len(past.objects) \in Nat, Len(other.objects) \in Nat,
         past.started = other.started, NEW n \in Nat,
         n <= Len(past.objects), n <= Len(other.objects),
         \A h \in 1 .. n : past.claims[h] = other.claims[h] /\ past.objects[h] = other.objects[h]
  PROVE  \A h \in 0 .. n : LevelsOf(past)[h] = LevelsOf(other)[h]
<1> DEFINE L == LevelsOf(past)
           M == LevelsOf(other)
           Good == {h \in 0 .. n : \A g \in 0 .. h : L[g] = M[g]}
<1>1. 0 \in Good
  <2>1. L[0] = M[0]
    BY FirstLevel
  <2>2. \A g \in 0 .. 0 : g = 0
    OBVIOUS
  <2> QED
    BY <2>1, <2>2
<1>2. ASSUME NEW h \in 1 .. n, h - 1 \in Good PROVE h \in Good
  <2>1. \A g \in 0 .. h - 1 : L[g] = M[g]
    BY <1>2
  <2>2. Before(L, h) = Before(M, h)
    <3> HIDE DEF L, M
    <3> QED
      BY <2>1 DEF Before
  <2>3. L[h - 1] = M[h - 1]
    BY <2>1
  <2>4. /\ L[h] = LevelAfter(past, h, L[h - 1], Before(L, h))
        /\ M[h] = LevelAfter(other, h, M[h - 1], Before(M, h))
    BY NextLevel
  <2>5. past.claims[h] = other.claims[h] /\ past.objects[h] = other.objects[h]
    OBVIOUS
  <2> HIDE DEF L, M
  <2>6. \A level, before : LevelAfter(past, h, level, before) = LevelAfter(other, h, level, before)
    BY <2>5 DEF LevelAfter, OnwardFrom
  <2>7. L[h] = M[h]
    BY <2>2, <2>3, <2>4, <2>6
  <2>8. \A g \in 0 .. h : g \in 0 .. h - 1 \/ g = h
    OBVIOUS
  <2> QED
    BY <2>1, <2>7, <2>8
<1> HIDE DEF Good
<1>3. \A h \in 0 .. n : h \in Good
  BY <1>1, <1>2, Upwards
<1> QED
  BY <1>3 DEF Good

-----------------------------------------------------------------------------
(***************************************************************************)
(* Paths                                                                   *)
(***************************************************************************)
Path == Seq(Node \cup Link)

LEMMA GraphTyped ==
  /\ FromOf \in [Link -> Node] /\ ToOf \in [Link -> Node]
  /\ IsFiniteSet(Node) /\ IsFiniteSet(Link) /\ IsFiniteSet(Evidence)
BY TraversalAssumption

LEMMA PrefixMeans ==
  ASSUME NEW p \in Path, NEW q \in Path
  PROVE  IsPrefix(p, q) <=> Len(p) <= Len(q) /\ \A i \in 1 .. Len(p) : p[i] = q[i]
<1>1. Len(p) \in Nat /\ Len(q) \in Nat
  BY DEF Path
<1>2. SubSeq(p, 1, Len(p)) = [i \in 1 .. Len(p) |-> p[i]]
  BY <1>1 DEF Path
<1>3. CASE Len(p) <= Len(q)
  <2>1. SubSeq(q, 1, Len(p)) = [i \in 1 .. Len(p) |-> q[i]]
    BY <1>1, <1>3 DEF Path
  <2> QED
    BY <1>2, <1>3, <2>1 DEF IsPrefix
<1>4. CASE ~(Len(p) <= Len(q))
  BY <1>4 DEF IsPrefix
<1> QED
  BY <1>3, <1>4

LEMMA PrefixOfSame ==
  ASSUME NEW p \in Path, NEW q \in Path, IsPrefix(p, q), Len(q) <= Len(p)
  PROVE  p = q
<1>1. Len(p) \in Nat /\ Len(q) \in Nat
  BY DEF Path
<1>2. Len(p) = Len(q) /\ \A i \in 1 .. Len(p) : p[i] = q[i]
  BY <1>1, PrefixMeans
<1> QED
  BY <1>1, <1>2, SeqEqual DEF Path

\* Two prefixes of one path.
LEMMA PrefixesNest ==
  ASSUME NEW p \in Path, NEW r \in Path, NEW q \in Path,
         IsPrefix(p, q), IsPrefix(r, q), Len(p) <= Len(r)
  PROVE  IsPrefix(p, r)
<1>1. /\ \A i \in 1 .. Len(p) : p[i] = q[i]
      /\ \A i \in 1 .. Len(r) : r[i] = q[i]
  BY PrefixMeans
<1>2. \A i \in 1 .. Len(p) : i \in 1 .. Len(r)
  BY DEF Path
<1> QED
  BY <1>1, <1>2, PrefixMeans

LEMMA PrefixIsSelf ==
  ASSUME NEW p \in Path
  PROVE  IsPrefix(p, p)
<1>1. Len(p) \in Nat
  BY DEF Path
<1> QED
  BY <1>1 DEF IsPrefix

\* A path and one hop more.
LEMMA OneHop ==
  ASSUME NEW p \in Path, NEW k \in Link
  PROVE  LET q == p \o <<k, ToOf[k]>>
         IN /\ q \in Path /\ Len(q) = Len(p) + 2
            /\ EndOf(q) = ToOf[k] /\ EndOf(q) \in Node
            /\ IsPrefix(p, q)
            /\ q = Append(Append(p, k), ToOf[k])
<1> DEFINE q == p \o <<k, ToOf[k]>>
<1>1. ToOf[k] \in Node /\ k \in Node \cup Link /\ ToOf[k] \in Node \cup Link
  BY GraphTyped
<1>2. q \in Path /\ Len(q) = Len(p) + 2 /\ Len(p) \in Nat
  BY <1>1 DEF Path
<1>3. /\ \A i \in 1 .. Len(p) : q[i] = p[i]
      /\ q[Len(p) + 1] = k /\ q[Len(p) + 2] = ToOf[k]
  BY <1>1, <1>2 DEF Path
<1> DEFINE r == Append(Append(p, k), ToOf[k])
<1>4. r \in Path /\ Len(r) = Len(p) + 2
  BY <1>1 DEF Path
<1>5. /\ \A i \in 1 .. Len(p) : r[i] = p[i]
      /\ r[Len(p) + 1] = k /\ r[Len(p) + 2] = ToOf[k]
  BY <1>1, <1>2 DEF Path
<1> HIDE DEF q, r
<1>6. \A i \in 1 .. Len(q) : q[i] = r[i]
  <2>1. \A i \in 1 .. Len(q) : i \in 1 .. Len(p) \/ i = Len(p) + 1 \/ i = Len(p) + 2
    BY <1>2
  <2> QED
    BY <2>1, <1>3, <1>5
<1>7. q = r
  BY <1>2, <1>4, <1>6, SeqEqual DEF Path
<1>8. IsPrefix(p, q)
  BY <1>2, <1>3, PrefixMeans
<1> QED
  BY <1>1, <1>2, <1>3, <1>7, <1>8 DEF EndOf, q, r

\* The paths of level h have h hops and end in an entity.
PathsOf(h) == {p \in Path : Len(p) = 2 * h + 1 /\ EndOf(p) \in Node}

LEMMA LevelTyped ==
  ASSUME NEW past \in Past
  PROVE  \A h \in 0 .. Len(past.objects) : LevelsOf(past)[h] \subseteq PathsOf(h)
<1>1. Len(past.objects) \in Nat /\ past.started \subseteq Node
  BY DEF Past
<1> DEFINE L == LevelsOf(past)
           Good == {h \in 0 .. Len(past.objects) : L[h] \subseteq PathsOf(h)}
<1>2. 0 \in Good
  <2>1. ASSUME NEW x \in past.started PROVE <<x>> \in PathsOf(0)
    <3>1. x \in Node
      BY <1>1, <2>1
    <3> QED
      BY <3>1 DEF PathsOf, Path, EndOf
  <2>2. L[0] = {<<x>> : x \in past.started}
    BY <1>1, FirstLevel
  <2> HIDE DEF L
  <2> QED
    BY <1>1, <2>1, <2>2
<1>3. ASSUME NEW h \in 1 .. Len(past.objects), h - 1 \in Good PROVE h \in Good
  <2>1. L[h] = LevelAfter(past, h, L[h - 1], Before(L, h))
    BY <1>1, NextLevel
  <2>2. ASSUME NEW q \in L[h] PROVE q \in PathsOf(h)
    <3> HIDE DEF L
    <3>1. PICK p \in L[h - 1], k \in Link : q = p \o <<k, ToOf[k]>>
      BY <2>1, <2>2 DEF LevelAfter, OnwardFrom
    <3>2. p \in Path /\ Len(p) = 2 * (h - 1) + 1
      BY <1>3, <3>1 DEF PathsOf
    <3>3. q \in Path /\ Len(q) = Len(p) + 2 /\ EndOf(q) \in Node
      BY <3>1, <3>2, OneHop
    <3> QED
      BY <3>2, <3>3 DEF PathsOf
  <2> HIDE DEF L
  <2> QED
    BY <2>2
<1> HIDE DEF Good
<1>4. \A h \in 0 .. Len(past.objects) : h \in Good
  BY <1>1, <1>2, <1>3, Upwards
<1> QED
  BY <1>4 DEF Good

LEMMA LevelParents ==
  ASSUME NEW past \in Past, NEW h \in 1 .. Len(past.objects), NEW q \in LevelsOf(past)[h]
  PROVE  \E p \in LevelsOf(past)[h - 1] : IsPrefix(p, q)
<1>1. Len(past.objects) \in Nat
  BY DEF Past
<1>2. q \in LevelAfter(past, h, LevelsOf(past)[h - 1], Before(LevelsOf(past), h))
  BY <1>1, NextLevel
<1>3. PICK p \in LevelsOf(past)[h - 1], k \in Link : q = p \o <<k, ToOf[k]>>
  BY <1>2 DEF LevelAfter, OnwardFrom
<1>4. h - 1 \in 0 .. Len(past.objects)
  BY <1>1
<1>5. p \in Path
  BY <1>3, <1>4, LevelTyped DEF PathsOf
<1> QED
  BY <1>3, <1>5, OneHop

\* Who is a prefix of a longer path is one of a path of the next level.
LEMMA PrefixOfNext ==
  ASSUME NEW past \in Past, NEW h \in 0 .. Len(past.objects), NEW p \in LevelsOf(past)[h],
         NEW g \in 0 .. Len(past.objects), NEW q \in LevelsOf(past)[g], IsPrefix(p, q), p # q
  PROVE  h < Len(past.objects) /\ \E r \in LevelsOf(past)[h + 1] : IsPrefix(p, r)
<1>1. Len(past.objects) \in Nat
  BY DEF Past
<1> DEFINE L == LevelsOf(past)
           N == {j \in h + 1 .. Len(past.objects) : \E r \in L[j] : IsPrefix(p, r)}
<1>2. p \in Path /\ Len(p) = 2 * h + 1 /\ q \in Path /\ Len(q) = 2 * g + 1
  BY LevelTyped DEF PathsOf
<1>3. ~(Len(q) <= Len(p))
  BY <1>2, PrefixOfSame
<1>4. g \in N
  BY <1>1, <1>2, <1>3
<1>5. N \subseteq Nat /\ N # {}
  BY <1>1, <1>4
<1>6. PICK j \in N : \A i \in N : j <= i
  <2> HIDE DEF N
  <2> QED
    BY <1>5, LeastOf
<1>7. PICK r \in L[j] : IsPrefix(p, r)
  OBVIOUS
<1>8. CASE j = h + 1
  BY <1>1, <1>7, <1>8
<1>9. CASE j # h + 1
  <2>1. j \in 1 .. Len(past.objects) /\ j - 1 \in h + 1 .. Len(past.objects) /\ ~(j <= j - 1)
    BY <1>1, <1>9
  <2>2. PICK s \in L[j - 1] : IsPrefix(s, r)
    BY <1>7, <2>1, LevelParents
  <2>3. j - 1 \in 0 .. Len(past.objects) /\ j \in 0 .. Len(past.objects)
    BY <2>1
  <2>4. s \in Path /\ Len(s) = 2 * (j - 1) + 1 /\ r \in Path
    BY <1>7, <2>2, <2>3, LevelTyped DEF PathsOf
  <2>5. Len(p) <= Len(s)
    BY <1>1, <1>2, <2>1, <2>4
  <2>6. IsPrefix(p, s)
    BY <1>2, <1>7, <2>2, <2>4, <2>5, PrefixesNest
  <2>7. j - 1 \in N
    BY <2>1, <2>2, <2>6
  <2> QED
    BY <1>6, <2>1, <2>7
<1> QED
  BY <1>8, <1>9

\* The paths that ended early, and those of the last level, are the ones that
\* cannot be continued.
LEMMA TipsAreMaximal ==
  ASSUME NEW past \in Past
  PROVE  LET n == Len(past.objects)
             all == UNION {LevelsOf(past)[h] : h \in 0 .. n}
         IN Tips(past, n) \cup LevelsOf(past)[n] = {p \in all : \A q \in all : IsPrefix(p, q) => p = q}
<1> DEFINE n == Len(past.objects)
           L == LevelsOf(past)
           all == UNION {L[h] : h \in 0 .. n}
<1>1. n \in Nat
  BY DEF Past
<1>2. \A h \in 0 .. n : \A p \in L[h] : p \in Path /\ Len(p) = 2 * h + 1
  BY LevelTyped DEF PathsOf
<1>3. ASSUME NEW h \in 0 .. n, NEW p \in L[h], h = n \/ \A q \in L[h + 1] : ~IsPrefix(p, q),
             NEW q \in all, IsPrefix(p, q)
      PROVE  p = q
  <2>1. PICK g \in 0 .. n : q \in L[g]
    OBVIOUS
  <2> HIDE DEF all
  <2>2. ~(h < n) \/ ~\E r \in L[h + 1] : IsPrefix(p, r)
    BY <1>1, <1>3
  <2> QED
    BY <1>3, <2>1, <2>2, PrefixOfNext
<1>4. ASSUME NEW h \in 0 .. n - 1, NEW p \in L[h], \A q \in all : IsPrefix(p, q) => p = q,
             NEW q \in L[h + 1]
      PROVE  ~IsPrefix(p, q)
  <2>1. h \in 0 .. n /\ h + 1 \in 0 .. n
    BY <1>1
  <2>2. Len(p) = 2 * h + 1 /\ Len(q) = 2 * (h + 1) + 1
    BY <1>2, <2>1
  <2>3. q \in all /\ p # q
    BY <1>1, <2>1, <2>2
  <2> HIDE DEF all, L, n
  <2> QED
    BY <1>4, <2>3
<1>5. \A h \in 0 .. n : h = n \/ h \in 0 .. n - 1
  BY <1>1
<1>6. \A h \in 0 .. n - 1 : h \in 0 .. n
  BY <1>1
<1>7. n \in 0 .. n
  BY <1>1
<1>8. Tips(past, n) = UNION {{p \in L[h] : \A q \in L[h + 1] : ~IsPrefix(p, q)} : h \in 0 .. n - 1}
  BY DEF Tips
<1> HIDE DEF L, n
<1>9. ASSUME NEW p \in Tips(past, n) \cup L[n]
      PROVE  p \in all /\ \A q \in all : IsPrefix(p, q) => p = q
  <2>1. CASE p \in L[n]
    BY <2>1, <1>3, <1>7
  <2>2. CASE p \in Tips(past, n)
    <3>1. PICK h \in 0 .. n - 1 : p \in L[h] /\ \A q \in L[h + 1] : ~IsPrefix(p, q)
      BY <2>2, <1>8
    <3> QED
      BY <3>1, <1>3, <1>6
  <2> QED
    BY <1>9, <2>1, <2>2
<1>10. ASSUME NEW p \in all, \A q \in all : IsPrefix(p, q) => p = q
       PROVE  p \in Tips(past, n) \cup L[n]
  <2>1. PICK h \in 0 .. n : p \in L[h]
    OBVIOUS
  <2>2. CASE h = n
    BY <2>1, <2>2
  <2>3. CASE h # n
    <3>1. h \in 0 .. n - 1
      BY <1>5, <2>3
    <3>2. \A q \in L[h + 1] : ~IsPrefix(p, q)
      BY <1>4, <1>10, <2>1, <3>1
    <3> QED
      BY <1>8, <2>1, <3>1, <3>2
  <2> QED
    BY <2>2, <2>3
<1>11. Tips(past, n) \cup L[n] = {p \in all : \A q \in all : IsPrefix(p, q) => p = q}
  <2> HIDE DEF all
  <2> QED
    BY <1>9, <1>10
<1> QED
  BY <1>11 DEF L, n

-----------------------------------------------------------------------------
(***************************************************************************)
(* Finite sets                                                             *)
(***************************************************************************)
\* A function on a finite set has a finite range, and one as large only when
\* it maps no two elements to one.
LEMMA FiniteImage ==
  ASSUME NEW S, IsFiniteSet(S), NEW f, DOMAIN f = S, f = [x \in S |-> f[x]]
  PROVE  LET T == {f[x] : x \in S}
         IN /\ IsFiniteSet(T)
            /\ Cardinality(T) = Cardinality(S) => \A x, y \in S : f[x] = f[y] => x = y
<1> DEFINE T == {f[x] : x \in S}
<1>1. f \in Surjection(S, T)
  BY DEF Surjection
<1>2. /\ IsFiniteSet(T)
      /\ Cardinality(T) = Cardinality(S) <=> f \in Injection(S, T)
  <2> HIDE DEF T
  <2> QED
    BY <1>1, FS_Surjection
<1> QED
  BY <1>2 DEF Injection, IsInjective

LEMMA LevelFinite ==
  ASSUME NEW past \in Past
  PROVE  \A h \in 0 .. Len(past.objects) : IsFiniteSet(LevelsOf(past)[h])
<1>1. Len(past.objects) \in Nat /\ past.started \subseteq Node
  BY DEF Past
<1> DEFINE L == LevelsOf(past)
           Good == {h \in 0 .. Len(past.objects) : IsFiniteSet(L[h])}
<1>2. 0 \in Good
  <2> DEFINE f == [x \in past.started |-> <<x>>]
  <2>1. IsFiniteSet(past.started)
    BY <1>1, GraphTyped, FS_Subset
  <2>2. IsFiniteSet({f[x] : x \in past.started})
    <3>1. DOMAIN f = past.started /\ f = [x \in past.started |-> f[x]]
      OBVIOUS
    <3> HIDE DEF f
    <3> QED
      BY <2>1, <3>1, FiniteImage
  <2>3. L[0] = {f[x] : x \in past.started}
    BY <1>1, FirstLevel
  <2>4. 0 \in 0 .. Len(past.objects)
    BY <1>1
  <2>5. IsFiniteSet(L[0])
    <3> HIDE DEF L, f
    <3> QED
      BY <2>2, <2>3
  <2> HIDE DEF L
  <2> QED
    BY <2>4, <2>5
<1>3. ASSUME NEW h \in 1 .. Len(past.objects), h - 1 \in Good PROVE h \in Good
  <2>1. L[h] = LevelAfter(past, h, L[h - 1], Before(L, h))
    BY <1>1, NextLevel
  <2>2. IsFiniteSet(L[h - 1] \X Link)
    BY <1>3, GraphTyped, FS_Product
  <2> HIDE DEF L
  <2> DEFINE f == [x \in L[h - 1] \X Link |-> x[1] \o <<x[2], ToOf[x[2]]>>]
  <2>3. IsFiniteSet({f[x] : x \in L[h - 1] \X Link})
    <3>1. DOMAIN f = L[h - 1] \X Link /\ f = [x \in L[h - 1] \X Link |-> f[x]]
      OBVIOUS
    <3> HIDE DEF f
    <3> QED
      BY <2>2, <3>1, FiniteImage
  <2>4. L[h] \in SUBSET {f[x] : x \in L[h - 1] \X Link}
    <3>1. ASSUME NEW q \in L[h] PROVE q \in {f[x] : x \in L[h - 1] \X Link}
      <4>1. PICK p \in L[h - 1], k \in Link : q = p \o <<k, ToOf[k]>>
        BY <2>1, <3>1 DEF LevelAfter, OnwardFrom
      <4>2. <<p, k>> \in L[h - 1] \X Link /\ f[<<p, k>>] = q
        BY <4>1
      <4> HIDE DEF f
      <4> QED
        BY <4>2
    <3> HIDE DEF f
    <3> QED
      BY <3>1
  <2>5. IsFiniteSet(L[h])
    <3> HIDE DEF f
    <3> QED
      BY <2>3, <2>4, FS_Subset
  <2> QED
    BY <2>5
<1> HIDE DEF Good
<1>4. \A h \in 0 .. Len(past.objects) : h \in Good
  BY <1>1, <1>2, <1>3, Upwards
<1> QED
  BY <1>4 DEF Good

\* And so are all the paths of a traversal.
LEMMA TakenFinite ==
  ASSUME NEW past \in Past
  PROVE  IsFiniteSet(UNION {LevelsOf(past)[h] : h \in 0 .. Len(past.objects)})
<1> DEFINE n == Len(past.objects)
           f == [h \in 0 .. n |-> LevelsOf(past)[h]]
<1>1. n \in Nat
  BY DEF Past
<1>2. IsFiniteSet(0 .. n)
  BY <1>1, FS_Interval
<1>3. IsFiniteSet({f[h] : h \in 0 .. n})
  <2>1. DOMAIN f = 0 .. n /\ f = [h \in 0 .. n |-> f[h]]
    OBVIOUS
  <2> HIDE DEF f
  <2> QED
    BY <1>2, <2>1, FiniteImage
<1>4. \A T \in {f[h] : h \in 0 .. n} : IsFiniteSet(T)
  BY LevelFinite
<1>5. {LevelsOf(past)[h] : h \in 0 .. Len(past.objects)} = {f[h] : h \in 0 .. n}
  OBVIOUS
<1> HIDE DEF f, n
<1> QED
  BY <1>3, <1>4, <1>5, FS_UNION

\* A finite set has subsets of every smaller size (the batches of a check).
LEMMA BatchExists ==
  ASSUME NEW S, IsFiniteSet(S), NEW n \in 0 .. Cardinality(S)
  PROVE  \E b \in SUBSET S : Cardinality(b) = n
<1>1. Cardinality(S) \in Nat
  BY FS_CardinalityType
<1> DEFINE Good == {m \in 0 .. n : \E b \in SUBSET S : Cardinality(b) = m}
<1>2. 0 \in Good
  BY <1>1, FS_EmptySet
<1>3. ASSUME NEW m \in 1 .. n, m - 1 \in Good PROVE m \in Good
  <2>1. PICK b \in SUBSET S : Cardinality(b) = m - 1
    BY <1>3
  <2>2. IsFiniteSet(b) /\ b # S
    BY <1>1, <2>1, FS_Subset
  <2>3. PICK x \in S : x \notin b
    BY <2>2
  <2>4. Cardinality(b \cup {x}) = Cardinality(b) + 1
    BY <2>2, <2>3, FS_AddElement
  <2>5. Cardinality(b \cup {x}) = m
    BY <1>1, <2>1, <2>4
  <2> QED
    BY <1>1, <2>3, <2>5
<1> HIDE DEF Good
<1>4. n \in Nat /\ \A m \in 0 .. n : m \in Good
  BY <1>1, <1>2, <1>3, Upwards
<1> QED
  BY <1>4 DEF Good

-----------------------------------------------------------------------------
(***************************************************************************)
(* Histories that grow                                                     *)
(***************************************************************************)
Extends(other, past) ==
  /\ past \in Past /\ other \in Past /\ other.started = past.started
  /\ Len(past.objects) <= Len(other.objects)
  /\ \A h \in 1 .. Len(past.objects) :
       other.claims[h] = past.claims[h] /\ other.objects[h] = past.objects[h]

LEMMA LevelsStay ==
  ASSUME NEW past, NEW other, Extends(other, past)
  PROVE  \A h \in 0 .. Len(past.objects) : LevelsOf(other)[h] = LevelsOf(past)[h]
<1>1. Len(past.objects) \in Nat /\ Len(other.objects) \in Nat
  BY DEF Extends, Past
<1>2. /\ past.started = other.started
      /\ Len(past.objects) <= Len(past.objects) /\ Len(past.objects) <= Len(other.objects)
      /\ \A h \in 1 .. Len(past.objects) :
           past.claims[h] = other.claims[h] /\ past.objects[h] = other.objects[h]
  BY <1>1 DEF Extends
<1>3. \A h \in 0 .. Len(past.objects) : LevelsOf(past)[h] = LevelsOf(other)[h]
  BY <1>1, <1>2, LevelsAgree
<1> QED
  BY <1>3

LEMMA TipsStay ==
  ASSUME NEW past, NEW other, Extends(other, past)
  PROVE  Tips(other, Len(past.objects)) = Tips(past, Len(past.objects))
<1> DEFINE n == Len(past.objects)
<1>1. n \in Nat
  BY DEF Extends, Past
<1>2. \A h \in 0 .. n - 1 : h \in 0 .. n /\ h + 1 \in 0 .. n
  BY <1>1
<1>3. \A h \in 0 .. n - 1 : LevelsOf(other)[h] = LevelsOf(past)[h]
                              /\ LevelsOf(other)[h + 1] = LevelsOf(past)[h + 1]
  BY <1>2, LevelsStay
<1> HIDE DEF n
<1>4. Tips(other, n) = Tips(past, n)
  BY <1>3 DEF Tips
<1> QED
  BY <1>4 DEF n

LEMMA TipsGrow ==
  ASSUME NEW past, NEW other, Extends(other, past), Len(other.objects) = Len(past.objects) + 1
  PROVE  LET n == Len(past.objects)
         IN Tips(other, n + 1) =
              Tips(past, n) \cup {p \in LevelsOf(past)[n] :
                                    \A q \in LevelsOf(other)[n + 1] : ~IsPrefix(p, q)}
<1> DEFINE n == Len(past.objects)
           Ended1(h) == {p \in LevelsOf(other)[h] : \A q \in LevelsOf(other)[h + 1] : ~IsPrefix(p, q)}
<1>1. n \in Nat /\ n + 1 - 1 = n
  BY DEF Extends, Past
<1>2. \A h : h \in 0 .. n <=> h \in 0 .. n - 1 \/ h = n
  BY <1>1
<1>3. LevelsOf(other)[n] = LevelsOf(past)[n]
  BY <1>1, LevelsStay
<1>4. Tips(other, n + 1) = UNION {Ended1(h) : h \in 0 .. n}
  BY <1>1 DEF Tips
<1>5. Tips(other, n) = UNION {Ended1(h) : h \in 0 .. n - 1}
  BY DEF Tips
<1>6. Tips(other, n) = Tips(past, n)
  BY TipsStay
<1>7. Tips(other, n + 1) = Tips(past, n) \cup Ended1(n)
  <2> HIDE DEF Ended1, n
  <2> QED
    BY <1>2, <1>4, <1>5, <1>6
<1> QED
  BY <1>3, <1>7

LEMMA NoTips ==
  ASSUME NEW past
  PROVE  Tips(past, 0) = {}
<1>1. 0 .. (0 - 1) = {}
  OBVIOUS
<1> QED
  BY <1>1 DEF Tips

\* Where paths are described by levels, they have the types of paths.
LEMMA LevelPaths ==
  ASSUME NEW past \in Past
  PROVE  \A p \in Tips(past, Len(past.objects)) \cup LevelsOf(past)[Len(past.objects)] :
           p \in Seq(Node \cup Link) /\ EndOf(p) \in Node
<1> DEFINE n == Len(past.objects)
<1>1. n \in Nat
  BY DEF Past
<1>2. \A h \in 0 .. n : \A p \in LevelsOf(past)[h] : p \in Seq(Node \cup Link) /\ EndOf(p) \in Node
  BY LevelTyped DEF PathsOf, Path
<1>3. n \in 0 .. n /\ \A h \in 0 .. n - 1 : h \in 0 .. n
  BY <1>1
<1> HIDE DEF n
<1>4. \A p \in Tips(past, n) \cup LevelsOf(past)[n] : p \in Seq(Node \cup Link) /\ EndOf(p) \in Node
  BY <1>2, <1>3 DEF Tips
<1> QED
  BY <1>4 DEF n

-----------------------------------------------------------------------------
(***************************************************************************)
(* The steps                                                               *)
(***************************************************************************)
LEMMA LimitsTyped ==
  ASSUME Typed
  PROVE  /\ limits.depth \in Nat /\ limits.width \in Nat /\ limits.perHop \in Nat
         /\ limits.resources \in Nat /\ limits.checks \in Nat
BY TraversalAssumption DEF Typed, TraversalTypeOK

LEMMA ResourcesFinite == IsFiniteSet(Resources)
<1>1. IsFiniteSet(Node \cup Link)
  BY GraphTyped, FS_Union
<1> QED
  BY <1>1, GraphTyped, FS_Union DEF Resources

LEMMA HistoryNone == NoHistory \in Past /\ Len(NoHistory.objects) = 0
BY DEF NoHistory, Past

LEMMA TraversalInitial == TraversalInit => TraversalInv
<1> SUFFICES ASSUME TraversalInit PROVE TraversalInv
  OBVIOUS
<1>1. limits.resources \in Nat /\ limits.checks \in Nat /\ MaxDenials \in Nat /\ limits \in Limits
  BY TraversalAssumption DEF TraversalInit
<1>2. Cardinality({}) = 0
  BY FS_EmptySet
<1>3. Typed
  BY <1>1, <1>2, HistoryNone DEF TraversalInit, Typed, TraversalTypeOK
<1> QED
  BY <1>3 DEF TraversalInit, TraversalInv, Sought, Early, Late

\* checkTraversalResources takes a batch of what is left, and allows some of it.
LEMMA CheckMoves ==
  ASSUME Typed, Check
  PROVE  /\ asked' \subseteq asked /\ approved' \subseteq approved \cup asked
         /\ batches' = batches + 1 /\ denials' \in {denials, denials + 1} /\ denials' <= MaxDenials
<1> DEFINE size == IF Cardinality(asked) < BatchSize THEN Cardinality(asked) ELSE BatchSize
           batch == CHOOSE b \in SUBSET asked : Cardinality(b) = size
<1>1. IsFiniteSet(asked)
  BY ResourcesFinite, FS_Subset DEF Typed
<1>2. Cardinality(asked) \in Nat /\ BatchSize \in Nat
  BY <1>1, FS_CardinalityType, TraversalAssumption
<1>3. size \in 0 .. Cardinality(asked)
  BY <1>2
<1>4. \E b \in SUBSET asked : Cardinality(b) = size
  <2> HIDE DEF size
  <2> QED
    BY <1>1, <1>3, BatchExists
<1>5. batch \in SUBSET asked
  <2> HIDE DEF size
  <2> QED
    BY <1>4
<1>6. /\ asked' = asked \ batch
      /\ \E refused \in SUBSET batch :
           /\ refused # {} => denials < MaxDenials
           /\ denials' = IF refused = {} THEN denials ELSE denials + 1
           /\ approved' = approved \cup (batch \ refused)
  BY DEF Check
<1> HIDE DEF batch
<1>7. PICK refused \in SUBSET batch :
           /\ refused # {} => denials < MaxDenials
           /\ denials' = IF refused = {} THEN denials ELSE denials + 1
           /\ approved' = approved \cup (batch \ refused)
  BY <1>6
<1>8. denials \in Nat /\ MaxDenials \in Nat /\ denials <= MaxDenials
  BY TraversalAssumption DEF Typed, TraversalTypeOK
<1> QED
  BY <1>5, <1>6, <1>7, <1>8 DEF Check

\* What the parts of the invariant are about.
LEMMA LevelKept ==
  ASSUME UNCHANGED <<frontier, terminals, visited, history, limits>>
  PROVE  /\ OnLevel => OnLevel'
         /\ AtEnd => AtEnd'
BY DEF OnLevel, AtEnd, Levels, Hops

LEMMA CheckKeeps == TraversalInv /\ Check => TraversalInv'
<1> SUFFICES ASSUME TraversalInv, Check PROVE TraversalInv'
  OBVIOUS
<1>1. Typed
  BY DEF TraversalInv
<1>2. /\ UNCHANGED <<limits, stage, frontier, claimPaths, terminals, visited, edges, named,
                     history, delivered>>
      /\ stage \in Asking /\ batches < limits.checks
  BY DEF Check
<1>3. Typed'
  BY <1>1, <1>2, CheckMoves, LimitsTyped DEF Typed, TraversalTypeOK
<1>4. Sought'
  BY <1>1, <1>2, CheckMoves DEF TraversalInv, Sought
<1>5. stage # "done"
  BY <1>2 DEF Asking
<1> QED
  BY <1>2, <1>3, <1>4, <1>5, LevelKept DEF TraversalInv, Hops

LEMMA FailKeeps == TraversalInv /\ Fail => TraversalInv'
<1> SUFFICES ASSUME TraversalInv, Fail PROVE TraversalInv'
  OBVIOUS
<1>1. Typed /\ MaxDenials \in Nat
  BY TraversalAssumption DEF TraversalInv
<1>2. limits.resources \in Nat /\ limits.checks \in Nat /\ Cardinality({}) = 0
  BY <1>1, LimitsTyped, FS_EmptySet
<1>3. Typed'
  BY <1>1, <1>2, HistoryNone DEF Fail, Typed, TraversalTypeOK
<1> QED
  BY <1>3 DEF Fail, TraversalInv, Sought, Early, Late

LEMMA AskTyped ==
  ASSUME Typed, NEW resources \in SUBSET Resources, NEW next \in Asking, Ask(resources, next),
         UNCHANGED <<limits, frontier, claimPaths, terminals, visited, batches, denials, history>>,
         edges' \subseteq Link
  PROVE  Typed' /\ stage' = next /\ asked' = resources /\ approved' = {}
BY DEF Ask, Typed, TraversalTypeOK

LEMMA DiscoverKeeps == TraversalInv /\ Discover => TraversalInv'
<1> SUFFICES ASSUME TraversalInv, Discover PROVE TraversalInv'
  OBVIOUS
<1>1. Typed' /\ stage' = "discover" /\ asked' = Node /\ approved' = {}
  <2>1. Node \in SUBSET Resources /\ "discover" \in Asking
    BY DEF Resources, Asking
  <2>2. edges' \subseteq Link
    BY DEF Discover, TraversalInv, Typed, TraversalTypeOK
  <2> QED
    BY <2>1, <2>2, AskTyped DEF Discover, TraversalInv
<1> QED
  BY <1>1 DEF Discover, TraversalInv, Sought, Early, Late

LEMMA RetrieveKeeps == TraversalInv /\ Retrieve => TraversalInv'
<1> SUFFICES ASSUME TraversalInv, Retrieve PROVE TraversalInv'
  OBVIOUS
<1>1. CASE /\ Checked("discover") /\ stage' = "retrieve"
           /\ UNCHANGED <<limits, frontier, claimPaths, terminals, visited, edges, named, asked,
                          approved, batches, denials, history, delivered>>
  <2>1. Typed'
    BY <1>1 DEF TraversalInv, Typed, TraversalTypeOK, Calling
  <2> QED
    BY <1>1, <2>1 DEF TraversalInv, Sought, Early, Late, Checked
<1>2. ASSUME stage = "retrieve", NEW retrieved \in SUBSET approved, Ask(retrieved, "start"),
             UNCHANGED <<limits, frontier, claimPaths, terminals, visited, edges, batches,
                         denials, history, delivered>>
      PROVE  TraversalInv'
  <2>1. retrieved \in SUBSET Resources /\ retrieved \subseteq Node /\ "start" \in Asking
    BY <1>2 DEF TraversalInv, Typed, Sought, Asking
  <2>2. edges' \subseteq Link
    BY <1>2 DEF TraversalInv, Typed, TraversalTypeOK
  <2>3. Typed' /\ stage' = "start" /\ asked' = retrieved /\ approved' = {}
    BY <1>2, <2>1, <2>2, AskTyped DEF TraversalInv
  <2> QED
    BY <1>2, <2>1, <2>3 DEF TraversalInv, Sought, Early, Late
<1> QED
  BY <1>1, <1>2 DEF Retrieve

LEMMA StartKeeps == TraversalInv /\ Start => TraversalInv'
<1> SUFFICES ASSUME TraversalInv, Start PROVE TraversalInv'
  OBVIOUS
<1>1. /\ Typed /\ stage = "start" /\ history = NoHistory /\ terminals = {}
      /\ approved \subseteq Node
  BY DEF TraversalInv, Start, Checked, Sought, Early
<1>2. /\ history' = [NoHistory EXCEPT !.started = approved]
      /\ visited' = approved
      /\ UNCHANGED <<limits, claimPaths, edges, named, asked, approved, batches, denials, delivered>>
  BY <1>1 DEF Start
<1> DEFINE paths == {<<n>> : n \in approved}
<1>3. /\ history' \in Past /\ history'.started = approved
      /\ Len(history'.objects) = 0 /\ Len(history'.claims) = 0
  <2>1. history' = [started |-> approved, claims |-> <<>>, objects |-> <<>>]
    BY <1>2 DEF NoHistory
  <2>2. approved \in SUBSET Node /\ <<>> \in Seq(SUBSET Link) /\ <<>> \in Seq(SUBSET Node)
    BY <1>1
  <2> QED
    BY <2>1, <2>2 DEF Past
<1>4. LevelsOf(history')[0] = paths
  BY <1>3, FirstLevel
<1>5. Tips(history', 0) = {}
  BY NoTips
<1>6. \A p \in paths : p \in Seq(Node \cup Link) /\ EndOf(p) \in Node
  BY <1>1 DEF EndOf
<1>7. EndsOf(paths) = approved
  <2>1. \A n \in approved : EndOf(<<n>>) = n
    BY DEF EndOf
  <2> QED
    BY <2>1 DEF EndsOf
<1>8. CASE limits.depth = 0 /\ stage' = "load" /\ terminals' = paths /\ frontier' = frontier
  <2>1. Typed'
    BY <1>1, <1>2, <1>3, <1>6, <1>8 DEF Typed, TraversalTypeOK, Calling
  <2>2. AtEnd'
    <3>1. terminals' = Tips(history', 0) \cup LevelsOf(history')[0]
      BY <1>4, <1>5, <1>8
    <3>2. ~(0 < limits'.depth)
      BY <1>2, <1>8
    <3> QED
      BY <1>3, <3>1, <3>2 DEF AtEnd, Hops, Levels
  <2> QED
    BY <1>8, <2>1, <2>2 DEF TraversalInv, Sought, Early
<1>9. CASE limits.depth # 0 /\ stage' = "expand" /\ frontier' = paths /\ terminals' = terminals
  <2>1. Typed'
    BY <1>1, <1>2, <1>3, <1>6, <1>9 DEF Typed, TraversalTypeOK, Calling
  <2>2. OnLevel'
    <3>1. frontier' = LevelsOf(history')[0] /\ terminals' = Tips(history', 0)
      BY <1>1, <1>4, <1>5, <1>9
    <3>2. UNION {EndsOf(LevelsOf(history')[h]) : h \in 0 .. 0} = EndsOf(LevelsOf(history')[0])
      <4>1. \A h : h \in 0 .. 0 <=> h = 0
        OBVIOUS
      <4> QED
        BY <4>1
    <3>3. visited' = UNION {EndsOf(LevelsOf(history')[h]) : h \in 0 .. 0}
      BY <1>2, <1>4, <1>7, <3>2
    <3>4. 0 < limits'.depth
      BY <1>1, <1>2, <1>9, LimitsTyped
    <3> QED
      BY <1>3, <3>1, <3>3, <3>4 DEF OnLevel, Hops, Levels
  <2> QED
    BY <1>3, <1>9, <2>1, <2>2 DEF TraversalInv, Sought, Early, Late, Hops
<1> QED
  BY <1>8, <1>9 DEF Start

-----------------------------------------------------------------------------
\* A hop

LEMMA NamedLinks ==
  ASSUME NEW exact \in SUBSET Link, NEW found \in Named(exact)
  PROVE  exact \subseteq found /\ found \subseteq Link
BY DEF Named

LEMMA ExpandKeeps == TraversalInv /\ Expand => TraversalInv'
<1> SUFFICES ASSUME TraversalInv, Expand PROVE TraversalInv'
  OBVIOUS
<1> DEFINE exact == {k \in Link : FromOf[k] \in EndsOf(frontier)}
<1>1. PICK found \in Named(exact) : Ask(found, "claims") /\ edges' = found
  BY DEF Expand
<1>2. /\ Typed /\ OnLevel /\ Len(history.claims) = Hops
      /\ UNCHANGED <<limits, frontier, claimPaths, terminals, visited, batches, denials,
                     history, delivered>>
  BY DEF Expand, TraversalInv
<1>3. exact \subseteq found /\ found \subseteq Link /\ found \in SUBSET Resources
  BY NamedLinks DEF Resources
<1>4. Typed' /\ stage' = "claims" /\ asked' = found /\ approved' = {}
  BY <1>1, <1>2, <1>3, AskTyped DEF Asking
<1>5. OnLevel' /\ Len(history'.claims) = Hops'
  BY <1>2, LevelKept DEF Hops
<1>6. Sought'
  BY <1>1, <1>2, <1>3, <1>4 DEF Sought
<1> QED
  BY <1>4, <1>5, <1>6 DEF TraversalInv, Early, Late

\* bindClaimPaths, from the claims that were not denied
LEMMA ClaimsKeep == TraversalInv /\ Claims => TraversalInv'
<1> SUFFICES ASSUME TraversalInv, Claims PROVE TraversalInv'
  OBVIOUS
<1> DEFINE denied == edges \ approved
           n == Len(history.objects)
           paths == UNION {{Append(p, k) : k \in {x \in approved : FromOf[x] = EndOf(p)}} :
                             p \in frontier}
<1>1. /\ Typed /\ OnLevel /\ Len(history.claims) = Hops
      /\ approved \subseteq edges
      /\ {k \in Link : FromOf[k] \in EndsOf(frontier)} \subseteq edges
  BY DEF Claims, Checked, TraversalInv, Sought
<1>2. /\ history' = [history EXCEPT !.claims = Append(history.claims, denied)]
      /\ claimPaths' = paths
      /\ UNCHANGED <<limits, visited, edges, named, asked, approved, batches, denials, delivered>>
  BY DEF Claims
<1>3. n \in Nat /\ Hops = n /\ Len(history.claims) = n /\ history \in Past
  BY <1>1 DEF Typed, Past, Hops
<1>4. edges \subseteq Link /\ denied \subseteq Link
  BY <1>1 DEF Typed, TraversalTypeOK
<1>5. /\ history' \in Past /\ history'.started = history.started
      /\ history'.objects = history.objects /\ Hops' = n
      /\ Len(history'.claims) = n + 1 /\ history'.claims[n + 1] = denied
      /\ \A h \in 1 .. n : history'.claims[h] = history.claims[h]
  <2>1. history.claims \in Seq(SUBSET Link) /\ denied \in SUBSET Link
    BY <1>3, <1>4 DEF Past
  <2>2. history'.claims = Append(history.claims, denied)
    BY <1>2, <1>3 DEF Past
  <2>3. /\ history'.claims \in Seq(SUBSET Link)
        /\ Len(history'.claims) = n + 1 /\ history'.claims[n + 1] = denied
        /\ \A h \in 1 .. n : history'.claims[h] = history.claims[h]
    BY <1>3, <2>1, <2>2
  <2> QED
    BY <1>2, <1>3, <2>3 DEF Past, Hops
<1>6. Extends(history', history)
  BY <1>3, <1>5 DEF Extends
<1>7. LevelsOf(history')[n] = LevelsOf(history)[n] /\ Tips(history', n) = Tips(history, n)
      /\ \A h \in 0 .. n : LevelsOf(history')[h] = LevelsOf(history)[h]
  BY <1>3, <1>6, LevelsStay, TipsStay
<1>8. /\ frontier = LevelsOf(history')[n] /\ terminals = Tips(history', n)
      /\ visited = UNION {EndsOf(LevelsOf(history')[h]) : h \in 0 .. n}
      /\ n < limits.depth
  BY <1>1, <1>3, <1>7 DEF OnLevel, Levels
<1>9. ASSUME NEW p \in frontier
      PROVE  OnwardFrom(history', p, n + 1) = {x \in approved : FromOf[x] = EndOf(p)}
  <2>1. EndOf(p) \in EndsOf(frontier)
    BY DEF EndsOf
  <2>2. \A k \in Link : FromOf[k] = EndOf(p) => (k \notin denied <=> k \in approved)
    BY <1>1, <2>1
  <2> QED
    BY <1>1, <1>4, <1>5, <2>2 DEF OnwardFrom
<1>10. claimPaths' = UNION {{Append(p, k) : k \in OnwardFrom(history', p, n + 1)} : p \in frontier}
  <2> DEFINE bound == UNION {{Append(p, k) : k \in OnwardFrom(history', p, n + 1)} : p \in frontier}
  <2>1. ASSUME NEW q \in paths PROVE q \in bound
    <3>1. PICK p \in frontier, k \in approved : q = Append(p, k) /\ FromOf[k] = EndOf(p)
      OBVIOUS
    <3>2. k \in OnwardFrom(history', p, n + 1)
      BY <1>9, <3>1
    <3> QED
      BY <3>1, <3>2
  <2>2. ASSUME NEW q \in bound PROVE q \in paths
    <3>1. PICK p \in frontier : \E k \in OnwardFrom(history', p, n + 1) : q = Append(p, k)
      OBVIOUS
    <3>2. PICK k \in approved : q = Append(p, k) /\ FromOf[k] = EndOf(p)
      BY <1>9, <3>1
    <3> QED
      BY <3>2
  <2> HIDE DEF paths
  <2> QED
    BY <1>2, <2>1, <2>2
<1>11. \A p \in claimPaths' : p \in Seq(Node \cup Link) /\ EndOf(p) \in Link
  <2>1. ASSUME NEW p \in frontier, NEW k \in Link
        PROVE  Append(p, k) \in Seq(Node \cup Link) /\ EndOf(Append(p, k)) \in Link
    BY <1>1 DEF Typed, TraversalTypeOK, EndOf
  <2>2. approved \subseteq Link
    BY <1>1, <1>4
  <2> SUFFICES ASSUME NEW q \in paths PROVE q \in Seq(Node \cup Link) /\ EndOf(q) \in Link
    BY <1>2
  <2>3. PICK p \in frontier, k \in approved : q = Append(p, k)
    OBVIOUS
  <2> HIDE DEF paths
  <2> QED
    BY <2>1, <2>2, <2>3
<1>12. CASE paths = {} /\ stage' = "load" /\ terminals' = terminals \cup frontier /\ frontier' = {}
  <2>1. Typed'
    BY <1>1, <1>2, <1>5, <1>11, <1>12 DEF Typed, TraversalTypeOK, Calling
  <2>2. \A p \in LevelsOf(history')[n] : OnwardFrom(history', p, n + 1) = {}
    <3> SUFFICES ASSUME NEW p \in frontier PROVE OnwardFrom(history', p, n + 1) = {}
      BY <1>8
    <3>1. \A x \in approved : FromOf[x] = EndOf(p) => Append(p, x) \in paths
      OBVIOUS
    <3> HIDE DEF paths
    <3> QED
      BY <1>9, <1>12, <3>1
  <2>3. AtEnd'
    <3>1. terminals' = Tips(history', n) \cup LevelsOf(history')[n]
      BY <1>8, <1>12
    <3>2. n + 1 > n
      BY <1>3
    <3> QED
      BY <1>5, <2>2, <3>1, <3>2 DEF AtEnd, Levels
  <2> QED
    BY <1>12, <2>1, <2>3 DEF TraversalInv, Sought, Early
<1>13. CASE stage' = "follow" /\ terminals' = terminals /\ frontier' = frontier
  <2>1. Typed'
    BY <1>1, <1>2, <1>5, <1>11, <1>13 DEF Typed, TraversalTypeOK, Calling
  <2>2. OnLevel'
    BY <1>2, <1>5, <1>8, <1>13 DEF OnLevel, Levels
  <2> QED
    BY <1>5, <1>10, <1>13, <2>1, <2>2 DEF TraversalInv, Sought, Early, Late
<1> QED
  BY <1>12, <1>13 DEF Claims

LEMMA FollowKeeps == TraversalInv /\ Follow => TraversalInv'
<1> SUFFICES ASSUME TraversalInv, Follow PROVE TraversalInv'
  OBVIOUS
<1>1. /\ Typed /\ OnLevel /\ Len(history.claims) = Hops + 1
      /\ claimPaths = UNION {{Append(p, k) : k \in OnwardFrom(history, p, Hops + 1)} : p \in frontier}
      /\ UNCHANGED <<limits, frontier, claimPaths, terminals, visited, batches, denials,
                     history, delivered>>
  BY DEF Follow, TraversalInv
<1>2. EndsOf(claimPaths) \in SUBSET Link
  BY <1>1 DEF Typed, TraversalTypeOK, EndsOf
<1>3. PICK found \in Named(EndsOf(claimPaths)) :
        Ask({ToOf[k] : k \in found}, "objects") /\ edges' = found
  BY DEF Follow
<1>4. EndsOf(claimPaths) \subseteq found /\ found \subseteq Link
  BY <1>2, NamedLinks
<1>5. {ToOf[k] : k \in found} \in SUBSET Resources
  BY <1>4, GraphTyped DEF Resources
<1>6. Typed' /\ stage' = "objects" /\ asked' = {ToOf[k] : k \in found} /\ approved' = {}
  BY <1>1, <1>3, <1>4, <1>5, AskTyped DEF Asking
<1>7. OnLevel' /\ Len(history'.claims) = Hops' + 1 /\ Hops' = Hops
  BY <1>1, LevelKept DEF Hops
<1>8. claimPaths' = UNION {{Append(p, k) : k \in OnwardFrom(history', p, Hops' + 1)} : p \in frontier'}
  BY <1>1, <1>7
<1>9. Sought'
  BY <1>1, <1>3, <1>4, <1>6 DEF Sought
<1> QED
  BY <1>6, <1>7, <1>8, <1>9 DEF TraversalInv, Early, Late

\* bindObjectPaths: the paths that advance are the next level.
LEMMA AdvancedIsNext ==
  ASSUME TraversalInv, Objects
  PROVE  /\ Extends(history', history) /\ Len(history'.objects) = Hops + 1
         /\ Len(history'.claims) = Hops + 1
         /\ LevelsOf(history')[Hops + 1] = Advanced
<1> DEFINE denied == {ToOf[k] : k \in edges} \ approved
           n == Len(history.objects)
<1>1. /\ Typed /\ OnLevel /\ Len(history.claims) = n + 1 /\ Hops = n
      /\ claimPaths = UNION {{Append(p, k) : k \in OnwardFrom(history, p, n + 1)} : p \in frontier}
      /\ EndsOf(claimPaths) \subseteq edges
  BY DEF Objects, Checked, TraversalInv, Sought, Hops
<1>2. history' = [history EXCEPT !.objects = Append(history.objects, denied)]
  BY DEF Objects
<1>3. n \in Nat /\ history \in Past /\ denied \in SUBSET Node
  BY <1>1, GraphTyped DEF Typed, TraversalTypeOK, Past
<1>4. /\ history' \in Past /\ history'.started = history.started
      /\ history'.claims = history.claims
      /\ Len(history'.objects) = n + 1 /\ history'.objects[n + 1] = denied
      /\ \A h \in 1 .. n : history'.objects[h] = history.objects[h]
  <2>1. history.objects \in Seq(SUBSET Node)
    BY <1>3 DEF Past
  <2>2. history'.objects = Append(history.objects, denied)
    BY <1>2, <1>3 DEF Past
  <2>3. /\ history'.objects \in Seq(SUBSET Node)
        /\ Len(history'.objects) = n + 1 /\ history'.objects[n + 1] = denied
        /\ \A h \in 1 .. n : history'.objects[h] = history.objects[h]
    BY <1>3, <2>1, <2>2
  <2> QED
    BY <1>2, <1>3, <2>3 DEF Past
<1>5. Extends(history', history)
  BY <1>3, <1>4 DEF Extends
<1>6. \A h \in 0 .. n : LevelsOf(history')[h] = LevelsOf(history)[h]
  BY <1>5, LevelsStay
<1>7. Before(LevelsOf(history'), n + 1) = visited
  <2>1. n + 1 - 1 = n
    BY <1>3
  <2>2. visited = UNION {EndsOf(LevelsOf(history)[h]) : h \in 0 .. n}
    BY <1>1 DEF OnLevel, Levels
  <2>3. Before(LevelsOf(history'), n + 1) = UNION {EndsOf(LevelsOf(history')[h]) : h \in 0 .. n}
    BY <2>1 DEF Before
  <2>4. \A h \in 0 .. n : EndsOf(LevelsOf(history')[h]) = EndsOf(LevelsOf(history)[h])
    BY <1>6
  <2> HIDE DEF n
  <2> QED
    BY <2>2, <2>3, <2>4
<1>8. LevelsOf(history')[n + 1] = LevelAfter(history', n + 1, frontier, visited)
  <2>1. n + 1 \in 1 .. Len(history'.objects) /\ n + 1 - 1 = n /\ n \in 0 .. n
    BY <1>3, <1>4
  <2>2. LevelsOf(history')[n + 1]
          = LevelAfter(history', n + 1, LevelsOf(history')[n + 1 - 1], Before(LevelsOf(history'), n + 1))
    BY <1>3, <1>4, <2>1, NextLevel
  <2>3. LevelsOf(history')[n] = frontier
    BY <1>1, <1>6, <2>1 DEF OnLevel, Levels
  <2> QED
    BY <1>7, <2>1, <2>2, <2>3
<1>9. \A p : OnwardFrom(history', p, n + 1) = OnwardFrom(history, p, n + 1)
  BY <1>4 DEF OnwardFrom
<1>10. ASSUME NEW p \in frontier, NEW k \in OnwardFrom(history, p, n + 1)
       PROVE  /\ k \in Link /\ EndOf(Append(p, k)) = k /\ Append(p, k) \in claimPaths
              /\ Append(Append(p, k), ToOf[k]) = p \o <<k, ToOf[k]>>
              /\ ToOf[k] \in approved <=> ToOf[k] \notin denied
  <2>1. k \in Link /\ p \in Path
    BY <1>1 DEF OnwardFrom, Typed, TraversalTypeOK, Path
  <2>2. Append(Append(p, k), ToOf[k]) = p \o <<k, ToOf[k]>>
    BY <2>1, OneHop
  <2>3. EndOf(Append(p, k)) = k
    BY <2>1 DEF EndOf, Path
  <2>4. Append(p, k) \in claimPaths
    BY <1>1
  <2>5. k \in edges
    BY <1>1, <2>3, <2>4 DEF EndsOf
  <2> QED
    BY <2>1, <2>2, <2>3, <2>4, <2>5
<1> HIDE DEF n
<1>11. ASSUME NEW q \in LevelAfter(history', n + 1, frontier, visited) PROVE q \in Advanced
  <2> DEFINE onward(r) == {r \o <<x, ToOf[x]>> :
                x \in {y \in OnwardFrom(history', r, n + 1) :
                        ToOf[y] \notin visited \cup history'.objects[n + 1]}}
  <2>1. PICK p \in frontier : q \in onward(p)
    <3>1. LevelAfter(history', n + 1, frontier, visited) = UNION {onward(r) : r \in frontier}
      BY DEF LevelAfter
    <3> HIDE DEF onward
    <3> QED
      BY <1>11, <3>1
  <2>2. PICK k \in OnwardFrom(history, p, n + 1) :
          q = p \o <<k, ToOf[k]>> /\ ToOf[k] \notin visited \cup denied
    <3>1. history'.objects[n + 1] = denied
      BY <1>4 DEF n
    <3> QED
      BY <2>1, <3>1, <1>9
  <2>3. q = Append(Append(p, k), ToOf[EndOf(Append(p, k))]) /\ Append(p, k) \in claimPaths
        /\ ToOf[EndOf(Append(p, k))] \in approved \ visited
    BY <2>2, <1>10
  <2> QED
    BY <2>3 DEF Advanced
<1>12. ASSUME NEW q \in Advanced PROVE q \in LevelAfter(history', n + 1, frontier, visited)
  <2>1. PICK r \in claimPaths : /\ q = Append(r, ToOf[EndOf(r)])
                                /\ ToOf[EndOf(r)] \in approved \ visited
    BY DEF Advanced
  <2>2. PICK p \in frontier : \E k \in OnwardFrom(history, p, n + 1) : r = Append(p, k)
    BY <1>1, <2>1
  <2>3. PICK k \in OnwardFrom(history, p, n + 1) : r = Append(p, k)
    BY <2>2
  <2>4. q = p \o <<k, ToOf[k]>> /\ ToOf[k] \notin visited \cup denied
    BY <1>10, <2>1, <2>3
  <2>5. k \in {x \in OnwardFrom(history', p, n + 1) : ToOf[x] \notin visited \cup history'.objects[n + 1]}
    BY <1>4, <1>9, <2>3, <2>4 DEF n
  <2> DEFINE onward(z) == {z \o <<x, ToOf[x]>> :
                x \in {y \in OnwardFrom(history', z, n + 1) :
                        ToOf[y] \notin visited \cup history'.objects[n + 1]}}
  <2>6. q \in onward(p)
    BY <2>4, <2>5
  <2>7. LevelAfter(history', n + 1, frontier, visited) = UNION {onward(z) : z \in frontier}
    BY DEF LevelAfter
  <2> HIDE DEF onward
  <2> QED
    BY <2>6, <2>7
<1>13. LevelsOf(history')[n + 1] = Advanced
  BY <1>8, <1>11, <1>12
<1> QED
  BY <1>1, <1>4, <1>5, <1>13 DEF n

LEMMA ObjectsKeep == TraversalInv /\ Objects => TraversalInv'
<1> SUFFICES ASSUME TraversalInv, Objects PROVE TraversalInv'
  OBVIOUS
<1> DEFINE n == Len(history.objects)
           over == Advanced = {} \/ n + 1 = limits.depth
<1>1. /\ Typed /\ OnLevel /\ Hops = n /\ n \in Nat /\ history \in Past
  BY DEF Objects, Checked, TraversalInv, Hops, Typed, Past
<1>2. /\ terminals' = terminals \cup Ended(Advanced) \cup (IF over THEN Advanced ELSE {})
      /\ visited' = visited \cup EndsOf(Advanced)
      /\ frontier' = IF over THEN {} ELSE Advanced
      /\ stage' = IF over THEN "load" ELSE "expand"
      /\ UNCHANGED <<limits, claimPaths, edges, named, asked, approved, batches, denials, delivered>>
  BY DEF Objects
<1>3. /\ Extends(history', history) /\ history' \in Past
      /\ Len(history'.objects) = n + 1 /\ Hops' = n + 1 /\ Len(history'.claims) = n + 1
      /\ LevelsOf(history')[n + 1] = Advanced
  BY <1>1, AdvancedIsNext DEF Extends, Hops
<1>4. Tips(history', n + 1) = terminals \cup Ended(Advanced)
  <2>1. frontier = LevelsOf(history)[n] /\ terminals = Tips(history, n)
    BY <1>1 DEF OnLevel, Levels
  <2>2. Tips(history', n + 1) = Tips(history, n) \cup
          {p \in LevelsOf(history)[n] : \A q \in LevelsOf(history')[n + 1] : ~IsPrefix(p, q)}
    BY <1>3, TipsGrow
  <2> QED
    BY <1>3, <2>1, <2>2 DEF Ended
<1>5. UNION {EndsOf(LevelsOf(history')[h]) : h \in 0 .. n + 1} = visited \cup EndsOf(Advanced)
  <2>1. \A h \in 0 .. n : LevelsOf(history')[h] = LevelsOf(history)[h]
    BY <1>3, LevelsStay
  <2>2. visited = UNION {EndsOf(LevelsOf(history)[h]) : h \in 0 .. n}
    BY <1>1 DEF OnLevel, Levels
  <2>3. \A h : h \in 0 .. n + 1 <=> h \in 0 .. n \/ h = n + 1
    BY <1>1
  <2>4. visited = UNION {EndsOf(LevelsOf(history')[h]) : h \in 0 .. n}
    BY <2>1, <2>2
  <2> HIDE DEF n
  <2> QED
    BY <1>3, <2>3, <2>4
<1>6. \A p \in terminals \cup Ended(Advanced) \cup Advanced :
        p \in Seq(Node \cup Link) /\ EndOf(p) \in Node
  BY <1>3, <1>4, LevelPaths
<1>7. visited \cup EndsOf(Advanced) \subseteq Node
  <2>1. visited \subseteq Node
    BY <1>1 DEF Typed, TraversalTypeOK
  <2> QED
    BY <1>6, <2>1 DEF EndsOf
<1>8. CASE over
  <2>1. stage' = "load" /\ frontier' = {} /\ terminals' = terminals \cup Ended(Advanced) \cup Advanced
    BY <1>2, <1>8
  <2> HIDE DEF over
  <2>2. Typed'
    BY <1>1, <1>2, <1>3, <1>6, <1>7, <2>1 DEF Typed, TraversalTypeOK, Calling
  <2>3. AtEnd'
    <3>1. terminals' = Tips(history', n + 1) \cup LevelsOf(history')[n + 1]
      BY <1>3, <1>4, <2>1
    <3>2. limits'.depth = limits.depth /\ limits.depth \in Nat
      BY <1>1, <1>2, LimitsTyped
    <3>3. n + 1 < limits'.depth => LevelsOf(history')[n + 1] = {}
      BY <1>1, <1>3, <1>8, <3>2 DEF over
    <3> HIDE DEF n
    <3> QED
      BY <1>3, <3>1, <3>3 DEF AtEnd, Levels
  <2> QED
    BY <2>1, <2>2, <2>3 DEF TraversalInv, Sought, Early
<1>9. CASE ~over
  <2>1. stage' = "expand" /\ frontier' = Advanced /\ terminals' = terminals \cup Ended(Advanced)
    BY <1>2, <1>9
  <2>2. n + 1 < limits'.depth
    BY <1>1, <1>2, <1>9, LimitsTyped DEF OnLevel
  <2> HIDE DEF over
  <2>3. Typed'
    BY <1>1, <1>2, <1>3, <1>6, <1>7, <2>1 DEF Typed, TraversalTypeOK, Calling
  <2>4. OnLevel'
    <3> HIDE DEF n
    <3> QED
      BY <1>2, <1>3, <1>4, <1>5, <2>1, <2>2 DEF OnLevel, Levels
  <2> QED
    BY <1>3, <2>1, <2>3, <2>4 DEF TraversalInv, Sought, Early, Late
<1> QED
  BY <1>8, <1>9

-----------------------------------------------------------------------------
\* The end

LEMMA LoadKeeps == TraversalInv /\ Load => TraversalInv'
<1> SUFFICES ASSUME TraversalInv, Load PROVE TraversalInv'
  OBVIOUS
<1> DEFINE resources == ResourcesOf(terminals) \cup
                          UNION {UNION SupportsOf[x].groups : x \in EndsOf(terminals)}
<1>1. Ask(resources, "final") /\ Typed /\ AtEnd
      /\ UNCHANGED <<limits, frontier, claimPaths, terminals, visited, edges, batches, denials,
                     history, delivered>>
  BY DEF Load, TraversalInv, Late
<1>2. ResourcesOf(terminals) \subseteq Node \cup Link
  <2> SUFFICES ASSUME NEW p \in terminals, NEW i \in DOMAIN p PROVE p[i] \in Node \cup Link
    BY DEF ResourcesOf
  <2>1. p \in Seq(Node \cup Link)
    BY <1>1 DEF Typed, TraversalTypeOK
  <2> QED
    BY <2>1
<1>3. EndsOf(terminals) \subseteq Node
  BY <1>1 DEF Typed, TraversalTypeOK, EndsOf
<1>4. UNION {UNION SupportsOf[x].groups : x \in EndsOf(terminals)} \subseteq Evidence
  BY <1>3 DEF Evidence
<1>5. resources \in SUBSET Resources
  BY <1>2, <1>4 DEF Resources
<1>6. edges' \subseteq Link
  BY <1>1 DEF Typed, TraversalTypeOK
<1> HIDE DEF resources
<1>7. Typed' /\ stage' = "final"
  BY <1>1, <1>5, <1>6, AskTyped DEF Asking
<1>8. AtEnd'
  BY <1>1, LevelKept
<1> QED
  BY <1>7, <1>8 DEF TraversalInv, Sought, Early

\* The items that finalizeTraversalEvidence chooses from are finitely many.
LEMMA SurvivingFinite ==
  ASSUME Typed, AtEnd
  PROVE  IsFiniteSet(Surviving)
<1> DEFINE chosen == {q \in terminals : Selectable(EndOf(q)) /\ ResourcesOf({q}) \subseteq approved}
           f == [p \in chosen |-> [item |-> EndOf(p), supports |-> Kept(EndOf(p)), path |-> p]]
<1>1. IsFiniteSet(terminals)
  <2>1. history \in Past
    BY DEF Typed
  <2>2. terminals \in SUBSET UNION {LevelsOf(history)[h] : h \in 0 .. Len(history.objects)}
    BY <2>1, TipsAreMaximal DEF AtEnd, Levels, Hops
  <2> QED
    BY <2>1, <2>2, TakenFinite, FS_Subset
<1>2. IsFiniteSet(chosen)
  BY <1>1, FS_Subset
<1>3. IsFiniteSet({f[p] : p \in chosen})
  <2>1. DOMAIN f = chosen /\ f = [p \in chosen |-> f[p]]
    OBVIOUS
  <2> HIDE DEF f, chosen
  <2> QED
    BY <1>2, <2>1, FiniteImage
<1>4. Surviving = {f[p] : p \in chosen}
  BY DEF Surviving
<1> QED
  BY <1>3, <1>4

\* One of each item that can be shown, as many as may be shown.
LEMMA ChosenExact ==
  ASSUME NEW S, IsFiniteSet(S), NEW chosen \in SUBSET S,
         NEW limit \in Nat,
         LET items == {s.item : s \in S}
             size == IF Cardinality(items) < limit THEN Cardinality(items) ELSE limit
         IN Cardinality(chosen) = size /\ Cardinality({s.item : s \in chosen}) = size
  PROVE  /\ \A c, d \in chosen : c.item = d.item => c = d
         /\ Cardinality(chosen) < limit => \A s \in S : \E d \in chosen : d.item = s.item
<1> DEFINE items == {s.item : s \in S}
           shown == {s.item : s \in chosen}
           size == IF Cardinality(items) < limit THEN Cardinality(items) ELSE limit
           f == [s \in chosen |-> s.item]
           g == [s \in S |-> s.item]
<1>1. IsFiniteSet(chosen)
  BY FS_Subset
<1>2. Cardinality(chosen) = size /\ Cardinality(shown) = size
  OBVIOUS
<1>3. shown = {f[s] : s \in chosen} /\ items = {g[s] : s \in S}
  OBVIOUS
<1>4. \A c, d \in chosen : c.item = d.item => c = d
  <2>1. DOMAIN f = chosen /\ f = [s \in chosen |-> f[s]]
    OBVIOUS
  <2>2. Cardinality({f[s] : s \in chosen}) = Cardinality(chosen)
    BY <1>2, <1>3
  <2>3. \A c, d \in chosen : f[c] = f[d] => c = d
    <3> HIDE DEF f
    <3> QED
      BY <1>1, <2>1, <2>2, FiniteImage
  <2> QED
    BY <2>3
<1>5. IsFiniteSet(items)
  <2>1. DOMAIN g = S /\ g = [s \in S |-> g[s]]
    OBVIOUS
  <2>2. IsFiniteSet({g[s] : s \in S})
    <3> HIDE DEF g
    <3> QED
      BY <2>1, FiniteImage
  <2> QED
    BY <1>3, <2>2
<1>6. ASSUME Cardinality(chosen) < limit PROVE items = shown
  <2>1. Cardinality(items) \in Nat
    BY <1>5, FS_CardinalityType
  <2>2. Cardinality(items) = Cardinality(shown)
    BY <1>2, <1>6, <2>1
  <2>3. shown \in SUBSET items
    OBVIOUS
  <2> HIDE DEF items, shown
  <2> QED
    BY <1>5, <2>2, <2>3, FS_Subset
<1>7. ASSUME Cardinality(chosen) < limit, NEW s \in S PROVE \E d \in chosen : d.item = s.item
  <2>1. s.item \in shown
    BY <1>6, <1>7
  <2> QED
    BY <2>1
<1> QED
  BY <1>4, <1>7

LEMMA FinalizeKeeps == TraversalInv /\ Finalize => TraversalInv'
<1> SUFFICES ASSUME TraversalInv, Finalize PROVE TraversalInv'
  OBVIOUS
<1>1. Typed /\ AtEnd /\ stage' = "done"
      /\ UNCHANGED <<limits, frontier, claimPaths, terminals, visited, edges, named, asked,
                     approved, batches, denials, history>>
  BY DEF Finalize, Checked, TraversalInv, Late
<1>2. delivered' \in SUBSET Surviving
      /\ LET items == {s.item : s \in Surviving}
             size == IF Cardinality(items) < EvidenceLimit THEN Cardinality(items) ELSE EvidenceLimit
         IN Cardinality(delivered') = size /\ Cardinality({s.item : s \in delivered'}) = size
  BY DEF Finalize
<1>3. /\ \A c, d \in delivered' : c.item = d.item => c = d
      /\ Cardinality(delivered') < EvidenceLimit =>
           \A s \in Surviving : \E d \in delivered' : d.item = s.item
  <2>1. IsFiniteSet(Surviving) /\ EvidenceLimit \in Nat
    BY <1>1, SurvivingFinite, TraversalAssumption
  <2> HIDE DEF Surviving
  <2> QED
    BY <1>2, <2>1, ChosenExact
<1>4. ASSUME NEW d \in Surviving
      PROVE  /\ d.path \in terminals /\ EndOf(d.path) = d.item
             /\ ResourcesOf({d.path}) \cup UNION d.supports \subseteq approved
             /\ d.supports # {} /\ d.supports \subseteq SupportsOf[d.item].groups
             /\ SupportsOf[d.item].mode = "all_required" => d.supports = SupportsOf[d.item].groups
  <2>1. PICK p \in terminals :
          /\ Selectable(EndOf(p)) /\ ResourcesOf({p}) \subseteq approved
          /\ d = [item |-> EndOf(p), supports |-> Kept(EndOf(p)), path |-> p]
    BY DEF Surviving
  <2>2. EndOf(p) \in Node
    BY <1>1 DEF Typed, TraversalTypeOK
  <2>3. SupportsOf[EndOf(p)].mode \in {"any_support", "all_required"} /\ SupportsOf[EndOf(p)].groups # {}
    BY <2>2, TraversalAssumption
  <2>4. /\ Kept(EndOf(p)) # {} /\ Kept(EndOf(p)) \subseteq SupportsOf[EndOf(p)].groups
        /\ SupportsOf[EndOf(p)].mode = "all_required" => Kept(EndOf(p)) = SupportsOf[EndOf(p)].groups
    BY <2>1, <2>3 DEF Selectable, Kept
  <2>5. UNION Kept(EndOf(p)) \subseteq approved
    BY DEF Kept
  <2> QED
    BY <2>1, <2>4, <2>5
<1>5. ASSUME NEW p \in terminals, ResourcesOf({p}) \subseteq approved, Selectable(EndOf(p))
      PROVE  \E s \in Surviving : s.item = EndOf(p)
  <2>1. [item |-> EndOf(p), supports |-> Kept(EndOf(p)), path |-> p] \in Surviving
    BY <1>5 DEF Surviving
  <2> QED
    BY <2>1
<1>6. DeliveredExact'
  <2>1. \A d \in delivered' :
             /\ d.path \in terminals /\ EndOf(d.path) = d.item
             /\ ResourcesOf({d.path}) \cup UNION d.supports \subseteq approved
             /\ d.supports # {} /\ d.supports \subseteq SupportsOf[d.item].groups
             /\ SupportsOf[d.item].mode = "all_required" => d.supports = SupportsOf[d.item].groups
    BY <1>2, <1>4
  <2>2. Cardinality(delivered') < EvidenceLimit =>
          \A p \in terminals :
            (ResourcesOf({p}) \subseteq approved /\ Selectable(EndOf(p))) =>
              \E d \in delivered' : d.item = EndOf(p)
    BY <1>3, <1>5
  <2>3. \A x : Selectable(x)' <=> Selectable(x)
    BY <1>1 DEF Selectable, Kept
  <2> QED
    BY <1>1, <1>3, <2>1, <2>2, <2>3 DEF DeliveredExact
<1>7. Typed'
  BY <1>1 DEF Typed, TraversalTypeOK
<1>8. AtEnd'
  BY <1>1, LevelKept
<1> QED
  BY <1>1, <1>6, <1>7, <1>8 DEF TraversalInv, Sought, Early

LEMMA TraversalStep == TraversalInv /\ [TraversalNext]_traversalVars => TraversalInv'
<1> SUFFICES ASSUME TraversalInv, [TraversalNext]_traversalVars PROVE TraversalInv'
  OBVIOUS
<1>1. CASE UNCHANGED traversalVars
  <2>1. Typed' /\ Sought' /\ Hops' = Hops
    BY <1>1 DEF traversalVars, TraversalInv, Typed, TraversalTypeOK, Sought, Hops
  <2>2. (OnLevel => OnLevel') /\ (AtEnd => AtEnd')
    BY <1>1, LevelKept DEF traversalVars
  <2>3. DeliveredExact => DeliveredExact'
    <3>1. \A x : Selectable(x)' <=> Selectable(x)
      BY <1>1 DEF traversalVars, Selectable, Kept
    <3> QED
      BY <1>1, <3>1 DEF traversalVars, DeliveredExact
  <2> QED
    BY <1>1, <2>1, <2>2, <2>3 DEF traversalVars, TraversalInv
<1> QED
  BY <1>1, DiscoverKeeps, RetrieveKeeps, StartKeeps, ExpandKeeps, ClaimsKeep, FollowKeeps,
     ObjectsKeep, LoadKeeps, FinalizeKeeps, CheckKeeps, FailKeeps DEF TraversalNext

\* What each stage of executeTraversal knows of the levels, in every traversal.
THEOREM TraversalInvariant == TraversalSpec => []TraversalInv
BY TraversalInitial, TraversalStep, PTL DEF TraversalSpec

\* TraversalExact: whatever is denied on the way, the traversal ends with exactly the
\* paths that were allowed when they came up and cannot be continued, and shows what is
\* allowed again at the end, all the way to it.
THEOREM TraversesExactly == TraversalSpec => []TraversalExact
<1>1. TraversalInv => TraversalExact
  <2> SUFFICES ASSUME TraversalInv PROVE TraversalExact
    OBVIOUS
  <2>1. ASSUME stage \in Late PROVE TerminalsExact
    <3>1. AtEnd /\ history \in Past
      BY <2>1 DEF TraversalInv, Typed
    <3>2. Tips(history, Hops) \cup Levels[Hops] = {p \in Taken : \A q \in Taken : IsPrefix(p, q) => p = q}
      BY <3>1, TipsAreMaximal DEF Taken, Levels, Hops
    <3> QED
      BY <3>1, <3>2 DEF AtEnd, TerminalsExact
  <2> QED
    BY <2>1 DEF TraversalInv, TraversalExact, Late
<1> QED
  BY <1>1, TraversalInvariant, PTL

-----------------------------------------------------------------------------
(***************************************************************************)
(* Replay                                                                  *)
(***************************************************************************)
\* The loop of a replay, without recursion.

\* The equations of its states, up to position n.
Runs(states, allowed, n) ==
  states = [i \in 0 .. n |-> IF i = 0 THEN FilterStart ELSE FilterStep(states[i - 1], i, allowed)]

LEMMA RunExists ==
  ASSUME NEW allowed, NEW n \in Nat
  PROVE  \E states : Runs(states, allowed, n)
<1> DEFINE Good == {m \in Nat : \E states : Runs(states, allowed, m)}
<1>1. 0 \in Good
  <2> DEFINE f == [i \in 0 .. 0 |-> FilterStart]
  <2>1. f = [i \in 0 .. 0 |-> IF i = 0 THEN FilterStart ELSE FilterStep(f[i - 1], i, allowed)]
    <3>1. \A i \in 0 .. 0 : i = 0
      OBVIOUS
    <3> QED
      BY <3>1, Zenon
  <2>2. Runs(f, allowed, 0)
    BY <2>1 DEF Runs
  <2> QED
    BY <2>2
<1>2. ASSUME NEW m \in 1 .. n, m - 1 \in Good PROVE m \in Good
  <2>1. PICK f : Runs(f, allowed, m - 1)
    BY <1>2
  <2> DEFINE g == [i \in 0 .. m |-> IF i = m THEN FilterStep(f[m - 1], m, allowed) ELSE f[i]]
  <2>2. \A i \in 0 .. m - 1 : i \in 0 .. m /\ i # m /\ g[i] = f[i]
    OBVIOUS
  <2>3. ASSUME NEW i \in 0 .. m
        PROVE  g[i] = IF i = 0 THEN FilterStart ELSE FilterStep(g[i - 1], i, allowed)
    <3>1. CASE i = m
      <4>1. i # 0 /\ g[i - 1] = f[m - 1] /\ g[i] = FilterStep(f[m - 1], m, allowed)
        BY <3>1, <2>2
      <4> QED
        BY <3>1, <4>1
    <3>2. CASE i # m
      <4>1. i \in 0 .. m - 1 /\ g[i] = f[i]
        BY <3>2, <2>2
      <4>2. f[i] = IF i = 0 THEN FilterStart ELSE FilterStep(f[i - 1], i, allowed)
        BY <2>1, <4>1 DEF Runs
      <4>3. i # 0 => g[i - 1] = f[i - 1]
        BY <4>1, <2>2
      <4> HIDE DEF g
      <4> QED
        BY <4>1, <4>2, <4>3
    <3> QED
      BY <3>1, <3>2
  <2>4. g = [i \in 0 .. m |-> g[i]]
    OBVIOUS
  <2> HIDE DEF g
  <2>5. Runs(g, allowed, m)
    BY <2>3, <2>4 DEF Runs
  <2> QED
    BY <2>5
<1> HIDE DEF Good
<1>3. n \in Good
  BY <1>1, <1>2, Upwards
<1> QED
  BY <1>3 DEF Good

LEMMA FilteredUnfold ==
  ASSUME NEW allowed, Len(log) \in Nat
  PROVE  Runs(Filtered(allowed), allowed, Len(log))
<1>1. PICK f : Runs(f, allowed, Len(log))
  BY RunExists
<1>2. f = [i \in 0 .. Len(log) |-> IF i = 0 THEN FilterStart ELSE FilterStep(f[i - 1], i, allowed)]
  BY <1>1 DEF Runs
<1> DEFINE states == CHOOSE s : s = [i \in 0 .. Len(log) |->
                       IF i = 0 THEN FilterStart ELSE FilterStep(s[i - 1], i, allowed)]
<1>3. states = [i \in 0 .. Len(log) |->
                  IF i = 0 THEN FilterStart ELSE FilterStep(states[i - 1], i, allowed)]
  BY <1>2
<1>4. Filtered(allowed) = states
  BY DEF Filtered
<1> HIDE DEF states
<1> QED
  BY <1>3, <1>4 DEF Runs

\* What the loop knows at each event, of the turn it is in.
TurnNow(states, i) == TurnAt(states[i - 1], log[i])
RestrictedNow(states, i) == RestrictedAt(states[i - 1], log[i])

LEMMA FirstState ==
  ASSUME NEW allowed, NEW states, Len(log) \in Nat, Runs(states, allowed, Len(log))
  PROVE  states[0] = FilterStart
<1>1. 0 \in 0 .. Len(log)
  OBVIOUS
<1> QED
  BY <1>1 DEF Runs

LEMMA NextState ==
  ASSUME NEW allowed, NEW states, Len(log) \in Nat, Runs(states, allowed, Len(log)),
         NEW i \in 1 .. Len(log)
  PROVE  /\ states[i].turn = TurnAfter(log[i], TurnNow(states, i), RestrictedNow(states, i))
         /\ states[i].restricted = (RestrictedNow(states, i) /\ ~Ends(log[i]))
         /\ Shown(log[i], TurnNow(states, i), RestrictedNow(states, i), allowed)
              => states[i].kept = states[i - 1].kept \cup {i}
         /\ ~Shown(log[i], TurnNow(states, i), RestrictedNow(states, i), allowed)
              => states[i].kept = states[i - 1].kept
<1>1. i \in 0 .. Len(log) /\ i # 0
  OBVIOUS
<1>2. states[i] = FilterStep(states[i - 1], i, allowed)
  BY <1>1 DEF Runs
<1> QED
  BY <1>2 DEF FilterStep, TurnNow, RestrictedNow

\* The turn of a user message is its own, that of another event is that of
\* the event before it.
LEMMA TurnOfUser ==
  ASSUME NEW i \in Nat \ {0}, log[i].type = "user"
  PROVE  TurnOf(i) = {i}
BY DEF TurnOf

LEMMA TurnOfOther ==
  ASSUME NEW i \in Nat \ {0}, log[i].type # "user"
  PROVE  TurnOf(i) = TurnOf(i - 1)
<1>1. {u \in 1 .. i : log[u].type = "user"} = {u \in 1 .. i - 1 : log[u].type = "user"}
  <2>1. \A u \in 1 .. i : u \in 1 .. i - 1 \/ u = i
    OBVIOUS
  <2>2. \A u \in 1 .. i - 1 : u \in 1 .. i
    OBVIOUS
  <2> QED
    BY <2>1, <2>2
<1> QED
  BY <1>1 DEF TurnOf

LEMMA TurnOfOne ==
  ASSUME NEW i \in Nat, NEW u \in TurnOf(i), NEW v \in TurnOf(i)
  PROVE  u = v /\ u \in 1 .. i
<1>1. u \in 1 .. i /\ v \in 1 .. i /\ u <= v /\ v <= u
  BY DEF TurnOf
<1> QED
  BY <1>1

\* No turn is open before the first event.
LEMMA TurnOfNone == TurnOf(0) = {}
<1>1. 1 .. 0 = {}
  OBVIOUS
<1> QED
  BY <1>1 DEF TurnOf

\* One more event in an open turn.
LEMMA RestrictedOn ==
  ASSUME NEW i \in Nat \ {0}, log[i].type # "user"
  PROVE  InRestrictedTurn(i) <=> (InRestrictedTurn(i - 1) /\ ~Ends(log[i - 1]))
<1>1. TurnOf(i) = TurnOf(i - 1)
  BY TurnOfOther
<1>2. ASSUME NEW u \in TurnOf(i - 1)
      PROVE  /\ i - 1 \in u .. i - 1
             /\ \A j : j \in u .. i - 1 <=> (j \in u .. (i - 1) - 1 \/ j = i - 1)
  <2>1. u \in 1 .. i - 1
    BY TurnOfOne
  <2> QED
    BY <2>1
<1> QED
  BY <1>1, <1>2 DEF InRestrictedTurn

LEMMA PlainOn ==
  ASSUME NEW i \in Nat \ {0}, log[i].type # "user"
  PROVE  InPlainTurn(i) <=>
           /\ InPlainTurn(i - 1)
           /\ ~Ends(log[i - 1])
           /\ Protected(log[i - 1]) => (IsDiff(log[i - 1]) \/ log[i - 1].type = "info")
<1>1. TurnOf(i) = TurnOf(i - 1)
  BY TurnOfOther
<1>2. ASSUME NEW u \in TurnOf(i - 1)
      PROVE  /\ i - 1 \in u .. i - 1
             /\ \A j : j \in u .. i - 1 <=> (j \in u .. (i - 1) - 1 \/ j = i - 1)
  <2>1. u \in 1 .. i - 1
    BY TurnOfOne
  <2> QED
    BY <2>1
<1> QED
  BY <1>1, <1>2 DEF InPlainTurn

\* The loop is in a turn exactly when the property says the event is.
LEMMA TurnExact ==
  ASSUME log \in Seq(Event), NEW allowed, NEW states, Runs(states, allowed, Len(log))
  PROVE  \A i \in 1 .. Len(log) :
           /\ RestrictedNow(states, i) = InRestrictedTurn(i)
           /\ TurnNow(states, i) = (InRestrictedTurn(i) \/ InPlainTurn(i))
<1> DEFINE Right(i) == /\ RestrictedNow(states, i) = InRestrictedTurn(i)
                       /\ TurnNow(states, i) = (InRestrictedTurn(i) \/ InPlainTurn(i))
           Good == {i \in 0 .. Len(log) : i # 0 => Right(i)}
<1>1. Len(log) \in Nat /\ \A i \in 1 .. Len(log) : log[i] \in Event
  OBVIOUS
<1>2. 0 \in Good
  BY <1>1
<1>3. ASSUME NEW i \in 1 .. Len(log), i - 1 \in Good PROVE i \in Good
  <2> SUFFICES Right(i)
    BY <1>1
  <2>1. log[i] \in Event /\ i \in Nat \ {0}
    BY <1>1
  <2>2. CASE log[i].type = "user"
    <3>1. TurnOf(i) = {i} /\ i .. i - 1 = {}
      BY <2>1, <2>2, TurnOfUser
    <3>2. InRestrictedTurn(i) = (log[i].command = "restricted")
      BY <3>1 DEF InRestrictedTurn
    <3>3. InPlainTurn(i) = (log[i].command = "plain")
      BY <3>1 DEF InPlainTurn
    <3>4. log[i].command \in {"text", "plain", "restricted"}
      BY <2>1 DEF Event
    <3>5. RestrictedNow(states, i) = (log[i].command = "restricted") /\ TurnNow(states, i) = (log[i].command # "text")
      BY <2>2 DEF RestrictedNow, TurnNow, TurnAt, RestrictedAt
    <3>6. InPlainTurn(i) \in BOOLEAN /\ InRestrictedTurn(i) \in BOOLEAN
      BY DEF InPlainTurn, InRestrictedTurn
    <3> QED
      BY <3>2, <3>3, <3>4, <3>5, <3>6
  <2>3. CASE log[i].type # "user"
    <3>1. TurnNow(states, i) = states[i - 1].turn /\ RestrictedNow(states, i) = states[i - 1].restricted
      BY <2>3 DEF RestrictedNow, TurnNow, TurnAt, RestrictedAt
    <3>2. CASE i = 1
      <4>1. states[0] = FilterStart /\ i - 1 = 0
        BY <1>1, <3>2, FirstState
      <4>2. TurnNow(states, i) = FALSE /\ RestrictedNow(states, i) = FALSE
        BY <3>1, <4>1 DEF FilterStart
      <4>3. TurnOf(i) = {}
        BY <2>1, <2>3, <4>1, TurnOfOther, TurnOfNone
      <4>4. InRestrictedTurn(i) = FALSE /\ InPlainTurn(i) = FALSE
        BY <4>3 DEF InRestrictedTurn, InPlainTurn
      <4> QED
        BY <4>2, <4>4
    <3>3. CASE i # 1
      <4>1. i - 1 \in 1 .. Len(log)
        BY <3>3, <1>1
      <4>2. Right(i - 1) /\ log[i - 1] \in Event
        BY <1>1, <1>3, <4>1
      <4> DEFINE e == log[i - 1]
      <4> HIDE DEF Right
      <4>3. /\ states[i - 1].turn = TurnAfter(e, TurnNow(states, i - 1), RestrictedNow(states, i - 1))
            /\ states[i - 1].restricted = (RestrictedNow(states, i - 1) /\ ~Ends(e))
        BY <1>1, <4>1, NextState
      <4>4. InRestrictedTurn(i) <=> (InRestrictedTurn(i - 1) /\ ~Ends(e))
        BY <2>1, <2>3, RestrictedOn
      <4>5. InPlainTurn(i) <=> (InPlainTurn(i - 1) /\ ~Ends(e) /\ (Protected(e) => (IsDiff(e) \/ e.type = "info")))
        BY <2>1, <2>3, PlainOn
      <4>6. ~(InRestrictedTurn(i - 1) /\ InPlainTurn(i - 1))
        BY <4>1, <1>1, TurnOfOne DEF InRestrictedTurn, InPlainTurn
      <4>7. Ends(e) => e.type # "info"
        BY DEF Ends
      <4>8. InRestrictedTurn(i) \in BOOLEAN /\ InRestrictedTurn(i - 1) \in BOOLEAN /\ InPlainTurn(i) \in BOOLEAN
              /\ InPlainTurn(i - 1) \in BOOLEAN /\ IsDiff(e) \in BOOLEAN /\ Ends(e) \in BOOLEAN
              /\ Protected(e) \in BOOLEAN
        BY DEF InRestrictedTurn, InPlainTurn, IsDiff, Ends, Protected
      <4>9. /\ RestrictedNow(states, i - 1) = InRestrictedTurn(i - 1)
            /\ TurnNow(states, i - 1) = (InRestrictedTurn(i - 1) \/ InPlainTurn(i - 1))
        BY <4>2 DEF Right
      <4> HIDE DEF e
      <4>10. RestrictedNow(states, i) = InRestrictedTurn(i)
        BY <3>1, <4>3, <4>4, <4>8, <4>9
      <4>11. TurnNow(states, i) = (InRestrictedTurn(i) \/ InPlainTurn(i))
        BY <3>1, <4>3, <4>4, <4>5, <4>6, <4>7, <4>8, <4>9 DEF TurnAfter
      <4> QED
        BY <4>10, <4>11 DEF Right
    <3> QED
      BY <3>2, <3>3
  <2> QED
    BY <2>2, <2>3
<1> HIDE DEF Good
<1>4. \A i \in 0 .. Len(log) : i \in Good
  BY <1>1, <1>2, <1>3, Upwards
<1> QED
  BY <1>4 DEF Good

\* What is kept is what is shown.
LEMMA KeptExact ==
  ASSUME log \in Seq(Event), NEW allowed, NEW states, Runs(states, allowed, Len(log))
  PROVE  states[Len(log)].kept =
           {i \in DOMAIN log : Shown(log[i], TurnNow(states, i), RestrictedNow(states, i), allowed)}
<1> DEFINE KeptTo(n) ==
             {i \in 1 .. n : Shown(log[i], TurnNow(states, i), RestrictedNow(states, i), allowed)}
           Good == {n \in 0 .. Len(log) : states[n].kept = KeptTo(n)}
<1>1. Len(log) \in Nat /\ DOMAIN log = 1 .. Len(log)
  OBVIOUS
<1>2. 0 \in Good
  <2>1. states[0].kept = {}
    BY <1>1, FirstState DEF FilterStart
  <2> QED
    BY <1>1, <2>1
<1>3. ASSUME NEW n \in 1 .. Len(log), n - 1 \in Good PROVE n \in Good
  <2>1. states[n - 1].kept = KeptTo(n - 1)
    BY <1>3
  <2>2. /\ Shown(log[n], TurnNow(states, n), RestrictedNow(states, n), allowed)
             => states[n].kept = states[n - 1].kept \cup {n}
        /\ ~Shown(log[n], TurnNow(states, n), RestrictedNow(states, n), allowed)
             => states[n].kept = states[n - 1].kept
    <3>1. n \in 1 .. Len(log) /\ Len(log) \in Nat
      BY <1>1
    <3> HIDE DEF Good
    <3> QED
      BY <3>1, NextState
  <2>3. \A i : i \in 1 .. n <=> (i \in 1 .. n - 1 \/ i = n)
    BY <1>1
  <2>4. states[n].kept = KeptTo(n)
    BY <2>1, <2>2, <2>3
  <2> QED
    BY <1>1, <2>4
<1> HIDE DEF Good
<1>4. \A n \in 0 .. Len(log) : n \in Good
  BY <1>1, <1>2, <1>3, Upwards
<1> QED
  BY <1>1, <1>4 DEF Good

\* The first event of a block.
LEMMA FirstOfBlock ==
  ASSUME log \in Seq(Event), NEW b, EventsOf(b) # {}
  PROVE  /\ FirstOf(b) \in EventsOf(b)
         /\ \A j \in EventsOf(b) : FirstOf(b) <= j
         /\ \A j \in EventsOf(b) : (\A k \in EventsOf(b) : j <= k) => j = FirstOf(b)
<1>1. EventsOf(b) \subseteq Nat
  BY DEF EventsOf
<1> DEFINE N == EventsOf(b)
<1>2. \E i \in N : \A j \in N : i <= j
  BY <1>1, LeastOf
<1>3. FirstOf(b) \in N /\ \A j \in N : FirstOf(b) <= j
  BY <1>2 DEF FirstOf
<1> HIDE DEF N
<1>4. ASSUME NEW j \in N, \A k \in N : j <= k PROVE j = FirstOf(b)
  BY <1>1, <1>3, <1>4 DEF N
<1> QED
  BY <1>3, <1>4 DEF N

\* A block is valid when its events agree and the first one is good.
LEMMA BlockExact ==
  ASSUME log \in Seq(Event), NEW i \in DOMAIN log, Protected(log[i])
  PROVE  ValidBlock(log[i].block) <=>
           \A j \in EventsOf(log[i].block) :
             /\ log[j].binding = log[i].binding
             /\ (\A k \in EventsOf(log[i].block) : j <= k) =>
                  log[j].own /\ log[j].binding # "stale"
<1> DEFINE b == log[i].block
           N == EventsOf(b)
           f == FirstOf(b)
<1>1. i \in N
  BY DEF EventsOf
<1>2. /\ f \in N
      /\ \A j \in N : f <= j
      /\ \A j \in N : (\A k \in N : j <= k) => j = f
  BY <1>1, FirstOfBlock
<1>3. ValidBlock(b) <=> /\ log[f].own /\ log[f].binding # "stale"
                        /\ \A j \in N : log[j].binding = log[f].binding
  BY <1>1 DEF ValidBlock
<1> HIDE DEF N, f
<1>4. ASSUME ValidBlock(b), NEW j \in N
      PROVE  /\ log[j].binding = log[i].binding
             /\ (\A k \in N : j <= k) => (log[j].own /\ log[j].binding # "stale")
  BY <1>1, <1>2, <1>3, <1>4
<1>5. ASSUME \A j \in N : /\ log[j].binding = log[i].binding
                          /\ (\A k \in N : j <= k) => (log[j].own /\ log[j].binding # "stale")
      PROVE  ValidBlock(b)
  BY <1>1, <1>2, <1>3, <1>5
<1> QED
  BY <1>4, <1>5 DEF N

\* The replay of any log is exact.
LEMMA LogExact == log \in Seq(Event) => ReplayExact
<1> SUFFICES ASSUME log \in Seq(Event), NEW permissioned \in BOOLEAN, NEW permits \in SUBSET Block,
                    NEW i \in DOMAIN log
             PROVE  LET e == log[i]
                        bound == /\ permissioned /\ e.block \in permits
                                 /\ \A j \in EventsOf(e.block) :
                                      /\ log[j].binding = e.binding
                                      /\ (\A k \in EventsOf(e.block) : j <= k) =>
                                           log[j].own /\ log[j].binding # "stale"
                    IN i \in FilterPersistedEvents(permissioned, permits) <=>
                         /\ Protected(e) => bound
                         /\ permissioned =>
                              /\ ~InRestrictedTurn(i) /\ ~IsDiff(e) /\ e.type # "info"
                              /\ (~Protected(e) /\ Legacy(e)) =>
                                   \/ e.slash
                                   \/ e.type \in {"delta", "done", "error"} /\ InPlainTurn(i)
  BY DEF ReplayExact
<1> DEFINE e == log[i]
           agree == \A j \in EventsOf(e.block) :
                      /\ log[j].binding = e.binding
                      /\ (\A k \in EventsOf(e.block) : j <= k) =>
                           log[j].own /\ log[j].binding # "stale"
           bound == permissioned /\ e.block \in permits /\ agree
           shown == /\ ~InRestrictedTurn(i) /\ ~IsDiff(e) /\ e.type # "info"
                    /\ (~Protected(e) /\ Legacy(e)) =>
                         \/ e.slash
                         \/ e.type \in {"delta", "done", "error"} /\ InPlainTurn(i)
           allowed == AllowedBlocks(permissioned, permits)
           states == Filtered(allowed)
<1>1. Len(log) \in Nat /\ DOMAIN log = 1 .. Len(log) /\ e \in Event
  OBVIOUS
<1>2. CASE ~permissioned
  <2>1. i \in FilterPersistedEvents(permissioned, permits) <=> ~Protected(e)
    BY <1>2 DEF FilterPersistedEvents
  <2> QED
    BY <1>2, <2>1
<1>3. CASE permissioned
  <2>1. Runs(states, allowed, Len(log))
    BY <1>1, FilteredUnfold
  <2>2. FilterPersistedEvents(permissioned, permits) = states[Len(log)].kept
    BY <1>3 DEF FilterPersistedEvents
  <2> HIDE DEF states
  <2>3. i \in states[Len(log)].kept <=>
          Shown(e, TurnNow(states, i), RestrictedNow(states, i), allowed)
    BY <2>1, KeptExact
  <2>4. /\ RestrictedNow(states, i) = InRestrictedTurn(i)
        /\ TurnNow(states, i) = (InRestrictedTurn(i) \/ InPlainTurn(i))
    BY <1>1, <2>1, TurnExact
  <2>5. Protected(e) => (e.block \in allowed <=> bound)
    <3>1. SUFFICES ASSUME Protected(e) PROVE e.block \in allowed <=> bound
      OBVIOUS
    <3>2. e.block \in Block
      BY <1>1, <3>1 DEF Protected, Event
    <3>3. ValidBlock(e.block) <=> agree
      BY <3>1, BlockExact
    <3> HIDE DEF agree, e
    <3> QED
      BY <1>3, <3>2, <3>3 DEF AllowedBlocks
  <2> HIDE DEF agree, e, allowed
  <2>6. Shown(e, TurnNow(states, i), RestrictedNow(states, i), allowed) <=>
          ((Protected(e) => e.block \in allowed) /\ shown)
    <3>1. FromSlash(e, TurnNow(states, i)) <=>
            (e.slash \/ (TurnNow(states, i) /\ e.type \in {"delta", "done", "error"}))
      BY DEF FromSlash
    <3> QED
      BY <2>4, <3>1 DEF Shown
  <2>7. i \in FilterPersistedEvents(permissioned, permits) <=> ((Protected(e) => bound) /\ shown)
    BY <2>2, <2>3, <2>5, <2>6
  <2> HIDE DEF bound, shown
  <2>8. i \in FilterPersistedEvents(permissioned, permits) <=>
          ((Protected(e) => bound) /\ (permissioned => shown))
    BY <1>3, <2>7
  <2> QED
    BY <2>8 DEF bound, shown, agree, e
<1> QED
  BY <1>2, <1>3

\* Logs are of the events that sessions record.
LEMMA ReplayTyped == ReplaySpec => []ReplayTypeOK
<1>1. ReplayInit => ReplayTypeOK
  BY DEF ReplayInit, ReplayTypeOK
<1>2. ReplayTypeOK /\ [ReplayNext]_log => ReplayTypeOK'
  BY ReplayFilterAssumption DEF ReplayTypeOK, ReplayNext, Record
<1> QED
  BY <1>1, <1>2, PTL DEF ReplaySpec

\* Whatever a session has recorded, whatever the authorizer permits now, and
\* in sessions with and without permissions, filterPersistedEvents returns
\* exactly the events that may be shown again.
THEOREM ReplaysExactly == ReplaySpec => []ReplayExact
<1>1. ReplayTypeOK => ReplayExact
  BY LogExact DEF ReplayTypeOK
<1> QED
  BY <1>1, ReplayTyped, PTL

-----------------------------------------------------------------------------
(***************************************************************************)
(* The release gate, with everybody working on the workspace at any time.  *)
(* Each part of the invariant holds until the lapse that can break it.     *)
(***************************************************************************)

\* Results tell which artifacts were asked, wherever they were carried to.
Honest(r) == r # None => r.asked = r.hash.artifacts

EvalRecord == [step : {"none", "ask", "hash", "results", "report"},
               results : Results \cup {None}]

\* Until the knowledge is hashed, the selected artifacts are the ones asked.
Current ==
  /\ eval.step # "none" => eval.results \in Results
  /\ "answers" \notin lapses =>
       /\ eval.step \in {"ask", "hash"} => eval.results.asked = work.artifacts
       /\ eval.step = "results" => Honest(eval.results)

AllHonest ==
  "answers" \notin lapses =>
    Honest(work.evals.results) /\ \A tree \in commits : Honest(tree.evals.results)

\* A release that passed the gate passes it still, and then HEAD does.
Passed ==
  /\ release = "clean" /\ "gated" \notin lapses => Fresh(work)
  /\ release = "tag" /\ lapses \subseteq {"answers"} => Fresh(head)

GateInv == GateTypeOK /\ Current /\ AllHonest /\ Passed /\ SpoiltOnlyByLapses

\* What a step leaves on record.
Noted ==
  /\ lapses' \subseteq Way
  /\ "answers" \in lapses => "answers" \in lapses'
  /\ release # "none" => lapses \subseteq lapses'
  /\ eval.step \in {"ask", "hash"} /\ work'.artifacts # work.artifacts => "answers" \in lapses'
  /\ release = "clean" /\ work' # work => "gated" \in lapses'
  /\ release = "clean" /\ release' = "tag" /\ Changed => "status" \in lapses'
  /\ release = "tag" /\ head' # head => "head" \in lapses'

LEMMA StepNoted == GateTypeOK /\ GateNext => GateStep /\ Noted
<1> SUFFICES ASSUME GateTypeOK, GateNext PROVE GateStep /\ Noted
  OBVIOUS
<1>1. /\ lapses' = Lasting \cup {way \in Way : Lapse(way)} /\ lapses \subseteq Way
      /\ Lasting = IF release = "none" THEN lapses \cap {"answers"} ELSE lapses
  BY DEF GateNext, GateTypeOK, Lasting
<1>2. /\ "answers" \in Way /\ "gated" \in Way /\ "status" \in Way /\ "head" \in Way
  BY DEF Way
<1>3. /\ Lapse("answers") <=> eval.step \in {"ask", "hash"} /\ work'.artifacts # work.artifacts
      /\ Lapse("gated") <=> release = "clean" /\ work' # work
      /\ Lapse("status") <=> release = "clean" /\ release' = "tag" /\ Changed
      /\ Lapse("head") <=> release = "tag" /\ head' # head
  BY DEF Lapse
<1> QED
  BY <1>1, <1>2, <1>3 DEF GateNext, Noted

LEMMA InitHolds == GateInit => GateInv
<1> SUFFICES ASSUME GateInit PROVE GateInv
  OBVIOUS
<1>1. PICK s \in Source :
        work = [sources |-> s, artifacts |-> None, evals |-> [results |-> None, report |-> FALSE]]
  BY DEF GateInit
<1>2. work \in Tree
  BY <1>1 DEF Tree, Evals
<1>3. edits \in 0 .. MaxEdits /\ evals \in 0 .. MaxEvals
  BY ReleaseGateAssumption DEF GateInit
<1>4. GateTypeOK
  BY <1>2, <1>3 DEF GateInit, GateTypeOK, NoEval
<1> QED
  BY <1>1, <1>4 DEF GateInit, GateInv, Current, Passed, AllHonest, Honest, SpoiltOnlyByLapses,
                    NoEval

LEMMA TreeParts ==
  ASSUME NEW tree \in Tree
  PROVE  /\ tree.sources \in Source /\ tree.artifacts \in Source \cup {None}
         /\ tree.evals \in Evals
         /\ KnowledgeOf(tree) \in Knowledge
BY DEF Tree, KnowledgeOf, Knowledge

LEMMA Bounded ==
  /\ GateTypeOK /\ edits < MaxEdits => edits + 1 \in 0 .. MaxEdits
  /\ GateTypeOK /\ evals < MaxEvals => evals + 1 \in 0 .. MaxEvals
<1>1. MaxEdits \in Nat /\ MaxEvals \in Nat
  BY ReleaseGateAssumption
<1>2. GateTypeOK => edits \in 0 .. MaxEdits /\ evals \in 0 .. MaxEvals
  BY DEF GateTypeOK
<1> QED
  BY <1>1, <1>2

\* What was tagged before is as good as it was.
LEMMA TaggedGood ==
  ASSUME GateInv, UNCHANGED tagged
  PROVE  SpoiltOnlyByLapses'
BY DEF GateInv, SpoiltOnlyByLapses, Fresh, KnowledgeOf

\* A release that goes on is held by what it records.
LEMMA PassedStays ==
  ASSUME GateInv, Noted, UNCHANGED release
  PROVE  Passed'
<1>1. ASSUME release = "clean", "gated" \notin lapses' PROVE Fresh(work)'
  BY <1>1 DEF GateInv, Passed, Noted, Fresh, KnowledgeOf
<1>2. ASSUME release = "tag", lapses' \subseteq {"answers"} PROVE Fresh(head)'
  BY <1>2 DEF GateInv, Passed, Noted, Fresh, KnowledgeOf
<1> QED
  BY <1>1, <1>2 DEF Passed

\* Somebody edits, builds, commits or checks out at any time.
LEMMA OthersGood ==
  ASSUME GateInv, Noted,
         work' \in Tree, head' \in commits', commits' \subseteq Tree, commits \subseteq commits',
         edits' \in 0 .. MaxEdits, UNCHANGED <<tagged, eval, release, evals>>,
         AllHonest'
  PROVE  GateInv'
<1>1. GateTypeOK'
  BY DEF GateInv, GateTypeOK, Noted
<1>2. Current'
  BY DEF GateInv, Current, Noted, Honest
<1> QED
  BY <1>1, <1>2, TaggedGood, PassedStays DEF GateInv

LEMMA EditGood ==
  ASSUME GateInv, Noted, NEW s \in Source, Edit(s) PROVE GateInv'
<1>1. work \in Tree
  BY DEF GateInv, GateTypeOK
<1>2. work' \in Tree /\ work'.evals = work.evals
  BY <1>1 DEF Edit, Tree
<1>3. edits' \in 0 .. MaxEdits
  BY Bounded DEF Edit, GateInv
<1>4. AllHonest'
  BY <1>2 DEF Edit, GateInv, AllHonest, Noted, Honest
<1> QED
  BY <1>2, <1>3, <1>4, OthersGood DEF Edit, GateInv, GateTypeOK

LEMMA BuildGood ==
  ASSUME GateInv, Noted, Build PROVE GateInv'
<1>1. work \in Tree
  BY DEF GateInv, GateTypeOK
<1>2. work' \in Tree /\ work'.evals = work.evals
  BY <1>1 DEF Build, Tree
<1>3. AllHonest'
  BY <1>2 DEF Build, GateInv, AllHonest, Noted, Honest
<1> QED
  BY <1>2, <1>3, OthersGood DEF Build, GateInv, GateTypeOK

LEMMA CommitGood ==
  ASSUME GateInv, Noted, Commit PROVE GateInv'
<1>1. AllHonest'
  BY DEF Commit, GateInv, AllHonest, Noted, Honest
<1> QED
  BY <1>1, OthersGood DEF Commit, GateInv, GateTypeOK

LEMMA CheckoutGood ==
  ASSUME GateInv, Noted, NEW ref \in commits, NEW allowDirty \in BOOLEAN,
         Checkout(ref, allowDirty)
  PROVE  GateInv'
<1>1. work \in Tree /\ ref \in Tree
  BY DEF GateInv, GateTypeOK
<1>2. \A part \in {"sources", "artifacts", "evals"} : Merged(part, ref) \in {work[part], ref[part]}
  BY DEF Merged
<1>3. DOMAIN work = {"sources", "artifacts", "evals"}
  BY <1>1 DEF Tree
<1>4. work' = [part \in {"sources", "artifacts", "evals"} |-> Merged(part, ref)]
  BY <1>3 DEF Checkout
<1>5. work' = [sources |-> Merged("sources", ref), artifacts |-> Merged("artifacts", ref),
               evals |-> Merged("evals", ref)]
  BY <1>4
<1>6. work' \in Tree
  BY <1>1, <1>2, <1>5 DEF Tree
<1>7. work'.evals \in {work.evals, ref.evals}
  BY <1>2, <1>5
<1>8. AllHonest'
  BY <1>7 DEF Checkout, GateInv, AllHonest, Noted, Honest
<1> QED
  BY <1>6, <1>8, OthersGood DEF Checkout, GateInv, GateTypeOK

\* A step of an evaluation that leaves the workspace as it is.
LEMMA EvalGood ==
  ASSUME GateInv, Noted, UNCHANGED <<work, head, commits, tagged, release, edits>>,
         evals' \in 0 .. MaxEvals, eval' \in EvalRecord, Current'
  PROVE  GateInv'
<1>1. GateTypeOK'
  BY DEF GateInv, GateTypeOK, EvalRecord, Noted
<1>2. AllHonest'
  BY DEF GateInv, AllHonest, Noted, Honest
<1> QED
  BY <1>1, <1>2, TaggedGood, PassedStays DEF GateInv

LEMMA EvaluationGood ==
  ASSUME GateInv, Noted, EvalBegin \/ EvalAsk \/ EvalHash \/ EvalAbort
  PROVE  GateInv'
<1>1. /\ work \in Tree /\ KnowledgeOf(work) \in Knowledge
      /\ work.artifacts \in Source \cup {None} /\ evals \in 0 .. MaxEvals
      /\ eval \in EvalRecord
  BY TreeParts DEF GateInv, GateTypeOK, EvalRecord
<1>2. /\ "answers" \notin lapses' => "answers" \notin lapses
      /\ eval.step # "none" => eval.results \in Results
      /\ eval.step \in {"ask", "hash"} /\ "answers" \notin lapses =>
           eval.results.asked = work.artifacts
  BY DEF GateInv, Current, Noted
<1>3. CASE EvalBegin
  <2> DEFINE r == [hash |-> KnowledgeOf(work), failed |-> FALSE, asked |-> work.artifacts]
  <2>1. r \in Results
    BY <1>1 DEF Results
  <2>2. eval' = [step |-> "ask", results |-> r] /\ r.asked = work.artifacts
    BY <1>3 DEF EvalBegin
  <2>3. evals' \in 0 .. MaxEvals
    BY <1>3, Bounded DEF EvalBegin, GateInv
  <2> HIDE DEF r
  <2>4. eval' \in EvalRecord
    BY <2>1, <2>2 DEF EvalRecord
  <2>5. UNCHANGED <<work, head, commits, tagged, release, edits>>
    BY <1>3 DEF EvalBegin
  <2>6. Current'
    BY <2>1, <2>2, <2>5 DEF Current
  <2> QED
    BY <2>3, <2>4, <2>5, <2>6, EvalGood
<1>4. CASE EvalAsk
  <2>1. PICK failed \in BOOLEAN :
          eval' = [eval EXCEPT !.step = "hash", !.results.failed = failed]
    BY <1>4 DEF EvalAsk
  <2> DEFINE r == [eval.results EXCEPT !.failed = failed]
  <2>2. eval' = [step |-> "hash", results |-> r]
    BY <1>1, <2>1 DEF EvalRecord
  <2>3. r \in Results /\ r.asked = eval.results.asked
    BY <1>2, <1>4 DEF EvalAsk, Results
  <2> HIDE DEF r
  <2>4. eval' \in EvalRecord
    BY <2>2, <2>3 DEF EvalRecord
  <2>5. UNCHANGED <<work, head, commits, tagged, release, edits, evals>> /\ eval.step = "ask"
    BY <1>4 DEF EvalAsk
  <2>6. Current'
    BY <1>2, <2>2, <2>3, <2>5 DEF Current
  <2>7. evals' \in 0 .. MaxEvals
    BY <1>1, <2>5
  <2> QED
    BY <2>4, <2>5, <2>6, <2>7, EvalGood
<1>5. CASE EvalHash
  <2> DEFINE r == [eval.results EXCEPT !.hash = KnowledgeOf(work)]
  <2>1. eval' = [step |-> "results", results |-> r]
    BY <1>1, <1>5 DEF EvalHash, EvalRecord
  <2>2. r \in Results /\ r.asked = eval.results.asked /\ r.hash = KnowledgeOf(work)
    BY <1>1, <1>2, <1>5 DEF EvalHash, Results
  <2> HIDE DEF r
  <2>3. KnowledgeOf(work).artifacts = work.artifacts
    BY DEF KnowledgeOf
  <2>4. eval' \in EvalRecord
    BY <2>1, <2>2 DEF EvalRecord
  <2>5. UNCHANGED <<work, head, commits, tagged, release, edits, evals>> /\ eval.step = "hash"
    BY <1>5 DEF EvalHash
  <2>6. Current'
    BY <1>2, <2>1, <2>2, <2>3, <2>5 DEF Current, Honest
  <2>7. evals' \in 0 .. MaxEvals
    BY <1>1, <2>5
  <2> QED
    BY <2>4, <2>5, <2>6, <2>7, EvalGood
<1>6. CASE EvalAbort
  <2>1. eval' = [step |-> "none", results |-> None]
    BY <1>6 DEF EvalAbort, NoEval
  <2>2. eval' \in EvalRecord
    BY <2>1 DEF EvalRecord
  <2>3. UNCHANGED <<work, head, commits, tagged, release, edits, evals>>
    BY <1>6 DEF EvalAbort
  <2>4. Current'
    BY <2>1 DEF Current
  <2>5. evals' \in 0 .. MaxEvals
    BY <1>1, <2>3
  <2> QED
    BY <2>2, <2>3, <2>4, <2>5, EvalGood
<1> QED
  BY <1>3, <1>4, <1>5, <1>6

\* The two files are written.  A release may be on its way: it records that.
LEMMA WriteGood ==
  ASSUME GateInv, Noted, WriteResults \/ WriteReport
  PROVE  GateInv'
<1>1. work \in Tree /\ work.evals \in Evals /\ evals \in 0 .. MaxEvals /\ eval \in EvalRecord
  BY TreeParts DEF GateInv, GateTypeOK, EvalRecord
<1>2. eval.results \in Results
  BY DEF WriteResults, WriteReport, GateInv, Current
<1>3. /\ work' \in Tree /\ work'.artifacts = work.artifacts
      /\ work'.evals.results =
           IF eval.step = "results" THEN eval.results ELSE work.evals.results
  <2>1. CASE WriteResults
    <3>1. work' = [work EXCEPT !.evals = [work.evals EXCEPT !.results = eval.results]]
      BY <2>1 DEF WriteResults
    <3>2. [work.evals EXCEPT !.results = eval.results] \in Evals
      BY <1>1, <1>2 DEF Evals
    <3>3. [work.evals EXCEPT !.results = eval.results].results = eval.results
      BY <1>1 DEF Evals
    <3> QED
      BY <1>1, <2>1, <3>1, <3>2, <3>3 DEF Tree, WriteResults
  <2>2. CASE WriteReport
    <3>1. work' = [work EXCEPT !.evals = [work.evals EXCEPT !.report = TRUE]]
      BY <2>2 DEF WriteReport
    <3>2. [work.evals EXCEPT !.report = TRUE] \in Evals
      BY <1>1 DEF Evals
    <3>3. [work.evals EXCEPT !.report = TRUE].results = work.evals.results
      BY <1>1 DEF Evals
    <3> QED
      BY <1>1, <2>2, <3>1, <3>2, <3>3 DEF Tree, WriteReport
  <2> QED
    BY <2>1, <2>2
<1>4. UNCHANGED <<head, commits, tagged, release, edits, evals>>
  BY DEF WriteResults, WriteReport
<1>5. AllHonest'
  BY <1>3, <1>4 DEF GateInv, AllHonest, Current, Noted, Honest
<1>6. /\ eval' \in EvalRecord
      /\ eval'.step \in {"report", "none"}
      /\ eval'.step = "report" => eval'.results = eval.results
  BY <1>1 DEF WriteResults, WriteReport, NoEval, EvalRecord
<1>7. GateTypeOK'
  <2>1. /\ head \in commits /\ commits \subseteq Tree
        /\ tagged \in [tree : commits, lapses : SUBSET Way] \cup {None}
        /\ release \in {"none", "gate", "clean", "tag"}
        /\ edits \in 0 .. MaxEdits /\ evals \in 0 .. MaxEvals
    BY DEF GateInv, GateTypeOK
  <2> QED
    BY <1>3, <1>4, <1>6, <2>1 DEF GateTypeOK, EvalRecord, Noted
<1>8. Current'
  BY <1>2, <1>6 DEF Current
<1> QED
  BY <1>4, <1>5, <1>7, <1>8, TaggedGood, PassedStays DEF GateInv

\* The gate, the second look and the tag.
LEMMA ReleaseGood ==
  ASSUME GateInv, Noted, ReleaseBegin \/ ReleaseGate \/ TagClean \/ TagHead
  PROVE  GateInv'
<1>1. UNCHANGED <<work, head, commits, eval, edits, evals>>
  BY DEF ReleaseBegin, ReleaseGate, TagClean, TagHead, EndRelease, Goto
<1>2. release' \in {"none", "gate", "clean", "tag"}
  BY DEF ReleaseBegin, ReleaseGate, TagClean, TagHead, EndRelease, Goto
<1>3. Passed'
  <2>1. ASSUME release' = "clean" PROVE Fresh(work)'
    BY <1>1, <2>1 DEF ReleaseBegin, ReleaseGate, TagClean, TagHead, EndRelease, Goto,
                      GateOpen, Fresh, KnowledgeOf
  <2>2. ASSUME release' = "tag", lapses' \subseteq {"answers"} PROVE Fresh(head)'
    <3>1. release = "clean"
      BY <2>2 DEF ReleaseBegin, ReleaseGate, TagClean, TagHead, EndRelease, Goto
    <3>2. ~Changed /\ "gated" \notin lapses
      BY <2>2, <3>1 DEF Noted
    <3>3. Fresh(work) /\ work = head
      BY <3>1, <3>2 DEF GateInv, Passed, Changed
    <3> QED
      BY <1>1, <3>3 DEF Fresh, KnowledgeOf
  <2> QED
    BY <2>1, <2>2 DEF Passed
<1>4. \/ tagged' = tagged
      \/ release = "tag" /\ tagged' = [tree |-> head, lapses |-> lapses]
  BY DEF ReleaseBegin, ReleaseGate, TagClean, TagHead, EndRelease, Goto
<1>5. SpoiltOnlyByLapses'
  <2>1. CASE tagged' = tagged
    BY <2>1, TaggedGood
  <2>2. CASE release = "tag" /\ tagged' = [tree |-> head, lapses |-> lapses]
    <3>1. lapses \subseteq {"answers"} => Fresh(head)
      BY <2>2 DEF GateInv, Passed
    <3>2. lapses = {} => Honest(head.evals.results)
      BY DEF GateInv, AllHonest, GateTypeOK
    <3>3. lapses = {} => head.evals.results.asked = head.artifacts
      BY <3>1, <3>2 DEF Fresh, Honest, KnowledgeOf
    <3> QED
      BY <2>2, <3>1, <3>3 DEF SpoiltOnlyByLapses, Fresh, KnowledgeOf
  <2> QED
    BY <1>4, <2>1, <2>2
<1>6. GateTypeOK'
  BY <1>1, <1>2, <1>4 DEF GateInv, GateTypeOK, Noted
<1>7. Current'
  BY <1>1 DEF GateInv, Current, Noted, Honest
<1>8. AllHonest'
  BY <1>1 DEF GateInv, AllHonest, Noted, Honest
<1> QED
  BY <1>3, <1>5, <1>6, <1>7, <1>8 DEF GateInv

LEMMA InductiveStep == GateInv /\ [GateNext]_gateVars => GateInv'
<1> SUFFICES ASSUME GateInv, [GateNext]_gateVars PROVE GateInv'
  OBVIOUS
<1>1. CASE UNCHANGED gateVars
  BY <1>1 DEF gateVars, GateInv, GateTypeOK, Current, Passed, Fresh, KnowledgeOf,
              AllHonest, Honest, SpoiltOnlyByLapses
<1>2. CASE GateNext
  <2>1. GateStep /\ Noted
    BY <1>2, StepNoted DEF GateInv
  <2> QED
    BY <2>1, EditGood, BuildGood, CommitGood, CheckoutGood, EvaluationGood, WriteGood, ReleaseGood
       DEF GateStep
<1> QED
  BY <1>1, <1>2

\* The invariant of evaluation and release on a workspace that anybody may work
\* on at any time.
THEOREM GateInvariant == GateSpec => []GateInv
BY InitHolds, InductiveStep, PTL DEF GateSpec

\* However editors, builds, commits, checkouts, evaluations and releases are
\* interleaved, and whichever looks at git status fail: a tag is on a commit that
\* was not evaluated as it stands only if one of the four lapses happened.
THEOREM SpoiltInFourWays == GateSpec => []SpoiltOnlyByLapses
<1>1. GateInv => SpoiltOnlyByLapses
  BY DEF GateInv
<1> QED
  BY <1>1, GateInvariant, PTL

=============================================================================
