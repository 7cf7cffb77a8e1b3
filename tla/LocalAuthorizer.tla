--------------------------- MODULE LocalAuthorizer ---------------------------
(***************************************************************************)
(* authz.LocalAuthorizer: the in-process authorizer.  Tuples are added and *)
(* removed one by one under a lock, next to an index of the source, the    *)
(* subject and the object of every claim that is kept up to date with      *)
(* them; checks hold the lock for reading and are evaluated on the spot.   *)
(* Valid tuples never make an evaluation come back to where it started,    *)
(* so what evaluateLocked does about cycles is left out.                   *)
(***************************************************************************)
EXTENDS AuthorizationModel, Naturals, FiniteSets

CONSTANTS
  NoObject,   \* no binding
  Snapshots,  \* sets of tuples an authorizer is created with
  Offered     \* tuples that callers add and remove

ASSUME LocalAuthorizerAssumption ==
  /\ NoObject \notin Document \cup Entity
  /\ \A T \in Snapshots : IsFiniteSet(T)

VARIABLES
  tuples,        \* the tuples
  claimBindings  \* the index

authorizerVars == <<tuples, claimBindings>>

Singular == {"source_document", "subject", "object"}
Access == {"can_view", "can_edit"}

\* claimBindingState; a claim without tuples has no entry.
NoBindings == [count |-> 0, of |-> [r \in Singular |-> NoObject]]

AuthorizerTypeOK ==
  /\ tuples \subseteq ModelTuple /\ IsFiniteSet(tuples)
  /\ claimBindings \in
       [Claim -> [count : Nat, of : [Singular -> Document \cup Entity \cup {NoObject}]]]

Complete(bindings) == \A r \in Singular : bindings.of[r] # NoObject

-----------------------------------------------------------------------------
\* Changes

\* Tuple.Validate
Valid(t) == t \in ModelTuple

About(T, c) == {t \in T : t.object = c}

\* ValidateTuples: a snapshot has exactly one binding of each kind.
SnapshotValid(T) ==
  /\ T \subseteq ModelTuple
  /\ \A c \in Claim : About(T, c) # {} =>
       \A r \in Singular :
         /\ Assigned(T, r, c) # {}
         /\ \A x, y \in Assigned(T, r, c) : x = y

\* What addTupleLocked makes of the tuples of a snapshot.
IndexOf(T) ==
  [c \in Claim |->
     [count |-> Cardinality(About(T, c)),
      of |-> [r \in Singular |-> IF Assigned(T, r, c) = {} THEN NoObject
                                 ELSE CHOOSE x \in Assigned(T, r, c) : TRUE]]]

AuthorizerInit ==
  /\ \E T \in Snapshots : SnapshotValid(T) /\ tuples = T
  /\ claimBindings = IndexOf(tuples)

\* claimBindingState.add refuses a second source, subject or object.
Conflicts(t) ==
  /\ t.object \in Claim /\ t.relation \in Singular
  /\ claimBindings[t.object].of[t.relation] \notin {NoObject, t.user}

Bound(bindings, t) ==
  [count |-> bindings.count + 1,
   of |-> IF t.relation \in Singular
          THEN [bindings.of EXCEPT ![t.relation] = t.user] ELSE bindings.of]

\* Faulty variant: the tuple goes and the index keeps its binding.
UnboundCountOnly(bindings, t) == [bindings EXCEPT !.count = @ - 1]

\* claimBindingState.remove
Unbound(bindings, t) ==
  [count |-> bindings.count - 1,
   of |-> IF t.relation \in Singular /\ bindings.of[t.relation] = t.user
          THEN [bindings.of EXCEPT ![t.relation] = NoObject] ELSE bindings.of]

\* Invalid tuples, tuples that are there and conflicts change nothing.
AddTuple(t) ==
  /\ Valid(t) /\ t \notin tuples /\ ~Conflicts(t)
  /\ tuples' = tuples \cup {t}
  /\ claimBindings' = IF t.object \in Claim
       THEN [claimBindings EXCEPT ![t.object] = Bound(@, t)] ELSE claimBindings

RemoveTuple(t) ==
  /\ Valid(t) /\ t \in tuples
  /\ tuples' = tuples \ {t}
  /\ claimBindings' =
       IF t.object \notin Claim THEN claimBindings ELSE
       [claimBindings EXCEPT ![t.object] =
          IF @.count = 1 THEN NoBindings ELSE Unbound(@, t)]

AuthorizerNext == \E t \in Offered : AddTuple(t) \/ RemoveTuple(t)

AuthorizerSpec == AuthorizerInit /\ [][AuthorizerNext]_authorizerVars

-----------------------------------------------------------------------------
\* Checks

Has(user, relation, object) == Tuple(user, relation, object) \in tuples

\* directLocked: the user itself, everybody, or a group it is a member of.
Direct(u, relation, object) ==
  \/ Has(u, relation, object)
  \/ Has(Anyone, relation, object)
  \/ \E g \in Group : Has(MembersOf(g), relation, object) /\ Has(u, "member", g)

\* Faulty variant: an object of no organization is open to everybody.
InAllOrganizations(u, object) ==
  \A o \in Organization : Has(o, "organization", object) => Direct(u, "member", o)

\* memberOfRelatedOrganizationsLocked
InOrganization(u, object) ==
  \E o \in Organization : Has(o, "organization", object) /\ Direct(u, "member", o)

\* Viewers and editors may view; editors may edit.
DirectAccess(u, access, object) ==
  \/ access = "can_view" /\ Direct(u, "viewer", object)
  \/ Direct(u, "editor", object)

\* Faulty variant: a restricted object still inherits its editors.
RestrictedForReaders(u, access, object) ==
  access = "can_view" /\ Direct(u, "restricted", object)

\* inherited_reader and inherited_editor stop at a restricted object.
Restricted(u, access, object) == Direct(u, "restricted", object)

\* evaluateKnowledgeBaseLocked
KnowledgeBaseAccess(u, access, k) ==
  InOrganization(u, k) /\ DirectAccess(u, access, k)

\* evaluateDocumentLocked
DocumentAccess(u, access, d) ==
  /\ InOrganization(u, d)
  /\ \/ DirectAccess(u, access, d)
     \/ /\ ~Restricted(u, access, d)
        /\ \E k \in KnowledgeBase :
             Has(k, "parent", d) /\ KnowledgeBaseAccess(u, access, k)

SourceAccess(u, access, object) ==
  \E d \in Document : Has(d, "source_document", object) /\ DocumentAccess(u, access, d)

\* evaluateEntityLocked
EntityAccess(u, access, e) ==
  /\ InOrganization(u, e)
  /\ \/ DirectAccess(u, access, e)
     \/ ~Restricted(u, access, e) /\ SourceAccess(u, access, e)

EndAccess(u, access, c, relation) ==
  \E e \in Entity : Has(e, relation, c) /\ EntityAccess(u, access, e)

\* A claim without tuples is denied, and an incomplete one is an error,
\* which denies as well.
Evaluable(c) == claimBindings[c].count > 0 /\ Complete(claimBindings[c])

\* evaluateClaimLocked
ClaimAccess(u, access, c) ==
  /\ Evaluable(c)
  /\ InOrganization(u, c)
  /\ \/ DirectAccess(u, access, c)
     \/ /\ ~Restricted(u, access, c)
        /\ SourceAccess(u, access, c)
        /\ EndAccess(u, access, c, "subject")
        /\ EndAccess(u, access, c, "object")

\* Check.  BatchCheck decides each item like this, but denies all of them when
\* one is a claim with incomplete bindings.
Allowed(u, access, object) ==
  \/ object \in KnowledgeBase /\ KnowledgeBaseAccess(u, access, object)
  \/ object \in Document /\ DocumentAccess(u, access, object)
  \/ object \in Entity /\ EntityAccess(u, access, object)
  \/ object \in Claim /\ ClaimAccess(u, access, object)

-----------------------------------------------------------------------------
\* Properties

\* However tuples came and went, the index says of every claim how many
\* tuples it has and exactly which source, subject and object; so no claim
\* ever has two of a kind, although relations are sets.
BindingsExact ==
  \A c \in Claim :
    /\ claimBindings[c].count = Cardinality(About(tuples, c))
    /\ \A r \in Singular :
         /\ claimBindings[c].of[r] # NoObject => Has(claimBindings[c].of[r], r, c)
         /\ \A t \in About(tuples, c) :
              t.relation = r => claimBindings[c].of[r] = t.user

\* The local authorizer and the OpenFGA model decide alike, but for a claim
\* whose bindings are not complete: there the local one denies whatever
\* direct grants say.
AgreesWithModel ==
  \A u \in User, access \in Access, x \in Scoped :
    Allowed(u, access, x) <=>
      /\ u \in Permitted(tuples, access, x)
      /\ x \in Claim => \A r \in Singular : Assigned(tuples, r, x) # {}

\* Taking a tuple away, or restricting an object, gives nobody anything.  It
\* takes a removed restriction or a new tuple of another kind to do that.
RevocationNeverGrants ==
  [][ (\/ \E t \in tuples : t.relation # "restricted" /\ tuples' = tuples \ {t}
       \/ \E x \in Derived : tuples' = tuples \cup {Tuple(Anyone, "restricted", x)})
      => \A u \in User, access \in Access, x \in Scoped :
           Allowed(u, access, x)' => Allowed(u, access, x) ]_authorizerVars

=============================================================================
