-------------------------- MODULE AuthorizationModel --------------------------
(***************************************************************************)
(* The relations of authorization.fga, the model an OpenFGA store answers  *)
(* from: each is the set of users it holds for, given the tuples that have *)
(* been written.  The types form layers (groups, organizations, knowledge  *)
(* bases, documents, entities, claims), so no relation depends on itself.  *)
(***************************************************************************)
CONSTANTS
  User, Group, Organization, KnowledgeBase, Document, Entity, Claim,
  Anyone          \* user:*

ASSUME AuthorizationModelAssumption ==
  /\ KnowledgeBase \cap (Document \cup Entity \cup Claim) = {}
  /\ Document \cap (Entity \cup Claim) = {}
  /\ Entity \cap Claim = {}

\* The userset group:g#member.
MembersOf(g) == <<"member", g>>

Tuple(user, relation, object) ==
  [user |-> user, relation |-> relation, object |-> object]

Grantee == User \cup {MembersOf(g) : g \in Group}
Derived == Document \cup Entity \cup Claim
Scoped == KnowledgeBase \cup Derived

\* The types a relation may be assigned to.
ModelTuple ==
  [user : User, relation : {"member"}, object : Group] \cup
  [user : Grantee, relation : {"member"}, object : Organization] \cup
  [user : Organization, relation : {"organization"}, object : Scoped] \cup
  [user : Grantee, relation : {"viewer", "editor"}, object : Scoped] \cup
  [user : {Anyone}, relation : {"restricted"}, object : Derived] \cup
  [user : KnowledgeBase, relation : {"parent"}, object : Document] \cup
  [user : Document, relation : {"source_document"}, object : Entity \cup Claim] \cup
  [user : Entity, relation : {"subject", "object"}, object : Claim]

-----------------------------------------------------------------------------
\* Subjects a relation of an object is assigned to directly.
Assigned(tuples, relation, object) ==
  {t.user : t \in {s \in tuples : s.relation = relation /\ s.object = object}}

Members(tuples, g) == Assigned(tuples, "member", g)

\* Users a directly assignable relation holds for.
Holders(tuples, relation, object) ==
  LET subjects == Assigned(tuples, relation, object)
  IN IF Anyone \in subjects THEN User
     ELSE (subjects \cap User) \cup
          UNION {Members(tuples, g) : g \in {h \in Group : MembersOf(h) \in subjects}}

\* "member from organization"
Colleagues(tuples, object) ==
  UNION {Holders(tuples, "member", o) : o \in Assigned(tuples, "organization", object)}

\* "viewer or editor", or "editor" alone
Granted(tuples, access, object) ==
  Holders(tuples, "editor", object) \cup
  (IF access = "can_view" THEN Holders(tuples, "viewer", object) ELSE {})

OfKnowledgeBase(tuples, access, k) ==
  Colleagues(tuples, k) \cap Granted(tuples, access, k)

\* The relation of the objects that another one assigns, as "can_view from
\* parent" does.
From(tuples, relation, object, Access(_)) ==
  UNION {Access(x) : x \in Assigned(tuples, relation, object)}

\* unscoped_reader and unscoped_editor, with what is inherited
Scoping(tuples, access, object, inherited) ==
  Colleagues(tuples, object) \cap
    (Granted(tuples, access, object) \cup
       (inherited \ Holders(tuples, "restricted", object)))

OfDocument(tuples, access, d) ==
  LET OfParent(k) == OfKnowledgeBase(tuples, access, k)
  IN Scoping(tuples, access, d, From(tuples, "parent", d, OfParent))

OfEntity(tuples, access, e) ==
  LET OfSource(d) == OfDocument(tuples, access, d)
  IN Scoping(tuples, access, e, From(tuples, "source_document", e, OfSource))

OfClaim(tuples, access, c) ==
  LET OfSource(d) == OfDocument(tuples, access, d)
      OfEnd(e) == OfEntity(tuples, access, e)
  IN Scoping(tuples, access, c,
       From(tuples, "source_document", c, OfSource)
         \cap From(tuples, "subject", c, OfEnd)
         \cap From(tuples, "object", c, OfEnd))

\* Who has access to an object.
Permitted(tuples, access, object) ==
  CASE object \in KnowledgeBase -> OfKnowledgeBase(tuples, access, object)
    [] object \in Document -> OfDocument(tuples, access, object)
    [] object \in Entity -> OfEntity(tuples, access, object)
    [] object \in Claim -> OfClaim(tuples, access, object)

=============================================================================
