----------------------------- MODULE MCDecisions -----------------------------
(***************************************************************************)
(* What is decided about each resource, each event and each release: by    *)
(* the in-process authorizer, on the traversal of a query whatever the     *)
(* authorizer says, in the replay of persisted events and at the release   *)
(* gate.  They share nothing, so a behaviour exercises one of them and the *)
(* others stay as they started.                                            *)
(***************************************************************************)
EXTENDS LocalAuthorizer, ReplayFilter, Traversal, ReleaseGate, TLC

CONSTANTS u1, u2, g1, o1, kb1, d1, d2, e1, e2, c1, b1, MaxLog,
          n1, n2, n3, n4, m1, m2, m3, m4, m5, x1, x2, s1, s2

-----------------------------------------------------------------------------
\* One organization with a group in it, whose objects are all of that
\* organization.
OfOrganization ==
  {Tuple(o1, "organization", x) : x \in {kb1, d1, e1}}
    \cup {Tuple(MembersOf(g1), "member", o1)}

MCSnapshots ==
  {OfOrganization,
   OfOrganization \cup
     {Tuple(o1, "organization", c1), Tuple(d1, "source_document", c1),
      Tuple(e1, "subject", c1), Tuple(e1, "object", c1)}}

\* Members, grants, scoping, inheritance, restrictions, and the bindings of a
\* claim with a second candidate for its subject.
MCOffered ==
  {Tuple(u1, "member", g1), Tuple(u2, "member", o1),
   Tuple(MembersOf(g1), "viewer", kb1), Tuple(u2, "editor", kb1),
   Tuple(o1, "organization", c1), Tuple(kb1, "parent", d1), Tuple(Anyone, "restricted", d1),
   Tuple(d1, "source_document", e1), Tuple(Anyone, "restricted", e1),
   Tuple(d1, "source_document", c1), Tuple(e1, "subject", c1),
   Tuple(e2, "subject", c1), Tuple(e1, "object", c1),
   Tuple(Anyone, "restricted", c1), Tuple(u1, "viewer", c1),
   Tuple(Anyone, "viewer", c1)}

-----------------------------------------------------------------------------
Plain(type) ==
  [type |-> type, command |-> "text", slash |-> FALSE, tool |-> "none",
   block |-> NoBlock, binding |-> "good", own |-> TRUE]

Bound1(type) == [Plain(type) EXCEPT !.block = b1]

MCRecorded ==
  {Plain(type) : type \in {"user", "start", "delta", "done", "info", "status"}} \cup
  {[Plain("user") EXCEPT !.command = command] : command \in {"plain", "restricted"}} \cup
  {[Plain("tool") EXCEPT !.tool = tool] : tool \in {"query", "diff"}} \cup
  {[Plain("error") EXCEPT !.slash = TRUE], [Plain("done") EXCEPT !.tool = "diff"]} \cup
  {Bound1("delta"), Bound1("done"), Bound1("info"),
   [Bound1("delta") EXCEPT !.binding = "twin"],
   [Bound1("delta") EXCEPT !.binding = "stale"],
   [Bound1("delta") EXCEPT !.own = FALSE]}

-----------------------------------------------------------------------------
\* A diamond, an entity further on with two supports, and a way back.
MCFromOf == (m1 :> n1) @@ (m2 :> n1) @@ (m3 :> n2) @@ (m4 :> n3) @@ (m5 :> n4)
MCToOf == (m1 :> n2) @@ (m2 :> n3) @@ (m3 :> n4) @@ (m4 :> n4) @@ (m5 :> n1)

MCSupportsOf ==
  [n \in Node |->
     IF n = n4 THEN [mode |-> "any_support", groups |-> {{x1}, {x2}}]
     ELSE [mode |-> "all_required", groups |-> {{x1}}]]

\* One that is enough for most ways, and one without hops.
Deep == [depth |-> 3, width |-> 2, perHop |-> 2, resources |-> 11, checks |-> 9]
MCLimits == {Deep, [Deep EXCEPT !.depth = 0, !.width = 1]}

-----------------------------------------------------------------------------
vars == <<authorizerVars, log, traversalVars, gateVars>>

Init ==
  /\ AuthorizerInit /\ ReplayInit /\ TraversalInit /\ GateInit
  /\ tuples = OfOrganization \/ limits = Deep
  /\ work.sources = s1

NoTuples == tuples = OfOrganization
NoTraversal == stage = "idle" /\ limits = Deep
NoRelease == GateInit

Next ==
  \/ log = <<>> /\ NoTraversal /\ NoRelease /\ AuthorizerNext
       /\ UNCHANGED <<log, traversalVars, gateVars>>
  \/ NoTuples /\ NoTraversal /\ NoRelease /\ Len(log) < MaxLog /\ ReplayNext
       /\ UNCHANGED <<authorizerVars, traversalVars, gateVars>>
  \/ NoTuples /\ log = <<>> /\ NoRelease /\ TraversalNext
       /\ UNCHANGED <<authorizerVars, log, gateVars>>
  \/ NoTuples /\ log = <<>> /\ NoTraversal /\ GateNext
       /\ UNCHANGED <<authorizerVars, log, traversalVars>>
  \/ stage \in {"done", "failed"} /\ UNCHANGED vars
  \/ Len(log) = MaxLog /\ UNCHANGED vars

Spec == Init /\ [][Next]_vars

TypeOK == AuthorizerTypeOK /\ ReplayTypeOK /\ TraversalTypeOK /\ GateTypeOK

=============================================================================
