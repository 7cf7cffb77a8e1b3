------------------------------ MODULE Traversal ------------------------------
(***************************************************************************)
(* The authorized traversal of one query: from the entities the provider   *)
(* retrieves along claims to further entities, hop by hop.  Whatever the   *)
(* provider names is authorized before anything more is asked about it,    *)
(* and everything on the way to an answer once more at the end.  Each call *)
(* to the authorizer and to the provider is a step of its own; between     *)
(* them anything may be granted and revoked, so that nothing is known of   *)
(* an answer but what was asked.                                           *)
(*                                                                         *)
(* Scores choose among paths and are left out: any choice is possible.  A  *)
(* traversal that fails leaves nothing behind.                             *)
(***************************************************************************)
EXTENDS Naturals, Sequences, FiniteSets, SequencesExt

CONSTANTS
  Node,           \* entities of the graph
  Link,           \* claims of the graph
  FromOf,         \* the subject of each claim
  ToOf,           \* the object of each claim
  SupportsOf,     \* the provenance of an entity: its mode and groups of resources
  Limits,         \* limits a service is configured with
  BatchSize,      \* authz.MaxBatchChecks
  RetrieveLimit,  \* Service.retrieveLimit
  EvidenceLimit,  \* Service.evidenceLimit
  MaxDenials      \* bound: batches in which something is denied

Evidence == UNION {UNION SupportsOf[n].groups : n \in Node}

ASSUME TraversalAssumption ==
  /\ IsFiniteSet(Node) /\ IsFiniteSet(Link) /\ IsFiniteSet(Evidence)
  /\ FromOf \in [Link -> Node] /\ ToOf \in [Link -> Node]
  /\ Node \cap Link = {} /\ (Node \cup Link) \cap Evidence = {}
  /\ \A n \in Node : /\ SupportsOf[n].mode \in {"any_support", "all_required"}
                     /\ SupportsOf[n].groups # {}
  /\ Limits \subseteq [depth : Nat, width : Nat, perHop : Nat, resources : Nat, checks : Nat]
  /\ BatchSize \in Nat \ {0} /\ EvidenceLimit \in Nat \ {0}
  /\ RetrieveLimit \in Nat \ {0} /\ MaxDenials \in Nat

VARIABLES
  limits,      \* TraversalLimits
  stage,       \* the stage of executeTraversal the query is in
  frontier,    \* paths that end in the entities to be expanded
  claimPaths,  \* paths that end in claims of these
  terminals,   \* paths that went no further
  visited,     \* entities that paths have reached
  edges,       \* the expansion that is being authorized
  named,       \* resources that have counted against the budget
  asked,       \* resources still to be sent to the authorizer
  approved,    \* resources of the stage that the authorizer allowed
  batches,     \* calls to BatchCheck
  denials,     \* those that denied something
  history,     \* history: where it started and what was denied in each hop
  delivered    \* items and paths given to generation

traversalVars == <<limits, stage, frontier, claimPaths, terminals, visited, edges,
                   named, asked, approved, batches, denials, history, delivered>>

\* A path alternates entities and claims.
EndOf(path) == path[Len(path)]
EndsOf(paths) == {EndOf(p) : p \in paths}
ResourcesOf(paths) == UNION {{p[i] : i \in DOMAIN p} : p \in paths}

Asking == {"discover", "start", "claims", "objects", "final"}
Calling == {"retrieve", "expand", "follow", "load"}

TraversalTypeOK ==
  /\ limits \in Limits
  /\ stage \in Asking \cup Calling \cup {"idle", "done", "failed"}
  /\ \A p \in frontier \cup terminals : p \in Seq(Node \cup Link) /\ EndOf(p) \in Node
  /\ \A p \in claimPaths : p \in Seq(Node \cup Link) /\ EndOf(p) \in Link
  /\ visited \subseteq Node /\ edges \subseteq Link
  /\ asked \cup approved \subseteq named
  /\ Cardinality(named) <= limits.resources /\ batches <= limits.checks
  /\ denials <= MaxDenials

NoHistory == [started |-> {}, claims |-> <<>>, objects |-> <<>>]

TraversalInit ==
  /\ limits \in Limits
  /\ stage = "idle"
  /\ frontier = {} /\ claimPaths = {} /\ terminals = {} /\ visited = {} /\ edges = {}
  /\ named = {} /\ asked = {} /\ approved = {} /\ batches = 0 /\ denials = 0
  /\ history = NoHistory
  /\ delivered = {}

-----------------------------------------------------------------------------
\* Calls

\* addResources, and the stage in which the resources are authorized
Ask(resources, next) ==
  /\ named' = named \cup resources
  /\ Cardinality(named') <= limits.resources
  /\ stage' = next /\ asked' = resources /\ approved' = {}

\* One batch of checkTraversalResources: a batch that fails, or is answered
\* with anything but one decision for each of its checks, denies them all.
Check ==
  /\ stage \in Asking /\ asked # {} /\ batches < limits.checks
  /\ batches' = batches + 1
  /\ LET size == IF Cardinality(asked) < BatchSize THEN Cardinality(asked) ELSE BatchSize
         batch == CHOOSE b \in SUBSET asked : Cardinality(b) = size
     IN /\ asked' = asked \ batch
        /\ \E refused \in SUBSET batch :
             /\ refused # {} => denials < MaxDenials
             /\ denials' = IF refused = {} THEN denials ELSE denials + 1
             /\ approved' = approved \cup (batch \ refused)
  /\ UNCHANGED <<limits, stage, frontier, claimPaths, terminals, visited, edges, named,
                 history, delivered>>

Checked(s) == stage = s /\ asked = {}

\* Any call may fail, the time may be up, a limit be exceeded, an answer be
\* invalid, or nothing be left to go on with.
Fail ==
  /\ stage \in Asking \cup Calling
  /\ stage' = "failed"
  /\ frontier' = {} /\ claimPaths' = {} /\ terminals' = {} /\ visited' = {}
  /\ edges' = {} /\ named' = {} /\ asked' = {} /\ approved' = {}
  /\ batches' = 0 /\ denials' = 0 /\ history' = NoHistory
  /\ UNCHANGED <<limits, delivered>>

\* What a provider answers: what was asked for, or a claim more.  One that
\* keeps claims back goes unnoticed; no answer is exact then.
Named(exact) == {exact} \cup {exact \cup {k} : k \in Link}

-----------------------------------------------------------------------------
\* Discovery and start

Discover ==
  /\ stage = "idle"
  /\ Ask(Node, "discover")
  /\ UNCHANGED <<limits, frontier, claimPaths, terminals, visited, edges, batches, denials,
                 history, delivered>>

\* The provider ranks what may be ranked.
Retrieve ==
  \/ /\ Checked("discover") /\ approved # {}
     /\ stage' = "retrieve"
     /\ UNCHANGED <<limits, frontier, claimPaths, terminals, visited, edges, named, asked,
                    approved, batches, denials, history, delivered>>
  \/ /\ stage = "retrieve"
     /\ \E retrieved \in (SUBSET approved) \ {{}} :
          Cardinality(retrieved) <= RetrieveLimit /\ Ask(retrieved, "start")
     /\ UNCHANGED <<limits, frontier, claimPaths, terminals, visited, edges, batches, denials,
                    history, delivered>>

\* Without depth the entities that were found are the whole traversal.
Start ==
  /\ Checked("start") /\ approved # {}
  /\ Cardinality(approved) <= limits.width
  /\ LET paths == {<<n>> : n \in approved}
     IN IF limits.depth = 0
        THEN stage' = "load" /\ terminals' = paths /\ UNCHANGED frontier
        ELSE stage' = "expand" /\ frontier' = paths /\ UNCHANGED terminals
  /\ visited' = approved
  /\ history' = [history EXCEPT !.started = approved]
  /\ UNCHANGED <<limits, claimPaths, edges, named, asked, approved, batches, denials, delivered>>

-----------------------------------------------------------------------------
\* A hop

Expand ==
  /\ stage = "expand"
  /\ \E found \in Named({k \in Link : FromOf[k] \in EndsOf(frontier)}) :
       /\ Ask(found, "claims")
       /\ edges' = found
  /\ UNCHANGED <<limits, frontier, claimPaths, terminals, visited, batches, denials,
                 history, delivered>>

\* bindClaimPaths, of the claims that are allowed
Claims ==
  /\ Checked("claims")
  /\ LET paths == UNION {{Append(p, k) : k \in {x \in approved : FromOf[x] = EndOf(p)}} :
                           p \in frontier}
     IN /\ Cardinality(approved) <= limits.perHop
        /\ \A k \in approved : FromOf[k] \in EndsOf(frontier)
        /\ Cardinality(paths) <= limits.width
        /\ claimPaths' = paths
        /\ IF paths = {}
           THEN stage' = "load" /\ terminals' = terminals \cup frontier /\ frontier' = {}
           ELSE stage' = "follow" /\ UNCHANGED <<terminals, frontier>>
  /\ history' = [history EXCEPT !.claims = Append(@, edges \ approved)]
  /\ UNCHANGED <<limits, visited, edges, named, asked, approved, batches, denials, delivered>>

Follow ==
  /\ stage = "follow"
  /\ \E found \in Named(EndsOf(claimPaths)) :
       /\ Ask({ToOf[k] : k \in found}, "objects")
       /\ edges' = found
  /\ UNCHANGED <<limits, frontier, claimPaths, terminals, visited, batches, denials,
                 history, delivered>>

\* bindObjectPaths: the way on to entities that no path has reached before
Advanced ==
  {Append(p, ToOf[EndOf(p)]) :
     p \in {q \in claimPaths : ToOf[EndOf(q)] \in approved \ visited}}

\* Faulty variant: a path that has claims to follow is not at its end.
WithoutClaims(next) == {p \in frontier : \A q \in claimPaths : ~IsPrefix(p, q)}

\* Paths that have not advanced end where they are.
Ended(next) == {p \in frontier : \A q \in next : ~IsPrefix(p, q)}

Objects ==
  /\ Checked("objects")
  /\ Cardinality(approved) <= limits.perHop
  /\ \A k \in edges : ToOf[k] \in approved => k \in EndsOf(claimPaths)
  /\ LET next == Advanced
         over == next = {} \/ Len(history.objects) + 1 = limits.depth
     IN /\ Cardinality(next) <= limits.width
        /\ terminals' = terminals \cup Ended(next) \cup (IF over THEN next ELSE {})
        /\ visited' = visited \cup EndsOf(next)
        /\ frontier' = IF over THEN {} ELSE next
        /\ stage' = IF over THEN "load" ELSE "expand"
  /\ history' = [history EXCEPT !.objects = Append(@, {ToOf[k] : k \in edges} \ approved)]
  /\ UNCHANGED <<limits, claimPaths, edges, named, asked, approved, batches, denials, delivered>>

-----------------------------------------------------------------------------
\* finalizeTraversalEvidence

Load ==
  /\ stage = "load"
  /\ Ask(ResourcesOf(terminals) \cup
         UNION {UNION SupportsOf[n].groups : n \in EndsOf(terminals)}, "final")
  /\ UNCHANGED <<limits, frontier, claimPaths, terminals, visited, edges, batches, denials,
                 history, delivered>>

\* selectEvidenceItem: the supports of an item that is allowed
Kept(n) == {g \in SupportsOf[n].groups : g \subseteq approved}

Selectable(n) ==
  /\ n \in approved
  /\ IF SupportsOf[n].mode = "any_support" THEN Kept(n) # {} ELSE Kept(n) = SupportsOf[n].groups

\* An item for every entity that can be shown, with one of the paths to it.
Surviving ==
  {[item |-> EndOf(p), supports |-> Kept(EndOf(p)), path |-> p] :
     p \in {q \in terminals : Selectable(EndOf(q)) /\ ResourcesOf({q}) \subseteq approved}}

Finalize ==
  /\ Checked("final")
  /\ LET items == {s.item : s \in Surviving}
         size == IF Cardinality(items) < EvidenceLimit THEN Cardinality(items) ELSE EvidenceLimit
     IN /\ items # {}
        /\ \E chosen \in SUBSET Surviving :
             /\ Cardinality(chosen) = size /\ Cardinality({s.item : s \in chosen}) = size
             /\ delivered' = chosen
  /\ stage' = "done"
  /\ UNCHANGED <<limits, frontier, claimPaths, terminals, visited, edges, named, asked,
                 approved, batches, denials, history>>

TraversalNext ==
  \/ Discover \/ Retrieve \/ Start \/ Expand \/ Claims \/ Follow \/ Objects
  \/ Load \/ Finalize \/ Check \/ Fail

TraversalSpec == TraversalInit /\ [][TraversalNext]_traversalVars

-----------------------------------------------------------------------------
\* Properties

Hops == Len(history.objects)

OnwardFrom(past, p, h) == {k \in Link : FromOf[k] = EndOf(p) /\ k \notin past.claims[h]}

\* The paths on from those of one level, to entities that no path has reached before.
LevelAfter(past, h, level, before) ==
  UNION {{p \o <<k, ToOf[k]>> :
            k \in {x \in OnwardFrom(past, p, h) : ToOf[x] \notin before \cup past.objects[h]}} :
           p \in level}

\* The paths a traversal without limits takes, hop by hop: along claims and to
\* entities that were not denied when they came up, never to one that was
\* reached in fewer hops.
LevelsOf(past) ==
  LET paths[h \in 0 .. Len(past.objects)] ==
        IF h = 0 THEN {<<n>> : n \in past.started}
        ELSE LevelAfter(past, h, paths[h-1], UNION {EndsOf(paths[g]) : g \in 0 .. h - 1})
  IN [h \in 0 .. Len(past.objects) |-> paths[h]]

Levels == LevelsOf(history)

Taken == UNION {Levels[h] : h \in 0 .. Hops}

\* A traversal that is not refused went as far as it was allowed to: it ends
\* with all the paths that cannot be continued, whichever limits it was given,
\* and stopped early only where no claim and no new entity was left.
TerminalsExact ==
  /\ terminals = {p \in Taken : \A q \in Taken : IsPrefix(p, q) => p = q}
  /\ Hops < limits.depth =>
       \/ Levels[Hops] = {}
       \/ Len(history.claims) > Hops /\
            \A p \in Levels[Hops] : OnwardFrom(history, p, Hops + 1) = {}

\* What is shown was allowed when it came up and again at the end, all the way
\* to it and with the supports that go with it; an entity with a path and
\* support that are allowed is left out only for others.
DeliveredExact ==
  /\ \A d \in delivered :
       /\ d.path \in terminals /\ EndOf(d.path) = d.item
       /\ ResourcesOf({d.path}) \cup UNION d.supports \subseteq approved
       /\ d.supports # {} /\ d.supports \subseteq SupportsOf[d.item].groups
       /\ SupportsOf[d.item].mode = "all_required" => d.supports = SupportsOf[d.item].groups
  /\ \A c, d \in delivered : c.item = d.item => c = d
  /\ Cardinality(delivered) < EvidenceLimit =>
       \A p \in terminals :
         (ResourcesOf({p}) \subseteq approved /\ Selectable(EndOf(p))) =>
           \E d \in delivered : d.item = EndOf(p)

TraversalExact ==
  /\ stage \in {"load", "final", "done"} => TerminalsExact
  /\ stage = "done" => DeliveredExact

=============================================================================
