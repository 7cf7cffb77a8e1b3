-------------------------- MODULE MCCatalogLifecycle --------------------------
(***************************************************************************)
(* A small knowledge base for TLC: two documents, a chunk, an entity and a *)
(* claim of the first, an artifact either document supports alone and one  *)
(* that the artifact or the claim supports; in one workspace the second    *)
(* requires both, in one it is gone and the entity rests on the claim      *)
(* about it too.  The edited claim has no endpoints.  The last workspaces  *)
(* are catalogs a build must not produce: an orphan chunk, a stale pin, a  *)
(* cycle, an entity from nothing.  The service builds from the first       *)
(* document with one chunk and the second blank, missing or with a chunk.  *)
(***************************************************************************)
EXTENDS CatalogLifecycle, TLC

CONSTANTS d1, d2, c1, c2, e1, e2, s1, s2, k1, k2, a1, a2, bundle

MCId == {d1, d2, c1, c2, e1, e2, s1, s2, k1, k2, a1, a2, bundle}
MCTypeOf == [id \in MCId |->
  CASE id \in {d1, d2} -> "document"
    [] id \in {c1, c2} -> "chunk"
    [] id \in {e1, e2, s1, s2} -> "entity"
    [] id \in {k1, k2} -> "claim"
    [] OTHER -> "artifact"]
MCParentOf == [id \in MCId |-> IF id = c1 THEN d1 ELSE IF id = c2 THEN d2 ELSE id]

MCStatementOf == (c1 :> s1) @@ (c2 :> s2)
MCClaimOf == (c1 :> k1) @@ (c2 :> k2)
MCEntityOf == (d1 :> e1) @@ (d2 :> e2)
MCSummaryOf(documents, chunks) == 10 * documents + chunks

Source(content, chunks) == [content |-> content, title |-> content, chunks |-> chunks]
Text == Source(0, c1 :> 0)
MCSourceSet == {(d1 :> Text) @@ (d2 :> Source(0, << >>)),
                (d1 :> Text) @@ (d2 :> Source(1, c2 :> 1)),
                (d1 :> Source(1, c1 :> 1)), (d2 :> Source(0, << >>))}

Sound == {"full", "edited", "second", "strict", "mutual"}
Unsound == {"orphan", "stale", "cycle", "baseless"}
MCWorkspace == Sound \cup Unsound
MCFounding == {[workspace |-> "empty", legacy |-> {}],
               [workspace |-> "full", legacy |-> {}],
               [workspace |-> "full", legacy |-> {a1}],
               [workspace |-> "strict", legacy |-> {}]}

MCCatalogOf(workspace, run) ==
  LET all == {d1, d2, c1, e1, k1, a1, a2}
      present == IF workspace = "empty" THEN {} ELSE
                 IF workspace = "second" THEN {d2, a1, a2} ELSE
                 IF workspace = "orphan" THEN all \ {d1, e1, k1} ELSE
                 IF workspace = "mutual" THEN all \ {a2} ELSE all
      content(id) == IF workspace = "edited" /\ id \in {d2, k1} THEN 1 ELSE 0
      pin(id) == [id |-> id, content |-> content(id), acl |-> 0,
                  source |-> run.snapshot.version, projection |-> run.target]
      old(p) == IF workspace = "stale" /\ p.id = c1 THEN [p EXCEPT !.content = 2] ELSE p
      docOf(id) == pin(IF id \in {d2, a1} THEN d2 ELSE d1)
      group(ids) == [complete |-> TRUE,
                     evidence |-> {[pin |-> old(pin(x)), document |-> docOf(x)] : x \in ids}]
      groups(id) ==
        CASE id = e1 -> {CASE workspace = "baseless" -> group({k1})
                            [] workspace = "mutual" -> group({d1, k1})
                            [] OTHER -> group({d1})}
          [] id = k1 -> {group({c1})}
          [] id = a1 -> {group({d2})} \cup (IF d1 \in present THEN {group({d1})} ELSE {})
                        \cup (IF workspace = "cycle" THEN {group({a2})} ELSE {})
          [] id = a2 -> IF k1 \in present
                        THEN IF workspace = "strict" THEN {group({a1, k1})}
                             ELSE {group({a1}), group({k1})}
                        ELSE {group({a1})}
          [] OTHER -> {}
      mode(id) == IF workspace = "strict" /\ id = a2 THEN "all_required" ELSE "any_support"
  IN [id \in present |->
        [content |-> content(id), acl |-> 0, source |-> run.snapshot.version,
         projection |-> run.target,
         document |-> IF id \in {c1, k1} THEN pin(d1) ELSE None,
         bound |-> id = k1 /\ workspace # "edited",
         endpoints |-> IF id = k1 /\ workspace # "edited" THEN {e1} ELSE {},
         mode |-> mode(id), groups |-> groups(id),
         record |-> IF id \notin {a1, a2} THEN None ELSE
           [artifact |-> pin(id), mode |-> mode(id),
            groups |-> {[complete |-> g.complete, pins |-> {e.pin : e \in g.evidence}] :
                          g \in groups(id)}]]]

=============================================================================
