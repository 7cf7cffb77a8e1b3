------------------------ MODULE AuthorizedQueryProofs ------------------------
(***************************************************************************)
(* Proofs about modules QueryCache and AuthorizedQuery, for any tenant,    *)
(* capacity, workload and number of goroutines: the cache holds nothing    *)
(* revoked and never too much, containsRevision cannot be fooled, an       *)
(* answer is authorized after its content was loaded, and the whole        *)
(* service keeps the promise of module ProtectedAnswers.                   *)
(***************************************************************************)
EXTENDS AuthorizedQuery, FiniteSetTheorems, WellFoundedInduction, TLAPS

-----------------------------------------------------------------------------
(***************************************************************************)
(* The inductive invariant.  Revisions come from one counter, and a key    *)
(* without an entry is blank.                                              *)
(***************************************************************************)
Stamped ==
  \A k \in Key : /\ entries[k].revision <= nextRevision
                 /\ entries[k].revision = 0 => entries[k] = NoEntry

\* Where a query that holds a cache snapshot can be.
CachedPC == {"cache", "reload", "cacheFinal", "confirm", "miss"}

\* A goroutine runs queries or reads, never both.
InRole(t) ==
  /\ t \in Querier => pc[t] \in {"idle"} \cup QueryPC
  /\ t \in Reader => pc[t] \in {"idle"} \cup ReadPC

\* Exactly the cached path holds a snapshot, and one that put has stamped.
HoldsSnapshot(t) ==
  /\ hit[t].revision <= nextRevision
  /\ IF pc[t] \in CachedPC THEN hit[t].revision # 0 ELSE hit[t] = NoEntry

Faithful(t) ==
  hit[t].revision # 0 /\ entries[KeyOf(t)].revision = hit[t].revision
    => entries[KeyOf(t)].items = hit[t].items

\* What the checks made since the exact load have established so far.
CheckedSinceLoad(t) ==
  /\ pc[t] \in {"final", "cacheFinal", "confirm", "second", "regate"}
       => granted[PrincipalOf[req[t]]] \subseteq since[t]
  /\ pc[t] \in {"cacheFinal", "confirm", "second", "regate"} => allowed[t] \subseteq since[t]
  /\ pc[t] = "confirm" => BoundariesOf(hit[t].items) \subseteq allowed[t]
  /\ pc[t] = "regate" => BoundariesOf(items[t]) \subseteq allowed[t]
  /\ pc[t] = "final" /\ req[t] \in Strict => allowed[t] \subseteq since[t]
  /\ pc[t] \in {"select", "gate", "put"} /\ req[t] \in Strict
       => BoundariesOf(items[t]) \subseteq since[t]

ThreadInv(t) == InRole(t) /\ HoldsSnapshot(t) /\ Faithful(t) /\ CheckedSinceLoad(t)

CacheInv == Stamped /\ NoRevokedEntry /\ WithinCapacity

IInv ==
  /\ TypeOK
  /\ CacheInv
  /\ \A t \in Thread : ThreadInv(t)

-----------------------------------------------------------------------------
\* The cache

\* A set of numbers has a least one.
LEMMA HasMinimum ==
  ASSUME NEW N, N \subseteq Nat, N # {}
  PROVE  \E n \in N : \A m \in N : n <= m
<1> DEFINE Below == {0 .. n : n \in N}
<1>1. Below \subseteq FiniteSubsetsOf(Nat) /\ Below # {}
  <2>1. ASSUME NEW n \in N PROVE 0 .. n \in FiniteSubsetsOf(Nat)
    BY FS_Interval DEF FiniteSubsetsOf
  <2> QED
    BY <2>1
<1>2. PICK b \in Below : \A a \in Below : <<a, b>> \notin StrictSubsetOrdering(Nat)
  <2> HIDE DEF Below
  <2> QED
    BY <1>1, FS_StrictSubsetOrderingWellFounded, WFMin
<1>3. PICK n \in N : b = 0 .. n
  OBVIOUS
<1>4. ASSUME NEW m \in N, m < n PROVE FALSE
  <2>1. 0 .. m \in Below /\ 0 .. m \in SUBSET Nat /\ b \in SUBSET Nat
    BY <1>3
  <2>2. 0 .. m \subseteq b /\ n \in b /\ n \notin 0 .. m
    BY <1>3, <1>4
  <2>3. <<0 .. m, b>> \in StrictSubsetOrdering(Nat)
    BY <2>1, <2>2 DEF StrictSubsetOrdering
  <2> QED
    BY <1>2, <2>1, <2>3
<1> QED
  BY <1>4

\* evictOldestLocked finds an entry to evict whenever there is one.
LEMMA OldestIsLive ==
  ASSUME CacheTypeOK, Live # {}
  PROVE  Oldest \in Live
<1> DEFINE Stamps == {entries[k].revision : k \in Live}
<1>1. Stamps \subseteq Nat /\ Stamps # {}
  BY DEF CacheTypeOK, Entry, Live
<1>2. PICK n \in Stamps : \A m \in Stamps : n <= m
  <2> HIDE DEF Stamps
  <2> QED
    BY <1>1, HasMinimum
<1>3. PICK k \in Live : entries[k].revision = n
  OBVIOUS
<1>4. \A l \in Live : entries[k].revision <= entries[l].revision
  BY <1>2, <1>3
<1> QED
  BY <1>4 DEF Oldest

LEMMA NoEntryType == NoEntry \in Entry /\ NoEntry.revision = 0 /\ NoEntry.items = {}
BY DEF NoEntry, Entry

LEMMA ResourceIDsType ==
  ASSUME NEW evidence \in SUBSET Item
  PROVE  ResourceIDs(evidence) \subseteq Resource
BY QueryCacheAssumption DEF ResourceIDs

\* A blank result depends on nothing.
LEMMA NoResources == ResourceIDs({}) = {}
BY DEF ResourceIDs

\* What is admitted depends on nothing revoked.
LEMMA AdmittedUnrevoked ==
  ASSUME NEW ids, Admits(ids)
  PROVE  ids \cap Revoked = {}
BY DEF Admits, Revoked

\* The keys that hold an entry are finite in number.
LEMMA LiveFinite == IsFiniteSet(Live) /\ Cardinality(Live) \in Nat
<1>1. IsFiniteSet(Key)
  BY QueryCacheAssumption, FS_SUBSET, FS_Product DEF Key
<1>2. Live \in SUBSET Key
  BY DEF Live
<1> QED
  BY <1>1, <1>2, FS_Subset, FS_CardinalityType

\* Entries that are only ever blanked leave the cache no fuller.
LEMMA FewerLive ==
  ASSUME WithinCapacity,
         \A k \in Key : entries'[k] = entries[k] \/ entries'[k] = NoEntry
  PROVE  WithinCapacity'
<1>1. Live' \in SUBSET Live
  BY NoEntryType DEF Live
<1> QED
  BY <1>1, LiveFinite, FS_Subset, QueryCacheAssumption, FS_CardinalityType DEF WithinCapacity

\* What each operation does to an entry: keep it, blank it or stamp it anew.
Revised ==
  /\ nextRevision' \in Nat /\ nextRevision <= nextRevision'
  /\ \A k \in Key : \/ entries'[k] = entries[k]
                    \/ entries'[k] = NoEntry
                    \/ entries'[k].revision = nextRevision' /\ nextRevision < nextRevision'

\* put, on a result that it accepts.
LEMMA PutStep ==
  ASSUME CacheTypeOK, CacheInv, NEW k \in Key, NEW evidence \in SUBSET Item,
         PutAccepts(evidence), Put(k, evidence)
  PROVE  CacheTypeOK' /\ CacheInv' /\ Revised
<1> DEFINE new == [revision |-> nextRevision + 1, items |-> evidence]
<1>1. /\ \A l \in Key : Evicted(k)[l] = entries[l] \/ Evicted(k)[l] = NoEntry
      /\ Evicted(k) \in [Key -> Entry]
  BY NoEntryType DEF Evicted, CacheTypeOK
<1>2. /\ entries' = [Evicted(k) EXCEPT ![k] = new]
      /\ nextRevision' = nextRevision + 1
      /\ UNCHANGED <<invalidated, disabled>>
  BY DEF Put, tombstoneVars
<1>3. new \in Entry /\ nextRevision \in Nat
  BY DEF Entry, CacheTypeOK
<1>4. CacheTypeOK'
  BY <1>1, <1>2, <1>3 DEF CacheTypeOK, TombstonesTypeOK
<1>5. entries'[k] = new /\ \A l \in Key : l # k => entries'[l] = entries[l] \/ entries'[l] = NoEntry
  BY <1>1, <1>2
<1>6. Revised
  BY <1>2, <1>3, <1>5 DEF Revised
<1>7. Stamped'
  BY <1>2, <1>3, <1>5, NoEntryType DEF CacheInv, Stamped, CacheTypeOK, Entry
<1>8. NoRevokedEntry'
  <2>1. Revoked' = Revoked
    BY <1>2 DEF Revoked
  <2>2. ResourceIDs(evidence) \cap Revoked = {}
    BY AdmittedUnrevoked DEF PutAccepts
  <2>3. ASSUME NEW l \in Key PROVE ResourceIDs(entries'[l].items) \cap Revoked = {}
    <3>1. ResourceIDs(entries[l].items) \cap Revoked = {}
      BY DEF CacheInv, NoRevokedEntry
    <3>2. CASE entries'[l] = NoEntry
      BY <3>2, NoResources, NoEntryType
    <3> QED
      BY <1>5, <2>2, <3>1, <3>2
  <2> QED
    BY <2>1, <2>3 DEF NoRevokedEntry, ResourceIDs
<1>9. WithinCapacity'
  <2>0. /\ IsFiniteSet(Live) /\ Cardinality(Live) \in Nat
        /\ Cardinality(Live) <= Capacity /\ Capacity \in Nat \ {0}
    BY LiveFinite, QueryCacheAssumption DEF CacheInv, WithinCapacity
  <2>1. CASE k \notin Live /\ Cardinality(Live) >= Capacity
    <3>1. Oldest \in Live
      BY <2>0, <2>1, FS_EmptySet, OldestIsLive
    <3>2. Oldest # k /\ Oldest \in Key
      BY <2>1, <3>1 DEF Live
    <3>3. entries'[Oldest] = NoEntry
      BY <1>1, <1>2, <2>1, <3>1, <3>2 DEF Evicted, CacheTypeOK
    <3>4. Live' \in SUBSET ((Live \ {Oldest}) \cup {k})
      BY <1>5, <3>3, NoEntryType DEF Live
    <3>5. /\ IsFiniteSet(Live \ {Oldest})
          /\ Cardinality(Live \ {Oldest}) = Cardinality(Live) - 1
      BY <2>0, <3>1, FS_RemoveElement
    <3>6. /\ IsFiniteSet((Live \ {Oldest}) \cup {k})
          /\ Cardinality((Live \ {Oldest}) \cup {k}) = Cardinality(Live)
      BY <2>0, <2>1, <3>5, FS_AddElement
    <3> QED
      BY <2>0, <3>4, <3>6, FS_Subset, FS_CardinalityType DEF WithinCapacity
  <2>2. CASE k \notin Live /\ ~(Cardinality(Live) >= Capacity)
    <3>1. Live' \in SUBSET (Live \cup {k})
      BY <1>5, NoEntryType DEF Live
    <3>2. /\ IsFiniteSet(Live \cup {k})
          /\ Cardinality(Live \cup {k}) = Cardinality(Live) + 1
      BY <2>0, <2>2, FS_AddElement
    <3> QED
      BY <2>0, <2>2, <3>1, <3>2, FS_Subset, FS_CardinalityType DEF WithinCapacity
  <2>3. CASE k \in Live
    <3>1. Live' \in SUBSET Live
      BY <1>5, <2>3, NoEntryType DEF Live
    <3> QED
      BY <2>0, <3>1, FS_Subset, FS_CardinalityType DEF WithinCapacity
  <2> QED
    BY <2>1, <2>2, <2>3
<1> QED
  BY <1>4, <1>6, <1>7, <1>8, <1>9 DEF CacheInv

\* deleteIfRevision.
LEMMA DeleteStep ==
  ASSUME CacheTypeOK, CacheInv, NEW k \in Key, NEW r, DeleteIfRevision(k, r)
  PROVE  CacheTypeOK' /\ CacheInv' /\ Revised
<1>1. /\ \A l \in Key : entries'[l] = entries[l] \/ entries'[l] = NoEntry
      /\ entries' \in [Key -> Entry]
      /\ UNCHANGED <<invalidated, disabled, nextRevision>>
  BY NoEntryType DEF DeleteIfRevision, CacheTypeOK
<1>2. nextRevision \in Nat
  BY DEF CacheTypeOK
<1>3. CacheTypeOK' /\ Revised
  BY <1>1, <1>2 DEF CacheTypeOK, TombstonesTypeOK, Revised
<1>4. Stamped'
  BY <1>1, <1>2, NoEntryType DEF CacheInv, Stamped
<1>5. NoRevokedEntry'
  BY <1>1, NoResources, NoEntryType DEF CacheInv, NoRevokedEntry, Revoked
<1> QED
  BY <1>1, <1>3, <1>4, <1>5, FewerLive DEF CacheInv

\* InvalidateResource, with or without an overflow, of a disabled cache too.
LEMMA InvalidateStep ==
  ASSUME CacheTypeOK, CacheInv, NEW r \in Resource, InvalidateResource(r)
  PROVE  CacheTypeOK' /\ CacheInv' /\ Revised
<1>1. /\ \A l \in Key : entries'[l] = entries[l] \/ entries'[l] = NoEntry
      /\ entries' \in [Key -> Entry]
      /\ nextRevision' = nextRevision /\ nextRevision \in Nat
  BY NoEntryType DEF InvalidateResource, CacheTypeOK
<1>2. CacheTypeOK' /\ Revised
  <2>1. TombstonesTypeOK'
    BY Zenon DEF CacheTypeOK, TombstonesTypeOK, InvalidateResource, Tombstone
  <2> QED
    BY <1>1, <2>1 DEF CacheTypeOK, Revised
<1>3. Stamped'
  BY <1>1, NoEntryType DEF CacheInv, Stamped
<1>4. NoRevokedEntry'
  <2> SUFFICES ASSUME NEW k \in Key
               PROVE  ResourceIDs(entries'[k].items) \cap Revoked' = {}
    BY DEF NoRevokedEntry, ResourceIDs
  <2>1. ResourceIDs(entries[k].items) \cap Revoked = {}
    BY DEF CacheInv, NoRevokedEntry
  <2>2. CASE entries'[k] = NoEntry
    BY <2>2, NoResources, NoEntryType
  <2>3. CASE disabled
    <3>1. Revoked' = Resource /\ Revoked = Resource
      BY <2>3 DEF Revoked, InvalidateResource, Tombstone
    <3> QED
      BY <1>1, <2>1, <2>2, <3>1
  <2>4. CASE ~disabled /\ entries'[k] # NoEntry
    <3>1. entries'[k] = entries[k] /\ ~Overflows(r) /\ r \notin ResourceIDs(entries[k].items)
      BY <2>4 DEF InvalidateResource
    <3>2. Revoked' = Revoked \cup {r}
      BY <2>4, <3>1 DEF Revoked, InvalidateResource, Tombstone
    <3> QED
      BY <2>1, <3>1, <3>2
  <2> QED
    BY <2>2, <2>3, <2>4
<1> QED
  BY <1>1, <1>2, <1>3, <1>4, FewerLive DEF CacheInv

-----------------------------------------------------------------------------
\* One goroutine at a time

ThreadTyped ==
  /\ pc \in [Thread -> {"idle"} \cup QueryPC \cup ReadPC]
  /\ req \in [Thread -> Request]
  /\ items \in [Thread -> SUBSET Item]
  /\ hit \in [Thread -> Entry]
  /\ left \in [Thread -> SUBSET Object]
  /\ allowed \in [Thread -> SUBSET Object]
  /\ delivered \in [Thread -> SUBSET Item]
  /\ since \in [Thread -> SUBSET Object]

\* A goroutine's step leaves the locals of the others alone.
Private(t) ==
  /\ UNCHANGED <<granted, traversal>>
  /\ \A u \in Thread \ {t} :
       UNCHANGED <<pc[u], req[u], items[u], hit[u], allowed[u], delivered[u], since[u]>>

\* What a goroutine may return when it has evidence.
Deliverable(t, evidence) ==
  /\ ResourceIDs(evidence) \cap Revoked = {}
  /\ t \in Reader \/ hit[t].revision # 0 \/ req[t] \in Strict
       => BoundariesOf(evidence) \subseteq since[t]

\* A step works on, or returns evidence it may return, or drops the last answer.
Answers(t) ==
  \/ UNCHANGED delivered /\ pc'[t] # "idle"
  \/ \E evidence \in SUBSET Item :
       /\ delivered' = [delivered EXCEPT ![t] = evidence]
       /\ evidence = {} \/ Deliverable(t, evidence)

Good(t) == ThreadTyped' /\ ThreadInv(t)' /\ Private(t) /\ Answers(t)

LEMMA BoundariesType ==
  ASSUME NEW evidence \in SUBSET Item
  PROVE  BoundariesOf(evidence) \subseteq Object
BY AuthorizedQueryAssumption DEF BoundariesOf, Object

LEMMA OwnType == {Own[i] : i \in Item} \subseteq Object
BY AuthorizedQueryAssumption DEF BoundariesOf, Object

\* The parts of the invariant that a goroutine's step starts from.
LEMMA Parts ==
  ASSUME IInv
  PROVE  /\ CacheTypeOK /\ CacheInv /\ ThreadTyped
         /\ nextRevision \in Nat
         /\ entries \in [Key -> Entry]
         /\ granted \in [Principal -> SUBSET Object]
         /\ replica \in [Principal -> SUBSET Object]
         /\ answered \subseteq Answer
         /\ traversal \in BOOLEAN
         /\ \A t \in Thread : ThreadInv(t)
BY AuthorizedQueryAssumption DEF IInv, TypeOK, CacheTypeOK, ThreadTyped

LEMMA KeyType ==
  ASSUME IInv, NEW t \in Thread
  PROVE  KeyOf(t) \in Key
BY Parts DEF ThreadTyped, KeyOf, Key

\* Every return leaves the goroutine without a snapshot and without checks.
LEMMA ReturnGood ==
  ASSUME IInv, NEW t \in Thread, NEW evidence \in SUBSET Item,
         Return(t, evidence), UNCHANGED <<req, granted, traversal>>,
         nextRevision' \in Nat,
         evidence = {} \/ Deliverable(t, evidence)
  PROVE  Good(t)
<1>1. ThreadTyped
  BY Parts
<1>2. ThreadTyped'
  BY <1>1, NoEntryType DEF ThreadTyped, Return, Goto
<1>3. /\ pc'[t] = "idle" /\ hit'[t] = NoEntry
      /\ delivered' = [delivered EXCEPT ![t] = evidence]
  BY <1>1 DEF ThreadTyped, Return, Goto
<1>4. ThreadInv(t)'
  <2>1. HoldsSnapshot(t)'
    BY <1>3, NoEntryType DEF HoldsSnapshot, CachedPC
  <2>2. InRole(t)' /\ Faithful(t)' /\ CheckedSinceLoad(t)'
    BY <1>3, NoEntryType DEF InRole, Faithful, CheckedSinceLoad
  <2> QED
    BY <2>1, <2>2 DEF ThreadInv
<1>5. Private(t)
  BY <1>1 DEF Private, ThreadTyped, Return, Goto
<1>6. Answers(t)
  BY <1>3 DEF Answers
<1> QED
  BY <1>2, <1>4, <1>5, <1>6 DEF Good

\* An error is returned without evidence.
LEMMA ErrorGood ==
  ASSUME IInv, NEW t \in Thread, Return(t, {}),
         UNCHANGED <<req, granted, traversal>>, nextRevision' \in Nat
  PROVE  Good(t)
BY ReturnGood

\* A batch of checks: live and higher-consistency answers are current.
LEMMA CheckGood ==
  ASSUME IInv, NEW t \in Thread, NEW live \in BOOLEAN, NEW lenient \in BOOLEAN,
         CheckBatch(t, live, lenient), UNCHANGED traversal,
         pc[t] \in {"cache", "cacheFinal", "first", "second"} => live,
         pc[t] \notin {"confirm", "regate", "select", "gate", "put", "idle"}
  PROVE  Good(t)
<1>1. /\ ThreadTyped /\ ThreadInv(t)
      /\ granted \in [Principal -> SUBSET Object]
      /\ PrincipalOf[req[t]] \in Principal
  BY Parts, AuthorizedQueryAssumption DEF ThreadTyped
<1>2. PICK batch \in SUBSET left[t] :
        /\ left' = [left EXCEPT ![t] = @ \ batch]
        /\ \/ \E view \in Views(t, live) : allowed' = [allowed EXCEPT ![t] = @ \cup (batch \cap view)]
           \/ lenient /\ UNCHANGED allowed
  BY DEF CheckBatch
<1>3. UNCHANGED <<entries, nextRevision, granted, pc, req, items, hit, delivered, since>>
  BY DEF CheckBatch, cacheVars
<1>4. batch \subseteq Object /\ left[t] \subseteq Object
  BY <1>1 DEF ThreadTyped
<1>5. PICK seen \in SUBSET Object :
        /\ allowed' = [allowed EXCEPT ![t] = @ \cup seen]
        /\ live \/ req[t] \in Strict => seen \subseteq granted[PrincipalOf[req[t]]]
  <2>1. CASE UNCHANGED allowed
    <3>1. allowed' = [allowed EXCEPT ![t] = @ \cup {}]
      BY <1>1, <2>1 DEF ThreadTyped
    <3> WITNESS {} \in SUBSET Object
    <3> QED
      BY <3>1
  <2>2. CASE \E view \in Views(t, live) : allowed' = [allowed EXCEPT ![t] = @ \cup (batch \cap view)]
    <3>1. PICK view \in Views(t, live) : allowed' = [allowed EXCEPT ![t] = @ \cup (batch \cap view)]
      BY <2>2
    <3>2. batch \cap view \in SUBSET Object
      BY <1>4
    <3>3. live \/ req[t] \in Strict => batch \cap view \subseteq granted[PrincipalOf[req[t]]]
      BY <3>1 DEF Views
    <3> WITNESS batch \cap view \in SUBSET Object
    <3> QED
      BY <3>1, <3>3
  <2> QED
    BY <1>2, <2>1, <2>2
<1>6. ThreadTyped'
  BY <1>1, <1>2, <1>3, <1>4, <1>5 DEF ThreadTyped
<1>7. allowed'[t] = allowed[t] \cup seen
  BY <1>1, <1>5 DEF ThreadTyped
<1>8. ThreadInv(t)'
  <2>1. InRole(t)' /\ HoldsSnapshot(t)' /\ Faithful(t)'
    BY <1>1, <1>3 DEF ThreadInv, InRole, HoldsSnapshot, Faithful, KeyOf
  <2>2. CheckedSinceLoad(t)'
    BY <1>1, <1>3, <1>5, <1>7 DEF ThreadInv, CheckedSinceLoad, BoundariesOf
  <2> QED
    BY <2>1, <2>2 DEF ThreadInv
<1>9. Private(t)
  BY <1>1, <1>3, <1>5 DEF Private, ThreadTyped
<1>10. Answers(t)
  BY <1>3 DEF Answers
<1> QED
  BY <1>6, <1>8, <1>9, <1>10 DEF Good


\* A step that moves a goroutine on, changing none of its evidence or checks.
LEMMA ContinueGood ==
  ASSUME IInv, NEW t \in Thread, NEW label \in QueryPC \cup ReadPC,
         Continue(t, label), UNCHANGED <<cacheVars, granted, req, traversal>>,
         t \in Querier => label \in QueryPC,
         t \in Reader => label \in ReadPC,
         CheckedSinceLoad(t)',
         label \in CachedPC <=> pc[t] \in CachedPC
  PROVE  Good(t)
<1>1. /\ ThreadTyped /\ ThreadInv(t)
      /\ UNCHANGED <<entries, nextRevision>>
  BY Parts DEF cacheVars
<1>2. ThreadTyped' /\ pc'[t] = label
  BY <1>1 DEF ThreadTyped, Continue, Goto
<1>3. InRole(t)' /\ HoldsSnapshot(t)' /\ Faithful(t)'
  BY <1>1, <1>2 DEF ThreadInv, InRole, HoldsSnapshot, Faithful, KeyOf, Continue
<1>4. Private(t)
  BY <1>1 DEF Private, ThreadTyped, Continue, Goto
<1>5. Answers(t)
  BY <1>2 DEF Answers, Continue, QueryPC, ReadPC
<1> QED
  BY <1>2, <1>3, <1>4, <1>5 DEF Good, ThreadInv

-----------------------------------------------------------------------------
\* The steps of a query

LEMMA QuerierIsThread ==
  ASSUME NEW t \in Querier
  PROVE  t \in Thread /\ t \notin Reader
BY AuthorizedQueryAssumption DEF Thread

LEMMA BeginQueryGood ==
  ASSUME IInv, NEW t \in Querier, NEW q \in Request, BeginQuery(t, q), UNCHANGED traversal
  PROVE  Good(t)
<1>1. /\ ThreadTyped /\ ThreadInv(t) /\ t \in Thread /\ t \notin Reader
      /\ entries \in [Key -> Entry] /\ Stamped
      /\ UNCHANGED <<entries, nextRevision, disabled, granted, items, since, traversal>>
      /\ pc[t] = "idle" /\ nextRevision \in Nat
  BY Parts, QuerierIsThread DEF BeginQuery, cacheVars, CacheInv
<1>2. /\ req' = [req EXCEPT ![t] = q]
      /\ delivered' = [delivered EXCEPT ![t] = {}]
  BY DEF BeginQuery
<1>3. CASE /\ ~traversal
           /\ Get(<<q, {}>>) # NoEntry
           /\ Lookup(t, <<q, {}>>)
           /\ Goto(t, "cache")
  <2> DEFINE e == entries[<<q, {}>>]
  <2>1. /\ <<q, {}>> \in Key /\ e \in Entry /\ Get(<<q, {}>>) = e
        /\ e.revision <= nextRevision /\ e.revision # 0
    BY <1>1, <1>3, NoEntryType DEF Key, Get, Stamped
  <2>2. BoundariesOf(e.items) \subseteq Object
    BY <2>1, BoundariesType DEF Entry
  <2>3. /\ hit' = [hit EXCEPT ![t] = e] /\ pc' = [pc EXCEPT ![t] = "cache"]
        /\ left' = [left EXCEPT ![t] = BoundariesOf(e.items)]
        /\ allowed' = [allowed EXCEPT ![t] = {}]
    BY <1>3, <2>1 DEF Lookup, Goto
  <2>4. ThreadTyped'
    BY <1>1, <1>2, <2>1, <2>2, <2>3 DEF ThreadTyped, QueryPC
  <2>5. ThreadInv(t)'
    <3>1. KeyOf(t)' = <<q, {}>>
      BY <1>1, <1>2, <1>3 DEF KeyOf, ThreadTyped
    <3>2. pc'[t] = "cache" /\ hit'[t] = e
      BY <1>1, <2>3 DEF ThreadTyped
    <3>3. InRole(t)'
      BY <1>1, <3>2 DEF InRole, QueryPC
    <3>4. HoldsSnapshot(t)'
      BY <1>1, <2>1, <3>2 DEF HoldsSnapshot, CachedPC
    <3>5. Faithful(t)'
      BY <1>1, <3>1, <3>2 DEF Faithful
    <3>6. CheckedSinceLoad(t)'
      BY <3>2 DEF CheckedSinceLoad
    <3> QED
      BY <3>3, <3>4, <3>5, <3>6 DEF ThreadInv
  <2>6. Private(t) /\ Answers(t)
    BY <1>1, <1>2, <2>3 DEF Private, Answers, ThreadTyped
  <2> QED
    BY <2>4, <2>5, <2>6 DEF Good
<1>4. CASE Discover(t)
  <2>1. /\ pc' = [pc EXCEPT ![t] = "prerank"] /\ hit' = [hit EXCEPT ![t] = NoEntry]
        /\ left' = [left EXCEPT ![t] = {Own[i] : i \in Item}]
        /\ allowed' = [allowed EXCEPT ![t] = {}]
    BY <1>4 DEF Discover, Goto
  <2>2. {Own[i] : i \in Item} \subseteq Object
    BY OwnType
  <2>3. ThreadTyped'
    BY <1>1, <1>2, <2>1, <2>2, NoEntryType DEF ThreadTyped, QueryPC
  <2>4. pc'[t] = "prerank" /\ hit'[t] = NoEntry
    BY <1>1, <2>1 DEF ThreadTyped
  <2>5. ThreadInv(t)'
    BY <1>1, <2>4, NoEntryType
       DEF ThreadInv, InRole, HoldsSnapshot, Faithful, CheckedSinceLoad, QueryPC, CachedPC
  <2>6. Private(t) /\ Answers(t)
    BY <1>1, <1>2, <2>1 DEF Private, Answers, ThreadTyped
  <2> QED
    BY <2>3, <2>5, <2>6 DEF Good
<1> QED
  BY <1>3, <1>4 DEF BeginQuery

LEMMA CacheCheckGood ==
  ASSUME IInv, NEW t \in Querier, CacheCheck(t), UNCHANGED traversal
  PROVE  Good(t)
BY QuerierIsThread, Parts, CheckGood DEF CacheCheck

LEMMA RevalidationFailsGood ==
  ASSUME IInv, NEW t \in Querier, RevalidationFails(t), UNCHANGED traversal
  PROVE  Good(t)
<1>1. ThreadTyped /\ t \in Thread /\ t \notin Reader
  BY Parts, QuerierIsThread
<1>2. pc'[t] = "miss"
  BY <1>1 DEF RevalidationFails, Continue, Goto, ThreadTyped
<1>3. CheckedSinceLoad(t)'
  BY <1>2 DEF CheckedSinceLoad
<1> QED
  BY <1>1, <1>3, ContinueGood DEF RevalidationFails, QueryPC, CachedPC

LEMMA CacheCheckedGood ==
  ASSUME IInv, NEW t \in Querier, CacheChecked(t), UNCHANGED traversal
  PROVE  Good(t)
<1> DEFINE label == IF pc[t] = "cache" THEN "reload" ELSE "confirm"
<1>1. ThreadTyped /\ ThreadInv(t) /\ t \in Thread /\ t \notin Reader
  BY Parts, QuerierIsThread
<1>2. pc'[t] = label /\ UNCHANGED <<items, hit, allowed, since, granted, req>>
  BY <1>1 DEF CacheChecked, Continue, Goto, ThreadTyped
<1>3. BoundariesOf(hit[t].items) \subseteq allowed[t]
  BY DEF CacheChecked, Denied
<1>4. CheckedSinceLoad(t)'
  BY <1>1, <1>2, <1>3 DEF CacheChecked, ThreadInv, CheckedSinceLoad, BoundariesOf
<1> QED
  BY <1>1, <1>4, ContinueGood DEF CacheChecked, QueryPC, CachedPC


LEMMA CacheReloadGood ==
  ASSUME IInv, NEW t \in Querier, CacheReload(t), UNCHANGED traversal
  PROVE  Good(t)
<1>1. /\ ThreadTyped /\ ThreadInv(t) /\ t \in Thread /\ t \notin Reader
      /\ granted \in [Principal -> SUBSET Object] /\ PrincipalOf[req[t]] \in Principal
      /\ UNCHANGED <<entries, nextRevision, granted, req, items, hit, delivered, traversal>>
  BY Parts, QuerierIsThread, AuthorizedQueryAssumption DEF ThreadTyped, CacheReload, cacheVars
<1>2. BoundariesOf(hit[t].items) \subseteq Object
  BY <1>1, BoundariesType DEF ThreadTyped, Entry
<1>3. /\ pc' = [pc EXCEPT ![t] = "cacheFinal"]
      /\ since' = [since EXCEPT ![t] = granted[PrincipalOf[req[t]]]]
      /\ left' = [left EXCEPT ![t] = BoundariesOf(hit[t].items)]
      /\ allowed' = [allowed EXCEPT ![t] = {}]
  BY DEF CacheReload, Load, Goto
<1>4. ThreadTyped'
  BY <1>1, <1>2, <1>3 DEF ThreadTyped, QueryPC
<1>5. /\ pc'[t] = "cacheFinal" /\ allowed'[t] = {}
      /\ since'[t] = granted[PrincipalOf[req[t]]]
  BY <1>1, <1>3 DEF ThreadTyped
<1>6. InRole(t)' /\ HoldsSnapshot(t)' /\ Faithful(t)'
  BY <1>1, <1>5
     DEF CacheReload, ThreadInv, InRole, HoldsSnapshot, Faithful, KeyOf, QueryPC, CachedPC
<1>7. CheckedSinceLoad(t)'
  BY <1>1, <1>5 DEF CheckedSinceLoad
<1>8. Private(t) /\ Answers(t)
  BY <1>1, <1>3, <1>5 DEF Private, Answers, ThreadTyped
<1> QED
  BY <1>4, <1>6, <1>7, <1>8 DEF Good, ThreadInv

\* The snapshot that containsRevision confirms is what the cache holds, and so
\* unrevoked; and all of it was allowed since its reload.
LEMMA ReturnCachedGood ==
  ASSUME IInv, NEW t \in Querier, ReturnCached(t), UNCHANGED traversal
  PROVE  Good(t)
<1>1. /\ ThreadTyped /\ ThreadInv(t) /\ t \in Thread /\ NoRevokedEntry
      /\ nextRevision \in Nat /\ KeyOf(t) \in Key
  BY Parts, QuerierIsThread, KeyType DEF CacheInv
<1>2. /\ pc[t] = "confirm" /\ entries[KeyOf(t)].revision = hit[t].revision
      /\ Return(t, hit[t].items)
      /\ UNCHANGED <<nextRevision, granted, req>>
  BY DEF ReturnCached, ContainsRevision, cacheVars
<1>3. hit[t].items = entries[KeyOf(t)].items
  BY <1>1, <1>2 DEF ThreadInv, HoldsSnapshot, Faithful, CachedPC
<1>4. ResourceIDs(hit[t].items) \cap Revoked = {}
  BY <1>1, <1>3 DEF NoRevokedEntry
<1>5. BoundariesOf(hit[t].items) \subseteq since[t]
  BY <1>1, <1>2 DEF ThreadInv, CheckedSinceLoad
<1>6. hit[t].items \in SUBSET Item
  BY <1>1 DEF ThreadTyped, Entry
<1> QED
  BY <1>1, <1>2, <1>4, <1>5, <1>6, ReturnGood DEF Deliverable

LEMMA SnapshotReplacedGood ==
  ASSUME IInv, NEW t \in Querier, SnapshotReplaced(t), UNCHANGED traversal
  PROVE  Good(t)
<1>1. ThreadTyped /\ t \in Thread /\ t \notin Reader /\ nextRevision \in Nat
  BY Parts, QuerierIsThread
<1>2. CASE traversal
  BY <1>1, <1>2, ErrorGood DEF SnapshotReplaced, cacheVars
<1>3. CASE ~traversal
  <2>1. Continue(t, "miss")
    BY <1>3 DEF SnapshotReplaced
  <2>2. CheckedSinceLoad(t)'
    BY <1>1, <2>1 DEF CheckedSinceLoad, Continue, Goto, ThreadTyped
  <2> QED
    BY <1>1, <2>1, <2>2, ContinueGood DEF SnapshotReplaced, QueryPC, CachedPC
<1> QED
  BY <1>2, <1>3

LEMMA MissGood ==
  ASSUME IInv, NEW t \in Querier, Miss(t), UNCHANGED traversal
  PROVE  Good(t)
<1>1. /\ ThreadTyped /\ t \in Thread /\ t \notin Reader
      /\ nextRevision \in Nat /\ UNCHANGED <<nextRevision, granted, req, traversal>>
  BY Parts, QuerierIsThread DEF Miss, DeleteIfRevision
<1>2. CASE traversal
  BY <1>1, <1>2, ErrorGood DEF Miss
<1>3. CASE ~traversal
  <2>1. /\ pc' = [pc EXCEPT ![t] = "prerank"] /\ hit' = [hit EXCEPT ![t] = NoEntry]
        /\ left' = [left EXCEPT ![t] = {Own[i] : i \in Item}]
        /\ allowed' = [allowed EXCEPT ![t] = {}]
        /\ UNCHANGED <<items, delivered, since>>
    BY <1>3 DEF Miss, Discover, Goto
  <2>2. ThreadTyped'
    BY <1>1, <2>1, OwnType, NoEntryType DEF ThreadTyped, QueryPC
  <2>3. pc'[t] = "prerank" /\ hit'[t] = NoEntry
    BY <1>1, <2>1 DEF ThreadTyped
  <2>4. ThreadInv(t)'
    BY <1>1, <2>3, NoEntryType
       DEF ThreadInv, InRole, HoldsSnapshot, Faithful, CheckedSinceLoad, QueryPC, CachedPC
  <2>5. Private(t) /\ Answers(t)
    BY <1>1, <2>1, <2>3 DEF Private, Answers, ThreadTyped
  <2> QED
    BY <2>2, <2>4, <2>5 DEF Good
<1> QED
  BY <1>2, <1>3

LEMMA PreRankGood ==
  ASSUME IInv, NEW t \in Querier, PreRank(t), UNCHANGED traversal
  PROVE  Good(t)
<1>1. /\ ThreadTyped /\ t \in Thread /\ t \notin Reader /\ traversal \in BOOLEAN
      /\ pc[t] = "prerank"
  BY Parts, QuerierIsThread DEF PreRank
<1>2. CASE CheckBatch(t, FALSE, traversal)
  BY <1>1, <1>2, CheckGood
<1>3. CASE Continue(t, "retrieve") /\ UNCHANGED <<cacheVars, granted, req>>
  <2>1. CheckedSinceLoad(t)'
    BY <1>1, <1>3 DEF CheckedSinceLoad, Continue, Goto, ThreadTyped
  <2> QED
    BY <1>1, <1>3, <2>1, ContinueGood DEF QueryPC, CachedPC
<1> QED
  BY <1>2, <1>3 DEF PreRank


LEMMA RetrieveAndLoadGood ==
  ASSUME IInv, NEW t \in Querier, RetrieveAndLoad(t), UNCHANGED traversal
  PROVE  Good(t)
<1>1. /\ ThreadTyped /\ ThreadInv(t) /\ t \in Thread /\ t \notin Reader
      /\ granted \in [Principal -> SUBSET Object] /\ PrincipalOf[req[t]] \in Principal
      /\ UNCHANGED <<entries, nextRevision, granted, req, hit, delivered, traversal>>
      /\ hit[t] = NoEntry
  BY Parts, QuerierIsThread, AuthorizedQueryAssumption
     DEF ThreadTyped, RetrieveAndLoad, cacheVars, ThreadInv, HoldsSnapshot, CachedPC
<1>2. PICK selected \in SUBSET Item :
        /\ items' = [items EXCEPT ![t] = selected]
        /\ Load(t, selected)
  BY DEF RetrieveAndLoad
<1>3. BoundariesOf(selected) \subseteq Object
  BY BoundariesType
<1>4. /\ pc' = [pc EXCEPT ![t] = "final"]
      /\ since' = [since EXCEPT ![t] = granted[PrincipalOf[req[t]]]]
      /\ left' = [left EXCEPT ![t] = BoundariesOf(selected)]
      /\ allowed' = [allowed EXCEPT ![t] = {}]
  BY <1>2 DEF RetrieveAndLoad, Load, Goto
<1>5. ThreadTyped'
  BY <1>1, <1>2, <1>3, <1>4 DEF ThreadTyped, QueryPC
<1>6. /\ pc'[t] = "final" /\ allowed'[t] = {} /\ hit'[t] = NoEntry
      /\ since'[t] = granted[PrincipalOf[req[t]]]
  BY <1>1, <1>4 DEF ThreadTyped
<1>7. InRole(t)' /\ HoldsSnapshot(t)' /\ Faithful(t)'
  BY <1>1, <1>6, NoEntryType DEF ThreadInv, InRole, HoldsSnapshot, Faithful, QueryPC, CachedPC
<1>8. CheckedSinceLoad(t)'
  BY <1>1, <1>6 DEF CheckedSinceLoad
<1>9. Private(t) /\ Answers(t)
  BY <1>1, <1>2, <1>4, <1>6 DEF Private, Answers, ThreadTyped
<1> QED
  BY <1>5, <1>7, <1>8, <1>9 DEF Good, ThreadInv

LEMMA FinalCheckGood ==
  ASSUME IInv, NEW t \in Querier, FinalCheck(t), UNCHANGED traversal
  PROVE  Good(t)
<1> DEFINE kept == {i \in items[t] : Boundaries[i] \subseteq allowed[t]}
           label == IF traversal THEN "select" ELSE "gate"
<1>1. /\ ThreadTyped /\ ThreadInv(t) /\ t \in Thread /\ t \notin Reader
      /\ traversal \in BOOLEAN /\ nextRevision \in Nat /\ pc[t] = "final"
      /\ UNCHANGED <<entries, nextRevision, granted, req, traversal>>
  BY Parts, QuerierIsThread DEF FinalCheck, CheckBatch, cacheVars
<1>2. CASE CheckBatch(t, FALSE, traversal)
  BY <1>1, <1>2, CheckGood
<1>3. CASE Return(t, {})
  BY <1>1, <1>3, ErrorGood
<1>4. CASE /\ items' = [items EXCEPT ![t] = kept]
           /\ Goto(t, label)
           /\ UNCHANGED <<hit, left, allowed, delivered, since>>
  <2>1. kept \in SUBSET Item /\ BoundariesOf(kept) \subseteq allowed[t]
    BY <1>1 DEF ThreadTyped, BoundariesOf
  <2>2. pc' = [pc EXCEPT ![t] = label] /\ label \in QueryPC \ CachedPC
    BY <1>4 DEF Goto, QueryPC, CachedPC
  <2>3. ThreadTyped'
    BY <1>1, <1>4, <2>1, <2>2 DEF ThreadTyped
  <2>4. pc'[t] = label /\ items'[t] = kept /\ hit'[t] = NoEntry
    BY <1>1, <1>4, <2>2 DEF ThreadTyped, ThreadInv, HoldsSnapshot, CachedPC
  <2>5. InRole(t)' /\ HoldsSnapshot(t)' /\ Faithful(t)'
    BY <1>1, <2>2, <2>4, NoEntryType DEF ThreadInv, InRole, HoldsSnapshot, Faithful
  <2>6. CheckedSinceLoad(t)'
    <3>1. req[t] \in Strict => BoundariesOf(kept) \subseteq since[t]
      BY <1>1, <2>1 DEF ThreadInv, CheckedSinceLoad
    <3> QED
      BY <1>1, <1>4, <2>4, <3>1 DEF CheckedSinceLoad, BoundariesOf
  <2>7. Private(t) /\ Answers(t)
    BY <1>1, <1>4, <2>2, <2>4 DEF Private, Answers, ThreadTyped
  <2> QED
    BY <2>3, <2>5, <2>6, <2>7 DEF Good, ThreadInv
<1> QED
  BY <1>2, <1>3, <1>4 DEF FinalCheck

LEMMA TraversalLookupGood ==
  ASSUME IInv, NEW t \in Querier, TraversalLookup(t), UNCHANGED traversal
  PROVE  Good(t)
<1> DEFINE k == KeyOf(t)
           e == Get(k)
           label == IF e = NoEntry THEN "gate" ELSE "cache"
<1>1. /\ ThreadTyped /\ ThreadInv(t) /\ t \in Thread /\ t \notin Reader
      /\ entries \in [Key -> Entry] /\ Stamped /\ nextRevision \in Nat
      /\ UNCHANGED <<entries, nextRevision, granted, req, items, delivered, since, traversal>>
      /\ pc[t] = "select" /\ k \in Key
  BY Parts, QuerierIsThread, KeyType DEF TraversalLookup, cacheVars, CacheInv
<1>2. /\ e \in Entry
      /\ e.revision <= nextRevision
      /\ e.revision = 0 <=> e = NoEntry
      /\ e.revision # 0 => e = entries[k]
  BY <1>1, NoEntryType DEF Get, Stamped
<1>3. BoundariesOf(e.items) \subseteq Object
  BY <1>2, BoundariesType DEF Entry
<1>4. /\ hit' = [hit EXCEPT ![t] = e] /\ pc' = [pc EXCEPT ![t] = label]
      /\ left' = [left EXCEPT ![t] = BoundariesOf(e.items)]
      /\ allowed' = [allowed EXCEPT ![t] = {}]
  BY DEF TraversalLookup, Lookup, Goto
<1>5. hit'[t] = e /\ pc'[t] = label /\ KeyOf(t)' = k
  BY <1>1, <1>4 DEF ThreadTyped, KeyOf
<1> HIDE DEF k, e
<1>6. ThreadTyped'
  BY <1>1, <1>2, <1>3, <1>4 DEF ThreadTyped, QueryPC
<1>7. ThreadInv(t)'
  <2>1. InRole(t)'
    BY <1>1, <1>5 DEF InRole, QueryPC
  <2>2. HoldsSnapshot(t)'
    BY <1>1, <1>2, <1>5 DEF HoldsSnapshot, CachedPC
  <2>3. Faithful(t)'
    BY <1>1, <1>2, <1>5 DEF Faithful
  <2>4. CheckedSinceLoad(t)'
    BY <1>1, <1>5 DEF ThreadInv, CheckedSinceLoad, BoundariesOf
  <2> QED
    BY <2>1, <2>2, <2>3, <2>4 DEF ThreadInv
<1>8. Private(t) /\ Answers(t)
  BY <1>1, <1>4, <1>5 DEF Private, Answers, ThreadTyped
<1> QED
  BY <1>6, <1>7, <1>8 DEF Good

LEMMA GateGood ==
  ASSUME IInv, NEW t \in Querier, Gate(t), UNCHANGED traversal
  PROVE  Good(t)
<1>1. /\ ThreadTyped /\ ThreadInv(t) /\ t \in Thread /\ t \notin Reader /\ nextRevision \in Nat
      /\ pc[t] = "gate" /\ UNCHANGED <<nextRevision, granted, req>>
  BY Parts, QuerierIsThread DEF Gate, cacheVars
<1>2. CASE Return(t, {})
  BY <1>1, <1>2, ErrorGood
<1>3. CASE Continue(t, "put")
  <2>1. pc'[t] = "put" /\ UNCHANGED <<items, since>>
    BY <1>1, <1>3 DEF Continue, Goto, ThreadTyped
  <2>2. CheckedSinceLoad(t)'
    BY <1>1, <2>1 DEF ThreadInv, CheckedSinceLoad, BoundariesOf
  <2> QED
    BY <1>1, <1>3, <2>2, ContinueGood DEF Gate, QueryPC, CachedPC
<1> QED
  BY <1>2, <1>3 DEF Gate

\* Fresh evidence is returned in the step in which put accepts it.
LEMMA GenerateAndPutGood ==
  ASSUME IInv, NEW t \in Querier, GenerateAndPut(t), UNCHANGED traversal
  PROVE  Good(t)
<1>1. /\ ThreadTyped /\ ThreadInv(t) /\ t \in Thread /\ t \notin Reader /\ nextRevision \in Nat
      /\ pc[t] = "put" /\ UNCHANGED <<granted, req>> /\ nextRevision' = nextRevision + 1
      /\ Return(t, items[t])
  BY Parts, QuerierIsThread DEF GenerateAndPut, Put
<1>2. ResourceIDs(items[t]) \cap Revoked = {}
  BY AdmittedUnrevoked DEF GenerateAndPut, PutAccepts
<1>3. hit[t].revision = 0 /\ items[t] \in SUBSET Item
  BY <1>1, NoEntryType DEF ThreadTyped, ThreadInv, HoldsSnapshot, CachedPC
<1>4. req[t] \in Strict => BoundariesOf(items[t]) \subseteq since[t]
  BY <1>1 DEF ThreadInv, CheckedSinceLoad
<1> QED
  BY <1>1, <1>2, <1>3, <1>4, ReturnGood DEF Deliverable

LEMMA PutRefusedGood ==
  ASSUME IInv, NEW t \in Querier, PutRefused(t), UNCHANGED traversal
  PROVE  Good(t)
BY Parts, QuerierIsThread, ErrorGood DEF PutRefused, cacheVars

LEMMA QueryStepGood ==
  ASSUME IInv, NEW t \in Querier, QueryStep(t), UNCHANGED traversal
  PROVE  Good(t)
BY CacheCheckGood, RevalidationFailsGood, CacheCheckedGood, CacheReloadGood,
   ReturnCachedGood, SnapshotReplacedGood, MissGood, PreRankGood, RetrieveAndLoadGood,
   FinalCheckGood, TraversalLookupGood, GateGood, GenerateAndPutGood, PutRefusedGood
   DEF QueryStep

LEMMA FailGood ==
  ASSUME IInv, NEW t \in Thread, Fail(t), UNCHANGED traversal
  PROVE  Good(t)
BY Parts, ErrorGood DEF Fail, cacheVars

-----------------------------------------------------------------------------
\* The steps of a read

LEMMA ReaderIsThread ==
  ASSUME NEW t \in Reader
  PROVE  t \in Thread /\ t \notin Querier
BY AuthorizedQueryAssumption DEF Thread

LEMMA BeginReadGood ==
  ASSUME IInv, NEW t \in Reader, NEW a \in answered, BeginRead(t, a), UNCHANGED traversal
  PROVE  Good(t)
<1>1. /\ ThreadTyped /\ ThreadInv(t) /\ t \in Thread /\ t \notin Querier
      /\ nextRevision \in Nat /\ pc[t] = "idle"
      /\ UNCHANGED <<entries, nextRevision, granted, traversal>>
      /\ a.request \in Request /\ a.items \in SUBSET Item
  BY Parts, ReaderIsThread DEF BeginRead, cacheVars, Answer
<1>2. CASE Return(t, {}) /\ UNCHANGED req
  BY <1>1, <1>2, ErrorGood
<1>3. CASE /\ Goto(t, "first")
           /\ req' = [req EXCEPT ![t] = a.request]
           /\ items' = [items EXCEPT ![t] = a.items]
           /\ delivered' = [delivered EXCEPT ![t] = {}]
           /\ left' = [left EXCEPT ![t] = BoundariesOf(a.items)]
           /\ UNCHANGED <<hit, allowed, since>>
  <2>1. pc' = [pc EXCEPT ![t] = "first"]
    BY <1>3 DEF Goto
  <2>2. ThreadTyped'
    BY <1>1, <1>3, <2>1, BoundariesType DEF ThreadTyped, ReadPC
  <2>3. pc'[t] = "first" /\ hit'[t] = NoEntry
    BY <1>1, <1>3, <2>1 DEF ThreadTyped, ThreadInv, HoldsSnapshot, CachedPC
  <2>4. ThreadInv(t)'
    BY <1>1, <2>3, NoEntryType
       DEF ThreadInv, InRole, HoldsSnapshot, Faithful, CheckedSinceLoad, ReadPC, CachedPC
  <2>5. Private(t) /\ Answers(t)
    BY <1>1, <1>3, <2>1 DEF Private, Answers, ThreadTyped
  <2> QED
    BY <2>2, <2>4, <2>5 DEF Good
<1> QED
  BY <1>2, <1>3 DEF BeginRead

LEMMA ReadCheckGood ==
  ASSUME IInv, NEW t \in Reader, ReadCheck(t), UNCHANGED traversal
  PROVE  Good(t)
<1> DEFINE label == IF pc[t] = "first" THEN "open" ELSE "regate"
<1>1. /\ ThreadTyped /\ ThreadInv(t) /\ t \in Thread /\ t \notin Querier
      /\ nextRevision \in Nat /\ pc[t] \in {"first", "second"}
      /\ UNCHANGED <<nextRevision, granted, req>>
  BY Parts, ReaderIsThread DEF ReadCheck, CheckBatch, cacheVars
<1>2. CASE CheckBatch(t, TRUE, FALSE)
  BY <1>1, <1>2, CheckGood
<1>3. CASE Return(t, {})
  BY <1>1, <1>3, ErrorGood
<1>4. CASE /\ BoundariesOf(items[t]) \subseteq allowed[t]
           /\ Continue(t, label)
           /\ UNCHANGED <<cacheVars, granted, req>>
  <2>1. pc'[t] = label /\ UNCHANGED <<items, allowed, since>>
    BY <1>1, <1>4 DEF Continue, Goto, ThreadTyped
  <2>2. CheckedSinceLoad(t)'
    BY <1>1, <1>4, <2>1 DEF ThreadInv, CheckedSinceLoad, BoundariesOf
  <2> QED
    BY <1>1, <1>4, <2>2, ContinueGood DEF ReadPC, CachedPC
<1> QED
  BY <1>2, <1>3, <1>4 DEF ReadCheck

LEMMA ReadLoadGood ==
  ASSUME IInv, NEW t \in Reader, ReadLoad(t), UNCHANGED traversal
  PROVE  Good(t)
<1>1. /\ ThreadTyped /\ ThreadInv(t) /\ t \in Thread /\ t \notin Querier
      /\ granted \in [Principal -> SUBSET Object] /\ PrincipalOf[req[t]] \in Principal
      /\ UNCHANGED <<entries, nextRevision, granted, req, items, hit, delivered, traversal>>
      /\ hit[t] = NoEntry
  BY Parts, ReaderIsThread, AuthorizedQueryAssumption
     DEF ThreadTyped, ReadLoad, cacheVars, ThreadInv, HoldsSnapshot, CachedPC
<1>2. BoundariesOf(items[t]) \subseteq Object
  BY <1>1, BoundariesType DEF ThreadTyped
<1>3. /\ pc' = [pc EXCEPT ![t] = "second"]
      /\ since' = [since EXCEPT ![t] = granted[PrincipalOf[req[t]]]]
      /\ left' = [left EXCEPT ![t] = BoundariesOf(items[t])]
      /\ allowed' = [allowed EXCEPT ![t] = {}]
  BY DEF ReadLoad, Load, Goto
<1>4. ThreadTyped'
  BY <1>1, <1>2, <1>3 DEF ThreadTyped, ReadPC
<1>5. /\ pc'[t] = "second" /\ allowed'[t] = {} /\ hit'[t] = NoEntry
      /\ since'[t] = granted[PrincipalOf[req[t]]]
  BY <1>1, <1>3 DEF ThreadTyped
<1>6. InRole(t)' /\ HoldsSnapshot(t)' /\ Faithful(t)'
  BY <1>1, <1>5, NoEntryType DEF ThreadInv, InRole, HoldsSnapshot, Faithful, ReadPC, CachedPC
<1>7. CheckedSinceLoad(t)'
  BY <1>1, <1>5 DEF CheckedSinceLoad
<1>8. Private(t) /\ Answers(t)
  BY <1>1, <1>3, <1>5 DEF Private, Answers, ThreadTyped
<1> QED
  BY <1>4, <1>6, <1>7, <1>8 DEF Good, ThreadInv

\* The gate is asked again in the step that returns.
LEMMA ReadGateGood ==
  ASSUME IInv, NEW t \in Reader, ReadGate(t), UNCHANGED traversal
  PROVE  Good(t)
<1>1. /\ ThreadTyped /\ ThreadInv(t) /\ t \in Thread /\ nextRevision \in Nat
      /\ pc[t] = "regate" /\ UNCHANGED <<nextRevision, granted, req>>
  BY Parts, ReaderIsThread DEF ReadGate, cacheVars
<1>2. CASE Return(t, {})
  BY <1>1, <1>2, ErrorGood
<1>3. CASE Admits(ResourceIDs(items[t])) /\ Return(t, items[t])
  <2>1. ResourceIDs(items[t]) \cap Revoked = {} /\ items[t] \in SUBSET Item
    BY <1>1, <1>3, AdmittedUnrevoked DEF ThreadTyped
  <2>2. BoundariesOf(items[t]) \subseteq since[t]
    BY <1>1 DEF ThreadInv, CheckedSinceLoad
  <2> QED
    BY <1>1, <1>3, <2>1, <2>2, ReturnGood DEF Deliverable
<1> QED
  BY <1>2, <1>3 DEF ReadGate

LEMMA ReadStepGood ==
  ASSUME IInv, NEW t \in Reader, ReadStep(t), UNCHANGED traversal
  PROVE  Good(t)
BY ReadCheckGood, ReadLoadGood, ReadGateGood DEF ReadStep


-----------------------------------------------------------------------------
\* All goroutines together

\* Whatever happens to the cache, a goroutine that does not move stays sound.
LEMMA StillInv ==
  ASSUME IInv, NEW u \in Thread, Revised,
         UNCHANGED <<granted, traversal>>,
         UNCHANGED <<pc[u], req[u], items[u], hit[u], allowed[u], since[u]>>
  PROVE  ThreadInv(u)'
<1>1. /\ ThreadTyped /\ ThreadInv(u) /\ nextRevision \in Nat /\ KeyOf(u) \in Key
      /\ entries \in [Key -> Entry] /\ hit[u].revision \in Nat
  BY Parts, KeyType DEF ThreadTyped, Entry
<1>2. KeyOf(u)' = KeyOf(u)
  BY DEF KeyOf
<1>3. InRole(u)' /\ CheckedSinceLoad(u)'
  BY <1>1 DEF ThreadInv, InRole, CheckedSinceLoad, BoundariesOf
<1>4. HoldsSnapshot(u)'
  BY <1>1 DEF ThreadInv, HoldsSnapshot, Revised
<1>5. Faithful(u)'
  <2>1. HoldsSnapshot(u) /\ Faithful(u)
    BY <1>1 DEF ThreadInv
  <2> QED
    BY <1>1, <1>2, <2>1, NoEntryType DEF HoldsSnapshot, Faithful, Revised
<1> QED
  BY <1>3, <1>4, <1>5 DEF ThreadInv

-----------------------------------------------------------------------------
\* The rest of the service

ServiceTyped ==
  /\ traversal \in Modes
  /\ granted \in [Principal -> SUBSET Object]
  /\ replica \in [Principal -> SUBSET Object]
  /\ answered \subseteq Answer
  /\ todo \in [Coordinator -> SUBSET Resource]
  /\ workload \in Workload
  /\ starts \in 0 .. workload.maxStarts
  /\ changes \in 0 .. workload.maxChanges


LEMMA ServiceParts ==
  ASSUME IInv
  PROVE  ServiceTyped /\ workload.maxStarts \in Nat /\ workload.maxChanges \in Nat
BY AuthorizedQueryAssumption DEF IInv, TypeOK, ServiceTyped

LEMMA TypeParts == TypeOK <=> CacheTypeOK /\ ThreadTyped /\ ServiceTyped
BY DEF TypeOK, ThreadTyped, ServiceTyped

LEMMA QueryServiceType ==
  ASSUME IInv, NEW t \in Querier, QueryStep(t), UNCHANGED <<traversal, workload>>
  PROVE  ServiceTyped'
<1>1. ServiceTyped /\ t \in Thread /\ ThreadTyped
  BY ServiceParts, Parts, QuerierIsThread
<1>2. /\ [request |-> req[t], items |-> items[t]] \in Answer
      /\ [request |-> req[t], items |-> hit[t].items] \in Answer
  BY <1>1 DEF ThreadTyped, Entry, Answer
<1>3. UNCHANGED <<granted, replica, todo, starts, changes>>
  BY DEF QueryStep, CacheCheck, RevalidationFails, CacheChecked, CacheReload, ReturnCached,
         SnapshotReplaced, Miss, PreRank, RetrieveAndLoad, FinalCheck, TraversalLookup,
         Gate, GenerateAndPut, PutRefused, CheckBatch
<1>4. \/ UNCHANGED answered
      \/ answered' = answered \cup {[request |-> req[t], items |-> items[t]]}
      \/ answered' = answered \cup {[request |-> req[t], items |-> hit[t].items]}
  BY DEF QueryStep, CacheCheck, RevalidationFails, CacheChecked, CacheReload, ReturnCached,
         SnapshotReplaced, Miss, PreRank, RetrieveAndLoad, FinalCheck, TraversalLookup,
         Gate, GenerateAndPut, PutRefused, CheckBatch
<1> QED
  BY <1>1, <1>2, <1>3, <1>4 DEF ServiceTyped

LEMMA BeginQueryServiceType ==
  ASSUME IInv, NEW t, NEW q, BeginQuery(t, q), UNCHANGED <<traversal, workload>>
  PROVE  ServiceTyped'
BY ServiceParts DEF ServiceTyped, BeginQuery

LEMMA BeginReadServiceType ==
  ASSUME IInv, NEW t, NEW a, BeginRead(t, a), UNCHANGED <<traversal, workload>>
  PROVE  ServiceTyped'
BY ServiceParts DEF ServiceTyped, BeginRead

LEMMA ReadServiceType ==
  ASSUME IInv, NEW t, ReadStep(t) \/ Fail(t), UNCHANGED <<traversal, workload>>
  PROVE  ServiceTyped'
BY ServiceParts DEF ServiceTyped, ReadStep, ReadCheck, ReadLoad, ReadGate, Fail, CheckBatch

\* Only put, deleteIfRevision and InvalidateResource touch the cache.
LEMMA QueryKeepsCache ==
  ASSUME NEW t, QueryStep(t), ~Miss(t), ~GenerateAndPut(t)
  PROVE  UNCHANGED cacheVars
BY DEF QueryStep, CacheCheck, RevalidationFails, CacheChecked, CacheReload, ReturnCached,
       SnapshotReplaced, PreRank, RetrieveAndLoad, FinalCheck, TraversalLookup,
       Gate, PutRefused, CheckBatch

LEMMA ReadKeepsCache ==
  ASSUME NEW t, ReadStep(t) \/ Fail(t)
  PROVE  UNCHANGED cacheVars
BY DEF ReadStep, ReadCheck, ReadLoad, ReadGate, Fail, CheckBatch

CacheSound == CacheTypeOK' /\ CacheInv' /\ Revised

LEMMA CacheKept ==
  ASSUME IInv, UNCHANGED cacheVars
  PROVE  CacheSound
<1>1. CacheTypeOK /\ CacheInv /\ nextRevision \in Nat
  BY Parts
<1>2. CacheTypeOK' /\ Stamped' /\ NoRevokedEntry'
  BY <1>1 DEF cacheVars, CacheTypeOK, TombstonesTypeOK, CacheInv, Stamped, NoRevokedEntry,
              Revoked, ResourceIDs
<1>3. WithinCapacity'
  BY <1>1 DEF cacheVars, CacheInv, WithinCapacity, Live
<1>4. Revised
  BY <1>1 DEF cacheVars, Revised
<1> QED
  BY <1>2, <1>3, <1>4 DEF CacheSound, CacheInv

LEMMA QueryCacheSound ==
  ASSUME IInv, NEW t \in Querier, QueryStep(t)
  PROVE  CacheSound /\ Revoked' = Revoked
<1>1. /\ CacheTypeOK /\ CacheInv /\ KeyOf(t) \in Key /\ items[t] \in SUBSET Item
  BY Parts, KeyType, QuerierIsThread DEF ThreadTyped
<1>2. CASE GenerateAndPut(t)
  BY <1>1, <1>2, PutStep DEF GenerateAndPut, CacheSound, Put, tombstoneVars, Revoked
<1>3. CASE Miss(t)
  BY <1>1, <1>3, DeleteStep DEF Miss, CacheSound, DeleteIfRevision, Revoked
<1>4. CASE ~GenerateAndPut(t) /\ ~Miss(t)
  BY <1>4, QueryKeepsCache, CacheKept DEF cacheVars, Revoked
<1> QED
  BY <1>2, <1>3, <1>4

-----------------------------------------------------------------------------
\* The steps of Next

Advances ==
  /\ IInv'
  /\ \/ \E t \in Thread : Good(t) /\ Revoked' = Revoked
     \/ UNCHANGED <<pc, delivered>> /\ Revoked \subseteq Revoked'

LEMMA IInvParts ==
  IInv' <=> /\ CacheTypeOK' /\ CacheInv' /\ ThreadTyped' /\ ServiceTyped'
            /\ \A u \in Thread : ThreadInv(u)'
<1>1. TypeOK' <=> CacheTypeOK' /\ ThreadTyped' /\ ServiceTyped'
  BY DEF TypeOK, ThreadTyped, ServiceTyped
<1> QED
  BY <1>1 DEF IInv

LEMMA ThreadAdvances ==
  ASSUME IInv, NEW t \in Thread, Good(t), CacheSound, ServiceTyped', Revoked' = Revoked
  PROVE  Advances
<1>1. ASSUME NEW u \in Thread PROVE ThreadInv(u)'
  <2>1. CASE u = t
    BY <2>1 DEF Good
  <2>2. CASE u # t
    BY <2>2, StillInv DEF Good, Private, CacheSound
  <2> QED
    BY <2>1, <2>2
<1>2. IInv'
  BY <1>1, IInvParts DEF Good, CacheSound
<1> QED
  BY <1>2 DEF Advances

\* Steps of others leave every goroutine where it is.
LEMMA OthersAdvance ==
  ASSUME IInv, UNCHANGED <<threadVars, granted, since, traversal>>,
         CacheSound, ServiceTyped', Revoked \subseteq Revoked'
  PROVE  Advances
<1>1. /\ ThreadTyped
      /\ UNCHANGED <<pc, req, items, hit, left, allowed, delivered>>
  BY Parts DEF threadVars
<1>2. ThreadTyped'
  BY <1>1 DEF ThreadTyped
<1>3. ASSUME NEW u \in Thread PROVE ThreadInv(u)'
  BY <1>1, StillInv DEF CacheSound
<1>4. IInv'
  BY <1>2, <1>3, IInvParts DEF CacheSound
<1> QED
  BY <1>1, <1>4 DEF Advances

LEMMA QueryAdvances ==
  ASSUME IInv, NEW t \in Querier, UNCHANGED <<traversal, workload>>,
         QueryStep(t) \/ Fail(t) \/ \E q \in Request : BeginQuery(t, q)
  PROVE  Advances
<1>1. t \in Thread
  BY QuerierIsThread
<1>2. CASE QueryStep(t)
  BY <1>1, <1>2, QueryStepGood, QueryCacheSound, QueryServiceType, ThreadAdvances
<1>3. CASE Fail(t)
  <2>1. Revoked' = Revoked
    BY <1>3, ReadKeepsCache DEF cacheVars, Revoked
  <2> QED
    BY <1>1, <1>3, <2>1, FailGood, ReadKeepsCache, CacheKept, ReadServiceType, ThreadAdvances
<1>4. ASSUME NEW q \in Request, BeginQuery(t, q) PROVE Advances
  <2>1. UNCHANGED cacheVars /\ Revoked' = Revoked
    BY <1>4 DEF BeginQuery, cacheVars, Revoked
  <2> QED
    BY <1>1, <1>4, <2>1, BeginQueryGood, CacheKept, BeginQueryServiceType, ThreadAdvances
<1> QED
  BY <1>2, <1>3, <1>4

LEMMA ReadAdvances ==
  ASSUME IInv, NEW t \in Reader, UNCHANGED <<traversal, workload>>,
         ReadStep(t) \/ Fail(t) \/ \E a \in answered : BeginRead(t, a)
  PROVE  Advances
<1>1. t \in Thread
  BY ReaderIsThread
<1>2. CASE ReadStep(t) \/ Fail(t)
  <2>1. UNCHANGED cacheVars /\ Revoked' = Revoked
    BY <1>2, ReadKeepsCache DEF cacheVars, Revoked
  <2> QED
    BY <1>1, <1>2, <2>1, ReadStepGood, FailGood, CacheKept, ReadServiceType, ThreadAdvances
<1>3. ASSUME NEW a \in answered, BeginRead(t, a) PROVE Advances
  <2>1. UNCHANGED cacheVars /\ Revoked' = Revoked
    BY <1>3 DEF BeginRead, cacheVars, Revoked
  <2> QED
    BY <1>1, <1>3, <2>1, BeginReadGood, CacheKept, BeginReadServiceType, ThreadAdvances
<1> QED
  BY <1>2, <1>3

\* A new relationship counts for every goroutine that works for its principal.
LEMMA ChangeAdvances ==
  ASSUME IInv, NEW p \in Principal, NEW r \in Object, Change(p, r),
         UNCHANGED <<traversal, workload>>
  PROVE  Advances
<1>1. /\ ThreadTyped /\ ServiceTyped /\ workload.maxChanges \in Nat /\ nextRevision \in Nat
      /\ UNCHANGED <<cacheVars, replica, threadVars, answered, todo, starts>>
      /\ changes < workload.maxChanges /\ changes' = changes + 1
  BY Parts, ServiceParts DEF Change
<1>2. UNCHANGED <<entries, nextRevision, pc, req, items, hit, left, allowed, delivered>>
  BY <1>1 DEF cacheVars, threadVars
<1>3. granted' = [granted EXCEPT ![p] = granted'[p]] /\ granted'[p] \in SUBSET Object
  BY <1>1 DEF Change, ServiceTyped
<1>4. ServiceTyped'
  BY <1>1, <1>3 DEF ServiceTyped
<1>5. since' \in [Thread -> SUBSET Object]
  BY <1>1 DEF Change, ThreadTyped
<1>6. ThreadTyped'
  BY <1>1, <1>2, <1>5 DEF ThreadTyped
<1>7. ASSUME NEW u \in Thread PROVE ThreadInv(u)'
  <2>1. ThreadInv(u) /\ PrincipalOf[req[u]] \in Principal
    BY <1>1, Parts, AuthorizedQueryAssumption DEF ThreadTyped
  <2>2. InRole(u)' /\ HoldsSnapshot(u)' /\ Faithful(u)'
    BY <1>1, <1>2, <2>1 DEF ThreadInv, InRole, HoldsSnapshot, Faithful, KeyOf
  <2>3. since[u] \subseteq since'[u]
    BY <1>1 DEF Change, ThreadTyped
  <2>4. granted[PrincipalOf[req[u]]] \subseteq since[u] /\ pc[u] # "idle"
          => granted'[PrincipalOf[req[u]]] \subseteq since'[u]
    BY <1>1, <2>1 DEF Change, ServiceTyped, ThreadTyped
  <2>5. CheckedSinceLoad(u)'
    BY <1>2, <2>1, <2>3, <2>4 DEF ThreadInv, CheckedSinceLoad, BoundariesOf
  <2> QED
    BY <2>2, <2>5 DEF ThreadInv
<1>8. CacheSound /\ Revoked' = Revoked
  BY <1>1, CacheKept DEF cacheVars, Revoked
<1> QED
  BY <1>2, <1>4, <1>6, <1>7, <1>8, IInvParts DEF Advances, CacheSound

LEMMA ExternalAdvances ==
  ASSUME IInv, NEW p \in Principal, External(p), UNCHANGED <<traversal, workload>>
  PROVE  Advances
<1>1. CASE CatchUp(p)
  <2>1. ServiceTyped'
    BY <1>1, ServiceParts DEF ServiceTyped, CatchUp
  <2>2. CacheSound /\ Revoked \subseteq Revoked'
    BY <1>1, CacheKept DEF CatchUp, cacheVars, Revoked
  <2> QED
    BY <1>1, <2>1, <2>2, OthersAdvance DEF CatchUp
<1> QED
  BY <1>1, ChangeAdvances DEF External

\* A tombstone only ever adds to what is revoked.
LEMMA ApplyAdvances ==
  ASSUME IInv, NEW c \in Coordinator, ApplyOne(c), UNCHANGED <<traversal, workload>>
  PROVE  Advances
<1>1. ServiceTyped /\ CacheTypeOK /\ CacheInv
  BY Parts, ServiceParts
<1>2. PICK r \in todo[c] : InvalidateResource(r) /\ todo' = [todo EXCEPT ![c] = @ \ {r}]
  BY DEF ApplyOne
<1>3. r \in Resource
  BY <1>1, <1>2 DEF ServiceTyped
<1>4. ServiceTyped'
  BY <1>1, <1>2 DEF ServiceTyped, ApplyOne
<1>5. CacheSound
  BY <1>1, <1>2, <1>3, InvalidateStep DEF CacheSound
<1>6. Revoked \subseteq Revoked'
  BY <1>1, <1>2 DEF InvalidateResource, Tombstone, Revoked, CacheTypeOK, TombstonesTypeOK
<1> QED
  BY <1>4, <1>5, <1>6, OthersAdvance DEF ApplyOne

LEMMA BeginApplyAdvances ==
  ASSUME IInv, NEW c \in Coordinator, NEW a \in answered, BeginApply(c, a),
         UNCHANGED <<traversal, workload>>
  PROVE  Advances
<1>1. ServiceTyped /\ a.items \in SUBSET Item
  BY ServiceParts DEF ServiceTyped, Answer
<1>2. PICK requested \in SUBSET ResourceIDs(a.items) : todo' = [todo EXCEPT ![c] = requested]
  BY DEF BeginApply
<1>3. requested \in SUBSET Resource
  BY <1>1, ResourceIDsType
<1>4. ServiceTyped'
  BY <1>1, <1>2, <1>3 DEF ServiceTyped, BeginApply
<1>5. CacheSound /\ Revoked \subseteq Revoked'
  BY CacheKept DEF BeginApply, cacheVars, Revoked
<1> QED
  BY <1>4, <1>5, OthersAdvance DEF BeginApply

LEMMA StutterAdvances ==
  ASSUME IInv, UNCHANGED vars
  PROVE  Advances
<1>1. /\ UNCHANGED <<cacheVars, traversal, workload, granted, replica, threadVars,
                     answered, todo, starts, changes, since>>
  BY DEF vars
<1>2. ServiceTyped'
  BY <1>1, ServiceParts DEF ServiceTyped
<1>3. CacheSound /\ Revoked \subseteq Revoked'
  BY <1>1, CacheKept DEF cacheVars, Revoked
<1> QED
  BY <1>1, <1>2, <1>3, OthersAdvance

LEMMA StepAdvances ==
  ASSUME IInv, [Next]_vars
  PROVE  Advances
BY StutterAdvances, ExternalAdvances, QueryAdvances, ReadAdvances, ApplyAdvances,
   BeginApplyAdvances DEF Next, AtRest

LEMMA InitInv == Init => IInv
<1> SUFFICES ASSUME Init PROVE IInv
  OBVIOUS
<1>1. (CHOOSE q \in Request : TRUE) \in Request
  BY QueryCacheAssumption
<1>2. CacheTypeOK
  BY NoEntryType DEF Init, CacheInit, TombstonesInit, CacheTypeOK, TombstonesTypeOK
<1>3. ThreadTyped
  BY <1>1, NoEntryType DEF Init, ThreadTyped
<1>4. ServiceTyped
  <2>1. workload.maxStarts \in Nat /\ workload.maxChanges \in Nat
    BY AuthorizedQueryAssumption DEF Init
  <2> QED
    BY <2>1 DEF Init, ServiceTyped
<1>5. Stamped
  BY NoEntryType DEF Init, CacheInit, Stamped
<1>6. NoRevokedEntry
  BY NoEntryType, NoResources DEF Init, CacheInit, NoRevokedEntry
<1>7. WithinCapacity
  <2>1. Live = {}
    BY NoEntryType DEF Init, CacheInit, Live
  <2> QED
    BY <2>1, FS_EmptySet, QueryCacheAssumption DEF WithinCapacity
<1>8. ASSUME NEW t \in Thread PROVE ThreadInv(t)
  BY NoEntryType
     DEF Init, CacheInit, ThreadInv, InRole, HoldsSnapshot, Faithful, CheckedSinceLoad, CachedPC
<1> QED
  BY <1>2, <1>3, <1>4, <1>5, <1>6, <1>7, <1>8, TypeParts DEF IInv, CacheInv

-----------------------------------------------------------------------------
(***************************************************************************)
(* The invariant holds of every behaviour.                                 *)
(***************************************************************************)
THEOREM ServiceInvariant == Spec => []IInv
<1>1. IInv /\ [Next]_vars => IInv'
  BY StepAdvances DEF Advances
<1> QED
  BY InitInv, <1>1, PTL DEF Spec

(***************************************************************************)
(* The types of the service's state (AuthorizedQuery.TypeOK).              *)
(***************************************************************************)
THEOREM TypeCorrect == Spec => []TypeOK
<1>1. IInv => TypeOK
  BY DEF IInv
<1> QED
  BY <1>1, ServiceInvariant, PTL

(***************************************************************************)
(* put and InvalidateResource agree: whatever order they run in, no result *)
(* in the cache depends on a revoked resource.                             *)
(***************************************************************************)
THEOREM NothingRevokedCached == Spec => []NoRevokedEntry
<1>1. IInv => NoRevokedEntry
  BY DEF IInv, CacheInv
<1> QED
  BY <1>1, ServiceInvariant, PTL

(***************************************************************************)
(* put evicts in time: the cache never exceeds its capacity.               *)
(***************************************************************************)
THEOREM CapacityKept == Spec => []WithinCapacity
<1>1. IInv => WithinCapacity
  BY DEF IInv, CacheInv
<1> QED
  BY <1>1, ServiceInvariant, PTL

(***************************************************************************)
(* containsRevision cannot be fooled: a snapshot whose revision is in the  *)
(* cache holds what the cache holds.                                       *)
(***************************************************************************)
THEOREM SnapshotsFaithful == Spec => []SnapshotFaithful
<1>1. IInv => SnapshotFaithful
  BY DEF IInv, ThreadInv, Faithful, SnapshotFaithful
<1> QED
  BY <1>1, ServiceInvariant, PTL

\* AuthorizedAfterLoad, of one step.
AnswerAuthorized ==
  \A t \in Thread :
    /\ delivered'[t] # {} /\ pc[t] # "idle" /\ pc'[t] = "idle"
    /\ t \in Reader \/ hit[t].revision # 0 \/ req[t] \in Strict
    => BoundariesOf(delivered'[t]) \subseteq since[t]

LEMMA StepAuthorized ==
  ASSUME IInv, [Next]_vars
  PROVE  AnswerAuthorized
<1> SUFFICES ASSUME NEW u \in Thread,
                    delivered'[u] # {}, pc[u] # "idle", pc'[u] = "idle",
                    u \in Reader \/ hit[u].revision # 0 \/ req[u] \in Strict
             PROVE  BoundariesOf(delivered'[u]) \subseteq since[u]
  BY DEF AnswerAuthorized, BoundariesOf
<1>1. PICK t \in Thread : Good(t)
  BY StepAdvances DEF Advances
<1>2. u = t
  BY <1>1 DEF Good, Private
<1>3. PICK evidence \in SUBSET Item :
        /\ delivered' = [delivered EXCEPT ![t] = evidence]
        /\ evidence = {} \/ Deliverable(t, evidence)
  BY <1>1, <1>2 DEF Good, Answers
<1>4. delivered'[t] = evidence
  BY <1>3, Parts DEF ThreadTyped
<1> QED
  BY <1>2, <1>3, <1>4 DEF Deliverable

(***************************************************************************)
(* An answer that is cached, reopened or asked for at higher consistency   *)
(* was fully authorized after its content was loaded.                      *)
(***************************************************************************)
THEOREM AnswersAuthorized == Spec => AuthorizedAfterLoad
<1>1. IInv /\ [Next]_vars => AnswerAuthorized
  BY StepAuthorized
<1>2. IInv /\ [Next]_vars => [AnswerAuthorized]_vars
  BY <1>1
<1> QED
  BY <1>2, ServiceInvariant, PTL DEF Spec, AuthorizedAfterLoad, AnswerAuthorized

\* The first state and the steps, as those of ProtectedAnswers.
LEMMA InitPromise == Init => Promise!Init
BY DEF Init, CacheInit, TombstonesInit, Revoked, Promise!Init

LEMMA StepPromise ==
  ASSUME IInv, [Next]_vars
  PROVE  [Promise!Next]_<<Revoked, delivered>>
<1>1. CASE \E t \in Thread : Good(t) /\ Revoked' = Revoked
  <2>1. PICK t \in Thread : Good(t) /\ Revoked' = Revoked
    BY <1>1
  <2>2. CASE UNCHANGED delivered
    BY <2>1, <2>2
  <2>3. ASSUME NEW evidence \in SUBSET Item,
               delivered' = [delivered EXCEPT ![t] = evidence],
               evidence = {} \/ Deliverable(t, evidence)
        PROVE  Promise!Respond(t)
    <3>1. (UNION {Ids[i] : i \in evidence}) \cap Revoked = {}
      BY <2>3 DEF Deliverable, ResourceIDs
    <3> QED
      BY <2>1, <2>3, <3>1 DEF Promise!Respond
  <2> QED
    BY <2>1, <2>2, <2>3 DEF Good, Answers, Promise!Next
<1>2. CASE UNCHANGED <<pc, delivered>> /\ Revoked \subseteq Revoked'
  <2>1. Revoked' \in SUBSET Resource
    BY StepAdvances, IInvParts
       DEF Advances, CacheTypeOK, TombstonesTypeOK, Revoked
  <2> QED
    BY <1>2, <2>1 DEF Promise!Next, Promise!Revoke
<1> QED
  BY <1>1, <1>2, StepAdvances DEF Advances

(***************************************************************************)
(* The service keeps the promise of module ProtectedAnswers: each step of  *)
(* a goroutine is an answer from unrevoked evidence or no step at all, and *)
(* the coordinator's steps only add to what is revoked.                    *)
(***************************************************************************)
THEOREM PromiseKept == Spec => KeepsPromise
<1>1. IInv /\ [Next]_vars => [Promise!Next]_<<Revoked, delivered>>
  BY StepPromise
<1> QED
  BY InitPromise, <1>1, ServiceInvariant, PTL DEF Spec, KeepsPromise, Promise!Spec

=============================================================================
