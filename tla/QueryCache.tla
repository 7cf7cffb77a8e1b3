----------------------------- MODULE QueryCache -----------------------------
(***************************************************************************)
(* authorized.QueryCache: a bounded table of complete query results, each  *)
(* stamped with a revision, that permanent tombstones keep free of revoked *)
(* resources.  Every operation holds the cache's mutex from its first read *)
(* to its last write, so each is one step.  The module has no Next: its    *)
(* callers (module AuthorizedQuery) decide when the operations happen.     *)
(***************************************************************************)
EXTENDS Tombstones

CONSTANTS
  Request,     \* what a query asks, for whom, and at which consistency
  Item,        \* evidence items a result may hold
  Ids,         \* Ids[i]: every resource id item i depends on
  Capacity     \* QueryCache.capacity, in complete results

ASSUME QueryCacheAssumption ==
  /\ IsFiniteSet(Request) /\ Request # {}
  /\ IsFiniteSet(Item)
  /\ Ids \in [Item -> SUBSET Resource]
  /\ Capacity \in Nat \ {0}

VARIABLES
  entries,       \* QueryCache.entries
  nextRevision   \* QueryCache.nextRevision

cacheVars == <<invalidated, disabled, entries, nextRevision>>

\* newQueryCacheKey: without traversal the path digest is the empty one.
Key == Request \X SUBSET Item

(***************************************************************************)
(* A snapshot of an entry.  Revisions start at 1, so revision 0 stands for *)
(* "not found".                                                            *)
(***************************************************************************)
Entry == [revision : Nat, items : SUBSET Item]
NoEntry == [revision |-> 0, items |-> {}]

\* queryResultResourceIDs: the ids a result with these items is indexed by.
ResourceIDs(items) == UNION {Ids[i] : i \in items}

Live == {k \in Key : entries[k].revision # 0}

CacheTypeOK ==
  /\ TombstonesTypeOK
  /\ entries \in [Key -> Entry]
  /\ nextRevision \in Nat

CacheInit ==
  /\ TombstonesInit
  /\ entries = [k \in Key |-> NoEntry]
  /\ nextRevision = 0

\* get: a disabled cache answers "not found".
Get(k) == IF disabled THEN NoEntry ELSE entries[k]

ContainsRevision(k, revision) ==
  /\ ~disabled
  /\ entries[k].revision = revision

\* evictOldestLocked, which put calls before it adds a key to a full cache.
Oldest == CHOOSE k \in Live : \A l \in Live : entries[k].revision <= entries[l].revision

\* Faulty variant: evicts only when the cache is already over its capacity.
EvictedLate(k) ==
  IF k \notin Live /\ Cardinality(Live) > Capacity
  THEN [entries EXCEPT ![Oldest] = NoEntry]
  ELSE entries

Evicted(k) ==
  IF k \notin Live /\ Cardinality(Live) >= Capacity
  THEN [entries EXCEPT ![Oldest] = NoEntry]
  ELSE entries

\* put, when it accepts: when it refuses it changes nothing.
PutAccepts(items) == Admits(ResourceIDs(items))

\* Faulty variant: revisions are counted per key, and start again with it.
PutPerKey(k, items) ==
  /\ entries' = [Evicted(k) EXCEPT ![k] = [revision |-> entries[k].revision + 1, items |-> items]]
  /\ UNCHANGED <<tombstoneVars, nextRevision>>

Put(k, items) ==
  /\ nextRevision' = nextRevision + 1
  /\ entries' = [Evicted(k) EXCEPT ![k] = [revision |-> nextRevision + 1, items |-> items]]
  /\ UNCHANGED tombstoneVars

DeleteIfRevision(k, revision) ==
  /\ entries' = IF ContainsRevision(k, revision) THEN [entries EXCEPT ![k] = NoEntry] ELSE entries
  /\ UNCHANGED <<invalidated, disabled, nextRevision>>

\* Faulty variant: an overflow closes the cache and leaves its entries.
InvalidateKeepsEntries(r) ==
  /\ Tombstone(r)
  /\ entries' = [k \in Key |->
       IF ~disabled /\ r \in ResourceIDs(entries[k].items) /\ ~Overflows(r) THEN NoEntry ELSE entries[k]]
  /\ UNCHANGED nextRevision

\* InvalidateResource: an overflow clears every entry, a tombstone those it hits.
InvalidateResource(r) ==
  /\ Tombstone(r)
  /\ entries' = [k \in Key |->
       IF ~disabled /\ (Overflows(r) \/ r \in ResourceIDs(entries[k].items))
       THEN NoEntry
       ELSE entries[k]]
  /\ UNCHANGED nextRevision

-----------------------------------------------------------------------------
(***************************************************************************)
(* No result in the cache depends on a revoked resource, and a disabled    *)
(* cache is empty: put and InvalidateResource must agree on the index      *)
(* (queryResultResourceIDs), whatever order they run in.                   *)
(***************************************************************************)
NoRevokedEntry ==
  \A k \in Key : ResourceIDs(entries[k].items) \cap Revoked = {}

(***************************************************************************)
(* The cache never holds more complete results than its capacity.          *)
(***************************************************************************)
WithinCapacity == Cardinality(Live) <= Capacity

=============================================================================
