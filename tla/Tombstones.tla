----------------------------- MODULE Tombstones -----------------------------
(***************************************************************************)
(* The revocation half of authorized.QueryCache: the set of resource ids   *)
(* that were invalidated, and the fail-closed state the cache enters when  *)
(* that set is full.  It is a module of its own because the query service  *)
(* (module AuthorizedQuery) and the authorization revision state of the    *)
(* permissioned application (module PermissionedRevision) share it.        *)
(***************************************************************************)
EXTENDS Naturals, FiniteSets

CONSTANTS
  Resource,       \* resource ids: protocol.ResourceID
  MaxTombstones   \* maxQueryCacheCapacity, the bound on tombstones

ASSUME TombstonesAssumption ==
  /\ IsFiniteSet(Resource)
  /\ MaxTombstones \in Nat \ {0}

VARIABLES
  invalidated,    \* QueryCache.invalidated
  disabled        \* QueryCache.disabled

tombstoneVars == <<invalidated, disabled>>

TombstonesTypeOK ==
  /\ invalidated \subseteq Resource
  /\ disabled \in BOOLEAN

TombstonesInit ==
  /\ invalidated = {}
  /\ disabled = FALSE

(***************************************************************************)
(* The negation of containsInvalidatedResource: a disabled cache reports   *)
(* every resource as invalidated.                                          *)
(***************************************************************************)
Admits(ids) ==
  /\ ~disabled
  /\ ids \cap invalidated = {}

\* A new tombstone does not fit: the cache forgets everything and closes.
Overflows(r) ==
  /\ r \notin invalidated
  /\ Cardinality(invalidated) >= MaxTombstones

(***************************************************************************)
(* What InvalidateResource does to the tombstones.  Once disabled it       *)
(* changes nothing and still reports success.                              *)
(***************************************************************************)
Tombstone(r) ==
  IF disabled \/ Overflows(r)
  THEN /\ disabled' = TRUE
       /\ invalidated' = {}
  ELSE /\ invalidated' = invalidated \cup {r}
       /\ UNCHANGED disabled

(***************************************************************************)
(* The resources that no answer may use again.  A disabled cache counts as *)
(* having revoked every resource, although its tombstones were cleared.    *)
(***************************************************************************)
Revoked == IF disabled THEN Resource ELSE invalidated

=============================================================================
