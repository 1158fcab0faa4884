------------------------------ MODULE PlanCache ------------------------------
(****************************************************************************)
(* The query plan cache (query_plan/cache.rs).  All of it is behind one     *)
(* RwLock, so every call is one step.  The "LRU list" is a head and a tail  *)
(* key without links.  A plan is what its entry's strategy tells apart: the *)
(* schema version it was made under and whether its time to live is over.   *)
(* StatisticsBased, Never and Manual entries are never invalidated by a     *)
(* lookup and are one strategy, "Kept".  Statistics decide nothing.         *)
(****************************************************************************)
EXTENDS Integers, FiniteSets, Functions

CONSTANTS
  Query,          \* cache keys; the empty key is refused and left out
  NoQuery,        \* None
  PlanCacheSize,  \* config.max_size
  MaxSchema       \* bound: schema versions

ASSUME PlanCacheAssumption ==
  NoQuery \notin Query /\ PlanCacheSize \in Nat \ {0} /\ MaxSchema \in Nat

VARIABLES
  plans,        \* entries: key -> [strategy, schema, expired]
  head, tail,   \* lru_head, lru_tail
  enabled,      \* config.enabled
  schema,       \* config.schema_version
  lapsed        \* history: keys a lookup has removed and no one inserted since

planVars == <<plans, head, tail, enabled, schema, lapsed>>

Strategy == {"TimeBased", "SchemaBased", "Kept"}
Names == Query \cup {NoQuery}
PlansBut(S) == Restrict(plans, DOMAIN plans \ S)

PlanInit ==
  /\ plans = <<>> /\ head = NoQuery /\ tail = NoQuery
  /\ enabled = TRUE /\ schema = 0 /\ lapsed = {}

RemoveFromLru(ends, S) ==
  [n \in DOMAIN ends |-> IF ends[n] \in S THEN NoQuery ELSE ends[n]]

LruEnds == [head |-> head, tail |-> tail]
(* update_lru: nothing links the old head, so only a first element is tail. *)
UpdateLru(ends, q) ==
  LET rest == RemoveFromLru(ends, {q})
  IN  IF rest.head # NoQuery THEN [rest EXCEPT !.head = q] ELSE [head |-> q, tail |-> q]

Full(q) == Cardinality(DOMAIN plans) >= PlanCacheSize /\ q \notin DOMAIN plans

(* insert: what evict_lru removes is the tail, if there is one; the tail's  *)
(* key may have no entry any more, and then nothing makes room.             *)
Insert(q, s) ==
  LET room  == IF Full(q) THEN PlansBut({tail}) ELSE plans
      ends  == IF Full(q) THEN RemoveFromLru(LruEnds, {tail}) ELSE LruEnds
      after == UpdateLru(ends, q)
      entry == [strategy |-> s, schema |-> schema, expired |-> FALSE]
  IN  /\ enabled
      /\ Full(q) => tail # NoQuery          \* otherwise CacheFull
      /\ plans' = [k \in DOMAIN room \cup {q} |-> IF k = q THEN entry ELSE room[k]]
      /\ head' = after.head /\ tail' = after.tail
      /\ lapsed' = lapsed \ {q}
      /\ UNCHANGED <<enabled, schema>>

ShouldInvalidate(e) ==
  \/ e.strategy = "TimeBased" /\ e.expired
  \/ e.strategy = "SchemaBased" /\ e.schema < schema

(* get: an entry that should be invalidated is dropped, and the list is     *)
(* not told; any other moves to the front.                                  *)
GetPlan(q) ==
  /\ enabled /\ q \in DOMAIN plans
  /\ IF ShouldInvalidate(plans[q])
     THEN /\ plans' = PlansBut({q}) /\ lapsed' = lapsed \cup {q}
          /\ UNCHANGED <<head, tail>>
     ELSE LET after == UpdateLru(LruEnds, q)
          IN  head' = after.head /\ tail' = after.tail /\ UNCHANGED <<plans, lapsed>>
  /\ UNCHANGED <<enabled, schema>>

(* invalidate, invalidate_schema and, with every key, invalidate_all. *)
Removes(S) ==
  LET after == RemoveFromLru(LruEnds, S)
  IN  /\ plans' = PlansBut(S) /\ head' = after.head /\ tail' = after.tail
      /\ UNCHANGED <<enabled, lapsed>>

InvalidateOne(q) == q \in DOMAIN plans /\ Removes({q}) /\ UNCHANGED schema
InvalidateSchema(v) ==
  /\ Removes({q \in DOMAIN plans : plans[q].strategy = "SchemaBased" /\ plans[q].schema < v})
  /\ schema' = v

(* clear() empties the list, dangling ends included. *)
InvalidateAll ==
  /\ plans' = <<>> /\ head' = NoQuery /\ tail' = NoQuery
  /\ UNCHANGED <<enabled, schema, lapsed>>

(* update_config, of the fields that matter here; the size is kept. *)
UpdateConfig(on, v) ==
  /\ enabled' = on /\ schema' = v
  /\ UNCHANGED <<plans, head, tail, lapsed>>

Expires(q) ==
  /\ q \in DOMAIN plans /\ plans[q].strategy = "TimeBased" /\ ~plans[q].expired
  /\ plans' = [plans EXCEPT ![q].expired = TRUE]
  /\ UNCHANGED <<head, tail, enabled, schema, lapsed>>

PlanNext ==
  \/ \E q \in Query : \/ GetPlan(q) \/ InvalidateOne(q) \/ Expires(q)
                      \/ \E s \in Strategy : Insert(q, s)
  \/ \E v \in 0 .. MaxSchema : InvalidateSchema(v) \/ \E on \in BOOLEAN : UpdateConfig(on, v)
  \/ InvalidateAll

PlanSpec == PlanInit /\ [][PlanNext]_planVars

------------------------------------------------------------------------------
PlanTypeOK ==
  /\ DOMAIN plans \subseteq Query
  /\ \A q \in DOMAIN plans : plans[q].strategy \in Strategy /\ plans[q].schema \in 0 .. MaxSchema
  /\ head \in Names /\ tail \in Names
  /\ enabled \in BOOLEAN /\ schema \in 0 .. MaxSchema /\ lapsed \subseteq Query

(* An end of the list without an entry is one that a lookup invalidated:    *)
(* eviction and the other invalidations leave none behind.                  *)
DanglingEnds == \A q \in {head, tail} \ {NoQuery} : q \in DOMAIN plans \/ q \in lapsed

(* An eviction that finds a dangling tail makes no room, so the cache can   *)
(* exceed its size; by one entry at most, however often that happens.       *)
OvershootByOne == Cardinality(DOMAIN plans) <= PlanCacheSize + 1

==============================================================================
