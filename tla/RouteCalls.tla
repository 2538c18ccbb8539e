----------------------------- MODULE RouteCalls -----------------------------
(***************************************************************************)
(* Calls of the routing library, one at a time and with every argument a   *)
(* caller can pass: `shard_for_region' with any index and counts, and      *)
(* `route_shard' with any scope, region name, region list and shard count. *)
(* The properties compare the answer with a definition of the bands that   *)
(* lists the shards of a region and counts into that list.                 *)
(***************************************************************************)
EXTENDS Routing, FiniteSets

CONSTANTS
  RegionName,   \* what a client may send as its region
  RegionLists   \* the cluster region lists, in topology order

ASSUME RegionNameAssumption == RegionName \subseteq RegionString(STRING)
ASSUME RegionListsAssumption == \A rs \in RegionLists : IsRegionList(rs)

VARIABLE call   \* the call that has returned or panicked, if any

Idle == [fn |-> "none"]

Init == call = Idle

\* shard_for_region(ri, region_count, key, shard_count)
CallShardForRegion ==
  \E ri, rc, n \in Word, k \in Key :
    LET panics == shard_for_region_panics(rc, n)
    IN  call' = [fn |-> "shard_for_region", ri |-> ri, rc |-> rc, key |-> k, n |-> n,
                 panicked |-> panics,
                 shard |-> IF panics THEN 0 ELSE shard_for_region(ri, rc, k, n)]

\* route_shard(scope, key, region, regions, shard_count)
CallRouteShard ==
  \E scope \in KeyScope, k \in Key, r \in RegionName, rs \in RegionLists, n \in Word :
    LET panics == route_shard_panics(scope, rs, n)
    IN  call' = [fn |-> "route_shard", scope |-> scope, key |-> k, region |-> r,
                 regions |-> rs, n |-> n, panicked |-> panics,
                 shard |-> IF panics THEN 0 ELSE route_shard(scope, k, r, rs, n)]

\* The caller consumes the answer.
Return == call' = Idle

Next ==
  \/ call = Idle /\ CallShardForRegion
  \/ call = Idle /\ CallRouteShard
  \/ call # Idle /\ Return

Spec == Init /\ [][Next]_call

-----------------------------------------------------------------------------
\* Reference definitions.

ShardsOfRegion(r, rc, n) == {s \in 0 .. n - 1 : OwnedBy(s, r, rc, n)}

\* The i-th smallest (from 0) member of a set of shards.
Nth(S, i) == CHOOSE s \in S : Cardinality({t \in S : t < s}) = i

RefShardForRegion(ri, rc, k, n) ==
  LET mine == ShardsOfRegion(IF ri < rc THEN ri ELSE rc - 1, rc, n)
  IN  Nth(mine, fnv1a[k] % Cardinality(mine))

Returned(fn) == call.fn = fn /\ ~call.panicked

\* shard_for_region answers with the shard the reference deals to that region:
\* whatever the word width, no product, sum or difference of the code wraps into
\* another region's band or out of the cluster (lib.rs shard_for_region).
BandsMatchReference ==
  Returned("shard_for_region") =>
    call.shard = RefShardForRegion(call.ri, call.rc, call.key, call.n)

\* "Routing is total": the only panic of the entry point is a cluster without
\* shards; no region name, region list or clamped index can take a request path down.
RouteIsTotal ==
  call.fn = "route_shard" => (call.panicked <=> call.n = 0)

\* Every shard the entry point names exists, and a name in other letters or with
\* white space around it is the same region: the answer is that of the first list
\* entry with this name, and of the primary region when there is none.
RouteResolvesRegion ==
  Returned("route_shard") =>
    /\ call.shard \in 0 .. call.n - 1
    /\ (call.scope = "Regional" /\ call.regions # <<>> /\ Len(call.regions) <= call.n) =>
         LET rc    == Len(call.regions)
             named == {i \in 1 .. rc : /\ call.regions[i].name = call.region.name
                                       /\ ~call.regions[i].padded}
             ri    == IF named = {} THEN 0
                      ELSE CHOOSE i \in 0 .. rc - 1 :
                             i + 1 \in named /\ \A j \in named : i + 1 <= j
         IN  OwnedBy(call.shard, ri, rc, call.n)
=============================================================================
