-------------------------- MODULE ConformanceProofs --------------------------
(***************************************************************************)
(* The call machine of the routing library is total and answers with a     *)
(* shard of the right region, for every word width, hash and region list;  *)
(* and the library and formal/model.py agree on every argument: unbounded  *)
(* integers and wrapping words give the same answers because none of the   *)
(* library's operations wraps (RoutingProofs).                             *)
(***************************************************************************)
EXTENDS Conformance, RoutingProofs, FiniteSetTheorems

-----------------------------------------------------------------------------
\* Counting into an interval.

LEMMA NthOfInterval ==
  ASSUME NEW a \in Int, NEW b \in Int, NEW i \in 0 .. b - a
  PROVE  Nth(a .. b, i) = a + i
<1>1. \A s \in a .. b : Cardinality({t \in a .. b : t < s}) = s - a
  <2> TAKE s \in a .. b
  <2> DEFINE T == {t \in a .. b : t < s}
             c == s - 1
  <2>1. T = a .. c
    OBVIOUS
  <2>2. c \in Int /\ s - a = IF a > c THEN 0 ELSE c - a + 1
    OBVIOUS
  <2> HIDE DEF T, c
  <2>3. Cardinality(a .. c) = IF a > c THEN 0 ELSE c - a + 1
    BY <2>2, FS_Interval
  <2>4. Cardinality(T) = s - a
    BY <2>1, <2>2, <2>3
  <2> QED
    BY <2>4 DEF T
<1>2. \A s \in a .. b : Cardinality({t \in a .. b : t < s}) = i <=> s = a + i
  BY <1>1
<1>3. a + i \in a .. b
  OBVIOUS
<1> QED
  BY <1>2, <1>3 DEF Nth

\* The reference deals from the band the code computes.
LEMMA BandsAgree ==
  ASSUME NEW ri \in Word, NEW rc \in Word, NEW n \in Word, rc > 0, rc <= n,
         NEW k \in Key
  PROVE  shard_for_region(ri, rc, k, n) = RefShardForRegion(ri, rc, k, n)
<1> DEFINE b    == band_base(ri, rc, n)
           z    == band_size(ri, rc, n)
           r    == IF ri < rc THEN ri ELSE rc - 1
           mine == ShardsOfRegion(r, rc, n)
<1>1. b \in Nat /\ z \in Nat /\ z > 0 /\ b + z <= n
  BY BandArithmetic
<1>2. clamped(ri, rc) = r
  BY ClampedIndex
<1>3. mine = b .. b + z - 1
  <2>1. n \in Nat
    BY WordSizeAssumption DEF Word
  <2>2. \A s \in Int : s \in b .. b + z - 1 <=> s \in 0 .. n - 1 /\ OwnedBy(s, r, rc, n)
    BY <1>2, BandIsOwned DEF Band
  <2>3. mine \subseteq Int
    BY <2>1 DEF ShardsOfRegion
  <2> HIDE DEF r, b, z
  <2> QED
    BY <2>1, <2>2, <2>3, <1>1 DEF ShardsOfRegion
<1>4. Cardinality(mine) = z
  <2> DEFINE c == b + z - 1
  <2> HIDE DEF r, b, z, mine
  <2>1. c \in Int /\ z = IF b > c THEN 0 ELSE c - b + 1
    BY <1>1
  <2>2. mine = b .. c
    BY <1>3
  <2> HIDE DEF c
  <2>3. Cardinality(b .. c) = IF b > c THEN 0 ELSE c - b + 1
    BY <1>1, <2>1, FS_Interval
  <2> QED
    BY <2>1, <2>2, <2>3
<1> DEFINE h == fnv1a[k] % z
<1>5. h \in 0 .. z - 1 /\ shard_for_region(ri, rc, k, n) = b + h
  BY ShardForRegionExact
<1> HIDE DEF r, b, z, mine, h
<1>6. Nth(mine, h) = b + h
  <2>1. h \in 0 .. (b + z - 1) - b
    BY <1>1, <1>5
  <2> QED
    BY <1>1, <1>3, <2>1, NthOfInterval
<1>7. RefShardForRegion(ri, rc, k, n) = Nth(mine, h)
  BY <1>4 DEF RefShardForRegion, r, mine, h
<1> QED
  BY <1>5, <1>6, <1>7

\* The arithmetic of the bands is that of the reference, for every word width.
THEOREM SpecBandsMatchReference == Spec => []BandsMatchReference
<1>1. Init => BandsMatchReference
  BY DEF Init, Idle, BandsMatchReference, Returned
<1>2. BandsMatchReference /\ [Next]_call => BandsMatchReference'
  <2> SUFFICES ASSUME BandsMatchReference, [Next]_call PROVE BandsMatchReference'
    OBVIOUS
  <2>1. CASE CallShardForRegion
    <3>1. PICK ri \in Word, rc \in Word, n \in Word, k \in Key :
            LET panics == shard_for_region_panics(rc, n)
            IN  call' = [fn |-> "shard_for_region", ri |-> ri, rc |-> rc, key |-> k, n |-> n,
                         panicked |-> panics,
                         shard |-> IF panics THEN 0 ELSE shard_for_region(ri, rc, k, n)]
      BY <2>1 DEF CallShardForRegion
    <3>2. CASE shard_for_region_panics(rc, n)
      BY <3>1, <3>2 DEF BandsMatchReference, Returned
    <3>3. CASE ~shard_for_region_panics(rc, n)
      <4>1. rc > 0 /\ rc <= n
        BY <3>3, WordSizeAssumption DEF shard_for_region_panics, Word
      <4> QED
        BY <3>1, <3>3, <4>1, BandsAgree DEF BandsMatchReference
    <3> QED
      BY <3>2, <3>3
  <2>2. CASE CallRouteShard
    BY <2>2 DEF CallRouteShard, BandsMatchReference, Returned
  <2>3. CASE Return
    BY <2>3 DEF Return, Idle, BandsMatchReference, Returned
  <2>4. CASE UNCHANGED call
    BY <2>4 DEF BandsMatchReference, Returned, RefShardForRegion
  <2> QED
    BY <2>1, <2>2, <2>3, <2>4 DEF Next
<1> QED
  BY <1>1, <1>2, PTL DEF Spec

-----------------------------------------------------------------------------
\* The call machine.

\* No request path panics while the cluster has a shard.
THEOREM SpecRouteIsTotal == Spec => []RouteIsTotal
<1>1. Init => RouteIsTotal
  BY DEF Init, Idle, RouteIsTotal
<1>2. RouteIsTotal /\ [Next]_call => RouteIsTotal'
  <2> SUFFICES ASSUME RouteIsTotal, [Next]_call PROVE RouteIsTotal'
    OBVIOUS
  <2>1. CASE CallShardForRegion
    BY <2>1 DEF CallShardForRegion, RouteIsTotal
  <2>2. CASE CallRouteShard
    BY <2>2, RouteShardTotal, RegionListsAssumption DEF CallRouteShard, RouteIsTotal
  <2>3. CASE Return
    BY <2>3 DEF Return, Idle, RouteIsTotal
  <2>4. CASE UNCHANGED call
    BY <2>4 DEF RouteIsTotal
  <2> QED
    BY <2>1, <2>2, <2>3, <2>4 DEF Next
<1> QED
  BY <1>1, <1>2, PTL DEF Spec

\* The reference names the same list entry as the code does.
LEMMA ReferenceIndex ==
  ASSUME NEW region \in RegionName, NEW rs \in RegionLists
  PROVE  LET rc    == Len(rs)
             named == {i \in 1 .. rc : rs[i].name = region.name /\ ~rs[i].padded}
         IN  region_index_or(region, rs, DEFAULT_REGION_INDEX) =
               IF named = {} THEN 0
               ELSE CHOOSE i \in 0 .. rc - 1 :
                      i + 1 \in named /\ \A j \in named : i + 1 <= j
<1> DEFINE rc    == Len(rs)
           named == {i \in 1 .. rc : rs[i].name = region.name /\ ~rs[i].padded}
           P(i)  == i + 1 \in named /\ \A j \in named : i + 1 <= j
           x     == region_index(region, rs)
<1>1. IsRegionList(rs) /\ rc \in Nat /\ DOMAIN rs = 1 .. rc
  BY RegionListsAssumption DEF IsRegionList
<1>2. \A i \in 1 .. rc : rs[i].padded \in BOOLEAN
  <2>1. \A i \in 1 .. rc : rs[i] \in RegionString(STRING)
    BY <1>1 DEF IsRegionList
  <2> QED
    BY <2>1 DEF RegionString
<1>3. trim(region).name = region.name /\ trim(region).padded = FALSE
  BY RegionNameAssumption DEF trim, RegionString
<1>4. region_matches(region, rs) = named
  BY <1>1, <1>2, <1>3 DEF region_matches, eq_ignore_ascii_case
<1>5. CASE named = {}
  BY <1>4, <1>5 DEF region_index_or, region_known, DEFAULT_REGION_INDEX
<1>6. CASE named # {}
  <2>1. region_known(region, rs)
    BY <1>4, <1>6 DEF region_known
  <2>2. x \in Word /\ x < rc /\ P(x)
    BY <2>1, <1>1, <1>4, RegionIndexIsFirst
  <2>3. x \in 0 .. rc - 1
    BY <2>2, <1>1, WordSizeAssumption DEF Word
  <2>4. \A i \in 0 .. rc - 1 : P(i) => i = x
    <3> TAKE i \in 0 .. rc - 1
    <3> HAVE P(i)
    <3>1. i + 1 <= x + 1 /\ x + 1 <= i + 1
      BY <2>2
    <3> HIDE DEF x
    <3> QED
      BY <3>1, <2>3
  <2>5. x = CHOOSE i \in 0 .. rc - 1 : P(i)
    <3> HIDE DEF x, P
    <3> QED
      BY <2>2, <2>3, <2>4
  <2> QED
    BY <2>1, <2>5, <1>6 DEF region_index_or
<1> QED
  BY <1>5, <1>6

\* Every answer of the entry point exists and belongs to the first list entry that
\* carries the request's region name, or to the primary region.
THEOREM SpecRouteResolvesRegion == Spec => []RouteResolvesRegion
<1>1. Init => RouteResolvesRegion
  BY DEF Init, Idle, RouteResolvesRegion, Returned
<1>2. RouteResolvesRegion /\ [Next]_call => RouteResolvesRegion'
  <2> SUFFICES ASSUME RouteResolvesRegion, [Next]_call PROVE RouteResolvesRegion'
    OBVIOUS
  <2>1. CASE CallShardForRegion
    BY <2>1 DEF CallShardForRegion, RouteResolvesRegion, Returned
  <2>2. CASE CallRouteShard
    <3>1. PICK scope \in KeyScope, k \in Key, r \in RegionName, rs \in RegionLists, n \in Word :
            LET panics == route_shard_panics(scope, rs, n)
            IN  call' = [fn |-> "route_shard", scope |-> scope, key |-> k, region |-> r,
                         regions |-> rs, n |-> n, panicked |-> panics,
                         shard |-> IF panics THEN 0 ELSE route_shard(scope, k, r, rs, n)]
      BY <2>2 DEF CallRouteShard
    <3>0. IsRegionList(rs)
      BY RegionListsAssumption
    <3>2. CASE n = 0
      BY <3>0, <3>1, <3>2, RouteShardTotal DEF RouteResolvesRegion, Returned
    <3>3. CASE n # 0
      <4>0. n > 0
        BY <3>3, WordSizeAssumption DEF Word
      <4> DEFINE ri == region_index_or(r, rs, DEFAULT_REGION_INDEX)
                 s  == route_shard(scope, k, r, rs, n)
      <4>1. /\ call'.scope = scope /\ call'.region = r /\ call'.regions = rs
            /\ call'.n = n /\ call'.shard = s
        BY <3>0, <3>1, <3>3, RouteShardTotal
      <4>2. s \in 0 .. n - 1
        BY <3>0, <4>0, RouteInRange
      <4>3. ASSUME scope = "Regional", rs # <<>>, Len(rs) <= n
            PROVE  OwnedBy(s, ri, Len(rs), n)
        BY <3>0, <4>3, RegionalRoute
      <4> HIDE DEF s
      <4> QED
        BY <4>1, <4>2, <4>3, ReferenceIndex DEF RouteResolvesRegion, Returned
    <3> QED
      BY <3>2, <3>3
  <2>3. CASE Return
    BY <2>3 DEF Return, Idle, RouteResolvesRegion, Returned
  <2>4. CASE UNCHANGED call
    BY <2>4 DEF RouteResolvesRegion, Returned
  <2> QED
    BY <2>1, <2>2, <2>3, <2>4 DEF Next
<1> QED
  BY <1>1, <1>2, PTL DEF Spec

-----------------------------------------------------------------------------
\* The two implementations, function by function.

LEMMA ModelShardFor ==
  ASSUME NEW k \in Key, NEW n \in Word
  PROVE  model_shard_for(k, n) =
           IF shard_for_panics(n) THEN ValueError ELSE Ok(shard_for(k, n))
BY WordSizeAssumption DEF model_shard_for, shard_for_panics, shard_for, Word

LEMMA ModelShardForRegion ==
  ASSUME NEW ri \in Word, NEW rc \in Word, NEW n \in Word, NEW k \in Key
  PROVE  model_shard_for_region(ri, rc, k, n) =
           IF shard_for_region_panics(rc, n) THEN ValueError
           ELSE Ok(shard_for_region(ri, rc, k, n))
<1>0. ri \in Nat /\ rc \in Nat /\ n \in Nat
  BY WordSizeAssumption DEF Word
<1>1. CASE shard_for_region_panics(rc, n)
  BY <1>0, <1>1 DEF shard_for_region_panics, model_shard_for_region
<1>2. CASE ~shard_for_region_panics(rc, n)
  <2> DEFINE m == Min2(ri, rc - 1)
  <2>1. rc > 0 /\ rc <= n
    BY <1>0, <1>2 DEF shard_for_region_panics
  <2>2. clamped(ri, rc) = m /\ m \in Nat
    BY <1>0, <2>1, ClampedIndex DEF Min2
  <2>3. /\ band_base(ri, rc, n) = m * (n \div rc)
        /\ band_size(ri, rc, n) = IF m = rc - 1 THEN n - m * (n \div rc) ELSE n \div rc
    BY <2>1, <2>2, BandArithmetic DEF band_width
  <2>4. band_size(ri, rc, n) = model_band(m, rc, n)
    BY <2>3 DEF model_band
  <2>5. shard_for_region(ri, rc, k, n)
          = m * (n \div rc) + (fnv1a[k] % model_band(m, rc, n))
    BY <2>1, <2>3, <2>4, ShardForRegionExact
  <2>6. ~(rc <= 0 \/ n < rc)
    BY <1>0, <2>1
  <2> QED
    BY <1>2, <2>5, <2>6 DEF model_shard_for_region
<1> QED
  BY <1>1, <1>2

\* `casefold' and `eq_ignore_ascii_case' compare the same letters.
LEMMA ModelRegionMatches ==
  ASSUME NEW region \in RegionName, NEW rs \in RegionLists
  PROVE  {i \in DOMAIN rs : casefold(rs[i]) = casefold(strip(region))}
           = region_matches(region, rs)
<1>1. region \in RegionString(STRING)
  BY RegionNameAssumption
<1>2. \A i \in DOMAIN rs : rs[i] \in RegionString(STRING)
  BY RegionListsAssumption DEF IsRegionList
<1>3. ASSUME NEW a \in RegionString(STRING)
      PROVE  casefold(a) = casefold(strip(region)) <=> eq_ignore_ascii_case(a, trim(region))
  BY <1>1 DEF RegionString, casefold, strip, trim, eq_ignore_ascii_case
<1> QED
  BY <1>2, <1>3 DEF region_matches

LEMMA ModelRegionIndex ==
  ASSUME NEW region \in RegionName, NEW rs \in RegionLists
  PROVE  model_region_index(region, rs) =
           IF region_known(region, rs) THEN {region_index(region, rs)} ELSE {}
<1> DEFINE M == region_matches(region, rs)
           first == {i \in M : \A j \in M : i <= j}
<1>0. IsRegionList(rs)
  BY RegionListsAssumption
<1>1. M \subseteq Nat
  BY <1>0 DEF IsRegionList, region_matches
<1>2. model_region_index(region, rs) = {i - 1 : i \in first}
  BY ModelRegionMatches DEF model_region_index
<1>3. CASE ~region_known(region, rs)
  BY <1>2, <1>3 DEF region_known
<1>4. CASE region_known(region, rs)
  <2> DEFINE x == region_index(region, rs)
  <2>1. x \in Nat /\ x + 1 \in M /\ \A j \in M : x + 1 <= j
    BY <1>0, <1>4, RegionIndexIsFirst, WordSizeAssumption DEF Word
  <2> HIDE DEF x, M
  <2>2. first = {x + 1}
    <3>1. x + 1 \in first
      BY <2>1
    <3>2. \A i \in first : i = x + 1
      BY <1>1, <2>1
    <3> HIDE DEF first
    <3> QED
      BY <3>1, <3>2
  <2>3. {i - 1 : i \in first} = {x}
    BY <2>1, <2>2
  <2> QED
    BY <1>2, <1>4, <2>3 DEF x
<1> QED
  BY <1>3, <1>4

LEMMA ModelRouteShard ==
  ASSUME NEW scope \in KeyScope, NEW k \in Key, NEW region \in RegionName,
         NEW rs \in RegionLists, NEW n \in Word
  PROVE  model_route_shard(scope, k, region, rs, n) =
           IF route_shard_panics(scope, rs, n) THEN ValueError
           ELSE Ok(route_shard(scope, k, region, rs, n))
<1> DEFINE found == model_region_index(region, rs)
           ri    == IF found = {} THEN DEFAULT_REGION_INDEX ELSE CHOOSE i \in found : TRUE
           rc    == Len(rs)
<1>0. IsRegionList(rs)
  BY RegionListsAssumption
<1>1. rc \in Word /\ region_count_of(rs) = rc
  BY <1>0, WordExact DEF IsRegionList, region_count_of
<1>2. scope = "Global" \/ scope = "Regional"
  BY DEF KeyScope
<1>3. CASE scope = "Global" \/ banding_impossible(rs, n)
  <2>1. scope = "Global" \/ rs = <<>> \/ n < rc
    BY <1>1, <1>3 DEF banding_impossible
  <2>2. model_route_shard(scope, k, region, rs, n) = model_shard_for(k, n)
    BY <1>2, <2>1 DEF model_route_shard
  <2> QED
    BY <1>3, <2>2, ModelShardFor DEF route_shard, route_shard_panics
<1>4. CASE scope # "Global" /\ ~banding_impossible(rs, n)
  <2>1. scope = "Regional" /\ rs # <<>> /\ ~(n < rc)
    BY <1>1, <1>2, <1>4 DEF banding_impossible
  <2>2. ri = region_index_or(region, rs, DEFAULT_REGION_INDEX)
    BY ModelRegionIndex DEF region_index_or
  <2>3. ri \in Word
    BY <1>0, <2>1, <2>2, ResolvedIndex
  <2>4. model_route_shard(scope, k, region, rs, n) = model_shard_for_region(ri, rc, k, n)
    BY <2>1 DEF model_route_shard
  <2> HIDE DEF ri, rc
  <2> QED
    BY <1>1, <1>4, <2>2, <2>3, <2>4, ModelShardForRegion DEF route_shard, route_shard_panics
<1> QED
  BY <1>3, <1>4

-----------------------------------------------------------------------------
\* Calls of the library are those of RouteCalls, whatever is replayed between them.
THEOREM ConformanceKeepsCalls == ConformanceSpec => Spec
<1>1. ConformanceInit => Init
  BY DEF ConformanceInit
<1>2. [ConformanceNext]_<<call, replayVars>> => [Next]_call
  BY DEF ConformanceNext
<1> QED
  BY <1>1, <1>2, PTL DEF ConformanceSpec, Spec

\* Whatever the library is asked, the Python functions answer the same.
THEOREM SpecModelAgrees == ConformanceSpec => []ModelAgrees
<1>1. Init => ModelAgrees
  BY DEF Init, Idle, ModelAgrees
<1>2. ModelAgrees /\ [Next]_call => ModelAgrees'
  <2> SUFFICES ASSUME ModelAgrees, [Next]_call PROVE ModelAgrees'
    OBVIOUS
  <2>1. CASE CallShardForRegion
    <3>1. PICK ri \in Word, rc \in Word, n \in Word, k \in Key :
            LET panics == shard_for_region_panics(rc, n)
            IN  call' = [fn |-> "shard_for_region", ri |-> ri, rc |-> rc, key |-> k, n |-> n,
                         panicked |-> panics,
                         shard |-> IF panics THEN 0 ELSE shard_for_region(ri, rc, k, n)]
      BY <2>1 DEF CallShardForRegion
    <3> QED
      BY <3>1, ModelShardForRegion DEF ModelAgrees
  <2>2. CASE CallRouteShard
    <3>1. PICK scope \in KeyScope, k \in Key, r \in RegionName, rs \in RegionLists, n \in Word :
            LET panics == route_shard_panics(scope, rs, n)
            IN  call' = [fn |-> "route_shard", scope |-> scope, key |-> k, region |-> r,
                         regions |-> rs, n |-> n, panicked |-> panics,
                         shard |-> IF panics THEN 0 ELSE route_shard(scope, k, r, rs, n)]
      BY <2>2 DEF CallRouteShard
    <3> QED
      BY <3>1, ModelRouteShard DEF ModelAgrees
  <2>3. CASE Return
    BY <2>3 DEF Return, Idle, ModelAgrees
  <2>4. CASE UNCHANGED call
    BY <2>4 DEF ModelAgrees, model_shard_for_region, model_route_shard
  <2> QED
    BY <2>1, <2>2, <2>3, <2>4 DEF Next
<1> QED
  BY <1>1, <1>2, ConformanceKeepsCalls, PTL DEF Spec

-----------------------------------------------------------------------------
\* Replays.

LEMMA AnswersAgree ==
  ASSUME NEW r \in Line
  PROVE  model_answer(r) = library_answer(r)
<1>1. CASE r \in {Blank, Malformed}
  BY <1>1 DEF Blank, Malformed, model_answer, library_answer
<1>2. CASE r \in [op : {"hash"}, key : Key]
  BY <1>2 DEF model_answer, library_answer
<1>3. CASE r \in [op : {"scope"}, org_id : OrgId, key : Str]
  BY <1>3 DEF model_answer, library_answer
<1>4. CASE r \in [op : {"shard"}, key : Key, shard_count : ShardCount]
  <2>1. r.op = "shard" /\ r.key \in Key /\ r.shard_count \in ShardCount
    BY <1>4
  <2>2. CASE r.shard_count \in Word
    BY <2>1, <2>2, ModelShardFor DEF model_answer, library_answer
  <2>3. CASE r.shard_count \notin Word
    <3>1. r.shard_count <= 0
      BY <2>1, <2>3, WordSizeAssumption DEF ShardCount, Word
    <3> QED
      BY <2>1, <2>3, <3>1 DEF model_answer, library_answer, model_shard_for
  <2> QED
    BY <2>2, <2>3
<1>5. CASE r \in [op : {"route"}, scope : STRING, key : Key, region : RegionName,
                  regions : RegionLists, shard_count : ShardCount]
  <2>1. /\ r.op = "route" /\ r.key \in Key /\ r.region \in RegionName
        /\ r.regions \in RegionLists /\ r.shard_count \in ShardCount
    BY <1>5
  <2>2. model_answer(r) = model_route_shard(r.scope, r.key, r.region, r.regions, r.shard_count)
    BY <2>1 DEF model_answer
  <2>3. library_answer(r) =
          IF r.scope \notin KeyScope \/ r.shard_count \notin Word
               \/ route_shard_panics(r.scope, r.regions, r.shard_count) THEN ValueError
          ELSE Ok(route_shard(r.scope, r.key, r.region, r.regions, r.shard_count))
    BY <2>1 DEF library_answer
  <2>4. CASE r.scope \notin KeyScope
    BY <2>2, <2>3, <2>4 DEF model_route_shard, KeyScope
  <2>5. CASE r.scope \in KeyScope /\ r.shard_count \in Word
    BY <2>1, <2>2, <2>3, <2>5, ModelRouteShard
  <2>6. CASE r.scope \in KeyScope /\ r.shard_count \notin Word
    <3>1. r.shard_count < 0
      BY <2>1, <2>6, WordSizeAssumption DEF ShardCount, Word
    <3>2. Len(r.regions) \in Nat
      BY <2>1, RegionListsAssumption DEF IsRegionList
    <3>3. r.shard_count < Len(r.regions) /\ r.shard_count <= 0
      BY <2>1, <3>1, <3>2 DEF ShardCount
    <3> QED
      BY <2>2, <2>3, <2>6, <3>3 DEF model_route_shard, model_shard_for, KeyScope
  <2> QED
    BY <2>4, <2>5, <2>6
<1> QED
  BY <1>1, <1>2, <1>3, <1>4, <1>5 DEF Line

\* An answer is an exception or a result.
LEMMA AnswerIsOk ==
  ASSUME NEW r \in Line, model_answer(r).ok
  PROVE  Ok(model_answer(r).result) = model_answer(r)
<1>1. library_answer(r) = ValueError \/ \E x : library_answer(r) = Ok(x)
  BY DEF library_answer
<1> QED
  BY <1>1, AnswersAgree DEF ValueError, Ok

Request(n) == n \in DOMAIN input /\ input[n] # Blank

\* What has been read and can be answered is collected, in the order of the lines.
Collected == \A n \in 1 .. at : Request(n) => \E k \in DOMAIN outputs : outputs[k].line = n

Records == {Record(n, r) : n \in Nat, r \in Line}

ReplayTypes ==
  /\ input \in Seq(Line)
  /\ at \in 0 .. Len(input)
  /\ outputs \in Seq(Records)
  /\ emitted \in Seq(Records)

IsAnswer(k) ==
  LET n == outputs[k].line
  IN  /\ n \in 1 .. at
      /\ Request(n)
      /\ model_answer(input[n]).ok
      /\ outputs[k] = Record(n, input[n])

InLineOrder == \A j, k \in DOMAIN outputs : j < k => outputs[j].line < outputs[k].line

EmittedFromOutputs ==
  /\ Len(emitted) <= Len(outputs)
  /\ \A k \in DOMAIN emitted : emitted[k] = outputs[k]

Phases ==
  /\ replay \in {"reading", "emitting", "done"} => Collected
  /\ replay \in {"emitting", "done"} => at = Len(input)
  /\ replay \in {"none", "reading"} => emitted = <<>>
  /\ emitted # <<>> => at = Len(input) /\ Collected
  /\ replay = "done" => Len(emitted) = Len(outputs)
  /\ replay = "none" => input = <<>> /\ at = 0 /\ outputs = <<>>

ReplayInv ==
  /\ ReplayTypes
  /\ \A k \in DOMAIN outputs : IsAnswer(k)
  /\ InLineOrder
  /\ EmittedFromOutputs
  /\ Phases

LEMMA ReplayStarts == ReplayInit => ReplayInv
BY DEF ReplayInit, ReplayInv, ReplayTypes, InLineOrder, EmittedFromOutputs, Phases, Collected

LEMMA ReplaySteps == ReplayInv /\ [ReplayNext]_replayVars => ReplayInv'
<1> SUFFICES ASSUME ReplayInv, [ReplayNext]_replayVars PROVE ReplayInv'
  OBVIOUS
<1> USE DEF ReplayInv
<1>0. /\ input \in Seq(Line) /\ Len(input) \in Nat /\ at \in 0 .. Len(input)
      /\ outputs \in Seq(Records) /\ Len(outputs) \in Nat
      /\ emitted \in Seq(Records) /\ Len(emitted) \in Nat
      /\ DOMAIN input = 1 .. Len(input)
      /\ DOMAIN outputs = 1 .. Len(outputs)
      /\ DOMAIN emitted = 1 .. Len(emitted)
      /\ Len(emitted) <= Len(outputs)
  BY DEF ReplayTypes, EmittedFromOutputs
<1>1. CASE StartReplay
  <2>1. outputs = <<>> /\ emitted = <<>> /\ at = 0 /\ Len(outputs) = 0 /\ Len(emitted) = 0
    BY <1>1 DEF StartReplay, Phases
  <2>2. input' \in Seq(Line) /\ Len(input') \in Nat
    BY <1>1, InputsAssumption DEF StartReplay
  <2> QED
    BY <1>1, <1>0, <2>1, <2>2 DEF StartReplay, ReplayTypes, IsAnswer, InLineOrder, EmittedFromOutputs, Phases, Collected, Request
<1>2. CASE ReadLine
  <2> DEFINE r == input[at + 1]
  <2>1. /\ replay = "reading" /\ at' = at + 1 /\ at' \in 1 .. Len(input)
        /\ input' = input /\ emitted' = emitted /\ emitted = <<>>
        /\ r \in Line
    BY <1>0, <1>2 DEF ReadLine, Phases
  <2>2. \A n : Request(n)' = Request(n)
    BY <2>1 DEF Request
  <2>3. ASSUME outputs' = outputs, replay' = "reading" => r = Blank,
               replay' \in {"reading", "crashed"}
        PROVE  ReplayInv'
    <3>1. replay' = "reading" => Collected'
      <4> SUFFICES ASSUME r = Blank PROVE Collected'
        BY <2>3
      <4>1. ~Request(at')
        BY <2>1 DEF Request
      <4>2. Collected
        BY <2>1 DEF Phases
      <4> QED
        BY <1>0, <2>1, <2>2, <2>3, <4>1, <4>2 DEF Collected
    <3>2. Len(emitted) = 0
      BY <2>1
    <3> QED
      <4>1. ReplayTypes'
        BY <1>0, <2>1, <2>3 DEF ReplayTypes
      <4>2. \A k \in DOMAIN outputs' : IsAnswer(k)'
        BY <1>0, <2>1, <2>2, <2>3 DEF IsAnswer
      <4>3. InLineOrder' /\ EmittedFromOutputs'
        BY <2>1, <2>3 DEF InLineOrder, EmittedFromOutputs
      <4>4. Phases'
        BY <2>1, <2>3, <3>1 DEF Phases
      <4> QED
        BY <4>1, <4>2, <4>3, <4>4
  <2>4. CASE /\ r # Blank /\ model_answer(r).ok
             /\ outputs' = Append(outputs, Record(at', r))
             /\ replay' = replay
    <3> DEFINE e == Record(at', r)
               m == Len(outputs) + 1
    <3>1. e \in Records /\ e.line = at'
      <4>1. at' \in Nat
        BY <1>0, <2>1
      <4>2. e \in Records
        BY <2>1, <4>1 DEF Records
      <4>3. e.line = at'
        BY DEF Record
      <4> QED
        BY <4>2, <4>3
    <3>2. /\ outputs' \in Seq(Records) /\ Len(outputs') = m /\ DOMAIN outputs' = 1 .. m
          /\ outputs'[m] = e
          /\ \A k \in 1 .. Len(outputs) : outputs'[k] = outputs[k]
      <4> HIDE DEF e
      <4> QED
        BY <1>0, <2>4, <3>1 DEF e
    <3>3. \A k \in 1 .. m : k \in 1 .. Len(outputs) \/ k = m
      BY <1>0
    <3>4. \A k \in 1 .. Len(outputs) : outputs[k].line \in 1 .. at
      BY DEF IsAnswer
    <3> HIDE DEF e, m
    <3>5. \A k \in DOMAIN outputs' : IsAnswer(k)'
      <4> SUFFICES ASSUME NEW k \in 1 .. m PROVE IsAnswer(k)'
        BY <3>2
      <4>1. CASE k \in 1 .. Len(outputs)
        <5>1. IsAnswer(k) /\ outputs'[k] = outputs[k]
          BY <4>1, <1>0, <3>2
        <5> QED
          BY <5>1, <1>0, <2>1 DEF IsAnswer, Request
      <4>2. CASE k = m
        <5>1. Request(at')
          BY <1>0, <2>1, <2>4 DEF Request
        <5>2. outputs'[k] = Record(at', r) /\ outputs'[k].line = at'
          BY <4>2, <3>1, <3>2 DEF e
        <5> QED
          BY <5>1, <5>2, <1>0, <2>1, <2>4 DEF IsAnswer, Request
      <4> QED
        BY <3>3, <4>1, <4>2
    <3>6. \A j, k \in DOMAIN outputs' : j < k => outputs'[j].line < outputs'[k].line
      <4> SUFFICES ASSUME NEW j \in 1 .. m, NEW k \in 1 .. m, j < k
                   PROVE  outputs'[j].line < outputs'[k].line
        BY <3>2
      <4>1. j \in 1 .. Len(outputs)
        BY <1>0 DEF m
      <4>2. CASE k \in 1 .. Len(outputs)
        BY <1>0, <3>2, <4>1, <4>2 DEF InLineOrder
      <4>3. CASE k = m
        BY <1>0, <2>1, <3>1, <3>2, <3>4, <4>1, <4>3
      <4> QED
        BY <3>3, <4>2, <4>3
    <3>7. Collected'
      <4> SUFFICES ASSUME NEW n \in 1 .. at', Request(n)
                   PROVE  \E k \in 1 .. m : outputs'[k].line = n
        BY <2>2, <3>2 DEF Collected
      <4>1. CASE n \in 1 .. at
        <5>1. PICK k \in DOMAIN outputs : outputs[k].line = n
          BY <2>1, <4>1 DEF Phases, Collected
        <5> QED
          BY <1>0, <3>2, <5>1 DEF m
      <4>2. CASE n = at'
        <5>1. m \in 1 .. m
          BY <1>0 DEF m
        <5> QED
          BY <3>1, <3>2, <4>2, <5>1
      <4> QED
        BY <1>0, <2>1, <4>1, <4>2
    <3>8. Len(emitted) = 0
      BY <2>1
    <3> QED
      <4>1. ReplayTypes'
        BY <1>0, <2>1, <3>2 DEF ReplayTypes
      <4>2. \A k \in DOMAIN outputs' : IsAnswer(k)'
        BY <3>5
      <4>3. InLineOrder'
        BY <3>6 DEF InLineOrder
      <4>4. EmittedFromOutputs' /\ Phases'
        BY <1>0, <2>1, <2>4, <3>2, <3>7, <3>8 DEF EmittedFromOutputs, Phases, m
      <4> QED
        BY <4>1, <4>2, <4>3, <4>4
  <2>5. \/ r = Blank /\ replay' = replay /\ outputs' = outputs
        \/ /\ r # Blank /\ model_answer(r).ok
           /\ outputs' = Append(outputs, Record(at', r))
           /\ replay' = replay
        \/ r # Blank /\ replay' = "crashed" /\ outputs' = outputs
    BY <1>2, <2>1 DEF ReadLine
  <2> QED
    BY <2>1, <2>3, <2>4, <2>5
<1>3. CASE EndOfInput
  BY <1>3, <1>0 DEF EndOfInput, ReplayTypes, IsAnswer, InLineOrder, EmittedFromOutputs, Phases, Collected, Request
<1>4. CASE Emit
  <2>1. /\ replay = "emitting" /\ at = Len(input) /\ Collected
        /\ input' = input /\ at' = at /\ outputs' = outputs
        /\ Collected'
    BY <1>4 DEF Emit, Phases, Collected, Request
  <2>2. \A n : Request(n)' = Request(n)
    BY <2>1 DEF Request
  <2>3. CASE Len(emitted) < Len(outputs)
    <3> DEFINE m == Len(emitted) + 1
    <3>1. replay' = replay /\ emitted' = Append(emitted, outputs[m])
      BY <1>4, <2>3 DEF Emit
    <3>2. m \in 1 .. Len(outputs) /\ outputs[m] \in Records
      BY <1>0, <2>3
    <3>3. /\ emitted' \in Seq(Records) /\ Len(emitted') = m /\ DOMAIN emitted' = 1 .. m
          /\ emitted'[m] = outputs[m]
          /\ \A k \in 1 .. Len(emitted) : emitted'[k] = emitted[k]
      BY <1>0, <3>1, <3>2
    <3>4. \A k \in 1 .. m : emitted'[k] = outputs[k]
      BY <1>0, <3>1, <3>3 DEF EmittedFromOutputs
    <3> HIDE DEF m
    <3> QED
      <4>1. ReplayTypes'
        BY <1>0, <2>1, <3>3 DEF ReplayTypes
      <4>2. \A k \in DOMAIN outputs' : IsAnswer(k)'
        BY <2>1, <2>2 DEF IsAnswer
      <4>3. InLineOrder'
        BY <2>1 DEF InLineOrder
      <4>4. EmittedFromOutputs' /\ Phases'
        BY <1>0, <2>1, <3>1, <3>2, <3>3, <3>4 DEF EmittedFromOutputs, Phases
      <4> QED
        BY <4>1, <4>2, <4>3, <4>4
  <2>4. CASE ~(Len(emitted) < Len(outputs))
    <3>1. replay' = "done" /\ emitted' = emitted
      BY <1>4, <2>4 DEF Emit
    <3>2. Len(emitted) = Len(outputs)
      <4> DEFINE a == Len(emitted)
                 b == Len(outputs)
      <4>1. a \in Nat /\ b \in Nat /\ a <= b
        BY <1>0
      <4>2. ~(a < b)
        BY <2>4
      <4> HIDE DEF a, b
      <4>3. a = b
        BY <4>1, <4>2
      <4> QED
        BY <4>3 DEF a, b
    <3> QED
      <4>1. ReplayTypes'
        BY <1>0, <2>1, <3>1 DEF ReplayTypes
      <4>2. \A k \in DOMAIN outputs' : IsAnswer(k)'
        BY <2>1, <2>2 DEF IsAnswer
      <4>3. InLineOrder'
        BY <2>1 DEF InLineOrder
      <4>4. EmittedFromOutputs' /\ Phases'
        BY <1>0, <2>1, <3>1, <3>2 DEF EmittedFromOutputs, Phases
      <4> QED
        BY <4>1, <4>2, <4>3, <4>4
  <2> QED
    BY <2>3, <2>4
<1>5. CASE Killed
  BY <1>5, <1>0 DEF Killed, ReplayTypes, IsAnswer, InLineOrder, EmittedFromOutputs, Phases, Collected, Request
<1>6. CASE Again
  BY <1>6 DEF Again, ReplayTypes, InLineOrder, EmittedFromOutputs, Phases, Collected
<1>7. CASE UNCHANGED replayVars
  BY <1>7 DEF replayVars, ReplayTypes, IsAnswer, InLineOrder, EmittedFromOutputs, Phases, Collected, Request
<1> QED
  BY <1>1, <1>2, <1>3, <1>4, <1>5, <1>6, <1>7 DEF ReplayNext

\* What is printed is the library's answers to a prefix of the file, and to all of it in
\* the end, for every file.
THEOREM SpecReplayIsFaithful == ConformanceSpec => []ReplayIsFaithful
<1>1. ConformanceInit => ReplayInv
  BY ReplayStarts DEF ConformanceInit
<1>2. ReplayInv /\ [ConformanceNext]_<<call, replayVars>> => ReplayInv'
  <2>1. [ConformanceNext]_<<call, replayVars>> => [ReplayNext]_replayVars
    BY DEF ConformanceNext
  <2> QED
    BY <2>1, ReplaySteps
<1>3. ReplayInv => ReplayIsFaithful
  <2> SUFFICES ASSUME ReplayInv PROVE ReplayIsFaithful
    OBVIOUS
  <2>0. /\ Len(outputs) \in Nat /\ DOMAIN outputs = 1 .. Len(outputs)
        /\ Len(emitted) \in Nat /\ DOMAIN emitted = 1 .. Len(emitted)
        /\ Len(emitted) <= Len(outputs) /\ DOMAIN input = 1 .. Len(input)
        /\ \A n \in DOMAIN input : input[n] \in Line
    BY DEF ReplayInv, ReplayTypes, EmittedFromOutputs
  <2>1. ASSUME NEW k \in DOMAIN emitted
        PROVE  LET e == emitted[k]
               IN  /\ Request(e.line)
                   /\ Ok(e.result) = library_answer(input[e.line])
                   /\ e.op = input[e.line].op
                   /\ \A n \in 1 .. e.line - 1 : Request(n) =>
                        \E j \in 1 .. k - 1 : emitted[j].line = n
    <3> DEFINE n == emitted[k].line
    <3>1. emitted # <<>> /\ k \in DOMAIN outputs /\ emitted[k] = outputs[k]
      BY <2>0, <2>1 DEF ReplayInv, EmittedFromOutputs
    <3>2. /\ n \in 1 .. at /\ at \in Nat /\ Request(n) /\ model_answer(input[n]).ok
          /\ emitted[k] = Record(n, input[n])
      BY <3>1 DEF ReplayInv, ReplayTypes, IsAnswer
    <3>3. Ok(emitted[k].result) = library_answer(input[n])
      <4>1. input[n] \in Line
        BY <2>0, <3>2 DEF Request
      <4>2. emitted[k].result = model_answer(input[n]).result
        BY <3>2 DEF Record
      <4> QED
        BY <3>2, <4>1, <4>2, AnswerIsOk, AnswersAgree
    <3>4. emitted[k].op = input[n].op
      BY <3>2 DEF Record
    <3>5. ASSUME NEW i \in 1 .. n - 1, Request(i)
          PROVE  \E j \in 1 .. k - 1 : emitted[j].line = i
      <4>1. i \in 1 .. at
        BY <3>2
      <4>2. PICK j \in DOMAIN outputs : outputs[j].line = i
        BY <3>1, <3>5, <4>1 DEF ReplayInv, Phases, Collected
      <4>3. j < k
        <5>1. ~(k < j)
          BY <3>1, <3>2, <4>2 DEF ReplayInv, InLineOrder, ReplayTypes
        <5>2. j # k
          BY <3>1, <3>2, <4>2
        <5> QED
          BY <2>0, <3>1, <5>1, <5>2
      <4> QED
        BY <2>0, <3>1, <4>2, <4>3, <2>1 DEF ReplayInv, EmittedFromOutputs
    <3> QED
      BY <3>2, <3>3, <3>4, <3>5
  <2>2. ASSUME emitted # <<>>, NEW n \in DOMAIN input, Request(n)
        PROVE  library_answer(input[n]).ok
    <3>1. PICK k \in DOMAIN outputs : outputs[k].line = n
      BY <2>0, <2>2 DEF ReplayInv, Phases, Collected, Request
    <3>2. model_answer(input[n]).ok
      BY <3>1 DEF ReplayInv, IsAnswer
    <3> QED
      BY <2>0, <3>2, AnswersAgree
  <2>3. ASSUME replay = "done"
        PROVE  {emitted[k].line : k \in DOMAIN emitted} = {n \in DOMAIN input : Request(n)}
    <3>1. DOMAIN emitted = DOMAIN outputs /\ \A k \in DOMAIN emitted : emitted[k] = outputs[k]
      BY <2>0, <2>3 DEF ReplayInv, Phases, EmittedFromOutputs
    <3>2. \A k \in DOMAIN emitted : Request(emitted[k].line)
      BY <2>1
    <3>3. \A n \in DOMAIN input : Request(n) => \E k \in DOMAIN emitted : emitted[k].line = n
      BY <2>0, <2>3, <3>1 DEF ReplayInv, Phases, Collected
    <3> QED
      BY <3>2, <3>3 DEF Request
  <2> QED
    BY <2>1, <2>2, <2>3 DEF ReplayIsFaithful, Request
<1> QED
  BY <1>1, <1>2, <1>3, PTL DEF ConformanceSpec
=============================================================================
