------------------------------ MODULE Routing ------------------------------
(***************************************************************************)
(* The key -> shard mapping of fiducia-routing (src/lib.rs), as operators. *)
(*                                                                         *)
(* fnv1a is a CONSTANT function: what the router does with a hash does not *)
(* depend on how the hash was computed (module Fnv1a models that).  All    *)
(* arithmetic is unsigned and wraps at WordSize, 2^32 in the code, as a    *)
(* release build's u32 does.  A Rust panic is a predicate of the arguments *)
(* (<operation>_panics); the value of the operation means something only   *)
(* where that predicate is false.                                          *)
(***************************************************************************)
EXTENDS Integers, Sequences

CONSTANTS
  Key,       \* everything that can be hashed: &str
  fnv1a,     \* the frozen hash
  WordSize   \* number of u32 values

Word == 0 .. WordSize - 1

ASSUME WordSizeAssumption == WordSize \in Nat /\ WordSize > 1
ASSUME HashAssumption == fnv1a \in [Key -> Word]

u32(x) == x % WordSize
Min2(a, b) == IF a <= b THEN a ELSE b

-----------------------------------------------------------------------------
\* Global routing.

shard_for_panics(shard_count) == shard_count = 0

\* Mutant: the hash is not reduced.
shard_for_unreduced(key, shard_count) == fnv1a[key]

shard_for(key, shard_count) == fnv1a[key] % shard_count

-----------------------------------------------------------------------------
\* Region bands.  The arguments follow the Rust signatures.

shard_for_region_panics(region_count, shard_count) ==
  \/ region_count = 0
  \/ shard_count < region_count

\* Mutant: the clamp stops one region early.
clamped_early(ri, region_count) ==
  IF region_count < 2 THEN 0 ELSE Min2(ri, u32(region_count - 2))

\* Out-of-range indexes are clamped to the last band.
clamped(ri, region_count) == Min2(ri, u32(region_count - 1))

band_width(region_count, shard_count) == shard_count \div region_count

band_base(ri, region_count, shard_count) ==
  u32(clamped(ri, region_count) * band_width(region_count, shard_count))

\* Mutant: the remainder shards are dropped.
band_size_floor(ri, region_count, shard_count) == band_width(region_count, shard_count)

\* Mutant: the key is reduced modulo the cluster, not modulo the band.
band_size_cluster(ri, region_count, shard_count) == shard_count

\* The last region owns the remainder shards too.
band_size(ri, region_count, shard_count) ==
  IF clamped(ri, region_count) = u32(region_count - 1)
  THEN u32(shard_count - band_base(ri, region_count, shard_count))
  ELSE band_width(region_count, shard_count)

shard_for_region(ri, region_count, key, shard_count) ==
  u32(band_base(ri, region_count, shard_count)
        + (fnv1a[key] % band_size(ri, region_count, shard_count)))

\* The shards a region's band consists of.
Band(ri, region_count, shard_count) ==
  LET base == band_base(ri, region_count, shard_count)
  IN  base .. base + band_size(ri, region_count, shard_count) - 1

\* The same said without the code's arithmetic: is shard s of n region r's, when rc
\* regions get runs of n \div rc shards each in topology order and the last region
\* whatever is left?
OwnedBy(s, r, rc, n) ==
  /\ r * (n \div rc) <= s
  /\ r < rc - 1 => s < (r + 1) * (n \div rc)

-----------------------------------------------------------------------------
\* Region names.  A name as it arrives (a header, a configuration file) is its
\* letters in lower case, whether some of them were upper case, and whether
\* white space surrounds them.

RegionString(Names) == [name : Names, upper : BOOLEAN, padded : BOOLEAN]

\* A cluster's list of regions; its length and its indexes are words.
IsRegionList(rs) == rs \in Seq(RegionString(STRING)) /\ Len(rs) \in Word

\* Mutant: the header is compared as it arrived.
trim_nothing(s) == s

trim(s) == [s EXCEPT !.padded = FALSE]
eq_ignore_ascii_case(a, b) == a.name = b.name /\ a.padded = b.padded

\* The positions of the list that answer to `region'.  Only the input is
\* trimmed: a list entry with white space around it answers to nothing.
region_matches(region, regions) ==
  {i \in DOMAIN regions : eq_ignore_ascii_case(regions[i], trim(region))}

\* region_index returns None exactly when this is false ...
region_known(region, regions) == region_matches(region, regions) # {}

\* ... and otherwise the first match, counted from 0 and cast to u32.
region_index(region, regions) ==
  u32((CHOOSE i \in region_matches(region, regions) :
         \A j \in region_matches(region, regions) : i <= j) - 1)

DEFAULT_REGION_INDEX == 0

region_index_or(region, regions, default_index) ==
  IF region_known(region, regions) THEN region_index(region, regions) ELSE default_index

-----------------------------------------------------------------------------
\* The single routing entry point.

KeyScope == {"Global", "Regional"}

\* `regions.len() as u32'
region_count_of(regions) == u32(Len(regions))

\* Mutant: the empty list is not looked for.
banding_impossible_nonempty(regions, shard_count) ==
  shard_count < region_count_of(regions)

\* An empty list, or fewer shards than regions: Regional degrades to Global.
banding_impossible(regions, shard_count) ==
  \/ regions = <<>>
  \/ shard_count < region_count_of(regions)

route_shard_panics(scope, regions, shard_count) ==
  IF scope = "Global" \/ banding_impossible(regions, shard_count)
  THEN shard_for_panics(shard_count)
  ELSE shard_for_region_panics(region_count_of(regions), shard_count)

\* Mutant: the scope of the key is not looked at.
route_shard_scopeless(scope, key, region, regions, shard_count) ==
  IF banding_impossible(regions, shard_count)
  THEN shard_for(key, shard_count)
  ELSE shard_for_region(region_index_or(region, regions, DEFAULT_REGION_INDEX),
                        region_count_of(regions), key, shard_count)

route_shard(scope, key, region, regions, shard_count) ==
  IF scope = "Global" \/ banding_impossible(regions, shard_count)
  THEN shard_for(key, shard_count)
  ELSE shard_for_region(region_index_or(region, regions, DEFAULT_REGION_INDEX),
                        region_count_of(regions), key, shard_count)
=============================================================================
