--------------------------- MODULE CustomerRegion ---------------------------
(***************************************************************************)
(* Customer-selectable regions (Region in src/lib.rs): their indexes, the  *)
(* names a customer may call them by, the region nearest to a place, and   *)
(* the routing of a key for a chosen region.                               *)
(*                                                                         *)
(* Coordinates are values of F64; how far a place is from each region is a *)
(* CONSTANT, since all the code does with a distance is compare it.  It is *)
(* a number for every place: when a coordinate is NaN or infinite, the     *)
(* clamps of haversine_km (NaN.min(1.0) is 1.0, NaN.max(0.0) is 0.0) make  *)
(* every region half the globe away.                                       *)
(***************************************************************************)
EXTENDS Routing

CONSTANTS
  F64,             \* what parses as a 64-bit float
  distance_km_to   \* distance_km_to[<<region, latitude, longitude>>]

Region == {"us-central1", "us-east-1", "eu-central"}

\* Region::ALL, in cluster order.
ALL == <<"us-central1", "us-east-1", "eu-central">>

ASSUME DistanceAssumption ==
  distance_km_to \in [Region \X F64 \X F64 -> Nat]

\* Mutant: the last two regions change places.
index_swapped(region) ==
  CASE region = "us-central1" -> 0 [] region = "us-east-1" -> 2 [] region = "eu-central" -> 1

index(region) ==
  CASE region = "us-central1" -> 0 [] region = "us-east-1" -> 1 [] region = "eu-central" -> 2

cluster_name(region) ==
  CASE region = "us-central1" -> "gcp"
    [] region = "us-east-1"   -> "aws"
    [] region = "eu-central"  -> "hetzner"

-----------------------------------------------------------------------------
Unknown == "unknown"

Aliases(region) ==
  CASE region = "us-central1" -> {"us-central1", "us-central", "gcp"}
    [] region = "us-east-1"   -> {"us-east-1", "us-east", "aws"}
    [] region = "eu-central"  -> {"eu-central", "eu-central-1", "hetzner"}

\* Region::parse: trimmed, in any letter case.
parse(value) ==
  LET named == {r \in Region : value.name \in Aliases(r)}
  IN  IF named = {} THEN Unknown ELSE CHOOSE r \in named : TRUE

closer(best, region, lat, lon) ==
  IF distance_km_to[<<region, lat, lon>>] < distance_km_to[<<best, lat, lon>>]
  THEN region ELSE best

nearest_to(lat, lon) == closer(closer(ALL[1], ALL[2], lat, lon), ALL[3], lat, lon)

-----------------------------------------------------------------------------
shard_for_customer_region_panics(shard_count) ==
  shard_for_region_panics(Len(ALL), shard_count)

shard_for_customer_region(region, key, shard_count) ==
  shard_for_region(index(region), Len(ALL), key, shard_count)
=============================================================================
