---------------------------- MODULE MCDataPlane ----------------------------
(***************************************************************************)
(* DataPlane with two orgs one of whose ids begins the other's, keys that  *)
(* are each other's tail (org "a" with key "bc", org "ab" with key "c"),   *)
(* and region lists that differ in length.                                 *)
(***************************************************************************)
EXTENDS DataPlane, TLC

ClientSymmetry == Permutations(Client)

MCText == {"a", "b", "c"}
OrgA   == <<Char("a")>>
OrgAB  == <<Char("a"), Char("b")>>
OneOrg == {OrgA}
TwoOrgs == {OrgA, OrgAB}

KeyC  == <<Char("c")>>
KeyBC == <<Char("b"), Char("c")>>
\* One global and one regional key.
MCUserKey == {KeyC, KeyBC}
MCScope   == [k \in MCUserKey |-> IF k = KeyC THEN "Global" ELSE "Regional"]

MCKey   == {org_scoped_key(o, k) : o \in OrgId, k \in UserKey}

\* A hash that tells these keys apart: by their lengths.
MCfnv1a == [k \in MCKey |-> 5 * Len(k) % 16]

Gcp == [name |-> "gcp", upper |-> FALSE, padded |-> FALSE]
Aws == [name |-> "aws", upper |-> FALSE, padded |-> FALSE]
AwsHeader == [name |-> "aws", upper |-> TRUE, padded |-> TRUE]

MCRegionName == {Gcp, AwsHeader}
TwoRegions   == {Gcp, Aws}
Topology     == <<Gcp, Aws>>
StableLists  == {Topology}
\* A load balancer whose copy lacks the primary region.
DriftLists   == {Topology, <<Aws>>}

\* More regions than shards.
Hetzner      == [name |-> "hetzner", upper |-> FALSE, padded |-> FALSE]
WideNames    == {Gcp, Aws, Hetzner}
WideTopology == <<Gcp, Aws, Hetzner>>
WideLists    == {WideTopology}
=============================================================================
