---------------------------- MODULE MCConformance ----------------------------
(***************************************************************************)
(* Conformance on 3-bit words: every hash value, index, region count and   *)
(* shard count of that width, and all files of up to three lines out of    *)
(* nine.                                                                   *)
(***************************************************************************)
EXTENDS Conformance

MCText  == 0 .. 7
OrgA    == <<Char(1)>>
MCOrgId == {OrgA}

\* One key per hash value.
MCKey == {<<Char(h)>> : h \in 0 .. 7}
MCfnv1a == [k \in MCKey |-> k[1].of]

Gcp == [name |-> "gcp", upper |-> FALSE, padded |-> FALSE]
AWS == [name |-> "aws", upper |-> TRUE, padded |-> FALSE]
PaddedAws == [name |-> "aws", upper |-> FALSE, padded |-> TRUE]

MCRegionName == RegionString({"gcp", "aws", "azure"})

\* Lists with duplicates and with an entry somebody left white space in.
MCRegionLists == SeqOf({Gcp, AWS, PaddedAws}, 3)

route(scope, h, region, regions, n) ==
  [op |-> "route", scope |-> scope, key |-> <<Char(h)>>, region |-> region,
   regions |-> regions, shard_count |-> n]

MCLine ==
  {Blank, Malformed,
   [op |-> "hash", key |-> <<Char(5)>>],
   [op |-> "scope", org_id |-> OrgA, key |-> <<Char(5)>>],
   [op |-> "shard", key |-> <<Char(5)>>, shard_count |-> 3],
   [op |-> "shard", key |-> <<Char(5)>>, shard_count |-> -1],
   route("Global", 6, AWS, <<Gcp, AWS>>, 0),
   route("Regional", 6, PaddedAws, <<Gcp, AWS>>, 5),
   route("regional ", 6, PaddedAws, <<Gcp, AWS>>, 5)}

MCInputs == SeqOf(MCLine, 3)
=============================================================================
