--------------------------- MODULE MCCoordination ----------------------------
(***************************************************************************)
(* Coordination with a tenant and a shared space of the same identifier    *)
(* and a hash that separates all coordination keys.                        *)
(***************************************************************************)
EXTENDS Coordination

MCText  == {"a"}
MCOrgId == {}

OrgDomain   == [kind |-> "tenant", id |-> <<Char("a")>>]
SpaceDomain == [kind |-> "shared", id |-> <<Char("a")>>]
MCDomain    == {OrgDomain, SpaceDomain}

MCKey ==
  {LOCK_COORDINATION_KEY, SERVICE_DISCOVERY_KEY}
    \cup {lock_coordination_domain_key(d) : d \in Domain}

MCfnv1a == [k \in MCKey |->
  CASE k = LOCK_COORDINATION_KEY -> 6
    [] k = SERVICE_DISCOVERY_KEY -> 4
    [] k = lock_coordination_domain_key(OrgDomain) -> 3
    [] k = lock_coordination_domain_key(SpaceDomain) -> 5]
=============================================================================
