----------------------------- MODULE DataPlane -----------------------------
(***************************************************************************)
(* The request path that calls the routing library at two independent      *)
(* points.  A load balancer scopes the caller's key to its org, predicts   *)
(* the key's shard and forwards the request there; the node commits a      *)
(* write into the shard it computes itself.  If the two computations ever  *)
(* disagree "the load balancer would route a request to one shard while    *)
(* the data plane stored it in another".                                   *)
(*                                                                         *)
(* A load balancer's region list is a copy of the cluster's topology that  *)
(* it loads and reloads on its own; the shard count is cluster             *)
(* configuration, fixed for the cluster's life.  The load balancer, the    *)
(* node and the store are other programs, modelled from how this           *)
(* repository describes their use of the library.                          *)
(***************************************************************************)
EXTENDS KeyFraming, Routing

CONSTANTS
  Client,
  LB,              \* load balancers
  UserKey,         \* the keys callers supply, any characters
  Scope,           \* Scope[k] : the KeyScope of user key k
  Payload,         \* what callers write
  RegionName,      \* what a caller may send as its region
  RegionLists,     \* region lists a load balancer may hold
  ClusterRegions,  \* the cluster's region list: the nodes'
  shard_count

ASSUME ScopeAssumption == Scope \in [UserKey -> KeyScope]
ASSUME KeyAssumption ==
  \A o \in OrgId, k \in UserKey : org_scoped_key(o, k) \in Key
ASSUME UserKeyAssumption == UserKey \subseteq Str
ASSUME ShardCountAssumption == shard_count \in Word /\ shard_count > 0
ASSUME RegionNameAssumption == RegionName \subseteq RegionString(STRING)
ASSUME RegionListsAssumption ==
  ClusterRegions \in RegionLists /\ \A rs \in RegionLists : IsRegionList(rs)

Shard == 0 .. shard_count - 1

VARIABLES
  lbRegions,   \* lbRegions[l] : the region list load balancer l works with
  store,       \* store[s][k]  : what shard s holds under the scoped key k
  client       \* client[c]    : the request of client c and how far it got

vars == <<lbRegions, store, client>>

-----------------------------------------------------------------------------
\* The two routing calls.

\* The region index a region name stands for in the cluster; a global key has none.
home_region(key, region) ==
  IF Scope[key] = "Global" THEN 0
  ELSE region_index_or(region, ClusterRegions, DEFAULT_REGION_INDEX)

\* Where a participant with region list rs believes the key lives.
shard_of(org, key, region, rs) ==
  route_shard(Scope[key], org_scoped_key(org, key), region, rs, shard_count)

-----------------------------------------------------------------------------
\* A value remembers who wrote it and for which region, so that an answer shows
\* whose data it carries.
HomeRegion == {0} \cup {i \in Word : i < Len(ClusterRegions)}
Value  == [org : OrgId, ri : HomeRegion, payload : Payload]
Absent == [absent |-> TRUE]

Idle == [pc |-> "idle"]

Init ==
  /\ lbRegions \in [LB -> RegionLists]
  /\ store = [s \in Shard |-> [k \in Key |-> Absent]]
  /\ client = [c \in Client |-> Idle]

\* Load balancer l scopes the key, predicts its shard and forwards the request.
Forward(c, l, op, org, key, region, val) ==
  /\ client[c] = Idle
  /\ client' = [client EXCEPT ![c] =
       [pc |-> "forwarded", op |-> op, org |-> org, key |-> key, region |-> region,
        val |-> val, shard |-> shard_of(org, key, region, lbRegions[l])]]
  /\ UNCHANGED <<lbRegions, store>>

ForwardPut(c, l, org, key, region) ==
  \E p \in Payload :
    Forward(c, l, "put", org, key, region,
            [org |-> org, ri |-> home_region(key, region), payload |-> p])

ForwardGet(c, l, org, key, region) == Forward(c, l, "get", org, key, region, Absent)

Answer(c, ret) ==
  [pc |-> "answered", op |-> client[c].op, org |-> client[c].org, key |-> client[c].key,
   region |-> client[c].region, val |-> client[c].val, shard |-> client[c].shard,
   ret |-> ret]

\* The node applies a committed put to the shard it computes.
NodePut(c) ==
  LET r   == client[c]
      own == shard_of(r.org, r.key, r.region, ClusterRegions)
  IN  /\ r.pc = "forwarded" /\ r.op = "put"
      /\ store' = [store EXCEPT ![own][org_scoped_key(r.org, r.key)] = r.val]
      /\ client' = [client EXCEPT ![c] = Answer(c, r.val)]
      /\ UNCHANGED lbRegions

\* The leader the load balancer chose answers a get from its shard.
NodeGet(c) ==
  LET r == client[c]
  IN  /\ r.pc = "forwarded" /\ r.op = "get"
      /\ client' = [client EXCEPT ![c] =
                      Answer(c, store[r.shard][org_scoped_key(r.org, r.key)])]
      /\ UNCHANGED <<lbRegions, store>>

\* A request or its answer is lost, or the client is done with it.
Finish(c) ==
  /\ client[c] # Idle
  /\ client' = [client EXCEPT ![c] = Idle]
  /\ UNCHANGED <<lbRegions, store>>

\* A load balancer picks up another copy of the topology.
Reload(l) ==
  /\ \E rs \in RegionLists : lbRegions' = [lbRegions EXCEPT ![l] = rs]
  /\ UNCHANGED <<store, client>>

Next ==
  \/ \E c \in Client :
       \/ \E l \in LB, o \in OrgId, k \in UserKey, r \in RegionName :
            ForwardPut(c, l, o, k, r) \/ ForwardGet(c, l, o, k, r)
       \/ NodePut(c)
       \/ NodeGet(c)
       \/ Finish(c)
  \/ \E l \in LB : Reload(l)

Spec == Init /\ [][Next]_vars

-----------------------------------------------------------------------------
\* What an org's key listing of one shard shows: the stored keys that carry the
\* org's prefix, stripped of it, with their values.
Listing(org, s) ==
  {<<strip_org_scope(org, k), store[s][k]>> :
     k \in {k \in Key : store[s][k] # Absent /\ in_org_scope(org, k)}}

-----------------------------------------------------------------------------
\* Properties.

ClientState ==
  {Idle}
    \cup [pc : {"forwarded"}, op : {"put", "get"}, org : OrgId, key : UserKey,
          region : RegionName, val : Value \cup {Absent}, shard : Shard]
    \cup [pc : {"answered"}, op : {"put", "get"}, org : OrgId, key : UserKey,
          region : RegionName, val : Value \cup {Absent}, shard : Shard,
          ret : Value \cup {Absent}]

\* Every request is forwarded to a shard that exists, whatever list the load
\* balancer holds, and shards hold values under scoped keys.
TypeOK ==
  /\ lbRegions \in [LB -> RegionLists]
  /\ store \in [Shard -> [Key -> Value \cup {Absent}]]
  /\ client \in [Client -> ClientState]

\* "A global key can never be region-split" (KeyScope::Global in route_shard): no
\* two shards ever hold a value of the same global key, and every request for it on
\* its way, through whichever load balancer, is headed for the shard that does.
GlobalSingleHome ==
  \A o \in OrgId, k \in UserKey : Scope[k] = "Global" =>
    /\ \A s, t \in Shard :
         /\ store[s][org_scoped_key(o, k)] # Absent
         /\ store[t][org_scoped_key(o, k)] # Absent
         => s = t
    /\ \A c \in Client, s \in Shard :
         /\ client[c] # Idle /\ client[c].org = o /\ client[c].key = k
         /\ store[s][org_scoped_key(o, k)] # Absent
         => client[c].shard = s

\* Region-local data stays in its region (shard_for_region): a value written for a
\* region is only ever stored in a shard of that region's band, whatever region
\* list the load balancer that forwarded it had. The node that stores it routes with
\* the cluster's own list, so what this needs is that the bands are cut right.
RegionalDataStaysHome ==
  \A o \in OrgId, k \in UserKey, s \in Shard :
    LET v == store[s][org_scoped_key(o, k)]
    IN  (Scope[k] = "Regional" /\ v # Absent) =>
          OwnedBy(s, v.ri, Len(ClusterRegions), shard_count)

\* No org ever sees a value another org wrote: not in the answer to a get of any key
\* it can name, and not in the listing of any shard (org_scoped_key and the
\* org_scope_prefix filter).
OrgIsolation ==
  /\ \A c \in Client :
       client[c].pc = "answered" /\ client[c].ret # Absent
         => client[c].ret.org = client[c].org
  /\ \A o \in OrgId, s \in Shard : \A e \in Listing(o, s) :
       e[1] \in UserKey /\ e[2].org = o

\* A regional key means another value in another region: a get never returns what
\* was put for a different region ("the same key in two different regions maps to
\* two different shards", and a request path that cannot band loses "only leader
\* locality").
RegionScoped ==
  \A c \in Client :
    client[c].pc = "answered" /\ client[c].ret # Absent
      => client[c].ret.ri = home_region(client[c].key, client[c].region)

-----------------------------------------------------------------------------
\* Refinement: the sharded store is a map of registers.

slot_of(org, key, ri) == [org |-> org, key |-> key, ri |-> ri]

\* The slots of the keys whose scope is in S: one for each org and global key, one
\* for each org, regional key and region.
Slots(S) ==
  {s \in [org : OrgId, key : UserKey, ri : HomeRegion] :
     Scope[s.key] \in S /\ (Scope[s.key] = "Global" => s.ri = 0)}

\* The register of a slot is its copy in the slot's home shard.
slot_home(s) ==
  IF Scope[s.key] = "Global" \/ banding_impossible(ClusterRegions, shard_count)
  THEN shard_for(org_scoped_key(s.org, s.key), shard_count)
  ELSE shard_for_region(s.ri, region_count_of(ClusterRegions),
                        org_scoped_key(s.org, s.key), shard_count)

registers(S) == [s \in Slots(S) |-> store[slot_home(s)][org_scoped_key(s.org, s.key)]]

\* A client as the register map sees it; a request for another scope is none.
abstract_call(r, S) ==
  IF r = Idle \/ Scope[r.key] \notin S THEN Idle
  ELSE LET s == slot_of(r.org, r.key, home_region(r.key, r.region))
       IN  IF r.pc = "forwarded"
           THEN [pc |-> "pending", op |-> r.op, slot |-> s, val |-> r.val]
           ELSE [pc |-> "done", op |-> r.op, slot |-> s, val |-> r.val, ret |-> r.ret]

abstract_calls(S) == [c \in Client |-> abstract_call(client[c], S)]

Global == INSTANCE RegisterMap
  WITH Slot <- Slots({"Global"}), reg <- registers({"Global"}),
       call <- abstract_calls({"Global"})

All == INSTANCE RegisterMap
  WITH Slot <- Slots(KeyScope), reg <- registers(KeyScope),
       call <- abstract_calls(KeyScope)

\* Reads and writes of a global key are linearizable although load balancers hold
\* different and changing region lists.
GlobalKeysAreRegisters == Global!Spec

\* While all load balancers hold the cluster's list, regional keys are registers
\* too: one for each org, key and region, none of which shadows another.
AllKeysAreRegisters == All!Spec
=============================================================================
