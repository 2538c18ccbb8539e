----------------------------- MODULE Coordination -----------------------------
(***************************************************************************)
(* The two coordinators that live in shards of one cluster, next to each   *)
(* other: union locks (LockRouting) and the service registry, which the    *)
(* library gives a reserved key of its own (service_discovery_shard).  The *)
(* same participants route both, each in its lock-routing mode, while the  *)
(* cluster may be migrating.                                               *)
(*                                                                         *)
(* The registry is another program's: a registration or its end is applied *)
(* in the shard a participant names, a question is sent to the shard a     *)
(* participant names and answered there later.                             *)
(***************************************************************************)
EXTENDS LockRouting

CONSTANTS
  Service,
  Watcher    \* who asks for services

ASSUME DiscoveryKeyAssumption == SERVICE_DISCOVERY_KEY \in Key

VARIABLES
  registry,  \* registry[s] : the services registered in shard s
  query      \* query[w]    : what watcher w has asked, or been told

discoveryVars == <<registry, query>>

-----------------------------------------------------------------------------
\* Routing.

service_discovery_shard(n) == shard_for(SERVICE_DISCOVERY_KEY, n)

\* Mutant: discovery follows the locks and leaves their coordinator with them.
discovery_route_with_locks(p) ==
  IF mode[p] = "LegacyGlobal" THEN lock_coordination_shard(shard_count)
  ELSE service_discovery_shard(shard_count)

\* "All service-discovery state": registrations, lists and lookups of one service, through
\* whichever participant.
discovery_route(p) == service_discovery_shard(shard_count)

-----------------------------------------------------------------------------
Question == {Service} \cup {{v} : v \in Service}

DiscoveryInit ==
  /\ registry = [s \in Shard |-> {}]
  /\ query = [w \in Watcher |-> Idle]

Register(p, v) ==
  /\ registry' = [registry EXCEPT ![discovery_route(p)] = @ \cup {v}]
  /\ UNCHANGED query

\* A service withdraws, or its last instance is not renewed.
Deregister(p, v) ==
  /\ registry' = [registry EXCEPT ![discovery_route(p)] = @ \ {v}]
  /\ UNCHANGED query

AskServices(w, p, V) ==
  /\ query[w] = Idle
  /\ query' = [query EXCEPT ![w] = [pc |-> "asked", asks |-> V, shard |-> discovery_route(p)]]
  /\ UNCHANGED registry

\* The answer of one shard, "without a scatter-gather read across every shard leader".
AnswerServices(w) ==
  LET q == query[w]
  IN  /\ q.pc = "asked"
      /\ query' = [query EXCEPT ![w] =
                     [pc |-> "told", asks |-> q.asks, live |-> q.asks \cap registry[q.shard]]]
      /\ UNCHANGED registry

ForgetServices(w) ==
  /\ query[w] # Idle
  /\ query' = [query EXCEPT ![w] = Idle]
  /\ UNCHANGED registry

DiscoveryNext ==
  \/ \E p \in Participant :
       \/ \E v \in Service : Register(p, v) \/ Deregister(p, v)
       \/ \E w \in Watcher, V \in Question : AskServices(w, p, V)
  \/ \E w \in Watcher : AnswerServices(w) \/ ForgetServices(w)

-----------------------------------------------------------------------------
CoordinationInit == Init /\ DiscoveryInit

CoordinationNext ==
  \/ Next /\ UNCHANGED discoveryVars
  \/ DiscoveryNext /\ UNCHANGED vars

CoordinationSpec == CoordinationInit /\ [][CoordinationNext]_<<vars, discoveryVars>>

FairCoordinationSpec == CoordinationSpec /\ Fairness

-----------------------------------------------------------------------------
\* Refinement: the registries of all shards together are one directory.

abstract_query(q) ==
  IF q.pc = "asked" THEN [pc |-> "asked", asks |-> q.asks] ELSE q

Directory == INSTANCE ServiceDirectory
  WITH directory <- UNION {registry[s] : s \in Shard},
       query <- [w \in Watcher |-> abstract_query(query[w])]

\* "Keeping discovery under one coordinator shard makes GET /v1/services linearizable":
\* one shard's answer is the state of all that is registered, through whichever
\* participants services register and watchers ask, in whatever mode these route locks.
ServicesAreOneDirectory == Directory!Spec
=============================================================================
