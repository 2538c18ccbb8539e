----------------------------- MODULE LockRouting -----------------------------
(***************************************************************************)
(* Lock coordination across shards (src/lock_coordination.rs and the       *)
(* reserved coordinator key of src/lib.rs), and the migration from one     *)
(* routing mode to the other that "existing clusters" go through.          *)
(*                                                                         *)
(* Every component that predicts lock routing is a participant with a      *)
(* routing mode of its own.  A participant sends a request to the shard    *)
(* its mode names; the lock table of that shard sees only what was sent    *)
(* there.  The cluster starts with locks that clients already hold, placed *)
(* by the release before modes existed: "every lock and semaphore routes   *)
(* through LOCK_COORDINATION_KEY".                                         *)
(*                                                                         *)
(* The lock tables and the migration procedure belong to other programs.   *)
(* The migration is the "explicit, coordinated" one the library requires:  *)
(* admission stops, the tables drain, the participants switch one by one,  *)
(* admission resumes.                                                      *)
(***************************************************************************)
EXTENDS KeyFraming, Routing

CONSTANTS
  Client,
  Participant,   \* nodes, load balancers, the brain, operator tools
  Domain,        \* the coordination domains in use
  LockName,      \* user lock names inside a domain
  shard_count

ASSUME DomainAssumption == Domain \subseteq LockCoordinationDomain
ASSUME CoordinationKeyAssumption ==
  /\ LOCK_COORDINATION_KEY \in Key
  /\ \A d \in Domain : lock_coordination_domain_key(d) \in Key
ASSUME ShardCountAssumption == shard_count \in Word /\ shard_count > 0
ASSUME ParticipantAssumption == Participant # {}

-----------------------------------------------------------------------------
\* Routing.

LockRoutingMode == {"LegacyGlobal", "DomainV1"}
DefaultMode     == "LegacyGlobal"

lock_coordination_shard(n) == shard_for(LOCK_COORDINATION_KEY, n)

\* Mutant: the domain is looked at in every mode.
lock_coordination_shard_for_v1_only(mode, domain, n) ==
  shard_for(lock_coordination_domain_key(domain), n)

\* "In LegacyGlobal mode the domain is deliberately ignored."
lock_coordination_shard_for(mode, domain, n) ==
  IF mode = "LegacyGlobal" THEN lock_coordination_shard(n)
  ELSE shard_for(lock_coordination_domain_key(domain), n)

-----------------------------------------------------------------------------
Shard == 0 .. shard_count - 1

VARIABLES
  mode,      \* mode[p]    : the routing mode participant p runs with
  target,    \* the mode a migration leads to
  admitting, \* FALSE while a migration is under way
  table,     \* table[s]   : the names held in shard s, each with its holder
  request    \* request[c] : what client c asks for or holds

vars == <<mode, target, admitting, table, request>>

Idle      == [pc |-> "idle"]
UnionLock == (SUBSET LockName) \ {{}}

Entries(c, d, N) == [domain : {d}, name : N, holder : {c}]

\* Client c believes it holds its names.
Holding(c) == request[c].pc = "holding"
Conflict(a, b) == a.domain = b.domain /\ a.names \cap b.names # {}

MutualExclusion ==
  \A b, c \in Client :
    b # c /\ Holding(b) /\ Holding(c) => ~Conflict(request[b], request[c])

-----------------------------------------------------------------------------
Init ==
  /\ mode = [p \in Participant |-> DefaultMode]
  /\ target = DefaultMode
  /\ admitting = TRUE
  /\ request \in [Client -> {Idle} \cup
       [pc : {"holding"}, domain : Domain, names : UnionLock,
        shard : {lock_coordination_shard(shard_count)}]]
  /\ MutualExclusion
  /\ table = [s \in Shard |->
       IF s # lock_coordination_shard(shard_count) THEN {}
       ELSE UNION {Entries(c, request[c].domain, request[c].names) :
                     c \in {c \in Client : Holding(c)}}]

\* Participant p sends a request for a union lock to the shard it predicts.
Ask(c, p, d, N) ==
  /\ admitting
  /\ request[c] = Idle
  /\ request' = [request EXCEPT ![c] =
       [pc |-> "asking", domain |-> d, names |-> N,
        shard |-> lock_coordination_shard_for(mode[p], d, shard_count)]]
  /\ UNCHANGED <<mode, target, admitting, table>>

\* The state machine of that shard grants all the names or none.
Grant(c) ==
  LET r == request[c]
  IN  /\ r.pc = "asking"
      /\ \A e \in table[r.shard] : ~(e.domain = r.domain /\ e.name \in r.names)
      /\ table' = [table EXCEPT ![r.shard] = @ \cup Entries(c, r.domain, r.names)]
      /\ request' = [request EXCEPT ![c] =
           [pc |-> "holding", domain |-> r.domain, names |-> r.names, shard |-> r.shard]]
      /\ UNCHANGED <<mode, target, admitting>>

\* A release travels like any other request: to the shard a participant predicts now.
Release(c, p) ==
  LET s == lock_coordination_shard_for(mode[p], request[c].domain, shard_count)
  IN  /\ Holding(c)
      /\ table' = [table EXCEPT ![s] = {e \in @ : e.holder # c}]
      /\ request' = [request EXCEPT ![c] = Idle]
      /\ UNCHANGED <<mode, target, admitting>>

\* A request that was not granted is withdrawn or lost.
GiveUp(c) ==
  /\ request[c].pc = "asking"
  /\ request' = [request EXCEPT ![c] = Idle]
  /\ UNCHANGED <<mode, target, admitting, table>>

\* An operator starts a migration.
Drain(m) ==
  /\ admitting
  /\ admitting' = FALSE
  /\ target' = m
  /\ UNCHANGED <<mode, table, request>>

\* Once no lock is held or asked for, participants switch one by one.
Switch(p) ==
  /\ ~admitting
  /\ \A c \in Client : request[c] = Idle
  /\ mode[p] # target
  /\ mode' = [mode EXCEPT ![p] = target]
  /\ UNCHANGED <<target, admitting, table, request>>

Resume ==
  /\ ~admitting
  /\ \A p \in Participant : mode[p] = target
  /\ admitting' = TRUE
  /\ UNCHANGED <<mode, target, table, request>>

Next ==
  \/ \E c \in Client :
       \/ \E p \in Participant :
            \/ \E d \in Domain, N \in UnionLock : Ask(c, p, d, N)
            \/ Release(c, p)
       \/ Grant(c)
       \/ GiveUp(c)
  \/ \E m \in LockRoutingMode : Drain(m)
  \/ \E p \in Participant : Switch(p)
  \/ Resume

Spec == Init /\ [][Next]_vars

\* Holders let go of their locks in the end.  Nothing else has to happen: nobody has to ask
\* for a lock, no shard has to grant one, no migration has to start or to go on.
Releases(c) == WF_vars(\E p \in Participant : Release(c, p))

Fairness == \A c \in Client : Releases(c)

FairSpec == Spec /\ Fairness

-----------------------------------------------------------------------------
\* Properties.

ClientState ==
  {Idle} \cup [pc : {"asking", "holding"}, domain : Domain, names : UnionLock, shard : Shard]

\* Every lock request goes to a shard that exists, in every mode.
TypeOK ==
  /\ mode \in [Participant -> LockRoutingMode]
  /\ target \in LockRoutingMode
  /\ admitting \in BOOLEAN
  /\ table \in [Shard -> SUBSET [domain : Domain, name : LockName, holder : Client]]
  /\ request \in [Client -> ClientState]

\* "Strand coordinator state" is what a wrong route does to a lock: the table entries
\* are exactly those of the clients that hold them, each in the one shard the holder's
\* request went to, so a client that released has nothing left anywhere.
NoStrandedLocks ==
  \A s \in Shard :
    table[s] = UNION {Entries(c, request[c].domain, request[c].names) :
                        c \in {c \in Client : Holding(c) /\ request[c].shard = s}}

\* "Multi-key union locks must be atomic and conflict-checked across every member key,
\* which requires one state machine to see them together": what is asked for or held
\* in one domain is, at any time, in one shard, whoever routed it and whenever.
DomainInOneShard ==
  \A b, c \in Client :
    /\ request[b] # Idle /\ request[c] # Idle
    /\ request[b].domain = request[c].domain
    => request[b].shard = request[c].shard

\* No lock is lost to everyone: what a client holds in a shard's table is gone from it some
\* time, although the release is routed on its own and possibly in another mode.
LocksComeFree ==
  \A s \in Shard, c \in Client :
    (\E e \in table[s] : e.holder = c) ~> \A e \in table[s] : e.holder # c

-----------------------------------------------------------------------------
\* Refinement: the shards together are one table of union locks for each domain.

abstract_lock(r) ==
  IF r = Idle THEN Idle ELSE [pc |-> r.pc, domain |-> r.domain, names |-> r.names]

Table == INSTANCE LockTable WITH lock <- [c \in Client |-> abstract_lock(request[c])]

\* Locks granted by different shards never overlap, through every migration.
UnionLocksAreOneTable == Table!Spec
=============================================================================
