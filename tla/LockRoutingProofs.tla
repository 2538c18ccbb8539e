-------------------------- MODULE LockRoutingProofs --------------------------
(***************************************************************************)
(* Lock coordination for any clients, participants, domains, hash and      *)
(* shard count, through any number of migrations, and the service registry *)
(* next to it.                                                             *)
(*                                                                         *)
(* MutualExclusion alone is not inductive: a shard grants by what its own  *)
(* table shows.  What carries it is that while anything is asked for or    *)
(* held every participant would send it where it is (Placed), and that the *)
(* tables show exactly what is held (NoStrandedLocks).                     *)
(***************************************************************************)
EXTENDS Coordination, RoutingProofs

route(m, d) == lock_coordination_shard_for(m, d, shard_count)

LEMMA RouteType ==
  ASSUME NEW m, NEW d \in Domain
  PROVE  route(m, d) \in Shard
BY CoordinationKeyAssumption, ShardCountAssumption, ShardForInRange
   DEF route, Shard, lock_coordination_shard_for, lock_coordination_shard

LEMMA CoordinatorType == lock_coordination_shard(shard_count) \in Shard
BY CoordinationKeyAssumption, ShardCountAssumption, ShardForInRange
   DEF Shard, lock_coordination_shard

-----------------------------------------------------------------------------
\* The inductive invariant.

ModesAgree == admitting => \A p, q \in Participant : mode[p] = mode[q]

Placed ==
  \A c \in Client, p \in Participant :
    request[c] # Idle => request[c].shard = route(mode[p], request[c].domain)

LockInv == TypeOK /\ ModesAgree /\ Placed /\ NoStrandedLocks /\ MutualExclusion

\* What a table shows, entry by entry.
ShownBy(e, c) == e \in Entries(c, request[c].domain, request[c].names)

LEMMA EntryShown ==
  ASSUME NoStrandedLocks, NEW s \in Shard, NEW e
  PROVE  e \in table[s] <=>
           \E c \in Client : Holding(c) /\ request[c].shard = s /\ ShownBy(e, c)
BY DEF NoStrandedLocks, ShownBy

LEMMA ClientCases ==
  ASSUME TypeOK, NEW c \in Client, request[c] # Idle
  PROVE  /\ request[c] \in [pc : {"asking", "holding"}, domain : Domain,
                            names : UnionLock, shard : Shard]
         /\ request[c].domain \in Domain
         /\ request[c].names \in UnionLock
         /\ request[c].shard \in Shard
BY DEF TypeOK, ClientState

LEMMA InitInv == Init => LockInv
<1> SUFFICES ASSUME Init PROVE LockInv
  OBVIOUS
<1> DEFINE home == lock_coordination_shard(shard_count)
<1>1. home \in Shard
  BY CoordinatorType
<1>2. \A c \in Client : request[c] # Idle =>
        request[c] \in [pc : {"holding"}, domain : Domain, names : UnionLock, shard : {home}]
  BY DEF Init
<1>3. \A c \in Client : Holding(c) => request[c] # Idle
  BY DEF Holding, Idle
<1> HIDE DEF home
<1>4. request \in [Client -> ClientState]
  BY <1>1, <1>2 DEF Init, ClientState
<1>5. \A c \in Client : Holding(c) =>
        /\ request[c].shard = home
        /\ Entries(c, request[c].domain, request[c].names)
             \subseteq [domain : Domain, name : LockName, holder : Client]
  BY <1>2, <1>3 DEF Entries, UnionLock
<1>6. table = [s \in Shard |->
         IF s # home THEN {}
         ELSE UNION {Entries(c, request[c].domain, request[c].names) :
                       c \in {c \in Client : Holding(c)}}]
  BY DEF Init, home
<1>7. table \in [Shard -> SUBSET [domain : Domain, name : LockName, holder : Client]]
  BY <1>5, <1>6
<1>8. TypeOK
  BY <1>4, <1>7 DEF Init, TypeOK, LockRoutingMode, DefaultMode
<1>9. NoStrandedLocks
  <2> SUFFICES ASSUME NEW s \in Shard
               PROVE  table[s] =
                        UNION {Entries(c, request[c].domain, request[c].names) :
                                 c \in {c \in Client : Holding(c) /\ request[c].shard = s}}
    BY DEF NoStrandedLocks
  <2>1. CASE s = home
    <3>1. {c \in Client : Holding(c)} = {c \in Client : Holding(c) /\ request[c].shard = s}
      BY <1>5, <2>1
    <3> QED
      BY <1>6, <2>1, <3>1
  <2>2. CASE s # home
    <3>1. {c \in Client : Holding(c) /\ request[c].shard = s} = {}
      BY <1>5, <2>2
    <3> QED
      BY <1>6, <2>2, <3>1
  <2> QED
    BY <2>1, <2>2
<1>10. ModesAgree /\ Placed
  BY <1>2 DEF Init, ModesAgree, Placed, route, lock_coordination_shard_for, DefaultMode, home
<1> QED
  BY <1>8, <1>9, <1>10 DEF Init, LockInv

\* Asking and giving up change no table and nothing that is held.
LEMMA RequestOnly ==
  ASSUME LockInv, NEW c \in Client, NEW q \in ClientState,
         ~Holding(c), q.pc # "holding",
         request' = [request EXCEPT ![c] = q], UNCHANGED table
  PROVE  /\ request' \in [Client -> ClientState]
         /\ NoStrandedLocks'
         /\ MutualExclusion'
<1>1. \A b \in Client : request'[b] = IF b = c THEN q ELSE request[b]
  BY DEF LockInv, TypeOK
<1>2. \A b \in Client : Holding(b)' <=> Holding(b)
  BY <1>1 DEF Holding
<1>3. \A b \in Client : Holding(b) => request'[b] = request[b]
  BY <1>1
<1>4. request' \in [Client -> ClientState]
  BY DEF LockInv, TypeOK
<1>5. NoStrandedLocks'
  <2> SUFFICES ASSUME NEW s \in Shard
               PROVE  table'[s] =
                        UNION {Entries(b, request'[b].domain, request'[b].names) :
                                 b \in {b \in Client : Holding(b)' /\ request'[b].shard = s}}
    BY DEF NoStrandedLocks
  <2>1. {b \in Client : Holding(b)' /\ request'[b].shard = s}
          = {b \in Client : Holding(b) /\ request[b].shard = s}
    BY <1>2, <1>3
  <2>2. \A b \in {b \in Client : Holding(b) /\ request[b].shard = s} :
          Entries(b, request'[b].domain, request'[b].names)
            = Entries(b, request[b].domain, request[b].names)
    BY <1>3
  <2>3. table[s] = UNION {Entries(b, request[b].domain, request[b].names) :
                            b \in {b \in Client : Holding(b) /\ request[b].shard = s}}
    BY DEF LockInv, NoStrandedLocks
  <2> QED
    BY <2>1, <2>2, <2>3
<1>6. MutualExclusion'
  BY <1>2, <1>3 DEF LockInv, MutualExclusion, Conflict
<1> QED
  BY <1>4, <1>5, <1>6

\* A grant by one shard is a grant against everything held in the domain.
LEMMA GrantSeesAll ==
  ASSUME LockInv, NEW c \in Client, Grant(c), NEW b \in Client, Holding(b)
  PROVE  ~Conflict(request[b], request[c])
<1> SUFFICES ASSUME request[b].domain = request[c].domain,
                    NEW n \in request[b].names \cap request[c].names
             PROVE  FALSE
  BY DEF Conflict
<1>1. request[b] # Idle /\ request[c] # Idle
  BY DEF Holding, Grant, Idle
<1>2. PICK p \in Participant : TRUE
  BY ParticipantAssumption
<1>3. request[b].shard = request[c].shard
  BY <1>1, <1>2 DEF LockInv, Placed
<1>4. request[c].shard \in Shard
  BY <1>1, ClientCases DEF LockInv
<1> DEFINE e == [domain |-> request[b].domain, name |-> n, holder |-> b]
<1>5. e \in Entries(b, request[b].domain, request[b].names)
  BY DEF Entries
<1>6. e \in table[request[c].shard]
  BY <1>3, <1>4, <1>5, EntryShown DEF LockInv, ShownBy
<1>7. e.domain = request[c].domain /\ e.name \in request[c].names
  OBVIOUS
<1> QED
  BY <1>6, <1>7 DEF Grant

LEMMA GrantKeepsInv ==
  ASSUME LockInv, NEW c \in Client, Grant(c)
  PROVE  LockInv'
<1> DEFINE r == request[c]
           q == [pc |-> "holding", domain |-> r.domain, names |-> r.names, shard |-> r.shard]
           E == Entries(c, r.domain, r.names)
<1>1. r # Idle /\ ~Holding(c)
  BY DEF Grant, Idle, Holding
<1>2. r.domain \in Domain /\ r.names \in UnionLock /\ r.shard \in Shard
  BY <1>1, ClientCases DEF LockInv
<1>3. q \in ClientState /\ q # Idle
  <2>1. q.pc # Idle.pc
    BY DEF Idle
  <2> QED
    BY <1>2, <2>1 DEF ClientState
<1>4. /\ request' = [request EXCEPT ![c] = q]
      /\ table' = [table EXCEPT ![r.shard] = @ \cup E]
      /\ UNCHANGED <<mode, target, admitting>>
  BY DEF Grant
<1>5. /\ q.pc = "holding" /\ q.domain = r.domain /\ q.names = r.names /\ q.shard = r.shard
  OBVIOUS
<1>6. E \subseteq [domain : Domain, name : LockName, holder : Client]
  BY <1>2 DEF Entries, UnionLock
<1> HIDE DEF q
<1>7. \A b \in Client : request'[b] = IF b = c THEN q ELSE request[b]
  BY <1>4 DEF LockInv, TypeOK
<1>8. \A b \in Client : Holding(b)' <=> Holding(b) \/ b = c
  BY <1>5, <1>7 DEF Holding
<1>9. TypeOK'
  <2> HIDE DEF E, r
  <2>1. request' \in [Client -> ClientState]
    BY <1>3, <1>4 DEF LockInv, TypeOK
  <2>2. table' \in [Shard -> SUBSET [domain : Domain, name : LockName, holder : Client]]
    BY <1>2, <1>4, <1>6 DEF LockInv, TypeOK
  <2> QED
    BY <1>4, <2>1, <2>2 DEF LockInv, TypeOK
<1>10. ModesAgree' /\ Placed'
  BY <1>1, <1>4, <1>5, <1>7 DEF LockInv, ModesAgree, Placed, route
<1>11. NoStrandedLocks'
  <2> SUFFICES ASSUME NEW s \in Shard
               PROVE  table'[s] =
                        UNION {Entries(b, request'[b].domain, request'[b].names) :
                                 b \in {b \in Client : Holding(b)' /\ request'[b].shard = s}}
    BY DEF NoStrandedLocks
  <2> DEFINE H == {b \in Client : Holding(b) /\ request[b].shard = s}
  <2>1. table[s] = UNION {Entries(b, request[b].domain, request[b].names) : b \in H}
    BY DEF LockInv, NoStrandedLocks
  <2>2. {b \in Client : Holding(b)' /\ request'[b].shard = s}
          = IF s = r.shard THEN H \cup {c} ELSE H
    BY <1>1, <1>5, <1>7, <1>8
  <2>3. \A b \in H : Entries(b, request'[b].domain, request'[b].names)
                      = Entries(b, request[b].domain, request[b].names)
    BY <1>1, <1>7
  <2>4. Entries(c, request'[c].domain, request'[c].names) = E
    BY <1>5, <1>7
  <2>5. table'[s] = IF s = r.shard THEN table[s] \cup E ELSE table[s]
    BY <1>2, <1>4 DEF LockInv, TypeOK
  <2> HIDE DEF H, E
  <2> QED
    BY <2>1, <2>2, <2>3, <2>4, <2>5
<1>12. MutualExclusion'
  <2> SUFFICES ASSUME NEW a \in Client, NEW b \in Client, a # b,
                      Holding(a)', Holding(b)'
               PROVE  ~Conflict(request'[a], request'[b])
    BY DEF MutualExclusion
  <2>1. CASE a # c /\ b # c
    BY <1>7, <1>8, <2>1 DEF LockInv, MutualExclusion
  <2>2. CASE b = c
    <3>1. ~Conflict(request[a], request[c])
      BY <1>8, <2>2, GrantSeesAll
    <3> QED
      BY <1>5, <1>7, <2>2, <3>1 DEF Conflict
  <2>3. CASE a = c
    <3>1. ~Conflict(request[b], request[c])
      BY <1>8, <2>3, GrantSeesAll
    <3> QED
      BY <1>5, <1>7, <2>3, <3>1 DEF Conflict
  <2> QED
    BY <2>1, <2>2, <2>3
<1> QED
  BY <1>9, <1>10, <1>11, <1>12 DEF LockInv

LEMMA ReleaseKeepsInv ==
  ASSUME LockInv, NEW c \in Client, NEW p \in Participant, Release(c, p)
  PROVE  LockInv'
<1> DEFINE t == request[c].shard
<1>1. request[c] # Idle /\ Holding(c)
  BY DEF Release, Holding, Idle
<1>2. t \in Shard /\ t = route(mode[p], request[c].domain)
  BY <1>1, ClientCases DEF LockInv, Placed
<1>3. /\ request' = [request EXCEPT ![c] = Idle]
      /\ table' = [table EXCEPT ![t] = {e \in @ : e.holder # c}]
      /\ UNCHANGED <<mode, target, admitting>>
  BY <1>2 DEF Release, route
<1>4. \A b \in Client : request'[b] = IF b = c THEN Idle ELSE request[b]
  BY <1>3 DEF LockInv, TypeOK
<1>5. \A b \in Client : Holding(b)' <=> Holding(b) /\ b # c
  BY <1>4 DEF Holding, Idle
<1>6. TypeOK'
  <2>1. request' \in [Client -> ClientState]
    BY <1>3 DEF LockInv, TypeOK, ClientState
  <2> HIDE DEF t
  <2>2. table' \in [Shard -> SUBSET [domain : Domain, name : LockName, holder : Client]]
    BY <1>2, <1>3 DEF LockInv, TypeOK
  <2> QED
    BY <1>3, <2>1, <2>2 DEF LockInv, TypeOK
<1>7. ModesAgree' /\ Placed'
  BY <1>3, <1>4 DEF LockInv, ModesAgree, Placed, route
<1>8. NoStrandedLocks'
  <2> SUFFICES ASSUME NEW s \in Shard
               PROVE  table'[s] =
                        UNION {Entries(b, request'[b].domain, request'[b].names) :
                                 b \in {b \in Client : Holding(b)' /\ request'[b].shard = s}}
    BY DEF NoStrandedLocks
  <2> DEFINE H == {b \in Client : Holding(b) /\ request[b].shard = s}
             J == {b \in Client : Holding(b)' /\ request'[b].shard = s}
  <2>1. table[s] = UNION {Entries(b, request[b].domain, request[b].names) : b \in H}
    BY DEF LockInv, NoStrandedLocks
  <2>2. J = H \ {c}
    BY <1>4, <1>5
  <2>3. \A b \in J : Entries(b, request'[b].domain, request'[b].names)
                      = Entries(b, request[b].domain, request[b].names)
    BY <1>4, <1>5
  <2>4. \A b \in Client : \A e \in Entries(b, request[b].domain, request[b].names) :
          e.holder = b
    BY DEF Entries
  <2>5. table'[s] = {e \in table[s] : s = t => e.holder # c}
    <3> HIDE DEF t
    <3> QED
      BY <1>2, <1>3 DEF LockInv, TypeOK
  <2>6. s # t => c \notin H
    OBVIOUS
  <2>7. J \subseteq Client /\ H \subseteq Client
    OBVIOUS
  <2> HIDE DEF H, J, t
  <2>8. table'[s] = UNION {Entries(b, request[b].domain, request[b].names) : b \in J}
    <3>1. ASSUME NEW e \in table'[s]
          PROVE  \E b \in J : e \in Entries(b, request[b].domain, request[b].names)
      <4>1. PICK b \in H : e \in Entries(b, request[b].domain, request[b].names)
        BY <2>1, <2>5
      <4>2. b # c
        BY <2>4, <2>5, <2>6, <2>7, <4>1
      <4> QED
        BY <2>2, <4>1, <4>2
    <3>2. ASSUME NEW b \in J, NEW e \in Entries(b, request[b].domain, request[b].names)
          PROVE  e \in table'[s]
      <4>1. b \in H /\ b # c
        BY <2>2
      <4>2. e.holder = b /\ e \in table[s]
        BY <2>1, <2>4, <2>7, <4>1
      <4> QED
        BY <2>5, <4>1, <4>2
    <3> QED
      BY <3>1, <3>2
  <2> QED
    BY <2>3, <2>8 DEF J
<1>9. MutualExclusion'
  BY <1>4, <1>5 DEF LockInv, MutualExclusion, Conflict
<1> QED
  BY <1>6, <1>7, <1>8, <1>9 DEF LockInv

LEMMA InvStep == LockInv /\ [Next]_vars => LockInv'
<1> SUFFICES ASSUME LockInv, [Next]_vars PROVE LockInv'
  OBVIOUS
<1>1. ASSUME NEW c \in Client, NEW p \in Participant, NEW d \in Domain,
             NEW N \in UnionLock, Ask(c, p, d, N)
      PROVE  LockInv'
  <2> DEFINE q == [pc |-> "asking", domain |-> d, names |-> N, shard |-> route(mode[p], d)]
  <2>1. q \in ClientState /\ q.pc # "holding" /\ q.domain = d /\ q.shard = route(mode[p], d)
    BY RouteType DEF ClientState
  <2>2. ~Holding(c)
    BY <1>1 DEF Ask, Holding, Idle
  <2>3. /\ admitting /\ request' = [request EXCEPT ![c] = q]
        /\ UNCHANGED <<mode, target, admitting, table>>
    BY <1>1 DEF Ask, route
  <2> HIDE DEF q
  <2>4. /\ request' \in [Client -> ClientState]
        /\ NoStrandedLocks' /\ MutualExclusion'
    BY <2>1, <2>2, <2>3, RequestOnly
  <2>5. \A b \in Client : request'[b] = IF b = c THEN q ELSE request[b]
    BY <2>3 DEF LockInv, TypeOK
  <2>6. Placed'
    <3> SUFFICES ASSUME NEW b \in Client, NEW p2 \in Participant, request'[b] # Idle
                 PROVE  request'[b].shard = route(mode'[p2], request'[b].domain)
      BY DEF Placed, route
    <3>1. mode'[p2] = mode[p2] /\ mode[p2] = mode[p]
      BY <2>3 DEF LockInv, ModesAgree
    <3>2. CASE b = c
      BY <2>1, <2>5, <3>1, <3>2
    <3>3. CASE b # c
      BY <2>5, <3>1, <3>3 DEF LockInv, Placed
    <3> QED
      BY <3>2, <3>3
  <2>7. TypeOK' /\ ModesAgree'
    BY <2>3, <2>4 DEF LockInv, TypeOK, ModesAgree
  <2> QED
    BY <2>4, <2>6, <2>7 DEF LockInv
<1>2. ASSUME NEW c \in Client, GiveUp(c)
      PROVE  LockInv'
  <2>1. Idle \in ClientState /\ Idle.pc # "holding"
    BY DEF ClientState, Idle
  <2>2. ~Holding(c)
    BY <1>2 DEF GiveUp, Holding
  <2>3. request' = [request EXCEPT ![c] = Idle] /\ UNCHANGED <<mode, target, admitting, table>>
    BY <1>2 DEF GiveUp
  <2>4. /\ request' \in [Client -> ClientState]
        /\ NoStrandedLocks' /\ MutualExclusion'
    BY <2>1, <2>2, <2>3, RequestOnly
  <2> QED
    BY <2>3, <2>4 DEF LockInv, TypeOK, ModesAgree, Placed, route
<1>3. ASSUME NEW c \in Client, Grant(c)
      PROVE  LockInv'
  BY <1>3, GrantKeepsInv
<1>4. ASSUME NEW c \in Client, NEW p \in Participant, Release(c, p)
      PROVE  LockInv'
  BY <1>4, ReleaseKeepsInv
<1>5. ASSUME UNCHANGED <<request, table>>
      PROVE  (NoStrandedLocks /\ MutualExclusion)'
  BY <1>5 DEF LockInv, NoStrandedLocks, MutualExclusion, Holding
<1>6. ASSUME NEW m \in LockRoutingMode, Drain(m)
      PROVE  LockInv'
  BY <1>5, <1>6 DEF Drain, LockInv, TypeOK, ModesAgree, Placed, route
<1>7. ASSUME NEW p \in Participant, Switch(p)
      PROVE  LockInv'
  BY <1>5, <1>7 DEF Switch, LockInv, TypeOK, ModesAgree, Placed
<1>8. ASSUME Resume
      PROVE  LockInv'
  BY <1>5, <1>8 DEF Resume, LockInv, TypeOK, ModesAgree, Placed, route
<1>9. CASE UNCHANGED vars
  BY <1>5, <1>9 DEF vars, LockInv, TypeOK, ModesAgree, Placed, route
<1> QED
  BY <1>1, <1>2, <1>3, <1>4, <1>6, <1>7, <1>8, <1>9 DEF Next

LEMMA SpecLockInv == Spec => []LockInv
BY InitInv, InvStep, PTL DEF Spec

\* Every lock request is routed to a shard of the cluster, in every mode.
THEOREM SpecTypeOK == Spec => []TypeOK
BY SpecLockInv, PTL DEF LockInv

-----------------------------------------------------------------------------
\* No two clients ever hold a name of one domain in common, although each lock was
\* granted by a shard that knows only its own table and participants change the
\* routing mode one by one.
THEOREM SpecMutualExclusion == Spec => []MutualExclusion
BY SpecLockInv, PTL DEF LockInv

\* No migration leaves a table entry behind that its holder can no longer release.
THEOREM SpecNoStrandedLocks == Spec => []NoStrandedLocks
BY SpecLockInv, PTL DEF LockInv

\* One state machine sees everything asked for or held in a domain.
THEOREM SpecDomainInOneShard == Spec => []DomainInOneShard
<1>1. LockInv => DomainInOneShard
  <2>1. PICK p \in Participant : TRUE
    BY ParticipantAssumption
  <2> QED
    BY <2>1 DEF LockInv, Placed, DomainInOneShard
<1> QED
  BY <1>1, SpecLockInv, PTL

-----------------------------------------------------------------------------
\* Progress.

\* A release is guarded by nothing but that its client holds a lock.  The provers have no rule
\* for ENABLED, so that it can be taken then is a hypothesis.
CanRelease(c)     == ENABLED <<\E p \in Participant : Release(c, p)>>_vars
HoldersCanRelease == \A c \in Client : Holding(c) => CanRelease(c)

\* Fairness names each of its parts.
LEMMA FairClient ==
  ASSUME NEW c \in Client
  PROVE  Fairness => Releases(c)
BY DEF Fairness

Shown(c, s) == \E e \in table[s] : e.holder = c

\* What a table shows of a client is a lock it holds there.
LEMMA ShownIsHeld ==
  ASSUME NEW c \in Client, NEW s \in Shard
  PROVE  LockInv /\ Shown(c, s) => Holding(c)
<1> SUFFICES ASSUME LockInv, Shown(c, s) PROVE Holding(c)
  OBVIOUS
<1>1. PICK e \in table[s] : e.holder = c
  BY DEF Shown
<1>2. PICK b \in Client : Holding(b) /\ request[b].shard = s /\ ShownBy(e, b)
  BY <1>1, EntryShown DEF LockInv
<1>3. b = c
  BY <1>1, <1>2 DEF ShownBy, Entries
<1> QED
  BY <1>2, <1>3

\* A release takes all of it.
LEMMA ReleaseClears ==
  ASSUME NEW c \in Client, NEW s \in Shard
  PROVE  LockInv /\ (\E p \in Participant : Release(c, p)) => ~Shown(c, s)'
<1>1. LockInv /\ (\E p \in Participant : Release(c, p)) => LockInv' /\ ~Holding(c)'
  <2> SUFFICES ASSUME LockInv, NEW p \in Participant, Release(c, p)
               PROVE  LockInv' /\ ~Holding(c)'
    OBVIOUS
  <2>1. request'[c] = Idle
    BY DEF Release, LockInv, TypeOK
  <2> QED
    BY <2>1, ReleaseKeepsInv DEF Holding, Idle
<1>2. LockInv /\ Shown(c, s) => Holding(c)
  BY ShownIsHeld
<1> QED
  BY <1>1, <1>2, PTL

\* No lock is lost to everyone: its table entry goes some time, in whatever mode the release
\* is routed (fairness of the holder, and that it can release).
THEOREM SpecLocksComeFree ==
  FairSpec /\ []HoldersCanRelease => LocksComeFree
<1>1. ASSUME NEW s \in Shard, NEW c \in Client
      PROVE  FairSpec /\ []HoldersCanRelease
               => ((\E e \in table[s] : e.holder = c) ~> \A e \in table[s] : e.holder # c)
  <2> DEFINE free == \A e \in table[s] : e.holder # c
  <2>1. LockInv /\ Shown(c, s) => Holding(c)
    BY ShownIsHeld
  <2>2. HoldersCanRelease /\ Holding(c) => CanRelease(c)
    BY DEF HoldersCanRelease
  <2>3. LockInv /\ (\E p \in Participant : Release(c, p)) => ~Shown(c, s)'
    BY ReleaseClears
  <2>4. Fairness => Releases(c)
    BY FairClient
  <2>5. ~Shown(c, s) => free
    BY DEF Shown
  <2>6. (\E e \in table[s] : e.holder = c) => Shown(c, s)
    BY DEF Shown
  <2> QED
    BY <2>1, <2>2, <2>3, <2>4, <2>5, <2>6, SpecLockInv, PTL DEF FairSpec, Releases, CanRelease
<1> QED
  BY <1>1 DEF LocksComeFree

-----------------------------------------------------------------------------
\* Refinement: the shards are one lock table.

Locks == [c \in Client |-> abstract_lock(request[c])]

\* What the table of locks shows of a client.
LEMMA LockView ==
  ASSUME NEW c \in Client
  PROVE  /\ Locks[c] = abstract_lock(request[c])
         /\ request[c] = Idle => Locks[c] = Idle
         /\ request[c] # Idle =>
              /\ Locks[c].pc = request[c].pc
              /\ Locks[c].domain = request[c].domain
              /\ Locks[c].names = request[c].names
         /\ Table!Holding(c) <=> Holding(c)
BY DEF Locks, abstract_lock, Table!Holding, Holding, Idle

LEMMA LockConflict ==
  ASSUME NEW b \in Client, NEW c \in Client, request[b] # Idle, request[c] # Idle
  PROVE  Table!Conflict(Locks[b], Locks[c]) <=> Conflict(request[b], request[c])
BY LockView DEF Table!Conflict, Conflict

LEMMA LocksStep ==
  ASSUME TypeOK, NEW c \in Client, NEW q, request' = [request EXCEPT ![c] = q]
  PROVE  Locks' = [Locks EXCEPT ![c] = abstract_lock(q)]
<1>1. \A b \in Client : request'[b] = IF b = c THEN q ELSE request[b]
  BY DEF TypeOK
<1>2. /\ Locks' = [b \in Client |-> abstract_lock(request'[b])]
      /\ Locks = [b \in Client |-> abstract_lock(request[b])]
  BY DEF Locks
<1> HIDE DEF abstract_lock
<1> QED
  BY <1>1, <1>2

LEMMA TableInit == Init => Table!Init
<1> SUFFICES ASSUME Init PROVE Table!Init
  OBVIOUS
<1>1. \A c \in Client :
        Locks[c] \in {Idle} \cup {Table!Lock("holding", d, N) : d \in Domain, N \in UnionLock}
  <2> SUFFICES ASSUME NEW c \in Client, request[c] # Idle
               PROVE  Locks[c] \in {Table!Lock("holding", d, N) : d \in Domain, N \in UnionLock}
    BY LockView
  <2>1. /\ request[c].pc = "holding"
        /\ request[c].domain \in Domain /\ request[c].names \in UnionLock
    BY DEF Init
  <2>2. Locks[c] = Table!Lock("holding", request[c].domain, request[c].names)
    BY <2>1, LockView DEF abstract_lock, Table!Lock
  <2> QED
    BY <2>1, <2>2
<1>2. Locks = [c \in Client |-> Locks[c]]
  BY DEF Locks
<1>3. Locks \in [Client -> {Idle} \cup
                   {Table!Lock("holding", d, N) : d \in Domain, N \in UnionLock}]
  BY <1>1, <1>2
<1>4. \A b, c \in Client :
        b # c /\ Table!Holding(b) /\ Table!Holding(c) => ~Table!Conflict(Locks[b], Locks[c])
  <2> SUFFICES ASSUME NEW b \in Client, NEW c \in Client, b # c, Holding(b), Holding(c)
               PROVE  ~Table!Conflict(Locks[b], Locks[c])
    BY LockView
  <2>1. request[b] # Idle /\ request[c] # Idle
    BY DEF Holding, Idle
  <2> QED
    BY <2>1, LockConflict DEF Init, MutualExclusion
<1> QED
  BY <1>3, <1>4 DEF Table!Init, Table!Exclusive, Table!UnionLock, Table!Idle, UnionLock, Idle, Locks

LEMMA TableStep == LockInv /\ [Next]_vars => [Table!Next]_Locks
<1> SUFFICES ASSUME LockInv, [Next]_vars
             PROVE  Table!Next \/ Locks' = Locks
  OBVIOUS
<1>0. TypeOK
  BY DEF LockInv
<1>1. ASSUME NEW c \in Client, NEW p \in Participant, NEW d \in Domain,
             NEW N \in UnionLock, Ask(c, p, d, N)
      PROVE  Table!Next
  <2> DEFINE q == [pc |-> "asking", domain |-> d, names |-> N, shard |-> route(mode[p], d)]
  <2>1. abstract_lock(q) = Table!Lock("asking", d, N)
    <3>1. q.pc # Idle.pc
      BY DEF Idle
    <3> QED
      BY <3>1 DEF abstract_lock, Table!Lock
  <2>2. Locks' = [Locks EXCEPT ![c] = abstract_lock(q)]
    BY <1>0, <1>1, LocksStep DEF Ask, route
  <2>3. Locks[c] = Idle
    BY <1>1, LockView DEF Ask
  <2> HIDE DEF q
  <2>4. Table!Ask(c, d, N)
    BY <2>1, <2>2, <2>3 DEF Table!Ask, Table!Idle, Idle, Locks
  <2> QED
    BY <2>4 DEF Table!Next, Table!UnionLock, UnionLock
<1>2. ASSUME NEW c \in Client, Grant(c)
      PROVE  Table!Next
  <2> DEFINE r == request[c]
             q == [pc |-> "holding", domain |-> r.domain, names |-> r.names, shard |-> r.shard]
  <2>1. r # Idle /\ r.pc = "asking"
    BY <1>2 DEF Grant, Idle
  <2>2. Locks[c].pc = "asking" /\ Locks[c].domain = r.domain /\ Locks[c].names = r.names
    BY <2>1, LockView
  <2>3. abstract_lock(q) = Table!Lock("holding", Locks[c].domain, Locks[c].names)
    <3>1. q.pc # Idle.pc
      BY DEF Idle
    <3> QED
      BY <2>2, <3>1 DEF abstract_lock, Table!Lock
  <2>4. Locks' = [Locks EXCEPT ![c] = abstract_lock(q)]
    BY <1>0, <1>2, LocksStep DEF Grant
  <2>5. ASSUME NEW b \in Client, Table!Holding(b)
        PROVE  ~Table!Conflict(Locks[b], Locks[c])
    <3>1. Holding(b) /\ request[b] # Idle
      BY <2>5, LockView DEF Holding, Idle
    <3>2. ~Conflict(request[b], request[c])
      BY <1>2, <3>1, GrantSeesAll
    <3> QED
      BY <2>1, <3>1, <3>2, LockConflict
  <2> HIDE DEF q, r
  <2>6. Table!Grant(c)
    BY <2>2, <2>3, <2>4, <2>5 DEF Table!Grant, Locks
  <2> QED
    BY <2>6 DEF Table!Next
<1>3. ASSUME NEW c \in Client, request[c] # Idle, request' = [request EXCEPT ![c] = Idle]
      PROVE  Table!Next
  <2>1. Locks' = [Locks EXCEPT ![c] = abstract_lock(Idle)]
    BY <1>0, <1>3, LocksStep
  <2>2. abstract_lock(Idle) = Idle
    BY DEF abstract_lock
  <2>3. Locks[c] # Idle
    <3>1. request[c].pc # "idle"
      BY <1>0, <1>3, ClientCases
    <3>2. Locks[c].pc # "idle"
      BY <1>3, <3>1, LockView
    <3> QED
      BY <3>2 DEF Idle
  <2>4. Table!Release(c)
    BY <2>1, <2>2, <2>3 DEF Table!Release, Table!Idle, Idle, Locks
  <2> QED
    BY <2>4 DEF Table!Next
<1>4. ASSUME NEW c \in Client, NEW p \in Participant, Release(c, p)
      PROVE  Table!Next
  <2>1. request[c] # Idle /\ request' = [request EXCEPT ![c] = Idle]
    BY <1>4 DEF Release, Holding, Idle
  <2> QED
    BY <1>3, <2>1
<1>5. ASSUME NEW c \in Client, GiveUp(c)
      PROVE  Table!Next
  <2>1. request[c] # Idle /\ request' = [request EXCEPT ![c] = Idle]
    BY <1>5 DEF GiveUp, Idle
  <2> QED
    BY <1>3, <2>1
<1>6. ASSUME UNCHANGED request
      PROVE  Locks' = Locks
  BY <1>6 DEF Locks
<1>7. ASSUME NEW m \in LockRoutingMode, Drain(m)
      PROVE  Locks' = Locks
  BY <1>6, <1>7 DEF Drain
<1>8. ASSUME NEW p \in Participant, Switch(p)
      PROVE  Locks' = Locks
  BY <1>6, <1>8 DEF Switch
<1>9. ASSUME Resume
      PROVE  Locks' = Locks
  BY <1>6, <1>9 DEF Resume
<1>10. CASE UNCHANGED vars
  BY <1>6, <1>10 DEF vars
<1> QED
  BY <1>1, <1>2, <1>4, <1>5, <1>7, <1>8, <1>9, <1>10 DEF Next

\* To its clients the sharded lock service is one table of union locks for each
\* domain, in either mode and through every coordinated migration.
THEOREM SpecUnionLocksAreOneTable == Spec => UnionLocksAreOneTable
<1>1. LockInv /\ [Next]_vars => [Table!Next]_([c \in Client |-> abstract_lock(request[c])])
  BY TableStep DEF Locks
<1> QED
  BY <1>1, TableInit, SpecLockInv, PTL DEF Spec, UnionLocksAreOneTable, Table!Spec

-----------------------------------------------------------------------------
\* The service registry beside the locks.

registry_home == service_discovery_shard(shard_count)

\* Only the shard of the reserved key holds registrations, and every question on its way
\* is headed there.
RegistryInv ==
  /\ registry \in [Shard -> SUBSET Service]
  /\ \A s \in Shard : s # registry_home => registry[s] = {}
  /\ query \in [Watcher -> {Idle} \cup [pc : {"asked"}, asks : Question, shard : {registry_home}]
                            \cup [pc : {"told"}, asks : Question, live : SUBSET Service]]

LEMMA RegistryHomeType == registry_home \in Shard
BY DiscoveryKeyAssumption, ShardCountAssumption, ShardForInRange
   DEF registry_home, service_discovery_shard, Shard

LEMMA AtHome ==
  ASSUME RegistryInv
  PROVE  UNION {registry[s] : s \in Shard} = registry[registry_home]
BY RegistryHomeType DEF RegistryInv

LEMMA RegistryInvInit == DiscoveryInit => RegistryInv
BY RegistryHomeType DEF DiscoveryInit, RegistryInv

LEMMA RegistryInvStep ==
  ASSUME RegistryInv, DiscoveryNext
  PROVE  RegistryInv'
<1>1. ASSUME NEW p \in Participant, NEW v \in Service, Register(p, v) \/ Deregister(p, v)
      PROVE  RegistryInv'
  <2>1. PICK V \in SUBSET Service : registry' = [registry EXCEPT ![registry_home] = V]
    <3>1. registry[registry_home] \in SUBSET Service
      BY RegistryHomeType DEF RegistryInv
    <3> QED
      BY <1>1, <3>1 DEF Register, Deregister, discovery_route, registry_home
  <2>2. query' = query
    BY <1>1 DEF Register, Deregister
  <2>3. registry' \in [Shard -> SUBSET Service]
    BY <2>1, RegistryHomeType DEF RegistryInv
  <2>4. \A s \in Shard : s # registry_home => registry'[s] = {}
    BY <2>1 DEF RegistryInv
  <2> QED
    BY <2>2, <2>3, <2>4 DEF RegistryInv, registry_home
<1>2. ASSUME NEW w \in Watcher, NEW q,
             q \in {Idle} \cup [pc : {"asked"}, asks : Question, shard : {registry_home}]
                     \cup [pc : {"told"}, asks : Question, live : SUBSET Service],
             query' = [query EXCEPT ![w] = q], UNCHANGED registry
      PROVE  RegistryInv'
  BY <1>2 DEF RegistryInv, registry_home
<1>3. ASSUME NEW p \in Participant, NEW w \in Watcher, NEW V \in Question, AskServices(w, p, V)
      PROVE  RegistryInv'
  <2>1. [pc |-> "asked", asks |-> V, shard |-> discovery_route(p)]
          \in [pc : {"asked"}, asks : Question, shard : {registry_home}]
    BY DEF discovery_route, registry_home
  <2> QED
    BY <1>2, <1>3, <2>1 DEF AskServices
<1>4. ASSUME NEW w \in Watcher, AnswerServices(w)
      PROVE  RegistryInv'
  <2>1. query[w] \in [pc : {"asked"}, asks : Question, shard : {registry_home}]
    BY <1>4 DEF AnswerServices, RegistryInv, Idle
  <2>2. registry[query[w].shard] \in SUBSET Service
    BY <2>1, RegistryHomeType DEF RegistryInv
  <2>3. [pc |-> "told", asks |-> query[w].asks,
         live |-> query[w].asks \cap registry[query[w].shard]]
          \in [pc : {"told"}, asks : Question, live : SUBSET Service]
    BY <2>1, <2>2
  <2> QED
    BY <1>2, <1>4, <2>3 DEF AnswerServices
<1>5. ASSUME NEW w \in Watcher, ForgetServices(w)
      PROVE  RegistryInv'
  BY <1>2, <1>5 DEF ForgetServices
<1> QED
  BY <1>1, <1>3, <1>4, <1>5 DEF DiscoveryNext

LEMMA SpecRegistryInv == CoordinationSpec => []RegistryInv
<1>1. CoordinationInit => RegistryInv
  BY RegistryInvInit DEF CoordinationInit
<1>2. RegistryInv /\ [CoordinationNext]_<<vars, discoveryVars>> => RegistryInv'
  <2>1. ASSUME RegistryInv, UNCHANGED discoveryVars PROVE RegistryInv'
    BY <2>1 DEF discoveryVars, RegistryInv, registry_home
  <2> QED
    BY <2>1, RegistryInvStep DEF CoordinationNext
<1> QED
  BY <1>1, <1>2, PTL DEF CoordinationSpec

Queries == [w \in Watcher |-> abstract_query(query[w])]
Registered == UNION {registry[s] : s \in Shard}

LEMMA QueryView ==
  ASSUME RegistryInv, NEW w \in Watcher
  PROVE  /\ query[w] = Idle <=> Queries[w] = Idle
         /\ query[w].pc = "asked" =>
              Queries[w] = [pc |-> "asked", asks |-> query[w].asks]
         /\ query[w].pc # "asked" => Queries[w] = query[w]
BY DEF RegistryInv, Queries, abstract_query, Idle

LEMMA QueryStep ==
  ASSUME RegistryInv, NEW w \in Watcher, NEW q, query' = [query EXCEPT ![w] = q]
  PROVE  Queries' = [Queries EXCEPT ![w] = abstract_query(q)]
<1>1. \A x \in Watcher : query'[x] = IF x = w THEN q ELSE query[x]
  BY DEF RegistryInv
<1>2. /\ Queries' = [x \in Watcher |-> abstract_query(query'[x])]
      /\ Queries = [x \in Watcher |-> abstract_query(query[x])]
  BY DEF Queries
<1> HIDE DEF abstract_query
<1> QED
  BY <1>1, <1>2

LEMMA DirectoryStep ==
  ASSUME RegistryInv, RegistryInv', DiscoveryNext
  PROVE  [Directory!Next]_<<Registered, Queries>>
<1>0. Registered = registry[registry_home] /\ Registered' = registry'[registry_home]
  <2>1. Registered = registry[registry_home]
    BY AtHome DEF Registered
  <2>2. UNION {registry'[s] : s \in Shard} = registry'[registry_home]
    BY RegistryHomeType DEF RegistryInv, registry_home
  <2> QED
    BY <2>1, <2>2 DEF Registered
<1>1. ASSUME NEW p \in Participant, NEW v \in Service, Register(p, v) \/ Deregister(p, v)
      PROVE  Directory!Next
  <2>1. Registered' \in {Registered \cup {v}, Registered \ {v}}
    BY <1>0, <1>1, RegistryHomeType
       DEF Register, Deregister, discovery_route, registry_home, RegistryInv
  <2>2. Queries' = Queries
    BY <1>1 DEF Queries, Register, Deregister
  <2> QED
    BY <2>1, <2>2 DEF Directory!Next, Directory!Change, Registered, Queries
<1>2. ASSUME NEW p \in Participant, NEW w \in Watcher, NEW V \in Question, AskServices(w, p, V)
      PROVE  Directory!Next
  <2> DEFINE q == [pc |-> "asked", asks |-> V, shard |-> discovery_route(p)]
  <2>1. Queries' = [Queries EXCEPT ![w] = abstract_query(q)]
    BY <1>2, QueryStep DEF AskServices
  <2>2. abstract_query(q) = [pc |-> "asked", asks |-> V]
    BY DEF abstract_query
  <2>3. Queries[w] = Idle /\ Registered' = Registered
    BY <1>2, QueryView DEF AskServices, Registered
  <2> HIDE DEF q
  <2>4. Directory!Ask(w, V)
    BY <2>1, <2>2, <2>3
       DEF Directory!Ask, Directory!Asked, Directory!Idle, Idle, Registered, Queries
  <2> QED
    BY <2>4 DEF Directory!Next, Directory!Question, Question
<1>3. ASSUME NEW w \in Watcher, AnswerServices(w)
      PROVE  Directory!Next
  <2> DEFINE q == [pc |-> "told", asks |-> query[w].asks,
                   live |-> query[w].asks \cap registry[query[w].shard]]
  <2>1. query[w] \in [pc : {"asked"}, asks : Question, shard : {registry_home}]
    BY <1>3 DEF AnswerServices, RegistryInv, Idle
  <2>2. Queries' = [Queries EXCEPT ![w] = abstract_query(q)]
    BY <1>3, QueryStep DEF AnswerServices
  <2>3. abstract_query(q) = q
    BY DEF abstract_query
  <2>4. Queries[w].pc = "asked" /\ Queries[w].asks = query[w].asks
    <3>1. query[w].pc = "asked"
      BY <2>1
    <3>2. Queries[w] = [pc |-> "asked", asks |-> query[w].asks]
      BY <3>1, QueryView
    <3> QED
      BY <3>2
  <2>5. registry[query[w].shard] = Registered /\ Registered' = Registered
    BY <1>0, <1>3, <2>1 DEF AnswerServices, Registered
  <2>6. q = Directory!Told(Queries[w].asks, Queries[w].asks \cap Registered)
    BY <2>4, <2>5 DEF Directory!Told
  <2> HIDE DEF q
  <2>7. Directory!Tell(w)
    BY <2>2, <2>3, <2>4, <2>5, <2>6 DEF Directory!Tell, Registered, Queries
  <2> QED
    BY <2>7 DEF Directory!Next
<1>4. ASSUME NEW w \in Watcher, ForgetServices(w)
      PROVE  Directory!Next
  <2>1. Queries' = [Queries EXCEPT ![w] = abstract_query(Idle)] /\ Registered' = Registered
    BY <1>4, QueryStep DEF ForgetServices, Registered
  <2>2. abstract_query(Idle) = Idle /\ Queries[w] # Idle
    BY <1>4, QueryView DEF ForgetServices, abstract_query, Idle
  <2>3. Directory!Forget(w)
    BY <2>1, <2>2 DEF Directory!Forget, Directory!Idle, Idle, Registered, Queries
  <2> QED
    BY <2>3 DEF Directory!Next
<1> QED
  BY <1>1, <1>2, <1>3, <1>4 DEF DiscoveryNext

\* Whatever the registry does next to the locks is a stutter of the locks: all that is
\* proved of LockRouting holds of the composition.
THEOREM CoordinationKeepsLocks == CoordinationSpec => Spec
<1>1. CoordinationInit => Init
  BY DEF CoordinationInit
<1>2. [CoordinationNext]_<<vars, discoveryVars>> => [Next]_vars
  BY DEF CoordinationNext
<1> QED
  BY <1>1, <1>2, PTL DEF CoordinationSpec, Spec

\* The same with fairness.
LEMMA FairCoordinationKeepsLocks == FairCoordinationSpec => FairSpec
BY CoordinationKeepsLocks, PTL DEF FairCoordinationSpec, FairSpec

\* Service discovery is one directory: a list or lookup through any participant is the
\* state of the whole registry at one instant, also while lock routing migrates.
THEOREM SpecServicesAreOneDirectory == CoordinationSpec => ServicesAreOneDirectory
<1>1. CoordinationInit => Directory!Init
  BY DEF CoordinationInit, DiscoveryInit, Directory!Init, Directory!Idle, Idle, abstract_query
<1>2. /\ RegistryInv /\ RegistryInv' /\ [CoordinationNext]_<<vars, discoveryVars>>
      => [Directory!Next]_<<UNION {registry[s] : s \in Shard},
                            [w \in Watcher |-> abstract_query(query[w])]>>
  <2>1. ASSUME UNCHANGED discoveryVars
        PROVE  UNCHANGED <<Registered, Queries>>
    BY <2>1 DEF discoveryVars, Registered, Queries
  <2> QED
    BY <2>1, DirectoryStep DEF CoordinationNext, Registered, Queries
<1> QED
  BY <1>1, <1>2, SpecRegistryInv, PTL
     DEF CoordinationSpec, ServicesAreOneDirectory, Directory!Spec
=============================================================================
