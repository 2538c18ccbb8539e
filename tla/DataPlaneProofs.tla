-------------------------- MODULE DataPlaneProofs --------------------------
(***************************************************************************)
(* What the request path guarantees for any clients, load balancers, orgs, *)
(* keys, hash, shard count and region lists, however the load balancers'   *)
(* lists drift.                                                            *)
(***************************************************************************)
EXTENDS DataPlane, RoutingProofs

-----------------------------------------------------------------------------
\* The framing of keys is unambiguous, for org ids and caller keys of any length and
\* content the code admits: no caller key, however it embeds delimiters, is stored under,
\* or listed by, another org.

\* What stands where in a scoped key.
LEMMA ScopedKeyShape ==
  ASSUME NEW o \in Str, NEW k \in Str
  PROVE  LET s == org_scoped_key(o, k)
         IN  /\ s \in Str
             /\ Len(s) = Len(o) + Len(k) + 2
             /\ s[1] = ORG_SCOPE_DELIM
             /\ \A i \in 1 .. Len(o) : s[i + 1] = o[i]
             /\ s[Len(o) + 2] = ORG_SCOPE_DELIM
             /\ \A j \in 1 .. Len(k) : s[Len(o) + 2 + j] = k[j]
<1> DEFINE D == ORG_SCOPE_DELIM
           head == <<D>> \o o
           pre  == head \o <<D>>
           s    == pre \o k
<1>1. D \in Symbol
  BY DEF Symbol
<1> HIDE DEF D
<1>2. head \in Seq(Symbol) /\ Len(head) = Len(o) + 1
  BY <1>1 DEF Str
<1>3. head[1] = D /\ \A i \in 1 .. Len(o) : head[i + 1] = o[i]
  BY <1>1 DEF Str
<1> HIDE DEF head
<1>4. pre \in Seq(Symbol) /\ Len(pre) = Len(o) + 2
  BY <1>1, <1>2 DEF Str
<1>5. pre[Len(o) + 2] = D /\ \A i \in 1 .. Len(o) + 1 : pre[i] = head[i]
  BY <1>1, <1>2 DEF Str
<1> HIDE DEF pre
<1>6. s \in Seq(Symbol) /\ Len(s) = Len(o) + Len(k) + 2
  BY <1>4 DEF Str
<1>7. \A i \in 1 .. Len(o) + 2 : s[i] = pre[i]
  BY <1>4 DEF Str
<1>8. \A j \in 1 .. Len(k) : s[Len(o) + 2 + j] = k[j]
  BY <1>4 DEF Str
<1>9. org_scoped_key(o, k) = s
  BY <1>1 DEF org_scoped_key, s, pre, head, D, Str
<1> HIDE DEF s
<1>10. Len(o) \in Nat /\ Len(k) \in Nat
  BY DEF Str
<1>11. s[1] = D /\ s[Len(o) + 2] = D
  BY <1>3, <1>5, <1>7, <1>10
<1>12. \A i \in 1 .. Len(o) : s[i + 1] = o[i]
  BY <1>3, <1>5, <1>7, <1>10
<1> QED
  BY <1>6, <1>8, <1>9, <1>11, <1>12 DEF Str, D

\* Two scoped keys that begin alike up to the end of one org id are of one org.
LEMMA OrgEndsAtDelimiter ==
  ASSUME NEW o1 \in OrgId, NEW o2 \in OrgId, NEW k1 \in Str, NEW k2 \in Str,
         Len(o1) + 2 <= Len(org_scoped_key(o2, k2)),
         \A i \in 1 .. Len(o1) + 2 : org_scoped_key(o1, k1)[i] = org_scoped_key(o2, k2)[i]
  PROVE  o1 = o2
<1> DEFINE s1 == org_scoped_key(o1, k1)
           s2 == org_scoped_key(o2, k2)
<1>1. /\ o1 \in Str /\ o2 \in Str
      /\ \A i \in 1 .. Len(o1) : o1[i] # ORG_SCOPE_DELIM
      /\ \A i \in 1 .. Len(o2) : o2[i] # ORG_SCOPE_DELIM
      /\ Len(o1) \in Nat /\ Len(o2) \in Nat
  BY OrgIdAssumption DEF Str
<1>2. /\ \A i \in 1 .. Len(o1) : s1[i + 1] = o1[i]
      /\ s1[Len(o1) + 2] = ORG_SCOPE_DELIM
  BY <1>1, ScopedKeyShape
<1>3. /\ \A i \in 1 .. Len(o2) : s2[i + 1] = o2[i]
      /\ s2[Len(o2) + 2] = ORG_SCOPE_DELIM
  BY <1>1, ScopedKeyShape
<1> HIDE DEF s1, s2
<1>4. \A i \in 1 .. Len(o1) + 2 : s1[i] = s2[i]
  BY DEF s1, s2
<1>5. ~(Len(o1) < Len(o2))
  <2> SUFFICES ASSUME Len(o1) < Len(o2) PROVE FALSE
    OBVIOUS
  <2>1. Len(o1) + 1 \in 1 .. Len(o2) /\ Len(o1) + 1 + 1 = Len(o1) + 2
    BY <1>1
  <2>2. s2[Len(o1) + 2] = o2[Len(o1) + 1]
    BY <1>3, <2>1
  <2> QED
    BY <1>1, <1>2, <1>4, <2>1, <2>2
<1>6. ~(Len(o2) < Len(o1))
  <2> SUFFICES ASSUME Len(o2) < Len(o1) PROVE FALSE
    OBVIOUS
  <2>1. Len(o2) + 1 \in 1 .. Len(o1) /\ Len(o2) + 1 + 1 = Len(o2) + 2
    BY <1>1
  <2>2. s1[Len(o2) + 2] = o1[Len(o2) + 1]
    BY <1>2, <2>1
  <2>3. Len(o2) + 2 \in 1 .. Len(o1) + 2
    BY <1>1, <2>1
  <2> QED
    BY <1>1, <1>3, <1>4, <2>1, <2>2, <2>3
<1>7. Len(o1) = Len(o2)
  BY <1>1, <1>5, <1>6
<1>8. \A i \in 1 .. Len(o1) : o1[i] = o2[i]
  <2> TAKE i \in 1 .. Len(o1)
  <2>1. i + 1 \in 1 .. Len(o1) + 2
    BY <1>1
  <2> QED
    BY <1>2, <1>3, <1>4, <1>7, <2>1
<1> QED
  BY <1>1, <1>7, <1>8, SeqEqual DEF Str

\* org_scoped_key is injective: a crafted caller key cannot address another org's
\* key, nor can two keys of one org meet.
THEOREM ScopedKeyInjective ==
  ASSUME NEW o1 \in OrgId, NEW o2 \in OrgId, NEW k1 \in Str, NEW k2 \in Str,
         org_scoped_key(o1, k1) = org_scoped_key(o2, k2)
  PROVE  o1 = o2 /\ k1 = k2
<1>1. o1 \in Str /\ Len(o1) \in Nat /\ Len(k1) \in Nat /\ Len(k2) \in Nat
  BY OrgIdAssumption DEF Str
<1>2. Len(org_scoped_key(o1, k1)) = Len(o1) + Len(k1) + 2
  BY <1>1, ScopedKeyShape
<1>3. o1 = o2
  BY <1>1, <1>2, OrgEndsAtDelimiter
<1>4. Len(k1) = Len(k2)
  BY <1>1, <1>2, <1>3, ScopedKeyShape
<1>5. \A j \in 1 .. Len(k1) : k1[j] = k2[j]
  <2>1. \A j \in 1 .. Len(k1) : org_scoped_key(o1, k1)[Len(o1) + 2 + j] = k1[j]
    BY <1>1, ScopedKeyShape
  <2>2. \A j \in 1 .. Len(k2) : org_scoped_key(o1, k2)[Len(o1) + 2 + j] = k2[j]
    BY <1>1, ScopedKeyShape
  <2>3. org_scoped_key(o1, k1) = org_scoped_key(o1, k2)
    BY <1>3
  <2> HIDE DEF org_scoped_key
  <2> QED
    BY <2>1, <2>2, <2>3, <1>4
<1> QED
  BY <1>3, <1>4, <1>5, SeqEqual DEF Str

\* Whatever key k stands for, a scoped key carries its own org's prefix ...
LEMMA OwnPrefix ==
  ASSUME NEW o \in OrgId, NEW k \in Str
  PROVE  /\ Len(org_scope_prefix(o)) = Len(o) + 2
         /\ Len(o) + 2 <= Len(org_scoped_key(o, k))
         /\ \A i \in 1 .. Len(o) + 2 : org_scope_prefix(o)[i] = org_scoped_key(o, k)[i]
<1> DEFINE s == org_scoped_key(o, k)
           p == org_scope_prefix(o)
<1>1. o \in Str /\ <<>> \in Str /\ Len(o) \in Nat /\ Len(k) \in Nat /\ Len(<<>>) = 0
  BY OrgIdAssumption DEF Str
<1>2. /\ Len(s) = Len(o) + Len(k) + 2
      /\ s[1] = ORG_SCOPE_DELIM
      /\ \A i \in 1 .. Len(o) : s[i + 1] = o[i]
      /\ s[Len(o) + 2] = ORG_SCOPE_DELIM
  BY <1>1, ScopedKeyShape
<1>3. /\ Len(p) = Len(o) + 2
      /\ p[1] = ORG_SCOPE_DELIM
      /\ \A i \in 1 .. Len(o) : p[i + 1] = o[i]
      /\ p[Len(o) + 2] = ORG_SCOPE_DELIM
  <2>1. Len(p) = Len(o) + Len(<<>>) + 2
    BY <1>1, ScopedKeyShape DEF org_scope_prefix
  <2> QED
    BY <1>1, <2>1, ScopedKeyShape DEF org_scope_prefix
<1> HIDE DEF s, p
<1>4. \A i \in 1 .. Len(o) + 2 : p[i] = s[i]
  <2> TAKE i \in 1 .. Len(o) + 2
  <2>1. CASE i = 1
    BY <2>1, <1>2, <1>3
  <2>2. CASE i = Len(o) + 2
    BY <2>2, <1>2, <1>3
  <2>3. CASE i # 1 /\ i # Len(o) + 2
    <3>1. i - 1 \in 1 .. Len(o) /\ i - 1 + 1 = i
      BY <2>3, <1>1
    <3>2. p[i - 1 + 1] = o[i - 1] /\ s[i - 1 + 1] = o[i - 1]
      BY <3>1, <1>2, <1>3
    <3> QED
      BY <3>1, <3>2
  <2> QED
    BY <2>1, <2>2, <2>3
<1> QED
  BY <1>1, <1>2, <1>3, <1>4 DEF s, p

\* ... and no other's.
LEMMA ForeignPrefix ==
  ASSUME NEW o1 \in OrgId, NEW o2 \in OrgId, NEW k \in Str,
         in_org_scope(o1, org_scoped_key(o2, k))
  PROVE  o1 = o2
<1> DEFINE p == org_scope_prefix(o1)
           s == org_scoped_key(o2, k)
<1>1. o1 \in Str /\ o2 \in Str /\ <<>> \in Str /\ Len(o1) \in Nat /\ Len(<<>>) = 0
  BY OrgIdAssumption DEF Str
<1>2. s \in Str /\ p \in Str /\ p = org_scoped_key(o1, <<>>)
  BY <1>1, ScopedKeyShape DEF org_scope_prefix
<1>3. Len(p) = Len(o1) + 2
  BY OwnPrefix, <1>1
<1>4. Len(p) <= Len(s) /\ SubSeq(p, 1, Len(p)) = SubSeq(s, 1, Len(p))
  BY DEF in_org_scope, IsPrefix
<1> HIDE DEF p, s
<1>5. \A i \in 1 .. Len(p) : p[i] = s[i]
  <2> TAKE i \in 1 .. Len(p)
  <2>1. SubSeq(p, 1, Len(p))[i] = p[i]
    BY <1>2 DEF Str
  <2>2. SubSeq(s, 1, Len(p))[i] = s[i]
    BY <1>2, <1>4 DEF Str
  <2> QED
    BY <2>1, <2>2, <1>4
<1> QED
  BY <1>1, <1>2, <1>3, <1>4, <1>5, OrgEndsAtDelimiter DEF s

\* The filter "a scoped key that doesn't start with it belongs to a different org" lets
\* through every key of the org, and none of another.
THEOREM PrefixFilterExact ==
  ASSUME NEW o1 \in OrgId, NEW o2 \in OrgId, NEW k \in Str
  PROVE  in_org_scope(o1, org_scoped_key(o2, k)) <=> o1 = o2
<1>1. in_org_scope(o1, org_scoped_key(o2, k)) => o1 = o2
  BY ForeignPrefix
<1>2. in_org_scope(o2, org_scoped_key(o2, k))
  <2> DEFINE p == org_scope_prefix(o2)
             s == org_scoped_key(o2, k)
             n == Len(p)
  <2>1. o2 \in Str /\ <<>> \in Str /\ Len(o2) \in Nat
    BY OrgIdAssumption DEF Str
  <2>2. s \in Seq(Symbol) /\ p \in Seq(Symbol)
    BY <2>1, ScopedKeyShape DEF org_scope_prefix, Str
  <2>3. n \in Nat /\ n <= Len(s) /\ \A i \in 1 .. n : p[i] = s[i]
    BY <2>1, OwnPrefix
  <2> HIDE DEF p, s
  <2>4. SubSeq(p, 1, n) = SubSeq(s, 1, n)
    <3> DEFINE a == SubSeq(p, 1, n)
               b == SubSeq(s, 1, n)
    <3>1. a \in Seq(Symbol) /\ b \in Seq(Symbol) /\ Len(a) = n /\ Len(b) = n
      BY <2>2, <2>3
    <3>2. \A i \in 1 .. n : a[i] = p[i] /\ b[i] = s[i]
      BY <2>2, <2>3
    <3> HIDE DEF a, b
    <3>3. a = b
      BY <2>3, <3>1, <3>2, SeqEqual
    <3> QED
      BY <3>3 DEF a, b
  <2> QED
    BY <2>3, <2>4 DEF in_org_scope, IsPrefix, p, s
<1> QED
  BY <1>1, <1>2

\* Stripping the prefix gives the caller's key back.
THEOREM StripInverse ==
  ASSUME NEW o \in OrgId, NEW k \in Str
  PROVE  strip_org_scope(o, org_scoped_key(o, k)) = k
<1> DEFINE s == org_scoped_key(o, k)
           t == SubSeq(s, Len(o) + 2 + 1, Len(s))
<1>1. o \in Str /\ Len(o) \in Nat /\ Len(k) \in Nat
  BY OrgIdAssumption DEF Str
<1>2. /\ s \in Seq(Symbol)
      /\ Len(s) = Len(o) + Len(k) + 2
      /\ \A j \in 1 .. Len(k) : s[Len(o) + 2 + j] = k[j]
  BY <1>1, ScopedKeyShape DEF Str
<1>3. strip_org_scope(o, s) = t
  BY OwnPrefix DEF strip_org_scope
<1> HIDE DEF s
<1>4. t \in Seq(Symbol) /\ Len(t) = Len(k)
  BY <1>1, <1>2
<1>5. \A j \in 1 .. Len(k) : t[j] = s[Len(o) + 2 + j]
  <2> TAKE j \in 1 .. Len(k)
  <2>1. Len(o) + 2 + 1 + j - 1 = Len(o) + 2 + j
    BY <1>1
  <2>2. t[j] = s[Len(o) + 2 + 1 + j - 1]
    BY <1>1, <1>2
  <2> QED
    BY <2>1, <2>2
<1> HIDE DEF t
<1>6. t = k
  BY <1>1, <1>2, <1>4, <1>5, SeqEqual DEF Str
<1> QED
  BY <1>3, <1>6 DEF s

\* A reserved coordination key is nobody's scoped key.
LEMMA ReservedKeysApart ==
  ASSUME NEW o \in OrgId, NEW k \in Str
  PROVE  /\ org_scoped_key(o, k) # LOCK_COORDINATION_KEY
         /\ org_scoped_key(o, k) # SERVICE_DISCOVERY_KEY
         /\ LOCK_COORDINATION_KEY # SERVICE_DISCOVERY_KEY
<1>1. org_scoped_key(o, k)[1] = ORG_SCOPE_DELIM
  <2>1. o \in Str
    BY OrgIdAssumption
  <2> QED
    BY <2>1, ScopedKeyShape
<1>2. LOCK_COORDINATION_KEY[1] = NUL /\ SERVICE_DISCOVERY_KEY[1] = NUL
  BY DEF LOCK_COORDINATION_KEY, SERVICE_DISCOVERY_KEY
<1>3. NUL # ORG_SCOPE_DELIM
  <2>1. NUL.sym # ORG_SCOPE_DELIM.sym
    BY DEF NUL, ORG_SCOPE_DELIM
  <2> QED
    BY <2>1
<1>4. LOCK_COORDINATION_KEY[2].of # SERVICE_DISCOVERY_KEY[2].of
  BY DEF LOCK_COORDINATION_KEY, SERVICE_DISCOVERY_KEY, Tag
<1> QED
  BY <1>1, <1>2, <1>3, <1>4

\* A concatenation, by position.
LEMMA ConcatAt ==
  ASSUME NEW S, NEW s1 \in Seq(S), NEW s2 \in Seq(S)
  PROVE  /\ s1 \o s2 \in Seq(S)
         /\ Len(s1 \o s2) = Len(s1) + Len(s2)
         /\ \A i \in 1 .. Len(s1) : (s1 \o s2)[i] = s1[i]
         /\ \A j \in 1 .. Len(s2) : (s1 \o s2)[Len(s1) + j] = s2[j]
OBVIOUS

LEMMA ConcatThree ==
  ASSUME NEW S, NEW a \in Seq(S), NEW b \in Seq(S), NEW c \in Seq(S)
  PROVE  /\ Len(a \o b \o c) = Len(a) + Len(b) + Len(c)
         /\ \A i \in 1 .. Len(a) : (a \o b \o c)[i] = a[i]
         /\ \A j \in 1 .. Len(b) : (a \o b \o c)[Len(a) + j] = b[j]
         /\ \A j \in 1 .. Len(c) : (a \o b \o c)[Len(a) + Len(b) + j] = c[j]
<1> DEFINE ab == a \o b
<1>1. /\ ab \in Seq(S) /\ Len(ab) = Len(a) + Len(b)
      /\ \A i \in 1 .. Len(a) : ab[i] = a[i]
      /\ \A j \in 1 .. Len(b) : ab[Len(a) + j] = b[j]
  BY ConcatAt
<1>2. ab \in Seq(S)
  BY <1>1
<1> HIDE DEF ab
<1>3. /\ Len(ab \o c) = Len(ab) + Len(c)
      /\ \A i \in 1 .. Len(ab) : (ab \o c)[i] = ab[i]
      /\ \A j \in 1 .. Len(c) : (ab \o c)[Len(ab) + j] = c[j]
  BY <1>2, ConcatAt
<1>4. Len(a) \in Nat /\ Len(b) \in Nat
  OBVIOUS
<1>5. /\ 1 .. Len(a) \subseteq 1 .. Len(a) + Len(b)
      /\ \A j \in 1 .. Len(b) : Len(a) + j \in 1 .. Len(a) + Len(b)
  BY <1>4
<1> DEFINE s == ab \o c
<1> HIDE DEF s
<1>6. /\ Len(s) = Len(a) + Len(b) + Len(c)
      /\ \A i \in 1 .. Len(a) : s[i] = a[i]
      /\ \A j \in 1 .. Len(b) : s[Len(a) + j] = b[j]
      /\ \A j \in 1 .. Len(c) : s[Len(a) + Len(b) + j] = c[j]
  BY <1>1, <1>3, <1>5 DEF s
<1> QED
  BY <1>6 DEF s, ab

\* What stands where in a lock-domain key.
LEMMA DomainKeyShape ==
  ASSUME NEW d \in LockCoordinationDomain
  PROVE  LET s == lock_coordination_domain_key(d)
         IN  /\ Len(s) = Len(d.id) + 7
             /\ s[1] = NUL
             /\ s[2] = Tag("fiducia-lock-domain-v1")
             /\ s[4] = Tag(d.kind)
             /\ \A j \in 1 .. Len(d.id) : s[7 + j] = d.id[j]
<1> DEFINE S == Symbol \cup {Tag(t) : t \in DomainKind \cup {"fiducia-lock-domain-v1"}}
                       \cup {Dec(n) : n \in Nat}
           id == d.id
           a  == LOCK_COORDINATION_DOMAIN_V1_PREFIX
           b  == <<NUL, Tag(d.kind), NUL, Dec(Len(d.id)), NUL>>
           s  == a \o b \o id
<1>1. d.id \in Str /\ d.kind \in DomainKind
  BY DEF LockCoordinationDomain
<1>2. Len(d.id) \in Nat /\ d.id \in Seq(Symbol)
  BY <1>1 DEF Str
<1>3. NUL \in S
  BY DEF Symbol
<1>4. Tag(d.kind) \in S /\ Tag("fiducia-lock-domain-v1") \in S
  BY <1>1
<1>5. Dec(Len(d.id)) \in S
  BY <1>2
<1>6. id \in Seq(S)
  BY <1>2
<1>idlen. Len(id) \in Nat
  BY <1>2
<1> HIDE DEF S
<1>7. a \in Seq(S) /\ b \in Seq(S)
  BY <1>3, <1>4, <1>5 DEF LOCK_COORDINATION_DOMAIN_V1_PREFIX
<1>8. Len(a) = 2 /\ a[1] = NUL /\ a[2] = Tag("fiducia-lock-domain-v1")
  BY DEF LOCK_COORDINATION_DOMAIN_V1_PREFIX
<1>9. Len(b) = 5 /\ b[2] = Tag(d.kind)
  OBVIOUS
<1>10. lock_coordination_domain_key(d) = s
  BY DEF lock_coordination_domain_key
<1> HIDE DEF a, b, id
<1>11. /\ Len(s) = Len(a) + Len(b) + Len(id)
       /\ \A i \in 1 .. Len(a) : s[i] = a[i]
       /\ \A j \in 1 .. Len(b) : s[Len(a) + j] = b[j]
       /\ \A j \in 1 .. Len(id) : s[Len(a) + Len(b) + j] = id[j]
  BY <1>6, <1>7, ConcatThree
<1> HIDE DEF s
<1>12. s[1] = a[1] /\ s[2] = a[2] /\ s[4] = b[2]
  <2>1. 1 \in 1 .. Len(a) /\ 2 \in 1 .. Len(a) /\ 2 \in 1 .. Len(b) /\ Len(a) + 2 = 4
    BY <1>8, <1>9
  <2> QED
    BY <2>1, <1>11
<1>13. Len(s) = Len(id) + 7 /\ \A j \in 1 .. Len(id) : s[7 + j] = id[j]
  <2>1. Len(a) + Len(b) = 7
    BY <1>8, <1>9
  <2> QED
    BY <2>1, <1>idlen, <1>11
<1> QED
  BY <1>8, <1>9, <1>10, <1>12, <1>13 DEF id

\* Two coordination domains, of whatever kinds and with whatever characters in their
\* ids, never have one key: no id makes a tenant look like a shared or system domain.
THEOREM DomainKeyInjective ==
  ASSUME NEW d1 \in LockCoordinationDomain, NEW d2 \in LockCoordinationDomain,
         lock_coordination_domain_key(d1) = lock_coordination_domain_key(d2)
  PROVE  d1 = d2
<1>1. Tag(d1.kind) = Tag(d2.kind) /\ Len(d1.id) + 7 = Len(d2.id) + 7
  BY DomainKeyShape
<1>2. d1.id \in Str /\ d2.id \in Str /\ Len(d1.id) \in Nat /\ Len(d2.id) \in Nat
  BY DEF LockCoordinationDomain, Str
<1>3. d1.kind = d2.kind
  BY <1>1 DEF Tag
<1>4. Len(d1.id) = Len(d2.id)
  BY <1>1, <1>2
<1>5. \A j \in 1 .. Len(d1.id) : d1.id[j] = d2.id[j]
  <2> TAKE j \in 1 .. Len(d1.id)
  <2>1. lock_coordination_domain_key(d1)[7 + j] = d1.id[j]
    BY DomainKeyShape
  <2>2. lock_coordination_domain_key(d2)[7 + j] = d2.id[j]
    BY DomainKeyShape, <1>4
  <2> QED
    BY <2>1, <2>2
<1>6. d1.id = d2.id
  BY <1>2, <1>4, <1>5, SeqEqual DEF Str
<1> QED
  BY <1>3, <1>6 DEF LockCoordinationDomain

\* Nor does a lock-domain key meet a reserved key or caller data.
LEMMA DomainKeysApart ==
  ASSUME NEW d \in LockCoordinationDomain, NEW o \in OrgId, NEW k \in Str
  PROVE  /\ lock_coordination_domain_key(d) # org_scoped_key(o, k)
         /\ lock_coordination_domain_key(d) # LOCK_COORDINATION_KEY
         /\ lock_coordination_domain_key(d) # SERVICE_DISCOVERY_KEY
<1>1. /\ lock_coordination_domain_key(d)[1] = NUL
      /\ lock_coordination_domain_key(d)[2].of = "fiducia-lock-domain-v1"
  <2>1. lock_coordination_domain_key(d)[2] = Tag("fiducia-lock-domain-v1")
    BY DomainKeyShape
  <2>2. Tag("fiducia-lock-domain-v1").of = "fiducia-lock-domain-v1"
    BY DEF Tag
  <2> QED
    BY <2>1, <2>2, DomainKeyShape
<1>2. org_scoped_key(o, k)[1] = ORG_SCOPE_DELIM
  <2>1. o \in Str
    BY OrgIdAssumption
  <2> QED
    BY <2>1, ScopedKeyShape
<1>3. NUL # ORG_SCOPE_DELIM
  <2>1. NUL.sym # ORG_SCOPE_DELIM.sym
    BY DEF NUL, ORG_SCOPE_DELIM
  <2> QED
    BY <2>1
<1>4. /\ LOCK_COORDINATION_KEY[2].of = "fiducia-lock-coordinator"
      /\ SERVICE_DISCOVERY_KEY[2].of = "fiducia-service-discovery"
  BY DEF LOCK_COORDINATION_KEY, SERVICE_DISCOVERY_KEY, Tag
<1> HIDE DEF lock_coordination_domain_key
<1> QED
  BY <1>1, <1>2, <1>3, <1>4

\* Caller data, the lock coordinator, service discovery and the lock domains each have keys
\* of their own: whatever a caller's key or a domain's identifier contains, it is never
\* stored or granted under a key of another kind.
THEOREM KeyKindsDisjoint ==
  ASSUME NEW o \in OrgId, NEW k \in Str, NEW d \in LockCoordinationDomain
  PROVE  LET scoped  == org_scoped_key(o, k)
             domain  == lock_coordination_domain_key(d)
         IN  /\ scoped \notin {LOCK_COORDINATION_KEY, SERVICE_DISCOVERY_KEY, domain}
             /\ domain \notin {LOCK_COORDINATION_KEY, SERVICE_DISCOVERY_KEY}
             /\ LOCK_COORDINATION_KEY # SERVICE_DISCOVERY_KEY
BY ReservedKeysApart, DomainKeysApart, Zenon

-----------------------------------------------------------------------------
\* The request path.

\* Whatever region list a participant holds, it names a shard that exists.
LEMMA ShardOfInRange ==
  ASSUME NEW o \in OrgId, NEW k \in UserKey, NEW r \in RegionName, NEW rs \in RegionLists
  PROVE  shard_of(o, k, r, rs) \in Shard
<1>1. Scope[k] \in KeyScope /\ org_scoped_key(o, k) \in Key
  BY ScopeAssumption, KeyAssumption
<1>2. IsRegionList(rs) /\ shard_count \in Word /\ shard_count > 0
  BY RegionListsAssumption, ShardCountAssumption
<1> QED
  BY <1>1, <1>2, RouteInRange DEF shard_of, Shard

\* A region name stands for a region of the cluster.
LEMMA HomeRegionType ==
  ASSUME NEW k \in UserKey, NEW r \in RegionName
  PROVE  home_region(k, r) \in HomeRegion
<1>1. IsRegionList(ClusterRegions)
  BY RegionListsAssumption
<1>2. CASE Scope[k] = "Global"
  BY <1>2 DEF home_region, HomeRegion
<1>3. CASE Scope[k] # "Global" /\ ClusterRegions = <<>>
  <2>1. region_matches(r, ClusterRegions) = {}
    BY <1>3 DEF region_matches
  <2> QED
    BY <1>3, <2>1 DEF home_region, HomeRegion, region_index_or, region_known, DEFAULT_REGION_INDEX
<1>4. CASE Scope[k] # "Global" /\ ClusterRegions # <<>>
  BY <1>1, <1>4, ResolvedIndex DEF home_region, HomeRegion
<1> QED
  BY <1>2, <1>3, <1>4

\* The client record of a request on its way, and of one that is answered.
Request ==
  [pc : {"forwarded"}, op : {"put", "get"}, org : OrgId, key : UserKey,
   region : RegionName, val : Value \cup {Absent}, shard : Shard]

Answered ==
  [pc : {"answered"}, op : {"put", "get"}, org : OrgId, key : UserKey,
   region : RegionName, val : Value \cup {Absent}, shard : Shard,
   ret : Value \cup {Absent}]

LEMMA ClientCases ==
  ASSUME TypeOK, NEW c \in Client
  PROVE  /\ client[c] \in {Idle} \cup Request \cup Answered
         /\ client[c].pc = "forwarded" => client[c] \in Request
         /\ client[c] # Idle => client[c] \in Request \cup Answered
BY DEF TypeOK, ClientState, Request, Answered, Idle

LEMMA AnswerType ==
  ASSUME NEW c \in Client, client[c] \in Request, NEW ret \in Value \cup {Absent}
  PROVE  Answer(c, ret) \in Answered
BY DEF Request, Answered, Answer

-----------------------------------------------------------------------------
\* Type correctness: in particular every shard ever named by a load balancer or a
\* node exists.

THEOREM SpecTypeOK == Spec => []TypeOK
<1>1. Init => TypeOK
  BY DEF Init, TypeOK, ClientState
<1>2. TypeOK /\ [Next]_vars => TypeOK'
  <2> SUFFICES ASSUME TypeOK, [Next]_vars PROVE TypeOK'
    OBVIOUS
  <2>1. ASSUME NEW c \in Client, NEW l \in LB, NEW o \in OrgId, NEW k \in UserKey,
               NEW r \in RegionName, NEW op \in {"put", "get"},
               NEW v \in Value \cup {Absent}, Forward(c, l, op, o, k, r, v)
        PROVE  TypeOK'
    <3>1. lbRegions[l] \in RegionLists
      BY DEF TypeOK
    <3>2. shard_of(o, k, r, lbRegions[l]) \in Shard
      BY <3>1, ShardOfInRange
    <3> DEFINE q == [pc |-> "forwarded", op |-> op, org |-> o, key |-> k, region |-> r,
                     val |-> v, shard |-> shard_of(o, k, r, lbRegions[l])]
    <3>3. q \in ClientState
      BY <3>2 DEF ClientState
    <3> HIDE DEF q
    <3>4. client' = [client EXCEPT ![c] = q] /\ UNCHANGED <<lbRegions, store>>
      BY <2>1 DEF Forward, q
    <3> QED
      BY <3>3, <3>4 DEF TypeOK
  <2>2. ASSUME NEW c \in Client, NEW l \in LB, NEW o \in OrgId, NEW k \in UserKey,
               NEW r \in RegionName, ForwardPut(c, l, o, k, r) \/ ForwardGet(c, l, o, k, r)
        PROVE  TypeOK'
    <3>1. \A p \in Payload : [org |-> o, ri |-> home_region(k, r), payload |-> p] \in Value
      BY HomeRegionType DEF Value
    <3> QED
      BY <2>1, <2>2, <3>1 DEF ForwardPut, ForwardGet
  <2>3. ASSUME NEW c \in Client, NodePut(c)
        PROVE  TypeOK'
    <3> DEFINE r   == client[c]
               own == shard_of(r.org, r.key, r.region, ClusterRegions)
               sk  == org_scoped_key(r.org, r.key)
    <3>1. r \in Request
      BY <2>3, ClientCases DEF NodePut
    <3>2. /\ r.org \in OrgId /\ r.key \in UserKey /\ r.region \in RegionName
          /\ r.val \in Value \cup {Absent}
      BY <3>1 DEF Request
    <3>3. own \in Shard /\ sk \in Key
      BY <3>2, ShardOfInRange, RegionListsAssumption, KeyAssumption
    <3>4. Answer(c, r.val) \in ClientState
      BY <3>1, <3>2, AnswerType DEF ClientState, Answered
    <3>5. /\ store' = [store EXCEPT ![own][sk] = r.val]
          /\ client' = [client EXCEPT ![c] = Answer(c, r.val)]
          /\ UNCHANGED lbRegions
      BY <2>3 DEF NodePut
    <3> HIDE DEF own, sk, r
    <3>6. store' \in [Shard -> [Key -> Value \cup {Absent}]]
      BY <3>2, <3>3, <3>5 DEF TypeOK
    <3> QED
      BY <3>4, <3>5, <3>6 DEF TypeOK
  <2>4. ASSUME NEW c \in Client, NodeGet(c)
        PROVE  TypeOK'
    <3> DEFINE r   == client[c]
               ret == store[r.shard][org_scoped_key(r.org, r.key)]
    <3>1. r \in Request
      BY <2>4, ClientCases DEF NodeGet
    <3>2. r.org \in OrgId /\ r.key \in UserKey /\ r.shard \in Shard
      BY <3>1 DEF Request
    <3>3. ret \in Value \cup {Absent}
      BY <3>2, KeyAssumption DEF TypeOK
    <3>4. Answer(c, ret) \in ClientState
      BY <3>1, <3>3, AnswerType DEF ClientState, Answered
    <3>5. client' = [client EXCEPT ![c] = Answer(c, ret)] /\ UNCHANGED <<lbRegions, store>>
      BY <2>4 DEF NodeGet
    <3> HIDE DEF ret, r
    <3> QED
      BY <3>4, <3>5 DEF TypeOK
  <2>5. ASSUME NEW c \in Client, Finish(c)
        PROVE  TypeOK'
    BY <2>5 DEF Finish, TypeOK, ClientState
  <2>6. ASSUME NEW l \in LB, Reload(l)
        PROVE  TypeOK'
    BY <2>6 DEF Reload, TypeOK
  <2>7. CASE UNCHANGED vars
    BY <2>7 DEF TypeOK, vars
  <2> QED
    BY <2>2, <2>3, <2>4, <2>5, <2>6, <2>7 DEF Next
<1> QED
  BY <1>1, <1>2, PTL DEF Spec

-----------------------------------------------------------------------------
\* Where the copies of a key are.  GlobalSingleHome speaks of pairs of copies; what is
\* inductive is where each copy is and where each request is headed.

home(o, k) == shard_for(org_scoped_key(o, k), shard_count)

CopiesAtHome ==
  \A o \in OrgId, k \in UserKey, s \in Shard :
    Scope[k] = "Global" /\ store[s][org_scoped_key(o, k)] # Absent => s = home(o, k)

RequestsHeadHome ==
  \A c \in Client :
    client[c] # Idle /\ Scope[client[c].key] = "Global"
      => client[c].shard = home(client[c].org, client[c].key)

HomeInv == TypeOK /\ CopiesAtHome /\ RequestsHeadHome

\* For a global key the region name and the region list drop out.
LEMMA GlobalShardOf ==
  ASSUME NEW o, NEW k, NEW r, NEW rs, Scope[k] = "Global"
  PROVE  shard_of(o, k, r, rs) = home(o, k)
BY DEF shard_of, route_shard, home

\* Only its owner's key changes when a scoped key is written.
LEMMA SameScopedKey ==
  ASSUME NEW o1 \in OrgId, NEW o2 \in OrgId, NEW k1 \in UserKey, NEW k2 \in UserKey,
         org_scoped_key(o1, k1) = org_scoped_key(o2, k2)
  PROVE  o1 = o2 /\ k1 = k2
BY UserKeyAssumption, ScopedKeyInjective

LEMMA HomeInvInit == Init => HomeInv
<1> SUFFICES ASSUME Init PROVE HomeInv
  OBVIOUS
<1>1. TypeOK
  BY DEF Init, TypeOK, ClientState
<1>2. CopiesAtHome
  BY KeyAssumption DEF Init, CopiesAtHome
<1>3. RequestsHeadHome
  BY DEF Init, RequestsHeadHome
<1> QED
  BY <1>1, <1>2, <1>3 DEF HomeInv

\* An answered request is headed where it was, for the key it was.
LEMMA AnswerKeeps ==
  ASSUME NEW c \in Client, NEW ret
  PROVE  LET a == Answer(c, ret)
         IN  /\ a.pc = "answered" /\ a.op = client[c].op
             /\ a.org = client[c].org /\ a.key = client[c].key
             /\ a.region = client[c].region /\ a.val = client[c].val
             /\ a.shard = client[c].shard /\ a.ret = ret
             /\ a # Idle
<1>1. Answer(c, ret).pc = "answered" /\ Idle.pc = "idle"
  BY DEF Answer, Idle
<1>2. Answer(c, ret) # Idle
  BY <1>1
<1> QED
  BY <1>2 DEF Answer

LEMMA HomeInvStep == HomeInv /\ TypeOK' /\ [Next]_vars => HomeInv'
<1> SUFFICES ASSUME HomeInv, TypeOK', [Next]_vars PROVE CopiesAtHome' /\ RequestsHeadHome'
  BY DEF HomeInv
<1> USE DEF HomeInv
<1>1. ASSUME NEW c \in Client, NEW l \in LB, NEW o \in OrgId, NEW k \in UserKey,
             NEW r \in RegionName, NEW op, NEW v, Forward(c, l, op, o, k, r, v)
      PROVE  CopiesAtHome' /\ RequestsHeadHome'
  <2>1. CopiesAtHome'
    BY <1>1 DEF Forward, CopiesAtHome
  <2>2. RequestsHeadHome'
    <3> DEFINE q == [pc |-> "forwarded", op |-> op, org |-> o, key |-> k, region |-> r,
                     val |-> v, shard |-> shard_of(o, k, r, lbRegions[l])]
    <3>1. Scope[q.key] = "Global" => q.shard = home(q.org, q.key)
      BY GlobalShardOf
    <3> HIDE DEF q
    <3>2. client' = [client EXCEPT ![c] = q]
      BY <1>1 DEF Forward, q
    <3> QED
      BY <3>1, <3>2 DEF RequestsHeadHome, TypeOK
  <2> QED
    BY <2>1, <2>2
<1>2. ASSUME NEW c \in Client, NEW l \in LB, NEW o \in OrgId, NEW k \in UserKey,
             NEW r \in RegionName, ForwardPut(c, l, o, k, r) \/ ForwardGet(c, l, o, k, r)
      PROVE  CopiesAtHome' /\ RequestsHeadHome'
  BY <1>1, <1>2 DEF ForwardPut, ForwardGet
<1>3. ASSUME NEW c \in Client, NodePut(c)
      PROVE  CopiesAtHome' /\ RequestsHeadHome'
  <2> DEFINE r   == client[c]
             own == shard_of(r.org, r.key, r.region, ClusterRegions)
             sk  == org_scoped_key(r.org, r.key)
  <2>1. r \in Request /\ r # Idle
    BY <1>3, ClientCases DEF NodePut, Idle
  <2>2. r.org \in OrgId /\ r.key \in UserKey
    BY <2>1 DEF Request
  <2>3. /\ store' = [store EXCEPT ![own][sk] = r.val]
        /\ client' = [client EXCEPT ![c] = Answer(c, r.val)]
    BY <1>3 DEF NodePut
  <2>4. CopiesAtHome'
    <3> SUFFICES ASSUME NEW o \in OrgId, NEW k \in UserKey, NEW s \in Shard,
                        Scope[k] = "Global", store'[s][org_scoped_key(o, k)] # Absent
                 PROVE  s = home(o, k)
      BY DEF CopiesAtHome
    <3>1. CASE s = own /\ org_scoped_key(o, k) = sk
      <4>1. o = r.org /\ k = r.key
        BY <2>2, <3>1, SameScopedKey
      <4> QED
        BY <3>1, <4>1, GlobalShardOf
    <3>2. CASE ~(s = own /\ org_scoped_key(o, k) = sk)
      <4> HIDE DEF own, sk
      <4>1. org_scoped_key(o, k) \in Key
        BY KeyAssumption
      <4>2. store'[s][org_scoped_key(o, k)] = store[s][org_scoped_key(o, k)]
        BY <2>3, <3>2, <4>1 DEF TypeOK
      <4> QED
        BY <4>2 DEF CopiesAtHome
    <3> QED
      BY <3>1, <3>2
  <2>5. RequestsHeadHome'
    BY <2>1, <2>3, AnswerKeeps DEF RequestsHeadHome, TypeOK
  <2> QED
    BY <2>4, <2>5
<1>4. ASSUME NEW c \in Client, NodeGet(c)
      PROVE  CopiesAtHome' /\ RequestsHeadHome'
  <2> DEFINE r   == client[c]
             ret == store[r.shard][org_scoped_key(r.org, r.key)]
  <2>1. r # Idle
    BY <1>4 DEF NodeGet, Idle
  <2>2. client' = [client EXCEPT ![c] = Answer(c, ret)] /\ UNCHANGED store
    BY <1>4 DEF NodeGet
  <2> HIDE DEF ret
  <2> QED
    BY <2>1, <2>2, AnswerKeeps DEF RequestsHeadHome, CopiesAtHome, TypeOK
<1>5. ASSUME NEW c \in Client, Finish(c)
      PROVE  CopiesAtHome' /\ RequestsHeadHome'
  BY <1>5 DEF Finish, RequestsHeadHome, CopiesAtHome, TypeOK
<1>6. ASSUME NEW l \in LB, Reload(l)
      PROVE  CopiesAtHome' /\ RequestsHeadHome'
  BY <1>6 DEF Reload, RequestsHeadHome, CopiesAtHome
<1>7. CASE UNCHANGED vars
  BY <1>7 DEF vars, RequestsHeadHome, CopiesAtHome
<1> QED
  BY <1>2, <1>3, <1>4, <1>5, <1>6, <1>7 DEF Next

LEMMA SpecHomeInv == Spec => []HomeInv
<1>1. Spec => []TypeOK
  BY SpecTypeOK
<1>2. Init => HomeInv
  BY HomeInvInit
<1> QED
  BY <1>1, <1>2, HomeInvStep, PTL DEF Spec

\* "A global key can never be region-split", while load balancers reload whatever
\* region lists they like.
THEOREM SpecGlobalSingleHome == Spec => []GlobalSingleHome
<1>1. HomeInv => GlobalSingleHome
  <2> SUFFICES ASSUME HomeInv, NEW o \in OrgId, NEW k \in UserKey, Scope[k] = "Global"
               PROVE  /\ \A s, t \in Shard :
                           /\ store[s][org_scoped_key(o, k)] # Absent
                           /\ store[t][org_scoped_key(o, k)] # Absent
                           => s = t
                      /\ \A c \in Client, s \in Shard :
                           /\ client[c] # Idle /\ client[c].org = o /\ client[c].key = k
                           /\ store[s][org_scoped_key(o, k)] # Absent
                           => client[c].shard = s
    BY DEF GlobalSingleHome
  <2> QED
    BY DEF HomeInv, CopiesAtHome, RequestsHeadHome
<1> QED
  BY <1>1, SpecHomeInv, PTL

-----------------------------------------------------------------------------
\* What a request carries.

RequestValues ==
  \A c \in Client : client[c] # Idle =>
    /\ client[c].op = "get" => client[c].val = Absent
    /\ client[c].op = "put" =>
         /\ client[c].val \in Value
         /\ client[c].val.org = client[c].org
         /\ client[c].val.ri = home_region(client[c].key, client[c].region)

LEMMA SpecRequestValues == Spec => [](TypeOK /\ RequestValues)
<1>1. Spec => []TypeOK
  BY SpecTypeOK
<1>2. Init => RequestValues
  BY DEF Init, RequestValues
<1>3. TypeOK /\ RequestValues /\ [Next]_vars => RequestValues'
  <2> SUFFICES ASSUME TypeOK, RequestValues, [Next]_vars PROVE RequestValues'
    OBVIOUS
  <2>1. ASSUME NEW c \in Client, NEW l \in LB, NEW o \in OrgId, NEW k \in UserKey,
               NEW r \in RegionName, ForwardPut(c, l, o, k, r)
        PROVE  RequestValues'
    <3>1. PICK p \in Payload :
            Forward(c, l, "put", o, k, r,
                    [org |-> o, ri |-> home_region(k, r), payload |-> p])
      BY <2>1 DEF ForwardPut
    <3> DEFINE v == [org |-> o, ri |-> home_region(k, r), payload |-> p]
    <3>2. v \in Value /\ v.org = o /\ v.ri = home_region(k, r)
      BY HomeRegionType DEF Value
    <3> HIDE DEF v
    <3> DEFINE q == [pc |-> "forwarded", op |-> "put", org |-> o, key |-> k, region |-> r,
                     val |-> v, shard |-> shard_of(o, k, r, lbRegions[l])]
    <3>3. /\ q.op = "put" /\ q.val \in Value
          /\ q.val.org = q.org /\ q.val.ri = home_region(q.key, q.region)
      BY <3>2
    <3> HIDE DEF q
    <3>4. client' = [client EXCEPT ![c] = q]
      BY <3>1 DEF Forward, q, v
    <3> QED
      BY <3>3, <3>4 DEF RequestValues, TypeOK
  <2>2. ASSUME NEW c \in Client, NEW l \in LB, NEW o \in OrgId, NEW k \in UserKey,
               NEW r \in RegionName, ForwardGet(c, l, o, k, r)
        PROVE  RequestValues'
    <3> DEFINE q == [pc |-> "forwarded", op |-> "get", org |-> o, key |-> k, region |-> r,
                     val |-> Absent, shard |-> shard_of(o, k, r, lbRegions[l])]
    <3>1. q.op = "get" /\ q.val = Absent
      OBVIOUS
    <3> HIDE DEF q
    <3>2. client' = [client EXCEPT ![c] = q]
      BY <2>2 DEF ForwardGet, Forward, q
    <3> QED
      BY <3>1, <3>2 DEF RequestValues, TypeOK
  <2>3. ASSUME NEW c \in Client, NodePut(c) \/ NodeGet(c)
        PROVE  RequestValues'
    <3>1. PICK ret : client' = [client EXCEPT ![c] = Answer(c, ret)]
      BY <2>3 DEF NodePut, NodeGet
    <3>2. client[c] # Idle
      BY <2>3 DEF NodePut, NodeGet, Idle
    <3> QED
      BY <3>1, <3>2, AnswerKeeps DEF RequestValues, TypeOK
  <2>4. ASSUME NEW c \in Client, Finish(c)
        PROVE  RequestValues'
    BY <2>4 DEF Finish, RequestValues, TypeOK
  <2>5. ASSUME NEW l \in LB, Reload(l)
        PROVE  RequestValues'
    BY <2>5 DEF Reload, RequestValues
  <2>6. CASE UNCHANGED vars
    BY <2>6 DEF vars, RequestValues
  <2> QED
    BY <2>1, <2>2, <2>3, <2>4, <2>5, <2>6 DEF Next
<1> QED
  BY <1>1, <1>2, <1>3, PTL DEF Spec

-----------------------------------------------------------------------------
\* Refinement: to its callers the sharded store is a map of registers.

Reg  == registers({"Global"})
Call == abstract_calls({"Global"})
GSlot == Slots({"Global"})

LEMMA GlobalSlotType ==
  ASSUME NEW s \in GSlot
  PROVE  /\ s.org \in OrgId /\ s.key \in UserKey /\ s.ri = 0
         /\ Scope[s.key] = "Global"
         /\ s = slot_of(s.org, s.key, 0)
         /\ slot_home(s) = home(s.org, s.key)
         /\ slot_home(s) \in Shard
         /\ org_scoped_key(s.org, s.key) \in Key
<1>1. /\ s \in [org : OrgId, key : UserKey, ri : HomeRegion]
      /\ Scope[s.key] = "Global" /\ s.ri = 0
  BY DEF GSlot, Slots
<1>2. s.org \in OrgId /\ s.key \in UserKey /\ s = slot_of(s.org, s.key, 0)
  BY <1>1 DEF slot_of
<1>3. slot_home(s) = home(s.org, s.key)
  BY <1>1 DEF slot_home, home
<1>4. org_scoped_key(s.org, s.key) \in Key
  BY <1>2, KeyAssumption
<1>5. home(s.org, s.key) \in Shard
  BY <1>4, ShardCountAssumption, ShardForInRange DEF home, Shard
<1> QED
  BY <1>1, <1>2, <1>3, <1>4, <1>5

\* The register of a global key changes exactly when its home copy does.
LEMMA RegAt ==
  ASSUME NEW s \in GSlot
  PROVE  Reg[s] = store[home(s.org, s.key)][org_scoped_key(s.org, s.key)]
BY GlobalSlotType DEF Reg, registers, GSlot

LEMMA SlotOfRequest ==
  ASSUME NEW o \in OrgId, NEW k \in UserKey, Scope[k] = "Global"
  PROVE  slot_of(o, k, 0) \in GSlot
BY DEF slot_of, GSlot, Slots, HomeRegion

LEMMA RefinementInit == Init => Global!Init
<1> SUFFICES ASSUME Init PROVE Global!Init
  OBVIOUS
<1>1. Call = [c \in Client |-> Idle]
  BY DEF Init, Call, abstract_calls, abstract_call
<1>2. Reg = [s \in GSlot |-> Absent]
  <2>1. \A s \in GSlot : store[slot_home(s)][org_scoped_key(s.org, s.key)] = Absent
    BY GlobalSlotType DEF Init
  <2> QED
    BY <2>1 DEF Reg, registers, GSlot
<1> QED
  BY <1>1, <1>2 DEF Global!Init, Global!Idle, Call, Reg, GSlot, Idle

\* A step that changes one client changes one abstract call.
LEMMA CallStep ==
  ASSUME TypeOK, NEW c \in Client, NEW q, client' = [client EXCEPT ![c] = q]
  PROVE  Call' = [Call EXCEPT ![c] = abstract_call(q, {"Global"})]
<1>1. \A d \in Client : client'[d] = IF d = c THEN q ELSE client[d]
  BY DEF TypeOK
<1>2. Call' = [d \in Client |-> abstract_call(client'[d], {"Global"})]
  BY DEF Call, abstract_calls
<1>3. Call = [d \in Client |-> abstract_call(client[d], {"Global"})]
  BY DEF Call, abstract_calls
<1> HIDE DEF abstract_call
<1> QED
  BY <1>1, <1>2, <1>3

LEMMA CallAt ==
  ASSUME NEW c \in Client
  PROVE  Call[c] = abstract_call(client[c], {"Global"})
BY DEF Call, abstract_calls

\* The abstract view of a request for a global key, and of any other.
LEMMA AbstractCall ==
  ASSUME NEW q, q # Idle
  PROVE  /\ Scope[q.key] # "Global" => abstract_call(q, {"Global"}) = Idle
         /\ Scope[q.key] = "Global" /\ q.pc = "forwarded" =>
              abstract_call(q, {"Global"}) =
                [pc |-> "pending", op |-> q.op, slot |-> slot_of(q.org, q.key, 0),
                 val |-> q.val]
         /\ Scope[q.key] = "Global" /\ q.pc = "answered" =>
              abstract_call(q, {"Global"}) =
                [pc |-> "done", op |-> q.op, slot |-> slot_of(q.org, q.key, 0),
                 val |-> q.val, ret |-> q.ret]
<1>1. Scope[q.key] = "Global" => home_region(q.key, q.region) = 0
  BY DEF home_region
<1> QED
  BY <1>1 DEF abstract_call

\* The refinement mapping's names in the instance.
LEMMA GlobalActions ==
  /\ UNCHANGED Global!vars <=> Reg' = Reg /\ Call' = Call
  /\ \A c, op, s, v : Global!Begin(c, op, s, v) <=>
       /\ Call[c] = Idle
       /\ Call' = [Call EXCEPT ![c] = [pc |-> "pending", op |-> op, slot |-> s, val |-> v]]
       /\ Reg' = Reg
  /\ \A c : Global!Write(c) <=>
       /\ Call[c].pc = "pending" /\ Call[c].op = "put"
       /\ Reg' = [Reg EXCEPT ![Call[c].slot] = Call[c].val]
       /\ Call' = [Call EXCEPT ![c] = [pc |-> "done", op |-> "put", slot |-> Call[c].slot,
                                       val |-> Call[c].val, ret |-> Call[c].val]]
  /\ \A c : Global!Read(c) <=>
       /\ Call[c].pc = "pending" /\ Call[c].op = "get"
       /\ Call' = [Call EXCEPT ![c] = [pc |-> "done", op |-> "get", slot |-> Call[c].slot,
                                       val |-> Absent, ret |-> Reg[Call[c].slot]]]
       /\ Reg' = Reg
  /\ \A c : Global!End(c) <=>
       Call[c] # Idle /\ Call' = [Call EXCEPT ![c] = Idle] /\ Reg' = Reg
  /\ Global!Next <=>
       \E c \in Client :
         \/ \E s \in GSlot : Global!Begin(c, "get", s, Absent)
         \/ \E s \in GSlot, v \in Value : Global!Begin(c, "put", s, v)
         \/ Global!Write(c)
         \/ Global!Read(c)
         \/ Global!End(c)
BY DEF Global!vars, Global!Begin, Global!Write, Global!Read, Global!End, Global!Next,
       Global!Pending, Global!Done, Global!Idle, Reg, Call, GSlot, Idle

LEMMA RegUnchanged ==
  ASSUME UNCHANGED store
  PROVE  Reg' = Reg
BY DEF Reg, registers, slot_home

\* A put that commits.  For a global key it writes the one register of that key; for
\* a regional key it touches no register of a global one.
LEMMA PutRefines ==
  ASSUME HomeInv, RequestValues, NEW c \in Client, NodePut(c)
  PROVE  Global!Write(c) \/ UNCHANGED Global!vars
<1> DEFINE r   == client[c]
           own == shard_of(r.org, r.key, r.region, ClusterRegions)
           sk  == org_scoped_key(r.org, r.key)
           a   == Answer(c, r.val)
<1>1. TypeOK
  BY DEF HomeInv
<1>2. r \in Request /\ r # Idle /\ r.pc = "forwarded" /\ r.op = "put"
  BY <1>1, ClientCases DEF NodePut, Idle
<1>3. r.org \in OrgId /\ r.key \in UserKey /\ r.region \in RegionName
  BY <1>2 DEF Request
<1>4. /\ store' = [store EXCEPT ![own][sk] = r.val]
      /\ client' = [client EXCEPT ![c] = a]
  BY DEF NodePut
<1>5. /\ a.pc = "answered" /\ a.op = "put" /\ a.org = r.org /\ a.key = r.key
      /\ a.val = r.val /\ a.ret = r.val /\ a # Idle
  BY <1>2, AnswerKeeps
<1>6. Call' = [Call EXCEPT ![c] = abstract_call(a, {"Global"})]
  <2> HIDE DEF a
  <2> QED
    BY <1>1, <1>4, CallStep
<1>7. Call[c] = abstract_call(r, {"Global"})
  BY CallAt
<1>8. own \in Shard /\ sk \in Key
  BY <1>3, ShardOfInRange, RegionListsAssumption, KeyAssumption
<1> DEFINE s0 == slot_of(r.org, r.key, 0)
<1> HIDE DEF a
<1>9. ASSUME NEW s \in GSlot, ~(Scope[r.key] = "Global" /\ s = s0)
      PROVE  Reg'[s] = Reg[s]
  <2>1. org_scoped_key(s.org, s.key) # sk
    <3>1. ASSUME org_scoped_key(s.org, s.key) = sk PROVE FALSE
      <4>1. s.org = r.org /\ s.key = r.key
        BY <3>1, <1>3, GlobalSlotType, SameScopedKey
      <4> QED
        BY <4>1, <1>9, GlobalSlotType
    <3> QED
      BY <3>1
  <2> HIDE DEF own, sk, r
  <2>2. slot_home(s) \in Shard /\ org_scoped_key(s.org, s.key) \in Key
    BY GlobalSlotType
  <2>3. store'[slot_home(s)][org_scoped_key(s.org, s.key)]
          = store[slot_home(s)][org_scoped_key(s.org, s.key)]
    BY <1>1, <1>4, <1>8, <2>1, <2>2 DEF TypeOK
  <2>4. /\ Reg' = [t \in GSlot |-> store'[slot_home(t)][org_scoped_key(t.org, t.key)]]
        /\ Reg = [t \in GSlot |-> store[slot_home(t)][org_scoped_key(t.org, t.key)]]
    BY DEF Reg, registers, GSlot, Slots, slot_home
  <2> QED
    BY <2>3, <2>4
<1>10. /\ Reg' = [s \in GSlot |-> Reg'[s]]
       /\ Reg = [s \in GSlot |-> Reg[s]]
  BY DEF Reg, registers, GSlot, Slots, slot_home
<1>11. CASE Scope[r.key] = "Global"
  <2>1. s0 \in GSlot
    BY <1>3, <1>11, SlotOfRequest
  <2>2. Reg'[s0] = r.val
    <3>1. slot_home(s0) = own /\ org_scoped_key(s0.org, s0.key) = sk
      <4>1. s0.org = r.org /\ s0.key = r.key
        BY DEF slot_of
      <4> QED
        BY <4>1, <2>1, <1>11, GlobalSlotType, GlobalShardOf
    <3>2. Reg' = [t \in GSlot |-> store'[slot_home(t)][org_scoped_key(t.org, t.key)]]
      BY DEF Reg, registers, GSlot, Slots, slot_home
    <3> HIDE DEF own, sk, r, s0
    <3>3. store'[own][sk] = r.val
      BY <1>1, <1>4, <1>8 DEF TypeOK
    <3> QED
      BY <2>1, <3>1, <3>2, <3>3
  <2>3. Reg' = [Reg EXCEPT ![s0] = r.val]
    BY <1>9, <1>10, <1>11, <2>1, <2>2
  <2>4. /\ Call[c] = [pc |-> "pending", op |-> "put", slot |-> s0, val |-> r.val]
        /\ abstract_call(a, {"Global"}) =
             [pc |-> "done", op |-> "put", slot |-> s0, val |-> r.val, ret |-> r.val]
    BY <1>2, <1>5, <1>7, <1>11, AbstractCall
  <2>5. /\ Call[c].pc = "pending" /\ Call[c].op = "put"
        /\ Call[c].slot = s0 /\ Call[c].val = r.val
    BY <2>4
  <2> QED
    BY <1>6, <2>3, <2>4, <2>5, GlobalActions
<1>12. CASE Scope[r.key] # "Global"
  <2>1. Reg' = Reg
    BY <1>9, <1>10, <1>12
  <2>2. Call[c] = Idle /\ abstract_call(a, {"Global"}) = Idle
    BY <1>2, <1>5, <1>7, <1>12, AbstractCall
  <2>3. Call' = Call
    BY <1>6, <2>2 DEF Call, abstract_calls
  <2> QED
    BY <2>1, <2>3, GlobalActions
<1> QED
  BY <1>11, <1>12

\* A get that is answered reads the register: the load balancer sent it home.
LEMMA GetRefines ==
  ASSUME HomeInv, RequestValues, NEW c \in Client, NodeGet(c)
  PROVE  Global!Read(c) \/ UNCHANGED Global!vars
<1> DEFINE r   == client[c]
           ret == store[r.shard][org_scoped_key(r.org, r.key)]
           a   == Answer(c, ret)
           s0  == slot_of(r.org, r.key, 0)
<1>1. TypeOK
  BY DEF HomeInv
<1>2. r \in Request /\ r # Idle /\ r.pc = "forwarded" /\ r.op = "get"
  BY <1>1, ClientCases DEF NodeGet, Idle
<1>3. r.org \in OrgId /\ r.key \in UserKey /\ r.val = Absent
  BY <1>2 DEF Request, RequestValues
<1>4. client' = [client EXCEPT ![c] = a] /\ UNCHANGED store
  BY DEF NodeGet
<1>5. /\ a.pc = "answered" /\ a.op = "get" /\ a.org = r.org /\ a.key = r.key
      /\ a.val = Absent /\ a.ret = ret /\ a # Idle
  BY <1>2, <1>3, AnswerKeeps
<1>6. Call' = [Call EXCEPT ![c] = abstract_call(a, {"Global"})]
  <2> HIDE DEF a
  <2> QED
    BY <1>1, <1>4, CallStep
<1>7. Call[c] = abstract_call(r, {"Global"})
  BY CallAt
<1>8. Reg' = Reg
  BY <1>4, RegUnchanged
<1> HIDE DEF a
<1>9. CASE Scope[r.key] = "Global"
  <2>1. s0 \in GSlot
    BY <1>3, <1>9, SlotOfRequest
  <2>2. r.shard = home(r.org, r.key)
    BY <1>2, <1>9 DEF HomeInv, RequestsHeadHome
  <2>3. Reg[s0] = ret
    <3>1. s0.org = r.org /\ s0.key = r.key
      BY DEF slot_of
    <3> QED
      BY <2>1, <2>2, <3>1, RegAt
  <2>4. /\ Call[c] = [pc |-> "pending", op |-> "get", slot |-> s0, val |-> Absent]
        /\ abstract_call(a, {"Global"}) =
             [pc |-> "done", op |-> "get", slot |-> s0, val |-> Absent, ret |-> ret]
    BY <1>2, <1>3, <1>5, <1>7, <1>9, AbstractCall
  <2>5. Call[c].pc = "pending" /\ Call[c].op = "get" /\ Call[c].slot = s0
    BY <2>4
  <2> HIDE DEF r, ret, s0
  <2>6. Call' = [Call EXCEPT ![c] = [pc |-> "done", op |-> "get", slot |-> Call[c].slot,
                                     val |-> Absent, ret |-> Reg[Call[c].slot]]]
    BY <1>6, <2>3, <2>4, <2>5
  <2>7. Global!Read(c)
    BY <1>8, <2>5, <2>6, GlobalActions
  <2> QED
    BY <2>7
<1>10. CASE Scope[r.key] # "Global"
  <2>1. Call[c] = Idle /\ abstract_call(a, {"Global"}) = Idle
    BY <1>2, <1>5, <1>7, <1>10, AbstractCall
  <2>2. Call' = Call
    BY <1>6, <2>1 DEF Call, abstract_calls
  <2> QED
    BY <1>8, <2>2, GlobalActions
<1> QED
  BY <1>9, <1>10

\* A request that sets out begins an operation on its register, if it has one.
LEMMA ForwardRefines ==
  ASSUME TypeOK, NEW c \in Client, NEW l \in LB, NEW o \in OrgId, NEW k \in UserKey,
         NEW r \in RegionName, NEW op, NEW v, Forward(c, l, op, o, k, r, v)
  PROVE  \/ Scope[k] = "Global" /\ Global!Begin(c, op, slot_of(o, k, 0), v)
         \/ UNCHANGED Global!vars
<1> DEFINE q == [pc |-> "forwarded", op |-> op, org |-> o, key |-> k, region |-> r,
                 val |-> v, shard |-> shard_of(o, k, r, lbRegions[l])]
<1>1. client[c] = Idle /\ client' = [client EXCEPT ![c] = q] /\ UNCHANGED store
  BY DEF Forward
<1>2. /\ q.pc = "forwarded" /\ q.op = op /\ q.org = o /\ q.key = k /\ q.val = v
      /\ q # Idle
  <2>1. q.pc # Idle.pc
    BY DEF Idle
  <2>2. q # Idle
    BY <2>1
  <2> QED
    BY <2>2
<1> HIDE DEF q
<1>3. Call' = [Call EXCEPT ![c] = abstract_call(q, {"Global"})]
  BY <1>1, CallStep
<1>4. Call[c] = Idle
  BY <1>1, CallAt DEF abstract_call
<1>5. Reg' = Reg
  BY <1>1, RegUnchanged
<1>6. CASE Scope[k] = "Global"
  <2>1. abstract_call(q, {"Global"}) =
          [pc |-> "pending", op |-> op, slot |-> slot_of(o, k, 0), val |-> v]
    BY <1>2, <1>6, AbstractCall
  <2>2. Call' = [Call EXCEPT ![c] = [pc |-> "pending", op |-> op, slot |-> slot_of(o, k, 0),
                                     val |-> v]]
    BY <1>3, <2>1
  <2>3. Global!Begin(c, op, slot_of(o, k, 0), v)
    BY <1>4, <1>5, <2>2, ZenonT(30)
       DEF Global!Begin, Global!Pending, Global!Idle, Reg, Call, GSlot, Idle
  <2> QED
    BY <1>6, <2>3
<1>7. CASE Scope[k] # "Global"
  <2>1. Call' = Call
    BY <1>2, <1>3, <1>4, <1>7, AbstractCall DEF Call, abstract_calls
  <2> QED
    BY <1>5, <2>1, GlobalActions
<1> QED
  BY <1>6, <1>7

LEMMA RefinementStep ==
  HomeInv /\ RequestValues /\ [Next]_vars => [Global!Next]_(Global!vars)
<1> SUFFICES ASSUME HomeInv, RequestValues, [Next]_vars
             PROVE  Global!Next \/ UNCHANGED Global!vars
  OBVIOUS
<1>0. TypeOK
  BY DEF HomeInv
<1>1. ASSUME NEW c \in Client, NEW l \in LB, NEW o \in OrgId, NEW k \in UserKey,
             NEW r \in RegionName, ForwardPut(c, l, o, k, r)
      PROVE  Global!Next \/ UNCHANGED Global!vars
  <2>1. PICK p \in Payload :
          Forward(c, l, "put", o, k, r,
                  [org |-> o, ri |-> home_region(k, r), payload |-> p])
    BY <1>1 DEF ForwardPut
  <2> DEFINE v == [org |-> o, ri |-> home_region(k, r), payload |-> p]
  <2>2. v \in Value
    BY HomeRegionType DEF Value
  <2> HIDE DEF v
  <2>3. Forward(c, l, "put", o, k, r, v)
    BY <2>1 DEF v
  <2>4. \/ Scope[k] = "Global" /\ Global!Begin(c, "put", slot_of(o, k, 0), v)
        \/ UNCHANGED Global!vars
    BY <1>0, <2>3, ForwardRefines
  <2> QED
    BY <2>2, <2>4, SlotOfRequest, GlobalActions
<1>2. ASSUME NEW c \in Client, NEW l \in LB, NEW o \in OrgId, NEW k \in UserKey,
             NEW r \in RegionName, ForwardGet(c, l, o, k, r)
      PROVE  Global!Next \/ UNCHANGED Global!vars
  <2>1. Forward(c, l, "get", o, k, r, Absent)
    BY <1>2 DEF ForwardGet
  <2>2. \/ Scope[k] = "Global" /\ Global!Begin(c, "get", slot_of(o, k, 0), Absent)
        \/ UNCHANGED Global!vars
    BY <1>0, <2>1, ForwardRefines
  <2> QED
    BY <2>2, SlotOfRequest, GlobalActions
<1>3. ASSUME NEW c \in Client, NodePut(c)
      PROVE  Global!Next \/ UNCHANGED Global!vars
  BY <1>3, PutRefines, GlobalActions
<1>4. ASSUME NEW c \in Client, NodeGet(c)
      PROVE  Global!Next \/ UNCHANGED Global!vars
  BY <1>4, GetRefines, GlobalActions
<1>5. ASSUME NEW c \in Client, Finish(c)
      PROVE  Global!Next \/ UNCHANGED Global!vars
  <2>1. client' = [client EXCEPT ![c] = Idle] /\ UNCHANGED store
    BY <1>5 DEF Finish
  <2>2. abstract_call(Idle, {"Global"}) = Idle
    BY DEF abstract_call
  <2>3. Call' = [Call EXCEPT ![c] = Idle] /\ Reg' = Reg
    BY <1>0, <2>1, <2>2, CallStep, RegUnchanged
  <2>4. CASE Call[c] = Idle
    <3>1. Call' = Call
      BY <2>3, <2>4 DEF Call, abstract_calls
    <3> QED
      BY <2>3, <3>1, GlobalActions
  <2>5. CASE Call[c] # Idle
    BY <2>3, <2>5, GlobalActions
  <2> QED
    BY <2>4, <2>5
<1>6. ASSUME UNCHANGED <<store, client>>
      PROVE  UNCHANGED Global!vars
  <2>1. Reg' = Reg /\ Call' = Call
    BY <1>6, RegUnchanged DEF Call, abstract_calls
  <2> QED
    BY <2>1, GlobalActions
<1>7. ASSUME NEW l \in LB, Reload(l)
      PROVE  Global!Next \/ UNCHANGED Global!vars
  BY <1>6, <1>7 DEF Reload
<1>8. CASE UNCHANGED vars
  BY <1>6, <1>8 DEF vars
<1> QED
  BY <1>1, <1>2, <1>3, <1>4, <1>5, <1>7, <1>8 DEF Next

\* Reads and writes of global keys are linearizable, one register for each org and
\* key, although load balancers and nodes compute the shard independently and hold
\* region lists that change under way.
THEOREM SpecGlobalKeysAreRegisters == Spec => GlobalKeysAreRegisters
<1>1. Spec => []HomeInv
  BY SpecHomeInv
<1>2. Spec => [](TypeOK /\ RequestValues)
  BY SpecRequestValues
<1>3. Init => Global!Init
  BY RefinementInit
<1>4. HomeInv /\ RequestValues /\ [Next]_vars => [Global!Next]_(Global!vars)
  BY RefinementStep
<1> QED
  BY <1>1, <1>2, <1>3, <1>4, PTL DEF Spec, GlobalKeysAreRegisters, Global!Spec

-----------------------------------------------------------------------------
\* What is in the store, and what a client can learn of it.  The properties speak of one
\* copy or one answer at a time; inductive is where every copy came from: some org put
\* some key of its own for some region, and the node stored it where the cluster's list
\* says.

\* The copy v in shard s is what org o put under its key k for region r.
Origin(s, sk, v, o, k, r) ==
  /\ sk = org_scoped_key(o, k)
  /\ v \in Value
  /\ v.org = o
  /\ v.ri = home_region(k, r)
  /\ s = shard_of(o, k, r, ClusterRegions)

CopiesHaveOrigins ==
  \A s \in Shard, sk \in Key : store[s][sk] # Absent =>
    \E o \in OrgId, k \in UserKey, r \in RegionName : Origin(s, sk, store[s][sk], o, k, r)

\* An answer is the request's own value, or a copy of a key of the same org.
AnswersAreOwn ==
  \A c \in Client :
    client[c].pc = "answered" /\ client[c].ret # Absent
      => client[c].ret \in Value /\ client[c].ret.org = client[c].org

StoreInv == TypeOK /\ RequestValues /\ CopiesHaveOrigins /\ AnswersAreOwn

\* The origin of a copy of an org's key is a put of that org and key.
LEMMA CopyOrigin ==
  ASSUME CopiesHaveOrigins, NEW s \in Shard, NEW o \in OrgId, NEW k \in UserKey,
         store[s][org_scoped_key(o, k)] # Absent
  PROVE  \E r \in RegionName :
           Origin(s, org_scoped_key(o, k), store[s][org_scoped_key(o, k)], o, k, r)
<1> DEFINE sk == org_scoped_key(o, k)
           v  == store[s][sk]
<1>1. sk \in Key
  BY KeyAssumption
<1> HIDE DEF sk
<1>2. PICK o1 \in OrgId, k1 \in UserKey, r \in RegionName : Origin(s, sk, v, o1, k1, r)
  BY <1>1 DEF CopiesHaveOrigins, sk
<1>3. org_scoped_key(o, k) = org_scoped_key(o1, k1)
  BY <1>2 DEF Origin, sk
<1>4. o1 = o /\ k1 = k
  BY <1>3, SameScopedKey
<1>5. Origin(s, sk, v, o, k, r)
  BY <1>2, <1>4
<1> QED
  BY <1>5 DEF sk

LEMMA StoreInvStep ==
  StoreInv /\ (TypeOK /\ RequestValues)' /\ [Next]_vars
    => CopiesHaveOrigins' /\ AnswersAreOwn'
<1> SUFFICES ASSUME StoreInv, TypeOK', [Next]_vars
             PROVE  CopiesHaveOrigins' /\ AnswersAreOwn'
  OBVIOUS
<1> USE DEF StoreInv
<1>1. ASSUME NEW c \in Client, NEW l \in LB, NEW o \in OrgId, NEW k \in UserKey,
             NEW r \in RegionName, NEW op, NEW v, Forward(c, l, op, o, k, r, v)
      PROVE  CopiesHaveOrigins' /\ AnswersAreOwn'
  <2> DEFINE q == [pc |-> "forwarded", op |-> op, org |-> o, key |-> k, region |-> r,
                   val |-> v, shard |-> shard_of(o, k, r, lbRegions[l])]
  <2>1. q.pc = "forwarded"
    OBVIOUS
  <2>2. client' = [client EXCEPT ![c] = q] /\ UNCHANGED store
    BY <1>1 DEF Forward
  <2> HIDE DEF q
  <2> QED
    BY <2>1, <2>2 DEF CopiesHaveOrigins, AnswersAreOwn, TypeOK
<1>2. ASSUME NEW c \in Client, NEW l \in LB, NEW o \in OrgId, NEW k \in UserKey,
             NEW r \in RegionName, ForwardPut(c, l, o, k, r) \/ ForwardGet(c, l, o, k, r)
      PROVE  CopiesHaveOrigins' /\ AnswersAreOwn'
  BY <1>1, <1>2 DEF ForwardPut, ForwardGet
<1>3. ASSUME NEW c \in Client, NodePut(c)
      PROVE  CopiesHaveOrigins' /\ AnswersAreOwn'
  <2> DEFINE r   == client[c]
             own == shard_of(r.org, r.key, r.region, ClusterRegions)
             sk  == org_scoped_key(r.org, r.key)
             a   == Answer(c, r.val)
  <2>1. r \in Request /\ r # Idle /\ r.op = "put"
    BY <1>3, ClientCases DEF NodePut, Idle
  <2>2. r.org \in OrgId /\ r.key \in UserKey /\ r.region \in RegionName
    BY <2>1 DEF Request
  <2>3. r.val \in Value /\ r.val.org = r.org /\ r.val.ri = home_region(r.key, r.region)
    BY <2>1 DEF RequestValues
  <2>4. /\ store' = [store EXCEPT ![own][sk] = r.val]
        /\ client' = [client EXCEPT ![c] = a]
    BY <1>3 DEF NodePut
  <2>5. a.pc = "answered" /\ a.ret = r.val /\ a.org = r.org
    BY AnswerKeeps
  <2>6. CopiesHaveOrigins'
    <3> SUFFICES ASSUME NEW s \in Shard, NEW t \in Key, store'[s][t] # Absent
                 PROVE  \E o \in OrgId, k \in UserKey, g \in RegionName :
                          Origin(s, t, store'[s][t], o, k, g)
      BY DEF CopiesHaveOrigins, Origin
    <3>1. CASE s = own /\ t = sk
      <4>1. store'[s][t] = r.val
        <5> HIDE DEF own, sk, r
        <5> QED
          BY <2>4, <3>1 DEF TypeOK
      <4>2. Origin(s, t, store'[s][t], r.org, r.key, r.region)
        BY <2>3, <3>1, <4>1 DEF Origin
      <4> QED
        BY <2>2, <4>2
    <3>2. CASE ~(s = own /\ t = sk)
      <4> HIDE DEF own, sk, r
      <4>1. store'[s][t] = store[s][t]
        BY <2>4, <3>2 DEF TypeOK
      <4> QED
        BY <4>1 DEF CopiesHaveOrigins
    <3> QED
      BY <3>1, <3>2
  <2>7. AnswersAreOwn'
    <3> HIDE DEF a
    <3> QED
      BY <2>3, <2>4, <2>5 DEF AnswersAreOwn, TypeOK
  <2> QED
    BY <2>6, <2>7
<1>4. ASSUME NEW c \in Client, NodeGet(c)
      PROVE  CopiesHaveOrigins' /\ AnswersAreOwn'
  <2> DEFINE r   == client[c]
             ret == store[r.shard][org_scoped_key(r.org, r.key)]
             a   == Answer(c, ret)
  <2>1. r \in Request
    BY <1>4, ClientCases DEF NodeGet
  <2>2. r.org \in OrgId /\ r.key \in UserKey /\ r.shard \in Shard
    BY <2>1 DEF Request
  <2>3. client' = [client EXCEPT ![c] = a] /\ UNCHANGED store
    BY <1>4 DEF NodeGet
  <2>4. a.pc = "answered" /\ a.ret = ret /\ a.org = r.org
    BY AnswerKeeps
  <2>5. ret # Absent => ret \in Value /\ ret.org = r.org
    <3>1. ASSUME ret # Absent PROVE ret \in Value /\ ret.org = r.org
      <4>1. PICK g \in RegionName :
              Origin(r.shard, org_scoped_key(r.org, r.key), ret, r.org, r.key, g)
        BY <2>2, <3>1, CopyOrigin
      <4> QED
        BY <4>1 DEF Origin
    <3> QED
      BY <3>1
  <2> HIDE DEF a, ret
  <2> QED
    BY <2>3, <2>4, <2>5 DEF CopiesHaveOrigins, AnswersAreOwn, TypeOK
<1>5. ASSUME NEW c \in Client, Finish(c)
      PROVE  CopiesHaveOrigins' /\ AnswersAreOwn'
  BY <1>5 DEF Finish, CopiesHaveOrigins, AnswersAreOwn, TypeOK, Idle
<1>6. ASSUME NEW l \in LB, Reload(l)
      PROVE  CopiesHaveOrigins' /\ AnswersAreOwn'
  BY <1>6 DEF Reload, CopiesHaveOrigins, AnswersAreOwn
<1>7. CASE UNCHANGED vars
  BY <1>7 DEF vars, CopiesHaveOrigins, AnswersAreOwn
<1> QED
  BY <1>2, <1>3, <1>4, <1>5, <1>6, <1>7 DEF Next

LEMMA SpecStoreInv == Spec => []StoreInv
<1>1. Spec => [](TypeOK /\ RequestValues)
  BY SpecRequestValues
<1>2. Init => CopiesHaveOrigins /\ AnswersAreOwn
  BY DEF Init, CopiesHaveOrigins, AnswersAreOwn, Idle
<1>3. StoreInv /\ (TypeOK /\ RequestValues)' /\ [Next]_vars
        => CopiesHaveOrigins' /\ AnswersAreOwn'
  BY StoreInvStep
<1> QED
  BY <1>1, <1>2, <1>3, PTL DEF Spec, StoreInv

-----------------------------------------------------------------------------
\* A region's data never leaves the region's band, where the cluster can band at all.
THEOREM SpecRegionalDataStaysHome ==
  ASSUME ClusterRegions # <<>>, Len(ClusterRegions) <= shard_count
  PROVE  Spec => []RegionalDataStaysHome
<1>1. StoreInv => RegionalDataStaysHome
  <2> SUFFICES ASSUME StoreInv, NEW o \in OrgId, NEW k \in UserKey, NEW s \in Shard,
                      Scope[k] = "Regional", store[s][org_scoped_key(o, k)] # Absent
               PROVE  OwnedBy(s, store[s][org_scoped_key(o, k)].ri,
                              Len(ClusterRegions), shard_count)
    BY DEF RegionalDataStaysHome
  <2> DEFINE v == store[s][org_scoped_key(o, k)]
  <2>1. PICK r \in RegionName : Origin(s, org_scoped_key(o, k), v, o, k, r)
    BY CopyOrigin DEF StoreInv
  <2>2. v.ri = region_index_or(r, ClusterRegions, DEFAULT_REGION_INDEX)
    BY <2>1 DEF Origin, home_region
  <2>3. s = route_shard("Regional", org_scoped_key(o, k), r, ClusterRegions, shard_count)
    BY <2>1 DEF Origin, shard_of
  <2>4. org_scoped_key(o, k) \in Key /\ IsRegionList(ClusterRegions) /\ shard_count \in Word
    BY KeyAssumption, RegionListsAssumption, ShardCountAssumption
  <2> QED
    BY <2>2, <2>3, <2>4, RegionalRoute
<1> QED
  BY <1>1, SpecStoreInv, PTL

\* No org sees a value another org wrote, by reading or by listing, whatever
\* characters its own keys contain.
THEOREM SpecOrgIsolation == Spec => []OrgIsolation
<1>1. StoreInv => OrgIsolation
  <2> SUFFICES ASSUME StoreInv, NEW o \in OrgId, NEW s \in Shard, NEW e \in Listing(o, s)
               PROVE  e[1] \in UserKey /\ e[2].org = o
    BY DEF OrgIsolation, StoreInv, AnswersAreOwn
  <2>1. PICK t \in Key : /\ e = <<strip_org_scope(o, t), store[s][t]>>
                         /\ store[s][t] # Absent
                         /\ in_org_scope(o, t)
    BY DEF Listing
  <2>2. PICK o1 \in OrgId, k \in UserKey, r \in RegionName :
          Origin(s, t, store[s][t], o1, k, r)
    BY <2>1 DEF StoreInv, CopiesHaveOrigins
  <2>3. t = org_scoped_key(o1, k) /\ store[s][t].org = o1
    BY <2>2 DEF Origin
  <2>4. k \in Str
    BY UserKeyAssumption
  <2>5. o = o1
    BY <2>1, <2>3, <2>4, ForeignPrefix
  <2>6. strip_org_scope(o, t) = k
    BY <2>3, <2>4, <2>5, StripInverse
  <2>7. e[1] = k /\ e[2] = store[s][t]
    BY <2>1, <2>6
  <2> QED
    BY <2>3, <2>5, <2>7
<1> QED
  BY <1>1, SpecStoreInv, PTL

-----------------------------------------------------------------------------
\* Regional keys, while every load balancer holds the cluster's list.

\* Two region names that send a regional key to one shard stand for one region.
LEMMA SameShardSameRegion ==
  ASSUME ClusterRegions # <<>>, Len(ClusterRegions) <= shard_count,
         NEW o \in OrgId, NEW k \in UserKey, NEW r \in RegionName, NEW g \in RegionName,
         shard_of(o, k, r, ClusterRegions) = shard_of(o, k, g, ClusterRegions)
  PROVE  home_region(k, r) = home_region(k, g)
<1> DEFINE rc == Len(ClusterRegions)
           a  == region_index_or(r, ClusterRegions, DEFAULT_REGION_INDEX)
           b  == region_index_or(g, ClusterRegions, DEFAULT_REGION_INDEX)
           s  == shard_of(o, k, r, ClusterRegions)
<1>1. CASE Scope[k] = "Global"
  BY <1>1 DEF home_region
<1>2. CASE Scope[k] # "Global"
  <2>1. Scope[k] = "Regional"
    BY <1>2, ScopeAssumption DEF KeyScope
  <2>2. org_scoped_key(o, k) \in Key /\ IsRegionList(ClusterRegions) /\ shard_count \in Word
    BY KeyAssumption, RegionListsAssumption, ShardCountAssumption
  <2>3. a \in Word /\ b \in Word /\ a < rc /\ b < rc /\ rc \in Word
    BY <2>2, ResolvedIndex DEF IsRegionList
  <2>4. s \in Band(a, rc, shard_count) /\ s \in Band(b, rc, shard_count)
    BY <2>1, <2>2, RegionalRoute DEF shard_of
  <2> HIDE DEF a, b, rc, s
  <2>5. rc <= shard_count
    BY DEF rc
  <2>6. a = b
    BY <2>2, <2>3, <2>4, <2>5, BandsDisjoint
  <2> QED
    BY <1>2, <2>6 DEF home_region, a, b
<1> QED
  BY <1>1, <1>2

\* Every request is headed for the shard the node would choose ...
HeadedHome ==
  \A c \in Client : client[c] # Idle =>
    client[c].shard = shard_of(client[c].org, client[c].key, client[c].region, ClusterRegions)

AgreeInv == StoreInv /\ HeadedHome /\ RegionScoped

\* ... and so the copy it finds there was put for its own region.
LEMMA AgreeInvStep ==
  ASSUME RegionLists = {ClusterRegions},
         ClusterRegions # <<>>, Len(ClusterRegions) <= shard_count
  PROVE  AgreeInv /\ StoreInv' /\ [Next]_vars => HeadedHome' /\ RegionScoped'
<1> SUFFICES ASSUME AgreeInv, [Next]_vars PROVE HeadedHome' /\ RegionScoped'
  OBVIOUS
<1> USE DEF AgreeInv
<1>0. TypeOK /\ RequestValues /\ CopiesHaveOrigins
  BY DEF StoreInv
<1>1. ASSUME NEW c \in Client, NEW l \in LB, NEW o \in OrgId, NEW k \in UserKey,
             NEW r \in RegionName, NEW op, NEW v, Forward(c, l, op, o, k, r, v)
      PROVE  HeadedHome' /\ RegionScoped'
  <2> DEFINE q == [pc |-> "forwarded", op |-> op, org |-> o, key |-> k, region |-> r,
                   val |-> v, shard |-> shard_of(o, k, r, lbRegions[l])]
  <2>1. lbRegions[l] = ClusterRegions
    BY <1>0 DEF TypeOK
  <2>2. q.pc = "forwarded" /\ q.shard = shard_of(q.org, q.key, q.region, ClusterRegions)
    BY <2>1
  <2>3. client' = [client EXCEPT ![c] = q]
    BY <1>1 DEF Forward
  <2> HIDE DEF q
  <2> QED
    BY <1>0, <2>2, <2>3 DEF HeadedHome, RegionScoped, TypeOK
<1>2. ASSUME NEW c \in Client, NEW l \in LB, NEW o \in OrgId, NEW k \in UserKey,
             NEW r \in RegionName, ForwardPut(c, l, o, k, r) \/ ForwardGet(c, l, o, k, r)
      PROVE  HeadedHome' /\ RegionScoped'
  BY <1>1, <1>2 DEF ForwardPut, ForwardGet
<1>3. ASSUME NEW c \in Client, NodePut(c)
      PROVE  HeadedHome' /\ RegionScoped'
  <2> DEFINE r == client[c]
             a == Answer(c, r.val)
  <2>1. r # Idle /\ r.op = "put"
    BY <1>3 DEF NodePut, Idle
  <2>2. r.val.ri = home_region(r.key, r.region)
    BY <1>0, <2>1 DEF RequestValues
  <2>3. r.shard = shard_of(r.org, r.key, r.region, ClusterRegions)
    BY <2>1 DEF HeadedHome
  <2>4. client' = [client EXCEPT ![c] = a]
    BY <1>3 DEF NodePut
  <2>5. /\ a.ret = r.val /\ a.org = r.org /\ a.key = r.key /\ a.region = r.region
        /\ a.shard = r.shard
    BY AnswerKeeps
  <2> HIDE DEF a, r
  <2> QED
    BY <1>0, <2>2, <2>3, <2>4, <2>5 DEF HeadedHome, RegionScoped, TypeOK
<1>4. ASSUME NEW c \in Client, NodeGet(c)
      PROVE  HeadedHome' /\ RegionScoped'
  <2> DEFINE r   == client[c]
             ret == store[r.shard][org_scoped_key(r.org, r.key)]
             a   == Answer(c, ret)
  <2>1. r \in Request /\ r # Idle
    BY <1>0, <1>4, ClientCases DEF NodeGet, Idle
  <2>2. r.org \in OrgId /\ r.key \in UserKey /\ r.region \in RegionName /\ r.shard \in Shard
    BY <2>1 DEF Request
  <2>3. r.shard = shard_of(r.org, r.key, r.region, ClusterRegions)
    BY <2>1 DEF HeadedHome
  <2>4. client' = [client EXCEPT ![c] = a]
    BY <1>4 DEF NodeGet
  <2>5. /\ a.ret = ret /\ a.org = r.org /\ a.key = r.key /\ a.region = r.region
        /\ a.shard = r.shard
    BY AnswerKeeps
  <2>6. ASSUME ret # Absent PROVE ret.ri = home_region(r.key, r.region)
    <3>1. PICK g \in RegionName :
            Origin(r.shard, org_scoped_key(r.org, r.key), ret, r.org, r.key, g)
      BY <1>0, <2>2, <2>6, CopyOrigin
    <3>2. ret.ri = home_region(r.key, g) /\ r.shard = shard_of(r.org, r.key, g, ClusterRegions)
      BY <3>1 DEF Origin
    <3> QED
      BY <2>2, <2>3, <3>2, SameShardSameRegion
  <2> HIDE DEF a, ret, r
  <2> QED
    BY <1>0, <2>3, <2>4, <2>5, <2>6 DEF HeadedHome, RegionScoped, TypeOK
<1>5. ASSUME NEW c \in Client, Finish(c)
      PROVE  HeadedHome' /\ RegionScoped'
  BY <1>0, <1>5 DEF Finish, HeadedHome, RegionScoped, TypeOK, Idle
<1>6. ASSUME NEW l \in LB, Reload(l)
      PROVE  HeadedHome' /\ RegionScoped'
  BY <1>6 DEF Reload, HeadedHome, RegionScoped
<1>7. CASE UNCHANGED vars
  BY <1>7 DEF vars, HeadedHome, RegionScoped
<1> QED
  BY <1>2, <1>3, <1>4, <1>5, <1>6, <1>7 DEF Next

LEMMA SpecAgreeInv ==
  ASSUME RegionLists = {ClusterRegions},
         ClusterRegions # <<>>, Len(ClusterRegions) <= shard_count
  PROVE  Spec => []AgreeInv
<1>1. Spec => []StoreInv
  BY SpecStoreInv
<1>2. Init => HeadedHome /\ RegionScoped
  BY DEF Init, HeadedHome, RegionScoped, Idle
<1>3. AgreeInv /\ StoreInv' /\ [Next]_vars => HeadedHome' /\ RegionScoped'
  BY AgreeInvStep
<1> QED
  BY <1>1, <1>2, <1>3, PTL DEF Spec, AgreeInv

\* While the lists agree and the cluster can band, a get of a regional key never
\* returns what was put for another region.
THEOREM SpecRegionScoped ==
  ASSUME RegionLists = {ClusterRegions},
         ClusterRegions # <<>>, Len(ClusterRegions) <= shard_count
  PROVE  Spec => []RegionScoped
<1>1. Spec => []AgreeInv
  BY SpecAgreeInv
<1> QED
  BY <1>1, PTL DEF AgreeInv

-----------------------------------------------------------------------------
\* Refinement: while the lists agree, every key is a register, a regional one in each
\* region.  Two slots may share a shard or a scoped key but not both, so that a put
\* overwrites one register only; and a get is answered where its register lives.

AllSlot == Slots(KeyScope)
AllReg  == registers(KeyScope)
AllCall == abstract_calls(KeyScope)

\* The cluster can give every region a band.
Bandable == ClusterRegions # <<>> /\ Len(ClusterRegions) <= shard_count

\* The register a request is about.
request_slot(q) == slot_of(q.org, q.key, home_region(q.key, q.region))

LEMMA ClusterWords ==
  ASSUME Bandable
  PROVE  /\ shard_count \in Word /\ shard_count > 0
         /\ IsRegionList(ClusterRegions)
         /\ Len(ClusterRegions) \in Word /\ Len(ClusterRegions) > 0
         /\ region_count_of(ClusterRegions) = Len(ClusterRegions)
         /\ ~banding_impossible(ClusterRegions, shard_count)
<1>1. shard_count \in Word /\ shard_count > 0 /\ IsRegionList(ClusterRegions)
  BY RegionListsAssumption, ShardCountAssumption
<1>2. Len(ClusterRegions) \in Word /\ Len(ClusterRegions) > 0
  BY <1>1 DEF IsRegionList, Bandable
<1>3. region_count_of(ClusterRegions) = Len(ClusterRegions)
  BY <1>2, WordExact DEF region_count_of
<1>4. shard_count \in Nat /\ Len(ClusterRegions) \in Nat
  BY <1>1, <1>2, WordSizeAssumption DEF Word
<1> QED
  BY <1>1, <1>2, <1>3, <1>4 DEF banding_impossible, Bandable

\* A slot's home is a shard, for a regional key one of the band of the slot's region.
LEMMA AllSlotType ==
  ASSUME Bandable, NEW s \in AllSlot
  PROVE  /\ s.org \in OrgId /\ s.key \in UserKey
         /\ s = slot_of(s.org, s.key, s.ri)
         /\ org_scoped_key(s.org, s.key) \in Key
         /\ slot_home(s) \in Shard
         /\ Scope[s.key] = "Global" => s.ri = 0
         /\ Scope[s.key] # "Global" =>
              /\ s.ri \in Word /\ s.ri < Len(ClusterRegions)
              /\ slot_home(s) \in Band(s.ri, Len(ClusterRegions), shard_count)
<1> DEFINE rc == Len(ClusterRegions)
           sk == org_scoped_key(s.org, s.key)
<1>1. /\ s \in [org : OrgId, key : UserKey, ri : HomeRegion]
      /\ Scope[s.key] = "Global" => s.ri = 0
  BY DEF AllSlot, Slots
<1>2. s.org \in OrgId /\ s.key \in UserKey /\ s = slot_of(s.org, s.key, s.ri)
  BY <1>1 DEF slot_of
<1>3. sk \in Key
  BY <1>2, KeyAssumption
<1>4. CASE Scope[s.key] = "Global"
  <2>1. slot_home(s) = shard_for(sk, shard_count)
    BY <1>4 DEF slot_home
  <2>2. slot_home(s) \in Shard
    BY <1>3, <2>1, ClusterWords, ShardForInRange DEF Shard
  <2> QED
    BY <1>1, <1>2, <1>3, <1>4, <2>2
<1>5. CASE Scope[s.key] # "Global"
  <2>1. rc \in Word /\ rc > 0 /\ shard_count \in Word /\ rc <= shard_count
    BY ClusterWords DEF Bandable
  <2>2. s.ri \in Word /\ s.ri < rc
    BY <1>1, <2>1, WordSizeAssumption DEF HomeRegion, Word
  <2>3. slot_home(s) = shard_for_region(s.ri, rc, sk, shard_count)
    BY <1>5, ClusterWords DEF slot_home
  <2> HIDE DEF rc, sk
  <2>4. slot_home(s) \in Band(s.ri, rc, shard_count) /\ slot_home(s) \in 0 .. shard_count - 1
    BY <1>3, <2>1, <2>2, <2>3, ShardInBand
  <2> QED
    BY <1>2, <1>3, <1>5, <2>2, <2>4 DEF rc, sk, Shard
<1> QED
  BY <1>4, <1>5

\* The register of a request lives in the shard the cluster's list names.
LEMMA RequestSlot ==
  ASSUME Bandable, NEW o \in OrgId, NEW k \in UserKey, NEW r \in RegionName
  PROVE  LET s == slot_of(o, k, home_region(k, r))
         IN  /\ s \in AllSlot
             /\ s.org = o /\ s.key = k
             /\ slot_home(s) = shard_of(o, k, r, ClusterRegions)
<1> DEFINE s == slot_of(o, k, home_region(k, r))
<1>1. Scope[k] \in KeyScope /\ home_region(k, r) \in HomeRegion
  BY ScopeAssumption, HomeRegionType
<1>2. s.org = o /\ s.key = k /\ s.ri = home_region(k, r)
  BY DEF slot_of
<1>3. s \in AllSlot
  <2>1. s \in [org : OrgId, key : UserKey, ri : HomeRegion]
    BY <1>1 DEF slot_of
  <2>2. Scope[k] = "Global" => s.ri = 0
    BY <1>2 DEF home_region
  <2> HIDE DEF s
  <2> QED
    BY <1>1, <1>2, <2>1, <2>2 DEF AllSlot, Slots
<1> HIDE DEF s
<1>4. slot_home(s) = shard_of(o, k, r, ClusterRegions)
  BY <1>2, ClusterWords DEF slot_home, shard_of, route_shard, home_region
<1> QED
  BY <1>2, <1>3, <1>4 DEF s

\* Slots that agree on the shard and on the scoped key are one slot.
LEMMA SlotsApart ==
  ASSUME Bandable, NEW s \in AllSlot, NEW t \in AllSlot,
         org_scoped_key(s.org, s.key) = org_scoped_key(t.org, t.key),
         slot_home(s) = slot_home(t)
  PROVE  s = t
<1>1. s.org = t.org /\ s.key = t.key
  BY AllSlotType, SameScopedKey
<1>2. s.ri = t.ri
  <2>1. CASE Scope[s.key] = "Global"
    BY <1>1, <2>1, AllSlotType
  <2>2. CASE Scope[s.key] # "Global"
    <3> DEFINE rc == Len(ClusterRegions)
               h  == slot_home(s)
    <3>1. s.ri \in Word /\ t.ri \in Word /\ s.ri < rc /\ t.ri < rc
      BY <1>1, <2>2, AllSlotType
    <3>2. h \in Band(s.ri, rc, shard_count) /\ h \in Band(t.ri, rc, shard_count)
      BY <1>1, <2>2, AllSlotType
    <3>3. rc \in Word /\ shard_count \in Word /\ rc <= shard_count
      BY ClusterWords DEF Bandable
    <3> HIDE DEF rc, h
    <3> QED
      BY <3>1, <3>2, <3>3, BandsDisjoint
  <2> QED
    BY <2>1, <2>2
<1>3. s = slot_of(s.org, s.key, s.ri) /\ t = slot_of(t.org, t.key, t.ri)
  BY AllSlotType
<1> QED
  BY <1>1, <1>2, <1>3

LEMMA AllCallStep ==
  ASSUME TypeOK, NEW c \in Client, NEW q, client' = [client EXCEPT ![c] = q]
  PROVE  AllCall' = [AllCall EXCEPT ![c] = abstract_call(q, KeyScope)]
<1>1. \A d \in Client : client'[d] = IF d = c THEN q ELSE client[d]
  BY DEF TypeOK
<1>2. AllCall' = [d \in Client |-> abstract_call(client'[d], KeyScope)]
  BY DEF AllCall, abstract_calls
<1>3. AllCall = [d \in Client |-> abstract_call(client[d], KeyScope)]
  BY DEF AllCall, abstract_calls
<1> HIDE DEF abstract_call
<1> QED
  BY <1>1, <1>2, <1>3

LEMMA AllCallAt ==
  ASSUME NEW c \in Client
  PROVE  AllCall[c] = abstract_call(client[c], KeyScope)
BY DEF AllCall, abstract_calls

LEMMA AllAbstractCall ==
  ASSUME NEW q, q # Idle, q.key \in UserKey
  PROVE  /\ q.pc = "forwarded" =>
              abstract_call(q, KeyScope) =
                [pc |-> "pending", op |-> q.op, slot |-> request_slot(q), val |-> q.val]
         /\ q.pc = "answered" =>
              abstract_call(q, KeyScope) =
                [pc |-> "done", op |-> q.op, slot |-> request_slot(q), val |-> q.val,
                 ret |-> q.ret]
<1>1. Scope[q.key] \in KeyScope
  BY ScopeAssumption
<1> QED
  BY <1>1 DEF abstract_call, request_slot

LEMMA AllActions ==
  /\ UNCHANGED All!vars <=> AllReg' = AllReg /\ AllCall' = AllCall
  /\ \A c, op, s, v : All!Begin(c, op, s, v) <=>
       /\ AllCall[c] = Idle
       /\ AllCall' = [AllCall EXCEPT ![c] =
                        [pc |-> "pending", op |-> op, slot |-> s, val |-> v]]
       /\ AllReg' = AllReg
  /\ \A c : All!Write(c) <=>
       /\ AllCall[c].pc = "pending" /\ AllCall[c].op = "put"
       /\ AllReg' = [AllReg EXCEPT ![AllCall[c].slot] = AllCall[c].val]
       /\ AllCall' = [AllCall EXCEPT ![c] =
                        [pc |-> "done", op |-> "put", slot |-> AllCall[c].slot,
                         val |-> AllCall[c].val, ret |-> AllCall[c].val]]
  /\ \A c : All!Read(c) <=>
       /\ AllCall[c].pc = "pending" /\ AllCall[c].op = "get"
       /\ AllCall' = [AllCall EXCEPT ![c] =
                        [pc |-> "done", op |-> "get", slot |-> AllCall[c].slot,
                         val |-> Absent, ret |-> AllReg[AllCall[c].slot]]]
       /\ AllReg' = AllReg
  /\ \A c : All!End(c) <=>
       AllCall[c] # Idle /\ AllCall' = [AllCall EXCEPT ![c] = Idle] /\ AllReg' = AllReg
  /\ All!Next <=>
       \E c \in Client :
         \/ \E s \in AllSlot : All!Begin(c, "get", s, Absent)
         \/ \E s \in AllSlot, v \in Value : All!Begin(c, "put", s, v)
         \/ All!Write(c)
         \/ All!Read(c)
         \/ All!End(c)
BY DEF All!vars, All!Begin, All!Write, All!Read, All!End, All!Next,
       All!Pending, All!Done, All!Idle, AllReg, AllCall, AllSlot, Idle

LEMMA AllRegUnchanged ==
  ASSUME UNCHANGED store
  PROVE  AllReg' = AllReg
BY DEF AllReg, registers, slot_home

\* The registers, before and after a step, as functions.
LEMMA AllRegFunction ==
  /\ AllReg = [t \in AllSlot |-> store[slot_home(t)][org_scoped_key(t.org, t.key)]]
  /\ AllReg' = [t \in AllSlot |-> store'[slot_home(t)][org_scoped_key(t.org, t.key)]]
BY DEF AllReg, registers, AllSlot, Slots, slot_home

LEMMA AllRefinementInit ==
  ASSUME Bandable
  PROVE  Init => All!Init
<1> SUFFICES ASSUME Init PROVE All!Init
  OBVIOUS
<1>1. AllCall = [c \in Client |-> Idle]
  BY DEF Init, AllCall, abstract_calls, abstract_call
<1>2. AllReg = [s \in AllSlot |-> Absent]
  <2>1. \A s \in AllSlot : store[slot_home(s)][org_scoped_key(s.org, s.key)] = Absent
    BY AllSlotType DEF Init
  <2> QED
    BY <2>1, AllRegFunction
<1> QED
  BY <1>1, <1>2 DEF All!Init, All!Idle, AllCall, AllReg, AllSlot, Idle

\* A put that commits writes the register of its key and region and no other.
LEMMA AllPutRefines ==
  ASSUME Bandable, AgreeInv, NEW c \in Client, NodePut(c)
  PROVE  All!Write(c)
<1> DEFINE r   == client[c]
           own == shard_of(r.org, r.key, r.region, ClusterRegions)
           sk  == org_scoped_key(r.org, r.key)
           a   == Answer(c, r.val)
           s0  == request_slot(r)
<1>1. TypeOK
  BY DEF AgreeInv, StoreInv
<1>2. r \in Request /\ r # Idle /\ r.pc = "forwarded" /\ r.op = "put"
  BY <1>1, ClientCases DEF NodePut, Idle
<1>3. r.org \in OrgId /\ r.key \in UserKey /\ r.region \in RegionName
  BY <1>2 DEF Request
<1>4. /\ store' = [store EXCEPT ![own][sk] = r.val]
      /\ client' = [client EXCEPT ![c] = a]
  BY DEF NodePut
<1>5. /\ a.pc = "answered" /\ a.op = "put" /\ a.org = r.org /\ a.key = r.key
      /\ a.region = r.region /\ a.val = r.val /\ a.ret = r.val /\ a # Idle
  BY <1>2, AnswerKeeps
<1>6. own \in Shard /\ sk \in Key
  BY <1>3, ShardOfInRange, RegionListsAssumption, KeyAssumption
<1>7. /\ s0 \in AllSlot /\ s0.org = r.org /\ s0.key = r.key
      /\ slot_home(s0) = own
  BY <1>3, RequestSlot DEF request_slot
<1>8. request_slot(a) = s0
  <2> HIDE DEF a, r
  <2> QED
    BY <1>5 DEF request_slot
<1> HIDE DEF a
<1>9. AllReg' = [AllReg EXCEPT ![s0] = r.val]
  <2> HIDE DEF own, r, s0
  <2>1. org_scoped_key(s0.org, s0.key) = sk
    BY <1>7
  <2> HIDE DEF sk
  <2>2. store'[own][sk] = r.val
    BY <1>1, <1>4, <1>6 DEF TypeOK
  <2>3. AllReg'[s0] = r.val
    BY <1>7, <2>1, <2>2, AllRegFunction
  <2>4. ASSUME NEW s \in AllSlot, s # s0 PROVE AllReg'[s] = AllReg[s]
    <3>1. ~(org_scoped_key(s.org, s.key) = sk /\ slot_home(s) = own)
      BY <1>7, <2>1, <2>4, SlotsApart
    <3>2. slot_home(s) \in Shard /\ org_scoped_key(s.org, s.key) \in Key
      BY AllSlotType
    <3>3. store'[slot_home(s)][org_scoped_key(s.org, s.key)]
            = store[slot_home(s)][org_scoped_key(s.org, s.key)]
      BY <1>1, <1>4, <1>6, <3>1, <3>2 DEF TypeOK
    <3> QED
      BY <3>3, AllRegFunction
  <2>5. AllReg' = [s \in AllSlot |-> AllReg'[s]] /\ AllReg = [s \in AllSlot |-> AllReg[s]]
    BY AllRegFunction
  <2> QED
    BY <1>7, <2>3, <2>4, <2>5
<1>10. AllCall' = [AllCall EXCEPT ![c] = abstract_call(a, KeyScope)]
  BY <1>1, <1>4, AllCallStep
<1>11. /\ AllCall[c] = [pc |-> "pending", op |-> "put", slot |-> s0, val |-> r.val]
       /\ abstract_call(a, KeyScope) =
            [pc |-> "done", op |-> "put", slot |-> s0, val |-> r.val, ret |-> r.val]
  <2>1. AllCall[c] = abstract_call(r, KeyScope)
    BY AllCallAt
  <2> HIDE DEF r
  <2> QED
    BY <1>2, <1>3, <1>5, <1>8, <2>1, AllAbstractCall
<1>12. /\ AllCall[c].pc = "pending" /\ AllCall[c].op = "put"
       /\ AllCall[c].slot = s0 /\ AllCall[c].val = r.val
  BY <1>11
<1> QED
  BY <1>9, <1>10, <1>11, <1>12, AllActions

\* A get that is answered reads the register of its key and region: the load balancer
\* sent it where that register lives.
LEMMA AllGetRefines ==
  ASSUME Bandable, AgreeInv, NEW c \in Client, NodeGet(c)
  PROVE  All!Read(c)
<1> DEFINE r   == client[c]
           ret == store[r.shard][org_scoped_key(r.org, r.key)]
           a   == Answer(c, ret)
           s0  == request_slot(r)
<1>1. TypeOK /\ RequestValues /\ HeadedHome
  BY DEF AgreeInv, StoreInv
<1>2. r \in Request /\ r # Idle /\ r.pc = "forwarded" /\ r.op = "get"
  BY <1>1, ClientCases DEF NodeGet, Idle
<1>3. /\ r.org \in OrgId /\ r.key \in UserKey /\ r.region \in RegionName
      /\ r.val = Absent
  BY <1>1, <1>2 DEF Request, RequestValues
<1>4. client' = [client EXCEPT ![c] = a] /\ UNCHANGED store
  BY DEF NodeGet
<1>5. /\ a.pc = "answered" /\ a.op = "get" /\ a.org = r.org /\ a.key = r.key
      /\ a.region = r.region /\ a.val = Absent /\ a.ret = ret /\ a # Idle
  BY <1>2, <1>3, AnswerKeeps
<1>6. /\ s0 \in AllSlot /\ s0.org = r.org /\ s0.key = r.key
      /\ slot_home(s0) = r.shard
  BY <1>1, <1>2, <1>3, RequestSlot DEF request_slot, HeadedHome
<1>7. request_slot(a) = s0
  <2> HIDE DEF a, r
  <2> QED
    BY <1>5 DEF request_slot
<1> HIDE DEF a
<1>8. AllReg[s0] = ret
  BY <1>6, AllRegFunction
<1>9. AllCall' = [AllCall EXCEPT ![c] = abstract_call(a, KeyScope)]
  BY <1>1, <1>4, AllCallStep
<1>10. /\ AllCall[c] = [pc |-> "pending", op |-> "get", slot |-> s0, val |-> Absent]
       /\ abstract_call(a, KeyScope) =
            [pc |-> "done", op |-> "get", slot |-> s0, val |-> Absent, ret |-> ret]
  <2>1. AllCall[c] = abstract_call(r, KeyScope)
    BY AllCallAt
  <2> HIDE DEF r, ret
  <2> QED
    BY <1>2, <1>3, <1>5, <1>7, <2>1, AllAbstractCall
<1>11. AllCall[c].pc = "pending" /\ AllCall[c].op = "get" /\ AllCall[c].slot = s0
  BY <1>10
<1>12. AllReg' = AllReg
  BY <1>4, AllRegUnchanged
<1> HIDE DEF r, ret, s0
<1>13. AllCall' = [AllCall EXCEPT ![c] =
                     [pc |-> "done", op |-> "get", slot |-> AllCall[c].slot,
                      val |-> Absent, ret |-> AllReg[AllCall[c].slot]]]
  BY <1>8, <1>9, <1>10, <1>11
<1> QED
  BY <1>11, <1>12, <1>13, AllActions

\* A request that sets out begins an operation on its register.
LEMMA AllForwardRefines ==
  ASSUME TypeOK, NEW c \in Client, NEW l \in LB, NEW o \in OrgId, NEW k \in UserKey,
         NEW r \in RegionName, NEW op, NEW v, Forward(c, l, op, o, k, r, v)
  PROVE  All!Begin(c, op, slot_of(o, k, home_region(k, r)), v)
<1> DEFINE q  == [pc |-> "forwarded", op |-> op, org |-> o, key |-> k, region |-> r,
                  val |-> v, shard |-> shard_of(o, k, r, lbRegions[l])]
           s0 == slot_of(o, k, home_region(k, r))
<1>1. client[c] = Idle /\ client' = [client EXCEPT ![c] = q] /\ UNCHANGED store
  BY DEF Forward
<1>2. q.pc = "forwarded" /\ q.op = op /\ q.key = k /\ q.val = v /\ q # Idle
  <2>1. q.pc # Idle.pc
    BY DEF Idle
  <2>2. q # Idle
    BY <2>1
  <2> QED
    BY <2>2
<1>3. request_slot(q) = s0
  BY DEF request_slot
<1> HIDE DEF q
<1>4. AllCall' = [AllCall EXCEPT ![c] = abstract_call(q, KeyScope)]
  BY <1>1, AllCallStep
<1>5. AllCall[c] = Idle
  BY <1>1, AllCallAt DEF abstract_call
<1>6. AllReg' = AllReg
  BY <1>1, AllRegUnchanged
<1> HIDE DEF s0
<1>7. abstract_call(q, KeyScope) = [pc |-> "pending", op |-> op, slot |-> s0, val |-> v]
  BY <1>2, <1>3, AllAbstractCall
<1>8. AllCall' = [AllCall EXCEPT ![c] = [pc |-> "pending", op |-> op, slot |-> s0,
                                         val |-> v]]
  BY <1>4, <1>7
<1>9. All!Begin(c, op, s0, v)
  BY <1>5, <1>6, <1>8, ZenonT(30)
     DEF All!Begin, All!Pending, All!Idle, AllReg, AllCall, AllSlot, Idle
<1> QED
  BY <1>9 DEF s0

LEMMA AllRefinementStep ==
  ASSUME Bandable
  PROVE  AgreeInv /\ [Next]_vars => [All!Next]_(All!vars)
<1> SUFFICES ASSUME AgreeInv, [Next]_vars
             PROVE  All!Next \/ UNCHANGED All!vars
  OBVIOUS
<1>0. TypeOK
  BY DEF AgreeInv, StoreInv
<1>1. ASSUME NEW c \in Client, NEW l \in LB, NEW o \in OrgId, NEW k \in UserKey,
             NEW r \in RegionName, ForwardPut(c, l, o, k, r)
      PROVE  All!Next
  <2>1. PICK p \in Payload :
          Forward(c, l, "put", o, k, r,
                  [org |-> o, ri |-> home_region(k, r), payload |-> p])
    BY <1>1 DEF ForwardPut
  <2> DEFINE v  == [org |-> o, ri |-> home_region(k, r), payload |-> p]
             s0 == slot_of(o, k, home_region(k, r))
  <2>2. v \in Value
    BY HomeRegionType DEF Value
  <2> HIDE DEF v
  <2>3. Forward(c, l, "put", o, k, r, v)
    BY <2>1 DEF v
  <2>4. All!Begin(c, "put", s0, v)
    BY <1>0, <2>3, AllForwardRefines
  <2>5. s0 \in AllSlot
    BY RequestSlot
  <2> HIDE DEF s0
  <2> QED
    BY <2>2, <2>4, <2>5, AllActions
<1>2. ASSUME NEW c \in Client, NEW l \in LB, NEW o \in OrgId, NEW k \in UserKey,
             NEW r \in RegionName, ForwardGet(c, l, o, k, r)
      PROVE  All!Next
  <2> DEFINE s0 == slot_of(o, k, home_region(k, r))
  <2>1. Forward(c, l, "get", o, k, r, Absent)
    BY <1>2 DEF ForwardGet
  <2>2. All!Begin(c, "get", s0, Absent)
    BY <1>0, <2>1, AllForwardRefines
  <2>3. s0 \in AllSlot
    BY RequestSlot
  <2> HIDE DEF s0
  <2> QED
    BY <2>2, <2>3, AllActions
<1>3. ASSUME NEW c \in Client, NodePut(c)
      PROVE  All!Next
  BY <1>3, AllPutRefines, AllActions
<1>4. ASSUME NEW c \in Client, NodeGet(c)
      PROVE  All!Next
  BY <1>4, AllGetRefines, AllActions
<1>5. ASSUME NEW c \in Client, Finish(c)
      PROVE  All!Next \/ UNCHANGED All!vars
  <2>1. client' = [client EXCEPT ![c] = Idle] /\ UNCHANGED store
    BY <1>5 DEF Finish
  <2>2. abstract_call(Idle, KeyScope) = Idle
    BY DEF abstract_call
  <2>3. AllCall' = [AllCall EXCEPT ![c] = Idle] /\ AllReg' = AllReg
    BY <1>0, <2>1, <2>2, AllCallStep, AllRegUnchanged
  <2>4. CASE AllCall[c] = Idle
    <3>1. AllCall' = AllCall
      BY <2>3, <2>4 DEF AllCall, abstract_calls
    <3> QED
      BY <2>3, <3>1, AllActions
  <2>5. CASE AllCall[c] # Idle
    BY <2>3, <2>5, AllActions
  <2> QED
    BY <2>4, <2>5
<1>6. ASSUME UNCHANGED <<store, client>>
      PROVE  UNCHANGED All!vars
  <2>1. AllReg' = AllReg /\ AllCall' = AllCall
    BY <1>6, AllRegUnchanged DEF AllCall, abstract_calls
  <2> QED
    BY <2>1, AllActions
<1>7. ASSUME NEW l \in LB, Reload(l)
      PROVE  UNCHANGED All!vars
  BY <1>6, <1>7 DEF Reload
<1>8. CASE UNCHANGED vars
  BY <1>6, <1>8 DEF vars
<1> QED
  BY <1>1, <1>2, <1>3, <1>4, <1>5, <1>7, <1>8 DEF Next

\* While the lists agree and the cluster can band, reads and writes of every key are
\* linearizable: one register for each org and global key, one for each org, regional
\* key and region, although keys of all scopes share shards and a region has several
\* spellings.
THEOREM SpecAllKeysAreRegisters ==
  ASSUME RegionLists = {ClusterRegions},
         ClusterRegions # <<>>, Len(ClusterRegions) <= shard_count
  PROVE  Spec => AllKeysAreRegisters
<1>0. Bandable
  BY DEF Bandable
<1>1. Spec => []AgreeInv
  BY SpecAgreeInv
<1>2. Init => All!Init
  BY <1>0, AllRefinementInit
<1>3. AgreeInv /\ [Next]_vars => [All!Next]_(All!vars)
  BY <1>0, AllRefinementStep
<1> QED
  BY <1>1, <1>2, <1>3, PTL DEF Spec, AllKeysAreRegisters, All!Spec
=============================================================================
