----------------------------- MODULE KeyFraming -----------------------------
(***************************************************************************)
(* The framed keys of fiducia-routing: what a caller's key, an org's key,  *)
(* a reserved coordination key and a lock-domain key look like once they   *)
(* reach the hash.                                                         *)
(*                                                                         *)
(* A string is a sequence of symbols.  A symbol is a record, so that the   *)
(* two control characters the framing relies on, a constant tag such as    *)
(* "fiducia-lock-coordinator", a decimal length and an ordinary character  *)
(* are told apart.  A constant tag or a decimal number is ONE symbol: none *)
(* of them contains a NUL or a U+0001, which is all the framing asks.      *)
(***************************************************************************)
EXTENDS Naturals, Sequences, SequencesExt

CONSTANTS
  Text,   \* ordinary characters: neither NUL nor the scope delimiter
  OrgId   \* the org ids the node accepts (no control characters)

Char(c) == [sym |-> "char", of |-> c]
Tag(t)  == [sym |-> "tag", of |-> t]
Dec(n)  == [sym |-> "dec", of |-> n]
NUL     == [sym |-> "nul", of |-> 0]

ORG_SCOPE_DELIM == [sym |-> "soh", of |-> 0]

\* What a caller may put in a key or an id: any character, the controls included.
Symbol == {Char(c) : c \in Text} \cup {NUL, ORG_SCOPE_DELIM}
Str    == Seq(Symbol)

\* "`\u{1}` cannot appear in a valid org id (the node rejects control characters)".
ASSUME OrgIdAssumption ==
  \A o \in OrgId : o \in Str /\ \A i \in DOMAIN o : o[i] # ORG_SCOPE_DELIM

-----------------------------------------------------------------------------
\* The per-org keyspace.

\* Mutant: nothing marks the end of the org id.
org_scoped_key_open(org, key) == <<ORG_SCOPE_DELIM>> \o org \o key

org_scoped_key(org, key) == <<ORG_SCOPE_DELIM>> \o org \o <<ORG_SCOPE_DELIM>> \o key

org_scope_prefix(org) == org_scoped_key(org, <<>>)

\* "A scoped key that doesn't start with it belongs to a different org."
in_org_scope(org, scoped) == IsPrefix(org_scope_prefix(org), scoped)

\* "Strip it to recover the caller-facing key."
strip_org_scope(org, scoped) ==
  SubSeq(scoped, Len(org_scope_prefix(org)) + 1, Len(scoped))

-----------------------------------------------------------------------------
\* Reserved coordination keys and the versioned lock-domain keys.

LOCK_COORDINATION_KEY == <<NUL, Tag("fiducia-lock-coordinator")>>

SERVICE_DISCOVERY_KEY == <<NUL, Tag("fiducia-service-discovery")>>

LOCK_COORDINATION_DOMAIN_V1_PREFIX == <<NUL, Tag("fiducia-lock-domain-v1")>>

DomainKind == {"tenant", "shared", "system"}

\* LockCoordinationDomain: a variant and its identifier, any characters.
LockCoordinationDomain == [kind : DomainKind, id : Str]

\* {prefix} NUL {kind} NUL {id.len()} NUL {id}
lock_coordination_domain_key(d) ==
  LOCK_COORDINATION_DOMAIN_V1_PREFIX
    \o <<NUL, Tag(d.kind), NUL, Dec(Len(d.id)), NUL>> \o d.id
=============================================================================
