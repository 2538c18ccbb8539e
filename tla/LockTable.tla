------------------------------ MODULE LockTable ------------------------------
(***************************************************************************)
(* What lock coordination promises: one table of union locks for each      *)
(* domain.  A client asks for a set of lock names of one domain, gets all  *)
(* of them at one instant or none, and gives them back together.           *)
(***************************************************************************)
CONSTANTS
  Client,
  Domain,
  LockName

VARIABLE lock   \* lock[c] : what client c asks for or holds

Idle == [pc |-> "idle"]
Lock(pc, d, N) == [pc |-> pc, domain |-> d, names |-> N]

UnionLock == (SUBSET LockName) \ {{}}

Holding(c) == lock[c].pc = "holding"

\* Two union locks of one domain with a name in common.
Conflict(a, b) == a.domain = b.domain /\ a.names \cap b.names # {}

Exclusive ==
  \A b, c \in Client : b # c /\ Holding(b) /\ Holding(c) => ~Conflict(lock[b], lock[c])

Init ==
  /\ lock \in [Client -> {Idle} \cup {Lock("holding", d, N) : d \in Domain, N \in UnionLock}]
  /\ Exclusive

Ask(c, d, N) ==
  /\ lock[c] = Idle
  /\ lock' = [lock EXCEPT ![c] = Lock("asking", d, N)]

Grant(c) ==
  /\ lock[c].pc = "asking"
  /\ \A b \in Client : Holding(b) => ~Conflict(lock[b], lock[c])
  /\ lock' = [lock EXCEPT ![c] = Lock("holding", lock[c].domain, lock[c].names)]

\* A holder gives its locks back; one that is still asking gives up.
Release(c) ==
  /\ lock[c] # Idle
  /\ lock' = [lock EXCEPT ![c] = Idle]

Next ==
  \E c \in Client :
    \/ \E d \in Domain, N \in UnionLock : Ask(c, d, N)
    \/ Grant(c)
    \/ Release(c)

Spec == Init /\ [][Next]_lock
=============================================================================
