-------------------------------- MODULE Fnv1a --------------------------------
(***************************************************************************)
(* The frozen hash (fnv1a in src/lib.rs), byte by byte on 32-bit words.    *)
(*                                                                         *)
(* The placement of all stored data hangs on this function: the vectors    *)
(* the tests freeze are what the deployed clusters' layout was built with. *)
(***************************************************************************)
EXTENDS HashWords, Sequences

CONSTANTS
  Vector,   \* Vector[v] : the bytes of a frozen key
  Digest,   \* Digest[v] : its frozen hash, as halves, when the tests freeze it
  Placement \* <<v, n, s>> : key v is frozen in shard s of n

-----------------------------------------------------------------------------
VARIABLES
  key,    \* the vector being hashed
  i,      \* how many of its bytes have been absorbed
  hash

vars == <<key, i, hash>>

Init == key \in DOMAIN Vector /\ i = 0 /\ hash = OFFSET_BASIS

Absorb ==
  /\ i < Len(Vector[key])
  /\ hash' = absorb(hash, Vector[key][i + 1])
  /\ i' = i + 1
  /\ UNCHANGED key

Next == Absorb

Spec == Init /\ [][Next]_vars

Hashed == i = Len(Vector[key])

\* Upgrading this library moves no stored data ("changing the hash function remaps keys
\* across the cluster"): every key whose hash or shard the tests freeze, the reserved
\* coordination keys and the multi-byte ones among them, still hashes to its frozen word
\* and still lives in its frozen shard, whatever its length and wherever the product wraps.
FrozenLayout ==
  Hashed => /\ key \in DOMAIN Digest => hash = Digest[key]
            /\ \A p \in Placement : p[1] = key => rem(hash, p[2]) = p[3]
=============================================================================
