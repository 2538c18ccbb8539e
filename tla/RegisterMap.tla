---------------------------- MODULE RegisterMap ----------------------------
(***************************************************************************)
(* What routing promises its callers: a fixed set of registers, each of    *)
(* which is in one place.  A client begins a read or a write, the          *)
(* operation happens at one instant between its beginning and its end, and *)
(* the client learns the outcome or loses touch with it.                   *)
(***************************************************************************)
CONSTANTS
  Client,
  Slot,    \* the registers
  Value,
  Absent   \* what a register holds before the first write

VARIABLES
  reg,     \* reg[s]  : the content of register s
  call     \* call[c] : what client c is doing

vars == <<reg, call>>

Idle == [pc |-> "idle"]
Pending(op, s, v)   == [pc |-> "pending", op |-> op, slot |-> s, val |-> v]
Done(op, s, v, ret) == [pc |-> "done", op |-> op, slot |-> s, val |-> v, ret |-> ret]

Init ==
  /\ reg = [s \in Slot |-> Absent]
  /\ call = [c \in Client |-> Idle]

Begin(c, op, s, v) ==
  /\ call[c] = Idle
  /\ call' = [call EXCEPT ![c] = Pending(op, s, v)]
  /\ UNCHANGED reg

Write(c) ==
  /\ call[c].pc = "pending" /\ call[c].op = "put"
  /\ reg' = [reg EXCEPT ![call[c].slot] = call[c].val]
  /\ call' = [call EXCEPT ![c] = Done("put", call[c].slot, call[c].val, call[c].val)]

Read(c) ==
  /\ call[c].pc = "pending" /\ call[c].op = "get"
  /\ call' = [call EXCEPT ![c] = Done("get", call[c].slot, Absent, reg[call[c].slot])]
  /\ UNCHANGED reg

\* The client takes the outcome, or the operation is lost before it happened.
End(c) ==
  /\ call[c] # Idle
  /\ call' = [call EXCEPT ![c] = Idle]
  /\ UNCHANGED reg

Next ==
  \E c \in Client :
    \/ \E s \in Slot : Begin(c, "get", s, Absent)
    \/ \E s \in Slot, v \in Value : Begin(c, "put", s, v)
    \/ Write(c)
    \/ Read(c)
    \/ End(c)

Spec == Init /\ [][Next]_vars
=============================================================================
