--------------------------- MODULE ServiceDirectory ---------------------------
(***************************************************************************)
(* What service discovery promises: one directory of registered services,  *)
(* of which every question, about one service or about all of them, sees   *)
(* one state between the question and its answer.                          *)
(***************************************************************************)
CONSTANTS
  Service,
  Watcher   \* who asks

VARIABLES
  directory,   \* the services with a live instance
  query        \* query[w] : what watcher w has asked, or been told

Idle == [pc |-> "idle"]

\* A list asks for all services, a lookup for one.
Asked(V)      == [pc |-> "asked", asks |-> V]
Told(V, live) == [pc |-> "told", asks |-> V, live |-> live]

Question == {Service} \cup {{v} : v \in Service}

Init ==
  /\ directory = {}
  /\ query = [w \in Watcher |-> Idle]

Change ==
  /\ \E v \in Service : directory' \in {directory \cup {v}, directory \ {v}}
  /\ UNCHANGED query

Ask(w, V) ==
  /\ query[w] = Idle
  /\ query' = [query EXCEPT ![w] = Asked(V)]
  /\ UNCHANGED directory

Tell(w) ==
  /\ query[w].pc = "asked"
  /\ query' = [query EXCEPT ![w] = Told(query[w].asks, query[w].asks \cap directory)]
  /\ UNCHANGED directory

\* A lost question, or one whose answer has been used.
Forget(w) ==
  /\ query[w] # Idle
  /\ query' = [query EXCEPT ![w] = Idle]
  /\ UNCHANGED directory

Next ==
  \/ Change
  \/ \E w \in Watcher : (\E V \in Question : Ask(w, V)) \/ Tell(w) \/ Forget(w)

Spec == Init /\ [][Next]_<<directory, query>>
=============================================================================
