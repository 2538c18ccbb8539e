------------------------------ MODULE Conformance ------------------------------
(***************************************************************************)
(* The library and its formal model, side by side: callers call the        *)
(* library (RouteCalls), the conformance runner replays files of requests  *)
(* through formal/model.py (FormalModel), one thing at a time.             *)
(*                                                                         *)
(* "Routing drift can split one logical key across different Raft groups": *)
(* the two implementations must not differ, and what a replay prints must  *)
(* be what the library answers.                                            *)
(***************************************************************************)
EXTENDS RouteCalls, FormalModel

\* A line of a file.  A shard count no u32 can hold is no request of the library, but the
\* adapter would answer it; the files stay below.
ShardCount == {n \in Int : n < WordSize}

Line ==
  {Blank, Malformed}
    \cup [op : {"hash"}, key : Key]
    \cup [op : {"shard"}, key : Key, shard_count : ShardCount]
    \cup [op : {"scope"}, org_id : OrgId, key : Str]
    \cup [op : {"route"}, scope : STRING, key : Key, region : RegionName,
          regions : RegionLists, shard_count : ShardCount]

ASSUME InputsAssumption == Inputs \subseteq Seq(Line)

-----------------------------------------------------------------------------
ConformanceInit == Init /\ ReplayInit

ConformanceNext ==
  \/ replay = "none" /\ Next /\ UNCHANGED replayVars
  \/ call = Idle /\ ReplayNext /\ UNCHANGED call

ConformanceSpec == ConformanceInit /\ [][ConformanceNext]_<<call, replayVars>>

-----------------------------------------------------------------------------
\* What a caller of the library gets for a request of the adapter.
library_answer(r) ==
  CASE r.op = "hash"  -> Ok(fnv1a[r.key])
    [] r.op = "shard" ->
         IF r.shard_count \notin Word \/ shard_for_panics(r.shard_count) THEN ValueError
         ELSE Ok(shard_for(r.key, r.shard_count))
    [] r.op = "scope" -> Ok(org_scoped_key(r.org_id, r.key))
    [] r.op = "route" ->
         IF r.scope \notin KeyScope \/ r.shard_count \notin Word
              \/ route_shard_panics(r.scope, r.regions, r.shard_count) THEN ValueError
         ELSE Ok(route_shard(r.scope, r.key, r.region, r.regions, r.shard_count))
    [] OTHER -> ValueError

-----------------------------------------------------------------------------
\* Properties.

\* The Python functions, on unbounded integers, answer what the u32 code answers and fail
\* where it panics, for every argument: no wrap, cast, clamp or comparison tells the two
\* apart ("update the model and production code in the same PR").
ModelAgrees ==
  LET outcome == IF call.panicked THEN ValueError ELSE Ok(call.shard)
  IN  /\ call.fn = "shard_for_region" =>
           outcome = model_shard_for_region(call.ri, call.rc, call.key, call.n)
      /\ call.fn = "route_shard" =>
           outcome = model_route_shard(call.scope, call.key, call.region, call.regions, call.n)

\* What has been printed is the library's answers to the first requests of the file, each
\* under the number of its line, blank lines counted; nothing is printed when any line
\* cannot be answered; all is printed once the adapter is done.
ReplayIsFaithful ==
  LET request(n) == n \in DOMAIN input /\ input[n] # Blank
      answered   == {emitted[k].line : k \in DOMAIN emitted}
  IN  /\ \A k \in DOMAIN emitted :
           LET e == emitted[k]
           IN  /\ request(e.line)
               /\ Ok(e.result) = library_answer(input[e.line])
               /\ e.op = input[e.line].op
               /\ \A n \in 1 .. e.line - 1 : request(n) =>
                    \E j \in 1 .. k - 1 : emitted[j].line = n
      /\ emitted # <<>> => \A n \in DOMAIN input : request(n) => library_answer(input[n]).ok
      /\ replay = "done" => answered = {n \in DOMAIN input : request(n)}
=============================================================================
