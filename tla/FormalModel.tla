------------------------------ MODULE FormalModel ------------------------------
(***************************************************************************)
(* formal/model.py: a second implementation of the mapping, in Python, and *)
(* its adapter, which answers a file of requests, one JSON object a line.  *)
(*                                                                         *)
(* Integers are Python's, of any size and sign; an exception is ValueError *)
(* whatever its class, since every exception ends the run.  The loop of    *)
(* the Python hash is that of the library (module Fnv1a), so both are the  *)
(* constant fnv1a here.                                                    *)
(***************************************************************************)
EXTENDS KeyFraming, Routing

CONSTANT Inputs   \* the files the adapter may be given, as sequences of lines

ValueError == [ok |-> FALSE]
Ok(result) == [ok |-> TRUE, result |-> result]

-----------------------------------------------------------------------------
\* The functions.

model_shard_for(key, shard_count) ==
  IF shard_count <= 0 THEN ValueError ELSE Ok(fnv1a[key] % shard_count)

strip(s)    == [s EXCEPT !.padded = FALSE]
casefold(s) == [s EXCEPT !.upper = FALSE]

\* Counted from 0; nothing for None.
model_region_index(region, regions) ==
  LET named == {i \in DOMAIN regions : casefold(regions[i]) = casefold(strip(region))}
  IN  {i - 1 : i \in {i \in named : \A j \in named : i <= j}}

\* Mutant: the last band is as wide as the others.
model_band_even(resolved, region_count, shard_count) == shard_count \div region_count

model_band(resolved, region_count, shard_count) ==
  IF resolved = region_count - 1
  THEN shard_count - resolved * (shard_count \div region_count)
  ELSE shard_count \div region_count

model_shard_for_region(ri, region_count, key, shard_count) ==
  LET resolved == Min2(ri, region_count - 1)
  IN  IF region_count <= 0 \/ shard_count < region_count THEN ValueError
      ELSE Ok(resolved * (shard_count \div region_count)
                + (fnv1a[key] % model_band(resolved, region_count, shard_count)))

model_route_shard(scope, key, region, regions, shard_count) ==
  LET found == model_region_index(region, regions)
      ri    == IF found = {} THEN DEFAULT_REGION_INDEX ELSE CHOOSE i \in found : TRUE
  IN  IF scope = "Global" THEN model_shard_for(key, shard_count)
      ELSE IF scope # "Regional" THEN ValueError
      ELSE IF regions = <<>> \/ shard_count < Len(regions)
      THEN model_shard_for(key, shard_count)
      ELSE model_shard_for_region(ri, Len(regions), key, shard_count)

-----------------------------------------------------------------------------
\* Requests.  A line is blank, a request, or malformed: no JSON, a field missing, a count
\* that is no number.

Blank     == [op |-> "blank"]
Malformed == [op |-> "malformed"]

model_answer(r) ==
  CASE r.op = "hash"  -> Ok(fnv1a[r.key])
    [] r.op = "shard" -> model_shard_for(r.key, r.shard_count)
    [] r.op = "scope" -> Ok(org_scoped_key(r.org_id, r.key))
    [] r.op = "route" -> model_route_shard(r.scope, r.key, r.region, r.regions, r.shard_count)
    [] OTHER          -> ValueError

-----------------------------------------------------------------------------
VARIABLES
  replay,    \* "none", "reading", "emitting", "crashed" or "done"
  input,     \* the file
  at,        \* how many lines have been read
  outputs,   \* the answers collected
  emitted    \* the answers printed

replayVars == <<replay, input, at, outputs, emitted>>

ReplayInit ==
  /\ replay = "none"
  /\ input = <<>> /\ at = 0 /\ outputs = <<>> /\ emitted = <<>>

StartReplay ==
  /\ replay = "none"
  /\ replay' = "reading"
  /\ input' \in Inputs
  /\ UNCHANGED <<at, outputs, emitted>>

Record(n, r) == [line |-> n, op |-> r.op, result |-> model_answer(r).result]

\* Mutant: what cannot be answered is passed over.
ReadLine_lenient ==
  /\ replay = "reading" /\ at < Len(input)
  /\ at' = at + 1
  /\ outputs' = IF input[at'] = Blank \/ ~model_answer(input[at']).ok THEN outputs
                ELSE Append(outputs, Record(at', input[at']))
  /\ UNCHANGED <<replay, input, emitted>>

\* Blank lines are skipped but counted; an exception ends the run.
ReadLine ==
  /\ replay = "reading" /\ at < Len(input)
  /\ at' = at + 1
  /\ LET r == input[at']
     IN  \/ r = Blank /\ UNCHANGED <<replay, outputs>>
         \/ /\ r # Blank /\ model_answer(r).ok
            /\ outputs' = Append(outputs, Record(at', r))
            /\ UNCHANGED replay
         \/ /\ r # Blank /\ ~model_answer(r).ok
            /\ replay' = "crashed"
            /\ UNCHANGED outputs
  /\ UNCHANGED <<input, emitted>>

\* After the last line the answers are printed, one by one.
EndOfInput ==
  /\ replay = "reading" /\ at = Len(input)
  /\ replay' = "emitting"
  /\ UNCHANGED <<input, at, outputs, emitted>>

Emit ==
  /\ replay = "emitting"
  /\ IF Len(emitted) < Len(outputs)
     THEN emitted' = Append(emitted, outputs[Len(emitted) + 1]) /\ UNCHANGED replay
     ELSE replay' = "done" /\ UNCHANGED emitted
  /\ UNCHANGED <<input, at, outputs>>

\* The runner's time limit (timeout_seconds), or a reader that went away.
Killed ==
  /\ replay \in {"reading", "emitting"}
  /\ replay' = "crashed"
  /\ UNCHANGED <<input, at, outputs, emitted>>

\* The next run of the process.
Again ==
  /\ replay \in {"crashed", "done"}
  /\ replay' = "none"
  /\ input' = <<>> /\ at' = 0 /\ outputs' = <<>> /\ emitted' = <<>>

ReplayNext == StartReplay \/ ReadLine \/ EndOfInput \/ Emit \/ Killed \/ Again
=============================================================================
