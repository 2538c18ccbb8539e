------------------------------ MODULE RegionCli ------------------------------
(***************************************************************************)
(* The operator tool fiducia-region (src/bin/fiducia-region.rs): settings  *)
(* from FIDUCIA_* variables, then from the command line one argument at a  *)
(* time, then the answer.  Every early return and every panic is an end of *)
(* a run.                                                                  *)
(*                                                                         *)
(* An argument or a variable is a RegionString: its letters in lower case  *)
(* and whether it was written with capitals or white space.  What parses   *)
(* as a number is a CONSTANT, and so is what is not Unicode: such an       *)
(* argument ends the run when it is read, such a variable counts as unset  *)
(* (`.ok()').                                                              *)
(***************************************************************************)
EXTENDS CustomerRegion, FiniteSets, SequencesExt

CONSTANTS
  Arg,           \* what may stand on the command line or in a variable
  NotUnicode,    \* the arguments among them that are no Unicode
  f64_of,        \* f64_of[name] : the float a name parses as, where it does
  u32_of,        \* u32_of[name] : likewise
  Environments,  \* the environments the tool may be started in
  CommandLines   \* the command lines

Unset  == [unset |-> TRUE]

\* The variables, without FIDUCIA_, in the order they are read.
EnvVars == <<"LATITUDE", "LONGITUDE", "ROUTING_KEY", "REGION", "SHARD_COUNT", "REGION_LIST">>
EnvVar  == ToSet(EnvVars)

ASSUME ArgAssumption ==
  /\ Arg \subseteq RegionString(STRING) /\ Arg \subseteq Key
  /\ NotUnicode \subseteq Arg
  /\ Environments \subseteq [EnvVar -> (Arg \ NotUnicode) \cup {Unset}]
  /\ CommandLines \subseteq Seq(Arg)

\* What parses is of its type; the default count is a u32 as well.
ASSUME ParseAssumption ==
  /\ \A text \in DOMAIN f64_of : f64_of[text] \in F64
  /\ \A text \in DOMAIN u32_of : u32_of[text] \in Word
  /\ 256 \in Word

VARIABLES
  env,       \* the environment the tool was started in
  argv,      \* its whole command line
  pc,        \* "env", "args" or "done"
  rest,      \* the arguments not yet read
  settings,  \* latitude, longitude, key, region: sets of at most one value
  outcome    \* how the run ended

vars == <<env, argv, pc, rest, settings, outcome>>

-----------------------------------------------------------------------------
\* Parsing.

plain(text) == [name |-> text, upper |-> FALSE, padded |-> FALSE]

parse_f64_fails(a) == a = Unset \/ a.padded \/ a.name \notin DOMAIN f64_of
parse_f64(a)       == {f64_of[a.name]}

\* Zero is rejected too.
parse_u32_fails(a) ==
  a = Unset \/ a.padded \/ a.name \notin DOMAIN u32_of \/ u32_of[a.name] = 0
parse_u32(a) == u32_of[a.name]

region_fails(a) == a = Unset \/ parse(a) = Unknown
region_named(a) == {parse(a)}

is_true(a) == a \in {plain("1"), plain("true"), plain("yes"), plain("on")}

\* What a variable contributes: nothing when it is unset.
from_env(v, Parse(_)) == IF env[v] = Unset THEN {} ELSE Parse(env[v])

-----------------------------------------------------------------------------
None == [kind |-> "none"]
Err(what, where) == [kind |-> "err", what |-> what, where |-> where]
Listing == [kind |-> "list"]
Usage   == [kind |-> "usage"]
Panic   == [kind |-> "panic"]
RegionAnswer(region)            == [kind |-> "region", region |-> region]
ShardAnswer(region, key, shard) ==
  [kind |-> "shard", region |-> region, key |-> key, shard |-> shard]

NoSettings ==
  [latitude |-> {}, longitude |-> {}, key |-> {}, region |-> {}, shard_count |-> 256,
   list |-> FALSE]

Init ==
  /\ env \in Environments
  /\ argv \in CommandLines
  /\ pc = "env"
  /\ rest = argv
  /\ settings = NoSettings
  /\ outcome = None

End(o) ==
  /\ pc' = "done"
  /\ outcome' = o
  /\ UNCHANGED <<env, argv, rest, settings>>

\* A variable that is set must parse: the first that does not, in the order the code
\* reads them, ends the run.
bad_variables ==
  {v \in {"LATITUDE", "LONGITUDE"} : env[v] # Unset /\ parse_f64_fails(env[v])}
    \cup {v \in {"REGION"} : env[v] # Unset /\ region_fails(env[v])}
    \cup {v \in {"SHARD_COUNT"} : env[v] # Unset /\ parse_u32_fails(env[v])}

ReadEnvironment ==
  /\ pc = "env"
  /\ IF bad_variables # {}
     THEN End(Err(SelectSeq(EnvVars, LAMBDA v : v \in bad_variables)[1], "env"))
     ELSE /\ settings' =
               [latitude    |-> from_env("LATITUDE", parse_f64),
                longitude   |-> from_env("LONGITUDE", parse_f64),
                key         |-> from_env("ROUTING_KEY", LAMBDA a : {a}),
                region      |-> from_env("REGION", region_named),
                shard_count |-> IF env["SHARD_COUNT"] = Unset THEN 256
                                ELSE parse_u32(env["SHARD_COUNT"]),
                list        |-> is_true(env["REGION_LIST"])]
          /\ pc' = "args"
          /\ UNCHANGED <<env, argv, rest, outcome>>

-----------------------------------------------------------------------------
\* The argument loop.

Flags      == {"--help", "-h", "--list", "--lat", "--lon", "--key", "--region", "--shards"}
ValueFlags == {"--lat", "--lon", "--key", "--region", "--shards"}

\* The iterator over the arguments panics at one that is not Unicode, be it a flag or a
\* flag's value.
undecodable ==
  \/ rest[1] \in NotUnicode
  \/ Len(rest) > 1 /\ rest[2] \in NotUnicode /\ \E f \in ValueFlags : rest[1] = plain(f)

At(flag) == pc = "args" /\ rest # <<>> /\ ~undecodable /\ rest[1] = plain(flag)

\* `args.next()': whatever follows the flag, another flag included, or nothing.
next == IF Len(rest) > 1 THEN rest[2] ELSE Unset

Put(field, value, consumed) ==
  /\ settings' = [settings EXCEPT ![field] = value]
  /\ rest' = SubSeq(rest, consumed + 1, Len(rest))
  /\ UNCHANGED <<env, argv, pc, outcome>>

ValueFlag(flag, field, Fails(_), Parse(_)) ==
  /\ At(flag)
  /\ IF Fails(next) THEN End(Err(flag, "argv")) ELSE Put(field, Parse(next), 2)

Help      == (At("--help") \/ At("-h")) /\ End(Usage)
List      == At("--list") /\ Put("list", TRUE, 1)
Latitude  == ValueFlag("--lat", "latitude", parse_f64_fails, parse_f64)
Longitude == ValueFlag("--lon", "longitude", parse_f64_fails, parse_f64)
RegionArg == ValueFlag("--region", "region", region_fails, region_named)
Shards    == ValueFlag("--shards", "shard_count", parse_u32_fails, parse_u32)

\* Nothing checks that a key follows: a missing one is no key.
KeyArg == At("--key") /\ Put("key", IF next = Unset THEN {} ELSE {next}, 2)

UnknownArgument ==
  /\ pc = "args" /\ rest # <<>> /\ ~undecodable /\ \A f \in Flags : rest[1] # plain(f)
  /\ End(Err("unknown argument", "argv"))

UndecodableArgument == pc = "args" /\ rest # <<>> /\ undecodable /\ End(Panic)

-----------------------------------------------------------------------------
\* The answer.

\* Mutant: a place beats a named region.
selected_nearest(s) ==
  IF s.latitude # {} /\ s.longitude # {}
  THEN {nearest_to(lat, lon) : lat \in s.latitude, lon \in s.longitude}
  ELSE s.region

\* `region.or(nearest)'.
selected(s) ==
  IF s.region # {} THEN s.region
  ELSE {nearest_to(lat, lon) : lat \in s.latitude, lon \in s.longitude}

Respond ==
  /\ pc = "args" /\ rest = <<>>
  /\ LET s == settings
         answer(region, key) ==
           IF shard_for_customer_region_panics(s.shard_count) THEN Panic
           ELSE ShardAnswer(region, key, shard_for_customer_region(region, key, s.shard_count))
     IN  \/ s.list /\ End(Listing)
         \/ ~s.list /\ ~(s.latitude = {} <=> s.longitude = {}) /\ End(Err("coordinates", "settings"))
         \/ /\ ~s.list /\ (s.latitude = {} <=> s.longitude = {})
            /\ \/ \E r \in selected(s), k \in s.key : End(answer(r, k))
               \/ s.key = {} /\ \E r \in selected(s) : End(RegionAnswer(r))
               \/ selected(s) = {} /\ s.key # {} /\ End(Err("--key", "settings"))
               \/ selected(s) = {} /\ s.key = {} /\ End(Usage)

Next ==
  \/ ReadEnvironment
  \/ Help \/ List \/ Latitude \/ Longitude \/ KeyArg \/ RegionArg \/ Shards
  \/ UnknownArgument \/ UndecodableArgument
  \/ Respond

Spec == Init /\ [][Next]_vars

-----------------------------------------------------------------------------
\* A command line read as a whole, under an environment e.

\* The positions the loop reads as flags: those that are not some flag's value.
FlagPositions(line) ==
  LET takes(i) == \E f \in ValueFlags : line[i] = plain(f)
      reads[i \in 1 .. Len(line)] == i = 1 \/ ~(reads[i - 1] /\ takes(i - 1))
  IN  {i \in 1 .. Len(line) : reads[i]}

Given(line, flag) == {i \in FlagPositions(line) : line[i] = plain(flag)}

\* The value of the last occurrence of a flag, parsed.
LastValue(line, flag, Parse(_)) ==
  LET i == Max(Given(line, flag)) IN IF i < Len(line) THEN Parse(line[i + 1]) ELSE {}

\* A setting as the documentation has it: the flag's, or else the variable's.
Effective(line, e, flag, v, Parse(_)) ==
  IF Given(line, flag) # {} THEN LastValue(line, flag, Parse)
  ELSE IF e[v] = Unset THEN {} ELSE Parse(e[v])

EffectiveLatitude(line, e)  == Effective(line, e, "--lat", "LATITUDE", parse_f64)
EffectiveLongitude(line, e) == Effective(line, e, "--lon", "LONGITUDE", parse_f64)
EffectiveKey(line, e)    == Effective(line, e, "--key", "ROUTING_KEY", LAMBDA a : {a})
EffectiveRegion(line, e) == Effective(line, e, "--region", "REGION", region_named)
EffectiveShards(line, e) ==
  Effective(line, e, "--shards", "SHARD_COUNT", LAMBDA a : {parse_u32(a)})
EffectiveList(line, e)   == Given(line, "--list") # {} \/ is_true(e["REGION_LIST"])

Nearest(r, lat, lon) ==
  \A q \in Region : distance_km_to[<<r, lat, lon>>] <= distance_km_to[<<q, lat, lon>>]

NearestToPlace(r, line, e) ==
  \E lat \in EffectiveLatitude(line, e), lon \in EffectiveLongitude(line, e) :
    Nearest(r, lat, lon)

Answered == pc = "done" /\ outcome.kind \in {"region", "shard"}

\* The outcome is an answer to this line: each setting from the last flag that gives it or
\* else from its variable, a named region before a place, no region nearer to the place
\* than the one printed, a list if and only if one is asked for.
AnswersLine(line, e) ==
  LET regions == EffectiveRegion(line, e)
      keys    == EffectiveKey(line, e)
      counts  == EffectiveShards(line, e)
  IN  /\ Answered =>
           /\ ~EffectiveList(line, e)
           /\ IF regions # {} THEN outcome.region \in regions
              ELSE NearestToPlace(outcome.region, line, e)
           /\ outcome.kind = "shard" <=> keys # {}
      /\ outcome.kind = "shard" =>
           /\ outcome.key \in keys
           /\ \E n \in IF counts = {} THEN {256} ELSE counts :
                outcome.shard = shard_for_customer_region(outcome.region, outcome.key, n)
      /\ outcome = Listing => EffectiveList(line, e)

-----------------------------------------------------------------------------
\* Properties.

\* What the tool prints is what the command line and the environment, read as a whole,
\* ask for, in whatever order the flags come and whatever they swallow as values.
AnswerIsWhatWasAsked == AnswersLine(argv, env)

\* "The two regional entry points agree ... or the LB and an operator tool could
\* disagree about where a regional key lives": the shard printed is the shard the
\* request path computes over the cluster list in topology order.
OperatorSeesRequestShard ==
  outcome.kind = "shard" =>
    LET topology == [i \in 1 .. Len(ALL) |-> plain(cluster_name(ALL[i]))]
        counts   == EffectiveShards(argv, env)
    IN  \E n \in IF counts = {} THEN {256} ELSE counts :
          outcome.shard =
            route_shard("Regional", outcome.key, plain(cluster_name(outcome.region)),
                        topology, n)

\* "Every error is a short message with a hint": no legal-looking count reaches the
\* library's assertion.  (The run has no argument that is not Unicode.)
NeverPanics == outcome # Panic
=============================================================================
