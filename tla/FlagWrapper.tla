----------------------------- MODULE FlagWrapper -----------------------------
(***************************************************************************)
(* scripts/with-flags2env.sh in front of the operator tool: flags before   *)
(* `--' become FIDUCIA_* variables of the command behind it, by the schema *)
(* .cli-flags.toml.  The tool may also be started directly.                *)
(*                                                                         *)
(* The parser flags2env is another program.  A flag is written in the form *)
(* the README uses, --flag=value, or is the bare --list; anything else is  *)
(* refused (allow_unknown = false).  What it prints is exported whole.     *)
(***************************************************************************)
EXTENDS RegionCli

CONSTANTS
  assignment,    \* assignment[name] : flag and value of a word --flag=value
  WrapperLines   \* the command lines of the wrapper

ASSUME AssignmentAssumption ==
  \A t \in DOMAIN assignment :
    assignment[t].flag \in ValueFlags /\ assignment[t].value \in STRING

ASSUME WrapperLinesAssumption == WrapperLines \subseteq Seq(RegionString(STRING))

VARIABLES
  inherited,     \* the environment the wrapper was started in
  flags          \* what it collected before `--'

wrapperVars == <<inherited, flags>>

Separator == plain("--")
Tool      == plain("fiducia-region")

Exit(status) == [kind |-> "exit", status |-> status]

-----------------------------------------------------------------------------
\* The schema.

EnvName(flag) ==
  CASE flag = "--list"   -> "REGION_LIST"
    [] flag = "--lat"    -> "LATITUDE"
    [] flag = "--lon"    -> "LONGITUDE"
    [] flag = "--key"    -> "ROUTING_KEY"
    [] flag = "--region" -> "REGION"
    [] flag = "--shards" -> "SHARD_COUNT"

assigns(word) == word.name \in DOMAIN assignment
flag_of(word) == IF assigns(word) THEN assignment[word.name].flag ELSE "--list"
value_of(word) ==
  IF assigns(word) THEN [word EXCEPT !.name = assignment[word.name].value] ELSE plain("true")

known(word) == assigns(word) \/ word = plain("--list")

\* type = "integer"; whether a number the tool cannot use is one is the parser's affair.
is_integer(word) == flag_of(word) = "--shards" => ~parse_u32_fails(value_of(word))

\* Mutant: `export V="${V:-value}"'.
exported_defaults(fs, e) ==
  [v \in EnvVar |->
     LET given == {i \in 1 .. Len(fs) : EnvName(flag_of(fs[i])) = v}
     IN  IF given = {} \/ e[v] # Unset THEN e[v] ELSE value_of(fs[Max(given)])]

\* `eval "$exports"': the variables of the flags given, the last of each, over what is there.
exported(fs, e) ==
  [v \in EnvVar |->
     LET given == {i \in 1 .. Len(fs) : EnvName(flag_of(fs[i])) = v}
     IN  IF given = {} THEN e[v] ELSE value_of(fs[Max(given)])]

-----------------------------------------------------------------------------
WrapperInit ==
  \/ Init /\ inherited = env /\ flags = <<>>
  \/ /\ env \in Environments
     /\ argv \in WrapperLines
     /\ pc = "collect"
     /\ rest = argv
     /\ settings = NoSettings
     /\ outcome = None
     /\ inherited = env
     /\ flags = <<>>

\* Everything up to the first `--' is a flag; a command must follow.
Collect ==
  LET n == SelectInSeq(rest, LAMBDA w : w = Separator)
  IN  /\ pc = "collect"
      /\ \/ n \in {0, Len(rest)} /\ End(Exit(2)) /\ UNCHANGED wrapperVars
         \/ /\ n \notin {0, Len(rest)}
            /\ flags' = SubSeq(rest, 1, n - 1)
            /\ rest' = SubSeq(rest, n + 1, Len(rest))
            /\ pc' = "find"
            /\ UNCHANGED <<env, argv, settings, outcome, inherited>>

\* The pinned build, a tools build, one on the path, or none.
FindParser ==
  /\ pc = "find"
  /\ \/ pc' = "parse" /\ UNCHANGED <<env, argv, rest, settings, outcome>>
     \/ End(Exit(127))
  /\ UNCHANGED wrapperVars

\* The assignment of the parser's output fails with the parser (set -e).
Refuse ==
  /\ pc = "parse"
  /\ \E i \in 1 .. Len(flags) : ~known(flags[i]) \/ ~is_integer(flags[i])
  /\ End(Exit(1))
  /\ UNCHANGED wrapperVars

\* The command replaces the wrapper.
ExportAndExec ==
  /\ pc = "parse"
  /\ \A i \in 1 .. Len(flags) : known(flags[i])
  /\ rest[1] = Tool
  /\ env' = exported(flags, env)
  /\ argv' = Tail(rest)
  /\ rest' = Tail(rest)
  /\ pc' = "env"
  /\ UNCHANGED <<settings, outcome, inherited, flags>>

WrapperNext ==
  \/ Next /\ UNCHANGED wrapperVars
  \/ Collect \/ FindParser \/ Refuse \/ ExportAndExec

WrapperSpec == WrapperInit /\ [][WrapperNext]_<<vars, wrapperVars>>

-----------------------------------------------------------------------------
\* The flags as the tool itself would be given them.
direct(word) ==
  IF assigns(word) THEN <<plain(flag_of(word)), value_of(word)>> ELSE <<word>>

direct_line(fs) == FlattenSeq([i \in 1 .. Len(fs) |-> direct(fs[i])])

\* "Flags or the equivalent FIDUCIA_* env vars": an answer does not depend on which flags
\* go through the wrapper and which to the tool.  Whatever was set in the environment
\* before, it is an answer to all of them as one command line.  Runs that end in an error are
\* not compared.
WrapperAnswersAsTool == pc = "done" => AnswersLine(direct_line(flags) \o argv, inherited)
=============================================================================
