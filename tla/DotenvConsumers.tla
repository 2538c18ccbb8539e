-------------------------- MODULE DotenvConsumers --------------------------
(***************************************************************************)
(* One variable of an environment file on its way to a program: parsed,    *)
(* rendered for one kind of consumer, and read by it.                      *)
(***************************************************************************)
EXTENDS Dotenv, FiniteSets

CONSTANT Raw   \* the raw values in the file

ASSUME RawAssumption == Raw \subseteq Seq(FileChar)

VARIABLES
  raw,     \* the raw value in the file
  mode,    \* who it is rendered for
  pc,
  text     \* what the last step has made of it

vars == <<raw, mode, pc, text>>

Init == raw \in Raw /\ mode \in MODES /\ pc = "parse" /\ text = raw

Fail == pc' = "failed" /\ UNCHANGED text

Parse ==
  /\ pc = "parse"
  /\ \/ parses(raw) /\ text' = parse(raw) /\ pc' = "render"
     \/ ~parses(raw) /\ Fail
  /\ UNCHANGED <<raw, mode>>

Render ==
  /\ pc = "render"
  /\ \/ ~refuses(mode, text) /\ text' = render(mode, text) /\ pc' = "read"
     \/ refuses(mode, text) /\ Fail
  /\ UNCHANGED <<raw, mode>>

Read ==
  /\ pc = "read"
  /\ text' = reads(mode, text)
  /\ pc' = "done"
  /\ UNCHANGED <<raw, mode>>

Next == Parse \/ Render \/ Read

Spec == Init /\ [][Next]_vars

-----------------------------------------------------------------------------
\* Properties.

\* "Every consumer must agree on what a value is": whatever quotes, backslashes and line
\* ends a value holds, each consumer that gets it at all reads exactly the parsed value;
\* nothing is truncated at a line end or cut at a quote.  A value with a NUL is left out:
\* the shell drops what a Secret keeps.
ConsumersAgree == pc = "done" /\ ~Holds(parse(raw), {NUL}) => text = parse(raw)

\* Backslashes that stand unbroken before position i; a text in which they come in pairs;
\* the text with every backslash doubled.
backslashes(s, i) == Cardinality({j \in 1 .. i - 1 : \A k \in j .. i - 1 : s[k] = BS})
paired(s) ==
  \A i \in 1 .. Len(s) + 1 :
    i > Len(s) \/ s[i] # BS => backslashes(s, i) % 2 = 0
doubled(v) == FlattenSeq([i \in DOMAIN v |-> IF v[i] = BS THEN <<BS, BS>> ELSE <<v[i]>>])

\* "One pass, so `\\n` cannot be re-read as an escape introducer": an ASCII text whose
\* backslashes are doubled comes out of the double quotes as it was, whatever letters follow
\* them; no backslash that an escape has brought starts another one.
OnePass ==
  pc = "render" /\ quoted(raw, DQ) =>
    LET s == body(raw)
    IN  paired(s) /\ (\A i \in DOMAIN s : s[i] < 128) => doubled(text) = s
=============================================================================
