----------------------------- MODULE MCEnvVault -----------------------------
(***************************************************************************)
(* Instances of EnvVault whose values are parsed and rendered by the rules *)
(* of Dotenv.  Two variables, all texts over two or three raw values.      *)
(***************************************************************************)
EXTENDS EnvVault

D == INSTANCE Dotenv WITH character_named <- <<>>

P == 112

\* An ordinary value; one with a line end, which docker refuses; one that does not parse.
Plain    == <<P>>
TwoLines == <<D!DQ, P, D!BS, 110, D!DQ>>
Unclosed == <<D!DQ, D!BS, D!DQ>>

OneVar == {"V"}
TwoVars == {"V", "W"}

MixedRaw  == {Plain, TwoLines, Unclosed}
TwoRaw    == {Plain, TwoLines}

MCmeaning ==
  [r \in Raw |-> IF ~D!parses(r) \/ D!refuses("shell", D!parse(r)) THEN Broken
                 ELSE D!parse(r)]
MCenvfile ==
  [r \in Raw |-> IF ~D!parses(r) \/ D!refuses("envfile", D!parse(r)) THEN Broken
                 ELSE D!render("envfile", D!parse(r))]

AllPlain == [v \in Var |-> Plain]
AllTexts == [Var -> Raw]
=============================================================================
