------------------------- MODULE MCDotenvConsumers -------------------------
(***************************************************************************)
(* DotenvConsumers with short raw values over the characters that are told *)
(* apart, and with every kind of escape, whole and cut short, alone and    *)
(* one behind another.                                                     *)
(***************************************************************************)
EXTENDS DotenvConsumers

\* The letters p and n, quotes, the backslash, and e with an accent.
Alphabet == {112, 110, DQ, SQ, BS, 233}

\* x61, x0a, 0, 012, 777, 8, u000a, ud800, U0001f600, U00110000, N{LF}, N{pn}, and a letter
\* outside ASCII; all but the last stand behind a backslash.
Escapes == {<<BS, 120, 54, 49>>, <<BS, 120, 48, 97>>, <<BS, 48>>, <<BS, 48, 49, 50>>,
            <<BS, 55, 55, 55>>, <<BS, 56>>, <<BS, 117, 48, 48, 48, 97>>,
            <<BS, 117, 100, 56, 48, 48>>, <<BS, 85, 48, 48, 48, 49, 102, 54, 48, 48>>,
            <<BS, 85, 48, 48, 49, 49, 48, 48, 48, 48>>, <<BS, 78, 123, 76, 70, 125>>,
            <<BS, 78, 123, 112, 110, 125>>, <<128512>>}
Pairs == UNION {{s \o t : t \in Escapes \cup {<<BS, BS>>}} : s \in UNION {Prefixes(e) : e \in Escapes}}

MCRaw == SeqOf(Alphabet, 4) \cup {<<DQ>> \o s \o <<DQ>> : s \in SeqOf(Alphabet, 3) \cup Pairs}

\* LINE FEED is called LF.
MCnames == [n \in {<<76, 70>>} |-> LF]
=============================================================================
