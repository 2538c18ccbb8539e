------------------------------- MODULE Dotenv -------------------------------
(***************************************************************************)
(* The rules of .just/dotenv.py: the raw text after KEY= is parsed once,   *)
(* rendered for a shell, for docker --env-file or as a Kubernetes Secret,  *)
(* and read back by that consumer.                                         *)
(*                                                                         *)
(* A text is a sequence of code points.  unicode_escape reads the UTF-8    *)
(* bytes of the text between double quotes, one by one, as Latin-1; the    *)
(* encoding of the output is undone by whoever reads it and is left out.   *)
(***************************************************************************)
EXTENDS Naturals, SequencesExt

CONSTANT character_named   \* the names in Python's Unicode database, and their characters

CodePoint == {c \in Nat : c < 1114112}
Surrogate == 55296 .. 57343

ASSUME NamesAssumption == \A n \in DOMAIN character_named : character_named[n] \in CodePoint

NUL == 0
LF == 10
CR == 13
DQ == 34
SQ == 39
BS == 92

\* What a line of a file can hold: it is decoded from UTF-8, and split at line ends.
FileChar == {c \in CodePoint : c \notin {LF, CR} \cup Surrogate}

-----------------------------------------------------------------------------
\* Parsing: `.encode().decode("unicode_escape")'.

utf8(c) ==
  LET tail(k) == 128 + ((c \div k) % 64)
  IN  IF c < 128 THEN <<c>>
      ELSE IF c < 2048 THEN <<192 + (c \div 64), tail(1)>>
      ELSE IF c < 65536 THEN <<224 + (c \div 4096), tail(64), tail(1)>>
      ELSE <<240 + (c \div 262144), tail(4096), tail(64), tail(1)>>

encode(v) == FlattenSeq([i \in DOMAIN v |-> utf8(v[i])])

\* Letters that stand for one character: a b f n r t v, quotes and the backslash.
Letters == {<<97, 7>>, <<98, 8>>, <<102, 12>>, <<110, LF>>, <<114, CR>>, <<116, 9>>, <<118, 11>>,
            <<DQ, DQ>>, <<SQ, SQ>>, <<BS, BS>>}
letter  == [c \in {l[1] : l \in Letters} |-> (CHOOSE l \in Letters : l[1] = c)[2]]

Octal == 48 .. 55
hex   == [c \in (48 .. 57) \cup (65 .. 70) \cup (97 .. 102) |->
            IF c < 58 THEN c - 48 ELSE IF c < 71 THEN c - 55 ELSE c - 87]

\* k digits stand at position i.
stand(s, i, k, digits) == i + k - 1 <= Len(s) /\ \A j \in i .. i + k - 1 : s[j] \in digits

\* At most three octal digits are taken.
octals(s, i) == Max({k \in 1 .. 3 : stand(s, i, k, Octal)})
octal(s, i, k) ==
  LET digit(j) == s[i + j] - 48
  IN  IF k = 1 THEN digit(0)
      ELSE IF k = 2 THEN 8 * digit(0) + digit(1)
      ELSE 64 * digit(0) + 8 * digit(1) + digit(2)

\* The letters x, u and U and how many hexadecimal digits they need.
hexlen == [c \in {120, 117, 85} |-> IF c = 120 THEN 2 ELSE IF c = 117 THEN 4 ELSE 8]

byte(s, i) == 16 * hex[s[i]] + hex[s[i + 1]]
number(s, i, k) ==
  IF k = 2 THEN byte(s, i)
  ELSE IF k = 4 THEN 256 * byte(s, i) + byte(s, i + 2)
  ELSE 65536 * byte(s, i + 2) + 256 * byte(s, i + 4) + byte(s, i + 6)
numbered(s, i, k) ==
  /\ stand(s, i, k, DOMAIN hex)
  /\ k = 8 => byte(s, i) = 0 /\ number(s, i, k) \in CodePoint

\* N{...}: the name from position i to the first brace that closes it.
braced(s, i, j) == s[i - 1] = 123 /\ s[j] = 125 /\ \A m \in i .. j - 1 : s[m] # 125
named(s, i, j)  == braced(s, i, j) /\ SubSeq(s, i, j - 1) \in DOMAIN character_named

\* What is read at one position: so many bytes, and what they stand for.
Piece(width, text) == [width |-> width, text |-> text, ok |-> TRUE]
Malformed == [width |-> 1, text |-> <<>>, ok |-> FALSE]

numeric(s, i, k) == IF numbered(s, i, k) THEN Piece(2 + k, <<number(s, i, k)>>) ELSE Malformed

name(s, i) ==
  IF \E j \in i .. Len(s) : named(s, i, j)
  THEN LET j == CHOOSE j \in i .. Len(s) : named(s, i, j)
       IN  Piece(j - i + 4, <<character_named[SubSeq(s, i, j - 1)]>>)
  ELSE Malformed

\* A backslash and the letter behind it.
escape(s, i) ==
  LET c == s[i + 1]
  IN  IF c \in DOMAIN letter THEN Piece(2, <<letter[c]>>)
      ELSE IF c \in Octal
      THEN Piece(1 + octals(s, i + 1), <<octal(s, i + 1, octals(s, i + 1))>>)
      ELSE IF c \in DOMAIN hexlen THEN numeric(s, i + 2, hexlen[c])
      ELSE IF c = 78 THEN name(s, i + 3)
      ELSE Piece(2, <<BS, c>>)

piece(s, i) ==
  IF s[i] # BS THEN Piece(1, <<s[i]>>)
  ELSE IF i = Len(s) THEN Malformed
  ELSE escape(s, i)

decodes(s) ==
  LET from[i \in 1 .. Len(s) + 1] ==
        IF i > Len(s) THEN TRUE ELSE piece(s, i).ok /\ from[i + piece(s, i).width]
  IN  from[1]

decode(s) ==
  LET from[i \in 1 .. Len(s) + 1] ==
        IF i > Len(s) THEN <<>> ELSE piece(s, i).text \o from[i + piece(s, i).width]
  IN  from[1]

\* Mutant: line ends are put in first, the other escapes are read afterwards.
unescape_two_pass(v) ==
  LET is_end(i) == i \in 1 .. Len(v) - 1 /\ v[i] = BS /\ v[i + 1] = 110
  IN  decode(encode(FlattenSeq([i \in DOMAIN v |->
        IF is_end(i) THEN <<LF>> ELSE IF is_end(i - 1) THEN <<>> ELSE <<v[i]>>])))

unescape(v) == decode(encode(v))

quoted(v, q) == Len(v) >= 2 /\ v[1] = q /\ v[Len(v)] = q
body(v)      == SubSeq(v, 2, Len(v) - 1)

parses(v) == quoted(v, DQ) => decodes(encode(body(v)))

parse(v) ==
  IF quoted(v, DQ) THEN unescape(body(v))
  ELSE IF quoted(v, SQ) THEN body(v)
  ELSE v

-----------------------------------------------------------------------------
\* Rendering.

MODES == {"shell", "envfile", "k8s"}

Holds(v, S) == \E i \in DOMAIN v : v[i] \in S

\* Mutant: quotes inside the value are left alone.
shell_quote_plain(v) == <<SQ>> \o v \o <<SQ>>

\* Every quote in the value closes the word, stands escaped and opens it again.
shell_quote(v) ==
  <<SQ>> \o FlattenSeq([i \in DOMAIN v |-> IF v[i] = SQ THEN <<SQ, BS, SQ, SQ>> ELSE <<v[i]>>])
    \o <<SQ>>

\* A surrogate, which only an escape can bring, cannot be encoded.
refuses(mode, v) == Holds(v, Surrogate) \/ (mode = "envfile" /\ Holds(v, {LF, CR}))

\* base64 is left out: it is undone before anybody looks.
render(mode, v) == IF mode = "shell" THEN shell_quote(v) ELSE v

-----------------------------------------------------------------------------
\* Reading back, by programs of other projects.

\* A POSIX shell reads a word that consists of quoted parts and escapes.
sh_reads(s) ==
  LET from[i \in 1 .. Len(s) + 2] ==
        [inside \in BOOLEAN |->
           IF i > Len(s) THEN <<>>
           ELSE IF s[i] = SQ THEN from[i + 1][~inside]
           ELSE IF s[i] = BS /\ ~inside /\ i < Len(s) THEN <<s[i + 1]>> \o from[i + 2][FALSE]
           ELSE <<s[i]>> \o from[i + 1][inside]]
  IN  from[1][FALSE]

\* `eval "$(...)"': a shell leaves out the NULs of a command's output.
substituted(s) == IF Holds(s, {NUL}) THEN SelectSeq(s, LAMBDA c : c # NUL) ELSE s

\* docker reads a variable up to the end of its line.
docker_reads(s) ==
  IF Contains(s, LF) THEN SubSeq(s, 1, SelectInSeq(s, LAMBDA c : c = LF) - 1) ELSE s

reads(mode, s) ==
  CASE mode = "shell" -> sh_reads(substituted(s))
    [] mode = "envfile" -> docker_reads(s)
    [] mode = "k8s" -> s
=============================================================================
