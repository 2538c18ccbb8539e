---------------------------- MODULE DotenvProofs ----------------------------
(***************************************************************************)
(* Every consumer of an environment file reads the value dotenv.py parsed, *)
(* and an escape is read once: for every raw text a file can hold, and     *)
(* whatever names there are for characters.                                *)
(*                                                                         *)
(* The conversions of Dotenv are recursive functions.  What one of them    *)
(* computes is proved in two moves.  First it is shown to satisfy its own  *)
(* equation (the <name>Unfolds lemmas; TLA+ only says that it is some      *)
(* function that does, if one does): solutions are built from the end of   *)
(* the text backwards.  Then a statement about the rest of the text is     *)
(* carried from the end of the text to its start.  Both are inductions     *)
(* over positions, by SetInduction.                                        *)
(***************************************************************************)
EXTENDS DotenvConsumers, SequenceLemmas

-----------------------------------------------------------------------------
\* One piece of an escaped text.

\* Octal digits: as many as are taken stand there.
LEMMA OctalsStand ==
  ASSUME NEW s, Len(s) \in Nat, NEW i \in Nat, i <= Len(s), s[i] \in Octal
  PROVE  octals(s, i) \in 1 .. 3 /\ stand(s, i, octals(s, i), Octal)
<1> DEFINE S == {k \in 1 .. 3 : stand(s, i, k, Octal)}
<1>1. stand(s, i, 1, Octal)
  <2>1. i + 1 - 1 = i
    OBVIOUS
  <2> QED
    BY <2>1 DEF stand
<1>2. S \in SUBSET (1 .. 3) /\ S # {} /\ 3 \in Nat
  BY <1>1
<1>3. Max(S) \in S
  BY <1>2, MaxOfSet, Zenon
<1> QED
  BY <1>3, Zenon DEF octals

\* A piece starts at its position and ends in the text.
LEMMA PieceWidth ==
  ASSUME NEW s, Len(s) \in Nat, NEW i \in 1 .. Len(s)
  PROVE  piece(s, i).width \in Nat /\ i + piece(s, i).width \in i + 1 .. Len(s) + 1
<1> DEFINE Fits(p) == p.width \in Nat /\ i + p.width \in i + 1 .. Len(s) + 1
<1>1. ASSUME NEW w \in Nat, w >= 1, i + w <= Len(s) + 1, NEW t PROVE Fits(Piece(w, t))
  BY <1>1, SMT DEF Piece
<1>2. Fits(Malformed)
  BY DEF Malformed
<1>3. CASE s[i] # BS
  BY <1>1, <1>3 DEF piece
<1>4. CASE s[i] = BS /\ i = Len(s)
  BY <1>2, <1>4 DEF piece
<1>5. CASE s[i] = BS /\ i # Len(s)
  <2> DEFINE c == s[i + 1]
  <2>1. piece(s, i) = escape(s, i) /\ i < Len(s)
    BY <1>5 DEF piece
  <2>2. \A t : Fits(Piece(2, t))
    BY <1>1, <2>1
  <2>3. ASSUME c \in Octal PROVE \A t : Fits(Piece(1 + octals(s, i + 1), t))
    <3>1. octals(s, i + 1) \in 1 .. 3 /\ stand(s, i + 1, octals(s, i + 1), Octal)
      BY <2>1, <2>3, OctalsStand
    <3>2. i + 1 + octals(s, i + 1) - 1 <= Len(s)
      BY <3>1, Zenon DEF stand
    <3> QED
      BY <1>1, <3>1, <3>2
  <2>4. ASSUME NEW k \in {2, 4, 8} PROVE Fits(numeric(s, i + 2, k))
    <3>1. CASE numbered(s, i + 2, k)
      <4>1. i + 2 + k - 1 <= Len(s)
        BY <3>1, Zenon DEF numbered, stand
      <4>2. Fits(Piece(2 + k, <<number(s, i + 2, k)>>))
        BY <1>1, <4>1
      <4> QED
        BY <3>1, <4>2, Zenon DEF numeric
    <3>2. CASE ~numbered(s, i + 2, k)
      BY <1>2, <3>2, Zenon DEF numeric
    <3> QED
      BY <3>1, <3>2
  <2>5. Fits(name(s, i + 3))
    <3> DEFINE a == i + 3
    <3>1. CASE \E j \in a .. Len(s) : named(s, a, j)
      <4> DEFINE j == CHOOSE j \in a .. Len(s) : named(s, a, j)
                 t == <<character_named[SubSeq(s, a, j - 1)]>>
      <4>1. j \in a .. Len(s)
        BY <3>1, Zenon
      <4>2. name(s, a) = Piece(j - a + 4, t)
        BY <3>1, Zenon DEF name
      <4> HIDE DEF j, t
      <4>3. Fits(Piece(j - a + 4, t))
        BY <1>1, <4>1
      <4> QED
        BY <4>2, <4>3
    <3>2. CASE ~\E j \in a .. Len(s) : named(s, a, j)
      BY <1>2, <3>2, Zenon DEF name
    <3> QED
      BY <3>1, <3>2
  <2>6. \A d \in DOMAIN hexlen : hexlen[d] \in {2, 4, 8}
    BY DEF hexlen
  <2>7. Fits(escape(s, i))
    <3> HIDE DEF Fits
    <3> QED
      BY <2>2, <2>3, <2>4, <2>5, <2>6, Zenon DEF escape
  <2> QED
    BY <2>1, <2>7
<1> QED
  BY <1>3, <1>4, <1>5

\* A letter stands for a character, the backslash for itself.
LEMMA LetterType ==
  /\ \A c \in DOMAIN letter : letter[c] \in Nat
  /\ BS \in DOMAIN letter /\ letter[BS] = BS
<1>1. \A l \in Letters : l[2] \in Nat
  BY DEF Letters, LF, CR, DQ, SQ, BS
<1>2. ASSUME NEW c \in DOMAIN letter
      PROVE  \E l \in Letters : l[1] = c /\ letter[c] = l[2]
  <2>1. \E l \in Letters : l[1] = c
    BY <1>2 DEF letter
  <2> DEFINE l == CHOOSE l \in Letters : l[1] = c
  <2>2. l \in Letters /\ l[1] = c
    BY <2>1, Zenon
  <2>3. letter[c] = l[2]
    BY <1>2 DEF letter
  <2> QED
    BY <2>2, <2>3, Zenon
<1>3. BS \in DOMAIN letter
  <2>1. <<BS, BS>> \in Letters /\ <<BS, BS>>[1] = BS
    BY DEF Letters
  <2> QED
    BY <2>1, Zenon DEF letter
<1>4. \A l \in Letters : l[1] = BS => l[2] = BS
  BY DEF Letters, LF, CR, DQ, SQ, BS
<1> QED
  BY <1>1, <1>2, <1>3, <1>4

\* What a number in an escape comes to.
LEMMA NumberType ==
  ASSUME NEW s, NEW i \in Nat
  PROVE  /\ \A k \in 1 .. 3 : stand(s, i, k, Octal) => octal(s, i, k) \in Nat
         /\ \A k \in {2, 4, 8} : stand(s, i, k, DOMAIN hex) => number(s, i, k) \in Nat
<1>1. \A c \in DOMAIN hex : hex[c] \in Nat
  BY DEF hex
<1>2. ASSUME NEW k \in 1 .. 3, stand(s, i, k, Octal) PROVE octal(s, i, k) \in Nat
  <2>1. ASSUME NEW j \in Nat, j < k PROVE s[i + j] - 48 \in Nat
    <3>1. i + j \in i .. i + k - 1
      BY <2>1
    <3>2. s[i + j] \in Octal
      BY <1>2, <3>1, Zenon DEF stand
    <3> QED
      BY <3>2 DEF Octal
  <2> QED
    BY <2>1 DEF octal
<1>3. ASSUME NEW k \in {2, 4, 8}, stand(s, i, k, DOMAIN hex) PROVE number(s, i, k) \in Nat
  <2>1. ASSUME NEW j \in Nat, j < k PROVE hex[s[i + j]] \in Nat
    <3>1. i + j \in i .. i + k - 1
      BY <2>1
    <3> QED
      BY <1>1, <1>3, <3>1, Zenon DEF stand
  <2>2. ASSUME NEW j \in Nat, j + 1 < k PROVE byte(s, i + j) \in Nat
    <3>1. hex[s[i + j]] \in Nat /\ hex[s[i + (j + 1)]] \in Nat /\ i + j + 1 = i + (j + 1)
      BY <2>1, <2>2
    <3> QED
      BY <3>1 DEF byte
  <2>3. /\ byte(s, i + 0) \in Nat /\ i + 0 = i
        /\ k # 2 => byte(s, i + 2) \in Nat
        /\ k # 2 /\ k # 4 => byte(s, i + 4) \in Nat /\ byte(s, i + 6) \in Nat
    BY <2>2
  <2> QED
    BY <2>3, SMT DEF number
<1> QED
  BY <1>2, <1>3

\* A piece is read as a text.
LEMMA PieceType ==
  ASSUME NEW s \in Seq(Nat), NEW i \in 1 .. Len(s)
  PROVE  piece(s, i).text \in Seq(Nat)
<1> DEFINE Reads(p) == p.text \in Seq(Nat)
<1>0. Len(s) \in Nat /\ i \in Nat /\ \A j \in 1 .. Len(s) : s[j] \in Nat
  OBVIOUS
<1>1. ASSUME NEW w, NEW c \in Nat PROVE Reads(Piece(w, <<c>>))
  BY <1>1, SMT DEF Piece
<1>2. Reads(Malformed)
  BY DEF Malformed
<1>3. CASE s[i] # BS
  BY <1>1, <1>3 DEF piece
<1>4. CASE s[i] = BS /\ i = Len(s)
  BY <1>2, <1>4 DEF piece
<1>5. CASE s[i] = BS /\ i # Len(s)
  <2> DEFINE c == s[i + 1]
  <2>1. piece(s, i) = escape(s, i) /\ i < Len(s) /\ c \in Nat
    BY <1>5 DEF piece
  <2>2. c \in DOMAIN letter => Reads(Piece(2, <<letter[c]>>))
    BY <1>1, LetterType
  <2>3. c \in Octal => Reads(Piece(1 + octals(s, i + 1), <<octal(s, i + 1, octals(s, i + 1))>>))
    <3> SUFFICES ASSUME c \in Octal PROVE octal(s, i + 1, octals(s, i + 1)) \in Nat
      BY <1>1
    <3>1. octals(s, i + 1) \in 1 .. 3 /\ stand(s, i + 1, octals(s, i + 1), Octal)
      BY <1>0, <2>1, OctalsStand
    <3> QED
      BY <1>0, <3>1, NumberType
  <2>4. ASSUME NEW k \in {2, 4, 8} PROVE Reads(numeric(s, i + 2, k))
    <3>1. CASE numbered(s, i + 2, k)
      <4>1. number(s, i + 2, k) \in Nat
        BY <1>0, <3>1, NumberType DEF numbered
      <4>2. Reads(Piece(2 + k, <<number(s, i + 2, k)>>))
        BY <1>1, <4>1
      <4> QED
        BY <3>1, <4>2, Zenon DEF numeric
    <3>2. CASE ~numbered(s, i + 2, k)
      BY <1>2, <3>2, Zenon DEF numeric
    <3> QED
      BY <3>1, <3>2
  <2>5. Reads(name(s, i + 3))
    <3> DEFINE a == i + 3
    <3>1. CASE \E j \in a .. Len(s) : named(s, a, j)
      <4> DEFINE j == CHOOSE j \in a .. Len(s) : named(s, a, j)
                 d == character_named[SubSeq(s, a, j - 1)]
      <4>1. named(s, a, j)
        BY <3>1, Zenon
      <4>2. name(s, a) = Piece(j - a + 4, <<d>>)
        BY <3>1, Zenon DEF name
      <4>3. d \in CodePoint
        BY <4>1, NamesAssumption, Zenon DEF named
      <4> HIDE DEF j, d
      <4>4. d \in Nat
        BY <4>3, SMT DEF CodePoint
      <4> QED
        BY <1>1, <4>2, <4>4
    <3>2. CASE ~\E j \in a .. Len(s) : named(s, a, j)
      BY <1>2, <3>2, Zenon DEF name
    <3> QED
      BY <3>1, <3>2
  <2>6. \A d \in DOMAIN hexlen : hexlen[d] \in {2, 4, 8}
    BY DEF hexlen
  <2>7. Reads(Piece(2, <<BS, c>>))
    BY <2>1 DEF Piece, BS
  <2>8. Reads(escape(s, i))
    <3> HIDE DEF Reads
    <3> QED
      BY <2>2, <2>3, <2>4, <2>5, <2>6, <2>7, Zenon DEF escape
  <2> QED
    BY <2>1, <2>8
<1> QED
  BY <1>3, <1>4, <1>5

-----------------------------------------------------------------------------
\* The recursive functions satisfy their equations.

\* One step of `unicode_escape' at position i.
DecodeStep(s, f, i) ==
  IF i > Len(s) THEN <<>> ELSE piece(s, i).text \o f[i + piece(s, i).width]

\* What decode computes at a position follows from what it computes behind it.
LEMMA DecodeUnfolds ==
  ASSUME NEW s, Len(s) \in Nat
  PROVE  \E f : /\ decode(s) = f[1]
                /\ \A i \in 1 .. Len(s) + 1 : f[i] = DecodeStep(s, f, i)
<1> DEFINE L == Len(s)
           w(i) == piece(s, i).width
           Solved(m, g) == \A i \in L + 1 - m .. L + 1 : g[i] = DecodeStep(s, g, i)
           Done == {m \in Nat : m <= L => \E g : Solved(m, g)}
<1>0. \A i \in 1 .. L : w(i) \in Nat /\ i + w(i) \in i + 1 .. L + 1
  BY PieceWidth
<1>1. 0 \in Done
  <2> DEFINE g == [i \in L + 1 .. L + 1 |-> <<>>]
  <2>1. \A i \in L + 1 - 0 .. L + 1 : i > L /\ g[i] = <<>>
    OBVIOUS
  <2>2. Solved(0, g)
    BY <2>1 DEF DecodeStep
  <2> QED
    BY <2>2
<1>2. ASSUME NEW m \in Done PROVE m + 1 \in Done
  <2>1. SUFFICES ASSUME m + 1 <= L PROVE \E g : Solved(m + 1, g)
    OBVIOUS
  <2>2. PICK g : Solved(m, g)
    BY <2>1
  <2> DEFINE h == [i \in L - m .. L + 1 |-> IF i = L - m THEN DecodeStep(s, g, i) ELSE g[i]]
  <2>3. ASSUME NEW i \in L - m .. L + 1 PROVE h[i] = DecodeStep(s, h, i)
    <3>1. h[i] = DecodeStep(s, g, i)
      BY <2>1, <2>2
    <3>2. CASE i > L
      BY <3>1, <3>2, Zenon DEF DecodeStep
    <3>3. CASE i <= L
      <4> DEFINE j == i + w(i)
      <4>1. i \in 1 .. L
        BY <2>1, <3>3
      <4>2. j \in i + 1 .. L + 1
        BY <1>0, <4>1
      <4> HIDE DEF j
      <4>3. h[j] = g[j]
        BY <2>1, <4>1, <4>2
      <4> QED
        BY <3>1, <4>3, Zenon DEF DecodeStep, j
    <3> QED
      BY <2>1, <3>2, <3>3
  <2>4. L + 1 - (m + 1) = L - m
    OBVIOUS
  <2> QED
    BY <2>3, <2>4
<1>3. L \in Done
  <2>1. Done \in SUBSET Nat
    OBVIOUS
  <2> HIDE DEF Done
  <2> QED
    BY <1>1, <1>2, <2>1, SetInduction
<1>4. PICK g : \A i \in 1 .. L + 1 : g[i] = DecodeStep(s, g, i)
  <2>1. L + 1 - L = 1
    OBVIOUS
  <2> QED
    BY <1>3, <2>1
<1> DEFINE h == [i \in 1 .. L + 1 |-> g[i]]
<1>5. ASSUME NEW i \in 1 .. L + 1 PROVE DecodeStep(s, g, i) = DecodeStep(s, h, i)
  <2>1. CASE i > L
    BY <2>1, Zenon DEF DecodeStep
  <2>2. CASE i <= L
    <3> DEFINE j == i + w(i)
    <3>1. j \in 1 .. L + 1
      BY <1>0, <2>2
    <3> HIDE DEF j
    <3>2. h[j] = g[j]
      BY <3>1
    <3> QED
      BY <3>2, Zenon DEF DecodeStep, j
  <2> QED
    BY <2>1, <2>2
<1>6. h = [i \in 1 .. L + 1 |-> DecodeStep(s, h, i)]
  BY <1>4, <1>5, Zenon
<1> DEFINE from[i \in 1 .. Len(s) + 1] ==
             IF i > Len(s) THEN <<>> ELSE piece(s, i).text \o from[i + piece(s, i).width]
<1>7. from = [i \in 1 .. Len(s) + 1 |-> DecodeStep(s, from, i)]
  BY <1>6, Zenon DEF DecodeStep
<1>8. decode(s) = from[1]
  BY DEF decode
<1> HIDE DEF from
<1> QED
  BY <1>7, <1>8

\* One step of the shell's reading at position i, for both states of quoting.
ShellStep(s, f, i) ==
  [inside \in BOOLEAN |->
     IF i > Len(s) THEN <<>>
     ELSE IF s[i] = SQ THEN f[i + 1][~inside]
     ELSE IF s[i] = BS /\ ~inside /\ i < Len(s) THEN <<s[i + 1]>> \o f[i + 2][FALSE]
     ELSE <<s[i]>> \o f[i + 1][inside]]

\* What the shell reads from a position on follows from what it reads behind it.
LEMMA ShellUnfolds ==
  ASSUME NEW s, Len(s) \in Nat
  PROVE  \E f : /\ sh_reads(s) = f[1][FALSE]
                /\ \A i \in 1 .. Len(s) + 2 : f[i] = ShellStep(s, f, i)
<1> DEFINE L == Len(s)
           Solved(m, g) == \A i \in L + 1 - m .. L + 2 : g[i] = ShellStep(s, g, i)
           Done == {m \in Nat : m <= L => \E g : Solved(m, g)}
<1>1. 0 \in Done
  <2> DEFINE g == [i \in L + 1 .. L + 2 |-> [inside \in BOOLEAN |-> <<>>]]
  <2>1. ASSUME NEW i \in L + 1 - 0 .. L + 2 PROVE g[i] = ShellStep(s, g, i)
    <3>1. g[i] = [inside \in BOOLEAN |-> <<>>] /\ i > L
      OBVIOUS
    <3> QED
      BY <3>1 DEF ShellStep
  <2> QED
    BY <2>1
<1>2. ASSUME NEW m \in Done PROVE m + 1 \in Done
  <2>1. SUFFICES ASSUME m + 1 <= L PROVE \E g : Solved(m + 1, g)
    OBVIOUS
  <2>2. PICK g : Solved(m, g)
    BY <2>1
  <2> DEFINE h == [i \in L - m .. L + 2 |-> IF i = L - m THEN ShellStep(s, g, i) ELSE g[i]]
  <2>3. ASSUME NEW i \in L - m .. L + 2 PROVE h[i] = ShellStep(s, h, i)
    <3>1. h[i] = ShellStep(s, g, i)
      BY <2>1, <2>2
    <3>2. CASE i > L
      BY <3>1, <3>2 DEF ShellStep
    <3>3. CASE i <= L
      <4>1. i + 1 \in L + 1 - m .. L + 2 /\ i + 2 \in L + 1 - m .. L + 2
        BY <2>1, <3>3
      <4>2. h[i + 1] = g[i + 1] /\ h[i + 2] = g[i + 2]
        BY <2>1, <4>1
      <4> QED
        BY <3>1, <4>2 DEF ShellStep
    <3> QED
      BY <2>1, <3>2, <3>3
  <2>4. L + 1 - (m + 1) = L - m
    OBVIOUS
  <2> QED
    BY <2>3, <2>4
<1>3. L \in Done
  BY <1>1, <1>2, SetInduction
<1>4. PICK g : \A i \in 1 .. L + 2 : g[i] = ShellStep(s, g, i)
  <2>1. L + 1 - L = 1
    OBVIOUS
  <2> QED
    BY <1>3, <2>1
<1> DEFINE h == [i \in 1 .. L + 2 |-> g[i]]
<1>5. ASSUME NEW i \in 1 .. L + 2 PROVE ShellStep(s, g, i) = ShellStep(s, h, i)
  <2>1. CASE i > L
    BY <2>1 DEF ShellStep
  <2>2. CASE i <= L
    <3>1. h[i + 1] = g[i + 1] /\ h[i + 2] = g[i + 2]
      BY <2>2
    <3> QED
      BY <3>1 DEF ShellStep
  <2> QED
    BY <2>1, <2>2
<1>6. h = [i \in 1 .. L + 2 |-> ShellStep(s, h, i)]
  BY <1>4, <1>5
<1> DEFINE from[i \in 1 .. Len(s) + 2] ==
             [inside \in BOOLEAN |->
                IF i > Len(s) THEN <<>>
                ELSE IF s[i] = SQ THEN from[i + 1][~inside]
                ELSE IF s[i] = BS /\ ~inside /\ i < Len(s) THEN <<s[i + 1]>> \o from[i + 2][FALSE]
                ELSE <<s[i]>> \o from[i + 1][inside]]
<1>7. from = [i \in 1 .. Len(s) + 2 |-> ShellStep(s, from, i)]
  BY <1>6, Zenon DEF ShellStep
<1>8. sh_reads(s) = from[1][FALSE]
  BY DEF sh_reads
<1> HIDE DEF from
<1> QED
  BY <1>7, <1>8

-----------------------------------------------------------------------------
\* Joined texts.

\* z is x and then y.
Follows(x, y, z) ==
  /\ Len(x) \in Nat /\ Len(y) \in Nat /\ Len(z) = Len(x) + Len(y)
  /\ \A k \in 1 .. Len(x) : z[k] = x[k]
  /\ \A k \in 1 .. Len(y) : z[Len(x) + k] = y[k]

\* Every join is the one before it and then its part.
LEMMA JoinStep ==
  ASSUME NEW T, NEW n \in Nat, NEW parts \in [1 .. n -> Seq(T)], NEW f, Joins(parts, f, n),
         NEW i \in 0 .. n - 1
  PROVE  Follows(f[i], parts[i + 1], f[i + 1])
<1>1. i \in 0 .. n /\ i + 1 \in 1 .. n
  OBVIOUS
<1>2. \A j \in 0 .. n : f[j] \in Seq(T)
  BY JoinsTyped
<1> DEFINE x == f[i]
           y == parts[i + 1]
           z == f[i + 1]
<1>3. x \in Seq(T) /\ y \in Seq(T) /\ z = x \o y
  BY <1>1, <1>2 DEF Joins
<1> HIDE DEF x, y, z
<1>4. /\ Len(x) \in Nat /\ Len(y) \in Nat
      /\ Len(z) = Len(x) + Len(y)
      /\ \A k \in 1 .. Len(x) + Len(y) : z[k] = IF k <= Len(x) THEN x[k] ELSE y[k - Len(x)]
  BY <1>3, ConcatProperties, LenProperties
<1>5. Follows(x, y, z)
  BY <1>4 DEF Follows
<1> QED
  BY <1>5 DEF x, y, z

\* What is joined first stays where it is.
Keeps(x, z) == Len(x) \in Nat /\ Len(x) <= Len(z) /\ \A k \in 1 .. Len(x) : z[k] = x[k]

\* A part stays where its join puts it, to the end.
LEMMA JoinPrefix ==
  ASSUME NEW T, NEW n \in Nat, NEW parts \in [1 .. n -> Seq(T)], NEW f, Joins(parts, f, n)
  PROVE  \A i \in 0 .. n : Keeps(f[i], f[n])
<1> DEFINE Done == {m \in Nat : m <= n => \A i \in 0 .. m : Keeps(f[i], f[m])}
<1>1. \A i \in 0 .. n : Keeps(f[i], f[i])
  BY JoinsTyped, LenProperties DEF Keeps
<1>2. 0 \in Done
  BY <1>1
<1>3. ASSUME NEW m \in Done PROVE m + 1 \in Done
  <2>1. SUFFICES ASSUME m + 1 <= n, NEW i \in 0 .. m + 1 PROVE Keeps(f[i], f[m + 1])
    OBVIOUS
  <2>2. m \in 0 .. n - 1 /\ m <= n /\ i \in 0 .. n
    BY <2>1
  <2>3. CASE i = m + 1
    BY <1>1, <2>2, <2>3
  <2>4. CASE i # m + 1
    <3> DEFINE x == f[i]
               y == f[m]
               z == f[m + 1]
               p == parts[m + 1]
    <3>1. Keeps(x, y)
      BY <2>2, <2>4
    <3>2. Follows(y, p, z)
      BY <2>2, JoinStep
    <3> HIDE DEF x, y, z, p
    <3>3. Keeps(x, z)
      BY <3>1, <3>2 DEF Keeps, Follows
    <3> QED
      BY <3>3 DEF x, z
  <2> QED
    BY <2>3, <2>4
<1>4. n \in Done
  <2>1. Done \in SUBSET Nat
    OBVIOUS
  <2> HIDE DEF Done
  <2> QED
    BY <1>2, <1>3, <2>1, SetInduction
<1> QED
  BY <1>4

-----------------------------------------------------------------------------
\* Unescaping.

\* What is decoded is a text.
LEMMA DecodeType ==
  ASSUME NEW s \in Seq(Nat)
  PROVE  decode(s) \in Seq(Nat)
<1> DEFINE L == Len(s)
<1>0. L \in Nat
  OBVIOUS
<1>1. PICK f : decode(s) = f[1] /\ \A i \in 1 .. L + 1 : f[i] = DecodeStep(s, f, i)
  BY <1>0, DecodeUnfolds
<1> DEFINE Done == {m \in Nat : \A i \in 1 .. L + 1 : i + m > L => f[i] \in Seq(Nat)}
<1>2. 0 \in Done
  <2>1. ASSUME NEW i \in 1 .. L + 1, i + 0 > L PROVE f[i] \in Seq(Nat)
    <3>1. f[i] = <<>>
      <4>1. i > Len(s)
        BY <1>0, <2>1
      <4> QED
        BY <1>1, <4>1, Zenon DEF DecodeStep
    <3> QED
      BY <3>1
  <2> QED
    BY <2>1
<1>3. ASSUME NEW m \in Done PROVE m + 1 \in Done
  <2>1. ASSUME NEW i \in 1 .. L, i + m = L PROVE f[i] \in Seq(Nat)
    <3> DEFINE j == i + piece(s, i).width
    <3>1. j \in i + 1 .. L + 1
      BY <1>0, PieceWidth
    <3>2. j \in 1 .. L + 1 /\ j + m > L
      BY <1>0, <2>1, <3>1
    <3>3. f[j] \in Seq(Nat)
      BY <3>2
    <3>4. f[i] = piece(s, i).text \o f[j]
      <4>1. i \in 1 .. L + 1 /\ ~(i > Len(s))
        BY <1>0
      <4> QED
        BY <1>1, <4>1, Zenon DEF DecodeStep
    <3> HIDE DEF j
    <3> QED
      BY <3>3, <3>4, PieceType, ConcatProperties
  <2>2. ASSUME NEW i \in 1 .. L + 1, i + (m + 1) > L PROVE f[i] \in Seq(Nat)
    <3>1. i + m > L \/ (i + m = L /\ i \in 1 .. L)
      BY <1>0, <1>2, <2>2
    <3> QED
      BY <2>1, <3>1
  <2> QED
    BY <2>2
<1>4. Done = Nat
  <2>1. Done \in SUBSET Nat
    OBVIOUS
  <2> HIDE DEF Done
  <2> QED
    BY <1>2, <1>3, <2>1, SetInduction
<1>5. 1 \in 1 .. L + 1 /\ 1 + L > L
  BY <1>0
<1> QED
  BY <1>0, <1>1, <1>4, <1>5

\* The bytes of a text.
LEMMA EncodeType ==
  ASSUME NEW v \in Seq(Nat)
  PROVE  encode(v) \in Seq(Nat)
<1> DEFINE n == Len(v)
           parts == [i \in DOMAIN v |-> utf8(v[i])]
<1>1. ASSUME NEW c \in Nat PROVE utf8(c) \in Seq(Nat)
  <2> DEFINE tail(k) == 128 + ((c \div k) % 64)
  <2>1. tail(1) \in Nat /\ tail(64) \in Nat /\ tail(4096) \in Nat
    BY SMT
  <2>2. 192 + (c \div 64) \in Nat /\ 224 + (c \div 4096) \in Nat /\ 240 + (c \div 262144) \in Nat
    BY SMT
  <2>3. CASE c < 128
    <3>1. utf8(c) = <<c>>
      BY <2>3, SMT DEF utf8
    <3> QED
      BY <3>1, SMT
  <2>4. CASE ~(c < 128) /\ c < 2048
    <3>1. utf8(c) = <<192 + (c \div 64), tail(1)>>
      BY <2>4, SMT DEF utf8
    <3> QED
      BY <2>1, <2>2, <3>1, SMT
  <2>5. CASE ~(c < 128) /\ ~(c < 2048) /\ c < 65536
    <3>1. utf8(c) = <<224 + (c \div 4096), tail(64), tail(1)>>
      BY <2>5, SMT DEF utf8
    <3> QED
      BY <2>1, <2>2, <3>1, SMT
  <2>6. CASE ~(c < 128) /\ ~(c < 2048) /\ ~(c < 65536)
    <3>1. utf8(c) = <<240 + (c \div 262144), tail(4096), tail(64), tail(1)>>
      BY <2>6, SMT DEF utf8
    <3> QED
      BY <2>1, <2>2, <3>1, SMT
  <2> QED
    BY <2>3, <2>4, <2>5, <2>6, SMT
<1>2. n \in Nat /\ parts \in [1 .. n -> Seq(Nat)]
  <2>1. n \in Nat /\ DOMAIN v = 1 .. n /\ \A i \in 1 .. n : v[i] \in Nat
    OBVIOUS
  <2> QED
    BY <1>1, <2>1, Zenon
<1>3. PICK f : Joins(parts, f, n) /\ FlattenSeq(parts) = f[n]
  BY <1>2, FlattenJoins
<1>4. f[n] \in Seq(Nat)
  BY <1>2, <1>3, JoinsTyped
<1> QED
  BY <1>3, <1>4, Zenon DEF encode

\* ASCII characters are their own bytes.
LEMMA EncodeASCII ==
  ASSUME NEW s \in Seq(Nat), \A i \in DOMAIN s : s[i] < 128
  PROVE  encode(s) = s
<1> DEFINE n == Len(s)
           parts == [i \in DOMAIN s |-> utf8(s[i])]
<1>1. n \in Nat /\ DOMAIN s = 1 .. n /\ \A i \in 1 .. n : s[i] \in Nat /\ parts[i] = <<s[i]>>
  <2>1. n \in Nat /\ DOMAIN s = 1 .. n /\ \A i \in 1 .. n : s[i] \in Nat
    OBVIOUS
  <2>2. ASSUME NEW c \in Nat, c < 128 PROVE utf8(c) = <<c>>
    BY <2>2, SMT DEF utf8
  <2>3. ASSUME NEW i \in 1 .. n PROVE parts[i] = <<s[i]>>
    BY <2>1, <2>2, Zenon
  <2> QED
    BY <2>1, <2>3, Zenon
<1>2. parts \in [1 .. n -> Seq(Nat)]
  <2>1. \A c \in Nat : <<c>> \in Seq(Nat)
    OBVIOUS
  <2>2. parts = [i \in 1 .. n |-> parts[i]]
    BY <1>1, Zenon
  <2> HIDE DEF parts
  <2> QED
    BY <1>1, <2>1, <2>2, Zenon
<1>3. PICK f : Joins(parts, f, n) /\ FlattenSeq(parts) = f[n]
  BY <1>1, <1>2, FlattenJoins
<1> HIDE DEF parts
<1> DEFINE Done == {m \in Nat : m <= n => f[m] = SubSeq(s, 1, m)}
<1>4. 0 \in Done
  <2>1. f[0] = <<>>
    BY <1>3, Zenon DEF Joins
  <2>2. SubSeq(s, 1, 0) = <<>>
    BY SubSeqEmpty
  <2> QED
    BY <2>1, <2>2
<1>5. ASSUME NEW m \in Done PROVE m + 1 \in Done
  <2>1. SUFFICES ASSUME m + 1 <= n PROVE f[m + 1] = SubSeq(s, 1, m + 1)
    OBVIOUS
  <2>2. m \in 0 .. n - 1 /\ m + 1 \in 1 .. n /\ 1 \in 1 .. n /\ m + 1 - 1 = m
    BY <1>1, <2>1
  <2>3. f[m + 1] = f[m] \o parts[m + 1]
    BY <1>3, <2>2, Zenon DEF Joins
  <2>4. f[m] = SubSeq(s, 1, m) /\ parts[m + 1] = <<s[m + 1]>>
    BY <1>1, <2>1, <2>2
  <2>5. SubSeq(s, 1, m + 1) = SubSeq(s, 1, m) \o <<s[m + 1]>>
    <3>1. m + 1 \in 1 .. Len(s) /\ 1 \in 1 .. Len(s)
      BY <2>2
    <3>2. SubSeq(s, 1, m + 1) = SubSeq(s, 1, m + 1 - 1) \o <<s[m + 1]>>
      BY <3>1, SubSeqRecursiveSecond
    <3> QED
      BY <2>2, <3>2
  <2> QED
    BY <2>3, <2>4, <2>5
<1>6. n \in Done
  <2>1. Done \in SUBSET Nat
    OBVIOUS
  <2> HIDE DEF Done
  <2> QED
    BY <1>1, <1>4, <1>5, <2>1, SetInduction
<1>7. f[n] = s
  BY <1>1, <1>6, SubSeqFull
<1> QED
  BY <1>3, <1>7, Zenon DEF encode, parts

-----------------------------------------------------------------------------
\* Doubled backslashes.

\* What a character becomes when backslashes are doubled.
DoubledPart(c) == IF c = BS THEN <<BS, BS>> ELSE <<c>>

\* Doubling goes character by character.
LEMMA DoubledCons ==
  ASSUME NEW c \in Nat, NEW t \in Seq(Nat)
  PROVE  doubled(<<c>> \o t) = DoubledPart(c) \o doubled(t) /\ doubled(t) \in Seq(Nat)
<1> DEFINE u == <<c>> \o t
           n == Len(t)
           parts == [i \in DOMAIN t |-> IF t[i] = BS THEN <<BS, BS>> ELSE <<t[i]>>]
           all == [i \in DOMAIN u |-> IF u[i] = BS THEN <<BS, BS>> ELSE <<u[i]>>]
<1>1. /\ n \in Nat /\ DOMAIN t = 1 .. n /\ DOMAIN u = 1 .. n + 1 /\ u[1] = c
      /\ \A i \in 1 .. n : t[i] \in Nat /\ i + 1 \in 1 .. n + 1 /\ u[i + 1] = t[i]
      /\ \A i \in 1 .. n + 1 : u[i] \in Nat
  <2>1. <<c>> \in Seq(Nat) /\ Len(<<c>>) = 1 /\ <<c>>[1] = c
    OBVIOUS
  <2>2. /\ u \in Seq(Nat) /\ Len(u) = 1 + n
        /\ \A i \in 1 .. 1 + n : u[i] = IF i <= 1 THEN <<c>>[i] ELSE t[i - 1]
    BY <2>1, ConcatProperties
  <2> HIDE DEF u
  <2>3. n \in Nat /\ DOMAIN t = 1 .. n /\ \A i \in 1 .. n : t[i] \in Nat
    OBVIOUS
  <2>4. DOMAIN u = 1 .. n + 1 /\ \A i \in 1 .. n + 1 : u[i] \in Nat
    BY <2>2, <2>3
  <2>5. u[1] = c
    BY <2>1, <2>2, <2>3
  <2>6. ASSUME NEW i \in 1 .. n PROVE i + 1 \in 1 .. n + 1 /\ u[i + 1] = t[i]
    <3> DEFINE k == i + 1
    <3>1. k \in 1 .. 1 + n /\ k \in 1 .. n + 1 /\ ~(k <= 1) /\ k - 1 = i
      BY <2>3
    <3> HIDE DEF k
    <3>2. u[k] = t[k - 1]
      BY <2>2, <3>1
    <3>3. u[k] = t[i]
      BY <3>1, <3>2, Zenon
    <3> QED
      BY <3>1, <3>3 DEF k
  <2> QED
    BY <2>3, <2>4, <2>5, <2>6
<1> HIDE DEF u
<1>2. \A d \in Nat : DoubledPart(d) \in Seq(Nat)
  BY DEF DoubledPart, BS
<1>3. /\ \A i \in 1 .. n : parts[i] = DoubledPart(t[i])
      /\ \A i \in 1 .. n + 1 : all[i] = DoubledPart(u[i])
  BY <1>1 DEF DoubledPart
<1>4. /\ parts \in [1 .. n -> Seq(Nat)] /\ all \in [1 .. n + 1 -> Seq(Nat)]
      /\ all[1] = DoubledPart(c) /\ \A i \in 1 .. n : all[i + 1] = parts[i]
  <2>1. DOMAIN parts = 1 .. n /\ DOMAIN all = 1 .. n + 1
    BY <1>1
  <2>2. 1 \in 1 .. n + 1
    BY <1>1
  <2>3. parts = [i \in 1 .. n |-> parts[i]] /\ all = [i \in 1 .. n + 1 |-> all[i]]
    BY <2>1
  <2> HIDE DEF parts, all
  <2> QED
    BY <1>1, <1>2, <1>3, <2>2, <2>3
<1>5. doubled(u) = FlattenSeq(all) /\ doubled(t) = FlattenSeq(parts)
  BY Zenon DEF doubled
<1> HIDE DEF parts, all
<1>6. /\ FlattenSeq(all) = DoubledPart(c) \o FlattenSeq(parts)
      /\ FlattenSeq(parts) \in Seq(Nat)
  <2> HIDE DEF n
  <2>1. /\ n \in Nat /\ parts \in [1 .. n -> Seq(Nat)] /\ all \in [1 .. n + 1 -> Seq(Nat)]
        /\ \A i \in 1 .. n : all[i + 1] = parts[i]
    BY <1>1, <1>4
  <2>2. FlattenSeq(all) = all[1] \o FlattenSeq(parts) /\ FlattenSeq(parts) \in Seq(Nat)
    BY <2>1, FlattenCons
  <2> QED
    BY <1>4, <2>2
<1> QED
  BY <1>5, <1>6 DEF u

\* The unbroken run of backslashes before position i.
Run(s, i) == {j \in 1 .. i - 1 : \A k \in j .. i - 1 : s[k] = BS}

\* A backslash makes the run one longer; any other character ends it.
LEMMA RunLength ==
  ASSUME NEW s, NEW i \in Nat \ {0}
  PROVE  /\ backslashes(s, i) \in Nat
         /\ backslashes(s, 1) = 0
         /\ s[i] = BS => backslashes(s, i + 1) = backslashes(s, i) + 1
         /\ s[i] # BS => backslashes(s, i + 1) = 0
<1>0. \A k \in Nat \ {0} : backslashes(s, k) = Cardinality(Run(s, k))
  BY Zenon DEF backslashes, Run
<1>1. IsFiniteSet(Run(s, i))
  <2>1. IsFiniteSet(1 .. i - 1)
    BY FS_Interval
  <2> QED
    BY <2>1, FS_Subset DEF Run
<1>2. Cardinality(Run(s, i)) \in Nat
  BY <1>1, FS_CardinalityType
<1>3. Run(s, 1) = {}
  BY DEF Run
<1>4. ASSUME s[i] = BS PROVE Run(s, i + 1) = Run(s, i) \cup {i} /\ i \notin Run(s, i)
  <2>1. ASSUME NEW j \in 1 .. i - 1
        PROVE  (\A k \in j .. i : s[k] = BS) <=> (\A k \in j .. i - 1 : s[k] = BS)
    BY <1>4
  <2>2. \A k \in i .. i : s[k] = BS
    BY <1>4
  <2> QED
    BY <2>1, <2>2 DEF Run
<1>5. s[i] # BS => Run(s, i + 1) = {}
  BY DEF Run
<1>6. s[i] = BS => Cardinality(Run(s, i + 1)) = Cardinality(Run(s, i)) + 1
  BY <1>1, <1>4, FS_AddElement, Zenon
<1>7. s[i] # BS => Cardinality(Run(s, i + 1)) = 0
  BY <1>5, FS_EmptySet, Zenon
<1>8. 1 \in Nat \ {0} /\ i + 1 \in Nat \ {0}
  OBVIOUS
<1>9. Cardinality(Run(s, 1)) = 0
  BY <1>3, FS_EmptySet, Zenon
<1> QED
  BY <1>0, <1>2, <1>6, <1>7, <1>8, <1>9

\* Outside an escape paired backslashes make one escape after another, each of which is
\* read as a backslash; every other character is itself.
LEMMA PairedPiece ==
  ASSUME NEW s \in Seq(Nat), paired(s), NEW i \in 1 .. Len(s), backslashes(s, i) % 2 = 0
  PROVE  \/ /\ s[i] # BS /\ piece(s, i).width = 1 /\ piece(s, i).text = <<s[i]>>
            /\ backslashes(s, i + 1) % 2 = 0
         \/ /\ s[i] = BS /\ i < Len(s) /\ s[i + 1] = BS
            /\ piece(s, i).width = 2 /\ piece(s, i).text = <<BS>>
            /\ backslashes(s, i + 2) % 2 = 0
<1> DEFINE r == backslashes(s, i)
<1>0. i \in Nat \ {0} /\ i + 1 \in Nat \ {0} /\ i + 1 + 1 = i + 2 /\ Len(s) \in Nat
  OBVIOUS
<1>1. CASE s[i] # BS
  <2>1. piece(s, i) = Piece(1, <<s[i]>>)
    BY <1>1 DEF piece
  <2>2. backslashes(s, i + 1) = 0
    BY <1>0, <1>1, RunLength
  <2> QED
    BY <1>1, <2>1, <2>2 DEF Piece
<1>2. CASE s[i] = BS
  <2>1. r \in Nat /\ backslashes(s, i + 1) = r + 1
    BY <1>0, <1>2, RunLength
  <2>2. (r + 1) % 2 # 0
    BY <2>1
  <2>3. ~(i + 1 > Len(s)) /\ s[i + 1] = BS
    <3>1. i + 1 \in 1 .. Len(s) + 1
      BY <1>0
    <3>2. i + 1 > Len(s) \/ s[i + 1] # BS => backslashes(s, i + 1) % 2 = 0
      BY <3>1, Zenon DEF paired
    <3> QED
      BY <2>1, <2>2, <3>2
  <2>4. backslashes(s, i + 2) = r + 1 + 1
    BY <1>0, <2>1, <2>3, RunLength
  <2>5. (r + 1 + 1) % 2 = 0
    BY <2>1
  <2>6. piece(s, i) = Piece(2, <<BS>>)
    <3>1. i # Len(s)
      BY <2>3
    <3>2. escape(s, i) = Piece(2, <<BS>>)
      BY <2>3, LetterType, Zenon DEF escape
    <3> QED
      BY <1>2, <3>1, <3>2, Zenon DEF piece
  <2> QED
    BY <1>0, <1>2, <2>3, <2>4, <2>5, <2>6 DEF Piece
<1> QED
  BY <1>1, <1>2

\* A text with paired backslashes comes out with half of them: doubling them gives it back.
LEMMA DecodeHalves ==
  ASSUME NEW s \in Seq(Nat), paired(s)
  PROVE  doubled(decode(s)) = s
<1> DEFINE L == Len(s)
<1>0. L \in Nat
  OBVIOUS
<1>1. PICK f : decode(s) = f[1] /\ \A i \in 1 .. L + 1 : f[i] = DecodeStep(s, f, i)
  BY <1>0, DecodeUnfolds
<1> DEFINE Back(i) == f[i] \in Seq(Nat) /\ doubled(f[i]) = SubSeq(s, i, L)
           Done == {m \in Nat : \A i \in 1 .. L + 1 :
                      i + m > L /\ backslashes(s, i) % 2 = 0 => Back(i)}
<1>2. 0 \in Done
  <2>1. ASSUME NEW i \in 1 .. L + 1, i + 0 > L PROVE Back(i)
    <3>1. f[i] = <<>>
      <4>1. i > Len(s)
        BY <1>0, <2>1
      <4> QED
        BY <1>1, <4>1, Zenon DEF DecodeStep
    <3>2. doubled(<<>>) = <<>>
      BY DEF doubled, FlattenSeq
    <3>3. SubSeq(s, i, L) = <<>>
      BY <1>0, <2>1, SubSeqEmpty
    <3> QED
      BY <3>1, <3>2, <3>3
  <2> HIDE DEF Back
  <2> QED
    BY <2>1
<1>3. ASSUME NEW m \in Done PROVE m + 1 \in Done
  <2>1. ASSUME NEW i \in 1 .. L, i + m = L, backslashes(s, i) % 2 = 0 PROVE Back(i)
    <3>1. i \in 1 .. L + 1 /\ ~(i > L) /\ i + 1 \in 1 .. L + 1 /\ i + 1 + m > L
          /\ s[i] \in Nat /\ L \in i .. L
      BY <1>0, <2>1
    <3>2. f[i] = piece(s, i).text \o f[i + piece(s, i).width]
      BY <1>1, <3>1, Zenon DEF DecodeStep
    <3>3. SubSeq(s, i, L) = <<s[i]>> \o SubSeq(s, i + 1, L)
      BY <3>1, SubSeqRecursiveFirst
    <3>4. CASE /\ s[i] # BS /\ piece(s, i).width = 1 /\ piece(s, i).text = <<s[i]>>
               /\ backslashes(s, i + 1) % 2 = 0
      <4>1. Back(i + 1)
        BY <3>1, <3>4
      <4>2. f[i] = <<s[i]>> \o f[i + 1]
        BY <3>2, <3>4
      <4>3. doubled(f[i]) = <<s[i]>> \o doubled(f[i + 1])
        BY <3>1, <3>4, <4>1, <4>2, DoubledCons DEF DoubledPart
      <4>4. f[i] \in Seq(Nat)
        BY <3>1, <4>1, <4>2, ConcatProperties
      <4> QED
        BY <3>3, <4>1, <4>3, <4>4
    <3>5. CASE /\ s[i] = BS /\ i < Len(s) /\ s[i + 1] = BS
               /\ piece(s, i).width = 2 /\ piece(s, i).text = <<BS>>
               /\ backslashes(s, i + 2) % 2 = 0
      <4> DEFINE rest == SubSeq(s, i + 2, L)
      <4>1. i + 2 \in 1 .. L + 1 /\ i + 2 + m > L /\ i + 1 \in 1 .. L /\ L \in i + 1 .. L
            /\ i + 1 + 1 = i + 2
        BY <1>0, <2>1, <3>5
      <4>2. Back(i + 2)
        BY <3>5, <4>1
      <4>3. f[i] = <<BS>> \o f[i + 2]
        BY <3>2, <3>5
      <4>4. BS \in Nat
        BY <3>1, <3>5
      <4>5. doubled(f[i]) = <<BS, BS>> \o rest
        BY <4>2, <4>3, <4>4, DoubledCons DEF DoubledPart
      <4>6. f[i] \in Seq(Nat)
        BY <4>2, <4>3, <4>4, ConcatProperties
      <4>7. SubSeq(s, i + 1, L) = <<BS>> \o rest
        BY <3>5, <4>1, SubSeqRecursiveFirst
      <4>8. rest \in Seq(Nat)
        <5>1. \A k \in i + 2 .. L : s[k] \in Nat
          BY <1>0, <4>1
        <5> QED
          BY <1>0, <4>1, <5>1, SubSeqProperties
      <4> HIDE DEF rest
      <4>9. <<BS, BS>> \o rest = <<BS>> \o (<<BS>> \o rest)
        <5>1. <<BS>> \in Seq(Nat)
          BY <4>4
        <5>2. <<BS>> \o <<BS>> = <<BS, BS>>
          <6>1. <<BS>> \o <<BS>> \in Seq(Nat) /\ <<BS, BS>> \in Seq(Nat)
            BY <4>4, <5>1, ConcatProperties
          <6>2. /\ Len(<<BS>> \o <<BS>>) = 2 /\ Len(<<BS, BS>>) = 2
                /\ \A k \in 1 .. 2 : (<<BS>> \o <<BS>>)[k] = BS /\ <<BS, BS>>[k] = BS
            BY <5>1, ConcatProperties
          <6> QED
            BY <6>1, <6>2, SeqEqual
        <5> QED
          BY <4>8, <5>1, <5>2, ConcatAssociative
      <4>10. SubSeq(s, i, L) = <<BS>> \o (<<BS>> \o rest)
        BY <3>3, <3>5, <4>7
      <4> QED
        BY <4>5, <4>6, <4>9, <4>10
    <3> QED
      BY <2>1, <3>4, <3>5, PairedPiece
  <2>2. ASSUME NEW i \in 1 .. L + 1, i + (m + 1) > L, backslashes(s, i) % 2 = 0
        PROVE  Back(i)
    <3> HIDE DEF Back
    <3>1. i + m > L \/ (i + m = L /\ i \in 1 .. L)
      BY <1>0, <1>2, <2>2
    <3> QED
      BY <2>1, <2>2, <3>1
  <2> HIDE DEF Back
  <2> QED
    BY <2>2
<1>4. Done = Nat
  <2>1. Done \in SUBSET Nat
    OBVIOUS
  <2> HIDE DEF Done
  <2> QED
    BY <1>2, <1>3, <2>1, SetInduction
<1>5. 1 \in 1 .. L + 1 /\ 1 + L > L
  BY <1>0
<1>6. backslashes(s, 1) % 2 = 0
  <2>1. backslashes(s, 1) = 0
    BY RunLength
  <2> QED
    BY <2>1
<1>7. Back(1)
  <2> HIDE DEF Back
  <2> QED
    BY <1>0, <1>4, <1>5, <1>6
<1> QED
  BY <1>1, <1>7, SubSeqFull

-----------------------------------------------------------------------------
\* The shell.

\* r reads the text s.
ShellReading(s, r) == \A i \in 1 .. Len(s) + 2 : r[i] = ShellStep(s, r, i)

\* What is read from position i on, inside quotes and outside.
Inside(r, i)  == r[i][TRUE]
Outside(r, i) == r[i][FALSE]

\* A quote opens or closes quoting.
LEMMA ShellQuoteStep ==
  ASSUME NEW s, Len(s) \in Nat, NEW r, ShellReading(s, r),
         NEW i \in 1 .. Len(s), s[i] = SQ, NEW j, j = i + 1
  PROVE  Inside(r, i) = Outside(r, j) /\ Outside(r, i) = Inside(r, j)
<1>1. r[i] = ShellStep(s, r, i)
  BY DEF ShellReading
<1>2. ~(i > Len(s))
  OBVIOUS
<1> QED
  BY <1>1, <1>2 DEF ShellStep, Inside, Outside, Cons

\* Outside quotes a backslash takes the next character as it is.
LEMMA ShellEscapeStep ==
  ASSUME NEW s, Len(s) \in Nat, NEW r, ShellReading(s, r),
         NEW i \in 1 .. Len(s), i < Len(s), s[i] = BS, NEW j, j = i + 2, NEW c, c = s[i + 1]
  PROVE  Outside(r, i) = Cons(c, Outside(r, j))
<1>1. r[i] = ShellStep(s, r, i)
  BY DEF ShellReading
<1>2. ~(i > Len(s)) /\ SQ # BS
  BY DEF SQ, BS
<1> QED
  BY <1>1, <1>2 DEF ShellStep, Inside, Outside, Cons

\* Inside quotes a character other than a quote is itself.
LEMMA ShellLetterStep ==
  ASSUME NEW s, Len(s) \in Nat, NEW r, ShellReading(s, r),
         NEW i \in 1 .. Len(s), s[i] # SQ, NEW j, j = i + 1, NEW c, c = s[i]
  PROVE  Inside(r, i) = Cons(c, Inside(r, j))
<1>1. r[i] = ShellStep(s, r, i)
  BY DEF ShellReading
<1>2. ~(i > Len(s))
  OBVIOUS
<1> QED
  BY <1>1, <1>2 DEF ShellStep, Inside, Outside, Cons

\* What a character becomes inside quotes.
QuotedPart(c) == IF c = SQ THEN <<SQ, BS, SQ, SQ>> ELSE <<c>>

\* p stands in s at position a, and something behind it.
Stands(s, a, p) ==
  /\ a \in Nat \ {0} /\ Len(p) \in Nat /\ a + Len(p) <= Len(s)
  /\ \A k \in 1 .. Len(p) : s[a + k - 1] = p[k]

\* Reading one part of a quoted text inside quotes gives the character it stands for, and
\* leaves the reader inside quotes.
LEMMA ShellReadsPart ==
  ASSUME NEW s, Len(s) \in Nat, NEW r, ShellReading(s, r), NEW c, NEW a, NEW b,
         Stands(s, a, QuotedPart(c)), b = a + Len(QuotedPart(c))
  PROVE  Inside(r, a) = Cons(c, Inside(r, b))
<1>1. CASE c = SQ
  <2>1. QuotedPart(c) = <<SQ, BS, SQ, SQ>> /\ Len(QuotedPart(c)) = 4
    BY <1>1 DEF QuotedPart
  <2> DEFINE p == QuotedPart(c)
  <2>2. p[1] = SQ /\ p[2] = BS /\ p[3] = SQ /\ p[4] = SQ
    BY <2>1
  <2> HIDE DEF p
  <2>3. a \in Nat /\ a > 0 /\ a + 4 <= Len(s) /\ b = a + 4
        /\ \A k \in 1 .. 4 : s[a + k - 1] = p[k]
    BY <2>1 DEF Stands, p
  <2> DEFINE a1 == a + 1
             a2 == a + 2
             a3 == a + 3
  <2>4. a + 1 - 1 = a /\ a + 2 - 1 = a1 /\ a + 3 - 1 = a2 /\ a + 4 - 1 = a3
    BY <2>3
  <2>5. s[a] = SQ /\ s[a1] = BS /\ s[a2] = SQ /\ s[a3] = SQ
    BY <2>2, <2>3, <2>4
  <2>6. /\ a \in 1 .. Len(s) /\ a1 \in 1 .. Len(s) /\ a1 < Len(s) /\ a3 \in 1 .. Len(s)
        /\ a1 = a + 1 /\ a2 = a1 + 1 /\ a3 = a1 + 2 /\ b = a3 + 1
    BY <2>3
  <2> HIDE DEF a1, a2, a3
  <2>7. Inside(r, a) = Outside(r, a1)
    BY <2>5, <2>6, ShellQuoteStep
  <2>8. Outside(r, a1) = Cons(SQ, Outside(r, a3))
    <3>1. SQ = s[a1 + 1]
      BY <2>5, <2>6, Zenon
    <3> QED
      BY <2>5, <2>6, <3>1, ShellEscapeStep
  <2>9. Outside(r, a3) = Inside(r, b)
    BY <2>5, <2>6, ShellQuoteStep
  <2> QED
    BY <1>1, <2>7, <2>8, <2>9
<1>2. CASE c # SQ
  <2>1. QuotedPart(c) = <<c>> /\ Len(QuotedPart(c)) = 1
    BY <1>2 DEF QuotedPart
  <2> DEFINE p == QuotedPart(c)
  <2>2. p[1] = c
    BY <2>1
  <2> HIDE DEF p
  <2>3. a \in Nat /\ a > 0 /\ a + 1 <= Len(s) /\ b = a + 1
        /\ \A k \in 1 .. 1 : s[a + k - 1] = p[k]
    BY <2>1 DEF Stands, p
  <2>4. a + 1 - 1 = a /\ a \in 1 .. Len(s)
    BY <2>3
  <2>5. s[a] = c
    BY <2>2, <2>3, <2>4
  <2> QED
    BY <1>2, <2>3, <2>4, <2>5, ShellLetterStep
<1> QED
  BY <1>1, <1>2

\* A part stands in the quoted text one behind where it stands in the joined parts: a
\* quote is put in front.
LEMMA PartStands ==
  ASSUME NEW s, NEW F, NEW x, NEW p, NEW z, NEW a, Len(F) \in Nat, Len(s) = Len(F) + 2,
         \A k \in 1 .. Len(F) : s[k + 1] = F[k],
         Follows(x, p, z), Keeps(z, F), a = Len(x) + 2
  PROVE  Stands(s, a, p) /\ Len(z) + 2 = a + Len(p)
<1>1. /\ Len(x) \in Nat /\ Len(p) \in Nat /\ Len(z) = Len(x) + Len(p) /\ Len(z) <= Len(F)
      /\ \A k \in 1 .. Len(p) : z[Len(x) + k] = p[k]
      /\ \A k \in 1 .. Len(z) : F[k] = z[k]
  BY DEF Follows, Keeps
<1>2. ASSUME NEW k \in 1 .. Len(p) PROVE s[a + k - 1] = p[k]
  <2> DEFINE q == Len(x) + k
  <2>1. q \in 1 .. Len(z) /\ q \in 1 .. Len(F) /\ a + k - 1 = q + 1
    BY <1>1
  <2>2. z[q] = p[k]
    BY <1>1
  <2> HIDE DEF q
  <2>3. s[q + 1] = F[q] /\ F[q] = z[q]
    BY <1>1, <2>1
  <2> QED
    BY <2>1, <2>2, <2>3
<1>3. a \in Nat \ {0} /\ a + Len(p) <= Len(s) /\ Len(z) + 2 = a + Len(p)
  BY <1>1
<1> QED
  BY <1>1, <1>2, <1>3, Zenon DEF Stands

\* shell_quote loses nothing: a POSIX shell reads from a quoted text exactly the value that
\* was quoted, whatever quotes, backslashes and line ends it holds; and quoting brings no
\* other characters than quotes and backslashes.
THEOREM ShellQuoteInverse ==
  ASSUME NEW T, SQ \in T, BS \in T, NEW v \in Seq(T)
  PROVE  sh_reads(shell_quote(v)) = v /\ shell_quote(v) \in Seq(T)
<1> DEFINE n == Len(v)
           parts == [i \in 1 .. n |-> QuotedPart(v[i])]
           s == shell_quote(v)
<1>1. n \in Nat /\ DOMAIN v = 1 .. n /\ \A i \in 1 .. n : v[i] \in T
  OBVIOUS
<1>2. parts \in [1 .. n -> Seq(T)]
  <2>1. ASSUME NEW c \in T PROVE QuotedPart(c) \in Seq(T)
    BY DEF QuotedPart
  <2> QED
    BY <1>1, <2>1
<1>3. PICK f : Joins(parts, f, n) /\ FlattenSeq(parts) = f[n]
  BY <1>1, <1>2, FlattenJoins
<1>4. f[n] \in Seq(T) /\ Len(f[n]) \in Nat
  <2>1. \A i \in 0 .. n : f[i] \in Seq(T)
    <3> HIDE DEF n, parts
    <3> QED
      BY <1>1, <1>2, <1>3, JoinsTyped
  <2>2. n \in 0 .. n
    BY <1>1
  <2>3. f[n] \in Seq(T)
    BY <2>1, <2>2, Zenon
  <2> QED
    BY <2>3, LenProperties
<1>5. s = <<SQ>> \o f[n] \o <<SQ>>
  <2>1. parts = [i \in DOMAIN v |-> IF v[i] = SQ THEN <<SQ, BS, SQ, SQ>> ELSE <<v[i]>>]
    BY <1>1 DEF QuotedPart
  <2> QED
    BY <1>3, <2>1, Zenon DEF shell_quote
<1> DEFINE F == f[n]
           L == Len(F)
<1>6. /\ Len(s) = L + 2 /\ s[1] = SQ /\ s[L + 2] = SQ
      /\ \A k \in 1 .. L : s[k + 1] = F[k]
  <2> HIDE DEF F, s
  <2>1. <<SQ>> \in Seq(T)
    OBVIOUS
  <2>2. F \in Seq(T) /\ L \in Nat /\ s = <<SQ>> \o F \o <<SQ>>
    BY <1>4, <1>5 DEF F
  <2>3. /\ <<SQ>> \o F \in Seq(T)
        /\ Len(<<SQ>> \o F) = L + 1
        /\ (<<SQ>> \o F)[1] = SQ
        /\ \A k \in 1 .. L : (<<SQ>> \o F)[k + 1] = F[k]
    BY <2>1, <2>2, ConcatProperties
  <2> DEFINE G == <<SQ>> \o F
  <2> HIDE DEF G
  <2>4. /\ G \in Seq(T) /\ Len(G) = L + 1 /\ G[1] = SQ /\ \A k \in 1 .. L : G[k + 1] = F[k]
        /\ s = G \o <<SQ>>
    BY <2>2, <2>3 DEF G
  <2>5. /\ Len(s) = L + 2
        /\ \A i \in 1 .. L + 2 : s[i] = IF i <= L + 1 THEN G[i] ELSE <<SQ>>[i - (L + 1)]
    BY <2>1, <2>2, <2>4, ConcatProperties
  <2>6. s[1] = SQ /\ s[L + 2] = SQ
    BY <2>2, <2>4, <2>5
  <2>7. \A k \in 1 .. L : s[k + 1] = F[k]
    BY <2>2, <2>4, <2>5
  <2> QED
    BY <2>5, <2>6, <2>7
<1>15. s \in Seq(T)
  <2> HIDE DEF F, s
  <2>1. <<SQ>> \in Seq(T)
    OBVIOUS
  <2>2. F \in Seq(T) /\ s = <<SQ>> \o F \o <<SQ>>
    BY <1>4, <1>5 DEF F
  <2> QED
    BY <2>1, <2>2, ConcatProperties
<1> HIDE DEF s
<1>7. PICK r : sh_reads(s) = Outside(r, 1) /\ ShellReading(s, r)
  <2>1. Len(s) \in Nat
    BY <1>4, <1>6
  <2> QED
    BY <2>1, ShellUnfolds DEF ShellReading, Outside
<1> DEFINE Rest(i) == Inside(r, Len(f[i]) + 2) = SubSeq(v, i + 1, n)
           Done == {m \in Nat : m <= n => Rest(n - m)}
<1>8. Rest(n)
  <2> DEFINE last == L + 2
             past == L + 3
  <2>1. /\ last \in 1 .. Len(s) /\ past = last + 1 /\ past \in 1 .. Len(s) + 2
        /\ past > Len(s) /\ Len(s) \in Nat /\ s[last] = SQ
    BY <1>4, <1>6
  <2> HIDE DEF last, past
  <2>2. Inside(r, last) = Outside(r, past)
    BY <1>7, <2>1, ShellQuoteStep
  <2>3. r[past] = ShellStep(s, r, past)
    BY <1>7, <2>1 DEF ShellReading
  <2>4. Outside(r, past) = <<>>
    BY <2>1, <2>3 DEF ShellStep, Inside, Outside
  <2>5. SubSeq(v, n + 1, n) = <<>>
    BY <1>1, SubSeqEmpty
  <2> QED
    BY <2>2, <2>4, <2>5, Zenon DEF last
<1>9. ASSUME NEW i \in 0 .. n - 1, Rest(i + 1) PROVE Rest(i)
  <2> DEFINE c == v[i + 1]
             x == f[i]
             p == parts[i + 1]
             z == f[i + 1]
             a == Len(x) + 2
             b == Len(z) + 2
  <2>1. p = QuotedPart(c) /\ i + 1 \in 1 .. n /\ i + 1 \in 0 .. n
    BY <1>1
  <2>2. Follows(x, p, z)
    BY <1>1, <1>2, <1>3, JoinStep
  <2>3. Keeps(z, F)
    BY <1>1, <1>2, <1>3, <2>1, JoinPrefix
  <2>4. Inside(r, b) = SubSeq(v, i + 1 + 1, n)
    BY <1>9
  <2> HIDE DEF x, p, z, F, parts
  <2>5. Stands(s, a, p) /\ b = a + Len(p)
    <3>1. Len(F) \in Nat /\ Len(s) = Len(F) + 2 /\ \A k \in 1 .. Len(F) : s[k + 1] = F[k]
      BY <1>4, <1>6, Zenon DEF F
    <3> HIDE DEF a
    <3>2. a = Len(x) + 2
      BY DEF a
    <3> QED
      BY <2>2, <2>3, <3>1, <3>2, PartStands
  <2>6. Inside(r, a) = Cons(c, Inside(r, b))
    <3>1. Len(s) \in Nat
      BY <1>4, <1>6 DEF F
    <3> HIDE DEF a, b, c
    <3> QED
      BY <1>7, <2>1, <2>5, <3>1, ShellReadsPart
  <2>7. SubSeq(v, i + 1, n) = Cons(c, SubSeq(v, i + 1 + 1, n))
    <3>1. n \in i + 1 .. n
      BY <1>1, <2>1
    <3> QED
      BY <1>1, <2>1, <3>1, SubSeqRecursiveFirst DEF Cons
  <2>8. Inside(r, a) = SubSeq(v, i + 1, n)
    BY <2>4, <2>6, <2>7, Zenon
  <2> QED
    BY <2>8 DEF a, x
<1>10. 0 \in Done
  <2>1. n - 0 = n
    BY <1>1
  <2> HIDE DEF Rest
  <2> QED
    BY <1>8, <2>1
<1>11. ASSUME NEW m \in Done PROVE m + 1 \in Done
  <2> HIDE DEF Rest
  <2>1. SUFFICES ASSUME m + 1 <= n PROVE Rest(n - (m + 1))
    OBVIOUS
  <2>2. n - (m + 1) \in 0 .. n - 1 /\ n - (m + 1) + 1 = n - m /\ m <= n
    BY <1>1, <2>1
  <2>3. Rest(n - m)
    BY <2>2
  <2> QED
    BY <1>9, <2>2, <2>3
<1>12. Rest(0)
  <2>1. Done \in SUBSET Nat
    OBVIOUS
  <2> HIDE DEF Done
  <2>2. n \in Done
    BY <1>1, <1>10, <1>11, <2>1, SetInduction
  <2> HIDE DEF Rest
  <2>3. Rest(n - n)
    BY <1>1, <2>2 DEF Done
  <2> QED
    BY <1>1, <2>3
<1>13. Inside(r, 2) = v
  <2>1. Len(f[0]) + 2 = 2 /\ 0 + 1 = 1
    <3>1. f[0] = <<>>
      BY <1>3 DEF Joins
    <3> QED
      BY <3>1
  <2>2. Inside(r, 2) = SubSeq(v, 1, n)
    BY <1>12, <2>1, Zenon
  <2> QED
    BY <2>2, SubSeqFull, Zenon
<1>14. Outside(r, 1) = Inside(r, 2)
  <2>1. Len(s) \in Nat /\ 1 \in 1 .. Len(s) /\ 2 = 1 + 1
    BY <1>4, <1>6
  <2> QED
    BY <1>6, <1>7, <2>1, ShellQuoteStep
<1> QED
  BY <1>7, <1>13, <1>14, <1>15 DEF s

-----------------------------------------------------------------------------
\* The specification.

\* What is parsed is a text; between double quotes it is decoded from the bytes in between.
LEMMA ParsedText ==
  ASSUME NEW v \in Seq(FileChar)
  PROVE  /\ parse(v) \in Seq(Nat)
         /\ quoted(v, DQ) => body(v) \in Seq(Nat) /\ parse(v) = decode(encode(body(v)))
<1>1. v \in Seq(Nat)
  <2>1. \A c \in FileChar : c \in Nat
    BY SMT DEF FileChar, CodePoint
  <2> HIDE DEF FileChar
  <2>2. Len(v) \in Nat /\ \A i \in 1 .. Len(v) : v[i] \in FileChar
    OBVIOUS
  <2>3. v = [i \in 1 .. Len(v) |-> v[i]]
    OBVIOUS
  <2>4. [i \in 1 .. Len(v) |-> v[i]] \in Seq(Nat)
    <3>1. \A i \in 1 .. Len(v) : v[i] \in Nat
      BY <2>1, <2>2, Zenon
    <3> QED
      BY <2>2, <3>1
  <2> QED
    BY <2>3, <2>4, Zenon
<1>2. ASSUME Len(v) >= 2 PROVE body(v) \in Seq(Nat)
  <2>1. 2 \in 1 .. Len(v) + 1 /\ Len(v) - 1 \in 2 - 1 .. Len(v) /\ Len(v) \in Nat
    BY <1>1, <1>2
  <2>2. \A i \in 2 .. Len(v) - 1 : v[i] \in Nat
    BY <1>1, <2>1
  <2> QED
    BY <1>1, <2>1, <2>2, SubSeqProperties DEF body
<1>3. CASE quoted(v, DQ)
  <2>1. body(v) \in Seq(Nat)
    BY <1>2, <1>3, Zenon DEF quoted
  <2>2. parse(v) = decode(encode(body(v)))
    BY <1>3, Zenon DEF parse, unescape
  <2> QED
    BY <2>1, <2>2, EncodeType, DecodeType, Zenon
<1>4. CASE ~quoted(v, DQ)
  <2>1. quoted(v, SQ) => body(v) \in Seq(Nat)
    BY <1>2, Zenon DEF quoted
  <2> QED
    BY <1>1, <1>4, <2>1, Zenon DEF parse
<1> QED
  BY <1>3, <1>4

\* Whoever a value without NULs is rendered for reads the value.
LEMMA ConsumerReads ==
  ASSUME NEW m \in MODES, NEW v \in Seq(Nat), ~refuses(m, v), ~Holds(v, {NUL})
  PROVE  reads(m, render(m, v)) = v
<1>1. CASE m = "shell"
  <2> DEFINE T == Nat \ {NUL}
             s == shell_quote(v)
  <2>1. SQ \in T /\ BS \in T
    BY DEF SQ, BS, NUL
  <2>2. v \in Seq(T)
    <3>1. Len(v) \in Nat /\ DOMAIN v = 1 .. Len(v) /\ \A i \in 1 .. Len(v) : v[i] \in Nat
      OBVIOUS
    <3>2. \A i \in 1 .. Len(v) : v[i] \in T
      BY <3>1, Zenon DEF Holds
    <3>3. v = [i \in 1 .. Len(v) |-> v[i]]
      OBVIOUS
    <3> HIDE DEF T
    <3>4. [i \in 1 .. Len(v) |-> v[i]] \in Seq(T)
      BY <3>1, <3>2
    <3> QED
      BY <3>3, <3>4, Zenon
  <2> HIDE DEF T
  <2>3. sh_reads(s) = v /\ s \in Seq(T)
    BY <2>1, <2>2, ShellQuoteInverse
  <2> HIDE DEF s
  <2>4. \A i \in DOMAIN s : s[i] \in T
    BY <2>3
  <2>5. ~Holds(s, {NUL})
    BY <2>4, Zenon DEF Holds, T
  <2>6. substituted(s) = s
    BY <2>5, Zenon DEF substituted
  <2>7. render(m, v) = s /\ reads(m, s) = sh_reads(substituted(s))
    BY <1>1 DEF render, reads, s
  <2> QED
    BY <2>3, <2>6, <2>7
<1>2. CASE m = "envfile"
  <2>1. ~Contains(v, LF)
    <3>1. ~Holds(v, {LF, CR})
      BY <1>2, Zenon DEF refuses
    <3>2. ~\E i \in DOMAIN v : v[i] = LF
      BY <3>1, Zenon DEF Holds
    <3> QED
      BY <3>2 DEF Contains
  <2>2. docker_reads(v) = v
    BY <2>1, Zenon DEF docker_reads
  <2>3. render(m, v) = v /\ reads(m, v) = docker_reads(v)
    BY <1>2 DEF reads, render
  <2> QED
    BY <2>2, <2>3
<1>3. CASE m = "k8s"
  BY <1>3 DEF reads, render
<1> QED
  BY <1>1, <1>2, <1>3 DEF MODES

\* Where the text stands on its way.
Progress ==
  /\ raw \in Raw
  /\ mode \in MODES
  /\ pc \in {"parse", "render", "read", "done", "failed"}
  /\ pc = "parse" => text = raw
  /\ pc = "render" => text = parse(raw)
  /\ pc = "read" => text = render(mode, parse(raw)) /\ ~refuses(mode, parse(raw))
  /\ pc = "done" /\ ~Holds(parse(raw), {NUL}) => text = parse(raw)

\* At every step the text is what the steps before it make of the raw value; nothing of
\* it is lost or added on the way.
THEOREM SpecProgress == Spec => []Progress
<1>1. Init => Progress
  BY DEF Init, Progress
<1>2. Progress /\ [Next]_vars => Progress'
  <2> SUFFICES ASSUME Progress, [Next]_vars PROVE Progress'
    OBVIOUS
  <2>1. CASE Parse
    BY <2>1 DEF Parse, Fail, Progress
  <2>2. CASE Render
    BY <2>2 DEF Render, Fail, Progress
  <2>3. CASE Read
    <3>1. parse(raw) \in Seq(Nat)
      BY RawAssumption, ParsedText DEF Progress
    <3>2. /\ mode \in MODES /\ ~refuses(mode, parse(raw)) /\ text = render(mode, parse(raw))
          /\ text' = reads(mode, text) /\ pc' = "done" /\ raw' = raw /\ mode' = mode /\ raw \in Raw
      BY <2>3 DEF Read, Progress
    <3>3. ~Holds(parse(raw), {NUL}) => text' = parse(raw)
      BY <3>1, <3>2, ConsumerReads
    <3> QED
      BY <3>2, <3>3 DEF Progress
  <2>4. CASE UNCHANGED vars
    BY <2>4 DEF vars, Progress
  <2> QED
    BY <2>1, <2>2, <2>3, <2>4 DEF Next
<1> QED
  BY <1>1, <1>2, PTL DEF Spec

\* "Every consumer must agree on what a value is": shell, docker and Kubernetes all read
\* the value dotenv.py parsed, for every raw text a file can hold and every value without
\* NULs.
THEOREM SpecConsumersAgree == Spec => []ConsumersAgree
<1>1. Progress => ConsumersAgree
  BY DEF Progress, ConsumersAgree
<1> QED
  BY <1>1, SpecProgress, PTL

\* "One pass, so an escaped backslash cannot be re-read as an escape introducer": doubled
\* backslashes come out single, before every letter and every digit.
THEOREM SpecOnePass == Spec => []OnePass
<1>1. Progress => OnePass
  <2> DEFINE s == body(raw)
  <2> SUFFICES ASSUME Progress, pc = "render", quoted(raw, DQ),
                      paired(s), \A i \in DOMAIN s : s[i] < 128
               PROVE  doubled(text) = s
    BY DEF OnePass
  <2>1. raw \in Seq(FileChar) /\ text = parse(raw)
    BY RawAssumption DEF Progress
  <2>2. s \in Seq(Nat) /\ text = decode(encode(s))
    BY <2>1, ParsedText
  <2> HIDE DEF s
  <2>3. encode(s) = s
    BY <2>2, EncodeASCII
  <2>4. doubled(decode(s)) = s
    BY <2>2, DecodeHalves
  <2> QED
    BY <2>2, <2>3, <2>4, Zenon
<1> QED
  BY <1>1, SpecProgress, PTL
=============================================================================
