------------------------- MODULE FlagWrapperProofs -------------------------
(***************************************************************************)
(* What fiducia-region prints is what its command line and its environment *)
(* ask for, started directly or behind with-flags2env.sh: for command      *)
(* lines of any length, any environment, any parser of numbers, any places *)
(* and any schema of flag words.                                           *)
(*                                                                         *)
(* A line is read as a whole by FlagPositions, a recursion over its        *)
(* positions, and by the argument loop from its front.  The two meet in    *)
(* LastShift: the last occurrence of a flag in a line is the last one      *)
(* behind the line's first flag, or that flag.  From it follow             *)
(*   - the loop's invariant ReadSoFar: for each setting, what is left of   *)
(*     the line still decides it, or the loop has already got it right;    *)
(*   - FlagsOrVariables: a flag in front of a line means what its variable *)
(*     means, which is all the wrapper does.                               *)
(***************************************************************************)
EXTENDS FlagWrapper, RoutingProofs, SequenceLemmas

-----------------------------------------------------------------------------
\* The flags of a line.

\* A flag that takes a value stands at position i.
Takes(line, i) == \E f \in ValueFlags : line[i] = plain(f)

\* The loop reads a flag at a position unless the flag before has taken it as its value.
LEMMA PositionsUnfold ==
  ASSUME NEW line, Len(line) \in Nat
  PROVE  /\ FlagPositions(line) \subseteq 1 .. Len(line)
         /\ \A i \in 1 .. Len(line) :
              i \in FlagPositions(line)
                <=> (i = 1 \/ ~(i - 1 \in FlagPositions(line) /\ Takes(line, i - 1)))
<1> DEFINE n == Len(line)
           Step(g, i) == i = 1 \/ ~(g[i - 1] /\ Takes(line, i - 1))
           Solved(m, g) == \A i \in 1 .. m : g[i] = Step(g, i)
           Done == {m \in Nat : m <= n => \E g : Solved(m, g)}
<1>1. 0 \in Done
  OBVIOUS
<1>2. ASSUME NEW m \in Done PROVE m + 1 \in Done
  <2>1. SUFFICES ASSUME m + 1 <= n PROVE \E g : Solved(m + 1, g)
    OBVIOUS
  <2>2. PICK g : Solved(m, g)
    <3>1. m \in Nat /\ m <= n
      BY <2>1
    <3> QED
      BY <3>1, Zenon
  <2> DEFINE h == [i \in 1 .. m + 1 |-> IF i = m + 1 THEN Step(g, i) ELSE g[i]]
  <2>3. ASSUME NEW i \in 1 .. m + 1 PROVE h[i] = Step(h, i)
    <3>1. h[i] = Step(g, i)
      <4>1. CASE i = m + 1
        BY <4>1
      <4>2. CASE i # m + 1
        <5>1. i \in 1 .. m
          BY <4>2
        <5>2. h[i] = g[i]
          BY <4>2
        <5> QED
          BY <2>2, <5>1, <5>2, Zenon
      <4> QED
        BY <4>1, <4>2
    <3>2. CASE i = 1
      BY <3>1, <3>2, Zenon
    <3>3. CASE i # 1
      <4>1. i - 1 \in 1 .. m + 1 /\ i - 1 # m + 1
        BY <3>3
      <4>2. h[i - 1] = g[i - 1]
        BY <4>1, Zenon
      <4> QED
        BY <3>1, <4>2, Zenon
    <3> QED
      BY <3>2, <3>3, Zenon
  <2> QED
    BY <2>3, Zenon
<1>3. n \in Done
  <2>1. Done \in SUBSET Nat
    OBVIOUS
  <2> HIDE DEF Done
  <2> QED
    BY <1>1, <1>2, <2>1, SetInduction
<1>4. PICK g : \A i \in 1 .. n : g[i] = Step(g, i)
  <2>1. n \in Nat /\ n <= n
    OBVIOUS
  <2> QED
    BY <1>3, <2>1, Zenon
<1> DEFINE h == [i \in 1 .. Len(line) |-> g[i]]
<1>5. ASSUME NEW i \in 1 .. n PROVE Step(g, i) = Step(h, i)
  <2>1. CASE i = 1
    BY <2>1, Zenon
  <2>2. CASE i # 1
    <3>1. i - 1 \in 1 .. n
      BY <2>2
    <3>2. h[i - 1] = g[i - 1]
      BY <3>1, Zenon
    <3> QED
      BY <3>2, Zenon
  <2> QED
    BY <2>1, <2>2, Zenon
<1>6. h = [i \in 1 .. Len(line) |-> Step(h, i)]
  BY <1>4, <1>5, Zenon
<1> DEFINE reads[i \in 1 .. Len(line)] ==
             i = 1 \/ ~(reads[i - 1] /\ \E f \in ValueFlags : line[i - 1] = plain(f))
<1>7. reads = [i \in 1 .. Len(line) |-> Step(reads, i)]
  BY <1>6, Zenon DEF Takes
<1>8. FlagPositions(line) = {i \in 1 .. Len(line) : reads[i]}
  BY DEF FlagPositions
<1> HIDE DEF reads
<1>9. \A i \in 1 .. n : reads[i] <=> Step(reads, i)
  BY <1>7, Zenon
<1>10. \A i \in 1 .. n : i \in FlagPositions(line) <=> reads[i]
  BY <1>8, Zenon
<1>11. ASSUME NEW i \in 1 .. n
       PROVE  i \in FlagPositions(line)
                <=> (i = 1 \/ ~(i - 1 \in FlagPositions(line) /\ Takes(line, i - 1)))
  <2>1. CASE i = 1
    BY <1>9, <1>10, <2>1, Zenon
  <2>2. CASE i # 1
    <3>1. i - 1 \in 1 .. n
      BY <2>2
    <3> QED
      BY <1>9, <1>10, <2>2, <3>1, Zenon
  <2> QED
    BY <2>1, <2>2, Zenon
<1> QED
  BY <1>8, <1>11, Zenon

\* What is left of a line after its first flag, and after that flag's value.
Behind(line, k, after) ==
  /\ Len(line) \in Nat \ {0} /\ Len(after) \in Nat
  /\ k = (IF Takes(line, 1) THEN 2 ELSE 1)
  /\ Len(after) = (IF k <= Len(line) THEN Len(line) - k ELSE 0)
  /\ \A i \in 1 .. Len(after) : after[i] = line[i + k]

\* The lengths and words of a line and of what is left behind its first flag.
LEMMA BehindLengths ==
  ASSUME NEW line, NEW k, NEW after, Behind(line, k, after)
  PROVE  /\ Len(line) \in Nat /\ Len(line) > 0 /\ Len(after) \in Nat /\ k \in {1, 2}
         /\ Len(after) > 0 => Len(line) = Len(after) + k
         /\ Len(after) = 0 => Len(line) <= k
         /\ k = 2 <=> Takes(line, 1)
         /\ \A i \in 1 .. Len(after) : after[i] = line[i + k]
<1>1. k \in {1, 2} /\ (k = 2 <=> Takes(line, 1))
  BY DEF Behind
<1>2. /\ Len(line) \in Nat \ {0} /\ Len(after) \in Nat
      /\ Len(after) = IF k <= Len(line) THEN Len(line) - k ELSE 0
      /\ \A i \in 1 .. Len(after) : after[i] = line[i + k]
  BY Zenon DEF Behind
<1> DEFINE n == Len(line)
           m == Len(after)
<1>3. n \in Nat \ {0} /\ m \in Nat /\ m = (IF k <= n THEN n - k ELSE 0)
  BY <1>2
<1> HIDE DEF n, m
<1>4. /\ n > 0
      /\ m > 0 => n = m + k
      /\ m = 0 => n <= k
  BY <1>1, <1>3
<1> QED
  BY <1>1, <1>2, <1>4 DEF n, m

\* The loop reads the same flags in a line and in what is left of it.
LEMMA PositionsShift ==
  ASSUME NEW line, NEW k, NEW after, Behind(line, k, after)
  PROVE  /\ 1 \in FlagPositions(line)
         /\ k = 2 => 2 \notin FlagPositions(line)
         /\ \A i \in 1 .. Len(after) : i \in FlagPositions(after) <=> i + k \in FlagPositions(line)
<1> DEFINE P == FlagPositions(line)
           Q == FlagPositions(after)
           n == Len(line)
           m == Len(after)
           Same(i) == i \in Q <=> i + k \in P
           Done == {j \in Nat : j + 1 \in 1 .. m => Same(j + 1)}
<1>1. /\ n \in Nat /\ n > 0 /\ m \in Nat /\ k \in {1, 2}
      /\ m > 0 => n = m + k
      /\ k = 2 <=> Takes(line, 1)
  BY BehindLengths
<1>2. \A i \in 1 .. n : i \in P <=> (i = 1 \/ ~(i - 1 \in P /\ Takes(line, i - 1)))
  BY <1>1, PositionsUnfold
<1>3. \A i \in 1 .. m : i \in Q <=> (i = 1 \/ ~(i - 1 \in Q /\ Takes(after, i - 1)))
  BY <1>1, PositionsUnfold
<1>4. P \subseteq 1 .. n
  BY <1>1, PositionsUnfold
<1>5. \A i \in 1 .. m : Takes(after, i) <=> Takes(line, i + k)
  BY DEF Behind, Takes
<1> HIDE DEF P, Q, n, m
<1>6. 1 \in P
  BY <1>1, <1>2
<1>7. k = 2 => 2 \notin P
  BY <1>1, <1>2, <1>4, <1>6
<1>8. 0 \in Done
  <2>1. ASSUME 1 \in 1 .. m PROVE Same(1)
    <3>1. n = m + k /\ 1 + k \in 1 .. n
      BY <1>1, <2>1
    <3>2. 1 \in Q
      BY <1>3, <2>1
    <3>3. 1 + k \in P
      BY <1>1, <1>2, <1>6, <1>7, <3>1
    <3> QED
      BY <3>2, <3>3
  <2> QED
    BY <2>1
<1>9. ASSUME NEW j \in Done PROVE j + 1 \in Done
  <2>1. SUFFICES ASSUME j + 2 \in 1 .. m PROVE Same(j + 2)
    BY <1>1
  <2> DEFINE i == j + 1
  <2>2. j \in Nat /\ i \in 1 .. m /\ i + 1 \in 1 .. m /\ i + 1 # 1 /\ i + 1 - 1 = i /\ j + 2 = i + 1
    BY <1>1, <2>1
  <2>3. Same(i)
    BY <2>2
  <2>4. /\ i + 1 + k \in 1 .. n /\ i + 1 + k # 1 /\ i + 1 + k - 1 = i + k
    BY <1>1, <2>2
  <2> HIDE DEF i
  <2> DEFINE q == i + 1 + k
  <2>5. i + 1 \in Q <=> ~(i \in Q /\ Takes(after, i))
    BY <1>3, <2>2
  <2>6. q \in P <=> ~(i + k \in P /\ Takes(line, i + k))
    <3>1. q \in 1 .. n /\ q # 1 /\ q - 1 = i + k
      BY <1>1, <2>2, <2>4
    <3> HIDE DEF q
    <3>2. q \in P <=> ~(q - 1 \in P /\ Takes(line, q - 1))
      BY <1>2, <3>1, Zenon
    <3> QED
      BY <3>1, <3>2, Zenon
  <2> QED
    BY <1>5, <2>2, <2>3, <2>5, <2>6
<1>10. Done = Nat
  <2>1. Done \in SUBSET Nat
    OBVIOUS
  <2> HIDE DEF Done
  <2> QED
    BY <1>8, <1>9, <2>1, SetInduction
<1>11. ASSUME NEW i \in 1 .. m PROVE Same(i)
  <2>1. i - 1 \in Nat /\ i - 1 + 1 = i
    BY <1>1
  <2> QED
    BY <1>10, <2>1
<1> QED
  BY <1>6, <1>7, <1>11 DEF P, Q, m

\* The word behind position i, if any.
FollowingWord(line, i) == IF i < Len(line) THEN line[i + 1] ELSE Unset
LastWord(line, flag) == FollowingWord(line, Max(Given(line, flag)))

\* The last occurrence of a flag is the last one behind the first flag of the line, or that
\* flag itself.
LEMMA LastShift ==
  ASSUME NEW line, NEW k, NEW after, Behind(line, k, after), NEW flag
  PROVE  /\ Given(after, flag) # {} =>
              Given(line, flag) # {} /\ LastWord(line, flag) = LastWord(after, flag)
         /\ Given(after, flag) = {} /\ line[1] = plain(flag) =>
              Given(line, flag) # {} /\ LastWord(line, flag) = FollowingWord(line, 1)
         /\ Given(after, flag) = {} /\ line[1] # plain(flag) => Given(line, flag) = {}
<1> DEFINE G == Given(line, flag)
           H == Given(after, flag)
           n == Len(line)
           m == Len(after)
<1>1. /\ n \in Nat /\ n > 0 /\ m \in Nat /\ k \in {1, 2}
      /\ m > 0 => n = m + k
      /\ m = 0 => n <= k
      /\ \A i \in 1 .. m : after[i] = line[i + k]
  BY BehindLengths
<1>2. G \subseteq 1 .. n /\ H \subseteq 1 .. m
  BY <1>1, PositionsUnfold DEF Given
<1>3. \A i \in 1 .. m : i \in H <=> i + k \in G
  <2>1. \A i \in 1 .. m : i \in FlagPositions(after) <=> i + k \in FlagPositions(line)
    BY PositionsShift
  <2> QED
    BY <1>1, <2>1 DEF Given
<1>4. 1 \in G <=> line[1] = plain(flag)
  BY PositionsShift DEF Given
<1>5. k = 2 => 2 \notin G
  BY PositionsShift DEF Given
<1>6. (\A j \in H : FollowingWord(after, j) = FollowingWord(line, j + k))
  BY <1>1, <1>2 DEF FollowingWord
<1> HIDE DEF G, H, n, m
<1>7. \A j \in G : j = 1 \/ (j - k \in H /\ j - k + k = j)
  <2> SUFFICES ASSUME NEW j \in G, j # 1 PROVE j - k \in H /\ j - k + k = j
    OBVIOUS
  <2>1. j \in 2 .. n /\ j > k
    BY <1>1, <1>2, <1>5
  <2>2. m > 0 /\ j - k \in 1 .. m /\ j - k + k = j
    BY <1>1, <2>1
  <2> QED
    BY <1>3, <2>2
<1>8. CASE H # {}
  <2> DEFINE x == Max(H)
  <2>1. x \in H /\ \A y \in H : x >= y
    BY <1>1, <1>2, <1>8, MaxOfSet
  <2>2. x \in 1 .. m
    BY <1>2, <2>1
  <2> HIDE DEF x
  <2>3. x + k \in G
    BY <1>3, <2>1, <2>2
  <2>4. \A y \in G : x + k >= y
    <3> SUFFICES ASSUME NEW y \in G PROVE x + k >= y
      OBVIOUS
    <3>1. CASE y = 1
      BY <1>1, <2>2, <3>1
    <3>2. CASE y # 1
      <4>1. y - k \in H /\ y \in Nat
        BY <1>2, <1>7, <3>2
      <4> QED
        BY <1>1, <2>1, <2>2, <4>1
    <3> QED
      BY <3>1, <3>2
  <2>5. Max(G) \in G /\ \A y \in G : Max(G) >= y
    BY <1>1, <1>2, <2>3, MaxOfSet
  <2> DEFINE z == Max(G)
  <2>6. z = x + k
    <3>1. z \in G /\ z >= x + k /\ x + k >= z
      BY <2>3, <2>4, <2>5
    <3> HIDE DEF z
    <3>2. z \in Nat /\ x + k \in Nat
      BY <1>1, <1>2, <2>2, <3>1
    <3> QED
      BY <3>1, <3>2
  <2>7. FollowingWord(after, x) = FollowingWord(line, x + k)
    BY <1>6, <2>1
  <2> QED
    BY <1>8, <2>3, <2>6, <2>7 DEF LastWord, G, H, x
<1>9. CASE H = {} /\ line[1] = plain(flag)
  <2>1. G = {1}
    BY <1>4, <1>7, <1>9
  <2>2. Max(G) = 1
    BY <2>1 DEF Max
  <2> QED
    BY <1>9, <2>1, <2>2 DEF LastWord, G, H
<1>10. CASE H = {} /\ line[1] # plain(flag)
  BY <1>4, <1>7, <1>10 DEF G, H
<1> QED
  BY <1>8, <1>9, <1>10 DEF H

-----------------------------------------------------------------------------
\* What a command line and an environment say together.

\* Every string; that the literals are strings the provers have to be told.
TextNames   == STRING \cup ValueFlags \cup {"true"}
Text        == RegionString(TextNames)
Line        == Seq(Text)
Environment == [EnvVar -> Text \cup {Unset}]

\* The word a setting is read from: the last flag's, or else the variable's.
Chosen(line, e, flag, v) == IF Given(line, flag) # {} THEN LastWord(line, flag) ELSE e[v]

\* What a chosen word contributes to each kind of setting.
NumbersOf(w) == IF w = Unset THEN {} ELSE parse_f64(w)
KeysOf(w)    == IF w = Unset THEN {} ELSE {w}
RegionsOf(w) == IF w = Unset THEN {} ELSE region_named(w)
CountOf(w)   == IF w = Unset THEN 256 ELSE parse_u32(w)

\* A word is never taken for a variable that is not set.
LEMMA UnsetIsNoText ==
  ASSUME NEW w \in Text
  PROVE  w # Unset
<1>1. DOMAIN w = {"name", "upper", "padded"}
  BY DEF Text, RegionString
<1>2. DOMAIN Unset = {"unset"}
  BY DEF Unset
<1> QED
  BY <1>1, <1>2

\* A word without capitals or white space is a text.
LEMMA PlainIsText ==
  ASSUME NEW text \in TextNames
  PROVE  plain(text) \in Text
BY DEF plain, Text, RegionString

\* The words and values the constants range over are texts.
LEMMA StringIsText ==
  RegionString(STRING) \subseteq Text
<1>1. STRING \subseteq TextNames
  BY DEF TextNames
<1> QED
  BY <1>1 DEF RegionString, Text

\* An empty line gives no flag.
LEMMA NothingInEmptyLine ==
  ASSUME NEW flag
  PROVE  Given(<<>>, flag) = {}
<1>1. Len(<<>>) = 0
  OBVIOUS
<1>2. FlagPositions(<<>>) \subseteq 1 .. 0
  BY <1>1, PositionsUnfold
<1> QED
  BY <1>2 DEF Given

\* What the loop leaves of a line after its first flag, and its value, is what is behind it.
LEMMA BehindSubSeq ==
  ASSUME NEW line \in Line, line # <<>>, NEW k, k = (IF Takes(line, 1) THEN 2 ELSE 1)
  PROVE  /\ SubSeq(line, k + 1, Len(line)) \in Line
         /\ Behind(line, k, SubSeq(line, k + 1, Len(line)))
<1> DEFINE n == Len(line)
           after == SubSeq(line, k + 1, n)
<1>1. n \in Nat \ {0} /\ k \in {1, 2} /\ \A i \in 1 .. n : line[i] \in Text
  BY DEF Line
<1>2. \A i \in k + 1 .. n : line[i] \in Text
  BY <1>1
<1>3. k + 1 \in Int /\ n \in Int
  BY <1>1
<1>4. /\ after \in Seq(Text)
      /\ Len(after) = IF k + 1 <= n THEN n - (k + 1) + 1 ELSE 0
      /\ \A i \in 1 .. n - (k + 1) + 1 : after[i] = line[k + 1 + i - 1]
  BY <1>2, <1>3, SubSeqProperties
<1> HIDE DEF after
<1>5. Len(after) = (IF k <= n THEN n - k ELSE 0) /\ Len(after) \in Nat
  BY <1>1, <1>4
<1>6. ASSUME NEW i \in 1 .. Len(after) PROVE after[i] = line[i + k]
  <2>1. i \in 1 .. n - (k + 1) + 1 /\ k + 1 + i - 1 = i + k
    BY <1>1, <1>5
  <2>2. after[i] = line[k + 1 + i - 1]
    BY <1>4, <2>1, Zenon
  <2> QED
    BY <2>1, <2>2, Zenon
<1>7. Behind(line, k, after)
  BY <1>1, <1>5, <1>6, Zenon DEF Behind
<1> QED
  BY <1>4, <1>7 DEF after, Line

\* A setting as the documentation has it is what its chosen word says.
LEMMA EffectiveByChosen ==
  ASSUME NEW line \in Line, NEW e
  PROVE  /\ EffectiveLatitude(line, e)  = NumbersOf(Chosen(line, e, "--lat", "LATITUDE"))
         /\ EffectiveLongitude(line, e) = NumbersOf(Chosen(line, e, "--lon", "LONGITUDE"))
         /\ EffectiveKey(line, e)    = KeysOf(Chosen(line, e, "--key", "ROUTING_KEY"))
         /\ EffectiveRegion(line, e) = RegionsOf(Chosen(line, e, "--region", "REGION"))
         /\ (IF EffectiveShards(line, e) = {} THEN {256} ELSE EffectiveShards(line, e))
              = {CountOf(Chosen(line, e, "--shards", "SHARD_COUNT"))}
<1>1. ASSUME NEW i \in 1 .. Len(line)
      PROVE  i < Len(line) <=> FollowingWord(line, i) # Unset
  <2>1. i < Len(line) => line[i + 1] \in Text
    BY DEF Line
  <2> QED
    BY <2>1, UnsetIsNoText DEF FollowingWord
<1>2. ASSUME NEW flag, Given(line, flag) # {}
      PROVE  /\ Max(Given(line, flag)) < Len(line) <=> LastWord(line, flag) # Unset
             /\ Max(Given(line, flag)) < Len(line) =>
                  line[Max(Given(line, flag)) + 1] = LastWord(line, flag)
  <2>1. Len(line) \in Nat
    BY DEF Line
  <2>2. Given(line, flag) \subseteq 1 .. Len(line)
    BY <2>1, PositionsUnfold DEF Given
  <2>3. Max(Given(line, flag)) \in 1 .. Len(line)
    BY <1>2, <2>1, <2>2, MaxOfSet
  <2> QED
    BY <1>1, <2>3, Zenon DEF LastWord, FollowingWord
<1>3. EffectiveLatitude(line, e) = NumbersOf(Chosen(line, e, "--lat", "LATITUDE"))
  BY <1>2, Zenon DEF EffectiveLatitude, Effective, LastValue, NumbersOf, Chosen
<1>4. EffectiveLongitude(line, e) = NumbersOf(Chosen(line, e, "--lon", "LONGITUDE"))
  BY <1>2, Zenon DEF EffectiveLongitude, Effective, LastValue, NumbersOf, Chosen
<1>5. EffectiveKey(line, e) = KeysOf(Chosen(line, e, "--key", "ROUTING_KEY"))
  BY <1>2, Zenon DEF EffectiveKey, Effective, LastValue, KeysOf, Chosen
<1>6. EffectiveRegion(line, e) = RegionsOf(Chosen(line, e, "--region", "REGION"))
  BY <1>2, Zenon DEF EffectiveRegion, Effective, LastValue, RegionsOf, Chosen
<1> DEFINE w == Chosen(line, e, "--shards", "SHARD_COUNT")
<1>7. EffectiveShards(line, e) = IF w = Unset THEN {} ELSE {parse_u32(w)}
  BY <1>2, Zenon DEF EffectiveShards, Effective, LastValue, Chosen
<1>8. (IF EffectiveShards(line, e) = {} THEN {256} ELSE EffectiveShards(line, e)) = {CountOf(w)}
  <2> HIDE DEF w
  <2> QED
    BY <1>7 DEF CountOf
<1> QED
  BY <1>3, <1>4, <1>5, <1>6, <1>8

-----------------------------------------------------------------------------
\* The argument loop.

\* What a flag contributes is still to come, as its last word in what is left of the
\* line, or it has been taken in.
Halfway(left, flag, w, now, then) ==
  IF Given(left, flag) # {} THEN LastWord(left, flag) = w ELSE now = then

\* Between two arguments: the settings so far and what is left of the line make up what
\* the whole line means.
ReadSoFar(left, s, line, e) ==
  LET lat == Chosen(line, e, "--lat", "LATITUDE")
      lon == Chosen(line, e, "--lon", "LONGITUDE")
      key == Chosen(line, e, "--key", "ROUTING_KEY")
      reg == Chosen(line, e, "--region", "REGION")
      cnt == Chosen(line, e, "--shards", "SHARD_COUNT")
  IN  /\ Halfway(left, "--lat", lat, s.latitude, NumbersOf(lat))
      /\ Halfway(left, "--lon", lon, s.longitude, NumbersOf(lon))
      /\ Halfway(left, "--key", key, s.key, KeysOf(key))
      /\ Halfway(left, "--region", reg, s.region, RegionsOf(reg))
      /\ Halfway(left, "--shards", cnt, s.shard_count, CountOf(cnt))
      /\ (Given(left, "--list") # {} \/ s.list = TRUE) <=> EffectiveList(line, e)

Settings ==
  [latitude : SUBSET F64, longitude : SUBSET F64, key : SUBSET Text, region : SUBSET Region,
   shard_count : Word \ {0}, list : BOOLEAN]

\* Distinct flags are distinct words.
LEMMA PlainDiffers ==
  ASSUME NEW f, NEW g, f # g
  PROVE  plain(f) # plain(g)
BY DEF plain

\* An argument that is not a given flag leaves what that flag contributes as it is.
LEMMA HalfwaySkip ==
  ASSUME NEW left, NEW k, NEW after, Behind(left, k, after), NEW flag, left[1] # plain(flag),
         NEW w, NEW now, NEW then, Halfway(left, flag, w, now, then)
  PROVE  Halfway(after, flag, w, now, then)
<1>1. /\ Given(after, flag) # {} =>
           Given(left, flag) # {} /\ LastWord(left, flag) = LastWord(after, flag)
      /\ Given(after, flag) = {} => Given(left, flag) = {}
  BY LastShift
<1>2. IF Given(left, flag) # {} THEN LastWord(left, flag) = w ELSE now = then
  BY DEF Halfway
<1>3. IF Given(after, flag) # {} THEN LastWord(after, flag) = w ELSE now = then
  BY <1>1, <1>2
<1> QED
  BY <1>3 DEF Halfway

\* A flag at the front contributes the word behind it, unless it comes again.
LEMMA HalfwayTake ==
  ASSUME NEW left, NEW k, NEW after, Behind(left, k, after), NEW flag, left[1] = plain(flag),
         NEW w, NEW now, NEW then, Halfway(left, flag, w, now, then)
  PROVE  /\ Given(after, flag) # {} => LastWord(after, flag) = w
         /\ Given(after, flag) = {} => w = FollowingWord(left, 1)
<1>1. /\ Given(after, flag) # {} =>
           Given(left, flag) # {} /\ LastWord(left, flag) = LastWord(after, flag)
      /\ Given(after, flag) = {} =>
           Given(left, flag) # {} /\ LastWord(left, flag) = FollowingWord(left, 1)
  BY LastShift
<1>2. IF Given(left, flag) # {} THEN LastWord(left, flag) = w ELSE now = then
  BY DEF Halfway
<1> QED
  BY <1>1, <1>2

\* --list is given in a line when it comes first or is given behind the first flag.
LEMMA ListShift ==
  ASSUME NEW left, NEW k, NEW after, Behind(left, k, after)
  PROVE  Given(left, "--list") # {} <=> left[1] = plain("--list") \/ Given(after, "--list") # {}
BY LastShift, Zenon

\* Reading one value flag.
LEMMA ReadValueFlag ==
  ASSUME NEW left \in Line, left # <<>>, NEW s \in Settings, NEW line, NEW e,
         ReadSoFar(left, s, line, e)
  PROVE  LET after == SubSeq(left, 3, Len(left))
             word  == FollowingWord(left, 1)
         IN  /\ left[1] = plain("--lat") =>
                  ReadSoFar(after, [s EXCEPT !.latitude = NumbersOf(word)], line, e)
             /\ left[1] = plain("--lon") =>
                  ReadSoFar(after, [s EXCEPT !.longitude = NumbersOf(word)], line, e)
             /\ left[1] = plain("--key") =>
                  ReadSoFar(after, [s EXCEPT !.key = KeysOf(word)], line, e)
             /\ left[1] = plain("--region") =>
                  ReadSoFar(after, [s EXCEPT !.region = RegionsOf(word)], line, e)
             /\ left[1] = plain("--shards") =>
                  ReadSoFar(after, [s EXCEPT !.shard_count = CountOf(word)], line, e)
<1> DEFINE after == SubSeq(left, 3, Len(left))
           word  == FollowingWord(left, 1)
<1>1. ASSUME NEW f \in ValueFlags, left[1] = plain(f)
      PROVE  Behind(left, 2, after)
  <2>1. Takes(left, 1) /\ 2 + 1 = 3
    BY <1>1 DEF Takes
  <2> QED
    BY <2>1, BehindSubSeq
<1> HIDE DEF after, word
<1>2. ASSUME NEW f \in ValueFlags, left[1] = plain(f), NEW g, g # f, NEW w, NEW now, NEW then,
             Halfway(left, g, w, now, then)
      PROVE  Halfway(after, g, w, now, then)
  BY <1>1, <1>2, HalfwaySkip, PlainDiffers
<1>3. ASSUME NEW f \in ValueFlags, left[1] = plain(f), NEW w, NEW now, NEW then,
             Halfway(left, f, w, now, then)
      PROVE  /\ Given(after, f) # {} => LastWord(after, f) = w
             /\ Given(after, f) = {} => w = word
  BY <1>1, <1>3, HalfwayTake DEF word
<1>4. ASSUME NEW f \in ValueFlags, left[1] = plain(f)
      PROVE  Given(left, "--list") # {} <=> Given(after, "--list") # {}
  BY <1>1, <1>4, ListShift, PlainDiffers DEF ValueFlags
<1> DEFINE lat == Chosen(line, e, "--lat", "LATITUDE")
           lon == Chosen(line, e, "--lon", "LONGITUDE")
           key == Chosen(line, e, "--key", "ROUTING_KEY")
           reg == Chosen(line, e, "--region", "REGION")
           cnt == Chosen(line, e, "--shards", "SHARD_COUNT")
<1>5. /\ Halfway(left, "--lat", lat, s.latitude, NumbersOf(lat))
      /\ Halfway(left, "--lon", lon, s.longitude, NumbersOf(lon))
      /\ Halfway(left, "--key", key, s.key, KeysOf(key))
      /\ Halfway(left, "--region", reg, s.region, RegionsOf(reg))
      /\ Halfway(left, "--shards", cnt, s.shard_count, CountOf(cnt))
      /\ (Given(left, "--list") # {} \/ s.list = TRUE) <=> EffectiveList(line, e)
  BY Zenon DEF ReadSoFar
<1>6. /\ {"--lat", "--lon", "--key", "--region", "--shards"} = ValueFlags
      /\ "--lat" # "--lon" /\ "--lat" # "--key" /\ "--lat" # "--region" /\ "--lat" # "--shards"
      /\ "--lon" # "--key" /\ "--lon" # "--region" /\ "--lon" # "--shards"
      /\ "--key" # "--region" /\ "--key" # "--shards" /\ "--region" # "--shards"
  BY DEF ValueFlags
<1>7. ASSUME left[1] = plain("--lat")
      PROVE  ReadSoFar(after, [s EXCEPT !.latitude = NumbersOf(word)], line, e)
  <2> DEFINE t == [s EXCEPT !.latitude = NumbersOf(word)]
  <2>1. /\ t.latitude = NumbersOf(word) /\ t.longitude = s.longitude /\ t.key = s.key
        /\ t.region = s.region /\ t.shard_count = s.shard_count /\ t.list = s.list
    BY DEF Settings
  <2> HIDE DEF t
  <2>2. Halfway(after, "--lat", lat, t.latitude, NumbersOf(lat))
    BY <1>3, <1>5, <1>6, <1>7, <2>1, Zenon DEF Halfway
  <2>3. /\ Halfway(after, "--lon", lon, t.longitude, NumbersOf(lon))
        /\ Halfway(after, "--key", key, t.key, KeysOf(key))
        /\ Halfway(after, "--region", reg, t.region, RegionsOf(reg))
        /\ Halfway(after, "--shards", cnt, t.shard_count, CountOf(cnt))
    BY <1>2, <1>5, <1>6, <1>7, <2>1, Zenon
  <2>4. (Given(after, "--list") # {} \/ t.list = TRUE) <=> EffectiveList(line, e)
    BY <1>4, <1>5, <1>6, <1>7, <2>1, Zenon
  <2> QED
    BY <2>2, <2>3, <2>4, Zenon DEF ReadSoFar, t
<1>8. ASSUME left[1] = plain("--lon")
      PROVE  ReadSoFar(after, [s EXCEPT !.longitude = NumbersOf(word)], line, e)
  <2> DEFINE t == [s EXCEPT !.longitude = NumbersOf(word)]
  <2>1. /\ t.longitude = NumbersOf(word) /\ t.latitude = s.latitude /\ t.key = s.key
        /\ t.region = s.region /\ t.shard_count = s.shard_count /\ t.list = s.list
    BY DEF Settings
  <2> HIDE DEF t
  <2>2. Halfway(after, "--lon", lon, t.longitude, NumbersOf(lon))
    BY <1>3, <1>5, <1>6, <1>8, <2>1, Zenon DEF Halfway
  <2>3. /\ Halfway(after, "--lat", lat, t.latitude, NumbersOf(lat))
        /\ Halfway(after, "--key", key, t.key, KeysOf(key))
        /\ Halfway(after, "--region", reg, t.region, RegionsOf(reg))
        /\ Halfway(after, "--shards", cnt, t.shard_count, CountOf(cnt))
    BY <1>2, <1>5, <1>6, <1>8, <2>1, Zenon
  <2>4. (Given(after, "--list") # {} \/ t.list = TRUE) <=> EffectiveList(line, e)
    BY <1>4, <1>5, <1>6, <1>8, <2>1, Zenon
  <2> QED
    BY <2>2, <2>3, <2>4, Zenon DEF ReadSoFar, t
<1>9. ASSUME left[1] = plain("--key")
      PROVE  ReadSoFar(after, [s EXCEPT !.key = KeysOf(word)], line, e)
  <2> DEFINE t == [s EXCEPT !.key = KeysOf(word)]
  <2>1. /\ t.key = KeysOf(word) /\ t.latitude = s.latitude /\ t.longitude = s.longitude
        /\ t.region = s.region /\ t.shard_count = s.shard_count /\ t.list = s.list
    BY DEF Settings
  <2> HIDE DEF t
  <2>2. Halfway(after, "--key", key, t.key, KeysOf(key))
    BY <1>3, <1>5, <1>6, <1>9, <2>1, Zenon DEF Halfway
  <2>3. /\ Halfway(after, "--lat", lat, t.latitude, NumbersOf(lat))
        /\ Halfway(after, "--lon", lon, t.longitude, NumbersOf(lon))
        /\ Halfway(after, "--region", reg, t.region, RegionsOf(reg))
        /\ Halfway(after, "--shards", cnt, t.shard_count, CountOf(cnt))
    BY <1>2, <1>5, <1>6, <1>9, <2>1, Zenon
  <2>4. (Given(after, "--list") # {} \/ t.list = TRUE) <=> EffectiveList(line, e)
    BY <1>4, <1>5, <1>6, <1>9, <2>1, Zenon
  <2> QED
    BY <2>2, <2>3, <2>4, Zenon DEF ReadSoFar, t
<1>10. ASSUME left[1] = plain("--region")
      PROVE  ReadSoFar(after, [s EXCEPT !.region = RegionsOf(word)], line, e)
  <2> DEFINE t == [s EXCEPT !.region = RegionsOf(word)]
  <2>1. /\ t.region = RegionsOf(word) /\ t.latitude = s.latitude /\ t.longitude = s.longitude
        /\ t.key = s.key /\ t.shard_count = s.shard_count /\ t.list = s.list
    BY DEF Settings
  <2> HIDE DEF t
  <2>2. Halfway(after, "--region", reg, t.region, RegionsOf(reg))
    BY <1>3, <1>5, <1>6, <1>10, <2>1, Zenon DEF Halfway
  <2>3. /\ Halfway(after, "--lat", lat, t.latitude, NumbersOf(lat))
        /\ Halfway(after, "--lon", lon, t.longitude, NumbersOf(lon))
        /\ Halfway(after, "--key", key, t.key, KeysOf(key))
        /\ Halfway(after, "--shards", cnt, t.shard_count, CountOf(cnt))
    BY <1>2, <1>5, <1>6, <1>10, <2>1, Zenon
  <2>4. (Given(after, "--list") # {} \/ t.list = TRUE) <=> EffectiveList(line, e)
    BY <1>4, <1>5, <1>6, <1>10, <2>1, Zenon
  <2> QED
    BY <2>2, <2>3, <2>4, Zenon DEF ReadSoFar, t
<1>11. ASSUME left[1] = plain("--shards")
      PROVE  ReadSoFar(after, [s EXCEPT !.shard_count = CountOf(word)], line, e)
  <2> DEFINE t == [s EXCEPT !.shard_count = CountOf(word)]
  <2>1. /\ t.shard_count = CountOf(word) /\ t.latitude = s.latitude /\ t.longitude = s.longitude
        /\ t.key = s.key /\ t.region = s.region /\ t.list = s.list
    BY DEF Settings
  <2> HIDE DEF t
  <2>2. Halfway(after, "--shards", cnt, t.shard_count, CountOf(cnt))
    BY <1>3, <1>5, <1>6, <1>11, <2>1, Zenon DEF Halfway
  <2>3. /\ Halfway(after, "--lat", lat, t.latitude, NumbersOf(lat))
        /\ Halfway(after, "--lon", lon, t.longitude, NumbersOf(lon))
        /\ Halfway(after, "--key", key, t.key, KeysOf(key))
        /\ Halfway(after, "--region", reg, t.region, RegionsOf(reg))
    BY <1>2, <1>5, <1>6, <1>11, <2>1, Zenon
  <2>4. (Given(after, "--list") # {} \/ t.list = TRUE) <=> EffectiveList(line, e)
    BY <1>4, <1>5, <1>6, <1>11, <2>1, Zenon
  <2> QED
    BY <2>2, <2>3, <2>4, Zenon DEF ReadSoFar, t
<1> QED
  BY <1>7, <1>8, <1>9, <1>10, <1>11 DEF after, word

\* Reading --list.
LEMMA ReadListFlag ==
  ASSUME NEW left \in Line, left # <<>>, NEW s \in Settings, NEW line, NEW e,
         ReadSoFar(left, s, line, e), left[1] = plain("--list")
  PROVE  ReadSoFar(SubSeq(left, 2, Len(left)), [s EXCEPT !.list = TRUE], line, e)
<1> DEFINE after == SubSeq(left, 2, Len(left))
           t == [s EXCEPT !.list = TRUE]
<1>1. \A g \in ValueFlags : left[1] # plain(g)
  BY PlainDiffers DEF ValueFlags
<1>2. Behind(left, 1, after)
  <2>1. ~Takes(left, 1) /\ 1 + 1 = 2
    BY <1>1 DEF Takes
  <2> QED
    BY <2>1, BehindSubSeq
<1> HIDE DEF after
<1>3. ASSUME NEW g \in ValueFlags, NEW w, NEW now, NEW then, Halfway(left, g, w, now, then)
      PROVE  Halfway(after, g, w, now, then)
  BY <1>1, <1>2, <1>3, HalfwaySkip
<1>4. Given(left, "--list") # {}
  BY <1>2, ListShift
<1>5. /\ t.latitude = s.latitude /\ t.longitude = s.longitude /\ t.key = s.key
      /\ t.region = s.region /\ t.shard_count = s.shard_count /\ t.list = TRUE
  BY DEF Settings
<1> HIDE DEF t
<1>6. {"--lat", "--lon", "--key", "--region", "--shards"} = ValueFlags
  BY DEF ValueFlags
<1> DEFINE lat == Chosen(line, e, "--lat", "LATITUDE")
           lon == Chosen(line, e, "--lon", "LONGITUDE")
           key == Chosen(line, e, "--key", "ROUTING_KEY")
           reg == Chosen(line, e, "--region", "REGION")
           cnt == Chosen(line, e, "--shards", "SHARD_COUNT")
<1>7. /\ Halfway(left, "--lat", lat, s.latitude, NumbersOf(lat))
      /\ Halfway(left, "--lon", lon, s.longitude, NumbersOf(lon))
      /\ Halfway(left, "--key", key, s.key, KeysOf(key))
      /\ Halfway(left, "--region", reg, s.region, RegionsOf(reg))
      /\ Halfway(left, "--shards", cnt, s.shard_count, CountOf(cnt))
      /\ EffectiveList(line, e)
  BY <1>4, Zenon DEF ReadSoFar
<1>8. /\ Halfway(after, "--lat", lat, t.latitude, NumbersOf(lat))
      /\ Halfway(after, "--lon", lon, t.longitude, NumbersOf(lon))
      /\ Halfway(after, "--key", key, t.key, KeysOf(key))
      /\ Halfway(after, "--region", reg, t.region, RegionsOf(reg))
      /\ Halfway(after, "--shards", cnt, t.shard_count, CountOf(cnt))
  BY <1>3, <1>5, <1>6, <1>7, Zenon
<1>9. (Given(after, "--list") # {} \/ t.list = TRUE) <=> EffectiveList(line, e)
  BY <1>5, <1>7
<1>10. ReadSoFar(after, t, line, e)
  BY <1>8, <1>9, Zenon DEF ReadSoFar
<1> QED
  BY <1>10 DEF after, t

\* When nothing of the line is left, the settings are what the line means.
LEMMA ReadAll ==
  ASSUME NEW s \in Settings, NEW line \in Line, NEW e, ReadSoFar(<<>>, s, line, e)
  PROVE  /\ s.latitude  = EffectiveLatitude(line, e)
         /\ s.longitude = EffectiveLongitude(line, e)
         /\ s.key       = EffectiveKey(line, e)
         /\ s.region    = EffectiveRegion(line, e)
         /\ {s.shard_count}
              = IF EffectiveShards(line, e) = {} THEN {256} ELSE EffectiveShards(line, e)
         /\ s.list = TRUE <=> EffectiveList(line, e)
<1>1. ASSUME NEW flag, NEW w, NEW now, NEW then, Halfway(<<>>, flag, w, now, then)
      PROVE  now = then
  BY <1>1, NothingInEmptyLine, Zenon DEF Halfway
<1>2. /\ s.latitude = NumbersOf(Chosen(line, e, "--lat", "LATITUDE"))
      /\ s.longitude = NumbersOf(Chosen(line, e, "--lon", "LONGITUDE"))
      /\ s.key = KeysOf(Chosen(line, e, "--key", "ROUTING_KEY"))
      /\ s.region = RegionsOf(Chosen(line, e, "--region", "REGION"))
      /\ s.shard_count = CountOf(Chosen(line, e, "--shards", "SHARD_COUNT"))
  BY <1>1, Zenon DEF ReadSoFar
<1>3. s.list = TRUE <=> EffectiveList(line, e)
  BY NothingInEmptyLine, Zenon DEF ReadSoFar
<1> QED
  BY <1>2, <1>3, EffectiveByChosen

\* A word that parses contributes values of its type.
LEMMA WhatParses ==
  ASSUME NEW w \in Text \cup {Unset}
  PROVE  /\ ~parse_f64_fails(w) => w # Unset /\ parse_f64(w) \in SUBSET F64
         /\ ~parse_u32_fails(w) => w # Unset /\ parse_u32(w) \in Word \ {0}
         /\ ~region_fails(w) => w # Unset /\ region_named(w) \in SUBSET Region
<1>1. ~parse_f64_fails(w) => w # Unset /\ parse_f64(w) \in SUBSET F64
  BY ParseAssumption DEF parse_f64_fails, parse_f64
<1>2. ~parse_u32_fails(w) => w # Unset /\ parse_u32(w) \in Word \ {0}
  BY ParseAssumption DEF parse_u32_fails, parse_u32
<1>3. ~region_fails(w) => w # Unset /\ region_named(w) \in SUBSET Region
  <2>1. parse(w) = Unknown \/ parse(w) \in Region
    BY DEF parse
  <2> QED
    BY <2>1 DEF region_fails, region_named
<1> QED
  BY <1>1, <1>2, <1>3

\* The variables the tool reads.
LEMMA VariablesRead ==
  {"LATITUDE", "LONGITUDE", "ROUTING_KEY", "REGION", "SHARD_COUNT", "REGION_LIST"}
    \subseteq EnvVar
<1>1. /\ EnvVars[1] = "LATITUDE" /\ EnvVars[2] = "LONGITUDE" /\ EnvVars[3] = "ROUTING_KEY"
      /\ EnvVars[4] = "REGION" /\ EnvVars[5] = "SHARD_COUNT" /\ EnvVars[6] = "REGION_LIST"
      /\ DOMAIN EnvVars = 1 .. 6
  BY DEF EnvVars
<1>2. ASSUME NEW i \in 1 .. 6 PROVE EnvVars[i] \in EnvVar
  BY <1>1, <1>2, Zenon DEF EnvVar, ToSet
<1> QED
  BY <1>1, <1>2

\* The settings read from the environment alone, with the whole line left.
LEMMA ReadFromEnvironment ==
  ASSUME NEW e \in Environment, NEW line \in Line,
         e["LATITUDE"] # Unset => ~parse_f64_fails(e["LATITUDE"]),
         e["LONGITUDE"] # Unset => ~parse_f64_fails(e["LONGITUDE"]),
         e["REGION"] # Unset => ~region_fails(e["REGION"]),
         e["SHARD_COUNT"] # Unset => ~parse_u32_fails(e["SHARD_COUNT"])
  PROVE  LET s == [latitude    |-> NumbersOf(e["LATITUDE"]),
                   longitude   |-> NumbersOf(e["LONGITUDE"]),
                   key         |-> KeysOf(e["ROUTING_KEY"]),
                   region      |-> RegionsOf(e["REGION"]),
                   shard_count |-> CountOf(e["SHARD_COUNT"]),
                   list        |-> is_true(e["REGION_LIST"])]
         IN  s \in Settings /\ ReadSoFar(line, s, line, e)
<1>1. {"LATITUDE", "LONGITUDE", "ROUTING_KEY", "REGION", "SHARD_COUNT", "REGION_LIST"}
        \subseteq EnvVar
  BY VariablesRead
<1>2. \A v \in EnvVar : e[v] \in Text \cup {Unset}
  BY DEF Environment
<1> DEFINE a == NumbersOf(e["LATITUDE"])
           b == NumbersOf(e["LONGITUDE"])
           c == KeysOf(e["ROUTING_KEY"])
           d == RegionsOf(e["REGION"])
           n == CountOf(e["SHARD_COUNT"])
           l == is_true(e["REGION_LIST"])
           s == [latitude |-> a, longitude |-> b, key |-> c, region |-> d, shard_count |-> n,
                 list |-> l]
<1>3. a \in SUBSET F64
  BY <1>1, <1>2, WhatParses DEF NumbersOf
<1>4. b \in SUBSET F64
  BY <1>1, <1>2, WhatParses DEF NumbersOf
<1>5. c \in SUBSET Text
  BY <1>1, <1>2 DEF KeysOf
<1>6. d \in SUBSET Region
  BY <1>1, <1>2, WhatParses DEF RegionsOf
<1>7. n \in Word \ {0}
  BY <1>1, <1>2, WhatParses, ParseAssumption DEF CountOf
<1>8. l \in BOOLEAN
  BY DEF is_true
<1>9. /\ s.latitude = a /\ s.longitude = b /\ s.key = c /\ s.region = d /\ s.shard_count = n
      /\ s.list = l
  OBVIOUS
<1>10. s \in Settings
  <2> HIDE DEF a, b, c, d, n, l
  <2> QED
    BY <1>3, <1>4, <1>5, <1>6, <1>7, <1>8 DEF Settings
<1> DEFINE P(flag, v, now, Of(_)) ==
             LET w == Chosen(line, e, flag, v) IN Halfway(line, flag, w, now, Of(w))
<1>11. /\ P("--lat", "LATITUDE", a, NumbersOf) /\ P("--lon", "LONGITUDE", b, NumbersOf)
       /\ P("--key", "ROUTING_KEY", c, KeysOf) /\ P("--region", "REGION", d, RegionsOf)
       /\ P("--shards", "SHARD_COUNT", n, CountOf)
  BY Zenon DEF Halfway, Chosen
<1>12. (Given(line, "--list") # {} \/ l = TRUE) <=> EffectiveList(line, e)
  BY <1>8, Zenon DEF EffectiveList
<1> HIDE DEF a, b, c, d, n, l, s
<1>13. ReadSoFar(line, s, line, e)
  BY <1>9, <1>11, <1>12, Zenon DEF ReadSoFar
<1> QED
  BY <1>10, <1>13 DEF s, a, b, c, d, n, l

-----------------------------------------------------------------------------
\* The answer.

\* The order and the clusters of the regions.
LEMMA ClusterNames ==
  /\ cluster_name("us-central1") = "gcp" /\ index("us-central1") = 0
  /\ cluster_name("us-east-1") = "aws" /\ index("us-east-1") = 1
  /\ cluster_name("eu-central") = "hetzner" /\ index("eu-central") = 2
<1>1. /\ "us-central1" # "us-east-1" /\ "us-central1" # "eu-central"
      /\ "us-east-1" # "eu-central"
  OBVIOUS
<1> QED
  BY <1>1, Zenon DEF cluster_name, index

\* The loop of nearest_to ends with a region that no other region is nearer than, of several
\* that are as near with the first in the order of ALL: a place has one region, on every
\* machine that asks.
THEOREM NearestIsNearest ==
  ASSUME NEW lat \in F64, NEW lon \in F64
  PROVE  /\ nearest_to(lat, lon) \in Region /\ Nearest(nearest_to(lat, lon), lat, lon)
         /\ \A r \in Region : Nearest(r, lat, lon) => index(nearest_to(lat, lon)) <= index(r)
<1> DEFINE d(r) == distance_km_to[<<r, lat, lon>>]
<1>1. \A r \in Region : d(r) \in Nat
  BY DistanceAssumption
<1>2. /\ ALL[1] = "us-central1" /\ ALL[2] = "us-east-1" /\ ALL[3] = "eu-central"
      /\ Region = {"us-central1", "us-east-1", "eu-central"}
  BY DEF ALL, Region
<1>3. \A p, q : closer(p, q, lat, lon) = IF d(q) < d(p) THEN q ELSE p
  BY DEF closer
<1>4. index("us-central1") = 0 /\ index("us-east-1") = 1 /\ index("eu-central") = 2
  BY ClusterNames
<1> HIDE DEF d
<1> DEFINE c == closer(ALL[1], ALL[2], lat, lon)
           r == closer(c, ALL[3], lat, lon)
<1>5. \/ c = "us-central1" /\ d("us-central1") <= d("us-east-1")
      \/ c = "us-east-1" /\ d("us-east-1") < d("us-central1")
  BY <1>1, <1>2, <1>3
<1> HIDE DEF c
<1>6. \/ r = c /\ d(c) <= d("eu-central")
      \/ r = "eu-central" /\ d("eu-central") < d(c)
  BY <1>1, <1>2, <1>3, <1>5
<1> HIDE DEF r
<1>7. r \in Region /\ \A q \in Region : d(r) <= d(q)
  BY <1>1, <1>2, <1>5, <1>6
<1>8. ASSUME NEW q \in Region, \A s \in Region : d(q) <= d(s)
      PROVE  index(r) <= index(q)
  BY <1>1, <1>2, <1>4, <1>5, <1>6, <1>8
<1>9. r = nearest_to(lat, lon)
  BY DEF r, c, nearest_to
<1> QED
  BY <1>7, <1>8, <1>9 DEF Nearest, d

\* The clusters in topology order, as a region list.
Topology == [i \in 1 .. Len(ALL) |-> plain(cluster_name(ALL[i]))]

\* Both entry points choose the same shard for a region the operator named.
THEOREM EntryPointsAgree ==
  ASSUME NEW region \in Region, NEW key, NEW n \in Word, n >= 3
  PROVE  shard_for_customer_region(region, key, n)
           = route_shard("Regional", key, plain(cluster_name(region)), Topology, n)
<1> DEFINE name == plain(cluster_name(region))
<1>1. 3 \in Word /\ u32(3) = 3
  <2>1. 3 \in Word
    BY WordSizeAssumption DEF Word
  <2> QED
    BY <2>1, WordExact
<1>2. /\ Len(ALL) = 3
      /\ ALL[1] = "us-central1" /\ ALL[2] = "us-east-1" /\ ALL[3] = "eu-central"
  BY DEF ALL
<1>3. /\ Len(Topology) = 3 /\ DOMAIN Topology = 1 .. 3
      /\ Topology[1] = plain("gcp") /\ Topology[2] = plain("aws")
      /\ Topology[3] = plain("hetzner")
  BY <1>2, ClusterNames DEF Topology
<1> HIDE DEF Topology
<1>4. region_matches(name, Topology) = {index(region) + 1}
  <2>1. \A i \in 1 .. 3 : i \in region_matches(name, Topology)
                            <=> Topology[i].name = cluster_name(region)
    <3>1. /\ trim(name).name = cluster_name(region) /\ trim(name).padded = FALSE
      BY DEF trim, plain
    <3>2. \A i \in 1 .. 3 : Topology[i].padded = FALSE
      <4>1. /\ plain("gcp").padded = FALSE /\ plain("aws").padded = FALSE
            /\ plain("hetzner").padded = FALSE
        BY DEF plain
      <4> QED
        BY <1>3, <4>1
    <3> QED
      BY <1>3, <3>1, <3>2, Zenon DEF region_matches, eq_ignore_ascii_case
  <2>2. region_matches(name, Topology) \subseteq 1 .. 3
    BY <1>3 DEF region_matches
  <2>3. /\ Topology[1].name = "gcp" /\ Topology[2].name = "aws" /\ Topology[3].name = "hetzner"
    BY <1>3 DEF plain
  <2> HIDE DEF name
  <2> QED
    BY <2>1, <2>2, <2>3, ClusterNames DEF Region
<1>5. region_known(name, Topology)
  BY <1>4 DEF region_known
<1>6. region_index(name, Topology) = index(region)
  <2>1. index(region) \in 0 .. 2 /\ index(region) \in Word
    <3>1. index(region) \in 0 .. 2
      BY ClusterNames DEF Region
    <3> QED
      BY <1>1, <3>1, WordSizeAssumption DEF Word
  <2> DEFINE least == CHOOSE i \in {index(region) + 1} : \A j \in {index(region) + 1} : i <= j
  <2>2. least = index(region) + 1
    BY <2>1
  <2>3. region_index(name, Topology) = u32(least - 1)
    BY <1>4, Zenon DEF region_index
  <2> HIDE DEF least
  <2>4. least - 1 = index(region)
    BY <2>1, <2>2
  <2> QED
    BY <2>1, <2>3, <2>4, WordExact
<1>7. ~banding_impossible(Topology, n) /\ region_count_of(Topology) = 3
  BY <1>1, <1>3, WordSizeAssumption DEF banding_impossible, region_count_of, Word
<1> QED
  BY <1>2, <1>5, <1>6, <1>7
  DEF shard_for_customer_region, route_shard, region_index_or

\* AnswersLine of any outcome, and OperatorSeesRequestShard of any outcome.
IsAnswer(o, line, e) ==
  LET regions == EffectiveRegion(line, e)
      keys    == EffectiveKey(line, e)
      counts  == EffectiveShards(line, e)
  IN  /\ o.kind \in {"region", "shard"} =>
           /\ ~EffectiveList(line, e)
           /\ IF regions # {} THEN o.region \in regions ELSE NearestToPlace(o.region, line, e)
           /\ o.kind = "shard" <=> keys # {}
      /\ o.kind = "shard" =>
           /\ o.key \in keys
           /\ \E n \in IF counts = {} THEN {256} ELSE counts :
                /\ o.shard = shard_for_customer_region(o.region, o.key, n)
                /\ o.shard
                     = route_shard("Regional", o.key, plain(cluster_name(o.region)), Topology, n)
      /\ o = Listing => EffectiveList(line, e)

\* An end that prints neither a region nor a shard nor the list.
IsSilent(o) == o.kind \notin {"region", "shard", "list"}

\* Who prints no answer prints no wrong one.
LEMMA SilentAnswers ==
  ASSUME NEW o, IsSilent(o), NEW line, NEW e
  PROVE  IsAnswer(o, line, e)
<1>1. o # Listing
  BY DEF IsSilent, Listing
<1> QED
  BY <1>1, Zenon DEF IsAnswer, IsSilent

\* Errors, help, a panic and the exits of the wrapper are no answers.
LEMMA SilentEnds ==
  /\ IsSilent(None) /\ IsSilent(Usage) /\ IsSilent(Panic)
  /\ \A what, where : IsSilent(Err(what, where))
  /\ \A status : IsSilent(Exit(status))
BY DEF IsSilent, None, Usage, Panic, Err, Exit

\* Every alternative of Respond answers the line that has been read.
LEMMA RespondAnswers ==
  ASSUME NEW s \in Settings, NEW line \in Line, NEW e, ReadSoFar(<<>>, s, line, e),
         ~s.list, s.latitude = {} <=> s.longitude = {}, NEW r \in selected(s)
  PROVE  /\ s.key = {} => IsAnswer(RegionAnswer(r), line, e)
         /\ \A k \in s.key :
              ~shard_for_customer_region_panics(s.shard_count) =>
                IsAnswer(ShardAnswer(r, k, shard_for_customer_region(r, k, s.shard_count)),
                         line, e)
<1> DEFINE regions == EffectiveRegion(line, e)
           keys    == EffectiveKey(line, e)
           counts  == EffectiveShards(line, e)
           n       == s.shard_count
<1>1. /\ s.latitude  = EffectiveLatitude(line, e)
      /\ s.longitude = EffectiveLongitude(line, e)
      /\ s.key = keys /\ s.region = regions
      /\ {n} = IF counts = {} THEN {256} ELSE counts
      /\ ~EffectiveList(line, e)
  <2>1. s.list = FALSE
    BY DEF Settings
  <2> QED
    BY <2>1, ReadAll
<1>2. /\ r \in Region
      /\ IF regions # {} THEN r \in regions ELSE NearestToPlace(r, line, e)
  <2>1. CASE regions # {}
    BY <1>1, <2>1 DEF selected, Settings
  <2>2. CASE regions = {}
    <3>1. PICK lat \in s.latitude, lon \in s.longitude : r = nearest_to(lat, lon)
      BY <1>1, <2>2 DEF selected
    <3>2. lat \in F64 /\ lon \in F64
      BY <3>1 DEF Settings
    <3>3. r \in Region /\ Nearest(r, lat, lon)
      BY <3>1, <3>2, NearestIsNearest
    <3> QED
      BY <1>1, <2>2, <3>1, <3>3 DEF NearestToPlace
  <2> QED
    BY <2>1, <2>2
<1>3. ASSUME s.key = {} PROVE IsAnswer(RegionAnswer(r), line, e)
  <2> DEFINE o == RegionAnswer(r)
  <2>1. o.kind = "region" /\ o.region = r /\ o # Listing
    BY DEF RegionAnswer, Listing
  <2> HIDE DEF o
  <2>2. o.kind # "shard" /\ o.kind \in {"region", "shard"} /\ keys = {}
    BY <1>1, <1>3, <2>1
  <2> QED
    BY <1>1, <1>2, <2>1, <2>2, Zenon DEF IsAnswer, o
<1>4. ASSUME NEW k \in s.key, ~shard_for_customer_region_panics(n)
      PROVE  IsAnswer(ShardAnswer(r, k, shard_for_customer_region(r, k, n)), line, e)
  <2> DEFINE shard == shard_for_customer_region(r, k, n)
             o     == ShardAnswer(r, k, shard)
  <2>1. n \in Word /\ n >= 3
    <3>1. n \in Word
      BY DEF Settings
    <3>2. ~(n < Len(ALL)) /\ Len(ALL) = 3
      BY <1>4 DEF shard_for_customer_region_panics, shard_for_region_panics, ALL
    <3>3. n \in Int
      BY <3>1, WordSizeAssumption DEF Word
    <3> QED
      BY <3>1, <3>2, <3>3
  <2>2. shard = route_shard("Regional", k, plain(cluster_name(r)), Topology, n)
    BY <1>2, <2>1, EntryPointsAgree
  <2> HIDE DEF shard
  <2>3. o.kind = "shard" /\ o.region = r /\ o.key = k /\ o.shard = shard /\ o # Listing
    BY DEF ShardAnswer, Listing
  <2> HIDE DEF o
  <2>4. o.kind \in {"region", "shard"} /\ keys # {} /\ k \in keys
    BY <1>1, <1>4, <2>3
  <2>5. n \in IF counts = {} THEN {256} ELSE counts
    BY <1>1
  <2>6. /\ o.shard = shard_for_customer_region(o.region, o.key, n)
        /\ o.shard = route_shard("Regional", o.key, plain(cluster_name(o.region)), Topology, n)
    BY <2>2, <2>3, Zenon DEF shard
  <2>7. IsAnswer(o, line, e)
    BY <1>1, <1>2, <2>3, <2>4, <2>5, <2>6, Zenon DEF IsAnswer
  <2> QED
    BY <2>7 DEF o, shard
<1> QED
  BY <1>3, <1>4

-----------------------------------------------------------------------------
\* The tool.

\* The inductive invariant of the tool, which does not care how its environment came about.
ToolInv ==
  /\ argv \in Line /\ rest \in Line /\ env \in Environment
  /\ pc = "env" => rest = argv
  /\ pc = "args" => settings \in Settings /\ ReadSoFar(rest, settings, argv, env)
  /\ pc # "done" => outcome = None
  /\ IsAnswer(outcome, argv, env)

\* An end of the run that answers the line, or does not answer.
LEMMA EndKeepsToolInv ==
  ASSUME ToolInv, NEW o, End(o), IsAnswer(o, argv, env)
  PROVE  ToolInv'
BY DEF ToolInv, End

\* A setting taken in from the arguments.
LEMMA PutKeepsToolInv ==
  ASSUME ToolInv, pc = "args", NEW field, NEW value, NEW consumed, Put(field, value, consumed),
         [settings EXCEPT ![field] = value] \in Settings,
         SubSeq(rest, consumed + 1, Len(rest)) \in Line,
         ReadSoFar(SubSeq(rest, consumed + 1, Len(rest)), [settings EXCEPT ![field] = value],
                   argv, env)
  PROVE  ToolInv'
BY DEF ToolInv, Put

\* The environment contributes what is chosen from it when no flag is given.
LEMMA ReadEnvironmentStep ==
  ASSUME ToolInv, ReadEnvironment
  PROVE  ToolInv'
<1>1. CASE bad_variables # {}
  <2>1. PICK what : End(Err(what, "env"))
    BY <1>1 DEF ReadEnvironment
  <2>2. IsAnswer(Err(what, "env"), argv, env)
    BY SilentEnds, SilentAnswers
  <2> QED
    BY <2>1, <2>2, EndKeepsToolInv
<1>2. CASE bad_variables = {}
  <2>1. /\ env["LATITUDE"] # Unset => ~parse_f64_fails(env["LATITUDE"])
        /\ env["LONGITUDE"] # Unset => ~parse_f64_fails(env["LONGITUDE"])
        /\ env["REGION"] # Unset => ~region_fails(env["REGION"])
        /\ env["SHARD_COUNT"] # Unset => ~parse_u32_fails(env["SHARD_COUNT"])
    BY <1>2, Zenon DEF bad_variables
  <2>2. /\ settings' = [latitude    |-> NumbersOf(env["LATITUDE"]),
                        longitude   |-> NumbersOf(env["LONGITUDE"]),
                        key         |-> KeysOf(env["ROUTING_KEY"]),
                        region      |-> RegionsOf(env["REGION"]),
                        shard_count |-> CountOf(env["SHARD_COUNT"]),
                        list        |-> is_true(env["REGION_LIST"])]
        /\ pc = "env" /\ pc' = "args"
        /\ env' = env /\ argv' = argv /\ rest' = rest /\ outcome' = outcome
    BY <1>2 DEF ReadEnvironment, NumbersOf, KeysOf, RegionsOf, CountOf, from_env
  <2>3. argv \in Line /\ env \in Environment /\ rest = argv /\ outcome = None
    BY <2>2 DEF ToolInv
  <2>4. settings' \in Settings /\ ReadSoFar(argv, settings', argv, env)
    BY <2>1, <2>2, <2>3, ReadFromEnvironment
  <2> QED
    BY <2>2, <2>3, <2>4 DEF ToolInv
<1> QED
  BY <1>1, <1>2

\* --list.
LEMMA ListStep ==
  ASSUME ToolInv, List
  PROVE  ToolInv'
<1>1. /\ pc = "args" /\ rest \in Line /\ rest # <<>> /\ rest[1] = plain("--list")
      /\ Put("list", TRUE, 1)
      /\ settings \in Settings /\ ReadSoFar(rest, settings, argv, env)
  BY DEF List, At, ToolInv
<1>2. [settings EXCEPT !.list = TRUE] \in Settings
  BY <1>1 DEF Settings
<1>3. SubSeq(rest, 1 + 1, Len(rest)) \in Line
  <2>1. \A g \in ValueFlags : rest[1] # plain(g)
    BY <1>1, PlainDiffers DEF ValueFlags
  <2>2. ~Takes(rest, 1)
    BY <2>1 DEF Takes
  <2> QED
    BY <1>1, <2>2, BehindSubSeq
<1>4. ReadSoFar(SubSeq(rest, 1 + 1, Len(rest)), [settings EXCEPT !.list = TRUE], argv, env)
  <2>1. 1 + 1 = 2
    OBVIOUS
  <2> QED
    BY <1>1, <2>1, ReadListFlag, Zenon
<1> QED
  BY <1>1, <1>2, <1>3, <1>4, PutKeepsToolInv

\* What the five flags with a value have in common.
LEMMA ValueFlagStep ==
  ASSUME ToolInv, NEW flag \in ValueFlags, At(flag)
  PROVE  /\ pc = "args" /\ rest \in Line /\ rest # <<>> /\ rest[1] = plain(flag)
         /\ settings \in Settings /\ ReadSoFar(rest, settings, argv, env)
         /\ next = FollowingWord(rest, 1) /\ next \in Text \cup {Unset}
         /\ SubSeq(rest, 2 + 1, Len(rest)) \in Line
         /\ 2 + 1 = 3
<1>1. /\ pc = "args" /\ rest \in Line /\ rest # <<>> /\ rest[1] = plain(flag)
      /\ settings \in Settings /\ ReadSoFar(rest, settings, argv, env)
  BY DEF At, ToolInv
<1>2. next = FollowingWord(rest, 1) /\ next \in Text \cup {Unset}
  BY <1>1 DEF next, FollowingWord, Line
<1>3. Takes(rest, 1)
  BY <1>1 DEF Takes
<1>4. SubSeq(rest, 2 + 1, Len(rest)) \in Line
  BY <1>1, <1>3, BehindSubSeq
<1> QED
  BY <1>1, <1>2, <1>4

\* A flag whose value does not parse ends the run.
LEMMA RefusedFlagStep ==
  ASSUME ToolInv, NEW flag, End(Err(flag, "argv"))
  PROVE  ToolInv'
<1>1. IsAnswer(Err(flag, "argv"), argv, env)
  BY SilentEnds, SilentAnswers
<1> QED
  BY <1>1, EndKeepsToolInv

\* --lat.
LEMMA LatitudeStep ==
  ASSUME ToolInv, Latitude
  PROVE  ToolInv'
<1>1. "--lat" \in ValueFlags /\ At("--lat")
  BY DEF Latitude, ValueFlag, ValueFlags
<1>2. CASE parse_f64_fails(next)
  <2>1. End(Err("--lat", "argv"))
    BY <1>2 DEF Latitude, ValueFlag
  <2> QED
    BY <2>1, RefusedFlagStep
<1>3. CASE ~parse_f64_fails(next)
  <2> DEFINE s == [settings EXCEPT !.latitude = parse_f64(next)]
  <2>1. Put("latitude", parse_f64(next), 2)
    BY <1>3 DEF Latitude, ValueFlag
  <2>2. parse_f64(next) = NumbersOf(next) /\ parse_f64(next) \in SUBSET F64
    BY <1>1, <1>3, ValueFlagStep, WhatParses DEF NumbersOf
  <2>3. s \in Settings
    BY <1>1, <2>2, ValueFlagStep DEF Settings
  <2>4. ReadSoFar(SubSeq(rest, 2 + 1, Len(rest)), s, argv, env)
    BY <1>1, <2>2, ValueFlagStep, ReadValueFlag, Zenon
  <2> QED
    BY <1>1, <2>1, <2>3, <2>4, ValueFlagStep, PutKeepsToolInv
<1> QED
  BY <1>2, <1>3

\* --lon.
LEMMA LongitudeStep ==
  ASSUME ToolInv, Longitude
  PROVE  ToolInv'
<1>1. "--lon" \in ValueFlags /\ At("--lon")
  BY DEF Longitude, ValueFlag, ValueFlags
<1>2. CASE parse_f64_fails(next)
  <2>1. End(Err("--lon", "argv"))
    BY <1>2 DEF Longitude, ValueFlag
  <2> QED
    BY <2>1, RefusedFlagStep
<1>3. CASE ~parse_f64_fails(next)
  <2> DEFINE s == [settings EXCEPT !.longitude = parse_f64(next)]
  <2>1. Put("longitude", parse_f64(next), 2)
    BY <1>3 DEF Longitude, ValueFlag
  <2>2. parse_f64(next) = NumbersOf(next) /\ parse_f64(next) \in SUBSET F64
    BY <1>1, <1>3, ValueFlagStep, WhatParses DEF NumbersOf
  <2>3. s \in Settings
    BY <1>1, <2>2, ValueFlagStep DEF Settings
  <2>4. ReadSoFar(SubSeq(rest, 2 + 1, Len(rest)), s, argv, env)
    BY <1>1, <2>2, ValueFlagStep, ReadValueFlag, Zenon
  <2> QED
    BY <1>1, <2>1, <2>3, <2>4, ValueFlagStep, PutKeepsToolInv
<1> QED
  BY <1>2, <1>3

\* --region.
LEMMA RegionArgStep ==
  ASSUME ToolInv, RegionArg
  PROVE  ToolInv'
<1>1. "--region" \in ValueFlags /\ At("--region")
  BY DEF RegionArg, ValueFlag, ValueFlags
<1>2. CASE region_fails(next)
  <2>1. End(Err("--region", "argv"))
    BY <1>2 DEF RegionArg, ValueFlag
  <2> QED
    BY <2>1, RefusedFlagStep
<1>3. CASE ~region_fails(next)
  <2> DEFINE s == [settings EXCEPT !.region = region_named(next)]
  <2>1. Put("region", region_named(next), 2)
    BY <1>3 DEF RegionArg, ValueFlag
  <2>2. region_named(next) = RegionsOf(next) /\ region_named(next) \in SUBSET Region
    BY <1>1, <1>3, ValueFlagStep, WhatParses DEF RegionsOf
  <2>3. s \in Settings
    BY <1>1, <2>2, ValueFlagStep DEF Settings
  <2>4. ReadSoFar(SubSeq(rest, 2 + 1, Len(rest)), s, argv, env)
    BY <1>1, <2>2, ValueFlagStep, ReadValueFlag, Zenon
  <2> QED
    BY <1>1, <2>1, <2>3, <2>4, ValueFlagStep, PutKeepsToolInv
<1> QED
  BY <1>2, <1>3

\* --shards.
LEMMA ShardsStep ==
  ASSUME ToolInv, Shards
  PROVE  ToolInv'
<1>1. "--shards" \in ValueFlags /\ At("--shards")
  BY DEF Shards, ValueFlag, ValueFlags
<1>2. CASE parse_u32_fails(next)
  <2>1. End(Err("--shards", "argv"))
    BY <1>2 DEF Shards, ValueFlag
  <2> QED
    BY <2>1, RefusedFlagStep
<1>3. CASE ~parse_u32_fails(next)
  <2> DEFINE s == [settings EXCEPT !.shard_count = parse_u32(next)]
  <2>1. Put("shard_count", parse_u32(next), 2)
    BY <1>3 DEF Shards, ValueFlag
  <2>2. parse_u32(next) = CountOf(next) /\ parse_u32(next) \in Word \ {0}
    BY <1>1, <1>3, ValueFlagStep, WhatParses DEF CountOf
  <2>3. s \in Settings
    BY <1>1, <2>2, ValueFlagStep DEF Settings
  <2>4. ReadSoFar(SubSeq(rest, 2 + 1, Len(rest)), s, argv, env)
    BY <1>1, <2>2, ValueFlagStep, ReadValueFlag, Zenon
  <2> QED
    BY <1>1, <2>1, <2>3, <2>4, ValueFlagStep, PutKeepsToolInv
<1> QED
  BY <1>2, <1>3

\* A missing key is no key.
LEMMA KeyArgStep ==
  ASSUME ToolInv, KeyArg
  PROVE  ToolInv'
<1> DEFINE s == [settings EXCEPT !.key = KeysOf(next)]
<1>1. "--key" \in ValueFlags /\ At("--key") /\ Put("key", KeysOf(next), 2)
  BY DEF KeyArg, ValueFlags, KeysOf
<1>2. KeysOf(next) \in SUBSET Text
  BY <1>1, ValueFlagStep DEF KeysOf
<1>3. s \in Settings
  BY <1>1, <1>2, ValueFlagStep DEF Settings
<1>4. ReadSoFar(SubSeq(rest, 2 + 1, Len(rest)), s, argv, env)
  BY <1>1, ValueFlagStep, ReadValueFlag, Zenon
<1> QED
  BY <1>1, <1>3, <1>4, ValueFlagStep, PutKeepsToolInv

\* The final match of main.
LEMMA RespondStep ==
  ASSUME ToolInv, Respond
  PROVE  ToolInv'
<1> DEFINE s == settings
           answer(region, key) ==
             IF shard_for_customer_region_panics(s.shard_count) THEN Panic
             ELSE ShardAnswer(region, key,
                              shard_for_customer_region(region, key, s.shard_count))
<1>1. s \in Settings /\ argv \in Line /\ ReadSoFar(<<>>, s, argv, env)
  BY DEF Respond, ToolInv
<1>2. ASSUME NEW o, End(o), IsSilent(o)
      PROVE  ToolInv'
  BY <1>2, SilentAnswers, EndKeepsToolInv
<1>3. CASE s.list
  <2>1. End(Listing)
    BY <1>3 DEF Respond
  <2>2. EffectiveList(argv, env)
    BY <1>1, <1>3, ReadAll DEF Settings
  <2>3. IsAnswer(Listing, argv, env)
    <3>1. Listing.kind \notin {"region", "shard"} /\ Listing.kind # "shard"
      BY DEF Listing
    <3> QED
      BY <2>2, <3>1, Zenon DEF IsAnswer
  <2> QED
    BY <2>1, <2>3, EndKeepsToolInv
<1>4. CASE ~s.list
  <2>1. CASE End(Err("coordinates", "settings"))
    BY <1>2, <2>1, SilentEnds
  <2>2. CASE End(Err("--key", "settings"))
    BY <1>2, <2>2, SilentEnds
  <2>3. CASE End(Usage)
    BY <1>2, <2>3, SilentEnds
  <2>4. ASSUME s.latitude = {} <=> s.longitude = {},
               NEW r \in selected(s), NEW k \in s.key, End(answer(r, k))
        PROVE  ToolInv'
    <3>1. CASE shard_for_customer_region_panics(s.shard_count)
      BY <1>2, <2>4, <3>1, SilentEnds
    <3>2. CASE ~shard_for_customer_region_panics(s.shard_count)
      <4>1. IsAnswer(answer(r, k), argv, env)
        BY <1>1, <1>4, <2>4, <3>2, RespondAnswers, Zenon
      <4> QED
        BY <2>4, <4>1, EndKeepsToolInv
    <3> QED
      BY <3>1, <3>2
  <2>5. ASSUME s.latitude = {} <=> s.longitude = {}, s.key = {},
               NEW r \in selected(s), End(RegionAnswer(r))
        PROVE  ToolInv'
    <3>1. IsAnswer(RegionAnswer(r), argv, env)
      BY <1>1, <1>4, <2>5, RespondAnswers, Zenon
    <3> QED
      BY <2>5, <3>1, EndKeepsToolInv
  <2> QED
    BY <1>4, <2>1, <2>2, <2>3, <2>4, <2>5, Zenon DEF Respond
<1> QED
  BY <1>3, <1>4

\* One step of the tool.
LEMMA ToolStep ==
  ASSUME ToolInv, [Next]_vars
  PROVE  ToolInv'
<1>1. CASE Help
  <2>1. End(Usage)
    BY <1>1 DEF Help
  <2>2. IsAnswer(Usage, argv, env)
    BY SilentEnds, SilentAnswers
  <2> QED
    BY <2>1, <2>2, EndKeepsToolInv
<1>2. CASE UnknownArgument
  <2>1. End(Err("unknown argument", "argv"))
    BY <1>2 DEF UnknownArgument
  <2> QED
    BY <2>1, RefusedFlagStep
<1>3. CASE UndecodableArgument
  <2>1. End(Panic)
    BY <1>3 DEF UndecodableArgument
  <2>2. IsAnswer(Panic, argv, env)
    BY SilentEnds, SilentAnswers
  <2> QED
    BY <2>1, <2>2, EndKeepsToolInv
<1>4. CASE UNCHANGED vars
  BY <1>4 DEF ToolInv, vars
<1> QED
  BY <1>1, <1>2, <1>3, <1>4, ReadEnvironmentStep, ListStep, LatitudeStep, LongitudeStep,
     RegionArgStep, ShardsStep, KeyArgStep, RespondStep
  DEF Next

\* The tool starts with the whole line left to read and nothing answered.
LEMMA ToolInit ==
  Init => ToolInv
<1> SUFFICES ASSUME Init PROVE ToolInv
  OBVIOUS
<1>1. Arg \subseteq Text
  BY ArgAssumption, StringIsText
<1>2. argv \in Seq(Arg) /\ env \in [EnvVar -> Arg \cup {Unset}] /\ rest = argv
  BY ArgAssumption DEF Init
<1>3. argv \in Line
  BY <1>1, <1>2 DEF Line
<1>4. env \in Environment
  BY <1>1, <1>2 DEF Environment
<1>5. pc = "env" /\ outcome = None
  BY DEF Init
<1>6. IsAnswer(None, argv, env)
  BY SilentEnds, SilentAnswers
<1> QED
  BY <1>2, <1>3, <1>4, <1>5, <1>6 DEF ToolInv

\* The invariant is the two properties about one answer, and more.
LEMMA ToolInvAnswers ==
  ASSUME ToolInv
  PROVE  AnswerIsWhatWasAsked /\ OperatorSeesRequestShard
<1>1. IsAnswer(outcome, argv, env)
  BY DEF ToolInv
<1>2. AnswerIsWhatWasAsked
  BY <1>1, Zenon DEF IsAnswer, AnswerIsWhatWasAsked, AnswersLine, Answered
<1>3. OperatorSeesRequestShard
  BY <1>1, Zenon DEF IsAnswer, OperatorSeesRequestShard, Topology
<1> QED
  BY <1>2, <1>3

-----------------------------------------------------------------------------
\* The wrapper.

\* The schema of .cli-flags.toml.
LEMMA EnvNames ==
  /\ EnvName("--list") = "REGION_LIST" /\ EnvName("--lat") = "LATITUDE"
  /\ EnvName("--lon") = "LONGITUDE" /\ EnvName("--key") = "ROUTING_KEY"
  /\ EnvName("--region") = "REGION" /\ EnvName("--shards") = "SHARD_COUNT"
<1>1. /\ "--list" # "--lat" /\ "--list" # "--lon" /\ "--list" # "--key"
      /\ "--list" # "--region" /\ "--list" # "--shards"
      /\ "--lat" # "--lon" /\ "--lat" # "--key" /\ "--lat" # "--region" /\ "--lat" # "--shards"
      /\ "--lon" # "--key" /\ "--lon" # "--region" /\ "--lon" # "--shards"
      /\ "--key" # "--region" /\ "--key" # "--shards" /\ "--region" # "--shards"
  OBVIOUS
<1> QED
  BY <1>1, Zenon DEF EnvName

\* The schema names every flag's variable, and no variable twice.
LEMMA SchemaIsOneToOne ==
  /\ \A f \in ValueFlags \cup {"--list"} : EnvName(f) \in EnvVar
  /\ \A f, g \in ValueFlags \cup {"--list"} : EnvName(f) = EnvName(g) => f = g
<1>1. {"LATITUDE", "LONGITUDE", "ROUTING_KEY", "REGION", "SHARD_COUNT", "REGION_LIST"}
        \subseteq EnvVar
  BY VariablesRead
<1> QED
  BY <1>1, EnvNames DEF ValueFlags

\* What the wrapper exports of the first m flags.
ExportedFirst(fs, m, e) ==
  [v \in EnvVar |->
     LET given == {i \in 1 .. m : EnvName(flag_of(fs[i])) = v}
     IN  IF given = {} THEN e[v] ELSE value_of(fs[Max(given)])]

\* One flag more overrides its variable.
LEMMA ExportOneMore ==
  ASSUME NEW fs, NEW m \in Nat, NEW e
  PROVE  LET v == EnvName(flag_of(fs[m + 1]))
         IN  ExportedFirst(fs, m + 1, e)
               = [ExportedFirst(fs, m, e) EXCEPT ![v] = value_of(fs[m + 1])]
<1> DEFINE E == ExportedFirst(fs, m, e)
           F == ExportedFirst(fs, m + 1, e)
           now(v) == {i \in 1 .. m : EnvName(flag_of(fs[i])) = v}
           then(v) == {i \in 1 .. m + 1 : EnvName(flag_of(fs[i])) = v}
           u == EnvName(flag_of(fs[m + 1]))
<1>1. ASSUME NEW v \in EnvVar, v # u PROVE F[v] = E[v]
  <2>1. then(v) = now(v)
    BY <1>1
  <2>2. /\ F[v] = IF then(v) = {} THEN e[v] ELSE value_of(fs[Max(then(v))])
        /\ E[v] = IF now(v) = {} THEN e[v] ELSE value_of(fs[Max(now(v))])
    BY Zenon DEF ExportedFirst
  <2> HIDE DEF then, now, E, F
  <2> QED
    BY <2>1, <2>2
<1>2. ASSUME NEW v \in EnvVar, v = u PROVE F[v] = value_of(fs[m + 1])
  <2>1. then(v) \in SUBSET (1 .. m + 1) /\ m + 1 \in then(v) /\ m + 1 \in Nat
    BY <1>2
  <2>2. Max(then(v)) \in then(v) /\ Max(then(v)) >= m + 1
    <3> HIDE DEF then
    <3> QED
      BY <2>1, MaxOfSet
  <2>3. Max(then(v)) = m + 1
    <3>1. \A x \in then(v) : x \in 1 .. m + 1
      OBVIOUS
    <3> HIDE DEF then
    <3> QED
      BY <2>2, <3>1
  <2>4. F[v] = IF then(v) = {} THEN e[v] ELSE value_of(fs[Max(then(v))])
    BY Zenon DEF ExportedFirst
  <2>5. then(v) # {}
    BY <2>1
  <2> QED
    BY <2>3, <2>4, <2>5, Zenon
<1>3. F = [v \in EnvVar |-> F[v]] /\ E = [v \in EnvVar |-> E[v]]
  BY DEF ExportedFirst
<1> HIDE DEF E, F, u
<1>4. F = [E EXCEPT ![u] = value_of(fs[m + 1])]
  BY <1>1, <1>2, <1>3
<1> QED
  BY <1>4 DEF E, F, u

\* Two readings of a line and an environment that choose the same word for every setting.
SameMeaning(l1, e1, l2, e2) ==
  /\ \A f \in ValueFlags : Chosen(l1, e1, f, EnvName(f)) = Chosen(l2, e2, f, EnvName(f))
  /\ EffectiveList(l1, e1) <=> EffectiveList(l2, e2)

\* A flag before the line means what its variable means.
LEMMA FlagOrVariable ==
  ASSUME NEW w \in Text, known(w), NEW line \in Line, NEW e, DOMAIN e = EnvVar
  PROVE  SameMeaning(direct(w) \o line, e,
                     line, [e EXCEPT ![EnvName(flag_of(w))] = value_of(w)])
<1> DEFINE before == direct(w) \o line
           k == IF assigns(w) THEN 2 ELSE 1
           g == flag_of(w)
           d == [e EXCEPT ![EnvName(g)] = value_of(w)]
<1>1. g \in ValueFlags \cup {"--list"} /\ (assigns(w) <=> g \in ValueFlags)
  <2>1. "--list" \notin ValueFlags
    BY DEF ValueFlags
  <2> QED
    BY <2>1, AssignmentAssumption DEF flag_of, assigns
<1>2. /\ Behind(before, k, line) /\ before[1] = plain(g)
      /\ assigns(w) => FollowingWord(before, 1) = value_of(w)
  <2>1. Len(line) \in Nat
    BY DEF Line
  <2>2. CASE assigns(w)
    <3>1. /\ Len(before) = Len(line) + 2 /\ before[1] = plain(g) /\ before[2] = value_of(w)
          /\ \A i \in 1 .. Len(line) : before[i + 2] = line[i]
      <4>1. direct(w) = <<plain(g), value_of(w)>>
        BY <2>2 DEF direct
      <4> DEFINE a == plain(g)
                 b == value_of(w)
      <4> HIDE DEF a, b, g
      <4>2. before = <<a, b>> \o line
        BY <4>1 DEF a, b, g
      <4> HIDE DEF before
      <4>3. Len(<<a, b>> \o line) = Len(line) + 2
        BY DEF Line
      <4> QED
        BY <4>2 DEF Line, a, b, g
    <3>2. Takes(before, 1)
      BY <1>1, <2>2, <3>1 DEF Takes
    <3> HIDE DEF before, g
    <3>3. Behind(before, 2, line)
      BY <2>1, <3>1, <3>2 DEF Behind
    <3>4. FollowingWord(before, 1) = value_of(w)
      BY <2>1, <3>1 DEF FollowingWord
    <3> QED
      BY <2>2, <3>1, <3>3, <3>4
  <2>3. CASE ~assigns(w)
    <3>1. w = plain("--list") /\ g = "--list"
      BY <2>3 DEF known, flag_of
    <3>2. /\ Len(before) = Len(line) + 1 /\ before[1] = plain(g)
          /\ \A i \in 1 .. Len(line) : before[i + 1] = line[i]
      <4>1. before = <<w>> \o line
        BY <2>3 DEF direct
      <4> HIDE DEF before, g
      <4> QED
        BY <3>1, <4>1 DEF Line
    <3>3. ~Takes(before, 1)
      BY <3>1, <3>2, PlainDiffers DEF Takes, ValueFlags
    <3> HIDE DEF before, g
    <3>4. Behind(before, 1, line)
      BY <2>1, <3>2, <3>3 DEF Behind
    <3> QED
      BY <2>3, <3>2, <3>4
  <2> QED
    BY <2>2, <2>3
<1> HIDE DEF before, k
<1>3. EnvName(g) \in EnvVar
  BY <1>1, SchemaIsOneToOne
<1>4. d[EnvName(g)] = value_of(w) /\ \A v \in EnvVar : v # EnvName(g) => d[v] = e[v]
  BY <1>3
<1> HIDE DEF d, g
<1>5. ASSUME NEW f \in ValueFlags
      PROVE  Chosen(before, e, f, EnvName(f)) = Chosen(line, d, f, EnvName(f))
  <2>1. /\ Given(line, f) # {} =>
             Given(before, f) # {} /\ LastWord(before, f) = LastWord(line, f)
        /\ Given(line, f) = {} /\ before[1] = plain(f) =>
             Given(before, f) # {} /\ LastWord(before, f) = FollowingWord(before, 1)
        /\ Given(line, f) = {} /\ before[1] # plain(f) => Given(before, f) = {}
    BY <1>2, LastShift
  <2>2. CASE f = g
    BY <1>1, <1>2, <1>4, <2>1, <2>2, Zenon DEF Chosen
  <2>3. CASE f # g
    <3>1. before[1] # plain(f)
      BY <1>2, <2>3, PlainDiffers
    <3>2. EnvName(f) \in EnvVar /\ EnvName(f) # EnvName(g)
      BY <1>1, <2>3, SchemaIsOneToOne, Zenon
    <3> QED
      BY <1>4, <2>1, <3>1, <3>2, Zenon DEF Chosen
  <2> QED
    BY <2>2, <2>3
<1>6. EffectiveList(before, e) <=> EffectiveList(line, d)
  <2>1. Given(before, "--list") # {} <=> before[1] = plain("--list") \/ Given(line, "--list") # {}
    BY <1>2, ListShift
  <2>2. EnvName("--list") = "REGION_LIST" /\ EnvName("--list") \in EnvVar
    BY EnvNames, SchemaIsOneToOne
  <2>3. CASE g = "--list"
    <3>1. ~assigns(w)
      BY <1>1, <2>3 DEF ValueFlags
    <3>2. d["REGION_LIST"] = plain("true")
      BY <1>4, <2>2, <2>3, <3>1 DEF value_of
    <3>3. is_true(d["REGION_LIST"])
      BY <3>2, Zenon DEF is_true
    <3> QED
      BY <1>2, <2>1, <2>3, <3>3, Zenon DEF EffectiveList
  <2>4. CASE g # "--list"
    <3>1. before[1] # plain("--list")
      BY <1>2, <2>4, PlainDiffers
    <3>2. EnvName("--list") # EnvName(g)
      BY <1>1, <2>4, SchemaIsOneToOne, Zenon
    <3>3. d["REGION_LIST"] = e["REGION_LIST"]
      BY <1>4, <2>2, <3>2, Zenon
    <3> QED
      BY <2>1, <3>1, <3>3, Zenon DEF EffectiveList
  <2> QED
    BY <2>3, <2>4
<1> QED
  BY <1>5, <1>6, Zenon DEF SameMeaning, before, d, g

\* Meaning the same is transitive.
LEMMA SameMeaningTransitive ==
  ASSUME NEW l1, NEW e1, NEW l2, NEW e2, NEW l3, NEW e3,
         SameMeaning(l1, e1, l2, e2), SameMeaning(l2, e2, l3, e3)
  PROVE  SameMeaning(l1, e1, l3, e3)
BY Zenon DEF SameMeaning

\* What a flag is for the tool, and its value, are texts.
LEMMA DirectIsText ==
  ASSUME NEW w \in Text
  PROVE  direct(w) \in Line /\ value_of(w) \in Text
<1>1. CASE assigns(w)
  <2>1. assignment[w.name].flag \in TextNames /\ assignment[w.name].value \in TextNames
    BY <1>1, AssignmentAssumption DEF assigns, TextNames
  <2>2. plain(flag_of(w)) \in Text
    BY <1>1, <2>1, PlainIsText DEF flag_of
  <2>3. value_of(w) \in Text
    BY <1>1, <2>1 DEF value_of, Text, RegionString
  <2> DEFINE a == plain(flag_of(w))
             b == value_of(w)
  <2>4. direct(w) = <<a, b>>
    BY <1>1 DEF direct
  <2> HIDE DEF a, b
  <2>5. <<a, b>> \in Seq(Text)
    BY <2>2, <2>3 DEF a, b
  <2> QED
    BY <2>3, <2>4, <2>5 DEF Line
<1>2. CASE ~assigns(w)
  <2>1. direct(w) = <<w>>
    BY <1>2 DEF direct
  <2>2. value_of(w) \in Text
    BY <1>2, PlainIsText DEF value_of, TextNames
  <2> QED
    BY <2>1, <2>2 DEF Line
<1> QED
  BY <1>1, <1>2

\* All the flags before the line mean what their variables mean: one at a time, from the
\* last flag to the first.
LEMMA FlagsOrVariables ==
  ASSUME NEW fs \in Line, \A i \in 1 .. Len(fs) : known(fs[i]), NEW line \in Line,
         NEW e \in Environment
  PROVE  /\ direct_line(fs) \in Line
         /\ SameMeaning(direct_line(fs) \o line, e, line, exported(fs, e))
<1> DEFINE n == Len(fs)
           parts == [i \in 1 .. n |-> direct(fs[i])]
<1>1. n \in Nat /\ \A i \in 1 .. n : fs[i] \in Text
  BY DEF Line
<1>2. parts \in [1 .. n -> Seq(Text)]
  BY <1>1, DirectIsText DEF Line
<1>3. PICK f : Joins(parts, f, n) /\ FlattenSeq(parts) = f[n]
  <2> HIDE DEF parts, n
  <2> QED
    BY <1>1, <1>2, FlattenJoins
<1>4. \A i \in 0 .. n : f[i] \in Line
  <2> HIDE DEF parts, n
  <2> QED
    BY <1>1, <1>2, <1>3, JoinsTyped DEF Line
<1>5. direct_line(fs) = f[n]
  BY <1>3 DEF direct_line
<1>6. ASSUME NEW i \in 0 .. n - 1 PROVE f[i + 1] = f[i] \o direct(fs[i + 1])
  <2>1. f[i + 1] = f[i] \o parts[i + 1]
    BY <1>3 DEF Joins
  <2>2. parts[i + 1] = direct(fs[i + 1])
    BY <1>1
  <2> QED
    BY <2>1, <2>2, Zenon
<1>7. f[0] = <<>>
  BY <1>3 DEF Joins
<1> HIDE DEF parts
<1> DEFINE E(m) == ExportedFirst(fs, m, e)
           Done == {m \in Nat : m <= n => \A l \in Line : SameMeaning(f[m] \o l, e, l, E(m))}
<1>8. E(0) = e
  <2>1. \A v \in EnvVar : E(0)[v] = e[v]
    BY DEF ExportedFirst
  <2>2. E(0) = [v \in EnvVar |-> E(0)[v]] /\ e = [v \in EnvVar |-> e[v]]
    BY DEF ExportedFirst, Environment
  <2> HIDE DEF E
  <2> QED
    BY <2>1, <2>2
<1>9. 0 \in Done
  <2>1. ASSUME NEW l \in Line PROVE SameMeaning(f[0] \o l, e, l, E(0))
    <3>1. f[0] \o l = l
      BY <1>7, ConcatEmptySeq DEF Line
    <3>2. SameMeaning(l, e, l, e)
      BY DEF SameMeaning
    <3> QED
      BY <1>8, <3>1, <3>2, Zenon
  <2> QED
    BY <2>1
<1>10. ASSUME NEW m \in Done PROVE m + 1 \in Done
  <2>1. SUFFICES ASSUME m + 1 <= n, NEW l \in Line
                 PROVE  SameMeaning(f[m + 1] \o l, e, l, E(m + 1))
    OBVIOUS
  <2>2. m \in Nat /\ m <= n /\ m \in 0 .. n - 1 /\ m \in 0 .. n /\ m + 1 \in 1 .. n
    BY <1>1, <2>1
  <2> DEFINE w == fs[m + 1]
             d == direct(w)
  <2>3. w \in Text /\ known(w) /\ d \in Line
    BY <1>1, <2>2, DirectIsText
  <2>4. f[m + 1] \o l = f[m] \o (d \o l) /\ d \o l \in Line
    <3>1. f[m + 1] = f[m] \o d /\ f[m] \in Line
      BY <1>4, <1>6, <2>2
    <3> DEFINE x == f[m]
    <3> HIDE DEF d
    <3>2. x \in Seq(Text) /\ d \in Seq(Text) /\ l \in Seq(Text)
      BY <2>3, <3>1 DEF Line
    <3> HIDE DEF x
    <3>3. (x \o d) \o l = x \o (d \o l)
      BY <3>2, ConcatAssociative
    <3>4. d \o l \in Line
      BY <2>3, ConcatProperties DEF Line
    <3> QED
      BY <3>1, <3>3, <3>4, Zenon DEF x
  <2>5. SameMeaning(f[m] \o (d \o l), e, d \o l, E(m))
    BY <2>2, <2>4, Zenon
  <2>6. SameMeaning(d \o l, E(m), l, [E(m) EXCEPT ![EnvName(flag_of(w))] = value_of(w)])
    <3>1. DOMAIN E(m) = EnvVar
      BY DEF ExportedFirst
    <3> HIDE DEF E, w
    <3> QED
      BY <2>3, <3>1, FlagOrVariable
  <2>7. E(m + 1) = [E(m) EXCEPT ![EnvName(flag_of(w))] = value_of(w)]
    BY <2>2, ExportOneMore
  <2> HIDE DEF E, w, d
  <2>8. SameMeaning(d \o l, E(m), l, E(m + 1))
    BY <2>6, <2>7, Zenon
  <2> QED
    BY <2>4, <2>5, <2>8, SameMeaningTransitive, Zenon
<1>11. Done = Nat
  <2>1. Done \in SUBSET Nat
    OBVIOUS
  <2> HIDE DEF Done
  <2> QED
    BY <1>9, <1>10, <2>1, SetInduction
<1>12. SameMeaning(f[n] \o line, e, line, E(n))
  <2>1. n \in Done /\ n <= n
    BY <1>1, <1>11
  <2> QED
    BY <2>1, Zenon
<1>13. exported(fs, e) = E(n)
  BY DEF exported, ExportedFirst
<1>14. f[n] \in Line
  BY <1>1, <1>4
<1> QED
  BY <1>5, <1>12, <1>13, <1>14, Zenon

\* An answer to one reading is an answer to another of the same meaning.
LEMMA SameAnswer ==
  ASSUME NEW o, NEW l1 \in Line, NEW e1, NEW l2 \in Line, NEW e2,
         SameMeaning(l1, e1, l2, e2), IsAnswer(o, l2, e2)
  PROVE  IsAnswer(o, l1, e1)
<1>1. \A f \in ValueFlags : Chosen(l1, e1, f, EnvName(f)) = Chosen(l2, e2, f, EnvName(f))
  BY DEF SameMeaning
<1>2. /\ Chosen(l1, e1, "--lat", "LATITUDE") = Chosen(l2, e2, "--lat", "LATITUDE")
      /\ Chosen(l1, e1, "--lon", "LONGITUDE") = Chosen(l2, e2, "--lon", "LONGITUDE")
      /\ Chosen(l1, e1, "--key", "ROUTING_KEY") = Chosen(l2, e2, "--key", "ROUTING_KEY")
      /\ Chosen(l1, e1, "--region", "REGION") = Chosen(l2, e2, "--region", "REGION")
      /\ Chosen(l1, e1, "--shards", "SHARD_COUNT") = Chosen(l2, e2, "--shards", "SHARD_COUNT")
  <2>1. {"--lat", "--lon", "--key", "--region", "--shards"} \subseteq ValueFlags
    BY DEF ValueFlags
  <2> QED
    BY <1>1, <2>1, EnvNames, Zenon
<1>3. /\ EffectiveLatitude(l1, e1) = EffectiveLatitude(l2, e2)
      /\ EffectiveLongitude(l1, e1) = EffectiveLongitude(l2, e2)
      /\ EffectiveKey(l1, e1) = EffectiveKey(l2, e2)
      /\ EffectiveRegion(l1, e1) = EffectiveRegion(l2, e2)
      /\ (IF EffectiveShards(l1, e1) = {} THEN {256} ELSE EffectiveShards(l1, e1))
           = IF EffectiveShards(l2, e2) = {} THEN {256} ELSE EffectiveShards(l2, e2)
  BY <1>2, EffectiveByChosen
<1>4. EffectiveList(l1, e1) <=> EffectiveList(l2, e2)
  BY DEF SameMeaning
<1>5. ASSUME NEW r, NearestToPlace(r, l2, e2)
      PROVE  NearestToPlace(r, l1, e1)
  BY <1>3, <1>5, Zenon DEF NearestToPlace
<1> DEFINE n1 == IF EffectiveShards(l1, e1) = {} THEN {256} ELSE EffectiveShards(l1, e1)
           n2 == IF EffectiveShards(l2, e2) = {} THEN {256} ELSE EffectiveShards(l2, e2)
           Shard(n) == /\ o.shard = shard_for_customer_region(o.region, o.key, n)
                       /\ o.shard = route_shard("Regional", o.key,
                                                plain(cluster_name(o.region)), Topology, n)
<1>6. ASSUME o.kind \in {"region", "shard"}
      PROVE  /\ ~EffectiveList(l1, e1)
             /\ IF EffectiveRegion(l1, e1) # {} THEN o.region \in EffectiveRegion(l1, e1)
                ELSE NearestToPlace(o.region, l1, e1)
             /\ o.kind = "shard" <=> EffectiveKey(l1, e1) # {}
  <2>1. /\ ~EffectiveList(l2, e2)
        /\ IF EffectiveRegion(l2, e2) # {} THEN o.region \in EffectiveRegion(l2, e2)
           ELSE NearestToPlace(o.region, l2, e2)
        /\ o.kind = "shard" <=> EffectiveKey(l2, e2) # {}
    BY <1>6, Zenon DEF IsAnswer
  <2> QED
    BY <1>3, <1>4, <1>5, <2>1, Zenon
<1>7. ASSUME o.kind = "shard"
      PROVE  o.key \in EffectiveKey(l1, e1) /\ \E n \in n1 : Shard(n)
  <2>1. o.key \in EffectiveKey(l2, e2) /\ \E n \in n2 : Shard(n)
    BY <1>7, Zenon DEF IsAnswer
  <2>2. n1 = n2
    BY <1>3
  <2> HIDE DEF n1, n2, Shard
  <2> QED
    BY <1>3, <2>1, <2>2, Zenon
<1>8. o = Listing => EffectiveList(l1, e1)
  BY <1>4, Zenon DEF IsAnswer
<1> QED
  BY <1>6, <1>7, <1>8, Zenon DEF IsAnswer

\* What the wrapper adds to the tool's invariant: the tool starts in the environment the
\* wrapper was started in, with the collected flags exported over it.
WrapperInv ==
  /\ ToolInv
  /\ inherited \in Environment /\ flags \in Line
  /\ pc \in {"collect", "find", "parse"} => env = inherited
  /\ pc \in {"find", "parse"} => rest # <<>>
  /\ pc \notin {"collect", "find", "parse"} =>
       \/ IsSilent(outcome) /\ pc = "done"
       \/ env = exported(flags, inherited) /\ \A i \in 1 .. Len(flags) : known(flags[i])

\* Without flags the environment stays what it is.
LEMMA ExportNothing ==
  ASSUME NEW e \in Environment
  PROVE  exported(<<>>, e) = e
<1>1. \A v \in EnvVar : exported(<<>>, e)[v] = e[v]
  BY DEF exported
<1>2. exported(<<>>, e) = [v \in EnvVar |-> exported(<<>>, e)[v]] /\ e = [v \in EnvVar |-> e[v]]
  BY DEF exported, Environment
<1> QED
  BY <1>1, <1>2

\* Exporting texts over an environment of texts gives one.
LEMMA ExportedType ==
  ASSUME NEW fs \in Line, NEW e \in Environment
  PROVE  exported(fs, e) \in Environment
<1> SUFFICES ASSUME NEW v \in EnvVar PROVE exported(fs, e)[v] \in Text \cup {Unset}
  BY DEF exported, Environment
<1> DEFINE given == {i \in 1 .. Len(fs) : EnvName(flag_of(fs[i])) = v}
<1>1. exported(fs, e)[v] = IF given = {} THEN e[v] ELSE value_of(fs[Max(given)])
  BY Zenon DEF exported
<1>2. Len(fs) \in Nat /\ \A i \in 1 .. Len(fs) : fs[i] \in Text
  BY DEF Line
<1>3. CASE given = {}
  BY <1>1, <1>3 DEF Environment
<1>4. CASE given # {}
  <2>1. given \in SUBSET (1 .. Len(fs))
    OBVIOUS
  <2> HIDE DEF given
  <2>2. Max(given) \in 1 .. Len(fs)
    BY <1>2, <1>4, <2>1, MaxOfSet
  <2>3. value_of(fs[Max(given)]) \in Text
    BY <1>2, <2>2, DirectIsText
  <2> QED
    BY <1>1, <1>4, <2>3
<1> QED
  BY <1>3, <1>4

\* Both ways to start.
LEMMA WrapperInitInv ==
  WrapperInit => WrapperInv
<1>1. CASE Init /\ inherited = env /\ flags = <<>>
  <2>1. ToolInv
    BY <1>1, ToolInit
  <2>2. env \in Environment /\ pc = "env"
    BY <1>1, <2>1 DEF ToolInv, Init
  <2>3. env = exported(flags, inherited)
    BY <1>1, <2>2, ExportNothing
  <2>4. flags \in Line /\ \A i \in 1 .. Len(flags) : known(flags[i])
    BY <1>1 DEF Line
  <2> QED
    BY <1>1, <2>1, <2>2, <2>3, <2>4 DEF WrapperInv
<1>2. CASE /\ env \in Environments
           /\ argv \in WrapperLines
           /\ pc = "collect"
           /\ rest = argv
           /\ outcome = None
           /\ inherited = env
           /\ flags = <<>>
  <2>1. argv \in Line
    BY <1>2, WrapperLinesAssumption, StringIsText DEF Line
  <2>2. env \in Environment
    <3>1. Arg \subseteq Text
      BY ArgAssumption, StringIsText
    <3>2. env \in [EnvVar -> Arg \cup {Unset}]
      BY <1>2, ArgAssumption
    <3> QED
      BY <3>1, <3>2 DEF Environment
  <2>3. IsAnswer(None, argv, env)
    BY SilentEnds, SilentAnswers
  <2>4. flags \in Line
    BY <1>2 DEF Line
  <2> QED
    BY <1>2, <2>1, <2>2, <2>3, <2>4 DEF WrapperInv, ToolInv
<1> QED
  BY <1>1, <1>2 DEF WrapperInit

\* The wrapper ends with a status: nothing was answered.
LEMMA ExitKeepsWrapperInv ==
  ASSUME WrapperInv, NEW status, End(Exit(status)), UNCHANGED wrapperVars
  PROVE  WrapperInv'
<1>1. IsSilent(Exit(status)) /\ IsAnswer(Exit(status), argv, env)
  BY SilentEnds, SilentAnswers
<1>2. ToolInv'
  BY <1>1, EndKeepsToolInv DEF WrapperInv
<1> QED
  BY <1>1, <1>2 DEF WrapperInv, End, wrapperVars

\* The separator is found at a position of the line, or not at all.
LEMMA Separated ==
  ASSUME NEW line, Len(line) \in Nat
  PROVE  SelectInSeq(line, LAMBDA w : w = Separator) \in 0 .. Len(line)
<1> DEFINE I == {i \in 1 .. Len(line) : line[i] = Separator}
<1>1. CASE I = {}
  BY <1>1 DEF SelectInSeq
<1>2. CASE I # {}
  <2>0. I \subseteq Nat
    OBVIOUS
  <2>1. PICK x \in I : \A y \in I : x <= y
    <3> HIDE DEF I
    <3> QED
      BY <1>2, <2>0, LeastNatural
  <2>2. Min(I) \in I
    BY <2>1 DEF Min
  <2> QED
    BY <1>2, <2>2 DEF SelectInSeq
<1> QED
  BY <1>1, <1>2

\* Splitting the line at the separator.
LEMMA CollectStep ==
  ASSUME WrapperInv, Collect
  PROVE  WrapperInv'
<1> DEFINE n == SelectInSeq(rest, LAMBDA w : w = Separator)
<1>1. CASE End(Exit(2)) /\ UNCHANGED wrapperVars
  BY <1>1, ExitKeepsWrapperInv
<1>2. CASE /\ n \notin {0, Len(rest)}
           /\ flags' = SubSeq(rest, 1, n - 1)
           /\ rest' = SubSeq(rest, n + 1, Len(rest))
           /\ pc' = "find"
           /\ UNCHANGED <<env, argv, settings, outcome, inherited>>
  <2>1. rest \in Seq(Text) /\ Len(rest) \in Nat /\ \A i \in 1 .. Len(rest) : rest[i] \in Text
    BY DEF WrapperInv, ToolInv, Line
  <2>2. n \in 1 .. Len(rest)
    <3>1. n \in 0 .. Len(rest)
      BY <2>1, Separated
    <3> HIDE DEF n
    <3> QED
      BY <1>2, <2>1, <3>1
  <2> HIDE DEF n
  <2>3. flags' \in Line
    <3>1. \A i \in 1 .. n - 1 : rest[i] \in Text
      BY <2>1, <2>2
    <3> QED
      BY <1>2, <2>2, <3>1, SubSeqProperties DEF Line
  <2>4. rest' \in Line
    <3>1. \A i \in n + 1 .. Len(rest) : rest[i] \in Text
      BY <2>1, <2>2
    <3> QED
      BY <1>2, <2>1, <2>2, <3>1, SubSeqProperties DEF Line
  <2>5. rest' # <<>>
    <3>1. Len(rest') = Len(rest) - n
      BY <1>2, <2>1, <2>2, SubSeqProperties
    <3>2. Len(rest) - n > 0
      BY <1>2, <2>1, <2>2
    <3>3. Len(<<>>) = 0
      OBVIOUS
    <3> QED
      BY <3>1, <3>2, <3>3
  <2> QED
    BY <1>2, <2>3, <2>4, <2>5 DEF WrapperInv, ToolInv, Collect
<1> QED
  BY <1>1, <1>2 DEF Collect

\* The tool starts in the exported environment.
LEMMA ExportAndExecStep ==
  ASSUME WrapperInv, ExportAndExec
  PROVE  WrapperInv'
<1>1. /\ pc = "parse" /\ pc' = "env" /\ env = inherited /\ inherited \in Environment
      /\ flags \in Line /\ \A i \in 1 .. Len(flags) : known(flags[i])
      /\ env' = exported(flags, env) /\ argv' = Tail(rest) /\ rest' = Tail(rest)
      /\ rest \in Line /\ rest # <<>> /\ outcome = None
      /\ outcome' = outcome /\ inherited' = inherited /\ flags' = flags
  BY DEF WrapperInv, ToolInv, ExportAndExec
<1>2. env' \in Environment
  BY <1>1, ExportedType
<1>3. Tail(rest) \in Line
  BY <1>1 DEF Line
<1>4. IsAnswer(None, argv', env')
  BY SilentEnds, SilentAnswers
<1> QED
  BY <1>1, <1>2, <1>3, <1>4 DEF WrapperInv, ToolInv

\* The tool goes from its environment to its arguments to its end, and leaves the
\* environment alone.
LEMMA ToolMoves ==
  ASSUME Next
  PROVE  pc \in {"env", "args"} /\ pc' \in {"args", "done"} /\ env' = env
<1>1. ASSUME NEW o, End(o) PROVE pc' \in {"args", "done"} /\ env' = env
  BY <1>1 DEF End
<1>2. ASSUME NEW f, NEW v, NEW k, Put(f, v, k), pc = "args"
      PROVE  pc' \in {"args", "done"} /\ env' = env
  BY <1>2 DEF Put
<1>3. CASE ReadEnvironment
  BY <1>3 DEF ReadEnvironment, End
<1>4. CASE Help \/ UnknownArgument \/ UndecodableArgument
  BY <1>1, <1>4 DEF Help, UnknownArgument, UndecodableArgument, At
<1>5. CASE Respond
  BY <1>1, <1>5, Zenon DEF Respond
<1>6. CASE List \/ KeyArg
  BY <1>2, <1>6 DEF List, KeyArg, At
<1>7. CASE Latitude
  BY <1>1, <1>2, <1>7 DEF Latitude, ValueFlag, At
<1>8. CASE Longitude
  BY <1>1, <1>2, <1>8 DEF Longitude, ValueFlag, At
<1>9. CASE RegionArg
  BY <1>1, <1>2, <1>9 DEF RegionArg, ValueFlag, At
<1>10. CASE Shards
  BY <1>1, <1>2, <1>10 DEF Shards, ValueFlag, At
<1> QED
  BY <1>3, <1>4, <1>5, <1>6, <1>7, <1>8, <1>9, <1>10 DEF Next

\* One step of the wrapper or of the tool behind it.
LEMMA WrapperStep ==
  ASSUME WrapperInv, [WrapperNext]_<<vars, wrapperVars>>
  PROVE  WrapperInv'
<1>1. CASE Next /\ UNCHANGED wrapperVars
  <2>1. ToolInv'
    BY <1>1, ToolStep DEF WrapperInv
  <2>2. /\ pc \in {"env", "args"} /\ pc' \notin {"collect", "find", "parse"} /\ env' = env
    BY <1>1, ToolMoves
  <2> QED
    BY <1>1, <2>1, <2>2 DEF WrapperInv, wrapperVars
<1>2. CASE FindParser
  <2>1. CASE pc' = "parse" /\ UNCHANGED <<env, argv, rest, settings, outcome>>
    BY <1>2, <2>1 DEF FindParser, WrapperInv, ToolInv, wrapperVars
  <2>2. CASE End(Exit(127))
    BY <1>2, <2>2, ExitKeepsWrapperInv DEF FindParser
  <2> QED
    BY <1>2, <2>1, <2>2 DEF FindParser
<1>3. CASE Refuse
  BY <1>3, ExitKeepsWrapperInv DEF Refuse
<1>4. CASE UNCHANGED <<vars, wrapperVars>>
  BY <1>4 DEF WrapperInv, ToolInv, vars, wrapperVars
<1> QED
  BY <1>1, <1>2, <1>3, <1>4, CollectStep, ExportAndExecStep DEF WrapperNext

\* At the end: an answer to the rest of the line under the exported environment is an
\* answer to the flags and the rest of the line under the inherited one.
LEMMA WrapperInvAnswers ==
  ASSUME WrapperInv
  PROVE  WrapperAnswersAsTool
<1> SUFFICES ASSUME pc = "done"
             PROVE  AnswersLine(direct_line(flags) \o argv, inherited)
  BY DEF WrapperAnswersAsTool
<1> DEFINE whole == direct_line(flags) \o argv
<1>1. IsAnswer(outcome, whole, inherited)
  <2>1. CASE IsSilent(outcome)
    BY <2>1, SilentAnswers
  <2>2. CASE /\ env = exported(flags, inherited)
             /\ \A i \in 1 .. Len(flags) : known(flags[i])
    <3>1. /\ flags \in Line /\ argv \in Line /\ inherited \in Environment
          /\ IsAnswer(outcome, argv, env)
      BY DEF WrapperInv, ToolInv
    <3>2. /\ direct_line(flags) \in Line
          /\ SameMeaning(whole, inherited, argv, exported(flags, inherited))
      BY <2>2, <3>1, FlagsOrVariables
    <3>3. whole \in Line
      BY <3>1, <3>2, ConcatProperties DEF Line
    <3> QED
      BY <2>2, <3>1, <3>2, <3>3, SameAnswer
  <2> QED
    BY <2>1, <2>2 DEF WrapperInv
<1> HIDE DEF whole
<1>2. AnswersLine(whole, inherited)
  BY <1>1, Zenon DEF IsAnswer, AnswersLine, Answered
<1> QED
  BY <1>2 DEF whole

-----------------------------------------------------------------------------
\* The theorems.

\* The tool started directly: what it prints is what its arguments and its environment,
\* read as a whole, ask for (the argument loop and the final match of main).
THEOREM SpecAnswerIsWhatWasAsked ==
  Spec => []AnswerIsWhatWasAsked
<1>1. ToolInv /\ [Next]_vars => ToolInv'
  BY ToolStep
<1>2. ToolInv => AnswerIsWhatWasAsked
  BY ToolInvAnswers
<1> QED
  BY <1>1, <1>2, ToolInit, PTL DEF Spec

\* The invariant of the wrapper and the tool behind it.
LEMMA SpecWrapperInv ==
  WrapperSpec => []WrapperInv
<1>1. WrapperInv /\ [WrapperNext]_<<vars, wrapperVars>> => WrapperInv'
  BY WrapperStep
<1> QED
  BY <1>1, WrapperInitInv, PTL DEF WrapperSpec

\* The same of the tool behind the wrapper and the environment the wrapper exports.
THEOREM WrapperSpecAnswerIsWhatWasAsked ==
  WrapperSpec => []AnswerIsWhatWasAsked
<1>1. WrapperInv => AnswerIsWhatWasAsked
  BY ToolInvAnswers DEF WrapperInv
<1> QED
  BY <1>1, SpecWrapperInv, PTL

\* The shard an operator is shown for a region is the shard route_shard computes over the
\* clusters in topology order: shard_for_customer_region and the request path agree.
THEOREM SpecOperatorSeesRequestShard ==
  WrapperSpec => []OperatorSeesRequestShard
<1>1. WrapperInv => OperatorSeesRequestShard
  BY ToolInvAnswers DEF WrapperInv
<1> QED
  BY <1>1, SpecWrapperInv, PTL

\* An answer does not depend on which flags go through scripts/with-flags2env.sh and which
\* to the tool, whatever was set in the environment before.
THEOREM SpecWrapperAnswersAsTool ==
  WrapperSpec => []WrapperAnswersAsTool
<1>1. WrapperInv => WrapperAnswersAsTool
  BY WrapperInvAnswers
<1> QED
  BY <1>1, SpecWrapperInv, PTL
=============================================================================
