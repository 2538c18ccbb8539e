--------------------------- MODULE RoutingProofs ---------------------------
(***************************************************************************)
(* Facts about the routing arithmetic, for every word width, hash, region  *)
(* list and shard count: no step of shard_for_region wraps, a region's     *)
(* shards lie in the cluster, two regions share none, and every shard is   *)
(* some region's.  And that the hash on halves computes what a u32 does, and   *)
(* that it never forgets a byte.                                           *)
(***************************************************************************)
EXTENDS Routing, SequenceLemmas

-----------------------------------------------------------------------------
\* Arithmetic the provers do not find inside larger goals.

LEMMA DivBound ==
  ASSUME NEW n \in Nat, NEW r \in Nat, r > 0
  PROVE  /\ n \div r \in Nat
         /\ r * (n \div r) <= n
         /\ n < r * (n \div r) + r
OBVIOUS

LEMMA DivPositive ==
  ASSUME NEW n \in Nat, NEW r \in Nat, r > 0, r <= n
  PROVE  n \div r > 0
OBVIOUS

LEMMA ModBound ==
  ASSUME NEW n \in Nat, NEW r \in Nat, r > 0
  PROVE  n % r \in 0 .. r - 1
OBVIOUS

LEMMA ModSmall ==
  ASSUME NEW n \in Nat, NEW r \in Nat, n < r
  PROVE  n % r = n
OBVIOUS

LEMMA ProductMonotone ==
  ASSUME NEW a \in Nat, NEW b \in Nat, NEW c \in Nat, a <= b
  PROVE  a * c \in Nat /\ a * c <= b * c
OBVIOUS

LEMMA ProductSuccessor ==
  ASSUME NEW a \in Int, NEW c \in Int
  PROVE  (a + 1) * c = a * c + c
OBVIOUS

-----------------------------------------------------------------------------
\* The halves of the frozen hash.  Fnv1a computes with pairs of 16-bit halves where
\* the code computes with a u32; these facts say that it is the same arithmetic.

HashWord == INSTANCE HashWords

LEMMA Divide ==
  ASSUME NEW k \in Nat, NEW n \in Nat, n > 0
  PROVE  /\ k \div n \in Nat /\ k % n \in Nat /\ k % n < n
         /\ k = (k \div n) * n + (k % n)
OBVIOUS

\* A remainder is known by its size.
LEMMA ModIs ==
  ASSUME NEW x \in Nat, NEW m \in Nat, m > 0, NEW q \in Nat, NEW r \in Nat, r < m, x = q * m + r
  PROVE  x % m = r
<1> DEFINE p == x \div m
           s == x % m
<1>1. s \in Nat /\ s < m /\ p \in Nat /\ x = p * m + s
  BY Divide
<1> HIDE DEF p, s
<1>2. (p - q) * m = r - s
  BY <1>1
<1>3. p - q = 0
  <2>1. CASE p - q >= 1
    <3>1. (p - q) * m >= m
      BY <1>1, <2>1
    <3> QED
      BY <1>1, <1>2, <3>1
  <2>2. CASE p - q <= -1
    <3>1. (p - q) * m <= -m
      BY <1>1, <2>2
    <3> QED
      BY <1>1, <1>2, <3>1
  <2> QED
    BY <1>1, <2>1, <2>2
<1>4. r = s
  BY <1>1, <1>2, <1>3
<1> QED
  BY <1>4 DEF s

\* The arithmetic of the product, on what the divisions leave.
LEMMA ProductSplit ==
  ASSUME NEW u \in Nat, NEW v \in Nat, NEW a \in Nat, NEW b \in Nat, NEW c \in Nat, NEW d \in Nat,
         NEW p \in Nat, NEW s \in Nat,
         v = a * 256 + b, v * 403 = c * 65536 + d, u * 403 + c + b * 256 = p * 65536 + s
  PROVE  (u * 65536 + v) * 16777619 = (256 * u + a + p) * 4294967296 + (s * 65536 + d)
<1>1. (u * 65536 + v) * 16777619 = u * 1099538038784 + v * 16777216 + v * 403
  OBVIOUS
<1>2. u * 1099538038784 = (256 * u) * 4294967296 + (u * 403) * 65536
  OBVIOUS
<1>3. v * 16777216 = a * 4294967296 + (b * 256) * 65536
  OBVIOUS
<1>4. (u * 403) * 65536 + c * 65536 + (b * 256) * 65536 = p * 4294967296 + s * 65536
  OBVIOUS
<1> QED
  BY <1>1, <1>2, <1>3, <1>4

\* wrapping_mul_prime is hash.wrapping_mul(0x0100_0193) of fnv1a on every u32: the pair of
\* halves it answers is the word that the full product leaves modulo 2^32.
THEOREM ProductOfHalves ==
  ASSUME NEW u \in Nat, u < 65536, NEW v \in Nat, v < 65536
  PROVE  \E x \in Nat, y \in Nat :
           /\ x < 65536 /\ y < 65536
           /\ HashWord!wrapping_mul_prime(HashWord!word(u, v)) = HashWord!word(x, y)
           /\ x * 65536 + y = ((u * 65536 + v) * 16777619) % 4294967296
<1> DEFINE k == v * 403
           c == k \div HashWord!HalfSize
           d == k % HashWord!HalfSize
           a == v \div 256
           b == v % 256
           t == u * 403 + c + b * 256
           p == t \div HashWord!HalfSize
           s == t % HashWord!HalfSize
<1>0. HashWord!HalfSize = 65536
  BY DEF HashWord!HalfSize
<1>1. k \in Nat
  OBVIOUS
<1>2. a \in Nat /\ b \in Nat /\ v = a * 256 + b
  BY Divide
<1>3. c \in Nat /\ d \in Nat /\ d < 65536 /\ k = c * 65536 + d
  <2> HIDE DEF k
  <2> QED
    BY <1>0, <1>1, Divide
<1>4. t \in Nat
  <2> HIDE DEF b, c
  <2> QED
    BY <1>1, <1>2, <1>3
<1>5. p \in Nat /\ s \in Nat /\ s < 65536 /\ t = p * 65536 + s
  <2> HIDE DEF t
  <2> QED
    BY <1>0, <1>4, Divide
<1>6. HashWord!wrapping_mul_prime(HashWord!word(u, v)) = HashWord!word(s, d)
  <2>1. HashWord!word(u, v)[1] = u /\ HashWord!word(u, v)[2] = v
    BY DEF HashWord!word
  <2> HIDE DEF c
  <2>2. HashWord!wrapping_mul_prime(HashWord!word(u, v))
          = HashWord!word(
              (u * 403 + (v * 403) \div HashWord!HalfSize + (v % 256) * 256) % HashWord!HalfSize,
              (v * 403) % HashWord!HalfSize)
    BY <2>1, SMT DEF HashWord!wrapping_mul_prime
  <2> QED
    BY <2>2 DEF c
<1> HIDE DEF a, b, c, d, p, s
<1>7. (u * 65536 + v) * 16777619 = (256 * u + a + p) * 4294967296 + (s * 65536 + d)
  BY <1>1, <1>2, <1>3, <1>5, ProductSplit
<1>8. s * 65536 + d \in Nat /\ s * 65536 + d < 4294967296
  BY <1>3, <1>5
<1>9. (u * 65536 + v) * 16777619 \in Nat /\ 256 * u + a + p \in Nat
  BY <1>1, <1>2, <1>5
<1> DEFINE x == (u * 65536 + v) * 16777619
           q == 256 * u + a + p
           r == s * 65536 + d
<1>10. x \in Nat /\ q \in Nat /\ r \in Nat /\ r < 4294967296 /\ x = q * 4294967296 + r
  BY <1>7, <1>8, <1>9
<1> HIDE DEF x, q, r
<1>11. x % 4294967296 = r
  BY <1>10, ModIs
<1> QED
  BY <1>3, <1>5, <1>6, <1>11 DEF x, r

\* The arithmetic of the remainder, on what the divisions leave.
LEMMA RemainderSplit ==
  ASSUME NEW n \in Nat, NEW u \in Nat, NEW v \in Nat, NEW m \in Nat,
         NEW a \in Nat, NEW b \in Nat, NEW c \in Nat, NEW d \in Nat, NEW e \in Nat, NEW f \in Nat,
         NEW g \in Nat, NEW r \in Nat,
         u = a * n + b, m = c * n + d, v = e * n + f, b * d + f = g * n + r
  PROVE  u * m + v = (a * m + b * c + e + g) * n + r
<1> DEFINE P == a * m
           Q == b * c
           R == b * d
<1>1. P \in Nat /\ Q \in Nat /\ R \in Nat
  OBVIOUS
<1>2. u * m = P * n + b * m
  OBVIOUS
<1>3. b * m = Q * n + R
  OBVIOUS
<1>4. R + f = g * n + r
  OBVIOUS
<1> HIDE DEF P, Q, R
<1> DEFINE U == u * m
           B == b * m
           Pn == P * n
           Qn == Q * n
           En == e * n
           Gn == g * n
<1>5. U = Pn + B /\ B = Qn + R /\ R + f = Gn + r /\ v = En + f
  BY <1>2, <1>3, <1>4
<1>6. U \in Nat /\ B \in Nat /\ Pn \in Nat /\ Qn \in Nat /\ En \in Nat /\ Gn \in Nat
  BY <1>1
<1>7. (P + Q + e + g) * n = Pn + Qn + En + Gn
  BY <1>1
<1>8. (P + Q + e + g) * n \in Nat
  BY <1>1
<1> HIDE DEF U, B, Pn, Qn, En, Gn
<1>9. U + v = Pn + Qn + En + Gn + r
  BY <1>1, <1>5, <1>6
<1> QED
  BY <1>7, <1>9 DEF U, P, Q

\* rem is the hash % num_shards of shard_for on every u32, for any positive count.
THEOREM RemainderOfHalves ==
  ASSUME NEW u \in Nat, NEW v \in Nat, NEW n \in Nat, n > 0
  PROVE  HashWord!rem(HashWord!word(u, v), n) = (u * 65536 + v) % n
<1> DEFINE m == HashWord!HalfSize
           a == u \div n
           b == u % n
           c == m \div n
           d == m % n
           e == v \div n
           f == v % n
           x == b * d + f
           g == x \div n
           r == x % n
<1>1. m = 65536 /\ m \in Nat
  BY DEF HashWord!HalfSize
<1>2. a \in Nat /\ b \in Nat /\ u = a * n + b
  BY Divide
<1>3. e \in Nat /\ f \in Nat /\ v = e * n + f
  BY Divide
<1>4. c \in Nat /\ d \in Nat /\ m = c * n + d
  <2> HIDE DEF m
  <2> QED
    BY <1>1, Divide
<1>5. HashWord!rem(HashWord!word(u, v), n) = r
  <2>1. HashWord!word(u, v)[1] = u /\ HashWord!word(u, v)[2] = v
    BY DEF HashWord!word
  <2>2. HashWord!rem(HashWord!word(u, v), n) = ((u % n) * (HashWord!HalfSize % n) + (v % n)) % n
    BY <2>1, SMT DEF HashWord!rem
  <2> QED
    BY <2>2
<1> HIDE DEF a, b, c, d, e, f
<1>6. x \in Nat
  BY <1>2, <1>3, <1>4
<1>7. g \in Nat /\ r \in Nat /\ r < n /\ x = g * n + r
  <2> HIDE DEF x
  <2> QED
    BY <1>6, Divide
<1> HIDE DEF m, g, r
<1>8. u * m + v = (a * m + b * c + e + g) * n + r
  BY <1>1, <1>2, <1>3, <1>4, <1>7, RemainderSplit
<1>9. u * m + v \in Nat /\ a * m + b * c + e + g \in Nat
  BY <1>1, <1>2, <1>3, <1>4, <1>7
<1> DEFINE y == u * m + v
           q == a * m + b * c + e + g
<1>10. y \in Nat /\ q \in Nat /\ y = q * n + r
  BY <1>8, <1>9
<1> HIDE DEF y, q
<1>11. y % n = r
  BY <1>7, <1>10, ModIs
<1> QED
  BY <1>1, <1>5, <1>11 DEF y

-----------------------------------------------------------------------------
\* The hash forgets nothing: mixing a byte in is injective, in the hash and in the byte.
\* So two keys of one length that differ in a single byte never have one hash.

\* A word of 32 bits, as halves.
Half == {n \in Nat : n < 65536}
HashState == {HashWord!word(u, v) : u \in Half, v \in Half}
Byte == {n \in Nat : n < 256}

\* The number 899433627 undoes a multiplication by the prime modulo 2^32.
LEMMA PrimeInverse ==
  ASSUME NEW x \in Nat, x < 4294967296, NEW q \in Nat, NEW r \in Nat,
         x * 16777619 = q * 4294967296 + r
  PROVE  r * 899433627 = (x * 3513497 - q * 899433627) * 4294967296 + x
<1>1. r = x * 16777619 - q * 4294967296
  BY SMT
<1>2. r * 899433627 = x * 15090354709594113 - q * 3863038012887662592
  BY <1>1, SMT
<1> QED
  BY <1>2, SMT

\* Multiplication by the prime modulo 2^32 is injective.
LEMMA PrimeLosesNothing ==
  ASSUME NEW x \in Nat, x < 4294967296, NEW y \in Nat, y < 4294967296,
         (x * 16777619) % 4294967296 = (y * 16777619) % 4294967296
  PROVE  x = y
<1> DEFINE k == x * 16777619
           l == y * 16777619
           p == k \div 4294967296
           q == l \div 4294967296
           r == k % 4294967296
<1>1. p \in Nat /\ r \in Nat /\ k = p * 4294967296 + r
  BY Divide
<1>2. q \in Nat /\ l = q * 4294967296 + r
  BY Divide
<1> HIDE DEF p, q, r
<1>3. r * 899433627 = (x * 3513497 - p * 899433627) * 4294967296 + x
  BY <1>1, PrimeInverse
<1>4. r * 899433627 = (y * 3513497 - q * 899433627) * 4294967296 + y
  BY <1>1, <1>2, PrimeInverse
<1> DEFINE a == x * 3513497 - p * 899433627
           b == y * 3513497 - q * 899433627
<1>5. a \in Int /\ b \in Int
  BY <1>1, <1>2
<1> HIDE DEF a, b
<1>6. a * 4294967296 + x = b * 4294967296 + y
  BY <1>3, <1>4, SMT DEF a, b
<1> QED
  BY <1>5, <1>6, SMT

\* Binary digits, from the last.
LEMMA LastDigit ==
  ASSUME NEW a \in Nat
  PROVE  a \div 2 \in Nat /\ a = 2 * (a \div 2) + (a % 2) /\ a % 2 \in {0, 1}
OBVIOUS

\* The digits before the last are those of the half.
LEMMA NextDigits ==
  ASSUME NEW a \in Nat
  PROVE  /\ a \div 4 = (a \div 2) \div 2
         /\ a \div 8 = (a \div 4) \div 2
         /\ a \div 16 = (a \div 8) \div 2
         /\ a \div 32 = (a \div 16) \div 2
         /\ a \div 64 = (a \div 32) \div 2
         /\ a \div 128 = (a \div 64) \div 2
         /\ a \div 256 = (a \div 128) \div 2
<1>1. a \div 4 = (a \div 2) \div 2
  OBVIOUS
<1>2. a \div 8 = (a \div 4) \div 2
  OBVIOUS
<1>3. a \div 16 = (a \div 8) \div 2
  OBVIOUS
<1>4. a \div 32 = (a \div 16) \div 2
  OBVIOUS
<1>5. a \div 64 = (a \div 32) \div 2
  OBVIOUS
<1>6. a \div 128 = (a \div 64) \div 2
  OBVIOUS
<1>7. a \div 256 = (a \div 128) \div 2
  OBVIOUS
<1> QED
  BY <1>1, <1>2, <1>3, <1>4, <1>5, <1>6, <1>7

\* What turns a digit over is the same for both.
LEMMA SameParity ==
  ASSUME NEW m \in Nat, NEW n \in Nat, NEW k \in Nat, (m + k) % 2 = (n + k) % 2
  PROVE  m % 2 = n % 2
BY SMTT(60)

\* The last eight digits of a number are its remainder by 256.
LEMMA DigitsOf ==
  ASSUME NEW a \in Nat
  PROVE  a % 256 = (a % 2) + 2 * ((a \div 2) % 2) + 4 * ((a \div 4) % 2)
             + 8 * ((a \div 8) % 2) + 16 * ((a \div 16) % 2) + 32 * ((a \div 32) % 2)
             + 64 * ((a \div 64) % 2) + 128 * ((a \div 128) % 2)
<1>1. /\ a \div 2 \in Nat /\ a = 2 * (a \div 2) + (a % 2)
      /\ a \div 4 \in Nat /\ a \div 2 = 2 * (a \div 4) + ((a \div 2) % 2)
  BY LastDigit, NextDigits
<1>2. a \div 8 \in Nat /\ a \div 4 = 2 * (a \div 8) + ((a \div 4) % 2)
  BY <1>1, LastDigit, NextDigits
<1>3. a \div 16 \in Nat /\ a \div 8 = 2 * (a \div 16) + ((a \div 8) % 2)
  BY <1>2, LastDigit, NextDigits
<1>4. a \div 32 \in Nat /\ a \div 16 = 2 * (a \div 32) + ((a \div 16) % 2)
  BY <1>3, LastDigit, NextDigits
<1>5. a \div 64 \in Nat /\ a \div 32 = 2 * (a \div 64) + ((a \div 32) % 2)
  BY <1>4, LastDigit, NextDigits
<1>6. a \div 128 \in Nat /\ a \div 64 = 2 * (a \div 128) + ((a \div 64) % 2)
  BY <1>5, LastDigit, NextDigits
<1>7. a \div 256 \in Nat /\ a \div 128 = 2 * (a \div 256) + ((a \div 128) % 2)
  BY <1>6, LastDigit, NextDigits
<1>8. a = (a \div 256) * 256 + (a % 2) + 2 * ((a \div 2) % 2) + 4 * ((a \div 4) % 2)
          + 8 * ((a \div 8) % 2) + 16 * ((a \div 16) % 2) + 32 * ((a \div 32) % 2)
          + 64 * ((a \div 64) % 2) + 128 * ((a \div 128) % 2)
  BY <1>1, <1>2, <1>3, <1>4, <1>5, <1>6, <1>7
<1>9. a = (a \div 256) * 256 + (a % 256)
  BY Divide
<1> QED
  BY <1>7, <1>8, <1>9

\* From one exclusive or with one byte only one byte leads back.
LEMMA XorDigits ==
  ASSUME NEW a \in Nat, NEW c \in Nat, NEW b \in Nat,
         HashWord!xor(a, b) = HashWord!xor(c, b)
  PROVE  a % 256 = c % 256
<1> DEFINE s(k) == ((a \div k) + (b \div k)) % 2
           t(k) == ((c \div k) + (b \div k)) % 2
           W == {1, 2, 4, 8, 16, 32, 64, 128}
<1>1. \A k \in W : a \div k \in Nat /\ b \div k \in Nat /\ c \div k \in Nat
  OBVIOUS
<1>2. \A k \in W : s(k) \in {0, 1} /\ t(k) \in {0, 1}
  BY <1>1
<1>3. \A k \in W : s(k) = t(k) => (a \div k) % 2 = (c \div k) % 2
  BY <1>1, SameParity
<1>4. HashWord!xor(a, b) = s(1) + 2 * s(2) + 4 * s(4) + 8 * s(8) + 16 * s(16) + 32 * s(32)
                             + 64 * s(64) + 128 * s(128)
  BY <1>2 DEF HashWord!xor, HashWord!xor_digit
<1>5. HashWord!xor(c, b) = t(1) + 2 * t(2) + 4 * t(4) + 8 * t(8) + 16 * t(16) + 32 * t(32)
                             + 64 * t(64) + 128 * t(128)
  BY <1>2 DEF HashWord!xor, HashWord!xor_digit
<1> HIDE DEF s, t
<1>6. \A k \in W : s(k) = t(k)
  <2>1. /\ s(1) \in {0, 1} /\ s(2) \in {0, 1} /\ s(4) \in {0, 1} /\ s(8) \in {0, 1}
        /\ s(16) \in {0, 1} /\ s(32) \in {0, 1} /\ s(64) \in {0, 1} /\ s(128) \in {0, 1}
    BY <1>2
  <2>2. /\ t(1) \in {0, 1} /\ t(2) \in {0, 1} /\ t(4) \in {0, 1} /\ t(8) \in {0, 1}
        /\ t(16) \in {0, 1} /\ t(32) \in {0, 1} /\ t(64) \in {0, 1} /\ t(128) \in {0, 1}
    BY <1>2
  <2>3. s(1) + 2 * s(2) + 4 * s(4) + 8 * s(8) + 16 * s(16) + 32 * s(32) + 64 * s(64)
          + 128 * s(128)
        = t(1) + 2 * t(2) + 4 * t(4) + 8 * t(8) + 16 * t(16) + 32 * t(32) + 64 * t(64)
          + 128 * t(128)
    BY <1>4, <1>5
  <2> HIDE DEF W
  <2>4. /\ s(1) = t(1) /\ s(2) = t(2) /\ s(4) = t(4) /\ s(8) = t(8)
        /\ s(16) = t(16) /\ s(32) = t(32) /\ s(64) = t(64) /\ s(128) = t(128)
    BY <2>1, <2>2, <2>3, SMTT(60)
  <2> QED
    BY <2>4 DEF W
<1>7. \A k \in W : (a \div k) % 2 = (c \div k) % 2
  BY <1>3, <1>6
<1>8. \A x \in Nat : x \div 1 = x
  OBVIOUS
<1>9. /\ a % 2 = c % 2 /\ (a \div 2) % 2 = (c \div 2) % 2 /\ (a \div 4) % 2 = (c \div 4) % 2
      /\ (a \div 8) % 2 = (c \div 8) % 2 /\ (a \div 16) % 2 = (c \div 16) % 2
      /\ (a \div 32) % 2 = (c \div 32) % 2 /\ (a \div 64) % 2 = (c \div 64) % 2
      /\ (a \div 128) % 2 = (c \div 128) % 2
  BY <1>7, <1>8
<1> QED
  BY <1>9, DigitsOf

\* An exclusive or is a byte, and its sides can change places.
LEMMA XorIsByte ==
  ASSUME NEW a \in Nat, NEW b \in Nat
  PROVE  HashWord!xor(a, b) \in Byte /\ HashWord!xor(a, b) = HashWord!xor(b, a)
<1> DEFINE s(k) == ((a \div k) + (b \div k)) % 2
           W == {1, 2, 4, 8, 16, 32, 64, 128}
<1>1. \A k \in W : a \div k \in Nat /\ b \div k \in Nat
  OBVIOUS
<1>2. \A k \in W : s(k) \in {0, 1}
  BY <1>1
<1>3. HashWord!xor(a, b) = s(1) + 2 * s(2) + 4 * s(4) + 8 * s(8) + 16 * s(16) + 32 * s(32)
                             + 64 * s(64) + 128 * s(128)
  BY <1>2 DEF HashWord!xor, HashWord!xor_digit
<1>4. \A k \in W : (b \div k) + (a \div k) = (a \div k) + (b \div k)
  BY <1>1
<1>5. HashWord!xor(b, a) = HashWord!xor(a, b)
  BY <1>4 DEF HashWord!xor, HashWord!xor_digit
<1> HIDE DEF s
<1> QED
  BY <1>2, <1>3, <1>5, SMT DEF Byte

\* Mixing a byte in changes the last eight digits of the low half and nothing else.
LEMMA XorByteKeeps ==
  ASSUME NEW u \in Half, NEW v \in Half, NEW b \in Byte
  PROVE  LET lo == (v \div 256) * 256 + HashWord!xor(v, b)
         IN  /\ HashWord!xor_byte(HashWord!word(u, v), b) = HashWord!word(u, lo)
             /\ lo \in Half /\ lo \div 256 = v \div 256 /\ lo % 256 = HashWord!xor(v, b)
<1> DEFINE x == HashWord!xor(v, b)
           lo == (v \div 256) * 256 + x
<1>1. x \in Nat /\ x < 256 /\ v \in Nat /\ v < 65536
  BY XorIsByte DEF Byte, Half
<1>2. HashWord!xor_byte(HashWord!word(u, v), b) = HashWord!word(u, lo)
  BY DEF HashWord!xor_byte, HashWord!word
<1> HIDE DEF x
<1>3. lo \in Half /\ lo \div 256 = v \div 256 /\ lo % 256 = x
  BY <1>1, SMT DEF Half
<1> QED
  BY <1>2, <1>3 DEF x

\* The number a word stands for, and its product with the prime.
Joined(u, v) == u * 65536 + v
Times(n) == (n * 16777619) % 4294967296

\* ProductOfHalves once more, for words in hand.
LEMMA ProductIsTimes ==
  ASSUME NEW u \in Half, NEW v \in Half
  PROVE  \E x \in Half, y \in Half :
           /\ HashWord!wrapping_mul_prime(HashWord!word(u, v)) = HashWord!word(x, y)
           /\ Joined(x, y) = Times(Joined(u, v))
<1>1. u \in Nat /\ u < 65536 /\ v \in Nat /\ v < 65536
  BY DEF Half
<1>2. \E x \in Nat, y \in Nat :
        /\ x < 65536 /\ y < 65536
        /\ HashWord!wrapping_mul_prime(HashWord!word(u, v)) = HashWord!word(x, y)
        /\ x * 65536 + y = ((u * 65536 + v) * 16777619) % 4294967296
  BY <1>1, ProductOfHalves, SMT
<1> QED
  BY <1>2, SMT DEF Half, Times, Joined

\* PrimeLosesNothing, for words in hand.
LEMMA TimesLosesNothing ==
  ASSUME NEW u \in Half, NEW v \in Half, NEW s \in Half, NEW t \in Half,
         Times(Joined(u, v)) = Times(Joined(s, t))
  PROVE  u = s /\ v = t
<1> DEFINE m == Joined(u, v)
           n == Joined(s, t)
<1>1. m \in Nat /\ m < 4294967296 /\ n \in Nat /\ n < 4294967296
  BY SMT DEF Half, Joined
<1>2. Times(m) = Times(n)
  OBVIOUS
<1> HIDE DEF m, n
<1>3. (m * 16777619) % 4294967296 = (n * 16777619) % 4294967296
  BY <1>2, SMT DEF Times
<1>4. m = n
  BY <1>1, <1>3, PrimeLosesNothing, SMT
<1> QED
  BY <1>4, SMT DEF m, n, Half, Joined

\* wrapping_mul_prime is injective on words.
LEMMA MultiplyLosesNothing ==
  ASSUME NEW h \in HashState, NEW g \in HashState
  PROVE  /\ HashWord!wrapping_mul_prime(h) \in HashState
         /\ HashWord!wrapping_mul_prime(h) = HashWord!wrapping_mul_prime(g) => h = g
<1> DEFINE Halves(f, u, v, x, y) ==
             /\ f = HashWord!word(u, v) /\ HashWord!wrapping_mul_prime(f) = HashWord!word(x, y)
             /\ Joined(x, y) = Times(Joined(u, v))
<1>1. \A f \in HashState : \E u \in Half, v \in Half, x \in Half, y \in Half :
        Halves(f, u, v, x, y)
  <2> TAKE f \in HashState
  <2>1. PICK u \in Half, v \in Half : f = HashWord!word(u, v)
    BY DEF HashState
  <2> QED
    BY <2>1, ProductIsTimes
<1> HIDE DEF Halves
<1>2. PICK u \in Half, v \in Half, x \in Half, y \in Half : Halves(h, u, v, x, y)
  BY <1>1
<1>3. PICK s \in Half, t \in Half, z \in Half, w \in Half : Halves(g, s, t, z, w)
  BY <1>1
<1>4. /\ h = HashWord!word(u, v) /\ HashWord!wrapping_mul_prime(h) = HashWord!word(x, y)
      /\ g = HashWord!word(s, t) /\ HashWord!wrapping_mul_prime(g) = HashWord!word(z, w)
      /\ Joined(x, y) = Times(Joined(u, v)) /\ Joined(z, w) = Times(Joined(s, t))
  BY <1>2, <1>3 DEF Halves
<1>5. HashWord!wrapping_mul_prime(h) \in HashState
  BY <1>4 DEF HashState
<1>6. ASSUME HashWord!wrapping_mul_prime(h) = HashWord!wrapping_mul_prime(g)
      PROVE  h = g
  <2>1. x = z /\ y = w
    BY <1>4, <1>6 DEF HashWord!word
  <2>2. Times(Joined(u, v)) = Times(Joined(s, t))
    BY <1>4, <2>1
  <2> QED
    BY <1>4, <2>2, TimesLosesNothing
<1> QED
  BY <1>5, <1>6

\* One turn of the loop of fnv1a loses nothing: from two hashes the same byte leads to two
\* hashes, and from one hash two bytes lead to two.
THEOREM AbsorbLosesNothing ==
  ASSUME NEW h \in HashState, NEW g \in HashState, NEW b \in Byte, NEW c \in Byte
  PROVE  /\ HashWord!absorb(h, b) \in HashState
         /\ HashWord!absorb(h, b) = HashWord!absorb(g, b) => h = g
         /\ HashWord!absorb(h, b) = HashWord!absorb(h, c) => b = c
<1>1. PICK u \in Half, v \in Half : h = HashWord!word(u, v)
  BY DEF HashState
<1>2. PICK s \in Half, t \in Half : g = HashWord!word(s, t)
  BY DEF HashState
<1> DEFINE hb == (v \div 256) * 256 + HashWord!xor(v, b)
           hc == (v \div 256) * 256 + HashWord!xor(v, c)
           gb == (t \div 256) * 256 + HashWord!xor(t, b)
<1>3. /\ HashWord!xor_byte(h, b) = HashWord!word(u, hb)
      /\ hb \in Half /\ hb \div 256 = v \div 256 /\ hb % 256 = HashWord!xor(v, b)
  BY <1>1, XorByteKeeps
<1>4. /\ HashWord!xor_byte(h, c) = HashWord!word(u, hc)
      /\ hc \in Half /\ hc \div 256 = v \div 256 /\ hc % 256 = HashWord!xor(v, c)
  BY <1>1, XorByteKeeps
<1>5. /\ HashWord!xor_byte(g, b) = HashWord!word(s, gb)
      /\ gb \in Half /\ gb \div 256 = t \div 256 /\ gb % 256 = HashWord!xor(t, b)
  BY <1>2, XorByteKeeps
<1> HIDE DEF hb, hc, gb
<1>6. /\ HashWord!word(u, hb) \in HashState /\ HashWord!word(u, hc) \in HashState
      /\ HashWord!word(s, gb) \in HashState
  BY <1>3, <1>4, <1>5 DEF HashState
<1>7. HashWord!absorb(h, b) \in HashState
  BY <1>3, <1>6, MultiplyLosesNothing DEF HashWord!absorb
<1>8. ASSUME HashWord!absorb(h, b) = HashWord!absorb(g, b) PROVE h = g
  <2>1. HashWord!word(u, hb) = HashWord!word(s, gb)
    BY <1>3, <1>5, <1>6, <1>8, MultiplyLosesNothing DEF HashWord!absorb
  <2>2. u = s /\ hb = gb
    BY <2>1 DEF HashWord!word
  <2>3. v \div 256 = t \div 256 /\ HashWord!xor(v, b) = HashWord!xor(t, b)
    BY <1>3, <1>5, <2>2
  <2>4. v \in Nat /\ t \in Nat /\ b \in Nat
    BY DEF Byte, Half
  <2>5. v % 256 = t % 256
    BY <2>3, <2>4, XorDigits
  <2>6. v = t
    BY <2>3, <2>4, <2>5, Divide
  <2> QED
    BY <1>1, <1>2, <2>2, <2>6
<1>9. ASSUME HashWord!absorb(h, b) = HashWord!absorb(h, c) PROVE b = c
  <2>1. HashWord!word(u, hb) = HashWord!word(u, hc)
    BY <1>3, <1>4, <1>6, <1>9, MultiplyLosesNothing DEF HashWord!absorb
  <2>2. HashWord!xor(v, b) = HashWord!xor(v, c)
    BY <1>3, <1>4, <2>1 DEF HashWord!word
  <2>3. v \in Nat /\ b \in Nat /\ c \in Nat /\ b < 256 /\ c < 256
    BY DEF Byte, Half
  <2>4. HashWord!xor(b, v) = HashWord!xor(c, v)
    BY <2>2, <2>3, XorIsByte
  <2>5. b % 256 = c % 256
    BY <2>3, <2>4, XorDigits
  <2>6. b % 256 = b /\ c % 256 = c
    BY <2>3
  <2> QED
    BY <2>5, <2>6
<1> QED
  BY <1>7, <1>8, <1>9

-----------------------------------------------------------------------------
\* Words are exact.

LEMMA WordExact ==
  ASSUME NEW x \in Word
  PROVE  u32(x) = x
BY WordSizeAssumption, ModSmall DEF Word, u32

LEMMA HashIsWord ==
  ASSUME NEW k \in Key
  PROVE  fnv1a[k] \in Nat /\ fnv1a[k] < WordSize
BY HashAssumption, WordSizeAssumption DEF Word

\* The index the band arithmetic uses: the caller's, or the last region's.
LEMMA ClampedIndex ==
  ASSUME NEW ri \in Word, NEW rc \in Word, rc > 0
  PROVE  /\ u32(rc - 1) = rc - 1
         /\ clamped(ri, rc) = (IF ri < rc THEN ri ELSE rc - 1)
         /\ clamped(ri, rc) \in 0 .. rc - 1
<1>1. rc - 1 \in Word
  BY WordSizeAssumption DEF Word
<1>2. u32(rc - 1) = rc - 1
  BY <1>1, WordExact
<1> QED
  BY <1>2, WordSizeAssumption DEF clamped, Min2, Word

\* No product, difference or sum of shard_for_region wraps, and a band is never
\* empty: the modulus is at least 1.
LEMMA BandArithmetic ==
  ASSUME NEW ri \in Word, NEW rc \in Word, NEW n \in Word, rc > 0, rc <= n
  PROVE  /\ band_width(rc, n) \in Nat
         /\ band_width(rc, n) > 0
         /\ band_base(ri, rc, n) = clamped(ri, rc) * band_width(rc, n)
         /\ band_base(ri, rc, n) \in Nat
         /\ band_size(ri, rc, n) = (IF clamped(ri, rc) = rc - 1
                                    THEN n - band_base(ri, rc, n)
                                    ELSE band_width(rc, n))
         /\ band_size(ri, rc, n) \in Nat
         /\ band_size(ri, rc, n) > 0
         /\ band_base(ri, rc, n) + band_size(ri, rc, n) <= n
<1> DEFINE m == clamped(ri, rc)
           w == band_width(rc, n)
<1>0. rc \in Nat /\ n \in Nat /\ n < WordSize /\ WordSize \in Nat
  BY WordSizeAssumption DEF Word
<1>1. u32(rc - 1) = rc - 1 /\ m \in 0 .. rc - 1
  BY ClampedIndex
<1>2. w \in Nat /\ w > 0 /\ rc * w <= n
  BY <1>0, DivBound, DivPositive DEF band_width
<1>3. m * w \in Nat /\ m * w <= (rc - 1) * w
  <2>1. m \in Nat /\ rc - 1 \in Nat /\ m <= rc - 1
    BY <1>0, <1>1
  <2> QED
    BY <2>1, <1>2, ProductMonotone
<1>4. (rc - 1) * w + w = rc * w
  <2>1. (rc - 1 + 1) * w = (rc - 1) * w + w
    BY <1>0, <1>2, ProductSuccessor
  <2>2. rc - 1 + 1 = rc
    BY <1>0
  <2> QED
    BY <2>1, <2>2
<1>5. m * w + w <= n
  <2>1. (rc - 1) * w \in Int /\ rc * w \in Int
    BY <1>0, <1>2
  <2> QED
    BY <2>1, <1>0, <1>2, <1>3, <1>4
<1>6. band_base(ri, rc, n) = m * w
  <2>1. m * w \in Word
    BY <1>0, <1>2, <1>3, <1>5 DEF Word
  <2> QED
    BY <2>1, WordExact DEF band_base
<1>7. u32(n - m * w) = n - m * w /\ n - m * w \in Nat
  <2>1. n - m * w \in Word
    BY <1>0, <1>2, <1>3, <1>5 DEF Word
  <2> QED
    BY <2>1, WordExact, <1>0, <1>2, <1>3, <1>5
<1>8. band_size(ri, rc, n) = IF m = rc - 1 THEN n - m * w ELSE w
  BY <1>1, <1>6, <1>7 DEF band_size
<1> HIDE DEF m, w
<1>9. /\ band_size(ri, rc, n) \in Nat
      /\ band_size(ri, rc, n) > 0
      /\ m * w + band_size(ri, rc, n) <= n
  BY <1>0, <1>2, <1>3, <1>5, <1>7, <1>8
<1> QED
  BY <1>2, <1>3, <1>6, <1>8, <1>9 DEF m, w

\* No operation of the code wraps where its assertions hold.
LEMMA ShardForRegionExact ==
  ASSUME NEW ri \in Word, NEW rc \in Word, NEW n \in Word, rc > 0, rc <= n,
         NEW k \in Key
  PROVE  /\ fnv1a[k] % band_size(ri, rc, n) \in 0 .. band_size(ri, rc, n) - 1
         /\ shard_for_region(ri, rc, k, n)
              = band_base(ri, rc, n) + (fnv1a[k] % band_size(ri, rc, n))
<1> DEFINE b == band_base(ri, rc, n)
           z == band_size(ri, rc, n)
           h == fnv1a[k] % z
<1>0. n \in Nat /\ n < WordSize /\ WordSize \in Nat
  BY WordSizeAssumption DEF Word
<1>1. b \in Nat /\ z \in Nat /\ z > 0 /\ b + z <= n
  BY BandArithmetic
<1>2. h \in 0 .. z - 1
  BY <1>1, HashIsWord, ModBound
<1>3. u32(b + h) = b + h
  <2>1. b + h \in Word
    BY <1>0, <1>1, <1>2 DEF Word
  <2> QED
    BY <2>1, WordExact
<1> QED
  BY <1>2, <1>3 DEF shard_for_region

\* A regional key lands in the band of its region, and so in the cluster.
THEOREM ShardInBand ==
  ASSUME NEW ri \in Word, NEW rc \in Word, NEW n \in Word, rc > 0, rc <= n,
         NEW k \in Key
  PROVE  /\ shard_for_region(ri, rc, k, n) \in Band(ri, rc, n)
         /\ Band(ri, rc, n) \subseteq 0 .. n - 1
<1> DEFINE b == band_base(ri, rc, n)
           z == band_size(ri, rc, n)
           h == fnv1a[k] % z
<1>0. n \in Nat /\ n < WordSize /\ WordSize \in Nat
  BY WordSizeAssumption DEF Word
<1>1. b \in Nat /\ z \in Nat /\ z > 0 /\ b + z <= n
  BY BandArithmetic
<1>2. /\ h \in 0 .. z - 1
      /\ shard_for_region(ri, rc, k, n) = b + h
  BY ShardForRegionExact
<1> QED
  BY <1>0, <1>1, <1>2 DEF Band

\* Different regions have no shard in common: a regional key written in one
\* region is never stored where another region's copy of it lives.
THEOREM BandsDisjoint ==
  ASSUME NEW r1 \in Word, NEW r2 \in Word, NEW rc \in Word, NEW n \in Word,
         r1 < rc, r2 < rc, rc <= n, r1 # r2
  PROVE  Band(r1, rc, n) \cap Band(r2, rc, n) = {}
<1> DEFINE w == band_width(rc, n)
<1>0. r1 \in Nat /\ r2 \in Nat /\ rc \in Nat /\ rc > 0
  BY WordSizeAssumption DEF Word
<1>1. ASSUME NEW a \in Word, NEW b \in Word, a < b, b < rc
      PROVE  Band(a, rc, n) \cap Band(b, rc, n) = {}
  <2>0. a \in Nat /\ b \in Nat
    BY WordSizeAssumption DEF Word
  <2>1. /\ w \in Nat
        /\ band_base(a, rc, n) = clamped(a, rc) * w
        /\ band_base(b, rc, n) = clamped(b, rc) * w
        /\ band_size(a, rc, n) = IF clamped(a, rc) = rc - 1
                                 THEN n - band_base(a, rc, n) ELSE w
    BY <1>0, BandArithmetic
  <2>2. clamped(a, rc) = a /\ clamped(b, rc) = b
    BY <1>0, <1>1, <2>0, ClampedIndex
  <2>3. band_size(a, rc, n) = w /\ band_base(a, rc, n) = a * w /\ band_base(b, rc, n) = b * w
    BY <1>0, <1>1, <2>0, <2>1, <2>2
  <2>4. a * w + w <= b * w
    <3>1. (a + 1) * w <= b * w
      BY <1>1, <2>0, <2>1, ProductMonotone
    <3> QED
      BY <3>1, <2>0, <2>1, ProductSuccessor
  <2>5. a * w \in Int /\ b * w \in Int
    BY <2>0, <2>1
  <2> QED
    BY <2>1, <2>3, <2>4, <2>5 DEF Band
<1> QED
  BY <1>0, <1>1

\* The shards of a band, said without the code's arithmetic.
LEMMA BandIsOwned ==
  ASSUME NEW ri \in Word, NEW rc \in Word, NEW n \in Word, rc > 0, rc <= n,
         NEW s \in Int
  PROVE  s \in Band(ri, rc, n)
           <=> s \in 0 .. n - 1 /\ OwnedBy(s, clamped(ri, rc), rc, n)
<1> DEFINE m == clamped(ri, rc)
           w == band_width(rc, n)
<1>0. rc \in Nat /\ n \in Nat /\ m \in 0 .. rc - 1
  BY ClampedIndex, WordSizeAssumption DEF Word
<1>1. /\ w \in Nat
      /\ band_base(ri, rc, n) = m * w
      /\ m * w \in Nat
      /\ band_size(ri, rc, n) = IF m = rc - 1 THEN n - m * w ELSE w
      /\ band_size(ri, rc, n) \in Nat
      /\ m * w + band_size(ri, rc, n) <= n
  BY BandArithmetic
<1>2. (m + 1) * w = m * w + w
  BY <1>0, <1>1, ProductSuccessor
<1>3. OwnedBy(s, m, rc, n) <=> m * w <= s /\ (m < rc - 1 => s < m * w + w)
  BY <1>2 DEF OwnedBy, band_width
<1>4. Band(ri, rc, n) = m * w .. m * w + band_size(ri, rc, n) - 1
  BY <1>1 DEF Band
<1> HIDE DEF m, w
<1> QED
  <2>1. CASE m = rc - 1
    BY <1>0, <1>1, <1>3, <1>4, <2>1 DEF m
  <2>2. CASE m # rc - 1
    BY <1>0, <1>1, <1>3, <1>4, <2>2 DEF m
  <2> QED
    BY <2>1, <2>2

\* Every shard is some region's: the floor division strands no shard.
THEOREM BandsTile ==
  ASSUME NEW rc \in Word, NEW n \in Word, rc > 0, rc <= n, NEW s \in 0 .. n - 1
  PROVE  \E ri \in Word : ri < rc /\ s \in Band(ri, rc, n)
<1> DEFINE w == n \div rc
           q == s \div w
           r == IF q < rc THEN q ELSE rc - 1
<1>0. rc \in Nat /\ n \in Nat /\ s \in Nat /\ s < n /\ rc < WordSize /\ WordSize \in Nat
  BY WordSizeAssumption DEF Word
<1>1. w \in Nat /\ w > 0 /\ rc * w <= n
  BY <1>0, DivBound, DivPositive
<1>2. q \in Nat /\ w * q <= s /\ s < w * q + w
  BY <1>0, <1>1, DivBound
<1>3. r \in Word /\ r \in Nat /\ r < rc
  BY <1>0, <1>2 DEF Word
<1>4. clamped(r, rc) = r
  BY <1>0, <1>3, ClampedIndex
<1>5. OwnedBy(s, r, rc, n)
  <2>1. r * w <= s
    <3>1. r <= q
      BY <1>0, <1>2
    <3>2. r * w <= q * w
      BY <3>1, <1>1, <1>2, <1>3, ProductMonotone
    <3> QED
      BY <3>2, <1>0, <1>1, <1>2, <1>3
  <2>2. ASSUME r < rc - 1 PROVE s < (r + 1) * w
    <3>1. r = q
      BY <2>2, <1>0, <1>2
    <3>2. (q + 1) * w = q * w + w
      BY <1>1, <1>2, ProductSuccessor
    <3> QED
      BY <3>1, <3>2, <1>0, <1>1, <1>2
  <2> QED
    BY <2>1, <2>2 DEF OwnedBy
<1> QED
  BY <1>0, <1>3, <1>4, <1>5, BandIsOwned

-----------------------------------------------------------------------------
\* Region names.

\* A recognised region resolves to the first list entry of that name.
LEMMA RegionIndexIsFirst ==
  ASSUME NEW region, NEW rs, IsRegionList(rs), region_known(region, rs)
  PROVE  /\ region_index(region, rs) \in Word
         /\ region_index(region, rs) < Len(rs)
         /\ region_index(region, rs) + 1 \in region_matches(region, rs)
         /\ \A j \in region_matches(region, rs) : region_index(region, rs) + 1 <= j
<1> DEFINE M == region_matches(region, rs)
           c == CHOOSE i \in M : \A j \in M : i <= j
<1>0. rs \in Seq(RegionString(STRING)) /\ Len(rs) \in Word /\ Len(rs) \in Nat
  BY DEF IsRegionList
<1>1. M \subseteq 1 .. Len(rs) /\ M # {}
  BY <1>0 DEF region_matches, region_known
<1>2. \E i \in M : \A j \in M : i <= j
  BY <1>1, LeastNatural
<1>3. c \in M /\ \A j \in M : c <= j
  BY <1>2
<1>4. c \in 1 .. Len(rs)
  BY <1>1, <1>3
<1>5. c - 1 \in Word
  BY <1>0, <1>4, WordSizeAssumption DEF Word
<1>6. region_index(region, rs) = c - 1
  BY <1>5, WordExact DEF region_index
<1> HIDE DEF c
<1>7. c - 1 < Len(rs) /\ c - 1 + 1 = c
  BY <1>0, <1>4
<1> QED
  BY <1>3, <1>5, <1>6, <1>7

LEMMA ResolvedIndex ==
  ASSUME NEW region, NEW rs, IsRegionList(rs), rs # <<>>
  PROVE  /\ region_index_or(region, rs, DEFAULT_REGION_INDEX) \in Word
         /\ region_index_or(region, rs, DEFAULT_REGION_INDEX) < Len(rs)
<1>1. Len(rs) \in Nat /\ Len(rs) > 0
  BY DEF IsRegionList
<1>2. CASE region_known(region, rs)
  BY <1>2, RegionIndexIsFirst DEF region_index_or
<1>3. CASE ~region_known(region, rs)
  BY <1>1, <1>3, WordSizeAssumption DEF region_index_or, DEFAULT_REGION_INDEX, Word
<1> QED
  BY <1>2, <1>3

-----------------------------------------------------------------------------
\* The entry point.

\* "Routing is total": with at least one shard no region list, however long or
\* empty, and no region name reaches a panic.
THEOREM RouteShardTotal ==
  ASSUME NEW scope \in KeyScope, NEW rs, IsRegionList(rs), NEW n \in Word
  PROVE  route_shard_panics(scope, rs, n) <=> n = 0
<1>1. /\ Len(rs) \in Word
      /\ rs = <<>> <=> Len(rs) = 0
      /\ region_count_of(rs) = Len(rs)
  BY WordExact DEF IsRegionList, region_count_of
<1> QED
  BY <1>1, WordSizeAssumption
  DEF route_shard_panics, shard_for_panics, shard_for_region_panics,
      banding_impossible, Word

\* "A global key can never be region-split": whatever region names and lists two
\* participants use, they agree on the shard of a global key.
THEOREM GlobalIgnoresRegion ==
  ASSUME NEW k, NEW n, NEW r1, NEW r2, NEW rs1, NEW rs2
  PROVE  route_shard("Global", k, r1, rs1, n) = route_shard("Global", k, r2, rs2, n)
BY DEF route_shard

LEMMA ShardForInRange ==
  ASSUME NEW k \in Key, NEW n \in Word, n > 0
  PROVE  shard_for(k, n) \in 0 .. n - 1
BY HashIsWord, ModBound, WordSizeAssumption DEF shard_for, Word

\* Where banding is possible, a regional key goes to the band of its resolved region.
LEMMA RegionalRoute ==
  ASSUME NEW k \in Key, NEW r, NEW rs, IsRegionList(rs), NEW n \in Word,
         rs # <<>>, Len(rs) <= n
  PROVE  LET ri == region_index_or(r, rs, DEFAULT_REGION_INDEX)
             s  == route_shard("Regional", k, r, rs, n)
         IN  /\ s \in 0 .. n - 1
             /\ s \in Band(ri, Len(rs), n)
             /\ OwnedBy(s, ri, Len(rs), n)
<1> DEFINE ri == region_index_or(r, rs, DEFAULT_REGION_INDEX)
           rc == Len(rs)
           s  == route_shard("Regional", k, r, rs, n)
<1>1. rc \in Word /\ rc \in Nat /\ rc > 0
  BY DEF IsRegionList
<1>2. ri \in Word /\ ri < rc
  BY ResolvedIndex
<1>3. s = shard_for_region(ri, rc, k, n)
  <2>1. region_count_of(rs) = rc
    BY <1>1, WordExact DEF region_count_of
  <2>2. ~banding_impossible(rs, n)
    BY <2>1, <1>1, WordSizeAssumption DEF banding_impossible, Word
  <2> QED
    BY <2>1, <2>2 DEF route_shard
<1> HIDE DEF s, ri, rc
<1>4. s \in Band(ri, rc, n) /\ s \in 0 .. n - 1
  BY <1>1, <1>2, <1>3, ShardInBand DEF rc
<1>5. clamped(ri, rc) = ri
  BY <1>1, <1>2, ClampedIndex
<1>6. OwnedBy(s, ri, rc, n)
  BY <1>1, <1>4, <1>5, <1>2, BandIsOwned DEF rc
<1> QED
  BY <1>4, <1>6 DEF s, ri, rc

\* Every shard the entry point answers with exists.
THEOREM RouteInRange ==
  ASSUME NEW scope \in KeyScope, NEW k \in Key, NEW r, NEW rs, IsRegionList(rs),
         NEW n \in Word, n > 0
  PROVE  route_shard(scope, k, r, rs, n) \in 0 .. n - 1
<1>1. CASE scope = "Global" \/ banding_impossible(rs, n)
  BY <1>1, ShardForInRange DEF route_shard
<1>2. CASE scope = "Regional" /\ ~banding_impossible(rs, n)
  <2>1. region_count_of(rs) = Len(rs)
    BY WordExact DEF IsRegionList, region_count_of
  <2>2. rs # <<>> /\ Len(rs) <= n
    BY <2>1, <1>2, WordSizeAssumption DEF IsRegionList, banding_impossible, Word
  <2> QED
    BY <2>2, <1>2, RegionalRoute
<1> QED
  BY <1>1, <1>2 DEF KeyScope
=============================================================================
