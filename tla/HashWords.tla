------------------------------ MODULE HashWords ------------------------------
(***************************************************************************)
(* The 32-bit words of the frozen hash (fnv1a in src/lib.rs).  TLC's       *)
(* integers have 31 bits, so a word is a pair of 16-bit halves; the prime  *)
(* is 2^24 + 403, so a product is a shift and a small product.             *)
(***************************************************************************)
EXTENDS Integers

HalfSize == 65536

\* Words, high half first.
word(hi, lo) == <<hi, lo>>
OFFSET_BASIS == word(33052, 40389)     \* 0x811c_9dc5

\* wrapping_mul(0x0100_0193)
wrapping_mul_prime(h) ==
  LET lo == h[2] * 403
      hi == h[1] * 403 + (lo \div HalfSize) + (h[2] % 256) * 256
  IN  word(hi % HalfSize, lo % HalfSize)

\* The digit of weight w of an exclusive or.  (On digits and not by the operator of the
\* module Bitwise, which is recursive: what follows is also proved about.)
xor_digit(a, b, w) == w * ((a \div w + b \div w) % 2)

\* The last eight digits of a, those of the byte b turned over.
xor(a, b) ==
  xor_digit(a, b, 1) + xor_digit(a, b, 2) + xor_digit(a, b, 4) + xor_digit(a, b, 8)
    + xor_digit(a, b, 16) + xor_digit(a, b, 32) + xor_digit(a, b, 64) + xor_digit(a, b, 128)

xor_byte(h, b) == word(h[1], (h[2] \div 256) * 256 + xor(h[2], b))

\* Mutant: multiplied before the byte is mixed in (FNV-1).
absorb_fnv1(h, b) == xor_byte(wrapping_mul_prime(h), b)

\* One turn of the loop.
absorb(h, b) == wrapping_mul_prime(xor_byte(h, b))

\* hash % n, for a shard count of at most 2^15.
rem(h, n) == ((h[1] % n) * (HalfSize % n) + (h[2] % n)) % n
=============================================================================
