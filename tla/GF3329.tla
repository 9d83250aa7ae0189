------------------------------- MODULE GF3329 -------------------------------
(***************************************************************************)
(* The arithmetic of pqc_engine/shamir.c on uint16_t values.  Products are *)
(* uint32_t; a word of 32 bits is a pair of halves <<high, low>>, so that  *)
(* TLC's integers hold every intermediate value.                           *)
(***************************************************************************)
EXTENDS FieldSums

BARRETT_MULTIPLIER == 20159   \* BARRETT_SHIFT is 26
Half == 65536                 \* 2^16

UInt16 == 0..(Half - 1)

(* (uint32_t)a * b of two uint16_t *)
Product(a, b) ==
  LET p == a * (b \div 256)
      q == a * (b % 256)
      low == (p % 256) * 256 + (q % Half)
  IN  <<p \div 256 + q \div Half + low \div Half, low % Half>>

(* (w * BARRETT_MULTIPLIER) >> BARRETT_SHIFT, where the product is again a *)
(* uint32_t: the top six bits of its high half.                            *)
Quotient(w) ==
  ((w[1] * BARRETT_MULTIPLIER + (w[2] * BARRETT_MULTIPLIER) \div Half) % Half)
    \div 1024

(* barrett_reduce: the subtraction is truncated to 16 bits, and at most    *)
(* one more modulus is subtracted.                                         *)
barrett_reduce(w) ==
  LET r == (w[2] - Quotient(w) * FIELD_MODULUS) % Half
  IN  IF r >= FIELD_MODULUS THEN r - FIELD_MODULUS ELSE r

gf3329_add(a, b) ==
  LET r == (a + b) % Half
  IN  IF r >= FIELD_MODULUS THEN r - FIELD_MODULUS ELSE r

gf3329_sub(a, b) ==
  IF a >= b THEN a - b ELSE (a + FIELD_MODULUS - b) % Half

gf3329_mul(a, b) == barrett_reduce(Product(a, b))
=============================================================================
