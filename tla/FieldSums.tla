----------------------------- MODULE FieldSums ------------------------------
(***************************************************************************)
(* The field of FIELD_MODULUS elements, sums over finite sets, and         *)
(* division: the arithmetic that the averages of all the servers and the   *)
(* recovery of shares have in common.                                      *)
(***************************************************************************)
EXTENDS Integers, FiniteSets, FiniteSetsExt

FIELD_MODULUS == 3329

Field == 0..(FIELD_MODULUS - 1)

(* The sum of f[x] for x in S *)
SumOver(f, S) == MapThenSumSet(LAMBDA x : f[x], S)

(* y to the power of FIELD_MODULUS - 2, by squaring, as Python's pow *)
Power(y) ==
  LET pow[e \in 0..FIELD_MODULUS] ==
        IF e = 0 THEN 1
        ELSE LET h == pow[e \div 2]
                 s == (h * h) % FIELD_MODULUS
             IN  IF e % 2 = 0 THEN s ELSE (s * y) % FIELD_MODULUS
  IN  pow[FIELD_MODULUS - 2]

(* pow(x, FIELD_MODULUS - 2, FIELD_MODULUS) *)
inv(x) == Power(x % FIELD_MODULUS)

(* That power is the inverse: a fact about 3328 numbers, which TLC         *)
(* evaluates one by one.                                                   *)
ASSUME PowerInverts ==
  \A y \in Field :
    /\ Power(y) \in Field
    /\ y # 0 => (y * Power(y)) % FIELD_MODULUS = 1
=============================================================================
