------------------------------- MODULE Shamir -------------------------------
(***************************************************************************)
(* Shamir sharing between a device and the host, for one of the 32 field   *)
(* elements of a secret (the elements are shared and recovered             *)
(* independently by the same code).  The device splits its secret with     *)
(* shamir_share or shamir_share_bytes of pqc_engine/shamir.c; shares reach *)
(* the holder in any order, are lost or come twice; the holder puts them   *)
(* together with shamir_reconstruct (C) or with reconstruct_secret of      *)
(* host_server/shamir_recovery.py.                                         *)
(***************************************************************************)
EXTENDS GF3329, Sequences

CONSTANTS
  N,          \* number of shares
  Thresholds, \* the thresholds the caller asks for
  Secrets,    \* the uint16_t values of the secret's element
  Coeffs,     \* what generate_random_coefficients draws
  ByteApis,   \* whether shares come from shamir_share_bytes
  MaxHeld     \* bound: shares that reach the holder

ASSUME ShamirAssumption ==
  /\ N \in 1..255 /\ Thresholds \subseteq 1..N
  /\ Secrets \subseteq UInt16 /\ Coeffs \subseteq Field
  /\ ByteApis \subseteq BOOLEAN /\ MaxHeld \in Nat

NONE == -1      \* no reconstruction was tried
REFUSED == -2   \* the reconstruction reports an error

VARIABLES
  byteApi,  \* the device calls shamir_share_bytes, as the firmware does
  secret,   \* the secret element, NONE before it is shared
  t,        \* the threshold it was shared with, 0 before
  share,    \* the i-th share's value, as a sequence; empty before
  coeffs,   \* history: the random coefficients it was made with
  held,     \* the numbers of the shares that arrived, in order
  device,   \* what shamir_reconstruct returned
  host      \* what reconstruct_secret returned

vars == <<byteApi, secret, t, share, coeffs, held, device, host>>

TypeOK ==
  /\ byteApi \in ByteApis
  /\ secret \in Secrets \cup {NONE}
  /\ t \in Thresholds \cup {0}
  /\ share \in Seq(UInt16) /\ Len(share) \in {0, N}
  /\ coeffs \in Seq(Coeffs)
  /\ held \in Seq(1..N) /\ Len(held) <= MaxHeld
  /\ device \in UInt16 \cup {NONE, REFUSED}
  /\ host \in Field \cup {NONE, REFUSED}

Init ==
  /\ byteApi \in ByteApis
  /\ secret = NONE /\ t = 0 /\ share = <<>> /\ coeffs = <<>> /\ held = <<>>
  /\ device = NONE /\ host = NONE

-----------------------------------------------------------------------------
(* gf3329_evaluate_polynomial: Horner's rule from the last coefficient; cs *)
(* holds coeffs[0 .. degree - 1] at positions 1 .. degree.                 *)
gf3329_evaluate_polynomial(cs, x) ==
  LET acc[i \in 0..Len(cs)] ==
        IF i = 0 THEN 0
        ELSE gf3329_add(gf3329_mul(acc[i - 1], x), cs[Len(cs) + 1 - i])
  IN  acc[Len(cs)]

(* Mutant: one random coefficient too few *)
Mut_ShareValue(s, cs, i) ==
  gf3329_evaluate_polynomial(SubSeq(<<s>> \o cs, 1, Len(cs)), i)

(* The value of share i of the secret s with random coefficients cs *)
ShareValue(s, cs, i) == gf3329_evaluate_polynomial(<<s>> \o cs, i)

(* shamir_share: the secret is the constant term as it is, unreduced, and  *)
(* share i is the value at i.  When the generator fails the coefficients   *)
(* are cleared and no share is made.                                       *)
Share(s, k, cs) ==
  /\ secret = NONE
  /\ secret' = s /\ t' = k /\ coeffs' = cs
  /\ share' = [i \in 1..N |-> ShareValue(s, cs, i)]
  /\ UNCHANGED <<byteApi, held, device, host>>

(* Mutant: the indices as the documents have them, 1, 2, 3... *)
Mut_ShareId(i) == i

(***************************************************************************)
(* The index a share travels under.  shamir_share writes 16-bit indices;   *)
(* shamir_share_bytes hands it the caller's array of bytes, in which index *)
(* i + 1 then fills bytes 2i and 2i + 1, low byte first: 1, 0, 2, 0, 3...  *)
(***************************************************************************)
ShareId(i) ==
  IF ~byteApi THEN i
  ELSE IF i % 2 = 1 THEN (i + 1) \div 2 ELSE 0

Deliver(i) ==
  /\ share # <<>> /\ Len(held) < MaxHeld
  /\ device = NONE /\ host = NONE
  /\ held' = Append(held, i)
  /\ UNCHANGED <<byteApi, secret, t, share, coeffs, device, host>>

(* The checks both reconstructions make: two shares or more, with indices  *)
(* that are not zero and all different.                                    *)
Acceptable ==
  /\ Len(held) >= 2
  /\ \A i \in 1..Len(held) : ShareId(held[i]) # 0
  /\ \A i, j \in 1..Len(held) : ShareId(held[i]) = ShareId(held[j]) => i = j

X(i) == ShareId(held[i])
Y(i) == share[held[i]]

(* Bit k of the exponent q - 2 of an inversion *)
ExpBit(k) == ((FIELD_MODULUS - 2) \div 2^k) % 2 = 1

(* gf3329_inv: square and multiply over the 12 bits of the exponent *)
gf3329_inv(a) ==
  LET pass[k \in 0..12] ==
        IF k = 0 THEN [result |-> 1, base |-> a]
        ELSE LET p == pass[k - 1]
             IN  [result |-> IF ExpBit(k - 1) THEN gf3329_mul(p.result, p.base)
                                              ELSE p.result,
                  base |-> gf3329_mul(p.base, p.base)]
  IN  IF a = 0 THEN 0 ELSE pass[12].result

(* shamir_reconstruct: Lagrange interpolation at zero *)
Lagrange(i) ==
  LET part[j \in 0..Len(held)] ==
        IF j = 0 THEN [num |-> 1, den |-> 1]
        ELSE IF j = i THEN part[j - 1]
        ELSE LET p == part[j - 1]
             IN  [num |-> gf3329_mul(p.num, gf3329_sub(0, X(j))),
                  den |-> gf3329_mul(p.den, gf3329_sub(X(i), X(j)))]
      p == part[Len(held)]
  IN  gf3329_mul(p.num, gf3329_inv(p.den))

(* The terms are added in the order of the shares. *)
DeviceSum ==
  LET sum[i \in 0..Len(held)] ==
        IF i = 0 THEN 0
        ELSE LET term == gf3329_mul(Y(i), Lagrange(i))
             IN  IF i = 1 THEN term ELSE gf3329_add(sum[i - 1], term)
  IN  sum[Len(held)]

DeviceReconstruct ==
  /\ share # <<>> /\ device = NONE
  /\ device' = IF Acceptable THEN DeviceSum ELSE REFUSED
  /\ UNCHANGED <<byteApi, secret, t, share, coeffs, held, host>>

(* The same in Python, whose integers do not overflow *)
MulMod(a, b) == (a * b) % FIELD_MODULUS

(* mod_inv: pow(a, q - 2, q) *)
mod_inv(a) == inv(a)

(* Mutant: the sign of the numerator, as the other side of the merge has it *)
Mut_HostLagrange(i) ==
  LET part[j \in 0..Len(held)] ==
        IF j = 0 THEN [num |-> 1, den |-> 1]
        ELSE IF j = i THEN part[j - 1]
        ELSE LET p == part[j - 1]
             IN  [num |-> MulMod(p.num, X(j)),
                  den |-> MulMod(p.den, (X(i) - X(j)) % FIELD_MODULUS)]
      p == part[Len(held)]
  IN  MulMod(p.num, mod_inv(p.den))

HostLagrange(i) ==
  LET part[j \in 0..Len(held)] ==
        IF j = 0 THEN [num |-> 1, den |-> 1]
        ELSE IF j = i THEN part[j - 1]
        ELSE LET p == part[j - 1]
             IN  [num |-> MulMod(p.num, -X(j)),
                  den |-> MulMod(p.den, (X(i) - X(j)) % FIELD_MODULUS)]
      p == part[Len(held)]
  IN  MulMod(p.num, mod_inv(p.den))

(* Mutant: the running sum is reduced before a term is added, not after. *)
Mut_HostSum ==
  LET sum[i \in 0..Len(held)] ==
        IF i = 0 THEN 0
        ELSE (sum[i - 1] % FIELD_MODULUS)
               + MulMod(Y(i) % FIELD_MODULUS, HostLagrange(i))
  IN  sum[Len(held)]

(* reconstruct_secret_bytes reduces each share value before it calls       *)
(* reconstruct_secret.                                                     *)
HostSum ==
  LET sum[i \in 0..Len(held)] ==
        IF i = 0 THEN 0
        ELSE (sum[i - 1] + (Y(i) % FIELD_MODULUS) * HostLagrange(i))
               % FIELD_MODULUS
  IN  sum[Len(held)]

HostReconstruct ==
  /\ share # <<>> /\ host = NONE
  /\ host' = IF Acceptable THEN HostSum ELSE REFUSED
  /\ UNCHANGED <<byteApi, secret, t, share, coeffs, held, device>>

Next ==
  \/ \E s \in Secrets, k \in Thresholds :
       \E cs \in [1..(k - 1) -> Coeffs] : Share(s, k, cs)
  \/ \E i \in 1..N : Deliver(i)
  \/ DeviceReconstruct
  \/ HostReconstruct

Spec == Init /\ [][Next]_vars

-----------------------------------------------------------------------------
(***************************************************************************)
(* Properties                                                              *)
(***************************************************************************)
Distinct == \A i, j \in 1..Len(held) : held[i] = held[j] => i = j

(* The value at x of the polynomial with the coefficients c, in the field *)
PolynomialAt(c, x) ==
  LET p[i \in 0..Len(c)] ==
        IF i = 0 THEN 0
        ELSE (p[i - 1] * x + c[Len(c) + 1 - i]) % FIELD_MODULUS
  IN  p[Len(c)]

(* No 16-bit addition wraps in a share of s. *)
Narrow(s) == s <= Half - FIELD_MODULUS

(* Shares with 16-bit indices, as shamir_share makes them and              *)
(* test_shamir.c uses them: the host recovers the secret, as a field       *)
(* element, from any t or more different shares in any order.  The         *)
(* firmware does not call shamir_share itself: see FirmwareSharesShift.    *)
HostRecovers ==
  (/\ ~byteApi /\ host # NONE
   /\ Distinct /\ Len(held) >= t /\ Len(held) >= 2 /\ Narrow(secret))
    => host = secret % FIELD_MODULUS

(* Shares as the firmware makes them, with shamir_share_bytes: what the    *)
(* host puts together from t or more shares that it accepts is the value   *)
(* of the polynomial at -1 and not the secret, its value at 0, whichever   *)
(* shares they are: the same wrong answer every time, not a refusal.       *)
(* (Share 2x - 1 travels under the index x, the other half under zero.)    *)
FirmwareSharesShift ==
  (/\ byteApi /\ host \notin {NONE, REFUSED}
   /\ Len(held) >= t /\ Narrow(secret))
    => host = PolynomialAt(<<secret>> \o coeffs, -1)

(* The secrets that a share with the value y leaves possible: a field      *)
(* element hides any other, but gf3329_add takes the modulus off once, so  *)
(* that a share of a larger word is less than a modulus away from it.      *)
Window(y) == IF y < FIELD_MODULUS THEN 0..(y + FIELD_MODULUS)
                                  ELSE (y + 1)..(y + FIELD_MODULUS)

(* What one share of two tells of a 16-bit word, such as the words of HKDF *)
(* output that the firmware shares: the window it lies in, and nothing     *)
(* more.  A share under 3329 tells no field element from another; any      *)
(* other share tells the upper bits of the word.                           *)
OneShareTellsTheWindow ==
  (t = 2 /\ Len(held) = 1) =>
    \A s \in Secrets : Narrow(s) =>
      ((\E c \in Field : ShareValue(s, <<c>>, held[1]) = Y(1))
         <=> s \in Window(Y(1)))

(* test_shamir.c asserts that shamir_reconstruct returns the secret that   *)
(* was shared.                                                             *)
DeviceRecovers ==
  (device # NONE /\ Distinct /\ Len(held) >= t /\ Len(held) >= 2)
    => device = secret
=============================================================================
