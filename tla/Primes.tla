------------------------------- MODULE Primes -------------------------------
(***************************************************************************)
(* next_prime (gnulib-local/lib/hash.c), which gives the hash tables in    *)
(* memory and in MO files their sizes.                                     *)
(***************************************************************************)
EXTENDS Naturals

(* The numbers is_prime divides by: 3, and the odd numbers after those      *)
(* whose square is less than the candidate.  (3 is no prime for it.)        *)
is_prime(candidate) ==
  \A divn \in 3..(candidate + 2) :
    (divn % 2 = 1 /\ (divn = 3 \/ (divn - 2) * (divn - 2) < candidate))
      => candidate % divn # 0

Odd(seed) == IF seed % 2 = 1 THEN seed ELSE seed + 1

next_prime(seed) ==
  CHOOSE p \in Odd(seed)..(2 * seed + 3) :
    /\ p % 2 = 1 /\ is_prime(p)
    /\ \A q \in Odd(seed)..(p - 1) : q % 2 = 1 => ~is_prime(q)

(* Not in the code: what is_prime is to find out.                           *)
IsPrime(p) ==
  /\ p \in Nat /\ p > 1
  /\ \A a, b \in 1..p : a * b = p => a = 1 \/ b = 1
=============================================================================
