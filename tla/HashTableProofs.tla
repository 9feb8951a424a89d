------------------------- MODULE HashTableProofs ----------------------------
(***************************************************************************)
(* Proofs about HashTable: its inductive invariant, and that the table     *)
(* implements a dictionary; and about the hash table of an MO file, with   *)
(* the same argument.                                                      *)
(*                                                                         *)
(* The heart of the matter is the set P of Path(k, i, P): it is closed     *)
(* under the second hash function except that it leads to i.  A lookup     *)
(* that is on such a path therefore stays on it until it comes to i, with  *)
(* no induction over the number of its steps.                              *)
(***************************************************************************)
EXTENDS HashTable, MoFile, FiniteSetTheorems, WellFoundedInduction, TLAPS

(* Numbers.                                                                 *)

(* Induction is by a least counterexample.                                  *)
LEMMA LeastElement ==
  ASSUME NEW S \in SUBSET Nat, S # {}
  PROVE  \E i \in S : \A j \in S : i <= j
<1>. DEFINE R == {p \in Nat \X Nat : p[1] < p[2]}
<1>1. IsWellFoundedOn(R, Nat)
  <2>1. IsWellFoundedOn({p \in Nat \X Nat : p[1] < p[2]}, Nat)
    BY NatLessThanWellFounded, Zenon DEF OpToRel
  <2>. QED BY <2>1
<1>. HIDE DEF R
<1>2. PICK i \in S : \A j \in S : ~(<<j, i>> \in R)
  BY <1>1, WFMin
<1>3. \A j \in S : ~(j < i)
  BY <1>2 DEF R
<1>. QED BY <1>3

LEMMA Division ==
  ASSUME NEW a \in Nat, NEW b \in Nat, b > 0
  PROVE  \E q \in Nat, r \in 0..(b - 1) : a = q * b + r
<1>1. a % b \in 0..(b - 1) BY SMT
<1>2. a = ((a \div b) * b) + (a % b) /\ a \div b \in Nat BY SMT
<1>. QED BY <1>1, <1>2

LEMMA Multiple ==
  ASSUME NEW a \in Nat, NEW b \in Nat, b > 0
  PROVE  (a * b) % b = 0
  BY SMT

(* Euclid: a prime that divides a product of two positive numbers divides   *)
(* one of them.                                                             *)
LEMMA NoProduct ==
  ASSUME NEW p, IsPrime(p), NEW a \in 1..(p - 1), NEW b \in 1..(p - 1), NEW q \in Nat
  PROVE  a * b # q * p
<1>. USE DEF IsPrime
<1>. DEFINE S == { c \in 1..(p - 1) : \E n \in Nat : a * c = n * p }
<1>. SUFFICES ASSUME S # {} PROVE FALSE
  OBVIOUS
<1>1. S \in SUBSET Nat OBVIOUS
<1>2. PICK c \in S : \A d \in S : c <= d
  BY <1>1, LeastElement
<1>3. PICK n \in Nat : a * c = n * p
  BY <1>2
<1>4. c \in Nat /\ c > 0 /\ c < p
  BY <1>2
<1>5. PICK m \in Nat, r \in 0..(c - 1) : p = m * c + r
  BY <1>4, Division
<1>6. r # 0
  <2>1. SUFFICES ASSUME r = 0 PROVE FALSE
    OBVIOUS
  <2>2. m * c = p BY <1>4, <1>5, <2>1
  <2>3. m >= 1
    <3>1. m # 0 BY <1>4, <2>2
    <3>. QED BY <3>1
  <2>8. m <= m * c BY <1>4, <2>3
  <2>9. m = 1 \/ c = 1 BY <1>4, <2>2, <2>3, <2>8
  <2>4. c = 1 BY <1>4, <2>2, <2>9
  <2>5. a = n * p BY <1>3, <2>4
  <2>6. n # 0 /\ n >= 1 BY <2>5
  <2>7. n * p >= p BY <2>6
  <2>. QED BY <2>5, <2>7
<1>7. a * r = (a - m * n) * p
  <2>1. a * r = a * (p - m * c) BY <1>4, <1>5
  <2>2. a * (p - m * c) = a * p - m * (a * c) BY <1>4
  <2>3. m * (n * p) = (m * n) * p OBVIOUS
  <2>4. (a - m * n) * p = a * p - (m * n) * p OBVIOUS
  <2>. QED BY <1>3, <2>1, <2>2, <2>3, <2>4
<1>8. a - m * n \in Nat
  <2>1. a * r > 0 BY <1>6
  <2>2. a - m * n \in Int OBVIOUS
  <2>. QED BY <1>7, <2>1, <2>2
<1>9. r \in S BY <1>4, <1>6, <1>7, <1>8
<1>10. \A d \in S : c <= d BY <1>2
<1>. HIDE DEF S
<1>11. c <= r BY <1>9, <1>10
<1>. QED BY <1>4, <1>11

(* An odd number is prime if is_prime says so, although it divides by some  *)
(* numbers only.                                                            *)
LEMMA PrimeFound ==
  ASSUME NEW p \in Nat, p > 1, p % 2 = 1, is_prime(p)
  PROVE  IsPrime(p)
<1>1. ASSUME NEW a \in Nat, NEW b \in Nat, a * b = p, a # 1, b # 1, a <= b
      PROVE  FALSE
  <2>1. a % 2 = 1
    <3>1. SUFFICES ASSUME a % 2 = 0 PROVE FALSE OBVIOUS
    <3>2. PICK c \in Nat : a = 2 * c BY <3>1
    <3>3. p = 2 * (c * b) BY <1>1, <3>2
    <3>4. c * b \in Nat OBVIOUS
    <3>5. p % 2 = 0 BY <3>3, <3>4
    <3>. QED BY <3>5
  <2>2. a # 0
    BY <2>1
  <2>3. a >= 3 BY <1>1, <2>1, <2>2
  <2>4. a <= p
    <3>1. a * b >= a * 1 BY <1>1, <2>3
    <3>. QED BY <1>1, <3>1
  <2>5. (a - 2) * (a - 2) < p
    <3>1. a * a <= a * b BY <1>1
    <3>2. (a - 2) * (a - 2) < a * a BY <2>3
    <3>. QED BY <1>1, <3>1, <3>2
  <2>6. p % a # 0 BY <2>1, <2>3, <2>4, <2>5 DEF is_prime
  <2>7. (b * a) % a = 0 BY <2>3, Multiple
  <2>8. b * a = p BY <1>1
  <2>. QED BY <2>6, <2>7, <2>8
<1>2. ASSUME NEW a \in Nat, NEW b \in Nat, a * b = p
      PROVE  a = 1 \/ b = 1
  <2>1. b * a = p BY <1>2
  <2>2. a <= b \/ b <= a OBVIOUS
  <2>. QED BY <1>1, <1>2, <2>1, <2>2
<1>3. ASSUME NEW a \in 1..p, NEW b \in 1..p, a * b = p
      PROVE  a = 1 \/ b = 1
  BY <1>2, <1>3
<1>. QED BY <1>3 DEF IsPrime

Candidate(p) == p % 2 = 1 /\ is_prime(p)

LEMMA NextPrime ==
  ASSUME NEW n \in Nat, n > 1, \E p \in Odd(n)..(2 * n + 3) : p % 2 = 1 /\ is_prime(p)
  PROVE  /\ next_prime(n) \in Nat /\ next_prime(n) > 2 /\ next_prime(n) >= n
         /\ IsPrime(next_prime(n))
<1>. DEFINE S == { p \in Odd(n)..(2 * n + 3) : Candidate(p) }
<1>1. Odd(n) \in Nat /\ Odd(n) >= n /\ Odd(n) > 2 BY DEF Odd
<1>2. S \in SUBSET Nat /\ S # {} BY <1>1 DEF Candidate
<1>. HIDE DEF S
<1>3. PICK p \in S : \A q \in S : p <= q BY <1>2, LeastElement
<1>4. /\ p \in Odd(n)..(2 * n + 3) /\ Candidate(p)
      /\ \A q \in Odd(n)..(p - 1) : ~Candidate(q)
  BY <1>1, <1>3 DEF S
<1>5. next_prime(n) = CHOOSE x \in Odd(n)..(2 * n + 3) :
         Candidate(x) /\ \A q \in Odd(n)..(x - 1) : q % 2 = 1 => ~is_prime(q)
  BY DEF next_prime, Candidate
<1>6. next_prime(n) \in Odd(n)..(2 * n + 3) /\ Candidate(next_prime(n))
  BY <1>4, <1>5, Zenon DEF Candidate
<1>7. next_prime(n) \in Nat /\ next_prime(n) > 2 /\ next_prime(n) >= n
  BY <1>1, <1>6
<1>. QED BY <1>6, <1>7, PrimeFound DEF Candidate

(* next_prime keeps its promise where it finds a number.                    *)
LEMMA Sizes ==
  /\ next_prime(InitSize) \in Nat /\ next_prime(InitSize) > 2
  /\ IsPrime(next_prime(InitSize))
  /\ \A s \in 3..MaxSize :
       /\ next_prime(2 * s) \in Nat /\ next_prime(2 * s) > s
       /\ next_prime(2 * s) >= 2 * s /\ IsPrime(next_prime(2 * s))
<1>1. ASSUME NEW n \in {InitSize} \cup { 2 * s : s \in 3..MaxSize }
      PROVE  /\ next_prime(n) \in Nat /\ next_prime(n) > 2 /\ next_prime(n) >= n
             /\ IsPrime(next_prime(n))
  <2>1. n \in Nat /\ n > 1 BY SizeAssumption
  <2>2. \E p \in Odd(n)..(2 * n + 3) : p % 2 = 1 /\ is_prime(p) BY SizeAssumption
  <2>. QED BY <2>1, <2>2, NextPrime
<1>2. ASSUME NEW s \in 3..MaxSize
      PROVE  /\ next_prime(2 * s) \in Nat /\ next_prime(2 * s) > s
             /\ next_prime(2 * s) >= 2 * s /\ IsPrime(next_prime(2 * s))
  <2>1. s \in Nat /\ s >= 3 BY SizeAssumption
  <2>2. /\ next_prime(2 * s) \in Nat /\ next_prime(2 * s) >= 2 * s
        /\ IsPrime(next_prime(2 * s))
    BY <1>1
  <2>. QED BY <2>1, <2>2
<1>. QED BY <1>1, <1>2

----------------------------------------------------------------------------
LEMMA Modulo ==
  ASSUME NEW a \in Nat, NEW b \in Nat, b > 0
  PROVE  a % b \in 0..(b - 1)
  BY SMT

LEMMA InTable ==
  ASSUME NEW k \in HashKeys, hashval \in [HashKeys -> Nat], size \in Nat, size > 2
  PROVE  /\ Home(k) \in 1..size
         /\ \A i \in 1..size : Next_(k, i) \in 1..size
<1>1. hashval[k] \in Nat OBVIOUS
<1>2. hashval[k] % size \in 0..(size - 1) BY <1>1, Modulo
<1>3. size - 2 \in Nat /\ size - 2 > 0 OBVIOUS
<1>4. hashval[k] % (size - 2) \in 0..(size - 3)
  <2>1. \A b \in Nat : b > 0 => hashval[k] % b \in 0..(b - 1) BY <1>1, Modulo
  <2>2. hashval[k] % (size - 2) \in 0..((size - 2) - 1) BY <2>1, <1>3
  <2>. QED BY <2>2
<1>5. Step(k) \in 1..(size - 2) BY <1>4 DEF Step
<1>6. Home(k) \in 1..size BY <1>2 DEF Home
<1>7. \A i \in 1..size : Next_(k, i) \in 1..size
  <2>. SUFFICES ASSUME NEW i \in 1..size PROVE Next_(k, i) \in 1..size
    OBVIOUS
  <2>. DEFINE s == Step(k)
  <2>1. s \in 1..(size - 2) BY <1>5
  <2>. HIDE DEF s
  <2>2. (IF i <= s THEN (size + i) - s ELSE i - s) \in 1..size BY <2>1
  <2>. QED BY <2>2 DEF Next_, s
<1>. QED BY <1>6, <1>7

(* The key a lookup is for.                                                 *)
LEMMA SoughtKey ==
  ASSUME HashTypeOK, hpc \in {"probe", "move"}
  PROVE  Sought \in HashKeys
<1>1. CASE hpc = "probe"
  BY <1>1, HashAssumption DEF HashTypeOK, Sought
<1>2. CASE hpc = "move"
  <2>1. old[oldidx] \in HashEntries BY <1>2 DEF HashTypeOK
  <2>. QED BY <1>2, <2>1 DEF Sought, HashEntries
<1>. QED BY <1>1, <1>2

(* When lookup has come to a free entry, its key is not in the table.       *)
LEMMA NotThere ==
  ASSUME HashInv, hpc \in {"probe", "move"}, table[idx] = Free,
         NEW i \in 1..size, table[i] # Free
  PROVE  table[i].key # Sought
<1>. SUFFICES ASSUME table[i].key = Sought PROVE FALSE
  OBVIOUS
<1>1. PICK P \in SUBSET (1..size) : Path(Sought, i, P) /\ idx \in P \cup {i}
  BY DEF HashInv, OnPath
<1>2. CASE idx \in P
  BY <1>1, <1>2 DEF Path
<1>3. CASE idx = i
  BY <1>3
<1>. QED BY <1>1, <1>2, <1>3

(* A path depends on the table's entries only as far as they are used.      *)
LEMMA PathKept ==
  ASSUME NEW k, NEW i, NEW P, Path(k, i, P),
         hashval' = hashval, size' = size,
         \A x \in 1..size : table[x] # Free =>
            table'[x] # Free /\ table'[x].key = table[x].key
  PROVE  Path(k, i, P)'
<1>1. Home(k)' = Home(k) BY DEF Home
<1>2. \A x : Next_(k, x)' = Next_(k, x) BY DEF Next_, Step
<1>. QED BY <1>1, <1>2 DEF Path

LEMMA KeepReachable ==
  ASSUME Reachable, UNCHANGED <<hashval, tablevars>>
  PROVE  Reachable'
<1>. SUFFICES ASSUME NEW i \in 1..size, table[i] # Free
              PROVE  \E P \in SUBSET (1..size) : Path(table[i].key, i, P)'
  BY DEF Reachable, tablevars
<1>1. PICK P \in SUBSET (1..size) : Path(table[i].key, i, P)
  BY DEF Reachable
<1>2. Path(table[i].key, i, P)'
  BY <1>1 DEF Path, Home, Next_, Step, tablevars
<1>. QED BY <1>2

----------------------------------------------------------------------------
LEMMA InitInv == HashInit => HashInv
<1>. SUFFICES ASSUME HashInit PROVE HashInv
  OBVIOUS
<1>. USE HashAssumption, Sizes
<1>1. HashTypeOK
  <2>1. size \in Nat /\ size > 2 BY DEF HashInit
  <2>2. hashval \in [HashKeys -> Nat] BY DEF HashInit
  <2>3. table \in [1..size -> HashEntries \cup {Free}] BY DEF HashInit, Empty
  <2>4. old \in [1..oldsize -> HashEntries \cup {Free}] BY DEF HashInit, Empty
  <2>. QED BY <2>1, <2>2, <2>3, <2>4 DEF HashInit, HashTypeOK
<1>2. \A i \in 1..size : table[i] = Free BY DEF HashInit, Empty
<1>3. UniqueKeys
  <2>1. Moving = {} BY DEF HashInit, Moving
  <2>. QED BY <1>2, <2>1 DEF UniqueKeys
<1>4. Reachable BY <1>2 DEF Reachable
<1>5. OnPath BY DEF HashInit, OnPath
<1>. QED BY <1>1, <1>3, <1>4, <1>5 DEF HashInv

LEMMA BeginInv ==
  ASSUME HashInv, NEW c \in HashRequests, Begin(c)
  PROVE  HashInv'
<1>. USE DEF HashInv
<1>1. c.key \in HashKeys BY HashAssumption
<1>2. HashTypeOK'
  <2>1. Home(c.key) \in 1..size BY <1>1, InTable DEF HashTypeOK
  <2>. QED BY <2>1 DEF HashTypeOK, Begin, tablevars, resizevars
<1>3. UniqueKeys'
  BY DEF UniqueKeys, Moving, Begin, tablevars, resizevars
<1>4. Reachable' BY KeepReachable DEF Begin
<1>5. OnPath'
  <2>1. Sought' = c.key BY DEF Begin, Sought
  <2>2. idx' = Home(c.key) /\ probed' = {} BY DEF Begin
  <2>3. Home(c.key)' = Home(c.key) BY DEF Begin, Home, tablevars
  <2>4. Path(Sought, idx, probed)' BY <2>1, <2>2, <2>3 DEF Path
  <2>5. ASSUME NEW i \in 1..size, table[i] # Free, table[i].key = c.key
        PROVE  \E P \in SUBSET (1..size) : Path(c.key, i, P)' /\ idx' \in P \cup {i}
    <3>1. PICK P \in SUBSET (1..size) : Path(c.key, i, P) BY <2>5 DEF Reachable
    <3>2. Path(c.key, i, P)'
      BY <3>1 DEF Path, Home, Next_, Step, Begin, tablevars
    <3>3. idx' \in P \cup {i} BY <3>1, <2>2 DEF Path
    <3>. QED BY <3>2, <3>3
  <2>6. size' = size /\ table' = table BY DEF Begin, tablevars
  <2>. QED BY <2>1, <2>4, <2>5, <2>6 DEF OnPath
<1>. QED BY <1>2, <1>3, <1>4, <1>5

LEMMA ProbeInv ==
  ASSUME HashInv, Probe
  PROVE  HashInv'
<1>. USE DEF HashInv
<1>1. hpc \in {"probe", "move"} /\ table[idx] # Free /\ table[idx].key # Sought
  BY DEF Probe, Hit
<1>2. Sought \in HashKeys BY <1>1, SoughtKey
<1>3. idx \in 1..size BY <1>1 DEF HashTypeOK
<1>4. HashTypeOK'
  <2>1. Next_(Sought, idx) \in 1..size BY <1>2, <1>3, InTable DEF HashTypeOK
  <2>. QED BY <2>1 DEF HashTypeOK, Probe, tablevars, resizevars
<1>5. UniqueKeys'
  BY DEF UniqueKeys, Moving, Probe, tablevars, resizevars
<1>6. Reachable' BY KeepReachable DEF Probe
<1>7. OnPath'
  <2>. DEFINE k == Sought
  <2>1. k' = k BY DEF Probe, Sought, resizevars
  <2>2. idx' = Next_(k, idx) /\ probed' = probed \cup {idx} BY DEF Probe
  <2>3. hashval' = hashval /\ size' = size /\ table' = table BY DEF Probe, tablevars
  <2>4. Path(k, idx, probed) BY <1>1 DEF OnPath
  <2>. HIDE DEF k
  <2>5. Path(k, idx', probed \cup {idx})
    BY <1>1, <1>3, <2>2, <2>4 DEF Path, k
  <2>6. Home(k)' = Home(k) BY <2>1, <2>3 DEF Home
  <2>7. \A x : Next_(k, x)' = Next_(k, x) BY <2>1, <2>3 DEF Next_, Step
  <2>8. Path(k, idx, probed)' BY <2>1, <2>2, <2>3, <2>5, <2>6, <2>7 DEF Path
  <2>9. ASSUME NEW i \in 1..size, table[i] # Free, table[i].key = k
        PROVE  \E P \in SUBSET (1..size) : Path(k, i, P)' /\ idx' \in P \cup {i}
    <3>1. PICK P \in SUBSET (1..size) : Path(k, i, P) /\ idx \in P \cup {i}
      BY <1>1, <2>9 DEF OnPath, k
    <3>2. idx # i BY <1>1, <2>9 DEF k
    <3>3. idx' \in P \cup {i} BY <2>2, <3>1, <3>2 DEF Path
    <3>4. Path(k, i, P)' BY <2>1, <2>3, <2>6, <2>7, <3>1 DEF Path
    <3>. QED BY <3>3, <3>4
  <2>. QED BY <2>1, <2>3, <2>8, <2>9 DEF OnPath, k
<1>. QED BY <1>4, <1>5, <1>6, <1>7

(* The insertion into the free entry that a lookup has come to.             *)
LEMMA InsertKeeps ==
  ASSUME HashInv, hpc \in {"probe", "move"}, table[idx] = Free,
         NEW d \in HashData, InsertEntry(Sought, d, idx), hashval' = hashval
  PROVE  /\ size' = size
         /\ table' \in [1..size -> HashEntries \cup {Free}]
         /\ \A i, j \in 1..size : table'[i] # Free /\ table'[j] # Free
                                  /\ table'[i].key = table'[j].key => i = j
         /\ \A i \in 1..size : table'[i] # Free =>
              \/ table'[i] = [key |-> Sought, data |-> d]
              \/ table[i] # Free /\ table'[i] = table[i]
         /\ Reachable'
<1>. DEFINE k == Sought
            e == [key |-> k, data |-> d]
<1>1. k \in HashKeys BY SoughtKey DEF HashInv
<1>2. e \in HashEntries /\ e # Free /\ e.key = k
  BY <1>1, HashAssumption DEF HashEntries
<1>3. table \in [1..size -> HashEntries \cup {Free}] /\ idx \in 1..size
  BY DEF HashInv, HashTypeOK
<1>4. table' = [table EXCEPT ![idx] = e] /\ size' = size BY DEF InsertEntry
<1>5. \A i \in 1..size : table[i] # Free => table[i].key # k BY NotThere
<1>6. Path(k, idx, probed) BY DEF HashInv, OnPath
<1>7. UniqueKeys BY DEF HashInv
<1>. HIDE DEF k, e
<1>8. \A i \in 1..size : table'[i] = IF i = idx THEN e ELSE table[i] BY <1>3, <1>4
<1>9. \A i \in 1..size : table[i] # Free => table'[i] = table[i]
  BY <1>8
<1>10. \A i, j \in 1..size : table'[i] # Free /\ table'[j] # Free
                             /\ table'[i].key = table'[j].key => i = j
  BY <1>2, <1>5, <1>7, <1>8 DEF UniqueKeys
<1>11. ASSUME NEW x, NEW i, NEW P, Path(x, i, P)
       PROVE  Path(x, i, P)'
  BY <1>4, <1>9, <1>11, PathKept
<1>12. ASSUME NEW i \in 1..size, table'[i] # Free
       PROVE  \E P \in SUBSET (1..size) : Path(table[i].key, i, P)'
  <2>1. CASE i = idx
    <3>1. table'[i].key = k BY <2>1, <1>2, <1>8
    <3>3. probed \in SUBSET (1..size) BY <1>6 DEF Path
    <3>4. ASSUME NEW x, x = k, NEW i0, i0 = idx, NEW P, P = probed
          PROVE  Path(x, i0, P)'
      BY <3>4, <1>6, <1>11
    <3>5. \E P \in SUBSET (1..size) : \A x, i0 : x = k /\ i0 = idx => Path(x, i0, P)'
      BY <3>3, <3>4
    <3>. QED BY <2>1, <3>1, <3>5
  <2>2. CASE i # idx
    <3>1. table'[i] = table[i] /\ table[i] # Free BY <2>2, <1>8, <1>12
    <3>2. PICK P \in SUBSET (1..size) : Path(table[i].key, i, P)
      BY <3>1 DEF HashInv, Reachable
    <3>3. ASSUME NEW x, x = table[i].key PROVE Path(x, i, P)'
      BY <3>2, <3>3, <1>11
    <3>. QED BY <3>1, <3>3
  <2>. QED BY <2>1, <2>2
<1>13. Reachable' BY <1>4, <1>12 DEF Reachable
<1>. QED BY <1>2, <1>3, <1>4, <1>8, <1>10, <1>13 DEF k, e

LEMMA FoundInv ==
  ASSUME HashInv, Found
  PROVE  HashInv'
<1>. USE DEF HashInv
<1>1. hpc = "probe" /\ idx \in 1..size /\ table[idx] \in HashEntries
  BY HashAssumption DEF Found, Hit, HashTypeOK
<1>2. call \in HashRequests /\ call.data \in HashData
  BY <1>1, HashAssumption DEF HashTypeOK
<1>3. /\ table' \in [1..size -> HashEntries \cup {Free}]
      /\ \A i \in 1..size : /\ table'[i] # Free <=> table[i] # Free
                            /\ table[i] # Free => table'[i].key = table[i].key
  <2>1. CASE table' = table
    BY <2>1 DEF HashTypeOK
  <2>2. CASE table' = [table EXCEPT ![idx].data = call.data]
    <3>1. table[idx] = [key |-> table[idx].key, data |-> table[idx].data]
      BY <1>1 DEF HashEntries
    <3>2. [table[idx] EXCEPT !.data = call.data]
            = [key |-> table[idx].key, data |-> call.data]
      BY <3>1
    <3>3. table' = [table EXCEPT ![idx] = [key |-> table[idx].key, data |-> call.data]]
      BY <2>2, <3>2
    <3>4. [key |-> table[idx].key, data |-> call.data] \in HashEntries
      BY <1>1, <1>2 DEF HashEntries
    <3>. QED BY <1>1, <3>3, <3>4, HashAssumption DEF HashTypeOK
  <2>. QED BY <2>1, <2>2 DEF Found
<1>4. size' = size /\ hashval' = hashval /\ hpc' = "return" BY DEF Found
<1>5. HashTypeOK'
  <2>1. ret' \in HashData \cup {Absent}
    BY <1>1, <1>2 DEF Found, HashEntries
  <2>. QED BY <1>2, <1>3, <1>4, <2>1 DEF HashTypeOK, Found, resizevars, iteratevars, lookupvars
<1>6. UniqueKeys'
  <2>1. Moving' = Moving /\ old' = old BY DEF Found, Moving, resizevars
  <2>. QED BY <1>3, <1>4, <2>1 DEF UniqueKeys
<1>7. Reachable'
  <2>. SUFFICES ASSUME NEW i \in 1..size, table'[i] # Free
                PROVE  \E P \in SUBSET (1..size) : Path(table[i].key, i, P)'
    BY <1>4 DEF Reachable
  <2>1. table[i] # Free /\ table'[i].key = table[i].key BY <1>3
  <2>2. PICK P \in SUBSET (1..size) : Path(table[i].key, i, P)
    BY <2>1 DEF Reachable
  <2>3. ASSUME NEW x, x = table[i].key PROVE Path(x, i, P)'
    BY <2>2, <2>3, <1>3, <1>4, PathKept
  <2>. QED BY <2>1, <2>3
<1>8. OnPath' BY <1>4 DEF OnPath
<1>. QED BY <1>5, <1>6, <1>7, <1>8

LEMMA NotFoundInv ==
  ASSUME HashInv, NotFound
  PROVE  HashInv'
<1>. USE DEF HashInv
<1>1. hpc = "probe" /\ table[idx] = Free /\ Sought = call.key
  BY DEF NotFound, Sought
<1>2. call \in HashRequests /\ call.data \in HashData
  BY <1>1, HashAssumption DEF HashTypeOK
<1>3. /\ hpc' \in {"return", "resize"} /\ ret' \in HashData \cup {Absent}
      /\ UNCHANGED <<hashval, call, old, oldsize, oldidx>>
  BY <1>2 DEF NotFound, resizevars
<1>4. OnPath' BY <1>3 DEF OnPath
<1>5. Moving = {} /\ Moving' = {}
  <2>1. oldsize = 0 BY <1>1 DEF HashTypeOK
  <2>. QED BY <1>3, <2>1 DEF Moving
<1>6. CASE UNCHANGED tablevars
  <2>1. HashTypeOK'
    BY <1>1, <1>2, <1>3, <1>6 DEF HashTypeOK, tablevars, NotFound
  <2>2. UniqueKeys' BY <1>5, <1>6 DEF UniqueKeys, tablevars
  <2>3. Reachable' BY <1>3, <1>6, KeepReachable
  <2>. QED BY <1>4, <2>1, <2>2, <2>3
<1>7. CASE InsertEntry(call.key, call.data, idx)
  <2>1. /\ size' = size
        /\ table' \in [1..size -> HashEntries \cup {Free}]
        /\ \A i, j \in 1..size : table'[i] # Free /\ table'[j] # Free
                                 /\ table'[i].key = table'[j].key => i = j
        /\ Reachable'
    BY <1>1, <1>2, <1>3, <1>7, InsertKeeps
  <2>2. HashTypeOK'
    <3>1. size <= MaxSize BY <1>1 DEF HashTypeOK
    <3>. QED BY <1>1, <1>2, <1>3, <2>1, <3>1 DEF HashTypeOK
  <2>3. UniqueKeys' BY <1>5, <2>1 DEF UniqueKeys
  <2>. QED BY <1>4, <2>1, <2>2, <2>3
<1>. QED BY <1>6, <1>7 DEF NotFound

LEMMA ReturnInv ==
  ASSUME HashInv, Return
  PROVE  HashInv'
<1>. USE DEF HashInv
<1>1. HashTypeOK'
  BY DEF HashTypeOK, Return, tablevars, lookupvars, resizevars
<1>2. UniqueKeys' BY DEF UniqueKeys, Moving, Return, tablevars, resizevars
<1>3. Reachable' BY KeepReachable DEF Return
<1>4. OnPath' BY DEF OnPath, Return
<1>. QED BY <1>1, <1>2, <1>3, <1>4

LEMMA ResizeInv ==
  ASSUME HashInv, Resize
  PROVE  HashInv'
<1>. USE DEF HashInv
<1>1. size \in 3..MaxSize BY SizeAssumption DEF HashTypeOK, Resize
<1>2. size' \in Nat /\ size' > 2
  <2>1. size' = next_prime(2 * size) BY DEF Resize
  <2>2. next_prime(2 * size) \in Nat /\ next_prime(2 * size) > size
    BY <1>1, Sizes
  <2>. QED BY <1>1, <2>1, <2>2
<1>3. table' = [i \in 1..size' |-> Free] BY DEF Resize, Empty
<1>4. old' = table /\ oldsize' = size /\ oldidx' = 1 /\ hpc' = "scan" BY DEF Resize
<1>5. HashTypeOK'
  BY <1>1, <1>2, <1>3, <1>4 DEF HashTypeOK, Resize
<1>6. UniqueKeys'
  <2>1. Moving' = 1..size BY <1>1, <1>4 DEF Moving
  <2>. QED BY <1>3, <1>4, <2>1 DEF UniqueKeys
<1>7. Reachable' BY <1>3 DEF Reachable
<1>8. OnPath' BY <1>4 DEF OnPath
<1>. QED BY <1>5, <1>6, <1>7, <1>8

LEMMA ScanInv ==
  ASSUME HashInv, Scan
  PROVE  HashInv'
<1>. USE DEF HashInv
<1>1. hpc = "scan" /\ oldidx \in 1..oldsize
  <2>1. hpc = "scan" /\ oldidx <= oldsize BY DEF Scan, More
  <2>2. oldidx \in Nat /\ oldsize \in Nat /\ oldidx > 0 BY <2>1 DEF HashTypeOK
  <2>. QED BY <2>1, <2>2
<1>2. UNCHANGED <<hashval, tablevars, call, ret, old, oldsize>> BY DEF Scan
<1>3. Reachable' BY <1>2, KeepReachable
<1>4. CASE old[oldidx] = Free
  <2>1. oldidx' = oldidx + 1 /\ hpc' = hpc BY <1>4 DEF Scan
  <2>2. HashTypeOK' BY <1>1, <1>2, <2>1 DEF HashTypeOK, tablevars
  <2>3. Moving' \subseteq Moving BY <1>1, <1>2, <2>1 DEF Moving
  <2>4. UniqueKeys' BY <1>2, <2>3 DEF UniqueKeys, tablevars
  <2>5. OnPath' BY <1>1, <2>1 DEF OnPath
  <2>. QED BY <1>3, <2>2, <2>4, <2>5
<1>5. CASE old[oldidx] # Free
  <2>. DEFINE k == old[oldidx].key
  <2>1. /\ hpc' = "move" /\ oldidx' = oldidx
        /\ idx' = Home(k) /\ probed' = {}
    BY <1>5 DEF Scan
  <2>2. k \in HashKeys
    <3>1. old[oldidx] \in HashEntries BY <1>1, <1>5 DEF HashTypeOK
    <3>. QED BY <3>1 DEF HashEntries
  <2>3. HashTypeOK'
    <3>1. Home(k) \in 1..size BY <2>2, InTable DEF HashTypeOK
    <3>. QED BY <1>1, <1>2, <1>5, <2>1, <3>1 DEF HashTypeOK, tablevars
  <2>4. UniqueKeys' BY <1>2, <2>1 DEF UniqueKeys, Moving, tablevars
  <2>5. OnPath'
    <3>1. Sought' = k BY <1>2, <2>1 DEF Sought
    <3>. HIDE DEF k
    <3>3. \A x : Home(x)' = Home(x) BY <1>2 DEF Home, tablevars
    <3>4. Path(Sought, idx, probed)' BY <2>1, <3>1, <3>3 DEF Path
    <3>5. oldidx \in Moving BY <1>1 DEF Moving
    <3>6. \A i \in 1..size : table[i] # Free => table[i].key # k
      BY <1>5, <3>5 DEF UniqueKeys, k
    <3>. QED BY <1>2, <3>1, <3>4, <3>6 DEF OnPath, tablevars
  <2>. QED BY <1>3, <2>3, <2>4, <2>5
<1>. QED BY <1>4, <1>5

LEMMA ResizedInv ==
  ASSUME HashInv, Resized
  PROVE  HashInv'
<1>. USE DEF HashInv
<1>1. /\ hpc' = "return" /\ old' = Empty(0) /\ oldsize' = 0 /\ oldidx' = 0
      /\ UNCHANGED <<hashval, tablevars, call, ret>>
      /\ hpc = "scan"
  BY DEF Resized
<1>2. HashTypeOK'
  BY <1>1 DEF HashTypeOK, tablevars, Empty
<1>3. UniqueKeys'
  <2>1. Moving' = {} BY <1>1 DEF Moving
  <2>. QED BY <1>1, <2>1 DEF UniqueKeys, tablevars
<1>4. Reachable' BY <1>1, KeepReachable
<1>5. OnPath' BY <1>1 DEF OnPath
<1>. QED BY <1>2, <1>3, <1>4, <1>5

(* The lookup of resize always ends at a free entry.                        *)
LEMMA MoveToFree ==
  ASSUME HashInv, Move
  PROVE  /\ hpc = "move" /\ oldidx \in 1..oldsize /\ oldidx \in Moving
         /\ old[oldidx] \in HashEntries
         /\ Sought = old[oldidx].key /\ table[idx] = Free
<1>1. hpc = "move" BY DEF Move
<1>2. oldidx \in 1..oldsize /\ old[oldidx] # Free /\ idx \in 1..size
  BY <1>1 DEF HashInv, HashTypeOK
<1>3. oldidx \in Moving BY <1>2 DEF Moving
<1>4. old[oldidx] \in HashEntries BY <1>2 DEF HashInv, HashTypeOK
<1>5. Sought = old[oldidx].key BY <1>1 DEF Sought
<1>6. ~Hit
  BY <1>2, <1>3, <1>5 DEF Hit, HashInv, UniqueKeys
<1>. QED BY <1>1, <1>2, <1>3, <1>4, <1>5, <1>6 DEF Move

LEMMA MoveInv ==
  ASSUME HashInv, Move
  PROVE  HashInv'
<1>. USE DEF HashInv
<1>. DEFINE d == old[oldidx].data
<1>1. /\ hpc = "move" /\ oldidx \in 1..oldsize /\ oldidx \in Moving
      /\ old[oldidx] \in HashEntries
      /\ Sought = old[oldidx].key /\ table[idx] = Free
  BY MoveToFree
<1>2. d \in HashData BY <1>1 DEF HashEntries
<1>3. /\ InsertEntry(Sought, d, idx) /\ hpc' = "scan" /\ oldidx' = oldidx + 1
      /\ UNCHANGED <<hashval, call, ret, old, oldsize>>
  BY <1>1 DEF Move
<1>. HIDE DEF d
<1>4. /\ size' = size
      /\ table' \in [1..size -> HashEntries \cup {Free}]
      /\ \A i, j \in 1..size : table'[i] # Free /\ table'[j] # Free
                               /\ table'[i].key = table'[j].key => i = j
      /\ \A i \in 1..size : table'[i] # Free =>
           \/ table'[i] = [key |-> Sought, data |-> d]
           \/ table[i] # Free /\ table'[i] = table[i]
      /\ Reachable'
  BY <1>1, <1>2, <1>3, InsertKeeps
<1>5. HashTypeOK'
  BY <1>1, <1>3, <1>4 DEF HashTypeOK
<1>6. UniqueKeys'
  <2>1. Moving' \subseteq Moving /\ oldidx \notin Moving'
    BY <1>1, <1>3 DEF Moving
  <2>2. \A j \in Moving' : old[j] # Free => old[j].key # Sought
    BY <1>1, <2>1, HashAssumption DEF UniqueKeys
  <2>3. \A i \in 1..size, j \in Moving' :
          table'[i] # Free /\ old[j] # Free => table'[i].key # old[j].key
    BY <1>4, <2>1, <2>2 DEF UniqueKeys
  <2>4. \A i, j \in Moving' :
          old[i] # Free /\ old[j] # Free /\ old[i].key = old[j].key => i = j
    BY <2>1 DEF UniqueKeys
  <2>. QED BY <1>3, <1>4, <2>3, <2>4 DEF UniqueKeys
<1>7. OnPath' BY <1>3 DEF OnPath
<1>. QED BY <1>4, <1>5, <1>6, <1>7

LEMMA IterateInv ==
  ASSUME HashInv, BeginIterate \/ Iterate_ \/ EndIterate
  PROVE  HashInv'
<1>. USE DEF HashInv
<1>1. /\ UNCHANGED <<hashval, tablevars, call, ret, old, oldsize, oldidx>>
      /\ hpc \in {"idle", "iterate"} /\ hpc' \in {"idle", "iterate"}
  BY DEF BeginIterate, Iterate_, EndIterate, resizevars
<1>2. HashTypeOK' BY <1>1 DEF HashTypeOK, tablevars
<1>3. UniqueKeys' BY <1>1 DEF UniqueKeys, Moving, tablevars
<1>4. Reachable' BY <1>1, KeepReachable
<1>5. OnPath' BY <1>1 DEF OnPath
<1>. QED BY <1>2, <1>3, <1>4, <1>5

LEMMA StutterInv ==
  ASSUME HashInv, UNCHANGED hashvars
  PROVE  HashInv'
<1>. USE DEF HashInv, hashvars, tablevars, lookupvars, resizevars
<1>1. HashTypeOK' BY DEF HashTypeOK
<1>2. UniqueKeys' BY DEF UniqueKeys, Moving
<1>3. Reachable' BY KeepReachable
<1>4. OnPath'
  <2>1. Sought' = Sought BY DEF Sought
  <2>. SUFFICES ASSUME hpc \in {"probe", "move"}
                PROVE  /\ Path(Sought, idx, probed)'
                       /\ \A i \in 1..size : table[i] # Free /\ table[i].key = Sought =>
                            \E P \in SUBSET (1..size) : Path(Sought, i, P)' /\ idx \in P \cup {i}
    BY <2>1 DEF OnPath
  <2>3. Path(Sought, idx, probed)' BY <2>1 DEF OnPath, Path, Home, Next_, Step
  <2>4. ASSUME NEW i \in 1..size, table[i] # Free, table[i].key = Sought
        PROVE  \E P \in SUBSET (1..size) : Path(Sought, i, P)' /\ idx \in P \cup {i}
    <3>1. PICK P \in SUBSET (1..size) : Path(Sought, i, P) /\ idx \in P \cup {i}
      BY <2>4 DEF OnPath
    <3>2. Path(Sought, i, P)' BY <3>1, <2>1 DEF Path, Home, Next_, Step
    <3>. QED BY <3>1, <3>2
  <2>. QED BY <2>3, <2>4
<1>. QED BY <1>1, <1>2, <1>3, <1>4

(* HashInv is an invariant of the hash table, for every table size, hash    *)
(* function and set of keys: unique keys, entries that lookup reaches       *)
(* (hash.c, lookup, insert_entry_2, resize).                                *)
THEOREM HashInvariant == HashSpec => []HashInv
<1>1. HashInit => HashInv BY InitInv
<1>2. HashInv /\ [HashNext]_hashvars => HashInv'
  <2>. SUFFICES ASSUME HashInv, [HashNext]_hashvars PROVE HashInv'
    OBVIOUS
  <2>1. ASSUME NEW c \in HashRequests, Begin(c) PROVE HashInv' BY <2>1, BeginInv
  <2>2. CASE Probe BY <2>2, ProbeInv
  <2>3. CASE Found BY <2>3, FoundInv
  <2>4. CASE NotFound BY <2>4, NotFoundInv
  <2>5. CASE Return BY <2>5, ReturnInv
  <2>6. CASE Resize BY <2>6, ResizeInv
  <2>7. CASE Scan BY <2>7, ScanInv
  <2>8. CASE Move BY <2>8, MoveInv
  <2>9. CASE Resized BY <2>9, ResizedInv
  <2>10. CASE BeginIterate \/ Iterate_ \/ EndIterate BY <2>10, IterateInv
  <2>11. CASE UNCHANGED hashvars BY <2>11, StutterInv
  <2>. QED BY <2>1, <2>2, <2>3, <2>4, <2>5, <2>6, <2>7, <2>8, <2>9, <2>10, <2>11
           DEF HashNext
<1>. QED BY <1>1, <1>2, PTL DEF HashSpec

----------------------------------------------------------------------------
(* The refinement: Begin asks, Found and NotFound serve, Return replies,    *)
(* and all the other steps leave the dictionary alone.                      *)

(* An insertion adds its entry to those stored.                             *)
LEMMA InsertStores ==
  ASSUME HashInv, hpc \in {"probe", "move"}, table[idx] = Free,
         NEW d \in HashData, InsertEntry(Sought, d, idx)
  PROVE  { table'[i] : i \in 1..size } \ {Free}
           = ({ table[i] : i \in 1..size } \ {Free}) \cup {[key |-> Sought, data |-> d]}
<1>. DEFINE e == [key |-> Sought, data |-> d]
<1>1. e # Free
  <2>1. Sought \in HashKeys BY SoughtKey DEF HashInv
  <2>. QED BY <2>1, HashAssumption DEF HashEntries
<1>2. table \in [1..size -> HashEntries \cup {Free}] /\ idx \in 1..size
  BY DEF HashInv, HashTypeOK
<1>3. table' = [table EXCEPT ![idx] = e] BY DEF InsertEntry
<1>. HIDE DEF e
<1>4. \A i \in 1..size : table'[i] = IF i = idx THEN e ELSE table[i] BY <1>2, <1>3
<1>. QED BY <1>1, <1>2, <1>4 DEF e

LEMMA FoundServes == HashInv /\ Found => Dict!Serve
<1>. SUFFICES ASSUME HashInv, Found PROVE Dict!Serve
  OBVIOUS
<1>. USE DEF HashInv
<1>. DEFINE k == call.key
            e == table[idx]
<1>1. /\ hpc = "probe" /\ idx \in 1..size /\ e \in HashEntries /\ e # Free /\ e.key = k
      /\ call \in HashRequests /\ ret = NoCall
  BY HashAssumption DEF Found, Hit, HashTypeOK, Sought
<1>2. call # NoCall /\ call.data \in HashData BY <1>1, HashAssumption
<1>3. Moving = {} /\ Moving' = {}
  BY <1>1 DEF HashTypeOK, Found, Moving, resizevars
<1>4. size' = size /\ call' = call BY DEF Found
<1>5. e \in Stored BY <1>1 DEF Stored
<1>6. \A x \in Stored : x.key = k => x = e
  <2>. SUFFICES ASSUME NEW i \in 1..size, table[i] # Free, table[i].key = k
                PROVE  table[i] = e
    BY <1>3 DEF Stored
  <2>1. i = idx BY <1>1 DEF UniqueKeys
  <2>. QED BY <2>1
<1>. DEFINE W == { x \in Stored : x.key = k }
<1>7. W = {e} BY <1>1, <1>5, <1>6
<1>. HIDE DEF W
<1>8. Dict!With(k) = W BY DEF W, Dict!With
<1>10. CASE call.op = "find"
  <2>1. ret' = e.data /\ Stored' = Stored BY <1>3, <1>4, <1>10 DEF Found, Stored
  <2>2. Dict!Find(call.key) BY <1>7, <1>8, <2>1 DEF Dict!Find
  <2>. QED BY <1>1, <1>2, <1>4, <1>10, <2>2 DEF Dict!Serve
<1>11. CASE call.op = "insert"
  <2>1. ret' = Absent /\ Stored' = Stored BY <1>3, <1>4, <1>11 DEF Found, Stored
  <2>. DEFINE r == [key |-> call.key, data |-> call.data]
  <2>2. r.key = call.key OBVIOUS
  <2>. HIDE DEF r
  <2>3. Dict!Insert(r) BY <1>7, <1>8, <2>1, <2>2 DEF Dict!Insert
  <2>. QED BY <1>1, <1>2, <1>4, <1>11, <2>3 DEF Dict!Serve, r
<1>12. CASE call.op = "set"
  <2>. DEFINE r == [key |-> call.key, data |-> call.data]
  <2>1. ret' = call.data /\ table' = [table EXCEPT ![idx].data = call.data]
    BY <1>12 DEF Found
  <2>2. table' = [table EXCEPT ![idx] = r]
    <3>1. e = [key |-> e.key, data |-> e.data] BY <1>1 DEF HashEntries
    <3>2. [e EXCEPT !.data = call.data] = [key |-> k, data |-> call.data]
      BY <1>1, <3>1
    <3>. QED BY <2>1, <3>2
  <2>3. r.key = k /\ r.data = call.data /\ r \in HashEntries
    BY <1>1, <1>2 DEF HashEntries
  <2>4. r # Free BY <2>3, HashAssumption
  <2>. HIDE DEF r
  <2>5. \A i \in 1..size : table'[i] = IF i = idx THEN r ELSE table[i]
    BY <2>2 DEF HashTypeOK
  <2>6. \A i \in 1..size : table[i] = e => i = idx
    BY <1>1 DEF UniqueKeys
  <2>7. Stored = { table[i] : i \in 1..size } \ {Free} BY <1>3 DEF Stored
  <2>8. Stored' = { table'[i] : i \in 1..size } \ {Free} BY <1>3, <1>4 DEF Stored
  <2>9. Stored' = (Stored \ {e}) \cup {r}
    BY <1>1, <2>4, <2>5, <2>6, <2>7, <2>8
  <2>10. Dict!Put(r) BY <1>7, <1>8, <2>1, <2>3, <2>9 DEF Dict!Put
  <2>. QED BY <1>1, <1>2, <1>4, <1>12, <2>10 DEF Dict!Serve, r
<1>. QED BY <1>10, <1>11, <1>12 DEF Found

LEMMA NotFoundServes == HashInv /\ NotFound => Dict!Serve
<1>. SUFFICES ASSUME HashInv, NotFound PROVE Dict!Serve
  OBVIOUS
<1>. USE DEF HashInv
<1>1. /\ hpc = "probe" /\ table[idx] = Free /\ Sought = call.key
      /\ call \in HashRequests /\ ret = NoCall
  BY DEF NotFound, HashTypeOK, Sought
<1>2. /\ call # NoCall /\ call.data \in HashData
      /\ call.op \in {"insert", "set", "find"}
  BY <1>1, HashAssumption
<1>3. Moving = {} /\ Moving' = {}
  BY <1>1 DEF HashTypeOK, NotFound, Moving, resizevars
<1>4. call' = call BY DEF NotFound
<1>5. \A i \in 1..size : table[i] # Free => table[i].key # call.key
  BY <1>1, NotThere
<1>6. Stored = { table[i] : i \in 1..size } \ {Free} BY <1>3 DEF Stored
<1>7. Dict!With(call.key) = {} BY <1>5, <1>6 DEF Dict!With
<1>8. CASE call.op = "find"
  <2>1. ret' = Absent /\ Stored' = Stored
    BY <1>3, <1>8 DEF NotFound, Stored, tablevars
  <2>2. Dict!Find(call.key) BY <1>7, <2>1 DEF Dict!Find
  <2>. QED BY <1>1, <1>2, <1>4, <1>8, <2>2 DEF Dict!Serve
<1>9. CASE call.op # "find"
  <2>. DEFINE r == [key |-> call.key, data |-> call.data]
  <2>1. InsertEntry(Sought, call.data, idx) /\ ret' = call.data
    BY <1>1, <1>9 DEF NotFound
  <2>2. size' = size BY <2>1 DEF InsertEntry
  <2>3. Stored' = { table'[i] : i \in 1..size } \ {Free} BY <1>3, <2>2 DEF Stored
  <2>4. Stored' = Stored \cup {r} BY <1>1, <1>2, <1>6, <2>1, <2>3, InsertStores
  <2>5. r.key = call.key /\ r.data = call.data OBVIOUS
  <2>. HIDE DEF r
  <2>6. Dict!Insert(r) BY <1>7, <2>1, <2>4, <2>5 DEF Dict!Insert
  <2>7. Dict!Put(r) BY <1>7, <2>1, <2>4, <2>5 DEF Dict!Put
  <2>. QED BY <1>1, <1>2, <1>4, <1>9, <2>6, <2>7 DEF Dict!Serve, r
<1>. QED BY <1>8, <1>9

(* The steps of resize move entries without losing one.                     *)
LEMMA ResizeStutters ==
  ASSUME HashInv, Resize \/ Scan \/ Move \/ Resized
  PROVE  UNCHANGED <<Stored, call, ret>>
<1>. USE DEF HashInv
<1>1. UNCHANGED <<call, ret>> BY DEF Resize, Scan, Move, Resized
<1>2. CASE Resize
  <2>1. Moving = {} BY <1>2 DEF HashTypeOK, Resize, Moving
  <2>2. Moving' = 1..size /\ old' = table
    <3>1. size \in Nat BY DEF HashTypeOK
    <3>. QED BY <1>2, <3>1 DEF Resize, Moving
  <2>3. { table'[i] : i \in 1..size' } \subseteq {Free} BY <1>2 DEF Resize, Empty
  <2>4. Stored' = Stored BY <2>1, <2>2, <2>3 DEF Stored
  <2>. QED BY <1>1, <2>4
<1>3. CASE Scan
  <2>1. UNCHANGED <<size, table, old, oldsize>> BY <1>3 DEF Scan, tablevars
  <2>2. oldidx \in Nat /\ oldsize \in Nat /\ oldidx <= oldsize
    BY <1>3 DEF Scan, More, HashTypeOK
  <2>3. CASE old[oldidx] = Free
    <3>1. oldidx' = oldidx + 1 BY <1>3, <2>3 DEF Scan
    <3>2. \A i : i \in Moving' <=> i \in Moving /\ i # oldidx
      BY <2>1, <2>2, <3>1 DEF Moving
    <3>3. { old[i] : i \in Moving' } \cup {Free} = { old[i] : i \in Moving } \cup {Free}
      BY <2>3, <3>2
    <3>4. Stored' = Stored BY <2>1, <3>3 DEF Stored
    <3>. QED BY <1>1, <3>4
  <2>4. CASE old[oldidx] # Free
    <3>1. oldidx' = oldidx BY <1>3, <2>4 DEF Scan
    <3>. QED BY <1>1, <2>1, <3>1 DEF Stored, Moving
  <2>. QED BY <2>3, <2>4
<1>4. CASE Move
  <2>. DEFINE e == old[oldidx]
  <2>1. /\ hpc = "move" /\ oldidx \in 1..oldsize /\ oldidx \in Moving
        /\ e \in HashEntries
        /\ Sought = e.key /\ table[idx] = Free
    BY <1>4, MoveToFree
  <2>2. e = [key |-> Sought, data |-> e.data] /\ e.data \in HashData
    BY <2>1 DEF HashEntries
  <2>3. /\ InsertEntry(Sought, e.data, idx) /\ oldidx' = oldidx + 1
        /\ UNCHANGED <<old, oldsize>>
    BY <1>4, <2>1 DEF Move
  <2>4. size' = size BY <2>3 DEF InsertEntry
  <2>5. { table'[i] : i \in 1..size } \ {Free}
          = ({ table[i] : i \in 1..size } \ {Free}) \cup {e}
    BY <2>1, <2>2, <2>3, InsertStores
  <2>6. oldidx \in Nat /\ oldsize \in Nat BY DEF HashTypeOK
  <2>7. \A i : i \in Moving' <=> i \in Moving /\ i # oldidx
    BY <2>3, <2>6 DEF Moving
  <2>8. e # Free BY <2>1, HashAssumption
  <2>. DEFINE M == { old[i] : i \in Moving }
              M1 == { old[i] : i \in Moving' }
  <2>9. M = M1 \cup {e} BY <2>1, <2>7
  <2>10. Stored = ({ table[i] : i \in 1..size } \ {Free}) \cup (M \ {Free})
    BY DEF Stored
  <2>11. Stored' = ({ table'[i] : i \in 1..size } \ {Free}) \cup (M1 \ {Free})
    BY <2>3, <2>4 DEF Stored
  <2>. HIDE DEF M, M1, e
  <2>12. Stored' = Stored BY <2>5, <2>8, <2>9, <2>10, <2>11
  <2>. QED BY <1>1, <2>12
<1>5. CASE Resized
  <2>1. oldidx \in Nat /\ oldsize \in Nat /\ ~(oldidx <= oldsize)
    BY <1>5 DEF Resized, More, HashTypeOK
  <2>2. Moving = {} BY <2>1 DEF Moving
  <2>3. Moving' = {} BY <1>5 DEF Resized, Moving
  <2>4. UNCHANGED <<size, table>> BY <1>5 DEF Resized, tablevars
  <2>5. Stored' = Stored BY <2>2, <2>3, <2>4 DEF Stored
  <2>. QED BY <1>1, <2>5
<1>. QED BY <1>2, <1>3, <1>4, <1>5

LEMMA RefineInit == HashInit => Dict!DInit
<1>. SUFFICES ASSUME HashInit PROVE Dict!DInit
  OBVIOUS
<1>1. Moving = {} BY DEF HashInit, Moving
<1>2. \A i \in 1..size : table[i] = Free BY DEF HashInit, Empty
<1>3. Stored = {} BY <1>1, <1>2 DEF Stored
<1>. QED BY <1>3 DEF Dict!DInit, HashInit

LEMMA RefineNext == HashInv /\ [HashNext]_hashvars => [Dict!DNext]_Dict!dvars
<1>. SUFFICES ASSUME HashInv, [HashNext]_hashvars PROVE [Dict!DNext]_Dict!dvars
  OBVIOUS
<1>1. ASSUME NEW c \in HashRequests, Begin(c) PROVE Dict!Ask(c)
  <2>1. call = NoCall BY <1>1 DEF Begin, HashInv, HashTypeOK
  <2>2. Stored' = Stored BY <1>1 DEF Begin, Stored, Moving, tablevars, resizevars
  <2>. QED BY <1>1, <2>1, <2>2 DEF Begin, Dict!Ask
<1>2. CASE Probe
  <2>1. UNCHANGED <<Stored, call, ret>>
    BY <1>2 DEF Probe, Stored, Moving, tablevars, resizevars
  <2>. QED BY <2>1 DEF Dict!dvars
<1>3. CASE Found BY <1>3, FoundServes DEF Dict!DNext
<1>4. CASE NotFound BY <1>4, NotFoundServes DEF Dict!DNext
<1>5. CASE Return
  <2>1. ret # NoCall
    <3>1. ret \in HashData \cup {Absent} BY <1>5 DEF Return, HashInv, HashTypeOK
    <3>. QED BY <3>1, HashAssumption
  <2>2. Stored' = Stored BY <1>5 DEF Return, Stored, Moving, tablevars, resizevars
  <2>3. Dict!Reply BY <1>5, <2>1, <2>2 DEF Return, Dict!Reply
  <2>. QED BY <2>3 DEF Dict!DNext
<1>6. CASE Resize \/ Scan \/ Move \/ Resized
  BY <1>6, ResizeStutters DEF Dict!dvars
<1>7. CASE BeginIterate \/ Iterate_ \/ EndIterate
  <2>1. UNCHANGED <<tablevars, resizevars, call, ret>>
    BY <1>7 DEF BeginIterate, Iterate_, EndIterate
  <2>. QED BY <2>1 DEF Dict!dvars, Stored, Moving, tablevars, resizevars
<1>8. CASE UNCHANGED hashvars
  BY <1>8 DEF Dict!dvars, Stored, Moving, hashvars, tablevars, resizevars
<1>. QED
  BY <1>1, <1>2, <1>3, <1>4, <1>5, <1>6, <1>7, <1>8 DEF HashNext, Dict!DNext

(* The hash table implements a dictionary for every set of keys, whatever   *)
(* their hash values (hash.c, all of hash_find_entry, hash_insert_entry,    *)
(* hash_set_value and resize).                                              *)
THEOREM HashImplementsDictionary == HashSpec => ImplementsDictionary
<1>1. HashInit => Dict!DInit BY RefineInit
<1>2. HashInv /\ [HashNext]_hashvars => [Dict!DNext]_Dict!dvars BY RefineNext
<1>3. HashSpec => []HashInv BY HashInvariant
<1>. QED BY <1>1, <1>2, <1>3, PTL DEF HashSpec, ImplementsDictionary, Dict!DSpec

----------------------------------------------------------------------------
(* The probe sequence, and the circular list of the entries.                *)

LEMMA StepRange ==
  ASSUME NEW k \in HashKeys, HashTypeOK
  PROVE  Step(k) \in 1..(size - 2) /\ Home(k) \in 1..size
<1>1. hashval[k] \in Nat /\ size \in Nat /\ size > 2 BY DEF HashTypeOK
<1>2. size - 2 \in Nat /\ size - 2 > 0 BY <1>1
<1>3. \A b \in Nat : b > 0 => hashval[k] % b \in 0..(b - 1) BY <1>1, Modulo
<1>4. hashval[k] % (size - 2) \in 0..((size - 2) - 1) BY <1>2, <1>3
<1>5. hashval[k] % size \in 0..(size - 1) BY <1>1, <1>3
<1>. QED BY <1>1, <1>4, <1>5 DEF Step, Home

(* The first indices of the probe sequence differ, as the size is a prime.  *)
LEMMA ProbesDiffer ==
  ASSUME HashTypeOK, IsPrime(size), NEW k \in HashKeys, NEW i,
         NEW m \in Nat, NEW n \in Nat, n < m, m < size,
         NthProbe(k, m, i), NthProbe(k, n, i)
  PROVE  FALSE
<1>. DEFINE s == Step(k)
            h == Home(k)
<1>1. s \in 1..(size - 2) /\ h \in 1..size BY StepRange
<1>2. size \in Nat /\ size > 2 BY DEF HashTypeOK
<1>3. i \in 1..size BY DEF NthProbe
<1>4. PICK q \in 0..m : i + m * s = h + q * size BY DEF NthProbe
<1>5. PICK r \in 0..n : i + n * s = h + r * size BY DEF NthProbe
<1>. HIDE DEF s, h
<1>6. (m - n) * s = (q - r) * size
  <2>1. m * s - n * s = q * size - r * size BY <1>1, <1>2, <1>3, <1>4, <1>5
  <2>2. (m - n) * s = m * s - n * s BY <1>1
  <2>3. (q - r) * size = q * size - r * size BY <1>2
  <2>. QED BY <2>1, <2>2, <2>3
<1>7. q - r \in Nat
  <2>1. (m - n) * s > 0 BY <1>1
  <2>2. q - r \in Int OBVIOUS
  <2>. QED BY <1>2, <1>6, <2>1, <2>2
<1>8. m - n \in 1..(size - 1) /\ s \in 1..(size - 1) BY <1>1, <1>2
<1>. QED BY <1>6, <1>7, <1>8, NoProduct

LEMMA NextProbe ==
  ASSUME HashTypeOK, NEW k \in HashKeys, NEW n \in Nat, NEW i, NthProbe(k, n, i)
  PROVE  NthProbe(k, n + 1, Next_(k, i))
<1>. DEFINE s == Step(k)
            h == Home(k)
<1>1. s \in 1..(size - 2) /\ h \in 1..size BY StepRange
<1>2. size \in Nat /\ size > 2 BY DEF HashTypeOK
<1>3. i \in 1..size BY DEF NthProbe
<1>4. PICK q \in 0..n : i + n * s = h + q * size BY DEF NthProbe
<1>5. Next_(k, i) = IF i <= s THEN (size + i) - s ELSE i - s BY DEF Next_
<1>. HIDE DEF s, h
<1>6. (n + 1) * s = n * s + s BY <1>1
<1>7. CASE i <= s
  <2>1. (q + 1) * size = q * size + size BY <1>2
  <2>2. ((size + i) - s) + (n + 1) * s = h + (q + 1) * size
    BY <1>1, <1>2, <1>3, <1>4, <1>6, <2>1
  <2>3. (size + i) - s \in 1..size /\ q + 1 \in 0..(n + 1) BY <1>1, <1>2, <1>3, <1>7
  <2>. QED BY <1>5, <1>7, <2>2, <2>3 DEF NthProbe, s, h
<1>8. CASE ~(i <= s)
  <2>1. (i - s) + (n + 1) * s = h + q * size BY <1>1, <1>2, <1>3, <1>4, <1>6
  <2>2. i - s \in 1..size /\ q \in 0..(n + 1) BY <1>1, <1>2, <1>3, <1>8
  <2>. QED BY <1>5, <1>8, <2>1, <2>2 DEF NthProbe, s, h
<1>. QED BY <1>7, <1>8

LEMMA FirstProbe ==
  ASSUME HashTypeOK, NEW k \in HashKeys
  PROVE  NthProbe(k, 0, Home(k))
<1>1. Step(k) \in 1..(size - 2) /\ Home(k) \in 1..size BY StepRange
<1>2. size \in Nat BY DEF HashTypeOK
<1>3. Home(k) + 0 * Step(k) = Home(k) + 0 * size BY <1>1, <1>2
<1>. QED BY <1>1, <1>3 DEF NthProbe

(* A set that is enumerated without repetition has as many elements.        *)
LEMMA Enumerated ==
  ASSUME NEW n \in Nat, NEW T, NEW f \in [1..n -> T],
         \A i, j \in 1..n : f[i] = f[j] => i = j,
         \A t \in T : \E i \in 1..n : f[i] = t
  PROVE  IsFiniteSet(T) /\ Cardinality(T) = n
<1>1. f \in Surjection(1..n, T) BY DEF Surjection
<1>2. f \in Injection(1..n, T) BY DEF Injection, IsInjective
<1>3. IsFiniteSet(1..n) /\ Cardinality(1..n) = n
  <2>1. 0 \in Int /\ 1 \in Int /\ n \in Int OBVIOUS
  <2>2. IsFiniteSet(1..n) /\ Cardinality(1..n) = IF 1 > n THEN 0 ELSE n - 1 + 1
    BY <2>1, FS_Interval
  <2>. QED BY <2>2
<1>. QED BY <1>1, <1>2, <1>3, FS_Surjection

Used == { i \in 1..size : table[i] # Free }

LEMMA UsedCount ==
  ASSUME Listed
  PROVE  IsFiniteSet(Used) /\ Cardinality(Used) = filled
<1>1. filled \in Nat BY DEF Listed
<1>2. PICK o \in [1..filled -> 1..size] : LinkedAs(o) BY DEF Listed
<1>3. o \in [1..filled -> Used] BY <1>2 DEF LinkedAs, Used
<1>4. \A t \in Used : \E n \in 1..filled : o[n] = t BY <1>2 DEF LinkedAs, Used
<1>5. \A m, n \in 1..filled : o[m] = o[n] => m = n BY <1>2 DEF LinkedAs
<1>. QED BY <1>1, <1>3, <1>4, <1>5, Enumerated

LEMMA NotFull ==
  ASSUME HashTypeOK, LoadFactor, filled \in Nat, hpc \in {"probe", "move"}
  PROVE  filled < size
<1>1. size \in Nat /\ size > 2 BY DEF HashTypeOK
<1>2. CASE hpc = "probe"
  BY <1>1, <1>2 DEF LoadFactor, Crowded
<1>3. CASE hpc = "move"
  <2>1. oldidx \in Nat /\ oldsize \in Nat BY DEF HashTypeOK
  <2>. QED BY <1>1, <1>3, <2>1 DEF LoadFactor
<1>. QED BY <1>2, <1>3

(* Fewer indices have been probed than there are.                           *)
LEMMA ProbedCount ==
  ASSUME HashOrderInv, hpc \in {"probe", "move"}
  PROVE  IsFiniteSet(probed) /\ Cardinality(probed) \in Nat /\ Cardinality(probed) < size
<1>1. probed \in SUBSET Used BY DEF HashOrderInv, HashInv, OnPath, Path, Used
<1>2. IsFiniteSet(Used) /\ Cardinality(Used) = filled BY UsedCount DEF HashOrderInv
<1>3. IsFiniteSet(probed) /\ Cardinality(probed) <= filled BY <1>1, <1>2, FS_Subset
<1>4. Cardinality(probed) \in Nat BY <1>3, FS_CardinalityType
<1>5. filled < size /\ filled \in Nat /\ size \in Nat
  BY NotFull DEF HashOrderInv, HashInv, Listed, HashTypeOK
<1>. QED BY <1>3, <1>4, <1>5

LEMMA NeverBack == HashOrderInv => ProbesAdvance
<1>. SUFFICES ASSUME HashOrderInv, hpc \in {"probe", "move"}, idx \in probed
              PROVE  FALSE
  BY DEF ProbesAdvance
<1>1. Cardinality(probed) \in Nat /\ Cardinality(probed) < size BY ProbedCount
<1>2. Sought \in HashKeys BY SoughtKey DEF HashOrderInv, HashInv
<1>3. PICK n \in 0..(Cardinality(probed) - 1) : NthProbe(Sought, n, idx)
  BY DEF HashOrderInv, ProbeOrder
<1>4. NthProbe(Sought, Cardinality(probed), idx) BY DEF HashOrderInv, ProbeOrder
<1>5. n \in Nat /\ n < Cardinality(probed) BY <1>1, <1>3
<1>. QED BY <1>1, <1>2, <1>3, <1>4, <1>5, ProbesDiffer DEF HashOrderInv, HashInv, LoadFactor

(* The probe sequence goes on.                                              *)
LEMMA ProbeKeepsOrder ==
  ASSUME HashOrderInv, Probe
  PROVE  ProbeOrder'
<1>. DEFINE k == Sought
            c == Cardinality(probed)
<1>1. hpc \in {"probe", "move"} /\ hpc' = hpc BY DEF Probe
<1>2. k \in HashKeys BY <1>1, SoughtKey DEF HashOrderInv, HashInv
<1>3. k' = k BY DEF Probe, Sought, resizevars
<1>4. idx' = Next_(k, idx) /\ probed' = probed \cup {idx} BY DEF Probe
<1>5. IsFiniteSet(probed) /\ c \in Nat BY <1>1, ProbedCount
<1>6. idx \notin probed BY <1>1, NeverBack DEF ProbesAdvance
<1>7. Cardinality(probed \cup {idx}) = c + 1 BY <1>5, <1>6, FS_AddElement
<1>8. Cardinality(probed)' = c + 1 BY <1>4, <1>7
<1>9. /\ NthProbe(k, c, idx)
      /\ \A x \in probed : \E n \in 0..(c - 1) : NthProbe(k, n, x)
  BY <1>1 DEF HashOrderInv, ProbeOrder
<1>. HIDE DEF k, c
<1>10. NthProbe(k, c + 1, Next_(k, idx))
  BY <1>2, <1>5, <1>9, NextProbe DEF HashOrderInv, HashInv
<1>11. \A x \in probed \cup {idx} : \E n \in 0..c : NthProbe(k, n, x)
  BY <1>5, <1>9
<1>12. \A x, n, i : NthProbe(x, n, i)' = NthProbe(x, n, i)
  BY DEF NthProbe, Home, Step, Probe, tablevars
<1>13. /\ NthProbe(k, c + 1, idx')
       /\ \A x \in probed' : \E n \in 0..((c + 1) - 1) : NthProbe(k, n, x)
  BY <1>4, <1>5, <1>10, <1>11
<1>. QED BY <1>3, <1>8, <1>12, <1>13 DEF ProbeOrder, k

(* It begins.                                                               *)
LEMMA BeginKeepsOrder ==
  ASSUME HashOrderInv, NEW k \in HashKeys, UNCHANGED <<hashval, size>>,
         Sought' = k, idx' = Home(k), probed' = {}
  PROVE  ProbeOrder'
<1>1. Cardinality(probed)' = 0 BY FS_EmptySet
<1>2. NthProbe(k, 0, idx') BY FirstProbe DEF HashOrderInv, HashInv
<1>3. \A x, n, i : NthProbe(x, n, i)' = NthProbe(x, n, i)
  BY DEF NthProbe, Home, Step
<1>. QED BY <1>1, <1>2, <1>3 DEF ProbeOrder

----------------------------------------------------------------------------
LEMMA KeepListed ==
  ASSUME Listed, UNCHANGED <<size, filled, link, first>>,
         \A i \in 1..size : /\ table'[i] # Free <=> table[i] # Free
                            /\ table[i] # Free => table'[i].key = table[i].key,
         hpc' = "iterate" => /\ table' = table
                             /\ \/ hpc = "iterate" /\ UNCHANGED iteratevars
                                \/ ptr' = 0 /\ seen' = <<>>
  PROVE  Listed'
<1>1. PICK o \in [1..filled -> 1..size] : LinkedAs(o) /\ CameTo(o) BY DEF Listed
<1>2. filled \in Nat /\ link \in [1..size -> 0..size] BY DEF Listed
<1>3. LinkedAs(o)' BY <1>1 DEF LinkedAs
<1>4. CameTo(o)'
  <2>. SUFFICES ASSUME hpc' = "iterate"
                PROVE  \E m \in 0..filled : /\ ptr' = IF m = 0 THEN 0 ELSE o[m]
                                            /\ seen' = [n \in 1..m |-> table[o[n]].key]
    BY DEF CameTo
  <2>1. CASE hpc = "iterate" /\ UNCHANGED iteratevars
    BY <1>1, <2>1 DEF CameTo, iteratevars
  <2>2. CASE ptr' = 0 /\ seen' = <<>>
    <3>1. 0 \in 0..filled BY <1>2
    <3>2. [n \in 1..0 |-> table[o[n]].key] = <<>> OBVIOUS
    <3>. QED BY <2>2, <3>1, <3>2
  <2>. QED BY <2>1, <2>2
<1>. QED BY <1>1, <1>2, <1>3, <1>4 DEF Listed

(* insert_entry_2 appends the entry to the list.                            *)
LEMMA InsertListed ==
  ASSUME Listed, HashTypeOK, NEW i \in 1..size, table[i] = Free,
         NEW k \in HashKeys, NEW d \in HashData, InsertEntry(k, d, i), hpc' # "iterate"
  PROVE  Listed'
<1>1. PICK o \in [1..filled -> 1..size] : LinkedAs(o) BY DEF Listed
<1>2. filled \in Nat /\ link \in [1..size -> 0..size] BY DEF Listed
<1>3. /\ table' = [table EXCEPT ![i] = [key |-> k, data |-> d]]
      /\ link' = Linked(i) /\ first' = i /\ filled' = filled + 1 /\ size' = size
  BY DEF InsertEntry
<1>4. size \in Nat BY DEF HashTypeOK
<1>0. PICK o1 : o1 = [n \in 1..(filled + 1) |-> IF n = filled + 1 THEN i ELSE o[n]]
  OBVIOUS
<1>5. o1 \in [1..(filled + 1) -> 1..size]
  <2>1. \A n \in 1..(filled + 1) : n = filled + 1 \/ n \in 1..filled BY <1>2
  <2>. QED BY <1>0, <2>1
<1>6. \A n \in 1..filled : o[n] \in 1..size /\ o[n] # i BY <1>1 DEF LinkedAs
<1>7. \A x \in 1..size : table'[x] # Free <=> table[x] # Free \/ x = i
  <2>1. [key |-> k, data |-> d] # Free BY HashAssumption DEF HashEntries
  <2>. QED BY <1>3, <2>1 DEF HashTypeOK
<1>8. o1[filled + 1] = i /\ \A n \in 1..filled : o1[n] = o[n] BY <1>0, <1>2
<1>9. \A m, n \in 1..(filled + 1) : o1[m] = o1[n] => m = n
  <2>1. \A n \in 1..(filled + 1) : n = filled + 1 \/ n \in 1..filled BY <1>2
  <2>2. \A m, n \in 1..filled : o[m] = o[n] => m = n BY <1>1 DEF LinkedAs
  <2>. QED BY <1>6, <1>8, <2>1, <2>2
<1>10. \A x \in 1..size : table'[x] # Free <=> \E n \in 1..(filled + 1) : o1[n] = x
  <2>1. \A n : n \in 1..(filled + 1) <=> n = filled + 1 \/ n \in 1..filled BY <1>2
  <2>2. \A x \in 1..size : table[x] # Free <=> \E n \in 1..filled : o[n] = x
    BY <1>1 DEF LinkedAs
  <2>. QED BY <1>7, <1>8, <2>1, <2>2
<1>11. \A n \in 1..(filled + 1) :
         link'[o1[n]] = IF n = filled + 1 THEN o1[1] ELSE o1[n + 1]
  <2>1. first = IF filled = 0 THEN 0 ELSE o[filled] BY <1>1 DEF LinkedAs
  <2>2. CASE filled = 0
    <3>1. link' = [link EXCEPT ![i] = i] BY <1>3, <2>1, <2>2 DEF Linked
    <3>2. link'[i] = i BY <1>2, <3>1
    <3>. QED BY <1>8, <2>2, <3>2
  <2>3. CASE filled # 0
    <3>1. first = o[filled] /\ filled \in 1..filled BY <1>2, <2>1, <2>3
    <3>2. first \in 1..size /\ first # i /\ first # 0 BY <1>4, <1>6, <3>1
    <3>3. link' = [link EXCEPT ![i] = link[first], ![first] = i] BY <1>3, <3>2 DEF Linked
    <3>4. /\ link'[i] = link[first] /\ link'[first] = i
          /\ \A x \in 1..size : x # i /\ x # first => link'[x] = link[x]
      BY <1>2, <3>2, <3>3
    <3>5. link[first] = o[1] BY <1>1, <3>1 DEF LinkedAs
    <3>6. 1 \in 1..filled BY <1>2, <2>3
    <3>7. link'[o1[filled + 1]] = o1[1] BY <1>8, <3>4, <3>5, <3>6
    <3>8. link'[o1[filled]] = o1[filled + 1] BY <1>8, <3>1, <3>4
    <3>9. ASSUME NEW n \in 1..filled, n # filled PROVE link'[o1[n]] = o1[n + 1]
      <4>1. n + 1 \in 1..filled BY <1>2, <3>9
      <4>2. o[n] # first BY <1>1, <3>1, <3>9 DEF LinkedAs
      <4>3. link'[o[n]] = link[o[n]] BY <1>6, <3>4, <4>2
      <4>4. link[o[n]] = o[n + 1] BY <1>1, <3>9 DEF LinkedAs
      <4>. QED BY <1>8, <4>1, <4>3, <4>4
    <3>10. \A n \in 1..(filled + 1) : n = filled + 1 \/ n \in 1..filled BY <1>2
    <3>. QED BY <1>2, <3>7, <3>8, <3>9, <3>10
  <2>. QED BY <2>2, <2>3
<1>12. first' = IF filled' = 0 THEN 0 ELSE o1[filled'] BY <1>2, <1>3, <1>8
<1>13. link' \in [1..size -> 0..size]
  <2>1. first = 0 \/ first \in 1..size BY <1>1, <1>2 DEF LinkedAs
  <2>2. i \in 0..size BY <1>4
  <2>3. CASE first = 0
    BY <1>2, <1>3, <2>2, <2>3 DEF Linked
  <2>4. CASE first # 0
    <3>1. link[first] \in 0..size BY <1>2, <2>1, <2>4
    <3>. QED BY <1>2, <1>3, <2>2, <2>4, <3>1 DEF Linked
  <2>. QED BY <2>3, <2>4
<1>14. LinkedAs(o1)' BY <1>3, <1>5, <1>9, <1>10, <1>11, <1>12 DEF LinkedAs
<1>15. CameTo(o1)' BY DEF CameTo
<1>16. filled' \in Nat /\ link' \in [1..size' -> 0..size'] BY <1>2, <1>3, <1>13
<1>17. o1 \in [1..filled' -> 1..size'] BY <1>3, <1>5
<1>. QED BY <1>14, <1>15, <1>16, <1>17 DEF Listed

LEMMA Appended ==
  ASSUME NEW m \in Nat, NEW S, NEW f \in [1..(m + 1) -> S]
  PROVE  Append([n \in 1..m |-> f[n]], f[m + 1]) = [n \in 1..(m + 1) |-> f[n]]
<1>. DEFINE s == [n \in 1..m |-> f[n]]
<1>1. \A n \in 1..m : n \in 1..(m + 1) OBVIOUS
<1>2. s \in Seq(S) /\ Len(s) = m BY <1>1
<1>3. m + 1 \in 1..(m + 1) OBVIOUS
<1>4. Append(s, f[m + 1]) = [n \in 1..(m + 1) |-> IF n = m + 1 THEN f[m + 1] ELSE s[n]]
  BY <1>2, <1>3
<1>5. \A n \in 1..(m + 1) : (IF n = m + 1 THEN f[m + 1] ELSE s[n]) = f[n] OBVIOUS
<1>. QED BY <1>4, <1>5

LEMMA IterateListed ==
  ASSUME HashOrderInv, Iterate_
  PROVE  Listed'
<1>1. PICK o \in [1..filled -> 1..size] : LinkedAs(o) /\ CameTo(o)
  BY DEF HashOrderInv, Listed
<1>2. filled \in Nat /\ link \in [1..size -> 0..size] BY DEF HashOrderInv, Listed
<1>3. /\ hpc = "iterate" /\ ~AtLast /\ UNCHANGED <<tablevars, hpc>>
      /\ ptr' = link[IF ptr = 0 THEN first ELSE ptr]
      /\ seen' = Append(seen, table[ptr'].key)
  BY DEF Iterate_
<1>4. PICK m \in 0..filled : /\ ptr = IF m = 0 THEN 0 ELSE o[m]
                             /\ seen = [n \in 1..m |-> table[o[n]].key]
  BY <1>1, <1>3 DEF CameTo
<1>5. \A n \in 1..filled : o[n] \in 1..size /\ o[n] # 0 OBVIOUS
<1>6. first = IF filled = 0 THEN 0 ELSE o[filled] BY <1>1 DEF LinkedAs
<1>7. m # filled
  <2>. SUFFICES ASSUME m = filled PROVE FALSE
    OBVIOUS
  <2>1. CASE m = 0 BY <1>3, <1>4, <1>6, <2>1 DEF AtLast
  <2>2. CASE m # 0
    <3>1. m \in 1..filled BY <1>2, <1>4, <2>2
    <3>. QED BY <1>3, <1>4, <1>5, <1>6, <2>2, <3>1 DEF AtLast
  <2>. QED BY <2>1, <2>2
<1>8. m \in Nat /\ m + 1 \in 1..filled BY <1>2, <1>4, <1>7
<1>9. ptr' = o[m + 1]
  <2>0. \A n \in 1..filled : link[o[n]] = IF n = filled THEN o[1] ELSE o[n + 1]
    BY <1>1 DEF LinkedAs
  <2>1. CASE m = 0
    <3>1. filled \in 1..filled /\ filled # 0 BY <1>2, <1>8
    <3>2. link[o[filled]] = o[1] BY <2>0, <3>1
    <3>. QED BY <1>3, <1>4, <1>6, <2>1, <3>1, <3>2
  <2>2. CASE m # 0
    <3>1. m \in 1..filled BY <1>2, <1>4, <2>2
    <3>2. link[o[m]] = o[m + 1] BY <1>7, <2>0, <3>1
    <3>. QED BY <1>3, <1>4, <1>5, <2>2, <3>1, <3>2
  <2>. QED BY <2>1, <2>2
<1>. DEFINE f == [n \in 1..(m + 1) |-> table[o[n]].key]
<1>10. \A n \in 1..(m + 1) : n \in 1..filled BY <1>2, <1>8
<1>11. \A n \in 1..filled : table[o[n]].key \in HashKeys
  <2>. SUFFICES ASSUME NEW n \in 1..filled PROVE table[o[n]].key \in HashKeys
    OBVIOUS
  <2>1. table[o[n]] # Free BY <1>1 DEF LinkedAs
  <2>2. table[o[n]] \in HashEntries BY <2>1 DEF HashOrderInv, HashInv, HashTypeOK
  <2>. QED BY <2>2 DEF HashEntries
<1>12. f \in [1..(m + 1) -> HashKeys] BY <1>10, <1>11
<1>13. Append([n \in 1..m |-> f[n]], f[m + 1]) = [n \in 1..(m + 1) |-> f[n]]
  BY <1>8, <1>12, Appended
<1>14. [n \in 1..m |-> f[n]] = seen
  <2>1. \A n \in 1..m : n \in 1..(m + 1) BY <1>8
  <2>. QED BY <1>4, <2>1
<1>15. f[m + 1] = table[ptr'].key BY <1>8, <1>9
<1>16. seen' = [n \in 1..(m + 1) |-> table[o[n]].key] BY <1>3, <1>13, <1>14, <1>15
<1>17. table' = table /\ filled' = filled /\ link' = link /\ first' = first /\ size' = size
  BY <1>3 DEF tablevars
<1>18. ptr' = (IF m + 1 = 0 THEN 0 ELSE o[m + 1]) /\ m + 1 \in 0..filled BY <1>8, <1>9
<1>19. CameTo(o)' BY <1>16, <1>17, <1>18 DEF CameTo
<1>20. LinkedAs(o)' BY <1>1, <1>17 DEF LinkedAs
<1>. QED BY <1>1, <1>2, <1>17, <1>19, <1>20 DEF Listed

----------------------------------------------------------------------------
LEMMA OrderInit == HashInit => HashOrderInv
<1>. SUFFICES ASSUME HashInit PROVE HashOrderInv
  OBVIOUS
<1>1. HashInv BY InitInv
<1>2. hpc = "idle" /\ filled = 0 /\ first = 0 /\ size = next_prime(InitSize) BY DEF HashInit
<1>3. ProbeOrder BY <1>2 DEF ProbeOrder
<1>4. IsPrime(size) /\ size \in Nat BY <1>2, Sizes
<1>5. LoadFactor
  <2>1. ~(100 * 0 > 75 * size) BY <1>4
  <2>. QED BY <1>2, <1>4, <2>1 DEF LoadFactor, Crowded
<1>6. Listed
  <2>1. link \in [1..size -> 0..size] BY <1>4 DEF HashInit
  <2>2. PICK o : o = [n \in 1..0 |-> 1] OBVIOUS
  <2>3. o \in [1..filled -> 1..size] /\ 1..filled = {} BY <1>2, <2>2
  <2>4. \A i \in 1..size : table[i] = Free BY DEF HashInit, Empty
  <2>5. LinkedAs(o) BY <1>2, <2>3, <2>4 DEF LinkedAs
  <2>6. CameTo(o) BY <1>2 DEF CameTo
  <2>. QED BY <1>2, <2>1, <2>3, <2>5, <2>6 DEF Listed
<1>. QED BY <1>1, <1>3, <1>5, <1>6 DEF HashOrderInv

LEMMA NoProbe ==
  ASSUME hpc' \notin {"probe", "move"}
  PROVE  ProbeOrder'
  BY DEF ProbeOrder

(* Every step keeps the probe sequence in order.                            *)
LEMMA OrderProbes ==
  ASSUME HashOrderInv, HashNext
  PROVE  ProbeOrder'
<1>1. ASSUME NEW c \in HashRequests, Begin(c) PROVE ProbeOrder'
  <2>1. c.key \in HashKeys BY HashAssumption
  <2>2. /\ UNCHANGED <<hashval, size>> /\ idx' = Home(c.key) /\ probed' = {}
        /\ Sought' = c.key
    BY <1>1 DEF Begin, Sought, tablevars
  <2>. QED BY <2>1, <2>2, BeginKeepsOrder
<1>2. CASE Probe BY <1>2, ProbeKeepsOrder
<1>3. CASE Scan
  <2>1. CASE old[oldidx] = Free
    <3>1. hpc' = "scan" BY <1>3, <2>1 DEF Scan
    <3>. QED BY <3>1, NoProbe
  <2>2. CASE old[oldidx] # Free
    <3>1. hpc = "scan" /\ oldidx <= oldsize BY <1>3 DEF Scan, More
    <3>2. oldidx \in 1..oldsize BY <3>1 DEF HashOrderInv, HashInv, HashTypeOK
    <3>3. old[oldidx] \in HashEntries
      BY <2>2, <3>2 DEF HashOrderInv, HashInv, HashTypeOK
    <3>4. old[oldidx].key \in HashKeys BY <3>3 DEF HashEntries
    <3>5. /\ UNCHANGED <<hashval, size>>
          /\ idx' = Home(old[oldidx].key) /\ probed' = {}
          /\ Sought' = old[oldidx].key
      BY <1>3, <2>2 DEF Scan, Sought, tablevars
    <3>. QED BY <3>4, <3>5, BeginKeepsOrder
  <2>. QED BY <2>1, <2>2
<1>4. CASE Found \/ Return \/ Resize \/ Resized \/ Move
             \/ BeginIterate \/ Iterate_ \/ EndIterate
  <2>1. hpc' \notin {"probe", "move"}
    BY <1>4 DEF Found, Return, Resize, Resized, Move, BeginIterate, Iterate_, EndIterate
  <2>. QED BY <2>1, NoProbe
<1>5. CASE NotFound
  <2>1. hpc' \notin {"probe", "move"} BY <1>5 DEF NotFound
  <2>. QED BY <2>1, NoProbe
<1>. QED BY <1>1, <1>2, <1>3, <1>4, <1>5 DEF HashNext

LEMMA OrderLoad ==
  ASSUME HashOrderInv, HashNext
  PROVE  LoadFactor'
<1>. USE DEF HashOrderInv
<1>1. /\ filled \in Nat /\ size \in Nat /\ size > 2 /\ oldsize \in Nat /\ oldidx \in Nat
      /\ IsPrime(size)
  BY DEF Listed, HashInv, HashTypeOK, LoadFactor
<1>2. ASSUME UNCHANGED <<size, filled, oldsize, oldidx>>,
             \/ hpc' = hpc
             \/ /\ hpc \in {"idle", "probe", "return", "iterate"}
                /\ hpc' \in {"idle", "probe", "return", "iterate"}
             \/ hpc = "scan" /\ hpc' = "move"
      PROVE  LoadFactor'
  BY <1>1, <1>2 DEF LoadFactor, Crowded
<1>3. ASSUME NEW c \in HashRequests, Begin(c) PROVE LoadFactor'
  BY <1>2, <1>3 DEF Begin, tablevars, resizevars
<1>4. CASE Probe BY <1>2, <1>4 DEF Probe, tablevars, resizevars
<1>5. CASE Found BY <1>2, <1>5 DEF Found, resizevars
<1>6. CASE NotFound
  <2>1. UNCHANGED <<size, oldsize, oldidx>> /\ hpc = "probe"
    BY <1>6 DEF NotFound, InsertEntry, tablevars, resizevars
  <2>2. CASE call.op = "find"
    BY <1>2, <1>6, <2>2 DEF NotFound, tablevars, resizevars
  <2>3. CASE call.op # "find"
    <3>1. filled' = filled + 1 /\ hpc' = IF Crowded(filled + 1) THEN "resize" ELSE "return"
      BY <1>6, <2>3 DEF NotFound, InsertEntry
    <3>. QED BY <1>1, <2>1, <3>1 DEF LoadFactor, Crowded
  <2>. QED BY <2>2, <2>3
<1>7. CASE Return BY <1>2, <1>7 DEF Return, tablevars, resizevars
<1>8. CASE Resize
  <2>1. size \in 3..MaxSize
    BY <1>1, <1>8, SizeAssumption DEF HashInv, HashTypeOK, Resize
  <2>2. /\ size' = next_prime(2 * size) /\ filled' = 0 /\ oldsize' = size /\ oldidx' = 1
        /\ hpc' = "scan"
    BY <1>8 DEF Resize
  <2>3. 2 * size <= size' /\ IsPrime(size') BY <1>1, <2>1, <2>2, Sizes
  <2>. QED BY <1>1, <2>2, <2>3 DEF LoadFactor
<1>9. CASE Scan
  <2>1. /\ UNCHANGED <<size, filled, oldsize>> /\ hpc = "scan" /\ oldidx <= oldsize
    BY <1>9 DEF Scan, More, tablevars
  <2>2. CASE old[oldidx] = Free
    <3>1. oldidx' = oldidx + 1 /\ hpc' = "scan" BY <1>9, <2>2 DEF Scan
    <3>. QED BY <1>1, <2>1, <3>1 DEF LoadFactor
  <2>3. CASE old[oldidx] # Free
    <3>1. oldidx' = oldidx /\ hpc' = "move" BY <1>9, <2>3 DEF Scan
    <3>. QED BY <1>2, <2>1, <3>1
  <2>. QED BY <2>2, <2>3
<1>10. CASE Move
  <2>1. /\ UNCHANGED <<size, oldsize>> /\ hpc = "move" /\ hpc' = "scan"
        /\ oldidx' = oldidx + 1 /\ filled' = filled + 1
    BY <1>10 DEF Move, InsertEntry
  <2>2. oldidx \in 1..oldsize BY <2>1 DEF HashInv, HashTypeOK
  <2>. QED BY <1>1, <2>1, <2>2 DEF LoadFactor
<1>11. CASE Resized
  <2>1. UNCHANGED <<size, filled>> /\ hpc = "scan" /\ hpc' = "return"
    BY <1>11 DEF Resized, tablevars
  <2>2. filled < oldidx /\ oldidx <= oldsize + 1 /\ 2 * oldsize <= size BY <2>1 DEF LoadFactor
  <2>3. ~(100 * filled > 75 * size) BY <1>1, <2>2
  <2>. QED BY <1>1, <2>1, <2>3 DEF LoadFactor, Crowded
<1>12. CASE BeginIterate \/ Iterate_ \/ EndIterate
  BY <1>2, <1>12 DEF BeginIterate, Iterate_, EndIterate, tablevars, resizevars
<1>. QED BY <1>3, <1>4, <1>5, <1>6, <1>7, <1>8, <1>9, <1>10, <1>11, <1>12 DEF HashNext

LEMMA OrderListed ==
  ASSUME HashOrderInv, HashNext
  PROVE  Listed'
<1>. USE DEF HashOrderInv
<1>1. HashTypeOK /\ Listed BY DEF HashInv
<1>2. ASSUME UNCHANGED tablevars, hpc' # "iterate"
      PROVE  Listed'
  BY <1>1, <1>2, KeepListed DEF tablevars
<1>3. ASSUME NEW c \in HashRequests, Begin(c) PROVE Listed'
  BY <1>2, <1>3 DEF Begin
<1>4. CASE Probe
  <2>1. hpc' # "iterate" /\ UNCHANGED tablevars BY <1>4 DEF Probe
  <2>. QED BY <1>2, <2>1
<1>5. CASE Found
  <2>1. /\ UNCHANGED <<size, filled, link, first>> /\ hpc' = "return"
        /\ hpc = "probe" /\ idx \in 1..size /\ table[idx] # Free
    BY <1>1, <1>5 DEF Found, Hit, HashTypeOK
  <2>2. table[idx] \in HashEntries /\ call \in HashRequests BY <1>1, <2>1 DEF HashTypeOK
  <2>3. CASE table' = table BY <1>1, <2>1, <2>3, KeepListed
  <2>4. CASE table' = [table EXCEPT ![idx].data = call.data]
    <3>1. table[idx] = [key |-> table[idx].key, data |-> table[idx].data]
      BY <2>2 DEF HashEntries
    <3>2. [table[idx] EXCEPT !.data = call.data]
            = [key |-> table[idx].key, data |-> call.data]
      BY <3>1
    <3>3. PICK e : e = [key |-> table[idx].key, data |-> call.data] OBVIOUS
    <3>4. e \in HashEntries /\ e.key = table[idx].key
      BY <2>2, <3>3, HashAssumption DEF HashEntries
    <3>5. table' = [table EXCEPT ![idx] = e] BY <2>4, <3>2, <3>3
    <3>6. \A i \in 1..size : table'[i] = IF i = idx THEN e ELSE table[i]
      BY <1>1, <3>5 DEF HashTypeOK
    <3>7. \A i \in 1..size : /\ table'[i] # Free <=> table[i] # Free
                             /\ table[i] # Free => table'[i].key = table[i].key
      BY <2>1, <3>4, <3>6, HashAssumption
    <3>. QED BY <1>1, <2>1, <3>7, KeepListed
  <2>. QED BY <1>5, <2>3, <2>4 DEF Found
<1>6. CASE NotFound
  <2>1. /\ hpc = "probe" /\ idx \in 1..size /\ table[idx] = Free /\ hpc' # "iterate"
        /\ call \in HashRequests
    BY <1>1, <1>6 DEF NotFound, HashTypeOK
  <2>2. CASE UNCHANGED tablevars BY <1>2, <2>1, <2>2
  <2>3. CASE InsertEntry(call.key, call.data, idx)
    <3>1. PICK i \in 1..size : i = idx BY <2>1
    <3>2. PICK k \in HashKeys : k = call.key BY <2>1, HashAssumption
    <3>3. PICK d \in HashData : d = call.data BY <2>1, HashAssumption
    <3>4. InsertEntry(k, d, i) /\ table[i] = Free BY <2>1, <2>3, <3>1, <3>2, <3>3
    <3>. QED BY <1>1, <2>1, <3>4, InsertListed
  <2>. QED BY <1>6, <2>2, <2>3 DEF NotFound
<1>7. CASE Return BY <1>2, <1>7 DEF Return
<1>8. CASE Resize
  <2>1. /\ filled' = 0 /\ first' = 0 /\ hpc' = "scan" /\ size' = next_prime(2 * size)
        /\ table' = [i \in 1..size' |-> Free] /\ link' = [i \in 1..size' |-> 0]
    BY <1>8 DEF Resize, Empty
  <2>2. size' \in Nat
    <3>1. size \in 3..MaxSize BY <1>1, <1>8, SizeAssumption DEF HashTypeOK, Resize
    <3>. QED BY <2>1, <3>1, Sizes
  <2>3. link' \in [1..size' -> 0..size'] /\ filled' \in Nat BY <2>1, <2>2
  <2>4. PICK o : o = [n \in 1..0 |-> 1] OBVIOUS
  <2>5. o \in [1..filled' -> 1..size'] /\ 1..filled' = {} BY <2>1, <2>4
  <2>6. \A i \in 1..size' : table'[i] = Free BY <2>1
  <2>7. LinkedAs(o)' BY <2>1, <2>5, <2>6 DEF LinkedAs
  <2>8. CameTo(o)' BY <2>1 DEF CameTo
  <2>. QED BY <2>3, <2>5, <2>7, <2>8 DEF Listed
<1>9. CASE Scan
  <2>1. hpc' # "iterate" /\ UNCHANGED tablevars BY <1>9 DEF Scan
  <2>. QED BY <1>2, <2>1
<1>10. CASE Move
  <2>1. /\ hpc = "move" /\ old[oldidx] \in HashEntries /\ table[idx] = Free
        /\ InsertEntry(old[oldidx].key, old[oldidx].data, idx) /\ hpc' = "scan"
    BY <1>10, MoveToFree DEF Move
  <2>2. PICK i \in 1..size : i = idx BY <1>1, <2>1 DEF HashTypeOK
  <2>3. PICK k \in HashKeys : k = old[oldidx].key BY <2>1 DEF HashEntries
  <2>4. PICK d \in HashData : d = old[oldidx].data BY <2>1 DEF HashEntries
  <2>5. InsertEntry(k, d, i) /\ table[i] = Free BY <2>1, <2>2, <2>3, <2>4
  <2>. QED BY <1>1, <2>1, <2>5, InsertListed
<1>11. CASE Resized BY <1>2, <1>11 DEF Resized
<1>12. CASE BeginIterate
  BY <1>1, <1>12, KeepListed DEF BeginIterate, tablevars
<1>13. CASE Iterate_ BY <1>13, IterateListed
<1>14. CASE EndIterate BY <1>2, <1>14 DEF EndIterate
<1>. QED BY <1>3, <1>4, <1>5, <1>6, <1>7, <1>8, <1>9, <1>10, <1>11, <1>12, <1>13, <1>14
         DEF HashNext

LEMMA OrderStutter ==
  ASSUME HashOrderInv, UNCHANGED hashvars
  PROVE  ProbeOrder' /\ LoadFactor' /\ Listed'
<1>. USE DEF HashOrderInv, hashvars, tablevars, lookupvars, resizevars
<1>1. ProbeOrder'
  <2>1. Sought' = Sought BY DEF Sought
  <2>2. \A k, n, i : NthProbe(k, n, i)' = NthProbe(k, n, i) BY DEF NthProbe, Home, Step
  <2>3. Cardinality(probed)' = Cardinality(probed) OBVIOUS
  <2>. QED BY <2>1, <2>2, <2>3 DEF ProbeOrder
<1>2. LoadFactor' BY DEF LoadFactor, Crowded
<1>3. Listed'
  <2>1. hpc' = "iterate" => hpc = "iterate" /\ UNCHANGED iteratevars OBVIOUS
  <2>. QED BY <2>1, KeepListed
<1>. QED BY <1>1, <1>2, <1>3

(* The stronger invariant: the indices that are probed are the first ones   *)
(* of a probe sequence, an entry is always free (hash.c, insert_entry_2 and *)
(* resize), and the circular list holds each entry once.                    *)
THEOREM HashOrderInvariant == HashSpec => []HashOrderInv
<1>1. HashInit => HashOrderInv BY OrderInit
<1>2. HashInv /\ HashOrderInv /\ HashInv' /\ [HashNext]_hashvars => HashOrderInv'
  BY OrderProbes, OrderLoad, OrderListed, OrderStutter DEF HashOrderInv
<1>3. HashOrderInv => HashInv BY DEF HashOrderInv
<1>4. HashSpec => []HashInv BY HashInvariant
<1>. QED BY <1>1, <1>2, <1>3, <1>4, PTL DEF HashSpec

(* A lookup comes to no index twice, for every table size, number of        *)
(* entries and hash function (hash.c, lookup): the size is a prime, so that *)
(* the second hash function leads to every index, and one of them is free.  *)
THEOREM HashProbesAdvance == HashSpec => []ProbesAdvance
<1>1. HashOrderInv => ProbesAdvance BY NeverBack
<1>. QED BY <1>1, HashOrderInvariant, PTL

(* hash_iterate returns every key once (hash.c, hash_iterate).              *)
LEMMA Complete == HashOrderInv => IterationComplete
<1>. SUFFICES ASSUME HashOrderInv, hpc = "iterate", AtLast
              PROVE  /\ { seen[n] : n \in 1..Len(seen) } = { e.key : e \in Stored }
                     /\ Len(seen) = Cardinality(Stored)
  BY DEF IterationComplete
<1>1. PICK o \in [1..filled -> 1..size] : LinkedAs(o) /\ CameTo(o)
  BY DEF HashOrderInv, Listed
<1>2. filled \in Nat BY DEF HashOrderInv, Listed
<1>3. PICK m \in 0..filled : /\ ptr = IF m = 0 THEN 0 ELSE o[m]
                             /\ seen = [n \in 1..m |-> table[o[n]].key]
  BY <1>1 DEF CameTo
<1>4. first = IF filled = 0 THEN 0 ELSE o[filled] BY <1>1 DEF LinkedAs
<1>5. \A n \in 1..filled : o[n] \in 1..size /\ o[n] # 0 OBVIOUS
<1>6. \A i, j \in 1..filled : o[i] = o[j] => i = j BY <1>1 DEF LinkedAs
<1>7. m = filled
  <2>1. CASE m = 0
    <3>1. first = 0 BY <1>3, <2>1 DEF AtLast
    <3>2. filled # 0 => filled \in 1..filled BY <1>2
    <3>. QED BY <1>4, <1>5, <2>1, <3>1, <3>2
  <2>2. CASE m # 0
    <3>1. m \in 1..filled /\ filled \in 1..filled /\ filled # 0 BY <1>2, <1>3, <2>2
    <3>2. ptr = o[m] /\ ptr # 0 BY <1>3, <1>5, <2>2, <3>1
    <3>3. ptr = first BY <3>2 DEF AtLast
    <3>. QED BY <1>4, <1>6, <3>1, <3>2, <3>3
  <2>. QED BY <2>1, <2>2
<1>8. seen = [n \in 1..filled |-> table[o[n]].key] BY <1>3, <1>7
<1>9. Stored = { table[i] : i \in Used }
  <2>1. oldsize = 0 BY DEF HashOrderInv, HashInv, HashTypeOK
  <2>2. Moving = {} BY <2>1 DEF Moving
  <2>. QED BY <2>2 DEF Stored, Used
<1>10. /\ \A n \in 1..filled : o[n] \in Used
       /\ \A i \in Used : \E n \in 1..filled : o[n] = i
  BY <1>1 DEF LinkedAs, Used
<1>11. PICK f : f = [n \in 1..filled |-> table[o[n]]] OBVIOUS
<1>12. f \in [1..filled -> Stored] BY <1>9, <1>10, <1>11
<1>13. \A i, j \in 1..filled : f[i] = f[j] => i = j
  <2>1. \A i, j \in Used : table[i] = table[j] => i = j
    BY DEF Used, HashOrderInv, HashInv, UniqueKeys
  <2>. QED BY <1>6, <1>10, <1>11, <2>1
<1>14. \A e \in Stored : \E n \in 1..filled : f[n] = e BY <1>9, <1>10, <1>11
<1>15. Cardinality(Stored) = filled BY <1>2, <1>12, <1>13, <1>14, Enumerated
<1>16. Len(seen) = filled
  <2>1. \A n \in 1..filled : table[o[n]].key \in HashKeys
    <3>. SUFFICES ASSUME NEW n \in 1..filled PROVE table[o[n]].key \in HashKeys
      OBVIOUS
    <3>1. o[n] \in 1..size /\ table[o[n]] # Free BY <1>10 DEF Used
    <3>2. table[o[n]] \in HashEntries BY <3>1 DEF HashOrderInv, HashInv, HashTypeOK
    <3>. QED BY <3>2 DEF HashEntries
  <2>2. seen \in [1..filled -> HashKeys] BY <1>8, <2>1
  <2>. QED BY <1>2, <2>2
<1>17. \A n \in 1..filled : seen[n] = f[n].key BY <1>8, <1>11
<1>18. { seen[n] : n \in 1..filled } = { e.key : e \in Stored }
  BY <1>12, <1>14, <1>17
<1>. QED BY <1>15, <1>16, <1>18

(* hash_iterate goes through the circular list once, and returns every key  *)
(* of the table once, in whatever order, whatever was inserted and however  *)
(* often the table was enlarged (hash.c, hash_iterate, insert_entry_2).     *)
THEOREM HashIterationComplete == HashSpec => []IterationComplete
<1>1. HashOrderInv => IterationComplete BY Complete
<1>. QED BY <1>1, HashOrderInvariant, PTL

----------------------------------------------------------------------------
(* MoFile: the strings of a file and the size of its table.                 *)

MoIndices == 0..(hash_tab_size - 1)

(* V are filled entries on which the search for k stays until it comes to i. *)
MoPath(k, i, V) ==
  /\ Home_(k) \in V \cup {i}
  /\ \A v \in V : hash_tab[v] # 0 /\ Advance(k, v) \in V \cup {i}

(* The search for k comes to i after n steps.                               *)
MoNth(k, n, i) ==
  i \in MoIndices /\ \E q \in 0..n : i + q * hash_tab_size = Home_(k) + n * Incr(k)

MoTypeOK ==
  /\ mo \in MoInputs /\ hash_string \in MoHashes
  /\ mopc \in {"write", "load", "ready", "probe", "bisect", "found", "invalid"}
  /\ hash_tab \in [MoIndices -> 0..Strings]
  /\ moidx \in MoIndices /\ visited \in SUBSET MoIndices
  /\ bottom \in 0..nstrings /\ top \in 0..nstrings

(* How far the file is.                                                     *)
MoProgress ==
  /\ string \in 1..(Strings + 1)
  /\ mopc = "write" => string <= nstrings + 1
  /\ mopc = "load" => string > nstrings
  /\ mopc \in {"ready", "probe", "bisect", "found"} => string = Strings + 1
  /\ mopc \in {"probe", "bisect"} => query \in MoKeys
  /\ mopc = "probe" => Hashed

(* The strings before "string" are in the table, each once, and where the   *)
(* search for them leads.                                                   *)
MoTable ==
  Hashed =>
    /\ \A i \in MoIndices : hash_tab[i] < string
    /\ \A i, j \in MoIndices : hash_tab[i] = hash_tab[j] /\ hash_tab[i] # 0 => i = j
    /\ \A n \in 1..(string - 1) : \E i \in MoIndices, V \in SUBSET MoIndices :
         hash_tab[i] = n /\ MoPath(Orig(n), i, V)

Searching == Entering \/ Loading \/ mopc = "probe"

(* The search so far.                                                       *)
MoSearch ==
  Searching =>
    /\ MoPath(Key, moidx, visited)
    /\ MoNth(Key, Cardinality(visited), moidx)
    /\ \A v \in visited : \E n \in 0..(Cardinality(visited) - 1) : MoNth(Key, n, v)

(* A string that is looked for lies ahead.                                  *)
MoAhead ==
  /\ mopc = "probe" =>
       \A n \in 1..Strings : Orig(n) = query =>
         \E i \in MoIndices, V \in SUBSET MoIndices :
           hash_tab[i] = n /\ MoPath(query, i, V) /\ moidx \in V \cup {i}
  /\ mopc = "bisect" =>
       /\ ~Hashed /\ act = 0
       /\ \A n \in 1..Strings : Orig(n) = query => bottom < n /\ n <= top

MoAnswer ==
  mopc = "found" =>
    IF act = 0 THEN \A n \in 1..Strings : Orig(n) # query
    ELSE act \in 1..Strings /\ Orig(act) = query

MoInv == MoTypeOK /\ MoProgress /\ MoTable /\ MoSearch /\ MoAhead /\ MoAnswer

(* The ranks of the elements of a finite set of numbers are 1, 2, ..., each *)
(* once.                                                                    *)
UpTo(S, k) == { x \in S : x <= k }

LEMMA Ranks ==
  ASSUME NEW S \in SUBSET Nat, IsFiniteSet(S)
  PROVE  /\ Cardinality(S) \in Nat
         /\ \A k \in S : Cardinality(UpTo(S, k)) \in 1..Cardinality(S)
         /\ \A k, l \in S : k < l => Cardinality(UpTo(S, k)) < Cardinality(UpTo(S, l))
<1>. DEFINE c == Cardinality(S)
<1>1. c \in Nat BY FS_CardinalityType
<1>2. ASSUME NEW k \in S
      PROVE  /\ IsFiniteSet(UpTo(S, k)) /\ Cardinality(UpTo(S, k)) \in Nat
             /\ Cardinality(UpTo(S, k)) <= c /\ Cardinality(UpTo(S, k)) # 0
  <2>1. UpTo(S, k) \in SUBSET S /\ k \in UpTo(S, k) BY DEF UpTo
  <2>2. IsFiniteSet(UpTo(S, k)) /\ Cardinality(UpTo(S, k)) <= c BY <2>1, FS_Subset
  <2>3. Cardinality(UpTo(S, k)) \in Nat BY <2>2, FS_CardinalityType
  <2>4. Cardinality(UpTo(S, k)) # 0 BY <2>1, <2>2, FS_EmptySet
  <2>. QED BY <2>2, <2>3, <2>4
<1>3. ASSUME NEW k \in S, NEW l \in S, k < l
      PROVE  Cardinality(UpTo(S, k)) < Cardinality(UpTo(S, l))
  <2>3. k \in Nat /\ l \in Nat /\ k < l BY <1>3
  <2>4. \A x \in S : x \in Nat /\ (x <= k => x <= l) BY <2>3
  <2>5. UpTo(S, k) \in SUBSET UpTo(S, l) BY <2>4 DEF UpTo
  <2>6. l <= l /\ ~(l <= k) BY <2>3
  <2>1. UpTo(S, k) \in SUBSET UpTo(S, l) /\ l \in UpTo(S, l) /\ l \notin UpTo(S, k)
    BY <2>5, <2>6, Zenon DEF UpTo
  <2>2. /\ Cardinality(UpTo(S, k)) <= Cardinality(UpTo(S, l))
        /\ Cardinality(UpTo(S, l)) # Cardinality(UpTo(S, k))
    BY <1>2, <2>1, FS_Subset
  <2>. QED BY <1>2, <2>2
<1>. QED BY <1>1, <1>2, <1>3

LEMMA NthOfSet ==
  ASSUME NEW S \in SUBSET Nat, IsFiniteSet(S)
  PROVE  /\ \A n \in 1..Cardinality(S) : NthOf(S, n) \in S
         /\ \A m, n \in 1..Cardinality(S) : m < n => NthOf(S, m) < NthOf(S, n)
<1>. DEFINE c == Cardinality(S)
            r == [k \in S |-> Cardinality(UpTo(S, k))]
<1>1. c \in Nat BY Ranks
<1>2. r \in [S -> 1..c] BY Ranks
<1>3. \A k, l \in S : r[k] = r[l] => k = l
  <2>. SUFFICES ASSUME NEW k \in S, NEW l \in S, r[k] = r[l], k # l PROVE FALSE
    OBVIOUS
  <2>1. r[k] \in Nat /\ r[l] \in Nat BY <1>2
  <2>2. k < l \/ l < k OBVIOUS
  <2>3. r[k] < r[l] \/ r[l] < r[k] BY <2>2, Ranks
  <2>. QED BY <2>1, <2>3
<1>4. r \in Injection(S, 1..c) BY <1>2, <1>3, Zenon DEF Injection, IsInjective
<1>5. IsFiniteSet(1..c) /\ Cardinality(1..c) = c
  <2>1. 0 \in Int /\ 1 \in Int /\ c \in Int BY <1>1
  <2>2. IsFiniteSet(1..c) /\ Cardinality(1..c) = IF 1 > c THEN 0 ELSE c - 1 + 1
    BY <2>1, FS_Interval
  <2>. QED BY <1>1, <2>2
<1>6. r \in Surjection(S, 1..c) BY <1>4, <1>5, FS_Injection
<1>7. ASSUME NEW n \in 1..c
      PROVE  NthOf(S, n) \in S /\ r[NthOf(S, n)] = n
  <2>1. \E k \in S : r[k] = n BY <1>6, Zenon DEF Surjection
  <2>2. \E k \in S : Cardinality({ x \in S : x <= k }) = n BY <2>1 DEF UpTo
  <2>3. NthOf(S, n) \in S /\ Cardinality({ x \in S : x <= NthOf(S, n) }) = n
    BY <2>2, Zenon DEF NthOf
  <2>. QED BY <2>3 DEF UpTo
<1>8. ASSUME NEW m \in 1..c, NEW n \in 1..c, m < n
      PROVE  NthOf(S, m) < NthOf(S, n)
  <2>. DEFINE k == NthOf(S, m)
              l == NthOf(S, n)
  <2>1. k \in S /\ l \in S /\ r[k] = m /\ r[l] = n BY <1>7
  <2>. HIDE DEF k, l
  <2>2. k \in Nat /\ l \in Nat /\ k # l BY <1>8, <2>1
  <2>3. ASSUME l < k PROVE FALSE
    <3>1. r[l] < r[k] BY <2>1, <2>3, Ranks
    <3>. QED BY <1>8, <2>1, <3>1
  <2>4. k < l BY <2>2, <2>3
  <2>. QED BY <2>4 DEF k, l
<1>. QED BY <1>7, <1>8

(* next_prime takes 1 for a prime.                                          *)
LEMMA SmallPrimes == next_prime(0) = 1 /\ next_prime(1) = 1
<1>1. is_prime(1) BY DEF is_prime
<1>2. ASSUME NEW n \in {0, 1} PROVE next_prime(n) = 1
  <2>1. Odd(n) = 1 BY DEF Odd
  <2>2. 2 * n + 3 \in Nat /\ 2 * n + 3 >= 3 OBVIOUS
  <2>. DEFINE m == 2 * n + 3
              Q(p) == \A q \in 1..(p - 1) : q % 2 = 1 => ~is_prime(q)
  <2>3. next_prime(n) = CHOOSE p \in 1..m : p % 2 = 1 /\ is_prime(p) /\ Q(p)
    BY <2>1 DEF next_prime
  <2>. HIDE DEF m
  <2>4. 1 \in 1..m /\ 1 % 2 = 1 /\ Q(1) BY <2>2 DEF m
  <2>5. ASSUME NEW p \in 1..m, Q(p) PROVE p = 1
    <3>1. ASSUME p # 1 PROVE FALSE
      <4>1. 1 \in 1..(p - 1) BY <2>2, <3>1 DEF m
      <4>2. 1 % 2 = 1 OBVIOUS
      <4>. QED BY <1>1, <2>5, <4>1, <4>2
    <3>. QED BY <3>1
  <2>. HIDE DEF Q
  <2>. QED BY <1>1, <2>3, <2>4, <2>5, Zenon
<1>. QED BY <1>2

(* What depends on the file and the hash function only.                     *)
MoConst ==
  /\ hash_tab_size \in Nat /\ hash_tab_size > 2 /\ IsPrime(hash_tab_size)
  /\ nstrings \in Nat /\ Strings \in Nat /\ nstrings <= Strings /\ Strings < hash_tab_size
  /\ ~Hashed => Strings = nstrings
  /\ \A n \in 1..Strings : Orig(n) \in MoKeys
  /\ \A m, n \in 1..nstrings : m < n => Orig(m) < Orig(n)
  /\ \A k \in MoKeys : /\ Home_(k) \in MoIndices /\ Incr(k) \in 1..(hash_tab_size - 2)
                       /\ \A i \in MoIndices : Advance(k, i) \in MoIndices

(* The table is larger than the number of strings, and its size is a prime. *)
LEMMA TableLarger ==
  ASSUME NEW N \in Nat,
         (N * 4) \div 3 > 1 =>
           \E p \in Odd((N * 4) \div 3)..(2 * ((N * 4) \div 3) + 3) : p % 2 = 1 /\ is_prime(p)
  PROVE  TableSize(N) \in Nat /\ TableSize(N) > 2 /\ TableSize(N) > N /\ IsPrime(TableSize(N))
<1>. DEFINE n == (N * 4) \div 3
<1>1. n \in Nat /\ (n <= 1 => N <= 1) /\ (N > 2 => n > N) /\ n >= N OBVIOUS
<1>2. IsPrime(3)
  <2>1. \A a, b \in 1..3 : a * b = 3 => a = 1 \/ b = 1 OBVIOUS
  <2>. QED BY <2>1 DEF IsPrime
<1>3. TableSize(N) = IF next_prime(n) <= 2 THEN 3 ELSE next_prime(n) BY DEF TableSize
<1>4. CASE n <= 1
  <2>. HIDE DEF n
  <2>1. n = 0 \/ n = 1 BY <1>1, <1>4
  <2>2. next_prime(n) = 1 BY <2>1, SmallPrimes
  <2>3. TableSize(N) = 3 BY <1>3, <2>2
  <2>. QED BY <1>1, <1>2, <1>4, <2>3
<1>5. CASE n > 1
  <2>1. \E p \in Odd(n)..(2 * n + 3) : p % 2 = 1 /\ is_prime(p) BY <1>5
  <2>. HIDE DEF n
  <2>2. /\ next_prime(n) \in Nat /\ next_prime(n) > 2 /\ next_prime(n) >= n
        /\ IsPrime(next_prime(n))
    BY <1>1, <1>5, <2>1, NextPrime
  <2>3. TableSize(N) = next_prime(n) BY <1>3, <2>2
  <2>. QED BY <1>1, <2>2, <2>3
<1>. QED BY <1>1, <1>4, <1>5

LEMMA MoStrings ==
  ASSUME mo \in MoInputs
  PROVE  /\ mo.static \in SUBSET Nat /\ mo.static \in SUBSET MoKeys /\ IsFiniteSet(mo.static)
         /\ mo.sysdep \in Seq(MoKeys \cup {0}) /\ Len(mo.sysdep) \in Nat
         /\ Present \in SUBSET (1..Len(mo.sysdep)) /\ IsFiniteSet(Present)
         /\ \A i \in Present : mo.sysdep[i] \in MoKeys
         /\ nstrings \in Nat /\ Cardinality(Present) \in Nat
         /\ Cardinality(Present) <= Len(mo.sysdep)
<1>1. /\ mo.static \subseteq MoKeys /\ IsFiniteSet(mo.static)
      /\ mo.sysdep \in Seq(MoKeys \cup {0}) /\ MoKeys \subseteq Nat
  BY MoAssumption, Zenon
<1>2. Len(mo.sysdep) \in Nat /\ \A i \in 1..Len(mo.sysdep) : mo.sysdep[i] \in MoKeys \cup {0}
  BY <1>1
<1>3. Present \in SUBSET (1..Len(mo.sysdep)) /\ \A i \in Present : mo.sysdep[i] \in MoKeys
  BY <1>2 DEF Present
<1>4. IsFiniteSet(1..Len(mo.sysdep)) /\ Cardinality(1..Len(mo.sysdep)) = Len(mo.sysdep)
  <2>1. 0 \in Int /\ 1 \in Int /\ Len(mo.sysdep) \in Int BY <1>2
  <2>2. /\ IsFiniteSet(1..Len(mo.sysdep))
        /\ Cardinality(1..Len(mo.sysdep)) =
             IF 1 > Len(mo.sysdep) THEN 0 ELSE Len(mo.sysdep) - 1 + 1
    BY <2>1, FS_Interval
  <2>. QED BY <1>2, <2>2
<1>5. IsFiniteSet(Present) /\ Cardinality(Present) <= Len(mo.sysdep)
  BY <1>3, <1>4, FS_Subset
<1>6. Cardinality(Present) \in Nat BY <1>5, FS_CardinalityType
<1>7. nstrings \in Nat BY <1>1, FS_CardinalityType DEF nstrings
<1>. QED BY <1>1, <1>2, <1>3, <1>5, <1>6, <1>7

LEMMA MoConstant ==
  ASSUME mo \in MoInputs, hash_string \in MoHashes
  PROVE  MoConst
<1>. DEFINE present == Cardinality(Present)
<1>1. /\ nstrings \in Nat /\ present \in Nat /\ Strings = nstrings + present
      /\ present <= Len(mo.sysdep) /\ Len(mo.sysdep) \in Nat
  BY MoStrings DEF Strings
<1>2. /\ hash_tab_size \in Nat /\ hash_tab_size > 2 /\ IsPrime(hash_tab_size)
      /\ Strings < hash_tab_size
  <2>1. Nitems = Cardinality(mo.static) + Len(mo.sysdep) BY DEF Nitems
  <2>2. Nitems \in Nat /\ Strings <= Nitems BY <1>1, <2>1 DEF nstrings
  <2>3. (Nitems * 4) \div 3 > 1 =>
          \E p \in Odd((Nitems * 4) \div 3)..(2 * ((Nitems * 4) \div 3) + 3) :
            p % 2 = 1 /\ is_prime(p)
    BY <2>1, MoSizeAssumption
  <2>4. /\ TableSize(Nitems) \in Nat /\ TableSize(Nitems) > 2 /\ TableSize(Nitems) > Nitems
        /\ IsPrime(TableSize(Nitems))
    BY <2>2, <2>3, TableLarger
  <2>. QED BY <1>1, <2>2, <2>4 DEF hash_tab_size
<1>3. ~Hashed => Strings = nstrings
  <2>. SUFFICES ASSUME ~Hashed PROVE present = 0
    BY <1>1
  <2>1. Len(mo.sysdep) = 0 BY DEF Hashed
  <2>. QED BY <1>1, <2>1
<1>4. ASSUME NEW n \in 1..Strings PROVE Orig(n) \in MoKeys
  <2>1. CASE n <= nstrings
    <3>1. n \in 1..Cardinality(mo.static) BY <1>1, <2>1 DEF nstrings
    <3>2. NthOf(mo.static, n) \in mo.static BY <3>1, MoStrings, NthOfSet
    <3>. QED BY <2>1, <3>2, MoStrings DEF Orig
  <2>2. CASE ~(n <= nstrings)
    <3>1. n - nstrings \in 1..present BY <1>1, <2>2
    <3>2. Present \in SUBSET Nat BY MoStrings
    <3>3. NthOf(Present, n - nstrings) \in Present BY <3>1, <3>2, MoStrings, NthOfSet
    <3>. QED BY <2>2, <3>3, MoStrings DEF Orig
  <2>. QED BY <2>1, <2>2
<1>5. ASSUME NEW m \in 1..nstrings, NEW n \in 1..nstrings, m < n
      PROVE  Orig(m) < Orig(n)
  <2>1. m <= nstrings /\ n <= nstrings BY <1>1
  <2>2. NthOf(mo.static, m) < NthOf(mo.static, n)
    BY <1>5, MoStrings, NthOfSet DEF nstrings
  <2>. QED BY <2>1, <2>2 DEF Orig
<1>6. ASSUME NEW k \in MoKeys
      PROVE  /\ Home_(k) \in MoIndices /\ Incr(k) \in 1..(hash_tab_size - 2)
             /\ \A i \in MoIndices : Advance(k, i) \in MoIndices
  <2>. DEFINE z == hash_tab_size
              h == hash_string[k]
  <2>1. h \in Nat BY MoAssumption
  <2>2. z \in Nat /\ z > 2 /\ z - 2 \in Nat /\ z - 2 > 0 BY <1>2
  <2>. HIDE DEF z, h
  <2>3. h % z \in 0..(z - 1) BY <2>1, <2>2, Modulo
  <2>4. h % (z - 2) \in 0..((z - 2) - 1) BY <2>1, <2>2, Modulo
  <2>5. Home_(k) \in MoIndices BY <2>3 DEF Home_, MoIndices, h, z
  <2>6. 1 + (h % (z - 2)) \in 1..(z - 2) BY <2>2, <2>4
  <2>7. Incr(k) \in 1..(z - 2) BY <2>6 DEF Incr, h, z
  <2>8. ASSUME NEW i \in 0..(z - 1), NEW s \in 1..(z - 2)
        PROVE  (IF i >= z - s THEN i - (z - s) ELSE i + s) \in 0..(z - 1)
    BY <2>2
  <2>9. \A i \in MoIndices : Advance(k, i) \in MoIndices
    BY <2>7, <2>8 DEF Advance, MoIndices, z
  <2>. QED BY <2>5, <2>7, <2>9 DEF z
<1>. QED BY <1>1, <1>2, <1>3, <1>4, <1>5, <1>6 DEF MoConst

LEMMA MoSame ==
  ASSUME UNCHANGED <<mo, hash_string>>
  PROVE  /\ hash_tab_size' = hash_tab_size /\ nstrings' = nstrings /\ Strings' = Strings
         /\ Hashed' <=> Hashed
         /\ MoIndices' = MoIndices
         /\ Orig(string)' = Orig(string')
         /\ \A n : Orig(n)' = Orig(n)
         /\ \A k : Home_(k)' = Home_(k)
         /\ \A k, i : Advance(k, i)' = Advance(k, i)
         /\ \A k, n, i : MoNth(k, n, i)' <=> MoNth(k, n, i)
<1>1. hash_tab_size' = hash_tab_size BY DEF hash_tab_size, Nitems
<1>2. nstrings' = nstrings /\ Present' = Present BY DEF nstrings, Present
<1>3. Strings' = Strings BY <1>2 DEF Strings
<1>4. Hashed' <=> Hashed BY DEF Hashed
<1>5. MoIndices' = MoIndices BY <1>1 DEF MoIndices
<1>6. Orig(string)' = Orig(string') /\ \A n : Orig(n)' = Orig(n) BY <1>2 DEF Orig
<1>7. \A k : Home_(k)' = Home_(k) /\ Incr(k)' = Incr(k) BY <1>1 DEF Home_, Incr
<1>8. \A k, i : Advance(k, i)' = Advance(k, i) BY <1>1, <1>7 DEF Advance
<1>9. \A k, n, i : MoNth(k, n, i)' <=> MoNth(k, n, i)
  BY <1>1, <1>5, <1>7, Zenon DEF MoNth
<1>. QED BY <1>1, <1>2, <1>3, <1>4, <1>5, <1>6, <1>7, <1>8, <1>9

----------------------------------------------------------------------------
(* The search never comes back.                                             *)

LEMMA MoStart ==
  ASSUME MoConst, NEW k \in MoKeys
  PROVE  MoNth(k, 0, Home_(k))
<1>1. Home_(k) \in MoIndices /\ Incr(k) \in 1..(hash_tab_size - 2) BY DEF MoConst
<1>2. Home_(k) \in Nat /\ Incr(k) \in Nat /\ hash_tab_size \in Nat
  BY <1>1 DEF MoConst, MoIndices
<1>3. Home_(k) + 0 * hash_tab_size = Home_(k) + 0 * Incr(k) BY <1>2
<1>. QED BY <1>1, <1>3 DEF MoNth

LEMMA MoGoesOn ==
  ASSUME MoConst, NEW k \in MoKeys, NEW n \in Nat, NEW i, MoNth(k, n, i)
  PROVE  MoNth(k, n + 1, Advance(k, i))
<1>. DEFINE s == Incr(k)
            h == Home_(k)
            z == hash_tab_size
<1>1. s \in 1..(z - 2) /\ h \in 0..(z - 1) BY DEF MoConst, MoIndices
<1>2. z \in Nat /\ z > 2 BY DEF MoConst
<1>3. i \in 0..(z - 1) BY DEF MoNth, MoIndices
<1>4. PICK q \in 0..n : i + q * z = h + n * s BY DEF MoNth
<1>5. Advance(k, i) = IF i >= z - s THEN i - (z - s) ELSE i + s BY DEF Advance
<1>6. Advance(k, i) \in MoIndices BY <1>3 DEF MoConst, MoIndices
<1>. HIDE DEF s, h, z
<1>7. (n + 1) * s = n * s + s BY <1>1
<1>8. CASE i >= z - s
  <2>1. (q + 1) * z = q * z + z BY <1>2
  <2>2. (i - (z - s)) + (q + 1) * z = h + (n + 1) * s
    BY <1>1, <1>2, <1>3, <1>4, <1>7, <2>1
  <2>3. q + 1 \in 0..(n + 1) OBVIOUS
  <2>4. Advance(k, i) = i - (z - s) BY <1>5, <1>8
  <2>. QED BY <1>6, <2>2, <2>3, <2>4 DEF MoNth, s, h, z
<1>9. CASE ~(i >= z - s)
  <2>1. (i + s) + q * z = h + (n + 1) * s BY <1>1, <1>2, <1>3, <1>4, <1>7
  <2>2. q \in 0..(n + 1) OBVIOUS
  <2>3. Advance(k, i) = i + s BY <1>5, <1>9
  <2>. QED BY <1>6, <2>1, <2>2, <2>3 DEF MoNth, s, h, z
<1>. QED BY <1>8, <1>9

LEMMA MoDiffer ==
  ASSUME MoConst, NEW k \in MoKeys, NEW i, NEW m \in Nat, NEW n \in Nat,
         n < m, m < hash_tab_size, MoNth(k, m, i), MoNth(k, n, i)
  PROVE  FALSE
<1>. DEFINE s == Incr(k)
            h == Home_(k)
            z == hash_tab_size
<1>1. s \in 1..(z - 2) /\ h \in 0..(z - 1) BY DEF MoConst, MoIndices
<1>2. z \in Nat /\ z > 2 /\ IsPrime(z) /\ m < z BY DEF MoConst
<1>3. i \in 0..(z - 1) BY DEF MoNth, MoIndices
<1>4. PICK q \in 0..m : i + q * z = h + m * s BY DEF MoNth
<1>5. PICK r \in 0..n : i + r * z = h + n * s BY DEF MoNth
<1>. HIDE DEF s, h, z
<1>6. (m - n) * s = (q - r) * z
  <2>1. m * s - n * s = q * z - r * z BY <1>1, <1>2, <1>3, <1>4, <1>5
  <2>2. (m - n) * s = m * s - n * s BY <1>1
  <2>3. (q - r) * z = q * z - r * z BY <1>2
  <2>. QED BY <2>1, <2>2, <2>3
<1>7. q - r \in Nat
  <2>1. (m - n) * s > 0 BY <1>1
  <2>2. q - r \in Int OBVIOUS
  <2>. QED BY <1>2, <1>6, <2>1, <2>2
<1>8. m - n \in 1..(z - 1) /\ s \in 1..(z - 1) BY <1>1, <1>2
<1>. QED BY <1>2, <1>6, <1>7, <1>8, NoProduct

LEMMA MoKey ==
  ASSUME MoTypeOK, MoProgress, MoConst, Searching
  PROVE  Hashed /\ Key \in MoKeys
<1>1. CASE Entering
  BY <1>1 DEF Entering, Key, MoConst, MoProgress
<1>2. CASE Loading
  <2>1. string \in 1..Strings /\ string > nstrings BY <1>2 DEF Loading, MoProgress, MoConst
  <2>2. Hashed BY <2>1 DEF MoConst
  <2>3. Key = Orig(string) BY <1>2 DEF Loading, Key
  <2>. QED BY <2>1, <2>2, <2>3 DEF MoConst
<1>3. CASE mopc = "probe"
  BY <1>3 DEF Key, MoProgress
<1>. QED BY <1>1, <1>2, <1>3 DEF Searching

LEMMA MoNeverBack ==
  ASSUME MoInv, MoConst, Searching
  PROVE  /\ IsFiniteSet(visited) /\ Cardinality(visited) \in Nat
         /\ moidx \notin visited
<1>. USE DEF MoInv
<1>. DEFINE used == { i \in MoIndices : hash_tab[i] # 0 }
            f == [i \in used |-> hash_tab[i]]
            c == Cardinality(visited)
<1>1. Hashed /\ Key \in MoKeys BY MoKey
<1>2. string \in Nat /\ string - 1 \in Nat /\ string - 1 < hash_tab_size /\ hash_tab_size \in Nat
  BY DEF MoProgress, MoConst
<1>3. f \in [used -> 1..(string - 1)]
  <2>1. \A i \in MoIndices : hash_tab[i] \in Nat /\ hash_tab[i] < string
    BY <1>1 DEF MoTypeOK, MoTable
  <2>. QED BY <1>2, <2>1
<1>4. \A i, j \in used : f[i] = f[j] => i = j BY <1>1 DEF MoTable
<1>5. f \in Injection(used, 1..(string - 1)) BY <1>3, <1>4, Zenon DEF Injection, IsInjective
<1>6. IsFiniteSet(1..(string - 1)) /\ Cardinality(1..(string - 1)) = string - 1
  <2>1. 0 \in Int /\ 1 \in Int /\ string - 1 \in Int BY <1>2
  <2>2. /\ IsFiniteSet(1..(string - 1))
        /\ Cardinality(1..(string - 1)) = IF 1 > string - 1 THEN 0 ELSE (string - 1) - 1 + 1
    BY <2>1, FS_Interval
  <2>. QED BY <1>2, <2>2
<1>7. IsFiniteSet(used) /\ Cardinality(used) <= string - 1
  <2>. HIDE DEF used, f
  <2>. QED BY <1>5, <1>6, FS_Injection
<1>8. MoPath(Key, moidx, visited) BY DEF MoSearch
<1>9. visited \in SUBSET used BY <1>8 DEF MoPath, MoTypeOK
<1>. HIDE DEF used
<1>10. IsFiniteSet(visited) /\ c <= Cardinality(used) BY <1>7, <1>9, FS_Subset
<1>11. c \in Nat /\ Cardinality(used) \in Nat BY <1>7, <1>10, FS_CardinalityType
<1>12. c < hash_tab_size BY <1>2, <1>7, <1>10, <1>11
<1>13. moidx \notin visited
  <2>. SUFFICES ASSUME moidx \in visited PROVE FALSE
    OBVIOUS
  <2>1. PICK n \in 0..(c - 1) : MoNth(Key, n, moidx) BY DEF MoSearch
  <2>2. MoNth(Key, c, moidx) BY DEF MoSearch
  <2>3. n \in Nat /\ n < c BY <1>11, <2>1
  <2>. HIDE DEF c
  <2>. QED BY <1>1, <1>11, <1>12, <2>1, <2>2, <2>3, MoDiffer
<1>. QED BY <1>10, <1>11, <1>13

----------------------------------------------------------------------------
(* The steps preserve the invariant.                                        *)

LEMMA MoPathKept ==
  ASSUME UNCHANGED <<mo, hash_string>>, NEW k, NEW i, NEW V, MoPath(k, i, V),
         \A v \in V : hash_tab'[v] # 0
  PROVE  MoPath(k, i, V)'
<1>1. Home_(k)' = Home_(k) /\ \A x : Advance(k, x)' = Advance(k, x) BY MoSame
<1>. QED BY <1>1 DEF MoPath

LEMMA MoTableKept ==
  ASSUME MoTable, UNCHANGED <<mo, hash_string, hash_tab, string>>
  PROVE  MoTable'
<1>. SUFFICES ASSUME Hashed
              PROVE  /\ \A i \in MoIndices : hash_tab[i] < string
                     /\ \A i, j \in MoIndices :
                          hash_tab[i] = hash_tab[j] /\ hash_tab[i] # 0 => i = j
                     /\ \A n \in 1..(string - 1) :
                          \E i \in MoIndices, V \in SUBSET MoIndices :
                            hash_tab[i] = n /\ MoPath(Orig(n), i, V)'
  BY MoSame DEF MoTable
<1>1. ASSUME NEW n \in 1..(string - 1)
      PROVE  \E i \in MoIndices, V \in SUBSET MoIndices :
               hash_tab[i] = n /\ MoPath(Orig(n), i, V)'
  <2>1. PICK i \in MoIndices, V \in SUBSET MoIndices : hash_tab[i] = n /\ MoPath(Orig(n), i, V)
    BY DEF MoTable
  <2>2. \A v \in V : hash_tab'[v] # 0 BY <2>1 DEF MoPath
  <2>3. MoPath(Orig(n), i, V)' BY <2>1, <2>2, MoSame, MoPathKept
  <2>. QED BY <2>1, <2>3
<1>. QED BY <1>1 DEF MoTable

(* A search begins.                                                         *)
LEMMA MoSearchBegins ==
  ASSUME MoConst, UNCHANGED <<mo, hash_string>>, NEW k \in MoKeys,
         Key' = k, moidx' = Home_(k), visited' = {}
  PROVE  MoSearch'
<1>1. MoPath(k, moidx, visited)' BY MoSame DEF MoPath
<1>2. Cardinality(visited') = 0 BY FS_EmptySet
<1>3. MoNth(k, 0, moidx') BY MoStart
<1>4. MoNth(Key, Cardinality(visited), moidx)'
  <2>1. MoNth(k, 0, moidx)' BY <1>3, MoSame
  <2>. QED BY <1>2, <2>1
<1>5. MoPath(Key, moidx, visited)' BY <1>1
<1>. QED BY <1>4, <1>5 DEF MoSearch

LEMMA MoProbeStep ==
  ASSUME MoInv, MoConst, MoProbe
  PROVE  MoInv'
<1>. USE DEF MoInv
<1>1. /\ Searching /\ hash_tab[moidx] # 0 /\ ~Match
      /\ moidx' = Advance(Key, moidx) /\ visited' = visited \cup {moidx}
      /\ UNCHANGED <<mo, hash_string, mopc, hash_tab, string, query, bottom, top, act>>
  BY DEF MoProbe, Searching, searchvars
<1>2. Hashed /\ Key \in MoKeys BY <1>1, MoKey
<1>3. moidx \in MoIndices BY DEF MoTypeOK
<1>4. Advance(Key, moidx) \in MoIndices BY <1>2, <1>3 DEF MoConst
<1>5. Key' = Key BY <1>1, MoSame DEF Key
<1>6. MoTypeOK' BY <1>1, <1>3, <1>4, MoSame DEF MoTypeOK
<1>7. MoProgress' BY <1>1, MoSame DEF MoProgress
<1>8. MoTable' BY <1>1, MoTableKept
<1>9. MoSearch'
  <2>1. PICK k, c : k = Key /\ c = Cardinality(visited) OBVIOUS
  <2>2. /\ MoPath(k, moidx, visited) /\ MoNth(k, c, moidx)
        /\ \A v \in visited : \E n \in 0..(c - 1) : MoNth(k, n, v)
    BY <1>1, <2>1 DEF MoSearch
  <2>3. IsFiniteSet(visited) /\ c \in Nat /\ moidx \notin visited BY <1>1, <2>1, MoNeverBack
  <2>4. Cardinality(visited \cup {moidx}) = c + 1 BY <2>1, <2>3, FS_AddElement
  <2>5. Key' = k /\ Cardinality(visited)' = c + 1 BY <1>1, <1>5, <2>1, <2>4
  <2>6. Home_(k) \in visited' \cup {moidx'} BY <1>1, <2>1, <2>2 DEF MoPath
  <2>7. \A v \in visited' : hash_tab'[v] # 0 /\ Advance(k, v) \in visited' \cup {moidx'}
    BY <1>1, <2>1, <2>2 DEF MoPath
  <2>8. MoPath(k, moidx, visited)' BY <1>1, <2>6, <2>7, MoSame DEF MoPath
  <2>9. MoNth(k, c + 1, moidx') BY <1>1, <1>2, <2>1, <2>2, <2>3, MoGoesOn
  <2>10. \A v \in visited' : \E n \in 0..((c + 1) - 1) : MoNth(k, n, v)
    BY <1>1, <2>2, <2>3
  <2>11. /\ MoNth(k, c + 1, moidx)'
         /\ \A v \in visited' : \E n \in 0..((c + 1) - 1) : MoNth(k, n, v)'
    BY <1>1, <2>9, <2>10, MoSame
  <2>. QED BY <2>5, <2>8, <2>11 DEF MoSearch
<1>10. MoAhead'
  <2>1. CASE mopc = "probe"
    <3>1. ASSUME NEW n \in 1..Strings, Orig(n) = query
          PROVE  \E i \in MoIndices, V \in SUBSET MoIndices :
                   hash_tab[i] = n /\ MoPath(query, i, V)' /\ moidx' \in V \cup {i}
      <4>1. PICK i \in MoIndices, V \in SUBSET MoIndices :
              hash_tab[i] = n /\ MoPath(query, i, V) /\ moidx \in V \cup {i}
        BY <2>1, <3>1 DEF MoAhead
      <4>2. moidx # i BY <1>1, <2>1, <3>1, <4>1 DEF Match
      <4>3. Advance(query, moidx) \in V \cup {i} BY <4>1, <4>2 DEF MoPath
      <4>4. moidx' = Advance(query, moidx) BY <1>1, <2>1 DEF Key
      <4>5. \A v \in V : hash_tab'[v] # 0 BY <1>1, <4>1 DEF MoPath
      <4>6. MoPath(query, i, V)' BY <1>1, <4>1, <4>5, MoPathKept
      <4>. QED BY <4>1, <4>3, <4>4, <4>6
    <3>2. MoIndices' = MoIndices /\ Strings' = Strings /\ \A n : Orig(n)' = Orig(n)
      BY <1>1, MoSame
    <3>. QED BY <1>1, <2>1, <3>1, <3>2 DEF MoAhead
  <2>2. CASE mopc # "probe"
    <3>1. mopc # "bisect" BY <1>1, <2>2 DEF Searching, Entering, Loading
    <3>. QED BY <1>1, <2>2, <3>1 DEF MoAhead
  <2>. QED BY <2>1, <2>2
<1>11. MoAnswer'
  <2>1. mopc # "found" BY <1>1 DEF Searching, Entering, Loading
  <2>. QED BY <1>1, <2>1 DEF MoAnswer
<1>. QED BY <1>6, <1>7, <1>8, <1>9, <1>10, <1>11

LEMMA MoEnterTable ==
  ASSUME MoInv, MoConst, Enter
  PROVE  MoTable'
<1>. USE DEF MoInv
<1>1. /\ Searching /\ mopc # "probe" /\ hash_tab[moidx] = 0
      /\ hash_tab' = [hash_tab EXCEPT ![moidx] = string] /\ string' = string + 1
      /\ UNCHANGED <<mo, hash_string>>
  BY DEF Enter, Searching, Entering, Loading, Entry
<1>2. Hashed /\ Key \in MoKeys /\ Key = Orig(string) BY <1>1, MoKey DEF Key
<1>3. /\ hash_tab \in [MoIndices -> 0..Strings] /\ moidx \in MoIndices
      /\ visited \in SUBSET MoIndices
  BY DEF MoTypeOK
<1>4. string \in Nat /\ string >= 1 /\ Strings \in Nat BY DEF MoProgress, MoConst
<1>5. \A i \in MoIndices : hash_tab[i] \in Nat /\ hash_tab[i] < string BY <1>2, <1>3 DEF MoTable
<1>6. \A i \in MoIndices : hash_tab'[i] = IF i = moidx THEN string ELSE hash_tab[i]
  BY <1>1, <1>3
<1>7. \A i \in MoIndices : hash_tab'[i] < string + 1 BY <1>4, <1>5, <1>6
<1>8. ASSUME NEW i \in MoIndices, NEW j \in MoIndices, hash_tab'[i] = hash_tab'[j], hash_tab'[i] # 0
      PROVE  i = j
  <2>1. hash_tab[i] # string /\ hash_tab[j] # string BY <1>4, <1>5
  <2>2. \A x, y \in MoIndices : hash_tab[x] = hash_tab[y] /\ hash_tab[x] # 0 => x = y
    BY <1>2 DEF MoTable
  <2>. QED BY <1>6, <1>8, <2>1, <2>2
<1>9. \A v \in MoIndices : hash_tab[v] # 0 => hash_tab'[v] # 0 BY <1>4, <1>6
<1>10. ASSUME NEW n \in 1..string
       PROVE  \E i \in MoIndices, V \in SUBSET MoIndices :
                hash_tab'[i] = n /\ MoPath(Orig(n), i, V)'
  <2>1. CASE n = string
    <3>1. PICK i \in MoIndices, V \in SUBSET MoIndices : i = moidx /\ V = visited BY <1>3
    <3>2. MoPath(Orig(n), i, V) BY <1>1, <1>2, <2>1, <3>1 DEF MoSearch
    <3>3. \A v \in V : hash_tab'[v] # 0 BY <1>9, <3>2 DEF MoPath
    <3>4. MoPath(Orig(n), i, V)' BY <1>1, <3>2, <3>3, MoSame, MoPathKept
    <3>5. hash_tab'[i] = n BY <1>6, <2>1, <3>1
    <3>. QED BY <3>4, <3>5
  <2>2. CASE n # string
    <3>1. n \in 1..(string - 1) BY <1>4, <2>2
    <3>2. PICK i \in MoIndices, V \in SUBSET MoIndices : hash_tab[i] = n /\ MoPath(Orig(n), i, V)
      BY <1>2, <3>1 DEF MoTable
    <3>3. \A v \in V : hash_tab'[v] # 0 BY <1>9, <3>2 DEF MoPath
    <3>4. MoPath(Orig(n), i, V)' BY <1>1, <3>2, <3>3, MoSame, MoPathKept
    <3>5. hash_tab'[i] = n BY <1>1, <1>6, <3>1, <3>2
    <3>. QED BY <3>2, <3>4, <3>5
  <2>. QED BY <2>1, <2>2
<1>11. (string + 1) - 1 = string BY <1>4
<1>12. MoIndices' = MoIndices BY <1>1, MoSame
<1>. QED BY <1>1, <1>7, <1>8, <1>10, <1>11, <1>12 DEF MoTable

LEMMA MoEnterStep ==
  ASSUME MoInv, MoConst, Enter
  PROVE  MoInv'
<1>. USE DEF MoInv
<1>1. /\ Searching /\ mopc \in {"write", "load"} /\ mopc' = mopc
      /\ hash_tab' = [hash_tab EXCEPT ![moidx] = string] /\ string' = string + 1
      /\ moidx' = Start(string + 1) /\ visited' = {}
      /\ UNCHANGED <<mo, hash_string, query, bottom, top, act>>
  BY DEF Enter, Searching, Entering, Loading, Entry, searchvars
<1>2. string \in 1..Strings
  BY DEF Enter, Entering, Loading, MoProgress, MoConst
<1>3. string + 1 \in 1..(Strings + 1) /\ Strings \in Nat BY <1>2 DEF MoConst
<1>4. Start(string + 1) \in MoIndices
  <2>1. 0 \in MoIndices BY DEF MoIndices, MoConst
  <2>2. ASSUME string + 1 <= Strings PROVE Home_(Orig(string + 1)) \in MoIndices
    <3>1. string + 1 \in 1..Strings BY <1>3, <2>2
    <3>. QED BY <3>1 DEF MoConst
  <2>. QED BY <2>1, <2>2 DEF Start
<1>5. MoTypeOK'
  <2>1. hash_tab' \in [MoIndices -> 0..Strings] BY <1>1, <1>2, <1>3 DEF MoTypeOK
  <2>2. visited' \in SUBSET MoIndices BY <1>1
  <2>. QED BY <1>1, <1>4, <2>1, <2>2, MoSame DEF MoTypeOK
<1>6. MoProgress'
  <2>1. mopc = "write" => string + 1 <= nstrings + 1
    BY <1>2 DEF Enter, Entering, Loading, MoConst
  <2>2. mopc = "load" => string + 1 > nstrings BY <1>2 DEF MoProgress, MoConst
  <2>3. /\ string' \in 1..(Strings' + 1)
        /\ mopc' = "write" => string' <= nstrings' + 1
        /\ mopc' = "load" => string' > nstrings'
    BY <1>1, <1>3, <2>1, <2>2, MoSame
  <2>. QED BY <1>1, <2>3 DEF MoProgress
<1>7. MoTable' BY MoEnterTable
<1>8. MoSearch'
  <2>. SUFFICES ASSUME Searching' PROVE MoSearch'
    BY DEF MoSearch
  <2>1. Hashed /\ string + 1 <= Strings
    <3>1. Entering' => Hashed /\ string + 1 <= nstrings BY <1>1, MoSame DEF Entering
    <3>2. Loading' => string + 1 <= Strings BY <1>1, MoSame DEF Loading
    <3>3. Hashed BY <1>1, MoKey
    <3>. QED BY <1>1, <1>3, <3>1, <3>2, <3>3 DEF Searching, MoConst
  <2>2. string + 1 \in 1..Strings BY <1>3, <2>1
  <2>3. Orig(string + 1) \in MoKeys BY <2>2 DEF MoConst
  <2>4. moidx' = Home_(Orig(string + 1)) BY <1>1, <2>1 DEF Start
  <2>5. Key' = Orig(string + 1)
    <3>1. Key' = Orig(string)' BY <1>1 DEF Key
    <3>. QED BY <1>1, <3>1, MoSame
  <2>6. PICK k \in MoKeys : k = Orig(string + 1) BY <2>3
  <2>. QED BY <1>1, <2>4, <2>5, <2>6, MoSearchBegins
<1>9. MoAhead' BY <1>1 DEF MoAhead
<1>10. MoAnswer' BY <1>1 DEF MoAnswer
<1>. QED BY <1>5, <1>6, <1>7, <1>8, <1>9, <1>10

LEMMA MoLoadStep ==
  ASSUME MoInv, MoConst, Load
  PROVE  MoInv'
<1>. USE DEF MoInv
<1>1. /\ mopc = "write" /\ ~Entering /\ mopc' = "load"
      /\ string' = nstrings + 1 /\ moidx' = Start(nstrings + 1) /\ visited' = {}
      /\ UNCHANGED <<mo, hash_string, hash_tab, query, bottom, top, act>>
  BY DEF Load, searchvars
<1>2. nstrings \in Nat /\ Strings \in Nat /\ nstrings <= Strings BY DEF MoConst
<1>3. nstrings + 1 <= Strings => nstrings + 1 \in 1..Strings BY <1>2
<1>4. Start(nstrings + 1) \in MoIndices
  <2>1. 0 \in MoIndices BY DEF MoIndices, MoConst
  <2>2. nstrings + 1 <= Strings => Home_(Orig(nstrings + 1)) \in MoIndices
    BY <1>3 DEF MoConst
  <2>. QED BY <2>1, <2>2 DEF Start
<1>5. MoTypeOK' BY <1>1, <1>4, MoSame DEF MoTypeOK
<1>6. MoProgress' BY <1>1, <1>2, MoSame DEF MoProgress
<1>7. MoTable'
  <2>1. CASE Hashed
    <3>1. string = nstrings + 1 BY <1>1, <1>2, <2>1 DEF Entering, MoProgress
    <3>. QED BY <1>1, <3>1, MoTableKept
  <2>2. CASE ~Hashed
    BY <1>1, <2>2, MoSame DEF MoTable
  <2>. QED BY <2>1, <2>2
<1>8. MoSearch'
  <2>. SUFFICES ASSUME Searching' PROVE MoSearch'
    BY DEF MoSearch
  <2>1. nstrings + 1 <= Strings
    BY <1>1, MoSame DEF Searching, Entering, Loading
  <2>2. Hashed BY <1>2, <2>1 DEF MoConst
  <2>3. Orig(nstrings + 1) \in MoKeys BY <1>3, <2>1 DEF MoConst
  <2>4. moidx' = Home_(Orig(nstrings + 1)) BY <1>1, <2>1, <2>2 DEF Start
  <2>5. Key' = Orig(nstrings + 1)
    <3>1. Key' = Orig(string)' BY <1>1 DEF Key
    <3>. QED BY <1>1, <3>1, MoSame
  <2>6. PICK k \in MoKeys : k = Orig(nstrings + 1) BY <2>3
  <2>. QED BY <1>1, <2>4, <2>5, <2>6, MoSearchBegins
<1>9. MoAhead' BY <1>1 DEF MoAhead
<1>10. MoAnswer' BY <1>1 DEF MoAnswer
<1>. QED BY <1>5, <1>6, <1>7, <1>8, <1>9, <1>10

(* The loading ends.                                                        *)
LEMMA MoLoadedStep ==
  ASSUME MoInv, MoConst, LoadFails \/ Loaded
  PROVE  MoInv'
<1>. USE DEF MoInv
<1>1. /\ mopc' \in {"invalid", "ready"} /\ mopc = "load"
      /\ UNCHANGED <<mo, hash_string, hash_tab, string, moidx, visited, query, bottom, top, act>>
  BY DEF LoadFails, Loaded, searchvars
<1>2. mopc' = "ready" => string = Strings + 1
  <2>. SUFFICES ASSUME Loaded PROVE string = Strings + 1
    BY DEF LoadFails
  <2>. QED BY DEF Loaded, Loading, MoProgress, MoConst
<1>3. MoTypeOK' BY <1>1, MoSame DEF MoTypeOK
<1>4. MoProgress' BY <1>1, <1>2, MoSame DEF MoProgress
<1>5. MoTable' BY <1>1, MoTableKept
<1>6. MoSearch' BY <1>1 DEF MoSearch, Searching, Entering, Loading
<1>7. MoAhead' /\ MoAnswer' BY <1>1 DEF MoAhead, MoAnswer
<1>. QED BY <1>3, <1>4, <1>5, <1>6, <1>7

LEMMA MoLookStep ==
  ASSUME MoInv, MoConst, NEW k \in MoKeys, Look(k)
  PROVE  MoInv'
<1>. USE DEF MoInv
<1>1. /\ mopc = "ready" /\ query' = k /\ act' = 0
      /\ UNCHANGED <<mo, hash_string, hash_tab, string>>
  BY DEF Look
<1>2. \/ /\ Hashed /\ mopc' = "probe" /\ moidx' = Home_(k) /\ visited' = {}
         /\ UNCHANGED <<bottom, top>>
      \/ /\ ~Hashed /\ mopc' = "bisect" /\ bottom' = 0 /\ top' = nstrings
         /\ UNCHANGED <<moidx, visited>>
  BY DEF Look
<1>3. nstrings \in Nat /\ 0 \in 0..nstrings /\ nstrings \in 0..nstrings BY DEF MoConst
<1>4. Home_(k) \in MoIndices BY DEF MoConst
<1>5. MoTypeOK' BY <1>1, <1>2, <1>3, <1>4, MoSame DEF MoTypeOK
<1>6. MoProgress' BY <1>1, <1>2, MoSame DEF MoProgress
<1>7. MoTable' BY <1>1, MoTableKept
<1>8. MoSearch'
  <2>1. CASE mopc' = "probe"
    <3>1. Key' = k BY <1>1, <2>1 DEF Key
    <3>. QED BY <1>1, <1>2, <2>1, <3>1, MoSearchBegins
  <2>2. CASE mopc' # "probe"
    BY <1>2, <2>2 DEF MoSearch, Searching, Entering, Loading
  <2>. QED BY <2>1, <2>2
<1>9. MoAhead'
  <2>1. MoIndices' = MoIndices /\ Strings' = Strings /\ (Hashed' <=> Hashed)
        /\ \A n : Orig(n)' = Orig(n)
    BY <1>1, MoSame
  <2>2. CASE mopc' = "probe"
    <3>1. ASSUME NEW n \in 1..Strings, Orig(n) = k
          PROVE  \E i \in MoIndices, V \in SUBSET MoIndices :
                   hash_tab[i] = n /\ MoPath(k, i, V)' /\ moidx' \in V \cup {i}
      <4>1. n \in 1..(string - 1) /\ Hashed BY <1>1, <1>2, <2>2 DEF MoProgress, MoConst
      <4>2. PICK i \in MoIndices, V \in SUBSET MoIndices : hash_tab[i] = n /\ MoPath(k, i, V)
        BY <3>1, <4>1 DEF MoTable
      <4>3. moidx' \in V \cup {i} BY <1>2, <2>2, <4>2 DEF MoPath
      <4>4. \A v \in V : hash_tab'[v] # 0 BY <1>1, <4>2 DEF MoPath
      <4>5. MoPath(k, i, V)' BY <1>1, <4>2, <4>4, MoPathKept
      <4>. QED BY <4>2, <4>3, <4>5
    <3>. QED BY <1>1, <2>1, <2>2, <3>1 DEF MoAhead
  <2>3. CASE mopc' = "bisect"
    <3>1. ~Hashed /\ bottom' = 0 /\ top' = nstrings /\ Strings = nstrings
      BY <1>2, <2>3 DEF MoConst
    <3>2. \A n \in 1..Strings : bottom' < n /\ n <= top' BY <1>3, <3>1
    <3>. QED BY <1>1, <2>1, <2>3, <3>1, <3>2 DEF MoAhead
  <2>. QED BY <1>2, <2>2, <2>3
<1>10. MoAnswer' BY <1>2 DEF MoAnswer
<1>. QED BY <1>5, <1>6, <1>7, <1>8, <1>9, <1>10

LEMMA MoLookedStep ==
  ASSUME MoInv, MoConst, Looked
  PROVE  MoInv'
<1>. USE DEF MoInv
<1>1. /\ mopc = "probe" /\ (hash_tab[moidx] = 0 \/ Match)
      /\ act' = hash_tab[moidx] /\ mopc' = "found"
      /\ UNCHANGED <<mo, hash_string, hash_tab, string, moidx, visited, query, bottom, top>>
  BY DEF Looked
<1>2. MoTypeOK' BY <1>1, MoSame DEF MoTypeOK
<1>3. MoProgress' BY <1>1, MoSame DEF MoProgress
<1>4. MoTable' BY <1>1, MoTableKept
<1>5. MoSearch' BY <1>1 DEF MoSearch, Searching, Entering, Loading
<1>6. MoAhead' BY <1>1 DEF MoAhead
<1>7. Strings' = Strings /\ (\A n : Orig(n)' = Orig(n)) BY <1>1, MoSame
<1>8. CASE hash_tab[moidx] = 0
  <2>1. ASSUME NEW n \in 1..Strings, Orig(n) = query PROVE FALSE
    <3>1. PICK i \in MoIndices, V \in SUBSET MoIndices :
            hash_tab[i] = n /\ MoPath(query, i, V) /\ moidx \in V \cup {i}
      BY <1>1, <2>1 DEF MoAhead
    <3>2. n # 0 OBVIOUS
    <3>. QED BY <1>8, <3>1, <3>2 DEF MoPath
  <2>2. MoAnswer' BY <1>1, <1>7, <1>8, <2>1 DEF MoAnswer
  <2>. QED BY <1>2, <1>3, <1>4, <1>5, <1>6, <2>2
<1>9. CASE hash_tab[moidx] # 0
  <2>1. Orig(hash_tab[moidx]) = query BY <1>1, <1>9 DEF Match
  <2>2. PICK n : n = hash_tab[moidx] OBVIOUS
  <2>3. n \in 1..Strings /\ n # 0 BY <1>9, <2>2 DEF MoTypeOK, MoConst
  <2>4. act' = n /\ Orig(n)' = query' /\ Strings' = Strings BY <1>1, <1>7, <2>1, <2>2
  <2>5. Orig(act)' = query'
    <3>1. Present' = Present /\ nstrings' = nstrings BY <1>1 DEF Present, nstrings
    <3>. QED BY <1>1, <2>1, <2>4, <3>1 DEF Orig
  <2>6. MoAnswer' BY <2>3, <2>4, <2>5 DEF MoAnswer
  <2>. QED BY <1>2, <1>3, <1>4, <1>5, <1>6, <2>6
<1>. QED BY <1>8, <1>9

(* Without a hash table: the strings before bottom are less, and those from *)
(* top on are greater than the one that is looked for.                      *)
LEMMA MoBisectStep ==
  ASSUME MoInv, MoConst, Bisect
  PROVE  MoInv'
<1>. USE DEF MoInv
<1>1. /\ mopc = "bisect" /\ bottom < top /\ mopc' \in {"bisect", "found"}
      /\ UNCHANGED <<mo, hash_string, hash_tab, string, moidx, visited, query>>
  BY DEF Bisect
<1>2. PICK m : m = (bottom + top) \div 2 OBVIOUS
<1>3. \/ query < Orig(m + 1) /\ top' = m /\ UNCHANGED <<bottom, act, mopc>>
      \/ query > Orig(m + 1) /\ bottom' = m + 1 /\ UNCHANGED <<top, act, mopc>>
      \/ query = Orig(m + 1) /\ act' = m + 1 /\ mopc' = "found" /\ UNCHANGED <<bottom, top>>
  BY <1>2 DEF Bisect
<1>4. /\ bottom \in 0..nstrings /\ top \in 0..nstrings /\ nstrings \in Nat
      /\ Strings = nstrings /\ act = 0
      /\ \A n \in 1..Strings : Orig(n) = query => bottom < n /\ n <= top
  BY <1>1 DEF MoTypeOK, MoConst, MoAhead
<1>5. m \in Nat /\ bottom <= m /\ m < top BY <1>1, <1>2, <1>4
<1>6. m \in 0..nstrings /\ m + 1 \in 0..nstrings /\ m + 1 \in 1..Strings BY <1>4, <1>5
<1>7. /\ query \in Nat /\ \A n \in 1..Strings : Orig(n) \in Nat
      /\ \A i, n \in 1..Strings : i < n => Orig(i) < Orig(n)
  BY <1>1, <1>4, MoAssumption DEF MoProgress, MoConst
<1>8. MoTypeOK'
  <2>1. bottom' \in 0..nstrings /\ top' \in 0..nstrings BY <1>3, <1>4, <1>6
  <2>. QED BY <1>1, <2>1, MoSame DEF MoTypeOK
<1>9. MoProgress' BY <1>1, MoSame DEF MoProgress
<1>10. MoTable' BY <1>1, MoTableKept
<1>11. MoSearch' BY <1>1 DEF MoSearch, Searching, Entering, Loading
<1>12. /\ Strings' = Strings /\ (Hashed' <=> Hashed) /\ nstrings' = nstrings
       /\ \A n : Orig(n)' = Orig(n)
  BY <1>1, MoSame
<1>13. MoAhead'
  <2>. SUFFICES ASSUME mopc' = "bisect"
                PROVE  act' = 0 /\ \A n \in 1..Strings : Orig(n) = query =>
                         bottom' < n /\ n <= top'
    BY <1>1, <1>12 DEF MoAhead
  <2>1. act' = 0 BY <1>3, <1>4
  <2>2. ASSUME NEW n \in 1..Strings, Orig(n) = query
        PROVE  bottom' < n /\ n <= top'
    <3>1. bottom < n /\ n <= top BY <1>4, <2>2
    <3>2. CASE query < Orig(m + 1)
      <4>1. ~(m + 1 < n) /\ m + 1 # n BY <1>6, <1>7, <2>2, <3>2
      <4>2. n <= m BY <1>5, <4>1
      <4>3. top' = m /\ bottom' = bottom BY <1>3, <1>6, <1>7, <3>2
      <4>. QED BY <3>1, <4>2, <4>3
    <3>3. CASE query > Orig(m + 1)
      <4>1. ~(n < m + 1) /\ m + 1 # n BY <1>6, <1>7, <2>2, <3>3
      <4>2. m + 1 < n BY <1>5, <4>1
      <4>3. bottom' = m + 1 /\ top' = top BY <1>3, <1>6, <1>7, <3>3
      <4>. QED BY <3>1, <4>2, <4>3
    <3>. QED BY <1>3, <3>2, <3>3
  <2>. QED BY <2>1, <2>2
<1>14. MoAnswer'
  <2>. SUFFICES ASSUME mopc' = "found" PROVE MoAnswer'
    BY DEF MoAnswer
  <2>1. query = Orig(m + 1) /\ act' = m + 1 BY <1>1, <1>3
  <2>2. Orig(act)' = query'
    <3>1. Present' = Present BY <1>1 DEF Present
    <3>. QED BY <1>1, <1>12, <2>1, <3>1 DEF Orig
  <2>3. act' \in 1..Strings' /\ act' # 0 BY <1>6, <1>12, <2>1
  <2>. QED BY <2>2, <2>3 DEF MoAnswer
<1>. QED BY <1>8, <1>9, <1>10, <1>11, <1>13, <1>14

LEMMA MoBisectedStep ==
  ASSUME MoInv, MoConst, Bisected
  PROVE  MoInv'
<1>. USE DEF MoInv
<1>1. /\ mopc = "bisect" /\ bottom >= top /\ mopc' = "found"
      /\ UNCHANGED <<mo, hash_string, hash_tab, string, moidx, visited, query, bottom, top, act>>
  BY DEF Bisected, searchvars
<1>2. MoTypeOK' BY <1>1, MoSame DEF MoTypeOK
<1>3. MoProgress' BY <1>1, MoSame DEF MoProgress
<1>4. MoTable' BY <1>1, MoTableKept
<1>5. MoSearch' BY <1>1 DEF MoSearch, Searching, Entering, Loading
<1>6. MoAhead' BY <1>1 DEF MoAhead
<1>7. MoAnswer'
  <2>1. act = 0 /\ \A n \in 1..Strings : Orig(n) = query => bottom < n /\ n <= top
    BY <1>1 DEF MoAhead
  <2>2. bottom \in Nat /\ top \in Nat /\ Strings \in Nat BY DEF MoTypeOK, MoConst
  <2>3. \A n \in 1..Strings : Orig(n) # query BY <1>1, <2>1, <2>2
  <2>4. Strings' = Strings /\ \A n : Orig(n)' = Orig(n) BY <1>1, MoSame
  <2>. QED BY <1>1, <2>1, <2>3, <2>4 DEF MoAnswer
<1>. QED BY <1>2, <1>3, <1>4, <1>5, <1>6, <1>7

LEMMA MoReturnStep ==
  ASSUME MoInv, MoConst, MoReturn
  PROVE  MoInv'
<1>. USE DEF MoInv
<1>1. /\ mopc = "found" /\ mopc' = "ready" /\ moidx' = 0 /\ visited' = {}
      /\ bottom' = 0 /\ top' = 0
      /\ UNCHANGED <<mo, hash_string, hash_tab, string>>
  BY DEF MoReturn
<1>2. 0 \in MoIndices /\ 0 \in 0..nstrings BY DEF MoConst, MoIndices
<1>3. MoTypeOK' BY <1>1, <1>2, MoSame DEF MoTypeOK
<1>4. MoProgress' BY <1>1, MoSame DEF MoProgress
<1>5. MoTable' BY <1>1, MoTableKept
<1>6. MoSearch' BY <1>1 DEF MoSearch, Searching, Entering, Loading
<1>7. MoAhead' /\ MoAnswer' BY <1>1 DEF MoAhead, MoAnswer
<1>. QED BY <1>3, <1>4, <1>5, <1>6, <1>7

LEMMA MoStutter ==
  ASSUME MoInv, MoConst, UNCHANGED movars
  PROVE  MoInv'
<1>. USE DEF MoInv
<1>1. UNCHANGED <<mo, hash_string, mopc, hash_tab, string, moidx, visited, query, bottom, top, act>>
  BY DEF movars
<1>2. MoTypeOK' BY <1>1, MoSame DEF MoTypeOK
<1>3. MoProgress' BY <1>1, MoSame DEF MoProgress
<1>4. MoTable' BY <1>1, MoTableKept
<1>5. MoSearch'
  <2>1. Searching' <=> Searching BY <1>1, MoSame DEF Searching, Entering, Loading
  <2>2. Key' = Key BY <1>1, MoSame DEF Key
  <2>3. PICK k, c, i, V : k = Key /\ c = Cardinality(visited) /\ i = moidx /\ V = visited
    OBVIOUS
  <2>. SUFFICES ASSUME Searching
                PROVE  /\ MoPath(k, i, V)' /\ MoNth(k, c, i)'
                       /\ \A v \in V : \E n \in 0..(c - 1) : MoNth(k, n, v)'
    BY <1>1, <2>1, <2>2, <2>3 DEF MoSearch
  <2>4. /\ MoPath(k, i, V) /\ MoNth(k, c, i)
        /\ \A v \in V : \E n \in 0..(c - 1) : MoNth(k, n, v)
    BY <2>3 DEF MoSearch
  <2>5. \A v \in V : hash_tab'[v] # 0 BY <1>1, <2>4 DEF MoPath
  <2>6. MoPath(k, i, V)' BY <1>1, <2>4, <2>5, MoPathKept
  <2>. QED BY <1>1, <2>4, <2>6, MoSame
<1>6. MoAhead'
  <2>1. /\ MoIndices' = MoIndices /\ Strings' = Strings /\ (Hashed' <=> Hashed)
        /\ \A n : Orig(n)' = Orig(n)
    BY <1>1, MoSame
  <2>2. \A k, i, V : MoPath(k, i, V) => MoPath(k, i, V)'
    <3>. SUFFICES ASSUME NEW k, NEW i, NEW V, MoPath(k, i, V) PROVE MoPath(k, i, V)'
      OBVIOUS
    <3>1. \A v \in V : hash_tab'[v] # 0 BY <1>1 DEF MoPath
    <3>. QED BY <1>1, <3>1, MoPathKept
  <2>3. PICK q : q = query OBVIOUS
  <2>4. mopc = "probe" =>
          \A n \in 1..Strings : Orig(n) = q =>
            \E i \in MoIndices, V \in SUBSET MoIndices :
              hash_tab[i] = n /\ MoPath(q, i, V)' /\ moidx \in V \cup {i}
    BY <2>2, <2>3 DEF MoAhead
  <2>. QED BY <1>1, <2>1, <2>3, <2>4 DEF MoAhead
<1>7. MoAnswer'
  <2>1. Strings' = Strings /\ (\A n : Orig(n)' = Orig(n)) /\ nstrings' = nstrings BY <1>1, MoSame
  <2>2. Present' = Present BY <1>1 DEF Present
  <2>3. Orig(act)' = Orig(act) BY <1>1, <2>1, <2>2 DEF Orig
  <2>. QED BY <1>1, <2>1, <2>3 DEF MoAnswer
<1>. QED BY <1>2, <1>3, <1>4, <1>5, <1>6, <1>7

LEMMA MoInitially == MoInit => MoInv
<1>. SUFFICES ASSUME MoInit PROVE MoInv
  OBVIOUS
<1>. USE DEF MoInit
<1>1. MoConst BY MoConstant
<1>2. nstrings \in Nat /\ Strings \in Nat /\ nstrings <= Strings /\ 0 \in MoIndices
  BY <1>1 DEF MoConst, MoIndices
<1>3. \A i \in MoIndices : hash_tab[i] = 0 BY DEF MoIndices
<1>4. 1 <= Strings => Orig(1) \in MoKeys BY <1>1, <1>2 DEF MoConst
<1>5. Start(1) \in MoIndices BY <1>1, <1>2, <1>4 DEF Start, MoConst
<1>6. MoTypeOK
  <2>1. hash_tab \in [MoIndices -> 0..Strings] BY <1>2 DEF MoIndices
  <2>. QED BY <1>2, <1>5, <2>1 DEF MoTypeOK
<1>7. MoProgress BY <1>2 DEF MoProgress
<1>8. MoTable
  <2>1. 1..(string - 1) = {} OBVIOUS
  <2>2. string = 1 OBVIOUS
  <2>. HIDE DEF MoInit
  <2>. QED BY <1>3, <2>1, <2>2 DEF MoTable
<1>9. MoSearch
  <2>. SUFFICES ASSUME Searching PROVE MoSearch
    BY DEF MoSearch
  <2>1. Hashed /\ 1 <= Strings BY <1>2 DEF Searching, Entering, Loading
  <2>2. PICK k \in MoKeys : k = Orig(1) BY <1>4, <2>1
  <2>3. Key = k /\ moidx = Home_(k) BY <2>1, <2>2 DEF Key, Start
  <2>4. Cardinality(visited) = 0 BY FS_EmptySet
  <2>5. MoNth(k, 0, moidx) BY <1>1, <2>3, MoStart
  <2>6. MoPath(k, moidx, visited) BY <2>3 DEF MoPath
  <2>. QED BY <2>3, <2>4, <2>5, <2>6 DEF MoSearch
<1>10. MoAhead /\ MoAnswer BY DEF MoAhead, MoAnswer
<1>. QED BY <1>6, <1>7, <1>8, <1>9, <1>10 DEF MoInv

LEMMA MoKept == MoInv /\ [MoNext]_movars => MoInv'
<1>. SUFFICES ASSUME MoInv, [MoNext]_movars PROVE MoInv'
  OBVIOUS
<1>1. MoConst BY MoConstant DEF MoInv, MoTypeOK
<1>. QED BY <1>1, MoProbeStep, MoEnterStep, MoLoadStep, MoLoadedStep, MoLookStep, MoLookedStep,
            MoBisectStep, MoBisectedStep, MoReturnStep, MoStutter DEF MoNext

(* What msgfmt, _nl_load_domain and _nl_find_msg keep true: every string    *)
(* entered so far is found on the path of its own search, a search in       *)
(* progress has come along its own path, and a string that is looked for    *)
(* lies ahead of it.                                                        *)
THEOREM MoInvariant == MoSpec => []MoInv
<1>1. MoInit => MoInv BY MoInitially
<1>2. MoInv /\ [MoNext]_movars => MoInv' BY MoKept
<1>. QED BY <1>1, <1>2, PTL DEF MoSpec

(* For every file with up to any number of strings, and every hash          *)
(* function: what _nl_find_msg finds is the string that is looked for, it   *)
(* finds it if it is there, and no search, in writer, loader or lookup,     *)
(* comes back to an entry.                                                  *)
THEOREM MessagesFound == MoSpec => []FindsMessage
<1>1. MoInv => FindsMessage
  <2>. SUFFICES ASSUME MoInv PROVE FindsMessage
    OBVIOUS
  <2>1. MoConst BY MoConstant DEF MoInv, MoTypeOK
  <2>2. Searching => moidx \notin visited BY <2>1, MoNeverBack
  <2>. QED BY <2>2 DEF FindsMessage, MoInv, MoAnswer, Searching
<1>. QED BY <1>1, MoInvariant, PTL
=============================================================================
