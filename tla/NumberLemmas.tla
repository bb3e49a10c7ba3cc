---------------------------- MODULE NumberLemmas ----------------------------
(* Facts about numbers that the proofs need: induction, in the form of a set
   of naturals that is closed under adding 1; remainders with a divisor that is
   not a constant; and the primes, on which the concurrent map rests: there is
   always a next one, and the multiples of a smaller number go through all
   remainders. *)
EXTENDS PrimeNumbers, Integers, FiniteSetTheorems, TLAPS

(* A set of naturals that is not empty has a least element. *)
LEMMA LeastNatural ==
  ASSUME NEW T \in SUBSET Nat, T # {}
  PROVE  \E m \in T : \A n \in T : m <= n
<1> DEFINE R == OpToRel(<, Nat)
<1>1. IsWellFoundedOn(R, Nat)
  BY NatLessThanWellFounded
<1>2. PICK m \in T : \A n \in T : ~(<<n, m>> \in R)
  <2> HIDE DEF R
  <2> QED BY <1>1, WFMin
<1>3. \A n \in T : ~(n < m)
  BY <1>2 DEF OpToRel
<1> QED BY <1>3

(* Induction. *)
LEMMA NaturalSet ==
  ASSUME NEW T \in SUBSET Nat, 0 \in T, \A n \in T : n + 1 \in T
  PROVE  T = Nat
<1> SUFFICES ASSUME Nat \ T # {} PROVE FALSE
  OBVIOUS
<1>1. PICK m \in Nat \ T : \A n \in Nat \ T : m <= n
  BY LeastNatural
<1>2. m - 1 \in T
  BY <1>1
<1> QED BY <1>1, <1>2

-----------------------------------------------------------------------------
(* Divisors. *)

(* Quotient and remainder. *)
LEMMA Division ==
  ASSUME NEW d \in Nat, d > 0, NEW x \in Int
  PROVE  /\ x % d \in 0 .. d - 1 /\ x \div d \in Int
         /\ x = d * (x \div d) + (x % d)
<1>1. x % d \in 0 .. d - 1
  OBVIOUS
<1>2. x \div d \in Int
  OBVIOUS
<1>3. x = d * (x \div d) + (x % d)
  OBVIOUS
<1> QED BY <1>1, <1>2, <1>3

(* A multiple leaves no remainder. *)
LEMMA Multiple ==
  ASSUME NEW d \in Nat, d > 0, NEW q \in Int
  PROVE  (q * d) % d = 0 /\ (d * q) % d = 0
BY SMT

(* No remainder means a multiple. *)
LEMMA Divides ==
  ASSUME NEW d \in Nat, d > 0, NEW x \in Int, x % d = 0
  PROVE  \E q \in Int : x = q * d
<1> DEFINE q == x \div d
<1>1. q \in Int /\ x = d * q + 0
  BY Division
<1> QED BY <1>1

(* A divisor of two numbers divides their difference. *)
LEMMA DividesDifference ==
  ASSUME NEW d \in Nat, d > 0, NEW x \in Int, NEW y \in Int, x % d = 0, y % d = 0
  PROVE  (x - y) % d = 0
<1>1. PICK q \in Int : x = q * d
  BY Divides
<1>2. PICK r \in Int : y = r * d
  BY Divides
<1>3. x - y = (q - r) * d /\ q - r \in Int
  BY <1>1, <1>2
<1> QED BY <1>3, Multiple

(* A divisor of a number divides its multiples. *)
LEMMA DividesProduct ==
  ASSUME NEW d \in Nat, d > 0, NEW x \in Int, NEW y \in Int, x % d = 0
  PROVE  (x * y) % d = 0 /\ (y * x) % d = 0
<1>1. PICK q \in Int : x = q * d
  BY Divides
<1> DEFINE r == q * y
<1>2. x * y = r * d /\ y * x = r * d /\ r \in Int
  BY <1>1
<1> HIDE DEF r
<1>3. (r * d) % d = 0
  BY <1>2, Multiple
<1> QED BY <1>2, <1>3

(* Numbers with the same remainder differ by a multiple. *)
LEMMA SameRemainder ==
  ASSUME NEW d \in Nat, d > 0, NEW x \in Int, NEW y \in Int, x % d = y % d
  PROVE  (x - y) % d = 0
<1> DEFINE q == x \div d
           r == y \div d
           e == x % d
<1>1. q \in Int /\ r \in Int /\ e \in Int /\ x = d * q + e /\ y = d * r + e
  BY Division
<1> HIDE DEF q, r, e
<1>2. x - y = (q - r) * d /\ q - r \in Int
  BY <1>1
<1> QED BY <1>2, Multiple

(* A multiple of the divisor does not change the remainder. *)
LEMMA RemainderOfSum ==
  ASSUME NEW d \in Nat, d > 0, NEW x \in Int, NEW k \in Int
  PROVE  (x + k * d) % d = x % d
<1> DEFINE y == x + k * d
           q == x \div d
           r == y \div d
           e == x % d
           f == y % d
           z == q + k - r
<1>1. k * d \in Int /\ y \in Int
  OBVIOUS
<1>2. /\ q \in Int /\ e \in 0 .. d - 1 /\ x = d * q + e
      /\ r \in Int /\ f \in 0 .. d - 1 /\ y = d * r + f
  <2> HIDE DEF y
  <2> QED BY <1>1, Division
<1>3. z \in Int /\ f - e = d * z
  <2>1. y = x + k * d
    OBVIOUS
  <2> HIDE DEF y, q, r, e, f
  <2>2. f - e = (x + k * d - d * r) - (x - d * q)
    BY <1>1, <1>2, <2>1
  <2> QED BY <1>1, <1>2, <2>2
<1> HIDE DEF q, r, e, f, z
<1>4. z = 0
  <2>1. ASSUME z >= 1 PROVE d * z >= d
    BY <1>3, <2>1
  <2>2. ASSUME z <= 0 - 1 PROVE d * z <= 0 - d
    BY <1>3, <2>2
  <2>3. f - e < d /\ f - e > 0 - d
    BY <1>2
  <2> QED BY <1>2, <1>3, <2>1, <2>2, <2>3
<1>5. f = e
  BY <1>2, <1>3, <1>4
<1> QED BY <1>5 DEF e, f

(* Every number above 1 has a divisor that is_prime takes for a prime: the
   least one above 1. *)
LEMMA PrimeDivisor ==
  ASSUME NEW n \in Nat, n > 1
  PROVE  \E p \in Nat : p > 1 /\ is_prime(p) /\ n % p = 0
<1> DEFINE T == {d \in Nat : d > 1 /\ n % d = 0}
<1>1. n % n = 0
  BY Multiple, n = 1 * n
<1>2. PICK p \in T : \A d \in T : p <= d
  <2>1. T # {} /\ T \subseteq Nat
    BY <1>1
  <2> HIDE DEF T
  <2> QED BY <2>1, LeastNatural
<1>3. p \in Nat /\ p > 0 /\ p > 1 /\ p \in Int /\ n \in Int /\ n % p = 0
  BY <1>2
<1>4. \A d \in Nat : d > 1 /\ n % d = 0 => p <= d
  BY <1>2
<1> HIDE DEF T
<1>5. ASSUME NEW d \in Nat, d > 1, d < p PROVE p % d # 0
  <2> SUFFICES ASSUME p % d = 0 PROVE FALSE
    OBVIOUS
  <2>1. PICK q \in Int : n = q * p
    BY <1>3, Divides
  <2>2. d > 0
    BY <1>5
  <2>3. (q * p) % d = 0
    BY <1>3, <2>2, DividesProduct
  <2>4. p <= d
    BY <1>4, <1>5, <2>1, <2>3
  <2> QED BY <1>3, <1>5, <2>4
<1>6. ASSUME NEW div \in 3 .. p, div * div <= p PROVE p % div # 0
  <2>1. div < p
    BY <1>3, <1>6
  <2> QED BY <1>5, <2>1
<1>7. p > 2 => p % 2 # 0
  BY <1>3, <1>5
<1>8. is_prime(p)
  <2>1. \A div \in 3 .. p : div % 2 # 0 /\ div * div <= p => p % div # 0
    BY <1>6
  <2>2. p = 2 \/ p > 2
    BY <1>3
  <2> QED BY <1>7, <2>1, <2>2 DEF is_prime
<1> QED BY <1>3, <1>8

(* Some number is a multiple of all numbers up to n. *)
LEMMA CommonMultiple ==
  ASSUME NEW n \in Nat
  PROVE  \E m \in Nat : m > 0 /\ \A d \in 1 .. n : m % d = 0
<1> DEFINE T == {k \in Nat : \E m \in Nat : m > 0 /\ \A d \in 1 .. k : m % d = 0}
<1>1. 0 \in T
  <2>1. \A d \in 1 .. 0 : 1 % d = 0
    OBVIOUS
  <2> QED BY <2>1
<1>2. ASSUME NEW k \in T PROVE k + 1 \in T
  <2>1. PICK m \in Nat : m > 0 /\ \A d \in 1 .. k : m % d = 0
    OBVIOUS
  <2>2. m * (k + 1) \in Nat /\ m * (k + 1) > 0
    BY <2>1
  <2>3. ASSUME NEW d \in 1 .. k + 1 PROVE (m * (k + 1)) % d = 0
    <3> DEFINE e == k + 1
    <3>1. e \in Nat /\ e > 0 /\ k \in Nat
      OBVIOUS
    <3>2. (m * e) % e = 0
      BY <3>1, Multiple
    <3>3. d # e => m % d = 0
      BY <2>1, <3>1
    <3>4. m \in Int /\ e \in Int /\ d \in Nat /\ d > 0
      BY <3>1
    <3>5. d # e => (m * e) % d = 0
      <4> HIDE DEF e
      <4> QED BY <3>3, <3>4, DividesProduct
    <3> QED BY <3>2, <3>5
  <2>4. k + 1 \in Nat
    OBVIOUS
  <2> QED BY <2>2, <2>3, <2>4
<1>3. T = Nat
  <2>1. T \in SUBSET Nat
    OBVIOUS
  <2> HIDE DEF T
  <2> QED BY <1>1, <1>2, <2>1, NaturalSet
<1> QED BY <1>3

(* There is a prime above every number. *)
LEMMA PrimeAbove ==
  ASSUME NEW n \in Nat
  PROVE  \E p \in Nat : p > n /\ is_prime(p)
<1>1. PICK m \in Nat : m > 0 /\ \A d \in 1 .. n : m % d = 0
  BY CommonMultiple
<1>2. PICK p \in Nat : p > 1 /\ is_prime(p) /\ (m + 1) % p = 0
  <2>1. m + 1 \in Nat /\ m + 1 > 1
    BY <1>1
  <2> QED BY <2>1, PrimeDivisor
<1>3. p > n
  <2> SUFFICES ASSUME p <= n PROVE FALSE
    BY <1>2
  <2>1. m % p = 0
    BY <1>1, <1>2
  <2>2. ((m + 1) - m) % p = 0
    BY <1>2, <2>1, DividesDifference
  <2>3. 1 % p = 0
    BY <2>2
  <2>4. PICK q \in Int : 1 = q * p
    BY <1>2, <2>3, Divides
  <2> QED BY <1>2, <2>4
<1> QED BY <1>2, <1>3

-----------------------------------------------------------------------------
(* next_prime. *)

OddPrime(p) == p \in Nat /\ p % 2 = 1 /\ is_prime(p)

(* No even number but 2 is a prime, and no number below 2. *)
LEMMA OddPrimes ==
  ASSUME NEW p \in Nat
  PROVE  is_prime(p) => p = 2 \/ (p > 2 /\ p % 2 = 1)
<1>1. p % 2 # 0 => p % 2 = 1
  OBVIOUS
<1> QED BY <1>1 DEF is_prime

(* Among the odd primes that are not below n there is a least. *)
LEMMA LeastOddPrime ==
  ASSUME NEW n \in Nat
  PROVE  \E p \in Nat : /\ p >= n /\ OddPrime(p)
                        /\ \A q \in n .. p - 1 : ~OddPrime(q)
<1> DEFINE T == {p \in Nat : p >= n /\ OddPrime(p)}
<1>1. PICK p \in Nat : p > n + 2 /\ is_prime(p)
  BY PrimeAbove, n + 2 \in Nat
<1>2. p \in T
  BY <1>1, OddPrimes DEF OddPrime
<1>3. PICK m \in T : \A q \in T : m <= q
  <2>1. T \in SUBSET Nat /\ T # {}
    BY <1>2
  <2> HIDE DEF T
  <2> QED BY <2>1, LeastNatural
<1>4. ASSUME NEW q \in n .. m - 1 PROVE ~OddPrime(q)
  BY <1>3
<1> QED BY <1>3, <1>4

(* The loop of next_prime ends: there is a function as next_odd_prime is
   defined. *)
LEMMA NextOddPrimeDefined ==
  next_odd_prime = [n \in Nat |-> IF is_prime(n) THEN n ELSE next_odd_prime[n + 2]]
<1> DEFINE Least(n, p) == /\ p \in Nat /\ p >= n /\ OddPrime(p)
                          /\ \A q \in n .. p - 1 : ~OddPrime(q)
           g == [n \in Nat |-> IF n % 2 = 1 THEN CHOOSE p : Least(n, p)
                               ELSE IF n <= 2 THEN 2 ELSE 0]
<1>1. ASSUME NEW n \in Nat, NEW p, NEW q, Least(n, p), Least(n, q) PROVE p = q
  <2>1. ~(p < q) /\ ~(q < p)
    BY <1>1
  <2> QED BY <1>1, <2>1
<1>2. ASSUME NEW n \in Nat, n % 2 = 1 PROVE Least(n, g[n])
  <2>1. \E p : Least(n, p)
    BY LeastOddPrime
  <2>2. g[n] = CHOOSE p : Least(n, p)
    BY <1>2
  <2> HIDE DEF Least, g
  <2> QED BY <2>1, <2>2
<1>3. ASSUME NEW n \in Nat PROVE g[n] = IF is_prime(n) THEN n ELSE g[n + 2]
  <2>1. CASE n % 2 = 1 /\ is_prime(n)
    <3>1. Least(n, n)
      BY <2>1 DEF OddPrime
    <3>2. Least(n, g[n])
      BY <1>2, <2>1
    <3> HIDE DEF Least, g
    <3> QED BY <1>1, <2>1, <3>1, <3>2
  <2>2. CASE n % 2 = 1 /\ ~is_prime(n)
    <3>1. n + 2 \in Nat /\ (n + 2) % 2 = 1
      BY <2>2
    <3>2. Least(n + 2, g[n + 2]) /\ Least(n, g[n])
      <4> HIDE DEF Least, g
      <4> QED BY <1>2, <2>2, <3>1
    <3> HIDE DEF g
    <3>3. ~OddPrime(n) /\ ~OddPrime(n + 1)
      BY <2>2 DEF OddPrime
    <3>4. Least(n, g[n + 2])
      BY <3>2, <3>3
    <3> QED BY <1>1, <2>2, <3>2, <3>4
  <2>3. CASE n % 2 # 1
    <3>1. (n + 2) % 2 # 1 /\ n + 2 \in Nat /\ n + 2 > n /\ n # 1
      BY <2>3
    <3>2. is_prime(n) <=> n = 2
      BY <2>3, OddPrimes DEF is_prime
    <3> QED BY <2>3, <3>1, <3>2
  <2> QED BY <2>1, <2>2, <2>3
<1>4. g = [n \in Nat |-> IF is_prime(n) THEN n ELSE g[n + 2]]
  <2>1. g = [n \in Nat |-> g[n]]
    OBVIOUS
  <2> HIDE DEF g
  <2> QED BY <1>3, <2>1
<1> HIDE DEF g
<1> QED BY <1>4 DEF next_odd_prime

(* From an odd number the loop comes to the next odd prime. *)
LEMMA NextOddPrimeIsNext ==
  ASSUME NEW n \in Nat, n % 2 = 1,
         NEW p \in Nat, p >= n, OddPrime(p), \A q \in n .. p - 1 : ~OddPrime(q)
  PROVE  next_odd_prime[n] = p
<1> DEFINE T == {j \in Nat : p - 2 * j >= n => next_odd_prime[p - 2 * j] = p}
<1>1. \A m \in Nat :
        next_odd_prime[m] = IF is_prime(m) THEN m ELSE next_odd_prime[m + 2]
  BY NextOddPrimeDefined
<1>2. 0 \in T
  <2>1. p - 2 * 0 = p
    OBVIOUS
  <2> QED BY <1>1, <2>1 DEF OddPrime
<1>3. ASSUME NEW j \in T PROVE j + 1 \in T
  <2> DEFINE m == p - 2 * (j + 1)
  <2>1. j \in Nat /\ j + 1 \in Nat /\ m + 2 = p - 2 * j
    OBVIOUS
  <2>2. ASSUME m >= n PROVE next_odd_prime[m] = p
    <3>1. m \in n .. p - 1 /\ m \in Nat /\ m % 2 = 1
      BY <2>1, <2>2 DEF OddPrime
    <3>2. ~is_prime(m)
      BY <3>1 DEF OddPrime
    <3>3. next_odd_prime[m] = next_odd_prime[m + 2]
      <4> HIDE DEF m
      <4> QED BY <1>1, <3>1, <3>2
    <3>4. next_odd_prime[p - 2 * j] = p
      BY <2>1, <2>2
    <3> QED BY <2>1, <3>3, <3>4
  <2> QED BY <2>1, <2>2
<1>4. T = Nat
  <2>1. T \in SUBSET Nat
    OBVIOUS
  <2> HIDE DEF T
  <2> QED BY <1>2, <1>3, <2>1, NaturalSet
<1>5. PICK j \in Nat : p - 2 * j = n
  <2> DEFINE j == (p - n) \div 2
  <2>1. j \in Nat /\ p - 2 * j = n
    BY DEF OddPrime
  <2> QED BY <2>1
<1>6. j \in T
  BY <1>4
<1> QED BY <1>5, <1>6

(* next_prime gives the least number not below n that is_prime takes for a
   prime; in particular its loop ends. *)
LEMMA NextPrimeIsNext ==
  ASSUME NEW n \in Nat
  PROVE  /\ next_prime(n) \in Nat /\ next_prime(n) >= n /\ is_prime(next_prime(n))
         /\ \A m \in n .. next_prime(n) - 1 : ~is_prime(m)
<1>1. CASE n <= 2
  <2>1. next_prime(n) = 2 /\ is_prime(2)
    BY <1>1 DEF next_prime, is_prime
  <2>2. \A m \in n .. 1 : ~is_prime(m)
    BY <1>1, OddPrimes
  <2> QED BY <1>1, <2>1, <2>2
<1>2. CASE n > 2
  <2> DEFINE o == IF n % 2 = 0 THEN n + 1 ELSE n
  <2>1. o \in Nat /\ o % 2 = 1 /\ o >= n /\ o > 2 /\ \A m \in n .. o - 1 : m % 2 = 0
    BY <1>2
  <2>2. PICK p \in Nat : p >= o /\ OddPrime(p) /\ \A q \in o .. p - 1 : ~OddPrime(q)
    <3> HIDE DEF o
    <3> QED BY <2>1, LeastOddPrime
  <2>3. next_odd_prime[o] = p
    <3> HIDE DEF o
    <3> QED BY <2>1, <2>2, NextOddPrimeIsNext
  <2>4. next_prime(n) = p
    BY <1>2, <2>3 DEF next_prime
  <2>5. ASSUME NEW m \in n .. p - 1 PROVE ~is_prime(m)
    <3>1. m \in Nat /\ m > 2 /\ (m \in n .. o - 1 \/ m \in o .. p - 1)
      BY <1>2, <2>1
    <3>2. ~OddPrime(m)
      BY <2>1, <2>2, <3>1 DEF OddPrime
    <3> QED BY <3>1, <3>2, OddPrimes DEF OddPrime
  <2> QED BY <2>1, <2>2, <2>4, <2>5 DEF OddPrime
<1> QED BY <1>1, <1>2

-----------------------------------------------------------------------------
(* The multiples of a number modulo a prime. *)

(* Trial division up to the square root finds every divisor. *)
LEMMA PrimeHasNoDivisor ==
  ASSUME NEW p \in Nat, is_prime(p), NEW d \in 2 .. p - 1
  PROVE  p % d # 0
<1> SUFFICES ASSUME p % d = 0 PROVE FALSE
  OBVIOUS
<1>1. PICK q \in Int : p = q * d
  BY Divides
<1>2. p > 2 /\ p % 2 = 1
  BY OddPrimes
<1>3. q \in 2 .. p - 1
  <2>1. q > 0
    BY <1>1, <1>2
  <2>2. q # 1
    BY <1>1
  <2>3. q < p
    BY <1>1, <2>1
  <2> QED BY <2>1, <2>2, <2>3
<1>4. d % 2 # 0 /\ q % 2 # 0
  <2>0. q \in Int /\ d \in Int /\ 2 \in Nat /\ 2 > 0
    BY <1>3
  <2>1. d % 2 = 0 => (q * d) % 2 = 0
    BY <2>0, DividesProduct
  <2>2. q % 2 = 0 => (q * d) % 2 = 0
    BY <2>0, DividesProduct
  <2> QED BY <1>1, <1>2, <2>1, <2>2
<1>5. p % q = 0
  BY <1>1, <1>3, Multiple
<1>6. d * d <= p \/ q * q <= p
  <2>1. CASE d <= q
    BY <1>1, <1>3, <2>1
  <2>2. CASE q <= d
    BY <1>1, <1>3, <2>2
  <2> QED BY <1>3, <2>1, <2>2
<1>7. d \in 3 .. p /\ q \in 3 .. p
  BY <1>3, <1>4
<1> QED BY <1>2, <1>4, <1>5, <1>6, <1>7 DEF is_prime

(* A prime that divides a product divides a factor: otherwise take the least
   number whose product with b it divides. *)
LEMMA PrimeDividesFactor ==
  ASSUME NEW p \in Nat, is_prime(p), NEW a \in 1 .. p - 1, NEW b \in Int,
         (a * b) % p = 0
  PROVE  b % p = 0
<1> DEFINE T == {x \in 1 .. p - 1 : (x * b) % p = 0}
<1>0. p > 0
  BY DEF is_prime
<1>1. PICK m \in T : \A x \in T : m <= x
  <2>1. T \in SUBSET Nat /\ a \in T
    OBVIOUS
  <2> HIDE DEF T
  <2> QED BY <2>1, LeastNatural
<1>2. m \in 1 .. p - 1 /\ m \in Nat /\ (m * b) % p = 0
  BY <1>1
<1>3. CASE m = 1
  BY <1>2, <1>3
<1>4. CASE m # 1
  <2> DEFINE r == p % m
             q == p \div m
  <2>1. r \in 0 .. m - 1 /\ q \in Int /\ p = m * q + r
    BY <1>2, Division
  <2>2. r # 0
    <3>1. m \in 2 .. p - 1
      BY <1>2, <1>4
    <3> QED BY <3>1, PrimeHasNoDivisor
  <2> HIDE DEF r, q
  <2>3. (p * b) % p = 0 /\ ((m * b) * q) % p = 0
    <3> DEFINE z == m * b
    <3>1. z \in Int /\ z % p = 0
      BY <1>2
    <3> HIDE DEF z
    <3>2. (z * q) % p = 0
      BY <1>0, <2>1, <3>1, DividesProduct
    <3>3. (p * b) % p = 0
      BY <1>0, Multiple
    <3> QED BY <3>2, <3>3 DEF z
  <2>4. (p * b - (m * b) * q) % p = 0
    <3> DEFINE x == p * b
               y == (m * b) * q
    <3>1. x \in Int /\ y \in Int
      BY <1>2, <2>1
    <3>2. x % p = 0 /\ y % p = 0
      BY <2>3
    <3> HIDE DEF x, y
    <3>3. (x - y) % p = 0
      BY <1>0, <3>1, <3>2, DividesDifference
    <3> QED BY <3>3 DEF x, y
  <2>5. r * b = p * b - (m * b) * q
    BY <1>2, <2>1
  <2>6. r \in T
    BY <1>2, <2>1, <2>2, <2>4, <2>5
  <2> QED BY <1>1, <1>2, <2>1, <2>6
<1> QED BY <1>3, <1>4

(* is_prime decides whether a number is a prime. *)
THEOREM IsPrimeDecides ==
  ASSUME NEW n \in Nat
  PROVE  is_prime(n) <=> Prime(n)
<1>1. ASSUME is_prime(n) PROVE Prime(n)
  <2>1. n > 1
    BY <1>1 DEF is_prime
  <2> QED BY <1>1, <2>1, PrimeHasNoDivisor DEF Prime
<1>2. ASSUME Prime(n) PROVE is_prime(n)
  <2>1. n > 1 /\ \A d \in 2 .. n - 1 : n % d # 0
    BY <1>2 DEF Prime
  <2>2. n # 2 => n > 2 /\ n % 2 # 0
    BY <2>1
  <2>3. ASSUME NEW div \in 3 .. n, div * div <= n PROVE n % div # 0
    <3>1. div \in 2 .. n - 1
      BY <2>3
    <3> QED BY <2>1, <3>1
  <2> QED BY <2>2, <2>3 DEF is_prime
<1> QED BY <1>1, <1>2

(* next_prime returns the least prime that is not below its argument. *)
THEOREM NextPrimeIsLeast ==
  ASSUME NEW n \in Nat
  PROVE  /\ next_prime(n) \in Nat /\ next_prime(n) >= n /\ Prime(next_prime(n))
         /\ \A m \in n .. next_prime(n) - 1 : ~Prime(m)
<1>1. /\ next_prime(n) \in Nat /\ next_prime(n) >= n /\ is_prime(next_prime(n))
      /\ \A m \in n .. next_prime(n) - 1 : ~is_prime(m)
  BY NextPrimeIsNext
<1>2. \A m \in n .. next_prime(n) - 1 : m \in Nat
  BY <1>1
<1> QED BY <1>1, <1>2, IsPrimeDecides

(* Steps of one size, modulo a prime, go through all remainders. *)
LEMMA StepsReachAll ==
  ASSUME NEW p \in Nat, is_prime(p), NEW s \in 1 .. p - 1, NEW h \in Nat
  PROVE  {(h + n * s) % p : n \in 0 .. p - 1} = 0 .. p - 1
<1> DEFINE f == [n \in 0 .. p - 1 |-> (h + n * s) % p]
           S == 0 .. p - 1
<1>0. p > 0
  BY DEF is_prime
<1>1. ASSUME NEW n \in S PROVE f[n] \in S
  <2> DEFINE x == h + n * s
  <2>1. x \in Int
    OBVIOUS
  <2> HIDE DEF x
  <2>2. x % p \in S
    BY <1>0, <2>1
  <2> QED BY <2>2 DEF x
<1>2. ASSUME NEW m \in S, NEW n \in S, f[m] = f[n] PROVE m = n
  <2> DEFINE x == h + m * s
             y == h + n * s
  <2>1. x \in Int /\ y \in Int /\ x % p = y % p
    BY <1>2
  <2>2. (x - y) % p = 0 /\ (y - x) % p = 0
    <3> HIDE DEF x, y
    <3> QED BY <1>0, <2>1, SameRemainder
  <2>3. x - y = s * (m - n) /\ y - x = s * (n - m)
    OBVIOUS
  <2>4. (s * (m - n)) % p = 0 /\ (s * (n - m)) % p = 0
    BY <2>2, <2>3
  <2>5. (m - n) % p = 0 /\ (n - m) % p = 0
    <3> DEFINE d == m - n
               e == n - m
    <3>1. d \in Int /\ e \in Int /\ (s * d) % p = 0 /\ (s * e) % p = 0
      BY <2>4
    <3> HIDE DEF d, e
    <3>2. d % p = 0 /\ e % p = 0
      BY <3>1, PrimeDividesFactor
    <3> QED BY <3>2 DEF d, e
  <2>6. m - n \in 0 .. p - 1 \/ n - m \in 0 .. p - 1
    OBVIOUS
  <2>7. \A z \in 0 .. p - 1 : z % p = z
    BY <1>0
  <2> QED BY <2>5, <2>6, <2>7
<1>3. f \in Injection(S, S)
  BY <1>1, <1>2 DEF Injection, IsInjective
<1>4. f \in Surjection(S, S)
  <2>1. IsFiniteSet(S)
    BY FS_Interval
  <2> HIDE DEF f, S
  <2> QED BY <1>3, <2>1, FS_Injection
<1>5. \A r \in S : \E n \in S : f[n] = r
  BY <1>4 DEF Surjection
<1> QED BY <1>1, <1>5

-----------------------------------------------------------------------------
(* Sums.  f[i] is the sum of g[1], ..., g[i]. *)

IsSum(f, g, n) == f[0] = 0 /\ \A i \in 1 .. n : f[i] = f[i - 1] + g[i]

(* There is a function that sums up. *)
LEMMA SumExists ==
  ASSUME NEW g, NEW n \in Nat
  PROVE  \E f : f = [i \in 0 .. n |-> IF i = 0 THEN 0 ELSE f[i - 1] + g[i]]
<1> DEFINE Is(f, k) == f = [i \in 0 .. k |-> IF i = 0 THEN 0 ELSE f[i - 1] + g[i]]
           T == {k \in Nat : \E f : Is(f, k)}
<1>1. 0 \in T
  <2>1. Is([i \in 0 .. 0 |-> 0], 0)
    OBVIOUS
  <2> QED BY <2>1
<1>2. ASSUME NEW k \in T PROVE k + 1 \in T
  <2>1. PICK f : Is(f, k)
    OBVIOUS
  <2> DEFINE h == [i \in 0 .. k + 1 |-> IF i = k + 1 THEN f[k] + g[k + 1] ELSE f[i]]
  <2>2. ASSUME NEW i \in 0 .. k + 1 PROVE h[i] = IF i = 0 THEN 0 ELSE h[i - 1] + g[i]
    <3>1. CASE i = k + 1
      <4>1. h[i - 1] = f[k] /\ i # 0
        BY <3>1
      <4> QED BY <3>1, <4>1
    <3>2. CASE i # k + 1
      <4>1. i \in 0 .. k /\ h[i] = f[i] /\ (i # 0 => h[i - 1] = f[i - 1])
        BY <3>2
      <4> QED BY <2>1, <4>1
    <3> QED BY <3>1, <3>2
  <2>3. Is(h, k + 1)
    <3>1. h = [i \in 0 .. k + 1 |-> h[i]]
      OBVIOUS
    <3> HIDE DEF h
    <3> QED BY <2>2, <3>1
  <2> HIDE DEF Is, h
  <2> QED BY <2>3
<1>3. T = Nat
  <2>1. T \in SUBSET Nat
    OBVIOUS
  <2> HIDE DEF T
  <2> QED BY <1>1, <1>2, <2>1, NaturalSet
<1> QED BY <1>3

(* A sum of naturals is one. *)
LEMMA SumNatural ==
  ASSUME NEW f, NEW g, NEW n \in Nat, IsSum(f, g, n), \A i \in 1 .. n : g[i] \in Nat
  PROVE  \A i \in 0 .. n : f[i] \in Nat
<1> DEFINE T == {i \in Nat : i <= n => f[i] \in Nat}
<1>1. 0 \in T
  BY DEF IsSum
<1>2. ASSUME NEW i \in T PROVE i + 1 \in T
  <2>1. i \in Nat /\ i + 1 \in Nat /\ (i + 1) - 1 = i
    OBVIOUS
  <2>2. ASSUME i + 1 <= n PROVE f[i + 1] = f[i] + g[i + 1] /\ f[i] \in Nat /\ g[i + 1] \in Nat
    <3>1. i + 1 \in 1 .. n
      BY <2>2
    <3> QED BY <2>1, <2>2, <3>1 DEF IsSum
  <2> QED BY <2>1, <2>2
<1>3. T = Nat
  <2>1. T \in SUBSET Nat
    OBVIOUS
  <2> HIDE DEF T
  <2> QED BY <1>1, <1>2, <2>1, NaturalSet
<1> QED BY <1>3

(* Where every term of a part is as great or greater, so is the part's sum. *)
LEMMA SumGrows ==
  ASSUME NEW f, NEW g, NEW m \in Nat, IsSum(f, g, m), \A i \in 1 .. m : g[i] \in Nat,
         NEW e, NEW h, NEW n \in Nat, IsSum(e, h, n), \A i \in 1 .. n : h[i] \in Nat,
         m <= n, NEW l \in 0 .. m, \A i \in 1 .. m : l < i => g[i] <= h[i]
  PROVE  \A i \in l .. m : f[i] - f[l] <= e[i] - e[l]
<1> DEFINE T == {j \in Nat : l + j <= m => f[l + j] - f[l] <= e[l + j] - e[l]}
<1>1. \A i \in 0 .. m : f[i] \in Nat /\ e[i] \in Nat
  BY SumNatural
<1>2. 0 \in T
  <2>1. l + 0 = l
    OBVIOUS
  <2> QED BY <1>1, <2>1
<1>3. ASSUME NEW j \in T PROVE j + 1 \in T
  <2> DEFINE i == l + j
  <2>1. j \in Nat /\ j + 1 \in Nat /\ l + (j + 1) = i + 1 /\ (i + 1) - 1 = i
    OBVIOUS
  <2>2. ASSUME i + 1 <= m PROVE f[i + 1] - f[l] <= e[i + 1] - e[l]
    <3>1. i + 1 \in 1 .. m /\ i + 1 \in 1 .. n /\ i \in 0 .. m /\ l < i + 1
      BY <2>2
    <3>2. f[i] - f[l] <= e[i] - e[l]
      BY <2>2
    <3> HIDE DEF i
    <3>3. f[i + 1] = f[i] + g[i + 1] /\ e[i + 1] = e[i] + h[i + 1]
      BY <2>1, <3>1 DEF IsSum
    <3>4. g[i + 1] <= h[i + 1] /\ g[i + 1] \in Nat /\ h[i + 1] \in Nat
      BY <3>1
    <3>5. f[i] \in Nat /\ f[l] \in Nat /\ e[i] \in Nat /\ e[l] \in Nat
      BY <1>1, <3>1
    <3> QED BY <3>2, <3>3, <3>4, <3>5
  <2> QED BY <2>1, <2>2
<1>4. T = Nat
  <2>1. T \in SUBSET Nat
    OBVIOUS
  <2> HIDE DEF T
  <2> QED BY <1>2, <1>3, <2>1, NaturalSet
<1>5. ASSUME NEW i \in l .. m PROVE f[i] - f[l] <= e[i] - e[l]
  <2>1. i - l \in Nat /\ l + (i - l) = i
    OBVIOUS
  <2>2. i - l \in T
    BY <1>4, <2>1
  <2> QED BY <2>1, <2>2
<1> QED BY <1>5

(* Sums of the same terms are the same. *)
LEMMA SumSame ==
  ASSUME NEW f, NEW g, NEW m \in Nat, IsSum(f, g, m), \A i \in 1 .. m : g[i] \in Nat,
         NEW e, NEW h, NEW n \in Nat, IsSum(e, h, n), m <= n,
         \A i \in 1 .. m : g[i] = h[i]
  PROVE  \A i \in 0 .. m : f[i] = e[i]
<1>1. IsSum(e, h, m) /\ (\A i \in 1 .. m : h[i] \in Nat) /\ 0 \in 0 .. m
  BY DEF IsSum
<1>2. \A i \in 1 .. m : g[i] <= h[i] /\ h[i] <= g[i]
  OBVIOUS
<1>3. \A i \in 0 .. m : f[i] - f[0] <= e[i] - e[0]
  BY <1>1, <1>2, SumGrows
<1>4. \A i \in 0 .. m : e[i] - e[0] <= f[i] - f[0]
  BY <1>1, <1>2, SumGrows
<1>5. \A i \in 0 .. m : f[i] \in Nat /\ e[i] \in Nat
  BY <1>1, SumNatural
<1>6. f[0] = 0 /\ e[0] = 0
  BY DEF IsSum
<1> QED BY <1>3, <1>4, <1>5, <1>6

(* One more in one term is one more in the sum. *)
LEMMA SumOneMore ==
  ASSUME NEW f, NEW g, NEW n \in Nat, IsSum(f, g, n), \A i \in 1 .. n : g[i] \in Nat,
         NEW e, NEW h, IsSum(e, h, n), NEW j \in 1 .. n, h[j] = g[j] + 1,
         \A i \in 1 .. n : i # j => h[i] = g[i]
  PROVE  e[n] = f[n] + 1
<1>1. \A i \in 1 .. n : h[i] \in Nat /\ g[i] <= h[i]
  OBVIOUS
<1>2. \A i \in 0 .. n : f[i] \in Nat /\ e[i] \in Nat
  BY <1>1, SumNatural
<1>3. j - 1 \in Nat /\ j \in 0 .. n /\ j - 1 \in 0 .. n /\ n \in j .. n
  OBVIOUS
<1>4. IsSum(f, g, j - 1) /\ IsSum(e, h, j - 1)
  BY DEF IsSum
<1>5. \A i \in 1 .. j - 1 : g[i] = h[i] /\ g[i] \in Nat
  OBVIOUS
<1>6. f[j - 1] = e[j - 1]
  BY <1>3, <1>4, <1>5, SumSame
<1>7. f[j] = f[j - 1] + g[j] /\ e[j] = e[j - 1] + h[j]
  BY DEF IsSum
<1>8. e[j] = f[j] + 1
  BY <1>2, <1>3, <1>6, <1>7
<1>9. \A i \in 1 .. n : j < i => g[i] <= h[i] /\ h[i] <= g[i]
  BY <1>1
<1>10. f[n] - f[j] <= e[n] - e[j] /\ e[n] - e[j] <= f[n] - f[j]
  BY <1>1, <1>3, <1>9, SumGrows
<1>11. f[n] \in Nat /\ e[n] \in Nat /\ f[j] \in Nat /\ e[j] \in Nat
  BY <1>2, <1>3
<1> QED BY <1>8, <1>10, <1>11

UpTo(g, n) == CHOOSE f : f = [i \in 0 .. n |-> IF i = 0 THEN 0 ELSE f[i - 1] + g[i]]

LEMMA UpToIsSum ==
  ASSUME NEW g, NEW n \in Nat
  PROVE  IsSum(UpTo(g, n), g, n)
<1> DEFINE f == UpTo(g, n)
<1>1. f = [i \in 0 .. n |-> IF i = 0 THEN 0 ELSE f[i - 1] + g[i]]
  BY SumExists DEF UpTo
<1> HIDE DEF f
<1>2. f[0] = 0 /\ \A i \in 1 .. n : f[i] = f[i - 1] + g[i]
  BY <1>1
<1> QED BY <1>2 DEF IsSum, f
=============================================================================
