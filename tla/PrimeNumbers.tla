---------------------------- MODULE PrimeNumbers ----------------------------
(* is_prime and next_prime of concurrent_unordered_map.hpp, on arguments small
   enough that div * div does not wrap: capacities of tables in memory. *)
EXTENDS Naturals

(* div runs through the odd numbers from 3 while div * div <= n. *)
is_prime(n) ==
  \/ n = 2
  \/ /\ n > 2 /\ n % 2 # 0
     /\ \A div \in 3 .. n : div % 2 # 0 /\ div * div <= n => n % div # 0

(* n += 2 until is_prime(n) *)
next_odd_prime[n \in Nat] == IF is_prime(n) THEN n ELSE next_odd_prime[n + 2]

next_prime(n) ==
  IF n <= 2 THEN 2 ELSE next_odd_prime[IF n % 2 = 0 THEN n + 1 ELSE n]

-----------------------------------------------------------------------------
(* What a prime is, for is_prime and next_prime to be compared with. *)
Prime(n) == n > 1 /\ \A d \in 2 .. n - 1 : n % d # 0
=============================================================================
