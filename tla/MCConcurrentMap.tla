-------------------------- MODULE MCConcurrentMap --------------------------
(* Small hashes: keys that start at one bucket and go on by the same or by
   different steps. *)
EXTENDS ConcurrentMap, TLC

CONSTANTS k1, k2, k3, k4

MCHash1 == [k \in Key |-> IF k = k4 THEN 1 ELSE 0]
MCHash2 == [k \in Key |-> IF k \in {k1, k2} THEN 0 ELSE 1]

(* The inserters are alike, and so are k1 and k2. *)
Symmetry == Permutations(Inserters) \cup Permutations(Key \cap {k1, k2})

(* next_prime gives the smallest prime that is not below its argument. *)
ASSUME NextPrimeIsNext ==
  \A n \in 0 .. 300 :
    /\ next_prime(n) >= n /\ Prime(next_prime(n))
    /\ \A m \in n .. next_prime(n) - 1 : ~Prime(m)
=============================================================================
