------------------------- MODULE ConcurrentMapProofs -------------------------
(* What a map with any number of threads, keys and submaps, any hashes and any
   load factor promises.

   First, to the calls that begin after an insert of their key has returned:
   buckets never go back, so a key that is entered stays behind the occupied
   buckets its probes have passed; that is all the argument needs of the hashes
   and the capacities.

   Second, of the counters that decide about expanding and that get_stats
   reads: every step is of one of a few kinds (Effects), and each kind keeps the
   counts of a submap, and their sums over the submaps, in balance.

   Third, of the probes: capacities are prime, so every step reaches every
   bucket. *)
EXTENDS ConcurrentMap, NumberLemmas

Table == UNION {[0 .. c - 1 -> Bucket] : c \in Nat}
Submap == [capacity : Nat, buckets : Table, num_valid : Nat]

TypedSubmap(s) ==
  /\ s \in Submap
  /\ s.capacity > 2
  /\ s.buckets \in [0 .. s.capacity - 1 -> Bucket]

TypedMap(ss) ==
  /\ ss \in Seq(Submap)
  /\ Len(ss) >= 1
  /\ \A i \in 1 .. Len(ss) : TypedSubmap(ss[i])

Floors == Seq(Int)

Call == [pc : InsertPC \cup ReadPC, key : Key \cup {EMPTY}, known : SUBSET Key,
         last : Nat, sub : Nat, n : Nat, seen : SUBSET Key, before : Nat,
         floor : Floors, entries : Nat, valid : Int]

(* The buckets that k's probes before the n-th look at are occupied, and the
   probes have not come around. *)
Path(s, k, n) ==
  \A m \in 0 .. n - 1 : s.buckets[Index(s, k, m)] # EMPTY /\ ~Wraps(s, k, m)

(* k's n-th probe in the i-th submap finds k. *)
At(ss, k, i, n) == Path(ss[i], k, n) /\ ss[i].buckets[Index(ss[i], k, n)] = k

Placed(ss, k) == \E i \in 1 .. Len(ss), n \in Nat : At(ss, k, i, n)

(* Where a thread's call c may be. *)
CallOK(ss, t, c) ==
  /\ c \in Call
  /\ t \in Inserters /\ c.pc \notin {"idle", "thrown"} => c.key \in Key
  /\ c.pc = "look" => c.key \in Key /\ c.sub \in 1 .. Len(ss)
  /\ c.pc \in {"probe", "publish", "count", "entries"} => c.sub \in 1 .. Len(ss)
  /\ c.pc \in {"look", "check"} /\ t \in Inserters => c.last \in 1 .. Len(ss)
  /\ c.pc = "look" /\ t \in Inserters => c.sub < c.last
  /\ c.pc = "seek" => c.sub \in 1 .. Len(ss) /\ c.n \in 0 .. ss[c.sub].capacity
  /\ c.pc = "stats" => c.last \in 0 .. Len(ss)
  /\ c.pc \in {"missed", "seek", "ended", "stats", "stats_read"} => t \notin Inserters
  /\ c.pc \in {"last", "check", "probe", "publish", "count", "entries", "expand", "thrown"}
       => t \in Inserters

(* What a call has established: the path it has come, the entry it has made. *)
TraceOK(ss, c) ==
  /\ c.pc \in {"look", "probe", "publish"} => Path(ss[c.sub], c.key, c.n)
  /\ c.pc \in {"count", "entries"} => Placed(ss, c.key)

(* The entry of a key that was known when the call began is still ahead of the
   call: below or further along its path, or in the last submap an insert
   comes to in the end, or in a bucket an iteration has not come to. *)
AheadOK(ss, t, c) ==
  \A k \in c.known :
    /\ Placed(ss, k)
    /\ c.pc \notin {"seek", "ended"} => k = c.key
    /\ c.pc = "look" =>
         \E i \in 1 .. Len(ss), m \in Nat :
           /\ At(ss, k, i, m)
           /\ i < c.sub \/ (i = c.sub /\ c.n <= m) \/ (t \in Inserters /\ i = c.last)
    /\ c.pc = "check" => \E m \in Nat : At(ss, k, c.last, m)
    /\ c.pc = "probe" => \E m \in Nat : At(ss, k, c.sub, m) /\ c.n <= m
    /\ c.pc \notin {"publish", "missed"}
    /\ c.pc = "seek" =>
         \/ k \in c.seen
         \/ \E i \in 1 .. Len(ss) : \E b \in 0 .. ss[i].capacity - 1 :
              /\ ss[i].buckets[b] = k
              /\ i > c.sub \/ (i = c.sub /\ b >= c.n)
    /\ c.pc = "ended" => k \in c.seen

ThreadOK(ss, t, c) == CallOK(ss, t, c) /\ TraceOK(ss, c) /\ AheadOK(ss, t, c)

Claim(t) == <<thread[t].sub, Index(Here(t), thread[t].key, thread[t].n)>>

(* A BUSY bucket that waits for its entry has one claimant. *)
ClaimsOK ==
  /\ \A t \in Inserters : thread[t].pc = "publish" => Looked(t) = BUSY
  /\ \A t, u \in Inserters :
       thread[t].pc = "publish" /\ thread[u].pc = "publish" /\ t # u => Claim(t) # Claim(u)

(* The inductive invariant. *)
Inv ==
  /\ TypedMap(submaps)
  /\ num_entries \in Nat
  /\ DOMAIN thread = Threads /\ thread \in [Threads -> Call]
  /\ returned \subseteq Key /\ \A k \in returned : Placed(submaps, k)
  /\ \A t \in Threads : ThreadOK(submaps, t, thread[t])
  /\ ClaimsOK

-----------------------------------------------------------------------------
(* Probes. *)

(* A probe looks at a bucket of the table. *)
LEMMA IndexInTable ==
  ASSUME NEW s, s.capacity \in Nat, s.capacity > 2, NEW k \in Key, NEW n \in Nat
  PROVE  Index(s, k, n) \in 0 .. s.capacity - 1
<1> DEFINE c == s.capacity
<1>1. Hash1[k] \in Nat /\ Hash2[k] \in Nat
  BY MapAssumption
<1>2. Hash1[k] % c \in Nat /\ Hash2[k] % (c - 1) \in Nat
  BY <1>1
<1>3. n * calculate_probe_increment(s, k) \in Nat
  BY <1>2 DEF calculate_probe_increment
<1>4. (Hash1[k] % c) + n * calculate_probe_increment(s, k) \in Nat
  BY <1>2, <1>3
<1> HIDE DEF c
<1>5. ASSUME NEW x \in Nat, c \in Nat, c > 2 PROVE x % c \in 0 .. c - 1
  BY <1>5
<1> QED BY <1>4, <1>5 DEF Index, c

(* The buckets of a map that has gone on. *)
Grows(ss, tt) ==
  /\ Len(ss) <= Len(tt)
  /\ \A i \in 1 .. Len(ss) :
       /\ tt[i].capacity = ss[i].capacity
       /\ \A b \in 0 .. ss[i].capacity - 1 :
            /\ ss[i].buckets[b] # EMPTY => tt[i].buckets[b] # EMPTY
            /\ ss[i].buckets[b] \in Key => tt[i].buckets[b] = ss[i].buckets[b]

(* The probes of a key depend on the capacity only. *)
LEMMA SameProbes ==
  ASSUME NEW s, NEW u, u.capacity = s.capacity, NEW k, NEW n
  PROVE  Index(u, k, n) = Index(s, k, n) /\ (Wraps(u, k, n) <=> Wraps(s, k, n))
BY DEF Index, Wraps, calculate_probe_increment

(* What a key's probes have found stays so. *)
LEMMA PathGrows ==
  ASSUME NEW ss, NEW tt, TypedMap(ss), Grows(ss, tt),
         NEW i \in 1 .. Len(ss), NEW k \in Key, NEW n \in Nat
  PROVE  /\ Path(ss[i], k, n) => Path(tt[i], k, n)
         /\ At(ss, k, i, n) => At(tt, k, i, n)
<1>1. tt[i].capacity = ss[i].capacity
  BY DEF Grows
<1>2. \A m \in Nat : /\ Index(tt[i], k, m) = Index(ss[i], k, m)
                     /\ Wraps(tt[i], k, m) <=> Wraps(ss[i], k, m)
  BY <1>1, SameProbes
<1>3. \A m \in Nat : Index(ss[i], k, m) \in 0 .. ss[i].capacity - 1
  BY IndexInTable DEF TypedMap, TypedSubmap, Submap
<1>4. Path(ss[i], k, n) => Path(tt[i], k, n)
  <2> SUFFICES ASSUME Path(ss[i], k, n), NEW m \in 0 .. n - 1
               PROVE  tt[i].buckets[Index(tt[i], k, m)] # EMPTY /\ ~Wraps(tt[i], k, m)
    BY DEF Path
  <2>1. m \in Nat /\ ss[i].buckets[Index(ss[i], k, m)] # EMPTY /\ ~Wraps(ss[i], k, m)
    BY DEF Path
  <2>2. Index(ss[i], k, m) \in 0 .. ss[i].capacity - 1
    BY <1>3, <2>1
  <2>3. tt[i].buckets[Index(ss[i], k, m)] # EMPTY
    BY <2>1, <2>2 DEF Grows
  <2> QED BY <1>2, <2>1, <2>3
<1>5. ss[i].buckets[Index(ss[i], k, n)] = k => tt[i].buckets[Index(tt[i], k, n)] = k
  BY <1>2, <1>3 DEF Grows
<1> QED BY <1>4, <1>5 DEF At

(* So does an entry's being in the map. *)
LEMMA PlacedGrows ==
  ASSUME NEW ss, NEW tt, TypedMap(ss), TypedMap(tt), Grows(ss, tt), NEW k \in Key, Placed(ss, k)
  PROVE  Placed(tt, k)
<1>1. PICK i \in 1 .. Len(ss), n \in Nat : At(ss, k, i, n)
  BY DEF Placed
<1>2. Len(ss) \in Nat /\ Len(tt) \in Nat /\ Len(ss) <= Len(tt)
  BY DEF Grows, TypedMap
<1>3. At(tt, k, i, n)
  BY <1>1, PathGrows
<1>4. i \in 1 .. Len(tt)
  BY <1>2
<1> QED BY <1>3, <1>4 DEF Placed

(* What holds of a call holds on while the map grows. *)
LEMMA ThreadGrows ==
  ASSUME NEW ss, NEW tt, TypedMap(ss), TypedMap(tt), Grows(ss, tt),
         NEW t, NEW c, ThreadOK(ss, t, c)
  PROVE  ThreadOK(tt, t, c)
<1>0. Len(ss) \in Nat /\ Len(tt) \in Nat /\ Len(ss) <= Len(tt) /\ c \in Call
  BY DEF TypedMap, Grows, ThreadOK, CallOK
<1>1. CallOK(tt, t, c)
  <2>1. c.pc = "seek" => tt[c.sub].capacity = ss[c.sub].capacity
    BY DEF ThreadOK, CallOK, Grows
  <2> QED BY <1>0, <2>1 DEF ThreadOK, CallOK, Call
<1>2. TraceOK(tt, c)
  <2>1. ASSUME c.pc \in {"look", "probe", "publish"}
        PROVE  Path(tt[c.sub], c.key, c.n)
    <3>1. c.sub \in 1 .. Len(ss) /\ c.key \in Key /\ c.n \in Nat
      BY <2>1 DEF ThreadOK, CallOK, Call
    <3>2. Path(ss[c.sub], c.key, c.n)
      BY <2>1 DEF ThreadOK, TraceOK
    <3> QED BY <3>1, <3>2, PathGrows
  <2>2. ASSUME c.pc \in {"count", "entries"} PROVE Placed(tt, c.key)
    <3>1. c.key \in Key /\ Placed(ss, c.key)
      BY <2>2 DEF ThreadOK, CallOK, TraceOK
    <3> QED BY <3>1, PlacedGrows
  <2> QED BY <2>1, <2>2 DEF TraceOK
<1>3. AheadOK(tt, t, c)
  <2> SUFFICES ASSUME NEW k \in c.known
               PROVE  /\ Placed(tt, k)
                      /\ c.pc \notin {"seek", "ended"} => k = c.key
                      /\ c.pc = "look" =>
                           \E i \in 1 .. Len(tt), m \in Nat :
                             /\ At(tt, k, i, m)
                             /\ \/ i < c.sub
                                \/ i = c.sub /\ c.n <= m
                                \/ t \in Inserters /\ i = c.last
                      /\ c.pc = "check" => \E m \in Nat : At(tt, k, c.last, m)
                      /\ c.pc = "probe" => \E m \in Nat : At(tt, k, c.sub, m) /\ c.n <= m
                      /\ c.pc \notin {"publish", "missed"}
                      /\ c.pc = "seek" =>
                           \/ k \in c.seen
                           \/ \E i \in 1 .. Len(tt) : \E b \in 0 .. tt[i].capacity - 1 :
                                /\ tt[i].buckets[b] = k
                                /\ i > c.sub \/ (i = c.sub /\ b >= c.n)
                      /\ c.pc = "ended" => k \in c.seen
    BY DEF AheadOK
  <2>1. k \in Key /\ AheadOK(ss, t, c)
    BY <1>0 DEF ThreadOK, Call
  <2>2. Placed(tt, k) /\ (c.pc \notin {"seek", "ended"} => k = c.key)
    BY <2>1, PlacedGrows DEF AheadOK
  <2>3. \A i \in 1 .. Len(ss), m \in Nat : At(ss, k, i, m) => At(tt, k, i, m) /\ i \in 1 .. Len(tt)
    BY <1>0, <2>1, PathGrows
  <2>4. c.pc = "look" =>
          \E i \in 1 .. Len(tt), m \in Nat :
            /\ At(tt, k, i, m)
            /\ i < c.sub \/ (i = c.sub /\ c.n <= m) \/ (t \in Inserters /\ i = c.last)
    BY <2>1, <2>3 DEF AheadOK
  <2>5. c.pc = "probe" => \E m \in Nat : At(tt, k, c.sub, m) /\ c.n <= m
    BY <2>1, <2>3 DEF AheadOK, ThreadOK, CallOK
  <2>6. c.pc = "check" => \E m \in Nat : At(tt, k, c.last, m)
    BY <2>1, <2>3 DEF AheadOK, ThreadOK, CallOK
  <2>7. c.pc = "seek" =>
          \/ k \in c.seen
          \/ \E i \in 1 .. Len(tt) : \E b \in 0 .. tt[i].capacity - 1 :
               /\ tt[i].buckets[b] = k
               /\ i > c.sub \/ (i = c.sub /\ b >= c.n)
    <3>1. ASSUME NEW i \in 1 .. Len(ss), NEW b \in 0 .. ss[i].capacity - 1,
                 ss[i].buckets[b] = k
          PROVE  i \in 1 .. Len(tt) /\ b \in 0 .. tt[i].capacity - 1 /\ tt[i].buckets[b] = k
      BY <1>0, <2>1, <3>1 DEF Grows
    <3> QED BY <2>1, <3>1 DEF AheadOK
  <2>8. c.pc \notin {"publish", "missed"} /\ (c.pc = "ended" => k \in c.seen)
    BY <2>1 DEF AheadOK
  <2> QED BY <2>2, <2>4, <2>5, <2>6, <2>7, <2>8
<1> QED BY <1>1, <1>2, <1>3 DEF ThreadOK

-----------------------------------------------------------------------------
(* Steps. *)

(* A step of one thread's call, by which the map grows. *)
LEMMA StepInv ==
  ASSUME Inv, NEW t \in Threads,
         TypedMap(submaps'), Grows(submaps, submaps'), num_entries' \in Nat,
         thread' \in [Threads -> Call], \A u \in Threads \ {t} : thread'[u] = thread[u],
         ThreadOK(submaps', t, thread'[t]),
         returned' \subseteq Key,
         \A k \in returned' \ returned : Placed(submaps', k),
         ClaimsOK'
  PROVE  Inv'
<1>1. ASSUME NEW u \in Threads PROVE ThreadOK(submaps', u, thread'[u])
  <2>1. CASE u = t
    BY <2>1
  <2>2. CASE u # t
    <3>1. ThreadOK(submaps, u, thread[u]) /\ TypedMap(submaps)
      BY DEF Inv
    <3>2. ThreadOK(submaps', u, thread[u])
      BY <3>1, ThreadGrows
    <3> QED BY <2>2, <3>2
  <2> QED BY <2>1, <2>2
<1>2. ASSUME NEW k \in returned' PROVE Placed(submaps', k)
  <2>1. CASE k \in returned
    BY <2>1, PlacedGrows DEF Inv
  <2> QED BY <2>1
<1> QED BY <1>1, <1>2 DEF Inv

(* A map that is left alone has grown. *)
LEMMA SameGrows == \A ss : ss \in Seq(Submap) => Grows(ss, ss)
BY DEF Grows

(* A step that leaves the map alone and claims no bucket. *)
LEMMA QuietStep ==
  ASSUME Inv, NEW t \in Threads, UNCHANGED submaps, num_entries' \in Nat,
         thread' \in [Threads -> Call], \A u \in Threads \ {t} : thread'[u] = thread[u],
         thread'[t].pc # "publish",
         ThreadOK(submaps, t, thread'[t]),
         returned' \subseteq Key,
         \A k \in returned' \ returned : Placed(submaps, k)
  PROVE  Inv'
<1>1. TypedMap(submaps') /\ Grows(submaps, submaps')
  BY SameGrows DEF Inv, TypedMap
<1>2. ClaimsOK'
  <2>1. ASSUME NEW u \in Inserters, thread'[u].pc = "publish"
        PROVE  thread'[u] = thread[u] /\ thread[u].pc = "publish"
    BY <2>1 DEF Threads
  <2>2. ASSUME NEW u \in Inserters, thread'[u].pc = "publish" PROVE Looked(u)' = BUSY
    <3>1. Looked(u) = BUSY
      BY <2>1, <2>2 DEF Inv, ClaimsOK
    <3> QED BY <2>1, <2>2, <3>1 DEF Looked, Here
  <2>3. ASSUME NEW u \in Inserters, NEW v \in Inserters,
               thread'[u].pc = "publish", thread'[v].pc = "publish", u # v
        PROVE  Claim(u)' # Claim(v)'
    <3>1. Claim(u) # Claim(v)
      BY <2>1, <2>3 DEF Inv, ClaimsOK
    <3>2. Claim(u)' = Claim(u) /\ Claim(v)' = Claim(v)
      BY <2>1, <2>3 DEF Claim, Here
    <3> QED BY <3>1, <3>2
  <2> QED BY <2>2, <2>3 DEF ClaimsOK
<1> QED BY <1>1, <1>2, StepInv

(* Between calls nothing is claimed of a thread. *)
LEMMA NoFloors == <<>> \in Floors
BY DEF Floors

LEMMA IdleOK == \A ss, t : ThreadOK(ss, t, Idle) /\ Idle \in Call
BY NoFloors DEF ThreadOK, CallOK, TraceOK, AheadOK, Idle, Call, InsertPC, ReadPC

LEMMA IdleFields ==
  /\ Idle \in Call /\ Idle.pc = "idle" /\ Idle.key = EMPTY /\ Idle.known = {} /\ Idle.last = 0
  /\ Idle.sub = 0 /\ Idle.n = 0 /\ Idle.valid = 0
BY IdleOK DEF Idle

(* A call returns: an insert's key is in the map by then. *)
LEMMA ReturnInv ==
  ASSUME Inv, NEW t \in Threads, Return(t), UNCHANGED submaps, num_entries' \in Nat,
         t \in Inserters => thread[t].key \in Key /\ Placed(submaps, thread[t].key)
  PROVE  Inv'
<1>1. /\ thread' \in [Threads -> Call] /\ thread'[t] = Idle
      /\ \A u \in Threads \ {t} : thread'[u] = thread[u]
  BY IdleOK DEF Inv, Return
<1>2. returned' \subseteq Key /\ \A k \in returned' \ returned : Placed(submaps, k)
  BY DEF Inv, Return
<1>3. ThreadOK(submaps, t, thread'[t]) /\ thread'[t].pc # "publish"
  BY <1>1, IdleOK, IdleFields
<1> QED BY <1>1, <1>2, <1>3, QuietStep

(* Init is empty. *)
LEMMA InvInit == Init => Inv
<1> SUFFICES ASSUME Init PROVE Inv
  OBVIOUS
<1>1. TypedMap(submaps)
  <2> DEFINE s == NewSubmap(FirstCapacity)
  <2>1. /\ s.capacity = FirstCapacity /\ s.num_valid = 0
        /\ s.buckets \in [0 .. FirstCapacity - 1 -> Bucket]
        /\ s = [capacity |-> s.capacity, buckets |-> s.buckets, num_valid |-> s.num_valid]
    BY DEF NewSubmap, Bucket
  <2>2. FirstCapacity \in Nat /\ FirstCapacity > 2
    BY MapAssumption
  <2>3. s.buckets \in Table
    BY <2>1, <2>2 DEF Table
  <2> HIDE DEF s
  <2>4. TypedSubmap(s)
    BY <2>1, <2>2, <2>3 DEF TypedSubmap, Submap
  <2>5. submaps = <<s>>
    BY DEF Init, s
  <2> QED BY <2>4, <2>5 DEF TypedMap, TypedSubmap
<1>2. \A t \in Threads : thread[t] = Idle
  BY DEF Init
<1>3. ClaimsOK
  BY <1>2 DEF ClaimsOK, Threads, Idle
<1> QED BY <1>1, <1>2, <1>3, IdleOK DEF Inv, Init

-----------------------------------------------------------------------------
(* find_helper and Submap::find. *)

(* What is known of a thread whose call has come to a bucket. *)
LEMMA CallFacts ==
  ASSUME Inv, NEW t \in Threads
  PROVE  /\ thread[t] \in Call /\ thread \in [Threads -> Call]
         /\ ThreadOK(submaps, t, thread[t])
         /\ TypedMap(submaps) /\ Len(submaps) \in Nat /\ Len(submaps) >= 1
         /\ num_entries \in Nat /\ returned \subseteq Key
BY DEF Inv, ThreadOK, CallOK, TypedMap

(* An entry that is not before the n-th probe, and not there, is after it; it
   is nowhere if the probes end there. *)
LEMMA EntryIsFurther ==
  ASSUME NEW ss, NEW k, NEW i, NEW n \in Nat, NEW m \in Nat, At(ss, k, i, m), n <= m,
         ss[i].buckets[Index(ss[i], k, n)] # k
  PROVE  /\ n + 1 <= m
         /\ ss[i].buckets[Index(ss[i], k, n)] # EMPTY
         /\ ~Wraps(ss[i], k, n)
<1>1. m # n
  BY DEF At
<1>2. n \in 0 .. m - 1
  BY <1>1
<1> QED BY <1>1, <1>2 DEF At, Path

(* A path goes on over an occupied bucket. *)
LEMMA PathGoesOn ==
  ASSUME NEW s, NEW k, NEW n \in Nat, Path(s, k, n),
         s.buckets[Index(s, k, n)] # EMPTY, ~Wraps(s, k, n)
  PROVE  Path(s, k, n + 1)
BY DEF Path

(* Look keeps the invariant. *)
LEMMA LookInv == ASSUME Inv, NEW t \in Threads, Look(t) PROVE Inv'
<1> DEFINE c == thread[t]
           d == thread'[t]
<1>1. /\ c \in Call /\ thread \in [Threads -> Call] /\ ThreadOK(submaps, t, c)
      /\ Len(submaps) \in Nat /\ num_entries \in Nat /\ returned \subseteq Key
  BY CallFacts
<1>2. c.pc = "look" /\ UNCHANGED <<submaps, expanding, num_entries>>
  BY DEF Look
<1>3. c.key \in Key /\ c.sub \in 1 .. Len(submaps) /\ c.n \in Nat /\ c.known \subseteq Key
  BY <1>1, <1>2 DEF ThreadOK, CallOK, Call
<1>4. Path(submaps[c.sub], c.key, c.n)
  BY <1>1, <1>2 DEF ThreadOK, TraceOK
<1>5. Looked(t) = submaps[c.sub].buckets[Index(submaps[c.sub], c.key, c.n)]
  BY DEF Looked, Here
<1>6. CASE LookFound(t)
  <2>1. At(submaps, c.key, c.sub, c.n)
    BY <1>4, <1>5, <1>6 DEF LookFound, At
  <2>2. Placed(submaps, c.key)
    BY <1>3, <2>1 DEF Placed
  <2> QED BY <1>1, <1>2, <1>3, <1>6, <2>2, ReturnInv DEF LookFound
<1>7. CASE LookOn(t)
  <2>1. /\ thread' \in [Threads -> Call] /\ \A u \in Threads \ {t} : thread'[u] = thread[u]
        /\ d = [c EXCEPT !.n = c.n + 1] /\ returned' = returned
    <3>0. c.n + 1 \in Nat
      BY <1>3
    <3>1. [c EXCEPT !.n = c.n + 1] \in Call
      BY <1>1, <3>0 DEF Call
    <3>2. thread' = [thread EXCEPT ![t] = [c EXCEPT !.n = c.n + 1]]
      BY <1>1, <1>3, <1>7 DEF LookOn, NextProbe, Call
    <3> QED BY <1>1, <1>7, <3>1, <3>2 DEF LookOn
  <2>2. /\ d \in Call /\ d.pc = "look" /\ d.key = c.key /\ d.sub = c.sub /\ d.n = c.n + 1
        /\ d.known = c.known /\ d.last = c.last
    BY <1>1, <1>2, <2>1 DEF Call
  <2>3. CallOK(submaps, t, d)
    BY <1>1, <1>2, <2>2 DEF ThreadOK, CallOK
  <2>4. Path(submaps[c.sub], c.key, c.n + 1)
    BY <1>3, <1>4, <1>5, <1>7, PathGoesOn DEF LookOn, Here
  <2>5. TraceOK(submaps, d)
    BY <2>2, <2>4 DEF TraceOK
  <2>6. ASSUME NEW k \in d.known
        PROVE  \E i \in 1 .. Len(submaps), m \in Nat :
                 /\ At(submaps, k, i, m)
                 /\ i < d.sub \/ (i = d.sub /\ d.n <= m) \/ (t \in Inserters /\ i = d.last)
    <3>1. k = c.key
      BY <1>1, <1>2, <2>2 DEF ThreadOK, AheadOK
    <3>2. PICK i \in 1 .. Len(submaps), m \in Nat :
                 /\ At(submaps, k, i, m)
                 /\ i < c.sub \/ (i = c.sub /\ c.n <= m) \/ (t \in Inserters /\ i = c.last)
      BY <1>1, <1>2, <2>2 DEF ThreadOK, AheadOK
    <3>3. i = c.sub /\ c.n <= m => c.n + 1 <= m
      BY <1>3, <1>5, <1>7, <3>1, <3>2, EntryIsFurther DEF LookOn
    <3> QED BY <2>2, <3>2, <3>3
  <2>7. AheadOK(submaps, t, d)
    BY <1>1, <1>2, <2>2, <2>6 DEF ThreadOK, AheadOK
  <2>8. ThreadOK(submaps, t, d)
    BY <2>3, <2>5, <2>7 DEF ThreadOK
  <2> HIDE DEF d
  <2> QED BY <1>1, <1>2, <2>1, <2>2, <2>8, QuietStep DEF d
<1>8. CASE LookBelow(t)
  <2>1. ASSUME NEW k \in c.known
        PROVE  \E i \in 1 .. Len(submaps), m \in Nat :
                 At(submaps, k, i, m) /\ (i < c.sub \/ (t \in Inserters /\ i = c.last))
    <3>1. k = c.key
      BY <1>1, <1>2 DEF ThreadOK, AheadOK
    <3>2. PICK i \in 1 .. Len(submaps), m \in Nat :
                 /\ At(submaps, k, i, m)
                 /\ i < c.sub \/ (i = c.sub /\ c.n <= m) \/ (t \in Inserters /\ i = c.last)
      BY <1>1, <1>2 DEF ThreadOK, AheadOK
    <3>3. ~(i = c.sub /\ c.n <= m)
      BY <1>3, <1>5, <1>8, <3>1, <3>2, EntryIsFurther DEF LookBelow, Here
    <3> QED BY <3>2, <3>3
  <2>2. returned' = returned
    BY <1>8 DEF LookBelow
  <2>3. CASE c.sub > 1
    <3>1. /\ thread' \in [Threads -> Call] /\ \A u \in Threads \ {t} : thread'[u] = thread[u]
          /\ d = [c EXCEPT !.pc = "look", !.sub = c.sub - 1, !.n = 0]
      BY <1>1, <1>3, <1>8, <2>3, SMTT(30) DEF LookBelow, LookIn, Call, ReadPC
    <3>2. /\ d \in Call /\ d.pc = "look" /\ d.key = c.key /\ d.sub = c.sub - 1 /\ d.n = 0
          /\ d.known = c.known /\ d.last = c.last
      BY <1>1, <1>2, <3>1 DEF Call
    <3>3. CallOK(submaps, t, d)
      BY <1>1, <1>2, <1>3, <2>3, <3>2 DEF ThreadOK, CallOK, Call
    <3>4. TraceOK(submaps, d)
      BY <3>2 DEF TraceOK, Path
    <3>5. ASSUME NEW k \in d.known
          PROVE  \E i \in 1 .. Len(submaps), m \in Nat :
                   /\ At(submaps, k, i, m)
                   /\ i < d.sub \/ (i = d.sub /\ d.n <= m) \/ (t \in Inserters /\ i = d.last)
      BY <1>3, <2>1, <3>2
    <3>6. AheadOK(submaps, t, d)
      BY <1>1, <1>2, <3>2, <3>5 DEF ThreadOK, AheadOK
    <3>7. ThreadOK(submaps, t, d)
      BY <3>3, <3>4, <3>6 DEF ThreadOK
    <3> HIDE DEF d
    <3> QED BY <1>1, <1>2, <2>2, <3>1, <3>2, <3>7, QuietStep DEF d
  <2>4. CASE c.sub = 1
    <3>1. /\ thread' \in [Threads -> Call] /\ \A u \in Threads \ {t} : thread'[u] = thread[u]
          /\ d = [c EXCEPT !.pc = IF t \in Inserters THEN "check" ELSE "missed"]
      <4> DEFINE e == [c EXCEPT !.pc = IF t \in Inserters THEN "check" ELSE "missed"]
      <4>1. e \in Call
        BY <1>1 DEF Call, InsertPC, ReadPC
      <4>2. thread' = [thread EXCEPT ![t] = e]
        BY <1>1, <1>3, <1>8, <2>4 DEF LookBelow, Goto
      <4> QED BY <1>1, <4>1, <4>2
    <3>2. /\ d \in Call /\ d.pc = IF t \in Inserters THEN "check" ELSE "missed"
          /\ d.key = c.key /\ d.known = c.known /\ d.last = c.last
      BY <1>1, <3>1 DEF Call
    <3>3. CallOK(submaps, t, d)
      BY <1>1, <1>2, <1>3, <3>2 DEF ThreadOK, CallOK
    <3>4. TraceOK(submaps, d)
      BY <3>2 DEF TraceOK
    <3>5. ASSUME NEW k \in d.known
          PROVE  t \in Inserters /\ \E m \in Nat : At(submaps, k, d.last, m)
      BY <1>3, <2>1, <2>4, <3>2
    <3>6. AheadOK(submaps, t, d)
      BY <1>1, <1>2, <3>2, <3>5 DEF ThreadOK, AheadOK
    <3>7. ThreadOK(submaps, t, d)
      BY <3>3, <3>4, <3>6 DEF ThreadOK
    <3> HIDE DEF d
    <3> QED BY <1>1, <1>2, <2>2, <3>1, <3>2, <3>7, QuietStep DEF d
  <2> QED BY <1>3, <2>3, <2>4
<1> QED BY <1>6, <1>7, <1>8 DEF Look

-----------------------------------------------------------------------------
(* The other steps that leave the map alone. *)

(* A step from one place of a call to another. *)
LEMMA QuietCall ==
  ASSUME Inv, NEW t \in Threads, NEW e \in Call, UNCHANGED <<submaps, num_entries, returned>>,
         thread' = [thread EXCEPT ![t] = e], e.pc # "publish", ThreadOK(submaps, t, e)
  PROVE  Inv'
<1>1. /\ thread' \in [Threads -> Call] /\ thread'[t] = e
      /\ \A u \in Threads \ {t} : thread'[u] = thread[u]
  BY CallFacts
<1>2. num_entries' \in Nat /\ returned' \subseteq Key /\ returned' = returned
  BY CallFacts
<1> QED BY <1>1, <1>2, QuietStep

(* Whatever is known at the start of a call is in the map. *)
LEMMA BeginInsertInv ==
  ASSUME Inv, NEW t \in Inserters, NEW k \in Key, BeginInsert(t, k) PROVE Inv'
<1> DEFINE e == [Idle EXCEPT !.pc = "last", !.key = k, !.known = {k} \cap returned]
<1>1. \A j \in returned : Placed(submaps, j)
  BY DEF Inv
<1>2. /\ e \in Call /\ e.pc = "last" /\ e.key = k /\ e.known = {k} \cap returned
  BY IdleFields DEF Call, InsertPC
<1>3. thread' = [thread EXCEPT ![t] = e] /\ UNCHANGED <<submaps, num_entries, returned>>
  BY DEF BeginInsert
<1> HIDE DEF e
<1>4. ThreadOK(submaps, t, e)
  BY <1>1, <1>2 DEF ThreadOK, CallOK, TraceOK, AheadOK
<1> QED BY <1>2, <1>3, <1>4, QuietCall DEF Threads

(* A find starts above whatever is known, at the last submap. *)
LEMMA BeginFindInv ==
  ASSUME Inv, NEW t \in Readers, NEW k \in Key, BeginFind(t, k) PROVE Inv'
<1> DEFINE e == [Idle EXCEPT !.pc = "look", !.key = k, !.known = {k} \cap returned,
                             !.sub = Len(submaps)]
<1>1. (\A j \in returned : Placed(submaps, j)) /\ Len(submaps) \in Nat /\ Len(submaps) >= 1
  BY CallFacts DEF Inv, Threads
<1>2. /\ e \in Call /\ e.pc = "look" /\ e.key = k /\ e.known = {k} \cap returned
      /\ e.sub = Len(submaps) /\ e.n = 0
  BY <1>1, IdleFields DEF Call, ReadPC
<1>3. thread' = [thread EXCEPT ![t] = e] /\ UNCHANGED <<submaps, num_entries, returned>>
  BY DEF BeginFind
<1>4. t \notin Inserters
  BY MapAssumption
<1> HIDE DEF e
<1>5. CallOK(submaps, t, e)
  BY <1>1, <1>2, <1>4 DEF CallOK
<1>6. TraceOK(submaps, e)
  BY <1>2 DEF TraceOK, Path
<1>7. AheadOK(submaps, t, e)
  BY <1>1, <1>2 DEF AheadOK, Placed
<1> QED BY <1>2, <1>3, <1>5, <1>6, <1>7, QuietCall DEF Threads, ThreadOK

(* An iteration starts before whatever is known, at the first bucket. *)
LEMMA BeginIterationInv ==
  ASSUME Inv, NEW t \in Readers, BeginIteration(t) PROVE Inv'
<1> DEFINE e == [Idle EXCEPT !.pc = "seek", !.known = returned, !.sub = 1]
<1>1. /\ \A j \in returned : Placed(submaps, j)
      /\ Len(submaps) \in Nat /\ Len(submaps) >= 1 /\ returned \subseteq Key
      /\ TypedMap(submaps)
  BY CallFacts DEF Inv, Threads
<1>2. /\ e \in Call /\ e.pc = "seek" /\ e.known = returned /\ e.sub = 1 /\ e.n = 0
  BY <1>1, IdleFields DEF Call, ReadPC
<1>3. thread' = [thread EXCEPT ![t] = e] /\ UNCHANGED <<submaps, num_entries, returned>>
  BY DEF BeginIteration
<1>4. t \notin Inserters
  BY MapAssumption
<1> HIDE DEF e
<1>5. CallOK(submaps, t, e)
  BY <1>1, <1>2, <1>4 DEF CallOK, TypedMap, TypedSubmap, Submap
<1>6. TraceOK(submaps, e)
  BY <1>2 DEF TraceOK
<1>7. ASSUME NEW k \in returned
      PROVE  \E i \in 1 .. Len(submaps) : \E b \in 0 .. submaps[i].capacity - 1 :
               submaps[i].buckets[b] = k /\ (i > e.sub \/ (i = e.sub /\ b >= e.n))
  <2>1. PICK i \in 1 .. Len(submaps), n \in Nat : At(submaps, k, i, n)
    BY <1>1 DEF Placed
  <2>2. Index(submaps[i], k, n) \in 0 .. submaps[i].capacity - 1
    BY <1>1, IndexInTable DEF TypedMap, TypedSubmap, Submap
  <2> QED BY <1>1, <1>2, <2>1, <2>2 DEF At, TypedMap, TypedSubmap, Submap
<1>8. AheadOK(submaps, t, e)
  BY <1>1, <1>2, <1>7 DEF AheadOK
<1> QED BY <1>2, <1>3, <1>5, <1>6, <1>8, QuietCall DEF Threads, ThreadOK

(* Every submap that holds a known key is below the last or is the last. *)
LEMMA ReadLastInv == ASSUME Inv, NEW t \in Inserters, ReadLast(t) PROVE Inv'
<1> DEFINE c == thread[t]
           last == Len(submaps)
           e == [c EXCEPT !.pc = IF last > 1 THEN "look" ELSE "check", !.last = last,
                          !.sub = IF last > 1 THEN last - 1 ELSE last, !.n = 0]
<1>1. /\ c \in Call /\ thread \in [Threads -> Call] /\ ThreadOK(submaps, t, c)
      /\ last \in Nat /\ last >= 1 /\ c.pc = "last"
  BY CallFacts DEF Threads, ReadLast
<1>2. /\ e \in Call /\ e.pc = (IF last > 1 THEN "look" ELSE "check") /\ e.key = c.key
      /\ e.known = c.known /\ e.last = last
      /\ e.sub = (IF last > 1 THEN last - 1 ELSE last) /\ e.n = 0
  <2>1. (IF last > 1 THEN last - 1 ELSE last) \in Nat
    BY <1>1
  <2> QED BY <1>1, <2>1 DEF Call, InsertPC
<1>3. thread' = [thread EXCEPT ![t] = e] /\ UNCHANGED <<submaps, num_entries, returned>>
  BY DEF ReadLast
<1> HIDE DEF e
<1>4. CallOK(submaps, t, e)
  BY <1>1, <1>2 DEF ThreadOK, CallOK
<1>5. TraceOK(submaps, e)
  BY <1>2 DEF TraceOK, Path
<1>6. AheadOK(submaps, t, e)
  <2> SUFFICES ASSUME NEW k \in e.known
               PROVE  /\ Placed(submaps, k) /\ k = e.key
                      /\ e.pc = "look" =>
                           \E i \in 1 .. Len(submaps), m \in Nat :
                             /\ At(submaps, k, i, m)
                             /\ \/ i < e.sub
                                \/ i = e.sub /\ e.n <= m
                                \/ t \in Inserters /\ i = e.last
                      /\ e.pc = "check" => \E m \in Nat : At(submaps, k, e.last, m)
    BY <1>2 DEF AheadOK
  <2>1. Placed(submaps, k) /\ k = e.key
    BY <1>1, <1>2 DEF ThreadOK, AheadOK
  <2>2. PICK i \in 1 .. Len(submaps), m \in Nat : At(submaps, k, i, m)
    BY <2>1 DEF Placed
  <2>3. last > 1 => i < last - 1 \/ i = last - 1 \/ i = last
    BY <1>1
  <2>4. ~(last > 1) => i = last
    BY <1>1
  <2> QED BY <1>1, <1>2, <2>1, <2>2, <2>3, <2>4
<1> QED BY <1>2, <1>3, <1>4, <1>5, <1>6, QuietCall DEF Threads, ThreadOK

(* The overload test sends the call to the last submap or to expand. *)
LEMMA CheckInv == ASSUME Inv, NEW t \in Inserters, Check(t) PROVE Inv'
<1> DEFINE c == thread[t]
           e == IF is_overloaded(submaps[c.last]) THEN [c EXCEPT !.pc = "expand"]
                ELSE [c EXCEPT !.pc = "probe", !.sub = c.last, !.n = 0]
<1>1. /\ c \in Call /\ thread \in [Threads -> Call] /\ ThreadOK(submaps, t, c)
      /\ c.pc = "check"
  BY CallFacts DEF Threads, Check
<1>2. /\ e \in Call /\ e.key = c.key /\ e.known = c.known
      /\ e.pc = "expand" \/ (e.pc = "probe" /\ e.sub = c.last /\ e.n = 0)
  BY <1>1 DEF Call, InsertPC
<1>3. thread' = [thread EXCEPT ![t] = e] /\ UNCHANGED <<submaps, num_entries, returned>>
  BY <1>1 DEF Check, Goto
<1> HIDE DEF e
<1>4. CallOK(submaps, t, e)
  <2>1. c.key \in Key /\ c.last \in 1 .. Len(submaps)
    BY <1>1 DEF ThreadOK, CallOK
  <2>2. CASE e.pc = "expand"
    BY <1>2, <2>1, <2>2 DEF CallOK
  <2>3. CASE e.pc = "probe" /\ e.sub = c.last
    BY <1>2, <2>1, <2>3, CallFacts DEF CallOK, Call, ThreadOK
  <2> QED BY <1>2, <2>2, <2>3
<1>5. TraceOK(submaps, e)
  BY <1>2 DEF TraceOK, Path
<1>6. AheadOK(submaps, t, e)
  BY <1>1, <1>2 DEF ThreadOK, AheadOK
<1> QED BY <1>2, <1>3, <1>4, <1>5, <1>6, QuietCall DEF Threads, ThreadOK

-----------------------------------------------------------------------------
(* Probing for a bucket to insert into. *)

(* Bucket x of the i-th submap is set to b. *)
With(ss, i, x, b) == [ss EXCEPT ![i].buckets[x] = b]

(* The maps differ in no bucket but x of the i-th submap. *)
SameBut(ss, tt, i, x) ==
  \A j \in 1 .. Len(ss) :
    /\ tt[j].capacity = ss[j].capacity
    /\ \A y \in 0 .. ss[j].capacity - 1 :
         <<j, y>> # <<i, x>> => tt[j].buckets[y] = ss[j].buckets[y]

(* A bucket that holds no entry may be set: the map grows. *)
LEMMA BucketSet ==
  ASSUME NEW ss, TypedMap(ss), NEW i \in 1 .. Len(ss),
         NEW x \in 0 .. ss[i].capacity - 1, NEW b \in Key \cup {BUSY},
         ss[i].buckets[x] \notin Key
  PROVE  /\ TypedMap(With(ss, i, x, b)) /\ Grows(ss, With(ss, i, x, b))
         /\ Len(With(ss, i, x, b)) = Len(ss)
         /\ With(ss, i, x, b)[i].buckets[x] = b
         /\ With(ss, i, x, b)[i].capacity = ss[i].capacity
         /\ SameBut(ss, With(ss, i, x, b), i, x)
<1> DEFINE tt == With(ss, i, x, b)
<1> DEFINE s == ss[i]
           u == [s EXCEPT !.buckets = [s.buckets EXCEPT ![x] = b]]
<1>1. /\ ss \in Seq(Submap) /\ Len(ss) \in Nat /\ Len(ss) >= 1 /\ s \in Submap /\ s.capacity > 2
      /\ s.capacity \in Nat /\ s.buckets \in [0 .. s.capacity - 1 -> Bucket]
  BY DEF TypedMap, TypedSubmap, Submap
<1>2. b \in Bucket /\ b # EMPTY
  BY MapAssumption DEF Bucket
<1>3. [s.buckets EXCEPT ![x] = b] \in [0 .. s.capacity - 1 -> Bucket]
  BY <1>1, <1>2
<1>4. [s.buckets EXCEPT ![x] = b] \in Table
  BY <1>1, <1>3 DEF Table
<1>5. /\ u \in Submap /\ u.capacity = s.capacity
      /\ u.buckets = [s.buckets EXCEPT ![x] = b]
  BY <1>1, <1>4 DEF Submap
<1>6. TypedSubmap(u)
  BY <1>1, <1>3, <1>5 DEF TypedSubmap
<1>7. tt = [ss EXCEPT ![i] = u]
  BY DEF With
<1>8. u.buckets[x] = b /\ \A y \in 0 .. s.capacity - 1 : y # x => u.buckets[y] = s.buckets[y]
  BY <1>1, <1>5
<1> HIDE DEF u, tt
<1>9. /\ Len(tt) = Len(ss) /\ tt \in Seq(Submap) /\ tt[i] = u
      /\ \A j \in 1 .. Len(ss) : j # i => tt[j] = ss[j]
  <2> HIDE DEF s
  <2>1. ss \in Seq(Submap) /\ u \in Submap /\ i \in 1 .. Len(ss)
    BY <1>1, <1>5
  <2>2. tt \in Seq(Submap) /\ Len(tt) = Len(ss)
    BY <1>7, <2>1
  <2>3. tt[i] = u /\ \A j \in 1 .. Len(ss) : j # i => tt[j] = ss[j]
    BY <1>7, <2>1
  <2> QED BY <2>2, <2>3
<1>10. TypedMap(tt)
  BY <1>1, <1>6, <1>9 DEF TypedMap
<1>11. SameBut(ss, tt, i, x)
  BY <1>5, <1>8, <1>9 DEF SameBut
<1>12. Grows(ss, tt)
  BY <1>1, <1>2, <1>8, <1>9, <1>11 DEF Grows, SameBut
<1> QED BY <1>5, <1>8, <1>9, <1>10, <1>11, <1>12 DEF tt

(* What is known of a probing or publishing insert, and of its bucket. *)
LEMMA ProbeFacts ==
  ASSUME Inv, NEW t \in Inserters, thread[t].pc \in {"probe", "publish"}
  PROVE  /\ t \in Threads /\ thread[t].key \in Key /\ thread[t].sub \in 1 .. Len(submaps)
         /\ thread[t].n \in Nat /\ Path(Here(t), thread[t].key, thread[t].n)
         /\ Here(t).capacity \in Nat
         /\ Index(Here(t), thread[t].key, thread[t].n) \in 0 .. Here(t).capacity - 1
<1>1. t \in Threads
  BY DEF Threads
<1>2. ThreadOK(submaps, t, thread[t]) /\ thread[t] \in Call /\ TypedMap(submaps)
  BY <1>1, CallFacts
<1>3. /\ thread[t].key \in Key /\ thread[t].sub \in 1 .. Len(submaps) /\ thread[t].n \in Nat
      /\ Path(Here(t), thread[t].key, thread[t].n)
  BY <1>2 DEF ThreadOK, CallOK, TraceOK, Call, Here
<1>4. Here(t).capacity \in Nat /\ Here(t).capacity > 2
  BY <1>2, <1>3 DEF TypedMap, TypedSubmap, Submap, Here
<1> QED BY <1>1, <1>3, <1>4, IndexInTable

(* The bucket a publishing insert holds, in other words. *)
LEMMA ClaimIsBusy ==
  ASSUME Inv, NEW t \in Inserters, thread[t].pc = "publish"
  PROVE  submaps[thread[t].sub].buckets[Index(Here(t), thread[t].key, thread[t].n)] = BUSY
BY DEF Inv, ClaimsOK, Looked, Here

(* While the map grows by one bucket, an insert's claim stands if the bucket is
   another one. *)
LEMMA ClaimStands ==
  ASSUME Inv, NEW u \in Inserters, thread[u].pc = "publish", thread'[u] = thread[u],
         NEW i, NEW x, SameBut(submaps, submaps', i, x), Claim(u) # <<i, x>>
  PROVE  Looked(u)' = BUSY /\ Claim(u)' = Claim(u)
<1> DEFINE c == thread[u]
<1>1. c.sub \in 1 .. Len(submaps) /\ Index(Here(u), c.key, c.n) \in 0 .. Here(u).capacity - 1
  BY ProbeFacts
<1>2. Here(u)'.capacity = Here(u).capacity
  BY <1>1 DEF Here, SameBut
<1>3. Index(Here(u)', c.key, c.n) = Index(Here(u), c.key, c.n)
  BY <1>2, SameProbes
<1>4. Claim(u)' = Claim(u)
  BY <1>3 DEF Claim
<1>5. Here(u)'.buckets[Index(Here(u), c.key, c.n)] = Here(u).buckets[Index(Here(u), c.key, c.n)]
  BY <1>1 DEF Here, Claim, SameBut
<1>6. Looked(u)' = BUSY
  BY <1>3, <1>5, ClaimIsBusy DEF Looked, Here
<1> QED BY <1>4, <1>6

(* Probe keeps the invariant: only an insert of an unknown key meets an EMPTY
   bucket. *)
LEMMA ProbeInv == ASSUME Inv, NEW t \in Inserters, Probe(t) PROVE Inv'
<1> DEFINE c == thread[t]
           x == Index(Here(t), c.key, c.n)
<1>1. /\ c \in Call /\ thread \in [Threads -> Call] /\ ThreadOK(submaps, t, c)
      /\ TypedMap(submaps) /\ num_entries \in Nat /\ returned \subseteq Key /\ t \in Threads
  BY CallFacts DEF Threads
<1>2. c.pc = "probe" /\ num_entries' = num_entries
  BY DEF Probe
<1>3. /\ c.key \in Key /\ c.sub \in 1 .. Len(submaps) /\ c.n \in Nat
      /\ Path(submaps[c.sub], c.key, c.n) /\ x \in 0 .. submaps[c.sub].capacity - 1
  BY <1>2, ProbeFacts DEF Here
<1>4. Looked(t) = submaps[c.sub].buckets[x]
  BY DEF Looked, Here
<1>5. ASSUME NEW k \in c.known
      PROVE  k = c.key /\ Placed(submaps, k) /\ \E m \in Nat : At(submaps, k, c.sub, m) /\ c.n <= m
  BY <1>1, <1>2 DEF ThreadOK, AheadOK
<1>6. Looked(t) # c.key =>
        \A k \in c.known :
          /\ Looked(t) # EMPTY /\ ~Wraps(Here(t), c.key, c.n)
          /\ \E m \in Nat : At(submaps, k, c.sub, m) /\ c.n + 1 <= m
  <2> SUFFICES ASSUME Looked(t) # c.key, NEW k \in c.known
               PROVE  /\ Looked(t) # EMPTY /\ ~Wraps(Here(t), c.key, c.n)
                      /\ \E m \in Nat : At(submaps, k, c.sub, m) /\ c.n + 1 <= m
    OBVIOUS
  <2>1. PICK m \in Nat : At(submaps, k, c.sub, m) /\ c.n <= m
    BY <1>5
  <2>2. submaps[c.sub].buckets[Index(submaps[c.sub], k, c.n)] # k
    BY <1>4, <1>5 DEF Here
  <2>3. /\ c.n + 1 <= m
        /\ submaps[c.sub].buckets[Index(submaps[c.sub], k, c.n)] # EMPTY
        /\ ~Wraps(submaps[c.sub], k, c.n)
    BY <1>3, <2>1, <2>2, EntryIsFurther
  <2> QED BY <1>4, <1>5, <2>1, <2>3 DEF Here
<1>7. CASE ProbeClaims(t)
  <2> DEFINE e == [c EXCEPT !.pc = "publish"]
  <2>1. /\ e \in Call /\ e.pc = "publish" /\ e.key = c.key /\ e.sub = c.sub /\ e.n = c.n
        /\ e.known = c.known
    BY <1>1 DEF Call, InsertPC
  <2>2. thread' = [thread EXCEPT ![t] = e] /\ returned' = returned /\ Looked(t) = EMPTY
    BY <1>7 DEF ProbeClaims, Goto
  <2> HIDE DEF e
  <2>3. /\ thread' \in [Threads -> Call] /\ thread'[t] = e
        /\ \A u \in Threads \ {t} : thread'[u] = thread[u]
    BY <1>1, <2>1, <2>2
  <2>4. submaps' = With(submaps, c.sub, x, BUSY)
    BY <1>7 DEF ProbeClaims, SetBucket, With
  <2>5. submaps[c.sub].buckets[x] \notin Key
    BY <1>4, <2>2, MapAssumption
  <2>6. /\ TypedMap(submaps') /\ Grows(submaps, submaps') /\ Len(submaps') = Len(submaps)
        /\ submaps'[c.sub].buckets[x] = BUSY /\ submaps'[c.sub].capacity = submaps[c.sub].capacity
        /\ SameBut(submaps, submaps', c.sub, x)
    <3> HIDE DEF x
    <3> QED BY <1>1, <1>3, <2>4, <2>5, BucketSet
  <2>7. ThreadOK(submaps', t, e)
    <3>1. CallOK(submaps', t, e)
      BY <1>3, <2>1, <2>6 DEF CallOK
    <3>2. TraceOK(submaps', e)
      BY <1>1, <1>3, <2>1, <2>6, PathGrows DEF TraceOK
    <3>3. e.known = {}
      BY <1>3, <1>6, <2>1, <2>2, MapAssumption
    <3> QED BY <3>1, <3>2, <3>3 DEF ThreadOK, AheadOK
  <2>8. ASSUME NEW u \in Inserters, u # t, thread'[u].pc = "publish"
        PROVE  Looked(u)' = BUSY /\ Claim(u)' = Claim(u) /\ Claim(u) # <<c.sub, x>>
               /\ thread[u].pc = "publish"
    <3>1. thread'[u] = thread[u] /\ thread[u].pc = "publish"
      BY <2>3, <2>8 DEF Threads
    <3>2. Claim(u) # <<c.sub, x>>
      BY <1>4, <2>2, <3>1, ClaimIsBusy, MapAssumption DEF Claim
    <3> HIDE DEF x
    <3> QED BY <2>6, <3>1, <3>2, ClaimStands
  <2>9. Looked(t)' = BUSY /\ Claim(t)' = <<c.sub, x>>
    <3>1. Index(submaps'[c.sub], c.key, c.n) = x
      BY <1>3, <2>6, SameProbes DEF Here
    <3> QED BY <2>1, <2>3, <2>6, <3>1 DEF Looked, Claim, Here
  <2>10. ClaimsOK'
    <3>1. ASSUME NEW u \in Inserters, thread'[u].pc = "publish" PROVE Looked(u)' = BUSY
      BY <2>8, <2>9, <3>1
    <3>2. ASSUME NEW u \in Inserters, NEW v \in Inserters,
                 thread'[u].pc = "publish", thread'[v].pc = "publish", u # v
          PROVE  Claim(u)' # Claim(v)'
      <4>1. CASE u # t /\ v # t
        BY <2>8, <3>2, <4>1 DEF Inv, ClaimsOK
      <4>2. CASE u = t \/ v = t
        BY <2>8, <2>9, <3>2, <4>2
      <4> QED BY <4>1, <4>2
    <3> QED BY <3>1, <3>2 DEF ClaimsOK
  <2>11. num_entries' \in Nat /\ returned' \subseteq Key /\ returned' \ returned = {}
    BY <1>1, <1>2, <2>2
  <2> QED BY <1>1, <2>3, <2>6, <2>7, <2>10, <2>11, StepInv
<1>8. CASE ProbeFinds(t)
  <2>1. At(submaps, c.key, c.sub, c.n)
    BY <1>3, <1>4, <1>8 DEF ProbeFinds, At, Here
  <2>2. Placed(submaps, c.key)
    BY <1>3, <2>1 DEF Placed
  <2> QED BY <1>1, <1>2, <1>3, <1>8, <2>2, ReturnInv DEF ProbeFinds
<1>9. CASE ProbeOn(t)
  <2>1. UNCHANGED <<submaps, num_entries, returned>> /\ Looked(t) \notin {EMPTY, c.key}
    BY <1>2, <1>9 DEF ProbeOn
  <2>2. CASE Wraps(Here(t), c.key, c.n)
    <3> DEFINE e == [c EXCEPT !.pc = "expand"]
    <3>1. e \in Call /\ e.pc = "expand" /\ e.key = c.key /\ e.known = c.known
      BY <1>1 DEF Call, InsertPC
    <3>2. thread' = [thread EXCEPT ![t] = e]
      BY <1>9, <2>2 DEF ProbeOn, Goto
    <3> HIDE DEF e
    <3>3. ThreadOK(submaps, t, e)
      BY <1>3, <1>5, <3>1 DEF ThreadOK, CallOK, TraceOK, AheadOK
    <3> QED BY <1>1, <2>1, <3>1, <3>2, <3>3, QuietCall
  <2>3. CASE ~Wraps(Here(t), c.key, c.n)
    <3> DEFINE e == [c EXCEPT !.n = c.n + 1]
    <3>1. c.n + 1 \in Nat
      BY <1>3
    <3>2. /\ e \in Call /\ e.pc = "probe" /\ e.key = c.key /\ e.known = c.known
          /\ e.sub = c.sub /\ e.n = c.n + 1
      BY <1>1, <1>2, <3>1 DEF Call
    <3>3. thread' = [thread EXCEPT ![t] = e]
      BY <1>1, <1>9, <2>3 DEF ProbeOn, NextProbe
    <3> HIDE DEF e
    <3>4. CallOK(submaps, t, e)
      BY <1>3, <3>2 DEF CallOK
    <3>5. TraceOK(submaps, e)
      BY <1>3, <1>4, <2>1, <2>3, <3>2, PathGoesOn DEF TraceOK, Here
    <3>6. AheadOK(submaps, t, e)
      BY <1>5, <1>6, <2>1, <3>2 DEF AheadOK
    <3> QED BY <1>1, <2>1, <3>2, <3>3, <3>4, <3>5, <3>6, QuietCall DEF ThreadOK
  <2> QED BY <2>2, <2>3
<1> QED BY <1>7, <1>8, <1>9 DEF Probe

(* Publish keeps the invariant: the key enters the map where its probes lead. *)
LEMMA PublishInv == ASSUME Inv, NEW t \in Inserters, Publish(t) PROVE Inv'
<1> DEFINE c == thread[t]
           x == Index(Here(t), c.key, c.n)
           e == [c EXCEPT !.pc = "count"]
<1>1. /\ c \in Call /\ thread \in [Threads -> Call] /\ ThreadOK(submaps, t, c)
      /\ TypedMap(submaps) /\ num_entries \in Nat /\ returned \subseteq Key /\ t \in Threads
  BY CallFacts DEF Threads
<1>2. c.pc = "publish" /\ num_entries' = num_entries /\ returned' = returned
  BY DEF Publish
<1>3. /\ c.key \in Key /\ c.sub \in 1 .. Len(submaps) /\ c.n \in Nat
      /\ Path(submaps[c.sub], c.key, c.n) /\ x \in 0 .. submaps[c.sub].capacity - 1
      /\ submaps[c.sub].buckets[x] = BUSY
  BY <1>2, ProbeFacts, ClaimIsBusy DEF Here
<1>4. c.known = {}
  BY <1>1, <1>2 DEF ThreadOK, AheadOK
<1>5. /\ e \in Call /\ e.pc = "count" /\ e.key = c.key /\ e.sub = c.sub /\ e.known = {}
  BY <1>1, <1>4 DEF Call, InsertPC
<1>6. thread' = [thread EXCEPT ![t] = e]
  BY DEF Publish, Goto
<1>7. submaps' = With(submaps, c.sub, x, c.key)
  BY DEF Publish, SetBucket, With
<1> HIDE DEF e
<1>8. /\ thread' \in [Threads -> Call] /\ thread'[t] = e
      /\ \A u \in Threads \ {t} : thread'[u] = thread[u]
  BY <1>1, <1>5, <1>6
<1>9. /\ TypedMap(submaps') /\ Grows(submaps, submaps') /\ Len(submaps') = Len(submaps)
      /\ submaps'[c.sub].buckets[x] = c.key /\ submaps'[c.sub].capacity = submaps[c.sub].capacity
      /\ SameBut(submaps, submaps', c.sub, x)
  <2> HIDE DEF x
  <2> QED BY <1>1, <1>3, <1>7, BucketSet, MapAssumption
<1>10. Placed(submaps', c.key)
  <2>1. Path(submaps'[c.sub], c.key, c.n)
    BY <1>1, <1>3, <1>9, PathGrows
  <2>2. Index(submaps'[c.sub], c.key, c.n) = x
    BY <1>9, SameProbes DEF Here
  <2>3. At(submaps', c.key, c.sub, c.n)
    BY <1>9, <2>1, <2>2 DEF At
  <2> QED BY <1>3, <1>9, <2>3 DEF Placed
<1>11. ThreadOK(submaps', t, e)
  BY <1>3, <1>5, <1>9, <1>10 DEF ThreadOK, CallOK, TraceOK, AheadOK
<1>12. ASSUME NEW u \in Inserters, thread'[u].pc = "publish"
       PROVE  Looked(u)' = BUSY /\ Claim(u)' = Claim(u) /\ thread[u].pc = "publish"
  <2>1. u # t /\ thread'[u] = thread[u] /\ thread[u].pc = "publish"
    BY <1>5, <1>8, <1>12 DEF Threads
  <2>2. Claim(u) # <<c.sub, x>>
    BY <1>2, <2>1 DEF Inv, ClaimsOK, Claim
  <2> HIDE DEF x
  <2> QED BY <1>9, <2>1, <2>2, ClaimStands
<1>13. ClaimsOK'
  BY <1>12 DEF Inv, ClaimsOK
<1>14. num_entries' \in Nat /\ returned' \subseteq Key /\ returned' \ returned = {}
  BY <1>1, <1>2
<1> QED BY <1>1, <1>8, <1>9, <1>11, <1>13, <1>14, StepInv

-----------------------------------------------------------------------------
(* Counting and expanding. *)

(* A step that leaves every bucket alone. *)
LEMMA NoBucketStep ==
  ASSUME Inv, NEW t \in Threads, NEW e \in Call,
         TypedMap(submaps'), Grows(submaps, submaps'), SameBut(submaps, submaps', 0, 0),
         UNCHANGED <<num_entries, returned>>,
         thread' = [thread EXCEPT ![t] = e], e.pc # "publish", ThreadOK(submaps, t, e)
  PROVE  Inv'
<1>1. /\ thread' \in [Threads -> Call] /\ thread'[t] = e
      /\ \A u \in Threads \ {t} : thread'[u] = thread[u]
  BY CallFacts
<1>2. /\ num_entries' \in Nat /\ returned' \subseteq Key /\ returned' \ returned = {}
      /\ TypedMap(submaps)
  BY CallFacts
<1>3. ThreadOK(submaps', t, thread'[t])
  BY <1>1, <1>2, ThreadGrows
<1>4. ASSUME NEW u \in Inserters, thread'[u].pc = "publish"
      PROVE  Looked(u)' = BUSY /\ Claim(u)' = Claim(u) /\ thread[u].pc = "publish"
  <2>1. thread'[u] = thread[u] /\ thread[u].pc = "publish"
    BY <1>1, <1>4 DEF Threads
  <2>2. Claim(u) # <<0, 0>>
    BY <2>1, ProbeFacts DEF Claim
  <2> QED BY <2>1, <2>2, ClaimStands
<1>5. ClaimsOK'
  BY <1>4 DEF Inv, ClaimsOK
<1> QED BY <1>1, <1>2, <1>3, <1>5, StepInv

(* A published entry is counted in its submap. *)
LEMMA IncrementValidInv ==
  ASSUME Inv, NEW t \in Inserters, increment_num_valid_buckets(t) PROVE Inv'
<1> DEFINE c == thread[t]
           e == [c EXCEPT !.pc = "entries"]
           s == submaps[c.sub]
           u == [s EXCEPT !.num_valid = s.num_valid + 1]
<1>1. /\ c \in Call /\ thread \in [Threads -> Call] /\ ThreadOK(submaps, t, c)
      /\ TypedMap(submaps) /\ t \in Threads /\ c.pc = "count" /\ Len(submaps) \in Nat
      /\ submaps \in Seq(Submap)
  BY CallFacts DEF Threads, increment_num_valid_buckets, TypedMap
<1>2. c.sub \in 1 .. Len(submaps) /\ c.key \in Key
  BY <1>1 DEF ThreadOK, CallOK
<1>3. TypedSubmap(s) /\ s.num_valid + 1 \in Nat
  BY <1>1, <1>2 DEF TypedMap, TypedSubmap, Submap
<1>4. u \in Submap /\ u.capacity = s.capacity /\ u.buckets = s.buckets
  BY <1>3 DEF TypedSubmap, Submap
<1>5. submaps' = [submaps EXCEPT ![c.sub] = u]
  BY DEF increment_num_valid_buckets
<1>6. /\ e \in Call /\ e.pc = "entries" /\ e.key = c.key /\ e.known = c.known /\ e.sub = c.sub
  BY <1>1 DEF Call, InsertPC
<1>7. thread' = [thread EXCEPT ![t] = e] /\ UNCHANGED <<num_entries, returned>>
  BY DEF increment_num_valid_buckets, Goto
<1>8. TypedSubmap(u)
  BY <1>3, <1>4 DEF TypedSubmap
<1> HIDE DEF u
<1>9. /\ Len(submaps') = Len(submaps) /\ submaps' \in Seq(Submap) /\ submaps'[c.sub] = u
      /\ \A j \in 1 .. Len(submaps) : j # c.sub => submaps'[j] = submaps[j]
  <2> HIDE DEF c, s
  <2>1. submaps' \in Seq(Submap) /\ Len(submaps') = Len(submaps)
    BY <1>1, <1>2, <1>4, <1>5
  <2>2. submaps'[c.sub] = u /\ \A j \in 1 .. Len(submaps) : j # c.sub => submaps'[j] = submaps[j]
    BY <1>1, <1>2, <1>4, <1>5
  <2> QED BY <2>1, <2>2
<1>10. TypedMap(submaps')
  BY <1>1, <1>8, <1>9 DEF TypedMap
<1>11. Grows(submaps, submaps') /\ SameBut(submaps, submaps', 0, 0)
  BY <1>1, <1>4, <1>9 DEF Grows, SameBut
<1> HIDE DEF e
<1>12. ThreadOK(submaps, t, e)
  BY <1>1, <1>2, <1>6 DEF ThreadOK, CallOK, TraceOK, AheadOK
<1> QED BY <1>1, <1>6, <1>7, <1>10, <1>11, <1>12, NoBucketStep

(* ... and in the map, and its insert returns. *)
LEMMA IncrementEntriesInv ==
  ASSUME Inv, NEW t \in Inserters, incrementnum_entries(t) PROVE Inv'
<1>1. ThreadOK(submaps, t, thread[t]) /\ num_entries \in Nat /\ t \in Threads
  BY CallFacts DEF Threads
<1>2. thread[t].pc = "entries" /\ Return(t) /\ UNCHANGED submaps /\ num_entries' \in Nat
  BY <1>1 DEF incrementnum_entries
<1>3. thread[t].key \in Key /\ Placed(submaps, thread[t].key)
  BY <1>1, <1>2 DEF ThreadOK, CallOK, TraceOK
<1> QED BY <1>1, <1>2, <1>3, ReturnInv

(* A submap is appended. *)
LEMMA AppendGrows ==
  ASSUME NEW ss, TypedMap(ss), NEW cap \in Nat, cap > 2
  PROVE  LET tt == Append(ss, NewSubmap(cap)) IN
         TypedMap(tt) /\ Grows(ss, tt) /\ SameBut(ss, tt, 0, 0)
<1> DEFINE s == NewSubmap(cap)
           tt == Append(ss, s)
<1>1. /\ s.capacity = cap /\ s.num_valid = 0 /\ s.buckets \in [0 .. cap - 1 -> Bucket]
      /\ s = [capacity |-> s.capacity, buckets |-> s.buckets, num_valid |-> s.num_valid]
  BY DEF NewSubmap, Bucket
<1>2. s.buckets \in Table
  BY <1>1 DEF Table
<1> HIDE DEF s
<1>3. s \in Submap /\ TypedSubmap(s)
  BY <1>1, <1>2 DEF TypedSubmap, Submap
<1>4. ss \in Seq(Submap) /\ Len(ss) \in Nat /\ Len(ss) >= 1
  BY DEF TypedMap
<1>5. /\ tt \in Seq(Submap) /\ Len(tt) = Len(ss) + 1 /\ tt[Len(ss) + 1] = s
      /\ \A j \in 1 .. Len(ss) : tt[j] = ss[j]
  BY <1>3, <1>4
<1> HIDE DEF tt
<1>6. TypedMap(tt)
  BY <1>3, <1>4, <1>5 DEF TypedMap
<1>7. Grows(ss, tt) /\ SameBut(ss, tt, 0, 0)
  BY <1>4, <1>5 DEF Grows, SameBut
<1> QED BY <1>6, <1>7 DEF tt, s

(* The capacity of the submap that expand appends is a prime, and no smaller
   than twice the last one's. *)
LEMMA CapacityGrows ==
  ASSUME NEW c \in Nat, c > 2
  PROVE  /\ next_prime(2 * c) \in Nat /\ next_prime(2 * c) > 2
         /\ next_prime(2 * c) >= 2 * c /\ is_prime(next_prime(2 * c))
<1> DEFINE n == 2 * c
<1>1. n \in Nat /\ n > 2
  OBVIOUS
<1> HIDE DEF n
<1>2. next_prime(n) \in Nat /\ next_prime(n) >= n /\ is_prime(next_prime(n))
  BY <1>1, NextPrimeIsNext
<1>3. next_prime(n) > 2
  BY <1>1, <1>2
<1> QED BY <1>2, <1>3 DEF n

(* expand keeps the invariant. *)
LEMMA ExpandInv == ASSUME Inv, NEW t \in Inserters, expand(t) PROVE Inv'
<1> DEFINE c == thread[t]
           e == [c EXCEPT !.pc = IF Len(submaps) = MaxSubmaps THEN "thrown" ELSE "last"]
           s == submaps[Len(submaps)]
<1>1. /\ c \in Call /\ thread \in [Threads -> Call] /\ ThreadOK(submaps, t, c)
      /\ TypedMap(submaps) /\ t \in Threads /\ c.pc = "expand" /\ Len(submaps) \in Nat
      /\ Len(submaps) >= 1
  BY CallFacts DEF Threads, expand
<1>2. /\ e \in Call /\ e.pc \in {"thrown", "last"} /\ e.key = c.key /\ e.known = c.known
  BY <1>1 DEF Call, InsertPC
<1>3. thread' = [thread EXCEPT ![t] = e] /\ UNCHANGED <<num_entries, returned>>
  BY DEF expand, ExpandUnderFlag, Goto
<1>4. submaps' = submaps \/ submaps' = Append(submaps, NewSubmap(next_prime(2 * s.capacity)))
  BY DEF expand, ExpandUnderFlag
<1>5. s.capacity \in Nat /\ s.capacity > 2
  BY <1>1 DEF TypedMap, TypedSubmap, Submap
<1>6. next_prime(2 * s.capacity) \in Nat /\ next_prime(2 * s.capacity) > 2
  BY <1>5, CapacityGrows
<1> HIDE DEF e, s
<1>7. TypedMap(submaps') /\ Grows(submaps, submaps') /\ SameBut(submaps, submaps', 0, 0)
  <2>1. CASE submaps' = submaps
    BY <1>1, <2>1, SameGrows DEF TypedMap, SameBut
  <2>2. CASE submaps' = Append(submaps, NewSubmap(next_prime(2 * s.capacity)))
    BY <1>1, <1>6, <2>2, AppendGrows
  <2> QED BY <1>4, <2>1, <2>2
<1>8. ThreadOK(submaps, t, e)
  BY <1>1, <1>2 DEF ThreadOK, CallOK, TraceOK, AheadOK
<1> QED BY <1>1, <1>2, <1>3, <1>7, <1>8, NoBucketStep

-----------------------------------------------------------------------------
(* Iteration and statistics. *)

(* An iteration passes no bucket that holds a known key. *)
LEMMA SeekInv == ASSUME Inv, NEW t \in Readers, Seek(t) PROVE Inv'
<1> DEFINE c == thread[t]
           s == submaps[c.sub]
           Left(k, sub, n) ==
             \E i \in 1 .. Len(submaps) : \E b \in 0 .. submaps[i].capacity - 1 :
               submaps[i].buckets[b] = k /\ (i > sub \/ (i = sub /\ b >= n))
<1>1. /\ c \in Call /\ thread \in [Threads -> Call] /\ ThreadOK(submaps, t, c)
      /\ TypedMap(submaps) /\ t \in Threads /\ c.pc = "seek" /\ Len(submaps) \in Nat
      /\ UNCHANGED <<submaps, num_entries, returned>>
  BY CallFacts DEF Threads, Seek
<1>2. /\ c.sub \in 1 .. Len(submaps) /\ c.n \in 0 .. s.capacity /\ t \notin Inserters
      /\ s.capacity \in Nat /\ \A i \in 1 .. Len(submaps) : submaps[i].capacity \in Nat
      /\ Here(t) = s
  BY <1>1 DEF ThreadOK, CallOK, TypedMap, TypedSubmap, Submap, Here
<1>3. ASSUME NEW k \in c.known
      PROVE  Placed(submaps, k) /\ k \in Key /\ (k \in c.seen \/ Left(k, c.sub, c.n))
  BY <1>1 DEF ThreadOK, AheadOK, Call
<1>4. CASE SeekBucket(t)
  <2> DEFINE e == [c EXCEPT !.n = c.n + 1, !.seen = c.seen \cup ({s.buckets[c.n]} \cap Key)]
  <2>1. c.n < s.capacity /\ c.n + 1 \in Nat /\ c.n + 1 \in 0 .. s.capacity
    BY <1>2, <1>4 DEF SeekBucket
  <2>2. /\ e \in Call /\ e.pc = "seek" /\ e.sub = c.sub /\ e.n = c.n + 1 /\ e.known = c.known
        /\ e.seen = c.seen \cup ({s.buckets[c.n]} \cap Key)
    BY <1>1, <2>1 DEF Call
  <2>3. thread' = [thread EXCEPT ![t] = e]
    BY <1>1, <1>2, <1>4 DEF SeekBucket
  <2> HIDE DEF e
  <2>4. ASSUME NEW k \in e.known PROVE k \in e.seen \/ Left(k, e.sub, e.n)
    <3>1. CASE k \in c.seen
      BY <2>2, <3>1
    <3>2. CASE Left(k, c.sub, c.n)
      <4>1. PICK i \in 1 .. Len(submaps) : \E b \in 0 .. submaps[i].capacity - 1 :
              submaps[i].buckets[b] = k /\ (i > c.sub \/ (i = c.sub /\ b >= c.n))
        BY <3>2
      <4>2. PICK b \in 0 .. submaps[i].capacity - 1 :
              submaps[i].buckets[b] = k /\ (i > c.sub \/ (i = c.sub /\ b >= c.n))
        BY <4>1
      <4>3. CASE i = c.sub /\ b = c.n
        BY <1>3, <2>2, <4>2, <4>3
      <4>4. CASE ~(i = c.sub /\ b = c.n)
        BY <1>2, <2>2, <4>2, <4>4, SMTT(30)
      <4> QED BY <4>3, <4>4
    <3> QED BY <1>3, <2>2, <3>1, <3>2
  <2>5. CallOK(submaps, t, e)
    BY <1>2, <2>1, <2>2 DEF CallOK
  <2>6. TraceOK(submaps, e) /\ AheadOK(submaps, t, e)
    BY <1>3, <2>2, <2>4 DEF TraceOK, AheadOK
  <2> QED BY <1>1, <2>2, <2>3, <2>5, <2>6, QuietCall DEF ThreadOK
<1>5. CASE SeekSubmap(t)
  <2>1. c.n = s.capacity /\ \A k \in c.known : k \in c.seen \/ Left(k, c.sub + 1, 0)
    <3>1. c.n = s.capacity
      BY <1>2, <1>5 DEF SeekSubmap
    <3>2. ASSUME NEW i \in 1 .. Len(submaps), NEW b \in 0 .. submaps[i].capacity - 1,
                 i > c.sub \/ (i = c.sub /\ b >= c.n)
          PROVE  i > c.sub + 1 \/ (i = c.sub + 1 /\ b >= 0)
      BY <1>2, <3>1, <3>2
    <3> QED BY <1>3, <3>1, <3>2
  <2>2. CASE c.sub < Len(submaps)
    <3> DEFINE e == [c EXCEPT !.sub = c.sub + 1, !.n = 0]
    <3>1. c.sub + 1 \in 1 .. Len(submaps) /\ c.sub + 1 \in Nat
      BY <1>1, <1>2, <2>2
    <3>2. /\ e \in Call /\ e.pc = "seek" /\ e.sub = c.sub + 1 /\ e.n = 0 /\ e.known = c.known
          /\ e.seen = c.seen
      BY <1>1, <3>1 DEF Call
    <3>3. thread' = [thread EXCEPT ![t] = e]
      BY <1>1, <1>5, <2>2 DEF SeekSubmap
    <3> HIDE DEF e
    <3>4. CallOK(submaps, t, e)
      BY <1>2, <3>1, <3>2 DEF CallOK
    <3>5. TraceOK(submaps, e) /\ AheadOK(submaps, t, e)
      BY <1>3, <2>1, <3>2 DEF TraceOK, AheadOK
    <3> QED BY <1>1, <3>2, <3>3, <3>4, <3>5, QuietCall DEF ThreadOK
  <2>3. CASE ~(c.sub < Len(submaps))
    <3> DEFINE e == [c EXCEPT !.pc = "ended"]
    <3>1. /\ e \in Call /\ e.pc = "ended" /\ e.known = c.known /\ e.seen = c.seen
      BY <1>1 DEF Call, ReadPC
    <3>2. thread' = [thread EXCEPT ![t] = e]
      BY <1>1, <1>5, <2>3 DEF SeekSubmap, Goto
    <3>3. \A k : ~Left(k, c.sub + 1, 0)
      BY <1>1, <1>2, <2>3
    <3> HIDE DEF e
    <3>4. CallOK(submaps, t, e)
      BY <1>2, <3>1 DEF CallOK
    <3>5. TraceOK(submaps, e) /\ AheadOK(submaps, t, e)
      BY <1>3, <2>1, <3>1, <3>3 DEF TraceOK, AheadOK
    <3> QED BY <1>1, <3>1, <3>2, <3>4, <3>5, QuietCall DEF ThreadOK
  <2> QED BY <2>2, <2>3
<1> QED BY <1>4, <1>5 DEF Seek

(* get_stats knows of no keys. *)
LEMMA BeginStatsInv == ASSUME Inv, NEW t \in Readers, BeginStats(t) PROVE Inv'
<1> DEFINE fl == [i \in 1 .. Len(submaps) |-> Settled(i)]
           e == [Idle EXCEPT !.pc = "stats", !.before = num_entries, !.floor = fl]
<1>1. /\ num_entries \in Nat /\ t \in Threads /\ t \notin Inserters /\ Len(submaps) \in Nat
      /\ TypedMap(submaps)
  BY CallFacts, MapAssumption DEF Threads
<1>2. fl \in Floors
  <2>1. ASSUME NEW i \in 1 .. Len(submaps) PROVE Settled(i) \in Int
    <3>1. submaps[i].num_valid \in Nat
      BY <1>1 DEF TypedMap, TypedSubmap, Submap
    <3>2. Cardinality({u \in Inserters : thread[u].pc = "entries" /\ thread[u].sub = i}) \in Nat
      BY MapAssumption, FS_Subset, FS_CardinalityType
    <3> QED BY <3>1, <3>2 DEF Settled
  <2> QED BY <1>1, <2>1 DEF Floors
<1> HIDE DEF fl
<1>3. e \in Call /\ e.pc = "stats" /\ e.known = {} /\ e.last = 0
  BY <1>1, <1>2, IdleFields DEF Call, ReadPC
<1>4. thread' = [thread EXCEPT ![t] = e] /\ UNCHANGED <<submaps, num_entries, returned>>
  BY DEF BeginStats, fl
<1> HIDE DEF e
<1>5. ThreadOK(submaps, t, e)
  BY <1>1, <1>3 DEF ThreadOK, CallOK, TraceOK, AheadOK
<1> QED BY <1>1, <1>3, <1>4, <1>5, QuietCall

(* What a step of get_stats makes of its call: it loads num_entries and the
   number of submaps, or the counter of the next submap. *)
CallCounts(c, e, l) == [c EXCEPT !.entries = e, !.last = l, !.sub = 1]
CallSums(c, v) ==
  [c EXCEPT !.valid = @ + v, !.sub = @ + 1,
            !.pc = IF c.sub = c.last THEN "stats_read" ELSE "stats"]

LEMMA StatsSteps ==
  ASSUME NEW t, Stats(t)
  PROVE  LET c == thread[t] IN
         \/ /\ c.last = 0
            /\ \E e \in c.before .. num_entries, l \in Len(c.floor) .. Len(submaps) :
                 thread' = [thread EXCEPT ![t] = CallCounts(c, e, l)]
         \/ /\ c.sub \in 1 .. c.last
            /\ \E v \in Floor(c, c.sub) .. submaps[c.sub].num_valid :
                 thread' = [thread EXCEPT ![t] = CallSums(c, v)]
<1> DEFINE c == thread[t]
<1>1. CASE StatsSubmaps(t)
  <2>1. PICK e \in c.before .. num_entries, l \in Len(c.floor) .. Len(submaps) :
          thread' = [thread EXCEPT ![t].entries = e, ![t].last = l, ![t].sub = 1]
    BY <1>1 DEF StatsSubmaps
  <2>2. thread' = [thread EXCEPT ![t] = CallCounts(c, e, l)]
    BY <2>1 DEF CallCounts
  <2> QED BY <1>1, <2>2 DEF StatsSubmaps
<1>2. CASE StatsNextSubmap(t)
  <2>1. PICK v \in Floor(c, c.sub) .. submaps[c.sub].num_valid :
          thread' = [thread EXCEPT ![t].valid = @ + v, ![t].sub = @ + 1,
                                   ![t].pc = IF c.sub = c.last THEN "stats_read" ELSE "stats"]
    BY <1>2 DEF StatsNextSubmap, Here
  <2>2. thread' = [thread EXCEPT ![t] = CallSums(c, v)]
    BY <2>1 DEF CallSums
  <2> QED BY <1>2, <2>2 DEF StatsNextSubmap
<1> QED BY <1>1, <1>2 DEF Stats

(* Its steps alter nothing but its own call. *)
LEMMA StatsAlters == ASSUME NEW t, Stats(t) PROVE \E e : thread' = [thread EXCEPT ![t] = e]
BY StatsSteps

(* get_stats stays among the submaps it has counted. *)
LEMMA StatsInv == ASSUME Inv, NEW t \in Readers, Stats(t) PROVE Inv'
<1> DEFINE c == thread[t]
<1>1. /\ c \in Call /\ thread \in [Threads -> Call] /\ ThreadOK(submaps, t, c)
      /\ TypedMap(submaps) /\ t \in Threads /\ c.pc = "stats" /\ Len(submaps) \in Nat
      /\ num_entries \in Nat
      /\ UNCHANGED <<submaps, num_entries, returned>>
  BY CallFacts DEF Threads, Stats
<1>2. /\ c.last \in 0 .. Len(submaps) /\ t \notin Inserters
      /\ c.before \in Nat /\ c.floor \in Floors /\ Len(c.floor) \in Nat
  BY <1>1 DEF ThreadOK, CallOK, Call, Floors
<1>3. ASSUME NEW e \in Call, e.pc \in {"stats", "stats_read"}, e.known = c.known, e.key = c.key,
             e.last \in 0 .. Len(submaps)
      PROVE  e.pc # "publish" /\ ThreadOK(submaps, t, e)
  BY <1>1, <1>2, <1>3 DEF ThreadOK, CallOK, TraceOK, AheadOK
<1>4. ASSUME NEW e \in c.before .. num_entries, NEW l \in Len(c.floor) .. Len(submaps),
             thread' = [thread EXCEPT ![t] = CallCounts(c, e, l)]
      PROVE  Inv'
  <2>1. PICK d : d = CallCounts(c, e, l)
    OBVIOUS
  <2>2. e \in Nat /\ l \in Nat /\ l \in 0 .. Len(submaps)
    BY <1>1, <1>2
  <2>3. d \in Call /\ d.pc = "stats" /\ d.known = c.known /\ d.key = c.key /\ d.last = l
    BY <1>1, <2>1, <2>2 DEF CallCounts, Call
  <2>4. ThreadOK(submaps, t, d) /\ d.pc # "publish"
    BY <1>3, <2>2, <2>3
  <2> QED BY <1>1, <1>4, <2>1, <2>3, <2>4, QuietCall
<1>5. ASSUME c.sub \in 1 .. c.last, NEW v \in Floor(c, c.sub) .. submaps[c.sub].num_valid,
             thread' = [thread EXCEPT ![t] = CallSums(c, v)]
      PROVE  Inv'
  <2>1. PICK d : d = CallSums(c, v)
    OBVIOUS
  <2>2. c.valid + v \in Int /\ c.sub + 1 \in Nat
    BY <1>1 DEF Call
  <2>3. /\ d \in Call /\ d.pc \in {"stats", "stats_read"} /\ d.known = c.known /\ d.key = c.key
        /\ d.last = c.last
    BY <1>1, <2>1, <2>2 DEF CallSums, Call, ReadPC
  <2>4. ThreadOK(submaps, t, d) /\ d.pc # "publish"
    BY <1>2, <1>3, <2>3
  <2> QED BY <1>1, <1>5, <2>1, <2>3, <2>4, QuietCall
<1> QED BY <1>4, <1>5, StatsSteps

(* A read call returns. *)
LEMMA ReturnEndInv == ASSUME Inv, NEW t \in Readers, ReturnEnd(t) PROVE Inv'
<1>1. /\ t \in Threads /\ t \notin Inserters /\ num_entries \in Nat
      /\ Return(t) /\ UNCHANGED <<submaps, num_entries>>
  BY CallFacts, MapAssumption DEF Threads, ReturnEnd
<1> QED BY <1>1, ReturnInv

-----------------------------------------------------------------------------

(* Every step keeps the invariant, and so does none. *)
LEMMA InvNext == ASSUME Inv, [Next]_vars PROVE Inv'
<1>1. CASE UNCHANGED vars
  BY <1>1 DEF vars, Inv, ClaimsOK, Looked, Claim, Here
<1>2. ASSUME NEW t \in Inserters, InsertStep(t) \/ \E k \in Key : BeginInsert(t, k) PROVE Inv'
  <2>1. t \in Threads
    BY DEF Threads
  <2> QED BY <1>2, <2>1, BeginInsertInv, ReadLastInv, LookInv, CheckInv, ProbeInv, PublishInv,
             IncrementValidInv, IncrementEntriesInv, ExpandInv DEF InsertStep
<1>3. ASSUME NEW t \in Readers,
             ReadStep(t) \/ BeginIteration(t) \/ BeginStats(t) \/ \E k \in Key : BeginFind(t, k)
      PROVE  Inv'
  <2>1. t \in Threads
    BY DEF Threads
  <2> QED BY <1>3, <2>1, LookInv, SeekInv, StatsInv, ReturnEndInv, BeginIterationInv, BeginStatsInv,
             BeginFindInv DEF ReadStep
<1> QED BY <1>1, <1>2, <1>3 DEF Next

(* The inductive invariant holds throughout. *)
LEMMA InvHolds == Spec => []Inv
<1>1. Init => Inv
  BY InvInit
<1>2. Inv /\ [Next]_vars => Inv'
  BY InvNext
<1> QED BY <1>1, <1>2, PTL DEF Spec

(* A find that begins after an insert of its key has returned finds the key,
   with any number of threads that insert and expand meanwhile. *)
THEOREM FindsWhatWasInserted == Spec => []FoundOnceInserted
<1>1. Inv => FoundOnceInserted
  BY DEF Inv, FoundOnceInserted, ThreadOK, AheadOK, Threads, Call
<1> QED BY <1>1, InvHolds, PTL

(* An insert that begins after another of its key has returned claims no
   bucket for it. *)
THEOREM InsertsOnlyOnce == Spec => []NoSecondInsert
<1>1. Inv => NoSecondInsert
  BY DEF Inv, NoSecondInsert, ThreadOK, AheadOK, Threads, Call
<1> QED BY <1>1, InvHolds, PTL

(* An iteration that has come to its end has given every key whose insert had
   returned before it began. *)
THEOREM IteratesOverAll == Spec => []IterationComplete
<1>1. Inv => IterationComplete
  BY DEF Inv, IterationComplete, ThreadOK, AheadOK, Threads
<1> QED BY <1>1, InvHolds, PTL

-----------------------------------------------------------------------------
(* What a step does to what the counters count. *)

(* The positions of an insert between the overload test and its return. *)
WorkPC == {"probe", "publish", "count", "entries"}

OthersStay(t) == \A u \in Inserters \ {t} : thread'[u] = thread[u]

Moves(t, from, to) ==
  /\ OthersStay(t)
  /\ thread[t].pc = from /\ thread'[t].pc = to
  /\ thread[t].sub \in 1 .. Len(submaps)

SetsBucket(t, old, new) ==
  /\ thread'[t].sub = thread[t].sub
  /\ \E x \in 0 .. submaps[thread[t].sub].capacity - 1 :
       /\ submaps[thread[t].sub].buckets[x] = old
       /\ submaps' = With(submaps, thread[t].sub, x, new)
  /\ UNCHANGED num_entries

(* An inserter leaves its place at most to give up. *)
Quiet ==
  /\ UNCHANGED <<submaps, num_entries>>
  /\ \A t \in Inserters :
       \/ thread[t].pc \notin WorkPC \ {"probe"} /\ thread'[t].pc \notin WorkPC
       \/ thread'[t].pc = thread[t].pc /\ thread'[t].sub = thread[t].sub

Passes(t) ==
  /\ OthersStay(t)
  /\ thread[t].pc = "check" /\ thread'[t].pc = "probe"
  /\ thread'[t].sub \in 1 .. Len(submaps)
  /\ ~is_overloaded(submaps[thread'[t].sub])
  /\ UNCHANGED <<submaps, num_entries>>

Claims(t) == Moves(t, "probe", "publish") /\ SetsBucket(t, EMPTY, BUSY)

Publishes(t) ==
  /\ Moves(t, "publish", "count")
  /\ \E k \in Key : SetsBucket(t, BUSY, k)

CountsSubmap(t) ==
  /\ Moves(t, "count", "entries")
  /\ thread'[t].sub = thread[t].sub
  /\ submaps' = [submaps EXCEPT ![thread[t].sub].num_valid = @ + 1]
  /\ UNCHANGED num_entries

CountsEntry(t) ==
  /\ OthersStay(t)
  /\ thread[t].pc = "entries" /\ thread'[t].pc = "idle"
  /\ num_entries' = num_entries + 1
  /\ UNCHANGED submaps

Expands(t) ==
  /\ OthersStay(t)
  /\ thread[t].pc = "expand" /\ thread'[t].pc = "last"
  /\ Len(submaps) # MaxSubmaps
  /\ \E c \in Nat : c > 2 /\ is_prime(c) /\ submaps' = Append(submaps, NewSubmap(c))
  /\ UNCHANGED num_entries

(* Every step is one of these. *)
LEMMA Effects ==
  ASSUME Inv, [Next]_vars
  PROVE  \/ Quiet
         \/ \E t \in Inserters :
              \/ Passes(t) \/ Claims(t) \/ Publishes(t)
              \/ CountsSubmap(t) \/ CountsEntry(t) \/ Expands(t)
<1>1. thread \in [Threads -> Call] /\ Inserters \subseteq Threads /\ TypedMap(submaps)
  BY DEF Inv, Threads
<1>2. CASE UNCHANGED vars
  BY <1>2 DEF vars, Quiet
<1>3. ASSUME NEW t \in Readers,
             ReadStep(t) \/ BeginIteration(t) \/ BeginStats(t) \/ \E k \in Key : BeginFind(t, k)
      PROVE  Quiet
  <2>1. t \notin Inserters /\ t \in Threads
    BY MapAssumption DEF Threads
  <2>2. \A u \in Inserters : thread'[u] = thread[u]
    <3>1. \E e : thread' = [thread EXCEPT ![t] = e]
      BY <1>3, StatsAlters DEF ReadStep, Look, LookFound, LookOn, LookBelow, LookIn, Seek,
                  SeekBucket, SeekSubmap, ReturnEnd, Return, Goto, NextProbe, BeginIteration,
                  BeginStats, BeginFind
    <3> QED BY <1>1, <2>1, <3>1
  <2>3. UNCHANGED <<submaps, num_entries>>
    BY <1>3 DEF ReadStep, Look, Seek, Stats, ReturnEnd, BeginIteration, BeginStats, BeginFind
  <2> QED BY <2>2, <2>3 DEF Quiet
<1>4. ASSUME NEW t \in Inserters, OthersStay(t), UNCHANGED <<submaps, num_entries>>,
             \/ thread[t].pc \notin WorkPC \ {"probe"} /\ thread'[t].pc \notin WorkPC
             \/ thread'[t].pc = thread[t].pc /\ thread'[t].sub = thread[t].sub
      PROVE  Quiet
  BY <1>4 DEF Quiet, OthersStay
<1>5. ASSUME NEW t \in Inserters, NEW k \in Key, BeginInsert(t, k) PROVE Quiet
  <2>1. OthersStay(t) /\ thread[t].pc = "idle" /\ UNCHANGED <<submaps, num_entries>>
    BY <1>1, <1>5 DEF BeginInsert, OthersStay
  <2>2. thread'[t].pc = "last"
    BY <1>1, <1>5 DEF BeginInsert, Idle
  <2> QED BY <1>4, <2>1, <2>2 DEF WorkPC
<1>6. ASSUME NEW t \in Inserters, ReadLast(t) PROVE Quiet
  <2>1. OthersStay(t) /\ thread[t].pc = "last" /\ UNCHANGED <<submaps, num_entries>>
    BY <1>1, <1>6 DEF ReadLast, OthersStay
  <2>2. thread'[t].pc \in {"look", "check"}
    BY <1>1, <1>6 DEF ReadLast, Call
  <2> QED BY <1>4, <2>1, <2>2 DEF WorkPC
<1>7. ASSUME NEW t \in Inserters, Look(t) PROVE Quiet
  <2>1. OthersStay(t) /\ thread[t].pc = "look" /\ UNCHANGED <<submaps, num_entries>>
    BY <1>1, <1>7 DEF Look, LookFound, LookOn, LookBelow, LookIn, Return, Goto, NextProbe,
                      OthersStay
  <2>2. thread'[t].pc \in {"look", "check", "idle"}
    BY <1>1, <1>7, <2>1, IdleFields DEF Look, LookFound, LookOn, LookBelow, LookIn, Return,
                                        Goto, NextProbe, Call
  <2> QED BY <1>4, <2>1, <2>2 DEF WorkPC
<1>8. ASSUME NEW t \in Inserters, Check(t) PROVE Quiet \/ Passes(t)
  <2>1. /\ OthersStay(t) /\ thread[t].pc = "check" /\ UNCHANGED <<submaps, num_entries>>
        /\ thread[t].last \in 1 .. Len(submaps)
    BY <1>1, <1>8 DEF Check, Goto, OthersStay, Inv, ThreadOK, CallOK
  <2>2. CASE is_overloaded(submaps[thread[t].last])
    <3>1. thread'[t].pc = "expand"
      BY <1>1, <1>8, <2>2 DEF Check, Goto, Call
    <3> QED BY <1>4, <2>1, <3>1 DEF WorkPC
  <2>3. CASE ~is_overloaded(submaps[thread[t].last])
    <3>1. thread'[t].pc = "probe" /\ thread'[t].sub = thread[t].last
      BY <1>1, <1>8, <2>3 DEF Check, Call
    <3> QED BY <2>1, <2>3, <3>1 DEF Passes
  <2> QED BY <2>2, <2>3
<1>9. ASSUME NEW t \in Inserters, Probe(t) PROVE Quiet \/ Claims(t)
  <2>1. /\ OthersStay(t) /\ thread[t].pc = "probe" /\ UNCHANGED num_entries
        /\ thread[t].sub \in 1 .. Len(submaps)
        /\ Index(Here(t), thread[t].key, thread[t].n) \in 0 .. Here(t).capacity - 1
    <3>1. thread[t].pc = "probe" /\ UNCHANGED num_entries
      BY <1>9 DEF Probe
    <3>2. OthersStay(t)
      BY <1>1, <1>9 DEF Probe, ProbeClaims, ProbeFinds, ProbeOn, Return, Goto, NextProbe, OthersStay
    <3> QED BY <3>1, <3>2, ProbeFacts
  <2>2. CASE ProbeClaims(t)
    <3>1. thread'[t].pc = "publish" /\ thread'[t].sub = thread[t].sub
      BY <1>1, <2>2 DEF ProbeClaims, Goto, Call
    <3>2. SetsBucket(t, EMPTY, BUSY)
      BY <2>1, <2>2, <3>1 DEF ProbeClaims, SetBucket, SetsBucket, With, Looked, Here
    <3> QED BY <2>1, <3>1, <3>2 DEF Claims, Moves
  <2>3. CASE ProbeFinds(t)
    <3>1. thread'[t].pc = "idle"
      BY <1>1, <2>3 DEF ProbeFinds, Return, Idle
    <3> QED BY <1>4, <2>1, <2>3, <3>1 DEF WorkPC, ProbeFinds
  <2>4. CASE ProbeOn(t)
    <3>1. \/ thread'[t].pc = "expand"
          \/ thread'[t].pc = "probe" /\ thread'[t].sub = thread[t].sub
      BY <1>1, <2>1, <2>4 DEF ProbeOn, Goto, NextProbe, Call
    <3> QED BY <1>4, <2>1, <2>4, <3>1 DEF WorkPC, ProbeOn
  <2> QED BY <1>9, <2>2, <2>3, <2>4 DEF Probe
<1>10. ASSUME NEW t \in Inserters, Publish(t) PROVE Publishes(t)
  <2>1. /\ OthersStay(t) /\ thread[t].pc = "publish" /\ UNCHANGED num_entries
        /\ thread[t].sub \in 1 .. Len(submaps) /\ thread[t].key \in Key
        /\ Index(Here(t), thread[t].key, thread[t].n) \in 0 .. Here(t).capacity - 1
    <3>1. thread[t].pc = "publish" /\ UNCHANGED num_entries /\ OthersStay(t)
      BY <1>1, <1>10 DEF Publish, Goto, OthersStay
    <3> QED BY <3>1, ProbeFacts
  <2>2. thread'[t].pc = "count" /\ thread'[t].sub = thread[t].sub
    BY <1>1, <1>10 DEF Publish, Goto, Call
  <2>3. SetsBucket(t, BUSY, thread[t].key)
    BY <1>10, <2>1, <2>2, ClaimIsBusy DEF Publish, SetBucket, SetsBucket, With, Here
  <2> QED BY <2>1, <2>2, <2>3 DEF Publishes, Moves
<1>11. ASSUME NEW t \in Inserters, increment_num_valid_buckets(t) PROVE CountsSubmap(t)
  <2>0. /\ thread[t] \in Call /\ thread[t].pc = "count" /\ thread[t].sub \in 1 .. Len(submaps)
    BY <1>1, <1>11 DEF increment_num_valid_buckets, Inv, ThreadOK, CallOK
  <2>1. thread'[t].pc = "entries" /\ thread'[t].sub = thread[t].sub /\ OthersStay(t)
    BY <1>1, <1>11, <2>0 DEF increment_num_valid_buckets, Goto, OthersStay, Call
  <2> QED BY <1>11, <2>0, <2>1 DEF CountsSubmap, Moves, increment_num_valid_buckets
<1>12. ASSUME NEW t \in Inserters, incrementnum_entries(t) PROVE CountsEntry(t)
  BY <1>1, <1>12 DEF incrementnum_entries, Return, CountsEntry, OthersStay, Idle
<1>13. ASSUME NEW t \in Inserters, expand(t) PROVE Quiet \/ Expands(t)
  <2> DEFINE s == submaps[Len(submaps)]
  <2>1. /\ OthersStay(t) /\ thread[t].pc = "expand" /\ UNCHANGED num_entries
        /\ s.capacity \in Nat /\ s.capacity > 2
    BY <1>1, <1>13 DEF expand, ExpandUnderFlag, Goto, OthersStay, TypedMap, TypedSubmap, Submap
  <2>2. thread'[t].pc = IF Len(submaps) = MaxSubmaps THEN "thrown" ELSE "last"
    BY <1>1, <1>13 DEF expand, ExpandUnderFlag, Goto, Call
  <2>3. CASE submaps' = submaps
    BY <1>4, <2>1, <2>2, <2>3 DEF WorkPC
  <2>4. CASE submaps' # submaps
    <3>1. /\ submaps' = Append(submaps, NewSubmap(next_prime(2 * s.capacity)))
          /\ Len(submaps) # MaxSubmaps
      BY <1>13, <2>4 DEF expand, ExpandUnderFlag
    <3>2. /\ next_prime(2 * s.capacity) \in Nat /\ next_prime(2 * s.capacity) > 2
          /\ is_prime(next_prime(2 * s.capacity))
      BY <2>1, CapacityGrows
    <3> QED BY <2>1, <2>2, <3>1, <3>2 DEF Expands
  <2> QED BY <2>3, <2>4
<1> QED BY <1>2, <1>3, <1>5, <1>6, <1>7, <1>8, <1>9, <1>10, <1>11, <1>12, <1>13
        DEF Next, InsertStep

-----------------------------------------------------------------------------
(* Each submap's counter against its buckets. *)

(* The inserters at one of some positions in the i-th submap. *)
Inside(pcs, i) == {t \in Inserters : thread[t].pc \in pcs /\ thread[t].sub = i}

(* A bucket is occupied by an entry that is counted or by an inserter on its
   way from the claim to the count; an inserter that has passed the overload
   test may occupy one more. *)
SubmapCounts(i) ==
  /\ Cardinality(Occupied(submaps[i]))
       = submaps[i].num_valid + Cardinality(Inside({"publish", "count"}, i))
  /\ Cardinality(Valid(submaps[i]))
       = submaps[i].num_valid + Cardinality(Inside({"count"}, i))
  /\ (submaps[i].num_valid + Cardinality(Inside({"probe", "publish", "count"}, i))) * LoadDen
       < LoadNum * submaps[i].capacity + Cardinality(Inserters) * LoadDen

CountsOK == \A i \in 1 .. Len(submaps) : SubmapCounts(i)

(* Of a set of inserters only t joins or leaves. *)
LEMMA OneMoves ==
  ASSUME NEW S, NEW T, S \subseteq Inserters, T \subseteq Inserters, NEW t \in Inserters,
         \A u \in Inserters \ {t} : u \in T <=> u \in S
  PROVE  /\ Cardinality(S) \in Nat /\ Cardinality(T) \in Nat
         /\ Cardinality(T) = Cardinality(S) + (IF t \in T THEN 1 ELSE 0)
                                            - (IF t \in S THEN 1 ELSE 0)
         /\ Cardinality(T) <= Cardinality(Inserters)
<1> DEFINE R == S \ {t}
<1>1. IsFiniteSet(Inserters)
  BY MapAssumption
<1>2. IsFiniteSet(S) /\ IsFiniteSet(T) /\ IsFiniteSet(R)
  BY <1>1, FS_Subset
<1>3. /\ Cardinality(S) \in Nat /\ Cardinality(T) \in Nat /\ Cardinality(R) \in Nat
      /\ Cardinality(T) <= Cardinality(Inserters)
  BY <1>1, <1>2, FS_CardinalityType, FS_Subset
<1>4. Cardinality(R \cup {t}) = Cardinality(R) + 1
  BY <1>2, FS_AddElement
<1>5. S = IF t \in S THEN R \cup {t} ELSE R
  OBVIOUS
<1>6. T = IF t \in T THEN R \cup {t} ELSE R
  OBVIOUS
<1> QED BY <1>3, <1>4, <1>5, <1>6

LEMMA InsideMoves ==
  ASSUME NEW t \in Inserters, OthersStay(t), NEW pcs, NEW i
  PROVE  /\ Cardinality(Inside(pcs, i)) \in Nat /\ Cardinality(Inside(pcs, i)') \in Nat
         /\ Cardinality(Inside(pcs, i)')
              = Cardinality(Inside(pcs, i))
                  + (IF thread'[t].pc \in pcs /\ thread'[t].sub = i THEN 1 ELSE 0)
                  - (IF thread[t].pc \in pcs /\ thread[t].sub = i THEN 1 ELSE 0)
         /\ Cardinality(Inside(pcs, i)') <= Cardinality(Inserters)
<1> DEFINE S == Inside(pcs, i)
           T == Inside(pcs, i)'
<1>1. S \subseteq Inserters /\ T \subseteq Inserters
  BY DEF Inside
<1>2. /\ t \in S <=> thread[t].pc \in pcs /\ thread[t].sub = i
      /\ t \in T <=> thread'[t].pc \in pcs /\ thread'[t].sub = i
  BY DEF Inside
<1>3. \A u \in Inserters \ {t} : u \in T <=> u \in S
  BY DEF OthersStay, Inside
<1> HIDE DEF S, T
<1>4. /\ Cardinality(S) \in Nat /\ Cardinality(T) \in Nat
      /\ Cardinality(T) = Cardinality(S) + (IF t \in T THEN 1 ELSE 0)
                                         - (IF t \in S THEN 1 ELSE 0)
      /\ Cardinality(T) <= Cardinality(Inserters)
  BY <1>1, <1>3, OneMoves
<1> QED BY <1>2, <1>4 DEF S, T

(* What setting a bucket of the i-th submap to b does. *)
BucketIsSet(ss, tt, i, x, b) ==
  /\ Len(tt) = Len(ss) /\ \A j \in 1 .. Len(ss) : j # i => tt[j] = ss[j]
  /\ tt[i].num_valid = ss[i].num_valid /\ tt[i].capacity = ss[i].capacity
  /\ Occupied(tt[i]) = IF b = EMPTY THEN Occupied(ss[i]) \ {x} ELSE Occupied(ss[i]) \cup {x}
  /\ Valid(tt[i]) = IF b \in Key THEN Valid(ss[i]) \cup {x} ELSE Valid(ss[i]) \ {x}

LEMMA BucketCounted ==
  ASSUME NEW ss, TypedMap(ss), NEW i \in 1 .. Len(ss),
         NEW x \in 0 .. ss[i].capacity - 1, NEW b, NEW tt, tt = With(ss, i, x, b)
  PROVE  BucketIsSet(ss, tt, i, x, b)
<1> DEFINE s == ss[i]
           u == [s EXCEPT !.buckets = [s.buckets EXCEPT ![x] = b]]
<1>1. ss \in Seq(Submap) /\ s \in Submap /\ s.buckets \in [0 .. s.capacity - 1 -> Bucket]
  BY DEF TypedMap, TypedSubmap
<1>2. tt = [ss EXCEPT ![i] = u]
  BY <1>1 DEF With
<1>3. /\ u.num_valid = s.num_valid /\ u.capacity = s.capacity
      /\ u.buckets = [s.buckets EXCEPT ![x] = b]
  BY <1>1 DEF Submap
<1> HIDE DEF u
<1>4. Len(tt) = Len(ss) /\ tt[i] = u /\ \A j \in 1 .. Len(ss) : j # i => tt[j] = ss[j]
  BY <1>1, <1>2
<1>5. /\ DOMAIN u.buckets = 0 .. s.capacity - 1 /\ DOMAIN s.buckets = 0 .. s.capacity - 1
      /\ \A y \in 0 .. s.capacity - 1 : u.buckets[y] = IF y = x THEN b ELSE s.buckets[y]
  BY <1>1, <1>3
<1>6. Occupied(u) = IF b = EMPTY THEN Occupied(s) \ {x} ELSE Occupied(s) \cup {x}
  BY <1>5 DEF Occupied
<1>7. Valid(u) = IF b \in Key THEN Valid(s) \cup {x} ELSE Valid(s) \ {x}
  BY <1>5 DEF Valid
<1> QED BY <1>3, <1>4, <1>6, <1>7 DEF BucketIsSet

(* The buckets of a submap are finitely many. *)
LEMMA BucketsFinite ==
  ASSUME NEW s, TypedSubmap(s)
  PROVE  /\ IsFiniteSet(Occupied(s)) /\ Cardinality(Occupied(s)) \in 0 .. s.capacity
         /\ IsFiniteSet(Valid(s)) /\ Cardinality(Valid(s)) \in 0 .. s.capacity
<1>1. s.capacity \in Nat /\ DOMAIN s.buckets = 0 .. s.capacity - 1
  BY DEF TypedSubmap, Submap
<1> DEFINE D == 0 .. s.capacity - 1
<1>2. IsFiniteSet(D) /\ Cardinality(D) = s.capacity
  <2>1. 0 \in Int /\ s.capacity - 1 \in Int
    BY <1>1
  <2>2. IsFiniteSet(D) /\ Cardinality(D) = IF 0 > s.capacity - 1 THEN 0 ELSE (s.capacity - 1) - 0 + 1
    BY <2>1, FS_Interval
  <2> QED BY <1>1, <2>2
<1>3. Occupied(s) \subseteq D /\ Valid(s) \subseteq D
  BY <1>1 DEF Occupied, Valid
<1> HIDE DEF D
<1>4. /\ IsFiniteSet(Occupied(s)) /\ Cardinality(Occupied(s)) <= s.capacity
      /\ IsFiniteSet(Valid(s)) /\ Cardinality(Valid(s)) <= s.capacity
  BY <1>2, <1>3, FS_Subset
<1> QED BY <1>1, <1>4, FS_CardinalityType

(* The buckets a submap has given away: its entries and the inserters inside. *)
Booked(i) == submaps[i].num_valid + Cardinality(Inside({"probe", "publish", "count"}, i))

LEMMA BookedNatural ==
  ASSUME Inv, NEW i \in 1 .. Len(submaps)
  PROVE  /\ submaps[i].num_valid \in Nat /\ submaps[i].capacity \in Nat
         /\ submaps[i].capacity > 2
         /\ \A pcs : IsFiniteSet(Inside(pcs, i)) /\ Cardinality(Inside(pcs, i)) \in Nat
         /\ Booked(i) \in Nat /\ Cardinality(Inserters) \in Nat
<1>1. submaps[i] \in Submap /\ submaps[i].capacity > 2
  BY DEF Inv, TypedMap, TypedSubmap
<1>2. submaps[i].num_valid \in Nat /\ submaps[i].capacity \in Nat
  BY <1>1 DEF Submap
<1>3. \A pcs : Inside(pcs, i) \subseteq Inserters
  BY DEF Inside
<1>4. \A pcs : IsFiniteSet(Inside(pcs, i)) /\ Cardinality(Inside(pcs, i)) \in Nat
  BY <1>3, MapAssumption, FS_Subset, FS_CardinalityType
<1>5. Cardinality(Inserters) \in Nat
  BY MapAssumption, FS_CardinalityType
<1> QED BY <1>1, <1>2, <1>4, <1>5 DEF Booked

(* A submap that has not given away more than before is within its bound. *)
LEMMA BoundKept ==
  ASSUME NEW m \in Nat, NEW b \in Nat, m <= b, NEW c \in Nat, NEW e \in Nat,
         b * LoadDen < LoadNum * c + e * LoadDen
  PROVE  m * LoadDen < LoadNum * c + e * LoadDen
<1>1. LoadDen \in Nat /\ LoadNum \in Nat
  BY MapAssumption
<1>2. m * LoadDen \in Nat /\ b * LoadDen \in Nat /\ m * LoadDen <= b * LoadDen
  BY <1>1
<1>3. LoadNum * c \in Nat /\ e * LoadDen \in Nat
  BY <1>1
<1> QED BY <1>2, <1>3

LEMMA CountsInit == Init => CountsOK
<1> SUFFICES ASSUME Init, NEW i \in 1 .. Len(submaps) PROVE SubmapCounts(i)
  BY DEF CountsOK
<1>1. Len(submaps) = 1 /\ i = 1 /\ submaps[i] = NewSubmap(FirstCapacity)
  BY DEF Init
<1>2. Occupied(submaps[i]) = {} /\ Valid(submaps[i]) = {}
  BY <1>1, MapAssumption DEF NewSubmap, Occupied, Valid
<1>3. \A t \in Inserters : thread[t].pc = "idle"
  BY DEF Init, Threads, Idle
<1>4. /\ Inside({"publish", "count"}, i) = {} /\ Inside({"count"}, i) = {}
      /\ Inside({"probe", "publish", "count"}, i) = {}
  BY <1>3 DEF Inside
<1>5. Cardinality({}) = 0
  BY FS_EmptySet
<1>6. /\ Cardinality(Inserters) \in Nat /\ LoadDen \in Nat /\ LoadNum \in Nat /\ LoadNum > 0
      /\ FirstCapacity \in Nat /\ FirstCapacity > 2
  BY MapAssumption, FS_CardinalityType
<1>7. LoadNum * FirstCapacity > 0 /\ Cardinality(Inserters) * LoadDen \in Nat
  BY <1>6
<1>8. submaps[i].num_valid = 0 /\ submaps[i].capacity = FirstCapacity
  BY <1>1 DEF NewSubmap
<1>9. (0 + 0) * LoadDen < LoadNum * FirstCapacity + Cardinality(Inserters) * LoadDen
  BY <1>6, <1>7
<1>10. (submaps[i].num_valid + Cardinality(Inside({"probe", "publish", "count"}, i))) * LoadDen
         < LoadNum * submaps[i].capacity + Cardinality(Inserters) * LoadDen
  BY <1>4, <1>5, <1>8, <1>9
<1>11. /\ Cardinality(Occupied(submaps[i])) = 0 /\ Cardinality(Valid(submaps[i])) = 0
       /\ Cardinality(Inside({"publish", "count"}, i)) = 0
       /\ Cardinality(Inside({"count"}, i)) = 0
  BY <1>2, <1>4, <1>5, Zenon
<1>12. /\ Cardinality(Occupied(submaps[i]))
            = submaps[i].num_valid + Cardinality(Inside({"publish", "count"}, i))
       /\ Cardinality(Valid(submaps[i]))
            = submaps[i].num_valid + Cardinality(Inside({"count"}, i))
  BY <1>8, <1>11
<1> QED BY <1>10, <1>12 DEF SubmapCounts

(* The counts of a submap that is not touched, with the inserters inside it the
   same but for some that have given up. *)
LEMMA CountsStay ==
  ASSUME Inv, Inv', NEW i \in 1 .. Len(submaps), SubmapCounts(i),
         i \in 1 .. Len(submaps'), submaps'[i] = submaps[i],
         Cardinality(Inside({"publish", "count"}, i)') = Cardinality(Inside({"publish", "count"}, i)),
         Cardinality(Inside({"count"}, i)') = Cardinality(Inside({"count"}, i)),
         Cardinality(Inside({"probe", "publish", "count"}, i)')
           <= Cardinality(Inside({"probe", "publish", "count"}, i))
  PROVE  SubmapCounts(i)'
<1>1. /\ Booked(i) \in Nat /\ submaps[i].num_valid \in Nat /\ submaps[i].capacity \in Nat
      /\ Cardinality(Inside({"probe", "publish", "count"}, i)) \in Nat
      /\ Cardinality(Inserters) \in Nat
  BY BookedNatural
<1>2. Booked(i)' \in Nat /\ Cardinality(Inside({"probe", "publish", "count"}, i)') \in Nat
  <2>1. ASSUME Inv', i \in 1 .. Len(submaps')
        PROVE  Booked(i)' \in Nat /\ Cardinality(Inside({"probe", "publish", "count"}, i)') \in Nat
    <3>1. submaps'[i].num_valid \in Nat
      BY <1>1
    <3>2. Inside({"probe", "publish", "count"}, i)' \subseteq Inserters
      BY DEF Inside
    <3>3. Cardinality(Inside({"probe", "publish", "count"}, i)') \in Nat
      BY <3>2, MapAssumption, FS_Subset, FS_CardinalityType
    <3> QED BY <3>1, <3>3 DEF Booked
  <2> QED BY <2>1
<1>3. Booked(i)' <= Booked(i)
  BY <1>1, <1>2 DEF Booked
<1>4. Booked(i) * LoadDen < LoadNum * submaps[i].capacity + Cardinality(Inserters) * LoadDen
  BY DEF SubmapCounts, Booked
<1>5. Booked(i)' * LoadDen < LoadNum * submaps[i].capacity + Cardinality(Inserters) * LoadDen
  BY <1>1, <1>2, <1>3, <1>4, BoundKept
<1> QED BY <1>5 DEF SubmapCounts, Booked

LEMMA QuietCounts ==
  ASSUME Inv, Inv', NEW i \in 1 .. Len(submaps), SubmapCounts(i), Quiet
  PROVE  SubmapCounts(i)'
<1>1. submaps' = submaps /\ \A t \in Inserters :
        \/ thread[t].pc \notin {"publish", "count", "entries"} /\ thread'[t].pc \notin WorkPC
        \/ thread'[t].pc = thread[t].pc /\ thread'[t].sub = thread[t].sub
  BY DEF Quiet, WorkPC
<1>2. /\ Inside({"publish", "count"}, i)' = Inside({"publish", "count"}, i)
      /\ Inside({"count"}, i)' = Inside({"count"}, i)
  BY <1>1 DEF Inside, WorkPC
<1>3. Inside({"probe", "publish", "count"}, i)' \subseteq Inside({"probe", "publish", "count"}, i)
  BY <1>1 DEF Inside, WorkPC
<1>4. IsFiniteSet(Inside({"probe", "publish", "count"}, i))
  BY BookedNatural
<1>5. Cardinality(Inside({"probe", "publish", "count"}, i)')
        <= Cardinality(Inside({"probe", "publish", "count"}, i))
  BY <1>3, <1>4, FS_Subset
<1> QED BY <1>1, <1>2, <1>5, CountsStay

(* An insert that passes the overload test, or goes on inside its submap. *)
LEMMA PassesCounts ==
  ASSUME Inv, Inv', NEW i \in 1 .. Len(submaps), SubmapCounts(i),
         NEW t \in Inserters, Passes(t)
  PROVE  SubmapCounts(i)'
<1> DEFINE work == {"probe", "publish", "count"}
<1>1. /\ thread[t].pc = "check" /\ thread'[t].pc = "probe" /\ submaps' = submaps
      /\ OthersStay(t) /\ ~is_overloaded(submaps[thread'[t].sub])
  BY DEF Passes
<1>2. /\ Cardinality(Inside({"publish", "count"}, i)') = Cardinality(Inside({"publish", "count"}, i))
      /\ Cardinality(Inside({"count"}, i)') = Cardinality(Inside({"count"}, i))
  BY <1>1, InsideMoves
<1>3. CASE thread'[t].sub # i
  <2>1. Cardinality(Inside(work, i)') <= Cardinality(Inside(work, i))
    BY <1>1, <1>3, InsideMoves
  <2> QED BY <1>1, <1>2, <2>1, CountsStay
<1>4. CASE thread'[t].sub = i
  <2> DEFINE v == submaps[i].num_valid
             m == Cardinality(Inside(work, i)')
             e == Cardinality(Inserters)
             c == submaps[i].capacity
  <2>1. v \in Nat /\ e \in Nat /\ m \in Nat /\ m <= e /\ c \in Nat
    BY <1>1, InsideMoves, BookedNatural
  <2>2. v * LoadDen < LoadNum * c
    <3>1. ~(v * LoadDen >= LoadNum * c)
      BY <1>1, <1>4 DEF is_overloaded
    <3>2. v * LoadDen \in Nat /\ LoadNum * c \in Nat
      BY <2>1, MapAssumption
    <3> QED BY <3>1, <3>2
  <2>3. m * LoadDen <= e * LoadDen /\ m * LoadDen \in Nat /\ e * LoadDen \in Nat
    BY <2>1, MapAssumption
  <2>4. v * LoadDen \in Nat /\ LoadNum * c \in Nat /\ (v + m) * LoadDen = v * LoadDen + m * LoadDen
    BY <2>1, MapAssumption
  <2>5. (v + m) * LoadDen < LoadNum * c + e * LoadDen
    BY <2>2, <2>3, <2>4
  <2>6. submaps'[i] = submaps[i]
    BY <1>1
  <2> QED BY <1>2, <2>5, <2>6 DEF SubmapCounts
<1> QED BY <1>3, <1>4

(* A step that does not leave a submap's bound behind. *)
LEMMA BookedKept ==
  ASSUME Inv, NEW i \in 1 .. Len(submaps), SubmapCounts(i),
         Booked(i)' \in Nat, Booked(i)' <= Booked(i),
         submaps'[i].capacity = submaps[i].capacity
  PROVE  (submaps'[i].num_valid + Cardinality(Inside({"probe", "publish", "count"}, i)')) * LoadDen
           < LoadNum * submaps'[i].capacity + Cardinality(Inserters) * LoadDen
<1>1. /\ Booked(i) \in Nat /\ submaps[i].capacity \in Nat /\ Cardinality(Inserters) \in Nat
  BY BookedNatural
<1>2. Booked(i) * LoadDen < LoadNum * submaps[i].capacity + Cardinality(Inserters) * LoadDen
  BY DEF SubmapCounts, Booked
<1>3. Booked(i)' * LoadDen < LoadNum * submaps[i].capacity + Cardinality(Inserters) * LoadDen
  BY <1>1, <1>2, BoundKept
<1> QED BY <1>3 DEF Booked

(* A submap that t does not touch. *)
LEMMA ElsewhereCounts ==
  ASSUME Inv, Inv', NEW i \in 1 .. Len(submaps), SubmapCounts(i), NEW t \in Inserters,
         OthersStay(t), i \in 1 .. Len(submaps'), submaps'[i] = submaps[i],
         \/ thread[t].pc \notin {"probe", "publish", "count"} \/ thread[t].sub # i,
         \/ thread'[t].pc \notin {"probe", "publish", "count"} \/ thread'[t].sub # i
  PROVE  SubmapCounts(i)'
<1>1. /\ Cardinality(Inside({"publish", "count"}, i)') = Cardinality(Inside({"publish", "count"}, i))
      /\ Cardinality(Inside({"count"}, i)') = Cardinality(Inside({"count"}, i))
      /\ Cardinality(Inside({"probe", "publish", "count"}, i)')
           <= Cardinality(Inside({"probe", "publish", "count"}, i))
  BY InsideMoves
<1> QED BY <1>1, CountsStay

(* The submap in which t moves on, and what that does to those inside it. *)
LEMMA HereMoves ==
  ASSUME Inv, NEW t \in Inserters, NEW from, NEW to, Moves(t, from, to),
         NEW i, thread[t].sub = i, thread'[t].sub = i
  PROVE  \A pcs : /\ Cardinality(Inside(pcs, i)) \in Nat
                  /\ Cardinality(Inside(pcs, i)') \in Nat
                  /\ Cardinality(Inside(pcs, i)')
                       = Cardinality(Inside(pcs, i)) + (IF to \in pcs THEN 1 ELSE 0)
                                                     - (IF from \in pcs THEN 1 ELSE 0)
<1> TAKE pcs
<1>1. OthersStay(t) /\ thread[t].pc = from /\ thread'[t].pc = to
  BY DEF Moves
<1>2. /\ Cardinality(Inside(pcs, i)) \in Nat /\ Cardinality(Inside(pcs, i)') \in Nat
      /\ Cardinality(Inside(pcs, i)')
           = Cardinality(Inside(pcs, i))
               + (IF thread'[t].pc \in pcs /\ thread'[t].sub = i THEN 1 ELSE 0)
               - (IF thread[t].pc \in pcs /\ thread[t].sub = i THEN 1 ELSE 0)
  BY <1>1, InsideMoves
<1> QED BY <1>1, <1>2

(* A bucket that is set, claimed or filled, in t's submap. *)
LEMMA SetsBucketCounts ==
  ASSUME Inv, NEW t \in Inserters, NEW old \in {EMPTY, BUSY}, NEW new \in {BUSY} \cup Key,
         SetsBucket(t, old, new), NEW j, thread[t].sub = j, j \in 1 .. Len(submaps)
  PROVE  /\ Len(submaps') = Len(submaps)
         /\ \A l \in 1 .. Len(submaps) : l # j => submaps'[l] = submaps[l]
         /\ submaps'[j].num_valid = submaps[j].num_valid
         /\ submaps'[j].capacity = submaps[j].capacity
         /\ Cardinality(Occupied(submaps[j])) \in Nat /\ Cardinality(Valid(submaps[j])) \in Nat
         /\ Cardinality(Occupied(submaps'[j]))
              = Cardinality(Occupied(submaps[j])) + (IF old = EMPTY THEN 1 ELSE 0)
         /\ Cardinality(Valid(submaps'[j]))
              = Cardinality(Valid(submaps[j])) + (IF new \in Key THEN 1 ELSE 0)
<1>1. PICK x \in 0 .. submaps[j].capacity - 1 :
        submaps[j].buckets[x] = old /\ submaps' = With(submaps, j, x, new)
  BY DEF SetsBucket
<1>2. TypedMap(submaps) /\ TypedSubmap(submaps[j])
  BY DEF Inv, TypedMap
<1>3. new # EMPTY /\ old \notin Key
  BY MapAssumption
<1>4. BucketIsSet(submaps, submaps', j, x, new)
  BY <1>1, <1>2, BucketCounted
<1>5. x \in DOMAIN submaps[j].buckets
  BY <1>2 DEF TypedSubmap
<1>6. (x \in Occupied(submaps[j]) <=> old # EMPTY) /\ x \notin Valid(submaps[j])
  BY <1>1, <1>3, <1>5 DEF Occupied, Valid
<1>7. /\ IsFiniteSet(Occupied(submaps[j])) /\ Cardinality(Occupied(submaps[j])) \in Nat
      /\ IsFiniteSet(Valid(submaps[j])) /\ Cardinality(Valid(submaps[j])) \in Nat
  BY <1>2, BucketsFinite
<1>8. /\ Cardinality(Occupied(submaps[j]) \cup {x})
           = IF x \in Occupied(submaps[j]) THEN Cardinality(Occupied(submaps[j]))
             ELSE Cardinality(Occupied(submaps[j])) + 1
      /\ Cardinality(Valid(submaps[j]) \cup {x})
           = IF x \in Valid(submaps[j]) THEN Cardinality(Valid(submaps[j]))
             ELSE Cardinality(Valid(submaps[j])) + 1
  BY <1>7, FS_AddElement
<1>9. /\ Occupied(submaps'[j]) = Occupied(submaps[j]) \cup {x}
      /\ Valid(submaps'[j]) = IF new \in Key THEN Valid(submaps[j]) \cup {x} ELSE Valid(submaps[j])
  BY <1>3, <1>4, <1>6 DEF BucketIsSet
<1>10. /\ Cardinality(Occupied(submaps'[j]))
            = Cardinality(Occupied(submaps[j])) + (IF old = EMPTY THEN 1 ELSE 0)
       /\ Cardinality(Valid(submaps'[j]))
            = Cardinality(Valid(submaps[j])) + (IF new \in Key THEN 1 ELSE 0)
  BY <1>6, <1>7, <1>8, <1>9
<1> QED BY <1>4, <1>7, <1>10 DEF BucketIsSet

(* A claim and a publication. *)
LEMMA BucketCounts ==
  ASSUME Inv, Inv', NEW i \in 1 .. Len(submaps), SubmapCounts(i),
         NEW t \in Inserters, Claims(t) \/ Publishes(t)
  PROVE  Len(submaps') = Len(submaps) /\ SubmapCounts(i)'
<1> DEFINE two == {"publish", "count"}
           three == {"probe", "publish", "count"}
<1>1. PICK from, to, old, new :
        /\ Moves(t, from, to) /\ SetsBucket(t, old, new)
        /\ \/ from = "probe" /\ to = "publish" /\ old = EMPTY /\ new = BUSY
           \/ from = "publish" /\ to = "count" /\ old = BUSY /\ new \in Key
  BY DEF Claims, Publishes
<1>2. PICK j : j = thread[t].sub
  OBVIOUS
<1>3. /\ j \in 1 .. Len(submaps) /\ OthersStay(t) /\ thread[t].pc = from /\ thread'[t].pc = to
      /\ thread[t].sub = j /\ thread'[t].sub = j
      /\ old \in {EMPTY, BUSY} /\ new \in {BUSY} \cup Key
      /\ BUSY \notin Key /\ BUSY # EMPTY
  BY <1>1, <1>2, MapAssumption DEF Moves, SetsBucket
<1>4. /\ Len(submaps') = Len(submaps)
      /\ \A l \in 1 .. Len(submaps) : l # j => submaps'[l] = submaps[l]
      /\ submaps'[j].num_valid = submaps[j].num_valid
      /\ submaps'[j].capacity = submaps[j].capacity
      /\ Cardinality(Occupied(submaps[j])) \in Nat /\ Cardinality(Valid(submaps[j])) \in Nat
      /\ Cardinality(Occupied(submaps'[j]))
           = Cardinality(Occupied(submaps[j])) + (IF old = EMPTY THEN 1 ELSE 0)
      /\ Cardinality(Valid(submaps'[j]))
           = Cardinality(Valid(submaps[j])) + (IF new \in Key THEN 1 ELSE 0)
  BY <1>1, <1>3, SetsBucketCounts
<1>5. CASE i # j
  BY <1>3, <1>4, <1>5, ElsewhereCounts
<1>6. CASE i = j
  <2>1. \A pcs : /\ Cardinality(Inside(pcs, i)) \in Nat
                 /\ Cardinality(Inside(pcs, i)') \in Nat
                 /\ Cardinality(Inside(pcs, i)')
                      = Cardinality(Inside(pcs, i)) + (IF to \in pcs THEN 1 ELSE 0)
                                                    - (IF from \in pcs THEN 1 ELSE 0)
    BY <1>1, <1>3, <1>6, HereMoves
  <2>2. /\ Cardinality(Inside(two, i)) \in Nat /\ Cardinality(Inside({"count"}, i)) \in Nat
        /\ Cardinality(Inside(three, i)) \in Nat
        /\ Cardinality(Inside(two, i)')
             = Cardinality(Inside(two, i)) + (IF old = EMPTY THEN 1 ELSE 0)
        /\ Cardinality(Inside({"count"}, i)')
             = Cardinality(Inside({"count"}, i)) + (IF new \in Key THEN 1 ELSE 0)
        /\ Cardinality(Inside(three, i)') = Cardinality(Inside(three, i))
    BY <1>1, <1>3, <2>1
  <2>3. Booked(i)' = Booked(i) /\ Booked(i) \in Nat /\ submaps[i].num_valid \in Nat
    BY <1>4, <1>6, <2>2, BookedNatural DEF Booked
  <2>4. (submaps'[i].num_valid + Cardinality(Inside(three, i)')) * LoadDen
           < LoadNum * submaps'[i].capacity + Cardinality(Inserters) * LoadDen
    BY <1>4, <1>6, <2>3, BookedKept
  <2>5. /\ Cardinality(Occupied(submaps[i]))
              = submaps[i].num_valid + Cardinality(Inside(two, i))
        /\ Cardinality(Valid(submaps[i]))
              = submaps[i].num_valid + Cardinality(Inside({"count"}, i))
    BY DEF SubmapCounts
  <2>6. /\ Cardinality(Occupied(submaps'[i]))
              = submaps'[i].num_valid + Cardinality(Inside(two, i)')
        /\ Cardinality(Valid(submaps'[i]))
              = submaps'[i].num_valid + Cardinality(Inside({"count"}, i)')
    <3>1. submaps'[i].num_valid = submaps[i].num_valid
      BY <1>4, <1>6
    <3>2. /\ Cardinality(Occupied(submaps'[i]))
               = Cardinality(Occupied(submaps[i])) + (IF old = EMPTY THEN 1 ELSE 0)
          /\ Cardinality(Valid(submaps'[i]))
               = Cardinality(Valid(submaps[i])) + (IF new \in Key THEN 1 ELSE 0)
      BY <1>4, <1>6
    <3>3. submaps[i].num_valid \in Nat
      BY <2>3
    <3> HIDE DEF two
    <3> QED BY <2>2, <2>5, <3>1, <3>2, <3>3
  <2> QED BY <1>4, <2>4, <2>6 DEF SubmapCounts
<1> QED BY <1>5, <1>6, <1>4

LEMMA CountsSubmapCounts ==
  ASSUME Inv, Inv', NEW i \in 1 .. Len(submaps), SubmapCounts(i),
         NEW t \in Inserters, CountsSubmap(t)
  PROVE  SubmapCounts(i)'
<1> DEFINE three == {"probe", "publish", "count"}
<1>0. PICK j : j = thread[t].sub
  OBVIOUS
<1>1. /\ Moves(t, "count", "entries") /\ OthersStay(t)
      /\ thread[t].pc = "count" /\ thread'[t].pc = "entries" /\ thread[t].sub = j /\ thread'[t].sub = j
      /\ submaps' = [submaps EXCEPT ![j].num_valid = @ + 1]
  BY <1>0 DEF CountsSubmap, Moves
<1>2. /\ j \in 1 .. Len(submaps) /\ submaps \in Seq(Submap)
      /\ submaps[j] \in Submap /\ submaps[i] \in Submap
  BY <1>1 DEF Inv, Moves, TypedMap, TypedSubmap
<1>3. CASE i # j
  <2>1. i \in 1 .. Len(submaps') /\ submaps'[i] = submaps[i]
    BY <1>1, <1>2, <1>3
  <2> QED BY <1>1, <1>3, <2>1, ElsewhereCounts
<1>4. CASE i = j
  <2>1. /\ submaps'[i].num_valid = submaps[i].num_valid + 1
        /\ submaps'[i].capacity = submaps[i].capacity
        /\ submaps'[i].buckets = submaps[i].buckets
    BY <1>1, <1>2, <1>4 DEF Submap
  <2>2. thread[t].sub = i /\ thread'[t].sub = i /\ Moves(t, "count", "entries")
    BY <1>1, <1>4
  <2>3. \A pcs : /\ Cardinality(Inside(pcs, i)) \in Nat
                 /\ Cardinality(Inside(pcs, i)') \in Nat
                 /\ Cardinality(Inside(pcs, i)')
                      = Cardinality(Inside(pcs, i)) + (IF "entries" \in pcs THEN 1 ELSE 0)
                                                    - (IF "count" \in pcs THEN 1 ELSE 0)
    BY <2>2, HereMoves
  <2>4. /\ Cardinality(Inside({"publish", "count"}, i)') = Cardinality(Inside({"publish", "count"}, i)) - 1
        /\ Cardinality(Inside({"count"}, i)') = Cardinality(Inside({"count"}, i)) - 1
        /\ Cardinality(Inside(three, i)') = Cardinality(Inside(three, i)) - 1
        /\ Cardinality(Inside({"publish", "count"}, i)) \in Nat
        /\ Cardinality(Inside({"count"}, i)) \in Nat /\ Cardinality(Inside(three, i)) \in Nat
    <3>1. /\ Cardinality(Inside({"publish", "count"}, i)) \in Nat
          /\ Cardinality(Inside({"publish", "count"}, i)')
               = Cardinality(Inside({"publish", "count"}, i)) + 0 - 1
      BY <2>3
    <3>2. /\ Cardinality(Inside({"count"}, i)) \in Nat
          /\ Cardinality(Inside({"count"}, i)') = Cardinality(Inside({"count"}, i)) + 0 - 1
      BY <2>3
    <3>3. /\ Cardinality(Inside(three, i)) \in Nat
          /\ Cardinality(Inside(three, i)') = Cardinality(Inside(three, i)) + 0 - 1
      BY <2>3
    <3> QED BY <3>1, <3>2, <3>3
  <2>5. Booked(i)' = Booked(i) /\ Booked(i) \in Nat /\ submaps[i].num_valid \in Nat
    <3>1. submaps[i].num_valid \in Nat /\ Booked(i) \in Nat
      BY BookedNatural
    <3>2. Booked(i)' = submaps'[i].num_valid + Cardinality(Inside(three, i)')
      BY DEF Booked
    <3>3. Booked(i) = submaps[i].num_valid + Cardinality(Inside(three, i))
      BY DEF Booked
    <3> QED BY <2>1, <2>4, <3>1, <3>2, <3>3
  <2>6. (submaps'[i].num_valid + Cardinality(Inside(three, i)')) * LoadDen
           < LoadNum * submaps'[i].capacity + Cardinality(Inserters) * LoadDen
    BY <1>2, <1>4, <2>1, <2>5, BookedKept
  <2>7. Occupied(submaps'[i]) = Occupied(submaps[i]) /\ Valid(submaps'[i]) = Valid(submaps[i])
    BY <2>1 DEF Occupied, Valid
  <2>8. /\ Cardinality(Occupied(submaps[i]))
              = submaps[i].num_valid + Cardinality(Inside({"publish", "count"}, i))
        /\ Cardinality(Valid(submaps[i]))
              = submaps[i].num_valid + Cardinality(Inside({"count"}, i))
    BY <1>4 DEF SubmapCounts
  <2>9. /\ Cardinality(Occupied(submaps'[i]))
              = submaps'[i].num_valid + Cardinality(Inside({"publish", "count"}, i)')
        /\ Cardinality(Valid(submaps'[i]))
              = submaps'[i].num_valid + Cardinality(Inside({"count"}, i)')
    BY <2>1, <2>4, <2>5, <2>7, <2>8, SMTT(30)
  <2> QED BY <1>4, <2>6, <2>9 DEF SubmapCounts
<1> QED BY <1>3, <1>4

(* The appended submap is empty, and nobody is inside it. *)
LEMMA ExpandsCounts ==
  ASSUME Inv, Inv', CountsOK, NEW t \in Inserters, Expands(t)
  PROVE  CountsOK'
<1>1. PICK c \in Nat : c > 2 /\ submaps' = Append(submaps, NewSubmap(c))
  BY DEF Expands
<1>2. submaps \in Seq(Submap) /\ TypedMap(submaps)
  BY DEF Inv, TypedMap
<1>3. /\ Len(submaps) \in Nat /\ Len(submaps') = Len(submaps) + 1
      /\ \A j \in 1 .. Len(submaps) : submaps'[j] = submaps[j]
      /\ submaps'[Len(submaps) + 1] = NewSubmap(c)
  BY <1>1, <1>2
<1>4. /\ OthersStay(t) /\ thread[t].pc \notin {"probe", "publish", "count"}
      /\ thread'[t].pc \notin {"probe", "publish", "count"}
  BY DEF Expands
<1>5. ASSUME NEW i \in 1 .. Len(submaps) PROVE SubmapCounts(i)'
  <2>1. SubmapCounts(i) /\ i \in 1 .. Len(submaps') /\ submaps'[i] = submaps[i]
    BY <1>3 DEF CountsOK
  <2> QED BY <1>4, <2>1, ElsewhereCounts
<1>6. ASSUME NEW i, i = Len(submaps) + 1 PROVE SubmapCounts(i)'
  <2>1. \A u \in Inserters : thread'[u].pc \in {"probe", "publish", "count"} => thread'[u].sub # i
    <3> SUFFICES ASSUME NEW u \in Inserters, thread'[u].pc \in {"probe", "publish", "count"}
                 PROVE  thread'[u].sub # i
      OBVIOUS
    <3>1. thread'[u] = thread[u] /\ u \in Threads
      BY <1>4 DEF OthersStay, Threads
    <3>2. thread[u].sub \in 1 .. Len(submaps)
      BY <3>1 DEF Inv, ThreadOK, CallOK
    <3> QED BY <1>3, <1>6, <3>1, <3>2
  <2>2. /\ Inside({"publish", "count"}, i)' = {} /\ Inside({"count"}, i)' = {}
        /\ Inside({"probe", "publish", "count"}, i)' = {}
    BY <2>1 DEF Inside
  <2>3. /\ submaps'[i].num_valid = 0 /\ submaps'[i].capacity = c
        /\ Occupied(submaps'[i]) = {} /\ Valid(submaps'[i]) = {}
    BY <1>3, <1>6, MapAssumption DEF NewSubmap, Occupied, Valid
  <2>4. Cardinality({}) = 0
    BY FS_EmptySet
  <2>5. /\ Cardinality(Inside({"publish", "count"}, i)') = 0 /\ Cardinality(Inside({"count"}, i)') = 0
        /\ Cardinality(Inside({"probe", "publish", "count"}, i)') = 0
        /\ Cardinality(Occupied(submaps'[i])) = 0 /\ Cardinality(Valid(submaps'[i])) = 0
    BY <2>2, <2>3, <2>4, Zenon
  <2>6. /\ Cardinality(Inserters) \in Nat /\ LoadDen \in Nat /\ LoadNum \in Nat /\ LoadNum > 0
    BY MapAssumption, FS_CardinalityType
  <2>7. LoadNum * c > 0 /\ Cardinality(Inserters) * LoadDen \in Nat
    BY <1>1, <2>6
  <2>8. (0 + 0) * LoadDen < LoadNum * c + Cardinality(Inserters) * LoadDen
    BY <1>1, <2>6, <2>7
  <2>9. (submaps'[i].num_valid + Cardinality(Inside({"probe", "publish", "count"}, i)')) * LoadDen
           < LoadNum * submaps'[i].capacity + Cardinality(Inserters) * LoadDen
    BY <2>3, <2>5, <2>8
  <2>10. /\ Cardinality(Occupied(submaps'[i]))
              = submaps'[i].num_valid + Cardinality(Inside({"publish", "count"}, i)')
         /\ Cardinality(Valid(submaps'[i]))
              = submaps'[i].num_valid + Cardinality(Inside({"count"}, i)')
    BY <2>3, <2>5
  <2> QED BY <2>9, <2>10 DEF SubmapCounts
<1>7. \A i \in 1 .. Len(submaps') : i \in 1 .. Len(submaps) \/ i = Len(submaps) + 1
  BY <1>3
<1> QED BY <1>5, <1>6, <1>7 DEF CountsOK

LEMMA CountsNext == ASSUME Inv, CountsOK, [Next]_vars PROVE CountsOK'
<1>1. Inv'
  BY InvNext
<1>2. \A i \in 1 .. Len(submaps) : SubmapCounts(i)
  BY DEF CountsOK
<1>3. Len(submaps') = Len(submaps) /\ (\A i \in 1 .. Len(submaps) : SubmapCounts(i)') => CountsOK'
  BY DEF CountsOK
<1>4. TypedMap(submaps)
  BY DEF Inv
<1>5. CASE Quiet
  BY <1>1, <1>2, <1>3, <1>5, QuietCounts DEF Quiet
<1>6. ASSUME NEW t \in Inserters, Passes(t) PROVE CountsOK'
  BY <1>1, <1>2, <1>3, <1>6, PassesCounts DEF Passes
<1>7. ASSUME NEW t \in Inserters, Claims(t) \/ Publishes(t) PROVE CountsOK'
  <2>1. Len(submaps) \in Nat /\ 1 \in 1 .. Len(submaps)
    BY <1>4 DEF TypedMap
  <2>2. \A i \in 1 .. Len(submaps) : Len(submaps') = Len(submaps) /\ SubmapCounts(i)'
    BY <1>1, <1>2, <1>7, BucketCounts
  <2> QED BY <1>3, <2>1, <2>2
<1>9. ASSUME NEW t \in Inserters, CountsSubmap(t) PROVE CountsOK'
  <2>1. Len(submaps') = Len(submaps)
    BY <1>4, <1>9 DEF CountsSubmap, TypedMap
  <2> QED BY <1>1, <1>2, <1>3, <1>9, <2>1, CountsSubmapCounts
<1>10. ASSUME NEW t \in Inserters, CountsEntry(t) PROVE CountsOK'
  <2>1. /\ OthersStay(t) /\ submaps' = submaps /\ thread[t].pc = "entries" /\ thread'[t].pc = "idle"
    BY <1>10 DEF CountsEntry
  <2>2. \A i \in 1 .. Len(submaps) : SubmapCounts(i)'
    BY <1>1, <1>2, <2>1, ElsewhereCounts
  <2> QED BY <1>3, <2>1, <2>2
<1>11. ASSUME NEW t \in Inserters, Expands(t) PROVE CountsOK'
  BY <1>1, <1>11, ExpandsCounts
<1> QED BY <1>5, <1>6, <1>7, <1>9, <1>10, <1>11, Effects

LEMMA CountsHold == Spec => [](Inv /\ CountsOK)
<1>1. Init => Inv /\ CountsOK
  BY InvInit, CountsInit
<1>2. Inv /\ CountsOK /\ [Next]_vars => (Inv /\ CountsOK)'
  BY InvNext, CountsNext
<1> QED BY <1>1, <1>2, PTL DEF Spec

(* No submap is filled beyond the load factor by more than one bucket for each
   inserter. *)
THEOREM LoadIsBounded == Spec => []LoadBounded
<1>1. ASSUME Inv, CountsOK PROVE LoadBounded
  <2> SUFFICES ASSUME NEW i \in 1 .. Len(submaps)
               PROVE  Cardinality(Occupied(submaps[i])) * LoadDen
                        < LoadNum * submaps[i].capacity + Cardinality(Inserters) * LoadDen
    BY DEF LoadBounded
  <2>1. Inside({"publish", "count"}, i) \subseteq Inside({"probe", "publish", "count"}, i)
    BY DEF Inside
  <2>2. /\ IsFiniteSet(Inside({"probe", "publish", "count"}, i))
        /\ Cardinality(Inside({"publish", "count"}, i)) \in Nat
        /\ Booked(i) \in Nat /\ submaps[i].num_valid \in Nat
        /\ submaps[i].capacity \in Nat /\ Cardinality(Inserters) \in Nat
        /\ Cardinality(Inside({"probe", "publish", "count"}, i)) \in Nat
    BY <1>1, BookedNatural
  <2>3. Cardinality(Inside({"publish", "count"}, i))
          <= Cardinality(Inside({"probe", "publish", "count"}, i))
    BY <2>1, <2>2, FS_Subset
  <2>4. SubmapCounts(i)
    BY <1>1 DEF CountsOK
  <2>5. Cardinality(Occupied(submaps[i]))
          = submaps[i].num_valid + Cardinality(Inside({"publish", "count"}, i))
    BY <2>4 DEF SubmapCounts
  <2>6. Cardinality(Occupied(submaps[i])) <= Booked(i) /\ Cardinality(Occupied(submaps[i])) \in Nat
    BY <2>2, <2>3, <2>5 DEF Booked
  <2>7. Booked(i) * LoadDen < LoadNum * submaps[i].capacity + Cardinality(Inserters) * LoadDen
    BY <2>4 DEF SubmapCounts, Booked
  <2> QED BY <2>2, <2>6, <2>7, BoundKept
<1> QED BY <1>1, CountsHold, PTL

-----------------------------------------------------------------------------
(* The counters' sums over the submaps. *)

CountTerms(ss) == [i \in 1 .. Len(ss) |-> ss[i].num_valid]
ValidTerms(ss) == [i \in 1 .. Len(ss) |-> Cardinality(Valid(ss[i]))]

Counted(ss) == UpTo(CountTerms(ss), Len(ss))
Entered(ss) == UpTo(ValidTerms(ss), Len(ss))

(* What is entered and not yet counted is in the hands of an inserter. *)
TotalsOK ==
  /\ Entered(submaps)[Len(submaps)] = num_entries + Counting("count") + Counting("entries")
  /\ Counted(submaps)[Len(submaps)] = num_entries + Counting("entries")

LEMMA TermsAreNatural ==
  ASSUME NEW ss, TypedMap(ss)
  PROVE  /\ Len(ss) \in Nat /\ Len(ss) >= 1
         /\ \A i \in 1 .. Len(ss) : /\ CountTerms(ss)[i] = ss[i].num_valid
                                    /\ ValidTerms(ss)[i] = Cardinality(Valid(ss[i]))
                                    /\ CountTerms(ss)[i] \in Nat /\ ValidTerms(ss)[i] \in Nat
         /\ IsSum(Counted(ss), CountTerms(ss), Len(ss))
         /\ IsSum(Entered(ss), ValidTerms(ss), Len(ss))
         /\ Counted(ss)[Len(ss)] \in Nat /\ Entered(ss)[Len(ss)] \in Nat
<1>1. Len(ss) \in Nat /\ Len(ss) >= 1 /\ Len(ss) \in 0 .. Len(ss)
  BY DEF TypedMap
<1>2. ASSUME NEW i \in 1 .. Len(ss)
      PROVE  /\ CountTerms(ss)[i] = ss[i].num_valid
             /\ ValidTerms(ss)[i] = Cardinality(Valid(ss[i]))
             /\ CountTerms(ss)[i] \in Nat /\ ValidTerms(ss)[i] \in Nat
  <2>1. TypedSubmap(ss[i]) /\ ss[i].num_valid \in Nat
    BY DEF TypedMap, TypedSubmap, Submap
  <2>2. Cardinality(Valid(ss[i])) \in Nat
    BY <2>1, BucketsFinite
  <2> QED BY <2>1, <2>2 DEF CountTerms, ValidTerms
<1>3. /\ IsSum(Counted(ss), CountTerms(ss), Len(ss))
      /\ IsSum(Entered(ss), ValidTerms(ss), Len(ss))
  BY <1>1, UpToIsSum DEF Counted, Entered
<1>4. /\ \A i \in 0 .. Len(ss) : Counted(ss)[i] \in Nat
      /\ \A i \in 0 .. Len(ss) : Entered(ss)[i] \in Nat
  <2>1. /\ \A i \in 1 .. Len(ss) : CountTerms(ss)[i] \in Nat
        /\ \A i \in 1 .. Len(ss) : ValidTerms(ss)[i] \in Nat
    BY <1>2
  <2> QED BY <1>1, <1>3, <2>1, SumNatural
<1> QED BY <1>1, <1>2, <1>3, <1>4

LEMMA CountingMoves ==
  ASSUME NEW t \in Inserters, OthersStay(t), NEW pc
  PROVE  /\ Counting(pc) \in Nat /\ Counting(pc)' \in Nat
         /\ Counting(pc)' = Counting(pc) + (IF thread'[t].pc = pc THEN 1 ELSE 0)
                                         - (IF thread[t].pc = pc THEN 1 ELSE 0)
<1> DEFINE S == {u \in Inserters : thread[u].pc = pc}
           T == {u \in Inserters : thread'[u].pc = pc}
<1>1. /\ S \subseteq Inserters /\ T \subseteq Inserters
      /\ t \in S <=> thread[t].pc = pc
      /\ t \in T <=> thread'[t].pc = pc
      /\ \A u \in Inserters \ {t} : u \in T <=> u \in S
  BY DEF OthersStay
<1>2. Counting(pc) = Cardinality(S) /\ Counting(pc)' = Cardinality(T)
  BY DEF Counting
<1> HIDE DEF S, T
<1>3. /\ Cardinality(S) \in Nat /\ Cardinality(T) \in Nat
      /\ Cardinality(T) = Cardinality(S) + (IF t \in T THEN 1 ELSE 0)
                                         - (IF t \in S THEN 1 ELSE 0)
  BY <1>1, OneMoves
<1> QED BY <1>1, <1>2, <1>3

(* A map whose submaps have the same counts. *)
LEMMA SameTotals ==
  ASSUME NEW ss, NEW tt, TypedMap(ss), TypedMap(tt), Len(tt) = Len(ss)
  PROVE  /\ (\A i \in 1 .. Len(ss) : tt[i].num_valid = ss[i].num_valid)
              => Counted(tt)[Len(tt)] = Counted(ss)[Len(ss)]
         /\ (\A i \in 1 .. Len(ss) : Cardinality(Valid(tt[i])) = Cardinality(Valid(ss[i])))
              => Entered(tt)[Len(tt)] = Entered(ss)[Len(ss)]
<1>1. /\ Len(ss) \in Nat /\ Len(ss) <= Len(ss) /\ Len(ss) \in 0 .. Len(ss)
      /\ IsSum(Counted(ss), CountTerms(ss), Len(ss)) /\ IsSum(Entered(ss), ValidTerms(ss), Len(ss))
      /\ \A i \in 1 .. Len(ss) : CountTerms(ss)[i] \in Nat
      /\ \A i \in 1 .. Len(ss) : ValidTerms(ss)[i] \in Nat
      /\ IsSum(Counted(tt), CountTerms(tt), Len(ss)) /\ IsSum(Entered(tt), ValidTerms(tt), Len(ss))
  BY TermsAreNatural
<1>2. ASSUME \A i \in 1 .. Len(ss) : tt[i].num_valid = ss[i].num_valid
      PROVE  Counted(tt)[Len(tt)] = Counted(ss)[Len(ss)]
  <2>1. \A i \in 1 .. Len(ss) : CountTerms(ss)[i] = CountTerms(tt)[i]
    BY <1>2, TermsAreNatural
  <2>2. \A i \in 0 .. Len(ss) : Counted(ss)[i] = Counted(tt)[i]
    BY <1>1, <2>1, SumSame
  <2> QED BY <1>1, <2>2
<1>3. ASSUME \A i \in 1 .. Len(ss) : Cardinality(Valid(tt[i])) = Cardinality(Valid(ss[i]))
      PROVE  Entered(tt)[Len(tt)] = Entered(ss)[Len(ss)]
  <2>1. \A i \in 1 .. Len(ss) : ValidTerms(ss)[i] = ValidTerms(tt)[i]
    BY <1>3, TermsAreNatural
  <2>2. \A i \in 0 .. Len(ss) : Entered(ss)[i] = Entered(tt)[i]
    BY <1>1, <2>1, SumSame
  <2> QED BY <1>1, <2>2
<1> QED BY <1>2, <1>3

(* A map one of whose submaps has one more. *)
LEMMA OneMoreInTotal ==
  ASSUME NEW ss, NEW tt, TypedMap(ss), TypedMap(tt), Len(tt) = Len(ss), NEW j \in 1 .. Len(ss)
  PROVE  /\ (/\ tt[j].num_valid = ss[j].num_valid + 1
             /\ \A i \in 1 .. Len(ss) : i # j => tt[i].num_valid = ss[i].num_valid)
              => Counted(tt)[Len(tt)] = Counted(ss)[Len(ss)] + 1
         /\ (/\ Cardinality(Valid(tt[j])) = Cardinality(Valid(ss[j])) + 1
             /\ \A i \in 1 .. Len(ss) :
                  i # j => Cardinality(Valid(tt[i])) = Cardinality(Valid(ss[i])))
              => Entered(tt)[Len(tt)] = Entered(ss)[Len(ss)] + 1
<1>1. /\ Len(ss) \in Nat
      /\ IsSum(Counted(ss), CountTerms(ss), Len(ss)) /\ IsSum(Entered(ss), ValidTerms(ss), Len(ss))
      /\ \A i \in 1 .. Len(ss) : CountTerms(ss)[i] \in Nat
      /\ \A i \in 1 .. Len(ss) : ValidTerms(ss)[i] \in Nat
      /\ IsSum(Counted(tt), CountTerms(tt), Len(ss)) /\ IsSum(Entered(tt), ValidTerms(tt), Len(ss))
  BY TermsAreNatural
<1>2. /\ \A i \in 1 .. Len(ss) : CountTerms(ss)[i] = ss[i].num_valid
      /\ \A i \in 1 .. Len(ss) : CountTerms(tt)[i] = tt[i].num_valid
      /\ \A i \in 1 .. Len(ss) : ValidTerms(ss)[i] = Cardinality(Valid(ss[i]))
      /\ \A i \in 1 .. Len(ss) : ValidTerms(tt)[i] = Cardinality(Valid(tt[i]))
  BY TermsAreNatural
<1>3. ASSUME tt[j].num_valid = ss[j].num_valid + 1,
             \A i \in 1 .. Len(ss) : i # j => tt[i].num_valid = ss[i].num_valid
      PROVE  Counted(tt)[Len(tt)] = Counted(ss)[Len(ss)] + 1
  <2>1. /\ CountTerms(tt)[j] = CountTerms(ss)[j] + 1
        /\ \A i \in 1 .. Len(ss) : i # j => CountTerms(tt)[i] = CountTerms(ss)[i]
    BY <1>2, <1>3
  <2> QED BY <1>1, <2>1, SumOneMore
<1>4. ASSUME Cardinality(Valid(tt[j])) = Cardinality(Valid(ss[j])) + 1,
             \A i \in 1 .. Len(ss) : i # j => Cardinality(Valid(tt[i])) = Cardinality(Valid(ss[i]))
      PROVE  Entered(tt)[Len(tt)] = Entered(ss)[Len(ss)] + 1
  <2>1. /\ ValidTerms(tt)[j] = ValidTerms(ss)[j] + 1
        /\ \A i \in 1 .. Len(ss) : i # j => ValidTerms(tt)[i] = ValidTerms(ss)[i]
    BY <1>2, <1>4
  <2> QED BY <1>1, <2>1, SumOneMore
<1> QED BY <1>3, <1>4

(* A map with an empty submap appended. *)
LEMMA SameWithNewSubmap ==
  ASSUME NEW ss, TypedMap(ss), NEW c \in Nat, c > 2, NEW tt, tt = Append(ss, NewSubmap(c)),
         TypedMap(tt)
  PROVE  /\ Counted(tt)[Len(tt)] = Counted(ss)[Len(ss)]
         /\ Entered(tt)[Len(tt)] = Entered(ss)[Len(ss)]
<1> DEFINE n == Len(ss)
<1>1. /\ n \in Nat /\ n <= n + 1 /\ n \in 0 .. n /\ Len(tt) = n + 1 /\ n + 1 \in 1 .. n + 1
      /\ (n + 1) - 1 = n /\ 1 .. n \subseteq 1 .. n + 1
      /\ tt[n + 1] = NewSubmap(c) /\ \A i \in 1 .. n : tt[i] = ss[i]
  BY DEF TypedMap
<1>2. /\ IsSum(Counted(ss), CountTerms(ss), n) /\ IsSum(Entered(ss), ValidTerms(ss), n)
      /\ \A i \in 1 .. n : CountTerms(ss)[i] \in Nat
      /\ \A i \in 1 .. n : ValidTerms(ss)[i] \in Nat
      /\ IsSum(Counted(tt), CountTerms(tt), n + 1) /\ IsSum(Entered(tt), ValidTerms(tt), n + 1)
      /\ Counted(ss)[n] \in Nat /\ Entered(ss)[n] \in Nat
  BY <1>1, TermsAreNatural
<1>3. /\ \A i \in 1 .. n : CountTerms(ss)[i] = CountTerms(tt)[i]
      /\ \A i \in 1 .. n : ValidTerms(ss)[i] = ValidTerms(tt)[i]
  <2>1. /\ \A i \in 1 .. n : CountTerms(ss)[i] = ss[i].num_valid
        /\ \A i \in 1 .. n + 1 : CountTerms(tt)[i] = tt[i].num_valid
        /\ \A i \in 1 .. n : ValidTerms(ss)[i] = Cardinality(Valid(ss[i]))
        /\ \A i \in 1 .. n + 1 : ValidTerms(tt)[i] = Cardinality(Valid(tt[i]))
    BY <1>1, TermsAreNatural
  <2> QED BY <1>1, <2>1
<1>4. Counted(tt)[n] = Counted(ss)[n] /\ Entered(tt)[n] = Entered(ss)[n]
  <2>1. n + 1 \in Nat
    BY <1>1
  <2>2. \A i \in 0 .. n : Counted(ss)[i] = Counted(tt)[i]
    BY <1>1, <1>2, <1>3, <2>1, SumSame
  <2>3. \A i \in 0 .. n : Entered(ss)[i] = Entered(tt)[i]
    BY <1>1, <1>2, <1>3, <2>1, SumSame
  <2> QED BY <1>1, <2>2, <2>3
<1>5. CountTerms(tt)[n + 1] = 0 /\ ValidTerms(tt)[n + 1] = 0
  <2>1. tt[n + 1].num_valid = 0 /\ Valid(tt[n + 1]) = {}
    BY <1>1, MapAssumption DEF NewSubmap, Valid
  <2>2. /\ CountTerms(tt)[n + 1] = tt[n + 1].num_valid
        /\ ValidTerms(tt)[n + 1] = Cardinality(Valid(tt[n + 1]))
    BY <1>1, TermsAreNatural
  <2>3. Cardinality({}) = 0
    BY FS_EmptySet
  <2> QED BY <2>1, <2>2, <2>3, Zenon
<1>6. /\ Counted(tt)[n + 1] = Counted(tt)[n] + CountTerms(tt)[n + 1]
      /\ Entered(tt)[n + 1] = Entered(tt)[n] + ValidTerms(tt)[n + 1]
  BY <1>1, <1>2 DEF IsSum
<1> QED BY <1>1, <1>2, <1>4, <1>5, <1>6

(* Only the inserter that moves is counted elsewhere. *)
LEMMA SameCounting ==
  ASSUME NEW t \in Inserters, OthersStay(t), NEW pc, thread[t].pc # pc, thread'[t].pc # pc
  PROVE  Counting(pc)' = Counting(pc)
<1>1. Counting(pc) \in Nat
  BY CountingMoves
<1> QED BY <1>1, CountingMoves

LEMMA TotalsNext == ASSUME Inv, CountsOK, TotalsOK, [Next]_vars PROVE TotalsOK'
<1> DEFINE C == Counted(submaps)[Len(submaps)]
           E == Entered(submaps)[Len(submaps)]
           C1 == Counted(submaps')[Len(submaps')]
           E1 == Entered(submaps')[Len(submaps')]
           n == Counting("count")
           m == Counting("entries")
<1>1. TypedMap(submaps) /\ TypedMap(submaps')
  <2>1. Inv'
    BY InvNext
  <2> QED BY <2>1 DEF Inv
<1>2. E = num_entries + n + m /\ C = num_entries + m
  BY DEF TotalsOK
<1>3. E1 = num_entries' + n' + m' /\ C1 = num_entries' + m' => TotalsOK'
  BY DEF TotalsOK
<1>4. num_entries \in Nat
  BY DEF Inv
<1>5. CASE Quiet
  <2>1. /\ {t \in Inserters : thread'[t].pc = "count"} = {t \in Inserters : thread[t].pc = "count"}
        /\ {t \in Inserters : thread'[t].pc = "entries"} = {t \in Inserters : thread[t].pc = "entries"}
    BY <1>5 DEF Quiet, WorkPC
  <2>2. n' = n /\ m' = m
    BY <2>1 DEF Counting
  <2>3. submaps' = submaps /\ num_entries' = num_entries
    BY <1>5 DEF Quiet
  <2> HIDE DEF n, m
  <2> QED BY <1>2, <1>3, <2>2, <2>3
<1>6. ASSUME NEW t \in Inserters, Passes(t) PROVE TotalsOK'
  <2>1. /\ OthersStay(t) /\ thread[t].pc = "check" /\ thread'[t].pc = "probe"
        /\ submaps' = submaps /\ num_entries' = num_entries
    BY <1>6 DEF Passes
  <2>2. n' = n /\ m' = m
    BY <2>1, SameCounting
  <2> HIDE DEF n, m
  <2> QED BY <1>2, <1>3, <2>1, <2>2
<1>7. ASSUME NEW t \in Inserters, Claims(t) PROVE TotalsOK'
  <2>1. /\ OthersStay(t) /\ thread[t].pc = "probe" /\ thread'[t].pc = "publish"
        /\ SetsBucket(t, EMPTY, BUSY) /\ thread[t].sub \in 1 .. Len(submaps)
        /\ num_entries' = num_entries
    BY <1>7 DEF Claims, Moves, SetsBucket
  <2>2. n' = n /\ m' = m
    BY <2>1, SameCounting
  <2>3. PICK j : j = thread[t].sub
    OBVIOUS
  <2>4. /\ EMPTY \in {EMPTY, BUSY} /\ BUSY \in {BUSY} \cup Key /\ BUSY \notin Key
        /\ thread[t].sub = j /\ j \in 1 .. Len(submaps)
    BY <2>1, <2>3, MapAssumption
  <2>5. /\ Len(submaps') = Len(submaps)
        /\ \A l \in 1 .. Len(submaps) : l # j => submaps'[l] = submaps[l]
        /\ submaps'[j].num_valid = submaps[j].num_valid
        /\ Cardinality(Valid(submaps[j])) \in Nat
        /\ Cardinality(Valid(submaps'[j])) = Cardinality(Valid(submaps[j])) + 0
    BY <2>1, <2>4, SetsBucketCounts
  <2>6. /\ \A i \in 1 .. Len(submaps) : submaps'[i].num_valid = submaps[i].num_valid
        /\ \A i \in 1 .. Len(submaps) : Cardinality(Valid(submaps'[i])) = Cardinality(Valid(submaps[i]))
    BY <2>5
  <2>7. C1 = C /\ E1 = E
    BY <1>1, <2>5, <2>6, SameTotals
  <2> HIDE DEF n, m, C, E, C1, E1
  <2> QED BY <1>2, <1>3, <2>1, <2>2, <2>7
<1>8. ASSUME NEW t \in Inserters, Publishes(t) PROVE TotalsOK'
  <2>1. PICK k \in Key :
        /\ OthersStay(t) /\ thread[t].pc = "publish" /\ thread'[t].pc = "count"
        /\ SetsBucket(t, BUSY, k) /\ thread[t].sub \in 1 .. Len(submaps)
        /\ num_entries' = num_entries
    BY <1>8 DEF Publishes, Moves, SetsBucket
  <2>2. n' = n + 1 /\ m' = m /\ n \in Nat /\ m \in Nat
    BY <2>1, CountingMoves, SameCounting
  <2>3. PICK j : j = thread[t].sub
    OBVIOUS
  <2>4. /\ BUSY \in {EMPTY, BUSY} /\ k \in {BUSY} \cup Key
        /\ thread[t].sub = j /\ j \in 1 .. Len(submaps)
    BY <2>1, <2>3
  <2>5. /\ Len(submaps') = Len(submaps)
        /\ \A l \in 1 .. Len(submaps) : l # j => submaps'[l] = submaps[l]
        /\ submaps'[j].num_valid = submaps[j].num_valid
        /\ Cardinality(Valid(submaps[j])) \in Nat
        /\ Cardinality(Valid(submaps'[j])) = Cardinality(Valid(submaps[j])) + 1
    BY <2>1, <2>4, SetsBucketCounts
  <2>6. /\ \A i \in 1 .. Len(submaps) : submaps'[i].num_valid = submaps[i].num_valid
        /\ \A i \in 1 .. Len(submaps) :
             i # j => Cardinality(Valid(submaps'[i])) = Cardinality(Valid(submaps[i]))
    BY <2>5
  <2>7. C1 = C
    BY <1>1, <2>5, <2>6, SameTotals
  <2>8. E1 = E + 1
    BY <1>1, <2>4, <2>5, <2>6, OneMoreInTotal
  <2> HIDE DEF n, m, C, E, C1, E1
  <2> QED BY <1>2, <1>3, <1>4, <2>1, <2>2, <2>7, <2>8
<1>9. ASSUME NEW t \in Inserters, CountsSubmap(t) PROVE TotalsOK'
  <2>1. PICK j : j = thread[t].sub
    OBVIOUS
  <2>2. /\ OthersStay(t) /\ thread[t].pc = "count" /\ thread'[t].pc = "entries"
        /\ j \in 1 .. Len(submaps) /\ num_entries' = num_entries
        /\ submaps' = [submaps EXCEPT ![j].num_valid = @ + 1]
    BY <1>9, <2>1 DEF CountsSubmap, Moves
  <2>3. n' = n - 1 /\ m' = m + 1 /\ n \in Nat /\ m \in Nat
    <3>1. n \in Nat /\ n' = n + 0 - 1
      BY <2>2, CountingMoves
    <3>2. m \in Nat /\ m' = m + 1 - 0
      BY <2>2, CountingMoves
    <3> HIDE DEF n, m
    <3> QED BY <3>1, <3>2
  <2>4. /\ submaps \in Seq(Submap) /\ submaps[j] \in Submap
    BY <1>1, <2>2 DEF TypedMap, TypedSubmap
  <2>5. /\ Len(submaps') = Len(submaps)
        /\ \A l \in 1 .. Len(submaps) : l # j => submaps'[l] = submaps[l]
        /\ submaps'[j].num_valid = submaps[j].num_valid + 1
        /\ submaps'[j].buckets = submaps[j].buckets
    BY <2>2, <2>4 DEF Submap
  <2>6. /\ \A i \in 1 .. Len(submaps) : i # j => submaps'[i].num_valid = submaps[i].num_valid
        /\ \A i \in 1 .. Len(submaps) : Cardinality(Valid(submaps'[i])) = Cardinality(Valid(submaps[i]))
    BY <2>5 DEF Valid
  <2>7. C1 = C + 1
    BY <1>1, <2>2, <2>5, <2>6, OneMoreInTotal
  <2>8. E1 = E
    BY <1>1, <2>5, <2>6, SameTotals
  <2> HIDE DEF n, m, C, E, C1, E1
  <2> QED BY <1>2, <1>3, <1>4, <2>2, <2>3, <2>7, <2>8
<1>10. ASSUME NEW t \in Inserters, CountsEntry(t) PROVE TotalsOK'
  <2>1. /\ OthersStay(t) /\ thread[t].pc = "entries" /\ thread'[t].pc = "idle"
        /\ submaps' = submaps /\ num_entries' = num_entries + 1
    BY <1>10 DEF CountsEntry
  <2>2. n' = n /\ m' = m + 0 - 1 /\ m \in Nat /\ n \in Nat
    <3>1. n' = n /\ n \in Nat
      BY <2>1, SameCounting, CountingMoves
    <3>2. m \in Nat /\ m' = m + 0 - 1
      BY <2>1, CountingMoves
    <3> QED BY <3>1, <3>2
  <2> HIDE DEF n, m
  <2> QED BY <1>2, <1>3, <1>4, <2>1, <2>2
<1>11. ASSUME NEW t \in Inserters, Expands(t) PROVE TotalsOK'
  <2>1. PICK c \in Nat : c > 2 /\ submaps' = Append(submaps, NewSubmap(c))
    BY <1>11 DEF Expands
  <2>2. /\ OthersStay(t) /\ thread[t].pc = "expand" /\ thread'[t].pc = "last"
        /\ num_entries' = num_entries
    BY <1>11 DEF Expands
  <2>3. n' = n /\ m' = m
    BY <2>2, SameCounting
  <2>4. C1 = C /\ E1 = E
    BY <1>1, <2>1, SameWithNewSubmap
  <2> HIDE DEF n, m, C, E, C1, E1
  <2> QED BY <1>2, <1>3, <2>2, <2>3, <2>4
<1> QED BY <1>5, <1>6, <1>7, <1>8, <1>9, <1>10, <1>11, Effects

LEMMA TotalsInit == Init => TotalsOK
<1> SUFFICES ASSUME Init PROVE TotalsOK
  OBVIOUS
<1>1. /\ TypedMap(submaps) /\ Len(submaps) = 1 /\ submaps[1] = NewSubmap(FirstCapacity)
  BY InvInit DEF Inv, Init
<1>2. submaps[1].num_valid = 0 /\ Valid(submaps[1]) = {}
  BY <1>1, MapAssumption DEF NewSubmap, Valid
<1>3. Cardinality({}) = 0
  BY FS_EmptySet
<1>4. Cardinality(Valid(submaps[1])) = 0
  BY <1>2, <1>3, Zenon
<1>5. CountTerms(submaps)[1] = 0 /\ ValidTerms(submaps)[1] = 0
  <2>1. 1 \in 1 .. Len(submaps)
    BY <1>1
  <2> QED BY <1>1, <1>2, <1>4, <2>1, TermsAreNatural
<1>6. Counted(submaps)[1] = 0 /\ Entered(submaps)[1] = 0
  <2>1. /\ IsSum(Counted(submaps), CountTerms(submaps), 1)
        /\ IsSum(Entered(submaps), ValidTerms(submaps), 1)
    BY <1>1, TermsAreNatural
  <2> QED BY <1>5, <2>1 DEF IsSum
<1>7. /\ {t \in Inserters : thread[t].pc = "count"} = {}
      /\ {t \in Inserters : thread[t].pc = "entries"} = {}
  BY DEF Init, Threads, Idle
<1>8. Counting("count") = 0 /\ Counting("entries") = 0
  BY <1>3, <1>7, Zenon DEF Counting
<1>9. num_entries = 0
  BY DEF Init
<1> QED BY <1>1, <1>6, <1>8, <1>9 DEF TotalsOK

LEMMA TotalsHold == Spec => [](Inv /\ CountsOK /\ TotalsOK)
<1>1. Init => Inv /\ CountsOK /\ TotalsOK
  BY InvInit, CountsInit, TotalsInit
<1>2. Inv /\ CountsOK /\ TotalsOK /\ [Next]_vars => (Inv /\ CountsOK /\ TotalsOK)'
  BY InvNext, CountsNext, TotalsNext
<1> QED BY <1>1, <1>2, PTL DEF Spec

(* size() and the submaps' counters miss exactly the entries of the inserts
   that have not counted them yet. *)
LEMMA LagHolds == ASSUME Inv, CountsOK, TotalsOK PROVE CountersLag
<1>1. TypedMap(submaps)
  BY DEF Inv
<1>2. /\ Len(submaps) \in Nat /\ Len(submaps) <= Len(submaps) /\ Len(submaps) \in 0 .. Len(submaps)
      /\ IsSum(Entered(submaps), ValidTerms(submaps), Len(submaps))
      /\ \A i \in 1 .. Len(submaps) : ValidTerms(submaps)[i] \in Nat
      /\ \A i \in 1 .. Len(submaps) : ValidTerms(submaps)[i] = Cardinality(Valid(submaps[i]))
  BY <1>1, TermsAreNatural
<1>3. IsSum(EntriesUpTo, ValidTerms(submaps), Len(submaps))
  <2> DEFINE g == [i \in 1 .. Len(submaps) |-> Cardinality(Valid(submaps[i]))]
  <2>1. PICK f : f = [i \in 0 .. Len(submaps) |-> IF i = 0 THEN 0 ELSE f[i - 1] + g[i]]
    BY <1>2, SumExists
  <2>2. f = [i \in 0 .. Len(submaps) |->
               IF i = 0 THEN 0 ELSE f[i - 1] + Cardinality(Valid(submaps[i]))]
    <3>1. \A i \in 0 .. Len(submaps) : i # 0 => g[i] = Cardinality(Valid(submaps[i]))
      BY <1>2
    <3> HIDE DEF g
    <3> QED BY <2>1, <3>1
  <2>3. EntriesUpTo = [i \in 0 .. Len(submaps) |->
               IF i = 0 THEN 0 ELSE EntriesUpTo[i - 1] + Cardinality(Valid(submaps[i]))]
    BY <2>2 DEF EntriesUpTo
  <2>4. EntriesUpTo[0] = 0
    BY <1>2, <2>3
  <2>5. ASSUME NEW i \in 1 .. Len(submaps)
        PROVE  EntriesUpTo[i] = EntriesUpTo[i - 1] + ValidTerms(submaps)[i]
    <3>1. i \in 0 .. Len(submaps) /\ i # 0
      BY <1>2
    <3> QED BY <1>2, <2>3, <3>1
  <2> QED BY <2>4, <2>5 DEF IsSum
<1>4. \A i \in 0 .. Len(submaps) : Entered(submaps)[i] = EntriesUpTo[i]
  BY <1>2, <1>3, SumSame
<1>5. EntriesUpTo[Len(submaps)] = num_entries + Counting("count") + Counting("entries")
  BY <1>2, <1>4 DEF TotalsOK
<1>6. \A i \in 1 .. Len(submaps) :
        Cardinality(Valid(submaps[i]))
          = submaps[i].num_valid
            + Cardinality({t \in Inserters : thread[t].pc = "count" /\ thread[t].sub = i})
  <2> SUFFICES ASSUME NEW i \in 1 .. Len(submaps)
               PROVE  Cardinality(Valid(submaps[i]))
                        = submaps[i].num_valid
                          + Cardinality({t \in Inserters : thread[t].pc = "count" /\ thread[t].sub = i})
    OBVIOUS
  <2>1. Inside({"count"}, i) = {t \in Inserters : thread[t].pc = "count" /\ thread[t].sub = i}
    BY DEF Inside
  <2> QED BY <2>1 DEF CountsOK, SubmapCounts
<1> QED BY <1>5, <1>6 DEF CountersLag

THEOREM CountersOnlyLag == Spec => []CountersLag
BY LagHolds, TotalsHold, PTL

-----------------------------------------------------------------------------
(* get_stats.  F sums up the floors of c over the submaps: what the inserts
   that had returned when it began had counted in them. *)
FloorSum(c, F) ==
  /\ F \in [Nat -> Int] /\ F[0] = 0
  /\ \A i \in Nat \ {0} : F[i] = F[i - 1] + Floor(c, i)
  /\ \A i \in Nat : i >= Len(c.floor) => F[i] = c.before

(* What it has read is between its floors and the counters as they are. *)
ReadOK(c, F) ==
  /\ c.last \in Len(c.floor) .. Len(submaps) /\ c.sub \in 1 .. c.last + 1
  /\ c.pc = (IF c.sub = c.last + 1 THEN "stats_read" ELSE "stats")
  /\ c.entries \in c.before .. num_entries
  /\ c.valid \in F[c.sub - 1] .. Counted(submaps)[c.sub - 1]

StatsOK(t) ==
  LET c == thread[t] IN
  c.pc \in {"stats", "stats_read"} =>
    /\ Len(c.floor) \in 1 .. Len(submaps) /\ c.before <= num_entries
    /\ c.last = 0 => c.pc = "stats" /\ c.valid = 0
    /\ \E F : FloorSum(c, F) /\ (c.last # 0 => ReadOK(c, F))

(* Counters only grow, and what is appended has a prime capacity and room. *)
CountersGrow ==
  /\ num_entries' >= num_entries
  /\ Len(submaps') = Len(submaps) \/ (Len(submaps') = Len(submaps) + 1 /\ Len(submaps) # MaxSubmaps)
  /\ \A i \in 1 .. Len(submaps) :
       /\ submaps'[i].num_valid >= submaps[i].num_valid
       /\ submaps'[i].capacity = submaps[i].capacity
  /\ \A i \in 1 .. Len(submaps') : i \in 1 .. Len(submaps) \/ is_prime(submaps'[i].capacity)

LEMMA StepCounters == ASSUME Inv, [Next]_vars PROVE CountersGrow
<1>0. TypedMap(submaps) /\ num_entries \in Nat
  BY DEF Inv
<1>1. /\ submaps \in Seq(Submap) /\ Len(submaps) \in Nat
      /\ \A i \in 1 .. Len(submaps) : submaps[i] \in Submap /\ submaps[i].num_valid \in Nat
  BY <1>0 DEF TypedMap, TypedSubmap, Submap
<1>2. num_entries' = num_entries \/ num_entries' = num_entries + 1
  BY Effects DEF Quiet, Passes, Claims, Publishes, SetsBucket, CountsSubmap, CountsEntry, Expands
<1>3. CASE submaps' = submaps
  BY <1>0, <1>1, <1>2, <1>3 DEF CountersGrow
<1>4. ASSUME NEW t \in Inserters, NEW old \in {EMPTY, BUSY}, NEW new \in {BUSY} \cup Key,
             SetsBucket(t, old, new), thread[t].sub \in 1 .. Len(submaps)
      PROVE  CountersGrow
  <2>1. PICK j : j = thread[t].sub
    OBVIOUS
  <2>2. thread[t].sub = j /\ j \in 1 .. Len(submaps)
    BY <1>4, <2>1
  <2>3. /\ Len(submaps') = Len(submaps)
        /\ \A l \in 1 .. Len(submaps) : l # j => submaps'[l] = submaps[l]
        /\ submaps'[j].num_valid = submaps[j].num_valid /\ submaps'[j].capacity = submaps[j].capacity
    BY <1>4, <2>2, SetsBucketCounts
  <2> QED BY <1>0, <1>1, <1>2, <2>3 DEF CountersGrow
<1>5. ASSUME NEW t \in Inserters, Claims(t) PROVE CountersGrow
  <2>1. /\ SetsBucket(t, EMPTY, BUSY) /\ thread[t].sub \in 1 .. Len(submaps)
        /\ EMPTY \in {EMPTY, BUSY} /\ BUSY \in {BUSY} \cup Key
    BY <1>5 DEF Claims, Moves
  <2> QED BY <1>4, <2>1
<1>6. ASSUME NEW t \in Inserters, Publishes(t) PROVE CountersGrow
  <2>1. PICK k \in Key : SetsBucket(t, BUSY, k)
    BY <1>6 DEF Publishes
  <2>2. /\ thread[t].sub \in 1 .. Len(submaps) /\ BUSY \in {EMPTY, BUSY} /\ k \in {BUSY} \cup Key
    BY <1>6 DEF Publishes, Moves
  <2> QED BY <1>4, <2>1, <2>2
<1>7. ASSUME NEW t \in Inserters, CountsSubmap(t) PROVE CountersGrow
  <2>1. PICK j : j = thread[t].sub
    OBVIOUS
  <2>2. j \in 1 .. Len(submaps) /\ submaps' = [submaps EXCEPT ![j].num_valid = @ + 1]
    BY <1>7, <2>1 DEF CountsSubmap, Moves
  <2>3. /\ Len(submaps') = Len(submaps)
        /\ \A l \in 1 .. Len(submaps) : l # j => submaps'[l] = submaps[l]
        /\ submaps'[j].num_valid = submaps[j].num_valid + 1
        /\ submaps'[j].capacity = submaps[j].capacity
    BY <1>1, <2>2 DEF Submap
  <2> QED BY <1>0, <1>1, <1>2, <2>3 DEF CountersGrow
<1>8. ASSUME NEW t \in Inserters, Expands(t) PROVE CountersGrow
  <2>1. PICK c \in Nat : is_prime(c) /\ submaps' = Append(submaps, NewSubmap(c))
    BY <1>8 DEF Expands
  <2>2. /\ Len(submaps') = Len(submaps) + 1 /\ Len(submaps) # MaxSubmaps
        /\ \A l \in 1 .. Len(submaps) : submaps'[l] = submaps[l]
        /\ submaps'[Len(submaps) + 1].capacity = c
    BY <1>1, <1>8, <2>1 DEF Expands, NewSubmap
  <2> QED BY <1>0, <1>1, <1>2, <2>1, <2>2 DEF CountersGrow
<1> QED BY <1>3, <1>5, <1>6, <1>7, <1>8, Effects DEF Quiet, Passes, CountsEntry

LEMMA ReaderSteps ==
  ASSUME Inv, [Next]_vars, NEW t \in Readers
  PROVE  \/ thread'[t] = thread[t]
         \/ UNCHANGED submaps /\ thread'[t].pc \notin {"stats", "stats_read"}
         \/ BeginStats(t) \/ Stats(t)
<1>0. thread \in [Threads -> Call] /\ t \in Threads /\ t \notin Inserters
  BY MapAssumption DEF Inv, Threads
<1>1. ASSUME NEW u \in Threads, u # t, \E e : thread' = [thread EXCEPT ![u] = e]
      PROVE  thread'[t] = thread[t]
  BY <1>0, <1>1
<1>2. ASSUME NEW u \in Inserters, InsertStep(u) \/ \E k \in Key : BeginInsert(u, k)
      PROVE  thread'[t] = thread[t]
  <2>1. u \in Threads /\ u # t
    BY <1>0 DEF Threads
  <2>2. CASE Look(u)
    BY <1>0, <2>1, <2>2 DEF Look, LookFound, LookOn, LookBelow, LookIn, Return, Goto, NextProbe
  <2>3. CASE Check(u)
    BY <1>0, <2>1, <2>3 DEF Check, Goto
  <2>4. CASE Probe(u)
    BY <1>0, <2>1, <2>4 DEF Probe, ProbeClaims, ProbeFinds, ProbeOn, Return, Goto, NextProbe
  <2>5. CASE expand(u)
    BY <1>0, <2>1, <2>5 DEF expand, ExpandUnderFlag, Goto
  <2>6. CASE ReadLast(u) \/ \E k \in Key : BeginInsert(u, k)
    BY <1>0, <2>1, <2>6 DEF ReadLast, BeginInsert
  <2>7. CASE Publish(u) \/ increment_num_valid_buckets(u) \/ incrementnum_entries(u)
    BY <1>0, <2>1, <2>7 DEF Publish, increment_num_valid_buckets, incrementnum_entries, Return, Goto
  <2> QED BY <1>2, <2>2, <2>3, <2>4, <2>5, <2>6, <2>7 DEF InsertStep
<1>3. ASSUME NEW u \in Readers, u # t,
             ReadStep(u) \/ BeginIteration(u) \/ BeginStats(u) \/ \E k \in Key : BeginFind(u, k)
      PROVE  thread'[t] = thread[t]
  <2>1. \E e : thread' = [thread EXCEPT ![u] = e]
    BY <1>3, StatsAlters DEF ReadStep, Look, LookFound, LookOn, LookBelow, LookIn, Seek,
                SeekBucket, SeekSubmap, ReturnEnd, Return, Goto, NextProbe, BeginIteration,
                BeginStats, BeginFind
  <2> QED BY <1>1, <1>3, <2>1 DEF Threads
<1>4. CASE Look(t)
  <2>1. thread[t].pc = "look"
    BY <1>4 DEF Look
  <2>2. thread'[t].pc \in {"look", "missed", "idle"}
    BY <1>0, <1>4, <2>1 DEF Look, LookFound, LookOn, LookBelow, LookIn, Return, Goto,
                            NextProbe, Idle, Call
  <2> QED BY <1>4, <2>2 DEF Look
<1>5. CASE Seek(t)
  <2>1. thread[t].pc = "seek"
    BY <1>5 DEF Seek
  <2>2. thread'[t].pc \in {"seek", "ended"}
    BY <1>0, <1>5, <2>1 DEF Seek, SeekBucket, SeekSubmap, Goto, Call
  <2> QED BY <1>5, <2>2 DEF Seek
<1>6. CASE ReturnEnd(t) \/ BeginIteration(t) \/ \E k \in Key : BeginFind(t, k)
  <2>1. CASE ReturnEnd(t)
    BY <1>0, <2>1 DEF ReturnEnd, Return, Idle
  <2>2. CASE BeginIteration(t)
    BY <1>0, <2>2 DEF BeginIteration, Idle
  <2>3. ASSUME NEW k \in Key, BeginFind(t, k) PROVE thread'[t].pc = "look"
    BY <1>0, <2>3 DEF BeginFind, Idle
  <2> QED BY <1>6, <2>1, <2>2, <2>3 DEF BeginFind
<1>7. CASE UNCHANGED vars
  BY <1>7 DEF vars
<1> QED BY <1>2, <1>3, <1>4, <1>5, <1>6, <1>7 DEF Next, ReadStep

(* What is still to be summed grows by as much as what is not. *)
LEMMA CountedGrows ==
  ASSUME Inv, Inv', CountersGrow, NEW l \in 0 .. Len(submaps), NEW m \in l .. Len(submaps)
  PROVE  /\ Counted(submaps)[l] \in Nat /\ Counted(submaps)[m] \in Nat
         /\ Counted(submaps')[l] \in Nat /\ Counted(submaps')[m] \in Nat
         /\ Counted(submaps)[m] - Counted(submaps)[l] <= Counted(submaps')[m] - Counted(submaps')[l]
<1> DEFINE f == Counted(submaps)
           g == CountTerms(submaps)
           e == Counted(submaps')
           h == CountTerms(submaps')
           k == Len(submaps)
           n == Len(submaps')
<1>1. TypedMap(submaps) /\ TypedMap(submaps')
  BY DEF Inv
<1>2. /\ k \in Nat /\ n \in Nat /\ k <= n
      /\ IsSum(f, g, k) /\ IsSum(e, h, n)
      /\ \A i \in 1 .. k : g[i] \in Nat
      /\ \A i \in 1 .. n : h[i] \in Nat
  BY <1>1, TermsAreNatural DEF CountersGrow
<1>3. \A i \in 1 .. k : g[i] <= h[i]
  <2>1. /\ \A i \in 1 .. k : g[i] = submaps[i].num_valid
        /\ \A i \in 1 .. n : h[i] = submaps'[i].num_valid
    BY <1>1, TermsAreNatural
  <2>2. \A i \in 1 .. k : submaps'[i].num_valid >= submaps[i].num_valid
    BY DEF CountersGrow
  <2> HIDE DEF g, h
  <2>3. \A i \in 1 .. k : i \in 1 .. n
    BY <1>2
  <2> QED BY <1>2, <2>1, <2>2, <2>3
<1> HIDE DEF f, g, e, h
<1>4. /\ \A i \in 0 .. k : f[i] \in Nat
      /\ \A i \in 0 .. n : e[i] \in Nat
  BY <1>2, SumNatural
<1>5. \A i \in l .. k : f[i] - f[l] <= e[i] - e[l]
  <2>1. \A i \in 1 .. k : l < i => g[i] <= h[i]
    BY <1>3
  <2> HIDE DEF k, n
  <2> QED BY <1>2, <2>1, SumGrows DEF k
<1> QED BY <1>2, <1>4, <1>5 DEF f, e

(* The inserters at "entries" have each counted in one submap: the submaps'
   counters less those are num_entries. *)
LEMMA FloorsSumUp ==
  ASSUME Inv, TotalsOK, NEW c, c.before = num_entries,
         c.floor = [i \in 1 .. Len(submaps) |-> Settled(i)]
  PROVE  \E F : FloorSum(c, F)
<1> DEFINE L == Len(submaps)
           C == Counted(submaps)
           H(i) == {u \in Inserters : thread[u].pc = "entries" /\ thread[u].sub \in 1 .. i}
           F == [i \in Nat |-> IF i <= L THEN C[i] - Cardinality(H(i)) ELSE num_entries]
<1>1. /\ L \in Nat /\ TypedMap(submaps) /\ num_entries \in Nat /\ Len(c.floor) = L
  BY DEF Inv, TypedMap
<1>2. /\ C[0] = 0 /\ C[L] = num_entries + Counting("entries")
      /\ \A i \in 1 .. L : C[i] = C[i - 1] + submaps[i].num_valid /\ submaps[i].num_valid \in Nat
      /\ \A i \in 0 .. L : C[i] \in Nat
  <2>1. /\ IsSum(C, CountTerms(submaps), L)
        /\ \A i \in 1 .. L : /\ CountTerms(submaps)[i] = submaps[i].num_valid
                             /\ CountTerms(submaps)[i] \in Nat
    BY <1>1, TermsAreNatural
  <2>2. \A i \in 0 .. L : C[i] \in Nat
    BY <1>1, <2>1, SumNatural
  <2> QED BY <2>1, <2>2 DEF IsSum, TotalsOK
<1>3. \A i \in Nat : IsFiniteSet(H(i)) /\ Cardinality(H(i)) \in Nat
  BY MapAssumption, FS_Subset, FS_CardinalityType
<1>4. Cardinality(H(0)) = 0
  <2>1. H(0) = {}
    OBVIOUS
  <2> QED BY <2>1, FS_EmptySet, Zenon
<1>5. ASSUME NEW i \in 1 .. L
      PROVE  /\ Cardinality(H(i)) = Cardinality(H(i - 1)) + Cardinality(Inside({"entries"}, i))
             /\ Settled(i) = submaps[i].num_valid - Cardinality(Inside({"entries"}, i))
             /\ Cardinality(Inside({"entries"}, i)) \in Nat
  <2>1. Inside({"entries"}, i) = {u \in Inserters : thread[u].pc = "entries" /\ thread[u].sub = i}
    BY DEF Inside
  <2>2. IsFiniteSet(Inside({"entries"}, i)) /\ Cardinality(Inside({"entries"}, i)) \in Nat
    BY MapAssumption, FS_Subset, FS_CardinalityType DEF Inside
  <2>3. i \in Nat /\ i - 1 \in Nat
    BY <1>1
  <2>4. H(i) = H(i - 1) \cup Inside({"entries"}, i)
    <3>1. \A x : x \in 1 .. i <=> x \in 1 .. i - 1 \/ x = i
      BY <2>3
    <3> QED BY <2>1, <3>1
  <2>5. H(i - 1) \cap Inside({"entries"}, i) = {}
    <3>1. i \notin 1 .. i - 1
      BY <2>3
    <3> QED BY <2>1, <3>1
  <2> HIDE DEF H
  <2>6. Cardinality(H(i)) = Cardinality(H(i - 1)) + Cardinality(Inside({"entries"}, i))
    <3>1. Cardinality({}) = 0
      BY FS_EmptySet
    <3>2. PICK A, B : A = H(i - 1) /\ B = Inside({"entries"}, i)
      OBVIOUS
    <3>3. IsFiniteSet(A) /\ IsFiniteSet(B) /\ Cardinality(A) \in Nat /\ Cardinality(B) \in Nat
      BY <1>3, <2>2, <2>3, <3>2
    <3>4. Cardinality(A \cup B) = Cardinality(A) + Cardinality(B) - Cardinality(A \cap B)
      BY <3>3, FS_Union
    <3>5. A \cup B = H(i) /\ Cardinality(A \cap B) = 0
      BY <2>4, <2>5, <3>1, <3>2, Zenon
    <3>6. Cardinality(A \cup B) = Cardinality(A) + Cardinality(B)
      BY <3>3, <3>4, <3>5
    <3> QED BY <3>2, <3>5, <3>6, Zenon
  <2> QED BY <2>1, <2>2, <2>6 DEF Settled
<1>6. Cardinality(H(L)) = Counting("entries")
  <2>1. \A u \in Inserters : thread[u].pc = "entries" => thread[u].sub \in 1 .. L
    BY DEF Inv, ThreadOK, CallOK, Threads
  <2>2. H(L) = {u \in Inserters : thread[u].pc = "entries"}
    BY <2>1
  <2> QED BY <2>2 DEF Counting
<1> HIDE DEF H, C
<1>7. /\ F \in [Nat -> Int] /\ F[0] = 0
      /\ \A i \in Nat : i >= L => F[i] = num_entries
  <2>0. \A i \in Nat : F[i] = IF i <= L THEN C[i] - Cardinality(H(i)) ELSE num_entries
    OBVIOUS
  <2>1. F[0] = 0
    BY <1>1, <1>2, <1>4
  <2>2. ASSUME NEW i \in Nat
        PROVE  (IF i <= L THEN C[i] - Cardinality(H(i)) ELSE num_entries) \in Int
    <3>1. CASE i <= L
      <4>1. C[i] \in Nat /\ Cardinality(H(i)) \in Nat
        BY <1>1, <1>2, <1>3, <3>1
      <4> QED BY <3>1, <4>1
    <3>2. CASE ~(i <= L)
      BY <1>1, <3>2
    <3> QED BY <3>1, <3>2
  <2>3. ASSUME NEW i \in Nat, i >= L PROVE F[i] = num_entries
    <3> HIDE DEF F
    <3>1. CASE i = L
      <4>1. F[L] = C[L] - Cardinality(H(L)) /\ Cardinality(H(L)) \in Nat
        BY <1>1, <1>3, <2>0
      <4> QED BY <1>1, <1>2, <1>6, <3>1, <4>1
    <3>2. CASE i # L
      BY <1>1, <2>0, <2>3, <3>2
    <3> QED BY <3>1, <3>2
  <2> QED BY <2>1, <2>2, <2>3
<1>8. ASSUME NEW i \in Nat \ {0} PROVE F[i] = F[i - 1] + Floor(c, i)
  <2>1. CASE i \in 1 .. L
    <3>1. Floor(c, i) = Settled(i)
      BY <1>1, <2>1 DEF Floor
    <3>2. F[i] = C[i] - Cardinality(H(i)) /\ F[i - 1] = C[i - 1] - Cardinality(H(i - 1))
      BY <1>1, <2>1
    <3>3. /\ C[i] \in Nat /\ C[i - 1] \in Nat /\ Cardinality(H(i)) \in Nat
          /\ Cardinality(H(i - 1)) \in Nat /\ submaps[i].num_valid \in Nat
          /\ C[i] = C[i - 1] + submaps[i].num_valid
      BY <1>1, <1>2, <1>3, <2>1
    <3> HIDE DEF F
    <3> QED BY <1>5, <2>1, <3>1, <3>2, <3>3
  <2>2. CASE i \notin 1 .. L
    <3>1. i >= L /\ i - 1 >= L /\ i - 1 \in Nat
      BY <1>1, <2>2
    <3>2. Floor(c, i) = 0
      BY <1>1, <2>2 DEF Floor
    <3> HIDE DEF F
    <3> QED BY <1>1, <1>7, <3>1, <3>2
  <2> QED BY <2>1, <2>2
<1> HIDE DEF F
<1> QED BY <1>1, <1>7, <1>8 DEF FloorSum

LEMMA StatsNext ==
  ASSUME Inv, CountsOK, TotalsOK, [Next]_vars, NEW t \in Readers, StatsOK(t)
  PROVE  StatsOK(t)'
<1> DEFINE c == thread[t]
           d == thread'[t]
           L == Len(submaps)
           M == Len(submaps')
<1>1. Inv' /\ CountersGrow
  BY InvNext, StepCounters
<1>2. /\ thread \in [Threads -> Call] /\ t \in Threads /\ num_entries \in Nat
      /\ TypedMap(submaps) /\ TypedMap(submaps') /\ num_entries' \in Nat
      /\ c \in Call /\ d \in Call /\ L \in Nat /\ M \in Nat /\ L <= M
      /\ num_entries <= num_entries'
  BY <1>1 DEF Inv, Threads, TypedMap, CountersGrow
<1>3. /\ c.entries \in Nat /\ c.valid \in Int /\ c.last \in Nat /\ c.sub \in Nat
      /\ c.before \in Nat /\ c.floor \in Floors /\ Len(c.floor) \in Nat
  BY <1>2 DEF Call, Floors
<1>4. CASE d = c
  <2>1. SUFFICES ASSUME c.pc \in {"stats", "stats_read"} PROVE StatsOK(t)'
    BY <1>4 DEF StatsOK
  <2>2. PICK F : /\ FloorSum(c, F) /\ (c.last # 0 => ReadOK(c, F))
                 /\ Len(c.floor) \in 1 .. L /\ c.before <= num_entries
                 /\ c.last = 0 => c.pc = "stats" /\ c.valid = 0
    BY <2>1 DEF StatsOK
  <2>3. ASSUME c.last # 0
        PROVE  /\ c.last \in Len(c.floor) .. M /\ c.entries \in c.before .. num_entries'
               /\ c.valid \in F[c.sub - 1] .. Counted(submaps')[c.sub - 1]
    <3>1. ReadOK(c, F)
      BY <2>2, <2>3
    <3>2. PICK m : m = c.sub - 1
      OBVIOUS
    <3>3. m \in 0 .. L /\ 0 \in 0 .. L /\ F[m] \in Int
      <4>1. c.sub \in 1 .. c.last + 1 /\ c.last \in Len(c.floor) .. L
        BY <3>1 DEF ReadOK
      <4>2. m \in 0 .. L /\ m \in Nat /\ 0 \in 0 .. L
        BY <1>2, <1>3, <3>2, <4>1
      <4> QED BY <2>2, <4>2 DEF FloorSum
    <3>4. /\ Counted(submaps)[m] \in Nat /\ Counted(submaps')[m] \in Nat
          /\ Counted(submaps)[0] \in Nat /\ Counted(submaps')[0] \in Nat
          /\ Counted(submaps)[m] - Counted(submaps)[0] <= Counted(submaps')[m] - Counted(submaps')[0]
      BY <1>1, <3>3, CountedGrows
    <3>5. Counted(submaps)[0] = 0 /\ Counted(submaps')[0] = 0
      BY <1>2, TermsAreNatural DEF IsSum
    <3>6. Counted(submaps)[m] <= Counted(submaps')[m]
      BY <3>4, <3>5
    <3>7. c.valid \in F[m] .. Counted(submaps')[m]
      <4>1. c.valid \in F[m] .. Counted(submaps)[m]
        BY <3>1, <3>2 DEF ReadOK
      <4> QED BY <1>3, <3>3, <3>4, <3>6, <4>1
    <3> QED BY <1>2, <1>3, <3>1, <3>2, <3>7 DEF ReadOK
  <2>4. c.last # 0 => ReadOK(c, F)'
    BY <1>4, <2>2, <2>3 DEF ReadOK
  <2>5. Len(c.floor) \in 1 .. M /\ c.before <= num_entries'
    BY <1>2, <1>3, <2>2
  <2> QED BY <1>4, <2>2, <2>4, <2>5 DEF StatsOK
<1>5. CASE d.pc \notin {"stats", "stats_read"}
  BY <1>5 DEF StatsOK
<1>6. CASE BeginStats(t)
  <2>1. /\ d.pc = "stats" /\ d.last = 0 /\ d.before = num_entries /\ d.valid = 0
        /\ d.floor = [i \in 1 .. L |-> Settled(i)]
        /\ num_entries' = num_entries /\ submaps' = submaps
    BY <1>2, <1>6 DEF BeginStats, Idle
  <2>2. PICK e : e = d
    OBVIOUS
  <2>3. PICK F : FloorSum(e, F)
    BY <2>1, <2>2, FloorsSumUp
  <2>4. Len(d.floor) = L /\ L >= 1
    BY <1>2, <2>1 DEF TypedMap
  <2> QED BY <1>2, <2>1, <2>2, <2>3, <2>4 DEF StatsOK
<1>7. CASE Stats(t)
  <2>1. submaps' = submaps /\ num_entries' = num_entries /\ c.pc = "stats"
    BY <1>7 DEF Stats
  <2>2. PICK F : /\ FloorSum(c, F) /\ (c.last # 0 => ReadOK(c, F))
                 /\ Len(c.floor) \in 1 .. L /\ c.before <= num_entries
                 /\ c.last = 0 => c.valid = 0
    BY <2>1 DEF StatsOK
  <2>3. /\ Counted(submaps)[0] = 0
        /\ \A i \in 1 .. L : /\ Counted(submaps)[i] = Counted(submaps)[i - 1] + submaps[i].num_valid
                             /\ submaps[i].num_valid \in Nat
        /\ \A i \in 0 .. L : Counted(submaps)[i] \in Nat
    <3>1. /\ IsSum(Counted(submaps), CountTerms(submaps), L)
          /\ \A i \in 1 .. L : /\ CountTerms(submaps)[i] = submaps[i].num_valid
                               /\ CountTerms(submaps)[i] \in Nat
      BY <1>2, TermsAreNatural
    <3>2. \A i \in 0 .. L : Counted(submaps)[i] \in Nat
      BY <1>2, <3>1, SumNatural
    <3> QED BY <3>1, <3>2 DEF IsSum
  <2>4. ASSUME c.last = 0, NEW e \in c.before .. num_entries, NEW l \in Len(c.floor) .. L,
               d = CallCounts(c, e, l)
        PROVE  StatsOK(t)'
    <3>1. e \in Nat /\ l \in Nat /\ l # 0
      BY <1>2, <1>3, <2>2
    <3>2. /\ d.pc = "stats" /\ d.before = c.before /\ d.floor = c.floor /\ d.valid = 0
          /\ d.entries = e /\ d.last = l /\ d.sub = 1
      BY <1>2, <2>1, <2>2, <2>4, <3>1 DEF CallCounts, Call
    <3>3. FloorSum(d, F)
      BY <2>2, <3>2 DEF FloorSum, Floor
    <3>4. F[0] = 0 /\ d.sub - 1 = 0 /\ 0 \in 0 .. Counted(submaps)[0]
      BY <2>2, <2>3, <3>2 DEF FloorSum
    <3>5. /\ d.sub \in 1 .. d.last + 1 /\ d.sub # d.last + 1
          /\ d.last \in Len(d.floor) .. Len(submaps') /\ d.entries \in d.before .. num_entries'
      BY <1>2, <1>3, <2>1, <3>1, <3>2
    <3>6. d.valid \in F[d.sub - 1] .. Counted(submaps')[d.sub - 1]
      BY <2>1, <3>2, <3>4
    <3>7. ReadOK(c, F)'
      BY <3>2, <3>5, <3>6 DEF ReadOK
    <3> QED BY <2>1, <2>2, <3>1, <3>2, <3>3, <3>7 DEF StatsOK
  <2>5. ASSUME c.sub \in 1 .. c.last, NEW v \in Floor(c, c.sub) .. submaps[c.sub].num_valid,
               d = CallSums(c, v)
        PROVE  StatsOK(t)'
    <3>1. c.last # 0 /\ ReadOK(c, F) /\ c.sub \in 1 .. L
      BY <1>2, <1>3, <2>2, <2>5 DEF ReadOK
    <3>2. v \in Int
      OBVIOUS
    <3>3. /\ d.before = c.before /\ d.floor = c.floor /\ d.entries = c.entries
          /\ d.last = c.last /\ d.sub = c.sub + 1 /\ d.valid = c.valid + v
          /\ d.pc = (IF c.sub = c.last THEN "stats_read" ELSE "stats")
      BY <1>2, <2>5, <3>2 DEF CallSums, Call
    <3>4. FloorSum(d, F)
      BY <2>2, <3>3 DEF FloorSum, Floor
    <3>5. PICK m : m = c.sub - 1
      OBVIOUS
    <3>6. m \in Nat /\ m + 1 = c.sub /\ m + 1 \in Nat \ {0} /\ m \in 0 .. L /\ m + 1 \in 0 .. L
      BY <1>2, <1>3, <3>1, <3>5
    <3>7. /\ F[m + 1] = F[m] + Floor(c, m + 1) /\ F[m] \in Int /\ F[m + 1] \in Int
          /\ Floor(c, m + 1) \in Int
      <4>1. F[m + 1] = F[(m + 1) - 1] + Floor(c, m + 1) /\ F[m] \in Int /\ F[m + 1] \in Int
        BY <2>2, <3>6 DEF FloorSum
      <4>2. Floor(c, m + 1) \in Int
        BY <1>3, <3>6 DEF Floor, Floors
      <4>3. (m + 1) - 1 = m
        BY <3>6
      <4> QED BY <4>1, <4>2, <4>3
    <3>8. /\ Counted(submaps)[m + 1] = Counted(submaps)[m] + submaps[m + 1].num_valid
          /\ Counted(submaps)[m] \in Nat /\ Counted(submaps)[m + 1] \in Nat
          /\ submaps[m + 1].num_valid \in Nat
      BY <2>3, <3>1, <3>5, <3>6
    <3>9. c.valid \in F[m] .. Counted(submaps)[m]
      BY <3>1, <3>5 DEF ReadOK
    <3>10. c.valid + v \in F[m + 1] .. Counted(submaps)[m + 1]
      <4>1. v \in Floor(c, m + 1) .. submaps[m + 1].num_valid
        BY <2>5, <3>6
      <4>2. \A f, x, y, z, w, g \in Int :
              w \in f .. y /\ g \in x .. z => w + g \in f + x .. y + z
        OBVIOUS
      <4>3. c.valid + v \in F[m] + Floor(c, m + 1) .. Counted(submaps)[m] + submaps[m + 1].num_valid
        <5>1. /\ F[m] \in Int /\ Counted(submaps)[m] \in Int /\ Floor(c, m + 1) \in Int
              /\ submaps[m + 1].num_valid \in Int /\ c.valid \in Int /\ v \in Int
          BY <1>3, <3>2, <3>7, <3>8
        <5> QED BY <3>9, <4>1, <4>2, <5>1, Zenon
      <4> QED BY <3>7, <3>8, <4>3
    <3>11. d.sub - 1 = m + 1
      BY <1>3, <3>3, <3>6
    <3>12. d.valid \in F[d.sub - 1] .. Counted(submaps')[d.sub - 1]
      BY <2>1, <3>3, <3>10, <3>11
    <3>13. d.sub \in 1 .. d.last + 1 /\ (d.sub = d.last + 1 <=> c.sub = c.last)
      BY <1>3, <2>5, <3>3
    <3>14. ReadOK(c, F)'
      <4>1. /\ d.last \in Len(d.floor) .. Len(submaps') /\ d.entries \in d.before .. num_entries'
        BY <2>1, <3>1, <3>3 DEF ReadOK
      <4>2. d.pc = (IF d.sub = d.last + 1 THEN "stats_read" ELSE "stats")
        BY <3>3, <3>13
      <4> QED BY <3>12, <3>13, <4>1, <4>2 DEF ReadOK
    <3> QED BY <2>1, <2>2, <3>1, <3>3, <3>4, <3>14 DEF StatsOK
  <2>6. \A e : thread' = [thread EXCEPT ![t] = e] => d = e
    BY <1>2
  <2> QED BY <1>7, <2>4, <2>5, <2>6, StatsSteps
<1> QED BY <1>4, <1>5, <1>6, <1>7, ReaderSteps

(* get_stats leaves out no insert that had returned when it began, and counts
   no entry that is not in the map. *)
THEOREM StatsErrOnlyByOverlap == Spec => []StatsErrByOverlap
<1> DEFINE SInv == Inv /\ CountsOK /\ TotalsOK /\ \A t \in Readers : StatsOK(t)
<1>1. Init => SInv
  <2>1. Init => \A t \in Readers : thread[t].pc = "idle"
    BY DEF Init, Threads, Idle
  <2> QED BY <2>1, InvInit, CountsInit, TotalsInit DEF StatsOK
<1>2. SInv /\ [Next]_vars => SInv'
  BY InvNext, CountsNext, TotalsNext, StatsNext
<1>3. SInv => StatsErrByOverlap
  <2> SUFFICES ASSUME SInv, NEW t \in Readers, thread[t].pc = "stats_read"
               PROVE  /\ thread[t].entries \in thread[t].before .. EntriesUpTo[Len(submaps)]
                      /\ thread[t].valid \in thread[t].before .. EntriesUpTo[Len(submaps)]
    BY DEF StatsErrByOverlap
  <2> DEFINE c == thread[t]
             L == Len(submaps)
             n == Counting("count")
             m == Counting("entries")
  <2>1. /\ c \in Call /\ TypedMap(submaps) /\ num_entries \in Nat /\ L \in Nat
        /\ c.before \in Nat /\ c.entries \in Nat /\ c.valid \in Int /\ c.sub \in Nat
        /\ c.last \in Nat /\ Len(c.floor) \in Nat
    BY DEF Inv, Threads, Call, TypedMap, Floors
  <2>2. EntriesUpTo[L] = num_entries + n + m /\ Counted(submaps)[L] = num_entries + m
    BY LagHolds DEF CountersLag, TotalsOK
  <2>3. n \in Nat /\ m \in Nat
    <3>1. \A pc : Counting(pc) \in Nat
      BY MapAssumption, FS_Subset, FS_CardinalityType DEF Counting
    <3> QED BY <3>1
  <2>4. PICK F : FloorSum(c, F) /\ ReadOK(c, F)
    BY DEF StatsOK
  <2>5. PICK l : l = c.last
    OBVIOUS
  <2>6. c.sub - 1 = l /\ l \in Len(c.floor) .. L /\ l \in 0 .. L
    BY <2>1, <2>4, <2>5 DEF ReadOK
  <2>7. c.valid \in c.before .. Counted(submaps)[l] /\ c.entries \in c.before .. num_entries
    <3>1. c.valid \in F[l] .. Counted(submaps)[l] /\ c.entries \in c.before .. num_entries
      BY <2>4, <2>6 DEF ReadOK
    <3>2. l \in Nat /\ l >= Len(c.floor)
      BY <2>1, <2>6
    <3>3. F[l] = c.before
      BY <2>4, <3>2 DEF FloorSum
    <3> QED BY <3>1, <3>3
  <2>8. Counted(submaps)[l] <= Counted(submaps)[L] /\ Counted(submaps)[l] \in Nat
    <3>1. /\ IsSum(Counted(submaps), CountTerms(submaps), L)
          /\ \A i \in 1 .. L : CountTerms(submaps)[i] \in Nat
      BY <2>1, TermsAreNatural
    <3>2. PICK z : z = [i \in 0 .. L |-> 0]
      OBVIOUS
    <3>3. IsSum(z, z, L) /\ (\A i \in 1 .. L : z[i] \in Nat) /\ z[l] = 0 /\ z[L] = 0
      BY <2>1, <2>6, <3>2 DEF IsSum
    <3>4. \A i \in 1 .. L : l < i => z[i] <= CountTerms(submaps)[i]
      BY <3>1, <3>2
    <3>5. \A i \in l .. L : z[i] - z[l] <= Counted(submaps)[i] - Counted(submaps)[l]
      <4> HIDE DEF L, c
      <4>1. L <= L /\ L \in Nat
        BY <2>1
      <4> QED BY <2>6, <3>1, <3>3, <3>4, <4>1, SumGrows
    <3>6. \A i \in 0 .. L : Counted(submaps)[i] \in Nat
      BY <2>1, <3>1, SumNatural
    <3>7. L \in l .. L /\ L \in 0 .. L
      BY <2>1, <2>6
    <3> QED BY <2>6, <3>3, <3>5, <3>6, <3>7
  <2> HIDE DEF n, m
  <2> QED BY <2>1, <2>2, <2>3, <2>7, <2>8
<1> QED BY <1>1, <1>2, <1>3, PTL DEF Spec

-----------------------------------------------------------------------------
(* Submaps, and where threads are in them. *)

PlaceOK(ss, c) ==
  c.pc \in {"check", "count"} => c.sub \in 1 .. Len(ss) /\ c.n \in 0 .. ss[c.sub].capacity

ShapeOK ==
  /\ Len(submaps) <= MaxSubmaps
  /\ \A i \in 1 .. Len(submaps) : is_prime(submaps[i].capacity)
  /\ expanding \in BOOLEAN
  /\ \A t \in Threads : PlaceOK(submaps, thread[t])

(* The probes have not come around: no more of them than buckets. *)
LEMMA PathInTable ==
  ASSUME NEW s, TypedSubmap(s), NEW k \in Key, NEW n \in Nat, Path(s, k, n)
  PROVE  n \in 0 .. s.capacity
<1> DEFINE c == s.capacity
           h == Hash1[k] % c
           d == calculate_probe_increment(s, k)
<1>1. c \in Nat /\ c > 2 /\ c - 1 \in Nat /\ (c - 1) + 1 = c
  BY DEF TypedSubmap, Submap
<1>2. h \in Nat /\ d \in Nat
  <2>1. Hash1[k] \in Nat /\ Hash2[k] \in Nat
    BY MapAssumption
  <2>2. Hash1[k] % c \in Nat /\ Hash2[k] % (c - 1) \in Nat
    BY <1>1, <2>1
  <2> HIDE DEF c
  <2> QED BY <2>2 DEF calculate_probe_increment, c
<1>3. Wraps(s, k, c - 1)
  <2>1. Index(s, k, (c - 1) + 1) = (h + c * d) % c /\ Index(s, k, 0) = (h + 0 * d) % c
    BY <1>1 DEF Index
  <2> HIDE DEF c, h, d
  <2>2. c > 0 /\ h \in Int /\ d \in Int /\ c * d = d * c /\ h + 0 * d = h
    BY <1>1, <1>2
  <2>3. (h + d * c) % c = h % c
    BY <1>1, <2>2, RemainderOfSum
  <2> QED BY <2>1, <2>2, <2>3 DEF Wraps
<1>4. ASSUME n > c PROVE FALSE
  <2>1. c - 1 \in 0 .. n - 1
    BY <1>1, <1>4
  <2> HIDE DEF c
  <2> QED BY <1>3, <2>1 DEF Path
<1> QED BY <1>1, <1>4

LEMMA ShapeInit == Init => ShapeOK
<1> SUFFICES ASSUME Init PROVE ShapeOK
  OBVIOUS
<1>1. /\ Len(submaps) = 1 /\ submaps[1].capacity = FirstCapacity
      /\ is_prime(FirstCapacity) /\ 1 <= MaxSubmaps /\ expanding = FALSE
  BY MapAssumption DEF Init, NewSubmap
<1>2. \A t \in Threads : thread[t].pc = "idle"
  BY DEF Init, Idle
<1>3. \A i \in 1 .. Len(submaps) : is_prime(submaps[i].capacity)
  <2>1. \A i \in 1 .. 1 : i = 1
    OBVIOUS
  <2> QED BY <1>1, <2>1
<1>4. Len(submaps) <= MaxSubmaps /\ expanding \in BOOLEAN
  BY <1>1
<1> QED BY <1>2, <1>3, <1>4 DEF ShapeOK, PlaceOK

(* Only the head of the loop, a search and a publication lead to such a place. *)
LEMMA PlaceSteps ==
  ASSUME Inv, [Next]_vars, NEW t \in Threads
  PROVE  \/ thread'[t] = thread[t]
         \/ thread'[t].pc \notin {"check", "count"}
         \/ t \in Inserters /\ (ReadLast(t) \/ Look(t) \/ Publish(t))
<1>0. thread \in [Threads -> Call] /\ Inserters \subseteq Threads /\ Readers \subseteq Threads
  BY DEF Inv, Threads
<1>1. CASE UNCHANGED vars
  BY <1>1 DEF vars
<1>2. ASSUME NEW u \in Readers,
             ReadStep(u) \/ BeginIteration(u) \/ BeginStats(u) \/ \E k \in Key : BeginFind(u, k)
      PROVE  thread'[t] = thread[t] \/ thread'[t].pc \notin {"check", "count"}
  <2>0. u \in Threads /\ u \notin Inserters
    BY <1>0, MapAssumption
  <2>1. CASE Look(u)
    BY <1>0, <2>0, <2>1 DEF Look, LookFound, LookOn, LookBelow, LookIn, Return, Goto, NextProbe, Idle, Call
  <2>2. CASE Seek(u)
    BY <1>0, <2>0, <2>2 DEF Seek, SeekBucket, SeekSubmap, Goto, Call
  <2>3. CASE Stats(u)
    <3>1. thread[u].pc = "stats" /\ (t # u => thread'[t] = thread[t])
      BY <1>0, <2>0, <2>3, StatsAlters DEF Stats
    <3>2. thread'[u].pc \in {"stats", "stats_read"}
      <4>1. thread[u] \in Call /\ \A e : thread' = [thread EXCEPT ![u] = e] => thread'[u] = e
        BY <1>0, <2>0
      <4>2. CASE \E e, l : thread' = [thread EXCEPT ![u] = CallCounts(thread[u], e, l)]
        BY <3>1, <4>1, <4>2 DEF CallCounts, Call
      <4>3. CASE \E v : thread' = [thread EXCEPT ![u] = CallSums(thread[u], v)]
        BY <4>1, <4>3 DEF CallSums, Call
      <4> QED BY <2>3, <4>2, <4>3, StatsSteps
    <3> QED BY <3>1, <3>2
  <2>4. CASE ReturnEnd(u)
    BY <1>0, <2>0, <2>4 DEF ReturnEnd, Return, Idle
  <2>5. CASE BeginIteration(u) \/ BeginStats(u)
    BY <1>0, <2>0, <2>5 DEF BeginIteration, BeginStats, Idle
  <2>6. ASSUME NEW k \in Key, BeginFind(u, k)
        PROVE  thread'[t] = thread[t] \/ thread'[t].pc \notin {"check", "count"}
    BY <1>0, <2>0, <2>6 DEF BeginFind, Idle
  <2> QED BY <1>2, <2>1, <2>2, <2>3, <2>4, <2>5, <2>6 DEF ReadStep
<1>3. ASSUME NEW u \in Inserters, InsertStep(u) \/ \E k \in Key : BeginInsert(u, k)
      PROVE  \/ thread'[t] = thread[t]
             \/ thread'[t].pc \notin {"check", "count"}
             \/ t = u /\ (ReadLast(u) \/ Look(u) \/ Publish(u))
  <2>0. u \in Threads
    BY <1>0
  <2>1. CASE ReadLast(u) \/ Publish(u)
    BY <1>0, <2>0, <2>1 DEF ReadLast, Publish, Goto
  <2>2. CASE Look(u)
    BY <1>0, <2>0, <2>2 DEF Look, LookFound, LookOn, LookBelow, LookIn, Return, Goto, NextProbe
  <2>3. CASE Check(u)
    BY <1>0, <2>0, <2>3 DEF Check, Goto, Call
  <2>4. CASE Probe(u)
    <3>1. thread[u].pc = "probe"
      BY <2>4 DEF Probe
    <3> QED BY <1>0, <2>0, <2>4, <3>1 DEF Probe, ProbeClaims, ProbeFinds, ProbeOn, Return, Goto,
                                         NextProbe, Idle, Call
  <2>5. CASE expand(u)
    BY <1>0, <2>0, <2>5 DEF expand, ExpandUnderFlag, Goto, Call
  <2>6. CASE increment_num_valid_buckets(u) \/ incrementnum_entries(u)
    BY <1>0, <2>0, <2>6 DEF increment_num_valid_buckets, incrementnum_entries, Return, Goto, Idle, Call
  <2>7. ASSUME NEW k \in Key, BeginInsert(u, k)
        PROVE  thread'[t] = thread[t] \/ thread'[t].pc \notin {"check", "count"}
    BY <1>0, <2>0, <2>7 DEF BeginInsert, Idle
  <2> QED BY <1>3, <2>1, <2>2, <2>3, <2>4, <2>5, <2>6, <2>7 DEF InsertStep
<1> QED BY <1>1, <1>2, <1>3 DEF Next

LEMMA ShapeNext == ASSUME Inv, ShapeOK, [Next]_vars PROVE ShapeOK'
<1>1. Inv' /\ CountersGrow /\ TypedMap(submaps) /\ TypedMap(submaps')
  <2>1. Inv' /\ CountersGrow
    BY InvNext, StepCounters
  <2> QED BY <2>1 DEF Inv
<1>2. Len(submaps) \in Nat /\ Len(submaps') \in Nat /\ MaxSubmaps \in Nat
  BY <1>1, MapAssumption DEF TypedMap
<1>3. Len(submaps') <= MaxSubmaps
  BY <1>1, <1>2 DEF ShapeOK, CountersGrow
<1>4. \A i \in 1 .. Len(submaps') : is_prime(submaps'[i].capacity)
  BY <1>1 DEF ShapeOK, CountersGrow
<1>5. expanding' \in BOOLEAN
  <2>1. expanding' = expanding \/ expanding' = TRUE
    BY DEF Next, InsertStep, ReadStep, BeginInsert, BeginFind, BeginIteration, BeginStats, ReadLast,
           Look, Check, Probe, Publish, increment_num_valid_buckets, incrementnum_entries, expand,
           ExpandUnderFlag, Seek, Stats, ReturnEnd, vars
  <2> QED BY <2>1 DEF ShapeOK
<1>6. ASSUME NEW t \in Threads PROVE PlaceOK(submaps', thread'[t])
  <2>0. /\ thread \in [Threads -> Call] /\ thread[t] \in Call /\ CallOK(submaps, t, thread[t])
        /\ TraceOK(submaps, thread[t]) /\ thread[t].n \in Nat
    BY DEF Inv, ThreadOK, Call
  <2>1. ASSUME NEW i \in 1 .. Len(submaps), NEW n \in 0 .. submaps[i].capacity
        PROVE  i \in 1 .. Len(submaps') /\ n \in 0 .. submaps'[i].capacity
    BY <1>1, <1>2 DEF CountersGrow
  <2>2. CASE thread'[t] = thread[t]
    BY <2>1, <2>2 DEF ShapeOK, PlaceOK
  <2>3. CASE thread'[t].pc \notin {"check", "count"}
    BY <2>3 DEF PlaceOK
  <2>4. CASE ReadLast(t)
    <3>1. thread'[t].sub \in 1 .. Len(submaps) \/ thread'[t].pc = "look"
      BY <1>1, <1>2, <2>0, <2>4 DEF ReadLast, Call, TypedMap
    <3>2. thread'[t].n = 0
      BY <2>0, <2>4 DEF ReadLast, Call
    <3>3. ASSUME NEW i \in 1 .. Len(submaps) PROVE 0 \in 0 .. submaps[i].capacity
      BY <1>1 DEF TypedMap, TypedSubmap, Submap
    <3> QED BY <2>1, <3>1, <3>2, <3>3 DEF PlaceOK
  <2>5. CASE t \in Inserters /\ Look(t)
    <3>1. thread[t].pc = "look" /\ thread[t].key \in Key /\ thread[t].sub \in 1 .. Len(submaps)
      BY <2>0, <2>5 DEF Look, CallOK
    <3>2. thread[t].n \in 0 .. submaps[thread[t].sub].capacity
      BY <1>1, <2>0, <3>1, PathInTable DEF TraceOK, TypedMap
    <3>3. thread'[t].pc = "check" => thread'[t].sub = thread[t].sub /\ thread'[t].n = thread[t].n
      BY <2>0, <2>5, <3>1 DEF Look, LookFound, LookOn, LookBelow, LookIn, Return, Goto, NextProbe,
                              Idle, Call
    <3>4. thread'[t].pc # "count"
      BY <2>0, <2>5, <3>1, IdleFields DEF Look, LookFound, LookOn, LookBelow, LookIn, Return,
                                          Goto, NextProbe, Call
    <3> QED BY <2>1, <3>1, <3>2, <3>3, <3>4 DEF PlaceOK
  <2>6. CASE t \in Inserters /\ Publish(t)
    <3>1. thread[t].pc = "publish" /\ thread[t].key \in Key /\ thread[t].sub \in 1 .. Len(submaps)
      BY <2>0, <2>6 DEF Publish, CallOK
    <3>2. thread[t].n \in 0 .. submaps[thread[t].sub].capacity
      BY <1>1, <2>0, <3>1, PathInTable DEF TraceOK, TypedMap
    <3>3. thread'[t].sub = thread[t].sub /\ thread'[t].n = thread[t].n
      BY <2>0, <2>6 DEF Publish, Goto, Call
    <3> QED BY <2>1, <3>1, <3>2, <3>3 DEF PlaceOK
  <2> QED BY <2>2, <2>3, <2>4, <2>5, <2>6, PlaceSteps
<1> QED BY <1>3, <1>4, <1>5, <1>6 DEF ShapeOK

LEMMA ShapeHolds == Spec => [](Inv /\ CountsOK /\ ShapeOK)
<1>1. Init => Inv /\ CountsOK /\ ShapeOK
  BY InvInit, CountsInit, ShapeInit
<1>2. Inv /\ CountsOK /\ ShapeOK /\ [Next]_vars => (Inv /\ CountsOK /\ ShapeOK)'
  BY InvNext, CountsNext, ShapeNext
<1> QED BY <1>1, <1>2, PTL DEF Spec

(* Type correctness: never more than MaxSubmaps submaps, no counter above its
   capacity, no thread at a submap or a bucket that is not there. *)
THEOREM TypeCorrect == Spec => []TypeOK
<1>1. ASSUME Inv, CountsOK, ShapeOK PROVE TypeOK
  <2>1. TypedMap(submaps) /\ Len(submaps) \in 1 .. MaxSubmaps
    BY <1>1, MapAssumption DEF Inv, ShapeOK, TypedMap
  <2>2. ASSUME NEW i \in 1 .. Len(submaps) PROVE SubmapOK(submaps[i])
    <3>1. TypedSubmap(submaps[i])
      BY <2>1 DEF TypedMap
    <3>2. /\ Cardinality(Valid(submaps[i])) \in 0 .. submaps[i].capacity
      BY <3>1, BucketsFinite
    <3>3. /\ submaps[i].num_valid \in Nat /\ submaps[i].capacity \in Nat
          /\ Cardinality(Inside({"count"}, i)) \in Nat
      BY <1>1, BookedNatural
    <3>4. Cardinality(Valid(submaps[i])) = submaps[i].num_valid + Cardinality(Inside({"count"}, i))
      BY <1>1 DEF CountsOK, SubmapCounts
    <3> QED BY <3>1, <3>2, <3>3, <3>4 DEF SubmapOK, TypedSubmap
  <2>3. ASSUME NEW t \in Threads
        PROVE  /\ t \in Inserters => thread[t].pc \in InsertPC
               /\ t \in Readers => thread[t].pc \in ReadPC
               /\ thread[t].pc \in {"look", "check", "probe", "publish", "count", "seek"}
                    => thread[t].sub \in 1 .. Len(submaps) /\ thread[t].n \in 0 .. Here(t).capacity
               /\ thread[t].pc \in {"look", "probe", "publish", "count"} => thread[t].key \in Key
               /\ thread[t].known \subseteq Key /\ thread[t].seen \subseteq Key
    <3> DEFINE c == thread[t]
    <3>1. /\ c \in Call /\ CallOK(submaps, t, c) /\ TraceOK(submaps, c) /\ PlaceOK(submaps, c)
      BY <1>1 DEF Inv, ThreadOK, ShapeOK
    <3>2. /\ c.pc \in InsertPC \cup ReadPC /\ c.n \in Nat /\ c.known \subseteq Key /\ c.seen \subseteq Key
      BY <3>1 DEF Call
    <3>3. /\ t \in Inserters => c.pc \in InsertPC
          /\ t \in Readers => c.pc \in ReadPC
      BY <3>1, <3>2, MapAssumption DEF CallOK, InsertPC, ReadPC
    <3>4. c.pc \in {"look", "probe", "publish", "count"} => c.key \in Key
      BY <3>1 DEF CallOK
    <3>5. ASSUME c.pc \in {"look", "probe", "publish"}
          PROVE  c.sub \in 1 .. Len(submaps) /\ c.n \in 0 .. submaps[c.sub].capacity
      <4>1. /\ c.sub \in 1 .. Len(submaps) /\ TypedSubmap(submaps[c.sub])
            /\ Path(submaps[c.sub], c.key, c.n) /\ c.key \in Key
        BY <2>1, <3>1, <3>4, <3>5 DEF CallOK, TraceOK, TypedMap
      <4> HIDE DEF c
      <4> QED BY <3>2, <4>1, PathInTable
    <3>6. c.pc = "seek" => c.sub \in 1 .. Len(submaps) /\ c.n \in 0 .. submaps[c.sub].capacity
      BY <3>1 DEF CallOK
    <3>7. c.pc \in {"check", "count"}
            => c.sub \in 1 .. Len(submaps) /\ c.n \in 0 .. submaps[c.sub].capacity
      BY <3>1 DEF PlaceOK
    <3> QED BY <3>2, <3>3, <3>4, <3>5, <3>6, <3>7 DEF Here
  <2>4. /\ num_entries \in Nat /\ returned \subseteq Key /\ DOMAIN thread = Threads
        /\ expanding \in BOOLEAN /\ Inserters \subseteq Threads /\ Readers \subseteq Threads
    BY <1>1 DEF Inv, ShapeOK, Threads
  <2> QED BY <2>1, <2>2, <2>3, <2>4 DEF TypeOK
<1> QED BY <1>1, ShapeHolds, PTL

(* Every key's probes come to every bucket of every submap: capacities are
   prime, the first by assumption and the others by next_prime. *)
THEOREM ProbesReachAll == Spec => []ProbesEveryBucket
<1>1. ASSUME Inv, ShapeOK PROVE ProbesEveryBucket
  <2> SUFFICES ASSUME NEW i \in 1 .. Len(submaps), NEW k \in Key
               PROVE  {Index(submaps[i], k, n) : n \in 0 .. submaps[i].capacity - 1}
                        = DOMAIN submaps[i].buckets
    BY DEF ProbesEveryBucket
  <2> DEFINE c == submaps[i].capacity
             h == Hash1[k] % c
             d == calculate_probe_increment(submaps[i], k)
  <2>1. c \in Nat /\ c > 2 /\ is_prime(c) /\ DOMAIN submaps[i].buckets = 0 .. c - 1
    BY <1>1 DEF Inv, ShapeOK, TypedMap, TypedSubmap, Submap
  <2>2. Hash1[k] \in Nat /\ Hash2[k] \in Nat
    BY MapAssumption
  <2>3. h \in Nat /\ d \in 1 .. c - 1
    <3>1. Hash1[k] % c \in Nat /\ Hash2[k] % (c - 1) \in 0 .. (c - 1) - 1
      <4> HIDE DEF c
      <4>1. c \in Nat /\ c > 0 /\ c - 1 \in Nat /\ c - 1 > 0 /\ Hash1[k] \in Int /\ Hash2[k] \in Int
        BY <2>1, <2>2
      <4>2. Hash1[k] % c \in 0 .. c - 1 /\ Hash2[k] % (c - 1) \in 0 .. (c - 1) - 1
        BY <4>1, Division
      <4> QED BY <4>2
    <3>2. d = 1 + (Hash2[k] % (c - 1))
      BY DEF calculate_probe_increment
    <3> HIDE DEF c, d
    <3> QED BY <2>1, <3>1, <3>2 DEF h
  <2>4. \A n : Index(submaps[i], k, n) = (h + n * d) % c
    BY DEF Index
  <2> HIDE DEF c, h, d
  <2>5. {(h + n * d) % c : n \in 0 .. c - 1} = 0 .. c - 1
    BY <2>1, <2>3, StepsReachAll
  <2>6. {Index(submaps[i], k, n) : n \in 0 .. c - 1} = 0 .. c - 1
    BY <2>4, <2>5
  <2> QED BY <2>1, <2>6 DEF c
<1> QED BY <1>1, ShapeHolds, PTL
=============================================================================
