--------------------------- MODULE ConcurrentMap ---------------------------
(***************************************************************************)
(* concurrent_unordered_map: a list of submaps of growing prime            *)
(* capacities, each an open-addressing table with double hashing whose     *)
(* buckets go from EMPTY to BUSY to VALID and never back.  Entries go to   *)
(* the last submap; when that is overloaded a submap of about twice its    *)
(* capacity is appended and the old ones are only searched from then on.   *)
(* The only lock is the spin flag of expand.                               *)
(*                                                                         *)
(* An inserter takes one step for each shared access that others can come  *)
(* between: reading the number of submaps, each bucket it probes, the      *)
(* overload test, the publication of its bucket, each counter and expand.  *)
(* The accesses of an insert, a find and an iterator are taken in one order *)
(* for all threads; the loads of get_stats are as relaxed as the code's.   *)
(***************************************************************************)
EXTENDS PrimeNumbers, Sequences, FiniteSets

CONSTANTS
  Inserters,            \* threads that call insert
  Readers,              \* threads that call find and iterate
  Key,
  EMPTY, BUSY,          \* the states of a bucket without an entry
  Hash1, Hash2,         \* keyHash1 and keyHash2
  FirstCapacity,        \* the capacity of the first submap
  MaxSubmaps,           \* maxnum_submaps
  LoadNum, LoadDen      \* maxload_factor is LoadNum / LoadDen

ASSUME MapAssumption ==
  /\ Inserters \cap Readers = {}
  /\ IsFiniteSet(Inserters)
  /\ EMPTY # BUSY /\ EMPTY \notin Key /\ BUSY \notin Key
  /\ Hash1 \in [Key -> Nat] /\ Hash2 \in [Key -> Nat]
  /\ FirstCapacity \in Nat /\ FirstCapacity > 2 /\ is_prime(FirstCapacity)
  /\ MaxSubmaps \in Nat \ {0}
  /\ LoadNum \in Nat \ {0} /\ LoadDen \in Nat /\ LoadNum < LoadDen

VARIABLES
  submaps,      \* the submaps in use, oldest first
  expanding,    \* the flag expand spins on
  num_entries,
  thread,       \* what each thread is doing
  returned      \* the keys for which some insert has returned

vars == <<submaps, expanding, num_entries, thread, returned>>

Threads == Inserters \cup Readers

(* A VALID bucket is represented by the key of its entry. *)
Bucket == {EMPTY, BUSY} \cup Key

NewSubmap(c) ==
  [capacity |-> c, buckets |-> [i \in 0 .. c - 1 |-> EMPTY], num_valid |-> 0]

calculate_probe_increment(s, k) == 1 + (Hash2[k] % (s.capacity - 1))

(* The bucket a key's n-th probe looks at, counting from 0. *)
Index(s, k, n) ==
  ((Hash1[k] % s.capacity) + n * calculate_probe_increment(s, k)) % s.capacity

(* The probe after the n-th is back at the first. *)
Wraps(s, k, n) == Index(s, k, n + 1) = Index(s, k, 0)

is_overloaded(s) == s.num_valid * LoadDen >= LoadNum * s.capacity

(* What a thread that is between two calls looks like.  The fields: key, the
   key of the call; known, the keys whose insert had returned when the call
   began (for insert and find, whether that holds of key); last, the number
   of submaps the call read; sub and n, the submap and the probe (or the
   bucket, for an iterator) it is at; seen, the keys an iterator gave.  Of
   get_stats: before and floor, what the inserts that had returned when it
   began had counted, in num_entries and in each submap; entries and valid,
   what it has read of num_entries and, summed, of the submaps' counters. *)
Idle == [pc |-> "idle", key |-> EMPTY, known |-> {}, last |-> 0, sub |-> 0,
         n |-> 0, seen |-> {}, before |-> 0, floor |-> <<>>, entries |-> 0, valid |-> 0]

Init ==
  /\ submaps = <<NewSubmap(FirstCapacity)>>
  /\ expanding = FALSE
  /\ num_entries = 0
  /\ thread = [t \in Threads |-> Idle]
  /\ returned = {}

Goto(t, pc) == thread' = [thread EXCEPT ![t].pc = pc]

(* The call ends, and the key's entry is in the map. *)
Return(t) ==
  /\ thread' = [thread EXCEPT ![t] = Idle]
  /\ returned' = IF t \in Inserters THEN returned \cup {thread[t].key} ELSE returned

Here(t) == submaps[thread[t].sub]

Looked(t) == Here(t).buckets[Index(Here(t), thread[t].key, thread[t].n)]

NextProbe(t) == thread' = [thread EXCEPT ![t].n = @ + 1]

-----------------------------------------------------------------------------
(* find_helper, Submap::find: from the given submap down to the first *)

LookIn(t, sub) ==
  thread' = [thread EXCEPT ![t].pc = "look", ![t].sub = sub, ![t].n = 0]

LookFound(t) ==
  /\ Looked(t) = thread[t].key
  /\ Return(t)

(* The bucket is another key's or BUSY, and not the last of the probes. *)
LookOn(t) ==
  /\ Looked(t) \notin {thread[t].key, EMPTY}
  /\ ~Wraps(Here(t), thread[t].key, thread[t].n)
  /\ NextProbe(t)
  /\ UNCHANGED returned

(* Not in this submap: try the one before; past the first, an insert goes on
   to the last submap and a find returns end(). *)
LookBelow(t) ==
  /\ Looked(t) # thread[t].key
  /\ Looked(t) = EMPTY \/ Wraps(Here(t), thread[t].key, thread[t].n)
  /\ IF thread[t].sub > 1 THEN LookIn(t, thread[t].sub - 1)
     ELSE Goto(t, IF t \in Inserters THEN "check" ELSE "missed")
  /\ UNCHANGED returned

LookStopsAtBusy(t) ==
  /\ thread[t].pc = "look"
  /\ \/ LookFound(t)
     \/ Looked(t) # BUSY /\ LookOn(t)
     \/ LookBelow(t)
     \/ /\ Looked(t) = BUSY /\ thread[t].sub = 1
        /\ Goto(t, IF t \in Inserters THEN "check" ELSE "missed")
        /\ UNCHANGED returned
  /\ UNCHANGED <<submaps, expanding, num_entries>>

Look(t) ==
  /\ thread[t].pc = "look"
  /\ LookFound(t) \/ LookOn(t) \/ LookBelow(t)
  /\ UNCHANGED <<submaps, expanding, num_entries>>

-----------------------------------------------------------------------------
(* insert *)

BeginInsert(t, k) ==
  /\ thread[t].pc = "idle"
  /\ thread' = [thread EXCEPT ![t] =
                  [Idle EXCEPT !.pc = "last", !.key = k, !.known = {k} \cap returned]]
  /\ UNCHANGED <<submaps, expanding, num_entries, returned>>

ReadLastOnly(t) ==
  /\ thread[t].pc = "last"
  /\ thread' = [thread EXCEPT ![t].pc = "check", ![t].last = Len(submaps),
                              ![t].sub = Len(submaps), ![t].n = 0]
  /\ UNCHANGED <<submaps, expanding, num_entries, returned>>

(* The head of insert_helper's loop: the last submap, then the ones below. *)
ReadLast(t) ==
  /\ thread[t].pc = "last"
  /\ LET last == Len(submaps) IN
     thread' = [thread EXCEPT ![t].pc = IF last > 1 THEN "look" ELSE "check",
                              ![t].last = last,
                              ![t].sub = IF last > 1 THEN last - 1 ELSE last,
                              ![t].n = 0]
  /\ UNCHANGED <<submaps, expanding, num_entries, returned>>

CheckNothing(t) ==
  /\ thread[t].pc = "check"
  /\ thread' = [thread EXCEPT ![t].pc = "probe", ![t].sub = thread[t].last, ![t].n = 0]
  /\ UNCHANGED <<submaps, expanding, num_entries, returned>>

(* The overload test of insert_helper. *)
Check(t) ==
  /\ thread[t].pc = "check"
  /\ IF is_overloaded(submaps[thread[t].last])
     THEN Goto(t, "expand")
     ELSE thread' = [thread EXCEPT ![t].pc = "probe", ![t].sub = thread[t].last,
                                   ![t].n = 0]
  /\ UNCHANGED <<submaps, expanding, num_entries, returned>>

SetBucket(t, b) ==
  submaps' = [submaps EXCEPT ![thread[t].sub].buckets
                [Index(Here(t), thread[t].key, thread[t].n)] = b]

(* compare_exchange from EMPTY to BUSY. *)
ProbeClaims(t) ==
  /\ Looked(t) = EMPTY
  /\ SetBucket(t, BUSY)
  /\ Goto(t, "publish")
  /\ UNCHANGED returned

(* The key is there: the insert returns false. *)
ProbeFinds(t) ==
  /\ Looked(t) = thread[t].key
  /\ Return(t)
  /\ UNCHANGED submaps

(* The bucket is another key's, or BUSY: then its key is not looked at. *)
ProbeOn(t) ==
  /\ Looked(t) \notin {EMPTY, thread[t].key}
  /\ IF Wraps(Here(t), thread[t].key, thread[t].n)
     THEN Goto(t, "expand")     \* FullSubmapException
     ELSE NextProbe(t)
  /\ UNCHANGED <<submaps, returned>>

Probe(t) ==
  /\ thread[t].pc = "probe"
  /\ ProbeClaims(t) \/ ProbeFinds(t) \/ ProbeOn(t)
  /\ UNCHANGED <<expanding, num_entries>>

(* The entry is written and the bucket becomes VALID. *)
Publish(t) ==
  /\ thread[t].pc = "publish"
  /\ SetBucket(t, thread[t].key)
  /\ Goto(t, "count")
  /\ UNCHANGED <<expanding, num_entries, returned>>

CountLastSubmap(t) ==
  /\ thread[t].pc = "count"
  /\ submaps' = [submaps EXCEPT ![Len(submaps)].num_valid = @ + 1]
  /\ Goto(t, "entries")
  /\ UNCHANGED <<expanding, num_entries, returned>>

increment_num_valid_buckets(t) ==
  /\ thread[t].pc = "count"
  /\ submaps' = [submaps EXCEPT ![thread[t].sub].num_valid = @ + 1]
  /\ Goto(t, "entries")
  /\ UNCHANGED <<expanding, num_entries, returned>>

incrementnum_entries(t) ==
  /\ thread[t].pc = "entries"
  /\ num_entries' = num_entries + 1
  /\ Return(t)
  /\ UNCHANGED <<submaps, expanding>>

ExpandToDouble(t) ==
  IF Len(submaps) = MaxSubmaps
  THEN expanding' = TRUE /\ Goto(t, "thrown") /\ UNCHANGED submaps
  ELSE LET s == submaps[Len(submaps)] IN
       /\ submaps' = IF is_overloaded(s) THEN Append(submaps, NewSubmap(2 * s.capacity))
                     ELSE submaps
       /\ Goto(t, "last")
       /\ UNCHANGED expanding

ExpandUnlimited(t) ==
  LET s == submaps[Len(submaps)] IN
  /\ submaps' = IF is_overloaded(s)
                THEN Append(submaps, NewSubmap(next_prime(2 * s.capacity)))
                ELSE submaps
  /\ Goto(t, "last")
  /\ UNCHANGED expanding

ExpandKeepsFlag(t) ==
  IF Len(submaps) = MaxSubmaps
  THEN expanding' = TRUE /\ Goto(t, "thrown") /\ UNCHANGED submaps
  ELSE LET s == submaps[Len(submaps)] IN
       /\ submaps' = IF is_overloaded(s)
                     THEN Append(submaps, NewSubmap(next_prime(2 * s.capacity)))
                     ELSE submaps
       /\ expanding' = ~is_overloaded(s)
       /\ Goto(t, "last")

(* expand, from taking the flag to clearing it; at the limit of submaps it
   throws, and the flag stays set.  The exception ends the thread. *)
ExpandUnderFlag(t) ==
  IF Len(submaps) = MaxSubmaps
  THEN expanding' = TRUE /\ Goto(t, "thrown") /\ UNCHANGED submaps
  ELSE LET s == submaps[Len(submaps)] IN
       /\ submaps' = IF is_overloaded(s)
                     THEN Append(submaps, NewSubmap(next_prime(2 * s.capacity)))
                     ELSE submaps
       /\ Goto(t, "last")
       /\ UNCHANGED expanding

expand(t) ==
  /\ thread[t].pc = "expand"
  /\ ~expanding
  /\ ExpandUnderFlag(t)
  /\ UNCHANGED <<num_entries, returned>>

-----------------------------------------------------------------------------
(* find, and an iteration from begin() to end() *)

BeginFind(t, k) ==
  /\ thread[t].pc = "idle"
  /\ thread' = [thread EXCEPT ![t] =
                  [Idle EXCEPT !.pc = "look", !.key = k, !.known = {k} \cap returned,
                               !.sub = Len(submaps)]]
  /\ UNCHANGED <<submaps, expanding, num_entries, returned>>

BeginIteration(t) ==
  /\ thread[t].pc = "idle"
  /\ thread' = [thread EXCEPT ![t] =
                  [Idle EXCEPT !.pc = "seek", !.known = returned, !.sub = 1]]
  /\ UNCHANGED <<submaps, expanding, num_entries, returned>>

(* Submap::seek looks at one bucket; a VALID one is given to the caller, who
   comes back with ++. *)
SeekBucket(t) ==
  /\ thread[t].n < Here(t).capacity
  /\ LET b == Here(t).buckets[thread[t].n] IN
     thread' = [thread EXCEPT ![t].n = @ + 1, ![t].seen = @ \cup ({b} \cap Key)]

SeekSubmapKeepsIndex(t) ==
  /\ thread[t].n = Here(t).capacity
  /\ IF thread[t].sub < Len(submaps)
     THEN thread' = [thread EXCEPT ![t].sub = @ + 1]
     ELSE Goto(t, "ended")

(* const_iterator::seek at the end of a submap *)
SeekSubmap(t) ==
  /\ thread[t].n = Here(t).capacity
  /\ IF thread[t].sub < Len(submaps)
     THEN thread' = [thread EXCEPT ![t].sub = @ + 1, ![t].n = 0]
     ELSE Goto(t, "ended")

Seek(t) ==
  /\ thread[t].pc = "seek"
  /\ SeekBucket(t) \/ SeekSubmap(t)
  /\ UNCHANGED <<submaps, expanding, num_entries, returned>>

(* get_stats reads num_entries, then num_submaps, then the counter of each of
   that many submaps.  The counters are incremented and loaded relaxed: a load
   returns any value the counter has had since the call began, which leaves out
   no insert that had returned by then and, of the others, any of their
   increments, one insert's two in either order. *)
Settled(i) ==
  submaps[i].num_valid
    - Cardinality({t \in Inserters : thread[t].pc = "entries" /\ thread[t].sub = i})

BeginStats(t) ==
  /\ thread[t].pc = "idle"
  /\ thread' = [thread EXCEPT ![t] =
                  [Idle EXCEPT !.pc = "stats", !.before = num_entries,
                               !.floor = [i \in 1 .. Len(submaps) |-> Settled(i)]]]
  /\ UNCHANGED <<submaps, expanding, num_entries, returned>>

StatsSubmaps(t) ==
  /\ thread[t].last = 0
  /\ \E e \in thread[t].before .. num_entries, l \in Len(thread[t].floor) .. Len(submaps) :
       thread' = [thread EXCEPT ![t].entries = e, ![t].last = l, ![t].sub = 1]

Floor(c, i) == IF i \in 1 .. Len(c.floor) THEN c.floor[i] ELSE 0

(* get_stats with its loop bounded by get_last_submap_index(). *)
StatsToLastIndex(t) ==
  /\ thread[t].sub \in 1 .. thread[t].last
  /\ \E v \in Floor(thread[t], thread[t].sub) .. Here(t).num_valid :
       thread' = [thread EXCEPT ![t].valid = IF thread[t].sub = thread[t].last THEN @ ELSE @ + v,
                                ![t].sub = @ + 1,
                                ![t].pc = IF thread[t].sub = thread[t].last
                                          THEN "stats_read" ELSE "stats"]

StatsNextSubmap(t) ==
  /\ thread[t].sub \in 1 .. thread[t].last
  /\ \E v \in Floor(thread[t], thread[t].sub) .. Here(t).num_valid :
       thread' = [thread EXCEPT ![t].valid = @ + v, ![t].sub = @ + 1,
                                ![t].pc = IF thread[t].sub = thread[t].last
                                          THEN "stats_read" ELSE "stats"]

Stats(t) ==
  /\ thread[t].pc = "stats"
  /\ StatsSubmaps(t) \/ StatsNextSubmap(t)
  /\ UNCHANGED <<submaps, expanding, num_entries, returned>>

(* A find that found nothing, an iteration that is at the end, or get_stats
   with everything read returns. *)
ReturnEnd(t) ==
  /\ thread[t].pc \in {"missed", "ended", "stats_read"}
  /\ Return(t)
  /\ UNCHANGED <<submaps, expanding, num_entries>>

-----------------------------------------------------------------------------
InsertStep(t) ==
  \/ ReadLast(t) \/ Look(t) \/ Check(t) \/ Probe(t) \/ Publish(t)
  \/ increment_num_valid_buckets(t) \/ incrementnum_entries(t) \/ expand(t)

ReadStep(t) == Look(t) \/ Seek(t) \/ Stats(t) \/ ReturnEnd(t)

Next ==
  \/ \E t \in Inserters : InsertStep(t) \/ \E k \in Key : BeginInsert(t, k)
  \/ \E t \in Readers :
       ReadStep(t) \/ BeginIteration(t) \/ BeginStats(t) \/ \E k \in Key : BeginFind(t, k)

Spec == Init /\ [][Next]_vars

(* A thread inside insert is scheduled again and again. *)
FairSpec == Spec /\ \A t \in Inserters : WF_vars(InsertStep(t))

-----------------------------------------------------------------------------
InsertPC == {"idle", "last", "look", "check", "probe", "publish", "count",
             "entries", "expand", "thrown"}

ReadPC == {"idle", "look", "missed", "seek", "ended", "stats", "stats_read"}

SubmapOK(s) ==
  /\ s.capacity \in Nat /\ s.capacity > 2
  /\ s.buckets \in [0 .. s.capacity - 1 -> Bucket]
  /\ s.num_valid \in 0 .. s.capacity

(* Never more than MaxSubmaps submaps; a thread only looks at submaps that
   exist and at buckets inside them. *)
TypeOK ==
  /\ Len(submaps) \in 1 .. MaxSubmaps
  /\ \A i \in 1 .. Len(submaps) : SubmapOK(submaps[i])
  /\ expanding \in BOOLEAN
  /\ num_entries \in Nat
  /\ returned \subseteq Key
  /\ DOMAIN thread = Threads
  /\ \A t \in Inserters : thread[t].pc \in InsertPC
  /\ \A t \in Readers : thread[t].pc \in ReadPC
  /\ \A t \in Threads :
       /\ thread[t].pc \in {"look", "check", "probe", "publish", "count", "seek"}
            => thread[t].sub \in 1 .. Len(submaps) /\ thread[t].n \in 0 .. Here(t).capacity
       /\ thread[t].pc \in {"look", "probe", "publish", "count"} => thread[t].key \in Key
       /\ thread[t].known \subseteq Key /\ thread[t].seen \subseteq Key

(* A find that begins after an insert of its key has returned finds the key,
   whatever is inserted, expanded and left half done meanwhile: pcap_stats
   merges a worker's table by find, and [] of a missing key throws. *)
FoundOnceInserted ==
  \A t \in Readers : thread[t].pc = "missed" => thread[t].known = {}

(* An insert that begins after another insert of its key has returned never
   enters the key again, not even into another submap or behind a bucket that
   was BUSY when it passed.  (Two inserts that overlap may both enter it.) *)
NoSecondInsert ==
  \A t \in Inserters : thread[t].pc = "publish" => thread[t].known = {}

(* An iteration gives every key whose insert had returned when it began. *)
IterationComplete ==
  \A t \in Readers : thread[t].pc = "ended" => thread[t].known \subseteq thread[t].seen

Occupied(s) == {i \in DOMAIN s.buckets : s.buckets[i] # EMPTY}

(* Inserts that have passed the overload test fill a submap beyond the load
   factor by at most one bucket each, late ones into older submaps included. *)
LoadBounded ==
  \A i \in 1 .. Len(submaps) :
    LET s == submaps[i] IN
    Cardinality(Occupied(s)) * LoadDen
      < LoadNum * s.capacity + Cardinality(Inserters) * LoadDen

Valid(s) == {i \in DOMAIN s.buckets : s.buckets[i] \in Key}

Counting(pc) == Cardinality({t \in Inserters : thread[t].pc = pc})

EntriesUpTo[i \in 0 .. Len(submaps)] ==
  IF i = 0 THEN 0 ELSE EntriesUpTo[i - 1] + Cardinality(Valid(submaps[i]))

(* size() is the number of entries, less the inserts that have published
   theirs and not counted it yet; each submap's counter likewise, so that the
   counters that decide about expanding neither miss nor repeat an entry. *)
CountersLag ==
  /\ EntriesUpTo[Len(submaps)] = num_entries + Counting("count") + Counting("entries")
  /\ \A i \in 1 .. Len(submaps) :
       Cardinality(Valid(submaps[i]))
         = submaps[i].num_valid
           + Cardinality({t \in Inserters : thread[t].pc = "count" /\ thread[t].sub = i})

(* get_stats is off by the inserts that overlap it and no more: neither the
   number of entries it gives nor the sum of the submaps' counters leaves out
   an entry whose insert had returned when it began, whatever submaps are
   appended and filled while it reads, and neither counts one that is not in
   the map when it has read them.  (Of each other they may say anything in
   between: num_entries can be the larger, though inserts count it last.) *)
StatsErrByOverlap ==
  \A t \in Readers :
    thread[t].pc = "stats_read" =>
      {thread[t].entries, thread[t].valid} \subseteq thread[t].before .. EntriesUpTo[Len(submaps)]

(* The probes of every key reach every bucket of every submap before they
   wrap, so that FullSubmapException means what it says: capacities are prime. *)
ProbesEveryBucket ==
  \A i \in 1 .. Len(submaps), k \in Key :
    {Index(submaps[i], k, n) : n \in 0 .. submaps[i].capacity - 1} = DOMAIN submaps[i].buckets

(* Every insert returns, unless the map has reached its largest number of
   submaps: retries end, although a full submap whose last entries are not
   counted yet neither takes the key nor makes expand add a submap. *)
InsertsReturn ==
  \A t \in Inserters :
    thread[t].pc # "idle" ~> thread[t].pc = "idle" \/ \E u \in Inserters : thread[u].pc = "thrown"
=============================================================================
