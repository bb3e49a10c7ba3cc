# Verification of pcap_stat

pcap_stat reads `test.pcap`, hands its frames to four worker threads over
bounded channels, has each worker count the traffic between pairs of MAC
addresses, IP addresses and TCP ports, merges the workers' tables and prints
them. The library it is built on (`Include/noname`) provides Go-like channels,
a concurrent hash map and header classes. This directory holds TLA+ models of
that code, TLC runs on small instances, and proofs checked by TLAPS.

Paths below are relative to `src/`; `N/` stands for `Include/noname/`.

## 1. The system

| Component | Source | State | Operations |
|---|---|---|---|
| circular_buffer | `N/channel/circular_buffer.hpp` | array, `_front`, `_end`, `_size` | push_back/push/emplace_back, pop, pop_front, front, back, empty, full |
| channel_buffer | `N/channel/channel_buffer.hpp` | ring, mutex, two condition variables, atomic `is_closed` | get_next, try_get_next, insert, close, status |
| channel, ichannel, ochannel, ochannel_iterator | `N/channel/channel.hpp` | a shared pointer to a channel_buffer; the iterator holds a value | `<<`, `>>`, close, begin/end, `++`, `==` |
| select | `N/channel/select.hpp` | the list of cases | run the cases in random order until one is taken, else the default |
| concurrent_unordered_map | `N/concurrent/concurrent_unordered_map.hpp` | submaps of buckets (EMPTY, BUSY, VALID), counters, `expanding` flag | insert, find, at, iterate, filter, clone, get_stats; expand inside insert |
| network headers | `N/network/{ethernet,ipv4,tcp,utils}.hpp` | the fields of one header | construct from bytes, getters and setters, to_string, get_next_packet_type, bswap16/32/64 |
| packet | `N/network/packet.hpp` | a tuple of headers and their bytes | construct |
| setup_map | `src/pcap_stats.cpp:35-58` | one table per worker and protocol | count a packet |
| get_stats (a worker) | `src/pcap_stats.cpp:60-101` | three tables, the packet in hand | take a packet, count it, merge the tables into the shared maps |
| main, print_data | `src/pcap_stats.cpp:103-162` | the pcap handle, four channels, four futures, three shared maps | read, deal round robin, close, join, print |
| libpcap | `Include/pcap*`, `Lib` (vendored) | the handle and its one frame buffer | pcap_open_offline, pcap_next_ex |

How they interact. main is the only sender and the only closer of every
channel; each worker is the only receiver of its own. A `Packet` is two
pointers into the pcap handle, not a copy, so a worker shares the handle's
buffer with main's next `pcap_next_ex`. The workers share the three concurrent
maps. main waits for the workers through their futures.

What is hard. Wakeups of two condition variables from three operations, one of
which (close) takes no lock; a flag that is read before the lock and used under
it; a receiver that must not see the end of the stream before its last value; a
full channel that blocks main while it owes frames to other workers; the reuse
of the handle's buffer; the branches of setup_map, which depend on what both
directions of a conversation left in the table; and the lock-free buckets of
the concurrent map, which is searched while it is filled and expanded.
`PROJECT.json` lists each as a hazard at the line where it bites.

What makes each component correct:

- circular_buffer: it is a bounded FIFO queue; what throws changes nothing.
- channel_buffer: it is a bounded FIFO queue that can be closed; no wakeup is
  lost; closing ends every wait; the end of the stream is final.
- pipeline: every frame is dealt once, in turn, and finished before main
  prints; a worker reads the frame its packet was made for (it does not: the
  model bounds by how much it may be off); the program ends.
- setup_map: the counters count the packets (they do not; the model says what
  the table holds instead).
- concurrent_unordered_map: an inserted key is found from then on, by every
  thread, and never inserted again; expansion loses nothing; inserts return.
- the channels' clients: a value handed to a channel is delivered at most once,
  and lost only after a close; a loop's body never runs for the default value.
- select: at most one receive case is taken, the default only if none is; no
  channel is passed over that held a value all along, and none starves.
- headers: each field is the bytes of the wire format that carry it (true of
  the fields of one byte and of MAC addresses; the models say what the others
  hold instead).

The program as committed. It does not compile: the map's `count` and a mutable
`[]` do not exist, `send_data` has no `+=`, `SecondHash` has no version for
pairs, `channel::operator=` returns nothing, `packet.hpp` includes a file that
is not there. The models take the expressions for what they say. Two more
things are taken for what they evidently mean, because the standard leaves them
undefined: `threadpool[i]` on a vector that was only reserved (134-138), and
the unsynchronised reads of the handle's buffer (a read returns the frame that
is there at that moment, per field).

## 2. Modules

| Module | Models |
|---|---|
| `CircularBuffer` | the ring as a value: a record and the member functions as operators on it; `RingOK`, the representation invariant; `Contents`, the sequence a ring represents |
| `BoundedFifo` | abstract: a bounded FIFO queue that throws |
| `CircularBufferSpec` | circular_buffer as a state machine, one action per member function and outcome |
| `Channel` | abstract: a bounded FIFO queue that can be closed |
| `ChannelBuffer` | channel_buffer used by any number of threads |
| `Channels` | several channels between several threads: a channel is the sequence it holds and its flag; the operations the clients' modules call |
| `Select` | one thread that runs `select` again and again |
| `ChannelClients` | `<<`, the relay `out >> in`, the range-based for loop, a selector and closes, all on two channels |
| `Headers` | what the header classes take from a frame's bytes, what copies and getters give |
| `Pipeline` | main and the workers over one channel each, with the type test of `Headers` |
| `FlowTable` | setup_map over every trace of packets |
| `ConcurrentMap` | concurrent_unordered_map: insert, expand, find, iteration and get_stats by any number of threads |
| `PrimeNumbers` | is_prime and next_prime, which choose the capacities |
| `CircularBufferLemmas`, `NumberLemmas` | lemmas on rings, and on naturals, primes and sums |
| `CircularBufferProofs`, `ChannelBufferProofs`, `ChannelClientsProofs`, `PipelineProofs`, `FlowTableProofs`, `ConcurrentMapProofs` | the theorems |
| `MC*` | the instances TLC checks |

`CircularBufferSpec` implements `BoundedFifo` under `queue <- Contents(ring)`;
`ChannelBuffer` implements `Channel` under the same mapping (a sender's item is
`sending` from the read of the flag until it is pushed or given up, so that the
abstract channel accepts a send only while it is open and drops one only once it
is closed); each channel of `Pipeline`, seen with its worker and main,
implements `ChannelBuffer`. The other modules are not composed by refinement: `Channels`, over which
`ChannelClients` is written, has the grain of `Channel` (one step for what a
call does under the mutex, one for a read of the flag outside it) and was
translated from the same lines as `ChannelBuffer`, but no theorem carries a
property of `ChannelBuffer` over to it.

### ChannelBuffer and the code

`pc[t]` says where thread t is, `idle` outside any call. `ring`, `is_closed`
are the members; `buffer_lock` is the owner of the mutex between two steps;
`input_wait` and `output_wait` are the threads asleep on the condition
variables; `in[t]` is the argument of t's insert and `ret[t]` what its last
receive returned.

A critical section is one step, taken when the mutex is free. Everything the
code does outside the lock is a step of its own:

| Code | Actions |
|---|---|
| get_next, 42-57 | `GetNext` (the lock, the test, and either the value, the default or the decision to wait), `GetNextBlock` (fall asleep and release the lock), `GetNextWoken` (the lock again, the predicate again) |
| try_get_next, 63 and 65-73 | `TryGetNext`, `TryGetNextLocked` |
| insert, 78; 81-90; 92 | `Insert`; `InsertLocked`, `InsertBlock`, `InsertWoken`; `InsertNotify` |
| close, 98; 99; 100 | `Close`; `CloseNotifyInput`; `CloseNotifyOutput` |
| `condition_variable` | `NotifiedOne`, `SpuriousWakeup` |

The wait is split between its predicate and falling asleep because close can
get in between: it takes no lock. Within get_next, the test of line 45, the
predicate of line 47 and the test of line 48 read the flag up to three times;
a close between two of them leads to an outcome that the single read also has
(the flag only rises, and the ring cannot change under the lock).

### Channels, Select, ChannelClients and the code

These modules are about what the clients of a channel do between its calls, so
a channel is reduced to `queue[c]` and `is_closed[c]`: what a call does with
the mutex held is one step, a read of the flag outside the mutex another
(`insert`, the first step of `TryCase`), and a waiting thread takes its step
when it can. How threads sleep and wake is left to `ChannelBuffer`.

| Code | Definitions |
|---|---|
| `operator<<` (`N/channel/channel.hpp`), insert | `Send`, `Inserts` |
| `operator>>` between channels, 180-185 | `RelayReceives`, `RelaySends`: the value is in the relay's hand between get_next and insert |
| `begin`, `++`, `!=` of the iterator | `Fetch`, `Test`; equality with `end()` is the closed flag alone (88) |
| `select` and its cases (`N/channel/select.hpp`) | `SelectBegins` (the cases and the shuffle), `TryCase` and `TryLocked` (a receive case, that is try_get_next), `RunSendCase`, `GoOn` (the default) |
| close | `Closes`, of any channel at any time |

The shuffle is the free choice of the next case among those left. `ran` holds
the options whose function a select has called, `watch` and `handled` are
history. What the function of a case does is the caller's and left open, except
that the value it was given is recorded.

A send case calls its function and answers false, so that the receive cases
after it run as well, and the default too: `SelectMissesNothing` says exactly
which sets of functions one select can have called, and that one which received
nothing found each channel open when it began and empty at some moment since.

### Headers and the code

A frame is a function from offsets to bytes, a header a record with the C++
struct's fields. Fields of 16 and 32 bits are initialised with `data[i]` or
`*(data + i)` of a `const uint8_t*`, that is with one byte; `ip_address` copies
in the wrong direction and stays zero, its copy constructor too, its assignment
does not; the getters swap the bytes of a word whose high byte is 0. The
constants are the code's. Nothing here has state: the operators are used by
`Pipeline`, and the first theorems of `PipelineProofs` say what they compute for
every frame.

### Pipeline and the code

`held` is the number of the frame in the handle's buffer; a packet is the
number of the frame it was made for, so the distance between the two is the
staleness of what a worker reads. `main` and `i` are main's position and loop
index, `pc[w]` the worker's. `ReadField` copies one field of the header, the
destination, then the source, then the type, as `ethernet_header(const uint8_t*)`
initialises its members (`N/network/ethernet.hpp:146-149`), and main may read the
next frame between any two of them. `StopReading` may happen at any frame (end of
file or read error). A result of 0 from `pcap_next_ex` belongs to live captures
and does not occur. `Count` stands for setup_map and the type test that follows
it. `TypeBytes[f]`, bytes 12 and 13 of frame f, is a constant, so the test is
evaluated on the frame the worker's type was read from: `ether_type` is the
single byte `data[12]` (`N/network/ethernet.hpp:149`), at most 255, never 0x0800.
A worker that passed the test would be at `ip`; the theorem
`NoWorkerPastTypeTest` shows that none ever is, so lines 82-98 of
`src/pcap_stats.cpp`, among them the merge into the shared maps, have no actions,
and main prints three empty maps. That is a consequence of the code and not a
requirement on it: `src/README.md` promises "statistical information on pcap
file".

### FlowTable and the code

`ret` is the `std::map`, `trace` the packets so far. The three branches of
setup_map are `Open`, `RecordInReverse` and `Restart`; each adds to the counters
it finds (`Plus`), a missing entry counting as zeros (`At`), and only `Restart`
resets the entry first. Addresses are model values: setup_map only compares the
strings.

### ConcurrentMap and the code

A submap is a record of its capacity, its buckets and its counter; a VALID
bucket is represented by the key of its entry, the values are left out.
`thread[t]` is the position of a thread in its call and the call's locals.
`last`, `look`, `check`, `probe`, `publish`, `count`, `entries` and `expand`
are the places of `insert_helper` and `Submap::insert` between two shared
accesses: reading the number of submaps (450), one bucket of a lower submap
(434-441), the overload test (461), one bucket of the last one (219-248), the
store of the entry (230-232), the two counters (234, 470), expand (302-327).
Loading EMPTY, failing the compare-exchange and loading the state again amounts
to passing a BUSY bucket or comparing a VALID one, so a probe is one step.
expand is one step under its flag: nobody else appends submaps, and counters
only grow. find and an iteration take a step per bucket. Submaps are numbered from 1.
The load factor is a fraction, compared exactly; the code divides floats.
`returned` and the field `known` are history: which inserts had returned when a
call began. After expand has thrown the thread is gone, as in pcap_stats, where
the exception ends the worker.

get_stats (595-606) reads the number of entries, then the number of submaps, then
one submap's counter per step. The counters are incremented and loaded with
`memory_order_relaxed` (153, 157, 299, 551), so a load may return any value the
counter has had since every insert that had returned by the beginning of the
call: `before` and `floor` are those values, `StatsSubmaps` and `StatsNextSubmap`
choose between them and the present one, each counter by itself. An insert's two
increments may therefore be seen in either order, and the number of entries may
exceed the sum over the submaps or the other way round; `StatsErrByOverlap` says
what is left, that both lie between the entries of the inserts that had returned
and those that are there at the end.

The other accesses the model takes in one order. Most of these loads are relaxed
too; the properties of find, insert and iterations speak of calls that begin
after an insert has returned, and where that order comes from synchronisation,
coherence of each bucket's state makes the later call see what the insert saw or
wrote. The overload test (253-255) reads its counter relaxed as well, and the
model takes the present value: an older one lets more inserts past the test, so
that `LoadBounded` is a statement about hardware on which a counter's increments
are seen at once.

Two overlapping inserts of one key may both return true, and the key is then in
the map twice: one passes the other's BUSY bucket without comparing keys, or
one is late in an old submap. The source promises nothing else, so this is no
finding; `NoSecondInsert` states where it ends.

## 3. Runs

| Run | Instance | Result |
|---|---|---|
| `circular_buffer` | 3 slots, 2 items | the representation stays well formed and the ring implements `BoundedFifo` |
| `channel_mpmc` | 2 receivers, 1 polling receiver, 2 senders, 1 closer, 2 slots, 2 items | types, lock discipline, `NoValueStranded`, `NoRoomStranded`, `EndOfStreamIsFinal`, `DefaultIsLast`, and the ring, the flag and the senders' items implement `Channel` |
| `channel_live` | 1 receiver, 2 senders, 1 closer, 1 slot | under fairness, closing frees all sleeping senders and the sleeping receiver; a waiting receiver is served |
| `channel_lost_close` | 1 receiver, 1 sender, 1 closer | violated: a receiver between predicate and sleep misses the close |
| `channel_two_getters` | 2 receivers | violated: close wakes one of two sleeping receivers |
| `channel_late_send` | 1 receiver, 1 sender, 1 closer, 1 slot | violated: a value enters a closed channel |
| `channel_clients` | 2 channels of 1 slot, 2 values; a sender, a relay, a loop, a selector, a closer | `EachValueOnce`, `BodyNeverSeesDefault`, `SelectMissesNothing`, and under fairness no case of a select starves |
| `pipeline` | 2 workers, 2 slots, 8 frames | `DealtInTurn`, `ReadsNearby`, `NothingLeftBehind`, each channel implements `ChannelBuffer`, and under fairness main prints, unless a worker missed the close of its channel |
| `flow_table` | 3 addresses, 2 sizes, 5 packets | the table is the closed form of the trace; an rx entry faces a tx entry |
| `flow_totals` | as above, 3 packets | violated: the third packet of a conversation erases one |
| `map` | 2 inserters, 1 reader, 2 keys, submaps of 3 and 7 buckets, load factor 1/4 | `FoundOnceInserted`, `IterationComplete`, `LoadBounded`, `CountersLag`, `StatsErrByOverlap`, `ProbesEveryBucket` |
| `map_inserts` | 2 inserters, 4 keys, submaps of 3 and 7 buckets, load factor 9/10 | `NoSecondInsert`; under fairness every insert returns |

Why the bounds are enough. In `channel_mpmc` two threads of each competing role
give every race for one wakeup and one value, a channel of two slots is empty,
partly filled and full, wraps, and tells one missing wakeup from two; receivers
and senders return and call again without bound, so the histories are not
bounded, only the number of threads. The two receivers, the two senders and the
two items are interchangeable, hence the symmetry (safety only). In `pipeline`
eight frames exceed the most that two channels and two workers can hold plus the
one in main's hand (seven), so main blocks, rings wrap, and the bound of
`ReadsNearby`, (buffer_size + 1) * NumWorkers, is reached and would be exceeded
if main did not wait. In `flow_table` two packets decide whether a conversation diverts, a third and fourth overwrite
each side, and a fifth starts over once more; the third address shows that
conversations do not meddle, and an address may talk to itself.

In `channel_clients` one slot makes the sender and the relay wait as soon as two
values are under way, and the three receivers of `a` compete for each; two
values are enough for every place a value can be in (a channel, an insert that
waits or is about to lock, the relay's hand, the loop's hand) to be occupied
while another is taken, and for a close to come between any two of these.

The map's first submap has at least 11 buckets in the code
(`FIRST_SUBMAP_MIN_CAPACITY`); the instances start with 3, so that probes of
colliding keys overlap, wrap and meet a full submap. The keys start at the same
bucket, some with the same step, some with another. In `map` the small load
factor makes one entry overload the first submap and two the second, so that a
find or an iteration meets submaps appended meanwhile, late inserts go to an old
one, and the limit of two submaps makes expand throw; in `map_inserts` the large one lets two
inserters fill the first submap before the entries are counted. Both allow
unboundedly many calls. `MCConcurrentMap` also has TLC compare `next_prime`
with the definition of primes up to 300.

Deadlock is checked except in the `flow_*` runs, where a trace simply ends, in
`channel_clients`, where it cannot occur since the selector can always go on
or begin again, and in `map_inserts`, which has no reader: after the exception
the other inserters may spin for ever.

Fairness. `ChannelBuffer!FairSpec`: weak fairness of the steps that need
nothing but the processor (falling asleep, notifying), strong fairness of those
that need the mutex, since other threads may hold it again and again but each
releases it. No fairness makes a thread begin a call, and spurious wakeups are
allowed but never owed. `Pipeline!FairSpec`: strong fairness per thread, for
the same reason. `ChannelClients!FairSpec`: weak fairness of the selector, which
never waits, and strong fairness of each channel's case being the first one
tried: `random_exec` shuffles with a freshly seeded generator at every call
(`N/channel/select.hpp:76-87`), so that in a thread that selects for ever no
case stays off the first place for ever; nothing is assumed of the other
threads. `ConcurrentMap!FairSpec`: weak fairness of each inserter's
steps; no step of insert waits except for expand's flag, which is held only
within a step unless expand has thrown.

`ReadsNearby` says that what a worker reads is at most (buffer_size + 1) *
NumWorkers frames younger than its packet (44 in the program). It is the
strongest statement of this kind that holds: the packet's frame itself is
guaranteed only while main has read no other. It does not say that the
worker reads the right frame, or its three fields from one frame: the code gives
neither.

## 4. Findings

1. close is not under the lock (`N/channel/channel_buffer.hpp:98`), so a
   receiver that has just found the channel open and empty may sleep through
   it. pcap_stats then never ends. `PrintsUnlessCloseMissed` shows that this is
   the only way it can hang.
2. close wakes only one receiver (`:99`).
3. insert reads the flag before the lock and not again unless it has to wait for
   room (`:78`), so a value can enter a closed channel, although "cannot send to a
   closed channel" (`:85`). `Channel` accepts a send only while it is open and
   lets one it has accepted through after the close; `EndOfStreamIsFinal`,
   `DefaultIsLast` and `EachValueOnce` say what remains true.
4. setup_map never accumulates: its counters are added to, but each entry stands
   for one packet, and the third packet of a conversation erases an earlier one.

Known as well, and too plain for a run of their own: ether_type is one byte, so
that no frame is taken for IP and the program prints empty maps (proved, see
section 5); print_data (`src/pcap_stats.cpp:110`) prints rx under "A->B" and tx
under "B->A", where setup_map counts the other way round; IP addresses stay zero,
as their copy has its arguments exchanged (`N/network/ipv4.hpp:91-94`, which a
compiler refuses besides, as the source would be written to). Three
things about which the repository promises nothing else: the iterators drop the
value they have just fetched when they find the channel closed
(`N/channel/channel.hpp:88`); try_get_next forgets the values of a closed channel
(`:63`, as its comment says), so a select over one gives the default value; a
sender may sleep through a close just as a receiver does (`:84`).

## 5. Proofs

All for arbitrary constants: any number of slots, any items, any finite sets of
threads, any addresses, traces of any length.

- `CircularBufferProofs`: `RepresentationCorrect` and `FifoImplemented`
  (circular_buffer implements `BoundedFifo`). They rest on the lemmas of
  `CircularBufferLemmas`: push_back appends to the represented sequence, pop
  drops its head, both keep the ring well formed. `RingOK` is inductive by
  itself: that `_end` is `_size` slots after `_front` is what keeps a push
  from hitting a live slot.
- `ChannelBufferProofs`: `InvHolds` (`Typing`, `LockDisciplineHolds`). The
  inductive invariant is `TypeOK /\ LockDiscipline`. Types alone are not
  inductive: that the size stays within bounds needs `RingOK`, that a sender
  pushes an item needs the clause on `in`, and that the ring is still empty
  (full) when a thread falls asleep needs the clause on `buffer_lock`.
  From it: `ChannelImplemented` (channel_buffer implements `Channel`),
  `EndOfStreamFinal`, `DefaultLast` (a poller that was given the default value
  has seen the flag, which never falls again), and the two counting invariants
  `ValuesServed` and `RoomServed`, where each step either keeps the cover of
  sleeping threads or moves exactly one thread in or out of it.
- `ChannelClientsProofs`, for any number of values and any channel size. The
  invariant `Inv` says what each client's position tells about the channels:
  what the loop holds, what the relay has in its hand, which channels the
  running select has asked. From it: `TypeCorrect`; `LoopDropsDefault` (get_next
  gives the default value only once the channel is closed, so the loop is over);
  `SelectPassesNoneOver`. `NeverDeliveredTwice` needs more: each value is
  counted over all the places it can be in, two channels, two histories, the
  body and the hands (`Held`), and each step is shown to move one occurrence of
  one value, on the lemmas `CountAppend`, `CountTail` and `CountConcat` about
  occurrences in a sequence.
- `PipelineProofs`, first about a header: for every frame, `NoFrameIsIP`;
  `LowByteIsLost` (length, id, checksum and ports lack their second byte) on
  `Bswap16Exchanges` and `SwappedHighByte`; `SharedWordsAreMisread`;
  and what is right: `ByteFieldsAreTheFrames`, `MacAddressesAreTheFrames`,
  `TcpCopyIsFaithful`.
- `PipelineProofs`, then about the program: `PipelineTypeCorrect`,
  `NoWorkerPastTypeTest`, `NothingIsLeftBehind`, for any number of workers,
  slots and frames with any bytes. The inductive invariant adds three parts to
  the types and to the statement that no worker is at `ip` (`NoneAtIP`):
  `FramesOK` (main's packet is of the frame in the handle, the dealt frames are
  those read before), `SeenOK` (a worker at the type test has read the type of a
  frame), `PhasesOK` (what main's position says about the channels it has closed
  and the workers it has joined).
  Without `PhasesOK` one cannot tell that a worker that has stopped had a closed
  and empty channel, nor that main, which alone sends, is past sending; without
  `SeenOK` the type test would be about no frame. `NoFrameIsIP` is the lemma
  that keeps workers from `ip`.
- `PipelineProofs`, the order: `FramesInTurn` and `StalenessBounded`. With that
  invariant go `DealtInTurn` itself, `CursorOK` (main's loop index is the number
  of frames dealt, modulo the number of workers, one behind until the wakeup is
  done) and `SeenNearby` (a worker reads no frame older than its packet).
  Without `CursorOK` one cannot tell whose share the next frame belongs to. The
  lemmas `Remainder` and `NewestMoves` hold the arithmetic: dealing a frame
  moves the newest frame of one share by NumWorkers and no other's. The bound
  then follows from the length of a worker's line, at most buffer_size + 1.
- `PipelineProofs`, the refinement: `ChannelsAreBuffers`. For each worker w, each
  step of main on channel w and each step of worker w is a step of
  `ChannelBuffer` on that channel, and every other step leaves it as it is. It
  needs `SyncOK` besides (main and a worker never hold the lock of one channel
  both, and main sleeps only inside a wait), and that main inserts into open
  channels only, which is `PhasesOK`.
- `FlowTableProofs`: `RxFacesTx`, and `ClosedForm`: the table is a function of
  the trace, of any length. That each branch adds to zeros (`AddsToZero`) is what
  makes the entries those of one packet. The argument is that whether
  a packet is diverted depends only on the packets before it (`Earlier`), so a
  new packet changes the sets `Own` and `DivertedTo` of its two entries only;
  the branch setup_map takes says which (`FirstIsOwn`, `RepeatsNeedsOwn`,
  `UnansweredRepeats`).
- `NumberLemmas`: induction over the naturals, obtained from the existence of a
  least element (the library's induction rule takes an operator, which the
  provers cannot instantiate); `IsPrimeDecides` (trying odd divisors up to the
  root suffices) and `NextPrimeIsLeast` (next_prime ends, because there is
  always a larger prime, and skips none), and that equal steps modulo a prime go
  through all remainders; sums over the first elements of a sequence.
- `ConcurrentMapProofs`, for any numbers of threads, keys, submaps and buckets,
  any hashes and any load factor. First `FindsWhatWasInserted`,
  `InsertsOnlyOnce` and `IteratesOverAll`. Buckets go from EMPTY to BUSY to an
  entry and never back (`Grows`, which every step satisfies); so the buckets a
  key's probes have passed stay occupied (`Path`), and an entry stays where its
  key's probes lead (`At`). The inductive invariant says this of every returned
  key, of the path each thread has come (`TraceOK`), and, for a call whose key
  was known when it began, that an entry lies ahead of it (`AheadOK`): below it,
  further along its path, or in the submap an insert comes to last. That an
  insert publishes into the bucket it claimed, and no other does, is a part of
  it (`ClaimsOK`); without it Publish could overwrite an entry.
- `ConcurrentMapProofs`, the counters: `LoadIsBounded`, `CountersOnlyLag` and
  `StatsErrOnlyByOverlap`. Every step of an inserter is of one of six kinds
  (`Effects`), and each keeps two balances: of a submap, its occupied buckets
  against its counter and the inserters between claiming and counting
  (`CountsOK`); of the whole map, the sums of these over the submaps against
  `num_entries` (`TotalsOK`). For a get_stats, the floors of the counters add up
  to the entries it began with (`FloorsSumUp`); what it has read is never less than
  the floors of the submaps it has read, nor more than their counters, which only
  grow (`StatsOK`). The submaps appended
  after it began have no floor, so leaving them out, as it may, loses nothing.
- `ConcurrentMapProofs`, places: `TypeCorrect` and `ProbesReachAll`. `ShapeOK`
  adds to the invariant that every capacity is a prime and that no probe has
  come around; that the capacities are prime is `NumberLemmas`.

Assumptions: at least one slot (`BufferSizeAssumption`; the template's default
of 0 would make every insert wait for ever); an indeterminate value is no item
(`JunkAssumption`); `T{}` and the null pointer are
different from each other and from every value sent (`DefaultAssumption`); finitely many threads, each in one role
(`ThreadAssumption`, `RolesAssumption`); the names of channels, cases, threads
and default values are different (`ChannelsAssumption`, `SelectAssumption`,
`ClientsAssumption`); sizes are naturals (`FlowAssumption`); frames are numbered
and made of bytes, and the null packet is not the mark for an indeterminate one
(`PipelineAssumption`); hashes are naturals, the first capacity is a prime above
2 (in the code the larger of 11 and a next_prime) and the load factor is below 1
(`MapAssumption`). TLC evaluates all of them. No theorem has a hypothesis of its
own beyond these.

Only model-checked: liveness, which is out of the prover's reach
(`CloseFreesInserters`, `CloseFreesGetters`, `WaitingGetterServed`,
`NoCaseStarves`, `PrintsUnlessCloseMissed`, `InsertsReturn`), and the
counterexamples of section 4. Every safety invariant, action property and
refinement of a passing run is a theorem.

## 6. Not modelled

- libpcap / WinPcap: most of the repository's lines are its vendored headers
  (`Include/pcap`, `Include/*.h`, `Lib`): declarations, constants and macros,
  with no code to run but that of a binary library. pcap_open_offline and
  pcap_next_ex are modelled from their use in main.
- `packet.hpp`: nothing uses it, and it includes `arp.hpp`, which does not exist.
- What follows the type test in a worker (`src/pcap_stats.cpp:82-98`): proved
  unreachable, so it has no actions. A model of the merge would describe runs
  the program does not have.
- Copies of circular_buffer and channel_buffer: the copies alias one array, some
  do not compile, and nothing makes one.
- Text: to_string of headers and addresses, stream insertion and extraction of
  channels (one receive or send beside the I/O), the layout of the output.
- bswap32 and bswap64, which nothing calls; comparison and default construction
  of headers.
- The map's filter, clone and emplace: loops over its iteration and insert, on a
  new map that no other thread knows. The values of entries: they are written
  before an entry is published and returned as they are.

What is left to prove: that a channel of `Pipeline` implements `Channel`, in one
statement, by carrying the theorems of `ChannelBufferProofs` over to the
instances `Buffer(w)` (the prover hides the assumptions of an instance with a
parameter, so they would have to be proved again for each); and safety facts
behind the liveness properties, such as that a sleeping thread of `Pipeline`
always has a wakeup on its way unless it missed a close.
