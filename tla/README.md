# StoneDB: models and proofs

StoneDB is an LSM-tree key-value store in Rust. What exists in code today is
the in-memory part (`crates/stonedb-core`): a skip list in an arena, the
memtable on top of it, its key encoding, an optional event timeline, and a small
framework for driving threads through checkpoints in tests (`crates/concurrent-test-framework`). The
write-ahead log, the SSTables, the levels, compaction, the manifest, the merge
iterator and the gRPC API are design documents.

Paths below are relative to `src/crates/stonedb-core/src/`, and `lib.rs` is
`src/crates/concurrent-test-framework/src/lib.rs`.

## Inventory

| component | state | operations | what is hard | what makes it correct |
|---|---|---|---|---|
| `SkipList::put` (`skiplist/mod.rs`) | list height, arena, a tower of forward offsets and a prev offset per node | put: search a splice per level, allocate, raise the height, link level by level | several writers: CAS per level, retries, a stale height, duplicates found late, arena full in the middle | no write is lost, levels stay sorted and nested, one node per key, answers are true, put is atomic and returns |
| `SkipList` reads, `IterRef` (`skiplist/mod.rs`) | a cursor per iterator | get, contains, lower_bound, len, seek, seek_for_prev, seek_to_first/last, next, prev | they run during puts, load by load | each answer is that of one instant; scans are complete; a cursor is on a linked node; reads return |
| `Arena` (`skiplist/arena.rs`) | the allocation pointer | alloc, offset/len | several threads, a stale capacity check | disjoint, aligned, contiguous regions; a panic only when full |
| `KeyComparator` (`skiplist/key.rs`) | none | compare_key, same_key | | a total order |
| `InternalKey`, `InternalKeyComparator` (`key.rs`) | the encoded bytes | new, new_put, new_delete, new_max, decode_from, accessors, two orders | prefixes among user keys, the complemented sequence number, short inputs | decoding inverts encoding; a total order with the newest version first |
| `MemTable` (`memtable.rs`) | a skip list, next_sequence, approximate_size | put, delete, get, get_entry, contains | a sequence number is taken before anything can fail; the last number; a read is a seek among versions of all keys | a read finds the newest acknowledged version; a number is used once; failed writes leave no trace |
| `Checkpoint` (`lib.rs`) | a released flag, a count, captures, a hook | wait, release_all, reset, waiting_count, captures | the flag, the count and the captures are three separately locked cells; a timeout races the release | a counted thread is captured; a release reaches who waits; every wait ends |
| `Observable`, `serialize_event` (`timeline.rs`, a feature) | a bounded channel, an event counter | emit, try_emit, receive, serialize_event | a full channel, a receiver that goes away, events stored out of permit order, a number taken late | accepted events are in the stream once, in order; emit returns |
| `Iterator`, `MemTableIterator` (`iterator.rs`, `memtable.rs:157-238`) | a position that is never valid | stubs | | not modelled |
| `Entry`, `ValueType`, `Error` (`entry.rs`, `error.rs`) | none | constructors | | data types |

How they interact. `MemTable` encodes a user key, a fresh sequence number and a
type into an internal key and calls `SkipList::put`; a read makes the internal
key with the largest sequence number and calls `IterRef::seek`. The skip list
calls the arena once per new node and the comparator once per step of a search.
Nodes are reached by offset; the memory that threads share is the list height,
the arena pointer, the towers and the prev offsets. Nothing emits
timeline events yet. There are no locks, callbacks or timeouts in the store, and nothing is persisted, so there
is no crash recovery to model. The checkpoint is separate: threads under test
call it, and a test thread releases them.

`MemTable` builds its list in single-writer mode and its writes take `&mut
self`; the concurrent mode of the list is used by its own tests and benchmarks.

## Modules

| module | models | composed from |
|---|---|---|
| `SkipList` | put in both modes, one action per access to shared memory | |
| `InsertOnlyMap` | what put promises: a map in which a put takes effect at one instant | refined by `SkipList` |
| `SkipListReaders` | every read operation, one action per load | extends `SkipList`: readers and writers interleave |
| `Arena` | alloc with its CAS loop, in bytes | |
| `NodeLayout` | the bytes of a node: alloc_node, the stores of links, the accessors | extends `Arena`: nodes are filled in the regions it grants |
| `BumpAllocator` | what alloc promises: each request granted or refused in one step | refined by `Arena` |
| `InternalKey` | the encoding, byte by byte, and both orders | |
| `MemTable` | put, delete and the reads, over the sorted map the skip list implements | |
| `Checkpoint` | wait, release_all and reset, one action per access to the flag or critical section | |
| `Timeline` | emit, try_emit, the channel, serialize_event | |
| `SkipList_proofs`, `SkipListMap_proofs` | theorems on `SkipList`: the invariant; the list as a map, the prev pointers | |
| `SkipListReaders_proofs` | theorems on `SkipListReaders` | extends `SkipListMap_proofs` |
| `Arena_proofs` | theorems on `Arena` and `NodeLayout` | |
| `InternalKey_proofs`, `MemTable_proofs`, `Checkpoint_proofs`, `Timeline_proofs` | theorems on these modules | |
| `MC*` | model values and symmetry sets for the configurations | |

Some operators are marked as mutants in their comment. No behaviour uses them:
they are versions of the definition that follows them with a mistake in it, kept
to see that the properties notice (`PROJECT.json`, "mutants").

### SkipList

A node is its arena offset, `NULL` (0) is the null offset, `head` the sentinel.
Offsets count tower slots: a node of height h occupies h + 1 of them and its
header and data bytes are left out, which is all that the allocation has to do
with put (it may fail, and it never returns an offset twice; module `Arena` has
the bytes). A key is an integer: only the order of keys is ever looked at.
`allow_concurrent_write` is chosen at the start, from `Modes`, and never changes.

| code | action |
|---|---|
| `mod.rs:244-258` load the height, draw a random height | `PutStart` |
| `find_splice_for_level` (386-409), one iteration of its loop | `WalkOn`, `FoundSplice`, `FoundDuplicate` |
| `alloc_node` (134-157) and the panic of the arena | `AllocNode`, `AllocPanic` |
| the height CAS loop (279-297) | `RaiseHeight`, `RaiseRetry` |
| the prev pointers, single writer (356-365) | `BackLink` |
| the new node's own forward pointer (314, 367) | `SetNext` |
| the CAS or store that links a level (316-326, 370) | `Link` |
| a failed CAS: search again on that level (331-347) | `LinkFail`, then the search actions |

`height`, `ptr`, `tower`, `back`, `nkey`, `nval` and `nheight` are the shared
memory. `linked[i]`, the nodes whose link on level i has succeeded, is history:
no action reads it, and it is what "no write is lost" is about. The random
height is any height. Atomics are sequentially consistent in the model; the code
uses Acquire and Release on the towers, where each location that is raced for is
written by a CAS and read through a pointer, and orders that differ only in weak
memory are outside the model.

A put adds at most one node, so the arena bounds the state space without any
bound on the number of calls.

### SkipListReaders

`op`, `at` and `level` are a traversal in progress, `cursor` an iterator.
`missed` is history: the nodes a forward scan (or `len`) still has to meet. One
reader at a time is an iterator or a call of `get`, `contains`, `lower_bound` or
`len`; `Reads` says which of them a run allows. Searches overwrite the cursor
when they return, and `get`, `contains`, `lower_bound` and `len` are called
without one, so the old cursor is cleared when they begin. `get` and `contains`
are `lower_bound` with a comparison of immutable bytes.

### Arena

Sizes and offsets are in bytes, the null pointer is 0 and the first region
starts at 8. `granted` is history: the regions in the order they were granted.
A thread whose request is refused has panicked, and may call again: a test or a
caller may catch the panic, and the arena stays in use.

### NodeLayout

`SkipList` takes a node for a record of independent fields; this module is about
the bytes. `AllocNode`, `ArenaStep` and `ArenaPanic` are the allocation, which is
`Arena`'s, and `FillNode` the stores of `alloc_node` into the fresh region, which
no other thread knows yet. `StoreNext` and `StorePrev` are the stores of links,
of any node into any slot that a node has: more than put does. A byte of `mem` is
the i-th byte of a stored value, or has never been written (the arena does not
zero its memory); a load finds a value only if it meets all bytes of one store
in their places. `nodes` is history. `LEN_LIMIT` stands for 2^32, the lengths
that the u32 fields cannot hold; 8 in the run, with a key of nine bytes.

### InternalKey

`BASE` stands for 256 and `SEQ_BYTES` for 7; the runs use 2 and 2, so that all
sequence numbers and all short keys can be enumerated. `keys` is a list of keys
made by `new` or by `decode_from`, and the properties compare them with each
other; `parts` remembers what each was made from.

### MemTable

`put` and `delete` have the table to themselves, so each is one step and the
skip list is the sorted set that `SkipList` is shown to implement. User keys and
values are the lengths of byte strings, one string per length, each a prefix of
the longer ones. The trailer of an internal key is the integer that its bytes
encode (`InternalKey` has the bytes). `Panic` is a put in which the arena is
full: the sequence number is gone, nothing else has changed, and a caller that
catches the panic can go on. `newest` is history.

### Checkpoint

`pc` is where each thread is in `wait`. The hook may decide anything. The flag is
read in `PollReleased` and `PollBlocked`; a thread that found it unset panics
(`TimeOut`) or sleeps and looks again, and how long the timeout is does not
matter: it may end at any such moment. The test thread runs `release_all` (flag,
then count) and `reset` (flag, then captures) in any order and any number of
times. A hook that panics (`HookPanic`) leaves its mutex poisoned, and every later
wait panics when it locks it. `cleared`, `owed` and `again` are history.

The crate is modelled as its own tests compile it. `cfg(test)` is not set for a
crate that another crate's tests depend on, so there, and in production, `wait`
returns `Some(value)` at once, and nothing is captured.

### Timeline

The channel is tokio's and external: `permits` that nobody holds, the `line` of
senders waiting for one, the `queue` of events stored, and whether it is `open`.
`Emit` and `TryEmit` take a permit, wait in line, or give up, and `Send` stores
the event, a step of its own, since on a multi-threaded runtime tasks that hold
permits store their events in any order. `Receive` hands the permit on;
`DropReceiver` loses what is stored and wakes who waits. The receiver serializes
what it received: `SerializeEvent` takes the number and lays the event's fields
over the metadata (`Merged`). Of an event only its own field `seq` matters
(absent, null, or a number). The other metadata, the time and the thread, are
those of the serializer too, not of the task that emitted. `refused`, `returned`
and `before` are history. An emit that is cancelled while it waits is not
modelled.

## Runs

| run | module, bounds | what it shows |
|---|---|---|
| `put_tall` | `MCSkipList`: 2 writers, 2 keys, 3 levels, room for 5 tower slots | no write lost on any level, nested towers, bounds of towers |
| `put_race` | 3 writers, 1 key, 2 values, 2 levels | true answers, the assertion of the retry, immutable nodes, refinement of `InsertOnlyMap` |
| `put_live` | 2 writers, 3 keys, 2 levels, both modes, weak fairness | the inductive invariant, strict order, prev pointers between puts, every put returns |
| `read_race` | `MCSkipListReaders`: 2 writers, 1 reader, 2 keys, all reads | every read is exact at the instant it ends, scans and len are complete |
| `read_single` | 1 writer with plain stores, 1 reader, 3 keys | scans, every read returns |
| `read_back` | the same with seek_to_last and prev | **violated**, see below |
| `node_race` | `MCNodeLayout`: 2 threads, 3 shapes of nodes, 96 bytes, 2 stores of links, weak fairness | layout, refusals, refinement of `BumpAllocator`, every alloc ends, nodes read back, accessors stay inside |
| `key_order` | `MCInternalKey`: any three keys of all short keys and inputs | round trip, order, agreement of the two orders |
| `mem_versions` | `MemTable`: 3 keys, 2 values, numbers up to 4, calls up to 6, 180 bytes | newest version, numbers used once, failures leave nothing, sizes |
| `checkpoint` | `MCCheckpoint`: 2 threads, 2 waits each, hooks that panic | captures, counts, releases, every wait ends |
| `timeline` | `MCTimeline`: 3 tasks, 4 events, a channel of 2, weak fairness | the stream, its order, every emit returns |
| `timeline_order` | 2 tasks, 3 events, with and without a field seq | **violated**, see below |

Why the bounds are enough. A race for a link needs two writers, a duplicate found
by the retry needs one key and two writers, a retry that must restart from a node
linked meanwhile needs a third key between or behind; three writers let a loser
lose again. Two levels make a level above the bottom, three let a height CAS fail
and be retried with a height still to gain. Raising the height
in a race needs room for a tall and a lower node at once, five slots
(`put_tall`). The arena runs full in every run of the list. The theorems hold for
every value of these constants. Two threads and 96 bytes hold two nodes side by side, exactly, and refuse a third, also after a lost
CAS; two stores reach a link that was stored before and one next to it. A channel
of two with three tasks has a full channel, a task in line, and a permit that is
handed on. `MAX_SEQUENCE = 4` with six calls has writes at, before and behind the last
number, and 180 bytes are used up before that in some behaviours and not in
others. `LAST_CALL` (MemTable), `CALLS` (Checkpoint), `SLOTS` (InternalKey),
`STORES` (NodeLayout) and `EVENTS` (Timeline) bound counters, and
`CHECK_DEADLOCK FALSE` is set only in the runs in which such a bound stops
everything (`mem_versions`, `key_order`, `timeline`, `timeline_order`).

Fairness. `put_live` and `read_single` assume that the operating system
schedules a thread that is inside put or inside a read (weak fairness of its
steps), and nothing about calls being made. No CAS is assumed to succeed
eventually: it fails only if another writer has succeeded, and the arena bounds
the successes. `node_race` assumes the same of threads inside alloc.
`checkpoint` assumes weak fairness of the steps of a thread inside wait and
strong fairness of its timeout: a thread that keeps finding the flag unset passes
its deadline, since the clock does not stop. `timeline` assumes that the runtime
polls a task that holds a permit, and that whoever holds the receiver goes on
receiving and writing unless it is dropped; without that, emit waits forever.

### What disagrees with its documentation

- `read_back`: in single-writer mode `put` stores the new node as its
  successor's prev pointer before the new node has a forward pointer and before
  it is linked (`mod.rs:359-370`). A reader that calls `prev()` in between stands
  on a node that is not in the list, and `next()` from there ends the scan,
  though the list promises concurrent reads with a single writer and that a
  reader never observes a partially written node. `ScanComplete` therefore asks
  nothing of a scan that starts on such a node. The concurrent mode searches
  again instead and is exact (`read_race`).
- A `reset` right after `release_all` takes the flag back
  before a blocked thread has looked; the thread stays and times out. It is
  the exception in `ReleasedUnlessReset`.
- `timeline_order`: `serialize_event` lays the fields of the event over the
  metadata, and the memtable's events have a field `seq` of their own, the
  sequence number of the write, which replaces the number that was to order the
  lines. `OrderKept` shows that the number itself does order them.
- `Observable::emit` is documented as "fire-and-forget if buffer full"
  (`timeline.rs:75`) but waits for room; `EmitReturns` states what holds.
- A thread that counts itself after `release_all` has zeroed the count stays
  counted when it has gone on, one that times out stays counted too, and `reset`
  does not clear the count. `waiting_count` ("Get number of waiting threads",
  `lib.rs:189`) is exact only before the first `release_all`, as `CountExact` says,
  and counts who has timed out.
- The last sequence number: `lookup` seeks the key with `MAX_SEQUENCE` and type
  Value. A delete that was given `MAX_SEQUENCE` sorts before it, so its tombstone
  is not seen (`memtable.rs:122` says `new_max` sorts ahead of every version). It
  is the exception in `NewestWins`, and takes 2^56 - 1 writes.
- The comparator orders a put and a delete with one number by their type, `Ord`
  calls them equal (`key.rs:150` says it mirrors `Ord`); the memtable never makes
  both. `NewestFirst` and `RefinesOrd` state what holds.

## Proofs

Checked by TLAPS, for any number of writers, keys, levels, threads, and sizes,
and for both modes of the list (`Modes`). Every safety property that a passing run
checks is a theorem; `PROJECT.json` ("theorems") lists them. Each inductive
invariant was checked by TLC on the instance of the runs before it was proved.

**SkipList.** `SkipList_proofs` has type correctness and proves
that `IInv` is inductive, one lemma per action, and from it strict order,
nested towers, the assertion of the retry, the bounds of tower accesses,
that linked nodes stay as they are, and that acknowledged puts are stored. Why
a strengthening is needed: "a traversal visits what was linked" is about paths,
which a step of one writer changes at one place only. `NoGap` replaces it by a
local fact: the successor of a linked node is linked on the same level and no
linked node lies between the two. To show that a link keeps `NoGap`, the new
node must belong between prev and next at the moment of the CAS. That is what
`Placed` gives (the splice bracketed the key when it was found, and linked nodes
stay), with the CAS's comparison (nothing has come in between since). In
single-writer mode there is no comparison, and `Alone` says that nobody else
links. `Owned` and `Distinct` say that a node under construction is private,
linked on exactly the levels below the one its writer is at. The head's prev
array (`HeadAbove`) matters because the list height may be stale.

**The list as a map** (`SkipListMap_proofs`). `NothingLost` speaks of the set that
following the links from the head reaches. A node reached is linked, by `NoGap`; that every
linked node is reached follows from its rank, the number of linked nodes with
smaller keys: one step of the traversal reaches all nodes of the next rank, and a
node that is not reached with the smallest rank would have a predecessor that is.
`Linearizable` maps the list to the map of `InsertOnlyMap`: a put has taken effect
(`InEffect`) once its node is linked on level 0 or its search has met the key,
and every other step is a stutter; `NoGap` at the CAS is what says that no other
node has the key. `BackLinksInverse` holds between puts. Its strengthening `Backs`
holds throughout: prev pointers invert level 0 except behind the predecessor of
a node that has its prev pointers and is not linked yet.

**Readers** (`SkipListReaders_proofs`). Readers write nothing that writers read, so
`IInv` holds while they run. `Standing` says that a traversal is on a node of its
level before its key: a linked node stays where it is, and a load of its tower
yields the node that follows at that moment, so the last load of a search, on
level 0, decides the answer and is the instant at which it is exact
(`LowerBoundsAtomic`, `SeeksAtomic`). `Scanning` and `Counting` say that what a scan
or `len` still owes is linked and ahead; the nodes `len` has counted are among
those `Passed`, which only grow, and that bounds its answer from above. With
plain stores, `prev()` follows a pointer that may be set before its node is
linked: `CursorsLinkedOrNext` says that it reaches nothing else than that one
node, `PrevsExact` that it is exact while no put is between its prev pointers and
its link. Together they say how far the disagreement of `read_back` goes. Both
need `Backs`, and `Fresh`: the node has no successor until it has been given one.

**Arena.** The strengthened invariant says that the last region ends at the
pointer and that a loaded pointer that is still current leaves room for the
request; from it the layout, that a refusal is final, and that the loop
implements `BumpAllocator`, step by step.

**NodeLayout** (also in `Arena_proofs`). Its steps are steps of the arena or leave
it alone (`NodesUseArena`), so regions are disjoint here too. `Field` lists the
places of a node: four of the header, prev, the tower, key and value. They are
disjoint and end where `NodeSize` says, and the invariant says that each node has
a region of its own, granted, in which every field `Holds` the bytes stored last,
and that a region that waits to be filled belongs to one thread and to no node
(`Asking`). A store into one field then disturbs neither another field nor another node:
`ReadBack`, and with the bounds of the region `AccessInside`.

**InternalKey.** The order of byte slices is total and transitive for byte strings
of any length: of two that differ, the least place where they do decides. The
number that the first p digits of n make is a quotient of n, so two
numbers have the order of their digits, and counting down turns it round;
equally many bytes follow each user key, so a user key is never compared with
another's trailer. `FromBigEndian` is a recursive function on an interval. Its
value on the digits of n is found by giving a function that satisfies the
recursion (the quotients) and showing, by a least counterexample, that the chosen
one agrees with it.

**MemTable.** The invariant says that each version has a number below
`next_sequence` which no other version has, and that `newest` is the version of
its key with the largest number. Numbers are then distinct, each acknowledged
write adds one version, and the seek of a lookup finds the newest. That a
least node at or after a key exists is proved from the well-foundedness of the
natural numbers. `SizeBounds` is about a sum, a fold over the set of versions in an
order nobody knows. Solutions of its recursion exist on every finite set and agree
where their sets overlap, and any element can be taken out first; each by a
counterexample with the fewest elements. A write then adds the bytes of one
version to the sum, and `NodeSizes` says how much more the arena gives out.

**Checkpoint.** The invariant ties the flag to the history (`FlagKnown`: unset,
and nobody owed a release, before the first `release_all`; set from then until a
`reset`), says that a
thread's value is not among the captures until it captures and is there once
from then until `reset` clears them (`CapturedOnce`), and that no value is
captured of a call that has not begun (`NoneEarly`), without which a later call
could find its value there already. The count changes by one when the set of
blocked threads does.

**Timeline.** The invariant says that the stream (written, in the receiver's hands,
stored) has each accepted event once, and in the order of calls that follow each
other (`StreamKnown`); that the events of tasks inside emit have not returned and
differ, so that storing one repeats nothing and comes after every event that
returned before its call (`EventsKnown`); and that a permit is free, with a task
or with a stored event (`PermitsKnown`). A permit that is passed on goes to a task
that waits, once, since the line has no task twice.

Assumptions are those the modules declare: sets of keys are integers or
natural numbers, sizes are natural numbers, there is a level, the head fits
in the arena, threads and tasks are finitely many, and the channel has room;
nodes are among what is asked of the arena (`SizesFit`), and keys are byte strings
(`KeysAreBytes`). `PowersAssumption` is not about the code: it says what `^` means
on naturals, which the provers do not know, and is true of every base. TLC
evaluates all of them.

**Only model-checked.** Liveness: `PutReturns`, `ReadsReturn`, `AllocReturns`,
`WaitEnds` and `EmitReturns`. They rest on fairness, hence on ENABLED, which is out
of the prover's reach. The properties of the two violated runs are false and have
nothing to prove. What is proved is about the modules: that the memtable's sorted
set is the list, and that a node of `SkipList` is one of `NodeLayout`, are readings of
the code that the text above argues for, not theorems.

## Not modelled

- The components that are only designed (`src/docs/components`): write-ahead log,
  SSTables, levels, compaction, manifest, merge iterator, gRPC API. There is no
  code, so no crash recovery and no messages between nodes either.
- The memtable's iterator, a stub that is never valid: `seek` and `seek_to_first`
  forget the position, and `next`, `prev` and `seek_to_last` do nothing
  (`memtable.rs:186-213`). The `Iterator` trait is an interface.
- `Entry`, `ValueType`, `Error`: constructors and formatting; what of them matters
  is in `InternalKey` and `MemTable`.
- In the timeline, the no-ops of a build without the feature, which are never
  compiled because `lib.rs` declares the module only with it, the base64 encoder,
  which nothing calls, and cancellation.
- The wrap of `next_sequence` at 2^64, after 2^64 - 2^56 refused writes; the allocation and release of the arena's buffer; weak memory.

## Plan

1. (done) `SkipList` and `InsertOnlyMap`: the core. Its invariant and theorems.
2. (done) `SkipListReaders` over it; `Arena` and `BumpAllocator` with theorems.
3. (done) `InternalKey`, `MemTable` with theorems, `Checkpoint`.
4. (done) `Timeline`: emit and try_emit on a bounded channel, the number an event
   gets when it is serialized and what merging the event's own fields does to it.
5. (done) `NodeLayout`: header, tower, key and value bytes of a node in a region
   of the arena, with lengths of limited width.
6. (done) Proofs: the list as a map, the readers, the layout of nodes, the key
   encoding, the sizes of the memtable.
7. Proofs that connect modules: a memtable write as a put of `InsertOnlyMap`, keyed
   by internal keys; and variants that decrease, the safety half of the liveness properties.

Each module has its parameters as constants with named assumptions, one action
per operation or step, and invariants as conjunctions of named parts, so that
what TLC checks is what the theorems name. None declares a RECURSIVE operator.
