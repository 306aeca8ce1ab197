------------------------------- MODULE Arena -------------------------------
(***************************************************************************)
(* Arena of crates/stonedb-core/src/skiplist/arena.rs: bump allocation     *)
(* from one buffer, by any number of threads, with a compare-and-swap on   *)
(* the allocation pointer.  The pointer is modelled by its distance from   *)
(* the start of the buffer, NULL before the first allocation.              *)
(*                                                                         *)
(* Requests are those of alloc_node, which asks for at least a header and  *)
(* for no more than the addressable memory: the sums cannot wrap around.   *)
(***************************************************************************)
EXTENDS Integers, Sequences

CONSTANTS
  Threads,     \* the threads that share the arena
  Sizes,       \* what they ask for, in bytes
  CAPACITY     \* Arena.capacity

ASSUME SizesAssumption == Sizes \subseteq Nat \ {0}
ASSUME CapacityAssumption == CAPACITY \in Nat

ADDR_ALIGN_MASK == 7
NULL == 0

AlignNot(s) == s                          \* mutant: sizes are not rounded up

\* (size + ADDR_ALIGN_MASK) & !ADDR_ALIGN_MASK
Align(s) ==
  ((s + ADDR_ALIGN_MASK) \div (ADDR_ALIGN_MASK + 1)) * (ADDR_ALIGN_MASK + 1)

VARIABLES
  ptr,       \* Arena.ptr
  pc,        \* where each thread is in alloc
  size,      \* alloc's size, aligned
  seen,      \* alloc's current_ptr
  offset,    \* what the last alloc returned
  granted    \* history: the regions handed out, oldest first

vars == <<ptr, pc, size, seen, offset, granted>>

PCs == {"idle", "load", "cas", "granted", "panicked"}

Init ==
  /\ ptr = NULL
  /\ pc = [t \in Threads |-> "idle"]
  /\ size = [t \in Threads |-> 0]
  /\ seen = [t \in Threads |-> NULL]
  /\ offset = [t \in Threads |-> 0]
  /\ granted = << >>

\* The first allocation leaves offset 0 free: it stands for "no node".
OffsetOf(p) == IF p = NULL THEN 8 ELSE p

\* alloc is called.
Call(t) ==
  /\ pc[t] \in {"idle", "granted", "panicked"}
  /\ \E s \in Sizes : size' = [size EXCEPT ![t] = Align(s)]
  /\ pc' = [pc EXCEPT ![t] = "load"]
  /\ offset' = [offset EXCEPT ![t] = 0]
  /\ seen' = [seen EXCEPT ![t] = NULL]
  /\ UNCHANGED <<ptr, granted>>

\* Mutant: a request that fits exactly is refused.
OutOfMemoryEarly(t) ==
  /\ pc[t] = "load"
  /\ OffsetOf(ptr) + size[t] >= CAPACITY
  /\ pc' = [pc EXCEPT ![t] = "panicked"]
  /\ UNCHANGED <<ptr, size, seen, offset, granted>>

\* Load the pointer; panic if the request does not fit behind it.
Load(t) ==
  /\ pc[t] = "load"
  /\ OffsetOf(ptr) + size[t] <= CAPACITY
  /\ seen' = [seen EXCEPT ![t] = ptr]
  /\ pc' = [pc EXCEPT ![t] = "cas"]
  /\ UNCHANGED <<ptr, size, offset, granted>>

OutOfMemory(t) ==
  /\ pc[t] = "load"
  /\ OffsetOf(ptr) + size[t] > CAPACITY
  /\ pc' = [pc EXCEPT ![t] = "panicked"]
  /\ UNCHANGED <<ptr, size, seen, offset, granted>>

\* Mutants: a store in place of the compare-and-swap; a failed one is repeated
\* with the same expected value.
StoreOk(t) ==
  /\ pc[t] = "cas"
  /\ ptr' = OffsetOf(seen[t]) + size[t]
  /\ offset' = [offset EXCEPT ![t] = OffsetOf(seen[t])]
  /\ granted' = Append(granted, [off |-> OffsetOf(seen[t]), len |-> size[t]])
  /\ pc' = [pc EXCEPT ![t] = "granted"]
  /\ UNCHANGED <<size, seen>>
CasErrSpins(t) ==
  /\ pc[t] = "cas"
  /\ ptr # seen[t]
  /\ UNCHANGED vars

\* The compare-and-swap moves the pointer on, or another thread has done so.
CasOk(t) ==
  /\ pc[t] = "cas"
  /\ ptr = seen[t]
  /\ ptr' = OffsetOf(seen[t]) + size[t]
  /\ offset' = [offset EXCEPT ![t] = OffsetOf(seen[t])]
  /\ granted' = Append(granted, [off |-> OffsetOf(seen[t]), len |-> size[t]])
  /\ pc' = [pc EXCEPT ![t] = "granted"]
  /\ UNCHANGED <<size, seen>>

CasErr(t) ==
  /\ pc[t] = "cas"
  /\ ptr # seen[t]
  /\ pc' = [pc EXCEPT ![t] = "load"]
  /\ UNCHANGED <<ptr, size, seen, offset, granted>>

Alloc(t) == Load(t) \/ OutOfMemory(t) \/ CasOk(t) \/ CasErr(t)

Next == \E t \in Threads : Call(t) \/ Alloc(t)

Spec == Init /\ [][Next]_vars

\* The operating system schedules every runnable thread.
FairSpec == Spec /\ \A t \in Threads : WF_vars(Alloc(t))

\* offset() and len(): the bytes allocated so far.
len == ptr

-----------------------------------------------------------------------------
TypeOK ==
  /\ ptr \in 0 .. CAPACITY
  /\ pc \in [Threads -> PCs]
  /\ size \in [Threads -> Nat]
  /\ seen \in [Threads -> 0 .. CAPACITY]
  /\ offset \in [Threads -> 0 .. CAPACITY]
  /\ granted \in Seq([off : Nat, len : Nat])

(***************************************************************************)
(* No two allocations share a byte, and none reaches out of the buffer or  *)
(* into offset 0, however the threads race: nodes never overwrite each     *)
(* other, and the null offset never names a node.                          *)
(***************************************************************************)
Disjoint ==
  \A i \in 1 .. Len(granted) :
    /\ 8 <= granted[i].off
    /\ granted[i].off + granted[i].len <= CAPACITY
    /\ \A j \in 1 .. Len(granted) : i < j =>
         granted[i].off + granted[i].len <= granted[j].off

(***************************************************************************)
(* Every region starts at a multiple of 8, so that the atomic fields of a  *)
(* node are aligned (mod.rs, node layout).                                 *)
(***************************************************************************)
Aligned == \A i \in 1 .. Len(granted) : granted[i].off % 8 = 0

(***************************************************************************)
(* No bytes are lost between two regions: a failed compare-and-swap takes  *)
(* nothing, and len() is the end of the last region.                       *)
(***************************************************************************)
NoGaps ==
  /\ \A i \in 1 .. Len(granted) - 1 :
       granted[i + 1].off = granted[i].off + granted[i].len
  /\ Len(granted) > 0 =>
       len = granted[Len(granted)].off + granted[Len(granted)].len

(***************************************************************************)
(* All the bytes handed out lie one region after the other, aligned, in    *)
(* the buffer, whichever threads raced for them.                           *)
(***************************************************************************)
SoundLayout == Disjoint /\ Aligned /\ NoGaps

(***************************************************************************)
(* A panic is never premature: what was refused would not fit later either.*)
(***************************************************************************)
PanicOnlyWhenFull ==
  \A t \in Threads : pc[t] = "panicked" => OffsetOf(ptr) + size[t] > CAPACITY

(***************************************************************************)
(* alloc returns or panics: a compare-and-swap only fails when another one *)
(* succeeded, and every success uses up some of the buffer.                *)
(***************************************************************************)
AllocReturns ==
  \A t \in Threads : pc[t] \in {"load", "cas"} ~> pc[t] \in {"granted", "panicked"}

(***************************************************************************)
(* alloc is atomic: the retry loop implements the one-step allocator.      *)
(***************************************************************************)
Bump == INSTANCE BumpAllocator
          WITH Sizes <- {Align(s) : s \in Sizes},
               free <- OffsetOf(ptr),
               status <- [t \in Threads |->
                            IF pc[t] \in {"load", "cas"} THEN "called" ELSE pc[t]]

Atomic == Bump!Spec
=============================================================================
