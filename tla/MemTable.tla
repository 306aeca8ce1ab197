------------------------------ MODULE MemTable ------------------------------
(***************************************************************************)
(* MemTable of crates/stonedb-core/src/memtable.rs: every write of a key   *)
(* is a node of its own in a skip list, under the key's internal key, and  *)
(* a read is a seek to the newest version.                                 *)
(*                                                                         *)
(* put and delete take &mut self: nobody else uses the table meanwhile, so *)
(* each is one step and the skip list is the sorted map that module        *)
(* SkipList implements.  A panic of the arena unwinds through put and      *)
(* leaves a table that can still be used.                                  *)
(*                                                                         *)
(* Keys and values stand for byte strings that differ in length: their     *)
(* length is all that is looked at besides their order.  The trailer of an *)
(* internal key is the integer its eight bytes encode (module InternalKey  *)
(* has the bytes).                                                         *)
(***************************************************************************)
EXTENDS Integers, FiniteSets, FiniteSetsExt

CONSTANTS
  UserKeys,      \* user keys, in the order of their bytes
  Values,        \* values
  MAX_SEQUENCE,  \* the last sequence number
  LAST_CALL,     \* bound: next_sequence is not counted further
  MAX_HEIGHT,    \* tower slots of the tallest node
  CAPACITY       \* bytes of the arena that are left for nodes

ASSUME KeysAssumption == UserKeys \subseteq Nat /\ Values \subseteq Nat
ASSUME SizesAssumption == MAX_SEQUENCE \in Nat /\ LAST_CALL \in Nat /\ CAPACITY \in Nat
ASSUME HeightAssumption == MAX_HEIGHT \in Nat \ {0}

VARIABLES
  list,              \* the nodes of the skip list
  next_sequence,
  approximate_size,
  mem_size,          \* the bytes the arena has handed out
  last,              \* what the last write returned
  newest             \* history: the last acknowledged write of each key

mtvars == <<list, next_sequence, approximate_size, mem_size, last, newest>>

ValueType == {"Value", "Delete"}

(***************************************************************************)
(* Internal keys.                                                          *)
(***************************************************************************)
TypeByte(t) == IF t = "Value" THEN 1 ELSE 0

\* Mutant: the sequence number is stored as it is.
newAscending(k, s, t) == [user |-> k, trailer |-> s * 256 + TypeByte(t)]
new(k, s, t) == [user |-> k, trailer |-> (MAX_SEQUENCE - s) * 256 + TypeByte(t)]

new_max(k) == new(k, MAX_SEQUENCE, "Value")
sequence(ik) == MAX_SEQUENCE - ik.trailer \div 256
value_type(ik) == IF ik.trailer % 256 = 1 THEN "Value" ELSE "Delete"

\* InternalKeyComparator
Before(a, b) == a.user < b.user \/ (a.user = b.user /\ a.trailer < b.trailer)

(***************************************************************************)
(* The skip list: put of a key that is there changes nothing; seek finds   *)
(* the first node at or after a key.                                       *)
(***************************************************************************)
Present(ik) == \E n \in list : n.key = ik
AtOrAfter(ik) == {n \in list : ~Before(n.key, ik)}
seek(ik) == CHOOSE n \in AtOrAfter(ik) : \A m \in AtOrAfter(ik) : ~Before(m.key, n.key)

\* Bytes of a node: header, tower, key with trailer, value, rounded up to 8.
NodeSize(h, k, v) == ((24 + 8 * (h + 1) + k + 8 + v + 7) \div 8) * 8
Fits(h, k, v) == mem_size + NodeSize(h, k, v) <= CAPACITY

(***************************************************************************)
(* MemTable::lookup: seek to the newest version, confirm the user key.     *)
(***************************************************************************)
None == [sequence |-> 0, value |-> 0, value_type |-> "none"]

lookup(k) ==
  IF AtOrAfter(new_max(k)) = {} THEN None
  ELSE LET n == seek(new_max(k))
       IN IF n.key.user # k THEN None
          ELSE [sequence |-> sequence(n.key), value |-> n.value,
                value_type |-> value_type(n.key)]

\* Option<Vec<u8>>, as a set; and contains, which counts tombstones.
get(k) == IF lookup(k).value_type = "Value" THEN {lookup(k).value} ELSE {}
contains(k) == lookup(k) # None

Init ==
  /\ list = {}
  /\ next_sequence = 1
  /\ approximate_size = 0
  /\ mem_size = 0
  /\ last = "none"
  /\ newest = [k \in UserKeys |-> None]

(***************************************************************************)
(* Both writes take a sequence number first, whatever becomes of it.       *)
(***************************************************************************)
TakeSequenceTwice ==             \* mutant: the number is not taken
  /\ next_sequence <= LAST_CALL
  /\ next_sequence' \in {next_sequence, next_sequence + 1}

TakeSequence ==
  /\ next_sequence <= LAST_CALL
  /\ next_sequence' = next_sequence + 1

\* Mutant: the number after the last one is still used.
OverflowedLate == next_sequence > MAX_SEQUENCE + 1
Overflowed == next_sequence > MAX_SEQUENCE

\* Err(SequenceOverflow)
Overflow ==
  /\ TakeSequence
  /\ Overflowed
  /\ last' = "overflow"
  /\ UNCHANGED <<list, approximate_size, mem_size, newest>>

\* The arena is out of memory: the panic comes before anything is linked.
Panic(k, v) ==
  /\ TakeSequence
  /\ ~Overflowed
  /\ \E h \in 0 .. MAX_HEIGHT - 1 : ~Fits(h, k, v)
  /\ last' = "panic"
  /\ UNCHANGED <<list, approximate_size, mem_size, newest>>

\* Mutant: only the bytes of the value are counted.
VersionSizeOfValue(k, v) == v
VersionSize(k, v) == k + v + 8

\* The write of one version: a new node, its bytes counted, the answer Ok(seq).
Write(k, v, t) ==
  LET ik == new(k, next_sequence, t) IN
  /\ TakeSequence
  /\ ~Overflowed
  /\ \E h \in 0 .. MAX_HEIGHT - 1 :
       /\ Fits(h, k, v)
       /\ mem_size' = IF Present(ik) THEN mem_size ELSE mem_size + NodeSize(h, k, v)
  /\ list' = IF Present(ik) THEN list ELSE list \cup {[key |-> ik, value |-> v]}
  /\ approximate_size' = approximate_size + VersionSize(k, v)
  /\ last' = "ok"
  /\ newest' = [newest EXCEPT ![k] =
                  [sequence |-> next_sequence, value |-> v, value_type |-> t]]

\* A tombstone has no value bytes.
Put == \E k \in UserKeys, v \in Values : Write(k, v, "Value") \/ Panic(k, v)
Delete == \E k \in UserKeys : Write(k, 0, "Delete") \/ Panic(k, 0)

Next == Put \/ Delete \/ Overflow

Spec == Init /\ [][Next]_mtvars

-----------------------------------------------------------------------------
TypeOK ==
  /\ list \subseteq [key : [user : UserKeys, trailer : Nat], value : Nat]
  /\ next_sequence \in 1 .. LAST_CALL + 1
  /\ approximate_size \in Nat
  /\ mem_size \in 0 .. CAPACITY
  /\ last \in {"none", "ok", "overflow", "panic"}
  /\ newest \in [UserKeys -> [sequence : Nat, value : Nat,
                              value_type : ValueType \cup {"none"}]]

(***************************************************************************)
(* A read finds the last write that was acknowledged, with its sequence    *)
(* number, among all the versions and keys in the table, and after refused *)
(* and panicked writes.  The exception is a delete that got the very last  *)
(* sequence number: its tombstone sorts before what lookup seeks.          *)
(***************************************************************************)
NewestWins ==
  \A k \in UserKeys :
    \/ lookup(k) = newest[k]
    \/ newest[k].sequence = MAX_SEQUENCE /\ newest[k].value_type = "Delete"

(***************************************************************************)
(* No sequence number is used twice, whatever fails in between: so no      *)
(* write ever meets its own key in the skip list and is dropped there      *)
(* (memtable.rs ignores the answer of the list's put).                     *)
(***************************************************************************)
DistinctVersions ==
  \A m, n \in list : sequence(m.key) = sequence(n.key) => m = n

(***************************************************************************)
(* An acknowledged write adds one version and keeps all the others; a      *)
(* write that fails changes nothing that can be read.                      *)
(***************************************************************************)
WritesAdd ==
  [][IF last' = "ok"
     THEN list \subseteq list' /\ Cardinality(list') = Cardinality(list) + 1
     ELSE list' = list]_mtvars

(***************************************************************************)
(* approximate_size is the size of the keys and values of all versions,    *)
(* failed writes not counted, and is below what the arena has given out by *)
(* at most the header, the tallest tower and the padding of each node.     *)
(***************************************************************************)
SizeBounds ==
  /\ approximate_size = MapThenSumSet(LAMBDA n : n.key.user + n.value + 8, list)
  /\ approximate_size <= mem_size
  /\ mem_size <= approximate_size + Cardinality(list) * (24 + 8 * MAX_HEIGHT + 7)
=============================================================================
