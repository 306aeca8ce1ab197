----------------------------- MODULE NodeLayout -----------------------------
(***************************************************************************)
(* The bytes of a skip list node (crates/stonedb-core/src/skiplist/mod.rs, *)
(* "Node layout in the arena"), on top of the allocations of Arena.        *)
(* Threads allocate nodes concurrently, fill them in, and store links into *)
(* nodes that are known to all.  Module SkipList takes for granted what    *)
(* this module is about: that a node is a record of independent fields.    *)
(*                                                                         *)
(* A byte of memory is the i-th of the w bytes of a stored value v, or has *)
(* never been written.  A load of w bytes finds v only if it meets all     *)
(* bytes of one store of v in their places.                                *)
(***************************************************************************)
EXTENDS Arena, FiniteSetsExt

CONSTANTS
  Shapes,      \* the nodes that are made: records of key, value and height
  LEN_LIMIT,   \* the lengths of key and value are stored modulo this (2^32)
  STORES       \* bound: how many links are stored

ASSUME ShapesAssumption ==
  \A s \in Shapes : s.key \in Seq(Nat) /\ s.value \in Seq(Nat) /\ s.height \in Nat
ASSUME LimitsAssumption == LEN_LIMIT \in Nat \ {0} /\ STORES \in Nat

KEY_LEN_OFF == 0
VALUE_LEN_OFF == 4
HEIGHT_OFF == 8
PREV_OFF == 16
TOWER_OFF == 24

U32 == 4                 \* size_of::<u32>()
USIZE == 8               \* size_of::<AtomicUsize>()

kv_data_off_short(h) == TOWER_OFF + h * USIZE    \* mutant: one slot too few
kv_data_off(h) == TOWER_OFF + (h + 1) * USIZE

\* Mutant: the value's bytes are not asked for.
NodeSizeKeyOnly(s) == kv_data_off(s.height) + Len(s.key)
NodeSize(s) == kv_data_off(s.height) + Len(s.key) + Len(s.value)

ASSUME SizesFit == \A s \in Shapes : NodeSize(s) \in Sizes

VARIABLES
  mem,      \* the buffer
  asked,    \* the node each thread is in alloc_node for, or NoNode
  nodes,    \* history: the nodes made, and what was stored in their links
  stores    \* how many links were stored

nodevars == <<mem, asked, nodes, stores>>
layoutvars == <<vars, nodevars>>

Unwritten == <<0, 0, 0>>
Pieces(v, w) == [i \in 1 .. w |-> <<v, i, w>>]
Data(s) == [i \in 1 .. Len(s) |-> <<s[i], 1, 1>>]
NoNode == [key |-> << >>, value |-> << >>, height |-> -1]

LayoutInit ==
  /\ Init
  /\ mem = [a \in 0 .. CAPACITY - 1 |-> Unwritten]
  /\ asked = [t \in Threads |-> NoNode]
  /\ nodes = << >>
  /\ stores = 0

\* A later store wins where two overlap.
At(a, bytes) == [at |-> a, bytes |-> bytes]
Covers(w, a) == w.at <= a /\ a < w.at + Len(w.bytes)
Written(writes) ==
  [a \in DOMAIN mem |->
     LET hits == {i \in DOMAIN writes : Covers(writes[i], a)} IN
     IF hits = {} THEN mem[a]
     ELSE LET w == writes[Max(hits)] IN w.bytes[a - w.at + 1]]

(***************************************************************************)
(* alloc_node: the allocation, which is Arena's and takes several steps,   *)
(* and the stores to the fresh region, which nobody else knows yet.        *)
(***************************************************************************)
AllocNode(t) ==
  /\ asked[t] = NoNode
  /\ Call(t)
  /\ \E s \in Shapes :
       /\ size'[t] = Align(NodeSize(s))
       /\ asked' = [asked EXCEPT ![t] = s]
  /\ UNCHANGED <<mem, nodes, stores>>

ArenaStep(t) ==
  /\ Load(t) \/ CasOk(t) \/ CasErr(t)
  /\ UNCHANGED nodevars

ArenaPanic(t) ==
  /\ OutOfMemory(t)
  /\ asked' = [asked EXCEPT ![t] = NoNode]
  /\ UNCHANGED <<mem, nodes, stores>>

PrevAt(o) == o + PREV_OFF
SlotAt(o, l) == o + TOWER_OFF + l * USIZE

\* Mutant: the links are not initialized, the memory is taken to be zero.
FieldStoresNoLinks(o, s) ==
  LET kv == o + kv_data_off(s.height) IN
  << At(o + KEY_LEN_OFF, Pieces(Len(s.key) % LEN_LIMIT, U32)),
     At(o + VALUE_LEN_OFF, Pieces(Len(s.value) % LEN_LIMIT, U32)),
     At(o + HEIGHT_OFF, Pieces(s.height, U32)),
     At(kv, Data(s.key)), At(kv + Len(s.key), Data(s.value)) >>

\* The stores of alloc_node, in their order.
FieldStores(o, s) ==
  LET kv == o + kv_data_off(s.height) IN
  << At(o + KEY_LEN_OFF, Pieces(Len(s.key) % LEN_LIMIT, U32)),
     At(o + VALUE_LEN_OFF, Pieces(Len(s.value) % LEN_LIMIT, U32)),
     At(o + HEIGHT_OFF, Pieces(s.height, U32)),
     At(PrevAt(o), Pieces(NULL, USIZE)) >>
  \o [i \in 1 .. s.height + 1 |-> At(SlotAt(o, i - 1), Pieces(NULL, USIZE))]
  \o << At(kv, Data(s.key)), At(kv + Len(s.key), Data(s.value)) >>

FillNode(t) ==
  /\ pc[t] = "granted" /\ asked[t] # NoNode
  /\ mem' = Written(FieldStores(offset[t], asked[t]))
  /\ nodes' = [o \in DOMAIN nodes \cup {offset[t]} |->
                 IF o \in DOMAIN nodes THEN nodes[o]
                 ELSE [shape |-> asked[t], prev |-> NULL,
                       tower |-> [l \in 0 .. asked[t].height |-> NULL]]]
  /\ asked' = [asked EXCEPT ![t] = NoNode]
  /\ UNCHANGED <<vars, stores>>

(***************************************************************************)
(* put links nodes: a store (or a compare-and-swap that succeeds) of an    *)
(* offset to a level that the node has, or to its prev pointer.  Any       *)
(* thread may do it to any node that has been made.                        *)
(***************************************************************************)
StoreNext ==
  /\ stores < STORES /\ stores' = stores + 1
  /\ \E o, n \in DOMAIN nodes : \E l \in DOMAIN nodes[o].tower :
       /\ mem' = Written(<<At(SlotAt(o, l), Pieces(n, USIZE))>>)
       /\ nodes' = [nodes EXCEPT ![o].tower[l] = n]
  /\ UNCHANGED <<vars, asked>>

StorePrev ==
  /\ stores < STORES /\ stores' = stores + 1
  /\ \E o, n \in DOMAIN nodes :
       /\ mem' = Written(<<At(PrevAt(o), Pieces(n, USIZE))>>)
       /\ nodes' = [nodes EXCEPT ![o].prev = n]
  /\ UNCHANGED <<vars, asked>>

LayoutNext ==
  \/ \E t \in Threads : AllocNode(t) \/ ArenaStep(t) \/ ArenaPanic(t) \/ FillNode(t)
  \/ StoreNext \/ StorePrev

LayoutSpec == LayoutInit /\ [][LayoutNext]_layoutvars

\* The operating system schedules every runnable thread.
LayoutFairSpec ==
  /\ LayoutSpec
  /\ \A t \in Threads : WF_layoutvars(ArenaStep(t) \/ ArenaPanic(t))

(***************************************************************************)
(* The accessors.  A load that does not meet one whole store finds garbage.*)
(***************************************************************************)
Garbage == -1
Byte(a) == IF a \in DOMAIN mem THEN mem[a] ELSE Unwritten
LoadAt(a, w) ==
  IF \A i \in 1 .. w : Byte(a + i - 1) = <<Byte(a)[1], i, w>> THEN Byte(a)[1] ELSE Garbage
Slice(a, n) == [i \in 1 .. n |-> Byte(a + i - 1)]

node_key_len(o) == LoadAt(o + KEY_LEN_OFF, U32)
node_value_len(o) == LoadAt(o + VALUE_LEN_OFF, U32)
node_height(o) == LoadAt(o + HEIGHT_OFF, U32)
node_prev(o) == LoadAt(PrevAt(o), USIZE)
node_next_offset(o, l) == LoadAt(SlotAt(o, l), USIZE)
node_key(o) == Slice(o + kv_data_off(node_height(o)), node_key_len(o))
node_value(o) ==
  Slice(o + kv_data_off(node_height(o)) + node_key_len(o), node_value_len(o))

-----------------------------------------------------------------------------
(***************************************************************************)
(* Every node reads back what was last stored in it, whatever nodes were   *)
(* made and links stored next to it, and never memory that was not         *)
(* written: the bytes implement the records of module SkipList.  A key or  *)
(* value of LEN_LIMIT bytes or more is not read back: its length is cut    *)
(* off, and a long key also moves the value.                               *)
(***************************************************************************)
Short(s) == Len(s.key) < LEN_LIMIT /\ Len(s.value) < LEN_LIMIT

ReadBack ==
  \A o \in DOMAIN nodes :
    /\ node_height(o) = nodes[o].shape.height
    /\ node_prev(o) = nodes[o].prev
    /\ \A l \in DOMAIN nodes[o].tower : node_next_offset(o, l) = nodes[o].tower[l]
    /\ Short(nodes[o].shape) => /\ node_key(o) = Data(nodes[o].shape.key)
                                /\ node_value(o) = Data(nodes[o].shape.value)

(***************************************************************************)
(* What an accessor touches belongs to the node, also when a length was    *)
(* cut off, and its atomics are aligned.                                   *)
(***************************************************************************)
AccessInside ==
  \A o \in DOMAIN nodes :
    /\ PrevAt(o) % USIZE = 0
    /\ \A l \in DOMAIN nodes[o].tower : SlotAt(o, l) % USIZE = 0
    /\ \E g \in DOMAIN granted :
         /\ granted[g].off = o
         /\ SlotAt(o, node_height(o)) + USIZE <= o + granted[g].len
         /\ kv_data_off(node_height(o)) + node_key_len(o) + node_value_len(o)
              <= granted[g].len
=============================================================================
