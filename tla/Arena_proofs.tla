---------------------------- MODULE Arena_proofs ----------------------------
(***************************************************************************)
(* Proofs about Arena, for every capacity, set of threads and set of       *)
(* request sizes; and, in the second half, about NodeLayout, the nodes in  *)
(* the regions that it grants, for every set of nodes and any number of    *)
(* links stored.                                                           *)
(***************************************************************************)
EXTENDS NodeLayout, SequenceTheorems, TLAPS

\* Rounding up to the alignment.
LEMMA AlignFacts ==
  ASSUME NEW s \in Sizes
  PROVE  Align(s) \in Nat /\ Align(s) >= s /\ Align(s) > 0 /\ Align(s) % 8 = 0
<1>1. s \in Nat /\ s > 0
  BY SizesAssumption
<1> DEFINE q == (s + 7) \div 8
<1>2. q \in Nat /\ 8 * q <= s + 7 /\ s + 7 < 8 * q + 8
  BY <1>1
<1>3. Align(s) = q * 8
  BY DEF Align, ADDR_ALIGN_MASK
<1>4. q * 8 \in Nat /\ q * 8 >= s /\ q * 8 > 0
  BY <1>1, <1>2
<1>5. (q * 8) % 8 = 0
  <2> HIDE DEF q
  <2>1. QED
    BY <1>2
<1>6. QED
  BY <1>3, <1>4, <1>5

(***************************************************************************)
(* The inductive invariant: the pointer is the end of the last region.     *)
(***************************************************************************)
End(r) == r.off + r.len

Regions ==
  /\ ptr = NULL => Len(granted) = 0
  /\ ptr # NULL => Len(granted) > 0 /\ ptr = End(granted[Len(granted)])
  /\ OffsetOf(ptr) % 8 = 0
  /\ \A i \in 1 .. Len(granted) :
       /\ 8 <= granted[i].off /\ 0 < granted[i].len
       /\ End(granted[i]) <= ptr
       /\ granted[i].off % 8 = 0
       /\ \A j \in 1 .. Len(granted) : i < j => End(granted[i]) <= granted[j].off
  /\ \A i \in 1 .. Len(granted) - 1 : granted[i + 1].off = End(granted[i])

Waiting(t) ==
  /\ pc[t] # "idle" => 0 < size[t] /\ size[t] % 8 = 0
  /\ pc[t] = "cas" => OffsetOf(seen[t]) + size[t] <= CAPACITY
  /\ pc[t] = "panicked" => OffsetOf(ptr) + size[t] > CAPACITY

IInv == TypeOK /\ Regions /\ \A t \in Threads : Waiting(t)

LEMMA InitIInv == Init => IInv
<1> SUFFICES ASSUME Init PROVE IInv
  OBVIOUS
<1>1. TypeOK
  BY CapacityAssumption DEF Init, TypeOK, PCs, NULL
<1>2. Regions
  BY DEF Init, Regions, NULL, OffsetOf
<1>3. \A t \in Threads : Waiting(t)
  BY DEF Init, Waiting
<1>4. QED
  BY <1>1, <1>2, <1>3 DEF IInv

\* What the actions read.
LEMMA Reads ==
  ASSUME TypeOK, NEW t \in Threads
  PROVE  /\ pc[t] \in PCs /\ size[t] \in Nat /\ offset[t] \in 0 .. CAPACITY
         /\ seen[t] \in 0 .. CAPACITY /\ seen[t] \in Int
         /\ ptr \in Int /\ ptr >= 0 /\ CAPACITY \in Nat
         /\ OffsetOf(ptr) \in Int /\ OffsetOf(seen[t]) \in Int
         /\ OffsetOf(ptr) > 0 /\ OffsetOf(seen[t]) > 0
  BY CapacityAssumption DEF TypeOK, OffsetOf, NULL

LEMMA CallStep ==
  ASSUME IInv, NEW t \in Threads, Call(t)
  PROVE  IInv'
<1>1. TypeOK /\ Regions /\ \A u \in Threads : Waiting(u)
  BY DEF IInv
<1>2. PICK s \in Sizes : size' = [size EXCEPT ![t] = Align(s)]
  BY DEF Call
<1>3. Align(s) \in Nat /\ 0 < Align(s) /\ Align(s) % 8 = 0
  BY AlignFacts
<1>4. TypeOK'
  BY <1>1, <1>2, <1>3, CapacityAssumption DEF Call, TypeOK, PCs, NULL
<1>5. Regions'
  BY <1>1 DEF Call, Regions, OffsetOf
<1>6. ASSUME NEW u \in Threads PROVE Waiting(u)'
  <2>1. CASE u = t
    BY <1>1, <1>2, <1>3, <2>1 DEF Call, Waiting, TypeOK
  <2>2. CASE u # t
    <3>1. Waiting(u)
      BY <1>1
    <3>2. size'[u] = size[u] /\ pc'[u] = pc[u] /\ seen'[u] = seen[u] /\ ptr' = ptr
      BY <1>1, <1>2, <2>2 DEF Call, TypeOK
    <3>3. QED
      BY <3>1, <3>2 DEF Waiting, OffsetOf
  <2>3. QED
    BY <2>1, <2>2
<1>7. QED
  BY <1>4, <1>5, <1>6 DEF IInv

\* The steps that only move a thread on.
LEMMA MoveStep ==
  ASSUME IInv, NEW t \in Threads, Load(t) \/ OutOfMemory(t) \/ CasErr(t)
  PROVE  IInv'
<1>1. TypeOK /\ Regions /\ \A u \in Threads : Waiting(u)
  BY DEF IInv
<1>2. UNCHANGED <<ptr, granted, size, offset>>
  BY DEF Load, OutOfMemory, CasErr
<1>3. TypeOK'
  BY <1>1 DEF Load, OutOfMemory, CasErr, TypeOK, PCs
<1>4. Regions'
  BY <1>1, <1>2 DEF Regions, OffsetOf
<1>5. ASSUME NEW u \in Threads PROVE Waiting(u)'
  <2>1. CASE u = t
    BY <1>1, <1>2, <2>1 DEF Load, OutOfMemory, CasErr, Waiting, TypeOK, OffsetOf
  <2>2. CASE u # t
    <3>1. Waiting(u)
      BY <1>1
    <3>2. pc'[u] = pc[u] /\ seen'[u] = seen[u]
      BY <1>1, <2>2 DEF Load, OutOfMemory, CasErr, TypeOK
    <3>3. QED
      BY <1>2, <3>1, <3>2 DEF Waiting, OffsetOf
  <2>3. QED
    BY <2>1, <2>2
<1>6. QED
  BY <1>3, <1>4, <1>5 DEF IInv

LEMMA CasOkStep ==
  ASSUME IInv, NEW t \in Threads, CasOk(t)
  PROVE  IInv'
<1> DEFINE o == OffsetOf(ptr)
           s == size[t]
           n == Len(granted)
           r == [off |-> o, len |-> s]
<1>1. TypeOK /\ Regions /\ \A u \in Threads : Waiting(u)
  BY DEF IInv
<1>2. /\ ptr' = o + s /\ granted' = Append(granted, r)
      /\ UNCHANGED <<size, seen>>
      /\ pc' = [pc EXCEPT ![t] = "granted"] /\ offset' = [offset EXCEPT ![t] = o]
      /\ pc[t] = "cas" /\ seen[t] = ptr
  BY DEF CasOk
<1>3. o \in Int /\ 8 <= o /\ s \in Nat /\ 0 < s /\ o + s <= CAPACITY /\ ptr \in Int
      /\ o % 8 = 0 /\ s % 8 = 0 /\ ptr <= o /\ CAPACITY \in Nat
  <2>1. Waiting(t) /\ seen[t] = ptr
    BY <1>1, <1>2
  <2>2. ptr # NULL => 8 <= ptr
    <3> SUFFICES ASSUME ptr # NULL PROVE 8 <= ptr
      OBVIOUS
    <3>0. granted \in Seq([off : Nat, len : Nat])
      BY <1>1 DEF TypeOK
    <3>1. n \in 1 .. Len(granted) /\ ptr = End(granted[n])
      BY <1>1, <3>0 DEF Regions
    <3>2. granted[n].off \in Nat /\ granted[n].len \in Nat
      <4>1. granted[n] \in [off : Nat, len : Nat]
        BY <3>0, <3>1, ElementOfSeq
      <4>2. QED
        BY <4>1
    <3>3. 8 <= granted[n].off /\ 0 < granted[n].len
      BY <1>1, <3>1 DEF Regions
    <3>4. QED
      BY <3>1, <3>2, <3>3 DEF End
  <2>3. 8 <= o /\ ptr <= o
    BY <1>1, <2>2, Reads DEF OffsetOf, NULL
  <2>4. QED
    BY <1>1, <1>2, <2>1, <2>3, Reads DEF Waiting, Regions
<1> HIDE DEF o, s
<1>4. /\ n \in Nat
      /\ r.off = o /\ r.len = s
      /\ granted' \in Seq([off : Nat, len : Nat])
      /\ Len(granted') = n + 1 /\ granted'[n + 1] = r
      /\ \A i \in 1 .. n :
           granted'[i] = granted[i] /\ granted[i].off \in Nat /\ granted[i].len \in Nat
  <2> DEFINE R == [off : Nat, len : Nat]
  <2>1. granted \in Seq(R) /\ granted' = Append(granted, r)
    BY <1>1, <1>2 DEF TypeOK
  <2>2. r \in R
    BY <1>3
  <2> HIDE DEF R, r
  <2>3. /\ n \in Nat /\ granted' \in Seq(R)
        /\ Len(granted') = n + 1 /\ granted'[n + 1] = r
        /\ \A i \in 1 .. n : granted'[i] = granted[i] /\ granted[i] \in R
    BY <2>1, <2>2
  <2>4. QED
    BY <2>3 DEF R, r
<1> HIDE DEF n, r
<1>5. TypeOK'
  <2>1. ptr' \in 0 .. CAPACITY /\ o \in 0 .. CAPACITY
    BY <1>2, <1>3
  <2>2. QED
    BY <1>1, <1>2, <1>4, <2>1 DEF TypeOK, PCs
<1>6. OffsetOf(ptr') = o + s /\ ptr' # NULL
  BY <1>2, <1>3 DEF OffsetOf, NULL
<1>7. Regions'
  <2>1. Len(granted') > 0 /\ ptr' = End(granted'[Len(granted')])
    BY <1>2, <1>4 DEF End
  <2>2. OffsetOf(ptr') % 8 = 0
    BY <1>3, <1>6
  <2>3. ASSUME NEW i \in 1 .. n + 1
        PROVE  /\ 8 <= granted'[i].off /\ 0 < granted'[i].len
               /\ End(granted'[i]) <= ptr'
               /\ granted'[i].off % 8 = 0
               /\ i <= n => End(granted'[i]) <= o
    <3>1. CASE i = n + 1
      BY <1>2, <1>3, <1>4, <3>1 DEF End
    <3>2. CASE i # n + 1
      <4>1. i \in 1 .. n /\ granted'[i] = granted[i]
        BY <1>4, <3>2
      <4>2. 8 <= granted[i].off /\ 0 < granted[i].len /\ End(granted[i]) <= ptr
            /\ granted[i].off % 8 = 0
        BY <1>1, <4>1 DEF Regions, n
      <4>3. End(granted[i]) \in Int
        BY <1>4, <4>1 DEF End
      <4>4. QED
        BY <1>2, <1>3, <4>1, <4>2, <4>3
    <3>3. QED
      BY <3>1, <3>2
  <2>4. ASSUME NEW i \in 1 .. n + 1, NEW j \in 1 .. n + 1, i < j
        PROVE  End(granted'[i]) <= granted'[j].off
    <3>1. CASE j = n + 1
      BY <1>4, <2>3, <2>4, <3>1
    <3>2. CASE j # n + 1
      <4>1. i \in 1 .. n /\ j \in 1 .. n
        BY <1>4, <2>4, <3>2
      <4>2. QED
        BY <1>1, <1>4, <2>4, <4>1 DEF Regions, n
    <3>3. QED
      BY <3>1, <3>2
  <2>5. ASSUME NEW i \in 1 .. n PROVE granted'[i + 1].off = End(granted'[i])
    <3>1. CASE i = n
      <4>1. ptr # NULL
        BY <1>1, <1>4, <3>1 DEF Regions, n
      <4>2. o = End(granted[n])
        BY <1>1, <4>1 DEF Regions, o, n, OffsetOf
      <4>3. QED
        BY <1>4, <3>1, <4>2
    <3>2. CASE i # n
      <4>1. i \in 1 .. n - 1 /\ i + 1 \in 1 .. n /\ i \in 1 .. n
        BY <1>4, <3>2
      <4>2. QED
        BY <1>1, <1>4, <4>1 DEF Regions, n
    <3>3. QED
      BY <3>1, <3>2
  <2>6. Len(granted') = n + 1 /\ Len(granted') - 1 = n
    BY <1>4
  <2>7. QED
    BY <1>6, <2>1, <2>2, <2>3, <2>4, <2>5, <2>6 DEF Regions
<1>8. ASSUME NEW u \in Threads PROVE Waiting(u)'
  <2>1. Waiting(u) /\ size'[u] = size[u] /\ seen'[u] = seen[u] /\ size[u] \in Nat
    BY <1>1, <1>2, Reads
  <2>2. pc'[u] = IF u = t THEN "granted" ELSE pc[u]
    BY <1>1, <1>2 DEF TypeOK
  <2>3. o + size[u] > CAPACITY => o + s + size[u] > CAPACITY
    BY <1>3, <2>1
  <2>4. OffsetOf(ptr)' = o + s /\ OffsetOf(seen[u])' = OffsetOf(seen[u])
    BY <1>6, <2>1 DEF OffsetOf
  <2>5. CASE u = t
    BY <1>2, <1>3, <2>1, <2>2, <2>5 DEF Waiting, s
  <2>6. CASE u # t
    BY <2>1, <2>2, <2>3, <2>4, <2>6 DEF Waiting, o
  <2>7. QED
    BY <2>5, <2>6
<1>9. QED
  BY <1>5, <1>7, <1>8 DEF IInv

LEMMA StepIInv == IInv /\ [Next]_vars => IInv'
<1> SUFFICES ASSUME IInv, [Next]_vars PROVE IInv'
  OBVIOUS
<1>1. CASE UNCHANGED vars
  BY <1>1 DEF IInv, TypeOK, Regions, Waiting, OffsetOf, vars
<1>2. CASE Next
  BY <1>2, CallStep, MoveStep, CasOkStep DEF Next, Alloc
<1>3. QED
  BY <1>1, <1>2

\* The inductive invariant holds in every state.
THEOREM Invariance == Spec => []IInv
  BY InitIInv, StepIInv, PTL DEF Spec

(***************************************************************************)
(* No two allocations overlap, and all of them lie in the buffer.          *)
(***************************************************************************)
THEOREM RegionsDisjoint == Spec => []Disjoint
<1>1. IInv => Disjoint
  <2> SUFFICES ASSUME IInv, NEW i \in 1 .. Len(granted)
               PROVE  /\ 8 <= granted[i].off
                      /\ End(granted[i]) <= CAPACITY
                      /\ \A j \in 1 .. Len(granted) : i < j =>
                           End(granted[i]) <= granted[j].off
    BY DEF Disjoint, End
  <2>1. granted \in Seq([off : Nat, len : Nat]) /\ ptr \in 0 .. CAPACITY
    BY DEF IInv, TypeOK
  <2>2. granted[i] \in [off : Nat, len : Nat]
    BY <2>1, ElementOfSeq
  <2>3. End(granted[i]) \in Int /\ ptr \in Int /\ ptr <= CAPACITY /\ CAPACITY \in Int
    BY <2>1, <2>2, CapacityAssumption DEF End
  <2>4. /\ 8 <= granted[i].off /\ End(granted[i]) <= ptr
        /\ \A j \in 1 .. Len(granted) : i < j => End(granted[i]) <= granted[j].off
    BY DEF IInv, Regions
  <2>5. QED
    BY <2>3, <2>4
<1>2. QED
  BY <1>1, Invariance, PTL

(***************************************************************************)
(* Every region is aligned to 8 bytes, and follows the one before it.      *)
(***************************************************************************)
THEOREM RegionsAligned == Spec => []Aligned
<1>1. IInv => Aligned
  BY DEF IInv, Regions, Aligned
<1>2. QED
  BY <1>1, Invariance, PTL

(***************************************************************************)
(* No bytes are lost to failed compare-and-swaps.                          *)
(***************************************************************************)
THEOREM NothingWasted == Spec => []NoGaps
<1>1. IInv => NoGaps
  BY DEF IInv, Regions, NoGaps, End, len
<1>2. QED
  BY <1>1, Invariance, PTL

(***************************************************************************)
(* The layout of the arena is sound.                                       *)
(***************************************************************************)
THEOREM LayoutSound == Spec => []SoundLayout
<1>1. Disjoint /\ Aligned /\ NoGaps => SoundLayout
  BY DEF SoundLayout
<1>2. QED
  BY <1>1, RegionsDisjoint, RegionsAligned, NothingWasted, PTL

(***************************************************************************)
(* A refused request still does not fit later.                             *)
(***************************************************************************)
THEOREM PanicIsFinal == Spec => []PanicOnlyWhenFull
<1>1. IInv => PanicOnlyWhenFull
  BY DEF IInv, Waiting, PanicOnlyWhenFull
<1>2. QED
  BY <1>1, Invariance, PTL

-----------------------------------------------------------------------------
(***************************************************************************)
(* The retry loop implements the one-step allocator: only the successful   *)
(* compare-and-swap grants, and what it was compared with is still there.  *)
(***************************************************************************)
THEOREM Implements == Spec => Atomic
<1> DEFINE St(t) == IF pc[t] \in {"load", "cas"} THEN "called" ELSE pc[t]
<1>1. Init => Bump!Init
  BY DEF Init, Bump!Init, OffsetOf, NULL
<1>2. IInv /\ [Next]_vars => [Bump!Next]_Bump!bvars
  <2> SUFFICES ASSUME IInv, [Next]_vars PROVE [Bump!Next]_Bump!bvars
    OBVIOUS
  <2>1. TypeOK
    BY DEF IInv
  <2>2. ASSUME NEW t \in Threads, Call(t) PROVE Bump!Request(t)
    <3>1. [u \in Threads |-> St(u)'] = [[u \in Threads |-> St(u)] EXCEPT ![t] = "called"]
      BY <2>1, <2>2 DEF Call, TypeOK
    <3>2. QED
      BY <2>1, <2>2, <3>1 DEF Call, Bump!Request, TypeOK
  <2>3. ASSUME NEW t \in Threads, Load(t) \/ CasErr(t) PROVE UNCHANGED Bump!bvars
    <3>1. \A u \in Threads : St(u)' = St(u)
      BY <2>1, <2>3 DEF Load, CasErr, TypeOK
    <3>2. QED
      BY <2>3, <3>1 DEF Load, CasErr, Bump!bvars
  <2>4. ASSUME NEW t \in Threads, OutOfMemory(t) PROVE Bump!Refuse(t)
    <3>1. [u \in Threads |-> St(u)'] = [[u \in Threads |-> St(u)] EXCEPT ![t] = "panicked"]
      BY <2>1, <2>4 DEF OutOfMemory, TypeOK
    <3>2. QED
      BY <2>1, <2>4, <3>1 DEF OutOfMemory, Bump!Refuse, TypeOK
  <2>5. ASSUME NEW t \in Threads, CasOk(t) PROVE Bump!Grant(t)
    <3>1. [u \in Threads |-> St(u)'] = [[u \in Threads |-> St(u)] EXCEPT ![t] = "granted"]
      BY <2>1, <2>5 DEF CasOk, TypeOK
    <3>2. OffsetOf(ptr) + size[t] <= CAPACITY
      BY <2>5 DEF CasOk, IInv, Waiting
    <3>3. OffsetOf(ptr') = OffsetOf(ptr) + size[t]
      <4>1. ptr' = OffsetOf(ptr) + size[t] /\ ptr' # NULL
        BY <2>1, <2>5, Reads DEF CasOk, NULL
      <4>2. QED
        BY <4>1 DEF OffsetOf
    <3>4. QED
      BY <2>1, <2>5, <3>1, <3>2, <3>3 DEF CasOk, Bump!Grant, TypeOK, OffsetOf
  <2>6. CASE UNCHANGED vars
    BY <2>6 DEF vars, Bump!bvars, OffsetOf
  <2>7. QED
    BY <2>2, <2>3, <2>4, <2>5, <2>6 DEF Next, Alloc, Bump!Next
<1>3. QED
  BY <1>1, <1>2, Invariance, PTL DEF Spec, Atomic, Bump!Spec

-----------------------------------------------------------------------------
(***************************************************************************)
(* The threads that fill nodes use the arena as module Arena describes it, *)
(* so that what is proved there holds here.                                *)
(***************************************************************************)
LEMMA ArenaSteps == [LayoutNext]_layoutvars => [Next]_vars
  BY DEF LayoutNext, layoutvars, AllocNode, ArenaStep, ArenaPanic, FillNode,
         StoreNext, StorePrev, Next, Alloc

(***************************************************************************)
(* The layout of the arena is sound, a refusal is final, and alloc is      *)
(* atomic, also when it is nodes that are allocated, filled and linked.    *)
(***************************************************************************)
THEOREM NodesUseArena ==
  LayoutSpec => Spec /\ []SoundLayout /\ []PanicOnlyWhenFull /\ Atomic
<1>1. LayoutInit => Init
  BY DEF LayoutInit
<1>2. LayoutSpec => Spec
  BY <1>1, ArenaSteps, PTL DEF LayoutSpec, Spec
<1>3. QED
  BY <1>2, LayoutSound, PanicIsFinal, Implements, PTL

-----------------------------------------------------------------------------
(***************************************************************************)
(* The invariant.  The fields of a node, in the order of their places, each*)
(* with the bytes that it should hold.                                     *)
(***************************************************************************)
FieldCount(s) == s.height + 7

Field(o, d, k) ==
  LET s  == d.shape
      kv == o + kv_data_off(s.height)
  IN IF k = 1 THEN At(o + KEY_LEN_OFF, Pieces(Len(s.key) % LEN_LIMIT, U32))
     ELSE IF k = 2 THEN At(o + VALUE_LEN_OFF, Pieces(Len(s.value) % LEN_LIMIT, U32))
     ELSE IF k = 3 THEN At(o + HEIGHT_OFF, Pieces(s.height, U32))
     ELSE IF k = 4 THEN At(PrevAt(o), Pieces(d.prev, USIZE))
     ELSE IF k <= s.height + 5 THEN At(SlotAt(o, k - 5), Pieces(d.tower[k - 5], USIZE))
     ELSE IF k = s.height + 6 THEN At(kv, Data(s.key))
     ELSE At(kv + Len(s.key), Data(s.value))

Holds(w) == \A a \in DOMAIN mem : Covers(w, a) => mem[a] = w.bytes[a - w.at + 1]

\* A region of n bytes was granted at o.
Granted(o, n) ==
  \E g \in 1 .. Len(granted) : granted[g].off = o /\ granted[g].len = n

NodesOf(s) == [shape : {s}, prev : Nat, tower : [0 .. s.height -> Nat]]

LayoutTypeOK ==
  /\ DOMAIN mem = 0 .. CAPACITY - 1
  /\ nodes \in [DOMAIN nodes -> UNION {NodesOf(s) : s \in Shapes}]
  /\ DOMAIN nodes \subseteq Nat
  /\ asked \in [Threads -> Shapes \cup {NoNode}]

\* Every node has a region to itself and its fields hold what they should.
Laid(o) ==
  /\ Granted(o, Align(NodeSize(nodes[o].shape)))
  /\ \A k \in 1 .. FieldCount(nodes[o].shape) : Holds(Field(o, nodes[o], k))

\* A region that waits to be filled belongs to one thread and to no node.
Filling(t) == asked[t] # NoNode /\ pc[t] = "granted"

Asking(t) ==
  /\ asked[t] # NoNode => size[t] = Align(NodeSize(asked[t]))
  /\ Filling(t) =>
       /\ Granted(offset[t], size[t])
       /\ offset[t] \notin DOMAIN nodes
       /\ \A u \in Threads : Filling(u) /\ u # t => offset[u] # offset[t]

LInv ==
  /\ IInv
  /\ LayoutTypeOK
  /\ \A o \in DOMAIN nodes : Laid(o)
  /\ \A t \in Threads : Asking(t)
-----------------------------------------------------------------------------
(***************************************************************************)
(* Where the fields lie.                                                   *)
(***************************************************************************)
LEMMA ShapeFacts ==
  ASSUME NEW s \in Shapes
  PROVE  /\ s.height \in Nat /\ Len(s.key) \in Nat /\ Len(s.value) \in Nat
         /\ NodeSize(s) \in Nat /\ Align(NodeSize(s)) \in Nat
         /\ NodeSize(s) = 32 + s.height * 8 + Len(s.key) + Len(s.value)
         /\ NodeSize(s) <= Align(NodeSize(s))
<1>1. s.height \in Nat /\ s.key \in Seq(Nat) /\ s.value \in Seq(Nat)
  BY ShapesAssumption
<1>2. Len(s.key) \in Nat /\ Len(s.value) \in Nat
  BY <1>1
<1>3. NodeSize(s) = 32 + s.height * 8 + Len(s.key) + Len(s.value)
  BY <1>1, <1>2 DEF NodeSize, kv_data_off, TOWER_OFF, USIZE
<1>4. NodeSize(s) \in Sizes
  BY SizesFit
<1>5. QED
  BY <1>1, <1>2, <1>3, <1>4, AlignFacts, SizesAssumption

FieldAt(s, k) ==
  IF k = 1 THEN KEY_LEN_OFF
  ELSE IF k = 2 THEN VALUE_LEN_OFF
  ELSE IF k = 3 THEN HEIGHT_OFF
  ELSE IF k = 4 THEN PREV_OFF
  ELSE IF k <= s.height + 5 THEN TOWER_OFF + (k - 5) * USIZE
  ELSE IF k = s.height + 6 THEN kv_data_off(s.height)
  ELSE kv_data_off(s.height) + Len(s.key)

FieldLen(s, k) ==
  IF k <= 3 THEN U32
  ELSE IF k <= s.height + 5 THEN USIZE
  ELSE IF k = s.height + 6 THEN Len(s.key)
  ELSE Len(s.value)

LEMMA PiecesFacts ==
  ASSUME NEW v, NEW w \in Nat
  PROVE  Len(Pieces(v, w)) = w /\ \A i \in 1 .. w : Pieces(v, w)[i] = <<v, i, w>>
  BY DEF Pieces

LEMMA Places ==
  ASSUME NEW s \in Shapes, NEW k \in 1 .. FieldCount(s),
         NEW h \in Nat, s.height = h, NEW a \in Nat, Len(s.key) = a,
         NEW b \in Nat, Len(s.value) = b
  PROVE  /\ k \in Nat /\ 1 <= k /\ k <= h + 7
         /\ FieldAt(s, k) \in Nat /\ FieldLen(s, k) \in Nat
         /\ k <= 3 => FieldAt(s, k) = (k - 1) * 4 /\ FieldLen(s, k) = 4
         /\ k = 4 => FieldAt(s, k) = 16 /\ FieldLen(s, k) = 8
         /\ 4 < k /\ k <= h + 5 => FieldAt(s, k) = 24 + (k - 5) * 8 /\ FieldLen(s, k) = 8
         /\ k = h + 6 => FieldAt(s, k) = 32 + h * 8 /\ FieldLen(s, k) = a
         /\ k = h + 7 => FieldAt(s, k) = 32 + h * 8 + a /\ FieldLen(s, k) = b
<1>2. k \in Nat /\ 1 <= k /\ k <= h + 7
  BY DEF FieldCount
<1>3. CASE k <= 3
  BY <1>2, <1>3 DEF FieldAt, FieldLen, U32, KEY_LEN_OFF, VALUE_LEN_OFF, HEIGHT_OFF
<1>4. CASE k = 4
  BY <1>2, <1>4 DEF FieldAt, FieldLen, USIZE, PREV_OFF
<1>5. CASE 4 < k /\ k <= h + 5
  <2>1. FieldAt(s, k) = 24 + (k - 5) * 8 /\ FieldLen(s, k) = 8
    BY <1>2, <1>5 DEF FieldAt, FieldLen, USIZE, TOWER_OFF
  <2>2. QED
    BY <1>2, <1>5, <2>1
<1>6. CASE k = h + 6
  <2>1. FieldAt(s, k) = 24 + (h + 1) * 8 /\ FieldLen(s, k) = a
    BY <1>2, <1>6 DEF FieldAt, FieldLen, kv_data_off, USIZE, TOWER_OFF
  <2>2. QED
    BY <1>2, <1>6, <2>1
<1>7. CASE k = h + 7
  <2>1. FieldAt(s, k) = 24 + (h + 1) * 8 + a /\ FieldLen(s, k) = b
    BY <1>2, <1>7 DEF FieldAt, FieldLen, kv_data_off, USIZE, TOWER_OFF
  <2>2. QED
    BY <1>2, <1>7, <2>1
<1>8. QED
  BY <1>2, <1>3, <1>4, <1>5, <1>6, <1>7

LEMMA FieldTypes ==
  ASSUME NEW s \in Shapes, NEW k \in 1 .. FieldCount(s)
  PROVE  FieldAt(s, k) \in Nat /\ FieldLen(s, k) \in Nat
<1>1. PICK h \in Nat, a \in Nat, b \in Nat :
        s.height = h /\ Len(s.key) = a /\ Len(s.value) = b
  BY ShapeFacts
<1>2. QED
  BY <1>1, Places

\* Fields lie one behind the other, inside the node.
LEMMA FieldsApart ==
  ASSUME NEW s \in Shapes, NEW j \in 1 .. FieldCount(s), NEW k \in 1 .. FieldCount(s),
         j < k
  PROVE  FieldAt(s, j) + FieldLen(s, j) <= FieldAt(s, k)
<1>1. PICK h \in Nat, a \in Nat, b \in Nat :
        s.height = h /\ Len(s.key) = a /\ Len(s.value) = b
  BY ShapeFacts
<1> DEFINE P(m) ==
      /\ m \in Nat /\ 1 <= m /\ m <= h + 7
      /\ m <= 3 => FieldAt(s, m) = (m - 1) * 4 /\ FieldLen(s, m) = 4
      /\ m = 4 => FieldAt(s, m) = 16 /\ FieldLen(s, m) = 8
      /\ 4 < m /\ m <= h + 5 => FieldAt(s, m) = 24 + (m - 5) * 8 /\ FieldLen(s, m) = 8
      /\ m = h + 6 => FieldAt(s, m) = 32 + h * 8 /\ FieldLen(s, m) = a
      /\ m = h + 7 => FieldAt(s, m) = 32 + h * 8 + a /\ FieldLen(s, m) = b
<1>2. P(j)
  BY <1>1, Places
<1>3. P(k)
  BY <1>1, Places
<1>4. CASE k <= h + 5
  BY <1>2, <1>3, <1>4
<1>5. CASE k = h + 6
  BY <1>2, <1>3, <1>5
<1>6. CASE k = h + 7
  BY <1>2, <1>3, <1>6
<1>7. QED
  BY <1>3, <1>4, <1>5, <1>6

LEMMA FieldsInside ==
  ASSUME NEW s \in Shapes, NEW k \in 1 .. FieldCount(s)
  PROVE  FieldAt(s, k) + FieldLen(s, k) <= NodeSize(s)
<1>1. PICK h \in Nat, a \in Nat, b \in Nat :
        /\ s.height = h /\ Len(s.key) = a /\ Len(s.value) = b
        /\ NodeSize(s) = 32 + h * 8 + a + b
  BY ShapeFacts
<1>2. QED
  BY <1>1, Places

LEMMA Extent ==
  ASSUME NEW s \in Shapes, NEW d, d.shape = s, NEW o \in Nat,
         NEW k \in 1 .. FieldCount(s)
  PROVE  /\ Field(o, d, k).at = o + FieldAt(s, k)
         /\ Len(Field(o, d, k).bytes) = FieldLen(s, k)
<1>1. PICK h \in Nat, a \in Nat, b \in Nat :
        s.height = h /\ Len(s.key) = a /\ Len(s.value) = b
  BY ShapeFacts
<1>2. Len(Data(s.key)) = a /\ Len(Data(s.value)) = b
  BY <1>1, ShapeFacts DEF Data
<1>3. \A v : Len(Pieces(v, U32)) = U32 /\ Len(Pieces(v, USIZE)) = USIZE
  BY PiecesFacts DEF U32, USIZE
<1>4. kv_data_off(h) = 32 + h * 8
  BY DEF kv_data_off, TOWER_OFF, USIZE
<1>5. h \in Nat /\ k \in Nat /\ 1 <= k /\ k <= h + 7 /\ FieldAt(s, k) \in Nat
  BY <1>1, Places
<1>6. CASE k <= 3
  <2>1. k = 1 \/ k = 2 \/ k = 3
    BY <1>5, <1>6
  <2>2. FieldAt(s, k) = (k - 1) * 4 /\ FieldLen(s, k) = 4
    BY <1>1, <1>6, Places
  <2>3. QED
    BY <1>3, <2>1, <2>2 DEF Field, At, U32, KEY_LEN_OFF, VALUE_LEN_OFF, HEIGHT_OFF
<1>7. CASE k = 4
  <2>1. FieldAt(s, k) = 16 /\ FieldLen(s, k) = 8
    BY <1>1, <1>7, Places
  <2>2. Field(o, d, k) = At(o + 16, Pieces(d.prev, USIZE))
    BY <1>7 DEF Field, PrevAt, PREV_OFF
  <2>3. QED
    BY <1>3, <2>1, <2>2 DEF At, USIZE
<1>8. CASE 4 < k /\ k <= h + 5
  <2>1. Field(o, d, k) = At(SlotAt(o, k - 5), Pieces(d.tower[k - 5], USIZE))
    BY <1>1, <1>5, <1>8 DEF Field
  <2>2. FieldAt(s, k) = 24 + (k - 5) * 8 /\ FieldLen(s, k) = 8
    BY <1>1, <1>8, Places
  <2>3. SlotAt(o, k - 5) = o + (24 + (k - 5) * 8)
    BY <1>5 DEF SlotAt, TOWER_OFF, USIZE
  <2>4. QED
    BY <1>3, <2>1, <2>2, <2>3 DEF At, USIZE
<1>9. CASE k = h + 6
  <2>1. Field(o, d, k) = At(o + kv_data_off(h), Data(s.key))
    BY <1>1, <1>5, <1>9 DEF Field
  <2>2. FieldAt(s, k) = 32 + h * 8 /\ FieldLen(s, k) = a
    BY <1>1, <1>9, Places
  <2>3. QED
    BY <1>2, <1>4, <2>1, <2>2 DEF At
<1>10. CASE k = h + 7
  <2>1. Field(o, d, k) = At(o + kv_data_off(h) + a, Data(s.value))
    BY <1>1, <1>5, <1>10 DEF Field
  <2>2. FieldAt(s, k) = 32 + h * 8 + a /\ FieldLen(s, k) = b /\ a \in Nat
    BY <1>1, <1>10, Places
  <2>3. o + (32 + h * 8) + a = o + (32 + h * 8 + a)
    BY <1>5, <2>2
  <2>4. QED
    BY <1>2, <1>4, <2>1, <2>2, <2>3 DEF At
<1>11. QED
  BY <1>5, <1>6, <1>7, <1>8, <1>9, <1>10

LEMMA CoveredInside ==
  ASSUME NEW s \in Shapes, NEW d, d.shape = s, NEW o \in Nat,
         NEW k \in 1 .. FieldCount(s), NEW a \in Int, Covers(Field(o, d, k), a)
  PROVE  /\ o + FieldAt(s, k) <= a /\ a < o + FieldAt(s, k) + FieldLen(s, k)
         /\ o <= a /\ a < o + NodeSize(s)
<1>1. /\ o + FieldAt(s, k) <= a
      /\ a < o + FieldAt(s, k) + FieldLen(s, k)
  BY Extent DEF Covers
<1>2. FieldAt(s, k) \in Nat /\ FieldLen(s, k) \in Nat
  BY FieldTypes
<1>3. FieldAt(s, k) + FieldLen(s, k) <= NodeSize(s) /\ NodeSize(s) \in Nat
  BY FieldsInside, ShapeFacts
<1>4. QED
  BY <1>1, <1>2, <1>3

\* No byte belongs to two fields of a node.
LEMMA CoveredOnce ==
  ASSUME NEW s \in Shapes, NEW d, d.shape = s, NEW e, e.shape = s, NEW o \in Nat,
         NEW j \in 1 .. FieldCount(s), NEW k \in 1 .. FieldCount(s), j # k,
         NEW a \in Int, Covers(Field(o, d, k), a)
  PROVE  ~ Covers(Field(o, e, j), a)
<1> SUFFICES ASSUME Covers(Field(o, e, j), a) PROVE FALSE
  OBVIOUS
<1>1. o + FieldAt(s, k) <= a /\ a < o + FieldAt(s, k) + FieldLen(s, k)
  BY CoveredInside
<1>2. o + FieldAt(s, j) <= a /\ a < o + FieldAt(s, j) + FieldLen(s, j)
  BY CoveredInside
<1>3. /\ FieldAt(s, k) \in Nat /\ FieldLen(s, k) \in Nat
      /\ FieldAt(s, j) \in Nat /\ FieldLen(s, j) \in Nat
  BY FieldTypes
<1>4. CASE j < k
  <2>1. FieldAt(s, j) + FieldLen(s, j) <= FieldAt(s, k)
    BY <1>4, FieldsApart
  <2>2. QED
    BY <1>1, <1>2, <1>3, <2>1
<1>5. CASE k < j
  <2>1. FieldAt(s, k) + FieldLen(s, k) <= FieldAt(s, j)
    BY <1>5, FieldsApart
  <2>2. QED
    BY <1>1, <1>2, <1>3, <2>1
<1>6. j \in Int /\ k \in Int
  BY ShapeFacts DEF FieldCount
<1>7. QED
  BY <1>4, <1>5, <1>6

-----------------------------------------------------------------------------
(***************************************************************************)
(* What a list of writes does to a byte: the last one that covers it wins. *)
(***************************************************************************)
LEMMA WriteHits ==
  ASSUME NEW W, NEW n \in Nat, DOMAIN W = 1 .. n, NEW k \in 1 .. n,
         NEW a \in DOMAIN mem, Covers(W[k], a),
         \A j \in 1 .. n : j # k => ~ Covers(W[j], a)
  PROVE  Written(W)[a] = W[k].bytes[a - W[k].at + 1]
<1> DEFINE hits == {i \in DOMAIN W : Covers(W[i], a)}
<1>1. hits = {k}
  OBVIOUS
<1>2. Max(hits) = k
  BY <1>1 DEF Max
<1>3. Written(W)[a] = W[Max(hits)].bytes[a - W[Max(hits)].at + 1]
  BY <1>1 DEF Written
<1>4. QED
  BY <1>2, <1>3

LEMMA WriteMisses ==
  ASSUME NEW W, NEW a \in DOMAIN mem, \A j \in DOMAIN W : ~ Covers(W[j], a)
  PROVE  Written(W)[a] = mem[a]
<1>1. {i \in DOMAIN W : Covers(W[i], a)} = {}
  OBVIOUS
<1>2. QED
  BY <1>1 DEF Written

\* What is not covered by a write still holds what it held.
LEMMA HoldsStays ==
  ASSUME NEW W, NEW w, mem' = Written(W), DOMAIN mem \subseteq Int, Holds(w),
         \A a \in Int : Covers(w, a) => \A j \in DOMAIN W : ~ Covers(W[j], a)
  PROVE  Holds(w)'
<1>1. DOMAIN mem' = DOMAIN mem
  BY DEF Written
<1>2. ASSUME NEW a \in DOMAIN mem, Covers(w, a)
      PROVE  mem'[a] = w.bytes[a - w.at + 1]
  BY <1>2, WriteMisses DEF Holds
<1>3. QED
  BY <1>1, <1>2 DEF Holds

(***************************************************************************)
(* alloc_node stores every field once.                                     *)
(***************************************************************************)
Fresh(s) == [shape |-> s, prev |-> NULL, tower |-> [l \in 0 .. s.height |-> NULL]]

LEMMA StoresAreFields ==
  ASSUME NEW s \in Shapes, NEW o \in Nat
  PROVE  /\ DOMAIN FieldStores(o, s) = 1 .. FieldCount(s)
         /\ \A k \in 1 .. FieldCount(s) : FieldStores(o, s)[k] = Field(o, Fresh(s), k)
<1>1. PICK h \in Nat : s.height = h
  BY ShapeFacts
<1> DEFINE F(k) == Field(o, Fresh(s), k)
           S == {F(k) : k \in 1 .. h + 7}
           A == <<F(1), F(2), F(3), F(4)>>
           B == [i \in 1 .. h + 1 |-> F(i + 4)]
           C == <<F(h + 6), F(h + 7)>>
<1>2. FieldStores(o, s) = A \o B \o C
  <2>1. F(1) = At(o + KEY_LEN_OFF, Pieces(Len(s.key) % LEN_LIMIT, U32))
        /\ F(2) = At(o + VALUE_LEN_OFF, Pieces(Len(s.value) % LEN_LIMIT, U32))
        /\ F(3) = At(o + HEIGHT_OFF, Pieces(s.height, U32))
        /\ F(4) = At(PrevAt(o), Pieces(NULL, USIZE))
    BY DEF Field, Fresh
  <2>2. ASSUME NEW i \in 1 .. h + 1
        PROVE  F(i + 4) = At(SlotAt(o, i - 1), Pieces(NULL, USIZE))
    <3>1. i + 4 # 1 /\ i + 4 # 2 /\ i + 4 # 3 /\ i + 4 # 4 /\ i + 4 <= h + 5
          /\ (i + 4) - 5 = i - 1 /\ i - 1 \in 0 .. h
      OBVIOUS
    <3>2. F(i + 4) = At(SlotAt(o, i - 1), Pieces(Fresh(s).tower[i - 1], USIZE))
      BY <1>1, <3>1 DEF Field, Fresh
    <3>3. Fresh(s).tower[i - 1] = NULL
      BY <1>1, <3>1 DEF Fresh
    <3>4. QED
      BY <3>2, <3>3
  <2>3. F(h + 6) = At(o + kv_data_off(s.height), Data(s.key))
        /\ F(h + 7) = At(o + kv_data_off(s.height) + Len(s.key), Data(s.value))
    BY <1>1 DEF Field, Fresh
  <2>4. B = [i \in 1 .. s.height + 1 |-> At(SlotAt(o, i - 1), Pieces(NULL, USIZE))]
    BY <1>1, <2>2
  <2>5. QED
    BY <2>1, <2>3, <2>4 DEF FieldStores
<1> HIDE DEF F
<1>3. \A k \in 1 .. h + 7 : F(k) \in S
  OBVIOUS
<1> HIDE DEF S
<1>4. A \in Seq(S) /\ Len(A) = 4 /\ A[1] = F(1) /\ A[2] = F(2) /\ A[3] = F(3) /\ A[4] = F(4)
  BY <1>3
<1>5. B \in Seq(S) /\ Len(B) = h + 1 /\ \A i \in 1 .. h + 1 : B[i] = F(i + 4)
  <2>1. \A i \in 1 .. h + 1 : F(i + 4) \in S
    BY <1>3
  <2>2. h + 1 \in Nat
    OBVIOUS
  <2>3. QED
    BY <2>1, <2>2
<1>6. C \in Seq(S) /\ Len(C) = 2 /\ C[1] = F(h + 6) /\ C[2] = F(h + 7)
  BY <1>3
<1> HIDE DEF A, B, C
<1>7. /\ A \o B \in Seq(S) /\ Len(A \o B) = h + 5
      /\ \A k \in 1 .. h + 5 : (A \o B)[k] = IF k <= 4 THEN A[k] ELSE B[k - 4]
  <2>1. /\ A \o B \in Seq(S) /\ Len(A \o B) = Len(A) + Len(B)
        /\ \A k \in 1 .. Len(A) + Len(B) :
             (A \o B)[k] = IF k <= Len(A) THEN A[k] ELSE B[k - Len(A)]
    BY <1>4, <1>5, ConcatProperties
  <2>2. Len(A) = 4 /\ Len(B) = h + 1 /\ Len(A) + Len(B) = h + 5
    BY <1>4, <1>5
  <2>3. QED
    BY <2>1, <2>2
<1>8. /\ A \o B \o C \in Seq(S) /\ Len(A \o B \o C) = h + 7
      /\ \A k \in 1 .. h + 7 : (A \o B \o C)[k] =
           IF k <= h + 5 THEN (A \o B)[k] ELSE C[k - (h + 5)]
  <2> DEFINE D == A \o B
  <2>1. D \in Seq(S) /\ Len(D) = h + 5
    BY <1>7
  <2> HIDE DEF D
  <2>2. /\ D \o C \in Seq(S) /\ Len(D \o C) = Len(D) + Len(C)
        /\ \A k \in 1 .. Len(D) + Len(C) :
             (D \o C)[k] = IF k <= Len(D) THEN D[k] ELSE C[k - Len(D)]
    BY <1>6, <2>1, ConcatProperties
  <2>3. Len(D) = h + 5 /\ Len(D) + Len(C) = h + 7
    BY <1>6, <2>1
  <2>4. QED
    BY <2>2, <2>3 DEF D
<1>9. ASSUME NEW k \in 1 .. h + 7 PROVE (A \o B \o C)[k] = F(k)
  <2>1. CASE k <= 4
    <3>1. k = 1 \/ k = 2 \/ k = 3 \/ k = 4
      BY <2>1
    <3>2. (A \o B \o C)[k] = A[k]
      BY <1>7, <1>8, <2>1
    <3>3. QED
      BY <1>4, <3>1, <3>2
  <2>2. CASE 4 < k /\ k <= h + 5
    <3>1. (A \o B \o C)[k] = B[k - 4] /\ k - 4 \in 1 .. h + 1 /\ (k - 4) + 4 = k
      BY <1>7, <1>8, <2>2
    <3>2. QED
      BY <1>5, <3>1
  <2>3. CASE k = h + 6
    BY <1>6, <1>8, <2>3
  <2>4. CASE k = h + 7
    BY <1>6, <1>8, <2>4
  <2>5. k <= 4 \/ (4 < k /\ k <= h + 5) \/ k = h + 6 \/ k = h + 7
    OBVIOUS
  <2>6. QED
    BY <2>1, <2>2, <2>3, <2>4, <2>5
<1>10. DOMAIN (A \o B \o C) = 1 .. h + 7 /\ FieldCount(s) = h + 7
  BY <1>1, <1>8, LenProperties DEF FieldCount
<1>11. QED
  BY <1>2, <1>9, <1>10 DEF F

-----------------------------------------------------------------------------
(***************************************************************************)
(* Regions: what the invariant of the arena says of them.                  *)
(***************************************************************************)
LEMMA RegionTypes ==
  ASSUME IInv, NEW g \in 1 .. Len(granted)
  PROVE  granted[g].off \in Nat /\ granted[g].len \in Nat
<1>1. granted \in Seq([off : Nat, len : Nat])
  BY DEF IInv, TypeOK
<1>2. granted[g] \in [off : Nat, len : Nat]
  BY <1>1, ElementOfSeq
<1>3. QED
  BY <1>2

LEMMA GrantedFacts ==
  ASSUME IInv, NEW o, NEW n, Granted(o, n)
  PROVE  /\ o \in Nat /\ n \in Nat /\ 8 <= o /\ 0 < n /\ o % 8 = 0
         /\ o + n <= ptr /\ ptr \in Nat /\ ptr <= CAPACITY
<1>1. PICK g \in 1 .. Len(granted) : granted[g].off = o /\ granted[g].len = n
  BY DEF Granted
<1>2. o \in Nat /\ n \in Nat
  BY <1>1, RegionTypes
<1>3. 8 <= o /\ 0 < n /\ o % 8 = 0 /\ o + n <= ptr
  BY <1>1 DEF IInv, Regions, End
<1>4. ptr \in Nat /\ ptr <= CAPACITY
  BY CapacityAssumption DEF IInv, TypeOK
<1>5. QED
  BY <1>2, <1>3, <1>4

LEMMA GrantedApart ==
  ASSUME IInv, NEW o, NEW n, Granted(o, n), NEW p, NEW m, Granted(p, m), o # p
  PROVE  o + n <= p \/ p + m <= o
<1>1. PICK g \in 1 .. Len(granted) : granted[g].off = o /\ granted[g].len = n
  BY DEF Granted
<1>2. PICK h \in 1 .. Len(granted) : granted[h].off = p /\ granted[h].len = m
  BY DEF Granted
<1>3. granted \in Seq([off : Nat, len : Nat])
  BY DEF IInv, TypeOK
<1>4. g < h \/ h < g
  <2>1. Len(granted) \in Nat
    BY <1>3
  <2>2. QED
    BY <1>1, <1>2, <2>1
<1>5. QED
  BY <1>1, <1>2, <1>4 DEF IInv, Regions, End

LEMMA GrantedStays ==
  ASSUME IInv, [Next]_vars, NEW o, NEW n, Granted(o, n)
  PROVE  \E g \in 1 .. Len(granted') : granted'[g].off = o /\ granted'[g].len = n
<1>1. PICK g \in 1 .. Len(granted) : granted[g].off = o /\ granted[g].len = n
  BY DEF Granted
<1>2. CASE granted' = granted
  BY <1>1, <1>2 DEF Granted
<1>3. CASE \E t \in Threads : CasOk(t)
  <2>1. PICK t \in Threads : CasOk(t)
    BY <1>3
  <2> DEFINE r == [off |-> OffsetOf(seen[t]), len |-> size[t]]
             R == [off : Nat, len : Nat]
  <2>2. granted \in Seq(R) /\ granted' = Append(granted, r)
    BY <2>1 DEF IInv, TypeOK, CasOk
  <2>3. r \in R
    BY <2>1 DEF IInv, TypeOK, OffsetOf
  <2> HIDE DEF r, R
  <2>4. Len(granted') = Len(granted) + 1 /\ granted'[g] = granted[g]
        /\ Len(granted) \in Nat
    BY <1>1, <2>2, <2>3
  <2>5. g \in 1 .. Len(granted')
    BY <1>1, <2>4
  <2>6. QED
    BY <1>1, <2>4, <2>5 DEF Granted
<1>4. QED
  BY <1>2, <1>3 DEF Next, Alloc, Call, Load, OutOfMemory, CasErr, vars

\* The region that a successful compare-and-swap grants, behind all others.
LEMMA GrantsNew ==
  ASSUME IInv, NEW t \in Threads, CasOk(t)
  PROVE  /\ Granted(offset[t], size[t])'
         /\ \A o, n : Granted(o, n) => o # offset'[t]
<1> DEFINE r == [off |-> OffsetOf(seen[t]), len |-> size[t]]
           R == [off : Nat, len : Nat]
<1>1. granted \in Seq(R) /\ granted' = Append(granted, r) /\ seen[t] = ptr
      /\ offset'[t] = OffsetOf(seen[t])
  BY DEF IInv, TypeOK, CasOk
<1>2. r \in R /\ r.off = offset'[t] /\ r.len = size[t]
  BY <1>1 DEF IInv, TypeOK, OffsetOf
<1> HIDE DEF r, R
<1>3. /\ Len(granted') = Len(granted) + 1 /\ Len(granted) \in Nat
      /\ granted'[Len(granted) + 1] = r
  BY <1>1, <1>2
<1>4. Len(granted) + 1 \in 1 .. Len(granted')
  BY <1>3
<1>5. Granted(offset[t], size[t])'
  <2>1. size' = size
    BY DEF CasOk
  <2>2. QED
    BY <1>2, <1>3, <1>4, <2>1 DEF Granted
<1>6. ASSUME NEW o, NEW n, Granted(o, n) PROVE o # offset'[t]
  <2>1. o \in Nat /\ n \in Nat /\ 0 < n /\ o + n <= ptr /\ ptr \in Nat /\ 8 <= o
    BY <1>6, GrantedFacts
  <2>2. OffsetOf(ptr) = ptr
    BY <2>1 DEF OffsetOf, NULL
  <2>3. QED
    BY <1>1, <2>1, <2>2
<1>7. QED
  BY <1>5, <1>6

-----------------------------------------------------------------------------
(***************************************************************************)
(* The invariant is preserved.                                             *)
(***************************************************************************)
LEMMA InitLInv == LayoutInit => LInv
<1> SUFFICES ASSUME LayoutInit PROVE LInv
  OBVIOUS
<1>1. IInv
  BY InitIInv DEF LayoutInit
<1>2. DOMAIN nodes = {}
  BY DEF LayoutInit
<1>3. LayoutTypeOK
  <2>1. nodes \in [{} -> UNION {NodesOf(s) : s \in Shapes}]
    BY <1>2 DEF LayoutInit
  <2>2. QED
    BY <1>2, <2>1 DEF LayoutInit, LayoutTypeOK
<1>4. \A t \in Threads : Asking(t)
  BY DEF LayoutInit, Init, Asking, Filling
<1>5. QED
  BY <1>1, <1>2, <1>3, <1>4 DEF LInv

LEMMA ArenaKept == LInv /\ [LayoutNext]_layoutvars => IInv'
  BY ArenaSteps, StepIInv DEF LInv

\* Nodes are not touched.
LEMMA LaidStays ==
  ASSUME LInv, [LayoutNext]_layoutvars, UNCHANGED <<mem, nodes>>
  PROVE  \A o \in DOMAIN nodes' : Laid(o)'
<1> SUFFICES ASSUME NEW o \in DOMAIN nodes PROVE Laid(o)'
  OBVIOUS
<1>1. Laid(o)
  BY DEF LInv
<1>2. Granted(o, Align(NodeSize(nodes[o].shape)))'
  <2>1. Granted(o, Align(NodeSize(nodes[o].shape)))
    BY <1>1 DEF Laid
  <2>2. QED
    BY <2>1, ArenaSteps, GrantedStays DEF LInv, Granted
<1>3. \A k \in 1 .. FieldCount(nodes[o].shape) : Holds(Field(o, nodes[o], k))'
  BY <1>1 DEF Laid, Holds
<1>4. QED
  BY <1>2, <1>3 DEF Laid

LEMMA AllocNodeStep ==
  ASSUME LInv, NEW t \in Threads, AllocNode(t)
  PROVE  LInv'
<1>1. IInv /\ LayoutTypeOK /\ \A u \in Threads : Asking(u)
  BY DEF LInv
<1>2. [LayoutNext]_layoutvars
  BY DEF LayoutNext
<1>3. PICK s \in Shapes : size'[t] = Align(NodeSize(s)) /\ asked' = [asked EXCEPT ![t] = s]
  BY DEF AllocNode
<1>4. IInv'
  BY <1>2, ArenaKept
<1>5. LayoutTypeOK'
  BY <1>1, <1>3 DEF AllocNode, LayoutTypeOK
<1>6. \A o \in DOMAIN nodes' : Laid(o)'
  BY <1>2, LaidStays DEF AllocNode
<1>7. /\ pc'[t] = "load" /\ asked'[t] = s
      /\ \A u \in Threads : u # t => /\ pc'[u] = pc[u] /\ asked'[u] = asked[u]
                                     /\ size'[u] = size[u] /\ offset'[u] = offset[u]
  BY <1>1, <1>3 DEF AllocNode, Call, LayoutTypeOK, IInv, TypeOK
<1>8. ASSUME NEW u \in Threads PROVE Asking(u)'
  <2>1. CASE u = t
    BY <1>3, <1>7, <2>1 DEF Asking, Filling
  <2>2. CASE u # t
    <3>1. Asking(u) /\ (Filling(u)' => Filling(u))
      BY <1>1, <1>7, <2>2 DEF Filling
    <3>2. nodes' = nodes /\ granted' = granted
      BY DEF AllocNode, Call
    <3>3. \A v \in Threads : Filling(v)' => Filling(v) /\ v # t /\ offset'[v] = offset[v]
      BY <1>7 DEF Filling
    <3>4. QED
      BY <1>7, <2>2, <3>1, <3>2, <3>3 DEF Asking, Granted, Filling
  <2>3. QED
    BY <2>1, <2>2
<1>9. QED
  BY <1>4, <1>5, <1>6, <1>8 DEF LInv

\* A step of alloc that grants nothing.
LEMMA NoGrantStep ==
  ASSUME LInv, NEW t \in Threads,
         ArenaPanic(t) \/ ((Load(t) \/ CasErr(t)) /\ UNCHANGED nodevars)
  PROVE  LInv'
<1>1. IInv /\ LayoutTypeOK /\ \A u \in Threads : Asking(u)
  BY DEF LInv
<1>2. [LayoutNext]_layoutvars
  BY DEF LayoutNext, ArenaStep
<1>3. UNCHANGED <<mem, nodes, size, offset, granted>>
  BY DEF ArenaPanic, OutOfMemory, Load, CasErr, nodevars
<1>4. IInv'
  BY <1>2, ArenaKept
<1>5. LayoutTypeOK'
  BY <1>1, <1>3 DEF ArenaPanic, nodevars, LayoutTypeOK
<1>6. \A o \in DOMAIN nodes' : Laid(o)'
  BY <1>2, <1>3, LaidStays
<1>7. ASSUME NEW u \in Threads
      PROVE  /\ Filling(u)' => Filling(u)
             /\ asked'[u] # NoNode => asked'[u] = asked[u]
  <2>1. CASE u = t
    BY <1>1, <2>1 DEF ArenaPanic, OutOfMemory, Load, CasErr, nodevars, Filling,
         LayoutTypeOK, IInv, TypeOK
  <2>2. CASE u # t
    BY <1>1, <2>2 DEF ArenaPanic, OutOfMemory, Load, CasErr, nodevars, Filling,
         LayoutTypeOK, IInv, TypeOK
  <2>3. QED
    BY <2>1, <2>2
<1>8. ASSUME NEW u \in Threads PROVE Asking(u)'
  <2>1. Asking(u)
    BY <1>1
  <2>2. QED
    BY <1>3, <1>7, <2>1 DEF Asking, Granted
<1>9. QED
  BY <1>4, <1>5, <1>6, <1>8 DEF LInv

LEMMA GrantStep ==
  ASSUME LInv, NEW t \in Threads, CasOk(t), UNCHANGED nodevars
  PROVE  LInv'
<1>1. IInv /\ LayoutTypeOK /\ \A u \in Threads : Asking(u)
  BY DEF LInv
<1>2. [LayoutNext]_layoutvars
  BY DEF LayoutNext, ArenaStep
<1>3. UNCHANGED <<mem, nodes, asked, size>>
  BY DEF CasOk, nodevars
<1>4. IInv'
  BY <1>2, ArenaKept
<1>5. LayoutTypeOK'
  BY <1>1, <1>3 DEF LayoutTypeOK
<1>6. \A o \in DOMAIN nodes' : Laid(o)'
  BY <1>2, <1>3, LaidStays
<1>7. \A u \in Threads : u # t => (Filling(u)' <=> Filling(u)) /\ offset'[u] = offset[u]
  BY <1>1, <1>3 DEF CasOk, Filling, IInv, TypeOK
<1>8. \A u \in Threads : u # t /\ Filling(u) => offset[u] # offset'[t]
  BY <1>1, GrantsNew DEF Asking
<1>9. \A o \in DOMAIN nodes : o # offset'[t]
  <2>1. \A o \in DOMAIN nodes : \E n : Granted(o, n)
    BY DEF LInv, Laid
  <2>2. QED
    BY <1>1, <2>1, GrantsNew
<1>10. ASSUME NEW u \in Threads PROVE Asking(u)'
  <2>1. Asking(u)
    BY <1>1
  <2>2. CASE u = t
    <3>1. Granted(offset[u], size[u])'
      BY <1>1, <1>3, <2>2, GrantsNew
    <3>2. QED
      BY <1>3, <1>7, <1>8, <1>9, <2>1, <2>2, <3>1 DEF Asking
  <2>3. CASE u # t
    <3>1. Filling(u) => Granted(offset[u], size[u])'
      <4>1. Filling(u) => Granted(offset[u], size[u])
        BY <2>1 DEF Asking
      <4>2. offset'[u] = offset[u] /\ size'[u] = size[u]
        BY <1>3, <1>7, <2>3
      <4>3. Granted(offset[u], size[u]) =>
              \E g \in 1 .. Len(granted') :
                granted'[g].off = offset[u] /\ granted'[g].len = size[u]
        BY <1>1, <1>2, ArenaSteps, GrantedStays
      <4>4. QED
        BY <4>1, <4>2, <4>3 DEF Granted
    <3>2. QED
      BY <1>3, <1>7, <1>8, <2>1, <2>3, <3>1 DEF Asking
  <2>4. QED
    BY <2>2, <2>3
<1>11. QED
  BY <1>4, <1>5, <1>6, <1>10 DEF LInv

LEMMA NodeTypes ==
  ASSUME LayoutTypeOK, NEW o \in DOMAIN nodes
  PROVE  /\ o \in Nat /\ nodes[o].shape \in Shapes
         /\ nodes[o] \in NodesOf(nodes[o].shape)
<1>1. PICK s \in Shapes : nodes[o] \in NodesOf(s)
  BY DEF LayoutTypeOK
<1>2. nodes[o].shape = s
  BY <1>1 DEF NodesOf
<1>3. QED
  BY <1>1, <1>2 DEF LayoutTypeOK

\* What is stored in one node leaves the others alone.
LEMMA OtherNodes ==
  ASSUME LInv, NEW p \in DOMAIN nodes, NEW k \in 1 .. FieldCount(nodes[p].shape),
         NEW s \in Shapes, NEW o, Granted(o, Align(NodeSize(s))), o # p,
         NEW d, d.shape = s, NEW j \in 1 .. FieldCount(s),
         NEW a \in Int, Covers(Field(p, nodes[p], k), a)
  PROVE  ~ Covers(Field(o, d, j), a)
<1> SUFFICES ASSUME Covers(Field(o, d, j), a) PROVE FALSE
  OBVIOUS
<1> DEFINE z == nodes[p].shape
<1>1. IInv /\ LayoutTypeOK /\ Granted(p, Align(NodeSize(z)))
  BY DEF LInv, Laid
<1>2. p \in Nat /\ z \in Shapes
  BY <1>1, NodeTypes
<1>3. o \in Nat
  BY <1>1, GrantedFacts
<1>4. p <= a /\ a < p + NodeSize(z)
  BY <1>2, CoveredInside
<1>5. o <= a /\ a < o + NodeSize(s)
  BY <1>3, CoveredInside
<1>6. o + Align(NodeSize(s)) <= p \/ p + Align(NodeSize(z)) <= o
  BY <1>1, GrantedApart
<1>7. /\ NodeSize(s) \in Nat /\ Align(NodeSize(s)) \in Nat
      /\ NodeSize(s) <= Align(NodeSize(s))
      /\ NodeSize(z) \in Nat /\ Align(NodeSize(z)) \in Nat
      /\ NodeSize(z) <= Align(NodeSize(z))
  BY <1>2, ShapeFacts
<1> HIDE DEF z
<1>8. QED
  BY <1>2, <1>3, <1>4, <1>5, <1>6, <1>7

LEMMA FillStep ==
  ASSUME LInv, NEW t \in Threads, FillNode(t)
  PROVE  LInv'
<1> DEFINE o == offset[t]
           s == asked[t]
           d == Fresh(s)
           W == FieldStores(o, s)
<1>1. IInv /\ LayoutTypeOK /\ \A u \in Threads : Asking(u)
  BY DEF LInv
<1>2. [LayoutNext]_layoutvars
  BY DEF LayoutNext
<1>3. Filling(t) /\ s \in Shapes /\ Granted(o, Align(NodeSize(s))) /\ o \notin DOMAIN nodes
  BY <1>1 DEF FillNode, Filling, Asking, LayoutTypeOK
<1>4. /\ mem' = Written(W) /\ asked' = [asked EXCEPT ![t] = NoNode]
      /\ UNCHANGED vars
      /\ nodes' = [p \in DOMAIN nodes \cup {o} |-> IF p \in DOMAIN nodes THEN nodes[p] ELSE d]
  BY DEF FillNode, Fresh
<1>5. o \in Nat
  BY <1>1, <1>3, GrantedFacts
<1>6. d \in NodesOf(s) /\ d.shape = s
  <2>1. [l \in 0 .. s.height |-> NULL] \in [0 .. s.height -> Nat] /\ NULL \in Nat
    BY DEF NULL
  <2>2. QED
    BY <2>1 DEF Fresh, NodesOf
<1>7. IInv'
  BY <1>2, ArenaKept
<1>8. /\ DOMAIN W = 1 .. FieldCount(s)
      /\ \A k \in 1 .. FieldCount(s) : W[k] = Field(o, d, k)
  BY <1>3, <1>5, StoresAreFields
<1>9. DOMAIN mem' = DOMAIN mem /\ DOMAIN mem \subseteq Int
  BY <1>1, <1>4, CapacityAssumption DEF Written, LayoutTypeOK
<1> HIDE DEF o, s, d, W
<1>10. LayoutTypeOK'
  <2>1. nodes' \in [DOMAIN nodes' -> UNION {NodesOf(z) : z \in Shapes}]
    BY <1>1, <1>3, <1>4, <1>6 DEF LayoutTypeOK
  <2>2. DOMAIN nodes' \subseteq Nat
    BY <1>1, <1>4, <1>5 DEF LayoutTypeOK
  <2>3. asked' \in [Threads -> Shapes \cup {NoNode}]
    BY <1>1, <1>4 DEF LayoutTypeOK
  <2>4. QED
    BY <1>1, <1>4, <1>9, <2>1, <2>2, <2>3 DEF LayoutTypeOK, vars
<1>11. granted' = granted
  BY <1>4 DEF vars
<1>12. ASSUME NEW p \in DOMAIN nodes PROVE Laid(p)'
  <2>1. nodes'[p] = nodes[p] /\ Laid(p) /\ o # p
    BY <1>3, <1>4 DEF LInv
  <2>2. ASSUME NEW k \in 1 .. FieldCount(nodes[p].shape)
        PROVE  Holds(Field(p, nodes[p], k))'
    <3> DEFINE w == Field(p, nodes[p], k)
    <3>1. Holds(w)
      BY <2>1 DEF Laid
    <3>2. \A a \in Int : Covers(w, a) => \A j \in DOMAIN W : ~ Covers(W[j], a)
      BY <1>3, <1>6, <1>8, <2>1, OtherNodes
    <3>3. \A a \in DOMAIN mem : Covers(w, a) => mem'[a] = w.bytes[a - w.at + 1]
      <4> HIDE DEF w
      <4>1. QED
        BY <1>4, <1>9, <3>1, <3>2, WriteMisses DEF Holds
    <3>4. QED
      BY <1>9, <2>1, <3>3 DEF Holds
  <2>3. QED
    BY <1>11, <2>1, <2>2 DEF Laid, Granted
<1>13. Laid(o)'
  <2>1. nodes'[o] = d /\ o' = o
    BY <1>3, <1>4 DEF o, vars
  <2>2. ASSUME NEW k \in 1 .. FieldCount(s), NEW a \in DOMAIN mem, Covers(Field(o, d, k), a)
        PROVE  mem'[a] = Field(o, d, k).bytes[a - Field(o, d, k).at + 1]
    <3>1. FieldCount(s) \in Nat
      BY <1>3, ShapeFacts DEF FieldCount
    <3>2. \A j \in 1 .. FieldCount(s) : j # k => ~ Covers(W[j], a)
      BY <1>3, <1>5, <1>6, <1>8, <1>9, <2>2, CoveredOnce
    <3>3. Covers(W[k], a) /\ W[k] = Field(o, d, k)
      BY <1>8, <2>2
    <3>4. Written(W)[a] = W[k].bytes[a - W[k].at + 1]
      BY <1>8, <3>1, <3>2, <3>3, WriteHits
    <3>5. QED
      BY <1>4, <3>3, <3>4
  <2>3. QED
    BY <1>3, <1>6, <1>9, <1>11, <2>1, <2>2 DEF Laid, Holds, Granted
<1>14. \A p \in DOMAIN nodes' : Laid(p)'
  <2>1. o' = o
    BY <1>4 DEF o, vars
  <2>2. QED
    BY <1>4, <1>12, <1>13, <2>1
<1>15. ASSUME NEW u \in Threads PROVE Asking(u)'
  <2>1. UNCHANGED <<pc, size, offset, granted>>
    BY <1>4 DEF vars
  <2>2. CASE u = t
    BY <1>1, <1>4, <2>2 DEF Asking, Filling, LayoutTypeOK
  <2>3. CASE u # t
    <3>1. asked'[u] = asked[u] /\ Asking(u)
      BY <1>1, <1>4, <2>3 DEF LayoutTypeOK
    <3>2. Filling(u) => offset[u] # o
      BY <1>3, <2>3, <3>1 DEF Asking, o
    <3>3. \A v \in Threads : Filling(v)' => Filling(v)
      BY <1>1, <1>4, <2>1 DEF Filling, LayoutTypeOK
    <3>4. QED
      BY <1>4, <2>1, <3>1, <3>2, <3>3 DEF Asking, Granted
  <2>4. QED
    BY <2>2, <2>3
<1>16. QED
  BY <1>7, <1>10, <1>14, <1>15 DEF LInv

\* A link is stored in its field, number q, of node o.
LEMMA LinkStep ==
  ASSUME LInv, [LayoutNext]_layoutvars, UNCHANGED <<vars, asked>>,
         NEW o \in DOMAIN nodes, NEW e \in NodesOf(nodes[o].shape),
         nodes' = [nodes EXCEPT ![o] = e],
         NEW q \in 1 .. FieldCount(nodes[o].shape), mem' = Written(<<Field(o, e, q)>>),
         \A k \in 1 .. FieldCount(nodes[o].shape) :
           k # q => Field(o, e, k) = Field(o, nodes[o], k)
  PROVE  LInv'
<1> DEFINE s == nodes[o].shape
           W == <<Field(o, e, q)>>
<1>1. IInv /\ LayoutTypeOK /\ \A u \in Threads : Asking(u)
  BY DEF LInv
<1>2. o \in Nat /\ s \in Shapes /\ e.shape = s
  BY <1>1, NodeTypes DEF NodesOf
<1>3. IInv'
  BY ArenaKept
<1>4. DOMAIN mem' = DOMAIN mem /\ DOMAIN mem \subseteq Int
  BY <1>1, CapacityAssumption DEF Written, LayoutTypeOK
<1>5. DOMAIN W = 1 .. 1 /\ W[1] = Field(o, e, q)
  OBVIOUS
<1>6. DOMAIN nodes' = DOMAIN nodes /\ nodes'[o] = e
      /\ \A p \in DOMAIN nodes : p # o => nodes'[p] = nodes[p]
  BY <1>1 DEF LayoutTypeOK
<1>7. LayoutTypeOK'
  <2>1. nodes' \in [DOMAIN nodes' -> UNION {NodesOf(z) : z \in Shapes}]
    <3>1. e \in UNION {NodesOf(z) : z \in Shapes}
      BY <1>2
    <3>2. QED
      BY <1>1, <3>1 DEF LayoutTypeOK
  <2>2. QED
    BY <1>1, <1>4, <1>6, <2>1 DEF LayoutTypeOK, vars
<1>8. granted' = granted
  BY DEF vars
<1>9. Granted(o, Align(NodeSize(s))) /\ \A k \in 1 .. FieldCount(s) : Holds(Field(o, nodes[o], k))
  BY DEF LInv, Laid
<1>10. mem' = Written(W)
  OBVIOUS
<1> HIDE DEF s, W
<1>11. ASSUME NEW p \in DOMAIN nodes, p # o PROVE Laid(p)'
  <2>1. nodes'[p] = nodes[p] /\ Laid(p)
    BY <1>6, <1>11 DEF LInv
  <2>2. ASSUME NEW k \in 1 .. FieldCount(nodes[p].shape)
        PROVE  Holds(Field(p, nodes[p], k))'
    <3> DEFINE w == Field(p, nodes[p], k)
    <3>1. Holds(w)
      BY <2>1 DEF Laid
    <3>2. \A a \in Int : Covers(w, a) => ~ Covers(Field(o, e, q), a)
      BY <1>2, <1>9, <1>11, OtherNodes DEF s
    <3>3. \A a \in DOMAIN mem : Covers(w, a) => mem'[a] = w.bytes[a - w.at + 1]
      <4> HIDE DEF w
      <4>1. QED
        BY <1>4, <1>5, <1>10, <3>1, <3>2, WriteMisses DEF Holds
    <3>4. QED
      BY <1>4, <2>1, <3>3 DEF Holds
  <2>3. QED
    BY <1>8, <2>1, <2>2 DEF Laid, Granted
<1>12. Laid(o)'
  <2>1. ASSUME NEW k \in 1 .. FieldCount(s), NEW a \in DOMAIN mem, Covers(Field(o, e, k), a)
        PROVE  mem'[a] = Field(o, e, k).bytes[a - Field(o, e, k).at + 1]
    <3>1. CASE k = q
      <4>1. Covers(W[1], a) /\ \A j \in 1 .. 1 : j # 1 => ~ Covers(W[j], a)
        BY <1>5, <2>1, <3>1
      <4>2. 1 \in Nat /\ 1 \in 1 .. 1
        OBVIOUS
      <4>3. Written(W)[a] = W[1].bytes[a - W[1].at + 1]
        <5> DEFINE one == 1
        <5>1. /\ one \in Nat /\ DOMAIN W = 1 .. one /\ one \in 1 .. one
              /\ Covers(W[one], a) /\ \A j \in 1 .. one : j # one => ~ Covers(W[j], a)
          BY <1>5, <4>1, <4>2
        <5> HIDE DEF one
        <5>2. Written(W)[a] = W[one].bytes[a - W[one].at + 1]
          BY <5>1, WriteHits
        <5>3. QED
          BY <5>2 DEF one
      <4>4. QED
        BY <1>5, <1>10, <3>1, <4>3
    <3>2. CASE k # q
      <4>1. Field(o, e, k) = Field(o, nodes[o], k)
        BY <3>2 DEF s
      <4>2. ~ Covers(Field(o, e, q), a)
        BY <1>2, <1>4, <2>1, <3>2, CoveredOnce DEF s
      <4>3. mem'[a] = mem[a]
        BY <1>5, <1>10, <4>2, WriteMisses
      <4>4. QED
        BY <1>9, <2>1, <4>1, <4>3 DEF Holds
    <3>3. QED
      BY <3>1, <3>2
  <2>2. QED
    BY <1>2, <1>4, <1>6, <1>8, <1>9, <2>1 DEF Laid, Holds, Granted
<1>13. \A u \in Threads : Asking(u)'
  BY <1>1, <1>6, <1>8 DEF Asking, Filling, Granted, vars
<1>14. QED
  BY <1>3, <1>6, <1>7, <1>11, <1>12, <1>13 DEF LInv

LEMMA StoreNextStep == LInv /\ StoreNext => LInv'
<1> SUFFICES ASSUME LInv, StoreNext PROVE LInv'
  OBVIOUS
<1>1. PICK o \in DOMAIN nodes, n \in DOMAIN nodes : \E l \in DOMAIN nodes[o].tower :
        /\ mem' = Written(<<At(SlotAt(o, l), Pieces(n, USIZE))>>)
        /\ nodes' = [nodes EXCEPT ![o].tower[l] = n]
  BY DEF StoreNext
<1>2. PICK l \in DOMAIN nodes[o].tower :
        /\ mem' = Written(<<At(SlotAt(o, l), Pieces(n, USIZE))>>)
        /\ nodes' = [nodes EXCEPT ![o].tower[l] = n]
  BY <1>1
<1> DEFINE s == nodes[o].shape
           e == [nodes[o] EXCEPT !.tower[l] = n]
<1>3. LayoutTypeOK /\ [LayoutNext]_layoutvars /\ UNCHANGED <<vars, asked>>
  BY DEF LInv, LayoutNext, StoreNext
<1>4. s \in Shapes /\ nodes[o] \in NodesOf(s) /\ n \in Nat
  BY <1>3, NodeTypes
<1>5. PICK h \in Nat : s.height = h
  BY <1>4, ShapeFacts
<1>6. l \in 0 .. h
  BY <1>4, <1>5 DEF NodesOf
<1>7. e \in NodesOf(s) /\ e.shape = s /\ e.prev = nodes[o].prev
      /\ e.tower = [nodes[o].tower EXCEPT ![l] = n]
  BY <1>4 DEF NodesOf
<1>8. e.tower[l] = n /\ \A m \in Int : m # l => e.tower[m] = nodes[o].tower[m]
  BY <1>4, <1>7 DEF NodesOf
<1>9. nodes' = [nodes EXCEPT ![o] = e]
  BY <1>2
<1> DEFINE q == l + 5
<1> HIDE DEF s, e
<1>10. q \in 1 .. FieldCount(s) /\ q - 5 = l /\ 4 < q /\ q <= h + 5
  BY <1>5, <1>6 DEF FieldCount
<1> HIDE DEF q
<1>11. Field(o, e, q) = At(SlotAt(o, l), Pieces(n, USIZE))
  BY <1>5, <1>7, <1>8, <1>10 DEF Field
<1>12. ASSUME NEW k \in 1 .. FieldCount(s), k # q
       PROVE  Field(o, e, k) = Field(o, nodes[o], k)
  <2>1. k \in Int
    BY <1>5 DEF FieldCount
  <2>2. k - 5 \in Int /\ k - 5 # l
    BY <1>6, <1>10, <1>12, <2>1
  <2>3. e.tower[k - 5] = nodes[o].tower[k - 5]
    BY <1>8, <2>2
  <2>4. QED
    BY <1>7, <2>3 DEF Field, s
<1>13. QED
  BY <1>2, <1>3, <1>7, <1>9, <1>10, <1>11, <1>12, LinkStep DEF s

LEMMA StorePrevStep == LInv /\ StorePrev => LInv'
<1> SUFFICES ASSUME LInv, StorePrev PROVE LInv'
  OBVIOUS
<1>1. PICK o \in DOMAIN nodes, n \in DOMAIN nodes :
        /\ mem' = Written(<<At(PrevAt(o), Pieces(n, USIZE))>>)
        /\ nodes' = [nodes EXCEPT ![o].prev = n]
  BY DEF StorePrev
<1> DEFINE s == nodes[o].shape
           e == [nodes[o] EXCEPT !.prev = n]
<1>2. LayoutTypeOK /\ [LayoutNext]_layoutvars /\ UNCHANGED <<vars, asked>>
  BY DEF LInv, LayoutNext, StorePrev
<1>3. s \in Shapes /\ nodes[o] \in NodesOf(s) /\ n \in Nat
  BY <1>2, NodeTypes
<1>4. e \in NodesOf(s) /\ e.shape = s /\ e.prev = n /\ e.tower = nodes[o].tower
  BY <1>3 DEF NodesOf
<1>5. nodes' = [nodes EXCEPT ![o] = e]
  BY <1>1
<1> HIDE DEF s, e
<1>6. 4 \in 1 .. FieldCount(s)
  BY <1>3, ShapeFacts DEF FieldCount
<1>7. Field(o, e, 4) = At(PrevAt(o), Pieces(n, USIZE))
  BY <1>4 DEF Field
<1>8. ASSUME NEW k \in 1 .. FieldCount(s), k # 4
      PROVE  Field(o, e, k) = Field(o, nodes[o], k)
  BY <1>4, <1>8 DEF Field, s
<1>9. QED
  <2> DEFINE q == 4
  <2>1. /\ q \in 1 .. FieldCount(s) /\ mem' = Written(<<Field(o, e, q)>>)
        /\ \A k \in 1 .. FieldCount(s) : k # q => Field(o, e, k) = Field(o, nodes[o], k)
    BY <1>1, <1>6, <1>7, <1>8
  <2> HIDE DEF q
  <2>2. QED
    BY <1>2, <1>4, <1>5, <2>1, LinkStep DEF s

LEMMA StepLInv == LInv /\ [LayoutNext]_layoutvars => LInv'
<1> SUFFICES ASSUME LInv, [LayoutNext]_layoutvars PROVE LInv'
  OBVIOUS
<1>1. ASSUME NEW t \in Threads, ArenaStep(t) PROVE LInv'
  BY <1>1, NoGrantStep, GrantStep DEF ArenaStep
<1>2. CASE UNCHANGED layoutvars
  <2>1. IInv'
    BY ArenaKept
  <2>2. \A o \in DOMAIN nodes' : Laid(o)'
    BY <1>2, LaidStays DEF layoutvars, nodevars
  <2>3. LayoutTypeOK' /\ \A t \in Threads : Asking(t)'
    BY <1>2 DEF LInv, LayoutTypeOK, Asking, Filling, Granted, layoutvars, nodevars, vars
  <2>4. QED
    BY <2>1, <2>2, <2>3 DEF LInv
<1>3. QED
  BY <1>1, <1>2, AllocNodeStep, NoGrantStep, FillStep, StoreNextStep, StorePrevStep
  DEF LayoutNext

(***************************************************************************)
(* The invariant holds in every state: every node lies in a region of its  *)
(* own, and each of its fields holds what was last stored there.           *)
(***************************************************************************)
THEOREM LayoutInvariance == LayoutSpec => []LInv
  BY InitLInv, StepLInv, PTL DEF LayoutSpec

-----------------------------------------------------------------------------
(***************************************************************************)
(* What the accessors find.                                                *)
(***************************************************************************)
\* A field that holds the pieces of a value is loaded as that value.
LEMMA LoadsValue ==
  ASSUME DOMAIN mem = 0 .. CAPACITY - 1, NEW a \in Nat, NEW v, NEW w \in Nat \ {0},
         a + w <= CAPACITY, Holds(At(a, Pieces(v, w)))
  PROVE  LoadAt(a, w) = v
<1>1. ASSUME NEW i \in 1 .. w PROVE Byte(a + i - 1) = <<v, i, w>>
  <2> DEFINE b == a + i - 1
             x == At(a, Pieces(v, w))
  <2>1. b \in DOMAIN mem /\ b - a + 1 = i /\ a <= b /\ b < a + w
    BY CapacityAssumption
  <2>2. x.at = a /\ x.bytes = Pieces(v, w) /\ Len(x.bytes) = w
    BY PiecesFacts DEF At
  <2>3. Covers(x, b)
    BY <2>1, <2>2 DEF Covers
  <2>4. mem[b] = Pieces(v, w)[i]
    BY <2>1, <2>2, <2>3 DEF Holds
  <2>5. QED
    BY <2>1, <2>4, PiecesFacts DEF Byte
<1>2. Byte(a)[1] = v
  <2>1. 1 \in 1 .. w /\ a + 1 - 1 = a
    OBVIOUS
  <2>2. Byte(a) = <<v, 1, w>>
    BY <1>1, <2>1
  <2>3. QED
    BY <2>2
<1>3. QED
  BY <1>1, <1>2 DEF LoadAt

\* A field that holds data is read as that data.
LEMMA ReadsData ==
  ASSUME DOMAIN mem = 0 .. CAPACITY - 1, NEW a \in Nat, NEW c \in Seq(Nat),
         a + Len(c) <= CAPACITY, Holds(At(a, Data(c)))
  PROVE  Slice(a, Len(c)) = Data(c)
<1>1. Len(c) \in Nat
  OBVIOUS
<1>2. ASSUME NEW i \in 1 .. Len(c) PROVE Byte(a + i - 1) = <<c[i], 1, 1>>
  <2> DEFINE b == a + i - 1
             x == At(a, Data(c))
  <2>1. b \in DOMAIN mem /\ b - a + 1 = i /\ a <= b /\ b < a + Len(c)
    BY <1>1, CapacityAssumption
  <2>2. x.at = a /\ x.bytes = Data(c) /\ Len(x.bytes) = Len(c)
    BY <1>1 DEF At, Data
  <2>3. Covers(x, b)
    BY <2>1, <2>2 DEF Covers
  <2>4. mem[b] = Data(c)[i]
    BY <2>1, <2>2, <2>3 DEF Holds
  <2>5. QED
    BY <2>1, <2>4 DEF Byte, Data
<1>3. QED
  BY <1>2 DEF Slice, Data

\* A length that fits is stored as it is, one that does not becomes shorter.
LEMMA CutOff ==
  ASSUME NEW n \in Nat
  PROVE  n % LEN_LIMIT \in Nat /\ n % LEN_LIMIT <= n /\ (n < LEN_LIMIT => n % LEN_LIMIT = n)
<1>1. LEN_LIMIT \in Nat /\ 0 < LEN_LIMIT
  BY LimitsAssumption
<1>2. n % LEN_LIMIT \in Nat /\ n % LEN_LIMIT < LEN_LIMIT
  BY <1>1
<1>3. n < LEN_LIMIT => n % LEN_LIMIT = n
  BY <1>1
<1>4. QED
  BY <1>1, <1>2, <1>3

\* The node is inside the buffer, and its fields are found.
LEMMA FieldsFound ==
  ASSUME LInv, NEW o \in DOMAIN nodes, NEW s, s = nodes[o].shape
  PROVE  /\ node_key_len(o) = Len(s.key) % LEN_LIMIT
         /\ node_value_len(o) = Len(s.value) % LEN_LIMIT
         /\ node_height(o) = s.height
         /\ node_prev(o) = nodes[o].prev
         /\ \A l \in 0 .. s.height : node_next_offset(o, l) = nodes[o].tower[l]
         /\ Slice(o + kv_data_off(s.height), Len(s.key)) = Data(s.key)
         /\ Slice(o + kv_data_off(s.height) + Len(s.key), Len(s.value)) = Data(s.value)
<1> DEFINE d == nodes[o]
           F(k) == Field(o, d, k)
<1>1. /\ IInv /\ DOMAIN mem = 0 .. CAPACITY - 1
      /\ o \in Nat /\ s \in Shapes /\ d.shape = s
  BY NodeTypes DEF LInv, LayoutTypeOK
<1>2. o + NodeSize(s) <= CAPACITY
  <2>1. Granted(o, Align(NodeSize(s)))
    BY <1>1 DEF LInv, Laid
  <2>2. o + Align(NodeSize(s)) <= ptr /\ ptr \in Nat /\ ptr <= CAPACITY
    BY <1>1, <2>1, GrantedFacts
  <2>3. QED
    BY <1>1, <2>2, ShapeFacts, CapacityAssumption
<1>3. PICK h \in Nat, x \in Nat, y \in Nat :
        /\ s.height = h /\ Len(s.key) = x /\ Len(s.value) = y
        /\ NodeSize(s) = 32 + h * 8 + x + y
  BY <1>1, ShapeFacts
<1>4. \A k \in 1 .. h + 7 : Holds(F(k))
  <2>1. FieldCount(s) = h + 7
    BY <1>3 DEF FieldCount
  <2>2. QED
    BY <1>1, <2>1 DEF LInv, Laid
<1>5. o + 32 + h * 8 + x + y <= CAPACITY /\ CAPACITY \in Nat
  BY <1>1, <1>2, <1>3, CapacityAssumption
<1>6. o + 32 <= CAPACITY /\ Holds(F(1)) /\ Holds(F(2)) /\ Holds(F(3)) /\ Holds(F(4))
  <2>1. o + 32 <= CAPACITY
    BY <1>1, <1>3, <1>5
  <2>2. 1 \in 1 .. h + 7 /\ 2 \in 1 .. h + 7 /\ 3 \in 1 .. h + 7 /\ 4 \in 1 .. h + 7
    BY <1>3
  <2>3. QED
    BY <1>4, <2>1, <2>2
<1>7. \A v : \A a \in Nat :
        /\ a + 4 <= CAPACITY /\ Holds(At(a, Pieces(v, 4))) => LoadAt(a, 4) = v
        /\ a + 8 <= CAPACITY /\ Holds(At(a, Pieces(v, 8))) => LoadAt(a, 8) = v
  BY <1>1, LoadsValue
<1>8. node_key_len(o) = Len(s.key) % LEN_LIMIT
  <2>1. F(1) = At(o, Pieces(Len(s.key) % LEN_LIMIT, 4)) /\ o + KEY_LEN_OFF = o
    BY <1>1 DEF Field, U32, KEY_LEN_OFF
  <2>2. Holds(F(1)) /\ o + 4 <= CAPACITY
    BY <1>1, <1>5, <1>6
  <2>3. QED
    BY <1>1, <1>7, <2>1, <2>2 DEF node_key_len, U32
<1>9. node_value_len(o) = Len(s.value) % LEN_LIMIT
  <2>1. F(2) = At(o + 4, Pieces(Len(s.value) % LEN_LIMIT, 4))
    BY <1>1 DEF Field, U32, VALUE_LEN_OFF
  <2>2. Holds(F(2)) /\ o + 4 + 4 <= CAPACITY /\ o + 4 \in Nat
    BY <1>1, <1>5, <1>6
  <2>3. LoadAt(o + 4, 4) = Len(s.value) % LEN_LIMIT
    BY <1>7, <2>1, <2>2
  <2>4. QED
    BY <2>3 DEF node_value_len, U32, VALUE_LEN_OFF
<1>10. node_height(o) = s.height
  <2>1. F(3) = At(o + 8, Pieces(s.height, 4))
    BY <1>1 DEF Field, U32, HEIGHT_OFF
  <2>2. Holds(F(3)) /\ o + 8 + 4 <= CAPACITY /\ o + 8 \in Nat
    BY <1>1, <1>5, <1>6
  <2>3. LoadAt(o + 8, 4) = s.height
    BY <1>7, <2>1, <2>2
  <2>4. QED
    BY <2>3 DEF node_height, U32, HEIGHT_OFF
<1>11. node_prev(o) = d.prev
  <2>1. F(4) = At(o + 16, Pieces(d.prev, 8))
    BY DEF Field, PrevAt, PREV_OFF, USIZE
  <2>2. Holds(F(4)) /\ o + 16 + 8 <= CAPACITY /\ o + 16 \in Nat
    BY <1>1, <1>5, <1>6
  <2>3. LoadAt(o + 16, 8) = d.prev
    BY <1>7, <2>1, <2>2
  <2>4. QED
    BY <2>3 DEF node_prev, PrevAt, PREV_OFF, USIZE
<1>12. ASSUME NEW l \in 0 .. h PROVE node_next_offset(o, l) = d.tower[l]
  <2> DEFINE k == l + 5
             a == o + 24 + l * 8
  <2>1. k \in 1 .. h + 7 /\ 4 < k /\ k <= h + 5 /\ k - 5 = l
    OBVIOUS
  <2>2. a \in Nat /\ a + 8 <= CAPACITY
    <3>1. l \in Nat /\ l <= h
      OBVIOUS
    <3>2. o + 32 + h * 8 <= CAPACITY /\ o \in Nat
      BY <1>1, <1>3, <1>5
    <3>3. QED
      BY <1>5, <3>1, <3>2
  <2>3. SlotAt(o, l) = a
    BY DEF SlotAt, TOWER_OFF, USIZE
  <2> HIDE DEF k, a
  <2>4. F(k) = At(a, Pieces(d.tower[l], 8))
    BY <1>1, <1>3, <2>1, <2>3 DEF Field, USIZE
  <2>5. Holds(F(k))
    BY <1>4, <2>1
  <2>6. LoadAt(a, 8) = d.tower[l]
    BY <1>7, <2>2, <2>4, <2>5
  <2>7. QED
    BY <2>3, <2>6 DEF node_next_offset, USIZE
<1>13. kv_data_off(h) = 32 + h * 8
  BY DEF kv_data_off, TOWER_OFF, USIZE
<1>14. Slice(o + kv_data_off(h), Len(s.key)) = Data(s.key)
  <2> DEFINE a == o + (32 + h * 8)
  <2>1. a \in Nat /\ a + Len(s.key) <= CAPACITY
    BY <1>1, <1>3, <1>5
  <2> HIDE DEF a
  <2>2. F(h + 6) = At(a, Data(s.key))
    BY <1>1, <1>3, <1>13 DEF Field, a
  <2>3. Holds(F(h + 6)) /\ s.key \in Seq(Nat)
    BY <1>1, <1>4, ShapesAssumption
  <2>4. Slice(a, Len(s.key)) = Data(s.key)
    BY <1>1, <2>1, <2>2, <2>3, ReadsData
  <2>5. QED
    BY <1>13, <2>4 DEF a
<1>15. Slice(o + kv_data_off(h) + Len(s.key), Len(s.value)) = Data(s.value)
  <2> DEFINE a == o + (32 + h * 8) + Len(s.key)
  <2>1. a \in Nat /\ a + Len(s.value) <= CAPACITY
    BY <1>1, <1>3, <1>5
  <2> HIDE DEF a
  <2>2. F(h + 7) = At(a, Data(s.value))
    BY <1>1, <1>3, <1>13 DEF Field, a
  <2>3. Holds(F(h + 7)) /\ s.value \in Seq(Nat)
    BY <1>1, <1>4, ShapesAssumption
  <2>4. Slice(a, Len(s.value)) = Data(s.value)
    BY <1>1, <2>1, <2>2, <2>3, ReadsData
  <2>5. QED
    BY <1>13, <2>4 DEF a
<1>16. QED
  BY <1>3, <1>8, <1>9, <1>10, <1>11, <1>12, <1>14, <1>15

(***************************************************************************)
(* Every node reads back what was last stored in it (mod.rs, alloc_node    *)
(* and the node_ accessors), whatever nodes and links are stored by        *)
(* whichever threads.                                                      *)
(***************************************************************************)
THEOREM NodesReadBack == LayoutSpec => []ReadBack
<1>1. LInv => ReadBack
  <2> SUFFICES ASSUME LInv, NEW o \in DOMAIN nodes
               PROVE  /\ node_height(o) = nodes[o].shape.height
                      /\ node_prev(o) = nodes[o].prev
                      /\ \A l \in DOMAIN nodes[o].tower :
                           node_next_offset(o, l) = nodes[o].tower[l]
                      /\ Short(nodes[o].shape) =>
                           /\ node_key(o) = Data(nodes[o].shape.key)
                           /\ node_value(o) = Data(nodes[o].shape.value)
    BY DEF ReadBack
  <2> DEFINE s == nodes[o].shape
  <2>1. s \in Shapes /\ nodes[o] \in NodesOf(s)
    BY NodeTypes DEF LInv
  <2>2. DOMAIN nodes[o].tower = 0 .. s.height
    BY <2>1 DEF NodesOf
  <2> HIDE DEF s
  <2>3. s = nodes[o].shape
    BY DEF s
  <2>4. Short(s) => node_key_len(o) = Len(s.key) /\ node_value_len(o) = Len(s.value)
    BY <2>1, <2>3, FieldsFound, ShapeFacts, CutOff DEF Short
  <2>5. Short(s) => node_key(o) = Data(s.key) /\ node_value(o) = Data(s.value)
    BY <2>3, <2>4, FieldsFound DEF node_key, node_value
  <2>6. QED
    BY <2>2, <2>3, <2>5, FieldsFound
<1>2. QED
  BY <1>1, LayoutInvariance, PTL

(***************************************************************************)
(* The accessors stay inside the node's own region, also when a length was *)
(* cut off, and its atomic fields are aligned.                             *)
(***************************************************************************)
THEOREM AccessesInside == LayoutSpec => []AccessInside
<1>1. LInv => AccessInside
  <2> SUFFICES ASSUME LInv, NEW o \in DOMAIN nodes
               PROVE  /\ PrevAt(o) % USIZE = 0
                      /\ \A l \in DOMAIN nodes[o].tower : SlotAt(o, l) % USIZE = 0
                      /\ \E g \in DOMAIN granted :
                           /\ granted[g].off = o
                           /\ SlotAt(o, node_height(o)) + USIZE <= o + granted[g].len
                           /\ kv_data_off(node_height(o)) + node_key_len(o) + node_value_len(o)
                                <= granted[g].len
    BY DEF AccessInside
  <2> DEFINE s == nodes[o].shape
             n == Align(NodeSize(s))
  <2>1. s \in Shapes /\ nodes[o] \in NodesOf(s) /\ o \in Nat
    BY NodeTypes DEF LInv
  <2>2. PICK h \in Nat, x \in Nat, y \in Nat :
          /\ s.height = h /\ Len(s.key) = x /\ Len(s.value) = y
          /\ NodeSize(s) = 32 + h * 8 + x + y
    BY <2>1, ShapeFacts
  <2>3. DOMAIN nodes[o].tower = 0 .. h
    BY <2>1, <2>2 DEF NodesOf
  <2>4. IInv /\ Granted(o, n) /\ n \in Nat /\ NodeSize(s) <= n
    BY <2>1, ShapeFacts DEF LInv, Laid
  <2>5. o % 8 = 0
    BY <2>4, GrantedFacts
  <2>6. /\ node_height(o) = h /\ node_key_len(o) = x % LEN_LIMIT
        /\ node_value_len(o) = y % LEN_LIMIT
    BY <2>2, FieldsFound
  <2>7. /\ x % LEN_LIMIT \in Nat /\ x % LEN_LIMIT <= x
        /\ y % LEN_LIMIT \in Nat /\ y % LEN_LIMIT <= y
    BY CutOff
  <2>8. PICK g \in 1 .. Len(granted) : granted[g].off = o /\ granted[g].len = n
    BY <2>4 DEF Granted
  <2>9. DOMAIN granted = 1 .. Len(granted)
    BY <2>4 DEF IInv, TypeOK
  <2>10. PrevAt(o) % USIZE = 0
    BY <2>1, <2>5 DEF PrevAt, PREV_OFF, USIZE
  <2>11. ASSUME NEW l \in 0 .. h PROVE SlotAt(o, l) % USIZE = 0
    BY <2>1, <2>5 DEF SlotAt, TOWER_OFF, USIZE
  <2> HIDE DEF n, s
  <2>12. SlotAt(o, h) + USIZE <= o + n
    BY <2>1, <2>2, <2>4 DEF SlotAt, TOWER_OFF, USIZE
  <2>13. kv_data_off(h) + (x % LEN_LIMIT) + (y % LEN_LIMIT) <= n
    <3> DEFINE i == x % LEN_LIMIT
               j == y % LEN_LIMIT
    <3>1. i \in Nat /\ j \in Nat /\ i <= x /\ j <= y
      BY <2>7
    <3> HIDE DEF i, j
    <3>2. kv_data_off(h) = 32 + h * 8
      BY DEF kv_data_off, TOWER_OFF, USIZE
    <3>3. 32 + h * 8 + i + j <= n
      BY <2>2, <2>4, <3>1
    <3>4. QED
      BY <3>2, <3>3 DEF i, j
  <2>14. QED
    BY <2>3, <2>6, <2>8, <2>9, <2>10, <2>11, <2>12, <2>13
<1>2. QED
  BY <1>1, LayoutInvariance, PTL
=============================================================================
