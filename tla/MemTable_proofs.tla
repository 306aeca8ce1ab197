-------------------------- MODULE MemTable_proofs --------------------------
(***************************************************************************)
(* Proofs about MemTable, for any keys, values, last sequence number and   *)
(* arena.                                                                  *)
(***************************************************************************)
EXTENDS MemTable, FiniteSetTheorems, WellFoundedInduction, TLAPS

(***************************************************************************)
(* Sets of natural numbers have a least element.                           *)
(***************************************************************************)
LessOnNat == {ss \in Nat \X Nat : ss[1] < ss[2]}

LEMMA LessIsWellFounded == IsWellFoundedOn(LessOnNat, Nat)
  BY NatLessThanWellFounded DEF OpToRel, LessOnNat

LEMMA LeastNatural ==
  ASSUME NEW S, S \subseteq Nat, S # {}
  PROVE  \E n \in S : \A m \in S : n <= m
<1>1. PICK n \in S : \A m \in S : <<m, n>> \notin LessOnNat
  BY LessIsWellFounded, WFMin
<1>2. ASSUME NEW m \in S PROVE n <= m
  <2>1. <<m, n>> \in Nat \X Nat /\ m \in Nat /\ n \in Nat
    OBVIOUS
  <2>2. ~(m < n)
    BY <1>1, <2>1 DEF LessOnNat
  <2>3. QED
    BY <2>1, <2>2
<1>3. QED
  BY <1>2

(***************************************************************************)
(* Encoding and decoding of internal keys.                                 *)
(***************************************************************************)
LEMMA Division ==
  ASSUME NEW q \in Nat, NEW b \in {0, 1}
  PROVE  (q * 256 + b) \div 256 = q /\ (q * 256 + b) % 256 = b
  OBVIOUS

LEMMA Decode ==
  ASSUME NEW k \in UserKeys, NEW s \in 0 .. MAX_SEQUENCE, NEW t \in ValueType
  PROVE  /\ new(k, s, t).user = k /\ new(k, s, t).trailer \in Nat
         /\ sequence(new(k, s, t)) = s
         /\ value_type(new(k, s, t)) = t
<1> DEFINE q == MAX_SEQUENCE - s
<1>1. q \in Nat /\ TypeByte(t) \in {0, 1} /\ MAX_SEQUENCE - q = s
  BY SizesAssumption DEF TypeByte
<1>2. (q * 256 + TypeByte(t)) \div 256 = q /\ (q * 256 + TypeByte(t)) % 256 = TypeByte(t)
  BY <1>1, Division
<1>3. new(k, s, t) = [user |-> k, trailer |-> q * 256 + TypeByte(t)]
  BY DEF new
<1> HIDE DEF q
<1>4. new(k, s, t).user = k /\ new(k, s, t).trailer = q * 256 + TypeByte(t)
  BY <1>3
<1>5. q * 256 + TypeByte(t) \in Nat
  BY <1>1
<1>6. sequence(new(k, s, t)) = s
  BY <1>1, <1>2, <1>4 DEF sequence
<1>7. value_type(new(k, s, t)) = t
  BY <1>2, <1>4 DEF value_type, TypeByte, ValueType
<1>8. QED
  BY <1>4, <1>5, <1>6, <1>7

(***************************************************************************)
(* The inductive invariant: the nodes carry numbers already handed out,    *)
(* all different, and the last acknowledged write of a key is the node     *)
(* with the largest.                                                       *)
(***************************************************************************)
WellFormed(n) ==
  /\ sequence(n.key) \in 1 .. MAX_SEQUENCE
  /\ sequence(n.key) < next_sequence
  /\ value_type(n.key) \in ValueType
  /\ n.key.trailer = (MAX_SEQUENCE - sequence(n.key)) * 256 + TypeByte(value_type(n.key))

Newest(k) ==
  \/ newest[k] = None /\ \A n \in list : n.key.user # k
  \/ \E n \in list :
       /\ n.key.user = k
       /\ newest[k] = [sequence |-> sequence(n.key), value |-> n.value,
                       value_type |-> value_type(n.key)]
       /\ \A m \in list : m.key.user = k => sequence(m.key) <= sequence(n.key)

IInv ==
  /\ TypeOK
  /\ IsFiniteSet(list)
  /\ \A n \in list : WellFormed(n)
  /\ DistinctVersions
  /\ \A k \in UserKeys : Newest(k)

LEMMA InitIInv == Init => IInv
<1> SUFFICES ASSUME Init PROVE IInv
  OBVIOUS
<1>1. TypeOK
  BY SizesAssumption DEF Init, TypeOK, None
<1>2. IsFiniteSet(list)
  BY FS_EmptySet DEF Init
<1>3. /\ \A n \in list : WellFormed(n)
      /\ DistinctVersions
      /\ \A k \in UserKeys : Newest(k)
  BY DEF Init, DistinctVersions, Newest
<1>4. QED
  BY <1>1, <1>2, <1>3 DEF IInv

(***************************************************************************)
(* A write that fails takes a number, nothing else.                        *)
(***************************************************************************)
LEMMA FailStep ==
  ASSUME IInv, TakeSequence, last' \in {"overflow", "panic"},
         UNCHANGED <<list, approximate_size, mem_size, newest>>
  PROVE  IInv'
<1>1. next_sequence \in Nat /\ next_sequence' = next_sequence + 1
      /\ next_sequence' \in 1 .. LAST_CALL + 1
  BY SizesAssumption DEF IInv, TypeOK, TakeSequence
<1>2. TypeOK'
  BY <1>1 DEF IInv, TypeOK
<1>3. \A n \in list : WellFormed(n)'
  <2> SUFFICES ASSUME NEW n \in list PROVE WellFormed(n)'
    OBVIOUS
  <2>1. WellFormed(n)
    BY DEF IInv
  <2>2. sequence(n.key) < next_sequence' /\ sequence(n.key)' = sequence(n.key)
        /\ value_type(n.key)' = value_type(n.key)
    <3>1. sequence(n.key) \in Int
      BY <2>1, SizesAssumption DEF WellFormed
    <3>2. QED
      BY <2>1, <1>1, <3>1 DEF WellFormed, sequence, value_type
  <2>3. QED
    BY <2>1, <2>2 DEF WellFormed, TypeByte
<1>4. DistinctVersions'
  BY DEF IInv, DistinctVersions, sequence
<1>5. ASSUME NEW k \in UserKeys PROVE Newest(k)'
  <2>1. Newest(k)
    BY DEF IInv
  <2>2. QED
    BY <2>1 DEF Newest, sequence, value_type
<1>6. QED
  BY <1>2, <1>3, <1>4, <1>5 DEF IInv

(***************************************************************************)
(* A write that succeeds adds the node with the largest number so far.     *)
(***************************************************************************)
LEMMA WriteAdds ==
  ASSUME IInv, NEW k \in UserKeys, NEW v \in Nat, NEW t \in ValueType, Write(k, v, t)
  PROVE  LET n == [key |-> new(k, next_sequence, t), value |-> v] IN
         /\ next_sequence \in 1 .. MAX_SEQUENCE
         /\ next_sequence' = next_sequence + 1
         /\ sequence(n.key) = next_sequence /\ value_type(n.key) = t
         /\ n.key.user = k /\ n.key.trailer \in Nat
         /\ n \notin list /\ list' = list \cup {n}
         /\ newest' = [newest EXCEPT ![k] = [sequence |-> next_sequence, value |-> v,
                                             value_type |-> t]]
<1> DEFINE ik == new(k, next_sequence, t)
           n == [key |-> ik, value |-> v]
<1>1. next_sequence \in 1 .. MAX_SEQUENCE /\ next_sequence' = next_sequence + 1
  BY SizesAssumption DEF IInv, TypeOK, Write, TakeSequence, Overflowed
<1>2. next_sequence \in 0 .. MAX_SEQUENCE
  BY <1>1
<1>3. /\ ik.user = k /\ ik.trailer \in Nat
      /\ sequence(ik) = next_sequence /\ value_type(ik) = t
  BY <1>2, Decode
<1>4. \A m \in list : m.key # ik
  <2> SUFFICES ASSUME NEW m \in list, m.key = ik PROVE FALSE
    OBVIOUS
  <2>1. sequence(m.key) < next_sequence
    BY DEF IInv, WellFormed
  <2>2. QED
    BY <2>1, <1>1, <1>3
<1>5. list' = list \cup {n}
  BY <1>4 DEF Write, Present
<1>6. n \notin list
  BY <1>4
<1>7. newest' = [newest EXCEPT ![k] = [sequence |-> next_sequence, value |-> v,
                                       value_type |-> t]]
  BY DEF Write
<1> HIDE DEF ik
<1>8. n.key = ik
  OBVIOUS
<1>9. QED
  BY <1>1, <1>3, <1>5, <1>6, <1>7, <1>8 DEF ik

LEMMA WriteStep ==
  ASSUME IInv, NEW k \in UserKeys, NEW v \in Nat, NEW t \in ValueType, Write(k, v, t)
  PROVE  IInv'
<1> DEFINE n == [key |-> new(k, next_sequence, t), value |-> v]
<1>1. /\ next_sequence \in 1 .. MAX_SEQUENCE /\ next_sequence' = next_sequence + 1
      /\ sequence(n.key) = next_sequence /\ value_type(n.key) = t
      /\ n.key.user = k /\ n.key.trailer \in Nat
      /\ list' = list \cup {n}
      /\ newest' = [newest EXCEPT ![k] = [sequence |-> next_sequence, value |-> v,
                                          value_type |-> t]]
  BY WriteAdds
<1>2. n.key.trailer = (MAX_SEQUENCE - next_sequence) * 256 + TypeByte(t) /\ n.value = v
      /\ n \in [key : [user : UserKeys, trailer : Nat], value : Nat]
  BY <1>1 DEF new
<1>3. TypeOK'
  <2>1. approximate_size' \in Nat /\ mem_size' \in 0 .. CAPACITY
        /\ last' \in {"none", "ok", "overflow", "panic"}
    <3>1. k \in Nat /\ approximate_size \in Nat /\ mem_size \in 0 .. CAPACITY
      BY KeysAssumption DEF IInv, TypeOK
    <3>2. approximate_size' = approximate_size + (k + v + 8) /\ last' = "ok"
      BY DEF Write, VersionSize
    <3>3. PICK h \in 0 .. MAX_HEIGHT - 1 :
            mem_size' = mem_size \/
              (mem_size' = mem_size + NodeSize(h, k, v) /\ mem_size' <= CAPACITY)
      BY DEF Write, Fits
    <3>4. h \in Nat
      BY HeightAssumption
    <3>5. NodeSize(h, k, v) \in Nat
      <4>1. 24 + 8 * (h + 1) + k + 8 + v + 7 \in Nat
        BY <3>1, <3>4
      <4>2. QED
        BY <4>1 DEF NodeSize
    <3>6. QED
      BY <3>1, <3>2, <3>3, <3>5, SizesAssumption
  <2>2. next_sequence' \in 1 .. LAST_CALL + 1
    BY SizesAssumption DEF IInv, TypeOK, Write, TakeSequence
  <2>3. newest' \in [UserKeys -> [sequence : Nat, value : Nat,
                                  value_type : ValueType \cup {"none"}]]
    BY <1>1 DEF IInv, TypeOK
  <2>4. list' \subseteq [key : [user : UserKeys, trailer : Nat], value : Nat]
    BY <1>1, <1>2 DEF IInv, TypeOK
  <2>5. QED
    BY <2>1, <2>2, <2>3, <2>4 DEF TypeOK
<1> HIDE DEF n
<1>4. IsFiniteSet(list')
  BY <1>1, FS_AddElement DEF IInv
<1>5. ASSUME NEW m \in list PROVE WellFormed(m) /\ sequence(m.key) < next_sequence
                                   /\ sequence(m.key) \in Int
  BY SizesAssumption DEF IInv, WellFormed
<1>6. ASSUME NEW m \in list' PROVE WellFormed(m)'
  <2>1. CASE m \in list
    BY <1>1, <1>5, <2>1 DEF WellFormed, sequence, value_type, TypeByte
  <2>2. CASE m = n
    BY <1>1, <1>2, <2>2 DEF WellFormed, sequence, value_type, TypeByte
  <2>3. QED
    BY <1>1, <2>1, <2>2
<1>7. DistinctVersions'
  <2>1. ASSUME NEW m \in list, NEW l \in list, sequence(m.key) = sequence(l.key)
        PROVE  m = l
    BY <2>1 DEF IInv, DistinctVersions
  <2>2. ASSUME NEW m \in list PROVE sequence(m.key) # sequence(n.key)
    BY <1>1, <1>5
  <2>3. ASSUME NEW m \in list \cup {n}, NEW l \in list \cup {n},
               sequence(m.key) = sequence(l.key)
        PROVE  m = l
    BY <2>1, <2>2, <2>3
  <2>4. QED
    BY <2>3, <1>1 DEF DistinctVersions, sequence
<1>8. ASSUME NEW j \in UserKeys PROVE Newest(j)'
  <2>0. Newest(j) /\ newest \in [UserKeys -> [sequence : Nat, value : Nat,
                                  value_type : ValueType \cup {"none"}]]
    BY DEF IInv, TypeOK
  <2>1. CASE j # k
    <3>1. newest'[j] = newest[j]
      BY <1>1, <2>0, <2>1
    <3>2. n.key.user # j
      BY <1>1, <2>1
    <3>3. QED
      BY <2>0, <3>1, <3>2, <1>1 DEF Newest, sequence, value_type
  <2>2. CASE j = k
    <3>1. newest'[j] = [sequence |-> sequence(n.key), value |-> n.value,
                        value_type |-> value_type(n.key)]
      BY <1>1, <1>2, <2>0, <2>2
    <3>2. \A m \in list' : m.key.user = j => sequence(m.key) <= sequence(n.key)
      BY <1>1, <1>5
    <3>3. n \in list' /\ n.key.user = j
      BY <1>1, <2>2
    <3>4. QED
      BY <3>1, <3>2, <3>3 DEF Newest, sequence, value_type
  <2>3. QED
    BY <2>1, <2>2
<1>9. QED
  BY <1>3, <1>4, <1>6, <1>7, <1>8 DEF IInv

LEMMA StepIInv == IInv /\ [Next]_mtvars => IInv'
<1> SUFFICES ASSUME IInv, [Next]_mtvars PROVE IInv'
  OBVIOUS
<1>1. ASSUME NEW k \in UserKeys, NEW v \in Nat, Panic(k, v) PROVE IInv'
  BY <1>1, FailStep DEF Panic
<1>2. CASE Put
  BY <1>2, <1>1, WriteStep, KeysAssumption DEF Put, ValueType
<1>3. CASE Delete
  BY <1>3, <1>1, WriteStep DEF Delete, ValueType
<1>4. CASE Overflow
  BY <1>4, FailStep DEF Overflow
<1>5. CASE UNCHANGED mtvars
  BY <1>5 DEF IInv, TypeOK, WellFormed, DistinctVersions, Newest, mtvars, sequence,
              value_type
<1>6. QED
  BY <1>2, <1>3, <1>4, <1>5 DEF Next

\* The invariant holds in every state.
THEOREM Invariance == Spec => []IInv
  BY InitIInv, StepIInv, PTL DEF Spec

(***************************************************************************)
(* No two versions share a sequence number.                                *)
(***************************************************************************)
THEOREM NumbersDistinct == Spec => []DistinctVersions
<1>1. IInv => DistinctVersions
  BY DEF IInv
<1>2. QED
  BY <1>1, Invariance, PTL

(***************************************************************************)
(* A successful seek returns the first node at or after the key: there is  *)
(* one, because user keys and trailers are natural numbers.                *)
(***************************************************************************)
LEMMA SeekFindsFirst ==
  ASSUME IInv, NEW ik, AtOrAfter(ik) # {}
  PROVE  /\ seek(ik) \in AtOrAfter(ik)
         /\ \A m \in AtOrAfter(ik) : ~Before(m.key, seek(ik).key)
<1> DEFINE S == AtOrAfter(ik)
           Users == {m.key.user : m \in S}
<1>1. S \subseteq list /\ \A m \in S : m.key.user \in Nat /\ m.key.trailer \in Nat
  BY KeysAssumption DEF IInv, TypeOK, AtOrAfter
<1>2. PICK u \in Users : \A x \in Users : u <= x
  <2>1. Users \subseteq Nat /\ Users # {}
    BY <1>1
  <2> HIDE DEF Users
  <2>2. QED
    BY <2>1, LeastNatural
<1> DEFINE Trailers == {m.key.trailer : m \in {x \in S : x.key.user = u}}
<1>3. PICK l \in Trailers : \A x \in Trailers : l <= x
  <2>1. Trailers \subseteq Nat /\ Trailers # {}
    BY <1>1, <1>2
  <2> HIDE DEF Trailers
  <2>2. QED
    BY <2>1, LeastNatural
<1>4. PICK n \in S : n.key.user = u /\ n.key.trailer = l
  BY <1>3
<1>5. ASSUME NEW m \in S PROVE ~Before(m.key, n.key)
  <2>1. u <= m.key.user /\ u \in Nat /\ m.key.user \in Nat
    BY <1>1, <1>2, <1>4
  <2>2. m.key.user = u => l <= m.key.trailer
    BY <1>3
  <2>3. l \in Nat /\ m.key.trailer \in Nat
    BY <1>1, <1>4
  <2>4. QED
    BY <2>1, <2>2, <2>3, <1>4 DEF Before
<1>6. QED
  BY <1>4, <1>5 DEF seek

(***************************************************************************)
(* The newest version of a key is the first node at or after what lookup   *)
(* seeks, unless it is a tombstone with the last sequence number.          *)
(***************************************************************************)
LEMMA NewestIsFirst ==
  ASSUME IInv, NEW k \in UserKeys, NEW n \in list, n.key.user = k,
         \A m \in list : m.key.user = k => sequence(m.key) <= sequence(n.key),
         ~(sequence(n.key) = MAX_SEQUENCE /\ value_type(n.key) = "Delete")
  PROVE  seek(new_max(k)) = n /\ AtOrAfter(new_max(k)) # {}
<1>1. new_max(k) = [user |-> k, trailer |-> 1]
  BY SizesAssumption DEF new_max, new, TypeByte
<1>2. ASSUME NEW m \in list
      PROVE  /\ m.key.user \in Nat /\ m.key.trailer \in Nat
             /\ sequence(m.key) \in 1 .. MAX_SEQUENCE /\ MAX_SEQUENCE \in Nat
             /\ TypeByte(value_type(m.key)) \in {0, 1}
             /\ value_type(m.key) # "Delete" => TypeByte(value_type(m.key)) = 1
             /\ m.key.trailer =
                  (MAX_SEQUENCE - sequence(m.key)) * 256 + TypeByte(value_type(m.key))
  BY SizesAssumption, KeysAssumption DEF IInv, TypeOK, WellFormed, TypeByte, ValueType
<1>3. 1 <= n.key.trailer
  <2>1. CASE sequence(n.key) = MAX_SEQUENCE
    BY <1>2, <2>1
  <2>2. CASE sequence(n.key) < MAX_SEQUENCE
    BY <1>2, <2>2
  <2>3. QED
    BY <1>2, <2>1, <2>2
<1>4. n \in AtOrAfter(new_max(k))
  BY <1>1, <1>2, <1>3 DEF AtOrAfter, Before
<1> DEFINE c == seek(new_max(k))
<1>5. c \in AtOrAfter(new_max(k)) /\ ~Before(n.key, c.key)
  BY <1>4, SeekFindsFirst
<1>6. c \in list /\ ~Before(c.key, new_max(k))
  BY <1>5 DEF AtOrAfter
<1> HIDE DEF c
<1>7. c.key.user = k
  <2>1. ~(c.key.user < k) /\ ~(k < c.key.user)
    BY <1>1, <1>5, <1>6 DEF Before
  <2>2. c.key.user \in Nat /\ k \in Nat
    BY <1>2, <1>6
  <2>3. QED
    BY <2>1, <2>2
<1>8. c.key.trailer <= n.key.trailer
  BY <1>2, <1>5, <1>6, <1>7 DEF Before
<1>9. sequence(c.key) <= sequence(n.key)
  BY <1>6, <1>7
<1>10. sequence(c.key) = sequence(n.key)
  <2>1. ASSUME sequence(c.key) < sequence(n.key) PROVE FALSE
    BY <2>1, <1>2, <1>6, <1>8
  <2>2. QED
    BY <2>1, <1>2, <1>6, <1>9
<1>11. c = n
  BY <1>6, <1>10 DEF IInv, DistinctVersions
<1>12. QED
  BY <1>4, <1>11 DEF c

(***************************************************************************)
(* Reads find the last acknowledged write.                                 *)
(***************************************************************************)
THEOREM NewestFound == Spec => []NewestWins
<1>1. IInv => NewestWins
  <2> SUFFICES ASSUME IInv, NEW k \in UserKeys
               PROVE  \/ lookup(k) = newest[k]
                      \/ newest[k].sequence = MAX_SEQUENCE /\ newest[k].value_type = "Delete"
    BY DEF NewestWins
  <2>1. Newest(k)
    BY DEF IInv
  <2>2. CASE newest[k] = None /\ \A n \in list : n.key.user # k
    <3>1. CASE AtOrAfter(new_max(k)) = {}
      BY <2>2, <3>1 DEF lookup
    <3>2. CASE AtOrAfter(new_max(k)) # {}
      <4>1. seek(new_max(k)) \in list
        BY <3>2, SeekFindsFirst DEF AtOrAfter
      <4>2. seek(new_max(k)).key.user # k
        BY <2>2, <4>1
      <4>3. QED
        BY <2>2, <3>2, <4>2 DEF lookup
    <3>3. QED
      BY <3>1, <3>2
  <2>3. CASE \E n \in list :
               /\ n.key.user = k
               /\ newest[k] = [sequence |-> sequence(n.key), value |-> n.value,
                               value_type |-> value_type(n.key)]
               /\ \A m \in list : m.key.user = k => sequence(m.key) <= sequence(n.key)
    <3>1. PICK n \in list :
            /\ n.key.user = k
            /\ newest[k] = [sequence |-> sequence(n.key), value |-> n.value,
                            value_type |-> value_type(n.key)]
            /\ \A m \in list : m.key.user = k => sequence(m.key) <= sequence(n.key)
      BY <2>3
    <3>2. CASE sequence(n.key) = MAX_SEQUENCE /\ value_type(n.key) = "Delete"
      BY <3>1, <3>2
    <3>3. CASE ~(sequence(n.key) = MAX_SEQUENCE /\ value_type(n.key) = "Delete")
      <4>1. seek(new_max(k)) = n /\ AtOrAfter(new_max(k)) # {}
        BY <3>1, <3>3, NewestIsFirst
      <4>2. QED
        BY <3>1, <4>1 DEF lookup
    <3>4. QED
      BY <3>2, <3>3
  <2>4. QED
    BY <2>1, <2>2, <2>3 DEF Newest
<1>2. QED
  BY <1>1, Invariance, PTL

(***************************************************************************)
(* An acknowledged write adds exactly one version, a failed one nothing.   *)
(***************************************************************************)
THEOREM OneVersionPerWrite == Spec => WritesAdd
<1> DEFINE Adds == IF last' = "ok"
                   THEN list \subseteq list' /\ Cardinality(list') = Cardinality(list) + 1
                   ELSE list' = list
<1>1. ASSUME IInv, NEW k \in UserKeys, NEW v \in Nat, NEW t \in ValueType, Write(k, v, t)
      PROVE  Adds
  <2>1. PICK n : n \notin list /\ list' = list \cup {n}
    BY <1>1, WriteAdds
  <2>2. IsFiniteSet(list)
    BY <1>1 DEF IInv
  <2>3. Cardinality(list') = Cardinality(list) + 1
    BY <2>1, <2>2, FS_AddElement
  <2>4. last' = "ok"
    BY <1>1 DEF Write
  <2>5. QED
    BY <2>1, <2>3, <2>4
<1>2. IInv /\ [Next]_mtvars => [Adds]_mtvars
  <2> SUFFICES ASSUME IInv, Next PROVE Adds
    OBVIOUS
  <2>1. CASE Put
    BY <2>1, <1>1, KeysAssumption DEF Put, Panic, ValueType
  <2>2. CASE Delete
    BY <2>2, <1>1 DEF Delete, Panic, ValueType
  <2>3. CASE Overflow
    BY <2>3 DEF Overflow
  <2>4. QED
    BY <2>1, <2>2, <2>3 DEF Next
<1>3. QED
  BY <1>2, Invariance, PTL DEF Spec, WritesAdd
-----------------------------------------------------------------------------
(***************************************************************************)
(* Sums over finite sets of versions.  SizeBounds adds up by a fold that   *)
(* takes the elements out in an order of its own; the order does not       *)
(* matter.                                                                 *)
(***************************************************************************)
Versions == [key : [user : UserKeys, trailer : Nat], value : Nat]
Weight(n) == n.key.user + n.value + 8
Total(S) == MapThenSumSet(LAMBDA n : n.key.user + n.value + 8, S)

Pick(s) == CHOOSE x \in s : TRUE

\* h is the recursive function of the fold, on the subsets of S.
Sums(h, S) ==
  h = [s \in SUBSET S |-> IF s = {} THEN 0 ELSE Weight(Pick(s)) + h[s \ {Pick(s)}]]

Sum(S) == CHOOSE h : Sums(h, S)

LEMMA TotalIsFold == ASSUME NEW S PROVE Total(S) = Sum(S)[S]
  BY DEF Total, MapThenSumSet, MapThenFoldSet, Sum, Sums, Weight, Pick

LEMMA PickIn == ASSUME NEW s, s # {} PROVE Pick(s) \in s
  BY DEF Pick

\* Of finite sets one has the fewest elements.
LEMMA LeastSet ==
  ASSUME NEW Z, Z # {}, \A s \in Z : IsFiniteSet(s)
  PROVE  \E s \in Z : \A t \in Z : Cardinality(s) <= Cardinality(t)
<1> DEFINE D == {Cardinality(s) : s \in Z}
<1>1. D \subseteq Nat /\ D # {}
  BY FS_CardinalityType
<1>2. PICK n \in D : \A m \in D : n <= m
  BY <1>1, LeastNatural
<1>3. PICK s \in Z : n = Cardinality(s)
  OBVIOUS
<1>4. \A t \in Z : Cardinality(t) \in D
  OBVIOUS
<1>5. QED
  BY <1>2, <1>3, <1>4

LEMMA FewerElements ==
  ASSUME NEW s, IsFiniteSet(s), NEW x \in s
  PROVE  ~(Cardinality(s) <= Cardinality(s \ {x}))
<1>1. Cardinality(s) \in Nat /\ Cardinality(s \ {x}) = Cardinality(s) - 1
  BY FS_CardinalityType, FS_RemoveElement
<1>2. QED
  BY <1>1

LEMMA SumsUnfold ==
  ASSUME NEW S, NEW h, Sums(h, S), NEW s \in SUBSET S
  PROVE  h[s] = IF s = {} THEN 0 ELSE Weight(Pick(s)) + h[s \ {Pick(s)}]
<1> DEFINE f == [r \in SUBSET S |-> IF r = {} THEN 0 ELSE Weight(Pick(r)) + h[r \ {Pick(r)}]]
<1>1. h = f
  BY DEF Sums
<1>2. f[s] = IF s = {} THEN 0 ELSE Weight(Pick(s)) + h[s \ {Pick(s)}]
  OBVIOUS
<1> HIDE DEF f
<1>3. QED
  BY <1>1, <1>2

\* Where two sets overlap their sums agree.
LEMMA SumsAgree ==
  ASSUME NEW S, NEW T, IsFiniteSet(S), NEW g, NEW h, Sums(g, S), Sums(h, T),
         NEW U \in SUBSET S, U \in SUBSET T
  PROVE  g[U] = h[U]
<1> SUFFICES ASSUME g[U] # h[U] PROVE FALSE
  OBVIOUS
<1> DEFINE Z == {s \in SUBSET S : s \in SUBSET T /\ g[s] # h[s]}
<1>1. U \in Z
  OBVIOUS
<1>2. \A s \in Z : IsFiniteSet(s)
  BY FS_Subset
<1>3. PICK s \in Z : \A t \in Z : Cardinality(s) <= Cardinality(t)
  BY <1>1, <1>2, LeastSet
<1>4. /\ g[s] = IF s = {} THEN 0 ELSE Weight(Pick(s)) + g[s \ {Pick(s)}]
      /\ h[s] = IF s = {} THEN 0 ELSE Weight(Pick(s)) + h[s \ {Pick(s)}]
  BY SumsUnfold
<1>5. s # {} /\ Pick(s) \in s
  BY <1>4, PickIn
<1>6. s \ {Pick(s)} \notin Z
  BY <1>2, <1>3, <1>5, FewerElements
<1>7. g[s \ {Pick(s)}] = h[s \ {Pick(s)}]
  BY <1>6
<1>8. QED
  BY <1>4, <1>5, <1>7

LEMMA SumsExist ==
  ASSUME NEW S, IsFiniteSet(S)
  PROVE  Sums(Sum(S), S)
<1>1. SUFFICES ASSUME ~ Sums(Sum(S), S) PROVE FALSE
  OBVIOUS
<1> DEFINE Z == {s \in SUBSET S : ~ Sums(Sum(s), s)}
<1>2. S \in Z /\ \A s \in Z : IsFiniteSet(s)
  BY <1>1, FS_Subset
<1>3. PICK W \in Z : \A t \in Z : Cardinality(W) <= Cardinality(t)
  BY <1>2, LeastSet
<1>4. IsFiniteSet(W)
  BY <1>2
<1>5. ASSUME NEW w \in W, NEW r \in SUBSET (W \ {w}) PROVE Sums(Sum(r), r) /\ IsFiniteSet(r)
  <2>1. IsFiniteSet(W \ {w}) /\ IsFiniteSet(r) /\ Cardinality(r) <= Cardinality(W \ {w})
    BY <1>4, FS_RemoveElement, FS_Subset
  <2>2. /\ Cardinality(W) \in Nat /\ Cardinality(r) \in Nat /\ Cardinality(W \ {w}) \in Nat
        /\ ~(Cardinality(W) <= Cardinality(W \ {w}))
    BY <1>4, <2>1, FS_CardinalityType, FewerElements
  <2>3. ~(Cardinality(W) <= Cardinality(r))
    BY <2>1, <2>2
  <2>4. r \notin Z /\ r \in SUBSET S
    BY <1>3, <2>3
  <2>5. QED
    BY <2>1, <2>4
<1> DEFINE F(s) == IF s = {} THEN 0 ELSE Weight(Pick(s)) + Total(s \ {Pick(s)})
           h == [s \in SUBSET W |-> F(s)]
<1>6. ASSUME NEW s \in SUBSET W, s # {}
      PROVE  h[s \ {Pick(s)}] = Total(s \ {Pick(s)})
  <2> DEFINE r == s \ {Pick(s)}
  <2>1. Pick(s) \in W /\ r \in SUBSET (W \ {Pick(s)}) /\ r \in SUBSET W
    BY <1>6, PickIn
  <2>2. h[r] = F(r)
    BY <2>1
  <2>3. Sums(Sum(r), r) /\ IsFiniteSet(r)
    BY <1>5, <2>1
  <2>4. Total(r) = IF r = {} THEN 0 ELSE Weight(Pick(r)) + Sum(r)[r \ {Pick(r)}]
    <3> HIDE DEF r
    <3>1. Sum(r)[r] = IF r = {} THEN 0 ELSE Weight(Pick(r)) + Sum(r)[r \ {Pick(r)}]
      BY <2>3, SumsUnfold
    <3>2. QED
      BY <3>1, TotalIsFold
  <2>5. r # {} => Sum(r)[r \ {Pick(r)}] = Total(r \ {Pick(r)})
    <3> SUFFICES ASSUME r # {} PROVE Sum(r)[r \ {Pick(r)}] = Total(r \ {Pick(r)})
      OBVIOUS
    <3> DEFINE q == r \ {Pick(r)}
    <3>1. q \in SUBSET (W \ {Pick(s)}) /\ q \in SUBSET r /\ q \in SUBSET q
      BY <2>1
    <3>2. Sums(Sum(q), q)
      BY <1>5, <2>1, <3>1
    <3> HIDE DEF q, r
    <3>3. Sum(r)[q] = Sum(q)[q]
      BY <2>3, <3>1, <3>2, SumsAgree
    <3>4. QED
      BY <3>3, TotalIsFold DEF q
  <2> HIDE DEF r, h
  <2>6. h[r] = Total(r)
    BY <2>2, <2>4, <2>5
  <2>7. QED
    BY <2>6 DEF r
<1>7. Sums(h, W)
  <2>1. \A s \in SUBSET W :
          F(s) = IF s = {} THEN 0 ELSE Weight(Pick(s)) + h[s \ {Pick(s)}]
    BY <1>6
  <2> DEFINE G(s) == IF s = {} THEN 0 ELSE Weight(Pick(s)) + h[s \ {Pick(s)}]
  <2>2. h = [s \in SUBSET W |-> G(s)]
    BY <2>1
  <2>3. QED
    BY <2>2 DEF Sums
<1> HIDE DEF h
<1>8. Sums(Sum(W), W)
  BY <1>7 DEF Sum
<1>9. QED
  BY <1>8

LEMMA TotalUnfolds ==
  ASSUME NEW S, IsFiniteSet(S)
  PROVE  Total(S) = IF S = {} THEN 0 ELSE Weight(Pick(S)) + Total(S \ {Pick(S)})
<1>1. Sums(Sum(S), S)
  BY SumsExist
<1>2. Total(S) = IF S = {} THEN 0 ELSE Weight(Pick(S)) + Sum(S)[S \ {Pick(S)}]
  BY <1>1, SumsUnfold, TotalIsFold
<1> DEFINE r == S \ {Pick(S)}
<1>3. IsFiniteSet(r) /\ r \in SUBSET S /\ r \in SUBSET r
  BY FS_RemoveElement
<1>4. Sums(Sum(r), r)
  BY <1>3, SumsExist
<1>5. Total(S) = IF S = {} THEN 0 ELSE Weight(Pick(S)) + Sum(S)[r]
  BY <1>2
<1> HIDE DEF r
<1>6. Sum(S)[r] = Sum(r)[r]
  BY <1>1, <1>3, <1>4, SumsAgree
<1>7. Total(S) = IF S = {} THEN 0 ELSE Weight(Pick(S)) + Total(r)
  BY <1>5, <1>6, TotalIsFold
<1>8. QED
  BY <1>7 DEF r

LEMMA WeightType == ASSUME NEW n \in Versions PROVE Weight(n) \in Nat
<1> DEFINE a == n.key
<1>1. a \in [user : UserKeys, trailer : Nat] /\ n.value \in Nat
  BY DEF Versions
<1> HIDE DEF a
<1>2. a.user \in Nat
  BY <1>1, KeysAssumption
<1>3. Weight(n) = a.user + n.value + 8
  BY DEF Weight, a
<1>4. QED
  BY <1>1, <1>2, <1>3

LEMMA TotalType ==
  ASSUME NEW S \in SUBSET Versions, IsFiniteSet(S)
  PROVE  Total(S) \in Nat
<1> SUFFICES ASSUME Total(S) \notin Nat PROVE FALSE
  OBVIOUS
<1> DEFINE Z == {s \in SUBSET S : Total(s) \notin Nat}
<1>1. S \in Z /\ \A s \in Z : IsFiniteSet(s)
  BY FS_Subset
<1>2. PICK s \in Z : \A t \in Z : Cardinality(s) <= Cardinality(t)
  BY <1>1, LeastSet
<1>3. IsFiniteSet(s) /\ Total(s) \notin Nat
  BY <1>1
<1>4. s # {} /\ Total(s) = Weight(Pick(s)) + Total(s \ {Pick(s)})
  BY <1>3, TotalUnfolds
<1>5. Pick(s) \in s /\ Pick(s) \in Versions
  BY <1>4, PickIn
<1>6. s \ {Pick(s)} \notin Z
  BY <1>2, <1>3, <1>5, FewerElements
<1>7. Total(s \ {Pick(s)}) \in Nat /\ Weight(Pick(s)) \in Nat
  BY <1>5, <1>6, WeightType
<1>8. QED
  BY <1>3, <1>4, <1>7

\* Any element can be taken out first.
LEMMA TotalTakesOut ==
  ASSUME NEW S \in SUBSET Versions, IsFiniteSet(S), NEW x \in S
  PROVE  Total(S) = Total(S \ {x}) + Weight(x)
<1> SUFFICES ASSUME Total(S) # Total(S \ {x}) + Weight(x) PROVE FALSE
  OBVIOUS
<1> DEFINE Z == {s \in SUBSET S : \E y \in s : Total(s) # Total(s \ {y}) + Weight(y)}
<1>1. S \in Z /\ \A s \in Z : IsFiniteSet(s)
  BY FS_Subset
<1>2. PICK s \in Z : \A t \in Z : Cardinality(s) <= Cardinality(t)
  BY <1>1, LeastSet
<1>3. PICK y \in s : Total(s) # Total(s \ {y}) + Weight(y)
  OBVIOUS
<1> DEFINE c == Pick(s)
           u == s \ {c}
           v == s \ {y}
           w == u \ {y}
<1>4. IsFiniteSet(s) /\ s \in SUBSET S
  BY <1>1
<1>5. c \in s /\ Total(s) = Weight(c) + Total(u)
  BY <1>3, <1>4, PickIn, TotalUnfolds
<1>6. /\ IsFiniteSet(u) /\ IsFiniteSet(v) /\ IsFiniteSet(w)
      /\ u \in SUBSET S /\ v \in SUBSET S /\ w \in SUBSET S
  BY <1>4, FS_RemoveElement
<1>7. u \notin Z /\ v \notin Z
  BY <1>2, <1>3, <1>4, <1>5, FewerElements
<1>8. /\ Weight(c) \in Nat /\ Weight(y) \in Nat
      /\ Total(u) \in Nat /\ Total(v) \in Nat /\ Total(w) \in Nat
  <2>1. c \in Versions /\ y \in Versions
    BY <1>3, <1>4, <1>5
  <2>2. QED
    BY <2>1, <1>6, WeightType, TotalType
<1>9. c # y
  BY <1>3, <1>5, <1>8
<1>10. Total(u) = Total(w) + Weight(y)
  <2>1. y \in u
    BY <1>3, <1>9
  <2>2. QED
    BY <1>6, <1>7, <2>1
<1>11. Total(v) = Total(w) + Weight(c)
  <2>1. c \in v /\ v \ {c} = w
    BY <1>5, <1>9
  <2>2. \A z \in v : Total(v) = Total(v \ {z}) + Weight(z)
    BY <1>6, <1>7
  <2> HIDE DEF c, v, w
  <2>3. QED
    BY <2>1, <2>2
<1>12. Total(s) # Total(v) + Weight(y)
  BY <1>3
<1> HIDE DEF c, u, v, w
<1>13. QED
  BY <1>5, <1>8, <1>10, <1>11, <1>12

LEMMA TotalAdds ==
  ASSUME NEW S \in SUBSET Versions, IsFiniteSet(S), NEW x \in Versions, x \notin S
  PROVE  Total(S \cup {x}) = Total(S) + Weight(x)
<1> DEFINE T == S \cup {x}
<1>1. T \in SUBSET Versions /\ IsFiniteSet(T) /\ x \in T /\ T \ {x} = S
  BY FS_AddElement
<1> HIDE DEF T
<1>2. Total(T) = Total(T \ {x}) + Weight(x)
  BY <1>1, TotalTakesOut
<1>3. QED
  BY <1>1, <1>2 DEF T

(***************************************************************************)
(* A node takes at least the bytes of its version, and at most the header, *)
(* the tallest tower and the padding more.                                 *)
(***************************************************************************)
Overhead == 24 + 8 * MAX_HEIGHT + 7

LEMMA NodeSizes ==
  ASSUME NEW h \in 0 .. MAX_HEIGHT - 1, NEW k \in Nat, NEW v \in Nat
  PROVE  /\ NodeSize(h, k, v) \in Nat
         /\ k + v + 8 <= NodeSize(h, k, v)
         /\ NodeSize(h, k, v) <= k + v + 8 + Overhead
<1>1. h \in Nat /\ h + 1 <= MAX_HEIGHT /\ MAX_HEIGHT \in Nat
  BY HeightAssumption
<1> DEFINE a == 24 + 8 * (h + 1) + k + 8 + v
<1>2. a \in Nat /\ k + v + 8 <= a /\ a + 7 <= k + v + 8 + Overhead
  BY <1>1 DEF Overhead
<1>3. NodeSize(h, k, v) = ((a + 7) \div 8) * 8
  BY DEF NodeSize
<1> HIDE DEF a
<1>4. ((a + 7) \div 8) * 8 \in Nat /\ a <= ((a + 7) \div 8) * 8 /\ ((a + 7) \div 8) * 8 <= a + 7
  BY <1>2
<1>5. Overhead \in Nat
  BY <1>1 DEF Overhead
<1>6. QED
  BY <1>2, <1>3, <1>4, <1>5

Sizes ==
  /\ approximate_size = Total(list)
  /\ approximate_size <= mem_size
  /\ mem_size <= approximate_size + Cardinality(list) * Overhead

LEMMA InitSizes == Init => Sizes
<1> SUFFICES ASSUME Init PROVE Sizes
  OBVIOUS
<1>1. list = {} /\ approximate_size = 0 /\ mem_size = 0
  BY DEF Init
<1>2. Total({}) = 0 /\ Cardinality({}) = 0
  BY FS_EmptySet, TotalUnfolds
<1>3. 0 * Overhead = 0
  BY HeightAssumption DEF Overhead
<1>4. QED
  BY <1>1, <1>2, <1>3 DEF Sizes

LEMMA WriteSizes ==
  ASSUME IInv, Sizes,
         NEW k \in UserKeys, NEW v \in Nat, NEW t \in ValueType, Write(k, v, t)
  PROVE  Sizes'
<1> DEFINE n == [key |-> new(k, next_sequence, t), value |-> v]
<1>1. n.key.user = k /\ n.key.trailer \in Nat /\ n \notin list /\ list' = list \cup {n}
  BY WriteAdds
<1>2. n \in Versions /\ Weight(n) = k + v + 8
  <2>1. n.value = v /\ n.key = [user |-> n.key.user, trailer |-> n.key.trailer]
    BY DEF new
  <2>2. n = [key |-> n.key, value |-> v]
    OBVIOUS
  <2> HIDE DEF n
  <2>3. n \in Versions
    BY <1>1, <2>1, <2>2 DEF Versions
  <2>4. QED
    BY <1>1, <2>1, <2>3 DEF Weight
<1>3. list \in SUBSET Versions /\ IsFiniteSet(list)
  BY DEF IInv, TypeOK, Versions
<1>4. ~ Present(new(k, next_sequence, t))
  BY <1>1 DEF Write
<1>5. PICK h \in 0 .. MAX_HEIGHT - 1 : mem_size' = mem_size + NodeSize(h, k, v)
  BY <1>4 DEF Write
<1>6. approximate_size' = approximate_size + (k + v + 8)
  BY DEF Write, VersionSize
<1> HIDE DEF n
<1>7. Total(list') = Total(list) + (k + v + 8)
  BY <1>1, <1>2, <1>3, TotalAdds
<1>8. Cardinality(list) \in Nat /\ Cardinality(list') = Cardinality(list) + 1
  BY <1>1, <1>3, FS_AddElement, FS_CardinalityType
<1> DEFINE c == Cardinality(list)
           z == NodeSize(h, k, v)
           o == Overhead
           e == c * o
<1>9. /\ z \in Nat /\ k + v + 8 <= z /\ z <= k + v + 8 + o /\ k \in Nat
  BY NodeSizes, KeysAssumption
<1>10. o \in Nat
  BY HeightAssumption DEF Overhead
<1> HIDE DEF z, o
<1>11. e \in Nat /\ (c + 1) * o = e + o
  <2> HIDE DEF c
  <2>1. c \in Nat
    BY <1>8 DEF c
  <2>2. QED
    BY <1>10, <2>1
<1>12. /\ approximate_size \in Nat /\ mem_size \in Nat
       /\ approximate_size <= mem_size /\ mem_size <= approximate_size + e
  BY SizesAssumption DEF IInv, TypeOK, Sizes, o
<1>13. mem_size' = mem_size + z
  BY <1>5 DEF z
<1> HIDE DEF e
<1>14. /\ approximate_size' <= mem_size'
       /\ mem_size' <= approximate_size' + (e + o)
  BY <1>6, <1>9, <1>10, <1>11, <1>12, <1>13
<1>15. Cardinality(list') * Overhead = e + o
  BY <1>8, <1>11 DEF o
<1>16. approximate_size' = Total(list')
  BY <1>6, <1>7 DEF Sizes
<1>17. QED
  BY <1>14, <1>15, <1>16, Zenon DEF Sizes, Total, Overhead, MapThenSumSet, MapThenFoldSet

(***************************************************************************)
(* approximate_size is the sum over all versions, never more than what the *)
(* arena gave out, and less by no more than the overhead of each node.     *)
(***************************************************************************)
THEOREM SizesBounded == Spec => []SizeBounds
<1>1. IInv /\ Sizes /\ [Next]_mtvars => Sizes'
  <2> SUFFICES ASSUME IInv, Sizes, [Next]_mtvars PROVE Sizes'
    OBVIOUS
  <2>1. ASSUME UNCHANGED <<list, approximate_size, mem_size>> PROVE Sizes'
    BY <2>1, Zenon DEF Sizes, Total, Overhead, MapThenSumSet, MapThenFoldSet
  <2>2. CASE Put
    BY <2>1, <2>2, WriteSizes, KeysAssumption DEF Put, Panic, ValueType
  <2>3. CASE Delete
    BY <2>1, <2>3, WriteSizes DEF Delete, Panic, ValueType
  <2>4. CASE Overflow
    BY <2>1, <2>4 DEF Overflow
  <2>5. CASE UNCHANGED mtvars
    BY <2>1, <2>5 DEF mtvars
  <2>6. QED
    BY <2>2, <2>3, <2>4, <2>5 DEF Next
<1>2. Sizes => SizeBounds
  BY DEF Sizes, SizeBounds, Total, Overhead
<1>3. QED
  BY <1>1, <1>2, InitSizes, Invariance, PTL DEF Spec
=============================================================================
