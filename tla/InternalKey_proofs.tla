------------------------- MODULE InternalKey_proofs -------------------------
(***************************************************************************)
(* Proofs about InternalKey, for every base, every number of bytes and     *)
(* every set of user keys and inputs.                                      *)
(***************************************************************************)
EXTENDS InternalKey, SequenceTheorems, WellFoundedInduction, TLAPS

Bytes == Seq(Byte)

LEMMA ByteFacts == Byte \subseteq Int /\ BASE \in Nat /\ BASE >= 2 /\ SEQ_BYTES \in Nat /\ SEQ_BYTES >= 1
  BY EncodingAssumption DEF Byte

\* Sets of natural numbers have a least element.
LessOnNat == {ss \in Nat \X Nat : ss[1] < ss[2]}

LEMMA LeastNatural ==
  ASSUME NEW S, S \subseteq Nat, S # {}
  PROVE  \E n \in S : \A m \in S : n <= m
<1>1. IsWellFoundedOn(LessOnNat, Nat)
  BY NatLessThanWellFounded DEF OpToRel, LessOnNat
<1>2. PICK n \in S : \A m \in S : <<m, n>> \notin LessOnNat
  BY <1>1, WFMin
<1>3. ASSUME NEW m \in S PROVE n <= m
  <2>1. <<m, n>> \in Nat \X Nat /\ m \in Nat /\ n \in Nat
    OBVIOUS
  <2>2. ~(m < n)
    BY <1>2, <2>1 DEF LessOnNat
  <2>3. QED
    BY <2>1, <2>2
<1>4. QED
  BY <1>3

-----------------------------------------------------------------------------
(***************************************************************************)
(* The order of byte slices is total.                                      *)
(***************************************************************************)
LEMMA SliceTypes ==
  ASSUME NEW s \in Bytes
  PROVE  Len(s) \in Nat /\ \A i \in 1 .. Len(s) : s[i] \in Int
<1>1. Len(s) \in Nat
  BY DEF Bytes
<1>2. \A i \in 1 .. Len(s) : s[i] \in Byte
  BY ElementOfSeq DEF Bytes
<1>3. QED
  BY <1>1, <1>2, ByteFacts

LEMMA SliceTotal ==
  ASSUME NEW s \in Bytes, NEW t \in Bytes, s # t
  PROVE  SliceLess(s, t) \/ SliceLess(t, s)
<1>1. PICK a \in Nat, b \in Nat : a = Len(s) /\ b = Len(t)
  BY SliceTypes
<1> DEFINE D == {i \in Nat : i + 1 <= a /\ i + 1 <= b /\ s[i + 1] # t[i + 1]}
<1>2. CASE D = {}
  <2>1. \A i \in 1 .. a : i <= b => s[i] = t[i]
    <3>1. ASSUME NEW i \in 1 .. a, i <= b, s[i] # t[i] PROVE FALSE
      <4>1. i - 1 \in Nat /\ (i - 1) + 1 = i
        BY <1>1
      <4>2. i - 1 \in D
        BY <3>1, <4>1, <1>1
      <4>3. QED
        BY <1>2, <4>2
    <3>2. QED
      BY <3>1
  <2>2. a # b
    <3>1. SUFFICES ASSUME a = b PROVE s = t
      OBVIOUS
    <3>2. \A i \in 1 .. Len(s) : s[i] = t[i]
      BY <1>1, <2>1, <3>1
    <3>3. QED
      BY <1>1, <3>1, <3>2, SeqEqual DEF Bytes
  <2>3. CASE a < b
    <3>1. a \in 0 .. Len(s) /\ a < Len(t) /\ a = Len(s) /\ \A i \in 1 .. a : s[i] = t[i]
      BY <1>1, <2>1, <2>3
    <3>2. QED
      BY <3>1 DEF SliceLess
  <2>4. CASE b < a
    <3>1. b \in 0 .. Len(t) /\ b < Len(s) /\ b = Len(t) /\ \A i \in 1 .. b : t[i] = s[i]
      BY <1>1, <2>1, <2>4
    <3>2. QED
      BY <3>1 DEF SliceLess
  <2>5. QED
    BY <1>1, <2>2, <2>3, <2>4
<1>3. CASE D # {}
  <2>1. PICK n \in D : \A m \in D : n <= m
    BY <1>3, LeastNatural
  <2>2. n \in Nat /\ n + 1 <= a /\ n + 1 <= b /\ s[n + 1] # t[n + 1]
    OBVIOUS
  <2>3. ASSUME NEW i \in 1 .. n PROVE s[i] = t[i]
    <3>1. i - 1 \in Nat /\ (i - 1) + 1 = i /\ i <= a /\ i <= b /\ ~(n <= i - 1)
      BY <1>1, <2>2
    <3>2. i - 1 \notin D
      BY <2>1, <3>1
    <3>3. QED
      BY <3>1, <3>2
  <2>4. s[n + 1] \in Int /\ t[n + 1] \in Int
    BY <1>1, <2>2, SliceTypes
  <2>5. n \in 0 .. Len(s) /\ n < Len(s) /\ n \in 0 .. Len(t) /\ n < Len(t)
    BY <1>1, <2>2
  <2>6. CASE s[n + 1] < t[n + 1]
    BY <2>3, <2>5, <2>6 DEF SliceLess
  <2>7. CASE t[n + 1] < s[n + 1]
    BY <2>3, <2>5, <2>7 DEF SliceLess
  <2>8. QED
    BY <2>2, <2>4, <2>6, <2>7
<1>4. QED
  BY <1>2, <1>3

LEMMA SliceIrreflexive ==
  ASSUME NEW s \in Bytes
  PROVE  ~ SliceLess(s, s)
<1> SUFFICES ASSUME SliceLess(s, s) PROVE FALSE
  OBVIOUS
<1>1. PICK n \in 0 .. Len(s) : n < Len(s) /\ (n = Len(s) \/ s[n + 1] < s[n + 1])
  BY DEF SliceLess
<1>2. n + 1 \in 1 .. Len(s) /\ n # Len(s)
  BY <1>1, SliceTypes
<1>3. s[n + 1] \in Int
  BY <1>2, SliceTypes
<1>4. QED
  BY <1>1, <1>2, <1>3

LEMMA SliceTransitive ==
  ASSUME NEW s \in Bytes, NEW t \in Bytes, NEW u \in Bytes, SliceLess(s, t), SliceLess(t, u)
  PROVE  SliceLess(s, u)
<1>1. PICK a \in Nat, b \in Nat, c \in Nat : a = Len(s) /\ b = Len(t) /\ c = Len(u)
  BY SliceTypes
<1>2. PICK m \in 0 .. a : /\ m < b /\ \A i \in 1 .. m : s[i] = t[i]
                          /\ m = a \/ s[m + 1] < t[m + 1]
  BY <1>1 DEF SliceLess
<1>3. PICK n \in 0 .. b : /\ n < c /\ \A i \in 1 .. n : t[i] = u[i]
                          /\ n = b \/ t[n + 1] < u[n + 1]
  BY <1>1 DEF SliceLess
<1>4. /\ \A i \in 1 .. a : s[i] \in Int
      /\ \A i \in 1 .. b : t[i] \in Int
      /\ \A i \in 1 .. c : u[i] \in Int
  BY <1>1, SliceTypes
<1>5. CASE m < n
  <2>1. m < c /\ \A i \in 1 .. m : s[i] = u[i]
    BY <1>1, <1>2, <1>3, <1>5
  <2>2. m = a \/ s[m + 1] < u[m + 1]
    <3>1. m + 1 \in 1 .. n
      BY <1>1, <1>2, <1>3, <1>5
    <3>2. QED
      BY <1>2, <1>3, <3>1
  <2>3. QED
    BY <1>1, <2>1, <2>2 DEF SliceLess
<1>6. CASE m = n
  <2>1. m < c /\ \A i \in 1 .. m : s[i] = u[i]
    BY <1>2, <1>3, <1>6
  <2>2. m = a \/ s[m + 1] < u[m + 1]
    <3>1. SUFFICES ASSUME m # a PROVE s[m + 1] < u[m + 1]
      OBVIOUS
    <3>2. m + 1 \in 1 .. a /\ m + 1 \in 1 .. b /\ m + 1 \in 1 .. c
      BY <1>1, <1>2, <1>3, <1>6, <3>1
    <3>3. s[m + 1] < t[m + 1] /\ t[m + 1] < u[m + 1]
      BY <1>2, <1>3, <1>6, <3>1
    <3>4. s[m + 1] \in Int /\ t[m + 1] \in Int /\ u[m + 1] \in Int
      BY <1>4, <3>2
    <3>5. QED
      BY <3>3, <3>4
  <2>3. QED
    BY <1>1, <2>1, <2>2 DEF SliceLess
<1>7. CASE n < m
  <2>1. n < a /\ n \in 0 .. a /\ n < c /\ \A i \in 1 .. n : s[i] = u[i]
    BY <1>1, <1>2, <1>3, <1>7
  <2>2. n = a \/ s[n + 1] < u[n + 1]
    <3>1. n + 1 \in 1 .. m /\ n # b
      BY <1>1, <1>2, <1>3, <1>7
    <3>2. QED
      BY <1>2, <1>3, <3>1
  <2>3. QED
    BY <1>1, <2>1, <2>2 DEF SliceLess
<1>8. QED
  BY <1>1, <1>5, <1>6, <1>7

\* What SliceCmp answers.
LEMMA SliceAnswers ==
  ASSUME NEW s \in Bytes, NEW t \in Bytes
  PROVE  /\ SliceCmp(s, t) = "Equal" <=> s = t
         /\ SliceCmp(s, t) = "Less" <=> SliceLess(s, t)
         /\ SliceCmp(s, t) = "Greater" <=> SliceLess(t, s)
         /\ SliceCmp(s, t) \in {"Equal", "Less", "Greater"}
<1>1. ~ SliceLess(s, s)
  BY SliceIrreflexive
<1>2. ~ (SliceLess(s, t) /\ SliceLess(t, s))
  BY <1>1, SliceTransitive
<1>3. s # t => SliceLess(s, t) \/ SliceLess(t, s)
  BY SliceTotal
<1>4. QED
  BY <1>1, <1>2, <1>3 DEF SliceCmp

(***************************************************************************)
(* The comparator: by user key, then by trailer.                           *)
(***************************************************************************)
LEMMA SplitJoins ==
  ASSUME NEW k \in Bytes
  PROVE  /\ split_internal(k)[1] \in Bytes /\ split_internal(k)[2] \in Bytes
         /\ k = split_internal(k)[1] \o split_internal(k)[2]
<1>1. Len(k) \in Nat /\ TRAILER_LEN \in Nat /\ TRAILER_LEN >= 2
  BY SliceTypes, ByteFacts DEF TRAILER_LEN
<1>2. CASE Len(k) < TRAILER_LEN
  <2> DEFINE none == << >>
  <2>1. split_internal(k) = <<k, none>>
    BY <1>2 DEF split_internal
  <2>2. none \in Bytes /\ k \o none = k
    BY ConcatEmptySeq, EmptySeq DEF Bytes
  <2> HIDE DEF none
  <2>3. split_internal(k)[1] = k /\ split_internal(k)[2] = none
    BY <2>1
  <2>4. QED
    BY <2>2, <2>3
<1>3. CASE ~ (Len(k) < TRAILER_LEN)
  <2> DEFINE n == Len(k) - TRAILER_LEN
             a == SubSeq(k, 1, n)
             b == SubSeq(k, n + 1, Len(k))
  <2>1. split_internal(k) = <<a, b>>
    BY <1>3 DEF split_internal, user_key
  <2>2. n \in 0 .. Len(k)
    BY <1>1, <1>3
  <2>3. a \in Bytes /\ b \in Bytes
    <3>1. \A i \in 1 .. Len(k) : k[i] \in Byte
      BY ElementOfSeq DEF Bytes
    <3>2. QED
      BY <1>1, <2>2, <3>1, SubSeqProperties DEF Bytes
  <2>4. k = a \o b
    <3>1. 1 \in 1 .. Len(k) + 1 /\ n \in 1 - 1 .. Len(k) /\ Len(k) \in n .. Len(k)
      BY <1>1, <2>2
    <3> HIDE DEF n
    <3>2. a \o b = SubSeq(k, 1, Len(k))
      BY <3>1, ConcatAdjacentSubSeq DEF Bytes
    <3>3. QED
      BY <3>2, SubSeqFull DEF Bytes
  <2> HIDE DEF a, b
  <2>5. split_internal(k)[1] = a /\ split_internal(k)[2] = b
    BY <2>1
  <2>6. QED
    BY <2>3, <2>4, <2>5
<1>4. QED
  BY <1>2, <1>3

LEMMA CompareAnswers ==
  ASSUME NEW a \in Bytes, NEW b \in Bytes,
         NEW p, p = split_internal(a), NEW q, q = split_internal(b)
  PROVE  /\ compare_key(a, b) = "Equal" <=> a = b
         /\ compare_key(a, b) = "Less" <=>
              SliceLess(p[1], q[1]) \/ (p[1] = q[1] /\ SliceLess(p[2], q[2]))
         /\ compare_key(a, b) = "Greater" <=>
              SliceLess(q[1], p[1]) \/ (p[1] = q[1] /\ SliceLess(q[2], p[2]))
<1>1. p[1] \in Bytes /\ p[2] \in Bytes /\ a = p[1] \o p[2]
  BY SplitJoins
<1>2. q[1] \in Bytes /\ q[2] \in Bytes /\ b = q[1] \o q[2]
  BY SplitJoins
<1>3. compare_key(a, b) = Then(SliceCmp(p[1], q[1]), SliceCmp(p[2], q[2]))
  BY DEF compare_key
<1>4. a = b <=> p[1] = q[1] /\ p[2] = q[2]
  BY <1>1, <1>2
<1>5. ~ SliceLess(p[1], p[1]) /\ ~ SliceLess(q[1], q[1])
  BY <1>1, <1>2, SliceIrreflexive
<1> DEFINE c == SliceCmp(p[1], q[1])
           d == SliceCmp(p[2], q[2])
<1>6. /\ c = "Equal" <=> p[1] = q[1]
      /\ c = "Less" <=> SliceLess(p[1], q[1])
      /\ c = "Greater" <=> SliceLess(q[1], p[1])
  BY <1>1, <1>2, SliceAnswers
<1>7. /\ d = "Equal" <=> p[2] = q[2]
      /\ d = "Less" <=> SliceLess(p[2], q[2])
      /\ d = "Greater" <=> SliceLess(q[2], p[2])
  BY <1>1, <1>2, SliceAnswers
<1>8. compare_key(a, b) = IF c = "Equal" THEN d ELSE c
  BY <1>3 DEF Then
<1> HIDE DEF c, d
<1>9. CASE p[1] = q[1]
  BY <1>4, <1>5, <1>6, <1>7, <1>8, <1>9
<1>10. CASE p[1] # q[1]
  BY <1>4, <1>6, <1>8, <1>10
<1>11. QED
  BY <1>9, <1>10

-----------------------------------------------------------------------------
(***************************************************************************)
(* The digits of a sequence number.  Quot(n, p) is the number that the     *)
(* first p digits of n make.                                               *)
(***************************************************************************)
Place(i) == BASE ^ i
Quot(n, p) == n \div Place(SEQ_BYTES - p)

LEMMA Places ==
  /\ \A i \in 0 .. SEQ_BYTES : Place(i) \in Nat \ {0}
  /\ Place(0) = 1
  /\ \A i \in 0 .. SEQ_BYTES - 1 : Place(i + 1) = BASE * Place(i)
<1>1. Place(0) = 1 /\ \A i \in 0 .. SEQ_BYTES - 1 : Place(i + 1) = BASE * Place(i)
  BY PowersAssumption DEF Place
<1>2. SUFFICES ASSUME NEW i \in 0 .. SEQ_BYTES, Place(i) \notin Nat \ {0} PROVE FALSE
  BY <1>1
<1> DEFINE D == {j \in Nat : j <= SEQ_BYTES /\ Place(j) \notin Nat \ {0}}
<1>3. i \in D
  BY <1>2, ByteFacts
<1>4. PICK j \in D : \A l \in D : j <= l
  BY <1>3, LeastNatural
<1>5. j # 0
  BY <1>1, <1>4
<1>6. j - 1 \in 0 .. SEQ_BYTES - 1 /\ (j - 1) + 1 = j /\ j - 1 \notin D
  BY <1>4, <1>5, ByteFacts
<1>7. Place(j - 1) \in Nat \ {0}
  BY <1>6, ByteFacts
<1>8. Place(j) = BASE * Place(j - 1)
  BY <1>1, <1>6
<1> DEFINE e == Place(j - 1)
<1>9. e \in Nat \ {0}
  BY <1>7
<1> HIDE DEF e
<1>10. BASE * e \in Nat \ {0}
  BY <1>9, ByteFacts
<1>11. QED
  BY <1>4, <1>8, <1>10 DEF e

\* Facts of arithmetic.
LEMMA DivDiv ==
  ASSUME NEW m \in Nat, NEW e \in Nat \ {0}, NEW b \in Nat \ {0}
  PROVE  (m \div e) \div b = m \div (b * e)
  OBVIOUS

LEMMA DivMono ==
  ASSUME NEW m \in Nat, NEW n \in Nat, NEW e \in Nat \ {0}, m <= n
  PROVE  m \div e <= n \div e
  OBVIOUS

LEMMA SequenceFacts ==
  /\ Sequence \subseteq Nat /\ MAX_SEQUENCE \in Sequence
  /\ \A n \in Sequence : n < Place(SEQ_BYTES) /\ MAX_SEQUENCE - n \in Sequence
  /\ MAX_SEQUENCE \in Nat
<1>1. Place(SEQ_BYTES) \in Nat \ {0}
  BY Places, ByteFacts
<1>2. MAX_SEQUENCE = Place(SEQ_BYTES) - 1
  BY DEF MAX_SEQUENCE, Place
<1>3. QED
  BY <1>1, <1>2 DEF Sequence

LEMMA Quotients ==
  ASSUME NEW n \in Sequence
  PROVE  /\ Quot(n, 0) = 0 /\ Quot(n, SEQ_BYTES) = n
         /\ \A p \in 0 .. SEQ_BYTES : Quot(n, p) \in Nat
         /\ \A p \in 1 .. SEQ_BYTES :
              /\ BigEndian(n)[p] \in Byte
              /\ Quot(n, p) = Quot(n, p - 1) * BASE + BigEndian(n)[p]
<1>1. n \in Nat /\ n < Place(SEQ_BYTES)
  BY SequenceFacts
<1>2. Quot(n, SEQ_BYTES) = n
  BY <1>1, Places, ByteFacts DEF Quot
<1>3. Quot(n, 0) = 0
  <2> DEFINE e == Place(SEQ_BYTES)
  <2>1. e \in Nat \ {0} /\ n < e /\ SEQ_BYTES - 0 = SEQ_BYTES
    BY <1>1, Places, ByteFacts
  <2> HIDE DEF e
  <2>2. n \div e = 0
    BY <1>1, <2>1
  <2>3. QED
    BY <2>1, <2>2 DEF Quot, e
<1>4. ASSUME NEW p \in 0 .. SEQ_BYTES PROVE Quot(n, p) \in Nat
  <2> DEFINE e == Place(SEQ_BYTES - p)
  <2>1. SEQ_BYTES - p \in 0 .. SEQ_BYTES
    BY ByteFacts
  <2>2. e \in Nat \ {0}
    BY <2>1, Places
  <2> HIDE DEF e
  <2>3. n \div e \in Nat
    BY <1>1, <2>2
  <2>4. QED
    BY <2>3 DEF Quot, e
<1>5. ASSUME NEW p \in 1 .. SEQ_BYTES
      PROVE  /\ BigEndian(n)[p] \in Byte
             /\ Quot(n, p) = Quot(n, p - 1) * BASE + BigEndian(n)[p]
  <2> DEFINE e == Place(SEQ_BYTES - p)
             q == Quot(n, p)
  <2>1. SEQ_BYTES - p \in 0 .. SEQ_BYTES - 1 /\ (SEQ_BYTES - p) + 1 = SEQ_BYTES - (p - 1)
        /\ p \in 0 .. SEQ_BYTES
    BY ByteFacts
  <2>2. e \in Nat \ {0} /\ Place(SEQ_BYTES - (p - 1)) = BASE * e
    BY <2>1, Places, ByteFacts
  <2>3. BigEndian(n)[p] = q % BASE
    BY DEF BigEndian, Quot, Place
  <2>4. q \div BASE = Quot(n, p - 1)
    <3>1. q = n \div e /\ Quot(n, p - 1) = n \div (BASE * e)
      BY <2>2 DEF Quot
    <3> HIDE DEF e, q
    <3>2. QED
      BY <1>1, <2>2, <3>1, DivDiv, ByteFacts
  <2>5. q \in Nat
    BY <1>4, <2>1
  <2> HIDE DEF q
  <2>6. q % BASE \in 0 .. BASE - 1 /\ q = (q \div BASE) * BASE + (q % BASE)
    BY <2>5, ByteFacts
  <2>7. QED
    BY <2>3, <2>4, <2>6 DEF q, Byte
<1>6. QED
  BY <1>2, <1>3, <1>4, <1>5

LEMMA BigEndianBytes ==
  ASSUME NEW n \in Sequence
  PROVE  BigEndian(n) \in Bytes /\ Len(BigEndian(n)) = SEQ_BYTES
<1>1. \A p \in 1 .. SEQ_BYTES : BigEndian(n)[p] \in Byte
  BY Quotients
<1>2. BigEndian(n) = [p \in 1 .. SEQ_BYTES |-> BigEndian(n)[p]]
  BY DEF BigEndian
<1> DEFINE b == BigEndian(n)
<1>3. b \in [1 .. SEQ_BYTES -> Byte]
  BY <1>1, <1>2
<1> HIDE DEF b
<1>4. b \in Seq(Byte) /\ Len(b) = SEQ_BYTES
  BY <1>3, ByteFacts
<1>5. QED
  BY <1>4 DEF b, Bytes

\* Smaller numbers have smaller bytes, at the first place where they differ.
LEMMA DigitsOrdered ==
  ASSUME NEW m \in Sequence, NEW n \in Sequence, m < n
  PROVE  \E p \in 1 .. SEQ_BYTES :
           /\ \A i \in 1 .. p - 1 : BigEndian(m)[i] = BigEndian(n)[i]
           /\ BigEndian(m)[p] < BigEndian(n)[p]
<1> DEFINE D == {p \in Nat : p <= SEQ_BYTES /\ Quot(m, p) # Quot(n, p)}
<1>1. m \in Nat /\ n \in Nat
  BY SequenceFacts
<1>2. SEQ_BYTES \in D
  BY <1>1, Quotients, ByteFacts
<1>3. PICK p \in D : \A q \in D : p <= q
  BY <1>2, LeastNatural
<1>4. p # 0
  BY <1>3, Quotients
<1>5. p \in 1 .. SEQ_BYTES /\ Quot(m, p) # Quot(n, p)
  BY <1>3, <1>4, ByteFacts
<1>6. \A i \in 0 .. p - 1 : Quot(m, i) = Quot(n, i)
  <2>1. \A i \in 0 .. p - 1 : i \in Nat /\ i <= SEQ_BYTES /\ ~(p <= i)
    BY <1>5, ByteFacts
  <2>2. QED
    BY <1>3, <2>1
<1>7. ASSUME NEW i \in 1 .. p - 1 PROVE BigEndian(m)[i] = BigEndian(n)[i]
  <2>1. i \in 1 .. SEQ_BYTES /\ i \in 0 .. p - 1
    BY <1>5, ByteFacts
  <2>2. Quot(m, i) = Quot(n, i)
    BY <1>6, <2>1
  <2>3. QED
    BY <2>1, <2>2 DEF BigEndian, Quot, Place
<1>8. BigEndian(m)[p] < BigEndian(n)[p]
  <2> DEFINE c == Quot(m, p - 1)
             x == BigEndian(m)[p]
             y == BigEndian(n)[p]
  <2>1. c \in Nat /\ Quot(n, p - 1) = c
    <3>1. p - 1 \in 0 .. SEQ_BYTES /\ p - 1 \in 0 .. p - 1
      BY <1>5, ByteFacts
    <3>2. QED
      BY <1>6, <3>1, Quotients
  <2>2. Quot(m, p) = c * BASE + x /\ Quot(n, p) = c * BASE + y /\ x \in Int /\ y \in Int
    BY <1>5, <2>1, Quotients, ByteFacts
  <2>3. Quot(m, p) <= Quot(n, p)
    <3> DEFINE e == Place(SEQ_BYTES - p)
    <3>1. SEQ_BYTES - p \in 0 .. SEQ_BYTES
      BY <1>5, ByteFacts
    <3>2. e \in Nat \ {0}
      BY <3>1, Places
    <3> HIDE DEF e
    <3>3. m \div e <= n \div e
      BY <1>1, <3>2, DivMono
    <3>4. QED
      BY <3>3 DEF Quot, e
  <2> HIDE DEF c, x, y
  <2>4. c * BASE \in Int
    BY <2>1, ByteFacts
  <2>5. QED
    BY <1>5, <2>2, <2>3, <2>4 DEF x, y
<1>9. QED
  BY <1>5, <1>7, <1>8

\* Reading the digits gives the number back.
LEMMA ReadsNumber ==
  ASSUME NEW n \in Sequence
  PROVE  FromBigEndian(BigEndian(n)) = n
<1> DEFINE b == BigEndian(n)
           P(h) == h = [i \in 0 .. SEQ_BYTES |-> IF i = 0 THEN 0 ELSE h[i - 1] * BASE + b[i]]
           s == CHOOSE sum : sum = [i \in 0 .. SEQ_BYTES |->
                                      IF i = 0 THEN 0 ELSE sum[i - 1] * BASE + b[i]]
           f == [i \in 0 .. SEQ_BYTES |-> Quot(n, i)]
<1>1. FromBigEndian(b) = s[SEQ_BYTES]
  BY Zenon DEF FromBigEndian
<1>2. P(f)
  <2>1. ASSUME NEW i \in 0 .. SEQ_BYTES
        PROVE  Quot(n, i) = IF i = 0 THEN 0 ELSE f[i - 1] * BASE + b[i]
    <3>1. CASE i = 0
      BY <3>1, Quotients
    <3>2. CASE i # 0
      <4>1. i \in 1 .. SEQ_BYTES /\ i - 1 \in 0 .. SEQ_BYTES
        BY <3>2, ByteFacts
      <4>2. f[i - 1] = Quot(n, i - 1)
        BY <4>1
      <4>3. QED
        BY <3>2, <4>1, <4>2, Quotients
    <3>3. QED
      BY <3>1, <3>2
  <2>2. QED
    BY <2>1
<1>3. P(s)
  <2>1. \E h : P(h)
    BY <1>2
  <2>2. s = CHOOSE h : P(h)
    OBVIOUS
  <2> HIDE DEF P, s
  <2>3. QED
    BY <2>1, <2>2
<1> HIDE DEF s
<1>4. \A i \in 0 .. SEQ_BYTES : s[i] = IF i = 0 THEN 0 ELSE s[i - 1] * BASE + b[i]
  <2> DEFINE g == [i \in 0 .. SEQ_BYTES |-> IF i = 0 THEN 0 ELSE s[i - 1] * BASE + b[i]]
  <2>1. s = g
    BY <1>3
  <2>2. \A i \in 0 .. SEQ_BYTES : g[i] = IF i = 0 THEN 0 ELSE s[i - 1] * BASE + b[i]
    OBVIOUS
  <2> HIDE DEF g
  <2>3. QED
    BY <2>1, <2>2
<1> DEFINE D == {i \in Nat : i <= SEQ_BYTES /\ s[i] # Quot(n, i)}
<1>5. D = {}
  <2> SUFFICES ASSUME D # {} PROVE FALSE
    OBVIOUS
  <2>1. PICK i \in D : \A j \in D : i <= j
    BY LeastNatural
  <2>2. i \in 0 .. SEQ_BYTES /\ s[i] # Quot(n, i)
    BY <2>1, ByteFacts
  <2>3. i # 0
    BY <1>4, <2>2, Quotients
  <2>4. i \in 1 .. SEQ_BYTES /\ i - 1 \in Nat /\ i - 1 <= SEQ_BYTES /\ ~(i <= i - 1)
    BY <2>2, <2>3, ByteFacts
  <2>5. s[i - 1] = Quot(n, i - 1)
    BY <2>1, <2>4
  <2>6. QED
    BY <1>4, <2>2, <2>3, <2>4, <2>5, Quotients
<1>6. s[SEQ_BYTES] = Quot(n, SEQ_BYTES)
  BY <1>5, ByteFacts
<1>7. QED
  BY <1>1, <1>6, Quotients

-----------------------------------------------------------------------------
(***************************************************************************)
(* Keys made from parts.                                                   *)
(***************************************************************************)
Flag(t) == IF t = "Value" THEN 1 ELSE 0
Trailer(x, u) == BigEndian(x) \o <<u>>

LEMMA TrailerFacts ==
  ASSUME NEW x \in Sequence, NEW u \in {0, 1}
  PROVE  /\ Trailer(x, u) \in Bytes /\ Len(Trailer(x, u)) = TRAILER_LEN
         /\ \A i \in 1 .. SEQ_BYTES : Trailer(x, u)[i] = BigEndian(x)[i]
         /\ Trailer(x, u)[TRAILER_LEN] = u
<1> DEFINE b == BigEndian(x)
           c == <<u>>
<1>1. b \in Seq(Byte) /\ Len(b) = SEQ_BYTES
  BY BigEndianBytes DEF Bytes
<1>2. u \in Byte
  BY ByteFacts DEF Byte
<1>3. c \in Seq(Byte) /\ Len(c) = 1 /\ c[1] = u
  BY <1>2
<1> HIDE DEF b, c
<1>4. /\ b \o c \in Seq(Byte) /\ Len(b \o c) = SEQ_BYTES + 1
      /\ \A i \in 1 .. SEQ_BYTES + 1 :
           (b \o c)[i] = IF i <= SEQ_BYTES THEN b[i] ELSE c[i - SEQ_BYTES]
  <2>1. /\ b \o c \in Seq(Byte) /\ Len(b \o c) = Len(b) + Len(c)
        /\ \A i \in 1 .. Len(b) + Len(c) :
             (b \o c)[i] = IF i <= Len(b) THEN b[i] ELSE c[i - Len(b)]
    BY <1>1, <1>3, ConcatProperties
  <2>2. Len(b) = SEQ_BYTES /\ Len(c) = 1
    BY <1>1, <1>3
  <2>3. QED
    BY <2>1, <2>2
<1>5. (b \o c)[SEQ_BYTES + 1] = u /\ \A i \in 1 .. SEQ_BYTES : (b \o c)[i] = b[i]
  <2>1. SEQ_BYTES + 1 \in 1 .. SEQ_BYTES + 1 /\ ~(SEQ_BYTES + 1 <= SEQ_BYTES)
        /\ (SEQ_BYTES + 1) - SEQ_BYTES = 1
    BY ByteFacts
  <2>2. \A i \in 1 .. SEQ_BYTES : i \in 1 .. SEQ_BYTES + 1 /\ i <= SEQ_BYTES
    BY ByteFacts
  <2>3. QED
    BY <1>3, <1>4, <2>1, <2>2
<1>6. QED
  BY <1>4, <1>5 DEF Trailer, TRAILER_LEN, Bytes, b, c

LEMMA TrailerLess ==
  ASSUME NEW x \in Sequence, NEW u \in {0, 1}, NEW y \in Sequence, NEW v \in {0, 1},
         x < y \/ (x = y /\ u < v)
  PROVE  SliceLess(Trailer(x, u), Trailer(y, v))
<1> DEFINE s == Trailer(x, u)
           t == Trailer(y, v)
<1>1. /\ Len(s) = SEQ_BYTES + 1 /\ Len(t) = SEQ_BYTES + 1
      /\ \A i \in 1 .. SEQ_BYTES : s[i] = BigEndian(x)[i] /\ t[i] = BigEndian(y)[i]
      /\ s[SEQ_BYTES + 1] = u /\ t[SEQ_BYTES + 1] = v
  BY TrailerFacts DEF TRAILER_LEN
<1> HIDE DEF s, t
<1>2. CASE x < y
  <2>1. PICK p \in 1 .. SEQ_BYTES :
          /\ \A i \in 1 .. p - 1 : BigEndian(x)[i] = BigEndian(y)[i]
          /\ BigEndian(x)[p] < BigEndian(y)[p]
    BY <1>2, DigitsOrdered
  <2>2. /\ p - 1 \in 0 .. Len(s) /\ p - 1 < Len(t) /\ (p - 1) + 1 = p
        /\ \A i \in 1 .. p - 1 : i \in 1 .. SEQ_BYTES
    BY <1>1, ByteFacts
  <2>3. \A i \in 1 .. p - 1 : s[i] = t[i]
    BY <1>1, <2>1, <2>2
  <2>4. s[(p - 1) + 1] < t[(p - 1) + 1]
    BY <1>1, <2>1, <2>2
  <2>5. SliceLess(s, t)
    <3> DEFINE n == p - 1
    <3>1. /\ n \in 0 .. Len(s) /\ n < Len(t)
          /\ \A i \in 1 .. n : s[i] = t[i]
          /\ s[n + 1] < t[n + 1]
      BY <2>2, <2>3, <2>4
    <3> HIDE DEF n
    <3>2. QED
      BY <3>1 DEF SliceLess
  <2>6. QED
    BY <2>5 DEF s, t
<1>3. CASE x = y /\ u < v
  <2>1. /\ SEQ_BYTES \in 0 .. Len(s) /\ SEQ_BYTES < Len(t)
        /\ \A i \in 1 .. SEQ_BYTES : s[i] = t[i]
        /\ s[SEQ_BYTES + 1] < t[SEQ_BYTES + 1]
    BY <1>1, <1>3, ByteFacts
  <2>2. SliceLess(s, t)
    BY <2>1 DEF SliceLess
  <2>3. QED
    BY <2>2 DEF s, t
<1>4. QED
  BY <1>2, <1>3

LEMMA TrailersCompare ==
  ASSUME NEW x \in Sequence, NEW u \in {0, 1}, NEW y \in Sequence, NEW v \in {0, 1}
  PROVE  SliceCmp(Trailer(x, u), Trailer(y, v)) = Then(IntCmp(x, y), IntCmp(u, v))
<1>1. x \in Nat /\ y \in Nat
  BY SequenceFacts
<1>2. Trailer(x, u) \in Bytes /\ Trailer(y, v) \in Bytes
  BY TrailerFacts
<1>3. CASE x < y \/ (x = y /\ u < v)
  <2>1. SliceCmp(Trailer(x, u), Trailer(y, v)) = "Less"
    BY <1>2, <1>3, TrailerLess, SliceAnswers
  <2>2. QED
    BY <1>1, <1>3, <2>1 DEF Then, IntCmp
<1>4. CASE y < x \/ (y = x /\ v < u)
  <2>1. SliceCmp(Trailer(x, u), Trailer(y, v)) = "Greater"
    BY <1>2, <1>4, TrailerLess, SliceAnswers
  <2>2. QED
    BY <1>1, <1>4, <2>1 DEF Then, IntCmp
<1>5. CASE x = y /\ u = v
  <2>1. SliceCmp(Trailer(x, u), Trailer(y, v)) = "Equal"
    BY <1>2, <1>5, SliceAnswers
  <2>2. QED
    BY <1>5, <2>1 DEF Then, IntCmp
<1>6. QED
  BY <1>1, <1>3, <1>4, <1>5

\* The pieces of a key made from parts.
LEMMA NewSplits ==
  ASSUME NEW k \in Bytes, NEW n \in Sequence, NEW t \in ValueType
  PROVE  LET r == new(k, n, t)
             e == Trailer(MAX_SEQUENCE - n, Flag(t))
         IN  /\ r \in Bytes /\ Len(r) = Len(k) + TRAILER_LEN
             /\ Len(r) >= TRAILER_LEN
             /\ user_key(r) = k
             /\ split_internal(r)[1] = k /\ split_internal(r)[2] = e
             /\ sequence(r) = n /\ value_type(r) = t
<1> DEFINE x == MAX_SEQUENCE - n
           u == Flag(t)
           b == BigEndian(x)
           c == <<u>>
           e == Trailer(x, u)
           r == k \o e
           a == Len(k)
<1>1. x \in Sequence /\ u \in {0, 1} /\ MAX_SEQUENCE - x = n
  BY SequenceFacts DEF Flag
<1>2. e \in Bytes /\ Len(e) = SEQ_BYTES + 1 /\ e[SEQ_BYTES + 1] = u
      /\ \A i \in 1 .. SEQ_BYTES : e[i] = b[i]
  BY <1>1, TrailerFacts DEF TRAILER_LEN
<1>3. new(k, n, t) = r
  <2>1. b \in Seq(Byte) /\ c \in Seq(Byte)
    <3>1. u \in Byte
      BY <1>1, ByteFacts DEF Byte
    <3>2. QED
      BY <1>1, <3>1, BigEndianBytes DEF Bytes
  <2>2. new(k, n, t) = k \o b \o c
    BY DEF new, Flag
  <2>3. e = b \o c
    BY DEF Trailer
  <2> HIDE DEF b, c, e
  <2>4. QED
    BY <2>1, <2>2, <2>3, ConcatAssociative DEF Bytes
<1>4. a \in Nat
  BY SliceTypes
<1> HIDE DEF x, u, b, c, e, a
<1>5. /\ r \in Bytes /\ Len(r) = a + SEQ_BYTES + 1
      /\ \A i \in 1 .. a : r[i] = k[i]
      /\ \A i \in 1 .. SEQ_BYTES + 1 : r[a + i] = e[i]
  <2>1. /\ r \in Seq(Byte) /\ Len(r) = a + (SEQ_BYTES + 1)
        /\ \A i \in 1 .. a + (SEQ_BYTES + 1) : r[i] = IF i <= a THEN k[i] ELSE e[i - a]
    <3>1. k \in Seq(Byte) /\ e \in Seq(Byte)
      BY <1>2 DEF Bytes
    <3>2. /\ r \in Seq(Byte) /\ Len(r) = Len(k) + Len(e)
          /\ \A i \in 1 .. Len(k) + Len(e) :
               r[i] = IF i <= Len(k) THEN k[i] ELSE e[i - Len(k)]
      BY <3>1, ConcatProperties
    <3>3. Len(k) = a /\ Len(e) = SEQ_BYTES + 1
      BY <1>2 DEF a
    <3> HIDE DEF r
    <3>4. QED
      BY <3>2, <3>3
  <2> HIDE DEF r
  <2>2. a + (SEQ_BYTES + 1) = a + SEQ_BYTES + 1
    BY <1>4, ByteFacts
  <2>3. \A i \in 1 .. a : r[i] = k[i]
    BY <1>4, <2>1, ByteFacts
  <2>4. ASSUME NEW i \in 1 .. SEQ_BYTES + 1 PROVE r[a + i] = e[i]
    <3>1. a + i \in 1 .. a + (SEQ_BYTES + 1) /\ ~(a + i <= a) /\ (a + i) - a = i
      BY <1>4, ByteFacts
    <3>2. QED
      BY <2>1, <3>1
  <2>5. QED
    BY <2>1, <2>2, <2>3, <2>4 DEF Bytes
<1> HIDE DEF r
<1>6. \A m \in 1 .. Len(r) : r[m] \in Byte
  BY <1>5, ElementOfSeq DEF Bytes
<1>7. Len(r) - TRAILER_LEN = a /\ Len(r) >= TRAILER_LEN /\ ~(Len(r) < TRAILER_LEN)
      /\ TRAILER_LEN = SEQ_BYTES + 1
  BY <1>4, <1>5, ByteFacts DEF TRAILER_LEN
<1>8. SubSeq(r, 1, a) = k
  <2>1. /\ SubSeq(r, 1, a) \in Seq(Byte)
        /\ Len(SubSeq(r, 1, a)) = IF 1 <= a THEN a - 1 + 1 ELSE 0
        /\ \A i \in 1 .. a - 1 + 1 : SubSeq(r, 1, a)[i] = r[1 + i - 1]
    <3>1. \A m \in 1 .. a : r[m] \in Byte
      BY <1>4, <1>5, <1>6, ByteFacts
    <3>2. QED
      BY <1>4, <3>1, SubSeqProperties
  <2>2. Len(SubSeq(r, 1, a)) = Len(k) /\ a - 1 + 1 = a /\ a = Len(k)
    BY <1>4, <2>1 DEF a
  <2>3. \A i \in 1 .. Len(k) : SubSeq(r, 1, a)[i] = k[i]
    <3>1. \A i \in 1 .. Len(k) : 1 + i - 1 = i
      OBVIOUS
    <3>2. QED
      BY <1>5, <2>1, <2>2, <3>1
  <2>4. k \in Seq(Byte)
    BY DEF Bytes
  <2>5. QED
    BY <2>1, <2>2, <2>3, <2>4, SeqEqual
<1>9. SubSeq(r, a + 1, Len(r)) = e
  <2>1. /\ SubSeq(r, a + 1, Len(r)) \in Seq(Byte)
        /\ Len(SubSeq(r, a + 1, Len(r))) =
             IF a + 1 <= Len(r) THEN Len(r) - (a + 1) + 1 ELSE 0
        /\ \A i \in 1 .. Len(r) - (a + 1) + 1 :
             SubSeq(r, a + 1, Len(r))[i] = r[(a + 1) + i - 1]
    <3>1. \A m \in a + 1 .. Len(r) : r[m] \in Byte
      BY <1>4, <1>5, <1>6, ByteFacts
    <3>2. a + 1 \in Int /\ Len(r) \in Int
      BY <1>4, <1>5, ByteFacts
    <3>3. QED
      BY <3>1, <3>2, SubSeqProperties
  <2>2. a + 1 <= Len(r) /\ Len(r) - (a + 1) + 1 = SEQ_BYTES + 1
    BY <1>4, <1>5, ByteFacts
  <2>3. \A i \in 1 .. SEQ_BYTES + 1 : (a + 1) + i - 1 = a + i
    BY <1>4, ByteFacts
  <2>4. \A i \in 1 .. Len(e) : SubSeq(r, a + 1, Len(r))[i] = e[i]
    BY <1>2, <1>5, <2>1, <2>2, <2>3
  <2>5. e \in Seq(Byte) /\ Len(SubSeq(r, a + 1, Len(r))) = Len(e)
    BY <1>2, <2>1, <2>2 DEF Bytes
  <2>6. QED
    BY <2>1, <2>4, <2>5, SeqEqual
<1>10. SubSeq(r, a + 1, Len(r) - 1) = b
  <2>1. /\ SubSeq(r, a + 1, Len(r) - 1) \in Seq(Byte)
        /\ Len(SubSeq(r, a + 1, Len(r) - 1)) =
             IF a + 1 <= Len(r) - 1 THEN (Len(r) - 1) - (a + 1) + 1 ELSE 0
        /\ \A i \in 1 .. (Len(r) - 1) - (a + 1) + 1 :
             SubSeq(r, a + 1, Len(r) - 1)[i] = r[(a + 1) + i - 1]
    <3>1. \A m \in a + 1 .. Len(r) - 1 : r[m] \in Byte
      BY <1>4, <1>5, <1>6, ByteFacts
    <3>2. a + 1 \in Int /\ Len(r) - 1 \in Int
      BY <1>4, <1>5, ByteFacts
    <3>3. QED
      BY <3>1, <3>2, SubSeqProperties
  <2>2. a + 1 <= Len(r) - 1 /\ (Len(r) - 1) - (a + 1) + 1 = SEQ_BYTES
    BY <1>4, <1>5, ByteFacts
  <2>3. \A i \in 1 .. SEQ_BYTES : (a + 1) + i - 1 = a + i /\ i \in 1 .. SEQ_BYTES + 1
    BY <1>4, ByteFacts
  <2>4. b \in Seq(Byte) /\ Len(b) = SEQ_BYTES
    BY <1>1, BigEndianBytes DEF b, Bytes
  <2>5. \A i \in 1 .. Len(b) : SubSeq(r, a + 1, Len(r) - 1)[i] = b[i]
    BY <1>2, <1>5, <2>1, <2>2, <2>3, <2>4
  <2>6. Len(SubSeq(r, a + 1, Len(r) - 1)) = Len(b)
    BY <2>1, <2>2, <2>4
  <2>7. QED
    BY <2>1, <2>4, <2>5, <2>6, SeqEqual
<1>11. user_key(r) = k
  BY <1>7, <1>8 DEF user_key
<1>12. split_internal(r) = <<k, e>>
  BY <1>7, <1>9, <1>11 DEF split_internal
<1>13. sequence(r) = n
  <2>1. sequence(r) = MAX_SEQUENCE - FromBigEndian(b)
    BY <1>7, <1>10 DEF sequence
  <2>2. QED
    BY <1>1, <2>1, ReadsNumber DEF b
<1>14. value_type(r) = t
  <2>1. r[Len(r)] = u
    <3>1. Len(r) = a + (SEQ_BYTES + 1) /\ SEQ_BYTES + 1 \in 1 .. SEQ_BYTES + 1
      BY <1>4, <1>5, ByteFacts
    <3>2. QED
      BY <1>2, <1>5, <3>1
  <2>2. QED
    BY <2>1 DEF value_type, u, Flag, ValueType
<1>15. Len(r) = Len(k) + TRAILER_LEN
  BY <1>4, <1>5, <1>7, ByteFacts DEF a
<1>16. QED
  BY <1>3, <1>5, <1>7, <1>11, <1>12, <1>13, <1>14, <1>15 DEF e, x, u

-----------------------------------------------------------------------------
(***************************************************************************)
(* The keys that were made, and what they were made from.                  *)
(***************************************************************************)
Part == [user : UserKeys, seq : Sequence, type : ValueType]

KInv ==
  /\ keys \in Seq(Bytes) /\ parts \in Seq(Part \cup {Foreign})
  /\ Len(parts) = Len(keys)
  /\ \A i \in 1 .. Len(keys) :
       /\ Len(keys[i]) >= TRAILER_LEN
       /\ parts[i] # Foreign =>
            /\ parts[i] \in Part
            /\ keys[i] = new(parts[i].user, parts[i].seq, parts[i].type)

LEMMA InputBytes == UserKeys \subseteq Bytes /\ Inputs \subseteq Bytes
  BY KeysAreBytes DEF Bytes

LEMMA KInvInit == Init => KInv
<1> SUFFICES ASSUME Init PROVE KInv
  OBVIOUS
<1> DEFINE none == << >>
<1>1. none \in Seq(Bytes) /\ none \in Seq(Part \cup {Foreign}) /\ Len(none) = 0
  OBVIOUS
<1>2. keys = none /\ parts = none
  BY DEF Init
<1> HIDE DEF none
<1>3. QED
  BY <1>1, <1>2 DEF KInv

\* A key is made of its parts or of bytes, and the others stay.
LEMMA KInvAppends ==
  ASSUME KInv,
         NEW k \in Bytes, Len(k) >= TRAILER_LEN, NEW p \in Part \cup {Foreign},
         p # Foreign => p \in Part /\ k = new(p.user, p.seq, p.type),
         keys' = Append(keys, k), parts' = Append(parts, p)
  PROVE  KInv'
<1>1. PICK n \in Nat : n = Len(keys)
  BY DEF KInv
<1>2. /\ keys' \in Seq(Bytes) /\ Len(keys') = Len(keys) + 1
      /\ \A i \in 1 .. Len(keys) : keys'[i] = keys[i]
      /\ keys'[Len(keys) + 1] = k
  BY AppendProperties DEF KInv
<1>3. /\ parts' \in Seq(Part \cup {Foreign}) /\ Len(parts') = Len(parts) + 1
      /\ \A i \in 1 .. Len(parts) : parts'[i] = parts[i]
      /\ parts'[Len(parts) + 1] = p
  BY AppendProperties DEF KInv
<1>4. /\ Len(parts) = n /\ Len(keys') = n + 1 /\ Len(parts') = n + 1
      /\ keys'[n + 1] = k /\ parts'[n + 1] = p
      /\ \A i \in 1 .. n : keys'[i] = keys[i] /\ parts'[i] = parts[i]
  BY <1>1, <1>2, <1>3 DEF KInv
<1>5. ASSUME NEW i \in 1 .. n + 1
      PROVE  /\ Len(keys'[i]) >= TRAILER_LEN
             /\ parts'[i] # Foreign =>
                  /\ parts'[i] \in Part
                  /\ keys'[i] = new(parts'[i].user, parts'[i].seq, parts'[i].type)
  <2>1. CASE i = n + 1
    BY <1>4, <2>1
  <2>2. CASE i \in 1 .. n
    <3> DEFINE x == keys[i]
               y == parts[i]
    <3>1. keys'[i] = x /\ parts'[i] = y /\ i \in 1 .. Len(keys)
      BY <1>1, <1>4, <2>2
    <3>2. Len(x) >= TRAILER_LEN
      BY <3>1 DEF KInv
    <3>3. y # Foreign => y \in Part /\ x = new(y.user, y.seq, y.type)
      BY <3>1 DEF KInv
    <3> HIDE DEF x, y
    <3>4. QED
      BY <3>1, <3>2, <3>3
  <2>3. i = n + 1 \/ i \in 1 .. n
    OBVIOUS
  <2>4. QED
    BY <2>1, <2>2, <2>3, Zenon
<1>6. QED
  BY <1>2, <1>3, <1>4, <1>5 DEF KInv, Part, Foreign

LEMMA KInvNext == KInv /\ [Next]_kvars => KInv'
<1> SUFFICES ASSUME KInv, [Next]_kvars PROVE KInv'
  OBVIOUS
<1>1. CASE New
  <2>1. PICK k \in UserKeys, s \in Sequence, t \in ValueType :
          /\ keys' = Append(keys, new(k, s, t))
          /\ parts' = Append(parts, [user |-> k, seq |-> s, type |-> t])
    BY <1>1 DEF New
  <2> DEFINE p == [user |-> k, seq |-> s, type |-> t]
             r == new(k, s, t)
  <2>2. p \in Part /\ p.user = k /\ p.seq = s /\ p.type = t
    BY DEF Part
  <2>3. r \in Bytes /\ Len(r) >= TRAILER_LEN
    BY InputBytes, NewSplits
  <2>4. r = new(p.user, p.seq, p.type) /\ keys' = Append(keys, r) /\ parts' = Append(parts, p)
    BY <2>1, <2>2
  <2> HIDE DEF p, r
  <2>5. QED
    BY <2>2, <2>3, <2>4, KInvAppends
<1>2. CASE DecodeFrom
  <2>1. PICK b \in Inputs : Len(b) >= TRAILER_LEN /\ keys' = Append(keys, b)
    BY <1>2 DEF DecodeFrom
  <2>2. parts' = Append(parts, Foreign) /\ b \in Bytes
    BY <1>2, InputBytes DEF DecodeFrom
  <2>3. QED
    BY <2>1, <2>2, KInvAppends
<1>3. CASE UNCHANGED kvars
  BY <1>3 DEF kvars, KInv, Part
<1>4. QED
  BY <1>1, <1>2, <1>3 DEF Next

(***************************************************************************)
(* Every key is its parts encoded, or at least a trailer long: new and     *)
(* decode_from of key.rs make no others.                                   *)
(***************************************************************************)
THEOREM KeysInvariance == Spec => []KInv
<1>1. KInv /\ [Next]_kvars => KInv'
  BY KInvNext
<1>2. QED
  BY KInvInit, <1>1, PTL DEF Spec

\* What the proofs below use of a key made from parts.
LEMMA MadeKeys ==
  ASSUME KInv, NEW i \in Made
  PROVE  LET p == parts[i]
             k == keys[i]
         IN  /\ p.user \in Bytes /\ p.seq \in Sequence /\ p.type \in ValueType
             /\ k \in Bytes
             /\ user_key(k) = p.user /\ sequence(k) = p.seq /\ value_type(k) = p.type
             /\ split_internal(k)[1] = p.user
             /\ split_internal(k)[2] = Trailer(MAX_SEQUENCE - p.seq, Flag(p.type))
<1> DEFINE p == parts[i]
<1>1. p \in Part /\ keys[i] = new(p.user, p.seq, p.type)
  BY DEF KInv, Made
<1>2. p.user \in Bytes /\ p.seq \in Sequence /\ p.type \in ValueType
  BY <1>1, InputBytes DEF Part
<1> HIDE DEF p
<1>3. QED
  BY <1>1, <1>2, NewSplits DEF p

(***************************************************************************)
(* Encoding loses nothing: user_key, sequence and value_type of a key that *)
(* was made from parts are these parts, for every key and number.          *)
(***************************************************************************)
THEOREM EncodingInverts == Spec => []DecodeInverts
<1>1. KInv => DecodeInverts
  BY MadeKeys DEF DecodeInverts
<1>2. QED
  BY KeysInvariance, <1>1, PTL

(***************************************************************************)
(* InternalKeyComparator is a total order on all byte strings that are     *)
(* keys, and keeps the versions of a user key together.                    *)
(***************************************************************************)
THEOREM Ordered == Spec => []TotalOrder
<1>1. KInv => TotalOrder
  <2> SUFFICES ASSUME KInv, NEW i \in 1 .. Len(keys), NEW j \in 1 .. Len(keys)
               PROVE  /\ compare_key(keys[i], keys[j]) = "Equal" <=> keys[i] = keys[j]
                      /\ compare_key(keys[i], keys[j]) = "Less"
                           <=> compare_key(keys[j], keys[i]) = "Greater"
                      /\ \A l \in 1 .. Len(keys) :
                           compare_key(keys[i], keys[j]) = "Less"
                             /\ compare_key(keys[j], keys[l]) = "Less"
                             => /\ compare_key(keys[i], keys[l]) = "Less"
                                /\ same_key(keys[i], keys[l]) => same_key(keys[i], keys[j])
    BY DEF TotalOrder
  <2> DEFINE a == keys[i]
             b == keys[j]
             p == split_internal(a)
             q == split_internal(b)
  <2>1. a \in Bytes /\ b \in Bytes
    BY ElementOfSeq DEF KInv
  <2>2. /\ compare_key(a, b) = "Equal" <=> a = b
        /\ compare_key(a, b) = "Less" <=> compare_key(b, a) = "Greater"
    <3> HIDE DEF a, b
    <3>1. /\ compare_key(a, b) = "Equal" <=> a = b
          /\ compare_key(a, b) = "Less" <=>
               SliceLess(p[1], q[1]) \/ (p[1] = q[1] /\ SliceLess(p[2], q[2]))
      BY <2>1, CompareAnswers
    <3>2. compare_key(b, a) = "Greater" <=>
            SliceLess(p[1], q[1]) \/ (q[1] = p[1] /\ SliceLess(p[2], q[2]))
      BY <2>1, CompareAnswers
    <3>3. QED
      BY <3>1, <3>2
  <2>3. ASSUME NEW l \in 1 .. Len(keys),
               compare_key(keys[i], keys[j]) = "Less", compare_key(keys[j], keys[l]) = "Less"
        PROVE  /\ compare_key(keys[i], keys[l]) = "Less"
               /\ same_key(keys[i], keys[l]) => same_key(keys[i], keys[j])
    <3> DEFINE c == keys[l]
               r == split_internal(c)
    <3>1. c \in Bytes
      BY ElementOfSeq DEF KInv
    <3>2. compare_key(a, b) = "Less" /\ compare_key(b, c) = "Less"
      BY <2>3
    <3> HIDE DEF a, b, c
    <3>3. SliceLess(p[1], q[1]) \/ (p[1] = q[1] /\ SliceLess(p[2], q[2]))
      BY <2>1, <3>2, CompareAnswers
    <3>4. SliceLess(q[1], r[1]) \/ (q[1] = r[1] /\ SliceLess(q[2], r[2]))
      BY <2>1, <3>1, <3>2, CompareAnswers
    <3>5. /\ p[1] \in Bytes /\ p[2] \in Bytes /\ q[1] \in Bytes /\ q[2] \in Bytes
          /\ r[1] \in Bytes /\ r[2] \in Bytes
      BY <2>1, <3>1, SplitJoins
    <3> HIDE DEF p, q, r
    <3>6. SliceLess(p[1], r[1]) \/ (p[1] = r[1] /\ SliceLess(p[2], r[2]))
      BY <3>3, <3>4, <3>5, SliceTransitive
    <3>7. p[1] = r[1] => p[1] = q[1]
      <4> SUFFICES ASSUME p[1] = r[1], p[1] # q[1] PROVE FALSE
        OBVIOUS
      <4>1. SliceLess(p[1], q[1]) /\ SliceLess(q[1], p[1])
        BY <3>3, <3>4
      <4>2. SliceLess(p[1], p[1])
        BY <3>5, <4>1, SliceTransitive
      <4>3. QED
        BY <3>5, <4>2, SliceIrreflexive
    <3>8. compare_key(a, c) = "Less"
      BY <2>1, <3>1, <3>6, CompareAnswers DEF p, r
    <3>9. same_key(a, c) => same_key(a, b)
      BY <3>7 DEF same_key, p, q, r
    <3>10. QED
      BY <3>8, <3>9 DEF a, b, c
  <2>4. QED
    BY <2>2, <2>3
<1>2. QED
  BY KeysInvariance, <1>1, PTL

\* Counting down turns the order of the numbers round.
LEMMA CountedDown ==
  ASSUME NEW m \in Sequence, NEW n \in Sequence
  PROVE  IntCmp(MAX_SEQUENCE - m, MAX_SEQUENCE - n) = IntCmp(n, m)
<1>1. m \in Nat /\ n \in Nat /\ MAX_SEQUENCE \in Nat
  BY SequenceFacts
<1>2. QED
  BY <1>1 DEF IntCmp

LEMMA VersionsCompare ==
  ASSUME KInv, NEW i \in Made, NEW j \in Made
  PROVE  compare_key(keys[i], keys[j]) = VersionOrder(parts[i], parts[j])
<1> DEFINE a == parts[i]
           b == parts[j]
           x == MAX_SEQUENCE - a.seq
           y == MAX_SEQUENCE - b.seq
<1>1. /\ a.user \in Bytes /\ a.seq \in Sequence /\ a.type \in ValueType
      /\ split_internal(keys[i])[1] = a.user
      /\ split_internal(keys[i])[2] = Trailer(x, Flag(a.type))
  BY MadeKeys
<1>2. /\ b.user \in Bytes /\ b.seq \in Sequence /\ b.type \in ValueType
      /\ split_internal(keys[j])[1] = b.user
      /\ split_internal(keys[j])[2] = Trailer(y, Flag(b.type))
  BY MadeKeys
<1>3. x \in Sequence /\ y \in Sequence /\ IntCmp(x, y) = IntCmp(b.seq, a.seq)
  BY <1>1, <1>2, SequenceFacts, CountedDown
<1>4. Flag(a.type) \in {0, 1} /\ Flag(b.type) \in {0, 1}
  BY DEF Flag
<1> HIDE DEF a, b, x, y
<1>5. SliceCmp(Trailer(x, Flag(a.type)), Trailer(y, Flag(b.type))) =
        Then(IntCmp(b.seq, a.seq), IntCmp(Flag(a.type), Flag(b.type)))
  BY <1>3, <1>4, TrailersCompare
<1>6. compare_key(keys[i], keys[j]) =
        Then(SliceCmp(a.user, b.user),
             Then(IntCmp(b.seq, a.seq), IntCmp(Flag(a.type), Flag(b.type))))
  BY <1>1, <1>2, <1>5 DEF compare_key
<1>7. QED
  BY <1>6 DEF VersionOrder, Flag, a, b

(***************************************************************************)
(* The memtable's order: by user key, newer versions first, and the        *)
(* tombstone before the value of the same number.                          *)
(***************************************************************************)
THEOREM NewestVersionsFirst == Spec => []NewestFirst
<1>1. KInv => NewestFirst
  BY VersionsCompare DEF NewestFirst
<1>2. QED
  BY KeysInvariance, <1>1, PTL

(***************************************************************************)
(* compare_key on the bytes and Ord for InternalKey on the decoded parts   *)
(* agree wherever Ord tells the keys apart.                                *)
(***************************************************************************)
THEOREM AgreesWithOrd == Spec => []RefinesOrd
<1>1. KInv => RefinesOrd
  <2> SUFFICES ASSUME KInv, NEW i \in Made, NEW j \in Made, cmp(keys[i], keys[j]) # "Equal"
               PROVE  compare_key(keys[i], keys[j]) = cmp(keys[i], keys[j])
    BY DEF RefinesOrd
  <2> DEFINE a == parts[i]
             b == parts[j]
  <2>1. cmp(keys[i], keys[j]) = Then(SliceCmp(a.user, b.user), IntCmp(b.seq, a.seq))
    BY MadeKeys DEF cmp
  <2>2. compare_key(keys[i], keys[j]) = VersionOrder(a, b)
    BY VersionsCompare
  <2>3. QED
    BY <2>1, <2>2 DEF VersionOrder, Then
<1>2. QED
  BY KeysInvariance, <1>1, PTL
=============================================================================
