---------------------------- MODULE InternalKey ----------------------------
(***************************************************************************)
(* The encoding of versioned keys, crates/stonedb-core/src/key.rs, byte by *)
(* byte: user key, then the sequence number counted down from its maximum, *)
(* big-endian, then the value type.  Keys are made from their parts or     *)
(* decoded from bytes, and compared by InternalKeyComparator, which is     *)
(* what the memtable hands to its skip list.                               *)
(***************************************************************************)
EXTENDS Integers, Sequences

CONSTANTS
  BASE,        \* the number of values of a byte (256)
  SEQ_BYTES,   \* bytes of the sequence number (7)
  UserKeys,    \* user keys, byte strings
  Inputs,      \* byte strings given to decode_from
  SLOTS        \* how many keys are made, to be compared with each other

Byte == 0 .. BASE - 1
ASSUME EncodingAssumption == BASE \in Nat /\ BASE >= 2 /\ SEQ_BYTES \in Nat \ {0}
\* What powers are: the provers know nothing of ^.
ASSUME PowersAssumption ==
  BASE ^ 0 = 1 /\ \A i \in 0 .. SEQ_BYTES - 1 : BASE ^ (i + 1) = BASE * BASE ^ i
ASSUME KeysAreBytes == UserKeys \cup Inputs \subseteq Seq(Byte)

MAX_SEQUENCE == BASE ^ SEQ_BYTES - 1
TRAILER_LEN == SEQ_BYTES + 1
Sequence == 0 .. MAX_SEQUENCE
ValueType == {"Value", "Delete"}

\* u64::to_be_bytes()[1..]
BigEndian(n) == [i \in 1 .. SEQ_BYTES |-> (n \div BASE ^ (SEQ_BYTES - i)) % BASE]

\* u64::from_be_bytes, the digits one by one.
FromBigEndian(b) ==
  LET sum[i \in 0 .. SEQ_BYTES] == IF i = 0 THEN 0 ELSE sum[i - 1] * BASE + b[i]
  IN sum[SEQ_BYTES]

\* new_put, new_delete and new_max differ in the arguments they give.
new(key, sequence, value_type) ==
  key \o BigEndian(MAX_SEQUENCE - sequence) \o <<IF value_type = "Value" THEN 1 ELSE 0>>

\* Accessors.  Keys shorter than a trailer have an empty user key.
user_key(k) == SubSeq(k, 1, Len(k) - TRAILER_LEN)

\* Mutant: the value type is read along.
sequenceShifted(k) ==
  MAX_SEQUENCE - FromBigEndian(SubSeq(k, Len(k) - TRAILER_LEN + 2, Len(k)))
sequence(k) ==
  MAX_SEQUENCE - FromBigEndian(SubSeq(k, Len(k) - TRAILER_LEN + 1, Len(k) - 1))

value_type(k) == IF k[Len(k)] = 1 THEN "Value" ELSE "Delete"

(***************************************************************************)
(* Orders.  SliceLess is the order of byte slices.                         *)
(***************************************************************************)
SliceLess(s, t) ==
  \E n \in 0 .. Len(s) :
    /\ n < Len(t)
    /\ \A i \in 1 .. n : s[i] = t[i]
    /\ n = Len(s) \/ s[n + 1] < t[n + 1]

SliceCmp(s, t) ==
  IF s = t THEN "Equal" ELSE IF SliceLess(s, t) THEN "Less" ELSE "Greater"

IntCmp(m, n) == IF m = n THEN "Equal" ELSE IF m < n THEN "Less" ELSE "Greater"

\* Ordering::then: the second order decides when the first finds no difference.
Then(o, p) == IF o = "Equal" THEN p ELSE o

split_internal(key) ==
  IF Len(key) < TRAILER_LEN THEN <<key, << >> >>
  ELSE <<user_key(key), SubSeq(key, Len(key) - TRAILER_LEN + 1, Len(key))>>

\* Mutants: the whole keys are compared as bytes; or the trailers not at all.
compare_keyBytes(lhs, rhs) == SliceCmp(lhs, rhs)
compare_keyUserOnly(lhs, rhs) == SliceCmp(split_internal(lhs)[1], split_internal(rhs)[1])

\* InternalKeyComparator::compare_key
compare_key(lhs, rhs) ==
  Then(SliceCmp(split_internal(lhs)[1], split_internal(rhs)[1]),
       SliceCmp(split_internal(lhs)[2], split_internal(rhs)[2]))

\* InternalKeyComparator::same_key
same_key(lhs, rhs) == split_internal(lhs)[1] = split_internal(rhs)[1]

\* Ord for InternalKey
cmp(a, b) ==
  Then(SliceCmp(user_key(a), user_key(b)), IntCmp(sequence(b), sequence(a)))

(***************************************************************************)
(* Keys are made one after the other.                                      *)
(***************************************************************************)
VARIABLES
  keys,     \* the encoded keys
  parts     \* history: the parts each was made from, or Foreign

kvars == <<keys, parts>>

\* A key decoded from bytes has parts nobody chose.
Foreign == [user |-> << >>, seq |-> 0, type |-> "unknown"]

Init == keys = << >> /\ parts = << >>

\* InternalKey::new, new_put, new_delete, new_max
New ==
  /\ Len(keys) < SLOTS
  /\ \E k \in UserKeys, s \in Sequence, t \in ValueType :
       /\ keys' = Append(keys, new(k, s, t))
       /\ parts' = Append(parts, [user |-> k, seq |-> s, type |-> t])

\* InternalKey::decode_from: Err(InvalidKey) makes no key.
DecodeFrom ==
  /\ Len(keys) < SLOTS
  /\ \E b \in Inputs : Len(b) >= TRAILER_LEN /\ keys' = Append(keys, b)
  /\ parts' = Append(parts, Foreign)

Next == New \/ DecodeFrom

Spec == Init /\ [][Next]_kvars

-----------------------------------------------------------------------------
Made == {i \in 1 .. Len(keys) : parts[i] # Foreign}

(***************************************************************************)
(* Nothing is lost in the encoding: a key made from parts gives them back. *)
(***************************************************************************)
DecodeInverts ==
  \A i \in Made :
    /\ user_key(keys[i]) = parts[i].user
    /\ sequence(keys[i]) = parts[i].seq
    /\ value_type(keys[i]) = parts[i].type

(***************************************************************************)
(* The comparator sorts by user key and, within one, newer versions first; *)
(* of two versions with one number the tombstone is first.  No user key is *)
(* interleaved with a longer one that it is a prefix of.                   *)
(***************************************************************************)
VersionOrder(a, b) ==
  Then(SliceCmp(a.user, b.user),
       Then(IntCmp(b.seq, a.seq),
            IntCmp(IF a.type = "Value" THEN 1 ELSE 0, IF b.type = "Value" THEN 1 ELSE 0)))

NewestFirst ==
  \A i, j \in Made : compare_key(keys[i], keys[j]) = VersionOrder(parts[i], parts[j])

(***************************************************************************)
(* A skip list needs a total order that tells different keys apart, on the *)
(* keys decoded from foreign bytes as well; and it keeps the keys that     *)
(* same_key identifies next to each other, or a search would have to look  *)
(* for the versions of a user key in several places.                       *)
(***************************************************************************)
TotalOrder ==
  \A i, j \in 1 .. Len(keys) :
    /\ compare_key(keys[i], keys[j]) = "Equal" <=> keys[i] = keys[j]
    /\ compare_key(keys[i], keys[j]) = "Less" <=> compare_key(keys[j], keys[i]) = "Greater"
    /\ \A l \in 1 .. Len(keys) :
         compare_key(keys[i], keys[j]) = "Less" /\ compare_key(keys[j], keys[l]) = "Less"
           => /\ compare_key(keys[i], keys[l]) = "Less"
              /\ same_key(keys[i], keys[l]) => same_key(keys[i], keys[j])

(***************************************************************************)
(* The comparator on the bytes agrees with Ord on the decoded keys (key.rs *)
(* says it mirrors it) wherever Ord tells two keys apart; Ord does not     *)
(* look at the type and calls a put and a delete with one number equal.    *)
(***************************************************************************)
RefinesOrd ==
  \A i, j \in Made :
    cmp(keys[i], keys[j]) # "Equal" => compare_key(keys[i], keys[j]) = cmp(keys[i], keys[j])
=============================================================================
