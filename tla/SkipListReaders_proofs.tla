------------------------ MODULE SkipListReaders_proofs ------------------------
(***************************************************************************)
(* What the readers of the skip list may rely on while writers splice, for *)
(* every value of the constants.  Everything rests on the writers' IInv,   *)
(* which the readers do not touch.                                         *)
(***************************************************************************)
EXTENDS SkipListReaders, SkipListMap_proofs

\* The writers run under the readers as they do alone.
LEMMA ReadersAside == [AllNext]_allvars => [Next]_vars
  BY DEF AllNext, allvars

\* The invariant of the writers holds while readers run.
THEOREM WritersInvariance == AllSpec => []IInv
<1>1. AllInit => IInv
  BY InitIInv DEF AllInit
<1>2. IInv /\ [AllNext]_allvars => IInv'
  BY ReadersAside, StepIInv
<1>3. QED
  BY <1>1, <1>2, PTL DEF AllSpec

-----------------------------------------------------------------------------
(***************************************************************************)
(* Types.                                                                  *)
(***************************************************************************)
LEMMA LoadedIsOffset ==
  ASSUME TypeOK, ReadersTypeOK, NEW r \in Readers
  PROVE  /\ Loaded(r) \in Offsets /\ at[r] \in Offsets /\ level[r] \in Levels
         /\ cursor[r] \in Offsets /\ tower[cursor[r]][0] \in Offsets
         /\ NotHead(at[r]) \in Offsets
<1>1. at[r] \in Offsets /\ level[r] \in Levels /\ cursor[r] \in Offsets
  BY DEF ReadersTypeOK
<1>2. Loaded(r) \in Offsets /\ tower[cursor[r]][0] \in Offsets
  BY <1>1, SharedReads, ConstantFacts DEF Loaded
<1>3. NotHead(at[r]) \in Offsets
  BY <1>1, ConstantFacts DEF NotHead
<1>4. QED
  BY <1>1, <1>2, <1>3

LEMMA StartTypeOK ==
  ASSUME TypeOK, ReadersTypeOK, NEW r \in Readers, NEW o \in Ops, NEW k \in Keys,
         NEW l \in BOOLEAN, NEW e \in BOOLEAN, NEW S \in SUBSET Offsets,
         Start(r, o, k, l, e), Unplaced(r, S)
  PROVE  ReadersTypeOK'
<1>1. height \in Levels /\ 0 \in Levels /\ head \in Offsets /\ NULL \in Offsets
  BY ConstantFacts DEF TypeOK
<1>2. QED
  BY <1>1 DEF Start, Unplaced, ReadersTypeOK

LEMMA PositionTypeOK ==
  ASSUME TypeOK, ReadersTypeOK, NEW r \in Readers, NEW c \in Offsets, Position(r, c)
  PROVE  /\ cursor' \in [Readers -> Offsets]
         /\ missed' \in [Readers -> SUBSET Offsets]
<1>1. linked[0] \subseteq Offsets
  BY SharedReads, ConstantFacts
<1>2. After(c) \in SUBSET Offsets
  BY <1>1 DEF After
<1>3. QED
  BY <1>2 DEF Position, ReadersTypeOK

LEMMA FinishTypeOK ==
  ASSUME TypeOK, ReadersTypeOK, NEW r \in Readers, Finish(r),
         cursor' \in [Readers -> Offsets],
         missed' \in [Readers -> SUBSET Offsets],
         found' \in [Readers -> Offsets],
         count' = count
  PROVE  ReadersTypeOK'
<1>1. 0 \in Levels /\ head \in Offsets /\ AnyKey \in Keys
  BY ConstantFacts
<1>2. QED
  BY <1>1 DEF Finish, ReadersTypeOK, Ops

LEMMA ReadTypeOK ==
  ASSUME TypeOK, ReadersTypeOK, NEW r \in Readers, Read(r)
  PROVE  ReadersTypeOK'
<1>1. /\ {"lower_bound", "len", "find_near", "find_last"} \subseteq Ops
      /\ TRUE \in BOOLEAN /\ FALSE \in BOOLEAN /\ AnyKey \in Keys
      /\ {} \in SUBSET Offsets /\ linked[0] \in SUBSET Offsets
      /\ \A c \in Offsets : nkey[c] \in Keys
  BY ConstantFacts, SharedReads DEF Ops
<1>2. CASE LowerBound(r)
  BY <1>1, <1>2, StartTypeOK DEF LowerBound
<1>3. CASE Len(r)
  BY <1>1, <1>3, StartTypeOK DEF Len
<1>4. CASE Seek(r)
  BY <1>1, <1>4, StartTypeOK DEF Seek
<1>5. CASE SeekForPrev(r)
  BY <1>1, <1>5, StartTypeOK DEF SeekForPrev
<1>6. CASE SeekToLast(r)
  BY <1>1, <1>6, StartTypeOK DEF SeekToLast
<1>7. CASE SeekToFirst(r)
  <2>1. tower[head][0] \in Offsets
    BY SharedReads, ConstantFacts
  <2>2. QED
    BY <1>7, <2>1, PositionTypeOK DEF SeekToFirst, ReadersTypeOK
<1>8. CASE IterNext(r)
  <2>1. tower[cursor[r]][0] \in Offsets
    BY LoadedIsOffset
  <2>2. missed[r] \ {tower[cursor[r]][0]} \in SUBSET Offsets
    BY DEF ReadersTypeOK
  <2>3. QED
    BY <1>8, <2>1, <2>2 DEF IterNext, ReadersTypeOK
<1>9. CASE IterPrevSearch(r)
  BY <1>1, <1>9, StartTypeOK, LoadedIsOffset DEF IterPrevSearch
<1>10. CASE IterPrevLink(r)
  <2> DEFINE p == back[cursor[r]]
             c == IF p = head THEN NULL ELSE p
  <2>1. c \in Offsets
    BY LoadedIsOffset, ConstantFacts DEF TypeOK
  <2>2. Position(r, c)
    BY <1>10 DEF IterPrevLink
  <2>3. QED
    BY <1>10, <2>1, <2>2, PositionTypeOK DEF IterPrevLink, ReadersTypeOK
<1>11. QED
  BY <1>2, <1>3, <1>4, <1>5, <1>6, <1>7, <1>8, <1>9, <1>10 DEF Read

LEMMA MoveKeepsTypeOK ==
  ASSUME TypeOK, ReadersTypeOK, NEW r \in Readers, Forward(r) \/ Down(r)
  PROVE  at' \in [Readers -> Offsets] /\ level' \in [Readers -> Levels]
<1>1. Loaded(r) \in Offsets /\ level[r] \in Levels
  BY LoadedIsOffset
<1>2. level[r] > 0 => level[r] - 1 \in Levels
  BY <1>1, ConstantFacts DEF Levels
<1>3. QED
  BY <1>1, <1>2 DEF Forward, Down, ReadersTypeOK

LEMMA TraverseTypeOK ==
  ASSUME TypeOK, ReadersTypeOK, NEW r \in Readers, Traverse(r)
  PROVE  ReadersTypeOK'
<1>1. Loaded(r) \in Offsets /\ NotHead(at[r]) \in Offsets
  BY LoadedIsOffset
<1>2. CASE LowerBoundMove(r) \/ FindNearMove(r) \/ FindLastMove(r)
  <2>1. Forward(r) \/ Down(r)
    BY <1>2 DEF LowerBoundMove, FindNearMove, FindLastMove
  <2>2. Moving
    BY <1>2 DEF LowerBoundMove, FindNearMove, FindLastMove
  <2>3. QED
    BY <2>1, <2>2, MoveKeepsTypeOK DEF Moving, ReadersTypeOK
<1>3. CASE LowerBoundReturn(r)
  <2>1. found' \in [Readers -> Offsets]
    BY <1>1, <1>3 DEF LowerBoundReturn, ReadersTypeOK
  <2>2. Finish(r) /\ UNCHANGED <<cursor, count, missed>>
    BY <1>3 DEF LowerBoundReturn
  <2>3. QED
    BY <2>1, <2>2, FinishTypeOK DEF ReadersTypeOK
<1>4. CASE FindNearReturn(r)
  <2>1. PICK c \in Offsets : Position(r, c)
    BY <1>1, <1>4 DEF FindNearReturn
  <2>2. Finish(r) /\ UNCHANGED <<found, count>>
    BY <1>4 DEF FindNearReturn
  <2>3. QED
    BY <2>1, <2>2, PositionTypeOK, FinishTypeOK DEF ReadersTypeOK
<1>5. CASE FindLastReturn(r)
  BY <1>1, <1>5, PositionTypeOK, FinishTypeOK DEF FindLastReturn, ReadersTypeOK
<1>6. CASE LenCount(r)
  <2>1. at' \in [Readers -> Offsets] /\ level' \in [Readers -> Levels]
    BY <1>6, MoveKeepsTypeOK DEF LenCount
  <2>2. count' \in [Readers -> Nat]
    <3>1. count[r] + 1 \in Nat
      BY DEF ReadersTypeOK
    <3>2. QED
      BY <1>6, <3>1 DEF LenCount, ReadersTypeOK
  <2>3. missed' \in [Readers -> SUBSET Offsets]
    <3>1. missed[r] \ {Loaded(r)} \in SUBSET Offsets
      BY DEF ReadersTypeOK
    <3>2. QED
      BY <1>6, <3>1 DEF LenCount, ReadersTypeOK
  <2>4. QED
    BY <1>6, <2>1, <2>2, <2>3 DEF LenCount, ReadersTypeOK
<1>7. CASE LenReturn(r)
  BY <1>7, FinishTypeOK DEF LenReturn, ReadersTypeOK
<1>8. QED
  BY <1>2, <1>3, <1>4, <1>5, <1>6, <1>7 DEF Traverse

(***************************************************************************)
(* Type correctness of the readers.                                        *)
(***************************************************************************)
THEOREM ReadersTypeCorrect == AllSpec => []ReadersTypeOK
<1>1. AllInit => ReadersTypeOK
  <2>1. 0 \in Levels /\ head \in Offsets /\ NULL \in Offsets /\ AnyKey \in Keys
    BY ConstantFacts
  <2>2. QED
    BY <2>1 DEF AllInit, ReadersInit, ReadersTypeOK, Ops
<1>2. IInv /\ ReadersTypeOK /\ [AllNext]_allvars => ReadersTypeOK'
  <2> SUFFICES ASSUME IInv, ReadersTypeOK, [AllNext]_allvars PROVE ReadersTypeOK'
    OBVIOUS
  <2>1. CASE UNCHANGED rvars
    BY <2>1 DEF rvars, ReadersTypeOK
  <2>2. ASSUME NEW r \in Readers, Read(r) \/ Traverse(r) PROVE ReadersTypeOK'
    BY <2>2, ReadTypeOK, TraverseTypeOK DEF IInv
  <2>3. QED
    BY <2>1, <2>2 DEF AllNext, allvars
<1>3. QED
  BY <1>1, <1>2, WritersInvariance, PTL DEF AllSpec

-----------------------------------------------------------------------------
(***************************************************************************)
(* The inductive invariant of a reader.                                    *)
(***************************************************************************)

\* A traversal stands on a node of its level, before its key.
Standing(r) ==
  op[r] # "idle" =>
    /\ Member(at[r], level[r])
    /\ op[r] \in {"lower_bound", "find_near"} => Below(at[r], want[r])
    /\ op[r] = "len" => level[r] = 0
    /\ op[r] = "find_near" => less[r] \/ allow_equal[r]

\* What a scan owes is linked, and ahead of the iterator.
Scanning(r) ==
  op[r] # "len" =>
    \A n \in missed[r] :
      cursor[r] \in linked[0] /\ n \in linked[0] /\ nkey[cursor[r]] < nkey[n]

\* The nodes of level 0 that len has come past, or that were linked behind it.
Passed(r) == {n \in linked[0] : at[r] # head /\ nkey[n] <= nkey[at[r]]}

\* What len owes is linked, and ahead of it; no node is counted twice.
Counting(r) ==
  op[r] = "len" =>
    /\ \A n \in missed[r] : n \in linked[0] /\ Below(at[r], nkey[n])
    /\ count[r] <= Cardinality(Passed(r))

\* An iterator stands on a linked node; one that follows the prev pointers of a
\* single writer may be on the node that is about to be linked.
Placing(r) ==
  valid(r) =>
    \/ cursor[r] \in linked[0]
    \/ /\ ~allow_concurrent_write /\ "prev" \in Reads
       /\ \E w \in Writers : Pending(w) /\ cursor[r] = mine[w]

RInv ==
  /\ ReadersTypeOK
  /\ \A r \in Readers : Standing(r) /\ Scanning(r) /\ Counting(r) /\ Placing(r)

\* The state of an idle reader asks nothing of its traversal.
LEMMA IdleStands ==
  ASSUME NEW r \in Readers, op[r] = "idle"
  PROVE  Standing(r) /\ Counting(r)
  BY DEF Standing, Counting

\* The set that bounds len's counter is finite.
LEMMA PassedFinite ==
  ASSUME TypeOK, NEW r \in Readers
  PROVE  /\ IsFiniteSet(linked[0]) /\ IsFiniteSet(Passed(r))
         /\ Cardinality(Passed(r)) \in Nat /\ Cardinality(linked[0]) \in Nat
         /\ Cardinality(Passed(r)) <= Cardinality(linked[0])
<1>1. IsFiniteSet(Offsets)
  BY FS_Interval, ConstantFacts DEF Offsets
<1>2. linked[0] \in SUBSET Offsets
  BY SharedReads, ConstantFacts
<1>3. IsFiniteSet(linked[0])
  BY <1>1, <1>2, FS_Subset
<1>4. Passed(r) \in SUBSET linked[0]
  BY DEF Passed
<1>5. IsFiniteSet(Passed(r)) /\ Cardinality(Passed(r)) <= Cardinality(linked[0])
  BY <1>3, <1>4, FS_Subset
<1>6. Cardinality(Passed(r)) \in Nat /\ Cardinality(linked[0]) \in Nat
  BY <1>3, <1>5, FS_CardinalityType
<1>7. QED
  BY <1>3, <1>5, <1>6

-----------------------------------------------------------------------------
(***************************************************************************)
(* Writers' steps.                                                         *)
(***************************************************************************)
LEMMA NextKeepsMembers ==
  ASSUME IInv, [Next]_vars, NEW i \in Levels, NEW n, Member(n, i)
  PROVE  Member(n, i)' /\ (\A k : Below(n, k) => Below(n, k)')
  BY StepKeepsLinked DEF Member, Below

LEMMA NextKeepsStanding ==
  ASSUME IInv, RInv, [Next]_vars, UNCHANGED rvars, NEW r \in Readers
  PROVE  Standing(r)'
<1> SUFFICES ASSUME op'[r] # "idle" PROVE Standing(r)'
  BY DEF Standing
<1>1. /\ op'[r] = op[r] /\ want'[r] = want[r] /\ less'[r] = less[r]
      /\ allow_equal'[r] = allow_equal[r] /\ at'[r] = at[r] /\ level'[r] = level[r]
  BY DEF rvars
<1>2. Standing(r) /\ level[r] \in Levels
  BY DEF RInv, ReadersTypeOK
<1>3. Member(at[r], level[r]) /\ op[r] # "idle"
  BY <1>1, <1>2 DEF Standing
<1>4. (Member(at[r], level[r]))' /\ (Below(at[r], want[r]) => (Below(at[r], want[r]))')
  BY <1>1, <1>2, <1>3, NextKeepsMembers DEF Member, Below
<1>5. QED
  BY <1>1, <1>2, <1>3, <1>4 DEF Standing

LEMMA NextKeepsScanning ==
  ASSUME IInv, RInv, [Next]_vars, UNCHANGED rvars, NEW r \in Readers
  PROVE  Scanning(r)'
<1> SUFFICES ASSUME op'[r] # "len", NEW n \in missed'[r]
             PROVE  /\ cursor'[r] \in linked'[0] /\ n \in linked'[0]
                    /\ nkey'[cursor'[r]] < nkey'[n]
  BY DEF Scanning
<1>1. op'[r] = op[r] /\ missed'[r] = missed[r] /\ cursor'[r] = cursor[r]
  BY DEF rvars
<1>2. cursor[r] \in linked[0] /\ n \in linked[0] /\ nkey[cursor[r]] < nkey[n]
  BY <1>1 DEF RInv, Scanning
<1>3. QED
  BY <1>1, <1>2, StepKeepsLinked, ConstantFacts

LEMMA NextKeepsCounting ==
  ASSUME IInv, RInv, [Next]_vars, UNCHANGED rvars, NEW r \in Readers
  PROVE  Counting(r)'
<1> SUFFICES ASSUME op'[r] = "len" PROVE Counting(r)'
  BY DEF Counting
<1>1. /\ op'[r] = op[r] /\ missed'[r] = missed[r] /\ at'[r] = at[r]
      /\ count'[r] = count[r] /\ op[r] = "len" /\ 0 \in Levels
      /\ level[r] = 0 /\ Member(at[r], 0)
  BY ConstantFacts DEF rvars, RInv, Standing
<1>2. ASSUME NEW n \in missed'[r] PROVE n \in linked'[0] /\ Below(at[r], nkey[n])'
  <2>1. n \in linked[0] /\ Below(at[r], nkey[n])
    BY <1>1, <1>2 DEF RInv, Counting
  <2>2. n \in linked'[0] /\ nkey'[n] = nkey[n]
    BY <1>1, <2>1, StepKeepsLinked
  <2>3. at[r] # head => nkey'[at[r]] = nkey[at[r]]
    BY <1>1, StepKeepsLinked DEF Member
  <2>4. QED
    BY <1>1, <2>1, <2>2, <2>3 DEF Below
<1>3. Passed(r) \subseteq Passed(r)'
  <2> SUFFICES ASSUME NEW n \in Passed(r) PROVE n \in Passed(r)'
    OBVIOUS
  <2>1. n \in linked[0] /\ at[r] \in linked[0]
    BY <1>1 DEF Passed, Member
  <2>2. QED
    BY <1>1, <2>1, StepKeepsLinked DEF Passed
<1>4. /\ IsFiniteSet(Passed(r)') /\ Cardinality(Passed(r)') \in Nat
      /\ Cardinality(Passed(r)) \in Nat
  <2>1. TypeOK /\ TypeOK'
    BY StepTypeOK DEF IInv
  <2>2. linked'[0] \in SUBSET Offsets
    BY <2>1, ConstantFacts DEF TypeOK
  <2>3. IsFiniteSet(Offsets)
    BY FS_Interval, ConstantFacts DEF Offsets
  <2>4. Passed(r)' \in SUBSET Offsets
    BY <2>2 DEF Passed
  <2>5. IsFiniteSet(Passed(r)')
    BY <2>3, <2>4, FS_Subset
  <2>6. QED
    BY <2>1, <2>5, FS_CardinalityType, PassedFinite
<1>5. Cardinality(Passed(r)) <= Cardinality(Passed(r)')
  BY <1>3, <1>4, FS_Subset
<1>6. count[r] <= Cardinality(Passed(r)) /\ count[r] \in Nat
  BY <1>1 DEF RInv, Counting, ReadersTypeOK
<1>7. count'[r] <= Cardinality(Passed(r))'
  BY <1>1, <1>4, <1>5, <1>6
<1>8. QED
  BY <1>1, <1>2, <1>7 DEF Counting

\* A node that is about to be linked stays that, or is linked: a single writer
\* never fails there.
LEMMA PendingSettles ==
  ASSUME IInv, [Next]_vars, ~allow_concurrent_write, NEW w \in Writers, Pending(w)
  PROVE  /\ mine[w] \in linked'[0] \/ (Pending(w)' /\ mine'[w] = mine[w])
         /\ allow_concurrent_write' = allow_concurrent_write
<1>1. TypeOK /\ mine[w] \in Offsets /\ 0 \in Levels
  BY ConstantFacts, LocalReads DEF IInv
<1>2. ASSUME NEW u \in Writers, Call(u) \/ Work(u)
      PROVE  mine[w] \in linked'[0] \/ (Pending(w)' /\ mine'[w] = mine[w])
  <2>1. u = w
    BY <1>2, OthersIdle
  <2>2. pc[w] \in {"setnext", "link"} /\ lvl[w] = 0 /\ ~LinkFail(w)
    BY <1>2, <2>1, OthersIdle DEF Pending
  <2>3. SetNext(w) \/ Link(w)
    BY <1>2, <2>1, <2>2
    DEF Call, PutStart, Work, WalkOn, FoundSplice, FoundDuplicate, Searching, AllocNode,
        AllocPanic, RaiseHeight, RaiseRetry, BackLink
  <2>4. CASE SetNext(w)
    BY <1>1, <2>2, <2>4 DEF SetNext, TypeOK, Pending
  <2>5. CASE Link(w)
    BY <1>1, <2>2, <2>5 DEF Link, TypeOK
  <2>6. QED
    BY <2>3, <2>4, <2>5
<1>3. CASE UNCHANGED vars
  BY <1>3 DEF vars, shared, local, Pending
<1>4. QED
  BY <1>2, <1>3, ModeStays DEF Next, vars, shared

LEMMA NextKeepsPlacing ==
  ASSUME IInv, RInv, [Next]_vars, UNCHANGED rvars, NEW r \in Readers
  PROVE  Placing(r)'
<1> SUFFICES ASSUME valid(r)' PROVE Placing(r)'
  BY DEF Placing
<1>1. cursor'[r] = cursor[r] /\ valid(r) /\ Placing(r) /\ 0 \in Levels
  BY ConstantFacts DEF rvars, valid, RInv
<1>2. CASE cursor[r] \in linked[0]
  BY <1>1, <1>2, StepKeepsLinked DEF Placing
<1>3. CASE /\ ~allow_concurrent_write /\ "prev" \in Reads
           /\ \E w \in Writers : Pending(w) /\ cursor[r] = mine[w]
  <2>1. PICK w \in Writers : Pending(w) /\ cursor[r] = mine[w]
    BY <1>3
  <2>2. QED
    BY <1>1, <1>3, <2>1, PendingSettles DEF Placing
<1>4. QED
  BY <1>1, <1>2, <1>3 DEF Placing

LEMMA NextKeepsRInv ==
  ASSUME IInv, RInv, [Next]_vars, UNCHANGED rvars
  PROVE  RInv'
<1>1. ReadersTypeOK'
  BY DEF RInv, ReadersTypeOK, rvars
<1>2. QED
  BY <1>1, NextKeepsStanding, NextKeepsScanning, NextKeepsCounting, NextKeepsPlacing DEF RInv

-----------------------------------------------------------------------------
(***************************************************************************)
(* Readers' steps.  Reader r takes a step: what it and the others keep.    *)
(***************************************************************************)
ReaderKept(u) ==
  /\ op'[u] = op[u] /\ want'[u] = want[u] /\ less'[u] = less[u]
  /\ allow_equal'[u] = allow_equal[u] /\ at'[u] = at[u] /\ level'[u] = level[u]
  /\ cursor'[u] = cursor[u] /\ found'[u] = found[u] /\ count'[u] = count[u]
  /\ missed'[u] = missed[u]

ROwn(r) == Standing(r) /\ Scanning(r) /\ Counting(r) /\ Placing(r)

LEMMA OtherReadersKept ==
  ASSUME ReadersTypeOK, NEW r \in Readers, NEW u \in Readers, u # r, Read(r) \/ Traverse(r)
  PROVE  ReaderKept(u)
<1>1. CASE LowerBound(r) \/ Len(r) \/ Seek(r) \/ SeekForPrev(r) \/ SeekToLast(r)
  BY <1>1 DEF LowerBound, Len, Seek, SeekForPrev, SeekToLast, Start, Unplaced,
              ReadersTypeOK, ReaderKept
<1>2. CASE IterPrevSearch(r)
  BY <1>2 DEF IterPrevSearch, Start, Unplaced, ReadersTypeOK, ReaderKept
<1>3. CASE SeekToFirst(r) \/ IterNext(r) \/ IterPrevLink(r)
  BY <1>3 DEF SeekToFirst, IterNext, IterPrevLink, Position, ReadersTypeOK, ReaderKept
<1>4. CASE LowerBoundMove(r) \/ FindNearMove(r) \/ FindLastMove(r)
  BY <1>4 DEF LowerBoundMove, FindNearMove, FindLastMove, Forward, Down, Moving,
              ReadersTypeOK, ReaderKept
<1>5. CASE LowerBoundReturn(r)
  BY <1>5 DEF LowerBoundReturn, Finish, ReadersTypeOK, ReaderKept
<1>6. CASE FindNearReturn(r)
  <2>1. PICK c : Position(r, c)
    BY <1>6 DEF FindNearReturn
  <2>2. Finish(r) /\ UNCHANGED <<found, count>>
    BY <1>6 DEF FindNearReturn
  <2>3. QED
    BY <2>1, <2>2 DEF Finish, Position, ReadersTypeOK, ReaderKept
<1>7. CASE FindLastReturn(r)
  BY <1>7 DEF FindLastReturn, Finish, Position, ReadersTypeOK, ReaderKept
<1>8. CASE LenCount(r)
  BY <1>8 DEF LenCount, Forward, ReadersTypeOK, ReaderKept
<1>9. CASE LenReturn(r)
  BY <1>9 DEF LenReturn, Finish, ReadersTypeOK, ReaderKept
<1>10. QED
  BY <1>1, <1>2, <1>3, <1>4, <1>5, <1>6, <1>7, <1>8, <1>9 DEF Read, Traverse

LEMMA ReaderKeptOwn ==
  ASSUME NEW u \in Readers, ReaderKept(u), UNCHANGED vars, ROwn(u)
  PROVE  ROwn(u)'
<1>1. UNCHANGED <<shared, local>>
  BY DEF vars
<1>2. Passed(u)' = Passed(u)
  BY <1>1 DEF Passed, ReaderKept, shared
<1>3. \A w \in Writers : Pending(w)' = Pending(w)
  BY <1>1 DEF Pending, local
<1>4. Standing(u)' /\ Scanning(u)'
  BY <1>1 DEF ROwn, Standing, Scanning, ReaderKept, Member, Below, shared
<1>5. Counting(u)'
  BY <1>1, <1>2 DEF ROwn, Counting, ReaderKept, Below, shared
<1>6. Placing(u)'
  BY <1>1, <1>3 DEF ROwn, Placing, valid, ReaderKept, shared, local
<1>7. QED
  BY <1>4, <1>5, <1>6 DEF ROwn

\* It is enough to look at the reader that takes the step.
LEMMA OneReaderSteps ==
  ASSUME IInv, RInv, NEW r \in Readers, Read(r) \/ Traverse(r), UNCHANGED vars, ROwn(r)'
  PROVE  RInv'
<1>1. ReadersTypeOK'
  BY ReadTypeOK, TraverseTypeOK DEF IInv, RInv
<1>2. ASSUME NEW u \in Readers, u # r PROVE ROwn(u)'
  <2>1. ROwn(u) /\ ReadersTypeOK
    BY DEF RInv, ROwn
  <2>2. ReaderKept(u)
    BY <1>2, <2>1, OtherReadersKept
  <2>3. QED
    BY <2>1, <2>2, ReaderKeptOwn
<1>3. QED
  BY <1>1, <1>2 DEF RInv, ROwn

\* What the load of a traversal finds.
LEMMA WhatIsLoaded ==
  ASSUME IInv, RInv, NEW r \in Readers, op[r] # "idle"
  PROVE  /\ ~End(r) => /\ Loaded(r) \in linked[level[r]] /\ Loaded(r) \in linked[0]
                       /\ Below(at[r], nkey[Loaded(r)])
         /\ level[r] = 0 => \A m \in linked[0] : Below(at[r], nkey[m]) =>
              ~End(r) /\ nkey[Loaded(r)] <= nkey[m]
         /\ at[r] # head => at[r] \in linked[0]
         /\ at[r] \in Offsets /\ level[r] \in Levels /\ level[r] <= nheight[at[r]]
<1>1. TypeOK /\ LinkedNodes /\ NoGap /\ 0 \in Levels /\ Levels \subseteq Int
  BY ConstantFacts, SharedReads DEF IInv
<1>2. at[r] \in Offsets /\ level[r] \in Levels /\ Member(at[r], level[r])
  BY DEF RInv, ReadersTypeOK, Standing
<1>3. ASSUME NEW n \in linked[level[r]] PROVE n \in linked[0]
  <2>1. level[r] = 0 \/ 0 < level[r]
    BY <1>2, ConstantFacts DEF Levels
  <2>2. QED
    BY <1>1, <1>2, <1>3, <2>1 DEF LinkedNodes
<1>4. ~End(r) => Loaded(r) \in linked[level[r]] /\ Below(at[r], nkey[Loaded(r)])
  BY <1>1, <1>2 DEF NoGap, End, Loaded
<1>5. level[r] = 0 => \A m \in linked[0] : Below(at[r], nkey[m]) =>
        ~End(r) /\ nkey[Loaded(r)] <= nkey[m]
  BY <1>1, <1>2 DEF NoGap, End, Loaded
<1>6. level[r] <= nheight[at[r]]
  BY <1>1, <1>2, MembersAreNodes
<1>7. QED
  BY <1>2, <1>3, <1>4, <1>5, <1>6 DEF Member

LEMMA StartOwn ==
  ASSUME IInv, RInv, NEW r \in Readers, UNCHANGED vars, Read(r),
         NEW o, NEW k, NEW l, NEW e, NEW S, Start(r, o, k, l, e), Unplaced(r, S),
         o = "len" => S \subseteq linked[0], o # "len" => S = {},
         o = "find_near" => l \/ e
  PROVE  RInv'
<1>1. ReadersTypeOK /\ TypeOK /\ 0 \in Levels
  BY ConstantFacts DEF RInv, IInv
<1>2. /\ op'[r] = o /\ less'[r] = l /\ allow_equal'[r] = e /\ at'[r] = head
      /\ level'[r] = (IF o = "len" THEN 0 ELSE height) /\ count'[r] = 0
      /\ cursor'[r] = NULL /\ missed'[r] = S
  BY <1>1 DEF Start, Unplaced, ReadersTypeOK
<1>3. linked' = linked /\ nkey' = nkey
  BY DEF vars, shared
<1>4. Standing(r)'
  BY <1>2 DEF Standing, Member, Below
<1>5. Scanning(r)'
  BY <1>2 DEF Scanning
<1>6. Counting(r)'
  <2>1. Passed(r)' = {}
    BY <1>2 DEF Passed
  <2>2. count'[r] <= Cardinality(Passed(r)')
    BY <1>2, <2>1, FS_EmptySet
  <2>3. \A n \in missed'[r] : op'[r] = "len" => n \in linked'[0] /\ Below(at[r], nkey[n])'
    BY <1>2, <1>3 DEF Below
  <2>4. QED
    BY <2>2, <2>3 DEF Counting
<1>7. Placing(r)'
  BY <1>2 DEF Placing, valid
<1>8. QED
  BY <1>4, <1>5, <1>6, <1>7, OneReaderSteps DEF ROwn

\* A reader that has come to an end, with its iterator on c.
LEMMA PositionOwn ==
  ASSUME IInv, RInv, NEW r \in Readers, UNCHANGED vars, Read(r) \/ Traverse(r),
         op'[r] = "idle", NEW c, Position(r, c),
         \/ c = NULL \/ c \in linked[0]
         \/ /\ ~allow_concurrent_write /\ "prev" \in Reads
            /\ \E w \in Writers : Pending(w) /\ c = mine[w]
  PROVE  RInv'
<1>1. ReadersTypeOK
  BY DEF RInv
<1>2. cursor'[r] = c /\ missed'[r] = After(c)
  BY <1>1 DEF Position, ReadersTypeOK
<1>3. /\ linked' = linked /\ nkey' = nkey /\ mine' = mine /\ pc' = pc /\ lvl' = lvl
      /\ allow_concurrent_write' = allow_concurrent_write
  BY DEF vars, shared, local
<1>4. Standing(r)' /\ Counting(r)'
  BY DEF Standing, Counting
<1>5. Scanning(r)'
  BY <1>2, <1>3 DEF Scanning, After
<1>6. Placing(r)'
  BY <1>2, <1>3 DEF Placing, valid, Pending
<1>7. QED
  BY <1>4, <1>5, <1>6, OneReaderSteps DEF ROwn

\* A traversal that goes on, neither len's nor a return.
LEMMA MoveOwn ==
  ASSUME IInv, RInv, NEW r \in Readers, UNCHANGED vars, Traverse(r),
         op[r] \in {"lower_bound", "find_near", "find_last"}, Moving,
         \/ Forward(r) /\ ~End(r)
              /\ (op[r] \in {"lower_bound", "find_near"} => nkey[Loaded(r)] < want[r])
         \/ Down(r)
  PROVE  RInv'
<1>1. /\ ReadersTypeOK /\ TypeOK /\ LinkedNodes /\ Levels \subseteq Int
      /\ Standing(r) /\ Scanning(r) /\ Placing(r)
  BY SharedReads DEF RInv, IInv
<1>2. /\ op'[r] = op[r] /\ want'[r] = want[r] /\ less'[r] = less[r]
      /\ allow_equal'[r] = allow_equal[r] /\ cursor'[r] = cursor[r] /\ missed'[r] = missed[r]
  BY DEF Moving
<1>3. /\ linked' = linked /\ nkey' = nkey /\ mine' = mine /\ pc' = pc /\ lvl' = lvl
      /\ allow_concurrent_write' = allow_concurrent_write
  BY DEF vars, shared, local
<1>4. (Member(at[r], level[r]))' /\ (op[r] \in {"lower_bound", "find_near"} => Below(at[r], want[r])')
  <2>1. CASE Forward(r) /\ ~End(r)
    <3>1. at'[r] = Loaded(r) /\ level'[r] = level[r]
      BY <1>1, <2>1 DEF Forward, ReadersTypeOK
    <3>2. Loaded(r) \in linked[level[r]]
      BY <2>1, WhatIsLoaded
    <3>3. op[r] \in {"lower_bound", "find_near"} => nkey[Loaded(r)] < want[r]
      <4>1. ~Down(r)
        <5>0. level[r] \in Levels
          BY <1>1 DEF ReadersTypeOK
        <5>1. level[r] # level[r] - 1
          <6>1. level[r] \in Int
            BY <5>0, <1>1
          <6>2. \A i \in Int : i # i - 1
            OBVIOUS
          <6>3. QED
            BY <6>1, <6>2
        <5>2. [level EXCEPT ![r] = level[r] - 1][r] = level[r] - 1
          BY <1>1 DEF ReadersTypeOK
        <5>3. QED
          BY <2>1, <5>1, <5>2 DEF Forward, Down
      <4>2. QED
        BY <4>1
    <3>4. QED
      BY <1>2, <1>3, <3>1, <3>2, <3>3 DEF Member, Below
  <2>2. CASE Down(r)
    <3>1. at'[r] = at[r] /\ level'[r] = level[r] - 1 /\ level[r] > 0 /\ level[r] \in Levels
      BY <1>1, <2>2 DEF Down, ReadersTypeOK
    <3>2. level[r] - 1 \in Levels /\ level[r] - 1 < level[r]
      BY <3>1, ConstantFacts DEF Levels
    <3>3. Member(at[r], level[r]) /\ (op[r] \in {"lower_bound", "find_near"} => Below(at[r], want[r]))
      BY <1>1 DEF Standing
    <3>4. Member(at[r], level[r] - 1)
      <4>1. \A j \in Levels : j < level[r] => Member(at[r], j)
        BY <1>1, <3>1, <3>3, MembersAreNodes
      <4>2. QED
        BY <3>2, <4>1
    <3>5. QED
      BY <1>2, <1>3, <3>1, <3>3, <3>4 DEF Member, Below
  <2>3. QED
    BY <2>1, <2>2
<1>5. Standing(r)'
  BY <1>1, <1>2, <1>4 DEF Standing
<1>6. Scanning(r)' /\ Counting(r)'
  BY <1>1, <1>2, <1>3 DEF Scanning, Counting
<1>7. Placing(r)'
  BY <1>1, <1>2, <1>3 DEF Placing, valid, Pending
<1>8. QED
  BY <1>5, <1>6, <1>7, OneReaderSteps DEF ROwn

LEMMA LenCountOwn ==
  ASSUME IInv, RInv, NEW r \in Readers, UNCHANGED vars, LenCount(r)
  PROVE  RInv'
<1> DEFINE n == Loaded(r)
<1>1. /\ ReadersTypeOK /\ TypeOK /\ LinkedNodes /\ 0 \in Levels
      /\ Standing(r) /\ Counting(r) /\ Placing(r) /\ op[r] = "len" /\ level[r] = 0
  BY ConstantFacts DEF RInv, IInv, LenCount, Standing
<1>2. /\ op'[r] = "len" /\ at'[r] = n /\ level'[r] = 0 /\ count'[r] = count[r] + 1
      /\ missed'[r] = missed[r] \ {n} /\ cursor'[r] = cursor[r]
  BY <1>1 DEF LenCount, Forward, ReadersTypeOK
<1>3. /\ linked' = linked /\ nkey' = nkey /\ mine' = mine /\ pc' = pc /\ lvl' = lvl
      /\ allow_concurrent_write' = allow_concurrent_write
  BY DEF vars, shared, local
<1>4. ~End(r) /\ n \in linked[0] /\ Below(at[r], nkey[n])
      /\ (\A m \in linked[0] : Below(at[r], nkey[m]) => nkey[n] <= nkey[m])
  BY <1>1, WhatIsLoaded DEF LenCount
<1>5. \A m \in linked[0] : nkey[m] \in Int
  BY <1>1, SharedReads
<1>6. n # head
  BY <1>1, <1>4, SharedReads DEF LinkedNodes, head
<1>7. Standing(r)'
  BY <1>2, <1>3, <1>4 DEF Standing, Member
<1>8. Scanning(r)'
  BY <1>2 DEF Scanning
<1>9. ASSUME NEW m \in missed'[r] PROVE m \in linked'[0] /\ Below(at[r], nkey[m])'
  <2>1. m \in linked[0] /\ Below(at[r], nkey[m]) /\ m # n
    BY <1>1, <1>2, <1>9 DEF Counting
  <2>2. nkey[n] <= nkey[m] /\ nkey[n] # nkey[m]
    BY <1>1, <1>4, <2>1 DEF LinkedNodes
  <2>3. nkey[n] < nkey[m]
    BY <1>4, <1>5, <2>1, <2>2
  <2>4. QED
    BY <1>2, <1>3, <2>1, <2>3 DEF Below
<1>10. n \notin Passed(r)
  <2>1. at[r] # head => nkey[at[r]] < nkey[n] /\ nkey[at[r]] \in Int
    BY <1>1, <1>4, <1>5, WhatIsLoaded DEF Below
  <2>2. QED
    BY <1>4, <1>5, <2>1 DEF Passed
<1>11. Passed(r) \cup {n} \subseteq Passed(r)'
  <2>1. Passed(r)' = {m \in linked[0] : nkey[m] <= nkey[n]}
    BY <1>2, <1>3, <1>6 DEF Passed
  <2>2. ASSUME NEW m \in Passed(r) PROVE m \in linked[0] /\ nkey[m] <= nkey[n]
    <3>1. m \in linked[0] /\ at[r] \in linked[0] /\ nkey[m] <= nkey[at[r]]
      BY <1>1, WhatIsLoaded DEF Passed
    <3>2. nkey[at[r]] < nkey[n]
      BY <1>4, <2>2 DEF Below, Passed
    <3>3. QED
      BY <1>4, <1>5, <3>1, <3>2
  <2>3. nkey[n] <= nkey[n]
    BY <1>4, <1>5
  <2>4. QED
    BY <1>4, <2>1, <2>2, <2>3
<1>12. count'[r] <= Cardinality(Passed(r)')
  <2>1. /\ IsFiniteSet(Passed(r)) /\ Cardinality(Passed(r)) \in Nat /\ IsFiniteSet(linked[0])
        /\ count[r] \in Nat /\ count[r] <= Cardinality(Passed(r))
    BY <1>1, PassedFinite DEF ReadersTypeOK, Counting
  <2>2. /\ Cardinality(Passed(r) \cup {n}) = Cardinality(Passed(r)) + 1
    BY <1>10, <2>1, FS_AddElement
  <2>3. Passed(r)' \in SUBSET linked[0]
    BY <1>3 DEF Passed
  <2>4. IsFiniteSet(Passed(r)')
    BY <2>1, <2>3, FS_Subset
  <2>5. /\ Cardinality(Passed(r) \cup {n}) <= Cardinality(Passed(r)')
        /\ Cardinality(Passed(r)') \in Nat
    BY <1>11, <2>4, FS_Subset, FS_CardinalityType
  <2>6. QED
    BY <1>2, <2>1, <2>2, <2>5
<1>13. Counting(r)'
  BY <1>9, <1>12 DEF Counting
<1>14. Placing(r)'
  BY <1>1, <1>2, <1>3 DEF Placing, valid, Pending
<1>15. QED
  BY <1>7, <1>8, <1>13, <1>14, OneReaderSteps DEF ROwn, Traverse

\* At the end of the list nothing is owed.
LEMMA LenEnds ==
  ASSUME IInv, RInv, NEW r \in Readers, op[r] = "len", End(r)
  PROVE  missed[r] = {} /\ count[r] <= Cardinality(linked[0])
<1>1. level[r] = 0 /\ Counting(r) /\ TypeOK /\ count[r] \in Nat
  BY DEF RInv, Standing, IInv, ReadersTypeOK
<1>2. missed[r] = {}
  <2> SUFFICES ASSUME NEW n \in missed[r] PROVE FALSE
    OBVIOUS
  <2>1. n \in linked[0] /\ Below(at[r], nkey[n])
    BY <1>1 DEF Counting
  <2>2. QED
    BY <1>1, <2>1, WhatIsLoaded
<1>3. count[r] <= Cardinality(linked[0])
  BY <1>1, PassedFinite DEF Counting
<1>4. QED
  BY <1>2, <1>3

\* The returns that leave the iterator where it is.
LEMMA PlainReturnOwn ==
  ASSUME IInv, RInv, NEW r \in Readers, UNCHANGED vars, LowerBoundReturn(r) \/ LenReturn(r)
  PROVE  RInv'
<1>1. ReadersTypeOK /\ Scanning(r) /\ Placing(r)
  BY DEF RInv
<1>2. op'[r] = "idle" /\ cursor'[r] = cursor[r] /\ missed'[r] = missed[r]
  BY <1>1 DEF LowerBoundReturn, LenReturn, Finish, ReadersTypeOK
<1>3. /\ linked' = linked /\ nkey' = nkey /\ mine' = mine /\ pc' = pc /\ lvl' = lvl
      /\ allow_concurrent_write' = allow_concurrent_write
  BY DEF vars, shared, local
<1>4. Standing(r)' /\ Counting(r)'
  BY <1>2 DEF Standing, Counting
<1>5. Scanning(r)'
  <2>1. CASE op[r] = "len"
    <3>1. LenReturn(r)
      BY <2>1 DEF LowerBoundReturn
    <3>2. missed[r] = {}
      BY <2>1, <3>1, LenEnds DEF LenReturn
    <3>3. QED
      BY <1>2, <3>2 DEF Scanning
  <2>2. CASE op[r] # "len"
    BY <1>1, <1>2, <1>3, <2>2 DEF Scanning
  <2>3. QED
    BY <2>1, <2>2
<1>6. Placing(r)'
  BY <1>1, <1>2, <1>3 DEF Placing, valid, Pending
<1>7. QED
  BY <1>4, <1>5, <1>6, OneReaderSteps DEF ROwn, Traverse

LEMMA TraverseStep ==
  ASSUME IInv, RInv, NEW r \in Readers, UNCHANGED vars, Traverse(r)
  PROVE  RInv'
<1>1. ReadersTypeOK
  BY DEF RInv
<1>2. CASE LowerBoundMove(r)
  BY <1>2, MoveOwn DEF LowerBoundMove, Less
<1>3. CASE FindNearMove(r)
  BY <1>3, MoveOwn DEF FindNearMove, Less
<1>4. CASE FindLastMove(r)
  BY <1>4, MoveOwn DEF FindLastMove
<1>5. CASE FindNearReturn(r) \/ FindLastReturn(r)
  <2>1. op'[r] = "idle" /\ op[r] # "idle"
    BY <1>1, <1>5 DEF FindNearReturn, FindLastReturn, Finish, ReadersTypeOK
  <2>2. PICK c \in {Loaded(r), NotHead(at[r])} : Position(r, c)
    BY <1>5 DEF FindNearReturn, FindLastReturn
  <2>3. c = NULL \/ c \in linked[0]
    BY <2>1, <2>2, WhatIsLoaded DEF End, NotHead
  <2>4. QED
    BY <1>5, <2>1, <2>2, <2>3, PositionOwn
<1>6. CASE LowerBoundReturn(r) \/ LenReturn(r)
  BY <1>6, PlainReturnOwn
<1>7. CASE LenCount(r)
  BY <1>7, LenCountOwn
<1>8. QED
  BY <1>2, <1>3, <1>4, <1>5, <1>6, <1>7 DEF Traverse

-----------------------------------------------------------------------------
(***************************************************************************)
(* Two facts about a single writer that only its readers need: its prev    *)
(* pointers (Backs), and that its node has no successor before SetNext.    *)
(***************************************************************************)
Fresh(w) ==
  ~allow_concurrent_write /\ pc[w] \in {"raise", "backlink", "setnext"} /\ lvl[w] = 0 =>
    tower[mine[w]][0] = NULL

WInv == IInv /\ Backs /\ \A w \in Writers : Fresh(w)

LEMMA FreshStep ==
  ASSUME WInv, ~allow_concurrent_write, NEW w \in Writers, Call(w) \/ Work(w)
  PROVE  Fresh(w)'
<1>1. TypeOK /\ Owned(w) /\ Fresh(w) /\ 0 \in Levels /\ lvl[w] \in Levels
  BY ConstantFacts, LocalReads DEF WInv, IInv
<1>2. ~LinkFail(w) /\ pc[w] # "research" /\ allow_concurrent_write' = allow_concurrent_write
  BY OthersIdle, ModeStays DEF WInv
<1>3. CASE \/ Call(w) \/ FoundDuplicate(w) \/ AllocPanic(w) \/ WalkOn(w) \/ FoundSplice(w)
           \/ SetNext(w)
  <2>1. pc'[w] \notin {"raise", "backlink", "setnext"}
    BY <1>1, <1>2, <1>3 DEF Call, PutStart, FoundDuplicate, AllocPanic, Return, WalkOn,
       FoundSplice, Searching, SetNext, TypeOK
  <2>2. QED
    BY <2>1 DEF Fresh
<1>4. CASE AllocNode(w)
  <2>1. ptr \in Offsets
    <3>1. ptr \in Int /\ head < ptr /\ ptr + NodeSize(top[w]) <= CAPACITY
          /\ top[w] \in Int /\ 0 <= top[w]
      BY <1>1, <1>4, SharedReads, LocalReads, ConstantFacts DEF AllocNode, Fits, Levels
    <3>2. QED
      BY <3>1, ConstantFacts DEF Offsets, NodeSize, head
  <2>2. mine'[w] = ptr /\ tower'[ptr] = NoLinks
    BY <1>1, <1>4, <2>1 DEF AllocNode, TypeOK
  <2>3. QED
    BY <1>1, <2>2 DEF Fresh, NoLinks
<1>5. CASE RaiseHeight(w) \/ RaiseRetry(w) \/ BackLink(w)
  <2>1. pc[w] \in {"raise", "backlink"} /\ UNCHANGED <<tower, mine, lvl>>
    BY <1>5 DEF RaiseHeight, RaiseRetry, BackLink, shared
  <2>2. QED
    BY <1>1, <1>2, <2>1 DEF Fresh
<1>6. CASE Link(w)
  <2>1. lvl[w] + 1 # 0
    BY <1>1, ConstantFacts DEF Levels
  <2>2. pc'[w] = "idle" \/ lvl'[w] # 0
    BY <1>1, <1>6, <2>1 DEF Link, Return, TypeOK
  <2>3. QED
    BY <2>2 DEF Fresh
<1>7. QED
  BY <1>2, <1>3, <1>4, <1>5, <1>6 DEF Work

LEMMA WritersInv ==
  /\ Init => WInv
  /\ WInv /\ [Next]_vars => WInv'
<1>1. Init => WInv
  BY InitIInv, InitBacks DEF Init, WInv, Fresh
<1>2. ASSUME WInv, [Next]_vars PROVE WInv'
  <2>1. IInv' /\ Backs'
    BY <1>2, StepIInv, StepBacks DEF WInv
  <2>2. ASSUME NEW u \in Writers PROVE Fresh(u)'
    <3>1. CASE UNCHANGED vars
      BY <1>2, <3>1 DEF vars, shared, local, WInv, Fresh
    <3>2. ASSUME NEW w \in Writers, Call(w) \/ Work(w) PROVE Fresh(u)'
      <4>1. CASE allow_concurrent_write
        BY <3>2, <4>1, ModeStays DEF Fresh
      <4>2. CASE ~allow_concurrent_write /\ u = w
        BY <1>2, <3>2, <4>2, FreshStep
      <4>3. CASE ~allow_concurrent_write /\ u # w
        BY <1>2, <3>2, <4>3, OthersIdle DEF Fresh, WInv
      <4>4. QED
        BY <4>1, <4>2, <4>3
    <3>3. QED
      BY <1>2, <3>1, <3>2 DEF Next
  <2>3. QED
    BY <2>1, <2>2 DEF WInv
<1>3. QED
  BY <1>1, <1>2

\* The prev pointer of a linked node: its predecessor, unless that is where a
\* put is linking.
LEMMA PrevPointer ==
  ASSUME WInv, ~allow_concurrent_write, NEW c \in linked[0]
  PROVE  \E p \in Offsets :
           /\ Member(p, 0) /\ tower[p][0] = c
           /\ \/ back[c] = p
              \/ \E w \in Writers : Pending(w) /\ back[c] = mine[w]
<1>1. TypeOK /\ LinkedNodes /\ NoGap /\ 0 \in Levels
  BY ConstantFacts DEF WInv, IInv
<1>2. PICK p : Member(p, 0) /\ tower[p][0] = c
  BY <1>1, Predecessor
<1>3. p \in Offsets /\ c # NULL
  BY <1>1, <1>2, MembersAreNodes DEF Member
<1>4. CASE Settled(p)
  BY <1>2, <1>3, <1>4 DEF WInv, Backs, Inverted
<1>5. CASE ~Settled(p)
  <2>1. PICK w \in Writers : Pending(w) /\ p = prev[w][0]
    BY <1>5 DEF Settled
  <2>2. next[w][0] = c
    BY <1>2, <2>1, BottomSplice DEF WInv, Pending, Splicing
  <2>3. back[c] = mine[w]
    BY <1>3, <2>1, <2>2 DEF WInv, Backs, Joined
  <2>4. QED
    BY <1>2, <1>3, <2>1, <2>3
<1>6. QED
  BY <1>4, <1>5

\* The node that is about to be linked.
LEMMA PendingNode ==
  ASSUME WInv, ~allow_concurrent_write, NEW w \in Writers, Pending(w)
  PROVE  /\ back[mine[w]] = head \/ back[mine[w]] \in linked[0]
         /\ tower[mine[w]][0] = NULL \/ tower[mine[w]][0] \in linked[0]
<1>1. Splicing(w) /\ lvl[w] = 0
  BY DEF Pending, Splicing
<1>2. /\ Member(prev[w][0], 0)
      /\ next[w][0] # NULL => next[w][0] \in linked[0]
  BY <1>1, BottomSplice DEF WInv
<1>3. back[mine[w]] = prev[w][0]
  BY DEF WInv, Backs, Joined
<1>4. CASE pc[w] = "setnext"
  BY <1>1, <1>2, <1>3, <1>4 DEF WInv, Fresh, Member
<1>5. CASE pc[w] = "link"
  <2>1. tower[mine[w]][0] = next[w][0]
    BY <1>1, <1>5 DEF WInv, IInv, Owned
  <2>2. QED
    BY <1>2, <1>3, <2>1 DEF Member
<1>6. QED
  BY <1>4, <1>5 DEF Pending

-----------------------------------------------------------------------------
LEMMA IterNextOwn ==
  ASSUME WInv, RInv, NEW r \in Readers, UNCHANGED vars, IterNext(r)
  PROVE  RInv'
<1> DEFINE c == cursor[r]
           n == tower[c][0]
<1>1. /\ TypeOK /\ LinkedNodes /\ NoGap /\ 0 \in Levels /\ ReadersTypeOK /\ IInv
      /\ Scanning(r) /\ Placing(r) /\ op[r] = "idle" /\ valid(r)
  BY ConstantFacts DEF WInv, IInv, RInv, IterNext
<1>2. op'[r] = "idle" /\ cursor'[r] = n /\ missed'[r] = missed[r] \ {n}
  BY <1>1 DEF IterNext, ReadersTypeOK
<1>3. /\ linked' = linked /\ nkey' = nkey /\ mine' = mine /\ pc' = pc /\ lvl' = lvl
      /\ allow_concurrent_write' = allow_concurrent_write
  BY DEF vars, shared, local
<1>4. c \in linked[0] => c \in Offsets /\ Member(c, 0) /\ c # head
  BY <1>1, SharedReads DEF Member, LinkedNodes, head
<1>5. c \in linked[0] =>
        /\ n # NULL => n \in linked[0]
        /\ \A m \in linked[0] : nkey[c] < nkey[m] => n # NULL /\ nkey[n] <= nkey[m]
  BY <1>1, <1>4 DEF NoGap, Below
<1>6. n = NULL \/ n \in linked[0]
  BY <1>1, <1>5, PendingNode DEF Placing
<1>7. Scanning(r)'
  <2> SUFFICES ASSUME NEW m \in missed[r] \ {n}
               PROVE  n \in linked[0] /\ m \in linked[0] /\ nkey[n] < nkey[m]
    BY <1>2, <1>3 DEF Scanning
  <2>1. c \in linked[0] /\ m \in linked[0] /\ nkey[c] < nkey[m]
    BY <1>1 DEF Scanning
  <2>2. n \in linked[0] /\ nkey[n] <= nkey[m] /\ n # m
    BY <1>5, <2>1
  <2>3. nkey[n] # nkey[m]
    BY <1>1, <2>1, <2>2 DEF LinkedNodes
  <2>4. nkey[n] \in Int /\ nkey[m] \in Int
    BY <1>1, <2>1, <2>2, SharedReads
  <2>5. QED
    BY <2>1, <2>2, <2>3, <2>4
<1>8. Standing(r)' /\ Counting(r)'
  BY <1>2 DEF Standing, Counting
<1>9. Placing(r)'
  BY <1>2, <1>3, <1>6 DEF Placing, valid
<1>10. QED
  BY <1>1, <1>7, <1>8, <1>9, OneReaderSteps DEF ROwn, Read

LEMMA IterPrevLinkOwn ==
  ASSUME WInv, RInv, NEW r \in Readers, UNCHANGED vars, IterPrevLink(r)
  PROVE  RInv'
<1> DEFINE p == back[cursor[r]]
           c == IF p = head THEN NULL ELSE p
<1>1. /\ ReadersTypeOK /\ Placing(r) /\ valid(r) /\ ~allow_concurrent_write
      /\ "prev" \in Reads /\ op[r] = "idle" /\ op' = op /\ Position(r, c) /\ IInv
  BY DEF RInv, IterPrevLink, WInv
<1>2. \/ c = NULL \/ c \in linked[0]
      \/ \E w \in Writers : Pending(w) /\ c = mine[w]
  <2>1. CASE cursor[r] \in linked[0]
    <3>1. PICK q \in Offsets :
             /\ Member(q, 0)
             /\ \/ p = q
                \/ \E w \in Writers : Pending(w) /\ p = mine[w]
      BY <1>1, <2>1, PrevPointer
    <3>2. QED
      BY <3>1 DEF Member
  <2>2. CASE \E w \in Writers : Pending(w) /\ cursor[r] = mine[w]
    BY <1>1, <2>2, PendingNode
  <2>3. QED
    BY <1>1, <2>1, <2>2 DEF Placing
<1>3. QED
  BY <1>1, <1>2, PositionOwn DEF Read

LEMMA ReadStep ==
  ASSUME WInv, RInv, NEW r \in Readers, UNCHANGED vars, Read(r)
  PROVE  RInv'
<1>1. ReadersTypeOK /\ IInv /\ TypeOK /\ NoGap /\ 0 \in Levels /\ head \in Offsets
  BY ConstantFacts DEF RInv, WInv, IInv
<1>2. CASE LowerBound(r)
  BY <1>1, <1>2, StartOwn DEF LowerBound
<1>3. CASE Len(r)
  BY <1>1, <1>3, StartOwn DEF Len
<1>4. CASE Seek(r)
  BY <1>1, <1>4, StartOwn DEF Seek
<1>5. CASE SeekForPrev(r)
  BY <1>1, <1>5, StartOwn DEF SeekForPrev
<1>6. CASE SeekToLast(r)
  BY <1>1, <1>6, StartOwn DEF SeekToLast
<1>7. CASE SeekToFirst(r)
  <2>1. tower[head][0] = NULL \/ tower[head][0] \in linked[0]
    BY <1>1 DEF NoGap, Member
  <2>2. op'[r] = "idle" /\ Position(r, tower[head][0])
    BY <1>7 DEF SeekToFirst
  <2>3. QED
    BY <1>1, <2>1, <2>2, PositionOwn
<1>8. CASE IterPrevSearch(r)
  BY <1>1, <1>8, StartOwn DEF IterPrevSearch
<1>9. CASE IterNext(r)
  BY <1>9, IterNextOwn
<1>10. CASE IterPrevLink(r)
  BY <1>10, IterPrevLinkOwn
<1>11. QED
  BY <1>2, <1>3, <1>4, <1>5, <1>6, <1>7, <1>8, <1>9, <1>10 DEF Read

(***************************************************************************)
(* The invariant of writers and readers together.                          *)
(***************************************************************************)
THEOREM ReadersInvariance == AllSpec => [](WInv /\ RInv)
<1>1. AllInit => WInv /\ RInv
  <2> SUFFICES ASSUME AllInit PROVE WInv /\ RInv
    OBVIOUS
  <2>1. 0 \in Levels /\ head \in Offsets /\ NULL \in Offsets /\ AnyKey \in Keys
    BY ConstantFacts
  <2>2. ReadersTypeOK
    BY <2>1 DEF AllInit, ReadersInit, ReadersTypeOK, Ops
  <2>3. \A r \in Readers : op[r] = "idle" /\ cursor[r] = NULL /\ missed[r] = {}
    BY DEF AllInit, ReadersInit
  <2>4. RInv
    BY <2>2, <2>3 DEF RInv, Standing, Scanning, Counting, Placing, valid
  <2>5. QED
    BY <2>4, WritersInv DEF AllInit
<1>2. WInv /\ RInv /\ [AllNext]_allvars => WInv' /\ RInv'
  <2> SUFFICES ASSUME WInv, RInv, [AllNext]_allvars PROVE WInv' /\ RInv'
    OBVIOUS
  <2>1. [Next]_vars /\ WInv'
    BY ReadersAside, WritersInv
  <2>2. CASE UNCHANGED rvars
    BY <2>1, <2>2, NextKeepsRInv DEF WInv
  <2>3. ASSUME NEW r \in Readers, Read(r) \/ Traverse(r), UNCHANGED vars PROVE RInv'
    BY <2>3, ReadStep, TraverseStep DEF WInv
  <2>4. QED
    BY <2>1, <2>2, <2>3 DEF AllNext, allvars
<1>3. QED
  BY <1>1, <1>2, PTL DEF AllSpec

-----------------------------------------------------------------------------
(***************************************************************************)
(* A traversal stays on its level: every node it stands on is linked there *)
(* (so its tower has the slot that is loaded) and lies before the key.     *)
(***************************************************************************)
THEOREM TraversalsOnLevel == AllSpec => []OnLevel
<1>1. WInv /\ RInv => OnLevel
  BY WhatIsLoaded DEF WInv, RInv, Standing, OnLevel
<1>2. QED
  BY <1>1, ReadersInvariance, PTL

(***************************************************************************)
(* Forward scans pass over nothing that was there when they began.         *)
(***************************************************************************)
THEOREM ScansComplete == AllSpec => []ScanComplete
<1>1. WInv /\ RInv => ScanComplete
  <2> SUFFICES ASSUME WInv, RInv, NEW r \in Readers, op[r] # "len", NEW n \in missed[r]
               PROVE  cursor[r] # NULL /\ nkey[cursor[r]] < nkey[n]
    BY DEF ScanComplete
  <2>1. cursor[r] \in linked[0] /\ nkey[cursor[r]] < nkey[n]
    BY DEF RInv, Scanning
  <2>2. cursor[r] # NULL
    BY <2>1, MembersAreNodes, ConstantFacts DEF WInv, IInv, Member
  <2>3. QED
    BY <2>1, <2>2
<1>2. QED
  BY <1>1, ReadersInvariance, PTL

(***************************************************************************)
(* A reader stands on linked nodes only, under concurrent writers always,  *)
(* and under a single writer unless it uses prev.                          *)
(***************************************************************************)
THEOREM CursorsLinked ==
  AllSpec => [](allow_concurrent_write \/ "prev" \notin Reads => CursorLinked)
<1>1. RInv => (allow_concurrent_write \/ "prev" \notin Reads => CursorLinked)
  BY DEF RInv, Placing, CursorLinked
<1>2. QED
  BY <1>1, ReadersInvariance, PTL

\* In all cases: a cursor is on a linked node or on the one that a put of the
\* single writer has filled and is linking at level 0.
CursorLinkedOrNext ==
  \A r \in Readers : valid(r) =>
    \/ cursor[r] \in linked[0]
    \/ \E w \in Writers : pc[w] \in {"setnext", "link"} /\ cursor[r] = mine[w]

(***************************************************************************)
(* prev() under a single writer follows a pointer that may be a step ahead *)
(* of the list, but never to anything else than the node being linked.     *)
(***************************************************************************)
THEOREM CursorsLinkedOrNext == AllSpec => []CursorLinkedOrNext
<1>1. RInv => CursorLinkedOrNext
  BY DEF RInv, Placing, Pending, CursorLinkedOrNext
<1>2. QED
  BY <1>1, ReadersInvariance, PTL

-----------------------------------------------------------------------------
\* The steps with which traversals return.
LEMMA ReturningStep ==
  ASSUME WInv, RInv, [AllNext]_allvars, NEW r \in Readers, op[r] # "idle", op'[r] = "idle"
  PROVE  /\ \/ LowerBoundReturn(r) \/ FindNearReturn(r) \/ FindLastReturn(r) \/ LenReturn(r)
         /\ UNCHANGED vars
<1>1. ReadersTypeOK
  BY DEF RInv
<1>2. ~UNCHANGED rvars
  BY DEF rvars
<1>3. PICK u \in Readers : (Read(u) \/ Traverse(u)) /\ UNCHANGED vars
  BY <1>2 DEF AllNext, allvars
<1>4. u = r
  BY <1>1, <1>3, OtherReadersKept DEF ReaderKept
<1>5. ~Read(r)
  BY DEF Read, LowerBound, Len, Seek, SeekForPrev, SeekToLast, SeekToFirst, IterNext,
         IterPrevSearch, IterPrevLink, Start
<1>6. ~(LowerBoundMove(r) \/ FindNearMove(r) \/ FindLastMove(r) \/ LenCount(r))
  BY DEF LowerBoundMove, FindNearMove, FindLastMove, LenCount, Moving
<1>7. QED
  BY <1>3, <1>4, <1>5, <1>6 DEF Traverse

\* The search for the first node at or after the key: the load that ends it.
LEMMA FirstFound ==
  ASSUME WInv, RInv, NEW r \in Readers, op[r] \in {"lower_bound", "find_near"},
         Equal(r) \/ (~Less(r) /\ level[r] = 0)
  PROVE  IsFirst(Loaded(r), {n \in linked[0] : want[r] <= nkey[n]})
<1>1. TypeOK /\ Below(at[r], want[r]) /\ want[r] \in Int
  BY ConstantFacts DEF WInv, IInv, RInv, Standing, ReadersTypeOK
<1>2. \A n \in linked[0] : nkey[n] \in Int
  BY <1>1, SharedReads, ConstantFacts
<1>3. at[r] # head => nkey[at[r]] \in Int /\ nkey[at[r]] < want[r]
  BY <1>1, <1>2, WhatIsLoaded DEF WInv, Below
<1>4. CASE Equal(r)
  <2>1. Loaded(r) \in linked[0] /\ nkey[Loaded(r)] = want[r] /\ Loaded(r) # NULL
    BY <1>4, WhatIsLoaded DEF WInv, Equal, End
  <2>2. want[r] <= want[r]
    BY <1>1
  <2>3. QED
    BY <2>1, <2>2 DEF IsFirst
<1>5. CASE ~Less(r) /\ level[r] = 0
  <2>1. \A m \in linked[0] : want[r] <= nkey[m] => ~End(r) /\ nkey[Loaded(r)] <= nkey[m]
    <3>1. ASSUME NEW m \in linked[0], want[r] <= nkey[m] PROVE Below(at[r], nkey[m])
      BY <1>1, <1>2, <1>3, <3>1 DEF Below
    <3>2. QED
      BY <1>5, <3>1, WhatIsLoaded DEF WInv
  <2>2. ~End(r) => Loaded(r) \in linked[0] /\ want[r] <= nkey[Loaded(r)]
    BY <1>1, <1>2, <1>5, WhatIsLoaded DEF WInv, Less
  <2>3. QED
    BY <2>1, <2>2 DEF IsFirst, End
<1>6. QED
  BY <1>4, <1>5

(***************************************************************************)
(* lower_bound, get and contains are atomic.                               *)
(***************************************************************************)
THEOREM LowerBoundsAtomic == AllSpec => LowerBoundAtomic
<1>1. WInv /\ RInv /\ [AllNext]_allvars =>
        [\A r \in Readers : op[r] = "lower_bound" /\ op'[r] = "idle" =>
           IsFirst(found'[r], {n \in linked[0] : want[r] <= nkey[n]})]_allvars
  <2> SUFFICES ASSUME WInv, RInv, [AllNext]_allvars, NEW r \in Readers,
                      op[r] = "lower_bound", op'[r] = "idle"
               PROVE  IsFirst(found'[r], {n \in linked[0] : want[r] <= nkey[n]})
    OBVIOUS
  <2>1. LowerBoundReturn(r)
    BY ReturningStep DEF FindNearReturn, FindLastReturn, LenReturn
  <2>2. found'[r] = Loaded(r)
    BY <2>1 DEF LowerBoundReturn, RInv, ReadersTypeOK
  <2>3. IsFirst(Loaded(r), {n \in linked[0] : want[r] <= nkey[n]})
    BY <2>1, FirstFound DEF LowerBoundReturn
  <2>4. QED
    BY <2>2, <2>3
<1>2. QED
  BY <1>1, ReadersInvariance, PTL DEF AllSpec, LowerBoundAtomic

\* A search that has reached the end of what it looks for, on level 0: the
\* node it stands on is the last of the set S of nodes it wants.
LEMMA LastFound ==
  ASSUME WInv, RInv, NEW r \in Readers, op[r] # "idle", level[r] = 0,
         NEW S \in SUBSET linked[0],
         \A m \in S : ~End(r) => ~(nkey[Loaded(r)] <= nkey[m]),
         at[r] # head => at[r] \in S
  PROVE  IsLast(NotHead(at[r]), S)
<1>1. TypeOK
  BY DEF WInv, IInv
<1>2. \A n \in linked[0] : nkey[n] \in Int
  BY <1>1, SharedReads, ConstantFacts
<1>3. at[r] # head => at[r] \in linked[0] /\ at[r] # NULL
  BY <1>1, WhatIsLoaded, MembersAreNodes, ConstantFacts DEF WInv, IInv, Member
<1>4. ASSUME NEW m \in S PROVE at[r] # head /\ nkey[m] <= nkey[at[r]]
  <2>1. ~Below(at[r], nkey[m])
    BY WhatIsLoaded DEF WInv
  <2>2. at[r] # head /\ ~(nkey[at[r]] < nkey[m])
    BY <2>1 DEF Below
  <2>3. QED
    BY <1>2, <1>3, <2>2
<1>5. CASE at[r] = head
  BY <1>4, <1>5 DEF NotHead, IsLast
<1>6. CASE at[r] # head
  BY <1>3, <1>4, <1>6 DEF NotHead, IsLast
<1>7. QED
  BY <1>5, <1>6

LEMMA FindNearFinds ==
  ASSUME WInv, RInv, NEW r \in Readers, FindNearReturn(r)
  PROVE  IF less[r] THEN IsLast(cursor'[r], Before(want[r], allow_equal[r]))
         ELSE IsFirst(cursor'[r], {n \in linked[0] : want[r] <= nkey[n]})
<1>1. /\ TypeOK /\ Below(at[r], want[r]) /\ want[r] \in Int /\ op[r] = "find_near"
      /\ less[r] \/ allow_equal[r]
  BY ConstantFacts DEF WInv, IInv, RInv, Standing, ReadersTypeOK, FindNearReturn
<1>2. \A n \in linked[0] : nkey[n] \in Int
  BY <1>1, SharedReads, ConstantFacts
<1>3. \A c : Position(r, c) => cursor'[r] = c
  BY DEF Position, RInv, ReadersTypeOK
<1>4. CASE Equal(r) /\ allow_equal[r] /\ Position(r, Loaded(r))
  <2>1. cursor'[r] = Loaded(r)
    BY <1>3, <1>4
  <2>2. CASE less[r]
    <3>1. Loaded(r) \in linked[0] /\ nkey[Loaded(r)] = want[r] /\ Loaded(r) # NULL
      BY <1>1, <1>4, WhatIsLoaded DEF WInv, Equal, End
    <3>2. Loaded(r) \in Before(want[r], allow_equal[r])
      BY <1>4, <3>1 DEF Before
    <3>3. ASSUME NEW n \in Before(want[r], allow_equal[r]) PROVE nkey[n] <= want[r]
      <4>1. n \in linked[0] /\ (nkey[n] < want[r] \/ nkey[n] = want[r])
        BY DEF Before
      <4>2. QED
        BY <1>1, <1>2, <4>1
    <3>4. QED
      BY <2>1, <2>2, <3>1, <3>2, <3>3 DEF IsLast
  <2>3. CASE ~less[r]
    BY <1>1, <1>4, <2>1, <2>3, FirstFound
  <2>4. QED
    BY <2>2, <2>3
<1>5. CASE /\ ~Less(r) /\ level[r] = 0 /\ ~(Equal(r) /\ allow_equal[r])
           /\ Position(r, IF less[r] THEN NotHead(at[r]) ELSE Loaded(r))
  <2>1. CASE less[r]
    <3> DEFINE S == Before(want[r], allow_equal[r])
    <3>1. S \in SUBSET linked[0]
      BY DEF Before
    <3>2. ASSUME NEW m \in S, ~End(r) PROVE ~(nkey[Loaded(r)] <= nkey[m])
      <4>1. Loaded(r) \in linked[0] /\ ~(nkey[Loaded(r)] < want[r])
            /\ (allow_equal[r] => nkey[Loaded(r)] # want[r])
        BY <1>1, <1>5, <3>2, WhatIsLoaded DEF WInv, Less, Equal
      <4>2. m \in linked[0] /\ (nkey[m] < want[r] \/ (allow_equal[r] /\ nkey[m] = want[r]))
        BY DEF Before
      <4>3. nkey[Loaded(r)] \in Int /\ nkey[m] \in Int
        BY <1>2, <4>1, <4>2
      <4>4. CASE nkey[m] < want[r]
        BY <1>1, <4>1, <4>3, <4>4
      <4>5. CASE allow_equal[r] /\ nkey[m] = want[r]
        BY <1>1, <4>1, <4>3, <4>5
      <4>6. QED
        BY <4>2, <4>4, <4>5
    <3>3. at[r] # head => at[r] \in S
      BY <1>1, WhatIsLoaded DEF WInv, Below, Before
    <3>4. IsLast(NotHead(at[r]), S)
      <4> HIDE DEF S
      <4> QED
        BY <1>1, <1>5, <3>1, <3>2, <3>3, LastFound
    <3>5. cursor'[r] = NotHead(at[r])
      BY <1>3, <1>5, <2>1
    <3>6. QED
      BY <2>1, <3>4, <3>5
  <2>2. CASE ~less[r]
    <3>1. cursor'[r] = Loaded(r)
      BY <1>3, <1>5, <2>2
    <3>2. QED
      BY <1>1, <1>5, <2>2, <3>1, FirstFound
  <2>3. QED
    BY <2>1, <2>2
<1>6. QED
  BY <1>4, <1>5 DEF FindNearReturn

LEMMA FindLastFinds ==
  ASSUME WInv, RInv, NEW r \in Readers, FindLastReturn(r)
  PROVE  IsLast(cursor'[r], linked[0])
<1>1. op[r] # "idle" /\ End(r) /\ level[r] = 0
  BY DEF FindLastReturn
<1>2. cursor'[r] = NotHead(at[r])
  BY DEF FindLastReturn, Position, RInv, ReadersTypeOK
<1>3. at[r] # head => at[r] \in linked[0]
  BY <1>1, WhatIsLoaded DEF WInv
<1>4. QED
  BY <1>1, <1>2, <1>3, LastFound

(***************************************************************************)
(* The searches of the iterator are atomic.                                *)
(***************************************************************************)
THEOREM SeeksAtomic == AllSpec => SeekAtomic
<1>1. WInv /\ RInv /\ [AllNext]_allvars =>
        [\A r \in Readers : op'[r] = "idle" =>
           /\ op[r] = "find_near" =>
                IF less[r] THEN IsLast(cursor'[r], Before(want[r], allow_equal[r]))
                ELSE IsFirst(cursor'[r], {n \in linked[0] : want[r] <= nkey[n]})
           /\ op[r] = "find_last" => IsLast(cursor'[r], linked[0])]_allvars
  <2> SUFFICES ASSUME WInv, RInv, [AllNext]_allvars, NEW r \in Readers, op'[r] = "idle"
               PROVE  /\ op[r] = "find_near" =>
                           IF less[r] THEN IsLast(cursor'[r], Before(want[r], allow_equal[r]))
                           ELSE IsFirst(cursor'[r], {n \in linked[0] : want[r] <= nkey[n]})
                      /\ op[r] = "find_last" => IsLast(cursor'[r], linked[0])
    OBVIOUS
  <2>1. op[r] = "find_near" => FindNearReturn(r)
    BY ReturningStep DEF LowerBoundReturn, FindLastReturn, LenReturn
  <2>2. op[r] = "find_last" => FindLastReturn(r)
    BY ReturningStep DEF LowerBoundReturn, FindNearReturn, LenReturn
  <2>3. QED
    BY <2>1, <2>2, FindNearFinds, FindLastFinds
<1>2. QED
  BY <1>1, ReadersInvariance, PTL DEF AllSpec, SeekAtomic

(***************************************************************************)
(* len counts all that was there when it began, and nothing twice.         *)
(***************************************************************************)
THEOREM LensBetween == AllSpec => LenBetween
<1>1. WInv /\ RInv /\ [AllNext]_allvars =>
        [\A r \in Readers : op[r] = "len" /\ op'[r] = "idle" =>
           missed[r] = {} /\ count[r] <= Cardinality(linked[0])]_allvars
  <2> SUFFICES ASSUME WInv, RInv, [AllNext]_allvars, NEW r \in Readers,
                      op[r] = "len", op'[r] = "idle"
               PROVE  missed[r] = {} /\ count[r] <= Cardinality(linked[0])
    OBVIOUS
  <2>1. LenReturn(r)
    BY ReturningStep DEF LowerBoundReturn, FindNearReturn, FindLastReturn
  <2>2. QED
    BY <2>1, LenEnds DEF WInv, LenReturn
<1>2. QED
  BY <1>1, ReadersInvariance, PTL DEF AllSpec, LenBetween

(***************************************************************************)
(* prev() of single-writer mode is exact too, except while a put is        *)
(* between its prev pointers and its link: from any cursor it finds the    *)
(* last entry before the cursor's.                                         *)
(***************************************************************************)
PrevExact ==
  [][\A r \in Readers :
       IterPrevLink(r) /\ (\A w \in Writers : pc[w] \notin {"setnext", "link"}) =>
         IsLast(cursor'[r], {n \in linked[0] : nkey[n] < nkey[cursor[r]]})]_allvars

LEMMA PrevFinds ==
  ASSUME WInv, RInv, NEW r \in Readers, IterPrevLink(r), \A w \in Writers : ~Pending(w)
  PROVE  IsLast(cursor'[r], {n \in linked[0] : nkey[n] < nkey[cursor[r]]})
<1> DEFINE c == cursor[r]
<1>1. /\ TypeOK /\ NoGap /\ LinkedNodes /\ 0 \in Levels /\ valid(r)
      /\ ~allow_concurrent_write /\ ReadersTypeOK
  BY ConstantFacts DEF WInv, IInv, RInv, IterPrevLink
<1>2. c \in linked[0]
  BY <1>1 DEF RInv, Placing
<1>3. PICK p \in Offsets : Member(p, 0) /\ tower[p][0] = c /\ back[c] = p
  BY <1>1, <1>2, PrevPointer
<1>4. cursor'[r] = IF p = head THEN NULL ELSE p
  BY <1>1, <1>3 DEF IterPrevLink, Position, ReadersTypeOK
<1>5. \A n \in linked[0] : nkey[n] \in Int
  BY <1>1, SharedReads
<1>6. Below(p, nkey[c]) /\ \A m \in linked[0] : Below(p, nkey[m]) => nkey[c] <= nkey[m]
  BY <1>1, <1>3, MembersAreNodes DEF NoGap, valid
<1>7. ASSUME NEW m \in linked[0], nkey[m] < nkey[c] PROVE p # head /\ nkey[m] <= nkey[p]
  <2>1. ~(nkey[c] <= nkey[m])
    BY <1>2, <1>5, <1>7
  <2>2. p # head /\ ~(nkey[p] < nkey[m])
    BY <1>6, <1>7, <2>1 DEF Below
  <2>3. QED
    BY <1>3, <1>5, <2>2 DEF Member
<1>8. CASE p = head
  BY <1>4, <1>7, <1>8 DEF IsLast
<1>9. CASE p # head
  <2>1. p \in linked[0] /\ nkey[p] < nkey[c] /\ p # NULL
    BY <1>1, <1>3, <1>6, <1>9, MembersAreNodes DEF Member, Below
  <2>2. QED
    BY <1>4, <1>7, <1>9, <2>1 DEF IsLast
<1>10. QED
  BY <1>8, <1>9

\* prev() with plain stores finds the predecessor unless a put is linking.
THEOREM PrevsExact == AllSpec => PrevExact
<1>1. WInv /\ RInv /\ [AllNext]_allvars =>
        [\A r \in Readers :
           IterPrevLink(r) /\ (\A w \in Writers : pc[w] \notin {"setnext", "link"}) =>
             IsLast(cursor'[r], {n \in linked[0] : nkey[n] < nkey[cursor[r]]})]_allvars
  BY PrevFinds DEF Pending
<1>2. QED
  BY <1>1, ReadersInvariance, PTL DEF AllSpec, PrevExact
=============================================================================
