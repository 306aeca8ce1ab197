--------------------------- MODULE SkipList_proofs ---------------------------
(***************************************************************************)
(* Proofs about SkipList, for every set of keys, values and writers, every *)
(* number of levels, every arena size and both modes.                      *)
(***************************************************************************)
EXTENDS SkipList, TLAPS

(***************************************************************************)
(* Facts about the constants and the derived sets.                         *)
(***************************************************************************)
LEMMA ConstantFacts ==
  /\ Keys \subseteq Int
  /\ MAX_HEIGHT \in Nat /\ MAX_HEIGHT >= 1
  /\ CAPACITY \in Nat /\ 1 + MAX_HEIGHT <= CAPACITY
  /\ NULL \in Offsets /\ head \in Offsets /\ NULL # head
  /\ 0 \in Levels /\ MAX_HEIGHT - 1 \in Levels
  /\ Levels \subseteq 0 .. MAX_HEIGHT
  /\ AnyKey \in Keys /\ AnyValue \in Values
  BY KeysAssumption, ValuesAssumption, SizesAssumption
  DEF NULL, head, Offsets, Levels, AnyKey, AnyValue

-----------------------------------------------------------------------------
(***************************************************************************)
(* Type correctness.                                                       *)
(***************************************************************************)
LEMMA InitTypeOK == Init => TypeOK
  BY ConstantFacts
  DEF Init, TypeOK, NoLinks, NoSplice, PCs, Results, head, Levels

LEMMA ReturnTypeOK ==
  ASSUME TypeOK, NEW w \in Writers, NEW r \in Results, Return(w, r),
         UNCHANGED shared
  PROVE  TypeOK'
  BY ConstantFacts DEF TypeOK, Return, shared, NoSplice, PCs

\* The values that the actions read.
LEMMA LocalReads ==
  ASSUME TypeOK, NEW w \in Writers
  PROVE  /\ pc[w] \in PCs /\ key[w] \in Keys /\ value[w] \in Values
         /\ top[w] \in Levels /\ cur[w] \in Levels /\ lvl[w] \in Levels
         /\ before[w] \in Offsets /\ mine[w] \in Offsets
         /\ Succ(w) \in Offsets
         /\ \A j \in Levels : prev[w][j] \in Offsets /\ next[w][j] \in Offsets
<1>1. /\ pc[w] \in PCs /\ key[w] \in Keys /\ value[w] \in Values
      /\ top[w] \in Levels /\ cur[w] \in Levels /\ lvl[w] \in Levels
      /\ before[w] \in Offsets /\ mine[w] \in Offsets
  BY DEF TypeOK
<1>2. Succ(w) \in Offsets
  BY <1>1 DEF TypeOK, Succ
<1>3. ASSUME NEW j \in Levels
      PROVE  prev[w][j] \in Offsets /\ next[w][j] \in Offsets
  <2>1. j \in 0 .. MAX_HEIGHT
    BY ConstantFacts
  <2>2. prev[w] \in [0 .. MAX_HEIGHT -> Offsets] /\ next[w] \in [0 .. MAX_HEIGHT -> Offsets]
    BY DEF TypeOK
  <2>3. QED
    BY <2>1, <2>2
<1>4. QED
  BY <1>1, <1>2, <1>3

\* A writer moves on to another point of put.
LEMMA MoveTypeOK ==
  ASSUME TypeOK, NEW w \in Writers, NEW p \in PCs,
         pc' = [pc EXCEPT ![w] = p]
  PROVE  pc' \in [Writers -> PCs]
  BY DEF TypeOK

LEMMA PCValues ==
  /\ {"idle", "search", "alloc", "raise", "backlink", "setnext"} \subseteq PCs
  /\ {"link", "research", AfterHeight} \subseteq PCs
  BY DEF PCs, AfterHeight

LEMMA StepTypeOK == TypeOK /\ [Next]_vars => TypeOK'
<1> SUFFICES ASSUME TypeOK, [Next]_vars PROVE TypeOK'
  OBVIOUS
<1>1. ASSUME NEW w \in Writers, Call(w) PROVE TypeOK'
  <2>1. PICK k \in Keys, v \in Values, h \in Levels : PutStart(w, k, v, h)
    BY <1>1 DEF Call
  <2>2. [j \in 0 .. MAX_HEIGHT |-> IF j > height THEN head ELSE NULL]
          \in [0 .. MAX_HEIGHT -> Offsets]
    BY ConstantFacts
  <2>3. prev' \in [Writers -> [0 .. MAX_HEIGHT -> Offsets]]
    BY <2>1, <2>2 DEF PutStart, HeadAbove, TypeOK
  <2>4. pc' \in [Writers -> PCs] /\ result' \in [Writers -> Results]
    BY <2>1 DEF PutStart, TypeOK, PCs, Results
  <2>5. next' \in [Writers -> [0 .. MAX_HEIGHT -> Offsets]]
    <3>1. NoSplice \in [0 .. MAX_HEIGHT -> Offsets]
      BY ConstantFacts DEF NoSplice
    <3>2. QED
      BY <2>1, <3>1 DEF PutStart, TypeOK
  <2>6. QED
    BY <2>1, <2>3, <2>4, <2>5, ConstantFacts DEF PutStart, TypeOK, shared
<1>2. ASSUME NEW w \in Writers, WalkOn(w) PROVE TypeOK'
  BY <1>2, LocalReads DEF WalkOn, TypeOK, shared
<1>3. ASSUME NEW w \in Writers, FoundSplice(w) PROVE TypeOK'
  <2>1. /\ Succ(w) \in Offsets /\ before[w] \in Offsets
        /\ lvl[w] \in Levels /\ lvl[w] \in 0 .. MAX_HEIGHT
    BY LocalReads, ConstantFacts
  <2>2. prev' \in [Writers -> [0 .. MAX_HEIGHT -> Offsets]]
    BY <1>3, <2>1 DEF FoundSplice, TypeOK
  <2>3. next' \in [Writers -> [0 .. MAX_HEIGHT -> Offsets]]
    BY <1>3, <2>1 DEF FoundSplice, TypeOK
  <2>4. pc' \in [Writers -> PCs]
    BY <1>3, PCValues, MoveTypeOK DEF FoundSplice, TypeOK
  <2>5. lvl' \in [Writers -> Levels]
    <3>1. lvl[w] > 0 => lvl[w] - 1 \in Levels
      BY <2>1, ConstantFacts DEF Levels
    <3>2. QED
      BY <1>3, <3>1 DEF FoundSplice, TypeOK
  <2>6. QED
    BY <1>3, <2>2, <2>3, <2>4, <2>5 DEF FoundSplice, TypeOK, shared
<1>4. ASSUME NEW w \in Writers, FoundDuplicate(w) PROVE TypeOK'
  <2>1. DuplicateResult(w) \in Results
    BY DEF DuplicateResult, Results
  <2>2. QED
    BY <1>4, <2>1, ReturnTypeOK DEF FoundDuplicate
<1>5. ASSUME NEW w \in Writers, AllocNode(w) PROVE TypeOK'
  <2>1. ptr \in Nat /\ top[w] \in Nat /\ ptr >= head + MAX_HEIGHT
    BY LocalReads, ConstantFacts DEF TypeOK, Levels, head
  <2>2. ptr \in Offsets /\ ptr + NodeSize(top[w]) \in head + MAX_HEIGHT .. CAPACITY
    BY <1>5, <2>1, ConstantFacts DEF AllocNode, Fits, NodeSize, Offsets, head
  <2>3. NoLinks \in [Levels -> Offsets]
    BY ConstantFacts DEF NoLinks
  <2>4. pc' \in [Writers -> PCs]
    BY <1>5, PCValues, MoveTypeOK DEF AllocNode
  <2>5. tower' \in [Offsets -> [Levels -> Offsets]]
    BY <1>5, <2>2, <2>3 DEF AllocNode, TypeOK
  <2>6. QED
    BY <1>5, <2>2, <2>4, <2>5, LocalReads, ConstantFacts DEF AllocNode, TypeOK
<1>6. ASSUME NEW w \in Writers, AllocPanic(w) PROVE TypeOK'
  BY <1>6, ReturnTypeOK DEF AllocPanic, Results, Return
<1>7. ASSUME NEW w \in Writers, RaiseHeight(w) PROVE TypeOK'
  BY <1>7, LocalReads DEF RaiseHeight, AfterHeight, TypeOK, PCs
<1>8. ASSUME NEW w \in Writers, RaiseRetry(w) PROVE TypeOK'
  BY <1>8 DEF RaiseRetry, AfterHeight, TypeOK, PCs, shared
<1>9. ASSUME NEW w \in Writers, BackLink(w) PROVE TypeOK'
  <2>1. pc' \in [Writers -> PCs]
    BY <1>9, PCValues, MoveTypeOK DEF BackLink
  <2>2. prev[w][0] \in Offsets /\ mine[w] \in Offsets
    BY LocalReads, ConstantFacts
  <2>3. back' \in [Offsets -> Offsets]
    BY <1>9, <2>2 DEF BackLink, TypeOK
  <2>4. QED
    BY <1>9, <2>1, <2>3 DEF BackLink, TypeOK
<1>10. ASSUME NEW w \in Writers, SetNext(w) PROVE TypeOK'
  <2>1. pc' \in [Writers -> PCs]
    BY <1>10, PCValues, MoveTypeOK DEF SetNext
  <2>2. tower' \in [Offsets -> [Levels -> Offsets]]
    BY <1>10, LocalReads DEF SetNext, TypeOK
  <2>3. QED
    BY <1>10, <2>1, <2>2 DEF SetNext, TypeOK
<1>11. ASSUME NEW w \in Writers, Link(w) PROVE TypeOK'
  <2>1. tower' \in [Offsets -> [Levels -> Offsets]]
    BY <1>11, LocalReads DEF Link, TypeOK
  <2>2. linked' \in [Levels -> SUBSET Offsets]
    <3>1. linked' = [linked EXCEPT ![lvl[w]] = @ \cup {mine[w]}]
      BY <1>11 DEF Link
    <3>2. linked \in [Levels -> SUBSET Offsets]
      BY DEF TypeOK
    <3>3. lvl[w] \in Levels /\ mine[w] \in Offsets
      BY LocalReads
    <3>4. linked[lvl[w]] \cup {mine[w]} \in SUBSET Offsets
      BY <3>2, <3>3
    <3>5. QED
      BY <3>1, <3>2, <3>4
  <2>3. CASE pc' = [pc EXCEPT ![w] = "setnext"] /\ lvl[w] < top[w]
             /\ lvl' = [lvl EXCEPT ![w] = @ + 1]
             /\ UNCHANGED <<key, value, top, cur, before, prev, next, mine, result>>
    <3>1. lvl[w] + 1 \in Levels
      BY <2>3, LocalReads, ConstantFacts DEF Levels
    <3>2. pc' \in [Writers -> PCs] /\ lvl' \in [Writers -> Levels]
      BY <2>3, <3>1, PCValues, MoveTypeOK DEF TypeOK
    <3>3. QED
      BY <1>11, <2>1, <2>2, <2>3, <3>2 DEF Link, TypeOK
  <2>4. CASE Return(w, "none")
    <3>1. "none" \in Results
      BY DEF Results
    <3>2. pc' \in [Writers -> PCs] /\ result' \in [Writers -> Results]
      BY <2>4, <3>1, PCValues, MoveTypeOK DEF Return, TypeOK
    <3>3. NoSplice \in [0 .. MAX_HEIGHT -> Offsets]
      BY ConstantFacts DEF NoSplice
    <3>4. QED
      BY <1>11, <2>1, <2>2, <2>4, <3>2, <3>3, ConstantFacts
      DEF Link, Return, TypeOK
  <2>5. QED
    BY <1>11, <2>3, <2>4 DEF Link
<1>12. ASSUME NEW w \in Writers, LinkFail(w) PROVE TypeOK'
  <2>1. pc' \in [Writers -> PCs]
    BY <1>12, PCValues, MoveTypeOK DEF LinkFail
  <2>2. prev[w][lvl[w]] \in Offsets
    BY LocalReads
  <2>3. QED
    BY <1>12, <2>1, <2>2 DEF LinkFail, TypeOK, shared
<1>13. CASE UNCHANGED vars
  BY <1>13 DEF TypeOK, vars, shared, local
<1>14. QED
  BY <1>1, <1>2, <1>3, <1>4, <1>5, <1>6, <1>7, <1>8, <1>9, <1>10, <1>11,
     <1>12, <1>13 DEF Next, Work

(***************************************************************************)
(* TypeOK holds in every state: every offset a writer computes lies in the *)
(* arena and every level it touches exists.                                *)
(***************************************************************************)
THEOREM TypeCorrect == Spec => []TypeOK
  BY InitTypeOK, StepTypeOK, PTL DEF Spec

-----------------------------------------------------------------------------
(***************************************************************************)
(* IInv is an inductive invariant of SkipList, and what follows from it.   *)
(***************************************************************************)
(***************************************************************************)
(* What TypeOK says of single reads, in a form the provers use well.       *)
(***************************************************************************)
LEMMA SharedReads ==
  ASSUME TypeOK
  PROVE  /\ height \in Int /\ ptr \in Int /\ head < ptr
         /\ Levels \subseteq Int /\ Offsets \subseteq Int
         /\ \A i \in Levels : linked[i] \subseteq Offsets
         /\ \A n \in Offsets : nkey[n] \in Keys /\ nkey[n] \in Int
         /\ \A n \in Offsets, i \in Levels : tower[n][i] \in Offsets
<1>1. height \in Int /\ ptr \in Int /\ head < ptr
  BY ConstantFacts DEF TypeOK, Levels, head
<1>2. Levels \subseteq Int /\ Offsets \subseteq Int
  BY ConstantFacts DEF Levels, Offsets
<1>3. \A i \in Levels : linked[i] \subseteq Offsets
  BY DEF TypeOK
<1>4. \A n \in Offsets : nkey[n] \in Keys /\ nkey[n] \in Int
  BY ConstantFacts DEF TypeOK
<1>5. \A n \in Offsets, i \in Levels : tower[n][i] \in Offsets
  BY DEF TypeOK
<1>6. QED
  BY <1>1, <1>2, <1>3, <1>4, <1>5

\* The members of a level are offsets, and not the null offset.
LEMMA MembersAreNodes ==
  ASSUME TypeOK, LinkedNodes, NEW i \in Levels, NEW n, Member(n, i)
  PROVE  /\ n \in Offsets /\ n # NULL /\ n < ptr
         /\ i <= nheight[n]
         /\ \A j \in Levels : j < i => Member(n, j)
<1>1. CASE n = head
  <2>1. i <= nheight[head]
    BY ConstantFacts DEF LinkedNodes, Levels
  <2>2. QED
    BY <1>1, <2>1, ConstantFacts, SharedReads DEF Member
<1>2. CASE n \in linked[i]
  <2>1. n \in Offsets /\ head < n /\ n < ptr /\ i <= nheight[n]
    BY <1>2, SharedReads DEF LinkedNodes
  <2>2. n # NULL
    BY <2>1, ConstantFacts DEF NULL, head
  <2>3. QED
    BY <1>2, <2>1, <2>2 DEF LinkedNodes, Member
<1>3. QED
  BY <1>1, <1>2 DEF Member

(***************************************************************************)
(* The frame of a step: the locals of a writer that does not take it, and  *)
(* how the shared state may change under it.                               *)
(***************************************************************************)
Kept(u) ==
  /\ pc'[u] = pc[u] /\ key'[u] = key[u] /\ value'[u] = value[u]
  /\ top'[u] = top[u] /\ cur'[u] = cur[u] /\ lvl'[u] = lvl[u]
  /\ before'[u] = before[u] /\ prev'[u] = prev[u] /\ next'[u] = next[u]
  /\ mine'[u] = mine[u] /\ result'[u] = result[u]

Grows ==
  /\ height' \in Int /\ height <= height'
  /\ ptr' \in Int /\ ptr <= ptr'
  /\ \A i \in Levels : linked[i] \subseteq linked'[i]
  /\ \A n \in Offsets : n < ptr =>
       nkey'[n] = nkey[n] /\ nval'[n] = nval[n] /\ nheight'[n] = nheight[n]

LEMMA ReturnKeeps ==
  ASSUME TypeOK, NEW w \in Writers, NEW u \in Writers, u # w, NEW r, Return(w, r)
  PROVE  Kept(u)
  BY DEF TypeOK, Return, Kept

LEMMA OthersKept ==
  ASSUME TypeOK, NEW w \in Writers, NEW u \in Writers, u # w, Call(w) \/ Work(w)
  PROVE  Kept(u)
<1>1. CASE Call(w)
  BY <1>1 DEF Call, PutStart, TypeOK, Kept
<1>2. CASE WalkOn(w)
  BY <1>2 DEF WalkOn, TypeOK, Kept
<1>3. CASE FoundSplice(w)
  BY <1>3 DEF FoundSplice, TypeOK, Kept
<1>4. CASE FoundDuplicate(w)
  BY <1>4, ReturnKeeps DEF FoundDuplicate
<1>5. CASE AllocNode(w)
  BY <1>5 DEF AllocNode, TypeOK, Kept
<1>6. CASE AllocPanic(w)
  BY <1>6, ReturnKeeps DEF AllocPanic
<1>7. CASE RaiseHeight(w)
  BY <1>7 DEF RaiseHeight, TypeOK, Kept
<1>8. CASE RaiseRetry(w)
  BY <1>8 DEF RaiseRetry, TypeOK, Kept
<1>9. CASE BackLink(w)
  BY <1>9 DEF BackLink, TypeOK, Kept
<1>10. CASE SetNext(w)
  BY <1>10 DEF SetNext, TypeOK, Kept
<1>11. CASE Link(w)
  <2>1. CASE Return(w, "none")
    BY <2>1, ReturnKeeps
  <2>2. CASE /\ pc' = [pc EXCEPT ![w] = "setnext"]
             /\ lvl' = [lvl EXCEPT ![w] = @ + 1]
             /\ UNCHANGED <<key, value, top, cur, before, prev, next, mine, result>>
    BY <2>2 DEF TypeOK, Kept
  <2>3. QED
    BY <1>11, <2>1, <2>2 DEF Link
<1>12. CASE LinkFail(w)
  BY <1>12 DEF LinkFail, TypeOK, Kept
<1>13. QED
  BY <1>1, <1>2, <1>3, <1>4, <1>5, <1>6, <1>7, <1>8, <1>9, <1>10, <1>11, <1>12
  DEF Work

\* The mode was chosen when the list was made.
LEMMA ModeStays ==
  ASSUME NEW w \in Writers, Call(w) \/ Work(w)
  PROVE  allow_concurrent_write' = allow_concurrent_write
<1>1. CASE Call(w)
  BY <1>1 DEF Call, PutStart, shared
<1>2. CASE WalkOn(w) \/ FoundSplice(w) \/ FoundDuplicate(w)
  BY <1>2 DEF WalkOn, FoundSplice, FoundDuplicate, shared
<1>3. CASE AllocNode(w) \/ AllocPanic(w) \/ RaiseHeight(w) \/ RaiseRetry(w)
  BY <1>3 DEF AllocNode, AllocPanic, RaiseHeight, RaiseRetry, shared
<1>4. CASE BackLink(w) \/ SetNext(w) \/ Link(w) \/ LinkFail(w)
  BY <1>4 DEF BackLink, SetNext, Link, LinkFail, shared
<1>5. QED
  BY <1>1, <1>2, <1>3, <1>4 DEF Work

\* A member of a level stays one, and keeps its key.
LEMMA MembersStay ==
  ASSUME TypeOK, LinkedNodes, Grows, NEW i \in Levels, NEW n, Member(n, i)
  PROVE  Member(n, i)' /\ nkey'[n] = nkey[n]
         /\ \A k : Below(n, k) => Below(n, k)'
<1>1. n \in Offsets /\ n < ptr
  BY MembersAreNodes
<1>2. QED
  BY <1>1 DEF Grows, Member, Below

\* What a writer knows of its place in the list stays true while others work.
LEMMA BracketsStay ==
  ASSUME TypeOK, LinkedNodes, Grows, NEW i \in Levels, NEW p, NEW n, NEW k,
         Brackets(p, n, k, i)
  PROVE  Brackets(p, n, k, i)'
<1>1. Member(p, i)' /\ Below(p, k)'
  BY MembersStay DEF Brackets
<1>2. ASSUME n # NULL PROVE n \in linked'[i] /\ k < nkey'[n]
  <2>1. n \in linked[i] /\ k < nkey[n]
    BY <1>2 DEF Brackets
  <2>2. n \in linked'[i] /\ nkey'[n] = nkey[n]
    BY <2>1, MembersStay DEF Grows, Member
  <2>3. QED
    BY <2>1, <2>2
<1>3. QED
  BY <1>1, <1>2 DEF Brackets

LEMMA PlacedStays ==
  ASSUME TypeOK, LinkedNodes, Grows, NEW u \in Writers, Kept(u), Placed(u)
  PROVE  Placed(u)'
<1>1. ASSUME Searching(u)' PROVE (Member(before[u], lvl[u]) /\ Below(before[u], key[u]))'
  <2>1. Member(before[u], lvl[u]) /\ Below(before[u], key[u])
    BY <1>1 DEF Placed, Kept, Searching
  <2>2. QED
    BY <2>1, MembersStay, LocalReads DEF Kept, Member, Below
<1>2. ASSUME pc'[u] # "idle", NEW j \in Levels,
             (pc'[u] = "search" => lvl'[u] < j), lvl'[u] <= j
      PROVE  Brackets(prev[u][j], next[u][j], key[u], j)'
  <2>1. Brackets(prev[u][j], next[u][j], key[u], j)
    BY <1>2 DEF Placed, Kept
  <2>2. Brackets(prev[u][j], next[u][j], key[u], j)' <=> 
         \E p, n, k : p = prev[u][j] /\ n = next[u][j] /\ k = key[u] /\ Brackets(p, n, k, j)'
    BY DEF Kept, Brackets, Member, Below
  <2>3. QED
    BY <2>1, <2>2, BracketsStay
<1>3. QED
  BY <1>1, <1>2 DEF Placed

\* The same for the node a writer owns, as long as nobody else links it or
\* writes its tower.
LEMMA OwnedStays ==
  ASSUME TypeOK, LinkedNodes, Grows, NEW u \in Writers, Kept(u), Owned(u),
         \A j \in Levels : Splicing(u) =>
           (mine[u] \in linked'[j] <=> mine[u] \in linked[j]),
         Splicing(u) => tower'[mine[u]][lvl[u]] = tower[mine[u]][lvl[u]]
  PROVE  Owned(u)'
<1> SUFFICES ASSUME Splicing(u)' PROVE Owned(u)'
  BY DEF Owned
<1>1. Splicing(u)
  BY DEF Splicing, Kept
<1>2. mine[u] \in Offsets /\ mine[u] < ptr /\ mine[u] \in Int
      /\ ptr \in Int /\ ptr' \in Int /\ ptr <= ptr'
      /\ top[u] \in Int /\ cur[u] \in Int
      /\ height \in Int /\ height' \in Int /\ height <= height'
  BY <1>1, LocalReads, SharedReads DEF Owned, Grows
<1>3. nkey'[mine[u]] = nkey[mine[u]] /\ nval'[mine[u]] = nval[mine[u]]
      /\ nheight'[mine[u]] = nheight[mine[u]]
  BY <1>2 DEF Grows
<1>4. QED
  BY <1>1, <1>2, <1>3 DEF Owned, Kept

LEMMA PhaseStays ==
  ASSUME TypeOK, Grows, NEW u \in Writers, Kept(u), Phase(u),
         allow_concurrent_write' = allow_concurrent_write
  PROVE  Phase(u)'
<1>1. height \in Int /\ height' \in Int /\ height <= height' /\ cur[u] \in Int
  BY LocalReads, SharedReads DEF Grows
<1>2. QED
  BY <1>1 DEF Phase, Kept

\* With a single writer, the others are idle.
LEMMA AloneStays ==
  ASSUME TypeOK, NEW w \in Writers, NEW u \in Writers, u # w, Kept(u),
         Alone(u), allow_concurrent_write' = allow_concurrent_write,
         pc[w] # "idle" \/ allow_concurrent_write \/ (\A x \in Writers : pc[x] = "idle")
  PROVE  Alone(u)'
  BY DEF Alone, Kept

(***************************************************************************)
(* The steps of one writer.  Steps(w) is what must be shown of each: the   *)
(* shared part, and the writer's own part.                                 *)
(***************************************************************************)
Own(u) == Placed(u) /\ Owned(u) /\ Phase(u) /\ Alone(u)

\* A step that leaves the towers and the links alone.
LEMMA QuietStep ==
  ASSUME IInv, NEW w \in Writers, Call(w) \/ Work(w),
         UNCHANGED <<ptr, tower, nkey, nval, nheight, linked>>,
         height <= height', height' \in Int,
         pc[w] # "idle" \/ allow_concurrent_write \/ (\A x \in Writers : pc[x] = "idle"),
         Own(w)',
         Splicing(w)' => Splicing(w) /\ mine'[w] = mine[w]
  PROVE  IInv'
<1>1. TypeOK /\ TypeOK' /\ allow_concurrent_write' = allow_concurrent_write
  BY StepTypeOK, ModeStays DEF IInv, Next
<1>2. Grows
  BY <1>1, SharedReads DEF Grows
<1>3. LinkedNodes' /\ NoGap'
  <2>1. ASSUME NEW i \in Levels, NEW n \in linked[i] PROVE i <= height'
    BY <1>1, SharedReads DEF IInv, LinkedNodes
  <2>2. LinkedNodes'
    BY <2>1 DEF IInv, LinkedNodes
  <2>3. NoGap'
    BY DEF IInv, NoGap, Member, Below
  <2>4. QED
    BY <2>2, <2>3
<1>4. ASSUME NEW u \in Writers PROVE Own(u)'
  <2>1. CASE u = w
    BY <2>1
  <2>2. CASE u # w
    <3>1. Kept(u)
      BY <2>2, <1>1, OthersKept
    <3>2. Placed(u)'
      BY <1>1, <1>2, <3>1, PlacedStays DEF IInv
    <3>3. Owned(u)'
      BY <1>1, <1>2, <3>1, OwnedStays DEF IInv
    <3>4. Phase(u)'
      BY <1>1, <1>2, <3>1, PhaseStays DEF IInv
    <3>5. Alone(u)'
      BY <1>1, <2>2, <3>1, AloneStays DEF IInv
    <3>6. QED
      BY <3>2, <3>3, <3>4, <3>5 DEF Own
  <2>3. QED
    BY <2>1, <2>2
<1>5. Distinct'
  <2>1. \A u \in Writers : u # w => Kept(u)
    BY <1>1, OthersKept
  <2>2. ASSUME NEW u \in Writers, Splicing(u)' PROVE Splicing(u) /\ mine'[u] = mine[u]
    BY <2>1, <2>2 DEF Kept, Splicing
  <2>3. QED
    BY <2>2 DEF IInv, Distinct
<1>6. QED
  BY <1>1, <1>3, <1>4, <1>5 DEF IInv, Own

\* The step of w ends its put: nothing is left to show of its own part.
LEMMA ReturnOwn ==
  ASSUME TypeOK, NEW w \in Writers, NEW r, Return(w, r), r # "assert"
  PROVE  Own(w)' /\ ~Splicing(w)'
<1>1. pc'[w] = "idle" /\ result'[w] = r
  BY DEF Return, TypeOK
<1>2. QED
  BY <1>1 DEF Own, Placed, Owned, Phase, Alone, Searching, Splicing

LEMMA CallStep ==
  ASSUME IInv, NEW w \in Writers, Call(w)
  PROVE  IInv'
<1>1. PICK k \in Keys, v \in Values, h \in Levels : PutStart(w, k, v, h)
  BY DEF Call
<1>2. TypeOK /\ LinkedNodes /\ NoGap
  BY DEF IInv
<1>3. /\ pc'[w] = "search" /\ key'[w] = k /\ before'[w] = head
      /\ cur'[w] = height /\ lvl'[w] = height /\ result'[w] = "pending"
      /\ UNCHANGED shared
  BY <1>1, <1>2 DEF PutStart, TypeOK
<1>4. \A j \in Levels : height < j => prev'[w][j] = head /\ next'[w][j] = NULL
  <2>1. prev'[w] = [j \in 0 .. MAX_HEIGHT |-> IF j > height THEN head ELSE NULL]
    BY <1>1, <1>2 DEF PutStart, HeadAbove, TypeOK
  <2>2. next'[w] = NoSplice
    BY <1>1, <1>2 DEF PutStart, TypeOK
  <2>3. ASSUME NEW j \in Levels, height < j
        PROVE  prev'[w][j] = head /\ next'[w][j] = NULL
    <3>1. j \in 0 .. MAX_HEIGHT /\ j > height
      BY <2>3, <1>2, ConstantFacts, SharedReads
    <3>2. QED
      BY <2>1, <2>2, <3>1 DEF NoSplice
  <2>4. QED
    BY <2>3
<1>5. Placed(w)'
  BY <1>3, <1>4 DEF Placed, Searching, Member, Below, Brackets
<1>6. Owned(w)' /\ ~Splicing(w)'
  BY <1>3 DEF Owned, Splicing
<1>7. Phase(w)'
  BY <1>2, <1>3, SharedReads DEF Phase, shared
<1>8. Alone(w)'
  <2>1. ASSUME ~allow_concurrent_write, NEW u \in Writers, u # w
        PROVE  pc'[u] = "idle"
    BY <1>1, <1>2, <2>1 DEF PutStart, TypeOK
  <2>2. ASSUME NEW j \in Levels, height < j PROVE tower[head][j] = NULL
    <3>1. ~(j <= height)
      BY <1>2, <2>2, SharedReads
    <3>2. tower[head][j] # NULL => tower[head][j] \in linked[j]
      BY <1>2, ConstantFacts DEF NoGap, Member
    <3>3. QED
      BY <1>2, <3>1, <3>2 DEF LinkedNodes
  <2>3. QED
    BY <1>3, <1>4, <2>1, <2>2 DEF Alone, shared
<1>9. QED
  <2>1. Own(w)'
    BY <1>5, <1>6, <1>7, <1>8 DEF Own
  <2>2. height <= height' /\ height' \in Int
    BY <1>2, <1>3, SharedReads DEF shared
  <2>3. allow_concurrent_write \/ (\A x \in Writers : pc[x] = "idle")
    BY <1>1 DEF PutStart
  <2>4. QED
    BY <1>3, <1>6, <2>1, <2>2, <2>3, QuietStep DEF shared

LEMMA WalkOnStep ==
  ASSUME IInv, NEW w \in Writers, WalkOn(w)
  PROVE  IInv'
<1>1. TypeOK /\ LinkedNodes /\ NoGap /\ Placed(w) /\ Owned(w) /\ Phase(w) /\ Alone(w)
  BY DEF IInv
<1>2. /\ before'[w] = Succ(w)
      /\ UNCHANGED <<shared, pc, key, value, top, cur, lvl, prev, next, mine, result>>
  BY <1>1 DEF WalkOn, TypeOK
<1>3. Succ(w) \in linked[lvl[w]] /\ nkey[Succ(w)] < key[w]
  <2>1. Member(before[w], lvl[w]) /\ lvl[w] \in Levels /\ before[w] \in Offsets
    BY <1>1, LocalReads DEF WalkOn, Placed
  <2>2. QED
    BY <1>1, <2>1 DEF WalkOn, NoGap, Succ
<1>4. Placed(w)'
  BY <1>1, <1>2, <1>3 DEF Placed, Searching, Member, Below, Brackets, shared
<1>5. Owned(w)' /\ (Splicing(w)' => Splicing(w) /\ mine'[w] = mine[w])
  BY <1>1, <1>2 DEF Owned, Splicing, shared
<1>6. Phase(w)' /\ Alone(w)'
  BY <1>1, <1>2 DEF Phase, Alone, shared
<1>7. Own(w)' /\ pc[w] # "idle" /\ UNCHANGED shared
  BY <1>2, <1>4, <1>5, <1>6 DEF Own, WalkOn, Searching
<1>8. height <= height' /\ height' \in Int
  BY <1>1, <1>7, SharedReads DEF shared
<1>9. QED
  BY <1>1, <1>5, <1>7, <1>8, QuietStep DEF Work, shared

LEMMA FoundDuplicateStep ==
  ASSUME IInv, NEW w \in Writers, FoundDuplicate(w)
  PROVE  IInv'
<1>1. TypeOK /\ LinkedNodes /\ NoGap /\ Placed(w) /\ Owned(w)
  BY DEF IInv
<1>2. lvl[w] \in Levels /\ 0 \in Levels /\ before[w] \in Offsets /\ Levels \subseteq Int
  BY <1>1, LocalReads, ConstantFacts, SharedReads
<1>3. Succ(w) \in linked[lvl[w]] /\ nkey[Succ(w)] = key[w]
  BY <1>1, <1>2 DEF FoundDuplicate, Placed, NoGap, Succ
<1>4. ~(pc[w] = "research" /\ lvl[w] # 0)
  <2> SUFFICES ASSUME pc[w] = "research", lvl[w] # 0 PROVE FALSE
    OBVIOUS
  <2>1. 0 < lvl[w]
    BY <1>2, ConstantFacts DEF Levels
  <2>2. Succ(w) \in linked[0]
    BY <1>1, <1>2, <1>3, <2>1 DEF LinkedNodes
  <2>3. mine[w] \in linked[0] /\ mine[w] \notin linked[lvl[w]] /\ nkey[mine[w]] = key[w]
    <3>1. /\ nkey[mine[w]] = key[w]
          /\ \A j \in Levels : mine[w] \in linked[j] <=> j < lvl[w]
      BY <1>1 DEF Owned, Splicing
    <3>2. lvl[w] \in Int
      BY <1>2
    <3>3. ~(lvl[w] < lvl[w])
      BY <3>2
    <3>4. QED
      BY <1>2, <2>1, <3>1, <3>3
  <2>4. QED
    BY <1>1, <1>3, <2>2, <2>3 DEF LinkedNodes
<1>5. DuplicateResult(w) # "assert"
  BY <1>4 DEF DuplicateResult
<1>6. Return(w, DuplicateResult(w)) /\ UNCHANGED shared /\ pc[w] # "idle"
  BY DEF FoundDuplicate, Searching
<1>7. QED
  BY <1>1, <1>5, <1>6, ReturnOwn, SharedReads, QuietStep DEF Work, shared

LEMMA AllocPanicStep ==
  ASSUME IInv, NEW w \in Writers, AllocPanic(w)
  PROVE  IInv'
<1>1. TypeOK
  BY DEF IInv
<1>2. Return(w, "panic") /\ UNCHANGED shared /\ pc[w] # "idle"
  BY DEF AllocPanic
<1>3. QED
  BY <1>1, <1>2, ReturnOwn, SharedReads, QuietStep DEF Work, shared

LEMMA RaiseHeightStep ==
  ASSUME IInv, NEW w \in Writers, RaiseHeight(w)
  PROVE  IInv'
<1>1. TypeOK /\ LinkedNodes /\ NoGap /\ Placed(w) /\ Owned(w) /\ Phase(w) /\ Alone(w)
  BY DEF IInv
<1>2. /\ pc[w] = "raise" /\ pc'[w] = AfterHeight /\ height' = top[w]
      /\ UNCHANGED <<allow_concurrent_write, ptr, tower, nkey, nval, nheight, linked>>
      /\ UNCHANGED <<key, value, top, cur, lvl, before, prev, next, mine, result>>
  BY <1>1 DEF RaiseHeight, TypeOK
<1>3. height = cur[w]
  BY <1>1, <1>2 DEF RaiseHeight, Alone
<1>4. height \in Int /\ top[w] \in Int /\ height < top[w]
  BY <1>1, <1>2, <1>3, LocalReads, SharedReads DEF Owned, Splicing
<1>5. AfterHeight \in {"setnext", "backlink"}
  BY DEF AfterHeight
<1>6. Placed(w)'
  BY <1>1, <1>2, <1>5 DEF Placed, Searching, Member, Below, Brackets
<1>7. Owned(w)' /\ Splicing(w)
  BY <1>1, <1>2, <1>4, <1>5 DEF Owned, Splicing
<1>8. Phase(w)'
  BY <1>1, <1>2, <1>5 DEF Phase
<1>9. Alone(w)'
  <2>1. \A u \in Writers : u # w => pc'[u] = pc[u]
    BY <1>1 DEF RaiseHeight, TypeOK
  <2>2. QED
    BY <1>1, <1>2, <1>5, <2>1 DEF Alone
<1>10. Own(w)' /\ pc[w] # "idle" /\ height <= height' /\ height' \in Int
  BY <1>2, <1>4, <1>6, <1>7, <1>8, <1>9 DEF Own
<1>11. QED
  BY <1>2, <1>7, <1>10, QuietStep DEF Work

LEMMA RaiseRetryStep ==
  ASSUME IInv, NEW w \in Writers, RaiseRetry(w)
  PROVE  IInv'
<1>1. TypeOK /\ LinkedNodes /\ NoGap /\ Placed(w) /\ Owned(w) /\ Phase(w) /\ Alone(w)
  BY DEF IInv
<1>2. /\ pc[w] = "raise" /\ cur'[w] = height /\ allow_concurrent_write
      /\ pc'[w] = IF height < top[w] THEN "raise" ELSE AfterHeight
      /\ UNCHANGED shared
      /\ UNCHANGED <<key, value, top, lvl, before, prev, next, mine, result>>
  BY <1>1 DEF RaiseRetry, TypeOK
<1>3. height \in Int /\ top[w] \in Int
  BY <1>1, LocalReads, SharedReads
<1>4. AfterHeight = "setnext"
  BY <1>2 DEF AfterHeight
<1>5. Placed(w)'
  BY <1>1, <1>2, <1>4 DEF Placed, Searching, Member, Below, Brackets, shared
<1>6. Owned(w)' /\ Splicing(w)
  <2>1. CASE height < top[w]
    BY <1>1, <1>2, <1>3, <2>1 DEF Owned, Splicing, shared
  <2>2. CASE ~(height < top[w])
    BY <1>1, <1>2, <1>3, <1>4, <2>2 DEF Owned, Splicing, shared
  <2>3. QED
    BY <2>1, <2>2
<1>7. Phase(w)' /\ Alone(w)'
  BY <1>1, <1>2, <1>4 DEF Phase, Alone, shared
<1>8. Own(w)' /\ pc[w] # "idle" /\ height <= height' /\ height' \in Int
  BY <1>2, <1>3, <1>5, <1>6, <1>7 DEF Own, shared
<1>9. QED
  BY <1>2, <1>6, <1>8, QuietStep DEF Work, shared

LEMMA BackLinkStep ==
  ASSUME IInv, NEW w \in Writers, BackLink(w)
  PROVE  IInv'
<1>1. TypeOK /\ LinkedNodes /\ NoGap /\ Placed(w) /\ Owned(w) /\ Phase(w) /\ Alone(w)
  BY DEF IInv
<1>2. /\ pc[w] = "backlink" /\ pc'[w] = "setnext"
      /\ UNCHANGED <<allow_concurrent_write, height, ptr, tower, nkey, nval, nheight, linked>>
      /\ UNCHANGED <<key, value, top, cur, lvl, before, prev, next, mine, result>>
  BY <1>1 DEF BackLink, TypeOK
<1>3. Placed(w)'
  BY <1>1, <1>2 DEF Placed, Searching, Member, Below, Brackets
<1>4. Owned(w)' /\ Splicing(w)
  BY <1>1, <1>2 DEF Owned, Splicing
<1>5. Phase(w)'
  BY <1>1, <1>2 DEF Phase
<1>6. Alone(w)'
  <2>1. \A u \in Writers : u # w => pc'[u] = pc[u]
    BY <1>1 DEF BackLink, TypeOK
  <2>2. QED
    BY <1>1, <1>2, <2>1 DEF Alone
<1>7. Own(w)' /\ pc[w] # "idle" /\ height <= height' /\ height' \in Int
  BY <1>1, <1>2, <1>3, <1>4, <1>5, <1>6, SharedReads DEF Own
<1>8. QED
  BY <1>2, <1>4, <1>7, QuietStep DEF Work

LEMMA LinkFailStep ==
  ASSUME IInv, NEW w \in Writers, LinkFail(w)
  PROVE  IInv'
<1>1. TypeOK /\ LinkedNodes /\ NoGap /\ Placed(w) /\ Owned(w) /\ Phase(w) /\ Alone(w)
  BY DEF IInv
<1>2. /\ pc[w] = "link" /\ pc'[w] = "research" /\ before'[w] = prev[w][lvl[w]]
      /\ allow_concurrent_write
      /\ UNCHANGED shared
      /\ UNCHANGED <<key, value, top, cur, lvl, prev, next, mine, result>>
  BY <1>1 DEF LinkFail, CanLink, TypeOK
<1>3. Member(prev[w][lvl[w]], lvl[w]) /\ Below(prev[w][lvl[w]], key[w])
  <2>1. lvl[w] \in Levels /\ lvl[w] <= lvl[w]
    BY <1>1, LocalReads, SharedReads
  <2>2. QED
    BY <1>1, <1>2, <2>1 DEF Placed, Brackets
<1>4. Placed(w)'
  BY <1>1, <1>2, <1>3 DEF Placed, Searching, Member, Below, Brackets, shared
<1>5. Owned(w)' /\ Splicing(w)
  BY <1>1, <1>2 DEF Owned, Splicing, shared
<1>6. Phase(w)' /\ Alone(w)'
  BY <1>1, <1>2 DEF Phase, Alone, shared
<1>7. Own(w)' /\ pc[w] # "idle" /\ height <= height' /\ height' \in Int
  BY <1>1, <1>2, <1>4, <1>5, <1>6, SharedReads DEF Own, shared
<1>8. QED
  BY <1>2, <1>5, <1>7, QuietStep DEF Work, shared

LEMMA FoundSpliceStep ==
  ASSUME IInv, NEW w \in Writers, FoundSplice(w)
  PROVE  IInv'
<1>1. TypeOK /\ LinkedNodes /\ NoGap /\ Placed(w) /\ Owned(w) /\ Phase(w) /\ Alone(w)
  BY DEF IInv
<1>2. lvl[w] \in Levels /\ Levels \subseteq Int /\ before[w] \in Offsets
      /\ Levels \subseteq 0 .. MAX_HEIGHT
  BY <1>1, LocalReads, SharedReads, ConstantFacts
<1>3. Brackets(before[w], Succ(w), key[w], lvl[w])
  <2>1. Member(before[w], lvl[w]) /\ Below(before[w], key[w])
    BY <1>1 DEF FoundSplice, Placed
  <2>2. Succ(w) # NULL => Succ(w) \in linked[lvl[w]]
    BY <1>1, <1>2, <2>1 DEF NoGap, Succ
  <2>3. Succ(w) # NULL => key[w] < nkey[Succ(w)]
    BY DEF FoundSplice
  <2>4. QED
    BY <2>1, <2>2, <2>3 DEF Brackets
<1>4. /\ prev'[w][lvl[w]] = before[w] /\ next'[w][lvl[w]] = Succ(w)
      /\ \A j \in Levels : j # lvl[w] =>
           prev'[w][j] = prev[w][j] /\ next'[w][j] = next[w][j]
  <2>1. prev[w] \in [0 .. MAX_HEIGHT -> Offsets] /\ next[w] \in [0 .. MAX_HEIGHT -> Offsets]
    BY <1>1 DEF TypeOK
  <2>2. /\ prev'[w] = [prev[w] EXCEPT ![lvl[w]] = before[w]]
        /\ next'[w] = [next[w] EXCEPT ![lvl[w]] = Succ(w)]
    BY <1>1 DEF FoundSplice, TypeOK
  <2>3. QED
    BY <1>2, <2>1, <2>2
<1>5. /\ UNCHANGED shared
      /\ UNCHANGED <<key, value, top, cur, before, mine, result>>
      /\ \A u \in Writers : u # w => pc'[u] = pc[u]
  BY <1>1 DEF FoundSplice, TypeOK
<1>6. \A j \in Levels : (pc[w] = "search" => lvl[w] <= j) /\ lvl[w] <= j =>
        Brackets(prev'[w][j], next'[w][j], key[w], j)
  <2> SUFFICES ASSUME NEW j \in Levels, lvl[w] <= j
               PROVE  Brackets(prev'[w][j], next'[w][j], key[w], j)
    OBVIOUS
  <2>1. CASE j = lvl[w]
    BY <2>1, <1>3, <1>4
  <2>2. CASE j # lvl[w]
    <3>1. lvl[w] < j
      BY <1>2, <2>2
    <3>2. Brackets(prev[w][j], next[w][j], key[w], j)
      BY <1>1, <3>1 DEF Placed, FoundSplice, Searching
    <3>3. QED
      BY <3>2, <2>2, <1>4
  <2>3. QED
    BY <2>1, <2>2
<1>7. \A j \in Levels : lvl[w] <= j /\ ~allow_concurrent_write =>
        tower[prev'[w][j]][j] = next'[w][j]
  <2> SUFFICES ASSUME NEW j \in Levels, lvl[w] <= j, ~allow_concurrent_write
               PROVE  tower[prev'[w][j]][j] = next'[w][j]
    OBVIOUS
  <2>1. CASE j = lvl[w]
    BY <2>1, <1>4 DEF Succ
  <2>2. CASE j # lvl[w]
    <3>1. lvl[w] < j
      BY <1>2, <2>2
    <3>2. tower[prev[w][j]][j] = next[w][j]
      BY <1>1, <3>1 DEF Alone, FoundSplice, Searching
    <3>3. QED
      BY <3>2, <2>2, <1>4
  <2>3. QED
    BY <2>1, <2>2
<1>8. CASE pc[w] = "search" /\ lvl[w] > 0
  <2>1. pc'[w] = "search" /\ lvl'[w] = lvl[w] - 1
    <3>1. pc' = pc /\ lvl' = [lvl EXCEPT ![w] = @ - 1]
      <4>1. ~(lvl[w] = 0) /\ pc[w] # "research"
        BY <1>8
      <4>2. QED
        BY <4>1 DEF FoundSplice
    <3>2. QED
      BY <3>1, <1>1, <1>8 DEF TypeOK
  <2>2. /\ lvl[w] - 1 \in Levels /\ lvl[w] - 1 < lvl[w]
        /\ \A j \in Levels : lvl[w] - 1 < j => lvl[w] <= j
    BY <1>8, <1>2, ConstantFacts DEF Levels
  <2>3. Member(before[w], lvl[w] - 1) /\ Below(before[w], key[w])
    <3>1. Member(before[w], lvl[w]) /\ Below(before[w], key[w])
      BY <1>3 DEF Brackets
    <3>2. \A j \in Levels : j < lvl[w] => Member(before[w], j)
      BY <1>1, <1>2, <3>1, MembersAreNodes
    <3>3. QED
      BY <2>2, <3>1, <3>2
  <2>4. Placed(w)'
    BY <1>5, <1>6, <2>1, <2>2, <2>3 DEF Placed, Searching, Member, Below, Brackets, shared
  <2>5. Owned(w)' /\ ~Splicing(w)'
    BY <2>1 DEF Owned, Splicing
  <2>6. Phase(w)'
    <3>1. cur[w] \in Int /\ lvl[w] \in Int
      BY <1>1, LocalReads, SharedReads
    <3>2. lvl[w] <= cur[w] /\ cur[w] <= height /\ result[w] # "assert"
      BY <1>1, <1>8 DEF Phase
    <3>3. lvl[w] - 1 <= cur[w]
      BY <3>1, <3>2
    <3>4. QED
      BY <1>5, <2>1, <3>2, <3>3 DEF Phase, shared
  <2>7. Alone(w)'
    BY <1>1, <1>5, <1>7, <1>8, <2>1, <2>2 DEF Alone, shared
  <2>8. Own(w)'
    BY <2>4, <2>5, <2>6, <2>7 DEF Own
  <2>9. QED
    BY <1>1, <1>5, <1>8, <2>5, <2>8, SharedReads, QuietStep DEF Work, shared
<1>9. CASE pc[w] = "search" /\ lvl[w] = 0
  <2>1. pc'[w] = "alloc" /\ lvl'[w] = lvl[w]
    BY <1>9, <1>1 DEF FoundSplice, TypeOK
  <2>2. Placed(w)'
    BY <1>5, <1>6, <1>9, <2>1 DEF Placed, Searching, Member, Below, Brackets, shared
  <2>3. Owned(w)' /\ ~Splicing(w)'
    BY <2>1 DEF Owned, Splicing
  <2>4. Phase(w)'
    BY <1>1, <1>5, <1>9, <2>1 DEF Phase, shared
  <2>5. Alone(w)'
    BY <1>1, <1>5, <1>7, <1>9, <2>1 DEF Alone, shared
  <2>6. Own(w)'
    BY <2>2, <2>3, <2>4, <2>5 DEF Own
  <2>7. QED
    BY <1>1, <1>5, <1>9, <2>3, <2>6, SharedReads, QuietStep DEF Work, shared
<1>10. CASE pc[w] = "research"
  <2>1. pc'[w] = "setnext" /\ lvl'[w] = lvl[w] /\ allow_concurrent_write
    BY <1>10, <1>1 DEF FoundSplice, TypeOK, Phase
  <2>2. Placed(w)'
    BY <1>5, <1>6, <1>10, <2>1 DEF Placed, Searching, Member, Below, Brackets, shared
  <2>3. Owned(w)' /\ Splicing(w)
    BY <1>1, <1>5, <1>10, <2>1 DEF Owned, Splicing, shared
  <2>4. Phase(w)' /\ Alone(w)'
    BY <1>1, <1>5, <2>1 DEF Phase, Alone, shared
  <2>5. Own(w)'
    BY <2>2, <2>3, <2>4 DEF Own
  <2>6. QED
    BY <1>1, <1>5, <1>10, <2>3, <2>5, SharedReads, QuietStep DEF Work, shared
<1>11. QED
  BY <1>8, <1>9, <1>10 DEF FoundSplice

\* A step of w that writes the arena or links a node.
LEMMA BusyStep ==
  ASSUME IInv, NEW w \in Writers, Work(w), pc[w] # "idle", Grows,
         LinkedNodes', NoGap', Own(w)', Distinct',
         \A u \in Writers : u # w /\ Splicing(u) =>
           /\ \A j \in Levels : mine[u] \in linked'[j] <=> mine[u] \in linked[j]
           /\ tower'[mine[u]][lvl[u]] = tower[mine[u]][lvl[u]]
  PROVE  IInv'
<1>1. TypeOK /\ TypeOK' /\ LinkedNodes /\ allow_concurrent_write' = allow_concurrent_write
  BY StepTypeOK, ModeStays DEF IInv, Next
<1>2. ASSUME NEW u \in Writers, u # w PROVE Own(u)'
  <2>1. Placed(u) /\ Owned(u) /\ Phase(u) /\ Alone(u)
    BY DEF IInv
  <2>2. Kept(u)
    BY <1>1, <1>2, OthersKept
  <2>3. Placed(u)'
    BY <1>1, <2>1, <2>2, PlacedStays
  <2>4. Owned(u)'
    BY <1>1, <1>2, <2>1, <2>2, OwnedStays
  <2>5. Phase(u)'
    BY <1>1, <2>1, <2>2, PhaseStays
  <2>6. Alone(u)'
    BY <1>1, <1>2, <2>1, <2>2, AloneStays
  <2>7. QED
    BY <2>3, <2>4, <2>5, <2>6 DEF Own
<1>3. QED
  BY <1>1, <1>2 DEF IInv, Own

LEMMA SetNextStep ==
  ASSUME IInv, NEW w \in Writers, SetNext(w)
  PROVE  IInv'
<1>1. TypeOK /\ LinkedNodes /\ NoGap /\ Placed(w) /\ Owned(w) /\ Phase(w) /\ Alone(w)
      /\ Distinct
  BY DEF IInv
<1>2. /\ pc[w] = "setnext" /\ pc'[w] = "link"
      /\ tower' = [tower EXCEPT ![mine[w]][lvl[w]] = next[w][lvl[w]]]
      /\ UNCHANGED <<allow_concurrent_write, height, ptr, nkey, nval, nheight, linked>>
      /\ UNCHANGED <<key, value, top, cur, lvl, before, prev, next, mine, result>>
      /\ \A u \in Writers : u # w => pc'[u] = pc[u]
  <2>1. pc' = [pc EXCEPT ![w] = "link"]
    BY DEF SetNext
  <2>2. pc'[w] = "link" /\ \A u \in Writers : u # w => pc'[u] = pc[u]
    BY <1>1, <2>1 DEF TypeOK
  <2>3. QED
    BY <2>2 DEF SetNext
<1>3. Splicing(w)
  BY <1>2 DEF Splicing
<1>4. mine[w] \in Offsets /\ lvl[w] \in Levels /\ lvl[w] \in Int /\ Levels \subseteq Int
  BY <1>1, LocalReads, SharedReads
<1>5. /\ tower'[mine[w]][lvl[w]] = next[w][lvl[w]]
      /\ \A n \in Offsets, i \in Levels :
           n # mine[w] \/ i # lvl[w] => tower'[n][i] = tower[n][i]
  <2>1. tower' = [tower EXCEPT ![mine[w]][lvl[w]] = next[w][lvl[w]]]
    BY <1>2
  <2>2. tower \in [Offsets -> [Levels -> Offsets]]
    BY <1>1 DEF TypeOK
  <2>3. QED
    BY <1>4, <2>1, <2>2
<1>6. mine[w] # head /\ (\A j \in Levels : lvl[w] <= j => mine[w] \notin linked[j])
  <2>1. head < mine[w] /\ (\A j \in Levels : mine[w] \in linked[j] <=> j < lvl[w])
    BY <1>1, <1>3 DEF Owned
  <2>2. ASSUME NEW j \in Levels, lvl[w] <= j PROVE ~(j < lvl[w])
    <3>1. j \in Int
      BY <1>4
    <3>2. QED
      BY <1>4, <2>2, <3>1
  <2>3. mine[w] # head
    BY <2>1 DEF head
  <2>4. QED
    BY <2>1, <2>2, <2>3
<1>7. ASSUME NEW i \in Levels, NEW n \in Offsets, Member(n, i)
      PROVE  tower'[n][i] = tower[n][i]
  <2>1. n # mine[w] \/ i # lvl[w]
    BY <1>4, <1>6, <1>7 DEF Member
  <2>2. QED
    BY <1>5, <2>1
<1>8. Grows
  BY <1>1, <1>2, SharedReads DEF Grows
<1>9. LinkedNodes'
  BY <1>1, <1>2 DEF LinkedNodes
<1>10. NoGap'
  <2> SUFFICES ASSUME NEW i \in Levels, NEW n \in Offsets, Member(n, i)'
               PROVE  /\ tower'[n][i] # NULL =>
                           tower'[n][i] \in linked'[i] /\ Below(n, nkey[tower[n][i]])'
                      /\ \A m \in linked'[i] : Below(n, nkey[m])' =>
                           tower'[n][i] # NULL /\ nkey'[tower'[n][i]] <= nkey'[m]
    BY DEF NoGap
  <2>1. Member(n, i) /\ tower'[n][i] = tower[n][i]
    BY <1>2, <1>7 DEF Member
  <2>2. QED
    BY <1>1, <1>2, <2>1 DEF NoGap, Below
<1>11. Own(w)'
  <2>1. Placed(w)'
    BY <1>1, <1>2 DEF Placed, Searching, Member, Below, Brackets
  <2>2. Owned(w)'
    BY <1>1, <1>2, <1>3, <1>5 DEF Owned
  <2>3. Phase(w)'
    BY <1>1, <1>2 DEF Phase
  <2>4. Alone(w)'
    <3>1. ASSUME ~allow_concurrent_write, NEW j \in Levels, lvl[w] <= j
          PROVE  tower'[prev[w][j]][j] = next[w][j]
      <4>1. tower[prev[w][j]][j] = next[w][j]
        BY <1>1, <1>2, <3>1 DEF Alone
      <4>2. Member(prev[w][j], j)
        BY <1>1, <1>2, <3>1 DEF Placed, Brackets
      <4>3. prev[w][j] \in Offsets
        BY <1>1, LocalReads
      <4>4. QED
        BY <1>7, <4>1, <4>2, <4>3
    <3>2. QED
      BY <1>1, <1>2, <3>1 DEF Alone
  <2>5. QED
    BY <2>1, <2>2, <2>3, <2>4 DEF Own
<1>12. Distinct'
  BY <1>1, <1>2, <1>3 DEF Distinct, Splicing
<1>13. ASSUME NEW u \in Writers, u # w, Splicing(u)
       PROVE  tower'[mine[u]][lvl[u]] = tower[mine[u]][lvl[u]]
  <2>1. mine[u] # mine[w]
    BY <1>1, <1>3, <1>13 DEF Distinct
  <2>2. QED
    BY <1>1, <1>5, <2>1, LocalReads
<1>14. Work(w) /\ pc[w] # "idle"
  BY <1>2 DEF Work
<1>15. QED
  BY <1>2, <1>8, <1>9, <1>10, <1>11, <1>12, <1>13, <1>14, BusyStep

LEMMA AllocNodeStep ==
  ASSUME IInv, NEW w \in Writers, AllocNode(w)
  PROVE  IInv'
<1>1. TypeOK /\ LinkedNodes /\ NoGap /\ Placed(w) /\ Owned(w) /\ Phase(w) /\ Alone(w)
      /\ Distinct
  BY DEF IInv
<1>2. /\ ptr \in Int /\ top[w] \in Int /\ 0 <= top[w] /\ head < ptr /\ ptr \in Offsets
      /\ height \in Int /\ cur[w] \in Int /\ lvl[w] \in Levels
      /\ ptr' = ptr + NodeSize(top[w]) /\ ptr' \in Int /\ ptr < ptr'
  <2>1. ptr \in Int /\ top[w] \in Int /\ 0 <= top[w] /\ head < ptr
    BY <1>1, LocalReads, SharedReads, ConstantFacts DEF Levels
  <2>2. ptr' = ptr + NodeSize(top[w]) /\ ptr' \in Int /\ ptr < ptr'
    BY <2>1 DEF AllocNode, NodeSize
  <2>3. ptr \in Offsets
    BY <2>1, <2>2, ConstantFacts DEF AllocNode, Fits, NodeSize, Offsets, head
  <2>4. QED
    BY <1>1, <2>1, <2>2, <2>3, LocalReads, SharedReads
<1>3. /\ pc[w] = "alloc" /\ mine'[w] = ptr
      /\ nkey'[ptr] = key[w] /\ nval'[ptr] = value[w] /\ nheight'[ptr] = top[w]
      /\ UNCHANGED <<allow_concurrent_write, height, linked>>
      /\ UNCHANGED <<key, value, top, cur, lvl, before, prev, next, result>>
  BY <1>1, <1>2 DEF AllocNode, TypeOK
<1>4. \A n \in Offsets : n # ptr =>
        /\ nkey'[n] = nkey[n] /\ nval'[n] = nval[n] /\ nheight'[n] = nheight[n]
        /\ tower'[n] = tower[n]
  BY <1>1 DEF AllocNode, TypeOK
<1>5. /\ pc'[w] = IF top[w] > cur[w] THEN "raise" ELSE AfterHeight
      /\ \A u \in Writers : u # w => pc'[u] = pc[u] /\ mine'[u] = mine[u]
  BY <1>1 DEF AllocNode, TypeOK
<1>6. AfterHeight \in {"setnext", "backlink"}
  BY DEF AfterHeight
<1>7. pc'[w] \in {"raise", "setnext", "backlink"}
  BY <1>5, <1>6
<1>8. ASSUME NEW i \in Levels, NEW n, Member(n, i)
      PROVE  n \in Offsets /\ n # ptr
  BY <1>1, <1>2, <1>8, MembersAreNodes
<1>9. Grows
  <2>1. ASSUME NEW n \in Offsets, n < ptr PROVE n # ptr
    BY <1>2, <2>1
  <2>2. QED
    BY <1>2, <1>3, <1>4, <2>1 DEF Grows
<1>10. ASSUME NEW i \in Levels, NEW n, Member(n, i)
       PROVE  nkey'[n] = nkey[n] /\ tower'[n][i] = tower[n][i] /\ nheight'[n] = nheight[n]
  BY <1>4, <1>8, <1>10
<1>11. LinkedNodes'
  <2>1. ASSUME NEW i \in Levels, NEW n \in linked'[i]
        PROVE  /\ head < n /\ n < ptr'
               /\ i <= nheight'[n] /\ i <= height'
               /\ \A j \in Levels : j < i => n \in linked'[j]
    <3>1. n \in linked[i] /\ nheight'[n] = nheight[n]
      BY <1>3, <1>10 DEF Member
    <3>2. n \in Int /\ head < n /\ n < ptr
      BY <1>1, <3>1, SharedReads DEF LinkedNodes
    <3>3. n < ptr'
      BY <1>2, <3>2
    <3>4. QED
      BY <1>1, <1>3, <3>1, <3>2, <3>3 DEF LinkedNodes
  <2>2. ASSUME NEW m \in linked'[0], NEW n \in linked'[0], nkey'[m] = nkey'[n]
        PROVE  m = n
    BY <1>1, <1>3, <1>10, <2>2, ConstantFacts DEF LinkedNodes, Member
  <2>3. nheight'[head] = MAX_HEIGHT - 1
    BY <1>1, <1>2, <1>4, ConstantFacts DEF LinkedNodes, head
  <2>4. QED
    BY <2>1, <2>2, <2>3 DEF LinkedNodes
<1>12. NoGap'
  <2> SUFFICES ASSUME NEW i \in Levels, NEW n \in Offsets, Member(n, i)'
               PROVE  /\ tower'[n][i] # NULL =>
                           tower'[n][i] \in linked'[i] /\ Below(n, nkey[tower[n][i]])'
                      /\ \A m \in linked'[i] : Below(n, nkey[m])' =>
                           tower'[n][i] # NULL /\ nkey'[tower'[n][i]] <= nkey'[m]
    BY DEF NoGap
  <2>1. Member(n, i)
    BY <1>3 DEF Member
  <2>2. tower'[n][i] = tower[n][i] /\ nkey'[n] = nkey[n]
    BY <1>10, <2>1
  <2>3. \A m \in linked[i] : nkey'[m] = nkey[m]
    BY <1>10 DEF Member
  <2>4. tower[n][i] # NULL => tower[n][i] \in linked[i] /\ Below(n, nkey[tower[n][i]])
    BY <1>1, <2>1 DEF NoGap
  <2>5. \A m \in linked[i] : Below(n, nkey[m]) =>
          tower[n][i] # NULL /\ nkey[tower[n][i]] <= nkey[m]
    BY <1>1, <2>1 DEF NoGap
  <2>6. QED
    BY <1>3, <2>2, <2>3, <2>4, <2>5 DEF Below
<1>13. Placed(w)'
  <2>1. ASSUME NEW j \in Levels, lvl[w] <= j
        PROVE  Brackets(prev[w][j], next[w][j], key[w], j)'
    <3>1. Brackets(prev[w][j], next[w][j], key[w], j)
      BY <1>1, <1>3, <2>1 DEF Placed
    <3>2. next[w][j] # NULL => nkey'[next[w][j]] = nkey[next[w][j]]
      BY <1>10, <3>1 DEF Brackets, Member
    <3>3. nkey'[prev[w][j]] = nkey[prev[w][j]]
      BY <1>10, <3>1 DEF Brackets
    <3>4. QED
      BY <1>3, <3>1, <3>2, <3>3 DEF Brackets, Member, Below
  <2>2. QED
    BY <1>3, <1>7, <2>1 DEF Placed, Searching
<1>14. Owned(w)'
  <2>1. lvl[w] = 0 /\ cur[w] <= height
    BY <1>1, <1>3 DEF Phase
  <2>2. ASSUME NEW j \in Levels PROVE (ptr \in linked[j]) <=> j < 0
    <3>1. ~(j < 0)
      BY ConstantFacts DEF Levels
    <3>2. ptr \notin linked[j]
      BY <1>8 DEF Member
    <3>3. QED
      BY <3>1, <3>2
  <2>3. pc'[w] = "raise" => cur[w] < top[w]
    BY <1>2, <1>5, <1>6
  <2>4. pc'[w] # "raise" => top[w] <= height
    BY <1>2, <1>5, <2>1
  <2>5. pc'[w] # "link"
    BY <1>7
  <2>6. QED
    BY <1>2, <1>3, <2>1, <2>2, <2>3, <2>4, <2>5 DEF Owned
<1>15. Phase(w)'
  BY <1>1, <1>3, <1>7 DEF Phase
<1>16. Alone(w)'
  <2>1. ASSUME ~allow_concurrent_write, NEW j \in Levels, lvl[w] <= j
        PROVE  tower'[prev[w][j]][j] = next[w][j]
    <3>1. tower[prev[w][j]][j] = next[w][j]
      BY <1>1, <1>3, <2>1 DEF Alone
    <3>2. Member(prev[w][j], j)
      BY <1>1, <1>3, <2>1 DEF Placed, Brackets
    <3>3. QED
      BY <1>10, <3>1, <3>2
  <2>2. QED
    BY <1>1, <1>3, <1>5, <1>7, <2>1 DEF Alone
<1>17. Distinct'
  <2>1. ASSUME NEW u \in Writers, u # w, Splicing(u)
        PROVE  mine[u] # ptr
    BY <1>1, <1>2, <2>1, LocalReads, SharedReads DEF IInv, Owned
  <2>2. \A u \in Writers : u # w => mine'[u] = mine[u] /\ Splicing(u)' = Splicing(u)
    BY <1>5 DEF Splicing
  <2>3. QED
    BY <1>1, <1>3, <2>1, <2>2 DEF Distinct
<1>18. ASSUME NEW u \in Writers, u # w, Splicing(u)
       PROVE  tower'[mine[u]][lvl[u]] = tower[mine[u]][lvl[u]]
  <2>1. mine[u] # ptr /\ mine[u] \in Offsets
    BY <1>1, <1>2, <1>18, LocalReads, SharedReads DEF IInv, Owned
  <2>2. QED
    BY <1>4, <2>1
<1>19. Own(w)' /\ Work(w) /\ pc[w] # "idle"
  BY <1>3, <1>13, <1>14, <1>15, <1>16 DEF Own, Work
<1>20. QED
  BY <1>3, <1>9, <1>11, <1>12, <1>17, <1>18, <1>19, BusyStep

(***************************************************************************)
(* The linking step.  LinkFacts is the situation in which put's CAS (or    *)
(* store) on prev[i] succeeds; the lemmas after it show that the new node  *)
(* then goes exactly where it belongs.                                     *)
(***************************************************************************)
LinkFacts(w, i, p, n, m) ==
  /\ i \in Levels /\ i \in Int /\ p \in Offsets /\ m \in Offsets
  /\ i = lvl[w] /\ p = prev[w][i] /\ m = mine[w]
  /\ n = tower[p][i]
  /\ Brackets(p, n, key[w], i)
  /\ head < m /\ m < ptr /\ nkey[m] = key[w] /\ i <= nheight[m] /\ i <= height
  /\ m # head /\ p # m
  /\ \A j \in Levels : m \in linked[j] <=> j < i
  /\ tower[m][i] = n
  /\ tower'[p][i] = m
  /\ \A x \in Offsets, j \in Levels :
       x # p \/ j # i => tower'[x][j] = tower[x][j]
  /\ linked'[i] = linked[i] \cup {m}
  /\ \A j \in Levels : j # i => linked'[j] = linked[j]
  /\ UNCHANGED <<height, ptr, back, nkey, nval, nheight>>

LEMMA LinkSituation ==
  ASSUME IInv, NEW w \in Writers, Link(w)
  PROVE  LinkFacts(w, lvl[w], prev[w][lvl[w]], next[w][lvl[w]], mine[w])
<1> DEFINE i == lvl[w]
           p == prev[w][i]
           n == next[w][i]
           m == mine[w]
<1>1. TypeOK /\ LinkedNodes /\ Placed(w) /\ Owned(w) /\ Phase(w) /\ Alone(w)
  BY DEF IInv
<1>2. i \in Levels /\ i \in Int /\ p \in Offsets /\ m \in Offsets /\ i <= i
  BY <1>1, LocalReads, SharedReads
<1>3. pc[w] = "link" /\ Splicing(w)
  BY DEF Link, Splicing
<1>4. n = tower[p][i]
  <2>1. CASE allow_concurrent_write
    BY <2>1 DEF Link, CanLink
  <2>2. CASE ~allow_concurrent_write
    BY <1>1, <1>2, <1>3, <2>2 DEF Alone
  <2>3. QED
    BY <2>1, <2>2
<1>5. Brackets(p, n, key[w], i)
  BY <1>1, <1>2, <1>3 DEF Placed
<1>6. /\ head < m /\ m < ptr /\ nkey[m] = key[w] /\ nheight[m] = top[w]
      /\ i <= top[w] /\ top[w] <= height
      /\ \A j \in Levels : m \in linked[j] <=> j < i
      /\ tower[m][i] = n
  BY <1>1, <1>3 DEF Owned
<1>7. i <= height
  <2>1. top[w] \in Int /\ height \in Int
    BY <1>1, LocalReads, SharedReads
  <2>2. QED
    BY <1>2, <1>6, <2>1
<1>8. m # head /\ p # m
  <2>1. m # head
    BY <1>6 DEF head
  <2>2. ~(i < i)
    BY <1>2
  <2>3. m \notin linked[i]
    BY <1>2, <1>6, <2>2
  <2>4. QED
    BY <1>5, <2>1, <2>3 DEF Brackets, Member
<1>9. /\ tower' = [tower EXCEPT ![p][i] = m]
      /\ linked' = [linked EXCEPT ![i] = @ \cup {m}]
      /\ UNCHANGED <<height, ptr, back, nkey, nval, nheight>>
  BY DEF Link
<1>10. /\ tower'[p][i] = m
       /\ \A x \in Offsets, j \in Levels :
            x # p \/ j # i => tower'[x][j] = tower[x][j]
  <2>1. tower \in [Offsets -> [Levels -> Offsets]]
    BY <1>1 DEF TypeOK
  <2>2. QED
    BY <1>2, <1>9, <2>1
<1>11. /\ linked'[i] = linked[i] \cup {m}
       /\ \A j \in Levels : j # i => linked'[j] = linked[j]
  <2>1. linked \in [Levels -> SUBSET Offsets]
    BY <1>1 DEF TypeOK
  <2>2. QED
    BY <1>2, <1>9, <2>1
<1>12. QED
  BY <1>2, <1>4, <1>5, <1>6, <1>7, <1>8, <1>9, <1>10, <1>11 DEF LinkFacts

LEMMA LinkKeepsLinkedNodes ==
  ASSUME TypeOK, LinkedNodes, NoGap, NEW w \in Writers,
         NEW i, NEW p, NEW n, NEW m, LinkFacts(w, i, p, n, m)
  PROVE  LinkedNodes'
<1>1. ASSUME NEW j \in Levels, NEW x \in linked'[j]
      PROVE  /\ head < x /\ x < ptr'
             /\ j <= nheight'[x] /\ j <= height'
             /\ \A l \in Levels : l < j => x \in linked'[l]
  <2>1. CASE x \in linked[j]
    <3>1. \A l \in Levels : linked[l] \subseteq linked'[l]
      BY DEF LinkFacts
    <3>2. QED
      BY <2>1, <3>1 DEF LinkedNodes, LinkFacts
  <2>2. CASE x \notin linked[j]
    <3>1. j = i /\ x = m
      BY <2>2 DEF LinkFacts
    <3>2. ASSUME NEW l \in Levels, l < i PROVE m \in linked'[l]
      <4>1. l # i
        BY <3>2 DEF LinkFacts
      <4>2. QED
        BY <3>2, <4>1 DEF LinkFacts
    <3>3. QED
      BY <3>1, <3>2 DEF LinkFacts
  <2>3. QED
    BY <2>1, <2>2
<1>2. ASSUME NEW x \in linked'[0], NEW y \in linked'[0], nkey'[x] = nkey'[y]
      PROVE  x = y
  <2>1. nkey[x] = nkey[y]
    BY <1>2 DEF LinkFacts
  <2>2. CASE i # 0
    BY <2>1, <2>2, ConstantFacts DEF LinkFacts, LinkedNodes
  <2>3. CASE i = 0
    <3>1. ASSUME NEW z \in linked[0] PROVE nkey[z] # nkey[m]
      <4> SUFFICES ASSUME nkey[z] = nkey[m] PROVE FALSE
        OBVIOUS
      <4>1. Member(p, 0) /\ Below(p, nkey[z]) /\ p \in Offsets /\ 0 \in Levels
        BY <2>3 DEF LinkFacts, Brackets
      <4>2. n # NULL /\ nkey[n] <= nkey[z]
        BY <4>1, <2>3 DEF NoGap, LinkFacts
      <4>3. n \in linked[0] /\ nkey[z] < nkey[n]
        BY <4>2, <2>3 DEF LinkFacts, Brackets
      <4>4. nkey[n] \in Int /\ nkey[z] \in Int
        BY <4>1, <4>3, SharedReads
      <4>5. QED
        BY <4>2, <4>3, <4>4
    <3>2. linked'[0] = linked[0] \cup {m}
      BY <2>3 DEF LinkFacts
    <3>3. QED
      BY <2>1, <3>1, <3>2 DEF LinkedNodes
  <2>4. QED
    BY <2>2, <2>3
<1>3. QED
  BY <1>1, <1>2 DEF LinkedNodes, LinkFacts

\* Where the key goes on level i, the next linked node is n: nothing lies
\* between p and the key, and n is what follows the key.
LEMMA KeyBetween ==
  ASSUME TypeOK, LinkedNodes, NoGap, NEW w \in Writers,
         NEW i, NEW p, NEW n, NEW m, LinkFacts(w, i, p, n, m),
         NEW x \in linked[i]
  PROVE  /\ key[w] < nkey[x] => n # NULL /\ nkey[n] <= nkey[x]
         /\ ~(key[w] < nkey[x]) => nkey[x] < key[w]
         /\ nkey[x] < key[w] => ~(Below(p, nkey[x]))
<1>1. /\ i \in Levels /\ p \in Offsets /\ Member(p, i) /\ Below(p, key[w])
      /\ n = tower[p][i] /\ (n # NULL => n \in linked[i] /\ key[w] < nkey[n])
  BY DEF LinkFacts, Brackets
<1>2. x \in Offsets /\ nkey[x] \in Int /\ key[w] \in Int /\ nkey[p] \in Int
      /\ \A y \in linked[i] : nkey[y] \in Int
  BY <1>1, SharedReads, LocalReads, ConstantFacts
<1>3. Below(p, nkey[x]) => n # NULL /\ nkey[n] <= nkey[x]
  BY <1>1 DEF NoGap
<1>4. key[w] < nkey[x] \/ key[w] = nkey[x] => Below(p, nkey[x])
  BY <1>1, <1>2 DEF Below
<1>5. n # NULL => nkey[n] \in Int
  BY <1>1, <1>2
<1>6. Below(p, nkey[x]) => key[w] < nkey[x]
  BY <1>1, <1>2, <1>3, <1>5
<1>7. QED
  BY <1>2, <1>3, <1>4, <1>6

LEMMA LinkKeepsNoGap ==
  ASSUME TypeOK, LinkedNodes, NoGap, NEW w \in Writers,
         NEW i, NEW p, NEW n, NEW m, LinkFacts(w, i, p, n, m)
  PROVE  NoGap'
<1> SUFFICES ASSUME NEW j \in Levels, NEW x \in Offsets, Member(x, j)'
             PROVE  /\ tower'[x][j] # NULL =>
                         tower'[x][j] \in linked'[j] /\ Below(x, nkey[tower[x][j]])'
                    /\ \A y \in linked'[j] : Below(x, nkey[y])' =>
                         tower'[x][j] # NULL /\ nkey'[tower'[x][j]] <= nkey'[y]
  BY DEF NoGap
<1>1. \A y, k : Below(y, k)' <=> Below(y, k)
  BY DEF LinkFacts, Below
<1>2. nkey' = nkey
  BY DEF LinkFacts
<1>3. CASE j # i
  <2>1. tower'[x][j] = tower[x][j] /\ linked'[j] = linked[j]
    BY <1>3 DEF LinkFacts
  <2>2. Member(x, j)
    BY <2>1 DEF Member
  <2>3. Below(x, nkey[tower[x][j]])' <=> Below(x, nkey[tower[x][j]])
    BY <2>1, <1>2 DEF Below
  <2>4. QED
    BY <1>1, <1>2, <2>1, <2>2, <2>3 DEF NoGap
<1>4. CASE j = i /\ x = p
  <2>1. tower'[x][j] = m /\ m \in linked'[j]
    BY <1>4 DEF LinkFacts
  <2>2. Below(p, key[w]) /\ nkey[m] = key[w]
    BY DEF LinkFacts, Brackets
  <2>3. m # NULL
    BY ConstantFacts DEF LinkFacts, NULL, head
  <2>4. ASSUME NEW y \in linked'[j], Below(x, nkey[y]) PROVE nkey[m] <= nkey[y]
    <3>1. nkey[m] \in Int
      BY SharedReads DEF LinkFacts
    <3>2. CASE y = m
      BY <3>1, <3>2
    <3>3. CASE y # m
      <4>1. y \in linked[i] /\ nkey[y] \in Int
        BY <1>4, <3>3, SharedReads DEF LinkFacts
      <4>2. key[w] < nkey[y]
        BY <1>4, <2>4, <4>1, KeyBetween
      <4>3. QED
        BY <2>2, <3>1, <4>1, <4>2
    <3>4. QED
      BY <3>2, <3>3
  <2>5. QED
    BY <1>1, <1>2, <1>4, <2>1, <2>2, <2>3, <2>4 DEF Below
<1>5. CASE j = i /\ x = m
  <2>1. tower'[x][j] = n
    BY <1>5 DEF LinkFacts
  <2>2. n # NULL => n \in linked'[j] /\ nkey[m] < nkey[n]
    BY <1>5 DEF LinkFacts, Brackets
  <2>3. ASSUME NEW y \in linked'[j], Below(x, nkey[y])
        PROVE  n # NULL /\ nkey[n] <= nkey[y]
    <3>1. nkey[m] < nkey[y] /\ nkey[m] = key[w] /\ nkey[m] \in Int
      BY <1>5, <2>3, SharedReads DEF LinkFacts, Below
    <3>2. y # m
      BY <3>1
    <3>3. y \in linked[i]
      BY <1>5, <3>2 DEF LinkFacts
    <3>4. QED
      BY <3>1, <3>3, KeyBetween
  <2>4. QED
    BY <1>1, <1>2, <1>5, <2>1, <2>2, <2>3 DEF Below
<1>6. CASE j = i /\ x # p /\ x # m
  <2>1. tower'[x][j] = tower[x][j] /\ Member(x, i)
    BY <1>6 DEF LinkFacts, Member
  <2>2. tower[x][i] # NULL => tower[x][i] \in linked[i] /\ Below(x, nkey[tower[x][i]])
    BY <2>1, <1>6 DEF NoGap
  <2>3. ASSUME NEW y \in linked'[j], Below(x, nkey[y])
        PROVE  tower[x][i] # NULL /\ nkey[tower[x][i]] <= nkey[y]
    <3>1. CASE y \in linked[i]
      BY <2>1, <2>3, <3>1, <1>6 DEF NoGap
    <3>2. CASE y \notin linked[i]
      <4>1. y = m /\ nkey[y] = key[w]
        BY <1>6, <3>2 DEF LinkFacts
      <4>2. PICK z \in linked[i] : Below(x, nkey[z]) /\ nkey[z] < key[w]
        <5>1. CASE x = head
          <6>1. p \in linked[i] /\ nkey[p] < key[w]
            BY <1>6, <5>1 DEF LinkFacts, Brackets, Member, Below
          <6>2. QED
            BY <5>1, <6>1 DEF Below
        <5>2. CASE x # head
          <6>1. x \in linked[i] /\ nkey[x] < key[w]
            BY <2>1, <2>3, <4>1, <5>2 DEF Member, Below
          <6>2. ~Below(p, nkey[x])
            BY <6>1, KeyBetween
          <6>3. p \in linked[i] /\ nkey[p] < key[w] /\ ~(nkey[p] < nkey[x])
            BY <6>2 DEF LinkFacts, Brackets, Member, Below
          <6>4. nkey[p] # nkey[x]
            <7>1. 0 \in Levels /\ i \in Levels /\ (i = 0 \/ 0 < i)
              BY ConstantFacts DEF LinkFacts, Levels
            <7>2. p \in linked[0] /\ x \in linked[0]
              BY <6>1, <6>3, <7>1 DEF LinkedNodes
            <7>3. QED
              BY <1>6, <7>2 DEF LinkedNodes
          <6>5. nkey[p] \in Int /\ nkey[x] \in Int
            BY SharedReads DEF LinkFacts
          <6>6. nkey[x] < nkey[p]
            BY <6>3, <6>4, <6>5
          <6>7. QED
            BY <5>2, <6>3, <6>6 DEF Below
        <5>3. QED
          BY <5>1, <5>2
      <4>3. tower[x][i] # NULL /\ nkey[tower[x][i]] <= nkey[z]
        BY <2>1, <4>2 DEF NoGap, LinkFacts
      <4>4. nkey[tower[x][i]] \in Int /\ nkey[z] \in Int /\ key[w] \in Int
        BY <4>2, SharedReads, LocalReads, ConstantFacts DEF LinkFacts
      <4>5. QED
        BY <4>1, <4>2, <4>3, <4>4
    <3>3. QED
      BY <3>1, <3>2
  <2>4. linked[i] \subseteq linked'[i]
    BY DEF LinkFacts
  <2>5. QED
    BY <1>1, <1>2, <1>6, <2>1, <2>2, <2>3, <2>4 DEF Below
<1>7. QED
  BY <1>3, <1>4, <1>5, <1>6

LEMMA LinkStep ==
  ASSUME IInv, NEW w \in Writers, Link(w)
  PROVE  IInv'
<1> DEFINE i == lvl[w]
           p == prev[w][i]
           n == next[w][i]
           m == mine[w]
<1>1. TypeOK /\ LinkedNodes /\ NoGap /\ Placed(w) /\ Owned(w) /\ Phase(w) /\ Alone(w)
      /\ Distinct
  BY DEF IInv
<1>2. LinkFacts(w, i, p, n, m)
  BY LinkSituation
<1> HIDE DEF p, n, m, i
<1>3. LinkedNodes' /\ NoGap'
  BY <1>1, <1>2, LinkKeepsLinkedNodes, LinkKeepsNoGap
<1>4. Grows
  <2>1. height' = height /\ ptr' = ptr /\ height \in Int /\ ptr \in Int
        /\ height <= height /\ ptr <= ptr
    BY <1>1, <1>2, SharedReads DEF LinkFacts
  <2>2. \A j \in Levels : linked[j] \subseteq linked'[j]
    BY <1>2 DEF LinkFacts
  <2>3. nkey' = nkey /\ nval' = nval /\ nheight' = nheight
    BY <1>2 DEF LinkFacts
  <2>4. QED
    BY <2>1, <2>2, <2>3 DEF Grows
<1>5. /\ pc[w] = "link" /\ Splicing(w) /\ Work(w)
      /\ allow_concurrent_write' = allow_concurrent_write
  BY ModeStays DEF Link, Splicing, Work
<1>6. ASSUME NEW u \in Writers, u # w, Splicing(u)
      PROVE  /\ \A j \in Levels : mine[u] \in linked'[j] <=> mine[u] \in linked[j]
             /\ tower'[mine[u]][lvl[u]] = tower[mine[u]][lvl[u]]
  <2>1. mine[u] # m /\ Owned(u)
    BY <1>1, <1>5, <1>6 DEF Distinct, IInv, m
  <2>2. mine[u] \in Offsets /\ lvl[u] \in Levels /\ lvl[u] \in Int
    BY <1>1, LocalReads, SharedReads
  <2>3. \A j \in Levels : mine[u] \in linked'[j] <=> mine[u] \in linked[j]
    BY <1>2, <2>1 DEF LinkFacts
  <2>4. mine[u] # p \/ lvl[u] # i
    <3> SUFFICES ASSUME mine[u] = p, lvl[u] = i PROVE FALSE
      OBVIOUS
    <3>1. mine[u] # head
      BY <1>6, <2>1 DEF Owned, head
    <3>2. mine[u] \in linked[i]
      BY <1>2, <3>1 DEF LinkFacts, Brackets, Member
    <3>3. i < lvl[u]
      BY <1>2, <1>6, <2>1, <3>2 DEF Owned, LinkFacts
    <3>4. QED
      BY <2>2, <3>3
  <2>5. QED
    BY <1>2, <2>2, <2>3, <2>4 DEF LinkFacts
<1>7. CASE /\ lvl[w] < top[w]
           /\ lvl' = [lvl EXCEPT ![w] = @ + 1]
           /\ pc' = [pc EXCEPT ![w] = "setnext"]
           /\ UNCHANGED <<key, value, top, cur, before, prev, next, mine, result>>
  <2>1. pc'[w] = "setnext" /\ lvl'[w] = i + 1 /\ i \in Int /\ top[w] \in Int /\ i < top[w]
        /\ \A u \in Writers : u # w => pc'[u] = pc[u]
    BY <1>1, <1>7, LocalReads, SharedReads DEF TypeOK, i
  <2>2. ASSUME NEW j \in Levels, i + 1 <= j PROVE i <= j /\ j # i
    <3>1. j \in Int
      BY <1>1, SharedReads
    <3>2. QED
      BY <2>1, <2>2, <3>1
  <2>3. Placed(w)'
    <3>1. ASSUME NEW j \in Levels, i + 1 <= j
          PROVE  Brackets(prev[w][j], next[w][j], key[w], j)'
      <4>1. Brackets(prev[w][j], next[w][j], key[w], j)
        BY <1>1, <1>5, <2>2, <3>1 DEF Placed, i
      <4>2. Brackets(prev[w][j], next[w][j], key[w], j)' <=>
              \E a, b, k : a = prev[w][j] /\ b = next[w][j] /\ k = key[w] /\ Brackets(a, b, k, j)'
        BY <1>7 DEF Brackets, Member, Below
      <4>3. QED
        BY <1>1, <1>4, <4>1, <4>2, BracketsStay
    <3>2. QED
      BY <2>1, <3>1 DEF Placed, Searching
  <2>4. Owned(w)'
    <3>1. ASSUME NEW j \in Levels PROVE m \in linked'[j] <=> j < i + 1
      <4>1. j \in Int /\ (j < i + 1 <=> j < i \/ j = i)
        BY <1>1, <2>1, SharedReads
      <4>2. m \in linked'[j] <=> j < i \/ j = i
        BY <1>2 DEF LinkFacts
      <4>3. QED
        BY <4>1, <4>2
    <3>2. i + 1 <= top[w]
      BY <2>1
    <3>3. /\ head < m /\ m < ptr /\ nkey[m] = key[w] /\ nval[m] = value[w]
          /\ nheight[m] = top[w] /\ top[w] <= height
      BY <1>1, <1>5 DEF Owned, m
    <3>4. UNCHANGED <<ptr, nkey, nval, nheight, height>>
      BY <1>2 DEF LinkFacts
    <3>5. pc'[w] \notin {"raise", "backlink", "link"}
      BY <2>1
    <3>6. QED
      BY <1>7, <2>1, <3>1, <3>2, <3>3, <3>4, <3>5 DEF Owned, m
  <2>5. Phase(w)'
    BY <1>1, <1>7, <2>1 DEF Phase
  <2>6. Alone(w)'
    <3>1. ASSUME ~allow_concurrent_write, NEW j \in Levels, i + 1 <= j
          PROVE  tower'[prev[w][j]][j] = next[w][j]
      <4>1. tower[prev[w][j]][j] = next[w][j]
        BY <1>1, <1>5, <2>2, <3>1 DEF Alone, i
      <4>2. prev[w][j] \in Offsets
        BY <1>1, LocalReads
      <4>3. QED
        BY <1>2, <2>2, <3>1, <4>1, <4>2 DEF LinkFacts
    <3>2. QED
      BY <1>1, <1>5, <1>7, <2>1, <3>1 DEF Alone
  <2>7. Distinct'
    BY <1>1, <1>5, <1>7, <2>1 DEF Distinct, Splicing
  <2>8. Own(w)'
    BY <2>3, <2>4, <2>5, <2>6 DEF Own
  <2>9. QED
    BY <1>3, <1>4, <1>5, <1>6, <2>7, <2>8, BusyStep
<1>8. CASE Return(w, "none")
  <2>1. Own(w)' /\ ~Splicing(w)'
    BY <1>1, <1>8, ReturnOwn
  <2>2. \A u \in Writers : u # w => Kept(u)
    BY <1>1, <1>8, ReturnKeeps
  <2>3. Distinct'
    BY <1>1, <2>1, <2>2 DEF Distinct, Splicing, Kept
  <2>4. QED
    BY <1>3, <1>4, <1>5, <1>6, <2>1, <2>3, BusyStep
<1>9. QED
  BY <1>7, <1>8 DEF Link

-----------------------------------------------------------------------------
(***************************************************************************)
(* The inductive invariant holds.                                          *)
(***************************************************************************)
LEMMA InitIInv == Init => IInv
<1> SUFFICES ASSUME Init PROVE IInv
  OBVIOUS
<1>1. TypeOK
  BY InitTypeOK
<1>2. \A i \in Levels : linked[i] = {}
  BY DEF Init
<1>3. \A n \in Offsets, i \in Levels : tower[n][i] = NULL
  BY DEF Init, NoLinks
<1>4. LinkedNodes
  BY <1>2, ConstantFacts DEF LinkedNodes, Init
<1>5. NoGap
  BY <1>2, <1>3 DEF NoGap
<1>6. ASSUME NEW w \in Writers PROVE pc[w] = "idle" /\ result[w] = "pending"
  BY <1>6 DEF Init
<1>7. \A w \in Writers : Placed(w) /\ Owned(w) /\ Phase(w) /\ Alone(w)
  BY <1>6 DEF Placed, Owned, Phase, Alone, Searching, Splicing
<1>8. Distinct
  BY <1>6 DEF Distinct, Splicing
<1>9. QED
  BY <1>1, <1>4, <1>5, <1>7, <1>8 DEF IInv

LEMMA StepIInv == IInv /\ [Next]_vars => IInv'
<1> SUFFICES ASSUME IInv, [Next]_vars PROVE IInv'
  OBVIOUS
<1>1. CASE UNCHANGED vars
  <2>1. TypeOK' /\ LinkedNodes' /\ NoGap' /\ Distinct'
    BY <1>1 DEF IInv, TypeOK, LinkedNodes, NoGap, Distinct, Member, Below, Splicing,
                vars, shared, local
  <2>2. ASSUME NEW w \in Writers PROVE Placed(w)' /\ Phase(w)'
    BY <1>1 DEF IInv, Placed, Phase, Brackets, Member, Below, Searching,
                vars, shared, local
  <2>3. ASSUME NEW w \in Writers PROVE Owned(w)' /\ Alone(w)'
    BY <1>1 DEF IInv, Owned, Alone, Splicing, vars, shared, local
  <2>4. QED
    BY <2>1, <2>2, <2>3 DEF IInv
<1>2. CASE Next
  <2>1. PICK w \in Writers : Call(w) \/ Work(w)
    BY <1>2 DEF Next
  <2>2. QED
    BY <2>1, CallStep, WalkOnStep, FoundSpliceStep, FoundDuplicateStep,
       AllocNodeStep, AllocPanicStep, RaiseHeightStep, RaiseRetryStep,
       BackLinkStep, SetNextStep, LinkStep, LinkFailStep
    DEF Work
<1>3. QED
  BY <1>1, <1>2

(***************************************************************************)
(* IInv holds in every state of put, in both modes.                        *)
(***************************************************************************)
THEOREM Invariance == Spec => []IInv
  BY InitIInv, StepIInv, PTL DEF Spec

(***************************************************************************)
(* Every level is strictly sorted, however many writers race: no key is    *)
(* linked twice and no node out of order.                                  *)
(***************************************************************************)
THEOREM Sorted == Spec => []StrictlySorted
<1>1. IInv => StrictlySorted
  <2> SUFFICES ASSUME IInv, NEW i \in Levels, NEW n \in linked[i], tower[n][i] # NULL
               PROVE  nkey[n] < nkey[tower[n][i]]
    BY DEF StrictlySorted
  <2>1. n \in Offsets /\ n # head
    BY SharedReads DEF IInv, LinkedNodes, head
  <2>2. QED
    BY <2>1 DEF IInv, NoGap, Member, Below
<1>2. QED
  BY <1>1, Invariance, PTL

(***************************************************************************)
(* A node linked on a level is linked on all levels below, and no linked   *)
(* level is above the height that searches start from.                     *)
(***************************************************************************)
THEOREM Nested == Spec => []TowersNested
<1>1. IInv => TowersNested
  <2> SUFFICES ASSUME IInv, NEW i \in Levels PROVE
        /\ i > 0 => linked[i] \subseteq linked[i - 1]
        /\ linked[i] # {} => i <= height
    BY DEF TowersNested
  <2>1. linked[i] # {} => i <= height
    BY DEF IInv, LinkedNodes
  <2>2. ASSUME i > 0 PROVE linked[i] \subseteq linked[i - 1]
    <3>1. i - 1 \in Levels /\ i - 1 < i
      BY <2>2, ConstantFacts DEF Levels
    <3>2. QED
      BY <3>1 DEF IInv, LinkedNodes
  <2>3. QED
    BY <2>1, <2>2
<1>2. QED
  BY <1>1, Invariance, PTL

(***************************************************************************)
(* The assertion in put's CAS retry never fails: a duplicate key found     *)
(* after a failed CAS is found at level 0.                                 *)
(***************************************************************************)
THEOREM AssertHolds == Spec => []DuplicateOnlyAtBottom
<1>1. IInv => DuplicateOnlyAtBottom
  BY DEF IInv, Phase, DuplicateOnlyAtBottom
<1>2. QED
  BY <1>1, Invariance, PTL

(***************************************************************************)
(* put never reads or writes a tower slot that its node does not have, and *)
(* never follows the null offset.                                          *)
(***************************************************************************)
THEOREM InBounds == Spec => []TowerAccessInBounds
<1>1. IInv => TowerAccessInBounds
  <2> SUFFICES ASSUME IInv, NEW w \in Writers
               PROVE  /\ Searching(w) => before[w] # NULL /\ lvl[w] <= nheight[before[w]]
                      /\ pc[w] \in {"setnext", "link"} =>
                           /\ lvl[w] <= nheight[mine[w]]
                           /\ prev[w][lvl[w]] # NULL
                           /\ lvl[w] <= nheight[prev[w][lvl[w]]]
    BY DEF TowerAccessInBounds
  <2>1. TypeOK /\ LinkedNodes /\ Placed(w) /\ Owned(w)
    BY DEF IInv
  <2>2. lvl[w] \in Levels /\ lvl[w] \in Int /\ lvl[w] <= lvl[w]
    BY <2>1, LocalReads, SharedReads
  <2>3. Searching(w) => before[w] # NULL /\ lvl[w] <= nheight[before[w]]
    BY <2>1, <2>2, MembersAreNodes DEF Placed
  <2>4. ASSUME pc[w] \in {"setnext", "link"}
        PROVE  Member(prev[w][lvl[w]], lvl[w]) /\ lvl[w] <= nheight[mine[w]]
    BY <2>1, <2>2, <2>4 DEF Placed, Brackets, Owned, Splicing
  <2>5. QED
    BY <2>1, <2>2, <2>3, <2>4, MembersAreNodes
<1>2. QED
  BY <1>1, Invariance, PTL

-----------------------------------------------------------------------------
(***************************************************************************)
(* No step takes a node out of the list, nor changes one that is in it.    *)
(***************************************************************************)
LEMMA StepKeepsLinked ==
  ASSUME IInv, [Next]_vars, NEW i \in Levels, NEW n \in linked[i]
  PROVE  n \in linked'[i] /\ nkey'[n] = nkey[n] /\ nval'[n] = nval[n]
<1>1. TypeOK /\ LinkedNodes
  BY DEF IInv
<1>2. n \in Offsets /\ n # ptr
  <2>1. n \in Int /\ n \in Offsets /\ n < ptr /\ ptr \in Int
    BY <1>1, SharedReads DEF LinkedNodes
  <2>2. QED
    BY <2>1
<1>3. CASE UNCHANGED <<linked, nkey, nval>>
  BY <1>3
<1>4. ASSUME NEW w \in Writers, AllocNode(w)
      PROVE  n \in linked'[i] /\ nkey'[n] = nkey[n] /\ nval'[n] = nval[n]
  BY <1>1, <1>2, <1>4 DEF AllocNode, TypeOK
<1>5. ASSUME NEW w \in Writers, Link(w)
      PROVE  n \in linked'[i] /\ nkey'[n] = nkey[n] /\ nval'[n] = nval[n]
  <2>1. nkey' = nkey /\ nval' = nval /\ linked[i] \subseteq linked'[i]
    BY <1>5, LinkSituation DEF LinkFacts
  <2>2. QED
    BY <2>1
<1>6. ASSUME NEW w \in Writers, Call(w) \/ Work(w), ~AllocNode(w), ~Link(w)
      PROVE  UNCHANGED <<linked, nkey, nval>>
  BY <1>6 DEF Call, PutStart, Work, WalkOn, FoundSplice, FoundDuplicate, AllocPanic,
              RaiseHeight, RaiseRetry, BackLink, SetNext, LinkFail, shared
<1>7. CASE UNCHANGED vars
  BY <1>7, <1>3 DEF vars, shared
<1>8. QED
  BY <1>3, <1>4, <1>5, <1>6, <1>7 DEF Next, Work

(***************************************************************************)
(* Nodes are immutable once linked, and stay linked.                       *)
(***************************************************************************)
THEOREM NodesStay == Spec => LinkedNodesStay
<1>1. IInv /\ [Next]_vars =>
        [\A i \in Levels : \A n \in linked[i] :
           n \in linked'[i] /\ nkey'[n] = nkey[n] /\ nval'[n] = nval[n]]_vars
  BY StepKeepsLinked
<1>2. QED
  BY <1>1, Invariance, PTL DEF Spec, LinkedNodesStay

-----------------------------------------------------------------------------
(***************************************************************************)
(* Acknowledged writes.  The step that answers stores the answer's ground; *)
(* later steps keep it, since linked nodes stay.                           *)
(***************************************************************************)
Grounded(w) ==
  /\ result[w] = "none" => Stored(key[w], value[w])
  /\ result[w] = "conflict" => \E v \in Values \ {value[w]} : Stored(key[w], v)

LEMMA StoredStays ==
  ASSUME IInv, [Next]_vars, NEW k, NEW v, Stored(k, v)
  PROVE  Stored(k, v)'
<1>1. 0 \in Levels
  BY ConstantFacts
<1>2. QED
  BY <1>1, StepKeepsLinked DEF Stored

\* The answers of a step that returns.
LEMMA AnswersGrounded ==
  ASSUME IInv, NEW w \in Writers, Work(w), pc'[w] = "idle"
  PROVE  Grounded(w)'
<1>1. TypeOK /\ LinkedNodes /\ NoGap /\ Placed(w) /\ Owned(w)
  BY DEF IInv
<1>2. lvl[w] \in Levels /\ 0 \in Levels /\ before[w] \in Offsets /\ value[w] \in Values
  BY <1>1, LocalReads, ConstantFacts
<1>3. CASE FoundDuplicate(w)
  <2>1. Succ(w) \in linked[lvl[w]] /\ nkey[Succ(w)] = key[w]
    BY <1>1, <1>2, <1>3 DEF FoundDuplicate, Placed, NoGap, Succ
  <2>2. Succ(w) \in linked[0]
    <3>1. lvl[w] = 0 \/ 0 < lvl[w]
      BY <1>2, ConstantFacts DEF Levels
    <3>2. QED
      BY <1>1, <1>2, <2>1, <3>1 DEF LinkedNodes
  <2>3. nval[Succ(w)] \in Values
    BY <1>1, <1>2, <2>2, SharedReads DEF TypeOK
  <2>4. /\ UNCHANGED <<linked, nkey, nval, key, value>>
        /\ result'[w] = DuplicateResult(w)
    BY <1>1, <1>3 DEF FoundDuplicate, Return, TypeOK, shared
  <2>5. \E n \in linked'[0] : nkey'[n] = key'[w] /\ nval'[n] = nval[Succ(w)]
    BY <2>1, <2>2, <2>4
  <2>6. CASE result'[w] = "none"
    <3>1. nval[Succ(w)] = value[w]
      BY <2>4, <2>6 DEF DuplicateResult
    <3>2. QED
      BY <2>4, <2>5, <2>6, <3>1 DEF Grounded, Stored
  <2>7. CASE result'[w] = "conflict"
    <3>1. nval[Succ(w)] # value[w]
      BY <2>4, <2>7 DEF DuplicateResult
    <3>2. QED
      BY <2>3, <2>4, <2>5, <2>7, <3>1 DEF Grounded, Stored
  <2>8. QED
    BY <2>6, <2>7 DEF Grounded
<1>4. CASE AllocPanic(w)
  <2>1. result'[w] = "panic"
    BY <1>1, <1>4 DEF AllocPanic, Return, TypeOK
  <2>2. QED
    BY <2>1 DEF Grounded
<1>5. CASE Link(w)
  <2>1. lvl[w] = top[w] /\ Return(w, "none")
    <3>1. pc' # [pc EXCEPT ![w] = "setnext"]
      BY <1>1 DEF TypeOK
    <3>2. QED
      BY <1>5, <3>1 DEF Link
  <2>2. mine[w] \in linked'[0]
    <3>1. mine[w] \in linked'[lvl[w]]
      BY <1>5, LinkSituation DEF LinkFacts
    <3>2. LinkedNodes'
      BY <1>5, LinkStep DEF IInv
    <3>3. lvl[w] = 0 \/ 0 < lvl[w]
      BY <1>2, ConstantFacts DEF Levels
    <3>4. QED
      BY <1>2, <3>1, <3>2, <3>3 DEF LinkedNodes
  <2>3. nkey[mine[w]] = key[w] /\ nval[mine[w]] = value[w]
    BY <1>1, <1>5 DEF Owned, Splicing, Link
  <2>4. UNCHANGED <<nkey, nval, key, value>> /\ result'[w] = "none"
    BY <1>1, <1>5, <2>1 DEF Link, Return, TypeOK
  <2>5. QED
    BY <2>2, <2>3, <2>4 DEF Grounded, Stored
<1>6. CASE WalkOn(w)
  BY <1>1, <1>6 DEF WalkOn, Searching
<1>7. CASE FoundSplice(w)
  BY <1>1, <1>7 DEF FoundSplice, Searching, TypeOK
<1>8. CASE AllocNode(w)
  BY <1>1, <1>8 DEF AllocNode, AfterHeight, TypeOK
<1>9. CASE RaiseHeight(w)
  BY <1>1, <1>9 DEF RaiseHeight, AfterHeight, TypeOK
<1>10. CASE RaiseRetry(w)
  BY <1>1, <1>10 DEF RaiseRetry, AfterHeight, TypeOK
<1>11. CASE BackLink(w)
  BY <1>1, <1>11 DEF BackLink, TypeOK
<1>12. CASE SetNext(w)
  BY <1>1, <1>12 DEF SetNext, TypeOK
<1>13. CASE LinkFail(w)
  BY <1>1, <1>13 DEF LinkFail, TypeOK
<1>14. QED
  BY <1>3, <1>4, <1>5, <1>6, <1>7, <1>8, <1>9, <1>10, <1>11, <1>12, <1>13 DEF Work

(***************************************************************************)
(* A put that returned None has its key and value in the list, and a put   *)
(* that reported a conflict lost to another value, for ever after.         *)
(***************************************************************************)
THEOREM AcknowledgedIsStored == Spec => []AckedIsStored
<1>1. Init => AckedIsStored
  BY DEF Init, AckedIsStored
<1>2. IInv /\ AckedIsStored /\ [Next]_vars => AckedIsStored'
  <2> SUFFICES ASSUME IInv, AckedIsStored, [Next]_vars,
                      NEW u \in Writers, pc'[u] = "idle"
               PROVE  Grounded(u)'
    BY DEF AckedIsStored, Grounded
  <2>1. TypeOK
    BY DEF IInv
  <2>2. ASSUME pc[u] = "idle", UNCHANGED <<key[u], value[u], result[u]>>
        PROVE  Grounded(u)'
    <3>1. Grounded(u)
      BY <2>2 DEF AckedIsStored, Grounded
    <3>2. \A k, v : Stored(k, v) => Stored(k, v)'
      BY StoredStays
    <3>3. result[u] = "none" => \E k, v : k = key'[u] /\ v = value'[u] /\ Stored(k, v)'
      BY <2>2, <3>1, <3>2 DEF Grounded
    <3>4. result[u] = "conflict" =>
            \E v \in Values \ {value[u]} : \E k : k = key'[u] /\ Stored(k, v)'
      BY <2>2, <3>1, <3>2 DEF Grounded
    <3>5. QED
      BY <2>2, <3>3, <3>4 DEF Grounded, Stored
  <2>3. CASE UNCHANGED vars
    BY <2>2, <2>3 DEF vars, local
  <2>4. ASSUME NEW w \in Writers, Call(w) \/ Work(w) PROVE Grounded(u)'
    <3>1. CASE u # w
      BY <2>1, <2>2, <2>4, <3>1, OthersKept DEF Kept
    <3>2. CASE u = w /\ Work(w)
      BY <3>2, AnswersGrounded
    <3>3. CASE u = w /\ Call(w)
      BY <2>1, <3>3 DEF Call, PutStart, TypeOK
    <3>4. QED
      BY <2>4, <3>1, <3>2, <3>3
  <2>5. QED
    BY <2>3, <2>4 DEF Next
<1>3. QED
  BY <1>1, <1>2, Invariance, PTL DEF Spec
=============================================================================
