------------------------- MODULE Checkpoint_proofs -------------------------
(***************************************************************************)
(* Proofs about Checkpoint, for every finite set of threads and any number *)
(* of calls.                                                               *)
(***************************************************************************)
EXTENDS Checkpoint, FiniteSetTheorems, SequenceTheorems, TLAPS

PCs == {"idle", "capture", "count", "poll", "late", "panicked", "crashed"}

Flags == released \in BOOLEAN /\ poisoned \in BOOLEAN

TypeOK ==
  /\ Flags
  /\ waiting \in Nat
  /\ captures \in Seq(Threads \X Nat)
  /\ pc \in [Threads -> PCs]
  /\ decision \in [Threads -> Decisions]
  /\ calls \in [Threads -> Nat]
  /\ result \in [Threads -> {"Some", "None"}]
  /\ test \in {"idle", "zero", "clear"}
  /\ cleared \subseteq Threads /\ owed \subseteq Threads
  /\ again \in {"never", "no", "yes"}

\* What the flag has to do with the history of release_all and reset.
FlagKnown ==
  /\ again = "never" => ~released /\ test # "zero" /\ owed = {}
  /\ again = "no" => released

\* Where the value of a thread's latest call is among the captures.
Found(t) == {i \in DOMAIN captures : captures[i] = Value(t)}
Kept(t) == IF t \in cleared THEN Cardinality(Found(t)) <= 1 ELSE Cardinality(Found(t)) = 1

CapturedOnce(t) ==
  /\ pc[t] \in {"capture", "crashed"} => Found(t) = {}
  /\ result[t] = "Some" => pc[t] = "idle"
  /\ decision[t] = "CaptureAndBlock"
       /\ (pc[t] \in {"count", "poll", "late"} \/ result[t] = "Some") => Kept(t)

\* No value is captured of a call that has not begun.
NoneEarly == \A i \in DOMAIN captures : captures[i][2] <= calls[captures[i][1]]

CapturesKnown == NoneEarly /\ \A t \in Threads : CapturedOnce(t)

IInv == TypeOK /\ FlagKnown /\ CountExact /\ ReleasedUnlessReset /\ CapturesKnown

LEMMA InitIInv == Init => IInv
<1> SUFFICES ASSUME Init PROVE IInv
  OBVIOUS
<1> Flags
  BY DEF Init, Flags
<1>1. TypeOK
  BY DEF Init, TypeOK, PCs, Decisions
<1>2. FlagKnown /\ ReleasedUnlessReset
  BY DEF Init, FlagKnown, ReleasedUnlessReset
<1>3. {t \in Threads : Blocked(t) \/ pc[t] = "panicked"} = {}
  BY DEF Init, Blocked
<1>4. CountExact
  BY <1>3, FS_EmptySet DEF Init, CountExact
<1>5. CapturesKnown
  BY DEF Init, CapturesKnown, NoneEarly, CapturedOnce, TypeOK
<1>6. QED
  BY <1>1, <1>2, <1>4, <1>5 DEF IInv

\* A step is one of the actions, or changes nothing.
LEMMA Steps ==
  ASSUME [Next]_cvars
  PROVE  \/ \E t \in Threads : Enter(t) \/ HookPanic(t)
         \/ \E t \in Threads : CapturePush(t) \/ Count(t) \/ PollReleased(t)
         \/ \E t \in Threads : PollBlocked(t) \/ TimeOut(t) \/ Sleep(t)
         \/ ReleaseAll \/ ReleaseZero \/ Reset \/ ResetClear
         \/ UNCHANGED cvars
  BY DEF Next, Wait, Test

(***************************************************************************)
(* Type correctness.                                                       *)
(***************************************************************************)
LEMMA FlagsStep == ASSUME Flags, [Next]_cvars PROVE Flags'
<1>1. ASSUME NEW t \in Threads, Enter(t) \/ HookPanic(t) PROVE Flags'
  BY <1>1 DEF Flags, Enter, HookPanic, Call
<1>2. ASSUME NEW t \in Threads, CapturePush(t) \/ Count(t) \/ PollReleased(t) PROVE Flags'
  BY <1>2 DEF Flags, CapturePush, Count, PollReleased, cells
<1>3. ASSUME NEW t \in Threads, PollBlocked(t) \/ TimeOut(t) \/ Sleep(t) PROVE Flags'
  BY <1>3 DEF Flags, PollBlocked, TimeOut, Sleep, cells
<1>4. CASE ReleaseAll \/ ReleaseZero \/ Reset \/ ResetClear
  BY <1>4 DEF Flags, ReleaseAll, ReleaseZero, Reset, ResetClear
<1>5. CASE UNCHANGED cvars
  BY <1>5 DEF Flags, cvars, cells
<1>6. QED
  BY Steps, <1>1, <1>2, <1>3, <1>4, <1>5

LEMMA TypeStep == ASSUME TypeOK, [Next]_cvars PROVE TypeOK'
<1> Flags'
  BY FlagsStep DEF TypeOK
<1>1. ASSUME NEW t \in Threads, Enter(t) \/ HookPanic(t) PROVE TypeOK'
  <2>1. PICK l \in PCs : pc' = [pc EXCEPT ![t] = l]
    <3>1. CASE Enter(t)
      BY <3>1 DEF Enter, Goto, PCs, Decisions
    <3>2. CASE HookPanic(t)
      BY <3>2 DEF HookPanic, Goto, PCs
    <3>3. QED
      BY <1>1, <3>1, <3>2
  <2>2. pc' \in [Threads -> PCs]
    BY <2>1 DEF TypeOK
  <2>3. decision' \in [Threads -> Decisions]
    BY <1>1 DEF TypeOK, Enter, HookPanic
  <2>4. Call(t) /\ captures' = captures
    BY <1>1 DEF Enter, HookPanic
  <2>5. calls' \in [Threads -> Nat] /\ result' \in [Threads -> {"Some", "None"}]
    BY <2>4 DEF TypeOK, Call
  <2>6. QED
    BY <2>2, <2>3, <2>4, <2>5 DEF TypeOK, Call
<1>2. ASSUME NEW t \in Threads, CapturePush(t) PROVE TypeOK'
  <2>1. captures' \in Seq(Threads \X Nat)
    BY <1>2 DEF TypeOK, CapturePush, Value
  <2>2. QED
    BY <1>2, <2>1 DEF TypeOK, CapturePush, Goto, PCs, history
<1>3. ASSUME NEW t \in Threads, Count(t) \/ PollReleased(t) PROVE TypeOK'
  <2>1. CASE Count(t)
    BY <2>1 DEF TypeOK, Count, Goto, PCs, history
  <2>2. CASE PollReleased(t)
    <3>1. result' \in [Threads -> {"Some", "None"}]
      BY <2>2 DEF TypeOK, PollReleased
    <3>2. pc' \in [Threads -> PCs]
      BY <2>2 DEF TypeOK, PollReleased, Goto, PCs
    <3>3. QED
      BY <2>2, <3>1, <3>2 DEF TypeOK, PollReleased, cells
  <2>3. QED
    BY <1>3, <2>1, <2>2
<1>4. ASSUME NEW t \in Threads, PollBlocked(t) \/ TimeOut(t) \/ Sleep(t) PROVE TypeOK'
  BY <1>4 DEF TypeOK, PollBlocked, TimeOut, Sleep, Goto, PCs, history, cells
<1>5. CASE ReleaseAll \/ ReleaseZero
  BY <1>5 DEF TypeOK, ReleaseAll, ReleaseZero, threadvars, history
<1>6. CASE Reset \/ ResetClear
  <2>1. UNCHANGED threadvars /\ waiting' = waiting /\ owed' = owed
    BY <1>6 DEF Reset, ResetClear
  <2>2. captures' \in Seq(Threads \X Nat) /\ cleared' \subseteq Threads
    <3>1. CASE Reset
      BY <3>1 DEF TypeOK, Reset
    <3>2. CASE ResetClear
      <4>1. captures' = << >> /\ cleared' = Threads
        BY <3>2 DEF ResetClear
      <4>2. QED
        BY <4>1
    <3>3. QED
      BY <1>6, <3>1, <3>2
  <2>3. test' \in {"idle", "zero", "clear"} /\ again' \in {"never", "no", "yes"}
    BY <1>6 DEF TypeOK, Reset, ResetClear
  <2>4. QED
    BY <2>1, <2>2, <2>3 DEF TypeOK, threadvars
<1>7. CASE UNCHANGED cvars
  BY <1>7 DEF TypeOK, cvars, cells, threadvars, history
<1>8. QED
  BY Steps, <1>1, <1>2, <1>3, <1>4, <1>5, <1>6, <1>7

(***************************************************************************)
(* The flag, and who must find it set.                                     *)
(***************************************************************************)
LEMMA FlagStep ==
  ASSUME TypeOK, FlagKnown, ReleasedUnlessReset, [Next]_cvars
  PROVE  FlagKnown' /\ ReleasedUnlessReset'
<1>1. ASSUME NEW t \in Threads, Enter(t) \/ HookPanic(t)
      PROVE  FlagKnown' /\ ReleasedUnlessReset'
  <2>1. UNCHANGED <<released, test, owed, again>>
    BY <1>1 DEF Enter, HookPanic, Call
  <2>2. pc'[t] \notin {"late", "panicked"} /\ \A u \in Threads \ {t} : pc'[u] = pc[u]
    BY <1>1 DEF Enter, HookPanic, Goto, TypeOK, Decisions
  <2>3. QED
    BY <2>1, <2>2 DEF FlagKnown, ReleasedUnlessReset, TypeOK
<1>2. ASSUME NEW t \in Threads, CapturePush(t) \/ Count(t) \/ PollReleased(t)
      PROVE  FlagKnown' /\ ReleasedUnlessReset'
  <2>1. UNCHANGED <<released, test, again>> /\ owed' \subseteq owed
    BY <1>2 DEF CapturePush, Count, PollReleased, history, cells
  <2>2. pc'[t] \notin {"late", "panicked"} /\ \A u \in Threads \ {t} : pc'[u] = pc[u]
    BY <1>2 DEF CapturePush, Count, PollReleased, Goto, TypeOK
  <2>3. QED
    BY <2>1, <2>2 DEF FlagKnown, ReleasedUnlessReset, TypeOK
<1>3. ASSUME NEW t \in Threads, PollBlocked(t) \/ TimeOut(t) \/ Sleep(t)
      PROVE  FlagKnown' /\ ReleasedUnlessReset'
  <2>1. UNCHANGED <<released, test, owed, again>>
    BY <1>3 DEF PollBlocked, TimeOut, Sleep, history, cells
  <2>2. \A u \in Threads \ {t} : pc'[u] = pc[u]
    BY <1>3 DEF PollBlocked, TimeOut, Sleep, Goto, TypeOK
  <2>3. t \in owed /\ pc'[t] \in {"late", "panicked"} => again = "yes"
    BY <1>3 DEF PollBlocked, TimeOut, Sleep, Goto, TypeOK, FlagKnown, ReleasedUnlessReset
  <2>4. QED
    BY <2>1, <2>2, <2>3 DEF FlagKnown, ReleasedUnlessReset, TypeOK
<1>4. CASE ReleaseAll
  BY <1>4 DEF ReleaseAll, threadvars, FlagKnown, ReleasedUnlessReset, TypeOK
<1>5. CASE ReleaseZero
  BY <1>5 DEF ReleaseZero, threadvars, history, FlagKnown, ReleasedUnlessReset
<1>6. CASE Reset
  BY <1>6 DEF Reset, threadvars, FlagKnown, ReleasedUnlessReset, TypeOK
<1>7. CASE ResetClear
  BY <1>7 DEF ResetClear, threadvars, FlagKnown, ReleasedUnlessReset
<1>8. CASE UNCHANGED cvars
  BY <1>8 DEF cvars, cells, threadvars, history, FlagKnown, ReleasedUnlessReset
<1>9. QED
  BY Steps, <1>1, <1>2, <1>3, <1>4, <1>5, <1>6, <1>7, <1>8

(***************************************************************************)
(* The count.                                                              *)
(***************************************************************************)
Counted == {t \in Threads : Blocked(t) \/ pc[t] = "panicked"}

LEMMA CountStep ==
  ASSUME TypeOK, FlagKnown, CountExact, [Next]_cvars
  PROVE  CountExact'
<1> SUFFICES ASSUME again' = "never" PROVE waiting' = Cardinality(Counted')
  BY DEF CountExact, Counted
<1>1. ASSUME again = "never" PROVE waiting = Cardinality(Counted)
  BY <1>1 DEF CountExact, Counted
<1>2. ASSUME UNCHANGED <<again, waiting>>, Counted' = Counted
      PROVE  waiting' = Cardinality(Counted')
  BY <1>1, <1>2
<1>3. ASSUME NEW t \in Threads, Enter(t) \/ HookPanic(t)
      PROVE  waiting' = Cardinality(Counted')
  <2>1. /\ pc[t] = "idle" /\ pc'[t] \in {"capture", "count", "idle", "crashed"}
        /\ \A u \in Threads \ {t} : pc'[u] = pc[u]
    BY <1>3 DEF Enter, HookPanic, Call, Goto, TypeOK, Decisions
  <2>2. Counted' = Counted
    BY <2>1 DEF Counted, Blocked
  <2>3. QED
    BY <1>2, <1>3, <2>2 DEF Enter, HookPanic, Call
<1>4. ASSUME NEW t \in Threads, CapturePush(t)
      PROVE  waiting' = Cardinality(Counted')
  <2>1. /\ pc[t] = "capture" /\ pc'[t] = "count"
        /\ \A u \in Threads \ {t} : pc'[u] = pc[u]
    BY <1>4 DEF CapturePush, Goto, TypeOK
  <2>2. Counted' = Counted
    BY <2>1 DEF Counted, Blocked
  <2>3. QED
    BY <1>2, <1>4, <2>2 DEF CapturePush, history
<1>5. ASSUME NEW t \in Threads, Count(t)
      PROVE  waiting' = Cardinality(Counted')
  <2>1. /\ pc[t] = "count" /\ pc'[t] = "poll"
        /\ \A u \in Threads \ {t} : pc'[u] = pc[u]
    BY <1>5 DEF Count, Goto, TypeOK
  <2>2. Counted' = Counted \cup {t} /\ t \notin Counted
    BY <2>1 DEF Counted, Blocked
  <2>3. IsFiniteSet(Counted)
    BY ThreadsAssumption, FS_Subset DEF Counted
  <2>4. Cardinality(Counted') = Cardinality(Counted) + 1
    BY <2>2, <2>3, FS_AddElement
  <2>5. QED
    BY <1>1, <1>5, <2>4 DEF Count, history
<1>6. ASSUME NEW t \in Threads, PollReleased(t)
      PROVE  waiting' = Cardinality(Counted')
  BY <1>6 DEF PollReleased, FlagKnown
<1>7. ASSUME NEW t \in Threads, PollBlocked(t) \/ TimeOut(t) \/ Sleep(t)
      PROVE  waiting' = Cardinality(Counted')
  <2>1. /\ pc[t] \in {"poll", "late"} /\ pc'[t] \in {"poll", "late", "panicked"}
        /\ \A u \in Threads \ {t} : pc'[u] = pc[u]
    BY <1>7 DEF PollBlocked, TimeOut, Sleep, Goto, TypeOK
  <2>2. Counted' = Counted
    BY <2>1 DEF Counted, Blocked
  <2>3. QED
    BY <1>2, <1>7, <2>2 DEF PollBlocked, TimeOut, Sleep, cells, history
<1>8. CASE ReleaseAll \/ ReleaseZero
  BY <1>8 DEF ReleaseAll, ReleaseZero, history, FlagKnown
<1>9. CASE Reset \/ ResetClear
  <2>1. again = "never" /\ UNCHANGED <<waiting, pc>>
    BY <1>9 DEF Reset, ResetClear, threadvars
  <2>2. QED
    BY <1>2, <2>1 DEF Counted, Blocked
<1>10. CASE UNCHANGED cvars
  BY <1>2, <1>10 DEF cvars, cells, threadvars, history, Counted, Blocked
<1>11. QED
  BY Steps, <1>3, <1>4, <1>5, <1>6, <1>7, <1>8, <1>9, <1>10

(***************************************************************************)
(* The captures.                                                           *)
(***************************************************************************)
LEMMA CapturesStep ==
  ASSUME TypeOK, CapturesKnown, [Next]_cvars
  PROVE  CapturesKnown'
<1>1. ASSUME UNCHANGED <<captures, calls, cleared>>, NEW u \in Threads,
             UNCHANGED <<pc[u], decision[u], result[u]>>
      PROVE  CapturedOnce(u)'
  BY <1>1 DEF CapturesKnown, CapturedOnce, Kept, Found, Value
<1>2. ASSUME NEW t \in Threads, Enter(t) \/ HookPanic(t) PROVE CapturesKnown'
  <2>1. /\ pc[t] = "idle" /\ captures' = captures /\ result'[t] = "None"
        /\ pc'[t] \in {"capture", "count", "idle", "crashed"}
        /\ pc'[t] = "count" => decision'[t] # "CaptureAndBlock"
        /\ calls'[t] = calls[t] + 1 /\ t \notin cleared'
    BY <1>2 DEF Enter, HookPanic, Call, Goto, TypeOK, Decisions
  <2>2. \A u \in Threads \ {t} :
          /\ UNCHANGED <<pc[u], decision[u], result[u], calls[u]>>
          /\ u \in cleared' <=> u \in cleared
    BY <1>2 DEF Enter, HookPanic, Call, Goto, TypeOK
  <2>3. NoneEarly'
    BY <2>1, <2>2 DEF CapturesKnown, NoneEarly, TypeOK
  <2>4. Found(t)' = {}
    BY <2>1 DEF CapturesKnown, NoneEarly, TypeOK, Found, Value
  <2>5. CapturedOnce(t)'
    BY <2>1, <2>4 DEF CapturedOnce
  <2>6. ASSUME NEW u \in Threads \ {t} PROVE CapturedOnce(u)'
    <3>1. Found(u)' = Found(u)
      BY <2>1, <2>2 DEF Found, Value
    <3>2. QED
      BY <2>2, <3>1 DEF CapturesKnown, CapturedOnce, Kept
  <2>7. QED
    BY <2>3, <2>5, <2>6 DEF CapturesKnown
<1>3. ASSUME NEW t \in Threads, CapturePush(t) PROVE CapturesKnown'
  <2>1. /\ pc[t] = "capture" /\ pc'[t] = "count"
        /\ captures' = Append(captures, Value(t))
        /\ UNCHANGED <<decision, calls, result, cleared>>
        /\ \A u \in Threads \ {t} : pc'[u] = pc[u]
    BY <1>3 DEF CapturePush, Goto, TypeOK, history
  <2>2. /\ DOMAIN captures' = DOMAIN captures \cup {Len(captures) + 1}
        /\ Len(captures) + 1 \notin DOMAIN captures
        /\ \A i \in DOMAIN captures : captures'[i] = captures[i]
        /\ captures'[Len(captures) + 1] = Value(t)
    BY <2>1 DEF TypeOK
  <2>3. NoneEarly'
    BY <2>1, <2>2 DEF CapturesKnown, NoneEarly, TypeOK, Value
  <2>4. Found(t) = {} /\ result[t] # "Some"
    BY <2>1 DEF CapturesKnown, CapturedOnce
  <2>5. Found(t)' = {Len(captures) + 1}
    BY <2>1, <2>2, <2>4 DEF Found, Value
  <2>6. Cardinality(Found(t)') = 1
    BY <2>5, FS_Singleton
  <2>7. CapturedOnce(t)'
    BY <2>1, <2>4, <2>6 DEF CapturedOnce, Kept
  <2>8. ASSUME NEW u \in Threads \ {t} PROVE CapturedOnce(u)'
    <3>1. Value(u)' = Value(u) /\ Value(u) # Value(t)
      BY <2>1 DEF Value
    <3>2. Found(u)' = Found(u)
      BY <2>2, <3>1 DEF Found
    <3>3. QED
      BY <2>1, <3>2 DEF CapturesKnown, CapturedOnce, Kept
  <2>9. QED
    BY <2>3, <2>7, <2>8 DEF CapturesKnown
<1>4. ASSUME NEW t \in Threads, Count(t) \/ PollReleased(t) PROVE CapturesKnown'
  <2>1. /\ UNCHANGED <<captures, calls, cleared, decision>>
        /\ \A u \in Threads \ {t} : UNCHANGED <<pc[u], result[u]>>
    BY <1>4 DEF Count, PollReleased, Goto, TypeOK, cells, history
  <2>2. CapturedOnce(t)'
    <3>1. /\ pc[t] \in {"count", "poll"} /\ pc'[t] \in {"poll", "idle"}
          /\ result'[t] = "Some" => pc'[t] = "idle"
      BY <1>4 DEF Count, PollReleased, Goto, TypeOK, CapturesKnown, CapturedOnce
    <3>2. QED
      BY <2>1, <3>1 DEF CapturesKnown, CapturedOnce, Kept, Found, Value
  <2>3. QED
    BY <1>1, <2>1, <2>2 DEF CapturesKnown, NoneEarly
<1>5. ASSUME NEW t \in Threads, PollBlocked(t) \/ TimeOut(t) \/ Sleep(t)
      PROVE  CapturesKnown'
  <2>1. /\ UNCHANGED <<captures, calls, cleared, decision, result>>
        /\ \A u \in Threads \ {t} : pc'[u] = pc[u]
    BY <1>5 DEF PollBlocked, TimeOut, Sleep, Goto, TypeOK, cells, history
  <2>2. CapturedOnce(t)'
    <3>1. pc[t] \in {"poll", "late"} /\ pc'[t] \in {"poll", "late", "panicked"}
      BY <1>5 DEF PollBlocked, TimeOut, Sleep, Goto, TypeOK
    <3>2. QED
      BY <2>1, <3>1 DEF CapturesKnown, CapturedOnce, Kept, Found, Value
  <2>3. QED
    BY <1>1, <2>1, <2>2 DEF CapturesKnown, NoneEarly
<1>6. CASE ReleaseAll \/ ReleaseZero \/ Reset
  <2>1. UNCHANGED <<captures, cleared, threadvars>>
    BY <1>6 DEF ReleaseAll, ReleaseZero, Reset, history
  <2>2. QED
    BY <1>1, <2>1 DEF CapturesKnown, NoneEarly, threadvars
<1>7. CASE ResetClear
  <2>1. captures' = << >> /\ cleared' = Threads /\ UNCHANGED threadvars
    BY <1>7 DEF ResetClear
  <2>2. \A u \in Threads : Found(u)' = {}
    BY <2>1 DEF Found
  <2>3. \A u \in Threads : Cardinality(Found(u)') = 0
    BY <2>2, FS_EmptySet
  <2>4. \A u \in Threads : CapturedOnce(u)'
    BY <2>1, <2>2, <2>3 DEF CapturesKnown, CapturedOnce, Kept, threadvars
  <2>5. QED
    BY <2>1, <2>4 DEF CapturesKnown, NoneEarly
<1>8. CASE UNCHANGED cvars
  BY <1>1, <1>8 DEF cvars, cells, threadvars, history, CapturesKnown, NoneEarly
<1>9. QED
  BY Steps, <1>2, <1>3, <1>4, <1>5, <1>6, <1>7, <1>8

-----------------------------------------------------------------------------
(***************************************************************************)
(* The strengthened invariant of wait, release_all and reset is inductive. *)
(***************************************************************************)
THEOREM Invariance == Spec => []IInv
<1>1. IInv /\ [Next]_cvars => IInv'
  BY TypeStep, FlagStep, CountStep, CapturesStep DEF IInv
<1>2. QED
  BY InitIInv, <1>1, PTL DEF Spec

(***************************************************************************)
(* wait captures before it counts: a thread that is blocked and counted    *)
(* has its value among the captures, once, unless reset cleared them.      *)
(***************************************************************************)
THEOREM CapturedFirst == Spec => []CapturedWhenCounted
<1>1. IInv => CapturedWhenCounted
  BY DEF IInv, CapturesKnown, CapturedOnce, CapturedWhenCounted, Blocked, Kept, Found
<1>2. QED
  BY Invariance, <1>1, PTL

(***************************************************************************)
(* Before the first release_all, waiting_count() is exact.                 *)
(***************************************************************************)
THEOREM CountIsExact == Spec => []CountExact
<1>1. IInv => CountExact
  BY DEF IInv
<1>2. QED
  BY Invariance, <1>1, PTL

(***************************************************************************)
(* release_all reaches every thread that has yet to look at the flag,      *)
(* unless reset takes the flag back.                                       *)
(***************************************************************************)
THEOREM ReleaseReaches == Spec => []ReleasedUnlessReset
<1>1. IInv => ReleasedUnlessReset
  BY DEF IInv
<1>2. QED
  BY Invariance, <1>1, PTL
=============================================================================
