--------------------------- MODULE SkipListReaders ---------------------------
(***************************************************************************)
(* The readers of crates/stonedb-core/src/skiplist/mod.rs, running while   *)
(* SkipList's writers do: lower_bound (and get, contains, which compare    *)
(* its answer with the key), len, and the iterator IterRef with find_near  *)
(* and find_last under it.  A step is one load of shared memory; keys and  *)
(* values are immutable and compared with the load that found them.        *)
(*                                                                         *)
(* Nobody asks find_near for the first node after a key, equal excluded;   *)
(* that combination of its flags is left out.                              *)
(***************************************************************************)
EXTENDS SkipList

CONSTANTS
  Readers,   \* the threads that read, each with an iterator
  Reads      \* the operations they use, a subset of ReadNames

ReadNames == {"lower_bound", "len", "seek", "seek_for_prev", "seek_to_first",
              "seek_to_last", "next", "prev"}
ASSUME ReadsAssumption == Reads \subseteq ReadNames

VARIABLES
  op,           \* the traversal a reader is in, or "idle"
  want,         \* its key argument
  less, allow_equal,   \* find_near's flags
  at,           \* its local cursor
  level,        \* its local level
  cursor,       \* IterRef.cursor
  found,        \* what the last lower_bound returned
  count,        \* len's counter
  missed        \* history: nodes the scan (or len) must still come to

rvars == <<op, want, less, allow_equal, at, level, cursor, found, count, missed>>
allvars == <<vars, rvars>>

Ops == {"idle", "lower_bound", "find_near", "find_last", "len"}

ReadersInit ==
  /\ op = [r \in Readers |-> "idle"]
  /\ want = [r \in Readers |-> AnyKey]
  /\ less = [r \in Readers |-> FALSE]
  /\ allow_equal = [r \in Readers |-> FALSE]
  /\ at = [r \in Readers |-> head]
  /\ level = [r \in Readers |-> 0]
  /\ cursor = [r \in Readers |-> NULL]
  /\ found = [r \in Readers |-> NULL]
  /\ count = [r \in Readers |-> 0]
  /\ missed = [r \in Readers |-> {}]

valid(r) == cursor[r] # NULL

\* The nodes after the linked node c.  A scan from the null offset owes none, nor
\* does one from a node that is not linked yet (see CursorLinked).
After(c) == {n \in linked[0] : c \in linked[0] /\ nkey[c] < nkey[n]}

\* Mutant: every traversal starts on the highest level, len too.
StartHigh(r, o, k, l, e) ==
  /\ op[r] = "idle"
  /\ op' = [op EXCEPT ![r] = o]
  /\ want' = [want EXCEPT ![r] = k]
  /\ less' = [less EXCEPT ![r] = l]
  /\ allow_equal' = [allow_equal EXCEPT ![r] = e]
  /\ at' = [at EXCEPT ![r] = head]
  /\ level' = [level EXCEPT ![r] = height]
  /\ found' = [found EXCEPT ![r] = NULL]
  /\ count' = [count EXCEPT ![r] = 0]

(***************************************************************************)
(* Starting a traversal: from the head, at the list height.                *)
(***************************************************************************)
Start(r, o, k, l, e) ==
  /\ op[r] = "idle"
  /\ op' = [op EXCEPT ![r] = o]
  /\ want' = [want EXCEPT ![r] = k]
  /\ less' = [less EXCEPT ![r] = l]
  /\ allow_equal' = [allow_equal EXCEPT ![r] = e]
  /\ at' = [at EXCEPT ![r] = head]
  /\ level' = [level EXCEPT ![r] = IF o = "len" THEN 0 ELSE height]
  /\ found' = [found EXCEPT ![r] = NULL]
  /\ count' = [count EXCEPT ![r] = 0]

\* The locals of a traversal that has returned are dead.
Finish(r) ==
  /\ op' = [op EXCEPT ![r] = "idle"]
  /\ want' = [want EXCEPT ![r] = AnyKey]
  /\ less' = [less EXCEPT ![r] = FALSE]
  /\ allow_equal' = [allow_equal EXCEPT ![r] = FALSE]
  /\ at' = [at EXCEPT ![r] = head]
  /\ level' = [level EXCEPT ![r] = 0]

\* The iterator is placed on c; a scan from there owes what follows c.
Position(r, c) ==
  /\ cursor' = [cursor EXCEPT ![r] = c]
  /\ missed' = [missed EXCEPT ![r] = After(c)]

\* A search overwrites the cursor when it returns, and a lookup or len is called
\* by a thread without an iterator: the old cursor is dead from here on.
Unplaced(r, S) ==
  /\ cursor' = [cursor EXCEPT ![r] = NULL]
  /\ missed' = [missed EXCEPT ![r] = S]

LowerBound(r) ==
  /\ "lower_bound" \in Reads
  /\ \E k \in Keys : Start(r, "lower_bound", k, FALSE, TRUE)
  /\ Unplaced(r, {})

Len(r) ==
  /\ "len" \in Reads
  /\ Start(r, "len", AnyKey, FALSE, FALSE)
  /\ Unplaced(r, linked[0])

Seek(r) ==
  /\ "seek" \in Reads
  /\ \E k \in Keys : Start(r, "find_near", k, FALSE, TRUE)
  /\ Unplaced(r, {})

SeekForPrev(r) ==
  /\ "seek_for_prev" \in Reads
  /\ \E k \in Keys : Start(r, "find_near", k, TRUE, TRUE)
  /\ Unplaced(r, {})

SeekToLast(r) ==
  /\ "seek_to_last" \in Reads
  /\ Start(r, "find_last", AnyKey, FALSE, FALSE)
  /\ Unplaced(r, {})

SeekToFirst(r) ==
  /\ "seek_to_first" \in Reads /\ op[r] = "idle"
  /\ Position(r, tower[head][0])
  /\ UNCHANGED <<op, want, less, allow_equal, at, level, found, count>>

\* Mutant: the iterator follows the top of the tower.
IterNextTop(r) ==
  /\ "next" \in Reads /\ op[r] = "idle" /\ valid(r)
  /\ cursor' = [cursor EXCEPT ![r] = tower[@][nheight[@]]]
  /\ missed' = [missed EXCEPT ![r] = @ \ {tower[cursor[r]][nheight[cursor[r]]]}]
  /\ UNCHANGED <<op, want, less, allow_equal, at, level, found, count>>

IterNext(r) ==
  /\ "next" \in Reads /\ op[r] = "idle" /\ valid(r)
  /\ cursor' = [cursor EXCEPT ![r] = tower[cursor[r]][0]]
  /\ missed' = [missed EXCEPT ![r] = @ \ {tower[cursor[r]][0]}]
  /\ UNCHANGED <<op, want, less, allow_equal, at, level, found, count>>

\* Concurrent writers do not maintain the prev pointers: search again.
IterPrevSearch(r) ==
  /\ "prev" \in Reads /\ valid(r) /\ allow_concurrent_write
  /\ Start(r, "find_near", nkey[cursor[r]], TRUE, FALSE)
  /\ Unplaced(r, {})

\* A single writer does: follow the pointer, the head means no node.
IterPrevLink(r) ==
  /\ "prev" \in Reads /\ op[r] = "idle" /\ valid(r) /\ ~allow_concurrent_write
  /\ LET p == back[cursor[r]] IN Position(r, IF p = head THEN NULL ELSE p)
  /\ UNCHANGED <<op, want, less, allow_equal, at, level, found, count>>

(***************************************************************************)
(* One load of the traversal, and the comparison of the key it found.      *)
(***************************************************************************)
Loaded(r) == tower[at[r]][level[r]]
End(r) == Loaded(r) = NULL
Less(r) == ~End(r) /\ nkey[Loaded(r)] < want[r]
Equal(r) == ~End(r) /\ nkey[Loaded(r)] = want[r]
Greater(r) == ~End(r) /\ want[r] < nkey[Loaded(r)]

Forward(r) == at' = [at EXCEPT ![r] = Loaded(r)] /\ level' = level
\* Mutant: the descent stays where it is.
DownNowhere(r) == level[r] > 0 /\ level' = level /\ at' = at
Down(r) == level[r] > 0 /\ level' = [level EXCEPT ![r] = @ - 1] /\ at' = at
Moving == UNCHANGED <<op, want, less, allow_equal, cursor, found, count, missed>>

\* Mutant: the cursor moves on to the node at or after the key.
LowerBoundTooFar(r) ==
  /\ op[r] = "lower_bound"
  /\ \/ ~End(r) /\ ~Equal(r) /\ Forward(r)
     \/ End(r) /\ Down(r)
  /\ Moving

LowerBoundMove(r) ==
  /\ op[r] = "lower_bound"
  /\ \/ Less(r) /\ Forward(r)
     \/ (End(r) \/ Greater(r)) /\ Down(r)
  /\ Moving

\* Mutant: a greater key ends the search on any level.
LowerBoundEarly(r) ==
  /\ op[r] = "lower_bound"
  /\ Equal(r) \/ Greater(r) \/ (End(r) /\ level[r] = 0)
  /\ found' = [found EXCEPT ![r] = Loaded(r)]
  /\ Finish(r)
  /\ UNCHANGED <<cursor, count, missed>>

LowerBoundReturn(r) ==
  /\ op[r] = "lower_bound"
  /\ Equal(r) \/ (~Less(r) /\ level[r] = 0)
  /\ found' = [found EXCEPT ![r] = Loaded(r)]
  /\ Finish(r)
  /\ UNCHANGED <<cursor, count, missed>>

\* An equal key ends the search, unless only smaller ones count.
FindNearMove(r) ==
  /\ op[r] = "find_near"
  /\ \/ Less(r) /\ Forward(r)
     \/ (End(r) \/ Greater(r) \/ (Equal(r) /\ ~allow_equal[r])) /\ Down(r)
  /\ Moving

NotHeadForgotten(n) == n                       \* mutant: the head is a node
NotHead(n) == IF n = head THEN NULL ELSE n

\* Mutant: at the end of the list, no node is returned even when the last one
\* is wanted.
FindNearGivesUp(r) ==
  /\ op[r] = "find_near"
  /\ \/ Equal(r) /\ allow_equal[r] /\ Position(r, Loaded(r))
     \/ /\ ~Less(r) /\ level[r] = 0 /\ ~(Equal(r) /\ allow_equal[r])
        /\ Position(r, IF less[r] /\ ~End(r) THEN NotHead(at[r]) ELSE Loaded(r))
  /\ Finish(r)
  /\ UNCHANGED <<found, count>>

FindNearReturn(r) ==
  /\ op[r] = "find_near"
  /\ \/ Equal(r) /\ allow_equal[r] /\ Position(r, Loaded(r))
     \/ /\ ~Less(r) /\ level[r] = 0 /\ ~(Equal(r) /\ allow_equal[r])
        /\ Position(r, IF less[r] THEN NotHead(at[r]) ELSE Loaded(r))
  /\ Finish(r)
  /\ UNCHANGED <<found, count>>

FindLastMove(r) ==
  /\ op[r] = "find_last"
  /\ \/ ~End(r) /\ Forward(r)
     \/ End(r) /\ Down(r)
  /\ Moving

FindLastReturn(r) ==
  /\ op[r] = "find_last"
  /\ End(r) /\ level[r] = 0
  /\ Position(r, NotHead(at[r]))
  /\ Finish(r)
  /\ UNCHANGED <<found, count>>

LenCount(r) ==
  /\ op[r] = "len" /\ ~End(r)
  /\ Forward(r)
  /\ count' = [count EXCEPT ![r] = @ + 1]
  /\ missed' = [missed EXCEPT ![r] = @ \ {Loaded(r)}]
  /\ UNCHANGED <<op, want, less, allow_equal, cursor, found>>

LenReturn(r) ==
  /\ op[r] = "len" /\ End(r)
  /\ Finish(r)
  /\ UNCHANGED <<cursor, found, count, missed>>

Traverse(r) ==
  \/ LowerBoundMove(r) \/ LowerBoundReturn(r)
  \/ FindNearMove(r) \/ FindNearReturn(r)
  \/ FindLastMove(r) \/ FindLastReturn(r)
  \/ LenCount(r) \/ LenReturn(r)

Read(r) ==
  \/ LowerBound(r) \/ Len(r) \/ Seek(r) \/ SeekForPrev(r)
  \/ SeekToFirst(r) \/ SeekToLast(r)
  \/ IterNext(r) \/ IterPrevSearch(r) \/ IterPrevLink(r)

AllInit == Init /\ ReadersInit
AllNext ==
  \/ Next /\ UNCHANGED rvars
  \/ \E r \in Readers : (Read(r) \/ Traverse(r)) /\ UNCHANGED vars

AllSpec == AllInit /\ [][AllNext]_allvars

\* The operating system schedules every runnable thread.
AllFairSpec ==
  /\ AllSpec
  /\ \A r \in Readers : WF_allvars(Traverse(r) /\ UNCHANGED vars)

-----------------------------------------------------------------------------
ReadersTypeOK ==
  /\ op \in [Readers -> Ops]
  /\ want \in [Readers -> Keys]
  /\ less \in [Readers -> BOOLEAN]
  /\ allow_equal \in [Readers -> BOOLEAN]
  /\ at \in [Readers -> Offsets]
  /\ level \in [Readers -> Levels]
  /\ cursor \in [Readers -> Offsets]
  /\ found \in [Readers -> Offsets]
  /\ count \in [Readers -> Nat]
  /\ missed \in [Readers -> SUBSET Offsets]

\* c is the node of S with the smallest (largest) key, or NULL if S is empty.
IsFirst(c, S) == IF c = NULL THEN S = {} ELSE c \in S /\ \A n \in S : nkey[c] <= nkey[n]
IsLast(c, S) == IF c = NULL THEN S = {} ELSE c \in S /\ \A n \in S : nkey[n] <= nkey[c]

(***************************************************************************)
(* lower_bound (and with it get and contains) is atomic: whatever the      *)
(* writers did during the search, the answer is the first entry at or      *)
(* after the key in the list as it is when the search ends.                *)
(***************************************************************************)
LowerBoundAtomic ==
  [][\A r \in Readers : op[r] = "lower_bound" /\ op'[r] = "idle" =>
       IsFirst(found'[r], {n \in linked[0] : want[r] <= nkey[n]})]_allvars

(***************************************************************************)
(* The iterator's searches are atomic in the same way: seek finds the      *)
(* first entry at or after the key, seek_for_prev the last one at or       *)
(* before it, prev under concurrent writers the last one before the cursor,*)
(* and seek_to_last the last of all.                                       *)
(***************************************************************************)
Before(k, e) == {n \in linked[0] : nkey[n] < k \/ (e /\ nkey[n] = k)}

SeekAtomic ==
  [][\A r \in Readers : op'[r] = "idle" =>
       /\ op[r] = "find_near" =>
            IF less[r] THEN IsLast(cursor'[r], Before(want[r], allow_equal[r]))
            ELSE IsFirst(cursor'[r], {n \in linked[0] : want[r] <= nkey[n]})
       /\ op[r] = "find_last" => IsLast(cursor'[r], linked[0])]_allvars

(***************************************************************************)
(* Forward scans are complete: an entry that was there when the iterator   *)
(* was placed on a linked node, by a seek or by prev, is not passed over   *)
(* while writers splice around the cursor.                                 *)
(***************************************************************************)
ScanComplete ==
  \A r \in Readers :
    op[r] # "len" => \A n \in missed[r] : cursor[r] # NULL /\ nkey[cursor[r]] < nkey[n]

(***************************************************************************)
(* len counts every entry that was there when it began, and none that was  *)
(* not there when it ended.                                                *)
(***************************************************************************)
LenBetween ==
  [][\A r \in Readers : op[r] = "len" /\ op'[r] = "idle" =>
       missed[r] = {} /\ count[r] <= Cardinality(linked[0])]_allvars

(***************************************************************************)
(* A reader never stands on a node that is not linked, that is, on one the *)
(* writer is still building (mod.rs, SkipList: "a reader can never observe *)
(* a partially written or overwritten node").                              *)
(***************************************************************************)
CursorLinked == \A r \in Readers : valid(r) => cursor[r] \in linked[0]

(***************************************************************************)
(* A traversal stays on its level: every node it stands on is linked there *)
(* (so its tower has the slot that is loaded) and lies before the key.     *)
(***************************************************************************)
OnLevel ==
  \A r \in Readers : op[r] # "idle" =>
    /\ Member(at[r], level[r]) /\ level[r] <= nheight[at[r]]
    /\ op[r] \in {"lower_bound", "find_near"} => Below(at[r], want[r])

(***************************************************************************)
(* Every read returns, although writers keep adding nodes in front of it:  *)
(* the arena bounds them.                                                  *)
(***************************************************************************)
ReadsReturn == \A r \in Readers : op[r] # "idle" ~> op[r] = "idle"
=============================================================================
