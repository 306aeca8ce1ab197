------------------------------ MODULE SkipList ------------------------------
(***************************************************************************)
(* SkipList::put of crates/stonedb-core/src/skiplist/mod.rs: a skip list   *)
(* whose nodes live in a bump-pointer arena and are linked, level by level *)
(* from the bottom, with a compare-and-swap per level (concurrent writers) *)
(* or with plain stores (one writer at a time).  One action per access to  *)
(* shared memory, so that every interleaving of the writers is a behaviour.*)
(*                                                                         *)
(* A node is its arena offset, 0 is the null offset.  Offsets count tower  *)
(* slots: a node of height h takes h+1 of them, its header, key and value  *)
(* bytes are not counted (the byte layout does not matter to put).  Keys   *)
(* are integers: the comparator is a total order and nothing else of a key *)
(* is ever looked at.                                                      *)
(***************************************************************************)
EXTENDS Integers, FiniteSets

CONSTANTS
  Keys,                     \* the keys, ordered by the comparator
  Values,                   \* the values
  Writers,                  \* the threads that call put
  MAX_HEIGHT,               \* number of levels
  CAPACITY,                 \* size of the arena
  Modes,                    \* what allow_concurrent_write may be
  Absent                    \* what the abstract map holds for a missing key

NULL == 0
head == 1                   \* the first offset the arena hands out
Levels == 0 .. MAX_HEIGHT - 1
Offsets == 0 .. CAPACITY - 1

ASSUME KeysAssumption == Keys # {} /\ Keys \subseteq Int
ASSUME ValuesAssumption == Values # {} /\ Absent \notin Values
ASSUME SizesAssumption ==
  /\ MAX_HEIGHT \in Nat \ {0}
  /\ CAPACITY \in Nat
  /\ head + MAX_HEIGHT <= CAPACITY     \* with_capacity panics otherwise
ASSUME ModesAssumption == Modes \subseteq BOOLEAN

VARIABLES
  allow_concurrent_write,   \* CAS mode, or one writer at a time
  height,      \* SkiplistInner.height: the highest level searches start from
  ptr,         \* Arena.ptr: the next free offset
  tower,       \* tower[n][i]: successor of node n at level i
  back,        \* back[n]: the level-0 prev pointer of node n
  nkey, nval, nheight,      \* the immutable fields of node n
  linked,      \* history: linked[i] is the set of nodes linked at level i
  pc,          \* where each writer is in put
  key, value,  \* put's arguments
  top,         \* put's random height of the new node
  cur,         \* put's list_height, then current of the height CAS loop
  lvl,         \* the level i put works on
  before,      \* find_splice_for_level's cursor
  prev, next,  \* put's splice arrays
  mine,        \* put's node_offset
  result       \* what put returned

shared == <<allow_concurrent_write, height, ptr, tower, back, nkey, nval, nheight, linked>>
local  == <<pc, key, value, top, cur, lvl, before, prev, next, mine, result>>
vars   == <<shared, local>>

PCs == {"idle", "search", "alloc", "raise", "backlink", "setnext", "link",
        "research"}
Results == {"pending", "none", "conflict", "panic", "assert"}

AnyKey == CHOOSE k \in Keys : TRUE          \* contents of unused memory
AnyValue == CHOOSE v \in Values : TRUE
NoLinks == [i \in Levels |-> NULL]
NoSplice == [j \in 0 .. MAX_HEIGHT |-> NULL]

Init ==
  /\ allow_concurrent_write \in Modes
  /\ height = 0
  /\ ptr = head + MAX_HEIGHT                \* the head sentinel is allocated
  /\ tower = [n \in Offsets |-> NoLinks]
  /\ back = [n \in Offsets |-> NULL]
  /\ nkey = [n \in Offsets |-> AnyKey]
  /\ nval = [n \in Offsets |-> AnyValue]
  /\ nheight = [n \in Offsets |-> MAX_HEIGHT - 1]
  /\ linked = [i \in Levels |-> {}]
  /\ pc = [w \in Writers |-> "idle"]
  /\ key = [w \in Writers |-> AnyKey]
  /\ value = [w \in Writers |-> AnyValue]
  /\ top = [w \in Writers |-> 0]
  /\ cur = [w \in Writers |-> 0]
  /\ lvl = [w \in Writers |-> 0]
  /\ before = [w \in Writers |-> NULL]
  /\ prev = [w \in Writers |-> NoSplice]
  /\ next = [w \in Writers |-> NoSplice]
  /\ mine = [w \in Writers |-> NULL]
  /\ result = [w \in Writers |-> "pending"]

(***************************************************************************)
(* put returns r.  The dead locals are cleared; the arguments stay, so     *)
(* that properties can relate them to the answer.                          *)
(***************************************************************************)
Return(w, r) ==
  /\ pc' = [pc EXCEPT ![w] = "idle"]
  /\ result' = [result EXCEPT ![w] = r]
  /\ top' = [top EXCEPT ![w] = 0]
  /\ cur' = [cur EXCEPT ![w] = 0]
  /\ lvl' = [lvl EXCEPT ![w] = 0]
  /\ before' = [before EXCEPT ![w] = NULL]
  /\ prev' = [prev EXCEPT ![w] = NoSplice]
  /\ next' = [next EXCEPT ![w] = NoSplice]
  /\ mine' = [mine EXCEPT ![w] = NULL]
  /\ UNCHANGED <<key, value>>

\* Mutant: the level just above the list height is left out.
HeadAboveButOne(h) == [j \in 0 .. MAX_HEIGHT |-> IF j > h + 1 THEN head ELSE NULL]

\* put's prev array: above the list height the head is the predecessor.
HeadAbove(h) == [j \in 0 .. MAX_HEIGHT |-> IF j > h THEN head ELSE NULL]

(***************************************************************************)
(* put(k, v) with random height h: load the list height and start the      *)
(* search at that level from the head.  Without allow_concurrent_write the *)
(* caller guarantees a single writer.                                      *)
(***************************************************************************)
PutStart(w, k, v, h) ==
  /\ pc[w] = "idle"
  /\ allow_concurrent_write \/ \A u \in Writers : pc[u] = "idle"
  /\ pc' = [pc EXCEPT ![w] = "search"]
  /\ key' = [key EXCEPT ![w] = k]
  /\ value' = [value EXCEPT ![w] = v]
  /\ top' = [top EXCEPT ![w] = h]
  /\ cur' = [cur EXCEPT ![w] = height]
  /\ lvl' = [lvl EXCEPT ![w] = height]
  /\ prev' = [prev EXCEPT ![w] = HeadAbove(height)]
  /\ next' = [next EXCEPT ![w] = NoSplice]
  /\ before' = [before EXCEPT ![w] = head]
  /\ result' = [result EXCEPT ![w] = "pending"]
  /\ UNCHANGED <<shared, mine>>

(***************************************************************************)
(* find_splice_for_level: each iteration loads the successor of the        *)
(* cursor and compares its key.                                            *)
(***************************************************************************)
Searching(w) == pc[w] \in {"search", "research"}
Succ(w) == tower[before[w]][lvl[w]]

\* Ordering::Less: move the cursor on.
WalkOn(w) ==
  /\ Searching(w)
  /\ Succ(w) # NULL /\ nkey[Succ(w)] < key[w]
  /\ before' = [before EXCEPT ![w] = Succ(w)]
  /\ UNCHANGED <<shared, pc, key, value, top, cur, lvl, prev, next, mine, result>>

\* Mutant: an equal key ends the search like a greater one.
FoundSpliceAtEqual(w) ==
  /\ Searching(w)
  /\ Succ(w) = NULL \/ key[w] <= nkey[Succ(w)]
  /\ prev' = [prev EXCEPT ![w][lvl[w]] = before[w]]
  /\ next' = [next EXCEPT ![w][lvl[w]] = Succ(w)]
  /\ lvl' = [lvl EXCEPT ![w] = IF pc[w] = "search" /\ @ > 0 THEN @ - 1 ELSE @]
  /\ pc' = [pc EXCEPT ![w] = IF @ = "research" THEN "setnext"
                             ELSE IF lvl[w] = 0 THEN "alloc" ELSE @]
  /\ UNCHANGED <<shared, key, value, top, cur, before, mine, result>>

\* End of the level or Ordering::Greater: (before, successor) is the splice.
\* The search descends a level, starting from this splice's predecessor, and
\* after level 0 allocates; the search after a failed CAS tries again.
FoundSplice(w) ==
  /\ Searching(w)
  /\ Succ(w) = NULL \/ key[w] < nkey[Succ(w)]
  /\ prev' = [prev EXCEPT ![w][lvl[w]] = before[w]]
  /\ next' = [next EXCEPT ![w][lvl[w]] = Succ(w)]
  /\ \/ /\ pc[w] = "search" /\ lvl[w] > 0
        /\ lvl' = [lvl EXCEPT ![w] = @ - 1]
        /\ pc' = pc
     \/ /\ pc[w] = "search" /\ lvl[w] = 0
        /\ pc' = [pc EXCEPT ![w] = "alloc"]
        /\ lvl' = lvl
     \/ /\ pc[w] = "research"
        /\ pc' = [pc EXCEPT ![w] = "setnext"]
        /\ lvl' = lvl
  /\ UNCHANGED <<shared, key, value, top, cur, before, mine, result>>

\* Mutants: a put that lost a race for its key reports success; a put of the
\* value that is there already reports a conflict.
DuplicateIsSuccess(w) ==
  IF pc[w] = "research" THEN "none"
  ELSE IF nval[Succ(w)] = value[w] THEN "none" ELSE "conflict"
DuplicateIsConflict(w) == "conflict"

\* Ordering::Equal: the key is present.  The same value is a no-op, another
\* one a conflict.  After a failed CAS the code asserts that this is level 0;
\* the node allocated for the key is abandoned in the arena.
DuplicateResult(w) ==
  IF pc[w] = "research" /\ lvl[w] # 0 THEN "assert"
  ELSE IF nval[Succ(w)] = value[w] THEN "none" ELSE "conflict"

\* Mutant: a conflicting value overwrites the one that is there.
FoundDuplicateOverwrites(w) ==
  /\ Searching(w)
  /\ Succ(w) # NULL /\ nkey[Succ(w)] = key[w]
  /\ Return(w, DuplicateResult(w))
  /\ nval' = [nval EXCEPT ![Succ(w)] = value[w]]
  /\ UNCHANGED <<allow_concurrent_write, height, ptr, tower, back, nkey, nheight, linked>>

FoundDuplicate(w) ==
  /\ Searching(w)
  /\ Succ(w) # NULL /\ nkey[Succ(w)] = key[w]
  /\ Return(w, DuplicateResult(w))
  /\ UNCHANGED shared

(***************************************************************************)
(* alloc_node: take the node's slots from the arena and write its fields.  *)
(* Nobody else knows the offset yet, so the writes are one step with the   *)
(* allocation (the Arena module has the allocation's own CAS loop).        *)
(***************************************************************************)
NodeSize(h) == h + 1
Fits(h) == ptr + NodeSize(h) <= CAPACITY
AfterHeight == IF allow_concurrent_write THEN "setnext" ELSE "backlink"

AllocNode(w) ==
  /\ pc[w] = "alloc"
  /\ Fits(top[w])
  /\ ptr' = ptr + NodeSize(top[w])
  /\ mine' = [mine EXCEPT ![w] = ptr]
  /\ nkey' = [nkey EXCEPT ![ptr] = key[w]]
  /\ nval' = [nval EXCEPT ![ptr] = value[w]]
  /\ nheight' = [nheight EXCEPT ![ptr] = top[w]]
  /\ back' = [back EXCEPT ![ptr] = NULL]
  /\ tower' = [tower EXCEPT ![ptr] = NoLinks]
  /\ pc' = [pc EXCEPT ![w] = IF top[w] > cur[w] THEN "raise" ELSE AfterHeight]
  /\ UNCHANGED <<allow_concurrent_write, height, linked,
                 key, value, top, cur, lvl, before, prev, next, result>>

\* Arena out of memory: alloc panics before put has changed anything.
AllocPanic(w) ==
  /\ pc[w] = "alloc"
  /\ ~Fits(top[w])
  /\ Return(w, "panic")
  /\ UNCHANGED shared

(***************************************************************************)
(* Raising the list height: a CAS loop that gives up once another writer   *)
(* raised it high enough; a plain store with a single writer.  A spurious  *)
(* failure of the weak CAS changes nothing.                                *)
(***************************************************************************)
RaiseHeight(w) ==
  /\ pc[w] = "raise"
  /\ allow_concurrent_write => height = cur[w]
  /\ height' = top[w]
  /\ pc' = [pc EXCEPT ![w] = AfterHeight]
  /\ UNCHANGED <<allow_concurrent_write, ptr, tower, back, nkey, nval, nheight, linked,
                 key, value, top, cur, lvl, before, prev, next, mine, result>>

\* Mutant: a failed compare-and-swap is taken for "high enough already".
RaiseOnce(w) ==
  /\ pc[w] = "raise"
  /\ allow_concurrent_write /\ height # cur[w]
  /\ cur' = [cur EXCEPT ![w] = height]
  /\ pc' = [pc EXCEPT ![w] = AfterHeight]
  /\ UNCHANGED <<shared, key, value, top, lvl, before, prev, next, mine, result>>

RaiseRetry(w) ==
  /\ pc[w] = "raise"
  /\ allow_concurrent_write /\ height # cur[w]
  /\ cur' = [cur EXCEPT ![w] = height]
  /\ pc' = [pc EXCEPT ![w] = IF height < top[w] THEN "raise" ELSE AfterHeight]
  /\ UNCHANGED <<shared, key, value, top, lvl, before, prev, next, mine, result>>

(***************************************************************************)
(* Splicing in the new node, from level 0 up to its height.                *)
(***************************************************************************)

\* Mutant: the successor's prev pointer is left as it was.
BackLinkOwnOnly(w) ==
  /\ pc[w] = "backlink"
  /\ back' = [back EXCEPT ![mine[w]] = prev[w][0]]
  /\ pc' = [pc EXCEPT ![w] = "setnext"]
  /\ UNCHANGED <<allow_concurrent_write, height, ptr, tower, nkey, nval, nheight, linked,
                 key, value, top, cur, lvl, before, prev, next, mine, result>>

\* Single writer, level 0: the node's prev pointer, then its successor's.  The
\* first store is private to the writer until the second one publishes it.
BackLink(w) ==
  /\ pc[w] = "backlink"
  /\ LET n == next[w][0] IN
       back' = [o \in Offsets |-> IF o = mine[w] THEN prev[w][0]
                                  ELSE IF o = n /\ n # NULL THEN mine[w]
                                  ELSE back[o]]
  /\ pc' = [pc EXCEPT ![w] = "setnext"]
  /\ UNCHANGED <<allow_concurrent_write, height, ptr, tower, nkey, nval, nheight, linked,
                 key, value, top, cur, lvl, before, prev, next, mine, result>>

\* Mutant: the new node is published without its forward pointer.
SetNextForgotten(w) ==
  /\ pc[w] = "setnext"
  /\ pc' = [pc EXCEPT ![w] = "link"]
  /\ UNCHANGED <<shared, key, value, top, cur, lvl, before, prev, next, mine, result>>

\* The new node's own forward pointer.
SetNext(w) ==
  /\ pc[w] = "setnext"
  /\ tower' = [tower EXCEPT ![mine[w]][lvl[w]] = next[w][lvl[w]]]
  /\ pc' = [pc EXCEPT ![w] = "link"]
  /\ UNCHANGED <<allow_concurrent_write, height, ptr, back, nkey, nval, nheight, linked,
                 key, value, top, cur, lvl, before, prev, next, mine, result>>

CanLinkAlways(w) == TRUE        \* mutant: a store in place of the CAS

\* The predecessor's forward pointer: the CAS that succeeds, or the store.
CanLink(w) ==
  allow_concurrent_write => tower[prev[w][lvl[w]]][lvl[w]] = next[w][lvl[w]]

Link(w) ==
  /\ pc[w] = "link"
  /\ CanLink(w)
  /\ tower' = [tower EXCEPT ![prev[w][lvl[w]]][lvl[w]] = mine[w]]
  /\ linked' = [linked EXCEPT ![lvl[w]] = @ \cup {mine[w]}]
  /\ \/ /\ lvl[w] < top[w]
        /\ lvl' = [lvl EXCEPT ![w] = @ + 1]
        /\ pc' = [pc EXCEPT ![w] = "setnext"]
        /\ UNCHANGED <<key, value, top, cur, before, prev, next, mine, result>>
     \/ /\ lvl[w] = top[w]
        /\ Return(w, "none")
  /\ UNCHANGED <<allow_concurrent_write, height, ptr, back, nkey, nval, nheight>>

\* Mutants: the CAS is tried again with the successor reloaded but the old
\* predecessor; or with the old predecessor and the old successor.
LinkFailReload(w) ==
  /\ pc[w] = "link"
  /\ ~CanLink(w)
  /\ next' = [next EXCEPT ![w][lvl[w]] = tower[prev[w][lvl[w]]][lvl[w]]]
  /\ pc' = [pc EXCEPT ![w] = "setnext"]
  /\ UNCHANGED <<shared, key, value, top, cur, lvl, before, prev, mine, result>>
LinkFailSpin(w) ==
  /\ pc[w] = "link"
  /\ ~CanLink(w)
  /\ pc' = [pc EXCEPT ![w] = "setnext"]
  /\ UNCHANGED <<shared, key, value, top, cur, lvl, before, prev, next, mine, result>>

\* The CAS failed: search this level again from the old predecessor.
LinkFail(w) ==
  /\ pc[w] = "link"
  /\ ~CanLink(w)
  /\ before' = [before EXCEPT ![w] = prev[w][lvl[w]]]
  /\ pc' = [pc EXCEPT ![w] = "research"]
  /\ UNCHANGED <<shared, key, value, top, cur, lvl, prev, next, mine, result>>

(***************************************************************************)
(* The writers call put at any time; a put in progress keeps running.      *)
(***************************************************************************)
Call(w) == \E k \in Keys, v \in Values, h \in Levels : PutStart(w, k, v, h)

Work(w) ==
  \/ WalkOn(w)
  \/ FoundSplice(w)
  \/ FoundDuplicate(w)
  \/ AllocNode(w)
  \/ AllocPanic(w)
  \/ RaiseHeight(w)
  \/ RaiseRetry(w)
  \/ BackLink(w)
  \/ SetNext(w)
  \/ Link(w)
  \/ LinkFail(w)

Next == \E w \in Writers : Call(w) \/ Work(w)

Spec == Init /\ [][Next]_vars

\* The operating system schedules every runnable thread.
Fairness == \A w \in Writers : WF_vars(Work(w))
FairSpec == Spec /\ Fairness

-----------------------------------------------------------------------------
TypeOK ==
  /\ allow_concurrent_write \in Modes
  /\ height \in Levels
  /\ ptr \in head + MAX_HEIGHT .. CAPACITY
  /\ tower \in [Offsets -> [Levels -> Offsets]]
  /\ back \in [Offsets -> Offsets]
  /\ nkey \in [Offsets -> Keys]
  /\ nval \in [Offsets -> Values]
  /\ nheight \in [Offsets -> Levels]
  /\ linked \in [Levels -> SUBSET Offsets]
  /\ pc \in [Writers -> PCs]
  /\ key \in [Writers -> Keys]
  /\ value \in [Writers -> Values]
  /\ top \in [Writers -> Levels]
  /\ cur \in [Writers -> Levels]
  /\ lvl \in [Writers -> Levels]
  /\ before \in [Writers -> Offsets]
  /\ prev \in [Writers -> [0 .. MAX_HEIGHT -> Offsets]]
  /\ next \in [Writers -> [0 .. MAX_HEIGHT -> Offsets]]
  /\ mine \in [Writers -> Offsets]
  /\ result \in [Writers -> Results]

(***************************************************************************)
(* Reachable(i): what a traversal of level i from the head visits.         *)
(***************************************************************************)
Reachable(i) ==
  LET visited[d \in 0 .. CAPACITY] ==
        IF d = 0 THEN {head}
        ELSE LET s == visited[d - 1]
             IN s \cup ({tower[n][i] : n \in s} \ {NULL})
  IN visited[CAPACITY] \ {head}

\* The node n comes before every key k that is compared with it: the head
\* does, whatever k is.
Below(n, k) == n = head \/ nkey[n] < k

\* The writer owns a node that is not completely linked yet.
Splicing(w) == pc[w] \in {"raise", "backlink", "setnext", "link", "research"}

(***************************************************************************)
(* No write is lost, at any level and at any time: traversing a level      *)
(* visits exactly the nodes whose CAS (or store) succeeded there, although *)
(* other writers splice around them.  (Both CAS retry bugs of              *)
(* docs/postmortems/skiplist-cas-retry-bug.md break this.)                 *)
(***************************************************************************)
NothingLost == \A i \in Levels : Reachable(i) = linked[i]

(***************************************************************************)
(* Each level is strictly increasing: concurrent writers of the same key   *)
(* never link two nodes for it, and never splice out of order.             *)
(***************************************************************************)
StrictlySorted ==
  \A i \in Levels : \A n \in linked[i] :
    tower[n][i] # NULL => nkey[n] < nkey[tower[n][i]]

(***************************************************************************)
(* A level only has nodes of the level below, so whatever is found above   *)
(* level 0 is complete below, and no search starts below a linked level:   *)
(* the height CAS loop and the splice loop never leave a level unsearched. *)
(***************************************************************************)
TowersNested ==
  \A i \in Levels :
    /\ i > 0 => linked[i] \subseteq linked[i - 1]
    /\ linked[i] # {} => i <= height

(***************************************************************************)
(* An acknowledged put is in the list with the value acknowledged, and a   *)
(* conflict is only reported for a key that has another value, however     *)
(* the writers raced; the key keeps that value.                            *)
(***************************************************************************)
Stored(k, v) == \E n \in linked[0] : nkey[n] = k /\ nval[n] = v

AckedIsStored ==
  \A w \in Writers : pc[w] = "idle" =>
    /\ result[w] = "none" => Stored(key[w], value[w])
    /\ result[w] = "conflict" =>
         \E v \in Values \ {value[w]} : Stored(key[w], v)

(***************************************************************************)
(* The assertion assert_eq!(i, 0) of the CAS retry never fails: a          *)
(* duplicate key can only turn up at level 0, before the writer's own node *)
(* is linked anywhere.                                                     *)
(***************************************************************************)
DuplicateOnlyAtBottom == \A w \in Writers : result[w] # "assert"

(***************************************************************************)
(* No tower slot is read or written above its node's height: beyond the    *)
(* tower lie the node's key bytes.  Also, the splice arrays never hold the *)
(* null offset when a level is linked, so the re-initialisation of a zero  *)
(* prev[i] in put is never needed.                                         *)
(***************************************************************************)
TowerAccessInBounds ==
  \A w \in Writers :
    /\ Searching(w) => before[w] # NULL /\ lvl[w] <= nheight[before[w]]
    /\ pc[w] \in {"setnext", "link"} =>
         /\ lvl[w] <= nheight[mine[w]]
         /\ prev[w][lvl[w]] # NULL
         /\ lvl[w] <= nheight[prev[w][lvl[w]]]

(***************************************************************************)
(* Nodes are immutable once linked, and stay linked (mod.rs, SkipList).    *)
(***************************************************************************)
LinkedNodesStay ==
  [][\A i \in Levels : \A n \in linked[i] :
       n \in linked'[i] /\ nkey'[n] = nkey[n] /\ nval'[n] = nval[n]]_vars

(***************************************************************************)
(* With a single writer, the prev pointers are the inverse of the level-0  *)
(* list whenever no put is running.                                        *)
(***************************************************************************)
BackLinksInverse ==
  ~allow_concurrent_write /\ (\A w \in Writers : pc[w] = "idle") =>
    \A n \in linked[0] \cup {head} :
      tower[n][0] # NULL => back[tower[n][0]] = n

(***************************************************************************)
(* Every put returns, whatever the other writers do: a CAS only fails when *)
(* another writer's has succeeded, and the arena bounds the successes.     *)
(***************************************************************************)
PutReturns == \A w \in Writers : pc[w] # "idle" ~> pc[w] = "idle"

(***************************************************************************)
(* Every put is linearizable: it takes effect when its node is linked at   *)
(* level 0, or when the search meets the node that has its key.            *)
(***************************************************************************)
MapOf == [k \in Keys |->
  IF \E n \in linked[0] : nkey[n] = k
  THEN nval[CHOOSE n \in linked[0] : nkey[n] = k] ELSE Absent]

InEffect(w) == Splicing(w) /\ mine[w] \in linked[0]

StatusOf == [w \in Writers |->
  IF pc[w] = "idle" THEN "idle" ELSE IF InEffect(w) THEN "done" ELSE "called"]

ResultOf == [w \in Writers |-> IF InEffect(w) THEN "none" ELSE result[w]]

Map == INSTANCE InsertOnlyMap
         WITH map <- MapOf, status <- StatusOf, result <- ResultOf

Linearizable == Map!Spec

-----------------------------------------------------------------------------
(***************************************************************************)
(* The inductive invariant.  Reachability is not inductive by itself; what *)
(* is, is a local fact about each linked node: its successor is linked on  *)
(* the same level and no linked node lies between the two (NoGap).         *)
(***************************************************************************)
Member(n, i) == n = head \/ n \in linked[i]

\* The linked nodes are allocated, complete below, and have unique keys; the
\* head reaches every level.
LinkedNodes ==
  /\ \A i \in Levels : \A n \in linked[i] :
       /\ head < n /\ n < ptr
       /\ i <= nheight[n] /\ i <= height
       /\ \A j \in Levels : j < i => n \in linked[j]
  /\ \A m, n \in linked[0] : nkey[m] = nkey[n] => m = n
  /\ nheight[head] = MAX_HEIGHT - 1

\* Successors are linked, larger, and the next ones.
NoGap ==
  \A i \in Levels : \A n \in Offsets : Member(n, i) =>
    /\ tower[n][i] # NULL =>
         tower[n][i] \in linked[i] /\ Below(n, nkey[tower[n][i]])
    /\ \A m \in linked[i] : Below(n, nkey[m]) =>
         tower[n][i] # NULL /\ nkey[tower[n][i]] <= nkey[m]

\* (p, n) is where the key k goes on level i, or was when it was looked up.
Brackets(p, n, k, i) ==
  /\ Member(p, i) /\ Below(p, k)
  /\ n # NULL => n \in linked[i] /\ k < nkey[n]

\* Where each writer's search stands, and the splices it has found.
Placed(w) ==
  /\ Searching(w) => Member(before[w], lvl[w]) /\ Below(before[w], key[w])
  /\ pc[w] # "idle" => \A j \in Levels :
       (pc[w] = "search" => lvl[w] < j) /\ lvl[w] <= j =>
         Brackets(prev[w][j], next[w][j], key[w], j)

\* The node each writer has allocated: private above the levels linked.
Owned(w) ==
  Splicing(w) =>
    /\ head < mine[w] /\ mine[w] < ptr
    /\ nkey[mine[w]] = key[w] /\ nval[mine[w]] = value[w]
    /\ nheight[mine[w]] = top[w]
    /\ lvl[w] <= top[w]
    /\ \A j \in Levels : mine[w] \in linked[j] <=> j < lvl[w]
    /\ pc[w] \in {"raise", "backlink"} => lvl[w] = 0
    /\ pc[w] = "raise" => cur[w] <= height /\ cur[w] < top[w]
    /\ pc[w] # "raise" => top[w] <= height
    /\ pc[w] = "link" => tower[mine[w]][lvl[w]] = next[w][lvl[w]]

Phase(w) ==
  /\ pc[w] = "alloc" => lvl[w] = 0 /\ cur[w] <= height
  /\ pc[w] = "search" => lvl[w] <= cur[w] /\ cur[w] <= height
  /\ pc[w] = "research" => allow_concurrent_write
  /\ result[w] # "assert"

\* Two writers never own the same node.
Distinct ==
  \A u, w \in Writers : u # w /\ Splicing(u) /\ Splicing(w) => mine[u] # mine[w]

\* A single writer's splices stay current, since nobody else links.
Alone(w) ==
  ~allow_concurrent_write /\ pc[w] # "idle" =>
    /\ \A u \in Writers : pc[u] # "idle" => u = w
    /\ pc[w] \in {"search", "alloc", "raise"} => cur[w] = height
    /\ \A j \in Levels :
         (pc[w] = "search" => lvl[w] < j) /\ lvl[w] <= j =>
           tower[prev[w][j]][j] = next[w][j]

IInv ==
  /\ TypeOK
  /\ LinkedNodes
  /\ NoGap
  /\ \A w \in Writers : Placed(w) /\ Owned(w) /\ Phase(w) /\ Alone(w)
  /\ Distinct
=============================================================================
