---------------------------- MODULE BumpAllocator ----------------------------
(***************************************************************************)
(* What Arena::alloc promises its callers, as one atomic step: the next    *)
(* free bytes of the arena, as many as asked for, or a panic if they do    *)
(* not suffice.                                                            *)
(***************************************************************************)
EXTENDS Integers, Sequences

CONSTANTS Threads, Sizes, CAPACITY

VARIABLES
  free,      \* the first byte not handed out
  granted,   \* the regions handed out, oldest first
  size,      \* each thread's request
  status,    \* "called" while the request is unanswered, then "granted" or
             \* "panicked"
  offset     \* the offset it was given

bvars == <<free, granted, size, status, offset>>

Init ==
  /\ free = 8
  /\ granted = << >>
  /\ size = [t \in Threads |-> 0]
  /\ status = [t \in Threads |-> "idle"]
  /\ offset = [t \in Threads |-> 0]

Request(t) ==
  /\ status[t] # "called"
  /\ \E s \in Sizes : size' = [size EXCEPT ![t] = s]
  /\ status' = [status EXCEPT ![t] = "called"]
  /\ offset' = [offset EXCEPT ![t] = 0]
  /\ UNCHANGED <<free, granted>>

Grant(t) ==
  /\ status[t] = "called"
  /\ free + size[t] <= CAPACITY
  /\ free' = free + size[t]
  /\ granted' = Append(granted, [off |-> free, len |-> size[t]])
  /\ offset' = [offset EXCEPT ![t] = free]
  /\ status' = [status EXCEPT ![t] = "granted"]
  /\ UNCHANGED size

Refuse(t) ==
  /\ status[t] = "called"
  /\ free + size[t] > CAPACITY
  /\ status' = [status EXCEPT ![t] = "panicked"]
  /\ UNCHANGED <<free, granted, size, offset>>

Next == \E t \in Threads : Request(t) \/ Grant(t) \/ Refuse(t)

Spec == Init /\ [][Next]_bvars
=============================================================================
