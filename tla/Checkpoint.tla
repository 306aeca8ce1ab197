----------------------------- MODULE Checkpoint -----------------------------
(***************************************************************************)
(* Checkpoint of crates/concurrent-test-framework/src/lib.rs, as a test    *)
(* build has it: threads that call wait are asked to stop there until the  *)
(* test releases them or their patience ends.  A step is one access to the *)
(* released flag or one critical section of a mutex (hook, captures,       *)
(* waiting).  One test thread calls release_all and reset.                 *)
(***************************************************************************)
EXTENDS Integers, Sequences, FiniteSets

CONSTANTS
  Threads,   \* the threads under test
  CALLS      \* bound: how often each of them calls wait

ASSUME ThreadsAssumption == IsFiniteSet(Threads)
ASSUME CallsAssumption == CALLS \in Nat

VARIABLES
  released,   \* BlockingState.released
  waiting,    \* BlockingState.waiting
  captures,   \* CaptureList.inner
  poisoned,   \* the hook's mutex: the hook has panicked
  pc,         \* where each thread is in wait
  decision,   \* what the hook decided
  calls,      \* how many calls of wait each thread has begun
  result,     \* what its last wait returned
  test,       \* where the test thread is in release_all or reset
  cleared,    \* history: the captures were cleared since this wait began
  owed,       \* history: about to look at the flag when release_all last set it
  again       \* history: release_all has been called, and reset after it

threadvars == <<pc, decision, calls, result>>
cells == <<released, waiting, captures, poisoned>>
history == <<cleared, owed, again>>
cvars == <<cells, threadvars, test, history>>

Decisions == {"CaptureAndBlock", "BlockWithoutCapture", "Proceed"}

Init ==
  /\ released = FALSE
  /\ waiting = 0
  /\ captures = << >>
  /\ poisoned = FALSE
  /\ pc = [t \in Threads |-> "idle"]
  /\ decision = [t \in Threads |-> "Proceed"]
  /\ calls = [t \in Threads |-> 0]
  /\ result = [t \in Threads |-> "None"]
  /\ test = "idle"
  /\ cleared = {}
  /\ owed = {}
  /\ again = "never"

Value(t) == <<t, calls[t]>>          \* what thread t's call provides

Goto(t, l) == pc' = [pc EXCEPT ![t] = l]

(***************************************************************************)
(* wait: the hook decides, under its mutex.                                *)
(***************************************************************************)
Call(t) ==
  /\ pc[t] = "idle" /\ calls[t] < CALLS
  /\ calls' = [calls EXCEPT ![t] = @ + 1]
  /\ result' = [result EXCEPT ![t] = "None"]
  /\ cleared' = cleared \ {t}
  /\ UNCHANGED <<released, waiting, test, owed, again>>

Enter(t) ==
  /\ Call(t) /\ ~poisoned
  /\ \E d \in Decisions :
       /\ decision' = [decision EXCEPT ![t] = d]
       /\ Goto(t, CASE d = "CaptureAndBlock" -> "capture"
                    [] d = "BlockWithoutCapture" -> "count"
                    [] d = "Proceed" -> "idle")
  /\ UNCHANGED <<captures, poisoned>>

\* Mutant: the value is captured for the hook to look at.
CaptureThenPanic(t) ==
  /\ Call(t)
  /\ poisoned' = TRUE
  /\ captures' = Append(captures, <<t, calls[t] + 1>>)
  /\ Goto(t, "crashed")
  /\ UNCHANGED decision

\* A test's hook may assert something and panic.  Its mutex is then poisoned, and
\* every later wait panics when it locks it.
HookPanic(t) ==
  /\ Call(t)
  /\ poisoned' = TRUE
  /\ Goto(t, "crashed")
  /\ UNCHANGED <<captures, decision>>

\* Mutant: the value of the thread that captured last is replaced.
CaptureLast(t) ==
  /\ pc[t] = "capture"
  /\ captures' = <<Value(t)>>
  /\ Goto(t, "count")
  /\ UNCHANGED <<released, waiting, poisoned, decision, calls, result, test, history>>

CapturePush(t) ==
  /\ pc[t] = "capture"
  /\ captures' = Append(captures, Value(t))
  /\ Goto(t, "count")
  /\ UNCHANGED <<released, waiting, poisoned, decision, calls, result, test, history>>

\* Mutant: threads that are not captured are not counted.
CountCaptured(t) ==
  /\ pc[t] = "count"
  /\ waiting' = IF decision[t] = "CaptureAndBlock" THEN waiting + 1 ELSE waiting
  /\ Goto(t, "poll")
  /\ UNCHANGED <<released, captures, poisoned, decision, calls, result, test, history>>

\* wait_for_release: count the thread, then look at the flag until it is set.
Count(t) ==
  /\ pc[t] = "count"
  /\ waiting' = waiting + 1
  /\ Goto(t, "poll")
  /\ UNCHANGED <<released, captures, poisoned, decision, calls, result, test, history>>

PollReleased(t) ==
  /\ pc[t] = "poll" /\ released
  /\ result' = [result EXCEPT ![t] =
                  IF decision[t] = "CaptureAndBlock" THEN "Some" ELSE "None"]
  /\ owed' = owed \ {t}
  /\ Goto(t, "idle")
  /\ UNCHANGED <<cells, decision, calls, test, cleared, again>>

PollBlocked(t) ==
  /\ pc[t] = "poll" /\ ~released
  /\ Goto(t, "late")
  /\ UNCHANGED <<cells, decision, calls, result, test, history>>

\* Mutants: the clock is looked at before the flag; or never.
TimeOutFirst(t) ==
  /\ pc[t] \in {"poll", "late"}
  /\ Goto(t, "panicked")
  /\ UNCHANGED <<cells, decision, calls, result, test, history>>
TimeOutNever(t) == FALSE /\ UNCHANGED cvars

\* The flag was not set: panic if the time is over, else sleep and look again.
TimeOut(t) ==
  /\ pc[t] = "late"
  /\ Goto(t, "panicked")
  /\ UNCHANGED <<cells, decision, calls, result, test, history>>

Sleep(t) ==
  /\ pc[t] = "late"
  /\ Goto(t, "poll")
  /\ UNCHANGED <<cells, decision, calls, result, test, history>>

(***************************************************************************)
(* The test: release_all sets the flag, then zeroes the count; reset takes *)
(* the flag back, then clears the captures.                                *)
(***************************************************************************)
ReleaseAll ==
  /\ test = "idle"
  /\ released' = TRUE
  /\ owed' = {t \in Threads : pc[t] = "poll"}
  /\ again' = "no"
  /\ test' = "zero"
  /\ UNCHANGED <<poisoned, waiting, captures, threadvars, cleared>>

ReleaseZero ==
  /\ test = "zero"
  /\ waiting' = 0
  /\ test' = "idle"
  /\ UNCHANGED <<released, captures, poisoned, threadvars, history>>

Reset ==
  /\ test = "idle"
  /\ released' = FALSE
  /\ again' = IF again = "never" THEN "never" ELSE "yes"
  /\ test' = "clear"
  /\ UNCHANGED <<poisoned, waiting, captures, threadvars, cleared, owed>>

ResetClear ==
  /\ test = "clear"
  /\ captures' = << >>
  /\ cleared' = Threads
  /\ test' = "idle"
  /\ UNCHANGED <<poisoned, released, waiting, threadvars, owed, again>>

Wait(t) ==
  \/ CapturePush(t) \/ Count(t) \/ PollReleased(t) \/ PollBlocked(t)
  \/ TimeOut(t) \/ Sleep(t)

Test == ReleaseAll \/ ReleaseZero \/ Reset \/ ResetClear

Next == Test \/ \E t \in Threads : Enter(t) \/ HookPanic(t) \/ Wait(t)

Spec == Init /\ [][Next]_cvars

\* Threads are scheduled, and the time of a thread that waits runs out.
FairSpec ==
  Spec /\ \A t \in Threads : WF_cvars(Wait(t)) /\ SF_cvars(TimeOut(t))

-----------------------------------------------------------------------------
Blocked(t) == pc[t] \in {"poll", "late"}

(***************************************************************************)
(* Whoever sees a thread blocked and counted, or its wait returned with a  *)
(* value, finds that value among the captures, as the framework's own test *)
(* does when it waits for waiting_count() and then reads captures()        *)
(* (test_capture_and_block), unless they were cleared since; and finds it  *)
(* once.  Of a wait in which the hook panicked, it finds nothing.          *)
(***************************************************************************)
CapturedWhenCounted ==
  \A t \in Threads :
    LET found == {i \in DOMAIN captures : captures[i] = Value(t)} IN
    /\ decision[t] = "CaptureAndBlock" /\ (Blocked(t) \/ result[t] = "Some") =>
         IF t \in cleared THEN Cardinality(found) <= 1 ELSE Cardinality(found) = 1
    /\ pc[t] = "crashed" => found = {}

(***************************************************************************)
(* Before the first release_all, waiting_count() is the number of threads  *)
(* that are blocked, or have timed out, exactly; those that panicked in    *)
(* the hook or after it do not count.                                      *)
(***************************************************************************)
CountExact ==
  again = "never" =>
    waiting = Cardinality({t \in Threads : Blocked(t) \/ pc[t] = "panicked"})

(***************************************************************************)
(* A thread that had yet to look at the flag when release_all last set it  *)
(* does not find it unset, let alone time out, unless the checkpoint was   *)
(* reset meanwhile.                                                        *)
(***************************************************************************)
ReleasedUnlessReset ==
  \A t \in owed : pc[t] \in {"late", "panicked"} => again = "yes"

(***************************************************************************)
(* A test that forgets release_all does not hang: every wait ends, with a  *)
(* panic if need be; also when the hook has panicked for another thread.   *)
(***************************************************************************)
WaitEnds ==
  \A t \in Threads : pc[t] # "idle" ~> pc[t] \in {"idle", "panicked", "crashed"}
=============================================================================
