------------------------------ MODULE Timeline ------------------------------
(***************************************************************************)
(* The timeline (crates/stonedb-core/src/timeline.rs, feature "timeline"): *)
(* tasks emit events into a bounded channel, and whoever holds the receiver*)
(* serializes them, one line per event.                                    *)
(*                                                                         *)
(* The channel is tokio's mpsc, modelled from how Observable uses it: a    *)
(* sender takes one of BUFFER permits, waiting in line if there is none,   *)
(* and stores its event when it next runs; receiving an event passes its   *)
(* permit to the first sender in line.  A sender that finds the channel    *)
(* closed, or is in line when that happens, gets an error.                 *)
(***************************************************************************)
EXTENDS Integers, Sequences, FiniteSets

CONSTANTS
  Tasks,     \* the tasks that emit
  BUFFER,    \* Observable::new's argument
  Fields,    \* what events have in their own field seq
  EVENTS     \* bound: how many events are emitted

ASSUME TasksAssumption == IsFiniteSet(Tasks)
ASSUME BufferAssumption == BUFFER \in Nat \ {0}     \* mpsc::channel(0) panics
ASSUME EventsAssumption == EVENTS \in Nat

(***************************************************************************)
(* TimelineEvent: of the payload, only the field seq matters.  The events  *)
(* of the skip list and MemTableContains have none, MemTablePut and        *)
(* MemTableDelete have a number, MemTableGet has a number or null.         *)
(***************************************************************************)
NoField == -1
Null == -2
ASSUME FieldsAssumption == Fields \subseteq Nat \cup {NoField, Null}
NoEvent == [call |-> 0, seq |-> NoField]

VARIABLES
  pc,         \* where each task is in emit or try_emit
  event,      \* the event it has there
  calls,      \* how many calls there were: events are told apart by it
  permits,    \* the channel: permits that nobody holds
  line,       \* the channel: the senders waiting for one
  queue,      \* the channel: the events stored
  open,       \* the channel: whether the receiver exists
  taken,      \* the receiver's event: received and not yet written
  SEQ,        \* the static counter
  written,    \* the lines: the event, its number, and the line's field seq
  refused,    \* history: the events of try_emit calls that returned false
  returned,   \* history: the events whose emit or try_emit has returned
  before      \* history: pairs of events, the first one's emit had returned
              \*   when the second one's was called

channel == <<permits, line, queue, open>>
history == <<refused, returned, before>>
tvars == <<pc, event, calls, channel, taken, SEQ, written, history>>

Nothing == << >>                  \* the receiver has no event in its hands

Init ==
  /\ pc = [t \in Tasks |-> "idle"]
  /\ event = [t \in Tasks |-> NoEvent]
  /\ calls = 0
  /\ permits = BUFFER /\ line = << >> /\ queue = << >> /\ open = TRUE
  /\ taken = Nothing
  /\ SEQ = 0
  /\ written = << >>
  /\ refused = {} /\ returned = {} /\ before = {}

Goto(t, l) == pc' = [pc EXCEPT ![t] = l]
Return(e) == returned' = returned \cup {e}

\* A task calls emit or try_emit with a new event.
Call(t) ==
  /\ pc[t] = "idle" /\ calls < EVENTS
  /\ calls' = calls + 1
  /\ \E s \in Fields : event' = [event EXCEPT ![t] = [call |-> calls', seq |-> s]]
  /\ before' = before \cup {<<e, event'[t]>> : e \in returned}

\* Mutants: emit tries again when the channel is closed; or it hands its
\* event to a task of its own and returns.
EmitRetries(t) ==
  /\ Call(t)
  /\ IF open /\ permits > 0 THEN permits' = permits - 1 /\ Goto(t, "send")
                            ELSE UNCHANGED permits /\ Goto(t, "wait")
  /\ line' = IF open /\ permits = 0 THEN Append(line, t) ELSE line
  /\ UNCHANGED <<queue, open, taken, SEQ, written, refused, returned>>

SendLater(t) ==
  /\ Call(t) /\ open /\ permits > 0
  /\ permits' = permits - 1
  /\ Goto(t, "send")
  /\ Return(event'[t])
  /\ UNCHANGED <<line, queue, open, taken, SEQ, written, refused>>

(***************************************************************************)
(* emit: send waits for a permit.  Its error is ignored.                   *)
(***************************************************************************)
Emit(t) ==
  /\ Call(t)
  /\ \/ /\ open /\ permits > 0
        /\ permits' = permits - 1
        /\ Goto(t, "send")
        /\ UNCHANGED <<line, returned>>
     \/ /\ open /\ permits = 0
        /\ line' = Append(line, t)
        /\ Goto(t, "wait")
        /\ UNCHANGED <<permits, returned>>
     \/ /\ ~open
        /\ Return(event'[t])
        /\ UNCHANGED <<pc, permits, line>>
  /\ UNCHANGED <<queue, open, taken, SEQ, written, refused>>

\* Mutant: the answer is true although the channel had no room.
TryEmitAlways(t) ==
  /\ Call(t)
  /\ Return(event'[t])
  /\ IF open /\ permits > 0
       THEN permits' = permits - 1 /\ queue' = Append(queue, event'[t])
       ELSE UNCHANGED <<permits, queue>>
  /\ UNCHANGED <<pc, line, open, taken, SEQ, written, refused>>

(***************************************************************************)
(* try_emit: without a permit, or without a receiver, the answer is false. *)
(***************************************************************************)
TryEmit(t) ==
  /\ Call(t)
  /\ \/ /\ open /\ permits > 0
        /\ permits' = permits - 1
        /\ Goto(t, "send")
        /\ UNCHANGED <<returned, refused>>
     \/ /\ ~open \/ permits = 0
        /\ refused' = refused \cup {event'[t]}
        /\ Return(event'[t])
        /\ UNCHANGED <<pc, permits>>
  /\ UNCHANGED <<line, queue, open, taken, SEQ, written>>

\* The event is stored in the permit's slot: not in the order of the permits, and
\* also when the receiver has just gone.
Send(t) ==
  /\ pc[t] = "send"
  /\ queue' = IF open THEN Append(queue, event[t]) ELSE queue
  /\ Goto(t, "idle")
  /\ Return(event[t])
  /\ UNCHANGED <<event, calls, permits, line, open, taken, SEQ, written, refused, before>>

(***************************************************************************)
(* The receiver takes an event, and its permit goes to the first in line.  *)
(***************************************************************************)
Receive ==
  /\ open /\ taken = Nothing /\ queue # << >>
  /\ taken' = <<Head(queue)>>
  /\ queue' = Tail(queue)
  /\ IF line = << >>
       THEN permits' = permits + 1 /\ UNCHANGED <<line, pc>>
       ELSE Goto(Head(line), "send") /\ line' = Tail(line) /\ UNCHANGED permits
  /\ UNCHANGED <<event, calls, open, SEQ, written, history>>

(***************************************************************************)
(* serialize_event: the metadata with the next number, over which the      *)
(* event's own fields are laid.                                            *)
(***************************************************************************)
NextSeq == SEQ' = SEQ + 1

Merged(number, e) == IF e.seq = NoField THEN number ELSE e.seq

SerializeEvent ==
  /\ taken # Nothing
  /\ NextSeq
  /\ written' = Append(written,
       [event |-> taken[1], number |-> SEQ, seq |-> Merged(SEQ, taken[1])])
  /\ taken' = Nothing
  /\ UNCHANGED <<pc, event, calls, channel, history>>

\* The receiver is dropped, perhaps while its owner still holds an event: what is
\* stored is lost, and who waits gets an error.
DropReceiver ==
  /\ open
  /\ open' = FALSE
  /\ queue' = << >> /\ line' = << >>
  /\ pc' = [t \in Tasks |-> IF pc[t] = "wait" THEN "idle" ELSE pc[t]]
  /\ returned' = returned \cup {event[t] : t \in {u \in Tasks : pc[u] = "wait"}}
  /\ UNCHANGED <<event, calls, permits, taken, SEQ, written, refused, before>>

Next ==
  \/ \E t \in Tasks : Emit(t) \/ TryEmit(t) \/ Send(t)
  \/ Receive \/ SerializeEvent \/ DropReceiver

Spec == Init /\ [][Next]_tvars

\* The runtime polls every task that can go on, and the receiver goes on receiving
\* unless it is dropped.
FairSpec ==
  /\ Spec
  /\ WF_tvars(Receive) /\ WF_tvars(SerializeEvent)
  /\ \A t \in Tasks : WF_tvars(Send(t))

-----------------------------------------------------------------------------
\* The events that were accepted, in the order in which they are or will be written.
Written == [i \in DOMAIN written |-> written[i].event]
Stream == Written \o taken \o queue
Places(e) == {i \in DOMAIN Stream : Stream[i] = e}

(***************************************************************************)
(* Every event is accounted for, as long as there is a receiver: once its  *)
(* emit has returned it is in the stream exactly once, and it is not there *)
(* if try_emit returned false or has not returned yet.                     *)
(***************************************************************************)
Accounted ==
  /\ \A e \in returned :
       open => Cardinality(Places(e)) = IF e \in refused THEN 0 ELSE 1
  /\ \A i \in DOMAIN Stream : Stream[i] \in returned \ refused
  /\ open => permits + Len(queue) + Cardinality({t \in Tasks : pc[t] = "send"}) = BUFFER

(***************************************************************************)
(* If one event's emit had returned when another's was called, its line is *)
(* the earlier one, and so is its number (not its field seq), though tasks *)
(* store their events in any order.                                        *)
(***************************************************************************)
OrderKept ==
  /\ \A p \in before : \A i \in Places(p[1]), j \in Places(p[2]) : i < j
  /\ \A i, j \in DOMAIN written : i < j => written[i].number < written[j].number

(***************************************************************************)
(* emit waits for room (its doc says "fire-and-forget if buffer full"), but*)
(* not forever if the receiver goes on receiving, or is dropped; and the   *)
(* event that is accepted is then written.                                 *)
(***************************************************************************)
EmitReturns ==
  /\ \A t \in Tasks : pc[t] # "idle" ~> pc[t] = "idle"
  /\ \A n \in 1 .. EVENTS :
       (\E i \in DOMAIN Stream : Stream[i].call = n)
         ~> ~open \/ \E i \in DOMAIN written : Written[i].call = n

(***************************************************************************)
(* timeline.rs: "Global sequence counter for ordering events", which       *)
(* docs/timeline.md makes the field seq of a line: it orders the lines.    *)
(***************************************************************************)
SeqOrdersLines ==
  \A i, j \in DOMAIN written : i < j => written[i].seq < written[j].seq
=============================================================================
