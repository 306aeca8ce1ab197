-------------------------- MODULE Timeline_proofs --------------------------
(***************************************************************************)
(* Proofs about Timeline, for every finite set of tasks, size of the       *)
(* channel, number of events and fields.                                   *)
(***************************************************************************)
EXTENDS Timeline, FiniteSetTheorems, SequenceTheorems, TLAPS

Events == [call : Nat, seq : Fields \cup {NoField}]
Lines == [event : Events, number : Nat, seq : Int]

Opened == open \in BOOLEAN

TypeOK ==
  /\ Opened
  /\ pc \in [Tasks -> {"idle", "wait", "send"}]
  /\ event \in [Tasks -> Events]
  /\ calls \in Nat /\ permits \in Nat /\ SEQ \in Nat
  /\ line \in Seq(Tasks) /\ queue \in Seq(Events)
  /\ taken \in Seq(Events) /\ Len(taken) <= 1
  /\ written \in Seq(Lines)
  /\ returned \subseteq Events /\ refused \subseteq Events
  /\ before \subseteq Events \X Events

\* Events are told apart by their call; those in emit have not returned.
EventsKnown ==
  /\ refused \subseteq returned
  /\ \A e \in returned : e.call <= calls
  /\ \A p \in before : p[1] \in returned
  /\ \A t \in Tasks : pc[t] # "idle" =>
       /\ event[t].call <= calls /\ event[t] \notin returned
       /\ \A u \in Tasks \ {t} : pc[u] # "idle" => event[u] # event[t]

\* The stream has what was accepted, once, and in order.
StreamKnown ==
  /\ \A i \in DOMAIN Stream : Stream[i] \in returned \ refused
  /\ \A i, j \in DOMAIN Stream : Stream[i] = Stream[j] => i = j
  /\ open => \A e \in returned \ refused : \E i \in DOMAIN Stream : Stream[i] = e
  /\ \A p \in before : \A i, j \in DOMAIN Stream :
       Stream[i] = p[1] /\ Stream[j] = p[2] => i < j

NumbersKnown ==
  /\ \A i \in DOMAIN written : written[i].number < SEQ
  /\ \A i, j \in DOMAIN written : i < j => written[i].number < written[j].number

\* The permits are in the channel, with a task, or with an event that is stored.
Senders == {t \in Tasks : pc[t] = "send"}

PermitsKnown ==
  /\ open => permits + Len(queue) + Cardinality(Senders) = BUFFER
  /\ \A i \in DOMAIN line : pc[line[i]] = "wait"
  /\ \A i, j \in DOMAIN line : line[i] = line[j] => i = j

IInv == TypeOK /\ EventsKnown /\ StreamKnown /\ NumbersKnown /\ PermitsKnown

LEMMA InitIInv == Init => IInv
<1> SUFFICES ASSUME Init PROVE IInv
  OBVIOUS
<1>0. Opened
  BY DEF Init, Opened
<1>1. TypeOK
  <2>1. event \in [Tasks -> Events]
    BY DEF Init, Events, NoEvent
  <2>2. QED
    BY <1>0, <2>1, BufferAssumption DEF Init, TypeOK, Nothing
<1>2. EventsKnown
  BY DEF Init, EventsKnown
<1>3. Stream = << >>
  BY DEF Init, Stream, Written, Nothing
<1>4. StreamKnown
  BY <1>3 DEF Init, StreamKnown
<1>5. NumbersKnown
  BY DEF Init, NumbersKnown
<1>6. PermitsKnown
  <2>1. Senders = {}
    BY DEF Init, Senders
  <2>2. Cardinality(Senders) = 0
    BY <2>1, FS_EmptySet
  <2>3. QED
    BY <2>2, BufferAssumption DEF Init, PermitsKnown
<1>7. QED
  BY <1>1, <1>2, <1>4, <1>5, <1>6 DEF IInv

\* A call is of an event that nobody has seen.
LEMMA CallFacts ==
  ASSUME TypeOK, NEW t \in Tasks, Call(t)
  PROVE  /\ pc[t] = "idle" /\ calls' = calls + 1
         /\ event' \in [Tasks -> Events]
         /\ event'[t].call = calls + 1
         /\ \A u \in Tasks \ {t} : event'[u] = event[u]
         /\ before' = before \cup {<<e, event'[t]>> : e \in returned}
<1>1. pc[t] = "idle" /\ calls' = calls + 1
  BY DEF Call
<1>2. PICK s \in Fields : event' = [event EXCEPT ![t] = [call |-> calls', seq |-> s]]
  BY DEF Call
<1>3. [call |-> calls', seq |-> s] \in Events
  BY <1>1 DEF TypeOK, Events
<1>4. QED
  BY <1>1, <1>2, <1>3 DEF TypeOK, Call

\* The three ways in which emit and try_emit go on after the call.
Begin(t, l) ==
  /\ Call(t)
  /\ pc' = [pc EXCEPT ![t] = l]
  /\ UNCHANGED <<queue, open, taken, SEQ, written, refused, returned>>

LEMMA EmitCases ==
  ASSUME NEW t \in Tasks, Emit(t) \/ TryEmit(t)
  PROVE  \/ Begin(t, "send") /\ open /\ permits > 0 /\ permits' = permits - 1 /\ line' = line
         \/ Begin(t, "wait") /\ open /\ permits' = permits /\ line' = Append(line, t)
         \/ /\ Call(t) /\ returned' = returned \cup {event'[t]}
            /\ refused' = refused /\ ~open
            /\ UNCHANGED <<pc, permits, line, queue, open, taken, SEQ, written>>
         \/ /\ Call(t) /\ returned' = returned \cup {event'[t]}
            /\ refused' = refused \cup {event'[t]}
            /\ UNCHANGED <<pc, permits, line, queue, open, taken, SEQ, written>>
  BY DEF Emit, TryEmit, Begin, Goto, Return

LEMMA Steps ==
  ASSUME [Next]_tvars
  PROVE  \/ \E t \in Tasks : Emit(t) \/ TryEmit(t)
         \/ \E t \in Tasks : Send(t)
         \/ Receive \/ SerializeEvent \/ DropReceiver
         \/ UNCHANGED tvars
  BY DEF Next

(***************************************************************************)
(* Type correctness.                                                       *)
(***************************************************************************)
LEMMA OpenedStep == ASSUME Opened, [Next]_tvars PROVE Opened'
<1>1. ASSUME NEW t \in Tasks, Emit(t) \/ TryEmit(t) \/ Send(t) PROVE Opened'
  BY <1>1 DEF Opened, Emit, TryEmit, Send
<1>2. CASE Receive \/ SerializeEvent \/ DropReceiver
  BY <1>2 DEF Opened, Receive, SerializeEvent, DropReceiver, channel
<1>3. CASE UNCHANGED tvars
  BY <1>3 DEF Opened, tvars, channel
<1>4. QED
  BY <1>1, <1>2, <1>3, Steps

LEMMA TypeStep == ASSUME TypeOK, [Next]_tvars PROVE TypeOK'
<1> Opened'
  BY OpenedStep DEF TypeOK
<1>1. ASSUME NEW t \in Tasks, Emit(t) \/ TryEmit(t) PROVE TypeOK'
  <2>1. Call(t)
    BY <1>1 DEF Emit, TryEmit
  <2>2. event' \in [Tasks -> Events] /\ event'[t] \in Events /\ calls' \in Nat
    BY <2>1, CallFacts DEF TypeOK
  <2>3. before' \subseteq Events \X Events
    BY <2>1, <2>2, CallFacts DEF TypeOK
  <2>4. UNCHANGED <<queue, taken, SEQ, written>>
    BY <1>1, EmitCases DEF Begin
  <2>5. pc' \in [Tasks -> {"idle", "wait", "send"}]
    BY <1>1, EmitCases DEF Begin, TypeOK
  <2>6. permits' \in Nat /\ line' \in Seq(Tasks)
    <3>1. Append(line, t) \in Seq(Tasks)
      BY DEF TypeOK
    <3>2. line' = line \/ line' = Append(line, t)
      BY <1>1, EmitCases
    <3>3. permits' = permits \/ (permits > 0 /\ permits' = permits - 1)
      BY <1>1, EmitCases
    <3>4. permits \in Nat /\ line \in Seq(Tasks)
      BY DEF TypeOK
    <3>5. permits' \in Nat
      BY <3>3, <3>4
    <3>6. QED
      BY <3>1, <3>2, <3>4, <3>5
  <2>7. returned' \subseteq Events /\ refused' \subseteq Events
    BY <1>1, <2>2, EmitCases DEF Begin, TypeOK
  <2>8. QED
    BY <2>2, <2>3, <2>4, <2>5, <2>6, <2>7 DEF TypeOK
<1>2. ASSUME NEW t \in Tasks, Send(t) PROVE TypeOK'
  BY <1>2 DEF TypeOK, Send, Goto, Return
<1>3. CASE Receive
  <2>1. /\ taken' = <<Head(queue)>> /\ queue' = Tail(queue) /\ queue # << >>
        /\ UNCHANGED <<event, calls, SEQ, written, history>>
    BY <1>3 DEF Receive
  <2>2. taken' \in Seq(Events) /\ Len(taken') <= 1 /\ queue' \in Seq(Events)
    BY <2>1 DEF TypeOK
  <2>3. /\ permits' \in Nat /\ line' \in Seq(Tasks)
        /\ pc' \in [Tasks -> {"idle", "wait", "send"}]
    <3>1. CASE line = << >>
      BY <1>3, <3>1 DEF Receive, TypeOK
    <3>2. CASE line # << >>
      <4>1. /\ pc' = [pc EXCEPT ![Head(line)] = "send"]
            /\ line' = Tail(line) /\ permits' = permits
        BY <1>3, <3>2 DEF Receive, Goto
      <4>2. Tail(line) \in Seq(Tasks)
        BY <3>2 DEF TypeOK
      <4>3. [pc EXCEPT ![Head(line)] = "send"] \in [Tasks -> {"idle", "wait", "send"}]
        BY DEF TypeOK
      <4>4. QED
        BY <4>1, <4>2, <4>3 DEF TypeOK
    <3>3. QED
      BY <3>1, <3>2
  <2>4. QED
    BY <2>1, <2>2, <2>3 DEF TypeOK, history
<1>4. CASE SerializeEvent
  <2>1. taken # << >> /\ taken[1] \in Events
    BY <1>4 DEF SerializeEvent, TypeOK, Nothing
  <2>2. Merged(SEQ, taken[1]) \in Int
    <3>1. taken[1].seq \in Fields \cup {NoField}
      BY <2>1 DEF Events
    <3>2. Fields \cup {NoField} \subseteq Int
      BY FieldsAssumption DEF NoField, Null
    <3>3. SEQ \in Int
      BY DEF TypeOK
    <3>4. QED
      BY <3>1, <3>2, <3>3 DEF Merged
  <2>3. [event |-> taken[1], number |-> SEQ, seq |-> Merged(SEQ, taken[1])] \in Lines
    BY <2>1, <2>2 DEF TypeOK, Lines
  <2>4. written' \in Seq(Lines) /\ SEQ' \in Nat /\ taken' = << >>
    BY <1>4, <2>3 DEF SerializeEvent, TypeOK, NextSeq, Nothing
  <2>5. QED
    BY <1>4, <2>4 DEF SerializeEvent, TypeOK, channel, history
<1>5. CASE DropReceiver
  <2>1. queue' \in Seq(Events) /\ line' \in Seq(Tasks)
    BY <1>5 DEF DropReceiver
  <2>2. pc' \in [Tasks -> {"idle", "wait", "send"}] /\ returned' \subseteq Events
    BY <1>5 DEF DropReceiver, TypeOK
  <2>3. QED
    BY <1>5, <2>1, <2>2 DEF DropReceiver, TypeOK
<1>6. CASE UNCHANGED tvars
  BY <1>6 DEF TypeOK, tvars, channel, history
<1>7. QED
  BY <1>1, <1>2, <1>3, <1>4, <1>5, <1>6, Steps

(***************************************************************************)
(* Events in flight.                                                       *)
(***************************************************************************)
LEMMA EventsStep ==
  ASSUME TypeOK, EventsKnown, PermitsKnown, [Next]_tvars
  PROVE  EventsKnown'
<1>1. ASSUME NEW t \in Tasks, Emit(t) \/ TryEmit(t) PROVE EventsKnown'
  <2>1. Call(t)
    BY <1>1 DEF Emit, TryEmit
  <2> DEFINE e == event'[t]
  <2>2. /\ pc[t] = "idle" /\ calls' = calls + 1 /\ e.call = calls + 1
        /\ \A u \in Tasks \ {t} : event'[u] = event[u]
        /\ before' = before \cup {<<d, e>> : d \in returned}
    BY <2>1, CallFacts
  <2>3. /\ \A u \in Tasks \ {t} : pc'[u] = pc[u]
        /\ returned' \subseteq returned \cup {e} /\ returned \subseteq returned'
        /\ refused' \subseteq returned'
        /\ pc'[t] # "idle" => returned' = returned
    BY <1>1, <2>2, EmitCases DEF Begin, TypeOK, EventsKnown
  <2>4. e \notin returned /\ \A u \in Tasks : pc[u] # "idle" => event[u] # e
    BY <2>2 DEF EventsKnown, TypeOK
  <2>5. \A d \in returned' : d.call <= calls'
    <3>1. \A d \in returned : d.call \in Nat /\ d.call <= calls
      BY DEF EventsKnown, TypeOK, Events
    <3>2. \A d \in returned : d.call <= calls'
      BY <2>2, <3>1 DEF TypeOK
    <3>3. e.call <= calls'
      BY <2>2 DEF TypeOK
    <3>4. QED
      BY <2>3, <3>2, <3>3
  <2>6. \A p \in before' : p[1] \in returned'
    BY <2>2, <2>3 DEF EventsKnown
  <2>7. ASSUME NEW u \in Tasks, pc'[u] # "idle"
        PROVE  /\ event'[u].call <= calls' /\ event'[u] \notin returned'
               /\ \A v \in Tasks \ {u} : pc'[v] # "idle" => event'[v] # event'[u]
    <3>1. CASE u = t
      BY <2>2, <2>3, <2>4, <2>7, <3>1 DEF TypeOK
    <3>2. CASE u # t
      <4>1. event'[u] = event[u] /\ pc[u] # "idle" /\ event[u] # e
        BY <2>2, <2>3, <2>4, <2>7, <3>2
      <4>2. event[u].call <= calls /\ event[u] \notin returned /\ event[u] \in Events
        BY <4>1 DEF EventsKnown, TypeOK
      <4>3. \A v \in Tasks \ {u} : pc'[v] # "idle" => event'[v] # event[u]
        BY <2>2, <2>3, <4>1 DEF EventsKnown
      <4>4. event[u].call <= calls'
        BY <2>2, <4>2 DEF TypeOK, Events
      <4>5. QED
        BY <2>3, <4>1, <4>2, <4>3, <4>4
    <3>3. QED
      BY <3>1, <3>2
  <2>8. QED
    BY <2>3, <2>5, <2>6, <2>7 DEF EventsKnown
<1>2. ASSUME NEW t \in Tasks, Send(t) PROVE EventsKnown'
  <2>1. /\ pc[t] = "send" /\ pc'[t] = "idle" /\ UNCHANGED <<event, calls, refused, before>>
        /\ \A u \in Tasks \ {t} : pc'[u] = pc[u]
        /\ returned' = returned \cup {event[t]}
    BY <1>2 DEF Send, Goto, Return, TypeOK
  <2>2. QED
    BY <2>1 DEF EventsKnown
<1>3. CASE Receive
  <2>1. UNCHANGED <<event, calls, history>> /\ \A u \in Tasks : pc'[u] # "idle" => pc[u] # "idle"
    <3>1. CASE line = << >>
      BY <1>3, <3>1 DEF Receive
    <3>2. CASE line # << >>
      <4>1. Head(line) = line[1] /\ 1 \in DOMAIN line
        BY <3>2 DEF TypeOK
      <4>2. pc[Head(line)] = "wait"
        BY <4>1 DEF PermitsKnown
      <4>3. QED
        BY <1>3, <3>2, <4>2 DEF Receive, Goto, TypeOK
    <3>3. QED
      BY <3>1, <3>2
  <2>2. QED
    BY <2>1 DEF EventsKnown, history
<1>4. CASE SerializeEvent \/ UNCHANGED tvars
  BY <1>4 DEF SerializeEvent, tvars, history, EventsKnown
<1>5. CASE DropReceiver
  <2>1. /\ UNCHANGED <<event, calls, refused, before>>
        /\ \A u \in Tasks : pc'[u] # "idle" => pc'[u] = pc[u] /\ pc[u] # "wait"
    BY <1>5 DEF DropReceiver, TypeOK
  <2>2. /\ returned \subseteq returned'
        /\ \A d \in returned' :
             d \in returned \/ \E u \in Tasks : pc[u] = "wait" /\ d = event[u]
    BY <1>5 DEF DropReceiver
  <2>3. \A d \in returned' : d.call <= calls
    BY <2>2 DEF EventsKnown
  <2>4. ASSUME NEW u \in Tasks, pc'[u] # "idle" PROVE event[u] \notin returned'
    BY <2>1, <2>2, <2>4 DEF EventsKnown
  <2>5. QED
    BY <2>1, <2>2, <2>3, <2>4 DEF EventsKnown
<1>6. QED
  BY <1>1, <1>2, <1>3, <1>4, <1>5, Steps

(***************************************************************************)
(* The stream as a function of its parts.                                  *)
(***************************************************************************)
EventsOf(w) == [i \in DOMAIN w |-> w[i].event]
StreamOf(w, k, q) == EventsOf(w) \o k \o q

LEMMA EventsOfLines ==
  ASSUME NEW w \in Seq(Lines)
  PROVE  EventsOf(w) \in Seq(Events) /\ Len(EventsOf(w)) = Len(w)
<1>1. \A i \in 1 .. Len(w) : w[i] \in Lines
  BY ElementOfSeq
<1>2. \A i \in 1 .. Len(w) : w[i].event \in Events
  BY <1>1 DEF Lines
<1>3. EventsOf(w) = [i \in 1 .. Len(w) |-> w[i].event]
  BY LenProperties DEF EventsOf
<1>4. EventsOf(w) \in [1 .. Len(w) -> Events]
  BY <1>2, <1>3
<1>5. QED
  BY <1>3, <1>4, LenProperties

LEMMA StreamIsSeq ==
  ASSUME NEW w \in Seq(Lines), NEW k \in Seq(Events), NEW q \in Seq(Events)
  PROVE  StreamOf(w, k, q) \in Seq(Events)
  BY EventsOfLines, ConcatProperties DEF StreamOf

LEMMA StreamAppend ==
  ASSUME NEW w \in Seq(Lines), NEW k \in Seq(Events), NEW q \in Seq(Events), NEW e \in Events
  PROVE  StreamOf(w, k, Append(q, e)) = Append(StreamOf(w, k, q), e)
<1> DEFINE h == EventsOf(w) \o k
<1>1. h \in Seq(Events)
  BY EventsOfLines, ConcatProperties
<1> HIDE DEF h
<1>2. Append(q, e) = q \o <<e>> /\ <<e>> \in Seq(Events)
  BY AppendIsConcat
<1>3. h \o (q \o <<e>>) = (h \o q) \o <<e>>
  BY <1>1, <1>2, ConcatAssociative
<1>4. Append(h \o q, e) = (h \o q) \o <<e>>
  <2>1. h \o q \in Seq(Events)
    BY <1>1, ConcatProperties
  <2>2. QED
    BY <2>1, AppendIsConcat
<1>5. QED
  BY <1>2, <1>3, <1>4 DEF StreamOf, h

LEMMA StreamReceive ==
  ASSUME NEW w \in Seq(Lines), NEW q \in Seq(Events), q # << >>
  PROVE  StreamOf(w, << >>, q) = StreamOf(w, <<Head(q)>>, Tail(q))
<1>1. EventsOf(w) \in Seq(Events)
  BY EventsOfLines
<1>2. /\ Head(q) \in Events /\ <<Head(q)>> \in Seq(Events)
      /\ Tail(q) \in Seq(Events) /\ q = <<Head(q)>> \o Tail(q)
  BY HeadTailProperties
<1>3. EventsOf(w) \o << >> = EventsOf(w)
  BY <1>1, ConcatEmptySeq
<1>4. (EventsOf(w) \o <<Head(q)>>) \o Tail(q) = EventsOf(w) \o (<<Head(q)>> \o Tail(q))
  BY <1>1, <1>2, ConcatAssociative
<1>5. QED
  BY <1>2, <1>3, <1>4 DEF StreamOf

LEMMA StreamSerialize ==
  ASSUME NEW w \in Seq(Lines), NEW l \in Lines, NEW q \in Seq(Events)
  PROVE  StreamOf(Append(w, l), << >>, q) = StreamOf(w, <<l.event>>, q)
<1>1. EventsOf(w) \in Seq(Events) /\ l.event \in Events
  BY EventsOfLines DEF Lines
<1>2. Append(w, l) \in Seq(Lines) /\ Len(Append(w, l)) = Len(w) + 1 /\ Len(w) \in Nat
  OBVIOUS
<1>3. EventsOf(Append(w, l)) \in Seq(Events) /\ Len(EventsOf(Append(w, l))) = Len(w) + 1
  BY <1>2, EventsOfLines
<1>4. EventsOf(w) \o <<l.event>> \in Seq(Events) /\ Len(EventsOf(w) \o <<l.event>>) = Len(w) + 1
  BY <1>1, EventsOfLines, ConcatProperties
<1>5. ASSUME NEW i \in 1 .. Len(w) + 1
      PROVE  EventsOf(Append(w, l))[i] = (EventsOf(w) \o <<l.event>>)[i]
  <2>1. EventsOf(Append(w, l))[i] = Append(w, l)[i].event
    BY <1>2 DEF EventsOf
  <2>2. CASE i <= Len(w)
    <3>1. Append(w, l)[i] = w[i] /\ i \in 1 .. Len(w)
      BY <2>2
    <3>2. EventsOf(w)[i] = w[i].event
      BY <3>1 DEF EventsOf
    <3>3. (EventsOf(w) \o <<l.event>>)[i] = EventsOf(w)[i]
      BY <1>1, <3>1, EventsOfLines, ConcatProperties
    <3>4. QED
      BY <2>1, <3>1, <3>2, <3>3
  <2>3. CASE i = Len(w) + 1
    <3>1. Append(w, l)[i] = l
      BY <2>3
    <3>2. (EventsOf(w) \o <<l.event>>)[i] = l.event
      <4> DEFINE d == EventsOf(w)
      <4>1. d \in Seq(Events) /\ Len(d) = Len(w) /\ i = Len(d) + 1
        BY <1>1, <2>3, EventsOfLines
      <4> HIDE DEF d
      <4>2. (d \o <<l.event>>)[Len(d) + 1] = l.event
        BY <1>1, <4>1
      <4>3. QED
        BY <4>1, <4>2 DEF d
    <3>3. QED
      BY <2>1, <3>1, <3>2
  <2>4. i <= Len(w) \/ i = Len(w) + 1
    BY <1>2
  <2>5. QED
    BY <2>2, <2>3, <2>4
<1>6. EventsOf(Append(w, l)) = EventsOf(w) \o <<l.event>>
  BY <1>3, <1>4, <1>5, SeqEqual
<1>7. EventsOf(w) \o <<l.event>> \o << >> = EventsOf(w) \o <<l.event>>
  BY <1>4, ConcatEmptySeq
<1>8. QED
  BY <1>6, <1>7 DEF StreamOf

LEMMA StreamDrop ==
  ASSUME NEW w \in Seq(Lines), NEW k \in Seq(Events), NEW q \in Seq(Events)
  PROVE  LET r == StreamOf(w, k, << >>)
             s == StreamOf(w, k, q)
         IN  DOMAIN r \subseteq DOMAIN s /\ \A i \in DOMAIN r : r[i] = s[i]
<1> DEFINE h == EventsOf(w) \o k
<1>1. h \in Seq(Events)
  BY EventsOfLines, ConcatProperties
<1> HIDE DEF h
<1>2. h \o << >> = h
  BY <1>1, ConcatEmptySeq
<1>3. Len(h) \in Nat /\ Len(q) \in Nat /\ DOMAIN h = 1 .. Len(h)
  BY <1>1
<1>4. h \o q \in Seq(Events) /\ Len(h \o q) = Len(h) + Len(q)
  BY <1>1, ConcatProperties
<1>5. DOMAIN (h \o q) = 1 .. Len(h) + Len(q)
  BY <1>4
<1>6. \A i \in 1 .. Len(h) : (h \o q)[i] = h[i]
  BY <1>1, <1>3, ConcatProperties
<1>7. QED
  BY <1>2, <1>3, <1>5, <1>6 DEF StreamOf, h

(***************************************************************************)
(* The stream only grows at its end, by an event whose emit returns, or    *)
(* loses its end with the receiver.                                        *)
(***************************************************************************)
LEMMA StreamStep ==
  ASSUME TypeOK, TypeOK', EventsKnown, StreamKnown, [Next]_tvars
  PROVE  StreamKnown'
<1>1. Stream = StreamOf(written, taken, queue) /\ Stream' = StreamOf(written', taken', queue')
  BY DEF Stream, Written, StreamOf, EventsOf
<1>2. Stream \in Seq(Events)
  BY <1>1, StreamIsSeq DEF TypeOK
<1>3. ASSUME Stream' = Stream, UNCHANGED <<refused, returned, before, open>>
      PROVE  StreamKnown'
  BY <1>3 DEF StreamKnown
<1>4. ASSUME NEW t \in Tasks, Emit(t) \/ TryEmit(t) PROVE StreamKnown'
  <2>1. Call(t)
    BY <1>4 DEF Emit, TryEmit
  <2> DEFINE e == event'[t]
  <2>2. e.call = calls + 1 /\ before' = before \cup {<<d, e>> : d \in returned}
    BY <2>1, CallFacts
  <2>3. e \notin returned
    BY <2>2 DEF EventsKnown, TypeOK
  <2>4. Stream' = Stream
    BY <1>1, <1>4, EmitCases DEF Begin
  <2>5. /\ open' = open /\ returned \subseteq returned' /\ refused' \subseteq refused \cup {e}
        /\ open => returned' \ refused' \subseteq returned \ refused
    BY <1>4, EmitCases DEF Begin
  <2>6. \A i \in DOMAIN Stream : Stream[i] \in returned \ refused /\ Stream[i] # e
    BY <2>3 DEF StreamKnown
  <2> HIDE DEF e
  <2>7. \A i \in DOMAIN Stream' : Stream'[i] \in returned' \ refused'
    BY <2>4, <2>5, <2>6
  <2>8. open' => \A d \in returned' \ refused' : \E i \in DOMAIN Stream' : Stream'[i] = d
    BY <2>4, <2>5 DEF StreamKnown
  <2>9. \A p \in before' : \A i, j \in DOMAIN Stream' :
          Stream'[i] = p[1] /\ Stream'[j] = p[2] => i < j
    BY <2>2, <2>4, <2>6 DEF StreamKnown
  <2>10. QED
    BY <2>4, <2>7, <2>8, <2>9 DEF StreamKnown
<1>5. ASSUME NEW t \in Tasks, Send(t) PROVE StreamKnown'
  <2> DEFINE e == event[t]
             n == Len(Stream) + 1
  <2>1. /\ pc[t] = "send" /\ returned' = returned \cup {e}
        /\ UNCHANGED <<refused, before, open, written, taken>>
    BY <1>5 DEF Send, Return
  <2>2. e \in Events /\ e \notin returned /\ e \notin refused
    BY <2>1 DEF EventsKnown, TypeOK
  <2>3. CASE ~open
    <3>1. queue' = queue
      BY <1>5, <2>3 DEF Send
    <3>2. Stream' = Stream
      BY <1>1, <2>1, <3>1
    <3>3. QED
      BY <2>1, <2>2, <2>3, <3>2 DEF StreamKnown
  <2>4. CASE open
    <3>1. queue' = Append(queue, e)
      BY <1>5, <2>4 DEF Send
    <3>2. Stream' = Append(Stream, e)
      BY <1>1, <2>1, <2>2, <3>1, StreamAppend DEF TypeOK
    <3>3. /\ DOMAIN Stream' = DOMAIN Stream \cup {n} /\ Stream'[n] = e
          /\ \A i \in DOMAIN Stream : Stream'[i] = Stream[i] /\ i < n
      BY <1>2, <2>2, <3>2
    <3>4. \A i \in DOMAIN Stream : Stream[i] \in returned \ refused /\ Stream[i] # e
      BY <2>2 DEF StreamKnown
    <3> HIDE DEF n, e
    <3>5. \A i \in DOMAIN Stream' : Stream'[i] \in returned' \ refused'
      BY <2>1, <2>2, <3>3, <3>4
    <3>6. \A i, j \in DOMAIN Stream' : Stream'[i] = Stream'[j] => i = j
      BY <3>3, <3>4 DEF StreamKnown
    <3>7. \A d \in returned' \ refused' : \E i \in DOMAIN Stream' : Stream'[i] = d
      <4> SUFFICES ASSUME NEW d \in returned' \ refused'
                   PROVE  \E i \in DOMAIN Stream' : Stream'[i] = d
        OBVIOUS
      <4>1. CASE d = e
        BY <3>3, <4>1
      <4>2. CASE d # e
        <5>1. PICK i \in DOMAIN Stream : Stream[i] = d
          BY <2>1, <2>4, <4>2 DEF StreamKnown
        <5>2. QED
          BY <3>3, <5>1
      <4>3. QED
        BY <4>1, <4>2
    <3>8. ASSUME NEW p \in before', NEW i \in DOMAIN Stream', NEW j \in DOMAIN Stream',
                 Stream'[i] = p[1], Stream'[j] = p[2]
          PROVE  i < j
      <4>1. p \in before /\ p[1] # e
        BY <2>1, <2>2 DEF EventsKnown
      <4>2. i \in DOMAIN Stream /\ Stream[i] = p[1] /\ i < n
        BY <3>3, <3>8, <4>1
      <4>3. CASE j = n
        BY <4>2, <4>3
      <4>4. CASE j # n
        <5>1. j \in DOMAIN Stream /\ Stream[j] = p[2]
          BY <3>3, <3>8, <4>4
        <5>2. QED
          BY <4>1, <4>2, <5>1 DEF StreamKnown
      <4>5. QED
        BY <4>3, <4>4
    <3>9. QED
      BY <3>5, <3>6, <3>7, <3>8 DEF StreamKnown
  <2>5. QED
    BY <2>3, <2>4
<1>6. CASE Receive
  <2>1. /\ taken = << >> /\ queue # << >> /\ taken' = <<Head(queue)>> /\ queue' = Tail(queue)
        /\ UNCHANGED <<written, open, history>>
    BY <1>6 DEF Receive, Nothing
  <2>2. Stream' = Stream
    BY <1>1, <2>1, StreamReceive DEF TypeOK
  <2>3. QED
    BY <1>3, <2>1, <2>2 DEF history
<1>7. CASE SerializeEvent
  <2> DEFINE l == [event |-> taken[1], number |-> SEQ, seq |-> Merged(SEQ, taken[1])]
  <2>1. /\ taken # << >> /\ written' = Append(written, l) /\ taken' = << >>
        /\ UNCHANGED <<channel, history>>
    BY <1>7 DEF SerializeEvent, Nothing
  <2>2. taken = <<l.event>>
    <3>1. taken \in Seq(Events) /\ Len(taken) = 1
      <4>1. taken \in Seq(Events) /\ Len(taken) <= 1 /\ taken # << >>
        BY <2>1 DEF TypeOK
      <4>2. Len(taken) \in Nat /\ Len(taken) # 0
        BY <4>1, EmptySeq
      <4> HIDE DEF l
      <4>3. \A n \in Nat : n # 0 /\ n <= 1 => n = 1
        OBVIOUS
      <4>4. Len(taken) = 1
        BY <4>1, <4>2, <4>3, Zenon
      <4>5. QED
        BY <4>1, <4>4
    <3>2. taken[1] \in Events
      BY <3>1, ElementOfSeq
    <3>3. taken = <<taken[1]>>
      BY <3>1, <3>2
    <3>4. QED
      BY <3>3
  <2>3. l \in Lines
    <3>1. Len(written') = Len(written) + 1 /\ written'[Len(written) + 1] = l
      BY <2>1 DEF TypeOK
    <3>2. written' \in Seq(Lines) /\ Len(written) \in Nat
      BY DEF TypeOK
    <3>3. Len(written) + 1 \in 1 .. Len(written')
      BY <3>1, <3>2
    <3>4. QED
      BY <3>1, <3>2, <3>3, ElementOfSeq
  <2> HIDE DEF l
  <2>4. Stream' = Stream
    BY <1>1, <2>1, <2>2, <2>3, StreamSerialize DEF TypeOK, channel
  <2>5. QED
    BY <1>3, <2>1, <2>4 DEF channel, history
<1>8. CASE DropReceiver
  <2>1. /\ open' = FALSE /\ queue' = << >> /\ returned \subseteq returned'
        /\ UNCHANGED <<written, taken, refused, before>>
    BY <1>8 DEF DropReceiver
  <2>2. DOMAIN Stream' \subseteq DOMAIN Stream /\ \A i \in DOMAIN Stream' : Stream'[i] = Stream[i]
    BY <1>1, <2>1, StreamDrop DEF TypeOK
  <2>3. QED
    BY <2>1, <2>2 DEF StreamKnown
<1>9. CASE UNCHANGED tvars
  BY <1>1, <1>3, <1>9 DEF tvars, channel, history
<1>10. QED
  BY <1>4, <1>5, <1>6, <1>7, <1>8, <1>9, Steps

(***************************************************************************)
(* The numbers.                                                            *)
(***************************************************************************)
LEMMA NumbersStep ==
  ASSUME TypeOK, NumbersKnown, [Next]_tvars
  PROVE  NumbersKnown'
<1>1. CASE UNCHANGED <<SEQ, written>>
  BY <1>1 DEF NumbersKnown
<1>2. CASE SerializeEvent
  <2> DEFINE l == [event |-> taken[1], number |-> SEQ, seq |-> Merged(SEQ, taken[1])]
             n == Len(written) + 1
  <2>1. SEQ' = SEQ + 1 /\ written' = Append(written, l) /\ l.number = SEQ
    BY <1>2 DEF SerializeEvent, NextSeq
  <2> HIDE DEF l
  <2>2. /\ DOMAIN written' = DOMAIN written \cup {n} /\ written'[n] = l
        /\ \A i \in DOMAIN written : written'[i] = written[i] /\ i < n
    BY <2>1 DEF TypeOK
  <2>3. \A i \in DOMAIN written : written[i].number \in Nat
    <3>1. \A i \in DOMAIN written : written[i] \in Lines
      BY DEF TypeOK
    <3>2. QED
      BY <3>1 DEF Lines
  <2>4. \A i \in DOMAIN written' : written'[i].number < SEQ'
    <3>1. SEQ \in Nat
      BY DEF TypeOK
    <3>2. \A i \in DOMAIN written : written[i].number < SEQ
      BY DEF NumbersKnown
    <3>3. \A i \in DOMAIN written : written[i].number < SEQ + 1
      BY <2>3, <3>1, <3>2
    <3>4. SEQ < SEQ + 1
      BY <3>1
    <3>5. QED
      BY <2>1, <2>2, <3>3, <3>4
  <2>5. ASSUME NEW i \in DOMAIN written', NEW j \in DOMAIN written', i < j
        PROVE  written'[i].number < written'[j].number
    <3>1. i \in DOMAIN written
      <4>1. n \in Nat /\ \A k \in DOMAIN written' : k \in Nat /\ k <= n
        BY <2>1 DEF TypeOK
      <4>2. i # n
        BY <2>5, <4>1
      <4>3. QED
        BY <2>2, <4>2
    <3>2. CASE j = n
      BY <2>1, <2>2, <3>1, <3>2 DEF NumbersKnown
    <3>3. CASE j # n
      BY <2>2, <2>5, <3>1, <3>3 DEF NumbersKnown
    <3>4. QED
      BY <3>2, <3>3
  <2>6. QED
    BY <2>4, <2>5 DEF NumbersKnown
<1>3. ASSUME NEW t \in Tasks, Emit(t) \/ TryEmit(t) \/ Send(t) PROVE UNCHANGED <<SEQ, written>>
  BY <1>3 DEF Emit, TryEmit, Send
<1>4. Receive \/ DropReceiver \/ UNCHANGED tvars => UNCHANGED <<SEQ, written>>
  BY DEF Receive, DropReceiver, tvars
<1>5. QED
  BY <1>1, <1>2, <1>3, <1>4, Steps

(***************************************************************************)
(* The permits.                                                            *)
(***************************************************************************)
LEMMA PermitsStep ==
  ASSUME TypeOK, PermitsKnown, [Next]_tvars
  PROVE  PermitsKnown'
<1>1. IsFiniteSet(Senders) /\ Cardinality(Senders) \in Nat
  BY TasksAssumption, FS_Subset, FS_CardinalityType DEF Senders
<1>2. \A i \in DOMAIN line : line[i] \in Tasks /\ pc[line[i]] = "wait"
  BY DEF TypeOK, PermitsKnown
<1>3. BUFFER \in Nat /\ permits \in Nat /\ Len(queue) \in Nat
  BY BufferAssumption DEF TypeOK
\* A task begins, or ends, to hold a permit.
<1>4. ASSUME NEW t \in Tasks, pc[t] # "send", pc' = [pc EXCEPT ![t] = "send"]
      PROVE  Cardinality(Senders') = Cardinality(Senders) + 1
  <2>1. Senders' = Senders \cup {t} /\ t \notin Senders
    BY <1>4 DEF Senders, TypeOK
  <2>2. QED
    BY <1>1, <2>1, FS_AddElement
<1>5. ASSUME NEW t \in Tasks, Emit(t) \/ TryEmit(t) PROVE PermitsKnown'
  <2>1. Call(t) /\ pc[t] = "idle"
    BY <1>5 DEF Emit, TryEmit, Call
  <2>2. \A i \in DOMAIN line : line[i] # t
    BY <1>2, <2>1
  <2>3. CASE Begin(t, "send") /\ open /\ permits > 0 /\ permits' = permits - 1 /\ line' = line
    <3>1. Cardinality(Senders') = Cardinality(Senders) + 1
      BY <1>4, <2>1, <2>3 DEF Begin
    <3>2. open' => permits' + Len(queue') + Cardinality(Senders') = BUFFER
      BY <1>1, <1>3, <2>3, <3>1 DEF Begin, PermitsKnown
    <3>3. \A i \in DOMAIN line : pc'[line[i]] = "wait"
      BY <1>2, <2>2, <2>3 DEF Begin, TypeOK
    <3>4. QED
      BY <2>3, <3>2, <3>3 DEF PermitsKnown
  <2>4. CASE Begin(t, "wait") /\ open /\ permits' = permits /\ line' = Append(line, t)
    <3>1. Senders' = Senders
      BY <2>1, <2>4 DEF Begin, Senders, TypeOK
    <3>2. /\ DOMAIN line' = DOMAIN line \cup {Len(line) + 1} /\ line'[Len(line) + 1] = t
          /\ \A i \in DOMAIN line : line'[i] = line[i]
      BY <2>4 DEF TypeOK
    <3>3. \A i \in DOMAIN line' : pc'[line'[i]] = "wait"
      BY <1>2, <2>2, <2>4, <3>2 DEF Begin, TypeOK
    <3>4. \A i, j \in DOMAIN line' : line'[i] = line'[j] => i = j
      BY <2>2, <3>2 DEF PermitsKnown
    <3>5. QED
      BY <2>4, <3>1, <3>3, <3>4 DEF PermitsKnown, Begin
  <2>5. CASE UNCHANGED <<pc, permits, line, queue, open>>
    BY <2>5 DEF PermitsKnown, Senders
  <2>6. QED
    BY <1>5, <2>3, <2>4, <2>5, EmitCases
<1>6. ASSUME NEW t \in Tasks, Send(t) PROVE PermitsKnown'
  <2>1. /\ pc[t] = "send" /\ pc' = [pc EXCEPT ![t] = "idle"]
        /\ UNCHANGED <<permits, line, open>>
    BY <1>6 DEF Send, Goto
  <2>2. Senders' = Senders \ {t} /\ t \in Senders
    BY <2>1 DEF Senders, TypeOK
  <2>3. Cardinality(Senders') = Cardinality(Senders) - 1
    BY <1>1, <2>2, FS_RemoveElement
  <2>4. open => Len(queue') = Len(queue) + 1
    BY <1>6 DEF Send, TypeOK
  <2>5. open' => permits' + Len(queue') + Cardinality(Senders') = BUFFER
    BY <1>1, <1>3, <2>1, <2>3, <2>4 DEF PermitsKnown
  <2>6. \A i \in DOMAIN line : pc'[line[i]] = "wait"
    BY <1>2, <2>1 DEF TypeOK
  <2>7. QED
    BY <2>1, <2>5, <2>6 DEF PermitsKnown
<1>7. CASE Receive
  <2>1. open /\ open' = open /\ queue # << >> /\ queue' = Tail(queue)
    BY <1>7 DEF Receive
  <2>2. Len(queue') = Len(queue) - 1
    BY <2>1 DEF TypeOK
  <2>3. CASE line = << >>
    <3>1. permits' = permits + 1 /\ UNCHANGED <<line, pc>>
      BY <1>7, <2>3 DEF Receive
    <3>2. Senders' = Senders
      BY <3>1 DEF Senders
    <3>3. QED
      BY <1>1, <1>3, <2>1, <2>2, <3>1, <3>2 DEF PermitsKnown
  <2>4. CASE line # << >>
    <3>1. /\ pc' = [pc EXCEPT ![Head(line)] = "send"]
          /\ line' = Tail(line) /\ permits' = permits
      BY <1>7, <2>4 DEF Receive, Goto
    <3>2. 1 \in DOMAIN line /\ Head(line) = line[1]
      BY <2>4 DEF TypeOK
    <3>3. Cardinality(Senders') = Cardinality(Senders) + 1
      BY <1>2, <1>4, <3>1, <3>2
    <3>4. \A i \in DOMAIN line' : i + 1 \in DOMAIN line /\ line'[i] = line[i + 1] /\ i # 0 /\ i \in Nat
      BY <2>4, <3>1 DEF TypeOK
    <3>5. \A i \in DOMAIN line' : line'[i] # Head(line)
      BY <3>2, <3>4 DEF PermitsKnown
    <3>6. \A i \in DOMAIN line' : pc'[line'[i]] = "wait"
      BY <1>2, <3>1, <3>4, <3>5 DEF TypeOK
    <3>7. \A i, j \in DOMAIN line' : line'[i] = line'[j] => i = j
      <4> SUFFICES ASSUME NEW i \in DOMAIN line', NEW j \in DOMAIN line', line'[i] = line'[j]
                   PROVE  i = j
        OBVIOUS
      <4>1. i + 1 = j + 1
        BY <3>4 DEF PermitsKnown
      <4>2. QED
        BY <3>4, <4>1
    <3>8. open' => permits' + Len(queue') + Cardinality(Senders') = BUFFER
      BY <1>1, <1>3, <2>1, <2>2, <3>1, <3>3 DEF PermitsKnown
    <3>9. QED
      BY <3>6, <3>7, <3>8 DEF PermitsKnown
  <2>5. QED
    BY <2>3, <2>4
<1>8. CASE SerializeEvent \/ UNCHANGED tvars
  <2>1. UNCHANGED <<pc, permits, line, queue, open>>
    BY <1>8 DEF SerializeEvent, tvars, channel
  <2>2. QED
    BY <2>1 DEF PermitsKnown, Senders
<1>9. CASE DropReceiver
  <2>1. open' = FALSE /\ line' = << >>
    BY <1>9 DEF DropReceiver
  <2>2. QED
    BY <2>1 DEF PermitsKnown
<1>10. QED
  BY <1>5, <1>6, <1>7, <1>8, <1>9, Steps

-----------------------------------------------------------------------------
(***************************************************************************)
(* The strengthened invariant of the channel and its users is inductive.   *)
(***************************************************************************)
THEOREM Invariance == Spec => []IInv
<1>1. IInv /\ [Next]_tvars => IInv'
  BY TypeStep, EventsStep, StreamStep, NumbersStep, PermitsStep DEF IInv
<1>2. QED
  BY InitIInv, <1>1, PTL DEF Spec

(***************************************************************************)
(* Every event whose emit has returned is in the stream once, unless       *)
(* try_emit refused it or the receiver is gone; no other event is; and no  *)
(* permit is lost.                                                         *)
(***************************************************************************)
THEOREM AllAccounted == Spec => []Accounted
<1>1. ASSUME IInv PROVE Accounted
  <2>1. ASSUME NEW e \in returned, open
        PROVE  Cardinality(Places(e)) = IF e \in refused THEN 0 ELSE 1
    <3>1. CASE e \in refused
      <4>1. Places(e) = {}
        BY <1>1, <3>1 DEF IInv, StreamKnown, Places
      <4>2. QED
        BY <3>1, <4>1, FS_EmptySet
    <3>2. CASE e \notin refused
      <4>1. PICK i \in DOMAIN Stream : Stream[i] = e
        BY <1>1, <2>1, <3>2 DEF IInv, StreamKnown
      <4>2. Places(e) = {i}
        BY <1>1, <4>1 DEF IInv, StreamKnown, Places
      <4>3. QED
        BY <3>2, <4>2, FS_Singleton
    <3>3. QED
      BY <3>1, <3>2
  <2>2. QED
    BY <1>1, <2>1 DEF IInv, StreamKnown, PermitsKnown, Accounted, Senders
<1>2. QED
  BY Invariance, <1>1, PTL

(***************************************************************************)
(* Events that follow each other keep their order, in the stream and in    *)
(* the numbers of their lines.                                             *)
(***************************************************************************)
THEOREM OrderIsKept == Spec => []OrderKept
<1>1. IInv => OrderKept
  BY DEF IInv, StreamKnown, NumbersKnown, OrderKept, Places
<1>2. QED
  BY Invariance, <1>1, PTL
=============================================================================
