---------------------------- MODULE InsertOnlyMap ----------------------------
(***************************************************************************)
(* What SkipList::put promises its callers: the list is an atomic map that *)
(* only grows.  Each put takes effect at one instant between its call and  *)
(* its return: it stores the value if the key is absent, does nothing if   *)
(* the key has that value already, and reports a conflict if the key has   *)
(* another one.  A put may instead die of a full arena without effect.     *)
(***************************************************************************)
CONSTANTS Keys, Values, Writers, Absent

VARIABLES
  map,         \* the value of each key, or Absent
  status,      \* each writer: "idle", "called" or, its put in effect, "done"
  key, value,  \* the arguments of its last put
  result       \* the answer of its last put

mvars == <<map, status, key, value, result>>

Init ==
  /\ map = [k \in Keys |-> Absent]
  /\ status = [w \in Writers |-> "idle"]
  /\ key \in [Writers -> Keys]
  /\ value \in [Writers -> Values]
  /\ result = [w \in Writers |-> "pending"]

Call(w) ==
  /\ status[w] = "idle"
  /\ \E k \in Keys : key' = [key EXCEPT ![w] = k]
  /\ \E v \in Values : value' = [value EXCEPT ![w] = v]
  /\ status' = [status EXCEPT ![w] = "called"]
  /\ result' = [result EXCEPT ![w] = "pending"]
  /\ UNCHANGED map

Answer(w) ==
  IF map[key[w]] \in {Absent, value[w]} THEN "none" ELSE "conflict"

\* The instant of the put; it may return then or later.
TakeEffect(w) ==
  /\ status[w] = "called"
  /\ map' = [map EXCEPT ![key[w]] = IF @ = Absent THEN value[w] ELSE @]
  /\ result' = [result EXCEPT ![w] = Answer(w)]
  /\ \E s \in {"done", "idle"} : status' = [status EXCEPT ![w] = s]
  /\ UNCHANGED <<key, value>>

Fail(w) ==
  /\ status[w] = "called"
  /\ status' = [status EXCEPT ![w] = "idle"]
  /\ result' = [result EXCEPT ![w] = "panic"]
  /\ UNCHANGED <<map, key, value>>

Return(w) ==
  /\ status[w] = "done"
  /\ status' = [status EXCEPT ![w] = "idle"]
  /\ UNCHANGED <<map, key, value, result>>

Next == \E w \in Writers : Call(w) \/ TakeEffect(w) \/ Fail(w) \/ Return(w)

Spec == Init /\ [][Next]_mvars
=============================================================================
