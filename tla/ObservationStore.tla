-------------------------- MODULE ObservationStore --------------------------
(***************************************************************************)
(* custos_protocol/observe.py: ObservationStore, a ring buffer of events,  *)
(* counters per agent and callbacks, behind one lock.  Every method takes  *)
(* the lock once and is one action.  record hands back the callbacks it    *)
(* copied under the lock; firing them is its caller's next steps.          *)
(***************************************************************************)
EXTENDS Integers, Sequences, FiniteSets

CONSTANTS
  Observed,      \* agents whose functions are observed
  Callers,       \* calls of observed functions
  Hooks,         \* callbacks
  MaxEvents      \* the deque's maxlen

VARIABLES
  events,        \* the ring buffer
  stats,         \* counters per agent
  callbacks

observationVars == <<events, stats, callbacks>>

Event == [agent : Observed, by : Callers, success : BOOLEAN]
Counters == [total : Nat, success : Nat, errors : Nat]
NoCounts == [total |-> 0, success |-> 0, errors |-> 0]

ObservationTypeOK ==
  /\ events \in Seq(Event)
  /\ stats \in [Observed -> Counters]
  /\ callbacks \in Seq(Hooks)

ObservationInit ==
  /\ events = <<>>
  /\ stats = [a \in Observed |-> NoCounts]
  /\ callbacks = <<>>

(* The newest n of a sequence: what a deque of that length keeps.          *)
Newest(s, n) == IF Len(s) > n THEN SubSeq(s, Len(s) - n + 1, Len(s)) ELSE s

Counted(c, success) ==
  [total |-> c.total + 1,
   success |-> c.success + (IF success THEN 1 ELSE 0),
   errors |-> c.errors + (IF success THEN 0 ELSE 1)]

RecordEvent(e) ==
  /\ events' = Newest(Append(events, e), MaxEvents)
  /\ stats' = [stats EXCEPT ![e.agent] = Counted(@, e.success)]
  /\ UNCHANGED callbacks

OnEvent(h) == callbacks' = Append(callbacks, h) /\ UNCHANGED <<events, stats>>

(* Mutant: clear empties the buffer and leaves the counters.               *)
MutantClearEvents == events' = <<>> /\ UNCHANGED <<stats, callbacks>>
ClearEvents ==
  /\ events' = <<>>
  /\ stats' = [a \in Observed |-> NoCounts]
  /\ UNCHANGED callbacks
=============================================================================
