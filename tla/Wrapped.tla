------------------------------ MODULE Wrapped ------------------------------
(***************************************************************************)
(* custos_protocol/observe.py around shield.py: observe(protect(f)).  The  *)
(* wrapper of _make_wrapper calls protect's, records in the store what     *)
(* came of it, fires the callbacks copied under the lock, outside the      *)
(* lock, and only then hands the outcome on to the caller.  Meanwhile      *)
(* other threads, and the callbacks themselves, use the store.             *)
(***************************************************************************)
EXTENDS Shield, ObservationStore

CONSTANTS
  Entrants,        \* callbacks that call a method of the store
  MaxCallbacks,    \* bound on registered callbacks
  MaxClears        \* bound on calls of clear

ASSUME WrappedAssumption ==
  /\ Observed = Agents /\ Callers = Requests
  /\ Entrants \subseteq Hooks
  /\ {MaxEvents, MaxCallbacks, MaxClears} \subseteq Nat

VARIABLES
  wrapper,     \* where the observing wrapper of a call is
  toFire,      \* the callbacks it has yet to fire
  due, heard,  \* history: those it copied, and those it fired
  since,       \* history: the calls recorded since the last clear, in order
  clears

wrapperVars == <<wrapper, toFire, due, heard, since, clears>>
wrappedVars == <<vars, shieldVars, observationVars, wrapperVars>>

WrappedTypeOK ==
  /\ TypeOK /\ ShieldTypeOK /\ ObservationTypeOK
  /\ wrapper \in [Requests -> {"calling", "firing", "returned"}]
  /\ toFire \in [Requests -> Seq(Hooks)]
  /\ due \in [Requests -> Seq(Hooks)] /\ heard \in [Requests -> Seq(Hooks)]
  /\ since \in Seq(Requests)
  /\ clears \in Nat

WrappedInit ==
  /\ Init /\ ShieldInit /\ ObservationInit
  /\ wrapper = [r \in Requests |-> "calling"]
  /\ toFire = [r \in Requests |-> <<>>]
  /\ due = [r \in Requests |-> <<>>]
  /\ heard = [r \in Requests |-> <<>>]
  /\ since = <<>>
  /\ clears = 0

-----------------------------------------------------------------------------
(* Mutant: callbacks are fired with the store's lock held.                 *)
MutantHoldsLock(r) == wrapper[r] = "firing"
(* No method keeps the lock beyond its own action.                         *)
HoldsLock(r) == FALSE

LockFree == \A r \in Requests : ~HoldsLock(r)

(* Whoever raised nothing succeeded, a call blocked silently included.     *)
Succeeded(r) == result[r] \in {"value", "nothing"}

Record(r) ==
  /\ stage[r] = "left" /\ wrapper[r] = "calling" /\ LockFree
  /\ RecordEvent([agent |-> fn[r].agent, by |-> r, success |-> Succeeded(r)])
  /\ wrapper' = [wrapper EXCEPT ![r] = "firing"]
  /\ toFire' = [toFire EXCEPT ![r] = callbacks]
  /\ due' = [due EXCEPT ![r] = callbacks]
  /\ since' = Append(since, r)
  /\ UNCHANGED <<vars, shieldVars, heard, clears>>

(* What a call of clear or on_event by anybody comes to.                   *)
Clear ==
  /\ clears < MaxClears /\ clears' = clears + 1
  /\ ClearEvents /\ since' = <<>>

Subscribe ==
  /\ Len(callbacks) < MaxCallbacks
  /\ \E h \in Hooks : OnEvent(h)
  /\ UNCHANGED <<since, clears>>

(* Mutant: an exception in a callback ends the loop.                       *)
MutantRemaining(s, raised) == IF raised THEN <<>> ELSE Tail(s)
(* An exception in a callback is logged and swallowed.                     *)
Remaining(s, raised) == Tail(s)

(* The next callback: it may raise, and an entrant reads or changes the    *)
(* store while it runs.                                                    *)
Fire(r) ==
  /\ wrapper[r] = "firing" /\ toFire[r] # <<>>
  /\ heard' = [heard EXCEPT ![r] = Append(@, Head(toFire[r]))]
  /\ \E raised \in BOOLEAN : toFire' = [toFire EXCEPT ![r] = Remaining(@, raised)]
  /\ \/ Head(toFire[r]) \notin Entrants /\ UNCHANGED <<observationVars, since, clears>>
     \/ /\ Head(toFire[r]) \in Entrants /\ LockFree
        /\ Clear \/ Subscribe \/ UNCHANGED <<observationVars, since, clears>>
  /\ UNCHANGED <<vars, shieldVars, wrapper, due>>

(* The result is returned, or the exception raised again.                  *)
HandOn(r) ==
  /\ wrapper[r] = "firing" /\ toFire[r] = <<>>
  /\ wrapper' = [wrapper EXCEPT ![r] = "returned"]
  /\ due' = [due EXCEPT ![r] = <<>>] /\ heard' = [heard EXCEPT ![r] = <<>>]
  /\ UNCHANGED <<vars, shieldVars, observationVars, toFire, since, clears>>

Elsewhere ==
  /\ LockFree /\ (Clear \/ Subscribe)
  /\ UNCHANGED <<vars, shieldVars, wrapper, toFire, due, heard>>

WrappedNext ==
  \/ /\ ShieldEnvironment \/ \E r \in Requests : ShieldStep(r)
     /\ UNCHANGED <<observationVars, wrapperVars>>
  \/ Elsewhere
  \/ \E r \in Requests : Record(r) \/ Fire(r) \/ HandOn(r)

WrappedSpec == WrappedInit /\ [][WrappedNext]_wrappedVars

-----------------------------------------------------------------------------
(* Counters and ring buffer tell the same story, whoever clears in between *)
(* and from whichever thread or callback: the buffer holds the newest of   *)
(* the calls recorded since the last clear, and the counters count all of  *)
(* them (record, clear).                                                   *)
CountersMatchEvents ==
  /\ Len(events) = AtMost(Len(since), MaxEvents)
  /\ \A i \in 1..Len(events) :
       LET r == since[Len(since) - Len(events) + i]
       IN  events[i].by = r /\ events[i].success = Succeeded(r)
  /\ \A a \in Agents :
       LET mine == {i \in 1..Len(since) : fn[since[i]].agent = a}
       IN  /\ stats[a].total = Cardinality(mine)
           /\ stats[a].success = Cardinality({i \in mine : Succeeded(since[i])})
           /\ stats[a].total = stats[a].success + stats[a].errors

(* Every callback registered when an event was recorded is fired with it   *)
(* before the caller has its answer: once, in order, although others raise *)
(* and although callbacks register callbacks or clear the store (record).  *)
HooksHearEveryEvent ==
  \A r \in Requests : toFire[r] = <<>> => heard[r] = due[r]

(* Within all boundaries of the passport, and, for what moves value or has *)
(* been given a tier that asks for it, on a claim that check_asset_truth   *)
(* finds the market to bear out.                                           *)
MayRun(f, c, o, t) ==
  /\ f.permitted /\ WithinTransaction(f)
  /\ (IF f.tier = NoTier THEN f.action \in ValueMoving ELSE f.tier > 0)
       => Plausible(c, o, t)

Placed == [r \in Requests |-> IF wrapper[r] = "calling" THEN stage[r] ELSE wrapper[r]]

Contract == INSTANCE Protected
  WITH place <- Placed, answer <- result, owed <- toFire,
       Patience <- TTL + Grace

(* What the decorators promise (module Protected), whatever else goes on:  *)
(* a call runs its function at most once, on evidence that held when it    *)
(* was put to the verifier and no later than the envelope allows, ends in  *)
(* the outcome its policy asks for, and is back with its caller only when  *)
(* all who observed its end have been told (protect, observe, record).     *)
KeepsContract == Contract!ProtectedSpec

(* "A misbehaving dashboard hook can't deadlock or crash the observed      *)
(* agent" (observe.py): nobody waits for good.  What protect's wrapper     *)
(* came to is always one step nearer to its caller, although callbacks     *)
(* raise and use the store they are called from.                           *)
OutcomeReachesCaller ==
  \A r \in Requests :
    stage[r] = "left" /\ wrapper[r] # "returned" =>
      ENABLED (Record(r) \/ Fire(r) \/ HandOn(r))
=============================================================================
