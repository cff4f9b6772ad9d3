----------------------------- MODULE Protected -----------------------------
(***************************************************************************)
(* What observe(protect(f)) promises whoever owns a function, calls it or  *)
(* observes it, with no envelopes, checks, stores or locks in it: a call   *)
(* runs the function at most once, and only if the function may run on     *)
(* what the resolvers found, at the time it was found; the caller gets the *)
(* outcome that belongs to its end, and not before all who observed that   *)
(* end have been told.  The wrappers around verify_intent (module Wrapped) *)
(* are shown to implement it.                                              *)
(***************************************************************************)
EXTENDS Naturals, Sequences

CONSTANTS
  Requests, Functions, Claims, Observations, NoClaim, NoObservation, Hooks,
  Patience,           \* how long after it was made a call may still be granted
  MayRun(_, _, _, _)  \* function, claim, observation and time of the decision

VARIABLES
  clock,
  place,      \* of a call
  fn,         \* the function it calls
  created,    \* when it was made
  evidence,   \* what the resolvers found
  asked,      \* when that was put to the verifier
  answer,     \* what the caller gets
  callbacks,  \* who observes
  owed        \* whom a call has yet to tell

callVars == <<fn, created, evidence, asked, answer>>
protectedVars == <<clock, place, callVars, callbacks, owed>>

ProtectedInit ==
  /\ clock = 0
  /\ place = [r \in Requests |-> "new"]
  /\ fn = [r \in Requests |-> CHOOSE f \in Functions : TRUE]
  /\ created = [r \in Requests |-> 0]
  /\ evidence = [r \in Requests |-> <<NoClaim, NoObservation>>]
  /\ asked = [r \in Requests |-> 0]
  /\ answer = [r \in Requests |-> "none"]
  /\ callbacks = <<>>
  /\ owed = [r \in Requests |-> <<>>]

Go(r, from, to) == place[r] = from /\ place' = [place EXCEPT ![r] = to]

Call(r) ==
  /\ Go(r, "new", "resolving")
  /\ \E f \in Functions : fn' = [fn EXCEPT ![r] = f]
  /\ created' = [created EXCEPT ![r] = clock]
  /\ UNCHANGED <<clock, evidence, asked, answer, callbacks, owed>>

(* Resolvers find nothing for a function that has none.                    *)
Ask(r) ==
  /\ Go(r, "resolving", "verifying")
  /\ \E c \in Claims \cup {NoClaim}, o \in Observations \cup {NoObservation} :
       /\ fn[r].resolves \/ c = NoClaim
       /\ c # NoClaim \/ o = NoObservation
       /\ evidence' = [evidence EXCEPT ![r] = <<c, o>>]
  /\ asked' = [asked EXCEPT ![r] = clock]
  /\ UNCHANGED <<clock, fn, created, answer, callbacks, owed>>

Start(r) ==
  /\ Go(r, "verifying", "running")
  /\ MayRun(fn[r], evidence[r][1], evidence[r][2], asked[r])
  /\ asked[r] <= created[r] + Patience
  /\ UNCHANGED <<clock, callVars, callbacks, owed>>

(* The three ways a call ends: its outcome says which.                     *)
End(r, from, outcome) ==
  /\ Go(r, from, "left")
  /\ created' = [created EXCEPT ![r] = 0]
  /\ evidence' = [evidence EXCEPT ![r] = <<NoClaim, NoObservation>>]
  /\ asked' = [asked EXCEPT ![r] = 0]
  /\ answer' = [answer EXCEPT ![r] = outcome]
  /\ UNCHANGED <<clock, fn, callbacks, owed>>

GiveUp(r) == fn[r].resolves /\ End(r, "resolving", "exception")

Refuse(r) ==
  End(r, "verifying", IF fn[r].onViolation = "raise" THEN "violation" ELSE "nothing")

Finish(r) == \E outcome \in {"value", "exception"} : End(r, "running", outcome)

(* Whoever observes when a call has ended is told, in order.               *)
Notify(r) ==
  /\ Go(r, "left", "firing")
  /\ owed' = [owed EXCEPT ![r] = callbacks]
  /\ UNCHANGED <<clock, callVars, callbacks>>

(* One at a time; it may have somebody else observe from now on.           *)
Tell(r) ==
  /\ place[r] = "firing" /\ owed[r] # <<>>
  /\ owed' = [owed EXCEPT ![r] = Tail(@)]
  /\ \/ UNCHANGED callbacks
     \/ \E h \in Hooks : callbacks' = Append(callbacks, h)
  /\ UNCHANGED <<clock, place, callVars>>

Return(r) ==
  /\ Go(r, "firing", "returned") /\ owed[r] = <<>>
  /\ UNCHANGED <<clock, callVars, callbacks, owed>>

Observe(h) ==
  callbacks' = Append(callbacks, h) /\ UNCHANGED <<clock, place, callVars, owed>>

Elapse ==
  clock' = clock + 1 /\ UNCHANGED <<place, callVars, callbacks, owed>>

ProtectedNext ==
  \/ Elapse
  \/ \E h \in Hooks : Observe(h)
  \/ \E r \in Requests :
       \/ Call(r) \/ Ask(r) \/ GiveUp(r) \/ Start(r) \/ Refuse(r) \/ Finish(r)
       \/ Notify(r) \/ Tell(r) \/ Return(r)

ProtectedSpec == ProtectedInit /\ [][ProtectedNext]_protectedVars
=============================================================================
