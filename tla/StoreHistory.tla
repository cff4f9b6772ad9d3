---------------------------- MODULE StoreHistory ----------------------------
(***************************************************************************)
(* RevocationStore with what a caller could have written down: every nonce *)
(* it was told is new, the last answer, and the last order the operator    *)
(* gave about each subject.  The three variables record and never steer.   *)
(* With them the store can be compared with what it promises: the replay   *)
(* cache implements ReplayGuard, and a subject is refused exactly while    *)
(* the last order about it stands.                                         *)
(***************************************************************************)
EXTENDS RevocationStore

CONSTANT MaxAccepted    \* bound on the acceptances of one run

ASSUME HistoryAssumption == MaxAccepted \in Nat

VARIABLES
  accepted,   \* every acceptance, oldest first
  reply,      \* what check_nonce last returned
  orders      \* the last of revoke, suspend and reinstate for each subject

historyVars == <<accepted, reply, orders>>
vars == <<clock, storeVars, historyVars>>

Replies == {"none", "new", "replay"}

HistoryTypeOK ==
  /\ accepted \in Seq(NonceEntry)
  /\ reply \in Replies
  /\ orders \in [Subjects -> Standing]

TypeOK == ClockTypeOK /\ StoreTypeOK /\ HistoryTypeOK

Init ==
  /\ ClockInit
  /\ StoreInit
  /\ accepted = <<>>
  /\ reply = "none"
  /\ orders = records

Order(s, act, standing) ==
  /\ act
  /\ orders' = [orders EXCEPT ![s] = standing]
  /\ UNCHANGED <<clock, accepted, reply>>

Operate(s) ==
  \/ Order(s, Revoke(s), Permanent)
  \/ \E d \in Durations : Order(s, Suspend(s, d), Suspended(clock + d))
  \/ Order(s, Reinstate(s), Unrecorded)

AskNonce(n) ==
  /\ CheckNonce(n)
  /\ \/ /\ NonceIsNew(n)
        /\ Len(accepted) < MaxAccepted
        /\ accepted' = Append(accepted, [nonce |-> n, at |-> clock])
        /\ reply' = "new"
     \/ ~NonceIsNew(n) /\ reply' = "replay" /\ UNCHANGED accepted
  /\ UNCHANGED <<clock, orders>>

Forget ==
  /\ ClearNonces
  /\ accepted' = <<>>
  /\ UNCHANGED <<clock, reply, orders>>

Next ==
  \/ Tick /\ UNCHANGED <<storeVars, historyVars>>
  \/ \E s \in Subjects : Operate(s)
  \/ \E s \in Subjects : ReadStanding(s) /\ UNCHANGED <<clock, historyVars>>
  \/ TouchSync /\ UNCHANGED <<clock, historyVars>>
  \/ \E n \in Nonces : AskNonce(n)
  \/ Forget

Spec == Init /\ [][Next]_vars

-----------------------------------------------------------------------------
(* ReplayGuard's memory is every acceptance, whatever the cache evicted.   *)
Guard == INSTANCE ReplayGuard WITH
  Nonces <- Nonces, NonceTTL <- NonceTTL, MaxNonces <- MaxNonces,
  MaxClock <- MaxClock, clock <- clock, accepted <- accepted, reply <- reply

(* The replay cache accepts a nonce exactly when none of its acceptances   *)
(* is both younger than the retention period and among the last MaxNonces, *)
(* whatever the order of look-ups, expiries and pressure evictions         *)
(* (check_nonce: eviction loop, membership test, insertion).               *)
CacheImplementsGuard == Guard!GuardSpec

(* The cache is the most recent stretch of the acceptances, oldest first,  *)
(* never longer than max_nonces, and whatever it has dropped was out of    *)
(* retention or pushed out by max_nonces later acceptances (check_nonce:   *)
(* popping from the front is right only because insertions are in order).  *)
Dropped == Len(accepted) - Len(nonces)

AcceptedInOrder ==
  /\ \A i, j \in 1..Len(accepted) : i <= j => accepted[i].at <= accepted[j].at
  /\ \A i \in 1..Len(accepted) : accepted[i].at <= clock

CacheIsRecentSuffix ==
  /\ AcceptedInOrder
  /\ Len(nonces) <= MaxNonces
  /\ Len(nonces) <= Len(accepted)
  /\ \A j \in 1..Len(nonces) : nonces[j] = accepted[Dropped + j]
  /\ \A i \in 1..Dropped :
        accepted[i].at + NonceTTL <= clock \/ i + MaxNonces <= Len(accepted)

(* A subject is refused exactly while the last order about it stands: the  *)
(* lazy removal of lapsed suspensions by any reader can neither lift a     *)
(* standing order nor prolong a lapsed one (_live_record).                 *)
OrderStands(s) ==
  /\ orders[s].standing # "clear"
  /\ orders[s].standing = "suspended" => orders[s].until > clock

RefusedExactlyWhileOrdered == \A s \in Subjects : Live(s) <=> OrderStands(s)

(* "None means permanent" (revocation.py, RevocationRecord): a permanent   *)
(* record is only ever removed by reinstating the subject.  The code       *)
(* breaks this: suspend overwrites the record.                             *)
PermanentUntilReinstated ==
  [][\A s \in Subjects :
       records[s] = Permanent => records'[s] = Permanent \/ Reinstate(s)]_vars
=============================================================================
