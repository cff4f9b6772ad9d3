-------------------------- MODULE RevocationStore --------------------------
(***************************************************************************)
(* custos_protocol/revocation.py: the kill switch and the replay cache,    *)
(* one object behind one lock.  Every public method takes the lock once,   *)
(* so every method is one action; freshness reads _last_sync without it    *)
(* and writes nothing, so it is the state predicate Stale.                 *)
(*                                                                         *)
(* A record is looked up by subject id alone (subject_type is stored and   *)
(* never read), so agents and issuers share `records`.                     *)
(***************************************************************************)
EXTENDS Clock, Integers, Sequences, FiniteSets

CONSTANTS
  Subjects,       \* agent and issuer ids
  Nonces,         \* envelope entropies
  NonceTTL,       \* DEFAULT_NONCE_TTL_SECONDS
  MaxNonces,      \* the constructor's max_nonces
  Durations,      \* duration_seconds a caller of suspend may pass
  LocalOnly,      \* the constructor's local_only
  MaxStaleness    \* max_revocation_staleness_ms

ASSUME StoreAssumption ==
  /\ NonceTTL \in Nat \ {0}
  /\ MaxNonces \in Nat \ {0}
  /\ Durations \subseteq Nat
  /\ LocalOnly \in BOOLEAN
  /\ MaxStaleness \in Nat

VARIABLES
  records,    \* _records: the standing of every subject
  nonces,     \* _nonces: the OrderedDict, oldest insertion first
  lastSync    \* _last_sync

storeVars == <<records, nonces, lastSync>>

(* suspended_until is a time for a suspension and None, here 0, otherwise. *)
Unrecorded == [standing |-> "clear", until |-> 0]
Permanent  == [standing |-> "revoked", until |-> 0]
Suspended(t) == [standing |-> "suspended", until |-> t]

Standing == [standing : {"clear", "revoked", "suspended"}, until : Nat]
NonceEntry == [nonce : Nonces, at : Nat]

StoreTypeOK ==
  /\ records \in [Subjects -> Standing]
  /\ nonces \in Seq(NonceEntry)
  /\ lastSync \in Nat

StoreInit ==
  /\ records = [s \in Subjects |-> Unrecorded]
  /\ nonces = <<>>
  /\ lastSync = clock

-----------------------------------------------------------------------------
(* The kill switch.                                                        *)

Lapsed(s) == records[s].standing = "suspended" /\ records[s].until <= clock

(* Mutant: forgets to compare suspended_until with the clock.              *)
MutantDropAnySuspension(s) ==
  IF records[s].standing = "suspended"
    THEN [records EXCEPT ![s] = Unrecorded] ELSE records
(* _live_record drops a lapsed suspension from the dict as it reads it.    *)
DropLapsed(s) ==
  IF Lapsed(s) THEN [records EXCEPT ![s] = Unrecorded] ELSE records

(* is_revoked(s), and is_suspended(s) for a subject with a live record.    *)
Live(s) == records[s].standing # "clear" /\ ~Lapsed(s)
LiveSuspension(s) == records[s].standing = "suspended" /\ ~Lapsed(s)

Stale == ~LocalOnly /\ clock - lastSync > MaxStaleness

Revoke(s) ==
  /\ records' = [records EXCEPT ![s] = Permanent]
  /\ lastSync' = clock
  /\ UNCHANGED nonces

Suspend(s, d) ==
  /\ records' = [records EXCEPT ![s] = Suspended(clock + d)]
  /\ lastSync' = clock
  /\ UNCHANGED nonces

Reinstate(s) ==
  /\ records' = [records EXCEPT ![s] = Unrecorded]
  /\ lastSync' = clock
  /\ UNCHANGED nonces

(* is_revoked, is_suspended and get_record: all three go through           *)
(* _live_record, and that is their only effect.                            *)
ReadStanding(s) ==
  /\ records' = DropLapsed(s)
  /\ UNCHANGED <<nonces, lastSync>>

TouchSync == lastSync' = clock /\ UNCHANGED <<records, nonces>>

-----------------------------------------------------------------------------
(* The replay cache.                                                       *)

(* How many entries the age-based loop pops: it stops at the first entry   *)
(* that is still within retention, whatever stands behind it.              *)
StaleCount(s) ==
  CHOOSE k \in 0..Len(s) :
    /\ \A i \in 1..k : s[i].at + NonceTTL <= clock
    /\ k < Len(s) => s[k + 1].at + NonceTTL > clock

DropStale(s) == SubSeq(s, StaleCount(s) + 1, Len(s))

(* Mutant: pressure pops from the wrong end (popitem without last=False).  *)
MutantDropNewest(s) ==
  IF Len(s) > MaxNonces THEN SubSeq(s, 1, MaxNonces) ELSE s
(* Pressure: the loop pops the oldest until the cache fits.                *)
DropExcess(s) ==
  IF Len(s) > MaxNonces
    THEN SubSeq(s, Len(s) - MaxNonces + 1, Len(s)) ELSE s

Holds(s, n) == \E i \in 1..Len(s) : s[i].nonce = n

(* Mutant: looks the nonce up before the expired entries are dropped.      *)
MutantNonceIsNew(n) == ~Holds(nonces, n)
(* check_nonce(n) returns NonceIsNew(n) and leaves the cache as SpendNonce.   *)
NonceIsNew(n) == ~Holds(DropStale(nonces), n)

(* Mutant: stamps the nonce with the cutoff instead of the time.           *)
MutantSpendAtCutoff(n) ==
  IF NonceIsNew(n)
    THEN DropExcess(Append(DropStale(nonces), [nonce |-> n, at |-> clock - NonceTTL]))
    ELSE DropStale(nonces)
SpendNonce(n) ==
  IF NonceIsNew(n)
    THEN DropExcess(Append(DropStale(nonces), [nonce |-> n, at |-> clock]))
    ELSE DropStale(nonces)

CheckNonce(n) ==
  /\ nonces' = SpendNonce(n)
  /\ UNCHANGED <<records, lastSync>>

ClearNonces == nonces' = <<>> /\ UNCHANGED <<records, lastSync>>

-----------------------------------------------------------------------------
StoreNext ==
  \/ Tick /\ UNCHANGED storeVars
  \/ \E s \in Subjects :
       /\ \/ Revoke(s)
          \/ \E d \in Durations : Suspend(s, d)
          \/ Reinstate(s)
          \/ ReadStanding(s)
       /\ UNCHANGED clock
  \/ TouchSync /\ UNCHANGED clock
  \/ \E n \in Nonces : CheckNonce(n) /\ UNCHANGED clock
  \/ ClearNonces /\ UNCHANGED clock

StoreSpec == ClockInit /\ StoreInit /\ [][StoreNext]_<<clock, storeVars>>
=============================================================================
