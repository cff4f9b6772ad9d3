----------------------- MODULE RevocationStore_lemmas -----------------------
(***************************************************************************)
(* Facts about RevocationStore's operators and actions that its proofs and *)
(* those of the modules composed from it cite: what the eviction loops     *)
(* return, and that every method of the store keeps its type.              *)
(***************************************************************************)
EXTENDS RevocationStore, SequenceTheorems, WellFoundedInduction, TLAPS

-----------------------------------------------------------------------------
(* Facts about the helpers of the cache.                                   *)

(* A nonempty set of natural numbers has a least element.                  *)
LEMMA LeastNatural ==
  ASSUME NEW T, T \subseteq Nat, T # {}
  PROVE  \E x \in T : \A y \in T : x <= y
<1>1. PICK x \in T : \A y \in T : ~(<<y, x>> \in OpToRel(<, Nat))
  BY NatLessThanWellFounded, WFMin
<1>2. \A y \in T : ~(y < x)
  BY <1>1 DEF OpToRel
<1> QED
  BY <1>2

(* The eviction loop pops a well-defined prefix: all of it out of          *)
(* retention, and the entry it stops at, if there is one, within it.       *)
LEMMA StaleCountProperty ==
  ASSUME NEW s \in Seq(NonceEntry), clock \in Nat
  PROVE  /\ StaleCount(s) \in 0..Len(s)
         /\ \A i \in 1..StaleCount(s) : s[i].at + NonceTTL <= clock
         /\ StaleCount(s) < Len(s) => s[StaleCount(s) + 1].at + NonceTTL > clock
<1> DEFINE Fresh(i) == s[i].at + NonceTTL > clock
           T == {k \in 0..Len(s) : k < Len(s) => Fresh(k + 1)}
<1>1. Len(s) \in T /\ T \subseteq Nat
  BY LenProperties
<1>2. PICK k \in T : \A y \in T : k <= y
  BY <1>1, LeastNatural
<1>3. \A i \in 1..k : s[i].at + NonceTTL <= clock
  <2> SUFFICES ASSUME NEW i \in 1..k PROVE s[i].at + NonceTTL <= clock
    OBVIOUS
  <2>0. s[i] \in NonceEntry /\ k \in 0..Len(s)
    BY <1>2, LenProperties, ElementOfSeq
  <2>1. i - 1 \in 0..Len(s) /\ i - 1 < Len(s) /\ ~(k <= i - 1)
    BY LenProperties
  <2>2. i - 1 \notin T
    BY <1>2, <2>1
  <2>3. ~Fresh(i)
    BY <2>1, <2>2
  <2> QED
    BY <2>0, <2>3, StoreAssumption DEF NonceEntry
<1>4. k \in 0..Len(s) /\ (k < Len(s) => Fresh(k + 1))
  BY <1>2
<1> QED
  BY <1>3, <1>4 DEF StaleCount

LEMMA DropStaleProperty ==
  ASSUME NEW s \in Seq(NonceEntry), clock \in Nat
  PROVE  /\ DropStale(s) \in Seq(NonceEntry)
         /\ Len(DropStale(s)) = Len(s) - StaleCount(s)
         /\ \A j \in 1..Len(DropStale(s)) : DropStale(s)[j] = s[StaleCount(s) + j]
<1>1. StaleCount(s) \in 0..Len(s) /\ Len(s) \in Nat
  BY StaleCountProperty, LenProperties
<1>2. \A i \in (StaleCount(s) + 1)..Len(s) : s[i] \in NonceEntry
  BY <1>1, ElementOfSeq
<1> QED
  BY <1>1, <1>2, SubSeqProperties DEF DropStale

LEMMA DropExcessProperty ==
  ASSUME NEW s \in Seq(NonceEntry)
  PROVE  LET k == Len(s) - Len(DropExcess(s))
         IN  /\ DropExcess(s) \in Seq(NonceEntry)
             /\ k \in 0..Len(s)
             /\ Len(DropExcess(s)) <= MaxNonces
             /\ k > 0 => Len(DropExcess(s)) = MaxNonces
             /\ \A j \in 1..Len(DropExcess(s)) : DropExcess(s)[j] = s[k + j]
<1>1. Len(s) \in Nat /\ MaxNonces \in Nat
  BY LenProperties, StoreAssumption
<1>2. CASE Len(s) <= MaxNonces
  <2>1. DropExcess(s) = s
    BY <1>2, <1>1 DEF DropExcess
  <2> QED
    BY <1>1, <1>2, <2>1
<1>3. CASE Len(s) > MaxNonces
  <2>1. \A i \in (Len(s) - MaxNonces + 1)..Len(s) : s[i] \in NonceEntry
    BY <1>1, <1>3, ElementOfSeq
  <2>2. DropExcess(s) = SubSeq(s, Len(s) - MaxNonces + 1, Len(s))
    BY <1>3 DEF DropExcess
  <2>3. /\ DropExcess(s) \in Seq(NonceEntry)
        /\ Len(DropExcess(s)) = MaxNonces
        /\ \A i \in 1..MaxNonces : DropExcess(s)[i] = s[Len(s) - MaxNonces + i]
    BY <1>1, <1>3, <2>1, <2>2, SubSeqProperties, StoreAssumption
  <2> QED
    BY <1>1, <1>3, <2>3
<1> QED
  BY <1>1, <1>2, <1>3

-----------------------------------------------------------------------------
(* Type correctness.                                                       *)

LEMMA StandingTypes ==
  ASSUME StoreTypeOK, clock \in Nat, NEW s \in Subjects
  PROVE  /\ Permanent \in Standing
         /\ Unrecorded \in Standing
         /\ \A d \in Durations : Suspended(clock + d) \in Standing
         /\ DropLapsed(s) \in [Subjects -> Standing]
  BY StoreAssumption
     DEF StoreTypeOK, Permanent, Unrecorded, Suspended, Standing, DropLapsed

LEMMA SpendNonceType ==
  ASSUME nonces \in Seq(NonceEntry), clock \in Nat, NEW n \in Nonces
  PROVE  SpendNonce(n) \in Seq(NonceEntry)
<1>1. DropStale(nonces) \in Seq(NonceEntry)
  BY DropStaleProperty
<1>2. [nonce |-> n, at |-> clock] \in NonceEntry
  BY DEF NonceEntry
<1>3. Append(DropStale(nonces), [nonce |-> n, at |-> clock]) \in Seq(NonceEntry)
  BY <1>1, <1>2, AppendProperties
<1> QED
  BY <1>1, <1>3, DropExcessProperty DEF SpendNonce

(* Every method of the store keeps the type of its variables.              *)
LEMMA StoreMethodTypes ==
  ASSUME StoreTypeOK, clock \in Nat
  PROVE  /\ \A s \in Subjects :
              \/ Revoke(s) \/ Reinstate(s) \/ ReadStanding(s)
              \/ \E d \in Durations : Suspend(s, d)
              => StoreTypeOK'
         /\ TouchSync => StoreTypeOK'
         /\ \A n \in Nonces : CheckNonce(n) => StoreTypeOK'
<1>1. ASSUME NEW s \in Subjects,
             \/ Revoke(s) \/ Reinstate(s) \/ ReadStanding(s)
             \/ \E d \in Durations : Suspend(s, d)
      PROVE  StoreTypeOK'
  BY <1>1, StandingTypes DEF StoreTypeOK, Revoke, Reinstate, ReadStanding, Suspend
<1>2. ASSUME NEW n \in Nonces, CheckNonce(n) PROVE StoreTypeOK'
  BY <1>2, SpendNonceType DEF StoreTypeOK, CheckNonce
<1>3. TouchSync => StoreTypeOK'
  BY DEF StoreTypeOK, TouchSync
<1> QED
  BY <1>1, <1>2, <1>3
=============================================================================
