----------------------- MODULE RevocationStore_proofs -----------------------
(***************************************************************************)
(* Proofs about RevocationStore, over the history StoreHistory records:    *)
(* type correctness, the replay cache's inductive invariant, that the      *)
(* cache implements ReplayGuard, and that a subject is refused exactly     *)
(* while the last order about it stands.                                   *)
(***************************************************************************)
EXTENDS StoreHistory, RevocationStore_lemmas

-----------------------------------------------------------------------------
(* Type correctness.                                                       *)

(* Every variable of the store and of its history keeps its type.          *)
THEOREM StoreTypeCorrect == Spec => []TypeOK
<1>1. Init => TypeOK
  BY ClockAssumption, EmptySeq
     DEF Init, TypeOK, ClockInit, ClockTypeOK, StoreInit, StoreTypeOK,
         HistoryTypeOK, Unrecorded, Standing, Replies
<1>2. TypeOK /\ [Next]_vars => TypeOK'
  <2> SUFFICES ASSUME TypeOK, [Next]_vars PROVE TypeOK'
    OBVIOUS
  <2>0. clock \in Nat /\ StoreTypeOK
    BY ClockAssumption DEF TypeOK, ClockTypeOK
  <2>1. CASE Tick /\ UNCHANGED <<storeVars, historyVars>>
    BY <2>1, ClockAssumption
       DEF TypeOK, ClockTypeOK, Tick, StoreTypeOK, HistoryTypeOK, storeVars,
           historyVars
  <2>2. ASSUME NEW s \in Subjects, Operate(s) PROVE TypeOK'
    BY <2>0, <2>2, StandingTypes
       DEF TypeOK, ClockTypeOK, StoreTypeOK, HistoryTypeOK, Operate, Order,
           Revoke, Suspend, Reinstate
  <2>3. ASSUME NEW s \in Subjects, ReadStanding(s),
               UNCHANGED <<clock, historyVars>>
        PROVE  TypeOK'
    BY <2>0, <2>3, StandingTypes
       DEF TypeOK, ClockTypeOK, StoreTypeOK, HistoryTypeOK, ReadStanding,
           historyVars
  <2>4. CASE TouchSync /\ UNCHANGED <<clock, historyVars>>
    BY <2>0, <2>4
       DEF TypeOK, ClockTypeOK, StoreTypeOK, HistoryTypeOK, TouchSync,
           historyVars
  <2>5. ASSUME NEW n \in Nonces, AskNonce(n) PROVE TypeOK'
    <3>1. SpendNonce(n) \in Seq(NonceEntry)
      BY <2>0, SpendNonceType DEF StoreTypeOK
    <3>2. [nonce |-> n, at |-> clock] \in NonceEntry
      BY <2>0 DEF NonceEntry
    <3>3. accepted' \in Seq(NonceEntry) /\ reply' \in Replies
      BY <2>5, <3>2, AppendProperties DEF AskNonce, TypeOK, HistoryTypeOK, Replies
    <3> QED
      BY <2>5, <3>1, <3>3
         DEF AskNonce, CheckNonce, TypeOK, ClockTypeOK, StoreTypeOK,
             HistoryTypeOK
  <2>6. CASE Forget
    BY <2>6, EmptySeq
       DEF Forget, ClearNonces, TypeOK, ClockTypeOK, StoreTypeOK, HistoryTypeOK
  <2>7. CASE UNCHANGED vars
    BY <2>7
       DEF vars, storeVars, historyVars, TypeOK, ClockTypeOK, StoreTypeOK,
           HistoryTypeOK
  <2> QED
    BY <2>1, <2>2, <2>3, <2>4, <2>5, <2>6, <2>7 DEF Next
<1> QED
  BY <1>1, <1>2, PTL DEF Spec

-----------------------------------------------------------------------------
(* The replay cache.                                                       *)

(* Every fact the cache's invariant needs about the state it is in.        *)
LEMMA CacheTypes ==
  ASSUME TypeOK
  PROVE  /\ clock \in Nat /\ NonceTTL \in Nat /\ MaxNonces \in Nat
         /\ MaxNonces > 0
         /\ accepted \in Seq(NonceEntry) /\ nonces \in Seq(NonceEntry)
         /\ Len(accepted) \in Nat /\ Len(nonces) \in Nat
         /\ \A i \in 1..Len(accepted) : accepted[i].at \in Nat
<1>1. accepted \in Seq(NonceEntry) /\ nonces \in Seq(NonceEntry)
  BY DEF TypeOK, StoreTypeOK, HistoryTypeOK
<1>2. \A i \in 1..Len(accepted) : accepted[i] \in NonceEntry
  BY <1>1, ElementOfSeq
<1>3. Len(accepted) \in Nat /\ Len(nonces) \in Nat
  BY <1>1, LenProperties
<1>4. clock \in Nat /\ NonceTTL \in Nat /\ MaxNonces \in Nat /\ MaxNonces > 0
  BY ClockAssumption, StoreAssumption DEF TypeOK, ClockTypeOK
<1>5. \A i \in 1..Len(accepted) : accepted[i].at \in Nat
  BY <1>2 DEF NonceEntry
<1> QED
  BY <1>1, <1>3, <1>4, <1>5

(* After the eviction loop the cache still is the recent stretch of the    *)
(* acceptances, and all that is left in it is within retention.            *)
LEMMA EvictionKeepsSuffix ==
  ASSUME TypeOK, CacheIsRecentSuffix
  PROVE  LET kept == DropStale(nonces)
             gone == Len(accepted) - Len(kept)
         IN  /\ kept \in Seq(NonceEntry)
             /\ Len(kept) \in Nat /\ Len(kept) <= Len(nonces)
             /\ \A j \in 1..Len(kept) : kept[j] = accepted[gone + j]
             /\ \A i \in 1..gone :
                   \/ accepted[i].at + NonceTTL <= clock
                   \/ i + MaxNonces <= Len(accepted)
             /\ \A j \in 1..Len(kept) : kept[j].at + NonceTTL > clock
<1> DEFINE kept == DropStale(nonces)
           gone == Len(accepted) - Len(kept)
           c == StaleCount(nonces)
<1>1. /\ c \in 0..Len(nonces)
      /\ \A i \in 1..c : nonces[i].at + NonceTTL <= clock
      /\ c < Len(nonces) => nonces[c + 1].at + NonceTTL > clock
  BY CacheTypes, StaleCountProperty
<1>2. /\ kept \in Seq(NonceEntry)
      /\ Len(kept) = Len(nonces) - c
      /\ \A j \in 1..Len(kept) : kept[j] = nonces[c + j]
  BY CacheTypes, DropStaleProperty
<1>3. /\ gone = Dropped + c /\ Dropped \in Nat /\ gone \in Nat
      /\ Len(kept) \in Nat /\ c \in Nat
      /\ Len(nonces) = Len(kept) + c /\ Len(accepted) = gone + Len(kept)
  <2>1. /\ Len(accepted) \in Nat /\ Len(nonces) \in Nat
        /\ Len(nonces) <= Len(accepted)
    BY CacheTypes DEF CacheIsRecentSuffix
  <2>2. c \in 0..Len(nonces) /\ Len(kept) = Len(nonces) - c
    BY <1>1, <1>2
  <2> HIDE DEF kept, c
  <2> QED
    BY <2>1, <2>2 DEF Dropped
<1> HIDE DEF kept, gone, c
<1>4. \A j \in 1..Len(nonces) : nonces[j] = accepted[Dropped + j]
  BY DEF CacheIsRecentSuffix
<1>5. \A j \in 1..Len(kept) : kept[j] = accepted[gone + j]
  <2> TAKE j \in 1..Len(kept)
  <2>1. kept[j] = nonces[c + j] /\ c + j \in 1..Len(nonces)
    BY <1>1, <1>2, CacheTypes
  <2>2. nonces[c + j] = accepted[Dropped + (c + j)]
    BY <1>4, <2>1
  <2>3. Dropped + (c + j) = gone + j
    BY <1>1, <1>3, CacheTypes
  <2> QED
    BY <2>1, <2>2, <2>3
<1>6. \A i \in 1..gone : \/ accepted[i].at + NonceTTL <= clock
                         \/ i + MaxNonces <= Len(accepted)
  <2> TAKE i \in 1..gone
  <2>1. CASE i <= Dropped
    BY <1>1, <1>3, <2>1, CacheTypes DEF CacheIsRecentSuffix
  <2>2. CASE i > Dropped
    <3>1. i - Dropped \in 1..c /\ Dropped + (i - Dropped) = i
      BY <1>1, <1>3, <2>2, CacheTypes
    <3>2. nonces[i - Dropped] = accepted[i]
      BY <1>1, <1>4, <3>1, CacheTypes
    <3> QED
      BY <1>1, <3>1, <3>2
  <2> QED
    BY <1>1, <1>3, <2>1, <2>2, CacheTypes
<1>7. \A j \in 1..Len(kept) : kept[j].at + NonceTTL > clock
  <2> TAKE j \in 1..Len(kept)
  <2>1. /\ c < Len(nonces)
        /\ gone + 1 \in 1..Len(accepted) /\ gone + j \in 1..Len(accepted)
        /\ gone + 1 <= gone + j
    BY <1>3
  <2>2. kept[1] = nonces[c + 1] /\ kept[1] = accepted[gone + 1]
        /\ kept[j] = accepted[gone + j]
    BY <1>1, <1>2, <1>5, CacheTypes
  <2>3. accepted[gone + 1].at <= accepted[gone + j].at
    BY <2>1 DEF CacheIsRecentSuffix, AcceptedInOrder
  <2>4. /\ accepted[gone + 1].at \in Nat /\ accepted[gone + j].at \in Nat
        /\ accepted[gone + 1].at + NonceTTL > clock
    BY <1>1, <2>1, <2>2, CacheTypes
  <2> QED
    BY <2>2, <2>3, <2>4, CacheTypes
<1> QED
  BY <1>2, <1>3, <1>5, <1>6, <1>7 DEF kept, gone

(* check_nonce's answer is ReplayGuard's: the cache holds the nonce after  *)
(* the eviction loop exactly when the guard remembers it.                  *)
LEMMA NewIffNotRemembered ==
  ASSUME TypeOK, CacheIsRecentSuffix, NEW n \in Nonces
  PROVE  NonceIsNew(n) <=> ~Guard!Remembered(n)
<1> DEFINE kept == DropStale(nonces)
           gone == Len(accepted) - Len(kept)
<1>1. /\ kept \in Seq(NonceEntry)
      /\ Len(kept) \in Nat /\ Len(kept) <= Len(nonces)
      /\ \A j \in 1..Len(kept) : kept[j] = accepted[gone + j]
      /\ \A i \in 1..gone : \/ accepted[i].at + NonceTTL <= clock
                           \/ i + MaxNonces <= Len(accepted)
      /\ \A j \in 1..Len(kept) : kept[j].at + NonceTTL > clock
  BY EvictionKeepsSuffix
<1>2. Len(nonces) <= MaxNonces /\ Len(nonces) <= Len(accepted)
  BY DEF CacheIsRecentSuffix
<1>3. gone \in Nat /\ Len(accepted) = gone + Len(kept) /\ Len(kept) <= MaxNonces
  BY <1>1, <1>2, CacheTypes
<1> HIDE DEF kept, gone
<1>4. ASSUME NEW j \in 1..Len(kept), kept[j].nonce = n
      PROVE  Guard!Remembered(n)
  <2>1. gone + j \in 1..Len(accepted)
    BY <1>1, <1>3, CacheTypes
  <2>2. accepted[gone + j] = kept[j] /\ accepted[gone + j].at + NonceTTL > clock
    BY <1>1
  <2>3. gone + j + MaxNonces > Len(accepted)
    BY <1>1, <1>3, CacheTypes
  <2> QED
    BY <1>4, <2>1, <2>2, <2>3 DEF Guard!Remembered
<1>5. ASSUME NEW i \in 1..Len(accepted),
             accepted[i].nonce = n,
             accepted[i].at + NonceTTL > clock,
             i + MaxNonces > Len(accepted)
      PROVE  \E j \in 1..Len(kept) : kept[j].nonce = n
  <2>1. ~(i <= gone)
    <3> SUFFICES ASSUME i <= gone PROVE FALSE
      OBVIOUS
    <3>1. i \in 1..gone
      BY <1>3
    <3>2. accepted[i].at + NonceTTL <= clock \/ i + MaxNonces <= Len(accepted)
      BY <1>1, <3>1
    <3>3. accepted[i].at \in Nat
      BY CacheTypes
    <3> QED
      BY <1>5, <3>2, <3>3, CacheTypes
  <2>2. i - gone \in 1..Len(kept) /\ gone + (i - gone) = i
    BY <1>1, <1>3, <2>1, CacheTypes
  <2>3. kept[i - gone] = accepted[i]
    BY <1>1, <2>2
  <2> QED
    BY <1>5, <2>2, <2>3
<1>6. NonceIsNew(n) <=> ~(\E j \in 1..Len(kept) : kept[j].nonce = n)
  BY DEF NonceIsNew, Holds, kept
<1> QED
  BY <1>4, <1>5, <1>6 DEF Guard!Remembered

(* Accepting a nonce keeps the cache's invariant.                          *)
LEMMA AcceptKeepsSuffix ==
  ASSUME TypeOK, CacheIsRecentSuffix, NEW n \in Nonces, AskNonce(n),
         NonceIsNew(n)
  PROVE  CacheIsRecentSuffix'
<1> DEFINE kept == DropStale(nonces)
           gone == Len(accepted) - Len(kept)
           e == [nonce |-> n, at |-> clock]
           grown == Append(kept, e)
           k == Len(grown) - Len(nonces')
<1>1. /\ kept \in Seq(NonceEntry)
      /\ Len(kept) \in Nat /\ Len(kept) <= Len(nonces)
      /\ \A j \in 1..Len(kept) : kept[j] = accepted[gone + j]
      /\ \A i \in 1..gone : \/ accepted[i].at + NonceTTL <= clock
                           \/ i + MaxNonces <= Len(accepted)
  BY EvictionKeepsSuffix
<1>2. /\ nonces' = DropExcess(grown) /\ clock' = clock
      /\ accepted' = Append(accepted, e)
  BY DEF AskNonce, CheckNonce, SpendNonce
<1>3. e \in NonceEntry
  BY CacheTypes DEF NonceEntry
<1>4. /\ Len(accepted') = Len(accepted) + 1
      /\ \A i \in 1..Len(accepted) : accepted'[i] = accepted[i]
      /\ accepted'[Len(accepted) + 1] = e
  BY <1>2, <1>3, CacheTypes, AppendProperties
<1>5. /\ grown \in Seq(NonceEntry)
      /\ Len(grown) = Len(kept) + 1
      /\ \A j \in 1..Len(kept) : grown[j] = kept[j]
      /\ grown[Len(kept) + 1] = e
  BY <1>1, <1>3, AppendProperties
<1>6. /\ nonces' \in Seq(NonceEntry)
      /\ k \in 0..Len(grown)
      /\ Len(nonces') <= MaxNonces
      /\ k > 0 => Len(nonces') = MaxNonces
      /\ \A j \in 1..Len(nonces') : nonces'[j] = grown[k + j]
  BY <1>2, <1>5, DropExcessProperty
<1>7. Len(nonces') \in Nat
  BY <1>6, LenProperties
<1>8. Len(nonces) <= Len(accepted)
  BY DEF CacheIsRecentSuffix
<1> HIDE DEF kept, grown, e
<1>9. /\ gone \in Nat /\ k \in Nat /\ Len(kept) \in Nat
      /\ Len(accepted) = gone + Len(kept)
      /\ Len(grown) = k + Len(nonces')
      /\ Dropped' = gone + k
      /\ Len(nonces') <= Len(accepted')
  BY <1>1, <1>4, <1>5, <1>6, <1>7, <1>8, CacheTypes DEF Dropped
<1> HIDE DEF gone, k
<1>10. AcceptedInOrder'
  <2>1. /\ \A i \in 1..Len(accepted) : accepted[i].at <= clock
        /\ \A i, j \in 1..Len(accepted) :
              i <= j => accepted[i].at <= accepted[j].at
    BY DEF CacheIsRecentSuffix, AcceptedInOrder
  <2>2. e.at = clock
    BY DEF e
  <2>3. \A i \in 1..Len(accepted') :
           accepted'[i].at = IF i = Len(accepted) + 1 THEN clock ELSE accepted[i].at
    BY <1>4, <2>2, CacheTypes
  <2> QED
    BY <1>2, <1>4, <2>1, <2>3, CacheTypes DEF AcceptedInOrder
<1>11. \A j \in 1..Len(nonces') : nonces'[j] = accepted'[Dropped' + j]
  <2> TAKE j \in 1..Len(nonces')
  <2>1. nonces'[j] = grown[k + j] /\ k + j \in 1..(Len(kept) + 1)
    BY <1>5, <1>6, <1>7, <1>9
  <2>2. CASE k + j \in 1..Len(kept)
    <3>1. grown[k + j] = accepted[gone + (k + j)]
      BY <1>1, <1>5, <2>2
    <3>2. gone + (k + j) \in 1..Len(accepted) /\ gone + (k + j) = Dropped' + j
      BY <1>1, <1>7, <1>9, <2>2
    <3> QED
      BY <1>4, <2>1, <3>1, <3>2
  <2>3. CASE k + j = Len(kept) + 1
    <3>1. Dropped' + j = Len(accepted) + 1
      BY <1>9, <2>3
    <3> QED
      BY <1>4, <1>5, <2>1, <2>3, <3>1
  <2> QED
    BY <1>1, <2>1, <2>2, <2>3
<1>12. \A i \in 1..Dropped' : \/ accepted'[i].at + NonceTTL <= clock'
                            \/ i + MaxNonces <= Len(accepted')
  <2> TAKE i \in 1..Dropped'
  <2>1. CASE i <= gone
    <3>1. i \in 1..gone /\ i \in 1..Len(accepted)
      BY <1>1, <1>9, <2>1
    <3> QED
      BY <1>1, <1>2, <1>4, <3>1, CacheTypes
  <2>2. CASE i > gone
    <3>1. k > 0 /\ Len(nonces') = MaxNonces
      BY <1>6, <1>9, <2>2
    <3> QED
      BY <1>1, <1>4, <1>5, <1>9, <3>1, CacheTypes
  <2> QED
    BY <1>9, <2>1, <2>2
<1> QED
  BY <1>6, <1>9, <1>10, <1>11, <1>12 DEF CacheIsRecentSuffix

(* Refusing one does, too: the eviction loop still ran.                    *)
LEMMA RefuseKeepsSuffix ==
  ASSUME TypeOK, CacheIsRecentSuffix, NEW n \in Nonces, AskNonce(n),
         ~NonceIsNew(n)
  PROVE  CacheIsRecentSuffix'
<1>1. nonces' = DropStale(nonces) /\ accepted' = accepted /\ clock' = clock
  BY DEF AskNonce, CheckNonce, SpendNonce
<1>2. Len(nonces') \in Nat /\ Len(nonces') <= Len(nonces)
  BY <1>1, EvictionKeepsSuffix
<1>3. Len(nonces') <= MaxNonces /\ Len(nonces') <= Len(accepted')
  <2>1. Len(nonces) <= MaxNonces /\ Len(nonces) <= Len(accepted)
    BY DEF CacheIsRecentSuffix
  <2>2. Len(accepted') = Len(accepted)
    BY <1>1
  <2> QED
    BY <1>2, <2>1, <2>2, CacheTypes
<1>4. /\ \A j \in 1..Len(nonces') : nonces'[j] = accepted'[Dropped' + j]
      /\ \A i \in 1..Dropped' : \/ accepted'[i].at + NonceTTL <= clock'
                               \/ i + MaxNonces <= Len(accepted')
  BY <1>1, EvictionKeepsSuffix DEF Dropped
<1>5. AcceptedInOrder'
  BY <1>1 DEF CacheIsRecentSuffix, AcceptedInOrder
<1> QED
  BY <1>3, <1>4, <1>5 DEF CacheIsRecentSuffix

LEMMA CacheInvariantStep ==
  ASSUME TypeOK, CacheIsRecentSuffix, [Next]_vars
  PROVE  CacheIsRecentSuffix'
<1>1. CASE Tick /\ UNCHANGED <<storeVars, historyVars>>
  <2>1. clock' = clock + 1 /\ UNCHANGED <<nonces, accepted>>
    BY <1>1 DEF Tick, storeVars, historyVars
  <2>2. AcceptedInOrder'
    <3>1. \A i \in 1..Len(accepted) :
             accepted[i].at \in Nat /\ accepted[i].at <= clock
      BY CacheTypes DEF CacheIsRecentSuffix, AcceptedInOrder
    <3>2. \A i \in 1..Len(accepted) : accepted[i].at <= clock'
      BY <2>1, <3>1, CacheTypes
    <3> QED
      BY <2>1, <3>2 DEF CacheIsRecentSuffix, AcceptedInOrder
  <2>3. \A i \in 1..Dropped' : \/ accepted'[i].at + NonceTTL <= clock'
                              \/ i + MaxNonces <= Len(accepted')
    <3> SUFFICES ASSUME NEW i \in 1..Dropped
                 PROVE  \/ accepted[i].at + NonceTTL <= clock'
                        \/ i + MaxNonces <= Len(accepted)
      BY <2>1 DEF Dropped
    <3>1. i \in 1..Len(accepted)
      BY CacheTypes DEF Dropped
    <3>2. accepted[i].at \in Nat
      BY <3>1, CacheTypes
    <3> QED
      BY <2>1, <3>2, CacheTypes DEF CacheIsRecentSuffix
  <2> QED
    BY <2>1, <2>2, <2>3 DEF CacheIsRecentSuffix, Dropped
<1>2. ASSUME UNCHANGED <<clock, nonces, accepted>> PROVE CacheIsRecentSuffix'
  BY <1>2 DEF CacheIsRecentSuffix, AcceptedInOrder, Dropped
<1>3. ASSUME NEW s \in Subjects, Operate(s) PROVE CacheIsRecentSuffix'
  BY <1>2, <1>3 DEF Operate, Order, Revoke, Suspend, Reinstate
<1>4. ASSUME NEW s \in Subjects, ReadStanding(s), UNCHANGED <<clock, historyVars>>
      PROVE  CacheIsRecentSuffix'
  BY <1>2, <1>4 DEF ReadStanding, historyVars
<1>5. CASE TouchSync /\ UNCHANGED <<clock, historyVars>>
  BY <1>2, <1>5 DEF TouchSync, historyVars
<1>6. ASSUME NEW n \in Nonces, AskNonce(n) PROVE CacheIsRecentSuffix'
  BY <1>6, AcceptKeepsSuffix, RefuseKeepsSuffix
<1>7. CASE Forget
  <2>1. nonces' = <<>> /\ accepted' = <<>>
    BY <1>7 DEF Forget, ClearNonces
  <2> QED
    BY <2>1, CacheTypes DEF CacheIsRecentSuffix, AcceptedInOrder, Dropped
<1>8. CASE UNCHANGED vars
  BY <1>2, <1>8 DEF vars, storeVars, historyVars
<1> QED
  BY <1>1, <1>3, <1>4, <1>5, <1>6, <1>7, <1>8 DEF Next

(* The cache always is the recent, in-order stretch of the acceptances.    *)
THEOREM CacheInvariant == Spec => []CacheIsRecentSuffix
<1>1. Init => CacheIsRecentSuffix
  <2> SUFFICES ASSUME Init PROVE CacheIsRecentSuffix
    OBVIOUS
  <2>1. nonces = <<>> /\ accepted = <<>>
    BY DEF Init, StoreInit
  <2> QED
    BY <2>1, StoreAssumption DEF CacheIsRecentSuffix, AcceptedInOrder, Dropped
<1>2. TypeOK /\ CacheIsRecentSuffix /\ [Next]_vars => CacheIsRecentSuffix'
  BY CacheInvariantStep
<1> QED
  BY <1>1, <1>2, StoreTypeCorrect, PTL DEF Spec

(* Every behaviour of the store is one ReplayGuard allows, whatever the    *)
(* retention period, the cache size and the set of nonces.                 *)
THEOREM CacheImplementsItsGuard == Spec => CacheImplementsGuard
<1>1. Init => Guard!GuardInit
  BY DEF Init, ClockInit, Guard!GuardInit
<1>2. TypeOK /\ CacheIsRecentSuffix /\ [Next]_vars
      => [Guard!GuardNext]_Guard!guardVars
  <2> SUFFICES ASSUME TypeOK, CacheIsRecentSuffix, [Next]_vars
               PROVE  Guard!GuardNext \/ UNCHANGED <<clock, accepted, reply>>
    BY DEF Guard!guardVars
  <2>1. CASE Tick /\ UNCHANGED <<storeVars, historyVars>>
    BY <2>1 DEF Tick, historyVars, Guard!GuardNext, Guard!Pass
  <2>2. ASSUME NEW s \in Subjects, Operate(s)
        PROVE  UNCHANGED <<clock, accepted, reply>>
    BY <2>2 DEF Operate, Order
  <2>3. ASSUME NEW n \in Nonces, AskNonce(n) PROVE Guard!GuardNext
    <3>1. NonceIsNew(n) <=> ~Guard!Remembered(n)
      BY NewIffNotRemembered
    <3> QED
      BY <2>3, <3>1
         DEF AskNonce, Guard!GuardNext, Guard!Accept, Guard!Refuse
  <2>4. CASE Forget
    BY <2>4 DEF Forget, Guard!GuardNext, Guard!Forget
  <2> QED
    BY <2>1, <2>2, <2>3, <2>4 DEF Next, vars, historyVars
<1> QED
  BY <1>1, <1>2, StoreTypeCorrect, CacheInvariant, PTL
     DEF Spec, CacheImplementsGuard, Guard!GuardSpec

-----------------------------------------------------------------------------
(* The kill switch.                                                        *)

(* What RefusedExactlyWhileOrdered rests on: a record is the last order    *)
(* about its subject, or it has been dropped after that order lapsed.      *)
RecordIsLastOrder ==
  \A s \in Subjects :
     \/ records[s] = orders[s]
     \/ /\ records[s] = Unrecorded
        /\ orders[s].standing = "suspended" /\ orders[s].until <= clock

(* A subject is refused exactly while the last order about it stands.      *)
THEOREM RefusalFollowsOrders == Spec => []RefusedExactlyWhileOrdered
<1>1. Init => RecordIsLastOrder
  BY DEF Init, RecordIsLastOrder
<1>2. TypeOK /\ RecordIsLastOrder /\ [Next]_vars => RecordIsLastOrder'
  <2> SUFFICES ASSUME TypeOK, RecordIsLastOrder, [Next]_vars
               PROVE  RecordIsLastOrder'
    OBVIOUS
  <2>0. /\ clock \in Nat
        /\ records \in [Subjects -> Standing] /\ orders \in [Subjects -> Standing]
    BY ClockAssumption DEF TypeOK, ClockTypeOK, StoreTypeOK, HistoryTypeOK
  <2>1. CASE Tick /\ UNCHANGED <<storeVars, historyVars>>
    BY <2>0, <2>1
       DEF Tick, storeVars, historyVars, RecordIsLastOrder, Standing
  <2>2. ASSUME NEW s \in Subjects, Operate(s) PROVE RecordIsLastOrder'
    BY <2>0, <2>2
       DEF Operate, Order, Revoke, Suspend, Reinstate, RecordIsLastOrder
  <2>3. ASSUME NEW s \in Subjects, ReadStanding(s), UNCHANGED <<clock, historyVars>>
        PROVE  RecordIsLastOrder'
    BY <2>0, <2>3
       DEF ReadStanding, DropLapsed, Lapsed, historyVars, RecordIsLastOrder
  <2>4. ASSUME UNCHANGED <<clock, records, orders>> PROVE RecordIsLastOrder'
    BY <2>4 DEF RecordIsLastOrder
  <2>5. CASE TouchSync /\ UNCHANGED <<clock, historyVars>>
    BY <2>4, <2>5 DEF TouchSync, historyVars
  <2>6. ASSUME NEW n \in Nonces, AskNonce(n) PROVE RecordIsLastOrder'
    BY <2>4, <2>6 DEF AskNonce, CheckNonce
  <2>7. CASE Forget
    BY <2>4, <2>7 DEF Forget, ClearNonces
  <2>8. CASE UNCHANGED vars
    BY <2>4, <2>8 DEF vars, storeVars, historyVars
  <2> QED
    BY <2>1, <2>2, <2>3, <2>5, <2>6, <2>7, <2>8 DEF Next
<1>3. TypeOK /\ RecordIsLastOrder => RefusedExactlyWhileOrdered
  BY ClockAssumption
     DEF TypeOK, ClockTypeOK, StoreTypeOK, HistoryTypeOK, RecordIsLastOrder,
         RefusedExactlyWhileOrdered, OrderStands, Live, Lapsed, Unrecorded,
         Standing
<1> QED
  BY <1>1, <1>2, <1>3, StoreTypeCorrect, PTL DEF Spec
=============================================================================
