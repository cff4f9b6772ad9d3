------------------------- MODULE TrustEngine_proofs -------------------------
(***************************************************************************)
(* Proofs about TrustEngine's ledger, over the history LedgerHistory       *)
(* records: type correctness for callers in any order; and, for callers in *)
(* clock order (MaxLag = 0), what the pruned ledger holds and that it      *)
(* implements SpendWindow.  Sums stay opaque: equal sets have equal        *)
(* totals, and that is all the argument needs.                             *)
(***************************************************************************)
EXTENDS LedgerHistory, TLAPS

LEMMA NowIsNatural ==
  ASSUME clock \in 0..MaxClock, NEW at \in Nows
  PROVE  at \in Nat /\ at <= clock /\ (MaxLag = 0 => at = clock)
  BY ClockAssumption, LagAssumption DEF Nows

LEMMA GrantedEntryType ==
  ASSUME NEW token \in Tokens, NEW at \in Nat, NEW amount \in Amounts
  PROVE  [token |-> token, at |-> at, amount |-> amount] \in Entry
  BY LagAssumption DEF Entry

LEMMA TypeStep ==
  ASSUME LedgerTypeOK, [LedgerNext]_recordVars
  PROVE  LedgerTypeOK'
<1>0. /\ clock \in 0..MaxClock /\ history \in [Agents -> History]
      /\ ledger \in [Agents -> SUBSET Entry] /\ kept \in [Agents -> SUBSET Entry]
  BY DEF LedgerTypeOK, ClockTypeOK, TrustTypeOK
<1>1. ASSUME NEW a \in Agents, NEW at \in Nows
      PROVE  Fresh(a, at) \subseteq Entry
  BY <1>0 DEF Fresh
<1>2. CASE Tick /\ UNCHANGED <<trustVars, kept, told>>
  BY <1>2, ClockAssumption DEF Tick, trustVars, LedgerTypeOK, ClockTypeOK, TrustTypeOK
<1>3. ASSUME NEW a \in Agents, NEW at \in Nows, Ask(a, at) PROVE LedgerTypeOK'
  BY <1>0, <1>1, <1>3 DEF Ask, DayTotal, Answer, LedgerTypeOK, ClockTypeOK, TrustTypeOK
<1>4. ASSUME NEW a \in Agents, NEW token \in Tokens, Release(a, token)
      PROVE  LedgerTypeOK'
  BY <1>0, <1>4 DEF Release, ReleaseAmount, LedgerTypeOK, ClockTypeOK, TrustTypeOK
<1>5. ASSUME NEW a \in Agents, NEW token \in Tokens, NEW at \in Nows,
             NEW amount \in Amounts, Record(a, token, amount, at)
      PROVE  LedgerTypeOK'
  <2>1. [token |-> token, at |-> at, amount |-> amount] \in Entry
    BY <1>0, NowIsNatural, GrantedEntryType
  <2> QED
    BY <1>0, <1>1, <1>5, <2>1
       DEF Record, RecordAmount, Keep, LedgerTypeOK, ClockTypeOK, TrustTypeOK
<1>6. ASSUME NEW a \in Agents, NEW token \in Tokens, NEW at \in Nows,
             NEW amount \in Amounts, NEW limit \in Limits,
             Reserve(a, token, amount, limit, at)
      PROVE  LedgerTypeOK'
  <2>1. [token |-> token, at |-> at, amount |-> amount] \in Entry
    BY <1>0, NowIsNatural, GrantedEntryType
  <2>2. Answer(a, TRUE, limit, at) \/ Answer(a, FALSE, limit, at)
    BY <1>6 DEF Reserve
  <2>3. /\ DOMAIN told' = {"granted", "before", "limit"}
        /\ told'.granted \in BOOLEAN /\ told'.limit \in Nat
    <3> DEFINE total == Total(Fresh(a, at))
    <3>1. \/ told' = [granted |-> TRUE, before |-> total, limit |-> limit]
          \/ told' = [granted |-> FALSE, before |-> total, limit |-> limit]
      BY <2>2 DEF Answer
    <3> HIDE DEF total
    <3>2. CASE told' = [granted |-> TRUE, before |-> total, limit |-> limit]
      BY <3>2, LagAssumption
    <3>3. CASE told' = [granted |-> FALSE, before |-> total, limit |-> limit]
      BY <3>3, LagAssumption
    <3> QED
      BY <3>1, <3>2, <3>3
  <2>4. UNCHANGED <<clock, history>>
    BY <1>6 DEF Reserve, ReserveAmount, RecordAmount, DayTotal
  <2>5. ledger' \in [Agents -> SUBSET Entry]
    BY <1>0, <1>1, <1>6, <2>1 DEF Reserve, ReserveAmount, RecordAmount, DayTotal
  <2>6. kept' \in [Agents -> SUBSET Entry]
    BY <1>0, <1>6, <2>1 DEF Reserve, Keep
  <2> QED
    BY <1>0, <2>3, <2>4, <2>5, <2>6 DEF LedgerTypeOK, ClockTypeOK, TrustTypeOK
<1>7. CASE UNCHANGED recordVars
  BY <1>7 DEF recordVars, trustVars, LedgerTypeOK, ClockTypeOK, TrustTypeOK
<1> QED
  BY <1>2, <1>3, <1>4, <1>5, <1>6, <1>7 DEF LedgerNext

(* Every variable of the ledger and of its history keeps its type.         *)
THEOREM LedgerTypeCorrect == LedgerSpec => []LedgerTypeOK
<1>1. LedgerInit => LedgerTypeOK
  BY ClockAssumption
     DEF LedgerInit, ClockInit, TrustInit, NewHistory, LedgerTypeOK, ClockTypeOK,
         TrustTypeOK, History
<1>2. LedgerTypeOK /\ [LedgerNext]_recordVars => LedgerTypeOK'
  BY TypeStep
<1> QED
  BY <1>1, <1>2, PTL DEF LedgerSpec

-----------------------------------------------------------------------------
(* Callers in clock order.                                                 *)

LEMMA RecentPartStep ==
  ASSUME MaxLag = 0, LedgerTypeOK, LedgerIsRecentPart, [LedgerNext]_recordVars
  PROVE  LedgerIsRecentPart'
<1>0. /\ clock \in Nat /\ ledger \in [Agents -> SUBSET Entry]
      /\ kept \in [Agents -> SUBSET Entry]
      /\ \A at \in Nows : at = clock
  BY ClockAssumption, NowIsNatural DEF LedgerTypeOK, ClockTypeOK, TrustTypeOK
<1>1. ASSUME NEW a \in Agents, NEW e \in kept[a] PROVE e.at \in Nat
  BY <1>0 DEF Entry
<1>2. CASE Tick /\ UNCHANGED <<trustVars, kept, told>>
  <2>1. clock' = clock + 1 /\ ledger' = ledger /\ kept' = kept
    BY <1>2 DEF Tick, trustVars
  <2> QED
    BY <1>0, <1>1, <2>1, TrustAssumption DEF LedgerIsRecentPart
<1>3. ASSUME NEW a \in Agents, NEW at \in Nows, Ask(a, at)
      PROVE  LedgerIsRecentPart'
  BY <1>0, <1>3 DEF Ask, DayTotal, Fresh, LedgerIsRecentPart
<1>4. ASSUME NEW a \in Agents, NEW token \in Tokens, Release(a, token)
      PROVE  LedgerIsRecentPart'
  BY <1>0, <1>4 DEF Release, ReleaseAmount, LedgerIsRecentPart
<1>5. ASSUME NEW a \in Agents, NEW token, NEW at \in Nows, NEW amount,
             RecordAmount(a, token, amount, at), Keep(a, token, amount, at),
             UNCHANGED clock
      PROVE  LedgerIsRecentPart'
  BY <1>0, <1>5 DEF RecordAmount, Keep, Fresh, LedgerIsRecentPart
<1>6. ASSUME NEW a \in Agents, NEW token \in Tokens, NEW at \in Nows,
             NEW amount \in Amounts, NEW limit \in Limits,
             Reserve(a, token, amount, limit, at)
      PROVE  LedgerIsRecentPart'
  <2>1. CASE Fits(a, amount, limit, at)
    BY <1>5, <1>6, <2>1 DEF Reserve, ReserveAmount
  <2>2. CASE ~Fits(a, amount, limit, at)
    BY <1>0, <1>6, <2>2
       DEF Reserve, ReserveAmount, DayTotal, Fresh, LedgerIsRecentPart
  <2> QED
    BY <2>1, <2>2
<1>7. CASE UNCHANGED recordVars
  BY <1>7 DEF recordVars, trustVars, LedgerIsRecentPart
<1> QED
  BY <1>2, <1>3, <1>4, <1>5, <1>6, <1>7 DEF LedgerNext, Record

(* Pruning removes nothing that still counts, and nothing else is lost.    *)
THEOREM LedgerKeepsTheDay ==
  ASSUME MaxLag = 0
  PROVE  LedgerSpec => []LedgerIsRecentPart
<1>1. LedgerInit => LedgerIsRecentPart
  BY DEF LedgerInit, TrustInit, LedgerIsRecentPart
<1>2. LedgerTypeOK /\ LedgerIsRecentPart /\ [LedgerNext]_recordVars => LedgerIsRecentPart'
  BY RecentPartStep
<1> QED
  BY <1>1, <1>2, LedgerTypeCorrect, PTL DEF LedgerSpec

(* What the caller's check sums is the abstract spend.                     *)
LEMMA FreshIsSpend ==
  ASSUME LedgerIsRecentPart, NEW a \in Agents
  PROVE  Fresh(a, clock) = Window!Spend(a)
  BY DEF LedgerIsRecentPart, Fresh, Window!Spend

(* For callers in clock order, every behaviour of the ledger is one        *)
(* SpendWindow allows, whatever the amounts, limits and length of a day.   *)
THEOREM LedgerImplementsItsWindow ==
  ASSUME MaxLag = 0
  PROVE  LedgerSpec => LedgerImplementsWindow
<1>1. LedgerInit => Window!WindowInit
  BY DEF LedgerInit, ClockInit, Window!WindowInit
<1>2. LedgerTypeOK /\ LedgerIsRecentPart /\ [LedgerNext]_recordVars
      => [Window!WindowNext]_Window!windowVars
  <2> SUFFICES ASSUME LedgerTypeOK, LedgerIsRecentPart, [LedgerNext]_recordVars
               PROVE  Window!WindowNext \/ UNCHANGED <<clock, kept, told>>
    BY DEF Window!windowVars
  <2>0. \A at \in Nows : at = clock
    BY NowIsNatural DEF LedgerTypeOK, ClockTypeOK
  <2>1. CASE Tick /\ UNCHANGED <<trustVars, kept, told>>
    BY <2>1 DEF Tick, Window!WindowNext, Window!Pass
  <2>2. ASSUME NEW a \in Agents, NEW at \in Nows, Ask(a, at)
        PROVE  Window!WindowNext
    BY <2>0, <2>2, FreshIsSpend
       DEF Ask, Answer, Window!WindowNext, Window!Ask, Window!Answer
  <2>3. ASSUME NEW a \in Agents, NEW token \in Tokens, Release(a, token)
        PROVE  Window!WindowNext
    BY <2>3 DEF Release, Window!WindowNext, Window!Release
  <2>4. ASSUME NEW a \in Agents, NEW token \in Tokens, NEW at \in Nows,
               NEW amount \in Amounts, New(token), Keep(a, token, amount, at),
               UNCHANGED clock
        PROVE  Window!Grant(a, token, amount)
    BY <2>0, <2>4 DEF New, Keep, Window!Grant, Window!Issued
  <2>5. ASSUME NEW a \in Agents, NEW token \in Tokens, NEW at \in Nows,
               NEW amount \in Amounts, Record(a, token, amount, at)
        PROVE  Window!WindowNext
    BY <2>4, <2>5 DEF Record, Window!WindowNext, Window!Record
  <2>6. ASSUME NEW a \in Agents, NEW token \in Tokens, NEW at \in Nows,
               NEW amount \in Amounts, NEW limit \in Limits,
               Reserve(a, token, amount, limit, at)
        PROVE  Window!WindowNext
    <3>1. Fits(a, amount, limit, at) <=> Window!Within(a, amount, limit)
      BY <2>0, FreshIsSpend DEF Fits, Window!Within
    <3>2. CASE Fits(a, amount, limit, at)
      <4>1. Window!Reserve(a, token, amount, limit)
        BY <2>0, <2>4, <2>6, <3>1, <3>2, FreshIsSpend
           DEF Reserve, Answer, Window!Reserve, Window!Answer
      <4> QED
        BY <4>1 DEF Window!WindowNext
    <3>3. CASE ~Fits(a, amount, limit, at)
      <4>1. Window!Refuse(a, amount, limit)
        BY <2>0, <2>6, <3>1, <3>3, FreshIsSpend
           DEF Reserve, Answer, Window!Refuse, Window!Answer
      <4> QED
        BY <4>1 DEF Window!WindowNext
    <3> QED
      BY <3>2, <3>3
  <2> QED
    BY <2>1, <2>2, <2>3, <2>5, <2>6 DEF LedgerNext, recordVars
<1> QED
  BY <1>1, <1>2, LedgerTypeCorrect, LedgerKeepsTheDay, PTL
     DEF LedgerSpec, LedgerImplementsWindow, Window!WindowSpec
=============================================================================
