---------------------------- MODULE Oracle_proofs ----------------------------
(***************************************************************************)
(* Proofs about the oracle's look-ups, for any number of them, any tenors, *)
(* years and TTL: types, the age of what is handed out, that a single      *)
(* transport failure is survived, what callers see; and about the syncs of *)
(* the demo's claims over that service.                                    *)
(***************************************************************************)
EXTENDS OracleHistory, Market, SequenceTheorems, TLAPS

LEMMA Constants == TTL \in Nat /\ LastYear \in Nat /\ LastDay \in Nat
  BY OracleAssumption

-----------------------------------------------------------------------------
(* Types.                                                                  *)

LEMMA TailOfYears ==
  ASSUME NEW s \in Seq(Years), s # <<>>
  PROVE  /\ Tail(s) \in Seq(Years) /\ Len(Tail(s)) = Len(s) - 1
         /\ \A i \in 1..Len(Tail(s)) : Tail(s)[i] = s[i + 1]
  BY HeadTailProperties

(* While a look-up fetches there is a URL it is fetching.                  *)
UrlsLeft == \A l \in Lookups : pc[l] = "fetching" => urls[l] # <<>>

LEMMA NextUrlTypes ==
  ASSUME TypeOK, UrlsLeft, NEW l \in Lookups, pc[l] = "fetching", NextUrl(l)
  PROVE  /\ OracleTypeOK' /\ UrlsLeft'
<1>1. urls[l] \in Seq(Years) /\ urls[l] # <<>>
  BY DEF TypeOK, OracleTypeOK, UrlsLeft
<1>2. Tail(urls[l]) \in Seq(Years) /\ Len(Tail(urls[l])) = Len(urls[l]) - 1
  BY <1>1, TailOfYears
<1>3. Len(urls[l]) # 1 => Tail(urls[l]) # <<>>
  <2>1. Len(urls[l]) \in Nat /\ Len(urls[l]) # 0
    BY <1>1, LenProperties, EmptySeq
  <2>2. Tail(urls[l]) = <<>> => Len(Tail(urls[l])) = 0
    BY <1>2, EmptySeq
  <2> QED
    BY <1>2, <2>1, <2>2
<1>4. urls' = [urls EXCEPT ![l] = Tail(urls[l])]
  BY DEF NextUrl
<1>5. urls' \in [Lookups -> Seq(Years)]
  BY <1>2, <1>4 DEF TypeOK, OracleTypeOK
<1>6. /\ pc' \in [Lookups -> {"idle", "fetching", "closing", "done"}]
      /\ attempt' \in [Lookups -> {0, 1}]
      /\ wire' \in [Lookups -> [served : BOOLEAN, day : Nat]]
  BY DEF NextUrl, Goto, Asked, TypeOK, OracleTypeOK
<1>7. UrlsLeft'
  <2> SUFFICES ASSUME NEW m \in Lookups, pc'[m] = "fetching"
               PROVE  urls'[m] # <<>>
    BY DEF UrlsLeft
  <2>1. CASE m = l
    BY <1>3, <1>4, <2>1 DEF NextUrl, Goto, TypeOK, OracleTypeOK
  <2>2. CASE m # l
    BY <1>4, <2>2 DEF NextUrl, Goto, UrlsLeft, TypeOK, OracleTypeOK
  <2> QED
    BY <2>1, <2>2
<1> QED
  BY <1>5, <1>6, <1>7 DEF NextUrl, feedVars, TypeOK, OracleTypeOK

(* What of a state's type the passing of time and the feed disturb.        *)
LEMMA TypeStep ==
  ASSUME TypeOK, UrlsLeft, year >= 1, [Next]_vars
  PROVE  TypeOK' /\ UrlsLeft' /\ year' >= 1
<1>0. /\ clock \in Nat /\ year \in Years /\ year - 1 \in Years
      /\ \A t \in Tenors : Newest(t) \in Nat
  BY ClockAssumption, Constants
     DEF TypeOK, ClockTypeOK, OracleTypeOK, Years, Newest
<1>1. CASE Tick /\ UNCHANGED <<oracleVars, historyVars>>
  BY <1>1, ClockAssumption
     DEF Tick, oracleVars, feedVars, lookupVars, historyVars, TypeOK,
         ClockTypeOK, OracleTypeOK, UrlsLeft
<1>2. CASE NewYear /\ UNCHANGED <<clock, historyVars>>
  <2>1. year' \in Years /\ year' >= 1
    BY <1>0, <1>2, Constants DEF NewYear, Years
  <2> QED
    BY <1>2, <2>1
       DEF NewYear, lookupVars, historyVars, TypeOK, ClockTypeOK, OracleTypeOK,
           UrlsLeft
<1>3. ASSUME NEW t \in Tenors, Publish(t), UNCHANGED <<clock, historyVars>>
      PROVE  TypeOK' /\ UrlsLeft' /\ year' >= 1
  <2>1. feed' \in [Years -> [Tenors -> Nat]]
    <3>1. feed' = [feed EXCEPT ![year] = [feed[year] EXCEPT ![t] = Newest(t) + 1]]
      BY <1>3 DEF Publish
    <3>2. [feed[year] EXCEPT ![t] = Newest(t) + 1] \in [Tenors -> Nat]
      BY <1>0 DEF TypeOK, OracleTypeOK
    <3> QED
      BY <1>0, <3>1, <3>2 DEF TypeOK, OracleTypeOK
  <2> QED
    BY <1>3, <2>1
       DEF Publish, lookupVars, historyVars, TypeOK, ClockTypeOK, OracleTypeOK,
           UrlsLeft
<1>4. ASSUME NEW l \in Lookups, Begin(l)
      PROVE  TypeOK' /\ UrlsLeft' /\ year' >= 1
  <2>1. CandidateYears \in Seq(Years) /\ CandidateYears # <<>>
    BY <1>0, SeqDef DEF CandidateYears
  <2>2. /\ answer' \in [Lookups -> Observation]
        /\ cache' \in [Tenors -> Observation]
        /\ urls' \in [Lookups -> Seq(Years)]
        /\ pc' \in [Lookups -> {"idle", "fetching", "closing", "done"}]
    <3>1. CASE FreshInCache(tenor[l])
      BY <1>4, <3>1 DEF Begin, Start, Goto, TypeOK, OracleTypeOK
    <3>2. CASE ~FreshInCache(tenor[l])
      <4>1. Nothing \in Observation
        BY DEF Nothing, Observation
      <4>2. /\ cache' = [cache EXCEPT ![tenor[l]] = Nothing]
            /\ urls' = [urls EXCEPT ![l] = CandidateYears]
            /\ Goto(l, "fetching") /\ answer' = answer
        BY <1>4, <3>2 DEF Begin, Start
      <4> QED
        BY <2>1, <4>1, <4>2 DEF Goto, TypeOK, OracleTypeOK
    <3> QED
      BY <3>1, <3>2
  <2>3. UrlsLeft'
    BY <1>4, <2>1 DEF Begin, Start, Goto, UrlsLeft, TypeOK, OracleTypeOK
  <2>4. began' \in [Lookups -> [at : Nat, newest : Nat, fetches : BOOLEAN]]
    <3>1. FreshInCache(tenor[l]) \in BOOLEAN
      BY DEF FreshInCache
    <3> QED
      BY <1>0, <1>4, <3>1 DEF Begin, TypeOK, OracleTypeOK
  <2>5. /\ UNCHANGED <<clock, faults, errors, year, feed, tenor, attempt, wire>>
    BY <1>4 DEF Begin, Start, feedVars
  <2> QED
    BY <2>2, <2>3, <2>4, <2>5 DEF TypeOK, ClockTypeOK, OracleTypeOK
<1>5. ASSUME NEW l \in Lookups, Serve(l), UNCHANGED <<clock, historyVars>>
      PROVE  TypeOK' /\ UrlsLeft' /\ year' >= 1
  <2>1. Head(urls[l]) \in Years
    BY <1>5, HeadTailProperties DEF Serve, UrlsLeft, TypeOK, OracleTypeOK
  <2>2. wire' \in [Lookups -> [served : BOOLEAN, day : Nat]]
    BY <1>5, <2>1 DEF Serve, TypeOK, OracleTypeOK
  <2> QED
    BY <1>5, <2>2
       DEF Serve, feedVars, historyVars, TypeOK, ClockTypeOK, OracleTypeOK,
           UrlsLeft
<1>6. ASSUME NEW l \in Lookups, Fault(l)
      PROVE  TypeOK' /\ UrlsLeft' /\ year' >= 1
  <2>1. /\ faults' \in [Lookups -> 0..2]
        /\ UNCHANGED <<clock, began, errors>>
    BY <1>6 DEF Fault, TypeOK
  <2>2. OracleTypeOK' /\ UrlsLeft'
    <3>1. CASE attempt[l] = 0
      <4>1. Retry(l)
        BY <1>6, <3>1 DEF Fault, TransportFails
      <4>2. /\ attempt' \in [Lookups -> {0, 1}]
            /\ wire' \in [Lookups -> [served : BOOLEAN, day : Nat]]
        BY <4>1 DEF Retry, Asked, TypeOK, OracleTypeOK
      <4> QED
        BY <4>1, <4>2 DEF Retry, feedVars, UrlsLeft, TypeOK, OracleTypeOK
    <3>2. CASE attempt[l] # 0
      BY <1>6, <3>2, NextUrlTypes DEF Fault, TransportFails
    <3> QED
      BY <3>1, <3>2
  <2>3. year' = year
    BY <1>6 DEF Fault, TransportFails, Retry, NextUrl, feedVars
  <2> QED
    BY <2>1, <2>2, <2>3 DEF TypeOK, ClockTypeOK
<1>7. ASSUME NEW l \in Lookups, Error(l)
      PROVE  TypeOK' /\ UrlsLeft' /\ year' >= 1
  <2>1. /\ errors' \in [Lookups -> BOOLEAN]
        /\ UNCHANGED <<clock, began, faults>>
    BY <1>7 DEF Error, TypeOK
  <2>2. OracleTypeOK' /\ UrlsLeft'
    <3>1. CASE HttpError(l)
      BY <3>1, NextUrlTypes DEF HttpError
    <3>2. CASE Abort(l)
      BY <3>2 DEF Abort, Goto, feedVars, UrlsLeft, TypeOK, OracleTypeOK
    <3> QED
      BY <1>7, <3>1, <3>2 DEF Error
  <2>3. year' = year
    BY <1>7 DEF Error, HttpError, Abort, NextUrl, feedVars
  <2> QED
    BY <2>1, <2>2, <2>3 DEF TypeOK, ClockTypeOK
<1>8. ASSUME NEW l \in Lookups, Parse(l), UNCHANGED <<clock, historyVars>>
      PROVE  TypeOK' /\ UrlsLeft' /\ year' >= 1
  <2>1. CASE wire[l].day = 0 /\ NextUrl(l)
    BY <1>8, <2>1, NextUrlTypes
       DEF Parse, NextUrl, feedVars, historyVars, TypeOK, ClockTypeOK
  <2>2. CASE ~(wire[l].day = 0 /\ NextUrl(l))
    <3>1. [day |-> wire[l].day, fetched |-> clock] \in Observation
      BY <1>0 DEF Observation, TypeOK, OracleTypeOK
    <3>2. /\ answer' = [answer EXCEPT ![l] = [day |-> wire[l].day, fetched |-> clock]]
          /\ cache' = [cache EXCEPT ![tenor[l]] = answer'[l]]
          /\ Goto(l, "closing")
          /\ UNCHANGED <<feedVars, tenor, urls, attempt, wire>>
      BY <1>8, <2>2 DEF Parse
    <3>3. answer' \in [Lookups -> Observation] /\ answer'[l] \in Observation
      BY <3>1, <3>2 DEF TypeOK, OracleTypeOK
    <3>4. cache' \in [Tenors -> Observation]
      BY <3>2, <3>3 DEF TypeOK, OracleTypeOK
    <3> QED
      BY <1>8, <3>2, <3>3, <3>4
         DEF Goto, feedVars, historyVars, UrlsLeft, TypeOK, ClockTypeOK,
             OracleTypeOK
  <2> QED
    BY <2>1, <2>2
<1>9. ASSUME NEW l \in Lookups, Close(l), UNCHANGED <<clock, historyVars>>
      PROVE  TypeOK' /\ UrlsLeft' /\ year' >= 1
  BY <1>9
     DEF Close, Goto, feedVars, historyVars, UrlsLeft, TypeOK, ClockTypeOK,
         OracleTypeOK
<1>10. CASE UNCHANGED vars
  BY <1>10
     DEF vars, oracleVars, feedVars, lookupVars, historyVars, TypeOK,
         ClockTypeOK, OracleTypeOK, UrlsLeft
<1> QED
  BY <1>1, <1>2, <1>3, <1>4, <1>5, <1>6, <1>7, <1>8, <1>9, <1>10
     DEF Next, Resume

TypeInv == TypeOK /\ UrlsLeft /\ year >= 1

LEMMA TypeInitially == Init => TypeInv
  BY ClockAssumption, Constants, EmptySeq
     DEF Init, ClockInit, OracleInit, Nothing, Asked, Observation, Years,
         TypeInv, TypeOK, ClockTypeOK, OracleTypeOK, UrlsLeft

(* Every variable of the look-ups, the cache and the feed keeps its type.  *)
THEOREM OracleTypeCorrect == Spec => []TypeOK
<1>1. TypeInv /\ [Next]_vars => TypeInv'
  BY TypeStep DEF TypeInv
<1>2. TypeInv => TypeOK
  BY DEF TypeInv
<1> QED
  BY <1>1, <1>2, TypeInitially, PTL DEF Spec

LEMMA TypeInvariant == Spec => []TypeInv
<1>1. TypeInv /\ [Next]_vars => TypeInv'
  BY TypeStep DEF TypeInv
<1> QED
  BY <1>1, TypeInitially, PTL DEF Spec

-----------------------------------------------------------------------------
(* The age of what is handed out.                                          *)

RecentInv ==
  /\ \A t \in Tenors : cache[t].fetched <= clock
  /\ \A l \in Lookups :
       /\ answer[l].fetched <= clock /\ began[l].at <= clock
       /\ pc[l] \in {"idle", "fetching"} => answer[l] = Nothing
       /\ Answered(l) => began[l].at <= answer[l].fetched + TTL

LEMMA RecentStep ==
  ASSUME TypeInv, RecentInv, [Next]_vars
  PROVE  RecentInv'
<1>0. /\ clock \in Nat /\ TTL \in Nat
      /\ \A t \in Tenors : cache[t].fetched \in Nat
      /\ \A l \in Lookups : /\ answer[l].fetched \in Nat /\ began[l].at \in Nat
                            /\ tenor[l] \in Tenors
      /\ Nothing.fetched = 0
  BY ClockAssumption, Constants
     DEF TypeInv, TypeOK, ClockTypeOK, OracleTypeOK, Observation, Nothing
<1>1. CASE Tick /\ UNCHANGED <<oracleVars, historyVars>>
  BY <1>0, <1>1
     DEF Tick, oracleVars, lookupVars, historyVars, RecentInv, Answered
<1>2. ASSUME UNCHANGED <<clock, cache, answer, began, pc>>
      PROVE  RecentInv'
  BY <1>2 DEF RecentInv, Answered
<1>3. ASSUME NEW l \in Lookups, Begin(l) PROVE RecentInv'
  <2>0. /\ began' = [began EXCEPT ![l] =
             [at |-> clock, newest |-> Newest(tenor[l]),
              fetches |-> ~FreshInCache(tenor[l])]]
        /\ clock' = clock
    BY <1>3 DEF Begin
  <2>1. CASE FreshInCache(tenor[l])
    <3>1. /\ answer' = [answer EXCEPT ![l] = cache[tenor[l]]]
          /\ Goto(l, "done") /\ cache' = cache
      BY <1>3, <2>1 DEF Begin, Start
    <3>2. clock <= cache[tenor[l]].fetched + TTL
      BY <2>1 DEF FreshInCache
    <3> QED
      BY <1>0, <2>0, <3>1, <3>2
         DEF Goto, RecentInv, Answered, TypeInv, TypeOK, OracleTypeOK
  <2>2. CASE ~FreshInCache(tenor[l])
    <3>1. /\ cache' = [cache EXCEPT ![tenor[l]] = Nothing]
          /\ Goto(l, "fetching") /\ answer' = answer
      BY <1>3, <2>2 DEF Begin, Start
    <3>2. answer[l] = Nothing
      BY <1>3 DEF Begin, Start, RecentInv
    <3> QED
      BY <1>0, <2>0, <3>1, <3>2
         DEF Goto, RecentInv, Answered, TypeInv, TypeOK, OracleTypeOK
  <2> QED
    BY <2>1, <2>2
<1>4. ASSUME NEW l \in Lookups, UNCHANGED <<clock, cache, answer, began>>,
             NEW to \in {"fetching", "closing"}, Goto(l, to),
             pc[l] = "fetching"
      PROVE  RecentInv'
  BY <1>4 DEF Goto, RecentInv, Answered, TypeInv, TypeOK, OracleTypeOK
<1>5. ASSUME NEW l \in Lookups, NextUrl(l), pc[l] = "fetching",
             UNCHANGED <<clock, began>>
      PROVE  RecentInv'
  BY <1>4, <1>5 DEF NextUrl
<1>6. ASSUME NEW l \in Lookups, Fault(l) PROVE RecentInv'
  <2>1. CASE attempt[l] = 0
    BY <1>2, <1>6, <2>1 DEF Fault, TransportFails, Retry
  <2>2. CASE attempt[l] # 0
    BY <1>5, <1>6, <2>2 DEF Fault, TransportFails
  <2> QED
    BY <2>1, <2>2
<1>7. ASSUME NEW l \in Lookups, Error(l) PROVE RecentInv'
  <2>1. CASE HttpError(l)
    BY <1>5, <1>7, <2>1 DEF Error, HttpError
  <2>2. CASE Abort(l)
    BY <1>4, <1>7, <2>2 DEF Error, Abort
  <2> QED
    BY <1>7, <2>1, <2>2 DEF Error
<1>8. ASSUME NEW l \in Lookups, Parse(l), UNCHANGED <<clock, historyVars>>
      PROVE  RecentInv'
  <2>1. CASE wire[l].day = 0 /\ NextUrl(l)
    BY <1>5, <1>8, <2>1 DEF Parse, historyVars
  <2>2. CASE ~(wire[l].day = 0 /\ NextUrl(l))
    <3> DEFINE o == [day |-> wire[l].day, fetched |-> clock]
    <3>1. /\ answer' = [answer EXCEPT ![l] = o]
          /\ cache' = [cache EXCEPT ![tenor[l]] = answer'[l]]
          /\ Goto(l, "closing") /\ clock' = clock /\ began' = began
      BY <1>8, <2>2 DEF Parse, historyVars
    <3>2. o.fetched = clock
      OBVIOUS
    <3> HIDE DEF o
    <3>3. answer'[l] = o /\ cache' = [cache EXCEPT ![tenor[l]] = o]
      BY <3>1 DEF TypeInv, TypeOK, OracleTypeOK
    <3> QED
      BY <1>0, <3>1, <3>2, <3>3
         DEF Goto, RecentInv, Answered, TypeInv, TypeOK, OracleTypeOK
  <2> QED
    BY <2>1, <2>2
<1>9. ASSUME NEW l \in Lookups, Close(l), UNCHANGED <<clock, historyVars>>
      PROVE  RecentInv'
  BY <1>9
     DEF Close, Goto, historyVars, RecentInv, Answered, TypeInv, TypeOK,
         OracleTypeOK
<1> QED
  <2>1. CASE NewYear /\ UNCHANGED <<clock, historyVars>>
    BY <1>2, <2>1 DEF NewYear, lookupVars, historyVars
  <2>2. CASE \E t \in Tenors : Publish(t) /\ UNCHANGED <<clock, historyVars>>
    BY <1>2, <2>2 DEF Publish, lookupVars, historyVars
  <2>3. CASE \E l \in Lookups : Serve(l) /\ UNCHANGED <<clock, historyVars>>
    BY <1>2, <2>3 DEF Serve, historyVars
  <2>4. CASE UNCHANGED vars
    BY <1>2, <2>4 DEF vars, oracleVars, lookupVars, historyVars
  <2> QED
    BY <1>1, <1>3, <1>6, <1>7, <1>8, <1>9, <2>1, <2>2, <2>3, <2>4
       DEF Next, Resume

(* No look-up hands out an observation fetched more than a TTL before it   *)
(* began, for any interleaving of any number of look-ups.                  *)
THEOREM AnswersAreRecent == Spec => []AnswerIsRecent
<1>1. Init => RecentInv
  BY DEF Init, ClockInit, OracleInit, Nothing, RecentInv, Answered
<1>2. TypeInv /\ RecentInv /\ [Next]_vars => RecentInv'
  BY RecentStep
<1>3. RecentInv => AnswerIsRecent
  BY DEF RecentInv, AnswerIsRecent
<1> QED
  BY <1>1, <1>2, <1>3, TypeInvariant, PTL DEF Spec

-----------------------------------------------------------------------------
(* What a single transport failure can do.  The last URL of a look-up is   *)
(* that of a year which has ended, so it has an entry; giving it up takes  *)
(* an error, or two failures of its own.                                   *)

EndedYears == \A y \in Years : y < year => \A t \in Tenors : feed[y][t] # 0

Last(l) == urls[l][Len(urls[l])]

Fetching(l) ==
  /\ Len(urls[l]) \in {1, 2} /\ Last(l) \in Years /\ Last(l) < year
  /\ attempt[l] <= faults[l]
  /\ wire[l].served /\ Len(urls[l]) = 1 => wire[l].day # 0

FaultInv ==
  /\ EndedYears
  /\ \A l \in Lookups :
       /\ pc[l] = "idle" => attempt[l] = 0 /\ ~wire[l].served
       /\ pc[l] = "fetching" => Fetching(l)
       /\ GaveUp(l) => errors[l] \/ faults[l] >= 2

(* Look-ups other than l are as they were.                                 *)
LEMMA OthersUnchanged ==
  ASSUME TypeInv, FaultInv, NEW l \in Lookups, EndedYears', year' = year,
         \A m \in Lookups \ {l} :
           /\ pc'[m] = pc[m] /\ urls'[m] = urls[m] /\ attempt'[m] = attempt[m]
           /\ wire'[m] = wire[m] /\ answer'[m] = answer[m]
           /\ errors'[m] = errors[m] /\ faults'[m] = faults[m],
         pc'[l] # "idle",
         pc'[l] = "fetching" => Fetching(l)',
         GaveUp(l)' => errors'[l] \/ faults'[l] >= 2
  PROVE  FaultInv'
  BY DEF FaultInv, Fetching, Last, GaveUp

LEMMA NextUrlKeeps ==
  ASSUME TypeInv, FaultInv, NEW l \in Lookups, pc[l] = "fetching", NextUrl(l),
         errors' \in [Lookups -> BOOLEAN], faults' \in [Lookups -> 0..2],
         \A m \in Lookups \ {l} :
           errors'[m] = errors[m] /\ faults'[m] = faults[m],
         Len(urls[l]) = 1 => errors'[l] \/ faults'[l] >= 2
  PROVE  FaultInv'
<1>1. /\ urls[l] \in Seq(Years) /\ urls[l] # <<>> /\ Fetching(l)
      /\ Len(urls[l]) \in {1, 2}
  BY DEF TypeInv, TypeOK, OracleTypeOK, UrlsLeft, FaultInv, Fetching
<1>2. /\ Len(Tail(urls[l])) = Len(urls[l]) - 1
      /\ Len(urls[l]) = 2 => Tail(urls[l])[1] = urls[l][2]
  BY <1>1, TailOfYears
<1>3. /\ pc' = [pc EXCEPT ![l] = IF Len(urls[l]) = 1 THEN "closing"
                                                     ELSE "fetching"]
      /\ urls' = [urls EXCEPT ![l] = Tail(urls[l])]
      /\ attempt' = [attempt EXCEPT ![l] = 0]
      /\ wire' = [wire EXCEPT ![l] = Asked]
      /\ UNCHANGED <<year, feed, answer>>
  BY DEF NextUrl, Goto, feedVars
<1>4. EndedYears'
  BY <1>3 DEF FaultInv, EndedYears
<1>5. pc'[l] = "fetching" => Fetching(l)'
  <2>1. urls'[l] = Tail(urls[l]) /\ attempt'[l] = 0 /\ wire'[l] = Asked
        /\ faults'[l] \in 0..2
    BY <1>3 DEF TypeInv, TypeOK, OracleTypeOK
  <2>2. ASSUME Len(urls[l]) = 2
        PROVE  Len(urls'[l]) = 1 /\ Last(l)' = Last(l)
    BY <1>2, <2>1, <2>2 DEF Last
  <2>3. pc'[l] = "fetching" => Len(urls[l]) = 2
    BY <1>1, <1>3 DEF TypeInv, TypeOK, OracleTypeOK
  <2> QED
    BY <1>1, <1>3, <2>1, <2>2, <2>3 DEF Fetching, Asked
<1>6. GaveUp(l)' => errors'[l] \/ faults'[l] >= 2
  BY <1>1, <1>3 DEF GaveUp, TypeInv, TypeOK, OracleTypeOK
<1>7. pc'[l] # "idle"
  BY <1>3 DEF TypeInv, TypeOK, OracleTypeOK
<1> QED
  BY <1>3, <1>4, <1>5, <1>6, <1>7, OthersUnchanged
     DEF TypeInv, TypeOK, OracleTypeOK

LEMMA FaultStep ==
  ASSUME TypeInv, FaultInv, [Next]_vars
  PROVE  FaultInv'
<1>0. /\ year \in Years /\ year >= 1
      /\ faults \in [Lookups -> 0..2] /\ errors \in [Lookups -> BOOLEAN]
      /\ pc \in [Lookups -> {"idle", "fetching", "closing", "done"}]
      /\ attempt \in [Lookups -> {0, 1}]
      /\ wire \in [Lookups -> [served : BOOLEAN, day : Nat]]
      /\ answer \in [Lookups -> Observation]
      /\ tenor \in [Lookups -> Tenors]
      /\ \A t \in Tenors, y \in Years : feed[y][t] \in Nat
  BY DEF TypeInv, TypeOK, OracleTypeOK
<1>1. ASSUME UNCHANGED <<lookupVars, errors, faults>>, EndedYears', year <= year',
             year' \in Years
      PROVE  FaultInv'
  <2>1. \A l \in Lookups : Fetching(l) => Fetching(l)'
    BY <1>0, <1>1 DEF lookupVars, Fetching, Last, Years
  <2> QED
    BY <1>1, <2>1 DEF lookupVars, FaultInv, GaveUp
<1>2. CASE NewYear /\ UNCHANGED <<clock, historyVars>>
  <2>1. year' = year + 1 /\ feed' = feed /\ \A t \in Tenors : feed[year][t] # 0
    BY <1>2 DEF NewYear
  <2>2. EndedYears'
    <3> SUFFICES ASSUME NEW y \in Years, y < year', NEW t \in Tenors
                 PROVE  feed'[y][t] # 0
      BY DEF EndedYears
    <3>1. y < year \/ y = year
      BY <1>0, <2>1, Constants DEF Years
    <3> QED
      BY <2>1, <3>1 DEF FaultInv, EndedYears
  <2>3. year' \in Years
    BY <1>0, <1>2, Constants DEF NewYear, Years
  <2> QED
    BY <1>0, <1>1, <1>2, <2>1, <2>2, <2>3 DEF NewYear, historyVars, Years
<1>3. ASSUME NEW t \in Tenors, Publish(t), UNCHANGED <<clock, historyVars>>
      PROVE  FaultInv'
  <2>1. /\ year' = year
        /\ \A y \in Years : y < year => feed'[y] = feed[y]
    BY <1>0, <1>3 DEF Publish, TypeInv, TypeOK, OracleTypeOK, Years
  <2>2. EndedYears'
    <3> SUFFICES ASSUME NEW y \in Years, y < year', NEW u \in Tenors
                 PROVE  feed'[y][u] # 0
      BY DEF EndedYears
    <3>1. feed'[y] = feed[y] /\ y < year
      BY <2>1
    <3> QED
      BY <3>1 DEF FaultInv, EndedYears
  <2> QED
    BY <1>0, <1>1, <1>3, <2>1, <2>2 DEF Publish, historyVars, Years
<1>4. ASSUME NEW l \in Lookups, Begin(l) PROVE FaultInv'
  <2>1. /\ pc[l] = "idle" /\ UNCHANGED <<year, feed, attempt, wire, errors, faults>>
    BY <1>4 DEF Begin, Start, feedVars
  <2>2. EndedYears'
    BY <2>1 DEF FaultInv, EndedYears
  <2>3. CASE FreshInCache(tenor[l])
    <3>1. /\ answer' = [answer EXCEPT ![l] = cache[tenor[l]]]
          /\ pc' = [pc EXCEPT ![l] = "done"] /\ urls' = urls
          /\ cache[tenor[l]] # Nothing
      BY <1>4, <2>3 DEF Begin, Start, Goto, FreshInCache
    <3> QED
      BY <1>0, <2>1, <2>2, <3>1, OthersUnchanged DEF GaveUp
  <2>4. CASE ~FreshInCache(tenor[l])
    <3>1. /\ urls' = [urls EXCEPT ![l] = CandidateYears]
          /\ pc' = [pc EXCEPT ![l] = "fetching"] /\ answer' = answer
      BY <1>4, <2>4 DEF Begin, Start, Goto
    <3>2. urls'[l] = <<year, year - 1>>
      BY <3>1 DEF CandidateYears, TypeInv, TypeOK, OracleTypeOK
    <3>3. Fetching(l)'
      <4>1. Len(urls'[l]) = 2 /\ Last(l)' = year - 1
        BY <3>2 DEF Last
      <4>2. attempt'[l] = 0 /\ ~wire'[l].served /\ faults'[l] \in 0..2
        BY <1>0, <2>1 DEF FaultInv
      <4> QED
        BY <1>0, <2>1, <4>1, <4>2, Constants DEF Fetching, Years
    <3> QED
      BY <1>0, <2>1, <2>2, <3>1, <3>3, OthersUnchanged
         DEF GaveUp, TypeInv, TypeOK, OracleTypeOK
  <2> QED
    BY <2>3, <2>4
<1>5. ASSUME NEW l \in Lookups, Serve(l), UNCHANGED <<clock, historyVars>>
      PROVE  FaultInv'
  <2>1. /\ pc[l] = "fetching" /\ Fetching(l) /\ urls[l] \in Seq(Years)
        /\ urls[l] # <<>>
    BY <1>5 DEF Serve, FaultInv, TypeInv, TypeOK, OracleTypeOK, UrlsLeft
  <2>2. wire' = [wire EXCEPT ![l] =
                   [served |-> TRUE, day |-> feed[Head(urls[l])][tenor[l]]]]
        /\ UNCHANGED <<year, feed, pc, urls, attempt, answer, errors, faults>>
    BY <1>5 DEF Serve, feedVars, historyVars
  <2>3. Len(urls[l]) = 1 => feed[Head(urls[l])][tenor[l]] # 0
    BY <1>0, <2>1, HeadTailProperties DEF Fetching, Last, FaultInv, EndedYears
  <2>4. Fetching(l)'
    BY <1>0, <2>1, <2>2, <2>3 DEF Fetching, Last
  <2>5. EndedYears'
    BY <2>2 DEF FaultInv, EndedYears
  <2>6. ~GaveUp(l)'
    BY <2>1, <2>2 DEF GaveUp
  <2> QED
    BY <1>0, <2>1, <2>2, <2>4, <2>5, <2>6, OthersUnchanged
<1>6. ASSUME NEW l \in Lookups, Fault(l) PROVE FaultInv'
  <2>1. /\ pc[l] = "fetching" /\ Fetching(l) /\ errors' = errors
        /\ faults' = [faults EXCEPT ![l] = IF @ < 2 THEN @ + 1 ELSE @]
    BY <1>6 DEF Fault, TransportFails, FaultInv
  <2>2. /\ faults' \in [Lookups -> 0..2] /\ faults'[l] >= 1
        /\ attempt[l] = 1 => faults'[l] >= 2
    BY <1>0, <2>1 DEF Fetching
  <2>3. CASE attempt[l] = 0
    <3>1. /\ attempt' = [attempt EXCEPT ![l] = 1]
          /\ wire' = [wire EXCEPT ![l] = Asked]
          /\ UNCHANGED <<year, feed, pc, urls, answer>>
      BY <1>6, <2>3 DEF Fault, TransportFails, Retry, feedVars
    <3>2. Fetching(l)'
      BY <1>0, <2>1, <2>2, <3>1 DEF Fetching, Last, Asked
    <3>3. EndedYears' /\ ~GaveUp(l)'
      BY <2>1, <3>1 DEF FaultInv, EndedYears, GaveUp
    <3> QED
      BY <1>0, <2>1, <3>1, <3>2, <3>3, OthersUnchanged
  <2>4. CASE attempt[l] # 0
    <3>1. NextUrl(l) /\ attempt[l] = 1
      BY <1>0, <1>6, <2>4 DEF Fault, TransportFails
    <3> QED
      BY <1>0, <2>1, <2>2, <3>1, NextUrlKeeps
  <2> QED
    BY <2>3, <2>4
<1>7. ASSUME NEW l \in Lookups, Error(l) PROVE FaultInv'
  <2>1. errors' = [errors EXCEPT ![l] = TRUE] /\ faults' = faults
    BY <1>7 DEF Error
  <2>2. CASE HttpError(l)
    BY <1>0, <2>1, <2>2, NextUrlKeeps DEF HttpError
  <2>3. CASE Abort(l)
    <3>1. /\ pc' = [pc EXCEPT ![l] = "closing"] /\ pc[l] = "fetching"
          /\ UNCHANGED <<year, feed, urls, attempt, wire, answer>>
      BY <2>3 DEF Abort, Goto, feedVars
    <3>2. EndedYears'
      BY <3>1 DEF FaultInv, EndedYears
    <3> QED
      BY <1>0, <2>1, <3>1, <3>2, OthersUnchanged
  <2> QED
    BY <1>7, <2>2, <2>3 DEF Error
<1>8. ASSUME NEW l \in Lookups, Parse(l), UNCHANGED <<clock, historyVars>>
      PROVE  FaultInv'
  <2>1. /\ pc[l] = "fetching" /\ Fetching(l) /\ wire[l].served
        /\ errors' = errors /\ faults' = faults
    BY <1>8 DEF Parse, FaultInv, historyVars
  <2>2. CASE wire[l].day = 0 /\ NextUrl(l)
    <3>1. Len(urls[l]) # 1
      BY <2>1, <2>2 DEF Fetching
    <3> QED
      BY <1>0, <2>1, <2>2, <3>1, NextUrlKeeps
  <2>3. CASE ~(wire[l].day = 0 /\ NextUrl(l))
    <3> DEFINE o == [day |-> wire[l].day, fetched |-> clock]
    <3>1. /\ answer' = [answer EXCEPT ![l] = o] /\ o # Nothing
          /\ pc' = [pc EXCEPT ![l] = "closing"]
          /\ UNCHANGED <<year, feed, urls, attempt, wire>>
      BY <1>8, <2>3 DEF Parse, Goto, feedVars, Nothing
    <3> HIDE DEF o
    <3>2. EndedYears' /\ ~GaveUp(l)'
      BY <1>0, <3>1 DEF FaultInv, EndedYears, GaveUp
    <3> QED
      BY <1>0, <2>1, <3>1, <3>2, OthersUnchanged
  <2> QED
    BY <2>2, <2>3
<1>9. ASSUME NEW l \in Lookups, Close(l), UNCHANGED <<clock, historyVars>>
      PROVE  FaultInv'
  <2>1. /\ pc[l] = "closing" /\ pc' = [pc EXCEPT ![l] = "done"]
        /\ UNCHANGED <<year, feed, urls, attempt, wire, answer, errors, faults>>
    BY <1>9 DEF Close, Goto, feedVars, historyVars
  <2>2. EndedYears' /\ (GaveUp(l)' => errors'[l] \/ faults'[l] >= 2)
    BY <1>0, <2>1 DEF FaultInv, EndedYears, GaveUp
  <2> QED
    BY <1>0, <2>1, <2>2, OthersUnchanged
<1>10. CASE \/ Tick /\ UNCHANGED <<oracleVars, historyVars>>
            \/ UNCHANGED vars
  <2>1. UNCHANGED <<lookupVars, errors, faults, year, feed>>
    BY <1>10 DEF vars, oracleVars, feedVars, historyVars
  <2>2. EndedYears'
    BY <2>1 DEF FaultInv, EndedYears
  <2> QED
    BY <1>0, <1>1, <2>1, <2>2 DEF Years
<1> QED
  BY <1>2, <1>3, <1>4, <1>5, <1>6, <1>7, <1>8, <1>9, <1>10 DEF Next, Resume

(* A look-up that met no error gives up only after two transport failures, *)
(* whatever else is under way and whenever the year turns.                 *)
THEOREM SurvivesOneFault == Spec => []OneFaultIsSurvived
<1>1. Init => FaultInv
  BY DEF Init, OracleInit, Years, Asked, FaultInv, EndedYears, GaveUp
<1>2. TypeInv /\ FaultInv /\ [Next]_vars => FaultInv'
  BY FaultStep
<1>3. FaultInv => OneFaultIsSurvived
  BY DEF FaultInv, OneFaultIsSurvived
<1> QED
  BY <1>1, <1>2, <1>3, TypeInvariant, PTL DEF Spec

-----------------------------------------------------------------------------
(* What callers see.  The mapping gives an observation when it is stored;  *)
(* a fresh entry of the cache is then one that some call was given, and    *)
(* what a document holds is no newer than the feed.                        *)

FeedInv ==
  \A t \in Tenors, y \in Years :
    /\ y > year => feed[y][t] = 0
    /\ feed[y][t] <= Newest(t)

WireInv == \A l \in Lookups : wire[l].day <= Newest(tenor[l])

CacheInv ==
  \A t \in Tenors : cache[t] # Nothing =>
    \E k \in Lookups :
      pc[k] \in {"closing", "done"} /\ tenor[k] = t /\ answer[k] = cache[t]

ServiceInv == FeedInv /\ WireInv /\ CacheInv

LEMMA FeedTypes ==
  ASSUME TypeInv
  PROVE  /\ year \in Years /\ year - 1 \in Years /\ year \in Nat
         /\ \A y \in Years, t \in Tenors : feed[y][t] \in Nat
         /\ \A t \in Tenors : Newest(t) \in Nat
         /\ \A l \in Lookups : tenor[l] \in Tenors
  BY Constants DEF TypeInv, TypeOK, OracleTypeOK, Years, Newest

(* The newest day of a tenor never goes back, and only Publish moves it.   *)
LEMMA NewYearKeepsNewest ==
  ASSUME TypeInv, FeedInv, NewYear
  PROVE  FeedInv' /\ \A t \in Tenors : Newest(t)' = Newest(t)
<1>1. /\ year' = year + 1 /\ feed' = feed /\ year + 1 \in Years
      /\ \A t \in Tenors : feed[year][t] # 0
  BY FeedTypes, Constants DEF NewYear, Years
<1>2. \A t \in Tenors : feed[year + 1][t] = 0
  BY <1>1, FeedTypes DEF FeedInv
<1>3. \A t \in Tenors : Newest(t)' = Newest(t)
  BY <1>1, <1>2, FeedTypes DEF Newest
<1> QED
  BY <1>1, <1>3, FeedTypes DEF FeedInv, Years

LEMMA PublishAdvances ==
  ASSUME TypeInv, FeedInv, NEW t \in Tenors, Publish(t)
  PROVE  /\ FeedInv' /\ Newest(t)' = Newest(t) + 1
         /\ \A u \in Tenors \ {t} : Newest(u)' = Newest(u)
         /\ \A y \in Years, u \in Tenors :
              <<y, u>> # <<year, t>> => feed'[y][u] = feed[y][u]
         /\ feed'[year][t] = Newest(t) + 1
<1>1. /\ feed' = [feed EXCEPT ![year] = [feed[year] EXCEPT ![t] = Newest(t) + 1]]
      /\ year' = year
  BY DEF Publish
<1>2. /\ feed'[year][t] = Newest(t) + 1
      /\ \A y \in Years, u \in Tenors :
           <<y, u>> # <<year, t>> => feed'[y][u] = feed[y][u]
  BY <1>1, FeedTypes DEF TypeInv, TypeOK, OracleTypeOK
<1>3. /\ Newest(t)' = Newest(t) + 1
      /\ \A u \in Tenors \ {t} : Newest(u)' = Newest(u)
  BY <1>1, <1>2, FeedTypes DEF Newest
<1>4. FeedInv'
  BY <1>1, <1>2, <1>3, FeedTypes DEF FeedInv
<1> QED
  BY <1>2, <1>3, <1>4

LEMMA ServiceInitially == Init => ServiceInv
  BY Constants
     DEF Init, OracleInit, Nothing, Asked, Years, Newest, ServiceInv, FeedInv,
         WireInv, CacheInv

(* A step of a look-up that leaves the feed, the cache and what others     *)
(* were given alone.                                                       *)
LEMMA ServiceKept ==
  ASSUME TypeInv, ServiceInv, UNCHANGED <<year, feed, tenor>>,
         \A t \in Tenors : cache'[t] \in {cache[t], Nothing},
         \A k \in Lookups :
           /\ wire'[k].day <= Newest(tenor[k])
           /\ pc[k] \in {"closing", "done"} =>
                pc'[k] \in {"closing", "done"} /\ answer'[k] = answer[k]
  PROVE  ServiceInv'
<1>1. \A t : Newest(t)' = Newest(t)
  BY DEF Newest
<1>2. FeedInv' /\ WireInv'
  BY <1>1 DEF ServiceInv, FeedInv, WireInv
<1>3. CacheInv'
  <2> SUFFICES ASSUME NEW t \in Tenors, cache'[t] # Nothing
               PROVE  \E k \in Lookups : /\ pc'[k] \in {"closing", "done"}
                                         /\ tenor'[k] = t /\ answer'[k] = cache'[t]
    BY DEF CacheInv
  <2>1. PICK k \in Lookups : /\ pc[k] \in {"closing", "done"}
                             /\ tenor[k] = t /\ answer[k] = cache[t]
    BY DEF ServiceInv, CacheInv
  <2> QED
    BY <2>1
<1> QED
  BY <1>2, <1>3 DEF ServiceInv

LEMMA ServiceStep ==
  ASSUME TypeInv, ServiceInv, [Next]_vars
  PROVE  ServiceInv'
<1>0. /\ pc \in [Lookups -> {"idle", "fetching", "closing", "done"}]
      /\ wire \in [Lookups -> [served : BOOLEAN, day : Nat]]
      /\ answer \in [Lookups -> Observation] /\ cache \in [Tenors -> Observation]
      /\ \A l \in Lookups : Newest(tenor[l]) \in Nat
  BY FeedTypes DEF TypeInv, TypeOK, OracleTypeOK
<1>1. CASE UNCHANGED oracleVars
  BY <1>1, ServiceKept DEF oracleVars, feedVars, lookupVars, ServiceInv, WireInv
<1>2. CASE NewYear
  <2>1. FeedInv' /\ \A t \in Tenors : Newest(t)' = Newest(t)
    BY <1>2, NewYearKeepsNewest DEF ServiceInv
  <2> QED
    BY <1>2, <2>1, FeedTypes DEF NewYear, lookupVars, ServiceInv, WireInv, CacheInv
<1>3. ASSUME NEW t \in Tenors, Publish(t) PROVE ServiceInv'
  <2>1. FeedInv' /\ \A u \in Tenors : Newest(u) <= Newest(u)' /\ Newest(u)' \in Nat
    BY <1>3, PublishAdvances, FeedTypes DEF ServiceInv
  <2> QED
    BY <1>0, <1>3, <2>1, FeedTypes DEF Publish, lookupVars, ServiceInv, WireInv, CacheInv
<1>4. ASSUME NEW l \in Lookups, Begin(l) PROVE ServiceInv'
  <2>1. CASE FreshInCache(tenor[l])
    BY <1>0, <1>4, <2>1, ServiceKept
       DEF Begin, Start, Goto, feedVars, ServiceInv, WireInv
  <2>2. CASE ~FreshInCache(tenor[l])
    BY <1>0, <1>4, <2>2, ServiceKept
       DEF Begin, Start, Goto, feedVars, ServiceInv, WireInv
  <2> QED
    BY <2>1, <2>2
<1>5. ASSUME NEW l \in Lookups, Serve(l) PROVE ServiceInv'
  <2>1. Head(urls[l]) \in Years
    BY <1>5, HeadTailProperties DEF Serve, TypeInv, UrlsLeft, TypeOK, OracleTypeOK
  <2>2. feed[Head(urls[l])][tenor[l]] <= Newest(tenor[l])
    BY <2>1, FeedTypes DEF ServiceInv, FeedInv
  <2> QED
    BY <1>0, <1>5, <2>2, ServiceKept DEF Serve, feedVars, ServiceInv, WireInv
<1>6. ASSUME NEW l \in Lookups, NextUrl(l), pc[l] = "fetching" PROVE ServiceInv'
  BY <1>0, <1>6, ServiceKept DEF NextUrl, Goto, Asked, feedVars, ServiceInv, WireInv
<1>7. ASSUME NEW l \in Lookups, Fault(l) PROVE ServiceInv'
  <2>1. CASE attempt[l] = 0
    BY <1>0, <1>7, <2>1, ServiceKept
       DEF Fault, TransportFails, Retry, Asked, feedVars, ServiceInv, WireInv
  <2>2. CASE attempt[l] # 0
    BY <1>6, <1>7, <2>2 DEF Fault, TransportFails
  <2> QED
    BY <2>1, <2>2
<1>8. ASSUME NEW l \in Lookups, Error(l) PROVE ServiceInv'
  <2>1. CASE HttpError(l)
    BY <1>6, <2>1 DEF HttpError
  <2>2. CASE Abort(l)
    BY <1>0, <2>2, ServiceKept DEF Abort, Goto, feedVars, ServiceInv, WireInv
  <2> QED
    BY <1>8, <2>1, <2>2 DEF Error
<1>9. ASSUME NEW l \in Lookups, Parse(l) PROVE ServiceInv'
  <2>1. CASE wire[l].day = 0 /\ NextUrl(l)
    BY <1>6, <1>9, <2>1 DEF Parse
  <2>2. CASE ~(wire[l].day = 0 /\ NextUrl(l))
    <3> DEFINE o == [day |-> wire[l].day, fetched |-> clock]
    <3>1. /\ answer' = [answer EXCEPT ![l] = o]
          /\ cache' = [cache EXCEPT ![tenor[l]] = answer'[l]]
          /\ pc' = [pc EXCEPT ![l] = "closing"] /\ pc[l] = "fetching"
          /\ UNCHANGED <<year, feed, tenor, urls, attempt, wire>>
      BY <1>9, <2>2 DEF Parse, Goto, feedVars
    <3> HIDE DEF o
    <3>2. FeedInv' /\ WireInv'
      BY <3>1 DEF ServiceInv, FeedInv, WireInv, Newest
    <3>3. CacheInv'
      <4> SUFFICES ASSUME NEW t \in Tenors, cache'[t] # Nothing
                   PROVE  \E k \in Lookups : /\ pc'[k] \in {"closing", "done"}
                                             /\ tenor'[k] = t /\ answer'[k] = cache'[t]
        BY DEF CacheInv
      <4>1. CASE t = tenor[l]
        BY <1>0, <3>1, <4>1
      <4>2. CASE t # tenor[l]
        <5>1. PICK k \in Lookups : /\ pc[k] \in {"closing", "done"}
                                   /\ tenor[k] = t /\ answer[k] = cache[t]
          BY <1>0, <3>1, <4>2, FeedTypes DEF ServiceInv, CacheInv
        <5> QED
          BY <1>0, <3>1, <4>2, <5>1, FeedTypes
      <4> QED
        BY <4>1, <4>2
    <3> QED
      BY <3>2, <3>3 DEF ServiceInv
  <2> QED
    BY <2>1, <2>2
<1>10. ASSUME NEW l \in Lookups, Close(l) PROVE ServiceInv'
  BY <1>0, <1>10, ServiceKept DEF Close, Goto, feedVars, ServiceInv, WireInv
<1> QED
  BY <1>1, <1>2, <1>3, <1>4, <1>5, <1>7, <1>8, <1>9, <1>10
     DEF Next, Resume, vars

LEMMA MapsInitially == Init => Service!ClockInit /\ Service!ServiceInit
<1> SUFFICES ASSUME Init PROVE Service!ClockInit /\ Service!ServiceInit
  OBVIOUS
<1>1. \A t \in Tenors : Newest(t) = 1
  BY Constants DEF Init, OracleInit, Years, Newest
<1> QED
  BY <1>1 DEF Init, ClockInit, OracleInit, StatusOf, Service!ClockInit,
             Service!ServiceInit, Service!Nothing, Nothing

LEMMA StatusCases ==
  ASSUME TypeInv, NEW l \in Lookups
  PROVE  /\ pc[l] = "idle" => StatusOf(l) = "idle"
         /\ pc[l] = "fetching" => StatusOf(l) = "asked"
         /\ pc[l] \in {"closing", "done"} => StatusOf(l) = "answered"
  BY DEF StatusOf, TypeInv, TypeOK, OracleTypeOK

(* A look-up is given o, or what it has, and the others keep theirs.       *)
LEMMA Gives ==
  ASSUME TypeInv, TypeInv', NEW l \in Lookups, NEW o,
         answer' = [answer EXCEPT ![l] = o],
         UNCHANGED <<year, feed, tenor>>,
         pc'[l] \in {"closing", "done"},
         \A k \in Lookups \ {l} : pc'[k] = pc[k]
  PROVE  Service!Give(l, o)
<1>1. [t \in Tenors |-> Newest(t)]' = [t \in Tenors |-> Newest(t)]
  BY DEF Newest
<1>2. StatusOf(l)' = "answered" /\ \A k \in Lookups \ {l} : StatusOf(k)' = StatusOf(k)
  BY StatusCases DEF StatusOf
<1>3. [k \in Lookups |-> StatusOf(k)]'
        = [[k \in Lookups |-> StatusOf(k)] EXCEPT ![l] = "answered"]
  BY <1>2
<1> QED
  BY <1>1, <1>3 DEF Service!Give

LEMMA Unseen ==
  ASSUME UNCHANGED <<clock, year, feed, tenor, answer>>,
         \A l \in Lookups : StatusOf(l)' = StatusOf(l)
  PROVE  UNCHANGED <<clock, Service!serviceVars>>
<1>1. [t \in Tenors |-> Newest(t)]' = [t \in Tenors |-> Newest(t)]
  BY DEF Newest
<1>2. [k \in Lookups |-> StatusOf(k)]' = [k \in Lookups |-> StatusOf(k)]
  OBVIOUS
<1> QED
  BY <1>1, <1>2 DEF Service!serviceVars

(* Giving up: the answer None, which is what the look-up has.              *)
LEMMA NoReply ==
  ASSUME TypeInv, TypeInv', RecentInv, NEW l \in Lookups, pc[l] = "fetching",
         pc' = [pc EXCEPT ![l] = "closing"],
         UNCHANGED <<year, feed, tenor, answer>>
  PROVE  Service!Reply(l)
<1>1. answer[l] = Nothing /\ StatusOf(l) = "asked"
  BY StatusCases DEF RecentInv
<1>2. answer' = [answer EXCEPT ![l] = Nothing]
  BY <1>1 DEF TypeInv, TypeOK, OracleTypeOK
<1>3. Service!Give(l, Nothing)
  <2>1. pc'[l] \in {"closing", "done"} /\ \A k \in Lookups \ {l} : pc'[k] = pc[k]
    BY DEF TypeInv, TypeOK, OracleTypeOK
  <2>2. UNCHANGED <<year, feed, tenor>>
    OBVIOUS
  <2> QED
    BY <1>2, <2>1, <2>2, Gives
<1>4. Service!Nothing = Nothing
  BY DEF Service!Nothing, Nothing
<1>5. 0 \in 0..Newest(tenor[l]) /\ tenor[l] \in Tenors
  BY FeedTypes
<1> QED
  BY <1>1, <1>3, <1>4, <1>5 DEF Service!Reply

LEMMA NextUrlMaps ==
  ASSUME TypeInv, TypeInv', RecentInv, NEW l \in Lookups, pc[l] = "fetching",
         NextUrl(l), clock' = clock
  PROVE  [Service!ServiceNext]_<<clock, Service!serviceVars>>
<1>1. CASE Len(urls[l]) = 1
  BY <1>1, NoReply DEF NextUrl, Goto, feedVars, Service!ServiceNext
<1>2. CASE Len(urls[l]) # 1
  BY <1>2, Unseen DEF NextUrl, Goto, feedVars, StatusOf, TypeInv, TypeOK, OracleTypeOK
<1> QED
  BY <1>1, <1>2

LEMMA ServiceMaps ==
  ASSUME TypeInv, TypeInv', RecentInv, ServiceInv, [Next]_vars
  PROVE  [Service!ServiceNext]_<<clock, Service!serviceVars>>
<1>0. pc \in [Lookups -> {"idle", "fetching", "closing", "done"}]
  BY DEF TypeInv, TypeOK, OracleTypeOK
<1>1. CASE UNCHANGED oracleVars
  <2>1. UNCHANGED Service!serviceVars
    BY <1>1 DEF oracleVars, feedVars, lookupVars, Newest, StatusOf, Service!serviceVars
  <2>2. Tick \/ clock' = clock
    BY <1>1 DEF Next, vars, oracleVars, Begin, Resume, Fault, Error
  <2> QED
    BY <2>1, <2>2 DEF Tick, Service!Tick, Service!ServiceNext
<1>2. CASE NewYear /\ UNCHANGED <<clock, historyVars>>
  <2>1. \A t \in Tenors : Newest(t)' = Newest(t)
    BY <1>2, NewYearKeepsNewest DEF ServiceInv
  <2> QED
    BY <1>2, <2>1 DEF NewYear, lookupVars, StatusOf, Service!serviceVars
<1>3. ASSUME NEW t \in Tenors, Publish(t), UNCHANGED <<clock, historyVars>>
      PROVE  Service!ServiceNext
  <2>1. /\ Newest(t)' = Newest(t) + 1 /\ Newest(t) < LastDay
        /\ \A u \in Tenors \ {t} : Newest(u)' = Newest(u)
    BY <1>3, PublishAdvances DEF ServiceInv, Publish
  <2>2. [u \in Tenors |-> Newest(u)]'
          = [[u \in Tenors |-> Newest(u)] EXCEPT ![t] = @ + 1]
    BY <2>1
  <2>3. [l \in Lookups |-> StatusOf(l)]' = [l \in Lookups |-> StatusOf(l)]
    BY <1>3 DEF Publish, lookupVars, StatusOf
  <2>4. Service!Advance(t)
    BY <1>3, <2>1, <2>2, <2>3 DEF Publish, lookupVars, Service!Advance
  <2> QED
    BY <1>3, <2>4 DEF Service!ServiceNext
<1>4. ASSUME NEW l \in Lookups, Begin(l) PROVE Service!ServiceNext
  <2>0. /\ pc[l] = "idle" /\ StatusOf(l) = "idle" /\ tenor[l] \in Tenors
        /\ UNCHANGED <<clock, year, feed, tenor>>
    BY <1>4, StatusCases, FeedTypes DEF Begin, Start, feedVars
  <2>1. CASE FreshInCache(tenor[l])
    <3>1. PICK k \in Lookups : /\ pc[k] \in {"closing", "done"} /\ tenor[k] = tenor[l]
                               /\ answer[k] = cache[tenor[l]]
      BY <2>0, <2>1 DEF FreshInCache, ServiceInv, CacheInv
    <3>2. answer' = [answer EXCEPT ![l] = answer[k]] /\ Goto(l, "done")
      BY <1>4, <2>1, <3>1 DEF Begin, Start
    <3>3. Service!Give(l, answer[k])
      BY <1>0, <2>0, <3>2, Gives DEF Goto
    <3>4. /\ StatusOf(k) = "answered" /\ answer[k] # Service!Nothing
          /\ clock <= answer[k].fetched + TTL
      BY <2>1, <3>1, StatusCases DEF FreshInCache, Nothing, Service!Nothing
    <3> QED
      BY <2>0, <3>1, <3>3, <3>4 DEF Service!Share, Service!ServiceNext
  <2>2. CASE ~FreshInCache(tenor[l])
    <3>1. pc' = [pc EXCEPT ![l] = "fetching"] /\ answer' = answer
      BY <1>4, <2>2 DEF Begin, Start, Goto
    <3>2. StatusOf(l)' = "asked" /\ \A k \in Lookups \ {l} : StatusOf(k)' = StatusOf(k)
      BY <1>0, <3>1 DEF StatusOf
    <3>3. [k \in Lookups |-> StatusOf(k)]'
            = [[k \in Lookups |-> StatusOf(k)] EXCEPT ![l] = "asked"]
      BY <3>2
    <3>4. [t \in Tenors |-> Newest(t)]' = [t \in Tenors |-> Newest(t)]
      BY <2>0 DEF Newest
    <3>5. Service!Await(l)
      BY <2>0, <3>1, <3>3, <3>4 DEF Service!Await
    <3> QED
      BY <2>0, <3>5 DEF Service!ServiceNext
  <2> QED
    BY <2>1, <2>2
<1>5. ASSUME NEW l \in Lookups, Serve(l), UNCHANGED <<clock, historyVars>>
      PROVE  UNCHANGED <<clock, Service!serviceVars>>
  BY <1>5, Unseen DEF Serve, feedVars, StatusOf
<1>6. ASSUME NEW l \in Lookups, Fault(l)
      PROVE  [Service!ServiceNext]_<<clock, Service!serviceVars>>
  <2>1. CASE attempt[l] = 0
    BY <1>6, <2>1, Unseen DEF Fault, TransportFails, Retry, feedVars, StatusOf
  <2>2. CASE attempt[l] # 0
    BY <1>6, <2>2, NextUrlMaps DEF Fault, TransportFails
  <2> QED
    BY <2>1, <2>2
<1>7. ASSUME NEW l \in Lookups, Error(l)
      PROVE  [Service!ServiceNext]_<<clock, Service!serviceVars>>
  <2>1. CASE HttpError(l)
    BY <1>7, <2>1, NextUrlMaps DEF Error, HttpError
  <2>2. CASE Abort(l)
    BY <1>7, <2>2, NoReply DEF Error, Abort, Goto, feedVars, Service!ServiceNext
  <2> QED
    BY <1>7, <2>1, <2>2 DEF Error
<1>8. ASSUME NEW l \in Lookups, Parse(l), UNCHANGED <<clock, historyVars>>
      PROVE  [Service!ServiceNext]_<<clock, Service!serviceVars>>
  <2>1. CASE wire[l].day = 0 /\ NextUrl(l)
    BY <1>8, <2>1, NextUrlMaps DEF Parse
  <2>2. CASE ~(wire[l].day = 0 /\ NextUrl(l))
    <3>1. /\ answer' = [answer EXCEPT ![l] = [day |-> wire[l].day, fetched |-> clock]]
          /\ pc' = [pc EXCEPT ![l] = "closing"] /\ pc[l] = "fetching"
          /\ UNCHANGED <<year, feed, tenor>> /\ wire[l].day # 0
      BY <1>8, <2>2 DEF Parse, Goto, feedVars
    <3>2. Service!Give(l, [day |-> wire[l].day, fetched |-> clock])
      BY <1>0, <3>1, Gives
    <3>3. wire[l].day \in 0..Newest(tenor[l]) /\ tenor[l] \in Tenors
      BY FeedTypes DEF ServiceInv, WireInv, TypeInv, TypeOK, OracleTypeOK
    <3>4. StatusOf(l) = "asked"
      BY <3>1, StatusCases
    <3>5. Service!Reply(l)
      BY <3>1, <3>2, <3>3, <3>4 DEF Service!Reply
    <3> QED
      BY <1>8, <3>5 DEF Service!ServiceNext
  <2> QED
    BY <2>1, <2>2
<1>9. ASSUME NEW l \in Lookups, Close(l), UNCHANGED <<clock, historyVars>>
      PROVE  UNCHANGED <<clock, Service!serviceVars>>
  BY <1>0, <1>9, Unseen DEF Close, Goto, feedVars, StatusOf
<1> QED
  BY <1>1, <1>2, <1>3, <1>4, <1>5, <1>6, <1>7, <1>8, <1>9 DEF Next, Resume, vars

(* The look-ups, with their URLs, retries, documents and shared cache, are *)
(* to their callers the service that YieldService describes, for any       *)
(* number of them.                                                         *)
THEOREM OracleIsService == Spec => OracleImplementsService
<1>1. Init => RecentInv
  BY DEF Init, ClockInit, OracleInit, Nothing, RecentInv, Answered
<1>2. TypeInv /\ RecentInv /\ [Next]_vars => RecentInv'
  BY RecentStep
<1>3. TypeInv /\ ServiceInv /\ [Next]_vars => ServiceInv'
  BY ServiceStep
<1>4. TypeInv /\ TypeInv' /\ RecentInv /\ ServiceInv /\ [Next]_vars
        => [Service!ServiceNext]_<<clock, Service!serviceVars>>
  BY ServiceMaps
<1> QED
  BY <1>1, <1>2, <1>3, <1>4, TypeInvariant, ServiceInitially, MapsInitially, PTL
     DEF Spec, OracleImplementsService, Service!ServiceSpec

-----------------------------------------------------------------------------
(* A look-up that meets no trouble.  What it asks for next is at least as  *)
(* new as what was published when it began, or is empty and the year       *)
(* before is that new.                                                     *)

Untroubled(l) == began[l].fetches /\ faults[l] = 0 /\ ~errors[l]

Pursues(l) ==
  LET n == began[l].newest
      t == tenor[l]
      y == urls[l][1]
  IN  /\ Len(urls[l]) = 1 =>
           feed[y][t] >= n /\ (wire[l].served => wire[l].day >= n)
      /\ Len(urls[l]) = 2 =>
           /\ urls[l][2] = y - 1
           /\ feed[y][t] # 0 => feed[y][t] >= n
           /\ feed[y][t] = 0 => feed[y - 1][t] >= n
           /\ wire[l].served /\ wire[l].day # 0 => wire[l].day >= n
           /\ wire[l].served /\ wire[l].day = 0 => feed[y - 1][t] >= n

Owed(l) ==
  Untroubled(l) =>
    /\ pc[l] = "fetching" => Pursues(l)
    /\ pc[l] \in {"closing", "done"} => answer[l].day >= began[l].newest

NewestInv == \A l \in Lookups : Owed(l)

LEMMA NewestTypes ==
  ASSUME TypeInv, NEW l \in Lookups
  PROVE  /\ pc \in [Lookups -> {"idle", "fetching", "closing", "done"}]
         /\ urls \in [Lookups -> Seq(Years)]
         /\ wire \in [Lookups -> [served : BOOLEAN, day : Nat]]
         /\ answer \in [Lookups -> Observation]
         /\ began \in [Lookups -> [at : Nat, newest : Nat, fetches : BOOLEAN]]
         /\ faults \in [Lookups -> 0..2] /\ errors \in [Lookups -> BOOLEAN]
         /\ began[l].newest \in Nat /\ wire[l].day \in Nat /\ tenor[l] \in Tenors
  BY DEF TypeInv, TypeOK, OracleTypeOK

(* A step of one look-up that leaves the feed and the others alone.        *)
LEMMA OthersOwed ==
  ASSUME NewestInv, NEW l \in Lookups, UNCHANGED <<feed, tenor>>,
         \A m \in Lookups \ {l} :
           /\ pc'[m] = pc[m] /\ urls'[m] = urls[m] /\ wire'[m] = wire[m]
           /\ answer'[m] = answer[m] /\ began'[m] = began[m]
           /\ errors'[m] = errors[m] /\ faults'[m] = faults[m],
         Owed(l)'
  PROVE  NewestInv'
BY DEF NewestInv, Owed, Untroubled, Pursues

(* The URL it pursues is a year of the feed, and so is the next one.       *)
LEMMA PursuedYears ==
  ASSUME TypeInv, FaultInv, NEW l \in Lookups, pc[l] = "fetching"
  PROVE  /\ Len(urls[l]) \in {1, 2} /\ urls[l][1] \in Years
         /\ Len(urls[l]) = 2 => urls[l][2] \in Years
         /\ Head(urls[l]) = urls[l][1]
         /\ Len(urls[l]) = 2 => Tail(urls[l])[1] = urls[l][2]
         /\ Len(Tail(urls[l])) = Len(urls[l]) - 1
<1>1. urls[l] \in Seq(Years) /\ urls[l] # <<>> /\ Len(urls[l]) \in {1, 2}
  BY DEF TypeInv, TypeOK, OracleTypeOK, UrlsLeft, FaultInv, Fetching
<1> QED
  BY <1>1, TailOfYears, HeadTailProperties

LEMMA NewestNextUrl ==
  ASSUME TypeInv, FaultInv, RecentInv, NewestInv, NEW l \in Lookups,
         pc[l] = "fetching", wire[l].served, wire[l].day = 0,
         NextUrl(l), UNCHANGED historyVars
  PROVE  NewestInv'
<1>1. /\ pc' = [pc EXCEPT ![l] = IF Len(urls[l]) = 1 THEN "closing"
                                                     ELSE "fetching"]
      /\ urls' = [urls EXCEPT ![l] = Tail(urls[l])]
      /\ wire' = [wire EXCEPT ![l] = Asked]
      /\ UNCHANGED <<feed, tenor, answer, began, faults, errors>>
  BY DEF NextUrl, Goto, feedVars, historyVars
<1>2. Owed(l)'
  <2> SUFFICES ASSUME Untroubled(l)' PROVE Owed(l)'
    BY DEF Owed
  <2>1. Untroubled(l) /\ Pursues(l)
    BY <1>1 DEF Untroubled, NewestInv, Owed
  <2>2. CASE Len(urls[l]) = 1
    <3>1. answer'[l].day = 0 /\ began'[l].newest = 0
      BY <1>1, <2>1, <2>2, NewestTypes DEF Pursues, RecentInv, Nothing
    <3> QED
      BY <1>1, <2>2, <3>1, NewestTypes DEF Owed
  <2>3. CASE Len(urls[l]) = 2
    <3>1. /\ Len(urls'[l]) = 1 /\ urls'[l][1] = urls[l][1] - 1
          /\ ~wire'[l].served
      BY <1>1, <2>1, <2>3, PursuedYears, NewestTypes DEF Pursues, Asked
    <3>2. Pursues(l)'
      BY <1>1, <2>1, <2>3, <3>1 DEF Pursues
    <3> QED
      BY <1>1, <2>3, <3>2, NewestTypes DEF Owed
  <2> QED
    BY <2>2, <2>3, PursuedYears
<1> QED
  BY <1>1, <1>2, OthersOwed, NewestTypes

LEMMA NewestStep ==
  ASSUME TypeInv, FaultInv, RecentInv, FeedInv, NewestInv, [Next]_vars
  PROVE  NewestInv'
<1>1. ASSUME UNCHANGED <<feed, lookupVars, historyVars>> PROVE NewestInv'
  BY <1>1 DEF lookupVars, historyVars, NewestInv, Owed, Untroubled, Pursues
<1>2. ASSUME NEW t \in Tenors, Publish(t), UNCHANGED <<clock, historyVars>>
      PROVE  NewestInv'
  <2>1. /\ UNCHANGED <<lookupVars, historyVars>>
        /\ Newest(t) \in Nat /\ feed'[year][t] = Newest(t) + 1
        /\ \A y \in Years, u \in Tenors :
             /\ <<y, u>> # <<year, t>> => feed'[y][u] = feed[y][u]
             /\ feed[y][u] \in Nat /\ feed[y][u] <= Newest(u)
    BY <1>2, PublishAdvances, FeedTypes DEF Publish, FeedInv
  <2> SUFFICES ASSUME NEW l \in Lookups, pc[l] = "fetching", Pursues(l)
               PROVE  Pursues(l)'
    BY <2>1 DEF lookupVars, historyVars, NewestInv, Owed, Untroubled
  <2>2. /\ UNCHANGED <<urls, wire, tenor, began>>
        /\ began[l].newest \in Nat /\ tenor[l] \in Tenors
    BY <2>1, NewestTypes DEF lookupVars, historyVars
  <2>3. \A y \in Years : /\ feed'[y][tenor[l]] \in Nat
                         /\ feed'[y][tenor[l]] >= feed[y][tenor[l]]
    BY <2>1, <2>2, FeedTypes
  <2>4. \A y \in Years : \A z \in Years : 
          feed[y][tenor[l]] = 0 /\ feed'[y][tenor[l]] # 0 =>
            feed'[y][tenor[l]] >= feed[z][tenor[l]]
    BY <2>1, <2>2, FeedTypes
  <2>5. CASE Len(urls[l]) = 1
    BY <2>2, <2>3, <2>5, PursuedYears, FeedTypes DEF Pursues
  <2>6. CASE Len(urls[l]) = 2
    <3> DEFINE y == urls[l][1]
    <3>1. y \in Years /\ y - 1 \in Years /\ urls[l][2] = y - 1
      BY <2>6, PursuedYears DEF Pursues
    <3>2. \A z \in {y, y - 1} : feed[z][tenor[l]] \in Nat
      BY <2>2, <3>1, FeedTypes
    <3>3. /\ feed[y][tenor[l]] # 0 => feed[y][tenor[l]] >= began[l].newest
          /\ feed[y][tenor[l]] = 0 => feed[y - 1][tenor[l]] >= began[l].newest
      BY <2>6 DEF Pursues
    <3>4. /\ feed'[y][tenor[l]] # 0 => feed'[y][tenor[l]] >= began[l].newest
          /\ feed'[y][tenor[l]] = 0 => feed'[y - 1][tenor[l]] >= began[l].newest
      BY <2>2, <2>3, <2>4, <3>1, <3>2, <3>3
    <3>5. feed[y - 1][tenor[l]] >= began[l].newest
            => feed'[y - 1][tenor[l]] >= began[l].newest
      BY <2>2, <2>3, <3>1, <3>2
    <3> QED
      BY <2>2, <2>6, <3>1, <3>4, <3>5 DEF Pursues
  <2> QED
    BY <2>5, <2>6, PursuedYears
<1>3. ASSUME NEW l \in Lookups, Begin(l) PROVE NewestInv'
  <2>1. /\ UNCHANGED <<feed, tenor, wire, faults, errors>> /\ pc[l] = "idle"
        /\ began' = [began EXCEPT ![l] =
             [at |-> clock, newest |-> Newest(tenor[l]),
              fetches |-> ~FreshInCache(tenor[l])]]
    BY <1>3 DEF Begin, Start, feedVars
  <2>2. CASE FreshInCache(tenor[l])
    <3>1. ~began'[l].fetches
      BY <2>1, <2>2, NewestTypes
    <3> QED
      BY <1>3, <2>1, <2>2, <3>1, OthersOwed, NewestTypes
         DEF Begin, Start, Goto, Owed, Untroubled
  <2>3. CASE ~FreshInCache(tenor[l])
    <3>1. /\ urls' = [urls EXCEPT ![l] = <<year, year - 1>>]
          /\ pc' = [pc EXCEPT ![l] = "fetching"] /\ answer' = answer
      BY <1>3, <2>3 DEF Begin, Start, Goto, CandidateYears
    <3>2. urls'[l] = <<year, year - 1>> /\ began'[l].newest = Newest(tenor[l])
      BY <2>1, <3>1, NewestTypes
    <3>3. ~wire[l].served
      BY <2>1 DEF FaultInv
    <3>4. Pursues(l)'
      BY <2>1, <3>2, <3>3, FeedTypes DEF Pursues, Newest
    <3>5. Owed(l)'
      BY <3>1, <3>4, NewestTypes DEF Owed
    <3> QED
      BY <2>1, <3>1, <3>5, OthersOwed, NewestTypes
  <2> QED
    BY <2>2, <2>3
<1>4. ASSUME NEW l \in Lookups, Serve(l), UNCHANGED <<clock, historyVars>>
      PROVE  NewestInv'
  <2>1. /\ UNCHANGED <<feed, pc, tenor, urls, answer, began, faults, errors>>
        /\ pc[l] = "fetching"
        /\ wire' = [wire EXCEPT ![l] =
             [served |-> TRUE, day |-> feed[urls[l][1]][tenor[l]]]]
    BY <1>4, PursuedYears DEF Serve, feedVars, historyVars
  <2>2. wire'[l] = [served |-> TRUE, day |-> feed[urls[l][1]][tenor[l]]]
    BY <2>1, NewestTypes
  <2>3. Pursues(l) => Pursues(l)'
    BY <2>1, <2>2 DEF Pursues
  <2>4. Owed(l)'
    BY <2>1, <2>3 DEF Owed, Untroubled, NewestInv
  <2> QED
    BY <2>1, <2>4, OthersOwed, NewestTypes
<1>5. ASSUME NEW l \in Lookups, Fault(l) PROVE NewestInv'
  <2>1. faults'[l] # 0 /\ \A m \in Lookups \ {l} : faults'[m] = faults[m]
    <3>1. /\ faults' = [faults EXCEPT ![l] = IF @ < 2 THEN @ + 1 ELSE @]
          /\ faults \in [Lookups -> 0..2]
      BY <1>5, NewestTypes DEF Fault
    <3>2. faults[l] \in 0..2 /\ faults'[l] = IF faults[l] < 2 THEN faults[l] + 1
                                                            ELSE faults[l]
      BY <3>1
    <3> QED
      BY <3>1, <3>2
  <2>2. ~Untroubled(l)'
    BY <2>1 DEF Untroubled
  <2>3. CASE attempt[l] = 0
    BY <1>5, <2>1, <2>2, <2>3, OthersOwed, NewestTypes
       DEF Fault, TransportFails, Retry, feedVars, Owed
  <2>4. CASE attempt[l] # 0
    BY <1>5, <2>1, <2>2, <2>4, OthersOwed, NewestTypes
       DEF Fault, TransportFails, NextUrl, Goto, feedVars, Owed
  <2> QED
    BY <2>3, <2>4
<1>6. ASSUME NEW l \in Lookups, Error(l) PROVE NewestInv'
  <2>1. errors'[l] /\ \A m \in Lookups \ {l} : errors'[m] = errors[m]
    BY <1>6, NewestTypes DEF Error
  <2>2. ~Untroubled(l)'
    BY <2>1 DEF Untroubled
  <2> QED
    BY <1>6, <2>1, <2>2, OthersOwed, NewestTypes
       DEF Error, HttpError, Abort, NextUrl, Goto, feedVars, Owed
<1>7. ASSUME NEW l \in Lookups, Parse(l), UNCHANGED <<clock, historyVars>>
      PROVE  NewestInv'
  <2>1. CASE wire[l].day = 0 /\ NextUrl(l)
    BY <1>7, <2>1, NewestNextUrl DEF Parse
  <2>2. CASE ~(wire[l].day = 0 /\ NextUrl(l))
    <3>1. /\ answer' = [answer EXCEPT ![l] =
               [day |-> wire[l].day, fetched |-> clock]]
          /\ pc' = [pc EXCEPT ![l] = "closing"]
          /\ pc[l] = "fetching" /\ wire[l].served /\ wire[l].day # 0
          /\ UNCHANGED <<feed, tenor, urls, wire, began, faults, errors>>
      BY <1>7, <2>2 DEF Parse, Goto, feedVars, historyVars
    <3>2. answer'[l].day = wire[l].day
      BY <3>1, NewestTypes
    <3>3. Untroubled(l) => wire[l].day >= began[l].newest
      BY <3>1, PursuedYears DEF NewestInv, Owed, Pursues
    <3>4. Owed(l)'
      BY <3>1, <3>2, <3>3, NewestTypes DEF Owed, Untroubled
    <3> QED
      BY <3>1, <3>4, OthersOwed, NewestTypes
  <2> QED
    BY <2>1, <2>2
<1>8. ASSUME NEW l \in Lookups, Close(l), UNCHANGED <<clock, historyVars>>
      PROVE  NewestInv'
  <2>1. /\ pc' = [pc EXCEPT ![l] = "done"] /\ pc[l] = "closing"
        /\ UNCHANGED <<feed, tenor, urls, wire, answer, began, faults, errors>>
    BY <1>8 DEF Close, Goto, feedVars, historyVars
  <2>2. Owed(l)'
    BY <2>1, NewestTypes DEF NewestInv, Owed, Untroubled
  <2> QED
    BY <2>1, <2>2, OthersOwed, NewestTypes
<1>9. CASE \/ Tick /\ UNCHANGED <<oracleVars, historyVars>>
           \/ NewYear /\ UNCHANGED <<clock, historyVars>>
           \/ UNCHANGED vars
  BY <1>1, <1>9 DEF NewYear, vars, oracleVars, feedVars
<1> QED
  BY <1>2, <1>3, <1>4, <1>5, <1>6, <1>7, <1>8, <1>9 DEF Next, Resume

(* A look-up that goes to the feed and meets no trouble answers with a day *)
(* at least as new as the newest one when it began, for any look-ups and   *)
(* turns of the year.                                                      *)
THEOREM UntroubledIsNewest == Spec => []UntroubledAnswerIsNewest
<1>1. Init => RecentInv
  BY DEF Init, ClockInit, OracleInit, Nothing, RecentInv, Answered
<1>2. Init => FaultInv
  BY DEF Init, OracleInit, Years, Asked, FaultInv, EndedYears, GaveUp
<1>3. Init => NewestInv
  BY DEF Init, NewestInv, Owed, Untroubled
<1>4. TypeInv /\ RecentInv /\ [Next]_vars => RecentInv'
  BY RecentStep
<1>5. TypeInv /\ FaultInv /\ [Next]_vars => FaultInv'
  BY FaultStep
<1>6. TypeInv /\ ServiceInv /\ [Next]_vars => ServiceInv'
  BY ServiceStep
<1>7. TypeInv /\ FaultInv /\ RecentInv /\ ServiceInv /\ NewestInv /\ [Next]_vars
        => NewestInv'
  BY NewestStep DEF ServiceInv
<1>8. NewestInv => UntroubledAnswerIsNewest
  BY DEF NewestInv, Owed, Untroubled, UntroubledAnswerIsNewest
<1> QED
  BY <1>1, <1>2, <1>3, <1>4, <1>5, <1>6, <1>7, <1>8, ServiceInitially,
     TypeInvariant, PTL DEF Spec

-----------------------------------------------------------------------------
(* The demo's claims.  A tenor leaves todo only with an observation, which *)
(* a look-up that was answered keeps for good.                             *)

Tenured == {TenorOf[a] : a \in Assets}

GivenInv ==
  /\ clock \in Nat
  /\ latest \in [Maturities -> 1..LastDay]
  /\ status \in [Queries -> {"idle", "asked", "answered"}]
  /\ about \in [Queries -> Maturities]
  /\ given \in [Queries -> Observation]
  /\ \A l \in Queries :
       given[l] # Nothing => status[l] = "answered" /\ given[l].day \in 1..LastDay

FoundInv ==
  /\ at \in [Syncs -> {"new", "running", "waiting", "done", "failed"}]
  /\ todo \in [Syncs -> SUBSET Maturities]
  /\ \A s \in Syncs : \A t \in Tenured \ todo[s] : given[<<s, t>>] # Nothing

MarketInv ==
  /\ GivenInv /\ FoundInv
  /\ source \in [Assets -> Observation] /\ claims \in [Assets -> Nat]
  /\ SyncedTogether
  /\ \A a \in Assets : source[a] # Nothing =>
       claims[a] = Aligned(a, YieldOn(TenorOf[a], source[a]))

LEMMA MarketTypes ==
  /\ LastDay \in Nat /\ TenorOf \in [Assets -> Maturities]
  /\ Tenured \subseteq Maturities
  /\ \A s \in Syncs, t \in Maturities : <<s, t>> \in Queries
  /\ \A t \in Maturities, d \in 1..LastDay : YieldOf[t][d] \in Nat
  /\ Nothing \in Observation /\ Nothing.day = 0
  BY MarketAssumption DEF Queries, Tenured, Nothing, Observation

LEMMA AlignedIsNat ==
  ASSUME NEW a, NEW y \in Nat PROVE Aligned(a, y) \in Nat
<1> DEFINE q == (8 * y + 100) \div 200
<1>1. q \in Int
  OBVIOUS
<1> HIDE DEF q
<1>2. Larger(1, y - Larger(40, q)) \in Nat
  BY <1>1 DEF Larger
<1> QED
  BY <1>2 DEF Aligned, Lag, q

(* What a look-up does leaves everything already given alone.              *)
LEMMA GiveKeeps ==
  ASSUME MarketInv, NEW l \in Queries, NEW o \in Observation,
         status[l] # "answered", o # Nothing => o.day \in 1..LastDay, Quotes!Give(l, o),
         clock' = clock
  PROVE  /\ GivenInv'
         /\ \A k \in Queries : given[k] # Nothing => given'[k] = given[k]
<1>1. /\ status' = [status EXCEPT ![l] = "answered"]
      /\ given' = [given EXCEPT ![l] = o] /\ UNCHANGED <<latest, about>>
  BY DEF Quotes!Give
<1>2. given[l] = Nothing
  BY DEF MarketInv, GivenInv
<1> QED
  BY <1>1, <1>2 DEF MarketInv, GivenInv

(* A step that takes no observation back and installs none.                *)
LEMMA MarketKept ==
  ASSUME MarketInv, GivenInv', UNCHANGED <<claims, source>>,
         at' \in [Syncs -> {"new", "running", "waiting", "done", "failed"}],
         todo' \in [Syncs -> SUBSET Maturities],
         \A k \in Queries : given[k] # Nothing => given'[k] = given[k],
         \A s \in Syncs, t \in Tenured :
           t \in todo[s] \ todo'[s] => given'[<<s, t>>] # Nothing
  PROVE  MarketInv'
<1>1. FoundInv'
  <2> SUFFICES ASSUME NEW s \in Syncs, NEW t \in Tenured \ todo'[s]
               PROVE  given'[<<s, t>>] # Nothing
    BY DEF FoundInv
  <2> QED
    BY MarketTypes DEF MarketInv, FoundInv
<1>2. SyncedTogether'
  <2>1. CASE \A a \in Assets : source[a] = Nothing
    BY <2>1 DEF SyncedTogether
  <2>2. CASE \E s \in Syncs : \A a \in Assets :
               source[a] # Nothing /\ source[a] = given[<<s, TenorOf[a]>>]
    <3>1. PICK s \in Syncs : \A a \in Assets :
            source[a] # Nothing /\ source[a] = given[<<s, TenorOf[a]>>]
      BY <2>2
    <3>2. \A a \in Assets : <<s, TenorOf[a]>> \in Queries
      BY MarketTypes
    <3>3. \A a \in Assets : source'[a] = given'[<<s, TenorOf[a]>>]
      BY <3>1, <3>2
    <3> QED
      BY <3>1, <3>3 DEF SyncedTogether
  <2> QED
    BY <2>1, <2>2 DEF MarketInv, SyncedTogether
<1> QED
  BY <1>1, <1>2 DEF MarketInv, YieldOn

LEMMA InstallKeeps ==
  ASSUME MarketInv, NEW s \in Syncs, Install(s), clock' = clock
  PROVE  MarketInv'
<1>1. /\ todo[s] = {} /\ Go(s, "done")
      /\ UNCHANGED <<latest, status, about, given, todo>>
      /\ source' = [a \in Assets |-> given[<<s, TenorOf[a]>>]]
      /\ claims' = [a \in Assets |-> Aligned(a, YieldOn(TenorOf[a], source'[a]))]
  BY DEF Install, serviceVars
<1>2. \A a \in Assets : /\ TenorOf[a] \in Tenured \ todo[s]
                        /\ <<s, TenorOf[a]>> \in Queries /\ TenorOf[a] \in Maturities
  BY <1>1, MarketTypes DEF Tenured
<1>3. \A a \in Assets : /\ source'[a] = given[<<s, TenorOf[a]>>]
                        /\ source'[a] # Nothing /\ source'[a] \in Observation
                        /\ source'[a].day \in 1..LastDay
  BY <1>1, <1>2 DEF MarketInv, FoundInv, GivenInv
<1>4. \A a \in Assets : claims'[a] = Aligned(a, YieldOn(TenorOf[a], source'[a]))
  BY <1>1
<1>5. \A a \in Assets : YieldOn(TenorOf[a], source'[a]) \in Nat
  BY <1>2, <1>3, MarketTypes DEF YieldOn
<1>6. \A a \in Assets : claims'[a] \in Nat
  BY <1>4, <1>5, AlignedIsNat
<1>7. GivenInv' /\ FoundInv'
  BY <1>1 DEF MarketInv, GivenInv, FoundInv, Go
<1>8. SyncedTogether'
  BY <1>1, <1>3 DEF SyncedTogether
<1>9. claims' \in [Assets -> Nat] /\ source' \in [Assets -> Observation]
  BY <1>1, <1>3, <1>6
<1>10. \A a \in Assets : source'[a] # Nothing =>
         claims'[a] = Aligned(a, YieldOn(TenorOf[a], source'[a]))
  BY <1>4
<1>11. \A a \in Assets : YieldOn(TenorOf[a], source[a])' = YieldOn(TenorOf[a], source'[a])
  BY DEF YieldOn
<1> QED
  BY <1>7, <1>8, <1>9, <1>10, <1>11 DEF MarketInv

LEMMA MarketStep ==
  ASSUME MarketInv, [MarketNext]_marketVars
  PROVE  MarketInv'
<1>0. /\ GivenInv /\ LastDay \in Nat
      /\ at \in [Syncs -> {"new", "running", "waiting", "done", "failed"}]
      /\ todo \in [Syncs -> SUBSET Maturities]
      /\ \A s \in Syncs, t \in Maturities : <<s, t>> \in Queries
  BY MarketTypes DEF MarketInv, FoundInv
<1>1. CASE UNCHANGED marketVars
  <2>1. GivenInv'
    BY <1>0, <1>1 DEF marketVars, serviceVars, GivenInv
  <2> QED
    BY <1>0, <1>1, <2>1, MarketKept DEF marketVars, serviceVars, syncVars
<1>2. ASSUME NEW t \in Maturities, Quotes!Advance(t), UNCHANGED <<clock, syncVars>>
      PROVE  MarketInv'
  <2>1. GivenInv'
    BY <1>0, <1>2 DEF Quotes!Advance, GivenInv
  <2> QED
    BY <1>0, <1>2, <2>1, MarketKept DEF Quotes!Advance, syncVars
<1>3. ASSUME NEW l \in Queries, Quotes!Reply(l), UNCHANGED <<clock, syncVars>>
      PROVE  MarketInv'
  <2>1. PICK day \in 0..latest[about[l]] :
          Quotes!Give(l, IF day = 0 THEN Nothing ELSE [day |-> day, fetched |-> clock])
    BY <1>3 DEF Quotes!Reply, Quotes!Nothing, Nothing
  <2> DEFINE o == IF day = 0 THEN Nothing ELSE [day |-> day, fetched |-> clock]
  <2>2. o \in Observation /\ (o # Nothing => o.day \in 1..LastDay)
    BY <1>0, MarketTypes DEF GivenInv, Observation
  <2>3. Quotes!Give(l, o) /\ status[l] # "answered"
    BY <1>3, <2>1 DEF Quotes!Reply
  <2> HIDE DEF o
  <2>4. GivenInv' /\ \A k \in Queries : given[k] # Nothing => given'[k] = given[k]
    BY <1>3, <2>2, <2>3, GiveKeeps
  <2> QED
    BY <1>0, <1>3, <2>4, MarketKept DEF syncVars
<1>4. ASSUME NEW s \in Syncs, LookUp(s), clock' = clock PROVE MarketInv'
  <2>1. PICK t \in todo[s] :
          \/ Quotes!Share(<<s, t>>) /\ UNCHANGED at
          \/ Quotes!Await(<<s, t>>) /\ Go(s, "waiting")
    BY <1>4 DEF LookUp
  <2>2. <<s, t>> \in Queries /\ UNCHANGED <<claims, todo, source>>
    BY <1>0, <1>4 DEF LookUp
  <2>3. at' \in [Syncs -> {"new", "running", "waiting", "done", "failed"}]
    BY <1>0, <2>1 DEF Go
  <2>4. GivenInv' /\ \A k \in Queries : given[k] # Nothing => given'[k] = given[k]
    <3>1. CASE Quotes!Share(<<s, t>>)
      <4>1. PICK k \in Queries : given[k] # Nothing /\ Quotes!Give(<<s, t>>, given[k])
        BY <3>1 DEF Quotes!Share, Quotes!Nothing, Nothing
      <4>2. /\ status[<<s, t>>] # "answered" /\ given[k] \in Observation
            /\ given[k].day \in 1..LastDay
        BY <1>0, <3>1, <4>1 DEF Quotes!Share, GivenInv
      <4> QED
        BY <1>4, <2>2, <4>1, <4>2, GiveKeeps
    <3>2. CASE Quotes!Await(<<s, t>>)
      <4>1. given[<<s, t>>] = Nothing
        BY <1>0, <2>2, <3>2 DEF Quotes!Await, GivenInv
      <4> QED
        BY <1>0, <1>4, <2>2, <3>2, <4>1 DEF Quotes!Await, GivenInv
    <3> QED
      BY <2>1, <3>1, <3>2
  <2> QED
    BY <1>0, <2>2, <2>3, <2>4, MarketKept
<1>5. ASSUME NEW s \in Syncs, Enter(s) \/ Wake(s), clock' = clock
      PROVE  MarketInv'
  <2>1. GivenInv' /\ UNCHANGED <<given, claims, todo, source>>
    BY <1>0, <1>5 DEF Enter, Wake, serviceVars, GivenInv
  <2>2. at' \in [Syncs -> {"new", "running", "waiting", "done", "failed"}]
    BY <1>0, <1>5 DEF Enter, Wake, Go
  <2> QED
    BY <1>0, <2>1, <2>2, MarketKept
<1>6. ASSUME NEW s \in Syncs, Take(s), clock' = clock PROVE MarketInv'
  <2>1. GivenInv' /\ UNCHANGED <<given, claims, source>>
    BY <1>0, <1>6 DEF Take, serviceVars, GivenInv
  <2>2. PICK t \in todo[s] :
          IF given[<<s, t>>] = Nothing
            THEN Go(s, "failed") /\ UNCHANGED todo
            ELSE todo' = [todo EXCEPT ![s] = @ \ {t}] /\ UNCHANGED at
    BY <1>6 DEF Take
  <2>3. at' \in [Syncs -> {"new", "running", "waiting", "done", "failed"}]
    BY <1>0, <2>2 DEF Go
  <2>4. /\ todo' \in [Syncs -> SUBSET Maturities]
        /\ \A r \in Syncs, u \in Tenured :
             u \in todo[r] \ todo'[r] => given'[<<r, u>>] # Nothing
    BY <1>0, <2>1, <2>2
  <2> QED
    BY <2>1, <2>3, <2>4, MarketKept
<1>7. CASE Tick /\ UNCHANGED <<serviceVars, syncVars>>
  <2>1. GivenInv'
    BY <1>0, <1>7, ClockAssumption DEF Tick, serviceVars, GivenInv
  <2> QED
    BY <1>0, <1>7, <2>1, MarketKept DEF serviceVars, syncVars
<1> QED
  BY <1>1, <1>2, <1>3, <1>4, <1>5, <1>6, <1>7, InstallKeeps
     DEF MarketNext, marketVars

LEMMA MarketInitially ==
  ASSUME MarketInit PROVE MarketInv
<1>1. \A s \in Syncs : Tenured \ todo[s] = {}
  BY DEF MarketInit, Tenured
<1> QED
  BY <1>1, MarketTypes, MarketAssumption
     DEF MarketInit, ClockInit, Quotes!ServiceInit, Quotes!Nothing, Nothing,
         MarketInv, GivenInv, FoundInv, SyncedTogether, Tenured

(* The registry never mixes what two syncs were told with each other or    *)
(* with the seed, for any claims, tenors and overlapping syncs.            *)
THEOREM ClaimsAlignedTogether == MarketSpec => []SyncedTogether
<1>1. MarketInit => MarketInv
  BY MarketInitially
<1>2. MarketInv /\ [MarketNext]_marketVars => MarketInv'
  BY MarketStep
<1>3. MarketInv => SyncedTogether
  BY DEF MarketInv
<1> QED
  BY <1>1, <1>2, <1>3, PTL DEF MarketSpec

(* With the gateway's thresholds the lag is a drift at every yield it can  *)
(* be one at, and agreement is never one.                                  *)
LEMMA LagDrifts ==
  ASSUME NEW y \in Nat, DriftPercent = 2, ZeroTolerance = 10
  PROVE  /\ Drifts(Lag(y), y) <=> y > 1
         /\ ~Drifts(y, y)
<1> DEFINE q == (8 * y + 100) \div 200
           d == Larger(40, q)
<1>1. q \in Int /\ 200 * q <= 8 * y + 100 /\ 8 * y + 100 < 200 * q + 200
  OBVIOUS
<1> HIDE DEF q
<1>2. d \in Int /\ d >= 40 /\ d >= q /\ (d = 40 \/ d = q)
  BY <1>1 DEF Larger
<1>3. Lag(y) = Larger(1, y - d)
  BY DEF Lag, q
<1> HIDE DEF d
<1>4. CASE y - d > 1
  <2>1. Lag(y) = y - d
    BY <1>2, <1>3, <1>4 DEF Larger
  <2>2. 100 * d > 2 * y
    BY <1>1, <1>2
  <2> QED
    BY <1>2, <1>4, <2>1, <2>2 DEF Drifts, Distance
<1>5. CASE ~(y - d > 1)
  <2>1. Lag(y) = 1
    BY <1>2, <1>3, <1>5 DEF Larger
  <2> QED
    BY <2>1 DEF Drifts, Distance
<1> QED
  BY <1>4, <1>5

(* After any syncs the one claim that is to fail drifts from what it was   *)
(* aligned with, at any yield above one basis point, and no other does.    *)
THEOREM ScenariosSurvive ==
  ASSUME DriftPercent = 2, ZeroTolerance = 10
  PROVE  MarketSpec => []ScenariosSurviveSync
<1>1. MarketInit => MarketInv
  BY MarketInitially
<1>2. MarketInv /\ [MarketNext]_marketVars => MarketInv'
  BY MarketStep
<1>3. MarketInv => ScenariosSurviveSync
  <2> SUFFICES ASSUME MarketInv, NEW a \in Assets, source[a] # Nothing
               PROVE  LET y == YieldOn(TenorOf[a], source[a])
                      IN  Drifts(claims[a], y) <=> a = Lagging /\ y > 1
    BY DEF ScenariosSurviveSync
  <2> DEFINE y == YieldOn(TenorOf[a], source[a])
  <2>1. claims[a] = Aligned(a, y)
    BY DEF MarketInv
  <2>2. PICK s \in Syncs : source[a] = given[<<s, TenorOf[a]>>]
    BY DEF MarketInv, SyncedTogether
  <2>3. source[a].day \in 1..LastDay /\ TenorOf[a] \in Maturities
    BY <2>2, MarketTypes DEF MarketInv, GivenInv
  <2>4. y \in Nat
    BY <2>3, MarketTypes DEF YieldOn
  <2> HIDE DEF y
  <2>5. Drifts(claims[a], y) <=> a = Lagging /\ y > 1
    BY <2>1, <2>4, LagDrifts DEF Aligned
  <2> QED
    BY <2>5 DEF y
<1> QED
  BY <1>1, <1>2, <1>3, PTL DEF MarketSpec
=============================================================================
