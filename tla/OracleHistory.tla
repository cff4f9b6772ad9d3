--------------------------- MODULE OracleHistory ---------------------------
(***************************************************************************)
(* Oracle with what an observer of the look-ups would write down: when     *)
(* each began, what was published then, and what went wrong during it.     *)
(***************************************************************************)
EXTENDS Oracle

VARIABLES
  began,     \* when the look-up began, the newest day published then, and
             \* whether it went to the feed
  faults,    \* how many of its attempts failed in transport, up to 2
  errors     \* whether it met an HTTP error or a document it cannot parse

historyVars == <<began, faults, errors>>
vars == <<clock, oracleVars, historyVars>>

TypeOK ==
  /\ ClockTypeOK
  /\ OracleTypeOK
  /\ began \in [Lookups -> [at : Nat, newest : Nat, fetches : BOOLEAN]]
  /\ faults \in [Lookups -> 0..2]
  /\ errors \in [Lookups -> BOOLEAN]

Init ==
  /\ ClockInit
  /\ OracleInit
  /\ began = [l \in Lookups |-> [at |-> 0, newest |-> 0, fetches |-> FALSE]]
  /\ faults = [l \in Lookups |-> 0]
  /\ errors = [l \in Lookups |-> FALSE]

Begin(l) ==
  /\ Start(l)
  /\ began' = [began EXCEPT ![l] =
       [at |-> clock, newest |-> Newest(tenor[l]),
        fetches |-> ~FreshInCache(tenor[l])]]
  /\ UNCHANGED <<clock, faults, errors>>

Fault(l) ==
  /\ TransportFails(l)
  /\ faults' = [faults EXCEPT ![l] = IF @ < 2 THEN @ + 1 ELSE @]
  /\ UNCHANGED <<clock, began, errors>>

Error(l) ==
  /\ HttpError(l) \/ Abort(l)
  /\ errors' = [errors EXCEPT ![l] = TRUE]
  /\ UNCHANGED <<clock, began, faults>>

(* What the event loop does for a look-up once its request has come to     *)
(* something: a document, an error, or a timeout of the client's.          *)
Resume(l) ==
  \/ Fault(l)
  \/ Error(l)
  \/ (Parse(l) \/ Close(l)) /\ UNCHANGED <<clock, historyVars>>

Next ==
  \/ Tick /\ UNCHANGED <<oracleVars, historyVars>>
  \/ NewYear /\ UNCHANGED <<clock, historyVars>>
  \/ \E t \in Tenors : Publish(t) /\ UNCHANGED <<clock, historyVars>>
  \/ \E l \in Lookups :
       \/ Begin(l)
       \/ Serve(l) /\ UNCHANGED <<clock, historyVars>>
       \/ Resume(l)

Spec == Init /\ [][Next]_vars

(* Every request ends: httpx times out a connection or a read in which     *)
(* nothing comes, and the feed is taken not to send its document byte by   *)
(* byte for ever.                                                          *)
FairSpec == Spec /\ \A l \in Lookups : WF_vars(Resume(l))

(* The service as its callers know it: what is found is given when it is   *)
(* stored, and closing the client is nobody's business.                    *)
StatusOf(l) ==
  CASE pc[l] = "idle" -> "idle"
    [] pc[l] = "fetching" -> "asked"
    [] OTHER -> "answered"

Service == INSTANCE YieldService WITH
  latest <- [t \in Tenors |-> Newest(t)],
  status <- [l \in Lookups |-> StatusOf(l)],
  about <- tenor,
  given <- answer

-----------------------------------------------------------------------------
Answered(l) == pc[l] \in {"closing", "done"} /\ answer[l] # Nothing
GaveUp(l) == pc[l] \in {"closing", "done"} /\ answer[l] = Nothing

(* An observation handed out was fetched no longer before the look-up      *)
(* began than the TTL allows, whoever fetched it and in whatever order     *)
(* concurrent look-ups stored theirs (TTLCache, get_observation).          *)
AnswerIsRecent ==
  \A l \in Lookups :
    Answered(l) => /\ began[l].at <= answer[l].fetched + TTL
                   /\ answer[l].fetched <= clock

(* A look-up whose requests all succeed and that goes to the feed answers  *)
(* with a day at least as new as the newest one published when it began,   *)
(* the turn of the year included (_candidate_urls, parse_yield_curve).     *)
UntroubledAnswerIsNewest ==
  \A l \in Lookups :
    /\ pc[l] \in {"closing", "done"} /\ began[l].fetches
    /\ faults[l] = 0 /\ ~errors[l]
    => answer[l].day >= began[l].newest

(* One transport failure is survived: a look-up without errors gives up    *)
(* only after two of them, and with nothing else wrong it never does,      *)
(* although the new year's document is empty (_fetch, _candidate_urls).    *)
OneFaultIsSurvived ==
  \A l \in Lookups :
    GaveUp(l) => errors[l] \/ faults[l] >= 2

(* Whatever the feed, the network and the cache do, callers see what       *)
(* YieldService promises: nothing is answered but what was fetched while   *)
(* the call waited or what another call of its tenor was given, and no     *)
(* answer changes afterwards (get_observation, TTLCache).                  *)
OracleImplementsService == Service!ServiceSpec

(* Every look-up that begins ends, with an answer or without, and stays    *)
(* ended (_fetch's attempts and the candidate URLs are both finite).       *)
EveryLookupEnds == <>[](\A l \in Lookups : pc[l] \in {"idle", "done"})
=============================================================================
