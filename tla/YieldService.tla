---------------------------- MODULE YieldService ----------------------------
(***************************************************************************)
(* What get_observation promises whoever awaits it, without URLs, retries, *)
(* documents or a cache: an answer that is fetched while it waits, or one  *)
(* that another call was given no longer ago than the TTL, or None.        *)
(***************************************************************************)
EXTENDS Clock, Yields

CONSTANTS
  Lookups,      \* get_observation calls, one each
  Tenors        \* TENOR_FIELDS

VARIABLES
  latest,   \* the newest day published for each tenor
  status,   \* of a look-up
  about,    \* its tenor
  given     \* what it returned

serviceVars == <<latest, status, about, given>>

ServiceTypeOK ==
  /\ latest \in [Tenors -> Nat]
  /\ status \in [Lookups -> {"idle", "asked", "answered"}]
  /\ about \in [Lookups -> Tenors]
  /\ given \in [Lookups -> Observation]

ServiceInit ==
  /\ latest = [t \in Tenors |-> 1]
  /\ status = [l \in Lookups |-> "idle"]
  /\ about \in [Lookups -> Tenors]
  /\ given = [l \in Lookups |-> Nothing]

Advance(t) ==
  /\ latest[t] < LastDay
  /\ latest' = [latest EXCEPT ![t] = @ + 1]
  /\ UNCHANGED <<status, about, given>>

Give(l, o) ==
  /\ status' = [status EXCEPT ![l] = "answered"]
  /\ given' = [given EXCEPT ![l] = o]
  /\ UNCHANGED <<latest, about>>

(* Without waiting: what was fetched for somebody else.                    *)
Share(l) ==
  /\ status[l] = "idle"
  /\ \E k \in Lookups :
       /\ status[k] = "answered" /\ about[k] = about[l] /\ given[k] # Nothing
       /\ clock <= given[k].fetched + TTL
       /\ Give(l, given[k])

Await(l) ==
  /\ status[l] = "idle"
  /\ status' = [status EXCEPT ![l] = "asked"]
  /\ UNCHANGED <<latest, about, given>>

Reply(l) ==
  /\ status[l] = "asked"
  /\ \E day \in 0..latest[about[l]] :
       Give(l, IF day = 0 THEN Nothing ELSE [day |-> day, fetched |-> clock])

ServiceNext ==
  \/ Tick /\ UNCHANGED serviceVars
  \/ /\ \/ \E t \in Tenors : Advance(t)
        \/ \E l \in Lookups : Share(l) \/ Await(l) \/ Reply(l)
     /\ UNCHANGED clock

ServiceSpec == ClockInit /\ ServiceInit /\ [][ServiceNext]_<<clock, serviceVars>>
=============================================================================
