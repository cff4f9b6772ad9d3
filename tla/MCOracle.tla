------------------------------ MODULE MCOracle ------------------------------
(***************************************************************************)
(* Two instances, of which a behaviour has one, and which share nothing    *)
(* but the clock: look-ups that may overlap, over a turn of the year and a *)
(* clock that outlives the TTL; and syncs of the demo's claims over the    *)
(* service that those look-ups are shown to implement.                     *)
(***************************************************************************)
EXTENDS OracleHistory, Market, TLC

CONSTANTS m3, m6, c001, c003, c004

VARIABLE part    \* which of the two

deskVars == <<serviceVars, syncVars>>

BothInit == Init /\ MarketInit /\ part \in {"lookups", "desk"}

BothNext ==
  /\ \/ part = "lookups" /\ Next /\ UNCHANGED deskVars
     \/ part = "desk" /\ MarketNext /\ UNCHANGED <<oracleVars, historyVars>>
  /\ UNCHANGED part

FairBothSpec ==
  /\ BothInit /\ [][BothNext]_<<vars, deskVars, part>>
  /\ \A l \in Lookups : WF_vars(Resume(l))

-----------------------------------------------------------------------------

DemoTenorOf == c001 :> m3 @@ c003 :> m3 @@ c004 :> m6
DemoSeed == c001 :> 400 @@ c003 :> 360 @@ c004 :> 400

(* On the first day the yields are so low, and on the second one of them   *)
(* is so high, that another part of the lag decides.                       *)
DemoYields == m3 :> <<10, 3000>> @@ m6 :> <<0, 1>>
=============================================================================
