---------------------------- MODULE MCDelegation ----------------------------
(***************************************************************************)
(* The small instance of Delegation that TLC checks.  Every dimension of   *)
(* the boundaries is varied alone, its special values included, and the    *)
(* dimensions that share a rule are varied together once.  Some behaviours *)
(* are instead of the directory that a passport, and with it the first     *)
(* hop of every chain, is kept in; the two share nothing.                  *)
(***************************************************************************)
EXTENDS Delegation, Passport

CONSTANTS p, a, buy, sell, bond, bill, us, eu

VARIABLE part    \* which of the two

BothInit == Init /\ PassportInit /\ part \in {"chain", "directory"}

BothNext ==
  /\ \/ part = "chain" /\ Next /\ UNCHANGED passportVars
     \/ part = "directory" /\ PassportNext /\ UNCHANGED vars
  /\ UNCHANGED part

BothSpec == BothInit /\ [][BothNext]_<<vars, passportVars, part>>

-----------------------------------------------------------------------------

MCIds == {p, a}

Free ==
  [allowed |-> {}, denied |-> {}, perTransaction |-> 0, perDay |-> 0,
   geo |-> {}, classes |-> {}, window |-> None]

MCGrants ==
  {Free}
  \cup {[Free EXCEPT !.allowed = s] : s \in {{buy}, {buy, sell}}}
  \cup {[Free EXCEPT !.denied = {buy}]}
  \cup {[Free EXCEPT !.perTransaction = 1], [Free EXCEPT !.perTransaction = 2]}
  \cup {[Free EXCEPT !.perDay = 2]}
  \cup {[Free EXCEPT !.geo = s] : s \in {{us}, {Blank}, {us, Blank}}}
  \cup {[Free EXCEPT !.classes = {bond}]}
  \cup {[Free EXCEPT !.window = [start |-> 0, end |-> 1]],
        [Free EXCEPT !.window = [start |-> 1, end |-> 1]]}
  \cup {[Free EXCEPT !.allowed = {sell}, !.denied = {buy}, !.perDay = 2,
                     !.perTransaction = 2, !.geo = {us}]}

MCRequests ==
  [action : {buy, sell}, amount : {None, 1, 2}, spent : {0, 1},
   geo : {None, us, eu}, class : {None, bond, bill}]

MCActions == {buy, sell}
MCClasses == {bond, bill}
MCPlaces == {us, eu}
=============================================================================
