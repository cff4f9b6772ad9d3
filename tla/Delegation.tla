----------------------------- MODULE Delegation -----------------------------
(***************************************************************************)
(* custos_protocol/delegation.py: a chain of hops hands authority from the *)
(* principal to the agent, and check_delegation, step 10 at Tier 2, tells  *)
(* whether every hop is live and narrows what the hop before it granted.   *)
(*                                                                         *)
(* The chain arrives in the envelope; `chain` grows by one hop at a time,  *)
(* made by anyone, for anyone, with any boundaries and any dates, while    *)
(* time passes between the hops.                                           *)
(***************************************************************************)
EXTENDS Boundaries, Clock, Sequences

CONSTANTS
  Ids,          \* principals and agents
  Grants,       \* boundaries a hop or an envelope may declare
  Requests,     \* requests an agent may make
  Skew,         \* clock_skew_seconds
  MaxDepth,     \* max_delegation_depth
  Lifetimes,    \* how long after its grant a hop expires, or None
  Leads,        \* how far ahead a hop's clock may be when it is granted
  MaxLinks      \* bound on the chains built here

ASSUME DelegationAssumption ==
  /\ Grants \subseteq Boundary
  /\ Requests \subseteq Request
  /\ {Skew, MaxDepth, MaxLinks} \subseteq Nat
  /\ Lifetimes \subseteq Nat \cup {None} /\ Leads \subseteq Nat

VARIABLE chain   \* principal.delegation_chain

vars == <<clock, chain>>

Link ==
  [from : Ids, to : Ids, granted : Nat, expires : Nat \cup {None},
   boundaries : Grants]

TypeOK == ClockTypeOK /\ chain \in Seq(Link)

-----------------------------------------------------------------------------
(* Mutant: takes a child without a limit for the tightest of all.          *)
MutantLimitContained(child, parent) == parent = 0 \/ child <= parent
(* A child without a limit, 0, is contained in no limited parent.          *)
LimitContained(child, parent) ==
  parent = 0 \/ (0 < child /\ child <= parent)

(* allowed_actions and asset_classes: an empty list restricts nothing.     *)
ListContained(child, parent) ==
  parent = {} \/ (child # {} /\ child \subseteq parent)

(* _geo_set drops blank parts, yet only an empty string is unrestricted.   *)
GeoContained(child, parent) ==
  parent = {} \/ (child # {} /\ child \ {Blank} \subseteq parent \ {Blank})

(* Mutant: a window must lie strictly inside its parent.                   *)
MutantWindowContained(child, parent) ==
  \/ parent = None
  \/ /\ child # None
     /\ parent.start < child.start /\ child.end < parent.end
WindowContained(child, parent) ==
  \/ parent = None
  \/ /\ child # None
     /\ parent.start <= child.start /\ child.end <= parent.end

(* _containment_violation(child, parent) is None.                          *)
Contained(child, parent) ==
  /\ ListContained(child.allowed, parent.allowed)
  /\ parent.denied \subseteq child.denied
  /\ LimitContained(child.perTransaction, parent.perTransaction)
  /\ LimitContained(child.perDay, parent.perDay)
  /\ GeoContained(child.geo, parent.geo)
  /\ ListContained(child.classes, parent.classes)
  /\ WindowContained(child.window, parent.window)

-----------------------------------------------------------------------------
Continuous(c) == \A i \in 1..Len(c) - 1 : c[i].to = c[i + 1].from

LinkLive(l, now) ==
  /\ l.expires = None \/ l.expires >= now
  /\ l.granted <= now + Skew

Narrowing(c) ==
  \A i \in 1..Len(c) - 1 : Contained(c[i + 1].boundaries, c[i].boundaries)

(* check_delegation of an envelope with boundaries b returns None.         *)
Accepted(principal, agent, c, b, now) ==
  \/ c = <<>> /\ principal = agent
  \/ /\ c # <<>> /\ Len(c) <= MaxDepth
     /\ c[1].from = principal /\ c[Len(c)].to = agent
     /\ Continuous(c)
     /\ \A i \in 1..Len(c) : LinkLive(c[i], now)
     /\ Narrowing(c)
     /\ Contained(b, c[Len(c)].boundaries)

-----------------------------------------------------------------------------
Init == ClockInit /\ chain = <<>>

Delegate(from, to, b, lifetime, lead) ==
  /\ Len(chain) < MaxLinks
  /\ chain' = Append(chain,
       [from |-> from, to |-> to, granted |-> clock + lead, boundaries |-> b,
        expires |-> IF lifetime = None THEN None ELSE clock + lifetime])
  /\ UNCHANGED clock

Next ==
  \/ Tick /\ UNCHANGED chain
  \/ \E from, to \in Ids, b \in Grants, lifetime \in Lifetimes, lead \in Leads :
       Delegate(from, to, b, lifetime, lead)

Spec == Init /\ [][Next]_vars

-----------------------------------------------------------------------------
(* Along a chain that is accepted authority only shrinks: whatever the     *)
(* envelope's own boundaries permit (check_boundaries), the boundaries of  *)
(* every hop permit, however far up (check_delegation).  Special values    *)
(* are the hazard: no limit, an empty list, a blank place, no window.      *)
AuthorityOnlyNarrows ==
  \A principal, agent \in Ids, b \in Grants :
    Accepted(principal, agent, chain, b, clock) =>
      \A q \in Requests :
        Permits(b, q, clock) =>
          \A i \in 1..Len(chain) : Permits(chain[i].boundaries, q, clock)

(* A hop made the careful way: it takes what it holds and adds further     *)
(* restrictions r of its own.  Lists hold together in what both name,      *)
(* limits in the lower one, windows in their overlap.  Two lists without   *)
(* a common member leave an empty one, and that would restrict nothing.    *)
Jointly(s, t) == IF s = {} THEN t ELSE IF t = {} THEN s ELSE s \cap t
Compatible(s, t) == s = {} \/ t = {} \/ s \cap t # {}

LowerLimit(m, n) == IF m = 0 \/ (0 < n /\ n < m) THEN n ELSE m

Overlap(v, w) ==
  IF v = None THEN w
  ELSE IF w = None THEN v
  ELSE [start |-> IF v.start < w.start THEN w.start ELSE v.start,
        end |-> IF w.end < v.end THEN w.end ELSE v.end]

Restricted(b, r) ==
  [allowed |-> Jointly(b.allowed, r.allowed), denied |-> b.denied \cup r.denied,
   perTransaction |-> LowerLimit(b.perTransaction, r.perTransaction),
   perDay |-> LowerLimit(b.perDay, r.perDay),
   geo |-> Jointly(b.geo, r.geo), classes |-> Jointly(b.classes, r.classes),
   window |-> Overlap(b.window, r.window)]

HandsOn(parent, child) ==
  \E r \in Grants :
    /\ Compatible(parent.allowed, r.allowed)
    /\ Compatible(parent.geo, r.geo)
    /\ Compatible(parent.classes, r.classes)
    /\ child = Restricted(parent, r)

(* The check refuses nobody without a reason: when every hop, and at the   *)
(* end the envelope, takes the boundaries it was handed and only adds      *)
(* restrictions to them, and every hop is live, the chain is accepted,     *)
(* whatever the boundaries and however many hops (check_delegation).       *)
FaithfulChainAccepted ==
  /\ chain # <<>> /\ Len(chain) <= MaxDepth /\ Continuous(chain)
  /\ \A i \in 1..Len(chain) :
       /\ chain[i].expires # None => chain[i].expires >= clock
       /\ chain[i].granted <= clock + Skew
  /\ \A i \in 1..Len(chain) - 1 :
       HandsOn(chain[i].boundaries, chain[i + 1].boundaries)
  => \A b \in Grants :
       HandsOn(chain[Len(chain)].boundaries, b)
       => Accepted(chain[1].from, chain[Len(chain)].to, chain, b, clock)
=============================================================================
