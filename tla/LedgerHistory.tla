--------------------------- MODULE LedgerHistory ---------------------------
(***************************************************************************)
(* The ledger half of TrustEngine under any number of callers, with what   *)
(* an auditor would have written down: every reservation granted and not   *)
(* released (`kept`, never pruned) and the last answer.  Both record and   *)
(* never steer.  Callers read the clock before they take the lock; MaxLag  *)
(* bounds how far behind the clock a caller's `now` may be.  At 0 callers  *)
(* arrive in the order they read the clock, and the ledger implements      *)
(* SpendWindow.                                                            *)
(***************************************************************************)
EXTENDS TrustEngine, Clock

CONSTANTS
  Amounts,   \* amounts requests carry
  Limits,    \* per-day limits requests carry, 0 for none
  MaxLag     \* bound on clock - now

ASSUME LagAssumption ==
  Amounts \subseteq Nat /\ Limits \subseteq Nat /\ MaxLag \in Nat

VARIABLES
  kept,      \* reservations granted and not released
  told      \* what reserve_amount or day_total last returned, and the limit

recordVars == <<clock, trustVars, kept, told>>

(* The type of `before` is left out: it is a Total.                        *)
LedgerTypeOK ==
  /\ ClockTypeOK
  /\ TrustTypeOK
  /\ kept \in [Agents -> SUBSET Entry]
  /\ DOMAIN told = {"granted", "before", "limit"}
  /\ told.granted \in BOOLEAN /\ told.limit \in Nat

LedgerInit ==
  /\ ClockInit
  /\ TrustInit
  /\ kept = [a \in Agents |-> {}]
  /\ told = [granted |-> FALSE, before |-> 0, limit |-> 0]

Nows == {t \in 0..clock : t + MaxLag >= clock}

New(token) == \A a \in Agents : \A e \in kept[a] : e.token # token

Keep(a, token, amount, at) ==
  kept' = [kept EXCEPT ![a] =
             @ \cup {[token |-> token, at |-> at, amount |-> amount]}]

Answer(a, granted, limit, at) ==
  told' =
    [granted |-> granted, before |-> Total(Fresh(a, at)), limit |-> limit]

Reserve(a, token, amount, limit, at) ==
  /\ New(token)
  /\ ReserveAmount(a, token, amount, limit, at)
  /\ \/ /\ Fits(a, amount, limit, at)
        /\ Keep(a, token, amount, at)
        /\ Answer(a, TRUE, limit, at)
     \/ /\ ~Fits(a, amount, limit, at)
        /\ Answer(a, FALSE, limit, at)
        /\ UNCHANGED kept
  /\ UNCHANGED clock

Record(a, token, amount, at) ==
  /\ New(token)
  /\ RecordAmount(a, token, amount, at)
  /\ Keep(a, token, amount, at)
  /\ UNCHANGED <<clock, told>>

Release(a, token) ==
  /\ ReleaseAmount(a, token)
  /\ kept' = [kept EXCEPT ![a] = {e \in @ : e.token # token}]
  /\ UNCHANGED <<clock, told>>

Ask(a, at) == DayTotal(a, at) /\ Answer(a, FALSE, 0, at) /\ UNCHANGED <<clock, kept>>

LedgerNext ==
  \/ Tick /\ UNCHANGED <<trustVars, kept, told>>
  \/ \E a \in Agents :
       \/ \E at \in Nows : Ask(a, at)
       \/ \E token \in Tokens :
            \/ Release(a, token)
            \/ \E at \in Nows, amount \in Amounts :
                 \/ Record(a, token, amount, at)
                 \/ \E limit \in Limits : Reserve(a, token, amount, limit, at)

LedgerSpec == LedgerInit /\ [][LedgerNext]_recordVars

-----------------------------------------------------------------------------
(* SpendWindow's ledger is what the auditor kept, pruned of nothing.       *)
Window == INSTANCE SpendWindow WITH
  Agents <- Agents, Tokens <- Tokens, Amounts <- Amounts, Limits <- Limits,
  Day <- Day, MaxClock <- MaxClock, Total <- Total,
  clock <- clock, kept <- kept, reply <- told

(* While callers arrive in clock order, pruning the ledger in place never  *)
(* changes an answer: an amount is granted exactly when the day's          *)
(* unreleased reservations leave room for it, and the total reported is    *)
(* theirs (_prune_locked, reserve_amount, release_amount).                 *)
LedgerImplementsWindow == Window!WindowSpec

(* The ledger holds only reservations nobody released, and every one that  *)
(* is still inside the day; release cannot reach another caller's entry.   *)
LedgerIsRecentPart ==
  \A a \in Agents :
    /\ ledger[a] \subseteq kept[a]
    /\ \A e \in kept[a] : e.at + Day > clock => e \in ledger[a]
=============================================================================
