---------------------------- MODULE SpendWindow ----------------------------
(***************************************************************************)
(* What the per-day ledger promises, with no pruning in it.                *)
(*                                                                         *)
(* `kept` holds, for every agent, each reservation ever granted and not    *)
(* released since.  Those younger than a day are the agent's spend; a      *)
(* further amount is granted exactly when spend and amount stay within the *)
(* limit the caller gave (0 is no limit), and the caller is always told    *)
(* the spend before its own amount.  `reply` is the last answer, with the  *)
(* limit it was given under.  The ledger TrustEngine prunes in place is    *)
(* shown to implement this while callers read the clock in order.          *)
(***************************************************************************)
EXTENDS Naturals

CONSTANTS Agents, Tokens, Amounts, Limits, Day, MaxClock, Total(_)

VARIABLES clock, kept, reply

windowVars == <<clock, kept, reply>>

Spend(a) == {e \in kept[a] : e.at + Day > clock}

Within(a, amount, limit) == limit = 0 \/ Total(Spend(a)) + amount <= limit

Issued(token) == \E a \in Agents : \E e \in kept[a] : e.token = token

WindowInit ==
  /\ clock = 0
  /\ kept = [a \in Agents |-> {}]
  /\ reply = [granted |-> FALSE, before |-> 0, limit |-> 0]

Pass == clock < MaxClock /\ clock' = clock + 1 /\ UNCHANGED <<kept, reply>>

Grant(a, token, amount) ==
  /\ ~Issued(token)
  /\ kept' = [kept EXCEPT ![a] =
                @ \cup {[token |-> token, at |-> clock, amount |-> amount]}]
  /\ UNCHANGED clock

Answer(a, granted, limit) ==
  reply' = [granted |-> granted, before |-> Total(Spend(a)), limit |-> limit]

(* reserve_amount, granted or refused; record_amount, which never asks.    *)
Reserve(a, token, amount, limit) ==
  Within(a, amount, limit) /\ Grant(a, token, amount) /\ Answer(a, TRUE, limit)

Refuse(a, amount, limit) ==
  ~Within(a, amount, limit) /\ Answer(a, FALSE, limit) /\ UNCHANGED <<clock, kept>>

Record(a, token, amount) == Grant(a, token, amount) /\ UNCHANGED reply

Release(a, token) ==
  /\ kept' = [kept EXCEPT ![a] = {e \in @ : e.token # token}]
  /\ UNCHANGED <<clock, reply>>

Ask(a) == Answer(a, FALSE, 0) /\ UNCHANGED <<clock, kept>>

WindowNext ==
  \/ Pass
  \/ \E a \in Agents :
       \/ Ask(a)
       \/ \E amount \in Amounts, limit \in Limits : Refuse(a, amount, limit)
       \/ \E token \in Tokens :
            \/ Release(a, token)
            \/ \E amount \in Amounts :
                 \/ Record(a, token, amount)
                 \/ \E limit \in Limits : Reserve(a, token, amount, limit)

WindowSpec == WindowInit /\ [][WindowNext]_windowVars
=============================================================================
