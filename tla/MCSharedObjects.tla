-------------------------- MODULE MCSharedObjects --------------------------
(***************************************************************************)
(* The small instance of StoreHistory and of LedgerHistory that TLC checks:*)
(* the two objects every request shares, a behaviour being of one or of    *)
(* the other, for they share nothing but the clock.  The store has three   *)
(* nonces and a cache of two, so that a nonce is pushed out by pressure    *)
(* before it is out of retention, and enough ticks for expiry,             *)
(* reacceptance and a second expiry.  The ledger has three tokens, amounts *)
(* that fill a limit exactly or exceed it by one, and a clock that         *)
(* outlives two days.                                                      *)
(***************************************************************************)
EXTENDS StoreHistory, LedgerHistory, TLC

VARIABLE part    \* which of the two

ledgerVars == <<trustVars, kept, told>>

BothInit == Init /\ LedgerInit /\ part \in {"store", "ledger"}

BothNext ==
  /\ \/ part = "store" /\ Next /\ UNCHANGED ledgerVars
     \/ part = "ledger" /\ LedgerNext /\ UNCHANGED <<storeVars, historyVars>>
  /\ UNCHANGED part

BothSpec == BothInit /\ [][BothNext]_<<vars, ledgerVars, part>>

ObjectSymmetry == Permutations(Nonces) \cup Permutations(Tokens)
=============================================================================
