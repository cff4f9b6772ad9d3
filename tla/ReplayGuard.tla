---------------------------- MODULE ReplayGuard ----------------------------
(***************************************************************************)
(* What the replay cache promises, with no cache in it.                    *)
(*                                                                         *)
(* `accepted` is every acceptance there ever was, oldest first.  A nonce   *)
(* is remembered while one of its acceptances is both younger than the     *)
(* retention period and among the last MaxNonces.  It is accepted exactly  *)
(* when it is not remembered, and `reply` is the caller's answer.  The     *)
(* cache that RevocationStore keeps is shown to implement this.            *)
(***************************************************************************)
EXTENDS Naturals, Sequences

CONSTANTS Nonces, NonceTTL, MaxNonces, MaxClock

VARIABLES clock, accepted, reply

guardVars == <<clock, accepted, reply>>

Remembered(n) ==
  \E i \in 1..Len(accepted) :
     /\ accepted[i].nonce = n
     /\ accepted[i].at + NonceTTL > clock
     /\ i + MaxNonces > Len(accepted)

GuardInit == clock = 0 /\ accepted = <<>> /\ reply = "none"

Pass == clock < MaxClock /\ clock' = clock + 1 /\ UNCHANGED <<accepted, reply>>

Accept(n) ==
  /\ ~Remembered(n)
  /\ accepted' = Append(accepted, [nonce |-> n, at |-> clock])
  /\ reply' = "new"
  /\ UNCHANGED clock

Refuse(n) ==
  /\ Remembered(n)
  /\ reply' = "replay"
  /\ UNCHANGED <<clock, accepted>>

Forget == accepted' = <<>> /\ UNCHANGED <<clock, reply>>

GuardNext == Pass \/ Forget \/ \E n \in Nonces : Accept(n) \/ Refuse(n)

GuardSpec == GuardInit /\ [][GuardNext]_guardVars
=============================================================================
