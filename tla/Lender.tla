------------------------------- MODULE Lender -------------------------------
(***************************************************************************)
(* The gateway together with who relies on it: the signed records of       *)
(* custos_protocol/attestation.py, and demo/mock_lender.py, the reference  *)
(* for a downstream service.                                               *)
(*                                                                         *)
(* An attestation is good at the lender until it expires, whatever becomes *)
(* of the agent, and only under the key the lender has pinned.  A lender   *)
(* gets it from the gateway or, after an answer, from the client, and at   *)
(* any later time: the delay in between is the network's.                  *)
(***************************************************************************)
EXTENDS Gateway

CONSTANTS
  ValidFor,      \* ATTESTATION_TTL_SECONDS
  NoPin,         \* no pinned key
  Configured,    \* CUSTOS_PRIVATE_KEY is set: restarts keep the signing key
  MaxLoans,      \* bound on the loans after which a client presents no more
  Unsigned       \* no attestation

(* The key an attestation is signed with, and the last moment it is good.  *)
Proof == [key : Nat, expires : Nat]

ASSUME LenderAssumption ==
  /\ {ValidFor, MaxLoans} \subseteq Nat /\ Configured \in BOOLEAN
  /\ NoPin \notin Nat /\ Unsigned \notin Proof

VARIABLES
  proofs,    \* the attestation signed for each request
  pinned,    \* the lender's CUSTOS_GATEWAY_PUBKEY
  loans,     \* how many the lender has made on each attestation
  clear      \* history: when each subject was last not barred

lenderVars == <<proofs, pinned, loans>>
allVars == <<gatewayVars, lenderVars, clear>>

(* A key is known by the life of the process it was made in.               *)
SigningKey == IF Configured THEN 0 ELSE restarts

LenderTypeOK ==
  /\ proofs \in [Requests -> Proof \cup {Unsigned}]
  /\ pinned \in Nat \cup {NoPin}
  /\ loans \in [Requests -> Nat]
  /\ clear \in [Subjects -> Nat]

LenderInit ==
  /\ GatewayInit
  /\ proofs = [r \in Requests |-> Unsigned]
  /\ pinned = NoPin
  /\ loans = [r \in Requests |-> 0]
  /\ clear = [s \in Subjects |-> 0]

Observe ==
  clear' = [s \in Subjects |-> IF Live(s)' THEN clear[s] ELSE clock']

-----------------------------------------------------------------------------
(* sign_attestation, in the step after the verdict: issued_at is read anew. *)
Sign(r) ==
  /\ Conclude(r)
  /\ proofs' = [proofs EXCEPT ![r] =
       IF Allowed(r) THEN [key |-> SigningKey, expires |-> clock + ValidFor] ELSE @]
  /\ UNCHANGED <<pinned, loans>>

(* Mutant: the lender does not look at the time.                           *)
MutantAccepts(r) ==
  /\ proofs[r] # Unsigned
  /\ pinned # NoPin
  /\ proofs[r].key = pinned
(* The five checks.  A denial, which has no expires_at, ends in an error.  *)
Accepts(r) ==
  /\ proofs[r] # Unsigned
  /\ pinned # NoPin
  /\ proofs[r].key = pinned
  /\ proofs[r].expires >= clock

(* It keeps nothing: an attestation that comes again is accepted again.    *)
Lend(r) ==
  /\ Accepts(r)
  /\ loans' = [loans EXCEPT ![r] = @ + 1]
  /\ UNCHANGED <<proofs, pinned>>
Decline(r) == ~Accepts(r) /\ UNCHANGED lenderVars

(* What was forwarded; and what a client presents, once or again: it has   *)
(* its attestation from an answer that says it was attested only,          *)
(* forwarded too, or could not be.  A refusal changes nothing.             *)
Consider(r) == Deal(r) /\ (Lend(r) \/ Decline(r))

Present(r) ==
  /\ answer[r] \in {"attested", "forwarded", "unreachable"}
  /\ loans[r] < MaxLoans
  /\ Lend(r)
  /\ UNCHANGED gatewayVars

(* The lender is started once, with the key GET /v1/pubkey has by then.    *)
Pin ==
  /\ pinned = NoPin /\ pinned' = SigningKey
  /\ UNCHANGED <<gatewayVars, proofs, loans>>

(* Everything else the gateway does.                                       *)
Serve ==
  /\ \/ TimePasses
     \/ Restart
     \/ \E a \in Agents, k \in Keys : Register(a, k)
     \/ \E s \in Targets : CreateRevocation(s) \/ DeleteRevocation(s)
     \/ \E f \in Frameworks : RegisterFramework(f)
     \/ \E b \in Bodies : RegisterHashes(b)
     \/ \E r \in Requests :
          \/ \E e \in Envelopes : Arrive(r, e)
          \/ Resume(r) \/ Proceed(r) \/ Forwarded(r) \/ Unreachable(r)
  /\ UNCHANGED lenderVars

LenderNext ==
  /\ Serve \/ Pin \/ \E r \in Requests : Sign(r) \/ Consider(r) \/ Present(r)
  /\ Observe

LenderSpec == LenderInit /\ [][LenderNext]_allVars

FairLenderSpec == LenderSpec /\ GatewayFairness

-----------------------------------------------------------------------------
(* An order of the operator reaches those who rely on the gateway within   *)
(* the life of an attestation: whatever was in flight, timed out or held   *)
(* back by a client, no loan, the first on its attestation or another, is  *)
(* made later than ValidFor after its agent, and above Tier 0 its issuer,  *)
(* was last free of orders (create_revocation, post_intent,                *)
(* sign_attestation, loan).                                                *)
KillSwitchReachesLender ==
  [][\A r \in Requests : loans'[r] > loans[r] =>
       \A s \in Subjects \cap {call[r].agent, call[r].issuer} :
         clock <= clear[s] + ValidFor]_allVars

(* Money that may have moved is money the ledger counts: whatever was sent *)
(* or lent stays on the ledger of its agent when the gateway reports the   *)
(* service unreachable, or a lender says no, until a later request of the  *)
(* agent prunes it a day after (post_intent, forward, ConnectionError).    *)
(* It is counted once: a second loan on the same attestation is not.       *)
Lent == {r \in Requests : loans[r] > 0}

SentMoneyStaysCounted ==
  \A r \in posted \cup Lent : Done(r) /\ HasAmount(call[r]) =>
    \/ EntryOf(r) \in ledger[call[r].agent]
    \/ \E q \in Requests :
         PastReserve(q) /\ call[q].agent = call[r].agent /\ now[q] >= now[r] + Day
=============================================================================
