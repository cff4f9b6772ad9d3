----------------------------- MODULE MCGateway -----------------------------
(***************************************************************************)
(* Clients, keys and administrators for TLC.  Each envelope takes a path   *)
(* of its own through post_intent; they compete for one daily limit.       *)
(***************************************************************************)
EXTENDS Gateway

CONSTANTS a1, i1, n1, n2, n3, k1, k2, f1, h1, h2

Base ==
  [agent |-> a1, nonce |-> n1, amount |-> 2, perDay |-> 3, tier |-> 0,
   issued |-> 0, expires |-> 3, issuer |-> i1, depth |-> 0,
   build |-> h1, prompt |-> h1, flaws |-> {}]

Plain(c) ==
  [of |-> c, signedBy |-> k1, mapped |-> TRUE, downstream |-> FALSE,
   byRegistry |-> FALSE, framework |-> f1]

Buy == Plain(Base)
Again == [Plain([Base EXCEPT !.nonce = n2, !.tier = 1]) EXCEPT !.byRegistry = TRUE]
Ask == Plain([Base EXCEPT !.nonce = n3, !.amount = NoAmount, !.tier = 1])

ServiceEnvelopes ==
  {[Buy EXCEPT !.downstream = TRUE], Again, [Again EXCEPT !.mapped = FALSE]}

IssuerEnvelopes == {Buy, Ask}

(* A build that is replaced, and one confirmed with another prompt.        *)
ServiceBodies ==
  {[framework |-> f1, build |-> h2, agent |-> NoAgent, prompt |-> NoHash],
   [framework |-> f1, build |-> h1, agent |-> a1, prompt |-> h2]}

Sent(envelopes) ==
  {Verified(e, k, observed, attested) :
     e \in envelopes, k \in Keys, observed \in BOOLEAN, attested \in BOOLEAN}

ServiceCalls == Sent(ServiceEnvelopes)
IssuerCalls == Sent(IssuerEnvelopes)
=============================================================================
