----------------------------- MODULE Attestation -----------------------------
(***************************************************************************)
(* Proofs of completed returns and the reputation of wallets               *)
(* (attest_settlement).  An attestation is an account of its own, at an    *)
(* address made of a bounty and a claim; anybody may pay for it, once, any *)
(* time after the settlement.  The app bundles it with every settlement it *)
(* sends; other clients need not.  The reputation of a wallet adds up over *)
(* its bounties, in counters that refuse to overflow.  What settles a      *)
(* claim is the business of Escrow: here a claim is open or settled.       *)
(***************************************************************************)
EXTENDS Integers, FiniteSets

CONSTANTS
  Parties, Bounties,
  Rewards,      \* amounts a bounty may offer
  MaxReturns,   \* 2^32 - 1 in the code
  MaxTokens     \* 2^64 - 1 in the code

Nobody == "nobody"

ASSUME AttestationAssumption ==
  /\ Nobody \notin Parties
  /\ Rewards \subseteq Nat /\ MaxReturns \in Nat /\ MaxTokens \in Nat

VARIABLES
  listed,        \* the bounties' owner, reward, protocol and finder
  opened, settled,  \* claims: a bounty and a finder
  attested,      \* claims that have an attestation
  reputation

attestVars == <<listed, opened, settled, attested, reputation>>

Unlisted == [owner |-> Nobody, reward |-> 0, protocol |-> 0, finder |-> Nobody]

AttestInit ==
  /\ listed = [b \in Bounties |-> Unlisted]
  /\ opened = {}
  /\ settled = {}
  /\ attested = {}
  /\ reputation = [w \in Parties |-> [returns |-> 0, earned |-> 0, paid |-> 0]]

List(b) ==
  /\ listed[b] = Unlisted
  /\ \E w \in Parties, r \in Rewards, version \in {1, 2} :
       listed' = [listed EXCEPT ![b] = [Unlisted EXCEPT
                    !.owner = w, !.reward = r, !.protocol = version]]
  /\ UNCHANGED <<opened, settled, attested, reputation>>

\* A claim of protocol 2 by somebody else; several may be open.
OpenClaim(b, f) ==
  /\ listed[b].protocol = 2 /\ listed[b].finder = Nobody
  /\ f # listed[b].owner
  /\ opened' = opened \cup {<<b, f>>}
  /\ UNCHANGED <<listed, settled, attested, reputation>>

\* A settlement of either protocol names the finder; only one of protocol 2
\* leaves a settled claim.
Settlement(b, f) ==
  /\ listed[b] # Unlisted /\ listed[b].finder = Nobody
  /\ f # listed[b].owner
  /\ listed[b].protocol = 2 => <<b, f>> \in opened
  /\ listed' = [listed EXCEPT ![b].finder = f]
  /\ settled' = IF listed[b].protocol = 2 THEN settled \cup {<<b, f>>} ELSE settled
  /\ UNCHANGED opened

-----------------------------------------------------------------------------

MutExists(b, f) == FALSE

\* An account cannot be created twice.
Exists(b, f) == <<b, f>> \in attested

\* checked_add fails the whole instruction.
WithReturn(r, amount, earned) ==
  [returns |-> r.returns + 1,
   earned  |-> IF earned THEN r.earned + amount ELSE r.earned,
   paid    |-> IF earned THEN r.paid ELSE r.paid + amount]
InRange(r) ==
  r.returns <= MaxReturns /\ r.earned <= MaxTokens /\ r.paid <= MaxTokens

UpdateReputation(owner, finder, amount) ==
  LET paying  == WithReturn(reputation[owner], amount, FALSE)
      earning == WithReturn(reputation[finder], amount, TRUE)
  IN  /\ InRange(paying) /\ InRange(earning)
      /\ reputation' = [reputation EXCEPT ![owner] = paying, ![finder] = earning]

AttestSettlement(b, f) ==
  /\ <<b, f>> \in settled
  /\ listed[b].protocol >= 2
  /\ listed[b].finder = f
  /\ ~Exists(b, f)
  /\ UpdateReputation(listed[b].owner, f, listed[b].reward)
  /\ attested' = attested \cup {<<b, f>>}
  /\ UNCHANGED <<listed, opened, settled>>

\* Another client, or the app for a claim of protocol 1.
Settle(b, f) ==
  /\ Settlement(b, f)
  /\ UNCHANGED <<attested, reputation>>

\* The app's transactions that settle a claim of protocol 2: both
\* instructions, or neither.
SettleAndAttest(b, f) ==
  /\ listed[b].protocol = 2
  /\ Settlement(b, f)
  /\ ~Exists(b, f)
  /\ UpdateReputation(listed[b].owner, f, listed[b].reward)
  /\ attested' = attested \cup {<<b, f>>}

AttestNext ==
  \E b \in Bounties :
    \/ List(b)
    \/ \E f \in Parties : \/ OpenClaim(b, f) \/ AttestSettlement(b, f)
                          \/ Settle(b, f) \/ SettleAndAttest(b, f)

-----------------------------------------------------------------------------
(* Properties.                                                             *)

Sold(w)   == {a \in attested : listed[a[1]].owner = w}
Helped(w) == {a \in attested : a[2] = w}
\* The tokens that were paid for some claims, one by one.
Tokens(claims) == UNION {{a} \X (1..listed[a[1]].reward) : a \in claims}
Total(claims)  == Cardinality(Tokens(claims))

\* Whoever attests, whenever and however often it is tried, a wallet's
\* reputation is the account of its attested returns, and every attestation
\* vouches for a payment that the bounty made to that finder.
ReputationMatchesAttestations ==
  /\ \A w \in Parties : reputation[w] =
       [returns |-> Cardinality(Sold(w)) + Cardinality(Helped(w)),
        earned  |-> Total(Helped(w)),
        paid    |-> Total(Sold(w))]
  /\ \A a \in attested : listed[a[1]].finder = a[2]
=============================================================================
