---------------------------- MODULE LegacyEscrow ----------------------------
(***************************************************************************)
(* One protocol-v1 bounty of the findback program: the bounty account      *)
(* itself holds the only claim (finder, review, dispute), so a bounty is   *)
(* occupied by one finder at a time.  It shares the accounts, the vault    *)
(* and the funding, cancel and refund instructions of module Bounty.       *)
(***************************************************************************)
EXTENDS Bounty

CONSTANT Finders        \* the wallets that submit claims in the instance

ASSUME LegacyAssumption == Finders \subseteq Wallets \ {Owner}

Claimed == {"ClaimSubmitted", "AiReviewed"}

SubmitClaim(f) ==
    /\ bounty.protocol_version < 2
    /\ bounty.status = "Funded"
    /\ bounty.amount_funded >= bounty.reward_amount
    /\ now <= bounty.deadline
    /\ f # Owner                                       \* OwnerCannotClaim
    /\ bounty' = [bounty EXCEPT !.finder = f, !.status = "ClaimSubmitted"]
    /\ UNCHANGED <<vault, tokens, now>>

RecordAiReview(signer) ==
    /\ signer = bounty.arbiter                          \* has_one
    /\ bounty.protocol_version < 2
    /\ bounty.status \in Claimed
    /\ bounty' = [bounty EXCEPT !.status = "AiReviewed"]
    /\ UNCHANGED <<vault, tokens, now>>

MutAcceptKeepsFunded(signer) ==
    /\ signer = Owner
    /\ bounty.protocol_version < 2
    /\ bounty.status \in Claimed
    /\ bounty.amount_funded >= bounty.reward_amount
    /\ TransferFromVault(bounty.finder, bounty.reward_amount)
    /\ bounty' = [bounty EXCEPT !.status = "Released"]
    /\ UNCHANGED now

AcceptClaim(signer) ==
    /\ signer = Owner                                   \* has_one
    /\ bounty.protocol_version < 2
    /\ bounty.status \in Claimed
    /\ bounty.finder # NoWallet
    /\ bounty.amount_funded >= bounty.reward_amount
    /\ TransferFromVault(bounty.finder, bounty.reward_amount)
    /\ bounty' = [bounty EXCEPT !.amount_funded = @ - bounty.reward_amount,
                                !.status = "Released"]
    /\ UNCHANGED now

MutRejectKeepsFinder(signer) ==
    /\ signer = Owner
    /\ bounty.protocol_version < 2
    /\ bounty.status \in Claimed
    /\ bounty' = [bounty EXCEPT !.status = "Funded"]
    /\ UNCHANGED <<vault, tokens, now>>

\* The bounty opens for new claims.
RejectClaim(signer) ==
    /\ signer = Owner                                   \* has_one
    /\ bounty.protocol_version < 2
    /\ bounty.status \in Claimed
    /\ bounty' = [bounty EXCEPT !.finder = NoWallet, !.status = "Funded"]
    /\ UNCHANGED <<vault, tokens, now>>

OpenDispute(signer) ==
    /\ bounty.protocol_version < 2
    /\ signer \in {Owner, bounty.finder}
    /\ bounty.status \in Claimed
    /\ bounty' = [bounty EXCEPT !.status = "Disputed"]
    /\ UNCHANGED <<vault, tokens, now>>

Least(a, b) == IF a <= b THEN a ELSE b

MutArbitrateBeforeDeadline(signer) ==
    /\ signer = bounty.arbiter
    /\ bounty.protocol_version < 2
    /\ bounty.finder # signer
    /\ bounty.status = "Disputed"
    /\ bounty.amount_funded > 0
    /\ now <= bounty.deadline

MayArbitrate(signer) ==
    /\ signer = bounty.arbiter                          \* has_one
    /\ bounty.protocol_version < 2
    /\ bounty.finder # signer                           \* PartyCannotArbitrate
    /\ bounty.status = "Disputed"
    /\ bounty.amount_funded > 0

ResolveDispute(signer, releaseToFinder) ==
    /\ MayArbitrate(signer)
    /\ \/ /\ releaseToFinder
          /\ bounty.finder # NoWallet
          /\ TransferFromVault(bounty.finder,
                               Least(bounty.reward_amount, bounty.amount_funded))
          /\ bounty' = [bounty EXCEPT !.amount_funded = 0, !.status = "Released"]
       \/ /\ ~releaseToFinder
          /\ TransferFromVault(Owner, bounty.amount_funded)
          /\ bounty' = [bounty EXCEPT !.amount_funded = 0, !.status = "Refunded"]
    /\ UNCHANGED now

-----------------------------------------------------------------------------

CONSTANT DepositAmounts     \* amounts sent straight to the vault

ASSUME DepositAssumption == DepositAmounts \subseteq Nat

Init ==
    /\ bounty = NoBounty
    /\ vault = 0
    /\ tokens = [w \in Wallets |-> IF w = Owner THEN Supply ELSE 0]
    /\ now = 0

\* Bound: time passes only until the bounty's deadline is past.
LegacyTick ==
    /\ bounty.status # "Absent"
    /\ now <= bounty.deadline
    /\ Tick

Next ==
    \/ \E w, a \in Wallets, r \in Rewards, d \in Deadlines : CreateBounty(w, a, r, d)
    \/ \E w \in Wallets, amount \in 1..Supply :
          FundBounty(w, amount) \/ FundBountySponsored(w, amount)
    \/ \E f \in Finders : SubmitClaim(f)
    \/ \E w \in Wallets :
          \/ CancelBounty(w) \/ RefundAfterExpiry(w)
          \/ RecordAiReview(w) \/ AcceptClaim(w) \/ RejectClaim(w)
          \/ OpenDispute(w)
          \/ \E release \in BOOLEAN : ResolveDispute(w, release)
    \/ \E amount \in DepositAmounts : ExternalDeposit(amount)
    \/ LegacyTick

\* The owner of an expired bounty takes the refund, the arbiter decides.
Fairness ==
    /\ WF_bountyVars(LegacyTick)
    /\ WF_bountyVars(RefundAfterExpiry(Owner))
    /\ WF_bountyVars(\E w \in Wallets, release \in BOOLEAN : ResolveDispute(w, release))

Spec == Init /\ [][Next]_bountyVars

FairSpec == Spec /\ Fairness

-----------------------------------------------------------------------------

\* The bounty has a finder exactly while a claim occupies it or was paid; a
\* rejected finder leaves no trace a later dispute or payout could reach.
FinderOfClaim ==
    bounty.status # "Refunded" =>
        (bounty.finder # NoWallet
            <=> bounty.status \in Claimed \cup {"Disputed", "Released"})

\* The legacy instructions keep the same promise as the v2 ones.
Promise == INSTANCE EscrowPromise WITH
    phase <- CASE bounty.status = "Absent" -> "none"
               [] bounty.status = "Released" -> "paid"
               [] bounty.status = "Refunded" -> "returned"
               [] bounty.status = "Cancelled" -> "abandoned"
               [] OTHER -> "open",
    price <- bounty.reward_amount,
    held <- bounty.amount_funded

KeepsPromise == Promise!Spec

\* A v1 escrow ends once its deadline is past, provided a disputed claim is
\* not the arbiter's own: v1 has no dispute timeout, only the arbiter.
FundsLeaveEscrow ==
    bounty.status = "Funded" ~>
        \/ bounty.status \in {"Released", "Refunded"}
        \/ bounty.status = "Disputed" /\ bounty.finder = bounty.arbiter
=============================================================================
