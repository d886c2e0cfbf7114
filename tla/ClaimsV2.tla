------------------------------ MODULE ClaimsV2 ------------------------------
(***************************************************************************)
(* Protocol v2 of the findback program: one ClaimV2 account per finder,    *)
(* reviewed, accepted, rejected after a dispute window, or disputed before *)
(* the bounty's single arbiter with a permissionless timeout.              *)
(***************************************************************************)
EXTENDS Bounty

CONSTANTS
    Finders,        \* the wallets that submit claims in the instance
    RejectWindow,   \* REJECTION_DISPUTE_WINDOW_SECONDS
    ResolveWindow   \* DISPUTE_RESOLUTION_WINDOW_SECONDS

ASSUME ClaimsAssumption ==
    /\ Finders \subseteq Wallets \ {Owner}
    /\ RejectWindow \in Nat \ {0}
    /\ ResolveWindow \in Nat \ {0}

VARIABLE claim      \* the ClaimV2 account of every finder

ClaimV2Status ==
    {"Absent", "Submitted", "AiReviewed", "Rejected", "Disputed", "Settled",
     "RejectionPending"}

\* bounty, finder are the account's address; workflow_version is the bounty's,
\* copied on creation, and no instruction writes either of them afterwards.
ClaimV2 ==
    [status: ClaimV2Status, dispute_deadline: Nat, resolution_deadline: Nat]

ClaimsTypeOK == claim \in [Finders -> ClaimV2]

NoClaim ==
    [status |-> "Absent", dispute_deadline |-> 0, resolution_deadline |-> 0]

Reviewable == {"Submitted", "AiReviewed"}

SetStatus(f, s) == claim' = [claim EXCEPT ![f].status = s]

-----------------------------------------------------------------------------
(* contexts.rs: what the account constraints check before a handler runs.  *)

SubmitClaimV2Accounts(f) == claim[f].status = "Absent"          \* init of the PDA

RecordAiReviewV2Accounts(signer) == signer = bounty.arbiter     \* has_one

AcceptClaimV2Accounts(signer) == signer = Owner                 \* has_one

RejectClaimV2Accounts(signer) == signer = Owner                 \* has_one

ResolveDisputeV2Accounts(signer) == signer = bounty.arbiter     \* has_one

\* Any signer; the claim's address is derived from its bounty and finder.
FinalizeClaimV2Accounts(f) == claim[f].status # "Absent"

-----------------------------------------------------------------------------
(* helpers.rs                                                              *)

MutNotDecremented == bounty.active_claims

\* decrement_active_claims: checked_sub, so the caller fails at zero.
Decremented == bounty.active_claims - bounty.workflow_version

ClosedAll == IF bounty.workflow_version >= 1 THEN 0 ELSE bounty.active_claims

MutLockTwice ==
    /\ bounty.status \in {"Funded", "Disputed"}
    /\ bounty' = [bounty EXCEPT !.status = "Disputed"]

LockForV2Dispute ==
    /\ bounty.status = "Funded"
    /\ bounty' = [bounty EXCEPT !.status = "Disputed"]

MutResumeKeepsCount ==
    /\ bounty.status = "Disputed"
    /\ bounty' = [bounty EXCEPT !.status = "Funded"]

ResumeAfterV2Reject ==
    /\ bounty.status = "Disputed"
    /\ Decremented >= 0
    /\ bounty' = [bounty EXCEPT !.status = "Funded",
                                !.active_claims = Decremented]

MutSettleForgetsFinder(f) ==
    /\ bounty.amount_funded >= bounty.reward_amount
    /\ TransferFromVault(f, bounty.reward_amount)
    /\ bounty' = [bounty EXCEPT !.amount_funded = @ - bounty.reward_amount,
                                !.status = "Released",
                                !.active_claims = ClosedAll]
    /\ SetStatus(f, "Settled")

MutSettleKeepsFunded(f) ==
    /\ bounty.amount_funded >= bounty.reward_amount
    /\ TransferFromVault(f, bounty.reward_amount)
    /\ bounty' = [bounty EXCEPT !.finder = f,
                                !.status = "Released",
                                !.active_claims = ClosedAll]
    /\ SetStatus(f, "Settled")

\* The transfer and the bookkeeping every settlement performs.
SettleTo(f) ==
    /\ bounty.amount_funded >= bounty.reward_amount
    /\ TransferFromVault(f, bounty.reward_amount)
    /\ bounty' = [bounty EXCEPT !.amount_funded = @ - bounty.reward_amount,
                                !.finder = f,
                                !.status = "Released",
                                !.active_claims = ClosedAll]
    /\ SetStatus(f, "Settled")

-----------------------------------------------------------------------------
(* Submitting and reviewing a claim.                                       *)

SubmitClaimV2(f) ==
    /\ SubmitClaimV2Accounts(f)
    /\ bounty.protocol_version >= 2
    /\ bounty.status = "Funded"
    /\ bounty.amount_funded >= bounty.reward_amount
    /\ now <= bounty.deadline
    /\ f # Owner                                    \* OwnerCannotClaim
    /\ claim' = [claim EXCEPT ![f] = [NoClaim EXCEPT !.status = "Submitted"]]
    /\ bounty' = [bounty EXCEPT !.active_claims = @ + bounty.workflow_version]
    /\ UNCHANGED <<vault, tokens, now>>

\* The sponsor pays rent and fee; the finder signs as in SubmitClaimV2.
SubmitClaimV2Sponsored(f) == SubmitClaimV2(f)

RecordAiReviewV2(signer, f) ==
    /\ RecordAiReviewV2Accounts(signer)
    /\ bounty.protocol_version >= 2
    /\ bounty.status = "Funded"
    /\ claim[f].status \in Reviewable
    /\ SetStatus(f, "AiReviewed")
    /\ UNCHANGED bountyVars

-----------------------------------------------------------------------------
(* The owner's decision.                                                   *)

AcceptClaimV2(signer, f) ==
    /\ AcceptClaimV2Accounts(signer)
    /\ bounty.protocol_version >= 2
    /\ bounty.status = "Funded"
    /\ claim[f].status \in Reviewable
    /\ SettleTo(f)
    /\ UNCHANGED now

\* The bounty's status is not read: a claim a settlement left behind can
\* still be rejected.
RejectClaimV2(signer, f) ==
    /\ RejectClaimV2Accounts(signer)
    /\ bounty.protocol_version >= 2
    /\ claim[f].status \in Reviewable
    /\ IF bounty.workflow_version >= 1
       THEN /\ CheckedAdd(now, RejectWindow)
            /\ claim' = [claim EXCEPT ![f].status = "RejectionPending",
                                      ![f].dispute_deadline = now + RejectWindow]
       ELSE SetStatus(f, "Rejected")
    /\ UNCHANGED bountyVars

MutWindowEndsEarly(f) ==
    /\ claim[f].dispute_deadline > 0
    /\ now >= claim[f].dispute_deadline

DisputeWindowOver(f) ==
    /\ claim[f].dispute_deadline > 0
    /\ now > claim[f].dispute_deadline

MutFinalizeUnchecked(f) ==
    /\ FinalizeClaimV2Accounts(f)
    /\ claim[f].status = "RejectionPending"
    /\ DisputeWindowOver(f)
    /\ SetStatus(f, "Rejected")
    /\ bounty' = [bounty EXCEPT !.active_claims = Decremented]
    /\ UNCHANGED <<vault, tokens, now>>

\* Any signer.
FinalizeRejectionV2(f) ==
    /\ FinalizeClaimV2Accounts(f)
    /\ claim[f].status = "RejectionPending"
    /\ DisputeWindowOver(f)
    /\ Decremented >= 0
    /\ SetStatus(f, "Rejected")
    /\ bounty' = [bounty EXCEPT !.active_claims = Decremented]
    /\ UNCHANGED <<vault, tokens, now>>

-----------------------------------------------------------------------------
(* Disputes before the single arbiter.                                     *)

MutDisputeAnyClaim(signer, f) ==
    \/ /\ claim[f].status # "Absent"
       /\ signer \in {Owner, f}
    \/ /\ claim[f].status = "RejectionPending"
       /\ signer = f
       /\ claim[f].dispute_deadline > 0
       /\ now <= claim[f].dispute_deadline

\* Who may escalate which claim, and until when.
MayDispute(signer, f) ==
    \/ /\ claim[f].status \in Reviewable
       /\ signer \in {Owner, f}
    \/ /\ claim[f].status = "RejectionPending"
       /\ signer = f
       /\ claim[f].dispute_deadline > 0
       /\ now <= claim[f].dispute_deadline

EnterDispute(f) ==
    /\ CheckedAdd(now, ResolveWindow)
    /\ claim' = [claim EXCEPT ![f] = [status |-> "Disputed",
                                      dispute_deadline |-> 0,
                                      resolution_deadline |-> now + ResolveWindow]]

OpenDisputeV2(signer, f) ==
    /\ bounty.protocol_version >= 2
    /\ bounty.arbitration_mode = 0
    /\ LockForV2Dispute
    /\ MayDispute(signer, f)
    /\ EnterDispute(f)
    /\ UNCHANGED <<vault, tokens, now>>

ResolutionWindowOver(f) ==
    /\ claim[f].resolution_deadline > 0
    /\ now > claim[f].resolution_deadline

MutTimeoutOnlySingleArbiter(f) ==
    /\ FinalizeClaimV2Accounts(f)
    /\ claim[f].status = "Disputed"
    /\ bounty.arbitration_mode = 0
    /\ ResolutionWindowOver(f)
    /\ ResumeAfterV2Reject
    /\ SetStatus(f, "Rejected")
    /\ UNCHANGED <<vault, tokens, now>>

\* Any signer, whatever the arbitration mode and whatever a panel decided.
TimeoutDisputeV2(f) ==
    /\ FinalizeClaimV2Accounts(f)
    /\ claim[f].status = "Disputed"
    /\ ResolutionWindowOver(f)
    /\ ResumeAfterV2Reject
    /\ SetStatus(f, "Rejected")
    /\ UNCHANGED <<vault, tokens, now>>

MutResolveBypassesPanel(signer, f, releaseToFinder) ==
    /\ ResolveDisputeV2Accounts(signer)
    /\ bounty.protocol_version >= 2
    /\ f # signer
    /\ claim[f].status = "Disputed"
    /\ \/ releaseToFinder /\ bounty.status = "Disputed" /\ SettleTo(f)
       \/ /\ ~releaseToFinder
          /\ ResumeAfterV2Reject
          /\ SetStatus(f, "Rejected")
          /\ UNCHANGED <<vault, tokens>>
    /\ UNCHANGED now

ResolveDisputeV2(signer, f, releaseToFinder) ==
    /\ ResolveDisputeV2Accounts(signer)
    /\ bounty.protocol_version >= 2
    /\ bounty.arbitration_mode = 0
    /\ f # signer                                   \* PartyCannotArbitrate
    /\ claim[f].status = "Disputed"
    /\ \/ /\ releaseToFinder
          /\ bounty.status = "Disputed"
          /\ SettleTo(f)
       \/ /\ ~releaseToFinder
          /\ ResumeAfterV2Reject
          /\ SetStatus(f, "Rejected")
          /\ UNCHANGED <<vault, tokens>>
    /\ UNCHANGED now
=============================================================================
