-------------------------------- MODULE Pages --------------------------------
(***************************************************************************)
(* What the app's pages offer the parties of one bounty: the listing page, *)
(* the panel under each claim and the arbitration desk, with the steps the *)
(* provider turns a click into.  The mirror the pages read is in step with *)
(* the chain here (ChainMirror is about when it is not), and the viewer's  *)
(* clock is the cluster's.  A page keeps no state of its own: what it      *)
(* offers is an operator of the program's state and of the claim's stage.  *)
(***************************************************************************)
EXTENDS Escrow

\* Stages of a claim's workflow in which the parties still deal with each
\* other; they move between them without the program.
ActiveStages ==
    {"awaiting_review", "more_info_requested", "handover_proposed",
     "handover_scheduled", "finder_delivered"}

\* A claim the settlement of another one left behind: the mirror marks it
\* rejected, whatever its account says.
PassedOver(f) == bounty.status = "Released" /\ claim[f].status \in Unresolved

\* The stages the mirror may show for claim f.
Stages(f) ==
    CASE claim[f].status = "Absent" -> {}
      [] claim[f].status = "Settled" -> {"settled"}
      [] claim[f].status = "Rejected" \/ PassedOver(f) -> {"rejected"}
      [] claim[f].status = "RejectionPending" /\ ~PassedOver(f) -> {"rejection_pending"}
      [] claim[f].status = "Disputed" /\ ~PassedOver(f) -> {"disputed"}
      [] OTHER -> ActiveStages

CanMutateWorkflow(stage) ==
    stage \notin {"settled", "rejected", "rejection_pending", "disputed"}

IsPayableClaimStatus(f, stage) ==
    /\ CanMutateWorkflow(stage)
    /\ claim[f].status \in Reviewable \/ stage \in ActiveStages

ChainActiveStatus == bounty.status \notin {"Released", "Refunded", "Cancelled", "Draft"}

-----------------------------------------------------------------------------
(* The listing page.                                                       *)

IsOwner(w) == bounty.status # "Absent" /\ w = Owner

FundOffered(w) == IsOwner(w) /\ bounty.status = "Draft"

CancelOffered(w) == IsOwner(w) /\ bounty.status = "Draft"

CanClaim(w) ==
    /\ bounty.status = "Funded"
    /\ ~IsOwner(w)
    /\ Stages(w) = {}                               \* no claim of the viewer's
    /\ now <= bounty.deadline

MutRefundOffered(w) ==
    /\ IsOwner(w)
    /\ bounty.status = "Funded"
    /\ now > bounty.deadline
    /\ \A f \in Finders : Stages(f) = {}

RefundOffered(w) ==
    /\ IsOwner(w)
    /\ bounty.status = "Funded"
    /\ now > bounty.deadline
    /\ bounty.active_claims = 0

\* ArbitrationSetup asks for two wallets beside the bounty's arbiter.
PanelsOffered(w) ==
    IF IsOwner(w) /\ bounty.arbitration_mode = 0 /\ bounty.status \in {"Draft", "Funded"}
    THEN {{bounty.arbiter, b, c} : b, c \in Wallets}
    ELSE {}

-----------------------------------------------------------------------------
(* The panel under a claim, for the claim's two parties.                   *)

IsParty(w, f) == w \in {Owner, f}

RejectOffered(w, f, stage) ==
    w = Owner /\ ChainActiveStatus /\ IsPayableClaimStatus(f, stage)

RewardOffered(w, f, stage) == RejectOffered(w, f, stage) /\ CanMutateWorkflow(stage)

RejectionExpired(f) ==
    claim[f].dispute_deadline > 0 /\ now > claim[f].dispute_deadline

ResolutionExpired(f) ==
    claim[f].resolution_deadline > 0 /\ now > claim[f].resolution_deadline

MutDisputeOffered(w, f, stage) ==
    /\ IsParty(w, f)
    /\ \/ /\ CanMutateWorkflow(stage) /\ ChainActiveStatus
          /\ stage \in {"handover_scheduled", "finder_delivered", "handover_proposed"}
       \/ stage = "rejection_pending" /\ w = f

DisputeOffered(w, f, stage) ==
    /\ IsParty(w, f)
    /\ \/ /\ CanMutateWorkflow(stage) /\ ChainActiveStatus
          /\ stage \in {"handover_scheduled", "finder_delivered", "handover_proposed"}
       \/ stage = "rejection_pending" /\ w = f /\ ~RejectionExpired(f)

FinalizeRejectionOffered(w, f, stage) ==
    IsParty(w, f) /\ stage = "rejection_pending" /\ RejectionExpired(f)

TimeoutDisputeOffered(w, f, stage) ==
    IsParty(w, f) /\ stage = "disputed" /\ ResolutionExpired(f)

-----------------------------------------------------------------------------
(* The arbitration desk, for the wallets /api/arbitration/cases lets in.   *)

AssignedCase(w, f) ==
    /\ claim[f].status = "Disputed"
    /\ IF bounty.arbitration_mode = 1 THEN w \in panel ELSE w = bounty.arbiter

IsQuorum(f) == bounty.arbitration_mode = 1 /\ dispute_case[f].exists

VoteOffered(w, f) ==
    /\ AssignedCase(w, f) /\ IsQuorum(f)
    /\ dispute_case[f].decision = Open
    /\ vote[f][w] = Open                            \* !myVote

FinalizeOffered(w, f) ==
    /\ AssignedCase(w, f) /\ IsQuorum(f)
    /\ dispute_case[f].decision # Open
    /\ ~dispute_case[f].finalized

ResolveOffered(w, f) == AssignedCase(w, f) /\ ~IsQuorum(f)

-----------------------------------------------------------------------------
(* The provider's step behind each button: the instruction it picks from    *)
(* what it reads, and its own refusals.  What it tells the mirror afterwards *)
(* is the business of Outbox.                                              *)

Fund(w) == FundBounty(w, RemainingFunding)

SubmitClaim(w) == SubmitClaimV2(w)

AcceptClaim(w, f) == AcceptClaimV2(w, f)

RejectClaim(w, f) == RejectClaimV2(w, f)

FinalizeRejection(f) == FinalizeRejectionV2(f)

TimeoutDispute(f) == TimeoutDisputeV2(f)

Refund(w) == RefundAfterExpiry(w)

Cancel(w) == CancelBounty(w)

Dispute(w, f) ==
    IF bounty.arbitration_mode = 1 THEN OpenDisputeV3(w, f) ELSE OpenDisputeV2(w, f)

ResolveDispute(w, f, release) ==
    bounty.arbitration_mode # 1 /\ ResolveDisputeV2(w, f, release)

ConfigurePanel(w, arbiters) ==
    /\ Cardinality(arbiters) = PanelSize /\ w \notin arbiters
    /\ ConfigureArbitrationPanel(w, arbiters)

VoteArbitration(w, f, choice) == CastArbitrationVote(w, f, choice)

FinalizeArbitration(f) ==
    IF dispute_case[f].decision = Release
    THEN FinalizeDisputeRelease(f) ELSE FinalizeDisputeReject(f)

-----------------------------------------------------------------------------
(* Invariants.                                                             *)

DisputeElsewhere(f) == bounty.status = "Disputed" /\ claim[f].status # "Disputed"

\* Nobody is asked to sign what the program refuses: each button's step would
\* be accepted in the state the page shows, except for what the pages do not
\* look at: a draft somebody funded in part cannot be cancelled, a dispute on
\* another claim locks the bounty, and an arbiter may be shown a case that is
\* overdue or their own (page.tsx, ClaimWorkflowPanel, arbitration/page.tsx).
OfferedStepsAreAccepted ==
    /\ \A w \in Wallets :
          /\ FundOffered(w) /\ tokens[w] >= RemainingFunding =>
                ENABLED Fund(w)
          /\ CancelOffered(w) /\ bounty.amount_funded = 0 => ENABLED Cancel(w)
          /\ RefundOffered(w) => ENABLED Refund(w)
          /\ \A arbiters \in PanelsOffered(w) :
                Cardinality(arbiters) = PanelSize /\ w \notin arbiters =>
                ENABLED ConfigurePanel(w, arbiters)
    /\ \A f \in Finders :
          /\ CanClaim(f) => ENABLED SubmitClaim(f)
          /\ CheckedAdd(now, ResolveWindow) =>
             \A w \in {Owner, f}, stage \in Stages(f) :
                /\ RejectOffered(w, f, stage) => ENABLED RejectClaim(w, f)
                /\ RewardOffered(w, f, stage) =>
                      ENABLED AcceptClaim(w, f) \/ DisputeElsewhere(f)
                /\ DisputeOffered(w, f, stage) =>
                      ENABLED Dispute(w, f) \/ DisputeElsewhere(f)
                /\ FinalizeRejectionOffered(w, f, stage) => ENABLED FinalizeRejection(f)
                /\ TimeoutDisputeOffered(w, f, stage) => ENABLED TimeoutDispute(f)
          /\ \A w \in Wallets \ {f} :
                /\ VoteOffered(w, f) /\ ~ResolutionExpired(f) =>
                      \A choice \in {Release, Reject} : ENABLED VoteArbitration(w, f, choice)
                /\ FinalizeOffered(w, f) => ENABLED FinalizeArbitration(f)
                /\ ResolveOffered(w, f) =>
                      \A release \in BOOLEAN : ENABLED ResolveDispute(w, f, release)

\* A window the parties can only sit out.
WindowOpen ==
    \E f \in Finders :
        \/ claim[f].status = "RejectionPending" /\ now <= claim[f].dispute_deadline
        \/ claim[f].status = "Disputed" /\ now <= claim[f].resolution_deadline

\* Once a locked reward's deadline is over, the pages always show the owner or
\* a finder a step towards getting it out that the program would accept, or a
\* window is still running: nobody's money depends on calling the program
\* without the app (the refund, reject, finalize and timeout buttons).
FundsHaveAnExit ==
    bounty.status \in {"Funded", "Disputed"} /\ now > bounty.deadline
        /\ CheckedAdd(now, ResolveWindow) =>
    \/ WindowOpen
    \/ RefundOffered(Owner) /\ ENABLED Refund(Owner)
    \/ \E f \in Finders, w \in {Owner} \cup Finders : \E stage \in Stages(f) :
          \/ RejectOffered(w, f, stage) /\ ENABLED RejectClaim(w, f)
          \/ FinalizeRejectionOffered(w, f, stage) /\ ENABLED FinalizeRejection(f)
          \/ TimeoutDisputeOffered(w, f, stage) /\ ENABLED TimeoutDispute(f)
=============================================================================
