------------------------------- MODULE Escrow -------------------------------
(***************************************************************************)
(* One protocol-v2 bounty of the findback program from its creation to the *)
(* end: the bounty account, its vault, its claims and their arbitration,   *)
(* driven by instructions that arrive in any order from any signer.  An    *)
(* instruction executes atomically; a failing guard aborts it.             *)
(***************************************************************************)
EXTENDS Arbitration

CONSTANT DepositAmounts     \* amounts sent straight to the vault

ASSUME DepositAssumption == DepositAmounts \subseteq Nat

vars == <<bountyVars, claim, arbitrationVars>>

\* Either no account exists yet, or a v2 bounty written before workflow
\* versions were introduced waits for funds: its new fields read as zero.
Init ==
    /\ \/ bounty = NoBounty
       \/ \E a \in Wallets \ {Owner}, r \in Rewards \ {0}, d \in Deadlines :
             bounty = Draft(a, r, d, 2, 0)
    /\ vault = 0
    /\ tokens = [w \in Wallets |-> IF w = Owner THEN Supply ELSE 0]
    /\ now = 0
    /\ claim = [f \in Finders |-> NoClaim]
    /\ ArbitrationInit

\* Bound: time passes only while a deadline lies ahead.  Every guard compares
\* the clock with a deadline, so moving it past all of them changes nothing.
ClockMatters ==
    \/ bounty.status # "Absent" /\ now <= bounty.deadline
    \/ \E f \in Finders :
          \/ claim[f].status = "RejectionPending" /\ now <= claim[f].dispute_deadline
          \/ claim[f].status = "Disputed" /\ now <= claim[f].resolution_deadline

BountyStep ==
    /\ \/ \E w, a \in Wallets, r \in Rewards, d \in Deadlines :
             CreateBountyV2(w, a, r, d) \/ CreateBountySponsored(w, a, r, d)
       \/ \E w \in Wallets, amount \in 1..Supply :
             FundBounty(w, amount) \/ FundBountySponsored(w, amount)
       \/ \E w \in Wallets : CancelBounty(w) \/ RefundAfterExpiry(w)
       \/ \E amount \in DepositAmounts : ExternalDeposit(amount)
       \/ ClockMatters /\ Tick
    /\ UNCHANGED <<claim, arbitrationVars>>

ClaimStep ==
    /\ \E f \in Finders :
          \/ SubmitClaimV2(f) \/ SubmitClaimV2Sponsored(f)
          \/ FinalizeRejectionV2(f)
          \/ TimeoutDisputeV2(f)
          \/ \E w \in Wallets :
                \/ RecordAiReviewV2(w, f)
                \/ AcceptClaimV2(w, f)
                \/ RejectClaimV2(w, f)
                \/ OpenDisputeV2(w, f)
                \/ \E release \in BOOLEAN : ResolveDisputeV2(w, f, release)
    /\ UNCHANGED arbitrationVars

ArbitrationStep ==
    \/ \E w \in Wallets, arbiters \in SUBSET Wallets :
          ConfigureArbitrationPanel(w, arbiters)
    \/ \E f \in Finders :
          \/ FinalizeDisputeRelease(f)
          \/ FinalizeDisputeReject(f)
          \/ \E w \in Wallets :
                \/ OpenDisputeV3(w, f)
                \/ \E choice \in {Release, Reject} : CastArbitrationVote(w, f, choice)

Next == BountyStep \/ ClaimStep \/ ArbitrationStep

Spec == Init /\ [][Next]_vars

(* Permissionless instructions are sent by whoever wants the outcome, and  *)
(* the owner of an expired bounty works towards the refund.  Nothing is    *)
(* assumed of the arbiters, the panel or the finders.                      *)
Fairness ==
    /\ WF_vars(ClockMatters /\ Tick /\ UNCHANGED <<claim, arbitrationVars>>)
    /\ \A f \in Finders :
          /\ WF_vars(FinalizeRejectionV2(f) /\ UNCHANGED arbitrationVars)
          /\ WF_vars(TimeoutDisputeV2(f) /\ UNCHANGED arbitrationVars)
          /\ WF_vars(RejectClaimV2(Owner, f) /\ UNCHANGED arbitrationVars)
    /\ WF_vars(RefundAfterExpiry(Owner) /\ UNCHANGED <<claim, arbitrationVars>>)

FairSpec == Spec /\ Fairness

-----------------------------------------------------------------------------
(* Invariants.                                                             *)

\* Every account holds values of the program's types.
TypeOK == BountyTypeOK /\ ClaimsTypeOK /\ ArbitrationTypeOK

\* The vault always covers what the bounty account says is escrowed, and a
\* bounty that can still pay holds exactly its reward (fund_bounty,
\* accept_claim_v2, resolve_dispute_v2, finalize_dispute_release, refund).
Backed ==
    /\ vault >= bounty.amount_funded
    /\ bounty.amount_funded <= bounty.reward_amount
    /\ bounty.status \in {"Funded", "Disputed"} =>
          bounty.amount_funded = bounty.reward_amount
    /\ bounty.status \in {"Absent", "Released", "Refunded", "Cancelled"} =>
          bounty.amount_funded = 0

Unresolved == {"Submitted", "AiReviewed", "RejectionPending", "Disputed"}

OpenClaims == {f \in Finders : claim[f].status \in Unresolved}

\* active_claims, which alone guards the refund, counts the unresolved
\* ClaimV2 accounts until a settlement closes the bounty.
ActiveClaimsCounted ==
    bounty.active_claims =
        IF bounty.workflow_version = 0 \/ bounty.status = "Released"
        THEN 0 ELSE Cardinality(OpenClaims)

\* The owner cannot take the reward back while a finder's claim is
\* undecided: refund_after_expiry leaves no unresolved claim behind.
RefundLeavesNoOpenClaim ==
    bounty.status = "Refunded" /\ bounty.workflow_version = 1 => OpenClaims = {}

\* The bounty is locked exactly while one claim, and only one, is in dispute:
\* no refund, settlement or second dispute slips past the lock.
DisputeLock ==
    /\ bounty.status = "Disputed" <=>
          \E f \in Finders : claim[f].status = "Disputed"
    /\ \A f, g \in Finders :
          claim[f].status = "Disputed" /\ claim[g].status = "Disputed" => f = g

\* The bounty names as its finder the one claim that settled.
SettlementMatchesClaim ==
    \A f \in Finders :
        claim[f].status = "Settled" <=> bounty.status = "Released" /\ bounty.finder = f

Votes(f, choice) == {a \in Wallets : vote[f][a] = choice}

\* A case's counters and decision are those of its vote accounts, every vote
\* is a panel member's, and nobody votes on their own claim.
VotesCounted ==
    \A f \in Finders :
        /\ dispute_case[f].release_votes = Cardinality(Votes(f, Release))
        /\ dispute_case[f].reject_votes = Cardinality(Votes(f, Reject))
        /\ dispute_case[f].decision = Release <=> dispute_case[f].release_votes = Quorum
        /\ dispute_case[f].decision = Reject <=> dispute_case[f].reject_votes = Quorum
        /\ Votes(f, Release) \cup Votes(f, Reject) \subseteq panel \ {f}

-----------------------------------------------------------------------------
(* Action properties.                                                      *)

\* A rejected claim cannot be selected or disputed, and a settled one stays
\* settled, whatever happens to the bounty afterwards.
VerdictsAreFinal ==
    [][\A f \in Finders :
          claim[f].status \in {"Rejected", "Settled"} => claim'[f] = claim[f]]_vars

\* A disputed claim is paid only on the word of somebody else: two panel
\* members other than the finder under a quorum, else an arbiter who is not
\* the finder.
DisputedPayoutAuthorized ==
    [][\A f \in Finders :
          claim[f].status = "Disputed" /\ claim'[f].status = "Settled" =>
              IF bounty.arbitration_mode = 1
              THEN Cardinality(Votes(f, Release) \ {f}) >= Quorum
              ELSE bounty.arbiter # f]_vars

\* With rejection windows (workflow version 1), an owner's rejection becomes
\* final only after the window it opened has passed or a dispute was decided.
RejectionWaitsForWindow ==
    [][\A f \in Finders :
          claim[f].status # "Rejected" /\ claim'[f].status = "Rejected"
              /\ bounty.workflow_version = 1 =>
          \/ claim[f].status = "Disputed"
          \/ claim[f].status = "RejectionPending" /\ now > claim[f].dispute_deadline]_vars

\* The instructions implement the abstract escrow: deposits are held until
\* they are the whole reward, which leaves once, in full, to one wallet.
Promise == INSTANCE EscrowPromise WITH
    phase <- CASE bounty.status = "Absent" -> "none"
               [] bounty.status = "Released" -> "paid"
               [] bounty.status = "Refunded" -> "returned"
               [] bounty.status = "Cancelled" -> "abandoned"
               [] OTHER -> "open",
    price <- bounty.reward_amount,
    held <- bounty.amount_funded

KeepsPromise == Promise!Spec

\* To those who only read the ClaimV2 accounts, every instruction is one step
\* of a claim's life cycle, or none: what the database mirror relies on.
Lifecycle == INSTANCE ClaimLifecycle WITH
    Claims <- Finders,
    chain <- [f \in Finders |-> claim[f].status]

FollowsLifecycle == Lifecycle!LifecycleSpec

-----------------------------------------------------------------------------
(* Liveness, under FairSpec.                                               *)

\* "Liveness fallback for an abandoned arbitration" (timeout_dispute_v2): no
\* dispute locks the bounty forever, whatever arbiters and panel do.
DisputesEnd == bounty.status = "Disputed" ~> bounty.status # "Disputed"

\* An owner who keeps rejecting and refunding gets an expired bounty's reward
\* out of the escrow, unless a finder was paid.
FundsLeaveEscrow == bounty.status = "Funded" ~> bounty.status \in {"Released", "Refunded"}

-----------------------------------------------------------------------------
(* What the repository says and the program does not do.                   *)

\* docs/architecture-v2.md: nobody "can censor an already-authorized result":
\* once a panel decided to release, the dispute ends in the settlement.
DecisionStands ==
    [][\A f \in Finders :
          claim[f].status = "Disputed" /\ dispute_case[f].decision = Release
              /\ claim'[f].status # "Disputed" => claim'[f].status = "Settled"]_vars

\* finalize_rejection_v2: "Any signer may finalize so a missing owner cannot
\* leave the claim pending forever."
PendingRejectionEnds ==
    \A f \in Finders :
        claim[f].status = "RejectionPending" ~> claim[f].status # "RejectionPending"
=============================================================================
