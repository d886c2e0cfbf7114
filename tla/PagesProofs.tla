---------------------------- MODULE PagesProofs ----------------------------
(***************************************************************************)
(* Theorems about what the parties of a bounty can do, for every instance  *)
(* of Escrow: that the pages offer no step the program refuses, that a     *)
(* locked reward has a way out, and how far three statements of the docs   *)
(* hold that the runs refute.                                              *)
(*                                                                         *)
(* The runs ask whether an action is ENABLED, which is no formula a proof  *)
(* can open here.  Each button's step is therefore split first into what   *)
(* it asks for and what it writes (Steps): a conjunction of one equation   *)
(* for each variable it mentions, which some next state always satisfies.  *)
(***************************************************************************)
EXTENDS EscrowInvariantProofs, Pages, EscrowWindow

(***************************************************************************)
(* Accounts that no instruction leaves half done.                          *)
(***************************************************************************)

\* A draft lacks funds and has no claims, nor has a bounty that was never
\* funded.
Drafts ==
    /\ bounty.status = "Draft" => bounty.amount_funded < bounty.reward_amount
    /\ bounty.status \in {"Absent", "Draft", "Cancelled"} =>
          \A f \in Finders : claim[f].status = "Absent"

\* The bounty names quorum mode exactly when a panel exists.
Panels ==
    /\ bounty.arbitration_mode = 0 <=> panel = {}
    /\ bounty.status = "Absent" => bounty.arbitration_mode = 0

\* A case belongs to a dispute that began in quorum mode, and is carried out
\* when the dispute ends.
Cases ==
    \A f \in Finders :
        /\ claim[f].status = "RejectionPending" => bounty.workflow_version = 1
        /\ dispute_case[f].exists =>
              claim[f].status \in {"Disputed", "Rejected", "Settled"}
        /\ claim[f].status = "Disputed" /\ bounty.arbitration_mode = 1 =>
              dispute_case[f].exists
        /\ claim[f].status = "Disputed" => ~dispute_case[f].finalized

Orderly == Drafts /\ Panels /\ Cases

\* Every step keeps a draft short of funds and without claims.
LEMMA DraftsStep ==
    ASSUME TypeOK, Fresh, Drafts, Shape
    PROVE  Drafts'
<1> USE BountyAssumption DEF TypeOK, BountyTypeOK, BountyAccount, Drafts
<1>1. CASE Created
  <2>1. bounty'.status = "Draft" /\ bounty'.amount_funded = 0 /\ bounty'.reward_amount > 0
    <3>1. bounty'.reward_amount \in Nat \ {0}
      BY <1>1 DEF Created
    <3> QED
      BY <1>1, <3>1 DEF Created
  <2>2. \A f \in Finders : claim'[f].status = "Absent"
    BY <1>1 DEF Created, Fresh
  <2> QED
    BY <2>1, <2>2
<1>2. ASSUME NEW amount \in 1..Supply, Funding(amount)
      PROVE  Drafts'
  BY <1>2 DEF Funding, BountyBecomes
<1>3. CASE Cancelled \/ Refunded \/ PanelConfigured \/ Elsewhere
  BY <1>3 DEF Cancelled, Refunded, Refundable, PanelConfigured, Elsewhere, BountyBecomes
<1>4. ASSUME NEW f \in Finders, ClaimShape(f)
      PROVE  Drafts'
  <2>1. claim[f].status = "Absent" => bounty'.status = "Funded"
    BY <1>4 DEF ClaimShape, Submitted, Judged, RejectionFinal, Settled, DisputeOpened,
                DisputeFailed, BountyBecomes, Reviewable
  <2>2. bounty'.status \in {"Funded", "Released", "Disputed"} \/ bounty'.status = bounty.status
    BY <1>4 DEF ClaimShape, Submitted, Judged, RejectionFinal, Settled, DisputeOpened,
                DisputeFailed, BountyBecomes
  <2>3. bounty'.status \notin {"Absent", "Draft", "Cancelled"}
    BY <2>1, <2>2
  <2> QED
    BY <2>3
<1> QED
  BY <1>1, <1>2, <1>3, <1>4 DEF Shape

\* Mode and panel change together, once.
LEMMA PanelsStep ==
    ASSUME TypeOK, Panels, [Next]_vars
    PROVE  Panels'
<1> USE DEF TypeOK, BountyTypeOK, BountyAccount, Panels
<1>1. ASSUME NEW w \in Wallets, NEW arbiters \in SUBSET Wallets,
             ConfigureArbitrationPanel(w, arbiters)
      PROVE  Panels'
  <2>1. bounty'.arbitration_mode = 1 /\ bounty'.status = bounty.status
    BY <1>1 DEF ConfigureArbitrationPanel
  <2>2. panel' # {}
    BY <1>1 DEF ConfigureArbitrationPanel
  <2> QED
    BY <1>1, <2>1, <2>2 DEF ConfigureArbitrationPanel
<1>2. ASSUME NEW w \in Wallets, NEW a \in Wallets, NEW r \in Rewards, NEW d \in Deadlines,
             CreateBountyV2(w, a, r, d) \/ CreateBountySponsored(w, a, r, d),
             UNCHANGED panel
      PROVE  Panels'
  BY <1>2 DEF CreateBountyV2, CreateBountySponsored, InitializeBounty,
              CreateBountyAccounts, Draft
<1>3. ASSUME UNCHANGED panel, bounty'.arbitration_mode = bounty.arbitration_mode,
             bounty'.status = "Absent" => bounty.status = "Absent"
      PROVE  Panels'
  BY <1>3
<1>4. CASE BountyStep
  <2>1. UNCHANGED panel
    BY <1>4 DEF BountyStep, arbitrationVars
  <2>2. ASSUME NEW w \in Wallets, NEW amount \in 1..Supply,
               FundBounty(w, amount) \/ FundBountySponsored(w, amount)
        PROVE  Panels'
    BY <1>3, <2>1, <2>2 DEF FundBounty, FundBountySponsored, ApplyFunding, ValidateFunding
  <2>3. ASSUME NEW w \in Wallets, CancelBounty(w) \/ RefundAfterExpiry(w)
        PROVE  Panels'
    BY <1>3, <2>1, <2>3 DEF CancelBounty, RefundAfterExpiry
  <2>4. ASSUME UNCHANGED bounty
        PROVE  Panels'
    BY <1>3, <2>1, <2>4
  <2> QED
    BY <1>2, <1>4, <2>1, <2>2, <2>3, <2>4 DEF BountyStep, ExternalDeposit, Tick
<1>5. ASSUME NEW f \in Finders, SettleTo(f), UNCHANGED panel
      PROVE  Panels'
  BY <1>3, <1>5 DEF SettleTo
<1>6. ASSUME ResumeAfterV2Reject \/ LockForV2Dispute \/ UNCHANGED bounty, UNCHANGED panel
      PROVE  Panels'
  BY <1>3, <1>6 DEF ResumeAfterV2Reject, LockForV2Dispute
<1>7. CASE ClaimStep
  <2>1. UNCHANGED panel
    BY <1>7 DEF ClaimStep, arbitrationVars
  <2>2. ASSUME NEW f \in Finders,
               SubmitClaimV2(f) \/ SubmitClaimV2Sponsored(f) \/ FinalizeRejectionV2(f)
        PROVE  Panels'
    BY <1>3, <2>1, <2>2 DEF SubmitClaimV2Sponsored, SubmitClaimV2, FinalizeRejectionV2
  <2>3. ASSUME NEW f \in Finders, TimeoutDisputeV2(f)
        PROVE  Panels'
    BY <1>6, <2>1, <2>3 DEF TimeoutDisputeV2
  <2>4. ASSUME NEW f \in Finders, NEW w \in Wallets,
               \/ RecordAiReviewV2(w, f) \/ RejectClaimV2(w, f) \/ OpenDisputeV2(w, f)
               \/ AcceptClaimV2(w, f)
               \/ \E release \in BOOLEAN : ResolveDisputeV2(w, f, release)
        PROVE  Panels'
    BY <1>5, <1>6, <2>1, <2>4
       DEF RecordAiReviewV2, RejectClaimV2, OpenDisputeV2, AcceptClaimV2,
           ResolveDisputeV2, bountyVars
  <2> QED
    BY <1>7, <2>2, <2>3, <2>4 DEF ClaimStep
<1>8. CASE ArbitrationStep
  <2>1. ASSUME NEW f \in Finders, FinalizeDisputeRelease(f) \/ FinalizeDisputeReject(f)
        PROVE  Panels'
    BY <1>5, <1>6, <2>1 DEF FinalizeDisputeRelease, FinalizeDisputeReject
  <2>2. ASSUME NEW f \in Finders, NEW w \in Wallets, NEW choice \in {Release, Reject},
               OpenDisputeV3(w, f) \/ CastArbitrationVote(w, f, choice)
        PROVE  Panels'
    BY <1>6, <2>2 DEF OpenDisputeV3, CastArbitrationVote, bountyVars
  <2> QED
    BY <1>1, <1>8, <2>1, <2>2 DEF ArbitrationStep
<1>9. CASE UNCHANGED vars
  BY <1>6, <1>9 DEF vars, bountyVars, arbitrationVars
<1> QED
  BY <1>4, <1>7, <1>8, <1>9 DEF Next

\* What a step may do to a claim's case, and to the claim in the same step.
LEMMA CaseMoves ==
    ASSUME TypeOK, CaseInv, [Next]_vars, NEW f \in Finders
    PROVE  \/ /\ dispute_case'[f] = dispute_case[f]
              /\ claim'[f].status = "Disputed" =>
                    claim[f].status = "Disputed" \/ bounty.arbitration_mode = 0
           \/ /\ ~dispute_case[f].exists
              /\ dispute_case'[f].exists /\ ~dispute_case'[f].finalized
              /\ claim'[f].status = "Disputed"
           \/ /\ dispute_case[f].exists /\ dispute_case'[f].exists
              /\ dispute_case'[f].finalized = dispute_case[f].finalized
              /\ claim'[f] = claim[f]
           \/ /\ dispute_case[f].exists /\ dispute_case'[f].exists
              /\ claim[f].status = "Disputed"
              /\ claim'[f].status \in {"Rejected", "Settled"}
<1> DEFINE Same == /\ dispute_case'[f] = dispute_case[f]
                   /\ claim'[f].status = "Disputed" =>
                         claim[f].status = "Disputed" \/ bounty.arbitration_mode = 0
           Opens == /\ ~dispute_case[f].exists
                    /\ dispute_case'[f].exists /\ ~dispute_case'[f].finalized
                    /\ claim'[f].status = "Disputed"
           Counts == /\ dispute_case[f].exists /\ dispute_case'[f].exists
                     /\ dispute_case'[f].finalized = dispute_case[f].finalized
                     /\ claim'[f] = claim[f]
           Ends == /\ dispute_case[f].exists /\ dispute_case'[f].exists
                   /\ claim[f].status = "Disputed"
                   /\ claim'[f].status \in {"Rejected", "Settled"}
           Goal == Same \/ Opens \/ Counts \/ Ends
<1> USE DEF TypeOK, ClaimsTypeOK, ArbitrationTypeOK
<1>1. ASSUME UNCHANGED dispute_case,
             \/ UNCHANGED claim
             \/ \E g \in Finders, s \in {"AiReviewed", "Rejected", "Settled"} : SetStatus(g, s)
             \/ \E g \in Finders : SubmitClaimV2(g)
             \/ \E g \in Finders, w \in Wallets : RejectClaimV2(w, g)
             \/ bounty.arbitration_mode = 0
      PROVE  Same
  <2>1. ASSUME NEW g \in Finders, NEW s \in {"AiReviewed", "Rejected", "Settled"},
               SetStatus(g, s)
        PROVE  Same
    <3>1. g = f => claim'[f].status # "Disputed"
      BY <2>1 DEF SetStatus, ClaimV2
    <3>2. g # f => claim'[f] = claim[f]
      BY <2>1 DEF SetStatus
    <3> QED
      BY <1>1, <3>1, <3>2
  <2>2. ASSUME NEW g \in Finders, SubmitClaimV2(g)
        PROVE  Same
    <3>1. g = f => claim'[f].status # "Disputed"
      BY <2>2 DEF SubmitClaimV2, NoClaim
    <3>2. g # f => claim'[f] = claim[f]
      BY <2>2 DEF SubmitClaimV2
    <3> QED
      BY <1>1, <3>1, <3>2
  <2>3. ASSUME NEW g \in Finders, NEW w \in Wallets, RejectClaimV2(w, g)
        PROVE  Same
    <3>1. CASE SetStatus(g, "Rejected")
      BY <2>1, <3>1
    <3>2. CASE claim' = [claim EXCEPT ![g].status = "RejectionPending",
                                      ![g].dispute_deadline = now + RejectWindow]
      <4>1. g = f => claim'[f].status # "Disputed"
        BY <3>2 DEF ClaimV2
      <4>2. g # f => claim'[f] = claim[f]
        BY <3>2
      <4> QED
        BY <1>1, <4>1, <4>2
    <3> QED
      BY <2>3, <3>1, <3>2 DEF RejectClaimV2
  <2> QED
    BY <1>1, <2>1, <2>2, <2>3
<1>2. CASE BountyStep
  BY <1>1, <1>2 DEF BountyStep, arbitrationVars
<1>3. CASE ClaimStep
  <2>1. UNCHANGED dispute_case
    BY <1>3 DEF ClaimStep, arbitrationVars
  <2>2. ASSUME NEW g \in Finders,
               \/ FinalizeRejectionV2(g) \/ TimeoutDisputeV2(g)
               \/ SubmitClaimV2(g) \/ SubmitClaimV2Sponsored(g)
        PROVE  Same
    BY <1>1, <2>1, <2>2 DEF FinalizeRejectionV2, TimeoutDisputeV2, SubmitClaimV2Sponsored
  <2>3. ASSUME NEW g \in Finders, NEW w \in Wallets,
               \/ RecordAiReviewV2(w, g) \/ AcceptClaimV2(w, g) \/ RejectClaimV2(w, g)
               \/ OpenDisputeV2(w, g)
               \/ \E release \in BOOLEAN : ResolveDisputeV2(w, g, release)
        PROVE  Same
    BY <1>1, <2>1, <2>3
       DEF RecordAiReviewV2, AcceptClaimV2, OpenDisputeV2, ResolveDisputeV2, SettleTo
  <2> QED
    BY <1>3, <2>2, <2>3 DEF ClaimStep
<1>4. CASE ArbitrationStep
  <2>1. ASSUME NEW w \in Wallets, NEW arbiters \in SUBSET Wallets,
               ConfigureArbitrationPanel(w, arbiters)
        PROVE  Goal
    BY <2>1 DEF ConfigureArbitrationPanel
  <2>2. ASSUME NEW g \in Finders, NEW w \in Wallets, OpenDisputeV3(w, g)
        PROVE  Goal
    <3>1. CASE g = f
      BY <2>2, <3>1 DEF OpenDisputeV3, OpenDisputeV3Accounts, EnterDispute, NoCase
    <3>2. CASE g # f
      BY <2>2, <3>2 DEF OpenDisputeV3, EnterDispute
    <3> QED
      BY <3>1, <3>2
  <2>3. ASSUME NEW g \in Finders, NEW w \in Wallets, NEW choice \in {Release, Reject},
               CastArbitrationVote(w, g, choice)
        PROVE  Goal
    <3>1. CASE g = f
      BY <2>3, <3>1
         DEF CastArbitrationVote, MayVote, CastArbitrationVoteAccounts, Counted, DisputeCase
    <3>2. CASE g # f
      BY <2>3, <3>2 DEF CastArbitrationVote
    <3> QED
      BY <3>1, <3>2
  <2>4. ASSUME NEW g \in Finders, FinalizeDisputeRelease(g) \/ FinalizeDisputeReject(g)
        PROVE  Goal
    <3>0. /\ dispute_case' = [dispute_case EXCEPT ![g].finalized = TRUE]
          /\ dispute_case[g].exists /\ claim[g].status = "Disputed"
          /\ \E s \in {"Rejected", "Settled"} : SetStatus(g, s)
      BY <2>4 DEF FinalizeDisputeRelease, FinalizeDisputeReject, Finalizable,
                  FinalizeDisputeAccounts, SettleTo
    <3>1. CASE g = f
      BY <3>0, <3>1 DEF SetStatus, DisputeCase, ClaimV2
    <3>2. CASE g # f
      BY <3>0, <3>2 DEF SetStatus
    <3> QED
      BY <3>1, <3>2
  <2> QED
    BY <1>4, <2>1, <2>2, <2>3, <2>4 DEF ArbitrationStep
<1>5. CASE UNCHANGED vars
  BY <1>1, <1>5 DEF vars, arbitrationVars
<1> QED
  BY <1>2, <1>3, <1>4, <1>5 DEF Next

\* Every step keeps cases and disputes together.
LEMMA CasesStep ==
    ASSUME TypeOK, CaseInv, Fresh, DisputeLock, Panels, Cases, [Next]_vars
    PROVE  Cases'
<1> USE DEF TypeOK, BountyTypeOK, BountyAccount
<1> SUFFICES ASSUME NEW f \in Finders
             PROVE  /\ claim'[f].status = "RejectionPending" => bounty'.workflow_version = 1
                    /\ dispute_case'[f].exists =>
                          claim'[f].status \in {"Disputed", "Rejected", "Settled"}
                    /\ claim'[f].status = "Disputed" /\ bounty'.arbitration_mode = 1 =>
                          dispute_case'[f].exists
                    /\ claim'[f].status = "Disputed" => ~dispute_case'[f].finalized
  BY DEF Cases
<1>1. Shape
  BY StepShapes
<1>2. \/ claim'[f] = claim[f]
      \/ claim[f].status = "Absent" /\ claim'[f].status = "Submitted"
      \/ claim[f].status \in Reviewable /\ claim'[f].status \in {"AiReviewed", "Rejected"}
      \/ /\ claim[f].status \in Reviewable /\ claim'[f].status = "RejectionPending"
         /\ bounty.workflow_version = 1 /\ UNCHANGED bounty
      \/ /\ claim[f].status \in Reviewable \cup {"RejectionPending", "Disputed"}
         /\ claim'[f].status \in {"Rejected", "Settled"}
      \/ /\ claim[f].status \in Reviewable \cup {"RejectionPending"}
         /\ claim'[f].status = "Disputed"
  <2>1. ASSUME NEW g \in Finders, ClaimShape(g), g # f
        PROVE  claim'[f] = claim[f]
    BY <2>1 DEF ClaimShape, Submitted, Judged, RejectionFinal, Settled, DisputeOpened,
                DisputeFailed, ClaimBecomes
  <2>2. CASE ClaimShape(f)
    BY <2>2 DEF ClaimShape, Submitted, Judged, RejectionFinal, Settled, DisputeOpened,
                DisputeFailed, ClaimBecomes
  <2>3. CASE UNCHANGED claim
    BY <2>3
  <2>4. (\E g \in Finders : ClaimShape(g)) \/ UNCHANGED claim
    BY <1>1 DEF Shape, Created, Funding, Cancelled, Refunded, PanelConfigured, Elsewhere
  <2> QED
    BY <2>1, <2>2, <2>3, <2>4
<1>3. bounty'.workflow_version = bounty.workflow_version \/ bounty.status = "Absent"
  BY <1>1 DEF Shape, Created, Funding, Cancelled, Refunded, PanelConfigured, Elsewhere,
              ClaimShape, Submitted, Judged, RejectionFinal, Settled, DisputeOpened,
              DisputeFailed, BountyBecomes
<1>4. claim'[f].status = "RejectionPending" => bounty'.workflow_version = 1
  BY <1>2, <1>3 DEF Cases, Fresh, Reviewable
<1>5. dispute_case[f].exists =>
         /\ claim[f].status \in {"Disputed", "Rejected", "Settled"}
         /\ claim'[f].status \in {"Disputed", "Rejected", "Settled"}
         /\ claim'[f].status = "Disputed" => claim'[f] = claim[f]
  BY <1>2 DEF Cases, Reviewable
<1>6. ~dispute_case[f].exists => ~dispute_case[f].finalized
  BY DEF CaseInv, NoCase
<1>7. bounty'.arbitration_mode = 1 /\ claim[f].status = "Disputed" =>
         bounty.arbitration_mode = 1
  <2>1. claim[f].status = "Disputed" => bounty.status = "Disputed"
    BY DEF DisputeLock
  <2> QED
    BY <1>1, <2>1
       DEF Shape, Created, Funding, Cancelled, Refunded, PanelConfigured, Elsewhere,
           ClaimShape, Submitted, Judged, RejectionFinal, Settled, DisputeOpened,
           DisputeFailed, BountyBecomes
<1>8. claim[f].status # "Disputed" /\ claim'[f].status = "Disputed" =>
         bounty'.arbitration_mode = bounty.arbitration_mode
  <2>1. claim[f].status # "Disputed" /\ claim'[f].status = "Disputed" =>
           \E g \in Finders : ClaimShape(g)
    BY <1>1 DEF Shape, Created, Funding, Cancelled, Refunded, PanelConfigured, Elsewhere
  <2> QED
    BY <2>1 DEF ClaimShape, Submitted, Judged, RejectionFinal, Settled, DisputeOpened,
                DisputeFailed, BountyBecomes
<1> QED
  BY <1>4, <1>5, <1>6, <1>7, <1>8, CaseMoves DEF Cases

\* What the pages rely on beside the invariants of the run.
LEMMA OrderlyCorrect == Spec => []Orderly
<1>1. Init => Orderly
  BY BountyAssumption
     DEF Init, ArbitrationInit, NoBounty, Draft, NoClaim, NoCase, Orderly, Drafts, Panels,
         Cases
<1>2. IInv /\ Orderly /\ [Next]_vars => Orderly'
  BY StepShapes, DraftsStep, PanelsStep, CasesStep
     DEF IInv, Strengthening, Safety, Orderly
<1> QED
  BY <1>1, <1>2, IInvCorrect, PTL DEF Spec

(***************************************************************************)
(* The way out of the escrow.                                              *)
(***************************************************************************)

\* A bounty that exists promises something, under protocol 2, and a claim that
\* waits for a window to pass knows when.
Scheduled ==
    /\ bounty.status # "Absent" => bounty.reward_amount > 0 /\ bounty.protocol_version >= 2
    /\ \A f \in Finders :
          /\ claim[f].status = "RejectionPending" => claim[f].dispute_deadline > 0
          /\ claim[f].status = "Disputed" => claim[f].resolution_deadline > 0

\* Every instruction but the creating one leaves the terms of the bounty alone.
LEMMA TermsStay ==
    ASSUME TypeOK, [Next]_vars
    PROVE  \/ /\ bounty'.status = "Draft"
              /\ bounty'.reward_amount > 0 /\ bounty'.protocol_version = 2
           \/ /\ bounty.status = "Absent" => bounty'.status = "Absent"
              /\ bounty'.reward_amount = bounty.reward_amount
              /\ bounty'.protocol_version = bounty.protocol_version
<1> DEFINE Terms == /\ bounty.status = "Absent" => bounty'.status = "Absent"
                    /\ bounty'.reward_amount = bounty.reward_amount
                    /\ bounty'.protocol_version = bounty.protocol_version
<1> USE DEF TypeOK, BountyTypeOK, BountyAccount
<1>1. ASSUME NEW w \in Wallets, NEW a \in Wallets, NEW r \in Rewards, NEW d \in Deadlines,
             CreateBountyV2(w, a, r, d) \/ CreateBountySponsored(w, a, r, d)
      PROVE  /\ bounty'.status = "Draft"
             /\ bounty'.reward_amount > 0 /\ bounty'.protocol_version = 2
  BY <1>1 DEF CreateBountyV2, CreateBountySponsored, InitializeBounty, Draft
<1>2. ASSUME NEW w \in Wallets, NEW amount \in 1..Supply,
             FundBounty(w, amount) \/ FundBountySponsored(w, amount)
      PROVE  Terms
  BY <1>2 DEF FundBountySponsored, FundBounty, ValidateFunding, ApplyFunding
<1>3. ASSUME NEW w \in Wallets, CancelBounty(w) \/ RefundAfterExpiry(w)
      PROVE  Terms
  BY <1>3 DEF CancelBounty, RefundAfterExpiry, Refundable
<1>4. ASSUME NEW f \in Finders, SettleTo(f), bounty.status \in {"Funded", "Disputed"}
      PROVE  Terms
  BY <1>4 DEF SettleTo
<1>5. ASSUME ResumeAfterV2Reject \/ LockForV2Dispute \/ UNCHANGED bounty
      PROVE  Terms
  BY <1>5 DEF ResumeAfterV2Reject, LockForV2Dispute
<1>6. CASE BountyStep
  BY <1>1, <1>2, <1>3, <1>5, <1>6 DEF BountyStep, ExternalDeposit, Tick
<1>7. CASE ClaimStep
  <2>1. ASSUME NEW f \in Finders,
               SubmitClaimV2(f) \/ SubmitClaimV2Sponsored(f) \/ FinalizeRejectionV2(f)
        PROVE  Terms
    BY <2>1 DEF SubmitClaimV2Sponsored, SubmitClaimV2, FinalizeRejectionV2
  <2>2. ASSUME NEW f \in Finders, TimeoutDisputeV2(f)
        PROVE  Terms
    BY <1>5, <2>2 DEF TimeoutDisputeV2
  <2>3. ASSUME NEW f \in Finders, NEW w \in Wallets,
               \/ RecordAiReviewV2(w, f) \/ RejectClaimV2(w, f) \/ OpenDisputeV2(w, f)
        PROVE  Terms
    BY <1>5, <2>3 DEF RecordAiReviewV2, RejectClaimV2, OpenDisputeV2, bountyVars
  <2>4. ASSUME NEW f \in Finders, NEW w \in Wallets, NEW release \in BOOLEAN,
               AcceptClaimV2(w, f) \/ ResolveDisputeV2(w, f, release)
        PROVE  Terms
    BY <1>4, <1>5, <2>4 DEF AcceptClaimV2, ResolveDisputeV2
  <2> QED
    BY <1>7, <2>1, <2>2, <2>3, <2>4 DEF ClaimStep
<1>8. CASE ArbitrationStep
  <2>1. ASSUME NEW w \in Wallets, NEW arbiters \in SUBSET Wallets,
               ConfigureArbitrationPanel(w, arbiters)
        PROVE  Terms
    BY <2>1 DEF ConfigureArbitrationPanel
  <2>2. ASSUME NEW f \in Finders, FinalizeDisputeRelease(f) \/ FinalizeDisputeReject(f)
        PROVE  Terms
    BY <1>4, <1>5, <2>2 DEF FinalizeDisputeRelease, FinalizeDisputeReject, Finalizable
  <2>3. ASSUME NEW f \in Finders, NEW w \in Wallets, NEW choice \in {Release, Reject},
               OpenDisputeV3(w, f) \/ CastArbitrationVote(w, f, choice)
        PROVE  Terms
    BY <1>5, <2>3 DEF OpenDisputeV3, CastArbitrationVote, bountyVars
  <2> QED
    BY <1>8, <2>1, <2>2, <2>3 DEF ArbitrationStep
<1>9. CASE UNCHANGED vars
  BY <1>5, <1>9 DEF vars, bountyVars
<1> QED
  BY <1>6, <1>7, <1>8, <1>9 DEF Next

\* A window begins with its end.
LEMMA WindowsEnd ==
    ASSUME TypeOK, [Next]_vars, NEW f \in Finders
    PROVE  \/ claim'[f].status \notin {"RejectionPending", "Disputed"}
           \/ claim'[f] = claim[f]
           \/ claim'[f].status = "RejectionPending" /\ claim'[f].dispute_deadline > 0
           \/ claim'[f].status = "Disputed" /\ claim'[f].resolution_deadline > 0
<1> DEFINE Ends == \/ claim'[f].status \notin {"RejectionPending", "Disputed"}
                   \/ claim'[f] = claim[f]
                   \/ claim'[f].status = "RejectionPending" /\ claim'[f].dispute_deadline > 0
                   \/ claim'[f].status = "Disputed" /\ claim'[f].resolution_deadline > 0
<1> USE ClaimsAssumption, BountyAssumption DEF TypeOK, BountyTypeOK, ClaimsTypeOK
<1>1. ASSUME NEW g \in Finders, NEW s \in {"AiReviewed", "Rejected", "Settled"},
             SetStatus(g, s)
      PROVE  Ends
  <2>1. CASE g = f
    BY <1>1, <2>1 DEF SetStatus, ClaimV2
  <2>2. CASE g # f
    BY <1>1, <2>2 DEF SetStatus
  <2> QED
    BY <2>1, <2>2
<1>2. ASSUME NEW g \in Finders, EnterDispute(g)
      PROVE  Ends
  <2>1. CASE g = f
    BY <1>2, <2>1 DEF EnterDispute
  <2>2. CASE g # f
    BY <1>2, <2>2 DEF EnterDispute
  <2> QED
    BY <2>1, <2>2
<1>3. ASSUME NEW g \in Finders, SubmitClaimV2(g)
      PROVE  Ends
  <2>1. CASE g = f
    BY <1>3, <2>1 DEF SubmitClaimV2, NoClaim
  <2>2. CASE g # f
    BY <1>3, <2>2 DEF SubmitClaimV2
  <2> QED
    BY <2>1, <2>2
<1>4. ASSUME NEW g \in Finders, NEW w \in Wallets, RejectClaimV2(w, g)
      PROVE  Ends
  <2>1. CASE SetStatus(g, "Rejected")
    BY <1>1, <2>1
  <2>2. CASE claim' = [claim EXCEPT ![g].status = "RejectionPending",
                                    ![g].dispute_deadline = now + RejectWindow]
    <3>1. CASE g = f
      BY <2>2, <3>1 DEF ClaimV2
    <3>2. CASE g # f
      BY <2>2, <3>2
    <3> QED
      BY <3>1, <3>2
  <2> QED
    BY <1>4, <2>1, <2>2 DEF RejectClaimV2
<1>5. CASE UNCHANGED claim
  BY <1>5
<1>6. CASE BountyStep
  BY <1>5, <1>6 DEF BountyStep
<1>7. CASE ClaimStep
  <2>1. ASSUME NEW g \in Finders,
               \/ FinalizeRejectionV2(g) \/ TimeoutDisputeV2(g)
               \/ SubmitClaimV2(g) \/ SubmitClaimV2Sponsored(g)
        PROVE  Ends
    BY <1>1, <1>3, <2>1 DEF FinalizeRejectionV2, TimeoutDisputeV2, SubmitClaimV2Sponsored
  <2>2. ASSUME NEW g \in Finders, NEW w \in Wallets,
               \/ RecordAiReviewV2(w, g) \/ AcceptClaimV2(w, g) \/ RejectClaimV2(w, g)
               \/ OpenDisputeV2(w, g)
               \/ \E release \in BOOLEAN : ResolveDisputeV2(w, g, release)
        PROVE  Ends
    BY <1>1, <1>2, <1>4, <2>2
       DEF RecordAiReviewV2, AcceptClaimV2, OpenDisputeV2, ResolveDisputeV2, SettleTo
  <2> QED
    BY <1>7, <2>1, <2>2 DEF ClaimStep
<1>8. CASE ArbitrationStep
  BY <1>1, <1>2, <1>5, <1>8
     DEF ArbitrationStep, ConfigureArbitrationPanel, FinalizeDisputeRelease,
         FinalizeDisputeReject, OpenDisputeV3, CastArbitrationVote, SettleTo
<1>9. CASE UNCHANGED vars
  BY <1>5, <1>9 DEF vars
<1> QED
  BY <1>6, <1>7, <1>8, <1>9 DEF Next

LEMMA ScheduledCorrect == Spec => []Scheduled
<1>1. Init => Scheduled
  BY BountyAssumption DEF Init, NoBounty, Draft, NoClaim, Scheduled
<1>2. TypeOK /\ Scheduled /\ [Next]_vars => Scheduled'
  <2> SUFFICES ASSUME TypeOK, Scheduled, [Next]_vars
               PROVE  Scheduled'
    OBVIOUS
  <2>1. (bounty.status # "Absent" => bounty.reward_amount > 0 /\ bounty.protocol_version >= 2)'
    BY TermsStay DEF Scheduled
  <2>2. \A f \in Finders :
          /\ claim'[f].status = "RejectionPending" => claim'[f].dispute_deadline > 0
          /\ claim'[f].status = "Disputed" => claim'[f].resolution_deadline > 0
    BY WindowsEnd DEF Scheduled
  <2> QED
    BY <2>1, <2>2 DEF Scheduled
<1> QED
  BY <1>1, <1>2, TypeCorrect, PTL DEF Spec

(***************************************************************************)
(* The steps behind the buttons: what each asks for, and what it writes.   *)
(***************************************************************************)

FundAccepted(w) ==
    /\ w = Owner
    /\ bounty.status \in {"Draft", "Funded"}
    /\ RemainingFunding > 0
    /\ tokens[w] >= RemainingFunding

CancelAccepted(w) == w = Owner /\ bounty.status = "Draft" /\ bounty.amount_funded = 0

RefundAccepted == Refundable /\ vault >= bounty.amount_funded

PanelAccepted(w, arbiters) ==
    /\ w = Owner /\ panel = {}
    /\ Cardinality(arbiters) = PanelSize
    /\ Owner \notin arbiters /\ bounty.arbiter \in arbiters
    /\ bounty.protocol_version >= 2
    /\ bounty.status \in {"Draft", "Funded"}

SubmitAccepted(f) ==
    /\ SubmitClaimV2Accounts(f) /\ f # Owner
    /\ bounty.protocol_version >= 2
    /\ bounty.status = "Funded"
    /\ bounty.amount_funded >= bounty.reward_amount
    /\ now <= bounty.deadline

RejectAccepted(f) ==
    /\ bounty.protocol_version >= 2
    /\ claim[f].status \in Reviewable
    /\ bounty.workflow_version >= 1 => CheckedAdd(now, RejectWindow)

\* The escrow can pay the reward, or take the count of one claim back.
Payable == bounty.amount_funded >= bounty.reward_amount /\ vault >= bounty.reward_amount

AcceptAccepted(f) ==
    /\ bounty.protocol_version >= 2
    /\ bounty.status = "Funded"
    /\ claim[f].status \in Reviewable
    /\ Payable

DisputeAccepted(w, f) ==
    /\ bounty.arbitration_mode = 1 => OpenDisputeV3Accounts(f)
    /\ bounty.arbitration_mode \in {0, 1}
    /\ bounty.protocol_version >= 2
    /\ bounty.status = "Funded"
    /\ MayDispute(w, f)
    /\ CheckedAdd(now, ResolveWindow)

FinalizeAccepted(f) ==
    /\ FinalizeClaimV2Accounts(f)
    /\ claim[f].status = "RejectionPending"
    /\ DisputeWindowOver(f)
    /\ Decremented >= 0

TimeoutAccepted(f) ==
    /\ FinalizeClaimV2Accounts(f)
    /\ claim[f].status = "Disputed"
    /\ ResolutionWindowOver(f)
    /\ bounty.status = "Disputed"
    /\ Decremented >= 0

FinalizeArbitrationAccepted(f) ==
    \/ Finalizable(f, Release) /\ Payable
    \/ Finalizable(f, Reject) /\ Decremented >= 0

ResolveAccepted(w, f, release) ==
    /\ w = bounty.arbiter /\ f # w
    /\ bounty.protocol_version >= 2
    /\ bounty.arbitration_mode = 0
    /\ claim[f].status = "Disputed"
    /\ bounty.status = "Disputed"
    /\ IF release THEN Payable ELSE Decremented >= 0

\* The accounts after a settlement, and after a dispute that failed.
SettledBounty(f) ==
    [bounty EXCEPT !.amount_funded = @ - bounty.reward_amount, !.finder = f,
                   !.status = "Released", !.active_claims = ClosedAll]

ResumedBounty == [bounty EXCEPT !.status = "Funded", !.active_claims = Decremented]

PaidTo(f) == [tokens EXCEPT ![f] = @ + bounty.reward_amount]

\* The funding a page asks for: the whole rest, if there is any.
LEMMA FundStep ==
    ASSUME BountyTypeOK, NEW w \in Wallets
    PROVE  Fund(w) <=>
              /\ FundAccepted(w)
              /\ tokens' = [tokens EXCEPT ![w] = @ - RemainingFunding]
              /\ vault' = vault + RemainingFunding
              /\ bounty' = [bounty EXCEPT
                               !.amount_funded = @ + RemainingFunding,
                               !.status = IF bounty.amount_funded + RemainingFunding
                                                >= bounty.reward_amount
                                          THEN "Funded" ELSE @]
              /\ now' = now
<1>1. RemainingFunding \in Int
  BY DEF BountyTypeOK, BountyAccount, RemainingFunding
<1>2. RemainingFunding <= RemainingFunding
  BY <1>1
<1> QED
  BY <1>2
     DEF Fund, FundBounty, ValidateFunding, FundBountyAccounts, TransferToVault,
         ApplyFunding, FundAccepted

\* The listing page's other buttons.
LEMMA ListingSteps ==
    ASSUME NEW w \in Wallets, NEW arbiters, NEW f \in Finders
    PROVE  /\ Cancel(w) <=>
                 /\ CancelAccepted(w)
                 /\ bounty' = [bounty EXCEPT !.status = "Cancelled"]
                 /\ UNCHANGED <<vault, tokens, now>>
           /\ Refund(Owner) <=>
                 /\ RefundAccepted
                 /\ tokens' = [tokens EXCEPT ![Owner] = @ + bounty.amount_funded]
                 /\ vault' = vault - bounty.amount_funded
                 /\ bounty' = [bounty EXCEPT !.amount_funded = 0, !.status = "Refunded"]
                 /\ now' = now
           /\ ConfigurePanel(w, arbiters) <=>
                 /\ PanelAccepted(w, arbiters)
                 /\ panel' = arbiters
                 /\ bounty' = [bounty EXCEPT !.arbitration_mode = 1]
                 /\ UNCHANGED <<vault, tokens, now, claim, dispute_case, vote>>
           /\ SubmitClaim(f) <=>
                 /\ SubmitAccepted(f)
                 /\ claim' = [claim EXCEPT ![f] = [NoClaim EXCEPT !.status = "Submitted"]]
                 /\ bounty' = [bounty EXCEPT !.active_claims = @ + bounty.workflow_version]
                 /\ UNCHANGED <<vault, tokens, now>>
<1>1. Cancel(w) <=> /\ CancelAccepted(w)
                    /\ bounty' = [bounty EXCEPT !.status = "Cancelled"]
                    /\ UNCHANGED <<vault, tokens, now>>
  BY DEF Cancel, CancelBounty, CancelBountyAccounts, CancelAccepted
<1>2. Refund(Owner) <=>
         /\ RefundAccepted
         /\ tokens' = [tokens EXCEPT ![Owner] = @ + bounty.amount_funded]
         /\ vault' = vault - bounty.amount_funded
         /\ bounty' = [bounty EXCEPT !.amount_funded = 0, !.status = "Refunded"]
         /\ now' = now
  BY DEF Refund, RefundAfterExpiry, RefundAfterExpiryAccounts, TransferFromVault,
         RefundAccepted
<1>3. ConfigurePanel(w, arbiters) <=>
         /\ PanelAccepted(w, arbiters)
         /\ panel' = arbiters
         /\ bounty' = [bounty EXCEPT !.arbitration_mode = 1]
         /\ UNCHANGED <<vault, tokens, now, claim, dispute_case, vote>>
  BY DEF ConfigurePanel, ConfigureArbitrationPanel, ConfigureArbitrationPanelAccounts,
         PanelAccepted
<1>4. SubmitClaim(f) <=>
         /\ SubmitAccepted(f)
         /\ claim' = [claim EXCEPT ![f] = [NoClaim EXCEPT !.status = "Submitted"]]
         /\ bounty' = [bounty EXCEPT !.active_claims = @ + bounty.workflow_version]
         /\ UNCHANGED <<vault, tokens, now>>
  BY DEF SubmitClaim, SubmitClaimV2, SubmitAccepted
<1> QED
  BY <1>1, <1>2, <1>3, <1>4

\* A settlement's effects.
SettleEffects(f) ==
    /\ bounty' = SettledBounty(f)
    /\ vault' = vault - bounty.reward_amount
    /\ tokens' = PaidTo(f)
    /\ claim' = [claim EXCEPT ![f].status = "Settled"]

\* The effects of a dispute that ends without a payment.
ResumeEffects(f) ==
    /\ bounty' = ResumedBounty
    /\ claim' = [claim EXCEPT ![f].status = "Rejected"]
    /\ UNCHANGED <<vault, tokens>>

\* The buttons of the panel under a claim (reject_claim_v2, accept_claim_v2,
\* open_dispute_v2 and _v3, finalize_rejection_v2, timeout_dispute_v2).
LEMMA ClaimPanelSteps ==
    ASSUME NEW f \in Finders, NEW w \in Wallets
    PROVE  /\ RejectClaim(Owner, f) <=>
                 /\ RejectAccepted(f)
                 /\ claim' = IF bounty.workflow_version >= 1
                             THEN [claim EXCEPT ![f].status = "RejectionPending",
                                                ![f].dispute_deadline = now + RejectWindow]
                             ELSE [claim EXCEPT ![f].status = "Rejected"]
                 /\ UNCHANGED bountyVars
           /\ AcceptClaim(Owner, f) <=>
                 AcceptAccepted(f) /\ SettleEffects(f) /\ now' = now
           /\ bounty.arbitration_mode = 0 =>
                 (Dispute(w, f) <=>
                     /\ DisputeAccepted(w, f)
                     /\ bounty' = [bounty EXCEPT !.status = "Disputed"]
                     /\ claim' = [claim EXCEPT
                                     ![f] = [status |-> "Disputed",
                                             dispute_deadline |-> 0,
                                             resolution_deadline |-> now + ResolveWindow]]
                     /\ UNCHANGED <<vault, tokens, now>>)
           /\ bounty.arbitration_mode = 1 =>
                 (Dispute(w, f) <=>
                     /\ DisputeAccepted(w, f)
                     /\ bounty' = [bounty EXCEPT !.status = "Disputed"]
                     /\ claim' = [claim EXCEPT
                                     ![f] = [status |-> "Disputed",
                                             dispute_deadline |-> 0,
                                             resolution_deadline |-> now + ResolveWindow]]
                     /\ dispute_case' = [dispute_case EXCEPT
                                            ![f] = [NoCase EXCEPT !.exists = TRUE]]
                     /\ UNCHANGED <<vault, tokens, now, panel, vote>>)
           /\ FinalizeRejection(f) <=>
                 /\ FinalizeAccepted(f)
                 /\ claim' = [claim EXCEPT ![f].status = "Rejected"]
                 /\ bounty' = [bounty EXCEPT !.active_claims = Decremented]
                 /\ UNCHANGED <<vault, tokens, now>>
           /\ TimeoutDispute(f) <=>
                 TimeoutAccepted(f) /\ ResumeEffects(f) /\ now' = now
<1>1. RejectClaim(Owner, f) <=>
         /\ RejectAccepted(f)
         /\ claim' = IF bounty.workflow_version >= 1
                     THEN [claim EXCEPT ![f].status = "RejectionPending",
                                        ![f].dispute_deadline = now + RejectWindow]
                     ELSE [claim EXCEPT ![f].status = "Rejected"]
         /\ UNCHANGED bountyVars
  BY DEF RejectClaim, RejectClaimV2, RejectClaimV2Accounts, RejectAccepted, SetStatus
<1>2. SettleTo(f) <=> Payable /\ SettleEffects(f)
  BY DEF SettleTo, SettleEffects, SettledBounty, PaidTo, Payable, TransferFromVault, SetStatus
<1>3. ResumeAfterV2Reject /\ SetStatus(f, "Rejected") /\ UNCHANGED <<vault, tokens>> <=>
         bounty.status = "Disputed" /\ Decremented >= 0 /\ ResumeEffects(f)
  BY DEF ResumeAfterV2Reject, SetStatus, ResumeEffects, ResumedBounty
<1>4. AcceptClaim(Owner, f) <=> AcceptAccepted(f) /\ SettleEffects(f) /\ now' = now
  BY <1>2 DEF AcceptClaim, AcceptClaimV2, AcceptClaimV2Accounts, AcceptAccepted
<1>5. TimeoutDispute(f) <=> TimeoutAccepted(f) /\ ResumeEffects(f) /\ now' = now
  BY <1>3 DEF TimeoutDispute, TimeoutDisputeV2, TimeoutAccepted
<1>6. FinalizeRejection(f) <=>
         /\ FinalizeAccepted(f)
         /\ claim' = [claim EXCEPT ![f].status = "Rejected"]
         /\ bounty' = [bounty EXCEPT !.active_claims = Decremented]
         /\ UNCHANGED <<vault, tokens, now>>
  BY DEF FinalizeRejection, FinalizeRejectionV2, FinalizeAccepted, SetStatus
<1> QED
  BY <1>1, <1>4, <1>5, <1>6
     DEF Dispute, OpenDisputeV2, OpenDisputeV3, LockForV2Dispute, EnterDispute, DisputeAccepted

\* The buttons of the arbitration desk (cast_arbitration_vote,
\* finalize_dispute_release and _reject, resolve_dispute_v2).
LEMMA DeskSteps ==
    ASSUME NEW f \in Finders, NEW w \in Wallets, NEW choice \in {Release, Reject}
    PROVE  /\ VoteArbitration(w, f, choice) <=>
                 /\ MayVote(w, f)
                 /\ dispute_case' = [dispute_case EXCEPT ![f] = Counted(@, choice)]
                 /\ vote' = [vote EXCEPT ![f][w] = choice]
                 /\ UNCHANGED <<bountyVars, claim, panel>>
           /\ dispute_case[f].decision = Release =>
                 (FinalizeArbitration(f) <=>
                     /\ FinalizeArbitrationAccepted(f)
                     /\ SettleEffects(f)
                     /\ dispute_case' = [dispute_case EXCEPT ![f].finalized = TRUE]
                     /\ UNCHANGED <<now, panel, vote>>)
           /\ dispute_case[f].decision = Reject =>
                 (FinalizeArbitration(f) <=>
                     /\ FinalizeArbitrationAccepted(f)
                     /\ ResumeEffects(f)
                     /\ dispute_case' = [dispute_case EXCEPT ![f].finalized = TRUE]
                     /\ UNCHANGED <<now, panel, vote>>)
           /\ ResolveDispute(w, f, TRUE) <=>
                 ResolveAccepted(w, f, TRUE) /\ SettleEffects(f) /\ now' = now
           /\ ResolveDispute(w, f, FALSE) <=>
                 ResolveAccepted(w, f, FALSE) /\ ResumeEffects(f) /\ now' = now
<1>1. SettleTo(f) <=> Payable /\ SettleEffects(f)
  BY DEF SettleTo, SettleEffects, SettledBounty, PaidTo, Payable, TransferFromVault, SetStatus
<1>2. ResumeAfterV2Reject /\ SetStatus(f, "Rejected") /\ UNCHANGED <<vault, tokens>> <=>
         bounty.status = "Disputed" /\ Decremented >= 0 /\ ResumeEffects(f)
  BY DEF ResumeAfterV2Reject, SetStatus, ResumeEffects, ResumedBounty
<1>3. ASSUME dispute_case[f].decision = Release
      PROVE  FinalizeArbitration(f) <=>
                     /\ FinalizeArbitrationAccepted(f)
                     /\ SettleEffects(f)
                     /\ dispute_case' = [dispute_case EXCEPT ![f].finalized = TRUE]
                     /\ UNCHANGED <<now, panel, vote>>
  BY <1>1, <1>3
     DEF FinalizeArbitration, FinalizeDisputeRelease, FinalizeArbitrationAccepted,
         Finalizable, Release, Reject
<1>4. ASSUME dispute_case[f].decision = Reject
      PROVE  FinalizeArbitration(f) <=>
                     /\ FinalizeArbitrationAccepted(f)
                     /\ ResumeEffects(f)
                     /\ dispute_case' = [dispute_case EXCEPT ![f].finalized = TRUE]
                     /\ UNCHANGED <<now, panel, vote>>
  BY <1>2, <1>4
     DEF FinalizeArbitration, FinalizeDisputeReject, FinalizeArbitrationAccepted,
         Finalizable, Release, Reject
<1>5. ResolveDispute(w, f, TRUE) <=>
         ResolveAccepted(w, f, TRUE) /\ SettleEffects(f) /\ now' = now
  BY <1>1 DEF ResolveDispute, ResolveDisputeV2, ResolveDisputeV2Accounts, ResolveAccepted
<1>6. ResolveDispute(w, f, FALSE) <=>
         ResolveAccepted(w, f, FALSE) /\ ResumeEffects(f) /\ now' = now
  BY <1>2 DEF ResolveDispute, ResolveDisputeV2, ResolveDisputeV2Accounts, ResolveAccepted
<1>7. VoteArbitration(w, f, choice) <=>
         /\ MayVote(w, f)
         /\ dispute_case' = [dispute_case EXCEPT ![f] = Counted(@, choice)]
         /\ vote' = [vote EXCEPT ![f][w] = choice]
         /\ UNCHANGED <<bountyVars, claim, panel>>
  BY DEF VoteArbitration, CastArbitrationVote
<1> QED
  BY <1>3, <1>4, <1>5, <1>6, <1>7

\* A reward that is still locked when the deadline is over, with timestamps far
\* from the largest i64.
LockedTooLong ==
    /\ bounty.status \in {"Funded", "Disputed"}
    /\ now > bounty.deadline
    /\ CheckedAdd(now, RejectWindow)

\* The owner can sit a window out or is offered a step the program accepts.
ExitOpen ==
    \/ WindowOpen
    \/ RefundOffered(Owner) /\ RefundAccepted
    \/ \E f \in Finders : \E stage \in Stages(f) :
          \/ RejectOffered(Owner, f, stage) /\ RejectAccepted(f)
          \/ FinalizeRejectionOffered(Owner, f, stage) /\ FinalizeAccepted(f)
          \/ TimeoutDisputeOffered(Owner, f, stage) /\ TimeoutAccepted(f)

\* An open claim has been counted.
LEMMA OpenClaimIsCounted ==
    ASSUME IInv, bounty.status \in {"Funded", "Disputed"}
    PROVE  /\ OpenClaims = {} => bounty.active_claims = 0
           /\ OpenClaims # {} => Decremented >= 0
<1>1. bounty.active_claims \in Nat /\ bounty.workflow_version \in {0, 1}
  BY DEF IInv, TypeOK, BountyTypeOK, BountyAccount
<1>2. CASE bounty.workflow_version = 0
  BY <1>1, <1>2 DEF IInv, Safety, ActiveClaimsCounted, Decremented
<1>3. CASE bounty.workflow_version = 1
  <2>1. bounty.active_claims = Cardinality(OpenClaims)
    BY <1>3 DEF IInv, Safety, ActiveClaimsCounted
  <2>2. Cardinality(OpenClaims) = 0 <=> OpenClaims = {}
    BY OpenClaimsFinite, FS_EmptySet
  <2> QED
    BY <1>1, <1>3, <2>1, <2>2 DEF Decremented
<1> QED
  BY <1>1, <1>2, <1>3

\* Whatever the finders, the arbiters and the panel did or left undone, while a
\* reward is locked past its deadline the pages offer its owner a step towards
\* getting it out that the program accepts, or a window is still running (the
\* refund, reject, finalize and timeout buttons).
THEOREM ExitStaysOpen == Spec => [](LockedTooLong => ExitOpen)
<1>1. ASSUME IInv, Scheduled, LockedTooLong
      PROVE  ExitOpen
  <2> USE DEF IInv, LockedTooLong
  <2>1. /\ bounty.reward_amount > 0 /\ bounty.protocol_version >= 2
        /\ bounty.amount_funded = bounty.reward_amount
        /\ vault >= bounty.amount_funded
        /\ bounty.active_claims \in Nat
        /\ now \in Nat
    BY <1>1, BountyAssumption
       DEF Scheduled, Safety, Backed, TypeOK, BountyTypeOK, BountyAccount
  <2>2. \A f \in Finders : /\ claim[f] \in ClaimV2
                           /\ claim[f].dispute_deadline \in Nat
                           /\ claim[f].resolution_deadline \in Nat
    BY <1>1 DEF TypeOK, ClaimsTypeOK, ClaimV2
  <2>3. CASE bounty.status = "Funded" /\ OpenClaims = {}
    <3>1. RefundOffered(Owner)
      BY <1>1, <2>3, OpenClaimIsCounted DEF RefundOffered, IsOwner
    <3>2. RefundAccepted
      BY <1>1, <2>1, <2>3, OpenClaimIsCounted DEF RefundAccepted, Refundable
    <3> QED
      BY <3>1, <3>2 DEF ExitOpen
  <2>4. ASSUME NEW f \in Finders, claim[f].status \in Reviewable, bounty.status = "Funded"
        PROVE  ExitOpen
    <3>1. Stages(f) = ActiveStages
      BY <2>4 DEF Stages, PassedOver, Reviewable
    <3>2. "awaiting_review" \in Stages(f)
      BY <3>1 DEF ActiveStages
    <3>3. RejectOffered(Owner, f, "awaiting_review")
      BY <2>4 DEF RejectOffered, ChainActiveStatus, IsPayableClaimStatus, CanMutateWorkflow
    <3>4. RejectAccepted(f)
      BY <1>1, <2>1, <2>4 DEF RejectAccepted
    <3> QED
      BY <3>2, <3>3, <3>4 DEF ExitOpen
  <2>5. ASSUME NEW f \in Finders, claim[f].status = "RejectionPending",
               bounty.status = "Funded"
        PROVE  ExitOpen
    <3>1. CASE now <= claim[f].dispute_deadline
      BY <2>5, <3>1 DEF ExitOpen, WindowOpen
    <3>2. CASE now > claim[f].dispute_deadline
      <4>1. Stages(f) = {"rejection_pending"}
        BY <2>5 DEF Stages, PassedOver
      <4>2. claim[f].dispute_deadline > 0
        BY <1>1, <2>5 DEF Scheduled
      <4>3. f \in OpenClaims
        BY <2>5 DEF OpenClaims, Unresolved
      <4>4. FinalizeRejectionOffered(Owner, f, "rejection_pending")
        BY <3>2, <4>2 DEF FinalizeRejectionOffered, IsParty, RejectionExpired
      <4>5. FinalizeAccepted(f)
        BY <1>1, <2>5, <3>2, <4>2, <4>3, OpenClaimIsCounted
           DEF FinalizeAccepted, FinalizeClaimV2Accounts, DisputeWindowOver
      <4> QED
        BY <4>1, <4>4, <4>5 DEF ExitOpen
    <3> QED
      BY <2>1, <2>2, <3>1, <3>2
  <2>6. CASE bounty.status = "Disputed"
    <3>1. PICK f \in Finders : claim[f].status = "Disputed"
      BY <1>1, <2>6 DEF Safety, DisputeLock
    <3>2. CASE now <= claim[f].resolution_deadline
      BY <3>1, <3>2 DEF ExitOpen, WindowOpen
    <3>3. CASE now > claim[f].resolution_deadline
      <4>1. Stages(f) = {"disputed"}
        BY <2>6, <3>1 DEF Stages, PassedOver
      <4>2. claim[f].resolution_deadline > 0
        BY <1>1, <3>1 DEF Scheduled
      <4>3. f \in OpenClaims
        BY <3>1 DEF OpenClaims, Unresolved
      <4>4. TimeoutDisputeOffered(Owner, f, "disputed")
        BY <3>3, <4>2 DEF TimeoutDisputeOffered, IsParty, ResolutionExpired
      <4>5. TimeoutAccepted(f)
        BY <1>1, <2>6, <3>1, <3>3, <4>2, <4>3, OpenClaimIsCounted
           DEF TimeoutAccepted, FinalizeClaimV2Accounts, ResolutionWindowOver
      <4> QED
        BY <4>1, <4>4, <4>5 DEF ExitOpen
    <3> QED
      BY <2>1, <2>2, <3>2, <3>3
  <2>7. ASSUME bounty.status = "Funded", NEW f \in OpenClaims
        PROVE  ExitOpen
    <3>1. f \in Finders /\ claim[f].status \in Unresolved
      BY DEF OpenClaims
    <3>2. claim[f].status # "Disputed"
      BY <1>1, <2>7, <3>1 DEF Safety, DisputeLock
    <3> QED
      BY <2>4, <2>5, <2>7, <3>1, <3>2 DEF Unresolved, Reviewable
  <2> QED
    BY <1>1, <2>3, <2>6, <2>7
<1>2. IInv /\ Scheduled => (LockedTooLong => ExitOpen)
  BY <1>1
<1> QED
  BY <1>2, IInvCorrect, ScheduledCorrect, PTL

(***************************************************************************)
(* What the pages offer is accepted.                                       *)
(***************************************************************************)

\* Timestamps far from the largest i64.
ClockFits == CheckedAdd(now, RejectWindow) /\ CheckedAdd(now, ResolveWindow)

\* OfferedStepsAreAccepted with the program's guards in the place of ENABLED,
\* in three parts: the listing page, the panel under a claim, the desk.
ListingIsAccepted ==
    \A w \in Wallets :
        /\ FundOffered(w) /\ tokens[w] >= RemainingFunding => FundAccepted(w)
        /\ CancelOffered(w) /\ bounty.amount_funded = 0 => CancelAccepted(w)
        /\ RefundOffered(w) => w = Owner /\ RefundAccepted
        /\ \A arbiters \in PanelsOffered(w) :
              Cardinality(arbiters) = PanelSize /\ w \notin arbiters =>
              PanelAccepted(w, arbiters)

ClaimPanelIsAccepted ==
    \A f \in Finders :
        /\ CanClaim(f) => SubmitAccepted(f)
        /\ ClockFits =>
           \A w \in {Owner, f}, stage \in Stages(f) :
              /\ RejectOffered(w, f, stage) => w = Owner /\ RejectAccepted(f)
              /\ RewardOffered(w, f, stage) =>
                    (w = Owner /\ AcceptAccepted(f)) \/ DisputeElsewhere(f)
              /\ DisputeOffered(w, f, stage) =>
                    DisputeAccepted(w, f) \/ DisputeElsewhere(f)
              /\ FinalizeRejectionOffered(w, f, stage) => FinalizeAccepted(f)
              /\ TimeoutDisputeOffered(w, f, stage) => TimeoutAccepted(f)

DeskIsAccepted ==
    \A f \in Finders : \A w \in Wallets \ {f} :
        /\ VoteOffered(w, f) /\ ~ResolutionExpired(f) => MayVote(w, f)
        /\ FinalizeOffered(w, f) => FinalizeArbitrationAccepted(f)
        /\ ResolveOffered(w, f) =>
              \A release \in BOOLEAN : ResolveAccepted(w, f, release)

\* What is known of a bounty whose reward is locked, and of its open claims.
LEMMA LockedFacts ==
    ASSUME IInv, Scheduled, bounty.status \in {"Funded", "Disputed"}
    PROVE  /\ bounty.protocol_version >= 2
           /\ bounty.reward_amount > 0
           /\ bounty.amount_funded = bounty.reward_amount
           /\ Payable
           /\ bounty.active_claims \in Nat
           /\ \A f \in Finders : claim[f].status \in Unresolved => Decremented >= 0
<1>1. /\ bounty.reward_amount \in Nat /\ bounty.amount_funded \in Nat
      /\ vault \in Nat /\ bounty.active_claims \in Nat
  BY DEF IInv, TypeOK, BountyTypeOK, BountyAccount
<1>2. /\ bounty.amount_funded = bounty.reward_amount
      /\ vault >= bounty.amount_funded
  BY DEF IInv, Safety, Backed
<1>3. \A f \in Finders : claim[f].status \in Unresolved => Decremented >= 0
  BY OpenClaimIsCounted DEF OpenClaims
<1> QED
  BY <1>1, <1>2, <1>3 DEF Scheduled, Payable

\* The listing page.
LEMMA ListingAccepts ==
    ASSUME IInv, Scheduled, Orderly
    PROVE  ListingIsAccepted
<1> SUFFICES ASSUME NEW w \in Wallets
             PROVE  /\ FundOffered(w) /\ tokens[w] >= RemainingFunding => FundAccepted(w)
                    /\ CancelOffered(w) /\ bounty.amount_funded = 0 => CancelAccepted(w)
                    /\ RefundOffered(w) => w = Owner /\ RefundAccepted
                    /\ \A arbiters \in PanelsOffered(w) :
                          Cardinality(arbiters) = PanelSize /\ w \notin arbiters =>
                          PanelAccepted(w, arbiters)
  BY DEF ListingIsAccepted
<1>1. FundOffered(w) /\ tokens[w] >= RemainingFunding => FundAccepted(w)
  <2>1. bounty.amount_funded \in Nat /\ bounty.reward_amount \in Nat
    BY DEF IInv, TypeOK, BountyTypeOK, BountyAccount
  <2>2. bounty.status = "Draft" => bounty.amount_funded < bounty.reward_amount
    BY DEF Orderly, Drafts
  <2> QED
    BY <2>1, <2>2 DEF FundOffered, IsOwner, FundAccepted, RemainingFunding
<1>2. CancelOffered(w) /\ bounty.amount_funded = 0 => CancelAccepted(w)
  BY DEF CancelOffered, IsOwner, CancelAccepted
<1>3. RefundOffered(w) => w = Owner /\ RefundAccepted
  BY LockedFacts DEF RefundOffered, IsOwner, RefundAccepted, Refundable, Payable
<1>4. ASSUME NEW arbiters \in PanelsOffered(w),
             Cardinality(arbiters) = PanelSize, w \notin arbiters
      PROVE  PanelAccepted(w, arbiters)
  <2>1. /\ w = Owner /\ bounty.arbitration_mode = 0
        /\ bounty.status \in {"Draft", "Funded"}
        /\ bounty.arbiter \in arbiters
    BY <1>4 DEF PanelsOffered, IsOwner
  <2>2. panel = {}
    BY <2>1 DEF Orderly, Panels
  <2> QED
    BY <1>4, <2>1, <2>2 DEF PanelAccepted, Scheduled
<1> QED
  BY <1>1, <1>2, <1>3, <1>4

\* A claim that is still open keeps its bounty from being over, unless another
\* claim settled it; and its stages are those of its status.
LEMMA StageFacts ==
    ASSUME IInv, Orderly, NEW f \in Finders, NEW stage \in Stages(f),
           bounty.status \notin {"Released", "Refunded"} \/ stage \in {"rejection_pending", "disputed"}
    PROVE  /\ claim[f].status \in Unresolved => bounty.status \in {"Funded", "Disputed"}
           /\ stage = "rejection_pending" <=> claim[f].status = "RejectionPending"
           /\ stage = "disputed" <=> claim[f].status = "Disputed"
           /\ stage \in ActiveStages <=> claim[f].status \in Reviewable
<1>1. claim[f].status \in ClaimV2Status
  BY DEF IInv, TypeOK, ClaimsTypeOK, ClaimV2
<1>2. bounty.status \in BountyStatus
  BY DEF IInv, TypeOK, BountyTypeOK, BountyAccount
<1>3. claim[f].status # "Absent"
  BY DEF Stages, PassedOver, Unresolved
<1>4. bounty.status \notin {"Absent", "Draft", "Cancelled", "ClaimSubmitted", "AiReviewed", "Rejected"}
  BY <1>3 DEF Orderly, Drafts, IInv, Strengthening, Fresh
<1>5. bounty.status = "Released" => stage \in {"settled", "rejected"}
  BY <1>1, <1>3 DEF Stages, PassedOver, ClaimV2Status, Unresolved
<1>6. /\ stage = "rejection_pending" =>
            claim[f].status = "RejectionPending" /\ bounty.status # "Released"
      /\ stage = "disputed" =>
            claim[f].status = "Disputed" /\ bounty.status # "Released"
  BY <1>1, <1>3, <1>5 DEF Stages, ActiveStages, ClaimV2Status
<1>7. bounty.status = "Refunded" /\ claim[f].status = "RejectionPending" => FALSE
  BY DEF Orderly, Cases, IInv, Safety, RefundLeavesNoOpenClaim, OpenClaims, Unresolved
<1>8. claim[f].status = "Disputed" => bounty.status = "Disputed"
  BY DEF IInv, Safety, DisputeLock
<1>9. bounty.status # "Released"
  BY <1>5
<1>10. claim[f].status \in Unresolved => bounty.status \in {"Funded", "Disputed"}
  BY <1>2, <1>4, <1>6, <1>7, <1>8, <1>9 DEF BountyStatus
<1> QED
  BY <1>1, <1>3, <1>9, <1>10
     DEF Stages, PassedOver, ActiveStages, ClaimV2Status, Reviewable

\* The panel under a claim.
LEMMA ClaimPanelAccepts ==
    ASSUME IInv, Scheduled, Orderly
    PROVE  ClaimPanelIsAccepted
<1> SUFFICES ASSUME NEW f \in Finders
             PROVE  /\ CanClaim(f) => SubmitAccepted(f)
                    /\ ClockFits =>
                       \A w \in {Owner, f}, stage \in Stages(f) :
                          /\ RejectOffered(w, f, stage) => w = Owner /\ RejectAccepted(f)
                          /\ RewardOffered(w, f, stage) =>
                                (w = Owner /\ AcceptAccepted(f)) \/ DisputeElsewhere(f)
                          /\ DisputeOffered(w, f, stage) =>
                                DisputeAccepted(w, f) \/ DisputeElsewhere(f)
                          /\ FinalizeRejectionOffered(w, f, stage) => FinalizeAccepted(f)
                          /\ TimeoutDisputeOffered(w, f, stage) => TimeoutAccepted(f)
  BY DEF ClaimPanelIsAccepted
<1>1. CanClaim(f) => SubmitAccepted(f)
  <2>1. Stages(f) = {} => claim[f].status = "Absent"
    BY DEF Stages, ActiveStages
  <2>2. f # Owner
    BY ClaimsAssumption
  <2>3. bounty.status = "Funded" =>
           /\ bounty.protocol_version >= 2 /\ bounty.amount_funded >= bounty.reward_amount
    BY LockedFacts DEF Payable
  <2> QED
    BY <2>1, <2>2, <2>3 DEF CanClaim, SubmitAccepted, SubmitClaimV2Accounts
<1>2. ASSUME ClockFits, NEW w \in {Owner, f}, NEW stage \in Stages(f),
             RejectOffered(w, f, stage)
      PROVE  /\ w = Owner /\ RejectAccepted(f)
             /\ AcceptAccepted(f) \/ DisputeElsewhere(f)
  <2>1. stage \in ActiveStages \/ claim[f].status \in Reviewable
    BY <1>2 DEF RejectOffered, IsPayableClaimStatus
  <2>2. bounty.status \notin {"Released", "Refunded"}
    BY <1>2 DEF RejectOffered, ChainActiveStatus
  <2>3. claim[f].status \in Reviewable
    BY <2>1, <2>2, StageFacts
  <2>4. bounty.status \in {"Funded", "Disputed"}
    BY <2>2, <2>3, StageFacts DEF Reviewable, Unresolved
  <2> QED
    BY <1>2, <2>3, <2>4, LockedFacts
       DEF RejectOffered, RejectAccepted, AcceptAccepted, DisputeElsewhere, ClockFits,
           Reviewable
<1>3. ASSUME ClockFits, NEW w \in {Owner, f}, NEW stage \in Stages(f),
             DisputeOffered(w, f, stage)
      PROVE  DisputeAccepted(w, f) \/ DisputeElsewhere(f)
  <2>1. \/ /\ stage \in ActiveStages
           /\ bounty.status \notin {"Released", "Refunded"}
        \/ stage = "rejection_pending" /\ w = f /\ ~RejectionExpired(f)
    BY <1>3 DEF DisputeOffered, ChainActiveStatus, ActiveStages
  <2>2. claim[f].status \in Reviewable \cup {"RejectionPending"}
    BY <2>1, StageFacts
  <2>3. bounty.status \in {"Funded", "Disputed"}
    BY <2>1, <2>2, StageFacts DEF Reviewable, Unresolved
  <2>4. MayDispute(w, f)
    <3>1. CASE stage \in ActiveStages /\ bounty.status \notin {"Released", "Refunded"}
      BY <3>1, StageFacts DEF MayDispute
    <3>2. CASE stage = "rejection_pending" /\ w = f /\ ~RejectionExpired(f)
      <4>1. claim[f].status = "RejectionPending"
        BY <3>2, StageFacts
      <4>2. claim[f].dispute_deadline \in Nat /\ claim[f].dispute_deadline > 0 /\ now \in Nat
        BY <4>1, BountyAssumption
           DEF Scheduled, IInv, TypeOK, BountyTypeOK, ClaimsTypeOK, ClaimV2
      <4> QED
        BY <3>2, <4>1, <4>2 DEF RejectionExpired, MayDispute
    <3> QED
      BY <2>1, <3>1, <3>2
  <2>5. bounty.arbitration_mode = 1 => OpenDisputeV3Accounts(f)
    BY <2>2 DEF Orderly, Panels, Cases, OpenDisputeV3Accounts, Reviewable
  <2>6. bounty.arbitration_mode \in {0, 1}
    BY DEF IInv, TypeOK, BountyTypeOK, BountyAccount
  <2>7. claim[f].status # "Disputed"
    BY <2>2 DEF Reviewable
  <2> QED
    BY <1>3, <2>3, <2>4, <2>5, <2>6, <2>7, LockedFacts
       DEF DisputeAccepted, DisputeElsewhere, ClockFits
<1>4. ASSUME NEW w \in {Owner, f}, NEW stage \in Stages(f),
             FinalizeRejectionOffered(w, f, stage)
      PROVE  FinalizeAccepted(f)
  <2>1. claim[f].status = "RejectionPending" /\ bounty.status \in {"Funded", "Disputed"}
    BY <1>4, StageFacts DEF FinalizeRejectionOffered, Unresolved
  <2>2. Decremented >= 0
    BY <2>1, LockedFacts DEF Unresolved
  <2> QED
    BY <1>4, <2>1, <2>2
       DEF FinalizeRejectionOffered, RejectionExpired, FinalizeAccepted, DisputeWindowOver,
           FinalizeClaimV2Accounts
<1>5. ASSUME NEW w \in {Owner, f}, NEW stage \in Stages(f),
             TimeoutDisputeOffered(w, f, stage)
      PROVE  TimeoutAccepted(f)
  <2>1. claim[f].status = "Disputed"
    BY <1>5, StageFacts DEF TimeoutDisputeOffered
  <2>2. bounty.status = "Disputed"
    BY <2>1 DEF IInv, Safety, DisputeLock
  <2>3. Decremented >= 0
    BY <2>1, <2>2, LockedFacts DEF Unresolved
  <2> QED
    BY <1>5, <2>1, <2>2, <2>3
       DEF TimeoutDisputeOffered, ResolutionExpired, TimeoutAccepted, ResolutionWindowOver,
           FinalizeClaimV2Accounts
<1> QED
  BY <1>1, <1>2, <1>3, <1>4, <1>5 DEF RewardOffered

\* The arbitration desk.
LEMMA DeskAccepts ==
    ASSUME IInv, Scheduled, Orderly
    PROVE  DeskIsAccepted
<1> SUFFICES ASSUME NEW f \in Finders, NEW w \in Wallets \ {f}
             PROVE  /\ VoteOffered(w, f) /\ ~ResolutionExpired(f) => MayVote(w, f)
                    /\ FinalizeOffered(w, f) => FinalizeArbitrationAccepted(f)
                    /\ ResolveOffered(w, f) =>
                          \A release \in BOOLEAN : ResolveAccepted(w, f, release)
  BY DEF DeskIsAccepted
<1>1. VoteOffered(w, f) /\ ~ResolutionExpired(f) => MayVote(w, f)
  <2>1. claim[f].status = "Disputed" => ~dispute_case[f].finalized
    BY DEF Orderly, Cases
  <2>2. /\ claim[f].resolution_deadline \in Nat /\ now \in Nat
    BY BountyAssumption DEF IInv, TypeOK, BountyTypeOK, ClaimsTypeOK, ClaimV2
  <2> QED
    BY <2>1, <2>2
       DEF VoteOffered, AssignedCase, IsQuorum, ResolutionExpired, MayVote,
           CastArbitrationVoteAccounts
<1>2. claim[f].status = "Disputed" =>
         /\ bounty.status = "Disputed" /\ Payable /\ Decremented >= 0
         /\ bounty.protocol_version >= 2
  <2>1. claim[f].status = "Disputed" => bounty.status = "Disputed"
    BY DEF IInv, Safety, DisputeLock
  <2> QED
    BY <2>1, LockedFacts DEF Unresolved
<1>3. FinalizeOffered(w, f) => FinalizeArbitrationAccepted(f)
  <2>1. dispute_case[f].decision \in {Open, Release, Reject}
    BY DEF IInv, TypeOK, ArbitrationTypeOK, DisputeCase
  <2> QED
    BY <1>2, <2>1
       DEF FinalizeOffered, AssignedCase, IsQuorum, FinalizeArbitrationAccepted, Finalizable,
           FinalizeDisputeAccounts
<1>4. ResolveOffered(w, f) => \A release \in BOOLEAN : ResolveAccepted(w, f, release)
  <2>1. claim[f].status = "Disputed" /\ bounty.arbitration_mode = 1 => IsQuorum(f)
    BY DEF Orderly, Cases, IsQuorum
  <2>2. bounty.arbitration_mode \in {0, 1}
    BY DEF IInv, TypeOK, BountyTypeOK, BountyAccount
  <2> QED
    BY <1>2, <2>1, <2>2 DEF ResolveOffered, AssignedCase, ResolveAccepted
<1> QED
  BY <1>1, <1>3, <1>4

\* In every state, each step the pages offer a party of the bounty meets every
\* condition of the instruction behind the button, with the exceptions that
\* OfferedStepsAreAccepted names (page.tsx, ClaimWorkflowPanel,
\* arbitration/page.tsx).
THEOREM ButtonsAreAccepted ==
    Spec => [](ListingIsAccepted /\ ClaimPanelIsAccepted /\ DeskIsAccepted)
<1>1. IInv /\ Scheduled /\ Orderly =>
         ListingIsAccepted /\ ClaimPanelIsAccepted /\ DeskIsAccepted
  BY ListingAccepts, ClaimPanelAccepts, DeskAccepts
<1> QED
  BY <1>1, IInvCorrect, ScheduledCorrect, OrderlyCorrect, PTL

(***************************************************************************)
(* How far three statements of the docs hold.                              *)
(***************************************************************************)

\* How a dispute ends when it was opened before a panel.
LEMMA PanelDisputeEnds ==
    ASSUME TypeOK, [Next]_vars, NEW f \in Finders,
           claim[f].status = "Disputed", bounty.arbitration_mode = 1
    PROVE  \/ claim'[f].status = "Disputed"
           \/ claim'[f].status = "Settled" /\ dispute_case[f].decision = Release
           \/ claim'[f].status = "Rejected" /\ dispute_case[f].decision = Reject
           \/ claim'[f].status = "Rejected" /\ now > claim[f].resolution_deadline
<1> DEFINE Ends == \/ claim'[f].status = "Disputed"
                   \/ claim'[f].status = "Settled" /\ dispute_case[f].decision = Release
                   \/ claim'[f].status = "Rejected" /\ dispute_case[f].decision = Reject
                   \/ /\ claim'[f].status = "Rejected"
                      /\ now > claim[f].resolution_deadline
<1> USE DEF TypeOK, ClaimsTypeOK
<1>1. ASSUME NEW g \in Finders, NEW s \in {"AiReviewed", "Rejected", "Settled"},
             SetStatus(g, s)
      PROVE  IF g = f THEN claim'[f].status = s ELSE claim'[f] = claim[f]
  BY <1>1 DEF SetStatus, ClaimV2
<1>2. ASSUME NEW g \in Finders, g # f,
             \E s \in {"AiReviewed", "Rejected", "Settled"} : SetStatus(g, s)
      PROVE  Ends
  BY <1>1, <1>2
<1>3. CASE UNCHANGED claim
  BY <1>3
<1>4. CASE ClaimStep
  <2>1. ASSUME NEW g \in Finders, SubmitClaimV2(g)
        PROVE  Ends
    BY <2>1 DEF SubmitClaimV2, SubmitClaimV2Accounts
  <2>2. ASSUME NEW g \in Finders, FinalizeRejectionV2(g)
        PROVE  Ends
    BY <1>2, <2>2 DEF FinalizeRejectionV2
  <2>3. ASSUME NEW g \in Finders, TimeoutDisputeV2(g)
        PROVE  Ends
    BY <1>1, <1>2, <2>3 DEF TimeoutDisputeV2, ResolutionWindowOver
  <2>4. ASSUME NEW g \in Finders, NEW w \in Wallets,
               RecordAiReviewV2(w, g) \/ AcceptClaimV2(w, g)
        PROVE  Ends
    BY <1>2, <2>4 DEF RecordAiReviewV2, AcceptClaimV2, SettleTo, Reviewable
  <2>5. ASSUME NEW g \in Finders, NEW w \in Wallets, RejectClaimV2(w, g)
        PROVE  Ends
    <3>1. g # f
      BY <2>5 DEF RejectClaimV2, Reviewable
    <3> QED
      BY <1>2, <2>5, <3>1 DEF RejectClaimV2
  <2>6. ASSUME NEW g \in Finders, NEW w \in Wallets,
               \/ OpenDisputeV2(w, g)
               \/ \E release \in BOOLEAN : ResolveDisputeV2(w, g, release)
        PROVE  Ends
    BY <2>6 DEF OpenDisputeV2, ResolveDisputeV2
  <2> QED
    BY <1>4, <2>1, <2>2, <2>3, <2>4, <2>5, <2>6 DEF ClaimStep, SubmitClaimV2Sponsored
<1>5. CASE ArbitrationStep
  <2>1. ASSUME NEW g \in Finders, FinalizeDisputeRelease(g) \/ FinalizeDisputeReject(g)
        PROVE  Ends
    BY <1>1, <1>2, <2>1
       DEF FinalizeDisputeRelease, FinalizeDisputeReject, Finalizable, SettleTo
  <2>2. ASSUME NEW g \in Finders, NEW w \in Wallets, OpenDisputeV3(w, g)
        PROVE  Ends
    <3>1. g # f
      BY <2>2 DEF OpenDisputeV3, MayDispute, Reviewable
    <3> QED
      BY <2>2, <3>1 DEF OpenDisputeV3, EnterDispute
  <2> QED
    BY <1>3, <1>5, <2>1, <2>2
       DEF ArbitrationStep, ConfigureArbitrationPanel, CastArbitrationVote
<1> QED
  BY <1>3, <1>4, <1>5 DEF Next, BountyStep, vars

\* A panel's decision stands until the dispute's window is over: before that,
\* no step ends the dispute against it, or without one.  DecisionStands, which
\* docs/architecture-v2.md promises without the limit, fails only by the
\* timeout (cast_arbitration_vote, finalize_dispute_*, timeout_dispute_v2).
THEOREM DecisionsStandUntilTimeout ==
    Spec => [][\A f \in Finders :
                  claim[f].status = "Disputed" /\ bounty.arbitration_mode = 1
                      /\ claim'[f].status # "Disputed" =>
                  \/ claim'[f].status = "Settled" /\ dispute_case[f].decision = Release
                  \/ claim'[f].status = "Rejected" /\ dispute_case[f].decision = Reject
                  \/ /\ claim'[f].status = "Rejected"
                     /\ now > claim[f].resolution_deadline]_vars
<1>1. TypeOK /\ [Next]_vars =>
         [\A f \in Finders :
             claim[f].status = "Disputed" /\ bounty.arbitration_mode = 1
                 /\ claim'[f].status # "Disputed" =>
             \/ claim'[f].status = "Settled" /\ dispute_case[f].decision = Release
             \/ claim'[f].status = "Rejected" /\ dispute_case[f].decision = Reject
             \/ /\ claim'[f].status = "Rejected"
                /\ now > claim[f].resolution_deadline]_vars
  BY PanelDisputeEnds
<1> QED
  BY <1>1, TypeCorrect, PTL DEF Spec

\* Whether anyone can finish a rejection whose window is over.
PendingIsFinalizable ==
    \A f \in Finders :
        claim[f].status = "RejectionPending" /\ now > claim[f].dispute_deadline =>
        (FinalizeAccepted(f) <=> bounty.status # "Released")

\* A rejection whose window is over can be finalized by anyone, unless the
\* bounty was paid to another finder meanwhile; and then nothing ever happens
\* to the claim again.  PendingRejectionEnds, which finalize_rejection_v2
\* promises without the exception, fails only there.
THEOREM PendingUnlessPaid ==
    Spec => /\ []PendingIsFinalizable
            /\ [][\A f \in Finders :
                     claim[f].status = "RejectionPending" /\ bounty.status = "Released" =>
                     claim'[f] = claim[f] /\ bounty'.status = "Released"]_vars
<1>1. IInv /\ Scheduled /\ Orderly => PendingIsFinalizable
  <2> SUFFICES ASSUME IInv, Scheduled, Orderly, NEW f \in Finders,
                      claim[f].status = "RejectionPending", now > claim[f].dispute_deadline
               PROVE  FinalizeAccepted(f) <=> bounty.status # "Released"
    BY DEF PendingIsFinalizable
  <2>1. bounty.workflow_version = 1
    BY DEF Orderly, Cases
  <2>2. CASE bounty.status = "Released"
    <3>1. bounty.active_claims = 0
      BY <2>1, <2>2 DEF IInv, Safety, ActiveClaimsCounted
    <3> QED
      BY <2>1, <2>2, <3>1 DEF FinalizeAccepted, Decremented
  <2>3. CASE bounty.status # "Released"
    <3>1. Stages(f) = {"rejection_pending"}
      BY <2>3 DEF Stages, PassedOver
    <3>2. claim[f].status \in Unresolved
      BY DEF Unresolved
    <3>3. bounty.status \in {"Funded", "Disputed"}
      BY <3>1, <3>2, StageFacts
    <3>4. Decremented >= 0
      BY <3>2, <3>3, LockedFacts
    <3> QED
      BY <2>3, <3>4
         DEF FinalizeAccepted, FinalizeClaimV2Accounts, DisputeWindowOver, Scheduled
  <2> QED
    BY <2>2, <2>3
<1>2. IInv /\ Orderly /\ [Next]_vars =>
         [\A f \in Finders :
             claim[f].status = "RejectionPending" /\ bounty.status = "Released" =>
             claim'[f] = claim[f] /\ bounty'.status = "Released"]_vars
  <2> SUFFICES ASSUME IInv, Orderly, [Next]_vars, NEW f \in Finders,
                      claim[f].status = "RejectionPending", bounty.status = "Released"
               PROVE  claim'[f] = claim[f] /\ bounty'.status = "Released"
    OBVIOUS
  <2>1. Shape
    BY StepShapes DEF IInv
  <2>2. bounty.workflow_version = 1 /\ bounty.active_claims = 0
    BY DEF Orderly, Cases, IInv, Safety, ActiveClaimsCounted
  <2>3. ASSUME NEW g \in Finders, ClaimShape(g)
        PROVE  claim'[f] = claim[f] /\ bounty'.status = "Released"
    <3>1. Judged(g)
      BY <2>2, <2>3
         DEF ClaimShape, Submitted, RejectionFinal, Settled, DisputeOpened, DisputeFailed,
             Decremented
    <3>2. g # f
      BY <3>1 DEF Judged, Reviewable
    <3> QED
      BY <3>1, <3>2 DEF Judged, ClaimBecomes
  <2> QED
    BY <2>1, <2>3
       DEF Shape, Created, Funding, Cancelled, Refunded, Refundable, PanelConfigured,
           Elsewhere
<1> QED
  BY <1>1, <1>2, IInvCorrect, ScheduledCorrect, OrderlyCorrect, PTL DEF Spec

\* While the window of a rejection runs, its finder has had a state to dispute
\* in, unless another claim holds the bounty's lock or was paid.
WindowUnlessLocked ==
    \A f \in Finders :
        claim[f].status = "RejectionPending" /\ now <= claim[f].dispute_deadline
            /\ CheckedAdd(now, ResolveWindow) =>
        f \in hadWindow \/ bounty.status \in {"Disputed", "Released"}

\* A rejected claim whose window runs can be disputed, unless the bounty is
\* locked or paid.
WindowCanBeUsed ==
    \A f \in Finders :
        claim[f].status = "RejectionPending" /\ now <= claim[f].dispute_deadline
            /\ CheckedAdd(now, ResolveWindow)
            /\ bounty.status \notin {"Disputed", "Released"} =>
        CouldDispute(f)

\* The window finalize_rejection_v2 promises is real except where the bounty is
\* locked by another dispute, or paid, for all of it: RejectionHadWindow, which
\* allows no exception, fails only there (open_dispute_v2, open_dispute_v3).
THEOREM WindowsAreReal == WindowSpec => []WindowUnlessLocked
<1>1. IInv /\ Scheduled /\ Orderly => WindowCanBeUsed
  <2> SUFFICES ASSUME IInv, Scheduled, Orderly, NEW f \in Finders,
                      claim[f].status = "RejectionPending",
                      now <= claim[f].dispute_deadline,
                      CheckedAdd(now, ResolveWindow),
                      bounty.status \notin {"Disputed", "Released"}
               PROVE  CouldDispute(f)
    BY DEF WindowCanBeUsed
  <2>1. Stages(f) = {"rejection_pending"}
    BY DEF Stages, PassedOver
  <2>2. bounty.status \in {"Funded", "Disputed"}
    BY <2>1, StageFacts DEF Unresolved
  <2>3. MayDispute(f, f)
    BY DEF MayDispute, Scheduled
  <2>4. ~dispute_case[f].exists
    BY DEF Orderly, Cases
  <2> QED
    BY <2>2, <2>3, <2>4 DEF CouldDispute
<1>2. Spec => []WindowCanBeUsed
  BY <1>1, IInvCorrect, ScheduledCorrect, OrderlyCorrect, PTL
<1>3. WindowInit => Init
  BY DEF WindowInit
<1>4. [WindowNext]_windowVars => [Next]_vars
  BY DEF WindowNext, windowVars, vars
<1>5. WindowSpec => Spec
  BY <1>3, <1>4, PTL DEF WindowSpec, Spec
<1>6. WindowInit => WindowUnlessLocked
  BY DEF WindowInit, Init, NoClaim, WindowUnlessLocked
<1>7. WindowUnlessLocked /\ WindowCanBeUsed' /\ [WindowNext]_windowVars
         => WindowUnlessLocked'
  <2>1. CASE WindowNext
    BY <2>1 DEF WindowNext, WindowUnlessLocked, WindowCanBeUsed
  <2>2. CASE UNCHANGED windowVars
    BY <2>2 DEF windowVars, vars, bountyVars, WindowUnlessLocked, CheckedAdd
  <2> QED
    BY <2>1, <2>2
<1> QED
  BY <1>2, <1>5, <1>6, <1>7, PTL DEF WindowSpec
=============================================================================
