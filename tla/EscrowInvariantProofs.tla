----------------------- MODULE EscrowInvariantProofs -----------------------
(***************************************************************************)
(* The safety invariants and the action properties of module Escrow, for   *)
(* every instance.  Lemma StepShapes first says what a step does to the    *)
(* fields the properties read; each invariant is then proved shape by      *)
(* shape, and no proof after that lemma opens an instruction again, except *)
(* for the votes, which only arbitration instructions touch.               *)
(***************************************************************************)
EXTENDS EscrowProofs

(***************************************************************************)
(* The shapes of a step.                                                   *)
(***************************************************************************)

\* What the bounty account says after a step that leaves its terms alone.
BountyBecomes(status, finder, funded, active) ==
    /\ bounty'.status = status
    /\ bounty'.finder = finder
    /\ bounty'.amount_funded = funded
    /\ bounty'.active_claims = active
    /\ bounty'.reward_amount = bounty.reward_amount
    /\ bounty'.workflow_version = bounty.workflow_version
    /\ bounty'.arbiter = bounty.arbiter
    /\ bounty'.arbitration_mode = bounty.arbitration_mode

ClaimBecomes(f, s) ==
    /\ claim'[f].status = s
    /\ \A g \in Finders \ {f} : claim'[g] = claim[g]

Created ==
    /\ bounty.status = "Absent"
    /\ bounty'.status = "Draft"
    /\ bounty'.amount_funded = 0
    /\ bounty'.active_claims = 0
    /\ bounty'.reward_amount \in Rewards \ {0}
    /\ UNCHANGED <<vault, tokens, claim>>

Funding(amount) ==
    /\ bounty.status \in {"Draft", "Funded"}
    /\ bounty.amount_funded + amount <= bounty.reward_amount
    /\ BountyBecomes(IF bounty.amount_funded + amount >= bounty.reward_amount
                     THEN "Funded" ELSE bounty.status,
                     bounty.finder, bounty.amount_funded + amount, bounty.active_claims)
    /\ TransferToVault(Owner, amount)
    /\ UNCHANGED claim

Cancelled ==
    /\ bounty.status = "Draft"
    /\ bounty.amount_funded = 0
    /\ BountyBecomes("Cancelled", bounty.finder, bounty.amount_funded, bounty.active_claims)
    /\ UNCHANGED <<vault, tokens, claim>>

Refunded ==
    /\ Refundable
    /\ BountyBecomes("Refunded", bounty.finder, 0, bounty.active_claims)
    /\ TransferFromVault(Owner, bounty.amount_funded)
    /\ UNCHANGED claim

Submitted(f) ==
    /\ bounty.status = "Funded"
    /\ claim[f].status = "Absent"
    /\ ClaimBecomes(f, "Submitted")
    /\ BountyBecomes(bounty.status, bounty.finder, bounty.amount_funded,
                     bounty.active_claims + bounty.workflow_version)
    /\ UNCHANGED <<vault, tokens>>

\* An AI review, or the owner's rejection.
Judged(f) ==
    /\ claim[f].status \in Reviewable
    /\ \/ bounty.status = "Funded" /\ ClaimBecomes(f, "AiReviewed")
       \/ bounty.workflow_version = 1 /\ ClaimBecomes(f, "RejectionPending")
       \/ bounty.workflow_version = 0 /\ ClaimBecomes(f, "Rejected")
    /\ UNCHANGED <<bounty, vault, tokens>>

RejectionFinal(f) ==
    /\ claim[f].status = "RejectionPending"
    /\ now > claim[f].dispute_deadline
    /\ Decremented >= 0
    /\ ClaimBecomes(f, "Rejected")
    /\ BountyBecomes(bounty.status, bounty.finder, bounty.amount_funded, Decremented)
    /\ UNCHANGED <<vault, tokens>>

\* By the owner's acceptance, the arbiter's word or the panel's.
Settled(f) ==
    /\ \/ bounty.status = "Funded" /\ claim[f].status \in Reviewable
       \/ /\ bounty.status = "Disputed"
          /\ claim[f].status = "Disputed"
          /\ \/ bounty.arbitration_mode = 0 /\ bounty.arbiter # f
             \/ dispute_case[f].exists /\ dispute_case[f].decision = Release
    /\ bounty.amount_funded >= bounty.reward_amount
    /\ ClaimBecomes(f, "Settled")
    /\ BountyBecomes("Released", f, bounty.amount_funded - bounty.reward_amount, ClosedAll)
    /\ TransferFromVault(f, bounty.reward_amount)

DisputeOpened(f) ==
    /\ bounty.status = "Funded"
    /\ claim[f].status \in Reviewable \cup {"RejectionPending"}
    /\ ClaimBecomes(f, "Disputed")
    /\ BountyBecomes("Disputed", bounty.finder, bounty.amount_funded, bounty.active_claims)
    /\ UNCHANGED <<vault, tokens>>

\* By a decision or by the timeout.
DisputeFailed(f) ==
    /\ bounty.status = "Disputed"
    /\ claim[f].status = "Disputed"
    /\ Decremented >= 0
    /\ ClaimBecomes(f, "Rejected")
    /\ BountyBecomes("Funded", bounty.finder, bounty.amount_funded, Decremented)
    /\ UNCHANGED <<vault, tokens>>

PanelConfigured ==
    /\ bounty.status \in {"Draft", "Funded"}
    /\ bounty' = [bounty EXCEPT !.arbitration_mode = 1]
    /\ UNCHANGED <<vault, tokens, claim>>

\* A vote, a deposit from outside, time, or no step at all.
Elsewhere ==
    /\ vault' \in Nat
    /\ vault' >= vault
    /\ UNCHANGED <<bounty, tokens, claim>>

ClaimShape(f) ==
    \/ Submitted(f)
    \/ Judged(f)
    \/ RejectionFinal(f)
    \/ Settled(f)
    \/ DisputeOpened(f)
    \/ DisputeFailed(f)

Shape ==
    \/ Created
    \/ \E amount \in 1..Supply : Funding(amount)
    \/ Cancelled
    \/ Refunded
    \/ \E f \in Finders : ClaimShape(f)
    \/ PanelConfigured
    \/ Elsewhere

\* A new status of one claim leaves the other claims alone.
LEMMA SetStatusEffect ==
    ASSUME TypeOK, NEW f \in Finders, NEW s, SetStatus(f, s)
    PROVE  ClaimBecomes(f, s)
  BY DEF TypeOK, ClaimsTypeOK, ClaimV2, SetStatus, ClaimBecomes

\* What a settlement writes.
LEMMA SettleEffect ==
    ASSUME TypeOK, NEW f \in Finders, SettleTo(f)
    PROVE  /\ bounty.amount_funded >= bounty.reward_amount
           /\ ClaimBecomes(f, "Settled")
           /\ BountyBecomes("Released", f, bounty.amount_funded - bounty.reward_amount,
                            ClosedAll)
           /\ TransferFromVault(f, bounty.reward_amount)
<1> DEFINE rest == bounty.amount_funded - bounty.reward_amount
           active == ClosedAll
<1>1. bounty' = [bounty EXCEPT !.amount_funded = rest, !.finder = f,
                               !.status = "Released", !.active_claims = active]
  BY DEF SettleTo
<1>2. bounty \in BountyAccount
  BY DEF TypeOK, BountyTypeOK
<1>3. BountyBecomes("Released", f, rest, active)
  <2> HIDE DEF rest, active
  <2> QED
    BY <1>1, <1>2 DEF BountyBecomes, BountyAccount
<1> QED
  BY <1>3, SetStatusEffect DEF SettleTo

\* What reopening the bounty after a rejected dispute writes.
LEMMA ResumeEffect ==
    ASSUME TypeOK, ResumeAfterV2Reject
    PROVE  /\ bounty.status = "Disputed"
           /\ Decremented >= 0
           /\ BountyBecomes("Funded", bounty.finder, bounty.amount_funded, Decremented)
<1> DEFINE active == Decremented
<1>1. bounty' = [bounty EXCEPT !.status = "Funded", !.active_claims = active]
  BY DEF ResumeAfterV2Reject
<1>2. bounty \in BountyAccount
  BY DEF TypeOK, BountyTypeOK
<1>3. BountyBecomes("Funded", bounty.finder, bounty.amount_funded, active)
  <2> HIDE DEF active
  <2> QED
    BY <1>1, <1>2 DEF BountyBecomes, BountyAccount
<1> QED
  BY <1>3 DEF ResumeAfterV2Reject

\* What opening a dispute, before the arbiter or a panel, writes.
LEMMA DisputeEffect ==
    ASSUME TypeOK, NEW f \in Finders, NEW w \in Wallets,
           LockForV2Dispute, MayDispute(w, f), EnterDispute(f), UNCHANGED <<vault, tokens>>
    PROVE  DisputeOpened(f)
<1> USE DEF TypeOK, BountyTypeOK, ClaimsTypeOK
<1>1. BountyBecomes("Disputed", bounty.finder, bounty.amount_funded, bounty.active_claims)
  BY DEF LockForV2Dispute, BountyBecomes, BountyAccount
<1>2. ClaimBecomes(f, "Disputed")
  BY DEF EnterDispute, ClaimBecomes
<1>3. claim[f].status \in Reviewable \cup {"RejectionPending"}
  BY DEF MayDispute
<1> QED
  BY <1>1, <1>2, <1>3 DEF DisputeOpened, LockForV2Dispute

LEMMA BountyStepShape ==
    ASSUME TypeOK, BountyStep
    PROVE  Shape
<1> USE BountyAssumption, DepositAssumption DEF TypeOK, BountyTypeOK
<1>0. UNCHANGED claim
  BY DEF BountyStep
<1>1. ASSUME NEW w \in Wallets, NEW a \in Wallets, NEW r \in Rewards, NEW d \in Deadlines,
             CreateBountyV2(w, a, r, d) \/ CreateBountySponsored(w, a, r, d)
      PROVE  Created
  BY <1>0, <1>1 DEF CreateBountyV2, CreateBountySponsored, InitializeBounty,
                    CreateBountyAccounts, Draft, Created
<1>2. ASSUME NEW w \in Wallets, NEW amount \in 1..Supply,
             FundBounty(w, amount) \/ FundBountySponsored(w, amount)
      PROVE  Funding(amount)
  <2> DEFINE total == bounty.amount_funded + amount
             s == IF total >= bounty.reward_amount THEN "Funded" ELSE bounty.status
  <2>1. FundBounty(w, amount) /\ amount \in Nat
    BY <1>2 DEF FundBountySponsored
  <2>2. bounty' = [bounty EXCEPT !.amount_funded = total, !.status = s]
    BY <2>1 DEF FundBounty, ApplyFunding
  <2>3. BountyBecomes(s, bounty.finder, total, bounty.active_claims)
    <3> HIDE DEF total, s
    <3> QED
      BY <2>2 DEF BountyBecomes, BountyAccount
  <2>4. w = Owner /\ TransferToVault(w, amount)
    BY <2>1 DEF FundBounty, ValidateFunding, FundBountyAccounts
  <2>5. bounty.status \in {"Draft", "Funded"} /\ total <= bounty.reward_amount
    BY <2>1 DEF FundBounty, ValidateFunding, RemainingFunding, BountyAccount
  <2> QED
    BY <1>0, <2>3, <2>4, <2>5 DEF Funding
<1>3. ASSUME NEW w \in Wallets, CancelBounty(w)
      PROVE  Cancelled
  BY <1>0, <1>3 DEF CancelBounty, Cancelled, BountyBecomes, BountyAccount
<1>4. ASSUME NEW w \in Wallets, RefundAfterExpiry(w)
      PROVE  Refunded
  BY <1>0, <1>4 DEF RefundAfterExpiry, Refunded, BountyBecomes, BountyAccount
<1>5. ASSUME NEW amount \in DepositAmounts, ExternalDeposit(amount)
      PROVE  Elsewhere
  BY <1>0, <1>5 DEF ExternalDeposit, Elsewhere
<1>6. CASE ClockMatters /\ Tick
  BY <1>0, <1>6 DEF Tick, Elsewhere, Shape
<1> QED
  BY <1>1, <1>2, <1>3, <1>4, <1>5, <1>6 DEF BountyStep, Shape

LEMMA ClaimStepShape ==
    ASSUME TypeOK, ClaimStep
    PROVE  Shape
<1> USE DEF TypeOK, BountyTypeOK, ClaimsTypeOK
<1>1. ASSUME NEW f \in Finders, SubmitClaimV2(f) \/ SubmitClaimV2Sponsored(f)
      PROVE  Submitted(f)
  <2> DEFINE active == bounty.active_claims + bounty.workflow_version
  <2>1. SubmitClaimV2(f)
    BY <1>1 DEF SubmitClaimV2Sponsored
  <2>2. bounty' = [bounty EXCEPT !.active_claims = active]
    BY <2>1 DEF SubmitClaimV2
  <2>3. BountyBecomes(bounty.status, bounty.finder, bounty.amount_funded, active)
    <3> HIDE DEF active
    <3> QED
      BY <2>2 DEF BountyBecomes, BountyAccount
  <2>4. ClaimBecomes(f, "Submitted")
    BY <2>1 DEF SubmitClaimV2, NoClaim, ClaimBecomes
  <2> QED
    BY <2>1, <2>3, <2>4 DEF Submitted, SubmitClaimV2, SubmitClaimV2Accounts
<1>2. ASSUME NEW f \in Finders, FinalizeRejectionV2(f)
      PROVE  RejectionFinal(f)
  <2> DEFINE active == Decremented
  <2>1. bounty' = [bounty EXCEPT !.active_claims = active]
    BY <1>2 DEF FinalizeRejectionV2
  <2>2. BountyBecomes(bounty.status, bounty.finder, bounty.amount_funded, active)
    <3> HIDE DEF active
    <3> QED
      BY <2>1 DEF BountyBecomes, BountyAccount
  <2>3. ClaimBecomes(f, "Rejected")
    BY <1>2, SetStatusEffect DEF FinalizeRejectionV2
  <2> QED
    BY <1>2, <2>2, <2>3 DEF RejectionFinal, FinalizeRejectionV2, DisputeWindowOver
<1>3. ASSUME NEW f \in Finders, TimeoutDisputeV2(f)
      PROVE  DisputeFailed(f)
  BY <1>3, ResumeEffect, SetStatusEffect DEF TimeoutDisputeV2, DisputeFailed
<1>4. ASSUME NEW f \in Finders, NEW w \in Wallets, RecordAiReviewV2(w, f)
      PROVE  Judged(f)
  BY <1>4, SetStatusEffect DEF RecordAiReviewV2, Judged, bountyVars
<1>5. ASSUME NEW f \in Finders, NEW w \in Wallets, AcceptClaimV2(w, f)
      PROVE  Settled(f)
  BY <1>5, SettleEffect DEF AcceptClaimV2, Settled
<1>6. ASSUME NEW f \in Finders, NEW w \in Wallets, RejectClaimV2(w, f)
      PROVE  Judged(f)
  <2>1. claim[f].status \in Reviewable /\ UNCHANGED <<bounty, vault, tokens>>
    BY <1>6 DEF RejectClaimV2, bountyVars
  <2>2. CASE /\ bounty.workflow_version >= 1
             /\ claim' = [claim EXCEPT ![f].status = "RejectionPending",
                                       ![f].dispute_deadline = now + RejectWindow]
    <3> DEFINE until == now + RejectWindow
    <3>1. claim' = [claim EXCEPT ![f].status = "RejectionPending",
                                 ![f].dispute_deadline = until]
      BY <2>2
    <3>2. ClaimBecomes(f, "RejectionPending")
      <4> HIDE DEF until
      <4> QED
        BY <3>1 DEF ClaimBecomes, ClaimV2
    <3>3. bounty.workflow_version = 1
      BY <2>2 DEF BountyAccount
    <3> QED
      BY <2>1, <3>2, <3>3 DEF Judged
  <2>3. CASE bounty.workflow_version < 1 /\ SetStatus(f, "Rejected")
    <3>1. bounty.workflow_version = 0
      BY <2>3 DEF BountyAccount
    <3> QED
      BY <2>1, <2>3, <3>1, SetStatusEffect DEF Judged
  <2>4. bounty.workflow_version \in {0, 1}
    BY DEF BountyAccount
  <2> QED
    BY <1>6, <2>2, <2>3, <2>4 DEF RejectClaimV2
<1>7. ASSUME NEW f \in Finders, NEW w \in Wallets, OpenDisputeV2(w, f)
      PROVE  DisputeOpened(f)
  BY <1>7, DisputeEffect DEF OpenDisputeV2
<1>8. ASSUME NEW f \in Finders, NEW w \in Wallets, NEW release \in BOOLEAN,
             ResolveDisputeV2(w, f, release)
      PROVE  Settled(f) \/ DisputeFailed(f)
  <2>1. /\ claim[f].status = "Disputed"
        /\ bounty.arbitration_mode = 0
        /\ bounty.arbiter # f
    BY <1>8 DEF ResolveDisputeV2, ResolveDisputeV2Accounts
  <2>2. CASE bounty.status = "Disputed" /\ SettleTo(f)
    BY <2>1, <2>2, SettleEffect DEF Settled
  <2>3. CASE ResumeAfterV2Reject /\ SetStatus(f, "Rejected") /\ UNCHANGED <<vault, tokens>>
    BY <2>1, <2>3, ResumeEffect, SetStatusEffect DEF DisputeFailed
  <2> QED
    BY <1>8, <2>2, <2>3 DEF ResolveDisputeV2
<1>9. \E f \in Finders : ClaimShape(f)
  BY <1>1, <1>2, <1>3, <1>4, <1>5, <1>6, <1>7, <1>8 DEF ClaimStep, ClaimShape
<1> QED
  BY <1>9 DEF Shape

LEMMA ArbitrationStepShape ==
    ASSUME TypeOK, ArbitrationStep
    PROVE  Shape
<1> USE DEF TypeOK, BountyTypeOK
<1>1. ASSUME NEW w \in Wallets, NEW arbiters \in SUBSET Wallets,
             ConfigureArbitrationPanel(w, arbiters)
      PROVE  PanelConfigured
  BY <1>1 DEF ConfigureArbitrationPanel, PanelConfigured
<1>2. ASSUME NEW f \in Finders, FinalizeDisputeRelease(f)
      PROVE  Settled(f)
  BY <1>2, SettleEffect
     DEF FinalizeDisputeRelease, Finalizable, FinalizeDisputeAccounts, Settled
<1>3. ASSUME NEW f \in Finders, FinalizeDisputeReject(f)
      PROVE  DisputeFailed(f)
  BY <1>3, ResumeEffect, SetStatusEffect DEF FinalizeDisputeReject, Finalizable, DisputeFailed
<1>4. ASSUME NEW f \in Finders, NEW w \in Wallets, OpenDisputeV3(w, f)
      PROVE  DisputeOpened(f)
  BY <1>4, DisputeEffect DEF OpenDisputeV3
<1>5. ASSUME NEW f \in Finders, NEW w \in Wallets, NEW choice \in {Release, Reject},
             CastArbitrationVote(w, f, choice)
      PROVE  Elsewhere
  BY <1>5 DEF CastArbitrationVote, bountyVars, Elsewhere
<1>6. PanelConfigured \/ Elsewhere \/ \E f \in Finders : ClaimShape(f)
  BY <1>1, <1>2, <1>3, <1>4, <1>5 DEF ArbitrationStep, ClaimShape
<1> QED
  BY <1>6 DEF Shape

\* Every step has one of the shapes.
LEMMA StepShapes ==
    ASSUME TypeOK, [Next]_vars
    PROVE  Shape
<1>1. CASE UNCHANGED vars
  BY <1>1 DEF vars, bountyVars, Elsewhere, Shape, TypeOK, BountyTypeOK
<1> QED
  BY <1>1, BountyStepShape, ClaimStepShape, ArbitrationStepShape DEF Next

(***************************************************************************)
(* The invariants.  Each is inductive together with those named in the     *)
(* assumptions of its lemma.                                               *)
(***************************************************************************)

\* A bounty that does not exist has no claims, and a v2 bounty never takes
\* the statuses that only the v1 instructions set.
Fresh ==
    /\ bounty.status = "Absent" => \A f \in Finders : claim[f].status = "Absent"
    /\ bounty.status \notin {"ClaimSubmitted", "AiReviewed", "Rejected"}

\* A case is opened only in quorum mode, which is never left.
CasesUnderQuorum ==
    \A f \in Finders : dispute_case[f].exists =>
        bounty.arbitration_mode = 1 /\ bounty.status # "Absent"

LEMMA BackedStep ==
    ASSUME TypeOK, Backed, Shape
    PROVE  Backed'
<1> USE BountyAssumption DEF TypeOK, BountyTypeOK, Backed
<1>1. CASE Created
  <2>1. bounty'.reward_amount \in Nat /\ vault' \in Nat
    BY <1>1 DEF Created
  <2> QED
    BY <1>1, <2>1 DEF Created
<1>2. ASSUME NEW amount \in 1..Supply, Funding(amount)
      PROVE  Backed'
  BY <1>2 DEF Funding, BountyBecomes, BountyAccount, TransferToVault
<1>3. CASE Cancelled
  BY <1>3 DEF Cancelled, BountyBecomes, BountyAccount
<1>4. CASE Refunded
  BY <1>4 DEF Refunded, BountyBecomes, BountyAccount, TransferFromVault
<1>5. ASSUME NEW f \in Finders, ClaimShape(f)
      PROVE  Backed'
  <2>1. CASE Settled(f)
    BY <2>1 DEF Settled, BountyBecomes, BountyAccount, TransferFromVault
  <2>2. CASE DisputeOpened(f) \/ DisputeFailed(f)
    BY <2>2 DEF DisputeOpened, DisputeFailed, BountyBecomes
  <2>3. CASE Submitted(f) \/ Judged(f) \/ RejectionFinal(f)
    BY <2>3 DEF Submitted, Judged, RejectionFinal, BountyBecomes
  <2> QED
    BY <1>5, <2>1, <2>2, <2>3 DEF ClaimShape
<1>6. CASE PanelConfigured
  BY <1>6 DEF PanelConfigured, BountyAccount
<1>7. CASE Elsewhere
  BY <1>7 DEF Elsewhere, BountyAccount
<1> QED
  BY <1>1, <1>2, <1>3, <1>4, <1>5, <1>6, <1>7 DEF Shape

LEMMA FreshStep ==
    ASSUME TypeOK, Fresh, Shape
    PROVE  Fresh'
<1> USE DEF TypeOK, BountyTypeOK, Fresh
<1>1. CASE Created \/ Cancelled \/ Refunded \/ PanelConfigured \/ Elsewhere
  BY <1>1 DEF Created, Cancelled, Refunded, PanelConfigured, Elsewhere, BountyBecomes,
              BountyAccount
<1>2. ASSUME NEW amount \in 1..Supply, Funding(amount)
      PROVE  Fresh'
  BY <1>2 DEF Funding, BountyBecomes
<1>3. ASSUME NEW f \in Finders, ClaimShape(f)
      PROVE  Fresh'
  <2>1. CASE Judged(f) \/ RejectionFinal(f)
    BY <2>1 DEF Judged, RejectionFinal, BountyBecomes, Reviewable
  <2>2. CASE Submitted(f) \/ Settled(f) \/ DisputeOpened(f) \/ DisputeFailed(f)
    BY <2>2 DEF Submitted, Settled, DisputeOpened, DisputeFailed, BountyBecomes
  <2> QED
    BY <1>3, <2>1, <2>2 DEF ClaimShape
<1> QED
  BY <1>1, <1>2, <1>3 DEF Shape

LEMMA DisputeLockStep ==
    ASSUME TypeOK, Fresh, DisputeLock, Shape
    PROVE  DisputeLock'
<1> USE DEF TypeOK, BountyTypeOK, DisputeLock
<1>1. CASE Created \/ Cancelled \/ Refunded \/ PanelConfigured \/ Elsewhere
  BY <1>1 DEF Created, Cancelled, Refunded, Refundable, PanelConfigured, Elsewhere,
              BountyBecomes, BountyAccount
<1>2. ASSUME NEW amount \in 1..Supply, Funding(amount)
      PROVE  DisputeLock'
  BY <1>2 DEF Funding, BountyBecomes
<1>3. ASSUME NEW f \in Finders, ClaimShape(f)
      PROVE  DisputeLock'
  <2>1. CASE Submitted(f)
    BY <2>1 DEF Submitted, BountyBecomes, ClaimBecomes
  <2>2. CASE Judged(f)
    BY <2>2 DEF Judged, Reviewable, ClaimBecomes
  <2>3. CASE RejectionFinal(f)
    BY <2>3 DEF RejectionFinal, BountyBecomes, ClaimBecomes
  <2>4. CASE Settled(f)
    BY <2>4 DEF Settled, Reviewable, BountyBecomes, ClaimBecomes
  <2>5. CASE DisputeOpened(f)
    BY <2>5 DEF DisputeOpened, BountyBecomes, ClaimBecomes
  <2>6. CASE DisputeFailed(f)
    BY <2>6 DEF DisputeFailed, BountyBecomes, ClaimBecomes
  <2> QED
    BY <1>3, <2>1, <2>2, <2>3, <2>4, <2>5, <2>6 DEF ClaimShape
<1> QED
  BY <1>1, <1>2, <1>3 DEF Shape

LEMMA SettlementMatchesClaimStep ==
    ASSUME TypeOK, SettlementMatchesClaim, Shape
    PROVE  SettlementMatchesClaim'
<1> USE DEF TypeOK, BountyTypeOK, SettlementMatchesClaim
<1>1. CASE Created \/ Cancelled \/ Refunded \/ PanelConfigured \/ Elsewhere
  BY <1>1 DEF Created, Cancelled, Refunded, Refundable, PanelConfigured, Elsewhere,
              BountyBecomes, BountyAccount
<1>2. ASSUME NEW amount \in 1..Supply, Funding(amount)
      PROVE  SettlementMatchesClaim'
  BY <1>2 DEF Funding, BountyBecomes
<1>3. ASSUME NEW f \in Finders, ClaimShape(f)
      PROVE  SettlementMatchesClaim'
  <2>1. CASE Submitted(f)
    BY <2>1 DEF Submitted, BountyBecomes, ClaimBecomes
  <2>2. CASE Judged(f)
    BY <2>2 DEF Judged, Reviewable, ClaimBecomes
  <2>3. CASE RejectionFinal(f)
    BY <2>3 DEF RejectionFinal, BountyBecomes, ClaimBecomes
  <2>4. CASE Settled(f)
    BY <2>4 DEF Settled, BountyBecomes, ClaimBecomes
  <2>5. CASE DisputeOpened(f)
    BY <2>5 DEF DisputeOpened, Reviewable, BountyBecomes, ClaimBecomes
  <2>6. CASE DisputeFailed(f)
    BY <2>6 DEF DisputeFailed, BountyBecomes, ClaimBecomes
  <2> QED
    BY <1>3, <2>1, <2>2, <2>3, <2>4, <2>5, <2>6 DEF ClaimShape
<1> QED
  BY <1>1, <1>2, <1>3 DEF Shape

\* The open claims are finitely many, and what one claim's step does to them.
LEMMA OpenClaimsFinite ==
    IsFiniteSet(OpenClaims) /\ Cardinality(OpenClaims) \in Nat
<1>1. IsFiniteSet(Finders)
  BY FS_Subset, BountyAssumption, ClaimsAssumption
<1> QED
  BY <1>1, FS_Subset, FS_CardinalityType DEF OpenClaims

LEMMA OpenClaimsStep ==
    ASSUME NEW f \in Finders, NEW s, ClaimBecomes(f, s)
    PROVE  /\ s \in Unresolved /\ claim[f].status \in Unresolved => OpenClaims' = OpenClaims
           /\ s \in Unresolved /\ claim[f].status \notin Unresolved =>
                 Cardinality(OpenClaims') = Cardinality(OpenClaims) + 1
           /\ s \notin Unresolved /\ claim[f].status \in Unresolved =>
                 Cardinality(OpenClaims') = Cardinality(OpenClaims) - 1
<1> USE DEF ClaimBecomes
<1>1. CASE s \in Unresolved /\ claim[f].status \in Unresolved
  <2>1. OpenClaims' = OpenClaims
    BY <1>1 DEF OpenClaims
  <2> QED
    BY <1>1, <2>1
<1>2. CASE s \in Unresolved /\ claim[f].status \notin Unresolved
  <2>1. OpenClaims' = OpenClaims \cup {f} /\ f \notin OpenClaims
    BY <1>2 DEF OpenClaims
  <2> QED
    BY <1>2, <2>1, OpenClaimsFinite, FS_AddElement
<1>3. CASE s \notin Unresolved /\ claim[f].status \in Unresolved
  <2>1. OpenClaims' = OpenClaims \ {f} /\ f \in OpenClaims
    BY <1>3 DEF OpenClaims
  <2> QED
    BY <1>3, <2>1, OpenClaimsFinite, FS_RemoveElement
<1> QED
  BY <1>1, <1>2, <1>3

LEMMA ActiveClaimsCountedStep ==
    ASSUME TypeOK, Fresh, ActiveClaimsCounted, Shape
    PROVE  ActiveClaimsCounted'
<1> USE DEF TypeOK, BountyTypeOK, ActiveClaimsCounted
<1>0. ASSUME UNCHANGED claim
      PROVE  OpenClaims' = OpenClaims
  BY <1>0 DEF OpenClaims
<1>1. CASE Created
  <2>1. OpenClaims = {}
    BY <1>1 DEF Created, Fresh, OpenClaims, Unresolved
  <2> QED
    BY <1>0, <1>1, <2>1, FS_EmptySet DEF Created
<1>2. ASSUME NEW amount \in 1..Supply, Funding(amount)
      PROVE  ActiveClaimsCounted'
  BY <1>0, <1>2 DEF Funding, BountyBecomes
<1>3. CASE Cancelled \/ Refunded
  BY <1>0, <1>3 DEF Cancelled, Refunded, Refundable, BountyBecomes
<1>4. CASE PanelConfigured \/ Elsewhere
  BY <1>0, <1>4 DEF PanelConfigured, Elsewhere, BountyAccount
<1>5. ASSUME NEW f \in Finders, ClaimShape(f)
      PROVE  ActiveClaimsCounted'
  <2> USE DEF BountyBecomes, BountyAccount, Unresolved, Reviewable
  <2>0. Cardinality(OpenClaims) \in Nat
    BY OpenClaimsFinite
  <2>1. CASE Submitted(f)
    <3>1. Cardinality(OpenClaims') = Cardinality(OpenClaims) + 1
      BY <2>1, OpenClaimsStep DEF Submitted
    <3> QED
      BY <2>0, <2>1, <3>1 DEF Submitted
  <2>2. CASE Judged(f)
    <3>1. bounty.workflow_version = 1 => OpenClaims' = OpenClaims
      BY <2>2, OpenClaimsStep DEF Judged
    <3> QED
      BY <2>2, <3>1 DEF Judged
  <2>3. CASE RejectionFinal(f)
    <3>1. Cardinality(OpenClaims') = Cardinality(OpenClaims) - 1
      BY <2>3, OpenClaimsStep DEF RejectionFinal
    <3> QED
      BY <2>0, <2>3, <3>1 DEF RejectionFinal, Decremented
  <2>4. CASE Settled(f)
    BY <2>4 DEF Settled, ClosedAll
  <2>5. CASE DisputeOpened(f)
    <3>1. OpenClaims' = OpenClaims
      BY <2>5, OpenClaimsStep DEF DisputeOpened
    <3> QED
      BY <2>5, <3>1 DEF DisputeOpened
  <2>6. CASE DisputeFailed(f)
    <3>1. Cardinality(OpenClaims') = Cardinality(OpenClaims) - 1
      BY <2>6, OpenClaimsStep DEF DisputeFailed
    <3> QED
      BY <2>0, <2>6, <3>1 DEF DisputeFailed, Decremented
  <2> QED
    BY <1>5, <2>1, <2>2, <2>3, <2>4, <2>5, <2>6 DEF ClaimShape
<1> QED
  BY <1>1, <1>2, <1>3, <1>4, <1>5 DEF Shape

\* Only the refund itself can make the bounty refunded, and afterwards no
\* claim can be submitted.
LEMMA RefundLeavesNoOpenClaimStep ==
    ASSUME TypeOK, ActiveClaimsCounted, RefundLeavesNoOpenClaim, Shape
    PROVE  RefundLeavesNoOpenClaim'
<1> USE DEF TypeOK, BountyTypeOK, RefundLeavesNoOpenClaim
<1>0. ASSUME UNCHANGED claim
      PROVE  OpenClaims' = OpenClaims
  BY <1>0 DEF OpenClaims
<1>1. CASE Created \/ Cancelled
  BY <1>1 DEF Created, Cancelled, BountyBecomes
<1>2. ASSUME NEW amount \in 1..Supply, Funding(amount)
      PROVE  RefundLeavesNoOpenClaim'
  BY <1>2 DEF Funding, BountyBecomes
<1>3. CASE Refunded
  <2>1. bounty.workflow_version = 1 => Cardinality(OpenClaims) = 0
    BY <1>3 DEF Refunded, Refundable, ActiveClaimsCounted
  <2>2. bounty.workflow_version = 1 => OpenClaims = {}
    BY <2>1, OpenClaimsFinite, FS_EmptySet
  <2> QED
    BY <1>0, <1>3, <2>2 DEF Refunded, BountyBecomes
<1>4. CASE PanelConfigured \/ Elsewhere
  BY <1>0, <1>4 DEF PanelConfigured, Elsewhere, BountyAccount
<1>5. ASSUME NEW f \in Finders, ClaimShape(f)
      PROVE  RefundLeavesNoOpenClaim'
  <2>1. CASE Judged(f)
    BY <2>1 DEF Judged, Reviewable, OpenClaims, Unresolved
  <2>2. CASE RejectionFinal(f)
    BY <2>2 DEF RejectionFinal, OpenClaims, Unresolved, BountyBecomes
  <2>3. CASE Submitted(f) \/ Settled(f) \/ DisputeOpened(f) \/ DisputeFailed(f)
    BY <2>3 DEF Submitted, Settled, DisputeOpened, DisputeFailed, BountyBecomes
  <2> QED
    BY <1>5, <2>1, <2>2, <2>3 DEF ClaimShape
<1> QED
  BY <1>1, <1>2, <1>3, <1>4, <1>5 DEF Shape

(***************************************************************************)
(* The cases and their votes.                                              *)
(***************************************************************************)

LEMMA CasesUnderQuorumStep ==
    ASSUME TypeOK, CaseInv, CasesUnderQuorum, [Next]_vars
    PROVE  CasesUnderQuorum'
<1> USE DEF TypeOK, BountyTypeOK, ArbitrationTypeOK, CasesUnderQuorum
<1>1. ASSUME NEW g \in Finders, dispute_case'[g].exists
      PROVE  \/ dispute_case[g].exists
             \/ bounty.arbitration_mode = 1 /\ bounty.status = "Funded"
  <2>1. CASE UNCHANGED dispute_case
    BY <1>1, <2>1
  <2>2. ASSUME NEW f \in Finders,
               dispute_case' = [dispute_case EXCEPT ![f].finalized = TRUE]
        PROVE  dispute_case[g].exists
    <3>1. dispute_case'[g].exists = dispute_case[g].exists
      BY <2>2 DEF DisputeCase
    <3> QED
      BY <1>1, <3>1
  <2>3. ASSUME NEW f \in Finders, NEW w \in Wallets, OpenDisputeV3(w, f)
        PROVE  bounty.arbitration_mode = 1 /\ bounty.status = "Funded"
    BY <2>3 DEF OpenDisputeV3, LockForV2Dispute
  <2>4. ASSUME NEW f \in Finders, NEW w \in Wallets, NEW choice \in {Release, Reject},
               CastArbitrationVote(w, f, choice)
        PROVE  dispute_case[g].exists
    <3>1. CASE g = f
      BY <2>4, <3>1 DEF CastArbitrationVote, MayVote, CastArbitrationVoteAccounts
    <3>2. CASE g # f
      BY <1>1, <2>4, <3>2 DEF CastArbitrationVote
    <3> QED
      BY <3>1, <3>2
  <2>5. CASE BountyStep \/ ClaimStep \/ UNCHANGED vars
    BY <2>1, <2>5 DEF BountyStep, ClaimStep, vars, arbitrationVars
  <2>6. CASE ArbitrationStep
    BY <2>1, <2>2, <2>3, <2>4, <2>6
       DEF ArbitrationStep, ConfigureArbitrationPanel, FinalizeDisputeRelease,
           FinalizeDisputeReject
  <2> QED
    BY <2>5, <2>6 DEF Next
<1>2. Shape
  BY StepShapes
<1>3. bounty.status # "Absent" /\ bounty.arbitration_mode = 1 =>
         bounty'.status # "Absent" /\ bounty'.arbitration_mode = 1
  <2>1. ASSUME NEW f \in Finders, ClaimShape(f)
        PROVE  bounty.status # "Absent" /\ bounty.arbitration_mode = 1 =>
                  bounty'.status # "Absent" /\ bounty'.arbitration_mode = 1
    BY <2>1 DEF ClaimShape, Submitted, Judged, RejectionFinal, Settled, DisputeOpened,
                DisputeFailed, BountyBecomes
  <2>2. ASSUME NEW amount \in 1..Supply, Funding(amount)
        PROVE  bounty.status # "Absent" /\ bounty.arbitration_mode = 1 =>
                  bounty'.status # "Absent" /\ bounty'.arbitration_mode = 1
    BY <2>2 DEF Funding, BountyBecomes
  <2>3. CASE Created \/ Cancelled \/ Refunded \/ PanelConfigured \/ Elsewhere
    BY <2>3 DEF Created, Cancelled, Refunded, PanelConfigured, Elsewhere, BountyBecomes,
                BountyAccount
  <2> QED
    BY <1>2, <2>1, <2>2, <2>3 DEF Shape
<1> QED
  BY <1>1, <1>3

\* A vote of a panel member, not the finder, that was not cast before.
LEMMA CountedVotes ==
    ASSUME TypeOK, NEW f \in Finders, NEW a \in Wallets, NEW choice \in {Release, Reject},
           vote[f][a] = Open, vote' = [vote EXCEPT ![f][a] = choice]
    PROVE  /\ \A g \in Finders \ {f}, c \in {Release, Reject} : Votes(g, c)' = Votes(g, c)
           /\ \A c \in {Release, Reject} : c # choice => Votes(f, c)' = Votes(f, c)
           /\ Votes(f, choice)' = Votes(f, choice) \cup {a}
           /\ Cardinality(Votes(f, choice)') = Cardinality(Votes(f, choice)) + 1
<1> USE DEF TypeOK, ArbitrationTypeOK, Votes, Open, Release, Reject
<1>1. /\ \A g \in Finders \ {f}, c \in {Release, Reject} : Votes(g, c)' = Votes(g, c)
      /\ \A c \in {Release, Reject} : c # choice => Votes(f, c)' = Votes(f, c)
      /\ Votes(f, choice)' = Votes(f, choice) \cup {a}
  OBVIOUS
<1>2. a \notin Votes(f, choice) /\ IsFiniteSet(Votes(f, choice))
  <2>1. Votes(f, choice) \subseteq Wallets
    OBVIOUS
  <2> QED
    BY <2>1, FS_Subset, BountyAssumption
<1> HIDE DEF Votes
<1>3. Cardinality(Votes(f, choice) \cup {a}) = Cardinality(Votes(f, choice)) + 1
  BY <1>2, FS_AddElement
<1> QED
  BY <1>1, <1>3

LEMMA VotesCountedStep ==
    ASSUME TypeOK, CaseInv, VotesCounted, [Next]_vars
    PROVE  VotesCounted'
<1> USE DEF TypeOK, ArbitrationTypeOK
<1> DEFINE CountedFor(g) ==
              /\ dispute_case[g].release_votes = Cardinality(Votes(g, Release))
              /\ dispute_case[g].reject_votes = Cardinality(Votes(g, Reject))
              /\ dispute_case[g].decision = Release <=> dispute_case[g].release_votes = Quorum
              /\ dispute_case[g].decision = Reject <=> dispute_case[g].reject_votes = Quorum
              /\ Votes(g, Release) \cup Votes(g, Reject) \subseteq panel \ {g}
<1>0. VotesCounted <=> \A g \in Finders : CountedFor(g)
  BY DEF VotesCounted
<1>1. ASSUME vote' = vote, panel' = panel \/ panel = {},
             \A g \in Finders :
                /\ dispute_case'[g].release_votes = dispute_case[g].release_votes
                /\ dispute_case'[g].reject_votes = dispute_case[g].reject_votes
                /\ dispute_case'[g].decision = dispute_case[g].decision
      PROVE  VotesCounted'
  BY <1>1 DEF VotesCounted, Votes
<1>2. CASE BountyStep \/ ClaimStep \/ UNCHANGED vars
  BY <1>1, <1>2 DEF BountyStep, ClaimStep, vars, arbitrationVars
<1>3. ASSUME NEW w \in Wallets, NEW arbiters \in SUBSET Wallets,
             ConfigureArbitrationPanel(w, arbiters)
      PROVE  VotesCounted'
  BY <1>1, <1>3 DEF ConfigureArbitrationPanel, ConfigureArbitrationPanelAccounts
<1>4. ASSUME NEW f \in Finders, FinalizeDisputeRelease(f) \/ FinalizeDisputeReject(f)
      PROVE  VotesCounted'
  <2>1. /\ dispute_case' = [dispute_case EXCEPT ![f].finalized = TRUE]
        /\ UNCHANGED <<panel, vote>>
    BY <1>4 DEF FinalizeDisputeRelease, FinalizeDisputeReject
  <2>2. \A g \in Finders :
           /\ dispute_case'[g].release_votes = dispute_case[g].release_votes
           /\ dispute_case'[g].reject_votes = dispute_case[g].reject_votes
           /\ dispute_case'[g].decision = dispute_case[g].decision
    BY <2>1 DEF DisputeCase
  <2> QED
    BY <1>1, <2>1, <2>2
<1>5. ASSUME NEW f \in Finders, NEW w \in Wallets, OpenDisputeV3(w, f)
      PROVE  VotesCounted'
  <2>1. dispute_case' = [dispute_case EXCEPT ![f] = [NoCase EXCEPT !.exists = TRUE]]
    BY <1>5 DEF OpenDisputeV3
  <2>2. dispute_case[f] = NoCase
    BY <1>5 DEF OpenDisputeV3, OpenDisputeV3Accounts, CaseInv
  <2>3. \A g \in Finders :
           /\ dispute_case'[g].release_votes = dispute_case[g].release_votes
           /\ dispute_case'[g].reject_votes = dispute_case[g].reject_votes
           /\ dispute_case'[g].decision = dispute_case[g].decision
    BY <2>1, <2>2 DEF NoCase
  <2> QED
    BY <1>1, <1>5, <2>3 DEF OpenDisputeV3
<1>6. ASSUME NEW f \in Finders, NEW a \in Wallets, NEW choice \in {Release, Reject},
             CastArbitrationVote(a, f, choice)
      PROVE  VotesCounted'
  <2>1. /\ vote[f][a] = Open
        /\ vote' = [vote EXCEPT ![f][a] = choice]
        /\ a \in panel \ {f}
        /\ panel' = panel
        /\ dispute_case[f].decision = Open
        /\ dispute_case' = [dispute_case EXCEPT ![f] = Counted(dispute_case[f], choice)]
    BY <1>6 DEF CastArbitrationVote, MayVote, CastArbitrationVoteAccounts
  <2>2. /\ dispute_case[f] \in DisputeCase
        /\ dispute_case[f].release_votes < Quorum
        /\ dispute_case[f].reject_votes < Quorum
    BY <2>1 DEF CaseInv
  <2> SUFFICES ASSUME NEW g \in Finders
               PROVE  CountedFor(g)'
    BY DEF VotesCounted
  <2>3. CASE g # f
    <3>1. dispute_case'[g] = dispute_case[g]
      BY <2>1, <2>3
    <3>2. /\ Votes(g, Release)' = Votes(g, Release)
          /\ Votes(g, Reject)' = Votes(g, Reject)
      BY <2>1, <2>3, CountedVotes
    <3> QED
      BY <1>0, <2>1, <3>1, <3>2
  <2>4. CASE g = f
    <3> DEFINE case == Counted(dispute_case[f], choice)
    <3>1. dispute_case'[f] = case
      BY <2>1
    <3>2. /\ case.release_votes =
                dispute_case[f].release_votes + (IF choice = Release THEN 1 ELSE 0)
          /\ case.reject_votes =
                dispute_case[f].reject_votes + (IF choice = Reject THEN 1 ELSE 0)
          /\ case.decision = IF case.release_votes >= Quorum THEN Release
                             ELSE IF case.reject_votes >= Quorum THEN Reject ELSE Open
      BY <2>1, <2>2, CountedType
    <3> HIDE DEF case
    <3>3. /\ CountedFor(f)
          /\ dispute_case[f].release_votes \in 0..PanelSize
          /\ dispute_case[f].reject_votes \in 0..PanelSize
      BY <1>0, <2>2 DEF DisputeCase
    <3>4. /\ Cardinality(Votes(f, choice)') = Cardinality(Votes(f, choice)) + 1
          /\ \A c \in {Release, Reject} : c # choice => Votes(f, c)' = Votes(f, c)
      BY <2>1, CountedVotes
    <3>5. Release # Reject
      BY DEF Release, Reject
    <3>6. /\ case.release_votes = Cardinality(Votes(f, Release)')
          /\ case.reject_votes = Cardinality(Votes(f, Reject)')
      <4>1. CASE choice = Release
        <5>1. /\ case.release_votes = dispute_case[f].release_votes + 1
              /\ case.reject_votes = dispute_case[f].reject_votes
          BY <3>2, <3>3, <4>1 DEF Release, Reject, PanelSize
        <5>2. /\ Cardinality(Votes(f, Release)') = Cardinality(Votes(f, Release)) + 1
              /\ Votes(f, Reject)' = Votes(f, Reject)
          BY <3>4, <3>5, <4>1
        <5> QED
          BY <3>3, <5>1, <5>2
      <4>2. CASE choice = Reject
        <5>1. /\ case.reject_votes = dispute_case[f].reject_votes + 1
              /\ case.release_votes = dispute_case[f].release_votes
          BY <3>2, <3>3, <4>2 DEF Release, Reject, PanelSize
        <5>2. /\ Cardinality(Votes(f, Reject)') = Cardinality(Votes(f, Reject)) + 1
              /\ Votes(f, Release)' = Votes(f, Release)
          BY <3>4, <3>5, <4>2
        <5> QED
          BY <3>3, <5>1, <5>2
      <4> QED
        BY <4>1, <4>2
    <3>7. /\ case.decision = Release <=> case.release_votes = Quorum
          /\ case.decision = Reject <=> case.reject_votes = Quorum
      BY <2>2, <3>2, <3>3 DEF Open, Release, Reject, Quorum, PanelSize
    <3>8. Votes(f, Release)' \cup Votes(f, Reject)' \subseteq panel \ {f}
      <4>1. Votes(f, Release)' \cup Votes(f, Reject)' \subseteq
               Votes(f, Release) \cup Votes(f, Reject) \cup {a}
        BY <2>1, CountedVotes DEF Release, Reject
      <4> QED
        BY <2>1, <3>3, <4>1
    <3> QED
      BY <2>1, <2>4, <3>1, <3>6, <3>7, <3>8
  <2> QED
    BY <2>3, <2>4
<1>7. CASE ArbitrationStep
  BY <1>3, <1>4, <1>5, <1>6, <1>7 DEF ArbitrationStep
<1> QED
  BY <1>2, <1>7 DEF Next

(***************************************************************************)
(* The theorems.                                                           *)
(***************************************************************************)

Strengthening == CaseInv /\ Fresh /\ CasesUnderQuorum

Safety ==
    /\ Backed
    /\ ActiveClaimsCounted
    /\ RefundLeavesNoOpenClaim
    /\ DisputeLock
    /\ SettlementMatchesClaim
    /\ VotesCounted

IInv == TypeOK /\ Strengthening /\ Safety

LEMMA InitIInv ==
    ASSUME Init
    PROVE  Strengthening /\ Safety
<1>1. /\ bounty.status \in {"Absent", "Draft"}
      /\ bounty.amount_funded = 0
      /\ bounty.active_claims = 0
      /\ bounty.reward_amount \in Nat
  BY BountyAssumption DEF Init, NoBounty, Draft
<1>2. /\ vault = 0
      /\ claim = [f \in Finders |-> NoClaim]
      /\ panel = {}
      /\ dispute_case = [f \in Finders |-> NoCase]
      /\ vote = [f \in Finders |-> [a \in Wallets |-> Open]]
  BY DEF Init, ArbitrationInit
<1>3. \A f \in Finders : claim[f].status = "Absent"
  BY <1>2 DEF NoClaim
<1>4. Strengthening
  BY <1>1, <1>2, <1>3 DEF Strengthening, CaseInv, Fresh, CasesUnderQuorum, NoCase, Open,
                          Quorum
<1>5. Backed
  BY <1>1, <1>2 DEF Backed
<1>6. OpenClaims = {}
  BY <1>3 DEF OpenClaims, Unresolved
<1>7. ActiveClaimsCounted /\ RefundLeavesNoOpenClaim
  BY <1>1, <1>6, FS_EmptySet DEF ActiveClaimsCounted, RefundLeavesNoOpenClaim
<1>8. DisputeLock /\ SettlementMatchesClaim
  BY <1>1, <1>3 DEF DisputeLock, SettlementMatchesClaim
<1>9. VotesCounted
  <2> SUFFICES ASSUME NEW f \in Finders
               PROVE  /\ dispute_case[f].release_votes = Cardinality(Votes(f, Release))
                      /\ dispute_case[f].reject_votes = Cardinality(Votes(f, Reject))
                      /\ dispute_case[f].decision = Release
                            <=> dispute_case[f].release_votes = Quorum
                      /\ dispute_case[f].decision = Reject
                            <=> dispute_case[f].reject_votes = Quorum
                      /\ Votes(f, Release) \cup Votes(f, Reject) \subseteq panel \ {f}
    BY DEF VotesCounted
  <2>1. Votes(f, Release) = {} /\ Votes(f, Reject) = {}
    BY <1>2 DEF Votes, Open, Release, Reject
  <2>2. /\ dispute_case[f].release_votes = 0
        /\ dispute_case[f].reject_votes = 0
        /\ dispute_case[f].decision = Open
    BY <1>2 DEF NoCase
  <2> QED
    BY <2>1, <2>2, FS_EmptySet DEF Open, Release, Reject, Quorum
<1> QED
  BY <1>4, <1>5, <1>7, <1>8, <1>9 DEF Safety

\* The invariant that every theorem below starts from.
LEMMA IInvCorrect == Spec => []IInv
<1>1. Init => Strengthening /\ Safety
  BY InitIInv
<1>2. TypeOK /\ CaseInv' /\ Strengthening /\ Safety /\ [Next]_vars
         => (Strengthening /\ Safety)'
  <2> SUFFICES ASSUME TypeOK, CaseInv', Strengthening, Safety, [Next]_vars
               PROVE  (Strengthening /\ Safety)'
    OBVIOUS
  <2> USE DEF Strengthening, Safety
  <2>1. Shape
    BY StepShapes
  <2>2. Fresh' /\ CasesUnderQuorum'
    BY <2>1, FreshStep, CasesUnderQuorumStep
  <2>3. Backed' /\ SettlementMatchesClaim' /\ DisputeLock'
    BY <2>1, BackedStep, SettlementMatchesClaimStep, DisputeLockStep
  <2>4. ActiveClaimsCounted' /\ RefundLeavesNoOpenClaim'
    BY <2>1, ActiveClaimsCountedStep, RefundLeavesNoOpenClaimStep
  <2>5. VotesCounted'
    BY VotesCountedStep
  <2> QED
    BY <2>2, <2>3, <2>4, <2>5
<1> QED
  BY <1>1, <1>2, TypeCorrect, PTL DEF Spec, IInv

\* The vault always covers what the bounty account says is escrowed, and a
\* bounty that can still pay holds exactly its reward.
THEOREM EscrowIsBacked == Spec => []Backed
<1>1. IInv => Backed
  BY DEF IInv, Safety
<1> QED
  BY <1>1, IInvCorrect, PTL

\* active_claims, which alone guards refund_after_expiry, is the number of
\* undecided claims, so no refund leaves a claim undecided.
THEOREM RefundsStrandNoClaim == Spec => [](ActiveClaimsCounted /\ RefundLeavesNoOpenClaim)
<1>1. IInv => ActiveClaimsCounted /\ RefundLeavesNoOpenClaim
  BY DEF IInv, Safety
<1> QED
  BY <1>1, IInvCorrect, PTL

\* The counter the handlers add to and subtract from, one claim at a time, is
\* the number of the bounty's undecided claims.
THEOREM CounterIsExact == Spec => []ActiveClaimsCounted
<1>1. IInv => ActiveClaimsCounted
  BY DEF IInv, Safety
<1> QED
  BY <1>1, IInvCorrect, PTL

\* The status Disputed is a lock that exactly one disputed claim holds.
THEOREM OneDisputeAtATime == Spec => []DisputeLock
<1>1. IInv => DisputeLock
  BY DEF IInv, Safety
<1> QED
  BY <1>1, IInvCorrect, PTL

\* At most one claim settles, and the bounty names its finder.
THEOREM OneSettlement == Spec => []SettlementMatchesClaim
<1>1. IInv => SettlementMatchesClaim
  BY DEF IInv, Safety
<1> QED
  BY <1>1, IInvCorrect, PTL

\* The counters and the decision of a case are those of its vote accounts.
THEOREM TallyIsHonest == Spec => []VotesCounted
<1>1. IInv => VotesCounted
  BY DEF IInv, Safety
<1> QED
  BY <1>1, IInvCorrect, PTL

\* No instruction touches a rejected or a settled claim again.
THEOREM VerdictsStay == Spec => VerdictsAreFinal
<1>1. TypeOK /\ [Next]_vars =>
        [\A f \in Finders :
            claim[f].status \in {"Rejected", "Settled"} => claim'[f] = claim[f]]_vars
  <2> SUFFICES ASSUME TypeOK, [Next]_vars, NEW f \in Finders,
                      claim[f].status \in {"Rejected", "Settled"}
               PROVE  claim'[f] = claim[f]
    OBVIOUS
  <2>1. ASSUME NEW g \in Finders, ClaimShape(g)
        PROVE  claim'[f] = claim[f]
    BY <2>1 DEF ClaimShape, Submitted, Judged, RejectionFinal, Settled, DisputeOpened,
                DisputeFailed, ClaimBecomes, Reviewable
  <2>2. Shape
    BY StepShapes
  <2> QED
    BY <2>1, <2>2 DEF Shape, Created, Funding, Cancelled, Refunded, PanelConfigured, Elsewhere
<1> QED
  BY <1>1, TypeCorrect, PTL DEF Spec, VerdictsAreFinal

\* Under workflow version 1 a rejection becomes final only after a dispute or
\* once its dispute window has passed.
THEOREM RejectionsWait == Spec => RejectionWaitsForWindow
<1>1. TypeOK /\ [Next]_vars =>
        [\A f \in Finders :
            claim[f].status # "Rejected" /\ claim'[f].status = "Rejected"
                /\ bounty.workflow_version = 1 =>
            \/ claim[f].status = "Disputed"
            \/ claim[f].status = "RejectionPending"
                  /\ now > claim[f].dispute_deadline]_vars
  <2> SUFFICES ASSUME TypeOK, [Next]_vars, NEW f \in Finders,
                      claim[f].status # "Rejected", claim'[f].status = "Rejected",
                      bounty.workflow_version = 1
               PROVE  \/ claim[f].status = "Disputed"
                      \/ claim[f].status = "RejectionPending"
                            /\ now > claim[f].dispute_deadline
    OBVIOUS
  <2>1. ASSUME NEW g \in Finders, ClaimShape(g)
        PROVE  \/ claim[f].status = "Disputed"
               \/ claim[f].status = "RejectionPending" /\ now > claim[f].dispute_deadline
    BY <2>1 DEF ClaimShape, Submitted, Judged, RejectionFinal, Settled, DisputeOpened,
                DisputeFailed, ClaimBecomes
  <2>2. Shape
    BY StepShapes
  <2> QED
    BY <2>1, <2>2 DEF Shape, Created, Funding, Cancelled, Refunded, PanelConfigured, Elsewhere
<1> QED
  BY <1>1, TypeCorrect, PTL DEF Spec, RejectionWaitsForWindow

\* A disputed claim is paid only when two panel members other than its finder
\* voted for it, or, without a panel, by an arbiter who is not its finder.
THEOREM PayoutsAreAuthorized == Spec => DisputedPayoutAuthorized
<1>1. IInv /\ [Next]_vars =>
        [\A f \in Finders :
            claim[f].status = "Disputed" /\ claim'[f].status = "Settled" =>
                IF bounty.arbitration_mode = 1
                THEN Cardinality(Votes(f, Release) \ {f}) >= Quorum
                ELSE bounty.arbiter # f]_vars
  <2> SUFFICES ASSUME IInv, [Next]_vars, NEW f \in Finders,
                      claim[f].status = "Disputed", claim'[f].status = "Settled"
               PROVE  IF bounty.arbitration_mode = 1
                      THEN Cardinality(Votes(f, Release) \ {f}) >= Quorum
                      ELSE bounty.arbiter # f
    OBVIOUS
  <2>1. Shape
    BY StepShapes DEF IInv
  <2>2. ASSUME NEW g \in Finders, ClaimShape(g)
        PROVE  g = f /\ Settled(f)
    BY <2>2 DEF ClaimShape, Submitted, Judged, RejectionFinal, Settled, DisputeOpened,
                DisputeFailed, ClaimBecomes
  <2>3. Settled(f)
    BY <2>1, <2>2 DEF Shape, Created, Funding, Cancelled, Refunded, PanelConfigured,
                      Elsewhere
  <2>4. \/ bounty.arbitration_mode = 0 /\ bounty.arbiter # f
        \/ dispute_case[f].exists /\ dispute_case[f].decision = Release
    BY <2>3 DEF Settled, Reviewable
  <2>5. CASE bounty.arbitration_mode = 0 /\ bounty.arbiter # f
    BY <2>5
  <2>6. CASE dispute_case[f].exists /\ dispute_case[f].decision = Release
    <3>1. bounty.arbitration_mode = 1
      BY <2>6 DEF IInv, Strengthening, CasesUnderQuorum
    <3>2. Cardinality(Votes(f, Release)) = Quorum /\ f \notin Votes(f, Release)
      BY <2>6 DEF IInv, Safety, VotesCounted
    <3>3. Votes(f, Release) \ {f} = Votes(f, Release)
      BY <3>2
    <3> QED
      BY <3>1, <3>2, <3>3 DEF Quorum
  <2> QED
    BY <2>4, <2>5, <2>6
<1> QED
  BY <1>1, IInvCorrect, PTL DEF Spec, DisputedPayoutAuthorized

(***************************************************************************)
(* The refinement: every instruction is a step of the abstract escrow, or  *)
(* changes nothing that it speaks of.                                      *)
(***************************************************************************)

\* A step of the program is a step of the abstract escrow or invisible there.
LEMMA StepRefines ==
    ASSUME IInv, [Next]_vars
    PROVE  [Promise!Next]_(Promise!promiseVars)
<1> USE BountyAssumption, ClaimsAssumption
    DEF IInv, Strengthening, Safety, TypeOK, BountyTypeOK, Backed, Fresh
<1>1. CASE Created
  <2>1. Promise!Announce
    BY <1>1 DEF Created, Promise!Announce, Promise!Prices, BountyAccount
  <2> QED
    BY <2>1 DEF Promise!Next
<1>2. ASSUME NEW amount \in 1..Supply, Funding(amount)
      PROVE  Promise!Deposit(amount)
  BY <1>2 DEF Funding, BountyBecomes, TransferToVault, Promise!Deposit, BountyAccount
<1>3. CASE Cancelled
  <2>1. Promise!Abandon
    BY <1>3 DEF Cancelled, BountyBecomes, Promise!Abandon
  <2> QED
    BY <2>1 DEF Promise!Next
<1>4. CASE Refunded
  <2>1. bounty.status = "Funded" /\ bounty.amount_funded = bounty.reward_amount
    BY <1>4 DEF Refunded, Refundable
  <2>2. Promise!GiveBack
    BY <1>4, <2>1 DEF Refunded, BountyBecomes, TransferFromVault, Promise!GiveBack,
                      Promise!Empty
  <2> QED
    BY <2>2 DEF Promise!Next
<1>5. ASSUME NEW f \in Finders, ClaimShape(f)
      PROVE  [Promise!Next]_(Promise!promiseVars)
  <2>1. CASE Settled(f)
    <3>1. /\ bounty.status \in {"Funded", "Disputed"}
          /\ bounty.amount_funded = bounty.reward_amount
          /\ bounty.reward_amount \in Nat
          /\ f \in Wallets
          /\ f # Owner
      BY <2>1 DEF Settled, BountyAccount
    <3>2. Promise!Pay(f)
      BY <2>1, <3>1 DEF Settled, BountyBecomes, TransferFromVault, Promise!Pay, Promise!Empty
    <3> QED
      BY <3>1, <3>2 DEF Promise!Next
  <2>2. CASE \/ Submitted(f) \/ Judged(f) \/ RejectionFinal(f)
             \/ DisputeOpened(f) \/ DisputeFailed(f)
    <3>1. /\ \/ bounty'.status = bounty.status
             \/ bounty.status = "Funded" /\ bounty'.status = "Disputed"
             \/ bounty.status = "Disputed" /\ bounty'.status = "Funded"
          /\ bounty'.reward_amount = bounty.reward_amount
          /\ bounty'.amount_funded = bounty.amount_funded
          /\ tokens' = tokens
      <4>1. CASE Submitted(f) \/ RejectionFinal(f)
        BY <4>1 DEF Submitted, RejectionFinal, BountyBecomes
      <4>2. CASE Judged(f)
        BY <4>2 DEF Judged
      <4>3. CASE DisputeOpened(f)
        BY <4>3 DEF DisputeOpened, BountyBecomes
      <4>4. CASE DisputeFailed(f)
        BY <4>4 DEF DisputeFailed, BountyBecomes
      <4> QED
        BY <2>2, <4>1, <4>2, <4>3, <4>4
    <3>2. CASE bounty'.status = bounty.status
      BY <3>1, <3>2 DEF Promise!promiseVars
    <3>3. CASE bounty.status = "Funded" /\ bounty'.status = "Disputed"
      BY <3>1, <3>3 DEF Promise!promiseVars
    <3>4. CASE bounty.status = "Disputed" /\ bounty'.status = "Funded"
      BY <3>1, <3>4 DEF Promise!promiseVars
    <3> QED
      BY <3>1, <3>2, <3>3, <3>4
  <2> QED
    BY <1>5, <2>1, <2>2 DEF ClaimShape
<1>6. CASE PanelConfigured \/ Elsewhere
  <2>1. /\ bounty'.status = bounty.status
        /\ bounty'.reward_amount = bounty.reward_amount
        /\ bounty'.amount_funded = bounty.amount_funded
        /\ tokens' = tokens
    BY <1>6 DEF PanelConfigured, Elsewhere, BountyAccount
  <2> QED
    BY <2>1 DEF Promise!promiseVars
<1>7. Shape
  BY StepShapes
<1> QED
  BY <1>1, <1>2, <1>3, <1>4, <1>5, <1>6, <1>7 DEF Shape, Promise!Next

\* The instructions implement the abstract escrow: deposits are held until
\* they are the whole reward, which leaves once, in full, to one wallet.
THEOREM Implementation == Spec => KeepsPromise
<1>1. Init => Promise!Init
  BY BountyAssumption DEF Init, NoBounty, Draft, Promise!Init, Promise!Prices
<1>2. IInv /\ [Next]_vars => [Promise!Next]_(Promise!promiseVars)
  BY StepRefines
<1> QED
  BY <1>1, <1>2, IInvCorrect, PTL DEF Spec, KeepsPromise, Promise!Spec

(***************************************************************************)
(* The other refinement: to a reader of the ClaimV2 accounts' statuses     *)
(* alone, a step is a step of one claim's life cycle, or none.             *)
(***************************************************************************)

\* While a bounty is funded, no claim is in dispute and none was paid.
LEMMA FundedIsUnlocked ==
    ASSUME DisputeLock, SettlementMatchesClaim, bounty.status = "Funded"
    PROVE  Lifecycle!Unlocked
<1> QED
  BY DEF DisputeLock, SettlementMatchesClaim, Lifecycle!Unlocked

\* One claim's new status, as it is read.
LEMMA StatusRead ==
    ASSUME NEW f \in Finders, NEW s, ClaimBecomes(f, s)
    PROVE  Lifecycle!Becomes(f, s)
<1> QED
  BY DEF ClaimBecomes, Lifecycle!Becomes

\* Every shape a claim's step takes is a step of its life cycle.
LEMMA ClaimFollows ==
    ASSUME DisputeLock, SettlementMatchesClaim, NEW f \in Finders, ClaimShape(f)
    PROVE  Lifecycle!LifecycleStep(f)
<1> USE DEF Lifecycle!LifecycleStep
<1>1. CASE Submitted(f)
  <2>1. Lifecycle!Submit(f)
    BY <1>1, FundedIsUnlocked, StatusRead DEF Submitted, Lifecycle!Submit
  <2> QED
    BY <2>1
<1>2. CASE Judged(f)
  <2>1. CASE bounty.status = "Funded" /\ ClaimBecomes(f, "AiReviewed")
    BY <1>2, <2>1, FundedIsUnlocked, StatusRead
       DEF Judged, Reviewable, Lifecycle!Review, Lifecycle!Undecided
  <2>2. CASE ClaimBecomes(f, "RejectionPending") \/ ClaimBecomes(f, "Rejected")
    BY <1>2, <2>2, StatusRead DEF Judged, Reviewable, Lifecycle!Turn, Lifecycle!Undecided
  <2> QED
    BY <1>2, <2>1, <2>2 DEF Judged
<1>3. CASE RejectionFinal(f)
  BY <1>3, StatusRead DEF RejectionFinal, Lifecycle!Finalize
<1>4. CASE Settled(f)
  BY <1>4, FundedIsUnlocked, StatusRead
     DEF Settled, Reviewable, Lifecycle!Settle, Lifecycle!Undecided
<1>5. CASE DisputeOpened(f)
  BY <1>5, FundedIsUnlocked, StatusRead
     DEF DisputeOpened, Reviewable, Lifecycle!Contest, Lifecycle!Undecided
<1>6. CASE DisputeFailed(f)
  BY <1>6, StatusRead DEF DisputeFailed, Lifecycle!Dismiss
<1> QED
  BY <1>1, <1>2, <1>3, <1>4, <1>5, <1>6 DEF ClaimShape

\* The ClaimV2 accounts of a bounty go through the claim life cycle that the
\* database mirror relies on.
THEOREM ClaimsFollowLifecycle == Spec => FollowsLifecycle
<1> DEFINE statuses == [f \in Finders |-> claim[f].status]
<1>1. Init => Lifecycle!LifecycleInit
  BY DEF Init, NoClaim, Lifecycle!LifecycleInit
<1>2. IInv /\ [Next]_vars => [Lifecycle!LifecycleNext]_statuses
  <2> SUFFICES ASSUME IInv, [Next]_vars
               PROVE  Lifecycle!LifecycleNext \/ UNCHANGED statuses
    OBVIOUS
  <2>1. Shape /\ DisputeLock /\ SettlementMatchesClaim
    BY StepShapes DEF IInv, Safety
  <2>2. CASE \E f \in Finders : ClaimShape(f)
    BY <2>1, <2>2, ClaimFollows DEF Lifecycle!LifecycleNext
  <2>3. CASE UNCHANGED claim
    BY <2>3
  <2>4. (\E f \in Finders : ClaimShape(f)) \/ UNCHANGED claim
    BY <2>1 DEF Shape, Created, Funding, Cancelled, Refunded, PanelConfigured, Elsewhere
  <2> QED
    BY <2>2, <2>3, <2>4
<1> QED
  BY <1>1, <1>2, IInvCorrect, PTL DEF Spec, FollowsLifecycle, Lifecycle!LifecycleSpec
=============================================================================
