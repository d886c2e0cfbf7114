---------------------------- MODULE EscrowProofs ----------------------------
(***************************************************************************)
(* Theorems about module Escrow, for every set of wallets, every reward,   *)
(* deadline and window, and every order of instructions.                   *)
(***************************************************************************)
EXTENDS Escrow, FiniteSetTheorems, TLAPS

(***************************************************************************)
(* Type correctness.                                                       *)
(***************************************************************************)

\* What the program stores in a case before it is opened and before its
\* decision: the bound that keeps the vote counters within their type.
CaseInv ==
    \A f \in Finders :
        /\ dispute_case[f].decision = Open =>
              /\ dispute_case[f].release_votes < Quorum
              /\ dispute_case[f].reject_votes < Quorum
        /\ dispute_case[f].release_votes <= Quorum
        /\ dispute_case[f].reject_votes <= Quorum
        /\ ~dispute_case[f].exists => dispute_case[f] = NoCase

\* Funding keeps the bounty account well typed.
LEMMA ApplyFundingType ==
    ASSUME bounty \in BountyAccount, NEW amount \in Nat, ApplyFunding(amount)
    PROVE  bounty' \in BountyAccount
<1> DEFINE total == bounty.amount_funded + amount
           s == IF total >= bounty.reward_amount THEN "Funded" ELSE bounty.status
<1>1. bounty' = [bounty EXCEPT !.amount_funded = total, !.status = s]
  BY DEF ApplyFunding
<1>2. total \in Nat /\ s \in BountyStatus
  BY DEF BountyAccount, BountyStatus
<1> HIDE DEF total, s
<1> QED
  BY <1>1, <1>2 DEF BountyAccount

\* A settlement keeps the bounty account well typed.
LEMMA SettleToType ==
    ASSUME TypeOK, NEW f \in Finders, SettleTo(f)
    PROVE  /\ bounty' \in BountyAccount
           /\ vault' \in Nat
           /\ tokens' \in [Wallets -> Nat]
           /\ claim' \in [Finders -> ClaimV2]
<1> USE BountyAssumption, ClaimsAssumption DEF TypeOK, BountyTypeOK, ClaimsTypeOK
<1> DEFINE rest == bounty.amount_funded - bounty.reward_amount
<1>1. rest \in Nat /\ ClosedAll \in Nat /\ f \in Wallets
  BY DEF SettleTo, ClosedAll, BountyAccount
<1>2. bounty' = [bounty EXCEPT !.amount_funded = rest, !.finder = f,
                               !.status = "Released", !.active_claims = ClosedAll]
  BY DEF SettleTo
<1> HIDE DEF rest
<1>3. bounty' \in BountyAccount
  BY <1>1, <1>2 DEF BountyAccount, BountyStatus
<1>4. vault' \in Nat /\ tokens' \in [Wallets -> Nat]
  BY <1>1 DEF SettleTo, TransferFromVault, BountyAccount
<1>5. claim' \in [Finders -> ClaimV2]
  BY DEF SettleTo, SetStatus, ClaimV2, ClaimV2Status
<1> QED
  BY <1>3, <1>4, <1>5

\* Reopening the bounty after a rejected dispute keeps its account well typed.
LEMMA ResumeType ==
    ASSUME bounty \in BountyAccount, ResumeAfterV2Reject
    PROVE  bounty' \in BountyAccount
<1>1. Decremented \in Nat
  BY DEF ResumeAfterV2Reject, Decremented, BountyAccount
<1> QED
  BY <1>1 DEF ResumeAfterV2Reject, BountyAccount, BountyStatus

LEMMA BountyStepType ==
    ASSUME TypeOK, BountyStep
    PROVE  TypeOK'
<1> USE BountyAssumption, ClaimsAssumption, DepositAssumption
    DEF TypeOK, BountyTypeOK, ClaimsTypeOK, ArbitrationTypeOK, arbitrationVars
<1>0. UNCHANGED <<claim, arbitrationVars>>
  BY DEF BountyStep
<1>1. ASSUME NEW w \in Wallets, NEW a \in Wallets, NEW r \in Rewards, NEW d \in Deadlines,
             CreateBountyV2(w, a, r, d) \/ CreateBountySponsored(w, a, r, d)
      PROVE  TypeOK'
  BY <1>0, <1>1 DEF CreateBountyV2, CreateBountySponsored, InitializeBounty,
                    WorkflowOf, Draft, BountyAccount, BountyStatus
<1>2. ASSUME NEW w \in Wallets, NEW amount \in 1..Supply,
             FundBounty(w, amount) \/ FundBountySponsored(w, amount)
      PROVE  TypeOK'
  <2>1. amount \in Nat /\ FundBounty(w, amount)
    BY <1>2 DEF FundBountySponsored
  <2>2. bounty' \in BountyAccount
    BY <2>1, ApplyFundingType DEF FundBounty
  <2>3. vault' \in Nat /\ tokens' \in [Wallets -> Nat] /\ now' = now
    BY <2>1 DEF FundBounty, TransferToVault
  <2> QED
    BY <1>0, <2>2, <2>3
<1>3. ASSUME NEW w \in Wallets, CancelBounty(w)
      PROVE  TypeOK'
  BY <1>0, <1>3 DEF CancelBounty, BountyAccount, BountyStatus
<1>4. ASSUME NEW w \in Wallets, RefundAfterExpiry(w)
      PROVE  TypeOK'
  <2>1. bounty' \in BountyAccount
    BY <1>4 DEF RefundAfterExpiry, BountyAccount, BountyStatus
  <2>2. vault' \in Nat /\ tokens' \in [Wallets -> Nat] /\ now' = now
    BY <1>4 DEF RefundAfterExpiry, TransferFromVault, BountyAccount
  <2> QED
    BY <1>0, <2>1, <2>2
<1>5. ASSUME NEW amount \in DepositAmounts, ExternalDeposit(amount)
      PROVE  TypeOK'
  BY <1>0, <1>5 DEF ExternalDeposit
<1>6. CASE ClockMatters /\ Tick
  BY <1>0, <1>6 DEF Tick
<1> QED
  BY <1>1, <1>2, <1>3, <1>4, <1>5, <1>6 DEF BountyStep

LEMMA ClaimStepType ==
    ASSUME TypeOK, ClaimStep
    PROVE  TypeOK'
<1> USE BountyAssumption, ClaimsAssumption
    DEF TypeOK, BountyTypeOK, ClaimsTypeOK, ArbitrationTypeOK, arbitrationVars
<1>0. UNCHANGED arbitrationVars
  BY DEF ClaimStep
<1>1. ASSUME NEW f \in Finders, SubmitClaimV2(f) \/ SubmitClaimV2Sponsored(f)
      PROVE  TypeOK'
  <2>1. bounty' \in BountyAccount
    BY <1>1 DEF SubmitClaimV2, SubmitClaimV2Sponsored, BountyAccount
  <2>2. claim' \in [Finders -> ClaimV2] /\ UNCHANGED <<vault, tokens, now>>
    BY <1>1 DEF SubmitClaimV2, SubmitClaimV2Sponsored, NoClaim, ClaimV2, ClaimV2Status
  <2> QED
    BY <1>0, <2>1, <2>2
<1>2. ASSUME NEW f \in Finders, FinalizeRejectionV2(f)
      PROVE  TypeOK'
  <2>1. bounty' \in BountyAccount
    BY <1>2 DEF FinalizeRejectionV2, Decremented, BountyAccount
  <2>2. claim' \in [Finders -> ClaimV2] /\ UNCHANGED <<vault, tokens, now>>
    BY <1>2 DEF FinalizeRejectionV2, SetStatus, ClaimV2, ClaimV2Status
  <2> QED
    BY <1>0, <2>1, <2>2
<1>3. ASSUME NEW f \in Finders, TimeoutDisputeV2(f)
      PROVE  TypeOK'
  <2>1. bounty' \in BountyAccount
    BY <1>3, ResumeType DEF TimeoutDisputeV2
  <2>2. claim' \in [Finders -> ClaimV2] /\ UNCHANGED <<vault, tokens, now>>
    BY <1>3 DEF TimeoutDisputeV2, SetStatus, ClaimV2, ClaimV2Status
  <2> QED
    BY <1>0, <2>1, <2>2
<1>4. ASSUME NEW f \in Finders, NEW w \in Wallets, RecordAiReviewV2(w, f)
      PROVE  TypeOK'
  BY <1>0, <1>4 DEF RecordAiReviewV2, bountyVars, SetStatus, ClaimV2, ClaimV2Status
<1>5. ASSUME NEW f \in Finders, NEW w \in Wallets, AcceptClaimV2(w, f)
      PROVE  TypeOK'
  <2>1. SettleTo(f) /\ now' = now
    BY <1>5 DEF AcceptClaimV2
  <2> QED
    BY <1>0, <2>1, SettleToType
<1>6. ASSUME NEW f \in Finders, NEW w \in Wallets, RejectClaimV2(w, f)
      PROVE  TypeOK'
  <2>1. UNCHANGED bountyVars
    BY <1>6 DEF RejectClaimV2
  <2>2. CASE /\ bounty.workflow_version >= 1
             /\ claim' = [claim EXCEPT ![f].status = "RejectionPending",
                                       ![f].dispute_deadline = now + RejectWindow]
    <3> DEFINE until == now + RejectWindow
    <3>1. until \in Nat
      OBVIOUS
    <3>2. claim' = [claim EXCEPT ![f].status = "RejectionPending",
                                 ![f].dispute_deadline = until]
      BY <2>2
    <3> HIDE DEF until
    <3>3. claim' \in [Finders -> ClaimV2]
      BY <3>1, <3>2 DEF ClaimV2, ClaimV2Status
    <3> QED
      BY <1>0, <2>1, <3>3 DEF bountyVars
  <2>3. CASE SetStatus(f, "Rejected")
    <3>1. claim' \in [Finders -> ClaimV2]
      BY <2>3 DEF SetStatus, ClaimV2, ClaimV2Status
    <3> QED
      BY <1>0, <2>1, <3>1 DEF bountyVars
  <2> QED
    BY <1>6, <2>2, <2>3 DEF RejectClaimV2
<1>7. ASSUME NEW f \in Finders, NEW w \in Wallets, OpenDisputeV2(w, f)
      PROVE  TypeOK'
  <2>1. bounty' \in BountyAccount
    BY <1>7 DEF OpenDisputeV2, LockForV2Dispute, BountyAccount, BountyStatus
  <2>2. claim' \in [Finders -> ClaimV2] /\ UNCHANGED <<vault, tokens, now>>
    BY <1>7 DEF OpenDisputeV2, EnterDispute, ClaimV2, ClaimV2Status
  <2> QED
    BY <1>0, <2>1, <2>2
<1>8. ASSUME NEW f \in Finders, NEW w \in Wallets, NEW release \in BOOLEAN,
             ResolveDisputeV2(w, f, release)
      PROVE  TypeOK'
  <2>1. CASE SettleTo(f)
    BY <1>0, <1>8, <2>1, SettleToType DEF ResolveDisputeV2
  <2>2. CASE ResumeAfterV2Reject /\ SetStatus(f, "Rejected") /\ UNCHANGED <<vault, tokens>>
    <3>1. bounty' \in BountyAccount
      BY <2>2, ResumeType
    <3>2. claim' \in [Finders -> ClaimV2] /\ UNCHANGED <<vault, tokens, now>>
      BY <1>8, <2>2 DEF ResolveDisputeV2, SetStatus, ClaimV2, ClaimV2Status
    <3> QED
      BY <1>0, <3>1, <3>2
  <2> QED
    BY <1>8, <2>1, <2>2 DEF ResolveDisputeV2
<1> QED
  BY <1>1, <1>2, <1>3, <1>4, <1>5, <1>6, <1>7, <1>8 DEF ClaimStep

\* Counting a vote on an undecided case keeps the case well typed.
LEMMA CountedType ==
    ASSUME NEW case \in DisputeCase, NEW choice \in {Release, Reject},
           case.release_votes < Quorum, case.reject_votes < Quorum
    PROVE  /\ Counted(case, choice) \in DisputeCase
           /\ Counted(case, choice).exists = case.exists
           /\ Counted(case, choice).release_votes =
                 case.release_votes + (IF choice = Release THEN 1 ELSE 0)
           /\ Counted(case, choice).reject_votes =
                 case.reject_votes + (IF choice = Reject THEN 1 ELSE 0)
           /\ Counted(case, choice).decision =
                 IF Counted(case, choice).release_votes >= Quorum THEN Release
                 ELSE IF Counted(case, choice).reject_votes >= Quorum THEN Reject
                 ELSE case.decision
<1> DEFINE releases == case.release_votes + (IF choice = Release THEN 1 ELSE 0)
           rejects == case.reject_votes + (IF choice = Reject THEN 1 ELSE 0)
           decision == IF releases >= Quorum THEN Release
                       ELSE IF rejects >= Quorum THEN Reject
                       ELSE case.decision
<1>1. Counted(case, choice) = [case EXCEPT !.release_votes = releases,
                                           !.reject_votes = rejects,
                                           !.decision = decision]
  BY DEF Counted
<1>2. /\ releases \in 0..PanelSize
      /\ rejects \in 0..PanelSize
      /\ decision \in {Open, Release, Reject}
  BY DEF DisputeCase, Quorum, PanelSize, Open, Release, Reject
<1>3. decision = IF releases >= Quorum THEN Release
                 ELSE IF rejects >= Quorum THEN Reject ELSE case.decision
  OBVIOUS
<1> HIDE DEF decision
<1>4. /\ Counted(case, choice) \in DisputeCase
      /\ Counted(case, choice).exists = case.exists
      /\ Counted(case, choice).release_votes = releases
      /\ Counted(case, choice).reject_votes = rejects
      /\ Counted(case, choice).decision = decision
  <2> HIDE DEF releases, rejects
  <2> QED
    BY <1>1, <1>2 DEF DisputeCase
<1> QED
  BY <1>3, <1>4

\* Marking a case finalized keeps the cases well typed and consistent.
LEMMA FinalizedType ==
    ASSUME TypeOK, CaseInv, NEW f \in Finders, dispute_case[f].exists,
           dispute_case' = [dispute_case EXCEPT ![f].finalized = TRUE]
    PROVE  dispute_case' \in [Finders -> DisputeCase] /\ CaseInv'
<1> USE DEF TypeOK, ArbitrationTypeOK
<1>1. ASSUME NEW g \in Finders, g # f
      PROVE  dispute_case'[g] = dispute_case[g]
  BY <1>1
<1>2. dispute_case'[f] = [dispute_case[f] EXCEPT !.finalized = TRUE]
  OBVIOUS
<1>3. /\ dispute_case'[f] \in DisputeCase
      /\ dispute_case'[f].exists = dispute_case[f].exists
      /\ dispute_case'[f].release_votes = dispute_case[f].release_votes
      /\ dispute_case'[f].reject_votes = dispute_case[f].reject_votes
      /\ dispute_case'[f].decision = dispute_case[f].decision
  <2>1. dispute_case[f] \in DisputeCase
    OBVIOUS
  <2> QED
    BY <1>2, <2>1 DEF DisputeCase
<1>4. dispute_case' \in [Finders -> DisputeCase]
  BY <1>1, <1>3
<1>5. CaseInv'
  BY <1>1, <1>3 DEF CaseInv
<1> QED
  BY <1>4, <1>5

LEMMA ArbitrationStepType ==
    ASSUME TypeOK, CaseInv, ArbitrationStep
    PROVE  TypeOK' /\ CaseInv'
<1> USE BountyAssumption, ClaimsAssumption
    DEF TypeOK, BountyTypeOK, ClaimsTypeOK, ArbitrationTypeOK
<1>1. ASSUME NEW w \in Wallets, NEW arbiters \in SUBSET Wallets,
             ConfigureArbitrationPanel(w, arbiters)
      PROVE  TypeOK' /\ CaseInv'
  <2>1. bounty' \in BountyAccount
    BY <1>1 DEF ConfigureArbitrationPanel, BountyAccount
  <2>2. panel' \in SUBSET (Wallets \ {Owner})
    BY <1>1 DEF ConfigureArbitrationPanel
  <2> QED
    BY <1>1, <2>1, <2>2 DEF ConfigureArbitrationPanel, CaseInv
<1>2. ASSUME NEW f \in Finders, FinalizeDisputeRelease(f)
      PROVE  TypeOK' /\ CaseInv'
  <2>1. SettleTo(f) /\ UNCHANGED <<now, panel, vote>>
    BY <1>2 DEF FinalizeDisputeRelease
  <2>2. dispute_case' \in [Finders -> DisputeCase] /\ CaseInv'
    BY <1>2, FinalizedType DEF FinalizeDisputeRelease, Finalizable, FinalizeDisputeAccounts
  <2> QED
    BY <2>1, <2>2, SettleToType
<1>3. ASSUME NEW f \in Finders, FinalizeDisputeReject(f)
      PROVE  TypeOK' /\ CaseInv'
  <2>1. bounty' \in BountyAccount /\ UNCHANGED <<vault, tokens, now, panel, vote>>
    BY <1>3, ResumeType DEF FinalizeDisputeReject
  <2>2. dispute_case' \in [Finders -> DisputeCase] /\ CaseInv'
    BY <1>3, FinalizedType DEF FinalizeDisputeReject, Finalizable, FinalizeDisputeAccounts
  <2>3. claim' \in [Finders -> ClaimV2]
    BY <1>3 DEF FinalizeDisputeReject, SetStatus, ClaimV2, ClaimV2Status
  <2> QED
    BY <2>1, <2>2, <2>3
<1>4. ASSUME NEW f \in Finders, NEW w \in Wallets, OpenDisputeV3(w, f)
      PROVE  TypeOK' /\ CaseInv'
  <2>1. bounty' \in BountyAccount /\ UNCHANGED <<vault, tokens, now, panel, vote>>
    BY <1>4 DEF OpenDisputeV3, LockForV2Dispute, BountyAccount, BountyStatus
  <2>2. claim' \in [Finders -> ClaimV2]
    BY <1>4 DEF OpenDisputeV3, EnterDispute, ClaimV2, ClaimV2Status
  <2>3. dispute_case' = [dispute_case EXCEPT ![f] = [NoCase EXCEPT !.exists = TRUE]]
    BY <1>4 DEF OpenDisputeV3
  <2>4. dispute_case'[f] = [exists |-> TRUE, release_votes |-> 0, reject_votes |-> 0,
                            decision |-> Open, finalized |-> FALSE]
    BY <2>3 DEF NoCase
  <2>5. \A g \in Finders : g # f => dispute_case'[g] = dispute_case[g]
    BY <2>3
  <2>6. dispute_case' \in [Finders -> DisputeCase]
    <3>1. [exists |-> TRUE, release_votes |-> 0, reject_votes |-> 0,
           decision |-> Open, finalized |-> FALSE] \in DisputeCase
      BY DEF DisputeCase, PanelSize
    <3> QED
      BY <2>3, <2>4, <3>1
  <2>7. /\ dispute_case'[f].exists
        /\ dispute_case'[f].release_votes = 0
        /\ dispute_case'[f].reject_votes = 0
    BY <2>4
  <2>8. CaseInv'
    <3> SUFFICES ASSUME NEW g \in Finders
                 PROVE  /\ dispute_case'[g].decision = Open =>
                              /\ dispute_case'[g].release_votes < Quorum
                              /\ dispute_case'[g].reject_votes < Quorum
                        /\ dispute_case'[g].release_votes <= Quorum
                        /\ dispute_case'[g].reject_votes <= Quorum
                        /\ ~dispute_case'[g].exists => dispute_case'[g] = NoCase
      BY DEF CaseInv
    <3>1. CASE g # f
      BY <2>5, <3>1 DEF CaseInv
    <3>2. CASE g = f
      BY <2>7, <3>2 DEF Quorum
    <3> QED
      BY <3>1, <3>2
  <2> QED
    BY <2>1, <2>2, <2>6, <2>8
<1>5. ASSUME NEW f \in Finders, NEW w \in Wallets, NEW choice \in {Release, Reject},
             CastArbitrationVote(w, f, choice)
      PROVE  TypeOK' /\ CaseInv'
  <2>1. UNCHANGED <<bountyVars, claim, panel>>
    BY <1>5 DEF CastArbitrationVote
  <2>2. vote' \in [Finders -> [Wallets -> {Open, Release, Reject}]]
    BY <1>5 DEF CastArbitrationVote
  <2>3. /\ dispute_case[f] \in DisputeCase
        /\ dispute_case[f].decision = Open
        /\ dispute_case[f].exists
        /\ dispute_case[f].release_votes < Quorum
        /\ dispute_case[f].reject_votes < Quorum
    BY <1>5 DEF CastArbitrationVote, MayVote, CastArbitrationVoteAccounts, CaseInv
  <2>4. dispute_case' = [dispute_case EXCEPT ![f] = Counted(dispute_case[f], choice)]
    BY <1>5 DEF CastArbitrationVote
  <2>5. dispute_case' \in [Finders -> DisputeCase]
    BY <2>3, <2>4, CountedType
  <2>6. CaseInv'
    <3> SUFFICES ASSUME NEW g \in Finders
                 PROVE  /\ dispute_case'[g].decision = Open =>
                              /\ dispute_case'[g].release_votes < Quorum
                              /\ dispute_case'[g].reject_votes < Quorum
                        /\ dispute_case'[g].release_votes <= Quorum
                        /\ dispute_case'[g].reject_votes <= Quorum
                        /\ ~dispute_case'[g].exists => dispute_case'[g] = NoCase
      BY DEF CaseInv
    <3>1. CASE g # f
      BY <2>4, <3>1 DEF CaseInv
    <3>2. CASE g = f
      <4>1. dispute_case'[g] = Counted(dispute_case[f], choice)
        BY <2>4, <3>2
      <4> QED
        BY <2>3, <4>1, CountedType DEF DisputeCase, Quorum, Open, Release, Reject
    <3> QED
      BY <3>1, <3>2
  <2> QED
    BY <2>1, <2>2, <2>5, <2>6 DEF bountyVars
<1> QED
  BY <1>1, <1>2, <1>3, <1>4, <1>5 DEF ArbitrationStep

\* Every reachable account is well typed: in particular amount_funded,
\* active_claims and the vote counters never leave their ranges.
THEOREM TypeCorrect == Spec => [](TypeOK /\ CaseInv)
<1>1. Init => TypeOK /\ CaseInv
  BY BountyAssumption, ClaimsAssumption
     DEF Init, ArbitrationInit, TypeOK, BountyTypeOK, ClaimsTypeOK, ArbitrationTypeOK,
         CaseInv, NoBounty, Draft, BountyAccount, BountyStatus, NoClaim, ClaimV2,
         ClaimV2Status, NoCase, DisputeCase, Quorum, PanelSize, Open, Release, Reject
<1>2. TypeOK /\ CaseInv /\ [Next]_vars => (TypeOK /\ CaseInv)'
  <2> SUFFICES ASSUME TypeOK, CaseInv, [Next]_vars
               PROVE  (TypeOK /\ CaseInv)'
    OBVIOUS
  <2>1. CASE BountyStep
    BY <2>1, BountyStepType DEF BountyStep, arbitrationVars, CaseInv
  <2>2. CASE ClaimStep
    BY <2>2, ClaimStepType DEF ClaimStep, arbitrationVars, CaseInv
  <2>3. CASE ArbitrationStep
    BY <2>3, ArbitrationStepType
  <2>4. CASE UNCHANGED vars
    BY <2>4 DEF vars, bountyVars, arbitrationVars, TypeOK, BountyTypeOK, ClaimsTypeOK,
                ArbitrationTypeOK, CaseInv
  <2> QED
    BY <2>1, <2>2, <2>3, <2>4 DEF Next
<1> QED
  BY <1>1, <1>2, PTL DEF Spec
=============================================================================
