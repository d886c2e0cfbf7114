---------------------------- MODULE LegacyProofs ----------------------------
(***************************************************************************)
(* Theorems about module LegacyEscrow, for every set of wallets and        *)
(* finders, every reward and deadline, and every order of instructions:    *)
(* the one claim a v1 bounty holds, and the promise its escrow keeps.      *)
(***************************************************************************)
EXTENDS LegacyEscrow, TLAPS

\* The statuses in which the escrow holds the whole reward.
FullyFunded == Claimed \cup {"Funded", "Disputed"}

\* The escrow holds the whole reward while the bounty can still pay, part of
\* it while the bounty is a draft, and the vault covers it.
LegacyFunds ==
    /\ bounty.amount_funded <= vault
    /\ bounty.status = "Absent" => bounty = NoBounty
    /\ bounty.status = "Draft" => bounty.amount_funded < bounty.reward_amount
    /\ bounty.status \in FullyFunded => bounty.amount_funded = bounty.reward_amount
    /\ bounty.status \notin {"Absent", "Cancelled"} => bounty.reward_amount > 0
    /\ bounty.reward_amount \in Rewards \cup {0}

\* What the v1 instructions make of the account: nobody claims from himself,
\* and no v1 instruction reaches Rejected.
LegacyShape ==
    /\ bounty.protocol_version < 2
    /\ bounty.finder \in Finders \cup {NoWallet}
    /\ bounty.status # "Rejected"

LegacyInv == BountyTypeOK /\ LegacyFunds /\ LegacyShape /\ FinderOfClaim

(***************************************************************************)
(* The instructions, one lemma for each that moves tokens.                 *)
(***************************************************************************)

\* A new bounty has a positive reward, no deposit and no finder.
LEMMA CreateKeepsInv ==
    ASSUME LegacyInv, NEW w \in Wallets, NEW a \in Wallets, NEW r \in Rewards, NEW d \in Deadlines,
           CreateBounty(w, a, r, d)
    PROVE  /\ LegacyInv'
           /\ bounty.status = "Absent" /\ bounty'.status = "Draft"
           /\ bounty'.reward_amount = r /\ r > 0
           /\ bounty.amount_funded = 0 /\ bounty'.amount_funded = 0
           /\ tokens' = tokens
<1>1. /\ bounty.status = "Absent"
      /\ bounty' = Draft(a, r, d, 1, 0)
      /\ r > 0
      /\ UNCHANGED <<vault, tokens, now>>
  BY DEF CreateBounty, InitializeBounty, CreateBountyAccounts, WorkflowOf
<1>2. r \in Nat /\ d \in Nat
  BY BountyAssumption
<1> QED
  BY <1>1, <1>2, BountyAssumption
     DEF LegacyInv, BountyTypeOK, BountyAccount, BountyStatus, Draft, NoBounty, LegacyFunds,
         LegacyShape, FinderOfClaim, FullyFunded, Claimed

\* A deposit never exceeds what is missing; the bounty opens when all is there.
LEMMA FundKeepsInv ==
    ASSUME LegacyInv, NEW w \in Wallets, NEW amount \in 1..Supply, FundBounty(w, amount)
    PROVE  /\ LegacyInv'
           /\ w = Owner /\ bounty.status = "Draft" /\ bounty'.status \in {"Draft", "Funded"}
           /\ bounty'.reward_amount = bounty.reward_amount
           /\ bounty'.amount_funded = bounty.amount_funded + amount
           /\ bounty.amount_funded + amount <= bounty.reward_amount
           /\ TransferToVault(Owner, amount)
<1> USE BountyAssumption
<1> DEFINE total == bounty.amount_funded + amount
           s == IF total >= bounty.reward_amount THEN "Funded" ELSE bounty.status
<1>1. /\ w = Owner /\ bounty.status \in {"Draft", "Funded"}
      /\ total <= bounty.reward_amount
      /\ amount > 0 /\ amount \in Nat
      /\ bounty.amount_funded \in Nat /\ bounty.reward_amount \in Nat
  BY DEF FundBounty, ValidateFunding, FundBountyAccounts, RemainingFunding, LegacyInv,
         BountyTypeOK, BountyAccount
<1>2. bounty.status = "Draft"
  BY <1>1 DEF LegacyInv, LegacyFunds, FullyFunded
<1>3. bounty' = [bounty EXCEPT !.amount_funded = total, !.status = s]
  BY DEF FundBounty, ApplyFunding
<1>4. total \in Nat /\ s \in {"Draft", "Funded"}
  BY <1>1, <1>2
<1>5. s = "Draft" => total < bounty.reward_amount
  BY <1>1
<1>6. s = "Funded" => total = bounty.reward_amount
  BY <1>1, <1>2
<1> HIDE DEF s
<1>7. /\ TransferToVault(Owner, amount)
      /\ now' = now
      /\ tokens' \in [Wallets -> Nat]
      /\ vault' = vault + amount /\ vault \in Nat
  BY <1>1 DEF FundBounty, TransferToVault, LegacyInv, BountyTypeOK
<1>8. bounty' \in BountyAccount
  BY <1>3, <1>4 DEF LegacyInv, BountyTypeOK, BountyAccount, BountyStatus
<1>9. BountyTypeOK'
  BY <1>7, <1>8, <1>1 DEF LegacyInv, BountyTypeOK
<1>10. /\ bounty'.amount_funded = total /\ bounty'.status = s
       /\ bounty'.reward_amount = bounty.reward_amount
       /\ bounty'.finder = bounty.finder
       /\ bounty'.protocol_version = bounty.protocol_version
  BY <1>3 DEF LegacyInv, BountyTypeOK, BountyAccount
<1>11. LegacyFunds'
  BY <1>1, <1>2, <1>4, <1>5, <1>6, <1>7, <1>10 DEF LegacyInv, LegacyFunds, FullyFunded, Claimed
<1>12. LegacyShape' /\ FinderOfClaim'
  BY <1>2, <1>4, <1>10 DEF LegacyInv, LegacyShape, FinderOfClaim, Claimed
<1> QED
  BY <1>1, <1>2, <1>4, <1>7, <1>9, <1>10, <1>11, <1>12 DEF LegacyInv

\* The bounty's status and finder change; the escrow keeps what it holds.
LEMMA StatusKeepsInv ==
    ASSUME LegacyInv, NEW s \in BountyStatus \ {"Absent", "Draft", "Rejected"},
           NEW f \in Finders \cup {NoWallet},
           bounty' = [bounty EXCEPT !.status = s, !.finder = f],
           UNCHANGED <<vault, tokens, now>>,
           \/ bounty.status \in FullyFunded /\ s \in FullyFunded
           \/ bounty.status = "Draft" /\ s = "Cancelled",
           f # NoWallet <=> s \in Claimed \cup {"Disputed"}
    PROVE  /\ LegacyInv'
           /\ bounty'.reward_amount = bounty.reward_amount
           /\ bounty'.amount_funded = bounty.amount_funded
           /\ bounty'.status = s
<1>1. f \in Wallets \cup {NoWallet}
  BY LegacyAssumption
<1>2. bounty' \in BountyAccount
  BY <1>1 DEF LegacyInv, BountyTypeOK, BountyAccount
<1>3. /\ bounty'.reward_amount = bounty.reward_amount
      /\ bounty'.amount_funded = bounty.amount_funded
      /\ bounty'.status = s /\ bounty'.finder = f
      /\ bounty'.protocol_version = bounty.protocol_version
  BY DEF LegacyInv, BountyTypeOK, BountyAccount
<1>4. BountyTypeOK'
  BY <1>2 DEF LegacyInv, BountyTypeOK
<1>5. LegacyFunds'
  BY <1>3 DEF LegacyInv, LegacyFunds, FullyFunded, Claimed
<1>6. LegacyShape' /\ FinderOfClaim'
  BY <1>3 DEF LegacyInv, LegacyShape, FinderOfClaim, FullyFunded, Claimed
<1> QED
  BY <1>3, <1>4, <1>5, <1>6 DEF LegacyInv

\* The escrow empties to one wallet.
LEMMA PayoutKeepsInv ==
    ASSUME LegacyInv, NEW w \in Wallets, NEW end \in {"Released", "Refunded"},
           bounty.status \in FullyFunded,
           end = "Released" => bounty.status \in FullyFunded \ {"Funded"},
           TransferFromVault(w, bounty.reward_amount),
           bounty' = [bounty EXCEPT !.amount_funded = 0, !.status = end],
           now' = now
    PROVE  /\ LegacyInv'
           /\ bounty'.reward_amount = bounty.reward_amount
           /\ bounty'.amount_funded = 0
           /\ bounty'.status = end
<1>1. bounty' \in BountyAccount
  BY DEF LegacyInv, BountyTypeOK, BountyAccount, BountyStatus
<1>2. /\ bounty'.reward_amount = bounty.reward_amount
      /\ bounty'.amount_funded = 0
      /\ bounty'.status = end /\ bounty'.finder = bounty.finder
      /\ bounty'.protocol_version = bounty.protocol_version
  BY DEF LegacyInv, BountyTypeOK, BountyAccount
<1>3. vault' \in Nat /\ tokens' \in [Wallets -> Nat]
  BY DEF LegacyInv, BountyTypeOK, BountyAccount, TransferFromVault
<1>4. BountyTypeOK'
  BY <1>1, <1>3 DEF LegacyInv, BountyTypeOK
<1>5. LegacyFunds'
  BY <1>2, <1>3 DEF LegacyInv, LegacyFunds, FullyFunded, Claimed
<1>6. LegacyShape' /\ FinderOfClaim'
  BY <1>2 DEF LegacyInv, LegacyShape, FinderOfClaim, FullyFunded, Claimed
<1> QED
  BY <1>2, <1>4, <1>5, <1>6 DEF LegacyInv

(***************************************************************************)
(* Every step.                                                             *)
(***************************************************************************)

PromiseStep == [Promise!Next]_(Promise!promiseVars)

\* A step that changes none of what the promise is about.
LEMMA SameToThePromise ==
    ASSUME BountyTypeOK,
           \/ bounty' = bounty
           \/ /\ bounty.status \in FullyFunded /\ bounty'.status \in FullyFunded
              /\ bounty'.reward_amount = bounty.reward_amount
              /\ bounty'.amount_funded = bounty.amount_funded,
           tokens' = tokens
    PROVE  PromiseStep
BY DEF PromiseStep, Promise!promiseVars, FullyFunded, Claimed

\* Before the bounty is created nothing is promised.
LEMMA LegacyInit == Init => LegacyInv /\ Promise!Init
<1> SUFFICES ASSUME Init PROVE LegacyInv /\ Promise!Init
  OBVIOUS
<1>1. LegacyInv
  BY BountyAssumption
     DEF Init, LegacyInv, BountyTypeOK, BountyAccount, BountyStatus, NoBounty, LegacyFunds,
         LegacyShape, FinderOfClaim, FullyFunded, Claimed
<1>2. Promise!Init
  BY BountyAssumption DEF Init, NoBounty, Promise!Init
<1> QED
  BY <1>1, <1>2

\* Creating, funding and cancelling.
LEMMA OpeningSteps ==
    ASSUME LegacyInv, NEW w \in Wallets
    PROVE  /\ \A a \in Wallets, r \in Rewards, d \in Deadlines :
                 CreateBounty(w, a, r, d) => LegacyInv' /\ PromiseStep
           /\ \A amount \in 1..Supply :
                 FundBounty(w, amount) => LegacyInv' /\ PromiseStep
           /\ CancelBounty(w) => LegacyInv' /\ PromiseStep
<1>1. ASSUME NEW a \in Wallets, NEW r \in Rewards, NEW d \in Deadlines, CreateBounty(w, a, r, d)
      PROVE  LegacyInv' /\ PromiseStep
  <2>1. Promise!Announce
    BY <1>1, CreateKeepsInv, BountyAssumption DEF Promise!Announce, Promise!Prices
  <2> QED
    BY <1>1, <2>1, CreateKeepsInv DEF PromiseStep, Promise!Next
<1>2. ASSUME NEW amount \in 1..Supply, FundBounty(w, amount)
      PROVE  LegacyInv' /\ PromiseStep
  <2>1. Promise!Deposit(amount)
    BY <1>2, FundKeepsInv DEF TransferToVault, Promise!Deposit, LegacyInv, BountyTypeOK, BountyAccount
  <2> QED
    BY <1>2, <2>1, FundKeepsInv DEF PromiseStep, Promise!Next
<1>3. ASSUME CancelBounty(w)
      PROVE  LegacyInv' /\ PromiseStep
  <2>1. /\ bounty.status = "Draft" /\ bounty.amount_funded = 0
        /\ bounty' = [bounty EXCEPT !.status = "Cancelled"]
        /\ UNCHANGED <<vault, tokens, now>>
    BY <1>3 DEF CancelBounty
  <2>2. bounty.finder = NoWallet
    BY <2>1 DEF LegacyInv, FinderOfClaim, Claimed
  <2>3. bounty' = [bounty EXCEPT !.status = "Cancelled", !.finder = NoWallet]
    BY <2>1, <2>2 DEF LegacyInv, BountyTypeOK, BountyAccount
  <2>4. /\ LegacyInv'
        /\ bounty'.reward_amount = bounty.reward_amount
        /\ bounty'.amount_funded = bounty.amount_funded
        /\ bounty'.status = "Cancelled"
    BY <2>1, <2>3, StatusKeepsInv DEF BountyStatus, Claimed
  <2>5. Promise!Abandon
    BY <2>1, <2>4 DEF Promise!Abandon
  <2> QED
    BY <2>4, <2>5 DEF PromiseStep, Promise!Next
<1> QED
  BY <1>1, <1>2, <1>3

\* Claiming, reviewing, rejecting and disputing: the escrow keeps the reward.
LEMMA ClaimingSteps ==
    ASSUME LegacyInv,
           \/ \E f \in Finders : SubmitClaim(f)
           \/ \E w \in Wallets : RecordAiReview(w) \/ RejectClaim(w) \/ OpenDispute(w)
    PROVE  LegacyInv' /\ PromiseStep
<1>1. PICK s \in FullyFunded, f \in Finders \cup {NoWallet} :
        /\ bounty' = [bounty EXCEPT !.status = s, !.finder = f]
        /\ f # NoWallet <=> s \in Claimed \cup {"Disputed"}
  <2>1. ASSUME NEW f \in Finders, SubmitClaim(f)
        PROVE  /\ bounty' = [bounty EXCEPT !.status = "ClaimSubmitted", !.finder = f]
               /\ f # NoWallet
    BY <2>1, BountyAssumption, LegacyAssumption
       DEF SubmitClaim, LegacyInv, BountyTypeOK, BountyAccount
  <2>2. ASSUME NEW w \in Wallets, RecordAiReview(w)
        PROVE  /\ bounty' = [bounty EXCEPT !.status = "AiReviewed", !.finder = bounty.finder]
               /\ bounty.finder # NoWallet
    BY <2>2 DEF RecordAiReview, LegacyInv, BountyTypeOK, BountyAccount, FinderOfClaim, Claimed
  <2>3. ASSUME NEW w \in Wallets, RejectClaim(w)
        PROVE  bounty' = [bounty EXCEPT !.status = "Funded", !.finder = NoWallet]
    BY <2>3 DEF RejectClaim, LegacyInv, BountyTypeOK, BountyAccount
  <2>4. ASSUME NEW w \in Wallets, OpenDispute(w)
        PROVE  /\ bounty' = [bounty EXCEPT !.status = "Disputed", !.finder = bounty.finder]
               /\ bounty.finder # NoWallet
    BY <2>4 DEF OpenDispute, LegacyInv, BountyTypeOK, BountyAccount, FinderOfClaim, Claimed
  <2>5. bounty.finder \in Finders \cup {NoWallet}
    BY DEF LegacyInv, LegacyShape
  <2> QED
    BY <2>1, <2>2, <2>3, <2>4, <2>5 DEF FullyFunded, Claimed
<1>2. bounty.status \in FullyFunded /\ UNCHANGED <<vault, tokens, now>>
  BY DEF SubmitClaim, RecordAiReview, RejectClaim, OpenDispute, FullyFunded, Claimed
<1>3. s \in BountyStatus \ {"Absent", "Draft", "Rejected"}
  BY <1>1 DEF FullyFunded, Claimed, BountyStatus
<1>4. /\ LegacyInv'
      /\ bounty'.reward_amount = bounty.reward_amount
      /\ bounty'.amount_funded = bounty.amount_funded
      /\ bounty'.status = s
  BY <1>1, <1>2, <1>3, StatusKeepsInv
<1> QED
  BY <1>1, <1>2, <1>4, SameToThePromise DEF LegacyInv

\* An accepted claim, an arbitration and a refund empty the escrow, which
\* holds exactly the reward, to one wallet.
LEMMA ClosingSteps ==
    ASSUME LegacyInv, NEW signer \in Wallets,
           \/ AcceptClaim(signer)
           \/ \E release \in BOOLEAN : ResolveDispute(signer, release)
           \/ RefundAfterExpiry(signer)
    PROVE  LegacyInv' /\ PromiseStep
<1>1. bounty.status \in FullyFunded
  BY DEF AcceptClaim, ResolveDispute, MayArbitrate, RefundAfterExpiry, Refundable, LegacyInv,
         LegacyShape, FullyFunded, Claimed
<1>2. /\ bounty.amount_funded = bounty.reward_amount
      /\ bounty.reward_amount \in Nat
      /\ bounty.amount_funded - bounty.reward_amount = 0
      /\ Least(bounty.reward_amount, bounty.amount_funded) = bounty.reward_amount
  BY <1>1 DEF LegacyInv, LegacyFunds, BountyTypeOK, BountyAccount, Least
<1>3. PICK w \in Wallets, end \in {"Released", "Refunded"} :
        /\ TransferFromVault(w, bounty.reward_amount)
        /\ bounty' = [bounty EXCEPT !.amount_funded = 0, !.status = end]
        /\ now' = now
        /\ end = "Released" => w \in Finders /\ bounty.status # "Funded"
        /\ end = "Refunded" => w = Owner
  <2>1. bounty.finder # NoWallet => bounty.finder \in Finders /\ bounty.finder \in Wallets
    BY LegacyAssumption DEF LegacyInv, LegacyShape
  <2>2. CASE AcceptClaim(signer)
    BY <1>2, <2>1, <2>2 DEF AcceptClaim, Claimed
  <2>3. CASE \E release \in BOOLEAN : ResolveDispute(signer, release)
    BY <1>2, <2>1, <2>3, BountyAssumption DEF ResolveDispute, MayArbitrate
  <2>4. CASE RefundAfterExpiry(signer)
    BY <1>2, <2>4, BountyAssumption DEF RefundAfterExpiry
  <2> QED
    BY <2>2, <2>3, <2>4
<1>4. /\ LegacyInv'
      /\ bounty'.reward_amount = bounty.reward_amount
      /\ bounty'.amount_funded = 0
      /\ bounty'.status = end
  BY <1>1, <1>3, PayoutKeepsInv
<1>5. CASE end = "Released"
  <2>1. Promise!Pay(w)
    BY <1>1, <1>2, <1>3, <1>4, <1>5, LegacyAssumption
       DEF Promise!Pay, Promise!Empty, TransferFromVault, FullyFunded, Claimed
  <2> QED
    BY <1>4, <2>1 DEF PromiseStep, Promise!Next
<1>6. CASE end = "Refunded"
  <2>1. Promise!GiveBack
    BY <1>1, <1>2, <1>3, <1>4, <1>6
       DEF Promise!GiveBack, Promise!Empty, TransferFromVault, FullyFunded, Claimed
  <2> QED
    BY <1>4, <2>1 DEF PromiseStep, Promise!Next
<1> QED
  BY <1>3, <1>5, <1>6

\* Every instruction keeps the invariant and is a step of the promise, or none.
LEMMA LegacyStep == LegacyInv /\ [Next]_bountyVars => LegacyInv' /\ PromiseStep
<1> SUFFICES ASSUME LegacyInv, [Next]_bountyVars
             PROVE  LegacyInv' /\ PromiseStep
  OBVIOUS
<1>1. CASE \E w, a \in Wallets, r \in Rewards, d \in Deadlines : CreateBounty(w, a, r, d)
  BY <1>1, OpeningSteps
<1>2. CASE \E w \in Wallets, amount \in 1..Supply :
             FundBounty(w, amount) \/ FundBountySponsored(w, amount)
  BY <1>2, OpeningSteps DEF FundBountySponsored
<1>3. CASE \E w \in Wallets : CancelBounty(w)
  BY <1>3, OpeningSteps
<1>4. CASE \/ \E f \in Finders : SubmitClaim(f)
           \/ \E w \in Wallets : RecordAiReview(w) \/ RejectClaim(w) \/ OpenDispute(w)
  BY <1>4, ClaimingSteps
<1>5. CASE \E w \in Wallets : \/ AcceptClaim(w) \/ RefundAfterExpiry(w)
                              \/ \E release \in BOOLEAN : ResolveDispute(w, release)
  BY <1>5, ClosingSteps
<1>6. ASSUME bounty' = bounty, tokens' = tokens, vault' \in Nat, vault' >= vault,
             now' \in 0..(MaxTime + 1)
      PROVE  LegacyInv' /\ PromiseStep
  <2>1. LegacyInv'
    BY <1>6 DEF LegacyInv, BountyTypeOK, BountyAccount, LegacyFunds, LegacyShape, FinderOfClaim
  <2> QED
    BY <1>6, <2>1, SameToThePromise DEF LegacyInv
<1>7. CASE \E amount \in DepositAmounts : ExternalDeposit(amount)
  BY <1>6, <1>7, DepositAssumption DEF ExternalDeposit, LegacyInv, BountyTypeOK
<1>8. CASE LegacyTick
  BY <1>6, <1>8, BountyAssumption DEF LegacyTick, Tick, LegacyInv, BountyTypeOK
<1>9. CASE UNCHANGED bountyVars
  BY <1>6, <1>9 DEF bountyVars, LegacyInv, BountyTypeOK
<1> QED
  BY <1>1, <1>2, <1>3, <1>4, <1>5, <1>7, <1>8, <1>9 DEF Next

\* The invariant holds in every reachable state.
LEMMA LegacyInvCorrect == Spec => []LegacyInv
<1> QED
  BY LegacyInit, LegacyStep, PTL DEF Spec

\* A v1 bounty has a finder exactly while a claim occupies it or was paid: a
\* rejected finder leaves no trace a later dispute or payout could reach.
THEOREM FinderOccupies == Spec => []FinderOfClaim
<1>1. LegacyInv => FinderOfClaim
  BY DEF LegacyInv
<1> QED
  BY <1>1, LegacyInvCorrect, PTL

\* The v1 instructions implement EscrowPromise too: deposits are held until
\* they are the whole reward, which leaves once, in full, to one wallet.
THEOREM LegacyImplementation == Spec => KeepsPromise
<1>1. LegacyInv /\ [Next]_bountyVars => [Promise!Next]_(Promise!promiseVars)
  BY LegacyStep DEF PromiseStep
<1> QED
  BY <1>1, LegacyInit, LegacyInvCorrect, PTL DEF Spec, KeepsPromise, Promise!Spec
=============================================================================
