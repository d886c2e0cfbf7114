------------------------------- MODULE Bounty -------------------------------
(***************************************************************************)
(* The bounty account of the findback program, its escrow vault and the    *)
(* cluster clock: what every protocol version shares.  A bounty account is *)
(* created once per bounty id; the model follows one such account.         *)
(*                                                                         *)
(* Left out: hashes, ids, PDA bumps, AI scores, created_at/updated_at and  *)
(* the emitted events.  They are stored and never read by a guard, except  *)
(* for the non-zero checks on hashes, which the callers' inputs satisfy.   *)
(* Operators whose name starts with Mut are wrong on purpose: each is a    *)
(* plausible slip, and a property below must notice it in the place of the *)
(* definition that follows.  No specification uses them.                   *)
(***************************************************************************)
EXTENDS Integers, FiniteSets

CONSTANTS
    Wallets,        \* every signer of the instance
    Owner,          \* the wallet that creates the bounty
    NoWallet,       \* Pubkey::default()
    Rewards,        \* reward amounts a bounty may be created with
    Deadlines,      \* deadlines a bounty may be created with
    Supply,         \* tokens the owner starts with
    VaultCap,       \* bound: direct SPL deposits never raise the vault above it
    MaxTime         \* bound: the largest timestamp checked_add can return

ASSUME BountyAssumption ==
    /\ IsFiniteSet(Wallets)
    /\ Owner \in Wallets
    /\ NoWallet \notin Wallets
    /\ Rewards \subseteq Nat
    /\ Deadlines \subseteq Nat
    /\ Supply \in Nat
    /\ VaultCap \in Nat
    /\ MaxTime \in Nat

VARIABLES
    bounty,         \* the Bounty account, status "Absent" before it exists
    vault,          \* token balance of the vault's associated token account
    tokens,         \* token balance of every wallet
    now             \* Clock::get().unix_timestamp

bountyVars == <<bounty, vault, tokens, now>>

BountyStatus ==
    {"Absent", "Draft", "Funded", "ClaimSubmitted", "AiReviewed", "Released",
     "Rejected", "Disputed", "Refunded", "Cancelled"}

BountyAccount ==
    [status: BountyStatus, protocol_version: 0..2, workflow_version: {0, 1},
     arbiter: Wallets \cup {NoWallet}, finder: Wallets \cup {NoWallet},
     reward_amount: Nat, amount_funded: Nat, deadline: Nat,
     active_claims: Nat, arbitration_mode: {0, 1}]

BountyTypeOK ==
    /\ bounty \in BountyAccount
    /\ vault \in Nat
    /\ tokens \in [Wallets -> Nat]
    /\ now \in 0..(MaxTime + 1)

NoBounty ==
    [status |-> "Absent", protocol_version |-> 0, workflow_version |-> 0,
     arbiter |-> NoWallet, finder |-> NoWallet,
     reward_amount |-> 0, amount_funded |-> 0, deadline |-> 0,
     active_claims |-> 0, arbitration_mode |-> 0]

-----------------------------------------------------------------------------
(* The token program and the clock, as the handlers use them.              *)

TransferToVault(w, amount) ==
    /\ tokens[w] >= amount
    /\ tokens' = [tokens EXCEPT ![w] = @ - amount]
    /\ vault' = vault + amount

TransferFromVault(w, amount) ==
    /\ vault >= amount
    /\ vault' = vault - amount
    /\ tokens' = [tokens EXCEPT ![w] = @ + amount]

\* The vault is an ordinary token account: anyone may send tokens to it
\* without calling the program, from a balance the model does not follow.
ExternalDeposit(amount) ==
    /\ vault + amount <= VaultCap
    /\ vault' = vault + amount
    /\ UNCHANGED <<bounty, tokens, now>>

Tick ==
    /\ now <= MaxTime
    /\ now' = now + 1
    /\ UNCHANGED <<bounty, vault, tokens>>

\* i64::checked_add: an error, never a wrapped timestamp.
CheckedAdd(t, window) == t + window <= MaxTime

-----------------------------------------------------------------------------
(* Creating, funding, cancelling and refunding a bounty.                   *)

Draft(a, reward, deadline, protocol, workflow) ==
    [status |-> "Draft", protocol_version |-> protocol, workflow_version |-> workflow,
     arbiter |-> a, finder |-> NoWallet,
     reward_amount |-> reward, amount_funded |-> 0, deadline |-> deadline,
     active_claims |-> 0, arbitration_mode |-> 0]

WorkflowOf(protocol) == IF protocol >= 2 THEN 1 ELSE 0

\* contexts.rs: the bounty PDA is initialised, or has_one = owner.
CreateBountyAccounts(signer) == bounty.status = "Absent" /\ signer = Owner

FundBountyAccounts(signer) == signer = Owner

RefundAfterExpiryAccounts(signer) == signer = Owner

CancelBountyAccounts(signer) == signer = Owner

InitializeBounty(signer, a, reward, deadline, protocol) ==
    /\ CreateBountyAccounts(signer)
    /\ reward > 0
    /\ a # signer
    /\ deadline > now
    /\ bounty' = Draft(a, reward, deadline, protocol, WorkflowOf(protocol))
    /\ UNCHANGED <<vault, tokens, now>>

CreateBounty(signer, a, reward, deadline) ==
    InitializeBounty(signer, a, reward, deadline, 1)

CreateBountyV2(signer, a, reward, deadline) ==
    InitializeBounty(signer, a, reward, deadline, 2)

\* The sponsor pays rent and fee; the owner signs as in CreateBountyV2.
CreateBountySponsored(signer, a, reward, deadline) ==
    InitializeBounty(signer, a, reward, deadline, 2)

RemainingFunding == bounty.reward_amount - bounty.amount_funded

MutFundWithoutLimit(signer, amount) ==
    /\ FundBountyAccounts(signer)
    /\ bounty.status \in {"Draft", "Funded"}
    /\ amount > 0

ValidateFunding(signer, amount) ==
    /\ FundBountyAccounts(signer)
    /\ bounty.status \in {"Draft", "Funded"}
    /\ amount > 0
    /\ amount <= RemainingFunding

ApplyFunding(amount) ==
    bounty' = [bounty EXCEPT
                  !.amount_funded = @ + amount,
                  !.status = IF bounty.amount_funded + amount >= bounty.reward_amount
                             THEN "Funded" ELSE @]

FundBounty(signer, amount) ==
    /\ ValidateFunding(signer, amount)
    /\ TransferToVault(signer, amount)
    /\ ApplyFunding(amount)
    /\ UNCHANGED now

FundBountySponsored(signer, amount) == FundBounty(signer, amount)

CancelBounty(signer) ==
    /\ CancelBountyAccounts(signer)
    /\ bounty.status = "Draft"
    /\ bounty.amount_funded = 0
    /\ bounty' = [bounty EXCEPT !.status = "Cancelled"]
    /\ UNCHANGED <<vault, tokens, now>>

MutRefundIgnoresClaims ==
    /\ bounty.status \in {"Funded", "ClaimSubmitted", "AiReviewed", "Rejected"}
    /\ now > bounty.deadline
    /\ bounty.amount_funded > 0

Refundable ==
    /\ bounty.status \in {"Funded", "ClaimSubmitted", "AiReviewed", "Rejected"}
    /\ now > bounty.deadline
    /\ bounty.amount_funded > 0
    /\ bounty.workflow_version = 0 \/ bounty.active_claims = 0

RefundAfterExpiry(signer) ==
    /\ RefundAfterExpiryAccounts(signer)
    /\ Refundable
    /\ TransferFromVault(Owner, bounty.amount_funded)
    /\ bounty' = [bounty EXCEPT !.amount_funded = 0, !.status = "Refunded"]
    /\ UNCHANGED now
=============================================================================
