---------------------------- MODULE Arbitration ----------------------------
(***************************************************************************)
(* The quorum arbitration of the findback program: one panel of three per  *)
(* bounty, one dispute case per claim, one vote account per case and       *)
(* arbiter, and the permissionless finalization of a decision.             *)
(***************************************************************************)
EXTENDS ClaimsV2

VARIABLES
    panel,          \* the panel's arbiters, {} before the account exists
    dispute_case,   \* the DisputeCase account of every claim
    vote            \* the ArbitrationVote account of every case and wallet

arbitrationVars == <<panel, dispute_case, vote>>

PanelSize == 3
Quorum == 2

Open == 0           \* DisputeCase.decision
Release == 1
Reject == 2

DisputeCase ==
    [exists: BOOLEAN, release_votes: 0..PanelSize, reject_votes: 0..PanelSize,
     decision: {Open, Release, Reject}, finalized: BOOLEAN]

ArbitrationTypeOK ==
    /\ panel \in SUBSET (Wallets \ {Owner})
    /\ dispute_case \in [Finders -> DisputeCase]
    /\ vote \in [Finders -> [Wallets -> {Open, Release, Reject}]]

NoCase ==
    [exists |-> FALSE, release_votes |-> 0, reject_votes |-> 0,
     decision |-> Open, finalized |-> FALSE]

ArbitrationInit ==
    /\ panel = {}
    /\ dispute_case = [f \in Finders |-> NoCase]
    /\ vote = [f \in Finders |-> [a \in Wallets |-> Open]]

-----------------------------------------------------------------------------
(* contexts.rs: has_one = owner, and the accounts an instruction creates.  *)

ConfigureArbitrationPanelAccounts(signer) == signer = Owner /\ panel = {}

OpenDisputeV3Accounts(f) == panel # {} /\ ~dispute_case[f].exists

CastArbitrationVoteAccounts(a, f) == dispute_case[f].exists /\ vote[f][a] = Open

FinalizeDisputeAccounts(f) == dispute_case[f].exists

-----------------------------------------------------------------------------

ConfigureArbitrationPanel(signer, arbiters) ==
    /\ ConfigureArbitrationPanelAccounts(signer)
    /\ Cardinality(arbiters) = PanelSize
    /\ Owner \notin arbiters
    /\ bounty.arbiter \in arbiters
    /\ bounty.protocol_version >= 2
    /\ bounty.status \in {"Draft", "Funded"}
    /\ panel' = arbiters
    /\ bounty' = [bounty EXCEPT !.arbitration_mode = 1]
    /\ UNCHANGED <<vault, tokens, now, claim, dispute_case, vote>>

OpenDisputeV3(signer, f) ==
    /\ OpenDisputeV3Accounts(f)
    /\ bounty.protocol_version >= 2
    /\ bounty.arbitration_mode = 1
    /\ LockForV2Dispute
    /\ MayDispute(signer, f)
    /\ EnterDispute(f)
    /\ dispute_case' = [dispute_case EXCEPT ![f] = [NoCase EXCEPT !.exists = TRUE]]
    /\ UNCHANGED <<vault, tokens, now, panel, vote>>

\* The case after one more vote.
Counted(case, choice) ==
    LET releases == case.release_votes + (IF choice = Release THEN 1 ELSE 0)
        rejects == case.reject_votes + (IF choice = Reject THEN 1 ELSE 0)
    IN  [case EXCEPT !.release_votes = releases,
                     !.reject_votes = rejects,
                     !.decision = IF releases >= Quorum THEN Release
                                  ELSE IF rejects >= Quorum THEN Reject
                                  ELSE @]

MutVoteOnOwnClaim(a, f) ==
    /\ CastArbitrationVoteAccounts(a, f)
    /\ a \in panel
    /\ dispute_case[f].decision = Open
    /\ ~dispute_case[f].finalized
    /\ claim[f].status = "Disputed"
    /\ now <= claim[f].resolution_deadline

MayVote(a, f) ==
    /\ CastArbitrationVoteAccounts(a, f)
    /\ a \in panel
    /\ a # f                                        \* PartyCannotArbitrate
    /\ dispute_case[f].decision = Open
    /\ ~dispute_case[f].finalized
    /\ claim[f].status = "Disputed"
    /\ \/ claim[f].resolution_deadline = 0
       \/ now <= claim[f].resolution_deadline

CastArbitrationVote(a, f, choice) ==
    /\ MayVote(a, f)
    /\ dispute_case' = [dispute_case EXCEPT ![f] = Counted(@, choice)]
    /\ vote' = [vote EXCEPT ![f][a] = choice]
    /\ UNCHANGED <<bountyVars, claim, panel>>

\* A decision not yet carried out, on a claim that is still in dispute.
Finalizable(f, decision) ==
    /\ FinalizeDisputeAccounts(f)
    /\ dispute_case[f].decision = decision
    /\ ~dispute_case[f].finalized
    /\ bounty.status = "Disputed"
    /\ claim[f].status = "Disputed"

\* Any signer.
FinalizeDisputeRelease(f) ==
    /\ Finalizable(f, Release)
    /\ SettleTo(f)
    /\ dispute_case' = [dispute_case EXCEPT ![f].finalized = TRUE]
    /\ UNCHANGED <<now, panel, vote>>

\* Any signer.
FinalizeDisputeReject(f) ==
    /\ Finalizable(f, Reject)
    /\ ResumeAfterV2Reject
    /\ SetStatus(f, "Rejected")
    /\ dispute_case' = [dispute_case EXCEPT ![f].finalized = TRUE]
    /\ UNCHANGED <<vault, tokens, now, panel, vote>>
=============================================================================
