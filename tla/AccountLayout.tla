---------------------------- MODULE AccountLayout ----------------------------
(***************************************************************************)
(* The accounts the program keeps (state.rs) and how the app reads them    *)
(* (decode... and fetch... of client.ts): two descriptions of the same     *)
(* bytes, one of them written by hand with a running offset.  A byte is    *)
(* the field it belongs to and its place in it, or a zero of the padding.  *)
(* Accounts outlive versions of the program: fields were added at the end, *)
(* in the padding of accounts that exist, and are written there by the     *)
(* first instruction of the new version that changes the account.          *)
(***************************************************************************)
EXTENDS Integers, SequencesExt

CONSTANT IdSizes   \* bytes of a bounty id, 1 to 32

ASSUME LayoutAssumption == IdSizes \subseteq 1..32

VARIABLES
  account,   \* an account: kind, fields it was written with, id, status
  shown      \* what the app made of it

layoutVars == <<account, shown>>

-----------------------------------------------------------------------------
(* The program.                                                            *)

Key(field) == <<field, 32>>
U8(field)  == <<field, 1>>
U32(field) == <<field, 4>>
U64(field) == <<field, 8>>

BountyFields(n) ==
  <<Key("owner"), Key("finder"), Key("arbiter"), Key("mint"), U32("id length"),
    <<"bounty_id", n>>, U64("reward_amount"), U64("amount_funded"), U64("deadline"),
    U8("status"), Key("metadata_hash"), Key("evidence_hash"), U8("ai_score"),
    U8("ai_risk"), U8("ai_decision"), Key("ai_explanation_hash"), U8("bump"),
    U8("vault_bump"), U64("created_at"), U64("updated_at"), U8("protocol_version"),
    U8("arbitration_mode"), U32("active_claims"), U8("workflow_version")>>

Layout(kind, n) ==
  CASE kind = "bounty" -> BountyFields(n)
    [] kind = "claim" ->
       <<Key("bounty"), Key("finder"), Key("evidence_hash"), Key("ai_input_hash"),
         Key("ai_report_hash"), Key("ai_model_hash"), U8("ai_score"), U8("ai_risk"),
         U8("ai_decision"), U8("status"), U8("bump"), U64("created_at"),
         U64("updated_at"), U64("dispute_deadline"), U64("resolution_deadline"),
         U8("workflow_version")>>
    [] kind = "reputation" ->
       <<Key("wallet"), U32("successful_returns"), U64("rewards_earned"),
         U64("rewards_paid"), U64("last_activity"), U8("bump")>>
    [] kind = "attestation" ->
       <<Key("bounty"), Key("claim"), Key("owner"), Key("finder"),
         U64("reward_amount"), U8("ai_score"), U64("settled_at"), U8("bump")>>
    [] kind = "panel" ->
       <<Key("bounty"), Key("arbiter 1"), Key("arbiter 2"), Key("arbiter 3"),
         U8("quorum"), U8("bump"), U64("created_at")>>
    [] kind = "case" ->
       <<Key("bounty"), Key("claim"), Key("panel"), U8("release_votes"),
         U8("reject_votes"), U8("decision"), U8("finalized"), U8("bump"),
         U64("created_at"), U64("resolved_at")>>
    [] kind = "vote" ->
       <<Key("dispute_case"), Key("arbiter"), U8("release_to_finder"), U8("bump"),
         U64("voted_at")>>

\* Bytes allocated: the longest contents and room to grow.
Space == [bounty |-> 378, claim |-> 253, reputation |-> 101, attestation |-> 186,
          panel |-> 178, case |-> 157, vote |-> 98]
Kinds == DOMAIN Space

\* How many fields each version of the program wrote.
Versions(kind) ==
  CASE kind = "bounty" -> {20, 21, 22, 24}
    [] kind = "claim"  -> {13, 16}
    [] OTHER           -> {Len(Layout(kind, 1))}

Statuses(kind) ==
  CASE kind = "bounty" -> <<"Draft", "Funded", "ClaimSubmitted", "AiReviewed",
                            "Accepted", "Released", "Rejected", "Disputed", "Refunded",
                            "Expired", "Cancelled">>
    [] kind = "claim"  -> <<"Submitted", "AiReviewed", "Rejected", "Disputed",
                            "Settled", "RejectionPending">>
    [] OTHER           -> <<"none">>

Zero == <<"zero", 0>>
BytesOf(field) == [i \in 1..field[2] |-> <<field[1], i>>]

\* Borsh: the discriminator, then field after field without gaps.
Memory ==
  LET fields == SubSeq(Layout(account.kind, account.idLength), 1, account.fields)
      data   == BytesOf(<<account.kind, 8>>) \o FlattenSeq([k \in DOMAIN fields |->
                                                  BytesOf(fields[k])])
  IN  [i \in 1..Space[account.kind] |-> IF i <= Len(data) THEN data[i] ELSE Zero]

-----------------------------------------------------------------------------
(* The client: what each decoder reads, in its order.  A skipped byte is    *)
(* read under the name "".                                                 *)

DecodeBountyAccount(n) ==
  <<Key("owner"), Key("finder"), Key("arbiter"), Key("mint"), U32("id length"),
    <<"bounty_id", n>>, U64("reward_amount"), U64("amount_funded"), U64("deadline"),
    U8("status"), Key("metadata_hash"), Key("evidence_hash"), U8("ai_score"),
    U8("ai_risk"), U8("ai_decision"), Key("ai_explanation_hash"), U8(""), U8(""),
    U64("created_at"), U64("updated_at"), U8("protocol_version"),
    U8("arbitration_mode"), U32("active_claims"), U8("workflow_version")>>

MutDecodeClaimV2Account ==
  <<Key("bounty"), Key("finder"), Key("evidence_hash"), Key("ai_input_hash"),
    Key("ai_report_hash"), Key("ai_model_hash"), U8("ai_score"), U8("ai_risk"),
    U8("ai_decision"), U8("status"), U64("created_at"),
    U64("updated_at"), U64("dispute_deadline"), U64("resolution_deadline"),
    U8("workflow_version")>>

DecodeClaimV2Account ==
  <<Key("bounty"), Key("finder"), Key("evidence_hash"), Key("ai_input_hash"),
    Key("ai_report_hash"), Key("ai_model_hash"), U8("ai_score"), U8("ai_risk"),
    U8("ai_decision"), U8("status"), U8(""), U64("created_at"),
    U64("updated_at"), U64("dispute_deadline"), U64("resolution_deadline"),
    U8("workflow_version")>>

DecodeReputationAccount ==
  <<Key("wallet"), U32("successful_returns"), U64("rewards_earned"),
    U64("rewards_paid"), U64("last_activity")>>

DecodeReturnAttestationAccount ==
  <<Key("bounty"), Key("claim"), Key("owner"), Key("finder"), U64("reward_amount"),
    U8("ai_score"), U64("settled_at")>>

DecodeArbitrationPanelAccount ==
  <<Key("bounty"), Key("arbiter 1"), Key("arbiter 2"), Key("arbiter 3"),
    U8("quorum"), U8(""), U64("created_at")>>

DecodeDisputeCaseAccount ==
  <<Key("bounty"), Key("claim"), Key("panel"), U8("release_votes"),
    U8("reject_votes"), U8("decision"), U8("finalized"), U8(""), U64("created_at"),
    U64("resolved_at")>>

DecodeArbitrationVoteAccount ==
  <<Key("dispute_case"), Key("arbiter"), U8("release_to_finder"), U8(""),
    U64("voted_at")>>

\* The bounty's id says how long it is, in the four bytes before it.
LengthAt(memory, offset) ==
  IF SubSeq(memory, offset + 1, offset + 4) = BytesOf(U32("id length"))
  THEN account.idLength ELSE 0

Decoder(kind) ==
  CASE kind = "bounty"      -> DecodeBountyAccount(LengthAt(Memory, 136))
    [] kind = "claim"       -> DecodeClaimV2Account
    [] kind = "reputation"  -> DecodeReputationAccount
    [] kind = "attestation" -> DecodeReturnAttestationAccount
    [] kind = "panel"       -> DecodeArbitrationPanelAccount
    [] kind = "case"        -> DecodeDisputeCaseAccount
    [] kind = "vote"        -> DecodeArbitrationVoteAccount

\* Data shorter than this is refused.
MinimalSize == [bounty |-> 8, claim |-> 253, reputation |-> 69, attestation |-> 154,
                panel |-> 146, case |-> 125, vote |-> 82]

STATUS_MAP == <<"Draft", "Funded", "ClaimSubmitted", "AiReviewed", "Accepted",
                "Released", "Rejected", "Disputed", "Refunded", "Expired", "Cancelled">>
CLAIM_V2_STATUS_MAP == <<"Submitted", "AiReviewed", "Rejected", "Disputed", "Settled",
                         "RejectionPending">>

StatusName(kind, index) ==
  CASE kind = "bounty" -> STATUS_MAP[index]
    [] kind = "claim"  -> CLAIM_V2_STATUS_MAP[index]
    [] OTHER           -> "none"

\* Field by field, each starting where the one before it ended.
Decoded(memory, reads) ==
  [k \in DOMAIN reads |->
     LET offset == 8 + SumFunction([j \in 1..(k - 1) |-> reads[j][2]])
     IN  <<reads[k][1], SubSeq(memory, offset + 1, offset + reads[k][2])>>]

NotShown == [null |-> TRUE]

-----------------------------------------------------------------------------

LayoutInit ==
  /\ account \in
       UNION {[kind : {kind}, fields : Versions(kind), idLength : IdSizes,
               status : DOMAIN Statuses(kind)] : kind \in Kinds}
  /\ shown = NotShown

\* fetchBounty, fetchClaimV2 and the other fetches: the address is that of an
\* account of the kind.
Fetch ==
  /\ shown = NotShown
  /\ Len(Memory) >= MinimalSize[account.kind]
  /\ shown' = [null   |-> FALSE,
               fields |-> Decoded(Memory, Decoder(account.kind)),
               status |-> StatusName(account.kind, account.status)]
  /\ UNCHANGED account

\* fetchClaimsV2ForBounty: by size, and by the bytes after the discriminator.
FetchClaimsV2ForBounty ==
  /\ shown = NotShown
  /\ Len(Memory) = 253 /\ SubSeq(Memory, 9, 40) = BytesOf(Key("bounty"))
  /\ shown' = [null   |-> FALSE,
               fields |-> Decoded(Memory, DecodeClaimV2Account),
               status |-> StatusName("claim", account.status)]
  /\ UNCHANGED account

\* The current program changes the account, and writes all its fields.
Rewritten ==
  /\ account' = [account EXCEPT !.fields = Len(Layout(account.kind, 1))]
  /\ shown' = NotShown

LayoutNext == Fetch \/ FetchClaimsV2ForBounty \/ Rewritten

-----------------------------------------------------------------------------
(* Properties.                                                             *)

Written(name) ==
  LET fields == Layout(account.kind, account.idLength)
      k == CHOOSE i \in DOMAIN fields : fields[i][1] = name
  IN  IF k <= account.fields THEN BytesOf(fields[k])
      ELSE [i \in 1..fields[k][2] |-> Zero]

\* Every field the app shows is that field of the account, all of it and
\* nothing else, whatever the length of the bounty's id, or zero where the
\* account is older than the field (state.rs:47), and status bytes mean the
\* same on both sides.
DecodesWhatWasEncoded ==
  ~shown.null =>
    /\ \A k \in DOMAIN shown.fields :
         shown.fields[k][1] # "" => shown.fields[k][2] = Written(shown.fields[k][1])
    /\ shown.status = Statuses(account.kind)[account.status]
=============================================================================
