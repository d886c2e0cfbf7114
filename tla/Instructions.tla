---------------------------- MODULE Instructions ----------------------------
(***************************************************************************)
(* The transactions the app builds (client.ts) against what the program    *)
(* demands of them (contexts.rs and the arguments of lib.rs): accounts in  *)
(* the right order and at the right addresses, the privileges a compiled   *)
(* message grants, the signatures it needs, its length.  Whether the state *)
(* of the bounty admits the instruction is the business of Escrow.         *)
(*                                                                         *)
(* An address is a pair: a kind and the wallet it belongs to.  One wallet  *)
(* may play several parts, and then its accounts coincide and their        *)
(* privileges merge.                                                       *)
(***************************************************************************)
EXTENDS Integers, FiniteSets, Sequences, Functions

CONSTANTS
  Signers,
  Sponsor,    \* the server's wallet
  IdLengths   \* bytes of a bounty id, 1 to 32

ASSUME InstructionsAssumption == Sponsor \notin Signers /\ IdLengths \subseteq 1..32

VARIABLES
  who,      \* parties of the bounty, its mint and the length of its id
  sent,     \* name of the last transaction, and who signed it
  verdict   \* what became of it

clientVars == <<who, sent, verdict>>

At(kind, w) == <<kind, w>>
Of(w)       == At("wallet", w)
Bounty      == <<"bounty">>
Vault       == <<"vault">>
Panel       == <<"panel">>
Token       == <<"token program">>
AtaProgram  == <<"ata program">>
System      == <<"system program">>
Program     == <<"findback">>
MintOf(m)   == At("mint", m)
Claim(f)    == At("claim", f)
Case(f)     == At("case", f)
Vote(f, a)  == At("vote", <<f, a>>)
Ata(m, w)   == At("tokens", <<m, w>>)
VaultTokens(m) == At("vault tokens", m)

\* Privileges of an account in an instruction: read, write, sign, pay (both).
R(a) == [at |-> a, writable |-> FALSE, signer |-> FALSE]
W(a) == [at |-> a, writable |-> TRUE,  signer |-> FALSE]
S(a) == [at |-> a, writable |-> FALSE, signer |-> TRUE]
P(a) == [at |-> a, writable |-> TRUE,  signer |-> TRUE]
Ix(name, accounts, data) == [name |-> name, accounts |-> accounts, data |-> data]

\* requireMint: the client knows one mint, that of its configuration.
Mint == "FIND"
Mints == {Mint, "earlier"}
MintAccount == MintOf(Mint)
ReviewV1 == <<"u8", "u8", "u8", "hash">>
ReviewV2 == <<"u8", "u8", "u8", "hash", "hash", "hash">>
Listing  == <<"string", "u64", "i64", "hash">>

-----------------------------------------------------------------------------
(* What the client builds for wallet w and finder f.                       *)

CreateBountyInstruction(w, arbiter, name) ==
  Ix(name, <<P(Of(w)), R(Of(arbiter)), R(MintAccount), W(Bounty), R(Vault), R(System)>>,
     Listing)

CreateBountySponsoredInstruction(w, arbiter) ==
  Ix("create_bounty_sponsored",
     <<S(Of(w)), P(Of(Sponsor)), R(Of(arbiter)), R(MintAccount), W(Bounty), R(Vault),
       R(System)>>, Listing)

FundBountyInstruction(w) ==
  Ix("fund_bounty",
     <<P(Of(w)), R(MintAccount), W(Bounty), R(Vault), W(Ata(Mint, w)),
       W(VaultTokens(Mint)), R(Token), R(AtaProgram), R(System)>>, <<"u64">>)

FundBountySponsoredInstruction(w) ==
  Ix("fund_bounty_sponsored",
     <<S(Of(w)), P(Of(Sponsor)), R(MintAccount), W(Bounty), R(Vault), W(Ata(Mint, w)),
       W(VaultTokens(Mint)), R(Token), R(AtaProgram), R(System)>>, <<"u64">>)

SubmitClaimOnChain(w) == Ix("submit_claim", <<S(Of(w)), W(Bounty)>>, <<"hash">>)

MutSubmitClaimV2Instruction(w) ==
  Ix("submit_claim_v2", <<P(Of(w)), R(Bounty), W(Claim(w)), R(System)>>, <<"hash">>)

SubmitClaimV2Instruction(w) ==
  Ix("submit_claim_v2", <<P(Of(w)), W(Bounty), W(Claim(w)), R(System)>>, <<"hash">>)

SubmitClaimV2SponsoredInstruction(w) ==
  Ix("submit_claim_v2_sponsored",
     <<S(Of(w)), P(Of(Sponsor)), W(Bounty), W(Claim(w)), R(System)>>, <<"hash">>)

RecordAiReviewOnChain(w) == Ix("record_ai_review", <<S(Of(w)), W(Bounty)>>, ReviewV1)

RecordAiReviewV2OnChain(w, f) ==
  Ix("record_ai_review_v2", <<S(Of(w)), R(Bounty), W(Claim(f))>>, ReviewV2)

AcceptClaimOnChain(w, f) ==
  Ix("accept_claim",
     <<P(Of(w)), R(Of(f)), R(MintAccount), W(Bounty), R(Vault), W(VaultTokens(Mint)),
       W(Ata(Mint, f)), R(Token), R(AtaProgram), R(System)>>, <<>>)

AcceptClaimV2OnChain(w, f) ==
  Ix("accept_claim_v2",
     <<P(Of(w)), R(Of(f)), R(MintAccount), W(Bounty), W(Claim(f)), R(Vault),
       W(VaultTokens(Mint)), W(Ata(Mint, f)), R(Token), R(AtaProgram), R(System)>>,
     <<>>)

RejectClaimOnChain(w) == Ix("reject_claim", <<S(Of(w)), W(Bounty)>>, <<>>)

RejectClaimV2OnChain(w, f) ==
  Ix("reject_claim_v2", <<S(Of(w)), R(Bounty), W(Claim(f))>>, <<>>)

FinalizeRejectionV2OnChain(w, f) ==
  Ix("finalize_rejection_v2", <<S(Of(w)), W(Bounty), W(Claim(f))>>, <<>>)

TimeoutDisputeV2OnChain(w, f) ==
  Ix("timeout_dispute_v2", <<S(Of(w)), W(Bounty), W(Claim(f))>>, <<>>)

RefundAfterExpiryOnChain(w) ==
  Ix("refund_after_expiry",
     <<P(Of(w)), R(MintAccount), W(Bounty), R(Vault), W(VaultTokens(Mint)),
       W(Ata(Mint, w)), R(Token)>>, <<>>)

CancelBountyOnChain(w) == Ix("cancel_bounty", <<S(Of(w)), W(Bounty)>>, <<>>)

OpenDisputeOnChain(w) == Ix("open_dispute", <<S(Of(w)), W(Bounty)>>, <<>>)

OpenDisputeV2OnChain(w, f) ==
  Ix("open_dispute_v2", <<S(Of(w)), W(Bounty), W(Claim(f))>>, <<>>)

ConfigureArbitrationPanelOnChain(w) ==
  Ix("configure_arbitration_panel", <<P(Of(w)), W(Bounty), W(Panel), R(System)>>,
     <<"key", "key", "key", "u8">>)

OpenDisputeV3OnChain(w, f) ==
  Ix("open_dispute_v3",
     <<P(Of(w)), W(Bounty), W(Claim(f)), R(Panel), W(Case(f)), R(System)>>, <<>>)

CastArbitrationVoteOnChain(w, f) ==
  Ix("cast_arbitration_vote",
     <<P(Of(w)), R(Panel), W(Case(f)), R(Claim(f)), W(Vote(f, w)), R(System)>>,
     <<"bool">>)

FinalizeDisputeReleaseOnChain(w, f) ==
  Ix("finalize_dispute_release",
     <<P(Of(w)), R(Of(f)), R(MintAccount), W(Bounty), W(Claim(f)), R(Panel), W(Case(f)),
       R(Vault), W(VaultTokens(Mint)), W(Ata(Mint, f)), R(Token), R(AtaProgram),
       R(System)>>, <<>>)

FinalizeDisputeRejectOnChain(w, f) ==
  Ix("finalize_dispute_reject",
     <<S(Of(w)), W(Bounty), W(Claim(f)), R(Panel), W(Case(f))>>, <<>>)

ResolveDisputeOnChain(w, counterparty) ==
  Ix("resolve_dispute",
     <<S(Of(w)), R(Of(counterparty)), R(MintAccount), W(Bounty), R(Vault),
       W(VaultTokens(Mint)), W(Ata(Mint, counterparty)), R(Token)>>, <<"bool">>)

ResolveDisputeV2OnChain(w, f) ==
  Ix("resolve_dispute_v2",
     <<S(Of(w)), R(Of(f)), R(MintAccount), W(Bounty), W(Claim(f)), R(Vault),
       W(VaultTokens(Mint)), W(Ata(Mint, f)), R(Token)>>, <<"bool">>)

AttestSettlementInstruction(w, owner, f) ==
  Ix("attest_settlement",
     <<P(Of(w)), R(Of(owner)), R(Of(f)), R(Bounty), R(Claim(f)),
       W(At("attestation", f)), W(At("reputation", owner)), W(At("reputation", f)),
       R(System)>>, <<>>)

CreateAtaIx(payer, owner) ==
  Ix("create_ata", <<P(Of(payer)), W(Ata(Mint, owner)), R(Of(owner)), R(MintAccount),
                     R(System), R(Token)>>, <<"u8">>)

-----------------------------------------------------------------------------
(* What the program demands when w signs and f is the finder of the claim. *)

Demands(w, f) ==
  LET own == who.owner
      arb == who.arbiter
      m   == who.mint
  IN [create_bounty |->
        <<P(Of(w)), R(Of(arb)), R(MintAccount), W(Bounty), R(Vault), R(System)>>,
      create_bounty_sponsored |->
        <<S(Of(w)), P(Of(Sponsor)), R(Of(arb)), R(MintAccount), W(Bounty), R(Vault),
          R(System)>>,
      fund_bounty |->
        <<P(Of(own)), R(MintOf(m)), W(Bounty), R(Vault), W(Ata(m, own)),
          W(VaultTokens(m)), R(Token), R(AtaProgram), R(System)>>,
      fund_bounty_sponsored |->
        <<S(Of(own)), P(Of(Sponsor)), R(MintOf(m)), W(Bounty), R(Vault),
          W(Ata(m, own)), W(VaultTokens(m)), R(Token), R(AtaProgram), R(System)>>,
      submit_claim |-> <<S(Of(w)), W(Bounty)>>,
      submit_claim_v2 |-> <<P(Of(w)), W(Bounty), W(Claim(w)), R(System)>>,
      submit_claim_v2_sponsored |->
        <<S(Of(w)), P(Of(Sponsor)), W(Bounty), W(Claim(w)), R(System)>>,
      record_ai_review |-> <<S(Of(arb)), W(Bounty)>>,
      record_ai_review_v2 |-> <<S(Of(arb)), R(Bounty), W(Claim(f))>>,
      accept_claim |->
        <<P(Of(own)), R(Of(f)), R(MintOf(m)), W(Bounty), R(Vault), W(VaultTokens(m)),
          W(Ata(m, f)), R(Token), R(AtaProgram), R(System)>>,
      accept_claim_v2 |->
        <<P(Of(own)), R(Of(f)), R(MintOf(m)), W(Bounty), W(Claim(f)), R(Vault),
          W(VaultTokens(m)), W(Ata(m, f)), R(Token), R(AtaProgram), R(System)>>,
      reject_claim |-> <<S(Of(own)), W(Bounty)>>,
      reject_claim_v2 |-> <<S(Of(own)), R(Bounty), W(Claim(f))>>,
      finalize_rejection_v2 |-> <<S(Of(w)), W(Bounty), W(Claim(f))>>,
      timeout_dispute_v2 |-> <<S(Of(w)), W(Bounty), W(Claim(f))>>,
      refund_after_expiry |->
        <<P(Of(own)), R(MintOf(m)), W(Bounty), R(Vault), W(VaultTokens(m)),
          W(Ata(m, own)), R(Token)>>,
      cancel_bounty |-> <<S(Of(own)), W(Bounty)>>,
      open_dispute |-> <<S(Of(w)), W(Bounty)>>,
      open_dispute_v2 |-> <<S(Of(w)), W(Bounty), W(Claim(f))>>,
      configure_arbitration_panel |-> <<P(Of(own)), W(Bounty), W(Panel), R(System)>>,
      open_dispute_v3 |->
        <<P(Of(w)), W(Bounty), W(Claim(f)), R(Panel), W(Case(f)), R(System)>>,
      cast_arbitration_vote |->
        <<P(Of(w)), R(Panel), W(Case(f)), R(Claim(f)), W(Vote(f, w)), R(System)>>,
      finalize_dispute_release |->
        <<P(Of(w)), R(Of(f)), R(MintOf(m)), W(Bounty), W(Claim(f)), R(Panel),
          W(Case(f)), R(Vault), W(VaultTokens(m)), W(Ata(m, f)), R(Token),
          R(AtaProgram), R(System)>>,
      finalize_dispute_reject |->
        <<S(Of(w)), W(Bounty), W(Claim(f)), R(Panel), W(Case(f))>>,
      resolve_dispute |->
        <<S(Of(arb)), R(Of(f)), R(MintOf(m)), W(Bounty), R(Vault), W(VaultTokens(m)),
          W(Ata(m, f)), R(Token)>>,
      resolve_dispute_v2 |->
        <<S(Of(arb)), R(Of(f)), R(MintOf(m)), W(Bounty), W(Claim(f)), R(Vault),
          W(VaultTokens(m)), W(Ata(m, f)), R(Token)>>,
      attest_settlement |->
        <<P(Of(w)), R(Of(own)), R(Of(f)), R(Bounty), R(Claim(f)),
          W(At("attestation", f)), W(At("reputation", own)), W(At("reputation", f)),
          R(System)>>]

Arguments ==
  LET listing == <<"string", "u64", "i64", "hash">>
      review  == <<"u8", "u8", "u8", "hash">>
      reviewed == <<"u8", "u8", "u8", "hash", "hash", "hash">>
  IN {<<"create_bounty", listing>>, <<"create_bounty_v2", listing>>,
      <<"create_bounty_sponsored", listing>>, <<"fund_bounty", <<"u64">>>>,
      <<"fund_bounty_sponsored", <<"u64">>>>, <<"submit_claim", <<"hash">>>>,
      <<"submit_claim_v2", <<"hash">>>>, <<"submit_claim_v2_sponsored", <<"hash">>>>,
      <<"record_ai_review", review>>,
      <<"record_ai_review_v2", reviewed>>,
      <<"configure_arbitration_panel", <<"key", "key", "key", "u8">>>>,
      <<"cast_arbitration_vote", <<"bool">>>>, <<"resolve_dispute", <<"bool">>>>,
      <<"resolve_dispute_v2", <<"bool">>>>}

\* The accounts and arguments of one instruction, under the privileges that
\* the message grants.
Satisfied(ix, w, f, writable, signers) ==
  LET name     == IF ix.name = "create_bounty_v2" THEN "create_bounty" ELSE ix.name
      demanded == Demands(w, f)[name]
      accounts == ix.accounts
  IN  /\ Len(accounts) = Len(demanded)
      /\ \A i \in DOMAIN demanded :
           /\ accounts[i].at = demanded[i].at
           /\ demanded[i].writable => accounts[i].at \in writable
           /\ demanded[i].signer => accounts[i].at \in signers
      /\ ix.data # <<>> => <<ix.name, ix.data>> \in Arguments
      /\ ix.data = <<>> => \A a \in Arguments : a[1] # ix.name

-----------------------------------------------------------------------------
(* The message: the accounts of all instructions, with merged privileges.  *)

Metas(t) == {P(Of(t.payer))} \cup UNION {Range(ix.accounts) : ix \in Range(t.ixs)}
SignersOf(t)  == {m.at : m \in {k \in Metas(t) : k.signer}}
Writable(t) == {m.at : m \in {k \in Metas(t) : k.writable}}
Programs(t) == {IF ix.name = "create_ata" THEN AtaProgram ELSE Program :
                   ix \in Range(t.ixs)}

SizeOf(type) ==
  CASE type \in {"u8", "bool"}   -> 1
    [] type \in {"u64", "i64"}   -> 8
    [] type \in {"hash", "key"}  -> 32
    [] type = "string"          -> 4 + who.idLength

\* The bytes of consecutive parts, counted one by one.
TotalSize(sizes) == Cardinality(UNION {{i} \X (1..sizes[i]) : i \in DOMAIN sizes})
DataSize(ix) == (IF ix.name = "create_ata" THEN 0 ELSE 8)
                  + TotalSize([i \in DOMAIN ix.data |-> SizeOf(ix.data[i])])

\* Signatures, header, keys, blockhash, instructions.
WireSize(t) ==
  LET keys  == {m.at : m \in Metas(t)} \cup Programs(t)
      sizes == [i \in DOMAIN t.ixs |->
                  3 + Len(t.ixs[i].accounts) + DataSize(t.ixs[i])]
  IN  1 + 64 * Cardinality(SignersOf(t)) + 4 + 32 * Cardinality(keys) + 32 + 1
        + TotalSize(sizes)

-----------------------------------------------------------------------------
(* The transactions of each party.  f is the finder or, for the last word   *)
(* on a dispute of protocol 1, the party that is paid.                     *)

Self(w, f, ixs) == [by |-> w, payer |-> w, f |-> f, ixs |-> ixs]
Sponsored(w, ix) == [by |-> w, payer |-> Sponsor, f |-> w, ixs |-> <<ix>>]

OwnerTxs ==
  LET w == who.owner
      f == who.finder
  IN  {Self(w, f, <<CreateBountyInstruction(w, who.arbiter, name),
                    FundBountyInstruction(w)>>) :
         name \in {"create_bounty", "create_bounty_v2"}}
      \cup {Self(w, f, <<ix>>) : ix \in {
        CreateBountyInstruction(w, who.arbiter, "create_bounty_v2"),
        FundBountyInstruction(w),
        AcceptClaimOnChain(w, f), RejectClaimOnChain(w), RejectClaimV2OnChain(w, f),
        RefundAfterExpiryOnChain(w), CancelBountyOnChain(w),
        ConfigureArbitrationPanelOnChain(w)}}
      \cup {Self(w, f, <<AcceptClaimV2OnChain(w, f),
                         AttestSettlementInstruction(w, w, f)>>)}
      \cup {Sponsored(w, ix) : ix \in {
        CreateBountySponsoredInstruction(w, who.arbiter),
        FundBountySponsoredInstruction(w)}}

FinderTxs ==
  LET w == who.finder
  IN  {Self(w, w, <<ix>>) : ix \in {SubmitClaimOnChain(w),
                                    SubmitClaimV2Instruction(w)}}
      \cup {Sponsored(w, SubmitClaimV2SponsoredInstruction(w))}

ArbiterTxs ==
  LET w == who.arbiter
      f == who.finder
  IN  {Self(w, f, <<ix>>) : ix \in {RecordAiReviewOnChain(w),
                                    RecordAiReviewV2OnChain(w, f)}}
      \cup {Self(w, p, <<CreateAtaIx(w, p), ResolveDisputeOnChain(w, p)>>) :
              p \in {who.owner, f}}
      \cup {Self(w, f, <<CreateAtaIx(w, f), ResolveDisputeV2OnChain(w, f)>>),
            Self(w, f, <<CreateAtaIx(w, f), ResolveDisputeV2OnChain(w, f),
                         AttestSettlementInstruction(w, who.owner, f)>>)}

AnybodysTxs ==
  LET w == who.other
      f == who.finder
  IN  {Self(w, f, <<ix>>) : ix \in {
        FinalizeRejectionV2OnChain(w, f), TimeoutDisputeV2OnChain(w, f),
        FinalizeDisputeRejectOnChain(w, f), CastArbitrationVoteOnChain(w, f),
        OpenDisputeOnChain(w), OpenDisputeV2OnChain(w, f),
        OpenDisputeV3OnChain(w, f)}}
      \cup {Self(w, f, <<FinalizeDisputeReleaseOnChain(w, f),
                         AttestSettlementInstruction(w, who.owner, f)>>)}

-----------------------------------------------------------------------------

NothingSent == [by |-> Sponsor, payer |-> Sponsor, f |-> Sponsor, ixs |-> <<>>]

\* Nobody claims a bounty of their own.
ClientInit ==
  /\ who \in [owner : Signers, finder : Signers, arbiter : Signers, other : Signers,
              mint : Mints, idLength : IdLengths]
  /\ who.owner # who.finder
  /\ sent = NothingSent
  /\ verdict = "none"

\* sendIx sends nothing that needs a second signature, sendSponsoredTransaction
\* nothing that does not; no packet is longer than 1232 bytes.
Sendable(t) ==
  /\ Cardinality(SignersOf(t)) = IF t.payer = t.by THEN 1 ELSE 2
  /\ WireSize(t) <= 1232

Send(t) ==
  /\ verdict = "none"
  /\ sent' = t
  /\ verdict' =
       IF ~Sendable(t) THEN "not sent"
       ELSE IF \A ix \in Range(t.ixs) :
                 \/ ix.name = "create_ata"
                 \/ Satisfied(ix, t.by, t.f, Writable(t), SignersOf(t))
            THEN "accepted"
            ELSE "refused"
  /\ UNCHANGED who

Forget ==
  /\ verdict # "none"
  /\ sent' = NothingSent
  /\ verdict' = "none"
  /\ UNCHANGED who

ClientNext ==
  \/ \E t \in OwnerTxs \cup FinderTxs \cup ArbiterTxs \cup AnybodysTxs : Send(t)
  \/ Forget

-----------------------------------------------------------------------------
(* Properties.                                                             *)

MovesTokens(t) ==
  \E ix \in Range(t.ixs) :
    /\ MintAccount \in {m.at : m \in Range(ix.accounts)}
    /\ ix.name \notin {"create_ata", "create_bounty", "create_bounty_v2",
                       "create_bounty_sponsored"}

\* Whichever parties coincide, every transaction the app builds can be signed
\* by the wallet it is built for, fits into a packet and satisfies the account
\* constraints of every instruction in it.  The exceptions are the payments of
\* a bounty whose mint is no longer the configured one.
AccountsMatchProgram ==
  verdict \in {"none", "accepted"} \/ (who.mint # Mint /\ MovesTokens(sent))
=============================================================================
