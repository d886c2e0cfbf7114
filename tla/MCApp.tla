-------------------------------- MODULE MCApp --------------------------------
(***************************************************************************)
(* The parts of the app around the escrow, the claims and their mirror.    *)
(* They share no state that one writes and another reads, so a behaviour   *)
(* follows one of them, chosen at the start, and leaves the others in an   *)
(* initial state: the sum of their instances, not the product.             *)
(***************************************************************************)
EXTENDS Outbox, RateLimit, CreateListing, DevnetGrants, WalletLink, Attestation,
        Instructions, AccountLayout, SafeTags, AiReview, Evidence

VARIABLE part

vars == <<part, outboxVars, rateVars, createVars, grantVars, walletVars, attestVars,
          clientVars, layoutVars, tagVars, reviewVars, evidenceVars>>

Init ==
  /\ part \in {"outbox", "limits", "create", "fees", "faucet", "wallet", "attest",
               "client", "layout", "tags", "review",
               "evidence"}
  /\ OutboxInit
  /\ IF part = "outbox" THEN TRUE ELSE mine = Listings /\ room = (CHOOSE r \in Rooms : TRUE) /\ up
  /\ RateInit
  /\ CreateInit
  /\ IF part = "create" THEN TRUE ELSE sponsored /\ ~calm
  /\ GrantsInit /\ WalletInit /\ AttestInit
  /\ ClientInit
  /\ IF part = "client" THEN TRUE
       ELSE who = CHOOSE p \in [owner : Signers, finder : Signers, arbiter : Signers,
                              other : Signers, mint : {Mint}, idLength : IdLengths] :
                  p.owner # p.finder
  /\ LayoutInit
  /\ IF part = "layout" THEN TRUE
       ELSE account = [kind |-> "vote", fields |-> 5, status |-> 1,
                     idLength |-> CHOOSE n \in IdSizes : TRUE]
  /\ TagsInit
  /\ ReviewInit
  /\ IF part = "review" THEN TRUE ELSE photos = [owner |-> TRUE, finder |-> TRUE]
  /\ EvidenceInit
  /\ IF part = "evidence" THEN TRUE ELSE pictured

\* The variables of one part may change.
Moves(p) ==
  /\ part = p
  /\ UNCHANGED part
  /\ IF p = "outbox" THEN TRUE ELSE UNCHANGED outboxVars
  /\ IF p = "limits" THEN TRUE ELSE UNCHANGED rateVars
  /\ IF p = "create" THEN TRUE ELSE UNCHANGED createVars
  /\ IF p \in {"fees", "faucet"} THEN TRUE ELSE UNCHANGED grantVars
  /\ IF p = "wallet" THEN TRUE ELSE UNCHANGED walletVars
  /\ IF p = "attest" THEN TRUE ELSE UNCHANGED attestVars
  /\ IF p = "client" THEN TRUE ELSE UNCHANGED clientVars
  /\ IF p = "layout" THEN TRUE ELSE UNCHANGED layoutVars
  /\ IF p = "tags" THEN TRUE ELSE UNCHANGED tagVars
  /\ IF p = "review" THEN TRUE ELSE UNCHANGED reviewVars
  /\ IF p = "evidence" THEN TRUE ELSE UNCHANGED evidenceVars

Next ==
  \/ Moves("outbox") /\ OutboxNext
  \/ Moves("limits") /\ RateNext
  \/ Moves("create") /\ CreateNext
  \/ Moves("fees") /\ SponsorNext
  \/ Moves("faucet") /\ FaucetNext
  \/ Moves("wallet") /\ WalletNext
  \/ Moves("attest") /\ AttestNext
  \/ Moves("client") /\ ClientNext
  \/ Moves("layout") /\ LayoutNext
  \/ Moves("tags") /\ TagsNext
  \/ Moves("review") /\ ReviewNext
  \/ Moves("evidence") /\ EvidenceNext

\* Requests end, the browser's interval fires, time passes.
OutboxFairness ==
  /\ \A t \in Tasks : /\ WF_vars(Moves("outbox") /\ TaskStep(t))
                      /\ WF_vars(Moves("outbox") /\ RefreshStarts(t))
  /\ WF_vars(Moves("outbox") /\ MinutePasses)

\* Requests end, a transaction that is sent again and again lands, and the
\* owner presses the button of the form while it reports a failure.
CreateFairness ==
  /\ \A t \in Tabs : WF_vars(Moves("create") /\ TabStep(t))
  /\ \A n \in Txs : SF_vars(Moves("create") /\ Lands(n))
  /\ WF_vars(Moves("create") /\ Press("form"))

Spec == Init /\ [][Next]_vars /\ OutboxFairness /\ CreateFairness
=============================================================================
