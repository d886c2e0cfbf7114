---------------------------- MODULE ChainMirror ----------------------------
(***************************************************************************)
(* The database as a mirror of the chain: every API request that writes a  *)
(* claims row, against a chain that moves meanwhile.  A request reads the  *)
(* chain first and writes later, without comparing versions, so what it    *)
(* writes may be older than what is there; the periodic reconcile repairs  *)
(* it.  Requests of both parties interleave with their workflow actions.   *)
(***************************************************************************)
EXTENDS ClaimWorkflow

Init ==
    /\ LifecycleInit
    /\ claim_row = [c \in Claims |-> NoClaimRow]
    /\ bounty_status = "funded"
    /\ handover = [c \in Claims |-> NoHandover]
    /\ messages = [c \in Claims |-> 0]
    /\ session = [t \in Sessions |-> Idle]
    /\ requests = [apply |-> 0, upload |-> 0, review |-> 0]

\* Transactions of the wallets.
ChainMoves ==
    /\ LifecycleNext
    /\ UNCHANGED <<rows, session, requests>>

\* toDbStatus, for a claim's status.
toDbStatus ==
    [Absent |-> "none", Submitted |-> "submitted", AiReviewed |-> "ai_reviewed",
     RejectionPending |-> "rejection_pending", Rejected |-> "rejected",
     Disputed |-> "disputed", Settled |-> "settled"]

\* toDbStatus, for the bounty's; "funded" stands for every status of a bounty
\* that no claim has locked or was paid from.
BountyOnChain ==
    IF \E c \in Claims : chain[c] = "Settled" THEN "released"
    ELSE IF \E c \in Claims : chain[c] = "Disputed" THEN "disputed"
    ELSE "funded"

MutToWorkflowStatus(s) ==
    IF s \in {"Settled", "Disputed"} THEN toDbStatus[s]
    ELSE IF s \in {"Rejected", "RejectionPending"} THEN "rejected" ELSE ""

\* "" stands for: no change.
toWorkflowStatus(s) ==
    IF s \in {"Settled", "Rejected", "RejectionPending", "Disputed"} THEN toDbStatus[s]
    ELSE ""

Continues(t, step) == session' = [session EXCEPT ![t].step = step]

-----------------------------------------------------------------------------
(* POST bounties/sync, and one round of POST bounties/reconcile.           *)

\* A sync need not name a finder: then only the bounty is mirrored.
SyncReadsBounty(t, c) ==
    /\ session[t] = Idle
    /\ session' = [session EXCEPT ![t] = [Idle EXCEPT
                      !.call = "sync", !.step = IF c = NoRow THEN "write" ELSE "read",
                      !.claim = c, !.chain_bounty = BountyOnChain]]
    /\ UNCHANGED <<chain, rows, requests>>

SyncReadsClaim(t) ==
    LET c == session[t].claim
    IN  /\ session[t].call = "sync"
        /\ session[t].step = "read"
        /\ session' = [session EXCEPT
                          ![t].chain_claim = chain[c],
                          ![t].step = IF chain[c] = "Absent" THEN "write" ELSE "lock"]
        /\ UNCHANGED <<chain, rows, requests>>

\* So it is when the finder has no ClaimV2 account.
SyncWritesBounty(t) ==
    /\ session[t].call = "sync"
    /\ session[t].step = "write"
    /\ Available(t, BountyRow)
    /\ bounty_status' = session[t].chain_bounty
    /\ Ends(t)
    /\ UNCHANGED <<chain, claim_row, handover, messages, requests>>

MutMirrored(row, s) ==
    [row EXCEPT !.status = toDbStatus[s],
                !.workflow_status = IF toWorkflowStatus(s) = "" \/ @ \in Closed
                                    THEN @ ELSE toWorkflowStatus(s)]

Mirrored(row, s) ==
    [row EXCEPT !.status = toDbStatus[s],
                !.workflow_status = IF toWorkflowStatus(s) = "" THEN @ ELSE toWorkflowStatus(s)]

\* sync_claim_chain_state.  Without a row it raises WORKFLOW_NOT_FOUND.
SyncClaimChainState(t) ==
    /\ Ready(t, "sync")
    /\ LET c == session[t].claim
           s == session[t].chain_claim
           siblings == IF s = "Settled" THEN OpenSiblings(c) ELSE {}
       IN  IF ~Exists(c) THEN UNCHANGED rows
           ELSE /\ claim_row' = [g \in Claims |->
                       IF g = c THEN Mirrored(claim_row[c], s)
                       ELSE IF g \in siblings
                       THEN [claim_row[g] EXCEPT !.workflow_status = "rejected"]
                       ELSE claim_row[g]]
                /\ handover' = [handover EXCEPT
                                   ![c].received = @ \/ (s = "Settled"
                                                         /\ handover[c].status # "none")]
                /\ bounty_status' = session[t].chain_bounty
                /\ UNCHANGED messages
    /\ Ends(t)
    /\ UNCHANGED <<chain, requests>>

-----------------------------------------------------------------------------
(* POST bounties/claim: the finder uploads the evidence of a ClaimV2.      *)

Terminal == {"settled", "rejected", "disputed", "rejection_pending"}

ExistingRow(c) ==
    IF ~Exists(c) THEN "none"
    ELSE IF claim_row[c].status \in Terminal \/ claim_row[c].workflow_status \in Terminal
            \/ claim_row[c].ai_report
    THEN "kept" ELSE "fresh"

UploadReadsChain(t, c) ==
    /\ chain[c] = "Submitted"
    /\ Asked(t, [Idle EXCEPT !.call = "upload", !.step = "read", !.claim = c])

UploadReadsRow(t) ==
    /\ session[t].call = "upload"
    /\ session[t].step = "read"
    /\ session' = [session EXCEPT ![t].existing = ExistingRow(session[t].claim),
                                  ![t].step = "write"]
    /\ UNCHANGED <<chain, rows, requests>>

\* What the upsert leaves in the row, by what the upload had read before.
Upserted(row, existing) ==
    IF existing = "none" THEN [row EXCEPT !.status = "submitted", !.ai_report = FALSE]
    ELSE IF existing = "fresh" THEN [row EXCEPT !.status = "submitted"]
    ELSE row

\* An insert also locks the bounty it refers to.
UploadUpserts(t) ==
    LET c == session[t].claim
    IN  /\ session[t].call = "upload"
        /\ session[t].step = "write"
        /\ Available(t, c)
        /\ Exists(c) \/ Available(t, BountyRow)
        /\ claim_row' = [claim_row EXCEPT ![c] = Upserted(@, session[t].existing)]
        /\ Ends(t)
        /\ UNCHANGED <<chain, bounty_status, handover, messages, requests>>

-----------------------------------------------------------------------------
(* POST ai/review, v2.                                                     *)

ReviewReads(t, c) ==
    /\ Exists(c)
    /\ chain[c] \in Undecided
    /\ Asked(t, [Idle EXCEPT !.call = "review", !.step = "record", !.claim = c])

\* record_ai_review_v2; when the claim was decided, the transaction is refused,
\* or executed and reverted, which goes unnoticed (client.ts:272-278).
ReviewRecords(t) ==
    /\ session[t].call = "review"
    /\ session[t].step = "record"
    /\ \/ Review(session[t].claim) /\ Continues(t, "write")
       \/ /\ ~(chain[session[t].claim] \in Undecided /\ Unlocked)
          /\ UNCHANGED chain
          /\ Ends(t) \/ Continues(t, "write")
    /\ UNCHANGED <<rows, requests>>

ReviewSaves(t) ==
    LET c == session[t].claim
    IN  /\ session[t].call = "review"
        /\ session[t].step = "write"
        /\ Available(t, c)
        /\ claim_row' = [claim_row EXCEPT ![c].status = "ai_reviewed", ![c].ai_report = TRUE]
        /\ Ends(t)
        /\ UNCHANGED <<chain, bounty_status, handover, messages, requests>>

-----------------------------------------------------------------------------

SessionStep(t) ==
    \/ Lock(t)
    \/ DeadlockVictim(t)
    \/ ApplyClaimWorkflowAction(t)
    \/ SyncReadsClaim(t)
    \/ SyncWritesBounty(t)
    \/ SyncClaimChainState(t)
    \/ UploadReadsRow(t)
    \/ UploadUpserts(t)
    \/ ReviewRecords(t)
    \/ ReviewSaves(t)

Starts(t, c) ==
    \/ \E actor \in Parties, action \in ActionsAsked : RequestAction(t, c, actor, action)
    \/ SyncReadsBounty(t, c)
    \/ SyncReadsBounty(t, NoRow)
    \/ UploadReadsChain(t, c)
    \/ ReviewReads(t, c)

Next ==
    \/ ChainMoves
    \/ \E c \in Claims : MeetingNears(c)
    \/ \E t \in Sessions :
          SessionStep(t) \/ Dies(t) \/ \E c \in Claims : Starts(t, c)

Spec == Init /\ [][Next]_vars

(* A request goes on when it can (Postgres queues those that wait for a    *)
(* row, so none is overtaken for ever); the client polls, so every claim   *)
(* is reconciled again and again.  Nothing is assumed of the users, of the *)
(* wallets, or that uploads and reviews are ever asked for.                *)
Fairness ==
    /\ \A t \in Sessions : SF_vars(SessionStep(t))
    /\ \A c \in Claims : SF_vars(\E t \in Sessions : SyncReadsBounty(t, c))

FairSpec == Spec /\ Fairness

-----------------------------------------------------------------------------
(* Invariants.                                                             *)

\* While a claim is open, its workflow_status and its handover row, two
\* tables that different requests write, tell the same story.
HandoverInStep ==
    \A c \in Claims :
        LET w == claim_row[c].workflow_status
            h == handover[c]
        IN  /\ w = "handover_proposed" => h.status = "proposed"
            /\ w = "handover_scheduled" => h.status = "accepted" /\ ~h.delivered
            /\ w = "finder_delivered" => h.status = "accepted" /\ h.delivered
            /\ w \in {"awaiting_review", "more_info_requested"} =>
                  h.status \in {"none", "cancelled"}

\* No item is marked delivered under an appointment that both parties did not
\* agree to, and an appointment is not called off after the delivery.
AgreedByBoth ==
    \A c \in Claims :
        /\ handover[c].status = "accepted" =>
              {handover[c].proposed_by, handover[c].accepted_by} = Parties
        /\ handover[c].delivered => handover[c].status = "accepted"

\* However late a request writes what it read, the database never shows a
\* verdict that the chain has not reached.
VerdictsAreReal ==
    \A c \in Claims :
        /\ claim_row[c].workflow_status = "settled" => chain[c] = "Settled"
        /\ claim_row[c].workflow_status = "rejected" =>
              chain[c] = "Rejected" \/ \E g \in Claims \ {c} : chain[g] = "Settled"
        /\ handover[c].received => chain[c] = "Settled"

-----------------------------------------------------------------------------
(* Action properties.                                                      *)

\* "settled/rejected/disputed always closed": nobody adds to a conversation
\* that was closed by a request that committed before.
ClosedIsClosed ==
    [][\A c \in Claims :
          messages'[c] # messages[c] => claim_row[c].workflow_status \notin Closed]_vars

\* The mirror of a settlement closes, with the claim that was paid, the
\* conversations of all the others.
SettlementClosesSiblings ==
    [][\A c \in Claims :
          claim_row[c].workflow_status # "settled" /\ claim_row'[c].workflow_status = "settled"
              => \A g \in Claims \ {c} :
                    Exists(g) => claim_row'[g].workflow_status \in {"settled", "rejected"}]_vars

-----------------------------------------------------------------------------
(* Liveness, under FairSpec.                                               *)

\* Requests that lock the same rows in opposite orders do not block each
\* other forever.
RequestsEnd == \A t \in Sessions : session[t].call # "none" ~> session[t].call = "none"

\* Once a claim is decided on chain, its row says so in the end, for good,
\* and so does the bounty's row once a claim was paid.
MirrorConverges ==
    \A c \in Claims :
        /\ chain[c] \in {"Settled", "Rejected"} ~>
               [](Exists(c) => claim_row[c].workflow_status = toWorkflowStatus(chain[c])
                               /\ claim_row[c].status = toDbStatus[chain[c]])
        /\ chain[c] = "Settled" ~> [](Exists(c) => bounty_status = "released")

-----------------------------------------------------------------------------
(* What the repository says and the requests do not do.                    *)

\* bounties/claim: "Non-destructive upsert: never wipe AI review or terminal
\* statuses on retry/outbox."
UploadsAreNonDestructive ==
    [][\A t \in Sessions, c \in Claims :
          session[t].call = "upload" /\ session[t].step = "write" /\ session'[t].step = "none" =>
              /\ claim_row[c].ai_report => claim_row'[c].ai_report
              /\ claim_row[c].status \in Terminal => claim_row'[c].status = claim_row[c].status]_vars
=============================================================================
