---------------------------- MODULE MirrorProofs ----------------------------
(***************************************************************************)
(* Theorems about module ChainMirror, for any number of claims, concurrent *)
(* requests and workflow actions: the rows of the database tell the truth  *)
(* and agree with each other.  The argument is the one of row locks.  Two  *)
(* requests never hold the same row (Exclusive), so what a workflow action *)
(* saw when it locked a claim's row is still there when it commits, and    *)
(* what a request read from the chain stays true where it matters, because *)
(* a verdict is final (Fits).  The uploads, which hold no lock between     *)
(* their read and their write, lose no more than what came in between.     *)
(***************************************************************************)
EXTENDS ChainMirror, TLAPS

MirrorTypeOK ==
    /\ chain \in [Claims -> ChainStatus]
    /\ claim_row \in [Claims -> ClaimRow]
    /\ handover \in [Claims -> Handover]
    /\ session \in [Sessions -> Session]

\* What a request in state s holds and what it has read, of the statuses ch
\* on the chain and of the claims' rows.
Fits(s, ch, row) ==
    /\ s.call \in {"apply", "upload", "review"} => s.claim \in Claims
    /\ s.call = "sync" /\ s.step \in {"read", "lock"} => s.claim \in Claims
    /\ s.call = "apply" => s.actor \in Parties
    /\ s.held # {} => s.step = "lock"
    /\ s.step = "lock" => s.call \in {"apply", "sync"}
    /\ s.call = "sync" /\ s.chain_claim \in {"Settled", "Rejected"} =>
          s.claim \in Claims /\ ch[s.claim] = s.chain_claim
    /\ s.call = "apply" /\ s.claim \in s.held => s.seen = row[s.claim].workflow_status

SessionsFit == \A t \in Sessions : Fits(session[t], chain, claim_row)

Exclusive == \A t, u \in Sessions : t # u => session[t].held \cap session[u].held = {}

\* A proposal is somebody's.
Proposed ==
    \A c \in Claims : handover[c].status = "proposed" => handover[c].proposed_by \in Parties

RowsOK == HandoverInStep /\ AgreedByBoth /\ Proposed /\ VerdictsAreReal

MirrorInv == MirrorTypeOK /\ SessionsFit /\ Exclusive /\ RowsOK

(***************************************************************************)
(* The chain.                                                              *)
(***************************************************************************)

VerdictsStand ==
    /\ chain' \in [Claims -> ChainStatus]
    /\ \A c \in Claims : chain[c] \in {"Settled", "Rejected"} => chain'[c] = chain[c]

\* A verdict on a claim is final.
LEMMA LifecycleKeepsVerdicts ==
    ASSUME chain \in [Claims -> ChainStatus], NEW c \in Claims, LifecycleStep(c)
    PROVE  VerdictsStand
<1>1. PICK s \in ChainStatus : Becomes(c, s)
  BY DEF LifecycleStep, Submit, Review, Turn, Finalize, Contest, Dismiss, Settle, ChainStatus
<1>2. chain[c] \notin {"Settled", "Rejected"}
  BY DEF LifecycleStep, Submit, Review, Turn, Finalize, Contest, Dismiss, Settle, Undecided
<1> QED
  BY <1>1, <1>2 DEF Becomes, VerdictsStand

\* What a request read and holds stays right while others move the chain, and
\* while nobody else writes the workflow_status of a claim it holds.
LEMMA FitsStill ==
    ASSUME MirrorTypeOK, VerdictsStand, NEW s \in Session, Fits(s, chain, claim_row),
           \A c \in Claims \cap s.held :
              claim_row'[c].workflow_status = claim_row[c].workflow_status
    PROVE  Fits(s, chain', claim_row')
<1> QED
  BY DEF Fits, VerdictsStand, Session

(***************************************************************************)
(* One session moves.                                                      *)
(***************************************************************************)

\* Session t moves to x.
Moves(t, x) ==
    /\ session' = [session EXCEPT ![t] = x]
    /\ x \in Session
    /\ \A u \in Sessions \ {t} : x.held \cap session[u].held = {}

\* Claims whose row another session holds keep their workflow_status.
OthersKeep(t) ==
    \A u \in Sessions \ {t} : \A c \in Claims \cap session[u].held :
       claim_row'[c].workflow_status = claim_row[c].workflow_status

\* If t's new state is right, then all sessions are.
LEMMA SessionsStillFit ==
    ASSUME MirrorTypeOK, SessionsFit, Exclusive, VerdictsStand,
           NEW t \in Sessions, NEW x, Moves(t, x), Fits(x, chain', claim_row'), OthersKeep(t)
    PROVE  /\ session' \in [Sessions -> Session]
           /\ SessionsFit'
           /\ Exclusive'
<1>1. session' \in [Sessions -> Session] /\ session'[t] = x
  BY DEF Moves, MirrorTypeOK
<1>2. \A u \in Sessions \ {t} : session'[u] = session[u]
  BY DEF Moves, MirrorTypeOK
<1>3. ASSUME NEW u \in Sessions
      PROVE  Fits(session'[u], chain', claim_row')
  <2>1. CASE u = t
    BY <1>1, <2>1
  <2>2. CASE u # t
    <3>1. session[u] \in Session /\ Fits(session[u], chain, claim_row)
      BY DEF MirrorTypeOK, SessionsFit
    <3>2. \A c \in Claims \cap session[u].held :
             claim_row'[c].workflow_status = claim_row[c].workflow_status
      BY <2>2 DEF OthersKeep
    <3> QED
      BY <1>2, <2>2, <3>1, <3>2, FitsStill
  <2> QED
    BY <2>1, <2>2
<1>4. Exclusive'
  BY <1>1, <1>2 DEF Moves, Exclusive
<1> QED
  BY <1>1, <1>3, <1>4 DEF SessionsFit

\* A request that is over holds nothing, so it may be followed by any other.
LEMMA IdleFits ==
    ASSUME NEW ch, NEW row
    PROVE  Idle \in Session /\ Fits(Idle, ch, row) /\ Idle.held = {}
<1> QED
  BY DEF Idle, Session, Fits, Calls, WorkflowStatus, ChainStatus

\* What Ends does to the sessions.
LEMMA Ending ==
    ASSUME MirrorTypeOK, NEW t \in Sessions, Ends(t)
    PROVE  Moves(t, Idle)
<1> QED
  BY IdleFits DEF Ends, Moves

(***************************************************************************)
(* Steps that leave every workflow_status and every handover alone.        *)
(***************************************************************************)

QuietRows ==
    /\ claim_row' \in [Claims -> ClaimRow]
    /\ \A c \in Claims : claim_row'[c].workflow_status = claim_row[c].workflow_status
    /\ handover' = handover

LEMMA RowsStillOK ==
    ASSUME MirrorTypeOK, RowsOK, VerdictsStand, QuietRows
    PROVE  RowsOK'
<1>1. HandoverInStep'
  BY DEF RowsOK, QuietRows, HandoverInStep
<1>2. AgreedByBoth' /\ Proposed'
  BY DEF RowsOK, QuietRows, AgreedByBoth, Proposed
<1>3. VerdictsAreReal'
  BY DEF RowsOK, QuietRows, VerdictsAreReal, VerdictsStand
<1> QED
  BY <1>1, <1>2, <1>3 DEF RowsOK

LEMMA QuietStep ==
    ASSUME MirrorInv, VerdictsStand, QuietRows,
           NEW t \in Sessions, NEW x, Moves(t, x), Fits(x, chain', claim_row')
    PROVE  MirrorInv'
<1>1. OthersKeep(t)
  BY DEF OthersKeep, QuietRows
<1>2. session' \in [Sessions -> Session] /\ SessionsFit' /\ Exclusive'
  BY <1>1, SessionsStillFit DEF MirrorInv
<1>3. MirrorTypeOK'
  BY <1>2 DEF MirrorInv, MirrorTypeOK, QuietRows, VerdictsStand
<1>4. RowsOK'
  BY RowsStillOK DEF MirrorInv
<1> QED
  BY <1>2, <1>3, <1>4 DEF MirrorInv

\* The same for a request that ends.
LEMMA QuietEnd ==
    ASSUME MirrorInv, VerdictsStand, QuietRows, NEW t \in Sessions, Ends(t)
    PROVE  MirrorInv'
<1> QED
  BY QuietStep, Ending, IdleFits DEF MirrorInv

LEMMA Unread ==
    ASSUME MirrorTypeOK, UNCHANGED <<chain, rows>>
    PROVE  VerdictsStand /\ QuietRows
<1> QED
  BY DEF MirrorTypeOK, VerdictsStand, QuietRows, rows

\* Wallets move the chain, and a meeting comes near: no session moves.
LEMMA ChainMovesKeepInv ==
    ASSUME MirrorInv, ChainMoves
    PROVE  MirrorInv'
<1>1. VerdictsStand
  BY LifecycleKeepsVerdicts DEF ChainMoves, LifecycleNext, MirrorInv, MirrorTypeOK
<1>2. QuietRows /\ session' = session
  BY DEF ChainMoves, rows, QuietRows, MirrorInv, MirrorTypeOK
<1>3. MirrorTypeOK'
  BY <1>1, <1>2 DEF MirrorInv, MirrorTypeOK, QuietRows, VerdictsStand
<1>4. ASSUME NEW t \in Sessions
      PROVE  Fits(session[t], chain', claim_row')
  <2>1. session[t] \in Session /\ Fits(session[t], chain, claim_row)
    BY DEF MirrorInv, MirrorTypeOK, SessionsFit
  <2> QED
    BY <1>1, <1>2, <2>1, FitsStill DEF MirrorInv, QuietRows
<1>5. SessionsFit' /\ Exclusive'
  BY <1>2, <1>4 DEF SessionsFit, Exclusive, MirrorInv
<1> QED
  BY <1>1, <1>2, <1>3, <1>5, RowsStillOK DEF MirrorInv

LEMMA MeetingNearsKeepsInv ==
    ASSUME MirrorInv, NEW c \in Claims, MeetingNears(c)
    PROVE  MirrorInv'
<1>1. /\ UNCHANGED <<chain, claim_row, session>>
      /\ handover' = [handover EXCEPT ![c].near = TRUE]
  BY DEF MeetingNears
<1>2. MirrorTypeOK'
  BY <1>1 DEF MirrorInv, MirrorTypeOK, Handover
<1>3. SessionsFit' /\ Exclusive'
  BY <1>1 DEF MirrorInv, SessionsFit, Exclusive
<1>4. \A g \in Claims : /\ handover'[g].status = handover[g].status
                       /\ handover'[g].proposed_by = handover[g].proposed_by
                       /\ handover'[g].accepted_by = handover[g].accepted_by
                       /\ handover'[g].delivered = handover[g].delivered
                       /\ handover'[g].received = handover[g].received
  BY <1>1 DEF MirrorInv, MirrorTypeOK, Handover
<1>5. HandoverInStep' /\ AgreedByBoth'
  BY <1>1, <1>4 DEF MirrorInv, RowsOK, HandoverInStep, AgreedByBoth
<1>6. Proposed' /\ VerdictsAreReal'
  BY <1>1, <1>4 DEF MirrorInv, RowsOK, Proposed, VerdictsAreReal
<1> QED
  BY <1>2, <1>3, <1>5, <1>6 DEF MirrorInv, RowsOK

\* A request starts: it holds nothing and has read nothing of its claim yet.
LEMMA StartKeepsInv ==
    ASSUME MirrorInv, NEW t \in Sessions, NEW c \in Claims, Starts(t, c)
    PROVE  MirrorInv'
<1> DEFINE Fresh(x) == /\ x \in Session /\ x.held = {}
                       /\ Fits(x, chain, claim_row)
                       /\ session' = [session EXCEPT ![t] = x]
<1>1. ASSUME NEW x, Fresh(x), UNCHANGED <<chain, rows>>
      PROVE  MirrorInv'
  <2>1. Moves(t, x) /\ Fits(x, chain', claim_row')
    BY <1>1 DEF Moves, rows
  <2> QED
    BY <1>1, <2>1, Unread, QuietStep DEF MirrorInv
<1>2. ASSUME NEW actor \in Parties, NEW action \in ActionsAsked, RequestAction(t, c, actor, action)
      PROVE  MirrorInv'
  <2> DEFINE x == [Idle EXCEPT !.call = "apply", !.step = "lock", !.claim = c,
                               !.actor = actor, !.action = action]
  <2>1. x \in Session /\ x.held = {} /\ Fits(x, chain, claim_row)
    BY WorkflowAssumption
       DEF Idle, Session, Fits, Calls, WorkflowStatus, ChainStatus
  <2>2. Fresh(x) /\ UNCHANGED <<chain, rows>>
    BY <1>2, <2>1 DEF RequestAction, Asked
  <2> QED
    BY <1>1, <2>2
<1>3. ASSUME NEW g \in Claims \cup {NoRow}, SyncReadsBounty(t, g)
      PROVE  MirrorInv'
  <2> DEFINE x == [Idle EXCEPT !.call = "sync", !.step = IF g = NoRow THEN "write" ELSE "read",
                               !.claim = g, !.chain_bounty = BountyOnChain]
  <2>1. x \in Session /\ x.held = {} /\ Fits(x, chain, claim_row)
    BY DEF Idle, Session, Fits, Calls, WorkflowStatus, ChainStatus, BountyOnChain
  <2>2. Fresh(x) /\ UNCHANGED <<chain, rows>>
    BY <1>3, <2>1 DEF SyncReadsBounty
  <2> QED
    BY <1>1, <2>2
<1>4. CASE UploadReadsChain(t, c)
  <2> DEFINE x == [Idle EXCEPT !.call = "upload", !.step = "read", !.claim = c]
  <2>1. x \in Session /\ x.held = {} /\ Fits(x, chain, claim_row)
    BY DEF Idle, Session, Fits, Calls, WorkflowStatus, ChainStatus
  <2>2. Fresh(x) /\ UNCHANGED <<chain, rows>>
    BY <1>4, <2>1 DEF UploadReadsChain, Asked
  <2> QED
    BY <1>1, <2>2
<1>5. CASE ReviewReads(t, c)
  <2> DEFINE x == [Idle EXCEPT !.call = "review", !.step = "record", !.claim = c]
  <2>1. x \in Session /\ x.held = {} /\ Fits(x, chain, claim_row)
    BY DEF Idle, Session, Fits, Calls, WorkflowStatus, ChainStatus
  <2>2. Fresh(x) /\ UNCHANGED <<chain, rows>>
    BY <1>5, <2>1 DEF ReviewReads, Asked
  <2> QED
    BY <1>1, <2>2
<1> QED
  BY <1>2, <1>3, <1>4, <1>5 DEF Starts

\* A transaction locks a row: nobody else holds it, and a workflow action sees
\* the status that stays there until it ends.
LEMMA LockKeepsInv ==
    ASSUME MirrorInv, NEW t \in Sessions, Lock(t)
    PROVE  MirrorInv'
<1>1. PICK r \in Wanted(t) :
        /\ Available(t, r)
        /\ session' = [session EXCEPT
                          ![t].held = @ \cup {r},
                          ![t].seen = IF session[t].call = "apply" /\ r = session[t].claim
                                      THEN claim_row[r].workflow_status ELSE @]
        /\ UNCHANGED <<chain, rows, requests>>
  BY DEF Lock
<1> DEFINE s == session[t]
           x == [s EXCEPT !.held = @ \cup {r},
                          !.seen = IF s.call = "apply" /\ r = s.claim
                                   THEN claim_row[r].workflow_status ELSE @]
<1>2. s \in Session /\ Fits(s, chain, claim_row) /\ s.step = "lock"
  BY <1>1 DEF MirrorInv, MirrorTypeOK, SessionsFit, Wanted
<1>3. s.claim \in Claims
  BY <1>2 DEF Fits
<1>4. r \in Claims \cup {BountyRow}
  BY <1>1, <1>3 DEF Wanted, OpenSiblings
<1>5. s.claim \in Claims => claim_row[s.claim].workflow_status \in WorkflowStatus
  BY DEF MirrorInv, MirrorTypeOK, ClaimRow
<1>6. x \in Session
  BY <1>2, <1>3, <1>4, <1>5 DEF Session
<1>7. Fits(x, chain, claim_row)
  BY <1>2, <1>3 DEF Fits, Session
<1>8. session' = [session EXCEPT ![t] = x]
  BY <1>1, <1>2 DEF MirrorInv, MirrorTypeOK, Session
<1>9. x.held = s.held \cup {r}
  BY <1>2 DEF Session
<1>10. Moves(t, x)
  BY <1>1, <1>6, <1>8, <1>9 DEF Moves, Available, MirrorInv, Exclusive
<1> HIDE DEF x
<1> QED
  BY <1>1, <1>7, <1>10, Unread, QuietStep DEF MirrorInv, rows

\* A transaction rolls back.
LEMMA RollbackKeepsInv ==
    ASSUME MirrorInv, NEW t \in Sessions, Dies(t) \/ DeadlockVictim(t) \/ Refused(t)
    PROVE  MirrorInv'
<1>1. Ends(t) /\ UNCHANGED <<chain, rows>>
  BY DEF Dies, DeadlockVictim, Refused
<1> QED
  BY <1>1, Unread, QuietEnd DEF MirrorInv

\* A request goes on to x, a step in which it holds nothing.
LEMMA GoesOnKeepsInv ==
    ASSUME MirrorInv, VerdictsStand, UNCHANGED rows,
           NEW t \in Sessions, NEW step \in {"read", "record", "write"},
           NEW existing \in {"none", "fresh", "kept"},
           session[t].call \in {"upload", "review"}, session[t].step # "lock",
           session' = [session EXCEPT ![t] = [session[t] EXCEPT !.step = step,
                                                               !.existing = existing]]
    PROVE  MirrorInv'
<1> DEFINE s == session[t]
           x == [s EXCEPT !.step = step, !.existing = existing]
<1>1. s \in Session /\ Fits(s, chain, claim_row)
  BY DEF MirrorInv, MirrorTypeOK, SessionsFit
<1>2. s.held = {}
  BY <1>1 DEF Fits
<1>3. x \in Session /\ x.held = {}
  BY <1>1, <1>2 DEF Session
<1>4. Fits(x, chain', claim_row')
  BY <1>1, <1>2 DEF Fits, Session
<1>5. Moves(t, x)
  BY <1>3 DEF Moves
<1>6. QuietRows
  BY DEF MirrorInv, MirrorTypeOK, QuietRows, rows
<1> HIDE DEF x
<1> QED
  BY <1>4, <1>5, <1>6, QuietStep

\* An upload reads the chain and the row, and writes the claim's status, which
\* no session has seen, but not its workflow_status.
LEMMA UploadKeepsInv ==
    ASSUME MirrorInv, NEW t \in Sessions, UploadReadsRow(t) \/ UploadUpserts(t)
    PROVE  MirrorInv'
<1>1. session[t] \in Session /\ Fits(session[t], chain, claim_row)
  BY DEF MirrorInv, MirrorTypeOK, SessionsFit
<1>2. CASE UploadReadsRow(t)
  <2>1. ExistingRow(session[t].claim) \in {"none", "fresh", "kept"}
    BY DEF ExistingRow
  <2>2. session' = [session EXCEPT ![t] = [session[t] EXCEPT !.step = "write",
                                             !.existing = ExistingRow(session[t].claim)]]
    BY <1>1, <1>2 DEF UploadReadsRow, MirrorInv, MirrorTypeOK, Session
  <2>3. VerdictsStand
    BY <1>2, Unread DEF UploadReadsRow, MirrorInv
  <2> QED
    BY <1>2, <2>1, <2>2, <2>3, GoesOnKeepsInv DEF UploadReadsRow, rows
<1>3. CASE UploadUpserts(t)
  <2> DEFINE c == session[t].claim
  <2>1. c \in Claims /\ session[t].existing \in {"none", "fresh", "kept"}
    BY <1>1, <1>3 DEF UploadUpserts, Fits, Session
  <2>2. /\ Upserted(claim_row[c], session[t].existing) \in ClaimRow
        /\ Upserted(claim_row[c], session[t].existing).workflow_status
              = claim_row[c].workflow_status
    BY <2>1 DEF Upserted, ClaimRow, DbStatus, MirrorInv, MirrorTypeOK
  <2>3. claim_row' = [claim_row EXCEPT ![c] = Upserted(claim_row[c], session[t].existing)]
    BY <1>3, <2>1 DEF UploadUpserts, MirrorInv, MirrorTypeOK
  <2> HIDE DEF c
  <2>4. QuietRows
    BY <1>3, <2>1, <2>2, <2>3 DEF UploadUpserts, QuietRows, MirrorInv, MirrorTypeOK
  <2>5. VerdictsStand /\ Ends(t)
    BY <1>3 DEF UploadUpserts, VerdictsStand, MirrorInv, MirrorTypeOK
  <2> QED
    BY <2>4, <2>5, QuietEnd
<1> QED
  BY <1>2, <1>3

\* So does an AI review, which records on the chain in between.
LEMMA ReviewKeepsInv ==
    ASSUME MirrorInv, NEW t \in Sessions, ReviewRecords(t) \/ ReviewSaves(t)
    PROVE  MirrorInv'
<1> DEFINE c == session[t].claim
<1>1. session[t] \in Session /\ Fits(session[t], chain, claim_row)
  BY DEF MirrorInv, MirrorTypeOK, SessionsFit
<1>2. c \in Claims
  BY <1>1 DEF ReviewRecords, ReviewSaves, Fits
<1>3. CASE ReviewRecords(t) /\ UNCHANGED chain /\ Ends(t)
  BY <1>3, Unread, QuietEnd DEF ReviewRecords, MirrorInv
<1>4. CASE ReviewRecords(t) /\ (Review(c) \/ UNCHANGED chain) /\ Continues(t, "write")
  <2>1. VerdictsStand
    <3>1. CASE Review(c)
      BY <1>2, <3>1, LifecycleKeepsVerdicts DEF LifecycleStep, MirrorInv, MirrorTypeOK
    <3>2. CASE UNCHANGED chain
      BY <3>2 DEF VerdictsStand, MirrorInv, MirrorTypeOK
    <3> QED
      BY <1>4, <3>1, <3>2
  <2>2. session' = [session EXCEPT ![t] = [session[t] EXCEPT !.step = "write",
                                             !.existing = session[t].existing]]
    BY <1>1, <1>4 DEF Continues, MirrorInv, MirrorTypeOK, Session
  <2>3. session[t].existing \in {"none", "fresh", "kept"}
    BY <1>1 DEF Session
  <2> QED
    BY <1>4, <2>1, <2>2, <2>3, GoesOnKeepsInv DEF ReviewRecords, rows
<1>5. CASE ReviewSaves(t)
  <2> DEFINE r == [claim_row[c] EXCEPT !.status = "ai_reviewed", !.ai_report = TRUE]
  <2>1. r \in ClaimRow /\ r.workflow_status = claim_row[c].workflow_status
    BY <1>2 DEF MirrorInv, MirrorTypeOK, ClaimRow, DbStatus
  <2>2. claim_row' = [claim_row EXCEPT ![c] = r] /\ handover' = handover
    BY <1>2, <1>5 DEF ReviewSaves, MirrorInv, MirrorTypeOK, ClaimRow
  <2> HIDE DEF c, r
  <2>4. QuietRows
    BY <1>2, <2>1, <2>2 DEF QuietRows, MirrorInv, MirrorTypeOK
  <2>3. VerdictsStand /\ Ends(t)
    BY <1>5 DEF ReviewSaves, VerdictsStand, MirrorInv, MirrorTypeOK
  <2> QED
    BY <2>3, <2>4, QuietEnd
<1> QED
  BY <1>3, <1>4, <1>5 DEF ReviewRecords

(***************************************************************************)
(* Steps that write a workflow_status or a handover.                       *)
(***************************************************************************)

\* HandoverInStep, AgreedByBoth and Proposed, of one claim.
InStep(w, h) ==
    /\ w = "handover_proposed" => h.status = "proposed"
    /\ w = "handover_scheduled" => h.status = "accepted" /\ ~h.delivered
    /\ w = "finder_delivered" => h.status = "accepted" /\ h.delivered
    /\ w \in {"awaiting_review", "more_info_requested"} => h.status \in {"none", "cancelled"}

Agreed(h) ==
    /\ h.status = "accepted" => {h.proposed_by, h.accepted_by} = Parties
    /\ h.delivered => h.status = "accepted"
    /\ h.status = "proposed" => h.proposed_by \in Parties

LEMMA RowsByClaim ==
    RowsOK <=> /\ \A c \in Claims : InStep(claim_row[c].workflow_status, handover[c])
               /\ \A c \in Claims : Agreed(handover[c])
               /\ VerdictsAreReal
<1> QED
  BY DEF RowsOK, HandoverInStep, AgreedByBoth, Proposed, InStep, Agreed

\* A request that writes and ends.
LEMMA WritingEnd ==
    ASSUME MirrorInv, UNCHANGED chain, NEW t \in Sessions, Ends(t), OthersKeep(t),
           claim_row' \in [Claims -> ClaimRow], handover' \in [Claims -> Handover],
           RowsOK'
    PROVE  MirrorInv'
<1>1. VerdictsStand
  BY DEF MirrorInv, MirrorTypeOK, VerdictsStand
<1>2. Moves(t, Idle) /\ Fits(Idle, chain', claim_row')
  BY Ending, IdleFits DEF MirrorInv
<1>3. session' \in [Sessions -> Session] /\ SessionsFit' /\ Exclusive'
  BY <1>1, <1>2, SessionsStillFit DEF MirrorInv
<1> QED
  BY <1>1, <1>3 DEF MirrorInv, MirrorTypeOK, VerdictsStand

\* When a transaction has all its locks, it has its claim's; a workflow action
\* saw what the row says.
LEMMA ReadyHolds ==
    ASSUME MirrorInv, NEW t \in Sessions, NEW call \in {"apply", "sync"}, Ready(t, call)
    PROVE  /\ session[t].claim \in Claims \cap session[t].held
           /\ call = "apply" =>
                 /\ session[t].seen = claim_row[session[t].claim].workflow_status
                 /\ session[t].actor \in Parties
           /\ call = "sync" /\ session[t].chain_claim = "Settled" /\ Exists(session[t].claim) =>
                 OpenSiblings(session[t].claim) \subseteq session[t].held
<1>1. Fits(session[t], chain, claim_row) /\ session[t].call = call /\ session[t].step = "lock"
  BY DEF MirrorInv, SessionsFit, Ready
<1>2. session[t].claim \in Claims
  BY <1>1 DEF Fits
<1>3. session[t].claim \in session[t].held /\ BountyRow \in session[t].held
  BY <1>1 DEF Ready, Wanted
<1>4. call = "sync" /\ session[t].chain_claim = "Settled" /\ Exists(session[t].claim) =>
        OpenSiblings(session[t].claim) \ session[t].held = {}
  BY <1>1, <1>3 DEF Ready, Wanted
<1> QED
  BY <1>1, <1>2, <1>3, <1>4 DEF Fits

LEMMA SyncReadsKeepInv ==
    ASSUME MirrorInv, NEW t \in Sessions, SyncReadsClaim(t) \/ SyncWritesBounty(t)
    PROVE  MirrorInv'
<1>1. CASE SyncWritesBounty(t)
  <2>1. QuietRows /\ VerdictsStand /\ Ends(t)
    BY <1>1 DEF SyncWritesBounty, QuietRows, VerdictsStand, MirrorInv, MirrorTypeOK
  <2> QED
    BY <2>1, QuietEnd
<1>2. CASE SyncReadsClaim(t)
  <2> DEFINE s == session[t]
             c == s.claim
             x == [s EXCEPT !.chain_claim = chain[c],
                            !.step = IF chain[c] = "Absent" THEN "write" ELSE "lock"]
  <2>1. s \in Session /\ Fits(s, chain, claim_row) /\ s.call = "sync" /\ s.step = "read"
    BY <1>2 DEF SyncReadsClaim, MirrorInv, MirrorTypeOK, SessionsFit
  <2>2. c \in Claims /\ s.held = {} /\ chain[c] \in ChainStatus
    BY <2>1 DEF Fits, MirrorInv, MirrorTypeOK
  <2>3. x \in Session /\ x.held = {} /\ Fits(x, chain, claim_row)
    BY <2>1, <2>2 DEF Session, Fits
  <2>4. session' = [session EXCEPT ![t] = x] /\ UNCHANGED <<chain, rows>>
    BY <1>2, <2>1 DEF SyncReadsClaim, MirrorInv, MirrorTypeOK, Session
  <2>5. Moves(t, x) /\ Fits(x, chain', claim_row')
    BY <2>3, <2>4 DEF Moves, rows
  <2> HIDE DEF x
  <2> QED
    BY <2>4, <2>5, Unread, QuietStep DEF MirrorInv
<1> QED
  BY <1>1, <1>2

\* What toDbStatus and Mirrored make of a claim's status.
LEMMA MirroredRow ==
    ASSUME NEW s \in ChainStatus, NEW row \in ClaimRow
    PROVE  /\ Mirrored(row, s) \in ClaimRow
           /\ Mirrored(row, s).workflow_status =
                 IF s \in {"Settled", "Rejected", "RejectionPending", "Disputed"}
                 THEN toDbStatus[s] ELSE row.workflow_status
<1> DEFINE w == IF s \in {"Settled", "Rejected", "RejectionPending", "Disputed"}
                THEN toDbStatus[s] ELSE row.workflow_status
<1>1. toDbStatus[s] \in DbStatus
  BY DEF ChainStatus, DbStatus, toDbStatus
<1>2. s \in {"Settled", "Rejected", "RejectionPending", "Disputed"} =>
        toDbStatus[s] \in {"settled", "rejected", "rejection_pending", "disputed"}
  BY DEF toDbStatus
<1>3. w \in WorkflowStatus
  BY <1>2 DEF ClaimRow, WorkflowStatus
<1>4. w = IF toWorkflowStatus(s) = "" THEN row.workflow_status ELSE toWorkflowStatus(s)
  BY <1>2 DEF toWorkflowStatus
<1>5. Mirrored(row, s) = [row EXCEPT !.status = toDbStatus[s], !.workflow_status = w]
  BY <1>4 DEF Mirrored, ClaimRow
<1> HIDE DEF w
<1>6. Mirrored(row, s) \in ClaimRow /\ Mirrored(row, s).workflow_status = w
  BY <1>1, <1>3, <1>5 DEF ClaimRow
<1> QED
  BY <1>6 DEF w

\* Where a mirror update changes a workflow_status, it writes what the chain
\* said when it was read, and verdicts do not change; it holds every row it
\* writes.
LEMMA SyncKeepsInv ==
    ASSUME MirrorInv, NEW t \in Sessions, SyncClaimChainState(t)
    PROVE  MirrorInv'
<1> DEFINE c == session[t].claim
           s == session[t].chain_claim
           siblings == IF s = "Settled" THEN OpenSiblings(c) ELSE {}
<1>1. Ready(t, "sync") /\ Ends(t) /\ UNCHANGED chain
  BY DEF SyncClaimChainState
<1>2. /\ c \in Claims \cap session[t].held
      /\ Exists(c) => siblings \subseteq session[t].held
  BY <1>1, ReadyHolds
<1>3. s \in ChainStatus /\ (s \in {"Settled", "Rejected"} => chain[c] = s)
  BY <1>1 DEF Ready, MirrorInv, MirrorTypeOK, Session, SessionsFit, Fits
<1>4. CASE ~Exists(c)
  <2>1. UNCHANGED rows
    BY <1>4 DEF SyncClaimChainState
  <2> QED
    BY <1>1, <2>1, Unread, QuietEnd DEF MirrorInv
<1>5. CASE Exists(c)
  <2>1. /\ claim_row' = [g \in Claims |->
              IF g = c THEN Mirrored(claim_row[c], s)
              ELSE IF g \in siblings THEN [claim_row[g] EXCEPT !.workflow_status = "rejected"]
              ELSE claim_row[g]]
        /\ handover' = [handover EXCEPT
              ![c].received = @ \/ (s = "Settled" /\ handover[c].status # "none")]
    BY <1>5 DEF SyncClaimChainState
  <2>2. /\ Mirrored(claim_row[c], s) \in ClaimRow
        /\ Mirrored(claim_row[c], s).workflow_status =
              IF s \in {"Settled", "Rejected", "RejectionPending", "Disputed"}
              THEN toDbStatus[s] ELSE claim_row[c].workflow_status
    <3>1. claim_row[c] \in ClaimRow
      BY <1>2 DEF MirrorInv, MirrorTypeOK
    <3> HIDE DEF c, s
    <3> QED
      BY <1>3, <3>1, MirroredRow
  <2>3. \A g \in siblings : /\ g \in Claims \ {c} /\ s = "Settled"
                           /\ [claim_row[g] EXCEPT !.workflow_status = "rejected"] \in ClaimRow
                           /\ [claim_row[g] EXCEPT !.workflow_status = "rejected"].workflow_status
                                 = "rejected"
    BY DEF OpenSiblings, MirrorInv, MirrorTypeOK, ClaimRow, WorkflowStatus
  <2>4. \A g \in Claims :
          /\ handover'[g] \in Handover
          /\ handover'[g].status = handover[g].status
          /\ handover'[g].proposed_by = handover[g].proposed_by
          /\ handover'[g].accepted_by = handover[g].accepted_by
          /\ handover'[g].delivered = handover[g].delivered
          /\ handover'[g].received => handover[g].received \/ (g = c /\ s = "Settled")
    BY <1>2, <2>1 DEF MirrorInv, MirrorTypeOK, Handover
  <2>5. handover' \in [Claims -> Handover]
    BY <2>1, <2>4 DEF MirrorInv, MirrorTypeOK
  <2> HIDE DEF siblings, c, s
  <2>6. claim_row' \in [Claims -> ClaimRow]
    BY <2>1, <2>2, <2>3 DEF MirrorInv, MirrorTypeOK
  <2>7. \A g \in Claims :
          \/ claim_row'[g].workflow_status = claim_row[g].workflow_status
          \/ /\ g = c /\ s \in {"Settled", "Rejected", "RejectionPending", "Disputed"}
             /\ claim_row'[g].workflow_status = toDbStatus[s]
          \/ /\ g \in siblings
             /\ claim_row'[g].workflow_status = "rejected"
    BY <1>2, <2>1, <2>2, <2>3
  <2>8. \A g \in Claims : claim_row'[g].workflow_status # claim_row[g].workflow_status =>
          claim_row'[g].workflow_status
            \in {"settled", "rejected", "rejection_pending", "disputed"}
    BY <2>7 DEF toDbStatus
  <2>9. \A g \in Claims : InStep(claim_row'[g].workflow_status, handover'[g])
    BY <2>4, <2>8, RowsByClaim DEF InStep, MirrorInv
  <2>10. \A g \in Claims : Agreed(handover'[g])
    BY <2>4, RowsByClaim DEF Agreed, MirrorInv
  <2>11. VerdictsAreReal'
    <3>1. ASSUME NEW g \in Claims
          PROVE  /\ claim_row'[g].workflow_status = "settled" => chain[g] = "Settled"
                 /\ claim_row'[g].workflow_status = "rejected" =>
                       chain[g] = "Rejected" \/ \E k \in Claims \ {g} : chain[k] = "Settled"
      <4>1. CASE claim_row'[g].workflow_status = claim_row[g].workflow_status
        BY <4>1 DEF MirrorInv, RowsOK, VerdictsAreReal
      <4>2. CASE g = c /\ s \in {"Settled", "Rejected", "RejectionPending", "Disputed"}
                 /\ claim_row'[g].workflow_status = toDbStatus[s]
        BY <1>3, <4>2 DEF toDbStatus
      <4>3. CASE g \in siblings /\ claim_row'[g].workflow_status = "rejected"
        BY <1>2, <1>3, <2>3, <4>3
      <4> QED
        BY <2>7, <4>1, <4>2, <4>3
    <3>2. \A g \in Claims : handover'[g].received => chain[g] = "Settled"
      BY <1>3, <2>4 DEF MirrorInv, RowsOK, VerdictsAreReal
    <3> QED
      BY <1>1, <3>1, <3>2 DEF VerdictsAreReal
  <2>12. RowsOK'
    BY <2>9, <2>10, <2>11 DEF RowsOK, HandoverInStep, AgreedByBoth, Proposed, InStep, Agreed
  <2>13. OthersKeep(t)
    <3> SUFFICES ASSUME NEW u \in Sessions \ {t}, NEW g \in Claims \cap session[u].held
                 PROVE  claim_row'[g].workflow_status = claim_row[g].workflow_status
      BY DEF OthersKeep
    <3>1. g \notin session[t].held
      BY DEF MirrorInv, Exclusive
    <3> QED
      BY <1>2, <1>5, <2>7, <3>1
  <2> QED
    BY <1>1, <2>5, <2>6, <2>12, <2>13, WritingEnd
<1> QED
  BY <1>4, <1>5

\* A workflow action commits next as the claim's status and h as its handover:
\* the two must agree with each other, and h must be a handover both sides
\* agreed to, if it is one.
LEMMA CommitKeepsInv ==
    ASSUME MirrorInv, NEW t \in Sessions, Ready(t, "apply"),
           NEW next \in WorkflowStatus, NEW h \in Handover, Commits(t, next, h),
           next \in {"settled", "rejected"} => next = session[t].seen,
           h.received => Row(t).received,
           InStep(next, h), Agreed(h)
    PROVE  MirrorInv'
<1> DEFINE c == session[t].claim
<1>1. /\ c \in Claims \cap session[t].held
      /\ session[t].seen = claim_row[c].workflow_status
  BY ReadyHolds
<1>2. /\ handover' = [handover EXCEPT ![c] = h]
      /\ Ends(t) /\ UNCHANGED chain
  BY DEF Commits
<1>3. claim_row' = IF next = session[t].seen THEN claim_row
                   ELSE [claim_row EXCEPT ![c].workflow_status = next]
  BY DEF Commits
<1>4. h.received => handover[c].received
  BY DEF Row
<1> HIDE DEF c
<1>5. claim_row' \in [Claims -> ClaimRow] /\ handover' \in [Claims -> Handover]
  BY <1>1, <1>2, <1>3 DEF MirrorInv, MirrorTypeOK, ClaimRow
<1>6. \A g \in Claims : claim_row'[g].workflow_status =
                          IF g = c THEN next ELSE claim_row[g].workflow_status
  BY <1>1, <1>3 DEF MirrorInv, MirrorTypeOK, ClaimRow
<1>7. \A g \in Claims : handover'[g] = IF g = c THEN h ELSE handover[g]
  BY <1>1, <1>2 DEF MirrorInv, MirrorTypeOK
<1>8. \A g \in Claims : /\ InStep(claim_row'[g].workflow_status, handover'[g])
                       /\ Agreed(handover'[g])
  BY <1>6, <1>7, RowsByClaim DEF MirrorInv
<1>9. VerdictsAreReal'
  BY <1>1, <1>2, <1>4, <1>6, <1>7 DEF MirrorInv, RowsOK, VerdictsAreReal
<1>10. RowsOK'
  BY <1>8, <1>9 DEF RowsOK, HandoverInStep, AgreedByBoth, Proposed, InStep, Agreed
<1>11. OthersKeep(t)
  BY <1>1, <1>6 DEF OthersKeep, MirrorInv, Exclusive
<1> QED
  BY <1>2, <1>5, <1>10, <1>11, WritingEnd

LEMMA WorkflowKeepsInv ==
    ASSUME MirrorInv, NEW t \in Sessions, ApplyClaimWorkflowAction(t)
    PROVE  MirrorInv'
<1> DEFINE c == session[t].claim
           w == session[t].seen
           h == Row(t)
<1>1. CASE Refused(t)
  BY <1>1, RollbackKeepsInv
<1> SUFFICES ASSUME Ready(t, "apply"), OpenFor(t)
             PROVE  MirrorInv'
  BY <1>1 DEF ApplyClaimWorkflowAction, SendMessage, RequestInfo, ProposeHandover,
              AcceptHandover, CancelHandover, MarkDelivered, Asks
<1>2. /\ c \in Claims /\ session[t].actor \in Parties
      /\ w = claim_row[c].workflow_status
  BY ReadyHolds
<1>3. w \in WorkflowStatus /\ h \in Handover
  BY <1>2 DEF MirrorInv, MirrorTypeOK, ClaimRow, Row
<1>4. InStep(w, h) /\ Agreed(h)
  BY <1>2, RowsByClaim DEF MirrorInv, Row
<1>5. CASE SendMessage(t)
  BY <1>3, <1>4, <1>5, CommitKeepsInv DEF SendMessage
<1>6. CASE RequestInfo(t)
  <2>1. h.status \in {"none", "cancelled"}
    BY <1>4, <1>6 DEF RequestInfo, MayRequestInfo, Arrangeable, InStep
  <2>2. InStep("more_info_requested", h) /\ "more_info_requested" \in WorkflowStatus
    BY <2>1 DEF InStep, WorkflowStatus
  <2> QED
    BY <1>3, <1>4, <1>6, <2>2, CommitKeepsInv DEF RequestInfo
<1>7. CASE ProposeHandover(t)
  <2> PICK near \in BOOLEAN :
         Commits(t, "handover_proposed",
                 [NoHandover EXCEPT !.status = "proposed",
                                    !.proposed_by = session[t].actor, !.near = near])
    BY <1>7 DEF ProposeHandover
  <2> DEFINE k == [NoHandover EXCEPT !.status = "proposed",
                                     !.proposed_by = session[t].actor, !.near = near]
  <2>1. /\ k \in Handover
        /\ InStep("handover_proposed", k) /\ Agreed(k) /\ ~k.received
        /\ "handover_proposed" \in WorkflowStatus
    BY <1>2 DEF NoHandover, Handover, InStep, Agreed, WorkflowStatus
  <2> HIDE DEF k
  <2>2. Commits(t, "handover_proposed", k)
    BY DEF k
  <2> QED
    BY <2>1, <2>2, CommitKeepsInv
<1>8. CASE AcceptHandover(t)
  <2> DEFINE k == [h EXCEPT !.status = "accepted", !.accepted_by = session[t].actor]
  <2>1. h.status = "proposed" /\ h.proposed_by # session[t].actor
    BY <1>8 DEF AcceptHandover, MayAccept
  <2>2. h.proposed_by \in Parties /\ ~h.delivered
    BY <1>4, <2>1 DEF Agreed
  <2>3. k \in Handover /\ k.status = "accepted" /\ k.delivered = h.delivered
          /\ k.received = h.received /\ k.proposed_by = h.proposed_by
          /\ k.accepted_by = session[t].actor
    BY <1>2, <1>3 DEF Handover
  <2>4. {k.proposed_by, k.accepted_by} = Parties
    BY <1>2, <2>1, <2>2, <2>3 DEF Parties
  <2>5. InStep("handover_scheduled", k) /\ Agreed(k) /\ "handover_scheduled" \in WorkflowStatus
    BY <2>2, <2>3, <2>4 DEF InStep, Agreed, WorkflowStatus
  <2> QED
    BY <1>8, <2>3, <2>5, CommitKeepsInv DEF AcceptHandover
<1>9. CASE CancelHandover(t)
  <2> DEFINE k == [h EXCEPT !.status = "cancelled"]
  <2>1. ~h.delivered
    BY <1>9 DEF CancelHandover, MayCancel
  <2>2. k \in Handover /\ k.status = "cancelled" /\ ~k.delivered /\ k.received = h.received
    BY <1>3, <2>1 DEF Handover
  <2>3. InStep("awaiting_review", k) /\ Agreed(k) /\ "awaiting_review" \in WorkflowStatus
    BY <2>2 DEF InStep, Agreed, WorkflowStatus
  <2> QED
    BY <1>9, <2>2, <2>3, CommitKeepsInv DEF CancelHandover
<1>10. CASE MarkDelivered(t)
  <2> DEFINE k == [h EXCEPT !.delivered = TRUE]
  <2>1. h.status = "accepted"
    BY <1>10 DEF MarkDelivered, MayMarkDelivered
  <2>2. k \in Handover /\ k.status = "accepted" /\ k.delivered /\ k.received = h.received
          /\ k.proposed_by = h.proposed_by /\ k.accepted_by = h.accepted_by
    BY <1>3, <2>1 DEF Handover
  <2>3. InStep("finder_delivered", k) /\ Agreed(k) /\ "finder_delivered" \in WorkflowStatus
    BY <1>4, <2>1, <2>2 DEF InStep, Agreed, WorkflowStatus
  <2> QED
    BY <1>10, <2>2, <2>3, CommitKeepsInv DEF MarkDelivered
<1> QED
  BY <1>1, <1>5, <1>6, <1>7, <1>8, <1>9, <1>10 DEF ApplyClaimWorkflowAction

(***************************************************************************)
(* The theorems.                                                           *)
(***************************************************************************)

\* Nothing has happened: no claim, no row, no request.
LEMMA MirrorInit ==
    ASSUME Init
    PROVE  MirrorInv
<1>1. /\ chain = [c \in Claims |-> "Absent"]
      /\ claim_row = [c \in Claims |-> NoClaimRow]
      /\ handover = [c \in Claims |-> NoHandover]
      /\ session = [t \in Sessions |-> Idle]
  BY DEF Init, LifecycleInit
<1>2. "Absent" \in ChainStatus /\ NoClaimRow \in ClaimRow /\ NoHandover \in Handover
  BY DEF ChainStatus, NoClaimRow, ClaimRow, DbStatus, WorkflowStatus, NoHandover, Handover
<1>3. MirrorTypeOK
  BY <1>1, <1>2, IdleFits DEF MirrorTypeOK
<1>4. SessionsFit /\ Exclusive
  BY <1>1, IdleFits DEF SessionsFit, Exclusive
<1>5. RowsOK
  BY <1>1 DEF RowsOK, HandoverInStep, AgreedByBoth, Proposed, VerdictsAreReal,
              NoClaimRow, NoHandover
<1> QED
  BY <1>3, <1>4, <1>5 DEF MirrorInv

\* Every step, one lemma for each kind.
LEMMA MirrorStep ==
    ASSUME MirrorInv, [Next]_vars
    PROVE  MirrorInv'
<1>1. CASE UNCHANGED vars
  BY <1>1 DEF vars, rows, MirrorInv, MirrorTypeOK, SessionsFit, Exclusive, RowsOK,
              HandoverInStep, AgreedByBoth, Proposed, VerdictsAreReal
<1>2. CASE ChainMoves
  BY <1>2, ChainMovesKeepInv
<1>3. CASE \E c \in Claims : MeetingNears(c)
  BY <1>3, MeetingNearsKeepsInv
<1>4. ASSUME NEW t \in Sessions, SessionStep(t)
      PROVE  MirrorInv'
  BY <1>4, LockKeepsInv, RollbackKeepsInv, WorkflowKeepsInv, SyncReadsKeepInv, SyncKeepsInv,
     UploadKeepsInv, ReviewKeepsInv DEF SessionStep
<1>5. ASSUME NEW t \in Sessions, Dies(t)
      PROVE  MirrorInv'
  BY <1>5, RollbackKeepsInv
<1>6. ASSUME NEW t \in Sessions, NEW c \in Claims, Starts(t, c)
      PROVE  MirrorInv'
  BY <1>6, StartKeepsInv
<1> QED
  BY <1>1, <1>2, <1>3, <1>4, <1>5, <1>6 DEF Next

\* The invariant holds in every reachable state, with any number of requests
\* under way.
THEOREM MirrorInvariant == Spec => []MirrorInv
<1> QED
  BY MirrorInit, MirrorStep, PTL DEF Spec

\* However late a request writes what it read, the database shows no verdict
\* that the chain has not reached.
THEOREM VerdictsShownAreReal == Spec => []VerdictsAreReal
<1>1. MirrorInv => VerdictsAreReal
  BY DEF MirrorInv, RowsOK
<1> QED
  BY <1>1, MirrorInvariant, PTL

\* The claim's workflow_status and its handover, in two tables, agree while the
\* claim is open.
THEOREM HandoversStayInStep == Spec => []HandoverInStep
<1>1. MirrorInv => HandoverInStep
  BY DEF MirrorInv, RowsOK
<1> QED
  BY <1>1, MirrorInvariant, PTL

\* Appointments are agreed to by both sides and not called off after delivery.
THEOREM HandoversAreAgreed == Spec => []AgreedByBoth
<1>1. MirrorInv => AgreedByBoth
  BY DEF MirrorInv, RowsOK
<1> QED
  BY <1>1, MirrorInvariant, PTL

MessagesOK == messages \in [Claims -> Nat]

\* Messages are added by a workflow action that found its claim open.
LEMMA MessageStep ==
    ASSUME [Next]_vars
    PROVE  \/ messages' = messages
           \/ \E t \in Sessions :
                 /\ Ready(t, "apply") /\ OpenFor(t)
                 /\ messages' = [messages EXCEPT ![session[t].claim] = @ + 1]
<1>1. ASSUME NEW t \in Sessions, ApplyClaimWorkflowAction(t)
      PROVE  \/ messages' = messages
             \/ /\ Ready(t, "apply") /\ OpenFor(t)
                /\ messages' = [messages EXCEPT ![session[t].claim] = @ + 1]
  BY <1>1 DEF ApplyClaimWorkflowAction, SendMessage, RequestInfo, ProposeHandover,
              AcceptHandover, CancelHandover, MarkDelivered, Refused, Asks, Commits, rows
<1>2. ASSUME NEW t \in Sessions, SessionStep(t), ~ApplyClaimWorkflowAction(t)
      PROVE  messages' = messages
  BY <1>2 DEF SessionStep, Lock, DeadlockVictim, SyncReadsClaim, SyncWritesBounty,
              SyncClaimChainState, UploadReadsRow, UploadUpserts, ReviewRecords, ReviewSaves, rows
<1>3. ASSUME NEW t \in Sessions, NEW c \in Claims, Starts(t, c)
      PROVE  messages' = messages
  BY <1>3 DEF Starts, RequestAction, SyncReadsBounty, UploadReadsChain, ReviewReads, Asked, rows
<1>4. CASE UNCHANGED vars \/ ChainMoves \/ (\E c \in Claims : MeetingNears(c))
              \/ (\E t \in Sessions : Dies(t))
  BY <1>4 DEF vars, rows, ChainMoves, MeetingNears, Dies
<1> QED
  BY <1>1, <1>2, <1>3, <1>4 DEF Next

\* Nobody adds to a conversation that was closed by a request that committed
\* before: the status a workflow action saw is still there when it commits.
THEOREM ConversationsStayClosed == Spec => ClosedIsClosed
<1> DEFINE Adds == \A c \in Claims :
              messages'[c] # messages[c] => claim_row[c].workflow_status \notin Closed
<1>1. Init => MessagesOK
  BY DEF Init, MessagesOK
<1>2. ASSUME MirrorInv, MessagesOK, [Next]_vars
      PROVE  MessagesOK' /\ Adds
  <2>1. CASE messages' = messages
    BY <1>2, <2>1 DEF MessagesOK
  <2>2. ASSUME NEW t \in Sessions, Ready(t, "apply"), OpenFor(t),
               messages' = [messages EXCEPT ![session[t].claim] = @ + 1]
        PROVE  MessagesOK' /\ Adds
    <3>1. /\ session[t].claim \in Claims
          /\ session[t].seen = claim_row[session[t].claim].workflow_status
      BY <1>2, <2>2, ReadyHolds
    <3>2. session[t].seen \notin Closed
      BY <2>2 DEF OpenFor, Closed
    <3> QED
      BY <1>2, <2>2, <3>1, <3>2 DEF MessagesOK
  <2> QED
    BY <1>2, <2>1, <2>2, MessageStep
<1>3. Adds => [Adds]_vars
  OBVIOUS
<1> QED
  BY <1>1, <1>2, MirrorInvariant, PTL DEF Spec, ClosedIsClosed

\* Only a mirror update shows a settlement.
LEMMA ShowsSettlement ==
    ASSUME MirrorInv, [Next]_vars, NEW c \in Claims,
           claim_row[c].workflow_status # "settled", claim_row'[c].workflow_status = "settled"
    PROVE  \E t \in Sessions : SyncClaimChainState(t)
<1> SUFFICES ASSUME \A t \in Sessions : ~SyncClaimChainState(t)
             PROVE  FALSE
  OBVIOUS
<1>1. claim_row' # claim_row
  OBVIOUS
<1>2. PICK t \in Sessions : \/ ApplyClaimWorkflowAction(t) \/ UploadUpserts(t) \/ ReviewSaves(t)
  <2>1. ASSUME NEW t \in Sessions, SessionStep(t), ~ApplyClaimWorkflowAction(t),
               ~UploadUpserts(t), ~ReviewSaves(t)
        PROVE  claim_row' = claim_row
    BY <2>1 DEF SessionStep, Lock, DeadlockVictim, SyncReadsClaim, SyncWritesBounty,
                UploadReadsRow, ReviewRecords, rows
  <2>2. ASSUME NEW t \in Sessions, NEW d \in Claims, Starts(t, d)
        PROVE  claim_row' = claim_row
    BY <2>2 DEF Starts, RequestAction, SyncReadsBounty, UploadReadsChain, ReviewReads, Asked, rows
  <2>3. ASSUME UNCHANGED vars \/ ChainMoves \/ (\E d \in Claims : MeetingNears(d))
                  \/ (\E t \in Sessions : Dies(t))
        PROVE  claim_row' = claim_row
    BY <2>3 DEF vars, rows, ChainMoves, MeetingNears, Dies
  <2> QED
    BY <1>1, <2>1, <2>2, <2>3 DEF Next
<1>3. CASE UploadUpserts(t) \/ ReviewSaves(t)
  <2>1. claim_row \in [Claims -> ClaimRow]
    BY DEF MirrorInv, MirrorTypeOK
  <2>2. PICK row :
          /\ claim_row' = [claim_row EXCEPT ![session[t].claim] = row]
          /\ session[t].claim \in Claims =>
               row.workflow_status = claim_row[session[t].claim].workflow_status
    <3>1. CASE UploadUpserts(t)
      BY <3>1, <2>1 DEF UploadUpserts, Upserted, ClaimRow
    <3>2. CASE ReviewSaves(t)
      BY <3>2, <2>1 DEF ReviewSaves, ClaimRow
    <3> QED
      BY <1>3, <3>1, <3>2
  <2> QED
    BY <2>1, <2>2
<1>4. CASE ApplyClaimWorkflowAction(t)
  <2>1. PICK next \in {"more_info_requested", "handover_proposed", "handover_scheduled",
                       "awaiting_review", "finder_delivered", session[t].seen} :
          claim_row' = IF next = session[t].seen THEN claim_row
                       ELSE [claim_row EXCEPT ![session[t].claim].workflow_status = next]
    BY <1>1, <1>4
       DEF ApplyClaimWorkflowAction, SendMessage, RequestInfo, ProposeHandover,
           AcceptHandover, CancelHandover, MarkDelivered, Refused, Commits, rows
  <2> QED
    BY <2>1 DEF MirrorInv, MirrorTypeOK, ClaimRow
<1> QED
  BY <1>2, <1>3, <1>4

\* The mirror of a settlement closes the conversations of all other claims.
THEOREM SettlementsCloseSiblings == Spec => SettlementClosesSiblings
<1> DEFINE Closes == \A c \in Claims :
              claim_row[c].workflow_status # "settled" /\ claim_row'[c].workflow_status = "settled"
                => \A g \in Claims \ {c} :
                      Exists(g) => claim_row'[g].workflow_status \in {"settled", "rejected"}
<1>1. ASSUME MirrorInv, [Next]_vars
      PROVE  Closes
  <2> SUFFICES ASSUME NEW c \in Claims,
                      claim_row[c].workflow_status # "settled",
                      claim_row'[c].workflow_status = "settled",
                      NEW g \in Claims \ {c}, Exists(g)
               PROVE  claim_row'[g].workflow_status \in {"settled", "rejected"}
    OBVIOUS
  <2>1. PICK t \in Sessions : SyncClaimChainState(t)
    BY <1>1, ShowsSettlement
  <2> DEFINE d == session[t].claim
             s == session[t].chain_claim
             siblings == IF s = "Settled" THEN OpenSiblings(d) ELSE {}
  <2>2. claim_row' = [k \in Claims |->
            IF k = d THEN Mirrored(claim_row[d], s)
            ELSE IF k \in siblings THEN [claim_row[k] EXCEPT !.workflow_status = "rejected"]
            ELSE claim_row[k]]
    BY <2>1 DEF SyncClaimChainState, rows
  <2>3. s \in ChainStatus /\ claim_row[d] \in ClaimRow /\ claim_row[g] \in ClaimRow
          /\ claim_row[c] \in ClaimRow
    <3>1. d \in Claims
      BY <1>1, <2>1, ReadyHolds DEF SyncClaimChainState
    <3> QED
      BY <1>1, <3>1 DEF MirrorInv, MirrorTypeOK, Session
  <2> HIDE DEF d, s
  <2>4. c = d /\ s = "Settled"
    <3>1. c \in siblings => claim_row'[c].workflow_status = "rejected"
      BY <2>2, <2>3 DEF OpenSiblings, ClaimRow
    <3>2. c = d
      BY <2>2, <3>1
    <3>3. Mirrored(claim_row[d], s).workflow_status = "settled"
      BY <2>2, <3>2
    <3> QED
      BY <2>3, <3>2, <3>3, MirroredRow DEF toDbStatus
  <2>5. CASE g \in siblings
    BY <2>2, <2>3, <2>4, <2>5 DEF OpenSiblings, ClaimRow
  <2>6. CASE g \notin siblings
    BY <2>2, <2>3, <2>4, <2>6 DEF OpenSiblings, OpenWorkflows, ClaimRow
  <2> QED
    BY <2>5, <2>6
<1> QED
  BY <1>1, MirrorInvariant, PTL DEF Spec, SettlementClosesSiblings

(***************************************************************************)
(* Uploads.  An upload reads the row of its claim and writes it later, in  *)
(* two statements: what it read decides what it leaves alone.              *)
(***************************************************************************)

\* The part of the rows that an upload writes.
Unwritten ==
    \A c \in Claims : /\ claim_row'[c].status = claim_row[c].status
                      /\ claim_row'[c].ai_report = claim_row[c].ai_report

\* Nothing but uploads, reviews and mirror updates writes a claim's status or
\* its report.
LEMMA WritersOfStatus ==
    ASSUME MirrorInv, [Next]_vars
    PROVE  \/ Unwritten
           \/ \E t \in Sessions : UploadUpserts(t) \/ ReviewSaves(t) \/ SyncClaimChainState(t)
<1>1. CASE claim_row' = claim_row
  BY <1>1 DEF Unwritten
<1>2. ASSUME NEW t \in Sessions, ApplyClaimWorkflowAction(t)
      PROVE  Unwritten
  <2>1. PICK next : \/ claim_row' = claim_row
                    \/ claim_row' = [claim_row EXCEPT ![session[t].claim].workflow_status = next]
    BY <1>2
       DEF ApplyClaimWorkflowAction, SendMessage, RequestInfo, ProposeHandover,
           AcceptHandover, CancelHandover, MarkDelivered, Refused, Commits, rows
  <2> QED
    BY <2>1 DEF MirrorInv, MirrorTypeOK, ClaimRow, Unwritten
<1>3. ASSUME NEW t \in Sessions, SessionStep(t), ~ApplyClaimWorkflowAction(t),
             ~UploadUpserts(t), ~ReviewSaves(t), ~SyncClaimChainState(t)
      PROVE  claim_row' = claim_row
  BY <1>3 DEF SessionStep, Lock, DeadlockVictim, SyncReadsClaim, SyncWritesBounty,
              UploadReadsRow, ReviewRecords, rows
<1>4. ASSUME NEW t \in Sessions, NEW d \in Claims, Starts(t, d)
      PROVE  claim_row' = claim_row
  BY <1>4 DEF Starts, RequestAction, SyncReadsBounty, UploadReadsChain, ReviewReads, Asked, rows
<1>5. ASSUME UNCHANGED vars \/ ChainMoves \/ (\E d \in Claims : MeetingNears(d))
                \/ (\E t \in Sessions : Dies(t))
      PROVE  claim_row' = claim_row
  BY <1>5 DEF vars, rows, ChainMoves, MeetingNears, Dies
<1> QED
  BY <1>1, <1>2, <1>3, <1>4, <1>5 DEF Next

\* A mirror update that has an account to show locks rows, any other does not.
Found ==
    \A t \in Sessions :
        session[t].call = "sync" /\ session[t].step = "lock" => session[t].chain_claim # "Absent"

\* Only a claim that has a row has a report.
Reported == \A c \in Claims : claim_row[c].ai_report => Exists(c)

\* A step of one request leaves the others where they were.
LEMMA FoundStill ==
    ASSUME MirrorInv, Found, NEW t \in Sessions, NEW x, session' = [session EXCEPT ![t] = x],
           x.call = "sync" /\ x.step = "lock" => x.chain_claim # "Absent"
    PROVE  Found'
BY DEF Found, MirrorInv, MirrorTypeOK

\* What a request asks for, before it has read anything.
LEMMA FoundStart ==
    ASSUME MirrorInv, Found, NEW t \in Sessions, NEW c \in Claims, Starts(t, c)
    PROVE  Found'
<1>1. ASSUME NEW actor \in Parties, NEW action \in ActionsAsked, RequestAction(t, c, actor, action)
      PROVE  Found'
  <2> DEFINE x == [Idle EXCEPT !.call = "apply", !.step = "lock", !.claim = c,
                               !.actor = actor, !.action = action]
  <2>1. x.call = "apply"
    BY DEF Idle
  <2>2. session' = [session EXCEPT ![t] = x]
    BY <1>1 DEF RequestAction, Asked
  <2> HIDE DEF x
  <2> QED
    BY <2>1, <2>2, FoundStill
<1>2. ASSUME NEW d \in {c, NoRow}, SyncReadsBounty(t, d)
      PROVE  Found'
  <2> DEFINE x == [Idle EXCEPT !.call = "sync",
                               !.step = IF d = NoRow THEN "write" ELSE "read",
                               !.claim = d, !.chain_bounty = BountyOnChain]
  <2>1. x.step # "lock"
    BY DEF Idle
  <2>2. session' = [session EXCEPT ![t] = x]
    BY <1>2 DEF SyncReadsBounty
  <2> HIDE DEF x
  <2> QED
    BY <2>1, <2>2, FoundStill
<1>3. ASSUME NEW call \in {"upload", "review"}, NEW step \in {"read", "record"},
             Asked(t, [Idle EXCEPT !.call = call, !.step = step, !.claim = c])
      PROVE  Found'
  <2> DEFINE x == [Idle EXCEPT !.call = call, !.step = step, !.claim = c]
  <2>1. x.step # "lock"
    BY DEF Idle
  <2>2. session' = [session EXCEPT ![t] = x]
    BY <1>3 DEF Asked
  <2> HIDE DEF x
  <2> QED
    BY <2>1, <2>2, FoundStill
<1> QED
  BY <1>1, <1>2, <1>3 DEF Starts, UploadReadsChain, ReviewReads

\* A mirror update that locked rows has read a status to show.
LEMMA FoundStep ==
    ASSUME MirrorInv, Found, [Next]_vars
    PROVE  Found'
<1>1. ASSUME NEW t \in Sessions, Ends(t)
      PROVE  Found'
  BY <1>1, FoundStill DEF Ends, Idle
<1>2. ASSUME session' = session
      PROVE  Found'
  BY <1>2 DEF Found
<1>3. ASSUME NEW t \in Sessions, SessionStep(t)
      PROVE  Found'
  <2> DEFINE s == session[t]
  <2>1. s \in Session /\ (s.call = "sync" /\ s.step = "lock" => s.chain_claim # "Absent")
    BY DEF MirrorInv, MirrorTypeOK, Found
  <2>2. CASE Lock(t)
    <3>1. PICK held, seen : session' = [session EXCEPT ![t] =
                                           [s EXCEPT !.held = held, !.seen = seen]]
      BY <2>2 DEF Lock, MirrorInv, MirrorTypeOK
    <3> DEFINE x == [s EXCEPT !.held = held, !.seen = seen]
    <3>2. x.call = s.call /\ x.step = s.step /\ x.chain_claim = s.chain_claim
      BY <2>1 DEF Session
    <3> HIDE DEF x
    <3>3. session' = [session EXCEPT ![t] = x]
      BY <3>1 DEF x
    <3> QED
      BY <2>1, <3>2, <3>3, FoundStill
  <2>3. CASE SyncReadsClaim(t)
    <3> DEFINE x == [s EXCEPT !.chain_claim = chain[s.claim],
                              !.step = IF chain[s.claim] = "Absent" THEN "write" ELSE "lock"]
    <3>1. x.step = "lock" => x.chain_claim # "Absent"
      BY <2>1 DEF Session
    <3>2. session' = [session EXCEPT ![t] = x]
      BY <2>3 DEF SyncReadsClaim, MirrorInv, MirrorTypeOK
    <3> HIDE DEF x
    <3> QED
      BY <3>1, <3>2, FoundStill
  <2>4. CASE UploadReadsRow(t)
    <3> DEFINE x == [s EXCEPT !.existing = ExistingRow(s.claim), !.step = "write"]
    <3>1. x.step = "write"
      BY <2>1 DEF Session
    <3>2. session' = [session EXCEPT ![t] = x]
      BY <2>4 DEF UploadReadsRow, MirrorInv, MirrorTypeOK
    <3> HIDE DEF x
    <3> QED
      BY <3>1, <3>2, FoundStill
  <2>5. CASE ReviewRecords(t)
    <3>1. CASE Ends(t)
      BY <1>1, <3>1
    <3>2. CASE Continues(t, "write")
      <4> DEFINE x == [s EXCEPT !.step = "write"]
      <4>1. x.step = "write"
        BY <2>1 DEF Session
      <4>2. session' = [session EXCEPT ![t] = x]
        BY <3>2 DEF Continues, MirrorInv, MirrorTypeOK
      <4> HIDE DEF x
      <4> QED
        BY <4>1, <4>2, FoundStill
    <3> QED
      BY <2>5, <3>1, <3>2 DEF ReviewRecords
  <2>6. CASE DeadlockVictim(t) \/ ApplyClaimWorkflowAction(t)
    <3>1. Ends(t)
      BY <2>6 DEF DeadlockVictim, ApplyClaimWorkflowAction, SendMessage, RequestInfo,
                  ProposeHandover, AcceptHandover, CancelHandover, MarkDelivered, Refused,
                  Commits
    <3> QED
      BY <1>1, <3>1
  <2>7. CASE SyncWritesBounty(t) \/ SyncClaimChainState(t) \/ UploadUpserts(t) \/ ReviewSaves(t)
    <3>1. Ends(t)
      BY <2>7 DEF SyncWritesBounty, SyncClaimChainState, UploadUpserts, ReviewSaves
    <3> QED
      BY <1>1, <3>1
  <2> HIDE DEF s
  <2> QED
    BY <1>3, <2>2, <2>3, <2>4, <2>5, <2>6, <2>7 DEF SessionStep
<1>4. ASSUME UNCHANGED vars \/ ChainMoves \/ \E c \in Claims : MeetingNears(c)
      PROVE  session' = session
  BY <1>4 DEF vars, ChainMoves, MeetingNears
<1>5. ASSUME NEW t \in Sessions, Dies(t)
      PROVE  Ends(t)
  BY <1>5 DEF Dies
<1> QED
  BY <1>1, <1>2, <1>3, <1>4, <1>5, FoundStart DEF Next

\* What a mirror update does to the rows of all claims.
LEMMA SyncedRows ==
    ASSUME NEW t \in Sessions, SyncClaimChainState(t), claim_row' # claim_row,
           NEW g \in Claims
    PROVE  claim_row'[g] \in IF g = session[t].claim
                             THEN {Mirrored(claim_row[g], session[t].chain_claim)}
                             ELSE {claim_row[g], [claim_row[g] EXCEPT !.workflow_status = "rejected"]}
<1> DEFINE c == session[t].claim
           s == session[t].chain_claim
           siblings == IF s = "Settled" THEN OpenSiblings(c) ELSE {}
<1>1. claim_row' = [k \in Claims |->
          IF k = c THEN Mirrored(claim_row[c], s)
          ELSE IF k \in siblings THEN [claim_row[k] EXCEPT !.workflow_status = "rejected"]
          ELSE claim_row[k]]
  BY DEF SyncClaimChainState, rows
<1> HIDE DEF c, s, siblings
<1>2. claim_row'[g] \in IF g = c THEN {Mirrored(claim_row[g], s)}
                        ELSE {claim_row[g], [claim_row[g] EXCEPT !.workflow_status = "rejected"]}
  BY <1>1
<1> QED
  BY <1>2 DEF c, s

\* No request leaves a report in a row that is not there.
LEMMA ReportedStep ==
    ASSUME MirrorInv, Found, Reported, [Next]_vars
    PROVE  Reported'
<1> USE DEF MirrorInv, MirrorTypeOK
<1>1. CASE Unwritten
  BY <1>1 DEF Reported, Unwritten, Exists
<1>2. ASSUME NEW t \in Sessions, UploadUpserts(t)
      PROVE  Reported'
  BY <1>2 DEF UploadUpserts, Upserted, Reported, Exists, ClaimRow
<1>3. ASSUME NEW t \in Sessions, ReviewSaves(t)
      PROVE  Reported'
  BY <1>3 DEF ReviewSaves, Reported, Exists, ClaimRow
<1>4. ASSUME NEW t \in Sessions, SyncClaimChainState(t)
      PROVE  Reported'
  <2> DEFINE c == session[t].claim
             s == session[t].chain_claim
  <2>1. s \in ChainStatus \ {"Absent"}
    BY <1>4 DEF SyncClaimChainState, Ready, Found, Session
  <2> HIDE DEF s
  <2>2. \A row \in ClaimRow : Mirrored(row, s).status # "none"
    BY <2>1 DEF Mirrored, toDbStatus, ChainStatus, ClaimRow
  <2>3. ASSUME NEW g \in Claims, claim_row' # claim_row, claim_row'[g].ai_report
        PROVE  claim_row'[g].status # "none"
    <3>1. CASE g = c
      <4>1. claim_row'[g] = Mirrored(claim_row[g], s)
        BY <1>4, <2>3, <3>1, SyncedRows DEF s
      <4>2. claim_row[g] \in ClaimRow
        OBVIOUS
      <4> QED
        BY <2>2, <4>1, <4>2
    <3>2. CASE g # c
      <4>1. claim_row[g] \in ClaimRow /\ (claim_row[g].ai_report => claim_row[g].status # "none")
        BY DEF Reported, Exists
      <4>2. claim_row'[g] \in {claim_row[g], [claim_row[g] EXCEPT !.workflow_status = "rejected"]}
        BY <1>4, <2>3, <3>2, SyncedRows
      <4> QED
        BY <2>3, <4>1, <4>2 DEF ClaimRow
    <3> QED
      BY <3>1, <3>2
  <2>4. CASE claim_row' = claim_row
    BY <2>4 DEF Reported, Exists
  <2> QED
    BY <2>3, <2>4 DEF Reported, Exists
<1> QED
  BY <1>1, <1>2, <1>3, <1>4, WritersOfStatus

\* Whatever step loses the report of a claim, it is an upload that had found no
\* row to keep.
ReportsOutlast ==
    \A c \in Claims :
        claim_row[c].ai_report /\ ~claim_row'[c].ai_report =>
            \E t \in Sessions :
                /\ UploadUpserts(t) /\ session[t].claim = c
                /\ session[t].existing = "none" /\ ExistingRow(c) = "kept"

\* An upload that writes: it keeps the stage of every conversation, and what it
\* loses of its claim came between its read and its write.
LosesOnlyNews ==
    \A t \in Sessions :
        session[t].call = "upload" /\ session[t].step = "write" /\ session'[t].step = "none" =>
            \A c \in Claims :
                /\ claim_row'[c].workflow_status = claim_row[c].workflow_status
                /\ \/ claim_row[c].ai_report /\ ~claim_row'[c].ai_report
                   \/ claim_row[c].status \in Terminal /\ claim_row'[c].status # claim_row[c].status
                      => session[t].claim = c /\ session[t].existing # ExistingRow(c)

\* An upload ends by writing its row, unless it dies.
LEMMA UploadEnds ==
    ASSUME MirrorInv, [Next]_vars, NEW t \in Sessions,
           session[t].call = "upload", session[t].step = "write", session'[t].step = "none"
    PROVE  UploadUpserts(t) \/ claim_row' = claim_row
<1> USE DEF MirrorInv, MirrorTypeOK
<1>1. ASSUME NEW u \in Sessions, SessionStep(u) \/ \E c \in Claims : Starts(u, c)
      PROVE  u = t
  <2>1. PICK x : session' = [session EXCEPT ![u] = x]
    BY <1>1 DEF SessionStep, Lock, DeadlockVictim, ApplyClaimWorkflowAction, SendMessage,
                RequestInfo, ProposeHandover, AcceptHandover, CancelHandover, MarkDelivered,
                Refused, Commits, SyncReadsClaim, SyncWritesBounty, SyncClaimChainState,
                UploadReadsRow, UploadUpserts, ReviewRecords, ReviewSaves, Ends, Continues,
                Starts, RequestAction, SyncReadsBounty, UploadReadsChain, ReviewReads, Asked
  <2> QED
    BY <2>1
<1>2. ASSUME SessionStep(t)
      PROVE  UploadUpserts(t) \/ DeadlockVictim(t)
  BY <1>2 DEF SessionStep, Lock, Wanted, ApplyClaimWorkflowAction, SendMessage, RequestInfo,
              ProposeHandover, AcceptHandover, CancelHandover, MarkDelivered, Refused, Asks,
              Ready, SyncReadsClaim, SyncWritesBounty, SyncClaimChainState, UploadReadsRow,
              ReviewRecords, ReviewSaves
<1>3. ASSUME NEW u \in Sessions, \E c \in Claims : Starts(u, c)
      PROVE  claim_row' = claim_row
  BY <1>3 DEF Starts, RequestAction, SyncReadsBounty, UploadReadsChain, ReviewReads, Asked, rows
<1>4. ASSUME UNCHANGED vars \/ ChainMoves \/ (\E c \in Claims : MeetingNears(c))
                \/ (\E u \in Sessions : Dies(u)) \/ DeadlockVictim(t)
      PROVE  claim_row' = claim_row
  BY <1>4 DEF vars, rows, ChainMoves, MeetingNears, Dies, DeadlockVictim
<1> QED
  BY <1>1, <1>2, <1>3, <1>4 DEF Next

\* The upsert of an upload, by what it had read.
LEMMA UpsertsLoseOnlyNews ==
    ASSUME MirrorInv, Reported, NEW t \in Sessions, UploadUpserts(t), NEW c \in Claims
    PROVE  /\ claim_row'[c].workflow_status = claim_row[c].workflow_status
           /\ claim_row[c].ai_report /\ ~claim_row'[c].ai_report
                 => /\ session[t].claim = c
                    /\ session[t].existing = "none" /\ ExistingRow(c) = "kept"
           /\ claim_row[c].status \in Terminal /\ claim_row'[c].status # claim_row[c].status
                 => session[t].claim = c /\ session[t].existing # ExistingRow(c)
<1> DEFINE e == session[t].existing
<1>1. /\ claim_row[c] \in ClaimRow /\ session[t].existing \in {"none", "fresh", "kept"}
      /\ claim_row' = [claim_row EXCEPT ![session[t].claim] =
                          Upserted(claim_row[session[t].claim], e)]
      /\ claim_row \in [Claims -> ClaimRow]
  BY DEF MirrorInv, MirrorTypeOK, UploadUpserts, Session
<1>2. CASE session[t].claim # c
  BY <1>1, <1>2
<1>3. CASE session[t].claim = c
  <2>1. claim_row'[c] = Upserted(claim_row[c], e)
    BY <1>1, <1>3
  <2>2. claim_row[c].ai_report \/ claim_row[c].status \in Terminal => ExistingRow(c) = "kept"
    BY DEF Reported, ExistingRow, Exists, Terminal
  <2> QED
    BY <1>1, <1>3, <2>1, <2>2 DEF Upserted, ClaimRow
<1> QED
  BY <1>2, <1>3

\* "Non-destructive upsert: never wipe AI review or terminal statuses" is what
\* bounties/claim says of uploads, and UploadsAreNonDestructive refutes it.
\* This is how much of it holds: an upload wipes nothing that was there when it
\* read the row, nor any conversation, and nothing else ever loses a report.
THEOREM UploadsKeepWhatTheyRead ==
    Spec => [][ReportsOutlast /\ LosesOnlyNews]_vars
<1>1. Init => Found /\ Reported
  BY DEF Init, Found, Reported, Idle, NoClaimRow
<1>2. MirrorInv /\ Found /\ Reported /\ [Next]_vars => Found' /\ Reported'
  BY FoundStep, ReportedStep
<1>3. ASSUME MirrorInv, Reported, [Next]_vars
      PROVE  ReportsOutlast
  <2> SUFFICES ASSUME NEW c \in Claims, claim_row[c].ai_report, ~claim_row'[c].ai_report
               PROVE  \E t \in Sessions :
                        /\ UploadUpserts(t) /\ session[t].claim = c
                        /\ session[t].existing = "none" /\ ExistingRow(c) = "kept"
    BY DEF ReportsOutlast
  <2>1. ~Unwritten
    BY DEF Unwritten
  <2>2. ASSUME NEW t \in Sessions, ReviewSaves(t)
        PROVE  claim_row'[c].ai_report
    BY <1>3, <2>2 DEF ReviewSaves, MirrorInv, MirrorTypeOK, ClaimRow
  <2>3. ASSUME NEW t \in Sessions, SyncClaimChainState(t)
        PROVE  claim_row'[c].ai_report
    <3>1. claim_row[c] \in ClaimRow /\ claim_row[c].ai_report
      BY <1>3 DEF MirrorInv, MirrorTypeOK
    <3>2. Mirrored(claim_row[c], session[t].chain_claim).ai_report
      BY <3>1 DEF Mirrored, ClaimRow
    <3>3. [claim_row[c] EXCEPT !.workflow_status = "rejected"].ai_report
      BY <3>1 DEF ClaimRow
    <3> QED
      BY <2>3, <3>1, <3>2, <3>3, SyncedRows
  <2> QED
    BY <1>3, <2>1, <2>2, <2>3, WritersOfStatus, UpsertsLoseOnlyNews
<1>4. ASSUME MirrorInv, Reported, [Next]_vars
      PROVE  LosesOnlyNews
  <2> SUFFICES ASSUME NEW t \in Sessions, session[t].call = "upload",
                      session[t].step = "write", session'[t].step = "none", NEW c \in Claims
               PROVE  /\ claim_row'[c].workflow_status = claim_row[c].workflow_status
                      /\ \/ claim_row[c].ai_report /\ ~claim_row'[c].ai_report
                         \/ /\ claim_row[c].status \in Terminal
                            /\ claim_row'[c].status # claim_row[c].status
                         => session[t].claim = c /\ session[t].existing # ExistingRow(c)
    BY DEF LosesOnlyNews
  <2>1. CASE claim_row' = claim_row
    BY <2>1
  <2>2. CASE UploadUpserts(t)
    BY <1>4, <2>2, UpsertsLoseOnlyNews
  <2> QED
    BY <1>4, <2>1, <2>2, UploadEnds
<1>5. Spec => [](Found /\ Reported)
  BY <1>1, <1>2, MirrorInvariant, PTL DEF Spec
<1> QED
  BY <1>3, <1>4, <1>5, MirrorInvariant, PTL DEF Spec
=============================================================================
