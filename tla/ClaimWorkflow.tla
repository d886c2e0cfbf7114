--------------------------- MODULE ClaimWorkflow ---------------------------
(***************************************************************************)
(* The claims, claim_handovers and bounties rows of one bounty in Postgres *)
(* and apply_claim_workflow_action, the transaction in which the owner and *)
(* a finder arrange the return of the item.                                *)
(*                                                                         *)
(* A session is one API request.  Its transaction takes row locks one by   *)
(* one (SELECT ... FOR UPDATE, or the rows an UPDATE finds), reads a row   *)
(* when it locks it, and commits everything at the end.  Texts, places and *)
(* times are left out; of the meeting time only whether it is near enough  *)
(* to mark the delivery remains.  Messages are counted.                    *)
(***************************************************************************)
EXTENDS ClaimLifecycle, Integers, FiniteSets

CONSTANTS
    Sessions,       \* concurrent API requests
    BountyRow,      \* the bounty's row, as something to lock
    NoRow,
    ActionsAsked,   \* bound: the workflow actions that are asked for
    MaxActions,     \* bounds on the workflow actions, uploads and reviews asked for
    MaxUploads,
    MaxReviews,
    MayDie          \* whether requests may die before their last write

Actions ==
    {"send_message", "request_info", "propose_handover", "accept_handover",
     "cancel_handover", "mark_delivered"}

ASSUME WorkflowAssumption ==
    /\ ActionsAsked \subseteq Actions
    /\ BountyRow \notin Claims
    /\ NoRow \notin Claims
    /\ {MaxActions, MaxUploads, MaxReviews} \subseteq Nat
    /\ MayDie \in BOOLEAN

VARIABLES
    claim_row,      \* the claims row of every claim
    bounty_status,  \* bounties.status
    handover,       \* the claim_handovers row of every claim
    messages,       \* number of claim_messages rows of every claim
    session,        \* what every session is doing
    requests        \* how often each was asked for

rows == <<claim_row, bounty_status, handover, messages>>
vars == <<chain, rows, session, requests>>

Parties == {"owner", "finder"}

WorkflowStatus ==
    {"awaiting_review", "more_info_requested", "handover_proposed", "handover_scheduled",
     "finder_delivered", "settled", "rejected", "rejection_pending", "disputed"}

DbStatus ==
    {"none", "submitted", "ai_reviewed", "rejection_pending", "rejected", "disputed",
     "settled"}

\* status "none": there is no row yet.
ClaimRow == [status: DbStatus, workflow_status: WorkflowStatus, ai_report: BOOLEAN]

NoClaimRow == [status |-> "none", workflow_status |-> "awaiting_review", ai_report |-> FALSE]

Handover ==
    [status: {"none", "proposed", "accepted", "cancelled"},
     proposed_by: Parties \cup {"nobody"}, accepted_by: Parties \cup {"nobody"},
     near: BOOLEAN, delivered: BOOLEAN, received: BOOLEAN]

NoHandover ==
    [status |-> "none", proposed_by |-> "nobody", accepted_by |-> "nobody",
     near |-> FALSE, delivered |-> FALSE, received |-> FALSE]

Exists(c) == claim_row[c].status # "none"

-----------------------------------------------------------------------------
(* Sessions and row locks.                                                 *)

Calls == {"none", "apply", "sync", "upload", "review"}

\* seen: the workflow_status in the row when a workflow action locked it.
\* chain_bounty, chain_claim: what was read from the chain.
\* existing: the row an upload read.
Session ==
    [call: Calls, step: {"none", "lock", "read", "record", "write"},
     claim: Claims \cup {NoRow}, actor: Parties \cup {"nobody"},
     action: Actions \cup {"none"}, seen: WorkflowStatus,
     held: SUBSET (Claims \cup {BountyRow}),
     chain_bounty: {"funded", "disputed", "released"}, chain_claim: ChainStatus,
     existing: {"none", "fresh", "kept"}]

Idle ==
    [call |-> "none", step |-> "none", claim |-> NoRow, actor |-> "nobody",
     action |-> "none", seen |-> "awaiting_review", held |-> {},
     chain_bounty |-> "funded", chain_claim |-> "Absent", existing |-> "none"]

MaxRequests == [apply |-> MaxActions, upload |-> MaxUploads, review |-> MaxReviews]

\* Somebody asks for s.
Asked(t, s) ==
    /\ session[t] = Idle
    /\ requests[s.call] < MaxRequests[s.call]
    /\ requests' = [requests EXCEPT ![s.call] = @ + 1]
    /\ session' = [session EXCEPT ![t] = s]
    /\ UNCHANGED <<chain, rows>>

Ends(t) == session' = [session EXCEPT ![t] = Idle]

MutAvailable(t, r) == TRUE

\* No other transaction holds the row's lock.
Available(t, r) == \A u \in Sessions \ {t} : r \notin session[u].held

MutOpenWorkflows ==
    {"awaiting_review", "more_info_requested", "handover_proposed", "handover_scheduled",
     "finder_delivered"}

\* WHERE workflow_status IN (...): the siblings a settlement closes.
OpenWorkflows == WorkflowStatus \ {"settled", "rejected"}

OpenSiblings(c) ==
    {g \in Claims \ {c} : Exists(g) /\ claim_row[g].workflow_status \in OpenWorkflows}

\* The rows a transaction asks for next: a workflow action locks the claim
\* and then the bounty, a mirror update the bounty and then the claim, and,
\* when the claim settled, its siblings.
Wanted(t) ==
    LET c == session[t].claim
        held == session[t].held
        first == IF session[t].call = "apply" THEN c ELSE BountyRow
        second == IF session[t].call = "apply" THEN BountyRow ELSE c
    IN  IF session[t].step # "lock" THEN {}
        ELSE IF first \notin held THEN {first}
        ELSE IF second \notin held THEN {second}
        ELSE IF session[t].call = "sync" /\ session[t].chain_claim = "Settled" /\ Exists(c)
        THEN OpenSiblings(c) \ held
        ELSE {}

Ready(t, call) == session[t].call = call /\ session[t].step = "lock" /\ Wanted(t) = {}

Lock(t) ==
    \E r \in Wanted(t) :
        /\ Available(t, r)
        /\ session' = [session EXCEPT
                          ![t].held = @ \cup {r},
                          ![t].seen = IF session[t].call = "apply" /\ r = session[t].claim
                                      THEN claim_row[r].workflow_status ELSE @]
        /\ UNCHANGED <<chain, rows, requests>>

Waits(t, u) == t # u /\ Wanted(t) \cap session[u].held # {}

MutDeadlocked(t) == FALSE

\* Postgres aborts a transaction that waits, through others, for itself.
Deadlocked(t) ==
    \E S \in SUBSET Sessions :
        /\ t \in S
        /\ \A u \in S : \E v \in S : Waits(u, v)
        /\ \A v \in S : \E u \in S : Waits(u, v)

DeadlockVictim(t) ==
    /\ Deadlocked(t)
    /\ Ends(t)
    /\ UNCHANGED <<chain, rows, requests>>

\* A crash, a timeout or a lost connection: an open transaction rolls back.
Dies(t) ==
    /\ MayDie
    /\ session[t].call # "none"
    /\ Ends(t)
    /\ UNCHANGED <<chain, rows, requests>>

-----------------------------------------------------------------------------
(* apply_claim_workflow_action                                             *)

\* Anybody else gets a 403.
Participates(c, actor) == Exists(c) /\ actor \in Parties

\* POST claims/[claimId]/workflow.
RequestAction(t, c, actor, action) ==
    /\ Participates(c, actor)
    /\ Asked(t, [Idle EXCEPT !.call = "apply", !.step = "lock", !.claim = c,
                            !.actor = actor, !.action = action])

Closed == {"settled", "rejected", "disputed"}

MutOpenFor(t) ==
    \/ session[t].seen \notin {"settled", "rejected", "rejection_pending"}
    \/ session[t].seen = "rejection_pending" /\ session[t].action = "send_message"

\* WORKFLOW_CLOSED otherwise.
OpenFor(t) ==
    \/ session[t].seen \notin Closed \cup {"rejection_pending"}
    \/ session[t].seen = "rejection_pending" /\ session[t].action = "send_message"

Arrangeable(t) == session[t].seen \in {"awaiting_review", "more_info_requested"}

\* Ends the transaction with next_status, the handover row h and a message;
\* the status is written only when it changes.
Commits(t, next_status, h) ==
    LET c == session[t].claim
    IN  /\ claim_row' = IF next_status = session[t].seen THEN claim_row
                        ELSE [claim_row EXCEPT ![c].workflow_status = next_status]
        /\ handover' = [handover EXCEPT ![c] = h]
        /\ messages' = [messages EXCEPT ![c] = @ + 1]
        /\ Ends(t)
        /\ UNCHANGED <<chain, bounty_status, requests>>

Asks(t, action) == Ready(t, "apply") /\ session[t].action = action /\ OpenFor(t)

Row(t) == handover[session[t].claim]

MayRequestInfo(t) == session[t].actor = "owner" /\ Arrangeable(t)

MayPropose(t) == Arrangeable(t) /\ Row(t).status \notin {"proposed", "accepted"}

MayAccept(t) == Row(t).status = "proposed" /\ Row(t).proposed_by # session[t].actor

MutMayCancel(t) == Row(t).status \in {"proposed", "accepted"}

MayCancel(t) == Row(t).status \in {"proposed", "accepted"} /\ ~Row(t).delivered

MayMarkDelivered(t) ==
    /\ session[t].actor = "finder"
    /\ Row(t).status = "accepted"
    /\ ~Row(t).delivered
    /\ Row(t).near

SendMessage(t) ==
    /\ Asks(t, "send_message")
    /\ Commits(t, session[t].seen, Row(t))

RequestInfo(t) ==
    /\ Asks(t, "request_info")
    /\ MayRequestInfo(t)
    /\ Commits(t, "more_info_requested", Row(t))

ProposeHandover(t) ==
    /\ Asks(t, "propose_handover")
    /\ MayPropose(t)
    /\ \E near \in BOOLEAN :
          Commits(t, "handover_proposed",
                  [NoHandover EXCEPT !.status = "proposed",
                                     !.proposed_by = session[t].actor, !.near = near])

AcceptHandover(t) ==
    /\ Asks(t, "accept_handover")
    /\ MayAccept(t)
    /\ Commits(t, "handover_scheduled",
               [Row(t) EXCEPT !.status = "accepted", !.accepted_by = session[t].actor])

CancelHandover(t) ==
    /\ Asks(t, "cancel_handover")
    /\ MayCancel(t)
    /\ Commits(t, "awaiting_review", [Row(t) EXCEPT !.status = "cancelled"])

MarkDelivered(t) ==
    /\ Asks(t, "mark_delivered")
    /\ MayMarkDelivered(t)
    /\ Commits(t, "finder_delivered", [Row(t) EXCEPT !.delivered = TRUE])

\* RAISE EXCEPTION: the transaction rolls back.
Refused(t) ==
    /\ Ready(t, "apply")
    /\ \/ ~OpenFor(t)
       \/ session[t].action = "request_info" /\ ~MayRequestInfo(t)
       \/ session[t].action = "propose_handover" /\ ~MayPropose(t)
       \/ session[t].action = "accept_handover" /\ ~MayAccept(t)
       \/ session[t].action = "cancel_handover" /\ ~MayCancel(t)
       \/ session[t].action = "mark_delivered" /\ ~MayMarkDelivered(t)
    /\ Ends(t)
    /\ UNCHANGED <<chain, rows, requests>>

\* The meeting comes within 30 minutes.
MeetingNears(c) ==
    /\ handover[c].status \in {"proposed", "accepted"}
    /\ ~handover[c].near
    /\ handover' = [handover EXCEPT ![c].near = TRUE]
    /\ UNCHANGED <<chain, claim_row, bounty_status, messages, session, requests>>

ApplyClaimWorkflowAction(t) ==
    \/ SendMessage(t)
    \/ RequestInfo(t)
    \/ ProposeHandover(t)
    \/ AcceptHandover(t)
    \/ CancelHandover(t)
    \/ MarkDelivered(t)
    \/ Refused(t)
=============================================================================
