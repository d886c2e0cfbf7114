--------------------------- MODULE ClaimLifecycle ---------------------------
(***************************************************************************)
(* What the ClaimV2 accounts of one bounty look like to those who only     *)
(* read them: the statuses a claim passes through, and the two things the  *)
(* claims of a bounty share, its lock and its one settlement.  Escrow      *)
(* implements it; the database mirror (ChainMirror) relies on nothing else.*)
(***************************************************************************)
CONSTANT Claims         \* the claims of the bounty

VARIABLE chain          \* the on-chain status of every claim

ChainStatus ==
    {"Absent", "Submitted", "AiReviewed", "RejectionPending", "Rejected", "Disputed",
     "Settled"}

LifecycleInit == chain = [c \in Claims |-> "Absent"]

Undecided == {"Submitted", "AiReviewed"}

\* No claim holds the bounty's lock and none was paid.
Unlocked == \A c \in Claims : chain[c] \notin {"Disputed", "Settled"}

Becomes(c, s) == chain' = [chain EXCEPT ![c] = s]

Submit(c) == chain[c] = "Absent" /\ Unlocked /\ Becomes(c, "Submitted")

Review(c) == chain[c] \in Undecided /\ Unlocked /\ Becomes(c, "AiReviewed")

\* An owner's rejection waits for a dispute, unless the bounty is older than
\* dispute windows.
Turn(c) ==
    /\ chain[c] \in Undecided
    /\ Becomes(c, "RejectionPending") \/ Becomes(c, "Rejected")

Finalize(c) == chain[c] = "RejectionPending" /\ Becomes(c, "Rejected")

Contest(c) ==
    /\ chain[c] \in Undecided \cup {"RejectionPending"}
    /\ Unlocked
    /\ Becomes(c, "Disputed")

Dismiss(c) == chain[c] = "Disputed" /\ Becomes(c, "Rejected")

Settle(c) ==
    /\ chain[c] = "Disputed" \/ (chain[c] \in Undecided /\ Unlocked)
    /\ Becomes(c, "Settled")

LifecycleStep(c) ==
    Submit(c) \/ Review(c) \/ Turn(c) \/ Finalize(c) \/ Contest(c) \/ Dismiss(c) \/ Settle(c)

LifecycleNext == \E c \in Claims : LifecycleStep(c)

LifecycleSpec == LifecycleInit /\ [][LifecycleNext]_chain
=============================================================================
