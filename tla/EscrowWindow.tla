---------------------------- MODULE EscrowWindow ----------------------------
(***************************************************************************)
(* The escrow with a history variable: which claims, since the owner       *)
(* rejected them, were ever in a state where their finder could dispute.   *)
(***************************************************************************)
EXTENDS Escrow

VARIABLE hadWindow

windowVars == <<vars, hadWindow>>

\* The guards of open_dispute_v2 and open_dispute_v3 for a rejected claim,
\* signed by its finder.
CouldDispute(f) ==
    /\ bounty.status = "Funded"
    /\ claim[f].status = "RejectionPending"
    /\ MayDispute(f, f)
    /\ CheckedAdd(now, ResolveWindow)
    /\ bounty.arbitration_mode = 1 => ~dispute_case[f].exists

WindowInit == Init /\ hadWindow = {}

WindowNext ==
    /\ Next
    /\ hadWindow' = hadWindow \cup {f \in Finders : CouldDispute(f)'}

WindowSpec == WindowInit /\ [][WindowNext]_windowVars

\* finalize_rejection_v2: it "finalizes an owner rejection only after the
\* finder had a deterministic on-chain window in which to open a dispute".
RejectionHadWindow ==
    [][\A f \in Finders :
          claim[f].status = "RejectionPending" /\ claim'[f].status = "Rejected"
              => f \in hadWindow]_windowVars
=============================================================================
