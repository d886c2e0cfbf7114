---------------------------- MODULE CreateListing ----------------------------
(***************************************************************************)
(* Creating and funding a listing from the browser (createAndFund and fund *)
(* of FindBackProvider.tsx, sendIx of client.ts, sponsored.ts): what the   *)
(* owner is told against what the chain did, when requests fail, answers   *)
(* are lost, transactions land late and the owner presses the button       *)
(* again.  "form" is the create page, which keeps one bounty id over all   *)
(* its attempts; "page" is the listing's own page in another tab, which    *)
(* funds or cancels a draft.                                               *)
(*                                                                         *)
(* Every attempt signs a transaction of its own; a deadline stands for the *)
(* metadata hash it is part of.  Numbers of transactions are used again    *)
(* when nothing can tell.  Escrow holds rewards, 1 at most.                *)
(***************************************************************************)
EXTENDS Integers, FiniteSets

CONSTANT Txs   \* transactions that may be alive at a time, numbered

Tabs == {"form", "page"}
NoTx == 0

VARIABLES
  sponsored,   \* fees are paid by the sponsor: create and fund are separate
  bounty,      \* status, escrow and deadline of the bounty account
  tx,          \* what each transaction does and what became of it
  tab,         \* where each tab is in its attempt
  announced,   \* deadlines sent to the mirror, or queued for it
  calm,        \* network and owner let requests through
  twin         \* a listing was signed anew while an older one could land

createVars == <<sponsored, bounty, tx, tab, announced, calm, twin>>

NoBounty == [status |-> "none", escrow |-> 0, deadline |-> 0]
Unused == [does |-> "nothing", deadline |-> 0, state |-> "unused"]
Ready == [pc |-> "idle", tx |-> NoTx, seen |-> NoBounty, told |-> "nothing"]

CreateInit ==
  /\ sponsored \in BOOLEAN
  /\ bounty = NoBounty
  /\ tx = [n \in Txs |-> Unused]
  /\ tab = [t \in Tabs |-> Ready]
  /\ announced = {}
  /\ calm \in BOOLEAN
  /\ twin = FALSE

-----------------------------------------------------------------------------
(* The program, as the transactions of the owner meet it.                  *)

MutProgramAccepts(does) ==
  CASE does \in {"create", "create_and_fund"} -> bounty.status = "none"
    [] does = "fund"   -> bounty.status \in {"Draft", "Funded"}
    [] does = "cancel" -> bounty.status = "Draft" /\ bounty.escrow = 0

ProgramAccepts(does) ==
  CASE does \in {"create", "create_and_fund"} -> bounty.status = "none"
    [] does = "fund"   -> bounty.status = "Draft" /\ bounty.escrow = 0
    [] does = "cancel" -> bounty.status = "Draft" /\ bounty.escrow = 0

After(does, deadline) ==
  CASE does = "create" -> [status |-> "Draft", escrow |-> 0,
                           deadline |-> deadline]
    [] does = "create_and_fund" -> [status |-> "Funded", escrow |-> 1,
                                    deadline |-> deadline]
    [] does = "fund" -> [bounty EXCEPT !.status = "Funded",
                                       !.escrow = @ + 1]
    [] does = "cancel" -> [bounty EXCEPT !.status = "Cancelled"]

\* Transactions that are over, or were never sent, and that no tab asks about.
Forgotten(n, tabs, txs) ==
  txs[n].state # "sent" /\ \A t \in Tabs : tabs[t].tx # n
Kept(tabs, txs) ==
  [n \in Txs |-> IF Forgotten(n, tabs, txs) THEN Unused ELSE txs[n]]

\* A transaction is executed once, as a whole or not at all.
Lands(n) ==
  /\ tx[n].state = "sent"
  /\ IF ProgramAccepts(tx[n].does)
     THEN /\ bounty' = After(tx[n].does, tx[n].deadline)
          /\ tx' = Kept(tab, [tx EXCEPT ![n].state = "landed"])
     ELSE /\ tx' = Kept(tab, [tx EXCEPT ![n].state = "reverted"])
          /\ UNCHANGED bounty
  /\ UNCHANGED <<sponsored, tab, announced, calm, twin>>

\* Its blockhash is too old.
Expires(n) ==
  /\ tx[n].state = "sent"
  /\ tx' = Kept(tab, [tx EXCEPT ![n].state = "expired"])
  /\ UNCHANGED <<sponsored, bounty, tab, announced, calm, twin>>

\* A number may be used again once its transaction is over and forgotten.
Free(n) ==
  /\ Forgotten(n, tab, tx)
  /\ n # bounty.deadline
  /\ \A t \in Tabs : n # tab[t].seen.deadline

-----------------------------------------------------------------------------
(* The provider's operations, up to the transaction they build.            *)

Goes(t, pc) == tab' = [tab EXCEPT ![t].pc = pc]
Ends(t, told, txs) ==
  /\ tab' = [tab EXCEPT ![t] = [Ready EXCEPT !.told = told]]
  /\ tx' = Kept(tab', txs)
Fails(t) == Ends(t, "failed", tx)

\* What an endpoint of withRpcEndpointFailover may answer: one that serves when
\* others are busy may be behind them.
Answers ==
  {bounty} \cup
  (IF calm \/ bounty.status = "none" THEN {}
   ELSE {NoBounty} \cup
        (IF sponsored THEN {[bounty EXCEPT !.status = "Draft", !.escrow = 0]} ELSE {}))

Press(t) ==
  /\ tab[t].pc = "idle"
  /\ IF t = "form" THEN tab[t].told # "confirmed"
                   ELSE bounty.status # "none"
  /\ tab' = [tab EXCEPT ![t] = [Ready EXCEPT !.pc = "read"]]
  /\ UNCHANGED <<sponsored, bounty, tx, announced, calm, twin>>

\* fetchBounty, which fails when every endpoint is busy.
FetchBounty(t) ==
  /\ tab[t].pc = "read"
  /\ \/ /\ \E answer \in Answers :
             tab' = [tab EXCEPT ![t].pc = "build", ![t].seen = answer]
        /\ UNCHANGED tx
     \/ ~calm /\ Fails(t)
  /\ UNCHANGED <<sponsored, bounty, announced, calm, twin>>

Alive == \E n \in Txs : tx[n].state = "sent" /\ tx[n].does # "fund"

Builds(t, does) ==
  LET new == does \in {"create", "create_and_fund"}
  IN  \E n \in Txs :
        /\ Free(n)
        /\ \A k \in Txs : Free(k) => n <= k
        /\ tab' = [tab EXCEPT ![t].tx = n, ![t].pc = "simulate"]
        /\ tx' = Kept(tab', [tx EXCEPT ![n] =
                     [does |-> does, state |-> "built",
                      deadline |-> IF new THEN n ELSE 0]])
        /\ twin' = (twin \/ (new /\ Alive))

MutResumeCreates(t) ==
  /\ t = "form" /\ tab[t].pc = "build"
  /\ \/ Builds(t, IF sponsored THEN "create" ELSE "create_and_fund")
     \/ /\ Fails(t)
        /\ UNCHANGED twin
  /\ UNCHANGED <<sponsored, bounty, announced, calm>>

\* createAndFund: resumes what an earlier attempt left on the chain.
CreateAndFund(t) ==
  /\ t = "form" /\ tab[t].pc = "build"
  /\ LET seen == tab[t].seen
     IN  \/ /\ seen.status = "none"
            /\ Builds(t, IF sponsored THEN "create" ELSE "create_and_fund")
            /\ UNCHANGED announced
         \/ /\ seen.status = "Draft"
            /\ announced' = announced \cup {seen.deadline}
            /\ Builds(t, "fund")
         \/ /\ seen.status = "Funded"
            /\ announced' = announced \cup {seen.deadline}
            /\ Ends(t, "confirmed", tx)
            /\ UNCHANGED twin
         \/ /\ seen.status = "Cancelled"
            /\ announced' = announced \cup {seen.deadline}
            /\ Fails(t)
            /\ UNCHANGED twin
  /\ UNCHANGED <<sponsored, bounty, calm>>

\* fund and cancel of the listing's page.
FundOrCancel(t) ==
  /\ t = "page" /\ tab[t].pc = "build"
  /\ \/ /\ tab[t].seen.status = "Draft"
        /\ \E does \in {"fund", "cancel"} :
             Builds(t, does)
     \/ /\ tab[t].seen.status # "Draft"
        /\ Fails(t)
        /\ UNCHANGED twin
  /\ UNCHANGED <<sponsored, bounty, announced, calm>>

-----------------------------------------------------------------------------
(* sendIx and sendSponsoredTransaction.                                    *)

Sending(t, pc) == tab[t].pc = pc
Does(t) == tx[tab[t].tx].does

Simulate(t) ==
  /\ Sending(t, "simulate")
  /\ \/ ProgramAccepts(Does(t)) /\ Goes(t, "send") /\ UNCHANGED tx
     \/ (~calm \/ ~ProgramAccepts(Does(t))) /\ Fails(t)
  /\ UNCHANGED <<sponsored, bounty, announced, calm, twin>>

\* The owner signs, the node runs its preflight and takes the transaction, or
\* refuses it; repeated after a lost answer, the same bytes are the same
\* transaction, and a node that has processed it already refuses it.
SendRawTransaction(t) ==
  /\ Sending(t, "send")
  /\ \/ /\ ProgramAccepts(Does(t))
        /\ LET txs == [tx EXCEPT ![tab[t].tx].state = "sent"]
           IN  \/ Goes(t, "confirm") /\ tx' = txs
               \/ ~calm /\ Ends(t, "failed", txs)
     \/ /\ ~calm \/ ~ProgramAccepts(Does(t))
        /\ Fails(t)
  /\ UNCHANGED <<sponsored, bounty, announced, calm, twin>>

\* confirmTransaction resolves when the transaction was processed, with the
\* error it ended in as part of its value; it throws when the blockhash is too
\* old.  The value is not looked at.
ConfirmTransaction(t) ==
  /\ Sending(t, "confirm")
  /\ \/ /\ tx[tab[t].tx].state \in {"landed", "reverted"}
        /\ Goes(t, "after")
        /\ UNCHANGED tx
     \/ /\ tx[tab[t].tx].state = "expired" \/ ~calm
        /\ Fails(t)
  /\ UNCHANGED <<sponsored, bounty, announced, calm, twin>>

\* runTx tells the owner; a sponsored creation goes on to the funding.
AfterConfirmation(t) ==
  /\ Sending(t, "after")
  /\ announced' = IF t = "form" /\ Does(t) # "fund"
                  THEN announced \cup {tx[tab[t].tx].deadline}
                  ELSE announced
  /\ \/ /\ Does(t) = "create"
        /\ Builds(t, "fund")
     \/ /\ Does(t) # "create"
        /\ tab' = [tab EXCEPT ![t].pc = "told", ![t].told = "confirmed"]
        /\ UNCHANGED <<tx, twin>>
  /\ UNCHANGED <<sponsored, bounty, calm>>

Read(t) ==
  /\ Sending(t, "told")
  /\ Ends(t, "confirmed", tx)
  /\ UNCHANGED <<sponsored, bounty, announced, calm, twin>>

\* bounties/register takes contents whose hash, deadline and reward are those
\* of the account; what was sent for another deadline it refuses.
Registered == bounty.deadline \in announced

WeatherChanges ==
  /\ calm' = ~calm
  /\ UNCHANGED <<sponsored, bounty, tx, tab, announced, twin>>

TabStep(t) ==
  \/ FetchBounty(t) \/ CreateAndFund(t) \/ FundOrCancel(t) \/ Simulate(t)
  \/ SendRawTransaction(t) \/ ConfirmTransaction(t) \/ AfterConfirmation(t)
  \/ Read(t)

CreateNext ==
  \/ \E t \in Tabs : Press(t) \/ TabStep(t)
  \/ \E n \in Txs : Lands(n) \/ Expires(n)
  \/ WeatherChanges

-----------------------------------------------------------------------------
(* Properties.                                                             *)

\* However often the owner presses the button, in two tabs, and whatever lands
\* late, the reward is locked at most once, and never in a cancelled listing
\* (client.ts:268-269: a lost response cannot create a second payment).
PaidOnce ==
  /\ bounty.escrow <= 1
  /\ bounty.status = "Cancelled" => bounty.escrow = 0

\* An owner who keeps pressing after each failure ends with the reward locked
\* unless the listing was cancelled, and with contents that the mirror takes,
\* unless a second listing was signed while the first could still land.
ResumeSucceeds ==
  <>[]calm =>
    <>[]( \/ bounty.status = "Cancelled"
          \/ /\ bounty.status = "Funded"
             /\ twin \/ Registered)

\* What the page says under a confirmed transaction (Shell.tsx:121: the
\* transaction succeeded) is true of the transaction it links to.
ConfirmedMeansSucceeded ==
  \A t \in Tabs : tab[t].pc = "told" => tx[tab[t].tx].state = "landed"
=============================================================================
