---------------------------- MODULE DevnetGrants ----------------------------
(***************************************************************************)
(* What the server gives one account on Devnet: transaction fees (api/     *)
(* devnet/sponsor, sponsored.ts) up to a quota of transactions a day, and  *)
(* tokens (api/devnet/fund) up to a starting balance.  Every handler reads *)
(* what the account has had, awaits RPC calls, and only then writes what   *)
(* it gives; Handlers are the requests under way at a time, those among    *)
(* them whose mint has lost its answer and may still land.                 *)
(***************************************************************************)
EXTENDS Integers, FiniteSets

CONSTANTS
  Handlers,  \* requests the account has under way at a time
  Slips,     \* rows of sponsored_transactions
  DayQuota,  \* sponsored transactions a day (10 in the code)
  Target,    \* starting balance, in tokens
  Spendable  \* bound: tokens the account spends

ASSUME GrantsAssumption ==
  /\ DayQuota \in Nat \ {0} /\ Target \in Nat
  /\ IsFiniteSet(Handlers) /\ IsFiniteSet(Slips)

VARIABLES
  slip,      \* sponsored_transactions, the transaction of each row, and
             \* whether a receipt has ever reported the row as failed
  handler,   \* sponsor handlers: idle, or past the quota check
  tokens, spent,
  faucet     \* faucet handlers: idle, or the balance they have read

grantVars == <<slip, handler, tokens, spent, faucet>>

NoSlip == [status |-> "none", tx |-> "none", reported |-> FALSE]
NotRead == -1

GrantsInit ==
  /\ slip = [s \in Slips |-> NoSlip]
  /\ handler = [h \in Handlers |-> "idle"]
  /\ tokens = 0
  /\ spent = 0
  /\ faucet = [h \in Handlers |-> NotRead]

-----------------------------------------------------------------------------
(* Sponsored transactions.                                                 *)

MutCountsConfirmedOnly ==
  {s \in Slips : slip[s].status = "confirmed"}

\* The rows the quota counts: a lost receipt leaves its row prepared, and one
\* that reports a failure takes the row out.
Counted ==
  {s \in Slips : slip[s].status \in {"prepared", "submitted", "confirmed"}}

CheckQuota(h) ==
  /\ handler[h] = "idle"
  /\ Cardinality(Counted) < DayQuota
  /\ handler' = [handler EXCEPT ![h] = "building"]
  /\ UNCHANGED <<slip, tokens, spent, faucet>>

\* The sponsor's balance, the state of the bounty or the simulation refuses.
Refuse(h) ==
  /\ handler[h] = "building"
  /\ handler' = [handler EXCEPT ![h] = "idle"]
  /\ UNCHANGED <<slip, tokens, spent, faucet>>

\* The row is inserted before the transaction, signed by the sponsor, leaves
\* the server.
Prepare(h) ==
  /\ handler[h] = "building"
  /\ \E s \in Slips :
       /\ slip[s].status = "none"
       /\ slip' = [slip EXCEPT ![s] = [status |-> "prepared", tx |-> "signed",
                                       reported |-> FALSE]]
  /\ handler' = [handler EXCEPT ![h] = "idle"]
  /\ UNCHANGED <<tokens, spent, faucet>>

\* The owner signs and sends it while its blockhash is fresh.
Land(s) ==
  /\ slip[s].tx = "signed"
  /\ \E end \in {"succeeded", "reverted", "dropped"} :
       slip' = [slip EXCEPT ![s].tx = end]
  /\ UNCHANGED <<handler, tokens, spent, faucet>>

\* PATCH, sent once and not waited for, so it may never come.  It asks only that
\* the row is the account's: in whatever status the row is, whichever signature
\* comes with it decides the next one, the row's own transaction or another,
\* unless the node that is asked does not know it.
Receipt(s) ==
  /\ slip[s].status # "none"
  /\ \E seen \in {"succeeded", "reverted", "unknown"} :
       slip' = [slip EXCEPT
         ![s].status = CASE seen = "succeeded" -> "confirmed"
                         [] seen = "reverted"  -> "failed"
                         [] OTHER              -> "submitted",
         ![s].reported = @ \/ seen = "reverted"]
  /\ UNCHANGED <<handler, tokens, spent, faucet>>

\* A day later the row does not count, its transaction is long over, and its
\* number serves again.
DayOver(s) ==
  /\ slip[s].status # "none"
  /\ slip' = [slip EXCEPT ![s] = NoSlip]
  /\ UNCHANGED <<handler, tokens, spent, faucet>>

-----------------------------------------------------------------------------
(* The faucet.                                                             *)

ReadBalance(h) ==
  /\ faucet[h] = NotRead
  /\ faucet' = [faucet EXCEPT ![h] = tokens]
  /\ UNCHANGED <<slip, handler, tokens, spent>>

MutMintTarget(h) ==
  /\ faucet[h] # NotRead
  /\ tokens' = tokens + Target
  /\ faucet' = [faucet EXCEPT ![h] = NotRead]
  /\ UNCHANGED <<slip, handler, spent>>

\* The shortfall of the balance that was read, if there is one; the mint may
\* fail, and then the request does.
MintShortfall(h) ==
  /\ faucet[h] # NotRead
  /\ \/ Target > faucet[h] /\ tokens' = tokens + (Target - faucet[h])
     \/ UNCHANGED tokens
  /\ faucet' = [faucet EXCEPT ![h] = NotRead]
  /\ UNCHANGED <<slip, handler, spent>>

Spend ==
  /\ tokens > 0 /\ spent < Spendable
  /\ tokens' = tokens - 1
  /\ spent' = spent + 1
  /\ UNCHANGED <<slip, handler, faucet>>

SponsorNext ==
  \/ \E h \in Handlers : CheckQuota(h) \/ Refuse(h) \/ Prepare(h)
  \/ \E s \in Slips : Land(s) \/ Receipt(s) \/ DayOver(s)

FaucetNext ==
  \/ \E h \in Handlers : ReadBalance(h) \/ MintShortfall(h)
  \/ Spend

-----------------------------------------------------------------------------
(* Properties.                                                             *)

\* A transaction that was executed costs the sponsor its fee, succeeded or not.
Paid == {s \in Slips : slip[s].tx \in {"succeeded", "reverted"}}

Reported == {s \in Slips : slip[s].reported}

\* What concurrent requests can take beyond the limits is bounded by their
\* number.  Apart from the rows that some receipt reported as failed, which
\* leave the quota (route.ts:80,184) though the sponsor has paid the fee, the
\* sponsor pays for fewer transactions a day than the quota and the requests
\* under way, whichever receipts are lost, late or speak of another transaction;
\* and the faucet alone never lifts a balance above one target for every
\* request under way.
GrantsAreBounded ==
  /\ Cardinality(Paid \ Reported) < DayQuota + Cardinality(Handlers)
  /\ tokens <= Target * Cardinality(Handlers)
=============================================================================
