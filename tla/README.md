# Formal models of SafeReturn

SafeReturn is a lost-and-found service on Solana Devnet: an owner escrows a
reward for a lost item in the `findback` program, finders submit claims, an AI
recommends, the owner (or an arbiter, or a panel) decides, and the program pays
exactly one finder or gives the reward back. A Next.js application mirrors the
chain into Postgres (Supabase), where owner and finder also agree on a handover.

This directory holds TLA+ models of that code, TLC configurations that check
them on small instances, and proofs, checked by TLAPS, that hold for every
instance. Paths are relative to the repository's root.

## Inventory

| Part | State | Operations | Hard because |
| --- | --- | --- | --- |
| Escrow (`programs/findback/src`) | `Bounty` account, vault token account, clock | create (v1, v2, sponsored), fund (own, sponsored), cancel, refund after expiry | two balances that must agree (recorded and real), partial fundings, anyone can send tokens to the vault |
| ClaimV2 (`lib.rs`, `helpers.rs`) | one `ClaimV2` account per finder, `active_claims` in the bounty | submit, AI review, accept, reject, finalize rejection, dispute, resolve, time out | several claims share one escrow and one lock; deadlines; permissionless instructions; a counter kept by hand guards the refund |
| Arbitration (`lib.rs`) | `ArbitrationPanel`, `DisputeCase`, `ArbitrationVote` accounts | configure, open, vote, finalize release/reject | votes race the timeout; the panel may be configured late |
| Legacy v1 claims (`lib.rs`) | the bounty account itself | submit, review, accept, reject, dispute, resolve | one slot reused by finder after finder; shares instructions with v2 |
| Attestation and reputation (`lib.rs`, `helpers.rs`) | `ReturnAttestation`, `Reputation` | attest_settlement | permissionless, across bounties, counters that refuse to overflow |
| Program client (`src/lib/findback/program`) | none | build, simulate, sign, send, confirm; decode accounts | hand-written account lists and byte offsets; roles that coincide in one wallet; accounts older than the program |
| Claim workflow (`supabase/migrations/*0007*, *2112*`) | `claims.workflow_status`, `claim_handovers`, messages | request info, propose/accept/cancel handover, mark delivered, message | row locks in opposite orders; guards on a different column than the state they change |
| Chain mirror (`src/app/api/bounties/*`, `ai/review`) | `bounties`, `claims` rows | sync, reconcile, claim upload, AI review | reads of the chain written later without a version; crash between chain and database |
| Client outbox (`src/lib/findback/db.ts`, provider) | localStorage list, in-memory list | queue, flush, refresh, poll | read, await, overwrite; several tabs; capped list |
| Creating a listing (provider, create page) | a form, the chain, up to two transactions | create and fund, fund, cancel, retry | a lost answer is not a lost transaction; reads from endpoints that are behind; a second attempt signs other contents |
| Submitting a claim (claim page, `media`, `integrity.ts`) | a form, a picture, a commitment | upload, hash, send, sync | the contents exist in one browser until the row is written |
| Sponsor and faucet (`src/app/api/devnet`) | `sponsored_transactions` rows, quota | prepare, receipt, faucet | check, await, insert; lost or late receipts |
| Rate limits (`src/lib/server/api-security.ts`, SQL) | in-memory buckets, `api_rate_limits` rows | consume | per-instance memory, fallback, window edges |
| Wallet verification (`src/app/api/wallet`) | nonce hash and expiry in `profiles` | challenge, verify | check, then update without repeating the check |
| RPC retry (`src/lib/solana`) | attempt, endpoint | retry, failover | a busy endpoint is replaced by one that may be behind |
| AI review (`src/lib/ai`, `ai/review`, `AiPanel.tsx`) | report in the row, numbers and hashes on chain | ask, normalise, record, save, verify | a model may answer anything; two records that must agree are written one after the other |
| SafeTags (`src/app/api/tags`, `t/[code]`) | `safe_tags`, `safe_tag_reports` | create, switch off and on, report, resolve | count, then insert |
| Pages (`bounties/[id]`, `ClaimWorkflowPanel`, arbitration desk) | none | offer and send the program's steps | conditions of the program written a second time |
| Notifications, session recovery, events, scripts | - | - | presentation and operations |

How they interact: users sign instructions; the program is the only place where
tokens move. The server's routes read the chain, never write tokens (the AI
review instruction stores a score only), and mirror states into Postgres. The
client repairs a failed mirror update through its outbox and a periodic
reconcile.

What makes each part correct is listed with the properties below; `PROJECT.json`
lists under `hazards` what is hard to test, at its line, with the properties that
would notice it going wrong.

## Modules

- `Bounty` - the bounty account, the vault, the wallets' balances and the clock;
  creation, funding, cancellation, refund. The token program, transfers made
  directly to the vault, and the clock are external.
- `ClaimsV2` (extends `Bounty`) - the ClaimV2 accounts and every v2 instruction
  on them. `SettleTo`, `ResumeAfterV2Reject`, `MayDispute` and `EnterDispute`
  are the code the instructions share; `X...Accounts` operators hold what the
  account constraints of `contexts.rs` check before a handler runs.
- `Arbitration` (extends `ClaimsV2`) - panel, cases and votes.
- `Escrow` (extends `Arbitration`) - composes the three into one bounty's life:
  `Init`, `Next`, fairness, the properties.
- `EscrowPromise` - the abstract escrow: deposits up to the price, then one
  payment of the whole price, to one finder or back to the owner.
- `EscrowWindow` - `Escrow` with a history variable: which claims ever had a
  usable dispute window after their rejection.
- `LegacyEscrow` (extends `Bounty`) - the v1 instructions and their properties.
- `ClaimLifecycle` - what the ClaimV2 accounts of a bounty look like to those who
  only read them. `Escrow` implements it (`FollowsLifecycle`, checked and proved),
  and the models of the database stand on it instead of on the whole program.
- `ClaimWorkflow` (extends `ClaimLifecycle`) - the `claims`, `claim_handovers` and
  `bounties` rows of one bounty, API requests as sessions that lock rows one by
  one, and `apply_claim_workflow_action`.
- `ChainMirror` (extends `ClaimWorkflow`) - every other request that writes those
  rows: sync, reconcile, evidence upload, AI review; `Init`, `Next`, fairness and
  properties of the whole.
- `Pages` (extends `Escrow`) - what the pages offer each viewer in each state, and
  the program step behind each button. A page keeps no state, so this module has
  operators and properties and no actions of its own.

The parts around these are modules of their own, each with its variables, `...Init`
and `...Next`:

- `CreateListing` - creating, funding and cancelling a listing from the form and
  from the listing's page: simulate, sign, send, confirm, retry, with endpoints
  that are busy or behind, transactions that land late, fail when executed or
  expire, and the answer the mirror gives to the contents that were announced.
- `Evidence` - a claim's contents from the form through upload, commitment, send,
  confirmation and sync to its row, in two forms of one finder, with refreshes that
  flush the outbox at the same time; and which texts
  the forms let through, the routes take and the hash tells apart.
- `Outbox` - one browser's sync outbox: operations, flushes, polls and realtime
  refreshes as tasks that interleave at every `await`, a server that goes up and
  down, pages that are closed, entries that age.
- `Instructions` - every transaction the client builds (accounts, order, flags,
  signers, length) against the account constraints of the program.
- `AccountLayout` - the accounts the program writes, in every version they were
  written by, against the offsets the client decodes them at.
- `Attestation` - attestations and reputations over several bounties.
- `DevnetGrants` - sponsored fees (quota, receipts) and the faucet.
- `RateLimit` - the in-memory and the shared window of one key.
- `WalletLink` - challenge and verification of a wallet, in several pages.
- `SafeTags` - tags, visits and messages with their limits.
- `AiReview` - from a model's reply to the recorded and the saved review and the
  panel's verdict on them.

Proof modules: `EscrowProofs` and `EscrowInvariantProofs` (about `Escrow`),
`PagesProofs` (`Pages` and `EscrowWindow`), `LegacyProofs` (`LegacyEscrow`),
`MirrorProofs` (`ChainMirror`), `AppProofs` (`SafeTags`, `DevnetGrants`, `WalletLink`,
`CreateListing`, `Evidence`), `ServerProofs` (`AiReview`, `RateLimit`, `Attestation`)
and `ClientProofs` (`Outbox`, `Instructions`).
Instances for TLC: `MCEscrow`, `MCEscrowWindow`, `MCLegacyEscrow`, `MCChainMirror`,
`MCCreateListing`, and `MCApp`, which joins the parts around the escrow: a
behaviour follows one of them, chosen at the start (`part`), while the others
stay in an initial state. They share no variable, so the sum of their instances
shows as much as the product, and is small.

Each instruction is one action: Solana runs an instruction atomically and a
failed `require!` or checked operation aborts it, so a guard of the code is a
conjunct of the action wherever it stands in the handler. Signers, arbiters,
amounts and choices are quantified, so wrong signers are tried and refused.
A bounty's `owner` and a claim's `bounty` and `finder` never change after
creation and are the constant `Owner` and the index of `claim`.
`claim.workflow_version` is a copy of the bounty's and is read as such.

Left out of the accounts: hashes, ids, bumps, AI scores and the created/updated
times. No guard reads them, except that hashes must not be zero, which the
inputs satisfy. Amounts are natural numbers; the code's u64 arithmetic is
checked, and an amount never exceeds `reward_amount`, so no bound below 2^64
is lost. Timestamps keep their checked addition (`CheckedAdd`, `MaxTime`).

In the database models a step is what runs without an `await` or a wait for a
lock in between. A transaction (`apply_claim_workflow_action`,
`sync_claim_chain_state`) takes its row locks one per step (`Lock`), in the order
of its `SELECT ... FOR UPDATE`s, and writes everything in the step in which it
commits; until then it can die or be Postgres' deadlock victim without a trace.
A statement outside a transaction is one step that waits for the row. What a
request read from the chain or the database stays in its session record and may
be stale when used. `bounty_status` knows only `funded`, `disputed`, `released`;
`funded` stands for the statuses in which no claim locks the bounty or was paid.
Of a meeting's time only whether it is within thirty minutes is kept
(`handover[c].near`). Left out: message texts, notifications, the `version` and
time columns, which no guard of these requests reads, and users who are not a
party, whom the route refuses.

In `CreateListing`, `Evidence` and `Outbox` a step is what a page runs between two
`await`s. A transaction has a life of its own once it is sent: it lands, is
reverted or expires whether or not anybody still waits. The server's handlers are
single steps there, since `ChainMirror` looks inside them, and the program is
reduced to what the part needs (`ProgramAccepts`), since `Escrow` looks inside
it. What is retried inside one call (`withRpcReadRetry`) is one step that
succeeds or fails; retrying a send repeats the same bytes, hence the same
transaction, which is why it needs no step of its own.

`disturbed` (`Outbox`), `exposed` (`Evidence`), `reported` (`DevnetGrants`), `again` (`SafeTags`), `crossed`
(`AiReview`) and `twin` (`CreateListing`) are history variables (`reported` is a field of
a row). Each marks events of the code, named in its property's comment, from which
no handler protects what the property speaks of: the properties say that nothing
else harms it, and the hazards name the lines. They bound the harm and would not
notice it grow within the events they name.

Texts are a number of letters with blanks around them; pictures, reports and
challenges are compared by identity. Scores keep their range and the values a
model may answer instead of a number.

Operators whose name starts with `Mut` are deliberately wrong variants of the
operator that follows them: putting one in the place of the other must make the
named property fail (`mutants` in `PROJECT.json`), which shows that the property
notices such a slip. No specification uses them.

## Runs

| Run | What it checks | Result |
| --- | --- | --- |
| `escrow` | safety of one v2 bounty, refinement of `EscrowPromise` and `ClaimLifecycle`, the pages | holds |
| `escrow_live` | `DisputesEnd`, `FundsLeaveEscrow` under `FairSpec` | holds |
| `legacy` | v1 safety, liveness and refinement of `EscrowPromise` | holds |
| `mirror_handover` | handover, mirror and uploads of one claim, all at once | holds |
| `mirror_siblings` | a settlement closes the conversations of the claims it passes over | holds |
| `mirror_live` | `RequestsEnd`, `MirrorConverges` under `FairSpec` | holds |
| `app` | the parts around the escrow | holds |
| `tx_confirmed` | `ConfirmedMeansSucceeded` | violated, see Findings |
| `mirror_upload` | `UploadsAreNonDestructive` | violated, see Findings |
| `escrow_decision` | `DecisionStands` | violated, see Findings |
| `escrow_pending` | `PendingRejectionEnds` under `FairSpec` | violated, see Findings |
| `escrow_window` | `RejectionHadWindow` | violated, see Findings |

Properties of `Escrow`: `Backed` (the vault covers what is recorded, and a
payable bounty holds exactly its reward), `ActiveClaimsCounted` (the counter
that guards the refund counts the unresolved claims), `RefundLeavesNoOpenClaim`,
`DisputeLock` (the bounty is locked exactly while one claim is in dispute),
`SettlementMatchesClaim`, `VotesCounted`, and the action properties
`VerdictsAreFinal`, `DisputedPayoutAuthorized`, `RejectionWaitsForWindow`.

Properties of `ChainMirror`: `HandoverInStep` (workflow status and handover row,
written by different requests in different tables, tell the same story while the
claim is open), `AgreedByBoth`, `VerdictsAreReal` (no row shows a verdict the
chain has not reached, however late a request writes), `ClosedIsClosed` (no
action commits into a conversation that was closed while it waited),
`SettlementClosesSiblings`, and the liveness properties `RequestsEnd` and
`MirrorConverges` (the rows end at the chain's verdict).

Properties of `Pages`: `OfferedStepsAreAccepted` (a button's step would be accepted
by the program in the state the page shows, except where the pages are known not
to look: a draft funded in part, a sibling's dispute, an arbiter's own or overdue
case) and `FundsHaveAnExit` (while money is in the escrow, some party is offered a
step that moves towards its release, now or once a deadline has passed). They
assume that the mirror is in step with the chain, which `ChainMirror` and `Outbox`
say it ends up to be for every claim that has a row, and that viewer and cluster agree on the time.

Properties of the parts in `app`:

- `RetainedUnlessDisturbed`, `ViewConverges` (`Outbox`): no confirmed change is lost
  except by four named events, and even then the page ends with what the chain
  holds for every subject that has a row.
- `PaidOnce`, `ResumeSucceeds` (`CreateListing`): however often and wherever the
  owner presses, the reward is locked at most once; and an owner who keeps
  pressing ends with a funded listing whose contents the mirror takes.
- `EvidenceIsKept` (`Evidence`): a claim's contents are in its row or still in the
  browser that sends them; what a form lets through, the route takes and the
  row reproduces the committed hash; the row never shows other contents. Three
  events are excepted, and marked in `exposed`: the attempt was given up after its
  transaction had been sent, another form's entry replaced the claim's, or the entry
  was queued while a flush was under way. A flush starts whatever the outbox holds
  and writes the whole of it back (`db.ts:155-175`), so one begun for other entries
  forgets a claim that is queued meanwhile.
- `AccountsMatchProgram`, `DecodesWhatWasEncoded`: the client's instructions and
  decoders agree with the program whichever roles coincide and whichever version
  wrote the account.
- `ReputationMatchesAttestations`: reputations are the account of the attested
  returns.
- `GrantsAreBounded`, `BurstsAreBounded`, `TagLimitsHold`: limits that are checked
  first and used later are exceeded by less than the number of requests under
  way; a window that is not aligned lets at most two limits through. The sponsor
  pays the fee of a transaction that was executed, successful or not (`Paid`).
  `GrantsAreBounded` leaves out the rows a receipt ever reported as failed
  (`Reported`): they leave the quota although the fee was paid, and a receipt is
  taken for a row of any status with any signature, so that no multiple of the
  quota bounds them, only the limit of requests per minute.
- `LinkedWalletIsProven`: a linked wallet signed a challenge that names the account.
- `ReviewsAreCautious`, `ReportsVerify`: whatever a model replies becomes numbers the
  program takes, cautious without photos; the panel raises no false alarm, unless reviews
  crossed, a save was lost, or a recording failed unnoticed (`sendIx` does not look
  at the error of an executed transaction) or landed after its request had ended:
  all of these set `crossed`.

### Bounds, and why they are enough

- `escrow`: an owner, two finders (each may be arbiter and panel member too) and
  two more wallets, so that panels of three exist with and without a finder on
  them; reward 0 (refused) or 2, so that a partial funding exists; supply 3, so
  that an overfunding can be tried; deadlines 0 (refused) and 1; a rejection
  window of 1 and a resolution window of 2 time units, so that they expire in a
  different order than they open and a dispute outlasts a sibling's window;
  `MaxTime` 5, which covers two disputes one after the other and makes
  `checked_add` fail at the end; deposits of 1 up to `VaultCap`.
  The two finders are interchangeable and so are the two other wallets:
  symmetry is used, and the run has no liveness property.
- `escrow_live` and the three violated runs: one arbiter besides the finders,
  reward 1, `MaxTime` 12, large enough that no timestamp overflows; no symmetry.
- `legacy`: reward 2, supply 3, deadlines up to 2.
- Time advances only while a deadline lies ahead (`ClockMatters`, `LegacyTick`):
  every guard compares the clock with a deadline, so later ticks change nothing.
- `mirror_handover`: one claim, two concurrent requests, an upload and four workflow
  actions (propose, accept, deliver, and one more that must then be refused; or
  propose, cancel, propose again), any number of mirror updates, requests that die
  at any step (`MayDie`). Two requests show every race of two transactions.
- `mirror_siblings`: two claims, so that one settles while the other is open,
  rejected or disputed; an upload for each or a repeated one, and a review. No
  workflow actions: what they race with is a claim's own rows and its bounty's,
  as in `mirror_handover`.
- `mirror_live`: one claim, an upload and one workflow action, enough for two
  transactions that wait for each other; nobody dies, since the property speaks
  of requests that are answered. No symmetry.
- `mirror_upload`: two uploads and a review.
- The concurrent requests are interchangeable, and so are the claims: symmetry is
  used in the two safety runs of `ChainMirror`.
- `app`, part by part. Two tasks of the browser, one listing and one claim, two
  changes, one reload and outboxes of one and two entries: a flush races with one
  operation, and an outbox overflows. Two server instances, a limit of 2 in a
  window of 2. Three transactions for two tabs, so that one is alive while a
  second attempt is made. Two requests under way, a quota of 1 and three rows. Two
  accounts, two wallets, two pages, two challenges. Two bounties, three parties
  and counters that overflow at 2 and 3. Three wallets that may play every part;
  instructions with bounty ids of 1 and 32 bytes, at which lengths differ most, and
  accounts with ids of every length the program takes, 1 to 32. Three
  tags with quotas of one and two requests under way. Two reviews, of which one
  may be answered in every way and one in one. Two forms of one finder
  and two refreshes. The limits
  of the code (20 entries, 10 transactions, 2^64 - 1) are constants.
- `tx_confirmed`: two tabs and three transactions of `CreateListing`.
- `CHECK_DEADLOCK FALSE`: a released, refunded or cancelled bounty is finished.

### Fairness, and why the code justifies it

`FairSpec` assumes that the clock runs; that whoever wants the outcome sends the
permissionless instructions (`finalize_rejection_v2`, `timeout_dispute_v2`:
any signer may); and, for `FundsLeaveEscrow`, that the owner rejects pending
claims and asks for the refund, which is the owner's own interest. Nothing is
assumed of arbiters, panels or finders, and all assumptions are weak fairness:
an instruction that stays enabled is eventually sent. `LegacyEscrow` assumes
that the v1 arbiter decides, since v1 has no other way out of a dispute, and
excuses a dispute whose finder is that arbiter, which the program lets nobody
decide.

`ChainMirror` assumes that a request goes on when it can: strongly fair, because
Postgres queues those that wait for a row; and that every claim is reconciled
again and again, because the client of a party that has the application open
does so every minute (`FindBackProvider.tsx:146`). That assumption is strong
too, since the model has only as many sessions as `Sessions`. Nothing is assumed
of parties, wallets, uploads or reviews.

`MCApp` assumes weak fairness of what a browser does by itself: a request ends
(answered or failed), the refresh interval fires, minutes pass (`OutboxFairness`);
and, for `ResumeSucceeds`, that requests of an open tab end, that a transaction
which is sent again and again lands at some point (strong: a single one may
expire), and that the owner presses the form's button while it reports a failure
(`CreateFairness`), which is the retry the form asks for. Nothing makes the server
or the endpoints work: the properties ask for it (`<>[]up`, `<>[]calm`).

## Findings

1. `DecisionStands` (`lib.rs:420`): a release decided by quorum is turned into a
   rejection by `timeout_dispute_v2` when nobody finalizes it before the
   resolution deadline, against `docs/architecture-v2.md:73-74`.
2. `PendingRejectionEnds` (`lib.rs:409`): a claim pending rejection when a sibling
   settles can never be finalized (the counter is already 0), against the
   comment at `lib.rs:393-394`. No funds depend on it.
3. `RejectionHadWindow` (`lib.rs:594`): the dispute window of a rejected claim can
   pass while the bounty is locked by a sibling's dispute, against the comment
   at `lib.rs:392-393`.

4. `UploadsAreNonDestructive` (`src/app/api/bounties/claim/route.ts:124`): the upload
   decides what to write from a row it read before; an AI review saved in between
   is set back to `ai_report = null`, `status = 'submitted'`, against the comment
   at line 123. Only the status is repaired by the reconcile; the report is lost.

5. `ConfirmedMeansSucceeded` (`src/lib/findback/program/client.ts:272`): a transaction
   that passed its preflight and failed when executed is reported, and synced, as
   a success, against the banner of `Shell.tsx:121`; the error that
   `confirmTransaction` resolves with is never read. The same call records AI
  reviews (`AiReview`, `ChainMirror`): a reverted recording is saved in the database
  as if it stood on chain.

How far each of the five does hold is proved (`DecisionsStandUntilTimeout`,
`PendingUnlessPaid`, `WindowsAreReal`, `UploadsKeepWhatTheyRead`, `ConfirmationsDecide`;
see Proofs): the cases above are the only exceptions.

Noted while modelling, without a run: a claim whose confirmation is lost has no way
to its row, because the form sends before it syncs and a second submission is
refused by the program (`Evidence`, `exposed`): the owner's pages never show the
claim and cannot reject it, while `active_claims` keeps the refund waiting for it, so
that only an instruction sent without the app gets the reward out
(`FundsHaveAnExit` assumes that every claim has its row); a stale sync may set a row back from
`rejected` to `rejection_pending`, which lets messages in again until the next
reconcile (rows name chain states older than the chain, never states it did not
reach); the panel may be configured after an
earlier dispute ended, while `docs/architecture-v2.md:66` says before a dispute
begins; the refund transfers `amount_funded`, not the vault's full balance
(`docs/architecture-v2.md:61`), which differ after a direct deposit; a Draft that
was funded in part can only be recovered by funding the rest; a sponsored transaction
that was executed and failed costs the sponsor its fee and frees its place in the
daily quota (`sponsor/route.ts:80,184`).

## Proofs

### The escrow

`EscrowProofs` and `EscrowInvariantProofs` prove for every set of wallets and
finders, every reward, deadline and window, from `BountyAssumption`,
`ClaimsAssumption` and `DepositAssumption`:

| Theorem | Property | Argument |
| --- | --- | --- |
| `TypeCorrect` | `TypeOK` | inductive with `CaseInv`: a vote counter stays in its range only because no vote is counted once a decision is reached |
| `EscrowIsBacked` | `Backed` | inductive with the types |
| `OneDisputeAtATime` | `DisputeLock` | inductive with `Fresh` |
| `OneSettlement` | `SettlementMatchesClaim` | inductive with the types |
| `CounterIsExact`, `RefundsStrandNoClaim` | `ActiveClaimsCounted`, `RefundLeavesNoOpenClaim` | the counter is the cardinality of the undecided claims: each shape of a step adds one claim, removes one, or replaces a status by another undecided one; creation starts from no claims (`Fresh`) |
| `TallyIsHonest` | `VotesCounted` | a vote account is written once, so a vote adds one element to one of the two sets; a case is opened only from `NoCase` (`CaseInv`) |
| `VerdictsStay`, `RejectionsWait` | `VerdictsAreFinal`, `RejectionWaitsForWindow` | from the types and the shapes of a step |
| `PayoutsAreAuthorized` | `DisputedPayoutAuthorized` | from `VotesCounted` and `CasesUnderQuorum` (a case exists only in quorum mode) |
| `Implementation` | `KeepsPromise` | from `Backed` (a refund or settlement empties exactly the price) and `Fresh` (no v1 status) |
| `ClaimsFollowLifecycle` | `FollowsLifecycle` | from `DisputeLock` and `SettlementMatchesClaim`: while the bounty is funded no claim is in dispute or paid |

The argument is in two layers. Lemma `StepShapes` opens every instruction once
and says what it does to the fields the properties read (`Created`, `Funding`,
`Settled`, `DisputeOpened`, ...); the invariants are then proved shape by shape.
The inductive invariant is

    IInv == TypeOK /\ CaseInv /\ Fresh /\ CasesUnderQuorum /\ Safety

where `Safety` is the conjunction of the invariants of the run `escrow`. None of
`CaseInv`, `Fresh` and `CasesUnderQuorum` is a property of its own interest: they
exclude unreachable states (an undecided case with two equal votes, a claim
without a bounty, a v1 status on a v2 bounty, a panel case without a quorum mode)
from which a step would break the invariants.

### What the parties can do

`PagesProofs` proves, from the same assumptions:

| Theorem | Statement of the runs | Argument |
| --- | --- | --- |
| `ButtonsAreAccepted` | `OfferedStepsAreAccepted` | from `IInv`, `Scheduled` and `Orderly`, button by button |
| `ExitStaysOpen` | `FundsHaveAnExit` | from `IInv` and `Scheduled`, by what the claims wait for |
| `DecisionsStandUntilTimeout` | `DecisionStands`, refuted | only the timeout asks for no decision |
| `PendingUnlessPaid` | `PendingRejectionEnds`, refuted | the counter is exact, so it is positive unless the bounty was paid; a paid bounty takes no instruction |
| `WindowsAreReal` | `RejectionHadWindow`, refuted | a window starts when the rejection does, and every state in which the bounty is not locked is one in which the finder could dispute |

The first two state properties that the runs check with `ENABLED`, which the prover
cannot expand. Each button's action is therefore split into what it asks for and what
it writes (`FundStep`, `ListingSteps`, `ClaimPanelSteps`, `DeskSteps`: `Reject(f) <=>
RejectAccepted(f) /\ one equation for each variable`), and the theorems are about what
it asks for (`RejectAccepted`, ...). They are conditioned on the clock as the property
is: the ends of both windows, counted from now, are timestamps (`ClockFits`).

Two invariants are needed besides `IInv`. `Scheduled`: a bounty that exists has a
reward, and a claim that waits for a window has the end of it on record. `Orderly`: no
account is left half done, that is a draft lacks funds and has no claims (`Drafts`),
quorum mode is named exactly when there is a panel (`Panels`), and a case exists
exactly for disputes that began under one, carried out when they end (`Cases`). Which
exit is open depends on the claims: with none undecided the counter is zero and the
refund is offered; an undecided claim can be rejected, finalized or timed out, and the
counter it decrements is positive because it is exact; a disputed bounty has one
disputed claim.

The other three say how far the statements of the docs hold which the runs
`escrow_decision`, `escrow_pending` and `escrow_window` refute: a panel's decision
stands until the resolution deadline; a pending rejection can be finalized unless a
sibling was paid, and then nothing ever happens to it again; and a window can be used
except while the bounty is locked. What the runs find are thus the only exceptions.

### The v1 escrow

`LegacyProofs` proves of the v1 instructions, from `BountyAssumption`,
`LegacyAssumption` and `DepositAssumption`:

| Theorem | Property | Argument |
| --- | --- | --- |
| `FinderOccupies` | `FinderOfClaim` | every instruction that occupies the bounty sets the finder, the one that opens it again clears it |
| `LegacyImplementation` | `KeepsPromise` | the escrow holds exactly the reward in every status from which an instruction pays (`LegacyFunds`), so `accept_claim`, `resolve_dispute` and the refund each are one full payment |

Both come from `LegacyInv == BountyTypeOK /\ LegacyFunds /\ LegacyShape /\
FinderOfClaim`. `LegacyFunds` excludes a draft that holds its whole reward and a
payable bounty that does not; `LegacyShape` excludes the owner as finder, who
would be paid by a step the promise does not have.

### The database

`MirrorProofs` proves of `ChainMirror`, for every set of claims, any number of
requests under way and every bound on requests (`WorkflowAssumption`):

| Theorem | Property | Argument |
| --- | --- | --- |
| `VerdictsShownAreReal` | `VerdictsAreReal` | a request writes a verdict it read from the chain, and verdicts on the chain are final, so it is still true when it is written |
| `HandoversStayInStep` | `HandoverInStep` | the two tables change in one transaction that holds the claim's row |
| `HandoversAreAgreed` | `AgreedByBoth` | a proposal is somebody's, and only the other party accepts it |
| `ConversationsStayClosed` | `ClosedIsClosed` | the status a workflow action saw when it locked the row is the one at its commit |
| `SettlementsCloseSiblings` | `SettlementClosesSiblings` | only `sync_claim_chain_state` writes `settled`, and it writes the siblings in the same step |
| `UploadsKeepWhatTheyRead` | `UploadsAreNonDestructive`, refuted | a row with a report or a terminal status is `kept` by an upload that reads it, so one that does not keep it read something else |

The invariant is

    MirrorInv == MirrorTypeOK /\ SessionsFit /\ Exclusive /\ RowsOK

`Exclusive` says that two requests never hold the same row. `SessionsFit` says of
each request what its record is worth: a verdict it read is the chain's, and a
workflow status it saw under a lock is the row's. `RowsOK` are the properties
themselves. They are not inductive without `SessionsFit`, and `SessionsFit` needs
`Exclusive` and the finality of verdicts: a request that ends may then only write
rows it holds, from values that are still right. A request may die at any step
(`Dies`), which releases its rows and writes nothing.

`UploadsKeepWhatTheyRead` is the extent of what `mirror_upload` refutes: nothing but
an upload that had found no row loses a report; what an upload loses was not there
when it read; and no conversation changes its stage by it. It needs that only a claim
with a row has a report (`Reported`), which mirror updates keep because one that
writes a claim has found its account (`Found`).

### The app

`AppProofs` proves, each for one module of the run `app` with its own `Init` and
`Next`:

| Theorem | Property | Argument |
| --- | --- | --- |
| `TagLimits` | `TagLimitsHold` | a request between its count and its insert takes a place: tags kept plus creations past the count stay below the quota plus all creations, and the same for messages |
| `GrantsStayBounded` | `GrantsAreBounded` | the sponsor: the rows no receipt has reported as failed (`Owed`) and the requests past the count are fewer than the quota plus the requests, since the quota counts every such row when it lets one through, and every executed transaction has its row; the faucet: the balance and what the requests under way will mint (`Promised`, a set of single tokens) is at most a target for each request that has begun |
| `LinksAreProven` | `LinkedWalletIsProven` | a page that verifies or links holds the proof of the wallet that signed, for the account it names |
| `RewardIsLockedOnce` | `PaidOnce` | what a transaction does is fixed when it is built (`DeedsKnown`), and the program judges it by the bounty it finds, not by what its tab had read |
| `ConfirmationsDecide` | `ConfirmedMeansSucceeded`, refuted | a transaction is refused for a reason that stays: the listing is there already, funded or cancelled (`DeedFits`); each tab speaks of a transaction of its own (`Apart`), which was processed (`TabFits`) |
| `ContentsAreKept` | `EvidenceIsKept` | an entry of the outbox that says its transaction landed is the committed form's (`Honest`); while it is in the outbox and not marked as exposed, every flush under way has read that very entry, so what is written back is the entry or, once it was delivered, nothing (`ContentsKept`) |

`ServerProofs` proves of `AiReview`, for any number of reviews:

| Theorem | Property | Argument |
| --- | --- | --- |
| `ReportIsCautious` | | the clamps and caps of the report, for every integer a model may answer |
| `ReviewsAreAlwaysCautious` | `ReviewsAreCautious` | every stored report was made by `Report`, and the account's numbers are those of the review it names (`ReviewInv`) |
| `ReportsAlwaysVerify` | `ReportsVerify` | until `crossed` is set, by a crossing, a lost save, or a recording that failed unnoticed or landed late, at most one is between its record and its save and it is the one on chain, and when none is, the saved one is (`TrailInv`) |

and of `RateLimit` and `Attestation`:

| Theorem | Property | Argument |
| --- | --- | --- |
| `BurstsStayBounded` | `BurstsAreBounded` | an unexpired bucket has counted every request since it began, and what is left of the history before it was let through by one earlier bucket, hence at most a limit (`GateInv`). The bound of twice the limit is the sum of the two; alone it is not inductive |
| `ReputationAlwaysMatches` | `ReputationMatchesAttestations` | a claim is settled once and keeps its reward from then on (`SettledInv`), so an attestation adds one new claim, and as many tokens as it paid, to two accounts (`Vouched`) |

`ClientProofs` proves of `Outbox`, for any number of tasks, subjects and rooms, and of
`Instructions`, for any parties and bounty ids of every length:

| Theorem | Property | Argument |
| --- | --- | --- |
| `ChangesAreRetained` | `RetainedUnlessDisturbed` | every list that may yet become the outbox covers every change that the mirror lacks: the outbox itself, and for each task that flushes, what it still has to send with what failed (`OutboxInv`) |
| `TransactionsAreAccepted` | `AccountsMatchProgram` | each instruction is what the program demands to the letter (`Exact`), a message only adds privileges, and its length is bounded by what its instructions have at most, whichever accounts coincide |

The property of the outbox alone is not inductive: a flush that ends writes back a
list it read long before, and two pages may flush the same list. That several tasks
flush at once is harmless, because a delivery brings the whole state of its subject to
the mirror; only an entry that is queued during a flush is in no such list, which is
what `disturbed` records. `OutboxInv` says nothing once it is set.

The transactions are compared instruction by instruction (`OwnersDemands`,
`ArbitersDemands`, `AnybodysDemands`), with parties that may or may not coincide. That
accounts coincide can only merge keys and privileges, so a message has at most as many
keys as its instructions have accounts (`AddressesAreFew`), and the longest one, the
last word on a dispute with the attestation, is bounded by 1198 bytes of 1232. The
signers are computed exactly: the wallet, and the sponsor where it pays.

Sums are written as cardinalities of sets of units (`Requests` numbers the requests of
a tick, `Tokens` the tokens a claim was paid, `Promised` those a request will mint,
`TotalSize` the bytes of consecutive parts), so that the proofs use the library's
facts about `Cardinality` where a recursive sum would need an induction. `Filtered`
numbers the kept places for the same reason.

The assumptions are those of the modules: quotas, limits and windows are positive,
tags, slips and requests under way are finite sets, and the constant that stands for
nobody is not a party (`Nobody \notin Parties`, in the code the default public key).

### Only model-checked

Every invariant of the runs is proved for every value of the constants, except three:

- `Pages.OfferedStepsAreAccepted` and `Pages.FundsHaveAnExit` speak of ENABLED, which
  the prover cannot expand; `ButtonsAreAccepted` and `ExitStaysOpen` prove both with
  the guards of the actions in its place;
- `DecodesWhatWasEncoded` compares encodings that are built by folding over fields,
  which would need induction over data. It has no need of a proof: its only parameter
  is the length of a bounty id, and TLC enumerates the accounts of every kind and
  version with ids of all 32 lengths.

The liveness properties (`DisputesEnd`, both `FundsLeaveEscrow`, `RequestsEnd`,
`MirrorConverges`, `ViewConverges`, `ResumeSucceeds`) rest on fairness, which is out of
the prover's reach too. The runs that expect a violation refute; the theorems prove
how far each of those five statements does hold.

## Not modelled

- Program events (`events.rs`): written to the log, read by no instruction and by
  nothing in the client.
- Session recovery of the authentication service (`auth-recovery.ts`,
  `AuthProvider.tsx`, `middleware.ts`): repairs cookies of an external library, whose
  behaviour the repository does not fix.
- Deployment, smoke and release scripts: run by hand, one step after the other.
- Notifications: written by the routes and marked as read; nothing else reads them.
- Layout and wording of the pages, the tour, pictures (compression, storage,
  signatures of formats), prompts and the language model, delays and jitter of
  retries.
- Rows that an account inserts into `safe_tags` itself, past the routes: row level
  security lets owners do so (`2026072002_safe_tags.sql:41-45`), and nothing counts
  them. `SafeTags` speaks of the routes.
- `bounties/register` inside `ChainMirror` (its acceptance is part of `CreateListing` and
  `Evidence`), the v1 branches of the mirror's routes, and a listing's page reading
  a mirror that lags (`Pages` assumes that it does not).

In reach and not done: `FundsHaveAnExit` under a mirror that lags.

What is out of the prover's reach and checked by TLC only is listed under Proofs.
