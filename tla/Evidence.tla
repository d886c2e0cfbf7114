------------------------------ MODULE Evidence ------------------------------
(***************************************************************************)
(* The contents behind the hashes: what a finder types and photographs     *)
(* ([id]/claim/page.tsx, submitClaim), what the ClaimV2 account commits    *)
(* to, and what bounties/claim stores; a claim whose contents never arrive *)
(* can be neither reviewed nor shown.  Two forms of one finder may be open *)
(* and worded differently; a form keeps its wording over its attempts.     *)
(* The outbox has one entry for claims of a finder about a bounty, beside  *)
(* entries of other things; how many it holds, and for how long, is looked *)
(* at in Outbox.                                                           *)
(***************************************************************************)
EXTENDS Integers, FiniteSets

CONSTANTS
  Forms,
  Refreshes  \* the refreshes that the browser's pages have under way at a time

VARIABLES
  pictured,    \* the finder attaches a photo
  form,        \* where each form is, and what became of its transaction
  late,        \* forms whose given-up transaction may still land
  committed,   \* the form whose evidence hash the ClaimV2 account holds
  evidence,    \* the form whose contents the claims row holds
  queued,      \* the outbox' entry for the claim
  flush,       \* where each refresh is, and what it will write back of that entry
  exposed      \* forms whose contents the browser may have dropped: given up
               \* after landing, replaced in the outbox, queued during a flush

evidenceVars == <<pictured, form, late, committed, evidence, queued, flush, exposed>>

NoForm == "no form"

ASSUME EvidenceAssumption == NoForm \notin Forms

NoEntry == [by |-> NoForm, lands |-> FALSE]
Empty == [pc |-> "empty", tx |-> "none"]
AtRest == [pc |-> "rest", entry |-> NoEntry]

EvidenceInit ==
  /\ pictured \in BOOLEAN
  /\ form = [f \in Forms |-> Empty]
  /\ late = {}
  /\ committed = NoForm
  /\ evidence = NoForm
  /\ queued = NoEntry
  /\ flush = [r \in Refreshes |-> AtRest]
  /\ exposed = {}

-----------------------------------------------------------------------------
(* Texts: a place, which stands for every field.  Letters may be composed  *)
(* or not, blanks stand around the text.                                   *)

\* Bound: lengths on both sides of every limit; a field takes 180.
Typed ==
  {t \in [letters : {1, 2, 3, 178, 180}, blanks : {0, 2}, composed : BOOLEAN] :
     t.letters + t.blanks <= 180}

Length(t) == t.letters + t.blanks
Trim(t) == [t EXCEPT !.blanks = 0]
Slice(t, n) == IF Length(t) <= n THEN t ELSE [t EXCEPT !.letters = n - t.blanks]

\* canonicalText: what a hash distinguishes.
CanonicalText(t) == [t EXCEPT !.composed = TRUE]

\* The claim page and the create page send trimmed texts.
Offered == {Trim(t) : t \in {u \in Typed : Trim(u).letters >= 3}}
OfferedListings == {Trim(t) : t \in {u \in Typed : Trim(u).letters > 0}}

\* bounties/claim: guards, and what is stored.
TakesText(t) == Trim(t).letters >= 3 /\ Length(t) <= 200

StoredText(t) == Slice(t, 200)

\* bounties/register.
StoredListingText(t) == Slice(Trim(t), 180)

\* media/view and ai/review compute the hash anew from the row.
Recomputes(stored, t) == CanonicalText(stored) = CanonicalText(t)

-----------------------------------------------------------------------------
(* submitClaim.                                                            *)

Stands(f, pc) == form[f].pc = pc
Turns(f, pc) == form' = [form EXCEPT ![f].pc = pc]

\* The attempt ends; the transaction, if there is one, is asked about no more.
GivesUp(f) ==
  /\ form' = [form EXCEPT ![f] = Empty]
  /\ late' = IF form[f].tx = "sent" THEN late \cup {f} ELSE late
  /\ exposed' = IF form[f].tx = "landed" THEN exposed \cup {f} ELSE exposed

SubmitClaimForm(f) ==
  /\ Stands(f, "empty")
  /\ Turns(f, IF pictured THEN "upload" ELSE "send")
  /\ UNCHANGED <<pictured, late, committed, evidence, queued, flush, exposed>>

\* uploadPrivateMedia: every attempt stores a picture of its own, which
\* nothing changes or removes.
UploadPrivateMedia(f) ==
  /\ Stands(f, "upload")
  /\ \/ Turns(f, "send") /\ UNCHANGED <<late, exposed>>
     \/ GivesUp(f)
  /\ UNCHANGED <<pictured, committed, evidence, queued, flush>>

\* Simulated, signed and sent; the answer may be lost.
SendEvidence(f) ==
  /\ Stands(f, "send")
  /\ \/ /\ committed = NoForm
        /\ \/ /\ form' = [form EXCEPT ![f] = [pc |-> "confirm", tx |-> "sent"]]
              /\ UNCHANGED late
           \/ form' = [form EXCEPT ![f] = Empty] /\ late' = late \cup {f}
        /\ UNCHANGED exposed
     \/ GivesUp(f)
  /\ UNCHANGED <<pictured, committed, evidence, queued, flush>>

\* A finder has one ClaimV2 account a bounty.
EvidenceLands(f) ==
  /\ form[f].tx = "sent"
  /\ form' = [form EXCEPT ![f].tx = IF committed = NoForm THEN "landed" ELSE "reverted"]
  /\ committed' = IF committed = NoForm THEN f ELSE committed
  /\ UNCHANGED <<pictured, late, evidence, queued, flush, exposed>>

EvidenceExpires(f) ==
  /\ form[f].tx = "sent"
  /\ form' = [form EXCEPT ![f].tx = "expired"]
  /\ UNCHANGED <<pictured, late, committed, evidence, queued, flush, exposed>>

LateEvidence(f) ==
  /\ f \in late
  /\ late' = late \ {f}
  /\ \/ /\ committed = NoForm
        /\ committed' = f
        /\ exposed' = exposed \cup {f}
     \/ UNCHANGED <<committed, exposed>>
  /\ UNCHANGED <<pictured, form, evidence, queued, flush>>

\* Whether it succeeded is not looked at.
ConfirmEvidence(f) ==
  /\ Stands(f, "confirm")
  /\ \/ /\ form[f].tx \in {"landed", "reverted"}
        /\ Turns(f, "sync")
        /\ UNCHANGED <<late, exposed>>
     \/ GivesUp(f)
  /\ UNCHANGED <<pictured, committed, evidence, queued, flush>>

-----------------------------------------------------------------------------
(* bounties/claim and the outbox.                                          *)

\* The row needs the account's own contents, and a transaction that succeeded.
Accepts(entry) == entry.lands /\ committed = entry.by

MutQueues(entry) == UNCHANGED <<queued, exposed>>

Flushing == \E r \in Refreshes : flush[r].pc # "rest"

\* Replaces another form's entry, and will be overwritten by a flush under way.
Queues(entry) ==
  /\ queued' = entry
  /\ exposed' = exposed \cup
       {f \in Forms : (f = queued.by /\ queued # entry) \/ (f = entry.by /\ Flushing)}

SyncClaim(f) ==
  /\ Stands(f, "sync")
  /\ form' = [form EXCEPT ![f] = [pc |-> "thanks", tx |-> "none"]]
  /\ LET entry == [by |-> f, lands |-> form[f].tx = "landed"]
     IN  \/ Accepts(entry) /\ evidence' = f /\ UNCHANGED <<queued, exposed>>
         \/ Accepts(entry) /\ evidence' = f /\ Queues(entry)
         \/ Queues(entry) /\ UNCHANGED evidence
  /\ UNCHANGED <<pictured, late, committed, flush>>

\* A flush runs whatever the outbox holds: the claim's entry, others, or both.
FlushClaimReads(r) ==
  /\ flush[r].pc = "rest"
  /\ flush' = [flush EXCEPT ![r] = [pc |-> "send", entry |-> queued]]
  /\ UNCHANGED <<pictured, form, late, committed, evidence, queued, exposed>>

\* The entries are sent one after the other, and those that fail are kept; the
\* answer may be lost.
FlushClaimSends(r) ==
  /\ flush[r].pc = "send"
  /\ LET entry == flush[r].entry
     IN  \/ /\ Accepts(entry)
            /\ evidence' = entry.by
            /\ \E left \in {NoEntry, entry} :
                 flush' = [flush EXCEPT ![r] = [pc |-> "end", entry |-> left]]
         \/ /\ flush' = [flush EXCEPT ![r].pc = "end"]
            /\ UNCHANGED evidence
  /\ UNCHANGED <<pictured, form, late, committed, queued, exposed>>

\* The whole outbox is written anew, or removed: what was queued meanwhile goes.
FlushClaimEnds(r) ==
  /\ flush[r].pc = "end"
  /\ queued' = flush[r].entry
  /\ flush' = [flush EXCEPT ![r] = AtRest]
  /\ UNCHANGED <<pictured, form, late, committed, evidence, exposed>>

\* Its page is closed.
FlushClaimStops(r) ==
  /\ flush[r].pc # "rest"
  /\ flush' = [flush EXCEPT ![r] = AtRest]
  /\ UNCHANGED <<pictured, form, late, committed, evidence, queued, exposed>>

\* The page is left, in the middle of an attempt or after it, and may be
\* opened again with the same wording.
LeavePage(f) ==
  /\ form[f] # Empty
  /\ GivesUp(f)
  /\ UNCHANGED <<pictured, committed, evidence, queued, flush>>

EvidenceNext ==
  \/ \E f \in Forms :
       \/ SubmitClaimForm(f) \/ UploadPrivateMedia(f) \/ SendEvidence(f)
       \/ EvidenceLands(f) \/ EvidenceExpires(f) \/ LateEvidence(f)
       \/ ConfirmEvidence(f) \/ SyncClaim(f) \/ LeavePage(f)
  \/ \E r \in Refreshes :
       \/ FlushClaimReads(r) \/ FlushClaimSends(r)
       \/ FlushClaimEnds(r) \/ FlushClaimStops(r)

-----------------------------------------------------------------------------
(* Properties.                                                             *)

\* The forms, the routes and the hash agree on texts: what a form lets
\* through, the route takes, and what the row keeps has the committed hash.
TextsSurvive ==
  /\ \A t \in Offered : TakesText(t) /\ Recomputes(StoredText(t), t)
  /\ \A t \in OfferedListings : Recomputes(StoredListingText(t), t)

\* A claim's contents are in the row, or still in the browser that will send
\* them, unless one of three things happened to the committed form: its attempt
\* was given up after its transaction had been sent, another form's entry took
\* its place in the outbox, or its entry was queued while a refresh was flushing
\* the outbox, which then writes back what it had read before (db.ts:155-175).
\* A refused upload, a failed sync, a lost answer or several refreshes of an
\* entry queued before them lose nothing; and the row never shows contents
\* other than the committed ones (bounties/claim).
EvidenceIsKept ==
  /\ TextsSurvive
  /\ evidence \in {NoForm, committed}
  /\ \/ committed \in {NoForm, evidence} \cup exposed
     \/ queued = [by |-> committed, lands |-> TRUE]
     \/ form[committed].tx = "landed"
=============================================================================
