------------------------------ MODULE AiReview ------------------------------
(***************************************************************************)
(* AI reviews of one claim (lib/ai, api/ai/review of protocol 2, the panel *)
(* of AiPanel.tsx): what a language model's reply is turned into, and the  *)
(* three places where a review ends up.  A request asks the model, records *)
(* the review's numbers and hashes in the claim's account, and then saves  *)
(* the report in the database; the panel shows the saved report and checks *)
(* it against the account.  Owner and finder may ask at the same time.     *)
(*                                                                         *)
(* Reports are numbered: no two have the same hash, as each holds its time.*)
(* Scores are in tenths, confidences in hundredths.                        *)
(***************************************************************************)
EXTENDS Integers, FiniteSets

CONSTANTS
  Reviews,   \* bound: the reviews asked for, numbered
  Varied     \* bound: those the model may answer in every way

ASSUME ReviewsAssumption == Reviews \subseteq Nat \ {0} /\ Varied \subseteq Reviews

VARIABLES
  photos,   \* whose photos the request attaches
  review,   \* the requests
  onChain,  \* the review recorded in the claim's account
  saved,    \* the report in the claim's row
  panel,    \* what a page shows of it
  crossed   \* a save was lost, reviews overtook each other, or a recording
            \* failed unnoticed or came after its request

reviewVars == <<photos, review, onChain, saved, panel, crossed>>

NaN == -9999
None == 0

-----------------------------------------------------------------------------
(* callOpenAiCompatible: what becomes of a reply.                          *)

\* Numbers a model may answer, and what it may answer instead of one.
RawScores == {NaN, -50, 399, 699, 1100}
RawDecisions == {"ACCEPT", "REVIEW", "REJECT", "approve"}
RawConfidences == {NaN, 90}

Replies(n) ==
  IF n \in Varied
  THEN [score : RawScores, decision : RawDecisions, signals : {0, 2, 13},
        confidence : RawConfidences]
  ELSE {[score |-> 850, decision |-> "ACCEPT", signals |-> 0, confidence |-> 90]}

Smaller(a, b) == IF a <= b THEN a ELSE b
ClampNum(n, lo, hi) ==
  IF n = NaN THEN lo ELSE IF n < lo THEN lo ELSE Smaller(n, hi)

ParsedDecision(reply) ==
  IF reply.decision \in {"ACCEPT", "REVIEW", "REJECT"} THEN reply.decision ELSE "REVIEW"

MutDecision(reply, p) ==
  IF ~p.owner /\ ParsedDecision(reply) = "ACCEPT" THEN "REVIEW" ELSE ParsedDecision(reply)

\* Without a photo of the finder's there is no proof of possession.
Decision(reply, p) ==
  IF ~p.finder /\ ParsedDecision(reply) = "ACCEPT" THEN "REVIEW" ELSE ParsedDecision(reply)

ScoreCap(p) == IF p.finder THEN 1000 ELSE 690

ConfidenceCap(p) ==
  IF p.owner /\ p.finder THEN 100 ELSE IF p.owner \/ p.finder THEN 80 ELSE 55

Report(reply, p) ==
  [score      |-> ClampNum(Smaller(reply.score, ScoreCap(p)), 0, 1000),
   decision   |-> Decision(reply, p),
   signals    |-> Smaller(reply.signals, 12),
   confidence |-> ClampNum(Smaller(reply.confidence, ConfidenceCap(p)), 0, 100)]

DecisionToU8(d) == CASE d = "ACCEPT" -> 0 [] d = "REJECT" -> 2 [] OTHER -> 1

RiskToU8(report) ==
  CASE report.signals >= 2 \/ report.score < 400 -> 2
    [] report.signals = 1 \/ report.score < 700 -> 1
    [] OTHER -> 0

\* A byte of the instruction takes the whole part of a score.
Recorded(report) ==
  [score |-> report.score \div 10, risk |-> RiskToU8(report),
   decision |-> DecisionToU8(report.decision)]

-----------------------------------------------------------------------------
(* POST ai/review.                                                         *)

Unasked == [pc |-> "unasked", report |-> None]
Nothing == [of |-> None, numbers |-> None]
Blank == [shown |-> None, says |-> "nothing"]

ReviewInit ==
  /\ photos \in [owner : BOOLEAN, finder : BOOLEAN]
  /\ review = [n \in Reviews |-> Unasked]
  /\ onChain = Nothing
  /\ saved = None
  /\ panel = Blank
  /\ crossed = FALSE

\* Without a reply, or with one that is no JSON, the request just ends.
AskModel(n) ==
  /\ review[n].pc = "unasked"
  /\ \A k \in Reviews : k < n => review[k].pc # "unasked"
  /\ \E reply \in Replies(n) :
       review' = [review EXCEPT ![n] = [pc |-> "record", report |-> Report(reply, photos)]]
  /\ UNCHANGED <<photos, onChain, saved, panel, crossed>>

MutSaveFirst(n) ==
  /\ review[n].pc = "record"
  /\ saved' = n
  /\ review' = [review EXCEPT ![n].pc = "save"]
  /\ UNCHANGED <<photos, onChain, panel, crossed>>

Records(n) == onChain' = [of |-> n, numbers |-> Recorded(review[n].report)]

\* record_ai_review_v2, signed by the server's arbiter key.  A transaction that
\* is executed and fails is taken for one that succeeded (client.ts:272-278).
\* The request ends when the transaction is refused or expires, or when its
\* answer is lost: then it may still land.
RecordAiReview(n) ==
  /\ review[n].pc = "record"
  /\ \/ /\ Records(n)
        /\ review' = [review EXCEPT ![n].pc = "save"]
        /\ crossed' = (crossed \/ \E k \in Reviews : review[k].pc = "save")
     \/ /\ review' = [review EXCEPT ![n].pc = "save"]
        /\ crossed' = TRUE
        /\ UNCHANGED onChain
     \/ /\ \E end \in {"failed", "adrift"} : review' = [review EXCEPT ![n].pc = end]
        /\ UNCHANGED <<onChain, crossed>>
  /\ UNCHANGED <<photos, saved, panel>>

RecordingLandsLate(n) ==
  /\ review[n].pc = "adrift"
  /\ Records(n)
  /\ review' = [review EXCEPT ![n].pc = "failed"]
  /\ crossed' = TRUE
  /\ UNCHANGED <<photos, saved, panel>>

\* The update fails, or the request dies before it.
SaveReport(n) ==
  /\ review[n].pc = "save"
  /\ review' = [review EXCEPT ![n].pc = "done"]
  /\ \/ saved' = n /\ UNCHANGED crossed
     \/ crossed' = TRUE /\ UNCHANGED saved
  /\ UNCHANGED <<photos, onChain, panel>>

-----------------------------------------------------------------------------
(* The panel.                                                              *)

\* A refresh of the page; another report starts another verification.
ShowReport ==
  /\ panel' = IF saved = panel.shown THEN panel
              ELSE [shown |-> saved, says |-> "checking"]
  /\ UNCHANGED <<photos, review, onChain, saved, crossed>>

\* The report's hash, computed anew, is the one in the account.
Matches == onChain.of = panel.shown

\* An answer for a report that is no longer shown was cancelled.
VerifyReport ==
  /\ panel.says = "checking"
  /\ \E says \in {IF Matches THEN "verified" ELSE "mismatch", "unavailable"} :
       panel' = [panel EXCEPT !.says = says]
  /\ UNCHANGED <<photos, review, onChain, saved, crossed>>

\* The page is opened again.
OpenPanel ==
  /\ panel' = Blank
  /\ UNCHANGED <<photos, review, onChain, saved, crossed>>

ReviewNext ==
  \/ \E n \in Reviews : \/ AskModel(n) \/ RecordAiReview(n)
                        \/ RecordingLandsLate(n) \/ SaveReport(n)
  \/ ShowReport \/ VerifyReport \/ OpenPanel

-----------------------------------------------------------------------------
(* Properties.                                                             *)

\* Whatever a model answers, the program takes the numbers recorded for it,
\* no review without a photo of the finder's recommends to accept, or claims
\* a low risk or a good score ("never let text-only evidence become
\* auto-acceptable", agent.ts:163), none without both photos is sure of
\* itself, and the recorded risk is the one anybody computes from the recorded
\* score and the report's signals (types.ts:39).
ReviewsAreCautious ==
  onChain # Nothing =>
    LET numbers == onChain.numbers
    IN  /\ numbers.score \in 0..100
        /\ ~photos.finder => numbers.decision # 0 /\ numbers.risk # 0 /\ numbers.score < 70
        /\ numbers.risk = RiskToU8([score   |-> numbers.score * 10,
                                    signals |-> review[onChain.of].report.signals])
        /\ ~(photos.owner /\ photos.finder) => review[onChain.of].report.confidence <= 80

\* Between requests the saved report is the recorded one, and the panel raises
\* no false alarm about it, unless a save was lost, two reviews were recorded
\* before either was saved, or a recording failed without being noticed or landed
\* after its request had ended: then the panel warns of a mismatch until the
\* claim is reviewed again (review/route.ts:214-241, client.ts:272-278,
\* AiPanel.tsx:95-104).
ReportsVerify ==
  ~crossed /\ (\A n \in Reviews : review[n].pc # "save") =>
    saved = onChain.of /\ (panel.shown = saved => panel.says # "mismatch")
=============================================================================
