---------------------------- MODULE ServerProofs ----------------------------
(***************************************************************************)
(* Theorems about what the server keeps count of and what it signs for:    *)
(* the AI claim review, for any number of requests of which any may be     *)
(* answered in every way; the gates of RateLimit, for every limit, every   *)
(* length of a window and any number of instances; and the attested        *)
(* returns of Attestation, for any number of wallets and bounties and      *)
(* every reward.                                                           *)
(***************************************************************************)
EXTENDS AiReview, RateLimit, Attestation, FiniteSetTheorems, SequenceTheorems, TLAPS

(***************************************************************************)
(* The AI claim review.  What a report may say is a fact about the         *)
(* functions that make it, for whatever numbers a model answers with       *)
(* (ReportIsCautious); the machine only carries a report from the reply to *)
(* the account (ReviewInv).  That a saved report verifies is a fact about  *)
(* the order of the steps: while nothing crossed, at most one review is    *)
(* between its record and its save, and it is the one the account holds    *)
(* (TrailInv).                                                             *)
(***************************************************************************)

ReviewSpec == ReviewInit /\ [][ReviewNext]_reviewVars

-----------------------------------------------------------------------------
(* What a report may say, whatever a model answers.                        *)

Photos == [owner : BOOLEAN, finder : BOOLEAN]

Reports ==
  [score : 0..1000, decision : {"ACCEPT", "REVIEW", "REJECT"},
   signals : Int, confidence : 0..100]

\* What a report may not say when a photo is missing.
Cautious(report, p) ==
  /\ ~p.finder => report.score <= 690 /\ report.decision # "ACCEPT"
  /\ ~(p.owner /\ p.finder) => report.confidence <= 80

\* Whatever integers and decision a model answers with, the report made of the
\* answer is in range and cautious about photos that are missing.
THEOREM ReportIsCautious ==
  ASSUME NEW reply, NEW p \in Photos,
         reply.score \in Int, reply.signals \in Int, reply.confidence \in Int
  PROVE  Report(reply, p) \in Reports /\ Cautious(Report(reply, p), p)
<1> DEFINE score == ClampNum(Smaller(reply.score, ScoreCap(p)), 0, 1000)
           confidence == ClampNum(Smaller(reply.confidence, ConfidenceCap(p)), 0, 100)
<1>1. /\ ScoreCap(p) \in Nat /\ (~p.finder => ScoreCap(p) = 690)
      /\ ConfidenceCap(p) \in Nat
      /\ ~(p.owner /\ p.finder) => ConfidenceCap(p) <= 80
  BY DEF ScoreCap, ConfidenceCap, Photos
<1>2. score \in 0..1000 /\ score <= ScoreCap(p)
  BY <1>1 DEF ClampNum, Smaller, NaN
<1>3. confidence \in 0..100 /\ confidence <= ConfidenceCap(p)
  BY <1>1 DEF ClampNum, Smaller, NaN
<1>4. Smaller(reply.signals, 12) \in Int
  BY DEF Smaller
<1>5. /\ Decision(reply, p) \in {"ACCEPT", "REVIEW", "REJECT"}
      /\ ~p.finder => Decision(reply, p) # "ACCEPT"
  BY DEF Decision, ParsedDecision
<1>6. Report(reply, p) = [score |-> score, decision |-> Decision(reply, p),
                          signals |-> Smaller(reply.signals, 12),
                          confidence |-> confidence]
  BY DEF Report
<1> HIDE DEF score, confidence
<1> QED
  BY <1>1, <1>2, <1>3, <1>4, <1>5, <1>6 DEF Cautious, Reports, Photos

\* The numbers recorded for a cautious report: a score of at most a hundred, a
\* risk that follows from that score and the report's signals, and, without a
\* photo of the finder's, neither acceptance nor a low risk (RecordAiReview).
LEMMA RecordedIsCautious ==
  ASSUME NEW report \in Reports, NEW p \in Photos, Cautious(report, p),
         NEW numbers, numbers = Recorded(report)
  PROVE  /\ numbers.score \in 0..100
         /\ ~p.finder => /\ numbers.decision # 0 /\ numbers.risk # 0
                         /\ numbers.score < 70
         /\ numbers.risk = RiskToU8([score   |-> numbers.score * 10,
                                     signals |-> report.signals])
<1>1. /\ report.score \div 10 \in 0..100
      /\ report.score < 400 <=> (report.score \div 10) * 10 < 400
      /\ report.score < 700 <=> (report.score \div 10) * 10 < 700
      /\ report.score <= 690 => report.score \div 10 < 70
  BY DEF Reports
<1>2. /\ numbers.score = report.score \div 10
      /\ numbers.risk = RiskToU8(report)
      /\ numbers.decision = DecisionToU8(report.decision)
  BY DEF Recorded
<1>3. RiskToU8(report) = RiskToU8([score |-> numbers.score * 10, signals |-> report.signals])
  BY <1>1, <1>2 DEF RiskToU8, Reports
<1>4. ~p.finder => RiskToU8(report) # 0 /\ DecisionToU8(report.decision) # 0
  BY DEF RiskToU8, DecisionToU8, Cautious, Reports
<1> QED
  BY <1>1, <1>2, <1>3, <1>4 DEF Cautious

\* A reply of the model's answers with integers.
LEMMA RepliesAreNumbers ==
  ASSUME NEW n, NEW reply \in Replies(n)
  PROVE  reply.score \in Int /\ reply.signals \in Int /\ reply.confidence \in Int
BY DEF Replies, RawScores, RawConfidences, NaN

-----------------------------------------------------------------------------
(* The reports on their way.                                               *)

Stages == {"unasked", "record", "adrift", "save", "failed", "done"}

\* Every review that was asked for has a cautious report, and the account's
\* numbers are those of the review it names.
ReviewInv ==
  /\ photos \in Photos
  /\ review \in [Reviews -> [pc : Stages, report : Reports \cup {None}]]
  /\ \A n \in Reviews : review[n].pc # "unasked" =>
       review[n].report \in Reports /\ Cautious(review[n].report, photos)
  /\ onChain # Nothing =>
       /\ onChain.of \in Reviews
       /\ review[onChain.of].pc # "unasked"
       /\ onChain.numbers = Recorded(review[onChain.of].report)

\* A new review gets a cautious report; the others keep theirs.
LEMMA AskModelKeepsInv ==
  ASSUME ReviewInv, NEW n \in Reviews, AskModel(n)
  PROVE  ReviewInv'
<1>1. PICK reply \in Replies(n) :
        review' = [review EXCEPT ![n] = [pc |-> "record", report |-> Report(reply, photos)]]
  BY DEF AskModel
<1>2. Report(reply, photos) \in Reports /\ Cautious(Report(reply, photos), photos)
  BY RepliesAreNumbers, ReportIsCautious DEF ReviewInv
<1> QED
  BY <1>1, <1>2 DEF AskModel, ReviewInv, Stages

\* The account takes the numbers of the review that is recorded.
LEMMA RecordAiReviewKeepsInv ==
  ASSUME ReviewInv, NEW n \in Reviews, RecordAiReview(n) \/ RecordingLandsLate(n)
  PROVE  ReviewInv'
<1>1. /\ review' \in [Reviews -> [pc : Stages, report : Reports \cup {None}]]
      /\ \A k \in Reviews : /\ review'[k].report = review[k].report
                            /\ review'[k].pc # "unasked" <=> review[k].pc # "unasked"
  BY DEF RecordAiReview, RecordingLandsLate, ReviewInv, Stages
<1>2. CASE onChain' = onChain
  BY <1>1, <1>2 DEF RecordAiReview, RecordingLandsLate, ReviewInv
<1>3. CASE Records(n)
  BY <1>1, <1>3 DEF RecordAiReview, RecordingLandsLate, Records, ReviewInv
<1> QED
  BY <1>2, <1>3 DEF RecordAiReview, RecordingLandsLate

\* The other steps change no report and no recorded number.
LEMMA OthersKeepReviewInv ==
  ASSUME ReviewInv,
         \/ \E n \in Reviews : SaveReport(n)
         \/ ShowReport \/ VerifyReport \/ OpenPanel \/ UNCHANGED reviewVars
  PROVE  ReviewInv'
<1>1. CASE \E n \in Reviews : SaveReport(n)
  <2> PICK n \in Reviews : SaveReport(n)
    BY <1>1
  <2>1. /\ review' \in [Reviews -> [pc : Stages, report : Reports \cup {None}]]
        /\ \A k \in Reviews : /\ review'[k].report = review[k].report
                              /\ review'[k].pc # "unasked" <=> review[k].pc # "unasked"
    BY DEF SaveReport, ReviewInv, Stages
  <2> QED
    BY <2>1 DEF SaveReport, ReviewInv
<1>2. CASE ShowReport \/ VerifyReport \/ OpenPanel \/ UNCHANGED reviewVars
  BY <1>2 DEF ShowReport, VerifyReport, OpenPanel, reviewVars, ReviewInv
<1> QED
  BY <1>1, <1>2

LEMMA ReviewInvIsInvariant == ReviewSpec => []ReviewInv
<1>1. ReviewInit => ReviewInv
  BY DEF ReviewInit, ReviewInv, Photos, Stages, Unasked, None
<1>2. ReviewInv /\ [ReviewNext]_reviewVars => ReviewInv'
  BY AskModelKeepsInv, RecordAiReviewKeepsInv, OthersKeepReviewInv DEF ReviewNext
<1> QED
  BY <1>1, <1>2, PTL DEF ReviewSpec

\* Whatever the model answers, for any number of reviews: the numbers recorded
\* are in the program's range, no review without a photo of the finder's
\* recommends to accept or claims a low risk or a good score, and the recorded
\* risk is the one computed from the recorded score and the report's signals.
THEOREM ReviewsAreAlwaysCautious == ReviewSpec => []ReviewsAreCautious
<1>1. ReviewInv => ReviewsAreCautious
  <2> SUFFICES ASSUME ReviewInv, onChain # Nothing
               PROVE  ReviewsAreCautious
    BY DEF ReviewsAreCautious
  <2> DEFINE report == review[onChain.of].report
  <2>1. /\ report \in Reports /\ Cautious(report, photos)
        /\ onChain.numbers = Recorded(report)
    BY DEF ReviewInv
  <2>2. photos \in Photos
    BY DEF ReviewInv
  <2>3. ~(photos.owner /\ photos.finder) => report.confidence <= 80
    BY <2>1 DEF Cautious
  <2> HIDE DEF report
  <2>4. /\ onChain.numbers.score \in 0..100
        /\ ~photos.finder => /\ onChain.numbers.decision # 0
                             /\ onChain.numbers.risk # 0
                             /\ onChain.numbers.score < 70
        /\ onChain.numbers.risk =
             RiskToU8([score   |-> onChain.numbers.score * 10,
                       signals |-> report.signals])
    BY <2>1, <2>2, RecordedIsCautious
  <2> QED
    BY <2>3, <2>4 DEF ReviewsAreCautious, report
<1> QED
  BY <1>1, ReviewInvIsInvariant, PTL

-----------------------------------------------------------------------------
(* The order of the steps.                                                 *)

Saving == {n \in Reviews : review[n].pc = "save"}
Over   == {n \in Reviews : review[n].pc = "done"}

\* Only reviews that are over are saved or shown.  While nothing crossed, the
\* review between its record and its save is the recorded one, and between
\* requests the saved report is.  A panel that warns does not show the
\* recorded report: a review that may still be recorded was never shown.
TrailInv ==
  /\ review \in [Reviews -> [pc : Stages, report : Reports \cup {None}]]
  /\ saved \in {None} \cup Over
  /\ panel.shown \in {None} \cup Over
  /\ panel.says = "mismatch" => panel.shown # onChain.of
  /\ ~crossed => \A n \in Saving : n = onChain.of
  /\ ~crossed /\ Saving = {} => saved = onChain.of

\* A review that is not asked for yet is neither recorded nor saved.
LEMMA AskModelKeepsTrail ==
  ASSUME TrailInv, ReviewInv', NEW n \in Reviews, AskModel(n)
  PROVE  TrailInv'
<1>1. /\ \A k \in Reviews \ {n} : review'[k] = review[k]
      /\ review[n].pc = "unasked" /\ review'[n].pc = "record"
  BY DEF AskModel, TrailInv
<1>2. Saving' = Saving /\ Over' = Over
  BY <1>1 DEF Saving, Over
<1> QED
  BY <1>2 DEF AskModel, TrailInv, ReviewInv

\* A review is recorded after one that is being saved, unnoticed not recorded,
\* or recorded late only if they cross; the panel cannot show it yet.
LEMMA RecordAiReviewKeepsTrail ==
  ASSUME TrailInv, ReviewInv', NEW n \in Reviews, RecordAiReview(n) \/ RecordingLandsLate(n)
  PROVE  TrailInv'
<1>1. /\ \A k \in Reviews \ {n} : review'[k].pc = review[k].pc
      /\ review[n].pc \in {"record", "adrift"} /\ n # None
      /\ saved' = saved /\ panel' = panel
  BY ReviewsAssumption DEF RecordAiReview, RecordingLandsLate, TrailInv, None
<1>2. /\ review'[n].pc \in {"save", "failed", "adrift"}
      /\ onChain'.of \in {onChain.of, n}
  BY DEF RecordAiReview, RecordingLandsLate, Records, TrailInv
<1>3. Over' = Over /\ n \notin Over
  BY <1>1, <1>2 DEF Over
<1>4. Saving' = IF review'[n].pc = "save" THEN Saving \cup {n} ELSE Saving
  BY <1>1, <1>2 DEF Saving
<1>5. \/ crossed' = TRUE
      \/ /\ review'[n].pc = "save" /\ onChain'.of = n
         /\ ~crossed' => ~crossed /\ Saving = {}
      \/ review'[n].pc # "save" /\ UNCHANGED <<onChain, crossed>>
  <2>1. CASE /\ Records(n)
             /\ review' = [review EXCEPT ![n].pc = "save"]
             /\ crossed' = (crossed \/ \E k \in Reviews : review[k].pc = "save")
    <3>1. review'[n].pc = "save" /\ onChain'.of = n
      BY <2>1 DEF Records, TrailInv
    <3>2. ~crossed' => ~crossed /\ Saving = {}
      BY <2>1 DEF Saving
    <3> QED
      BY <3>1, <3>2
  <2>2. CASE crossed' = TRUE
    BY <2>2
  <2>3. CASE /\ \E end \in {"failed", "adrift"} : review' = [review EXCEPT ![n].pc = end]
             /\ UNCHANGED <<onChain, crossed>>
    <3>1. review'[n].pc # "save"
      BY <2>3 DEF TrailInv
    <3> QED
      BY <2>3, <3>1
  <2> QED
    BY <2>1, <2>2, <2>3 DEF RecordAiReview, RecordingLandsLate
<1>6. panel'.says = "mismatch" => panel'.shown # onChain'.of
  BY <1>1, <1>2, <1>3 DEF TrailInv
<1> QED
  BY <1>1, <1>3, <1>4, <1>5, <1>6 DEF TrailInv, ReviewInv

\* While nothing crossed, the review that is saved is the recorded one.
LEMMA SaveReportKeepsTrail ==
  ASSUME TrailInv, ReviewInv', NEW n \in Reviews, SaveReport(n)
  PROVE  TrailInv'
<1>1. /\ \A k \in Reviews \ {n} : review'[k].pc = review[k].pc
      /\ review[n].pc = "save" /\ review'[n].pc = "done"
      /\ onChain' = onChain /\ panel' = panel
  BY DEF SaveReport, TrailInv
<1>2. Saving' = Saving \ {n} /\ Over' = Over \cup {n} /\ n \in Saving
  BY <1>1 DEF Saving, Over
<1>3. CASE saved' = n /\ crossed' = crossed
  BY <1>1, <1>2, <1>3 DEF TrailInv, ReviewInv
<1>4. CASE crossed' = TRUE /\ saved' = saved
  BY <1>1, <1>2, <1>4 DEF TrailInv, ReviewInv
<1> QED
  BY <1>3, <1>4 DEF SaveReport

\* The panel compares what it shows with what is recorded.
LEMMA PanelKeepsTrail ==
  ASSUME TrailInv, ShowReport \/ VerifyReport \/ OpenPanel \/ UNCHANGED reviewVars
  PROVE  TrailInv'
<1>1. /\ Saving' = Saving /\ Over' = Over
      /\ UNCHANGED <<review, onChain, saved, crossed>>
  BY DEF ShowReport, VerifyReport, OpenPanel, reviewVars, Saving, Over
<1>2. /\ panel'.shown \in {panel.shown, saved, None}
      /\ panel'.says = "mismatch" => panel'.shown # onChain.of
  <2>1. CASE ShowReport
    BY <2>1 DEF ShowReport, TrailInv
  <2>2. CASE VerifyReport
    BY <2>2 DEF VerifyReport, TrailInv, Matches
  <2>3. CASE OpenPanel
    BY <2>3 DEF OpenPanel, Blank
  <2>4. CASE UNCHANGED reviewVars
    BY <2>4 DEF reviewVars, TrailInv
  <2> QED
    BY <2>1, <2>2, <2>3, <2>4
<1> QED
  BY <1>1, <1>2 DEF TrailInv

\* For any number of requests, in every order of their steps: between requests
\* the saved report is the recorded one, and the panel raises no false alarm
\* about it, unless a save was lost, two reviews were recorded before either was
\* saved, or a recording failed unnoticed or landed after its request.
THEOREM ReportsAlwaysVerify == ReviewSpec => []ReportsVerify
<1>1. ReviewInit => TrailInv
  BY DEF ReviewInit, TrailInv, Stages, Unasked, Nothing, Blank, Saving, Over, None
<1>2. TrailInv /\ ReviewInv' /\ [ReviewNext]_reviewVars => TrailInv'
  BY AskModelKeepsTrail, RecordAiReviewKeepsTrail, SaveReportKeepsTrail,
     PanelKeepsTrail DEF ReviewNext
<1>3. TrailInv => ReportsVerify
  BY DEF TrailInv, ReportsVerify, Saving
<1> QED
  BY <1>1, <1>2, <1>3, ReviewInvIsInvariant, PTL DEF ReviewSpec

(***************************************************************************)
(* What follows counts.  A number that adds up over a history or over a    *)
(* set is the size of a set here, with one element for each thing counted. *)
(*                                                                         *)
(* One gate: its bucket, and the history of what it let through.  An       *)
(* unexpired bucket counts the ticks since it began, which is at the tick  *)
(* that its time left points at; what was let through before that was let  *)
(* through by the bucket before, of which no more than the limit remain.   *)
(***************************************************************************)

Bucket == [count : 0..Limit, left : 0..Window]

GateInv(b, history) ==
  /\ b \in Bucket
  /\ history \in [1..Window -> Nat]
  /\ IsFiniteSet(Requests(history, 1..Window))
  /\ Expired(b) =>
       /\ history[Window] = 0
       /\ LetThrough(history) <= Limit
  /\ ~Expired(b) =>
       /\ Cardinality(Requests(history, b.left..Window)) <= b.count
       /\ Cardinality(Requests(history, 1..(b.left - 1))) <= Limit

\* Fewer ticks hold fewer requests.
LEMMA FewerTicks ==
  ASSUME NEW history, IsFiniteSet(Requests(history, 1..Window)),
         NEW ticks \in SUBSET (1..Window)
  PROVE  /\ IsFiniteSet(Requests(history, ticks))
         /\ Cardinality(Requests(history, ticks)) \in Nat
         /\ Cardinality(Requests(history, ticks)) <= LetThrough(history)
<1>1. Requests(history, ticks) \subseteq Requests(history, 1..Window)
  BY DEF Requests
<1> QED
  BY <1>1, FS_Subset, FS_CardinalityType DEF LetThrough

\* One request more in the latest tick.
LEMMA LatestAdds ==
  ASSUME NEW history \in [1..Window -> Nat], NEW ticks \in SUBSET (1..Window),
         IsFiniteSet(Requests(history, ticks)), Window \in ticks
  PROVE  /\ IsFiniteSet(Requests(Latest(history), ticks))
         /\ Cardinality(Requests(Latest(history), ticks)) =
              Cardinality(Requests(history, ticks)) + 1
<1> DEFINE u == <<Window, history[Window] + 1>>
<1>1. /\ Latest(history)[Window] = history[Window] + 1
      /\ \A t \in ticks \ {Window} : Latest(history)[t] = history[t]
      /\ history[Window] \in Nat
  BY RateLimitAssumption DEF Latest
<1>2. 1..(history[Window] + 1) = (1..history[Window]) \cup {history[Window] + 1}
  BY <1>1
<1>3. u \notin Requests(history, ticks)
  BY <1>1 DEF Requests
<1>4. Requests(Latest(history), ticks) = Requests(history, ticks) \cup {u}
  <2> DEFINE rest == UNION {{t} \X (1..history[t]) : t \in ticks \ {Window}}
  <2>1. Requests(history, ticks) = rest \cup ({Window} \X (1..history[Window]))
    BY DEF Requests
  <2>2. Requests(Latest(history), ticks) =
           rest \cup ({Window} \X (1..(history[Window] + 1)))
    <3>1. \A t \in ticks \ {Window} : {t} \X (1..Latest(history)[t]) = {t} \X (1..history[t])
      BY <1>1
    <3>2. Requests(Latest(history), ticks) =
             (UNION {{t} \X (1..Latest(history)[t]) : t \in ticks \ {Window}})
                \cup ({Window} \X (1..Latest(history)[Window]))
      BY DEF Requests
    <3> QED
      BY <1>1, <3>1, <3>2
  <2>3. {Window} \X (1..(history[Window] + 1)) = ({Window} \X (1..history[Window])) \cup {u}
    BY <1>2
  <2> HIDE DEF rest, u
  <2> QED
    BY <2>1, <2>2, <2>3
<1> HIDE DEF u
<1> QED
  BY <1>3, <1>4, FS_AddElement

\* No request more in the other ticks.
LEMMA LatestKeeps ==
  ASSUME NEW history \in [1..Window -> Nat], NEW ticks \in SUBSET (1..(Window - 1))
  PROVE  Requests(Latest(history), ticks) = Requests(history, ticks)
<1>1. \A t \in ticks : Latest(history)[t] = history[t]
  BY RateLimitAssumption DEF Latest
<1> QED
  BY <1>1 DEF Requests

\* A tick later every request is a tick older.
LEMMA LaterShifts ==
  ASSUME NEW history \in [1..Window -> Nat]
  PROVE  /\ Later(history) \in [1..Window -> Nat]
         /\ Later(history)[Window] = 0
         /\ \A t \in 1..(Window - 1) : Later(history)[t] = history[t + 1]
<1>1. history \in Seq(Nat) /\ Len(history) = Window
  BY RateLimitAssumption
<1>2. /\ Tail(history) \in Seq(Nat) /\ Len(Tail(history)) = Window - 1
      /\ \A t \in 1..(Window - 1) : Tail(history)[t] = history[t + 1]
  BY <1>1, RateLimitAssumption
<1>3. /\ Later(history) \in Seq(Nat) /\ Len(Later(history)) = Window
      /\ Later(history)[Window] = 0
      /\ \A t \in 1..(Window - 1) : Later(history)[t] = Tail(history)[t]
  BY <1>2, AppendProperties, RateLimitAssumption DEF Later
<1>4. Later(history) \in [1..Window -> Nat]
  BY <1>3, LenProperties
<1> QED
  BY <1>2, <1>3, <1>4

LEMMA LaterIsNoMore ==
  ASSUME NEW history \in [1..Window -> Nat],
         NEW ticks \in SUBSET (1..Window), NEW before \in SUBSET (1..Window),
         \A t \in ticks \ {Window} : t + 1 \in before,
         IsFiniteSet(Requests(history, before))
  PROVE  /\ IsFiniteSet(Requests(Later(history), ticks))
         /\ Cardinality(Requests(Later(history), ticks)) <=
              Cardinality(Requests(history, before))
<1> DEFINE R == Requests(Later(history), ticks)
           B == Requests(history, before)
           f == [u \in R |-> <<u[1] + 1, u[2]>>]
<1>1. ASSUME NEW u \in R
      PROVE  /\ u = <<u[1], u[2]>> /\ u[1] \in 1..(Window - 1)
             /\ <<u[1] + 1, u[2]>> \in B
  <2>1. PICK t \in ticks : \E k \in 1..Later(history)[t] : u = <<t, k>>
    BY DEF Requests
  <2>2. PICK k \in 1..Later(history)[t] : u = <<t, k>>
    BY <2>1
  <2>3. t # Window
    BY <2>2, LaterShifts
  <2>4. t \in 1..(Window - 1) /\ Later(history)[t] = history[t + 1] /\ t + 1 \in before
    BY <2>3, LaterShifts, RateLimitAssumption
  <2>5. <<t + 1, k>> \in B
    BY <2>2, <2>4 DEF Requests
  <2> QED
    BY <2>2, <2>4, <2>5
<1>2. f \in [R -> B]
  BY <1>1
<1>3. ASSUME NEW u \in R, NEW v \in R, f[u] = f[v]
      PROVE  u = v
  BY <1>1, <1>3
<1>4. f \in Injection(R, B)
  BY <1>2, <1>3 DEF Injection, IsInjective
<1> QED
  BY <1>4, FS_Injection

\* A request that a gate admits.
LEMMA ConsumedKeepsGate ==
  ASSUME NEW b, NEW history, GateInv(b, history), Admits(b)
  PROVE  GateInv(Consumed(b), Latest(history))
<1> USE RateLimitAssumption
<1>1. /\ b \in Bucket /\ history \in [1..Window -> Nat]
      /\ IsFiniteSet(Requests(history, 1..Window))
      /\ Latest(history) \in [1..Window -> Nat]
  BY DEF GateInv, Latest
<1>2. IsFiniteSet(Requests(Latest(history), 1..Window))
  <2>1. 1..Window \in SUBSET (1..Window) /\ Window \in 1..Window
    OBVIOUS
  <2> QED
    BY <1>1, <2>1, LatestAdds
<1>3. CASE Expired(b)
  <2>1. Consumed(b) = [count |-> 1, left |-> Window] /\ Consumed(b) \in Bucket
    BY <1>3 DEF Consumed, Bucket
  <2>2. /\ Requests(history, Window..Window) = {}
        /\ Window..Window \in SUBSET (1..Window) /\ Window \in Window..Window
    BY <1>1, <1>3 DEF GateInv, Requests
  <2>3. Cardinality(Requests(Latest(history), Window..Window)) = 1
    <3>1. /\ IsFiniteSet(Requests(history, Window..Window))
          /\ Cardinality(Requests(history, Window..Window)) = 0
      BY <2>2, FS_EmptySet
    <3>2. Cardinality(Requests(Latest(history), Window..Window)) =
            Cardinality(Requests(history, Window..Window)) + 1
      BY <1>1, <2>2, <3>1, LatestAdds
    <3> QED
      BY <3>1, <3>2
  <2>4. Cardinality(Requests(Latest(history), 1..(Window - 1))) <= Limit
    <3>1. Cardinality(Requests(history, 1..(Window - 1))) <= LetThrough(history)
      BY <1>1, FewerTicks
    <3>2. Requests(Latest(history), 1..(Window - 1)) = Requests(history, 1..(Window - 1))
      BY <1>1, LatestKeeps
    <3>3. /\ Cardinality(Requests(history, 1..(Window - 1))) \in Nat
          /\ LetThrough(history) \in Nat /\ LetThrough(history) <= Limit
      BY <1>1, <1>3, FewerTicks DEF GateInv, LetThrough
    <3> QED
      BY <3>1, <3>2, <3>3
  <2> QED
    BY <1>1, <1>2, <2>1, <2>3, <2>4 DEF GateInv, Expired
<1>4. CASE ~Expired(b)
  <2>1. /\ Consumed(b) = [b EXCEPT !.count = @ + 1] /\ Consumed(b) \in Bucket
        /\ Consumed(b).left = b.left /\ Consumed(b).count = b.count + 1
        /\ b.left \in 1..Window
    BY <1>1, <1>4 DEF Admits, Consumed, Bucket, Expired
  <2>0. b.left..Window \in SUBSET (1..Window) /\ Window \in b.left..Window
    BY <2>1
  <2>2. Cardinality(Requests(Latest(history), b.left..Window)) =
          Cardinality(Requests(history, b.left..Window)) + 1
    BY <1>1, <2>0, FewerTicks, LatestAdds
  <2>3. Requests(Latest(history), 1..(b.left - 1)) = Requests(history, 1..(b.left - 1))
    BY <1>1, <2>1, LatestKeeps
  <2>4. Cardinality(Requests(history, b.left..Window)) \in Nat /\ b.count \in Nat
    BY <1>1, <2>1, FewerTicks DEF Bucket
  <2>5. Cardinality(Requests(Latest(history), b.left..Window)) <= Consumed(b).count
    BY <1>4, <2>1, <2>2, <2>4 DEF GateInv
  <2> QED
    BY <1>1, <1>2, <1>4, <2>1, <2>3, <2>5 DEF GateInv, Expired
<1> QED
  BY <1>3, <1>4

\* A tick passes.
LEMMA SoonerKeepsGate ==
  ASSUME NEW b, NEW history, GateInv(b, history)
  PROVE  GateInv(Sooner(b), Later(history))
<1> USE RateLimitAssumption
<1>1. /\ b \in Bucket /\ history \in [1..Window -> Nat]
      /\ IsFiniteSet(Requests(history, 1..Window))
      /\ Later(history) \in [1..Window -> Nat] /\ Later(history)[Window] = 0
  BY LaterShifts DEF GateInv
<1>2. /\ IsFiniteSet(Requests(Later(history), 1..Window))
      /\ LetThrough(Later(history)) <= LetThrough(history)
      /\ LetThrough(history) \in Nat /\ LetThrough(Later(history)) \in Nat
  <2>1. \A t \in (1..Window) \ {Window} : t + 1 \in 1..Window
    OBVIOUS
  <2> QED
    BY <1>1, <2>1, LaterIsNoMore, FS_CardinalityType DEF LetThrough
<1>3. CASE b.left <= 1
  <2>1. Sooner(b) = NoBucket /\ NoBucket \in Bucket /\ Expired(NoBucket)
    BY <1>3 DEF Sooner, NoBucket, Bucket, Expired
  <2>2. LetThrough(history) <= Limit
    <3>1. CASE Expired(b)
      BY <3>1 DEF GateInv
    <3>2. CASE ~Expired(b)
      <4>1. b.left = 1 /\ b.count \in 0..Limit
        BY <1>1, <1>3, <3>2 DEF Expired, Bucket
      <4>2. LetThrough(history) <= b.count
        BY <3>2, <4>1 DEF GateInv, LetThrough
      <4> QED
        BY <1>2, <4>1, <4>2
    <3> QED
      BY <3>1, <3>2
  <2>3. LetThrough(Later(history)) <= Limit
    BY <1>2, <2>2
  <2> QED
    BY <1>1, <1>2, <2>1, <2>3 DEF GateInv
<1>4. CASE ~(b.left <= 1)
  <2>1. /\ Sooner(b) = [b EXCEPT !.left = @ - 1] /\ Sooner(b) \in Bucket
        /\ Sooner(b).left = b.left - 1 /\ Sooner(b).count = b.count
        /\ b.left \in 2..Window /\ b.count \in Nat /\ ~Expired(b) /\ ~Expired(Sooner(b))
    BY <1>1, <1>4 DEF Sooner, Bucket, Expired
  <2>2. Cardinality(Requests(Later(history), (b.left - 1)..Window)) <= b.count
    <3>1. /\ (b.left - 1)..Window \in SUBSET (1..Window)
          /\ b.left..Window \in SUBSET (1..Window)
          /\ \A t \in ((b.left - 1)..Window) \ {Window} : t + 1 \in b.left..Window
      BY <2>1
    <3>2. /\ IsFiniteSet(Requests(history, b.left..Window))
          /\ Cardinality(Requests(history, b.left..Window)) \in Nat
          /\ Cardinality(Requests(history, b.left..Window)) <= b.count
      BY <1>1, <2>1, <3>1, FewerTicks DEF GateInv
    <3>3. /\ IsFiniteSet(Requests(Later(history), (b.left - 1)..Window))
          /\ Cardinality(Requests(Later(history), (b.left - 1)..Window)) <=
               Cardinality(Requests(history, b.left..Window))
      BY <1>1, <3>1, <3>2, LaterIsNoMore
    <3>4. Cardinality(Requests(Later(history), (b.left - 1)..Window)) \in Nat
      BY <3>3, FS_CardinalityType
    <3> QED
      BY <2>1, <3>2, <3>3, <3>4
  <2>3. Cardinality(Requests(Later(history), 1..((b.left - 1) - 1))) <= Limit
    <3>1. /\ 1..((b.left - 1) - 1) \in SUBSET (1..Window)
          /\ 1..(b.left - 1) \in SUBSET (1..Window)
          /\ \A t \in (1..((b.left - 1) - 1)) \ {Window} : t + 1 \in 1..(b.left - 1)
      BY <2>1
    <3>2. /\ IsFiniteSet(Requests(history, 1..(b.left - 1)))
          /\ Cardinality(Requests(history, 1..(b.left - 1))) \in Nat
          /\ Cardinality(Requests(history, 1..(b.left - 1))) <= Limit
      BY <1>1, <2>1, <3>1, FewerTicks DEF GateInv
    <3>3. /\ IsFiniteSet(Requests(Later(history), 1..((b.left - 1) - 1)))
          /\ Cardinality(Requests(Later(history), 1..((b.left - 1) - 1))) <=
               Cardinality(Requests(history, 1..(b.left - 1)))
      BY <1>1, <3>1, <3>2, LaterIsNoMore
    <3>4. Cardinality(Requests(Later(history), 1..((b.left - 1) - 1))) \in Nat
      BY <3>3, FS_CardinalityType
    <3> QED
      BY <3>2, <3>3, <3>4
  <2> QED
    BY <1>1, <1>2, <2>1, <2>2, <2>3 DEF GateInv
<1> QED
  BY <1>3, <1>4

\* A gate that nothing went through.
LEMMA FreshGate ==
  ASSUME NEW history, history = [t \in 1..Window |-> 0]
  PROVE  GateInv(NoBucket, history)
<1>1. Requests(history, 1..Window) = {}
  BY DEF Requests
<1>2. /\ IsFiniteSet(Requests(history, 1..Window))
      /\ LetThrough(history) = 0
  BY <1>1, FS_EmptySet DEF LetThrough
<1> QED
  BY <1>2, RateLimitAssumption DEF GateInv, NoBucket, Bucket, Expired

\* What a gate let through is what it let through since its bucket began and
\* before.
LEMMA TwoWindows ==
  ASSUME NEW b, NEW history, GateInv(b, history)
  PROVE  LetThrough(history) <= 2 * Limit
<1> USE RateLimitAssumption
<1>1. /\ b \in Bucket /\ history \in [1..Window -> Nat]
      /\ IsFiniteSet(Requests(history, 1..Window)) /\ LetThrough(history) \in Nat
  BY FS_CardinalityType DEF GateInv, LetThrough
<1>2. CASE Expired(b)
  BY <1>1, <1>2 DEF GateInv
<1>3. CASE ~Expired(b)
  <2> DEFINE since  == Requests(history, b.left..Window)
             before == Requests(history, 1..(b.left - 1))
  <2>1. b.left \in 1..Window /\ b.count \in 0..Limit
    BY <1>1, <1>3 DEF Bucket, Expired
  <2>2. /\ b.left..Window \in SUBSET (1..Window)
        /\ 1..(b.left - 1) \in SUBSET (1..Window)
        /\ 1..Window = (b.left..Window) \cup (1..(b.left - 1))
    BY <2>1
  <2>3. Requests(history, 1..Window) = since \cup before
    BY <2>2 DEF Requests
  <2>4. /\ IsFiniteSet(since) /\ IsFiniteSet(before)
        /\ Cardinality(since) \in Nat /\ Cardinality(before) \in Nat
    BY <1>1, <2>2, FewerTicks
  <2>5. Cardinality(since) <= b.count /\ Cardinality(before) <= Limit
    BY <1>3 DEF GateInv
  <2> HIDE DEF since, before
  <2>6. /\ Cardinality(since \cup before) =
             Cardinality(since) + Cardinality(before) - Cardinality(since \cap before)
        /\ Cardinality(since \cap before) \in Nat
    BY <2>4, FS_Union, FS_Intersection, FS_CardinalityType
  <2>7. LetThrough(history) = Cardinality(since \cup before)
    BY <2>3 DEF LetThrough
  <2> QED
    BY <2>1, <2>4, <2>5, <2>6, <2>7
<1> QED
  BY <1>2, <1>3

(***************************************************************************)
(* All gates.                                                              *)
(***************************************************************************)

RateSpec == RateInit /\ [][RateNext]_rateVars

RateInv ==
  /\ DOMAIN bucket = Instances /\ DOMAIN recentLocal = Instances
  /\ GateInv(shared, recent)
  /\ \A i \in Instances : GateInv(bucket[i], recentLocal[i])

\* A request at the first gate, in the memory of an instance.
LEMMA FirstGateKeepsInv ==
  ASSUME RateInv, NEW i \in Instances, LocalOnly(i) \/ FirstGate(i)
  PROVE  RateInv'
<1>1. /\ Admits(bucket[i])
      /\ bucket' = [bucket EXCEPT ![i] = Consumed(bucket[i])]
      /\ recentLocal' = [recentLocal EXCEPT ![i] = Latest(recentLocal[i])]
      /\ shared' = shared /\ recent' = recent
  BY DEF LocalOnly, FirstGate, EnforceRateLimit
<1>2. GateInv(Consumed(bucket[i]), Latest(recentLocal[i]))
  BY <1>1, ConsumedKeepsGate DEF RateInv
<1> QED
  BY <1>1, <1>2 DEF RateInv

\* A request at the second gate, in the database.
LEMMA SecondGateKeepsInv ==
  ASSUME RateInv, NEW i \in Instances, SecondGate(i) \/ SecondGateFails(i)
  PROVE  RateInv'
<1>1. bucket' = bucket /\ recentLocal' = recentLocal
  BY DEF SecondGate, SecondGateFails
<1>2. GateInv(shared', recent')
  BY ConsumedKeepsGate DEF SecondGate, SecondGateFails, RateInv
<1> QED
  BY <1>1, <1>2 DEF RateInv

LEMMA RestartKeepsInv ==
  ASSUME RateInv, NEW i \in Instances, InstanceRestarts(i)
  PROVE  RateInv'
<1>1. GateInv(NoBucket, [t \in 1..Window |-> 0])
  BY FreshGate
<1> QED
  BY <1>1 DEF InstanceRestarts, RateInv

LEMMA TimeKeepsInv ==
  ASSUME RateInv, TimePasses
  PROVE  RateInv'
<1>1. \A i \in Instances : GateInv(Sooner(bucket[i]), Later(recentLocal[i]))
  BY SoonerKeepsGate DEF RateInv
<1>2. GateInv(Sooner(shared), Later(recent))
  BY SoonerKeepsGate DEF RateInv
<1> QED
  BY <1>1, <1>2 DEF TimePasses, RateInv

\* Whatever instances come and go and however long requests wait between the
\* gates: during any period as long as a window no gate lets more than two
\* windows' worth of requests through, for every limit and window.
THEOREM BurstsStayBounded == RateSpec => []BurstsAreBounded
<1>1. RateInit => RateInv
  BY FreshGate DEF RateInit, RateInv
<1>2. RateInv /\ [RateNext]_rateVars => RateInv'
  <2> SUFFICES ASSUME RateInv, [RateNext]_rateVars
               PROVE  RateInv'
    OBVIOUS
  <2>1. CASE UNCHANGED rateVars
    BY <2>1 DEF rateVars, RateInv
  <2> QED
    BY <2>1, FirstGateKeepsInv, SecondGateKeepsInv, RestartKeepsInv, TimeKeepsInv
    DEF RateNext
<1>3. RateInv => BurstsAreBounded
  BY TwoWindows DEF RateInv, BurstsAreBounded
<1> QED
  BY <1>1, <1>2, <1>3, PTL DEF RateSpec

(***************************************************************************)
(* Reputation: the account of a wallet is a function of the attestations   *)
(* and of what the bounties they name paid to whom.  An attested bounty is *)
(* over, so what it paid does not change; an attestation adds itself.      *)
(***************************************************************************)

AttestSpec == AttestInit /\ [][AttestNext]_attestVars

Listing == [owner : Parties \cup {Nobody}, reward : Nat, protocol : {0, 1, 2},
            finder : Parties \cup {Nobody}]

\* The same sets for any list of bounties, so that a step's old and new list
\* can be compared.
TokensOf(list, claims) == UNION {{a} \X (1..list[a[1]].reward) : a \in claims}
SoldOf(list, claims, w) == {a \in claims : list[a[1]].owner = w}
HelpedOf(claims, w) == {a \in claims : a[2] = w}

Account(list, claims, w) ==
  [returns |-> Cardinality(SoldOf(list, claims, w)) + Cardinality(HelpedOf(claims, w)),
   earned  |-> Cardinality(TokensOf(list, HelpedOf(claims, w))),
   paid    |-> Cardinality(TokensOf(list, SoldOf(list, claims, w)))]

\* Reputation that a finite set of claims accounts for.
Vouched(list, claims, score) ==
  /\ IsFiniteSet(claims) /\ IsFiniteSet(TokensOf(list, claims))
  /\ DOMAIN score = Parties
  /\ \A w \in Parties : score[w] = Account(list, claims, w)

\* A claim of protocol 2 is settled once, and by somebody else than the owner.
SettledInv ==
  /\ listed \in [Bounties -> Listing]
  /\ \A b \in Bounties : /\ listed[b].protocol = 0 => listed[b] = Unlisted
                         /\ listed[b].protocol # 0 => listed[b].owner \in Parties
  /\ settled \subseteq Bounties \X Parties
  /\ \A a \in settled : /\ listed[a[1]].protocol = 2
                        /\ listed[a[1]].finder = a[2]
                        /\ listed[a[1]].owner # a[2]
  /\ attested \subseteq settled

AttestInv == SettledInv /\ Vouched(listed, attested, reputation)

\* The account of a wallet depends on what the attested bounties paid only.
LEMMA AccountKept ==
  ASSUME NEW list, NEW list2, NEW claims, NEW score, Vouched(list, claims, score),
         \A a \in claims : /\ list2[a[1]].owner = list[a[1]].owner
                           /\ list2[a[1]].reward = list[a[1]].reward
  PROVE  Vouched(list2, claims, score)
<1>1. \A S \in SUBSET claims : TokensOf(list2, S) = TokensOf(list, S)
  BY DEF TokensOf
<1>2. \A w : /\ SoldOf(list2, claims, w) = SoldOf(list, claims, w)
             /\ SoldOf(list, claims, w) \in SUBSET claims
             /\ HelpedOf(claims, w) \in SUBSET claims
  BY DEF SoldOf, HelpedOf
<1>3. \A w : Account(list2, claims, w) = Account(list, claims, w)
  BY <1>1, <1>2 DEF Account
<1>4. TokensOf(list2, claims) = TokensOf(list, claims)
  BY <1>1
<1> QED
  BY <1>3, <1>4 DEF Vouched

\* A claim more: one more return, and its reward in tokens.
LEMMA OneClaimMore ==
  ASSUME NEW list, NEW S, NEW a, a \notin S, list[a[1]].reward \in Nat,
         IsFiniteSet(S), IsFiniteSet(TokensOf(list, S))
  PROVE  /\ IsFiniteSet(S \cup {a}) /\ IsFiniteSet(TokensOf(list, S \cup {a}))
         /\ Cardinality(S \cup {a}) = Cardinality(S) + 1
         /\ Cardinality(TokensOf(list, S \cup {a})) =
              Cardinality(TokensOf(list, S)) + list[a[1]].reward
<1> DEFINE reward == list[a[1]].reward
           own == {a} \X (1..reward)
           others == TokensOf(list, S)
<1>1. TokensOf(list, S \cup {a}) = others \cup own /\ others \cap own = {}
  BY DEF TokensOf
<1>2. IsFiniteSet(own) /\ Cardinality(own) = reward
  <2>1. IsFiniteSet({a}) /\ Cardinality({a}) = 1
    BY FS_Singleton
  <2> HIDE DEF reward
  <2>2. reward \in Nat
    BY DEF reward
  <2>3. IsFiniteSet(1..reward) /\ Cardinality(1..reward) = reward
    BY <2>2, FS_Interval
  <2>4. /\ IsFiniteSet({a} \X (1..reward))
        /\ Cardinality({a} \X (1..reward)) = Cardinality({a}) * Cardinality(1..reward)
    BY <2>1, <2>3, FS_Product
  <2> QED
    BY <2>1, <2>2, <2>3, <2>4
<1>3. IsFiniteSet(S \cup {a}) /\ Cardinality(S \cup {a}) = Cardinality(S) + 1
  BY FS_AddElement
<1>4. IsFiniteSet(others)
  OBVIOUS
<1> HIDE DEF own, others
<1>5. /\ IsFiniteSet(others \cup own)
      /\ Cardinality(others \cup own) =
           Cardinality(others) + Cardinality(own) - Cardinality(others \cap own)
  BY <1>2, <1>4, FS_Union
<1>6. Cardinality(others \cap own) = 0 /\ Cardinality(others) \in Nat
  BY <1>1, <1>4, FS_EmptySet, FS_CardinalityType
<1>7. Cardinality(others \cup own) = Cardinality(others) + reward
  BY <1>2, <1>5, <1>6
<1> QED
  BY <1>1, <1>3, <1>5, <1>7 DEF others

\* A new attestation adds a payment to the account of the owner and an earning
\* to the account of the finder, and nothing to any other.
LEMMA AccountGrows ==
  ASSUME NEW list, NEW claims, NEW score, Vouched(list, claims, score),
         NEW b, NEW f \in Parties, <<b, f>> \notin claims,
         list[b].reward \in Nat, list[b].owner \in Parties, list[b].owner # f,
         NEW score2,
         score2 = [score EXCEPT
                     ![list[b].owner] = WithReturn(score[list[b].owner], list[b].reward, FALSE),
                     ![f] = WithReturn(score[f], list[b].reward, TRUE)]
  PROVE  Vouched(list, claims \cup {<<b, f>>}, score2)
<1> DEFINE a == <<b, f>>
           more == claims \cup {a}
           owner == list[b].owner
           reward == list[b].reward
<1>1. a[1] = b /\ a[2] = f
  OBVIOUS
<1>2. \A w : /\ SoldOf(list, claims, w) \subseteq claims
             /\ HelpedOf(claims, w) \subseteq claims
             /\ TokensOf(list, SoldOf(list, claims, w)) \subseteq TokensOf(list, claims)
             /\ TokensOf(list, HelpedOf(claims, w)) \subseteq TokensOf(list, claims)
  BY DEF SoldOf, HelpedOf, TokensOf
<1>3. IsFiniteSet(claims) /\ IsFiniteSet(TokensOf(list, claims))
  BY DEF Vouched
<1>4. \A w : /\ IsFiniteSet(SoldOf(list, claims, w))
             /\ IsFiniteSet(HelpedOf(claims, w))
             /\ IsFiniteSet(TokensOf(list, SoldOf(list, claims, w)))
             /\ IsFiniteSet(TokensOf(list, HelpedOf(claims, w)))
  BY <1>2, <1>3, FS_Subset
<1>5. \A w : /\ SoldOf(list, more, w) = IF w = owner THEN SoldOf(list, claims, w) \cup {a}
                                                    ELSE SoldOf(list, claims, w)
             /\ HelpedOf(more, w) = IF w = f THEN HelpedOf(claims, w) \cup {a}
                                             ELSE HelpedOf(claims, w)
             /\ a \notin SoldOf(list, claims, w) /\ a \notin HelpedOf(claims, w)
  BY <1>1 DEF SoldOf, HelpedOf
<1>6. \A w : /\ Cardinality(SoldOf(list, claims, w)) \in Nat
             /\ Cardinality(HelpedOf(claims, w)) \in Nat
             /\ Cardinality(TokensOf(list, SoldOf(list, claims, w))) \in Nat
             /\ Cardinality(TokensOf(list, HelpedOf(claims, w))) \in Nat
  BY <1>4, FS_CardinalityType
<1>7. reward = list[a[1]].reward /\ reward \in Nat
  BY <1>1
<1>8. IsFiniteSet(more) /\ IsFiniteSet(TokensOf(list, more))
  BY <1>3, <1>7, OneClaimMore
<1>9. ASSUME NEW S, a \notin S, IsFiniteSet(S), IsFiniteSet(TokensOf(list, S))
      PROVE  /\ Cardinality(S \cup {a}) = Cardinality(S) + 1
             /\ Cardinality(TokensOf(list, S \cup {a})) =
                  Cardinality(TokensOf(list, S)) + reward
  <2> HIDE DEF a, reward
  <2> QED
    BY <1>9, <1>7, OneClaimMore
<1>10. ASSUME NEW w \in Parties
      PROVE  score2[w] = Account(list, more, w)
  <2>1. CASE w = owner
    <3>1. /\ Cardinality(SoldOf(list, more, w)) = Cardinality(SoldOf(list, claims, w)) + 1
          /\ Cardinality(TokensOf(list, SoldOf(list, more, w))) =
               Cardinality(TokensOf(list, SoldOf(list, claims, w))) + reward
          /\ HelpedOf(more, w) = HelpedOf(claims, w)
      <4>1. SoldOf(list, more, w) = SoldOf(list, claims, w) \cup {a}
        BY <1>5, <2>1
      <4>2. f # owner
        OBVIOUS
      <4> HIDE DEF a, reward, more, owner
      <4> QED
        BY <1>4, <1>5, <1>9, <2>1, <4>1, <4>2
    <3>2. score2[w] = WithReturn(score[w], reward, FALSE)
      BY <2>1 DEF Vouched
    <3> QED
      BY <1>6, <1>7, <3>1, <3>2 DEF WithReturn, Vouched, Account
  <2>2. CASE w = f
    <3>1. /\ Cardinality(HelpedOf(more, w)) = Cardinality(HelpedOf(claims, w)) + 1
          /\ Cardinality(TokensOf(list, HelpedOf(more, w))) =
               Cardinality(TokensOf(list, HelpedOf(claims, w))) + reward
          /\ SoldOf(list, more, w) = SoldOf(list, claims, w)
      <4>1. HelpedOf(more, w) = HelpedOf(claims, w) \cup {a}
        BY <1>5, <2>2
      <4>2. f # owner
        OBVIOUS
      <4> HIDE DEF a, reward, more, owner
      <4> QED
        BY <1>4, <1>5, <1>9, <2>2, <4>1, <4>2
    <3>2. score2[w] = WithReturn(score[w], reward, TRUE)
      BY <2>2 DEF Vouched
    <3> QED
      BY <1>6, <1>7, <3>1, <3>2 DEF WithReturn, Vouched, Account
  <2>3. CASE w # owner /\ w # f
    BY <1>5, <2>3 DEF Vouched, Account
  <2> QED
    BY <2>1, <2>2, <2>3
<1> QED
  BY <1>8, <1>10 DEF Vouched

\* A settled bounty was listed, and is not settled again.
LEMMA SettlementIsOnce ==
  ASSUME SettledInv, NEW b \in Bounties, NEW f \in Parties, Settlement(b, f)
  PROVE  /\ listed' \in [Bounties -> Listing]
         /\ listed' = [listed EXCEPT ![b].finder = f]
         /\ listed[b].finder = Nobody /\ listed[b].owner \in Parties
         /\ f # listed[b].owner
         /\ \A g : <<b, g>> \notin settled
<1>1. listed[b] \in Listing
  BY DEF SettledInv
<1>2. [listed[b] EXCEPT !.finder = f] \in Listing
  BY <1>1 DEF Listing
<1>3. listed' = [listed EXCEPT ![b] = [listed[b] EXCEPT !.finder = f]]
  BY DEF Settlement, SettledInv
<1>4. listed' \in [Bounties -> Listing]
  BY <1>2, <1>3 DEF SettledInv
<1>5. listed[b].protocol # 0
  BY DEF Settlement, SettledInv
<1>6. ASSUME NEW g, <<b, g>> \in settled
      PROVE  FALSE
  BY <1>6, AttestationAssumption DEF SettledInv, Settlement
<1> QED
  BY <1>4, <1>5, <1>6 DEF Settlement, SettledInv

\* A settlement keeps what every bounty pays, and the finders of the others.
LEMMA SettlementKeeps ==
  ASSUME SettledInv, NEW b \in Bounties, NEW f \in Parties, Settlement(b, f),
         attested' \subseteq settled'
  PROVE  /\ SettledInv'
         /\ \A c \in Bounties : /\ listed'[c].owner = listed[c].owner
                                /\ listed'[c].reward = listed[c].reward
                                /\ listed'[c].protocol = listed[c].protocol
         /\ listed'[b].finder = f
<1>1. /\ \A c \in Bounties : /\ listed'[c].owner = listed[c].owner
                             /\ listed'[c].reward = listed[c].reward
                             /\ listed'[c].protocol = listed[c].protocol
                             /\ c # b => listed'[c] = listed[c]
      /\ listed'[b].finder = f
  <2>1. listed \in [Bounties -> Listing] /\ listed[b] \in Listing
    BY DEF SettledInv
  <2> QED
    BY <2>1, SettlementIsOnce DEF Listing
<1>2. \A c \in Bounties : /\ listed'[c].protocol = 0 => listed'[c] = Unlisted
                          /\ listed'[c].protocol # 0 => listed'[c].owner \in Parties
  <2>1. listed[b].protocol # 0
    BY DEF Settlement, SettledInv
  <2> QED
    BY <1>1, <2>1 DEF SettledInv
<1>3. /\ settled' \subseteq Bounties \X Parties
      /\ \A a \in settled' : a \in settled \/ (a = <<b, f>> /\ listed[b].protocol = 2)
  BY DEF Settlement, SettledInv
<1>4. \A a \in settled' : /\ listed'[a[1]].protocol = 2
                          /\ listed'[a[1]].finder = a[2]
                          /\ listed'[a[1]].owner # a[2]
  <2> SUFFICES ASSUME NEW a \in settled'
               PROVE  /\ listed'[a[1]].protocol = 2
                      /\ listed'[a[1]].finder = a[2]
                      /\ listed'[a[1]].owner # a[2]
    OBVIOUS
  <2>1. CASE a = <<b, f>> /\ listed[b].protocol = 2
    BY <1>1, <2>1, SettlementIsOnce
  <2>2. CASE a \in settled
    <3>1. a[1] \in Bounties /\ a = <<a[1], a[2]>> /\ a[1] # b
      BY <2>2, SettlementIsOnce DEF SettledInv
    <3> QED
      BY <1>1, <2>2, <3>1 DEF SettledInv
  <2> QED
    BY <1>3, <2>1, <2>2
<1>5. SettledInv'
  BY <1>2, <1>3, <1>4, SettlementIsOnce DEF SettledInv
<1> QED
  BY <1>1, <1>5

LEMMA ListKeepsInv ==
  ASSUME AttestInv, NEW b \in Bounties, List(b)
  PROVE  AttestInv'
<1>1. PICK w \in Parties, r \in Rewards, version \in {1, 2} :
        listed' = [listed EXCEPT ![b] = [Unlisted EXCEPT
                     !.owner = w, !.reward = r, !.protocol = version]]
  BY DEF List
<1> DEFINE row == [Unlisted EXCEPT !.owner = w, !.reward = r, !.protocol = version]
<1>2. row \in Listing /\ row.protocol # 0 /\ row.owner \in Parties
  <2>1. r \in Nat
    BY AttestationAssumption
  <2>2. Unlisted \in Listing
    BY DEF Unlisted, Listing
  <2>3. row \in Listing
    BY <2>1, <2>2 DEF Listing
  <2>4. row.protocol = version /\ row.owner = w
    BY <2>2 DEF Listing
  <2> QED
    BY <2>3, <2>4
<1>3. Unlisted.protocol = 0
  BY DEF Unlisted
<1>4. listed' = [listed EXCEPT ![b] = row] /\ listed[b].protocol = 0
  BY <1>1, <1>3 DEF List
<1> HIDE DEF row
<1>5. \A a \in settled : a[1] \in Bounties /\ listed'[a[1]] = listed[a[1]]
  BY <1>4 DEF AttestInv, SettledInv
<1>6. SettledInv'
  BY <1>2, <1>4, <1>5 DEF AttestInv, SettledInv, List
<1>7. Vouched(listed', attested, reputation)
  BY <1>5, AccountKept DEF AttestInv, SettledInv
<1> QED
  BY <1>6, <1>7 DEF AttestInv, List

LEMMA SettleKeepsInv ==
  ASSUME AttestInv, NEW b \in Bounties, NEW f \in Parties, Settle(b, f)
  PROVE  AttestInv'
<1>1. /\ Settlement(b, f) /\ attested' = attested /\ reputation' = reputation
      /\ attested' \subseteq settled'
  BY DEF Settle, Settlement, AttestInv, SettledInv
<1>2. \A a \in attested : a[1] \in Bounties
  BY DEF AttestInv, SettledInv
<1>3. Vouched(listed', attested, reputation)
  BY <1>1, <1>2, SettlementKeeps, AccountKept DEF AttestInv
<1> QED
  BY <1>1, <1>3, SettlementKeeps DEF AttestInv

LEMMA AttestSettlementKeepsInv ==
  ASSUME AttestInv, NEW b \in Bounties, NEW f \in Parties, AttestSettlement(b, f)
  PROVE  AttestInv'
<1>1. /\ <<b, f>> \in settled /\ <<b, f>> \notin attested
      /\ attested' = attested \cup {<<b, f>>}
      /\ UNCHANGED <<listed, opened, settled>>
  BY DEF AttestSettlement, Exists
<1>2. /\ listed[b].owner \in Parties /\ listed[b].owner # f /\ listed[b].reward \in Nat
  BY <1>1 DEF AttestInv, SettledInv, Listing
<1>3. reputation' = [reputation EXCEPT
        ![listed[b].owner] = WithReturn(reputation[listed[b].owner], listed[b].reward, FALSE),
        ![f] = WithReturn(reputation[f], listed[b].reward, TRUE)]
  BY DEF AttestSettlement, UpdateReputation
<1>4. Vouched(listed, attested \cup {<<b, f>>}, reputation')
  BY <1>1, <1>2, <1>3, AccountGrows DEF AttestInv
<1> QED
  BY <1>1, <1>4 DEF AttestInv, SettledInv

LEMMA SettleAndAttestKeepsInv ==
  ASSUME AttestInv, NEW b \in Bounties, NEW f \in Parties, SettleAndAttest(b, f)
  PROVE  AttestInv'
<1>1. /\ Settlement(b, f) /\ listed[b].protocol = 2
      /\ settled' = settled \cup {<<b, f>>}
      /\ attested' = attested \cup {<<b, f>>} /\ attested' \subseteq settled'
  BY DEF SettleAndAttest, Settlement, AttestInv, SettledInv
<1>2. /\ <<b, f>> \notin attested
      /\ \A a \in attested : a[1] \in Bounties
  BY <1>1, SettlementIsOnce DEF AttestInv, SettledInv
<1>3. /\ SettledInv' /\ listed'[b].owner = listed[b].owner
      /\ listed'[b].reward = listed[b].reward
      /\ \A c \in Bounties : /\ listed'[c].owner = listed[c].owner
                             /\ listed'[c].reward = listed[c].reward
  BY <1>1, SettlementKeeps DEF AttestInv
<1>4. Vouched(listed', attested, reputation)
  BY <1>2, <1>3, AccountKept DEF AttestInv
<1>5. /\ listed'[b].owner \in Parties /\ listed'[b].owner # f /\ listed'[b].reward \in Nat
  BY <1>1, <1>3, SettlementIsOnce DEF AttestInv, SettledInv, Listing
<1>6. reputation' = [reputation EXCEPT
        ![listed'[b].owner] = WithReturn(reputation[listed'[b].owner], listed'[b].reward, FALSE),
        ![f] = WithReturn(reputation[f], listed'[b].reward, TRUE)]
  BY <1>3 DEF SettleAndAttest, UpdateReputation
<1>7. Vouched(listed', attested \cup {<<b, f>>}, reputation')
  BY <1>2, <1>4, <1>5, <1>6, AccountGrows
<1> QED
  BY <1>1, <1>3, <1>7 DEF AttestInv

\* Whoever attests, in whatever order and however often it is tried: the
\* reputation of every wallet is the account of its attested returns, and every
\* attestation vouches for a payment to its finder; for any number of wallets,
\* bounties and rewards, and wherever the counters end.
THEOREM ReputationAlwaysMatches == AttestSpec => []ReputationMatchesAttestations
<1>1. AttestInit => AttestInv
  <2> SUFFICES ASSUME AttestInit PROVE AttestInv
    OBVIOUS
  <2>1. SettledInv
    BY DEF AttestInit, SettledInv, Listing, Unlisted
  <2>2. \A w : SoldOf(listed, {}, w) = {} /\ HelpedOf({}, w) = {}
    BY DEF SoldOf, HelpedOf
  <2>3. TokensOf(listed, {}) = {}
    BY DEF TokensOf
  <2>4. \A w : Account(listed, {}, w) = [returns |-> 0, earned |-> 0, paid |-> 0]
    BY <2>2, <2>3, FS_EmptySet DEF Account
  <2>5. Vouched(listed, {}, reputation)
    BY <2>3, <2>4, FS_EmptySet DEF Vouched, AttestInit
  <2> QED
    BY <2>1, <2>5 DEF AttestInv, AttestInit
<1>2. AttestInv /\ [AttestNext]_attestVars => AttestInv'
  <2> SUFFICES ASSUME AttestInv, [AttestNext]_attestVars
               PROVE  AttestInv'
    OBVIOUS
  <2>1. CASE UNCHANGED attestVars
    BY <2>1 DEF attestVars, AttestInv, SettledInv
  <2>2. ASSUME NEW b \in Bounties, NEW f \in Parties, OpenClaim(b, f)
        PROVE  AttestInv'
    BY <2>2 DEF OpenClaim, AttestInv, SettledInv
  <2> QED
    BY <2>1, <2>2, ListKeepsInv, SettleKeepsInv, AttestSettlementKeepsInv,
       SettleAndAttestKeepsInv DEF AttestNext
<1>3. AttestInv => ReputationMatchesAttestations
  <2> SUFFICES ASSUME AttestInv PROVE ReputationMatchesAttestations
    OBVIOUS
  <2>1. \A w \in Parties : reputation[w] = Account(listed, attested, w)
    BY DEF AttestInv, Vouched
  <2>2. \A w \in Parties :
          Account(listed, attested, w) =
            [returns |-> Cardinality(Sold(w)) + Cardinality(Helped(w)),
             earned  |-> Total(Helped(w)),
             paid    |-> Total(Sold(w))]
    BY DEF Account, SoldOf, HelpedOf, TokensOf, Sold, Helped, Total, Tokens
  <2>3. \A a \in attested : listed[a[1]].finder = a[2]
    BY DEF AttestInv, SettledInv
  <2> QED
    BY <2>1, <2>2, <2>3 DEF ReputationMatchesAttestations
<1> QED
  BY <1>1, <1>2, <1>3, PTL DEF AttestSpec
=============================================================================
