------------------------------ MODULE AppProofs ------------------------------
(***************************************************************************)
(* Theorems about the app around the escrow, each about one module: the    *)
(* limits of SafeTags, of sponsored transactions and of the faucet, linked *)
(* wallets, what a listing pays and what becomes of a claim's contents;    *)
(* for every quota and any number of tags, pages, transactions and         *)
(* requests under way.                                                     *)
(***************************************************************************)
EXTENDS SafeTags, DevnetGrants, WalletLink, CreateListing, Evidence,
        FiniteSetTheorems, TLAPS

\* The subsets the requests under way are counted by.
LEMMA OneMore ==
    ASSUME NEW S, IsFiniteSet(S), NEW x, x \notin S
    PROVE  /\ IsFiniteSet(S \cup {x})
           /\ Cardinality(S \cup {x}) = Cardinality(S) + 1
           /\ Cardinality(S) \in Nat
BY FS_AddElement, FS_CardinalityType

LEMMA OneLess ==
    ASSUME NEW S, IsFiniteSet(S), NEW x \in S
    PROVE  /\ IsFiniteSet(S \ {x})
           /\ Cardinality(S \ {x}) = Cardinality(S) - 1
           /\ Cardinality(S) \in Nat
BY FS_RemoveElement, FS_CardinalityType

LEMMA NoMore ==
    ASSUME NEW S, IsFiniteSet(S), NEW T \in SUBSET S
    PROVE  /\ IsFiniteSet(T)
           /\ Cardinality(T) <= Cardinality(S)
           /\ Cardinality(T) \in Nat /\ Cardinality(S) \in Nat
BY FS_Subset, FS_CardinalityType

(***************************************************************************)
(* SafeTags: whoever passed the count and has not inserted yet takes a     *)
(* place, whether or not the insert succeeds.                              *)
(***************************************************************************)

TagsSpec == TagsInit /\ [][TagsNext]_tagVars

Making == {h \in Makers : maker[h] = "insert"}
Posting == {v \in Visitors : visitor[v] = "insert"}

TagsInv ==
    /\ tag \in [Tags -> TagStatus \cup {"none"}]
    /\ maker \in [Makers -> {"idle", "insert"}]
    /\ visitor \in [Visitors -> {"away", "form", "count", "insert", "sent"}]
    /\ messages \in Nat
    /\ again \in BOOLEAN
    /\ ~again => Cardinality(KeptTags) + Cardinality(Making) < TagQuota + Cardinality(Makers)
    /\ messages + Cardinality(Posting) < ReportQuota + Cardinality(Visitors)

\* All the sets that are counted are finite.
LEMMA TagSetsFinite ==
    /\ IsFiniteSet(KeptTags) /\ Cardinality(KeptTags) \in Nat
    /\ IsFiniteSet(Making) /\ Cardinality(Making) \in Nat
    /\ IsFiniteSet(Posting) /\ Cardinality(Posting) \in Nat
    /\ Cardinality(Makers) \in Nat /\ Cardinality(Visitors) \in Nat
    /\ Cardinality(Making) <= Cardinality(Makers)
    /\ Cardinality(Posting) <= Cardinality(Visitors)
<1>1. KeptTags \subseteq Tags /\ Making \subseteq Makers /\ Posting \subseteq Visitors
  BY DEF KeptTags, Making, Posting
<1> QED
  BY <1>1, NoMore, SafeTagsAssumption

\* The next values of the sets that are counted are finite as well.
LEMMA TagSetsStayFinite ==
    /\ IsFiniteSet(KeptTags') /\ Cardinality(KeptTags') \in Nat
    /\ IsFiniteSet(Making') /\ Cardinality(Making') \in Nat
    /\ IsFiniteSet(Posting') /\ Cardinality(Posting') \in Nat
    /\ Cardinality(Making') <= Cardinality(Makers)
    /\ Cardinality(Posting') <= Cardinality(Visitors)
<1>1. KeptTags' \subseteq Tags /\ Making' \subseteq Makers /\ Posting' \subseteq Visitors
  BY DEF KeptTags, Making, Posting
<1> QED
  BY <1>1, NoMore, SafeTagsAssumption

\* A creation that found room counts itself in.
LEMMA CountTagsKeepsInv ==
    ASSUME TagsInv, NEW h \in Makers, CountTags(h)
    PROVE  TagsInv'
<1>1. /\ KeptTags' = KeptTags /\ Posting' = Posting
      /\ Cardinality(KeptTags) < TagQuota
      /\ UNCHANGED <<tag, visitor, messages, again>>
  BY DEF CountTags, KeptTags, Posting
<1>2. maker' \in [Makers -> {"idle", "insert"}]
  BY DEF CountTags, TagsInv
<1>3. Cardinality(KeptTags) + Cardinality(Making') < TagQuota + Cardinality(Makers)
  BY <1>1, TagSetsFinite, TagSetsStayFinite, SafeTagsAssumption
<1> QED
  BY <1>1, <1>2, <1>3 DEF TagsInv

\* An insert takes the place its request had counted itself in for.
LEMMA InsertTagKeepsInv ==
    ASSUME TagsInv, NEW h \in Makers, InsertTag(h)
    PROVE  TagsInv'
<1>1. Posting' = Posting /\ UNCHANGED <<visitor, messages, again>>
  BY DEF InsertTag, Posting
<1>2. h \in Making /\ Making' = Making \ {h}
  BY DEF InsertTag, TagsInv, Making
<1>3. Cardinality(Making') = Cardinality(Making) - 1
  BY <1>2, OneLess, TagSetsFinite
<1>4. /\ tag' \in [Tags -> TagStatus \cup {"none"}]
      /\ \/ KeptTags' = KeptTags
         \/ \E t \in Tags : t \notin KeptTags /\ KeptTags' = KeptTags \cup {t}
  BY DEF InsertTag, TagsInv, KeptTags, TagStatus
<1>5. Cardinality(KeptTags') <= Cardinality(KeptTags) + 1
  BY <1>4, OneMore, TagSetsFinite
<1>6. maker' \in [Makers -> {"idle", "insert"}]
  BY DEF InsertTag, TagsInv
<1>7. ~again => Cardinality(KeptTags') + Cardinality(Making')
                  < TagQuota + Cardinality(Makers)
  BY <1>3, <1>5, TagSetsFinite, TagSetsStayFinite, SafeTagsAssumption DEF TagsInv
<1> QED
  BY <1>1, <1>4, <1>6, <1>7 DEF TagsInv

\* Unless a disabled tag is turned on, a change of status keeps no more tags.
LEMMA UpdateTagKeepsInv ==
    ASSUME TagsInv, NEW t \in Tags, NEW status \in TagStatus, UpdateTag(t, status)
    PROVE  TagsInv'
<1>1. Making' = Making /\ Posting' = Posting /\ UNCHANGED <<maker, visitor, messages>>
  BY DEF UpdateTag, Making, Posting
<1>2. tag' \in [Tags -> TagStatus \cup {"none"}] /\ again' \in BOOLEAN
  BY DEF UpdateTag, TagsInv
<1>3. ~again' => ~again /\ KeptTags' \subseteq KeptTags
  BY DEF UpdateTag, TagsInv, KeptTags, TagStatus
<1>4. ~again' => Cardinality(KeptTags') <= Cardinality(KeptTags)
  BY <1>3, NoMore, TagSetsFinite
<1>5. ~again' => Cardinality(KeptTags') + Cardinality(Making)
                   < TagQuota + Cardinality(Makers)
  BY <1>3, <1>4, TagSetsFinite, TagSetsStayFinite, SafeTagsAssumption DEF TagsInv
<1> QED
  BY <1>1, <1>2, <1>5 DEF TagsInv

\* What a visit does to the messages and to those that are about to be one.
LEMMA VisitKeepsInv ==
    ASSUME TagsInv, NEW v \in Visitors,
           OpenTag(v) \/ PostReport(v) \/ CountReports(v) \/ InsertReport(v) \/ Leave(v)
    PROVE  TagsInv'
<1> USE SafeTagsAssumption
<1>1. Making' = Making /\ KeptTags' = KeptTags /\ UNCHANGED <<tag, maker, again>>
  BY DEF OpenTag, PostReport, CountReports, InsertReport, Leave, Making, KeptTags
<1>2. visitor' \in [Visitors -> {"away", "form", "count", "insert", "sent"}]
  BY DEF OpenTag, PostReport, CountReports, InsertReport, Leave, VisitTo, TagsInv
<1>3. messages' \in Nat
  BY DEF OpenTag, PostReport, CountReports, InsertReport, Leave, TagsInv
<1>4. messages' + Cardinality(Posting') < ReportQuota + Cardinality(Visitors)
  <2>1. CASE CountReports(v) /\ messages < ReportQuota
    BY <2>1, TagSetsStayFinite, TagSetsFinite DEF CountReports, TagsInv
  <2>2. CASE InsertReport(v)
    <3>1. v \in Posting /\ Posting' = Posting \ {v}
      BY <2>2 DEF InsertReport, VisitTo, Posting, TagsInv
    <3>2. Cardinality(Posting') = Cardinality(Posting) - 1
      BY <3>1, OneLess, TagSetsFinite
    <3>3. messages' \in {messages, messages + 1}
      BY <2>2 DEF InsertReport
    <3> QED
      BY <3>2, <3>3, TagSetsFinite DEF TagsInv
  <2>3. CASE OpenTag(v) \/ PostReport(v) \/ Leave(v)
    <3>1. Posting' = Posting /\ messages' = messages
      BY <2>3 DEF OpenTag, PostReport, Leave, VisitTo, Posting, TagsInv
    <3> QED
      BY <3>1 DEF TagsInv
  <2>4. CASE CountReports(v) /\ ~(messages < ReportQuota)
    <3>1. Posting' = Posting /\ messages' = messages
      BY <2>4 DEF CountReports, VisitTo, Posting, TagsInv
    <3> QED
      BY <3>1 DEF TagsInv
  <2> QED
    BY <2>1, <2>2, <2>3, <2>4
<1> QED
  BY <1>1, <1>2, <1>3, <1>4 DEF TagsInv

\* Every step of SafeTags.
LEMMA TagsStep == TagsInv /\ [TagsNext]_tagVars => TagsInv'
<1> SUFFICES ASSUME TagsInv, [TagsNext]_tagVars
             PROVE  TagsInv'
  OBVIOUS
<1>1. CASE ResolveReport \/ UNCHANGED tagVars
  BY <1>1 DEF ResolveReport, tagVars, TagsInv, KeptTags, Making, Posting
<1>2. CASE HourPasses
  <2>1. /\ messages' \in Nat /\ messages' <= messages
        /\ Posting' = Posting /\ Making' = Making /\ KeptTags' = KeptTags
        /\ UNCHANGED <<tag, maker, visitor, again>>
    BY <1>2 DEF HourPasses, TagsInv, KeptTags, Making, Posting
  <2> QED
    BY <2>1, TagSetsFinite, SafeTagsAssumption DEF TagsInv
<1> QED
  BY <1>1, <1>2, CountTagsKeepsInv, InsertTagKeepsInv, UpdateTagKeepsInv, VisitKeepsInv
     DEF TagsNext

\* However many requests pass the count together, an account keeps fewer tags
\* than the quota and their number (unless one was turned on again), and a
\* finder sends fewer messages an hour.
THEOREM TagLimits == TagsSpec => []TagLimitsHold
<1>1. TagsInit => TagsInv
  <2> SUFFICES ASSUME TagsInit PROVE TagsInv
    OBVIOUS
  <2>1. KeptTags = {} /\ Making = {} /\ Posting = {}
    BY DEF TagsInit, KeptTags, Making, Posting
  <2>2. Cardinality(KeptTags) = 0 /\ Cardinality(Making) = 0 /\ Cardinality(Posting) = 0
    BY <2>1, FS_EmptySet
  <2>3. /\ 0 < TagQuota + Cardinality(Makers)
        /\ 0 < ReportQuota + Cardinality(Visitors)
    BY TagSetsFinite, SafeTagsAssumption
  <2>4. /\ tag \in [Tags -> TagStatus \cup {"none"}]
        /\ maker \in [Makers -> {"idle", "insert"}]
        /\ visitor \in [Visitors -> {"away", "form", "count", "insert", "sent"}]
        /\ messages = 0 /\ again = FALSE
    BY DEF TagsInit
  <2>5. /\ Cardinality(KeptTags) + Cardinality(Making) < TagQuota + Cardinality(Makers)
        /\ messages + Cardinality(Posting) < ReportQuota + Cardinality(Visitors)
    BY <2>2, <2>3, <2>4
  <2> QED
    BY <2>4, <2>5 DEF TagsInv
<1>2. TagsInv => TagLimitsHold
  BY TagSetsFinite, SafeTagsAssumption DEF TagsInv, TagLimitsHold
<1> QED
  BY <1>1, <1>2, TagsStep, PTL DEF TagsSpec

(***************************************************************************)
(* Sponsored transactions: receipts move rows into the quota and out of it *)
(* in any order, but a row that was never reported as failed counts from   *)
(* before its transaction leaves the server (Owed).                        *)
(***************************************************************************)

Building == {h \in Handlers : handler[h] = "building"}

Slip == [status: {"none", "prepared", "submitted", "confirmed", "failed"},
         tx: {"none", "signed", "succeeded", "reverted", "dropped"},
         reported: BOOLEAN]

\* Rows that no receipt has taken out of the quota.
Owed == {s \in Slips : slip[s].status # "none" /\ ~slip[s].reported}

SponsorInv ==
    /\ slip \in [Slips -> Slip]
    /\ handler \in [Handlers -> {"idle", "building"}]
    /\ \A s \in Slips : /\ slip[s].status = "failed" => slip[s].reported
                        /\ slip[s].status = "none" => slip[s].tx = "none"
    /\ Cardinality(Owed) + Cardinality(Building) < DayQuota + Cardinality(Handlers)

\* All the sets that are counted are finite, now and after a step.
LEMMA GrantSetsFinite ==
    /\ IsFiniteSet(Counted) /\ Cardinality(Counted) \in Nat
    /\ IsFiniteSet(Owed) /\ Cardinality(Owed) \in Nat
    /\ IsFiniteSet(Building) /\ Cardinality(Building) \in Nat
    /\ Cardinality(Handlers) \in Nat
    /\ Cardinality(Owed') \in Nat
    /\ Cardinality(Building') \in Nat /\ Cardinality(Building') <= Cardinality(Handlers)
<1>1. /\ Counted \subseteq Slips /\ Owed \subseteq Slips /\ Building \subseteq Handlers
      /\ Owed' \subseteq Slips /\ Building' \subseteq Handlers
  BY DEF Counted, Owed, Building
<1> QED
  BY <1>1, NoMore, GrantsAssumption

\* A request for a sponsored transaction.
LEMMA HandlerKeepsInv ==
    ASSUME SponsorInv, NEW h \in Handlers, CheckQuota(h) \/ Refuse(h) \/ Prepare(h)
    PROVE  SponsorInv'
<1> USE GrantsAssumption
<1>1. handler' \in [Handlers -> {"idle", "building"}]
  BY DEF CheckQuota, Refuse, Prepare, SponsorInv
<1>2. CASE CheckQuota(h)
  <2>1. Owed' = Owed /\ slip' = slip
    BY <1>2 DEF CheckQuota, Owed
  <2>2. Owed \subseteq Counted
    BY DEF Owed, Counted, SponsorInv, Slip
  <2>3. Cardinality(Owed) <= Cardinality(Counted)
    BY <2>2, NoMore, GrantSetsFinite
  <2>4. Cardinality(Owed) + Cardinality(Building') < DayQuota + Cardinality(Handlers)
    BY <1>2, <2>3, GrantSetsFinite DEF CheckQuota
  <2> QED
    BY <1>1, <2>1, <2>4 DEF SponsorInv
<1>3. CASE Refuse(h)
  <2>1. Owed' = Owed /\ slip' = slip /\ h \in Building /\ Building' = Building \ {h}
    BY <1>3 DEF Refuse, Owed, Building, SponsorInv
  <2>2. Cardinality(Building') = Cardinality(Building) - 1
    BY <2>1, OneLess, GrantSetsFinite
  <2>3. Cardinality(Owed) + Cardinality(Building') < DayQuota + Cardinality(Handlers)
    BY <2>2, GrantSetsFinite DEF SponsorInv
  <2> QED
    BY <1>1, <2>1, <2>3 DEF SponsorInv
<1>4. CASE Prepare(h)
  <2>1. h \in Building /\ Building' = Building \ {h}
    BY <1>4 DEF Prepare, Building, SponsorInv
  <2>2. PICK s \in Slips :
          /\ slip[s].status = "none"
          /\ slip' = [slip EXCEPT ![s] = [status |-> "prepared", tx |-> "signed",
                                          reported |-> FALSE]]
    BY <1>4 DEF Prepare
  <2>3. s \notin Owed /\ Owed' = Owed \cup {s} /\ slip' \in [Slips -> Slip]
    BY <2>2 DEF Owed, SponsorInv, Slip
  <2>4. \A n \in Slips : /\ slip'[n].status = "failed" => slip'[n].reported
                         /\ slip'[n].status = "none" => slip'[n].tx = "none"
    BY <2>2 DEF SponsorInv
  <2>5. /\ Cardinality(Building') = Cardinality(Building) - 1
        /\ Cardinality(Owed') = Cardinality(Owed) + 1
    BY <2>1, <2>3, OneLess, OneMore, GrantSetsFinite
  <2>6. Cardinality(Owed') + Cardinality(Building') < DayQuota + Cardinality(Handlers)
    BY <2>5, GrantSetsFinite DEF SponsorInv
  <2> QED
    BY <1>1, <2>3, <2>4, <2>6 DEF SponsorInv
<1> QED
  BY <1>2, <1>3, <1>4

\* What becomes of a transaction and of its row: whatever a receipt says of
\* whichever transaction, no row is owed anew.
LEMMA SlipKeepsInv ==
    ASSUME SponsorInv, NEW s \in Slips, Land(s) \/ Receipt(s) \/ DayOver(s)
    PROVE  SponsorInv'
<1>1. PICK x \in Slip :
        /\ slip' = [slip EXCEPT ![s] = x]
        /\ x.status # "none" /\ ~x.reported => s \in Owed
        /\ x.status = "failed" => x.reported
        /\ x.status = "none" => x.tx = "none"
  <2>0. slip[s] \in Slip
    BY DEF SponsorInv
  <2>1. CASE Land(s)
    <3>1. PICK end \in {"succeeded", "reverted", "dropped"} :
            slip' = [slip EXCEPT ![s].tx = end]
      BY <2>1 DEF Land
    <3>2. slip[s].status # "none" /\ (slip[s].status = "failed" => slip[s].reported)
      BY <2>1 DEF Land, SponsorInv
    <3> DEFINE x == [slip[s] EXCEPT !.tx = end]
    <3>3. slip' = [slip EXCEPT ![s] = x]
      BY <3>1 DEF SponsorInv
    <3>4. x \in Slip /\ x.status = slip[s].status /\ x.reported = slip[s].reported
      BY <2>0 DEF Slip
    <3>5. x.status # "none" /\ ~x.reported => s \in Owed
      BY <3>4 DEF Owed
    <3> HIDE DEF x
    <3> QED
      BY <3>2, <3>3, <3>4, <3>5
  <2>2. CASE Receipt(s)
    <3>1. PICK seen \in {"succeeded", "reverted", "unknown"} :
            slip' = [slip EXCEPT
              ![s].status = CASE seen = "succeeded" -> "confirmed"
                              [] seen = "reverted"  -> "failed"
                              [] OTHER              -> "submitted",
              ![s].reported = @ \/ seen = "reverted"]
      BY <2>2 DEF Receipt
    <3> DEFINE status == CASE seen = "succeeded" -> "confirmed"
                           [] seen = "reverted"  -> "failed"
                           [] OTHER              -> "submitted"
               x == [slip[s] EXCEPT !.status = status,
                                    !.reported = @ \/ seen = "reverted"]
    <3>2. slip' = [slip EXCEPT ![s] = x]
      BY <3>1 DEF SponsorInv
    <3>3. /\ status \in {"confirmed", "failed", "submitted"}
          /\ status = "failed" => seen = "reverted"
      OBVIOUS
    <3> HIDE DEF status
    <3>4. /\ x \in Slip /\ x.status = status
          /\ x.reported <=> slip[s].reported \/ seen = "reverted"
      BY <2>0, <3>3 DEF Slip
    <3>5. x.status # "none" /\ ~x.reported => s \in Owed
      BY <2>2, <3>4 DEF Receipt, Owed
    <3> HIDE DEF x
    <3> QED
      BY <3>2, <3>3, <3>4, <3>5
  <2>3. CASE DayOver(s)
    <3>1. NoSlip \in Slip /\ NoSlip.status = "none" /\ NoSlip.tx = "none"
      BY DEF NoSlip, Slip
    <3> QED
      BY <2>3, <3>1 DEF DayOver
  <2> QED
    BY <2>1, <2>2, <2>3
<1>2. Owed' \subseteq Owed /\ slip' \in [Slips -> Slip]
  BY <1>1 DEF Owed, SponsorInv
<1>3. \A n \in Slips : /\ slip'[n].status = "failed" => slip'[n].reported
                       /\ slip'[n].status = "none" => slip'[n].tx = "none"
  BY <1>1 DEF SponsorInv
<1>4. Building' = Building /\ handler' = handler
  BY DEF Land, Receipt, DayOver, Building
<1>5. Cardinality(Owed') <= Cardinality(Owed)
  BY <1>2, NoMore, GrantSetsFinite
<1>6. Cardinality(Owed') + Cardinality(Building) < DayQuota + Cardinality(Handlers)
  BY <1>5, GrantSetsFinite, GrantsAssumption DEF SponsorInv
<1> QED
  BY <1>2, <1>3, <1>4, <1>6 DEF SponsorInv

(***************************************************************************)
(* The faucet: every request under way that has read a balance promises    *)
(* the tokens between that balance and the target.                         *)
(***************************************************************************)

\* One element for each token a request will mint: its request and the balance
\* the token lifts.
Promised ==
    {unit \in Handlers \X (0..(Target - 1)) :
       faucet[unit[1]] # NotRead /\ unit[2] >= faucet[unit[1]]}

FaucetInv ==
    /\ tokens \in Nat
    /\ faucet \in [Handlers -> Nat \cup {NotRead}]
    /\ tokens + Cardinality(Promised) <= Target * Cardinality(Handlers)

\* The tokens of one request.
LEMMA Shortfall ==
    ASSUME NEW h, NEW from \in Nat
    PROVE  /\ IsFiniteSet({h} \X (from..(Target - 1)))
           /\ Cardinality({h} \X (from..(Target - 1))) =
                IF Target > from THEN Target - from ELSE 0
<1>1. IsFiniteSet({h}) /\ Cardinality({h}) = 1
  BY FS_Singleton
<1>2. /\ IsFiniteSet(from..(Target - 1))
      /\ Cardinality(from..(Target - 1)) = IF Target > from THEN Target - from ELSE 0
  BY FS_Interval, GrantsAssumption
<1>3. /\ IsFiniteSet({h} \X (from..(Target - 1)))
      /\ Cardinality({h} \X (from..(Target - 1))) =
           Cardinality({h}) * Cardinality(from..(Target - 1))
  BY <1>1, <1>2, FS_Product
<1> QED
  BY <1>1, <1>2, <1>3, GrantsAssumption

\* A set of requests promises at most a target for each.
LEMMA PromisesOf ==
    ASSUME NEW S \in SUBSET Handlers
    PROVE  /\ IsFiniteSet(S \X (0..(Target - 1)))
           /\ Cardinality(S \X (0..(Target - 1))) = Cardinality(S) * Target
           /\ Cardinality(S) \in Nat
<1>1. IsFiniteSet(S) /\ Cardinality(S) \in Nat
  BY NoMore, GrantsAssumption
<1>2. IsFiniteSet(0..(Target - 1)) /\ Cardinality(0..(Target - 1)) = Target
  BY FS_Interval, GrantsAssumption
<1> QED
  BY <1>1, <1>2, FS_Product

LEMMA PromisesFinite ==
    /\ IsFiniteSet(Promised) /\ Cardinality(Promised) \in Nat
    /\ Cardinality(Promised') \in Nat
    /\ Cardinality(Handlers) \in Nat
    /\ Target * Cardinality(Handlers) \in Nat
<1>1. /\ Promised \subseteq Handlers \X (0..(Target - 1))
      /\ Promised' \subseteq Handlers \X (0..(Target - 1))
  BY DEF Promised
<1>2. Cardinality(Handlers) \in Nat
  BY FS_CardinalityType, GrantsAssumption
<1>3. IsFiniteSet(Handlers \X (0..(Target - 1)))
  BY PromisesOf
<1>4. Target * Cardinality(Handlers) \in Nat
  BY <1>2, GrantsAssumption
<1> QED
  BY <1>1, <1>2, <1>3, <1>4, NoMore

\* What was promised before leaves room for one request more: it is promised
\* by the others.
LEMMA ReadBalanceKeepsInv ==
    ASSUME FaucetInv, NEW h \in Handlers, ReadBalance(h)
    PROVE  FaucetInv'
<1> DEFINE own == {h} \X (tokens..(Target - 1))
<1> USE GrantsAssumption
<1>1. /\ tokens' = tokens /\ tokens \in Nat
      /\ faucet' = [faucet EXCEPT ![h] = tokens] /\ faucet[h] = NotRead
      /\ faucet' \in [Handlers -> Nat \cup {NotRead}]
  BY DEF ReadBalance, FaucetInv
<1>2. Promised \subseteq (Handlers \ {h}) \X (0..(Target - 1))
  BY <1>1 DEF Promised
<1>3. Promised' = Promised \cup own
  BY <1>1 DEF Promised, FaucetInv, NotRead
<1>4. CASE tokens < Target
  <2>1. /\ IsFiniteSet(Handlers \ {h})
        /\ Cardinality(Handlers \ {h}) = Cardinality(Handlers) - 1
        /\ Cardinality(Handlers) \in Nat
    BY OneLess
  <2>2. /\ IsFiniteSet((Handlers \ {h}) \X (0..(Target - 1)))
        /\ Cardinality((Handlers \ {h}) \X (0..(Target - 1)))
             = (Cardinality(Handlers) - 1) * Target
    BY <2>1, PromisesOf
  <2>3. /\ Cardinality(Promised) \in Nat
        /\ Cardinality(Promised) <= (Cardinality(Handlers) - 1) * Target
    BY <1>2, <2>2, NoMore
  <2>4. IsFiniteSet(own) /\ Cardinality(own) = Target - tokens
    BY <1>1, <1>4, Shortfall
  <2>5. /\ Cardinality(Promised') = Cardinality(Promised) + Cardinality(own)
                                     - Cardinality(Promised \cap own)
        /\ Cardinality(Promised \cap own) \in Nat
    <3>1. /\ IsFiniteSet(Promised \cap own)
          /\ Cardinality(Promised \cup own) = Cardinality(Promised) + Cardinality(own)
                                     - Cardinality(Promised \cap own)
      BY <2>4, PromisesFinite, FS_Union, FS_Intersection
    <3> QED
      BY <1>3, <3>1, FS_CardinalityType
  <2>6. (Cardinality(Handlers) - 1) * Target = Target * Cardinality(Handlers) - Target
    BY <2>1
  <2>7. tokens + Cardinality(Promised') <= Target * Cardinality(Handlers)
    <3> HIDE DEF own
    <3> QED
      BY <1>1, <2>1, <2>3, <2>4, <2>5, <2>6
  <2> QED
    BY <1>1, <2>7 DEF FaucetInv
<1>5. CASE ~(tokens < Target)
  <2>1. own = {}
    BY <1>1, <1>5
  <2>2. Promised' = Promised
    BY <1>3, <2>1
  <2> QED
    BY <1>1, <2>2 DEF FaucetInv
<1> QED
  BY <1>4, <1>5

\* A request mints what it promised, or nothing.
LEMMA MintShortfallKeepsInv ==
    ASSUME FaucetInv, NEW h \in Handlers, MintShortfall(h)
    PROVE  FaucetInv'
<1> DEFINE own == {h} \X (faucet[h]..(Target - 1))
<1> USE GrantsAssumption
<1>1. /\ faucet[h] \in Nat
      /\ faucet' = [faucet EXCEPT ![h] = NotRead]
      /\ faucet' \in [Handlers -> Nat \cup {NotRead}]
      /\ \/ Target > faucet[h] /\ tokens' = tokens + (Target - faucet[h])
         \/ tokens' = tokens
      /\ tokens \in Nat /\ tokens' \in Nat
  BY DEF MintShortfall, FaucetInv
<1>2. own \subseteq Promised /\ Promised' = Promised \ own
  BY <1>1 DEF Promised, FaucetInv, NotRead
<1>3. /\ IsFiniteSet(own)
      /\ Cardinality(own) = IF Target > faucet[h] THEN Target - faucet[h] ELSE 0
  BY <1>1, Shortfall
<1>4. Cardinality(Promised') = Cardinality(Promised) - Cardinality(own)
  <2>1. Promised \cap own = own
    BY <1>2
  <2>2. IsFiniteSet(Promised)
    BY PromisesFinite
  <2> HIDE DEF own
  <2>3. Cardinality(Promised \ own) = Cardinality(Promised) - Cardinality(Promised \cap own)
    BY <2>2, FS_Difference
  <2> QED
    BY <1>2, <2>1, <2>3
<1>5. tokens' + Cardinality(Promised') <= Target * Cardinality(Handlers)
  <2>1. tokens' + Cardinality(Promised') <= tokens + Cardinality(Promised)
    <3>1. Cardinality(Promised) \in Nat
      BY PromisesFinite
    <3> HIDE DEF own
    <3> QED
      BY <1>1, <1>3, <1>4, <3>1
  <2>2. Cardinality(Promised) \in Nat /\ Cardinality(Promised') \in Nat
    BY PromisesFinite
  <2> QED
    BY <1>1, <2>1, <2>2, PromisesFinite DEF FaucetInv
<1> QED
  BY <1>1, <1>5 DEF FaucetInv

LEMMA SpendKeepsInv ==
    ASSUME FaucetInv, Spend
    PROVE  FaucetInv'
<1>1. tokens' = tokens - 1 /\ tokens' \in Nat /\ faucet' = faucet
  BY DEF Spend, FaucetInv
<1>2. Promised' = Promised
  BY <1>1 DEF Promised
<1> QED
  BY <1>1, <1>2, PromisesFinite DEF FaucetInv

(***************************************************************************)
(* Both together: neither kind of grant touches the other's state.         *)
(***************************************************************************)

GrantsSpec == GrantsInit /\ [][SponsorNext \/ FaucetNext]_grantVars

\* Neither the sponsor's rows nor its handlers change when the faucet acts.
LEMMA FaucetLeavesSponsorInv ==
    ASSUME SponsorInv, FaucetNext \/ UNCHANGED grantVars
    PROVE  SponsorInv'
<1>1. slip' = slip /\ handler' = handler
  BY DEF FaucetNext, ReadBalance, MintShortfall, Spend, grantVars
<1> QED
  BY <1>1 DEF SponsorInv, Owed, Building

LEMMA SponsorLeavesFaucetInv ==
    ASSUME FaucetInv, SponsorNext \/ UNCHANGED grantVars
    PROVE  FaucetInv'
<1>1. tokens' = tokens /\ faucet' = faucet
  BY DEF SponsorNext, CheckQuota, Refuse, Prepare, Land, Receipt, DayOver, grantVars
<1> QED
  BY <1>1 DEF FaucetInv, Promised

\* However many requests pass the quota check together, and whichever receipts
\* are lost or speak of other transactions, the sponsor pays for fewer
\* transactions a day than the quota and the requests under way, apart from rows
\* a receipt reported as failed; and however many requests read a balance before
\* any of them mints, no balance exceeds one target for every request under way.
THEOREM GrantsStayBounded == GrantsSpec => []GrantsAreBounded
<1>1. GrantsInit => SponsorInv /\ FaucetInv
  <2> SUFFICES ASSUME GrantsInit PROVE SponsorInv /\ FaucetInv
    OBVIOUS
  <2>1. Owed = {} /\ Building = {} /\ Promised = {}
    BY DEF GrantsInit, Owed, Building, NoSlip, Promised
  <2>2. /\ Cardinality(Owed) = 0 /\ Cardinality(Building) = 0
        /\ Cardinality(Promised) = 0
    BY <2>1, FS_EmptySet
  <2>3. SponsorInv
    <3>1. 0 < DayQuota + Cardinality(Handlers)
      BY GrantSetsFinite, GrantsAssumption
    <3> QED
      BY <2>2, <3>1 DEF GrantsInit, SponsorInv, NoSlip, Slip
  <2>4. FaucetInv
    BY <2>2, PromisesFinite DEF GrantsInit, FaucetInv
  <2> QED
    BY <2>3, <2>4
<1>2. SponsorInv /\ [SponsorNext \/ FaucetNext]_grantVars => SponsorInv'
  BY HandlerKeepsInv, SlipKeepsInv, FaucetLeavesSponsorInv DEF SponsorNext
<1>3. FaucetInv /\ [SponsorNext \/ FaucetNext]_grantVars => FaucetInv'
  BY ReadBalanceKeepsInv, MintShortfallKeepsInv, SpendKeepsInv,
     SponsorLeavesFaucetInv DEF FaucetNext
<1>4. SponsorInv /\ FaucetInv => GrantsAreBounded
  <2> SUFFICES ASSUME SponsorInv, FaucetInv
               PROVE  GrantsAreBounded
    OBVIOUS
  <2>1. Paid \ Reported \subseteq Owed
    BY DEF SponsorInv, Paid, Reported, Owed
  <2>2. /\ Cardinality(Paid \ Reported) <= Cardinality(Owed)
        /\ Cardinality(Paid \ Reported) \in Nat
    BY <2>1, NoMore, GrantSetsFinite
  <2>3. Cardinality(Paid \ Reported) < DayQuota + Cardinality(Handlers)
    BY <2>2, GrantSetsFinite, GrantsAssumption DEF SponsorInv
  <2>4. tokens <= Target * Cardinality(Handlers)
    BY PromisesFinite DEF FaucetInv
  <2> QED
    BY <2>3, <2>4 DEF GrantsAreBounded
<1> QED
  BY <1>1, <1>2, <1>3, <1>4, PTL DEF GrantsSpec

(***************************************************************************)
(* Wallets: a session that is about to verify or to link holds a proof of  *)
(* its own, made by the wallet it names.                                   *)
(***************************************************************************)

WalletSpec == WalletInit /\ [][WalletNext]_walletVars

Proven(w, u) == \E p \in proofs : p.wallet = w /\ p.user = u

Page == [pc: {"idle", "sign", "verify", "link"}, user: Users \cup {NoWallet},
         wallet: Wallets \cup {NoWallet}, nonce: Nat, signer: Wallets \cup {NoWallet}]

WalletInv ==
    /\ profile \in [Users -> [wallet: Wallets \cup {NoWallet}, nonce: Nat]]
    /\ session \in [Sessions -> Page]
    /\ issued \in Nat
    /\ \A s \in Sessions :
          /\ session[s].pc # "idle" => session[s].user \in Users /\ session[s].wallet \in Wallets
          /\ session[s].pc \in {"verify", "link"} => Proven(session[s].signer, session[s].user)
          /\ session[s].pc = "link" => session[s].signer = session[s].wallet
    /\ LinkedWalletIsProven

\* One page changes, proofs are never lost, and no profile is linked.
LEMMA PageKeepsInv ==
    ASSUME WalletInv, NEW s \in Sessions, NEW x \in Page,
           session' = [session EXCEPT ![s] = x],
           proofs \subseteq proofs',
           issued' \in Nat,
           profile' \in [Users -> [wallet: Wallets \cup {NoWallet}, nonce: Nat]],
           \A u \in Users : profile'[u].wallet = profile[u].wallet,
           x.pc # "idle" => x.user \in Users /\ x.wallet \in Wallets,
           x.pc \in {"verify", "link"} => Proven(x.signer, x.user)',
           x.pc = "link" => x.signer = x.wallet
    PROVE  WalletInv'
<1>1. \A w, u : Proven(w, u) => Proven(w, u)'
  BY DEF Proven
<1>2. session' \in [Sessions -> Page]
  BY DEF WalletInv
<1>3. LinkedWalletIsProven'
  BY DEF WalletInv, LinkedWalletIsProven
<1>4. ASSUME NEW n \in Sessions
      PROVE  /\ session'[n].pc # "idle" =>
                   session'[n].user \in Users /\ session'[n].wallet \in Wallets
             /\ session'[n].pc \in {"verify", "link"} =>
                   Proven(session[n].signer, session[n].user)'
             /\ session'[n].pc = "link" => session'[n].signer = session'[n].wallet
  <2>1. CASE n = s
    BY <2>1 DEF WalletInv, Proven
  <2>2. CASE n # s
    BY <1>1, <2>2 DEF WalletInv, Proven
  <2> QED
    BY <2>1, <2>2
<1> QED
  BY <1>2, <1>3, <1>4 DEF WalletInv

\* A page that closes is about no account.
LEMMA IdlePage == Closed \in Page /\ Closed.pc = "idle"
BY DEF Closed, Page, NoNonce

\* The wallet that is linked is the one that signed for this account, and no
\* other account has it.
LEMMA VerifyWritesKeepsInv ==
    ASSUME WalletInv, NEW s \in Sessions, VerifyWrites(s)
    PROVE  WalletInv'
<1> DEFINE u == session[s].user
           w == session[s].wallet
<1>1. /\ u \in Users /\ w \in Wallets /\ Proven(w, u)
      /\ session' = [session EXCEPT ![s] = Closed]
      /\ UNCHANGED <<issued, expired, proofs>>
  BY DEF VerifyWrites, WalletInv
<1>2. CASE profile' = profile
  BY <1>1, <1>2, PageKeepsInv, IdlePage DEF WalletInv
<1>3. CASE /\ \A v \in Users \ {u} : profile[v].wallet # w
           /\ profile' = [profile EXCEPT ![u] = [wallet |-> w, nonce |-> NoNonce]]
  <2>1. profile' \in [Users -> [wallet: Wallets \cup {NoWallet}, nonce: Nat]]
    BY <1>1, <1>3 DEF WalletInv, NoNonce
  <2>2. \A v \in Users : profile'[v].wallet = IF v = u THEN w ELSE profile[v].wallet
    BY <1>1, <1>3 DEF WalletInv
  <2>3. LinkedWalletIsProven'
    BY <1>1, <1>3, <2>2 DEF WalletInv, LinkedWalletIsProven, Proven
  <2>4. session' \in [Sessions -> Page]
    BY <1>1, IdlePage DEF WalletInv
  <2>5. \A n \in Sessions : session'[n] = IF n = s THEN Closed ELSE session[n]
    BY <1>1 DEF WalletInv
  <2>6. ASSUME NEW n \in Sessions
        PROVE  /\ session'[n].pc # "idle" =>
                     session'[n].user \in Users /\ session'[n].wallet \in Wallets
               /\ session'[n].pc \in {"verify", "link"} =>
                     Proven(session[n].signer, session[n].user)'
               /\ session'[n].pc = "link" => session'[n].signer = session'[n].wallet
    BY <1>1, <2>5, IdlePage DEF WalletInv, Proven
  <2> QED
    BY <1>1, <2>1, <2>3, <2>4, <2>6 DEF WalletInv
<1> QED
  BY <1>2, <1>3 DEF VerifyWrites

\* Every step of the linking of wallets.
LEMMA WalletStep == WalletInv /\ [WalletNext]_walletVars => WalletInv'
<1> SUFFICES ASSUME WalletInv, [WalletNext]_walletVars
             PROVE  WalletInv'
  OBVIOUS
<1>1. ASSUME NEW s \in Sessions, Challenge(s)
      PROVE  WalletInv'
  <2>1. PICK u \in Users, w \in Wallets :
          /\ session' = [session EXCEPT
               ![s] = [pc |-> "sign", user |-> u, wallet |-> w,
                       nonce |-> issued', signer |-> NoWallet]]
          /\ profile' = [profile EXCEPT ![u].nonce = issued']
    BY <1>1 DEF Challenge
  <2>2. issued' \in Nat /\ proofs' = proofs
    BY <1>1, WalletAssumption DEF Challenge, WalletInv
  <2>3. /\ profile' \in [Users -> [wallet: Wallets \cup {NoWallet}, nonce: Nat]]
        /\ \A v \in Users : profile'[v].wallet = profile[v].wallet
    BY <2>1, <2>2 DEF WalletInv
  <2>4. [pc |-> "sign", user |-> u, wallet |-> w, nonce |-> issued', signer |-> NoWallet] \in Page
    BY <2>2 DEF Page
  <2> QED
    BY <2>1, <2>2, <2>3, <2>4, PageKeepsInv
<1>2. ASSUME NEW s \in Sessions, SignMessage(s)
      PROVE  WalletInv'
  <2>1. /\ session[s].pc = "sign" /\ session[s] \in Page
        /\ session[s].user \in Users /\ session[s].wallet \in Wallets
        /\ UNCHANGED <<profile, issued, expired>>
    BY <1>2 DEF SignMessage, WalletInv
  <2>2. CASE session' = [session EXCEPT ![s] = Closed] /\ proofs' = proofs
    BY <2>1, <2>2, PageKeepsInv, IdlePage DEF WalletInv
  <2>3. ASSUME NEW w \in Wallets,
               proofs' = proofs \cup {[wallet |-> w, user |-> session[s].user,
                                      nonce |-> session[s].nonce]},
               session' = [session EXCEPT ![s].pc = "verify", ![s].signer = w]
        PROVE  WalletInv'
    <3> DEFINE x == [session[s] EXCEPT !.pc = "verify", !.signer = w]
    <3>1. session' = [session EXCEPT ![s] = x]
      BY <2>3 DEF WalletInv
    <3>2. /\ x \in Page /\ x.pc = "verify" /\ x.signer = w
          /\ x.user = session[s].user /\ x.wallet = session[s].wallet
      BY <2>1 DEF Page
    <3>3. \E p \in proofs' : p.wallet = x.signer /\ p.user = x.user
      <4> DEFINE p == [wallet |-> w, user |-> session[s].user, nonce |-> session[s].nonce]
      <4>1. p \in proofs'
        BY <2>3
      <4>2. p.wallet = x.signer /\ p.user = x.user
        BY <3>2
      <4> HIDE DEF p, x
      <4> QED
        BY <4>1, <4>2
    <3>4. /\ proofs \subseteq proofs'
          /\ issued' \in Nat
          /\ profile' = profile
          /\ profile \in [Users -> [wallet: Wallets \cup {NoWallet}, nonce: Nat]]
      BY <2>1, <2>3 DEF WalletInv
    <3> HIDE DEF x
    <3> QED
      BY <2>1, <3>1, <3>2, <3>3, <3>4, PageKeepsInv DEF Proven
  <2> QED
    BY <1>2, <2>2, <2>3 DEF SignMessage
<1>3. ASSUME NEW s \in Sessions, VerifyReads(s)
      PROVE  WalletInv'
  <2>1. /\ session[s].pc = "verify" /\ session[s] \in Page
        /\ session[s].user \in Users /\ session[s].wallet \in Wallets
        /\ Proven(session[s].signer, session[s].user)
        /\ UNCHANGED <<profile, issued, expired, proofs>>
    BY <1>3 DEF VerifyReads, WalletInv
  <2>2. CASE session' = [session EXCEPT ![s] = Closed]
    BY <2>1, <2>2, PageKeepsInv, IdlePage DEF WalletInv
  <2>3. CASE Authentic(s) /\ session' = [session EXCEPT ![s] = [session[s] EXCEPT !.pc = "link"]]
    <3> DEFINE x == [session[s] EXCEPT !.pc = "link"]
    <3>1. /\ x \in Page /\ x.pc = "link" /\ x.signer = session[s].signer
          /\ x.user = session[s].user /\ x.wallet = session[s].wallet
      BY <2>1 DEF Page
    <3>2. x.signer = x.wallet
      BY <2>3, <3>1 DEF Authentic
    <3>3. session' = [session EXCEPT ![s] = x]
      BY <2>3
    <3>4. \E p \in proofs' : p.wallet = x.signer /\ p.user = x.user
      BY <2>1, <3>1 DEF Proven
    <3> HIDE DEF x
    <3> QED
      BY <2>1, <3>1, <3>2, <3>3, <3>4, PageKeepsInv DEF WalletInv, Proven
  <2> QED
    BY <1>3, <2>2, <2>3 DEF VerifyReads
<1>4. ASSUME NEW s \in Sessions, PageCloses(s)
      PROVE  WalletInv'
  BY <1>4, PageKeepsInv, IdlePage DEF PageCloses, WalletInv
<1>5. CASE FiveMinutesPass \/ UNCHANGED walletVars
  BY <1>5 DEF FiveMinutesPass, walletVars, WalletInv, Proven, LinkedWalletIsProven
<1> QED
  BY <1>1, <1>2, <1>3, <1>4, <1>5, VerifyWritesKeepsInv DEF WalletNext

\* Whatever pages, accounts and wallets interleave, an account is linked only
\* to a wallet that signed a challenge naming it, and a wallet to one account.
THEOREM LinksAreProven == WalletSpec => []LinkedWalletIsProven
<1>1. WalletInit => WalletInv
  BY IdlePage DEF WalletInit, WalletInv, LinkedWalletIsProven, NoNonce, Closed
<1>2. WalletInv => LinkedWalletIsProven
  BY DEF WalletInv
<1> QED
  BY <1>1, <1>2, WalletStep, PTL DEF WalletSpec

(***************************************************************************)
(* Listings: a transaction is executed on the bounty it finds, so it does  *)
(* not matter what the tab that built it had read, or when it lands.       *)
(***************************************************************************)

ListingSpec == CreateInit /\ [][CreateNext]_createVars

Deeds == {"create", "create_and_fund", "fund", "cancel"}

\* The stages of an attempt in which a tab has built its transaction.
Attempting == {"simulate", "send", "confirm", "after", "told"}

BountyRow == [status: {"none", "Draft", "Funded", "Cancelled"}, escrow: Nat, deadline: Txs \cup {0}]

TxRow == [does: Deeds \cup {"nothing"}, deadline: Txs \cup {0},
          state: {"unused", "built", "sent", "landed", "reverted", "expired"}]

TabRow == [pc: {"idle", "read", "build"} \cup Attempting, tx: Txs \cup {NoTx},
           seen: BountyRow, told: {"nothing", "confirmed", "failed"}]

\* It is known what a transaction does that may land, or that a tab is about
\* to send.
DeedsKnown(tabs, txs) ==
    /\ tabs \in [Tabs -> TabRow]
    /\ txs \in [Txs -> TxRow]
    /\ \A n \in Txs : txs[n].state = "sent" => txs[n].does \in Deeds
    /\ \A t \in Tabs : tabs[t].pc \in Attempting =>
          tabs[t].tx \in Txs /\ txs[tabs[t].tx].does \in Deeds

ListingInv ==
    /\ bounty \in BountyRow
    /\ bounty.escrow = IF bounty.status = "Funded" THEN 1 ELSE 0
    /\ DeedsKnown(tab, tx)

\* Forgetting a transaction nobody asks about loses no deed.
LEMMA KeptDeeds ==
    ASSUME NEW tabs, NEW txs, DeedsKnown(tabs, txs)
    PROVE  DeedsKnown(tabs, Kept(tabs, txs))
<1>1. Unused \in TxRow /\ Unused.state = "unused"
  BY DEF Unused, TxRow
<1>2. /\ Kept(tabs, txs) \in [Txs -> TxRow]
      /\ \A n \in Txs : Kept(tabs, txs)[n] = IF Forgotten(n, tabs, txs) THEN Unused ELSE txs[n]
  BY <1>1 DEF Kept, DeedsKnown
<1> HIDE DEF Kept
<1> QED
  BY <1>1, <1>2 DEF DeedsKnown, Forgotten

\* A tab between two attempts.
LEMMA ReadyTab ==
    ASSUME NEW told \in {"nothing", "confirmed", "failed"}
    PROVE  /\ [Ready EXCEPT !.told = told] \in TabRow
           /\ [Ready EXCEPT !.told = told].pc = "idle"
           /\ [Ready EXCEPT !.pc = "read"] \in TabRow
           /\ [Ready EXCEPT !.pc = "read"].pc = "read"
BY DEF Ready, TabRow, BountyRow, NoBounty, NoTx

\* A tab's row changes to one that is not about a transaction, or is about the
\* same one.
LEMMA TabMoves ==
    ASSUME DeedsKnown(tab, tx), NEW t \in Tabs, NEW row \in TabRow,
           row.pc \in Attempting => tab[t].pc \in Attempting /\ row.tx = tab[t].tx
    PROVE  DeedsKnown([tab EXCEPT ![t] = row], tx)
BY DEF DeedsKnown

\* An attempt ends, whatever has become of the transactions.
LEMMA AttemptEnds ==
    ASSUME NEW txs, DeedsKnown(tab, txs), NEW t \in Tabs,
           NEW told \in {"nothing", "confirmed", "failed"}, Ends(t, told, txs)
    PROVE  DeedsKnown(tab', tx')
<1>1. tab' = [tab EXCEPT ![t] = [Ready EXCEPT !.told = told]] /\ tx' = Kept(tab', txs)
  BY DEF Ends
<1>2. DeedsKnown(tab', txs)
  BY <1>1, ReadyTab DEF DeedsKnown, Attempting
<1> QED
  BY <1>1, <1>2, KeptDeeds

\* A tab builds a transaction under a number that is free.
LEMMA TransactionBuilt ==
    ASSUME DeedsKnown(tab, tx), NEW t \in Tabs, NEW does \in Deeds, Builds(t, does)
    PROVE  DeedsKnown(tab', tx')
<1>1. PICK n \in Txs, d \in Txs \cup {0} :
        /\ Forgotten(n, tab, tx)
        /\ tab' = [tab EXCEPT ![t].tx = n, ![t].pc = "simulate"]
        /\ tx' = Kept(tab', [tx EXCEPT ![n] = [does |-> does, state |-> "built", deadline |-> d]])
  BY DEF Builds, Free
<1> DEFINE row == [does |-> does, state |-> "built", deadline |-> d]
           mine == [tab[t] EXCEPT !.tx = n, !.pc = "simulate"]
           txs == [tx EXCEPT ![n] = row]
<1>2. row \in TxRow /\ row.state = "built" /\ row.does = does
  BY DEF TxRow
<1>3. mine \in TabRow /\ mine.tx = n
  BY DEF DeedsKnown, TabRow, Attempting
<1>4. tab' = [tab EXCEPT ![t] = mine]
  BY <1>1 DEF DeedsKnown
<1>5. tx' = Kept(tab', txs)
  BY <1>1
<1> HIDE DEF row, mine
<1>6. /\ txs \in [Txs -> TxRow]
      /\ \A k \in Txs : txs[k] = IF k = n THEN row ELSE tx[k]
  BY <1>2 DEF DeedsKnown
<1>7. /\ tab' \in [Tabs -> TabRow]
      /\ \A u \in Tabs : tab'[u] = IF u = t THEN mine ELSE tab[u]
  BY <1>3, <1>4 DEF DeedsKnown
<1> HIDE DEF txs
<1>8. DeedsKnown(tab', txs)
  BY <1>1, <1>2, <1>3, <1>6, <1>7 DEF DeedsKnown, Forgotten
<1> QED
  BY <1>5, <1>8, KeptDeeds

\* A transaction ends: it is executed on the bounty it finds, or not at all.
LEMMA LandsKeepsInv ==
    ASSUME ListingInv, NEW n \in Txs, Lands(n)
    PROVE  ListingInv'
<1>1. tx[n] \in TxRow /\ tx[n].does \in Deeds
  BY DEF Lands, ListingInv, DeedsKnown
<1>2. DeedsKnown(tab', tx')
  <2>1. ASSUME NEW state \in {"landed", "reverted"},
               tx' = Kept(tab, [tx EXCEPT ![n].state = state]), tab' = tab
        PROVE  DeedsKnown(tab', tx')
    <3>1. DeedsKnown(tab, [tx EXCEPT ![n].state = state])
      BY <1>1 DEF ListingInv, DeedsKnown, TxRow
    <3> QED
      BY <2>1, <3>1, KeptDeeds
  <2> QED
    BY <2>1 DEF Lands
<1>3. CASE ~ProgramAccepts(tx[n].does)
  BY <1>2, <1>3 DEF Lands, ListingInv
<1>4. CASE ProgramAccepts(tx[n].does)
  <2> DEFINE d == tx[n].deadline
  <2>1. bounty' = After(tx[n].does, d) /\ d \in Txs \cup {0}
    BY <1>1, <1>4 DEF Lands, TxRow
  <2> HIDE DEF d
  <2>2. CASE tx[n].does \in {"create", "create_and_fund"}
    BY <1>2, <2>1, <2>2 DEF After, ListingInv, BountyRow
  <2>3. CASE tx[n].does = "fund"
    <3> DEFINE locked == bounty.escrow + 1
    <3>1. /\ bounty' = [bounty EXCEPT !.status = "Funded", !.escrow = locked]
          /\ bounty.escrow = 0
      BY <1>4, <2>1, <2>3 DEF After, ProgramAccepts
    <3>2. locked = 1
      BY <3>1
    <3> HIDE DEF locked
    <3>3. bounty' \in BountyRow /\ bounty'.status = "Funded" /\ bounty'.escrow = 1
      BY <3>1, <3>2 DEF ListingInv, BountyRow
    <3> QED
      BY <1>2, <3>3 DEF ListingInv
  <2>4. CASE tx[n].does = "cancel"
    <3>1. /\ bounty' = [bounty EXCEPT !.status = "Cancelled"]
          /\ bounty.escrow = 0
      BY <1>4, <2>1, <2>4 DEF After, ProgramAccepts
    <3> QED
      BY <1>2, <3>1 DEF ListingInv, BountyRow
  <2> QED
    BY <1>1, <2>2, <2>3, <2>4 DEF Deeds
<1> QED
  BY <1>3, <1>4

\* A transaction that is too old leaves the bounty alone.
LEMMA ExpiresKeepsInv ==
    ASSUME ListingInv, NEW n \in Txs, Expires(n)
    PROVE  ListingInv'
<1>1. DeedsKnown(tab, [tx EXCEPT ![n].state = "expired"])
  BY DEF ListingInv, DeedsKnown, TxRow
<1>2. DeedsKnown(tab', tx')
  BY <1>1, KeptDeeds DEF Expires
<1> QED
  BY <1>2 DEF Expires, ListingInv

\* What a tab does between its transactions and the chain.
LEMMA TabStepKeepsDeeds ==
    ASSUME ListingInv, NEW t \in Tabs, Press(t) \/ TabStep(t)
    PROVE  DeedsKnown(tab', tx')
<1> USE DEF ListingInv
<1>1. tab[t] \in TabRow /\ DeedsKnown(tab, tx)
  BY DEF DeedsKnown
<1>2. ASSUME NEW pc \in {"read", "build"} \cup Attempting, Goes(t, pc), tx' = tx,
             pc \in Attempting => tab[t].pc \in Attempting
      PROVE  DeedsKnown(tab', tx')
  <2> DEFINE row == [tab[t] EXCEPT !.pc = pc]
  <2>1. row \in TabRow /\ row.pc = pc /\ row.tx = tab[t].tx
    BY <1>1 DEF TabRow
  <2>2. tab' = [tab EXCEPT ![t] = row]
    BY <1>2 DEF Goes
  <2> HIDE DEF row
  <2> QED
    BY <1>1, <1>2, <2>1, <2>2, TabMoves
<1>3. CASE Press(t)
  BY <1>1, <1>3, ReadyTab, TabMoves DEF Press, Attempting
<1>4. CASE FetchBounty(t)
  <2>1. ASSUME NEW answer \in Answers, tx' = tx,
               tab' = [tab EXCEPT ![t].pc = "build", ![t].seen = answer]
        PROVE  DeedsKnown(tab', tx')
    <3>1. answer \in BountyRow
      <4>1. bounty \in BountyRow /\ NoBounty \in BountyRow
        BY DEF BountyRow, NoBounty
      <4>2. [bounty EXCEPT !.status = "Draft", !.escrow = 0] \in BountyRow
        BY <4>1 DEF BountyRow
      <4> QED
        BY <4>1, <4>2 DEF Answers
    <3> DEFINE row == [tab[t] EXCEPT !.pc = "build", !.seen = answer]
    <3>2. row \in TabRow /\ row.pc = "build"
      BY <1>1, <3>1 DEF TabRow
    <3>3. tab' = [tab EXCEPT ![t] = row]
      BY <2>1
    <3> HIDE DEF row
    <3> QED
      BY <1>1, <2>1, <3>2, <3>3, TabMoves DEF Attempting
  <2> QED
    BY <1>1, <1>4, <2>1, AttemptEnds DEF FetchBounty, Fails
<1>5. CASE CreateAndFund(t) \/ FundOrCancel(t)
  BY <1>1, <1>5, TransactionBuilt, AttemptEnds DEF CreateAndFund, FundOrCancel, Fails, Deeds
<1>6. CASE Simulate(t)
  BY <1>1, <1>2, <1>6, AttemptEnds DEF Simulate, Sending, Fails, Attempting
<1>7. CASE SendRawTransaction(t)
  <2>1. tab[t].pc = "send" /\ tab[t].tx \in Txs /\ Does(t) \in Deeds
    BY <1>7 DEF SendRawTransaction, Sending, DeedsKnown, Attempting, Does
  <2> DEFINE txs == [tx EXCEPT ![tab[t].tx].state = "sent"]
             row == [tab[t] EXCEPT !.pc = "confirm"]
  <2>2. DeedsKnown(tab, txs)
    BY <2>1 DEF DeedsKnown, TxRow, Does
  <2>3. row \in TabRow /\ row.pc = "confirm" /\ row.tx = tab[t].tx
    BY <1>1 DEF TabRow, Attempting
  <2> HIDE DEF txs, row
  <2>4. DeedsKnown([tab EXCEPT ![t] = row], txs)
    BY <2>1, <2>2, <2>3 DEF DeedsKnown, Attempting
  <2> QED
    BY <1>1, <1>7, <2>2, <2>4, AttemptEnds DEF SendRawTransaction, Fails, Goes, txs, row
<1>8. CASE ConfirmTransaction(t)
  BY <1>1, <1>2, <1>8, AttemptEnds DEF ConfirmTransaction, Sending, Fails, Attempting
<1>9. CASE AfterConfirmation(t)
  <2>1. CASE Builds(t, "fund")
    BY <1>1, <2>1, TransactionBuilt DEF Deeds
  <2>2. CASE tx' = tx /\ tab' = [tab EXCEPT ![t].pc = "told", ![t].told = "confirmed"]
    <3> DEFINE row == [tab[t] EXCEPT !.pc = "told", !.told = "confirmed"]
    <3>1. row \in TabRow /\ row.tx = tab[t].tx
      BY <1>1 DEF TabRow, Attempting
    <3>2. tab' = [tab EXCEPT ![t] = row] /\ tab[t].pc \in Attempting
      BY <1>9, <2>2 DEF AfterConfirmation, Sending, Attempting
    <3> HIDE DEF row
    <3> QED
      BY <1>1, <2>2, <3>1, <3>2, TabMoves
  <2> QED
    BY <1>9, <2>1, <2>2 DEF AfterConfirmation
<1>10. CASE Read(t)
  BY <1>1, <1>10, AttemptEnds DEF Read
<1> QED
  BY <1>3, <1>4, <1>5, <1>6, <1>7, <1>8, <1>9, <1>10 DEF TabStep

\* Every step keeps the listing's books.
LEMMA ListingInvCorrect == ListingSpec => []ListingInv
<1>1. CreateInit => ListingInv
  <2> SUFFICES ASSUME CreateInit PROVE ListingInv
    OBVIOUS
  <2>1. NoBounty \in BountyRow /\ Unused \in TxRow /\ Ready \in TabRow
    BY DEF NoBounty, BountyRow, Unused, TxRow, Ready, TabRow, NoTx
  <2>2. DeedsKnown(tab, tx)
    BY <2>1 DEF CreateInit, DeedsKnown, Unused, Ready, Attempting
  <2> QED
    BY <2>1, <2>2 DEF CreateInit, ListingInv, NoBounty
<1>2. ListingInv /\ [CreateNext]_createVars => ListingInv'
  <2> SUFFICES ASSUME ListingInv, [CreateNext]_createVars
               PROVE  ListingInv'
    OBVIOUS
  <2>1. ASSUME NEW t \in Tabs, Press(t) \/ TabStep(t)
        PROVE  ListingInv'
    <3>1. bounty' = bounty
      BY <2>1 DEF Press, TabStep, FetchBounty, CreateAndFund, FundOrCancel, Simulate,
                  SendRawTransaction, ConfirmTransaction, AfterConfirmation, Read
    <3> QED
      BY <2>1, <3>1, TabStepKeepsDeeds DEF ListingInv
  <2>2. CASE WeatherChanges \/ UNCHANGED createVars
    BY <2>2 DEF WeatherChanges, createVars, ListingInv
  <2> QED
    BY <2>1, <2>2, LandsKeepsInv, ExpiresKeepsInv DEF CreateNext
<1> QED
  BY <1>1, <1>2, PTL DEF ListingSpec

\* However often the owner presses the button and whatever lands late, the
\* reward is locked at most once, and never in a cancelled listing.
THEOREM RewardIsLockedOnce == ListingSpec => []PaidOnce
<1>1. ListingInv => PaidOnce
  BY DEF ListingInv, PaidOnce
<1> QED
  BY <1>1, ListingInvCorrect, PTL

(***************************************************************************)
(* What the owner is told.  A step of the chain, of the owner or of the    *)
(* network keeps three things true of what a transaction does and of what  *)
(* became of it, which are stated of a status so that they can follow it.  *)
(***************************************************************************)

\* The status of a listing goes this way, and Funded and Cancelled are ends.
StatusGrows(from, to) ==
    \/ to = from
    \/ from = "none" /\ to \in {"Draft", "Funded"}
    \/ from = "Draft" /\ to \in {"Funded", "Cancelled"}

\* Who builds what, and why a transaction was refused.
DeedFits(row, status) ==
    /\ row.does = "create" => sponsored
    /\ row.does = "create_and_fund" => ~sponsored
    /\ row.does \in {"fund", "cancel"} => status # "none"
    /\ row.state \in {"landed", "reverted"} => status # "none"
    /\ row.state = "reverted" /\ row.does # "create" => status \in {"Funded", "Cancelled"}

\* A tab funds what it saw, and speaks of a transaction that was processed.
TabFits(row, txs, status) ==
    /\ row.pc = "build" /\ row.seen.status # "none" => status # "none"
    /\ row.pc \in {"after", "told"} => txs[row.tx].state \in {"landed", "reverted"}
    /\ row.pc = "told" => txs[row.tx].does # "create"

\* Each tab has a transaction of its own.
Apart(tabs) ==
    \A t \in Tabs : \A u \in Tabs \ {t} :
        tabs[t].pc \in Attempting /\ tabs[u].pc \in Attempting => tabs[t].tx # tabs[u].tx

Story(tabs, txs, status) ==
    /\ status = "Draft" => sponsored
    /\ \A n \in Txs : DeedFits(txs[n], status)
    /\ \A t \in Tabs : TabFits(tabs[t], txs, status)
    /\ Apart(tabs)

\* Time does not spoil the story.
LEMMA StoryGrows ==
    ASSUME NEW tabs, NEW txs, NEW from, NEW to, Story(tabs, txs, from),
           StatusGrows(from, to), to = "Draft" => sponsored
    PROVE  Story(tabs, txs, to)
BY DEF Story, StatusGrows, DeedFits, TabFits

\* Nor does forgetting what no tab asks about.
LEMMA KeptStory ==
    ASSUME NEW tabs, NEW txs, NEW status, DeedsKnown(tabs, txs), Story(tabs, txs, status)
    PROVE  Story(tabs, Kept(tabs, txs), status)
<1>1. \A n \in Txs : Kept(tabs, txs)[n] = IF Forgotten(n, tabs, txs) THEN Unused ELSE txs[n]
  BY DEF Kept
<1>2. DeedFits(Unused, status)
  BY DEF DeedFits, Unused
<1>3. \A n \in Txs : DeedFits(Kept(tabs, txs)[n], status)
  BY <1>1, <1>2 DEF Story
<1>4. ASSUME NEW t \in Tabs
      PROVE  TabFits(tabs[t], Kept(tabs, txs), status)
  <2>1. tabs[t].pc \in Attempting =>
           tabs[t].tx \in Txs /\ Kept(tabs, txs)[tabs[t].tx] = txs[tabs[t].tx]
    BY <1>1 DEF DeedsKnown, Forgotten
  <2>2. TabFits(tabs[t], txs, status)
    BY DEF Story
  <2> QED
    BY <2>1, <2>2 DEF TabFits, Attempting
<1> QED
  BY <1>3, <1>4 DEF Story

\* One tab's row changes.
LEMMA TabTells ==
    ASSUME NEW txs, NEW status, DeedsKnown(tab, txs), Story(tab, txs, status),
           NEW t \in Tabs, NEW row \in TabRow, TabFits(row, txs, status),
           row.pc \in Attempting => tab[t].pc \in Attempting /\ row.tx = tab[t].tx
    PROVE  Story([tab EXCEPT ![t] = row], txs, status)
<1> DEFINE tabs == [tab EXCEPT ![t] = row]
<1>1. \A u \in Tabs : tabs[u] = IF u = t THEN row ELSE tab[u]
  BY DEF DeedsKnown
<1> HIDE DEF tabs
<1>2. \A u \in Tabs : TabFits(tabs[u], txs, status)
  BY <1>1 DEF Story
<1>3. Apart(tabs)
  BY <1>1 DEF Story, Apart
<1>4. Story(tabs, txs, status)
  BY <1>2, <1>3 DEF Story
<1> QED
  BY <1>4 DEF tabs

\* An attempt ends.
LEMMA EndTells ==
    ASSUME NEW txs, NEW status, DeedsKnown(tab, txs), Story(tab, txs, status),
           NEW t \in Tabs, NEW told \in {"nothing", "confirmed", "failed"},
           Ends(t, told, txs)
    PROVE  Story(tab', tx', status)
<1> DEFINE row == [Ready EXCEPT !.told = told]
<1>1. tab' = [tab EXCEPT ![t] = row] /\ tx' = Kept(tab', txs)
  BY DEF Ends
<1>2. row \in TabRow /\ row.pc = "idle"
  BY ReadyTab
<1> HIDE DEF row
<1>3. TabFits(row, txs, status)
  BY <1>2 DEF TabFits
<1>4. Story(tab', txs, status)
  BY <1>1, <1>2, <1>3, TabTells DEF Attempting
<1>5. DeedsKnown(tab', txs)
  BY <1>1, <1>2 DEF DeedsKnown, Attempting
<1> QED
  BY <1>1, <1>4, <1>5, KeptStory

\* A tab builds a transaction that suits the listing.
LEMMA BuildTells ==
    ASSUME NEW status, DeedsKnown(tab, tx), Story(tab, tx, status),
           NEW t \in Tabs, NEW does \in Deeds, Builds(t, does),
           does = "create" => sponsored, does = "create_and_fund" => ~sponsored,
           does \in {"fund", "cancel"} => status # "none"
    PROVE  Story(tab', tx', status)
<1>1. PICK n \in Txs, d \in Txs \cup {0} :
        /\ Forgotten(n, tab, tx)
        /\ tab' = [tab EXCEPT ![t].tx = n, ![t].pc = "simulate"]
        /\ tx' = Kept(tab', [tx EXCEPT ![n] = [does |-> does, state |-> "built", deadline |-> d]])
  BY DEF Builds, Free
<1> DEFINE row == [does |-> does, state |-> "built", deadline |-> d]
           mine == [tab[t] EXCEPT !.tx = n, !.pc = "simulate"]
           txs == [tx EXCEPT ![n] = row]
<1>2. row \in TxRow /\ row.state = "built" /\ row.does = does
  BY DEF TxRow
<1>3. mine \in TabRow /\ mine.tx = n /\ mine.pc = "simulate"
  BY DEF DeedsKnown, TabRow, Attempting
<1>4. tab' = [tab EXCEPT ![t] = mine]
  BY <1>1 DEF DeedsKnown
<1>5. tx' = Kept(tab', txs)
  BY <1>1
<1> HIDE DEF row, mine
<1>6. /\ txs \in [Txs -> TxRow]
      /\ \A k \in Txs : txs[k] = IF k = n THEN row ELSE tx[k]
  BY <1>2 DEF DeedsKnown
<1>7. /\ tab' \in [Tabs -> TabRow]
      /\ \A u \in Tabs : tab'[u] = IF u = t THEN mine ELSE tab[u]
  BY <1>3, <1>4 DEF DeedsKnown
<1> HIDE DEF txs
<1>8. DeedsKnown(tab', txs)
  BY <1>1, <1>2, <1>3, <1>6, <1>7 DEF DeedsKnown, Forgotten
<1>9. \A u \in Tabs : tab[u].tx # n
  BY <1>1 DEF Forgotten
<1>10. \A k \in Txs : DeedFits(txs[k], status)
  BY <1>2, <1>6 DEF Story, DeedFits
<1>11. ASSUME NEW u \in Tabs
       PROVE  TabFits(tab'[u], txs, status)
  <2>1. CASE u = t
    BY <1>3, <1>7, <2>1 DEF TabFits
  <2>2. CASE u # t
    <3>1. tab[u].pc \in Attempting => tab[u].tx \in Txs /\ txs[tab[u].tx] = tx[tab[u].tx]
      BY <1>6, <1>9 DEF DeedsKnown
    <3> QED
      BY <1>7, <2>2, <3>1 DEF Story, TabFits, Attempting
  <2> QED
    BY <2>1, <2>2
<1>12. Apart(tab')
  BY <1>3, <1>7, <1>9 DEF Story, Apart
<1>13. Story(tab', txs, status)
  BY <1>10, <1>11, <1>12 DEF Story
<1> QED
  BY <1>5, <1>8, <1>13, KeptStory

\* A transaction that was sent, and so is no tab's to speak of, is over.
LEMMA OverTells ==
    ASSUME NEW status, DeedsKnown(tab, tx), Story(tab, tx, status), NEW n \in Txs,
           NEW state \in {"landed", "reverted", "expired", "sent"},
           \A t \in Tabs : tab[t].pc \in {"after", "told"} => tab[t].tx # n,
           DeedFits([tx[n] EXCEPT !.state = state], status)
    PROVE  Story(tab, [tx EXCEPT ![n].state = state], status)
<1> DEFINE row == [tx[n] EXCEPT !.state = state]
           txs == [tx EXCEPT ![n].state = state]
<1>1. txs = [tx EXCEPT ![n] = row]
  BY DEF DeedsKnown
<1>2. \A k \in Txs : txs[k] = IF k = n THEN row ELSE tx[k]
  BY <1>1 DEF DeedsKnown
<1> HIDE DEF txs
<1>3. \A k \in Txs : DeedFits(txs[k], status)
  BY <1>2 DEF Story
<1> HIDE DEF row
<1>4. ASSUME NEW t \in Tabs
      PROVE  TabFits(tab[t], txs, status)
  <2>1. tab[t].pc \in {"after", "told"} => txs[tab[t].tx] = tx[tab[t].tx]
    BY <1>2 DEF DeedsKnown, Attempting
  <2> QED
    BY <2>1 DEF Story, TabFits
<1>5. Story(tab, txs, status)
  BY <1>3, <1>4 DEF Story
<1> QED
  BY <1>5 DEF txs

ListingStory == Story(tab, tx, bounty.status)

\* A transaction that is executed, or refused: for a reason that is final.
LEMMA LandsTells ==
    ASSUME ListingInv, ListingStory, NEW n \in Txs, Lands(n)
    PROVE  ListingStory'
<1> USE DEF ListingInv
<1>1. tx[n] \in TxRow /\ tx[n].does \in Deeds /\ DeedFits(tx[n], bounty.status)
  BY DEF Lands, DeedsKnown, ListingStory, Story
<1>2. \A t \in Tabs : tab[t].pc \in {"after", "told"} => tab[t].tx # n
  BY DEF Lands, ListingStory, Story, TabFits
<1>3. \A state \in {"landed", "reverted"} : DeedsKnown(tab, [tx EXCEPT ![n].state = state])
  BY <1>1 DEF DeedsKnown, TxRow
<1>4. CASE ~ProgramAccepts(tx[n].does)
  <2>1. bounty.status \in {"none", "Draft", "Funded", "Cancelled"}
    BY DEF BountyRow
  <2>2. bounty.status = "Draft" => bounty.escrow = 0
    OBVIOUS
  <2>3. DeedFits([tx[n] EXCEPT !.state = "reverted"], bounty.status)
    BY <1>1, <1>4, <2>1, <2>2
       DEF DeedFits, ProgramAccepts, Deeds, ListingStory, Story, TxRow
  <2>4. Story(tab, [tx EXCEPT ![n].state = "reverted"], bounty.status)
    BY <1>2, <2>3, OverTells DEF ListingStory
  <2>5. Story(tab', tx', bounty'.status)
    BY <1>3, <1>4, <2>4, KeptStory DEF Lands
  <2> QED
    BY <2>5 DEF ListingStory, Lands, Story, DeedFits
<1>5. CASE ProgramAccepts(tx[n].does)
  <2> DEFINE d == tx[n].deadline
  <2>1. bounty' = After(tx[n].does, d)
    BY <1>5 DEF Lands
  <2> HIDE DEF d
  <2>2. /\ StatusGrows(bounty.status, bounty'.status)
        /\ bounty'.status # "none"
        /\ bounty'.status = "Draft" => sponsored
    BY <1>1, <1>5, <2>1
       DEF After, ProgramAccepts, StatusGrows, Deeds, DeedFits, BountyRow
  <2>3. Story(tab, tx, bounty'.status)
    BY <2>2, StoryGrows DEF ListingStory
  <2>4. DeedFits([tx[n] EXCEPT !.state = "landed"], bounty'.status)
    BY <1>1, <2>2 DEF DeedFits, TxRow
  <2>5. Story(tab, [tx EXCEPT ![n].state = "landed"], bounty'.status)
    BY <1>2, <2>3, <2>4, OverTells
  <2>6. Story(tab', tx', bounty'.status)
    BY <1>3, <1>5, <2>5, KeptStory DEF Lands
  <2> QED
    BY <2>6 DEF ListingStory, Lands, Story, DeedFits
<1> QED
  BY <1>4, <1>5

\* A transaction that is too old.
LEMMA ExpiresTells ==
    ASSUME ListingInv, ListingStory, NEW n \in Txs, Expires(n)
    PROVE  ListingStory'
<1> USE DEF ListingInv
<1>1. tx[n] \in TxRow /\ DeedFits(tx[n], bounty.status)
  BY DEF DeedsKnown, ListingStory, Story
<1>2. \A t \in Tabs : tab[t].pc \in {"after", "told"} => tab[t].tx # n
  BY DEF Expires, ListingStory, Story, TabFits
<1>3. DeedFits([tx[n] EXCEPT !.state = "expired"], bounty.status)
  BY <1>1 DEF DeedFits, TxRow
<1>4. Story(tab, [tx EXCEPT ![n].state = "expired"], bounty.status)
  BY <1>2, <1>3, OverTells DEF ListingStory
<1>5. DeedsKnown(tab, [tx EXCEPT ![n].state = "expired"])
  BY DEF DeedsKnown, TxRow
<1>6. Story(tab', tx', bounty'.status)
  BY <1>4, <1>5, KeptStory DEF Expires
<1> QED
  BY <1>6 DEF ListingStory, Expires, Story, DeedFits

\* What a tab does.
LEMMA TabStepTells ==
    ASSUME ListingInv, ListingStory, NEW t \in Tabs, Press(t) \/ TabStep(t)
    PROVE  Story(tab', tx', bounty.status)
<1> DEFINE Told == Story(tab', tx', bounty.status)
<1> USE DEF ListingInv, ListingStory
<1>1. /\ tab[t] \in TabRow /\ DeedsKnown(tab, tx) /\ Story(tab, tx, bounty.status)
      /\ TabFits(tab[t], tx, bounty.status)
  BY DEF DeedsKnown, Story
<1>2. ASSUME NEW pc \in {"simulate", "send", "confirm", "after"}, Goes(t, pc), tx' = tx,
             tab[t].pc \in Attempting,
             pc = "after" => tx[tab[t].tx].state \in {"landed", "reverted"}
      PROVE  Told
  <2> DEFINE row == [tab[t] EXCEPT !.pc = pc]
  <2>1. row \in TabRow /\ row.pc = pc /\ row.tx = tab[t].tx
    BY <1>1 DEF TabRow, Attempting
  <2>2. tab' = [tab EXCEPT ![t] = row]
    BY <1>2 DEF Goes
  <2> HIDE DEF row
  <2>3. TabFits(row, tx, bounty.status)
    BY <1>2, <2>1 DEF TabFits
  <2> QED
    BY <1>1, <1>2, <2>1, <2>2, <2>3, TabTells
<1>3. CASE Press(t)
  <2> DEFINE row == [Ready EXCEPT !.pc = "read"]
  <2>1. row \in TabRow /\ row.pc = "read"
    BY ReadyTab
  <2>2. tab' = [tab EXCEPT ![t] = row] /\ tx' = tx
    BY <1>3 DEF Press
  <2> HIDE DEF row
  <2>3. TabFits(row, tx, bounty.status)
    BY <2>1 DEF TabFits
  <2> QED
    BY <1>1, <2>1, <2>2, <2>3, TabTells DEF Attempting
<1>4. CASE FetchBounty(t)
  <2>1. ASSUME NEW answer \in Answers, tx' = tx,
               tab' = [tab EXCEPT ![t].pc = "build", ![t].seen = answer]
        PROVE  Told
    <3>1. answer \in BountyRow /\ (answer.status # "none" => bounty.status # "none")
      <4>1. bounty \in BountyRow /\ NoBounty \in BountyRow
        BY DEF BountyRow, NoBounty
      <4>2. [bounty EXCEPT !.status = "Draft", !.escrow = 0] \in BountyRow
        BY <4>1 DEF BountyRow
      <4> QED
        BY <4>1, <4>2 DEF Answers, NoBounty
    <3> DEFINE row == [tab[t] EXCEPT !.pc = "build", !.seen = answer]
    <3>2. row \in TabRow /\ row.pc = "build" /\ row.seen = answer
      BY <1>1, <3>1 DEF TabRow
    <3>3. tab' = [tab EXCEPT ![t] = row] /\ tx' = tx
      BY <2>1
    <3> HIDE DEF row
    <3>4. TabFits(row, tx, bounty.status) /\ row.pc \notin Attempting
      BY <3>1, <3>2 DEF TabFits, Attempting
    <3>5. Story([tab EXCEPT ![t] = row], tx, bounty.status)
      BY <1>1, <3>2, <3>4, TabTells
    <3> QED
      BY <3>3, <3>5
  <2> QED
    BY <1>1, <1>4, <2>1, EndTells DEF FetchBounty, Fails
<1>5. CASE CreateAndFund(t)
  <2>1. tab[t].seen.status # "none" => bounty.status # "none"
    BY <1>1, <1>5 DEF CreateAndFund, TabFits
  <2>2. ASSUME Builds(t, IF sponsored THEN "create" ELSE "create_and_fund")
        PROVE  Told
    BY <1>1, <2>2, BuildTells DEF Deeds
  <2>3. ASSUME Builds(t, "fund"), bounty.status # "none"
        PROVE  Told
    BY <1>1, <2>3, BuildTells DEF Deeds
  <2> QED
    BY <1>1, <1>5, <2>1, <2>2, <2>3, EndTells DEF CreateAndFund, Fails
<1>6. CASE FundOrCancel(t)
  <2>1. tab[t].seen.status = "Draft" => bounty.status # "none"
    BY <1>1, <1>6 DEF FundOrCancel, TabFits
  <2>2. ASSUME NEW does \in {"fund", "cancel"}, Builds(t, does), bounty.status # "none"
        PROVE  Told
    BY <1>1, <2>2, BuildTells DEF Deeds
  <2> QED
    BY <1>1, <1>6, <2>1, <2>2, EndTells DEF FundOrCancel, Fails
<1>7. CASE Simulate(t)
  BY <1>1, <1>2, <1>7, EndTells DEF Simulate, Sending, Fails, Attempting
<1>8. CASE SendRawTransaction(t)
  <2>1. tab[t].pc = "send" /\ tab[t].tx \in Txs /\ DeedFits(tx[tab[t].tx], bounty.status)
    BY <1>8 DEF SendRawTransaction, Sending, DeedsKnown, Attempting, Story
  <2> DEFINE n == tab[t].tx
             txs == [tx EXCEPT ![n].state = "sent"]
             row == [tab[t] EXCEPT !.pc = "confirm"]
  <2>2. \A u \in Tabs : tab[u].pc \in {"after", "told"} => tab[u].tx # n
    BY <2>1 DEF Story, Apart, Attempting
  <2>3. tx[n] \in TxRow /\ tx[n].does \in Deeds
    BY <2>1 DEF DeedsKnown, Attempting
  <2>4. DeedFits([tx[n] EXCEPT !.state = "sent"], bounty.status)
    BY <2>1, <2>3 DEF DeedFits, TxRow
  <2>5. Story(tab, txs, bounty.status)
    BY <1>1, <2>1, <2>2, <2>4, OverTells
  <2>6. DeedsKnown(tab, txs)
    BY <2>1, <2>3 DEF DeedsKnown, TxRow
  <2>7. row \in TabRow /\ row.pc = "confirm" /\ row.tx = tab[t].tx
    BY <1>1 DEF TabRow, Attempting
  <2> HIDE DEF txs, row
  <2>8. TabFits(row, txs, bounty.status)
    BY <2>7 DEF TabFits
  <2>9. Story([tab EXCEPT ![t] = row], txs, bounty.status)
    BY <2>1, <2>5, <2>6, <2>7, <2>8, TabTells DEF Attempting
  <2> QED
    BY <1>1, <1>8, <2>5, <2>6, <2>9, EndTells
       DEF SendRawTransaction, Fails, Goes, txs, row
<1>9. CASE ConfirmTransaction(t)
  BY <1>1, <1>2, <1>9, EndTells DEF ConfirmTransaction, Sending, Fails, Attempting
<1>10. CASE AfterConfirmation(t)
  <2>1. tab[t].pc = "after" /\ tx[tab[t].tx].state \in {"landed", "reverted"}
    BY <1>1, <1>10 DEF AfterConfirmation, Sending, TabFits
  <2>2. bounty.status # "none"
    BY <1>1, <2>1 DEF Story, DeedFits, DeedsKnown, Attempting
  <2>3. CASE Builds(t, "fund")
    BY <1>1, <2>2, <2>3, BuildTells DEF Deeds
  <2>4. CASE Does(t) # "create" /\ tx' = tx
             /\ tab' = [tab EXCEPT ![t].pc = "told", ![t].told = "confirmed"]
    <3> DEFINE row == [tab[t] EXCEPT !.pc = "told", !.told = "confirmed"]
    <3>1. row \in TabRow /\ row.tx = tab[t].tx /\ row.pc = "told"
      BY <1>1 DEF TabRow, Attempting
    <3>2. tab' = [tab EXCEPT ![t] = row] /\ tx' = tx
      BY <2>4
    <3> HIDE DEF row
    <3>3. TabFits(row, tx, bounty.status)
      BY <2>1, <2>4, <3>1 DEF TabFits, Does
    <3>4. tab[t].pc \in Attempting
      BY <2>1 DEF Attempting
    <3>5. Story([tab EXCEPT ![t] = row], tx, bounty.status)
      BY <1>1, <3>1, <3>3, <3>4, TabTells
    <3> QED
      BY <3>2, <3>5
  <2> QED
    BY <1>10, <2>3, <2>4 DEF AfterConfirmation
<1>11. CASE Read(t)
  BY <1>1, <1>11, EndTells DEF Read
<1> QED
  BY <1>3, <1>4, <1>5, <1>6, <1>7, <1>8, <1>9, <1>10, <1>11 DEF TabStep

\* What a transaction that the page calls confirmed came to.
ConfirmedIsDecided ==
    \A t \in Tabs : tab[t].pc = "told" =>
        \/ tx[tab[t].tx].state = "landed"
        \/ tx[tab[t].tx].state = "reverted" /\ bounty.status \in {"Funded", "Cancelled"}

\* The owner is told of a transaction that landed, or of one that was refused
\* after another of theirs had locked the reward or cancelled the listing: what
\* the page links to may have failed (ConfirmedMeansSucceeded), but the listing
\* is settled one way or the other (confirmTransaction in client.ts, runTx).
THEOREM ConfirmationsDecide == ListingSpec => []ConfirmedIsDecided
<1>1. CreateInit => ListingStory
  BY DEF CreateInit, ListingStory, Story, DeedFits, TabFits, Apart, Attempting, Unused,
         Ready, NoBounty
<1>2. ListingInv /\ ListingStory /\ [CreateNext]_createVars => ListingStory'
  <2> SUFFICES ASSUME ListingInv, ListingStory, [CreateNext]_createVars
               PROVE  ListingStory'
    OBVIOUS
  <2>1. ASSUME NEW t \in Tabs, Press(t) \/ TabStep(t)
        PROVE  ListingStory'
    <3>1. bounty' = bounty /\ sponsored' = sponsored
      BY <2>1 DEF Press, TabStep, FetchBounty, CreateAndFund, FundOrCancel, Simulate,
                  SendRawTransaction, ConfirmTransaction, AfterConfirmation, Read
    <3>2. Story(tab', tx', bounty.status)
      BY <2>1, TabStepTells
    <3> QED
      BY <3>1, <3>2 DEF ListingStory, Story, DeedFits
  <2>2. CASE WeatherChanges \/ UNCHANGED createVars
    BY <2>2 DEF WeatherChanges, createVars, ListingStory, Story, DeedFits, TabFits, Apart
  <2> QED
    BY <2>1, <2>2, LandsTells, ExpiresTells DEF CreateNext
<1>3. ListingInv /\ ListingStory => ConfirmedIsDecided
  <2> SUFFICES ASSUME ListingInv, ListingStory, NEW t \in Tabs, tab[t].pc = "told"
               PROVE  \/ tx[tab[t].tx].state = "landed"
                      \/ /\ tx[tab[t].tx].state = "reverted"
                         /\ bounty.status \in {"Funded", "Cancelled"}
    BY DEF ConfirmedIsDecided
  <2>1. tab[t].tx \in Txs
    BY DEF ListingInv, DeedsKnown, Attempting
  <2>2. TabFits(tab[t], tx, bounty.status) /\ DeedFits(tx[tab[t].tx], bounty.status)
    BY <2>1 DEF ListingStory, Story
  <2> QED
    BY <2>2 DEF TabFits, DeedFits
<1> QED
  BY <1>1, <1>2, <1>3, ListingInvCorrect, PTL DEF ListingSpec


(***************************************************************************)
(* Contents of claims: one form's transaction lands, and only an entry of  *)
(* that form claims to have landed, so no other contents are taken.  Until *)
(* they are stored or exposed, the form itself holds them or the outbox    *)
(* does, and then every flush under way has read their entry, so that      *)
(* whatever it writes back does not lose it (ContentsKept).                *)
(***************************************************************************)

EvidenceSpec == EvidenceInit /\ [][EvidenceNext]_evidenceVars

Entry == [by: Forms \cup {NoForm}, lands: BOOLEAN]

\* An entry that says its transaction landed is the committed form's, which has
\* handed its contents over.
Honest(entry) ==
    entry.lands =>
        entry.by = committed /\ committed # NoForm /\ form[committed].tx # "landed"

FormRow == [pc: {"empty", "upload", "send", "confirm", "sync", "thanks"},
            tx: {"none", "sent", "landed", "reverted", "expired"}]

Flush == [pc: {"rest", "send", "end"}, entry: Entry]

\* The committed contents' entry.
Whole == [by |-> committed, lands |-> TRUE]

\* The committed contents are safe.
ContentsKept ==
    \/ committed \in {NoForm, evidence} \cup exposed
    \/ form[committed].tx = "landed"
    \/ /\ queued = Whole
       /\ \A r \in Refreshes : flush[r].pc # "rest" => flush[r].entry = Whole

EvidenceInv ==
    /\ form \in [Forms -> FormRow]
    /\ committed \in Forms \cup {NoForm}
    /\ queued \in Entry /\ flush \in [Refreshes -> Flush]
    /\ Honest(queued) /\ \A r \in Refreshes : Honest(flush[r].entry)
    /\ \A f \in Forms : form[f].tx = "landed" => committed = f
    /\ evidence \in {NoForm, committed}
    /\ ContentsKept

\* Every text a form lets through is stored with the hash that was committed.
LEMMA TextsAreKept == TextsSurvive
<1>1. ASSUME NEW t \in Offered
      PROVE  TakesText(t) /\ Recomputes(StoredText(t), t)
  <2>1. PICK u \in Typed : t = [u EXCEPT !.blanks = 0] /\ Trim(u).letters >= 3
    BY <1>1 DEF Offered, Trim
  <2>2. /\ t \in [letters : {1, 2, 3, 178, 180}, blanks : {0, 2}, composed : BOOLEAN]
        /\ t.blanks = 0 /\ t.letters >= 3 /\ t.letters <= 180
    BY <2>1 DEF Typed, Trim
  <2>3. TakesText(t)
    BY <2>2 DEF TakesText, Trim, Length
  <2>4. StoredText(t) = t
    BY <2>2 DEF StoredText, Slice, Length
  <2> QED
    BY <2>3, <2>4 DEF Recomputes
<1>2. ASSUME NEW t \in OfferedListings
      PROVE  Recomputes(StoredListingText(t), t)
  <2>1. PICK u \in Typed : t = [u EXCEPT !.blanks = 0]
    BY <1>2 DEF OfferedListings, Trim
  <2>2. /\ t \in [letters : {1, 2, 3, 178, 180}, blanks : {0, 2}, composed : BOOLEAN]
        /\ t.blanks = 0 /\ t.letters <= 180
    BY <2>1 DEF Typed
  <2>3. Trim(t) = t
    BY <2>2 DEF Trim
  <2>4. StoredListingText(t) = t
    BY <2>2, <2>3 DEF StoredListingText, Slice, Length
  <2> QED
    BY <2>4 DEF Recomputes
<1> QED
  BY <1>1, <1>2 DEF TextsSurvive

\* An attempt that ends exposes its contents if its transaction has landed.
LEMMA GivingUpKeepsInv ==
    ASSUME EvidenceInv, NEW f \in Forms, GivesUp(f),
           UNCHANGED <<committed, evidence, queued, flush>>
    PROVE  EvidenceInv'
<1>1. /\ form' = [form EXCEPT ![f] = Empty]
      /\ exposed' = IF form[f].tx = "landed" THEN exposed \cup {f} ELSE exposed
  BY DEF GivesUp
<1>2. \A g \in Forms : form'[g] = IF g = f THEN Empty ELSE form[g]
  BY <1>1 DEF EvidenceInv
<1>3. form' \in [Forms -> FormRow] /\ Empty.tx # "landed"
  BY <1>1 DEF EvidenceInv, FormRow, Empty
<1>4. \A g \in Forms : form'[g].tx = "landed" => form[g].tx = "landed"
  BY <1>2, <1>3
<1>5. Honest(queued)' /\ \A r \in Refreshes : Honest(flush[r].entry)'
  BY <1>4 DEF EvidenceInv, Honest
<1>6. ContentsKept'
  <2>1. committed # NoForm => committed \in Forms
    BY DEF EvidenceInv
  <2>2. Whole' = Whole
    BY DEF Whole
  <2> QED
    BY <1>1, <1>2, <2>1, <2>2 DEF EvidenceInv, ContentsKept
<1> QED
  BY <1>3, <1>4, <1>5, <1>6 DEF EvidenceInv

\* The transaction of one form is known, has expired or is not asked about: as
\* long as none that had landed is dropped, nothing is lost.
LEMMA FormMovesKeepsInv ==
    ASSUME EvidenceInv, NEW f \in Forms, NEW row \in FormRow,
           form' = [form EXCEPT ![f] = row],
           \/ row.tx = form[f].tx
           \/ row.tx # "landed" /\ (form[f].tx # "landed" \/ committed = NoForm),
           UNCHANGED <<committed, evidence, queued, flush, exposed>>
    PROVE  EvidenceInv'
<1>1. /\ form' \in [Forms -> FormRow]
      /\ \A g \in Forms : form'[g] = IF g = f THEN row ELSE form[g]
  BY DEF EvidenceInv
<1>2. \A g \in Forms : form'[g].tx = "landed" <=> form[g].tx = "landed"
  BY <1>1, EvidenceAssumption DEF EvidenceInv
<1>3. Honest(queued)' /\ \A r \in Refreshes : Honest(flush[r].entry)'
  BY <1>2 DEF EvidenceInv, Honest
<1>4. ContentsKept'
  <2>1. committed # NoForm => committed \in Forms
    BY DEF EvidenceInv
  <2>2. Whole' = Whole
    BY DEF Whole
  <2> QED
    BY <1>2, <2>1, <2>2 DEF EvidenceInv, ContentsKept
<1> QED
  BY <1>1, <1>2, <1>3, <1>4 DEF EvidenceInv

\* A form's attempt goes on, with no transaction that has landed so far.
LEMMA FormKeepsInv ==
    ASSUME EvidenceInv, NEW f \in Forms,
           \/ SubmitClaimForm(f) \/ UploadPrivateMedia(f) \/ SendEvidence(f)
           \/ EvidenceExpires(f) \/ ConfirmEvidence(f) \/ LeavePage(f)
    PROVE  EvidenceInv'
<1>1. CASE GivesUp(f) /\ UNCHANGED <<committed, evidence, queued, flush>>
  BY <1>1, GivingUpKeepsInv
<1>2. ASSUME NEW pc \in {"upload", "send", "sync"}, Turns(f, pc),
             UNCHANGED <<committed, evidence, queued, flush, exposed>>
      PROVE  EvidenceInv'
  <2> DEFINE row == [form[f] EXCEPT !.pc = pc]
  <2>1. row \in FormRow /\ row.tx = form[f].tx
    BY DEF EvidenceInv, FormRow
  <2>2. form' = [form EXCEPT ![f] = row]
    BY <1>2 DEF Turns, EvidenceInv
  <2> HIDE DEF row
  <2> QED
    BY <1>2, <2>1, <2>2, FormMovesKeepsInv
<1>3. CASE SubmitClaimForm(f) \/ UploadPrivateMedia(f) \/ ConfirmEvidence(f) \/ LeavePage(f)
  BY <1>1, <1>2, <1>3 DEF SubmitClaimForm, UploadPrivateMedia, ConfirmEvidence, LeavePage
<1>4. CASE SendEvidence(f)
  <2>1. /\ [pc |-> "confirm", tx |-> "sent"] \in FormRow
        /\ Empty \in FormRow /\ Empty.tx # "landed"
    BY DEF FormRow, Empty
  <2>2. CASE /\ committed = NoForm
             /\ \/ form' = [form EXCEPT ![f] = [pc |-> "confirm", tx |-> "sent"]]
                \/ form' = [form EXCEPT ![f] = Empty]
             /\ UNCHANGED <<committed, evidence, queued, flush, exposed>>
    BY <2>1, <2>2, FormMovesKeepsInv
  <2> QED
    BY <1>1, <1>4, <2>2 DEF SendEvidence
<1>5. CASE EvidenceExpires(f)
  <2> DEFINE row == [form[f] EXCEPT !.tx = "expired"]
  <2>1. /\ form' = [form EXCEPT ![f] = row] /\ row.tx = "expired" /\ form[f].tx = "sent"
    BY <1>5 DEF EvidenceExpires, EvidenceInv, FormRow
  <2>2. row \in FormRow
    BY DEF EvidenceInv, FormRow
  <2> HIDE DEF row
  <2> QED
    BY <1>5, <2>1, <2>2, FormMovesKeepsInv DEF EvidenceExpires
<1> QED
  BY <1>3, <1>4, <1>5

\* The chain commits to one form: one under way, or one given up.
LEMMA CommitKeepsEvidence ==
    ASSUME EvidenceInv, NEW f \in Forms, EvidenceLands(f) \/ LateEvidence(f)
    PROVE  EvidenceInv'
<1> USE EvidenceAssumption
<1>1. ASSUME committed = NoForm
      PROVE  /\ ~queued.lands /\ \A r \in Refreshes : ~flush[r].entry.lands
             /\ \A g \in Forms : form[g].tx # "landed"
             /\ evidence = NoForm
  BY <1>1 DEF EvidenceInv, Honest
<1>2. CASE EvidenceLands(f)
  <2>1. PICK x \in {"landed", "reverted"} :
          /\ form' = [form EXCEPT ![f].tx = x]
          /\ x = "landed" => committed = NoForm /\ committed' = f
          /\ x = "reverted" => committed # NoForm /\ committed' = committed
    BY <1>2 DEF EvidenceLands
  <2>2. /\ form' \in [Forms -> FormRow]
        /\ \A g \in Forms : form'[g].tx = IF g = f THEN x ELSE form[g].tx
        /\ form[f].tx = "sent"
        /\ UNCHANGED <<evidence, queued, flush, exposed>>
    BY <1>2, <2>1 DEF EvidenceLands, EvidenceInv, FormRow
  <2>3. CASE x = "landed"
    <3>1. ContentsKept'
      BY <2>1, <2>2, <2>3 DEF ContentsKept
    <3> QED
      BY <1>1, <2>1, <2>2, <2>3, <3>1 DEF EvidenceInv, Honest
  <2>4. CASE x = "reverted"
    <3> DEFINE row == [form[f] EXCEPT !.tx = "reverted"]
    <3>1. row \in FormRow /\ row.tx = "reverted" /\ form' = [form EXCEPT ![f] = row]
      BY <2>1, <2>4 DEF EvidenceInv, FormRow
    <3> HIDE DEF row
    <3> QED
      BY <2>1, <2>2, <2>4, <3>1, FormMovesKeepsInv
  <2> QED
    BY <2>1, <2>3, <2>4
<1>3. CASE LateEvidence(f)
  <2>1. UNCHANGED <<form, evidence, queued, flush>>
    BY <1>3 DEF LateEvidence
  <2>2. CASE committed = NoForm /\ committed' = f /\ exposed' = exposed \cup {f}
    <3>1. ContentsKept'
      BY <2>2 DEF ContentsKept
    <3> QED
      BY <1>1, <2>1, <2>2, <3>1 DEF EvidenceInv, Honest
  <2>3. CASE UNCHANGED <<committed, exposed>>
    BY <2>1, <2>3 DEF EvidenceInv, Honest, ContentsKept, Whole
  <2> QED
    BY <1>3, <2>2, <2>3 DEF LateEvidence
<1> QED
  BY <1>2, <1>3

\* The form hands its contents over: they are stored, or queued, and exposed if
\* a flush is under way that has not read them.
LEMMA SyncKeepsEvidence ==
    ASSUME EvidenceInv, NEW f \in Forms, SyncClaim(f)
    PROVE  EvidenceInv'
<1>0. PICK entry \in Entry : entry = [by |-> f, lands |-> form[f].tx = "landed"]
  <2>1. PICK lands \in BOOLEAN : lands = (form[f].tx = "landed")
    OBVIOUS
  <2>2. [by |-> f, lands |-> lands] \in Entry
    BY DEF Entry
  <2> QED
    BY <2>1, <2>2
<1>1. /\ entry.by = f
      /\ entry.lands <=> form[f].tx = "landed"
      /\ form[f].tx = "landed" => committed = f /\ entry = Whole
  BY <1>0 DEF Whole, EvidenceInv
<1>2. /\ form' = [form EXCEPT ![f] = [pc |-> "thanks", tx |-> "none"]]
      /\ UNCHANGED <<committed, flush>>
      /\ \/ Accepts(entry) /\ evidence' = f /\ UNCHANGED <<queued, exposed>>
         \/ Accepts(entry) /\ evidence' = f /\ Queues(entry)
         \/ Queues(entry) /\ UNCHANGED evidence
  BY <1>0 DEF SyncClaim
<1>3. /\ form' \in [Forms -> FormRow]
      /\ \A g \in Forms : IF g = f THEN form'[g].tx = "none" ELSE form'[g] = form[g]
  BY <1>2 DEF EvidenceInv, FormRow
<1>4. \A g \in Forms : form'[g].tx = "landed" => form[g].tx = "landed"
  BY <1>3
<1>5. queued' \in {queued, entry} /\ Whole' = Whole
  BY <1>2 DEF Queues, Whole
<1>6. Honest(queued)' /\ \A r \in Refreshes : Honest(flush[r].entry)'
  <2>1. Honest(entry)'
    BY <1>1, <1>2, <1>3, EvidenceAssumption DEF Honest
  <2>2. \A e \in Entry : Honest(e) => Honest(e)'
    BY <1>2, <1>4 DEF Honest, EvidenceInv
  <2>3. queued \in Entry /\ \A r \in Refreshes : flush[r].entry \in Entry
    BY DEF EvidenceInv, Flush
  <2>4. flush' = flush
    BY <1>2
  <2> QED
    BY <1>5, <2>1, <2>2, <2>3, <2>4 DEF EvidenceInv, Honest
<1>7. evidence' \in {NoForm, committed}
  BY <1>1, <1>2 DEF EvidenceInv, Accepts
<1>8. ContentsKept'
  <2>1. CASE committed \in {NoForm, evidence} \cup exposed \/ evidence' = committed
    <3>1. exposed \subseteq exposed' /\ evidence' \in {evidence, committed}
      BY <1>1, <1>2 DEF Queues, Accepts
    <3> QED
      BY <1>2, <2>1, <3>1 DEF ContentsKept
  <2>2. CASE evidence' # committed /\ committed \notin {NoForm, evidence} \cup exposed
    <3>1. /\ queued' = entry /\ evidence' = evidence
          /\ exposed' = exposed \cup
               {g \in Forms : (g = queued.by /\ queued # entry) \/ (g = entry.by /\ Flushing)}
      BY <1>1, <1>2, <2>2 DEF Accepts, Queues
    <3>2. committed \in Forms
      BY <2>2 DEF EvidenceInv
    <3>3. CASE form[committed].tx = "landed" /\ committed # f
      BY <1>2, <1>3, <3>2, <3>3 DEF ContentsKept
    <3>4. CASE form[committed].tx = "landed" /\ committed = f
      <4>1. entry = Whole
        BY <1>1, <3>4
      <4>2. Flushing => committed \in exposed'
        BY <1>1, <3>1, <3>2, <3>4
      <4>3. ~Flushing => \A r \in Refreshes : flush'[r].pc = "rest"
        BY <1>2 DEF Flushing
      <4> QED
        BY <1>2, <1>5, <3>1, <4>1, <4>2, <4>3 DEF ContentsKept
    <3>5. CASE /\ queued = Whole
               /\ \A r \in Refreshes : flush[r].pc # "rest" => flush[r].entry = Whole
      <4>1. queued.by = committed
        BY <3>5 DEF Whole
      <4>2. CASE queued = entry
        BY <1>2, <1>5, <3>1, <3>5, <4>2 DEF ContentsKept
      <4>3. CASE queued # entry
        BY <1>2, <3>1, <3>2, <4>1, <4>3 DEF ContentsKept
      <4> QED
        BY <4>2, <4>3
    <3> QED
      BY <2>2, <3>3, <3>4, <3>5 DEF EvidenceInv, ContentsKept
  <2> QED
    BY <2>1, <2>2
<1> QED
  BY <1>2, <1>3, <1>4, <1>5, <1>6, <1>7, <1>8, <1>1 DEF EvidenceInv

\* A flush that reads while the contents are in the outbox reads them; it stores
\* them or keeps their entry, and writes back nothing else.
LEMMA FlushKeepsEvidence ==
    ASSUME EvidenceInv, NEW r \in Refreshes,
           \/ FlushClaimReads(r) \/ FlushClaimSends(r)
           \/ FlushClaimEnds(r) \/ FlushClaimStops(r)
    PROVE  EvidenceInv'
<1>1. UNCHANGED <<form, committed, exposed>>
  BY DEF FlushClaimReads, FlushClaimSends, FlushClaimEnds, FlushClaimStops
<1>2. Whole' = Whole
  BY <1>1 DEF Whole
<1>3. flush[r] \in Flush /\ flush[r].entry \in Entry /\ Honest(flush[r].entry)
  BY DEF EvidenceInv, Flush
<1>4. NoEntry \in Entry /\ Honest(NoEntry) /\ AtRest \in Flush /\ AtRest.pc = "rest"
      /\ AtRest.entry = NoEntry
  BY DEF NoEntry, Entry, Honest, AtRest, Flush
<1>5. PICK x \in Flush :
        /\ flush' = [flush EXCEPT ![r] = x]
        /\ Honest(x.entry)
        /\ queued' \in {queued, flush[r].entry}
        /\ queued' # queued => flush[r].pc = "end"
        /\ evidence' \in {evidence, committed}
        /\ \/ x.pc = "rest"
           \/ x.entry = queued
           \/ flush[r].pc # "rest" /\ x.entry = flush[r].entry
           \/ evidence' = committed
  <2>1. CASE FlushClaimReads(r)
    <3> DEFINE x == [pc |-> "send", entry |-> queued]
    <3>1. x \in Flush /\ x.entry = queued
      BY DEF Flush, EvidenceInv
    <3>2. flush' = [flush EXCEPT ![r] = x] /\ UNCHANGED <<queued, evidence>>
      BY <2>1 DEF FlushClaimReads
    <3> HIDE DEF x
    <3> QED
      BY <3>1, <3>2 DEF EvidenceInv
  <2>2. CASE FlushClaimSends(r)
    <3>1. queued' = queued /\ flush[r].pc # "rest"
      BY <2>2 DEF FlushClaimSends
    <3>2. CASE /\ evidence' = committed
               /\ \E left \in {NoEntry, flush[r].entry} :
                    flush' = [flush EXCEPT ![r] = [pc |-> "end", entry |-> left]]
      <4>1. PICK left \in {NoEntry, flush[r].entry} :
              flush' = [flush EXCEPT ![r] = [pc |-> "end", entry |-> left]]
        BY <3>2
      <4> DEFINE x == [pc |-> "end", entry |-> left]
      <4>2. x \in Flush /\ x.entry = left /\ flush' = [flush EXCEPT ![r] = x]
        BY <1>3, <1>4, <4>1 DEF Flush
      <4>3. Honest(left)
        BY <1>3, <1>4
      <4> HIDE DEF x
      <4> QED
        BY <3>1, <3>2, <4>2, <4>3
    <3>3. CASE flush' = [flush EXCEPT ![r].pc = "end"] /\ UNCHANGED evidence
      <4> DEFINE x == [flush[r] EXCEPT !.pc = "end"]
      <4>1. x \in Flush /\ x.entry = flush[r].entry /\ flush' = [flush EXCEPT ![r] = x]
        BY <1>3, <3>3 DEF Flush
      <4> HIDE DEF x
      <4> QED
        BY <1>3, <3>1, <3>3, <4>1
    <3> QED
      BY <2>2, <3>2, <3>3 DEF FlushClaimSends, Accepts
  <2>3. CASE FlushClaimEnds(r) \/ FlushClaimStops(r)
    <3>1. /\ flush' = [flush EXCEPT ![r] = AtRest]
          /\ UNCHANGED evidence
          /\ queued' \in {queued, flush[r].entry}
          /\ queued' # queued => flush[r].pc = "end"
      BY <2>3 DEF FlushClaimEnds, FlushClaimStops
    <3> QED
      BY <1>4, <3>1
  <2> QED
    BY <2>1, <2>2, <2>3
<1>6. /\ flush' \in [Refreshes -> Flush]
      /\ \A q \in Refreshes : flush'[q] = IF q = r THEN x ELSE flush[q]
  BY <1>5 DEF EvidenceInv
<1>7. queued' \in Entry /\ Honest(queued)' /\ \A q \in Refreshes : Honest(flush[q].entry)'
  BY <1>1, <1>3, <1>5, <1>6 DEF EvidenceInv, Honest
<1>8. ContentsKept'
  <2>1. CASE committed \in {NoForm, evidence} \cup exposed \/ form[committed].tx = "landed"
    BY <1>1, <1>5, <2>1 DEF ContentsKept
  <2>2. CASE /\ queued = Whole
             /\ \A q \in Refreshes : flush[q].pc # "rest" => flush[q].entry = Whole
    <3>1. queued' = Whole
      BY <1>5, <2>2
    <3>2. CASE evidence' = committed
      BY <1>1, <3>2 DEF ContentsKept
    <3>3. CASE evidence' # committed
      <4>1. x.pc # "rest" => x.entry = Whole
        BY <1>5, <2>2, <3>3
      <4> QED
        BY <1>2, <1>6, <2>2, <3>1, <4>1 DEF ContentsKept
    <3> QED
      BY <3>2, <3>3
  <2> QED
    BY <2>1, <2>2 DEF EvidenceInv, ContentsKept
<1>9. evidence' \in {NoForm, committed}
  BY <1>5 DEF EvidenceInv
<1> QED
  BY <1>1, <1>6, <1>7, <1>8, <1>9 DEF EvidenceInv

\* The contents of the claim on the chain are stored, or still in the browser,
\* unless they were given up, replaced in the outbox or queued during a flush; no
\* other contents are stored.
THEOREM ContentsAreKept == EvidenceSpec => []EvidenceIsKept
<1>1. EvidenceInit => EvidenceInv
  BY DEF EvidenceInit, EvidenceInv, FormRow, Entry, NoEntry, Empty, Honest, AtRest, Flush, ContentsKept
<1>2. EvidenceInv /\ [EvidenceNext]_evidenceVars => EvidenceInv'
  <2> SUFFICES ASSUME EvidenceInv, [EvidenceNext]_evidenceVars
               PROVE  EvidenceInv'
    OBVIOUS
  <2>1. CASE UNCHANGED evidenceVars
    BY <2>1 DEF evidenceVars, EvidenceInv, Honest, ContentsKept, Whole
  <2> QED
    BY <2>1, FormKeepsInv, CommitKeepsEvidence, SyncKeepsEvidence, FlushKeepsEvidence
       DEF EvidenceNext
<1>3. EvidenceInv => EvidenceIsKept
  BY TextsAreKept DEF EvidenceInv, EvidenceIsKept, ContentsKept, Whole
<1> QED
  BY <1>1, <1>2, <1>3, PTL DEF EvidenceSpec
=============================================================================
