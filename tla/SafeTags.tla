------------------------------ MODULE SafeTags ------------------------------
(***************************************************************************)
(* SafeTags: the QR codes of one owner (api/tags) and the messages one     *)
(* finder leaves through one of them (t/[code], api/tags/[code]/report).   *)
(* Both routes count first and insert later; makers and visitors are the   *)
(* requests under way at a time.  The limits of RateLimit come on top and  *)
(* are left out.                                                           *)
(***************************************************************************)
EXTENDS Integers, FiniteSets

CONSTANTS
  Tags,          \* rows of safe_tags
  Scanned,       \* the tag the finder scans
  TagQuota,      \* tags an account may keep (20 in the code)
  ReportQuota,   \* messages about a tag an hour (3 in the code)
  Makers, Visitors

ASSUME SafeTagsAssumption ==
  /\ Scanned \in Tags /\ TagQuota \in Nat \ {0} /\ ReportQuota \in Nat \ {0}
  /\ IsFiniteSet(Tags) /\ IsFiniteSet(Makers) /\ IsFiniteSet(Visitors)

VARIABLES
  tag,       \* status of every tag
  maker,     \* creations: idle, or past the count
  visitor,   \* where each visit to the tag's page is
  messages,  \* messages of the last hour
  resolved,  \* how many of them the owner has marked as resolved
  again      \* a tag that was off was turned on again

tagVars == <<tag, maker, visitor, messages, resolved, again>>

TagStatus == {"active", "recovered", "disabled"}

TagsInit ==
  /\ tag = [t \in Tags |-> "none"]
  /\ maker = [h \in Makers |-> "idle"]
  /\ visitor = [v \in Visitors |-> "away"]
  /\ messages = 0
  /\ resolved = 0
  /\ again = FALSE

-----------------------------------------------------------------------------
(* The owner.                                                              *)

MutKeptTags == {t \in Tags : tag[t] = "active"}

KeptTags == {t \in Tags : tag[t] \notin {"none", "disabled"}}

CountTags(h) ==
  /\ maker[h] = "idle"
  /\ Cardinality(KeptTags) < TagQuota
  /\ maker' = [maker EXCEPT ![h] = "insert"]
  /\ UNCHANGED <<tag, visitor, messages, resolved, again>>

\* Or the database refuses.
InsertTag(h) ==
  /\ maker[h] = "insert"
  /\ maker' = [maker EXCEPT ![h] = "idle"]
  /\ \/ \E t \in Tags :
          /\ tag[t] = "none"
          /\ tag' = [tag EXCEPT ![t] = "active"]
     \/ UNCHANGED tag
  /\ UNCHANGED <<visitor, messages, resolved, again>>

\* Any status may follow any other; nothing is counted.
UpdateTag(t, status) ==
  /\ tag[t] # "none"
  /\ tag' = [tag EXCEPT ![t] = status]
  /\ again' = (again \/ (tag[t] = "disabled" /\ status # "disabled"))
  /\ UNCHANGED <<maker, visitor, messages, resolved>>

\* The owner has dealt with a message.
ResolveReport ==
  /\ resolved < messages
  /\ resolved' = resolved + 1
  /\ UNCHANGED <<tag, maker, visitor, messages, again>>

-----------------------------------------------------------------------------
(* The finder.                                                             *)

VisitTo(v, stage) == visitor' = [visitor EXCEPT ![v] = stage]

\* A recovered tag shows no form, a disabled one no page.
OpenTag(v) ==
  /\ visitor[v] = "away"
  /\ tag[Scanned] = "active"
  /\ VisitTo(v, "form")
  /\ UNCHANGED <<tag, maker, messages, resolved, again>>

\* The form stays open when the message is refused.
PostReport(v) ==
  /\ visitor[v] = "form"
  /\ tag[Scanned] = "active"
  /\ VisitTo(v, "count")
  /\ UNCHANGED <<tag, maker, messages, resolved, again>>

\* Resolved messages count as well.
CountReports(v) ==
  /\ visitor[v] = "count"
  /\ VisitTo(v, IF messages < ReportQuota THEN "insert" ELSE "form")
  /\ UNCHANGED <<tag, maker, messages, resolved, again>>

\* Or the database refuses, or its answer is lost and the form stays open.
InsertReport(v) ==
  /\ visitor[v] = "insert"
  /\ \/ messages' = messages + 1 /\ (VisitTo(v, "sent") \/ VisitTo(v, "form"))
     \/ UNCHANGED messages /\ VisitTo(v, "form")
  /\ UNCHANGED <<tag, maker, resolved, again>>

Leave(v) ==
  /\ visitor[v] \in {"form", "sent"}
  /\ VisitTo(v, "away")
  /\ UNCHANGED <<tag, maker, messages, resolved, again>>

\* The oldest message is an hour old.
HourPasses ==
  /\ messages > 0
  /\ messages' = messages - 1
  /\ resolved' \in {n \in {resolved, resolved - 1} : n \in 0..messages'}
  /\ UNCHANGED <<tag, maker, visitor, again>>

TagsNext ==
  \/ \E h \in Makers : CountTags(h) \/ InsertTag(h)
  \/ \E t \in Tags, status \in TagStatus : UpdateTag(t, status)
  \/ \E v \in Visitors :
       \/ OpenTag(v) \/ PostReport(v) \/ CountReports(v) \/ InsertReport(v)
       \/ Leave(v)
  \/ ResolveReport \/ HourPasses

-----------------------------------------------------------------------------
(* Properties.                                                             *)

\* Requests that pass the count together exceed a limit by less than their
\* number: one account keeps at most the quota of tags, and one finder sends
\* at most the quota of messages an hour, and one more for every further
\* request under way; for tags as long as none was turned on again, which no
\* route counts ("at most 20 SafeTags an account", api/tags/route.ts:95).
TagLimitsHold ==
  /\ ~again => Cardinality(KeptTags) < TagQuota + Cardinality(Makers)
  /\ messages < ReportQuota + Cardinality(Visitors)
=============================================================================
