---------------------------- MODULE ClientProofs ----------------------------
(***************************************************************************)
(* Theorems about what the browser keeps and sends: the outbox of changes  *)
(* (Outbox), for any number of listings, claims and activities of the      *)
(* browser and any size of the outbox, and the transactions (Instructions) *)
(* for any parties, coinciding or not, and bounty ids of every length.     *)
(*                                                                         *)
(* A change is safe when the row shows it, a task has it in hand, or every *)
(* list of entries that may become the outbox holds an entry that would    *)
(* deliver it: the outbox itself, and what each flush under way will write *)
(* back.  The last is what makes the invariant inductive: flushes of       *)
(* several pages overwrite each other's outbox, and whichever writes last, *)
(* the change survives.                                                    *)
(***************************************************************************)
EXTENDS Outbox, Instructions, FiniteSetTheorems, SequenceTheorems, TLAPS

OutboxSpec == OutboxInit /\ [][OutboxNext]_outboxVars

-----------------------------------------------------------------------------
(* Filtered sequences.                                                     *)

\* A filtered sequence holds the elements at the places that are kept, and no
\* other (Array.filter).
LEMMA FilteredHolds ==
  ASSUME NEW Things, NEW seq \in Seq(Things), NEW places \in SUBSET (DOMAIN seq)
  PROVE  /\ Filtered(seq, places) \in Seq(Things)
         /\ Range(Filtered(seq, places)) = {seq[i] : i \in places}
<1> DEFINE upto(i) == {j \in places : j <= i}
           size == Cardinality(places)
           rank == [i \in places |-> Cardinality(upto(i))]
<1>1. /\ IsFiniteSet(places) /\ size \in Nat
      /\ places \subseteq Int
      /\ \A i \in places : seq[i] \in Things
  <2>1. /\ DOMAIN seq = 1..Len(seq) /\ Len(seq) \in Nat
        /\ \A i \in 1..Len(seq) : seq[i] \in Things
    BY LenProperties, ElementOfSeq
  <2>2. IsFiniteSet(1..Len(seq))
    BY <2>1, FS_Interval
  <2> QED
    BY <2>1, <2>2, FS_Subset, FS_CardinalityType
<1>2. ASSUME NEW i \in places
      PROVE  /\ IsFiniteSet(upto(i)) /\ Cardinality(upto(i)) \in 1..size
  <2>1. upto(i) \subseteq places /\ i \in upto(i)
    BY <1>1
  <2>2. IsFiniteSet(upto(i)) /\ Cardinality(upto(i)) \in Nat /\ Cardinality(upto(i)) <= size
    BY <1>1, <2>1, FS_Subset, FS_CardinalityType
  <2>3. Cardinality(upto(i)) # 0
    BY <2>1, <2>2, FS_EmptySet
  <2> QED
    BY <1>1, <2>2, <2>3
<1>3. ASSUME NEW i \in places, NEW k \in places, rank[i] = rank[k]
      PROVE  i = k
  <2>1. ASSUME NEW x \in places, NEW y \in places, x < y
        PROVE  Cardinality(upto(x)) # Cardinality(upto(y))
    <3>1. upto(x) \subseteq upto(y) /\ y \in upto(y) /\ y \notin upto(x)
      BY <1>1, <2>1
    <3> QED
      BY <1>2, <3>1, FS_Subset
  <2>2. Cardinality(upto(i)) = Cardinality(upto(k))
    BY <1>3
  <2>3. i \in Int /\ k \in Int
    BY <1>1
  <2> HIDE DEF upto
  <2> QED
    BY <2>1, <2>2, <2>3
<1>4. rank \in Surjection(places, 1..size)
  <2>1. rank \in Injection(places, 1..size)
    BY <1>2, <1>3 DEF Injection, IsInjective
  <2>2. IsFiniteSet(1..size) /\ Cardinality(1..size) = size
    BY <1>1, FS_Interval
  <2> QED
    BY <2>1, <2>2, FS_Injection
<1>5. \A n \in 1..size : \E i \in places : Cardinality(upto(i)) = n
  BY <1>4 DEF Surjection
<1> DEFINE at(n) == CHOOSE i \in places : Cardinality(upto(i)) = n
<1>6. \A n \in 1..size : at(n) \in places
  BY <1>5
<1>7. \A i \in places : Cardinality(upto(i)) \in 1..size /\ at(Cardinality(upto(i))) = i
  BY <1>2, <1>3, <1>5
<1>8. Filtered(seq, places) = [n \in 1..size |-> seq[at(n)]]
  BY DEF Filtered
<1> HIDE DEF upto, size, rank, at
<1>9. Filtered(seq, places) \in [1..size -> Things]
  BY <1>1, <1>6, <1>8
<1>10. Filtered(seq, places) \in Seq(Things)
  BY <1>1, <1>9
<1>11. Range(Filtered(seq, places)) = {seq[i] : i \in places}
  BY <1>6, <1>7, <1>8 DEF Range
<1> QED
  BY <1>10, <1>11

\* An appended sequence holds one element more.
LEMMA AppendHolds ==
  ASSUME NEW Things, NEW seq \in Seq(Things), NEW e \in Things
  PROVE  /\ Append(seq, e) \in Seq(Things)
         /\ Range(Append(seq, e)) = Range(seq) \cup {e}
<1>1. /\ Append(seq, e) \in Seq(Things) /\ Len(seq) \in Nat
      /\ Len(Append(seq, e)) = Len(seq) + 1
      /\ \A i \in 1..Len(seq) : Append(seq, e)[i] = seq[i]
      /\ Append(seq, e)[Len(seq) + 1] = e
  BY AppendProperties, LenProperties
<1>2. DOMAIN seq = 1..Len(seq) /\ DOMAIN Append(seq, e) = 1..(Len(seq) + 1)
  BY <1>1, LenProperties
<1>3. 1..(Len(seq) + 1) = (1..Len(seq)) \cup {Len(seq) + 1}
  BY <1>1
<1> QED
  BY <1>1, <1>2, <1>3 DEF Range

\* A sequence holds its head and what its tail holds.
LEMMA HeadTailHold ==
  ASSUME NEW Things, NEW seq \in Seq(Things), seq # <<>>
  PROVE  /\ Head(seq) \in Things /\ Tail(seq) \in Seq(Things)
         /\ Range(seq) \subseteq {Head(seq)} \cup Range(Tail(seq))
<1>1. /\ Head(seq) \in Things /\ Tail(seq) \in Seq(Things)
      /\ Len(Tail(seq)) = Len(seq) - 1 /\ Len(seq) \in Nat
      /\ \A i \in 1..Len(Tail(seq)) : Tail(seq)[i] = seq[i + 1]
      /\ Head(seq) = seq[1]
  BY HeadTailProperties, LenProperties
<1>2. DOMAIN seq = 1..Len(seq) /\ DOMAIN Tail(seq) = 1..(Len(seq) - 1)
  BY <1>1, LenProperties
<1>3. ASSUME NEW i \in 1..Len(seq), i # 1
      PROVE  i - 1 \in 1..(Len(seq) - 1) /\ Tail(seq)[i - 1] = seq[i]
  BY <1>1, <1>3
<1>4. \A i \in 1..Len(seq) :
        seq[i] = Head(seq) \/ \E k \in 1..(Len(seq) - 1) : seq[i] = Tail(seq)[k]
  BY <1>1, <1>3
<1>5. Range(seq) \subseteq {Head(seq)} \cup Range(Tail(seq))
  BY <1>2, <1>4 DEF Range
<1> QED
  BY <1>1, <1>5

-----------------------------------------------------------------------------
(* What keeps a change safe, for any rows r and histories c of the         *)
(* subjects, entries H in the hands of tasks and a list E of entries.      *)

Kinds == {"bounty", "claim", "state"}
Fresh == [kind : Kinds, of : Subjects, old : {FALSE}]

\* A state sync of a subject without a row has no effect.
Covered(r, c, H, E, s) ==
  \/ r[s] = c[s]
  \/ \E e \in H \cup E : e.of = s /\ (r[s] = 0 => e.kind # "state")
Safe(r, c, H, E) == \A s \in Subjects : Covered(r, c, H, E, s)

\* The rows after the server has processed an entry (sync/route.ts).
Processed(r, c, e) ==
  [r EXCEPT ![e.of] = IF e.kind = "state" /\ r[e.of] = 0 THEN 0 ELSE c[e.of]]

Histories == [Subjects -> Nat]

\* An entry that was delivered is no longer needed.
LEMMA DeliveredIsSafe ==
  ASSUME NEW r \in Histories, NEW c \in Histories, NEW H, NEW E, NEW e \in Fresh,
         Safe(r, c, H, E), NEW H2, NEW E2,
         H \ {e} \subseteq H2, E \ {e} \subseteq E2
  PROVE  Safe(Processed(r, c, e), c, H2, E2)
<1> SUFFICES ASSUME NEW s \in Subjects
             PROVE  Covered(Processed(r, c, e), c, H2, E2, s)
  BY DEF Safe
<1>1. Covered(r, c, H, E, s)
  BY DEF Safe
<1>2. CASE s = e.of /\ ~(e.kind = "state" /\ r[s] = 0)
  BY <1>2 DEF Processed, Covered, Histories
<1>3. CASE s = e.of /\ e.kind = "state" /\ r[s] = 0
  <2>1. Processed(r, c, e)[s] = 0
    BY <1>3 DEF Processed, Histories
  <2> QED
    BY <1>1, <1>3, <2>1 DEF Covered
<1>4. CASE s # e.of
  <2>1. Processed(r, c, e)[s] = r[s]
    BY <1>4 DEF Processed, Histories
  <2> QED
    BY <1>1, <1>4, <2>1 DEF Covered
<1> QED
  BY <1>2, <1>3, <1>4

\* Nor does it hurt to process an entry that is kept.
LEMMA ProcessedIsSafe ==
  ASSUME NEW r \in Histories, NEW c \in Histories, NEW H, NEW E, NEW e \in Fresh,
         Safe(r, c, H, E), NEW H2, NEW E2, H \subseteq H2, E \subseteq E2,
         NEW r2, r2 = r \/ r2 = Processed(r, c, e)
  PROVE  Safe(r2, c, H2, E2)
<1>1. Safe(r, c, H2, E2)
  BY DEF Safe, Covered
<1> QED
  BY <1>1, DeliveredIsSafe

\* An entry may go from a hand to the end of a list, where it replaces one with
\* its key.
LEMMA QueuedIsSafe ==
  ASSUME NEW r \in Histories, NEW c \in Histories, NEW H, NEW E \in SUBSET Fresh,
         NEW e \in Fresh, Safe(r, c, H, E), NEW H2, NEW E2,
         H \ {e} \subseteq H2,
         e \in E2, \A x \in E : KeyOf(x) # KeyOf(e) => x \in E2,
         NEW r2, r2 = r \/ r2 = Processed(r, c, e)
  PROVE  Safe(r2, c, H2, E2)
<1>1. Safe(r, c, H2, E2)
  <2> SUFFICES ASSUME NEW s \in Subjects
               PROVE  Covered(r, c, H2, E2, s)
    BY DEF Safe
  <2>1. CASE r[s] = c[s]
    BY <2>1 DEF Covered
  <2>2. CASE \E x \in H \cup E : x.of = s /\ (r[s] = 0 => x.kind # "state")
    <3> PICK x \in H \cup E : x.of = s /\ (r[s] = 0 => x.kind # "state")
      BY <2>2
    <3>1. CASE x \in H2 \cup E2
      BY <3>1 DEF Covered
    <3>2. CASE x \notin H2 \cup E2
      <4>1. x = e \/ KeyOf(x) = KeyOf(e)
        BY <3>2
      <4>2. x.kind = e.kind /\ x.of = e.of
        BY <4>1 DEF KeyOf
      <4> QED
        BY <4>2 DEF Covered
    <3> QED
      BY <3>1, <3>2
  <2> QED
    BY <2>1, <2>2 DEF Safe, Covered
<1> QED
  BY <1>1, ProcessedIsSafe

-----------------------------------------------------------------------------
(* The invariant: nothing is claimed once something disturbed the outbox.  *)

Stages == {"idle", "sync", "flush", "send", "reconcile", "fetch", "answer"}
Task == [pc : Stages, entry : Fresh \cup {<<>>}, pending : Seq(Fresh),
         failed : Seq(Fresh), rows : Histories \cup {<<>>}]

InHands == {task[t].entry : t \in {u \in Tasks : task[u].pc = "sync"}}

\* What a flush will write back at most.
WritesBack(x) == Range(x.failed) \cup Range(x.pending)

CalmType ==
  /\ row \in Histories /\ chain \in Histories
  /\ outbox \in Seq(Fresh)
  /\ task \in [Tasks -> Task]
  /\ \A t \in Tasks : task[t].pc = "sync" => task[t].entry \in Fresh
  /\ \A t \in Tasks : task[t].pc = "send" => task[t].pending # <<>>

CalmSafe ==
  /\ Safe(row, chain, InHands, Range(outbox))
  /\ \A t \in Tasks : task[t].pc = "send" => Safe(row, chain, InHands, WritesBack(task[t]))

OutboxInv == ~disturbed => CalmType /\ CalmSafe

\* No list of fresh entries loses any by being read.
LEMMA ReadsAll ==
  ASSUME CalmType
  PROVE  /\ ReadPendingSyncs \in Seq(Fresh)
         /\ Range(ReadPendingSyncs) = Range(outbox)
         /\ ReadPendingSyncs = <<>> => outbox = <<>>
<1>1. {i \in DOMAIN outbox : ~outbox[i].old} = DOMAIN outbox
  <2>1. \A i \in DOMAIN outbox : outbox[i] \in Fresh
    BY ElementOfSeq, LenProperties DEF CalmType
  <2> QED
    BY <2>1 DEF Fresh
<1>2. /\ ReadPendingSyncs \in Seq(Fresh)
      /\ Range(ReadPendingSyncs) = {outbox[i] : i \in DOMAIN outbox}
  BY <1>1, FilteredHolds DEF ReadPendingSyncs, CalmType
<1>3. ReadPendingSyncs = <<>> => DOMAIN outbox = {}
  <2>1. DOMAIN <<>> = {}
    BY EmptySeq, LenProperties
  <2>2. ReadPendingSyncs = <<>> => Range(ReadPendingSyncs) = {}
    BY <2>1 DEF Range
  <2> QED
    BY <1>2, <2>2
<1>4. DOMAIN outbox = {} => outbox = <<>>
  BY EmptySeq, LenProperties DEF CalmType
<1> QED
  BY <1>2, <1>3, <1>4 DEF Range

\* What a change of one task means for the entries in hand and for the flushes.
LEMMA OneTaskMoves ==
  ASSUME CalmType, NEW t \in Tasks, NEW x \in Task,
         task' = [task EXCEPT ![t] = x],
         x.pc = "sync" => x.entry \in Fresh,
         x.pc = "send" => x.pending # <<>>
  PROVE  /\ task' \in [Tasks -> Task]
         /\ \A u \in Tasks : task'[u].pc = "sync" => task'[u].entry \in Fresh
         /\ \A u \in Tasks : task'[u].pc = "send" => task'[u].pending # <<>>
         /\ task'[t] = x
         /\ \A u \in Tasks \ {t} : task'[u] = task[u]
         /\ InHands \ {task[t].entry} \subseteq InHands'
         /\ task[t].pc # "sync" => InHands \subseteq InHands'
         /\ x.pc = "sync" => x.entry \in InHands'
<1>1. /\ task \in [Tasks -> Task] /\ task'[t] = x
      /\ \A u \in Tasks \ {t} : task'[u] = task[u]
      /\ task' \in [Tasks -> Task]
  BY DEF CalmType
<1>2. /\ \A u \in Tasks : task'[u].pc = "sync" => task'[u].entry \in Fresh
      /\ \A u \in Tasks : task'[u].pc = "send" => task'[u].pending # <<>>
  BY <1>1 DEF CalmType
<1>3. \A e : e \in InHands <=> \E u \in Tasks : task[u].pc = "sync" /\ e = task[u].entry
  BY DEF InHands
<1>4. \A e : e \in InHands' <=> \E u \in Tasks : task'[u].pc = "sync" /\ e = task'[u].entry
  BY DEF InHands
<1>5. /\ InHands \ {task[t].entry} \subseteq InHands'
      /\ task[t].pc # "sync" => InHands \subseteq InHands'
      /\ x.pc = "sync" => x.entry \in InHands'
  BY <1>1, <1>3, <1>4
<1> QED
  BY <1>1, <1>2, <1>5

\* A task goes on without touching the chain or a list; a row is left or shows
\* the chain.
LEMMA TaskOnlyKeepsInv ==
  ASSUME CalmType, CalmSafe, NEW t \in Tasks, NEW x \in Task,
         task' = [task EXCEPT ![t] = x], task[t].pc # "sync",
         x.pc \notin {"sync", "send"},
         UNCHANGED <<chain, outbox>>,
         row' \in Histories,
         \A s \in Subjects : row'[s] = row[s] \/ row'[s] = chain[s]
  PROVE  CalmType' /\ CalmSafe'
<1>1. CalmType'
  BY OneTaskMoves DEF CalmType
<1>2. InHands \subseteq InHands'
  BY OneTaskMoves
<1>3. ASSUME NEW E, Safe(row, chain, InHands, E)
      PROVE  Safe(row', chain', InHands', E)
  BY <1>2, <1>3 DEF Safe, Covered
<1>4. \A u \in Tasks : task'[u].pc = "send" => task'[u] = task[u]
  BY OneTaskMoves
<1> QED
  BY <1>1, <1>3, <1>4 DEF CalmSafe

\* An operation takes its change in hand.
LEMMA ConfirmedKeepsInv ==
  ASSUME CalmType, CalmSafe, NEW t \in Tasks, NEW s \in Subjects, Confirmed(t, s)
  PROVE  CalmType' /\ CalmSafe'
<1> DEFINE kind == IF chain[s] = 0 THEN Announces(s) ELSE "state"
           entry == PendingSync(kind, s)
           x == [task[t] EXCEPT !.pc = "sync", !.entry = entry]
<1>1. entry \in Fresh /\ entry.of = s /\ entry.kind = kind
  BY DEF PendingSync, Announces, Fresh, Kinds
<1>2. /\ task' = [task EXCEPT ![t].pc = "sync", ![t].entry = entry]
      /\ chain' = [chain EXCEPT ![s] = chain[s] + 1]
      /\ UNCHANGED <<row, outbox>> /\ task[t].pc = "idle"
  BY DEF Confirmed
<1> HIDE DEF entry
<1>3. /\ x \in Task /\ x.pc = "sync" /\ x.entry = entry
      /\ task' = [task EXCEPT ![t] = x]
  <2>1. task[t] \in Task
    BY DEF CalmType
  <2> QED
    BY <1>1, <1>2, <2>1 DEF Task, Stages, CalmType
<1> HIDE DEF x
<1>4. /\ InHands \subseteq InHands' /\ entry \in InHands'
      /\ \A u \in Tasks \ {t} : task'[u] = task[u]
      /\ task'[t] = x
  BY <1>1, <1>2, <1>3, OneTaskMoves
<1>5. CalmType'
  <2>1. chain' \in Histories
    BY <1>2 DEF CalmType, Histories
  <2>2. x.pc # "send"
    BY <1>3
  <2> QED
    BY <1>1, <1>2, <1>3, <2>1, <2>2, OneTaskMoves DEF CalmType
<1>6. chain[s] = 0 => kind # "state"
  BY DEF Announces
<1>7. ASSUME NEW E, Safe(row, chain, InHands, E)
      PROVE  Safe(row', chain', InHands', E)
  <2> SUFFICES ASSUME NEW z \in Subjects
               PROVE  Covered(row', chain', InHands', E, z)
    BY DEF Safe
  <2>1. Covered(row, chain, InHands, E, z)
    BY <1>7 DEF Safe
  <2>2. CASE z = s /\ chain[s] = 0
    BY <1>1, <1>4, <1>6, <2>2 DEF Covered
  <2>3. CASE z = s /\ chain[s] # 0
    BY <1>1, <1>2, <1>4, <2>1, <2>3 DEF Covered
  <2>4. CASE z # s
    <3>1. chain'[z] = chain[z]
      BY <1>2, <2>4 DEF CalmType, Histories
    <3> QED
      BY <1>2, <1>4, <2>1, <3>1 DEF Covered
  <2> QED
    BY <2>2, <2>3, <2>4
<1>8. \A u \in Tasks : task'[u].pc = "send" => task'[u] = task[u]
  BY <1>3, <1>4
<1> QED
  BY <1>2, <1>5, <1>7, <1>8 DEF CalmSafe

\* What the server answers, and what it did.
LEMMA PostSyncProcesses ==
  ASSUME NEW e \in Fresh, NEW delivered, PostSync(e, delivered)
  PROVE  /\ row' = row \/ row' = Processed(row, chain, e)
         /\ delivered => row' = Processed(row, chain, e)
BY DEF PostSync, RowAfter, Processed

LEMMA ProcessedType ==
  ASSUME NEW r \in Histories, NEW c \in Histories, NEW e \in Fresh
  PROVE  Processed(r, c, e) \in Histories
BY DEF Processed, Histories, Fresh

\* A change is synced, or queued: nothing is being flushed then, or the outbox
\* is disturbed.
LEMMA SyncRecoverablyKeepsInv ==
  ASSUME CalmType, CalmSafe, NEW t \in Tasks, SyncRecoverably(t), ~disturbed'
  PROVE  CalmType' /\ CalmSafe'
<1> DEFINE entry == task[t].entry
           x == [Idle EXCEPT !.pc = "flush"]
<1>1. /\ entry \in Fresh /\ task[t].pc = "sync"
      /\ task' = [task EXCEPT ![t] = x] /\ UNCHANGED chain
  BY DEF SyncRecoverably, CalmType
<1>2. x \in Task /\ x.pc = "flush"
  BY EmptySeq DEF Idle, Task, Stages
<1> HIDE DEF x
<1>3. /\ InHands \ {entry} \subseteq InHands'
      /\ \A u \in Tasks \ {t} : task'[u] = task[u]
      /\ task'[t] = x
  BY <1>1, <1>2, OneTaskMoves
<1>4. row' = row \/ row' = Processed(row, chain, entry)
  BY <1>1, PostSyncProcesses DEF SyncRecoverably
<1>5. row \in Histories /\ chain \in Histories /\ row' \in Histories
  BY <1>1, <1>4, ProcessedType DEF CalmType
<1>6. \A u \in Tasks : task'[u].pc = "send" => u # t /\ task'[u] = task[u]
  BY <1>2, <1>3
<1> HIDE DEF entry
<1>7. CASE PostSync(entry, TRUE) /\ UNCHANGED <<outbox, disturbed>>
  <2>1. row' = Processed(row, chain, entry)
    BY <1>1, <1>7, PostSyncProcesses
  <2>2. CalmType'
    BY <1>1, <1>2, <1>5, <1>7, OneTaskMoves DEF CalmType
  <2>3. ASSUME NEW E, Safe(row, chain, InHands, E)
        PROVE  Safe(row', chain', InHands', E)
    BY <1>1, <1>3, <1>5, <2>1, <2>3, DeliveredIsSafe
  <2> QED
    BY <1>6, <1>7, <2>2, <2>3 DEF CalmSafe
<1>8. CASE QueuePendingSync(entry)
  <2>1. /\ outbox' = Append(OtherKeys(ReadPendingSyncs, entry), entry)
        /\ \A u \in Tasks : task[u].pc # "send"
    BY <1>8 DEF QueuePendingSync
  <2>2. /\ OtherKeys(ReadPendingSyncs, entry) \in Seq(Fresh)
        /\ \A y \in Range(outbox) :
             KeyOf(y) # KeyOf(entry) => y \in Range(OtherKeys(ReadPendingSyncs, entry))
    <3> DEFINE places == {i \in DOMAIN ReadPendingSyncs :
                            KeyOf(ReadPendingSyncs[i]) # KeyOf(entry)}
    <3>1. /\ Filtered(ReadPendingSyncs, places) \in Seq(Fresh)
          /\ Range(Filtered(ReadPendingSyncs, places)) = {ReadPendingSyncs[i] : i \in places}
      BY ReadsAll, FilteredHolds
    <3>2. \A y \in Range(ReadPendingSyncs) :
            KeyOf(y) # KeyOf(entry) => y \in {ReadPendingSyncs[i] : i \in places}
      BY DEF Range
    <3> QED
      BY <3>1, <3>2, ReadsAll DEF OtherKeys
  <2>3. /\ outbox' \in Seq(Fresh)
        /\ Range(outbox') = Range(OtherKeys(ReadPendingSyncs, entry)) \cup {entry}
    BY <1>1, <2>1, <2>2, AppendHolds
  <2>4. Range(outbox) \in SUBSET Fresh
    BY RangeOfSeq DEF CalmType
  <2>5. Safe(row', chain', InHands', Range(outbox'))
    BY <1>1, <1>3, <1>4, <1>5, <2>2, <2>3, <2>4, QueuedIsSafe DEF CalmSafe
  <2>6. CalmType'
    BY <1>1, <1>2, <1>5, <2>3, OneTaskMoves DEF CalmType
  <2> QED
    BY <1>6, <2>1, <2>5, <2>6 DEF CalmSafe
<1> QED
  BY <1>7, <1>8 DEF SyncRecoverably, entry

\* A flush takes all entries of the outbox in hand.
LEMMA FlushReadsKeepsInv ==
  ASSUME CalmType, CalmSafe, NEW t \in Tasks, FlushReads(t)
  PROVE  CalmType' /\ CalmSafe'
<1>1. task[t] \in Task /\ task[t].pc = "flush" /\ UNCHANGED <<chain, row>>
  BY DEF FlushReads, CalmType
<1>2. CASE ReadPendingSyncs = <<>>
  <2> DEFINE x == [task[t] EXCEPT !.pc = "reconcile"]
  <2>1. /\ outbox' = outbox
        /\ task' = [task EXCEPT ![t] = x]
    BY <1>2, ReadsAll DEF FlushReads, CalmType
  <2>2. x \in Task /\ x.pc = "reconcile"
    BY <1>1 DEF Task, Stages
  <2> HIDE DEF x
  <2> QED
    BY <1>1, <2>1, <2>2, TaskOnlyKeepsInv DEF CalmType
<1>3. CASE ReadPendingSyncs # <<>>
  <2> DEFINE x == [task[t] EXCEPT !.pc = "send", !.pending = ReadPendingSyncs]
  <2>1. /\ outbox' = outbox
        /\ task' = [task EXCEPT ![t] = x]
    BY <1>3 DEF FlushReads, CalmType
  <2>2. x \in Task /\ x.pc = "send" /\ x.pending = ReadPendingSyncs
    BY <1>1, ReadsAll DEF Task, Stages
  <2> HIDE DEF x
  <2>3. CalmType'
    BY <1>1, <1>3, <2>1, <2>2, OneTaskMoves DEF CalmType
  <2>4. /\ InHands \subseteq InHands'
        /\ \A u \in Tasks \ {t} : task'[u] = task[u]
        /\ task'[t] = x
    BY <1>1, <1>3, <2>1, <2>2, OneTaskMoves
  <2>5. ASSUME NEW E, NEW E2, Safe(row, chain, InHands, E), E \subseteq E2
        PROVE  Safe(row', chain', InHands', E2)
    BY <1>1, <2>4, <2>5 DEF Safe, Covered
  <2>6. Safe(row', chain', InHands', Range(outbox'))
    BY <2>1, <2>5 DEF CalmSafe
  <2>7. Safe(row', chain', InHands', WritesBack(task'[t]))
    <3>1. Range(outbox) \subseteq WritesBack(x)
      BY <2>2, ReadsAll DEF WritesBack
    <3> QED
      BY <2>4, <2>5, <3>1 DEF CalmSafe
  <2>8. ASSUME NEW u \in Tasks \ {t}, task'[u].pc = "send"
        PROVE  Safe(row', chain', InHands', WritesBack(task'[u]))
    <3>1. task'[u] = task[u] /\ Safe(row, chain, InHands, WritesBack(task[u]))
      BY <2>4, <2>8 DEF CalmSafe
    <3> QED
      BY <2>5, <3>1
  <2> QED
    BY <2>3, <2>6, <2>7, <2>8 DEF CalmSafe
<1> QED
  BY <1>2, <1>3

\* An entry is sent; it is dropped only if it was delivered.
LEMMA FlushSendsKeepsInv ==
  ASSUME CalmType, CalmSafe, NEW t \in Tasks, FlushSends(t)
  PROVE  CalmType' /\ CalmSafe'
<1> DEFINE item == Head(task[t].pending)
           rest == Tail(task[t].pending)
           old  == task[t].failed
           keep(delivered) == old \o (IF delivered THEN <<>> ELSE <<item>>)
<1>1. /\ task[t] \in Task /\ task[t].pc = "send" /\ UNCHANGED chain
      /\ task[t].pending \in Seq(Fresh) /\ task[t].pending # <<>>
      /\ old \in Seq(Fresh)
  BY DEF FlushSends, CalmType, Task
<1>2. /\ item \in Fresh /\ rest \in Seq(Fresh)
      /\ Range(task[t].pending) \subseteq {item} \cup Range(rest)
  BY <1>1, HeadTailHold
<1> PICK delivered \in BOOLEAN :
      /\ PostSync(item, delivered)
      /\ IF rest # <<>>
         THEN /\ task' = [task EXCEPT ![t].pending = rest, ![t].failed = keep(delivered)]
              /\ UNCHANGED outbox
         ELSE /\ task' = [task EXCEPT ![t] = [Idle EXCEPT !.pc = "reconcile"]]
              /\ outbox' = keep(delivered)
  BY DEF FlushSends
<1> DEFINE failed == keep(delivered)
<1>3. /\ failed \in Seq(Fresh)
      /\ Range(old) \subseteq Range(failed)
      /\ ~delivered => item \in Range(failed)
  <2>1. /\ <<>> \in Seq(Fresh) /\ <<item>> \in Seq(Fresh) /\ item \in Range(<<item>>)
    BY <1>2, EmptySeq DEF Range
  <2> DEFINE more == IF delivered THEN <<>> ELSE <<item>>
  <2>2. more \in Seq(Fresh) /\ (~delivered => item \in Range(more))
    BY <2>1
  <2> HIDE DEF item, old, more
  <2>3. old \o more \in Seq(Fresh) /\ Range(old \o more) = Range(old) \cup Range(more)
    BY <1>1, <2>2, ConcatProperties, RangeConcatenation
  <2>4. failed = old \o more
    BY DEF more
  <2> HIDE DEF failed
  <2> QED
    BY <2>2, <2>3, <2>4
<1>4. /\ row' = row \/ row' = Processed(row, chain, item)
      /\ delivered => row' = Processed(row, chain, item)
  BY <1>2, PostSyncProcesses
<1>5. row \in Histories /\ chain \in Histories /\ row' \in Histories
  BY <1>1, <1>2, <1>4, ProcessedType DEF CalmType
<1> HIDE DEF item, rest, old, failed, keep
<1>6. ASSUME NEW H2, NEW E2, InHands \subseteq H2,
             Range(failed) \cup Range(rest) \subseteq E2
      PROVE  Safe(row', chain, H2, E2)
  <2>1. Safe(row, chain, InHands, WritesBack(task[t]))
    BY <1>1 DEF CalmSafe
  <2>2. WritesBack(task[t]) \ {item} \subseteq E2
    BY <1>2, <1>3, <1>6 DEF WritesBack, old
  <2>3. CASE delivered
    BY <1>2, <1>4, <1>5, <1>6, <2>1, <2>2, <2>3, DeliveredIsSafe
  <2>4. CASE ~delivered
    <3>1. WritesBack(task[t]) \subseteq E2
      BY <1>3, <1>6, <2>2, <2>4
    <3> QED
      BY <1>2, <1>4, <1>5, <1>6, <2>1, <3>1, ProcessedIsSafe
  <2> QED
    BY <2>3, <2>4
<1>7. ASSUME NEW H2, NEW E, InHands \subseteq H2, Safe(row, chain, InHands, E)
      PROVE  Safe(row', chain, H2, E)
  BY <1>2, <1>4, <1>5, <1>7, ProcessedIsSafe
<1>8. CASE rest # <<>>
  <2> DEFINE x == [task[t] EXCEPT !.pending = rest, !.failed = failed]
  <2>1. task' = [task EXCEPT ![t] = x] /\ outbox' = outbox
    BY <1>8 DEF CalmType, failed
  <2>2. x \in Task /\ x.pc = "send" /\ x.pending = rest /\ x.failed = failed
    BY <1>1, <1>2, <1>3 DEF Task
  <2> HIDE DEF x
  <2>3. /\ InHands \subseteq InHands'
        /\ \A u \in Tasks \ {t} : task'[u] = task[u]
        /\ task'[t] = x
    BY <1>1, <1>8, <2>1, <2>2, OneTaskMoves
  <2>4. CalmType'
    BY <1>1, <1>5, <1>8, <2>1, <2>2, OneTaskMoves DEF CalmType
  <2>5. Safe(row', chain, InHands', WritesBack(task'[t]))
    BY <1>6, <2>2, <2>3 DEF WritesBack
  <2>6. ASSUME NEW u \in Tasks \ {t}, task'[u].pc = "send"
        PROVE  Safe(row', chain, InHands', WritesBack(task'[u]))
    BY <1>7, <2>3, <2>6 DEF CalmSafe
  <2>7. Safe(row', chain, InHands', Range(outbox'))
    BY <1>7, <2>1, <2>3 DEF CalmSafe
  <2> QED
    BY <1>1, <2>4, <2>5, <2>6, <2>7 DEF CalmSafe
<1>9. CASE rest = <<>>
  <2> DEFINE x == [Idle EXCEPT !.pc = "reconcile"]
  <2>1. task' = [task EXCEPT ![t] = x] /\ outbox' = failed
    BY <1>9 DEF failed
  <2>2. x \in Task /\ x.pc = "reconcile"
    BY EmptySeq DEF Idle, Task, Stages
  <2> HIDE DEF x
  <2>3. /\ InHands \subseteq InHands'
        /\ \A u \in Tasks \ {t} : task'[u] = task[u]
        /\ task'[t] = x
    BY <1>1, <2>1, <2>2, OneTaskMoves
  <2>4. CalmType'
    BY <1>1, <1>3, <1>5, <2>1, <2>2, OneTaskMoves DEF CalmType
  <2>5. Safe(row', chain, InHands', Range(outbox'))
    <3>1. DOMAIN <<>> = {}
      BY EmptySeq, LenProperties
    <3>2. Range(rest) = {}
      BY <1>9, <3>1 DEF Range
    <3> QED
      BY <1>6, <2>1, <2>3, <3>2
  <2>6. ASSUME NEW u \in Tasks, task'[u].pc = "send"
        PROVE  Safe(row', chain, InHands', WritesBack(task'[u]))
    BY <1>7, <2>2, <2>3, <2>6 DEF CalmSafe
  <2> QED
    BY <1>1, <2>4, <2>5, <2>6 DEF CalmSafe
<1> QED
  BY <1>8, <1>9

\* A refresh starts, reconciles, fetches and shows: the rows it touches show
\* the chain.
LEMMA RefreshKeepsInv ==
  ASSUME CalmType, CalmSafe, NEW t \in Tasks,
         RefreshStarts(t) \/ Reconcile(t) \/ FetchBounties(t) \/ ReplaceBounties(t)
  PROVE  CalmType' /\ CalmSafe'
<1>1. task[t] \in Task /\ row \in Histories /\ chain \in Histories
  BY DEF CalmType
<1>2. PICK x \in Task : task' = [task EXCEPT ![t] = x] /\ x.pc \notin {"sync", "send"}
  <2>1. CASE RefreshStarts(t)
    <3> DEFINE x == [task[t] EXCEPT !.pc = "flush"]
    <3>1. x \in Task /\ x.pc = "flush"
      BY <1>1 DEF Task, Stages
    <3>2. task' = [task EXCEPT ![t] = x]
      BY <2>1 DEF RefreshStarts, CalmType
    <3> QED
      BY <3>1, <3>2
  <2>2. CASE Reconcile(t)
    <3> DEFINE x == [task[t] EXCEPT !.pc = "fetch"]
    <3>1. x \in Task /\ x.pc = "fetch"
      BY <1>1 DEF Task, Stages
    <3>2. task' = [task EXCEPT ![t] = x]
      BY <2>2 DEF Reconcile, CalmType
    <3> QED
      BY <3>1, <3>2
  <2>3. Idle \in Task /\ Idle.pc = "idle"
    BY EmptySeq DEF Idle, Task, Stages
  <2>4. CASE FetchBounties(t)
    <3> DEFINE x == [Idle EXCEPT !.pc = "answer", !.rows = row]
    <3>1. x \in Task /\ x.pc = "answer"
      BY <1>1, <2>3 DEF Task, Stages
    <3>2. task' = [task EXCEPT ![t] = x] \/ task' = [task EXCEPT ![t] = Idle]
      BY <2>4 DEF FetchBounties
    <3> QED
      BY <2>3, <3>1, <3>2
  <2>5. CASE ReplaceBounties(t)
    BY <2>3, <2>5 DEF ReplaceBounties
  <2> QED
    BY <2>1, <2>2, <2>4, <2>5
<1>3. task[t].pc # "sync" /\ UNCHANGED <<chain, outbox>>
  BY DEF RefreshStarts, Reconcile, FetchBounties, ReplaceBounties
<1>4. /\ row' \in Histories
      /\ \A s \in Subjects : row'[s] = row[s] \/ row'[s] = chain[s]
  BY <1>1 DEF RefreshStarts, Reconcile, FetchBounties, ReplaceBounties, Histories
<1> QED
  BY <1>2, <1>3, <1>4, TaskOnlyKeepsInv

\* A page is closed with nothing in its hands, or the outbox is disturbed; what
\* its flush was sending is in the outbox still.
LEMMA PageReloadsKeepsInv ==
  ASSUME CalmType, CalmSafe, PageReloads, ~disturbed'
  PROVE  CalmType' /\ CalmSafe'
<1>1. /\ \A t \in Tasks : task[t].pc # "sync"
      /\ task' = [t \in Tasks |-> Idle]
      /\ UNCHANGED <<chain, row, outbox>>
  BY DEF PageReloads
<1>2. Idle \in Task /\ Idle.pc = "idle"
  BY EmptySeq DEF Idle, Task, Stages
<1>3. InHands = {} /\ InHands' = {}
  BY <1>1, <1>2 DEF InHands
<1>4. CalmType'
  BY <1>1, <1>2 DEF CalmType
<1>5. Safe(row', chain', InHands', Range(outbox'))
  BY <1>1, <1>3 DEF CalmSafe
<1> QED
  BY <1>1, <1>2, <1>4, <1>5 DEF CalmSafe

\* A confirmed change is mirrored, about to be, or waiting in the outbox, in
\* every interleaving of the user's operations and the flushes of any number of
\* pages and whatever the server answers, until the outbox is disturbed in one
\* of the four ways the model records.
THEOREM ChangesAreRetained == OutboxSpec => []RetainedUnlessDisturbed
<1>1. OutboxInit => OutboxInv
  <2> SUFFICES ASSUME OutboxInit PROVE CalmType /\ CalmSafe
    BY DEF OutboxInv
  <2>1. Idle \in Task /\ Idle.pc = "idle"
    BY EmptySeq DEF Idle, Task, Stages
  <2>2. CalmType
    BY <2>1, EmptySeq DEF OutboxInit, CalmType, Histories
  <2>3. CalmSafe
    BY <2>1 DEF OutboxInit, CalmSafe, Safe, Covered
  <2> QED
    BY <2>2, <2>3
<1>2. OutboxInv /\ [OutboxNext]_outboxVars => OutboxInv'
  <2> SUFFICES ASSUME OutboxInv, [OutboxNext]_outboxVars, ~disturbed'
               PROVE  CalmType' /\ CalmSafe'
    BY DEF OutboxInv
  <2>1. CASE ~disturbed
    <3>1. CalmType /\ CalmSafe
      BY <2>1 DEF OutboxInv
    <3>2. CASE UNCHANGED <<chain, row, outbox, task>>
      BY <3>1, <3>2 DEF CalmType, CalmSafe, InHands, Safe, Covered
    <3>3. ASSUME NEW t \in Tasks, TaskStep(t) \/ RefreshStarts(t)
                                    \/ \E s \in Subjects : Confirmed(t, s)
          PROVE  CalmType' /\ CalmSafe'
      BY <3>1, <3>3, FlushReadsKeepsInv, FlushSendsKeepsInv, SyncRecoverablyKeepsInv,
         RefreshKeepsInv, ConfirmedKeepsInv DEF TaskStep
    <3>4. CASE PageReloads
      BY <3>1, <3>4, PageReloadsKeepsInv
    <3>5. CASE MinutePasses \/ ServerChanges \/ UNCHANGED outboxVars
      BY <3>2, <3>5 DEF MinutePasses, ServerChanges, outboxVars
    <3>6. ~DayPasses
      BY DEF DayPasses
    <3> QED
      BY <3>3, <3>4, <3>5, <3>6 DEF OutboxNext
  <2>2. CASE disturbed
    BY <2>2 DEF OutboxNext, TaskStep, FlushReads, FlushSends, SyncRecoverably, Reconcile,
                FetchBounties, ReplaceBounties, RefreshStarts, Confirmed, MinutePasses,
                DayPasses, PageReloads, ServerChanges, QueuePendingSync, outboxVars
  <2> QED
    BY <2>1, <2>2
<1>3. OutboxInv => RetainedUnlessDisturbed
  <2> SUFFICES ASSUME CalmType, CalmSafe, NEW s \in Subjects
               PROVE  Retained(s)
    BY DEF OutboxInv, RetainedUnlessDisturbed
  <2>1. Covered(row, chain, InHands, Range(outbox), s)
    BY DEF CalmSafe, Safe
  <2>2. row[s] \in Nat
    BY DEF CalmType, Histories
  <2> QED
    BY <2>1, <2>2 DEF Covered, Retained, InHand, InHands, Queued, Range
<1> QED
  BY <1>1, <1>2, <1>3, PTL DEF OutboxSpec

-----------------------------------------------------------------------------
(* The transactions the app builds.  Each instruction is compared with     *)
(* what the program demands of it, for any parties; then those of one      *)
(* transaction are put together.                                           *)

ClientSpec == ClientInit /\ [][ClientNext]_clientVars

ArgumentTypes == {"u8", "bool", "u64", "i64", "hash", "key", "string"}

Pays(ix) ==
  /\ MintAccount \in {m.at : m \in Range(ix.accounts)}
  /\ ix.name \notin {"create_ata", "create_bounty", "create_bounty_v2",
                     "create_bounty_sponsored"}

\* The program's demands are met to the letter.
Exact(ix, w, f) ==
  /\ ix.accounts = Demands(w, f)[IF ix.name = "create_bounty_v2" THEN "create_bounty"
                                 ELSE ix.name]
  /\ ix.data # <<>> => <<ix.name, ix.data>> \in Arguments
  /\ ix.data = <<>> => \A a \in Arguments : a[1] # ix.name

\* An instruction of n accounts and d arguments that only the given wallets sign.
Shaped(ix, by, n, d) ==
  /\ DOMAIN ix.accounts = 1..n /\ Len(ix.accounts) = n
  /\ \A i \in 1..n : ix.accounts[i].signer => ix.accounts[i].at \in by
  /\ DOMAIN ix.data = 1..d
  /\ \A j \in 1..d : ix.data[j] \in ArgumentTypes

\* An owner's instructions bring what the program demands; the payments, if the
\* bounty's mint is the configured one.
LEMMA OwnersDemands ==
  ASSUME NEW w, NEW f, who.owner = w
  PROVE  /\ Exact(CreateBountyInstruction(w, who.arbiter, "create_bounty"), w, f)
         /\ Exact(CreateBountyInstruction(w, who.arbiter, "create_bounty_v2"), w, f)
         /\ Exact(CreateBountySponsoredInstruction(w, who.arbiter), w, f)
         /\ who.mint = Mint => Exact(FundBountyInstruction(w), w, f)
         /\ who.mint = Mint => Exact(FundBountySponsoredInstruction(w), w, f)
         /\ who.mint = Mint => Exact(AcceptClaimOnChain(w, f), w, f)
         /\ who.mint = Mint => Exact(AcceptClaimV2OnChain(w, f), w, f)
         /\ Exact(RejectClaimOnChain(w), w, f)
         /\ Exact(RejectClaimV2OnChain(w, f), w, f)
         /\ who.mint = Mint => Exact(RefundAfterExpiryOnChain(w), w, f)
         /\ Exact(CancelBountyOnChain(w), w, f)
         /\ Exact(ConfigureArbitrationPanelOnChain(w), w, f)
<1> USE DEF Exact, Demands, Arguments, Ix, Listing, ReviewV1, ReviewV2, MintAccount
<1>1. Exact(CreateBountyInstruction(w, who.arbiter, "create_bounty"), w, f)
  BY DEF CreateBountyInstruction
<1>2. Exact(CreateBountyInstruction(w, who.arbiter, "create_bounty_v2"), w, f)
  BY DEF CreateBountyInstruction
<1>3. Exact(CreateBountySponsoredInstruction(w, who.arbiter), w, f)
  BY DEF CreateBountySponsoredInstruction
<1>4. who.mint = Mint => Exact(FundBountyInstruction(w), w, f)
  BY DEF FundBountyInstruction
<1>5. who.mint = Mint => Exact(FundBountySponsoredInstruction(w), w, f)
  BY DEF FundBountySponsoredInstruction
<1>6. who.mint = Mint => Exact(AcceptClaimOnChain(w, f), w, f)
  BY DEF AcceptClaimOnChain
<1>7. who.mint = Mint => Exact(AcceptClaimV2OnChain(w, f), w, f)
  BY DEF AcceptClaimV2OnChain
<1>8. Exact(RejectClaimOnChain(w), w, f)
  BY DEF RejectClaimOnChain
<1>9. Exact(RejectClaimV2OnChain(w, f), w, f)
  BY DEF RejectClaimV2OnChain
<1>10. who.mint = Mint => Exact(RefundAfterExpiryOnChain(w), w, f)
  BY DEF RefundAfterExpiryOnChain
<1>11. Exact(CancelBountyOnChain(w), w, f)
  BY DEF CancelBountyOnChain
<1>12. Exact(ConfigureArbitrationPanelOnChain(w), w, f)
  BY DEF ConfigureArbitrationPanelOnChain
<1> QED
  BY ONLY <1>1, <1>2, <1>3, <1>4, <1>5, <1>6, <1>7, <1>8, <1>9, <1>10, <1>11,
          <1>12

\* So do an arbiter's,
LEMMA ArbitersDemands ==
  ASSUME NEW w, NEW f, who.arbiter = w
  PROVE  /\ Exact(RecordAiReviewOnChain(w), w, f)
         /\ Exact(RecordAiReviewV2OnChain(w, f), w, f)
         /\ who.mint = Mint => Exact(ResolveDisputeOnChain(w, f), w, f)
         /\ who.mint = Mint => Exact(ResolveDisputeV2OnChain(w, f), w, f)
<1> USE DEF Exact, Demands, Arguments, Ix, Listing, ReviewV1, ReviewV2, MintAccount
<1>1. Exact(RecordAiReviewOnChain(w), w, f)
  BY DEF RecordAiReviewOnChain
<1>2. Exact(RecordAiReviewV2OnChain(w, f), w, f)
  BY DEF RecordAiReviewV2OnChain
<1>3. who.mint = Mint => Exact(ResolveDisputeOnChain(w, f), w, f)
  BY DEF ResolveDisputeOnChain
<1>4. who.mint = Mint => Exact(ResolveDisputeV2OnChain(w, f), w, f)
  BY DEF ResolveDisputeV2OnChain
<1> QED
  BY ONLY <1>1, <1>2, <1>3, <1>4

\* and those of anybody, finders included.
LEMMA AnybodysDemands ==
  ASSUME NEW w, NEW f
  PROVE  /\ Exact(SubmitClaimOnChain(w), w, f)
         /\ Exact(SubmitClaimV2Instruction(w), w, f)
         /\ Exact(SubmitClaimV2SponsoredInstruction(w), w, f)
         /\ Exact(FinalizeRejectionV2OnChain(w, f), w, f)
         /\ Exact(TimeoutDisputeV2OnChain(w, f), w, f)
         /\ Exact(FinalizeDisputeRejectOnChain(w, f), w, f)
         /\ who.mint = Mint => Exact(FinalizeDisputeReleaseOnChain(w, f), w, f)
         /\ Exact(CastArbitrationVoteOnChain(w, f), w, f)
         /\ Exact(OpenDisputeOnChain(w), w, f)
         /\ Exact(OpenDisputeV2OnChain(w, f), w, f)
         /\ Exact(OpenDisputeV3OnChain(w, f), w, f)
         /\ Exact(AttestSettlementInstruction(w, who.owner, f), w, f)
<1> USE DEF Exact, Demands, Arguments, Ix, Listing, ReviewV1, ReviewV2, MintAccount
<1>1. Exact(SubmitClaimOnChain(w), w, f)
  BY DEF SubmitClaimOnChain
<1>2. Exact(SubmitClaimV2Instruction(w), w, f)
  BY DEF SubmitClaimV2Instruction
<1>3. Exact(SubmitClaimV2SponsoredInstruction(w), w, f)
  BY DEF SubmitClaimV2SponsoredInstruction
<1>4. Exact(FinalizeRejectionV2OnChain(w, f), w, f)
  BY DEF FinalizeRejectionV2OnChain
<1>5. Exact(TimeoutDisputeV2OnChain(w, f), w, f)
  BY DEF TimeoutDisputeV2OnChain
<1>6. Exact(FinalizeDisputeRejectOnChain(w, f), w, f)
  BY DEF FinalizeDisputeRejectOnChain
<1>7. who.mint = Mint => Exact(FinalizeDisputeReleaseOnChain(w, f), w, f)
  BY DEF FinalizeDisputeReleaseOnChain
<1>8. Exact(CastArbitrationVoteOnChain(w, f), w, f)
  BY DEF CastArbitrationVoteOnChain
<1>9. Exact(OpenDisputeOnChain(w), w, f)
  BY DEF OpenDisputeOnChain
<1>10. Exact(OpenDisputeV2OnChain(w, f), w, f)
  BY DEF OpenDisputeV2OnChain
<1>11. Exact(OpenDisputeV3OnChain(w, f), w, f)
  BY DEF OpenDisputeV3OnChain
<1>12. Exact(AttestSettlementInstruction(w, who.owner, f), w, f)
  BY DEF AttestSettlementInstruction
<1> QED
  BY ONLY <1>1, <1>2, <1>3, <1>4, <1>5, <1>6, <1>7, <1>8, <1>9, <1>10, <1>11,
          <1>12

\* The payments are what AccountsMatchProgram excepts under another mint.
LEMMA PaymentsPay ==
  ASSUME NEW w, NEW f
  PROVE  /\ Pays(FundBountyInstruction(w))
         /\ Pays(FundBountySponsoredInstruction(w))
         /\ Pays(AcceptClaimOnChain(w, f))
         /\ Pays(AcceptClaimV2OnChain(w, f))
         /\ Pays(RefundAfterExpiryOnChain(w))
         /\ Pays(ResolveDisputeOnChain(w, f))
         /\ Pays(ResolveDisputeV2OnChain(w, f))
         /\ Pays(FinalizeDisputeReleaseOnChain(w, f))
BY DEF Pays, Ix, R, W, P, S, Range, FundBountyInstruction,
       FundBountySponsoredInstruction, AcceptClaimOnChain,
       AcceptClaimV2OnChain, RefundAfterExpiryOnChain, ResolveDisputeOnChain,
       ResolveDisputeV2OnChain, FinalizeDisputeReleaseOnChain

\* Who signs, how many accounts and how many arguments there are.
LEMMA Shapes ==
  ASSUME NEW w, NEW f
  PROVE  /\ Shaped(CreateBountyInstruction(w, who.arbiter, "create_bounty"), {Of(w)}, 6, 4)
         /\ Shaped(CreateBountyInstruction(w, who.arbiter, "create_bounty_v2"), {Of(w)}, 6, 4)
         /\ Shaped(FundBountyInstruction(w), {Of(w)}, 9, 1)
         /\ Shaped(AcceptClaimOnChain(w, f), {Of(w)}, 10, 0)
         /\ Shaped(AcceptClaimV2OnChain(w, f), {Of(w)}, 11, 0)
         /\ Shaped(RejectClaimOnChain(w), {Of(w)}, 2, 0)
         /\ Shaped(RejectClaimV2OnChain(w, f), {Of(w)}, 3, 0)
         /\ Shaped(RefundAfterExpiryOnChain(w), {Of(w)}, 7, 0)
         /\ Shaped(CancelBountyOnChain(w), {Of(w)}, 2, 0)
         /\ Shaped(ConfigureArbitrationPanelOnChain(w), {Of(w)}, 4, 4)
         /\ Shaped(RecordAiReviewOnChain(w), {Of(w)}, 2, 4)
         /\ Shaped(RecordAiReviewV2OnChain(w, f), {Of(w)}, 3, 6)
         /\ Shaped(ResolveDisputeOnChain(w, f), {Of(w)}, 8, 1)
         /\ Shaped(ResolveDisputeV2OnChain(w, f), {Of(w)}, 9, 1)
         /\ Shaped(SubmitClaimOnChain(w), {Of(w)}, 2, 1)
         /\ Shaped(SubmitClaimV2Instruction(w), {Of(w)}, 4, 1)
         /\ Shaped(FinalizeRejectionV2OnChain(w, f), {Of(w)}, 3, 0)
         /\ Shaped(TimeoutDisputeV2OnChain(w, f), {Of(w)}, 3, 0)
         /\ Shaped(FinalizeDisputeRejectOnChain(w, f), {Of(w)}, 5, 0)
         /\ Shaped(FinalizeDisputeReleaseOnChain(w, f), {Of(w)}, 13, 0)
         /\ Shaped(CastArbitrationVoteOnChain(w, f), {Of(w)}, 6, 1)
         /\ Shaped(OpenDisputeOnChain(w), {Of(w)}, 2, 0)
         /\ Shaped(OpenDisputeV2OnChain(w, f), {Of(w)}, 3, 0)
         /\ Shaped(OpenDisputeV3OnChain(w, f), {Of(w)}, 6, 0)
         /\ Shaped(AttestSettlementInstruction(w, who.owner, f), {Of(w)}, 9, 0)
         /\ \A p : Shaped(CreateAtaIx(w, p), {Of(w)}, 6, 1)
<1> USE DEF Shaped, Ix, R, W, P, S, ArgumentTypes, Listing, ReviewV1, ReviewV2
<1> QED
  BY DEF CreateBountyInstruction, FundBountyInstruction, AcceptClaimOnChain,
         AcceptClaimV2OnChain, RejectClaimOnChain, RejectClaimV2OnChain,
         RefundAfterExpiryOnChain, CancelBountyOnChain,
         ConfigureArbitrationPanelOnChain, RecordAiReviewOnChain,
         RecordAiReviewV2OnChain, ResolveDisputeOnChain,
         ResolveDisputeV2OnChain, SubmitClaimOnChain, SubmitClaimV2Instruction,
         FinalizeRejectionV2OnChain, TimeoutDisputeV2OnChain,
         FinalizeDisputeRejectOnChain, FinalizeDisputeReleaseOnChain,
         CastArbitrationVoteOnChain, OpenDisputeOnChain, OpenDisputeV2OnChain,
         OpenDisputeV3OnChain, AttestSettlementInstruction, CreateAtaIx

\* What the sponsor pays for is signed by the wallet it is built for, too.
LEMMA SponsoredShapes ==
  ASSUME NEW w
  PROVE  /\ Shaped(CreateBountySponsoredInstruction(w, who.arbiter), {Of(w), Of(Sponsor)}, 7, 4)
         /\ Shaped(FundBountySponsoredInstruction(w), {Of(w), Of(Sponsor)}, 10, 1)
         /\ Shaped(SubmitClaimV2SponsoredInstruction(w), {Of(w), Of(Sponsor)}, 5, 1)
         /\ CreateBountySponsoredInstruction(w, who.arbiter).accounts[1] = S(Of(w))
         /\ FundBountySponsoredInstruction(w).accounts[1] = S(Of(w))
         /\ SubmitClaimV2SponsoredInstruction(w).accounts[1] = S(Of(w))
BY DEF Shaped, Ix, R, W, P, S, ArgumentTypes, Listing,
       CreateBountySponsoredInstruction, FundBountySponsoredInstruction,
       SubmitClaimV2SponsoredInstruction

-----------------------------------------------------------------------------
(* Messages.                                                               *)

Parties ==
  [owner : Signers, finder : Signers, arbiter : Signers, other : Signers,
   mint : Mints, idLength : IdLengths]

Addresses(ix) == {m.at : m \in Range(ix.accounts)}

\* n parts of at most c bytes each.
LEMMA PartsAddUp ==
  ASSUME NEW n \in Nat, NEW c \in Nat, NEW sizes, DOMAIN sizes = 1..n,
         \A i \in 1..n : sizes[i] \in 0..c
  PROVE  TotalSize(sizes) \in Nat /\ TotalSize(sizes) <= n * c
<1> DEFINE bytes == UNION {{i} \X (1..sizes[i]) : i \in 1..n}
<1>1. bytes \subseteq (1..n) \X (1..c)
  <2> SUFFICES ASSUME NEW i \in 1..n, NEW j \in 1..sizes[i]
               PROVE  <<i, j>> \in (1..n) \X (1..c)
    OBVIOUS
  <2>1. sizes[i] \in 0..c
    OBVIOUS
  <2> QED
    BY <2>1
<1>2. /\ IsFiniteSet(1..n) /\ Cardinality(1..n) = n
      /\ IsFiniteSet(1..c) /\ Cardinality(1..c) = c
  BY FS_Interval
<1>3. /\ IsFiniteSet((1..n) \X (1..c))
      /\ Cardinality((1..n) \X (1..c)) = n * c
  BY <1>2, FS_Product
<1>4. /\ IsFiniteSet(bytes)
      /\ Cardinality(bytes) <= Cardinality((1..n) \X (1..c))
  BY <1>1, <1>3, FS_Subset
<1>5. Cardinality(bytes) \in Nat
  BY <1>4, FS_CardinalityType
<1> QED
  BY <1>3, <1>4, <1>5 DEF TotalSize

\* No argument is longer than a string of a bounty's id.
LEMMA DataIsShort ==
  ASSUME who \in Parties, NEW ix, NEW by, NEW n, NEW d \in Nat, Shaped(ix, by, n, d)
  PROVE  DataSize(ix) \in 0..(8 + d * 36)
<1> DEFINE sizes == [j \in DOMAIN ix.data |-> SizeOf(ix.data[j])]
<1>1. who.idLength \in 1..32
  BY InstructionsAssumption DEF Parties
<1>2. \A type \in ArgumentTypes : SizeOf(type) \in 0..36
  BY <1>1 DEF ArgumentTypes, SizeOf
<1>3. DOMAIN sizes = 1..d /\ \A j \in 1..d : sizes[j] \in 0..36
  BY <1>2 DEF Shaped
<1>4. TotalSize(sizes) \in Nat /\ TotalSize(sizes) <= d * 36
  <2> HIDE DEF sizes
  <2> QED
    BY <1>3, PartsAddUp
<1>5. DataSize(ix) = (IF ix.name = "create_ata" THEN 0 ELSE 8) + TotalSize(sizes)
  BY DEF DataSize
<1> HIDE DEF sizes
<1> QED
  BY <1>4, <1>5

\* No more addresses than accounts.
LEMMA AddressesAreFew ==
  ASSUME NEW ix, NEW by, NEW n \in Nat, NEW d, Shaped(ix, by, n, d)
  PROVE  /\ IsFiniteSet(Addresses(ix))
         /\ Cardinality(Addresses(ix)) \in Nat
         /\ Cardinality(Addresses(ix)) <= n
<1> DEFINE at == [i \in 1..n |-> ix.accounts[i].at]
<1>1. at \in Surjection(1..n, Addresses(ix))
  BY DEF Shaped, Addresses, Range, Surjection
<1>2. IsFiniteSet(1..n) /\ Cardinality(1..n) = n
  BY FS_Interval
<1>3. /\ IsFiniteSet(Addresses(ix))
      /\ Cardinality(Addresses(ix)) <= n
  BY <1>1, <1>2, FS_Surjection
<1> QED
  BY <1>3, FS_CardinalityType

\* Addresses of two instructions: at most as many as both have.
LEMMA UnionIsNoMore ==
  ASSUME NEW A, NEW B, IsFiniteSet(A), IsFiniteSet(B)
  PROVE  /\ IsFiniteSet(A \cup B)
         /\ Cardinality(A \cup B) <= Cardinality(A) + Cardinality(B)
         /\ Cardinality(A) \in Nat /\ Cardinality(B) \in Nat
         /\ Cardinality(A \cup B) \in Nat
<1>1. /\ IsFiniteSet(A \cup B)
      /\ Cardinality(A \cup B) = Cardinality(A) + Cardinality(B) - Cardinality(A \cap B)
  BY FS_Union
<1>2. IsFiniteSet(A \cap B)
  BY FS_Subset
<1>3. /\ Cardinality(A) \in Nat /\ Cardinality(B) \in Nat
      /\ Cardinality(A \cap B) \in Nat
  BY <1>2, FS_CardinalityType
<1> QED
  BY <1>1, <1>3, FS_CardinalityType

\* Payer and programs.
LEMMA ThreeAtMost ==
  ASSUME NEW x, NEW y, NEW z
  PROVE  IsFiniteSet({x, y, z}) /\ Cardinality({x, y, z}) <= 3
<1>1. \A e : IsFiniteSet({e}) /\ Cardinality({e}) = 1
  BY FS_Singleton
<1>2. IsFiniteSet({x} \cup {y}) /\ Cardinality({x} \cup {y}) <= 2
  <2>1. /\ IsFiniteSet({x} \cup {y})
        /\ Cardinality({x} \cup {y}) <= Cardinality({x}) + Cardinality({y})
        /\ Cardinality({x} \cup {y}) \in Nat
    BY <1>1, UnionIsNoMore
  <2>2. Cardinality({x}) = 1 /\ Cardinality({y}) = 1
    BY <1>1
  <2> QED
    BY <2>1, <2>2
<1>3. /\ IsFiniteSet(({x} \cup {y}) \cup {z})
      /\ Cardinality(({x} \cup {y}) \cup {z}) <= 3
  <2>1. /\ IsFiniteSet(({x} \cup {y}) \cup {z})
        /\ Cardinality(({x} \cup {y}) \cup {z})
             <= Cardinality({x} \cup {y}) + Cardinality({z})
        /\ Cardinality({x} \cup {y}) \in Nat
        /\ Cardinality(({x} \cup {y}) \cup {z}) \in Nat
    BY <1>1, <1>2, UnionIsNoMore
  <2>2. Cardinality({z}) = 1
    BY <1>1
  <2> QED
    BY <1>2, <2>1, <2>2
<1>4. {x, y, z} = ({x} \cup {y}) \cup {z}
  OBVIOUS
<1> QED
  BY <1>3, <1>4

\* k instructions with n addresses beside the payer's, two signers and c bytes
\* for each instruction fit into a packet.
Small(k, n, c) ==
  k \in 1..3 /\ n \in Nat /\ c \in Nat /\ 262 + 32 * n + k * c <= 1232

Within(t, A, k, n, c) ==
  /\ DOMAIN t.ixs = 1..k
  /\ IsFiniteSet(A) /\ Cardinality(A) <= n
  /\ \A i \in 1..k :
       /\ Addresses(t.ixs[i]) \subseteq A
       /\ 3 + Len(t.ixs[i].accounts) + DataSize(t.ixs[i]) \in 0..c

\* A small message fits into a packet of 1232 bytes.
LEMMA MessageFits ==
  ASSUME NEW t, NEW A, NEW k, NEW n, NEW c, Within(t, A, k, n, c), Small(k, n, c),
         Cardinality(SignersOf(t)) \in 1..2
  PROVE  WireSize(t) <= 1232
<1> USE DEF Within, Small
<1> DEFINE keys  == {m.at : m \in Metas(t)} \cup Programs(t)
           most  == {Of(t.payer), AtaProgram, Program}
           sizes == [i \in DOMAIN t.ixs |->
                       3 + Len(t.ixs[i].accounts) + DataSize(t.ixs[i])]
<1>1. keys \subseteq A \cup most
  <2>1. \A m \in Metas(t) : m.at = Of(t.payer) \/ m.at \in A
    BY DEF Metas, Addresses, Range, P
  <2>2. Programs(t) \subseteq {AtaProgram, Program}
    BY DEF Programs
  <2> QED
    BY <2>1, <2>2
<1>2. IsFiniteSet(most) /\ Cardinality(most) <= 3
  BY ThreeAtMost
<1>3. IsFiniteSet(A \cup most) /\ Cardinality(A \cup most) <= n + 3
  <2> HIDE DEF most
  <2>1. /\ IsFiniteSet(A \cup most)
        /\ Cardinality(A \cup most) <= Cardinality(A) + Cardinality(most)
        /\ Cardinality(A) \in Nat /\ Cardinality(most) \in Nat
        /\ Cardinality(A \cup most) \in Nat
    BY <1>2, UnionIsNoMore
  <2> QED
    BY <1>2, <2>1
<1>4. Cardinality(keys) \in Nat /\ Cardinality(keys) <= n + 3
  <2> HIDE DEF keys, most
  <2>1. /\ IsFiniteSet(keys) /\ Cardinality(keys) <= Cardinality(A \cup most)
    BY <1>1, <1>3, FS_Subset
  <2>2. Cardinality(keys) \in Nat /\ Cardinality(A \cup most) \in Nat
    BY <1>3, <2>1, FS_CardinalityType
  <2> QED
    BY <1>3, <2>1, <2>2
<1>5. TotalSize(sizes) \in Nat /\ TotalSize(sizes) <= k * c
  <2>1. DOMAIN sizes = 1..k /\ \A i \in 1..k : sizes[i] \in 0..c
    OBVIOUS
  <2>2. k \in Nat
    OBVIOUS
  <2> HIDE DEF sizes
  <2> QED
    BY <2>1, <2>2, PartsAddUp, Zenon
<1>6. WireSize(t) = 1 + 64 * Cardinality(SignersOf(t)) + 4 + 32 * Cardinality(keys)
                      + 32 + 1 + TotalSize(sizes)
  BY DEF WireSize
<1> HIDE DEF keys, sizes
<1>7. k * c \in Nat
  OBVIOUS
<1> QED
  BY <1>4, <1>5, <1>6, <1>7

\* Privileges of an instruction's accounts are those of the message or less.
LEMMA ExactIsSatisfied ==
  ASSUME NEW t, NEW ix \in Range(t.ixs), NEW w, NEW f, NEW by, NEW n, NEW d,
         Exact(ix, w, f), Shaped(ix, by, n, d)
  PROVE  Satisfied(ix, w, f, Writable(t), SignersOf(t))
<1>1. \A i \in DOMAIN ix.accounts : ix.accounts[i] \in Metas(t)
  BY DEF Metas, Range
<1>2. \A i \in DOMAIN ix.accounts :
        /\ ix.accounts[i].writable => ix.accounts[i].at \in Writable(t)
        /\ ix.accounts[i].signer => ix.accounts[i].at \in SignersOf(t)
  BY <1>1 DEF Writable, SignersOf
<1> QED
  BY <1>2 DEF Exact, Satisfied

-----------------------------------------------------------------------------
(* Transactions.                                                           *)

Good(ix, w, f) ==
  \/ ix.name = "create_ata"
  \/ Exact(ix, w, f)
  \/ who.mint # Mint /\ Pays(ix)

\* A transaction that is sent, and accepted unless it pays from a bounty of
\* another mint.
Fine(t) ==
  /\ Sendable(t)
  /\ \/ \A ix \in Range(t.ixs) :
          \/ ix.name = "create_ata"
          \/ Satisfied(ix, t.by, t.f, Writable(t), SignersOf(t))
     \/ who.mint # Mint /\ MovesTokens(t)

\* A message of good instructions is fine once it can be sent.
LEMMA GoodIsFine ==
  ASSUME NEW t, Sendable(t),
         \A ix \in Range(t.ixs) :
           /\ Good(ix, t.by, t.f)
           /\ \E by, n, d : Shaped(ix, by, n, d)
  PROVE  Fine(t)
<1>1. CASE \E ix \in Range(t.ixs) : who.mint # Mint /\ Pays(ix)
  BY <1>1 DEF Fine, MovesTokens, Pays
<1>2. CASE \A ix \in Range(t.ixs) : ix.name = "create_ata" \/ Exact(ix, t.by, t.f)
  BY <1>2, ExactIsSatisfied DEF Fine
<1> QED
  BY <1>1, <1>2 DEF Good

\* Instructions that w signs alone, and that take no more than c bytes each.
AllGood(ixs, w, f, k, c) ==
  /\ DOMAIN ixs = 1..k
  /\ \A i \in 1..k :
       /\ Good(ixs[i], w, f)
       /\ \E m \in Nat, d \in Nat :
            Shaped(ixs[i], {Of(w)}, m, d) /\ 11 + m + 36 * d <= c

\* A wallet that pays for itself signs alone.
LEMMA SelfIsFine ==
  ASSUME who \in Parties, NEW w, NEW f, NEW ixs, NEW k, NEW n, NEW c, NEW A,
         AllGood(ixs, w, f, k, c), Small(k, n, c),
         IsFiniteSet(A), Cardinality(A) <= n, \A i \in 1..k : Addresses(ixs[i]) \subseteq A
  PROVE  Fine(Self(w, f, ixs))
<1> USE DEF AllGood
<1> DEFINE t == Self(w, f, ixs)
<1>1. t.ixs = ixs /\ t.by = w /\ t.payer = w /\ t.f = f
  BY DEF Self
<1> HIDE DEF t
<1>2. Range(t.ixs) = {ixs[i] : i \in 1..k}
  BY <1>1 DEF Range
<1>3. SignersOf(t) = {Of(w)}
  <2>1. Of(w) \in SignersOf(t)
    <3>1. P(Of(w)) \in Metas(t)
      BY <1>1 DEF Metas
    <3>2. P(Of(w)).signer /\ P(Of(w)).at = Of(w)
      BY DEF P
    <3> QED
      BY <3>1, <3>2 DEF SignersOf
  <2>2. ASSUME NEW m \in Metas(t), m.signer
        PROVE  m.at = Of(w)
    <3>1. CASE m = P(Of(t.payer))
      BY <1>1, <3>1 DEF P
    <3>2. ASSUME NEW i \in 1..k, m \in Range(ixs[i].accounts)
          PROVE  m.at = Of(w)
      BY <2>2, <3>2 DEF Shaped, Range
    <3> QED
      BY <1>2, <3>1, <3>2 DEF Metas
  <2> QED
    BY <2>1, <2>2 DEF SignersOf
<1>4. Cardinality(SignersOf(t)) = 1
  BY <1>3, FS_Singleton
<1>5. ASSUME NEW i \in 1..k
      PROVE  3 + Len(t.ixs[i].accounts) + DataSize(t.ixs[i]) \in 0..c
  <2>1. PICK m \in Nat, d \in Nat :
          Shaped(ixs[i], {Of(w)}, m, d) /\ 11 + m + 36 * d <= c
    BY <1>5
  <2>2. DataSize(ixs[i]) \in 0..(8 + d * 36) /\ Len(ixs[i].accounts) = m
    BY <2>1, DataIsShort DEF Shaped
  <2> QED
    BY <1>1, <2>1, <2>2 DEF Small
<1>6. WireSize(t) <= 1232
  <2>1. Within(t, A, k, n, c)
    BY <1>1, <1>5 DEF Within
  <2>2. Cardinality(SignersOf(t)) \in 1..2
    BY <1>4
  <2> QED
    BY <2>1, <2>2, MessageFits
<1>7. Sendable(t)
  BY <1>1, <1>4, <1>6 DEF Sendable
<1>8. \A ix \in Range(t.ixs) :
        Good(ix, t.by, t.f) /\ \E by, m, d : Shaped(ix, by, m, d)
  BY <1>1, <1>2
<1>9. Fine(t)
  BY <1>7, <1>8, GoodIsFine
<1> QED
  BY <1>9 DEF t

\* A message of one, of two and of three instructions of one wallet.
LEMMA OneIsFine ==
  ASSUME who \in Parties, NEW w, NEW f, NEW ix, NEW n \in Nat, NEW d \in Nat,
         Good(ix, w, f), Shaped(ix, {Of(w)}, n, d), Small(1, n, 11 + n + 36 * d)
  PROVE  Fine(Self(w, f, <<ix>>))
<1> DEFINE ixs == <<ix>>
<1>1. AllGood(ixs, w, f, 1, 11 + n + 36 * d)
  BY DEF AllGood
<1>2. IsFiniteSet(Addresses(ix)) /\ Cardinality(Addresses(ix)) <= n
  BY AddressesAreFew
<1>3. \A i \in 1..1 : Addresses(ixs[i]) \subseteq Addresses(ix)
  OBVIOUS
<1> HIDE DEF ixs
<1>4. Fine(Self(w, f, ixs))
  BY <1>1, <1>2, <1>3, SelfIsFine
<1> QED
  BY <1>4 DEF ixs

LEMMA TwoAreFine ==
  ASSUME who \in Parties, NEW w, NEW f, NEW ix1, NEW ix2,
         NEW n1 \in Nat, NEW n2 \in Nat, NEW d1 \in Nat, NEW d2 \in Nat, NEW c,
         Good(ix1, w, f), Shaped(ix1, {Of(w)}, n1, d1), 11 + n1 + 36 * d1 <= c,
         Good(ix2, w, f), Shaped(ix2, {Of(w)}, n2, d2), 11 + n2 + 36 * d2 <= c,
         Small(2, n1 + n2, c)
  PROVE  Fine(Self(w, f, <<ix1, ix2>>))
<1> DEFINE ixs == <<ix1, ix2>>
           A == Addresses(ix1) \cup Addresses(ix2)
<1>1. AllGood(ixs, w, f, 2, c)
  <2>1. \A i \in 1..2 : ixs[i] = ix1 \/ ixs[i] = ix2
    OBVIOUS
  <2>2. DOMAIN ixs = 1..2
    OBVIOUS
  <2> HIDE DEF ixs
  <2> QED
    BY <2>1, <2>2 DEF AllGood
<1>2. IsFiniteSet(A) /\ Cardinality(A) <= n1 + n2
  BY AddressesAreFew, UnionIsNoMore
<1>3. \A i \in 1..2 : Addresses(ixs[i]) \subseteq A
  OBVIOUS
<1> HIDE DEF ixs, A
<1>4. Fine(Self(w, f, ixs))
  BY <1>1, <1>2, <1>3, SelfIsFine
<1> QED
  BY <1>4 DEF ixs

LEMMA ThreeAreFine ==
  ASSUME who \in Parties, NEW w, NEW f, NEW ix1, NEW ix2, NEW ix3,
         NEW n1 \in Nat, NEW n2 \in Nat, NEW n3 \in Nat,
         NEW d1 \in Nat, NEW d2 \in Nat, NEW d3 \in Nat, NEW c,
         Good(ix1, w, f), Shaped(ix1, {Of(w)}, n1, d1), 11 + n1 + 36 * d1 <= c,
         Good(ix2, w, f), Shaped(ix2, {Of(w)}, n2, d2), 11 + n2 + 36 * d2 <= c,
         Good(ix3, w, f), Shaped(ix3, {Of(w)}, n3, d3), 11 + n3 + 36 * d3 <= c,
         Small(3, n1 + n2 + n3, c)
  PROVE  Fine(Self(w, f, <<ix1, ix2, ix3>>))
<1> DEFINE ixs == <<ix1, ix2, ix3>>
           B == Addresses(ix1) \cup Addresses(ix2)
           A == B \cup Addresses(ix3)
<1>1. AllGood(ixs, w, f, 3, c)
  <2>1. \A i \in 1..3 : ixs[i] = ix1 \/ ixs[i] = ix2 \/ ixs[i] = ix3
    OBVIOUS
  <2>2. DOMAIN ixs = 1..3
    OBVIOUS
  <2> HIDE DEF ixs
  <2> QED
    BY <2>1, <2>2 DEF AllGood
<1>2. IsFiniteSet(A) /\ Cardinality(A) <= n1 + n2 + n3
  <2>1. IsFiniteSet(B) /\ Cardinality(B) <= n1 + n2 /\ Cardinality(B) \in Nat
    BY AddressesAreFew, UnionIsNoMore
  <2>2. /\ IsFiniteSet(Addresses(ix3)) /\ Cardinality(Addresses(ix3)) <= n3
        /\ Cardinality(Addresses(ix3)) \in Nat
    BY AddressesAreFew
  <2> HIDE DEF B
  <2> QED
    BY <2>1, <2>2, UnionIsNoMore
<1>3. \A i \in 1..3 : Addresses(ixs[i]) \subseteq A
  OBVIOUS
<1> HIDE DEF ixs, A
<1>4. Fine(Self(w, f, ixs))
  BY <1>1, <1>2, <1>3, SelfIsFine
<1> QED
  BY <1>4 DEF ixs

\* The sponsor signs after the wallet it pays for.
LEMMA SponsoredIsFine ==
  ASSUME who \in Parties, NEW w \in Signers, NEW ix, NEW n \in Nat, NEW d \in Nat,
         Good(ix, w, w), Shaped(ix, {Of(w), Of(Sponsor)}, n, d), n >= 1,
         ix.accounts[1] = S(Of(w)), Small(1, n, 11 + n + 36 * d)
  PROVE  Fine(Sponsored(w, ix))
<1> DEFINE t == Sponsored(w, ix)
<1>1. /\ t.ixs = <<ix>> /\ t.by = w /\ t.payer = Sponsor /\ t.f = w
      /\ Range(t.ixs) = {ix} /\ DOMAIN t.ixs = 1..1 /\ t.ixs[1] = ix
  BY DEF Sponsored, Range
<1> HIDE DEF t
<1>2. SignersOf(t) = {Of(w), Of(Sponsor)}
  <2>1. P(Of(Sponsor)) \in Metas(t) /\ S(Of(w)) \in Metas(t)
    BY <1>1 DEF Metas, Shaped, Range
  <2>2. /\ P(Of(Sponsor)).signer /\ P(Of(Sponsor)).at = Of(Sponsor)
        /\ S(Of(w)).signer /\ S(Of(w)).at = Of(w)
    BY DEF P, S
  <2>3. ASSUME NEW m \in Metas(t), m.signer
        PROVE  m.at \in {Of(w), Of(Sponsor)}
    <3>1. CASE m = P(Of(Sponsor))
      BY <2>2, <3>1
    <3>2. CASE m \in Range(ix.accounts)
      BY <2>3, <3>2 DEF Shaped, Range
    <3> QED
      BY <1>1, <3>1, <3>2 DEF Metas
  <2> QED
    BY <2>1, <2>2, <2>3 DEF SignersOf
<1>3. Cardinality(SignersOf(t)) = 2
  <2>1. Of(w) # Of(Sponsor)
    BY InstructionsAssumption DEF Of, At
  <2>2. /\ IsFiniteSet({Of(w)}) /\ Cardinality({Of(w)}) = 1
    BY FS_Singleton
  <2>3. Cardinality({Of(w)} \cup {Of(Sponsor)}) = 2
    BY <2>1, <2>2, FS_AddElement
  <2> QED
    BY <1>2, <2>3
<1>4. WireSize(t) <= 1232
  <2>1. DataSize(ix) \in 0..(8 + d * 36) /\ Len(ix.accounts) = n
    BY DataIsShort DEF Shaped
  <2>2. IsFiniteSet(Addresses(ix)) /\ Cardinality(Addresses(ix)) <= n
    BY AddressesAreFew
  <2>3. Within(t, Addresses(ix), 1, n, 11 + n + 36 * d)
    BY <1>1, <2>1, <2>2 DEF Within
  <2> QED
    BY <1>3, <2>3, MessageFits
<1>5. Sendable(t)
  BY <1>1, <1>3, <1>4, InstructionsAssumption DEF Sendable
<1>6. Fine(t)
  BY <1>1, <1>5, GoodIsFine
<1> QED
  BY <1>6 DEF t

\* One instruction of at most thirteen accounts and six arguments is small.
Lone(ix, w, f) ==
  /\ Good(ix, w, f)
  /\ \E n \in 0..13, d \in 0..6 : Shaped(ix, {Of(w)}, n, d)

\* So its message is fine.
LEMMA LoneIsFine ==
  ASSUME who \in Parties, NEW w, NEW f, NEW ix, Lone(ix, w, f)
  PROVE  Fine(Self(w, f, <<ix>>))
<1>1. PICK n \in 0..13, d \in 0..6 : Shaped(ix, {Of(w)}, n, d)
  BY DEF Lone
<1>2. Small(1, n, 11 + n + 36 * d)
  BY DEF Small
<1>3. n \in Nat /\ d \in Nat
  OBVIOUS
<1>4. Good(ix, w, f)
  BY DEF Lone
<1> QED
  BY <1>1, <1>2, <1>3, <1>4, OneIsFine

\* What is built for an owner: creation with or without the funding, payments,
\* rejections, refund, panel; at the owner's expense or the sponsor's.
LEMMA OwnersAreFine ==
  ASSUME who \in Parties
  PROVE  \A t \in OwnerTxs : Fine(t)
<1> DEFINE w == who.owner
           f == who.finder
           create == CreateBountyInstruction(w, who.arbiter, "create_bounty")
           create2 == CreateBountyInstruction(w, who.arbiter, "create_bounty_v2")
           fund == FundBountyInstruction(w)
           accept == AcceptClaimV2OnChain(w, f)
           attest == AttestSettlementInstruction(w, w, f)
           lone == {create2, fund, AcceptClaimOnChain(w, f), RejectClaimOnChain(w),
                    RejectClaimV2OnChain(w, f), RefundAfterExpiryOnChain(w),
                    CancelBountyOnChain(w), ConfigureArbitrationPanelOnChain(w)}
           createPaid == CreateBountySponsoredInstruction(w, who.arbiter)
           fundPaid == FundBountySponsoredInstruction(w)
<1>1. /\ Good(create, w, f) /\ Good(create2, w, f) /\ Good(fund, w, f)
      /\ Good(accept, w, f) /\ Good(attest, w, f)
      /\ \A ix \in lone : Good(ix, w, f)
  BY OwnersDemands, AnybodysDemands, PaymentsPay DEF Good
<1>2. Good(createPaid, w, w) /\ Good(fundPaid, w, w)
  BY OwnersDemands, PaymentsPay DEF Good
<1>3. \A ix \in lone : Lone(ix, w, f)
  <2>1. \A ix \in lone : \E n \in 0..13, d \in 0..6 : Shaped(ix, {Of(w)}, n, d)
    BY Shapes
  <2> HIDE DEF lone
  <2> QED
    BY <1>1, <2>1 DEF Lone
<1>4. \A ix \in lone : Fine(Self(w, f, <<ix>>))
  <2> HIDE DEF lone
  <2> QED
    BY <1>3, LoneIsFine
<1>5. /\ Shaped(create, {Of(w)}, 6, 4) /\ Shaped(create2, {Of(w)}, 6, 4)
      /\ Shaped(fund, {Of(w)}, 9, 1) /\ Shaped(accept, {Of(w)}, 11, 0)
      /\ Shaped(attest, {Of(w)}, 9, 0)
  BY Shapes
<1>6. /\ Shaped(createPaid, {Of(w), Of(Sponsor)}, 7, 4)
      /\ Shaped(fundPaid, {Of(w), Of(Sponsor)}, 10, 1)
      /\ createPaid.accounts[1] = S(Of(w)) /\ fundPaid.accounts[1] = S(Of(w))
  BY SponsoredShapes
<1>7. w \in Signers
  BY DEF Parties
<1>8. /\ Small(2, 6 + 9, 161) /\ Small(2, 11 + 9, 22)
      /\ Small(1, 7, 11 + 7 + 36 * 4) /\ Small(1, 10, 11 + 10 + 36 * 1)
  BY DEF Small
<1>9. \A t \in OwnerTxs :
        \/ t \in {Self(w, f, <<create, fund>>), Self(w, f, <<create2, fund>>),
                  Self(w, f, <<accept, attest>>), Sponsored(w, createPaid),
                  Sponsored(w, fundPaid)}
        \/ \E ix \in lone : t = Self(w, f, <<ix>>)
  BY DEF OwnerTxs
<1> HIDE DEF w, f, create, create2, fund, accept, attest, lone, createPaid, fundPaid
<1>10. Fine(Self(w, f, <<create, fund>>)) /\ Fine(Self(w, f, <<create2, fund>>))
  <2>1. 11 + 6 + 36 * 4 <= 161 /\ 11 + 9 + 36 * 1 <= 161
    OBVIOUS
  <2> QED
    BY <1>1, <1>5, <1>8, <2>1, TwoAreFine
<1>11. Fine(Self(w, f, <<accept, attest>>))
  <2>1. 11 + 11 + 36 * 0 <= 22 /\ 11 + 9 + 36 * 0 <= 22
    OBVIOUS
  <2> QED
    BY <1>1, <1>5, <1>8, <2>1, TwoAreFine
<1>12. Fine(Sponsored(w, createPaid)) /\ Fine(Sponsored(w, fundPaid))
  BY <1>2, <1>6, <1>7, <1>8, SponsoredIsFine
<1> QED
  BY <1>4, <1>9, <1>10, <1>11, <1>12

\* What is built for a finder: claims of both protocols.
LEMMA FindersAreFine ==
  ASSUME who \in Parties
  PROVE  \A t \in FinderTxs : Fine(t)
<1> DEFINE w == who.finder
           lone == {SubmitClaimOnChain(w), SubmitClaimV2Instruction(w)}
           paid == SubmitClaimV2SponsoredInstruction(w)
<1>1. \A ix \in lone \cup {paid} : Good(ix, w, w)
  BY AnybodysDemands DEF Good
<1>2. \A ix \in lone : \E n \in 0..13, d \in 0..6 : Shaped(ix, {Of(w)}, n, d)
  BY Shapes
<1>3. Shaped(paid, {Of(w), Of(Sponsor)}, 5, 1) /\ paid.accounts[1] = S(Of(w))
  BY SponsoredShapes
<1>4. \A t \in FinderTxs :
        t = Sponsored(w, paid) \/ \E ix \in lone : t = Self(w, w, <<ix>>)
  BY DEF FinderTxs
<1>5. w \in Signers /\ Small(1, 5, 11 + 5 + 36 * 1)
  BY DEF Parties, Small
<1> HIDE DEF w, lone, paid
<1>6. \A ix \in lone : Fine(Self(w, w, <<ix>>))
  BY <1>1, <1>2, LoneIsFine DEF Lone
<1>7. Fine(Sponsored(w, paid))
  BY <1>1, <1>3, <1>5, SponsoredIsFine
<1> QED
  BY <1>4, <1>6, <1>7

\* What is built for an arbiter: reviews and the last word on a dispute.
LEMMA ArbitersAreFine ==
  ASSUME who \in Parties
  PROVE  \A t \in ArbiterTxs : Fine(t)
<1> DEFINE w == who.arbiter
           f == who.finder
           lone == {RecordAiReviewOnChain(w), RecordAiReviewV2OnChain(w, f)}
           tokens(p) == CreateAtaIx(w, p)
           resolve(p) == ResolveDisputeOnChain(w, p)
           resolve2 == ResolveDisputeV2OnChain(w, f)
           attest == AttestSettlementInstruction(w, who.owner, f)
<1>1. /\ \A ix \in lone : Good(ix, w, f)
      /\ \A p : Good(resolve(p), w, p)
      /\ Good(resolve2, w, f) /\ Good(attest, w, f)
  BY ArbitersDemands, AnybodysDemands, PaymentsPay DEF Good
<1>2. \A p, q : Good(tokens(p), w, q)
  BY DEF Good, CreateAtaIx, Ix
<1>3. \A ix \in lone : \E n \in 0..13, d \in 0..6 : Shaped(ix, {Of(w)}, n, d)
  BY Shapes
<1>4. /\ \A p : Shaped(tokens(p), {Of(w)}, 6, 1) /\ Shaped(resolve(p), {Of(w)}, 8, 1)
      /\ Shaped(resolve2, {Of(w)}, 9, 1) /\ Shaped(attest, {Of(w)}, 9, 0)
  BY Shapes
<1>5. \A t \in ArbiterTxs :
        \/ \E ix \in lone : t = Self(w, f, <<ix>>)
        \/ \E p \in {who.owner, f} : t = Self(w, p, <<tokens(p), resolve(p)>>)
        \/ t \in {Self(w, f, <<tokens(f), resolve2>>),
                  Self(w, f, <<tokens(f), resolve2, attest>>)}
  BY DEF ArbiterTxs
<1>6. Small(2, 6 + 8, 56) /\ Small(2, 6 + 9, 56) /\ Small(3, 6 + 9 + 9, 56)
  BY DEF Small
<1>7. /\ 11 + 6 + 36 * 1 <= 56 /\ 11 + 8 + 36 * 1 <= 56 /\ 11 + 9 + 36 * 1 <= 56
      /\ 11 + 9 + 36 * 0 <= 56
  OBVIOUS
<1> HIDE DEF w, f, lone, tokens, resolve, resolve2, attest
<1>8. \A ix \in lone : Fine(Self(w, f, <<ix>>))
  BY <1>1, <1>3, LoneIsFine DEF Lone
<1>9. ASSUME NEW p
      PROVE  Fine(Self(w, p, <<tokens(p), resolve(p)>>))
  BY <1>1, <1>2, <1>4, <1>6, <1>7, TwoAreFine
<1>10. Fine(Self(w, f, <<tokens(f), resolve2>>))
  BY <1>1, <1>2, <1>4, <1>6, <1>7, TwoAreFine
<1>11. Fine(Self(w, f, <<tokens(f), resolve2, attest>>))
  BY <1>1, <1>2, <1>4, <1>6, <1>7, ThreeAreFine
<1> QED
  BY <1>5, <1>8, <1>9, <1>10, <1>11

\* What is built for anybody: what may be called after a deadline, votes, and the
\* steps of a dispute.
LEMMA AnybodysAreFine ==
  ASSUME who \in Parties
  PROVE  \A t \in AnybodysTxs : Fine(t)
<1> DEFINE w == who.other
           f == who.finder
           lone == {FinalizeRejectionV2OnChain(w, f), TimeoutDisputeV2OnChain(w, f),
                    FinalizeDisputeRejectOnChain(w, f),
                    CastArbitrationVoteOnChain(w, f), OpenDisputeOnChain(w),
                    OpenDisputeV2OnChain(w, f), OpenDisputeV3OnChain(w, f)}
           release == FinalizeDisputeReleaseOnChain(w, f)
           attest == AttestSettlementInstruction(w, who.owner, f)
<1>1. /\ \A ix \in lone : Good(ix, w, f)
      /\ Good(release, w, f) /\ Good(attest, w, f)
  BY AnybodysDemands, PaymentsPay DEF Good
<1>2. \A ix \in lone : \E n \in 0..13, d \in 0..6 : Shaped(ix, {Of(w)}, n, d)
  BY Shapes
<1>3. Shaped(release, {Of(w)}, 13, 0) /\ Shaped(attest, {Of(w)}, 9, 0)
  BY Shapes
<1>4. \A t \in AnybodysTxs :
        \/ t = Self(w, f, <<release, attest>>)
        \/ \E ix \in lone : t = Self(w, f, <<ix>>)
  BY DEF AnybodysTxs
<1>5. Small(2, 13 + 9, 24) /\ 11 + 13 + 36 * 0 <= 24 /\ 11 + 9 + 36 * 0 <= 24
  BY DEF Small
<1> HIDE DEF w, f, lone, release, attest
<1>6. \A ix \in lone : Fine(Self(w, f, <<ix>>))
  BY <1>1, <1>2, LoneIsFine DEF Lone
<1>7. Fine(Self(w, f, <<release, attest>>))
  BY <1>1, <1>3, <1>5, TwoAreFine
<1> QED
  BY <1>4, <1>6, <1>7

\* The parties of a bounty never change, and whatever is built for them is
\* sent and, a payment from another mint aside, accepted.
Accepted == who \in Parties /\ AccountsMatchProgram

LEMMA SentIsAccepted ==
  ASSUME Accepted, [ClientNext]_clientVars
  PROVE  Accepted'
<1>1. CASE \E t \in OwnerTxs \cup FinderTxs \cup ArbiterTxs \cup AnybodysTxs : Send(t)
  <2>1. PICK t \in OwnerTxs \cup FinderTxs \cup ArbiterTxs \cup AnybodysTxs : Send(t)
    BY <1>1
  <2>2. Fine(t)
    BY OwnersAreFine, FindersAreFine, ArbitersAreFine, AnybodysAreFine DEF Accepted
  <2>3. who' = who /\ sent' = t
    BY <2>1 DEF Send
  <2>4. verdict' = "accepted" \/ (who.mint # Mint /\ MovesTokens(t))
    BY <2>1, <2>2 DEF Send, Fine
  <2> QED
    BY <2>3, <2>4 DEF Accepted, AccountsMatchProgram, Parties
<1>2. CASE Forget
  BY <1>2 DEF Forget, Accepted, AccountsMatchProgram, Parties
<1>3. CASE UNCHANGED clientVars
  BY <1>3 DEF clientVars, Accepted, AccountsMatchProgram, Parties, MovesTokens
<1> QED
  BY <1>1, <1>2, <1>3 DEF ClientNext

\* Every transaction the app builds, for whatever parties, coinciding or not,
\* and a bounty id of any length, carries the signatures it needs and no other,
\* fits into a packet, and brings each account the program demands at its place
\* and with its privileges; but for payments from a bounty of another mint.
THEOREM TransactionsAreAccepted == ClientSpec => []AccountsMatchProgram
<1>1. ClientInit => Accepted
  BY DEF ClientInit, Accepted, AccountsMatchProgram, Parties
<1>2. Accepted /\ [ClientNext]_clientVars => Accepted'
  BY SentIsAccepted
<1>3. Accepted => AccountsMatchProgram
  BY DEF Accepted
<1> QED
  BY <1>1, <1>2, <1>3, PTL DEF ClientSpec
=============================================================================
