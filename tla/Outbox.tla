------------------------------- MODULE Outbox -------------------------------
(***************************************************************************)
(* One browser and the mirror it keeps up to date (db.ts and the queueing  *)
(* half of FindBackProvider.tsx).  A transaction confirmed by the chain is *)
(* sent to the server; what cannot be sent goes to an outbox in the        *)
(* browser's localStorage, which every refresh of every open page flushes  *)
(* while it awaits the network.  Tasks are the asynchronous activities of  *)
(* the browser: operations of the user, polls and realtime refreshes.      *)
(*                                                                         *)
(* A subject is a listing or a claim.  Its history on chain is a counter   *)
(* of confirmed changes; row is how much of it the mirror shows, 0 while   *)
(* the subject has no row, and view what the page shows.  Handlers of the  *)
(* server are atomic here: ChainMirror looks inside them.  In a behaviour   *)
(* the browser is an owner's or a finder's: mine.                          *)
(***************************************************************************)
EXTENDS Integers, Sequences, FiniteSets, Functions

CONSTANTS
  Listings, Claims,  \* the subjects
  Tasks,             \* asynchronous activities the browser runs at a time
  Rooms,             \* how many entries an outbox may keep (20 in the code)
  Changes,           \* bound: confirmed changes of all subjects
  Reloads            \* bound: pages closed and opened again

VARIABLES mine, room, chain, row, view, up, outbox, task, due, reloads, disturbed

outboxVars ==
  <<mine, room, chain, row, view, up, outbox, task, due, reloads, disturbed>>

Subjects == Listings \cup Claims

\* The first entry of a subject carries its contents, the others its state.
Announces(s) == IF s \in Listings THEN "bounty" ELSE "claim"
PendingSync(kind, s) == [kind |-> kind, of |-> s, old |-> FALSE]
KeyOf(entry) == <<entry.kind, entry.of>>

Idle == [pc |-> "idle", entry |-> <<>>, pending |-> <<>>, failed |-> <<>>,
         rows |-> <<>>]

OutboxInit ==
  /\ mine \in {Listings, Claims}
  /\ room \in Rooms
  /\ chain = [s \in Subjects |-> 0]
  /\ row = chain
  /\ view = chain
  /\ up \in BOOLEAN
  /\ outbox = <<>>
  /\ task = [t \in Tasks |-> Idle]
  /\ due = TRUE
  /\ reloads = 0
  /\ disturbed = FALSE

-----------------------------------------------------------------------------
(* The server.                                                             *)

\* A state sync of a listing without a row updates no row and succeeds; of a
\* claim without a row it fails.  Contents are refused for a claim that has
\* moved on since its submission.
ServerAccepts(entry) ==
  CASE entry.kind = "bounty" -> TRUE
    [] entry.kind = "claim"  -> chain[entry.of] = 1
    [] entry.kind = "state"  -> entry.of \in Listings \/ row[entry.of] > 0

RowAfter(entry) ==
  IF entry.kind = "state" /\ row[entry.of] = 0 THEN 0 ELSE chain[entry.of]

\* The request is answered with success, or the client sees it fail, whether
\* or not the server processed it.
PostSync(entry, delivered) ==
  \/ /\ delivered
     /\ up /\ ServerAccepts(entry)
     /\ row' = [row EXCEPT ![entry.of] = RowAfter(entry)]
  \/ /\ ~delivered
     /\ ~up \/ ~ServerAccepts(entry)
     /\ \/ UNCHANGED row
        \/ ServerAccepts(entry) /\ row' = [row EXCEPT ![entry.of] = RowAfter(entry)]

-----------------------------------------------------------------------------
(* The outbox.                                                             *)

\* Array.filter: the elements at some of its places, in their order (SelectSeq
\* of the places, so that theorems can tell what it holds).
Filtered(seq, places) ==
  [n \in 1..Cardinality(places) |->
     seq[CHOOSE i \in places : Cardinality({j \in places : j <= i}) = n]]

\* Entries older than a day are read as if they were not there.
ReadPendingSyncs == Filtered(outbox, {i \in DOMAIN outbox : ~outbox[i].old})

OtherKeys(seq, entry) ==
  Filtered(seq, {i \in DOMAIN seq : KeyOf(seq[i]) # KeyOf(entry)})

\* A newer entry replaces the one with its key; the newest are kept.
QueuePendingSync(entry) ==
  LET all    == Append(OtherKeys(ReadPendingSyncs, entry), entry)
      full   == Len(all) > room
      racing == \E t \in Tasks : task[t].pc = "send"
  IN  /\ outbox' = IF full THEN Tail(all) ELSE all
      /\ disturbed' = (disturbed \/ full \/ racing)

FlushReads(t) ==
  /\ task[t].pc = "flush"
  /\ IF ReadPendingSyncs = <<>>
     THEN /\ outbox' = <<>>
          /\ task' = [task EXCEPT ![t].pc = "reconcile"]
     ELSE /\ task' = [task EXCEPT ![t].pc = "send",
                                  ![t].pending = ReadPendingSyncs]
          /\ UNCHANGED outbox
  /\ UNCHANGED <<mine, room, chain, row, view, up, due, reloads, disturbed>>

MutFlushForgetsFailed(t) ==
  /\ task[t].pc = "send"
  /\ \E delivered \in BOOLEAN : PostSync(Head(task[t].pending), delivered)
  /\ IF Len(task[t].pending) > 1
     THEN /\ task' = [task EXCEPT ![t].pending = Tail(@)]
          /\ UNCHANGED outbox
     ELSE /\ task' = [task EXCEPT ![t] = [Idle EXCEPT !.pc = "reconcile"]]
          /\ outbox' = <<>>
  /\ UNCHANGED <<mine, room, chain, view, up, due, reloads, disturbed>>

\* The outbox is written once, after the last answer.
FlushSends(t) ==
  /\ task[t].pc = "send"
  /\ \E delivered \in BOOLEAN :
       LET item   == Head(task[t].pending)
           rest   == Tail(task[t].pending)
           failed == task[t].failed \o (IF delivered THEN <<>> ELSE <<item>>)
       IN  /\ PostSync(item, delivered)
           /\ IF rest # <<>>
              THEN /\ task' = [task EXCEPT ![t].pending = rest,
                                           ![t].failed = failed]
                   /\ UNCHANGED outbox
              ELSE /\ task' = [task EXCEPT
                                 ![t] = [Idle EXCEPT !.pc = "reconcile"]]
                   /\ outbox' = failed
  /\ UNCHANGED <<mine, room, chain, view, up, due, reloads, disturbed>>

-----------------------------------------------------------------------------
(* The provider.                                                           *)

\* A transaction of this user is confirmed: a subject is created, or one that
\* the page shows moves on.  The provider goes on to sync it.
Confirmed(t, s) ==
  /\ task[t].pc = "idle"
  /\ s \in mine
  /\ FoldFunction(+, 0, chain) < Changes
  /\ chain[s] = 0 \/ view[s] > 0
  /\ chain' = [chain EXCEPT ![s] = @ + 1]
  /\ LET kind == IF chain[s] = 0 THEN Announces(s) ELSE "state"
     IN  task' = [task EXCEPT ![t].pc = "sync",
                              ![t].entry = PendingSync(kind, s)]
  /\ UNCHANGED <<mine, room, row, view, up, outbox, due, reloads, disturbed>>

\* Whatever the answer, the page shows the change and refreshes.
SyncRecoverably(t) ==
  /\ task[t].pc = "sync"
  /\ LET entry == task[t].entry
     IN  \/ /\ PostSync(entry, TRUE)
            /\ UNCHANGED <<outbox, disturbed>>
         \/ /\ PostSync(entry, FALSE)
            /\ QueuePendingSync(entry)
  /\ view' = [view EXCEPT ![task[t].entry.of] = chain[task[t].entry.of]]
  /\ task' = [task EXCEPT ![t] = [Idle EXCEPT !.pc = "flush"]]
  /\ UNCHANGED <<mine, room, chain, up, due, reloads>>

\* The interval of thirty seconds, or an event of the database.
RefreshStarts(t) ==
  /\ task[t].pc = "idle"
  /\ task' = [task EXCEPT ![t].pc = "flush"]
  /\ UNCHANGED <<mine, room, chain, row, view, up, outbox, due, reloads, disturbed>>

MutNeverReconciles(t) ==
  /\ task[t].pc = "reconcile"
  /\ due' = FALSE
  /\ task' = [task EXCEPT ![t].pc = "fetch"]
  /\ UNCHANGED <<mine, room, chain, row, view, up, outbox, reloads, disturbed>>

\* At most once a minute, the server rereads the chain for the user's rows.
Reconcile(t) ==
  /\ task[t].pc = "reconcile"
  /\ due' = FALSE
  /\ row' = IF due /\ up
            THEN [s \in Subjects |-> IF row[s] = 0 THEN 0 ELSE chain[s]]
            ELSE row
  /\ task' = [task EXCEPT ![t].pc = "fetch"]
  /\ UNCHANGED <<mine, room, chain, view, up, outbox, reloads, disturbed>>

FetchBounties(t) ==
  /\ task[t].pc = "fetch"
  /\ task' = [task EXCEPT ![t] = IF up THEN [Idle EXCEPT !.pc = "answer",
                                                         !.rows = row]
                                       ELSE Idle]
  /\ UNCHANGED <<mine, room, chain, row, view, up, outbox, due, reloads, disturbed>>

\* Answers may arrive in any order; the last one is shown.
ReplaceBounties(t) ==
  /\ task[t].pc = "answer"
  /\ view' = task[t].rows
  /\ task' = [task EXCEPT ![t] = Idle]
  /\ UNCHANGED <<mine, room, chain, row, up, outbox, due, reloads, disturbed>>

-----------------------------------------------------------------------------
(* The surroundings.                                                       *)

MinutePasses ==
  /\ due' = TRUE
  /\ UNCHANGED <<mine, room, chain, row, view, up, outbox, task, reloads, disturbed>>

Aged(seq) == [i \in DOMAIN seq |-> [seq[i] EXCEPT !.old = TRUE]]

DayPasses ==
  /\ ReadPendingSyncs # <<>>
  /\ outbox' = Aged(outbox)
  /\ task' = [t \in Tasks |-> [task[t] EXCEPT !.pending = Aged(@),
                                              !.failed = Aged(@)]]
  /\ disturbed' = TRUE
  /\ UNCHANGED <<mine, room, chain, row, view, up, due, reloads>>

\* What a closed page had in its hands is gone; localStorage is not.
PageReloads ==
  /\ reloads < Reloads
  /\ reloads' = reloads + 1
  /\ task' = [t \in Tasks |-> Idle]
  /\ view' = [s \in Subjects |-> 0]
  /\ due' = TRUE
  /\ disturbed' = (disturbed \/ \E t \in Tasks : task[t].pc = "sync")
  /\ UNCHANGED <<mine, room, chain, row, up, outbox>>

ServerChanges ==
  /\ up' = ~up
  /\ UNCHANGED <<mine, room, chain, row, view, outbox, task, due, reloads, disturbed>>

TaskStep(t) ==
  \/ FlushReads(t) \/ FlushSends(t) \/ SyncRecoverably(t)
  \/ Reconcile(t) \/ FetchBounties(t) \/ ReplaceBounties(t)

OutboxNext ==
  \/ \E t \in Tasks : \/ TaskStep(t)
                      \/ RefreshStarts(t)
                      \/ \E s \in Subjects : Confirmed(t, s)
  \/ MinutePasses \/ DayPasses \/ PageReloads \/ ServerChanges

-----------------------------------------------------------------------------
(* Properties.                                                             *)

\* A task has the change in its hands, or an entry waits that would deliver it.
InHand(s) == \E t \in Tasks : task[t].pc = "sync" /\ task[t].entry.of = s
Queued(s) ==
  \E i \in DOMAIN outbox :
    /\ outbox[i].of = s
    /\ outbox[i].kind = "state" => row[s] > 0
Retained(s) == row[s] = chain[s] \/ InHand(s) \/ Queued(s)

\* A confirmed change is mirrored, about to be, or waiting in the outbox, in
\* every interleaving of operations and flushes and whatever the server
\* answers, as long as none of four things happened: an entry was queued while
\* a flush was under way, the outbox was full, an entry grew older than a day,
\* a page was closed with a change in its hands.
RetainedUnlessDisturbed == ~disturbed => \A s \in Subjects : Retained(s)

\* Once the server stays up, the page ends with what the chain holds: for every
\* subject that has a row, whatever was lost before (the reconciliation heals
\* it), and if nothing was lost for those without one too, except a claim that
\* moved on before its contents arrived: they are refused from then on.
ViewConverges ==
  <>[]up => \A s \in Subjects :
    <>[](row[s] > 0 \/ (~disturbed /\ (s \in Claims => chain[s] <= 1)) =>
           view[s] = chain[s])
=============================================================================
