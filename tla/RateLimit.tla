------------------------------ MODULE RateLimit ------------------------------
(***************************************************************************)
(* The request limits of the API (src/lib/server/api-security.ts) for one  *)
(* key: a bucket in the memory of every server instance, and one row in    *)
(* Postgres that all instances share.  A handler uses the first gate only, *)
(* both, or both with the second skipped when the database fails.  The     *)
(* request waits between the gates; instances come and go.                 *)
(*                                                                         *)
(* A bucket holds its count and the ticks left until its resetAt; time is  *)
(* not bounded.  recent and recentLocal remember, tick by tick, what each  *)
(* gate let through during the last Window ticks.                          *)
(***************************************************************************)
EXTENDS Integers, Sequences, FiniteSets

CONSTANTS
  Instances,   \* server instances
  Limit,       \* requests per window
  Window,      \* length of a window
  Waiting      \* bound: requests of an instance between its gates

ASSUME RateLimitAssumption ==
  /\ Limit \in Nat \ {0} /\ Window \in Nat \ {0}
  /\ Waiting \in Nat

VARIABLES bucket, shared, between, recent, recentLocal

rateVars == <<bucket, shared, between, recent, recentLocal>>

NoBucket == [count |-> 0, left |-> 0]

RateInit ==
  /\ bucket = [i \in Instances |-> NoBucket]
  /\ shared = NoBucket
  /\ between = [i \in Instances |-> 0]
  /\ recent = [t \in 1..Window |-> 0]
  /\ recentLocal = [i \in Instances |-> recent]

Latest(history) == [history EXCEPT ![Window] = @ + 1]

-----------------------------------------------------------------------------
(* One window counter; both gates are one.                                 *)

\* An expired bucket starts anew: the window is not aligned with anything.
Expired(b) == b.left = 0
MutAdmits(b) == Expired(b) \/ b.count <= Limit
Admits(b) == Expired(b) \/ b.count < Limit
Consumed(b) == IF Expired(b) THEN [count |-> 1, left |-> Window]
                             ELSE [b EXCEPT !.count = @ + 1]

-----------------------------------------------------------------------------
(* The gates.                                                              *)

\* Runs without an await: one step.  The sweep of expired buckets changes
\* nothing a later request could tell.
EnforceRateLimit(i) ==
  /\ Admits(bucket[i])
  /\ bucket' = [bucket EXCEPT ![i] = Consumed(@)]
  /\ recentLocal' = [recentLocal EXCEPT ![i] = Latest(@)]

\* A handler that has no second gate: media view, tags, challenge, sync.
LocalOnly(i) ==
  /\ EnforceRateLimit(i)
  /\ UNCHANGED <<shared, between, recent>>

FirstGate(i) ==
  /\ between[i] < Waiting
  /\ EnforceRateLimit(i)
  /\ between' = [between EXCEPT ![i] = @ + 1]
  /\ UNCHANGED <<shared, recent>>

\* consume_api_rate_limit under the row's lock: one step.
SecondGate(i) ==
  /\ between[i] > 0
  /\ between' = [between EXCEPT ![i] = @ - 1]
  /\ \/ /\ Admits(shared)
        /\ shared' = Consumed(shared)
        /\ recent' = Latest(recent)
     \/ /\ ~Admits(shared)
        /\ UNCHANGED <<shared, recent>>
  /\ UNCHANGED <<bucket, recentLocal>>

\* The database fails: the layered gate serves, the strict one does not.
SecondGateFails(i) ==
  /\ between[i] > 0
  /\ between' = [between EXCEPT ![i] = @ - 1]
  /\ UNCHANGED <<bucket, shared, recent, recentLocal>>

\* An instance is recycled with its buckets and its requests.
InstanceRestarts(i) ==
  /\ bucket' = [bucket EXCEPT ![i] = NoBucket]
  /\ between' = [between EXCEPT ![i] = 0]
  /\ recentLocal' = [recentLocal EXCEPT ![i] = [t \in 1..Window |-> 0]]
  /\ UNCHANGED <<shared, recent>>

Sooner(b) == IF b.left <= 1 THEN NoBucket ELSE [b EXCEPT !.left = @ - 1]
Later(history) == Append(Tail(history), 0)

TimePasses ==
  /\ shared' = Sooner(shared)
  /\ bucket' = [i \in Instances |-> Sooner(bucket[i])]
  /\ recent' = Later(recent)
  /\ recentLocal' = [i \in Instances |-> Later(recentLocal[i])]
  /\ UNCHANGED between

RateNext ==
  \/ \E i \in Instances :
       \/ LocalOnly(i) \/ FirstGate(i) \/ SecondGate(i) \/ SecondGateFails(i)
       \/ InstanceRestarts(i)
  \/ TimePasses

-----------------------------------------------------------------------------
(* Properties.                                                             *)

\* The requests a history remembers of some of its ticks, numbered in each.
Requests(history, ticks) == UNION {{t} \X (1..history[t]) : t \in ticks}
LetThrough(history) == Cardinality(Requests(history, 1..Window))

\* Whatever instances come and go and however long requests wait between the
\* gates, during any period as long as a window the shared gate lets at most
\* two windows' worth of requests through, and so does the gate of one instance
\* while it lives: all that remains of the limit when the database fails.
BurstsAreBounded ==
  /\ LetThrough(recent) <= 2 * Limit
  /\ \A i \in Instances : LetThrough(recentLocal[i]) <= 2 * Limit
=============================================================================
