---------------------------- MODULE ViewCounting ----------------------------
(***************************************************************************)
(* Views of one resource by one user: the detail page puts a message into  *)
(* a queue, a consumer counts it, once per user and day, and acknowledges  *)
(* it.  A failure that may pass puts a new message with a higher retry     *)
(* count into the queue and acknowledges the old one, two calls; the       *)
(* process may stop between any two steps, and the broker delivers again   *)
(* what was not acknowledged.                                              *)
(***************************************************************************)
EXTENDS Integers, FiniteSets, FiniteSetsExt

CONSTANTS Visit,         \* visits there can be
          LastDay,       \* bound: the days are 0 .. LastDay
          MaxViewTries,  \* MAX_VIEW_RETRIES
          ViewWorker,    \* messages consumed at the same time
          ViewStops      \* bound: stops of the process

ASSUME ViewAssumption == /\ LastDay \in Nat /\ ViewStops \in Nat
                         /\ MaxViewTries \in Nat \ {0}
                         /\ IsFiniteSet(ViewWorker)

VARIABLES
  visit,      \* the day of each visit; Never before
  queued,     \* messages of each visit and retry count, not delivered
  viewJob,    \* the message each consumer holds, and how far it is
  viewLog,    \* TInteractionViewLog: the day the user was last counted
  viewCount,  \* TInteractionStat.viewCount
  gone,       \* the resource does not exist any more
  today,
  failures,   \* history: failed attempts at each visit
  dropped,    \* history: why messages of a visit were given up
  stops       \* stops of the process so far

viewVars == <<visit, queued, viewJob, viewLog, viewCount, gone, today,
              failures, dropped, stops>>

Day == 0 .. LastDay
Never == -1
Tries == 0 .. MaxViewTries
NoViewJob == [op |-> "idle"]

ViewsTypeOK ==
  /\ visit \in [Visit -> Day \cup {Never}]
  /\ DOMAIN queued = Visit \X Tries
  /\ \A m \in Visit \X Tries : queued[m] \in Nat
  /\ DOMAIN viewJob = ViewWorker
  /\ viewLog \in Day \cup {Never}
  /\ viewCount \in Nat
  /\ gone \in BOOLEAN
  /\ today \in Day
  /\ failures \in [Visit -> Nat]
  /\ dropped \in [Visit -> SUBSET {"missing", "permanent", "exhausted", "unsent"}]
  /\ stops \in 0 .. ViewStops

ViewsInit ==
  /\ visit = [v \in Visit |-> Never]
  /\ queued = [m \in Visit \X Tries |-> 0]
  /\ viewJob = [w \in ViewWorker |-> NoViewJob]
  /\ viewLog = Never
  /\ viewCount = 0
  /\ gone = FALSE
  /\ today = 0
  /\ failures = [v \in Visit |-> 0]
  /\ dropped = [v \in Visit |-> {}]
  /\ stops = 0

-----------------------------------------------------------------------------

Puts(v, n) == queued' = [queued EXCEPT ![<<v, n>>] = @ + 1]
Becomes(w, job) == viewJob' = [viewJob EXCEPT ![w] = job]

\* interaction_status_detail, of a user who is logged in and a resource whose
\* views are posted: one of the RPA service, or a lottery while nobody answers
\* whether it is there.  A publish that fails leaves no message.
Visits(v, sent) ==
  /\ visit[v] = Never
  /\ visit' = [visit EXCEPT ![v] = today]
  /\ IF sent THEN Puts(v, 0) /\ UNCHANGED dropped
     ELSE /\ dropped' = [dropped EXCEPT ![v] = @ \cup {"unsent"}]
          /\ UNCHANGED queued
  /\ UNCHANGED <<viewJob, viewLog, viewCount, gone, today, failures, stops>>

Delivers(w, v, n) ==
  /\ viewJob[w] = NoViewJob
  /\ queued[<<v, n>>] > 0
  /\ queued' = [queued EXCEPT ![<<v, n>>] = @ - 1]
  /\ Becomes(w, [op |-> "held", v |-> v, n |-> n])
  /\ UNCHANGED <<visit, viewLog, viewCount, gone, today, failures, dropped, stops>>

GivesUp(w, v, why) ==
  /\ dropped' = [dropped EXCEPT ![v] = @ \cup {why}]
  /\ Becomes(w, NoViewJob)

\* check_exists_state: the resource is there, is not, or nobody can say.
ViewChecks(w, answer) ==
  LET j == viewJob[w]
  IN /\ j.op = "held"
     /\ answer # "unknown" => answer = IF gone THEN "no" ELSE "yes"
     /\ IF answer = "no" THEN GivesUp(w, j.v, "missing")
        ELSE Becomes(w, [j EXCEPT !.op = "checked"]) /\ UNCHANGED dropped
     /\ UNCHANGED <<visit, queued, viewLog, viewCount, gone, today, failures, stops>>

\* report_view, at its commit: a user counts once a day.
ReportView ==
  /\ viewCount' = viewCount + IF viewLog = today THEN 0 ELSE 1
  /\ viewLog' = today

ViewCommits(w) ==
  LET j == viewJob[w]
  IN /\ j.op = "checked"
     /\ ReportView
     /\ Becomes(w, [j EXCEPT !.op = "counted"])
     /\ UNCHANGED <<visit, queued, gone, today, failures, dropped, stops>>

\* is_retryable: an error of the message itself gives the message up.
ViewBreaks(w) ==
  /\ viewJob[w].op \in {"held", "checked"}
  /\ GivesUp(w, viewJob[w].v, "permanent")
  /\ UNCHANGED <<visit, queued, viewLog, viewCount, gone, today, failures, stops>>

\* Seeded bug: the message goes back with the count it came with.
SameRetries(n) == n

NextRetries(n) == n + 1
Exhausted(n) == n + 1 >= MaxViewTries

ViewFails(w) ==
  LET j == viewJob[w]
  IN /\ j.op \in {"held", "checked"}
     /\ failures' = [failures EXCEPT ![j.v] = @ + 1]
     /\ IF Exhausted(j.n) THEN GivesUp(w, j.v, "exhausted")
        ELSE Becomes(w, [j EXCEPT !.op = "failed"]) /\ UNCHANGED dropped
     /\ UNCHANGED <<visit, queued, viewLog, viewCount, gone, today, stops>>

\* republish_with_retry_count; False is acknowledged all the same.
Republishes(w, sent) ==
  LET j == viewJob[w]
  IN /\ j.op = "failed"
     /\ IF sent THEN Puts(j.v, NextRetries(j.n)) /\ UNCHANGED dropped
        ELSE /\ dropped' = [dropped EXCEPT ![j.v] = @ \cup {"unsent"}]
             /\ UNCHANGED queued
     /\ Becomes(w, [j EXCEPT !.op = "again"])
     /\ UNCHANGED <<visit, viewLog, viewCount, gone, today, failures, stops>>

Acks(w) ==
  /\ viewJob[w].op \in {"counted", "again"}
  /\ Becomes(w, NoViewJob)
  /\ UNCHANGED <<visit, queued, viewLog, viewCount, gone, today, failures, dropped, stops>>

\* Whatever was not acknowledged goes back into the queue as it was.
Held(v, n) == {w \in ViewWorker : /\ viewJob[w] # NoViewJob
                                  /\ viewJob[w].v = v /\ viewJob[w].n = n}
Stops ==
  /\ stops < ViewStops
  /\ stops' = stops + 1
  /\ queued' = [m \in Visit \X Tries |->
                  queued[m] + Cardinality(Held(m[1], m[2]))]
  /\ viewJob' = [w \in ViewWorker |-> NoViewJob]
  /\ UNCHANGED <<visit, viewLog, viewCount, gone, today, failures, dropped>>

NextDay == /\ today < LastDay
           /\ today' = today + 1
           /\ UNCHANGED <<visit, queued, viewJob, viewLog, viewCount, gone,
                          failures, dropped, stops>>

Vanishes == /\ ~gone
            /\ gone' = TRUE
            /\ UNCHANGED <<visit, queued, viewJob, viewLog, viewCount, today,
                           failures, dropped, stops>>

ViewsNext ==
  \/ \E v \in Visit :
       \/ \E sent \in BOOLEAN : Visits(v, sent)
       \/ \E w \in ViewWorker, n \in Tries : Delivers(w, v, n)
  \/ \E w \in ViewWorker :
       \/ \E answer \in {"yes", "no", "unknown"} : ViewChecks(w, answer)
       \/ ViewCommits(w) \/ ViewBreaks(w) \/ ViewFails(w)
       \/ \E sent \in BOOLEAN : Republishes(w, sent)
       \/ Acks(w)
  \/ Stops \/ NextDay \/ Vanishes

ViewsSpec == ViewsInit /\ [][ViewsNext]_viewVars

-----------------------------------------------------------------------------
(* Properties.                                                             *)

Messages(v) == MapThenSumSet(LAMBDA n : queued[<<v, n>>], Tries)
Came == {v \in Visit : visit[v] # Never}

\* A visit is counted, on its day or a later one, or a message of it is still
\* in the queue or in work, or it was given up for a reason: no order of
\* failures and stops loses it silently.
VisitsAccounted ==
  \A v \in Came : \/ viewLog >= visit[v]
                  \/ Messages(v) > 0 \/ \E n \in Tries : Held(v, n) # {}
                  \/ dropped[v] # {}

\* Without a stop a visit has one message, however often it fails, and fails
\* at most MaxViewTries times; a stop between the republishing and the
\* acknowledgement leaves one message more, each stop at most one per consumer.
TriesBounded ==
  /\ stops = 0 => \A v \in Visit : failures[v] <= MaxViewTries
  /\ \A v \in Visit : Messages(v) <= 1 + stops * Cardinality(ViewWorker)

\* The user counts once a day, whatever is delivered twice.
OncePerDay == viewCount <= today + 1

\* Views behind a queue that delivers at least once, with retries and stops
\* (handle_interaction_view, republish_with_retry_count).
ViewsHold == VisitsAccounted /\ TriesBounded /\ OncePerDay

=============================================================================
