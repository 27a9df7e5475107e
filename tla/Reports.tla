------------------------------ MODULE Reports ------------------------------
(***************************************************************************)
(* Reports of a moment, a comment, a user or a resource of another service *)
(* and their review.  A report is filed once per reporter and thing; one   *)
(* that reaches the threshold is flagged and nothing else.  A review finds *)
(* the report by its key in the tables, one after the other, judges it,    *)
(* tells the reporter and may hide the thing: four calls, each with its    *)
(* own commit.                                                             *)
(***************************************************************************)
EXTENDS Integers, FiniteSets

CONSTANTS Reporter, Thing,
          Threshold,        \* report_threshold
          ReportWorker,     \* requests served at the same time
          ReportRequests    \* bound: the requests of a behaviour

ASSUME ReportAssumption == Threshold \in Nat \ {0} /\ ReportRequests \in Nat

VARIABLES
  kindOf,      \* what each thing is
  oneCount,    \* whether the tables number their rows together
  report,      \* the status of the report of each reporter on each thing
  key,         \* its key
  shown,       \* of each thing: shown, hidden or gone
  remote,      \* the things their own service was told to hide
  flagged,     \* history: the things whose threshold a reporter was told of
  asked,       \* history: the decisions asked for each report
  heard,       \* history: the decisions its reporter was told
  ordered,     \* history: the things an administrator ordered hidden
  mishaps,     \* history: the known ways to go wrong that were met
  reportJob, reportsAsked

reportVars == <<kindOf, oneCount, report, key, shown, remote, flagged, asked,
                heard, ordered, mishaps, reportJob, reportsAsked>>

Kind == {"comment", "moment", "rpa", "lottery", "user"}
Report == Thing \X Reporter
ReportStatus == {"none", "pending", "resolved", "rejected"}
Decision == {"resolved", "rejected"}

\* stray: the review judged another report than the one asked for.  cut: the
\* request ended before its last call.  overlap: two decisions on a report.
Mishap == [kind : {"stray", "overlap"}, of : Report]
            \cup [kind : {"cut"}, of : Thing]

NoReportJob == [op |-> "idle"]

\* The reports in the tables; a key is at most their number.
Rows == {r \in Report : report[r] # "none"}

ReportsTypeOK ==
  /\ kindOf \in [Thing -> Kind] /\ oneCount \in BOOLEAN
  /\ report \in [Report -> ReportStatus]
  /\ key \in [Report -> Nat] /\ \A r \in Rows : key[r] <= Cardinality(Rows)
  /\ shown \in [Thing -> {"shown", "hidden", "gone"}]
  /\ remote \subseteq Thing /\ flagged \subseteq Thing /\ ordered \subseteq Thing
  /\ asked \in [Report -> SUBSET Decision] /\ heard \in [Report -> SUBSET Decision]
  /\ mishaps \subseteq Mishap
  /\ DOMAIN reportJob = ReportWorker /\ reportsAsked \in 0 .. ReportRequests

ReportsInit ==
  /\ kindOf \in [Thing -> Kind] /\ oneCount \in BOOLEAN
  /\ report = [r \in Report |-> "none"] /\ key = [r \in Report |-> 0]
  /\ shown = [t \in Thing |-> "shown"]
  /\ remote = {} /\ flagged = {} /\ ordered = {} /\ mishaps = {}
  /\ asked = [r \in Report |-> {}] /\ heard = [r \in Report |-> {}]
  /\ reportJob = [w \in ReportWorker |-> NoReportJob] /\ reportsAsked = 0

-----------------------------------------------------------------------------
(* The tables, in the order _distinct_models walks them.                   *)

Rank(kind) == CASE kind = "comment" -> 1
                [] kind \in {"moment", "rpa", "lottery"} -> 2
                [] kind = "user" -> 3
TableOf(r) == Rank(kindOf[r[1]])

NextKey(r) ==
  1 + Cardinality({x \in Rows : oneCount \/ TableOf(x) = TableOf(r)})

\* The row with key k in the first table that has one.
FirstWith(k) ==
  CHOOSE x \in Rows : /\ key[x] = k
                      /\ \A y \in Rows : key[y] = k => TableOf(x) <= TableOf(y)

Received(w, job) ==
  /\ reportJob[w] = NoReportJob
  /\ reportsAsked < ReportRequests /\ reportsAsked' = reportsAsked + 1
  /\ reportJob' = [reportJob EXCEPT ![w] = job]
  /\ UNCHANGED <<kindOf, oneCount>>
Goes(w, job) ==
  /\ reportJob' = [reportJob EXCEPT ![w] = job]
  /\ UNCHANGED <<kindOf, oneCount, reportsAsked>>
Happens(kind, S) ==
  mishaps' = mishaps \cup {[kind |-> kind, of |-> x] : x \in S}

-----------------------------------------------------------------------------
(* ReportService.report                                                    *)

\* A moment that is gone, or a report made before, is refused.
ReportArrives(w, r) ==
  /\ kindOf[r[1]] \in {"moment", "comment", "user"} => shown[r[1]] # "gone"
  /\ report[r] = "none"
  /\ Received(w, [op |-> "file", r |-> r])
  /\ UNCHANGED <<report, key, shown, remote, flagged, asked, heard, ordered, mishaps>>

\* The unique constraint lets one of two equal reports in.
FiledIn(w) ==
  LET r == reportJob[w].r
  IN /\ reportJob[w].op = "file"
     /\ IF report[r] = "none"
        THEN /\ report' = [report EXCEPT ![r] = "pending"]
             /\ key' = [key EXCEPT ![r] = NextKey(r)]
             /\ Goes(w, [op |-> "count", t |-> r[1]])
        ELSE UNCHANGED <<report, key>> /\ Goes(w, NoReportJob)
     /\ UNCHANGED <<shown, remote, flagged, asked, heard, ordered, mishaps>>

Reports(t) == {r \in Rows : r[1] = t}

\* Seeded bug: the threshold has to be exceeded.
Exceeded(n) == n > Threshold

Reached(n) == n >= Threshold

\* _linkage: the answer tells whether the threshold is reached.
Counted(w) ==
  LET t == reportJob[w].t
  IN /\ reportJob[w].op = "count"
     /\ flagged' = IF Reached(Cardinality(Reports(t))) THEN flagged \cup {t}
                   ELSE flagged
     /\ Goes(w, NoReportJob)
     /\ UNCHANGED <<report, key, shown, remote, asked, heard, ordered, mishaps>>

-----------------------------------------------------------------------------
(* ReportService.review, BaseBiz.report_reject and report_resolved         *)

ReviewArrives(w, r, decision, hide) ==
  /\ r \in Rows
  /\ hide => decision = "resolved"
  /\ Received(w, [op |-> "judge", r |-> FirstWith(key[r]),
                  decision |-> decision, hide |-> hide])
  /\ asked' = [asked EXCEPT ![r] = @ \cup {decision}]
  /\ ordered' = IF hide THEN ordered \cup {r[1]} ELSE ordered
  /\ Happens("stray", IF FirstWith(key[r]) = r THEN {} ELSE {r, FirstWith(key[r])})
  /\ UNCHANGED <<report, key, shown, remote, flagged, heard>>

\* A report judged before is judged again.
Judges(w) ==
  LET j == reportJob[w]
  IN /\ j.op = "judge"
     /\ report' = [report EXCEPT ![j.r] = j.decision]
     /\ Happens("overlap", IF report[j.r] = "pending" THEN {} ELSE {j.r})
     /\ Goes(w, [j EXCEPT !.op = "tell"])
     /\ UNCHANGED <<key, shown, remote, flagged, asked, heard, ordered>>

\* The notice depends on another service and its failure is ignored.
TellsReporter(w) ==
  LET j == reportJob[w]
  IN /\ j.op = "tell"
     /\ heard' \in {heard, [heard EXCEPT ![j.r] = @ \cup {j.decision}]}
     /\ Goes(w, IF j.hide THEN [op |-> "hide", t |-> j.r[1]] ELSE NoReportJob)
     /\ UNCHANGED <<report, key, shown, remote, flagged, asked, ordered, mishaps>>

\* hide of each kind: a lottery is not hidden and a user is not punished.
Hideable(kind) == kind \in {"comment", "moment", "rpa"}

Hides(w) ==
  LET t == reportJob[w].t
  IN /\ reportJob[w].op = "hide"
     /\ shown' = IF Hideable(kindOf[t]) /\ shown[t] = "shown"
                 THEN [shown EXCEPT ![t] = "hidden"] ELSE shown
     /\ Goes(w, IF kindOf[t] = "rpa" THEN [op |-> "remote", t |-> t] ELSE NoReportJob)
     /\ UNCHANGED <<report, key, remote, flagged, asked, heard, ordered, mishaps>>

\* The owner of an RPA resource is told after the commit; a failure is logged.
HidesRemotely(w) ==
  LET t == reportJob[w].t
  IN /\ reportJob[w].op = "remote"
     /\ remote' \in {remote, remote \cup {t}}
     /\ Goes(w, NoReportJob)
     /\ UNCHANGED <<report, key, shown, flagged, asked, heard, ordered, mishaps>>

\* A call fails, or the process stops, with what is committed.
RequestEnds(w) ==
  LET j == reportJob[w]
  IN /\ j.op \in {"count", "judge", "tell", "hide"}
     /\ Happens("cut", {IF j.op \in {"judge", "tell"} THEN j.r[1] ELSE j.t})
     /\ Goes(w, NoReportJob)
     /\ UNCHANGED <<report, key, shown, remote, flagged, asked, heard, ordered>>

\* Its owner deletes a thing.
ThingGoes(t) ==
  /\ shown[t] # "gone" /\ Reports(t) # {}
  /\ shown' = [shown EXCEPT ![t] = "gone"]
  /\ UNCHANGED <<kindOf, oneCount, report, key, remote, flagged, asked, heard,
                 ordered, mishaps, reportJob, reportsAsked>>

ReportsNext ==
  \/ \E w \in ReportWorker :
       \/ \E r \in Report : ReportArrives(w, r)
       \/ \E r \in Report, d \in Decision, h \in BOOLEAN : ReviewArrives(w, r, d, h)
       \/ FiledIn(w) \/ Counted(w) \/ Judges(w) \/ TellsReporter(w)
       \/ Hides(w) \/ HidesRemotely(w) \/ RequestEnds(w)
  \/ \E t \in Thing : ThingGoes(t)

ReportsSpec == ReportsInit /\ [][ReportsNext]_reportVars

-----------------------------------------------------------------------------
(* Properties.                                                             *)

Befell(kind, x) == [kind |-> kind, of |-> x] \in mishaps
Astray(t) == \E r \in Reports(t) : Befell("stray", r)
Underway(t) == \E w \in ReportWorker : LET j == reportJob[w] IN
  \/ j.op \in {"file", "judge", "tell"} /\ j.r[1] = t
  \/ j.op \in {"count", "hide", "remote"} /\ j.t = t

\* A report is decided as an administrator asked, unless the key found
\* another one, which takes two tables that number their rows separately; a
\* comment's report, in the first table, is always found.
JudgedAsAsked ==
  \A r \in Rows :
    /\ report[r] # "pending" => report[r] \in asked[r] \/ Befell("stray", r)
    /\ Befell("stray", r) => ~oneCount
    /\ Befell("stray", r) /\ TableOf(r) = 1 => \E x \in Rows : TableOf(x) > 1

\* Only what an administrator ordered hidden is hidden, whatever the number of
\* reports, unless the key found another report.
HiddenByOrder ==
  \A t \in Thing :
    (shown[t] = "hidden" \/ t \in remote) /\ ~Astray(t)
      => t \in ordered /\ Hideable(kindOf[t])

\* An order is carried out when its request is over, unless a call before it
\* failed, and its owner is told nothing before that.
OrderCarriedOut ==
  \A t \in Thing :
    /\ t \in ordered /\ Hideable(kindOf[t]) /\ ~Underway(t) /\ ~Astray(t)
         /\ ~Befell("cut", t) => shown[t] # "shown"
    /\ t \in remote => shown[t] # "shown"

\* Of the reports that reach the threshold at the same time, one answer says
\* so: each counts after its own row is in the table.
ThresholdTold ==
  \A t \in Thing :
    Cardinality(Reports(t)) >= Threshold /\ ~Underway(t) /\ ~Befell("cut", t)
      => t \in flagged

\* A reporter hears the decision the report has, unless it was decided twice.
ReporterHearsDecision ==
  \A r \in Report : heard[r] # {} /\ ~Befell("overlap", r) => heard[r] = {report[r]}

\* Reports and their review, with two requests at a time (ReportService.report
\* and review, report_reject, report_resolved and hide of each resource).
ReportsHold == /\ JudgedAsAsked /\ HiddenByOrder /\ OrderCarriedOut
               /\ ThresholdTold /\ ReporterHearsDecision

=============================================================================
