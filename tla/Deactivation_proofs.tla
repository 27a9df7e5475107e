-------------------------- MODULE Deactivation_proofs --------------------------
(***************************************************************************)
(* What holds of a deactivation for any persons, limits and failures.      *)
(***************************************************************************)
EXTENDS Deactivation, TLAPS

LEMMA InitStateOK == DeactInit => DeactStateOK
<1> SUFFICES ASSUME DeactInit PROVE DeactStateOK
  OBVIOUS
<1>1. local \in [Account -> {"none", "full", "content", "gone"}]
  BY DEF DeactInit
<1>2. \A u, v \in Account :
        Owner(u) = Owner(v) /\ local[u] = "full" /\ local[v] = "full" => u = v
  BY DEF DeactInit, Owner, Account
<1>3. running \in [Job -> [at: {"idle", "next", "purge", "content", "mark",
                            "casdoor", "clear", "failed"},
                       row: {{}} \cup {{r} : r \in Row}, todo: SUBSET Row]]
  BY DEF DeactInit, IdleRun
<1>4. login \in [Person -> [at: {"idle", "user", "check", "revoke"},
                            account: {{}} \cup {{u} : u \in Account},
                            id: 0..MaxSubmits]]
  BY BoundAssumption DEF DeactInit, IdleLogin
<1>5. allowance \in [{"login", "fault"} -> Nat]
  BY BoundAssumption DEF DeactInit
<1> QED BY <1>1, <1>2, <1>3, <1>4, <1>5, BoundAssumption DEF DeactInit, DeactStateOK

\* A loaded row is well formed if there is one.
LEMMA RowOfType ==
    ASSUME DeactStateOK, NEW u \in Account, ~Has(u, "none")
    PROVE  RowOf(u) \in Row
<1>1. record[u] \in Record
  BY DEF DeactStateOK, Has, NoRecord
<1> QED BY <1>1 DEF RowOf, Row, Record

JobType == [at: {"idle", "next", "purge", "content", "mark", "casdoor",
                 "clear", "failed"},
            row: {{}} \cup {{r} : r \in Row}, todo: SUBSET Row]

LoginType == [at: {"idle", "user", "check", "revoke"},
              account: {{}} \cup {{u} : u \in Account}, id: 0..MaxSubmits]

LEMMA SubmitStateOK ==
    ASSUME DeactStateOK, NEW u \in Account, NEW named \in BOOLEAN, Submit(u, named)
    PROVE  DeactStateOK'
<1>1. ids + 1 \in Id /\ ids' \in 0..MaxSubmits
  BY BoundAssumption DEF DeactStateOK, Submit, Id
<1>2. [id |-> ids + 1, status |-> "cooling", named |-> named, due |-> FALSE]
        \in Record
  BY <1>1 DEF Record
<1>3. record' \in [Account -> Record \cup {NoRecord}]
  BY <1>2 DEF DeactStateOK, Submit
<1> QED BY <1>1, <1>3 DEF DeactStateOK, Submit

LEMMA FallsDueStateOK ==
    ASSUME DeactStateOK, NEW u \in Account, FallsDue(u)
    PROVE  DeactStateOK'
<1>1. record[u] \in Record
  BY DEF DeactStateOK, FallsDue, Has, NoRecord
<1>2. [record[u] EXCEPT !.due = TRUE] \in Record
  BY <1>1 DEF Record
<1>3. record' \in [Account -> Record \cup {NoRecord}]
  BY <1>2 DEF DeactStateOK, FallsDue
<1> QED BY <1>3 DEF DeactStateOK, FallsDue

LEMMA LoginStateOK ==
    ASSUME DeactStateOK, NEW p \in Person, LoginToken(p) \/ LoginStep(p)
    PROVE  DeactStateOK'
<1>1. login[p] \in LoginType
  BY DEF DeactStateOK, LoginType
<1>2. CASE LoginToken(p)
  <2>1. [login[p] EXCEPT !.at = "user"] \in LoginType
    BY <1>1 DEF LoginType
  <2>2. login' \in [Person -> LoginType]
    BY <1>2, <2>1 DEF DeactStateOK, LoginToken, LoginType
  <2>3. allowance' \in [{"login", "fault"} -> Nat]
    BY <1>2 DEF DeactStateOK, LoginToken, Spend
  <2> QED BY <1>2, <2>2, <2>3 DEF DeactStateOK, LoginToken, LoginType
<1>3. CASE LoginUser(p)
  <2>1. PICK u \in Account :
          /\ Owner(u) = p
          /\ \/ local[u] = "full" /\ UNCHANGED local
             \/ /\ local[u] = "none"
                /\ \A v \in Account : Owner(v) = p => local[v] # "full"
                /\ local' = [local EXCEPT ![u] = "full"]
          /\ login' = [login EXCEPT ![p].at = "check", ![p].account = {u}]
          /\ returned' = returned \cup {u}
    BY <1>3 DEF LoginUser
  <2>2. [login[p] EXCEPT !.at = "check", !.account = {u}] \in LoginType
    BY <1>1 DEF LoginType
  <2>3. login' \in [Person -> LoginType]
    BY <2>1, <2>2 DEF DeactStateOK, LoginType
  <2>4. local' \in [Account -> {"none", "full", "content", "gone"}]
    BY <2>1 DEF DeactStateOK
  <2>5. \A v, w \in Account :
          Owner(v) = Owner(w) /\ local'[v] = "full" /\ local'[w] = "full" => v = w
    BY <2>1 DEF DeactStateOK
  <2> QED BY <1>3, <2>1, <2>3, <2>4, <2>5 DEF DeactStateOK, LoginUser, LoginType
<1>4. CASE LoginCheck(p)
  <2>1. PICK u \in login[p].account :
          login' = [login EXCEPT ![p] =
              IF Has(u, "cooling")
              THEN [at |-> "revoke", account |-> {u}, id |-> record[u].id]
              ELSE IdleLogin]
    BY <1>4 DEF LoginCheck
  <2>2. u \in Account
    BY <1>1, <2>1 DEF LoginType
  <2>3. IdleLogin \in LoginType
    BY BoundAssumption DEF IdleLogin, LoginType
  <2>4. Has(u, "cooling") =>
          [at |-> "revoke", account |-> {u}, id |-> record[u].id] \in LoginType
    <3>1. record[u].id \in 0..MaxSubmits
      BY <2>2, BoundAssumption DEF DeactStateOK, Record, NoRecord, Id
    <3> QED BY <2>2, <3>1 DEF LoginType
  <2>5. login' \in [Person -> LoginType]
    BY <2>1, <2>3, <2>4 DEF DeactStateOK, LoginType
  <2> QED BY <1>4, <2>5 DEF DeactStateOK, LoginCheck, LoginType
<1>5. CASE LoginRevoke(p)
  <2>1. login' \in [Person -> LoginType]
    <3>1. IdleLogin \in LoginType
      BY BoundAssumption DEF IdleLogin, LoginType
    <3> QED BY <1>5, <3>1 DEF DeactStateOK, LoginRevoke, LoginType
  <2>2. record' \in [Account -> Record \cup {NoRecord}]
    BY <1>5 DEF DeactStateOK, LoginRevoke
  <2>3. allowance' \in [{"login", "fault"} -> Nat]
    BY <1>5 DEF DeactStateOK, LoginRevoke, NoFailure, Fails, Spend
  <2> QED BY <1>5, <2>1, <2>2, <2>3 DEF DeactStateOK, LoginRevoke, LoginType
<1> QED BY <1>2, <1>3, <1>4, <1>5 DEF LoginStep

\* Every step of a job leaves its state well formed.
LEMMA JobTypeStep ==
    ASSUME DeactStateOK, NEW j \in Job, RunStep(j)
    PROVE  running' \in [Job -> JobType]
<1>1. running \in [Job -> JobType] /\ running[j] \in JobType
  BY DEF DeactStateOK, JobType
<1>2. ASSUME NEW at \in {"next", "purge", "content", "mark", "casdoor",
                         "clear", "failed"}, Stage(j, at)
      PROVE  running' \in [Job -> JobType]
  <2>1. [running[j] EXCEPT !.at = at] \in JobType
    BY <1>1 DEF JobType
  <2> QED BY <1>1, <1>2, <2>1 DEF Stage
<1>3. ASSUME Done(j) PROVE running' \in [Job -> JobType]
  <2>1. [at |-> IF running[j].todo = {} THEN "idle" ELSE "next", row |-> {},
         todo |-> running[j].todo] \in JobType
    BY <1>1 DEF JobType
  <2> QED BY <1>1, <1>3, <2>1 DEF Done
<1>4. ASSUME Abort(j) PROVE running' \in [Job -> JobType]
  <2>1. IdleRun \in JobType
    BY DEF IdleRun, JobType
  <2> QED BY <1>1, <1>4, <2>1 DEF Abort
<1>5. ASSUME NEW S \in SUBSET Account, \A u \in S : ~Has(u, "none"),
             running' = [running EXCEPT ![j] =
                 [at |-> "next", row |-> {}, todo |-> {RowOf(u) : u \in S}]]
      PROVE  running' \in [Job -> JobType]
  <2>1. {RowOf(u) : u \in S} \subseteq Row
    BY <1>5, RowOfType
  <2>2. [at |-> "next", row |-> {}, todo |-> {RowOf(u) : u \in S}] \in JobType
    BY <2>1 DEF JobType
  <2> QED BY <1>1, <1>5, <2>2
<1>6. CASE j = "expire" /\ ExpireStart
  <2>1. ListedDue \subseteq Account /\ \A u \in ListedDue : ~Has(u, "none")
    BY DEF ListedDue, Due, Has
  <2> QED BY <1>5, <1>6, <2>1 DEF ExpireStart
<1>7. CASE j = "retry" /\ RetryStart
  <2>1. ListedPending \subseteq Account /\ \A u \in ListedPending : ~Has(u, "none")
    BY DEF ListedPending, Has
  <2> QED BY <1>5, <1>7, <2>1 DEF RetryStart
<1>8. CASE Take(j)
  <2>1. PICK r \in running[j].todo :
          running' = [running EXCEPT ![j] =
              [at |-> IF j = "expire" THEN "purge" ELSE "casdoor",
               row |-> {r}, todo |-> running[j].todo \ {r}]]
    BY <1>8 DEF Take
  <2>2. [at |-> IF j = "expire" THEN "purge" ELSE "casdoor",
         row |-> {r}, todo |-> running[j].todo \ {r}] \in JobType
    BY <1>1, <2>1 DEF JobType
  <2> QED BY <1>1, <2>1, <2>2
<1>9. CASE j = "expire" /\ (PurgeUser \/ PurgeContent \/ MarkPending)
  BY <1>2, <1>3, <1>9 DEF PurgeUser, PurgeContent, MarkPending
<1>10. CASE CasdoorDelete(j)
  BY <1>2, <1>10 DEF CasdoorDelete
<1>11. CASE CasdoorFailed(j) \/ ClearRecord(j)
  BY <1>3, <1>4, <1>11 DEF CasdoorFailed, ClearRecord
<1> QED
  BY <1>6, <1>7, <1>8, <1>9, <1>10, <1>11 DEF RunStep, ExpireStep

\* A job only ever makes a cooling record a pending one, or removes one.
LEMMA JobRecordStep ==
    ASSUME DeactStateOK, NEW j \in Job, RunStep(j)
    PROVE  record' \in [Account -> Record \cup {NoRecord}]
<1>1. CASE MarkPending
  <2>1. PICK r \in running["expire"].row :
          \/ /\ Has(r.account, "cooling")
             /\ record' = [record EXCEPT ![r.account].status = "pending"]
          \/ UNCHANGED record
    BY <1>1 DEF MarkPending
  <2>2. running["expire"].row \subseteq Row
    BY DEF DeactStateOK, Job
  <2>3. r.account \in Account
    BY <2>1, <2>2 DEF Row
  <2>4. CASE Has(r.account, "cooling")
    <3>1. record[r.account] \in Record
      BY <2>3, <2>4 DEF DeactStateOK, Has, NoRecord
    <3>2. [record[r.account] EXCEPT !.status = "pending"] \in Record
      BY <3>1 DEF Record
    <3> QED BY <2>1, <2>3, <3>2 DEF DeactStateOK
  <2> QED BY <2>1, <2>4 DEF DeactStateOK
<1>2. CASE ClearRecord(j)
  BY <1>2 DEF DeactStateOK, ClearRecord
<1>3. CASE UNCHANGED record
  BY <1>3 DEF DeactStateOK
<1> QED
  BY <1>1, <1>2, <1>3 DEF RunStep, ExpireStep, ExpireStart, RetryStart, Take,
     PurgeUser, PurgeContent, CasdoorDelete, CasdoorFailed

\* A purge leaves less of an account, and touches nobody else's.
LEMMA JobLocalStep ==
    ASSUME DeactStateOK, NEW j \in Job, RunStep(j)
    PROVE  /\ local' \in [Account -> {"none", "full", "content", "gone"}]
           /\ \A u \in Account : local'[u] = "full" => local[u] = "full"
<1>1. CASE PurgeUser \/ PurgeContent
  <2>1. running["expire"].row \subseteq Row
    BY DEF DeactStateOK, Job
  <2> QED BY <1>1, <2>1 DEF DeactStateOK, PurgeUser, PurgeContent, Row
<1>2. CASE UNCHANGED local
  BY <1>2 DEF DeactStateOK
<1> QED
  BY <1>1, <1>2 DEF RunStep, ExpireStep, ExpireStart, RetryStart, Take,
     MarkPending, CasdoorDelete, CasdoorFailed, ClearRecord

LEMMA JobRestStep ==
    ASSUME DeactStateOK, NEW j \in Job, RunStep(j)
    PROVE  /\ casdoor' \subseteq Person
           /\ allowance' \in [{"login", "fault"} -> Nat]
           /\ UNCHANGED <<login, returned, ids>>
<1>1. UNCHANGED <<login, returned, ids>>
  BY DEF RunStep, ExpireStep, ExpireStart, RetryStart, Take, PurgeUser,
         PurgeContent, MarkPending, CasdoorDelete, CasdoorFailed, ClearRecord,
         JobOnly
<1>2. casdoor' \subseteq casdoor
  BY DEF RunStep, ExpireStep, ExpireStart, RetryStart, Take, PurgeUser,
         PurgeContent, MarkPending, CasdoorDelete, CasdoorFailed, ClearRecord
<1>3. UNCHANGED allowance \/ Fails
  BY DEF RunStep, ExpireStep, ExpireStart, RetryStart, Take, PurgeUser,
         PurgeContent, MarkPending, CasdoorDelete, CasdoorFailed, ClearRecord,
         NoFailure
<1>4. allowance' \in [{"login", "fault"} -> Nat]
  BY <1>3 DEF DeactStateOK, Fails, Spend
<1> QED BY <1>1, <1>2, <1>4 DEF DeactStateOK

LEMMA JobStateOK ==
    ASSUME DeactStateOK, NEW j \in Job, RunStep(j)
    PROVE  DeactStateOK'
<1>1. \A u, v \in Account :
        Owner(u) = Owner(v) /\ local'[u] = "full" /\ local'[v] = "full" => u = v
  BY JobLocalStep DEF DeactStateOK
<1> QED
  BY <1>1, JobTypeStep, JobRecordStep, JobLocalStep, JobRestStep
     DEF DeactStateOK, JobType

LEMMA KillStateOK == ASSUME DeactStateOK, KillService PROVE DeactStateOK'
<1>1. running' \in [Job -> JobType]
  BY DEF KillService, IdleRun, JobType
<1>2. login' \in [Person -> LoginType]
  BY BoundAssumption DEF KillService, IdleLogin, LoginType
<1>3. allowance' \in [{"login", "fault"} -> Nat]
  BY DEF DeactStateOK, KillService, Fails, Spend
<1> QED BY <1>1, <1>2, <1>3 DEF DeactStateOK, KillService, JobType, LoginType

LEMMA NextStateOK == DeactStateOK /\ [DeactNext]_deactVars => DeactStateOK'
<1> SUFFICES ASSUME DeactStateOK, [DeactNext]_deactVars PROVE DeactStateOK'
  OBVIOUS
<1>1. CASE UNCHANGED deactVars
  BY <1>1 DEF DeactStateOK, deactVars
<1>2. CASE DeactNext
  BY <1>2, SubmitStateOK, FallsDueStateOK, LoginStateOK, JobStateOK, KillStateOK
     DEF DeactNext
<1> QED BY <1>1, <1>2

----------------------------------------------------------------------------
(* First the local data, then the central account                          *)

\* What a job works on after the purge has been purged.
RowsPurged ==
    /\ \A r \in running["retry"].row \cup running["retry"].todo : local[r.account] = "gone"
    /\ running["expire"].at \in {"mark", "casdoor", "clear", "failed"} =>
          \A r \in running["expire"].row : local[r.account] = "gone"

\* PendingMeansPurged and CasdoorLast are not inductive by themselves: a job
\* marks a row, or deletes its owner, a step after it has looked at it.
PurgeInv == DeactStateOK /\ PendingMeansPurged /\ CasdoorLast /\ RowsPurged

LEMMA GoneStays ==
    ASSUME DeactStateOK, [DeactNext]_deactVars, NEW u \in Account, local[u] = "gone"
    PROVE  local'[u] = "gone"
<1>1. CASE PurgeUser \/ PurgeContent
  BY <1>1 DEF DeactStateOK, PurgeUser, PurgeContent
<1>2. ASSUME NEW p \in Person, LoginUser(p) PROVE local'[u] = "gone"
  BY <1>2 DEF DeactStateOK, LoginUser
<1>3. CASE UNCHANGED local
  BY <1>3
<1>4. ASSUME NEW j \in Job, RunStep(j)
      PROVE  PurgeUser \/ PurgeContent \/ UNCHANGED local
  BY <1>4 DEF RunStep, ExpireStep, ExpireStart, RetryStart, Take,
     MarkPending, CasdoorDelete, CasdoorFailed, ClearRecord
<1>5. ASSUME NEW p \in Person, LoginToken(p) \/ LoginStep(p)
      PROVE  LoginUser(p) \/ UNCHANGED local
  BY <1>5 DEF LoginToken, LoginStep, LoginCheck, LoginRevoke
<1>6. ASSUME NEW v \in Account,
             FallsDue(v) \/ \E named \in BOOLEAN : Submit(v, named)
      PROVE  UNCHANGED local
  BY <1>6 DEF FallsDue, Submit
<1>7. ASSUME KillService PROVE UNCHANGED local
  BY <1>7 DEF KillService
<1>8. ASSUME UNCHANGED deactVars PROVE UNCHANGED local
  BY <1>8 DEF deactVars
<1> QED BY <1>1, <1>2, <1>3, <1>4, <1>5, <1>6, <1>7, <1>8 DEF DeactNext

\* A row becomes pending only in the hands of the job that has purged it.
LEMMA PendingStep ==
    ASSUME PurgeInv, [DeactNext]_deactVars
    PROVE  PendingMeansPurged'
<1> SUFFICES ASSUME NEW u \in Account, Has(u, "pending")' PROVE local'[u] = "gone"
  BY DEF PendingMeansPurged
<1>1. Has(u, "pending") => local'[u] = "gone"
  BY GoneStays DEF PurgeInv, PendingMeansPurged
<1>2. ASSUME MarkPending, ~Has(u, "pending") PROVE local[u] = "gone"
  <2>1. PICK r \in running["expire"].row :
          /\ Has(r.account, "cooling")
          /\ record' = [record EXCEPT ![r.account].status = "pending"]
    BY <1>2 DEF MarkPending, Has
  <2>2. r.account = u
    BY <1>2, <2>1 DEF PurgeInv, DeactStateOK, Has
  <2> QED BY <1>2, <2>1, <2>2 DEF MarkPending, PurgeInv, RowsPurged
<1>3. ASSUME NEW v \in Account,
             FallsDue(v) \/ \E named \in BOOLEAN : Submit(v, named)
      PROVE  Has(u, "pending")
  <2>1. record \in [Account -> Record \cup {NoRecord}]
    BY DEF PurgeInv, DeactStateOK
  <2>2. CASE FallsDue(v)
    <3>1. record[v] \in Record
      BY <2>1, <2>2 DEF FallsDue, Has, NoRecord
    <3>2. [record[v] EXCEPT !.due = TRUE].status = record[v].status
      BY <3>1 DEF Record
    <3> QED BY <2>1, <2>2, <3>2 DEF FallsDue, Has
  <2>3. ASSUME NEW named \in BOOLEAN, Submit(v, named) PROVE Has(u, "pending")
    BY <2>1, <2>3 DEF Submit, Has
  <2> QED BY <1>3, <2>2, <2>3
<1>4. ASSUME NEW p \in Person, LoginToken(p) \/ LoginStep(p)
      PROVE  Has(u, "pending")
  BY <1>4 DEF LoginToken, LoginStep, LoginUser, LoginCheck, LoginRevoke, Has,
              NoRecord, PurgeInv, DeactStateOK
<1>5. ASSUME NEW j \in Job, RunStep(j), ~MarkPending PROVE Has(u, "pending")
  <2>1. CASE ClearRecord(j)
    BY <2>1 DEF ClearRecord, Has, NoRecord, PurgeInv, DeactStateOK
  <2>2. CASE UNCHANGED record
    BY <2>2 DEF Has
  <2> QED
    BY <1>5, <2>1, <2>2 DEF RunStep, ExpireStep, ExpireStart, RetryStart, Take,
       PurgeUser, PurgeContent, CasdoorDelete, CasdoorFailed
<1>6. ASSUME KillService \/ UNCHANGED deactVars PROVE Has(u, "pending")
  BY <1>6 DEF KillService, deactVars, Has
<1>7. ASSUME local[u] = "gone" PROVE local'[u] = "gone"
  BY <1>7, GoneStays DEF PurgeInv
<1> QED BY <1>1, <1>2, <1>3, <1>4, <1>5, <1>6, <1>7 DEF DeactNext

LEMMA CasdoorStep ==
    ASSUME PurgeInv, [DeactNext]_deactVars
    PROVE  CasdoorLast'
<1> SUFFICES ASSUME NEW p \in Person, p \notin casdoor'
             PROVE  \E u \in Account : Owner(u) = p /\ local'[u] = "gone"
  BY DEF CasdoorLast
<1>1. ASSUME p \notin casdoor
      PROVE  \E u \in Account : Owner(u) = p /\ local'[u] = "gone"
  <2>1. PICK u \in Account : Owner(u) = p /\ local[u] = "gone"
    BY <1>1 DEF PurgeInv, CasdoorLast
  <2>2. local'[u] = "gone"
    BY <2>1, GoneStays DEF PurgeInv
  <2> QED BY <2>1, <2>2
<1>2. ASSUME NEW j \in Job, CasdoorDelete(j), p \in casdoor
      PROVE  \E u \in Account : Owner(u) = p /\ local'[u] = "gone"
  <2>1. PICK r \in running[j].row : p = Owner(r.account)
    BY <1>2 DEF CasdoorDelete
  <2>2. r \in Row
    BY <2>1 DEF PurgeInv, DeactStateOK
  <2>3. r.account \in Account
    BY <2>2 DEF Row
  <2>4. local[r.account] = "gone"
    BY <1>2, <2>1 DEF CasdoorDelete, PurgeInv, RowsPurged, Job
  <2>5. local'[r.account] = "gone"
    BY <2>3, <2>4, GoneStays DEF PurgeInv
  <2> QED BY <2>1, <2>3, <2>5
<1>3. ASSUME NEW j \in Job, RunStep(j) PROVE CasdoorDelete(j) \/ UNCHANGED casdoor
  BY <1>3 DEF RunStep, ExpireStep, ExpireStart, RetryStart, Take, PurgeUser,
     PurgeContent, MarkPending, CasdoorFailed, ClearRecord
<1>4. ASSUME NEW q \in Person, LoginToken(q) \/ LoginStep(q)
      PROVE  UNCHANGED casdoor
  BY <1>4 DEF LoginToken, LoginStep, LoginUser, LoginCheck, LoginRevoke
<1>5. ASSUME NEW v \in Account,
             FallsDue(v) \/ \E named \in BOOLEAN : Submit(v, named)
      PROVE  UNCHANGED casdoor
  BY <1>5 DEF FallsDue, Submit
<1>6. ASSUME KillService \/ UNCHANGED deactVars PROVE UNCHANGED casdoor
  BY <1>6 DEF KillService, deactVars
<1> QED BY <1>1, <1>2, <1>3, <1>4, <1>5, <1>6 DEF DeactNext

\* How a step changes the runs: of its own run, and no other.
LEMMA RunSteps ==
    ASSUME DeactStateOK, NEW j \in Job
    PROVE  /\ \A at : Stage(j, at) => /\ running'[j].at = at
                                      /\ running'[j].row = running[j].row
                                      /\ running'[j].todo = running[j].todo
           /\ Done(j) => /\ running'[j].at \in {"idle", "next"}
                         /\ running'[j].row = {}
                         /\ running'[j].todo = running[j].todo
           /\ Abort(j) => /\ running'[j].at = "idle"
                          /\ running'[j].row = {}
                          /\ running'[j].todo = {}
           /\ \A i \in Job \ {j} :
                 (\E at : Stage(j, at)) \/ Done(j) \/ Abort(j) => running'[i] = running[i]
BY DEF DeactStateOK, Stage, Done, Abort, IdleRun

\* A run loads rows that wait for Casdoor, and marks what it has purged.
LEMMA RowsStep ==
    ASSUME PurgeInv, [DeactNext]_deactVars
    PROVE  RowsPurged'
<1> DEFINE Late == {"mark", "casdoor", "clear", "failed"}
           RetryRows == running["retry"].row \cup running["retry"].todo
           RetryRowsNext == running'["retry"].row \cup running'["retry"].todo
<1>1. /\ "expire" \in Job /\ "retry" \in Job
      /\ DOMAIN running = Job
      /\ running["expire"].row \subseteq Row
      /\ RetryRows \subseteq Row
  BY DEF PurgeInv, DeactStateOK, Job
<1>2. ASSUME NEW r \in Row, local[r.account] = "gone" PROVE local'[r.account] = "gone"
  BY <1>2, GoneStays DEF PurgeInv, Row
<1>3. ASSUME RetryRowsNext \subseteq RetryRows
      PROVE  \A r \in RetryRowsNext : local'[r.account] = "gone"
  BY <1>1, <1>2, <1>3 DEF PurgeInv, RowsPurged
<1>4. ASSUME running'["expire"].at \notin Late
             \/ (running["expire"].at \in Late /\ running'["expire"].row = running["expire"].row)
      PROVE  running'["expire"].at \in Late =>
                \A r \in running'["expire"].row : local'[r.account] = "gone"
  BY <1>1, <1>2, <1>4 DEF PurgeInv, RowsPurged
<1>5. CASE UNCHANGED running
  BY <1>3, <1>4, <1>5 DEF RowsPurged
<1>6. CASE PurgeContent
  <2>1. running'["retry"] = running["retry"]
    BY <1>1, <1>6 DEF PurgeContent, Stage, Done
  <2>2. CASE running'["expire"].at \notin Late
    BY <1>3, <1>4, <2>1, <2>2 DEF RowsPurged
  <2>3. CASE running'["expire"].at \in Late
    <3>1. PICK r \in running["expire"].row :
            /\ local' = [local EXCEPT ![r.account] = "gone"]
            /\ Stage("expire", "mark")
      BY <1>1, <1>6, <2>3 DEF PurgeContent, Done
    <3>2. running'["expire"].row = {r}
      BY <1>1, <3>1 DEF Stage, PurgeInv, DeactStateOK
    <3>3. r.account \in Account
      BY <1>1 DEF Row
    <3>4. local'[r.account] = "gone"
      BY <3>1, <3>3 DEF PurgeInv, DeactStateOK
    <3> QED BY <1>3, <2>1, <3>2, <3>4 DEF RowsPurged
  <2> QED BY <2>2, <2>3
<1>7. CASE RetryStart
  <2>1. /\ running'["expire"] = running["expire"]
        /\ RetryRowsNext = {RowOf(u) : u \in ListedPending}
    BY <1>1, <1>7 DEF RetryStart
  <2>2. \A u \in ListedPending : local'[u] = "gone"
    BY <1>7 DEF RetryStart, ListedPending, PurgeInv, PendingMeansPurged
  <2>3. \A r \in RetryRowsNext : local'[r.account] = "gone"
    BY <2>1, <2>2 DEF RowOf
  <2> QED BY <1>4, <2>1, <2>3 DEF RowsPurged
<1>8. ASSUME NEW j \in Job,
             \/ j = "expire" /\ (ExpireStart \/ PurgeUser \/ MarkPending)
             \/ Take(j) \/ CasdoorDelete(j) \/ CasdoorFailed(j) \/ ClearRecord(j)
      PROVE  RowsPurged'
  <2>1. /\ \A i \in Job \ {j} : running'[i] = running[i]
        /\ \/ running'[j].at \notin Late
           \/ running[j].at \in Late /\ running'[j].row = running[j].row
           \/ j = "retry"
        /\ running'[j].row \cup running'[j].todo \subseteq running[j].row \cup running[j].todo
           \/ j = "expire"
    <3>1. CASE Take(j)
      <4>1. PICK r \in running[j].todo :
              running' = [running EXCEPT ![j] =
                  [at |-> IF j = "expire" THEN "purge" ELSE "casdoor",
                   row |-> {r}, todo |-> running[j].todo \ {r}]]
        BY <3>1 DEF Take
      <4>2. /\ running'[j].at = IF j = "expire" THEN "purge" ELSE "casdoor"
            /\ running'[j].row = {r}
            /\ running'[j].todo = running[j].todo \ {r}
        BY <1>1, <4>1
      <4>3. \A i \in Job \ {j} : running'[i] = running[i]
        BY <1>1, <4>1
      <4>4. running'[j].row \cup running'[j].todo \subseteq running[j].row \cup running[j].todo
        BY <4>1, <4>2
      <4>5. running'[j].at \notin Late \/ j = "retry"
        BY <4>2 DEF Job
      <4> QED BY <4>3, <4>4, <4>5
    <3>2. CASE j = "expire" /\ ExpireStart
      BY <1>1, <3>2 DEF ExpireStart, PurgeInv, DeactStateOK
    <3>3. CASE j = "expire" /\ PurgeUser
      <4>1. Stage(j, "content") \/ Done(j)
        BY <3>3 DEF PurgeUser
      <4> QED BY <3>3, <4>1, RunSteps DEF PurgeInv
    <3>4. CASE (j = "expire" /\ MarkPending) \/ CasdoorDelete(j)
      <4>1. /\ running[j].at \in Late \/ j = "retry"
            /\ \/ Stage(j, "casdoor") \/ Stage(j, "clear")
               \/ Stage(j, "failed") \/ Done(j)
        BY <3>4 DEF MarkPending, CasdoorDelete
      <4> QED BY <4>1, RunSteps DEF PurgeInv
    <3>5. CASE CasdoorFailed(j) \/ ClearRecord(j)
      <4>1. Done(j) \/ Abort(j)
        BY <3>5 DEF CasdoorFailed, ClearRecord
      <4> QED BY <4>1, RunSteps DEF PurgeInv
    <3> QED BY <1>8, <3>1, <3>2, <3>3, <3>4, <3>5
  <2>2. CASE j = "expire"
    BY <1>1, <1>3, <1>4, <2>1, <2>2 DEF RowsPurged
  <2>3. CASE j = "retry"
    BY <1>1, <1>3, <1>4, <2>1, <2>3 DEF RowsPurged
  <2> QED BY <2>2, <2>3 DEF Job
<1>9. CASE KillService
  BY <1>9 DEF KillService, IdleRun, RowsPurged, Job
<1>10. ASSUME NEW p \in Person, LoginToken(p) \/ LoginStep(p)
       PROVE  UNCHANGED running
  BY <1>10 DEF LoginToken, LoginStep, LoginUser, LoginCheck, LoginRevoke
<1>11. ASSUME NEW v \in Account,
              FallsDue(v) \/ \E named \in BOOLEAN : Submit(v, named)
       PROVE  UNCHANGED running
  BY <1>11 DEF FallsDue, Submit
<1>12. ASSUME UNCHANGED deactVars PROVE UNCHANGED running
  BY <1>12 DEF deactVars
<1> QED
  BY <1>5, <1>6, <1>7, <1>8, <1>9, <1>10, <1>11, <1>12
     DEF DeactNext, RunStep, ExpireStep

LEMMA InitPurge == DeactInit => PurgeInv
<1> SUFFICES ASSUME DeactInit PROVE PurgeInv
  OBVIOUS
<1>1. PendingMeansPurged
  BY DEF DeactInit, PendingMeansPurged, Has, NoRecord
<1>2. CasdoorLast /\ RowsPurged
  BY DEF DeactInit, CasdoorLast, RowsPurged, IdleRun, Job
<1> QED BY <1>1, <1>2, InitStateOK DEF PurgeInv

LEMMA PurgeInvariant == DeactSpec => []PurgeInv
<1>1. PurgeInv /\ [DeactNext]_deactVars => PurgeInv'
  BY NextStateOK, PendingStep, CasdoorStep, RowsStep DEF PurgeInv
<1> QED BY <1>1, InitPurge, PTL DEF DeactSpec

\* For any number of persons, accounts, logins and failures: what waits for
\* Casdoor has been purged completely.
THEOREM PurgedBeforePending == DeactSpec => []PendingMeansPurged
<1>1. PurgeInv => PendingMeansPurged
  BY DEF PurgeInv
<1> QED BY <1>1, PurgeInvariant, PTL

\* No central account is deleted before a local one of its owner has gone.
THEOREM CasdoorIsLast == DeactSpec => []CasdoorLast
<1>1. PurgeInv => CasdoorLast
  BY DEF PurgeInv
<1> QED BY <1>1, PurgeInvariant, PTL

----------------------------------------------------------------------------
(* A purge is remembered                                                   *)

\* Either the record stands, or a login took over, or Casdoor is done.
Kept(u) == \/ ~Has(u, "none")
           \/ u \in returned
           \/ Owner(u) \notin casdoor

\* The job purges rows that were loaded when their record stood; it removes a
\* record after the deletion in Casdoor, and a login only that of its account.
RowsKept ==
    /\ \A r \in running["expire"].row \cup running["expire"].todo : Kept(r.account)
    /\ \A j \in Job : running[j].at = "clear" =>
          \A r \in running[j].row : Owner(r.account) \notin casdoor
    /\ \A p \in Person :
          /\ login[p].at \in {"idle", "user"} => login[p].account = {}
          /\ \A u \in login[p].account : Owner(u) = p /\ u \in returned

KeepInv ==
    /\ DeactStateOK
    /\ RowsKept
    /\ \A u \in Account : local[u] \in {"content", "gone"} => Kept(u)

LEMMA KeptStays ==
    ASSUME KeepInv, [DeactNext]_deactVars, NEW u \in Account, Kept(u)
    PROVE  Kept(u)'
<1>1. ASSUME NEW v \in Account, NEW named \in BOOLEAN, Submit(v, named)
      PROVE  Kept(u)'
  BY <1>1 DEF Submit, Kept, Has, KeepInv, DeactStateOK
<1>2. ASSUME NEW v \in Account, FallsDue(v) PROVE Kept(u)'
  <2>1. record[v] \in Record
    BY <1>2 DEF FallsDue, Has, NoRecord, KeepInv, DeactStateOK
  <2>2. [record[v] EXCEPT !.due = TRUE].status = record[v].status
    BY <2>1 DEF Record
  <2> QED BY <1>2, <2>2 DEF FallsDue, Kept, Has, KeepInv, DeactStateOK
<1>3. ASSUME NEW p \in Person, LoginToken(p) \/ LoginUser(p) \/ LoginCheck(p)
      PROVE  Kept(u)'
  BY <1>3 DEF LoginToken, LoginUser, LoginCheck, Kept, Has
<1>4. ASSUME NEW p \in Person, LoginRevoke(p) PROVE Kept(u)'
  <2>1. PICK v \in login[p].account :
          \/ record' = [record EXCEPT ![v] = NoRecord]
          \/ UNCHANGED record
    BY <1>4 DEF LoginRevoke
  <2>2. v \in returned
    BY <2>1 DEF KeepInv, RowsKept
  <2> QED BY <1>4, <2>1, <2>2 DEF LoginRevoke, Kept, Has, KeepInv, DeactStateOK
<1>5. CASE MarkPending
  <2>1. PICK r \in running["expire"].row :
          \/ record' = [record EXCEPT ![r.account].status = "pending"]
          \/ UNCHANGED record
    BY <1>5 DEF MarkPending
  <2>2. [record[u] EXCEPT !.status = "pending"].status # "none"
    <3>1. record[u] \in Record \cup {NoRecord}
      BY DEF KeepInv, DeactStateOK
    <3> QED BY <3>1 DEF Record, NoRecord
  <2>3. ~Has(u, "none") => ~Has(u, "none")'
    BY <2>1, <2>2 DEF Has, KeepInv, DeactStateOK
  <2> QED BY <1>5, <2>3 DEF MarkPending, Kept, JobOnly
<1>6. ASSUME NEW j \in Job, ClearRecord(j) PROVE Kept(u)'
  <2>1. PICK r \in running[j].row :
          \/ record' = [record EXCEPT ![r.account] = NoRecord]
          \/ UNCHANGED record
    BY <1>6 DEF ClearRecord
  <2>2. Owner(r.account) \notin casdoor
    BY <1>6, <2>1 DEF ClearRecord, KeepInv, RowsKept
  <2>3. u # r.account => (~Has(u, "none") => ~Has(u, "none")')
    BY <2>1 DEF Has, KeepInv, DeactStateOK
  <2> QED BY <1>6, <2>2, <2>3 DEF ClearRecord, Kept, JobOnly
<1>7. ASSUME NEW j \in Job, RunStep(j), ~MarkPending, ~ClearRecord(j)
      PROVE  UNCHANGED <<record, returned>> /\ casdoor' \subseteq casdoor
  BY <1>7 DEF RunStep, ExpireStep, ExpireStart, RetryStart, Take, PurgeUser,
     PurgeContent, CasdoorDelete, CasdoorFailed, JobOnly
<1>8. ASSUME KillService \/ UNCHANGED deactVars
      PROVE  UNCHANGED <<record, returned>> /\ casdoor' \subseteq casdoor
  BY <1>8 DEF KillService, deactVars
<1>9. ASSUME UNCHANGED <<record, returned>>, casdoor' \subseteq casdoor
      PROVE  Kept(u)'
  BY <1>9 DEF Kept, Has
<1> QED
  BY <1>1, <1>2, <1>3, <1>4, <1>5, <1>6, <1>7, <1>8, <1>9 DEF DeactNext, LoginStep

\* Only a row of the job loses data.
LEMMA LostIsKept ==
    ASSUME KeepInv, [DeactNext]_deactVars, NEW u \in Account, local'[u] \in {"content", "gone"}
    PROVE  Kept(u)'
<1>1. CASE local[u] \in {"content", "gone"}
  BY <1>1, KeptStays DEF KeepInv
<1>2. ASSUME PurgeUser \/ PurgeContent, local[u] \notin {"content", "gone"}
      PROVE  Kept(u)
  <2>1. PICK r \in running["expire"].row : \A v \in Account \ {r.account} :
          local'[v] = local[v]
    <3>1. \A r \in running["expire"].row : r.account \in Account
      BY DEF KeepInv, DeactStateOK, Job, Row
    <3> QED BY <1>2, <3>1 DEF PurgeUser, PurgeContent, KeepInv, DeactStateOK
  <2>2. u = r.account
    BY <1>2, <2>1
  <2> QED BY <2>1, <2>2 DEF KeepInv, RowsKept
<1>3. ASSUME NEW p \in Person, LoginUser(p), local[u] \notin {"content", "gone"}
      PROVE  FALSE
  BY <1>3 DEF LoginUser, KeepInv, DeactStateOK
<1>4. ASSUME UNCHANGED local, local[u] \notin {"content", "gone"} PROVE FALSE
  BY <1>4
<1>5. ASSUME NEW j \in Job, RunStep(j)
      PROVE  PurgeUser \/ PurgeContent \/ UNCHANGED local
  BY <1>5 DEF RunStep, ExpireStep, ExpireStart, RetryStart, Take,
     MarkPending, CasdoorDelete, CasdoorFailed, ClearRecord
<1>6. ASSUME NEW p \in Person, LoginToken(p) \/ LoginStep(p)
      PROVE  LoginUser(p) \/ UNCHANGED local
  BY <1>6 DEF LoginToken, LoginStep, LoginCheck, LoginRevoke
<1>7. ASSUME NEW v \in Account,
             FallsDue(v) \/ \E named \in BOOLEAN : Submit(v, named)
      PROVE  UNCHANGED local
  BY <1>7 DEF FallsDue, Submit
<1>8. ASSUME KillService \/ UNCHANGED deactVars PROVE UNCHANGED local
  BY <1>8 DEF KillService, deactVars
<1>9. Kept(u) => Kept(u)'
  BY KeptStays
<1> QED
  BY <1>1, <1>2, <1>3, <1>4, <1>5, <1>6, <1>7, <1>8, <1>9 DEF DeactNext

\* The rows of the expiry run: loaded rows have a record, the others are there.
LEMMA ExpireRowsStep ==
    ASSUME KeepInv, [DeactNext]_deactVars
    PROVE  \A r \in running'["expire"].row \cup running'["expire"].todo : Kept(r.account)'
<1> DEFINE Rows == running["expire"].row \cup running["expire"].todo
           RowsNext == running'["expire"].row \cup running'["expire"].todo
<1>1. "expire" \in Job /\ "retry" \in Job /\ Rows \subseteq Row
  BY DEF KeepInv, DeactStateOK, Job
<1>2. ASSUME RowsNext \subseteq Rows PROVE \A r \in RowsNext : Kept(r.account)'
  <2>1. \A r \in RowsNext : r.account \in Account /\ Kept(r.account)
    BY <1>1, <1>2 DEF Row, KeepInv, RowsKept
  <2> QED BY <2>1, KeptStays
<1>3. CASE ExpireStart
  <2>1. RowsNext = {RowOf(u) : u \in ListedDue}
    BY <1>1, <1>3 DEF ExpireStart, KeepInv, DeactStateOK
  <2>2. \A u \in ListedDue : ~Has(u, "none")'
    BY <1>3 DEF ExpireStart, ListedDue, Due, Has
  <2> QED BY <2>1, <2>2 DEF RowOf, Kept
<1>4. ASSUME Take("expire") PROVE RowsNext \subseteq Rows
  <2>1. PICK r \in running["expire"].todo :
          running' = [running EXCEPT !["expire"] =
              [at |-> "purge", row |-> {r}, todo |-> running["expire"].todo \ {r}]]
    BY <1>4 DEF Take
  <2> QED BY <1>1, <2>1 DEF KeepInv, DeactStateOK
<1>5. ASSUME NEW j \in Job,
             \/ j = "expire" /\ (PurgeUser \/ PurgeContent \/ MarkPending)
             \/ CasdoorDelete(j) \/ CasdoorFailed(j) \/ ClearRecord(j)
      PROVE  RowsNext \subseteq Rows
  <2>1. (\E at : Stage(j, at)) \/ Done(j) \/ Abort(j)
    BY <1>5 DEF PurgeUser, PurgeContent, MarkPending, CasdoorDelete,
       CasdoorFailed, ClearRecord
  <2> QED BY <1>1, <2>1, RunSteps DEF KeepInv
<1>6. ASSUME RetryStart \/ Take("retry") PROVE RowsNext \subseteq Rows
  BY <1>1, <1>6 DEF RetryStart, Take, KeepInv, DeactStateOK
<1>7. ASSUME KillService PROVE RowsNext \subseteq Rows
  BY <1>1, <1>7 DEF KillService, IdleRun
<1>8. ASSUME NEW p \in Person, LoginToken(p) \/ LoginStep(p)
      PROVE  UNCHANGED running
  BY <1>8 DEF LoginToken, LoginStep, LoginUser, LoginCheck, LoginRevoke
<1>9. ASSUME NEW v \in Account,
             FallsDue(v) \/ \E named \in BOOLEAN : Submit(v, named)
      PROVE  UNCHANGED running
  BY <1>9 DEF FallsDue, Submit
<1>10. ASSUME UNCHANGED running PROVE RowsNext \subseteq Rows
  BY <1>10
<1>11. ASSUME UNCHANGED deactVars PROVE UNCHANGED running
  BY <1>11 DEF deactVars
<1>12. ASSUME NEW j \in Job, RunStep(j)
       PROVE  ExpireStart \/ RowsNext \subseteq Rows
  BY <1>4, <1>5, <1>6, <1>12 DEF RunStep, ExpireStep, Job
<1> QED
  BY <1>2, <1>3, <1>7, <1>8, <1>9, <1>10, <1>11, <1>12 DEF DeactNext

\* Whoever is about to clear a record has deleted its owner in Casdoor.
LEMMA ClearStep ==
    ASSUME KeepInv, [DeactNext]_deactVars, NEW j \in Job, running'[j].at = "clear",
           NEW r \in running'[j].row
    PROVE  Owner(r.account) \notin casdoor'
<1>1. casdoor' \subseteq casdoor
  BY DEF DeactNext, deactVars, FallsDue, Submit, LoginToken, LoginStep, LoginUser,
     LoginCheck, LoginRevoke, RunStep, ExpireStep, ExpireStart, RetryStart, Take,
     PurgeUser, PurgeContent, MarkPending, CasdoorDelete, CasdoorFailed,
     ClearRecord, KillService
<1>2. ASSUME running'[j] = running[j] PROVE Owner(r.account) \notin casdoor'
  BY <1>1, <1>2 DEF KeepInv, RowsKept
<1>3. ASSUME CasdoorDelete(j) PROVE Owner(r.account) \notin casdoor'
  <2>1. PICK q \in running[j].row :
          \/ casdoor' = casdoor \ {Owner(q.account)}
          \/ Stage(j, "failed")
    BY <1>3 DEF CasdoorDelete
  <2>2. \E at : Stage(j, at)
    BY <1>3 DEF CasdoorDelete
  <2>3. running'[j].row = running[j].row /\ ~Stage(j, "failed")
    BY <2>2, RunSteps DEF KeepInv
  <2>4. q = r
    BY <2>1, <2>3 DEF KeepInv, DeactStateOK
  <2> QED BY <2>1, <2>3, <2>4
<1>4. ASSUME NEW i \in Job, RunStep(i), ~CasdoorDelete(i)
      PROVE  running'[j] = running[j]
  <2>1. CASE i = j
    <3>1. CASE Take(i) \/ (i = "expire" /\ ExpireStart) \/ (i = "retry" /\ RetryStart)
      BY <2>1, <3>1 DEF Take, ExpireStart, RetryStart, KeepInv, DeactStateOK
    <3>2. CASE CasdoorFailed(i) \/ ClearRecord(i)
               \/ (i = "expire" /\ (PurgeUser \/ PurgeContent \/ MarkPending))
      <4>1. \/ Stage(i, "content") \/ Stage(i, "mark") \/ Stage(i, "casdoor")
            \/ Done(i) \/ Abort(i)
        BY <3>2 DEF CasdoorFailed, ClearRecord, PurgeUser, PurgeContent, MarkPending
      <4> QED BY <2>1, <4>1, RunSteps DEF KeepInv
    <3> QED BY <1>4, <3>1, <3>2 DEF RunStep, ExpireStep
  <2>2. CASE i # j
    <3>1. CASE Take(i) \/ (i = "expire" /\ ExpireStart) \/ (i = "retry" /\ RetryStart)
      BY <2>2, <3>1 DEF Take, ExpireStart, RetryStart, KeepInv, DeactStateOK
    <3>2. CASE CasdoorFailed(i) \/ ClearRecord(i)
               \/ (i = "expire" /\ (PurgeUser \/ PurgeContent \/ MarkPending))
      <4>1. (\E at : Stage(i, at)) \/ Done(i) \/ Abort(i)
        BY <3>2 DEF CasdoorFailed, ClearRecord, PurgeUser, PurgeContent, MarkPending
      <4> QED BY <2>2, <4>1, RunSteps DEF KeepInv
    <3> QED BY <1>4, <3>1, <3>2 DEF RunStep, ExpireStep
  <2> QED BY <2>1, <2>2
<1>5. ASSUME NEW i \in Job, CasdoorDelete(i), i # j PROVE running'[j] = running[j]
  <2>1. \E at : Stage(i, at)
    BY <1>5 DEF CasdoorDelete
  <2> QED BY <1>5, <2>1, RunSteps DEF KeepInv
<1>6. ASSUME KillService PROVE FALSE
  BY <1>6 DEF KillService, IdleRun
<1>7. ASSUME NEW p \in Person, LoginToken(p) \/ LoginStep(p)
      PROVE  running'[j] = running[j]
  BY <1>7 DEF LoginToken, LoginStep, LoginUser, LoginCheck, LoginRevoke
<1>8. ASSUME NEW v \in Account,
             FallsDue(v) \/ \E named \in BOOLEAN : Submit(v, named)
      PROVE  running'[j] = running[j]
  BY <1>8 DEF FallsDue, Submit
<1>9. ASSUME UNCHANGED deactVars PROVE running'[j] = running[j]
  BY <1>9 DEF deactVars
<1> QED
  BY <1>2, <1>3, <1>4, <1>5, <1>6, <1>7, <1>8, <1>9 DEF DeactNext

LoginKept(p) ==
    /\ login[p].at \in {"idle", "user"} => login[p].account = {}
    /\ \A u \in login[p].account : Owner(u) = p /\ u \in returned

LEMMA LoginKeptStep ==
    ASSUME KeepInv, [DeactNext]_deactVars, NEW p \in Person
    PROVE  LoginKept(p)'
<1>1. LoginKept(p)
  BY DEF KeepInv, RowsKept, LoginKept
<1>2. DOMAIN login = Person /\ login[p].account \subseteq Account
  BY DEF KeepInv, DeactStateOK
<1>3. ASSUME NEW v \in Account, NEW named \in BOOLEAN, Submit(v, named)
      PROVE  LoginKept(p)'
  BY <1>1, <1>3 DEF Submit, LoginKept
<1>4. ASSUME NEW q \in Person, LoginToken(q) PROVE LoginKept(p)'
  BY <1>1, <1>2, <1>4 DEF LoginToken, LoginKept, KeepInv, DeactStateOK
<1>5. ASSUME NEW q \in Person, LoginUser(q) PROVE LoginKept(p)'
  <2>1. PICK u \in Account :
          /\ Owner(u) = q
          /\ login' = [login EXCEPT ![q].at = "check", ![q].account = {u}]
          /\ returned' = returned \cup {u}
    BY <1>5 DEF LoginUser
  <2>2. CASE p = q
    <3>1. login'[p].at = "check" /\ login'[p].account = {u}
      BY <1>2, <2>1, <2>2 DEF KeepInv, DeactStateOK
    <3> QED BY <2>1, <2>2, <3>1 DEF LoginKept
  <2>3. CASE p # q
    BY <1>1, <1>2, <2>1, <2>3 DEF LoginKept, KeepInv, DeactStateOK
  <2> QED BY <2>2, <2>3
<1>6. ASSUME NEW q \in Person, LoginCheck(q) PROVE LoginKept(p)'
  <2>1. PICK u \in login[q].account :
          login' = [login EXCEPT ![q] =
              IF Has(u, "cooling")
              THEN [at |-> "revoke", account |-> {u}, id |-> record[u].id]
              ELSE IdleLogin]
    BY <1>6 DEF LoginCheck
  <2>2. UNCHANGED returned
    BY <1>6 DEF LoginCheck
  <2>3. CASE p = q
    BY <1>1, <1>2, <2>1, <2>2, <2>3 DEF LoginKept, IdleLogin
  <2>4. CASE p # q
    BY <1>1, <1>2, <2>1, <2>2, <2>4 DEF LoginKept
  <2> QED BY <2>3, <2>4
<1>7. ASSUME NEW q \in Person, LoginRevoke(q) PROVE LoginKept(p)'
  BY <1>1, <1>2, <1>7 DEF LoginRevoke, LoginKept, IdleLogin
<1>8. CASE KillService
  BY <1>8 DEF KillService, LoginKept, IdleLogin
<1>9. ASSUME UNCHANGED <<login, returned>> PROVE LoginKept(p)'
  BY <1>1, <1>9 DEF LoginKept
<1>10. ASSUME NEW j \in Job, RunStep(j) PROVE UNCHANGED <<login, returned>>
  BY <1>10, JobRestStep DEF KeepInv
<1>11. ASSUME NEW v \in Account, FallsDue(v) PROVE UNCHANGED <<login, returned>>
  BY <1>11 DEF FallsDue
<1>12. ASSUME UNCHANGED deactVars PROVE UNCHANGED <<login, returned>>
  BY <1>12 DEF deactVars
<1> QED
  BY <1>3, <1>4, <1>5, <1>6, <1>7, <1>8, <1>9, <1>10, <1>11, <1>12
     DEF DeactNext, LoginStep

LEMMA InitKeep == DeactInit => KeepInv
<1> SUFFICES ASSUME DeactInit PROVE KeepInv
  OBVIOUS
<1>1. RowsKept
  BY DEF DeactInit, RowsKept, IdleRun, IdleLogin, Job
<1>2. \A u \in Account : local[u] \notin {"content", "gone"}
  BY DEF DeactInit
<1> QED BY <1>1, <1>2, InitStateOK DEF KeepInv

LEMMA KeepInvariant == DeactSpec => []KeepInv
<1>1. KeepInv /\ [DeactNext]_deactVars => RowsKept'
  BY ExpireRowsStep, ClearStep, LoginKeptStep DEF RowsKept, LoginKept
<1>2. KeepInv /\ [DeactNext]_deactVars => KeepInv'
  BY <1>1, NextStateOK, LostIsKept DEF KeepInv
<1> QED BY <1>2, InitKeep, PTL DEF DeactSpec

\* Whatever fails and whoever is killed, a purge that nobody's login met has
\* its record until the central account is deleted.
THEOREM PurgeIsRemembered == DeactSpec => []PurgeRemembered
<1>1. KeepInv => PurgeRemembered
  BY DEF KeepInv, PurgeRemembered, Kept
<1> QED BY <1>1, KeepInvariant, PTL

----------------------------------------------------------------------------
(* The order of the scan                                                   *)

LEMMA RemovedRows ==
    ASSUME NEW rows \in Seq(Account), IsInjective(rows), NEW u
    PROVE  /\ RemoveFirst(rows, u) \in Seq(Account)
           /\ IsInjective(RemoveFirst(rows, u))
           /\ ToSet(RemoveFirst(rows, u)) = ToSet(rows) \ {u}
<1>1. CASE ~\E i \in 1..Len(rows) : rows[i] = u
  <2>1. RemoveFirst(rows, u) = rows
    BY <1>1 DEF RemoveFirst
  <2>2. u \notin ToSet(rows)
    BY <1>1 DEF ToSet
  <2> QED BY <2>1, <2>2
<1>2. CASE \E i \in 1..Len(rows) : rows[i] = u
  <2>1. PICK i \in 1..Len(rows) : rows[i] = u
    BY <1>2
  <2>2. Len(rows) \in Nat /\ i \in Nat /\ i >= 1 /\ i <= Len(rows)
    BY <2>1
  <2>3. {x \in 1..Len(rows) : rows[x] = u} = {i}
    BY <2>1 DEF IsInjective
  <2>4. Min({i}) = i
    BY <2>2 DEF Min
  <2>5. SelectInSeq(rows, LAMBDA v : v = u) = i
    BY <2>3, <2>4 DEF SelectInSeq
  <2>6. RemoveFirst(rows, u) = RemoveAt(rows, i)
    BY <1>2, <2>5 DEF RemoveFirst
  <2> DEFINE a == SubSeq(rows, 1, i - 1)
             b == SubSeq(rows, i + 1, Len(rows))
             left == RemoveAt(rows, i)
  <2>7. /\ a \in Seq(Account) /\ Len(a) = i - 1
        /\ \A x \in 1..(i - 1) : a[x] = rows[x]
    BY <2>2
  <2>8. /\ b \in Seq(Account) /\ Len(b) = Len(rows) - i
        /\ \A x \in 1..(Len(rows) - i) : b[x] = rows[x + i]
    BY <2>2
  <2>9. left = a \o b
    BY DEF RemoveAt
  <2> HIDE DEF a, b, left
  <2>10. left \in Seq(Account) /\ Len(left) = Len(rows) - 1
    <3>1. Len(a \o b) = Len(a) + Len(b) /\ a \o b \in Seq(Account)
      <4>1. a \in Seq(Account) /\ b \in Seq(Account)
        BY <2>7, <2>8
      <4> QED BY <4>1
    <3>2. Len(a) + Len(b) = Len(rows) - 1
      BY <2>2, <2>7, <2>8
    <3> QED BY <2>9, <3>1, <3>2
  <2>11. \A x \in 1..(Len(rows) - 1) :
            left[x] = IF x < i THEN rows[x] ELSE rows[x + 1]
    <3> SUFFICES ASSUME NEW x \in 1..(Len(rows) - 1)
                 PROVE  left[x] = IF x < i THEN rows[x] ELSE rows[x + 1]
      OBVIOUS
    <3>1. CASE x < i
      <4>1. x \in 1..(i - 1) /\ x \in 1..Len(a)
        BY <2>2, <2>7, <3>1
      <4>2. left[x] = a[x]
        BY <2>7, <2>8, <2>9, <4>1
      <4> QED BY <2>7, <3>1, <4>1, <4>2
    <3>2. CASE ~(x < i)
      <4>1. /\ x - (i - 1) \in 1..(Len(rows) - i) /\ x \in Len(a) + 1..Len(a) + Len(b)
            /\ (x - (i - 1)) + i = x + 1
        BY <2>2, <2>7, <2>8, <3>2
      <4>2. left[x] = b[x - (i - 1)]
        BY <2>2, <2>7, <2>8, <2>9, <4>1
      <4> QED BY <2>8, <3>2, <4>1, <4>2
    <3> QED BY <3>1, <3>2
  <2>12. IsInjective(left)
    <3> SUFFICES ASSUME NEW x \in 1..(Len(rows) - 1), NEW y \in 1..(Len(rows) - 1),
                        left[x] = left[y]
                 PROVE  x = y
      BY <2>10 DEF IsInjective
    <3> QED BY <2>2, <2>11 DEF IsInjective
  <2>13. ToSet(left) = ToSet(rows) \ {u}
    <3>1. ASSUME NEW x \in 1..(Len(rows) - 1) PROVE left[x] \in ToSet(rows) \ {u}
      BY <2>1, <2>2, <2>11, <3>1 DEF IsInjective, ToSet
    <3>2. ASSUME NEW y \in 1..Len(rows), rows[y] # u PROVE rows[y] \in ToSet(left)
      <4>1. CASE y < i
        <5>1. y \in 1..(Len(rows) - 1) /\ left[y] = rows[y]
          BY <2>2, <2>11, <4>1
        <5> QED BY <2>10, <5>1 DEF ToSet
      <4>2. CASE ~(y < i)
        <5>1. y # i
          BY <2>1, <3>2
        <5>2. y - 1 \in 1..(Len(rows) - 1) /\ ~(y - 1 < i) /\ (y - 1) + 1 = y
          BY <2>2, <4>2, <5>1
        <5>3. left[y - 1] = rows[y]
          BY <2>11, <5>2
        <5> QED BY <2>10, <5>2, <5>3 DEF ToSet
      <4> QED BY <4>1, <4>2
    <3>3. \A e \in ToSet(left) : \E x \in 1..(Len(rows) - 1) : e = left[x]
      BY <2>10 DEF ToSet
    <3>4. \A e \in ToSet(rows) : \E y \in 1..Len(rows) : e = rows[y]
      BY DEF ToSet
    <3> QED BY <3>1, <3>2, <3>3, <3>4
  <2> QED BY <2>6, <2>10, <2>12, <2>13 DEF left
<1> QED BY <1>1, <1>2

LEMMA AppendedRows ==
    ASSUME NEW rows \in Seq(Account), IsInjective(rows),
           NEW u \in Account, u \notin ToSet(rows)
    PROVE  /\ Append(rows, u) \in Seq(Account)
           /\ IsInjective(Append(rows, u))
           /\ ToSet(Append(rows, u)) = ToSet(rows) \cup {u}
<1> DEFINE more == Append(rows, u)
<1>1. /\ more \in Seq(Account) /\ Len(more) = Len(rows) + 1 /\ Len(rows) \in Nat
      /\ more[Len(rows) + 1] = u
      /\ \A x \in 1..Len(rows) : more[x] = rows[x]
  OBVIOUS
<1> HIDE DEF more
<1>2. \A x \in 1..Len(rows) : rows[x] # u
  BY DEF ToSet
<1>3. \A x \in 1..(Len(rows) + 1) : x \in 1..Len(rows) \/ x = Len(rows) + 1
  BY <1>1
<1>4. IsInjective(more)
  BY <1>1, <1>2, <1>3 DEF IsInjective
<1>5. ToSet(more) = ToSet(rows) \cup {u}
  BY <1>1, <1>3 DEF ToSet
<1> QED BY <1>1, <1>4, <1>5 DEF more

Pending == {u \in Account : Has(u, "pending")}

\* How a step moves the order: not at all, or one row leaves it, joins its end,
\* or moves to its end.
ScanMoves ==
    \/ touched' = touched /\ Pending' = Pending
    \/ \E u \in Account : touched' = RemoveFirst(touched, u) /\ Pending' = Pending \ {u}
    \/ \E u \in Account \ Pending :
          touched' = Append(touched, u) /\ Pending' = Pending \cup {u}
    \/ \E u \in Pending :
          touched' = Append(RemoveFirst(touched, u), u) /\ Pending' = Pending

LEMMA ScanMovesWell == ASSUME ScanOrderOK, ScanMoves PROVE ScanOrderOK'
<1>1. /\ touched \in Seq(Account) /\ ToSet(touched) = Pending /\ IsInjective(touched)
  BY DEF ScanOrderOK, Pending
<1>2. /\ touched' \in Seq(Account) /\ ToSet(touched') = Pending' /\ IsInjective(touched')
  <2>1. CASE touched' = touched /\ Pending' = Pending
    BY <1>1, <2>1
  <2>2. ASSUME NEW u \in Account, touched' = RemoveFirst(touched, u),
               Pending' = Pending \ {u}
        PROVE  /\ touched' \in Seq(Account) /\ ToSet(touched') = Pending'
               /\ IsInjective(touched')
    BY <1>1, <2>2, RemovedRows
  <2>3. ASSUME NEW u \in Account \ Pending, touched' = Append(touched, u),
               Pending' = Pending \cup {u}
        PROVE  /\ touched' \in Seq(Account) /\ ToSet(touched') = Pending'
               /\ IsInjective(touched')
    BY <1>1, <2>3, AppendedRows
  <2>4. ASSUME NEW u \in Pending, touched' = Append(RemoveFirst(touched, u), u),
               Pending' = Pending
        PROVE  /\ touched' \in Seq(Account) /\ ToSet(touched') = Pending'
               /\ IsInjective(touched')
    <3>1. u \in Account
      BY DEF Pending
    <3>2. PICK rest : rest = RemoveFirst(touched, u)
      OBVIOUS
    <3>3. rest \in Seq(Account) /\ IsInjective(rest) /\ ToSet(rest) = Pending \ {u}
      BY <1>1, <3>2, RemovedRows
    <3>4. /\ Append(rest, u) \in Seq(Account) /\ IsInjective(Append(rest, u))
          /\ ToSet(Append(rest, u)) = ToSet(rest) \cup {u}
      BY <3>1, <3>3, AppendedRows
    <3> QED BY <2>4, <3>2, <3>3, <3>4
  <2> QED BY <2>1, <2>2, <2>3, <2>4 DEF ScanMoves
<1> QED BY <1>2 DEF ScanOrderOK, Pending

LEMMA RecordMovesScan ==
    ASSUME DeactStateOK, NEW u \in Account, NEW r,
           record' = [record EXCEPT ![u] = r]
    PROVE  Pending' = IF r.status = "pending" THEN Pending \cup {u} ELSE Pending \ {u}
BY DEF Pending, Has, DeactStateOK

LEMMA ScanStep == ASSUME DeactStateOK, [DeactNext]_deactVars PROVE ScanMoves
<1>1. ASSUME NEW u \in Account, NEW named \in BOOLEAN, Submit(u, named) PROVE ScanMoves
  <2>1. u \notin Pending /\ touched' = touched
    BY <1>1 DEF Submit, Pending, Has
  <2>2. Pending' = Pending \ {u}
    <3> DEFINE r == [id |-> ids + 1, status |-> "cooling", named |-> named, due |-> FALSE]
    <3>1. record' = [record EXCEPT ![u] = r] /\ r.status # "pending"
      BY <1>1 DEF Submit
    <3> HIDE DEF r
    <3> QED BY <3>1, RecordMovesScan
  <2> QED BY <2>1, <2>2 DEF ScanMoves
<1>2. ASSUME NEW u \in Account, FallsDue(u) PROVE ScanMoves
  <2>1. u \notin Pending /\ touched' = touched /\ record[u].status = "cooling"
    BY <1>2 DEF FallsDue, Pending, Has
  <2>2. record' = [record EXCEPT ![u] = [record[u] EXCEPT !.due = TRUE]]
    BY <1>2 DEF FallsDue
  <2>3. record[u] \in Record \cup {NoRecord}
    BY DEF DeactStateOK
  <2>4. [record[u] EXCEPT !.due = TRUE].status = "cooling"
    BY <2>1, <2>3 DEF Record, NoRecord
  <2>5. Pending' = Pending \ {u}
    BY <2>2, <2>4, RecordMovesScan
  <2> QED BY <2>1, <2>5 DEF ScanMoves
<1>3. ASSUME UNCHANGED <<record, touched>> PROVE ScanMoves
  BY <1>3 DEF ScanMoves, Pending, Has
<1>4. ASSUME NEW u \in Account, record' = [record EXCEPT ![u] = NoRecord],
             touched' = RemoveFirst(touched, u)
      PROVE  ScanMoves
  <2>1. NoRecord.status # "pending"
    BY DEF NoRecord
  <2>2. Pending' = Pending \ {u}
    BY <1>4, <2>1, RecordMovesScan
  <2> QED BY <1>4, <2>2 DEF ScanMoves
<1>5. ASSUME NEW p \in Person, LoginToken(p) \/ LoginStep(p) PROVE ScanMoves
  <2>1. login[p].account \subseteq Account
    BY DEF DeactStateOK
  <2> QED BY <1>3, <1>4, <1>5, <2>1
          DEF LoginToken, LoginStep, LoginUser, LoginCheck, LoginRevoke
<1>6. ASSUME NEW j \in Job, RunStep(j) PROVE ScanMoves
  <2>1. \A r \in running[j].row : r.account \in Account
    BY DEF DeactStateOK, Row
  <2>2. ASSUME j = "expire", MarkPending PROVE ScanMoves
    <3>1. PICK r \in running["expire"].row :
             \/ UNCHANGED <<record, touched>>
             \/ /\ Has(r.account, "cooling")
                /\ record' = [record EXCEPT ![r.account].status = "pending"]
                /\ touched' = Append(touched, r.account)
      BY <2>2 DEF MarkPending
    <3> DEFINE u == r.account
    <3>2. u \in Account
      BY <2>1, <2>2, <3>1
    <3> HIDE DEF u
    <3>3. ASSUME Has(u, "cooling"), touched' = Append(touched, u),
                 record' = [record EXCEPT ![u].status = "pending"]
          PROVE  ScanMoves
      <4>1. u \notin Pending
        BY <3>3 DEF Pending, Has
      <4>2. record' = [record EXCEPT ![u] = [record[u] EXCEPT !.status = "pending"]]
        BY <3>3
      <4>3. [record[u] EXCEPT !.status = "pending"].status = "pending"
        BY <3>2 DEF DeactStateOK, Record, NoRecord
      <4>4. Pending' = Pending \cup {u}
        BY <3>2, <4>2, <4>3, RecordMovesScan
      <4> QED BY <3>2, <3>3, <4>1, <4>4 DEF ScanMoves
    <3> QED BY <1>3, <3>1, <3>3 DEF u
  <2>3. ASSUME CasdoorFailed(j) PROVE ScanMoves
    <3>1. record' = record
      BY <2>3 DEF CasdoorFailed
    <3>2. PICK r \in running[j].row :
             \/ touched' = touched
             \/ /\ \/ j = "retry" /\ Has(r.account, "pending")
                   \/ j # "retry" /\ r.account \in ListedPending
                /\ touched' = Append(RemoveFirst(touched, r.account), r.account)
      BY <2>3 DEF CasdoorFailed
    <3>3. r.account \in Account
      BY <2>1, <3>2
    <3>4. touched' = touched \/ r.account \in Pending
      BY <3>2, <3>3 DEF Pending, ListedPending
    <3>5. Pending' = Pending
      BY <3>1 DEF Pending, Has
    <3> QED BY <3>2, <3>4, <3>5 DEF ScanMoves
  <2>4. ASSUME ClearRecord(j) PROVE ScanMoves
    BY <1>3, <1>4, <2>1, <2>4 DEF ClearRecord
  <2>5. ASSUME ExpireStart \/ RetryStart \/ PurgeUser \/ PurgeContent
               \/ Take(j) \/ CasdoorDelete(j)
        PROVE  UNCHANGED <<record, touched>>
    BY <2>5, Zenon DEF ExpireStart, RetryStart, PurgeUser, PurgeContent, Take, CasdoorDelete
  <2> QED BY <1>3, <1>6, <2>2, <2>3, <2>4, <2>5 DEF RunStep, ExpireStep
<1>7. ASSUME KillService \/ UNCHANGED deactVars PROVE UNCHANGED <<record, touched>>
  BY <1>7 DEF KillService, deactVars
<1> QED BY <1>1, <1>2, <1>3, <1>5, <1>6, <1>7 DEF DeactNext

\* The state keeps its type: among what that says, a person has one account at
\* a time, and the order in which the compensation scans the rows is one of
\* exactly the pending ones, each once, whatever submits, revokes, marks and
\* clears them in between.
THEOREM DeactivationIsTyped == DeactSpec => []DeactTypeOK
<1>1. DeactInit => ScanOrderOK
  BY DEF DeactInit, ScanOrderOK, ToSet, IsInjective, Has, NoRecord
<1>2. DeactStateOK /\ ScanOrderOK /\ [DeactNext]_deactVars => ScanOrderOK'
  BY ScanStep, ScanMovesWell
<1>3. DeactStateOK /\ ScanOrderOK => DeactTypeOK
  BY DEF DeactTypeOK
<1> QED BY <1>1, <1>2, <1>3, InitStateOK, NextStateOK, PTL DEF DeactSpec

=============================================================================
