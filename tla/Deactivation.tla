---------------------------- MODULE Deactivation ----------------------------
(***************************************************************************)
(* Closing an account: the cooling-off record, the login that takes it     *)
(* back, the timer job that purges the local data of what is due, and the  *)
(* deletion of the central Casdoor account with its compensation job.      *)
(*                                                                         *)
(* The local user is in PostgreSQL, the user's content and the record in   *)
(* MySQL and the central account in Casdoor: there is one action for each  *)
(* transaction or call, so logins, the two jobs and crashes fall between   *)
(* any two of them.                                                        *)
(*                                                                         *)
(* A person whose local user was purged gets a new one at the next login:  *)
(* <<p, n>> is the n-th local account of person p.                         *)
(***************************************************************************)
EXTENDS Naturals, Sequences, FiniteSets, SequencesExt

CONSTANTS
    Person,       \* Casdoor users; the first account of each is there
    Lives,        \* bound: local accounts of a person
    Limit,        \* rows a scan returns: the limit=100 of the queries
    MaxSubmits,   \* bound: deactivation records written
    MaxLogins,    \* bound: logins begun
    MaxFailures     \* bound: failures and kills

ASSUME PersonAssumption == IsFiniteSet(Person)
ASSUME BoundAssumption ==
    /\ Lives \in Nat \ {0} /\ Limit \in Nat \ {0}
    /\ MaxSubmits \in Nat /\ MaxLogins \in Nat /\ MaxFailures \in Nat

VARIABLES
    local,      \* what is left of each local account
    casdoor,    \* persons whose Casdoor account exists
    record,     \* msg_user_deactivation, by account
    touched,    \* the pending rows in the order of their updated_at
    running,        \* the runs of the two timer jobs
    login,      \* where the login of each person stands
    returned,   \* accounts a login has found since they were last submitted
    ids,        \* records written so far
    allowance      \* logins and failures to come

deactVars == <<local, casdoor, record, touched, running, login, returned, ids, allowance>>

Account == Person \X (1..Lives)
Owner(u) == u[1]

Job == {"expire", "retry"}
Id == 1..MaxSubmits

\* user_name is the owner's Casdoor name or absent.
Record == [id: Id, status: {"cooling", "pending"}, named: BOOLEAN, due: BOOLEAN]
NoRecord == [id |-> 0, status |-> "none", named |-> FALSE, due |-> FALSE]
Has(u, status) == record[u].status = status

\* A row as a job loaded it.
Row == [account: Account, id: Id, named: BOOLEAN]
RowOf(u) == [account |-> u, id |-> record[u].id, named |-> record[u].named]

IdleRun == [at |-> "idle", row |-> {}, todo |-> {}]
IdleLogin == [at |-> "idle", account |-> {}, id |-> 0]

DeactStateOK ==
    /\ local \in [Account -> {"none", "full", "content", "gone"}]
    /\ casdoor \subseteq Person
    /\ record \in [Account -> Record \cup {NoRecord}]
    /\ running \in [Job -> [at: {"idle", "next", "purge", "content", "mark",
                             "casdoor", "clear", "failed"},
                        row: {{}} \cup {{r} : r \in Row}, todo: SUBSET Row]]
    /\ login \in [Person -> [at: {"idle", "user", "check", "revoke"},
                             account: {{}} \cup {{u} : u \in Account}, id: 0..MaxSubmits]]
    /\ returned \subseteq Account
    /\ ids \in 0..MaxSubmits
    /\ allowance \in [{"login", "fault"} -> Nat]
    \* a person has one account at a time
    /\ \A u, v \in Account :
          Owner(u) = Owner(v) /\ local[u] = "full" /\ local[v] = "full" => u = v

\* The order of the scan is an order of what is pending, each row once.
ScanOrderOK ==
    /\ touched \in Seq(Account)
    /\ ToSet(touched) = {u \in Account : Has(u, "pending")}
    /\ IsInjective(touched)

DeactTypeOK == DeactStateOK /\ ScanOrderOK

DeactInit ==
    /\ local = [u \in Account |-> IF u[2] = 1 THEN "full" ELSE "none"]
    /\ casdoor = Person
    /\ record = [u \in Account |-> NoRecord]
    /\ touched = <<>>
    /\ running = [j \in Job |-> IdleRun]
    /\ login = [p \in Person |-> IdleLogin]
    /\ returned = {}
    /\ ids = 0
    /\ allowance = [login |-> MaxLogins, fault |-> MaxFailures]

Spend(kind) == allowance[kind] > 0 /\ allowance' = [allowance EXCEPT ![kind] = @ - 1]
NoFailure == UNCHANGED allowance
Fails == Spend("fault")

----------------------------------------------------------------------------
(* Submitting                                                              *)

\* By the account itself, whose token outlives a purge, or, without a name,
\* by an administrator.  A record that is there is kept, or is an error.
Submit(u, named) ==
    /\ local[u] # "none"
    /\ Has(u, "none")
    /\ ids < MaxSubmits
    /\ ids' = ids + 1
    /\ record' = [record EXCEPT ![u] =
          [id |-> ids + 1, status |-> "cooling", named |-> named, due |-> FALSE]]
    /\ returned' = IF login[Owner(u)].at = "idle" THEN returned \ {u} ELSE returned
    /\ UNCHANGED <<local, casdoor, touched, running, login, allowance>>

\* delete_after passes.
FallsDue(u) ==
    /\ Has(u, "cooling") /\ ~record[u].due
    /\ record' = [record EXCEPT ![u].due = TRUE]
    /\ UNCHANGED <<local, casdoor, touched, running, login, returned, ids, allowance>>

----------------------------------------------------------------------------
(* casdoor_callback                                                        *)

LoginToken(p) ==
    /\ login[p].at = "idle"
    /\ p \in casdoor
    /\ Spend("login")
    /\ login' = [login EXCEPT ![p].at = "user"]
    /\ UNCHANGED <<local, casdoor, record, touched, running, returned, ids>>

\* Seeded bug: the account is looked up by the name alone, and a name that is
\* taken is varied until it is free.
LoginUserCreates(p) ==
    /\ login[p].at = "user"
    /\ \E u \in Account :
          /\ Owner(u) = p
          /\ local[u] = "none"
          /\ \A v \in Account : Owner(v) = p /\ v[2] < u[2] => local[v] # "none"
          /\ local' = [local EXCEPT ![u] = "full"]
          /\ login' = [login EXCEPT ![p].at = "check", ![p].account = {u}]
          /\ returned' = returned \cup {u}
    /\ UNCHANGED <<casdoor, record, touched, running, ids, allowance>>

\* create_local_user_from_casdoor: the account is looked up by the e-mail
\* address, one for each person here, and created when it is not there.
LoginUser(p) ==
    /\ login[p].at = "user"
    /\ \E u \in Account :
          /\ Owner(u) = p
          /\ \/ local[u] = "full" /\ UNCHANGED local
             \/ /\ local[u] = "none"
                /\ \A v \in Account : Owner(v) = p => /\ local[v] # "full"
                                                      /\ v[2] < u[2] => local[v] # "none"
                /\ local' = [local EXCEPT ![u] = "full"]
          /\ login' = [login EXCEPT ![p].at = "check", ![p].account = {u}]
          /\ returned' = returned \cup {u}
    /\ UNCHANGED <<casdoor, record, touched, running, ids, allowance>>

\* auto_revoke_if_cooling loads the row ...
LoginCheck(p) ==
    /\ login[p].at = "check"
    /\ \E u \in login[p].account :
          login' = [login EXCEPT ![p] =
              IF Has(u, "cooling")
              THEN [at |-> "revoke", account |-> {u}, id |-> record[u].id]
              ELSE IdleLogin]
    /\ UNCHANGED <<local, casdoor, record, touched, running, returned, ids, allowance>>

\* ... and deletes it by its id, whatever its status is by then.  A failure
\* does not hold up the login.
LoginRevoke(p) ==
    /\ login[p].at = "revoke"
    /\ \E u \in login[p].account :
          \/ /\ record[u].id = login[p].id
             /\ record' = [record EXCEPT ![u] = NoRecord]
             /\ touched' = RemoveFirst(touched, u)
             /\ NoFailure
          \/ record[u].id # login[p].id /\ NoFailure /\ UNCHANGED <<record, touched>>
          \/ Fails /\ UNCHANGED <<record, touched>>
    /\ login' = [login EXCEPT ![p] = IdleLogin]
    /\ UNCHANGED <<local, casdoor, running, returned, ids>>

----------------------------------------------------------------------------
(* The two jobs                                                            *)

Stage(j, at) == running' = [running EXCEPT ![j].at = at]

\* The next row of the run, or its end.
Done(j) == running' = [running EXCEPT ![j] =
    [at |-> IF running[j].todo = {} THEN "idle" ELSE "next", row |-> {},
     todo |-> running[j].todo]]

Abort(j) == running' = [running EXCEPT ![j] = IdleRun]

JobOnly == UNCHANGED <<login, returned, ids>>

\* list_due: by delete_after, which grows with the id.
Due == {u \in Account : Has(u, "cooling") /\ record[u].due}
ListedDue ==
    {u \in Due : Cardinality({v \in Due : record[v].id < record[u].id}) < Limit}

ExpireStart ==
    /\ running["expire"].at = "idle"
    /\ Due # {}
    /\ running' = [running EXCEPT !["expire"] =
          [at |-> "next", row |-> {}, todo |-> {RowOf(u) : u \in ListedDue}]]
    /\ JobOnly /\ UNCHANGED <<local, casdoor, record, touched, allowance>>

\* list_pending_casdoor: by updated_at.
ListedPending ==
    {u \in Account : /\ Has(u, "pending")
                     /\ \E i \in DOMAIN touched : i <= Limit /\ touched[i] = u}

RetryStart ==
    /\ running["retry"].at = "idle"
    /\ touched # <<>>
    /\ running' = [running EXCEPT !["retry"] =
          [at |-> "next", row |-> {}, todo |-> {RowOf(u) : u \in ListedPending}]]
    /\ JobOnly /\ UNCHANGED <<local, casdoor, record, touched, allowance>>

\* Only the limit depends on the order of a scan, so a run takes its rows in
\* any order.
Take(j) ==
    /\ running[j].at = "next"
    /\ \E r \in running[j].todo :
          running' = [running EXCEPT ![j] =
              [at |-> IF j = "expire" THEN "purge" ELSE "casdoor",
               row |-> {r}, todo |-> running[j].todo \ {r}]]
    /\ JobOnly /\ UNCHANGED <<local, casdoor, record, touched, allowance>>

\* Seeded bug: a purge that fails is taken for done.
PurgeUserIgnoresError ==
    /\ running["expire"].at = "purge"
    /\ \E r \in running["expire"].row :
          \/ /\ NoFailure
             /\ local' = [local EXCEPT ![r.account] =
                              IF @ = "full" THEN "content" ELSE @]
             /\ Stage("expire", "content")
          \/ Fails /\ Stage("expire", "mark") /\ UNCHANGED local
    /\ JobOnly /\ UNCHANGED <<casdoor, record, touched>>

\* _delete_pptr_user; a failure leaves the row for a later run.
PurgeUser ==
    /\ running["expire"].at = "purge"
    /\ \E r \in running["expire"].row :
          \/ /\ NoFailure
             /\ local' = [local EXCEPT ![r.account] =
                              IF @ = "full" THEN "content" ELSE @]
             /\ Stage("expire", "content")
          \/ Fails /\ Done("expire") /\ UNCHANGED local
    /\ JobOnly /\ UNCHANGED <<casdoor, record, touched>>

\* _delete_message_data
PurgeContent ==
    /\ running["expire"].at = "content"
    /\ \E r \in running["expire"].row :
          \/ /\ NoFailure
             /\ local' = [local EXCEPT ![r.account] = "gone"]
             /\ Stage("expire", "mark")
          \/ Fails /\ Done("expire") /\ UNCHANGED local
    /\ JobOnly /\ UNCHANGED <<casdoor, record, touched>>

\* Seeded bug: the row is deleted instead of kept for the compensation.
MarkPendingDeletes ==
    /\ running["expire"].at = "mark"
    /\ \E r \in running["expire"].row :
          \/ /\ Has(r.account, "cooling")
             /\ record' = [record EXCEPT ![r.account] = NoRecord]
             /\ NoFailure
             /\ Stage("expire", "casdoor")
          \/ ~Has(r.account, "cooling") /\ NoFailure /\ Stage("expire", "casdoor")
             /\ UNCHANGED record
          \/ Fails /\ Done("expire") /\ UNCHANGED record
    /\ JobOnly /\ UNCHANGED <<local, casdoor, touched>>

\* The cooling record, if there still is one, becomes the compensation's; the
\* central account is deleted next, if there is one or not.
MarkPending ==
    /\ running["expire"].at = "mark"
    /\ \E r \in running["expire"].row :
          \/ /\ Has(r.account, "cooling")
             /\ record' = [record EXCEPT ![r.account].status = "pending"]
             /\ touched' = Append(touched, r.account)
             /\ NoFailure
             /\ Stage("expire", "casdoor")
          \/ /\ ~Has(r.account, "cooling")
             /\ NoFailure
             /\ Stage("expire", "casdoor")
             /\ UNCHANGED <<record, touched>>
          \/ Fails /\ Done("expire") /\ UNCHANGED <<record, touched>>
    /\ JobOnly /\ UNCHANGED <<local, casdoor>>

\* delete_casdoor_user: an error without a name.  Deleting what is not there
\* succeeds; a failure may come after the deletion.
CasdoorDelete(j) ==
    /\ running[j].at = "casdoor"
    /\ \E r \in running[j].row :
          \/ /\ r.named
             /\ casdoor' = casdoor \ {Owner(r.account)}
             /\ \/ NoFailure /\ Stage(j, "clear")
                \/ Fails /\ Stage(j, "failed")
          \/ /\ r.named => Fails
             /\ ~r.named => NoFailure
             /\ Stage(j, "failed")
             /\ UNCHANGED casdoor
    /\ JobOnly /\ UNCHANGED <<local, record, touched>>

\* Seeded bug: the update leaves updated_at alone.
CasdoorFailedUntouched(j) ==
    /\ running[j].at = "failed"
    /\ NoFailure /\ Done(j)
    /\ JobOnly /\ UNCHANGED <<local, casdoor, record, touched>>

\* mark_casdoor_error: the retry job has its row, which may be gone by now; the
\* other one looks for it among the first of the scan.  Only updated_at tells
\* the result from the row before; an error of the database ends the run.
CasdoorFailed(j) ==
    /\ running[j].at = "failed"
    /\ \E r \in running[j].row :
          LET u == r.account
              found == IF j = "retry" THEN Has(u, "pending") /\ record[u].id = r.id
                                      ELSE u \in ListedPending
          IN
          \/ /\ found
             /\ touched' = Append(RemoveFirst(touched, u), u)
             /\ NoFailure /\ Done(j)
          \/ /\ ~found
             /\ NoFailure
             /\ IF j = "retry" THEN Abort(j) ELSE Done(j)
             /\ UNCHANGED touched
          \/ Fails /\ Abort(j) /\ UNCHANGED touched
    /\ JobOnly /\ UNCHANGED <<local, casdoor, record>>

\* The row is looked for again, among the first of the scan, and deleted.
ClearRecord(j) ==
    /\ running[j].at = "clear"
    /\ \E r \in running[j].row :
          LET u == r.account IN
          \/ /\ u \in ListedPending
             /\ record' = [record EXCEPT ![u] = NoRecord]
             /\ touched' = RemoveFirst(touched, u)
             /\ NoFailure /\ Done(j)
          \/ /\ u \notin ListedPending
             /\ NoFailure /\ Done(j)
             /\ UNCHANGED <<record, touched>>
          \/ Fails /\ Abort(j) /\ UNCHANGED <<record, touched>>
    /\ JobOnly /\ UNCHANGED <<local, casdoor>>

\* The process is killed and started again.
KillService ==
    /\ Fails
    /\ running' = [j \in Job |-> IdleRun]
    /\ login' = [p \in Person |-> IdleLogin]
    /\ UNCHANGED <<local, casdoor, record, touched, returned, ids>>

----------------------------------------------------------------------------

LoginStep(p) == LoginUser(p) \/ LoginCheck(p) \/ LoginRevoke(p)

ExpireStep == ExpireStart \/ PurgeUser \/ PurgeContent \/ MarkPending
RunStep(j) == \/ j = "expire" /\ ExpireStep
              \/ j = "retry" /\ RetryStart
              \/ Take(j) \/ CasdoorDelete(j) \/ CasdoorFailed(j) \/ ClearRecord(j)

DeactNext ==
    \/ \E u \in Account : FallsDue(u) \/ \E named \in BOOLEAN : Submit(u, named)
    \/ \E p \in Person : LoginToken(p) \/ LoginStep(p)
    \/ \E j \in Job : RunStep(j)
    \/ KillService

DeactSpec == DeactInit /\ [][DeactNext]_deactVars

\* Time passes, and a job runs again an hour after its last run.
DeactFairness ==
    /\ \A u \in Account : WF_deactVars(FallsDue(u))
    /\ \A j \in Job : WF_deactVars(RunStep(j))

DeactFairSpec == DeactSpec /\ DeactFairness

----------------------------------------------------------------------------
(* Properties                                                              *)

\* A record that waits for Casdoor stands for an account of which nothing is
\* left here, whoever has revoked and submitted again during the purge.
PendingMeansPurged == \A u \in Account : Has(u, "pending") => local[u] = "gone"

\* The central account goes last: never before a local account of its owner
\* has gone completely, failures in the middle of a purge included.
CasdoorLast ==
    \A p \in Person \ casdoor : \E u \in Account : Owner(u) = p /\ local[u] = "gone"

\* A purge is never forgotten halfway: unless a login came across the account
\* in the meantime, its record stands until Casdoor has deleted the owner.
PurgeRemembered ==
    \A u \in Account \ returned :
        local[u] \in {"content", "gone"} => \/ ~Has(u, "none")
                                            \/ Owner(u) \notin casdoor

\* A deactivation that names its Casdoor user ends, revoked or carried out,
\* though rows without a name fail for ever and fill the scan's limit.
NamedDeactivationEnds ==
    \A u \in Account : record[u].named ~> Has(u, "none")

\* Only what was not revoked is purged: an account that can log in loses its
\* data only while its deactivation stands.
PurgedOnlyIfNotRevoked ==
    [][\A u \in Account : local[u] = "full" /\ local'[u] # "full"
                            => Has(u, "cooling")]_deactVars

=============================================================================
