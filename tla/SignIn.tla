------------------------------- MODULE SignIn -------------------------------
(***************************************************************************)
(* Signing in with Casdoor: the callback that finds or creates the local   *)
(* account, the token it issues, and what reads or renews that token.      *)
(* app/api/pptr_user_gateway.py, app/services/user/casdoor_service.py,     *)
(* app/services/user/account/base.py, app/dependencies/user.py.            *)
(*                                                                         *)
(* A callback looks for the e-mail, then for up to two names, then creates *)
(* an account: queries and a transaction of PostgreSQL, which other        *)
(* callbacks, other services and a purge come between.                     *)
(***************************************************************************)
EXTENDS Integers, FiniteSets

CONSTANTS
    Person,        \* Casdoor users; a person is also the e-mail of that person
    Mailed,        \* those with an e-mail
    CasName,       \* their names in Casdoor
    Browser,       \* each signs in once at a time and keeps one cookie
    LastUid,       \* bound: accounts
    SignInRequests, \* bound: callbacks, requests of other services and purges
    LastSignDay    \* bound: days

NoMail == 0

ASSUME SignInAssumption ==
    /\ Person \subseteq Nat \ {NoMail} /\ Mailed \subseteq Person
    /\ CasName \in [Person -> Nat \ {0}]
    /\ {LastUid, SignInRequests, LastSignDay} \subseteq Nat

VARIABLES
    account,     \* TUserInfo and TUserDetail
    uids,        \* identifiers drawn so far
    browser,     \* the callback in progress
    cookie,      \* bili_jwt, and the person who signed in for it
    signDay,
    signAsks,    \* requests so far
    owner,       \* history: for whom an account was created
    crossed      \* history: persons some overlap or another service interfered with

signVars == <<account, uids, browser, cookie, signDay, signAsks, owner, crossed>>

Uid == 1 .. LastUid
\* Of the roles only root matters here; the others are in Growth.
AccountRole == {"level0", "root"}
\* What a token of a new account says instead of level0.
NewClaim == "0"
Mail == Person \cup {NoMail}

NoAccount == [name |-> 0, mail |-> NoMail, role |-> "level0"]
NoToken == [uid |-> 0, person |-> NoMail, role |-> NewClaim, day |-> 0]
NotSigning == [at |-> "idle", person |-> NoMail, nr |-> 0, name |-> 0,
               uid |-> 0, role |-> NewClaim]

SignInTypeOK ==
    /\ account \in [Uid -> [name : Int, mail : Mail, role : AccountRole]]
    /\ uids \in 0 .. LastUid
    /\ browser \in [Browser ->
          [at : {"idle", "mail", "name", "prefixed", "create", "insert", "record"},
           person : Mail, nr : 0 .. SignInRequests, name : Int, uid : {0} \cup Uid,
           role : AccountRole \cup {NewClaim}]]
    /\ cookie \in [Browser -> [uid : {0} \cup Uid, person : Mail,
                               role : AccountRole \cup {NewClaim}, day : 0 .. LastSignDay]]
    /\ signDay \in 0 .. LastSignDay
    /\ signAsks \in 0 .. SignInRequests
    /\ owner \in [Uid -> Mail] /\ crossed \subseteq Person
    \* the unique constraint of user_name
    /\ \A u, v \in Uid : account[u].name = account[v].name /\ account[u].name # 0 => u = v

SignInInit ==
    /\ account = [u \in Uid |-> NoAccount] /\ uids = 0
    /\ browser = [b \in Browser |-> NotSigning]
    /\ cookie = [b \in Browser |-> NoToken]
    /\ signDay = 0 /\ signAsks = 0
    /\ owner = [u \in Uid |-> NoMail] /\ crossed = {}

-----------------------------------------------------------------------------
(* The account tables                                                      *)

Exists(u) == account[u].name # 0
Named(n) == {u \in Uid : Exists(u) /\ account[u].name = n}
Taken(n) == Named(n) # {}
\* "bili_" before a name.
Prefixed(n) == n + 1
\* "bili_" and a uuid.
RandomName(b) == 0 - browser[b].nr

WithMail(m) == {u \in Uid : Exists(u) /\ account[u].mail = m /\ m # NoMail}
MailOf(p) == IF p \in Mailed THEN p ELSE NoMail

\* Seeded bug: the e-mail is not stored.
NewAccountMailless(n, m) == [name |-> n, mail |-> NoMail, role |-> "level0"]

\* The e-mail of the request and the lowest role; the rest is left out.
NewAccount(n, m) == [name |-> n, mail |-> m, role |-> "level0"]

\* Of an account that exists, only what the request has is overwritten.
Upserted(u, m) == [account EXCEPT ![u].mail = IF m = NoMail THEN @ ELSE m]

\* Whom it matters to that the e-mail of an account is written over.
Interferes(u, m) == {m, account[u].mail, owner[u]} \ {NoMail}

-----------------------------------------------------------------------------
(* The callback                                                            *)

Asks == signAsks < SignInRequests /\ signAsks' = signAsks + 1
Step(b, s) == browser' = [browser EXCEPT ![b] = s]
GoesTo(b, at) == Step(b, [browser[b] EXCEPT !.at = at])
Fails(b) == Step(b, NotSigning)
OnlyBrowser == UNCHANGED <<uids, cookie, signDay, signAsks, owner>>

\* Casdoor accepts the code and says who it is.
Callback(b, p) ==
    /\ browser[b] = NotSigning /\ Asks
    /\ Step(b, [NotSigning EXCEPT !.at = "mail", !.person = p, !.nr = signAsks + 1])
    /\ UNCHANGED <<account, uids, cookie, signDay, owner, crossed>>

\* Sign-ins of a person that are about to create an account.
Creating(p) == {b \in Browser : browser[b].person = p
                                  /\ browser[b].at \in {"name", "prefixed", "create", "insert"}}

\* By e-mail; the first of several rows is any of them.
LookByMail(b) ==
    /\ browser[b].at = "mail"
    /\ LET p == browser[b].person
           rows == WithMail(MailOf(p))
       IN \/ \E u \in rows :
                /\ Step(b, [browser[b] EXCEPT !.at = "record", !.uid = u,
                                              !.role = account[u].role])
                /\ UNCHANGED crossed
          \/ /\ rows = {}
             /\ Step(b, [browser[b] EXCEPT !.at = "name", !.name = CasName[p]])
             /\ crossed' = IF Creating(p) = {} THEN crossed ELSE crossed \cup {p}
    /\ OnlyBrowser /\ UNCHANGED account

\* By name, then by the name with a prefix, then no further.
LookByName(b) ==
    /\ browser[b].at \in {"name", "prefixed"}
    /\ LET s == browser[b] IN
       \/ ~Taken(s.name) /\ GoesTo(b, "create")
       \/ /\ Taken(s.name) /\ s.at = "name"
          /\ Step(b, [s EXCEPT !.at = "prefixed", !.name = Prefixed(@)])
       \/ /\ Taken(s.name) /\ s.at = "prefixed"
          /\ Step(b, [s EXCEPT !.at = "create", !.name = RandomName(b)])
    /\ OnlyBrowser /\ UNCHANGED <<account, crossed>>

\* create looks once more: an account that took the name meanwhile is given
\* the e-mail, and the callback answers that it failed.
CreateLooks(b) ==
    /\ browser[b].at = "create"
    /\ LET s == browser[b]
           m == MailOf(s.person)
       IN \/ \E u \in Named(s.name) :
                /\ account' = Upserted(u, m)
                /\ crossed' = crossed \cup Interferes(u, m)
                /\ Fails(b)
          \/ ~Taken(s.name) /\ GoesTo(b, "insert") /\ UNCHANGED <<account, crossed>>
    /\ OnlyBrowser

\* The unique constraint refuses the second of two rows.
CreateInserts(b) ==
    /\ browser[b].at = "insert"
    /\ LET s == browser[b] IN
       \/ /\ Taken(s.name) /\ Fails(b)
          /\ UNCHANGED <<account, uids, owner>>
       \/ /\ ~Taken(s.name) /\ uids < LastUid
          /\ uids' = uids + 1
          /\ account' = [account EXCEPT ![uids + 1] = NewAccount(s.name, MailOf(s.person))]
          /\ owner' = [owner EXCEPT ![uids + 1] = s.person]
          /\ Step(b, [s EXCEPT !.at = "record", !.uid = uids + 1])
    /\ UNCHANGED <<cookie, signDay, signAsks, crossed>>

Token(u, p, r) == [uid |-> u, person |-> p, role |-> r, day |-> signDay]

\* The record of the login refers to the account, which a purge may have taken;
\* then the token is issued.
Issue(b) ==
    /\ browser[b].at = "record"
    /\ LET s == browser[b] IN
       cookie' = IF Exists(s.uid) THEN [cookie EXCEPT ![b] = Token(s.uid, s.person, s.role)]
                 ELSE cookie
    /\ Fails(b)
    /\ UNCHANGED <<account, uids, signDay, signAsks, owner, crossed>>

-----------------------------------------------------------------------------
(* Requests with the cookie                                                *)

Holds(b) == cookie[b].uid # 0

\* The role the gateway writes into the headers, from the tables; while it
\* cannot ask, the dependency takes the one of the token.
RolesSeen(b) ==
    {cookie[b].role} \cup {account[u].role : u \in {cookie[b].uid} \cap {v \in Uid : Exists(v)}}

\* A token of an earlier day is signed again, with what it says.
IsOld(token) == token.day < signDay
Renewed(token) == [token EXCEPT !.day = signDay]

Nav(b) ==
    /\ Holds(b) /\ Exists(cookie[b].uid)
    /\ IsOld(cookie[b])
    /\ cookie' = [cookie EXCEPT ![b] = Renewed(@)]
    /\ UNCHANGED <<account, uids, browser, signDay, signAsks, owner, crossed>>

Refresh(b) ==
    /\ Holds(b) /\ Exists(cookie[b].uid)
    /\ cookie' = [cookie EXCEPT ![b] = Token(@.uid, @.person, account[@.uid].role)]
    /\ UNCHANGED <<account, uids, browser, signDay, signAsks, owner, crossed>>

\* set_user_role: a root stays one.
WithRoleOfAnyone(u, r) == [account EXCEPT ![u].role = r]
WithRole(u, r) == [account EXCEPT ![u].role = IF @ = "root" THEN @ ELSE r]

AdminSetsRole(b, u, r) ==
    /\ Holds(b) /\ "root" \in RolesSeen(b)
    /\ u # cookie[b].uid /\ Exists(u)
    /\ account' = WithRole(u, r)
    /\ UNCHANGED <<uids, browser, cookie, signDay, signAsks, owner, crossed>>

-----------------------------------------------------------------------------
(* Other services, and time                                                *)

OnlyAccounts == UNCHANGED <<browser, cookie, signDay>>

\* create_user of another service.
OutsideCreate(n, m) ==
    /\ Asks /\ OnlyAccounts
    /\ \/ \E u \in Named(n) :
             /\ account' = Upserted(u, m) /\ crossed' = crossed \cup Interferes(u, m)
             /\ UNCHANGED <<uids, owner>>
       \/ /\ ~Taken(n) /\ uids < LastUid
          /\ uids' = uids + 1
          /\ account' = [account EXCEPT ![uids + 1] = NewAccount(n, m)]
          /\ crossed' = crossed \cup ({m} \ {NoMail})
          /\ UNCHANGED owner

\* set_user_detail; a nickname that is taken refuses the whole request.
SetDetail(u, m) ==
    /\ Asks /\ OnlyAccounts /\ Exists(u)
    /\ account' = Upserted(u, m)
    /\ crossed' = crossed \cup Interferes(u, m)
    /\ UNCHANGED <<uids, owner>>

\* set_user_role of another service.
OutsideRole(u, r) ==
    /\ Asks /\ OnlyAccounts /\ Exists(u)
    /\ account' = WithRole(u, r)
    /\ UNCHANGED <<uids, owner, crossed>>

\* The purge of a deactivated account.
PurgeAccount(u) ==
    /\ Asks /\ OnlyAccounts /\ Exists(u)
    /\ account' = [account EXCEPT ![u] = NoAccount]
    /\ UNCHANGED <<uids, owner, crossed>>

NextSignDay ==
    /\ signDay < LastSignDay /\ signDay' = signDay + 1
    /\ UNCHANGED <<account, uids, browser, cookie, signAsks, owner, crossed>>

SignInNext ==
    \/ NextSignDay
    \/ \E b \in Browser :
          \/ \E p \in Person : Callback(b, p)
          \/ LookByMail(b) \/ LookByName(b) \/ CreateLooks(b) \/ CreateInserts(b) \/ Issue(b)
          \/ Nav(b) \/ Refresh(b)
          \/ \E u \in Uid, r \in AccountRole : AdminSetsRole(b, u, r)
    \/ \E p \in Person, m \in Mail : OutsideCreate(CasName[p], m)
    \/ \E u \in Uid :
          \/ PurgeAccount(u)
          \/ \E m \in Mail : SetDetail(u, m)
          \/ \E r \in AccountRole : OutsideRole(u, r)

SignInSpec == SignInInit /\ [][SignInNext]_signVars

-----------------------------------------------------------------------------
(* Properties                                                              *)

\* A person with an e-mail has at most one account, whatever names are taken
\* and whatever is purged, unless two first sign-ins of the person overlapped
\* or another service wrote that e-mail or name (create_local_user_from_casdoor).
OneAccountEach ==
    \A p \in Mailed \ crossed :
        Cardinality({u \in Uid : Exists(u) /\ owner[u] = p}) <= 1

\* A token is for an account that was created for the person who signed in,
\* unless that person was interfered with.
TokensAreOwners ==
    \A b \in Browser : Holds(b) => \/ owner[cookie[b].uid] = cookie[b].person
                                   \/ cookie[b].person \in crossed

\* Tokens are renewed with the role they have, so a role in one may be long
\* outdated; but whoever a token calls root is root, or has no account left.
RootClaimsHold ==
    \A b \in Browser : Holds(b) /\ cookie[b].role = "root" /\ Exists(cookie[b].uid)
                         => account[cookie[b].uid].role = "root"

SignInHolds == OneAccountEach /\ TokensAreOwners /\ RootClaimsHold

=============================================================================
