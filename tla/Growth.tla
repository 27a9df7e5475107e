------------------------------- MODULE Growth -------------------------------
(***************************************************************************)
(* Experience, level and role of one account: the daily bonus of the       *)
(* navigation bar, experience other services grant, the level and the role *)
(* they set, and the role that follows a level-up.  Only a level-up keeps  *)
(* the two together: whoever sets a level or a role sets that alone.       *)
(* app/services/user/account/base.py, app/mq/rpc_pptr_user.py.             *)
(*                                                                         *)
(* A grant is four sessions: look for the record of the day, read the      *)
(* level, write the level, write the record; a level-up adds the read and  *)
(* the write of the role.                                                  *)
(***************************************************************************)
EXTENDS Naturals, FiniteSets, FiniteSetsExt

CONSTANTS
    MaxLevel,       \* level_max_level
    LevelNeeds,     \* [1 .. MaxLevel -> experience], level_exp_requirements
    DailyExp,       \* level_daily_exp_bonus
    GrantExp,       \* the amount other services grant
    GivenExp,       \* bound: the experience they set
    LastLoginDay,   \* bound: days
    GrowthWorker,   \* requests in progress
    GrowthRequests, \* bound: requests
    GrowthStops     \* bound: requests stopped between two commits

ASSUME GrowthAssumption ==
    /\ {MaxLevel, LastLoginDay, GrowthRequests, GrowthStops} \subseteq Nat
    /\ {DailyExp, GrantExp} \subseteq Nat \ {0}
    /\ GivenExp \subseteq Nat
    /\ LevelNeeds \in [1 .. MaxLevel -> Nat \ {0}]
    /\ IsFiniteSet(GrowthWorker)

Level == 0 .. MaxLevel
LevelRole(l) == <<"level", l>>
Admin == <<"admin", 0>>
Root == <<"root", 0>>
Role == {LevelRole(l) : l \in Level} \cup {Admin, Root}
LoginDay == 0 .. LastLoginDay

VARIABLES
    exp, level,     \* TUserLevel
    daily,          \* day -> rows of TUserExpRecord for the daily login
    granted,        \* experience in the other rows of TUserExpRecord
    role,           \* TUserInfo.role
    grower,         \* worker -> its request
    loginDay,
    grown,          \* requests so far
    growthStops,
    offBooks,       \* history: experience written by grants that left no record
    highestSet,     \* history: the most experience another service has set
    apart,          \* history: the level or the role was set since the last level-up
    unsure          \* history: what the account met besides one request at a time

growthVars == <<exp, level, daily, granted, role, grower, loginDay, grown,
                growthStops, offBooks, highestSet, apart, unsure>>

Resting == [op |-> "none", at |-> "done", day |-> 0, amount |-> 0,
            exp |-> 0, level |-> 0, role |-> Root]

GrowthTypeOK ==
    /\ {exp, granted, offBooks, highestSet} \subseteq Nat
    /\ level \in Level /\ role \in Role /\ apart \in BOOLEAN
    /\ daily \in [LoginDay -> Nat] /\ loginDay \in LoginDay
    /\ \A w \in GrowthWorker :
          /\ grower[w].op \in {"none", "daily", "grant", "unrecorded", "role"}
          /\ grower[w].at \in {"check", "read", "write", "record", "role", "save", "done"}
          /\ grower[w].day \in LoginDay /\ grower[w].role \in Role
          /\ grower[w].level \in Level /\ {grower[w].exp, grower[w].amount} \subseteq Nat
    /\ grown \in 0 .. GrowthRequests /\ growthStops \in 0 .. GrowthStops
    /\ unsure \subseteq {"overlap", "stop", "set"}

\* create() writes the level its caller names, and the lowest role.
GrowthInit ==
    /\ exp = 0 /\ level \in Level /\ role = LevelRole(0) /\ apart = (level # 0)
    /\ daily = [d \in LoginDay |-> 0] /\ granted = 0
    /\ grower = [w \in GrowthWorker |-> Resting]
    /\ loginDay = 0 /\ grown = 0 /\ growthStops = 0
    /\ offBooks = 0 /\ highestSet = 0 /\ unsure = {}

-----------------------------------------------------------------------------
\* Seeded bug: the first level that is not reached.
LevelOfNext(e) == 1 + Max({l \in Level : \A k \in 1 .. l : e >= LevelNeeds[k]})

\* _level_calc: the last level whose requirement, and every lower one, is met.
LevelOf(e) == Max({l \in Level : \A k \in 1 .. l : e >= LevelNeeds[k]})

\* Seeded bug: a second bonus is still paid.
TwiceRewarded(d) == daily[d] > 1

\* add_daily_login_exp: is there a record of the day?
Rewarded(d) == daily[d] > 0

Busy(w) == grower[w].at # "done"
Proceeds(w, at) == grower' = [grower EXCEPT ![w].at = at]
Ends(w) == grower' = [grower EXCEPT ![w] = Resting]
Unbooked == UNCHANGED <<offBooks, highestSet>>

\* A request arrives; that another is in progress is remembered.
Arrives(causes) ==
    /\ grown < GrowthRequests /\ grown' = grown + 1
    /\ unsure' = unsure \cup causes \cup {x \in {"overlap"} : \E v \in GrowthWorker : Busy(v)}

Opens(w, req) ==
    /\ ~Busy(w) /\ Arrives({})
    /\ grower' = [grower EXCEPT ![w] = req]
    /\ UNCHANGED <<exp, level, daily, granted, role, loginDay, growthStops, apart>>
    /\ Unbooked

-----------------------------------------------------------------------------
\* get_user_nav_data, rpc_add_daily_login_exp.
Login(w) == Opens(w, [Resting EXCEPT !.op = "daily", !.at = "check",
                                       !.day = loginDay, !.amount = DailyExp])

\* rpc_add_exp: without an action type the grant leaves no record.
Grant(w) ==
    \E op \in {"grant", "unrecorded"} :
        Opens(w, [Resting EXCEPT !.op = op, !.at = "read", !.amount = GrantExp])

\* set_user_role of the gateway, for a caller who is root, and of the RPC: any
\* of VALID_ROLES, the role of another level as well.
SetRole(w) ==
    \E r \in Role : Opens(w, [Resting EXCEPT !.op = "role", !.at = "role", !.role = r])

\* rpc_set_user_level writes the experience and the level its caller sends,
\* whether or not they agree.
SetLevel(e, l) ==
    /\ Arrives({"set"})
    /\ exp' = e /\ level' = l /\ apart' = TRUE
    /\ highestSet' = IF e > highestSet THEN e ELSE highestSet
    /\ UNCHANGED <<daily, granted, role, grower, loginDay, growthStops, offBooks>>

\* rpc_create_user of a name that exists: _upsert_profile takes over a level
\* that is not 0.
CreateAgain(l) ==
    /\ l # 0 /\ Arrives({})
    /\ level' = l /\ apart' = TRUE
    /\ UNCHANGED <<exp, daily, granted, role, grower, loginDay, growthStops>> /\ Unbooked

\* The first session: with a record of the day nothing more is written.
Check(w) ==
    /\ grower[w].at = "check"
    /\ IF Rewarded(grower[w].day) THEN Ends(w) ELSE Proceeds(w, "read")
    /\ UNCHANGED <<exp, level, daily, granted, role, loginDay, grown, growthStops,
                   apart, unsure>> /\ Unbooked

\* get_user_level.
ReadLevel(w) ==
    /\ grower[w].at = "read"
    /\ grower' = [grower EXCEPT ![w].exp = exp, ![w].level = level, ![w].at = "write"]
    /\ UNCHANGED <<exp, level, daily, granted, role, loginDay, grown, growthStops,
                   apart, unsure>> /\ Unbooked

\* After the record: the role follows the level when it is above the one read.
AfterRecord(w, l) == IF LevelOf(grower[w].exp + grower[w].amount) > l THEN "role" ELSE "done"

\* set_user_level: what was read and the amount, written as absolute values.
WriteLevel(w) ==
    LET new == grower[w].exp + grower[w].amount
    IN  /\ grower[w].at = "write"
        /\ exp' = new /\ level' = LevelOf(new)
        /\ grower' = [grower EXCEPT
              ![w].at = IF grower[w].op = "unrecorded" THEN AfterRecord(w, grower[w].level)
                        ELSE "record",
              ![w].role = LevelRole(LevelOf(new))]
        /\ offBooks' = offBooks + IF grower[w].op = "unrecorded" THEN grower[w].amount ELSE 0
        /\ UNCHANGED <<daily, granted, role, loginDay, grown, growthStops, highestSet,
                       apart, unsure>>

\* The session that adds the row of TUserExpRecord.
WriteRecord(w) ==
    /\ grower[w].at = "record"
    /\ \/ /\ grower[w].op = "daily"
          /\ daily' = [daily EXCEPT ![grower[w].day] = @ + 1]
          /\ UNCHANGED granted
       \/ /\ grower[w].op = "grant"
          /\ granted' = granted + grower[w].amount
          /\ UNCHANGED daily
    /\ Proceeds(w, AfterRecord(w, grower[w].level))
    /\ UNCHANGED <<exp, level, role, loginDay, grown, growthStops, apart, unsure>>
    /\ Unbooked

\* set_user_role and sync_role_on_level_up read the role: root is left alone.
ReadRole(w) ==
    /\ grower[w].at = "role"
    /\ IF role \in {Root, grower[w].role} THEN Ends(w) ELSE Proceeds(w, "save")
    /\ UNCHANGED <<exp, level, daily, granted, role, loginDay, grown, growthStops,
                   apart, unsure>> /\ Unbooked

WriteRole(w) ==
    /\ grower[w].at = "save"
    /\ role' = grower[w].role /\ apart' = (grower[w].op = "role")
    /\ Ends(w)
    /\ UNCHANGED <<exp, level, daily, granted, loginDay, grown, growthStops, unsure>>
    /\ Unbooked

\* The process stops, or a session fails, between two commits of a request.
Stops(w) ==
    /\ Busy(w) /\ growthStops < GrowthStops
    /\ growthStops' = growthStops + 1
    /\ unsure' = unsure \cup {"stop"}
    /\ offBooks' = offBooks + IF grower[w].at = "record" THEN grower[w].amount ELSE 0
    /\ Ends(w)
    /\ UNCHANGED <<exp, level, daily, granted, role, loginDay, grown, highestSet, apart>>

NextLoginDay ==
    /\ loginDay < LastLoginDay /\ loginDay' = loginDay + 1
    /\ UNCHANGED <<exp, level, daily, granted, role, grower, grown, growthStops,
                   apart, unsure>> /\ Unbooked

GrowthNext ==
    \/ NextLoginDay
    \/ \E l \in Level : CreateAgain(l) \/ \E e \in GivenExp : SetLevel(e, l)
    \/ \E w \in GrowthWorker :
          \/ Login(w) \/ Grant(w) \/ SetRole(w)
          \/ Check(w) \/ ReadLevel(w) \/ WriteLevel(w) \/ WriteRecord(w)
          \/ ReadRole(w) \/ WriteRole(w) \/ Stops(w)

GrowthSpec == GrowthInit /\ [][GrowthNext]_growthVars

-----------------------------------------------------------------------------
\* Experience of grants whose level is written and whose record is not.
BeforeRecord ==
    MapThenSumSet(LAMBDA w : IF grower[w].at = "record" THEN grower[w].amount ELSE 0,
                  GrowthWorker)

Booked == DailyExp * MapThenSumSet(LAMBDA d : daily[d], LoginDay) + granted

\* Experience comes from somewhere: whatever requests overlap or stop, an
\* account has no more than was set, what its records add up to, what is being
\* recorded, and the grants known to have left no record.  A lost update takes
\* experience away, and never adds any.
ExpIsEarned == exp <= highestSet + Booked + BeforeRecord + offBooks

\* With one request at a time, no stop and no experience set from outside, the
\* account has exactly that.
ExpIsExact == unsure = {} => exp = Booked + BeforeRecord + offBooks

\* The bonus of a day has two records only after an overlap.
OneBonusADay == \A d \in LoginDay : daily[d] > 1 => "overlap" \in unsure

\* A level-up brings the level and the role together, and they stay so: with
\* one request at a time and no stop, an account at rest has the role of its
\* level and the level of its experience, unless one of them was set from
\* outside since.
RoleFollowsLevel ==
    (unsure \subseteq {"set"} /\ ~apart /\ \A w \in GrowthWorker : ~Busy(w)) =>
        role = LevelRole(level) /\ level = LevelOf(exp)

\* Without an overlap the role of a root account is never changed.
RootKept == [][role = Root /\ "overlap" \notin unsure => role' = Root]_growthVars

GrowthHolds == [](ExpIsEarned /\ ExpIsExact /\ OneBonusADay /\ RoleFollowsLevel) /\ RootKept

=============================================================================
