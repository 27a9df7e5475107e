-------------------------------- MODULE Bans --------------------------------
(***************************************************************************)
(* Bans of one user from the comments and from private messages: the       *)
(* administrator's orders, the rows they leave, and the question the send  *)
(* paths ask.  app/services/user/account/user_governance.py and base.py.   *)
(*                                                                         *)
(* An order names its services by text.  What a row holds is the value the *)
(* enumeration gives for that text, an integer, in a JSON array; what the  *)
(* queries look for is that value between quotation marks in the text of   *)
(* the array.                                                              *)
(***************************************************************************)
EXTENDS Naturals, FiniteSets

CONSTANTS BanWorker,    \* orders carried out at the same time
          BanRequests   \* bound: orders

Service == {"comment", "dm"}

\* BanServiceEnum.
ValueOf == [comment |-> 1, dm |-> 2]
NumberOf(s) == [value |-> ValueOf[s], quoted |-> FALSE]
TextOf(s) == [value |-> ValueOf[s], quoted |-> TRUE]

VARIABLES
    byName,     \* whether the enumeration accepts the name of a member: the library's choice
    ban,        \* row id -> [services, active]
    order,      \* worker -> the order it carries out
    ordersTaken,
    banned,     \* history: services banned by an order that has ended
    overlapped  \* history: two orders were in progress together

banVars == <<byName, ban, order, ordersTaken, banned, overlapped>>

NoOrder == [op |-> "none", services |-> {}]
Rows == DOMAIN ban
Active(i) == ban[i].active

BansInit ==
    /\ byName \in BOOLEAN
    /\ ban = [i \in {} |-> 0]
    /\ order = [w \in BanWorker |-> NoOrder]
    /\ ordersTaken = 0 /\ banned = {} /\ overlapped = FALSE

-----------------------------------------------------------------------------
\* ban_users: the texts the enumeration knows, as the values of its members.
Parsed(services) == IF byName THEN {NumberOf(s) : s \in services} ELSE {}

\* _service_like: the value between quotation marks occurs in the array.
Like(i, s) == TextOf(s) \in ban[i].services

\* Services of a row that an order of unbanning by service leaves: it compares
\* the row's integers with the order's texts.
Remain(i, services) == ban[i].services \ {TextOf(s) : s \in services}

Lifted(i) == [ban[i] EXCEPT !.active = FALSE]

Takes(w, op) ==
    /\ order[w] = NoOrder /\ ordersTaken < BanRequests
    /\ order' = [order EXCEPT ![w] = op]
    /\ ordersTaken' = ordersTaken + 1
    /\ overlapped' = (overlapped \/ \E v \in BanWorker : order[v] # NoOrder)
    /\ UNCHANGED <<byName, ban, banned>>

\* POST /ban, of an administrator with the permission for each service.
OrderBan(w) ==
    \E services \in (SUBSET Service) \ {{}} :
        Takes(w, [op |-> "lift", services |-> services])

\* _lift_active: the active rows that match one of the services, in a commit of its own.
LiftActive(w) ==
    /\ order[w].op = "lift"
    /\ IF Parsed(order[w].services) = {}
       THEN order' = [order EXCEPT ![w] = NoOrder] /\ UNCHANGED ban
       ELSE /\ ban' = [i \in Rows |->
                          IF Active(i) /\ \E s \in order[w].services : Like(i, s)
                          THEN Lifted(i) ELSE ban[i]]
            /\ order' = [order EXCEPT ![w].op = "insert"]
    /\ banned' = banned \cup IF order'[w] = NoOrder THEN order[w].services ELSE {}
    /\ UNCHANGED <<byName, ordersTaken, overlapped>>

InsertBan(w) ==
    /\ order[w].op = "insert"
    /\ ban' = [i \in Rows \cup {Cardinality(Rows) + 1} |->
                  IF i \in Rows THEN ban[i]
                  ELSE [services |-> Parsed(order[w].services), active |-> TRUE]]
    /\ banned' = banned \cup order[w].services
    /\ order' = [order EXCEPT ![w] = NoOrder]
    /\ UNCHANGED <<byName, ordersTaken, overlapped>>

\* unban_users, of some services or, with none named, of all.
Unban ==
    \E services \in SUBSET Service :
        /\ ordersTaken < BanRequests /\ ordersTaken' = ordersTaken + 1
        /\ ban' = [i \in Rows |->
                      IF ~Active(i) THEN ban[i]
                      ELSE IF services # {} /\ Remain(i, services) # {}
                           THEN [ban[i] EXCEPT !.services = Remain(i, services)]
                           ELSE Lifted(i)]
        /\ banned' = IF services = {} THEN {} ELSE banned \ services
        /\ overlapped' = (overlapped \/ \E v \in BanWorker : order[v] # NoOrder)
        /\ UNCHANGED <<byName, order>>

BansNext ==
    \/ Unban
    \/ \E w \in BanWorker : OrderBan(w) \/ LiftActive(w) \/ InsertBan(w)

BansSpec == BansInit /\ [][BansNext]_banVars

\* is_banned: an active row that has not expired and matches the service.  No
\* ban expires in a behaviour.
IsBanned(s) == \E i \in Rows : Active(i) /\ Like(i, s)

\* A service a user was banned from, by an order that has been answered and not
\* taken back, refuses the user.
BannedIsRefused == ~overlapped => \A s \in banned : IsBanned(s)

=============================================================================
