------------------------------- MODULE MCDesk -------------------------------
(***************************************************************************)
(* Accounts, and what is decided about them and what they make: reviews of *)
(* pictures and topics, reports, the level and role of an account, signing *)
(* in, and the desks of the administrators.  The components share no       *)
(* state: a behaviour is one of a single component.                        *)
(***************************************************************************)
EXTENDS AuditQueue, Reports, Growth, SignIn, BackOffice, TLC

CONSTANTS w1, w2, x1, x2

VARIABLE part     \* the component of the behaviour

\* A pair of workers, a pair of reporters and of what they report, and of kinds.
Symmetry == Permutations({w1, w2}) \cup Permutations({x1, x2})

LevelNeedsDef == <<2, 3>>

\* The second person has in Casdoor the name the first one may get here.
CasNameDef == [p \in Person |-> p]

\* A clerk asks for what waits, or for everything.
AskedDef == {{"auditing"}, AuditState}

NoAudits == UNCHANGED auditVars
NoReports == UNCHANGED reportVars
NoGrowth == UNCHANGED growthVars
NoSignIns == UNCHANGED signVars
NoOffice == UNCHANGED officeVars

\* What a component chooses once and for all is fixed where it takes no step.
DeskInit ==
  /\ part \in {"audits", "reports", "growth", "signins", "office"}
  /\ AuditInit /\ ReportsInit /\ GrowthInit /\ SignInInit /\ OfficeInit
  /\ part # "reports" => oneCount /\ kindOf = [t \in Thing |-> "comment"]
  /\ part # "growth" => level = 0
  /\ part # "office" =>
       /\ desk = "messages" /\ duty = "lists" /\ root

DeskNext ==
  /\ UNCHANGED part
  /\ \/ part = "audits" /\ AuditNext /\ NoReports /\ NoGrowth /\ NoSignIns /\ NoOffice
     \/ part = "reports" /\ ReportsNext /\ NoAudits /\ NoGrowth /\ NoSignIns /\ NoOffice
     \/ part = "growth" /\ GrowthNext /\ NoAudits /\ NoReports /\ NoSignIns /\ NoOffice
     \/ part = "signins" /\ SignInNext /\ NoAudits /\ NoReports /\ NoGrowth /\ NoOffice
     \/ part = "office" /\ OfficeNext /\ NoAudits /\ NoReports /\ NoGrowth /\ NoSignIns

DeskSpec ==
  DeskInit /\ [][DeskNext]_<<part, auditVars, reportVars, growthVars, signVars, officeVars>>

\* The types of the variables of every component.
DeskTypeOK == AuditTypeOK /\ ReportsTypeOK /\ GrowthTypeOK /\ SignInTypeOK /\ OfficeTypeOK

\* Reviews by the team: of pictures and topics, of what users reported, and what
\* its members are shown of both.
ReviewsHold == AuditsHold /\ ReportsHold /\ OfficeHolds

\* Accounts: their experience, level and role, and the sign-in that makes them.
AccountsHold == GrowthHolds /\ []SignInHolds

=============================================================================
