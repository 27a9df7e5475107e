------------------------------- MODULE MCLive -------------------------------
(***************************************************************************)
(* What must happen in the end: the body pipeline with three failures, the *)
(* push aggregator with one delivery at a time, and the deactivations of   *)
(* two persons.  A behaviour is one of a single component.                 *)
(***************************************************************************)
EXTENDS DmContent, PushAggregator, Deactivation

CONSTANTS m1, m2, m3, m4, k1, k2

VARIABLE part     \* the component of the behaviour

\* Two receivers and titles: m4 is for one, the others for the other.
KeyOfDef == [m \in Message |-> IF m = m4 THEN k2 ELSE k1]

LiveInit == Init /\ PushInit /\ DeactInit /\ part \in {"body", "push", "deactivation"}

LiveNext ==
    /\ UNCHANGED part
    /\ \/ part = "body" /\ Next /\ UNCHANGED <<pushVars, deactVars>>
       \/ part = "push" /\ PushNext /\ UNCHANGED <<vars, deactVars>>
       \/ part = "deactivation" /\ DeactNext /\ UNCHANGED <<vars, pushVars>>

\* The fairness of each component, in its own behaviours.
FairBody ==
    /\ \A m \in Msg :
         /\ WF_vars(part = "body" /\ SendStep(m))
         /\ WF_vars(part = "body" /\ RecallClear(m))
         /\ WF_vars(part = "body" /\ \E w \in Worker : WorkerTake(w, m))
    /\ \A w \in Worker : WF_vars(part = "body" /\ WorkerStep(w))
    /\ WF_vars(part = "body" /\ JobStep)
    /\ WF_vars(part = "body" /\ AckTimeout)

FairPush ==
    /\ WF_pushVars(part = "push" /\ Tick)
    /\ \A m \in Message : WF_pushVars(part = "push" /\ PushSent(m))
    /\ WF_pushVars(part = "push" /\ SweepStart)
    /\ WF_pushVars(part = "push" /\ ScanSent)
    /\ WF_pushVars(part = "push" /\ FlushAll)
    /\ WF_pushVars(part = "push" /\ BrokerStops)

FairDeactivation ==
    /\ \A u \in Account : WF_deactVars(part = "deactivation" /\ FallsDue(u))
    /\ \A j \in Job : WF_deactVars(part = "deactivation" /\ RunStep(j))

LiveSpec ==
    /\ LiveInit /\ [][LiveNext]_<<part, vars, pushVars, deactVars>>
    /\ FairBody /\ FairPush /\ FairDeactivation

=============================================================================
