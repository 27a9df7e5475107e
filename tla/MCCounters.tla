----------------------------- MODULE MCCounters -----------------------------
(***************************************************************************)
(* The components that keep a counter or a copy beside the rows it sums    *)
(* up, the gate and the limits before what changes them, and the           *)
(* configuration of the limits.  They share no state: a behaviour is one   *)
(* of a single component.                                                  *)
(***************************************************************************)
EXTENDS CommentArea, Moments, FollowTags, Marks, Favourites,
        ViewCounting, ResourceGate, RuntimeConfig, Limits, TLC

CONSTANTS i1, i2, i3, w1, w2

VARIABLE part     \* the component of the behaviour

Symmetry == Permutations({i1, i2, i3}) \cup Permutations({w1, w2})

NoArea == UNCHANGED areaVars
NoMoments == UNCHANGED momentVars
NoFollows == UNCHANGED followVars
NoMarks == UNCHANGED markVars
NoFavs == UNCHANGED favVars
NoViews == UNCHANGED viewVars
NoGate == UNCHANGED gateVars
NoConfig == UNCHANGED configVars
NoLimits == UNCHANGED limitVars
\* No step of a counter, and none of what stands before it.
NoCounter ==
  NoArea /\ NoMoments /\ NoFollows /\ NoMarks /\ NoFavs /\ NoViews
NoGuard == NoGate /\ NoConfig /\ NoLimits

\* What a component chooses once and for all is fixed where it takes no step.
CountersInit ==
  /\ AreaInit /\ MomentsInit /\ FollowInit /\ MarksInit /\ FavInit /\ ViewsInit
  /\ GateInit /\ ConfigInit /\ LimitsInit
  /\ part \in {"area", "moments", "follows", "marks", "favs", "views", "gate",
               "config", "limits"}
  /\ part # "gate" => kindAsked = "user" /\ ~owned
  /\ part # "config" => configRow = "none"

CountersNext ==
  /\ UNCHANGED part
  /\ \/ part = "area" /\ AreaNext
          /\ NoMoments /\ NoFollows /\ NoMarks /\ NoFavs /\ NoViews /\ NoGuard
     \/ part = "moments" /\ MomentsNext
          /\ NoArea /\ NoFollows /\ NoMarks /\ NoFavs /\ NoViews /\ NoGuard
     \/ part = "follows" /\ FollowNext
          /\ NoArea /\ NoMoments /\ NoMarks /\ NoFavs /\ NoViews /\ NoGuard
     \/ part = "marks" /\ MarksNext
          /\ NoArea /\ NoMoments /\ NoFollows /\ NoFavs /\ NoViews /\ NoGuard
     \/ part = "favs" /\ FavNext
          /\ NoArea /\ NoMoments /\ NoFollows /\ NoMarks /\ NoViews /\ NoGuard
     \/ part = "views" /\ ViewsNext
          /\ NoArea /\ NoMoments /\ NoFollows /\ NoMarks /\ NoFavs /\ NoGuard
     \/ part = "gate" /\ GateNext
          /\ NoCounter /\ NoConfig /\ NoLimits
     \/ part = "config" /\ ConfigNext /\ NoCounter /\ NoGate /\ NoLimits
     \/ part = "limits" /\ LimitsNext /\ NoCounter /\ NoGate /\ NoConfig

CountersSpec ==
  /\ CountersInit
  /\ [][CountersNext]_<<part, areaVars, momentVars, followVars, markVars, favVars,
                     viewVars, gateVars, configVars, limitVars>>

\* The types of the variables of every component.
CountersTypeOK ==
  /\ AreaTypeOK /\ MomentsTypeOK /\ FollowTypeOK /\ MarksTypeOK /\ FavTypeOK
  /\ ViewsTypeOK /\ GateTypeOK /\ ConfigTypeOK /\ LimitsTypeOK

=============================================================================
