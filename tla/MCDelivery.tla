----------------------------- MODULE MCDelivery -----------------------------
(***************************************************************************)
(* Deliveries and what may go wrong with them: the body pipeline with      *)
(* every kind of failure, a kill at any moment included, the push          *)
(* aggregator with three deliveries at a time, and one external message    *)
(* over its channels.  A behaviour is one of a single component.           *)
(***************************************************************************)
EXTENDS DmContent, PushAggregator, Channels, TLC

CONSTANTS m1, m2, m3, m4, m5, k1, k2

VARIABLE part     \* the component of the behaviour

\* Two receivers and titles: m4 and m5 are for one, the others for the other.
KeyOfDef == [m \in Message |-> IF m \in {m4, m5} THEN k2 ELSE k1]

\* Messages of one receiver, and consumer invocations, are interchangeable.
Symmetry == Permutations({m1, m2}) \cup Permutations(Worker)

\* Channels of every kind of request: the mirror; the peers; a mail and the
\* token, with one that needs a receiver; the one that cannot send, with one
\* judged by its status and the receiver.
OfferDef ==
    {Needs["pushplus_bot"], Needs["chronocat"],
     Needs["smtp"] \cup Needs["wecom_app"] \cup {"wxpusher_app_token"},
     Needs["telegram_bot"] \cup Needs["webhook"] \cup {"wxpusher_uids"}}

DeliveryInit ==
    /\ part \in {"body", "push", "channel"}
    /\ Init /\ PushInit /\ ChannelsInit
    /\ part # "channel" => site = {}

DeliveryNext ==
    /\ UNCHANGED part
    /\ \/ part = "body" /\ Next /\ UNCHANGED <<pushVars, channelVars>>
       \/ part = "push" /\ PushNext /\ UNCHANGED <<vars, channelVars>>
       \/ part = "channel" /\ ChannelsNext /\ UNCHANGED <<vars, pushVars>>

DeliverySpec ==
    DeliveryInit /\ [][DeliveryNext]_<<part, vars, pushVars, channelVars>>

\* The types of the variables of every component.
DeliveryTypeOK == TypeOK /\ PushTypeOK /\ ChannelsTypeOK

=============================================================================
