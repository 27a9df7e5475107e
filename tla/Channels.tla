------------------------------ MODULE Channels ------------------------------
(***************************************************************************)
(* PushMessageService.send: one external message over the channels that    *)
(* are configured, one after the other, until one of them does not raise.  *)
(*                                                                         *)
(* A channel makes one request, or two (a mirror, a token first), or one   *)
(* per peer.  A request may arrive and raise all the same, when its answer *)
(* is lost or is not what the code expects.  An action is one request, and *)
(* the module follows one message from its caller to its end.              *)
(***************************************************************************)
EXTENDS Naturals, SequencesExt

CONSTANTS
    Offer,       \* fields that are set together; a configuration is a union of some
    MaxPeers     \* chat ids in chronocat_qq

FALLBACK_ORDER ==
    <<"pushme", "pushplus_bot", "smtp", "telegram_bot", "bark", "dingding_bot",
      "feishu_bot", "serverJ", "pushdeer", "qmsg_bot", "wecom_bot", "wecom_app",
      "gotify", "ntfy", "wxpusher_bot", "iGot", "go_cqhttp", "chronocat", "aibotk",
      "chat", "weplus_bot", "webhook">>

Channel == Range(FALLBACK_ORDER)
Rank == [c \in Channel |-> CHOOSE i \in DOMAIN FALLBACK_ORDER : FALLBACK_ORDER[i] = c]

\* The fields that _is_enabled asks for.
Needs == [
    bark |-> {"bark_push"},
    dingding_bot |-> {"dd_bot_token", "dd_bot_secret"},
    feishu_bot |-> {"fskey"},
    go_cqhttp |-> {"gobot_url", "gobot_qq"},
    gotify |-> {"gotify_url", "gotify_token"},
    iGot |-> {"igot_push_key"},
    serverJ |-> {"push_key"},
    pushdeer |-> {"deer_key"},
    chat |-> {"chat_url", "chat_token"},
    pushplus_bot |-> {"push_plus_token"},
    weplus_bot |-> {"we_plus_bot_token"},
    qmsg_bot |-> {"qmsg_key", "qmsg_type"},
    wecom_app |-> {"qywx_am"},
    wecom_bot |-> {"qywx_key"},
    telegram_bot |-> {"tg_bot_token", "tg_user_id"},
    aibotk |-> {"aibotk_key", "aibotk_type", "aibotk_name"},
    smtp |-> {"smtp_server", "smtp_ssl", "smtp_email", "smtp_password", "smtp_name"},
    pushme |-> {"pushme_key"},
    chronocat |-> {"chronocat_url", "chronocat_qq", "chronocat_token"},
    ntfy |-> {"ntfy_topic"},
    wxpusher_bot |-> {"wxpusher_app_token"},
    webhook |-> {"webhook_url"}]

Receivers == {"wxpusher_topic_ids", "wxpusher_uids"}
Field == (UNION Range(Needs)) \cup Receivers

ASSUME OfferAssumption == Offer \subseteq SUBSET Field
ASSUME PeersAssumption == MaxPeers \in Nat

(* The channels by what their method does.  Each of those that make one    *)
(* request raises unless the answer says what it wants to read.            *)

Signed == {"bark", "dingding_bot", "feishu_bot"}
Keyed == {"go_cqhttp", "gotify", "iGot", "serverJ", "pushdeer"}
Robots == {"weplus_bot", "qmsg_bot"}
Mailed == {"smtp"}
Hooked == {"wecom_bot"}
Roomed == {"aibotk"}
Plain == {"pushme"}
Subscribed == {"wxpusher_bot"}

\* The method reads the status of the answer only: what a provider refuses
\* in the body, or redirects, counts as sent.
ByStatus == {"chat", "ntfy", "webhook"}

OneRequest ==
    Signed \cup Keyed \cup Robots \cup Mailed \cup Hooked \cup Roomed
      \cup Plain \cup Subscribed \cup ByStatus

FirstHop == [c \in Channel |->
    CASE c \in OneRequest -> "main"
      [] c = "pushplus_bot" -> "mirrored"
      [] c = "wecom_app" -> "token"
      [] c = "chronocat" -> "peers"
      [] c = "telegram_bot" -> "none"]

NoChannel == "no channel"

VARIABLES
    site,       \* the fields of settings.message_config
    fields,     \* the fields of the merged configuration
    entry,      \* who sends
    stage,      \* where the send is
    left,       \* the channels the loop has not come to
    at,         \* the channel it is at
    hop,        \* the request of that channel
    peers,      \* the chat ids that are left
    reached,    \* the channels over which it has arrived at a receiver
    raised,     \* the channels that have raised
    outcome,    \* a channel, or why it went over none
    told        \* what the caller hears

chainVars == <<fields, entry>>
tryVars == <<left, at, hop, peers, reached, raised>>
channelVars == <<site, chainVars, tryVars, stage, outcome, told>>

Entry == {"queue", "now", "test", "feedback"}
Configuration == {UNION S : S \in SUBSET Offer}

ChannelsInit ==
    /\ site \in Configuration
    /\ fields = {} /\ entry = ""
    /\ stage = "idle"
    /\ left = {} /\ at = NoChannel /\ hop = "none" /\ peers = 0
    /\ reached = {} /\ raised = {}
    /\ outcome = "" /\ told = ""

Ends(result) == stage' = "over" /\ outcome' = result

----------------------------------------------------------------------------
(* The callers                                                             *)

\* A field of the message's configuration replaces that of the site when it
\* is set; the site's other fields stay.
merge_config(mine) == site \cup mine

\* Both endpoints publish to the queue and answer at once.
push_message(e) ==
    /\ e = "queue"
    /\ \E mine \in Configuration : fields' = merge_config(mine)
    /\ \/ stage' = "gate" /\ told' = "queued" /\ UNCHANGED outcome
       \/ Ends("unqueued") /\ told' = "error"

rpc_send_push_now(e) ==
    /\ e = "now"
    /\ \E mine \in Configuration : fields' = merge_config(mine)
    /\ stage' = "gate"
    /\ UNCHANGED <<outcome, told>>

test_push(e) ==
    /\ e = "test"
    /\ \E mine \in Configuration : fields' = merge_config(mine)
    /\ stage' = "send"
    /\ UNCHANGED <<outcome, told>>

submit_feedback(e) ==
    /\ e = "feedback"
    /\ fields' = merge_config({})
    /\ stage' = "send"
    /\ UNCHANGED <<outcome, told>>

Ask(e) ==
    /\ stage = "idle"
    /\ push_message(e) \/ rpc_send_push_now(e) \/ test_push(e) \/ submit_feedback(e)
    /\ entry' = e
    /\ UNCHANGED <<site, tryVars>>

\* No user, no setting or a failing query open the gate.
user_allows_push ==
    /\ stage = "gate"
    /\ \/ stage' = "send" /\ UNCHANGED outcome
       \/ Ends("skipped")
    /\ UNCHANGED <<site, chainVars, tryVars, told>>

\* The consumer of the queue drops what failed; the others answer with it.
Answer ==
    /\ stage = "over"
    /\ entry # "queue"
    /\ stage' = "answered"
    /\ told' = CASE outcome \in Channel -> "sent"
                 [] outcome \in {"nothing", "skipped"} -> "not sent"
                 [] outcome = "failed" -> "error"
    /\ UNCHANGED <<site, chainVars, tryVars, outcome>>

----------------------------------------------------------------------------
(* The loop of send                                                        *)

_is_enabled(c) ==
    /\ Needs[c] \subseteq fields
    /\ c = "wxpusher_bot" => fields \cap Receivers # {}

Enabled == {c \in Channel : _is_enabled(c)}

\* An empty text, or nothing to send it with.  Feedback has a text.
SendNothing ==
    /\ stage = "send"
    /\ entry = "feedback" => Enabled = {}
    /\ Ends("nothing")
    /\ UNCHANGED <<site, chainVars, tryVars, told>>

\* The quotation that may be added to the text is fetched first; its failure
\* adds nothing.
SendStarts ==
    /\ stage = "send"
    /\ Enabled # {}
    /\ left' = Enabled
    /\ stage' = "loop"
    /\ UNCHANGED <<site, chainVars, at, hop, peers, reached, raised, outcome, told>>

\* Seeded bug: the channels are tried in the order getmembers lists them.
ForemostOfAny(S) == S

Foremost(S) == {c \in S : \A d \in S : ~(Rank[d] < Rank[c])}

NextChannel ==
    /\ stage = "loop"
    /\ \E c \in Foremost(left) :
          /\ at' = c
          /\ left' = left \ {c}
          /\ hop' = FirstHop[c]
    /\ peers' \in IF hop' = "peers" THEN 0 .. MaxPeers ELSE {0}
    /\ stage' = "try"
    /\ UNCHANGED <<site, chainVars, reached, raised, outcome, told>>

AllFailed ==
    /\ stage = "loop"
    /\ left = {}
    /\ Ends("failed")
    /\ UNCHANGED <<site, chainVars, tryVars, told>>

----------------------------------------------------------------------------
(* A channel                                                               *)

Trying(hops) == stage = "try" /\ hop \in hops
Same == UNCHANGED <<site, chainVars, left, at, told>>

Delivers == reached' = reached \cup {at}
Returns == Ends(at) /\ UNCHANGED <<hop, peers, raised>>

Raises ==
    /\ raised' = raised \cup {at}
    /\ stage' = "loop"
    /\ UNCHANGED <<hop, peers, outcome>>

\* The provider says that it has taken the message.
Accepted ==
    /\ Trying({"main", "mirrored", "mirror", "text"})
    /\ Delivers /\ Returns /\ Same

\* The status is good, and the message went nowhere.
Misjudged ==
    /\ Trying({"main"})
    /\ at \in ByStatus
    /\ UNCHANGED reached
    /\ Returns /\ Same

\* An error code, no connection, or a configuration the method cannot use.
Refused ==
    /\ Trying({"main", "mirrored", "mirror", "token", "text", "peers"})
    /\ hop = "peers" => peers > 0
    /\ UNCHANGED reached
    /\ Raises /\ Same

\* It arrived, but its answer did not, or not as the method expects it.
Unheard ==
    /\ Trying({"main", "mirrored", "mirror", "text", "peers"})
    /\ hop = "peers" => peers > 0
    /\ Delivers /\ Raises /\ Same

\* Codes other than 200 and the four that are final: the second node.
PushplusMirror ==
    /\ Trying({"mirrored"})
    /\ hop' = "mirror"
    /\ UNCHANGED <<stage, peers, reached, raised, outcome>> /\ Same

\* The access token for send_text and send_mpnews.
WeComToken ==
    /\ Trying({"token"})
    /\ hop' = "text"
    /\ UNCHANGED <<stage, peers, reached, raised, outcome>> /\ Same

\* One request per chat id, judged by its status; none if there is no id.
ChronocatPeer ==
    /\ Trying({"peers"})
    /\ \/ /\ peers > 0
          /\ peers' = peers - 1
          /\ Delivers \/ UNCHANGED reached
          /\ UNCHANGED <<stage, hop, raised, outcome>>
       \/ /\ peers = 0
          /\ UNCHANGED reached
          /\ Returns
    /\ Same

\* post has no parameter proxies: the call raises before it sends anything.
TelegramRaises ==
    /\ Trying({"none"})
    /\ UNCHANGED reached
    /\ Raises /\ Same

\* The sweeper is cancelled at a shutdown, in the middle of a request too; a
\* mail is sent by a thread that goes on.
Cut ==
    /\ entry = "queue"
    /\ stage = "try"
    /\ \/ hop \notin {"none", "token"} /\ (hop = "peers" => peers > 0) /\ Delivers
       \/ UNCHANGED reached
    /\ Ends("cut")
    /\ UNCHANGED <<hop, peers, raised>> /\ Same

----------------------------------------------------------------------------

ChannelsNext ==
    \/ \E e \in Entry : Ask(e)
    \/ user_allows_push \/ Answer
    \/ SendNothing \/ SendStarts \/ NextChannel \/ AllFailed
    \/ Accepted \/ Misjudged \/ Refused \/ Unheard
    \/ PushplusMirror \/ WeComToken \/ ChronocatPeer \/ TelegramRaises
    \/ Cut

ChannelsSpec == ChannelsInit /\ [][ChannelsNext]_channelVars

ChannelsTypeOK ==
    /\ site \subseteq Field /\ fields \subseteq Field
    /\ entry \in Entry \cup {""}
    /\ stage \in {"idle", "gate", "send", "loop", "try", "over", "answered"}
    /\ left \subseteq Channel
    /\ reached \subseteq Channel /\ raised \subseteq Channel
    /\ at \in Channel \cup {NoChannel}
    /\ hop \in {"none", "main", "mirrored", "mirror", "token", "text", "peers"}
    /\ peers \in 0 .. MaxPeers
    /\ outcome \in Channel \cup {"", "unqueued", "nothing", "failed", "skipped", "cut"}
    /\ told \in {"", "queued", "sent", "not sent", "error"}
    /\ outcome = "" <=> stage \notin {"over", "answered"}
    /\ outcome \in {"unqueued", "cut"} => entry = "queue"
    /\ stage = "try" => at \in Channel

----------------------------------------------------------------------------
(* Properties                                                              *)

\* A channel is only asked when every enabled one before it has raised.
AskedInOrder ==
    \A c \in raised \cup {at}, d \in Enabled :
        c \in Channel /\ Rank[d] < Rank[c] => d \in raised

\* A message arrives over two channels only if the first of them raised
\* although it had arrived.
ArrivesTwiceIfUnheard ==
    \A c, d \in reached : Rank[c] < Rank[d] => c \in raised

\* The caller hears "sent" of a channel that did not raise, and the message
\* arrived over it, unless the channel looks at no more than a status.
SentArrived ==
    /\ outcome \in Channel =>
          /\ outcome \in Enabled \ raised
          /\ outcome \in reached \cup ByStatus \cup {"chronocat"}
    /\ told = "sent" <=> (stage = "answered" /\ outcome \in Channel)

\* "Failed" means that every enabled channel was asked and raised; where no
\* channel was asked nothing arrived.
FailedAskedAll ==
    /\ outcome = "failed" => raised = Enabled
    /\ outcome \in {"unqueued", "nothing", "skipped"} => raised = {} /\ reached = {}

\* Feedback goes over the site's own channels and no others.
FeedbackStaysHome == entry = "feedback" => fields = site

\* What the fallback over the channels promises (push.py:9-11, and
\* external_push.py of the API about feedback).
ChannelsHold ==
    /\ AskedInOrder
    /\ ArrivesTwiceIfUnheard
    /\ SentArrived
    /\ FailedAskedAll
    /\ FeedbackStaysHome

=============================================================================
