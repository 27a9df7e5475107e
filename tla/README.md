# A TLA+ verification project for be-message-service

be-message-service is the message, comment, moment and account backend of a
community site: a FastAPI application with a FastStream/RabbitMQ broker in the
same process, a MySQL database (READ COMMITTED, `app/core/database.py:45`), a
Postgres database with the user accounts ("pptr"), an external identity
provider (Casdoor) and a few timer jobs (APScheduler).  Requests, consumers and
jobs are coroutines of one event loop, and several processes may run side by
side; whatever happens between two `await`s of one of them can be interleaved
with any step of the others.

The modules next to this file model the parts whose correctness depends on
those interleavings, on redelivery, on crashes and on the order of commits.  Of
the 40 properties that the passing runs check, 36 are also proved for every value
of the constants, four of them under a hypothesis that is named below; the other
four are the liveness properties (see "What is proved").

## Inventory

| component | state it keeps | operations | what is hard about it | module |
|---|---|---|---|---|
| private-message bodies (`services/message/dm/dm.py`, `dm_content.py`, `consumers/dm.py`, `core/sharding.py`) | index rows with `content_ready`, monthly content shards, dead letters, the queue | send, consume, fall back, retry job, recall, delete | four transactions in three systems per message; redelivery; swallowed errors; recall racing the late write | `DmContent` |
| private-message mailboxes (`dm.py`, `dm_admin.py`) | two index rows per message, one session row per user and peer | send, fetch, ack, delete, recall, close, decide | counters written as absolute values after a read; order of msgkeys is not order of commits | `DmMailbox` |
| external push (`services/message/external/push_aggregator.py`, `consumers/external_push.py`) | one in-memory bucket per receiver and title | deliver, sweep, flush, shut down | buffers across awaits; failed digests; shutdown; cool-down | `PushAggregator` |
| channels of a push (`services/message/external/push.py`, `push_helper.py`, `api/external_push.py`, `mq/rpc_external_push.py`) | the merged configuration of one message | queue, send now, test, feedback; one request after the other over up to 22 channels | a request that arrives and is reported as failed; what counts as success differs per channel | `Channels` |
| system notices (`services/message/insite/notify.py`, `mq/rpc_notify.py`) | notices with a publication time, one pull cursor and read rows per user | publish, change, revoke, pull, list, delete | the cursor is read and written in two transactions; notices become visible below it; check-then-insert, by columns an edit may change | `Notices` |
| event reminders (`services/message/insite/events/*`) | event rows, cards, a watermark per type, switches | report, page, mark read, delete, switch | duplicates; a page is three queries over cards that move | `Reminders` |
| views behind the queue (`consumers/interaction_view.py`, `retry.py`, `infrastructure/publisher.py`) | retry count in a header, view log, counter | post, consume, count, republish, acknowledge | acknowledge after republish; at-least-once against a count of once a day | `ViewCounting` |
| account deactivation (`services/user/deactivation_service.py`, `account/base.py`, `services/cleanup/*`, `tasks/scheduler.py`, `casdoor_service.py`) | one cooling-off record per user, the local account, the Casdoor account | submit, revoke by login, expire job, Casdoor retry job | three databases without a transaction, jobs racing logins, a crash between purge and mark | `Deactivation` |
| sign-in and tokens (`api/pptr_user_gateway.py`, `casdoor_service.py`, `dependencies/user.py`) | accounts with e-mail, name and role, tokens | sign in, create, renew, change roles | find-then-create over several queries; claims older than the account | `SignIn` |
| experience, level, role (`services/user/account/base.py`, `mq/rpc_pptr_user.py`) | experience, level, role, records of grants | daily bonus, grant, set level, set role, level-up | four sessions per grant; absolute writes; level and role set each on its own | `Growth` |
| bans (`services/user/account/user_governance.py`, `base.py`) | ban rows with a JSON list of services | ban, unban, the question of the send paths | what is written and what is looked for are different encodings | `Bans` |
| pictures and topics under review (`services/user/avatar_audit.py`, `folder_cover_audit.py`, `services/moment/topic*`) | audit rows, the public value, topics | submit, approve, reject, create | one waiting row by check-then-act; two databases; other services write an avatar beside the review | `AuditQueue` |
| reports (`services/admin/report.py`) | report rows per kind, what is shown | file, threshold, review, tell, hide | four commits per review; a key looked up in several tables | `Reports` |
| comments (`services/comment/*`) | comments, area counters, reply counters, floors, the pin, like rows | add, delete, pin, decide, take down, recount, react | denormalised counters against status transitions made by several requests | `CommentArea`, `Marks` |
| interactions (`services/interaction_actions/*`) | like, dislike and favourite rows, folders, counters | toggle, favourite, folders; the gate before each | toggles under concurrency; a decision taken before the operation | `Marks`, `Favourites`, `ResourceGate` |
| follow (`services/user/follow.py`, `follow_tag.py`) | relation rows, groups | follow, unfollow, block, unblock, groups | block deletes the reverse row: races with follow | `FollowTags` |
| moments (`services/moment/*`) | moments, feed rows, audit log, repost counters | publish, forward, approve, reject, take down, remove, pin | the counter against audit transitions | `Moments` |
| streams and lists (`services/moment/moment_feed.py`, `feed_engine.py`, `comment_read.py`, `follow.py`, `dm.py`) | cursors, candidates, impressions | pages of five streams and of ten lists | pages cut out of an order that changes; lost answers | `Feeds`, `Lists` |
| send limits (`services/common/daily_limit.py`, `dm.py`, `comment.py`) | the rows they count | check, then write | check-then-act over two transactions | `Limits`, `DmMailbox` |
| audit of texts (`services/audit/word_filter.py`, `engine.py`, `link_checker.py`, `mask.py`, `notify.py`) | word tries of a process, site lists | audit a text, mask an excerpt | words within words; lists changed under the process; a file that ends the reading | `WordAudit` |
| runtime configuration (`services/common/runtime_config.py`, `sys_config.py`) | rows and cached copies with a time to live | read, change | a read begun before a change, kept after it | `RuntimeConfig` |
| settings, activity (`insite/setting.py`, `insite/activity.py`) | one row per user | upsert | only through the gates that read them | (in `Reminders`, `DmContent`) |
| moderation state machine (`services/moderation/*`) | none of its own | transition | called by nothing in the program | not modelled |
| administrators' desks (`services/moment/moment_audit.py`, `moment_topic_audit.py`, `services/admin/report.py`, `comment_admin.py`, `dm_admin.py`, `avatar_audit.py`, `folder_cover_audit.py`, `services/moderation/audit_statistics.py`) | the rows of the other components | lists by page, statistics, counters, the conversation around a message, batches | a page, its total and the statistics are statements of their own; lists of several tables | `BackOffice` |
| spaces of users (`services/user/space_timeline.py`, `space_privacy.py`, `space_view_history.py`, `services/user/space/*`, `api/space.py`) | one row of five switches per user; the rows of the other components | timeline, history, follows and followers, card, save the switches | three kinds of rows merged under one cursor of time; switches read once per request; overlapping saves | `Spaces` |
| geo ip, clients of other services, RPC servers, migrations | pure I/O | read | nothing that interleaves | not modelled |

The components interact through shared rows and calls: `DmMailbox` and
`DmContent` are two halves of one send (the index rows, the body); a follow
changes the relation column of the session; the gate (`ResourceGate`) and the
limits (`Limits`) stand before every operation of `CommentArea`, `Marks`,
`Favourites` and `Moments`; a report hides what those show; deactivation meets
sign-in in the callback.  They are modelled one at a time, each with the others'
effects on it as actions of its own ("follow" in `DmMailbox`, a take-down in
`CommentArea`, a vanished resource in `ViewCounting`), because the code joins
them by calls between transactions and never by a transaction.

### What makes each component correct

| component | properties checked |
|---|---|
| bodies | a committed body is never lost; `content_ready` implies that the shard has it; a delivery is acknowledged only when the body is ready or has a dead letter; an accepted message becomes readable (`BodyAccounted`, `WriteBeforeMark`, `OnlyPromisedSteps`, `AcceptedBecomesReady`, `KeepsPromise`) |
| mailboxes | a recall reaches both users, is final and leaves no text in a session row; nothing is counted twice; who answered stays known; strangers stay within the gate; a session shows its last message (`RecallIsMutual`, `RecalledTextGone`, `CountedOnce`, `KnownStaysKnown`, `StrangersHold`, `PreviewOfLast`) |
| external push | nothing goes out twice; everything buffered is reachable and is tried in the end (`WaitsInOneBuffer`, `NothingForgotten`, `BufferedIsAttempted`); the channels are tried in their order and no further than the first that does not raise, and the caller hears what happened (`ChannelsHold`) |
| notices, reminders | no visible notice is skipped by the cursor, what was pulled is read, a retried request publishes once while the notice keeps its key (`NoticesHold`); a scan gives every unchanged card once, a deed is pushed once, a watermark never falls (`RemindersHold`) |
| views | no visit is lost silently, tries are bounded, one count a day (`ViewsHold`) |
| deactivation | only purged accounts wait for Casdoor, Casdoor is last, a purge leaves a record until it is done, every named deactivation ends (`PendingMeansPurged`, `CasdoorLast`, `PurgeRemembered`, `NamedDeactivationEnds`) |
| accounts, sign-in | experience is what was earned, one bonus a day, after a level-up the role is that of the level until one of them is set, root stays root, one account per person, a token belongs to who signed in (`AccountsHold`) |
| reviews | one picture waits, what is public was approved or is an avatar another service wrote, a report is decided as asked and hides only what was ordered, owners and reporters hear the decision that stands; an administrator is shown what waits, all of it and once (`ReviewsHold`) |
| counters | the counters of comments, reposts, likes, dislikes and favourites are the numbers of the rows they count; feed rows, pins, floors, groups and folders agree with the rows they repeat (`CommentsHold`, `MomentsHold`, `FollowsHold`, `MarksHold`, `FavouritesHold`) |
| gate, limits, configuration, texts | a decision is justified by a moment of its request (`GateHolds`); limits are exceeded only by overlap and by less than its size (`LimitsHold`); a change arrives within the lifetime of a copy (`ConfigHolds`); no word of the library in use is overlooked, no verdict softened, no excerpt repeats what it is about (`WordsHold`) |
| pages | a moment is shown once and everything is shown, but for named disturbances; lists and spaces likewise; others see nothing in a space that was switched off; two saves of the switches do not meet unnoticed (`PagesHold`) |

Many of these say "unless ...": the code does break the plain statement under
certain overlaps, so the module records, in a history variable (`cause`,
`drift`, `mishap`, `muddle`, `overlapped`, `mixups`, `mishaps`, `unsure`,
`slips`, `crossed`, `excess`, `faults`, `met`), which of them have occurred, and
the property claims that nothing else breaks it.  A property of this form is as
strong as its list of causes is short; a cause is recorded in the step in which
the code acts on what is no longer so, never by the property.

## How the modules are built

One action is the code between two points where another coroutine or process
may run, or where a crash is told apart: one committed transaction, one call of
another system, or the code between two `await`s of an in-memory structure.
What a request read is kept in its job record until the step that writes.  The
ORM writes the columns whose value differs from the loaded row, by primary key
and unconditionally, which is why a stale read overwrites; `c = c + 1` in SQL
is applied to the row as it is at the commit.

A failure takes one from a budget (`MaxFaults`, `MaxFailures`, `GrowthStops`,
`ViewStops`, `Budgets`), and requests are counted (`AreaRequests`,
`MarkRequests` and so on), so every bound is a named constant.  A definition
introduced by "Seeded bug" is not part of a specification: it is what a
plausible mistake would make of the definition after it, and shows that a
property can fail.  All cfg files say `CHECK_DEADLOCK FALSE`: requests, messages
and failures are finite in number, and a system that has dealt with them all
stops.

*Suites.*  A run checks several components in one model (`MCDelivery`, `MCLive`,
`MCInbox`, `MCCounters`, `MCDesk`, `MCReading`).  The variable `part` chooses one
component per behaviour and the others take no step, so the states are the sum
and not the product of those of the components; they share no state, so nothing
is lost by it.  Each suite's specification implies that of each component in the
behaviours of its part.

| module | what it is | suite |
|---|---|---|
| `DmBodyPromise` | abstract: what a reader may rely on about a body | implemented by `DmContent` (`Promise`) |
| `DmContent`, `PushAggregator` | bodies; pushes | `MCDelivery` (safety), `MCLive` (liveness) |
| `Channels` | one push over its channels | `MCDelivery` |
| `Deactivation` | closing an account | `MCLive` |
| `DmMailbox` | index rows and session rows of two users | `MCDmMailbox` (two sends at a time), `MCInbox` (one) |
| `Notices` | notices, one user | `MCInbox` |
| `CommentArea`, `Moments`, `FollowTags`, `Marks`, `Favourites`, `ViewCounting`, `ResourceGate`, `RuntimeConfig`, `Limits` | counters, gates, limits | `MCCounters` |
| `AuditQueue`, `Reports`, `Growth`, `SignIn`, `BackOffice` | accounts, what is decided about them, and what administrators are shown | `MCDesk` |
| `Feeds`, `Lists`, `Spaces`, `Reminders`, `WordAudit` | what users read, and the audit of what they write | `MCReading` |
| `Bans` | bans | its own cfg |
| `SumTheorems` | lemmas about sums over finite sets | used by the proofs |
| `*_proofs` | the theorems | see "What is proved" |

## DmContent: the body of a private message

`DmSessionObject.send` (`services/message/dm/dm.py`) commits two index rows, records
the sender's activity, and hands the body over: to the queue
`message_dm_content_queue`, or, when publishing fails, to the monthly content
shard directly, or as the last resort to `msg_dm_content_dlq`.
`handle_dm_content` (`consumers/dm.py`) writes the shard, marks both index rows
`content_ready` and acknowledges; a failed write becomes a dead letter.
`retry_dead_letter_job` (`tasks/scheduler.py`) drains the dead letters.

| state | code |
|---|---|
| `rows`, `ready` | `msg_dm_index`: `msg_status` of both owners, `content_ready` |
| `shard` | the row of the content table: none, with the body, `NULL` after a recall |
| `dlq` | `msg_dm_content_dlq`: none, open, resolved |
| `broker` | the delivery: not published, queued, unacknowledged, done |
| `ensured` | `_ensured_shards`, the cache that decides whether `CREATE TABLE` is issued |
| `request`, `recall`, `worker`, `job` | the program counters of the coroutines, with what they hold in local variables |

`SendPersist`, `SendTouch`, `SendPublish`, `SendFallback`, `SendMark`,
`SendDead` are the send request from its first commit; `WorkerTake`, `-Write`,
`-Mark`, `-Dead`, `-Ack` one consumer invocation; `JobStart`, `-Write`, `-Mark`,
`-End` a run of the job; `RecallCommit`, `RecallClear`, `DeleteMessage` the
requests that interfere; `ConnectionLoss`, `AckTimeout`, `Shutdown`, `Kill` the
broker and the process.  A body is one token: only whether the shard has it
matters.

*Bounds.* `delivery`: two messages (the job works on one while the other fails;
they share nothing but the job's loop, the process, the connection and
`ensured`), two invocations (they can meet on one redelivered message), any two
of twelve kinds of failure (a primary and its fallback).  `live`: one message,
three failures of the kinds a body survives.

*Fairness.* Weak fairness of the steps of a request, an invocation and a job
run that have begun (the event loop runs them), of the delivery of a queued
message, of the job (a timer), and of RabbitMQ's acknowledgement timeout, which
is what frees a delivery whose handler has raised.  Nobody has to send, delete
or recall.  Failures are finitely many.

*Not modelled*: the splitting of shards by month (a message has one shard, by
its timestamp), the limit of 50 letters a run, `retry_count` of a letter, which
only counts.

## PushAggregator: the external push

`bucketOf` is `_buckets`; `buffer` and `age` are the fields of bucket objects,
which live on when the table has lost them; `handler`, `target` and `lag` the
deliveries under way; `scan` the loop over the buckets; `attempts` history.
`DeliverSkip`, `DeliverDirect`, `DeliverFirst`, `DeliverBuffered` are the branches of
`deliver`; `DirectSent`, `FirstSent`, `FlushSent` the code after their send;
`SweepStart` and `ScanSent` are `flush_due_buckets`; `StopSweeper`, `FlushAll`,
`BrokerStops` the shutdown in the order of `mq/router.py`; `Tick` is time, which
passes while a send is awaited.

*Bounds.* `delivery`: five messages for two keys, three deliveries at a time;
three messages of one key open, fill and flush a bucket, the second key and the
direct message show that keys do not disturb each other.  A cool-down of two
ticks and a lag of one let a send begin inside it and end outside.  `live`: one
delivery at a time, for which alone `NothingForgotten` holds (`push_orphan` is
the counterexample for two).

*Fairness.* Weak fairness of time, of the end of a send (the client has a
timeout), of the sweeper (`asyncio.sleep` in a loop) and of the steps of a
shutdown that has begun.

*Not modelled*: wording and truncation of a digest; the choice of the channel
(which is `Channels`, where a send is one step here);
equal texts, which the buffer counts instead of keeping twice; the job that
sends scheduled notices to this channel and the switch that keeps a notice from it.

## Channels: one push over its channels

One message from its caller to its end.  `site` is `settings.message_config`,
`fields` the merged configuration (the fields that are set: their values differ
in nothing a property tells apart), `left`, `at` and `hop` the loop of `send` and
the request it is at, `reached` and `raised` the channels over which the message
has arrived and those that have raised, `told` the answer of the endpoint.  Both
`reached` and `raised` may hold a channel: its request arrived and its answer did
not (`Unheard`).

`push_message`, `rpc_send_push_now`, `test_push`, `submit_feedback` are the
endpoints, `user_allows_push` the switch, `NextChannel` and `AllFailed` the loop.
The 22 methods are sets by what they ask for: those of `OneRequest` read the
answer, those of `ByStatus` its status only; `PushplusMirror`, `WeComToken`,
`ChronocatPeer` and `TelegramRaises` are the four that do something else.

*Bounds* (`delivery`): every merge of two unions of four groups of fields, which
enable up to seven channels, one of each kind, and two peers.

*Not modelled*: the contents of the requests, the label in the title, the
quotation that may be added to the text.

## DmMailbox: index rows and sessions

Two users write to each other.  `send`, `status`, `audit`, `recalled` are the
columns of the index rows, `session` the two `msg_dm_session` rows, `request`
and `admin` the requests under way with the row they loaded (`was`) and what
they make of it (`new`); `seen` and `known` are history: what a user was shown,
and who was ever followed or answered.

| actions | code |
|---|---|
| `SendStart` | the beginning of `send`: keys are ordered by the draw |
| `SendRefused`, `SendGate`, `SendFilter` | deactivated or blocked users, `_check_daily_send_limit` and `_check_stranger_gate`, `_is_stranger` and the folder |
| `SendPersist` | `_persist_dm` and `_upsert_row`, one transaction |
| `FetchList`, `FetchRead`, `WriteBack` | `fetch_messages`: the page, then the session row, then the commit |
| `Ack`, `Close` | `ack` and `delete` of a session, each followed by `WriteBack` |
| `DeleteMessage`, `RecallCheck`, `RecallWrite` | `delete_messages`, `recall_message` |
| `AdminRead`, `AdminWrite` | `set_state` of `dm_admin.py` |
| `Follow` | follow and unfollow, which open and close the gate |

`Flush` is the ORM's unit of work.  `Budgets` is a set of budgets for the
requests besides sends; a behaviour has one of them.

*Bounds.* `mailbox_safe`: two keys drawn in one order and committed in the other,
which is the whole of what concurrent sends can do to a session row, with one
request of each other kind anywhere.  `inbox`: three keys, which a gate of one
needs to be met, lifted by an answer and passed; sends one at a time, no
deletion and no administrator, because `StrangersHold` and `PreviewOfLast` are
false with them (see the divergences).  `PreAudit` is `FALSE`.

*Not modelled*: pinning a session, unread totals, weak notifications; the two
minutes of the recall window (a recall may come at any time, which allows more).

## Deactivation: closing an account

`local` is what is left of a local account (Postgres user, then MySQL content),
`casdoor` the central accounts, `record` the rows of `msg_user_deactivation`,
`touched` the order of `updated_at` among the pending ones, `job` and `login` the
runs under way, `returned` history.  A person who logs in after the purge gets a
new local account: `<<p, n>>` is the `n`-th.

| actions | code |
|---|---|
| `Submit` | `submit_deactivation`, by the owner or (without a name) by an administrator |
| `FallsDue` | `delete_after` passes |
| `LoginToken`, `LoginUser`, `LoginCheck`, `LoginRevoke` | `casdoor_callback`, `create_local_user_from_casdoor`, the two halves of `auto_revoke_if_cooling` |
| `ExpireStart`, `Take`, `PurgeUser`, `PurgeContent`, `MarkPending` | `deactivate_expire_job` and the purge |
| `RetryStart`, `CasdoorDelete`, `CasdoorFailed`, `ClearRecord` | the deletion in Casdoor, from either job |
| `KillService` | a restart |

*Bounds* (`live`). With a scan limit of one and two records, one record can hide
the other from the scan, which is what the limit of 100 can do with 101.  One
login suffices to fall into any gap of one purge; two lives let the account
after the purge meet the deletion in Casdoor.

*Fairness.* Weak fairness of time and of both jobs, which are timers with
`max_instances=1`.  No login and no submission has to happen.

*Abstractions.* A person has one e-mail address.  Deleting a Casdoor account
that is not there succeeds.  A failure may come before or after the deletion.  A
run takes its rows in any order, since only the limit depends on it.

*Not modelled*: what the DELETE statements of `services/cleanup` cover (one
transaction here), requests with a token that outlives the purge.

## The inbox: Notices

A notice's id is drawn at the insert, and it becomes visible later (`commit`,
`publish_at`, a draft that is published, a level the user reaches).  A pull
reads the page after the loaded cursor, marks it as read and commits, and moves
the cursor in another transaction; a delivery of the publishing RPC looks for an
equal notice and inserts in a later step.  `update` sets what it is given, of a
published notice too: among it the title and the addressee, which are the `key`
the look-up goes by; a row remembers in `made` (history) for which idempotent
request it was inserted.  `slips` records a notice that becomes visible below
the cursor ("late"), two deliveries that passed the look-up together
("doubled"), and an update that took the key off the notice a request had made
("edited"), after which the next delivery publishes once more.  *Bounds*
(`inbox`): two notices, pages of one, two requests at a time, three in all.

## What counts and what is counted

`CommentArea` is one area with the rows, `msg_comment_subject`, the statistics
row of the moment, floors and the pin; requests are add, delete, set_top,
set_state, the take-down of a report and the recount script.  `Moments` are
moments and forwards with the feed row, the pin, the audit log and `repostCount`.
`FollowTags` are relation rows, groups and their members; `Marks` the likes and
dislikes of one user in front of others' (`OthersMarks`); `Favourites` the folders
and favourites of one user (what others add to a counter is the constant
`OthersFavs`), counted once per resource however many
folders hold it;
`ViewCounting` one resource and one user, from the detail page through the queue
to the counter.  `ResourceGate` is the chain of questions `base_biz` asks before an
operation, per kind of resource; `RuntimeConfig` one item, its row and the
copies of several processes; `Limits` the daily limits, the interval and the
repeated text.

*Bounds* (`counters`): two requests or consumers at a time, four to six in all,
over three comments or moments (a root, a reply and another; a source and two
forwards), two users, two groups, two folders; a queue with two visits, two
tries, two days and one stop; two processes with one change of the item and a
lifetime of one tick.  A step reads or writes one or two rows, and every cause
of disagreement in the code is two requests on one row or one row and its
parent, which these bounds contain in every order.

*Abstractions.* Other users' contributions to a counter are a constant; what a
text says is one of two tokens; the id of a row is its place in a set.

## The desk: AuditQueue, Reports, Growth, SignIn, BackOffice

`AuditQueue`: submissions, decisions (read, check, write back) and, for avatars,
the second database, where other services write an avatar that nobody has
reviewed (`WritesAvatar`: `rpc_set_user_detail`, and `rpc_create_user` of a name
that exists); `public` is then `Foreign`.  `Reports`: filing, the threshold, and
a review in four commits that finds the report by its key in one table after
another.  `Growth`: one account, four sessions per grant, a level-up that reads
and writes the role, and others who set a level or a role, each on its own:
`create` writes the level its caller names and the lowest role, `SetLevel` an
experience and a level that need not agree, `CreateAgain` (the upsert of an
account that exists) a level, `SetRole` any role, those of levels too.  `apart`
(history) says that one of them was set since the last level-up, which alone
brings the two together; what `RoleFollowsLevel` says of an account holds while
it is false.  `SignIn`: two browsers that find or create an account by e-mail
and up to two names, while other services create accounts, roles change and
accounts are purged; tokens carry the claims of their creation.

`BackOffice`: the desks of the administrators (`desk`): moments, topics, comments,
messages, reports, avatars, covers.  A clerk pages through a list of what waits
(`AsksPage`, `Counts`, `Lists`, `PageAnswered`: the total and the rows are two
statements, reports of all kinds are read table by table and cut again), looks at
the statistics (`AsksStatistics`, `Aggregates`) and the counters beside a queue
(`AsksStats`, `CountsState`), at the conversation around a message
(`session_context`), or has a batch decided (`BatchStarts`, `BatchStep`), while
pieces are made, decided by others and purged.  Every statement reads what is
committed when it runs (`core/database.py:45`), so the totals, the statistics and
the pages agree only if nothing happens in between; `turns` counts what happens,
and the properties that need quiet say `turns = 0`.  Paging by an offset skips
what moves up when an entry before it is decided; that is so by design and shown
by the bound `OfficeTurns` alone.  The reports of a table are read by a library,
`bili_common`, as `admin/report.py` uses it: the newest first, up to the number
asked for.  What a decision itself writes is in `AuditQueue`, `CommentArea`,
`Moments` and `DmMailbox`.

*Bounds* (`desk`): two requests at a time, three to five in all; three tickets,
two reporters and things with a threshold of two; levels up to two, one
experience that is set (with any level), two login days, one stop; three
accounts, two persons of whom one has an e-mail; two pieces of two kinds, pages
of one, one change while the clerk is at work: two pages of two tables are the
smallest instance in which the second cut matters.

## Reading: Feeds, Lists, Spaces, Reminders, WordAudit

`Feeds`: five streams (by time, a space with its pin, forwards by number, two
ranked ones) for two clients; scores only order the pool, so any order is
allowed.  `Lists`: ten lists, by page number or by a cursor, while rows come,
move, are decided upon and go.  `Reminders`: cards of events with four gates
before a report, a page in three queries, read and deleted meanwhile.
`WordAudit`: tries of a process, read once, and site lists, read each time.  Which
texts, files of words and lists of sites there are is left open (CONSTANTS).  A
file of a category ends the reading with an error, which `match` swallows: the
process is then without a library (`Unread`), finds nothing, and tries again at
the next audit.

*Bounds* (`reading`, texts): words over two characters in texts of up to four and
one of five, so that words contain and overlap one another, themselves included;
four libraries, one of them with a category, and three lists of sites.

`Spaces`: a visitor, or the owner, in the space of a user; `visit` says what is
asked for.

| state | code |
|---|---|
| `flags`, `saved` | the row of `TUserSpacePrivacy`, and whether there is one; without it `timeline` alone is on (`attributes.py`) |
| `act`, `live`, `second` | the rows of `UserFollow`, `TResourceLike`, `TResourceFavorite` and `TInteractionViewLog` with their times, which have seconds; `open`: the public folders |
| `browse` | the visitor's request (`at`, and in `may` and `rows` what it has read so far) and way through the pages (`page`, `cursor`, what was `shown`) |
| `card`, `follows`, `fans`, `barred` | `get_space_info`: the relation, three counts, and the switches at the end, five statements |
| `saving` | the saves of the switches: the row that was read, what is asked for, what is answered |
| `wasOn`, `spaceTurns`, `browse.due` | history: the switches on at some moment of the request under way; how much has happened; what is owed to the visitor |

`SpaceTimelineService.list` is four steps (`AsksTimeline` reads the switches,
`ReadsActs` a page of follows and one of likes, `ReadsKept` three pages of what is
kept and cuts the page out of the three), and between any two of them rows come
and go, folders are closed, switches are turned and the clock moves.  Rows of one
second come in any order.  `SpaceViewHistoryService.list` and the first page of
the follows and followers are one or two steps; their later pages are `Lists`.
`update_flags` reads the row, and the ORM writes the columns that differ from
what was read (`Written`), or inserts a row and fails if there is one by now.

*Bounds* (`reading`): three moments, rows or events, pages of one, three or four
pages, one to three things that happen in between; in a space three rows over two
seconds, pages of two, one page of what is kept (`FavBuffer`), two things in two
folders, two browsers with a save each: a full page with a row behind it, two
rows of the second at which a page ends, one thing in both folders and two saves
that overlap are all within these.  `CardLimit`, `ScanLimit`, `MinCandidates`, `ScanRows`
are the code's limits, scaled down to lie below the number of rows.

## The runs

| run | checks | what it shows |
|---|---|---|
| `delivery` | DeliveryTypeOK, WriteBeforeMark, OnlyPromisedSteps, WaitsInOneBuffer, ChannelsHold | under every kind of failure the markers never lie and a stored body is only taken away by a recall; nothing is pushed twice by the aggregator; the fallback over the channels |
| `live` | AcceptedBecomesReady, KeepsPromise, BufferedIsAttempted, NamedDeactivationEnds; NothingForgotten, BodyAccounted, DeactTypeOK, PendingMeansPurged, CasdoorLast, PurgeRemembered | what must happen does, under the fairness above; the pipeline implements `DmBodyPromise` with its liveness; the order of a deactivation |
| `mailbox_safe` | RecallIsMutual, RecalledTextGone, CountedOnce, KnownStaysKnown | two sends at a time and one of each other request |
| `inbox` | InboxTypeOK, StrangersHold, PreviewOfLast, NoticesHold | sends one at a time with recalls, closed sessions and follows; notices |
| `counters` | CountersTypeOK, CommentsHold, MomentsHold, FollowsHold, MarksHold, FavouritesHold, ViewsHold, GateHolds, ConfigHolds, LimitsHold | counters and copies agree with the rows but for the listed overlaps |
| `desk` | DeskTypeOK, ReviewsHold, AccountsHold | decisions, reports, growth, sign-in, and what administrators are shown |
| `reading` | ReadingTypeOK, PagesHold, WordsHold, RemindersHold | pages, lists, spaces, reminders, texts |
| `dm_content_swallowed` | BodyAccounted, violated | `consumers/dm.py:44`: every error of the dead-letter commit is taken for the duplicate key, and the delivery is acknowledged without a copy of the body |
| `push_orphan` | NothingForgotten, violated | `push_aggregator.py:272`: of two first deliveries of a key the bucket of the earlier one is lost with its buffer |
| `mailbox_unseen_ack` | AckedWasSeen, violated | `dm.py:638`: reading a page acknowledges a message that arrived after the page was selected |
| `deactivation_revoked` | PurgedOnlyIfNotRevoked, violated | `scheduler.py:282`: the job purges rows from a list that may be minutes old, an owner who logged in meanwhile loses the data all the same |
| `bans_never_bite` | BannedIsRefused, violated | `user_governance.py:56`: the ban stores a number, the question looks for it between quotation marks, so no ban refuses anybody |

Symmetry is used for sets of interchangeable workers, users or messages, and
never in `live`, whose temporal properties it could hide.

## What is proved

The theorems hold for any sets of users, messages, rows, requests and workers,
any limits and any number of failures; TLC's bounds do not enter.  The constants
are assumed to be what the code makes of them (the ASSUME of each module: limits
are natural numbers, "no moment" is no moment, two users have a conversation;
sets of workers whose members are counted are finite).

| module | theorem | states | inductive invariant |
|---|---|---|---|
| `Delivery_proofs` | `TypeCorrect` | `TypeOK` | itself |
| | `WriteBeforeMarkHolds`, `ReadyIsStored` | `WriteBeforeMark`; `ReadyMeansStored` and `ResolvedMeansReady` | with `TypeOK`: what a writer knows between two of its transactions |
| | `NoBodyLost` | `BodyAccounted` and `AckedMeansHandled`, if `Faults \cap LossFaults = {}` | `TypeOK`, `WriteBeforeMark`, `HandedOver` (who holds a body that is in memory only) |
| | `ImplementsPromise` | `OnlyPromisedSteps` | every step maps to one of `DmBodyPromise` or a stutter |
| | `PushTypeCorrect`, `NoPushTwice` | `PushTypeOK`, `WaitsInOneBuffer` | what waits in a buffer has not been sent and waits in no other; a buffer is emptied in the step that builds its digest |
| | `NoticesStayReachable` | `NothingForgotten`, if `Concurrent = 1` | `Reachable`: one delivery is sending, a first push has no bucket yet, the scan's buckets are those of the table |
| | `ChannelsAreTried` | `ChannelsHold` and `ChannelsTypeOK` | `Fallback`: what is left are the enabled channels that have not been asked, behind those that have; what has arrived was asked |
| | `DeliveriesAreTyped` | `DeliveryTypeOK` | the three type invariants |
| `Deactivation_proofs` | `PurgedBeforePending`, `CasdoorIsLast` | `PendingMeansPurged`, `CasdoorLast` | `PurgeInv`: where a run stands says what is purged, and what is purged stays so |
| | `PurgeIsRemembered` | `PurgeRemembered` | `KeepInv` follows an account from the list into the purge |
| | `DeactivationIsTyped` | `DeactTypeOK` | `ScanMoves`: in every step a row leaves the order of the scan, joins it at the end or moves there, so `touched` lists exactly the pending rows, each once |
| `Inbox_proofs` | `RecallIsFinal` | `RecallIsMutual` | a key is recalled only after its rows were stored |
| | `KnownForGood`, `RecallClearsPreviews`, `EachCountsOnce` | `KnownStaysKnown`, `RecalledTextGone`, `CountedOnce` | `Loaded`: what a request carries in `was` and `new` differs only in columns its kind may change |
| | `PreviewFollowsLast` | `PreviewOfLast`, if no budget has an administrator | the same, and no administrator acts |
| | `StrangersAreHeld` | `StrangersHold`, if `Concurrent = 1` and no budget has a deletion | `GateInv`, `FolderInv`: a gated send still has room when it is stored |
| | `NoticesAreDelivered` | `NoticesHold` | `ReachedIsAccounted`: also the cursors that are still in the hands of pulls have left nothing out |
| | `InboxIsTyped` | `InboxTypeOK` | `SentMeters`: what has a row or was shown was sent, and whoever has a row has a session; that the unread counter is at most the number of messages is `EachCountsOnce` |
| `Counters_proofs` | `FollowsFitTogether`, `MarksAreCounted`, `FavouritesAreKept` | `FollowsHold`, `MarksHold`, `FavouritesHold` | each with what a request that has read still knows of the row (`FollowInv`, `MarksInv`, `FavInv`) |
| | `CommentsAreCounted` | `CommentsHold` | `AreaInv`: the counters differ from the visible comments by exactly the changes that are committed and not yet counted |
| | `MomentsAreCounted` | `MomentsHold` | `MomentInv`: likewise for forwards; what is not published has no row elsewhere |
| | `ViewsAreCounted` | `ViewsHold` | `ViewInv`: messages in the queue and in work are at most one and one per stop and consumer (`ViewsFew`), and without a stop the retry count of the one message is at least the number of failures (`ViewsOnce`) |
| | `DecidedByWhatWasSo` | `GateHolds` | `GateInv`: what was asked was so between the request's start and now |
| | `ChangesArrive` | `ConfigHolds` | `ConfigInv`: every copy, and every read under way, was in force at its time |
| | `WritersAreLimited` | `LimitsHold` | `LimitRoom`: rows of today and requests that may add to them stay below the limit plus the number of authors |
| | `CountersAreTyped` | `CountersTypeOK` | one lemma per component of the suite, from the types above and the counters of requests |
| `Desk_proofs` | `AuditsAreDecided`, `ReportsAreDecided`, `OfficesShowWhatWaits`, `ReviewsAreDecided` | the parts of `ReviewsHold`, and it | `AuditInv`, `ReportInv`: a job's ticket or row is as it read it, or the overlap is recorded; `OfficeInv`: while nothing changes, what a clerk was shown are the rows above a place, and a total is the number of rows in the tables read so far |
| | `AccountsGrowAsEarned`, `SignInsFindTheirOwn`, `AccountsAreKept` | the halves of `AccountsHold`, and it | `GrowthInv`: experience, stored and in hand, is at most the sum of what was booked, and equal to it before the first overlap; `SignInv`: ids are never drawn twice, one first sign-in of a person is under way unless an overlap is recorded |
| | `DesksAreTyped` | `DeskTypeOK` | the same; keys stay below the number of rows, no two accounts have a name |
| `Feeds_proofs` | `RemindersAreKept` | `RemindersHold` | `ReminderInv`: `PushInv` (what a report has stored and pushed by now), `SilentInv` (what a muted type may not do) and `ScanInv` (what a scan has given and what is still ahead of it make up the cards that have not been touched since its start) |
| | `FeedsAreShown` | `FeedsHold` | `FeedInv`, a part per stream: what a client was shown lies before its cursor, what is due and behind the cursor was shown or is counted out |
| `Reading_proofs` | `ListsAreShown`, `SpacesAreShown`, `PagesAreShown` | `ListsHold`, `SpacesHold`; with `FeedsAreShown`, `PagesHold` | `ListInv`: where the reader stands, as a number of rows (`OnceInv`, `AllInv`), and likewise for message lists, polling and the newest first; `SpacesInv`: of every kind of rows a timeline has read, what is owed of that kind is among the rows, or a full page of them is not older than it |
| | `WordsAreFound` | `WordsHold`, for any texts, files of words and lists of sites | `WordInv`; below it lemmas about the operators: a text's hits are the words of the library that occur in it, a mask covers every occurrence but overlapping ones |
| | `ReadingIsTyped` | `ReadingTypeOK` | the types of the five, and that no two rows of a list have a place |

*The argument everywhere* is that of a stale read: the invariant says of each
job record what it still implies about the rows, and each step either keeps
that or records the overlap that ends it.  The proofs have a lemma per action and, under
it, a step per conjunct the action can disturb; actions that touch the same
variables share a lemma.

*Sums.* `Growth` and `ViewCounting` add up functions over finite sets with
`MapThenSumSet`.  Induction over finite sets is not available to these provers
(the library's induction theorems take an operator), so `SumTheorems` argues by
a smallest counterexample: the strict subset order on the finite subsets of a
set is well founded (`FS_StrictSubsetOrderingWellFounded`, `WFMin`), hence a set
of bad subsets has a smallest, which is refuted.  From it follow that the fold
exists and is unique (`SumIs`), that any element may be taken out first
(`SumAny`), and what changes at one point (`SumChanges`), bounds (`SumBounds`) and
disjoint sets that are added (`SumGains`) do to a sum.  The same argument gives
the largest element of a finite set of numbers and, in `Reading_proofs`, what the
fold over the words of a library does to a text that is masked.

*Hypotheses.*  `NoticesStayReachable` is false for two deliveries at a time
(`push_orphan`), `PreviewFollowsLast` with an administrator, `StrangersAreHeld`
with overlapping sends or a deletion (see the divergences), `NoBodyLost` with a
failure that strikes while a body is only in a writer's memory.  The runs check
these four properties under the same restrictions.

*What the proofs changed in the models.*  A request that lowers a counter is
kept from going below zero, for each counter it writes; `CommentArea` recorded
that clamp ("floored") for one of them only, and the equation of the counters is
inductive only if it is recorded for all.  `Growth` and `ViewCounting` assume
that their sets of workers are finite, without which a sum or a cardinality over
them says nothing; the code runs finitely many requests.  `Growth` assumes that
every level asks for some experience, so that a new account has reached none.
`Marks` assumes that no target is both a moment and a comment.  The keys of
`Reports` are bounded by the number of rows and no longer by that of requests.
The others are definitions of the same values in a form that can be reasoned
about: rows before a row instead of sorted sequences (`Feeds`, `Lists`),
alternatives that exclude each other instead of CASE with overlapping guards
(`WordAudit`, `Bans`), the walk through a text and the masked text by what
characterises them instead of by recursion (`WordAudit`), `RemoveFirst` and
`IsInjective` for the order of the scan (`Deactivation`).

*Only model-checked.*  The four liveness properties, `AcceptedBecomesReady`,
`KeepsPromise`, `BufferedIsAttempted` and `NamedDeactivationEnds`: fairness and
ENABLED are outside the prover's reach.  Of `KeepsPromise`, the half that is not
about fairness is the theorem `ImplementsPromise`.

## Divergences seen while modelling

Five are shown by a run and listed as findings: `dm_content_swallowed`,
`push_orphan`, `mailbox_unseen_ack`, `deactivation_revoked`, `bans_never_bite`.
The following were met on the way, with the line or function where the code and
its comment, its documentation or an obvious expectation part; the models have
the code's behaviour, and the properties of the passing runs exclude it by
name.  Paths are under `src/app/`.

Bodies and pushes:

- `services/message/dm/dm_content.py:45`: `ensure_shard` is called outside the
  `try` of `write`, so a failing `CREATE TABLE` leaves the synchronous fallback
  as an exception and no dead letter is written, against `dm.py:23-24`.
  `ddl_in_send` is therefore one of `LossFaults`.
- `services/message/dm/dm.py:723`: a recall clears the shard row, which may not
  be there yet; the body is inserted by the consumer afterwards and stays.
- `services/message/external/push_aggregator.py:306`: `last_push_at` is written
  when a digest has been sent, so a delivery that arrives during the send finds
  the cool-down over and sends a second digest at once, against line 16.

- `services/message/external/push.py:520`: `telegram_bot` passes `proxies` to a
  method of httpx that has no such parameter, so the channel always raises.
- `push.py:358`, `:661`, `:699`, `:783`: four channels take a status for a success
  (chronocat also the absence of any peer), against lines 8-9; a message is then
  taken for sent and no other channel is asked.
- `push_helper.py:28`: a user's configuration is laid over the site's, so a user's
  message falls back to the site owner's own channels, and goes there first where
  they rank before the user's.
- `push.py:595`: the connection to the mail server has no timeout; the fairness of
  `PushAggregator` assumes that it answers.

Mailboxes (`services/message/dm/`):

- `dm.py:896` against `:842`: the gate is a count before the insert; messages
  sent at the same time all pass it.
- `dm.py:890`: the gate counts rows that are not deleted, so deleting one's own
  message frees a place.
- `dm.py:638` and `:1017`: `ack_msgkey` and `last_msgkey` can fall, when sends
  commit in another order than they drew their keys (`models/db/dm_tbl.py:81`).
- `dm.py:704`: a recall sets both rows to recalled, also a row its owner had
  deleted, which the owner sees again as a recall notice (`models/enums.py:64`).
- `dm_admin.py:241`: the placeholder of a removed message is written to a session
  row chosen before the commit, and can land on a newer message's preview.
- `dm.py:444`: `_persist_dm` passes `audit_state`, which is not a column of the
  table (`auditStatus` is), so with `dm_pre_audit` on a message is shown as being
  audited in the session and is readable all the same (`core/config.py:438-440`).
- `dm.py:746`: closing a session writes `unread = 0` and hides the session with a
  message that arrived since the row was loaded.

Notices and reminders:

- The notify cursor falls when a pull that loaded it earlier moves it last; a
  notice that becomes visible below the cursor is never pulled (only listed).
- `notify.py:297`: `NotifyUpdateReq` (`models/schemas/notify.py:41`) says that only
  a draft's content may be changed (仅草稿态可改内容); `update` has no such guard.  It
  sets the title and the addressee as well, by which `create_idempotent` looks for
  its notice: a redelivery after such an edit publishes the notice once more,
  without any overlap.  A pull returns notices the user
  has deleted.
- `events/`: a page of reminders fails with an `IndexError` when its cards hold
  more events than `_ACTOR_SCAN_LIMIT`; reading one card raises the watermark of
  the whole type.

Deactivation and sign-in:

- `services/user/deactivation_service.py:86`: the check of the status and the
  DELETE are two statements; a login can remove a record that became pending in
  between, after which nothing deletes the Casdoor account.
- `api/pptr_user_gateway.py:788` against `:784`: a submission by an administrator
  has no user name, and the deletion in Casdoor fails for ever; a later
  submission by the owner keeps that record.
- `tasks/scheduler.py:352`: an owner who logs in between the purge and the
  deletion in Casdoor gets a new local account whose Casdoor account is then
  deleted.  `scheduler.py:286`: the job goes on to Casdoor when the record it
  meant to mark is gone.
- `dependencies/user.py:110`: a token outlives the purge, and a pending record
  does not stop its requests; `decode_token` does not look at `exp`, and the
  renewal signs the old role and level again.
- `deactivation_service.py:105`: rows whose purge fails for ever stay first in
  `list_due` and can fill its limit.
- `casdoor_service.py:702`, `pptr_user_gateway.py:964`: a Casdoor user without an
  e-mail gets a new local account at every sign-in, against step 3 of the
  docstring; a creation that lost a race writes its e-mail over the account that
  took the name and answers 500; tokens of the login carry level "0" and the
  Casdoor name; the stored access token is written at the creation only; the
  deletion in Casdoor uses the local name, which may have a suffix.

Accounts:

- `services/user/account/base.py:950`: `sync_role_on_level_up` says 不覆盖 root
  (does not overwrite root); a level-up that read the role before it was set to
  root overwrites it.  The role of an administrator who is not root is overwritten
  by any level-up, however long he has had it.
- Level and role need not agree: `create` writes the level its caller names with
  the role `level0` (`base.py:685`, `:719`, `:730`), an existing account takes over
  the level alone (`:237`), `rpc_set_user_level` writes a level and an experience
  that need not agree either, and `set_user_role` (`pptr_user_gateway.py:502`,
  `rpc_pptr_user.py:295`) accepts the role of another level.
- The public avatar is written without a review by `rpc_set_user_detail`
  (`rpc_pptr_user.py:264`, `base.py:911`) and by `rpc_create_user` of a name that
  exists (`base.py:222`, `:750`), over an approved one as well, while the gateway
  sends every new avatar to the team.
- Concurrent navigation requests book the daily bonus twice, and concurrent
  grants lose experience.
- Lifting a ban row lifts all its services.

The desks of the administrators (`BackOffice`):

- `dm_admin.py:246`: the queue of messages counts and pages rows, of which a
  message has two, and shows messages: a page of 20 holds about ten, the total is
  up to twice their number, and a message whose rows fall on two pages is shown
  on both.  `get_stats` (`:397`) counts rows in each state and messages in all.
- `api/dm_admin.py:182`: the conversation around a message shows an administrator
  who is not root the messages in every state; the comment on the queue
  (`api/comment_admin.py:178`) says 已审核内容只有 root 可见.
- `dm_admin.py:200`: after an error of the database within a batch the session may
  be of no further use, and all that follows is reported as failed; a commit whose
  answer is lost is reported as failed though it was made.

Comments and lists:

- `services/comment/comment_admin.py:76`: the docstring of `set_state` says that
  counters stay frozen and a job reconciles them; the code adjusts them in a
  second transaction, for comments of moments only, and `tasks/scheduler.py:19`
  says that the job was removed.
- A take-down after a report does not count down; two pins at the same time leave
  two marks; two adds at the same time share a floor.
- A reply to an existing comment passes the gate though the moment of the area
  is gone; `comment_audit.audit_text` is not called by `comment.add`.
- The reader's own comments under review are inserted one place too far when a
  comment is pinned, and repeated on every page; beginning with a comment
  (focus) makes the second page repeat a row; `_attach_sub_previews` has no
  order; forward polling misses messages that are released late.

Spaces (`services/user/`):

- `space_timeline.py:210`: `has_more` is `len(entries) > page_size`, and of each kind
  of follows and likes no more than a page is read, so a timeline of follows alone
  or likes alone ends after its first page, and any timeline ends where the rows
  that were read fill a page exactly (`cut`); the history reads one row more and
  does not.
- `space_timeline.py:118`, `:145`, `:188`: the next page begins before the second of
  the last row, so what else is of that second is skipped (`edges`).  Of things
  kept in several folders three pages of rows are read, which may hold less than a
  page of things (`crowded`); and a thing can be on two pages, once per folder.
- `space_privacy.py:93`: a save is said to overwrite all switches (整体覆盖); the ORM
  writes the columns that differ from what was read, so two saves that overlap
  leave a mixture of both.  The docstrings of the route and of the request speak of
  four switches; there are five.
- `api/space.py:43`, `:69`: timeline and followers are shown to who is blocked; only
  the card asks for blocks.
- `space_timeline.py:249` says that a page has at most 20 rows, the limit of the batch
  of details; `api/space.py:49` allows 50.
- `follow.py:325`: the window of five pages is for visitors who have signed in.

Moments:

- `services/moment/moment_publish.py:647`: a forward the filter lets pass is
  created NORMAL without the +1 the comment announces, and its removal counts
  down all the same; `dynamic/biz.py:477` counts a second approval again; a
  take-down counts nothing; two removals count twice.
- Impressions of the feed: the upsert sets `impressionCount` to 2 whatever it
  was; the count of moments of a topic is never updated; the hot-score job
  writes over concurrent updates; the candidates of the topic stream are limited
  before the exclusions; `hasMore` can be false with unshown items.
- `interaction_status_detail` passes a string id to a check that compares
  integers, so views of moments are never posted, and those of lotteries and
  others only while their service is down (`api/moment.py` says that the detail
  page posts them); snapshots of lotteries are always missing for the same reason;
  the counts of reports and reposts in `interaction_status` are always 0.

Interactions and follows:

- Two first favourites create two default folders; the list of
  the default group (`follow.py:312`) leaves out the rows of group 0, of which
  there are none, so it is the list of everybody followed, against its docstring
  and the count of `list_tags`; the removal of a favourite does not catch
  `ValueError`.
- `services/user/biz.py:37` compares a string with 0, so POST /follow/do, /undo,
  /block, /unblock (`api/follow.py`) and every report of a user end in a 500,
  against their docstrings and `tests/test_report.py:541-566`.  The gateway's own
  routes call `FollowService` directly and work.  The modules model the services.
- The author of a resource of another service is unknown while that service does
  not answer, and a block is then not checked.
- /community/report passes a gate that makes hidden things unreportable, POST
  /api/v1/report has none, though the docstring calls the two equivalent.  The
  review finds a report by its key in the tables one after the other, and keys of
  two tables can be equal.

Texts, configuration, limits:

- `services/audit/word_filter.py:328`: `levels.get(category, "medium")` asks a `Keyed`
  (`services/common/indexed.py:29-98`) for a method it has not, so `load` raises as
  soon as a file of a category is there; `match` (`:402`) and `match_categories`
  (`:385`) swallow it and return nothing.  `data/sensitive-words` has four such
  files: with them no audit finds any word, on any surface, and each tries to
  read the files again.  `tests/test_audit_engine.py:137-163` says that the
  categories are read.  `FindsEveryWord` and `NothingShown` therefore speak of the
  library in use, which is none as long as a category lies among the files.
- `mask_text` passes over the second of two occurrences that share a character
  (a word like "121" in "12121").  No caller passes the strict level;
  `reload_words` is never called, so files that are edited after they were read
  apply after a restart (the docs of the filter speak of a hot reload) while site
  lists apply at once; the
  verdict AUDIT is ignored for names and descriptions; links in names are not
  looked at; the author of a moment under AUDIT gets no notice.
- `services/common/runtime_config.py:125`: a read begun before a change stores the
  old value again in the writer's own process, against 本实例立即生效; a failed read
  keeps the default for a lifetime; the list of an administrator shows an invalid
  row as it is while the default is in use.
- Overlapping requests exceed a limit, by less than their number.

`PROJECT.json` lists the hazards the properties are for.  Further ones are above,
at `dm_content.py:45`, `dm.py:746`, `scheduler.py:352`, `dependencies/user.py:110` and
`pptr_user_gateway.py:788`; the order of the shutdown hooks in
`mq/router.py:60` is part of `PushAggregator`.

## Plan

Done: every component of the inventory with state that interleaves has a module
and a run, and the theorems above.  What is left, in this order:

1. *Proofs.*  Every property but liveness has its theorem.  What may still be
   won is weaker hypotheses: `StrangersAreHeld` with deletions, stated of the
   messages that are still there (those the gate counts), `NoBodyLost` per
   message instead of per run.
2. *Composition.*  `DmMailbox` and `DmContent` share the index rows; a module that
   instantiates both and identifies `status` with `rows` would show that a recall
   is final for the body's reader as well.
3. *Coverage.*  The rest of `services/moment/moment_feed.py` and
   `feed_engine.py` (caps of the recall paths), pinning a session and unread
   totals, the notice dispatch job.
