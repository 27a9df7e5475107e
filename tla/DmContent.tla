----------------------------- MODULE DmContent -----------------------------
(***************************************************************************)
(* The body pipeline of a private message.                                 *)
(*                                                                         *)
(* Sending commits the two index rows first and hands the body over        *)
(* afterwards: to RabbitMQ, or, when the broker refuses it, synchronously  *)
(* to the content shard, or as the last resort to the dead-letter table,   *)
(* which a timer job drains.  The shard, the index rows, the dead letters  *)
(* and the queue live in four transactions of three systems; this module   *)
(* has one action per transaction (or per broker call), so every crash,    *)
(* redelivery and recall can fall between two of them.                     *)
(*                                                                         *)
(* Bodies are abstracted to one token: what matters is whether the shard   *)
(* holds the body, holds NULL after a recall, or has no row at all.        *)
(***************************************************************************)
EXTENDS Naturals

CONSTANTS
    Msg,            \* msgkeys: a snowflake is never reused
    NoMsg,          \* "no message"
    Worker,         \* concurrent invocations of handle_dm_content
    SyncFallback,   \* values of settings.dm_content_sync_fallback
    Faults,         \* the kinds of failure the environment may cause
    MaxFaults       \* how many failures it may cause in a behaviour

\* What can fail.  Each kind names the call that fails, and where.
FaultKinds == {
    "touch",         \* the sender's activity is not recorded: send raises
    "publish",       \* broker.publish raises, nothing was enqueued
    "confirm",       \* broker.publish raises after the broker enqueued
    "shard",         \* the INSERT into the shard raises: write returns False
    "ddl",           \* ensure_shard raises in the consumer or in the job
    "ddl_in_send",   \* ensure_shard raises in the send request
    "mark_commit",   \* mark_content_ready raises
    "dlq_commit",    \* the dead-letter INSERT raises, not for a duplicate
    "clear",         \* clear_content fails: it only returns False
    "connection",    \* the AMQP connection drops and is re-established
    "shutdown",      \* restart after the HTTP requests have drained
    "kill" }         \* restart at any moment

ASSUME NoMsgAssumption == NoMsg \notin Msg
ASSUME SyncFallbackAssumption == SyncFallback \subseteq BOOLEAN
ASSUME FaultsAssumption == Faults \subseteq FaultKinds
ASSUME MaxFaultsAssumption == MaxFaults \in Nat

VARIABLES
    rows,      \* msg_dm_index: the status of each message in either view
    ready,     \* content_ready of both index rows
    shard,     \* the row of the content shard
    dlq,       \* msg_dm_content_dlq
    broker,    \* the delivery of the message in message_dm_content_queue
    ensured,   \* _ensured_shards, the process's cache of created tables
    request,   \* where the send request of each message stands
    worker,    \* invocations of the consumer
    job,       \* the run of retry_dead_letter_job
    recall,    \* where the recall request of each message stands
    budget     \* failures the environment may still cause

requestVars == <<request>>
storeVars == <<rows, ready, shard, dlq>>
vars == <<rows, ready, shard, dlq, broker, ensured, request, worker, job,
          recall, budget>>

View == {"sender", "receiver"}
RowStatus == {"absent", "normal", "recalled", "deleted"}

IdleWorker == [pc |-> "idle", msg |-> NoMsg, live |-> FALSE]
IdleJob == [running |-> FALSE, todo |-> {}, cur |-> NoMsg]

TypeOK ==
    /\ rows \in [Msg -> [View -> RowStatus]]
    /\ ready \in [Msg -> BOOLEAN]
    /\ shard \in [Msg -> {"missing", "body", "null"}]
    /\ dlq \in [Msg -> {"none", "open", "resolved"}]
    /\ broker \in [Msg -> {"none", "queued", "unacked", "done"}]
    /\ ensured \in SUBSET Msg
    /\ request \in [Msg -> {"none", "touch", "publish", "fallback", "mark",
                            "dead", "done", "error"}]
    /\ worker \in [Worker -> [pc: {"idle", "write", "mark", "dead", "ack"},
                              msg: Msg \cup {NoMsg}, live: BOOLEAN]]
    /\ job \in [running: BOOLEAN, todo: SUBSET Msg, cur: Msg \cup {NoMsg}]
    /\ recall \in [Msg -> {"none", "clear", "done"}]
    /\ budget \in 0..MaxFaults
    \* an invocation has a message, and a run of the job is at one of its rows
    /\ \A w \in Worker : worker[w].pc = "idle" <=> worker[w].msg = NoMsg
    /\ job.cur \in job.todo \cup {NoMsg}
    /\ ~job.running => job.todo = {}

Init ==
    /\ rows = [m \in Msg |-> [v \in View |-> "absent"]]
    /\ ready = [m \in Msg |-> FALSE]
    /\ shard = [m \in Msg |-> "missing"]
    /\ dlq = [m \in Msg |-> "none"]
    /\ broker = [m \in Msg |-> "none"]
    /\ ensured = {}
    /\ request = [m \in Msg |-> "none"]
    /\ worker = [w \in Worker |-> IdleWorker]
    /\ job = IdleJob
    /\ recall = [m \in Msg |-> "none"]
    /\ budget = MaxFaults

----------------------------------------------------------------------------
(* Failures and the three outcomes of DmContentService.write               *)

Fault(kind) == kind \in Faults /\ budget > 0 /\ budget' = budget - 1
NoFault == UNCHANGED budget

\* The row is inserted, or its content overwritten: ON DUPLICATE KEY UPDATE.
WriteStores(m) ==
    /\ shard' = [shard EXCEPT ![m] = "body"]
    /\ ensured' = ensured \cup {m}
    /\ NoFault

\* write catches the error of the INSERT and returns False.
WriteFails(m) ==
    /\ Fault("shard")
    /\ ensured' = ensured \cup {m}
    /\ UNCHANGED shard

\* ensure_shard is called outside write's try: its error leaves write.
WriteRaises(m, kind) ==
    /\ m \notin ensured
    /\ Fault(kind)
    /\ UNCHANGED <<shard, ensured>>

\* Seeded bug, as those below: the UPDATE of content_ready is not committed.
MarkReadyNotCommitted(m) == UNCHANGED ready

\* Seeded bug: the dead letter is added to the session and never committed.
LetterNotCommitted(m) == UNCHANGED dlq

\* mark_content_ready: both index rows, one commit.
MarkReady(m) == ready' = [ready EXCEPT ![m] = TRUE]

\* A dead letter with the body to write later.
OpenLetter(m) == dlq' = [dlq EXCEPT ![m] = "open"]

Sent(m) == rows[m]["sender"] # "absent"

(* Seeded bugs, used to check that the properties can fail.                *)

\* the body is published before the index rows are committed
SendPersistPublishesFirst(m) ==
    /\ \/ /\ request[m] = "none"
          /\ broker' = [broker EXCEPT ![m] = "queued"]
          /\ request' = [request EXCEPT ![m] = "mark"]
          /\ UNCHANGED rows
       \/ /\ request[m] = "mark"
          /\ ~Sent(m)
          /\ rows' = [rows EXCEPT ![m] = [v \in View |-> "normal"]]
          /\ request' = [request EXCEPT ![m] = "done"]
          /\ UNCHANGED broker
    /\ NoFault
    /\ UNCHANGED <<ready, shard, dlq, ensured, worker, job, recall>>

\* the handler marks the rows before it has written the body
WorkerTakeMarksFirst(w, m) ==
    /\ worker[w].pc = "idle"
    /\ broker[m] = "queued"
    /\ broker' = [broker EXCEPT ![m] = "unacked"]
    /\ worker' = [worker EXCEPT ![w] =
                    [pc |-> "mark", msg |-> m, live |-> TRUE]]
    /\ NoFault
    /\ UNCHANGED <<rows, ready, shard, dlq, ensured, request, job, recall>>

\* the job keeps the row it has just resolved as the one it works on
JobMarkKeepsRow(m) ==
    /\ job.running
    /\ job.cur = m
    /\ NoFault
    /\ MarkReady(m)
    /\ dlq' = [dlq EXCEPT ![m] = "resolved"]
    /\ job' = [job EXCEPT !.todo = @ \ {m}]
    /\ UNCHANGED <<rows, shard, broker, ensured, request, worker, recall>>

----------------------------------------------------------------------------
(* DmSessionObject.send, from the commit of the index rows on              *)

SendPersist(m) ==
    /\ request[m] = "none"
    /\ rows' = [rows EXCEPT ![m] = [v \in View |-> "normal"]]
    /\ request' = [request EXCEPT ![m] = "touch"]
    /\ NoFault
    /\ UNCHANGED <<ready, shard, dlq, broker, ensured, worker, job, recall>>

\* ActivityService.touch, a transaction between the rows and the hand-over.
SendTouch(m) ==
    /\ request[m] = "touch"
    /\ \/ NoFault /\ request' = [request EXCEPT ![m] = "publish"]
       \/ Fault("touch") /\ request' = [request EXCEPT ![m] = "error"]
    /\ UNCHANGED <<rows, ready, shard, dlq, broker, ensured, worker, job,
                   recall>>

SendPublish(m) ==
    /\ request[m] = "publish"
    /\ \/ /\ NoFault
          /\ broker' = [broker EXCEPT ![m] = "queued"]
          /\ request' = [request EXCEPT ![m] = "done"]
       \/ /\ Fault("publish")
          /\ request' = [request EXCEPT ![m] = "fallback"]
          /\ UNCHANGED broker
       \/ /\ Fault("confirm")
          /\ broker' = [broker EXCEPT ![m] = "queued"]
          /\ request' = [request EXCEPT ![m] = "fallback"]
    /\ UNCHANGED <<rows, ready, shard, dlq, ensured, worker, job, recall>>

\* _fallback_write_content: the synchronous write, if it is switched on.
SendFallback(m) ==
    /\ request[m] = "fallback"
    /\ \/ /\ TRUE \in SyncFallback
          /\ WriteStores(m)
          /\ request' = [request EXCEPT ![m] = "mark"]
       \/ /\ TRUE \in SyncFallback
          /\ WriteFails(m)
          /\ request' = [request EXCEPT ![m] = "dead"]
       \/ /\ TRUE \in SyncFallback
          /\ WriteRaises(m, "ddl_in_send")
          /\ request' = [request EXCEPT ![m] = "error"]
       \/ /\ FALSE \in SyncFallback
          /\ NoFault
          /\ request' = [request EXCEPT ![m] = "dead"]
          /\ UNCHANGED <<shard, ensured>>
    /\ UNCHANGED <<rows, ready, dlq, broker, worker, job, recall>>

\* mark_content_ready after the synchronous write.
SendMark(m) ==
    /\ request[m] = "mark"
    /\ \/ /\ NoFault
          /\ MarkReady(m)
          /\ request' = [request EXCEPT ![m] = "done"]
       \/ /\ Fault("mark_commit")
          /\ request' = [request EXCEPT ![m] = "error"]
          /\ UNCHANGED ready
    /\ UNCHANGED <<rows, shard, dlq, broker, ensured, worker, job, recall>>

\* The dead letter of a failed hand-over; its msgkey is unique, and a
\* duplicate (the consumer was faster) fails the request.
SendDead(m) ==
    /\ request[m] = "dead"
    /\ \/ /\ dlq[m] = "none"
          /\ NoFault
          /\ OpenLetter(m)
          /\ request' = [request EXCEPT ![m] = "done"]
       \/ /\ (dlq[m] # "none" /\ NoFault) \/ Fault("dlq_commit")
          /\ request' = [request EXCEPT ![m] = "error"]
          /\ UNCHANGED dlq
    /\ UNCHANGED <<rows, ready, shard, broker, ensured, worker, job, recall>>

----------------------------------------------------------------------------
(* handle_dm_content: MANUAL acknowledgement, no prefetch limit            *)

WorkerTake(w, m) ==
    /\ worker[w].pc = "idle"
    /\ broker[m] = "queued"
    /\ broker' = [broker EXCEPT ![m] = "unacked"]
    /\ worker' = [worker EXCEPT ![w] =
                    [pc |-> "write", msg |-> m, live |-> TRUE]]
    /\ NoFault
    /\ UNCHANGED <<rows, ready, shard, dlq, ensured, request, job, recall>>

\* An exception that leaves the handler ends the invocation without an
\* acknowledgement: the delivery stays with the channel.
WorkerWrite(w) ==
    /\ worker[w].pc = "write"
    /\ LET m == worker[w].msg IN
       \/ /\ WriteStores(m)
          /\ worker' = [worker EXCEPT ![w].pc = "mark"]
       \/ /\ WriteFails(m)
          /\ worker' = [worker EXCEPT ![w].pc = "dead"]
       \/ /\ WriteRaises(m, "ddl")
          /\ worker' = [worker EXCEPT ![w] = IdleWorker]
    /\ UNCHANGED <<rows, ready, dlq, broker, request, job, recall>>

WorkerMark(w) ==
    /\ worker[w].pc = "mark"
    /\ \/ /\ NoFault
          /\ MarkReady(worker[w].msg)
          /\ worker' = [worker EXCEPT ![w].pc = "ack"]
       \/ /\ Fault("mark_commit")
          /\ worker' = [worker EXCEPT ![w] = IdleWorker]
          /\ UNCHANGED ready
    /\ UNCHANGED <<rows, shard, dlq, broker, ensured, request, job, recall>>

\* Any error of the commit is taken for the duplicate and swallowed.
WorkerDead(w) ==
    /\ worker[w].pc = "dead"
    /\ LET m == worker[w].msg IN
       \/ /\ dlq[m] = "none"
          /\ NoFault
          /\ OpenLetter(m)
       \/ /\ (dlq[m] # "none" /\ NoFault) \/ Fault("dlq_commit")
          /\ UNCHANGED dlq
    /\ worker' = [worker EXCEPT ![w].pc = "ack"]
    /\ UNCHANGED <<rows, ready, shard, broker, ensured, request, job, recall>>

\* An acknowledgement on a connection that has gone does not reach the broker.
WorkerAck(w) ==
    /\ worker[w].pc = "ack"
    /\ broker' = IF worker[w].live
                 THEN [broker EXCEPT ![worker[w].msg] = "done"]
                 ELSE broker
    /\ worker' = [worker EXCEPT ![w] = IdleWorker]
    /\ NoFault
    /\ UNCHANGED <<rows, ready, shard, dlq, ensured, request, job, recall>>

----------------------------------------------------------------------------
(* retry_dead_letter_job: one session, max_instances=1                     *)

\* The limit of 50 rows a run is above the number of messages.
JobStart ==
    /\ ~job.running
    /\ \E m \in Msg : dlq[m] = "open"
    /\ job' = [running |-> TRUE, todo |-> {m \in Msg : dlq[m] = "open"},
               cur |-> NoMsg]
    /\ NoFault
    /\ UNCHANGED <<rows, ready, shard, dlq, broker, ensured, request, worker,
                   recall>>

\* A row that fails again stays open; an error of ensure_shard ends the run.
JobWrite(m) ==
    /\ job.running
    /\ job.cur = NoMsg
    /\ m \in job.todo
    /\ \/ /\ WriteStores(m)
          /\ job' = [job EXCEPT !.cur = m]
       \/ /\ WriteFails(m)
          /\ job' = [job EXCEPT !.todo = @ \ {m}]
       \/ /\ WriteRaises(m, "ddl")
          /\ job' = IdleJob
    /\ UNCHANGED <<rows, ready, dlq, broker, request, worker, recall>>

\* mark_content_ready commits the session, and with it row.resolved = True.
JobMark(m) ==
    /\ job.running
    /\ job.cur = m
    /\ \/ /\ NoFault
          /\ MarkReady(m)
          /\ dlq' = [dlq EXCEPT ![m] = "resolved"]
          /\ job' = [job EXCEPT !.todo = @ \ {m}, !.cur = NoMsg]
       \/ /\ Fault("mark_commit")
          /\ job' = IdleJob
          /\ UNCHANGED <<ready, dlq>>
    /\ UNCHANGED <<rows, shard, broker, ensured, request, worker, recall>>

JobEnd ==
    /\ job.running
    /\ job.todo = {}
    /\ job' = IdleJob
    /\ NoFault
    /\ UNCHANGED <<rows, ready, shard, dlq, broker, ensured, request, worker,
                   recall>>

----------------------------------------------------------------------------
(* recall_message and delete_messages                                      *)

\* One UPDATE over every row of the msgkey, a row its owner deleted too.
RecallCommit(m) ==
    /\ rows[m]["sender"] = "normal"
    /\ rows' = [rows EXCEPT ![m] = [v \in View |-> "recalled"]]
    /\ recall' = [recall EXCEPT ![m] = "clear"]
    /\ NoFault
    /\ UNCHANGED <<ready, shard, dlq, broker, ensured, request, worker, job>>

\* clear_content is an UPDATE: where the shard has no row it does nothing.
RecallClear(m) ==
    /\ recall[m] = "clear"
    /\ recall' = [recall EXCEPT ![m] = "done"]
    /\ \/ /\ NoFault
          /\ shard' = [shard EXCEPT ![m] = IF @ = "body" THEN "null" ELSE @]
       \/ /\ Fault("clear")
          /\ UNCHANGED shard
    /\ UNCHANGED <<rows, ready, dlq, broker, ensured, request, worker, job>>

DeleteMessage(m, v) ==
    /\ rows[m][v] \in {"normal", "recalled"}
    /\ rows' = [rows EXCEPT ![m][v] = "deleted"]
    /\ NoFault
    /\ UNCHANGED <<ready, shard, dlq, broker, ensured, request, worker, job,
                   recall>>

----------------------------------------------------------------------------
(* The broker's connection and the life of the process                     *)

\* The broker returns what a closed channel had not acknowledged; handlers
\* that are running keep running.
ChannelCloses ==
    /\ broker' = [m \in Msg |->
                    IF broker[m] = "unacked" THEN "queued" ELSE broker[m]]
    /\ worker' = [w \in Worker |-> [worker[w] EXCEPT !.live = FALSE]]
    /\ UNCHANGED <<rows, ready, shard, dlq, ensured, request, job, recall>>

ConnectionLoss == Fault("connection") /\ ChannelCloses

\* RabbitMQ closes a channel whose delivery stays unacknowledged too long.
Stalled(m) ==
    /\ broker[m] = "unacked"
    /\ \A w \in Worker : worker[w].live => worker[w].msg # m

AckTimeout == (\E m \in Msg : Stalled(m)) /\ NoFault /\ ChannelCloses

\* What a process that ends leaves behind: the stores and the queue.
Restart ==
    /\ broker' = [m \in Msg |->
                    IF broker[m] = "unacked" THEN "queued" ELSE broker[m]]
    /\ request' = [m \in Msg |->
                    IF request[m] \in {"none", "done"} THEN request[m]
                                                       ELSE "error"]
    /\ recall' = [m \in Msg |->
                    IF recall[m] = "clear" THEN "done" ELSE recall[m]]
    /\ worker' = [w \in Worker |-> IdleWorker]
    /\ job' = IdleJob
    /\ ensured' = {}
    /\ UNCHANGED <<rows, ready, shard, dlq>>

HttpDrained ==
    \A m \in Msg : /\ request[m] \in {"none", "done", "error"}
                   /\ recall[m] # "clear"

Shutdown == HttpDrained /\ Fault("shutdown") /\ Restart
Kill == Fault("kill") /\ Restart

----------------------------------------------------------------------------

SendStep(m) ==
    \/ SendTouch(m) \/ SendPublish(m)
    \/ SendFallback(m) \/ SendMark(m) \/ SendDead(m)
WorkerStep(w) ==
    WorkerWrite(w) \/ WorkerMark(w) \/ WorkerDead(w) \/ WorkerAck(w)
JobStep ==
    JobStart \/ JobEnd \/ \E m \in Msg : JobWrite(m) \/ JobMark(m)

Next ==
    \/ \E m \in Msg : \/ SendPersist(m) \/ SendStep(m)
                      \/ RecallCommit(m) \/ RecallClear(m)
                      \/ \E v \in View : DeleteMessage(m, v)
                      \/ \E w \in Worker : WorkerTake(w, m)
    \/ \E w \in Worker : WorkerStep(w)
    \/ JobStep
    \/ ConnectionLoss \/ AckTimeout \/ Shutdown \/ Kill

Spec == Init /\ [][Next]_vars

\* Code that has started runs on; the broker delivers what is queued; the
\* timer fires.  Nobody has to send, recall or delete, and nothing has to fail.
Fairness ==
    /\ \A m \in Msg : WF_vars(SendStep(m)) /\ WF_vars(RecallClear(m))
    /\ \A m \in Msg : WF_vars(\E w \in Worker : WorkerTake(w, m))
    /\ \A w \in Worker : WF_vars(WorkerStep(w))
    /\ WF_vars(JobStep)
    /\ WF_vars(AckTimeout)

FairSpec == Spec /\ Fairness

----------------------------------------------------------------------------
(* Properties                                                              *)

Stored(m) == shard[m] # "missing"

bodyOf == [m \in Msg |->
    IF ~Sent(m) THEN "unsent"
    ELSE IF recall[m] # "none" THEN "recalled"
    ELSE IF Stored(m) THEN "stored" ELSE "pending"]

Promise == INSTANCE DmBodyPromise WITH body <- bodyOf

\* The pipeline implements the promise: a sent body gets stored unless it is
\* recalled first, and what is stored is never taken back by a failure.
KeepsPromise == Promise!PromiseSpec

\* The same without the timing: no failure makes a reader lose a body it could
\* see, and no body shows up before its rows do or after its recall.
OnlyPromisedSteps == Promise!PromiseInit /\ [][Promise!PromiseNext]_bodyOf

Held(m) ==
    \/ Stored(m)
    \/ dlq[m] = "open"
    \/ broker[m] \in {"queued", "unacked"}
    \/ request[m] \in {"touch", "publish", "fallback", "dead"}

\* The consumer's two ways of being done with a delivery.
Handled(m) == ready[m] \/ dlq[m] # "none"

\* What a writer knows between two of its transactions: whoever is about to
\* mark a body ready has stored it, so has whoever closed its dead letter.
\* This is the inductive form of ReadyMeansStored and ResolvedMeansReady.
WriteBeforeMark ==
    /\ \A m \in Msg : ready[m] \/ request[m] = "mark" => Stored(m)
    /\ \A m \in Msg : dlq[m] = "resolved" => ready[m]
    /\ \A w \in Worker : worker[w].pc = "mark" => Stored(worker[w].msg)
    /\ job.cur # NoMsg => Stored(job.cur)

\* Failures that no writer survives with the body in hand.
LossFaults == {"touch", "ddl_in_send", "dlq_commit", "kill"}

\* The inductive form of BodyAccounted: an acknowledgement is only sent for a
\* body that is ready or has its letter, and a request that has ended, well
\* or not, has left the body somewhere.
HandedOver ==
    /\ \A m \in Msg : broker[m] = "done" => Handled(m)
    /\ \A w \in Worker : worker[w].pc = "ack" => Handled(worker[w].msg)
    /\ \A m \in Msg : request[m] \in {"done", "error"} => Held(m)
    /\ \A m \in Msg : request[m] = "none" => ~Sent(m)

\* No body is lost: once the index rows of a message are committed, its body
\* is in the shard, in an open dead letter, with the broker, or still in the
\* hands of the send request (dm.py: a failed hand-over loses no message).
BodyAccounted == \A m \in Msg : Sent(m) => Held(m)

\* content_ready is only ever set for a body the shard has taken, whichever
\* of the three writers set it and however their steps interleave.
ReadyMeansStored == \A m \in Msg : ready[m] => Stored(m)

\* The broker may forget a delivery only when its body is marked ready or a
\* dead letter stands for it, also for a redelivery another handler overtook.
AckedMeansHandled == \A m \in Msg : broker[m] = "done" => Handled(m)

\* A dead letter is closed only for a body that is stored and marked ready.
ResolvedMeansReady ==
    \A m \in Msg : dlq[m] = "resolved" => ready[m] /\ Stored(m)

\* A send the caller saw succeed ends with the body in the shard and both
\* index rows marked, through whichever of the three ways it has to go.
AcceptedBecomesReady ==
    \A m \in Msg : request[m] = "done" ~> ready[m] /\ Stored(m)

=============================================================================
