--------------------------- MODULE Delivery_proofs ---------------------------
(***************************************************************************)
(* Proofs about deliveries, for any number of them.  The body pipeline:    *)
(* any set of messages, any number of consumer invocations and any number  *)
(* of failures.  The push aggregator: no push goes out twice, for any      *)
(* messages, receivers, times and number of concurrent deliveries, and     *)
(* nothing buffered is out of the sweeper's reach as long as deliveries do *)
(* not overlap.  The channels: a message falls back from one to the next   *)
(* in their order, whatever is configured and whatever the providers say.  *)
(***************************************************************************)
EXTENDS MCDelivery, FiniteSetTheorems, TLAPS

-----------------------------------------------------------------------------
(* The body pipeline.                                                      *)

USE DEF View, RowStatus

\* The state stays well formed: every store holds one of its values, an
\* invocation of the consumer has a message, and a run of the job works on a
\* row it has read.
LEMMA TypeInit == Init => TypeOK
BY NoMsgAssumption, MaxFaultsAssumption
   DEF Init, TypeOK, IdleWorker, IdleJob

\* The budget of failures stays within its bound, whatever fails.
LEMMA Budget ==
    ASSUME budget \in 0..MaxFaults
    PROVE  /\ NoFault => budget' \in 0..MaxFaults
           /\ \A kind : Fault(kind) => budget' \in 0..MaxFaults
BY MaxFaultsAssumption DEF NoFault, Fault

LEMMA SendType ==
    ASSUME TypeOK, NEW m \in Msg, SendPersist(m) \/ SendStep(m)
    PROVE  TypeOK'
<1>1. CASE SendPersist(m)
  BY <1>1, Budget DEF TypeOK, SendPersist
<1>2. CASE SendPublish(m)
  BY <1>2, Budget DEF TypeOK, SendPublish
<1>6. CASE SendTouch(m)
  BY <1>6, Budget DEF TypeOK, SendTouch
<1>3. CASE SendFallback(m)
  BY <1>3, Budget
     DEF TypeOK, SendFallback, WriteStores, WriteFails, WriteRaises
<1>4. CASE SendMark(m)
  BY <1>4, Budget
     DEF TypeOK, SendMark, MarkReady
<1>5. CASE SendDead(m)
  BY <1>5, Budget
     DEF TypeOK, SendDead, OpenLetter
<1> QED BY <1>1, <1>2, <1>3, <1>4, <1>5, <1>6 DEF SendStep

LEMMA WorkerTakeType ==
    ASSUME TypeOK, NEW m \in Msg, NEW w \in Worker, WorkerTake(w, m)
    PROVE  TypeOK'
BY NoMsgAssumption, Budget DEF TypeOK, WorkerTake

\* What an invocation of the consumer may become: it moves on with its
\* message, or it ends.
WorkerOK ==
    /\ worker \in [Worker -> [pc: {"idle", "write", "mark", "dead", "ack"},
                              msg: Msg \cup {NoMsg}, live: BOOLEAN]]
    /\ \A w \in Worker : worker[w].pc = "idle" <=> worker[w].msg = NoMsg

LEMMA WorkerMoves ==
    ASSUME WorkerOK, NEW w \in Worker, worker[w].pc # "idle",
           NEW pc \in {"mark", "dead", "ack"},
           worker' = [worker EXCEPT ![w].pc = pc]
    PROVE  WorkerOK'
BY DEF WorkerOK

LEMMA WorkerEnds ==
    ASSUME WorkerOK, NEW w \in Worker,
           worker' = [worker EXCEPT ![w] = IdleWorker]
    PROVE  WorkerOK'
BY NoMsgAssumption DEF WorkerOK, IdleWorker

LEMMA WorkerType ==
    ASSUME TypeOK, NEW w \in Worker, WorkerStep(w)
    PROVE  TypeOK'
<1>0. WorkerOK /\ (worker[w].pc # "idle" => worker[w].msg \in Msg)
  BY DEF TypeOK, WorkerOK
<1>1. CASE WorkerWrite(w)
  <2>1. /\ shard' \in [Msg -> {"missing", "body", "null"}]
        /\ ensured' \in SUBSET Msg
        /\ budget' \in 0..MaxFaults
    BY <1>0, <1>1, Budget
       DEF TypeOK, WorkerWrite, WriteStores, WriteFails, WriteRaises
  <2>2. WorkerOK'
    BY <1>0, <1>1, WorkerMoves, WorkerEnds DEF WorkerWrite
  <2> QED BY <1>1, <2>1, <2>2 DEF TypeOK, WorkerWrite, WorkerOK
<1>2. CASE WorkerMark(w)
  <2>1. ready' \in [Msg -> BOOLEAN] /\ budget' \in 0..MaxFaults
    BY <1>0, <1>2, Budget DEF TypeOK, WorkerMark, MarkReady
  <2>2. WorkerOK'
    BY <1>0, <1>2, WorkerMoves, WorkerEnds DEF WorkerMark
  <2> QED BY <1>2, <2>1, <2>2 DEF TypeOK, WorkerMark, WorkerOK
<1>3. CASE WorkerDead(w)
  <2>1. dlq' \in [Msg -> {"none", "open", "resolved"}]
        /\ budget' \in 0..MaxFaults
    BY <1>0, <1>3, Budget DEF TypeOK, WorkerDead, OpenLetter
  <2>2. WorkerOK'
    BY <1>0, <1>3, WorkerMoves DEF WorkerDead
  <2> QED BY <1>3, <2>1, <2>2 DEF TypeOK, WorkerDead, WorkerOK
<1>4. CASE WorkerAck(w)
  <2>1. broker' \in [Msg -> {"none", "queued", "unacked", "done"}]
        /\ budget' \in 0..MaxFaults
    BY <1>0, <1>4, Budget DEF TypeOK, WorkerAck
  <2>2. WorkerOK'
    BY <1>0, <1>4, WorkerEnds DEF WorkerAck
  <2> QED BY <1>4, <2>1, <2>2 DEF TypeOK, WorkerAck, WorkerOK
<1> QED BY <1>1, <1>2, <1>3, <1>4 DEF WorkerStep

\* What a run of the job may become.
JobOK ==
    /\ job \in [running: BOOLEAN, todo: SUBSET Msg, cur: Msg \cup {NoMsg}]
    /\ job.cur \in job.todo \cup {NoMsg}
    /\ ~job.running => job.todo = {}

LEMMA JobMoves ==
    ASSUME JobOK, job.running, NEW m \in Msg, m \in job.todo,
           \/ job' = [job EXCEPT !.cur = m]
           \/ job.cur = NoMsg /\ job' = [job EXCEPT !.todo = @ \ {m}]
           \/ job' = [job EXCEPT !.todo = @ \ {m}, !.cur = NoMsg]
           \/ job' = IdleJob
    PROVE  JobOK'
<1>1. CASE job' = [job EXCEPT !.cur = m]
  BY <1>1 DEF JobOK
<1>2. CASE job.cur = NoMsg /\ job' = [job EXCEPT !.todo = @ \ {m}]
  BY <1>2 DEF JobOK
<1>3. CASE job' = [job EXCEPT !.todo = @ \ {m}, !.cur = NoMsg]
  BY <1>3 DEF JobOK
<1>4. CASE job' = IdleJob
  BY <1>4 DEF JobOK, IdleJob
<1> QED BY <1>1, <1>2, <1>3, <1>4

LEMMA JobType ==
    ASSUME TypeOK, JobStep
    PROVE  TypeOK'
<1>1. CASE JobStart
  BY <1>1, NoMsgAssumption, Budget DEF TypeOK, JobStart
<1>2. CASE JobEnd
  BY <1>2, Budget DEF TypeOK, JobEnd, IdleJob
<1>3. ASSUME NEW m \in Msg, JobWrite(m) PROVE TypeOK'
  <2>1. /\ shard' \in [Msg -> {"missing", "body", "null"}]
        /\ ensured' \in SUBSET Msg
        /\ budget' \in 0..MaxFaults
    BY <1>3, Budget
       DEF TypeOK, JobWrite, WriteStores, WriteFails, WriteRaises
  <2>2. JobOK'
    BY <1>3, JobMoves DEF TypeOK, JobWrite, JobOK
  <2> QED BY <1>3, <2>1, <2>2 DEF TypeOK, JobWrite, JobOK
<1>4. ASSUME NEW m \in Msg, JobMark(m) PROVE TypeOK'
  <2>1. /\ ready' \in [Msg -> BOOLEAN]
        /\ dlq' \in [Msg -> {"none", "open", "resolved"}]
        /\ budget' \in 0..MaxFaults
    BY <1>4, Budget DEF TypeOK, JobMark, MarkReady
  <2>2. JobOK'
    BY <1>4, JobMoves, NoMsgAssumption DEF TypeOK, JobMark, JobOK
  <2> QED BY <1>4, <2>1, <2>2 DEF TypeOK, JobMark, JobOK
<1> QED BY <1>1, <1>2, <1>3, <1>4 DEF JobStep

LEMMA RecallType ==
    ASSUME TypeOK, NEW m \in Msg,
           \/ RecallCommit(m) \/ RecallClear(m)
           \/ \E v \in View : DeleteMessage(m, v)
    PROVE  TypeOK'
<1>1. CASE RecallCommit(m)
  BY <1>1, Budget DEF TypeOK, RecallCommit
<1>2. CASE RecallClear(m)
  BY <1>2, Budget DEF TypeOK, RecallClear
<1>3. ASSUME NEW v \in View, DeleteMessage(m, v) PROVE TypeOK'
  BY <1>3, Budget DEF TypeOK, DeleteMessage
<1> QED BY <1>1, <1>2, <1>3

LEMMA EnvironmentType ==
    ASSUME TypeOK, ConnectionLoss \/ AckTimeout \/ Shutdown \/ Kill
    PROVE  TypeOK'
<1>1. CASE ChannelCloses /\ budget' \in 0..MaxFaults
  BY <1>1 DEF TypeOK, ChannelCloses
<1>2. CASE Restart /\ budget' \in 0..MaxFaults
  BY <1>2 DEF TypeOK, Restart, IdleWorker, IdleJob
<1>3. budget' \in 0..MaxFaults
  BY Budget
     DEF TypeOK, ConnectionLoss, AckTimeout, Shutdown, Kill
<1> QED
  BY <1>1, <1>2, <1>3 DEF ConnectionLoss, AckTimeout, Shutdown, Kill

LEMMA TypeNext == TypeOK /\ [Next]_vars => TypeOK'
<1> SUFFICES ASSUME TypeOK, [Next]_vars PROVE TypeOK'
  OBVIOUS
<1>1. CASE UNCHANGED vars
  BY <1>1 DEF TypeOK, vars
<1>2. CASE Next
  BY <1>2, SendType, WorkerTakeType, WorkerType, JobType, RecallType,
     EnvironmentType DEF Next
<1> QED BY <1>1, <1>2

\* The pipeline's state is well formed in every behaviour.
THEOREM TypeCorrect == Spec => []TypeOK
<1>1. TypeOK /\ [Next]_vars => TypeOK'
  BY TypeNext
<1> QED BY TypeInit, <1>1, PTL DEF Spec

----------------------------------------------------------------------------
(* Every writer stores a body before it says so                            *)

\* The shard only ever gains bodies: a row never goes missing again.
LEMMA ShardGrows ==
    ASSUME TypeOK, [Next]_vars, NEW m \in Msg, Stored(m)
    PROVE  Stored(m)'
<1>1. CASE UNCHANGED vars
  BY <1>1 DEF vars, Stored
<1>2. ASSUME NEW n \in Msg, WriteStores(n) \/ WriteFails(n) \/
                             \E k : WriteRaises(n, k)
      PROVE  Stored(m)'
  BY <1>2 DEF TypeOK, Stored, WriteStores, WriteFails, WriteRaises
<1>3. ASSUME NEW n \in Msg, SendPersist(n) \/ SendStep(n) PROVE Stored(m)'
  BY <1>2, <1>3
     DEF Stored, SendPersist, SendStep, SendTouch, SendPublish, SendFallback,
         SendMark, SendDead
<1>4. ASSUME NEW w \in Worker, WorkerStep(w) PROVE Stored(m)'
  <2>1. CASE WorkerWrite(w)
    BY <1>2, <2>1 DEF TypeOK, WorkerWrite
  <2> QED
    BY <1>4, <2>1 DEF Stored, WorkerStep, WorkerMark, WorkerDead, WorkerAck
<1>5. ASSUME JobStep PROVE Stored(m)'
  BY <1>2, <1>5 DEF Stored, JobStep, JobStart, JobEnd, JobWrite, JobMark
<1>6. ASSUME NEW n \in Msg, RecallClear(n) PROVE Stored(m)'
  BY <1>6 DEF TypeOK, Stored, RecallClear
<1>7. ASSUME NEW n \in Msg,
             \/ RecallCommit(n)
             \/ \E v \in View : DeleteMessage(n, v)
             \/ \E w \in Worker : WorkerTake(w, n)
      PROVE  Stored(m)'
  BY <1>7 DEF Stored, RecallCommit, DeleteMessage, WorkerTake
<1>8. ASSUME ConnectionLoss \/ AckTimeout \/ Shutdown \/ Kill
      PROVE  Stored(m)'
  BY <1>8 DEF Stored, ConnectionLoss, AckTimeout, Shutdown, Kill,
              ChannelCloses, Restart
<1> QED
  BY <1>1, <1>3, <1>4, <1>5, <1>6, <1>7, <1>8 DEF Next

LEMMA WriteBeforeMarkInit == Init => WriteBeforeMark
BY NoMsgAssumption DEF Init, WriteBeforeMark, IdleWorker, IdleJob

LEMMA WriteBeforeMarkNext ==
    ASSUME TypeOK, WriteBeforeMark, [Next]_vars
    PROVE  WriteBeforeMark'
<1>0. \A m \in Msg : Stored(m) => Stored(m)'
  BY ShardGrows
<1>w. \A w \in Worker : worker[w].pc = "mark" => worker[w].msg \in Msg
  BY DEF TypeOK
<1>j. job.cur # NoMsg => job.cur \in Msg
  BY DEF TypeOK
<1>1. CASE UNCHANGED vars
  BY <1>1, <1>0, <1>w, <1>j DEF vars, WriteBeforeMark
<1>2. ASSUME NEW n \in Msg, SendPersist(n) PROVE WriteBeforeMark'
  BY <1>2, <1>0, <1>w, <1>j DEF TypeOK, WriteBeforeMark, SendPersist
<1>3. ASSUME NEW n \in Msg, SendPublish(n) PROVE WriteBeforeMark'
  BY <1>3, <1>0, <1>w, <1>j DEF TypeOK, WriteBeforeMark, SendPublish
<1>19. ASSUME NEW n \in Msg, SendTouch(n) PROVE WriteBeforeMark'
  BY <1>19, <1>0, <1>w, <1>j DEF TypeOK, WriteBeforeMark, SendTouch
<1>4. ASSUME NEW n \in Msg, SendFallback(n) PROVE WriteBeforeMark'
  <2>1. request'[n] = "mark" => Stored(n)'
    BY <1>4 DEF TypeOK, SendFallback, WriteStores, Stored
  <2>2. \A m \in Msg \ {n} : request'[m] = request[m]
    BY <1>4 DEF TypeOK, SendFallback
  <2> QED
    BY <1>4, <2>1, <2>2, <1>0, <1>w, <1>j DEF WriteBeforeMark, SendFallback
<1>5. ASSUME NEW n \in Msg, SendMark(n) PROVE WriteBeforeMark'
  <2>1. Stored(n)
    BY <1>5 DEF WriteBeforeMark, SendMark
  <2>2. \A m \in Msg : /\ ready'[m] => ready[m] \/ m = n
                       /\ ready[m] => ready'[m]
    BY <1>5 DEF TypeOK, SendMark, MarkReady
  <2>3. \A m \in Msg : request'[m] = "mark" => request[m] = "mark"
    BY <1>5 DEF TypeOK, SendMark
  <2> QED
    BY <1>5, <2>1, <2>2, <2>3, <1>0, <1>w, <1>j DEF WriteBeforeMark, SendMark
<1>6. ASSUME NEW n \in Msg, SendDead(n) PROVE WriteBeforeMark'
  BY <1>6, <1>0, <1>w, <1>j
     DEF TypeOK, WriteBeforeMark, SendDead, OpenLetter
<1>7. ASSUME NEW n \in Msg, NEW w \in Worker, WorkerTake(w, n)
      PROVE  WriteBeforeMark'
  <2>1. (worker[w].pc # "mark")'
    BY <1>7 DEF TypeOK, WorkerTake
  <2>2. \A u \in Worker \ {w} : worker'[u] = worker[u]
    BY <1>7 DEF TypeOK, WorkerTake
  <2> QED
    BY <1>7, <2>1, <2>2, <1>0, <1>w, <1>j DEF WriteBeforeMark, WorkerTake
<1>8. ASSUME NEW w \in Worker, WorkerWrite(w) PROVE WriteBeforeMark'
  <2>1. (worker[w].pc = "mark" => Stored(worker[w].msg))'
    <3>1. CASE worker' = [worker EXCEPT ![w].pc = "mark"]
      <4>1. worker[w].msg \in Msg
        BY <1>8 DEF TypeOK, WorkerWrite
      <4>2. worker'[w].msg = worker[w].msg
        BY <3>1 DEF TypeOK
      <4>3. WriteStores(worker[w].msg) \/ Stored(worker[w].msg)
        BY <1>8, <3>1 DEF TypeOK, WorkerWrite, IdleWorker
      <4>4. shard'[worker[w].msg] = "body" \/ Stored(worker[w].msg)
        BY <4>1, <4>3 DEF TypeOK, WriteStores
      <4> QED BY <1>0, <4>1, <4>2, <4>4 DEF Stored
    <3>2. CASE worker'[w].pc # "mark"
      BY <3>2
    <3> QED
      BY <1>8, <3>1, <3>2 DEF TypeOK, WorkerWrite, IdleWorker
  <2>2. \A u \in Worker \ {w} : worker'[u] = worker[u]
    BY <1>8 DEF TypeOK, WorkerWrite
  <2> QED
    BY <1>8, <2>1, <2>2, <1>0, <1>w, <1>j DEF WriteBeforeMark, WorkerWrite
<1>9. ASSUME NEW w \in Worker, WorkerMark(w) PROVE WriteBeforeMark'
  <2>1. (worker[w].pc # "mark")'
    BY <1>9 DEF TypeOK, WorkerMark, IdleWorker
  <2>2. \A u \in Worker \ {w} : worker'[u] = worker[u]
    BY <1>9 DEF TypeOK, WorkerMark
  <2>3. Stored(worker[w].msg) /\ worker[w].msg \in Msg
    BY <1>9, <1>w DEF WriteBeforeMark, WorkerMark
  <2>4. \A m \in Msg : /\ ready'[m] => ready[m] \/ m = worker[w].msg
                       /\ ready[m] => ready'[m]
    BY <1>9 DEF TypeOK, WorkerMark, MarkReady
  <2> QED
    BY <1>9, <2>1, <2>2, <2>3, <2>4, <1>0, <1>w, <1>j
       DEF WriteBeforeMark, WorkerMark
<1>10. ASSUME NEW w \in Worker, WorkerDead(w) PROVE WriteBeforeMark'
  <2>1. (worker[w].pc # "mark")'
    BY <1>10 DEF TypeOK, WorkerDead, IdleWorker
  <2>2. \A u \in Worker \ {w} : worker'[u] = worker[u]
    BY <1>10 DEF TypeOK, WorkerDead
  <2>3. worker[w].msg \in Msg
    BY <1>10 DEF TypeOK, WorkerDead
  <2> QED
    BY <1>10, <2>1, <2>2, <2>3, <1>0, <1>w, <1>j
       DEF TypeOK, WriteBeforeMark, WorkerDead, OpenLetter
<1>11. ASSUME NEW w \in Worker, WorkerAck(w) PROVE WriteBeforeMark'
  <2>1. (worker[w].pc # "mark")'
    BY <1>11 DEF TypeOK, WorkerAck, IdleWorker
  <2>2. \A u \in Worker \ {w} : worker'[u] = worker[u]
    BY <1>11 DEF TypeOK, WorkerAck
  <2> QED
    BY <1>11, <2>1, <2>2, <1>0, <1>w, <1>j
       DEF TypeOK, WriteBeforeMark, WorkerAck
<1>12. CASE JobStart
  BY <1>12, <1>0, <1>w, <1>j DEF TypeOK, WriteBeforeMark, JobStart
<1>13. CASE JobEnd
  BY <1>13, <1>0, <1>w, <1>j DEF TypeOK, WriteBeforeMark, JobEnd, IdleJob
<1>14. ASSUME NEW n \in Msg, JobWrite(n) PROVE WriteBeforeMark'
  <2>1. (job.cur # NoMsg => Stored(job.cur))'
    BY <1>14, NoMsgAssumption
       DEF TypeOK, JobWrite, WriteStores, Stored, IdleJob
  <2> QED BY <1>14, <2>1, <1>0, <1>w DEF WriteBeforeMark, JobWrite
<1>15. ASSUME NEW n \in Msg, JobMark(n) PROVE WriteBeforeMark'
  <2>1. Stored(n)
    BY <1>15, NoMsgAssumption DEF WriteBeforeMark, JobMark
  <2>2. \A m \in Msg : /\ ready'[m] => ready[m] \/ m = n
                       /\ ready[m] => ready'[m]
    BY <1>15 DEF TypeOK, JobMark, MarkReady
  <2>3. job'.cur = NoMsg
    <3>1. CASE job' = [job EXCEPT !.todo = @ \ {n}, !.cur = NoMsg]
      <4>1. job \in [running: BOOLEAN, todo: SUBSET Msg,
                     cur: Msg \cup {NoMsg}]
        BY DEF TypeOK
      <4> QED BY <3>1, <4>1
    <3>2. CASE job' = IdleJob
      BY <3>2 DEF IdleJob
    <3> QED BY <1>15, <3>1, <3>2 DEF JobMark
  <2>4. \A m \in Msg : dlq'[m] = "resolved" =>
                         dlq[m] = "resolved" \/ ready'[m]
    BY <1>15 DEF TypeOK, JobMark, MarkReady
  <2>5. UNCHANGED <<request, worker, shard>>
    BY <1>15 DEF JobMark
  <2>6. \A m \in Msg : ready'[m] \/ request'[m] = "mark" => Stored(m)'
    BY <2>1, <2>2, <2>5, <1>0 DEF WriteBeforeMark
  <2>7. \A m \in Msg : dlq'[m] = "resolved" => ready'[m]
    BY <2>2, <2>4 DEF WriteBeforeMark
  <2>8. \A w \in Worker : worker'[w].pc = "mark" => Stored(worker[w].msg)'
    BY <2>5, <1>0, <1>w DEF WriteBeforeMark
  <2> QED
    BY <2>3, <2>5, <2>6, <2>7, <2>8 DEF WriteBeforeMark
<1>16. ASSUME NEW n \in Msg, \/ RecallCommit(n) \/ RecallClear(n)
                             \/ \E v \in View : DeleteMessage(n, v)
       PROVE  WriteBeforeMark'
  <2>1. UNCHANGED <<ready, dlq, request, worker, job>>
    BY <1>16 DEF RecallCommit, RecallClear, DeleteMessage
  <2> QED BY <2>1, <1>0, <1>w, <1>j DEF WriteBeforeMark
<1>17. CASE ChannelCloses
  <2>1. \A w \in Worker : /\ worker'[w].pc = worker[w].pc
                          /\ worker'[w].msg = worker[w].msg
    BY <1>17 DEF TypeOK, ChannelCloses
  <2>2. UNCHANGED <<ready, dlq, request, job, shard>>
    BY <1>17 DEF ChannelCloses
  <2>3. \A w \in Worker : (worker[w].pc = "mark" => Stored(worker[w].msg))'
    BY <2>1, <2>2 DEF WriteBeforeMark, Stored
  <2> QED BY <2>2, <2>3, <1>0, <1>j DEF WriteBeforeMark
<1>18. CASE Restart
  <2>1. UNCHANGED <<ready, dlq>>
    BY <1>18 DEF Restart
  <2>2. \A m \in Msg : request'[m] # "mark"
    BY <1>18 DEF Restart
  <2>3. \A w \in Worker : worker'[w].pc # "mark"
    BY <1>18 DEF Restart, IdleWorker
  <2>4. job'.cur = NoMsg
    BY <1>18 DEF Restart, IdleJob
  <2>5. \A m \in Msg : ready'[m] \/ request'[m] = "mark" => Stored(m)'
    BY <2>1, <2>2, <1>0 DEF WriteBeforeMark
  <2>6. \A m \in Msg : dlq'[m] = "resolved" => ready'[m]
    BY <2>1 DEF WriteBeforeMark
  <2> QED BY <2>3, <2>4, <2>5, <2>6 DEF WriteBeforeMark
<1> QED
  BY <1>1, <1>2, <1>3, <1>4, <1>5, <1>6, <1>7, <1>8, <1>9, <1>10, <1>11,
     <1>12, <1>13, <1>14, <1>15, <1>16, <1>17, <1>18, <1>19
     DEF Next, SendStep, WorkerStep, JobStep, ConnectionLoss, AckTimeout,
         Shutdown, Kill

\* Under every kind of failure, a body is stored before anything says so.
THEOREM WriteBeforeMarkHolds == Spec => []WriteBeforeMark
<1>1. TypeOK /\ WriteBeforeMark /\ [Next]_vars => TypeOK' /\ WriteBeforeMark'
  BY TypeNext, WriteBeforeMarkNext
<1> QED BY TypeInit, WriteBeforeMarkInit, <1>1, PTL DEF Spec

\* content_ready and a closed dead letter can be relied on: the shard has
\* taken the body, whichever writer set them.
THEOREM ReadyIsStored == Spec => [](ReadyMeansStored /\ ResolvedMeansReady)
<1>1. WriteBeforeMark => ReadyMeansStored /\ ResolvedMeansReady
  BY DEF WriteBeforeMark, ReadyMeansStored, ResolvedMeansReady
<1> QED BY WriteBeforeMarkHolds, <1>1, PTL

----------------------------------------------------------------------------
(* No body is lost                                                         *)

\* What still leads to a stored body once the send request has ended.
Kept(m) ==
    \/ Stored(m)
    \/ dlq[m] = "open"
    \/ broker[m] \in {"queued", "unacked"}

\* A body that is handled is stored, or will be by the job.
LEMMA HandledIsKept ==
    ASSUME TypeOK, WriteBeforeMark, NEW m \in Msg, Handled(m)
    PROVE  Kept(m)
BY DEF TypeOK, WriteBeforeMark, Handled, Kept

\* A mark is never taken back, and a dead letter is never deleted.
LEMMA HandledGrows ==
    ASSUME TypeOK, [Next]_vars, NEW m \in Msg, Handled(m)
    PROVE  Handled(m)'
<1>1. CASE UNCHANGED <<ready, dlq>>
  BY <1>1 DEF Handled
<1>2. ASSUME NEW n \in Msg, MarkReady(n), UNCHANGED dlq PROVE Handled(m)'
  BY <1>2 DEF TypeOK, Handled, MarkReady
<1>3. ASSUME NEW n \in Msg, OpenLetter(n), UNCHANGED ready PROVE Handled(m)'
  BY <1>3 DEF TypeOK, Handled, OpenLetter
<1>4. ASSUME NEW n \in Msg, JobMark(n) PROVE Handled(m)'
  BY <1>4 DEF TypeOK, Handled, JobMark, MarkReady
<1>5. ASSUME NEW n \in Msg, SendPersist(n) \/ SendStep(n) PROVE Handled(m)'
  BY <1>1, <1>2, <1>3, <1>5
     DEF SendPersist, SendStep, SendTouch, SendPublish, SendFallback,
         SendMark, SendDead
<1>6. ASSUME NEW w \in Worker, WorkerStep(w) PROVE Handled(m)'
  <2>1. CASE WorkerMark(w)
    BY <1>1, <1>2, <2>1 DEF TypeOK, WorkerMark
  <2>2. CASE WorkerDead(w)
    BY <1>1, <1>3, <2>2 DEF TypeOK, WorkerDead
  <2> QED
    BY <1>1, <1>6, <2>1, <2>2 DEF WorkerStep, WorkerWrite, WorkerAck
<1>7. ASSUME NEW n \in Msg,
             \/ RecallCommit(n) \/ RecallClear(n)
             \/ \E v \in View : DeleteMessage(n, v)
             \/ \E w \in Worker : WorkerTake(w, n)
      PROVE  Handled(m)'
  BY <1>1, <1>7 DEF RecallCommit, RecallClear, DeleteMessage, WorkerTake
<1>8. CASE JobStep
  BY <1>1, <1>4, <1>8 DEF JobStep, JobStart, JobEnd, JobWrite
<1>9. CASE ConnectionLoss \/ AckTimeout \/ Shutdown \/ Kill
  BY <1>1, <1>9 DEF ConnectionLoss, AckTimeout, Shutdown, Kill,
                    ChannelCloses, Restart
<1>10. CASE UNCHANGED vars
  BY <1>1, <1>10 DEF vars
<1> QED
  BY <1>5, <1>6, <1>7, <1>8, <1>9, <1>10 DEF Next

\* The broker only forgets a delivery whose body is handled.
LEMMA QueueLasts ==
    ASSUME TypeOK, HandedOver, [Next]_vars, NEW m \in Msg,
           broker[m] \in {"queued", "unacked"}
    PROVE  broker'[m] \in {"queued", "unacked"} \/ Handled(m)
<1>1. CASE UNCHANGED broker
  BY <1>1
<1>2. ASSUME NEW n \in Msg, SendPublish(n)
      PROVE  broker'[m] \in {"queued", "unacked"}
  BY <1>2 DEF TypeOK, SendPublish
<1>3. ASSUME NEW n \in Msg, NEW w \in Worker, WorkerTake(w, n)
      PROVE  broker'[m] \in {"queued", "unacked"}
  BY <1>3 DEF TypeOK, WorkerTake
<1>4. ASSUME NEW w \in Worker, WorkerAck(w)
      PROVE  broker'[m] \in {"queued", "unacked"} \/ Handled(m)
  BY <1>4 DEF TypeOK, HandedOver, WorkerAck
<1>5. CASE ConnectionLoss \/ AckTimeout \/ Shutdown \/ Kill
  BY <1>5 DEF TypeOK, ConnectionLoss, AckTimeout, Shutdown, Kill,
              ChannelCloses, Restart
<1>6. ASSUME NEW n \in Msg, SendPersist(n) \/ SendStep(n)
      PROVE  broker'[m] \in {"queued", "unacked"}
  BY <1>1, <1>2, <1>6
     DEF SendPersist, SendStep, SendTouch, SendFallback, SendMark, SendDead
<1>7. ASSUME NEW w \in Worker, WorkerStep(w)
      PROVE  broker'[m] \in {"queued", "unacked"} \/ Handled(m)
  BY <1>1, <1>4, <1>7 DEF WorkerStep, WorkerWrite, WorkerMark, WorkerDead
<1>8. ASSUME NEW n \in Msg, \/ RecallCommit(n) \/ RecallClear(n)
                            \/ \E v \in View : DeleteMessage(n, v)
      PROVE  UNCHANGED broker
  BY <1>8 DEF RecallCommit, RecallClear, DeleteMessage
<1>9. CASE JobStep
  BY <1>1, <1>9 DEF JobStep, JobStart, JobEnd, JobWrite, JobMark
<1>10. CASE UNCHANGED vars
  BY <1>1, <1>10 DEF vars
<1> QED
  BY <1>1, <1>3, <1>5, <1>6, <1>7, <1>8, <1>9, <1>10 DEF Next

\* What is kept stays kept.
LEMMA KeptLasts ==
    ASSUME TypeOK, WriteBeforeMark, HandedOver, [Next]_vars,
           NEW m \in Msg, Kept(m)
    PROVE  Kept(m)'
<1>0. TypeOK' /\ WriteBeforeMark'
  BY TypeNext, WriteBeforeMarkNext
<1>1. Handled(m)' => Kept(m)'
  BY <1>0, HandledIsKept, PTL
<1> QED BY <1>1, ShardGrows, HandledGrows, QueueLasts DEF Kept, Handled

\* A request that ends, well or not, has left its body somewhere, provided
\* that no failure strikes while the body is only in the request's memory.
LEMMA RequestEnds ==
    ASSUME Faults \cap LossFaults = {},
           TypeOK, WriteBeforeMark, HandedOver, [Next]_vars, NEW m \in Msg,
           request'[m] \in {"done", "error"},
           request[m] \notin {"done", "error"}
    PROVE  Kept(m)'
<1>0. /\ ~Fault("touch") /\ ~Fault("ddl_in_send")
      /\ ~Fault("dlq_commit") /\ ~Fault("kill")
  BY DEF Fault, LossFaults
<1>1. request # request'
  OBVIOUS
<1>2. ASSUME NEW n \in Msg, SendPublish(n) PROVE Kept(m)'
  BY <1>2 DEF TypeOK, Kept, SendPublish
<1>3. ASSUME NEW n \in Msg, SendFallback(n) PROVE Kept(m)'
  BY <1>0, <1>3 DEF TypeOK, Kept, SendFallback, WriteRaises
<1>4. ASSUME NEW n \in Msg, SendMark(n) PROVE Kept(m)'
  BY <1>4 DEF TypeOK, WriteBeforeMark, Kept, Stored, SendMark
<1>5. ASSUME NEW n \in Msg, SendDead(n) PROVE Kept(m)'
  <2>1. n = m
    BY <1>5 DEF TypeOK, SendDead
  <2>2. CASE dlq[m] = "none"
    BY <1>0, <1>5, <2>1, <2>2 DEF TypeOK, Kept, SendDead, OpenLetter
  <2>3. CASE dlq[m] # "none"
    BY <2>3, KeptLasts, HandledIsKept DEF Handled
  <2> QED BY <2>2, <2>3
<1>6. ASSUME NEW n \in Msg, SendPersist(n) PROVE FALSE
  BY <1>6 DEF TypeOK, SendPersist
<1>12. ASSUME NEW n \in Msg, SendTouch(n) PROVE FALSE
  BY <1>0, <1>12 DEF TypeOK, SendTouch
<1>7. ASSUME Shutdown PROVE FALSE
  BY <1>7 DEF TypeOK, Shutdown, HttpDrained, Restart
<1>8. ASSUME NEW w \in Worker, WorkerStep(w) PROVE UNCHANGED request
  BY <1>8 DEF WorkerStep, WorkerWrite, WorkerMark, WorkerDead, WorkerAck
<1>9. ASSUME NEW n \in Msg,
             \/ RecallCommit(n) \/ RecallClear(n)
             \/ \E v \in View : DeleteMessage(n, v)
             \/ \E w \in Worker : WorkerTake(w, n)
      PROVE  UNCHANGED request
  BY <1>9 DEF RecallCommit, RecallClear, DeleteMessage, WorkerTake
<1>10. ASSUME JobStep PROVE UNCHANGED request
  BY <1>10 DEF JobStep, JobStart, JobEnd, JobWrite, JobMark
<1>11. ASSUME ConnectionLoss \/ AckTimeout PROVE UNCHANGED request
  BY <1>11 DEF ConnectionLoss, AckTimeout, ChannelCloses
<1> QED
  BY <1>0, <1>1, <1>2, <1>3, <1>4, <1>5, <1>6, <1>7, <1>8, <1>9, <1>10,
     <1>11, <1>12
     DEF Next, SendStep, Kill, vars

\* A delivery is acknowledged only once it is handled.
LEMMA AckAfterHandling ==
    ASSUME Faults \cap LossFaults = {},
           TypeOK, HandedOver, [Next]_vars, NEW u \in Worker,
           worker'[u].pc = "ack"
    PROVE  Handled(worker[u].msg)' 
<1>0. ~Fault("dlq_commit")
  BY DEF Fault, LossFaults
<1>1. worker[u].pc # "idle" => worker[u].msg \in Msg
  BY DEF TypeOK
<1>2. CASE UNCHANGED worker
  BY <1>1, <1>2, HandledGrows DEF HandedOver
<1>3. ASSUME NEW w \in Worker, WorkerMark(w) PROVE Handled(worker[u].msg)'
  <2>1. CASE w = u
    BY <1>1, <1>3, <2>1
       DEF TypeOK, WorkerMark, MarkReady, Handled, IdleWorker
  <2>2. CASE w # u
    <3>1. worker'[u] = worker[u]
      BY <1>3, <2>2 DEF TypeOK, WorkerMark
    <3> QED BY <1>1, <3>1, HandledGrows DEF HandedOver, Handled
  <2> QED BY <2>1, <2>2
<1>4. ASSUME NEW w \in Worker, WorkerDead(w) PROVE Handled(worker[u].msg)'
  <2>1. CASE w = u
    BY <1>0, <1>1, <1>4, <2>1
       DEF TypeOK, WorkerDead, OpenLetter, Handled
  <2>2. CASE w # u
    <3>1. worker'[u] = worker[u]
      BY <1>4, <2>2 DEF TypeOK, WorkerDead
    <3> QED BY <1>1, <3>1, HandledGrows DEF HandedOver, Handled
  <2> QED BY <2>1, <2>2
<1>5. ASSUME NEW w \in Worker,
             \/ WorkerWrite(w) \/ WorkerAck(w)
             \/ \E n \in Msg : WorkerTake(w, n)
      PROVE  Handled(worker[u].msg)'
  <2>1. worker'[u] = worker[u]
    <3>1. u # w
      BY <1>5 DEF TypeOK, WorkerWrite, WorkerAck, WorkerTake, IdleWorker
    <3> QED BY <1>5, <3>1 DEF TypeOK, WorkerWrite, WorkerAck, WorkerTake
  <2> QED BY <1>1, <2>1, HandledGrows DEF HandedOver, Handled
<1>6. ASSUME ChannelCloses PROVE Handled(worker[u].msg)'
  <2>1. /\ worker'[u].pc = worker[u].pc
        /\ worker'[u].msg = worker[u].msg
    BY <1>6 DEF TypeOK, ChannelCloses
  <2> QED BY <1>1, <2>1, HandledGrows DEF HandedOver, Handled
<1>7. ASSUME Restart PROVE FALSE
  BY <1>7 DEF Restart, IdleWorker
<1>8. ASSUME NEW n \in Msg,
             \/ SendPersist(n) \/ SendStep(n)
             \/ RecallCommit(n) \/ RecallClear(n)
             \/ \E v \in View : DeleteMessage(n, v)
      PROVE  UNCHANGED worker
  BY <1>8 DEF SendPersist, SendStep, SendTouch, SendPublish, SendFallback,
              SendMark, SendDead, RecallCommit, RecallClear, DeleteMessage
<1>9. ASSUME JobStep PROVE UNCHANGED worker
  BY <1>9 DEF JobStep, JobStart, JobEnd, JobWrite, JobMark
<1>10. CASE UNCHANGED vars
  BY <1>2, <1>10 DEF vars
<1> QED
  BY <1>2, <1>3, <1>4, <1>5, <1>6, <1>7, <1>8, <1>9, <1>10
     DEF Next, WorkerStep, ConnectionLoss, AckTimeout, Shutdown, Kill

LEMMA HandedOverInit == Init => HandedOver
BY DEF Init, HandedOver, Sent, IdleWorker, View

\* A message without a request has no rows.
LEMMA NoRequestNoRows ==
    ASSUME TypeOK, [Next]_vars, NEW m \in Msg, request'[m] = "none",
           request[m] = "none" => ~Sent(m)
    PROVE  ~Sent(m)'
<1>1. CASE UNCHANGED <<rows, request>>
  BY <1>1 DEF Sent
<1>2. ASSUME NEW n \in Msg, SendPersist(n) PROVE ~Sent(m)'
  BY <1>2 DEF TypeOK, Sent, SendPersist
<1>3. ASSUME NEW n \in Msg, SendStep(n) PROVE ~Sent(m)'
  <2>1. /\ UNCHANGED rows
        /\ m # n => request'[m] = request[m]
    BY <1>3 DEF TypeOK, SendStep, SendTouch, SendPublish, SendFallback,
                SendMark, SendDead
  <2>2. request'[n] # "none"
    BY <1>3 DEF TypeOK, SendStep, SendTouch, SendPublish, SendFallback,
                SendMark, SendDead
  <2> QED BY <2>1, <2>2 DEF Sent
<1>4. ASSUME NEW n \in Msg, RecallCommit(n) PROVE ~Sent(m)'
  BY <1>4 DEF TypeOK, Sent, RecallCommit
<1>5. ASSUME NEW n \in Msg, NEW v \in View, DeleteMessage(n, v)
      PROVE  ~Sent(m)'
  BY <1>5 DEF TypeOK, Sent, DeleteMessage
<1>6. ASSUME NEW n \in Msg,
             RecallClear(n) \/ \E w \in Worker : WorkerTake(w, n)
      PROVE  UNCHANGED <<rows, request>>
  BY <1>6 DEF RecallClear, WorkerTake
<1>7. ASSUME NEW w \in Worker, WorkerStep(w)
      PROVE  UNCHANGED <<rows, request>>
  BY <1>7 DEF WorkerStep, WorkerWrite, WorkerMark, WorkerDead, WorkerAck
<1>8. ASSUME JobStep PROVE UNCHANGED <<rows, request>>
  BY <1>8 DEF JobStep, JobStart, JobEnd, JobWrite, JobMark
<1>9. ASSUME ConnectionLoss \/ AckTimeout PROVE UNCHANGED <<rows, request>>
  BY <1>9 DEF ConnectionLoss, AckTimeout, ChannelCloses
<1>10. ASSUME Restart PROVE ~Sent(m)'
  BY <1>10 DEF TypeOK, Sent, Restart
<1>11. CASE UNCHANGED vars
  BY <1>1, <1>11 DEF vars
<1> QED
  BY <1>1, <1>2, <1>3, <1>4, <1>5, <1>6, <1>7, <1>8, <1>9, <1>10, <1>11
     DEF Next, Shutdown, Kill

\* The broker's deliveries that are acknowledged were handled.
LEMMA DoneAfterHandling ==
    ASSUME TypeOK, HandedOver, [Next]_vars, NEW m \in Msg,
           broker'[m] = "done"
    PROVE  Handled(m)'
<1>1. broker[m] \in {"queued", "unacked"} => Handled(m)'
  BY QueueLasts, HandledGrows
<1>2. broker[m] = "done" => Handled(m)'
  BY HandledGrows DEF HandedOver
<1>3. ASSUME broker[m] = "none" PROVE Handled(m)'
  <2>1. ASSUME NEW n \in Msg, SendPublish(n) PROVE FALSE
    BY <1>3, <2>1 DEF TypeOK, SendPublish
  <2>2. ASSUME NEW n \in Msg, NEW w \in Worker, WorkerTake(w, n) PROVE FALSE
    BY <1>3, <2>2 DEF TypeOK, WorkerTake
  <2>3. ASSUME ChannelCloses \/ Restart PROVE FALSE
    BY <1>3, <2>3 DEF TypeOK, ChannelCloses, Restart
  <2>4. ASSUME NEW w \in Worker, WorkerAck(w) PROVE Handled(m)'
    BY <1>3, <2>4, HandledGrows DEF TypeOK, HandedOver, WorkerAck
  <2>5. broker # broker'
    BY <1>3
  <2>6. ASSUME NEW n \in Msg, SendStep(n) PROVE FALSE
    BY <2>1, <2>5, <2>6
       DEF SendStep, SendTouch, SendFallback, SendMark, SendDead
  <2>7. ASSUME NEW w \in Worker, WorkerStep(w) PROVE Handled(m)'
    BY <2>4, <2>5, <2>7 DEF WorkerStep, WorkerWrite, WorkerMark, WorkerDead
  <2>8. ASSUME NEW n \in Msg,
               \/ SendPersist(n) \/ RecallCommit(n) \/ RecallClear(n)
               \/ \E v \in View : DeleteMessage(n, v)
        PROVE  FALSE
    BY <2>5, <2>8 DEF SendPersist, RecallCommit, RecallClear, DeleteMessage
  <2>9. ASSUME JobStep PROVE FALSE
    BY <2>5, <2>9 DEF JobStep, JobStart, JobEnd, JobWrite, JobMark
  <2>10. CASE UNCHANGED vars
    BY <2>5, <2>10 DEF vars
  <2> QED
    BY <2>2, <2>3, <2>6, <2>7, <2>8, <2>9, <2>10
       DEF Next, ConnectionLoss, AckTimeout, Shutdown, Kill
<1> QED BY <1>1, <1>2, <1>3 DEF TypeOK

LEMMA HandedOverNext ==
    ASSUME Faults \cap LossFaults = {},
           TypeOK, WriteBeforeMark, HandedOver, [Next]_vars
    PROVE  HandedOver'
<1>1. \A m \in Msg : broker'[m] = "done" => Handled(m)'
  BY DoneAfterHandling
<1>2. \A w \in Worker : worker'[w].pc = "ack" => Handled(worker[w].msg)'
  BY AckAfterHandling
<1>3. \A m \in Msg : request'[m] \in {"done", "error"} => Held(m)'
  <2>1. ASSUME NEW m \in Msg, request[m] \in {"done", "error"}
        PROVE  Kept(m)'
    <3>1. Kept(m)
      BY <2>1 DEF HandedOver, Held, Kept
    <3> QED BY <3>1, KeptLasts
  <2>2. \A m \in Msg : Kept(m)' => Held(m)'
    BY DEF Kept, Held
  <2> QED BY <2>1, <2>2, RequestEnds
<1>4. \A m \in Msg : request'[m] = "none" => ~Sent(m)'
  BY NoRequestNoRows DEF HandedOver
<1> QED BY <1>1, <1>2, <1>3, <1>4 DEF HandedOver

\* No body is lost and no delivery is forgotten early, under every failure
\* but the four that strike while a body is only in a writer's memory.
THEOREM NoBodyLost ==
    ASSUME Faults \cap LossFaults = {}
    PROVE  Spec => [](BodyAccounted /\ AckedMeansHandled)
<1>1. Init => TypeOK /\ WriteBeforeMark /\ HandedOver
  BY TypeInit, WriteBeforeMarkInit, HandedOverInit
<1>2. TypeOK /\ WriteBeforeMark /\ HandedOver /\ [Next]_vars
        => TypeOK' /\ WriteBeforeMark' /\ HandedOver'
  BY TypeNext, WriteBeforeMarkNext, HandedOverNext
<1>3. TypeOK /\ WriteBeforeMark /\ HandedOver
        => BodyAccounted /\ AckedMeansHandled
  BY DEF TypeOK, WriteBeforeMark, HandedOver, Held, BodyAccounted,
         AckedMeansHandled
<1> QED BY <1>1, <1>2, <1>3, PTL DEF Spec

----------------------------------------------------------------------------
(* The pipeline implements the promise                                     *)

\* Nothing is known of a message before its rows are committed, and a row is
\* normal only before a recall.
Untouched(m) ==
    /\ shard[m] = "missing" /\ dlq[m] = "none" /\ broker[m] = "none"
    /\ request[m] = "none" /\ recall[m] = "none"
    /\ \A w \in Worker : worker[w].msg # m
    /\ m \notin job.todo

NothingBeforeSend ==
    \A m \in Msg : /\ ~Sent(m) => Untouched(m)
                   /\ request[m] = "none" => ~Sent(m)
                   /\ rows[m]["sender"] = "normal" => recall[m] = "none"

LEMMA SentLasts ==
    ASSUME TypeOK, [Next]_vars, NEW m \in Msg, Sent(m)
    PROVE  Sent(m)'
<1>1. CASE UNCHANGED rows
  BY <1>1 DEF Sent
<1>2. ASSUME NEW n \in Msg,
             \/ SendPersist(n) \/ RecallCommit(n)
             \/ \E v \in View : DeleteMessage(n, v)
      PROVE  Sent(m)'
  <2>1. ASSUME NEW row \in [View -> RowStatus], row["sender"] # "absent",
               rows' = [rows EXCEPT ![n] = row]
        PROVE  Sent(m)'
    BY <2>1 DEF TypeOK, Sent
  <2>2. CASE SendPersist(n)
    BY <2>1, <2>2 DEF SendPersist
  <2>3. CASE RecallCommit(n)
    BY <2>1, <2>3 DEF RecallCommit
  <2>4. ASSUME NEW v \in View, DeleteMessage(n, v) PROVE Sent(m)'
    BY <2>4 DEF TypeOK, Sent, DeleteMessage
  <2> QED BY <1>2, <2>2, <2>3, <2>4
<1>3. ASSUME NEW n \in Msg,
             \/ SendStep(n) \/ RecallClear(n)
             \/ \E w \in Worker : WorkerTake(w, n)
      PROVE  UNCHANGED rows
  BY <1>3 DEF SendStep, SendTouch, SendPublish, SendFallback, SendMark,
              SendDead,
              RecallClear, WorkerTake
<1>4. ASSUME NEW w \in Worker, WorkerStep(w) PROVE UNCHANGED rows
  BY <1>4 DEF WorkerStep, WorkerWrite, WorkerMark, WorkerDead, WorkerAck
<1>5. ASSUME JobStep PROVE UNCHANGED rows
  BY <1>5 DEF JobStep, JobStart, JobEnd, JobWrite, JobMark
<1>6. ASSUME ConnectionLoss \/ AckTimeout \/ Shutdown \/ Kill
      PROVE  UNCHANGED rows
  BY <1>6 DEF ConnectionLoss, AckTimeout, ChannelCloses, Shutdown, Kill,
              Restart
<1>7. CASE UNCHANGED vars
  BY <1>1, <1>7 DEF vars
<1> QED
  BY <1>1, <1>2, <1>3, <1>4, <1>5, <1>6, <1>7 DEF Next

LEMMA NothingBeforeSendInit == Init => NothingBeforeSend
<1> SUFFICES ASSUME Init, NEW m \in Msg
             PROVE  Untouched(m) /\ ~Sent(m)
  BY DEF NothingBeforeSend, Untouched
<1>1. \A w \in Worker : worker[w].msg = NoMsg
  BY DEF Init, IdleWorker
<1>2. job.todo = {}
  BY DEF Init, IdleJob
<1>3. ~Sent(m)
  BY DEF Init, Sent
<1> QED BY <1>1, <1>2, <1>3, NoMsgAssumption DEF Init, Untouched

LEMMA UntouchedNext ==
    ASSUME TypeOK, [Next]_vars, NEW m \in Msg, Untouched(m), ~Sent(m)'
    PROVE  Untouched(m)'
<1>0. ~Sent(m)
  BY SentLasts
<1>1. ASSUME NEW n \in Msg, SendPersist(n) PROVE Untouched(m)'
  BY <1>1 DEF TypeOK, Untouched, Sent, SendPersist, View
<1>2. ASSUME NEW n \in Msg, SendPublish(n) PROVE Untouched(m)'
  BY <1>2 DEF TypeOK, Untouched, SendPublish
<1>17. ASSUME NEW n \in Msg, SendTouch(n) PROVE Untouched(m)'
  BY <1>17 DEF TypeOK, Untouched, SendTouch
<1>3. ASSUME NEW n \in Msg, SendFallback(n) PROVE Untouched(m)'
  BY <1>3 DEF TypeOK, Untouched, SendFallback, WriteStores, WriteFails,
              WriteRaises
<1>4. ASSUME NEW n \in Msg, SendMark(n) PROVE Untouched(m)'
  BY <1>4 DEF TypeOK, Untouched, SendMark
<1>5. ASSUME NEW n \in Msg, SendDead(n) PROVE Untouched(m)'
  BY <1>5 DEF TypeOK, Untouched, SendDead, OpenLetter
<1>6. ASSUME NEW n \in Msg, NEW w \in Worker, WorkerTake(w, n)
      PROVE  Untouched(m)'
  <2>1. n # m
    BY <1>6 DEF Untouched, WorkerTake
  <2> QED BY <1>6, <2>1 DEF TypeOK, Untouched, WorkerTake
<1>7. ASSUME NEW w \in Worker, WorkerStep(w) PROVE Untouched(m)'
  <2>0. worker[w].msg # m
    BY DEF Untouched
  <2>1. /\ shard'[m] = "missing" /\ dlq'[m] = "none" /\ broker'[m] = "none"
        /\ request'[m] = "none" /\ recall'[m] = "none"
        /\ job' = job
    BY <1>7, <2>0
       DEF TypeOK, Untouched, WorkerStep, WorkerWrite, WorkerMark, WorkerDead,
           WorkerAck, WriteStores, WriteFails, WriteRaises, OpenLetter
  <2>2. NoMsg # m
    BY NoMsgAssumption
  <2>3. worker'[w].msg # m
    BY <1>7, <2>0, <2>2
       DEF TypeOK, WorkerStep, WorkerWrite, WorkerMark, WorkerDead, WorkerAck,
           IdleWorker
  <2>4. \A u \in Worker \ {w} : worker'[u] = worker[u]
    BY <1>7
       DEF TypeOK, WorkerStep, WorkerWrite, WorkerMark, WorkerDead, WorkerAck
  <2> QED BY <2>1, <2>3, <2>4 DEF Untouched
<1>8. ASSUME JobStart \/ JobEnd PROVE Untouched(m)'
  BY <1>8 DEF TypeOK, Untouched, JobStart, JobEnd, IdleJob
<1>9. ASSUME NEW n \in Msg, JobWrite(n) PROVE Untouched(m)'
  BY <1>9 DEF TypeOK, Untouched, JobWrite, WriteStores, WriteFails,
              WriteRaises, IdleJob
<1>10. ASSUME NEW n \in Msg, JobMark(n) PROVE Untouched(m)'
  <2>1. n # m
    BY <1>10, NoMsgAssumption DEF TypeOK, Untouched, JobMark
  <2>2. m \notin job'.todo
    <3>1. /\ job \in [running: BOOLEAN, todo: SUBSET Msg,
                      cur: Msg \cup {NoMsg}]
          /\ m \notin job.todo
      BY DEF TypeOK, Untouched
    <3>2. CASE job' = [job EXCEPT !.todo = @ \ {n}, !.cur = NoMsg]
      BY <3>1, <3>2
    <3>3. CASE job' = IdleJob
      BY <3>3 DEF IdleJob
    <3> QED BY <1>10, <3>2, <3>3 DEF JobMark
  <2> QED BY <1>10, <2>1, <2>2 DEF TypeOK, Untouched, JobMark
<1>11. ASSUME NEW n \in Msg, RecallCommit(n) PROVE Untouched(m)'
  BY <1>0, <1>11 DEF TypeOK, Untouched, Sent, RecallCommit
<1>12. ASSUME NEW n \in Msg, RecallClear(n) PROVE Untouched(m)'
  BY <1>12 DEF TypeOK, Untouched, RecallClear
<1>13. ASSUME NEW n \in Msg, NEW v \in View, DeleteMessage(n, v)
       PROVE  Untouched(m)'
  BY <1>13 DEF Untouched, DeleteMessage
<1>14. ASSUME ChannelCloses PROVE Untouched(m)'
  BY <1>14 DEF TypeOK, Untouched, ChannelCloses
<1>15. ASSUME Restart PROVE Untouched(m)'
  BY <1>15, NoMsgAssumption
     DEF TypeOK, Untouched, Restart, IdleWorker, IdleJob
<1>16. CASE UNCHANGED vars
  BY <1>16 DEF Untouched, vars
<1> QED
  BY <1>1, <1>2, <1>3, <1>4, <1>5, <1>6, <1>7, <1>8, <1>9, <1>10, <1>11,
     <1>12, <1>13, <1>14, <1>15, <1>16, <1>17
     DEF Next, SendStep, JobStep, ConnectionLoss, AckTimeout, Shutdown, Kill

LEMMA NothingBeforeSendNext ==
    ASSUME TypeOK, NothingBeforeSend, [Next]_vars
    PROVE  NothingBeforeSend'
<1>1. ASSUME NEW m \in Msg, ~Sent(m)' PROVE Untouched(m)'
  BY <1>1, UntouchedNext, SentLasts DEF NothingBeforeSend
<1>2. ASSUME NEW m \in Msg, (rows[m]["sender"] = "normal")'
      PROVE  (recall[m] = "none")'
  <2>1. CASE UNCHANGED <<rows, recall>>
    BY <1>2, <2>1 DEF NothingBeforeSend
  <2>2. ASSUME NEW n \in Msg, SendPersist(n) PROVE (recall[m] = "none")'
    BY <1>2, <2>2
       DEF TypeOK, NothingBeforeSend, Untouched, Sent, SendPersist
  <2>3. ASSUME NEW n \in Msg, RecallCommit(n) PROVE (recall[m] = "none")'
    BY <1>2, <2>3 DEF TypeOK, NothingBeforeSend, RecallCommit
  <2>5. ASSUME NEW n \in Msg, RecallClear(n) PROVE (recall[m] = "none")'
    BY <1>2, <2>5 DEF TypeOK, NothingBeforeSend, RecallClear
  <2>6. ASSUME NEW n \in Msg, NEW v \in View, DeleteMessage(n, v)
        PROVE  (recall[m] = "none")'
    <3>1. rows' = [rows EXCEPT ![n][v] = "deleted"]
      BY <2>6 DEF DeleteMessage
    <3>2. rows'[m]["sender"] = rows[m]["sender"] \/
          rows'[m]["sender"] = "deleted"
      BY <3>1 DEF TypeOK
    <3>3. rows[m]["sender"] = "normal"
      BY <1>2, <3>2
    <3> QED BY <2>6, <3>3 DEF NothingBeforeSend, DeleteMessage
  <2>4. ASSUME Restart PROVE (recall[m] = "none")'
    BY <1>2, <2>4 DEF NothingBeforeSend, Restart
  <2> QED
    <3>1. ASSUME NEW n \in Msg,
                 SendStep(n) \/ \E w \in Worker : WorkerTake(w, n)
          PROVE  UNCHANGED <<rows, recall>>
      BY <3>1 DEF SendStep, SendTouch, SendPublish, SendFallback, SendMark,
                  SendDead,
                  WorkerTake
    <3>2. ASSUME NEW w \in Worker, WorkerStep(w)
          PROVE  UNCHANGED <<rows, recall>>
      BY <3>2 DEF WorkerStep, WorkerWrite, WorkerMark, WorkerDead, WorkerAck
    <3>3. ASSUME JobStep PROVE UNCHANGED <<rows, recall>>
      BY <3>3 DEF JobStep, JobStart, JobEnd, JobWrite, JobMark
    <3>4. ASSUME ConnectionLoss \/ AckTimeout
          PROVE  UNCHANGED <<rows, recall>>
      BY <3>4 DEF ConnectionLoss, AckTimeout, ChannelCloses
    <3> QED
      BY <2>1, <2>2, <2>3, <2>4, <2>5, <2>6, <3>1, <3>2, <3>3, <3>4
         DEF Next, Shutdown, Kill, vars
<1>3. ASSUME NEW m \in Msg, (request[m] = "none")' PROVE ~Sent(m)'
  BY <1>3, NoRequestNoRows DEF NothingBeforeSend
<1> QED BY <1>1, <1>2, <1>3 DEF NothingBeforeSend

\* Three facts of a message decide what its reader sees.
LEMMA SameBody ==
    ASSUME \A m \in Msg : /\ Sent(m)' <=> Sent(m)
                          /\ Stored(m)' <=> Stored(m)
                          /\ (recall[m] = "none")' <=> recall[m] = "none"
    PROVE  UNCHANGED bodyOf
BY DEF bodyOf

LEMMA SendIsSend ==
    ASSUME TypeOK, NothingBeforeSend, NEW m \in Msg, SendPersist(m)
    PROVE  Promise!Send(m)
<1>1. ~Sent(m) /\ recall[m] = "none" /\ ~Stored(m)
  BY DEF NothingBeforeSend, Untouched, SendPersist, Stored
<1>2. \A n \in Msg : Sent(n)' <=> Sent(n) \/ n = m
  BY DEF TypeOK, SendPersist, Sent, View
<1>3. UNCHANGED <<shard, recall>>
  BY DEF SendPersist
<1>4. bodyOf' = [bodyOf EXCEPT ![m] = "pending"]
  BY <1>1, <1>2, <1>3 DEF bodyOf, Stored
<1> QED BY <1>1, <1>4 DEF Promise!Send, bodyOf

LEMMA StoreIsStore ==
    ASSUME TypeOK, NothingBeforeSend, NEW m \in Msg, Sent(m),
           UNCHANGED <<rows, recall>>,
           shard' = [shard EXCEPT ![m] = "body"]
    PROVE  Promise!Store(m) \/ UNCHANGED bodyOf
<1>1. \A n \in Msg : Sent(n)' <=> Sent(n)
  BY DEF Sent
<1>2. \A n \in Msg : Stored(n)' <=> Stored(n) \/ n = m
  BY DEF TypeOK, Stored
<1>3. CASE Stored(m) \/ recall[m] # "none"
  BY <1>1, <1>2, <1>3 DEF bodyOf
<1>4. CASE ~Stored(m) /\ recall[m] = "none"
  <2>1. bodyOf' = [bodyOf EXCEPT ![m] = "stored"]
    BY <1>1, <1>2, <1>4 DEF bodyOf
  <2> QED BY <1>4, <2>1 DEF Promise!Store, bodyOf
<1> QED BY <1>3, <1>4

LEMMA RecallIsRecall ==
    ASSUME TypeOK, NothingBeforeSend, NEW m \in Msg, RecallCommit(m)
    PROVE  Promise!Recall(m)
<1>1. Sent(m) /\ recall[m] = "none"
  BY DEF NothingBeforeSend, RecallCommit, Sent
<1>2. \A n \in Msg : Sent(n)' <=> Sent(n)
  BY DEF TypeOK, RecallCommit, Sent, View
<1>3. \A n \in Msg : recall'[n] = IF n = m THEN "clear" ELSE recall[n]
  BY DEF TypeOK, RecallCommit
<1>4. UNCHANGED shard
  BY DEF RecallCommit
<1>5. bodyOf' = [bodyOf EXCEPT ![m] = "recalled"]
  BY <1>1, <1>2, <1>3, <1>4 DEF bodyOf, Stored
<1> QED BY <1>1, <1>5 DEF Promise!Recall, bodyOf

LEMMA PromiseStep ==
    ASSUME TypeOK, NothingBeforeSend, [Next]_vars
    PROVE  [Promise!PromiseNext]_bodyOf
<1>1. CASE UNCHANGED <<rows, shard, recall>>
  BY <1>1, SameBody DEF Sent, Stored
<1>2. ASSUME NEW m \in Msg, SendPersist(m)
      PROVE  [Promise!PromiseNext]_bodyOf
  BY <1>2, SendIsSend DEF Promise!PromiseNext
<1>3. ASSUME NEW m \in Msg, NEW kind, Sent(m), UNCHANGED <<rows, recall>>,
             WriteStores(m) \/ WriteFails(m) \/ WriteRaises(m, kind)
      PROVE  [Promise!PromiseNext]_bodyOf
  BY <1>1, <1>3, StoreIsStore
     DEF WriteStores, WriteFails, WriteRaises, Promise!PromiseNext
<1>4. ASSUME NEW m \in Msg, SendStep(m)
      PROVE  [Promise!PromiseNext]_bodyOf
  <2>1. CASE SendFallback(m)
    <3>1. Sent(m)
      BY <2>1 DEF NothingBeforeSend, Untouched, SendFallback
    <3> QED BY <1>1, <1>3, <2>1, <3>1 DEF SendFallback
  <2> QED
    BY <1>1, <1>4, <2>1
       DEF SendStep, SendTouch, SendPublish, SendMark, SendDead
<1>5. ASSUME NEW w \in Worker, WorkerStep(w)
      PROVE  [Promise!PromiseNext]_bodyOf
  <2>1. CASE WorkerWrite(w)
    <3>1. worker[w].msg \in Msg
      BY <2>1 DEF TypeOK, WorkerWrite
    <3>2. Sent(worker[w].msg)
      BY <3>1 DEF NothingBeforeSend, Untouched
    <3> QED BY <1>3, <2>1, <3>1, <3>2 DEF WorkerWrite
  <2> QED BY <1>1, <1>5, <2>1 DEF WorkerStep, WorkerMark, WorkerDead, WorkerAck
<1>6. ASSUME JobStep PROVE [Promise!PromiseNext]_bodyOf
  <2>1. ASSUME NEW m \in Msg, JobWrite(m)
        PROVE  [Promise!PromiseNext]_bodyOf
    <3>1. Sent(m)
      BY <2>1 DEF NothingBeforeSend, Untouched, JobWrite
    <3> QED BY <1>3, <2>1, <3>1 DEF JobWrite
  <2> QED BY <1>1, <1>6, <2>1 DEF JobStep, JobStart, JobEnd, JobMark
<1>7. ASSUME NEW m \in Msg, RecallCommit(m)
      PROVE  [Promise!PromiseNext]_bodyOf
  BY <1>7, RecallIsRecall DEF Promise!PromiseNext
<1>8. ASSUME NEW m \in Msg, RecallClear(m)
      PROVE  UNCHANGED bodyOf
  <2>1. \A n \in Msg : Stored(n)' <=> Stored(n)
    BY <1>8 DEF TypeOK, RecallClear, Stored
  <2>2. \A n \in Msg : (recall[n] = "none")' <=> recall[n] = "none"
    BY <1>8 DEF TypeOK, RecallClear
  <2> QED BY <1>8, <2>1, <2>2, SameBody DEF RecallClear, Sent
<1>9. ASSUME NEW m \in Msg, NEW v \in View, DeleteMessage(m, v)
      PROVE  UNCHANGED bodyOf
  <2>1. \A n \in Msg : Sent(n)' <=> Sent(n)
    BY <1>9 DEF TypeOK, DeleteMessage, Sent
  <2> QED BY <1>9, <2>1, SameBody DEF DeleteMessage, Stored
<1>10. ASSUME NEW m \in Msg, NEW w \in Worker, WorkerTake(w, m)
       PROVE  [Promise!PromiseNext]_bodyOf
  BY <1>1, <1>10 DEF WorkerTake
<1>11. ASSUME ChannelCloses PROVE [Promise!PromiseNext]_bodyOf
  BY <1>1, <1>11 DEF ChannelCloses
<1>12. ASSUME Restart PROVE UNCHANGED bodyOf
  <2>1. \A n \in Msg : (recall[n] = "none")' <=> recall[n] = "none"
    BY <1>12 DEF TypeOK, Restart
  <2> QED BY <1>12, <2>1, SameBody DEF Restart, Sent, Stored
<1>13. CASE UNCHANGED vars
  BY <1>1, <1>13 DEF vars
<1> QED
  BY <1>2, <1>4, <1>5, <1>6, <1>7, <1>8, <1>9, <1>10, <1>11, <1>12, <1>13
     DEF Next, ConnectionLoss, AckTimeout, Shutdown, Kill

\* Every step of the pipeline, under every kind of failure, is a step of the
\* promise or invisible to it: a body that a reader has seen stored can only
\* be recalled, never lost again.
THEOREM ImplementsPromise == Spec => OnlyPromisedSteps
<1>1. Init => Promise!PromiseInit
  BY DEF Init, Promise!PromiseInit, bodyOf, Sent, View
<1>2. Init => TypeOK /\ NothingBeforeSend
  BY TypeInit, NothingBeforeSendInit
<1>3. TypeOK /\ NothingBeforeSend /\ [Next]_vars
        => TypeOK' /\ NothingBeforeSend' /\ [Promise!PromiseNext]_bodyOf
  BY TypeNext, NothingBeforeSendNext, PromiseStep
<1> QED BY <1>1, <1>2, <1>3, PTL DEF Spec, OnlyPromisedSteps

-----------------------------------------------------------------------------
(* The push aggregator.                                                    *)

\* The parts of the type invariant the argument needs.
Shapes ==
    /\ handler \in [Message -> {"queued", "direct", "first", "flush", "done"}]
    /\ buffer \in [Bucket -> SUBSET Message]
    /\ attempts \in [Message -> 0..2]

Inv == Shapes /\ WaitsInOneBuffer

LEMMA InvInit == PushInit => Inv
BY DEF PushInit, Inv, Shapes, WaitsInOneBuffer, PushedAtMostOnce, Bucket

\* Sending what has not been sent leaves every message sent at most once.
LEMMA AttemptOnce ==
    ASSUME Shapes, PushedAtMostOnce, NEW S \in SUBSET Message,
           \A m \in S : attempts[m] = 0, Attempt(S)
    PROVE  /\ attempts' \in [Message -> 0..2]
           /\ PushedAtMostOnce'
           /\ \A m \in Message \ S : attempts'[m] = attempts[m]
BY DEF Shapes, PushedAtMostOnce, Attempt

\* A delivery that starts, with the buffers as they are.
LEMMA ArriveInv ==
    ASSUME Inv, NEW m \in Message, handler[m] = "queued",
           NEW pc \in {"direct", "first", "done"},
           handler' = [handler EXCEPT ![m] = pc],
           Attempt({m}) \/ UNCHANGED attempts,
           UNCHANGED buffer
    PROVE  Inv'
<1>1. PushedAtMostOnce /\ attempts[m] = 0
  BY DEF Inv, WaitsInOneBuffer
<1>2. /\ attempts' \in [Message -> 0..2] /\ PushedAtMostOnce'
      /\ \A n \in Message \ {m} : attempts'[n] = attempts[n]
  <2>1. CASE Attempt({m})
    BY <1>1, <2>1, AttemptOnce DEF Inv
  <2>2. CASE UNCHANGED attempts
    BY <1>1, <2>2 DEF Inv, Shapes, PushedAtMostOnce
  <2> QED BY <2>1, <2>2
<1>3. \A b \in Bucket : m \notin buffer[b]
  BY DEF Inv, WaitsInOneBuffer
<1>4. \A n \in Message \ {m} : handler'[n] = handler[n]
  BY DEF Inv, Shapes
<1>5. Shapes'
  BY <1>2 DEF Inv, Shapes
<1>6. handler'[m] # "queued"
  BY DEF Inv, Shapes
<1>7. \A b \in Bucket : \A n \in buffer[b] : n \in Message \ {m}
  BY <1>3 DEF Inv, Shapes
<1> QED
  BY <1>2, <1>4, <1>5, <1>6, <1>7 DEF Inv, WaitsInOneBuffer

\* A delivery that ends, or anything else that keeps the buffers.
LEMMA EndInv ==
    ASSUME Inv, UNCHANGED <<buffer, attempts>>,
           \/ UNCHANGED handler
           \/ \E m \in Message : /\ handler[m] # "queued"
                                 /\ handler' = [handler EXCEPT ![m] = "done"]
    PROVE  Inv'
<1>1. /\ handler' \in [Message -> {"queued", "direct", "first", "flush", "done"}]
      /\ \A n \in Message : /\ handler'[n] = "queued" => handler[n] = "queued"
                            /\ handler[n] = "done" => handler'[n] = "done"
  BY DEF Inv, Shapes
<1>2. \A b \in Bucket : buffer[b] \subseteq Message
  BY DEF Inv, Shapes
<1> QED
  BY <1>1, <1>2 DEF Inv, Shapes, WaitsInOneBuffer, PushedAtMostOnce

\* A message that joins a buffer.
LEMMA JoinInv ==
    ASSUME Inv, NEW m \in Message, NEW b \in Bucket, handler[m] = "queued",
           handler' = [handler EXCEPT ![m] = "done"],
           buffer' = [buffer EXCEPT ![b] = @ \cup {m}],
           UNCHANGED attempts
    PROVE  Inv'
<1>1. Shapes'
  BY DEF Inv, Shapes
<1>2. PushedAtMostOnce' /\ attempts[m] = 0
  BY DEF Inv, WaitsInOneBuffer, PushedAtMostOnce
<1>3. \A c \in Bucket : m \notin buffer[c]
  BY DEF Inv, WaitsInOneBuffer
<1>4. \A n \in Message \ {m} : handler'[n] = handler[n]
  BY DEF Inv, Shapes
<1>5. handler'[m] = "done"
  BY DEF Inv, Shapes
<1>6. \A c \in Bucket : \A n \in buffer'[c] :
          n \in buffer[c] \/ (n = m /\ c = b)
  BY DEF Inv, Shapes
<1>7. \A c \in Bucket : \A n \in buffer[c] : n \in Message \ {m}
  BY <1>3 DEF Inv, Shapes
<1>8. \A c \in Bucket : \A n \in buffer'[c] :
          /\ attempts'[n] = 0
          /\ handler'[n] = "done"
          /\ \A d \in Bucket : n \in buffer'[d] => c = d
  BY <1>2, <1>3, <1>4, <1>5, <1>6, <1>7 DEF Inv, WaitsInOneBuffer
<1>9. \A n \in Message : handler'[n] = "queued" => attempts'[n] = 0
  BY <1>4, <1>5 DEF Inv, WaitsInOneBuffer
<1> QED BY <1>1, <1>2, <1>8, <1>9 DEF Inv, WaitsInOneBuffer

\* A buffer that is emptied into a digest, of a delivery or of the loop.
LEMMA DigestInv ==
    ASSUME Inv, NEW b \in Bucket, NEW S \in SUBSET Message,
           buffer' = [buffer EXCEPT ![b] = {}],
           Attempt(buffer[b] \cup S),
           \A m \in S : handler[m] = "queued",
           handler' \in [Message -> {"queued", "direct", "first", "flush", "done"}],
           \A m \in S : handler'[m] # "queued",
           \A m \in Message \ S : handler'[m] = handler[m]
    PROVE  Inv'
<1>1. /\ buffer[b] \cup S \in SUBSET Message
      /\ \A m \in buffer[b] \cup S : attempts[m] = 0
  BY DEF Inv, Shapes, WaitsInOneBuffer
<1>2. /\ attempts' \in [Message -> 0..2] /\ PushedAtMostOnce'
      /\ \A m \in Message \ (buffer[b] \cup S) : attempts'[m] = attempts[m]
  BY <1>1, AttemptOnce DEF Inv, WaitsInOneBuffer
<1>3. Shapes'
  BY <1>2 DEF Inv, Shapes
<1>4. \A c \in Bucket : \A n \in buffer'[c] :
          c # b /\ n \in buffer[c] /\ n \in Message
  BY DEF Inv, Shapes
<1>5. \A c \in Bucket : \A n \in buffer'[c] : n \notin buffer[b] \cup S
  BY <1>4 DEF Inv, WaitsInOneBuffer
<1>6. \A c \in Bucket : \A n \in buffer'[c] :
          /\ attempts'[n] = 0
          /\ handler'[n] = "done"
          /\ \A d \in Bucket : n \in buffer'[d] => c = d
  BY <1>2, <1>4, <1>5 DEF Inv, WaitsInOneBuffer
<1>7. \A n \in Message : handler'[n] = "queued" => attempts'[n] = 0
  <2> SUFFICES ASSUME NEW n \in Message, handler'[n] = "queued"
               PROVE  attempts'[n] = 0
    OBVIOUS
  <2>1. n \notin S /\ handler[n] = "queued"
    OBVIOUS
  <2>2. n \notin buffer[b]
    BY <2>1 DEF Inv, WaitsInOneBuffer
  <2> QED BY <1>2, <2>1, <2>2 DEF Inv, WaitsInOneBuffer
<1> QED BY <1>2, <1>3, <1>6, <1>7 DEF Inv, WaitsInOneBuffer

\* The loop over the buckets: one digest, or none.
LEMMA ScanInv ==
    ASSUME Inv, NEW todo, todo \subseteq Bucket, NEW ages, NEW now,
           ScanRun(todo, ages, now), UNCHANGED handler
    PROVE  Inv'
<1>1. CASE UNCHANGED <<buffer, attempts>>
  BY <1>1, EndInv
<1>2. ASSUME NEW b \in todo, buffer' = [buffer EXCEPT ![b] = {}],
             Attempt(buffer[b])
      PROVE  Inv'
  <2>1. Attempt(buffer[b] \cup {})
    BY <1>2 DEF Attempt
  <2>2. handler' \in [Message -> {"queued", "direct", "first", "flush", "done"}]
    BY DEF Inv, Shapes
  <2>3. b \in Bucket /\ {} \in SUBSET Message
    OBVIOUS
  <2>4. \A m \in Message \ {} : handler'[m] = handler[m]
    OBVIOUS
  <2>5. /\ \A m \in {} : handler[m] = "queued"
        /\ \A m \in {} : handler'[m] # "queued"
    OBVIOUS
  <2> QED BY <1>2, <2>1, <2>2, <2>3, <2>4, <2>5, DigestInv, Zenon
<1>3. \/ \E b \in todo : /\ buffer' = [buffer EXCEPT ![b] = {}]
                         /\ Attempt(buffer[b])
      \/ UNCHANGED <<buffer, attempts>>
  BY Zenon DEF ScanRun
<1> QED BY <1>1, <1>2, <1>3

LEMMA InvNext ==
    ASSUME PushTypeOK, Inv, [PushNext]_pushVars
    PROVE  Inv'
<1>1. ASSUME NEW m \in Message,
             DeliverSkip(m) \/ DeliverDirect(m) \/ DeliverFirst(m)
      PROVE  Inv'
  BY <1>1, ArriveInv DEF DeliverSkip, DeliverDirect, DeliverFirst, Arrives
<1>2. ASSUME NEW m \in Message, DeliverBuffered(m) PROVE Inv'
  <2> DEFINE b == bucketOf[KeyOf[m]]
  <2>1. b \in Bucket /\ handler[m] = "queued"
    BY <1>2, KeyOfAssumption DEF PushTypeOK, DeliverBuffered, Arrives
  <2>2. CASE buffer' = [buffer EXCEPT ![b] = @ \cup {m}]
             /\ handler' = [handler EXCEPT ![m] = "done"]
             /\ UNCHANGED attempts
    BY <2>1, <2>2, JoinInv
  <2>3. CASE buffer' = [buffer EXCEPT ![b] = {}]
             /\ handler' = [handler EXCEPT ![m] = "flush"]
             /\ Attempt(buffer[b] \cup {m})
    <3>1. /\ handler' \in [Message ->
                    {"queued", "direct", "first", "flush", "done"}]
          /\ handler'[m] # "queued"
          /\ \A n \in Message \ {m} : handler'[n] = handler[n]
      BY <2>3 DEF Inv, Shapes
    <3>2. {m} \in SUBSET Message
      OBVIOUS
    <3>3. /\ \A n \in {m} : handler[n] = "queued" /\ handler'[n] # "queued"
      BY <2>1, <3>1
    <3>4. Attempt(buffer[b] \cup {m}) /\ buffer' = [buffer EXCEPT ![b] = {}]
      BY <2>3
    <3> HIDE DEF b
    <3> QED BY <2>1, <3>1, <3>2, <3>3, <3>4, DigestInv, Zenon
  <2> QED BY <1>2, <2>2, <2>3 DEF DeliverBuffered
<1>3. ASSUME NEW m \in Message, PushSent(m) PROVE Inv'
  BY <1>3, EndInv DEF PushSent, DirectSent, FirstSent, FlushSent, HandlerEnds
<1>4. Snapshot \subseteq Bucket /\ scan.todo \subseteq Bucket
  BY DEF PushTypeOK, Snapshot
<1>5. CASE SweepStart \/ ScanSent \/ FlushAll
  BY <1>4, <1>5, ScanInv DEF SweepStart, ScanSent, FlushAll
<1>6. CASE StopSweeper \/ BrokerStops \/ Tick
  BY <1>6, EndInv DEF StopSweeper, BrokerStops, Tick
<1>7. CASE UNCHANGED pushVars
  BY <1>7, EndInv DEF pushVars
<1> QED
  BY <1>1, <1>2, <1>3, <1>5, <1>6, <1>7 DEF PushNext, Deliver

\* Attempts are capped, whoever sends.
LEMMA AttemptType ==
    ASSUME attempts \in [Message -> 0..2], NEW S, Attempt(S)
    PROVE  attempts' \in [Message -> 0..2]
BY DEF Attempt

LEMMA PushTypeInit == PushInit => PushTypeOK
BY TimeAssumption, NoBucketAssumption
   DEF PushInit, PushTypeOK, NoScan, Bucket, MaxAge

\* A delivery changes its own handler and attempts, a buffered one a buffer
\* and its target too.
LEMMA DeliverType ==
    ASSUME PushTypeOK, NEW m \in Message, Deliver(m)
    PROVE  PushTypeOK'
<1>1. attempts' \in [Message -> 0..2]
  BY AttemptType
  DEF PushTypeOK, Deliver, DeliverSkip, DeliverDirect, DeliverFirst, DeliverBuffered
<1>2. CASE DeliverSkip(m) \/ DeliverDirect(m) \/ DeliverFirst(m)
  BY <1>1, <1>2 DEF PushTypeOK, DeliverSkip, DeliverDirect, DeliverFirst
<1>3. CASE DeliverBuffered(m)
  <2> DEFINE b == bucketOf[KeyOf[m]]
  <2>1. b \in Bucket
    BY <1>3, KeyOfAssumption DEF PushTypeOK, DeliverBuffered
  <2>2. UNCHANGED <<bucketOf, age, lag, scan, phase>>
    BY <1>3 DEF DeliverBuffered
  <2>3. \/ /\ buffer' = [buffer EXCEPT ![b] = @ \cup {m}]
           /\ handler' = [handler EXCEPT ![m] = "done"]
           /\ UNCHANGED target
        \/ /\ buffer' = [buffer EXCEPT ![b] = {}]
           /\ handler' = [handler EXCEPT ![m] = "flush"]
           /\ target' = [target EXCEPT ![m] = b]
    BY <1>3 DEF DeliverBuffered
  <2> HIDE DEF b
  <2>4. buffer' \in [Bucket -> SUBSET Message]
    BY <2>1, <2>3 DEF PushTypeOK
  <2>5. /\ handler' \in [Message -> {"queued", "direct", "first", "flush", "done"}]
        /\ target' \in [Message -> Bucket \cup {NoBucket}]
        /\ \A n \in Message : handler'[n] = "flush" => target'[n] # NoBucket
    BY <2>1, <2>3, NoBucketAssumption DEF PushTypeOK, Bucket
  <2> QED BY <1>1, <2>2, <2>4, <2>5 DEF PushTypeOK
<1> QED BY <1>2, <1>3 DEF Deliver

LEMMA SentType ==
    ASSUME PushTypeOK, NEW m \in Message, PushSent(m)
    PROVE  PushTypeOK'
<1>1. HandlerEnds(m) /\ UNCHANGED <<buffer, scan, attempts, phase>>
  BY DEF PushSent, DirectSent, FirstSent, FlushSent
<1>2. /\ handler' \in [Message -> {"queued", "direct", "first", "flush", "done"}]
      /\ lag' \in [Message -> 0..MaxLag]
      /\ \A n \in Message : handler'[n] = "flush" => n # m /\ handler[n] = "flush"
  BY <1>1, TimeAssumption DEF PushTypeOK, HandlerEnds
<1>3. lag[m] \in 0..MaxAge
  BY TimeAssumption DEF PushTypeOK, MaxAge
<1>4. CASE DirectSent(m)
  BY <1>1, <1>2, <1>4 DEF PushTypeOK, DirectSent
<1>5. CASE FirstSent(m)
  <2>1. /\ bucketOf' \in [Key -> Bucket \cup {NoBucket}]
        /\ \A k \in Key : bucketOf'[k] # NoBucket => KeyOf[bucketOf'[k]] = k
    BY <1>5, KeyOfAssumption DEF PushTypeOK, FirstSent, Bucket
  <2>2. age' \in [Bucket -> 0..MaxAge]
    BY <1>5, <1>3 DEF PushTypeOK, FirstSent, Bucket
  <2>3. UNCHANGED target
    BY <1>5 DEF FirstSent
  <2> QED BY <1>1, <1>2, <2>1, <2>2, <2>3 DEF PushTypeOK
<1>6. CASE FlushSent(m)
  <2>1. age' \in [Bucket -> 0..MaxAge]
    BY <1>6, <1>3 DEF PushTypeOK, FlushSent
  <2>2. /\ target' \in [Message -> Bucket \cup {NoBucket}]
        /\ \A n \in Message \ {m} : target'[n] = target[n]
    BY <1>6 DEF PushTypeOK, FlushSent
  <2>3. UNCHANGED bucketOf
    BY <1>6 DEF FlushSent
  <2> QED BY <1>1, <1>2, <2>1, <2>2, <2>3 DEF PushTypeOK
<1> QED BY <1>4, <1>5, <1>6 DEF PushSent

\* A round of the loop: it reclaims buckets and empties one buffer.
LEMMA ScanType ==
    ASSUME PushTypeOK, NEW todo, todo \subseteq Bucket, NEW ages,
           NEW now \in 0..MaxLag, ScanRun(todo, ages, now)
    PROVE  /\ bucketOf' \in [Key -> Bucket \cup {NoBucket}]
           /\ \A k \in Key : bucketOf'[k] \in {bucketOf[k], NoBucket}
           /\ buffer' \in [Bucket -> SUBSET Message]
           /\ attempts' \in [Message -> 0..2]
           /\ scan' \in [sending: Bucket \cup {NoBucket}, todo: SUBSET Bucket,
                         lag: 0..MaxLag]
<1> DEFINE all == phase # "running"
           due == {b \in todo : ages[b] >= now + Cooldown}
           work == {b \in todo : buffer[b] # {} /\ (all \/ b \in due)}
           Reclaim(S) ==
             bucketOf' = [k \in Key |->
                IF ~all /\ \E b \in S \cap due : KeyOf[b] = k
                THEN NoBucket ELSE bucketOf[k]]
           Digest(b, S) ==
             /\ Reclaim(S)
             /\ buffer' = [buffer EXCEPT ![b] = {}]
             /\ Attempt(buffer[b])
             /\ scan' = [sending |-> b, todo |-> todo \ (S \cup {b}), lag |-> now]
           Finish ==
             /\ Reclaim(todo)
             /\ scan' = NoScan
             /\ UNCHANGED <<buffer, attempts>>
<1>1. Finish \/ \E b \in work, S \in SUBSET (todo \ work) : Digest(b, S)
  BY Zenon DEF ScanRun
<1>2. ASSUME NEW S, Reclaim(S)
      PROVE  /\ bucketOf' \in [Key -> Bucket \cup {NoBucket}]
             /\ \A k \in Key : bucketOf'[k] \in {bucketOf[k], NoBucket}
  <2> HIDE DEF all, due
  <2> QED BY <1>2 DEF PushTypeOK
<1>3. CASE Finish
  BY <1>2, <1>3, TimeAssumption DEF PushTypeOK, NoScan
<1>4. ASSUME NEW b \in todo, NEW S, Digest(b, S)
      PROVE  /\ buffer' \in [Bucket -> SUBSET Message]
             /\ attempts' \in [Message -> 0..2]
             /\ scan' \in [sending: Bucket \cup {NoBucket}, todo: SUBSET Bucket,
                           lag: 0..MaxLag]
  <2>1. /\ buffer' = [buffer EXCEPT ![b] = {}]
        /\ Attempt(buffer[b])
        /\ scan' = [sending |-> b, todo |-> todo \ (S \cup {b}), lag |-> now]
    BY <1>4
  <2>2. attempts' \in [Message -> 0..2]
    BY <2>1, AttemptType DEF PushTypeOK
  <2> QED BY <2>1, <2>2 DEF PushTypeOK
<1>5. work \subseteq todo
  OBVIOUS
<1> HIDE DEF work, Reclaim
<1> QED BY <1>1, <1>2, <1>3, <1>4, <1>5

LEMMA LoopType ==
    ASSUME PushTypeOK, SweepStart \/ ScanSent \/ FlushAll
    PROVE  PushTypeOK'
<1>1. UNCHANGED <<handler, target, lag>>
  BY DEF SweepStart, ScanSent, FlushAll
<1>2. /\ phase' \in {"running", "stopping", "flushing", "down"}
      /\ age' \in [Bucket -> 0..MaxAge]
  BY TimeAssumption DEF SweepStart, ScanSent, FlushAll, PushTypeOK, MaxAge
<1>3. /\ Snapshot \subseteq Bucket /\ scan.todo \subseteq Bucket
      /\ scan.lag \in 0..MaxLag /\ 0 \in 0..MaxLag
  BY TimeAssumption DEF PushTypeOK, Snapshot
<1>4. \/ ScanRun(Snapshot, age, 0)
      \/ ScanRun(scan.todo, age', scan.lag)
  BY DEF SweepStart, ScanSent, FlushAll
<1>5. /\ bucketOf' \in [Key -> Bucket \cup {NoBucket}]
      /\ \A k \in Key : bucketOf'[k] \in {bucketOf[k], NoBucket}
      /\ buffer' \in [Bucket -> SUBSET Message]
      /\ attempts' \in [Message -> 0..2]
      /\ scan' \in [sending: Bucket \cup {NoBucket}, todo: SUBSET Bucket,
                    lag: 0..MaxLag]
  BY <1>3, <1>4, ScanType
<1> QED BY <1>1, <1>2, <1>5 DEF PushTypeOK

LEMMA PushTypeNext == PushTypeOK /\ [PushNext]_pushVars => PushTypeOK'
<1> SUFFICES ASSUME PushTypeOK, [PushNext]_pushVars PROVE PushTypeOK'
  OBVIOUS
<1>1. CASE Tick
  <2>1. /\ age' \in [Bucket -> 0..MaxAge]
        /\ UNCHANGED <<handler, target, bucketOf, buffer, attempts, phase>>
    BY <1>1, TimeAssumption DEF Tick, PushTypeOK, MaxAge
  <2>2. lag' \in [Message -> 0..MaxLag]
    BY <1>1, TimeAssumption DEF Tick, PushTypeOK
  <2>3. scan' \in [sending: Bucket \cup {NoBucket}, todo: SUBSET Bucket,
                   lag: 0..MaxLag]
    <3>1. CASE scan.sending # NoBucket
      <4>1. scan.lag + 1 \in 0..MaxLag
        BY <1>1, <3>1, TimeAssumption DEF Tick, PushTypeOK
      <4>2. scan' = [scan EXCEPT !.lag = scan.lag + 1]
        BY <1>1, <3>1 DEF Tick
      <4> QED BY <4>1, <4>2 DEF PushTypeOK
    <3>2. CASE scan.sending = NoBucket
      BY <1>1, <3>2 DEF Tick, PushTypeOK
    <3> QED BY <3>1, <3>2
  <2> QED BY <2>1, <2>2, <2>3 DEF PushTypeOK
<1>2. CASE StopSweeper \/ BrokerStops
  BY <1>2, TimeAssumption DEF StopSweeper, BrokerStops, PushTypeOK, NoScan
<1>3. CASE UNCHANGED pushVars
  BY <1>3 DEF pushVars, PushTypeOK
<1> QED BY <1>1, <1>2, <1>3, DeliverType, SentType, LoopType DEF PushNext

\* The aggregator's state is well formed: a flush has a bucket, and a bucket
\* is kept under its own key.
THEOREM PushTypeCorrect == PushSpec => []PushTypeOK
BY PushTypeInit, PushTypeNext, PTL DEF PushSpec

\* No message goes out twice: a buffer is emptied in the same step as its
\* digest is built, and what waits in it has not been sent.
THEOREM NoPushTwice == PushSpec => []WaitsInOneBuffer
<1>1. Inv => WaitsInOneBuffer
  BY DEF Inv
<1>2. PushTypeOK /\ PushTypeOK' /\ Inv /\ [PushNext]_pushVars => Inv'
  BY InvNext
<1> QED BY <1>1, <1>2, InvInit, PushTypeCorrect, PTL DEF PushSpec

----------------------------------------------------------------------------
(* Deliveries one at a time                                                *)

\* While one delivery waits for its push nobody else opens a bucket, and the
\* loop over a snapshot of the buckets finds them as they were.
Reachable ==
    /\ \A m, n \in Message : Sending(m) /\ Sending(n) => m = n
    /\ \A m \in Message : handler[m] = "first" => bucketOf[KeyOf[m]] = NoBucket
    /\ \A b \in scan.todo : bucketOf[KeyOf[b]] = b
    /\ NothingForgotten

LEMMA ReachableInit == PushInit => Reachable
BY DEF PushInit, Reachable, NothingForgotten, Sending, NoScan

\* A delivery that may start is alone.
LEMMA ArrivesAlone ==
    ASSUME Concurrent = 1, Reachable, NEW m \in Message, Arrives(m)
    PROVE  \A n \in Message : ~Sending(n)
<1> DEFINE S == {n \in Message : Sending(n)}
<1>1. S = {} \/ \E n : S = {n}
  BY DEF Reachable
<1>2. Cardinality(S) < 1
  BY DEF Arrives
<1>3. S = {}
  BY <1>1, <1>2, FS_Singleton
<1> QED BY <1>3

LEMMA DeliverReaches ==
    ASSUME Concurrent = 1, PushTypeOK, Reachable, NEW m \in Message, Deliver(m)
    PROVE  Reachable'
<1>1. /\ \A n \in Message : ~Sending(n)
      /\ UNCHANGED <<bucketOf, scan>>
  BY ArrivesAlone DEF Deliver, DeliverSkip, DeliverDirect, DeliverFirst, DeliverBuffered
<1>2. /\ \A n \in Message \ {m} : handler'[n] = handler[n]
      /\ handler'[m] = "first" => bucketOf[KeyOf[m]] = NoBucket
  BY DEF PushTypeOK, Deliver, DeliverSkip, DeliverDirect, DeliverFirst, DeliverBuffered
<1>3. \A n, o \in Message : Sending(n)' /\ Sending(o)' => n = o
  BY <1>1, <1>2 DEF Sending
<1>4. \A n \in Message : handler'[n] = "first" => bucketOf'[KeyOf[n]] = NoBucket
  BY <1>1, <1>2 DEF Reachable
<1>5. ASSUME NEW n \in Message, NEW b \in Bucket, n \in buffer'[b]
      PROVE  bucketOf[KeyOf[n]] = b
  <2>1. n \in buffer[b] \/ (n = m /\ b = bucketOf[KeyOf[m]])
    BY <1>5 DEF PushTypeOK, Deliver, DeliverSkip, DeliverDirect, DeliverFirst,
       DeliverBuffered
  <2> QED BY <2>1 DEF Reachable, NothingForgotten
<1> QED BY <1>1, <1>3, <1>4, <1>5 DEF Reachable, NothingForgotten

\* A first push that went out finds the table without a bucket for its key.
LEMMA SentReaches ==
    ASSUME PushTypeOK, Reachable, NEW m \in Message, PushSent(m)
    PROVE  Reachable'
<1>1. /\ handler' = [handler EXCEPT ![m] = "done"] /\ Sending(m)
      /\ UNCHANGED <<buffer, scan>>
  BY DEF PushSent, DirectSent, FirstSent, FlushSent, HandlerEnds, Sending
<1>2. \A n \in Message : ~Sending(n)'
  BY <1>1 DEF Reachable, Sending, PushTypeOK
<1>3. CASE UNCHANGED bucketOf
  BY <1>1, <1>2, <1>3 DEF Reachable, NothingForgotten, Sending
<1>4. CASE handler[m] = "first" /\ bucketOf' = [bucketOf EXCEPT ![KeyOf[m]] = m]
  <2>1. bucketOf[KeyOf[m]] = NoBucket /\ KeyOf[m] \in Key
    BY <1>4, KeyOfAssumption DEF Reachable
  <2>2. \A k \in Key : k # KeyOf[m] => bucketOf'[k] = bucketOf[k]
    BY <1>4 DEF PushTypeOK
  <2>3. ASSUME NEW b \in Bucket, NEW n \in Message, bucketOf[KeyOf[n]] = b
        PROVE  bucketOf'[KeyOf[n]] = b
    BY <2>1, <2>2, <2>3, KeyOfAssumption, NoBucketAssumption DEF Bucket
  <2>4. scan.todo \subseteq Message /\ \A b \in Bucket : buffer[b] \subseteq Message
    BY DEF PushTypeOK, Bucket
  <2>5. NothingForgotten'
    BY <1>1, <2>3 DEF Reachable, NothingForgotten
  <2>6. \A b \in scan'.todo : bucketOf'[KeyOf[b]] = b
    BY <1>1, <2>3, <2>4 DEF Reachable, Bucket
  <2> QED BY <1>2, <2>5, <2>6 DEF Reachable, Sending
<1> QED BY <1>3, <1>4 DEF PushSent, DirectSent, FirstSent, FlushSent

\* A round of the loop reclaims only buckets with nothing in them.
LEMMA ScanReaches ==
    ASSUME PushTypeOK, Reachable, UNCHANGED handler,
           NEW todo, todo \subseteq Bucket, \A b \in todo : bucketOf[KeyOf[b]] = b,
           NEW ages, NEW now, ScanRun(todo, ages, now)
    PROVE  Reachable'
<1> DEFINE all == phase # "running"
           due == {b \in todo : ages[b] >= now + Cooldown}
           work == {b \in todo : buffer[b] # {} /\ (all \/ b \in due)}
           Reclaim(S) ==
             bucketOf' = [k \in Key |->
                IF ~all /\ \E b \in S \cap due : KeyOf[b] = k
                THEN NoBucket ELSE bucketOf[k]]
           Digest(b, S) ==
             /\ Reclaim(S)
             /\ buffer' = [buffer EXCEPT ![b] = {}]
             /\ Attempt(buffer[b])
             /\ scan' = [sending |-> b, todo |-> todo \ (S \cup {b}), lag |-> now]
           Finish ==
             /\ work = {}
             /\ Reclaim(todo)
             /\ scan' = NoScan
             /\ UNCHANGED <<buffer, attempts>>
<1>1. Finish \/ \E b \in work, S \in SUBSET (todo \ work) : Digest(b, S)
  BY Zenon DEF ScanRun
<1>2. PICK S \in SUBSET (todo \ work) :
         /\ Reclaim(S)
         /\ scan'.todo \subseteq todo \ S
         /\ \A b \in Bucket : buffer'[b] \subseteq buffer[b]
  <2>1. CASE Finish
    <3>1. todo \in SUBSET (todo \ work) /\ scan'.todo = {}
      BY <2>1 DEF NoScan
    <3>2. Reclaim(todo) /\ \A b \in Bucket : buffer'[b] \subseteq buffer[b]
      BY <2>1
    <3> HIDE DEF Reclaim, work
    <3> QED BY <3>1, <3>2
  <2>2. ASSUME NEW b \in work, NEW S \in SUBSET (todo \ work), Digest(b, S)
        PROVE  /\ Reclaim(S)
               /\ scan'.todo \subseteq todo \ S
               /\ \A c \in Bucket : buffer'[c] \subseteq buffer[c]
    <3>1. scan' = [sending |-> b, todo |-> todo \ (S \cup {b}), lag |-> now]
      BY <2>2
    <3>2. buffer' = [buffer EXCEPT ![b] = {}]
      BY <2>2
    <3>3. \A c \in Bucket : buffer'[c] \subseteq buffer[c]
      BY <3>2 DEF PushTypeOK
    <3>4. scan'.todo \subseteq todo \ S
      BY <3>1
    <3> QED BY <2>2, <3>3, <3>4
  <2> HIDE DEF Reclaim, work, Finish
  <2> QED BY <1>1, <2>1, <2>2
<1>3. \A b \in S \cap due : ~all => buffer[b] = {}
  BY <1>2
<1>4. \A b \in S : b \in todo
  BY <1>2
<1>5. \A k \in Key : \/ bucketOf'[k] = bucketOf[k]
                     \/ /\ bucketOf'[k] = NoBucket
                        /\ \E b \in S : KeyOf[b] = k /\ buffer[b] = {}
  <2> HIDE DEF all, due
  <2> QED BY <1>2, <1>3
<1>6. \A m \in Message : handler'[m] = "first" => bucketOf'[KeyOf[m]] = NoBucket
  BY <1>5, KeyOfAssumption DEF Reachable
<1>7. ASSUME NEW b \in scan'.todo PROVE bucketOf'[KeyOf[b]] = b
  <2>1. b \in todo /\ b \notin S /\ KeyOf[b] \in Key
    BY <1>2, <1>7, KeyOfAssumption DEF Bucket
  <2>2. bucketOf[KeyOf[b]] = b
    BY <2>1
  <2> HIDE DEF Reclaim, work, due, all
  <2> QED BY <1>4, <1>5, <2>1, <2>2
<1>8. ASSUME NEW m \in Message, NEW b \in Bucket, m \in buffer'[b]
      PROVE  bucketOf'[KeyOf[m]] = b
  <2>1. m \in buffer[b] /\ bucketOf[KeyOf[m]] = b /\ KeyOf[m] \in Key
    BY <1>2, <1>8, KeyOfAssumption DEF Reachable, NothingForgotten
  <2> HIDE DEF Reclaim, work, due, all
  <2> QED BY <1>4, <1>5, <2>1
<1> HIDE DEF Reclaim, work, due, all
<1> QED BY <1>6, <1>7, <1>8 DEF Reachable, NothingForgotten, Sending

LEMMA ReachableNext ==
    ASSUME Concurrent = 1, PushTypeOK, Reachable, [PushNext]_pushVars
    PROVE  Reachable'
<1>1. ASSUME UNCHANGED <<handler, bucketOf, buffer>>, scan'.todo \in {{}, scan.todo}
      PROVE  Reachable'
  BY <1>1 DEF Reachable, NothingForgotten, Sending
<1>2. CASE SweepStart \/ FlushAll
  <2>1. Snapshot \subseteq Bucket /\ \A b \in Snapshot : bucketOf[KeyOf[b]] = b
    BY DEF PushTypeOK, Snapshot
  <2>2. ScanRun(Snapshot, age, 0) /\ UNCHANGED handler
    BY <1>2 DEF SweepStart, FlushAll
  <2> QED BY <2>1, <2>2, ScanReaches
<1>3. CASE ScanSent
  <2>1. scan.todo \subseteq Bucket /\ \A b \in scan.todo : bucketOf[KeyOf[b]] = b
    BY DEF PushTypeOK, Reachable
  <2>2. ScanRun(scan.todo, age', scan.lag) /\ UNCHANGED handler
    BY <1>3 DEF ScanSent
  <2> QED BY <2>1, <2>2, ScanReaches
<1>4. CASE StopSweeper \/ BrokerStops
  BY <1>1, <1>4 DEF StopSweeper, BrokerStops, NoScan
<1>5. CASE Tick
  <2>1. scan'.todo = scan.todo
    BY <1>5 DEF Tick, PushTypeOK
  <2> QED BY <1>1, <1>5, <2>1 DEF Tick
<1>6. CASE UNCHANGED pushVars
  BY <1>1, <1>6 DEF pushVars
<1> QED
  BY <1>2, <1>3, <1>4, <1>5, <1>6, DeliverReaches, SentReaches DEF PushNext

\* As long as the consumer handles one message at a time, what is buffered
\* stays where the sweeper and the shutdown find it: neither a first push nor
\* the loop over the buckets takes a bucket with notices out of the table.
THEOREM NoticesStayReachable ==
    ASSUME Concurrent = 1
    PROVE  PushSpec => []NothingForgotten
<1>1. PushTypeOK /\ Reachable /\ [PushNext]_pushVars => Reachable'
  BY ReachableNext
<1>2. Reachable => NothingForgotten
  BY DEF Reachable
<1> QED BY <1>1, <1>2, ReachableInit, PushTypeCorrect, PTL DEF PushSpec

-----------------------------------------------------------------------------
(* The fallback over the channels.                                         *)

\* Every channel has its place in FALLBACK_ORDER, and none has the name of
\* an outcome.
LEMMA ChannelNames ==
    /\ Channel = {"pushme", "pushplus_bot", "smtp", "telegram_bot", "bark",
         "dingding_bot", "feishu_bot", "serverJ", "pushdeer", "qmsg_bot",
         "wecom_bot", "wecom_app", "gotify", "ntfy", "wxpusher_bot", "iGot",
         "go_cqhttp", "chronocat", "aibotk", "chat", "weplus_bot", "webhook"}
    /\ Rank \in [Channel -> Nat]
    /\ Channel \cap {NoChannel, "", "unqueued", "nothing", "failed", "skipped", "cut"} = {}
<1>1. DOMAIN FALLBACK_ORDER \subseteq Nat
  BY DEF FALLBACK_ORDER
<1>2. \A c \in Channel : \E i \in DOMAIN FALLBACK_ORDER : FALLBACK_ORDER[i] = c
  BY Zenon DEF Channel, Range
<1>3. Rank \in [Channel -> Nat]
  <2> HIDE DEF Channel
  <2> QED BY <1>1, <1>2 DEF Rank
<1>4. Channel = {"pushme", "pushplus_bot", "smtp", "telegram_bot", "bark",
        "dingding_bot", "feishu_bot", "serverJ", "pushdeer", "qmsg_bot",
        "wecom_bot", "wecom_app", "gotify", "ntfy", "wxpusher_bot", "iGot",
        "go_cqhttp", "chronocat", "aibotk", "chat", "weplus_bot", "webhook"}
  BY SMTT(60) DEF Channel, Range, FALLBACK_ORDER
<1>5. Channel \cap {NoChannel, "", "unqueued", "nothing", "failed", "skipped", "cut"} = {}
  BY <1>4 DEF NoChannel
<1> HIDE DEF Channel
<1> QED BY <1>3, <1>4, <1>5

LEMMA HopNames ==
    \A c \in Channel : FirstHop[c] \in {"none", "main", "mirrored", "token", "peers"}
<1> SUFFICES ASSUME NEW c \in Channel
             PROVE  FirstHop[c] \in {"none", "main", "mirrored", "token", "peers"}
  OBVIOUS
<1>1. CASE c \in OneRequest
  BY <1>1 DEF FirstHop, OneRequest, Signed, Keyed, Robots, Mailed, Hooked,
    Roomed, Plain, Subscribed, ByStatus
<1>2. CASE c \notin OneRequest
  <2>1. c \in {"pushplus_bot", "telegram_bot", "wecom_app", "chronocat"}
    BY <1>2, ChannelNames DEF OneRequest, Signed, Keyed, Robots, Mailed, Hooked,
    Roomed, Plain, Subscribed, ByStatus
  <2> QED BY <1>2, <2>1 DEF FirstHop
<1> QED BY <1>1, <1>2

\* Only chronocat has a request for each peer.
LEMMA PeersAreChronocat ==
    \A c \in Channel : FirstHop[c] = "peers" => c = "chronocat"
<1> SUFFICES ASSUME NEW c \in Channel, c # "chronocat" PROVE FirstHop[c] # "peers"
  OBVIOUS
<1>1. CASE c \in OneRequest
  BY <1>1 DEF FirstHop, OneRequest, Signed, Keyed, Robots, Mailed, Hooked,
    Roomed, Plain, Subscribed, ByStatus
<1>2. CASE c \notin OneRequest
  <2>1. c \in {"pushplus_bot", "telegram_bot", "wecom_app"}
    BY <1>2, ChannelNames DEF OneRequest, Signed, Keyed, Robots, Mailed, Hooked,
    Roomed, Plain, Subscribed, ByStatus
  <2> QED BY <1>2, <2>1 DEF FirstHop
<1> QED BY <1>1, <1>2

\* What the loop of send knows: the channels that are left are those that
\* have not raised, but for the one it is at, which comes before them and
\* after those that have raised.
Asked == raised \cup ({at} \ {NoChannel})

InOrder ==
    /\ \A c \in Asked, d \in left : ~(Rank[d] < Rank[c])
    /\ at # NoChannel => \A c \in raised : ~(Rank[at] < Rank[c])

Fallback ==
    /\ at \in Enabled \cup {NoChannel} /\ raised \subseteq Enabled
    /\ reached \subseteq Asked
    /\ InOrder
    /\ stage \in {"idle", "gate", "send"} => Asked = {} /\ outcome = ""
    /\ stage = "loop" =>
          left = Enabled \ raised /\ at \in raised \cup {NoChannel}
    /\ stage = "try" =>
          /\ at \in Enabled \ raised /\ left = Enabled \ Asked
          /\ hop = "peers" => at = "chronocat"
    /\ stage \in {"over", "answered"} =>
          Asked = {} \/ left = Enabled \ Asked
    /\ entry = "feedback" => fields = site
    /\ entry = "" <=> stage = "idle"
    /\ SentArrived /\ FailedAskedAll

LEMMA ChannelsTypeInit == ChannelsInit => ChannelsTypeOK /\ Fallback
<1> SUFFICES ASSUME ChannelsInit PROVE ChannelsTypeOK /\ Fallback
  OBVIOUS
<1>1. site \subseteq Field
  BY OfferAssumption DEF ChannelsInit, Configuration
<1>0. 0 \in 0 .. MaxPeers
  BY PeersAssumption
<1>2. ChannelsTypeOK
  BY <1>0, <1>1, Zenon DEF ChannelsInit, ChannelsTypeOK
<1>3. Fallback
  BY ChannelNames DEF ChannelsInit, Fallback, Asked, InOrder, SentArrived, FailedAskedAll
<1> QED BY <1>2, <1>3

LEMMA ChannelsTypeNext ==
    ASSUME ChannelsTypeOK, [ChannelsNext]_channelVars
    PROVE  ChannelsTypeOK'
<1>1. \A mine \in Configuration : merge_config(mine) \subseteq Field
  BY OfferAssumption DEF ChannelsTypeOK, Configuration, merge_config
<1>2. CASE \E e \in Entry : Ask(e)
  <2>1. PICK e \in Entry : Ask(e)
    BY <1>2
  <2>2. merge_config({}) \subseteq Field
    BY DEF ChannelsTypeOK, merge_config
  <2>3. fields' \subseteq Field /\ entry' = e /\ UNCHANGED <<site, tryVars>> /\ stage = "idle"
    BY <1>1, <2>1, <2>2
       DEF Ask, push_message, rpc_send_push_now, test_push, submit_feedback
  <2>4. \/ stage' \in {"gate", "send"} /\ outcome' = outcome
        \/ e = "queue" /\ stage' = "over" /\ outcome' = "unqueued"
    BY <2>1
       DEF Ask, push_message, rpc_send_push_now, test_push, submit_feedback, Ends
  <2>5. told' \in {told, "queued", "error"}
    BY <2>1 DEF Ask, push_message, rpc_send_push_now, test_push, submit_feedback
  <2>6. outcome = ""
    BY <2>3 DEF ChannelsTypeOK
  <2> QED BY <2>3, <2>4, <2>5, <2>6 DEF ChannelsTypeOK, tryVars
<1>3. CASE user_allows_push
  BY <1>3 DEF ChannelsTypeOK, user_allows_push, Ends, tryVars, chainVars
<1>4. CASE Answer
  <2>1. told' \in {"sent", "not sent", "error"}
    <3>1. outcome \in Channel \cup {"nothing", "failed", "skipped"}
      BY <1>4 DEF ChannelsTypeOK, Answer
    <3> QED BY <1>4, <3>1 DEF Answer
  <2> QED BY <1>4, <2>1 DEF ChannelsTypeOK, Answer, tryVars, chainVars
<1>5. CASE SendNothing \/ AllFailed
  BY <1>5 DEF ChannelsTypeOK, SendNothing, AllFailed, Ends, tryVars, chainVars
<1>6. CASE SendStarts
  BY <1>6 DEF ChannelsTypeOK, SendStarts, chainVars, Enabled
<1>7. CASE NextChannel
  <2>1. PICK c \in Foremost(left) : at' = c /\ left' = left \ {c} /\ hop' = FirstHop[c]
    BY <1>7 DEF NextChannel
  <2>2. c \in Channel
    BY <2>1 DEF Foremost, ChannelsTypeOK
  <2>3. hop' \in {"none", "main", "mirrored", "token", "peers"}
    BY <2>1, <2>2, HopNames
  <2>4. peers' \in 0 .. MaxPeers
    BY <1>7, PeersAssumption DEF NextChannel
  <2> QED BY <1>7, <2>1, <2>2, <2>3, <2>4 DEF ChannelsTypeOK, NextChannel, chainVars
<1>8. CASE Accepted \/ Misjudged
  <2>1. at \in Channel /\ at \notin {"", "unqueued", "cut"} /\ outcome' = at /\ stage' = "over"
    BY <1>8, ChannelNames DEF ChannelsTypeOK, Accepted, Misjudged, Trying, Returns, Ends
  <2>2. reached' \subseteq Channel
    BY <1>8, <2>1 DEF ChannelsTypeOK, Accepted, Misjudged, Delivers
  <2>3. UNCHANGED <<site, fields, entry, left, at, told, hop, peers, raised>>
    BY <1>8 DEF Accepted, Misjudged, Same, Returns, chainVars
  <2> QED BY <2>1, <2>2, <2>3 DEF ChannelsTypeOK
<1>13. CASE Refused \/ Unheard \/ TelegramRaises
  <2>1. at \in Channel /\ stage = "try" /\ stage' = "loop"
    BY <1>13 DEF ChannelsTypeOK, Refused, Unheard, TelegramRaises, Trying, Raises
  <2>2. reached' \subseteq Channel /\ raised' \subseteq Channel
    BY <1>13, <2>1 DEF ChannelsTypeOK, Refused, Unheard, TelegramRaises, Delivers, Raises
  <2>3. UNCHANGED <<site, fields, entry, left, at, told, hop, peers, outcome>>
    BY <1>13 DEF Refused, Unheard, TelegramRaises, Same, Raises, chainVars
  <2> QED BY <2>1, <2>2, <2>3 DEF ChannelsTypeOK
<1>9. CASE PushplusMirror \/ WeComToken
  BY <1>9 DEF ChannelsTypeOK, PushplusMirror, WeComToken, Same, chainVars
<1>10. CASE ChronocatPeer
  <2>1. at \in Channel /\ at \notin {"", "unqueued", "cut"} /\ stage = "try"
    BY <1>10, ChannelNames DEF ChannelsTypeOK, ChronocatPeer, Trying
  <2>2. reached' \subseteq Channel /\ peers' \in 0 .. MaxPeers
    <3>1. peers \in 0 .. MaxPeers /\ (peers > 0 => peers - 1 \in 0 .. MaxPeers)
      <4>1. peers \in 0 .. MaxPeers /\ MaxPeers \in Nat
        BY PeersAssumption, Zenon DEF ChannelsTypeOK, PeersAssumption
      <4> QED BY <4>1
    <3>2. reached' \subseteq reached \cup {at} /\ peers' \in {peers} \cup (IF peers > 0 THEN {peers - 1} ELSE {})
      BY <1>10 DEF ChronocatPeer, Delivers, Returns
    <3> QED BY <2>1, <3>1, <3>2 DEF ChannelsTypeOK
  <2>3. UNCHANGED <<site, fields, entry, left, at, told, hop, raised>>
    BY <1>10 DEF ChronocatPeer, Same, Returns, chainVars
  <2>4. \/ outcome' = outcome /\ stage' = stage
        \/ outcome' = at /\ stage' = "over"
    BY <1>10 DEF ChronocatPeer, Returns, Ends
  <2> QED BY <2>1, <2>2, <2>3, <2>4 DEF ChannelsTypeOK
<1>11. CASE Cut
  BY <1>11 DEF ChannelsTypeOK, Cut, Same, Delivers, Ends, chainVars
<1>12. CASE UNCHANGED channelVars
  BY <1>12 DEF ChannelsTypeOK, channelVars, tryVars, chainVars
<1> QED
  BY <1>2, <1>3, <1>4, <1>5, <1>6, <1>7, <1>8, <1>9, <1>10, <1>11, <1>12, <1>13
     DEF ChannelsNext

\* Before the loop nothing has been asked.
LEMMA FallbackBefore ==
    ASSUME Fallback, (\E e \in Entry : Ask(e)) \/ user_allows_push \/ SendNothing
    PROVE  Fallback'
<1>1. stage \in {"idle", "gate", "send"} /\ Asked = {} /\ outcome = ""
  BY DEF Fallback, Ask, user_allows_push, SendNothing
<1>2. at = NoChannel /\ raised = {} /\ reached = {}
  BY <1>1 DEF Fallback, Asked
<1>3. UNCHANGED <<at, raised, reached, left>>
  BY DEF Ask, user_allows_push, SendNothing, tryVars
<1>4. Asked' = {} /\ InOrder'
  BY <1>2, <1>3 DEF Asked, InOrder
<1>5. CASE \E e \in Entry : Ask(e)
  <2>1. PICK e \in Entry : Ask(e)
    BY <1>5
  <2>2. entry' = e /\ e # "" /\ stage' # "idle"
    BY <2>1
       DEF Ask, push_message, rpc_send_push_now, test_push, submit_feedback, Ends, Entry
  <2>3. e = "feedback" => fields' = site'
    BY <2>1
       DEF Ask, push_message, rpc_send_push_now, test_push, submit_feedback, merge_config
  <2>4. \/ stage' \in {"gate", "send"} /\ outcome' = ""
        \/ stage' = "over" /\ outcome' = "unqueued"
    BY <1>1, <2>1
       DEF Ask, push_message, rpc_send_push_now, test_push, submit_feedback, Ends
  <2>5. told' # "sent"
    BY <1>1, <2>1
       DEF Fallback, SentArrived, Ask, push_message, rpc_send_push_now, test_push,
           submit_feedback
  <2> QED
    BY <1>1, <1>2, <1>3, <1>4, <2>2, <2>3, <2>4, <2>5, ChannelNames
       DEF Fallback, SentArrived, FailedAskedAll
<1>6. CASE user_allows_push \/ SendNothing
  <2>1. UNCHANGED <<site, fields, entry, told>> /\ stage' \in {"send", "over"}
        /\ outcome' \in {"", "skipped", "nothing"} /\ (stage' = "send" => outcome' = "")
    BY <1>1, <1>6 DEF user_allows_push, SendNothing, Ends, chainVars
  <2>2. stage # "idle"
    BY <1>6 DEF user_allows_push, SendNothing
  <2>3. told # "sent"
    BY <1>1 DEF Fallback, SentArrived
  <2> QED
    BY <1>1, <1>2, <1>3, <1>4, <2>1, <2>2, <2>3, ChannelNames
       DEF Fallback, SentArrived, FailedAskedAll
<1> QED BY <1>5, <1>6

\* Tries: what follows from the place of the channel it is at.
LEMMA FallbackTries ==
    ASSUME ChannelsTypeOK, Fallback, stage = "try",
           UNCHANGED <<site, fields, entry, left, at, told>>,
           reached' \subseteq reached \cup {at},
           \/ /\ stage' = "try" /\ UNCHANGED <<raised, outcome>>
              /\ hop' = "peers" => hop = "peers"
           \/ /\ stage' = "loop" /\ UNCHANGED outcome
              /\ raised' = raised \cup {at}
           \/ /\ stage' = "over" /\ UNCHANGED raised
              /\ \/ outcome' = "cut"
                 \/ outcome' = at /\ (at \in reached' \cup ByStatus \cup {"chronocat"})
    PROVE  Fallback'
<1>1. at \in Enabled \ raised /\ at # NoChannel /\ left = Enabled \ Asked
      /\ Asked = raised \cup {at} /\ Enabled \subseteq Channel
  BY ChannelNames DEF Fallback, Asked, Enabled
<1>2. Enabled' = Enabled
  BY DEF Enabled, _is_enabled
<1>3. Asked' = Asked /\ raised \subseteq raised' /\ raised' \subseteq Asked
  BY <1>1 DEF Asked
<1>4. InOrder'
  <2>1. \A c \in Asked', d \in left' : ~(Rank[d] < Rank[c])
    BY <1>3 DEF Fallback, InOrder
  <2>2. \A c \in raised' : ~(Rank[at] < Rank[c])
    <3>1. Rank[at] \in Nat
      BY <1>1, ChannelNames
    <3>2. ~(Rank[at] < Rank[at])
      BY <3>1
    <3> QED BY <1>1, <1>3, <3>2 DEF Fallback, InOrder
  <2> QED BY <2>1, <2>2 DEF InOrder
<1>5. reached' \subseteq Asked' /\ raised' \subseteq Enabled' /\ at' \in Enabled'
  BY <1>1, <1>2, <1>3 DEF Fallback
<1>6. /\ entry' = "feedback" => fields' = site'
      /\ entry' # "" /\ stage' \notin {"idle", "gate", "send"}
  BY DEF Fallback
<1>7. told # "sent" /\ outcome = ""
  BY DEF Fallback, SentArrived, ChannelsTypeOK
<1>8. SentArrived' /\ FailedAskedAll'
  BY <1>1, <1>2, <1>5, <1>7, ChannelNames DEF SentArrived, FailedAskedAll, ByStatus
<1>9. /\ stage' = "loop" => left' = Enabled' \ raised' /\ at' \in raised'
      /\ stage' = "try" => /\ at' \in Enabled' \ raised'
                           /\ hop' = "peers" => at' = "chronocat"
      /\ left' = Enabled' \ Asked'
  BY <1>1, <1>2, <1>3 DEF Fallback
<1> QED BY <1>4, <1>5, <1>6, <1>8, <1>9 DEF Fallback

LEMMA FallbackNext ==
    ASSUME ChannelsTypeOK, Fallback, [ChannelsNext]_channelVars
    PROVE  Fallback'
<1>1. CASE UNCHANGED channelVars
  <2>1. Enabled' = Enabled /\ Asked' = Asked
    BY <1>1 DEF Enabled, _is_enabled, Asked, channelVars, chainVars, tryVars
  <2>2. InOrder' /\ SentArrived' /\ FailedAskedAll'
    BY <1>1, <2>1
       DEF Fallback, InOrder, SentArrived, FailedAskedAll, channelVars, chainVars, tryVars
  <2> QED BY <1>1, <2>1, <2>2 DEF Fallback, channelVars, chainVars, tryVars
<1>2. CASE Answer
  <2>1. Enabled' = Enabled /\ Asked' = Asked
    BY <1>2 DEF Answer, Enabled, _is_enabled, Asked, chainVars, tryVars
  <2>2. InOrder' /\ FailedAskedAll'
    BY <1>2, <2>1 DEF Answer, Fallback, InOrder, FailedAskedAll, chainVars, tryVars
  <2>3. SentArrived'
    <3>1. told' = "sent" <=> outcome \in Channel
      <4>1. outcome \in Channel \cup {"nothing", "failed", "skipped"}
        BY <1>2 DEF ChannelsTypeOK, Answer
      <4> QED BY <1>2, <4>1, ChannelNames DEF Answer
    <3> QED BY <1>2, <2>1, <3>1 DEF Answer, Fallback, SentArrived, chainVars, tryVars
  <2>4. UNCHANGED <<site, fields, entry, left, at, raised, reached>>
        /\ stage = "over" /\ stage' = "answered"
    BY <1>2 DEF Answer, chainVars, tryVars
  <2> QED BY <2>1, <2>2, <2>3, <2>4 DEF Fallback
<1>3. CASE SendStarts
  <2>1. at = NoChannel /\ raised = {} /\ reached = {} /\ Enabled' = Enabled
    BY <1>3 DEF Fallback, SendStarts, Asked, Enabled, _is_enabled, chainVars
  <2>2. UNCHANGED <<site, fields, entry, at, raised, reached, outcome, told>>
        /\ stage = "send" /\ stage' = "loop" /\ left' = Enabled
    BY <1>3 DEF SendStarts, chainVars
  <2>3. Asked' = {} /\ InOrder'
    BY <2>1, <2>2 DEF Asked, InOrder
  <2> QED
    BY <2>1, <2>2, <2>3 DEF Fallback, SentArrived, FailedAskedAll, Enabled
<1>4. CASE AllFailed
  <2>1. Enabled' = Enabled /\ Asked' = Asked /\ raised = Enabled
    BY <1>4 DEF Fallback, AllFailed, Enabled, _is_enabled, Asked, chainVars, tryVars
  <2>2. UNCHANGED <<site, fields, entry, left, at, raised, reached, told>>
        /\ stage = "loop" /\ stage' = "over" /\ outcome' = "failed" /\ left = {}
    BY <1>4 DEF AllFailed, Ends, chainVars, tryVars
  <2>3. InOrder' /\ left' = Enabled' \ Asked'
    BY <2>1, <2>2 DEF Fallback, InOrder, Asked
  <2>4. SentArrived' /\ FailedAskedAll'
    BY <2>1, <2>2, ChannelNames DEF Fallback, SentArrived, FailedAskedAll
  <2> QED BY <2>1, <2>2, <2>3, <2>4 DEF Fallback
<1>5. CASE NextChannel
  <2>1. PICK c \in Foremost(left) : at' = c /\ left' = left \ {c} /\ hop' = FirstHop[c]
    BY <1>5 DEF NextChannel
  <2>2. c \in left /\ c \in Enabled \ raised /\ Enabled \subseteq Channel
    BY <1>5, <2>1 DEF Foremost, Fallback, NextChannel, Enabled
  <2>3. UNCHANGED <<site, fields, entry, raised, reached, outcome, told>>
        /\ stage = "loop" /\ stage' = "try" /\ Enabled' = Enabled
    BY <1>5 DEF NextChannel, chainVars, Enabled, _is_enabled
  <2>4. left = Enabled \ raised /\ Asked = raised
    <3>1. NoChannel \notin raised
      BY <2>2, ChannelNames DEF Fallback
    <3> QED BY <2>3, <3>1 DEF Fallback, Asked
  <2>5. Asked' = raised \cup {c} /\ c # NoChannel
    BY <2>1, <2>2, <2>3, ChannelNames DEF Asked
  <2>6. InOrder'
    <3>1. \A d \in left : ~(Rank[d] < Rank[c])
      BY <2>1 DEF Foremost
    <3>2. \A b \in raised, d \in left : ~(Rank[d] < Rank[b])
      BY <2>4 DEF Fallback, InOrder
    <3> QED BY <2>1, <2>2, <2>3, <2>5, <3>1, <3>2 DEF InOrder
  <2>7. hop' = "peers" => at' = "chronocat"
    BY <2>1, <2>2, PeersAreChronocat
  <2>8. SentArrived' /\ FailedAskedAll'
    BY <2>3, ChannelNames DEF Fallback, SentArrived, FailedAskedAll, ChannelsTypeOK
  <2> QED BY <2>1, <2>2, <2>3, <2>4, <2>5, <2>6, <2>7, <2>8 DEF Fallback
<1>6. CASE Accepted \/ Misjudged \/ Cut
  <2>1. stage = "try" /\ UNCHANGED <<site, fields, entry, left, at, told, raised>>
        /\ stage' = "over" /\ reached' \subseteq reached \cup {at}
    BY <1>6 DEF Accepted, Misjudged, Cut, Trying, Same, Returns, Ends, Delivers, chainVars
  <2>2. \/ outcome' = "cut"
        \/ outcome' = at /\ (at \in reached' \cup ByStatus \cup {"chronocat"})
    BY <1>6 DEF Accepted, Misjudged, Cut, Returns, Ends, Delivers
  <2> QED BY <2>1, <2>2, FallbackTries
<1>7. CASE Refused \/ Unheard \/ TelegramRaises
  <2>1. stage = "try" /\ UNCHANGED <<site, fields, entry, left, at, told, outcome>>
        /\ stage' = "loop" /\ raised' = raised \cup {at} /\ reached' \subseteq reached \cup {at}
    BY <1>7 DEF Refused, Unheard, TelegramRaises, Trying, Same, Raises, Delivers, chainVars
  <2> QED BY <2>1, FallbackTries
<1>8. CASE PushplusMirror \/ WeComToken
  <2>1. stage = "try" /\ UNCHANGED <<site, fields, entry, left, at, told, outcome, raised, stage, reached>>
        /\ hop' # "peers"
    BY <1>8 DEF PushplusMirror, WeComToken, Trying, Same, chainVars
  <2> QED BY <2>1, FallbackTries
<1>9. CASE ChronocatPeer
  <2>1. stage = "try" /\ UNCHANGED <<site, fields, entry, left, at, told, raised, hop>>
        /\ hop = "peers" /\ reached' \subseteq reached \cup {at}
    BY <1>9 DEF ChronocatPeer, Trying, Same, Returns, Delivers, chainVars
  <2>2. at = "chronocat"
    BY <2>1 DEF Fallback
  <2>3. \/ UNCHANGED <<outcome, stage>>
        \/ outcome' = at /\ stage' = "over"
    BY <1>9 DEF ChronocatPeer, Returns, Ends
  <2> QED BY <2>1, <2>2, <2>3, FallbackTries
<1> QED
  BY <1>1, <1>2, <1>3, <1>4, <1>5, <1>6, <1>7, <1>8, <1>9, FallbackBefore DEF ChannelsNext

LEMMA FallbackHolds == ASSUME ChannelsTypeOK, Fallback PROVE ChannelsHold
<1>1. AskedInOrder
  <2> SUFFICES ASSUME NEW c \in raised \cup {at}, NEW d \in Enabled,
                      c \in Channel, Rank[d] < Rank[c]
               PROVE  d \in raised
    BY DEF AskedInOrder
  <2>1. c \in Asked /\ at \in Enabled \cup {NoChannel}
    BY ChannelNames DEF Asked, Fallback
  <2>2. stage \notin {"idle", "gate", "send"} /\ d \notin left
    BY <2>1 DEF Fallback, InOrder
  <2>3. d \in Asked
    BY <2>1, <2>2 DEF Fallback, ChannelsTypeOK, Asked
  <2>4. d # at
    <3>1. CASE c = at
      <4>1. Rank[c] \in Nat
        BY ChannelNames
      <4>2. ~(Rank[c] < Rank[c])
        BY <4>1
      <4> QED BY <3>1, <4>2
    <3>2. CASE c \in raised /\ at # NoChannel
      BY <3>2 DEF Fallback, InOrder
    <3>3. NoChannel \notin Enabled
      BY ChannelNames DEF Enabled
    <3> QED BY <3>1, <3>2, <3>3
  <2> QED BY <2>3, <2>4 DEF Asked
<1>2. ArrivesTwiceIfUnheard
  <2> SUFFICES ASSUME NEW c \in reached, NEW d \in reached,
                      Rank[c] < Rank[d], c \notin raised
               PROVE  FALSE
    BY DEF ArrivesTwiceIfUnheard
  <2>1. c = at /\ at # NoChannel /\ d \in Asked /\ c \in Channel
    BY ChannelNames DEF Fallback, Asked, Enabled
  <2>2. CASE d \in raised
    BY <2>1, <2>2 DEF Fallback, InOrder
  <2>3. CASE d = c
    <3>1. Rank[c] \in Nat
      BY <2>1, ChannelNames
    <3>2. ~(Rank[c] < Rank[c])
      BY <3>1
    <3> QED BY <2>3, <3>2
  <2> QED BY <2>1, <2>2, <2>3 DEF Asked
<1> QED BY <1>1, <1>2 DEF ChannelsHold, Fallback, FeedbackStaysHome

\* The fallback: an external message goes from channel to channel in their
\* order, ends at the first that does not raise, and the caller hears so
\* (push.py:645-706), for any configuration and any number of peers.
THEOREM ChannelsAreTried == ChannelsSpec => [](ChannelsTypeOK /\ ChannelsHold)
<1>1. ChannelsTypeOK /\ Fallback /\ [ChannelsNext]_channelVars
        => ChannelsTypeOK' /\ Fallback'
  BY ChannelsTypeNext, FallbackNext
<1>2. ChannelsTypeOK /\ Fallback => ChannelsHold
  BY FallbackHolds
<1> QED BY ChannelsTypeInit, <1>1, <1>2, PTL DEF ChannelsSpec

-----------------------------------------------------------------------------
(* All of them at once.                                                    *)

\* A behaviour of all of them is one of each.
LEMMA DeliveryIsEach == DeliverySpec => Spec /\ PushSpec /\ ChannelsSpec
<1>1. DeliveryInit => Init /\ PushInit /\ ChannelsInit
  BY DEF DeliveryInit
<1>2. [DeliveryNext]_<<part, vars, pushVars, channelVars>>
        => [Next]_vars /\ [PushNext]_pushVars /\ [ChannelsNext]_channelVars
  BY Zenon DEF DeliveryNext
<1> QED BY <1>1, <1>2, PTL DEF DeliverySpec, Spec, PushSpec, ChannelsSpec

\* The stores, the queue, the buffers and the channels hold what they can
\* hold, whichever is at work (dm_content_mq.py, push_aggregator.py, push.py).
THEOREM DeliveriesAreTyped == DeliverySpec => []DeliveryTypeOK
BY DeliveryIsEach, TypeCorrect, PushTypeCorrect, ChannelsAreTried, PTL DEF DeliveryTypeOK

=============================================================================
