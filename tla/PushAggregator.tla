--------------------------- MODULE PushAggregator ---------------------------
(***************************************************************************)
(* External push: the first failure notice for a receiver and title goes   *)
(* out at once, the following ones are buffered for a cool-down and leave  *)
(* as one digest.                                                          *)
(*                                                                         *)
(* Everything happens on one event loop.  An action is the code between    *)
(* two awaits: a delivery decides what to do in one step and learns the    *)
(* result of its HTTP request in another, and so does each digest of the   *)
(* sweeper.  A bucket is an object: it is named after the message whose    *)
(* push opened it, so that a bucket the table no longer holds still exists *)
(* for a coroutine that has a reference to it.                             *)
(***************************************************************************)
EXTENDS Naturals, FiniteSets

CONSTANTS
    Message,       \* the messages of message_queue, each delivered once
    NoBucket,
    Key,           \* (receiver, title) pairs
    KeyOf,         \* the pair of each message
    Direct,        \* messages whose title does not start with [f]
    Cooldown,      \* push_aggregate_cooldown_seconds, in ticks
    MaxLag,        \* how many ticks pass while a coroutine awaits its sends
    Concurrent     \* deliveries the consumer handles at a time

ASSUME NoBucketAssumption == NoBucket \notin Message
ASSUME KeyOfAssumption == KeyOf \in [Message -> Key]
ASSUME DirectAssumption == Direct \subseteq Message
ASSUME TimeAssumption == Cooldown \in Nat \ {0} /\ MaxLag \in Nat
ASSUME ConcurrentAssumption == Concurrent \in Nat \ {0}

VARIABLES
    handler,    \* where the delivery of each message stands
    target,     \* the bucket a delivery flushes
    bucketOf,   \* _buckets
    buffer,     \* the buffer of each bucket object
    age,        \* ticks since last_push_at of each bucket object
    lag,        \* ticks since a delivery read the clock
    scan,       \* the loop over the buckets, of the sweeper or of the shutdown
    attempts,   \* how many sends carried the message
    phase       \* of the process

pushVars == <<handler, target, bucketOf, buffer, age, lag, scan, attempts, phase>>

Bucket == Message
MaxAge == Cooldown + MaxLag
NoScan == [sending |-> NoBucket, todo |-> {}, lag |-> 0]

PushTypeOK ==
    /\ handler \in [Message -> {"queued", "direct", "first", "flush", "done"}]
    /\ target \in [Message -> Bucket \cup {NoBucket}]
    /\ bucketOf \in [Key -> Bucket \cup {NoBucket}]
    /\ buffer \in [Bucket -> SUBSET Message]
    /\ age \in [Bucket -> 0..MaxAge]
    /\ lag \in [Message -> 0..MaxLag]
    /\ scan \in [sending: Bucket \cup {NoBucket}, todo: SUBSET Bucket,
                 lag: 0..MaxLag]
    /\ attempts \in [Message -> 0..2]
    /\ phase \in {"running", "stopping", "flushing", "down"}
    \* a flush has its bucket, and a bucket is kept under its own key
    /\ \A m \in Message : handler[m] = "flush" => target[m] # NoBucket
    /\ \A k \in Key : bucketOf[k] # NoBucket => KeyOf[bucketOf[k]] = k

PushInit ==
    /\ handler = [m \in Message |-> "queued"]
    /\ target = [m \in Message |-> NoBucket]
    /\ bucketOf = [k \in Key |-> NoBucket]
    /\ buffer = [b \in Bucket |-> {}]
    /\ age = [b \in Bucket |-> 0]
    /\ lag = [m \in Message |-> 0]
    /\ scan = NoScan
    /\ attempts = [m \in Message |-> 0]
    /\ phase = "running"

----------------------------------------------------------------------------
(* Time and sends                                                          *)

Sending(m) == handler[m] \in {"direct", "first", "flush"}

\* A send has timeouts, and a loop over the buckets is a number of sends.
Tick ==
    /\ phase # "down"
    /\ \A m \in Message : Sending(m) => lag[m] < MaxLag
    /\ scan.sending # NoBucket => scan.lag < MaxLag
    /\ age' = [b \in Bucket |-> IF age[b] < MaxAge THEN age[b] + 1 ELSE age[b]]
    /\ lag' = [m \in Message |-> IF Sending(m) THEN lag[m] + 1 ELSE lag[m]]
    /\ scan' = IF scan.sending # NoBucket THEN [scan EXCEPT !.lag = @ + 1]
                                          ELSE scan
    /\ UNCHANGED <<handler, target, bucketOf, buffer, attempts, phase>>

\* A send is tried for the messages in S (the count is capped at two).
Attempt(S) ==
    attempts' = [m \in Message |->
        IF m \in S /\ attempts[m] < 2 THEN attempts[m] + 1 ELSE attempts[m]]

----------------------------------------------------------------------------
(* deliver                                                                 *)

\* The consumer starts on m; one invocation more must be allowed.
Arrives(m) ==
    /\ phase # "down"
    /\ handler[m] = "queued"
    /\ Cardinality({n \in Message : Sending(n)}) < Concurrent

\* The user has switched pushes off, or does not want to be disturbed.
DeliverSkip(m) ==
    /\ Arrives(m)
    /\ handler' = [handler EXCEPT ![m] = "done"]
    /\ UNCHANGED <<target, bucketOf, buffer, age, lag, scan, attempts, phase>>

DeliverDirect(m) ==
    /\ Arrives(m)
    /\ m \in Direct
    /\ handler' = [handler EXCEPT ![m] = "direct"]
    /\ Attempt({m})
    /\ UNCHANGED <<target, bucketOf, buffer, age, lag, scan, phase>>

\* No bucket: the push goes out at once.
DeliverFirst(m) ==
    /\ Arrives(m)
    /\ m \notin Direct
    /\ bucketOf[KeyOf[m]] = NoBucket
    /\ handler' = [handler EXCEPT ![m] = "first"]
    /\ Attempt({m})
    /\ UNCHANGED <<target, bucketOf, buffer, age, lag, scan, phase>>

\* Seeded bug: the buffer is only emptied when the digest has been sent.
DeliverBufferedKeepsBuffer(m) ==
    /\ Arrives(m)
    /\ m \notin Direct
    /\ LET b == bucketOf[KeyOf[m]] IN
       /\ b # NoBucket
       /\ buffer' = [buffer EXCEPT ![b] = @ \cup {m}]
       /\ \/ /\ age[b] < Cooldown
             /\ handler' = [handler EXCEPT ![m] = "done"]
             /\ UNCHANGED <<target, attempts>>
          \/ /\ age[b] >= Cooldown
             /\ handler' = [handler EXCEPT ![m] = "flush"]
             /\ target' = [target EXCEPT ![m] = b]
             /\ Attempt(buffer[b] \cup {m})
    /\ UNCHANGED <<bucketOf, age, lag, scan, phase>>

\* There is a bucket: into its buffer, and out again at once when the
\* cool-down is over, with what the buffer held.
DeliverBuffered(m) ==
    /\ Arrives(m)
    /\ m \notin Direct
    /\ LET b == bucketOf[KeyOf[m]] IN
       /\ b # NoBucket
       /\ \/ /\ age[b] < Cooldown
             /\ buffer' = [buffer EXCEPT ![b] = @ \cup {m}]
             /\ handler' = [handler EXCEPT ![m] = "done"]
             /\ UNCHANGED <<target, attempts>>
          \/ /\ age[b] >= Cooldown
             /\ buffer' = [buffer EXCEPT ![b] = {}]
             /\ handler' = [handler EXCEPT ![m] = "flush"]
             /\ target' = [target EXCEPT ![m] = b]
             /\ Attempt(buffer[b] \cup {m})
    /\ UNCHANGED <<bucketOf, age, lag, scan, phase>>

HandlerEnds(m) ==
    /\ handler' = [handler EXCEPT ![m] = "done"]
    /\ lag' = [lag EXCEPT ![m] = 0]

DirectSent(m) ==
    /\ phase # "down"
    /\ handler[m] = "direct"
    /\ HandlerEnds(m)
    /\ UNCHANGED <<target, bucketOf, buffer, age, scan, attempts, phase>>

\* Seeded bug: the key of the table leaves the title out.
FirstSentForEveryTitle(m) ==
    /\ phase # "down"
    /\ handler[m] = "first"
    /\ HandlerEnds(m)
    /\ bucketOf' = [k \in Key |-> m]
    /\ age' = [age EXCEPT ![m] = lag[m]]
    /\ UNCHANGED <<target, buffer, scan, attempts, phase>>

\* A push that went out opens a bucket, whatever the table holds by now.
FirstSent(m) ==
    /\ phase # "down"
    /\ handler[m] = "first"
    /\ HandlerEnds(m)
    /\ \/ /\ bucketOf' = [bucketOf EXCEPT ![KeyOf[m]] = m]
          /\ age' = [age EXCEPT ![m] = lag[m]]
       \/ UNCHANGED <<bucketOf, age>>
    /\ UNCHANGED <<target, buffer, scan, attempts, phase>>

\* Sent or not, the digest is over and the cool-down starts anew, at the
\* time the flush began.
FlushSent(m) ==
    /\ phase # "down"
    /\ handler[m] = "flush"
    /\ HandlerEnds(m)
    /\ target' = [target EXCEPT ![m] = NoBucket]
    /\ age' = [age EXCEPT ![target[m]] = lag[m]]
    /\ UNCHANGED <<bucketOf, buffer, scan, attempts, phase>>

----------------------------------------------------------------------------
(* flush_due_buckets and flush_all_buckets                                 *)

\* Seeded bug: a due bucket is reclaimed without a look at its buffer.
ScanRunReclaimsFull(todo, ages, now) ==
    /\ bucketOf' = [k \in Key |->
            IF \E b \in todo : KeyOf[b] = k /\ ages[b] >= now + Cooldown
            THEN NoBucket ELSE bucketOf[k]]
    /\ scan' = NoScan
    /\ UNCHANGED <<buffer, attempts>>

\* The loop over the remaining buckets of a snapshot, up to its next await:
\* the digest of one bucket, or the end.  What is visited before it (S) is
\* reclaimed by the sweeper when it is due and empty.  Ages are compared with
\* the time the loop began, now ticks ago.
ScanRun(todo, ages, now) ==
    LET all == phase # "running"
        due == {b \in todo : ages[b] >= now + Cooldown}
        work == {b \in todo : buffer[b] # {} /\ (all \/ b \in due)}
        Reclaim(S) ==
            bucketOf' = [k \in Key |->
                IF ~all /\ \E b \in S \cap due : KeyOf[b] = k
                THEN NoBucket ELSE bucketOf[k]]
    IN
    \/ \E b \in work, S \in SUBSET (todo \ work) :
          /\ Reclaim(S)
          /\ buffer' = [buffer EXCEPT ![b] = {}]
          /\ Attempt(buffer[b])
          /\ scan' = [sending |-> b, todo |-> todo \ (S \cup {b}), lag |-> now]
    \/ /\ work = {}
       /\ Reclaim(todo)
       /\ scan' = NoScan
       /\ UNCHANGED <<buffer, attempts>>

Snapshot == {bucketOf[k] : k \in Key} \ {NoBucket}

SweepStart ==
    /\ phase = "running"
    /\ scan.sending = NoBucket
    /\ ScanRun(Snapshot, age, 0)
    /\ UNCHANGED <<handler, target, age, lag, phase>>

\* Whichever way the send ends, the loop goes on to the next bucket.
ScanSent ==
    /\ phase # "down"
    /\ scan.sending # NoBucket
    /\ age' = [age EXCEPT ![scan.sending] = scan.lag]
    /\ ScanRun(scan.todo, age', scan.lag)
    /\ UNCHANGED <<handler, target, lag, phase>>

----------------------------------------------------------------------------
(* stop_push_aggregator, then the end of the broker and the process        *)

\* The sweeper is cancelled, in the middle of a digest too.
StopSweeper ==
    /\ phase = "running"
    /\ phase' = "stopping"
    /\ scan' = NoScan
    /\ UNCHANGED <<handler, target, bucketOf, buffer, age, lag, attempts>>

FlushAll ==
    /\ phase = "stopping"
    /\ phase' = "flushing"
    /\ ScanRun(Snapshot, age, 0)
    /\ UNCHANGED <<handler, target, age, lag>>

BrokerStops ==
    /\ phase = "flushing"
    /\ scan.sending = NoBucket
    /\ phase' = "down"
    /\ UNCHANGED <<handler, target, bucketOf, buffer, age, lag, scan, attempts>>

----------------------------------------------------------------------------

Deliver(m) ==
    DeliverSkip(m) \/ DeliverDirect(m) \/ DeliverFirst(m) \/ DeliverBuffered(m)
PushSent(m) == DirectSent(m) \/ FirstSent(m) \/ FlushSent(m)

PushNext ==
    \/ \E m \in Message : Deliver(m) \/ PushSent(m)
    \/ SweepStart \/ ScanSent
    \/ StopSweeper \/ FlushAll \/ BrokerStops
    \/ Tick

PushSpec == PushInit /\ [][PushNext]_pushVars

\* Time passes, sends end, the sweeper wakes up; a shutdown that has begun is
\* carried through.  No message has to arrive and nobody has to stop.
PushFairness ==
    /\ WF_pushVars(Tick)
    /\ \A m \in Message : WF_pushVars(PushSent(m))
    /\ WF_pushVars(SweepStart) /\ WF_pushVars(ScanSent)
    /\ WF_pushVars(FlushAll) /\ WF_pushVars(BrokerStops)

PushFairSpec == PushSpec /\ PushFairness

----------------------------------------------------------------------------
(* Properties                                                              *)

Buffered(m) == \E b \in Bucket : m \in buffer[b]

\* Whatever interleaving of deliveries, sweeps and shutdown: no message goes
\* out twice, neither in two digests nor in a push and a digest.
PushedAtMostOnce == \A m \in Message : attempts[m] <= 1

\* The inductive form of PushedAtMostOnce: what waits in a buffer has been
\* delivered and not been sent, and waits in one buffer only.
WaitsInOneBuffer ==
    /\ PushedAtMostOnce
    /\ \A m \in Message : handler[m] = "queued" => attempts[m] = 0
    /\ \A b \in Bucket : \A m \in buffer[b] :
          /\ attempts[m] = 0
          /\ handler[m] = "done"
          /\ \A c \in Bucket : m \in buffer[c] => b = c

\* What is buffered can be found: its bucket is the one the table holds, so
\* the sweeper and the shutdown reach it.
NothingForgotten ==
    \A m \in Message : \A b \in Bucket :
        m \in buffer[b] => bucketOf[KeyOf[m]] = b

\* A message that is buffered before the shutdown's flush is sent or at least
\* tried: the sweeper comes round, and the shutdown flushes what is left.
BufferedIsAttempted ==
    \A m \in Message :
        Buffered(m) /\ phase \in {"running", "stopping"} ~> attempts[m] = 1

=============================================================================
