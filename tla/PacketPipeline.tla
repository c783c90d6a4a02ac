--------------------------- MODULE PacketPipeline ---------------------------
(***************************************************************************)
(* The data path of src/src/broker.cpp.  gRPC reader threads, one per       *)
(* connected publisher, hand received packets to addPacketCallback(), which *)
(* validates them and puts them on the import queue.  One thread,           *)
(* propagatePacket(), takes them off, gives each the next global sequence   *)
(* number and fans it out to the publish queue and the data store queue.    *)
(* All queues are bounded by dropping from the front.  stop() ends it.      *)
(***************************************************************************)
EXTENDS Integers, Sequences

CONSTANTS
    Publishers,      \* the publishers' reader threads
    MaxImport,       \* mMaximumImportQueueSize
    MaxPublish,      \* mMaximumPublishQueueStoreSize
    MaxStore,        \* mMaximumDataStoreQueueSize
    FirstNumber,     \* getGlobalSequenceNumber() at startup
    PublishThread,   \* TRUE: a publishPackets() thread runs (start() launches none)
    MaxPackets       \* bound: packets each publisher sends

ASSUME PipelineAssumption ==
    /\ MaxImport \in Nat \ {0} /\ MaxPublish \in Nat \ {0} /\ MaxStore \in Nat \ {0}
    /\ FirstNumber \in Nat
    /\ PublishThread \in BOOLEAN
    /\ MaxPackets \in Nat

VARIABLES
    reader,         \* where each reader is: "idle", "enqueue", "count"
    sent,           \* packets each publisher has sent; the one in hand is the last
    nPopped,        \* each reader's local nPopped
    importQueue,    \* mImportQueue
    propagator,     \* where propagatePacket() is: "loop", "poll", "publish",
                    \* "store", "done"
    packet,         \* its local packet, <<>> or a sequence of one
    counter,        \* mGlobalSequenceNumber
    publishQueue,   \* mPublishQueue
    storeQueue,     \* mDataPacketStoreQueue
    metrics,        \* the MetricsSingleton counters
    accepting,      \* the publish service is up
    mKeepRunning,
    \* Observers, read by no action:
    accepted,       \* packets put on the import queue
    dropped         \* packets popped from the import queue by overflow

readerVars == <<reader, sent, nPopped>>
propVars   == <<propagator, packet, counter>>
queueVars  == <<importQueue, publishQueue, storeQueue>>
flags      == <<accepting, mKeepRunning>>
observers  == <<accepted, dropped>>
vars == <<readerVars, propVars, queueVars, metrics, flags, observers>>

----------------------------------------------------------------------------
\* A packet as its publisher sent it: the n-th one.
Packet == [from : Publishers, n : Nat]
\* A packet with the broker's number, which replaces the publisher's.
Tagged == [from : Publishers, n : Nat, seq : Nat]

\* Faulty variant: the number is never set.
TagNothing(p, s) == p

Tag(p, s) == [from |-> p.from, n |-> p.n, seq |-> s]

\* Faulty variant: pops the newest.
KeepFirst(q, n) == IF Len(q) =< n THEN q ELSE SubSeq(q, 1, n)

\* Pop from the front until at most n are left.
KeepLast(q, n) == IF Len(q) =< n THEN q ELSE SubSeq(q, Len(q) - n + 1, Len(q))

\* addPacketCallback() makes room only once the queue is over its maximum.
ImportRoom(q) == IF Len(q) > MaxImport THEN KeepLast(q, MaxImport - 1) ELSE q

\* propagatePacket() makes room first, then pushes.
Push(q, p, max) == Append(KeepLast(q, max - 1), p)

\* Faulty variant: makes room only once the queue is over its maximum.
PushPublishLate(q, p) == Push(q, p, MaxPublish + 1)

PushPublish(q, p) == Push(q, p, MaxPublish)
PushStore(q, p)   == Push(q, p, MaxStore)

----------------------------------------------------------------------------
Init ==
    /\ reader = [p \in Publishers |-> "idle"]
    /\ sent = [p \in Publishers |-> 0]
    /\ nPopped = [p \in Publishers |-> 0]
    /\ importQueue = <<>> /\ publishQueue = <<>> /\ storeQueue = <<>>
    /\ propagator = "loop" /\ packet = <<>> /\ counter = FirstNumber
    /\ metrics = [total |-> 0, invalid |-> 0, added |-> 0, popped |-> 0]
    /\ accepting = TRUE /\ mKeepRunning = TRUE
    /\ accepted = 0 /\ dropped = 0

\* The increments of MetricsSingleton; nothing increments "added".
Increment(total, invalid, popped) ==
    metrics' = [total   |-> metrics.total + total,
                invalid |-> metrics.invalid + invalid,
                added   |-> metrics.added,
                popped  |-> metrics.popped + popped]

(***************************************************************************)
(* addPacketCallback().  An invalid packet is counted and thrown out.       *)
(***************************************************************************)
Receive(p, valid) ==
    /\ accepting /\ reader[p] = "idle" /\ sent[p] < MaxPackets
    /\ sent' = [sent EXCEPT ![p] = @ + 1]
    /\ reader' = [reader EXCEPT ![p] = IF valid THEN "enqueue" ELSE "idle"]
    /\ Increment(1, IF valid THEN 0 ELSE 1, 0)
    /\ UNCHANGED <<nPopped, propVars, queueVars, flags, accepted, dropped>>

\* Faulty variant: tries again after the packet is on the queue.
EnqueueAgain(p) ==
    /\ reader[p] = "enqueue"
    /\ LET room == ImportRoom(importQueue)
           popped == Len(importQueue) - Len(room)
       IN  /\ importQueue' = Append(room, [from |-> p, n |-> sent[p]])
           /\ nPopped' = [nPopped EXCEPT ![p] = popped]
           /\ dropped' = dropped + popped
    /\ accepted' = accepted + 1
    /\ \E again \in BOOLEAN :
           reader' = [reader EXCEPT ![p] = IF again THEN "enqueue" ELSE "count"]
    /\ UNCHANGED <<sent, propVars, publishQueue, storeQueue, metrics, flags>>

\* Under mImportMutex.
Enqueue(p) ==
    /\ reader[p] = "enqueue"
    /\ LET room == ImportRoom(importQueue)
           popped == Len(importQueue) - Len(room)
       IN  /\ importQueue' = Append(room, [from |-> p, n |-> sent[p]])
           /\ nPopped' = [nPopped EXCEPT ![p] = popped]
           /\ dropped' = dropped + popped
    /\ accepted' = accepted + 1
    /\ reader' = [reader EXCEPT ![p] = "count"]
    /\ UNCHANGED <<sent, propVars, publishQueue, storeQueue, metrics, flags>>

\* Faulty variant: an overflow counts as one packet.
CountOnce(p) ==
    /\ reader[p] = "count"
    /\ Increment(0, 1, IF nPopped[p] > 0 THEN 1 ELSE 0)
    /\ nPopped' = [nPopped EXCEPT ![p] = 0]
    /\ reader' = [reader EXCEPT ![p] = "idle"]
    /\ UNCHANGED <<sent, propVars, queueVars, flags, observers>>

\* The metrics, after the mutex is released.  The last line of the callback
\* counts the packet it has just added as an invalid one.
Count(p) ==
    /\ reader[p] = "count"
    /\ Increment(0, 1, nPopped[p])
    /\ nPopped' = [nPopped EXCEPT ![p] = 0]
    /\ reader' = [reader EXCEPT ![p] = "idle"]
    /\ UNCHANGED <<sent, propVars, queueVars, flags, observers>>

(***************************************************************************)
(* propagatePacket(): one iteration is the test of the loop and three       *)
(* critical sections, or one when there is no packet.                       *)
(***************************************************************************)
EnterLoop ==
    /\ propagator = "loop" /\ mKeepRunning
    /\ propagator' = "poll"
    /\ UNCHANGED <<readerVars, packet, counter, queueVars, metrics, flags, observers>>

\* Nothing to do: sleeps.
FindEmpty ==
    /\ propagator = "poll" /\ importQueue = <<>>
    /\ propagator' = "loop"
    /\ UNCHANGED <<readerVars, packet, counter, queueVars, metrics, flags, observers>>

\* Faulty variant: front() without pop().
TakeWithoutPop ==
    /\ propagator = "poll" /\ importQueue # <<>>
    /\ packet' = <<Head(importQueue)>>
    /\ propagator' = "publish"
    /\ UNCHANGED <<readerVars, counter, queueVars, metrics, flags, observers>>

\* Faulty variant: the import queue is a stack.
TakeNewest ==
    /\ propagator = "poll" /\ importQueue # <<>>
    /\ packet' = <<importQueue[Len(importQueue)]>>
    /\ importQueue' = SubSeq(importQueue, 1, Len(importQueue) - 1)
    /\ propagator' = "publish"
    /\ UNCHANGED <<readerVars, counter, publishQueue, storeQueue, metrics, flags, observers>>

Take ==
    /\ propagator = "poll" /\ importQueue # <<>>
    /\ packet' = <<Head(importQueue)>>
    /\ importQueue' = Tail(importQueue)
    /\ propagator' = "publish"
    /\ UNCHANGED <<readerVars, counter, publishQueue, storeQueue, metrics, flags, observers>>

FanOutPublish ==
    /\ propagator = "publish"
    /\ counter' = counter + 1
    /\ packet' = <<Tag(packet[1], counter + 1)>>
    /\ publishQueue' = PushPublish(publishQueue, Tag(packet[1], counter + 1))
    /\ propagator' = "store"
    /\ UNCHANGED <<readerVars, importQueue, storeQueue, metrics, flags, observers>>

\* Faulty variant: the packet was moved into the publish queue.
FanOutMoved ==
    /\ propagator = "store"
    /\ storeQueue' = PushStore(storeQueue, [packet[1] EXCEPT !.n = 0])
    /\ packet' = <<>>
    /\ propagator' = "loop"
    /\ UNCHANGED <<readerVars, counter, importQueue, publishQueue, metrics, flags, observers>>

FanOutStore ==
    /\ propagator = "store"
    /\ storeQueue' = PushStore(storeQueue, packet[1])
    /\ packet' = <<>>
    /\ propagator' = "loop"
    /\ UNCHANGED <<readerVars, counter, importQueue, publishQueue, metrics, flags, observers>>

\* Faulty variant: leaves when there is nothing to do.
LeaveLoopWhenIdle ==
    /\ propagator = "loop" /\ (~mKeepRunning \/ importQueue = <<>>)
    /\ propagator' = "done"
    /\ UNCHANGED <<readerVars, packet, counter, queueVars, metrics, flags, observers>>

\* Faulty variant: waits for a queue that nobody empties any more.
LeaveLoopDrained ==
    /\ propagator = "loop" /\ ~mKeepRunning /\ importQueue = <<>>
    /\ propagator' = "done"
    /\ UNCHANGED <<readerVars, packet, counter, queueVars, metrics, flags, observers>>

LeaveLoop ==
    /\ propagator = "loop" /\ ~mKeepRunning
    /\ propagator' = "done"
    /\ UNCHANGED <<readerVars, packet, counter, queueVars, metrics, flags, observers>>

\* publishPackets(): takes a packet for the subscription manager.
Publish ==
    /\ PublishThread /\ mKeepRunning
    /\ publishQueue # <<>>
    /\ publishQueue' = Tail(publishQueue)
    /\ UNCHANGED <<readerVars, propVars, importQueue, storeQueue, metrics, flags, observers>>

(***************************************************************************)
(* stop(): the publish service first, then the loops.  A callback that is   *)
(* under way goes on.                                                       *)
(***************************************************************************)
StopService ==
    /\ accepting
    /\ accepting' = FALSE
    /\ UNCHANGED <<readerVars, propVars, queueVars, metrics, mKeepRunning, observers>>

StopLoops ==
    /\ ~accepting /\ mKeepRunning
    /\ mKeepRunning' = FALSE
    /\ UNCHANGED <<readerVars, propVars, queueVars, metrics, accepting, observers>>

----------------------------------------------------------------------------
Propagate == EnterLoop \/ FindEmpty \/ Take \/ FanOutPublish \/ FanOutStore \/ LeaveLoop

Next ==
    \/ \E p \in Publishers : \/ \E valid \in BOOLEAN : Receive(p, valid)
                             \/ Enqueue(p)
                             \/ Count(p)
    \/ Propagate
    \/ Publish
    \/ StopService \/ StopLoops

Spec == Init /\ [][Next]_vars

\* The propagator polls and a callback never blocks for long: both are threads
\* the operating system schedules.
FairSpec ==
    /\ Spec
    /\ WF_vars(Propagate)
    /\ \A p \in Publishers : WF_vars(Enqueue(p)) /\ WF_vars(Count(p))

----------------------------------------------------------------------------
\* Types.
TypeOK ==
    /\ reader \in [Publishers -> {"idle", "enqueue", "count"}]
    /\ sent \in [Publishers -> Nat] /\ nPopped \in [Publishers -> Nat]
    /\ importQueue \in Seq(Packet)
    /\ publishQueue \in Seq(Tagged) /\ storeQueue \in Seq(Tagged)
    /\ propagator \in {"loop", "poll", "publish", "store", "done"}
    /\ packet \in Seq(Packet \cup Tagged)
    /\ Len(packet) = IF propagator \in {"publish", "store"} THEN 1 ELSE 0
    /\ propagator = "publish" => packet[1] \in Packet
    /\ propagator = "store" => packet[1] \in Tagged
    /\ counter \in Nat
    /\ metrics \in [total : Nat, invalid : Nat, added : Nat, popped : Nat]
    /\ accepting \in BOOLEAN /\ mKeepRunning \in BOOLEAN
    /\ accepted \in Nat /\ dropped \in Nat

\* However many readers push at once and however slow the consumers are, the
\* queues stay within their limits; the import queue, checked with > before the
\* push, within one more than its maximum.
QueuesBounded ==
    /\ Len(importQueue) =< MaxImport + 1
    /\ Len(publishQueue) =< MaxPublish
    /\ Len(storeQueue) =< MaxStore

\* No packet is lost or duplicated on the way in: each accepted packet is on
\* the import queue, was dropped from it by overflow, is in the propagator's
\* hands or has a global sequence number.
NothingVanishes ==
    accepted = Len(importQueue) + dropped + (counter - FirstNumber)
               + (IF propagator = "publish" THEN 1 ELSE 0)

\* The queue holds consecutive sequence numbers that end with last.
Dense(q, last) == \A i \in 1..Len(q) : q[i].seq = last - (Len(q) - i)

\* Both outgoing queues hold consecutive global sequence numbers up to the last
\* one assigned (the store queue lags by the packet being fanned out): overflow
\* drops only old packets and leaves no gap behind it.
NumbersDense ==
    /\ Dense(publishQueue, counter)
    /\ Dense(storeQueue, IF propagator = "store" THEN counter - 1 ELSE counter)

\* A subscriber that got a packet live and asks the store for the same sequence
\* number gets the same packet: the two queues agree wherever both have it.
FanOutAgrees ==
    \A i \in 1..Len(publishQueue), j \in 1..Len(storeQueue) :
        publishQueue[i].seq = storeQueue[j].seq => publishQueue[i] = storeQueue[j]

\* The packets from the oldest still in the store queue to the newest received.
Line == storeQueue \o packet \o importQueue

\* Packets of one publisher keep the order it sent them in, through concurrent
\* readers, overflow and propagation.
PublisherOrder ==
    \A i, j \in 1..Len(Line) :
        (i < j /\ Line[i].from = Line[j].from) => Line[i].n < Line[j].n

\* The data path implements the abstract feed: the packet in the propagator's
\* hands is the next to be numbered, or the newest of the archive.
InHand(where) == IF propagator = where THEN packet ELSE <<>>

Feed == INSTANCE PacketFeed WITH
    waiting <- InHand("publish") \o importQueue,
    number  <- counter,
    live    <- publishQueue,
    archive <- storeQueue \o InHand("store")

\* Concurrent callbacks, overflow of three queues and the three critical sections
\* of the propagator amount to one line of packets, numbered once and in order.
ImplementsFeed == Feed!Spec

\* The overflow metric misses no popped packet, except those of callbacks that
\* have yet to report theirs.
OverflowCounted ==
    (\A p \in Publishers : reader[p] # "count") => metrics.popped = dropped

\* While the broker runs, a packet does not stay on the import queue for ever:
\* it is propagated or dropped.
ImportDrains ==
    \A p \in Publishers, n \in 1..MaxPackets :
        LET queued == \E i \in 1..Len(importQueue) :
                          importQueue[i] = [from |-> p, n |-> n]
        IN  queued ~> (~queued \/ ~mKeepRunning)

\* Once stop() has cleared mKeepRunning the propagator ends, with the packet it
\* holds numbered and on both queues.
PropagatorStops == ~mKeepRunning ~> (propagator = "done" /\ packet = <<>>)

=============================================================================
