# Verification of uDataPacketBroker

TLA+ models of the broker in `src/`, model-checked with TLC and, where the
argument carries over to every size of the system, proved with TLAPS.

## The system

uDataPacketBroker takes seismic data packets from publishers over gRPC, numbers
them, stores them in RocksDB for later requests and fans them out to
subscribers.  At this commit the subscriber side does not exist yet, and several
parts are not connected (see "State of the code").

| Component | State | Operations | Source |
|---|---|---|---|
| PublishService | server, `mKeepRunning`, `mServerStarted`, `mPublisherCount`; per call counters, last packet, response | `start`, `stop`, the `AsynchronousReader` constructor, `OnReadDone`, `OnDone` | `src/src/publishService.cpp` |
| Broker data path | three bounded queues, `mGlobalSequenceNumber`, metrics | `addPacketCallback`, `propagatePacket`, `publishPackets` | `src/src/broker.cpp` |
| Broker lifecycle | `mKeepRunning`, `mShutdownRequested`, `mFuturesMap` | `start`, `checkFuturesOkay`, `stop`, the compactor, truncator and propagator loops | `src/src/broker.cpp` |
| Process | `mStopRequested`, `mInterrupted`; the phases of `main()` | `main`, `handleMainThread`, `stop`, `signalHandler` | `src/src/main.cpp` |
| RocksDatabase | column families `packets` and `streams` (the registry), memory and disk | `open`, `write`, `compact`, `truncateOldest`, `flush`, `getGlobalSequenceNumber`, `query`, `queryAvailableStreams`, `getSizeInBytes` | `src/src/rocksDatabase.cpp` |
| IDataPacketStore | none | one-packet `write` and `query`, which forward | `src/src/dataPacketStore.cpp` |
| Utilities | none | `isValid`, key codec | `src/src/utilities.cpp` |
| MetricsSingleton | atomic counters, a gauge | increments, `updatePublishServiceUtilization` | `src/src/metricsSingleton.cpp` |
| Program options, logging, metrics export | options read, registered exporters, `OTEL_SERVICE_NAME` | `parseCommandLineOptions`, `parseIniFile`, `initialize`, `cleanup` | `src/src/programOptions.hpp`, `otelOptions.hpp`, `logger.hpp`, `metrics.hpp` |
| Option classes | configuration | setters and getters | the `*Options.cpp` files of `src/src` |

How they interact.  gRPC threads run one reader per open call; a reader calls
the broker's `addPacketCallback()`, which validates the packet and puts it on
the import queue under `mImportMutex`.  The propagator thread takes it off,
numbers it and puts it on the publish queue and the data store queue, under two
other mutexes.  A writer thread is to hand the latter to
`RocksDatabase::write()`.  The compactor and truncator threads call `compact()`
and `truncateOldest()` on the same database.  The main thread supervises the
threads through their futures and stops the broker, which stops the service,
clears the flags, flushes the store and joins the threads.

What is hard: threads that share the database without a lock; two column
families that reach the disk at different times; restart from a registry that
truncation and expiry shrink; queues at their limits; checks and updates of
atomics in two steps; a condition variable that is notified without its mutex;
futures that hold exceptions; `start()` and `stop()` on different threads.

What makes each component correct:

- RocksDatabase: the registry accounts for the packets; numbers are not reused;
  truncation removes the oldest; what was flushed survives.
- Data path: no packet is lost or duplicated silently, numbers are dense, both
  outgoing queues agree, a publisher's order is kept, queues are bounded.
- Lifecycle: a thread ends only when asked, stop ends, nothing outlives it.
- PublishService: the count that admits publishers is right, responses agree with
  what happened, a stopped service does not read.
- Key codec: keys are unique and ordered.
- Publish service and data path together: what a response tells a publisher
  agrees with what reached the import queue; after `stop()` nothing comes in.
- Startup: a failure leaves nothing behind and is reported while it can be; what is
  exported is what the file asks for.

### State of the code

The constructor of `Broker` needs subscribe service options, which
`BrokerOptions` cannot set (its setter is commented out); `Broker::start()` and
`stop()` are declared but only `BrokerImpl` has them; `main()` does not construct
a broker; `start()` launches neither `publishPackets()` nor
`writePacketsToDataStore()`, whose body is commented out; nothing calls
`PublishService::start()`.  The models take the components as they are written
and connect them the way the code's structure and comments say.  Where that adds
a thread that is not launched, it is a constant (`PublishThread`) or said below.

## Modules

| Module | Models | Extended by |
|---|---|---|
| `RocksDatabase` | the store, its callers as far as they decide what it sees | `MCRocksDatabase`, `RocksDatabaseProofs` |
| `StreamKeys` | the key codec: encode, decode, order | `KeyedStore`, `StreamKeysProofs` |
| `KeyedStore` | the store's tables down to their byte keys, and queries | `MCKeyedStore`, `KeyedStoreProofs` |
| `PacketStore` | what a packet store promises (abstract; instantiated by `KeyedStore`) | |
| `PacketFeed` | what the data path promises (abstract; instantiated by `PacketPipeline`) | |
| `PacketPipeline` | the data path of the broker | `MCPacketPipeline`, `PacketPipelineProofs` |
| `BrokerLifecycle` | main thread, start, supervision, stop, thread loops | `MCBrokerLifecycle`, `BrokerLifecycleProofs` |
| `PublishService` | the gRPC service and its readers | `MCPublishService`, `PublishServiceProofs` |
| `Ingest` | `PublishService` with `PacketPipeline` behind its callback, both instantiated | `MCIngest`, `IngestProofs` |
| `Startup` | `main()` as it is: options, exporters, failures | `MCStartup`, `StartupProofs` |

Definitions commented as faulty variants are plausible mistakes, each of which
makes TLC report the property it belongs to (`mutants` in `PROJECT.json`).

### RocksDatabase

`packets` and `registry` are what a read returns, `diskPackets` and
`diskRegistry` what remains if the process dies.  With the write-ahead log they
change together; `useWAL`, which never changes, says whether there is one; without it only a flush or a compaction moves a family to disk,
and RocksDB may flush either family by itself (`BackgroundFlush`).  Each RocksDB
call of a handler is a step: `write()` is `WriteBegin` (the batch and its
per-stream aggregates), one `WriteGet` per stream (read and merge), then
`WriteCommit` or `WriteFail`; `truncateOldest()` is `TruncateBegin` (snapshot
and cutoff), `TruncateCommit` or `TruncateFail`, and two compactions; `flush()`
takes one family after the other.  The broker's part is numbering (`Receive`),
the overflow of the store queue (`DropPending`) and resuming after a restart
(`Resume`).  Packets that were not written stay pending and are retried in any
combination.

Expiry: RocksDB drops whole files older than the retention.  The model lets a
compaction drop any subset of the expired packets, and of the registry entries
whose last receipt is expired, so it covers every file layout.  `SingleWriter`
says whether `write()` and `truncateOldest()` exclude each other: the code's
comment assumes it, nothing in the code enforces it.

Abstracted: byte layout of keys (see `KeyedStore`) and values, payloads, sizes, options that only
tune RocksDB.  64-bit overflow of sequence numbers is out of reach of any run.

### StreamKeys, KeyedStore and PacketStore

`StreamKeys` writes a byte as a number below `Base` and a string as a sequence
of bytes; widths, alphabet and `toupper` are constants.  `ToStreamKey`,
`ToPacketKey` and `FromStreamKey` are the functions of `utilities.cpp`;
`ToString` gives a stream's name as its four codes.  `KeyedStore` keeps the two
column families as functions from keys: `Write` (one packet), `TruncateOldest`
with its byte ranges, and `query()` as `QueryBegin`, a `QuerySeek` for each
identifier (a new iterator on the family as it is then), `QueryNext` for each
packet, `QueryBreak` at the end of the stream, `QueryReturn`.  Writes and
truncations are single steps here and may come between the steps of a query;
`RocksDatabase` has the steps inside them.

`PacketStore` is the store without keys: a set of packets by stream name, which
gains newer packets, loses the oldest, and answers queries in order.
`KeyedStore` implements it with `stored` the packets by name and `answer` the
responses once the query has returned.  `due` is the same in both: an observer
of what the query has to answer.  Expiry is not in these two modules: what
`store_keys` and `KeyedStoreProofs` show is shown of a store whose retention has
not run out for any packet; what expiry does to the registry is in `RocksDatabase`.

### PacketPipeline

`addPacketCallback()` is `Receive` (count, validate), `Enqueue` (under the
mutex) and `Count` (metrics after it).  `propagatePacket()` is `EnterLoop` (the
test of `mKeepRunning`; one more packet may be taken after the flag is cleared),
`Take` or `FindEmpty`, `FanOutPublish`, `FanOutStore`, one step for each critical
section, and `LeaveLoop`.  `stop()` is
`StopService`, `StopLoops`; callbacks under way go on after it.  A packet is its
publisher and its index among what the publisher sent; whether it is valid is an
input.

`PacketFeed` is the data path without queues of its own limits, locks or a
propagator: accepted packets wait in line, the oldest gets the next number for
subscribers and store alike, and packets are lost only at the old end of a queue.
`PacketPipeline` implements it when the packet in the propagator's hands counts
as the head of the line until it is on the publish queue, and as the newest of
the archive until it is on the store queue.  The one concession to the code is
that the packet in the propagator's hands survives an overflow of the import
queue that drops newer ones (`Kept`).

### BrokerLifecycle

`wait_for()` with a predicate is `TestPredicate`, `Block` and then `Timeout` or
`Wake`; the gap between the first two is where a notification without the mutex
is lost.  A thread may throw in any round.  A future is valid until `get()`
consumes it.  `checkFuturesOkay()` is one step per future, in the order of the
map.  The truncator's work is `TruncateChunk` any number of times and
`TruncateDone`; the store is abstracted to a number of chunks that can be purged.

### PublishService

The constructor of a reader is `Connect` (limit and token), `Register`
(`fetch_add`) and `StartReading` (gauge, then `mKeepRunning`); `OnReadDone` is
`PacketRead` or `ReadFailed`; `OnDone` is `OnDone` (`fetch_sub`) and `Leave`
(gauge).  `start()` and `stop()` are one step for each shared variable they
touch.  gRPC is external: it runs reactions of different calls concurrently,
refuses new calls once `Shutdown()` is called, cancels open ones at the deadline,
and `Shutdown()` and `Wait()` return when all calls are done.  `Orderly` says
whether `stop()` is called only when `start()` waits for the server.  `log`
records what became of each packet and `overlapped` whether another publisher
registered between a reader's look at the limit and its own registration; both
are read by properties only.

`BuildAndStart()` may return null (`BuildFails`), and `stop()` may destroy the
server before `Wait()` was called or has returned (`WaitCrashes`, next to
`WaitReturns`: the outcome is undefined).  Both use a server that is not there;
the process ends (`service = "crashed"`, after which nothing happens).

### Ingest

`Ingest` instantiates `PublishService` and `PacketPipeline` and ties them as the
broker's constructor and `stop()` do.  A packet that is read runs the callback in
the call's thread: `Call` enters it, `Import` puts the packet on the queue,
`Return` counts and lets the reader go on; `Reject` is the callback that throws
for an invalid packet.  While a callback runs its call has no other reaction.
`stop()` is the service's, step by step, then `StopLoops`.  The service starts
once and is stopped when it runs.  `base` and `entered` are observers.

### Startup

One action for each phase of `main()`: the command line, the two looks of
`parseIniFile()` at the file (`TestIniFile`, `ReadIniFile`), the environment,
the two exporters, the report of a failure and the cleanup after it, and the end.
An initialization file is reduced to what its sections make the parser do.  Making
the logger may fail before its exporter is registered or after ("early", "late");
making the metrics may fail before.  `TouchFiles` lets the files come and go between
any two steps; `iniGone` and `certificateGone` record that they were missing at some
time and are read by properties only.  Whether gRPC is compiled in is `withGRPC`.
`main()` makes no `Process`: the statement is commented out (`main.cpp:274`), the
blocks around it are empty, and so nothing after the exporters can fail.

## Runs

Passing runs:

| Run | Checks | Instance |
|---|---|---|
| `store` | `TypeOK`, `RegistryCoversLive`, `NumbersUniqueWithWAL`, `FlushedSurvives`, `TruncatesOldestFirst` | 2 streams and an unkeyable one, 3 numbers with the log and 2 without, 3 clock readings, retention 2, chunks of 1 and 2; 1,330,000 states |
| `store_keys` | `TypeOK`, `ListingExact`, `ImplementsPacketStore` | bytes `NUL`, `-`, `A`, `a`, codes of up to 2 bytes, 7 identifiers (two spellings of one stream, two that differ only in where a code ends, three without a key), numbers 3 to 5 across the carry from 3 to 4, 2 receipt times, queries of up to 2 identifiers; 157,000 states |
| `pipeline` | `TypeOK`, `QueuesBounded`, `NothingVanishes`, `NumbersDense`, `FanOutAgrees`, `PublisherOrder`, `OverflowCounted`, `ImportDrains`, `PropagatorStops`, `ImplementsFeed` | 2 publishers, 3 packets each, all queues of 2; 254,000 states |
| `lifecycle` | `TypeOK`, `NoThreadOutlivesBroker`, `ExitsOnlyOnStop`, `StopCompletes` | intervals from 2 to 11, 2 chunks; 130,000 states |
| `publish` | `TypeOK`, `StopPreventsReading`, `CountExact`, `ResponseTellsTruth`, `PurgedForStreak`, `LimitExceededOnlyByOverlap`, `StopCompletes` | 2 clients, limit of 1, at most 1 invalid in a row, 3 packets a call, any number of calls and restarts; 857,000 states |
| `ingest` | `TypeOK`, `ResumeExact`, `QuietAfterStop`, `StopCompletes` | 1 client with any number of calls, 5 packets in all, import queue of 1; 146,000 states |
| `startup` | `TypeOK`, `FailureLeavesNothing`, `RunsAsConfigured`, `NamedBeforeExport`, `ReportsThroughProvider` | every file the parser tells apart (576), with and without gRPC; 198,000 states |

The run `store` starts with the write-ahead log or without it.  The registry's
cover, the numbers and the order of truncation are promised only with it
(`store_no_wal_crash` shows why); `FlushedSurvives` holds either way.

Bounds.  Two streams and three numbers are the least with which an entry can be
merged, advanced and reaped while another survives and a gap lies between; three
clock readings with retention 2 let data expire while later data is live.
Queues of two with three packets from each of two publishers overflow, all three
of them, with several packets popped; two clients against a limit of one
meet at the limit.  In `ingest` the one client is alone in the two parts, whose
own runs have two; five packets allow two calls, with accepted packets that
overflow the queue and invalid ones up to the purge in either.  The counters that grow are bounded by `MaxSeq`, `MaxTime`,
`MaxPackets`, `MaxChunks`, `LastNumber` and `MaxAsked`; nothing else is.  Streams are
interchangeable and symmetric; so are clients in the runs without liveness, and
runs with liveness use no symmetry.  Deadlock is checked where the system never stops by itself; the
pipeline, the lifecycle, the publish service after a crash, and `main()` do stop.

Fairness.  Threads are scheduled (weak fairness of each thread's steps), a call
of the store returns, an interval of `wait_for` ends, the deadline of
`Shutdown()` passes.  Nothing is promised of signals, exceptions, publishers or
new packets.
In `BrokerLifecycle` the truncator may purge chunk after chunk
while the store is filled, but the store is not filled after `mKeepRunning` is
cleared; `QuietAfterStop` of the run `ingest` is why.

Runs that disagree with a comment or a document of the repository:

| Run | Property | What the code does |
|---|---|---|
| `store_two_writers` | `RegistryCoversLive` | `truncateOldest()` runs on another thread than `write()`; stale entries are written back |
| `store_no_wal_crash` | `SequenceNumbersUnique` | a crash between the flushes of the two families makes the broker reuse numbers |
| `publish_stop_race` | `StopPreventsReading` | `stop()` before the server is marked as started has no effect |
| `publish_shutdown_response` | `ShutdownNamesLast` | a reader that sees the shutdown after a packet (`publishService.cpp:199-208`) sends an empty response, where `publish_response.proto:11-14` offers the last packet to clients of a broker that shuts down |
| `publish_purge_bound` | `PurgedAtMaximum` | `>` at `publishService.cpp:175` lets one more invalid packet pass than `publishServiceOptions.hpp:51-52` says |

The passing run `publish` takes no side in the last two: `ResponseTellsTruth` says
that what a response tells is true, and that a call which ends with OK tells it;
`PurgedForStreak` allows the purge at the maximum (the document) and just past it
(the code), and nothing later or earlier.

As long as nothing makes `write()` and `truncateOldest()` exclude each other, the
guarantees of `store` hold only for a broker that does not truncate while it
writes.

### Other observations

Met while modelling; the models do what the code does, and no run is needed to
show them:

- `checkFuturesOkay()` starts from `isOkay{false}` and never raises it
  (`broker.cpp:122`, under "True indicates the processes are doing alright",
  `broker.cpp:119`), so the main loop stops a healthy broker after one round.  The
  behaviours of `lifecycle` are therefore one round of supervision followed by
  `stop()`, at every possible moment of the threads.
- `main()` does not make its `Process` (`main.cpp:274`).  The statement as it stands
  in the comment would not compile (an lvalue for `ProgramOptions &&`), would move
  the logger that its `catch` logs through, and would not notice a store that cannot
  be opened: `RocksDatabase::open()` only logs that (`rocksDatabase.cpp:179-186`) and
  the constructor of `Process` does not ask (`main.cpp:48-61`).
- Making the logger registers the provider of logs and then makes the sink and the
  logger (`logger.hpp:71-80`, `124-131`); if that fails `main()` returns without
  `Logger::cleanup()` (`main.cpp:247-253`).  `FailureLeavesNothing` speaks of the
  failures after the logger was made.
- `BuildAndStart()` may return null and `start()` uses it (`publishService.cpp:391`);
  `stop()` may destroy the server under `Wait()` (`publishService.cpp:414`).  The
  process ends in the model (`service = "crashed"`); `StopPreventsReading` and
  `StopCompletes` are silent about such a process.
- `stop()` runs in the destructor and calls `get()` on every future
  (`broker.cpp:453`); if a thread threw, `get()` throws and the process aborts
  with the remaining threads not waited for (`main = "aborted"`).
- `stop()` sets its flag and notifies without the mutex the sleepers wait with
  (`broker.cpp:432`): a sleeper between its test and its sleep misses the
  notification, and `stop()` waits out its interval.  It still ends
  (`StopCompletes`).
- Truncation and expiry remove registry entries, so after a restart numbering may
  resume below "the global sequence number that was last written prior to
  shutdown" (`dataPacketStore.hpp:40`; `src/testing/rocksDatabase.cpp:172` expects
  0 after a purge).  No stored packet bears such a number
  (`NumbersUniqueWithWAL`), but a consumer may have seen it before.
- What is on the import queue when the propagator is told to end was acknowledged
  and is lost with the process (`broker.cpp:325`).
- The limit of publishers can be exceeded by calls admitted at the same time
  (`publishService.cpp:93`), and by no others (`LimitExceededOnlyByOverlap`).
- An initialization file that vanishes between the two looks at it yields default
  options, a store not among them, and no message (`programOptions.hpp:149`).
- Without gRPC in the build, a file without an HTTP section for logs or metrics is
  refused although it asks for no export (`otelOptions.hpp:136`, `204`).
- The default summary interval, 15 minutes, is read as 900 minutes
  (`programOptions.hpp:165`); the default port of a collector is 4218, its
  defaults elsewhere 4317 and 4318 (`otelOptions.hpp:57`).
- `main()` cleans up the exporters when it fails, not when it succeeds
  (`main.cpp:300`).
- `logger.hpp:109` looks again whether the certificate exists, `metrics.hpp:79`
  does not.
- `addPacketCallback()` counts a packet it has queued as invalid
  (`broker.cpp:250`); the counter of queued packets is never incremented.
- `truncateOldest()` returns a width of sequence numbers
  (`rocksDatabase.cpp:493`), more than the packets purged when numbers are missing.
- The one-packet `write()` returns true when the packet was not written
  (`dataPacketStore.cpp:49`).
- The utilization gauge is updated in a second step after the count
  (`publishService.cpp:134`) and may stay stale until the next report.

## Proofs

For every value of the constants that satisfies the named assumption of the
module:

| Theorem | Statement | Inductive invariant |
|---|---|---|
| `StoreTypes` | `Spec => []TypeOK` of `RocksDatabase` | itself |
| `RegistryCorrect` | `RegistryCoversLive` (it speaks of `useWAL`), given `SingleWriter` | `CoverInv` |
| `NumbersNotReused` | `NumbersUniqueWithWAL`, under the same condition | `NumberInv` with `CoverInv` |
| `TruncationOldestFirst` | the action property `TruncatesOldestFirst`, under the same condition | `CutoffInv` with `CoverInv` and `NumberInv` |
| `FlushDurable` | `FlushedSurvives`, given `SingleWriter`, with or without the log | `FlushInv` |
| `KeysStandForNames` | identifiers with keys have one key exactly when they have one name | none: `PaddedExact`, `ConcatCancel` |
| `KeysOrderNumbers` | the packet keys of a stream are ordered as their numbers | none: `LeadingFacts`, `SmallerBefore` |
| `NumberReadBack`, `NameReadBack` | decoding a packet's number, or a stream key, gives what was encoded | none: `LeadingFacts`, `SlotReadBack` |
| `KeyedStoreTypes`, `ListingIsExact` | `TypeOK`, `ListingExact` of `KeyedStore` | `StoreInv` |
| `KeyedStoreImplements` | the refinement `ImplementsPacketStore` | `QueryInv` with `StoreInv` |
| `PipelineTypes`, `LimitsHold`, `PacketsAccountedFor`, `QueuesDense`, `FanOutConsistent` | `TypeOK`, `QueuesBounded`, `NothingVanishes`, `NumbersDense`, `FanOutAgrees` | `PipelineInv` |
| `OrderKept` | `PublisherOrder` | `OrderInv` with `TypeOK` |
| `OverflowReported` | `OverflowCounted` | `OverflowInv` with `TypeOK` |
| `PipelineImplementsFeed` | the refinement `ImplementsFeed` | `OrderInv` with `TypeOK` |
| `ResponsesTruthful`, `PurgeBounds` | `ResponseTellsTruth`, `PurgedForStreak` | `SessionInv` |
| `PublishServiceTypes`, `PlacesAccountedFor`, `StoppedMeansStopped` | `TypeOK`, `CountExact`, `StopPreventsReading`, given `Orderly` | `CountInv` with `SessionInv` |
| `LimitExact` | `LimitExceededOnlyByOverlap`, given `Orderly` | `LimitInv` with `CountInv` |
| `PartsBehave` | `Ingest` implements `PublishService` and `PacketPipeline` | `PartsInv` |
| `IngestTypes`, `NothingComesAfterStop`, `ResumeIsExact` | `TypeOK`, `QuietAfterStop`, `ResumeExact` of `Ingest` | `JointInv` with `PartsInv` |
| `LifecycleTypes`, `ThreadsJoined`, `NoSilentExit` | `TypeOK`, `NoThreadOutlivesBroker`, `ExitsOnlyOnStop` | `LifecycleInv` |
| `TypeCorrect`, `FailureCleanup`, `Configured`, `NameFirst`, `ReportFirst` | `TypeOK`, `FailureLeavesNothing`, `RunsAsConfigured`, `NamedBeforeExport`, `ReportsThroughProvider` | `IInv` of `StartupProofs` |

Every invariant and every action property of a passing run is a theorem.

### The assumptions

Each module names what it assumes of its constants.  `KeyAssumption` is what the
codec relies on in `toupper` and the alphabet: it changes neither the null byte
nor the dash, and makes no null byte.  `PowerAssumption` spells out `Base^i` for
the places of a number, because the provers know nothing of exponentiation; TLC
evaluates it, and it is true of every base and width.  `KeyedStoreAssumption`
says that the numbers handed out, and one more, fit in the bytes of a key.
`IngestAssumption` is the conjunction of what the two parts assume.  `SingleWriter`
is a hypothesis of the theorems that need it, and `useWAL` a condition in the
properties that do; the runs without them show what fails (see Runs).

### The arguments

`KeysStandForNames` rests on two facts: padding is undone by the first null byte,
which no code contains, and strings of equal lengths joined are equal only part
by part.

`RegistryCoversLive` is not inductive: it says nothing about the disk, from which
a restart reads, nor about the registry entries that a `write()` or a truncation
under way has already read.  `CoverInv` adds that disk and memory agree (the
write-ahead log), that the disk's registry covers the disk's packets, that merged
entries cover both the batch and what is stored, that the snapshot still covers
what is stored, and that the two handlers exclude each other.  `NumberInv` adds
that all numbers in use are at most the counter, which a restart reads from a
registry that covers the live packets.

A truncation deletes what its snapshot told it to, some steps later; `CutoffInv`
says that no entry of the snapshot begins more than `purged` below the cutoff.
With `CoverInv` a packet below the cutoff has a number in that window, and with
`NumberInv` there are no more such packets than numbers.  `FlushInv` follows what a
completed flush covered through everything after it: such a packet is also visible
(`FlushedVisible`), an entry that a `write()` is merging is no narrower than the
stored one (`MergedWider`), and a truncation's snapshot is still the registry
(`SnapshotCurrent`), so that neither replaces an entry by one that forgets it.

The order of keys and the decoding of numbers are facts about digits, proved by the
least counterexample (`LeastNumber`) rather than by induction: `Leading(n, i)` is
the number that the first `i` digits of `n` make, and two numbers differ first at
the digit where their leading parts do.

`StoreInv` says that every packet and every entry is under its own key, that an
entry covers the packets of its stream, and that the newest packet an entry speaks
of is there (`NewestKept`).  The last part is what makes the listing exact: an entry
is dropped when its greatest number is below the cutoff, and that is exactly when
`DeleteRange` has removed the last packet.  That a range of keys removes no packet
of another stream is `RangeOfStream`, from `OtherPrefix`: between two keys with the
same first part there are only keys with that part.

`QueryInv` is the simulation behind `KeyedStoreImplements`.  What is due is the
responses so far followed by the packets of the stream that the iterator has yet to
come to, by number; and no key before the one the iterator was opened at is among
them.  `QueryNext` moves the first of these to the responses (`FirstUnread`: the
least key is the stream's least number), and when `QueryBreak` sees a key of another
stream, `OtherPrefix` shows that none of the stream is left.  `SortExists` and
`SortUnique` show that the order `PacketStore` chooses exists and is the only one.
A write adds a packet whose number is above all others and whose key is new; a
truncation removes the packets up to the greatest number below its cutoff.

`FanOutAgrees` needs `NumbersDense` (a new number meets no older packet) and
`InFlight`: the packet in the propagator's hands is the newest of the publish
queue.  `OrderInv` carries the order through the three places where a packet can be,
and says that none of them holds a packet which its publisher has still to put on the
import queue.  `OverflowInv` counts what the callbacks between push and metrics have
yet to report as a set of pairs, whose cardinality needs no sum over publishers.
`PipelineImplementsFeed` maps each critical section to a step of `PacketFeed` or to
none.  `SessionInv` ties a reader's counters to the history of its packets; it says what
the code does exactly (purged with the first packet past the maximum, the truth in the
response or none), and the properties follow.
`CountInv` ties the count to the registered readers and says, for every point of
`start()` and `stop()`, whether readers can exist; the resets to zero are right
because none do.

`IngestProofs` instantiates the proofs of the two parts.  Every step of `Ingest` is a
step, or no step, of each (`PartsBehave`), so `PartsInv`, their invariants, holds of
the composition.  `JointInv` relates them: a callback runs only while its call reads,
the callback's packet is the next one of the call, the log of a call agrees with what
entered the import queue, and the loops end after the service.

`LimitExceededOnlyByOverlap` says nothing of a reader that has passed the check
and is not counted yet; `LimitInv` adds that, as long as nobody registered since
its check, there is a place left for it.  `LifecycleInv` adds how far `stop()` has
come in its list of futures and which flags are set at which of its steps.  In
`StartupProofs`, `PhasesInv` says what cannot be set up yet in each phase,
`OptionsInv` that options with a store come from the file and that `main()` goes on
without one only when the file has been missing, `GoneInv` that a file absent now is
recorded as having been missing, and `ExportersInv` that the exporters made so far
are the ones the file asks for.

Only model-checked: the liveness properties `ImportDrains`, `PropagatorStops`,
`StopCompletes` (of three modules).  Liveness under fairness is out of the
prover's reach.

`StoreInv`, `QueryInv`, `PartsInv` and `JointInv` were checked by TLC on the instances
of their runs before they were proved.

## Not modelled

- `getSizeInBytes()`: it lists files; the model truncates or not, whatever the
  size, and a listing that throws ends the truncator thread like any exception.
- `isValid()` beyond the identifier: an input of the models.
- Read errors of RocksDB.
- Option classes: setters with range checks, whose values are constants of the
  models.
- The log sink, verbosity, version string, resets of metrics for tests: output.
- The subscribe service and the writer thread: not written yet.

## Plan

1. Done: `RocksDatabase`, `StreamKeys` and `KeyedStore` with the abstract
   `PacketStore`, `PacketPipeline` with the abstract `PacketFeed`,
   `BrokerLifecycle`, `PublishService`, their composition `Ingest`, `Startup`;
   every safety property of theirs proved.
2. Proofs: which of the store's guarantees are left without `SingleWriter`; the
   theorems of the two parts restated for the broker through `PartsBehave`; what a
   round of the propagator does as a step towards `ImportDrains`.
3. When the writer thread and the subscribe service are written: the writer
   between `PacketPipeline` and `RocksDatabase` with the final drain before the
   flush, and the subscribers' side of `PacketFeed`.
