--------------------------- MODULE RocksDatabase ---------------------------
(***************************************************************************)
(* The packet store of src/src/rocksDatabase.cpp: a RocksDB database with   *)
(* two column families.  "packets" maps (stream key, sequence number) to a  *)
(* received packet; "streams" is the registry, one entry per stream with    *)
(* the lowest and the highest sequence number and the last receipt time.    *)
(* The registry is all that getGlobalSequenceNumber() and truncateOldest()  *)
(* look at, so everything rests on it describing the packets.               *)
(*                                                                         *)
(* The callers are in the model as far as they decide what the store sees:  *)
(* the broker numbers packets and hands them to write(), its monitor        *)
(* threads call compact() and truncateOldest(), shutdown calls flush().     *)
(* Every RocksDB call of a handler is a step of its own, so calls of        *)
(* different threads interleave between them.                               *)
(***************************************************************************)
EXTENDS Integers, FiniteSets

CONSTANTS
    StreamKeys,     \* the stream identifiers toStreamKey() can encode
    Unkeyable,      \* identifiers it refuses (a component is too long)
    Absent,         \* no registry entry
    Retention,      \* RocksDatabaseOptions::getRetention()
    WALSettings,    \* the values useWAL may have
    SingleWriter,   \* TRUE: write() and truncateOldest() exclude each other
    ChunkSizes,     \* the values truncateOldest() is called with
    MaxSeq,         \* bound: sequence numbers handed out, with and without the WAL
    MaxTime         \* bound: clock readings

ASSUME StoreAssumption ==
    /\ Absent \notin [min : Nat, max : Nat, last : Nat]
    /\ StreamKeys \cap Unkeyable = {}
    /\ Retention \in Nat \ {0}
    /\ WALSettings \subseteq BOOLEAN /\ SingleWriter \in BOOLEAN
    /\ ChunkSizes \subseteq Nat
    /\ MaxSeq \in [BOOLEAN -> Nat] /\ MaxTime \in Nat

VARIABLES
    useWAL,        \* RocksDatabaseOptions::useWriteAheadLog(), never changes
    phase,         \* "closed", "failed" (mInitialized is false), "opened", "serving"
    packets,       \* what a read of the packets family returns
    registry,      \* what a read of the streams family returns
    diskPackets,   \* what the packets family holds if the process dies now
    diskRegistry,  \* what the streams family holds if the process dies now
    counter,       \* the broker's mGlobalSequenceNumber
    pending,       \* numbered packets the caller has yet to write
    batch,         \* the argument of the write() in progress, {} when there is none
    merged,        \* its merged registry entries so far
    truncating,    \* where truncateOldest() is: "no", "commit", "packets", "streams"
    snapshot,      \* the registry entries truncateOldest() read
    cutoff,        \* its cutoff and
    purged,        \* what it will return
    compacting,    \* compact() is between its two CompactRange calls
    flushing,      \* flush() is between its two column families
    now,           \* the clock
    \* Observer, read by no action:
    flushed        \* stored packets that a completed flush() covered

dbVars     == <<packets, registry, diskPackets, diskRegistry>>
callerVars == <<counter, pending>>
writeVars  == <<batch, merged>>
truncVars  == <<truncating, snapshot, cutoff, purged>>
monitor    == <<compacting, flushing>>
vars == <<useWAL, phase, dbVars, callerVars, writeVars, truncVars, monitor, now, flushed>>

----------------------------------------------------------------------------
Packet   == [key : StreamKeys \cup Unkeyable, seq : Nat, recv : Nat]
\* A registry value: min_seq, max_seq and last_recv, never an empty range.
Entry    == {e \in [min : Nat, max : Nat, last : Nat] : e.min =< e.max}
Registry == [StreamKeys -> Entry \cup {Absent}]

NoEntries == [s \in StreamKeys |-> Absent]
Registered(reg) == {s \in StreamKeys : reg[s] # Absent}

Of(P, s) == {p \in P : p.key = s}

\* Old enough that compaction may have dropped it with the file it is in.
Expired(t) == now - t >= Retention
Live(P)    == {p \in P : ~Expired(p.recv)}

\* The registry accounts for packet p: a truncation that reaches p's sequence
\* number will delete p, and the global sequence number is not below it.
Covers(reg, p) ==
    /\ reg[p.key] # Absent
    /\ reg[p.key].min =< p.seq /\ p.seq =< reg[p.key].max
    /\ p.recv =< reg[p.key].last

\* Faulty variant: keeps some entry's maximum instead of the largest.
IsGlobalSequenceNumberOfSome(n, reg) ==
    \/ Registered(reg) = {} /\ n = 0
    \/ \E s \in Registered(reg) : n = reg[s].max

\* n is what getGlobalSequenceNumber() computes from registry reg.
IsGlobalSequenceNumber(n, reg) ==
    \/ Registered(reg) = {} /\ n = 0
    \/ /\ \E s \in Registered(reg) : n = reg[s].max
       /\ \A s \in Registered(reg) : reg[s].max =< n

Initialized == phase \in {"opened", "serving"}

----------------------------------------------------------------------------
Init ==
    /\ useWAL \in WALSettings
    /\ phase = "closed"
    /\ packets = {} /\ registry = NoEntries
    /\ diskPackets = {} /\ diskRegistry = NoEntries
    /\ counter = 0 /\ pending = {}
    /\ batch = {} /\ merged = NoEntries
    /\ truncating = "no" /\ snapshot = NoEntries /\ cutoff = 0 /\ purged = 0
    /\ compacting = FALSE /\ flushing = FALSE
    /\ now = 0
    /\ flushed = {}

(***************************************************************************)
(* open(): destroy what is there when asked to, then open.  A failed open   *)
(* leaves an object whose operations throw.                                 *)
(***************************************************************************)
DestroyDB(overWrite) ==
    /\ diskPackets'  = IF overWrite THEN {} ELSE diskPackets
    /\ diskRegistry' = IF overWrite THEN NoEntries ELSE diskRegistry
    /\ flushed'      = IF overWrite THEN {} ELSE flushed

Open(overWrite) ==
    /\ phase = "closed"
    /\ DestroyDB(overWrite)
    /\ packets' = diskPackets' /\ registry' = diskRegistry'
    /\ phase' = "opened"
    /\ UNCHANGED <<callerVars, writeVars, truncVars, monitor, now>>

OpenFail(overWrite) ==
    /\ phase = "closed"
    /\ DestroyDB(overWrite)
    /\ phase' = "failed"
    /\ UNCHANGED <<packets, registry, callerVars, writeVars, truncVars, monitor, now>>

(***************************************************************************)
(* The broker's constructor: resume numbering where the registry ends.      *)
(***************************************************************************)
Resume ==
    /\ phase = "opened"
    /\ \E n \in {0} \cup {registry[s].max : s \in Registered(registry)} :
         /\ IsGlobalSequenceNumber(n, registry)
         /\ counter' = n
    /\ phase' = "serving"
    /\ UNCHANGED <<dbVars, pending, writeVars, truncVars, monitor, now, flushed>>

\* propagatePacket() numbers a packet and queues it for the store.
Receive(k) ==
    /\ phase = "serving"
    /\ counter < MaxSeq[useWAL]
    /\ counter' = counter + 1
    /\ pending' = pending \cup {[key |-> k, seq |-> counter + 1, recv |-> now]}
    /\ UNCHANGED <<phase, dbVars, writeVars, truncVars, monitor, now, flushed>>

\* The store queue is full: its front, the oldest packet, is popped.
DropPending ==
    /\ phase = "serving"
    /\ \E p \in pending :
         /\ \A q \in pending : p.seq =< q.seq
         /\ pending' = pending \ {p}
    /\ UNCHANGED <<phase, dbVars, counter, writeVars, truncVars, monitor, now, flushed>>

(***************************************************************************)
(* write(): aggregate the batch per stream, read and merge each stream's    *)
(* registry entry, then store packets and entries in one atomic batch.  The *)
(* order of retries is the caller's: B is any part of what is pending.       *)
(***************************************************************************)
Keyed(B)   == {p \in B : p.key \in StreamKeys}
KeysOf(B)  == {p.key : p \in Keyed(B)}

WriteBegin(B) ==
    /\ phase = "serving"
    /\ batch = {} /\ B # {}
    /\ SingleWriter => truncating = "no"
    /\ batch' = B
    /\ pending' = pending \ B
    /\ UNCHANGED <<phase, dbVars, counter, merged, truncVars, monitor, now, flushed>>

\* Faulty variant: the new aggregate replaces the existing entry.
MergeReplaces(lo, hi, latest, e) ==
    [min |-> lo.seq, max |-> hi.seq, last |-> latest.recv]

\* The entry for packets lo, hi and latest (lowest, highest, last received of
\* a stream's part of the batch) merged with the existing entry e.
Merge(lo, hi, latest, e) ==
    IF e = Absent
    THEN [min |-> lo.seq, max |-> hi.seq, last |-> latest.recv]
    ELSE [min  |-> IF lo.seq < e.min THEN lo.seq ELSE e.min,
          max  |-> IF hi.seq > e.max THEN hi.seq ELSE e.max,
          last |-> IF latest.recv > e.last THEN latest.recv ELSE e.last]

WriteGet(s) ==
    /\ phase = "serving"
    /\ s \in KeysOf(batch) /\ merged[s] = Absent
    /\ \E lo, hi, latest \in Of(batch, s) :
         /\ \A p \in Of(batch, s) : /\ lo.seq =< p.seq /\ p.seq =< hi.seq
                                    /\ p.recv =< latest.recv
         /\ merged' = [merged EXCEPT ![s] = Merge(lo, hi, latest, registry[s])]
    /\ UNCHANGED <<phase, dbVars, callerVars, batch, truncVars, monitor, now, flushed>>

\* A Put on an existing key replaces its packet.
Put(P, B) == {p \in P : \A q \in B : <<q.key, q.seq>> # <<p.key, p.seq>>} \cup B

WriteCommit ==
    /\ phase = "serving"
    /\ batch # {} /\ \A s \in KeysOf(batch) : merged[s] # Absent
    /\ packets'  = Put(packets, Keyed(batch))
    /\ registry' = [s \in StreamKeys |->
                      IF s \in KeysOf(batch) THEN merged[s] ELSE registry[s]]
    /\ diskPackets'  = IF useWAL THEN packets' ELSE diskPackets
    /\ diskRegistry' = IF useWAL THEN registry' ELSE diskRegistry
    /\ pending' = pending \cup (batch \ Keyed(batch))    \* notWritten
    /\ batch' = {} /\ merged' = NoEntries
    /\ flushed' = flushed \cap packets'
    /\ UNCHANGED <<phase, counter, truncVars, monitor, now>>

\* Write() failed: the whole batch is returned to the caller.
WriteFail ==
    /\ phase = "serving"
    /\ batch # {} /\ \A s \in KeysOf(batch) : merged[s] # Absent
    /\ pending' = pending \cup batch
    /\ batch' = {} /\ merged' = NoEntries
    /\ UNCHANGED <<phase, dbVars, counter, truncVars, monitor, now, flushed>>

(***************************************************************************)
(* CompactRange on a column family: its memtable reaches the disk and any   *)
(* of its expired data may go with the files that hold it.                  *)
(***************************************************************************)
CompactRangePackets ==
    /\ \E D \in SUBSET (packets \ Live(packets)) : packets' = packets \ D
    /\ diskPackets' = packets'
    /\ flushed' = flushed \cap packets'
    /\ UNCHANGED <<registry, diskRegistry>>

CompactRangeStreams ==
    /\ \E D \in SUBSET {s \in Registered(registry) : Expired(registry[s].last)} :
         registry' = [s \in StreamKeys |-> IF s \in D THEN Absent ELSE registry[s]]
    /\ diskRegistry' = registry'
    /\ UNCHANGED <<packets, diskPackets, flushed>>

CompactPackets ==
    /\ phase = "serving" /\ ~compacting
    /\ CompactRangePackets
    /\ compacting' = TRUE
    /\ UNCHANGED <<phase, callerVars, writeVars, truncVars, flushing, now>>

CompactStreams ==
    /\ phase = "serving" /\ compacting
    /\ CompactRangeStreams
    /\ compacting' = FALSE
    /\ UNCHANGED <<phase, callerVars, writeVars, truncVars, flushing, now>>

(***************************************************************************)
(* truncateOldest(n): read the registry, delete every sequence number below *)
(* the cutoff in one atomic batch, then compact to reclaim the space.       *)
(***************************************************************************)
Min2(a, b) == IF a < b THEN a ELSE b

TruncateBegin(n) ==
    /\ phase = "serving" /\ truncating = "no"
    /\ n > 0
    /\ SingleWriter => batch = {}
    /\ \E lo, hi \in Registered(registry) :
         /\ \A s \in Registered(registry) :
              registry[lo].min =< registry[s].min /\ registry[s].max =< registry[hi].max
         /\ registry[lo].min =< registry[hi].max
         /\ cutoff' = Min2(registry[lo].min + n, registry[hi].max + 1)
         /\ purged' = cutoff' - registry[lo].min
    /\ snapshot' = registry
    /\ truncating' = "commit"
    /\ UNCHANGED <<phase, dbVars, callerVars, writeVars, monitor, now, flushed>>

Old(s) == snapshot[s] # Absent /\ snapshot[s].min < cutoff

\* Faulty variant: the end of the deleted range is inclusive.
DeleteRangesInclusive(P) ==
    {p \in P : ~(p.key \in StreamKeys /\ Old(p.key) /\ p.seq =< cutoff)}

\* DeleteRange [s|0, s|cutoff) for every stream with something old.
DeleteRanges(P) == {p \in P : ~(p.key \in StreamKeys /\ Old(p.key) /\ p.seq < cutoff)}

\* Faulty variant: the entry of a stream that is gone stays.
AdvanceNeverReaps(e) == [min |-> cutoff, max |-> e.max, last |-> e.last]

\* Reap the entry of a stream that is gone, advance the minimum of the others.
Advance(e) ==
    IF e.max < cutoff THEN Absent ELSE [min |-> cutoff, max |-> e.max, last |-> e.last]

TruncateCommit ==
    /\ phase = "serving" /\ truncating = "commit"
    /\ packets'  = DeleteRanges(packets)
    /\ registry' = [s \in StreamKeys |->
                      IF Old(s) THEN Advance(snapshot[s]) ELSE registry[s]]
    /\ diskPackets'  = IF useWAL THEN packets' ELSE diskPackets
    /\ diskRegistry' = IF useWAL THEN registry' ELSE diskRegistry
    /\ flushed' = flushed \cap packets'
    /\ truncating' = "packets"
    /\ UNCHANGED <<phase, callerVars, writeVars, snapshot, cutoff, purged, monitor, now>>

\* Write() failed: truncateOldest() returns 0.
TruncateFail ==
    /\ phase = "serving" /\ truncating = "commit"
    /\ truncating' = "no" /\ snapshot' = NoEntries /\ cutoff' = 0 /\ purged' = 0
    /\ UNCHANGED <<phase, dbVars, callerVars, writeVars, monitor, now, flushed>>

TruncateCompactPackets ==
    /\ phase = "serving" /\ truncating = "packets"
    /\ CompactRangePackets
    /\ truncating' = "streams"
    /\ UNCHANGED <<phase, callerVars, writeVars, snapshot, cutoff, purged, monitor, now>>

TruncateCompactStreams ==
    /\ phase = "serving" /\ truncating = "streams"
    /\ CompactRangeStreams
    /\ truncating' = "no" /\ snapshot' = NoEntries /\ cutoff' = 0 /\ purged' = 0
    /\ UNCHANGED <<phase, callerVars, writeVars, monitor, now>>

(***************************************************************************)
(* flush(): the packets family, then the streams family.  A failure is only *)
(* logged.  A completed flush covers the packets the registry knew of.      *)
(***************************************************************************)
FlushPackets ==
    /\ Initialized /\ ~flushing
    /\ diskPackets' = packets
    /\ flushing' = TRUE
    /\ UNCHANGED <<phase, packets, registry, diskRegistry, callerVars, writeVars,
                   truncVars, compacting, now, flushed>>

\* Faulty variant: flush() passes only the packets handle.
FlushStreamsSkipped ==
    /\ Initialized /\ flushing
    /\ flushed' = {p \in diskPackets \cap packets : Covers(registry, p)}
    /\ flushing' = FALSE
    /\ UNCHANGED <<phase, dbVars, callerVars, writeVars, truncVars, compacting, now>>

FlushStreams ==
    /\ Initialized /\ flushing
    /\ diskRegistry' = registry
    /\ flushed' = {p \in diskPackets \cap packets : Covers(registry, p)}
    /\ flushing' = FALSE
    /\ UNCHANGED <<phase, packets, registry, diskPackets, callerVars, writeVars,
                   truncVars, compacting, now>>

FlushFail ==
    /\ Initialized /\ flushing
    /\ flushing' = FALSE
    /\ UNCHANGED <<phase, dbVars, callerVars, writeVars, truncVars, compacting, now,
                   flushed>>

\* RocksDB flushes a full memtable by itself, each column family on its own.
BackgroundFlush ==
    /\ Initialized
    /\ \/ diskPackets' = packets /\ UNCHANGED diskRegistry
       \/ diskRegistry' = registry /\ UNCHANGED diskPackets
    /\ UNCHANGED <<phase, packets, registry, callerVars, writeVars, truncVars, monitor,
                   now, flushed>>

(***************************************************************************)
(* The object goes away, by its destructor once the threads are joined, or  *)
(* with the process at any moment.  Memory is lost; without a write-ahead   *)
(* log that includes what was not flushed.                                  *)
(***************************************************************************)
Forget ==
    /\ phase' = "closed"
    /\ packets' = {} /\ registry' = NoEntries
    /\ counter' = 0 /\ pending' = {}
    /\ batch' = {} /\ merged' = NoEntries
    /\ truncating' = "no" /\ snapshot' = NoEntries /\ cutoff' = 0 /\ purged' = 0
    /\ compacting' = FALSE /\ flushing' = FALSE
    /\ UNCHANGED <<diskPackets, diskRegistry, now, flushed>>

Close ==
    /\ phase # "closed"
    /\ batch = {} /\ truncating = "no" /\ ~compacting /\ ~flushing
    /\ Forget

Crash == Initialized /\ Forget

Tick ==
    /\ now < MaxTime
    /\ now' = now + 1
    /\ UNCHANGED <<phase, dbVars, callerVars, writeVars, truncVars, monitor, flushed>>

----------------------------------------------------------------------------
Write ==
    \/ \E B \in SUBSET pending : WriteBegin(B)
    \/ \E s \in StreamKeys : WriteGet(s)
    \/ WriteCommit
    \/ WriteFail

Truncate ==
    \/ \E n \in ChunkSizes : TruncateBegin(n)
    \/ TruncateCommit
    \/ TruncateFail
    \/ TruncateCompactPackets
    \/ TruncateCompactStreams

Step ==
    \/ \E overWrite \in BOOLEAN : Open(overWrite) \/ OpenFail(overWrite)
    \/ Resume
    \/ \E k \in StreamKeys \cup Unkeyable : Receive(k)
    \/ DropPending
    \/ Write
    \/ Truncate
    \/ CompactPackets \/ CompactStreams
    \/ FlushPackets \/ FlushStreams \/ FlushFail
    \/ BackgroundFlush
    \/ Close \/ Crash
    \/ Tick

\* The setting is an option of the broker, the same at every start.
Next == Step /\ UNCHANGED useWAL

Spec == Init /\ [][Next]_vars

----------------------------------------------------------------------------
\* Types.  An entry in the registry is never an empty range: write() creates
\* it from a packet and truncateOldest() reaps it when nothing is left of it.
TypeOK ==
    /\ useWAL \in BOOLEAN
    /\ phase \in {"closed", "failed", "opened", "serving"}
    /\ packets \subseteq Packet /\ diskPackets \subseteq Packet
    /\ registry \in Registry /\ diskRegistry \in Registry
    /\ counter \in Nat
    /\ pending \subseteq Packet /\ batch \subseteq Packet
    /\ merged \in Registry
    /\ truncating \in {"no", "commit", "packets", "streams"}
    /\ snapshot \in Registry /\ cutoff \in Nat /\ purged \in Nat
    /\ compacting \in BOOLEAN /\ flushing \in BOOLEAN
    /\ now \in Nat
    /\ flushed \subseteq Packet

\* Whatever writes, truncations, compactions, crashes and restarts came before,
\* with the write-ahead log the registry accounts for every stored packet that
\* retention keeps.  A packet it misses is never truncated, is not listed by
\* queryAvailableStreams() and does not hold the global sequence number up.
RegistryCoversLive ==
    useWAL /\ Initialized => \A p \in Live(packets) : Covers(registry, p)

\* No two packets share a sequence number: among the packets numbered and not
\* yet stored and the stored ones that retention keeps, across restarts that
\* resume from the registry.  A shared one would let write() replace a packet
\* a subscriber may still ask for.
SequenceNumbersUnique ==
    phase = "serving" =>
        \A p, q \in pending \cup batch \cup Live(packets) : p.seq = q.seq => p = q

\* With the write-ahead log that is so.
NumbersUniqueWithWAL == useWAL => SequenceNumbersUnique

\* truncateOldest() purges from the old end: when its batch is written, with the
\* write-ahead log, a packet that retention keeps is deleted only if it is older than all such
\* packets that stay, and no more of them are deleted than it reports.
TruncatesOldestFirst ==
    [][(useWAL /\ truncating = "commit" /\ truncating' = "packets") =>
         LET gone == Live(packets) \ packets'
             kept == Live(packets) \cap packets'
         IN  /\ \A p \in gone, q \in kept : p.seq < q.seq
             /\ Cardinality(gone) =< purged]_vars

\* What flush() made durable stays durable: a packet that a completed flush()
\* covered is on disk, with a registry entry on disk that accounts for it,
\* until it is truncated, replaced or expires.  This is what a graceful
\* shutdown without the write-ahead log relies on.
FlushedSurvives ==
    \A p \in Live(flushed) : p \in diskPackets /\ Covers(diskRegistry, p)

============================================================================
