------------------------ MODULE RocksDatabaseProofs ------------------------
(***************************************************************************)
(* Theorems about RocksDatabase, for every set of streams, any number of    *)
(* packets and any retention.                                              *)
(***************************************************************************)
EXTENDS RocksDatabase, FiniteSetTheorems, TLAPS

\* The empty registry is a registry.
LEMMA NoEntriesType == NoEntries \in Registry
  BY DEF NoEntries, Registry

\* write() merges a batch's part of a stream with an entry into an entry.
LEMMA MergeType ==
  ASSUME NEW lo \in Packet, NEW hi \in Packet, NEW latest \in Packet,
         NEW e \in Entry \cup {Absent}, lo.seq =< hi.seq
  PROVE  Merge(lo, hi, latest, e) \in Entry
  BY DEF Merge, Entry, Packet

\* truncateOldest() leaves an entry it advances non-empty, or reaps it.
LEMMA AdvanceType ==
  ASSUME cutoff \in Nat, NEW e \in Entry
  PROVE  Advance(e) \in Entry \cup {Absent}
  BY DEF Advance, Entry

\* CompactRange on either column family keeps the types.
LEMMA CompactRangeType ==
  ASSUME TypeOK, CompactRangePackets \/ CompactRangeStreams
  PROVE  /\ packets' \subseteq Packet /\ diskPackets' \subseteq Packet
         /\ registry' \in Registry /\ diskRegistry' \in Registry
         /\ flushed' \subseteq Packet
<1>1. CASE CompactRangePackets
  BY <1>1 DEF CompactRangePackets, TypeOK
<1>2. CASE CompactRangeStreams
  BY <1>2 DEF CompactRangeStreams, TypeOK, Registry
<1> QED BY <1>1, <1>2

----------------------------------------------------------------------------
\* Every step of every operation of the store keeps the types, the
\* non-emptiness of registry entries included.
LEMMA TypeStep == TypeOK /\ [Next]_vars => TypeOK'
<1> SUFFICES ASSUME TypeOK, [Next]_vars PROVE TypeOK'
  OBVIOUS
<1>0. useWAL' \in BOOLEAN
  BY DEF TypeOK, Next, vars
<1> USE <1>0, StoreAssumption, NoEntriesType
<1>1. ASSUME NEW overWrite \in BOOLEAN, Open(overWrite) \/ OpenFail(overWrite)
      PROVE  TypeOK'
  BY <1>1 DEF TypeOK, Open, OpenFail, DestroyDB, callerVars, writeVars, truncVars, monitor
<1>2. CASE Resume
  <2>1. PICK n \in {0} \cup {registry[s].max : s \in Registered(registry)} : counter' = n
    BY <1>2 DEF Resume
  <2>2. counter' \in Nat
    BY <2>1 DEF TypeOK, Registered, Registry, Entry
  <2> QED BY <1>2, <2>2
    DEF TypeOK, Resume, dbVars, writeVars, truncVars, monitor
<1>3. ASSUME NEW k \in StreamKeys \cup Unkeyable, Receive(k) PROVE TypeOK'
  <2>1. [key |-> k, seq |-> counter + 1, recv |-> now] \in Packet
    BY DEF TypeOK, Packet
  <2> QED BY <1>3, <2>1
    DEF TypeOK, Receive, dbVars, writeVars, truncVars, monitor
<1>4. CASE DropPending
  BY <1>4 DEF TypeOK, DropPending, dbVars, writeVars, truncVars, monitor
<1>5. CASE Write
  <2>1. ASSUME NEW B \in SUBSET pending, WriteBegin(B) PROVE TypeOK'
    BY <2>1 DEF TypeOK, WriteBegin, dbVars, truncVars, monitor
  <2>2. ASSUME NEW s \in StreamKeys, WriteGet(s) PROVE TypeOK'
    <3>1. PICK lo, hi, latest \in Of(batch, s) :
            /\ \A p \in Of(batch, s) : lo.seq =< p.seq /\ p.seq =< hi.seq
            /\ merged' = [merged EXCEPT ![s] = Merge(lo, hi, latest, registry[s])]
      BY <2>2 DEF WriteGet
    <3>2. /\ lo \in Packet /\ hi \in Packet /\ latest \in Packet
          /\ lo.seq =< hi.seq
          /\ registry[s] \in Entry \cup {Absent}
      BY <3>1 DEF TypeOK, Of, Registry
    <3>3. Merge(lo, hi, latest, registry[s]) \in Entry
      BY <3>2, MergeType
    <3>4. merged' \in Registry
      BY <3>1, <3>3 DEF TypeOK, Registry
    <3> QED BY <2>2, <3>4
      DEF TypeOK, WriteGet, dbVars, callerVars, truncVars, monitor
  <2>3. CASE WriteCommit
    <3>1. packets' \subseteq Packet
      BY <2>3 DEF TypeOK, WriteCommit, Put, Keyed
    <3>2. registry' \in Registry
      BY <2>3 DEF TypeOK, WriteCommit, Registry
    <3> QED BY <2>3, <3>1, <3>2
      DEF TypeOK, WriteCommit, truncVars, monitor
  <2>4. CASE WriteFail
    BY <2>4 DEF TypeOK, WriteFail, dbVars, truncVars, monitor
  <2> QED BY <1>5, <2>1, <2>2, <2>3, <2>4 DEF Write
<1>6. CASE Truncate
  <2>1. ASSUME NEW n \in ChunkSizes, TruncateBegin(n) PROVE TypeOK'
    <3>1. PICK lo, hi \in Registered(registry) :
            /\ registry[lo].min =< registry[hi].max
            /\ cutoff' = Min2(registry[lo].min + n, registry[hi].max + 1)
            /\ purged' = cutoff' - registry[lo].min
      BY <2>1 DEF TruncateBegin
    <3>2. n \in Nat /\ registry[lo].min \in Nat /\ registry[hi].max \in Nat
      BY <3>1 DEF TypeOK, Registered, Registry, Entry
    <3>3. cutoff' \in Nat /\ purged' \in Nat
      BY <3>1, <3>2 DEF Min2
    <3> QED BY <2>1, <3>3
      DEF TypeOK, TruncateBegin, dbVars, callerVars, writeVars, monitor
  <2>2. CASE TruncateCommit
    <3>1. ASSUME NEW s \in StreamKeys, Old(s)
          PROVE  Advance(snapshot[s]) \in Entry \cup {Absent}
      <4>1. snapshot[s] \in Entry
        BY <3>1 DEF TypeOK, Old, Registry
      <4> QED BY <4>1, AdvanceType DEF TypeOK
    <3>2. registry' \in Registry
      BY <2>2, <3>1 DEF TypeOK, TruncateCommit, Registry
    <3>3. packets' \subseteq Packet
      BY <2>2 DEF TypeOK, TruncateCommit, DeleteRanges
    <3> QED BY <2>2, <3>2, <3>3
      DEF TypeOK, TruncateCommit, callerVars, writeVars, monitor
  <2>3. CASE TruncateFail
    BY <2>3 DEF TypeOK, TruncateFail, dbVars, callerVars, writeVars, monitor
  <2>4. CASE TruncateCompactPackets
    BY <2>4, CompactRangeType DEF TypeOK, TruncateCompactPackets, callerVars, writeVars, monitor
  <2>5. CASE TruncateCompactStreams
    BY <2>5, CompactRangeType DEF TypeOK, TruncateCompactStreams, callerVars, writeVars, monitor
  <2> QED BY <1>6, <2>1, <2>2, <2>3, <2>4, <2>5 DEF Truncate
<1>7. CASE CompactPackets
  BY <1>7, CompactRangeType DEF TypeOK, CompactPackets, callerVars, writeVars, truncVars
<1>8. CASE CompactStreams
  BY <1>8, CompactRangeType DEF TypeOK, CompactStreams, callerVars, writeVars, truncVars
<1>9. CASE FlushPackets
  BY <1>9 DEF TypeOK, FlushPackets, callerVars, writeVars, truncVars
<1>10. CASE FlushStreams
  BY <1>10 DEF TypeOK, FlushStreams, callerVars, writeVars, truncVars
<1>11. CASE FlushFail
  BY <1>11 DEF TypeOK, FlushFail, dbVars, callerVars, writeVars, truncVars
<1>12. CASE BackgroundFlush
  BY <1>12 DEF TypeOK, BackgroundFlush, callerVars, writeVars, truncVars, monitor
<1>13. CASE Close \/ Crash
  <2>1. Forget
    BY <1>13 DEF Close, Crash
  <2>2. compacting' \in BOOLEAN /\ flushing' \in BOOLEAN
    BY <2>1, Zenon DEF Forget
  <2> QED BY <2>1, <2>2 DEF TypeOK, Forget
<1>14. CASE Tick
  BY <1>14 DEF TypeOK, Tick, dbVars, callerVars, writeVars, truncVars, monitor
<1>15. CASE UNCHANGED vars
  BY <1>15 DEF TypeOK, vars, dbVars, callerVars, writeVars, truncVars, monitor
<1> QED
  BY <1>1, <1>2, <1>3, <1>4, <1>5, <1>6, <1>7, <1>8, <1>9, <1>10, <1>11, <1>12, <1>13,
     <1>14, <1>15 DEF Next, Step

\* A fresh database has the right types.
LEMMA InitType == Init => TypeOK
<1> SUFFICES ASSUME Init PROVE TypeOK
  OBVIOUS
<1>1. compacting \in BOOLEAN /\ flushing \in BOOLEAN
  BY Zenon DEF Init
<1>2. useWAL \in BOOLEAN
  BY StoreAssumption DEF Init
<1> QED BY <1>1, <1>2, NoEntriesType DEF Init, TypeOK

\* In every reachable state the store, a write or a truncation in progress and
\* the disk hold values of their types, and no registry entry, in memory or on
\* disk, is an empty range: whatever the threads do and wherever a crash hits.
THEOREM StoreTypes == Spec => []TypeOK
  BY InitType, TypeStep, PTL DEF Spec


----------------------------------------------------------------------------
(***************************************************************************)
(* The registry covers the packets, for a store with the write-ahead log    *)
(* whose write() and truncateOldest() exclude each other.  RegistryCoversLive*)
(* is not inductive: it says nothing of a closed database, of the entries a *)
(* write() has merged or of the ones a truncation has read.                 *)
(***************************************************************************)

\* Only keyable packets are stored.
StoredKeyed == \A p \in diskPackets : p.key \in StreamKeys

\* With the log nothing visible can be lost.
Durable == Initialized => packets = diskPackets /\ registry = diskRegistry

\* The disk registry covers the live packets on disk.
DiskCovers == \A p \in Live(diskPackets) : Covers(diskRegistry, p)

\* What a write() has merged so far covers its own packets and the stored ones.
MergedCovers ==
    \A s \in StreamKeys : merged[s] # Absent =>
        \A p \in Of(batch, s) \cup Of(Live(packets), s) : Covers(merged, p)

\* What a truncation has read covers the stored packets.
SnapshotCovers ==
    truncating = "commit" => \A p \in Live(packets) : Covers(snapshot, p)

\* write() and truncateOldest() are not both in progress; an object that does
\* not serve has nothing in progress.
Exclusive ==
    /\ batch = {} \/ truncating = "no"
    /\ batch = {} => \A s \in StreamKeys : merged[s] = Absent
    /\ phase # "serving" => batch = {} /\ pending = {} /\ truncating = "no"

CoverInv ==
    /\ TypeOK /\ StoredKeyed /\ Durable /\ DiskCovers
    /\ MergedCovers /\ SnapshotCovers /\ Exclusive

\* Dropping packets, expired or not, and flushing leaves what is left covered.
LEMMA CompactPacketsCover ==
  ASSUME CoverInv, Initialized, CompactRangePackets,
         UNCHANGED <<phase, batch, merged, now>>,
         truncating' = "commit" => truncating = "commit" /\ snapshot' = snapshot
  PROVE  StoredKeyed' /\ Durable' /\ DiskCovers' /\ MergedCovers' /\ SnapshotCovers'
<1>1. packets' \subseteq packets /\ diskPackets' = packets' /\ UNCHANGED <<registry, diskRegistry>>
  BY DEF CompactRangePackets
<1>2. packets = diskPackets /\ registry = diskRegistry
  BY DEF CoverInv, Durable
<1>3. StoredKeyed' /\ Durable'
  BY <1>1, <1>2 DEF CoverInv, StoredKeyed, Durable
<1>4. DiskCovers'
  BY <1>1, <1>2 DEF CoverInv, DiskCovers, Live, Expired, Covers
<1>5. MergedCovers'
  BY <1>1 DEF CoverInv, MergedCovers, Of, Live, Expired, Covers
<1>6. SnapshotCovers'
  BY <1>1 DEF CoverInv, SnapshotCovers, Live, Expired, Covers
<1> QED BY <1>3, <1>4, <1>5, <1>6

\* An entry is dropped only when its last receipt has expired, and then so have
\* all packets it covers.
LEMMA CompactStreamsCover ==
  ASSUME CoverInv, Initialized, CompactRangeStreams,
         UNCHANGED <<phase, batch, merged, now>>,
         truncating' = "commit" => truncating = "commit" /\ snapshot' = snapshot
  PROVE  StoredKeyed' /\ Durable' /\ DiskCovers' /\ MergedCovers' /\ SnapshotCovers'
<1>1. PICK D \in SUBSET {s \in Registered(registry) : Expired(registry[s].last)} :
        registry' = [s \in StreamKeys |-> IF s \in D THEN Absent ELSE registry[s]]
  BY DEF CompactRangeStreams
<1>2. diskRegistry' = registry' /\ UNCHANGED <<packets, diskPackets>>
  BY DEF CompactRangeStreams
<1>3. packets = diskPackets /\ registry = diskRegistry
  BY DEF CoverInv, Durable
<1>4. StoredKeyed' /\ Durable'
  BY <1>2, <1>3 DEF CoverInv, StoredKeyed, Durable
<1>5. DiskCovers'
  <2> SUFFICES ASSUME NEW p \in Live(diskPackets)' PROVE Covers(diskRegistry', p)
    BY DEF DiskCovers, Covers
  <2>1. p \in Live(diskPackets) /\ p.key \in StreamKeys /\ p \in Packet
    BY <1>2 DEF Live, Expired, CoverInv, StoredKeyed, TypeOK
  <2>2. Covers(registry, p) /\ ~Expired(p.recv)
    BY <2>1, <1>3 DEF CoverInv, DiskCovers, Live
  <2>3. registry[p.key] \in Entry
    BY <2>1, <2>2 DEF Covers, CoverInv, TypeOK, Registry
  <2>4. ~Expired(registry[p.key].last)
    BY <2>1, <2>2, <2>3, StoreAssumption
    DEF Covers, Expired, Packet, Entry, CoverInv, TypeOK
  <2>5. registry'[p.key] = registry[p.key]
    BY <1>1, <2>1, <2>4
  <2> QED BY <1>2, <2>2, <2>5 DEF Covers
<1>6. MergedCovers'
  BY <1>2 DEF CoverInv, MergedCovers, Of, Live, Expired, Covers
<1>7. SnapshotCovers'
  BY <1>2 DEF CoverInv, SnapshotCovers, Live, Expired, Covers
<1> QED BY <1>4, <1>5, <1>6, <1>7

\* An entry made by Merge covers the batch's packets of the stream and all that
\* the entry it was merged with covered.
LEMMA MergeCovers ==
  ASSUME NEW lo \in Packet, NEW hi \in Packet, NEW latest \in Packet, NEW p \in Packet,
         NEW e \in Entry \cup {Absent}, lo.seq =< hi.seq,
         \/ lo.seq =< p.seq /\ p.seq =< hi.seq /\ p.recv =< latest.recv
         \/ e # Absent /\ e.min =< p.seq /\ p.seq =< e.max /\ p.recv =< e.last,
         NEW m, m = Merge(lo, hi, latest, e)
  PROVE  /\ m # Absent
         /\ m.min =< p.seq /\ p.seq =< m.max /\ p.recv =< m.last
<1>1. m \in Entry
  BY MergeType
<1>2. m # Absent
  BY <1>1, StoreAssumption DEF Entry
<1>3. CASE e = Absent
  BY <1>2, <1>3 DEF Merge, Packet
<1>4. CASE e \in Entry /\ e # Absent
  BY <1>2, <1>4 DEF Merge, Packet, Entry
<1> QED BY <1>3, <1>4

\* Each step of write() keeps the invariant.
LEMMA WriteCover ==
  ASSUME useWAL, SingleWriter, CoverInv, TypeOK', Write
  PROVE  CoverInv'
<1>1. ASSUME NEW B \in SUBSET pending, WriteBegin(B) PROVE CoverInv'
  <2>1. UNCHANGED <<phase, dbVars, merged, truncVars, now>> /\ batch = {} /\ truncating = "no"
    BY <1>1 DEF WriteBegin
  <2>2. \A s \in StreamKeys : merged[s] = Absent
    BY <2>1 DEF CoverInv, Exclusive
  <2>3. StoredKeyed' /\ Durable' /\ DiskCovers' /\ SnapshotCovers'
    BY <2>1 DEF CoverInv, StoredKeyed, Durable, DiskCovers, SnapshotCovers, Live, Expired,
                Covers, Initialized, dbVars, truncVars
  <2>4. MergedCovers' /\ Exclusive'
    BY <1>1, <2>1, <2>2
    DEF WriteBegin, MergedCovers, Exclusive, dbVars, truncVars
  <2> QED BY <2>3, <2>4 DEF CoverInv
<1>2. ASSUME NEW s \in StreamKeys, WriteGet(s) PROVE CoverInv'
  <2>1. UNCHANGED <<phase, dbVars, callerVars, batch, truncVars, now>>
    BY <1>2 DEF WriteGet
  <2>2. PICK lo, hi, latest \in Of(batch, s) :
          /\ \A p \in Of(batch, s) : /\ lo.seq =< p.seq /\ p.seq =< hi.seq
                                     /\ p.recv =< latest.recv
          /\ merged' = [merged EXCEPT ![s] = Merge(lo, hi, latest, registry[s])]
    BY <1>2 DEF WriteGet
  <2>3. StoredKeyed' /\ Durable' /\ DiskCovers' /\ SnapshotCovers'
    BY <2>1 DEF CoverInv, StoredKeyed, Durable, DiskCovers, SnapshotCovers, Live, Expired,
                Covers, Initialized, dbVars, truncVars
  <2>4. /\ lo \in Packet /\ hi \in Packet /\ latest \in Packet
        /\ lo.seq =< hi.seq /\ registry[s] \in Entry \cup {Absent}
    BY <2>2 DEF CoverInv, TypeOK, Of, Registry
  <2>5. /\ merged'[s] = Merge(lo, hi, latest, registry[s])
        /\ \A t \in StreamKeys \ {s} : merged'[t] = merged[t]
    BY <2>2 DEF CoverInv, TypeOK, Registry
  <2>6. ASSUME NEW p \in Of(batch, s) \cup Of(Live(packets), s) PROVE Covers(merged', p)
    <3>1. p \in Packet /\ p.key = s
      BY <2>6 DEF Of, Live, CoverInv, TypeOK
    <3>2. \/ lo.seq =< p.seq /\ p.seq =< hi.seq /\ p.recv =< latest.recv
          \/ /\ registry[s] # Absent /\ registry[s].min =< p.seq
             /\ p.seq =< registry[s].max /\ p.recv =< registry[s].last
      <4>1. CASE p \in Of(batch, s)
        BY <2>2, <4>1
      <4>2. CASE p \in Of(Live(packets), s)
        <5>1. Initialized
          BY <1>2 DEF WriteGet, Initialized
        <5>2. Covers(registry, p)
          BY <4>2, <5>1 DEF CoverInv, Durable, DiskCovers, Of
        <5> QED BY <3>1, <5>2 DEF Covers
      <4> QED BY <2>6, <4>1, <4>2
    <3> QED BY <2>4, <2>5, <3>1, <3>2, MergeCovers DEF Covers
  <2>7. MergedCovers'
    <3> SUFFICES ASSUME NEW t \in StreamKeys, merged'[t] # Absent,
                        NEW p \in Of(batch, t) \cup Of(Live(packets), t)
                 PROVE  Covers(merged', p)
      BY <2>1 DEF MergedCovers, Of, Live, Expired, Covers, dbVars
    <3>1. CASE t = s
      BY <2>6, <3>1
    <3>2. CASE t # s
      <4>1. Covers(merged, p) /\ p.key = t
        BY <2>5, <3>2 DEF CoverInv, MergedCovers, Of
      <4> QED BY <2>5, <3>2, <4>1 DEF Covers
    <3> QED BY <3>1, <3>2
  <2>8. Exclusive'
    <3>1. batch # {} /\ phase = "serving"
      BY <1>2 DEF WriteGet, KeysOf, Keyed
    <3> QED BY <2>1, <3>1 DEF CoverInv, Exclusive, callerVars, truncVars
  <2> QED BY <2>3, <2>7, <2>8 DEF CoverInv
<1>3. CASE WriteCommit
  <2>1. /\ Initialized /\ batch # {} /\ truncating = "no"
        /\ UNCHANGED <<phase, truncVars, now>>
        /\ batch' = {} /\ merged' = NoEntries
        /\ packets' = Put(packets, Keyed(batch)) /\ diskPackets' = packets'
        /\ diskRegistry' = registry'
        /\ registry' = [s \in StreamKeys |->
                          IF s \in KeysOf(batch) THEN merged[s] ELSE registry[s]]
        /\ \A s \in KeysOf(batch) : merged[s] # Absent
    BY <1>3 DEF WriteCommit, CoverInv, Exclusive, Initialized
  <2>2. packets = diskPackets /\ registry = diskRegistry
    BY <2>1 DEF CoverInv, Durable
  <2>3. StoredKeyed' /\ Durable'
    BY <2>1, <2>2 DEF CoverInv, StoredKeyed, Durable, Put, Keyed
  <2>4. DiskCovers'
    <3> SUFFICES ASSUME NEW p \in Live(packets)' PROVE Covers(registry', p)
      BY <2>1 DEF DiskCovers, Covers
    <3>1. /\ p \in Keyed(batch) \/ p \in Live(packets)
          /\ p.key \in StreamKeys
      BY <2>1, <2>2 DEF Live, Expired, Put, CoverInv, StoredKeyed, Keyed
    <3>2. CASE p.key \in KeysOf(batch)
      <4>1. Covers(merged, p)
        BY <2>1, <3>1, <3>2 DEF CoverInv, MergedCovers, Of, Keyed
      <4> QED BY <2>1, <3>1, <3>2, <4>1 DEF Covers
    <3>3. CASE p.key \notin KeysOf(batch)
      <4>1. Covers(registry, p)
        BY <2>2, <3>1, <3>3 DEF CoverInv, DiskCovers, KeysOf
      <4> QED BY <2>1, <3>1, <3>3, <4>1 DEF Covers
    <3> QED BY <3>2, <3>3
  <2>5. MergedCovers' /\ SnapshotCovers' /\ Exclusive'
    BY <1>3, <2>1 DEF WriteCommit, MergedCovers, SnapshotCovers, Exclusive, NoEntries, truncVars
  <2> QED BY <2>3, <2>4, <2>5 DEF CoverInv
<1>4. CASE WriteFail
  <2>1. StoredKeyed' /\ Durable' /\ DiskCovers' /\ SnapshotCovers'
    BY <1>4 DEF WriteFail, CoverInv, StoredKeyed, Durable, DiskCovers, SnapshotCovers, Live,
                Expired, Covers, Initialized, dbVars, truncVars
  <2>2. MergedCovers' /\ Exclusive'
    BY <1>4 DEF WriteFail, MergedCovers, Exclusive, NoEntries, truncVars
  <2> QED BY <2>1, <2>2 DEF CoverInv
<1> QED BY <1>1, <1>2, <1>3, <1>4 DEF Write

\* Each step of truncateOldest() keeps the invariant.
LEMMA TruncateCover ==
  ASSUME useWAL, SingleWriter, CoverInv, TypeOK', Truncate
  PROVE  CoverInv'
<1>1. ASSUME NEW n \in ChunkSizes, TruncateBegin(n) PROVE CoverInv'
  <2>1. /\ UNCHANGED <<phase, dbVars, callerVars, writeVars, now>>
        /\ batch = {} /\ phase = "serving" /\ snapshot' = registry
    BY <1>1 DEF TruncateBegin
  <2>2. StoredKeyed' /\ Durable' /\ DiskCovers' /\ MergedCovers'
    BY <2>1 DEF CoverInv, StoredKeyed, Durable, DiskCovers, MergedCovers, Of, Live, Expired,
                Covers, Initialized, dbVars, writeVars
  <2>3. SnapshotCovers'
    <3>1. \A p \in Live(packets) : Covers(registry, p)
      BY <2>1 DEF CoverInv, Durable, DiskCovers, Initialized
    <3> QED BY <2>1, <3>1 DEF SnapshotCovers, Live, Expired, Covers, dbVars
  <2>4. Exclusive'
    BY <2>1 DEF CoverInv, Exclusive, callerVars, writeVars
  <2> QED BY <2>2, <2>3, <2>4 DEF CoverInv
<1>2. CASE TruncateCommit
  <2>1. /\ Initialized /\ truncating = "commit" /\ truncating' = "packets"
        /\ UNCHANGED <<phase, callerVars, writeVars, now>>
        /\ packets' = DeleteRanges(packets) /\ diskPackets' = packets'
        /\ diskRegistry' = registry'
        /\ registry' = [s \in StreamKeys |->
                          IF Old(s) THEN Advance(snapshot[s]) ELSE registry[s]]
    BY <1>2 DEF TruncateCommit, Initialized
  <2>2. packets = diskPackets /\ registry = diskRegistry
    BY <2>1 DEF CoverInv, Durable
  <2>3. StoredKeyed' /\ Durable'
    BY <2>1, <2>2 DEF CoverInv, StoredKeyed, Durable, DeleteRanges
  <2>4. DiskCovers'
    <3> SUFFICES ASSUME NEW p \in Live(packets)' PROVE Covers(registry', p)
      BY <2>1 DEF DiskCovers, Covers
    <3>1. /\ p \in Live(packets) /\ p \in Packet /\ p.key \in StreamKeys
          /\ ~(Old(p.key) /\ p.seq < cutoff)
      BY <2>1, <2>2 DEF Live, Expired, DeleteRanges, CoverInv, StoredKeyed, TypeOK
    <3>2. CASE Old(p.key)
      <4>1. Covers(snapshot, p)
        BY <2>1, <3>1 DEF CoverInv, SnapshotCovers
      <4>2. snapshot[p.key] \in Entry /\ cutoff \in Nat
        BY <3>1, <4>1 DEF Covers, CoverInv, TypeOK, Registry
      <4>3. ~(p.seq < cutoff) /\ p.seq \in Nat
        BY <3>1, <3>2 DEF Packet
      <4>4. ~(snapshot[p.key].max < cutoff)
        BY <4>1, <4>2, <4>3 DEF Covers, Entry
      <4>5. registry'[p.key] = [min |-> cutoff, max |-> snapshot[p.key].max,
                                last |-> snapshot[p.key].last]
        BY <2>1, <3>1, <3>2, <4>4 DEF Advance
      <4>6. registry'[p.key] # Absent
        BY <4>2, <4>4, <4>5, StoreAssumption DEF Entry
      <4> QED BY <4>1, <4>2, <4>3, <4>5, <4>6 DEF Covers
    <3>3. CASE ~Old(p.key)
      <4>1. Covers(registry, p)
        BY <2>2, <3>1 DEF CoverInv, DiskCovers
      <4> QED BY <2>1, <3>1, <3>3, <4>1 DEF Covers
    <3> QED BY <3>2, <3>3
  <2>5. MergedCovers'
    <3>1. \A s \in StreamKeys : merged[s] = Absent
      BY <2>1 DEF CoverInv, Exclusive
    <3> QED BY <2>1, <3>1 DEF MergedCovers, writeVars
  <2>6. SnapshotCovers' /\ Exclusive'
    BY <1>2, <2>1
    DEF TruncateCommit, CoverInv, SnapshotCovers, Exclusive, callerVars, writeVars
  <2> QED BY <2>3, <2>4, <2>5, <2>6 DEF CoverInv
<1>3. CASE TruncateFail
  <2>1. StoredKeyed' /\ Durable' /\ DiskCovers' /\ MergedCovers'
    BY <1>3 DEF TruncateFail, CoverInv, StoredKeyed, Durable, DiskCovers, MergedCovers, Of,
                Live, Expired, Covers, Initialized, dbVars, writeVars
  <2>2. SnapshotCovers' /\ Exclusive'
    BY <1>3
    DEF TruncateFail, CoverInv, SnapshotCovers, Exclusive, callerVars, writeVars
  <2> QED BY <2>1, <2>2 DEF CoverInv
<1>4. CASE TruncateCompactPackets
  <2>1. /\ Initialized /\ CompactRangePackets
        /\ UNCHANGED <<phase, batch, merged, snapshot, now>> /\ truncating' = "streams"
    BY <1>4 DEF TruncateCompactPackets, Initialized, writeVars
  <2>2. Exclusive'
    BY <1>4 DEF TruncateCompactPackets, CoverInv, Exclusive, callerVars, writeVars
  <2> QED BY <2>1, <2>2, CompactPacketsCover DEF CoverInv
<1>5. CASE TruncateCompactStreams
  <2>1. /\ Initialized /\ CompactRangeStreams
        /\ UNCHANGED <<phase, batch, merged, now>> /\ truncating' = "no"
        /\ snapshot' = NoEntries
    BY <1>5 DEF TruncateCompactStreams, Initialized, writeVars
  <2>2. SnapshotCovers' /\ Exclusive'
    BY <1>5, <2>1
    DEF TruncateCompactStreams, CoverInv, SnapshotCovers, Exclusive, callerVars, writeVars
  <2> QED BY <2>1, <2>2, CompactStreamsCover DEF CoverInv
<1> QED BY <1>1, <1>2, <1>3, <1>4, <1>5 DEF Truncate

\* Every step keeps the invariant.
LEMMA CoverStep ==
  ASSUME SingleWriter
  PROVE  useWAL /\ CoverInv /\ [Next]_vars => CoverInv'
<1> SUFFICES ASSUME useWAL, CoverInv, [Next]_vars PROVE CoverInv'
  OBVIOUS
<1>0. TypeOK'
  BY TypeStep DEF CoverInv
<1> DEFINE Rest == StoredKeyed /\ Durable /\ DiskCovers /\ MergedCovers /\ SnapshotCovers
<1>1. ASSUME NEW overWrite \in BOOLEAN, Open(overWrite) \/ OpenFail(overWrite)
      PROVE  CoverInv'
  <2>1. /\ diskPackets' = IF overWrite THEN {} ELSE diskPackets
        /\ diskRegistry' = IF overWrite THEN NoEntries ELSE diskRegistry
        /\ UNCHANGED <<callerVars, writeVars, truncVars, now>>
        /\ phase = "closed"
    BY <1>1 DEF Open, OpenFail, DestroyDB
  <2>2. StoredKeyed' /\ DiskCovers'
    BY <2>1 DEF CoverInv, StoredKeyed, DiskCovers, Live, Expired, Covers
  <2>3. Durable'
    BY <1>1 DEF Open, OpenFail, Durable, Initialized
  <2>4. MergedCovers' /\ SnapshotCovers' /\ Exclusive'
    BY <2>1 DEF CoverInv, MergedCovers, SnapshotCovers, Exclusive, callerVars, writeVars,
                truncVars
  <2> QED BY <1>0, <2>2, <2>3, <2>4 DEF CoverInv
<1>2. ASSUME Resume \/ (\E k \in StreamKeys \cup Unkeyable : Receive(k)) \/ DropPending
      PROVE  CoverInv'
  <2>1. /\ UNCHANGED <<dbVars, writeVars, truncVars, now>>
        /\ Initialized /\ Initialized' /\ phase' = "serving"
    BY <1>2 DEF Resume, Receive, DropPending, Initialized
  <2>2. Rest'
    BY <2>1 DEF CoverInv, StoredKeyed, Durable, DiskCovers, MergedCovers, SnapshotCovers, Of,
                Live, Expired, Covers, dbVars, writeVars, truncVars
  <2>3. Exclusive'
    BY <2>1 DEF CoverInv, Exclusive, writeVars, truncVars
  <2> QED BY <1>0, <2>2, <2>3 DEF CoverInv
<1>3. CASE Write
  BY <1>0, <1>3, WriteCover
<1>4. CASE Truncate
  BY <1>0, <1>4, TruncateCover
<1>5. CASE CompactPackets
  <2>1. /\ Initialized /\ CompactRangePackets
        /\ UNCHANGED <<phase, batch, merged, snapshot, truncating, now>>
    BY <1>5 DEF CompactPackets, Initialized, writeVars, truncVars
  <2>2. Exclusive'
    BY <1>5 DEF CompactPackets, CoverInv, Exclusive, callerVars, writeVars, truncVars
  <2> QED BY <1>0, <2>1, <2>2, CompactPacketsCover DEF CoverInv
<1>6. CASE CompactStreams
  <2>1. /\ Initialized /\ CompactRangeStreams
        /\ UNCHANGED <<phase, batch, merged, snapshot, truncating, now>>
    BY <1>6 DEF CompactStreams, Initialized, writeVars, truncVars
  <2>2. Exclusive'
    BY <1>6 DEF CompactStreams, CoverInv, Exclusive, callerVars, writeVars, truncVars
  <2> QED BY <1>0, <2>1, <2>2, CompactStreamsCover DEF CoverInv
<1>7. CASE FlushPackets \/ FlushStreams \/ FlushFail \/ BackgroundFlush
  <2>1. /\ UNCHANGED <<phase, packets, registry, callerVars, writeVars, truncVars, now>>
        /\ Initialized
        /\ diskPackets' \in {packets, diskPackets}
        /\ diskRegistry' \in {registry, diskRegistry}
    BY <1>7 DEF FlushPackets, FlushStreams, FlushFail, BackgroundFlush, dbVars
  <2>2. UNCHANGED <<diskPackets, diskRegistry>>
    BY <2>1 DEF CoverInv, Durable
  <2>3. Rest'
    BY <2>1, <2>2 DEF CoverInv, StoredKeyed, Durable, DiskCovers, MergedCovers,
         SnapshotCovers, Of, Live, Expired, Covers, Initialized, writeVars, truncVars
  <2>4. Exclusive'
    BY <2>1 DEF CoverInv, Exclusive, callerVars, writeVars, truncVars
  <2> QED BY <1>0, <2>3, <2>4 DEF CoverInv
<1>8. CASE Close \/ Crash
  <2>1. Forget
    BY <1>8 DEF Close, Crash
  <2>2. StoredKeyed' /\ Durable' /\ DiskCovers'
    BY <2>1 DEF Forget, CoverInv, StoredKeyed, Durable, DiskCovers, Live, Expired, Covers,
                Initialized
  <2>3. MergedCovers' /\ SnapshotCovers' /\ Exclusive'
    BY <2>1 DEF Forget, MergedCovers, SnapshotCovers, Exclusive, NoEntries
  <2> QED BY <1>0, <2>2, <2>3 DEF CoverInv
<1>9. CASE Tick
  <2>1. /\ UNCHANGED <<phase, dbVars, callerVars, writeVars, truncVars>>
        /\ now' = now + 1 /\ now \in Nat
    BY <1>9 DEF Tick, CoverInv, TypeOK
  <2>2. ASSUME NEW p \in Packet, ~(now' - p.recv >= Retention)
        PROVE  ~(now - p.recv >= Retention)
    BY <2>1, <2>2, StoreAssumption DEF Packet
  <2>3. packets \subseteq Packet /\ diskPackets \subseteq Packet
    BY DEF CoverInv, TypeOK
  <2>4. Rest'
    BY <2>1, <2>2, <2>3 DEF CoverInv, StoredKeyed, Durable, DiskCovers, MergedCovers,
         SnapshotCovers, Of, Live, Expired, Covers, Initialized, dbVars, writeVars, truncVars
  <2>5. Exclusive'
    BY <2>1 DEF CoverInv, Exclusive, callerVars, writeVars, truncVars
  <2> QED BY <1>0, <2>4, <2>5 DEF CoverInv
<1>10. CASE UNCHANGED vars
  BY <1>0, <1>10 DEF CoverInv, StoredKeyed, Durable, DiskCovers, MergedCovers, SnapshotCovers,
       Exclusive, Of, Live, Expired, Covers, Initialized, vars, dbVars, callerVars, writeVars,
       truncVars
<1> QED
  BY <1>1, <1>2, <1>3, <1>4, <1>5, <1>6, <1>7, <1>8, <1>9, <1>10 DEF Next, Step

\* A fresh database satisfies the invariant.
LEMMA InitCover == Init => CoverInv
<1> SUFFICES ASSUME Init PROVE CoverInv
  OBVIOUS
<1>1. TypeOK
  BY InitType
<1> QED BY <1>1 DEF Init, CoverInv, StoredKeyed, Durable, DiskCovers, MergedCovers,
             SnapshotCovers, Exclusive, Live, Initialized, NoEntries

\* The write-ahead log is used or not throughout.
LEMMA SettingStep == [Next]_vars => useWAL' = useWAL
  BY DEF Next, vars

\* With the write-ahead log, and with write() and truncateOldest() excluding
\* each other, no sequence of writes, failed writes, truncations, compactions,
\* crashes and restarts leaves a packet that retention keeps without a registry
\* entry that accounts for it.
THEOREM RegistryCorrect ==
  ASSUME SingleWriter
  PROVE  Spec => []RegistryCoversLive
<1>1. (useWAL => CoverInv) => RegistryCoversLive
  BY DEF CoverInv, Durable, DiskCovers, RegistryCoversLive
<1>2. (useWAL => CoverInv) /\ [Next]_vars => (useWAL => CoverInv)'
  BY CoverStep, SettingStep
<1> QED BY <1>1, <1>2, InitCover, PTL DEF Spec

----------------------------------------------------------------------------
(***************************************************************************)
(* Sequence numbers are not reused, under the same two assumptions.  The    *)
(* registry is what carries the counter over a restart, so the argument     *)
(* rests on CoverInv.                                                      *)
(***************************************************************************)

\* The packets whose numbers are taken.
Numbered == pending \cup batch \cup Live(diskPackets)

NumberInv ==
    /\ \A p, q \in Numbered : p.seq = q.seq => p = q
    /\ phase = "serving" => \A p \in Numbered : p.seq =< counter

\* A step that numbers no packet and leaves the counter alone keeps NumberInv.
LEMMA NumberFrame ==
  ASSUME NumberInv, Numbered' \subseteq Numbered,
         phase' = "serving" => phase = "serving" /\ counter' = counter
  PROVE  NumberInv'
  BY DEF NumberInv

\* Every step keeps numbers apart: only Receive hands one out, the next one.
LEMMA NumberStep ==
  ASSUME SingleWriter
  PROVE  useWAL /\ CoverInv /\ NumberInv /\ [Next]_vars => NumberInv'
<1> SUFFICES ASSUME useWAL, CoverInv, NumberInv, [Next]_vars PROVE NumberInv'
  OBVIOUS
<1>0. /\ Initialized => packets = diskPackets
      /\ phase # "serving" => batch = {} /\ pending = {}
  BY DEF CoverInv, Durable, Exclusive
<1>1. ASSUME NEW overWrite \in BOOLEAN, Open(overWrite) \/ OpenFail(overWrite)
      PROVE  NumberInv'
  <2>1. Numbered' \subseteq Numbered /\ phase' # "serving"
    BY <1>1 DEF Open, OpenFail, DestroyDB, Numbered, Live, Expired, callerVars, writeVars
  <2> QED BY <2>1, NumberFrame
<1>2. CASE Resume
  <2>1. PICK n : IsGlobalSequenceNumber(n, registry) /\ counter' = n
    BY <1>2 DEF Resume
  <2>2. Numbered' = Numbered /\ Numbered = Live(packets)
    BY <1>0, <1>2
    DEF Resume, Numbered, Live, Expired, Initialized, dbVars, writeVars
  <2>3. ASSUME NEW p \in Live(packets) PROVE p.seq =< n
    <3>1. Covers(registry, p) /\ p \in Packet /\ p.key \in StreamKeys
      BY <1>0, <1>2
      DEF Resume, Initialized, CoverInv, Durable, DiskCovers, StoredKeyed, TypeOK, Live
    <3>2. p.key \in Registered(registry) /\ registry[p.key] \in Entry
      BY <3>1 DEF Covers, Registered, CoverInv, TypeOK, Registry
    <3>3. PICK t \in Registered(registry) : n = registry[t].max
      BY <2>1, <3>2 DEF IsGlobalSequenceNumber
    <3>4. registry[t] \in Entry
      BY <3>3 DEF Registered, CoverInv, TypeOK, Registry
    <3>5. registry[p.key].max =< n /\ p.seq =< registry[p.key].max
      BY <2>1, <3>1, <3>2 DEF IsGlobalSequenceNumber, Covers
    <3> QED BY <3>1, <3>2, <3>3, <3>4, <3>5 DEF Packet, Entry
  <2> QED BY <2>1, <2>2, <2>3 DEF NumberInv
<1>3. ASSUME NEW k \in StreamKeys \cup Unkeyable, Receive(k) PROVE NumberInv'
  <2> DEFINE new == [key |-> k, seq |-> counter + 1, recv |-> now]
  <2>1. Numbered' = Numbered \cup {new} /\ counter' = counter + 1 /\ phase = "serving"
    BY <1>3 DEF Receive, Numbered, Live, Expired, dbVars, writeVars
  <2>2. \A p \in Numbered : p.seq \in Nat /\ p.seq =< counter
    BY <2>1 DEF NumberInv, Numbered, Live, CoverInv, TypeOK, Packet
  <2>3. counter \in Nat /\ new.seq = counter + 1
    BY DEF CoverInv, TypeOK
  <2>4. ASSUME NEW p \in Numbered', NEW q \in Numbered', p.seq = q.seq PROVE p = q
    <3> HIDE DEF new
    <3>1. CASE p \in Numbered /\ q \in Numbered
      BY <2>4, <3>1 DEF NumberInv
    <3>2. CASE p = new \/ q = new
      BY <2>1, <2>2, <2>3, <2>4, <3>2
    <3> QED BY <2>1, <3>1, <3>2
  <2>5. \A p \in Numbered' : p.seq =< counter'
    <3> HIDE DEF new
    <3> QED BY <2>1, <2>2, <2>3
  <2> QED BY <2>4, <2>5 DEF NumberInv
<1>4. CASE DropPending
  <2>1. Numbered' \subseteq Numbered /\ phase' = phase /\ counter' = counter
    BY <1>4 DEF DropPending, Numbered, Live, Expired, dbVars, writeVars
  <2> QED BY <2>1, NumberFrame
<1>5. CASE Write
  <2>1. phase' = phase /\ counter' = counter
    BY <1>5 DEF Write, WriteBegin, WriteGet, WriteCommit, WriteFail, callerVars
  <2>2. Numbered' \subseteq Numbered
    <3>1. ASSUME NEW B \in SUBSET pending, WriteBegin(B) PROVE Numbered' \subseteq Numbered
      BY <3>1 DEF WriteBegin, Numbered, Live, Expired, dbVars
    <3>2. ASSUME NEW s \in StreamKeys, WriteGet(s) PROVE Numbered' \subseteq Numbered
      BY <3>2 DEF WriteGet, Numbered, Live, Expired, dbVars, callerVars
    <3>3. CASE WriteCommit
      <4>1. diskPackets' \subseteq diskPackets \cup Keyed(batch)
        BY <1>0, <3>3 DEF WriteCommit, Initialized, Put
      <4> QED BY <3>3, <4>1 DEF WriteCommit, Numbered, Live, Expired, Keyed
    <3>4. CASE WriteFail
      BY <3>4 DEF WriteFail, Numbered, Live, Expired, dbVars
    <3> QED BY <1>5, <3>1, <3>2, <3>3, <3>4 DEF Write
  <2> QED BY <2>1, <2>2, NumberFrame
<1>6. CASE Truncate \/ CompactPackets \/ CompactStreams
  <2>1. phase' = phase /\ Initialized /\ UNCHANGED <<callerVars, batch, now>>
    BY <1>6 DEF Truncate, TruncateBegin, TruncateCommit, TruncateFail, TruncateCompactPackets,
                TruncateCompactStreams, CompactPackets, CompactStreams, Initialized, writeVars
  <2>2. diskPackets' \subseteq diskPackets
    BY <1>0, <1>6, <2>1
    DEF Truncate, TruncateBegin, TruncateCommit, TruncateFail, TruncateCompactPackets,
        TruncateCompactStreams, CompactPackets, CompactStreams, CompactRangePackets,
        CompactRangeStreams, DeleteRanges, dbVars
  <2>3. Numbered' \subseteq Numbered /\ counter' = counter
    BY <2>1, <2>2 DEF Numbered, Live, Expired, callerVars
  <2> QED BY <2>1, <2>3, NumberFrame
<1>7. CASE FlushPackets \/ FlushStreams \/ FlushFail \/ BackgroundFlush
  <2>1. /\ UNCHANGED <<phase, callerVars, batch, now>>
        /\ diskPackets' \in {packets, diskPackets} /\ Initialized
    BY <1>7 DEF FlushPackets, FlushStreams, FlushFail, BackgroundFlush, dbVars, writeVars
  <2>2. Numbered' \subseteq Numbered /\ counter' = counter
    BY <1>0, <2>1 DEF Numbered, Live, Expired, callerVars
  <2> QED BY <2>1, <2>2, NumberFrame
<1>8. CASE Close \/ Crash
  <2>1. Numbered' \subseteq Numbered /\ phase' = "closed"
    BY <1>8 DEF Close, Crash, Forget, Numbered, Live, Expired
  <2> QED BY <2>1, NumberFrame
<1>9. CASE Tick
  <2>1. /\ UNCHANGED <<phase, diskPackets, callerVars, batch>>
        /\ now' = now + 1 /\ now \in Nat /\ diskPackets \subseteq Packet
    BY <1>9 DEF Tick, dbVars, writeVars, CoverInv, TypeOK
  <2>2. Live(diskPackets)' \subseteq Live(diskPackets)
    BY <2>1, StoreAssumption DEF Live, Expired, Packet
  <2>3. Numbered' \subseteq Numbered /\ counter' = counter
    BY <2>1, <2>2 DEF Numbered, callerVars
  <2> QED BY <2>1, <2>3, NumberFrame
<1>10. CASE UNCHANGED vars
  <2>1. Numbered' \subseteq Numbered /\ counter' = counter /\ phase' = phase
    BY <1>10 DEF vars, dbVars, callerVars, writeVars, Numbered, Live, Expired
  <2> QED BY <2>1, NumberFrame
<1> QED
  BY <1>1, <1>2, <1>3, <1>4, <1>5, <1>6, <1>7, <1>8, <1>9, <1>10 DEF Next, Step

\* With the write-ahead log, and with write() and truncateOldest() excluding
\* each other, a sequence number is never given to a packet while another
\* packet that retention keeps, or that is still to be stored, has it: a restart
\* resumes above all of them, so write() never replaces a packet.
THEOREM NumbersNotReused ==
  ASSUME SingleWriter
  PROVE  Spec => []NumbersUniqueWithWAL
<1> DEFINE Inv == useWAL => CoverInv /\ NumberInv
<1>1. Init => Inv
  BY InitCover DEF Init, NumberInv, Numbered, Live
<1>2. Inv => NumbersUniqueWithWAL
  BY DEF CoverInv, Durable, Initialized, NumberInv, Numbered, NumbersUniqueWithWAL,
         SequenceNumbersUnique
<1>3. Inv /\ [Next]_vars => Inv'
  BY CoverStep, NumberStep, SettingStep
<1> HIDE DEF Inv
<1> QED BY <1>1, <1>2, <1>3, PTL DEF Spec

----------------------------------------------------------------------------
(***************************************************************************)
(* What truncateOldest() deletes.  Its batch is written from the entries it *)
(* has read, so the argument needs what they still say at that moment: they *)
(* cover the packets, and none of them begins below what is purged.         *)
(***************************************************************************)
CutoffInv ==
    truncating = "commit" =>
        /\ purged =< cutoff
        /\ \A s \in Registered(snapshot) : cutoff - purged =< snapshot[s].min

\* Only the start of a truncation has to establish it.
LEMMA CutoffStep == TypeOK /\ CutoffInv /\ [Next]_vars => CutoffInv'
<1> SUFFICES ASSUME TypeOK, CutoffInv, [Next]_vars PROVE CutoffInv'
  OBVIOUS
<1>1. ASSUME NEW n \in ChunkSizes, TruncateBegin(n) PROVE CutoffInv'
  <2>1. PICK lo, hi \in Registered(registry) :
          /\ \A s \in Registered(registry) : registry[lo].min =< registry[s].min
          /\ registry[lo].min =< registry[hi].max
          /\ cutoff' = Min2(registry[lo].min + n, registry[hi].max + 1)
          /\ purged' = cutoff' - registry[lo].min
    BY <1>1 DEF TruncateBegin
  <2>2. n \in Nat /\ registry[lo].min \in Nat /\ registry[hi].max \in Nat
    BY <2>1, StoreAssumption DEF TypeOK, Registered, Registry, Entry
  <2>3. purged' =< cutoff' /\ cutoff' - purged' = registry[lo].min
    BY <2>1, <2>2 DEF Min2
  <2>4. snapshot' = registry
    BY <1>1 DEF TruncateBegin
  <2> QED BY <2>1, <2>3, <2>4 DEF CutoffInv, Registered
<1>2. CASE \/ TruncateCommit \/ TruncateFail \/ TruncateCompactPackets
           \/ TruncateCompactStreams \/ Close \/ Crash
  BY <1>2 DEF TruncateCommit, TruncateFail, TruncateCompactPackets, TruncateCompactStreams,
              Close, Crash, Forget, CutoffInv
<1>3. ASSUME UNCHANGED truncVars PROVE CutoffInv'
  BY <1>3 DEF truncVars, CutoffInv, Registered
<1>4. CASE \/ \E overWrite \in BOOLEAN : Open(overWrite) \/ OpenFail(overWrite)
           \/ Resume \/ (\E k \in StreamKeys \cup Unkeyable : Receive(k)) \/ DropPending
           \/ Write \/ CompactPackets \/ CompactStreams
           \/ FlushPackets \/ FlushStreams \/ FlushFail \/ BackgroundFlush \/ Tick
           \/ UNCHANGED vars
  <2>1. UNCHANGED truncVars
    BY <1>4 DEF Open, OpenFail, Resume, Receive, DropPending, Write, WriteBegin, WriteGet,
         WriteCommit, WriteFail, CompactPackets, CompactStreams, FlushPackets, FlushStreams,
         FlushFail, BackgroundFlush, Tick, vars
  <2> QED BY <1>3, <2>1
<1> QED BY <1>1, <1>2, <1>4 DEF Next, Step, Truncate

\* The step that writes the batch is the only one from "commit" to "packets".
LEMMA CommitIsTruncateCommit ==
  ASSUME TypeOK, [Next]_vars, truncating = "commit", truncating' = "packets"
  PROVE  TruncateCommit
<1>1. ~UNCHANGED truncVars
  BY DEF truncVars
<1>2. ~(TruncateFail \/ TruncateCompactPackets \/ TruncateCompactStreams \/ Close \/ Crash)
  BY DEF TruncateFail, TruncateCompactPackets, TruncateCompactStreams, Close, Crash, Forget
<1>3. ~(\E n \in ChunkSizes : TruncateBegin(n))
  BY DEF TruncateBegin
<1> QED BY <1>1, <1>2, <1>3 DEF Next, Step, Truncate, Open, OpenFail, Resume, Receive, DropPending,
      Write, WriteBegin, WriteGet, WriteCommit, WriteFail, CompactPackets, CompactStreams,
      FlushPackets, FlushStreams, FlushFail, BackgroundFlush, Tick, vars

\* The batch of a truncation.
LEMMA TruncationFromOldEnd ==
  ASSUME CoverInv, NumberInv, CutoffInv, TruncateCommit
  PROVE  LET gone == Live(packets) \ packets'
             kept == Live(packets) \cap packets'
         IN  /\ \A p \in gone, q \in kept : p.seq < q.seq
             /\ Cardinality(gone) =< purged
<1> DEFINE gone == Live(packets) \ packets'
<1> DEFINE kept == Live(packets) \cap packets'
<1>1. /\ truncating = "commit" /\ packets' = DeleteRanges(packets)
      /\ cutoff \in Nat /\ purged \in Nat /\ packets \subseteq Packet
      /\ snapshot \in Registry /\ packets = diskPackets
  BY DEF TruncateCommit, CoverInv, TypeOK, Durable, Initialized
<1>2. ASSUME NEW p \in Live(packets)
      PROVE  /\ p \in Packet /\ p.key \in StreamKeys /\ p.seq \in Nat
             /\ snapshot[p.key] \in Entry /\ snapshot[p.key].min =< p.seq
             /\ p.key \in Registered(snapshot)
  <2>1. p \in packets /\ p \in Packet /\ p.key \in StreamKeys /\ Covers(snapshot, p)
    BY <1>1 DEF Live, CoverInv, StoredKeyed, SnapshotCovers
  <2> QED BY <1>1, <2>1 DEF Covers, Registry, Registered, Packet
<1>3. ASSUME NEW p \in gone
      PROVE  p \in Live(packets) /\ p.seq < cutoff /\ cutoff - purged =< p.seq
  <2>1. p \in Live(packets) /\ p \in packets /\ Old(p.key) /\ p.seq < cutoff
    BY <1>1, <1>3 DEF DeleteRanges, Live
  <2>2. cutoff - purged =< snapshot[p.key].min
    BY <1>1, <1>2, <2>1 DEF CutoffInv
  <2>3. snapshot[p.key].min \in Nat /\ snapshot[p.key].min =< p.seq /\ p.seq \in Nat
    BY <1>2, <2>1 DEF Entry
  <2> QED BY <1>1, <2>1, <2>2, <2>3
<1>4. ASSUME NEW q \in kept PROVE cutoff =< q.seq /\ q.seq \in Nat
  <2>1. q \in Live(packets) /\ ~(Old(q.key) /\ q.seq < cutoff)
    BY <1>1, <1>2, <1>4 DEF DeleteRanges
  <2>2. CASE q.seq < cutoff
    <3>1. ~(snapshot[q.key].min < cutoff)
      BY <1>2, <2>1, <2>2, StoreAssumption DEF Old, Entry
    <3> QED BY <1>1, <1>2, <2>1, <2>2, <3>1 DEF Entry
  <2>3. CASE ~(q.seq < cutoff)
    BY <1>1, <1>2, <2>1, <2>3
  <2> QED BY <2>2, <2>3
<1>5. \A p \in gone, q \in kept : p.seq < q.seq
  BY <1>1, <1>2, <1>3, <1>4
<1>6. Cardinality(gone) =< purged
  <2> DEFINE lo == cutoff - purged
  <2> DEFINE f == [p \in gone |-> p.seq]
  <2>1. lo \in Int /\ cutoff - 1 \in Int
    BY <1>1
  <2>2. f \in [gone -> lo..(cutoff - 1)]
    BY <1>1, <1>2, <1>3
  <2>3. ASSUME NEW p \in gone, NEW q \in gone, f[p] = f[q] PROVE p = q
    <3>1. p \in Numbered /\ q \in Numbered /\ p.seq = q.seq
      BY <1>1, <1>3, <2>3 DEF Numbered
    <3> QED BY <3>1 DEF NumberInv
  <2>4. f \in Injection(gone, lo..(cutoff - 1))
    <3> HIDE DEF f, gone, lo
    <3>1. \A p, q \in gone : f[p] = f[q] => p = q
      BY <2>3
    <3> QED BY <2>2, <3>1 DEF Injection, IsInjective
  <2>5. /\ IsFiniteSet(lo..(cutoff - 1))
        /\ Cardinality(lo..(cutoff - 1)) = IF lo > cutoff - 1 THEN 0 ELSE (cutoff - 1) - lo + 1
    BY <2>1, FS_Interval
  <2> HIDE DEF f
  <2>6. Cardinality(gone) =< Cardinality(lo..(cutoff - 1))
    BY <2>4, <2>5, FS_Injection
  <2>7. Cardinality(lo..(cutoff - 1)) = purged
    BY <1>1, <2>5
  <2> QED BY <2>6, <2>7
<1> QED BY <1>5, <1>6

\* With the write-ahead log, and with write() and truncateOldest() excluding
\* each other, a truncation deletes from the old end only, and of what retention
\* keeps no more packets than it reports.
THEOREM TruncationOldestFirst ==
  ASSUME SingleWriter
  PROVE  Spec => TruncatesOldestFirst
<1> DEFINE Purges ==
      (useWAL /\ truncating = "commit" /\ truncating' = "packets") =>
         LET gone == Live(packets) \ packets'
             kept == Live(packets) \cap packets'
         IN  /\ \A p \in gone, q \in kept : p.seq < q.seq
             /\ Cardinality(gone) =< purged
<1> DEFINE Inv == TypeOK /\ CutoffInv /\ (useWAL => CoverInv /\ NumberInv)
<1>1. Init => Inv
  BY InitType, InitCover DEF Init, NumberInv, Numbered, Live, CutoffInv
<1>2. Inv /\ [Next]_vars => Inv'
  BY TypeStep, CutoffStep, CoverStep, NumberStep, SettingStep
<1>3. Inv /\ [Next]_vars => [Purges]_vars
  BY CommitIsTruncateCommit, TruncationFromOldEnd
<1> HIDE DEF Purges, Inv
<1>4. Spec => [][Purges]_vars
  BY <1>1, <1>2, <1>3, PTL DEF Spec
<1> QED BY <1>4 DEF TruncatesOldestFirst, Purges


----------------------------------------------------------------------------
(***************************************************************************)
(* What flush() made durable.  This needs no write-ahead log, only that     *)
(* write() and truncateOldest() exclude each other.  A flush may fall       *)
(* between any two of their steps, so the invariant relates the registry of *)
(* the moment to what they have read from it before.                        *)
(***************************************************************************)
AllKeyed == \A p \in packets \cup diskPackets : p.key \in StreamKeys

\* Entry m accounts for all that entry e accounts for.
Within(e, m) == m.min =< e.min /\ e.max =< m.max /\ e.last =< m.last

\* A write() in progress will not narrow an entry.
MergedWider ==
    \A s \in StreamKeys : merged[s] # Absent /\ registry[s] # Absent =>
        Within(registry[s], merged[s])

\* A truncation in progress has read the entries as they are, but for the ones
\* that retention has dropped since.
SnapshotCurrent ==
    truncating = "commit" =>
        \A s \in StreamKeys : registry[s] # Absent => registry[s] = snapshot[s]

\* What is flushed is visible as well.
FlushedVisible ==
    Initialized => \A p \in Live(flushed) : p \in packets /\ Covers(registry, p)

FlushInv ==
    /\ TypeOK /\ Exclusive /\ AllKeyed /\ MergedWider /\ SnapshotCurrent
    /\ FlushedSurvives /\ FlushedVisible

\* write() and truncateOldest() keep out of each other's way.
LEMMA ExclusiveStep ==
  ASSUME SingleWriter
  PROVE  TypeOK /\ Exclusive /\ [Next]_vars => Exclusive'
<1> SUFFICES ASSUME TypeOK, Exclusive, [Next]_vars PROVE Exclusive'
  OBVIOUS
<1>1. CASE \/ \E overWrite \in BOOLEAN : Open(overWrite) \/ OpenFail(overWrite)
           \/ Resume \/ (\E k \in StreamKeys \cup Unkeyable : Receive(k)) \/ DropPending
           \/ CompactPackets \/ CompactStreams
           \/ FlushPackets \/ FlushStreams \/ FlushFail \/ BackgroundFlush \/ Tick
           \/ UNCHANGED vars
  <2>1. UNCHANGED <<writeVars, truncVars>>
    BY <1>1 DEF Open, OpenFail, Resume, Receive, DropPending, CompactPackets, CompactStreams,
         FlushPackets, FlushStreams, FlushFail, BackgroundFlush, Tick, vars
  <2>2. phase' # "serving" => phase # "serving" /\ pending' = pending
    BY <1>1 DEF Open, OpenFail, Resume, Receive, DropPending, CompactPackets, CompactStreams,
         FlushPackets, FlushStreams, FlushFail, BackgroundFlush, Tick, vars, callerVars
  <2> QED BY <2>1, <2>2 DEF Exclusive, writeVars, truncVars
<1>2. CASE Write
  <2>1. ASSUME NEW B \in SUBSET pending, WriteBegin(B) PROVE Exclusive'
    BY <2>1 DEF WriteBegin, Exclusive, truncVars
  <2>2. ASSUME NEW s \in StreamKeys, WriteGet(s) PROVE Exclusive'
    BY <2>2 DEF WriteGet, KeysOf, Keyed, Exclusive, truncVars, callerVars
  <2>3. CASE WriteCommit \/ WriteFail
    BY <2>3 DEF WriteCommit, WriteFail, NoEntries, Exclusive, truncVars
  <2> QED BY <1>2, <2>1, <2>2, <2>3 DEF Write
<1>3. CASE Truncate
  <2>1. ASSUME NEW n \in ChunkSizes, TruncateBegin(n) PROVE Exclusive'
    BY <2>1 DEF TruncateBegin, Exclusive, callerVars, writeVars
  <2>2. CASE TruncateCommit \/ TruncateFail \/ TruncateCompactPackets \/ TruncateCompactStreams
    BY <2>2 DEF TruncateCommit, TruncateFail, TruncateCompactPackets, TruncateCompactStreams,
                Exclusive, callerVars, writeVars
  <2> QED BY <1>3, <2>1, <2>2 DEF Truncate
<1>4. CASE Close \/ Crash
  BY <1>4 DEF Close, Crash, Forget, NoEntries, Exclusive
<1> QED BY <1>1, <1>2, <1>3, <1>4 DEF Next, Step

\* A packet that an entry covers is covered by a wider one.
LEMMA WiderCovers ==
  ASSUME NEW p \in Packet, NEW reg \in Registry, NEW r \in Registry, p.key \in StreamKeys,
         Covers(reg, p), r[p.key] # Absent, Within(reg[p.key], r[p.key])
  PROVE  Covers(r, p)
<1>1. reg[p.key] \in Entry /\ r[p.key] \in Entry
  BY DEF Covers, Registry
<1> QED BY <1>1 DEF Covers, Within, Entry, Packet

\* CompactRange on the packets family.
LEMMA CompactPacketsFlushed ==
  ASSUME FlushInv, Initialized, CompactRangePackets,
         UNCHANGED <<phase, merged, now>>,
         truncating' = "commit" => truncating = "commit" /\ snapshot' = snapshot
  PROVE  AllKeyed' /\ MergedWider' /\ SnapshotCurrent' /\ FlushedSurvives' /\ FlushedVisible'
<1>1. /\ packets' \subseteq packets /\ diskPackets' = packets' /\ flushed' = flushed \cap packets'
      /\ UNCHANGED <<registry, diskRegistry>>
  BY DEF CompactRangePackets
<1>2. AllKeyed' /\ MergedWider' /\ SnapshotCurrent'
  BY <1>1 DEF FlushInv, AllKeyed, MergedWider, Within, SnapshotCurrent
<1>3. FlushedSurvives' /\ FlushedVisible'
  BY <1>1 DEF FlushInv, FlushedSurvives, FlushedVisible, Live, Expired, Covers
<1> QED BY <1>2, <1>3

\* CompactRange on the streams family: an entry goes only when all that it
\* accounts for has expired.
LEMMA CompactStreamsFlushed ==
  ASSUME FlushInv, Initialized, CompactRangeStreams,
         UNCHANGED <<phase, merged, now>>,
         truncating' = "commit" => truncating = "commit" /\ snapshot' = snapshot
  PROVE  AllKeyed' /\ MergedWider' /\ SnapshotCurrent' /\ FlushedSurvives' /\ FlushedVisible'
<1>1. PICK D \in SUBSET {s \in Registered(registry) : Expired(registry[s].last)} :
        registry' = [s \in StreamKeys |-> IF s \in D THEN Absent ELSE registry[s]]
  BY DEF CompactRangeStreams
<1>2. diskRegistry' = registry' /\ UNCHANGED <<packets, diskPackets, flushed>>
  BY DEF CompactRangeStreams
<1>3. AllKeyed' /\ MergedWider' /\ SnapshotCurrent'
  BY <1>1, <1>2 DEF FlushInv, AllKeyed, MergedWider, Within, SnapshotCurrent
<1>4. ASSUME NEW p \in Live(flushed)
      PROVE  p \in packets /\ p \in diskPackets /\ Covers(registry', p)
  <2>1. /\ p \in Packet /\ p \in packets /\ p \in diskPackets /\ p.key \in StreamKeys
        /\ Covers(registry, p) /\ ~Expired(p.recv)
    BY DEF FlushInv, TypeOK, AllKeyed, FlushedVisible, FlushedSurvives, Live
  <2>2. registry[p.key] \in Entry
    BY <2>1 DEF Covers, FlushInv, TypeOK, Registry
  <2>3. ~Expired(registry[p.key].last)
    BY <2>1, <2>2, StoreAssumption DEF Covers, Expired, Packet, Entry, FlushInv, TypeOK
  <2>4. registry'[p.key] = registry[p.key]
    BY <1>1, <2>1, <2>3
  <2> QED BY <2>1, <2>4 DEF Covers
<1>5. FlushedSurvives' /\ FlushedVisible'
  BY <1>2, <1>4 DEF FlushedSurvives, FlushedVisible, Live, Expired, Covers
<1> QED BY <1>3, <1>5

\* Each step of write().
LEMMA WriteFlushed ==
  ASSUME FlushInv, TypeOK', Exclusive', Write
  PROVE  AllKeyed' /\ MergedWider' /\ SnapshotCurrent' /\ FlushedSurvives' /\ FlushedVisible'
<1>0. Initialized /\ phase' = phase /\ now' = now
  BY DEF Write, WriteBegin, WriteGet, WriteCommit, WriteFail, Initialized
<1>1. ASSUME UNCHANGED <<dbVars, flushed>> PROVE AllKeyed' /\ FlushedSurvives' /\ FlushedVisible'
  BY <1>0, <1>1 DEF FlushInv, AllKeyed, FlushedSurvives, FlushedVisible, Live, Expired, Covers,
       Initialized, dbVars
<1>2. ASSUME NEW B \in SUBSET pending, WriteBegin(B)
      PROVE  AllKeyed' /\ MergedWider' /\ SnapshotCurrent' /\ FlushedSurvives' /\ FlushedVisible'
  <2>1. UNCHANGED <<dbVars, flushed, merged, truncVars>>
    BY <1>2 DEF WriteBegin
  <2> QED BY <1>1, <2>1
    DEF FlushInv, MergedWider, Within, SnapshotCurrent, dbVars, truncVars
<1>3. ASSUME NEW s \in StreamKeys, WriteGet(s)
      PROVE  AllKeyed' /\ MergedWider' /\ SnapshotCurrent' /\ FlushedSurvives' /\ FlushedVisible'
  <2>1. UNCHANGED <<dbVars, flushed, truncVars>>
    BY <1>3 DEF WriteGet
  <2>2. PICK lo, hi, latest \in Of(batch, s) :
          /\ \A p \in Of(batch, s) : lo.seq =< p.seq /\ p.seq =< hi.seq
          /\ merged' = [merged EXCEPT ![s] = Merge(lo, hi, latest, registry[s])]
    BY <1>3 DEF WriteGet
  <2>3. /\ lo \in Packet /\ hi \in Packet /\ latest \in Packet /\ lo.seq =< hi.seq
        /\ registry[s] \in Entry \cup {Absent}
        /\ merged'[s] = Merge(lo, hi, latest, registry[s])
        /\ \A t \in StreamKeys \ {s} : merged'[t] = merged[t]
    BY <2>2 DEF FlushInv, TypeOK, Of, Registry
  <2>4. registry[s] # Absent => Within(registry[s], merged'[s])
    BY <2>3 DEF Merge, Within, Packet, Entry
  <2>5. MergedWider'
    BY <2>1, <2>3, <2>4 DEF FlushInv, MergedWider, Within, dbVars
  <2> QED BY <1>1, <2>1, <2>5 DEF FlushInv, SnapshotCurrent, dbVars, truncVars
<1>4. CASE WriteFail
  <2>1. UNCHANGED <<dbVars, flushed, truncVars>> /\ merged' = NoEntries
    BY <1>4 DEF WriteFail
  <2> QED BY <1>1, <2>1
    DEF FlushInv, MergedWider, SnapshotCurrent, NoEntries, dbVars, truncVars
<1>5. CASE WriteCommit
  <2>1. /\ packets' = Put(packets, Keyed(batch)) /\ merged' = NoEntries /\ batch # {}
        /\ registry' = [s \in StreamKeys |->
                          IF s \in KeysOf(batch) THEN merged[s] ELSE registry[s]]
        /\ \A s \in KeysOf(batch) : merged[s] # Absent
        /\ diskPackets' \in {packets', diskPackets} /\ diskRegistry' \in {registry', diskRegistry}
        /\ flushed' = flushed \cap packets' /\ UNCHANGED truncVars
    BY <1>5 DEF WriteCommit
  <2>2. AllKeyed'
    BY <2>1 DEF FlushInv, AllKeyed, Put, Keyed
  <2>3. truncating = "no" /\ truncating' = "no"
    BY <2>1 DEF FlushInv, Exclusive, truncVars
  <2>4. MergedWider' /\ SnapshotCurrent'
    BY <2>1, <2>3 DEF MergedWider, SnapshotCurrent, NoEntries
  <2>5. ASSUME NEW p \in Live(flushed), p \in packets'
        PROVE  p \in diskPackets' /\ Covers(registry', p) /\ Covers(diskRegistry', p)
    <3>1. /\ p \in Packet /\ p \in diskPackets /\ p.key \in StreamKeys
          /\ Covers(registry, p) /\ Covers(diskRegistry, p)
      BY <1>0 DEF FlushInv, TypeOK, AllKeyed, FlushedVisible, FlushedSurvives, Live
    <3>2. Covers(registry', p)
      <4>1. CASE p.key \in KeysOf(batch)
        <5>1. /\ registry[p.key] # Absent /\ merged[p.key] # Absent
              /\ registry'[p.key] = merged[p.key]
          BY <2>1, <3>1, <4>1 DEF Covers
        <5>2. Within(registry[p.key], registry'[p.key])
          BY <3>1, <5>1 DEF FlushInv, MergedWider
        <5>3. registry \in Registry /\ registry' \in Registry
          BY DEF FlushInv, TypeOK
        <5> QED BY <3>1, <5>1, <5>2, <5>3, WiderCovers
      <4>2. CASE p.key \notin KeysOf(batch)
        BY <2>1, <3>1, <4>2 DEF Covers
      <4> QED BY <4>1, <4>2
    <3> QED BY <2>1, <2>5, <3>1, <3>2
  <2>6. FlushedSurvives' /\ FlushedVisible'
    BY <1>0, <2>1, <2>5 DEF FlushedSurvives, FlushedVisible, Live, Expired, Covers
  <2> QED BY <2>2, <2>4, <2>6
<1> QED BY <1>2, <1>3, <1>4, <1>5 DEF Write


\* Each step of truncateOldest().
LEMMA TruncateFlushed ==
  ASSUME FlushInv, TypeOK', Exclusive', Truncate
  PROVE  AllKeyed' /\ MergedWider' /\ SnapshotCurrent' /\ FlushedSurvives' /\ FlushedVisible'
<1>0. Initialized /\ phase' = phase /\ now' = now /\ merged' = merged
  BY DEF Truncate, TruncateBegin, TruncateCommit, TruncateFail, TruncateCompactPackets,
         TruncateCompactStreams, Initialized, writeVars
<1>1. ASSUME UNCHANGED <<dbVars, flushed>>
      PROVE  AllKeyed' /\ MergedWider' /\ FlushedSurvives' /\ FlushedVisible'
  BY <1>0, <1>1 DEF FlushInv, AllKeyed, MergedWider, Within, FlushedSurvives, FlushedVisible,
       Live, Expired, Covers, Initialized, dbVars
<1>2. ASSUME NEW n \in ChunkSizes, TruncateBegin(n)
      PROVE  AllKeyed' /\ MergedWider' /\ SnapshotCurrent' /\ FlushedSurvives' /\ FlushedVisible'
  <2>1. UNCHANGED <<dbVars, flushed>> /\ snapshot' = registry
    BY <1>2 DEF TruncateBegin
  <2> QED BY <1>1, <2>1 DEF SnapshotCurrent, dbVars
<1>3. CASE TruncateFail
  <2>1. UNCHANGED <<dbVars, flushed>> /\ truncating' = "no"
    BY <1>3 DEF TruncateFail
  <2> QED BY <1>1, <2>1 DEF SnapshotCurrent
<1>4. CASE TruncateCommit
  <2>1. /\ truncating = "commit" /\ truncating' = "packets"
        /\ packets' = DeleteRanges(packets) /\ flushed' = flushed \cap packets'
        /\ registry' = [s \in StreamKeys |->
                          IF Old(s) THEN Advance(snapshot[s]) ELSE registry[s]]
        /\ diskPackets' \in {packets', diskPackets} /\ diskRegistry' \in {registry', diskRegistry}
    BY <1>4 DEF TruncateCommit
  <2>2. AllKeyed' /\ SnapshotCurrent'
    BY <2>1 DEF FlushInv, AllKeyed, DeleteRanges, SnapshotCurrent
  <2>3. MergedWider'
    <3>1. \A s \in StreamKeys : merged[s] = Absent
      BY <2>1 DEF FlushInv, Exclusive
    <3> QED BY <1>0, <3>1 DEF MergedWider
  <2>4. ASSUME NEW p \in Live(flushed), p \in packets'
        PROVE  p \in diskPackets' /\ Covers(registry', p) /\ Covers(diskRegistry', p)
    <3>1. /\ p \in Packet /\ p \in diskPackets /\ p.key \in StreamKeys
          /\ Covers(registry, p) /\ Covers(diskRegistry, p)
      BY <1>0 DEF FlushInv, TypeOK, AllKeyed, FlushedVisible, FlushedSurvives, Live
    <3>2. Covers(registry', p)
      <4>1. CASE Old(p.key)
        <5>1. registry[p.key] # Absent /\ snapshot[p.key] = registry[p.key]
          BY <2>1, <3>1 DEF Covers, FlushInv, SnapshotCurrent
        <5>2. snapshot[p.key] \in Entry /\ cutoff \in Nat /\ p.seq \in Nat
          BY <3>1, <5>1 DEF FlushInv, TypeOK, Registry, Packet
        <5>3. cutoff =< p.seq
          BY <2>1, <2>4, <3>1, <4>1, <5>2 DEF DeleteRanges
        <5>4. p.seq =< snapshot[p.key].max /\ p.recv =< snapshot[p.key].last
          BY <3>1, <5>1 DEF Covers
        <5>5. registry'[p.key] = [min |-> cutoff, max |-> snapshot[p.key].max,
                                  last |-> snapshot[p.key].last]
          BY <2>1, <3>1, <4>1, <5>2, <5>3, <5>4 DEF Advance, Entry
        <5>6. registry'[p.key] # Absent
          BY <5>2, <5>5, StoreAssumption DEF Entry
        <5> QED BY <5>3, <5>4, <5>5, <5>6 DEF Covers
      <4>2. CASE ~Old(p.key)
        BY <2>1, <3>1, <4>2 DEF Covers
      <4> QED BY <4>1, <4>2
    <3> QED BY <2>1, <2>4, <3>1, <3>2
  <2>5. FlushedSurvives' /\ FlushedVisible'
    BY <1>0, <2>1, <2>4 DEF FlushedSurvives, FlushedVisible, Live, Expired, Covers
  <2> QED BY <2>2, <2>3, <2>5
<1>5. CASE TruncateCompactPackets
  <2>1. CompactRangePackets /\ truncating' = "streams"
    BY <1>5 DEF TruncateCompactPackets
  <2> QED BY <1>0, <2>1, CompactPacketsFlushed
<1>6. CASE TruncateCompactStreams
  <2>1. CompactRangeStreams /\ truncating' = "no"
    BY <1>6 DEF TruncateCompactStreams
  <2> QED BY <1>0, <2>1, CompactStreamsFlushed
<1> QED BY <1>2, <1>3, <1>4, <1>5, <1>6 DEF Truncate

\* Every step keeps what was flushed.
LEMMA FlushStep ==
  ASSUME SingleWriter
  PROVE  FlushInv /\ [Next]_vars => FlushInv'
<1> SUFFICES ASSUME FlushInv, [Next]_vars PROVE FlushInv'
  OBVIOUS
<1>0. TypeOK' /\ Exclusive'
  BY TypeStep, ExclusiveStep DEF FlushInv
<1> DEFINE Rest == AllKeyed /\ MergedWider /\ SnapshotCurrent /\ FlushedSurvives /\ FlushedVisible
<1> SUFFICES Rest'
  BY <1>0 DEF FlushInv
<1>1. ASSUME NEW overWrite \in BOOLEAN, Open(overWrite) \/ OpenFail(overWrite) PROVE Rest'
  <2>1. /\ phase = "closed" /\ UNCHANGED <<writeVars, truncVars, now>>
        /\ diskPackets' = IF overWrite THEN {} ELSE diskPackets
        /\ diskRegistry' = IF overWrite THEN NoEntries ELSE diskRegistry
        /\ flushed' = IF overWrite THEN {} ELSE flushed
        /\ \/ packets' = diskPackets' /\ registry' = diskRegistry'
           \/ packets' = packets /\ registry' = registry /\ phase' = "failed"
    BY <1>1 DEF Open, OpenFail, DestroyDB
  <2>2. AllKeyed'
    BY <2>1 DEF FlushInv, AllKeyed
  <2>3. MergedWider' /\ SnapshotCurrent'
    BY <2>1 DEF FlushInv, Exclusive, MergedWider, SnapshotCurrent, writeVars, truncVars
  <2>4. FlushedSurvives'
    BY <2>1 DEF FlushInv, FlushedSurvives, Live, Expired, Covers
  <2>5. FlushedVisible'
    BY <2>1, <2>4 DEF FlushedSurvives, FlushedVisible, Live, Expired, Covers, Initialized
  <2> QED BY <2>2, <2>3, <2>4, <2>5
<1>2. CASE \/ Resume \/ (\E k \in StreamKeys \cup Unkeyable : Receive(k)) \/ DropPending
           \/ FlushFail \/ UNCHANGED vars
  <2>1. UNCHANGED <<dbVars, merged, truncVars, now, flushed>> /\ Initialized' = Initialized
    BY <1>2 DEF Resume, Receive, DropPending, FlushFail, vars, writeVars, Initialized
  <2> QED BY <2>1 DEF FlushInv, AllKeyed, MergedWider, Within, SnapshotCurrent, FlushedSurvives,
        FlushedVisible, Live, Expired, Covers, dbVars, truncVars
<1>3. CASE Write
  BY <1>0, <1>3, WriteFlushed
<1>4. CASE Truncate
  BY <1>0, <1>4, TruncateFlushed
<1>5. CASE CompactPackets
  <2>1. /\ Initialized /\ CompactRangePackets
        /\ UNCHANGED <<phase, merged, snapshot, truncating, now>>
    BY <1>5 DEF CompactPackets, Initialized, writeVars, truncVars
  <2> QED BY <2>1, CompactPacketsFlushed
<1>6. CASE CompactStreams
  <2>1. /\ Initialized /\ CompactRangeStreams
        /\ UNCHANGED <<phase, merged, snapshot, truncating, now>>
    BY <1>6 DEF CompactStreams, Initialized, writeVars, truncVars
  <2> QED BY <2>1, CompactStreamsFlushed
<1>7. CASE FlushPackets \/ FlushStreams \/ BackgroundFlush
  <2>1. /\ Initialized /\ UNCHANGED <<phase, packets, registry, merged, truncVars, now>>
        /\ diskPackets' \in {packets, diskPackets}
        /\ diskRegistry' \in {registry, diskRegistry}
    BY <1>7 DEF FlushPackets, FlushStreams, BackgroundFlush, writeVars
  <2>2. \/ flushed' = flushed
        \/ /\ diskRegistry' = registry /\ diskPackets' = diskPackets
           /\ flushed' = {p \in diskPackets \cap packets : Covers(registry, p)}
    BY <1>7 DEF FlushPackets, FlushStreams, BackgroundFlush
  <2>3. AllKeyed' /\ MergedWider' /\ SnapshotCurrent'
    BY <2>1 DEF FlushInv, AllKeyed, MergedWider, Within, SnapshotCurrent, truncVars
  <2>4. ASSUME NEW p \in flushed', ~Expired(p.recv)
        PROVE  /\ p \in packets /\ p \in diskPackets' /\ Covers(registry, p)
               /\ Covers(diskRegistry', p)
    <3>1. CASE flushed' = flushed
      BY <2>1, <2>4, <3>1 DEF FlushInv, FlushedSurvives, FlushedVisible, Live
    <3>2. CASE /\ diskRegistry' = registry /\ diskPackets' = diskPackets
               /\ flushed' = {q \in diskPackets \cap packets : Covers(registry, q)}
      BY <2>4, <3>2
    <3> QED BY <2>2, <3>1, <3>2
  <2>5. FlushedSurvives' /\ FlushedVisible'
    BY <2>1, <2>4 DEF FlushedSurvives, FlushedVisible, Live, Expired, Covers
  <2> QED BY <2>3, <2>5
<1>8. CASE Close \/ Crash
  <2>1. Forget
    BY <1>8 DEF Close, Crash
  <2>2. AllKeyed' /\ MergedWider' /\ SnapshotCurrent'
    BY <2>1 DEF Forget, FlushInv, AllKeyed, MergedWider, SnapshotCurrent, NoEntries
  <2>3. FlushedSurvives' /\ FlushedVisible'
    BY <2>1 DEF Forget, FlushInv, FlushedSurvives, FlushedVisible, Live, Expired, Covers,
                Initialized
  <2> QED BY <2>2, <2>3
<1>9. CASE Tick
  <2>1. /\ UNCHANGED <<phase, dbVars, writeVars, truncVars, flushed>>
        /\ now' = now + 1 /\ now \in Nat /\ flushed \subseteq Packet
    BY <1>9 DEF Tick, FlushInv, TypeOK
  <2>2. Live(flushed)' \subseteq Live(flushed)
    BY <2>1, StoreAssumption DEF Live, Expired, Packet
  <2>3. AllKeyed' /\ MergedWider' /\ SnapshotCurrent'
    BY <2>1 DEF FlushInv, AllKeyed, MergedWider, Within, SnapshotCurrent, dbVars, writeVars,
                truncVars
  <2>4. FlushedSurvives' /\ FlushedVisible'
    BY <2>1, <2>2 DEF FlushInv, FlushedSurvives, FlushedVisible, Covers, Initialized, dbVars
  <2> QED BY <2>3, <2>4
<1> QED
  BY <1>1, <1>2, <1>3, <1>4, <1>5, <1>6, <1>7, <1>8, <1>9 DEF Next, Step

\* With or without the write-ahead log, what a completed flush() covered is on
\* disk together with a registry entry that accounts for it, through writes,
\* truncations, compactions, background flushes and crashes at any moment, as
\* long as write() and truncateOldest() exclude each other.
THEOREM FlushDurable ==
  ASSUME SingleWriter
  PROVE  Spec => []FlushedSurvives
<1>1. Init => FlushInv
  <2> SUFFICES ASSUME Init PROVE FlushInv
    OBVIOUS
  <2>1. TypeOK
    BY InitType
  <2> QED BY <2>1 DEF Init, FlushInv, Exclusive, AllKeyed, MergedWider, SnapshotCurrent,
        FlushedSurvives, FlushedVisible, Live, NoEntries
<1>2. FlushInv => FlushedSurvives
  BY DEF FlushInv
<1> QED BY <1>1, <1>2, FlushStep, PTL DEF Spec

=============================================================================
