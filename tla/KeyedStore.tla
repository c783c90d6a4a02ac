----------------------------- MODULE KeyedStore -----------------------------
(***************************************************************************)
(* The column families of src/src/rocksDatabase.cpp down to their keys:     *)
(* what write(), truncateOldest(), query() and queryAvailableStreams() do   *)
(* with ordered byte strings.  Here a write or a truncation is one step;    *)
(* module RocksDatabase has their interleavings, failures and crashes.      *)
(* Queries run on consumer threads: each iterator of a query is a step that *)
(* opens it and a step for each packet, with writes in between.             *)
(***************************************************************************)
EXTENDS StreamKeys, FiniteSets

CONSTANTS
    Identifiers,   \* the identifiers of packets and of queries
    Times,         \* receipt times
    FirstNumber,   \* the number before the first packet's
    LastNumber,    \* bound: the last number handed out
    ChunkSizes,    \* arguments of truncateOldest()
    Starts,        \* sequence numbers queries start from
    MaxAsked       \* bound: identifiers in a query

ASSUME KeyedStoreAssumption ==
    /\ Identifiers \subseteq Identifier
    /\ Times \subseteq Nat
    /\ FirstNumber \in Nat /\ LastNumber \in Nat /\ FirstNumber =< LastNumber
    /\ LastNumber + 1 < Base^SeqWidth
    /\ ChunkSizes \subseteq Nat \ {0}
    /\ Starts \subseteq 0..LastNumber
    /\ MaxAsked \in Nat

VARIABLES
    packets,     \* the packets family: a function from keys to packets
    streams,     \* the registry: a function from keys to entries
    counter,     \* the last number handed out
    querying,    \* a query() is under way
    asked,       \* identifiers it has looked at
    prefix,      \* the stream key its iterator is on, NoKey if it has none
    unread,      \* what the iterator has before it
    responses,
    \* Observer, read by no action:
    due          \* what the responses should be

tables    == <<packets, streams, counter>>
queryVars == <<querying, asked, prefix, unread, responses, due>>
vars == <<tables, queryVars>>

----------------------------------------------------------------------------
Empty == <<>>   \* the function with an empty domain

With(f, k, v)  == [x \in DOMAIN f \cup {k} |-> IF x = k THEN v ELSE f[x]]
Without(f, K)  == [x \in DOMAIN f \ K |-> f[x]]

Least(K) == CHOOSE k \in K : \A j \in K : j = k \/ Before(k, j)

\* The stored packets as the store's users see them: by stream name.
Named(p)     == [name |-> ToString(p.id), seq |-> p.seq, recv |-> p.recv]
Contents     == {Named(packets[k]) : k \in DOMAIN packets}
Abstract == INSTANCE PacketStore
                WITH stored <- Contents,
                     answer <- IF querying THEN <<>> ELSE responses

----------------------------------------------------------------------------
Init ==
    /\ packets = Empty /\ streams = Empty /\ counter = FirstNumber
    /\ querying = FALSE /\ asked = 0 /\ prefix = NoKey /\ unread = Empty
    /\ responses = <<>> /\ due = <<>>

\* The registry entry after a packet with number n, received at t.
Merged(key, n, t) ==
    IF key \in DOMAIN streams
    THEN [min  |-> IF n < streams[key].min THEN n ELSE streams[key].min,
          max  |-> IF n > streams[key].max THEN n ELSE streams[key].max,
          last |-> IF t > streams[key].last THEN t ELSE streams[key].last]
    ELSE [min |-> n, max |-> n, last |-> t]

(***************************************************************************)
(* A valid packet is numbered and written.  If its identifier has no key it *)
(* is not written and leaves a gap in the numbers.                          *)
(***************************************************************************)
Write(id, complete, t) ==
    /\ IsValid(id, complete) /\ counter < LastNumber
    /\ counter' = counter + 1
    /\ IF ToPacketKey(id, counter') = NoKey
       THEN UNCHANGED <<packets, streams>>
       ELSE /\ packets' = With(packets, ToPacketKey(id, counter'),
                               [id |-> id, seq |-> counter', recv |-> t])
            /\ streams' = With(streams, ToStreamKey(id),
                               Merged(ToStreamKey(id), counter', t))
    /\ UNCHANGED queryVars

\* DeleteRange: the keys from first up to but not including last.
InRange(first, last) ==
    {k \in DOMAIN packets : ~Before(k, first) /\ Before(k, last)}

TruncateOldest(n) ==
    /\ streams # Empty
    /\ LET keys == DOMAIN streams
           globalMin == CHOOSE m \in {streams[k].min : k \in keys} :
                            \A k \in keys : m =< streams[k].min
           globalMax == CHOOSE m \in {streams[k].max : k \in keys} :
                            \A k \in keys : streams[k].max =< m
           cutoff == IF globalMin + n > globalMax + 1 THEN globalMax + 1
                                                      ELSE globalMin + n
           old == {k \in keys : streams[k].min < cutoff}
       IN  /\ packets' = Without(packets,
                             UNION {InRange(k \o BigEndian(0), k \o BigEndian(cutoff)) :
                                    k \in old})
           /\ streams' = [k \in {k \in keys : k \in old => streams[k].max >= cutoff} |->
                            IF k \in old THEN [streams[k] EXCEPT !.min = cutoff]
                                         ELSE streams[k]]
    /\ UNCHANGED <<counter, queryVars>>

(***************************************************************************)
(* query(): for each identifier a new iterator, which sees the family as it *)
(* is when it is opened, from the key of the identifier and the number.     *)
(* An identifier without a key is skipped.                                  *)
(***************************************************************************)
QueryBegin ==
    /\ ~querying
    /\ querying' = TRUE
    /\ asked' = 0 /\ responses' = <<>> /\ due' = <<>>
    /\ UNCHANGED <<tables, prefix, unread>>

QuerySeek(id, start) ==
    /\ querying /\ prefix = NoKey /\ asked < MaxAsked
    /\ asked' = asked + 1
    /\ prefix' = ToStreamKey(id)
    /\ unread' = IF ToStreamKey(id) = NoKey THEN Empty
                 ELSE Without(packets, {k \in DOMAIN packets :
                                            Before(k, ToPacketKey(id, start))})
    /\ due' = due \o Abstract!InOrder(Abstract!Matching(Contents, ToString(id), start))
    /\ UNCHANGED <<tables, querying, responses>>

\* Faulty variant: does not look at the prefix.
QueryNextBleeds ==
    /\ prefix # NoKey /\ unread # Empty
    /\ LET k == Least(DOMAIN unread)
       IN  /\ responses' = Append(responses,
                                  [Named(unread[k]) EXCEPT
                                      !.seq = ReadBigEndian(k, StreamKeyLength)])
           /\ unread' = Without(unread, {k})
    /\ UNCHANGED <<tables, querying, asked, prefix, due>>

QueryNext ==
    /\ prefix # NoKey /\ unread # Empty
    /\ LET k == Least(DOMAIN unread)
       IN  /\ StartsWith(k, prefix)
           /\ responses' = Append(responses,
                                  [Named(unread[k]) EXCEPT
                                      !.seq = ReadBigEndian(k, StreamKeyLength)])
           /\ unread' = Without(unread, {k})
    /\ UNCHANGED <<tables, querying, asked, prefix, due>>

\* The end of the family or the first key of another stream.
QueryBreak ==
    /\ prefix # NoKey
    /\ unread # Empty => ~StartsWith(Least(DOMAIN unread), prefix)
    /\ prefix' = NoKey /\ unread' = Empty
    /\ UNCHANGED <<tables, querying, asked, responses, due>>

QueryReturn ==
    /\ querying /\ prefix = NoKey
    /\ querying' = FALSE
    /\ UNCHANGED <<tables, asked, prefix, unread, responses, due>>

\* queryAvailableStreams(): the registry, each key decoded.
QueryAvailableStreams ==
    {[name |-> FromStreamKey(k), last |-> streams[k].last] : k \in DOMAIN streams}

----------------------------------------------------------------------------
Query ==
    \/ QueryBegin
    \/ \E id \in Identifiers, start \in Starts : QuerySeek(id, start)
    \/ QueryNext
    \/ QueryBreak
    \/ QueryReturn

Next ==
    \/ \E id \in Identifiers, complete \in BOOLEAN, t \in Times : Write(id, complete, t)
    \/ \E n \in ChunkSizes : TruncateOldest(n)
    \/ Query

Spec == Init /\ [][Next]_vars

----------------------------------------------------------------------------
Key(length)  == [1..length -> Byte]
StoredPacket == [id : Identifiers, seq : Nat, recv : Times]

\* Types; the keys of each family have its fixed length.
TypeOK ==
    /\ \A k \in DOMAIN packets : k \in Key(PacketKeyLength) /\ packets[k] \in StoredPacket
    /\ \A k \in DOMAIN streams : /\ k \in Key(StreamKeyLength)
                                 /\ streams[k] \in [min : Nat, max : Nat, last : Times]
    /\ counter \in FirstNumber..LastNumber
    /\ querying \in BOOLEAN /\ asked \in 0..MaxAsked
    /\ prefix = NoKey \/ prefix \in Key(StreamKeyLength)
    /\ DOMAIN unread \subseteq Key(PacketKeyLength)

\* queryAvailableStreams() names exactly the streams that have packets, each
\* once however its publishers spell it, and says they were received no earlier
\* than any packet that is still there.
ListingExact ==
    /\ {s.name : s \in QueryAvailableStreams} = {p.name : p \in Contents}
    /\ \A s, r \in QueryAvailableStreams : s.name = r.name => s = r
    /\ \A s \in QueryAvailableStreams, p \in Contents :
           s.name = p.name => p.recv =< s.last

\* With its byte keys the store is the set of named packets it is meant to be:
\* no key stands for two packets, truncation removes the oldest of all streams
\* and nothing else, and a query returns just the packets of the streams asked
\* for, from the given number on, by increasing number.
ImplementsPacketStore == Abstract!Spec

=============================================================================
