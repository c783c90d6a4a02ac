-------------------------- MODULE KeyedStoreProofs --------------------------
(***************************************************************************)
(* Theorems about KeyedStore, for every width, alphabet and set of          *)
(* identifiers and any number of packets that fits in its bytes.            *)
(***************************************************************************)
EXTENDS KeyedStore, StreamKeysProofs, FiniteSetTheorems

----------------------------------------------------------------------------
(***************************************************************************)
(* The two families.                                                        *)
(***************************************************************************)

\* A packet is under its own key.
PacketsKeyed ==
    /\ packets = [k \in DOMAIN packets |-> packets[k]]
    /\ \A k \in DOMAIN packets :
         /\ packets[k] \in StoredPacket
         /\ ToStreamKey(packets[k].id) # NoKey
         /\ k = ToStreamKey(packets[k].id) \o BigEndian(packets[k].seq)
         /\ packets[k].seq =< counter

\* An entry of the registry is under the key of a stream.
EntriesKeyed ==
    /\ streams = [k \in DOMAIN streams |-> streams[k]]
    /\ \A k \in DOMAIN streams :
         /\ streams[k] \in [min : Nat, max : Nat, last : Times]
         /\ streams[k].min =< streams[k].max /\ streams[k].max =< counter
         /\ \E id \in Identifiers : ToStreamKey(id) = k /\ k # NoKey

\* Every packet is within the entry of its stream.
EntriesCover ==
    \A k \in DOMAIN packets :
        LET key == ToStreamKey(packets[k].id)
        IN  /\ key \in DOMAIN streams
            /\ streams[key].min =< packets[k].seq /\ packets[k].seq =< streams[key].max
            /\ packets[k].recv =< streams[key].last

\* The newest packet that an entry speaks of is there.
NewestKept ==
    \A key \in DOMAIN streams :
        \E k \in DOMAIN packets : /\ ToStreamKey(packets[k].id) = key
                                  /\ packets[k].seq = streams[key].max

StoreInv ==
    /\ counter \in FirstNumber..LastNumber
    /\ PacketsKeyed /\ EntriesKeyed /\ EntriesCover /\ NewestKept

\* The numbers handed out fit in the bytes of a key.
LEMMA NumbersFit ==
  ASSUME StoreInv
  PROVE  /\ counter \in Nat /\ LastNumber \in Nat /\ counter =< LastNumber
         /\ Base^SeqWidth \in Nat
         /\ \A n \in Nat : n =< LastNumber + 1 => n < Base^SeqWidth
<1>1. SeqWidth \in 0..SeqWidth /\ Base^SeqWidth \in Nat
  BY KeyAssumption, PowerType
<1> QED BY <1>1, KeyedStoreAssumption DEF StoreInv

\* A packet that is stored.
LEMMA StoredFacts ==
  ASSUME StoreInv, NEW k \in DOMAIN packets
  PROVE  /\ packets[k].id \in Identifiers /\ packets[k].id \in Identifier
         /\ packets[k].seq \in Nat /\ packets[k].recv \in Times
         /\ packets[k].seq < Base^SeqWidth /\ packets[k].seq =< counter
         /\ ToStreamKey(packets[k].id) # NoKey
         /\ ToStreamKey(packets[k].id) \in Seq(Byte)
         /\ Len(ToStreamKey(packets[k].id)) = StreamKeyLength
         /\ k = ToStreamKey(packets[k].id) \o BigEndian(packets[k].seq)
<1>1. /\ packets[k].id \in Identifiers /\ packets[k].seq \in Nat /\ packets[k].recv \in Times
      /\ ToStreamKey(packets[k].id) # NoKey /\ packets[k].seq =< counter
      /\ k = ToStreamKey(packets[k].id) \o BigEndian(packets[k].seq)
  BY DEF StoreInv, PacketsKeyed, StoredPacket
<1>2. packets[k].id \in Identifier
  BY <1>1, KeyedStoreAssumption
<1>3. packets[k].seq < Base^SeqWidth
  BY <1>1, NumbersFit
<1> QED BY <1>1, <1>2, <1>3, StreamKeyFacts

\* An entry of the registry.
LEMMA EntryFacts ==
  ASSUME StoreInv, NEW key \in DOMAIN streams
  PROVE  /\ streams[key].min \in Nat /\ streams[key].max \in Nat
         /\ streams[key].last \in Times
         /\ streams[key].min =< streams[key].max /\ streams[key].max =< counter
         /\ key \in Seq(Byte) /\ Len(key) = StreamKeyLength /\ key # NoKey
         /\ \E id \in Identifiers : id \in Identifier /\ ToStreamKey(id) = key
<1>1. PICK id \in Identifiers : ToStreamKey(id) = key /\ key # NoKey
  BY DEF StoreInv, EntriesKeyed
<1>2. id \in Identifier
  BY KeyedStoreAssumption
<1>3. key \in Seq(Byte) /\ Len(key) = StreamKeyLength
  BY <1>1, <1>2, StreamKeyFacts
<1> QED BY <1>1, <1>2, <1>3 DEF StoreInv, EntriesKeyed

\* Between two keys with the same first part are only keys with that part.
LEMMA OtherPrefix ==
  ASSUME NEW j \in Seq(Byte), NEW k \in Seq(Byte), Len(j) = Len(k), j # k,
         NEW s \in Seq(Byte), NEW t \in Seq(Byte), NEW u \in Seq(Byte),
         Len(t) = Len(s), Len(u) = Len(s), Before(j \o s, k \o t)
  PROVE  Before(j \o s, k \o u)
<1>1. PICK i \in 1..Len(k \o t) : /\ (j \o s)[i] < (k \o t)[i]
                                  /\ \A h \in 1..(i - 1) : (j \o s)[h] = (k \o t)[h]
  BY DEF Before
<1>2. /\ Len(k) \in Nat /\ Len(s) \in Nat /\ Len(k \o t) = Len(k) + Len(s)
      /\ Len(k \o u) = Len(k) + Len(s)
  <2>1. Len(k \o t) = Len(k) + Len(t) /\ Len(k \o u) = Len(k) + Len(u)
    BY JoinedFacts
  <2> QED BY <2>1
<1>3. CASE i =< Len(k)
  <2>1. i \in 1..Len(k) /\ i \in 1..Len(k \o u) /\ \A h \in 1..(i - 1) : h \in 1..Len(k)
    BY <1>1, <1>2, <1>3
  <2>2. (k \o u)[i] = (k \o t)[i] /\ \A h \in 1..(i - 1) : (k \o u)[h] = (k \o t)[h]
    BY <2>1, JoinedFacts
  <2> QED BY <1>1, <2>1, <2>2 DEF Before
<1>4. CASE ~(i =< Len(k))
  <2>1. \A h \in 1..Len(k) : h \in 1..(i - 1) /\ h \in 1..Len(j)
    BY <1>1, <1>2, <1>4
  <2>2. \A h \in 1..Len(k) : (j \o s)[h] = j[h] /\ (k \o t)[h] = k[h]
    BY <2>1, JoinedFacts
  <2>3. \A h \in 1..Len(k) : j[h] = k[h]
    BY <1>1, <2>1, <2>2
  <2>4. j = k
    BY <2>3, SeqEqual
  <2> QED BY <2>4
<1> QED BY <1>2, <1>3, <1>4

\* DeleteRange from the number 0 up to c of one stream is just that: it leaves the
\* packets of other streams alone.
LEMMA RangeOfStream ==
  ASSUME StoreInv, NEW key \in DOMAIN streams, NEW c \in Nat, c < Base^SeqWidth
  PROVE  InRange(key \o BigEndian(0), key \o BigEndian(c)) =
           {k \in DOMAIN packets : ToStreamKey(packets[k].id) = key /\ packets[k].seq < c}
<1>1. key \in Seq(Byte) /\ Len(key) = StreamKeyLength
  BY EntryFacts
<1>2. ASSUME NEW k \in DOMAIN packets
      PROVE  (~Before(k, key \o BigEndian(0)) /\ Before(k, key \o BigEndian(c))) <=>
               (ToStreamKey(packets[k].id) = key /\ packets[k].seq < c)
  <2> DEFINE own == ToStreamKey(packets[k].id)   n == packets[k].seq
  <2>1. /\ own \in Seq(Byte) /\ Len(own) = StreamKeyLength /\ k = own \o BigEndian(n)
        /\ n \in Nat /\ n < Base^SeqWidth
    BY StoredFacts
  <2>2. 0 \in Nat /\ 0 < Base^SeqWidth
    BY NumbersFit
  <2> HIDE DEF own, n
  <2>3. CASE own = key
    <3>1. ~Before(k, key \o BigEndian(0))
      BY <1>1, <2>1, <2>2, <2>3, KeysOrderNumbers
    <3>2. Before(k, key \o BigEndian(c)) <=> n < c
      BY <1>1, <2>1, <2>3, KeysOrderNumbers
    <3> QED BY <2>3, <3>1, <3>2 DEF own, n
  <2>4. CASE own # key
    <3>1. /\ BigEndian(n) \in Seq(Byte) /\ Len(BigEndian(n)) = SeqWidth
          /\ BigEndian(c) \in Seq(Byte) /\ Len(BigEndian(c)) = SeqWidth
          /\ BigEndian(0) \in Seq(Byte) /\ Len(BigEndian(0)) = SeqWidth
      BY <2>1, <2>2, BigEndianType
    <3>2. Before(k, key \o BigEndian(c)) => Before(k, key \o BigEndian(0))
      BY <1>1, <2>1, <2>4, <3>1, OtherPrefix
    <3> QED BY <2>4, <3>2 DEF own
  <2> QED BY <2>3, <2>4
<1> QED BY <1>2 DEF InRange

\* The entry of a stream after its next packet speaks of that packet, and of all
\* that it spoke of before.
LEMMA MergedFacts ==
  ASSUME StoreInv, NEW key, NEW n \in Nat, counter < n, NEW t \in Times
  PROVE  LET m == Merged(key, n, t)
         IN  /\ m \in [min : Nat, max : Nat, last : Times]
             /\ m.max = n /\ m.min =< n /\ t =< m.last
             /\ key \in DOMAIN streams => /\ m.min =< streams[key].min
                                          /\ streams[key].last =< m.last
<1>1. n \in Nat /\ t \in Nat /\ Times \subseteq Nat /\ counter \in Nat
  BY NumbersFit, KeyedStoreAssumption
<1>2. CASE key \in DOMAIN streams
  <2>1. /\ streams[key].min \in Nat /\ streams[key].max \in Nat /\ streams[key].last \in Times
        /\ streams[key].max =< counter
    BY <1>2, EntryFacts
  <2>2. streams[key].last \in Nat
    BY <1>1, <2>1
  <2>3. streams[key].max < n
    BY <1>1, <2>1
  <2> QED BY <1>1, <1>2, <2>1, <2>2, <2>3 DEF Merged
<1>3. CASE key \notin DOMAIN streams
  BY <1>1, <1>3 DEF Merged
<1> QED BY <1>2, <1>3

\* A packet of a stream with a key is written under it, and the registry follows.
LEMMA WriteStore ==
  ASSUME StoreInv, NEW id \in Identifiers, NEW complete \in BOOLEAN, NEW t \in Times,
         Write(id, complete, t)
  PROVE  StoreInv'
<1> DEFINE n == counter + 1   key == ToStreamKey(id)   pk == key \o BigEndian(n)
           new == [id |-> id, seq |-> n, recv |-> t]   m == Merged(key, n, t)
<1>1. /\ counter \in Nat /\ n \in Nat /\ counter' = n /\ counter < n
      /\ counter' \in FirstNumber..LastNumber
  BY NumbersFit, KeyedStoreAssumption DEF Write, StoreInv
<1>2. CASE ToPacketKey(id, n) = NoKey
  <2>1. UNCHANGED <<packets, streams>>
    BY <1>1, <1>2 DEF Write
  <2>2. \A k \in DOMAIN packets : packets[k].seq \in Nat
    BY StoredFacts
  <2>3. \A k \in DOMAIN streams : streams[k].max \in Nat
    BY EntryFacts
  <2>4. PacketsKeyed' /\ EntriesKeyed'
    BY <1>1, <2>1, <2>2, <2>3 DEF StoreInv, PacketsKeyed, EntriesKeyed
  <2>5. EntriesCover' /\ NewestKept'
    BY <2>1 DEF StoreInv, EntriesCover, NewestKept
  <2> QED BY <1>1, <2>4, <2>5 DEF StoreInv
<1>3. CASE ToPacketKey(id, n) # NoKey
  <2>1. /\ key # NoKey /\ ToPacketKey(id, n) = pk
        /\ packets' = With(packets, pk, new) /\ streams' = With(streams, key, m)
    BY <1>1, <1>3 DEF Write, ToPacketKey
  <2>2. /\ id \in Identifier /\ key \in Seq(Byte) /\ Len(key) = StreamKeyLength
    BY <2>1, KeyedStoreAssumption, StreamKeyFacts
  <2>3. new \in StoredPacket /\ new.id = id /\ new.seq = n /\ new.recv = t
    BY <1>1 DEF StoredPacket
  <2>4. /\ m \in [min : Nat, max : Nat, last : Times]
        /\ m.max = n /\ m.min =< n /\ t =< m.last
        /\ key \in DOMAIN streams => /\ m.min =< streams[key].min
                                     /\ streams[key].last =< m.last
    BY <1>1, MergedFacts
  <2> HIDE DEF m
  <2> HIDE DEF pk, new, key
  <2>5. /\ DOMAIN packets' = DOMAIN packets \cup {pk} /\ packets'[pk] = new
        /\ \A k \in DOMAIN packets : k # pk => packets'[k] = packets[k]
        /\ packets' = [k \in DOMAIN packets' |-> packets'[k]]
    BY <2>1 DEF With
  <2>6. /\ DOMAIN streams' = DOMAIN streams \cup {key} /\ streams'[key] = m
        /\ \A k \in DOMAIN streams : k # key => streams'[k] = streams[k]
        /\ streams' = [k \in DOMAIN streams' |-> streams'[k]]
    BY <2>1 DEF With
  <2>7. pk = ToStreamKey(new.id) \o BigEndian(new.seq) /\ ToStreamKey(new.id) = key
    BY <2>3 DEF pk, key
  <2>8. PacketsKeyed'
    <3>1. ASSUME NEW k \in DOMAIN packets'
          PROVE  /\ packets'[k] \in StoredPacket
                 /\ ToStreamKey(packets'[k].id) # NoKey
                 /\ k = ToStreamKey(packets'[k].id) \o BigEndian(packets'[k].seq)
                 /\ packets'[k].seq =< counter'
      <4>1. CASE k = pk
        <5>1. packets'[k] = new /\ new.seq =< counter'
          BY <1>1, <2>3, <2>5, <4>1
        <5> QED BY <2>1, <2>3, <2>7, <4>1, <5>1
      <4>2. CASE k # pk
        <5>1. k \in DOMAIN packets /\ packets'[k] = packets[k]
          BY <2>5, <4>2
        <5>2. packets[k].seq \in Nat /\ packets[k].seq =< counter
          BY <5>1, StoredFacts
        <5>3. packets[k] \in StoredPacket
          BY <5>1 DEF StoreInv, PacketsKeyed
        <5>4. /\ ToStreamKey(packets[k].id) # NoKey
              /\ k = ToStreamKey(packets[k].id) \o BigEndian(packets[k].seq)
          BY <5>1, StoredFacts
        <5>5. packets[k].seq =< counter'
          BY <1>1, <5>2
        <5> QED BY <5>1, <5>3, <5>4, <5>5
      <4> QED BY <4>1, <4>2
    <3> QED BY <2>5, <3>1 DEF PacketsKeyed
  <2>9. EntriesKeyed'
    <3>1. ASSUME NEW k \in DOMAIN streams'
          PROVE  /\ streams'[k] \in [min : Nat, max : Nat, last : Times]
                 /\ streams'[k].min =< streams'[k].max /\ streams'[k].max =< counter'
                 /\ \E i \in Identifiers : ToStreamKey(i) = k /\ k # NoKey
      <4>1. CASE k = key
        BY <1>1, <2>1, <2>4, <2>6, <4>1 DEF key
      <4>2. CASE k # key
        <5>1. k \in DOMAIN streams /\ streams'[k] = streams[k]
          BY <2>6, <4>2
        <5>2. streams[k].max \in Nat /\ streams[k].max =< counter
          BY <5>1, EntryFacts
        <5> QED BY <1>1, <5>1, <5>2 DEF StoreInv, EntriesKeyed
      <4> QED BY <4>1, <4>2
    <3> QED BY <2>6, <3>1 DEF EntriesKeyed
  <2>10. EntriesCover'
    <3>1. ASSUME NEW k \in DOMAIN packets', NEW own, own = ToStreamKey(packets'[k].id)
          PROVE  /\ own \in DOMAIN streams'
                 /\ streams'[own].min =< packets'[k].seq
                 /\ packets'[k].seq =< streams'[own].max
                 /\ packets'[k].recv =< streams'[own].last
      <4>1. CASE k = pk
        BY <1>1, <2>3, <2>4, <2>5, <2>6, <2>7, <3>1, <4>1
      <4>2. CASE k # pk
        <5>1. k \in DOMAIN packets /\ packets'[k] = packets[k]
          BY <2>5, <4>2
        <5>2. /\ own \in DOMAIN streams
              /\ streams[own].min =< packets[k].seq /\ packets[k].seq =< streams[own].max
              /\ packets[k].recv =< streams[own].last
          BY <3>1, <5>1 DEF StoreInv, EntriesCover
        <5>3. /\ packets[k].seq \in Nat /\ packets[k].recv \in Nat
              /\ streams[own].min \in Nat /\ streams[own].max \in Nat
              /\ streams[own].last \in Nat /\ packets[k].seq < n
          BY <1>1, <5>1, <5>2, StoredFacts, EntryFacts, KeyedStoreAssumption
        <5>4. m.min \in Nat /\ m.last \in Nat
          BY <2>4, KeyedStoreAssumption
        <5>5. CASE own = key
          BY <2>4, <2>6, <5>1, <5>2, <5>3, <5>4, <5>5
        <5>6. CASE own # key
          BY <2>6, <5>1, <5>2, <5>6
        <5> QED BY <5>5, <5>6
      <4> QED BY <4>1, <4>2
    <3> QED BY <3>1 DEF EntriesCover
  <2>11. NewestKept'
    <3>1. ASSUME NEW q \in DOMAIN streams'
          PROVE  \E k \in DOMAIN packets' : /\ ToStreamKey(packets'[k].id) = q
                                            /\ packets'[k].seq = streams'[q].max
      <4>1. CASE q = key
        BY <2>3, <2>4, <2>5, <2>6, <2>7, <4>1
      <4>2. CASE q # key
        <5>1. q \in DOMAIN streams /\ streams'[q] = streams[q]
          BY <2>6, <4>2
        <5>2. PICK k \in DOMAIN packets : /\ ToStreamKey(packets[k].id) = q
                                          /\ packets[k].seq = streams[q].max
          BY <5>1 DEF StoreInv, NewestKept
        <5>3. k # pk
          <6>1. k = q \o BigEndian(packets[k].seq) /\ packets[k].seq \in Nat
            BY <5>2, StoredFacts
          <6>2. q \in Seq(Byte) /\ Len(q) = StreamKeyLength
            BY <5>1, EntryFacts
          <6>3. /\ BigEndian(n) \in Seq(Byte) /\ BigEndian(packets[k].seq) \in Seq(Byte)
            BY <1>1, <6>1, BigEndianType
          <6>4. q \o BigEndian(packets[k].seq) # key \o BigEndian(n)
            BY <2>2, <4>2, <6>2, <6>3, ConcatCancel
          <6> QED BY <6>1, <6>4 DEF pk
        <5> QED BY <2>5, <5>1, <5>2, <5>3
      <4> QED BY <4>1, <4>2
    <3> QED BY <3>1 DEF NewestKept
  <2> QED BY <1>1, <2>8, <2>9, <2>10, <2>11 DEF StoreInv
<1> QED BY <1>2, <1>3

\* The cutoff of truncateOldest().
GlobalMin == CHOOSE m \in {streams[k].min : k \in DOMAIN streams} :
                 \A k \in DOMAIN streams : m =< streams[k].min
GlobalMax == CHOOSE m \in {streams[k].max : k \in DOMAIN streams} :
                 \A k \in DOMAIN streams : streams[k].max =< m
Cutoff(n) == IF GlobalMin + n > GlobalMax + 1 THEN GlobalMax + 1 ELSE GlobalMin + n

\* The cutoff is between the oldest and the newest number that the registry knows.
LEMMA CutoffFacts ==
  ASSUME StoreInv, streams # Empty, NEW n \in ChunkSizes
  PROVE  /\ Cutoff(n) \in Nat /\ Cutoff(n) < Base^SeqWidth
         /\ \E k \in DOMAIN streams : streams[k].min < Cutoff(n)
<1>1. DOMAIN streams # {}
  <2>1. streams = [k \in DOMAIN streams |-> streams[k]]
    BY DEF StoreInv, EntriesKeyed
  <2>2. ASSUME DOMAIN streams = {} PROVE streams = <<>>
    BY <2>1, <2>2
  <2> QED BY <2>2 DEF Empty
<1>2. \A k \in DOMAIN streams : /\ streams[k].min \in Nat /\ streams[k].max \in Nat
                                /\ streams[k].min =< streams[k].max
                                /\ streams[k].max =< counter
  BY EntryFacts
<1>3. counter \in Nat /\ LastNumber \in Nat /\ counter =< LastNumber
  BY NumbersFit
<1>4. /\ GlobalMin \in {streams[k].min : k \in DOMAIN streams}
      /\ \A k \in DOMAIN streams : GlobalMin =< streams[k].min
  <2> DEFINE T == {streams[k].min : k \in DOMAIN streams}
  <2>1. T \subseteq Nat /\ T # {}
    BY <1>1, <1>2
  <2>2. \E m \in T : \A x \in T : m =< x
    <3> HIDE DEF T
    <3> QED BY <2>1, LeastNumber
  <2>3. \E m \in T : \A k \in DOMAIN streams : m =< streams[k].min
    BY <2>2
  <2> QED BY <2>3 DEF GlobalMin
<1>5. /\ GlobalMax \in {streams[k].max : k \in DOMAIN streams}
      /\ \A k \in DOMAIN streams : streams[k].max =< GlobalMax
  <2> DEFINE T == {streams[k].max : k \in DOMAIN streams}
  <2>1. T \subseteq 0..counter /\ T # {}
    <3>1. \A k \in DOMAIN streams : streams[k].max \in 0..counter
      BY <1>2, <1>3
    <3> QED BY <1>1, <3>1
  <2>2. \E m \in T : \A x \in T : x =< m
    <3> HIDE DEF T
    <3> QED BY <1>3, <2>1, GreatestNumber
  <2>3. \E m \in T : \A k \in DOMAIN streams : streams[k].max =< m
    BY <2>2
  <2> QED BY <2>3 DEF GlobalMax
<1>6. PICK k \in DOMAIN streams : GlobalMin = streams[k].min
  BY <1>4
<1>7. GlobalMax =< counter /\ GlobalMax \in Nat
  BY <1>2, <1>5
<1>8. n \in Nat \ {0}
  BY KeyedStoreAssumption
<1>9. GlobalMin \in Nat /\ GlobalMin =< GlobalMax
  <2>1. streams[k].min \in Nat /\ streams[k].max \in Nat /\ streams[k].min =< streams[k].max
        /\ streams[k].max =< GlobalMax
    BY <1>2, <1>5
  <2> QED BY <1>6, <1>7, <2>1
<1>10. Cutoff(n) \in Nat /\ Cutoff(n) =< GlobalMax + 1 /\ GlobalMin < Cutoff(n)
  BY <1>7, <1>8, <1>9 DEF Cutoff
<1>11. Cutoff(n) < Base^SeqWidth
  <2>1. Cutoff(n) =< LastNumber + 1
    BY <1>3, <1>7, <1>10
  <2> QED BY <1>10, <2>1, NumbersFit
<1> QED BY <1>6, <1>10, <1>11

\* A truncation takes off every stream the packets below the cutoff, and no others.
LEMMA TruncateFacts ==
  ASSUME StoreInv, NEW n \in ChunkSizes, TruncateOldest(n)
  PROVE  LET c == Cutoff(n)
         IN  /\ c \in Nat /\ c < Base^SeqWidth
             /\ \E key \in DOMAIN streams : streams[key].min < c
             /\ DOMAIN packets' = {k \in DOMAIN packets : packets[k].seq >= c}
             /\ \A k \in DOMAIN packets' : packets'[k] = packets[k]
             /\ packets' = [k \in DOMAIN packets' |-> packets'[k]]
             /\ DOMAIN streams' = {key \in DOMAIN streams : streams[key].max >= c}
             /\ \A key \in DOMAIN streams' :
                  streams'[key] = IF streams[key].min < c
                                  THEN [streams[key] EXCEPT !.min = c] ELSE streams[key]
             /\ streams' = [key \in DOMAIN streams' |-> streams'[key]]
             /\ counter' = counter
<1> DEFINE c == Cutoff(n)
           old == {k \in DOMAIN streams : streams[k].min < c}
           range(key) == InRange(key \o BigEndian(0), key \o BigEndian(c))
           gone == UNION {range(key) : key \in old}
           left == {key \in DOMAIN streams : key \in old => streams[key].max >= c}
<1>1. streams # Empty /\ counter' = counter
  BY DEF TruncateOldest
<1>2. c \in Nat /\ c < Base^SeqWidth /\ \E key \in DOMAIN streams : streams[key].min < c
  BY <1>1, CutoffFacts
<1>3. /\ packets' = Without(packets, gone)
      /\ streams' = [key \in left |-> IF key \in old THEN [streams[key] EXCEPT !.min = c]
                                                     ELSE streams[key]]
  BY DEF TruncateOldest, Cutoff, GlobalMin, GlobalMax
<1> HIDE DEF c
<1>4. \A key \in DOMAIN streams :
        range(key) = {k \in DOMAIN packets : /\ ToStreamKey(packets[k].id) = key
                                             /\ packets[k].seq < c}
  BY <1>2, RangeOfStream
<1> HIDE DEF range
<1>5. ASSUME NEW k \in DOMAIN packets PROVE k \in gone <=> packets[k].seq < c
  <2> DEFINE own == ToStreamKey(packets[k].id)
  <2>1. /\ own \in DOMAIN streams /\ streams[own].min =< packets[k].seq
        /\ packets[k].seq \in Nat /\ streams[own].min \in Nat
    <3>1. own \in DOMAIN streams /\ streams[own].min =< packets[k].seq
      BY DEF StoreInv, EntriesCover
    <3>2. packets[k].seq \in Nat
      BY StoredFacts
    <3>3. streams[own].min \in Nat
      BY <3>1, EntryFacts
    <3> QED BY <3>1, <3>2, <3>3
  <2> HIDE DEF own
  <2>2. ASSUME packets[k].seq < c PROVE k \in gone
    <3>1. own \in old
      BY <1>2, <2>1, <2>2
    <3>2. k \in range(own)
      BY <1>4, <2>1, <2>2 DEF own
    <3> QED BY <3>1, <3>2
  <2>3. ASSUME k \in gone PROVE packets[k].seq < c
    <3>1. PICK key \in old : k \in range(key)
      BY <2>3
    <3> QED BY <1>4, <3>1
  <2> QED BY <2>2, <2>3
<1>6. /\ DOMAIN packets' = DOMAIN packets \ gone
      /\ \A k \in DOMAIN packets' : packets'[k] = packets[k]
      /\ packets' = [k \in DOMAIN packets' |-> packets'[k]]
  <2> HIDE DEF gone
  <2> QED BY <1>3 DEF Without
<1>7. DOMAIN packets' = {k \in DOMAIN packets : packets[k].seq >= c}
  <2>1. \A k \in DOMAIN packets : packets[k].seq \in Nat
    BY StoredFacts
  <2> HIDE DEF gone
  <2> QED BY <1>2, <1>5, <1>6, <2>1
<1>8. left = {key \in DOMAIN streams : streams[key].max >= c}
  <2>1. \A key \in DOMAIN streams : /\ streams[key].min \in Nat /\ streams[key].max \in Nat
                                    /\ streams[key].min =< streams[key].max
    BY EntryFacts
  <2>2. \A key \in DOMAIN streams : key \notin old => streams[key].max >= c
    BY <1>2, <2>1
  <2> QED BY <2>2
<1>9. DOMAIN streams' = left
  BY <1>3
<1>10. \A key \in DOMAIN streams' :
         streams'[key] = IF streams[key].min < c
                         THEN [streams[key] EXCEPT !.min = c] ELSE streams[key]
  BY <1>3, <1>9
<1>11. streams' = [key \in DOMAIN streams' |-> streams'[key]]
  BY <1>3
<1> QED BY <1>1, <1>2, <1>6, <1>7, <1>8, <1>9, <1>10, <1>11 DEF c

\* A truncation keeps the registry and the packets together.
LEMMA TruncateStore ==
  ASSUME StoreInv, NEW n \in ChunkSizes, TruncateOldest(n)
  PROVE  StoreInv'
<1> DEFINE c == Cutoff(n)
<1>1. /\ c \in Nat /\ counter' = counter
      /\ DOMAIN packets' = {k \in DOMAIN packets : packets[k].seq >= c}
      /\ \A k \in DOMAIN packets' : packets'[k] = packets[k]
      /\ packets' = [k \in DOMAIN packets' |-> packets'[k]]
      /\ DOMAIN streams' = {key \in DOMAIN streams : streams[key].max >= c}
      /\ \A key \in DOMAIN streams' :
           streams'[key] = IF streams[key].min < c
                           THEN [streams[key] EXCEPT !.min = c] ELSE streams[key]
      /\ streams' = [key \in DOMAIN streams' |-> streams'[key]]
  BY TruncateFacts
<1> HIDE DEF c
<1>2. PacketsKeyed'
  BY <1>1 DEF StoreInv, PacketsKeyed
<1>3. ASSUME NEW key \in DOMAIN streams'
      PROVE  /\ key \in DOMAIN streams
             /\ streams'[key] \in [min : Nat, max : Nat, last : Times]
             /\ streams'[key].min = (IF streams[key].min < c THEN c ELSE streams[key].min)
             /\ streams'[key].max = streams[key].max /\ streams[key].max >= c
             /\ streams'[key].last = streams[key].last
  <2>1. key \in DOMAIN streams /\ streams[key].max >= c
    BY <1>1
  <2>2. streams[key] \in [min : Nat, max : Nat, last : Times]
    BY <2>1 DEF StoreInv, EntriesKeyed
  <2> QED BY <1>1, <2>1, <2>2
<1>4. EntriesKeyed'
  <2>1. ASSUME NEW key \in DOMAIN streams'
        PROVE  /\ streams'[key] \in [min : Nat, max : Nat, last : Times]
               /\ streams'[key].min =< streams'[key].max /\ streams'[key].max =< counter'
               /\ \E id \in Identifiers : ToStreamKey(id) = key /\ key # NoKey
    <3>1. /\ streams[key].min \in Nat /\ streams[key].max \in Nat
          /\ streams[key].min =< streams[key].max /\ streams[key].max =< counter
      BY <1>3, EntryFacts
    <3>2. \E id \in Identifiers : ToStreamKey(id) = key /\ key # NoKey
      BY <1>3 DEF StoreInv, EntriesKeyed
    <3> QED BY <1>1, <1>3, <3>1, <3>2
  <2> QED BY <1>1, <2>1 DEF EntriesKeyed
<1>5. EntriesCover'
  <2>1. ASSUME NEW k \in DOMAIN packets', NEW own, own = ToStreamKey(packets'[k].id)
        PROVE  /\ own \in DOMAIN streams'
               /\ streams'[own].min =< packets'[k].seq
               /\ packets'[k].seq =< streams'[own].max
               /\ packets'[k].recv =< streams'[own].last
    <3>1. k \in DOMAIN packets /\ packets'[k] = packets[k] /\ packets[k].seq >= c
      BY <1>1
    <3>2. /\ own \in DOMAIN streams
          /\ streams[own].min =< packets[k].seq /\ packets[k].seq =< streams[own].max
          /\ packets[k].recv =< streams[own].last
      BY <2>1, <3>1 DEF StoreInv, EntriesCover
    <3>3. packets[k].seq \in Nat
      BY <3>1, StoredFacts
    <3>4. streams[own].min \in Nat /\ streams[own].max \in Nat
      BY <3>2, EntryFacts
    <3>5. own \in DOMAIN streams'
      BY <1>1, <3>1, <3>2, <3>3, <3>4
    <3> QED BY <1>1, <1>3, <3>1, <3>2, <3>3, <3>4, <3>5
  <2> QED BY <2>1 DEF EntriesCover
<1>6. NewestKept'
  <2>1. ASSUME NEW key \in DOMAIN streams'
        PROVE  \E k \in DOMAIN packets' : /\ ToStreamKey(packets'[k].id) = key
                                          /\ packets'[k].seq = streams'[key].max
    <3>1. PICK k \in DOMAIN packets : /\ ToStreamKey(packets[k].id) = key
                                      /\ packets[k].seq = streams[key].max
      BY <1>3 DEF StoreInv, NewestKept
    <3> QED BY <1>1, <1>3, <3>1
  <2> QED BY <2>1 DEF NewestKept
<1> QED BY <1>1, <1>2, <1>4, <1>5, <1>6 DEF StoreInv

----------------------------------------------------------------------------
(***************************************************************************)
(* Types and the listing.                                                   *)
(***************************************************************************)

\* The query under way.
QueryTypes ==
    /\ querying \in BOOLEAN /\ asked \in 0..MaxAsked
    /\ prefix = NoKey \/ prefix \in Key(StreamKeyLength)
    /\ DOMAIN unread \subseteq Key(PacketKeyLength)

\* Keys are strings of fixed lengths.
LEMMA KeyTypes ==
  /\ StreamKeyLength \in Nat /\ PacketKeyLength \in Nat
  /\ \A s \in Seq(Byte), n \in Nat : Len(s) = n => s \in Key(n)
<1>1. StreamKeyLength \in Nat /\ PacketKeyLength \in Nat
  BY KeyAssumption DEF StreamKeyLength, PacketKeyLength
<1>2. \A s \in Seq(Byte), n \in Nat : Len(s) = n => s \in Key(n)
  BY DEF Key
<1> QED BY <1>1, <1>2

\* The keys of stored packets.
LEMMA StoredKeyType ==
  ASSUME StoreInv, NEW k \in DOMAIN packets
  PROVE  k \in Seq(Byte) /\ Len(k) = PacketKeyLength /\ k \in Key(PacketKeyLength)
<1> DEFINE own == ToStreamKey(packets[k].id)   n == packets[k].seq
<1>1. /\ own \in Seq(Byte) /\ Len(own) = StreamKeyLength /\ k = own \o BigEndian(n)
      /\ n \in Nat
  BY StoredFacts
<1>2. BigEndian(n) \in Seq(Byte) /\ Len(BigEndian(n)) = SeqWidth
  BY <1>1, BigEndianType
<1> HIDE DEF own, n
<1>3. k \in Seq(Byte) /\ Len(k) = Len(own) + Len(BigEndian(n))
  BY <1>1, <1>2, JoinedFacts
<1>4. Len(k) = PacketKeyLength
  BY <1>1, <1>2, <1>3 DEF PacketKeyLength
<1> QED BY <1>3, <1>4, KeyTypes

\* The store as it is created.
LEMMA InitStore == Init => StoreInv /\ QueryTypes
<1> SUFFICES ASSUME Init PROVE StoreInv /\ QueryTypes
  OBVIOUS
<1>1. packets = <<>> /\ streams = <<>> /\ unread = <<>>
  BY DEF Init, Empty
<1>2. DOMAIN packets = {} /\ DOMAIN streams = {} /\ DOMAIN unread = {}
  BY <1>1
<1>3. packets = [k \in DOMAIN packets |-> packets[k]]
      /\ streams = [k \in DOMAIN streams |-> streams[k]]
  BY <1>1, <1>2
<1>4. StoreInv
  BY <1>2, <1>3, KeyedStoreAssumption
     DEF Init, StoreInv, PacketsKeyed, EntriesKeyed, EntriesCover, NewestKept
<1>5. QueryTypes
  <2>1. DOMAIN unread \subseteq Key(PacketKeyLength)
    BY <1>2
  <2>2. querying \in BOOLEAN /\ prefix = NoKey
    BY DEF Init
  <2>3. asked \in 0..MaxAsked
    BY KeyedStoreAssumption DEF Init
  <2> QED BY <2>1, <2>2, <2>3 DEF QueryTypes
<1> QED BY <1>4, <1>5

\* A query leaves the families alone, a write or a truncation the query.
LEMMA StoreStep == StoreInv /\ QueryTypes /\ [Next]_vars => (StoreInv /\ QueryTypes)'
<1> SUFFICES ASSUME StoreInv, QueryTypes, [Next]_vars PROVE (StoreInv /\ QueryTypes)'
  OBVIOUS
<1>1. UNCHANGED tables => StoreInv'
  BY DEF tables, StoreInv, PacketsKeyed, EntriesKeyed, EntriesCover, NewestKept
<1>2. UNCHANGED queryVars => QueryTypes'
  BY DEF queryVars, QueryTypes
<1>3. ASSUME NEW id \in Identifiers, NEW complete \in BOOLEAN, NEW t \in Times,
             Write(id, complete, t)
      PROVE  (StoreInv /\ QueryTypes)'
  BY <1>2, <1>3, WriteStore DEF Write
<1>4. ASSUME NEW n \in ChunkSizes, TruncateOldest(n) PROVE (StoreInv /\ QueryTypes)'
  BY <1>2, <1>4, TruncateStore DEF TruncateOldest
<1>5. CASE QueryBegin
  BY <1>1, <1>5, KeyedStoreAssumption DEF QueryBegin, QueryTypes
<1>6. ASSUME NEW id \in Identifiers, NEW start \in Starts, QuerySeek(id, start)
      PROVE  (StoreInv /\ QueryTypes)'
  <2>1. prefix' = NoKey \/ prefix' \in Key(StreamKeyLength)
    <3>1. ToStreamKey(id) # NoKey => ToStreamKey(id) \in Key(StreamKeyLength)
      BY StreamKeyFacts, KeyTypes, KeyedStoreAssumption
    <3> QED BY <1>6, <3>1 DEF QuerySeek
  <2>2. DOMAIN unread' \subseteq Key(PacketKeyLength)
    <3>1. CASE ToStreamKey(id) = NoKey
      <4>1. unread' = <<>>
        BY <1>6, <3>1 DEF QuerySeek, Empty
      <4> QED BY <4>1
    <3>2. CASE ToStreamKey(id) # NoKey
      <4>1. DOMAIN unread' \subseteq DOMAIN packets
        BY <1>6, <3>2 DEF QuerySeek, Without
      <4> QED BY <4>1, StoredKeyType
    <3> QED BY <3>1, <3>2
  <2>3. asked' \in 0..MaxAsked /\ querying' \in BOOLEAN
    BY <1>6, KeyedStoreAssumption DEF QuerySeek, QueryTypes
  <2> QED BY <1>1, <1>6, <2>1, <2>2, <2>3 DEF QuerySeek, QueryTypes
<1>7. CASE QueryNext
  <2>1. DOMAIN unread' \subseteq DOMAIN unread
    BY <1>7 DEF QueryNext, Without
  <2> QED BY <1>1, <1>7, <2>1 DEF QueryNext, QueryTypes
<1>8. CASE QueryBreak
  <2>1. unread' = <<>>
    BY <1>8 DEF QueryBreak, Empty
  <2>2. DOMAIN unread' = {}
    BY <2>1
  <2> QED BY <1>1, <1>8, <2>2 DEF QueryBreak, QueryTypes
<1>9. CASE QueryReturn
  BY <1>1, <1>9 DEF QueryReturn, QueryTypes
<1>10. CASE UNCHANGED vars
  BY <1>1, <1>2, <1>10 DEF vars
<1> QED BY <1>3, <1>4, <1>5, <1>6, <1>7, <1>8, <1>9, <1>10 DEF Next, Query

\* The invariant of the families.
LEMMA StoreInvariant == Spec => [](StoreInv /\ QueryTypes)
  BY InitStore, StoreStep, PTL DEF Spec

\* In every reachable state the keys of each family have its fixed length, and so
\* have the ones that a query is going through.
THEOREM KeyedStoreTypes == Spec => []TypeOK
<1>1. StoreInv /\ QueryTypes => TypeOK
  <2> SUFFICES ASSUME StoreInv, QueryTypes PROVE TypeOK
    OBVIOUS
  <2>1. \A k \in DOMAIN packets : k \in Key(PacketKeyLength) /\ packets[k] \in StoredPacket
    BY StoredKeyType DEF StoreInv, PacketsKeyed
  <2>2. \A k \in DOMAIN streams : /\ k \in Key(StreamKeyLength)
                                  /\ streams[k] \in [min : Nat, max : Nat, last : Times]
    BY EntryFacts, KeyTypes DEF StoreInv, EntriesKeyed
  <2> QED BY <2>1, <2>2 DEF TypeOK, StoreInv, QueryTypes
<1> QED BY <1>1, StoreInvariant, PTL

\* The name of an entry of the registry is the name of its packets.
LEMMA EntryName ==
  ASSUME StoreInv, NEW key \in DOMAIN streams, NEW id \in Identifier, ToStreamKey(id) # NoKey
  PROVE  FromStreamKey(key) = ToString(id) <=> ToStreamKey(id) = key
<1>1. PICK i \in Identifier : ToStreamKey(i) = key /\ key # NoKey
  BY EntryFacts
<1>2. FromStreamKey(key) = ToString(i)
  BY <1>1, NameReadBack
<1> QED BY <1>1, <1>2, KeysStandForNames

\* queryAvailableStreams() names exactly the streams that have packets, each once,
\* and says they were received no earlier than any packet that is left, after any
\* writes and truncations: an entry is dropped exactly when DeleteRange has removed
\* the last packet of its stream.
THEOREM ListingIsExact == Spec => []ListingExact
<1>1. ASSUME StoreInv PROVE ListingExact
  <2>1. ASSUME NEW key \in DOMAIN streams
        PROVE  \E k \in DOMAIN packets : Named(packets[k]).name = FromStreamKey(key)
    <3>1. PICK k \in DOMAIN packets : ToStreamKey(packets[k].id) = key
      BY <1>1 DEF StoreInv, NewestKept
    <3>2. ToString(packets[k].id) = FromStreamKey(key)
      BY <1>1, <3>1, StoredFacts, EntryName
    <3> QED BY <3>2 DEF Named
  <2>2. ASSUME NEW k \in DOMAIN packets
        PROVE  /\ ToStreamKey(packets[k].id) \in DOMAIN streams
               /\ Named(packets[k]).name = FromStreamKey(ToStreamKey(packets[k].id))
    <3>1. ToStreamKey(packets[k].id) \in DOMAIN streams
      BY <1>1 DEF StoreInv, EntriesCover
    <3>2. ToString(packets[k].id) = FromStreamKey(ToStreamKey(packets[k].id))
      BY <1>1, StoredFacts, NameReadBack
    <3> QED BY <3>1, <3>2 DEF Named
  <2>3. {s.name : s \in QueryAvailableStreams} = {FromStreamKey(k) : k \in DOMAIN streams}
    <3> DEFINE entry(k) == [name |-> FromStreamKey(k), last |-> streams[k].last]
    <3>1. QueryAvailableStreams = {entry(k) : k \in DOMAIN streams}
      BY DEF QueryAvailableStreams
    <3>2. \A k \in DOMAIN streams : entry(k).name = FromStreamKey(k)
      OBVIOUS
    <3> HIDE DEF entry
    <3> QED BY <3>1, <3>2
  <2>4. {p.name : p \in Contents} = {Named(packets[k]).name : k \in DOMAIN packets}
    BY DEF Contents
  <2>5. {s.name : s \in QueryAvailableStreams} = {p.name : p \in Contents}
    BY <2>1, <2>2, <2>3, <2>4
  <2>6. ASSUME NEW s \in QueryAvailableStreams, NEW r \in QueryAvailableStreams,
               s.name = r.name
        PROVE  s = r
    <3>1. PICK j \in DOMAIN streams :
            s = [name |-> FromStreamKey(j), last |-> streams[j].last]
      BY DEF QueryAvailableStreams
    <3>2. PICK k \in DOMAIN streams :
            r = [name |-> FromStreamKey(k), last |-> streams[k].last]
      BY DEF QueryAvailableStreams
    <3>3. PICK id \in Identifier : ToStreamKey(id) = k /\ k # NoKey
      BY <1>1, EntryFacts
    <3>4. FromStreamKey(j) = FromStreamKey(k)
      BY <2>6, <3>1, <3>2
    <3>5. FromStreamKey(k) = ToString(id)
      BY <1>1, <3>3, EntryName
    <3>6. ToStreamKey(id) = j
      BY <1>1, <3>3, <3>4, <3>5, EntryName
    <3> QED BY <3>1, <3>2, <3>3, <3>6
  <2>7. ASSUME NEW s \in QueryAvailableStreams, NEW p \in Contents, s.name = p.name
        PROVE  p.recv =< s.last
    <3>1. PICK key \in DOMAIN streams :
            s = [name |-> FromStreamKey(key), last |-> streams[key].last]
      BY DEF QueryAvailableStreams
    <3>2. PICK k \in DOMAIN packets : p = Named(packets[k])
      BY DEF Contents
    <3>3. FromStreamKey(key) = ToString(packets[k].id) /\ p.recv = packets[k].recv
      BY <2>7, <3>1, <3>2 DEF Named
    <3>4. ToStreamKey(packets[k].id) = key
      BY <1>1, <3>3, StoredFacts, EntryName
    <3>5. packets[k].recv =< streams[key].last
      BY <1>1, <3>4 DEF StoreInv, EntriesCover
    <3> QED BY <3>1, <3>3, <3>5
  <2> QED BY <2>5, <2>6, <2>7 DEF ListingExact
<1> QED BY <1>1, StoreInvariant, PTL

----------------------------------------------------------------------------
(***************************************************************************)
(* The order of keys, which an iterator follows.                            *)
(***************************************************************************)

\* Of two keys of one length one comes before the other.
LEMMA BeforeTotal ==
  ASSUME NEW j \in Seq(Byte), NEW k \in Seq(Byte), Len(j) = Len(k), j # k
  PROVE  Before(j, k) \/ Before(k, j)
<1> DEFINE T == {i \in 1..Len(k) : j[i] # k[i]}
<1>1. Len(k) \in Nat /\ T \subseteq Nat
  OBVIOUS
<1>2. T # {}
  <2>1. ASSUME T = {} PROVE FALSE
    <3>1. \A i \in 1..Len(j) : j[i] = k[i]
      BY <2>1
    <3> QED BY <3>1, SeqEqual
  <2> QED BY <2>1
<1>3. PICK i \in T : \A h \in T : i =< h
  <2> HIDE DEF T
  <2> QED BY <1>1, <1>2, LeastNumber
<1>4. i \in 1..Len(k) /\ j[i] # k[i] /\ i \in 1..Len(j)
  BY <1>3
<1>5. \A h \in 1..(i - 1) : j[h] = k[h]
  <2> TAKE h \in 1..(i - 1)
  <2>1. h \in 1..Len(k) /\ ~(i =< h)
    BY <1>1, <1>4
  <2> QED BY <1>3, <2>1
<1>6. j[i] < k[i] \/ k[i] < j[i]
  <2>1. j[i] \in Byte /\ k[i] \in Byte
    BY <1>4
  <2>2. j[i] \in Int /\ k[i] \in Int
    BY <2>1 DEF Byte
  <2> QED BY <1>4, <2>2
<1> QED BY <1>4, <1>5, <1>6 DEF Before

\* The order is transitive.
LEMMA BeforeTransitive ==
  ASSUME NEW j \in Seq(Byte), NEW k \in Seq(Byte), NEW l \in Seq(Byte),
         Len(j) = Len(k), Len(l) = Len(k), Before(j, k), Before(k, l)
  PROVE  Before(j, l)
<1>1. PICK a \in 1..Len(k) : j[a] < k[a] /\ \A h \in 1..(a - 1) : j[h] = k[h]
  BY DEF Before
<1>2. PICK b \in 1..Len(l) : k[b] < l[b] /\ \A h \in 1..(b - 1) : k[h] = l[h]
  BY DEF Before
<1>3. /\ Len(k) \in Nat /\ a \in Nat /\ b \in Nat /\ b \in 1..Len(k) /\ a \in 1..Len(l)
      /\ a >= 1 /\ b >= 1
  OBVIOUS
<1>4. j[a] \in Int /\ k[a] \in Int /\ l[a] \in Int /\ j[b] \in Int /\ k[b] \in Int /\ l[b] \in Int
  <2>1. /\ j[a] \in Byte /\ k[a] \in Byte /\ l[a] \in Byte
        /\ j[b] \in Byte /\ k[b] \in Byte /\ l[b] \in Byte
    BY <1>3
  <2>2. Byte \subseteq Int
    BY DEF Byte
  <2> QED BY <2>1, <2>2
<1>5. CASE a < b
  <2>1. a \in 1..(b - 1) /\ \A h \in 1..(a - 1) : h \in 1..(b - 1)
    BY <1>3, <1>5
  <2> QED BY <1>1, <1>2, <1>3, <2>1 DEF Before
<1>6. CASE b < a
  <2>1. b \in 1..(a - 1) /\ \A h \in 1..(b - 1) : h \in 1..(a - 1)
    BY <1>3, <1>6
  <2> QED BY <1>1, <1>2, <2>1 DEF Before
<1>7. CASE a = b
  <2>1. j[b] < l[b]
    BY <1>1, <1>2, <1>4, <1>7
  <2> QED BY <1>1, <1>2, <1>7, <2>1 DEF Before
<1> QED BY <1>3, <1>5, <1>6, <1>7

\* A set of keys that is finite and not empty has a least one.
LEMMA LeastKey ==
  ASSUME NEW K, IsFiniteSet(K), K # {}, \A k \in K : k \in Seq(Byte) /\ Len(k) = PacketKeyLength
  PROVE  Least(K) \in K /\ \A j \in K : j = Least(K) \/ Before(Least(K), j)
<1> DEFINE HasLeast(S) == \E k \in S : \A j \in S : j = k \/ Before(k, j)
           T == {n \in Nat : \E S \in SUBSET K : /\ S # {} /\ Cardinality(S) = n
                                                  /\ ~HasLeast(S)}
<1>1. SUFFICES ASSUME ~HasLeast(K) PROVE FALSE
  BY DEF Least
<1>2. T \subseteq Nat /\ T # {}
  <2>1. Cardinality(K) \in Nat
    BY FS_CardinalityType
  <2>2. Cardinality(K) \in T
    BY <1>1, <2>1
  <2> QED BY <2>2
<1>3. PICK n \in T : \A m \in T : n =< m
  <2> HIDE DEF T
  <2> QED BY <1>2, LeastNumber
<1>4. PICK S \in SUBSET K : S # {} /\ Cardinality(S) = n /\ ~HasLeast(S)
  BY <1>3
<1>5. PICK x : x \in S
  BY <1>4
<1> DEFINE R == S \ {x}
<1>6. IsFiniteSet(S) /\ IsFiniteSet(R) /\ Cardinality(R) = n - 1 /\ n \in Nat
  <2>1. IsFiniteSet(S)
    BY <1>4, FS_Subset
  <2> QED BY <1>3, <1>4, <1>5, <2>1, FS_RemoveElement
<1>7. CASE R = {}
  BY <1>4, <1>5, <1>7
<1>8. CASE R # {}
  <2>1. HasLeast(R)
    <3>1. n - 1 \in Nat /\ ~(n =< n - 1)
      BY <1>6, FS_CardinalityType
    <3>2. n - 1 \notin T
      BY <1>3, <3>1
    <3>3. R \in SUBSET K
      BY <1>4
    <3> HIDE DEF R, HasLeast
    <3> QED BY <1>6, <1>8, <3>1, <3>2, <3>3
  <2>2. PICK y \in R : \A j \in R : j = y \/ Before(y, j)
    BY <2>1
  <2>3. \A j \in S : j \in Seq(Byte) /\ Len(j) = PacketKeyLength
    BY <1>4
  <2>4. x \in S /\ y \in S /\ x # y
    BY <1>5, <2>2
  <2>5. CASE Before(y, x)
    BY <1>4, <2>2, <2>4, <2>5
  <2>6. CASE Before(x, y)
    <3>1. ASSUME NEW j \in S, j # x PROVE Before(x, j)
      <4>1. j = y \/ Before(y, j)
        BY <2>2, <3>1
      <4> QED BY <2>3, <2>4, <2>6, <4>1, BeforeTransitive
    <3> QED BY <1>4, <2>4, <3>1
  <2> QED BY <2>3, <2>4, <2>5, <2>6, BeforeTotal
<1> QED BY <1>7, <1>8

----------------------------------------------------------------------------
(***************************************************************************)
(* Packets by increasing number.                                            *)
(***************************************************************************)

\* Finitely many packets, each with a number of its own.
Numbered(P) ==
    /\ IsFiniteSet(P)
    /\ \A p \in P : p.seq \in Nat
    /\ \A p, q \in P : p.seq = q.seq => p = q

\* The sequence s is P by increasing number.
Sorts(s, P) ==
    /\ s \in [1..Cardinality(P) -> P]
    /\ \A i, j \in 1..Cardinality(P) : i < j => s[i].seq < s[j].seq

\* The cardinality of the abstract store is the same.
LEMMA SameCardinality == \A S : Abstract!Cardinality(S) = Cardinality(S)
  BY DEF Cardinality, Abstract!Cardinality

\* One fewer packet.
LEMMA NumberedSubset ==
  ASSUME NEW P, Numbered(P), NEW Q \in SUBSET P
  PROVE  Numbered(Q) /\ Cardinality(Q) \in Nat
  BY FS_Subset, FS_CardinalityType DEF Numbered

\* A set of numbered packets that is not empty has a first one.
LEMMA FirstPacket ==
  ASSUME NEW P, Numbered(P), P # {}
  PROVE  \E p \in P : \A q \in P : q # p => p.seq < q.seq
<1> DEFINE T == {p.seq : p \in P}
<1>1. T \subseteq Nat /\ T # {}
  BY DEF Numbered
<1>2. PICK m \in T : \A x \in T : m =< x
  <2> HIDE DEF T
  <2> QED BY <1>1, LeastNumber
<1>3. PICK p \in P : p.seq = m
  BY <1>2
<1>4. ASSUME NEW q \in P, q # p PROVE p.seq < q.seq
  <2>1. p.seq \in Nat /\ q.seq \in Nat /\ p.seq # q.seq
    BY <1>4 DEF Numbered
  <2>2. p.seq =< q.seq
    BY <1>2, <1>3
  <2> QED BY <2>1, <2>2
<1> QED BY <1>4

\* A packet before the others, and then the others in order.
LEMMA SortsFirst ==
  ASSUME NEW P, Numbered(P), NEW p \in P, \A q \in P : q # p => p.seq < q.seq,
         NEW s, Sorts(s, P \ {p})
  PROVE  /\ s \in Seq(P)
         /\ Sorts(<<p>> \o s, P)
<1> DEFINE n == Cardinality(P)   r == <<p>> \o s
<1>1. IsFiniteSet(P) /\ n \in Nat /\ Cardinality(P \ {p}) = n - 1 /\ n - 1 \in Nat
  BY FS_CardinalityType, FS_RemoveElement, FS_EmptySet DEF Numbered
<1> HIDE DEF n
<1>2. /\ s \in [1..(n - 1) -> P \ {p}]
      /\ \A i, j \in 1..(n - 1) : i < j => s[i].seq < s[j].seq
  BY <1>1 DEF Sorts
<1>3. s \in Seq(P) /\ Len(s) = n - 1
  BY <1>1, <1>2
<1>4. <<p>> \in Seq(P) /\ Len(<<p>>) = 1 /\ <<p>>[1] = p
  OBVIOUS
<1>5. /\ r \in Seq(P) /\ Len(r) = n /\ r[1] = p
      /\ \A i \in 1..n : i # 1 => i - 1 \in 1..(n - 1) /\ r[i] = s[i - 1]
  <2>1. r \in Seq(P) /\ Len(r) = 1 + (n - 1)
    BY <1>3, <1>4, ConcatProperties
  <2>2. Len(r) = n
    BY <1>1, <2>1
  <2> DEFINE l == Len(<<p>>)
  <2>3. /\ l = 1
        /\ \A i \in 1..n : r[i] = IF i <= l THEN <<p>>[i] ELSE s[i - l]
    <3>1. \A i \in 1..(Len(<<p>>) + Len(s)) :
            (<<p>> \o s)[i] = IF i <= Len(<<p>>) THEN <<p>>[i] ELSE s[i - Len(<<p>>)]
      <4> HIDE DEF r, l
      <4> QED BY <1>3, <1>4, ConcatProperties
    <3>2. Len(<<p>>) + Len(s) = n
      BY <1>1, <1>3, <1>4
    <3>3. l = 1
      BY <1>4
    <3> QED BY <3>1, <3>2, <3>3 DEF r
  <2> HIDE DEF l, r
  <2>4. 1 \in 1..n
    <3>1. n # 0
      BY <1>1
    <3> QED BY <1>1, <3>1
  <2>5. r[1] = p
    BY <1>4, <2>3, <2>4
  <2>6. \A i \in 1..n : i # 1 => i - 1 \in 1..(n - 1) /\ r[i] = s[i - 1]
    BY <1>1, <2>3
  <2> QED BY <2>1, <2>2, <2>5, <2>6
<1> HIDE DEF r
<1>6. r \in [1..n -> P]
  BY <1>5
<1>7. ASSUME NEW i \in 1..n, NEW j \in 1..n, i < j PROVE r[i].seq < r[j].seq
  <2>1. j # 1 /\ j - 1 \in 1..(n - 1) /\ r[j] = s[j - 1]
    BY <1>1, <1>5, <1>7
  <2>2. CASE i = 1
    <3>1. s[j - 1] \in P /\ s[j - 1] # p
      BY <1>2, <2>1
    <3> QED BY <1>5, <2>1, <2>2, <3>1
  <2>3. CASE i # 1
    <3>1. i - 1 \in 1..(n - 1) /\ r[i] = s[i - 1] /\ i - 1 < j - 1
      BY <1>1, <1>5, <1>7, <2>3
    <3> QED BY <1>2, <2>1, <3>1
  <2> QED BY <2>2, <2>3
<1> QED BY <1>3, <1>6, <1>7 DEF Sorts, n, r

\* Numbered packets can be sorted.
LEMMA SortExists ==
  ASSUME NEW P, Numbered(P)
  PROVE  \E s : Sorts(s, P)
<1> DEFINE T == {n \in Nat : \E Q \in SUBSET P : Cardinality(Q) = n /\ ~\E s : Sorts(s, Q)}
<1>1. SUFFICES ASSUME ~\E s : Sorts(s, P) PROVE FALSE
  OBVIOUS
<1>2. T \subseteq Nat /\ T # {}
  <2>1. Cardinality(P) \in Nat
    BY NumberedSubset
  <2>2. Cardinality(P) \in T
    BY <1>1, <2>1
  <2> QED BY <2>2
<1>3. PICK n \in T : \A m \in T : n =< m
  <2> HIDE DEF T
  <2> QED BY <1>2, LeastNumber
<1>4. PICK Q \in SUBSET P : Cardinality(Q) = n /\ ~\E s : Sorts(s, Q)
  BY <1>3
<1>5. Numbered(Q) /\ n \in Nat /\ IsFiniteSet(Q)
  BY <1>3, <1>4, NumberedSubset DEF Numbered
<1>6. CASE Q = {}
  <2>1. Cardinality(Q) = 0
    BY <1>6, FS_EmptySet
  <2>2. Sorts([i \in 1..0 |-> i], Q)
    BY <2>1 DEF Sorts
  <2> QED BY <1>4, <2>2
<1>7. CASE Q # {}
  <2>1. PICK p \in Q : \A q \in Q : q # p => p.seq < q.seq
    BY <1>5, <1>7, FirstPacket
  <2>2. Cardinality(Q \ {p}) = n - 1 /\ n - 1 \in Nat
    <3>1. Cardinality(Q \ {p}) = n - 1
      BY <1>4, <1>5, <2>1, FS_RemoveElement
    <3>2. Cardinality(Q \ {p}) \in Nat
      BY <1>4, NumberedSubset
    <3> QED BY <3>1, <3>2
  <2>3. n - 1 \notin T
    BY <1>3, <1>5, <2>2
  <2>4. PICK s : Sorts(s, Q \ {p})
    <3>1. Q \ {p} \in SUBSET P
      BY <1>4
    <3> QED BY <2>2, <2>3, <3>1
  <2>5. Sorts(<<p>> \o s, Q)
    BY <1>5, <2>1, <2>4, SortsFirst
  <2> QED BY <1>4, <2>5
<1> QED BY <1>6, <1>7

\* They can be sorted in one way only.
LEMMA SortUnique ==
  ASSUME NEW P, Numbered(P), NEW s, NEW r, Sorts(s, P), Sorts(r, P)
  PROVE  s = r
<1> DEFINE n == Cardinality(P)
<1>1. IsFiniteSet(P) /\ n \in Nat /\ IsFiniteSet(1..n) /\ Cardinality(1..n) = n
  <2>1. IsFiniteSet(P) /\ n \in Nat
    BY FS_CardinalityType DEF Numbered
  <2>2. IsFiniteSet(1..n) /\ Cardinality(1..n) = IF 1 > n THEN 0 ELSE n - 1 + 1
    BY <2>1, FS_Interval
  <2> QED BY <2>1, <2>2
<1>2. ASSUME NEW t, Sorts(t, P) PROVE \A p \in P : \E i \in 1..n : t[i] = p
  <2>1. /\ t \in [1..n -> P] /\ \A i, j \in 1..n : i < j => t[i].seq < t[j].seq
        /\ \A i \in 1..n : t[i].seq \in Nat
    BY <1>2 DEF Sorts, Numbered
  <2> HIDE DEF n
  <2>2. ASSUME NEW i \in 1..n, NEW j \in 1..n, t[i] = t[j] PROVE i = j
    <3>1. ~(i < j) /\ ~(j < i)
      BY <2>1, <2>2
    <3> QED BY <1>1, <3>1
  <2>3. t \in Injection(1..n, P)
    BY <2>1, <2>2 DEF Injection, IsInjective
  <2>4. t \in Surjection(1..n, P)
    BY <1>1, <2>3, FS_Injection DEF n
  <2> QED BY <2>4 DEF Surjection
<1>3. /\ s \in [1..n -> P] /\ \A i, j \in 1..n : i < j => s[i].seq < s[j].seq
      /\ r \in [1..n -> P] /\ \A i, j \in 1..n : i < j => r[i].seq < r[j].seq
      /\ \A i \in 1..n : s[i].seq \in Nat /\ r[i].seq \in Nat
  BY DEF Sorts, Numbered
<1>4. (\A p \in P : \E i \in 1..n : s[i] = p) /\ (\A p \in P : \E i \in 1..n : r[i] = p)
  BY <1>2
<1> HIDE DEF n
<1> DEFINE T == {i \in 1..n : s[i] # r[i]}
<1>5. SUFFICES ASSUME T # {} PROVE FALSE
  <2>1. ASSUME T = {} PROVE s = r
    <3>1. \A i \in 1..n : s[i] = r[i]
      BY <2>1
    <3>2. s = [i \in 1..n |-> s[i]] /\ r = [i \in 1..n |-> r[i]]
      BY <1>3
    <3> QED BY <3>1, <3>2
  <2> QED BY <2>1
<1>6. PICK i \in T : \A h \in T : i =< h
  <2>1. T \subseteq Nat
    BY <1>1
  <2> HIDE DEF T
  <2> QED BY <1>5, <2>1, LeastNumber
<1>7. i \in 1..n /\ s[i] # r[i] /\ \A h \in 1..n : h < i => s[h] = r[h]
  BY <1>1, <1>6
<1>8. PICK j \in 1..n : r[j] = s[i]
  BY <1>3, <1>4, <1>7
<1>9. PICK k \in 1..n : s[k] = r[i]
  BY <1>3, <1>4, <1>7
<1>10. i < j
  <2>1. j # i
    BY <1>7, <1>8
  <2>2. ASSUME j < i PROVE FALSE
    <3>1. s[j] = s[i] /\ s[j].seq < s[i].seq
      BY <1>3, <1>7, <1>8, <2>2
    <3> QED BY <1>3, <1>7, <3>1
  <2> QED BY <1>1, <1>7, <2>1, <2>2
<1>11. i < k
  <2>1. k # i
    BY <1>7, <1>9
  <2>2. ASSUME k < i PROVE FALSE
    <3>1. r[k] = r[i] /\ r[k].seq < r[i].seq
      BY <1>3, <1>7, <1>9, <2>2
    <3> QED BY <1>3, <1>7, <3>1
  <2> QED BY <1>1, <1>7, <2>1, <2>2
<1>12. r[i].seq < s[i].seq /\ s[i].seq < r[i].seq
  BY <1>3, <1>7, <1>8, <1>9, <1>10, <1>11
<1> QED BY <1>3, <1>7, <1>12

\* What the abstract store answers with is the packets by increasing number, from
\* the first one on.
LEMMA InOrderFacts ==
  ASSUME NEW P, Numbered(P)
  PROVE  /\ Abstract!InOrder(P) \in Seq(P)
         /\ P = {} => Abstract!InOrder(P) = <<>>
         /\ \A p \in P : (\A q \in P : q # p => p.seq < q.seq) =>
              /\ Abstract!InOrder(P \ {p}) \in Seq(P)
              /\ Abstract!InOrder(P) = <<p>> \o Abstract!InOrder(P \ {p})
<1>1. ASSUME NEW Q \in SUBSET P PROVE Numbered(Q) /\ Sorts(Abstract!InOrder(Q), Q)
  <2>1. Numbered(Q)
    BY NumberedSubset
  <2>2. \E s : Sorts(s, Q)
    BY <2>1, SortExists
  <2>3. \E s \in [1..Cardinality(Q) -> Q] :
          \A i, j \in 1..Cardinality(Q) : i < j => s[i].seq < s[j].seq
    BY <2>2 DEF Sorts
  <2>4. Abstract!InOrder(Q) = CHOOSE s \in [1..Cardinality(Q) -> Q] :
          \A i, j \in 1..Cardinality(Q) : i < j => s[i].seq < s[j].seq
    BY SameCardinality DEF Abstract!InOrder
  <2> QED BY <2>1, <2>3, <2>4 DEF Sorts
<1>2. Abstract!InOrder(P) \in [1..Cardinality(P) -> P] /\ Cardinality(P) \in Nat
  BY <1>1, NumberedSubset DEF Sorts
<1>3. Abstract!InOrder(P) \in Seq(P)
  BY <1>2
<1>4. ASSUME P = {} PROVE Abstract!InOrder(P) = <<>>
  <2>1. Cardinality(P) = 0
    BY <1>4, FS_EmptySet
  <2>2. Len(Abstract!InOrder(P)) = 0
    BY <1>2, <2>1
  <2> QED BY <1>3, <2>2
<1>5. ASSUME NEW p \in P, \A q \in P : q # p => p.seq < q.seq
      PROVE  /\ Abstract!InOrder(P \ {p}) \in Seq(P)
             /\ Abstract!InOrder(P) = <<p>> \o Abstract!InOrder(P \ {p})
  <2>1. Sorts(Abstract!InOrder(P \ {p}), P \ {p}) /\ Sorts(Abstract!InOrder(P), P)
    BY <1>1
  <2>2. /\ Abstract!InOrder(P \ {p}) \in Seq(P)
        /\ Sorts(<<p>> \o Abstract!InOrder(P \ {p}), P)
    BY <1>5, <2>1, SortsFirst
  <2> QED BY <2>1, <2>2, SortUnique
<1> QED BY <1>3, <1>4, <1>5

----------------------------------------------------------------------------
(***************************************************************************)
(* The store and its queries, as their users see them.                      *)
(***************************************************************************)

\* Finitely many packets under their own keys, no two with the same number.
Family(f) ==
    /\ f = [k \in DOMAIN f |-> f[k]]
    /\ IsFiniteSet(DOMAIN f)
    /\ \A k \in DOMAIN f :
         /\ f[k] \in StoredPacket
         /\ ToStreamKey(f[k].id) # NoKey
         /\ k = ToStreamKey(f[k].id) \o BigEndian(f[k].seq)
         /\ f[k].seq < Base^SeqWidth
    /\ \A j, k \in DOMAIN f : f[j].seq = f[k].seq => j = k

\* The packets of f in the stream with this key.
OfStream(f, key) == {Named(f[k]) : k \in {j \in DOMAIN f : ToStreamKey(f[j].id) = key}}

\* Packets by the name of their stream.
NamedPacket == {Named(p) : p \in StoredPacket}

\* The iterator has only keys before it that are not before the one it was
\* opened at, and what is missing of the responses is its stream's packets.
IteratorInv ==
    prefix # NoKey =>
        /\ querying
        /\ prefix \in Seq(Byte) /\ Len(prefix) = StreamKeyLength
        /\ \E start \in Nat : /\ start < Base^SeqWidth
                              /\ \A k \in DOMAIN unread :
                                   ~Before(k, prefix \o BigEndian(start))
        /\ due = responses \o Abstract!InOrder(OfStream(unread, prefix))

QueryInv ==
    /\ Family(packets) /\ Family(unread)
    /\ responses \in Seq(NamedPacket)
    /\ IteratorInv
    /\ prefix = NoKey /\ querying => responses = due

\* What a family's keys are made of.
LEMMA FamilyFacts ==
  ASSUME NEW f, Family(f), NEW k \in DOMAIN f
  PROVE  LET own == ToStreamKey(f[k].id)   n == f[k].seq
         IN  /\ f[k].id \in Identifier /\ n \in Nat /\ n < Base^SeqWidth
             /\ own # NoKey /\ own \in Seq(Byte) /\ Len(own) = StreamKeyLength
             /\ BigEndian(n) \in Seq(Byte) /\ Len(BigEndian(n)) = SeqWidth
             /\ k = own \o BigEndian(n) /\ k \in Seq(Byte) /\ Len(k) = PacketKeyLength
             /\ Named(f[k]) \in NamedPacket
<1> DEFINE own == ToStreamKey(f[k].id)   n == f[k].seq
<1>1. /\ f[k] \in StoredPacket /\ own # NoKey /\ k = own \o BigEndian(n) /\ n < Base^SeqWidth
  BY DEF Family
<1>2. f[k].id \in Identifier /\ n \in Nat
  BY <1>1, KeyedStoreAssumption DEF StoredPacket
<1>3. own \in Seq(Byte) /\ Len(own) = StreamKeyLength
  BY <1>1, <1>2, StreamKeyFacts
<1>4. BigEndian(n) \in Seq(Byte) /\ Len(BigEndian(n)) = SeqWidth
  BY <1>2, BigEndianType
<1>5. k \in Seq(Byte) /\ Len(k) = Len(own) + Len(BigEndian(n))
  <2> HIDE DEF own, n
  <2> QED BY <1>1, <1>3, <1>4, JoinedFacts
<1>6. Len(k) = PacketKeyLength
  BY <1>3, <1>4, <1>5 DEF PacketKeyLength
<1>7. Named(f[k]) \in NamedPacket
  BY <1>1 DEF NamedPacket
<1> QED BY <1>1, <1>2, <1>3, <1>4, <1>5, <1>6, <1>7

\* A packet as users see it keeps its number.
LEMMA NamedFacts ==
  \A p : Named(p).name = ToString(p.id) /\ Named(p).seq = p.seq
  BY DEF Named

\* Within a family the keys of a stream are in the order of their numbers.
LEMMA FamilyOrder ==
  ASSUME NEW f, Family(f), NEW k \in DOMAIN f, NEW key, ToStreamKey(f[k].id) = key,
         NEW m \in Nat, m < Base^SeqWidth
  PROVE  Before(k, key \o BigEndian(m)) <=> f[k].seq < m
<1>1. /\ key \in Seq(Byte) /\ k = key \o BigEndian(f[k].seq)
      /\ f[k].seq \in Nat /\ f[k].seq < Base^SeqWidth
  BY FamilyFacts
<1> QED BY <1>1, KeysOrderNumbers

\* Part of a family is a family.
LEMMA PartOfFamily ==
  ASSUME NEW f, Family(f), NEW K
  PROVE  /\ Family(Without(f, K))
         /\ DOMAIN Without(f, K) = DOMAIN f \ K
         /\ \A k \in DOMAIN f \ K : Without(f, K)[k] = f[k]
<1> DEFINE g == Without(f, K)
<1>1. DOMAIN g = DOMAIN f \ K /\ \A k \in DOMAIN f \ K : g[k] = f[k]
  BY DEF Without
<1>2. g = [k \in DOMAIN g |-> g[k]]
  BY <1>1 DEF Without
<1> HIDE DEF g
<1>3. IsFiniteSet(DOMAIN g)
  <2>1. DOMAIN g \in SUBSET DOMAIN f /\ IsFiniteSet(DOMAIN f)
    BY <1>1 DEF Family
  <2> QED BY <2>1, FS_Subset
<1>4. \A k \in DOMAIN g : k \in DOMAIN f /\ g[k] = f[k]
  BY <1>1
<1>5. \A k \in DOMAIN f : /\ f[k] \in StoredPacket
                          /\ ToStreamKey(f[k].id) # NoKey
                          /\ k = ToStreamKey(f[k].id) \o BigEndian(f[k].seq)
                          /\ f[k].seq < Base^SeqWidth
  BY DEF Family
<1>6. \A j, k \in DOMAIN f : f[j].seq = f[k].seq => j = k
  BY DEF Family
<1>7. Family(g)
  BY <1>2, <1>3, <1>4, <1>5, <1>6 DEF Family
<1> QED BY <1>1, <1>7 DEF g

\* The packets of a stream are numbered.
LEMMA StreamNumbered ==
  ASSUME NEW f, Family(f), NEW key
  PROVE  Numbered(OfStream(f, key)) /\ OfStream(f, key) \subseteq NamedPacket
<1> DEFINE K == {j \in DOMAIN f : ToStreamKey(f[j].id) = key}   P == OfStream(f, key)
           g == [k \in K |-> Named(f[k])]
<1>1. IsFiniteSet(K)
  <2>1. K \in SUBSET DOMAIN f /\ IsFiniteSet(DOMAIN f)
    BY DEF Family
  <2> QED BY <2>1, FS_Subset
<1>2. P = {Named(f[k]) : k \in K}
  BY DEF OfStream
<1>3. g \in [K -> P] /\ \A p \in P : \E k \in K : g[k] = p
  <2> HIDE DEF K, P
  <2> QED BY <1>2
<1>4. IsFiniteSet(P)
  <2>1. g \in Surjection(K, P)
    BY <1>3 DEF Surjection
  <2> HIDE DEF g, K, P
  <2> QED BY <1>1, <2>1, FS_Surjection
<1>5. ASSUME NEW p \in P PROVE \E k \in DOMAIN f : p = Named(f[k]) /\ p.seq = f[k].seq
  BY <1>2, NamedFacts
<1>6. ASSUME NEW p \in P PROVE p.seq \in Nat /\ p \in NamedPacket
  BY <1>5, FamilyFacts
<1>7. ASSUME NEW p \in P, NEW q \in P, p.seq = q.seq PROVE p = q
  <2>1. PICK j \in DOMAIN f : p = Named(f[j]) /\ p.seq = f[j].seq
    BY <1>5
  <2>2. PICK k \in DOMAIN f : q = Named(f[k]) /\ q.seq = f[k].seq
    BY <1>5
  <2>3. j = k
    BY <1>7, <2>1, <2>2 DEF Family
  <2> QED BY <2>1, <2>2, <2>3
<1> QED BY <1>4, <1>6, <1>7 DEF Numbered

\* Identifiers of one name have keys or have none, all of them.
LEMMA SameNameKey ==
  ASSUME NEW a \in Identifier, NEW b \in Identifier, ToString(a) = ToString(b),
         ToStreamKey(a) # NoKey
  PROVE  ToStreamKey(b) # NoKey
<1>1. ASSUME NEW c \in Seq(Byte), NEW d \in Seq(Byte), Upper(c) = Upper(d), Encodable(c)
      PROVE  Encodable(d)
  <2>1. /\ DOMAIN Upper(c) = 1..Len(c) /\ DOMAIN Upper(d) = 1..Len(d)
        /\ Len(c) \in Nat /\ Len(d) \in Nat
    BY DEF Upper
  <2>2. 1..Len(c) = 1..Len(d)
    BY <1>1, <2>1
  <2>3. Len(c) = Len(d)
    <3>1. \A i \in Nat : (i \in 1..Len(c) <=> 1 =< i /\ i =< Len(c))
                         /\ (i \in 1..Len(d) <=> 1 =< i /\ i =< Len(d))
      OBVIOUS
    <3>2. Len(c) # 0 => Len(c) =< Len(d)
      BY <2>1, <2>2, <3>1
    <3>3. Len(d) # 0 => Len(d) =< Len(c)
      BY <2>1, <2>2, <3>1
    <3> QED BY <2>1, <3>2, <3>3
  <2>4. \A i \in 1..Len(d) : c[i] \in Byte /\ d[i] \in Byte /\ ToUpper[c[i]] = ToUpper[d[i]]
    <3>1. \A i \in 1..Len(d) : Upper(c)[i] = ToUpper[c[i]] /\ Upper(d)[i] = ToUpper[d[i]]
      BY <2>3 DEF Upper
    <3> QED BY <1>1, <2>3, <3>1
  <2>5. \A i \in 1..Len(d) : d[i] # NUL
    BY <1>1, <2>3, <2>4, KeyAssumption DEF Encodable
  <2>6. c # <<>> /\ Len(c) =< Width
    BY <1>1 DEF Encodable
  <2>7. d # <<>>
    BY <2>3, <2>6
  <2> QED BY <2>3, <2>5, <2>6, <2>7 DEF Encodable
<1>2. /\ Get(a.network) \in Seq(Byte) /\ Get(a.station) \in Seq(Byte)
      /\ CanonicalLocationCode(a) \in Seq(Byte) /\ Get(a.channel) \in Seq(Byte)
      /\ Get(b.network) \in Seq(Byte) /\ Get(b.station) \in Seq(Byte)
      /\ CanonicalLocationCode(b) \in Seq(Byte) /\ Get(b.channel) \in Seq(Byte)
  BY CodeTypes
<1>3. /\ Upper(Get(a.network)) = Upper(Get(b.network))
      /\ Upper(Get(a.station)) = Upper(Get(b.station))
      /\ Upper(CanonicalLocationCode(a)) = Upper(CanonicalLocationCode(b))
      /\ Upper(Get(a.channel)) = Upper(Get(b.channel))
  BY DEF ToString
<1>4. /\ Encodable(Get(a.network)) /\ Encodable(Get(a.station))
      /\ Encodable(CanonicalLocationCode(a)) /\ Encodable(Get(a.channel))
  BY DEF ToStreamKey
<1>5. /\ Encodable(Get(b.network)) /\ Encodable(Get(b.station))
      /\ Encodable(CanonicalLocationCode(b)) /\ Encodable(Get(b.channel))
  BY <1>1, <1>2, <1>3, <1>4
<1> DEFINE x == Padded(Get(b.network)) \o Padded(Get(b.station))
                \o Padded(CanonicalLocationCode(b)) \o Padded(Get(b.channel))
<1>6. ToStreamKey(b) = x
  BY <1>5 DEF ToStreamKey
<1>7. Len(x) = Width + Width + Width + Width
  <2> DEFINE p1 == Padded(Get(b.network))   p2 == Padded(Get(b.station))
             p3 == Padded(CanonicalLocationCode(b))   p4 == Padded(Get(b.channel))
  <2>1. /\ p1 \in Seq(Byte) /\ p2 \in Seq(Byte) /\ p3 \in Seq(Byte) /\ p4 \in Seq(Byte)
        /\ Len(p1) = Width /\ Len(p2) = Width /\ Len(p3) = Width /\ Len(p4) = Width
    BY <1>2, PaddedType
  <2> HIDE DEF p1, p2, p3, p4
  <2>2. p1 \o p2 \in Seq(Byte) /\ Len(p1 \o p2) = Width + Width
    <3>1. p1 \o p2 \in Seq(Byte) /\ Len(p1 \o p2) = Len(p1) + Len(p2)
      BY <2>1, JoinedFacts
    <3> QED BY <2>1, <3>1
  <2>3. (p1 \o p2) \o p3 \in Seq(Byte) /\ Len((p1 \o p2) \o p3) = Width + Width + Width
    BY <2>1, <2>2, JoinedFacts
  <2>4. Len(((p1 \o p2) \o p3) \o p4) = Width + Width + Width + Width
    BY <2>1, <2>3, JoinedFacts
  <2> QED BY <2>4 DEF p1, p2, p3, p4
<1>8. x # <<>>
  BY <1>7, KeyAssumption
<1> QED BY <1>6, <1>8 DEF NoKey

\* A family without packets.
LEMMA EmptyFamily ==
  /\ Family(Empty) /\ DOMAIN Empty = {}
  /\ \A f : Family(f) /\ DOMAIN f = {} => f = Empty
<1>1. DOMAIN Empty = {} /\ Empty = [k \in DOMAIN Empty |-> Empty[k]]
  BY DEF Empty
<1>2. Family(Empty)
  BY <1>1, FS_EmptySet DEF Family
<1>3. ASSUME NEW f, Family(f), DOMAIN f = {} PROVE f = Empty
  <2>1. f = [k \in DOMAIN f |-> f[k]]
    BY <1>3 DEF Family
  <2> QED BY <1>1, <1>3, <2>1
<1> QED BY <1>1, <1>2, <1>3

\* A packet that users see is a stored one.
LEMMA ContentsFacts ==
  ASSUME NEW q \in Contents
  PROVE  \E k \in DOMAIN packets : q = Named(packets[k]) /\ q.seq = packets[k].seq
                                   /\ q.name = ToString(packets[k].id)
  BY NamedFacts DEF Contents

\* To its users a write adds a packet that is newer than all others, or nothing.
LEMMA WriteContents ==
  ASSUME StoreInv, Family(packets), NEW id \in Identifiers, NEW complete \in BOOLEAN,
         NEW t \in Times, Write(id, complete, t)
  PROVE  /\ Family(packets')
         /\ \/ Contents' = Contents
            \/ \E p \in Contents' \ Contents : /\ Contents' = Contents \cup {p}
                                               /\ \A q \in Contents : q.seq < p.seq
<1> DEFINE n == counter + 1   key == ToStreamKey(id)   pk == key \o BigEndian(n)
           new == [id |-> id, seq |-> n, recv |-> t]
<1>1. /\ counter \in Nat /\ n \in Nat /\ counter' = n /\ n =< LastNumber
      /\ n < Base^SeqWidth
  <2>1. counter \in Nat /\ LastNumber \in Nat /\ counter < LastNumber
    BY NumbersFit DEF Write
  <2>2. n \in Nat /\ n =< LastNumber /\ n =< LastNumber + 1
    BY <2>1
  <2> QED BY <2>1, <2>2, NumbersFit DEF Write
<1>2. CASE ToPacketKey(id, n) = NoKey
  <2>1. packets' = packets
    BY <1>1, <1>2 DEF Write
  <2> QED BY <2>1 DEF Contents
<1>3. CASE ToPacketKey(id, n) # NoKey
  <2>1. key # NoKey /\ packets' = With(packets, pk, new)
    BY <1>1, <1>3 DEF Write, ToPacketKey
  <2>2. /\ id \in Identifier /\ key \in Seq(Byte) /\ Len(key) = StreamKeyLength
    BY <2>1, KeyedStoreAssumption, StreamKeyFacts
  <2>3. new \in StoredPacket /\ new.id = id /\ new.seq = n
    BY <1>1 DEF StoredPacket
  <2>4. BigEndian(n) \in Seq(Byte) /\ Len(BigEndian(n)) = SeqWidth
    BY <1>1, BigEndianType
  <2>5. pk = ToStreamKey(new.id) \o BigEndian(new.seq) /\ ToStreamKey(new.id) = key
    BY <2>3
  <2> HIDE DEF new, key, n
  <2>6. pk \in Seq(Byte)
    BY <2>2, <2>4, JoinedFacts
  <2>7. \A k \in DOMAIN packets : packets[k].seq \in Nat /\ packets[k].seq < n
    <3>1. \A k \in DOMAIN packets : packets[k].seq \in Nat /\ packets[k].seq =< counter
      BY StoredFacts
    <3> QED BY <1>1, <3>1 DEF n
  <2>8. pk \notin DOMAIN packets
    <3>1. SUFFICES ASSUME pk \in DOMAIN packets PROVE FALSE
      OBVIOUS
    <3> DEFINE own == ToStreamKey(packets[pk].id)   m == packets[pk].seq
    <3>2. /\ own \in Seq(Byte) /\ Len(own) = StreamKeyLength /\ pk = own \o BigEndian(m)
          /\ BigEndian(m) \in Seq(Byte)
      BY <3>1, FamilyFacts
    <3>3. own = key
      <4> HIDE DEF own, m
      <4> QED BY <2>2, <2>4, <3>2, ConcatCancel
    <3>4. Before(pk, key \o BigEndian(n)) <=> m < n
      <4> HIDE DEF pk
      <4> QED BY <1>1, <3>1, <3>3, FamilyOrder
    <3>5. Before(pk, pk)
      BY <2>7, <3>1, <3>4
    <3> HIDE DEF pk
    <3> QED BY <2>6, <3>5, BeforeStrict
  <2> HIDE DEF pk
  <2>9. /\ DOMAIN packets' = DOMAIN packets \cup {pk} /\ packets'[pk] = new
        /\ \A k \in DOMAIN packets : packets'[k] = packets[k]
        /\ packets' = [k \in DOMAIN packets' |-> packets'[k]]
    BY <2>1, <2>8 DEF With
  <2>10. Family(packets')
    <3>1. IsFiniteSet(DOMAIN packets')
      BY <2>9, FS_AddElement DEF Family
    <3>2. ASSUME NEW k \in DOMAIN packets'
          PROVE  /\ packets'[k] \in StoredPacket
                 /\ ToStreamKey(packets'[k].id) # NoKey
                 /\ k = ToStreamKey(packets'[k].id) \o BigEndian(packets'[k].seq)
                 /\ packets'[k].seq < Base^SeqWidth
      <4>1. CASE k = pk
        <5>1. packets'[k] = new
          BY <2>9, <4>1
        <5> QED BY <1>1, <2>1, <2>3, <2>5, <4>1, <5>1
      <4>2. CASE k # pk
        <5>1. k \in DOMAIN packets /\ packets'[k] = packets[k]
          BY <2>9, <4>2
        <5>2. /\ packets[k] \in StoredPacket
              /\ ToStreamKey(packets[k].id) # NoKey
              /\ k = ToStreamKey(packets[k].id) \o BigEndian(packets[k].seq)
              /\ packets[k].seq < Base^SeqWidth
          BY <5>1 DEF Family
        <5> QED BY <5>1, <5>2
      <4> QED BY <4>1, <4>2
    <3>3. ASSUME NEW j \in DOMAIN packets', NEW k \in DOMAIN packets',
                 packets'[j].seq = packets'[k].seq
          PROVE  j = k
      <4>1. \A i \in DOMAIN packets : packets'[i].seq \in Nat /\ packets'[i].seq < n
        BY <2>7, <2>9
      <4>2. packets'[pk].seq = n
        BY <2>3, <2>9
      <4>3. (j = pk \/ j \in DOMAIN packets) /\ (k = pk \/ k \in DOMAIN packets)
        BY <2>9
      <4>4. CASE j = pk \/ k = pk
        <5>1. \A i \in DOMAIN packets : packets'[i].seq # n
          BY <1>1, <4>1
        <5> QED BY <3>3, <4>2, <4>3, <4>4, <5>1
      <4>5. CASE j \in DOMAIN packets /\ k \in DOMAIN packets
        <5>1. packets[j].seq = packets[k].seq
          BY <2>9, <3>3, <4>5
        <5> QED BY <4>5, <5>1 DEF Family
      <4> QED BY <4>3, <4>4, <4>5
    <3> QED BY <2>9, <3>1, <3>2, <3>3 DEF Family
  <2>11. Contents' = Contents \cup {Named(new)}
    <3>1. Contents' = {Named(packets'[k]) : k \in DOMAIN packets'}
      BY DEF Contents
    <3>2. Contents = {Named(packets[k]) : k \in DOMAIN packets}
      BY DEF Contents
    <3> QED BY <2>9, <3>1, <3>2
  <2>12. Named(new).seq = n /\ \A q \in Contents : q.seq \in Nat /\ q.seq < n
    BY <2>3, <2>7, NamedFacts, ContentsFacts
  <2>13. Named(new) \notin Contents
    BY <1>1, <2>12
  <2> QED BY <2>10, <2>11, <2>12, <2>13
<1> QED BY <1>2, <1>3

\* To its users a truncation removes the packets up to one of them, or nothing.
LEMMA TruncateContents ==
  ASSUME StoreInv, Family(packets), NEW n \in ChunkSizes, TruncateOldest(n)
  PROVE  /\ Family(packets')
         /\ \/ Contents' = Contents
            \/ \E p \in Contents : Contents' = {q \in Contents : q.seq > p.seq}
<1> DEFINE c == Cutoff(n)
<1>1. /\ c \in Nat
      /\ DOMAIN packets' = {k \in DOMAIN packets : packets[k].seq >= c}
      /\ \A k \in DOMAIN packets' : packets'[k] = packets[k]
      /\ packets' = [k \in DOMAIN packets' |-> packets'[k]]
  BY TruncateFacts
<1> HIDE DEF c
<1>2. Family(packets')
  <2>1. DOMAIN packets' \in SUBSET DOMAIN packets /\ IsFiniteSet(DOMAIN packets)
    BY <1>1 DEF Family
  <2>2. IsFiniteSet(DOMAIN packets')
    BY <2>1, FS_Subset
  <2>3. \A k \in DOMAIN packets : /\ packets[k] \in StoredPacket
                                  /\ ToStreamKey(packets[k].id) # NoKey
                                  /\ k = ToStreamKey(packets[k].id) \o BigEndian(packets[k].seq)
                                  /\ packets[k].seq < Base^SeqWidth
    BY DEF Family
  <2>4. \A j, k \in DOMAIN packets : packets[j].seq = packets[k].seq => j = k
    BY DEF Family
  <2> QED BY <1>1, <2>1, <2>2, <2>3, <2>4 DEF Family
<1>3. \A k \in DOMAIN packets : packets[k].seq \in Nat
  BY StoredFacts
<1>4. Contents' = {q \in Contents : q.seq >= c}
  <2>1. Contents' = {Named(packets'[k]) : k \in DOMAIN packets'}
    BY DEF Contents
  <2>2. Contents = {Named(packets[k]) : k \in DOMAIN packets}
    BY DEF Contents
  <2>3. \A k \in DOMAIN packets : Named(packets[k]).seq = packets[k].seq
    BY NamedFacts
  <2> QED BY <1>1, <2>1, <2>2, <2>3
<1>5. \A q \in Contents : q.seq \in Nat
  BY <1>3, ContentsFacts
<1> DEFINE T == {q.seq : q \in {r \in Contents : r.seq < c}}
<1>6. CASE T = {}
  <2>1. ASSUME NEW q \in Contents PROVE q.seq >= c
    <3>1. ~(q.seq < c)
      <4>1. q.seq < c => q.seq \in T
        OBVIOUS
      <4> QED BY <1>6, <4>1
    <3> QED BY <1>1, <1>5, <3>1
  <2> QED BY <1>2, <1>4, <2>1
<1>7. CASE T # {}
  <2>1. T \subseteq 0..c
    BY <1>1, <1>5
  <2>2. PICK m \in T : \A x \in T : x =< m
    <3> HIDE DEF T
    <3> QED BY <1>1, <1>7, <2>1, GreatestNumber
  <2>3. PICK p \in Contents : p.seq = m /\ p.seq < c
    BY <2>2
  <2>4. ASSUME NEW q \in Contents PROVE q.seq >= c <=> q.seq > p.seq
    <3>1. q.seq \in Nat /\ p.seq \in Nat
      BY <1>5, <2>3
    <3>2. q.seq < c => q.seq =< m
      BY <2>2
    <3> QED BY <1>1, <2>3, <3>1, <3>2
  <2>5. Contents' = {q \in Contents : q.seq > p.seq}
    BY <1>4, <2>4
  <2> QED BY <1>2, <2>3, <2>5
<1> QED BY <1>6, <1>7

\* An iterator is opened: it has before it what the stream has from the number on.
LEMMA SeekMatches ==
  ASSUME Family(packets), NEW id \in Identifiers, NEW start \in Nat, start < Base^SeqWidth,
         NEW f, f = IF ToStreamKey(id) = NoKey THEN Empty
                    ELSE Without(packets, {k \in DOMAIN packets :
                                               Before(k, ToPacketKey(id, start))})
  PROVE  /\ Family(f)
         /\ ToStreamKey(id) # NoKey =>
              \A k \in DOMAIN f : ~Before(k, ToStreamKey(id) \o BigEndian(start))
         /\ LET M == Abstract!Matching(Contents, ToString(id), start)
            IN  /\ Numbered(M) /\ M \subseteq NamedPacket
                /\ ToStreamKey(id) = NoKey => M = {}
                /\ ToStreamKey(id) # NoKey => M = OfStream(f, ToStreamKey(id))
<1> DEFINE M == Abstract!Matching(Contents, ToString(id), start)   key == ToStreamKey(id)
<1>1. id \in Identifier
  BY KeyedStoreAssumption
<1>2. M = {q \in Contents : q.name = ToString(id) /\ q.seq >= start}
  BY DEF Abstract!Matching
<1>3. CASE key = NoKey
  <2>1. ASSUME NEW q \in M PROVE FALSE
    <3>1. PICK k \in DOMAIN packets : q.name = ToString(packets[k].id)
      BY <1>2, <2>1, ContentsFacts
    <3>2. packets[k].id \in Identifier /\ ToStreamKey(packets[k].id) # NoKey
      BY FamilyFacts
    <3>3. ToString(packets[k].id) = ToString(id)
      BY <1>2, <2>1, <3>1
    <3> QED BY <1>1, <1>3, <3>2, <3>3, SameNameKey
  <2>2. M = {}
    BY <2>1
  <2>3. Numbered({})
    BY FS_EmptySet DEF Numbered
  <2>4. f = Empty
    BY <1>3
  <2> QED BY <1>3, <2>2, <2>3, <2>4, EmptyFamily
<1>4. CASE key # NoKey
  <2> DEFINE K == {k \in DOMAIN packets : Before(k, key \o BigEndian(start))}
  <2>1. f = Without(packets, K)
    BY <1>4 DEF ToPacketKey
  <2>2. /\ Family(f) /\ DOMAIN f = DOMAIN packets \ K
        /\ \A k \in DOMAIN packets \ K : f[k] = packets[k]
    <3> HIDE DEF K
    <3>1. /\ Family(Without(packets, K)) /\ DOMAIN Without(packets, K) = DOMAIN packets \ K
          /\ \A k \in DOMAIN packets \ K : Without(packets, K)[k] = packets[k]
      BY PartOfFamily
    <3> QED BY <2>1, <3>1
  <2>3. \A k \in DOMAIN f : ~Before(k, key \o BigEndian(start))
    BY <2>2
  <2>4. ASSUME NEW k \in DOMAIN packets
        PROVE  /\ ToString(packets[k].id) = ToString(id) <=> ToStreamKey(packets[k].id) = key
               /\ ToStreamKey(packets[k].id) = key =>
                    (k \in DOMAIN f <=> packets[k].seq >= start)
    <3>1. /\ packets[k].id \in Identifier /\ ToStreamKey(packets[k].id) # NoKey
          /\ packets[k].seq \in Nat
      BY FamilyFacts
    <3>2. ToStreamKey(packets[k].id) = key =>
            (Before(k, key \o BigEndian(start)) <=> packets[k].seq < start)
      BY FamilyOrder
    <3>3. ToString(packets[k].id) = ToString(id) <=> ToStreamKey(packets[k].id) = key
      BY <1>1, <1>4, <3>1, KeysStandForNames
    <3> QED BY <2>2, <3>1, <3>2, <3>3
  <2>5. OfStream(f, key) = {Named(packets[k]) :
                              k \in {j \in DOMAIN f : ToStreamKey(packets[j].id) = key}}
    BY <2>2 DEF OfStream
  <2>6. Contents = {Named(packets[k]) : k \in DOMAIN packets}
    BY DEF Contents
  <2>7. DOMAIN f \subseteq DOMAIN packets
    BY <2>2
  <2> HIDE DEF K, M, key
  <2>8. \A q \in M : q \in OfStream(f, key)
    <3> TAKE q \in M
    <3>1. PICK k \in DOMAIN packets : /\ q = Named(packets[k]) /\ q.seq = packets[k].seq
                                      /\ q.name = ToString(packets[k].id)
      BY <1>2, ContentsFacts
    <3>2. q.name = ToString(id) /\ q.seq >= start
      BY <1>2
    <3> QED BY <2>4, <2>5, <3>1, <3>2
  <2>9. \A q \in OfStream(f, key) : q \in M
    <3> TAKE q \in OfStream(f, key)
    <3>1. PICK k \in DOMAIN f : q = Named(packets[k]) /\ ToStreamKey(packets[k].id) = key
      BY <2>5
    <3>2. q \in Contents /\ q.name = ToString(packets[k].id) /\ q.seq = packets[k].seq
      BY <2>6, <2>7, <3>1, NamedFacts
    <3> QED BY <1>2, <2>4, <2>7, <3>1, <3>2
  <2>10. M = OfStream(f, key)
    BY <2>8, <2>9
  <2>11. Numbered(M) /\ M \subseteq NamedPacket
    BY <2>2, <2>10, StreamNumbered
  <2> QED BY <1>4, <2>2, <2>3, <2>10, <2>11 DEF M, key
<1> QED BY <1>3, <1>4

\* To its users that is a look at a packet of the stream and all after it, or nothing.
LEMMA SeekStep ==
  ASSUME StoreInv, QueryInv, NEW id \in Identifiers, NEW start \in Starts,
         QuerySeek(id, start)
  PROVE  QueryInv' /\ (Abstract!Look \/ UNCHANGED Abstract!vars)
<1> DEFINE M == Abstract!Matching(Contents, ToString(id), start)   key == ToStreamKey(id)
<1>1. /\ querying /\ querying' = querying /\ prefix = NoKey /\ prefix' = key
      /\ responses' = responses /\ UNCHANGED tables
      /\ due' = due \o Abstract!InOrder(M)
      /\ unread' = IF key = NoKey THEN Empty
                   ELSE Without(packets, {k \in DOMAIN packets :
                                              Before(k, ToPacketKey(id, start))})
  BY DEF QuerySeek
<1>2. start \in Nat /\ start < Base^SeqWidth
  <2>1. start \in Nat /\ start =< LastNumber /\ LastNumber \in Nat
    BY KeyedStoreAssumption
  <2>2. start =< LastNumber + 1
    BY <2>1
  <2> QED BY <2>1, <2>2, NumbersFit
<1>3. Family(packets) /\ responses \in Seq(NamedPacket) /\ responses = due
  BY <1>1 DEF QueryInv
<1>4. /\ Family(unread')
      /\ key # NoKey => \A k \in DOMAIN unread' : ~Before(k, key \o BigEndian(start))
      /\ Numbered(M) /\ M \subseteq NamedPacket
      /\ key = NoKey => M = {}
      /\ key # NoKey => M = OfStream(unread', key)
  BY <1>1, <1>2, <1>3, SeekMatches
<1>5. packets' = packets /\ Contents' = Contents
  BY <1>1 DEF tables, Contents
<1>6. M = {q \in Contents : q.name = ToString(id) /\ q.seq >= start}
  BY DEF Abstract!Matching
<1>7. key # NoKey => key \in Seq(Byte) /\ Len(key) = StreamKeyLength
  BY KeyedStoreAssumption, StreamKeyFacts
<1> HIDE DEF M, key
<1>8. M = {} => due' = due
  <2>1. M = {} => Abstract!InOrder(M) = <<>>
    BY <1>4, InOrderFacts
  <2> QED BY <1>1, <1>3, <2>1, ConcatEmptySeq
<1>9. QueryInv'
  <2>1. IteratorInv'
    <3>1. SUFFICES ASSUME prefix' # NoKey
                   PROVE  /\ querying'
                          /\ prefix' \in Seq(Byte) /\ Len(prefix') = StreamKeyLength
                          /\ \E s \in Nat : /\ s < Base^SeqWidth
                                            /\ \A k \in DOMAIN unread' :
                                                 ~Before(k, prefix' \o BigEndian(s))
                          /\ due' = responses' \o Abstract!InOrder(OfStream(unread', prefix'))
      BY DEF IteratorInv, Abstract!InOrder, OfStream, Named
    <3>2. key # NoKey
      BY <1>1, <3>1
    <3>3. due' = responses' \o Abstract!InOrder(OfStream(unread', prefix'))
      BY <1>1, <1>3, <1>4, <3>2
    <3> QED BY <1>1, <1>2, <1>4, <1>7, <3>2, <3>3
  <2>2. Family(packets') /\ Family(unread') /\ responses' \in Seq(NamedPacket)
    BY <1>1, <1>3, <1>4, <1>5
  <2>3. prefix' = NoKey => responses' = due'
    BY <1>1, <1>3, <1>4, <1>8
  <2> QED BY <2>1, <2>2, <2>3 DEF QueryInv
<1>10. CASE M = {}
  <2>1. UNCHANGED Abstract!vars
    BY <1>1, <1>5, <1>8, <1>10 DEF Abstract!vars
  <2> QED BY <1>9, <2>1
<1>11. CASE M # {}
  <2>1. PICK p \in M : \A q \in M : q # p => p.seq < q.seq
    BY <1>4, <1>11, FirstPacket
  <2>2. p \in Contents /\ p.name = ToString(id) /\ p.seq >= start
    BY <1>6
  <2>3. \A q \in M : q.seq \in Nat
    BY <1>4 DEF Numbered
  <2>4. \A q \in Contents : q.seq \in Nat
    BY <1>3, ContentsFacts, FamilyFacts
  <2>5. Abstract!Matching(Contents, p.name, p.seq) =
          {q \in Contents : q.name = p.name /\ q.seq >= p.seq}
    BY DEF Abstract!Matching
  <2>6. ASSUME NEW q \in Contents, q.name = p.name PROVE q.seq >= p.seq <=> q.seq >= start
    <3>1. q.seq \in Nat /\ p.seq \in Nat
      BY <2>2, <2>4
    <3>2. q.seq >= start => q = p \/ p.seq < q.seq
      BY <1>6, <2>1, <2>2, <2>6
    <3> QED BY <1>2, <2>2, <3>1, <3>2
  <2>7. Abstract!Matching(Contents, p.name, p.seq) = M
    BY <1>6, <2>2, <2>5, <2>6
  <2>8. Abstract!Look
    BY <1>1, <1>5, <2>2, <2>7 DEF Abstract!Look
  <2> QED BY <1>9, <2>8
<1> QED BY <1>10, <1>11

\* The key of a packet starts with the key of its stream and with no other.
LEMMA PrefixFacts ==
  ASSUME NEW f, Family(f), NEW k \in DOMAIN f, NEW key \in Seq(Byte),
         Len(key) = StreamKeyLength
  PROVE  StartsWith(k, key) <=> ToStreamKey(f[k].id) = key
<1> DEFINE own == ToStreamKey(f[k].id)   s == BigEndian(f[k].seq)
<1>1. /\ own \in Seq(Byte) /\ Len(own) = StreamKeyLength /\ s \in Seq(Byte)
      /\ k = own \o s /\ k \in Seq(Byte) /\ Len(k) = PacketKeyLength
  BY FamilyFacts
<1>2. StreamKeyLength \in Nat /\ SeqWidth \in Nat /\ PacketKeyLength = StreamKeyLength + SeqWidth
  BY KeyAssumption DEF StreamKeyLength, PacketKeyLength
<1> HIDE DEF own, s
<1>3. \A i \in 1..StreamKeyLength : k[i] = own[i] /\ k[i] \in Byte
  <2>1. \A i \in 1..StreamKeyLength : i \in 1..Len(own) /\ i \in 1..Len(k)
    BY <1>1, <1>2
  <2> QED BY <1>1, <2>1, JoinedFacts
<1> DEFINE first == SubSeq(k, 1, StreamKeyLength)
<1>4. /\ first \in Seq(Byte)
      /\ Len(first) = IF 1 <= StreamKeyLength THEN StreamKeyLength - 1 + 1 ELSE 0
      /\ \A i \in 1..(StreamKeyLength - 1 + 1) : first[i] = k[1 + i - 1]
  BY <1>2, <1>3, SubSeqProperties
<1> HIDE DEF first
<1>5. Len(first) = StreamKeyLength /\ \A i \in 1..StreamKeyLength : first[i] = own[i]
  <2>1. Len(first) = StreamKeyLength
    BY <1>2, <1>4
  <2>2. ASSUME NEW i \in 1..StreamKeyLength PROVE first[i] = own[i]
    <3>1. i \in 1..(StreamKeyLength - 1 + 1) /\ 1 + i - 1 = i
      BY <1>2
    <3> QED BY <1>3, <1>4, <3>1
  <2> QED BY <2>1, <2>2
<1>6. first = own
  BY <1>1, <1>4, <1>5, SeqEqual
<1> QED BY <1>6 DEF StartsWith, own, first

\* The iterator's first key: when it is in the stream it is the stream's next packet,
\* and when it is not the stream has none left.
LEMMA FirstUnread ==
  ASSUME QueryInv, prefix # NoKey, unread # Empty
  PROVE  LET k == Least(DOMAIN unread)   P == OfStream(unread, prefix)
         IN  /\ k \in DOMAIN unread
             /\ StartsWith(k, prefix) <=> ToStreamKey(unread[k].id) = prefix
             /\ StartsWith(k, prefix) => /\ Named(unread[k]) \in P
                                         /\ \A q \in P : q # Named(unread[k]) =>
                                                           unread[k].seq < q.seq
             /\ ~StartsWith(k, prefix) => P = {}
<1> DEFINE k == Least(DOMAIN unread)   P == OfStream(unread, prefix)
           K == {j \in DOMAIN unread : ToStreamKey(unread[j].id) = prefix}
<1>1. /\ Family(unread) /\ prefix \in Seq(Byte) /\ Len(prefix) = StreamKeyLength
  BY DEF QueryInv, IteratorInv
<1>2. PICK start \in Nat : /\ start < Base^SeqWidth
                           /\ \A j \in DOMAIN unread : ~Before(j, prefix \o BigEndian(start))
  BY DEF QueryInv, IteratorInv
<1>3. DOMAIN unread # {} /\ IsFiniteSet(DOMAIN unread)
  BY <1>1, EmptyFamily DEF Family
<1>4. k \in DOMAIN unread /\ \A j \in DOMAIN unread : j = k \/ Before(k, j)
  BY <1>1, <1>3, FamilyFacts, LeastKey
<1> HIDE DEF k
<1>5. StartsWith(k, prefix) <=> ToStreamKey(unread[k].id) = prefix
  BY <1>1, <1>4, PrefixFacts
<1>6. P = {Named(unread[j]) : j \in K}
  BY DEF OfStream
<1>7. ASSUME StartsWith(k, prefix)
      PROVE  Named(unread[k]) \in P /\ \A q \in P : q # Named(unread[k]) => unread[k].seq < q.seq
  <2>1. k \in K
    BY <1>4, <1>5, <1>7
  <2>2. ASSUME NEW j \in K, j # k PROVE unread[k].seq < unread[j].seq
    <3>1. /\ j = prefix \o BigEndian(unread[j].seq) /\ unread[j].seq \in Nat
          /\ unread[j].seq < Base^SeqWidth
      BY <1>1, FamilyFacts
    <3>2. Before(k, j)
      BY <1>4, <2>2
    <3>3. Before(k, prefix \o BigEndian(unread[j].seq)) <=> unread[k].seq < unread[j].seq
      BY <1>1, <1>4, <1>5, <1>7, <3>1, FamilyOrder
    <3> QED BY <3>1, <3>2, <3>3
  <2>3. ASSUME NEW q \in P, q # Named(unread[k]) PROVE unread[k].seq < q.seq
    <3>1. PICK j \in K : q = Named(unread[j])
      BY <1>6
    <3>2. q.seq = unread[j].seq /\ j # k
      BY <2>3, <3>1, NamedFacts
    <3> QED BY <2>2, <3>2
  <2> QED BY <1>6, <2>1, <2>3
<1>8. ASSUME ~StartsWith(k, prefix) PROVE P = {}
  <2>1. ASSUME NEW j \in K PROVE FALSE
    <3> DEFINE own == ToStreamKey(unread[k].id)   m == unread[k].seq   n == unread[j].seq
    <3>1. /\ own \in Seq(Byte) /\ Len(own) = StreamKeyLength /\ k = own \o BigEndian(m)
          /\ BigEndian(m) \in Seq(Byte) /\ Len(BigEndian(m)) = SeqWidth
      BY <1>1, <1>4, FamilyFacts
    <3>2. /\ j = prefix \o BigEndian(n)
          /\ BigEndian(n) \in Seq(Byte) /\ Len(BigEndian(n)) = SeqWidth
      BY <1>1, FamilyFacts
    <3>3. own # prefix
      BY <1>5, <1>8
    <3>4. Before(k, j)
      BY <1>4, <1>5, <1>8
    <3>5. BigEndian(start) \in Seq(Byte) /\ Len(BigEndian(start)) = SeqWidth
      BY BigEndianType
    <3> HIDE DEF own, m, n, K
    <3>6. Before(own \o BigEndian(m), prefix \o BigEndian(start))
      BY <1>1, <3>1, <3>2, <3>3, <3>4, <3>5, OtherPrefix
    <3> QED BY <1>2, <1>4, <3>1, <3>6
  <2> QED BY <1>6, <2>1
<1> QED BY <1>4, <1>5, <1>7, <1>8 DEF k

\* Each packet that the iterator gives is the next one of those that are due.
LEMMA NextStep ==
  ASSUME QueryInv, QueryNext
  PROVE  QueryInv' /\ UNCHANGED Abstract!vars
<1> DEFINE k == Least(DOMAIN unread)   P == OfStream(unread, prefix)   p == Named(unread[k])
<1>1. /\ prefix # NoKey /\ unread # Empty /\ StartsWith(k, prefix)
      /\ responses' = Append(responses, [p EXCEPT !.seq = ReadBigEndian(k, StreamKeyLength)])
      /\ unread' = Without(unread, {k})
      /\ UNCHANGED <<tables, querying, asked, prefix, due>>
  BY DEF QueryNext
<1>2. /\ Family(packets) /\ Family(unread) /\ responses \in Seq(NamedPacket) /\ querying
      /\ prefix \in Seq(Byte) /\ Len(prefix) = StreamKeyLength
      /\ due = responses \o Abstract!InOrder(P)
  BY <1>1 DEF QueryInv, IteratorInv
<1>3. PICK start \in Nat : /\ start < Base^SeqWidth
                           /\ \A j \in DOMAIN unread : ~Before(j, prefix \o BigEndian(start))
  BY <1>1 DEF QueryInv, IteratorInv
<1>4. /\ k \in DOMAIN unread /\ ToStreamKey(unread[k].id) = prefix
      /\ p \in P /\ \A q \in P : q # p => unread[k].seq < q.seq
  BY <1>1, FirstUnread
<1>5. [p EXCEPT !.seq = ReadBigEndian(k, StreamKeyLength)] = p
  <2>1. /\ k = prefix \o BigEndian(unread[k].seq) /\ unread[k].seq \in Nat
        /\ unread[k].seq < Base^SeqWidth
    BY <1>2, <1>4, FamilyFacts
  <2>2. ReadBigEndian(k, StreamKeyLength) = unread[k].seq
    BY <1>2, <2>1, NumberReadBack
  <2> QED BY <2>2 DEF Named
<1> HIDE DEF k
<1>6. p.seq = unread[k].seq /\ p \in NamedPacket /\ Numbered(P) /\ P \subseteq NamedPacket
  BY <1>2, <1>4, FamilyFacts, NamedFacts, StreamNumbered
<1>7. /\ Family(unread') /\ DOMAIN unread' = DOMAIN unread \ {k}
      /\ \A j \in DOMAIN unread \ {k} : unread'[j] = unread[j]
  <2>1. /\ Family(Without(unread, {k})) /\ DOMAIN Without(unread, {k}) = DOMAIN unread \ {k}
        /\ \A j \in DOMAIN unread \ {k} : Without(unread, {k})[j] = unread[j]
    BY <1>2, PartOfFamily
  <2> QED BY <1>1, <2>1
<1>8. OfStream(unread', prefix) = P \ {p}
  <2>1. ASSUME NEW j \in DOMAIN unread, j # k PROVE Named(unread[j]) # p
    <3>1. unread[j].seq # unread[k].seq
      BY <1>2, <1>4, <2>1 DEF Family
    <3> QED BY <3>1, NamedFacts
  <2>2. P = {Named(unread[j]) : j \in {i \in DOMAIN unread : ToStreamKey(unread[i].id) = prefix}}
    BY DEF OfStream
  <2>3. OfStream(unread', prefix) =
          {Named(unread[j]) : j \in {i \in DOMAIN unread \ {k} :
                                       ToStreamKey(unread[i].id) = prefix}}
    BY <1>7 DEF OfStream
  <2> HIDE DEF P, p
  <2>4. \A q \in P \ {p} : q \in OfStream(unread', prefix)
    BY <2>2, <2>3 DEF p
  <2>5. \A q \in OfStream(unread', prefix) : q \in P \ {p}
    BY <2>1, <2>2, <2>3
  <2> QED BY <2>4, <2>5
<1>9. /\ Abstract!InOrder(P \ {p}) \in Seq(P)
      /\ Abstract!InOrder(P) = <<p>> \o Abstract!InOrder(P \ {p})
  <2> HIDE DEF P, p
  <2> QED BY <1>4, <1>6, InOrderFacts
<1> HIDE DEF P, p
<1>10. responses' = responses \o <<p>> /\ responses' \in Seq(NamedPacket)
  <2>1. responses' = Append(responses, p)
    BY <1>1, <1>5 DEF p
  <2> QED BY <1>2, <1>6, <2>1, AppendIsConcat, AppendProperties
<1>11. due = responses' \o Abstract!InOrder(P \ {p})
  <2> DEFINE r == Abstract!InOrder(P \ {p})
  <2>1. r \in Seq(NamedPacket) /\ <<p>> \in Seq(NamedPacket)
    <3>1. r \in Seq(P)
      BY <1>9
    <3> HIDE DEF r
    <3> QED BY <1>6, <3>1, SeqMonotonic
  <2> HIDE DEF r
  <2>2. (responses \o <<p>>) \o r = responses \o (<<p>> \o r)
    BY <1>2, <2>1, ConcatAssociative
  <2> QED BY <1>2, <1>9, <1>10, <2>2 DEF r
<1>12. IteratorInv'
  <2>1. SUFFICES /\ querying'
                 /\ prefix' \in Seq(Byte) /\ Len(prefix') = StreamKeyLength
                 /\ \E s \in Nat : /\ s < Base^SeqWidth
                                   /\ \A j \in DOMAIN unread' :
                                        ~Before(j, prefix' \o BigEndian(s))
                 /\ due' = responses' \o Abstract!InOrder(OfStream(unread', prefix'))
    BY DEF IteratorInv, Abstract!InOrder, OfStream, Named
  <2>2. \A j \in DOMAIN unread' : ~Before(j, prefix' \o BigEndian(start))
    BY <1>1, <1>3, <1>7
  <2>3. due' = responses' \o Abstract!InOrder(OfStream(unread', prefix'))
    BY <1>1, <1>8, <1>11
  <2> QED BY <1>1, <1>2, <1>3, <2>2, <2>3
<1>13. QueryInv'
  BY <1>1, <1>2, <1>7, <1>10, <1>12 DEF QueryInv, tables
<1>14. UNCHANGED Abstract!vars
  BY <1>1, <1>2 DEF Abstract!vars, Contents, tables
<1> QED BY <1>13, <1>14

\* When the iterator is at its end, or at another stream, nothing is missing.
LEMMA BreakStep ==
  ASSUME QueryInv, QueryBreak
  PROVE  QueryInv' /\ UNCHANGED Abstract!vars
<1>1. /\ prefix # NoKey /\ prefix' = NoKey /\ unread' = Empty
      /\ unread # Empty => ~StartsWith(Least(DOMAIN unread), prefix)
      /\ UNCHANGED <<tables, querying, asked, responses, due>>
  BY DEF QueryBreak
<1>2. /\ Family(packets) /\ Family(unread) /\ responses \in Seq(NamedPacket)
      /\ due = responses \o Abstract!InOrder(OfStream(unread, prefix))
  BY <1>1 DEF QueryInv, IteratorInv
<1>3. OfStream(unread, prefix) = {}
  <2>1. CASE unread = Empty
    <3>1. DOMAIN unread = {}
      BY <2>1, EmptyFamily
    <3> QED BY <3>1 DEF OfStream
  <2>2. CASE unread # Empty
    BY <1>1, <2>2, FirstUnread
  <2> QED BY <2>1, <2>2
<1>4. due = responses
  <2>1. Abstract!InOrder(OfStream(unread, prefix)) = <<>>
    BY <1>2, <1>3, StreamNumbered, InOrderFacts
  <2> QED BY <1>2, <2>1, ConcatEmptySeq
<1>5. QueryInv'
  <2>1. IteratorInv'
    BY <1>1 DEF IteratorInv
  <2> QED BY <1>1, <1>2, <1>4, <2>1, EmptyFamily DEF QueryInv, tables
<1>6. UNCHANGED Abstract!vars
  BY <1>1 DEF Abstract!vars, Contents, tables
<1> QED BY <1>5, <1>6

\* The store as it is created has nothing to answer with.
LEMMA InitQuery == Init => QueryInv /\ Abstract!Init
<1> SUFFICES ASSUME Init PROVE QueryInv /\ Abstract!Init
  OBVIOUS
<1>1. /\ packets = Empty /\ unread = Empty /\ ~querying /\ prefix = NoKey
      /\ responses = <<>> /\ due = <<>>
  BY DEF Init
<1>2. Family(packets) /\ Family(unread) /\ DOMAIN packets = {}
  BY <1>1, EmptyFamily
<1>3. Contents = {}
  BY <1>2 DEF Contents
<1>4. responses \in Seq(NamedPacket)
  BY <1>1
<1>5. QueryInv
  BY <1>1, <1>2, <1>4 DEF QueryInv, IteratorInv
<1>6. Abstract!Init
  BY <1>1, <1>3 DEF Abstract!Init
<1> QED BY <1>5, <1>6

\* Each step is one that the abstract store may take, or changes nothing there.
LEMMA StoreRefines ==
  ASSUME StoreInv, QueryInv, [Next]_vars
  PROVE  QueryInv' /\ [Abstract!Next]_(Abstract!vars)
<1>1. ASSUME UNCHANGED queryVars, Family(packets') PROVE QueryInv'
  <2>1. UNCHANGED <<querying, prefix, unread, responses, due>>
    BY <1>1 DEF queryVars
  <2>2. IteratorInv
    BY DEF QueryInv
  <2>3. IteratorInv'
    BY <2>1, <2>2 DEF IteratorInv
  <2>4. /\ Family(unread') /\ responses' \in Seq(NamedPacket)
        /\ prefix' = NoKey /\ querying' => responses' = due'
    BY <2>1 DEF QueryInv
  <2> QED BY <1>1, <2>3, <2>4 DEF QueryInv
<1>2. ASSUME NEW id \in Identifiers, NEW complete \in BOOLEAN, NEW t \in Times,
             Write(id, complete, t)
      PROVE  QueryInv' /\ [Abstract!Next]_(Abstract!vars)
  <2>1. UNCHANGED queryVars
    BY <1>2 DEF Write
  <2>2. /\ Family(packets')
        /\ \/ Contents' = Contents
           \/ \E p \in Contents' \ Contents : /\ Contents' = Contents \cup {p}
                                              /\ \A q \in Contents : q.seq < p.seq
    BY <1>2, WriteContents DEF QueryInv
  <2>3. [Abstract!Next]_(Abstract!vars)
    BY <2>1, <2>2 DEF queryVars, Abstract!Next, Abstract!Store, Abstract!vars
  <2> QED BY <1>1, <2>1, <2>2, <2>3
<1>3. ASSUME NEW n \in ChunkSizes, TruncateOldest(n)
      PROVE  QueryInv' /\ [Abstract!Next]_(Abstract!vars)
  <2>1. UNCHANGED queryVars
    BY <1>3 DEF TruncateOldest
  <2>2. /\ Family(packets')
        /\ \/ Contents' = Contents
           \/ \E p \in Contents : Contents' = {q \in Contents : q.seq > p.seq}
    BY <1>3, TruncateContents DEF QueryInv
  <2>3. [Abstract!Next]_(Abstract!vars)
    BY <2>1, <2>2 DEF queryVars, Abstract!Next, Abstract!Purge, Abstract!vars
  <2> QED BY <1>1, <2>1, <2>2, <2>3
<1>4. CASE QueryBegin
  <2>1. /\ ~querying /\ querying' /\ responses' = <<>> /\ due' = <<>>
        /\ UNCHANGED <<tables, prefix, unread>>
    BY <1>4 DEF QueryBegin
  <2>2. prefix = NoKey
    BY <2>1 DEF QueryInv, IteratorInv
  <2>3. packets' = packets /\ Contents' = Contents
    BY <2>1 DEF tables, Contents
  <2>4. QueryInv'
    <3>1. Family(packets') /\ Family(unread')
      BY <2>1, <2>3 DEF QueryInv
    <3>2. IteratorInv'
      BY <2>1, <2>2 DEF IteratorInv
    <3>3. responses' \in Seq(NamedPacket)
      BY <2>1
    <3> QED BY <2>1, <3>1, <3>2, <3>3 DEF QueryInv
  <2>5. Abstract!Ask
    BY <2>1, <2>3 DEF Abstract!Ask
  <2> QED BY <2>4, <2>5 DEF Abstract!Next
<1>5. ASSUME NEW id \in Identifiers, NEW start \in Starts, QuerySeek(id, start)
      PROVE  QueryInv' /\ [Abstract!Next]_(Abstract!vars)
  <2>1. QueryInv' /\ (Abstract!Look \/ UNCHANGED Abstract!vars)
    BY <1>5, SeekStep
  <2> QED BY <2>1 DEF Abstract!Next
<1>6. CASE QueryNext
  BY <1>6, NextStep
<1>7. CASE QueryBreak
  BY <1>7, BreakStep
<1>8. CASE QueryReturn
  <2>1. /\ querying /\ ~querying' /\ prefix = NoKey
        /\ UNCHANGED <<tables, asked, prefix, unread, responses, due>>
    BY <1>8 DEF QueryReturn
  <2>2. responses = due
    BY <2>1 DEF QueryInv
  <2>3. packets' = packets /\ Contents' = Contents
    BY <2>1 DEF tables, Contents
  <2>4. QueryInv'
    <3>1. Family(packets') /\ Family(unread') /\ responses' \in Seq(NamedPacket)
      BY <2>1, <2>3 DEF QueryInv
    <3>2. IteratorInv'
      BY <2>1 DEF IteratorInv
    <3> QED BY <2>1, <3>1, <3>2 DEF QueryInv
  <2>5. Abstract!Answer
    BY <2>1, <2>2, <2>3 DEF Abstract!Answer
  <2> QED BY <2>4, <2>5 DEF Abstract!Next
<1>9. CASE UNCHANGED vars
  <2>1. UNCHANGED queryVars /\ packets' = packets
    BY <1>9 DEF vars, tables
  <2>2. Family(packets') /\ Contents' = Contents
    BY <2>1 DEF QueryInv, Contents
  <2>3. UNCHANGED Abstract!vars
    BY <2>1, <2>2 DEF queryVars, Abstract!vars
  <2> QED BY <1>1, <2>1, <2>2, <2>3
<1> QED BY <1>2, <1>3, <1>4, <1>5, <1>6, <1>7, <1>8, <1>9 DEF Next, Query

\* With its byte keys the store is the set of named packets it is meant to be,
\* whatever writes and truncations come between the steps of a query: no key stands
\* for two packets, truncation removes the oldest of all streams and nothing else,
\* and a query returns just the packets of the streams asked for, from the given
\* number on, by increasing number, as they were when its iterator was opened.
THEOREM KeyedStoreImplements == Spec => ImplementsPacketStore
<1>1. Init => QueryInv /\ Abstract!Init
  BY InitQuery
<1>2. StoreInv /\ QueryInv /\ [Next]_vars => QueryInv' /\ [Abstract!Next]_(Abstract!vars)
  BY StoreRefines
<1> QED BY <1>1, <1>2, StoreInvariant, PTL DEF Spec, ImplementsPacketStore, Abstract!Spec

=============================================================================
