----------------------------- MODULE StreamKeys -----------------------------
(***************************************************************************)
(* The key codec of src/src/utilities.cpp.  A stream is identified by four  *)
(* codes; its key is the four, in upper case and padded with null bytes to  *)
(* a fixed width.  A packet's key adds the sequence number, most            *)
(* significant byte first.  A byte is a number below Base, a string a       *)
(* sequence of bytes.                                                       *)
(***************************************************************************)
EXTENDS Integers, Sequences

CONSTANTS
    Base,       \* the number of values of a byte (256 in the code)
    Width,      \* bytes of each component (networkKeyLength and the others, 8)
    SeqWidth,   \* bytes of a sequence number (8)
    Dash,       \* the byte '-'
    ToUpper,    \* std::toupper, as a function on bytes
    Unset       \* a field of an identifier that is not set

NUL  == 0
Byte == 0..(Base - 1)

ASSUME KeyAssumption ==
    /\ Base \in Nat /\ Base > 1
    /\ Width \in Nat /\ Width >= 2
    /\ SeqWidth \in Nat \ {0}
    /\ Dash \in Byte \ {NUL}
    /\ ToUpper \in [Byte -> Byte]
    /\ ToUpper[Dash] = Dash
    /\ \A b \in Byte : ToUpper[b] = NUL <=> b = NUL
    /\ Unset \notin Seq(Byte)

\* What Base^i is, for the places of a sequence number.
ASSUME PowerAssumption ==
    Base^0 = 1 /\ \A i \in 1..SeqWidth : Base^i = Base * Base^(i - 1)

Code == Seq(Byte) \cup {Unset}
Identifier == [network : Code, station : Code, location : Code, channel : Code]

\* A getter of the message: an unset field reads as empty.
Get(code) == IF code = Unset THEN <<>> ELSE code

----------------------------------------------------------------------------
\* A packet needs these codes set, though they may be empty; complete says that
\* its start time, a positive sampling rate, data type and samples are there.
IsValid(id, complete) ==
    id.network # Unset /\ id.station # Unset /\ id.channel # Unset /\ complete

CanonicalLocationCode(id) ==
    IF Get(id.location) # <<>> THEN id.location ELSE <<Dash, Dash>>

Upper(code) == [i \in 1..Len(code) |-> ToUpper[code[i]]]

\* The name of a stream: toString(), without the dots between the codes.
ToString(id) ==
    [network  |-> Upper(Get(id.network)),
     station  |-> Upper(Get(id.station)),
     location |-> Upper(CanonicalLocationCode(id)),
     channel  |-> Upper(Get(id.channel))]

----------------------------------------------------------------------------
\* Not a key: toStreamKey() and toPacketKey() returned an error.
NoKey == <<>>

\* Faulty variant: null bytes are not looked for.
EncodableAnyByte(code) == code # <<>> /\ Len(code) =< Width

\* appendPaddedComponent() refuses what would not survive the fixed width.
Encodable(code) ==
    /\ code # <<>>
    /\ Len(code) =< Width
    /\ \A i \in 1..Len(code) : code[i] # NUL

\* Faulty variant: the codes are joined without padding.
PaddedNot(code) == Upper(code)

Padded(code) ==
    [i \in 1..Width |-> IF i =< Len(code) THEN ToUpper[code[i]] ELSE NUL]

ToStreamKey(id) ==
    IF /\ Encodable(Get(id.network)) /\ Encodable(Get(id.station))
       /\ Encodable(CanonicalLocationCode(id)) /\ Encodable(Get(id.channel))
    THEN Padded(Get(id.network)) \o Padded(Get(id.station))
         \o Padded(CanonicalLocationCode(id)) \o Padded(Get(id.channel))
    ELSE NoKey

BigEndian(n) == [i \in 1..SeqWidth |-> (n \div Base^(SeqWidth - i)) % Base]

ToPacketKey(id, n) ==
    IF ToStreamKey(id) = NoKey THEN NoKey ELSE ToStreamKey(id) \o BigEndian(n)

----------------------------------------------------------------------------
StreamKeyLength == 4 * Width
PacketKeyLength == StreamKeyLength + SeqWidth

\* The number in the SeqWidth bytes of key that follow offset.
ReadBigEndian(key, offset) ==
    LET value[i \in 0..SeqWidth] ==
            IF i = 0 THEN 0 ELSE value[i - 1] * Base + key[offset + i]
    IN  value[SeqWidth]

\* A slot up to its first null byte.
ReadPadded(key, offset) ==
    LET slot == SubSeq(key, offset + 1, offset + Width)
        end  == CHOOSE n \in 0..Width : /\ \A i \in 1..n : slot[i] # NUL
                                        /\ n = Width \/ slot[n + 1] = NUL
    IN  SubSeq(slot, 1, end)

\* fromStreamKey() of a key of the right length.
FromStreamKey(key) ==
    LET location == ReadPadded(key, 2 * Width)
    IN  [network  |-> ReadPadded(key, 0),
         station  |-> ReadPadded(key, Width),
         location |-> IF location = <<>> THEN <<Dash, Dash>> ELSE location,
         channel  |-> ReadPadded(key, 3 * Width)]

\* The order RocksDB keeps keys of one length in.
Before(j, k) ==
    \E i \in 1..Len(k) : j[i] < k[i] /\ \A h \in 1..(i - 1) : j[h] = k[h]

StartsWith(key, prefix) == SubSeq(key, 1, Len(prefix)) = prefix

=============================================================================
