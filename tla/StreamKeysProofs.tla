-------------------------- MODULE StreamKeysProofs --------------------------
(***************************************************************************)
(* Keys stand for names: for every width, alphabet and pair of identifiers. *)
(***************************************************************************)
EXTENDS StreamKeys, SequenceTheorems, WellFoundedInduction, TLAPS

\* Two joined strings whose first parts are of one length are equal only if
\* their parts are.
LEMMA ConcatCancel ==
    ASSUME NEW S, NEW s \in Seq(S), NEW t \in Seq(S), NEW u \in Seq(S), NEW v \in Seq(S),
           Len(s) = Len(u), s \o t = u \o v
    PROVE  s = u /\ t = v
<1> DEFINE j(i) == Len(s) + i
<1>1. Len(s) \in Nat /\ Len(t) \in Nat /\ Len(u) \in Nat /\ Len(v) \in Nat
  OBVIOUS
<1>2. Len(s) + Len(t) = Len(u) + Len(v)
  <2>1. Len(s \o t) = Len(s) + Len(t) /\ Len(u \o v) = Len(u) + Len(v)
    BY ConcatProperties
  <2> QED BY <2>1
<1>3. Len(t) = Len(v)
  BY <1>1, <1>2
<1>4. \A i \in 1..(Len(s) + Len(t)) :
         (s \o t)[i] = IF i =< Len(s) THEN s[i] ELSE t[i - Len(s)]
  BY ConcatProperties
<1>5. \A i \in 1..(Len(u) + Len(v)) :
         (u \o v)[i] = IF i =< Len(u) THEN u[i] ELSE v[i - Len(u)]
  BY ConcatProperties
<1>6. \A i \in 1..(Len(s) + Len(t)) :
         (IF i =< Len(s) THEN s[i] ELSE t[i - Len(s)])
         = (IF i =< Len(u) THEN u[i] ELSE v[i - Len(u)])
  BY <1>2, <1>4, <1>5
<1>7. \A i \in 1..Len(s) : s[i] = u[i]
  <2> TAKE i \in 1..Len(s)
  <2>1. i \in 1..(Len(s) + Len(t)) /\ i =< Len(s) /\ i =< Len(u)
    BY <1>1
  <2> QED BY <1>6, <2>1
<1>8. \A i \in 1..Len(t) : t[i] = v[i]
  <2> TAKE i \in 1..Len(t)
  <2>1. /\ j(i) \in 1..(Len(s) + Len(t)) /\ ~(j(i) =< Len(s)) /\ ~(j(i) =< Len(u))
        /\ j(i) - Len(s) = i /\ j(i) - Len(u) = i
    BY <1>1
  <2> HIDE DEF j
  <2>2. t[j(i) - Len(s)] = v[j(i) - Len(u)]
    BY <1>6, <2>1
  <2> QED BY <2>1, <2>2
<1>9. s = u
  BY <1>7, SeqEqual
<1>10. t = v
  BY <1>3, <1>8, SeqEqual
<1> QED BY <1>9, <1>10

\* A padded component is a string of the fixed width.
LEMMA PaddedType ==
    ASSUME NEW c \in Seq(Byte)
    PROVE  Padded(c) \in Seq(Byte) /\ Len(Padded(c)) = Width
<1>1. \A i \in 1..Width : (IF i =< Len(c) THEN ToUpper[c[i]] ELSE NUL) \in Byte
  <2> TAKE i \in 1..Width
  <2>1. CASE i =< Len(c)
    <3>1. c[i] \in Byte
      BY <2>1
    <3> QED BY <2>1, <3>1, KeyAssumption
  <2>2. CASE ~(i =< Len(c))
    <3>1. NUL \in Byte
      BY KeyAssumption DEF Byte, NUL
    <3> QED BY <2>2, <3>1
  <2> QED BY <2>1, <2>2
<1> QED BY <1>1, KeyAssumption DEF Padded

\* Padding keeps apart what differs by more than case: the null bytes that fill
\* a slot are in no code.
LEMMA PaddedExact ==
    ASSUME NEW c \in Seq(Byte), NEW d \in Seq(Byte), Encodable(c), Encodable(d)
    PROVE  Padded(c) = Padded(d) <=> Upper(c) = Upper(d)
<1> USE KeyAssumption
<1>a. \A i \in 1..Len(c) : ToUpper[c[i]] # NUL
  BY DEF Encodable
<1>b. \A i \in 1..Len(d) : ToUpper[d[i]] # NUL
  BY DEF Encodable
<1>c. Len(c) \in 1..Width /\ Len(d) \in 1..Width
  BY DEF Encodable
<1>1. ASSUME Padded(c) = Padded(d) PROVE Upper(c) = Upper(d)
  <2>1. \A i \in 1..Width : (IF i =< Len(c) THEN ToUpper[c[i]] ELSE NUL)
                          = (IF i =< Len(d) THEN ToUpper[d[i]] ELSE NUL)
    <3> TAKE i \in 1..Width
    <3>1. Padded(c)[i] = Padded(d)[i]
      BY <1>1
    <3> QED BY <3>1 DEF Padded
  <2>2. ~(Len(c) < Len(d))
    BY <2>1, <1>b, <1>c
  <2>3. ~(Len(d) < Len(c))
    BY <2>1, <1>a, <1>c
  <2>4. Len(c) = Len(d)
    BY <2>2, <2>3, <1>c
  <2>5. \A i \in 1..Len(c) : ToUpper[c[i]] = ToUpper[d[i]]
    BY <2>1, <2>4, <1>c
  <2> QED BY <2>4, <2>5 DEF Upper
<1>2. ASSUME Upper(c) = Upper(d) PROVE Padded(c) = Padded(d)
  <2>1. Len(c) = Len(d)
    <3>1. DOMAIN Upper(c) = 1..Len(c) /\ DOMAIN Upper(d) = 1..Len(d)
      BY DEF Upper
    <3>2. 1..Len(c) = 1..Len(d)
      BY <3>1, <1>2
    <3>3. Len(c) \in 1..Len(d) /\ Len(d) \in 1..Len(c)
      BY <3>2, <1>c
    <3> QED BY <3>3, <1>c
  <2>2. \A i \in 1..Len(c) : ToUpper[c[i]] = ToUpper[d[i]]
    <3> TAKE i \in 1..Len(c)
    <3>1. Upper(c)[i] = Upper(d)[i]
      BY <1>2
    <3> QED BY <3>1, <2>1 DEF Upper
  <2> QED BY <2>1, <2>2 DEF Padded
<1> QED BY <1>1, <1>2

\* The codes of an identifier are strings.
LEMMA CodeTypes ==
    ASSUME NEW id \in Identifier
    PROVE  /\ Get(id.network) \in Seq(Byte) /\ Get(id.station) \in Seq(Byte)
           /\ Get(id.channel) \in Seq(Byte) /\ CanonicalLocationCode(id) \in Seq(Byte)
<1>1. \A c \in Code : Get(c) \in Seq(Byte)
  BY DEF Get, Code
<1>2. id.network \in Code /\ id.station \in Code /\ id.location \in Code /\ id.channel \in Code
  BY DEF Identifier
<1>3. <<Dash, Dash>> \in Seq(Byte)
  BY KeyAssumption
<1>4. Get(id.location) # <<>> => id.location = Get(id.location)
  BY DEF Get
<1>5. CanonicalLocationCode(id) \in Seq(Byte)
  BY <1>1, <1>2, <1>3, <1>4 DEF CanonicalLocationCode
<1> QED BY <1>1, <1>2, <1>5

\* Identifiers that have keys have the same key exactly when toString() gives
\* them the same name: no two streams share a key, and one stream has one key
\* however its publisher spells the codes or leaves out the location.
THEOREM KeysStandForNames ==
    ASSUME NEW a \in Identifier, NEW b \in Identifier,
           ToStreamKey(a) # NoKey, ToStreamKey(b) # NoKey
    PROVE  ToStreamKey(a) = ToStreamKey(b) <=> ToString(a) = ToString(b)
<1> DEFINE a1 == Get(a.network)   a2 == Get(a.station)
           a3 == CanonicalLocationCode(a)   a4 == Get(a.channel)
           b1 == Get(b.network)   b2 == Get(b.station)
           b3 == CanonicalLocationCode(b)   b4 == Get(b.channel)
<1>1. /\ Encodable(a1) /\ Encodable(a2) /\ Encodable(a3) /\ Encodable(a4)
      /\ Encodable(b1) /\ Encodable(b2) /\ Encodable(b3) /\ Encodable(b4)
  BY DEF ToStreamKey
<1>2. /\ ToStreamKey(a) = Padded(a1) \o Padded(a2) \o Padded(a3) \o Padded(a4)
      /\ ToStreamKey(b) = Padded(b1) \o Padded(b2) \o Padded(b3) \o Padded(b4)
  BY <1>1 DEF ToStreamKey
<1>3. ToString(a) = ToString(b) <=>
        Upper(a1) = Upper(b1) /\ Upper(a2) = Upper(b2) /\ Upper(a3) = Upper(b3)
        /\ Upper(a4) = Upper(b4)
  BY DEF ToString
<1>4. /\ a1 \in Seq(Byte) /\ a2 \in Seq(Byte) /\ a3 \in Seq(Byte) /\ a4 \in Seq(Byte)
      /\ b1 \in Seq(Byte) /\ b2 \in Seq(Byte) /\ b3 \in Seq(Byte) /\ b4 \in Seq(Byte)
  BY CodeTypes
<1> HIDE DEF a1, a2, a3, a4, b1, b2, b3, b4
<1>5. /\ Padded(a1) = Padded(b1) <=> Upper(a1) = Upper(b1)
      /\ Padded(a2) = Padded(b2) <=> Upper(a2) = Upper(b2)
      /\ Padded(a3) = Padded(b3) <=> Upper(a3) = Upper(b3)
      /\ Padded(a4) = Padded(b4) <=> Upper(a4) = Upper(b4)
  BY <1>1, <1>4, PaddedExact
<1> DEFINE p1 == Padded(a1)   p2 == Padded(a2)   p3 == Padded(a3)   p4 == Padded(a4)
           q1 == Padded(b1)   q2 == Padded(b2)   q3 == Padded(b3)   q4 == Padded(b4)
<1>6. /\ p1 \in Seq(Byte) /\ p2 \in Seq(Byte) /\ p3 \in Seq(Byte) /\ p4 \in Seq(Byte)
      /\ q1 \in Seq(Byte) /\ q2 \in Seq(Byte) /\ q3 \in Seq(Byte) /\ q4 \in Seq(Byte)
      /\ Len(p1) = Width /\ Len(p2) = Width /\ Len(p3) = Width /\ Len(p4) = Width
      /\ Len(q1) = Width /\ Len(q2) = Width /\ Len(q3) = Width /\ Len(q4) = Width
  BY <1>4, PaddedType
<1>7. ToStreamKey(a) = p1 \o p2 \o p3 \o p4 /\ ToStreamKey(b) = q1 \o q2 \o q3 \o q4
  BY <1>2
<1>8. ASSUME ToStreamKey(a) = ToStreamKey(b)
      PROVE  p1 = q1 /\ p2 = q2 /\ p3 = q3 /\ p4 = q4
  <2> HIDE DEF p1, p2, p3, p4, q1, q2, q3, q4
  <2> DEFINE p12 == p1 \o p2   p123 == p12 \o p3
             q12 == q1 \o q2   q123 == q12 \o q3
  <2>1. /\ p12 \in Seq(Byte) /\ Len(p12) = Width + Width
        /\ q12 \in Seq(Byte) /\ Len(q12) = Width + Width
    <3>1. p12 \in Seq(Byte) /\ Len(p12) = Len(p1) + Len(p2)
      BY <1>6, ConcatProperties
    <3>2. q12 \in Seq(Byte) /\ Len(q12) = Len(q1) + Len(q2)
      BY <1>6, ConcatProperties
    <3> QED BY <1>6, <3>1, <3>2
  <2>2. p123 \o p4 = q123 \o q4
    BY <1>7, <1>8
  <2>3. p12 = q12 => p1 = q1 /\ p2 = q2
    BY <1>6, ConcatCancel
  <2> HIDE DEF p12, q12
  <2>4. /\ p123 \in Seq(Byte) /\ Len(p123) = Width + Width + Width
        /\ q123 \in Seq(Byte) /\ Len(q123) = Width + Width + Width
    <3>1. p123 \in Seq(Byte) /\ Len(p123) = Len(p12) + Len(p3)
      BY <1>6, <2>1, ConcatProperties
    <3>2. q123 \in Seq(Byte) /\ Len(q123) = Len(q12) + Len(q3)
      BY <1>6, <2>1, ConcatProperties
    <3> QED BY <1>6, <2>1, <3>1, <3>2
  <2>5. p123 = q123 => p12 = q12 /\ p3 = q3
    <3>1. Len(p12) = Len(q12)
      BY <2>1
    <3> QED BY <1>6, <2>1, <3>1, ConcatCancel
  <2> HIDE DEF p123, q123
  <2>6. p123 = q123 /\ p4 = q4
    BY <1>6, <2>2, <2>4, ConcatCancel
  <2> QED BY <2>3, <2>5, <2>6
<1> QED BY <1>3, <1>5, <1>7, <1>8

----------------------------------------------------------------------------
(***************************************************************************)
(* Sequence numbers, most significant byte first.                           *)
(***************************************************************************)

\* A set of numbers that is not empty has a least one.
LEMMA LeastNumber ==
    ASSUME NEW T, T \subseteq Nat, T # {}
    PROVE  \E m \in T : \A t \in T : m =< t
<1> DEFINE R == {ss \in Nat \X Nat : ss[1] < ss[2]}
<1>1. IsWellFoundedOn(R, Nat)
  BY NatLessThanWellFounded DEF OpToRel
<1>2. PICK x \in T : \A y \in T : <<y, x>> \notin R
  <2> HIDE DEF R
  <2> QED BY <1>1, WFMin
<1>3. ASSUME NEW y \in T PROVE x =< y
  <2>1. <<y, x>> \in Nat \X Nat /\ <<y, x>>[1] = y /\ <<y, x>>[2] = x
    OBVIOUS
  <2>2. ~(y < x)
    BY <1>2, <2>1
  <2> QED BY <2>2
<1> QED BY <1>3

\* A set of numbers that is not empty and has a bound has a greatest one.
LEMMA GreatestNumber ==
    ASSUME NEW c \in Nat, NEW T, T \subseteq 0..c, T # {}
    PROVE  \E m \in T : \A t \in T : t =< m
<1> DEFINE U == {c - t : t \in T}
<1>1. \A t \in T : c - t \in Nat
  OBVIOUS
<1>2. U \subseteq Nat /\ U # {}
  BY <1>1
<1>3. PICK m \in U : \A t \in U : m =< t
  BY <1>2, LeastNumber
<1>4. PICK t \in T : m = c - t
  BY <1>3
<1>5. \A x \in T : m =< c - x
  BY <1>3
<1> QED BY <1>4, <1>5

\* Quotient and remainder.
LEMMA DivisionFacts ==
    ASSUME NEW x \in Nat, NEW d \in Nat \ {0}
    PROVE  /\ x \div d \in Nat /\ x % d \in 0..(d - 1)
           /\ x = d * (x \div d) + (x % d)
           /\ \A b \in Nat \ {0} : x \div (b * d) = (x \div d) \div b
           /\ \A y \in Nat : x =< y => x \div d =< y \div d
           /\ x < d => x \div d = 0
<1>1. x \div d \in Nat
  OBVIOUS
<1>2. x % d \in 0..(d - 1)
  OBVIOUS
<1>3. x = d * (x \div d) + (x % d)
  OBVIOUS
<1>4. ASSUME NEW b \in Nat \ {0} PROVE x \div (b * d) = (x \div d) \div b
  OBVIOUS
<1>5. ASSUME NEW y \in Nat, x =< y PROVE x \div d =< y \div d
  BY <1>5
<1>6. ASSUME x < d PROVE x \div d = 0
  BY <1>6
<1> QED BY <1>1, <1>2, <1>3, <1>4, <1>5, <1>6

\* The value of each place is positive.
LEMMA PowerType == \A i \in 0..SeqWidth : Base^i \in Nat \ {0}
<1> DEFINE T == {i \in 0..SeqWidth : Base^i \notin Nat \ {0}}
<1>1. SUFFICES ASSUME T # {} PROVE FALSE
  OBVIOUS
<1>2. SeqWidth \in Nat /\ Base \in Nat /\ Base > 1
  BY KeyAssumption
<1>3. T \subseteq Nat
  BY <1>2
<1>4. PICK i \in T : \A j \in T : i =< j
  BY <1>1, <1>3, LeastNumber
<1>5. i # 0
  BY <1>4, PowerAssumption
<1>6. i \in 1..SeqWidth /\ i - 1 \in 0..SeqWidth /\ i - 1 \notin T
  BY <1>2, <1>4, <1>5
<1>7. Base^(i - 1) \in Nat \ {0} /\ Base^i = Base * Base^(i - 1)
  BY <1>6, PowerAssumption
<1>8. Base^i \in Nat \ {0}
  BY <1>2, <1>7
<1> QED BY <1>4, <1>8

\* The number that the first i bytes of n make.
Leading(n, i) == n \div Base^(SeqWidth - i)

\* The first i bytes are the first i - 1 and one more.
LEMMA LeadingFacts ==
    ASSUME NEW n \in Nat
    PROVE  /\ n < Base^SeqWidth => Leading(n, 0) = 0
           /\ Leading(n, SeqWidth) = n
           /\ \A i \in 0..SeqWidth : Leading(n, i) \in Nat
           /\ \A i \in 1..SeqWidth : /\ BigEndian(n)[i] \in Byte
                                     /\ BigEndian(n)[i] = Leading(n, i) % Base
                                     /\ Leading(n, i) =
                                          Base * Leading(n, i - 1) + BigEndian(n)[i]
           /\ \A m \in Nat, i \in 0..SeqWidth : n =< m => Leading(n, i) =< Leading(m, i)
<1>1. SeqWidth \in Nat \ {0} /\ Base \in Nat \ {0} /\ Base > 1
  BY KeyAssumption
<1>2. \A i \in 0..SeqWidth : SeqWidth - i \in 0..SeqWidth
  BY <1>1
<1>3. \A i \in 0..SeqWidth : Base^(SeqWidth - i) \in Nat \ {0}
  BY <1>2, PowerType
<1>4. n < Base^SeqWidth => Leading(n, 0) = 0
  <2>1. SeqWidth - 0 = SeqWidth /\ Base^SeqWidth \in Nat \ {0}
    BY <1>1, PowerType
  <2>2. Leading(n, 0) = n \div Base^SeqWidth
    BY <2>1 DEF Leading
  <2> QED BY <2>1, <2>2, DivisionFacts
<1>5. Leading(n, SeqWidth) = n
  <2>1. SeqWidth - SeqWidth = 0 /\ Base^0 = 1
    BY <1>1, PowerAssumption
  <2>2. Leading(n, SeqWidth) = n \div 1
    BY <2>1 DEF Leading
  <2> QED BY <2>2
<1>6. \A i \in 0..SeqWidth : Leading(n, i) \in Nat
  BY <1>3, DivisionFacts DEF Leading
<1>7. ASSUME NEW i \in 1..SeqWidth
      PROVE  /\ BigEndian(n)[i] \in Byte
             /\ BigEndian(n)[i] = Leading(n, i) % Base
             /\ Leading(n, i) = Base * Leading(n, i - 1) + BigEndian(n)[i]
  <2> DEFINE d == Base^(SeqWidth - i)
  <2>1. i \in 0..SeqWidth /\ d \in Nat \ {0}
    BY <1>1, <1>3
  <2>2. Base^(SeqWidth - (i - 1)) = Base * d
    <3>1. SeqWidth - (i - 1) \in 1..SeqWidth
          /\ (SeqWidth - (i - 1)) - 1 = SeqWidth - i
      BY <1>1
    <3> QED BY <3>1, PowerAssumption
  <2>3. BigEndian(n)[i] = Leading(n, i) % Base
    BY DEF BigEndian, Leading
  <2>4. Leading(n, i - 1) = Leading(n, i) \div Base
    <3>1. Leading(n, i - 1) = n \div (Base * d)
      BY <2>2 DEF Leading
    <3>2. n \div (Base * d) = (n \div d) \div Base
      BY <1>1, <2>1, DivisionFacts
    <3> QED BY <3>1, <3>2 DEF Leading
  <2>5. Leading(n, i) \in Nat
    BY <1>6, <2>1
  <2> QED BY <1>1, <2>3, <2>4, <2>5, DivisionFacts DEF Byte
<1>8. ASSUME NEW m \in Nat, NEW i \in 0..SeqWidth, n =< m
      PROVE  Leading(n, i) =< Leading(m, i)
  BY <1>3, <1>8, DivisionFacts DEF Leading
<1> QED BY <1>4, <1>5, <1>6, <1>7, <1>8

\* The bytes of a number.
LEMMA BigEndianType ==
    ASSUME NEW n \in Nat
    PROVE  BigEndian(n) \in Seq(Byte) /\ Len(BigEndian(n)) = SeqWidth
<1>1. SeqWidth \in Nat
  BY KeyAssumption
<1>2. \A i \in 1..SeqWidth : BigEndian(n)[i] \in Byte
  BY LeadingFacts
<1>3. BigEndian(n) \in [1..SeqWidth -> Byte]
  BY <1>2 DEF BigEndian
<1> HIDE DEF BigEndian
<1> QED BY <1>1, <1>3

\* The byte that tells two numbers apart first is smaller in the smaller one.
LEMMA SmallerBefore ==
    ASSUME NEW a \in Nat, NEW b \in Nat, a < b, b < Base^SeqWidth
    PROVE  Before(BigEndian(a), BigEndian(b))
<1> DEFINE T == {i \in 0..SeqWidth : Leading(a, i) # Leading(b, i)}
<1>1. /\ SeqWidth \in Nat /\ SeqWidth \in 0..SeqWidth /\ 0 \in 0..SeqWidth
      /\ Base \in Nat \ {0} /\ Base^SeqWidth \in Nat
  BY KeyAssumption, PowerType
<1>2. T \subseteq Nat /\ T # {}
  <2>1. SeqWidth \in T
    BY <1>1, LeadingFacts
  <2> QED BY <1>1, <2>1
<1>3. PICK i \in T : \A j \in T : i =< j
  BY <1>2, LeastNumber
<1>4. i # 0
  <2>1. a < Base^SeqWidth
    BY <1>1
  <2>2. Leading(a, 0) = 0 /\ Leading(b, 0) = 0
    BY <2>1, LeadingFacts
  <2> QED BY <1>3, <2>2
<1>5. i \in 1..SeqWidth /\ Leading(a, i) # Leading(b, i)
  BY <1>1, <1>3, <1>4
<1>6. \A h \in 0..(i - 1) : Leading(a, h) = Leading(b, h)
  <2> TAKE h \in 0..(i - 1)
  <2>1. h \in 0..SeqWidth /\ ~(i =< h)
    BY <1>1, <1>5
  <2>2. h \notin T
    BY <1>3, <2>1
  <2> QED BY <2>1, <2>2
<1>7. \A h \in 1..(i - 1) : BigEndian(a)[h] = BigEndian(b)[h]
  <2> TAKE h \in 1..(i - 1)
  <2>1. h \in 1..SeqWidth /\ h \in 0..(i - 1)
    BY <1>1, <1>5
  <2> QED BY <1>6, <2>1, LeadingFacts
<1>8. BigEndian(a)[i] < BigEndian(b)[i]
  <2> DEFINE q == Leading(a, i - 1)
  <2>1. q = Leading(b, i - 1) /\ q \in Nat
    <3>1. i - 1 \in 0..(i - 1) /\ i - 1 \in 0..SeqWidth
      BY <1>1, <1>5
    <3> QED BY <1>6, <3>1, LeadingFacts
  <2>2. /\ Leading(a, i) = Base * q + BigEndian(a)[i]
        /\ Leading(b, i) = Base * q + BigEndian(b)[i]
        /\ BigEndian(a)[i] \in Byte /\ BigEndian(b)[i] \in Byte
    BY <1>5, <2>1, LeadingFacts
  <2>3. Leading(a, i) =< Leading(b, i)
    BY <1>1, <1>5, LeadingFacts
  <2>4. /\ BigEndian(a)[i] \in Int /\ BigEndian(b)[i] \in Int
        /\ Base * q \in Int
    BY <1>1, <2>1, <2>2 DEF Byte
  <2> HIDE DEF q
  <2> QED BY <1>5, <2>2, <2>3, <2>4
<1> QED BY <1>5, <1>7, <1>8, BigEndianType DEF Before

\* No key comes before itself or before one that comes before it.
LEMMA BeforeStrict ==
    ASSUME NEW j \in Seq(Byte), NEW k \in Seq(Byte), Len(j) = Len(k), Before(j, k)
    PROVE  j # k /\ ~Before(k, j)
<1>1. PICK i \in 1..Len(k) : j[i] < k[i] /\ \A h \in 1..(i - 1) : j[h] = k[h]
  BY DEF Before
<1>2. /\ \A h \in 1..Len(k) : j[h] \in Int /\ k[h] \in Int
      /\ Len(k) \in Nat
  <2>1. Byte \subseteq Int
    BY DEF Byte
  <2>2. (\A h \in 1..Len(k) : j[h] \in Byte /\ k[h] \in Byte) /\ Len(k) \in Nat
    OBVIOUS
  <2> QED BY <2>1, <2>2
<1>3. j # k
  BY <1>1, <1>2
<1>4. ASSUME NEW g \in 1..Len(j), k[g] < j[g], \A h \in 1..(g - 1) : k[h] = j[h]
      PROVE  FALSE
  <2>1. i \in Int /\ g \in Int /\ i >= 1 /\ g >= 1 /\ g \in 1..Len(k)
    BY <1>1, <1>2, <1>4
  <2>2. CASE i < g
    <3>1. i \in 1..(g - 1)
      BY <2>1, <2>2
    <3> QED BY <1>1, <1>2, <1>4, <3>1
  <2>3. CASE g < i
    <3>1. g \in 1..(i - 1)
      BY <2>1, <2>3
    <3> QED BY <1>1, <1>2, <1>4, <2>1, <3>1
  <2>4. CASE g = i
    BY <1>1, <1>2, <1>4, <2>4
  <2> QED BY <2>1, <2>2, <2>3, <2>4
<1>5. ~Before(k, j)
  BY <1>4 DEF Before
<1> QED BY <1>3, <1>5

\* A key and what follows it.
LEMMA JoinedFacts ==
    ASSUME NEW k \in Seq(Byte), NEW s \in Seq(Byte)
    PROVE  /\ k \o s \in Seq(Byte) /\ Len(k \o s) = Len(k) + Len(s)
           /\ \A i \in 1..Len(k) : (k \o s)[i] = k[i]
           /\ \A i \in 1..Len(s) : (k \o s)[Len(k) + i] = s[i]
<1>1. k \o s \in Seq(Byte) /\ Len(k \o s) = Len(k) + Len(s) /\ Len(k) \in Nat /\ Len(s) \in Nat
  BY ConcatProperties
<1>2. ASSUME NEW i \in 1..Len(k) PROVE (k \o s)[i] = k[i]
  BY ConcatProperties
<1>3. ASSUME NEW i \in 1..Len(s) PROVE (k \o s)[Len(k) + i] = s[i]
  <2>1. Len(k) + i \in 1..(Len(k) + Len(s)) /\ ~(Len(k) + i =< Len(k))
        /\ (Len(k) + i) - Len(k) = i
    BY <1>1
  <2> QED BY <1>1, <2>1, ConcatProperties
<1> QED BY <1>1, <1>2, <1>3

\* Where the first parts are equal the second ones decide.
LEMMA BeforeJoined ==
    ASSUME NEW k \in Seq(Byte), NEW s \in Seq(Byte), NEW t \in Seq(Byte), Before(s, t),
           Len(s) = Len(t)
    PROVE  Before(k \o s, k \o t)
<1> DEFINE n == Len(k)
<1>1. PICK i \in 1..Len(t) : s[i] < t[i] /\ \A h \in 1..(i - 1) : s[h] = t[h]
  BY DEF Before
<1>2. n \in Nat /\ Len(t) \in Nat /\ i \in Nat
  OBVIOUS
<1>3. n + i \in 1..Len(k \o t)
  BY <1>1, <1>2, JoinedFacts
<1>4. (k \o s)[n + i] = s[i] /\ (k \o t)[n + i] = t[i]
  BY <1>1, JoinedFacts
<1>5. ASSUME NEW h \in 1..((n + i) - 1) PROVE (k \o s)[h] = (k \o t)[h]
  <2>1. CASE h =< n
    <3>1. h \in 1..Len(k)
      BY <1>2, <2>1
    <3> QED BY <3>1, JoinedFacts
  <2>2. CASE ~(h =< n)
    <3> DEFINE g == h - n
    <3>1. g \in 1..(i - 1) /\ g \in 1..Len(t) /\ n + g = h
      BY <1>1, <1>2, <2>2
    <3>2. (k \o s)[n + g] = s[g] /\ (k \o t)[n + g] = t[g]
      BY <3>1, JoinedFacts
    <3> QED BY <1>1, <3>1, <3>2
  <2> QED BY <2>1, <2>2
<1> QED BY <1>1, <1>3, <1>4, <1>5 DEF Before

\* RocksDB keeps the packets of a stream by increasing number: toPacketKey() puts
\* the most significant byte first.  An iterator meets them in order, and a range of
\* keys is a range of numbers, as long as the numbers fit in their bytes.
THEOREM KeysOrderNumbers ==
    ASSUME NEW k \in Seq(Byte), NEW a \in Nat, NEW b \in Nat,
           a < Base^SeqWidth, b < Base^SeqWidth
    PROVE  Before(k \o BigEndian(a), k \o BigEndian(b)) <=> a < b
<1>1. /\ BigEndian(a) \in Seq(Byte) /\ Len(BigEndian(a)) = SeqWidth
      /\ BigEndian(b) \in Seq(Byte) /\ Len(BigEndian(b)) = SeqWidth
  BY BigEndianType
<1>2. /\ k \o BigEndian(a) \in Seq(Byte) /\ k \o BigEndian(b) \in Seq(Byte)
      /\ Len(k \o BigEndian(a)) = Len(k \o BigEndian(b))
  <2>1. k \o BigEndian(a) \in Seq(Byte) /\ Len(k \o BigEndian(a)) = Len(k) + SeqWidth
    BY <1>1, JoinedFacts
  <2>2. k \o BigEndian(b) \in Seq(Byte) /\ Len(k \o BigEndian(b)) = Len(k) + SeqWidth
    BY <1>1, JoinedFacts
  <2> QED BY <2>1, <2>2
<1>3. a < b => Before(k \o BigEndian(a), k \o BigEndian(b))
  BY <1>1, SmallerBefore, BeforeJoined
<1>4. b < a => Before(k \o BigEndian(b), k \o BigEndian(a))
  BY <1>1, SmallerBefore, BeforeJoined
<1>5. ASSUME Before(k \o BigEndian(a), k \o BigEndian(b)) PROVE ~(b < a) /\ a # b
  BY <1>2, <1>4, <1>5, BeforeStrict
<1> QED BY <1>3, <1>5

\* readBigEndian() gives back the number that toPacketKey() put into a key.
THEOREM NumberReadBack ==
    ASSUME NEW k \in Seq(Byte), NEW n \in Nat, n < Base^SeqWidth
    PROVE  ReadBigEndian(k \o BigEndian(n), Len(k)) = n
<1> DEFINE key == k \o BigEndian(n)
           step(f) == [i \in 0..SeqWidth |-> IF i = 0 THEN 0
                                             ELSE f[i - 1] * Base + key[Len(k) + i]]
           lead == [i \in 0..SeqWidth |-> Leading(n, i)]
           value == CHOOSE f : f = step(f)
<1>1. /\ SeqWidth \in Nat /\ SeqWidth \in 0..SeqWidth /\ Base \in Nat
      /\ \A i \in 1..SeqWidth : i \in 0..SeqWidth /\ i - 1 \in 0..SeqWidth /\ i # 0
  BY KeyAssumption
<1>2. \A i \in 1..SeqWidth : key[Len(k) + i] = BigEndian(n)[i]
  BY BigEndianType, JoinedFacts
<1> HIDE DEF key
<1>3. lead = step(lead)
  <2>1. ASSUME NEW i \in 0..SeqWidth PROVE lead[i] = step(lead)[i]
    <3>1. CASE i = 0
      BY <3>1, LeadingFacts
    <3>2. CASE i # 0
      <4>1. i \in 1..SeqWidth /\ i - 1 \in 0..SeqWidth
        BY <1>1, <3>2
      <4>2. /\ Leading(n, i) = Base * Leading(n, i - 1) + BigEndian(n)[i]
            /\ Leading(n, i - 1) \in Nat
        BY <4>1, LeadingFacts
      <4>3. Base * Leading(n, i - 1) = Leading(n, i - 1) * Base
        BY <1>1, <4>2
      <4>4. step(lead)[i] = lead[i - 1] * Base + key[Len(k) + i]
        BY <3>2
      <4>5. lead[i - 1] = Leading(n, i - 1) /\ lead[i] = Leading(n, i)
        BY <4>1
      <4> QED BY <1>2, <4>1, <4>2, <4>3, <4>4, <4>5
    <3> QED BY <3>1, <3>2
  <2> QED BY <2>1
<1>4. value = step(value)
  <2> HIDE DEF step, lead
  <2> QED BY <1>3
<1>5. value[SeqWidth] = lead[SeqWidth]
  <2> HIDE DEF value, lead
  <2> DEFINE T == {i \in 0..SeqWidth : value[i] # lead[i]}
  <2>1. SUFFICES ASSUME T # {} PROVE FALSE
    BY <1>1
  <2>2. PICK i \in T : \A j \in T : i =< j
    <3>1. T \subseteq Nat
      BY <1>1
    <3> HIDE DEF T
    <3> QED BY <2>1, <3>1, LeastNumber
  <2>3. i # 0
    <3>1. value[0] = 0 /\ lead[0] = 0
      BY <1>1, <1>3, <1>4
    <3> QED BY <2>2, <3>1
  <2>4. i \in 1..SeqWidth
    BY <1>1, <2>2, <2>3
  <2>5. value[i - 1] = lead[i - 1]
    <3>1. i - 1 \in 0..SeqWidth /\ ~(i =< i - 1)
      BY <1>1, <2>4
    <3> QED BY <2>2, <3>1
  <2>6. /\ value[i] = value[i - 1] * Base + key[Len(k) + i]
        /\ lead[i] = lead[i - 1] * Base + key[Len(k) + i]
    BY <1>1, <1>3, <1>4, <2>4
  <2> QED BY <2>2, <2>5, <2>6
<1>6. lead[SeqWidth] = n
  BY <1>1, LeadingFacts
<1>7. ReadBigEndian(k \o BigEndian(n), Len(k)) = value[SeqWidth]
  BY DEF ReadBigEndian, key
<1> QED BY <1>5, <1>6, <1>7

----------------------------------------------------------------------------
(***************************************************************************)
(* Names, read back from a key.                                             *)
(***************************************************************************)

\* A padded code up to its first null byte is the code.
LEMMA SlotReadBack ==
    ASSUME NEW key \in Seq(Byte), NEW offset \in Nat, offset + Width =< Len(key),
           NEW c \in Seq(Byte), Encodable(c),
           \A i \in 1..Width : key[offset + i] = Padded(c)[i]
    PROVE  ReadPadded(key, offset) = Upper(c)
<1> DEFINE slot == SubSeq(key, offset + 1, offset + Width)
           ends(n) == /\ \A i \in 1..n : slot[i] # NUL
                      /\ n = Width \/ slot[n + 1] = NUL
           end == CHOOSE n \in 0..Width : ends(n)
<1>1. Width \in Nat /\ Len(c) \in 1..Width /\ Len(c) \in 0..Width
  BY KeyAssumption DEF Encodable
<1>2. slot \in Seq(Byte) /\ Len(slot) = Width /\ \A i \in 1..Width : slot[i] = Padded(c)[i]
  <2>1. offset + 1 \in 1..(Len(key) + 1) /\ offset + Width \in 0..Len(key)
    BY <1>1
  <2>2. /\ slot \in Seq(Byte) /\ Len(slot) = Width
        /\ \A i \in 1..Width : slot[i] = key[offset + i]
    BY <1>1, <2>1
  <2> QED BY <2>2
<1>3. \A i \in 1..Width : slot[i] = IF i =< Len(c) THEN ToUpper[c[i]] ELSE NUL
  BY <1>2 DEF Padded
<1>4. \A i \in 1..Len(c) : slot[i] = ToUpper[c[i]] /\ slot[i] # NUL
  <2> TAKE i \in 1..Len(c)
  <2>1. i \in 1..Width /\ i =< Len(c) /\ c[i] \in Byte /\ c[i] # NUL
    BY <1>1 DEF Encodable
  <2> QED BY <1>3, <2>1, KeyAssumption
<1> HIDE DEF slot
<1>5. ends(Len(c))
  <2>1. CASE Len(c) = Width
    BY <1>4, <2>1
  <2>2. CASE Len(c) # Width
    <3>1. Len(c) + 1 \in 1..Width /\ ~(Len(c) + 1 =< Len(c))
      BY <1>1, <2>2
    <3> QED BY <1>3, <1>4, <3>1
  <2> QED BY <2>1, <2>2
<1>6. ASSUME NEW n \in 0..Width, ends(n) PROVE n = Len(c)
  <2>1. CASE n < Len(c)
    <3>1. n + 1 \in 1..Len(c) /\ n # Width
      BY <1>1, <2>1
    <3> QED BY <1>4, <1>6, <3>1
  <2>2. CASE Len(c) < n
    <3>1. Len(c) + 1 \in 1..n /\ Len(c) + 1 \in 1..Width /\ ~(Len(c) + 1 =< Len(c))
      BY <1>1, <2>2
    <3> QED BY <1>3, <1>6, <3>1
  <2> QED BY <1>1, <2>1, <2>2
<1>7. end = Len(c)
  <2> HIDE DEF ends
  <2> QED BY <1>1, <1>5, <1>6
<1>8. ReadPadded(key, offset) = SubSeq(slot, 1, Len(c))
  BY <1>7 DEF ReadPadded, slot
<1>9. SubSeq(slot, 1, Len(c)) = Upper(c)
  <2>1. /\ Len(SubSeq(slot, 1, Len(c))) = Len(c)
        /\ SubSeq(slot, 1, Len(c)) \in Seq(Byte)
        /\ \A i \in 1..Len(c) : SubSeq(slot, 1, Len(c))[i] = slot[i]
    BY <1>1, <1>2
  <2>2. DOMAIN SubSeq(slot, 1, Len(c)) = 1..Len(c)
    BY <2>1
  <2>3. SubSeq(slot, 1, Len(c)) = [i \in 1..Len(c) |-> SubSeq(slot, 1, Len(c))[i]]
    BY <2>1, <2>2
  <2> QED BY <1>4, <2>1, <2>3 DEF Upper
<1> QED BY <1>8, <1>9

\* A key is four slots of one width.
LEMMA StreamKeyFacts ==
    ASSUME NEW id \in Identifier, ToStreamKey(id) # NoKey
    PROVE  LET key == ToStreamKey(id)
           IN  /\ key \in Seq(Byte) /\ Len(key) = StreamKeyLength
               /\ Encodable(Get(id.network)) /\ Encodable(Get(id.station))
               /\ Encodable(CanonicalLocationCode(id)) /\ Encodable(Get(id.channel))
               /\ \A i \in 1..Width :
                    /\ key[0 + i] = Padded(Get(id.network))[i]
                    /\ key[Width + i] = Padded(Get(id.station))[i]
                    /\ key[2 * Width + i] = Padded(CanonicalLocationCode(id))[i]
                    /\ key[3 * Width + i] = Padded(Get(id.channel))[i]
<1> DEFINE p1 == Padded(Get(id.network))   p2 == Padded(Get(id.station))
           p3 == Padded(CanonicalLocationCode(id))   p4 == Padded(Get(id.channel))
<1>1. /\ Encodable(Get(id.network)) /\ Encodable(Get(id.station))
      /\ Encodable(CanonicalLocationCode(id)) /\ Encodable(Get(id.channel))
      /\ ToStreamKey(id) = p1 \o p2 \o p3 \o p4
  BY DEF ToStreamKey
<1>2. /\ p1 \in Seq(Byte) /\ p2 \in Seq(Byte) /\ p3 \in Seq(Byte) /\ p4 \in Seq(Byte)
      /\ Len(p1) = Width /\ Len(p2) = Width /\ Len(p3) = Width /\ Len(p4) = Width
      /\ Width \in Nat
  BY CodeTypes, PaddedType, KeyAssumption
<1> HIDE DEF p1, p2, p3, p4
<1> DEFINE q2 == p1 \o p2   q3 == q2 \o p3   q4 == q3 \o p4
<1>3. /\ q2 \in Seq(Byte) /\ Len(q2) = 2 * Width
      /\ \A i \in 1..Width : q2[i] = p1[i] /\ q2[Width + i] = p2[i]
  <2>1. /\ q2 \in Seq(Byte) /\ Len(q2) = Len(p1) + Len(p2)
        /\ \A i \in 1..Len(p1) : q2[i] = p1[i]
        /\ \A i \in 1..Len(p2) : q2[Len(p1) + i] = p2[i]
    BY <1>2, JoinedFacts
  <2> HIDE DEF q2
  <2> QED BY <1>2, <2>1
<1> HIDE DEF q2
<1>4. /\ q3 \in Seq(Byte) /\ Len(q3) = 3 * Width
      /\ \A i \in 1..(2 * Width) : q3[i] = q2[i]
      /\ \A i \in 1..Width : q3[2 * Width + i] = p3[i]
  <2>1. /\ q3 \in Seq(Byte) /\ Len(q3) = Len(q2) + Len(p3)
        /\ \A i \in 1..Len(q2) : q3[i] = q2[i]
        /\ \A i \in 1..Len(p3) : q3[Len(q2) + i] = p3[i]
    BY <1>2, <1>3, JoinedFacts
  <2> HIDE DEF q3
  <2> QED BY <1>2, <1>3, <2>1
<1> HIDE DEF q3
<1>5. /\ q4 \in Seq(Byte) /\ Len(q4) = 4 * Width
      /\ \A i \in 1..(3 * Width) : q4[i] = q3[i]
      /\ \A i \in 1..Width : q4[3 * Width + i] = p4[i]
  <2>1. /\ q4 \in Seq(Byte) /\ Len(q4) = Len(q3) + Len(p4)
        /\ \A i \in 1..Len(q3) : q4[i] = q3[i]
        /\ \A i \in 1..Len(p4) : q4[Len(q3) + i] = p4[i]
    BY <1>2, <1>4, JoinedFacts
  <2> HIDE DEF q4
  <2> QED BY <1>2, <1>4, <2>1
<1> HIDE DEF q4
<1>6. ToStreamKey(id) = q4
  BY <1>1 DEF q2, q3, q4
<1>7. ASSUME NEW i \in 1..Width
      PROVE  /\ q4[0 + i] = p1[i] /\ q4[Width + i] = p2[i]
             /\ q4[2 * Width + i] = p3[i] /\ q4[3 * Width + i] = p4[i]
  <2>1. /\ 0 + i = i /\ i \in 1..(2 * Width) /\ i \in 1..(3 * Width)
        /\ Width + i \in 1..(2 * Width) /\ Width + i \in 1..(3 * Width)
        /\ 2 * Width + i \in 1..(3 * Width)
    BY <1>2
  <2> QED BY <1>3, <1>4, <1>5, <2>1
<1> QED BY <1>1, <1>5, <1>6, <1>7 DEF StreamKeyLength, p1, p2, p3, p4

\* fromStreamKey() gives back the name that toStreamKey() was given: what
\* queryAvailableStreams() lists is what toString() calls the stream.
THEOREM NameReadBack ==
    ASSUME NEW id \in Identifier, ToStreamKey(id) # NoKey
    PROVE  FromStreamKey(ToStreamKey(id)) = ToString(id)
<1> DEFINE key == ToStreamKey(id)
           location == ReadPadded(key, 2 * Width)
<1>1. /\ key \in Seq(Byte) /\ Len(key) = 4 * Width /\ Width \in Nat /\ Width >= 2
      /\ Encodable(Get(id.network)) /\ Encodable(Get(id.station))
      /\ Encodable(CanonicalLocationCode(id)) /\ Encodable(Get(id.channel))
      /\ \A i \in 1..Width :
           /\ key[0 + i] = Padded(Get(id.network))[i]
           /\ key[Width + i] = Padded(Get(id.station))[i]
           /\ key[2 * Width + i] = Padded(CanonicalLocationCode(id))[i]
           /\ key[3 * Width + i] = Padded(Get(id.channel))[i]
  BY StreamKeyFacts, KeyAssumption DEF StreamKeyLength
<1>2. /\ Get(id.network) \in Seq(Byte) /\ Get(id.station) \in Seq(Byte)
      /\ Get(id.channel) \in Seq(Byte) /\ CanonicalLocationCode(id) \in Seq(Byte)
  BY CodeTypes
<1>3. /\ 0 + Width =< Len(key) /\ Width + Width =< Len(key)
      /\ 2 * Width + Width =< Len(key) /\ 3 * Width + Width =< Len(key)
      /\ 2 * Width \in Nat /\ 3 * Width \in Nat
  BY <1>1
<1> HIDE DEF key
<1>4. ReadPadded(key, 0) = Upper(Get(id.network))
  BY <1>1, <1>2, <1>3, SlotReadBack
<1>5. ReadPadded(key, Width) = Upper(Get(id.station))
  BY <1>1, <1>2, <1>3, SlotReadBack
<1>6. location = Upper(CanonicalLocationCode(id))
  BY <1>1, <1>2, <1>3, SlotReadBack
<1>7. ReadPadded(key, 3 * Width) = Upper(Get(id.channel))
  BY <1>1, <1>2, <1>3, SlotReadBack
<1>8. location # <<>>
  <2>1. Len(CanonicalLocationCode(id)) >= 1 /\ Len(CanonicalLocationCode(id)) \in Nat
    BY <1>1, <1>2 DEF Encodable
  <2>2. 1 \in DOMAIN Upper(CanonicalLocationCode(id))
    BY <2>1 DEF Upper
  <2> QED BY <1>6, <2>2
<1> QED BY <1>4, <1>5, <1>6, <1>7, <1>8 DEF FromStreamKey, ToString, key

=============================================================================
