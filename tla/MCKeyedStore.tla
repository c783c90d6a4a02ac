---------------------------- MODULE MCKeyedStore ----------------------------
(***************************************************************************)
(* An instance of KeyedStore for TLC: bytes NUL, '-', 'A' and 'a'.          *)
(***************************************************************************)
EXTENDS KeyedStore

UpperA == [b \in 0..3 |-> IF b = 3 THEN 2 ELSE b]

A == <<2>>
Id(station, location) ==
    [network |-> A, station |-> station, location |-> location, channel |-> A]

\* The first two are one stream; the next two have the same codes up to where
\* one ends and the other begins; the last three have no key: a null byte, a
\* code that is too long, and a station that is not set.
SomeIdentifiers ==
    {Id(A, Unset), Id(<<3>>, <<1, 1>>),
     Id(A, <<2, 2>>), Id(<<2, 2>>, A),
     Id(<<2, 0>>, <<>>), Id(<<2, 2, 2>>, A), Id(Unset, A)}

=============================================================================
