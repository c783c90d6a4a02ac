-------------------------- MODULE MCRocksDatabase --------------------------
(***************************************************************************)
(* Instances of RocksDatabase for TLC.                                      *)
(***************************************************************************)
EXTENDS RocksDatabase, TLC

CONSTANTS s1, s2, u1

TwoStreams == {s1, s2}
OneUnkeyable == {u1}

\* Without the write-ahead log what is on disk multiplies the states.
SmallerWithoutWAL == [wal \in BOOLEAN |-> IF wal THEN 3 ELSE 2]

\* Streams are interchangeable: no action or property tells them apart.
Symmetry == Permutations(TwoStreams)

============================================================================
