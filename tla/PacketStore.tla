---------------------------- MODULE PacketStore ----------------------------
(***************************************************************************)
(* What a packet store promises its callers (the interface of              *)
(* IDataPacketStore): a set of numbered packets by stream name, which grows *)
(* by newer packets and shrinks from the old end, and queries that answer,  *)
(* for each stream asked for, with its packets from a number on, in order,  *)
(* as they were at some moment of the query.                                *)
(***************************************************************************)
EXTENDS Integers, Sequences, FiniteSets

VARIABLES
    stored,   \* the packets, each with its stream's name, number and receipt time
    due,      \* what the query under way has to answer so far
    answer    \* the answer of the last query

vars == <<stored, due, answer>>

\* The packets of P by increasing number.
InOrder(P) ==
    CHOOSE s \in [1..Cardinality(P) -> P] :
        \A i, j \in 1..Cardinality(P) : i < j => s[i].seq < s[j].seq

Matching(P, name, start) == {p \in P : p.name = name /\ p.seq >= start}

Init == stored = {} /\ due = <<>> /\ answer = <<>>

Store ==
    /\ \E p \in stored' \ stored :
         stored' = stored \cup {p} /\ \A q \in stored : q.seq < p.seq
    /\ UNCHANGED <<due, answer>>

Purge ==
    /\ \E p \in stored : stored' = {q \in stored : q.seq > p.seq}
    /\ UNCHANGED <<due, answer>>

Ask ==
    /\ due' = <<>> /\ answer' = <<>>
    /\ UNCHANGED stored

Look ==
    /\ \E p \in stored : due' = due \o InOrder(Matching(stored, p.name, p.seq))
    /\ UNCHANGED <<stored, answer>>

Answer ==
    /\ answer' = due
    /\ UNCHANGED <<stored, due>>

Next == Store \/ Purge \/ Ask \/ Look \/ Answer

Spec == Init /\ [][Next]_vars

=============================================================================
