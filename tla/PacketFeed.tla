----------------------------- MODULE PacketFeed -----------------------------
(***************************************************************************)
(* What the broker's data path promises: one line of packets, numbered      *)
(* without a gap in the order they were accepted, each once, and the same   *)
(* packet under a number wherever it goes.  Packets may be lost only at the *)
(* old end of a queue.  PacketPipeline implements it.                       *)
(***************************************************************************)
EXTENDS Integers, Sequences

CONSTANTS Publishers, FirstNumber

VARIABLES
    waiting,   \* accepted packets without a number
    number,    \* the last number given
    live,      \* numbered packets for the subscribers
    archive    \* numbered packets for the store

vars == <<waiting, number, live, archive>>

----------------------------------------------------------------------------
Suffixes(q) == {SubSeq(q, k, Len(q)) : k \in 1..(Len(q) + 1)}

\* What an overflow may leave: a suffix, and the oldest one if it is already on
\* its way out.
Kept(q) ==
    Suffixes(q) \cup
    {<<q[1]>> \o SubSeq(q, k, Len(q)) : k \in IF q = <<>> THEN {} ELSE 2..(Len(q) + 1)}

Newer(p, q) == \A i \in 1..Len(q) : q[i].from = p.from => q[i].n < p.n

----------------------------------------------------------------------------
Init ==
    /\ waiting = <<>> /\ live = <<>> /\ archive = <<>>
    /\ number = FirstNumber

\* A publisher's packet comes after the ones it sent before.
Accept ==
    /\ waiting' # <<>>
    /\ LET p == waiting'[Len(waiting')]
       IN  /\ p.from \in Publishers
           /\ Newer(p, waiting) /\ Newer(p, live) /\ Newer(p, archive)
           /\ \E rest \in Kept(waiting) : waiting' = Append(rest, p)
    /\ UNCHANGED <<number, live, archive>>

\* The oldest gets the next number, for subscribers and store alike.
Number ==
    /\ waiting # <<>>
    /\ number' = number + 1
    /\ waiting' = Tail(waiting)
    /\ LET p == Head(waiting)
           numbered == [from |-> p.from, n |-> p.n, seq |-> number + 1]
       IN  /\ \E rest \in Suffixes(live) : live' = Append(rest, numbered)
           /\ \E rest \in Suffixes(archive) : archive' = Append(rest, numbered)

\* A consumer takes the oldest, or it is dropped.
Forget ==
    /\ live' \in Suffixes(live) /\ archive' \in Suffixes(archive)
    /\ UNCHANGED <<waiting, number>>

Next == Accept \/ Number \/ Forget

Spec == Init /\ [][Next]_vars

=============================================================================
