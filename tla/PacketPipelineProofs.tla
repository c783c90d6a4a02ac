------------------------ MODULE PacketPipelineProofs ------------------------
(***************************************************************************)
(* Theorems about PacketPipeline, for any publishers, any queue limits and  *)
(* any number of packets.                                                   *)
(***************************************************************************)
EXTENDS PacketPipeline, SequenceTheorems, FiniteSetTheorems, TLAPS

\* Popping from the front leaves the newest elements, in order.
LEMMA KeepLastProperties ==
  ASSUME NEW S, NEW q \in Seq(S), NEW n \in Nat
  PROVE  /\ KeepLast(q, n) \in Seq(S)
         /\ Len(KeepLast(q, n)) = IF Len(q) =< n THEN Len(q) ELSE n
         /\ \A i \in 1..Len(KeepLast(q, n)) :
              KeepLast(q, n)[i] = q[Len(q) - Len(KeepLast(q, n)) + i]
<1>1. CASE Len(q) =< n
  BY <1>1 DEF KeepLast
<1>2. CASE ~(Len(q) =< n)
  BY <1>2 DEF KeepLast
<1> QED BY <1>1, <1>2

\* What addPacketCallback() leaves on the import queue before its push.
LEMMA ImportRoomProperties ==
  ASSUME NEW q \in Seq(Packet)
  PROVE  /\ ImportRoom(q) \in Seq(Packet)
         /\ Len(ImportRoom(q)) =< MaxImport
         /\ Len(ImportRoom(q)) =< Len(q)
  BY KeepLastProperties, PipelineAssumption DEF ImportRoom

\* A push that pops to max - 1 first: the queue ends with the new element,
\* before it are the newest of the old ones, and it is within its limit.
LEMMA PushProperties ==
  ASSUME NEW q \in Seq(Tagged), NEW p \in Tagged, NEW max \in Nat \ {0}
  PROVE  LET r == Push(q, p, max)
         IN  /\ r \in Seq(Tagged)
             /\ Len(r) =< max /\ Len(r) =< Len(q) + 1 /\ Len(r) >= 1
             /\ r[Len(r)] = p
             /\ \A i \in 1..(Len(r) - 1) : r[i] = q[Len(q) - Len(r) + 1 + i]
<1> DEFINE r == Push(q, p, max)
<1> DEFINE k == KeepLast(q, max - 1)
<1>1. /\ k \in Seq(Tagged) /\ Len(k) =< max - 1 /\ Len(k) =< Len(q)
      /\ \A i \in 1..Len(k) : k[i] = q[Len(q) - Len(k) + i]
  BY KeepLastProperties
<1> HIDE DEF k
<1>2. /\ r \in Seq(Tagged) /\ Len(r) = Len(k) + 1 /\ r[Len(r)] = p
      /\ \A i \in 1..Len(k) : r[i] = k[i]
  BY <1>1 DEF k, Push
<1> HIDE DEF r
<1>3. Len(r) =< max /\ Len(r) =< Len(q) + 1 /\ Len(r) >= 1
  BY <1>1, <1>2
<1>4. ASSUME NEW i \in 1..(Len(r) - 1) PROVE r[i] = q[Len(q) - Len(r) + 1 + i]
  <2>1. i \in 1..Len(k) /\ Len(q) - Len(k) + i = Len(q) - Len(r) + 1 + i
    <3>1. Len(k) \in Nat /\ Len(r) = Len(k) + 1 /\ Len(q) \in Nat
      BY <1>1, <1>2
    <3> QED BY <1>4, <3>1
  <2> QED BY <1>1, <1>2, <2>1
<1> QED BY <1>2, <1>3, <1>4 DEF r

----------------------------------------------------------------------------
\* A fresh pipeline has the right types.
LEMMA InitType == Init => TypeOK
  BY PipelineAssumption DEF Init, TypeOK

\* Every step keeps the types.
LEMMA TypeStep == TypeOK /\ [Next]_vars => TypeOK'
<1> SUFFICES ASSUME TypeOK, [Next]_vars PROVE TypeOK'
  OBVIOUS
<1> USE PipelineAssumption
<1>1. ASSUME NEW p \in Publishers, NEW valid \in BOOLEAN, Receive(p, valid) PROVE TypeOK'
  <2>1. /\ reader' \in [Publishers -> {"idle", "enqueue", "count"}]
        /\ sent' \in [Publishers -> Nat]
    BY <1>1 DEF TypeOK, Receive
  <2>2. metrics' \in [total : Nat, invalid : Nat, added : Nat, popped : Nat]
    BY <1>1 DEF TypeOK, Receive, Increment
  <2> QED BY <1>1, <2>1, <2>2 DEF TypeOK, Receive, propVars, queueVars, flags
<1>2. ASSUME NEW p \in Publishers, Enqueue(p) PROVE TypeOK'
  <2> DEFINE room == ImportRoom(importQueue)
  <2>1. /\ room \in Seq(Packet) /\ Len(room) \in Nat
        /\ Len(importQueue) - Len(room) \in Nat
    BY ImportRoomProperties DEF TypeOK
  <2>2. [from |-> p, n |-> sent[p]] \in Packet
    BY DEF TypeOK, Packet
  <2>3. /\ importQueue' = Append(room, [from |-> p, n |-> sent[p]])
        /\ nPopped' = [nPopped EXCEPT ![p] = Len(importQueue) - Len(room)]
        /\ dropped' = dropped + (Len(importQueue) - Len(room))
    BY <1>2 DEF Enqueue
  <2> HIDE DEF room
  <2>4. importQueue' \in Seq(Packet) /\ nPopped' \in [Publishers -> Nat] /\ dropped' \in Nat
    BY <2>1, <2>2, <2>3 DEF TypeOK
  <2> QED BY <1>2, <2>4 DEF TypeOK, Enqueue, propVars, flags
<1>3. ASSUME NEW p \in Publishers, Count(p) PROVE TypeOK'
  BY <1>3 DEF TypeOK, Count, Increment, propVars, queueVars, flags, observers
<1>4. CASE Take
  <2>1. Head(importQueue) \in Packet /\ importQueue' \in Seq(Packet)
    BY <1>4 DEF TypeOK, Take
  <2> QED BY <1>4, <2>1 DEF TypeOK, Take, readerVars, flags, observers
<1>5. CASE FanOutPublish
  <2>1. Tag(packet[1], counter + 1) \in Tagged
    BY <1>5 DEF TypeOK, FanOutPublish, Tag, Packet, Tagged
  <2>2. publishQueue' \in Seq(Tagged)
    BY <1>5, <2>1, PushProperties DEF TypeOK, FanOutPublish, PushPublish
  <2> QED BY <1>5, <2>1, <2>2 DEF TypeOK, FanOutPublish, readerVars, flags, observers
<1>6. CASE FanOutStore
  <2>1. storeQueue' \in Seq(Tagged)
    BY <1>6, PushProperties DEF TypeOK, FanOutStore, PushStore
  <2> QED BY <1>6, <2>1 DEF TypeOK, FanOutStore, readerVars, flags, observers
<1>7. CASE EnterLoop \/ FindEmpty \/ LeaveLoop
  BY <1>7 DEF TypeOK, EnterLoop, FindEmpty, LeaveLoop, readerVars, queueVars, flags, observers
<1>8. CASE Publish
  BY <1>8 DEF TypeOK, Publish, readerVars, propVars, flags, observers
<1>9. CASE StopService \/ StopLoops
  BY <1>9 DEF TypeOK, StopService, StopLoops, readerVars, propVars, queueVars, observers
<1>10. CASE UNCHANGED vars
  BY <1>10 DEF TypeOK, vars, readerVars, propVars, queueVars, flags, observers
<1> QED
  BY <1>1, <1>2, <1>3, <1>4, <1>5, <1>6, <1>7, <1>8, <1>9, <1>10 DEF Next, Propagate

\* In every reachable state every queue, the packet in the propagator's hands
\* and the counters are of their types; a packet is numbered exactly from the
\* moment it is on the publish queue.
THEOREM PipelineTypes == Spec => []TypeOK
  BY InitType, TypeStep, PTL DEF Spec

----------------------------------------------------------------------------
(***************************************************************************)
(* The limits, the account of packets and the numbering of the outgoing     *)
(* queues.  Agreement of the two queues needs to know what the propagator   *)
(* holds between its two pushes.                                            *)
(***************************************************************************)

\* Between the pushes the propagator holds the last numbered packet, and the
\* publish queue has no other packet of that number.
InFlight ==
    propagator = "store" =>
        /\ packet[1].seq = counter
        /\ \A i \in 1..Len(publishQueue) :
             publishQueue[i].seq = counter => publishQueue[i] = packet[1]

PipelineInv ==
    TypeOK /\ QueuesBounded /\ NothingVanishes /\ NumbersDense /\ InFlight /\ FanOutAgrees

\* Taking the front keeps the rest, shifted by one.
LEMMA TailProperties ==
  ASSUME NEW S, NEW q \in Seq(S), q # <<>>
  PROVE  /\ Tail(q) \in Seq(S) /\ Len(Tail(q)) = Len(q) - 1
         /\ \A i \in 1..Len(Tail(q)) : i + 1 \in 1..Len(q) /\ Tail(q)[i] = q[i + 1]
<1>1. Tail(q) \in Seq(S) /\ Len(Tail(q)) = Len(q) - 1
  OBVIOUS
<1>2. ASSUME NEW i \in 1..Len(Tail(q)) PROVE i + 1 \in 1..Len(q) /\ Tail(q)[i] = q[i + 1]
  <2>1. Len(q) \in Nat /\ i \in 1..(Len(q) - 1)
    BY <1>1
  <2>2. i + 1 \in 1..Len(q)
    BY <2>1
  <2>3. Tail(q)[i] = q[i + 1]
    BY <2>1
  <2> QED BY <2>2, <2>3
<1> QED BY <1>1, <1>2

\* A push of the next number keeps a queue dense.
LEMMA PushDense ==
  ASSUME NEW q \in Seq(Tagged), NEW p \in Tagged, NEW max \in Nat \ {0}, NEW last \in Int,
         Dense(q, last), p.seq = last + 1
  PROVE  Dense(Push(q, p, max), last + 1)
<1> DEFINE r == Push(q, p, max)
<1>1. /\ r \in Seq(Tagged) /\ Len(r) =< Len(q) + 1 /\ Len(r) >= 1 /\ r[Len(r)] = p
      /\ \A i \in 1..(Len(r) - 1) : r[i] = q[Len(q) - Len(r) + 1 + i]
  BY PushProperties
<1> HIDE DEF r
<1> SUFFICES ASSUME NEW i \in 1..Len(r) PROVE r[i].seq = last + 1 - (Len(r) - i)
  BY DEF Dense, r
<1>2. Len(r) \in Nat /\ Len(q) \in Nat
  BY <1>1
<1>3. CASE i = Len(r)
  BY <1>1, <1>2, <1>3
<1>4. CASE i < Len(r)
  <2> DEFINE j == Len(q) - Len(r) + 1 + i
  <2>1. i \in 1..(Len(r) - 1) /\ j \in 1..Len(q)
    BY <1>1, <1>2, <1>4
  <2>2. q[j].seq = last - (Len(q) - j)
    BY <2>1 DEF Dense
  <2>3. last - (Len(q) - j) = last + 1 - (Len(r) - i)
    BY <1>2
  <2> QED BY <1>1, <2>1, <2>2, <2>3
<1> QED BY <1>2, <1>3, <1>4 DEF r

\* Numbers on a dense queue do not exceed the last.
LEMMA DenseBound ==
  ASSUME NEW q \in Seq(Tagged), NEW last \in Int, Dense(q, last), NEW i \in 1..Len(q)
  PROVE  q[i].seq =< last
<1>1. Len(q) \in Nat /\ q[i].seq = last - (Len(q) - i)
  BY DEF Dense
<1> QED BY <1>1

\* A step that leaves the propagator and the outgoing queues alone keeps what is
\* said about them.
LEMMA OutgoingFrame ==
  ASSUME PipelineInv,
         UNCHANGED <<packet, counter, publishQueue, storeQueue>>,
         (propagator = "store") <=> (propagator' = "store")
  PROVE  NumbersDense' /\ InFlight' /\ FanOutAgrees'
  BY DEF PipelineInv, NumbersDense, Dense, InFlight, FanOutAgrees

\* Every step keeps the invariant.
LEMMA PipelineStep == PipelineInv /\ [Next]_vars => PipelineInv'
<1> SUFFICES ASSUME PipelineInv, [Next]_vars PROVE PipelineInv'
  OBVIOUS
<1>0. TypeOK /\ TypeOK'
  BY TypeStep DEF PipelineInv
<1> USE PipelineAssumption
<1>1. ASSUME NEW p \in Publishers, NEW valid \in BOOLEAN, Receive(p, valid)
      PROVE  PipelineInv'
  <2>1. QueuesBounded' /\ NothingVanishes'
    BY <1>1 DEF PipelineInv, QueuesBounded, NothingVanishes, Receive, propVars, queueVars
  <2>2. NumbersDense' /\ InFlight' /\ FanOutAgrees'
    BY <1>1, OutgoingFrame DEF Receive, propVars, queueVars
  <2> QED BY <1>0, <2>1, <2>2 DEF PipelineInv
<1>2. ASSUME NEW p \in Publishers, Enqueue(p) PROVE PipelineInv'
  <2> DEFINE room == ImportRoom(importQueue)
  <2>1. room \in Seq(Packet) /\ Len(room) =< MaxImport /\ Len(importQueue) \in Nat
    <3>1. importQueue \in Seq(Packet)
      BY <1>0 DEF TypeOK
    <3>2. ImportRoom(importQueue) \in Seq(Packet) /\ Len(ImportRoom(importQueue)) =< MaxImport
      BY <3>1, ImportRoomProperties
    <3> QED BY <3>1, <3>2
  <2>2. /\ importQueue' = Append(room, [from |-> p, n |-> sent[p]])
        /\ dropped' = dropped + (Len(importQueue) - Len(room))
        /\ accepted' = accepted + 1
        /\ UNCHANGED <<propagator, packet, counter, publishQueue, storeQueue>>
    BY <1>2 DEF Enqueue, propVars
  <2> HIDE DEF room
  <2>3. Len(importQueue') = Len(room) + 1 /\ Len(room) \in Nat
    BY <2>1, <2>2
  <2>4. QueuesBounded'
    BY <2>1, <2>2, <2>3 DEF PipelineInv, QueuesBounded
  <2>5. NothingVanishes'
    BY <1>0, <2>1, <2>2, <2>3 DEF PipelineInv, NothingVanishes, TypeOK
  <2>6. NumbersDense' /\ InFlight' /\ FanOutAgrees'
    BY <2>2, OutgoingFrame
  <2> QED BY <1>0, <2>4, <2>5, <2>6 DEF PipelineInv
<1>3. ASSUME NEW p \in Publishers, Count(p) PROVE PipelineInv'
  <2>1. QueuesBounded' /\ NothingVanishes'
    BY <1>3
    DEF PipelineInv, QueuesBounded, NothingVanishes, Count, propVars, queueVars, observers
  <2>2. NumbersDense' /\ InFlight' /\ FanOutAgrees'
    BY <1>3, OutgoingFrame DEF Count, propVars, queueVars
  <2> QED BY <1>0, <2>1, <2>2 DEF PipelineInv
<1>4. CASE Take
  <2>1. /\ propagator = "poll" /\ propagator' = "publish"
        /\ Len(importQueue') = Len(importQueue) - 1 /\ Len(importQueue) \in Nat
        /\ UNCHANGED <<counter, publishQueue, storeQueue, accepted, dropped>>
    BY <1>0, <1>4, TailProperties DEF Take, TypeOK, observers
  <2>2. QueuesBounded'
    BY <2>1 DEF PipelineInv, QueuesBounded
  <2>3. NothingVanishes'
    BY <1>0, <2>1 DEF PipelineInv, NothingVanishes, TypeOK
  <2>4. NumbersDense' /\ InFlight' /\ FanOutAgrees'
    BY <2>1 DEF PipelineInv, NumbersDense, Dense, InFlight, FanOutAgrees
  <2> QED BY <1>0, <2>2, <2>3, <2>4 DEF PipelineInv
<1>5. CASE FanOutPublish
  <2> DEFINE new == Tag(packet[1], counter + 1)
  <2>1. /\ propagator = "publish" /\ propagator' = "store"
        /\ counter' = counter + 1 /\ packet' = <<new>>
        /\ publishQueue' = Push(publishQueue, new, MaxPublish)
        /\ UNCHANGED <<importQueue, storeQueue, accepted, dropped>>
    BY <1>5 DEF FanOutPublish, PushPublish, observers
  <2>2. /\ new \in Tagged /\ new.seq = counter + 1
        /\ publishQueue \in Seq(Tagged) /\ storeQueue \in Seq(Tagged) /\ counter \in Nat
    BY <1>0, <2>1 DEF TypeOK, Tag, Packet, Tagged
  <2> HIDE DEF new
  <2>3. Dense(publishQueue, counter) /\ Dense(storeQueue, counter)
    BY <2>1 DEF PipelineInv, NumbersDense
  <2>4. /\ publishQueue' \in Seq(Tagged) /\ Len(publishQueue') =< MaxPublish
        /\ Len(publishQueue') =< Len(publishQueue) + 1 /\ Len(publishQueue') >= 1
        /\ publishQueue'[Len(publishQueue')] = new
        /\ \A i \in 1..(Len(publishQueue') - 1) :
             publishQueue'[i] = publishQueue[Len(publishQueue) - Len(publishQueue') + 1 + i]
    <3> DEFINE r == Push(publishQueue, new, MaxPublish)
    <3>1. MaxPublish \in Nat \ {0}
      OBVIOUS
    <3>2. /\ r \in Seq(Tagged) /\ Len(r) =< MaxPublish /\ Len(r) =< Len(publishQueue) + 1
          /\ Len(r) >= 1 /\ r[Len(r)] = new
          /\ \A i \in 1..(Len(r) - 1) : r[i] = publishQueue[Len(publishQueue) - Len(r) + 1 + i]
      BY <2>2, <3>1, PushProperties
    <3> HIDE DEF r
    <3>3. publishQueue' = r
      BY <2>1 DEF r
    <3> QED BY <3>2, <3>3
  <2>5. QueuesBounded'
    BY <2>1, <2>4 DEF PipelineInv, QueuesBounded
  <2>6. NothingVanishes'
    BY <1>0, <2>1 DEF PipelineInv, NothingVanishes, TypeOK
  <2>7. NumbersDense'
    <3>1. Dense(publishQueue', counter + 1)
      BY <2>1, <2>2, <2>3, PushDense
    <3> QED BY <2>1, <2>2, <2>3, <3>1 DEF NumbersDense, Dense
  <2>8. ASSUME NEW i \in 1..Len(publishQueue')
        PROVE  \/ publishQueue'[i] = new
               \/ \E k \in 1..Len(publishQueue) : publishQueue'[i] = publishQueue[k]
    <3>1. Len(publishQueue') \in Nat /\ Len(publishQueue) \in Nat
      BY <2>2, <2>4
    <3>2. CASE i = Len(publishQueue')
      BY <2>4, <3>2
    <3>3. CASE i # Len(publishQueue')
      <4> DEFINE k == Len(publishQueue) - Len(publishQueue') + 1 + i
      <4>1. i \in 1..(Len(publishQueue') - 1) /\ k \in 1..Len(publishQueue)
        BY <2>4, <3>1, <3>3
      <4> QED BY <2>4, <4>1
    <3> QED BY <3>2, <3>3
  <2>9. ASSUME NEW k \in 1..Len(publishQueue) PROVE publishQueue[k].seq =< counter
    BY <2>2, <2>3, DenseBound
  <2>10. ASSUME NEW j \in 1..Len(storeQueue) PROVE storeQueue[j].seq =< counter
    BY <2>2, <2>3, DenseBound
  <2>11. InFlight'
    <3> SUFFICES ASSUME NEW i \in 1..Len(publishQueue'), publishQueue'[i].seq = counter + 1
                 PROVE  publishQueue'[i] = new
      BY <2>1, <2>2 DEF InFlight
    <3> QED BY <2>2, <2>8, <2>9
  <2>12. FanOutAgrees'
    <3> SUFFICES ASSUME NEW i \in 1..Len(publishQueue'), NEW j \in 1..Len(storeQueue),
                        publishQueue'[i].seq = storeQueue[j].seq
                 PROVE  publishQueue'[i] = storeQueue[j]
      BY <2>1 DEF FanOutAgrees
    <3>1. publishQueue'[i] # new
      BY <2>2, <2>10
    <3>2. PICK k \in 1..Len(publishQueue) : publishQueue'[i] = publishQueue[k]
      BY <2>8, <3>1
    <3> QED BY <3>2 DEF PipelineInv, FanOutAgrees
  <2> QED BY <1>0, <2>5, <2>6, <2>7, <2>11, <2>12 DEF PipelineInv
<1>6. CASE FanOutStore
  <2> DEFINE new == packet[1]
  <2>1. /\ propagator = "store" /\ propagator' = "loop"
        /\ storeQueue' = Push(storeQueue, new, MaxStore)
        /\ UNCHANGED <<counter, importQueue, publishQueue, accepted, dropped>>
    BY <1>6 DEF FanOutStore, PushStore, observers
  <2>2. /\ new \in Tagged /\ new.seq = counter /\ counter \in Nat
        /\ storeQueue \in Seq(Tagged)
    BY <1>0, <2>1 DEF TypeOK, PipelineInv, InFlight
  <2>3. /\ Dense(storeQueue, counter - 1) /\ Dense(publishQueue, counter)
        /\ \A i \in 1..Len(publishQueue) :
             publishQueue[i].seq = counter => publishQueue[i] = new
    BY <2>1 DEF PipelineInv, NumbersDense, InFlight
  <2> HIDE DEF new
  <2>4. /\ storeQueue' \in Seq(Tagged) /\ Len(storeQueue') =< MaxStore
        /\ Len(storeQueue') =< Len(storeQueue) + 1 /\ Len(storeQueue') >= 1
        /\ storeQueue'[Len(storeQueue')] = new
        /\ \A i \in 1..(Len(storeQueue') - 1) :
             storeQueue'[i] = storeQueue[Len(storeQueue) - Len(storeQueue') + 1 + i]
    <3> DEFINE r == Push(storeQueue, new, MaxStore)
    <3>1. MaxStore \in Nat \ {0}
      OBVIOUS
    <3>2. /\ r \in Seq(Tagged) /\ Len(r) =< MaxStore /\ Len(r) =< Len(storeQueue) + 1
          /\ Len(r) >= 1 /\ r[Len(r)] = new
          /\ \A i \in 1..(Len(r) - 1) : r[i] = storeQueue[Len(storeQueue) - Len(r) + 1 + i]
      BY <2>2, <3>1, PushProperties
    <3> HIDE DEF r
    <3>3. storeQueue' = r
      BY <2>1 DEF r
    <3> QED BY <3>2, <3>3
  <2>5. QueuesBounded'
    BY <2>1, <2>4 DEF PipelineInv, QueuesBounded
  <2>6. NothingVanishes'
    BY <1>0, <2>1 DEF PipelineInv, NothingVanishes, TypeOK
  <2>7. NumbersDense'
    <3>1. new.seq = (counter - 1) + 1 /\ counter - 1 \in Int /\ (counter - 1) + 1 = counter
      BY <2>2
    <3>2. Dense(storeQueue', counter)
      BY <2>1, <2>2, <2>3, <3>1, PushDense
    <3> QED BY <2>1, <2>3, <3>2 DEF NumbersDense, Dense
  <2>8. ASSUME NEW j \in 1..Len(storeQueue')
        PROVE  \/ storeQueue'[j] = new
               \/ \E k \in 1..Len(storeQueue) : storeQueue'[j] = storeQueue[k]
    <3>1. Len(storeQueue') \in Nat /\ Len(storeQueue) \in Nat
      BY <2>2, <2>4
    <3>2. CASE j = Len(storeQueue')
      BY <2>4, <3>2
    <3>3. CASE j # Len(storeQueue')
      <4> DEFINE k == Len(storeQueue) - Len(storeQueue') + 1 + j
      <4>1. j \in 1..(Len(storeQueue') - 1) /\ k \in 1..Len(storeQueue)
        BY <2>4, <3>1, <3>3
      <4> QED BY <2>4, <4>1
    <3> QED BY <3>2, <3>3
  <2>9. FanOutAgrees'
    <3> SUFFICES ASSUME NEW i \in 1..Len(publishQueue), NEW j \in 1..Len(storeQueue'),
                        publishQueue[i].seq = storeQueue'[j].seq
                 PROVE  publishQueue[i] = storeQueue'[j]
      BY <2>1 DEF FanOutAgrees
    <3>1. CASE storeQueue'[j] = new
      BY <2>2, <2>3, <3>1
    <3>2. CASE \E k \in 1..Len(storeQueue) : storeQueue'[j] = storeQueue[k]
      BY <3>2 DEF PipelineInv, FanOutAgrees
    <3> QED BY <2>8, <3>1, <3>2
  <2>10. InFlight'
    BY <2>1 DEF InFlight
  <2> QED BY <1>0, <2>5, <2>6, <2>7, <2>9, <2>10 DEF PipelineInv
<1>7. CASE EnterLoop \/ FindEmpty \/ LeaveLoop
  <2>1. QueuesBounded' /\ NothingVanishes'
    BY <1>7 DEF PipelineInv, QueuesBounded, NothingVanishes, EnterLoop, FindEmpty, LeaveLoop,
                queueVars, observers
  <2>2. NumbersDense' /\ InFlight' /\ FanOutAgrees'
    BY <1>7, OutgoingFrame DEF EnterLoop, FindEmpty, LeaveLoop, queueVars
  <2> QED BY <1>0, <2>1, <2>2 DEF PipelineInv
<1>8. CASE Publish
  <2>1. /\ publishQueue' = Tail(publishQueue) /\ publishQueue # <<>>
        /\ publishQueue \in Seq(Tagged)
        /\ UNCHANGED <<propagator, packet, counter, importQueue, storeQueue, accepted, dropped>>
    BY <1>0, <1>8 DEF Publish, TypeOK, propVars, observers
  <2>2. /\ publishQueue' \in Seq(Tagged) /\ Len(publishQueue') = Len(publishQueue) - 1
        /\ \A i \in 1..Len(publishQueue') :
             i + 1 \in 1..Len(publishQueue) /\ publishQueue'[i] = publishQueue[i + 1]
    BY <2>1, TailProperties
  <2>3. Len(publishQueue) \in Nat /\ counter \in Nat
    BY <1>0, <2>1 DEF TypeOK
  <2>4. QueuesBounded'
    BY <2>1, <2>2, <2>3 DEF PipelineInv, QueuesBounded
  <2>5. NothingVanishes'
    BY <2>1 DEF PipelineInv, NothingVanishes
  <2>6. NumbersDense'
    <3>1. ASSUME NEW i \in 1..Len(publishQueue')
          PROVE  publishQueue'[i].seq = counter - (Len(publishQueue') - i)
      <4>1. publishQueue[i + 1].seq = counter - (Len(publishQueue) - (i + 1))
        BY <2>2 DEF PipelineInv, NumbersDense, Dense
      <4> QED BY <2>2, <2>3, <4>1
    <3> QED BY <2>1, <3>1 DEF PipelineInv, NumbersDense, Dense
  <2>7. InFlight' /\ FanOutAgrees'
    BY <2>1, <2>2 DEF PipelineInv, InFlight, FanOutAgrees
  <2> QED BY <1>0, <2>4, <2>5, <2>6, <2>7 DEF PipelineInv
<1>9. CASE StopService \/ StopLoops
  <2>1. UNCHANGED <<propVars, queueVars, observers>>
    BY <1>9 DEF StopService, StopLoops
  <2>2. QueuesBounded' /\ NothingVanishes'
    BY <2>1 DEF PipelineInv, QueuesBounded, NothingVanishes, propVars, queueVars, observers
  <2>3. NumbersDense' /\ InFlight' /\ FanOutAgrees'
    BY <2>1, OutgoingFrame DEF propVars, queueVars
  <2> QED BY <1>0, <2>2, <2>3 DEF PipelineInv
<1>10. CASE UNCHANGED vars
  <2>1. QueuesBounded' /\ NothingVanishes'
    BY <1>10
    DEF PipelineInv, QueuesBounded, NothingVanishes, vars, propVars, queueVars, observers
  <2>2. NumbersDense' /\ InFlight' /\ FanOutAgrees'
    BY <1>10, OutgoingFrame DEF vars, propVars, queueVars
  <2> QED BY <1>0, <2>1, <2>2 DEF PipelineInv
<1> QED
  BY <1>1, <1>2, <1>3, <1>4, <1>5, <1>6, <1>7, <1>8, <1>9, <1>10 DEF Next, Propagate

\* A fresh pipeline satisfies the invariant.
LEMMA InitPipeline == Init => PipelineInv
<1> SUFFICES ASSUME Init PROVE PipelineInv
  OBVIOUS
<1>1. TypeOK
  BY InitType
<1> QED BY <1>1, PipelineAssumption DEF Init, PipelineInv, QueuesBounded, NothingVanishes,
             NumbersDense, Dense, InFlight, FanOutAgrees

\* The invariant holds throughout.
LEMMA PipelineInvariant == Spec => []PipelineInv
  BY InitPipeline, PipelineStep, PTL DEF Spec

\* No reader, however many there are, pushes a queue of addPacketCallback() or
\* propagatePacket() beyond its limit.
THEOREM LimitsHold == Spec => []QueuesBounded
<1>1. PipelineInv => QueuesBounded
  BY DEF PipelineInv
<1> QED BY <1>1, PipelineInvariant, PTL

\* Every accepted packet is queued, counted as dropped, in hand or numbered.
THEOREM PacketsAccountedFor == Spec => []NothingVanishes
<1>1. PipelineInv => NothingVanishes
  BY DEF PipelineInv
<1> QED BY <1>1, PipelineInvariant, PTL

\* The outgoing queues hold consecutive numbers up to the last one assigned.
THEOREM QueuesDense == Spec => []NumbersDense
<1>1. PipelineInv => NumbersDense
  BY DEF PipelineInv
<1> QED BY <1>1, PipelineInvariant, PTL

\* Live subscribers and the store never see different packets under a number.
THEOREM FanOutConsistent == Spec => []FanOutAgrees
<1>1. PipelineInv => FanOutAgrees
  BY DEF PipelineInv
<1> QED BY <1>1, PipelineInvariant, PTL

----------------------------------------------------------------------------
(***************************************************************************)
(* The order of each publisher's packets.  Due is what makes it inductive:  *)
(* everything on the way has a smaller index than the packet its publisher  *)
(* will put on the import queue next.                                       *)
(***************************************************************************)

\* The packets of one publisher in q are in the order it sent them in.
Ordered(q) ==
    \A i, j \in 1..Len(q) : (i < j /\ q[i].from = q[j].from) => q[i].n < q[j].n

\* What q has of a publisher was sent before what r has of it.
Before(q, r) ==
    \A i \in 1..Len(q), j \in 1..Len(r) : q[i].from = r[j].from => q[i].n < r[j].n

\* The index of the packet that a publisher puts on the import queue next.
Due == [p \in Publishers |-> IF reader[p] = "enqueue" THEN sent[p] ELSE sent[p] + 1]

\* What q has of a publisher was sent before the packet that is due.
Sent(q, due) == \A i \in 1..Len(q) : q[i].n < due[q[i].from]

OrderInv ==
    /\ Ordered(storeQueue) /\ Ordered(importQueue)
    /\ Before(storeQueue, packet) /\ Before(storeQueue, importQueue)
    /\ Before(packet, importQueue)
    /\ Sent(storeQueue, Due) /\ Sent(packet, Due) /\ Sent(importQueue, Due)
    /\ Sent(publishQueue, Due)

\* r is what is left of q when some packets are popped from the front.
Suffix(r, q) ==
    /\ Len(r) =< Len(q)
    /\ \A i \in 1..Len(r) : r[i] = q[Len(q) - Len(r) + i]

Carried == Packet \cup Tagged

\* Every packet on the way has a publisher and an index.
LEMMA CarriedFields ==
  ASSUME NEW x \in Carried
  PROVE  x.from \in Publishers /\ x.n \in Nat
<1>1. CASE x \in Packet
  BY <1>1 DEF Packet
<1>2. CASE x \in Tagged
  BY <1>2 DEF Tagged
<1> QED BY <1>1, <1>2 DEF Carried

\* Popping from the front disturbs no order.
LEMMA SuffixKeepsOrder ==
  ASSUME NEW q \in Seq(Carried), NEW r \in Seq(Carried), NEW u \in Seq(Carried), NEW due,
         Suffix(r, q)
  PROVE  /\ Ordered(q) => Ordered(r)
         /\ Before(q, u) => Before(r, u)
         /\ Before(u, q) => Before(u, r)
         /\ Sent(q, due) => Sent(r, due)
<1> DEFINE d == Len(q) - Len(r)
<1>1. d \in Nat /\ Len(r) \in Nat /\ Len(q) \in Nat /\ Len(u) \in Nat
  BY DEF Suffix
<1>2. ASSUME NEW i \in 1..Len(r) PROVE d + i \in 1..Len(q) /\ r[i] = q[d + i]
  BY <1>1 DEF Suffix
<1>3. \A i, j \in 1..Len(r) : i < j => d + i < d + j
  BY <1>1
<1> HIDE DEF d
<1>4. Ordered(q) => Ordered(r)
  BY <1>2, <1>3 DEF Ordered
<1>5. /\ Before(q, u) => Before(r, u)
      /\ Before(u, q) => Before(u, r)
      /\ Sent(q, due) => Sent(r, due)
  BY <1>2 DEF Before, Sent
<1> QED BY <1>4, <1>5

\* A push at the end keeps the order if the new packet is the newest.
LEMMA AppendKeepsOrder ==
  ASSUME NEW q \in Seq(Carried), NEW p \in Carried, NEW u \in Seq(Carried), NEW due
  PROVE  /\ Append(q, p) \in Seq(Carried)
         /\ Ordered(q) /\ Before(q, <<p>>) => Ordered(Append(q, p))
         /\ Before(q, u) /\ Before(<<p>>, u) => Before(Append(q, p), u)
         /\ Before(u, q) /\ Before(u, <<p>>) => Before(u, Append(q, p))
         /\ Sent(q, due) /\ Sent(<<p>>, due) => Sent(Append(q, p), due)
<1> DEFINE r == Append(q, p)
<1>1. /\ r \in Seq(Carried) /\ Len(r) = Len(q) + 1 /\ Len(q) \in Nat
      /\ r[Len(q) + 1] = p /\ \A i \in 1..Len(q) : r[i] = q[i]
  BY AppendProperties
<1>2. Len(<<p>>) = 1 /\ <<p>>[1] = p
  OBVIOUS
<1> HIDE DEF r
<1>3. \A i \in 1..Len(r) : (i \in 1..Len(q) /\ r[i] = q[i]) \/ (i = Len(q) + 1 /\ r[i] = p)
  BY <1>1
<1>4. ASSUME Ordered(q), Before(q, <<p>>) PROVE Ordered(r)
  <2> SUFFICES ASSUME NEW i \in 1..Len(r), NEW j \in 1..Len(r), i < j, r[i].from = r[j].from
               PROVE  r[i].n < r[j].n
    BY DEF Ordered
  <2>1. i \in 1..Len(q) /\ r[i] = q[i]
    BY <1>1, <1>3
  <2>2. CASE j \in 1..Len(q) /\ r[j] = q[j]
    BY <1>4, <2>1, <2>2 DEF Ordered
  <2>3. CASE r[j] = p
    BY <1>2, <1>4, <2>1, <2>3 DEF Before
  <2> QED BY <1>3, <2>2, <2>3
<1>5. ASSUME Before(q, u), Before(<<p>>, u) PROVE Before(r, u)
  <2> SUFFICES ASSUME NEW i \in 1..Len(r), NEW j \in 1..Len(u), r[i].from = u[j].from
               PROVE  r[i].n < u[j].n
    BY DEF Before
  <2>1. CASE i \in 1..Len(q) /\ r[i] = q[i]
    BY <1>5, <2>1 DEF Before
  <2>2. CASE r[i] = p
    BY <1>2, <1>5, <2>2 DEF Before
  <2> QED BY <1>3, <2>1, <2>2
<1>6. Before(u, q) /\ Before(u, <<p>>) => Before(u, r)
  BY <1>2, <1>3 DEF Before
<1>7. Sent(q, due) /\ Sent(<<p>>, due) => Sent(r, due)
  BY <1>2, <1>3 DEF Sent
<1> QED BY <1>1, <1>4, <1>5, <1>6, <1>7 DEF r

\* What makes room only pops from the front.
LEMMA KeepLastSuffix ==
  ASSUME NEW S, NEW q \in Seq(S), NEW n \in Nat
  PROVE  KeepLast(q, n) \in Seq(S) /\ Suffix(KeepLast(q, n), q)
<1>1. Len(KeepLast(q, n)) =< Len(q)
  BY KeepLastProperties
<1> QED BY <1>1, KeepLastProperties DEF Suffix

\* The propagator takes the oldest packet.
LEMMA TailSuffix ==
  ASSUME NEW S, NEW q \in Seq(S), q # <<>>
  PROVE  Tail(q) \in Seq(S) /\ Suffix(Tail(q), q)
<1>1. Tail(q) \in Seq(S) /\ Len(Tail(q)) = Len(q) - 1 /\ Len(q) \in Nat
  BY TailProperties
<1>2. ASSUME NEW i \in 1..Len(Tail(q)) PROVE Tail(q)[i] = q[Len(q) - Len(Tail(q)) + i]
  <2>1. Len(q) - Len(Tail(q)) + i = i + 1
    BY <1>1
  <2> QED BY <2>1, TailProperties
<1> QED BY <1>1, <1>2 DEF Suffix

\* addPacketCallback() makes room at the old end of the import queue.
LEMMA ImportRoomSuffix ==
  ASSUME NEW q \in Seq(Packet)
  PROVE  ImportRoom(q) \in Seq(Packet) /\ Suffix(ImportRoom(q), q)
<1>1. CASE Len(q) > MaxImport
  <2>1. MaxImport - 1 \in Nat
    BY PipelineAssumption
  <2> QED BY <1>1, <2>1, KeepLastSuffix DEF ImportRoom
<1>2. CASE ~(Len(q) > MaxImport)
  BY <1>2 DEF ImportRoom, Suffix
<1> QED BY <1>1, <1>2

\* Nothing that has been sent is sent again when a publisher moves on.
LEMMA LaterDue ==
  ASSUME NEW q \in Seq(Carried), NEW due \in [Publishers -> Nat], NEW next \in [Publishers -> Nat],
         \A p \in Publishers : due[p] =< next[p], Sent(q, due)
  PROVE  Sent(q, next)
<1> SUFFICES ASSUME NEW i \in 1..Len(q) PROVE q[i].n < next[q[i].from]
  BY DEF Sent
<1>1. q[i] \in Carried
  OBVIOUS
<1>2. q[i].from \in Publishers /\ q[i].n \in Nat
  BY <1>1, CarriedFields
<1>3. q[i].n < due[q[i].from] /\ due[q[i].from] =< next[q[i].from]
  BY <1>2 DEF Sent
<1>4. due[q[i].from] \in Nat /\ next[q[i].from] \in Nat
  BY <1>2
<1> QED BY <1>2, <1>3, <1>4

\* The queues and the packet in hand carry packets.
LEMMA QueueTypes ==
  ASSUME TypeOK
  PROVE  /\ importQueue \in Seq(Carried) /\ publishQueue \in Seq(Carried)
         /\ storeQueue \in Seq(Carried) /\ packet \in Seq(Carried)
         /\ Due \in [Publishers -> Nat]
<1>1. Packet \subseteq Carried /\ Tagged \subseteq Carried
  BY DEF Carried
<1>2. importQueue \in Seq(Carried) /\ publishQueue \in Seq(Carried) /\ storeQueue \in Seq(Carried)
  BY <1>1 DEF TypeOK
<1>3. Due \in [Publishers -> Nat]
  BY DEF TypeOK, Due
<1> QED BY <1>2, <1>3 DEF TypeOK, Carried

\* The same of the next state.
LEMMA DueType ==
  ASSUME TypeOK, TypeOK'
  PROVE  Due \in [Publishers -> Nat] /\ Due' \in [Publishers -> Nat]
<1>1. sent' \in [Publishers -> Nat]
  BY DEF TypeOK
<1>2. Due' = [p \in Publishers |-> IF reader'[p] = "enqueue" THEN sent'[p] ELSE sent'[p] + 1]
  BY DEF Due
<1>3. Due' \in [Publishers -> Nat]
  BY <1>1, <1>2
<1> QED BY <1>3, QueueTypes

\* A step that moves no packet, and takes back none, disturbs no order.
LEMMA OrderFrame ==
  ASSUME TypeOK, TypeOK', OrderInv, UNCHANGED <<importQueue, publishQueue, storeQueue, packet>>,
         \A p \in Publishers : Due[p] =< Due'[p]
  PROVE  OrderInv'
<1>1. Due \in [Publishers -> Nat] /\ Due' \in [Publishers -> Nat]
  BY DueType
<1>2. /\ Sent(storeQueue, Due') /\ Sent(packet, Due') /\ Sent(importQueue, Due')
      /\ Sent(publishQueue, Due')
  BY <1>1, QueueTypes, LaterDue DEF OrderInv
<1> QED BY <1>2 DEF OrderInv, Ordered, Before, Sent

\* Every step keeps the order.
LEMMA OrderStep == TypeOK /\ OrderInv /\ [Next]_vars => OrderInv'
<1> SUFFICES ASSUME TypeOK, OrderInv, [Next]_vars PROVE OrderInv'
  OBVIOUS
<1>0. TypeOK'
  BY TypeStep
<1>q. /\ importQueue \in Seq(Carried) /\ publishQueue \in Seq(Carried)
      /\ storeQueue \in Seq(Carried) /\ packet \in Seq(Carried)
      /\ Due \in [Publishers -> Nat] /\ Due' \in [Publishers -> Nat]
  BY <1>0, QueueTypes, DueType
<1>e. ASSUME NEW q \in Seq(Carried) PROVE Suffix(q, q)
  BY DEF Suffix
<1>1. ASSUME NEW p \in Publishers, NEW valid \in BOOLEAN, Receive(p, valid) PROVE OrderInv'
  <2>1. UNCHANGED <<importQueue, publishQueue, storeQueue, packet>>
    BY <1>1 DEF Receive, queueVars, propVars
  <2>2. ASSUME NEW o \in Publishers PROVE Due[o] =< Due'[o]
    BY <1>1 DEF Receive, TypeOK, Due
  <2> QED BY <1>0, <2>1, <2>2, OrderFrame
<1>2. ASSUME NEW p \in Publishers, Enqueue(p) PROVE OrderInv'
  <2> DEFINE new == [from |-> p, n |-> sent[p]]
  <2> DEFINE room == ImportRoom(importQueue)
  <2>1. /\ importQueue' = Append(room, new)
        /\ UNCHANGED <<publishQueue, storeQueue, packet, sent>>
        /\ reader[p] = "enqueue" /\ reader' = [reader EXCEPT ![p] = "count"]
    BY <1>2 DEF Enqueue, propVars
  <2>2. room \in Seq(Carried) /\ Suffix(room, importQueue)
    BY ImportRoomSuffix DEF TypeOK, Carried
  <2>3. new \in Carried /\ new.from = p /\ new.n = Due[p]
    BY <2>1 DEF TypeOK, Carried, Packet, Due
  <2> HIDE DEF room
  <2>4. Due' = [Due EXCEPT ![p] = @ + 1]
    BY <2>1 DEF TypeOK, Due
  <2>5. \A o \in Publishers : Due[o] =< Due'[o]
    BY <1>q, <2>4
  <2>6. ASSUME NEW q \in Seq(Carried), Sent(q, Due)
        PROVE  Before(q, <<new>>) /\ Sent(q, Due')
    <3>1. Sent(q, Due')
      BY <1>q, <2>5, <2>6, LaterDue
    <3>2. ASSUME NEW i \in 1..Len(q), q[i].from = new.from PROVE q[i].n < new.n
      BY <2>3, <2>6, <3>2 DEF Sent
    <3>3. Len(<<new>>) = 1 /\ <<new>>[1] = new
      OBVIOUS
    <3> HIDE DEF new
    <3>4. Before(q, <<new>>)
      BY <3>2, <3>3 DEF Before
    <3> QED BY <3>1, <3>4
  <2>7. Sent(<<new>>, Due')
    BY <1>q, <2>3, <2>4 DEF Sent
  <2> HIDE DEF new
  <2>8. /\ Ordered(room) /\ Before(storeQueue, room) /\ Before(packet, room) /\ Sent(room, Due)
    BY <1>q, <2>2, SuffixKeepsOrder DEF OrderInv
  <2>9. /\ Ordered(importQueue') /\ Before(storeQueue, importQueue')
        /\ Before(packet, importQueue') /\ Sent(importQueue', Due')
    BY <1>q, <2>1, <2>2, <2>3, <2>6, <2>7, <2>8, AppendKeepsOrder DEF OrderInv
  <2>10. Sent(storeQueue, Due') /\ Sent(packet, Due') /\ Sent(publishQueue, Due')
    BY <1>q, <2>6 DEF OrderInv
  <2> QED BY <2>1, <2>9, <2>10 DEF OrderInv, Ordered, Before, Sent
<1>3. ASSUME NEW p \in Publishers, Count(p) PROVE OrderInv'
  <2>1. UNCHANGED <<importQueue, publishQueue, storeQueue, packet>>
    BY <1>3 DEF Count, queueVars, propVars
  <2>2. ASSUME NEW o \in Publishers PROVE Due[o] =< Due'[o]
    BY <1>3 DEF Count, TypeOK, Due
  <2> QED BY <1>0, <2>1, <2>2, OrderFrame

<1>4. CASE Take
  <2> DEFINE new == importQueue[1]
  <2>1. /\ packet' = <<new>> /\ importQueue' = Tail(importQueue) /\ importQueue # <<>>
        /\ UNCHANGED <<publishQueue, storeQueue, sent, reader>>
    BY <1>4 DEF Take, readerVars, TypeOK
  <2>2. importQueue' \in Seq(Carried) /\ Suffix(importQueue', importQueue)
    BY <1>q, <2>1, TailSuffix
  <2>3. /\ 1 \in 1..Len(importQueue) /\ new \in Carried /\ Len(importQueue) \in Nat
        /\ Len(importQueue') = Len(importQueue) - 1
        /\ \A i \in 1..Len(importQueue') :
             i + 1 \in 1..Len(importQueue) /\ importQueue'[i] = importQueue[i + 1]
    BY <1>q, <2>1, TailProperties
  <2>4. Due' = Due
    BY <2>1 DEF Due
  <2>5. Before(storeQueue, <<new>>) /\ Sent(<<new>>, Due)
    BY <2>3 DEF OrderInv, Before, Sent
  <2>6. Before(<<new>>, importQueue')
    <3> SUFFICES ASSUME NEW j \in 1..Len(importQueue'), new.from = importQueue'[j].from
                 PROVE  new.n < importQueue'[j].n
      BY DEF Before
    <3>1. 1 < j + 1 /\ j + 1 \in 1..Len(importQueue) /\ importQueue'[j] = importQueue[j + 1]
      BY <2>3
    <3> QED BY <2>3, <3>1 DEF OrderInv, Ordered
  <2> HIDE DEF new
  <2>7. /\ Ordered(importQueue') /\ Before(storeQueue, importQueue') /\ Sent(importQueue', Due)
    BY <1>q, <2>2, SuffixKeepsOrder DEF OrderInv
  <2>8. Ordered(storeQueue) /\ Sent(storeQueue, Due) /\ Sent(publishQueue, Due)
    BY DEF OrderInv
  <2> QED BY <2>1, <2>4, <2>5, <2>6, <2>7, <2>8 DEF OrderInv
<1>5. CASE FanOutPublish
  <2> DEFINE new == Tag(packet[1], counter + 1)
  <2>1. /\ packet' = <<new>> /\ publishQueue' = Append(KeepLast(publishQueue, MaxPublish - 1), new)
        /\ UNCHANGED <<importQueue, storeQueue, sent, reader>>
    BY <1>5 DEF FanOutPublish, readerVars, PushPublish, Push
  <2>2. /\ packet[1] \in Carried /\ Len(packet) = 1 /\ new \in Carried
        /\ new.from = packet[1].from /\ new.n = packet[1].n
    BY <1>5 DEF FanOutPublish, TypeOK, Carried, Packet, Tagged, Tag
  <2> HIDE DEF new
  <2>3. Due' = Due
    BY <2>1 DEF Due
  <2>4. Before(storeQueue, <<new>>) /\ Before(<<new>>, importQueue) /\ Sent(<<new>>, Due)
    BY <2>2 DEF OrderInv, Before, Sent
  <2>5. MaxPublish - 1 \in Nat
    BY PipelineAssumption
  <2>6. /\ KeepLast(publishQueue, MaxPublish - 1) \in Seq(Carried)
        /\ Suffix(KeepLast(publishQueue, MaxPublish - 1), publishQueue)
    BY <1>q, <2>5, KeepLastSuffix
  <2>7. Sent(KeepLast(publishQueue, MaxPublish - 1), Due)
    BY <1>q, <2>6, SuffixKeepsOrder DEF OrderInv
  <2>8. Sent(publishQueue', Due)
    BY <1>q, <2>1, <2>2, <2>4, <2>6, <2>7, AppendKeepsOrder
  <2>9. /\ Ordered(storeQueue) /\ Ordered(importQueue) /\ Before(storeQueue, importQueue)
        /\ Sent(storeQueue, Due) /\ Sent(importQueue, Due)
    BY DEF OrderInv
  <2> QED BY <2>1, <2>3, <2>4, <2>8, <2>9 DEF OrderInv
<1>6. CASE FanOutStore
  <2> DEFINE new == packet[1]
  <2> DEFINE kept == KeepLast(storeQueue, MaxStore - 1)
  <2>1. /\ packet' = <<>> /\ storeQueue' = Append(kept, new)
        /\ UNCHANGED <<importQueue, publishQueue, sent, reader>>
    BY <1>6 DEF FanOutStore, readerVars, PushStore, Push
  <2>2. new \in Carried /\ packet = <<new>>
    BY <1>6 DEF FanOutStore, TypeOK, Carried
  <2>3. Due' = Due
    BY <2>1 DEF Due
  <2>4. MaxStore - 1 \in Nat
    BY PipelineAssumption
  <2>5. kept \in Seq(Carried) /\ Suffix(kept, storeQueue)
    BY <1>q, <2>4, KeepLastSuffix
  <2> HIDE DEF new, kept
  <2>6. /\ Ordered(kept) /\ Before(kept, <<new>>) /\ Before(kept, importQueue)
        /\ Before(<<new>>, importQueue) /\ Sent(kept, Due) /\ Sent(<<new>>, Due)
    <3>1. /\ Ordered(storeQueue) /\ Before(storeQueue, <<new>>) /\ Before(storeQueue, importQueue)
          /\ Before(<<new>>, importQueue) /\ Sent(storeQueue, Due) /\ Sent(<<new>>, Due)
      BY <2>2 DEF OrderInv
    <3>2. <<new>> \in Seq(Carried)
      BY <2>2
    <3> QED BY <1>q, <2>5, <3>1, <3>2, SuffixKeepsOrder
  <2>7. Ordered(storeQueue') /\ Before(storeQueue', importQueue) /\ Sent(storeQueue', Due)
    BY <1>q, <2>1, <2>2, <2>5, <2>6, AppendKeepsOrder
  <2>8. Before(storeQueue', <<>>) /\ Before(<<>>, importQueue) /\ Sent(<<>>, Due)
    BY DEF Before, Sent
  <2>9. Ordered(importQueue) /\ Sent(importQueue, Due) /\ Sent(publishQueue, Due)
    BY DEF OrderInv
  <2> QED BY <2>1, <2>3, <2>7, <2>8, <2>9 DEF OrderInv
<1>7. CASE Publish
  <2>1. /\ publishQueue' = Tail(publishQueue) /\ publishQueue # <<>>
        /\ UNCHANGED <<importQueue, storeQueue, packet, sent, reader>>
    BY <1>7 DEF Publish, readerVars, propVars
  <2>2. Sent(publishQueue', Due)
    BY <1>q, <2>1, TailSuffix, SuffixKeepsOrder DEF OrderInv
  <2>3. Due' = Due
    BY <2>1 DEF Due
  <2> QED BY <2>1, <2>2, <2>3 DEF OrderInv
<1>8. CASE \/ EnterLoop \/ FindEmpty \/ LeaveLoop
           \/ StopService \/ StopLoops \/ UNCHANGED vars
  <2>1. UNCHANGED <<importQueue, publishQueue, storeQueue, packet, sent, reader>>
    BY <1>8 DEF EnterLoop, FindEmpty, LeaveLoop, StopService, StopLoops, vars, readerVars, propVars, queueVars
  <2>2. Due' = Due
    BY <2>1 DEF Due
  <2> QED BY <2>1, <2>2 DEF OrderInv
<1> QED
  BY <1>1, <1>2, <1>3, <1>4, <1>5, <1>6, <1>7, <1>8 DEF Next, Propagate

\* The order holds throughout.
LEMMA OrderInvariant == Spec => []OrderInv
<1>1. Init => OrderInv
  BY DEF Init, OrderInv, Ordered, Before, Sent
<1> QED BY <1>1, OrderStep, PipelineTypes, PTL DEF Spec

\* Two lines of packets, the second of newer ones, make one in order.
LEMMA ConcatOrdered ==
  ASSUME NEW q \in Seq(Carried), NEW r \in Seq(Carried), NEW u \in Seq(Carried),
         Ordered(q), Ordered(r), Before(q, r)
  PROVE  /\ q \o r \in Seq(Carried) /\ Ordered(q \o r)
         /\ Before(q, u) /\ Before(r, u) => Before(q \o r, u)
<1> DEFINE s == q \o r
<1>1. s \in Seq(Carried) /\ Len(s) = Len(q) + Len(r) /\ Len(q) \in Nat /\ Len(r) \in Nat
  OBVIOUS
<1>2. \A i \in 1..Len(s) : \/ i \in 1..Len(q) /\ s[i] = q[i]
                           \/ i > Len(q) /\ i - Len(q) \in 1..Len(r) /\ s[i] = r[i - Len(q)]
  BY <1>1, ConcatProperties
<1> HIDE DEF s
<1>3. Ordered(s)
  <2> SUFFICES ASSUME NEW i \in 1..Len(s), NEW j \in 1..Len(s), i < j, s[i].from = s[j].from
               PROVE  s[i].n < s[j].n
    BY DEF Ordered
  <2>1. CASE i \in 1..Len(q) /\ s[i] = q[i] /\ j \in 1..Len(q) /\ s[j] = q[j]
    BY <2>1 DEF Ordered
  <2>2. CASE /\ i \in 1..Len(q) /\ s[i] = q[i]
             /\ j - Len(q) \in 1..Len(r) /\ s[j] = r[j - Len(q)]
    BY <2>2 DEF Before
  <2>3. CASE /\ i - Len(q) \in 1..Len(r) /\ s[i] = r[i - Len(q)]
             /\ j - Len(q) \in 1..Len(r) /\ s[j] = r[j - Len(q)]
    <3>1. i - Len(q) < j - Len(q)
      BY <1>1
    <3> QED BY <2>3, <3>1 DEF Ordered
  <2>4. CASE i > Len(q) /\ j \in 1..Len(q)
    BY <1>1, <2>4
  <2> QED BY <1>2, <2>1, <2>2, <2>3, <2>4
<1>4. ASSUME Before(q, u), Before(r, u) PROVE Before(s, u)
  <2> SUFFICES ASSUME NEW i \in 1..Len(s), NEW j \in 1..Len(u), s[i].from = u[j].from
               PROVE  s[i].n < u[j].n
    BY DEF Before
  <2>1. CASE i \in 1..Len(q) /\ s[i] = q[i]
    BY <1>4, <2>1 DEF Before
  <2>2. CASE i - Len(q) \in 1..Len(r) /\ s[i] = r[i - Len(q)]
    BY <1>4, <2>2 DEF Before
  <2> QED BY <1>2, <2>1, <2>2
<1> QED BY <1>1, <1>3, <1>4 DEF s

\* The packets of each publisher keep the order it sent them in on their whole
\* way from addPacketCallback() to the data store queue.
THEOREM OrderKept == Spec => []PublisherOrder
<1>1. ASSUME TypeOK, OrderInv PROVE PublisherOrder
  <2>1. /\ importQueue \in Seq(Carried) /\ storeQueue \in Seq(Carried) /\ packet \in Seq(Carried)
        /\ Len(packet) =< 1
    BY <1>1, QueueTypes DEF TypeOK
  <2>2. Ordered(packet)
    BY <2>1 DEF Ordered
  <2>3. /\ storeQueue \o packet \in Seq(Carried) /\ Ordered(storeQueue \o packet)
        /\ Before(storeQueue \o packet, importQueue)
    BY <1>1, <2>1, <2>2, ConcatOrdered DEF OrderInv
  <2>4. Ordered(Line)
    BY <1>1, <2>1, <2>3, ConcatOrdered DEF OrderInv, Line
  <2> QED BY <2>4 DEF Ordered, PublisherOrder
<1> QED BY <1>1, PipelineTypes, OrderInvariant, PTL


----------------------------------------------------------------------------
(***************************************************************************)
(* The overflow metric.  What is popped and not yet counted is with the     *)
(* callbacks between their push and their metrics: one pair for each such   *)
(* packet, a finite set however many publishers there are.                  *)
(***************************************************************************)
Unreported ==
    {x \in Publishers \X Nat : reader[x[1]] = "count" /\ x[2] \in 1..nPopped[x[1]]}

OverflowInv ==
    IsFiniteSet(Unreported) /\ dropped = metrics.popped + Cardinality(Unreported)

\* What one callback has to report.
LEMMA PairsOfOne ==
  ASSUME NEW p, NEW k \in Nat
  PROVE  IsFiniteSet({p} \X (1..k)) /\ Cardinality({p} \X (1..k)) = k
<1>1. IsFiniteSet({p}) /\ Cardinality({p}) = 1
  BY FS_Singleton
<1>2. IsFiniteSet(1..k) /\ Cardinality(1..k) = k
  BY FS_Interval
<1>3. /\ IsFiniteSet({p} \X (1..k))
      /\ Cardinality({p} \X (1..k)) = Cardinality({p}) * Cardinality(1..k)
  BY <1>1, <1>2, FS_Product
<1> QED BY <1>1, <1>2, <1>3

\* Every step keeps the account of popped packets.
LEMMA OverflowStep == TypeOK /\ OverflowInv /\ [Next]_vars => OverflowInv'
<1> SUFFICES ASSUME TypeOK, OverflowInv, [Next]_vars PROVE OverflowInv'
  OBVIOUS
<1>0. Cardinality(Unreported) \in Nat
  BY FS_CardinalityType DEF OverflowInv
<1>1. ASSUME UNCHANGED <<nPopped, dropped, metrics.popped>>,
             \A p \in Publishers : reader'[p] = "count" <=> reader[p] = "count"
      PROVE  OverflowInv'
  <2>1. Unreported' = Unreported
    BY <1>1 DEF Unreported
  <2> QED BY <1>1, <2>1 DEF OverflowInv
<1>2. ASSUME NEW p \in Publishers, NEW valid \in BOOLEAN, Receive(p, valid) PROVE OverflowInv'
  <2>1. UNCHANGED <<nPopped, dropped, metrics.popped>>
    BY <1>2 DEF Receive, Increment, TypeOK
  <2>2. ASSUME NEW o \in Publishers PROVE reader'[o] = "count" <=> reader[o] = "count"
    BY <1>2 DEF Receive, TypeOK
  <2> QED BY <1>1, <2>1, <2>2
<1>3. ASSUME NEW p \in Publishers, Enqueue(p) PROVE OverflowInv'
  <2> DEFINE popped == Len(importQueue) - Len(ImportRoom(importQueue))
  <2> DEFINE mine == {p} \X (1..popped)
  <2>1. popped \in Nat
    BY ImportRoomProperties DEF TypeOK
  <2>2. /\ reader[p] = "enqueue" /\ reader' = [reader EXCEPT ![p] = "count"]
        /\ nPopped' = [nPopped EXCEPT ![p] = popped] /\ dropped' = dropped + popped
        /\ metrics' = metrics
    BY <1>3 DEF Enqueue
  <2> HIDE DEF popped
  <2>3. Unreported' = Unreported \cup mine
    <3>1. reader'[p] = "count" /\ nPopped'[p] = popped
      BY <2>2 DEF TypeOK
    <3>2. \A o \in Publishers \ {p} : reader'[o] = reader[o] /\ nPopped'[o] = nPopped[o]
      BY <2>2 DEF TypeOK
    <3>3. ASSUME NEW o \in Publishers, NEW i \in Nat
          PROVE  <<o, i>> \in Unreported' <=> <<o, i>> \in Unreported \cup mine
      <4>1. CASE o = p
        BY <4>1, <2>1, <2>2, <3>1 DEF Unreported
      <4>2. CASE o # p
        BY <4>2, <3>2 DEF Unreported
      <4> QED BY <4>1, <4>2
    <3>4. mine \subseteq Publishers \X Nat
      BY <2>1
    <3>5. Unreported \subseteq Publishers \X Nat /\ Unreported' \subseteq Publishers \X Nat
      BY DEF Unreported
    <3> HIDE DEF mine
    <3> QED BY <3>3, <3>4, <3>5
  <2>4. Unreported \cap mine = {}
    BY <2>2 DEF Unreported
  <2>5. IsFiniteSet(mine) /\ Cardinality(mine) = popped
    BY <2>1, PairsOfOne
  <2> HIDE DEF mine
  <2>6. /\ IsFiniteSet(Unreported \cup mine)
        /\ Cardinality(Unreported \cup mine) = Cardinality(Unreported) + popped
    <3>1. /\ IsFiniteSet(Unreported \cup mine)
          /\ Cardinality(Unreported \cup mine) =
               Cardinality(Unreported) + Cardinality(mine) - Cardinality(Unreported \cap mine)
      BY <2>5, FS_Union DEF OverflowInv
    <3>2. Cardinality(Unreported \cap mine) = 0
      BY <2>4, FS_EmptySet
    <3> QED BY <1>0, <2>1, <2>5, <3>1, <3>2
  <2>7. dropped' = metrics'.popped + Cardinality(Unreported')
    <3>1. metrics.popped \in Nat /\ dropped = metrics.popped + Cardinality(Unreported)
      BY DEF TypeOK, OverflowInv
    <3> QED BY <1>0, <2>1, <2>2, <2>3, <2>6, <3>1
  <2> QED BY <2>3, <2>6, <2>7 DEF OverflowInv
<1>4. ASSUME NEW p \in Publishers, Count(p) PROVE OverflowInv'
  <2> DEFINE mine == {p} \X (1..nPopped[p])
  <2>1. /\ reader[p] = "count" /\ reader' = [reader EXCEPT ![p] = "idle"]
        /\ nPopped' = [nPopped EXCEPT ![p] = 0] /\ dropped' = dropped
        /\ metrics'.popped = metrics.popped + nPopped[p]
    BY <1>4 DEF Count, Increment, observers
  <2>2. Unreported' = Unreported \ mine /\ mine \subseteq Unreported
    BY <2>1 DEF Unreported, TypeOK
  <2>3. IsFiniteSet(mine) /\ Cardinality(mine) = nPopped[p] /\ nPopped[p] \in Nat
    BY PairsOfOne DEF TypeOK
  <2>4. Unreported \cap mine = mine
    BY <2>2
  <2> HIDE DEF mine
  <2>5. /\ IsFiniteSet(Unreported \ mine)
        /\ Cardinality(Unreported \ mine) = Cardinality(Unreported) - nPopped[p]
    <3>1. IsFiniteSet(Unreported)
      BY DEF OverflowInv
    <3>2. /\ IsFiniteSet(Unreported \ mine)
          /\ Cardinality(Unreported \ mine) =
               Cardinality(Unreported) - Cardinality(Unreported \cap mine)
      BY <3>1, FS_Difference
    <3> QED BY <2>3, <2>4, <3>2
  <2>6. dropped' = metrics'.popped + Cardinality(Unreported')
    <3>1. metrics.popped \in Nat /\ dropped = metrics.popped + Cardinality(Unreported)
      BY DEF TypeOK, OverflowInv
    <3> QED BY <1>0, <2>1, <2>2, <2>3, <2>5, <3>1
  <2> QED BY <2>2, <2>5, <2>6 DEF OverflowInv
<1>5. CASE \/ Propagate \/ Publish \/ StopService \/ StopLoops \/ UNCHANGED vars
  <2>1. UNCHANGED <<nPopped, dropped, metrics, reader>>
    BY <1>5 DEF Propagate, EnterLoop, FindEmpty, Take, FanOutPublish, FanOutStore, LeaveLoop,
                Publish, StopService, StopLoops, vars, readerVars, observers
  <2> QED BY <1>1, <2>1
<1> QED BY <1>2, <1>3, <1>4, <1>5 DEF Next

\* Once every callback has reported, the overflow counter of MetricsSingleton
\* is the number of packets the import queue has lost.
THEOREM OverflowReported == Spec => []OverflowCounted
<1>1. Init => OverflowInv
  <2> SUFFICES ASSUME Init PROVE OverflowInv
    OBVIOUS
  <2>1. Unreported = {}
    BY DEF Init, Unreported
  <2>2. metrics.popped = 0 /\ dropped = 0
    BY DEF Init
  <2> QED BY <2>1, <2>2, FS_EmptySet DEF OverflowInv
<1>2. TypeOK /\ OverflowInv => OverflowCounted
  <2> SUFFICES ASSUME TypeOK, OverflowInv, \A p \in Publishers : reader[p] # "count"
               PROVE  metrics.popped = dropped
    BY DEF OverflowCounted
  <2>1. Unreported = {}
    BY DEF Unreported
  <2> QED BY <2>1, FS_EmptySet DEF OverflowInv, TypeOK
<1> QED BY <1>1, <1>2, OverflowStep, PipelineTypes, PTL DEF Spec


----------------------------------------------------------------------------
(***************************************************************************)
(* The refinement.  Every step of the data path is a step of PacketFeed, or *)
(* leaves its line, its numbers and its two queues alone.                   *)
(***************************************************************************)
Waiting == InHand("publish") \o importQueue
Archive == storeQueue \o InHand("store")

\* What is left after pops from the front is one of the feed's suffixes.
LEMMA SuffixOfFeed ==
  ASSUME NEW S, NEW q \in Seq(S), NEW r \in Seq(S), Suffix(r, q)
  PROVE  /\ Len(q) - Len(r) + 1 \in 1..(Len(q) + 1)
         /\ r = SubSeq(q, Len(q) - Len(r) + 1, Len(q))
         /\ r \in Feed!Suffixes(q)
<1> DEFINE k == Len(q) - Len(r) + 1
<1>1. Len(q) \in Nat /\ Len(r) \in Nat /\ k \in 1..(Len(q) + 1) /\ k \in Int
  BY DEF Suffix
<1>2. \A i \in k..Len(q) : q[i] \in S
  BY <1>1
<1>3. /\ SubSeq(q, k, Len(q)) \in Seq(S)
      /\ Len(SubSeq(q, k, Len(q))) = IF k =< Len(q) THEN Len(q) - k + 1 ELSE 0
      /\ \A i \in 1..(Len(q) - k + 1) : SubSeq(q, k, Len(q))[i] = q[k + i - 1]
  BY <1>1, <1>2, SubSeqProperties
<1>4. Len(SubSeq(q, k, Len(q))) = Len(r) /\ Len(q) - k + 1 = Len(r)
  BY <1>1, <1>3
<1>5. ASSUME NEW i \in 1..Len(r) PROVE r[i] = SubSeq(q, k, Len(q))[i]
  <2>1. k + i - 1 = Len(q) - Len(r) + i
    BY <1>1
  <2> QED BY <1>3, <1>4, <2>1 DEF Suffix
<1> HIDE DEF k
<1>6. r = SubSeq(q, k, Len(q))
  BY <1>3, <1>4, <1>5, SeqEqual
<1> QED BY <1>1, <1>6 DEF k, Feed!Suffixes

\* The packet in hand, where it is: the mapping of the line and of the archive.
LEMMA Mapped ==
  ASSUME TypeOK
  PROVE  /\ Waiting = IF propagator = "publish" THEN packet \o importQueue ELSE importQueue
         /\ Archive = IF propagator = "store" THEN storeQueue \o packet ELSE storeQueue
<1>1. importQueue \in Seq(Packet) /\ storeQueue \in Seq(Tagged)
  BY DEF TypeOK
<1>2. <<>> \o importQueue = importQueue /\ storeQueue \o <<>> = storeQueue
  BY <1>1, ConcatEmptySeq
<1> QED BY <1>2 DEF Waiting, Archive, InHand

\* A step that moves no packet is invisible to the feed.
LEMMA FeedFrame ==
  ASSUME UNCHANGED <<Waiting, Archive, counter, publishQueue>>
  PROVE  UNCHANGED Feed!vars
  BY DEF Waiting, Archive, Feed!vars

\* Everything on the way of the publisher of a new packet is older than it.
LEMMA NewIsNewer ==
  ASSUME TypeOK, NEW q \in Seq(Carried), NEW p \in Publishers, Sent(q, Due),
         reader[p] = "enqueue"
  PROVE  Feed!Newer([from |-> p, n |-> sent[p]], q)
<1>1. Due[p] = sent[p]
  BY DEF Due
<1> QED BY <1>1 DEF Sent, Feed!Newer

\* The push of addPacketCallback(), with the room it makes.
LEMMA EnqueueAccepts ==
  ASSUME TypeOK, OrderInv, NEW p \in Publishers, Enqueue(p)
  PROVE  Feed!Accept
<1> DEFINE new == [from |-> p, n |-> sent[p]]
<1> DEFINE room == ImportRoom(importQueue)
<1>1. /\ reader[p] = "enqueue" /\ importQueue' = Append(room, new)
      /\ UNCHANGED <<propagator, packet, counter, publishQueue, storeQueue>>
  BY DEF Enqueue, propVars
<1>2. /\ importQueue \in Seq(Packet) /\ room \in Seq(Packet) /\ Suffix(room, importQueue)
  BY ImportRoomSuffix DEF TypeOK
<1>3. new \in Packet /\ new.from = p
  BY DEF TypeOK, Packet
<1>4. Archive' = Archive
  BY <1>1 DEF Archive, InHand
<1>5. Feed!Newer(new, Waiting) /\ Feed!Newer(new, publishQueue) /\ Feed!Newer(new, Archive)
  <2>1. /\ importQueue \in Seq(Carried) /\ publishQueue \in Seq(Carried)
        /\ storeQueue \in Seq(Carried) /\ packet \in Seq(Carried)
    BY QueueTypes
  <2>2. /\ Feed!Newer(new, importQueue) /\ Feed!Newer(new, publishQueue)
        /\ Feed!Newer(new, storeQueue) /\ Feed!Newer(new, packet)
    BY <1>1, <2>1, NewIsNewer DEF OrderInv
  <2> HIDE DEF new
  <2>3. ASSUME NEW q \in Seq(Carried), NEW r \in Seq(Carried),
               Feed!Newer(new, q), Feed!Newer(new, r)
        PROVE  Feed!Newer(new, q \o r)
    <3> SUFFICES ASSUME NEW i \in 1..Len(q \o r), (q \o r)[i].from = new.from
                 PROVE  (q \o r)[i].n < new.n
      BY DEF Feed!Newer
    <3>1. /\ Len(q) \in Nat /\ Len(r) \in Nat /\ i \in 1..(Len(q) + Len(r))
          /\ (q \o r)[i] = IF i =< Len(q) THEN q[i] ELSE r[i - Len(q)]
      BY ConcatProperties
    <3>2. CASE i =< Len(q)
      BY <2>3, <3>1, <3>2 DEF Feed!Newer
    <3>3. CASE ~(i =< Len(q))
      <4>1. i - Len(q) \in 1..Len(r)
        BY <3>1, <3>3
      <4> QED BY <2>3, <3>1, <3>3, <4>1 DEF Feed!Newer
    <3> QED BY <3>2, <3>3
  <2> QED BY <2>1, <2>2, <2>3, Mapped
<1> HIDE DEF new, room
<1>6. /\ Waiting' # <<>> /\ Waiting'[Len(Waiting')] = new
      /\ \E rest \in Feed!Kept(Waiting) : Waiting' = Append(rest, new)
  <2>1. CASE propagator # "publish"
    <3>1. Waiting = importQueue /\ Waiting' = Append(room, new)
      <4>1. importQueue' \in Seq(Packet)
        BY <1>1, <1>2, <1>3
      <4>2. <<>> \o importQueue' = importQueue'
        BY <4>1, ConcatEmptySeq
      <4> QED BY <1>1, <2>1, <4>2, Mapped DEF Waiting, InHand
    <3>2. room \in Feed!Kept(Waiting)
      BY <1>2, <3>1, SuffixOfFeed DEF Feed!Kept
    <3> QED BY <1>2, <1>3, <3>1, <3>2, AppendProperties
  <2>2. CASE propagator = "publish"
    <3> DEFINE x == packet[1]
    <3>1. packet = <<x>> /\ x \in Packet
      BY <2>2 DEF TypeOK
    <3>2. Waiting = <<x>> \o importQueue /\ Waiting' = <<x>> \o Append(room, new)
      BY <1>1, <2>2, <3>1 DEF Waiting, InHand
    <3> HIDE DEF x
    <3>3. /\ Waiting \in Seq(Packet) /\ Len(Waiting) = Len(importQueue) + 1
          /\ Waiting[1] = x /\ Waiting # <<>>
          /\ \A i \in 1..Len(importQueue) : Waiting[i + 1] = importQueue[i]
      BY <1>2, <3>1, <3>2
    <3>4. Suffix(room, Waiting)
      <4>1. Len(room) \in Nat /\ Len(importQueue) \in Nat /\ Len(room) =< Len(importQueue)
        BY <1>2 DEF Suffix
      <4>2. ASSUME NEW i \in 1..Len(room) PROVE room[i] = Waiting[Len(Waiting) - Len(room) + i]
        <5>1. /\ Len(importQueue) - Len(room) + i \in 1..Len(importQueue)
              /\ (Len(importQueue) - Len(room) + i) + 1 = Len(Waiting) - Len(room) + i
          BY <3>3, <4>1
        <5> QED BY <1>2, <3>3, <5>1 DEF Suffix
      <4> QED BY <3>3, <4>1, <4>2 DEF Suffix
    <3>5. PICK k \in 2..(Len(Waiting) + 1) : room = SubSeq(Waiting, k, Len(Waiting))
      <4>1. Len(room) \in Nat /\ Len(room) =< Len(importQueue) /\ Len(importQueue) \in Nat
        BY <1>2 DEF Suffix
      <4>2. Len(Waiting) - Len(room) + 1 \in 2..(Len(Waiting) + 1)
        BY <3>3, <4>1
      <4> QED BY <1>2, <3>3, <3>4, <4>2, SuffixOfFeed
    <3>6. <<x>> \o room \in Feed!Kept(Waiting)
      BY <3>3, <3>5 DEF Feed!Kept
    <3>7. Waiting' = Append(<<x>> \o room, new) /\ <<x>> \o room \in Seq(Packet)
      <4>1. <<x>> \in Seq(Packet) /\ <<new>> \in Seq(Packet) /\ <<x>> \o room \in Seq(Packet)
        BY <1>2, <1>3, <3>1
      <4>2. Append(room, new) = room \o <<new>>
        BY <1>2, <1>3, AppendIsConcat
      <4>3. Append(<<x>> \o room, new) = (<<x>> \o room) \o <<new>>
        BY <1>3, <4>1, AppendIsConcat
      <4>4. (<<x>> \o room) \o <<new>> = <<x>> \o (room \o <<new>>)
        BY <1>2, <4>1, ConcatAssociative
      <4> QED BY <3>2, <4>1, <4>2, <4>3, <4>4
    <3> DEFINE rest == <<x>> \o room
    <3> HIDE DEF rest
    <3>8. rest \in Feed!Kept(Waiting) /\ Waiting' = Append(rest, new) /\ rest \in Seq(Packet)
      BY <3>6, <3>7 DEF rest
    <3>9. Waiting' # <<>> /\ Len(Waiting') = Len(rest) + 1 /\ Waiting'[Len(rest) + 1] = new
      BY <1>3, <3>8, AppendProperties
    <3> QED BY <3>8, <3>9
  <2> QED BY <2>1, <2>2
<1> QED BY <1>1, <1>3, <1>4, <1>5, <1>6 DEF Feed!Accept, Waiting, Archive


\* The first critical section of propagatePacket() after the pop.
LEMMA FanOutPublishNumbers ==
  ASSUME TypeOK, FanOutPublish
  PROVE  Feed!Number
<1> DEFINE p == packet[1]
<1> DEFINE new == Tag(p, counter + 1)
<1> DEFINE kept == KeepLast(publishQueue, MaxPublish - 1)
<1>1. /\ propagator = "publish" /\ propagator' = "store" /\ counter' = counter + 1
      /\ packet' = <<new>> /\ publishQueue' = Append(kept, new)
      /\ UNCHANGED <<importQueue, storeQueue>>
  BY DEF FanOutPublish, PushPublish, Push
<1>2. /\ packet = <<p>> /\ p \in Packet /\ importQueue \in Seq(Packet)
      /\ storeQueue \in Seq(Tagged) /\ publishQueue \in Seq(Tagged)
  BY <1>1 DEF TypeOK
<1>3. new = [from |-> p.from, n |-> p.n, seq |-> counter + 1] /\ new \in Tagged
  BY <1>2 DEF Tag, Packet, Tagged, TypeOK
<1>4. MaxPublish - 1 \in Nat
  BY PipelineAssumption
<1>5. kept \in Feed!Suffixes(publishQueue)
  BY <1>2, <1>4, KeepLastSuffix, SuffixOfFeed
<1> HIDE DEF new, p, kept
<1>6. /\ Waiting = <<p>> \o importQueue /\ Archive = storeQueue
      /\ Waiting' = importQueue /\ Archive' = storeQueue \o <<new>>
  <2>1. <<>> \o importQueue = importQueue /\ storeQueue \o <<>> = storeQueue
    BY <1>2, ConcatEmptySeq
  <2> QED BY <1>1, <1>2, <2>1 DEF Waiting, Archive, InHand
<1>7. Waiting # <<>> /\ Head(Waiting) = p /\ Tail(Waiting) = importQueue
  <2> DEFINE w == <<p>> \o importQueue
  <2>1. /\ w \in Seq(Packet) /\ Len(w) = Len(importQueue) + 1 /\ Len(importQueue) \in Nat
        /\ w[1] = p /\ \A i \in 1..Len(importQueue) : w[i + 1] = importQueue[i]
    BY <1>2
  <2> HIDE DEF w
  <2>2. w # <<>> /\ Head(w) = p
    BY <2>1
  <2>3. /\ Tail(w) \in Seq(Packet) /\ Len(Tail(w)) = Len(importQueue)
        /\ \A i \in 1..Len(Tail(w)) : Tail(w)[i] = w[i + 1]
    BY <2>1, <2>2, HeadTailProperties
  <2>4. Tail(w) = importQueue
    BY <1>2, <2>1, <2>3, SeqEqual
  <2> QED BY <1>6, <2>2, <2>4 DEF w
<1>8. Archive \in Feed!Suffixes(Archive) /\ Archive' = Append(Archive, new)
  <2>1. Suffix(storeQueue, storeQueue)
    BY <1>2 DEF Suffix
  <2>2. Append(storeQueue, new) = storeQueue \o <<new>>
    BY <1>2, <1>3, AppendIsConcat
  <2> QED BY <1>2, <1>6, <2>1, <2>2, SuffixOfFeed
<1>9. /\ Waiting # <<>> /\ counter' = counter + 1 /\ Waiting' = Tail(Waiting)
      /\ new = [from |-> Head(Waiting).from, n |-> Head(Waiting).n, seq |-> counter + 1]
      /\ \E rest \in Feed!Suffixes(publishQueue) : publishQueue' = Append(rest, new)
      /\ \E rest \in Feed!Suffixes(Archive) : Archive' = Append(rest, new)
  BY <1>1, <1>3, <1>5, <1>6, <1>7, <1>8
<1> QED BY <1>9 DEF Feed!Number, Waiting, Archive

\* The second one: an overflow of the store queue is all the feed sees of it.
LEMMA FanOutStoreForgets ==
  ASSUME TypeOK, FanOutStore
  PROVE  Feed!Forget
<1> DEFINE p == packet[1]
<1> DEFINE kept == KeepLast(storeQueue, MaxStore - 1)
<1>1. /\ propagator = "store" /\ propagator' = "loop" /\ storeQueue' = Append(kept, p)
      /\ UNCHANGED <<counter, importQueue, publishQueue>>
  BY DEF FanOutStore, PushStore, Push
<1>2. /\ packet = <<p>> /\ p \in Tagged /\ importQueue \in Seq(Packet)
      /\ storeQueue \in Seq(Tagged) /\ publishQueue \in Seq(Tagged)
  BY <1>1 DEF TypeOK
<1>3. kept \in Seq(Tagged) /\ Suffix(kept, storeQueue)
  <2>1. MaxStore - 1 \in Nat
    BY PipelineAssumption
  <2> QED BY <1>2, <2>1, KeepLastSuffix
<1> HIDE DEF p, kept
<1>4. storeQueue' \in Seq(Tagged)
  BY <1>1, <1>2, <1>3
<1>5. /\ Waiting' = Waiting /\ Archive = storeQueue \o <<p>> /\ Archive' = storeQueue'
  <2>1. storeQueue' \o <<>> = storeQueue'
    BY <1>4, ConcatEmptySeq
  <2> QED BY <1>1, <1>2, <2>1 DEF Waiting, Archive, InHand
<1>6. Suffix(storeQueue', storeQueue \o <<p>>)
  <2> DEFINE q == storeQueue \o <<p>>
  <2>1. /\ Len(q) = Len(storeQueue) + 1 /\ q[Len(storeQueue) + 1] = p /\ Len(storeQueue) \in Nat
        /\ \A i \in 1..Len(storeQueue) : q[i] = storeQueue[i]
    BY <1>2
  <2>2. /\ Len(storeQueue') = Len(kept) + 1 /\ storeQueue'[Len(kept) + 1] = p
        /\ \A i \in 1..Len(kept) : storeQueue'[i] = kept[i]
        /\ Len(kept) \in Nat /\ Len(kept) =< Len(storeQueue)
    BY <1>1, <1>2, <1>3 DEF Suffix
  <2> HIDE DEF q
  <2>3. ASSUME NEW i \in 1..Len(storeQueue')
        PROVE  storeQueue'[i] = q[Len(q) - Len(storeQueue') + i]
    <3>1. CASE i = Len(kept) + 1
      <4>1. Len(q) - Len(storeQueue') + i = Len(storeQueue) + 1
        BY <2>1, <2>2, <3>1
      <4> QED BY <2>1, <2>2, <3>1, <4>1
    <3>2. CASE i # Len(kept) + 1
      <4>1. /\ i \in 1..Len(kept) /\ Len(storeQueue) - Len(kept) + i \in 1..Len(storeQueue)
            /\ Len(q) - Len(storeQueue') + i = Len(storeQueue) - Len(kept) + i
        BY <2>1, <2>2, <3>2
      <4> QED BY <1>3, <2>1, <2>2, <4>1 DEF Suffix
    <3> QED BY <3>1, <3>2
  <2> QED BY <2>1, <2>2, <2>3 DEF Suffix, q
<1>7. Archive' \in Feed!Suffixes(Archive)
  <2>1. storeQueue \o <<p>> \in Seq(Tagged)
    BY <1>2
  <2> QED BY <1>4, <1>5, <1>6, <2>1, SuffixOfFeed
<1>8. publishQueue' \in Feed!Suffixes(publishQueue)
  <2>1. Suffix(publishQueue, publishQueue)
    BY <1>2 DEF Suffix
  <2> QED BY <1>1, <1>2, <2>1, SuffixOfFeed
<1> QED BY <1>1, <1>5, <1>7, <1>8 DEF Feed!Forget, Waiting, Archive

\* publishPackets() takes the oldest.
LEMMA PublishForgets ==
  ASSUME TypeOK, Publish
  PROVE  Feed!Forget
<1>1. /\ publishQueue' = Tail(publishQueue) /\ publishQueue # <<>>
      /\ UNCHANGED <<counter, importQueue, storeQueue, propagator, packet>>
  BY DEF Publish, propVars
<1>2. publishQueue \in Seq(Tagged)
  BY DEF TypeOK
<1>3. Waiting' = Waiting /\ Archive' = Archive
  BY <1>1 DEF Waiting, Archive, InHand
<1>4. publishQueue' \in Feed!Suffixes(publishQueue)
  BY <1>1, <1>2, TailSuffix, SuffixOfFeed
<1>5. Archive \in Feed!Suffixes(Archive)
  <2>1. Archive \in Seq(Carried)
    <3>1. storeQueue \in Seq(Carried) /\ packet \in Seq(Carried)
      BY QueueTypes
    <3>2. storeQueue \o packet \in Seq(Carried)
      BY <3>1, ConcatProperties
    <3> QED BY <3>1, <3>2, Mapped
  <2>2. Suffix(Archive, Archive)
    BY <2>1 DEF Suffix
  <2> QED BY <2>1, <2>2, SuffixOfFeed
<1> QED BY <1>1, <1>3, <1>4, <1>5 DEF Feed!Forget, Waiting, Archive

\* Every step is a step of the feed or invisible to it.
LEMMA FeedStep == TypeOK /\ OrderInv /\ [Next]_vars => [Feed!Next]_(Feed!vars)
<1> SUFFICES ASSUME TypeOK, OrderInv, [Next]_vars PROVE Feed!Next \/ UNCHANGED Feed!vars
  OBVIOUS
<1>1. ASSUME NEW p \in Publishers, NEW valid \in BOOLEAN, Receive(p, valid)
      PROVE  UNCHANGED Feed!vars
  BY <1>1, FeedFrame DEF Receive, Waiting, Archive, InHand, propVars, queueVars
<1>2. ASSUME NEW p \in Publishers, Enqueue(p) PROVE Feed!Next
  BY <1>2, EnqueueAccepts DEF Feed!Next
<1>3. ASSUME NEW p \in Publishers, Count(p) PROVE UNCHANGED Feed!vars
  BY <1>3, FeedFrame DEF Count, Waiting, Archive, InHand, propVars, queueVars
<1>4. CASE Take
  <2>1. /\ propagator = "poll" /\ propagator' = "publish" /\ importQueue # <<>>
        /\ packet' = <<Head(importQueue)>> /\ importQueue' = Tail(importQueue)
        /\ UNCHANGED <<counter, publishQueue, storeQueue>>
    BY <1>4 DEF Take
  <2>2. importQueue \in Seq(Packet)
    BY DEF TypeOK
  <2>3. <<Head(importQueue)>> \o Tail(importQueue) = importQueue
    <3> DEFINE h == Head(importQueue)
    <3> DEFINE t == Tail(importQueue)
    <3>1. /\ h \in Packet /\ t \in Seq(Packet) /\ Len(t) = Len(importQueue) - 1
          /\ \A i \in 1..Len(t) : t[i] = importQueue[i + 1]
          /\ h = importQueue[1] /\ Len(importQueue) \in Nat
      BY <2>1, <2>2, HeadTailProperties
    <3> HIDE DEF h, t
    <3>2. /\ <<h>> \o t \in Seq(Packet) /\ Len(<<h>> \o t) = Len(importQueue)
          /\ \A i \in 1..Len(importQueue) : (<<h>> \o t)[i] = IF i = 1 THEN h ELSE t[i - 1]
      BY <3>1
    <3>3. ASSUME NEW i \in 1..Len(importQueue) PROVE (<<h>> \o t)[i] = importQueue[i]
      <4>1. CASE i = 1
        BY <3>1, <3>2, <4>1
      <4>2. CASE i # 1
        <5>1. i - 1 \in 1..Len(t) /\ (i - 1) + 1 = i
          BY <3>1, <4>2
        <5> QED BY <3>1, <3>2, <4>2, <5>1
      <4> QED BY <4>1, <4>2
    <3>4. <<h>> \o t = importQueue
      BY <2>2, <3>2, <3>3, SeqEqual
    <3> QED BY <3>4 DEF h, t
  <2>4. Waiting = importQueue
    BY <2>1, Mapped
  <2>5. Waiting' = importQueue /\ Archive' = Archive
    BY <2>1, <2>3 DEF Waiting, Archive, InHand
  <2> QED BY <2>1, <2>4, <2>5, FeedFrame
<1>5. CASE FanOutPublish
  BY <1>5, FanOutPublishNumbers DEF Feed!Next
<1>6. CASE FanOutStore
  BY <1>6, FanOutStoreForgets DEF Feed!Next
<1>7. CASE Publish
  BY <1>7, PublishForgets DEF Feed!Next
<1>8. CASE EnterLoop \/ FindEmpty \/ LeaveLoop
  BY <1>8, FeedFrame DEF EnterLoop, FindEmpty, LeaveLoop, Waiting, Archive, InHand, queueVars
<1>9. CASE StopService \/ StopLoops \/ UNCHANGED vars
  BY <1>9, FeedFrame
  DEF StopService, StopLoops, vars, Waiting, Archive, InHand, propVars, queueVars
<1> QED
  BY <1>1, <1>2, <1>3, <1>4, <1>5, <1>6, <1>7, <1>8, <1>9 DEF Next, Propagate

\* For any number of publishers, any limits and any schedule, the callbacks and
\* the propagator of broker.cpp implement PacketFeed: one line of packets, each
\* numbered once and in order, the same under a number wherever it goes.
THEOREM PipelineImplementsFeed == Spec => ImplementsFeed
<1>1. Init => Feed!Init
  <2> SUFFICES ASSUME Init PROVE Feed!Init
    OBVIOUS
  <2>1. <<>> \o <<>> = <<>>
    BY ConcatEmptySeq
  <2> QED BY <2>1 DEF Init, InHand, Feed!Init
<1> QED BY <1>1, FeedStep, PipelineTypes, OrderInvariant, PTL DEF Spec, ImplementsFeed, Feed!Spec

=============================================================================
