---------------------------- MODULE IngestProofs ----------------------------
(***************************************************************************)
(* Theorems about Ingest, for any finite set of clients, any limits and any *)
(* number of packets.  What PublishServiceProofs and PacketPipelineProofs   *)
(* show of the two parts is used here through instances of those modules.   *)
(***************************************************************************)
EXTENDS Ingest, SequenceTheorems, TLAPS

PSP == INSTANCE PublishServiceProofs WITH Secured <- FALSE, Orderly <- TRUE

PPP == INSTANCE PacketPipelineProofs WITH
    Publishers <- Clients, MaxPublish <- 1, MaxStore <- 1, FirstNumber <- 0,
    PublishThread <- FALSE, reader <- callback, mKeepRunning <- propagating,
    accepting <- (stopper # "done")

----------------------------------------------------------------------------
(***************************************************************************)
(* The two instances of each part are the same specification.               *)
(***************************************************************************)

\* The service as Ingest and as its proofs see it.
LEMMA SameService ==
  /\ PS!Init => PSP!Init
  /\ [PS!Next]_(PS!vars) => [PSP!Next]_(PSP!vars)
<1>1. PS!Init => PSP!Init
  BY DEF PS!Init, PSP!Init, PS!NewSession, PSP!NewSession, PS!NewResponse, PSP!NewResponse
<1>2. UNCHANGED PS!vars => UNCHANGED PSP!vars
  BY DEF PS!vars, PSP!vars, PS!serviceVars, PSP!serviceVars, PS!countVars, PSP!countVars,
         PS!callVars, PSP!callVars
<1>3. PS!Alive => PSP!Alive
  BY DEF PS!Alive, PSP!Alive
<1>4. PS!Launch => PSP!Launch
  BY DEF PS!Launch, PSP!Launch, PS!countVars, PSP!countVars, PS!callVars, PSP!callVars
<1>5. PS!Serve => PSP!Serve
  BY DEF PS!Serve, PSP!Serve, PS!StartReset, PSP!StartReset, PS!BuildAndStart,
         PSP!BuildAndStart, PS!BuildFails, PSP!BuildFails, PS!MarkStarted, PSP!MarkStarted,
         PS!WaitReturns, PSP!WaitReturns, PS!WaitCrashes, PSP!WaitCrashes, PS!AllGone,
         PSP!AllGone, PS!Clamp, PSP!Clamp, PS!countVars, PSP!countVars, PS!callVars,
         PSP!callVars
<1>6. PS!Stop => PSP!Stop
  BY DEF PS!Stop, PSP!Stop, PS!StopReading, PSP!StopReading, PS!StopTest, PSP!StopTest,
         PS!ShutdownReturns, PSP!ShutdownReturns, PS!StopReset, PSP!StopReset, PS!AllGone,
         PSP!AllGone, PS!Clamp, PSP!Clamp, PS!countVars, PSP!countVars, PS!callVars,
         PSP!callVars
<1>7. ASSUME NEW r \in Clients, NEW authorized \in BOOLEAN, PS!Connect(r, authorized)
      PROVE  PSP!Connect(r, authorized)
  BY <1>7 DEF PS!Connect, PSP!Connect, PS!Finish, PSP!Finish, PS!Go, PSP!Go, PS!NewSession,
              PSP!NewSession, PS!NewResponse, PSP!NewResponse, PS!serviceVars,
              PSP!serviceVars, PS!countVars, PSP!countVars
<1>8. PS!Outcome = PSP!Outcome
  BY DEF PS!Outcome, PSP!Outcome
<1>9. ASSUME NEW r \in Clients, NEW outcome \in PS!Outcome, PS!PacketRead(r, outcome)
      PROVE  PSP!PacketRead(r, outcome)
  BY <1>9 DEF PS!PacketRead, PSP!PacketRead, PS!AfterPacket, PSP!AfterPacket, PS!Finish,
              PSP!Finish, PS!Go, PSP!Go, PS!serviceVars, PSP!serviceVars, PS!countVars,
              PSP!countVars
<1>10. ASSUME NEW r \in Clients, PS!ReadFailed(r) PROVE PSP!ReadFailed(r)
  BY <1>10 DEF PS!ReadFailed, PSP!ReadFailed, PS!Finish, PSP!Finish, PS!Go, PSP!Go,
               PS!serviceVars, PSP!serviceVars, PS!countVars, PSP!countVars
<1>11. ASSUME NEW r \in Clients, PS!React(r) PROVE PSP!React(r)
  <2>1. PS!Delete(r) => PSP!Delete(r)
    BY DEF PS!Delete, PSP!Delete, PS!Go, PSP!Go, PS!NewSession, PSP!NewSession,
           PS!NewResponse, PSP!NewResponse
  <2>2. PS!Register(r) => PSP!Register(r)
    BY DEF PS!Register, PSP!Register, PS!Go, PSP!Go, PS!serviceVars, PSP!serviceVars
  <2>3. PS!StartReading(r) => PSP!StartReading(r)
    BY DEF PS!StartReading, PSP!StartReading, PS!Finish, PSP!Finish, PS!Go, PSP!Go, PS!Clamp,
           PSP!Clamp, PS!serviceVars, PSP!serviceVars
  <2>4. PS!OnDone(r) => PSP!OnDone(r)
    BY <2>1 DEF PS!OnDone, PSP!OnDone, PS!Go, PSP!Go, PS!serviceVars, PSP!serviceVars
  <2>5. PS!Leave(r) => PSP!Leave(r)
    BY <2>1 DEF PS!Leave, PSP!Leave, PS!Clamp, PSP!Clamp, PS!serviceVars, PSP!serviceVars
  <2> QED BY <1>11, <2>2, <2>3, <2>4, <2>5 DEF PS!React, PSP!React
<1> QED
  BY <1>1, <1>2, <1>3, <1>4, <1>5, <1>6, <1>7, <1>8, <1>9, <1>10, <1>11 DEF PS!Next, PSP!Next

\* The data path as Ingest and as its proofs see it.
LEMMA SamePipeline ==
  /\ PP!Init => PPP!Init
  /\ [PP!Next]_(PP!vars) => [PPP!Next]_(PPP!vars)
<1>1. PP!Init => PPP!Init
  BY DEF PP!Init, PPP!Init
<1>2. UNCHANGED PP!vars => UNCHANGED PPP!vars
  BY DEF PP!vars, PPP!vars, PP!readerVars, PPP!readerVars, PP!propVars, PPP!propVars,
         PP!queueVars, PPP!queueVars, PP!flags, PPP!flags, PP!observers, PPP!observers
<1>3. ASSUME NEW r \in Clients, NEW valid \in BOOLEAN, PP!Receive(r, valid)
      PROVE  PPP!Receive(r, valid)
  BY <1>3 DEF PP!Receive, PPP!Receive, PP!Increment, PPP!Increment, PP!propVars, PPP!propVars,
              PP!queueVars, PPP!queueVars, PP!flags, PPP!flags
<1>4. ASSUME NEW r \in Clients, PP!Enqueue(r) PROVE PPP!Enqueue(r)
  BY <1>4 DEF PP!Enqueue, PPP!Enqueue, PP!ImportRoom, PPP!ImportRoom, PP!KeepLast,
              PPP!KeepLast, PP!propVars, PPP!propVars, PP!flags, PPP!flags
<1>5. ASSUME NEW r \in Clients, PP!Count(r) PROVE PPP!Count(r)
  BY <1>5 DEF PP!Count, PPP!Count, PP!Increment, PPP!Increment, PP!propVars, PPP!propVars,
              PP!queueVars, PPP!queueVars, PP!flags, PPP!flags, PP!observers, PPP!observers
<1>6. PP!Propagate => PPP!Propagate
  <2>1. PP!Take => PPP!Take
    BY DEF PP!Take, PPP!Take, PP!readerVars, PPP!readerVars, PP!flags, PPP!flags,
           PP!observers, PPP!observers
  <2>2. PP!FanOutPublish => PPP!FanOutPublish
    BY DEF PP!FanOutPublish, PPP!FanOutPublish, PP!Tag, PPP!Tag, PP!PushPublish,
           PPP!PushPublish, PP!Push, PPP!Push, PP!KeepLast, PPP!KeepLast, PP!readerVars,
           PPP!readerVars, PP!flags, PPP!flags, PP!observers, PPP!observers
  <2>3. PP!FanOutStore => PPP!FanOutStore
    BY DEF PP!FanOutStore, PPP!FanOutStore, PP!PushStore, PPP!PushStore, PP!Push, PPP!Push,
           PP!KeepLast, PPP!KeepLast, PP!readerVars, PPP!readerVars, PP!flags, PPP!flags,
           PP!observers, PPP!observers
  <2>4. PP!LeaveLoop => PPP!LeaveLoop
    BY DEF PP!LeaveLoop, PPP!LeaveLoop, PP!readerVars, PPP!readerVars, PP!queueVars,
           PPP!queueVars, PP!flags, PPP!flags, PP!observers, PPP!observers
  <2>5. PP!EnterLoop \/ PP!FindEmpty => PPP!EnterLoop \/ PPP!FindEmpty
    BY DEF PP!EnterLoop, PPP!EnterLoop, PP!FindEmpty, PPP!FindEmpty, PP!readerVars,
           PPP!readerVars, PP!queueVars, PPP!queueVars, PP!flags, PPP!flags, PP!observers,
           PPP!observers
  <2> QED BY <2>1, <2>2, <2>3, <2>4, <2>5 DEF PP!Propagate, PPP!Propagate
<1>7. PP!Publish => PPP!Publish
  BY DEF PP!Publish, PPP!Publish
<1>8. PP!StopService \/ PP!StopLoops => PPP!StopService \/ PPP!StopLoops
  BY DEF PP!StopService, PPP!StopService, PP!StopLoops, PPP!StopLoops, PP!readerVars,
         PPP!readerVars, PP!propVars, PPP!propVars, PP!queueVars, PPP!queueVars,
         PP!observers, PPP!observers
<1> QED
  BY <1>1, <1>2, <1>3, <1>4, <1>5, <1>6, <1>7, <1>8 DEF PP!Next, PPP!Next

\* What is proved of the service alone.
LEMMA ServiceFacts ==
  /\ PSP!Init => PSP!CountInv /\ PSP!SessionInv
  /\ PSP!CountInv /\ PSP!SessionInv /\ [PSP!Next]_(PSP!vars) =>
       (PSP!CountInv /\ PSP!SessionInv)'
<1>1. PSP!Init => PSP!CountInv
  BY PSP!InitCount, IngestAssumption DEF IsFiniteSet, PSP!IsFiniteSet
<1>2. PSP!Init => PSP!SessionInv
  BY PSP!InitSession, IngestAssumption DEF IsFiniteSet, PSP!IsFiniteSet
<1>3. PSP!CountInv /\ PSP!SessionInv /\ [PSP!Next]_(PSP!vars) => PSP!CountInv'
  BY PSP!NextCount, IngestAssumption DEF IsFiniteSet, PSP!IsFiniteSet
<1>4. PSP!SessionInv /\ [PSP!Next]_(PSP!vars) => PSP!SessionInv'
  BY PSP!NextSession, IngestAssumption DEF IsFiniteSet, PSP!IsFiniteSet
<1> QED BY <1>1, <1>2, <1>3, <1>4

\* What is proved of the data path alone.
LEMMA PipelineFacts ==
  /\ PPP!Init => PPP!TypeOK
  /\ PPP!TypeOK /\ [PPP!Next]_(PPP!vars) => PPP!TypeOK'
<1>1. PPP!Init => PPP!TypeOK
  BY PPP!InitType, IngestAssumption
<1>2. PPP!TypeOK /\ [PPP!Next]_(PPP!vars) => PPP!TypeOK'
  BY PPP!TypeStep, IngestAssumption
<1> QED BY <1>1, <1>2

----------------------------------------------------------------------------
(***************************************************************************)
(* Put together, each part still behaves as it does alone.                  *)
(***************************************************************************)

\* A step of Ingest is a step of the service, or leaves it alone.
LEMMA ServiceMoves == [Next]_vars => [PS!Next]_(PS!vars)
<1> SUFFICES ASSUME [Next]_vars PROVE [PS!Next]_(PS!vars)
  OBVIOUS
<1>1. UNCHANGED serviceVars => UNCHANGED PS!vars
  BY DEF serviceVars, PS!vars, PS!serviceVars, PS!countVars, PS!callVars
<1>2. CASE PS!Alive /\ (Start \/ Serve \/ StopService)
  BY <1>2 DEF Start, Serve, StopService, PS!Next, PS!Stop
<1>3. CASE StopLoops \/ Propagate
  BY <1>1, <1>3 DEF StopLoops, Propagate
<1>4. ASSUME NEW r \in Clients, PS!Alive, Connect(r) \/ React(r) \/ ReadFailed(r)
      PROVE  PS!Next
  BY <1>4 DEF Connect, React, ReadFailed, PS!Next
<1>5. ASSUME NEW r \in Clients, PS!Alive, Reject(r) \/ Return(r)
      PROVE  PS!Next
  <2>1. "accepted" \in PS!Outcome /\ "invalid" \in PS!Outcome
    BY DEF PS!Outcome
  <2> QED BY <1>5, <2>1 DEF Reject, Return, PS!Next
<1>6. ASSUME NEW r \in Clients, Call(r) \/ Import(r)
      PROVE  UNCHANGED PS!vars
  BY <1>1, <1>6 DEF Call, Import
<1>7. CASE UNCHANGED vars
  BY <1>1, <1>7 DEF vars
<1> QED BY <1>2, <1>3, <1>4, <1>5, <1>6, <1>7 DEF Next, OnReadDone

\* A step of Ingest is a step of the data path, or leaves it alone: the service
\* starts only once, so it never accepts packets again after its stop().
LEMMA PipelineMoves == PSP!CountInv /\ [Next]_vars => [PP!Next]_(PP!vars)
<1> SUFFICES ASSUME PSP!CountInv, [Next]_vars PROVE [PP!Next]_(PP!vars)
  OBVIOUS
<1> DEFINE Open == stopper # "done"
<1>1. UNCHANGED pipelineVars /\ Open' = Open => UNCHANGED PP!vars
  BY DEF pipelineVars, PP!vars, PP!readerVars, PP!propVars, PP!queueVars, PP!flags,
         PP!observers
<1>2. CASE Start
  <2>1. stopper = "none" /\ stopper' = "none"
    BY <1>2 DEF Start, PS!Launch, PSP!CountInv, PSP!Phases
  <2> QED BY <1>1, <1>2, <2>1 DEF Start
<1>3. CASE Serve
  <2>1. stopper' = stopper
    BY <1>3 DEF Serve, PS!Serve, PS!StartReset, PS!BuildAndStart, PS!BuildFails,
                PS!MarkStarted, PS!WaitReturns, PS!WaitCrashes
  <2> QED BY <1>1, <1>3, <2>1 DEF Serve
<1>4. CASE StopService
  <2>1. CASE (PS!StopReading \/ PS!StopTest \/ PS!ShutdownReturns) /\ UNCHANGED pipelineVars
    <3>1. stopper # "done" /\ stopper' # "done"
      BY <2>1 DEF PS!StopReading, PS!StopTest, PS!ShutdownReturns
    <3> QED BY <1>1, <2>1, <3>1
  <2>2. CASE PS!StopReset /\ PP!StopService
    BY <2>2 DEF PP!Next
  <2> QED BY <1>4, <2>1, <2>2 DEF StopService
<1>5. CASE StopLoops \/ Propagate
  BY <1>5 DEF StopLoops, Propagate, PP!Next
<1>6. ASSUME NEW r \in Clients, Connect(r) \/ React(r) \/ ReadFailed(r)
      PROVE  UNCHANGED PP!vars
  <2>1. UNCHANGED pipelineVars
    BY <1>6 DEF Connect, React, ReadFailed
  <2>2. stopper' = stopper
    BY <1>6 DEF Connect, React, ReadFailed, PS!Connect, PS!React, PS!Register,
                PS!StartReading, PS!OnDone, PS!Leave, PS!ReadFailed, PS!serviceVars
  <2> QED BY <1>1, <2>1, <2>2
<1>7. ASSUME NEW r \in Clients, Call(r) \/ Reject(r) \/ OnReadDone(r)
      PROVE  PP!Next
  BY <1>7 DEF Call, Reject, OnReadDone, Import, Return, PP!Next
<1>8. CASE UNCHANGED vars
  BY <1>1, <1>8 DEF vars, serviceVars
<1> QED BY <1>2, <1>3, <1>4, <1>5, <1>6, <1>7, <1>8 DEF Next

\* Both parts start as they do alone.
LEMMA PartsInit == Init => PS!Init /\ PP!Init
  BY DEF Init, PP!Init, PS!Init

\* The invariants of the parts.
PartsInv == PSP!CountInv /\ PSP!SessionInv /\ PPP!TypeOK

\* A step of the two together keeps them, being a step of each or none.
LEMMA PartsStep == PartsInv /\ [Next]_vars => PartsInv'
<1> SUFFICES ASSUME PartsInv, [Next]_vars PROVE PartsInv'
  OBVIOUS
<1>1. [PSP!Next]_(PSP!vars)
  BY ServiceMoves, SameService
<1>2. [PPP!Next]_(PPP!vars)
  BY PipelineMoves, SamePipeline DEF PartsInv
<1> QED BY <1>1, <1>2, ServiceFacts, PipelineFacts DEF PartsInv

\* The invariants of the parts hold when they are put together.
LEMMA PartsInvariant == Spec => []PartsInv
<1>1. Init => PartsInv
  BY PartsInit, SameService, SamePipeline, ServiceFacts, PipelineFacts DEF PartsInv
<1> QED BY <1>1, PartsStep, PTL DEF Spec

\* The broker's callback and its stop() use the publish service and the data path
\* as each was specified: whatever is shown of one of them alone holds of the broker.
THEOREM PartsBehave == Spec => PS!Spec /\ PP!Spec
<1>1. PartsInv /\ [Next]_vars => [PS!Next]_(PS!vars) /\ [PP!Next]_(PP!vars)
  BY ServiceMoves, PipelineMoves DEF PartsInv
<1> QED BY <1>1, PartsInit, PartsInvariant, PTL DEF Spec, PS!Spec, PP!Spec

\* In every reachable state of the two together the calls, their counters, the
\* queues and the packet in the propagator's hands are of their types.
THEOREM IngestTypes == Spec => []TypeOK
<1>1. PartsInv => PS!TypeOK
  BY DEF PartsInv, PSP!CountInv, PSP!SessionTypes, PSP!ServiceTypes, PS!TypeOK,
         PS!Session, PSP!Session, PS!Response, PSP!Response, PS!Outcome, PSP!Outcome
<1>2. PartsInv => PP!TypeOK
  BY DEF PartsInv, PPP!TypeOK, PP!TypeOK, PP!Packet, PPP!Packet, PP!Tagged, PPP!Tagged
<1> QED BY <1>1, <1>2, PartsInvariant, PTL DEF TypeOK

----------------------------------------------------------------------------
(***************************************************************************)
(* What a call knows of its packets is what happened to them in the data    *)
(* path, and stop() ends the loops last.                                    *)
(***************************************************************************)

\* The loops end only when stop() has ended the service.
LoopsLast == ~propagating => stopper = "done"

\* The index of the next packet of r that can be put on the import queue.
Due(r) == IF callback[r] = "enqueue" THEN sent[r] ELSE sent[r] + 1

\* What was put on the import queue was sent, and is there or was taken off.
EnteredInv ==
    /\ base \in [Clients -> Nat] /\ entered \subseteq PPP!Packet
    /\ ToSet(importQueue) \subseteq entered
    /\ \A x \in entered : x.n < Due(x.from)

\* A callback is under way only while its call is reading.
CallbackReads(r) == ~Idle(r) => reader[r] = "reading"

\* The packet that the callback of r has in hand is the next of the call.
InStep(r) ==
    reader[r] # "none" =>
        sent[r] = base[r] + Len(log[r]) + (IF Idle(r) THEN 0 ELSE 1)

\* What the call logged is what happened to its packets.
LogTrue(r) ==
    reader[r] # "none" =>
        /\ \A i \in 1..Len(log[r]) : log[r][i] = "accepted" <=> Named(r, i) \in entered
        /\ callback[r] = "count" => Named(r, Len(log[r]) + 1) \in entered

CallInv(r) == CallbackReads(r) /\ InStep(r) /\ LogTrue(r)

JointInv == LoopsLast /\ EnteredInv /\ \A r \in Clients : CallInv(r)

\* The types that the steps below need.
LEMMA JointTypes ==
  ASSUME PartsInv
  PROVE  /\ callback \in [Clients -> {"idle", "enqueue", "count"}]
         /\ sent \in [Clients -> Nat]
         /\ importQueue \in Seq(PPP!Packet)
         /\ log \in [Clients -> Seq(PSP!Outcome)]
         /\ reader \in [Clients -> {"none", "admitted", "registered", "reading",
                                    "finished", "leaving"}]
  BY DEF PartsInv, PPP!TypeOK, PSP!CountInv, PSP!SessionTypes

\* A step that does nothing with a call or its packets keeps what is true of it.
LEMMA CallFrame ==
  ASSUME NEW q \in Clients, CallInv(q),
         reader'[q] = reader[q], log'[q] = log[q], callback'[q] = callback[q],
         sent'[q] = sent[q], base'[q] = base[q],
         \A k : [from |-> q, n |-> k] \in entered' <=> [from |-> q, n |-> k] \in entered
  PROVE  CallInv(q)'
  BY DEF CallInv, CallbackReads, InStep, LogTrue, Idle, Named

\* A step that leaves the data path and the observers alone keeps what is true of
\* the packets.
LEMMA EnteredFrame ==
  ASSUME EnteredInv, UNCHANGED <<base, entered, importQueue, callback, sent>>
  PROVE  EnteredInv'
  BY DEF EnteredInv, Due, PPP!Packet

\* The elements of a queue.
LEMMA QueueElements ==
  ASSUME NEW S, NEW q \in Seq(S)
  PROVE  /\ ToSet(q) \subseteq S
         /\ \A x \in S : ToSet(Append(q, x)) = ToSet(q) \cup {x}
         /\ q # <<>> => ToSet(Tail(q)) \subseteq ToSet(q)
<1>1. ToSet(q) \subseteq S
  BY DEF ToSet
<1>2. ASSUME NEW x \in S PROVE ToSet(Append(q, x)) = ToSet(q) \cup {x}
  <2>1. /\ Len(Append(q, x)) = Len(q) + 1 /\ Len(q) \in Nat
        /\ \A i \in 1..Len(q) : Append(q, x)[i] = q[i]
        /\ Append(q, x)[Len(q) + 1] = x
    OBVIOUS
  <2>2. 1..(Len(q) + 1) = 1..Len(q) \cup {Len(q) + 1}
    BY <2>1
  <2> QED BY <2>1, <2>2 DEF ToSet
<1>3. ASSUME q # <<>> PROVE ToSet(Tail(q)) \subseteq ToSet(q)
  <2>1. /\ Len(Tail(q)) = Len(q) - 1 /\ Len(q) \in Nat
        /\ \A i \in 1..Len(Tail(q)) : Tail(q)[i] = q[i + 1]
    BY <1>3
  <2>2. \A i \in 1..Len(Tail(q)) : i + 1 \in 1..Len(q)
    BY <2>1
  <2> QED BY <2>1, <2>2 DEF ToSet
<1> QED BY <1>1, <1>2, <1>3

\* Making room on the import queue puts nothing on it.
LEMMA RoomElements ==
  ASSUME NEW q \in Seq(PPP!Packet)
  PROVE  /\ PP!ImportRoom(q) \in Seq(PPP!Packet)
         /\ ToSet(PP!ImportRoom(q)) \subseteq ToSet(q)
<1> DEFINE room == PP!ImportRoom(q)
<1>1. CASE ~(Len(q) > MaxImport)
  BY <1>1 DEF PP!ImportRoom
<1>2. CASE Len(q) > MaxImport
  <2>1. MaxImport \in Nat \ {0}
    BY IngestAssumption
  <2>2. room = SubSeq(q, Len(q) - (MaxImport - 1) + 1, Len(q))
    BY <1>2, <2>1 DEF PP!ImportRoom, PP!KeepLast
  <2>3. /\ room \in Seq(PPP!Packet) /\ Len(room) = MaxImport - 1
        /\ \A i \in 1..Len(room) : room[i] = q[Len(q) - (MaxImport - 1) + i]
    BY <1>2, <2>1, <2>2
  <2> HIDE DEF room
  <2>4. \A i \in 1..Len(room) : Len(q) - (MaxImport - 1) + i \in 1..Len(q)
    BY <1>2, <2>1, <2>3
  <2>5. ToSet(room) \subseteq ToSet(q)
    <3>1. DOMAIN room = 1..Len(room) /\ DOMAIN q = 1..Len(q)
      BY <2>3
    <3> QED BY <2>3, <2>4, <3>1 DEF ToSet
  <2> QED BY <2>3, <2>5 DEF room
<1> QED BY <1>1, <1>2

\* The invariant of the two together holds at first.
LEMMA InitJoint == Init => JointInv
<1> SUFFICES ASSUME Init PROVE JointInv
  OBVIOUS
<1>1. LoopsLast
  BY DEF Init, LoopsLast
<1>2. EnteredInv
  <2>1. ToSet(importQueue) = {}
    BY DEF Init, ToSet
  <2> QED BY <2>1 DEF Init, EnteredInv
<1>3. \A r \in Clients : CallInv(r)
  BY DEF Init, PS!Init, CallInv, CallbackReads, InStep, LogTrue, Idle
<1> QED BY <1>1, <1>2, <1>3 DEF JointInv

\* A reaction of the service, other than a packet: it ends calls or goes on with
\* them, never while a callback is under way.
LEMMA ReactJoint ==
  ASSUME PartsInv, JointInv, NEW r \in Clients, React(r) \/ ReadFailed(r)
  PROVE  JointInv'
<1>1. /\ UNCHANGED <<base, entered, importQueue, callback, sent, propagating, stopper>>
  BY DEF React, ReadFailed, PS!React, PS!Register, PS!StartReading, PS!OnDone, PS!Leave,
         PS!ReadFailed, PS!serviceVars, pipelineVars, observers
<1>2. reader \in [Clients -> {"none", "admitted", "registered", "reading", "finished",
                              "leaving"}]
      /\ log \in [Clients -> Seq(PSP!Outcome)]
  BY JointTypes
<1>3. Idle(r)
  <2>1. CASE React(r)
    BY <2>1 DEF React, PS!React, PS!Register, PS!StartReading, PS!OnDone, PS!Leave, JointInv,
                CallInv, CallbackReads
  <2>2. CASE ReadFailed(r)
    BY <2>2 DEF ReadFailed
  <2> QED BY <2>1, <2>2
<1>4. /\ reader'[r] # "none" => reader[r] # "none" /\ log'[r] = log[r]
      /\ \A q \in Clients \ {r} : reader'[q] = reader[q] /\ log'[q] = log[q]
  BY <1>2 DEF React, ReadFailed, PS!React, PS!Register, PS!StartReading, PS!OnDone, PS!Leave,
              PS!ReadFailed, PS!Delete, PS!Finish, PS!Go
<1>5. CallInv(r)'
  <2>1. CallInv(r)
    BY DEF JointInv
  <2> QED BY <1>1, <1>3, <1>4, <2>1 DEF CallInv, CallbackReads, InStep, LogTrue, Idle, Named
<1>6. ASSUME NEW q \in Clients \ {r} PROVE CallInv(q)'
  BY <1>1, <1>4, CallFrame DEF JointInv
<1>7. EnteredInv' /\ LoopsLast'
  BY <1>1, EnteredFrame DEF JointInv, LoopsLast
<1> QED BY <1>5, <1>6, <1>7 DEF JointInv

\* A new call starts with no packets.
LEMMA ConnectJoint ==
  ASSUME PartsInv, JointInv, NEW r \in Clients, Connect(r)
  PROVE  JointInv'
<1>1. /\ UNCHANGED <<entered, importQueue, callback, sent, propagating, stopper>>
      /\ base' = [base EXCEPT ![r] = sent[r]]
      /\ log' = [log EXCEPT ![r] = <<>>]
      /\ reader[r] = "none"
  BY DEF Connect, PS!Connect, PS!serviceVars, pipelineVars
<1>2. \A q \in Clients \ {r} : reader'[q] = reader[q]
  BY JointTypes DEF Connect, PS!Connect, PS!Finish, PS!Go
<1>3. /\ sent \in [Clients -> Nat] /\ log \in [Clients -> Seq(PSP!Outcome)]
      /\ base \in [Clients -> Nat]
  BY JointTypes DEF JointInv, EnteredInv
<1>4. CallInv(r)'
  <2>1. Idle(r)
    BY <1>1 DEF JointInv, CallInv, CallbackReads
  <2>2. log'[r] = <<>> /\ base'[r] = sent[r] /\ sent[r] \in Nat
    BY <1>1, <1>3
  <2> QED BY <1>1, <2>1, <2>2 DEF CallInv, CallbackReads, InStep, LogTrue, Idle
<1>5. ASSUME NEW q \in Clients \ {r} PROVE CallInv(q)'
  BY <1>1, <1>2, <1>3, CallFrame DEF JointInv
<1>6. EnteredInv'
  <2>1. base' \in [Clients -> Nat]
    BY <1>1, <1>3
  <2> QED BY <1>1, <2>1 DEF JointInv, EnteredInv, Due, PPP!Packet
<1> QED BY <1>1, <1>4, <1>5, <1>6 DEF JointInv, LoopsLast

\* The callback takes the next packet of the call in hand.
LEMMA CallJoint ==
  ASSUME PartsInv, JointInv, NEW r \in Clients, Call(r)
  PROVE  JointInv'
<1>1. /\ UNCHANGED <<base, entered, importQueue, propagating, stopper, reader, log>>
      /\ reader[r] = "reading" /\ callback[r] = "idle"
      /\ callback' = [callback EXCEPT ![r] = "enqueue"]
      /\ sent' = [sent EXCEPT ![r] = @ + 1]
  BY DEF Call, PP!Receive, PP!queueVars, PP!flags, serviceVars, observers
<1>2. /\ sent \in [Clients -> Nat] /\ callback \in [Clients -> {"idle", "enqueue", "count"}]
      /\ log \in [Clients -> Seq(PSP!Outcome)] /\ base \in [Clients -> Nat]
  BY JointTypes DEF JointInv, EnteredInv
<1>3. CallInv(r)'
  <2>1. CallInv(r) /\ sent[r] \in Nat /\ Len(log[r]) \in Nat /\ base[r] \in Nat
    BY <1>2 DEF JointInv
  <2>2. callback'[r] = "enqueue" /\ sent'[r] = sent[r] + 1
    BY <1>1, <1>2
  <2> QED BY <1>1, <2>1, <2>2 DEF CallInv, CallbackReads, InStep, LogTrue, Idle, Named
<1>4. ASSUME NEW q \in Clients \ {r} PROVE CallInv(q)'
  BY <1>1, <1>2, CallFrame DEF JointInv
<1>5. EnteredInv'
  <2>1. \A q \in Clients : Due(q)' = Due(q)
    BY <1>1, <1>2 DEF Due
  <2> QED BY <1>1, <2>1 DEF JointInv, EnteredInv, PPP!Packet
<1> QED BY <1>1, <1>3, <1>4, <1>5 DEF JointInv, LoopsLast

\* What OnReadDone(true) does with the call.
LEMMA PacketLogged ==
  ASSUME PartsInv, NEW r \in Clients, NEW outcome \in {"accepted", "invalid"},
         PS!PacketRead(r, outcome)
  PROVE  /\ UNCHANGED stopper
         /\ reader[r] = "reading" /\ reader'[r] # "none"
         /\ log'[r] = Append(log[r], outcome)
         /\ \A q \in Clients \ {r} : reader'[q] = reader[q] /\ log'[q] = log[q]
<1>1. /\ log \in [Clients -> Seq(PSP!Outcome)]
      /\ reader \in [Clients -> {"none", "admitted", "registered", "reading", "finished",
                                 "leaving"}]
  BY JointTypes
<1>2. UNCHANGED stopper /\ reader[r] = "reading"
      /\ log' = [log EXCEPT ![r] = Append(@, outcome)]
  BY DEF PS!PacketRead, PS!serviceVars
<1>3. reader' = [reader EXCEPT ![r] = "reading"] \/ reader' = [reader EXCEPT ![r] = "finished"]
  BY DEF PS!PacketRead, PS!Finish, PS!Go
<1> QED BY <1>1, <1>2, <1>3

\* A log with one more outcome.
LEMMA LogAppend ==
  ASSUME NEW l \in Seq(PSP!Outcome), NEW o \in {"accepted", "invalid"}
  PROVE  /\ Len(Append(l, o)) = Len(l) + 1 /\ Len(l) \in Nat
         /\ \A i \in 1..Len(l) : Append(l, o)[i] = l[i]
         /\ Append(l, o)[Len(l) + 1] = o
         /\ 1..(Len(l) + 1) = 1..Len(l) \cup {Len(l) + 1}
<1>1. o \in PSP!Outcome
  BY DEF PSP!Outcome
<1>2. Len(l) \in Nat
  OBVIOUS
<1> QED BY <1>1, <1>2

\* A packet that the callback throws out never gets to the import queue.
LEMMA RejectJoint ==
  ASSUME PartsInv, JointInv, NEW r \in Clients, Reject(r)
  PROVE  JointInv'
<1>1. /\ UNCHANGED <<base, entered, importQueue, propagating>>
      /\ callback[r] = "idle"
      /\ callback' = [callback EXCEPT ![r] = "idle"]
      /\ sent' = [sent EXCEPT ![r] = @ + 1]
  BY DEF Reject, PP!Receive, PP!queueVars, PP!flags, observers, Idle
<1>2. /\ UNCHANGED stopper
      /\ reader[r] = "reading" /\ reader'[r] # "none"
      /\ log'[r] = Append(log[r], "invalid")
      /\ \A q \in Clients \ {r} : reader'[q] = reader[q] /\ log'[q] = log[q]
  BY PacketLogged DEF Reject
<1>3. /\ sent \in [Clients -> Nat] /\ callback \in [Clients -> {"idle", "enqueue", "count"}]
      /\ log \in [Clients -> Seq(PSP!Outcome)] /\ base \in [Clients -> Nat]
  BY JointTypes DEF JointInv, EnteredInv
<1>4. /\ sent'[r] = sent[r] + 1 /\ callback' = callback
      /\ \A q \in Clients \ {r} : sent'[q] = sent[q]
  BY <1>1, <1>3
<1>5. CallInv(r)'
  <2>1. CallInv(r) /\ sent[r] \in Nat /\ base[r] \in Nat /\ log[r] \in Seq(PSP!Outcome)
    BY <1>3 DEF JointInv
  <2>2. /\ Len(log'[r]) = Len(log[r]) + 1 /\ Len(log[r]) \in Nat
        /\ \A i \in 1..Len(log[r]) : log'[r][i] = log[r][i]
        /\ log'[r][Len(log[r]) + 1] = "invalid"
        /\ 1..Len(log'[r]) = 1..Len(log[r]) \cup {Len(log[r]) + 1}
    BY <1>2, <2>1, LogAppend
  <2>3. sent[r] = base[r] + Len(log[r])
    BY <1>1, <1>2, <2>1, <2>2 DEF CallInv, InStep, Idle
  <2>4. Named(r, Len(log[r]) + 1) \notin entered
    <3>1. Named(r, Len(log[r]) + 1).from = r /\ Named(r, Len(log[r]) + 1).n = sent[r] + 1
      BY <2>1, <2>2, <2>3 DEF Named
    <3>2. Due(r) = sent[r] + 1
      BY <1>1 DEF Due
    <3> QED BY <2>1, <3>1, <3>2 DEF JointInv, EnteredInv
  <2>5. InStep(r)' /\ CallbackReads(r)'
    BY <1>1, <1>4, <2>1, <2>2, <2>3 DEF InStep, CallbackReads, Idle
  <2>6. LogTrue(r)'
    <3>1. \A i \in 1..Len(log[r]) : log[r][i] = "accepted" <=> Named(r, i) \in entered
      BY <1>2, <2>1 DEF CallInv, LogTrue
    <3>2. \A i : Named(r, i)' = Named(r, i)
      BY <1>1 DEF Named
    <3>3. \A i \in 1..Len(log'[r]) : log'[r][i] = "accepted" <=> Named(r, i)' \in entered'
      BY <1>1, <2>2, <2>4, <3>1, <3>2
    <3> QED BY <1>1, <1>4, <3>3 DEF LogTrue
  <2> QED BY <2>5, <2>6 DEF CallInv
<1>6. ASSUME NEW q \in Clients \ {r} PROVE CallInv(q)'
  BY <1>1, <1>2, <1>4, CallFrame DEF JointInv
<1>7. EnteredInv'
  <2>1. \A q \in Clients : Due(q) =< Due(q)' /\ Due(q) \in Nat /\ Due(q)' \in Nat
    BY <1>1, <1>3 DEF Due
  <2>2. ASSUME NEW x \in entered PROVE x.n < Due(x.from)'
    <3>1. x.from \in Clients /\ x.n \in Nat /\ x.n < Due(x.from)
      BY DEF JointInv, EnteredInv, PPP!Packet
    <3> QED BY <2>1, <3>1
  <2> QED BY <1>1, <2>2 DEF JointInv, EnteredInv, PPP!Packet
<1> QED BY <1>1, <1>2, <1>5, <1>6, <1>7 DEF JointInv, LoopsLast

\* The callback puts the packet in hand on the import queue, and no other.
LEMMA ImportJoint ==
  ASSUME PartsInv, JointInv, NEW r \in Clients, Import(r)
  PROVE  JointInv'
<1> DEFINE new == [from |-> r, n |-> sent[r]]
<1>1. /\ UNCHANGED <<base, propagating, stopper, reader, log, sent>>
      /\ callback[r] = "enqueue"
      /\ callback' = [callback EXCEPT ![r] = "count"]
      /\ importQueue' = Append(PP!ImportRoom(importQueue), new)
      /\ entered' = entered \cup ToSet(importQueue')
  BY DEF Import, PP!Enqueue, PP!flags, serviceVars
<1>2. /\ sent \in [Clients -> Nat] /\ callback \in [Clients -> {"idle", "enqueue", "count"}]
      /\ log \in [Clients -> Seq(PSP!Outcome)] /\ base \in [Clients -> Nat]
      /\ importQueue \in Seq(PPP!Packet)
  BY JointTypes DEF JointInv, EnteredInv
<1>3. new \in PPP!Packet /\ new.from = r /\ new.n = sent[r]
  BY <1>2 DEF PPP!Packet
<1>4. ToSet(importQueue') \subseteq ToSet(importQueue) \cup {new} /\ new \in ToSet(importQueue')
  <2>1. /\ PP!ImportRoom(importQueue) \in Seq(PPP!Packet)
        /\ ToSet(PP!ImportRoom(importQueue)) \subseteq ToSet(importQueue)
    BY <1>2, RoomElements
  <2>2. ToSet(importQueue') = ToSet(PP!ImportRoom(importQueue)) \cup {new}
    BY <1>1, <1>3, <2>1, QueueElements
  <2> QED BY <2>1, <2>2
<1>5. entered' = entered \cup {new}
  BY <1>1, <1>4 DEF JointInv, EnteredInv
<1>6. CallInv(r)'
  <2>1. CallInv(r) /\ sent[r] \in Nat /\ base[r] \in Nat /\ Len(log[r]) \in Nat
    BY <1>2 DEF JointInv
  <2>2. reader[r] = "reading" /\ sent[r] = base[r] + Len(log[r]) + 1
    BY <1>1, <2>1 DEF CallInv, CallbackReads, InStep, Idle
  <2>3. callback'[r] = "count"
    BY <1>1, <1>2
  <2>4. CallbackReads(r)' /\ InStep(r)'
    BY <1>1, <2>2, <2>3 DEF CallbackReads, InStep, Idle
  <2>5. Named(r, Len(log[r]) + 1) = new
    BY <2>1, <2>2 DEF Named
  <2>6. \A i \in 1..Len(log[r]) : Named(r, i) # new
    <3>1. \A i \in 1..Len(log[r]) : Named(r, i).n # sent[r]
      BY <2>1, <2>2 DEF Named
    <3> QED BY <1>3, <3>1
  <2>7. \A i : Named(r, i)' = Named(r, i)
    BY <1>1 DEF Named
  <2> HIDE DEF new
  <2>8. LogTrue(r)'
    BY <1>1, <1>5, <2>1, <2>2, <2>3, <2>5, <2>6, <2>7 DEF CallInv, LogTrue
  <2> QED BY <2>4, <2>8 DEF CallInv
<1>7. ASSUME NEW q \in Clients \ {r} PROVE CallInv(q)'
  <2>1. \A k : [from |-> q, n |-> k] # new
    <3>1. \A k : [from |-> q, n |-> k].from # new.from
      BY <1>3
    <3> QED BY <3>1
  <2> QED BY <1>1, <1>2, <1>5, <2>1, CallFrame DEF JointInv
<1>8. EnteredInv'
  <2>1. /\ \A q \in Clients : Due(q) =< Due(q)' /\ Due(q) \in Nat /\ Due(q)' \in Nat
        /\ Due(r)' = sent[r] + 1
    BY <1>1, <1>2 DEF Due
  <2>2. ASSUME NEW x \in entered' PROVE x.n < Due(x.from)'
    <3>1. CASE x \in entered
      <4>1. x.from \in Clients /\ x.n \in Nat /\ x.n < Due(x.from)
        BY <3>1 DEF JointInv, EnteredInv, PPP!Packet
      <4> QED BY <2>1, <4>1
    <3>2. CASE x = new
      BY <1>2, <1>3, <2>1, <3>2
    <3> QED BY <1>5, <3>1, <3>2
  <2>3. entered' \subseteq PPP!Packet
    BY <1>3, <1>5 DEF JointInv, EnteredInv
  <2>4. ToSet(importQueue') \subseteq entered'
    BY <1>1
  <2>5. ToSet(importQueue)' = ToSet(importQueue')
    BY DEF ToSet
  <2> QED BY <1>1, <2>2, <2>3, <2>4, <2>5 DEF JointInv, EnteredInv, PPP!Packet
<1> QED BY <1>1, <1>6, <1>7, <1>8 DEF JointInv, LoopsLast

\* The call logs as accepted the packet that its callback has put on the queue.
LEMMA ReturnJoint ==
  ASSUME PartsInv, JointInv, NEW r \in Clients, Return(r)
  PROVE  JointInv'
<1>1. /\ UNCHANGED <<base, entered, importQueue, propagating, sent>>
      /\ callback[r] = "count"
      /\ callback' = [callback EXCEPT ![r] = "idle"]
  BY DEF Return, PP!Count, PP!queueVars, PP!flags, observers
<1>2. /\ UNCHANGED stopper
      /\ reader[r] = "reading" /\ reader'[r] # "none"
      /\ log'[r] = Append(log[r], "accepted")
      /\ \A q \in Clients \ {r} : reader'[q] = reader[q] /\ log'[q] = log[q]
  BY PacketLogged DEF Return
<1>3. /\ sent \in [Clients -> Nat] /\ callback \in [Clients -> {"idle", "enqueue", "count"}]
      /\ log \in [Clients -> Seq(PSP!Outcome)] /\ base \in [Clients -> Nat]
  BY JointTypes DEF JointInv, EnteredInv
<1>4. callback'[r] = "idle" /\ \A q \in Clients \ {r} : callback'[q] = callback[q]
  BY <1>1, <1>3
<1>5. CallInv(r)'
  <2>1. CallInv(r) /\ sent[r] \in Nat /\ base[r] \in Nat /\ log[r] \in Seq(PSP!Outcome)
    BY <1>3 DEF JointInv
  <2>2. /\ Len(log'[r]) = Len(log[r]) + 1 /\ Len(log[r]) \in Nat
        /\ \A i \in 1..Len(log[r]) : log'[r][i] = log[r][i]
        /\ log'[r][Len(log[r]) + 1] = "accepted"
        /\ 1..Len(log'[r]) = 1..Len(log[r]) \cup {Len(log[r]) + 1}
    BY <1>2, <2>1, LogAppend
  <2>3. sent[r] = base[r] + Len(log[r]) + 1
    BY <1>1, <1>2, <2>1 DEF CallInv, InStep, Idle
  <2>4. InStep(r)' /\ CallbackReads(r)'
    BY <1>1, <1>4, <2>1, <2>2, <2>3 DEF InStep, CallbackReads, Idle
  <2>5. LogTrue(r)'
    <3>1. /\ \A i \in 1..Len(log[r]) : log[r][i] = "accepted" <=> Named(r, i) \in entered
          /\ Named(r, Len(log[r]) + 1) \in entered
      BY <1>1, <1>2, <2>1 DEF CallInv, LogTrue
    <3>2. \A i : Named(r, i)' = Named(r, i)
      BY <1>1 DEF Named
    <3>3. \A i \in 1..Len(log'[r]) : log'[r][i] = "accepted" <=> Named(r, i)' \in entered'
      BY <1>1, <2>2, <3>1, <3>2
    <3> QED BY <1>4, <3>3 DEF LogTrue
  <2> QED BY <2>4, <2>5 DEF CallInv
<1>6. ASSUME NEW q \in Clients \ {r} PROVE CallInv(q)'
  BY <1>1, <1>2, <1>4, CallFrame DEF JointInv
<1>7. EnteredInv'
  <2>1. \A q \in Clients : Due(q)' = Due(q)
    BY <1>1, <1>3 DEF Due
  <2> QED BY <1>1, <2>1 DEF JointInv, EnteredInv, PPP!Packet
<1> QED BY <1>1, <1>2, <1>5, <1>6, <1>7 DEF JointInv, LoopsLast

\* The propagator only takes packets off the import queue.
LEMMA PropagateJoint ==
  ASSUME PartsInv, JointInv, Propagate
  PROVE  JointInv'
<1>1. UNCHANGED <<base, entered, callback, sent, reader, log, propagating, stopper>>
  BY DEF Propagate, PP!Propagate, PP!EnterLoop, PP!FindEmpty, PP!Take, PP!FanOutPublish,
         PP!FanOutStore, PP!LeaveLoop, PP!readerVars, PP!flags, serviceVars, observers
<1>2. ToSet(importQueue') \subseteq ToSet(importQueue)
  <2>1. CASE PP!Take
    BY <2>1, JointTypes, QueueElements DEF PP!Take
  <2>2. CASE ~PP!Take
    BY <2>2 DEF Propagate, PP!Propagate, PP!EnterLoop, PP!FindEmpty, PP!FanOutPublish,
                PP!FanOutStore, PP!LeaveLoop, PP!queueVars
  <2> QED BY <2>1, <2>2
<1>3. EnteredInv'
  <2>1. ToSet(importQueue)' = ToSet(importQueue')
    BY DEF ToSet
  <2> QED BY <1>1, <1>2, <2>1 DEF JointInv, EnteredInv, Due, PPP!Packet
<1>4. ASSUME NEW q \in Clients PROVE CallInv(q)'
  BY <1>1, CallFrame DEF JointInv
<1> QED BY <1>1, <1>3, <1>4 DEF JointInv, LoopsLast

\* start() and stop(): stop() ends the loops once the service is down.
LEMMA ControlJoint ==
  ASSUME PartsInv, JointInv, Start \/ Serve \/ StopService \/ StopLoops \/ UNCHANGED vars
  PROVE  JointInv'
<1>1. UNCHANGED <<base, entered, importQueue, callback, sent, reader, log>>
  <2>1. CASE Start \/ Serve
    BY <2>1 DEF Start, Serve, PS!Launch, PS!Serve, PS!StartReset, PS!BuildAndStart,
                PS!BuildFails, PS!MarkStarted, PS!WaitReturns, PS!WaitCrashes, PS!callVars,
                pipelineVars, observers
  <2>2. CASE StopService
    BY <2>2 DEF StopService, PS!StopReading, PS!StopTest, PS!ShutdownReturns, PS!StopReset,
                PS!callVars, PP!StopService, PP!readerVars, PP!queueVars, pipelineVars,
                observers
  <2>3. CASE StopLoops \/ UNCHANGED vars
    BY <2>3 DEF StopLoops, PP!StopLoops, PP!readerVars, PP!queueVars, vars, serviceVars,
                pipelineVars, observers
  <2> QED BY <2>1, <2>2, <2>3
<1>2. LoopsLast'
  <2>1. CASE Start
    <3>1. stopper = "none" /\ UNCHANGED propagating
      BY <2>1 DEF Start, pipelineVars, PartsInv, PSP!CountInv, PSP!Phases
    <3> QED BY <3>1 DEF JointInv, LoopsLast
  <2>2. CASE Serve
    BY <2>2 DEF Serve, PS!Serve, PS!StartReset, PS!BuildAndStart, PS!BuildFails,
                PS!MarkStarted, PS!WaitReturns, PS!WaitCrashes, pipelineVars, JointInv,
                LoopsLast
  <2>3. CASE StopService
    <3>1. stopper # "done" /\ UNCHANGED propagating
      BY <2>3 DEF StopService, PS!StopReading, PS!StopTest, PS!ShutdownReturns,
                  PS!StopReset, PP!StopService, pipelineVars
    <3> QED BY <3>1 DEF JointInv, LoopsLast
  <2>4. CASE StopLoops
    BY <2>4 DEF StopLoops, PP!StopLoops, serviceVars, LoopsLast
  <2>5. CASE UNCHANGED vars
    BY <2>5 DEF vars, serviceVars, pipelineVars, JointInv, LoopsLast
  <2> QED BY <2>1, <2>2, <2>3, <2>4, <2>5
<1>3. ASSUME NEW q \in Clients PROVE CallInv(q)'
  BY <1>1, CallFrame DEF JointInv
<1>4. EnteredInv'
  BY <1>1, EnteredFrame DEF JointInv
<1> QED BY <1>2, <1>3, <1>4 DEF JointInv

\* The invariant of the two together.
LEMMA JointInvariant == Spec => [](PartsInv /\ JointInv)
<1>1. PartsInv /\ JointInv /\ [Next]_vars => JointInv'
  BY ReactJoint, ConnectJoint, CallJoint, RejectJoint, ImportJoint, ReturnJoint,
     PropagateJoint, ControlJoint DEF Next, OnReadDone
<1> QED BY <1>1, InitJoint, PartsInvariant, PTL DEF Spec

\* stop() clears the broker's mKeepRunning only when the publish service has ended
\* every call: no callback can put a packet on a queue that nobody empties any more.
THEOREM NothingComesAfterStop == Spec => []QuietAfterStop
<1>1. PartsInv /\ JointInv => QuietAfterStop
  BY DEF PartsInv, JointInv, LoopsLast, CallInv, CallbackReads, PSP!CountInv, PSP!Phases,
         PSP!AllGone, QuietAfterStop
<1> QED BY <1>1, JointInvariant, PTL

\* The packet that a response names as the last accepted one is on the import queue
\* or was taken off it, and no later packet of the call ever got there, whatever the
\* other clients, the propagator and stop() did meanwhile.
THEOREM ResumeIsExact == Spec => []ResumeExact
<1>1. ASSUME PartsInv, JointInv, NEW r \in Clients, reader[r] = "finished",
             status[r] = "OK" \/ response[r] # PS!NewResponse
      PROVE  /\ response[r].last # 0 => Named(r, response[r].last) \in entered
             /\ \A i \in (response[r].last + 1)..response[r].total :
                  Named(r, i) \notin entered
  <2> DEFINE last == response[r].last
  <2>1. PSP!Tells(response[r], log[r])
    BY <1>1 DEF PartsInv, PSP!SessionInv, PSP!TruthOrNothing,
                PS!NewResponse, PSP!NewResponse
  <2>2. /\ response[r].total = Len(log[r]) /\ last \in Nat /\ Len(log[r]) \in Nat
        /\ last # 0 => last \in 1..Len(log[r]) /\ log[r][last] = "accepted"
        /\ \A i \in 1..Len(log[r]) : log[r][i] = "accepted" => i =< last
    <3>1. last \in Nat /\ Len(log[r]) \in Nat
      BY <1>1 DEF PartsInv, PSP!SessionInv, PSP!SessionTypes, PSP!Response
    <3> QED BY <2>1, <3>1 DEF PSP!Tells, PSP!IsLastAccepted, PSP!Indices
  <2>3. \A i \in 1..Len(log[r]) : log[r][i] = "accepted" <=> Named(r, i) \in entered
    BY <1>1 DEF JointInv, CallInv, LogTrue
  <2>4. ASSUME NEW i \in (last + 1)..response[r].total PROVE Named(r, i) \notin entered
    <3>1. i \in 1..Len(log[r]) /\ ~(i =< last)
      BY <2>2, <2>4
    <3> QED BY <2>2, <2>3, <3>1
  <2> QED BY <2>2, <2>3, <2>4
<1>2. PartsInv /\ JointInv => ResumeExact
  BY <1>1 DEF ResumeExact
<1> QED BY <1>2, JointInvariant, PTL

=============================================================================
