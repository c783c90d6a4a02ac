------------------------------- MODULE Ingest -------------------------------
(***************************************************************************)
(* PublishService and PacketPipeline put together as the constructor and    *)
(* stop() of src/src/broker.cpp do: the callback the publish service runs   *)
(* for a packet, in the thread of the call, is addPacketCallback(), and     *)
(* stop() ends the service before it ends the loops.                        *)
(*                                                                         *)
(* A call has one reaction under way at a time: while its callback runs     *)
(* nothing else of it does, and the call is over only after it.             *)
(***************************************************************************)
EXTENDS Integers, Sequences, FiniteSets, SequencesExt

CONSTANTS
    Clients,
    MaxPublishers,
    MaxInvalid,
    MaxImport,       \* mMaximumImportQueueSize
    MaxPackets       \* bound: packets a client sends

ASSUME IngestAssumption ==
    /\ IsFiniteSet(Clients)
    /\ MaxPublishers \in Nat \ {0}
    /\ MaxInvalid \in Nat
    /\ MaxImport \in Nat \ {0}
    /\ MaxPackets \in Nat

VARIABLES
    \* The publish service; see PublishService.
    service, stopper, server, mServerStarted, mKeepRunning, mPublisherCount, utilization,
    reader, mRegistered, nPublishers, session, response, status, log, overlapped,
    \* The data path; see PacketPipeline.
    callback,        \* where addPacketCallback() is for each client
    propagating,     \* the broker's mKeepRunning
    sent, nPopped, importQueue, propagator, packet, counter, publishQueue, storeQueue,
    metrics, accepted, dropped,
    \* Observers, read by no action:
    base,            \* per client, the packets it had sent before its call
    entered          \* packets that were put on the import queue

serviceVars  == <<service, stopper, server, mServerStarted, mKeepRunning, mPublisherCount,
                  utilization, reader, mRegistered, nPublishers, session, response, status,
                  log, overlapped>>
pipelineVars == <<callback, propagating, sent, nPopped, importQueue, propagator, packet,
                  counter, publishQueue, storeQueue, metrics, accepted, dropped>>
observers    == <<base, entered>>
vars == <<serviceVars, pipelineVars, observers>>

\* stop() is called on a service that runs.
PS == INSTANCE PublishService WITH Secured <- FALSE, Orderly <- TRUE

\* The service accepts packets until its stop() has returned; start() launches no
\* publishPackets() thread.
PP == INSTANCE PacketPipeline WITH
    Publishers <- Clients, MaxPublish <- 1, MaxStore <- 1, FirstNumber <- 0,
    PublishThread <- FALSE, reader <- callback, mKeepRunning <- propagating,
    accepting <- (stopper # "done")

----------------------------------------------------------------------------
Init ==
    /\ PS!Init
    /\ callback = [r \in Clients |-> "idle"] /\ propagating = TRUE
    /\ sent = [r \in Clients |-> 0] /\ nPopped = [r \in Clients |-> 0]
    /\ importQueue = <<>> /\ publishQueue = <<>> /\ storeQueue = <<>>
    /\ propagator = "loop" /\ packet = <<>> /\ counter = 0
    /\ metrics = [total |-> 0, invalid |-> 0, added |-> 0, popped |-> 0]
    /\ accepted = 0 /\ dropped = 0
    /\ base = [r \in Clients |-> 0] /\ entered = {}

Idle(r) == callback[r] = "idle"

\* The service is started once.
Start ==
    /\ service = "none" /\ PS!Launch
    /\ UNCHANGED <<pipelineVars, observers>>

Serve == PS!Serve /\ UNCHANGED <<pipelineVars, observers>>

Connect(r) ==
    /\ PS!Connect(r, TRUE)
    /\ base' = [base EXCEPT ![r] = sent[r]]
    /\ UNCHANGED <<pipelineVars, entered>>

\* The other reactions of a call.
React(r) ==
    /\ PS!React(r)
    /\ UNCHANGED <<pipelineVars, observers>>

ReadFailed(r) ==
    /\ Idle(r) /\ PS!ReadFailed(r)
    /\ UNCHANGED <<pipelineVars, observers>>

----------------------------------------------------------------------------
(***************************************************************************)
(* OnReadDone(true) and the callback it runs.                               *)
(***************************************************************************)
Call(r) ==
    /\ reader[r] = "reading"
    /\ UNCHANGED <<serviceVars, observers>>
    /\ PP!Receive(r, TRUE)

\* Faulty variant: the callback returns where it should throw.
RejectSilently(r) ==
    /\ Idle(r) /\ PS!PacketRead(r, "accepted") /\ PP!Receive(r, FALSE)
    /\ UNCHANGED observers

\* The callback throws std::invalid_argument.
Reject(r) ==
    /\ Idle(r) /\ PS!PacketRead(r, "invalid") /\ PP!Receive(r, FALSE)
    /\ UNCHANGED observers

Import(r) ==
    /\ UNCHANGED <<serviceVars, base>>
    /\ PP!Enqueue(r)
    /\ entered' = entered \cup ToSet(importQueue')

Return(r) ==
    /\ PS!PacketRead(r, "accepted") /\ PP!Count(r)
    /\ UNCHANGED observers

----------------------------------------------------------------------------
Propagate == UNCHANGED <<serviceVars, observers>> /\ PP!Propagate

(***************************************************************************)
(* stop(): the service, then the loops.                                     *)
(***************************************************************************)
StopService ==
    /\ \/ (PS!StopReading \/ PS!StopTest \/ PS!ShutdownReturns) /\ UNCHANGED pipelineVars
       \/ PS!StopReset /\ PP!StopService
    /\ UNCHANGED observers

\* Faulty variant: the loops end while the service is still on its way down.
StopLoopsFirst ==
    /\ stopper # "none" /\ propagating
    /\ propagating' = FALSE
    /\ UNCHANGED <<serviceVars, callback, sent, nPopped, importQueue, propagator, packet,
                   counter, publishQueue, storeQueue, metrics, accepted, dropped, observers>>

StopLoops ==
    /\ UNCHANGED <<serviceVars, observers>>
    /\ PP!StopLoops

----------------------------------------------------------------------------
OnReadDone(r) == Import(r) \/ Return(r)

Next ==
    /\ PS!Alive
    /\ \/ Start \/ Serve \/ StopService \/ StopLoops \/ Propagate
       \/ \E r \in Clients :
            Connect(r) \/ React(r) \/ ReadFailed(r) \/ Call(r) \/ Reject(r) \/ OnReadDone(r)

Spec == Init /\ [][Next]_vars

\* As in the two modules: threads and reactions are scheduled, Shutdown() ends the
\* open reads at its deadline, stop() goes on once called.  Clients promise nothing.
FairSpec ==
    /\ Spec
    /\ WF_vars(PS!Alive /\ Serve)
    /\ WF_vars(PS!Alive /\ stopper # "none" /\ StopService)
    /\ WF_vars(PS!Alive /\ StopLoops)
    /\ WF_vars(PS!Alive /\ Propagate)
    /\ \A r \in Clients : /\ WF_vars(PS!Alive /\ React(r))
                          /\ WF_vars(PS!Alive /\ server = "down" /\ ReadFailed(r))
                          /\ WF_vars(PS!Alive /\ OnReadDone(r))

----------------------------------------------------------------------------
\* Both parts keep their types.
TypeOK == PS!TypeOK /\ PP!TypeOK

Named(r, i) == [from |-> r, n |-> base[r] + i]

\* A client that resumes after the packet its response names leaves no gap and
\* repeats nothing: that packet reached the import queue, and none the client sent
\* after it did.  So for every call that ends with OK, and for every response that
\* was filled, by a shutdown that broke off a read too.
ResumeExact ==
    \A r \in Clients :
        (reader[r] = "finished" /\ (status[r] = "OK" \/ response[r] # PS!NewResponse)) =>
            /\ response[r].last # 0 => Named(r, response[r].last) \in entered
            /\ \A i \in (response[r].last + 1)..response[r].total : Named(r, i) \notin entered

\* When stop() ends the loops nothing comes in any more: no call is open and no
\* callback is under way, so what the propagator leaves behind is final.
QuietAfterStop ==
    ~propagating => \A r \in Clients : Idle(r) /\ reader[r] = "none"

\* stop() ends the calls, then the propagator, even if clients keep sending.
StopCompletes ==
    (stopper = "test") ~> \/ propagator = "done" /\ PS!AllGone
                          \/ ~PS!Alive

=============================================================================
