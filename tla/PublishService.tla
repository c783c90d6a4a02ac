--------------------------- MODULE PublishService ---------------------------
(***************************************************************************)
(* The publish service of src/src/publishService.cpp.  start() runs a gRPC  *)
(* server in a thread of its own; every Publish call of a client gets an    *)
(* AsynchronousReader, whose reactions gRPC runs in its own threads; stop() *)
(* is called from yet another one.  They share mPublisherCount,             *)
(* mKeepRunning, mServerStarted and mServer without a lock, so every access *)
(* to one of these that matters is a step of its own.                       *)
(***************************************************************************)
EXTENDS Integers, Sequences, FiniteSets

CONSTANTS
    Clients,         \* publishers; each has at most one call open
    MaxPublishers,   \* mMaximumNumberOfPublishers
    MaxInvalid,      \* mMaximumConsecutiveInvalidMessages
    Secured,         \* mSecured, and an access token is set
    Orderly,         \* TRUE: stop() is called only once start() waits for the server
    MaxPackets       \* bound: packets a client sends in a call

ASSUME ServiceAssumption ==
    /\ IsFiniteSet(Clients)
    /\ MaxPublishers \in Nat \ {0}
    /\ MaxInvalid \in Nat
    /\ Secured \in BOOLEAN /\ Orderly \in BOOLEAN
    /\ MaxPackets \in Nat

VARIABLES
    service,          \* where start()'s thread is
    stopper,          \* where stop() is
    server,           \* mServer: "none", "up", or "down" once Shutdown() was called
    mServerStarted,
    mKeepRunning,
    mPublisherCount,
    utilization,      \* the MetricsSingleton gauge, as a number of publishers
    reader,           \* where each client's AsynchronousReader is, "none" without one
    mRegistered,      \* per reader
    nPublishers,      \* per reader, its local of that name
    session,          \* per reader, its counters and mLastPacketIdentifier
    response,         \* per reader, *mResponse
    status,           \* per reader, what it passed to Finish()
    \* Observers, read by no action:
    log,              \* per reader, what became of each packet it was sent
    overlapped        \* per reader, another registered since it looked at the limit

serviceVars == <<service, stopper, server, mServerStarted, mKeepRunning>>
countVars   == <<mPublisherCount, utilization>>
callVars    == <<mRegistered, nPublishers, session, response, status, log, overlapped>>
vars == <<serviceVars, countVars, reader, callVars>>

----------------------------------------------------------------------------
Outcome == {"accepted", "invalid", "error"}

\* Packets are numbered as the client sent them; 0 is no packet.
Session  == [total : Nat, invalid : Nat, streak : Nat, last : Nat]
Response == [total : Nat, invalid : Nat, last : Nat]

NewSession  == [total |-> 0, invalid |-> 0, streak |-> 0, last |-> 0]
NewResponse == [total |-> 0, invalid |-> 0, last |-> 0]

\* updatePublishServiceUtilization() keeps the gauge between 0 and 1.
Clamp(n) == IF n < 0 THEN 0 ELSE IF n > MaxPublishers THEN MaxPublishers ELSE n

Go(r, pc) == reader' = [reader EXCEPT ![r] = pc]

Finish(r, s) ==
    /\ Go(r, "finished")
    /\ status' = [status EXCEPT ![r] = s]

\* delete this: nothing of the call is left.
Delete(r) ==
    /\ Go(r, "none")
    /\ nPublishers' = [nPublishers EXCEPT ![r] = 0]
    /\ session' = [session EXCEPT ![r] = NewSession]
    /\ response' = [response EXCEPT ![r] = NewResponse]
    /\ status' = [status EXCEPT ![r] = "none"]
    /\ log' = [log EXCEPT ![r] = <<>>]
    /\ overlapped' = [overlapped EXCEPT ![r] = FALSE]

AllGone == \A r \in Clients : reader[r] = "none"

\* The process has not used a server that is not there.
Alive == service # "crashed"

----------------------------------------------------------------------------
Init ==
    /\ service = "none" /\ stopper = "none" /\ server = "none"
    /\ mServerStarted = FALSE /\ mKeepRunning = TRUE
    /\ mPublisherCount = 0 /\ utilization = 0
    /\ reader = [r \in Clients |-> "none"]
    /\ mRegistered = [r \in Clients |-> FALSE]
    /\ nPublishers = [r \in Clients |-> 0]
    /\ session = [r \in Clients |-> NewSession]
    /\ response = [r \in Clients |-> NewResponse]
    /\ status = [r \in Clients |-> "none"]
    /\ log = [r \in Clients |-> <<>>]
    /\ overlapped = [r \in Clients |-> FALSE]

(***************************************************************************)
(* start(): the caller launches the thread, which comes to run later.       *)
(***************************************************************************)
Launch ==
    /\ service \in {"none", "ended"} /\ stopper \in {"none", "done"}
    /\ service' = "launched"
    /\ stopper' = "none"
    /\ UNCHANGED <<server, mServerStarted, mKeepRunning, countVars, reader, callVars>>

StartReset ==
    /\ service = "launched"
    /\ mKeepRunning' = TRUE
    /\ mPublisherCount' = 0
    /\ utilization' = Clamp(0)
    /\ service' = "building"
    /\ UNCHANGED <<stopper, server, mServerStarted, reader, callVars>>

BuildAndStart ==
    /\ service = "building"
    /\ server' = "up"
    /\ service' = "built"
    /\ UNCHANGED <<stopper, mServerStarted, mKeepRunning, countVars, reader, callVars>>

\* BuildAndStart() returns null, for instance because the port is taken, and
\* start() calls Wait() through it.
BuildFails ==
    /\ service = "building"
    /\ service' = "crashed"
    /\ UNCHANGED <<stopper, server, mServerStarted, mKeepRunning, countVars, reader, callVars>>

MarkStarted ==
    /\ service = "built"
    /\ mServerStarted' = TRUE
    /\ service' = "waiting"
    /\ UNCHANGED <<stopper, server, mKeepRunning, countVars, reader, callVars>>

\* Wait() returns when the server has shut down, its calls included.
WaitReturns ==
    /\ service = "waiting" /\ server # "up" /\ AllGone
    /\ mServerStarted' = FALSE
    /\ service' = "ended"
    /\ UNCHANGED <<stopper, server, mKeepRunning, countVars, reader, callVars>>

\* stop() destroyed the server before Wait() was called or had returned, which
\* is undefined: the other outcome is that Wait() has seen enough to return.
WaitCrashes ==
    /\ service = "waiting" /\ server = "none"
    /\ service' = "crashed"
    /\ UNCHANGED <<stopper, server, mServerStarted, mKeepRunning, countVars, reader, callVars>>

(***************************************************************************)
(* stop().                                                                 *)
(***************************************************************************)
StopReading ==
    /\ stopper = "none" /\ service # "none"
    /\ Orderly => service = "waiting"
    /\ mKeepRunning' = FALSE
    /\ stopper' = "test"
    /\ UNCHANGED <<service, server, mServerStarted, countVars, reader, callVars>>

\* Faulty variant: the count is reset before the calls have ended.
StopTestResetsFirst ==
    /\ stopper = "test"
    /\ IF server = "up" /\ mServerStarted
       THEN server' = "down" /\ stopper' = "shutdown"
       ELSE server' = server /\ stopper' = "reset"
    /\ mPublisherCount' = 0
    /\ UNCHANGED <<service, mServerStarted, mKeepRunning, utilization, reader, callVars>>

\* Faulty variant: relies on the readers to see mKeepRunning.
StopTestNoShutdown ==
    /\ stopper = "test"
    /\ stopper' = IF server = "up" /\ mServerStarted THEN "done" ELSE "reset"
    /\ UNCHANGED <<service, server, mServerStarted, mKeepRunning, countVars, reader, callVars>>

\* Shutdown() only if the server is known to run: it refuses new calls at once.
StopTest ==
    /\ stopper = "test"
    /\ IF server = "up" /\ mServerStarted
       THEN server' = "down" /\ stopper' = "shutdown"
       ELSE server' = server /\ stopper' = "reset"
    /\ UNCHANGED <<service, mServerStarted, mKeepRunning, countVars, reader, callVars>>

\* Shutdown() cancels what is open at the deadline and returns when all is done.
ShutdownReturns ==
    /\ stopper = "shutdown" /\ AllGone
    /\ mServerStarted' = FALSE
    /\ server' = "none"
    /\ stopper' = "reset"
    /\ UNCHANGED <<service, mKeepRunning, countVars, reader, callVars>>

StopReset ==
    /\ stopper = "reset"
    /\ mPublisherCount' = 0
    /\ utilization' = Clamp(0)
    /\ stopper' = "done"
    /\ UNCHANGED <<service, server, mServerStarted, mKeepRunning, reader, callVars>>

(***************************************************************************)
(* Publish() and the constructor of AsynchronousReader: look at the limit   *)
(* and the token, then count the publisher, then report and read.           *)
(***************************************************************************)
\* Faulty variant: one publisher more than the limit.
ConnectOneMore(r, authorized) ==
    /\ server = "up" /\ reader[r] = "none"
    /\ IF mPublisherCount > MaxPublishers
       THEN Finish(r, "RESOURCE_EXHAUSTED")
       ELSE IF Secured /\ ~authorized
       THEN Finish(r, "UNAUTHENTICATED")
       ELSE Go(r, "admitted") /\ status' = [status EXCEPT ![r] = "none"]
    /\ mRegistered' = [mRegistered EXCEPT ![r] = FALSE]
    /\ session' = [session EXCEPT ![r] = NewSession]
    /\ response' = [response EXCEPT ![r] = NewResponse]
    /\ log' = [log EXCEPT ![r] = <<>>]
    /\ overlapped' = [overlapped EXCEPT ![r] = FALSE]
    /\ UNCHANGED <<serviceVars, countVars, nPublishers>>

Connect(r, authorized) ==
    /\ server = "up" /\ reader[r] = "none"
    /\ IF mPublisherCount >= MaxPublishers
       THEN Finish(r, "RESOURCE_EXHAUSTED")
       ELSE IF Secured /\ ~authorized
       THEN Finish(r, "UNAUTHENTICATED")
       ELSE Go(r, "admitted") /\ status' = [status EXCEPT ![r] = "none"]
    /\ mRegistered' = [mRegistered EXCEPT ![r] = FALSE]
    /\ session' = [session EXCEPT ![r] = NewSession]
    /\ response' = [response EXCEPT ![r] = NewResponse]
    /\ log' = [log EXCEPT ![r] = <<>>]
    /\ overlapped' = [overlapped EXCEPT ![r] = FALSE]
    /\ UNCHANGED <<serviceVars, countVars, nPublishers>>

Register(r) ==
    /\ reader[r] = "admitted"
    /\ mPublisherCount' = mPublisherCount + 1
    /\ nPublishers' = [nPublishers EXCEPT ![r] = mPublisherCount + 1]
    /\ mRegistered' = [mRegistered EXCEPT ![r] = TRUE]
    /\ overlapped' = [q \in Clients |-> overlapped[q] \/ (q # r /\ reader[q] = "admitted")]
    /\ Go(r, "registered")
    /\ UNCHANGED <<serviceVars, utilization, session, response, status, log>>

StartReading(r) ==
    /\ reader[r] = "registered"
    /\ utilization' = Clamp(nPublishers[r])
    /\ IF mKeepRunning THEN Go(r, "reading") /\ UNCHANGED status
                       ELSE Finish(r, "OK")
    /\ UNCHANGED <<serviceVars, mPublisherCount, mRegistered, nPublishers, session,
                   response, log, overlapped>>

(***************************************************************************)
(* OnReadDone(true): a packet, which the broker's callback accepts, finds   *)
(* invalid or fails on.                                                     *)
(***************************************************************************)
\* Faulty variant: an invalid packet becomes the last packet too.
AfterPacketPoisoned(s, outcome) ==
    [total   |-> s.total + 1,
     invalid |-> IF outcome = "invalid" THEN s.invalid + 1 ELSE s.invalid,
     streak  |-> IF outcome = "accepted" THEN 0
                 ELSE IF outcome = "invalid" THEN s.streak + 1 ELSE s.streak,
     last    |-> s.total + 1]

\* Faulty variant: whatever is not an invalid packet ends a series of them.
AfterPacketErrorResets(s, outcome) ==
    [total   |-> s.total + 1,
     invalid |-> IF outcome = "invalid" THEN s.invalid + 1 ELSE s.invalid,
     streak  |-> IF outcome = "invalid" THEN s.streak + 1 ELSE 0,
     last    |-> IF outcome = "accepted" THEN s.total + 1 ELSE s.last]

\* The reader's counters after one more packet.
AfterPacket(s, outcome) ==
    [total   |-> s.total + 1,
     invalid |-> IF outcome = "invalid" THEN s.invalid + 1 ELSE s.invalid,
     streak  |-> IF outcome = "accepted" THEN 0
                 ELSE IF outcome = "invalid" THEN s.streak + 1 ELSE s.streak,
     last    |-> IF outcome = "accepted" THEN s.total + 1 ELSE s.last]

PacketRead(r, outcome) ==
    /\ reader[r] = "reading" /\ Len(log[r]) < MaxPackets
    /\ session' = [session EXCEPT ![r] = AfterPacket(@, outcome)]
    /\ log' = [log EXCEPT ![r] = Append(@, outcome)]
    /\ IF outcome = "invalid" /\ session'[r].streak > MaxInvalid
       THEN Finish(r, "INVALID_ARGUMENT")
       ELSE IF mKeepRunning
       THEN Go(r, "reading") /\ UNCHANGED status
       ELSE Finish(r, "UNAVAILABLE")
    /\ UNCHANGED <<serviceVars, countVars, mRegistered, nPublishers, response, overlapped>>

\* Faulty variant: reads again when the read failed during a shutdown.
ReadFailedRetries(r) ==
    /\ reader[r] = "reading"
    /\ response' = [response EXCEPT ![r] = [total   |-> session[r].total,
                                            invalid |-> session[r].invalid,
                                            last    |-> session[r].last]]
    /\ IF mKeepRunning THEN Finish(r, "OK") ELSE Go(r, "reading") /\ UNCHANGED status
    /\ UNCHANGED <<serviceVars, countVars, mRegistered, nPublishers, session, log,
                   overlapped>>

\* OnReadDone(false): the client is done or gone, or Shutdown() cancelled it.
ReadFailed(r) ==
    /\ reader[r] = "reading"
    /\ response' = [response EXCEPT ![r] = [total   |-> session[r].total,
                                            invalid |-> session[r].invalid,
                                            last    |-> session[r].last]]
    /\ Finish(r, IF mKeepRunning THEN "OK" ELSE "UNAVAILABLE")
    /\ UNCHANGED <<serviceVars, countVars, mRegistered, nPublishers, session, log,
                   overlapped>>

\* Faulty variant: does not look at mRegistered.
OnDoneAlways(r) ==
    /\ reader[r] = "finished"
    /\ mPublisherCount' = mPublisherCount - 1
    /\ nPublishers' = [nPublishers EXCEPT ![r] = mPublisherCount - 1]
    /\ mRegistered' = [mRegistered EXCEPT ![r] = FALSE]
    /\ Go(r, "leaving")
    /\ UNCHANGED <<serviceVars, utilization, session, response, status, log, overlapped>>

\* OnDone(): a reader that was counted is no longer, and reports.
OnDone(r) ==
    /\ reader[r] = "finished"
    /\ IF mRegistered[r]
       THEN /\ mPublisherCount' = mPublisherCount - 1
            /\ nPublishers' = [nPublishers EXCEPT ![r] = mPublisherCount - 1]
            /\ mRegistered' = [mRegistered EXCEPT ![r] = FALSE]
            /\ Go(r, "leaving")
            /\ UNCHANGED <<session, response, status, log, overlapped>>
       ELSE Delete(r) /\ UNCHANGED <<mPublisherCount, mRegistered>>
    /\ UNCHANGED <<serviceVars, utilization>>

Leave(r) ==
    /\ reader[r] = "leaving"
    /\ utilization' = Clamp(nPublishers[r])
    /\ Delete(r)
    /\ UNCHANGED <<serviceVars, mPublisherCount, mRegistered>>

----------------------------------------------------------------------------
Serve == StartReset \/ BuildAndStart \/ BuildFails \/ MarkStarted \/ WaitReturns \/ WaitCrashes
Stop  == StopReading \/ StopTest \/ ShutdownReturns \/ StopReset

React(r) == Register(r) \/ StartReading(r) \/ OnDone(r) \/ Leave(r)

Next ==
    /\ Alive
    /\ \/ Launch
       \/ Serve
       \/ Stop
       \/ \E r \in Clients :
            \/ \E authorized \in BOOLEAN : Connect(r, authorized)
            \/ \E outcome \in Outcome : PacketRead(r, outcome)
            \/ ReadFailed(r)
            \/ React(r)

Spec == Init /\ [][Next]_vars

\* Threads and gRPC's reactions are scheduled, and Shutdown()'s deadline passes,
\* which ends the reads that are open.  Clients promise nothing.
FairSpec ==
    /\ Spec
    /\ WF_vars(Alive /\ Serve)
    /\ WF_vars(Alive /\ (StopTest \/ ShutdownReturns \/ StopReset))
    /\ \A r \in Clients : /\ WF_vars(Alive /\ React(r))
                           /\ WF_vars(Alive /\ server = "down" /\ ReadFailed(r))

----------------------------------------------------------------------------
\* Types; the number of publishers is never negative.
TypeOK ==
    /\ service \in {"none", "launched", "building", "built", "waiting", "ended",
                   "crashed"}
    /\ stopper \in {"none", "test", "shutdown", "reset", "done"}
    /\ server \in {"none", "up", "down"}
    /\ mServerStarted \in BOOLEAN /\ mKeepRunning \in BOOLEAN
    /\ mPublisherCount \in Nat /\ utilization \in 0..MaxPublishers
    /\ reader \in [Clients -> {"none", "admitted", "registered", "reading", "finished",
                               "leaving"}]
    /\ mRegistered \in [Clients -> BOOLEAN]
    /\ nPublishers \in [Clients -> Nat]
    /\ session \in [Clients -> Session] /\ response \in [Clients -> Response]
    /\ status \in [Clients -> {"none", "OK", "RESOURCE_EXHAUSTED", "UNAUTHENTICATED",
                               "INVALID_ARGUMENT", "UNAVAILABLE"}]
    /\ log \in [Clients -> Seq(Outcome)] /\ overlapped \in [Clients -> BOOLEAN]

Counted == {r \in Clients : mRegistered[r]}

\* mPublisherCount is the number of publishers being served, through failed
\* admissions, disconnections, stop() and start(): the limit neither leaks
\* places nor gives them away.
CountExact == mPublisherCount = Cardinality(Counted)

\* When stop() has returned, no publisher is being read.
StopPreventsReading ==
    stopper = "done" => \A r \in Clients : reader[r] # "reading"

Indices(l, outcome) == {i \in 1..Len(l) : l[i] = outcome}

\* Packet n is the last one of l that was accepted, 0 if none was.
IsLastAccepted(n, l) ==
    /\ n \in {0} \cup Indices(l, "accepted")
    /\ \A i \in Indices(l, "accepted") : i =< n

\* Answer a says what became of the packets of l.
Tells(a, l) ==
    /\ a.total = Len(l)
    /\ a.invalid = Cardinality(Indices(l, "invalid"))
    /\ IsLastAccepted(a.last, l)

\* A response that says anything is right: how many packets there were, how many of
\* them were invalid, and the last one the client need not send again.  A call that
\* ends with OK always says so.
ResponseTellsTruth ==
    \A r \in Clients :
        (reader[r] = "finished" /\ (status[r] = "OK" \/ response[r] # NewResponse)) =>
            Tells(response[r], log[r])

\* A client that the broker turns away because it shuts down learns the last packet
\* that was processed, to know where to start at another broker.  The documentation
\* of the response promises it; the code fills the response only after a failed
\* read, not when it sees the shutdown after a packet.
ShutdownNamesLast ==
    \A r \in Clients :
        (reader[r] = "finished" /\ status[r] = "UNAVAILABLE") =>
            IsLastAccepted(response[r].last, log[r])

\* The invalid packets since the last accepted one.
Streak(l) == {i \in Indices(l, "invalid") : \A j \in Indices(l, "accepted") : j < i}

\* A client that keeps sending invalid packets with no accepted one in between does
\* not get past the maximum, server errors among them or not; and nobody is thrown
\* out for invalid packets who has not sent the maximum since the last accepted one.
PurgedForStreak ==
    \A r \in Clients :
        /\ reader[r] = "reading" => Cardinality(Streak(log[r])) =< MaxInvalid
        /\ (reader[r] = "finished" /\ status[r] = "INVALID_ARGUMENT") =>
               Cardinality(Streak(log[r])) >= MaxInvalid

\* The last n packets of l were all invalid.
EndsInvalid(l, n) ==
    Len(l) >= n /\ \A i \in (Len(l) - n + 1)..Len(l) : l[i] = "invalid"

\* After as many consecutive invalid packets as the maximum the client is thrown out.
\* The option's documentation says so; the code compares with >.
PurgedAtMaximum ==
    MaxInvalid > 0 =>
        \A r \in Clients : reader[r] = "reading" => ~EndsInvalid(log[r], MaxInvalid)

\* stop() comes to an end and ends start()'s thread and all calls, even if no
\* client ever closes its stream; or the process dies of the server that stop()
\* destroyed.
StopCompletes ==
    (stopper = "test") ~> \/ stopper = "done" /\ service = "ended" /\ AllGone
                          \/ ~Alive

\* The limit is checked and the count raised in two steps, so more publishers may
\* be served than the maximum, but only by calls whose admissions overlapped: the
\* others, however many have come and gone, are within the limit.
LimitExceededOnlyByOverlap ==
    Cardinality({r \in Counted : ~overlapped[r]}) =< MaxPublishers

=============================================================================
