------------------------ MODULE PublishServiceProofs ------------------------
(***************************************************************************)
(* Theorems about PublishService, for any finite set of clients, any limits *)
(* and any number of packets.                                               *)
(***************************************************************************)
EXTENDS PublishService, FiniteSetTheorems, TLAPS

----------------------------------------------------------------------------
(***************************************************************************)
(* What a reader remembers of its packets.  No assumption on the callers.   *)
(***************************************************************************)

\* The types that hold whatever order start() and stop() are called in.
SessionTypes ==
    /\ reader \in [Clients -> {"none", "admitted", "registered", "reading", "finished",
                               "leaving"}]
    /\ session \in [Clients -> Session] /\ response \in [Clients -> Response]
    /\ status \in [Clients -> {"none", "OK", "RESOURCE_EXHAUSTED", "UNAUTHENTICATED",
                               "INVALID_ARGUMENT", "UNAVAILABLE"}]
    /\ log \in [Clients -> Seq(Outcome)]

\* Session s is what the packets of l lead to.
Remembers(s, l) ==
    /\ s.total = Len(l)
    /\ s.invalid = Cardinality(Indices(l, "invalid"))
    /\ s.streak = Cardinality(Streak(l))
    /\ IsLastAccepted(s.last, l)

\* A finished call has the truth in its response, or was broken off without one.
TruthOrNothing(r) ==
    reader[r] = "finished" =>
        \/ Tells(response[r], log[r])
        \/ /\ status[r] \in {"INVALID_ARGUMENT", "UNAVAILABLE"}
           /\ response[r] = NewResponse

\* The code throws a client out with the first packet past the maximum.
PurgedPastMaximum(r) ==
    /\ reader[r] = "reading" => Cardinality(Streak(log[r])) =< MaxInvalid
    /\ (reader[r] = "finished" /\ status[r] = "INVALID_ARGUMENT") =>
           Cardinality(Streak(log[r])) = MaxInvalid + 1

SessionInv ==
    /\ SessionTypes
    /\ \A r \in Clients :
         /\ Remembers(session[r], log[r])
         /\ reader[r] \in {"admitted", "registered"} => log[r] = <<>>
         /\ reader[r] \in {"admitted", "registered", "reading"} => response[r] = NewResponse
         /\ reader[r] = "reading" => session[r].streak =< MaxInvalid
         /\ TruthOrNothing(r)
         /\ PurgedPastMaximum(r)

\* A call that has had no packet.
LEMMA RemembersNothing == Remembers(NewSession, <<>>)
<1>1. Indices(<<>>, "invalid") = {} /\ Indices(<<>>, "accepted") = {} /\ Streak(<<>>) = {}
  BY DEF Indices, Streak
<1> QED BY <1>1, FS_EmptySet DEF Remembers, NewSession, IsLastAccepted

\* An answer that was never written is right for such a call.
LEMMA NothingToTell == Tells(NewResponse, <<>>)
<1>1. Indices(<<>>, "invalid") = {} /\ Indices(<<>>, "accepted") = {}
  BY DEF Indices
<1> QED BY <1>1, FS_EmptySet DEF Tells, NewResponse, IsLastAccepted

\* The positions of an outcome are finite and grow by the packet just read.
LEMMA IndicesAppend ==
  ASSUME NEW l \in Seq(Outcome), NEW o \in Outcome, NEW x \in Outcome
  PROVE  /\ Indices(l, x) \subseteq 1..Len(l)
         /\ IsFiniteSet(Indices(l, x))
         /\ Indices(Append(l, o), x) =
              IF o = x THEN Indices(l, x) \cup {Len(l) + 1} ELSE Indices(l, x)
<1>1. Indices(l, x) \subseteq 1..Len(l)
  BY DEF Indices
<1>2. IsFiniteSet(Indices(l, x))
  BY <1>1, FS_Interval, FS_Subset
<1>3. /\ Len(Append(l, o)) = Len(l) + 1
      /\ \A i \in 1..Len(l) : Append(l, o)[i] = l[i]
      /\ Append(l, o)[Len(l) + 1] = o
      /\ 1..(Len(l) + 1) = 1..Len(l) \cup {Len(l) + 1}
      /\ Len(l) + 1 \notin 1..Len(l)
  OBVIOUS
<1>4. Indices(Append(l, o), x) =
        IF o = x THEN Indices(l, x) \cup {Len(l) + 1} ELSE Indices(l, x)
  BY <1>3 DEF Indices
<1> QED BY <1>1, <1>2, <1>4

\* The counters follow the packets.
LEMMA RemembersAppend ==
  ASSUME NEW l \in Seq(Outcome), NEW o \in Outcome, NEW s \in Session, Remembers(s, l)
  PROVE  /\ AfterPacket(s, o) \in Session
         /\ Remembers(AfterPacket(s, o), Append(l, o))
<1> DEFINE m == Append(l, o)
<1> DEFINE t == AfterPacket(s, o)
<1> DEFINE n == Len(l) + 1
<1>0. /\ s.total \in Nat /\ s.invalid \in Nat /\ s.streak \in Nat /\ s.last \in Nat
      /\ Len(l) \in Nat /\ n \in Nat
      /\ "accepted" \in Outcome /\ "invalid" \in Outcome
      /\ "accepted" # "invalid"
  BY DEF Session, Outcome
<1>1. t \in Session
  BY <1>0 DEF Session, AfterPacket
<1>2. t.total = Len(m)
  BY <1>0 DEF AfterPacket, Remembers
<1>3. /\ Indices(l, "invalid") \subseteq 1..Len(l) /\ IsFiniteSet(Indices(l, "invalid"))
      /\ Indices(m, "invalid") =
           IF o = "invalid" THEN Indices(l, "invalid") \cup {n} ELSE Indices(l, "invalid")
      /\ Indices(l, "accepted") \subseteq 1..Len(l)
      /\ Indices(m, "accepted") =
           IF o = "accepted" THEN Indices(l, "accepted") \cup {n} ELSE Indices(l, "accepted")
  BY <1>0, IndicesAppend
<1>4. t.invalid = Cardinality(Indices(m, "invalid"))
  <2>1. n \notin Indices(l, "invalid")
    BY <1>0, <1>3
  <2>2. CASE o = "invalid"
    <3>1. Cardinality(Indices(m, "invalid")) = Cardinality(Indices(l, "invalid")) + 1
      BY <1>3, <2>1, <2>2, FS_AddElement
    <3> QED BY <1>0, <2>2, <3>1 DEF AfterPacket, Remembers
  <2>3. CASE o # "invalid"
    BY <1>3, <2>3 DEF AfterPacket, Remembers
  <2> QED BY <2>2, <2>3
<1>5. t.streak = Cardinality(Streak(m))
  <2>1. Streak(l) \subseteq Indices(l, "invalid") /\ IsFiniteSet(Streak(l))
    BY <1>3, FS_Subset DEF Streak
  <2>2. CASE o = "accepted"
    <3>1. \A i \in Indices(m, "invalid") : ~(n < i)
      BY <1>0, <1>3, <2>2
    <3>2. Streak(m) = {}
      BY <1>3, <2>2, <3>1 DEF Streak
    <3> QED BY <1>0, <2>2, <3>2, FS_EmptySet DEF AfterPacket
  <2>3. CASE o = "invalid"
    <3>1. \A j \in Indices(m, "accepted") : j < n
      BY <1>0, <1>3, <2>3
    <3>2. Streak(m) = Streak(l) \cup {n} /\ n \notin Streak(l)
      <4>1. n \notin Streak(l)
        BY <1>0, <1>3, <2>1
      <4>2. Indices(m, "accepted") = Indices(l, "accepted")
            /\ Indices(m, "invalid") = Indices(l, "invalid") \cup {n}
        BY <1>0, <1>3, <2>3
      <4> QED BY <3>1, <4>1, <4>2 DEF Streak
    <3>3. Cardinality(Streak(m)) = Cardinality(Streak(l)) + 1
      BY <2>1, <3>2, FS_AddElement
    <3> QED BY <1>0, <2>3, <3>3 DEF AfterPacket, Remembers
  <2>4. CASE o # "accepted" /\ o # "invalid"
    BY <1>3, <2>4 DEF AfterPacket, Remembers, Streak
  <2> QED BY <2>2, <2>3, <2>4
<1>6. IsLastAccepted(t.last, m)
  <2>1. CASE o = "accepted"
    <3>1. t.last = n
      BY <2>1 DEF AfterPacket, Remembers
    <3>2. \A i \in Indices(m, "accepted") : i =< n
      BY <1>0, <1>3, <2>1
    <3> QED BY <1>3, <2>1, <3>1, <3>2 DEF IsLastAccepted
  <2>2. CASE o # "accepted"
    BY <1>3, <2>2 DEF AfterPacket, Remembers, IsLastAccepted
  <2> QED BY <2>1, <2>2
<1> QED BY <1>1, <1>2, <1>4, <1>5, <1>6 DEF Remembers

\* The invariant of the calls holds at first.
LEMMA InitSession == Init => SessionInv
<1> SUFFICES ASSUME Init PROVE SessionInv
  OBVIOUS
<1>1. SessionTypes
  BY DEF Init, SessionTypes, NewSession, NewResponse, Session, Response, Outcome
<1>2. \A r \in Clients : /\ session[r] = NewSession /\ log[r] = <<>>
                         /\ reader[r] = "none" /\ status[r] = "none"
  BY DEF Init
<1> QED BY <1>1, <1>2, RemembersNothing
        DEF SessionInv, TruthOrNothing, PurgedPastMaximum

\* The invariant of a single call.
CallInv(r) ==
    /\ Remembers(session[r], log[r])
    /\ reader[r] \in {"admitted", "registered"} => log[r] = <<>>
    /\ reader[r] \in {"admitted", "registered", "reading"} => response[r] = NewResponse
    /\ reader[r] = "reading" => session[r].streak =< MaxInvalid
    /\ reader[r] = "finished" =>
            \/ Tells(response[r], log[r])
            \/ /\ status[r] \in {"INVALID_ARGUMENT", "UNAVAILABLE"}
               /\ response[r] = NewResponse
    /\ reader[r] = "reading" => Cardinality(Streak(log[r])) =< MaxInvalid
    /\ (reader[r] = "finished" /\ status[r] = "INVALID_ARGUMENT") =>
               Cardinality(Streak(log[r])) = MaxInvalid + 1

\* The invariant of the sessions is the one of each call.
LEMMA SessionInvCalls == SessionInv <=> (SessionTypes /\ \A r \in Clients : CallInv(r))
  BY DEF SessionInv, TruthOrNothing, PurgedPastMaximum, CallInv

\* Each step of a call keeps its invariant, and leaves the other calls alone.
LEMMA NextSession == SessionInv /\ [Next]_vars => SessionInv'
<1> SUFFICES ASSUME SessionInv, [Next]_vars PROVE SessionInv'
  OBVIOUS
<1> USE ServiceAssumption
<1>0. SessionTypes /\ \A r \in Clients : CallInv(r)
  BY SessionInvCalls
<1>a. SUFFICES SessionTypes' /\ \A r \in Clients : CallInv(r)'
  BY DEF SessionInv, TruthOrNothing, PurgedPastMaximum, CallInv
<1>s. ASSUME UNCHANGED <<reader, session, response, status, log>>
      PROVE  SessionTypes' /\ \A r \in Clients : CallInv(r)'
  BY <1>0, <1>s DEF SessionTypes, CallInv
<1>1. CASE UNCHANGED vars
  BY <1>1, <1>s DEF vars, callVars
<1>2. CASE Launch \/ Serve \/ Stop
  BY <1>2, <1>s DEF Launch, Serve, Stop, StartReset, BuildAndStart, BuildFails, MarkStarted,
     WaitReturns, WaitCrashes, StopReading, StopTest, ShutdownReturns, StopReset, callVars
<1>3. ASSUME NEW r \in Clients, NEW authorized \in BOOLEAN, Connect(r, authorized)
      PROVE  SessionTypes' /\ \A q \in Clients : CallInv(q)'
  <2>1. SessionTypes'
    <3>1. NewSession \in Session /\ NewResponse \in Response /\ <<>> \in Seq(Outcome)
      BY DEF NewSession, NewResponse, Session, Response
    <3>2. /\ session' \in [Clients -> Session] /\ response' \in [Clients -> Response]
          /\ log' \in [Clients -> Seq(Outcome)]
      BY <1>0, <1>3, <3>1 DEF SessionTypes, Connect
    <3>3. \E pc \in {"finished", "admitted"},
            st \in {"none", "RESOURCE_EXHAUSTED", "UNAUTHENTICATED"} :
              /\ reader' = [reader EXCEPT ![r] = pc]
              /\ status' = [status EXCEPT ![r] = st]
      BY <1>3 DEF Connect, Finish, Go
    <3> QED BY <1>0, <3>2, <3>3 DEF SessionTypes
  <2>2. /\ session'[r] = NewSession /\ log'[r] = <<>> /\ response'[r] = NewResponse
        /\ reader'[r] \in {"admitted", "finished"}
        /\ status'[r] \in {"none", "RESOURCE_EXHAUSTED", "UNAUTHENTICATED"}
    BY <1>0, <1>3 DEF SessionTypes, Connect, Finish, Go
  <2>3. CallInv(r)'
    BY <2>2, RemembersNothing, NothingToTell DEF CallInv
  <2>4. \A q \in Clients \ {r} : CallInv(q)'
    BY <1>0, <1>3 DEF SessionTypes, CallInv, Connect, Finish, Go
  <2> QED BY <2>1, <2>3, <2>4
<1>4. ASSUME NEW r \in Clients, NEW outcome \in Outcome, PacketRead(r, outcome)
      PROVE  SessionTypes' /\ \A q \in Clients : CallInv(q)'
  <2>0. session[r] \in Session /\ log[r] \in Seq(Outcome) /\ Remembers(session[r], log[r])
        /\ session[r].streak =< MaxInvalid /\ session[r].streak \in Nat
        /\ response[r] = NewResponse /\ response' = response
    BY <1>0, <1>4 DEF SessionTypes, CallInv, PacketRead, Session
  <2>1. /\ session'[r] = AfterPacket(session[r], outcome)
        /\ log'[r] = Append(log[r], outcome)
        /\ log'[r] # <<>>
    BY <1>0, <1>4, <2>0 DEF SessionTypes, PacketRead
  <2>2. session'[r] \in Session /\ Remembers(session'[r], log'[r])
    BY <2>0, <2>1, RemembersAppend
  <2>3. SessionTypes'
    <3>1. Append(log[r], outcome) \in Seq(Outcome) /\ AfterPacket(session[r], outcome) \in Session
      BY <2>0, <2>1, <2>2
    <3>2. /\ session' \in [Clients -> Session] /\ response' \in [Clients -> Response]
          /\ log' \in [Clients -> Seq(Outcome)]
      BY <1>0, <1>4, <3>1 DEF SessionTypes, PacketRead
    <3>3. \E pc \in {"finished", "reading"},
            st \in {status[r], "INVALID_ARGUMENT", "UNAVAILABLE"} :
              /\ reader' = [reader EXCEPT ![r] = pc]
              /\ status' = [status EXCEPT ![r] = st]
      <4>1. status = [status EXCEPT ![r] = status[r]]
        BY <1>0 DEF SessionTypes
      <4> QED BY <1>4, <4>1 DEF PacketRead, Finish, Go
    <3> QED BY <1>0, <3>2, <3>3 DEF SessionTypes
  <2>4. Remembers(session[r], log[r])'
    BY <2>2 DEF Remembers, IsLastAccepted, Indices, Streak
  <2>5. session'[r].streak = Cardinality(Streak(log'[r]))
    BY <2>2 DEF Remembers
  <2>6. session'[r].streak =
          IF outcome = "accepted" THEN 0
          ELSE IF outcome = "invalid" THEN session[r].streak + 1 ELSE session[r].streak
    BY <2>1 DEF AfterPacket
  <2>7. \/ /\ outcome = "invalid" /\ session'[r].streak > MaxInvalid
           /\ reader'[r] = "finished" /\ status'[r] = "INVALID_ARGUMENT"
        \/ /\ ~(outcome = "invalid" /\ session'[r].streak > MaxInvalid)
           /\ \/ reader'[r] = "reading"
              \/ reader'[r] = "finished" /\ status'[r] = "UNAVAILABLE"
    BY <1>0, <1>4 DEF SessionTypes, PacketRead, Finish, Go
  <2>8. CallInv(r)'
    <3>1. CASE /\ outcome = "invalid" /\ session'[r].streak > MaxInvalid
               /\ reader'[r] = "finished" /\ status'[r] = "INVALID_ARGUMENT"
      <4>1. session'[r].streak = MaxInvalid + 1
        BY <2>0, <2>6, <3>1
      <4> QED BY <2>0, <2>4, <2>5, <3>1, <4>1 DEF CallInv
    <3>2. CASE /\ ~(outcome = "invalid" /\ session'[r].streak > MaxInvalid)
               /\ \/ reader'[r] = "reading"
                  \/ reader'[r] = "finished" /\ status'[r] = "UNAVAILABLE"
      <4>1. session'[r].streak =< MaxInvalid
        BY <2>0, <2>6, <3>2
      <4> QED BY <2>0, <2>4, <2>5, <3>2, <4>1 DEF CallInv
    <3> QED BY <2>7, <3>1, <3>2
  <2>9. \A q \in Clients \ {r} : CallInv(q)'
    BY <1>0, <1>4 DEF SessionTypes, CallInv, PacketRead, Finish, Go
  <2> QED BY <2>3, <2>8, <2>9
<1>5. ASSUME NEW r \in Clients, ReadFailed(r)
      PROVE  SessionTypes' /\ \A q \in Clients : CallInv(q)'
  <2>0. session[r] \in Session /\ Remembers(session[r], log[r])
    BY <1>0 DEF SessionTypes, CallInv
  <2>1. SessionTypes'
    BY <1>0, <1>5, <2>0 DEF SessionTypes, ReadFailed, Finish, Go, Session, Response
  <2>2. /\ session'[r] = session[r] /\ log'[r] = log[r] /\ reader'[r] = "finished"
        /\ status'[r] \in {"OK", "UNAVAILABLE"}
        /\ response'[r].total = session[r].total /\ response'[r].invalid = session[r].invalid
        /\ response'[r].last = session[r].last
    BY <1>0, <1>5 DEF SessionTypes, ReadFailed, Finish, Go
  <2>3. CallInv(r)'
    BY <2>0, <2>2 DEF CallInv, Remembers, Tells
  <2>4. \A q \in Clients \ {r} : CallInv(q)'
    BY <1>0, <1>5 DEF SessionTypes, CallInv, ReadFailed, Finish, Go
  <2> QED BY <2>1, <2>3, <2>4
<1>6. ASSUME NEW r \in Clients, React(r)
      PROVE  SessionTypes' /\ \A q \in Clients : CallInv(q)'
  <2>1. CASE Register(r)
    BY <1>0, <2>1 DEF SessionTypes, CallInv, Register, Go
  <2>2. CASE StartReading(r)
    <3>1. SessionTypes'
      BY <1>0, <2>2 DEF SessionTypes, StartReading, Finish, Go
    <3>2. /\ log[r] = <<>> /\ response[r] = NewResponse /\ Remembers(session[r], log[r])
          /\ session'[r] = session[r] /\ log'[r] = log[r] /\ response'[r] = response[r]
          /\ \/ reader'[r] = "reading"
             \/ reader'[r] = "finished" /\ status'[r] = "OK"
      BY <1>0, <2>2 DEF SessionTypes, CallInv, StartReading, Finish, Go
    <3>3. Cardinality(Streak(log[r])) = 0 /\ session[r].streak = 0
      <4>1. Streak(<<>>) = {}
        BY DEF Streak, Indices
      <4> QED BY <3>2, <4>1, FS_EmptySet DEF Remembers
    <3>4. CallInv(r)'
      BY <3>2, <3>3, NothingToTell DEF CallInv
    <3>5. \A q \in Clients \ {r} : CallInv(q)'
      BY <1>0, <2>2 DEF SessionTypes, CallInv, StartReading, Finish, Go
    <3> QED BY <3>1, <3>4, <3>5
  <2>d. ASSUME Delete(r) PROVE SessionTypes' /\ \A q \in Clients : CallInv(q)'
    <3>1. SessionTypes'
      BY <1>0, <2>d DEF SessionTypes, Delete, Go, NewSession, NewResponse, Session, Response
    <3>2. session'[r] = NewSession /\ log'[r] = <<>> /\ reader'[r] = "none"
      BY <1>0, <2>d DEF SessionTypes, Delete, Go
    <3>3. CallInv(r)'
      BY <3>2, RemembersNothing DEF CallInv
    <3>4. \A q \in Clients \ {r} : CallInv(q)'
      BY <1>0, <2>d DEF SessionTypes, CallInv, Delete, Go
    <3> QED BY <3>1, <3>3, <3>4
  <2>3. CASE OnDone(r)
    <3>1. CASE mRegistered[r]
      <4>1. /\ reader' = [reader EXCEPT ![r] = "leaving"]
            /\ UNCHANGED <<session, response, status, log>>
        BY <2>3, <3>1 DEF OnDone, Go
      <4> QED BY <1>0, <4>1 DEF SessionTypes, CallInv
    <3>2. CASE ~mRegistered[r]
      BY <2>3, <2>d, <3>2 DEF OnDone
    <3> QED BY <3>1, <3>2
  <2>4. CASE Leave(r)
    BY <2>4, <2>d DEF Leave
  <2> QED BY <1>6, <2>1, <2>2, <2>3, <2>4 DEF React
<1> QED BY <1>1, <1>2, <1>3, <1>4, <1>5, <1>6 DEF Next

\* What a response says agrees with what became of the packets of the call, and a
\* call that ends with OK says it, whatever start() and stop() do.
THEOREM ResponsesTruthful == Spec => []ResponseTellsTruth
<1>1. SessionInv => ResponseTellsTruth
  BY DEF SessionInv, TruthOrNothing, ResponseTellsTruth
<1> QED BY InitSession, NextSession, <1>1, PTL DEF Spec

\* A client does not get past the maximum of invalid packets with no accepted one
\* in between, and nobody is thrown out for fewer.
THEOREM PurgeBounds == Spec => []PurgedForStreak
<1>1. SessionInv => PurgedForStreak
  BY ServiceAssumption DEF SessionInv, PurgedPastMaximum, PurgedForStreak
<1> QED BY InitSession, NextSession, <1>1, PTL DEF Spec

----------------------------------------------------------------------------
(***************************************************************************)
(* The count of publishers, when stop() is called once the server runs.     *)
(***************************************************************************)

\* The parts of TypeOK that the calls do not share with SessionTypes.
ServiceTypes ==
    /\ service \in {"none", "launched", "building", "built", "waiting", "ended",
                   "crashed"}
    /\ stopper \in {"none", "test", "shutdown", "reset", "done"}
    /\ server \in {"none", "up", "down"}
    /\ mServerStarted \in BOOLEAN /\ mKeepRunning \in BOOLEAN
    /\ mPublisherCount \in Nat /\ utilization \in 0..MaxPublishers
    /\ mRegistered \in [Clients -> BOOLEAN]
    /\ nPublishers \in [Clients -> Nat] /\ overlapped \in [Clients -> BOOLEAN]

\* A reader is counted from its registration to OnDone().
RegisteredReaders ==
    \A r \in Clients :
        /\ mRegistered[r] => reader[r] \in {"registered", "reading", "finished"}
        /\ reader[r] \in {"registered", "reading"} => mRegistered[r]

\* How far start() and stop() are, and which calls there can be then.
Phases ==
    /\ server = "up" => service \in {"built", "waiting"}
    /\ service \notin {"built", "waiting"} => AllGone
    /\ service \in {"none", "launched", "building", "built"} => stopper = "none"
    /\ (service = "waiting" /\ stopper \in {"none", "test"}) =>
           server = "up" /\ mServerStarted
    /\ service = "built" => server = "up"
    /\ stopper = "test" => service = "waiting"
    /\ stopper = "shutdown" => server = "down"
    /\ stopper \in {"reset", "done"} => AllGone /\ server # "up"

CountInv == SessionTypes /\ ServiceTypes /\ RegisteredReaders /\ Phases /\ CountExact

\* Nobody is counted when all readers are gone.
LEMMA NobodyCounted ==
  ASSUME RegisteredReaders, AllGone
  PROVE  Counted = {} /\ Cardinality(Counted) = 0
<1>1. Counted = {}
  BY DEF RegisteredReaders, AllGone, Counted
<1> QED BY <1>1, FS_EmptySet

\* The gauge stays in its range.
LEMMA ClampType == ASSUME NEW n \in Int PROVE Clamp(n) \in 0..MaxPublishers
  BY ServiceAssumption DEF Clamp

\* The invariant of the count holds at first.
LEMMA InitCount == Init => CountInv
<1> SUFFICES ASSUME Init PROVE CountInv
  OBVIOUS
<1>1. SessionTypes
  BY InitSession DEF SessionInv
<1>2. ServiceTypes /\ RegisteredReaders /\ Phases
  <2>1. ServiceTypes
    <3>1. mPublisherCount \in Nat /\ utilization \in 0..MaxPublishers
      BY ServiceAssumption DEF Init
    <3>2. /\ mRegistered \in [Clients -> BOOLEAN] /\ overlapped \in [Clients -> BOOLEAN]
          /\ mServerStarted \in BOOLEAN
          /\ mKeepRunning \in BOOLEAN
      BY Zenon DEF Init
    <3>3. nPublishers \in [Clients -> Nat]
      BY DEF Init
    <3> QED BY <3>1, <3>2, <3>3 DEF Init, ServiceTypes
  <2>2. RegisteredReaders
    BY DEF Init, RegisteredReaders
  <2>3. Phases
    BY DEF Init, Phases, AllGone
  <2> QED BY <2>1, <2>2, <2>3
<1>3. AllGone /\ mPublisherCount = 0
  BY DEF Init, AllGone
<1>4. CountExact
  BY <1>2, <1>3, NobodyCounted DEF CountExact
<1> QED BY <1>1, <1>2, <1>4 DEF CountInv

\* Each step keeps it: a reader that registers or is done changes the count
\* by one, and it is set to zero only when all readers are gone.
LEMMA NextCount == ASSUME Orderly PROVE CountInv /\ SessionInv /\ [Next]_vars => CountInv'
<1> SUFFICES ASSUME CountInv, SessionInv, [Next]_vars PROVE CountInv'
  OBVIOUS
<1> USE ServiceAssumption
<1>0. SessionTypes /\ ServiceTypes /\ RegisteredReaders /\ Phases /\ CountExact
  BY DEF CountInv
<1>t. SessionTypes'
  BY NextSession DEF SessionInv
<1>f. IsFiniteSet(Counted)
  BY FS_Subset DEF Counted
<1>c. Clamp(0) \in 0..MaxPublishers
  BY ClampType
<1>1. CASE UNCHANGED vars
  <2>1. ServiceTypes' /\ RegisteredReaders'
    BY <1>0, <1>1 DEF vars, serviceVars, countVars, callVars, ServiceTypes, RegisteredReaders
  <2>2. Phases'
    BY <1>0, <1>1 DEF vars, serviceVars, Phases, AllGone
  <2>3. CountExact'
    BY <1>0, <1>1 DEF vars, countVars, callVars, CountExact, Counted
  <2> QED BY <1>t, <2>1, <2>2, <2>3 DEF CountInv
<1>2. CASE Launch
  BY <1>0, <1>2, <1>t DEF Launch, countVars, callVars, CountInv, ServiceTypes,
     RegisteredReaders, Phases, AllGone, CountExact, Counted
<1>3. CASE Serve
  <2>1. CASE StartReset
    <3>1. AllGone
      BY <1>0, <2>1 DEF StartReset, Phases
    <3>2. ServiceTypes' /\ RegisteredReaders' /\ Phases'
      BY <1>0, <1>c, <2>1, <3>1 DEF StartReset, callVars, ServiceTypes, RegisteredReaders,
         Phases, AllGone
    <3>3. CountExact'
      <4>1. Cardinality(Counted) = 0
        BY <1>0, <3>1, NobodyCounted
      <4>2. Counted' = Counted /\ mPublisherCount' = 0
        BY <2>1 DEF StartReset, callVars, Counted
      <4> QED BY <4>1, <4>2 DEF CountExact
    <3> QED BY <1>t, <3>2, <3>3 DEF CountInv
  <2>2. CASE BuildAndStart
    BY <1>0, <1>t, <2>2 DEF BuildAndStart, countVars, callVars, CountInv, ServiceTypes,
       RegisteredReaders, Phases, AllGone, CountExact, Counted
  <2>3. CASE MarkStarted
    BY <1>0, <1>t, <2>3 DEF MarkStarted, countVars, callVars, CountInv, ServiceTypes,
       RegisteredReaders, Phases, AllGone, CountExact, Counted
  <2>4. CASE WaitReturns
    BY <1>0, <1>t, <2>4 DEF WaitReturns, countVars, callVars, CountInv, ServiceTypes,
       RegisteredReaders, Phases, AllGone, CountExact, Counted
  <2>5. CASE BuildFails
    BY <1>0, <1>t, <2>5 DEF BuildFails, countVars, callVars, CountInv, ServiceTypes,
       RegisteredReaders, Phases, AllGone, CountExact, Counted
  <2>6. CASE WaitCrashes
    <3>1. AllGone /\ stopper \in {"reset", "done"}
      BY <1>0, <2>6 DEF WaitCrashes, Phases, ServiceTypes
    <3> QED BY <1>0, <1>t, <2>6, <3>1 DEF WaitCrashes, countVars, callVars, CountInv,
            ServiceTypes, RegisteredReaders, Phases, AllGone, CountExact, Counted
  <2> QED BY <1>3, <2>1, <2>2, <2>3, <2>4, <2>5, <2>6 DEF Serve
<1>4. CASE Stop
  <2>1. CASE StopReading
    BY <1>0, <1>t, <2>1 DEF StopReading, countVars, callVars, CountInv, ServiceTypes,
       RegisteredReaders, Phases, AllGone, CountExact, Counted
  <2>2. CASE StopTest
    BY <1>0, <1>t, <2>2 DEF StopTest, countVars, callVars, CountInv, ServiceTypes,
       RegisteredReaders, Phases, AllGone, CountExact, Counted
  <2>3. CASE ShutdownReturns
    BY <1>0, <1>t, <2>3 DEF ShutdownReturns, countVars, callVars, CountInv, ServiceTypes,
       RegisteredReaders, Phases, AllGone, CountExact, Counted
  <2>4. CASE StopReset
    <3>1. AllGone
      BY <1>0, <2>4 DEF StopReset, Phases
    <3>2. ServiceTypes' /\ RegisteredReaders' /\ Phases'
      BY <1>0, <1>c, <2>4, <3>1 DEF StopReset, callVars, ServiceTypes, RegisteredReaders,
         Phases, AllGone
    <3>3. CountExact'
      <4>1. Cardinality(Counted) = 0
        BY <1>0, <3>1, NobodyCounted
      <4>2. Counted' = Counted /\ mPublisherCount' = 0
        BY <2>4 DEF StopReset, callVars, Counted
      <4> QED BY <4>1, <4>2 DEF CountExact
    <3> QED BY <1>t, <3>2, <3>3 DEF CountInv
  <2> QED BY <1>4, <2>1, <2>2, <2>3, <2>4 DEF Stop
\* A step of reader r that leaves the count alone.
<1>5. ASSUME NEW r \in Clients, UNCHANGED serviceVars,
             UNCHANGED mPublisherCount,
             ServiceTypes', RegisteredReaders', Counted' = Counted,
             \A q \in Clients \ {r} : reader'[q] = reader[q],
             reader[r] = "none" => server = "up"
      PROVE  CountInv'
  <2>1. CountExact'
    BY <1>0, <1>5 DEF CountExact
  <2>2. AllGone => (AllGone' \/ server = "up")
    BY <1>5 DEF AllGone
  <2>3. Phases'
    <3>1. CASE AllGone
      BY <1>0, <1>5, <2>2, <3>1 DEF Phases, serviceVars
    <3>2. CASE ~AllGone
      BY <1>0, <1>5, <3>2 DEF Phases, serviceVars
    <3> QED BY <3>1, <3>2
  <2> QED BY <1>5, <1>t, <2>1, <2>3 DEF CountInv
<1>6. ASSUME NEW r \in Clients, NEW authorized \in BOOLEAN, Connect(r, authorized)
      PROVE  CountInv'
  <2>0. server = "up" /\ reader[r] = "none" /\ mRegistered[r] = FALSE
    BY <1>0, <1>6 DEF Connect, RegisteredReaders, ServiceTypes
  <2>1. mRegistered' = mRegistered
    BY <1>0, <1>6, <2>0 DEF Connect, ServiceTypes
  <2>2. /\ reader'[r] \in {"admitted", "finished"}
        /\ \A q \in Clients \ {r} : reader'[q] = reader[q]
    BY <1>0, <1>6 DEF Connect, Finish, Go, SessionTypes
  <2>3. ServiceTypes' /\ Counted' = Counted
    BY <1>0, <1>6, <2>1 DEF Connect, serviceVars, countVars, ServiceTypes, Counted
  <2>4. RegisteredReaders'
    BY <1>0, <2>0, <2>1, <2>2 DEF RegisteredReaders
  <2> QED BY <1>5, <1>6, <2>0, <2>2, <2>3, <2>4 DEF Connect, countVars
<1>7. ASSUME NEW r \in Clients, NEW outcome \in Outcome, PacketRead(r, outcome)
      PROVE  CountInv'
  <2>2. /\ reader'[r] \in {"reading", "finished"} /\ reader[r] = "reading"
        /\ \A q \in Clients \ {r} : reader'[q] = reader[q]
    BY <1>0, <1>7 DEF PacketRead, Finish, Go, SessionTypes
  <2>3. ServiceTypes' /\ Counted' = Counted /\ mRegistered' = mRegistered
    BY <1>0, <1>7 DEF PacketRead, serviceVars, countVars, ServiceTypes, Counted
  <2>4. RegisteredReaders'
    BY <1>0, <2>2, <2>3 DEF RegisteredReaders
  <2> QED BY <1>5, <1>7, <2>2, <2>3, <2>4 DEF PacketRead, countVars
<1>8. ASSUME NEW r \in Clients, ReadFailed(r)
      PROVE  CountInv'
  <2>2. /\ reader'[r] = "finished" /\ reader[r] = "reading"
        /\ \A q \in Clients \ {r} : reader'[q] = reader[q]
    BY <1>0, <1>8 DEF ReadFailed, Finish, Go, SessionTypes
  <2>3. ServiceTypes' /\ Counted' = Counted /\ mRegistered' = mRegistered
    BY <1>0, <1>8 DEF ReadFailed, serviceVars, countVars, ServiceTypes, Counted
  <2>4. RegisteredReaders'
    BY <1>0, <2>2, <2>3 DEF RegisteredReaders
  <2> QED BY <1>5, <1>8, <2>2, <2>3, <2>4 DEF ReadFailed, countVars
<1>9. ASSUME NEW r \in Clients, StartReading(r) \/ Leave(r)
      PROVE  CountInv'
  <2>1. Clamp(nPublishers[r]) \in 0..MaxPublishers
    <3>1. nPublishers[r] \in Int
      BY <1>0 DEF ServiceTypes
    <3> QED BY <3>1, ClampType
  <2>2. /\ \/ reader[r] = "registered" /\ reader'[r] \in {"reading", "finished"}
           \/ reader[r] = "leaving" /\ reader'[r] = "none"
        /\ \A q \in Clients \ {r} : reader'[q] = reader[q]
    BY <1>0, <1>9 DEF StartReading, Leave, Delete, Finish, Go, SessionTypes
  <2>3. /\ Counted' = Counted /\ mRegistered' = mRegistered
        /\ UNCHANGED serviceVars /\ UNCHANGED mPublisherCount
        /\ utilization' = Clamp(nPublishers[r])
        /\ nPublishers' \in [Clients -> Nat] /\ overlapped' \in [Clients -> BOOLEAN]
    <3>1. CASE StartReading(r)
      BY <1>0, <3>1 DEF StartReading, Counted, ServiceTypes
    <3>2. CASE Leave(r)
      <4>1. /\ nPublishers' = [nPublishers EXCEPT ![r] = 0]
            /\ overlapped' = [overlapped EXCEPT ![r] = FALSE]
            /\ utilization' = Clamp(nPublishers[r])
            /\ UNCHANGED <<serviceVars, mPublisherCount, mRegistered>>
        BY <3>2 DEF Leave, Delete
      <4> QED BY <1>0, <4>1 DEF Counted, ServiceTypes
    <3> QED BY <1>9, <3>1, <3>2
  <2>4. ServiceTypes' /\ RegisteredReaders'
    BY <1>0, <2>1, <2>2, <2>3 DEF serviceVars, ServiceTypes, RegisteredReaders
  <2> QED BY <1>5, <2>2, <2>3, <2>4
<1>10. ASSUME NEW r \in Clients, Register(r)
       PROVE  CountInv'
  <2>1. /\ reader[r] = "admitted" /\ reader'[r] = "registered" /\ ~mRegistered[r]
        /\ \A q \in Clients \ {r} : reader'[q] = reader[q]
    BY <1>0, <1>10 DEF Register, Go, SessionTypes, RegisteredReaders
  <2>2. /\ mRegistered' = [mRegistered EXCEPT ![r] = TRUE]
        /\ UNCHANGED serviceVars /\ utilization' = utilization
        /\ mPublisherCount' = mPublisherCount + 1
        /\ nPublishers' = [nPublishers EXCEPT ![r] = mPublisherCount + 1]
        /\ overlapped' \in [Clients -> BOOLEAN]
    BY <1>0, <1>10 DEF Register, ServiceTypes
  <2>3. ServiceTypes' /\ RegisteredReaders'
    BY <1>0, <2>1, <2>2 DEF serviceVars, ServiceTypes, RegisteredReaders
  <2>4. Counted' = Counted \cup {r} /\ r \notin Counted
    BY <1>0, <2>1, <2>2 DEF Counted, ServiceTypes
  <2>5. CountExact'
    BY <1>0, <1>f, <2>2, <2>4, FS_AddElement DEF CountExact
  <2>6. ~AllGone /\ ~AllGone'
    BY <2>1 DEF AllGone
  <2>7. Phases'
    BY <1>0, <2>2, <2>6 DEF Phases, serviceVars
  <2> QED BY <1>t, <2>3, <2>5, <2>7 DEF CountInv
<1>11. ASSUME NEW r \in Clients, OnDone(r)
       PROVE  CountInv'
  <2>1. CASE mRegistered[r]
    <3>1. /\ reader[r] = "finished" /\ reader'[r] = "leaving"
          /\ \A q \in Clients \ {r} : reader'[q] = reader[q]
      BY <1>0, <1>11, <2>1 DEF OnDone, Go, SessionTypes
    <3>2. /\ mRegistered' = [mRegistered EXCEPT ![r] = FALSE]
          /\ UNCHANGED serviceVars /\ utilization' = utilization
          /\ mPublisherCount' = mPublisherCount - 1
          /\ nPublishers' = [nPublishers EXCEPT ![r] = mPublisherCount - 1]
          /\ overlapped' = overlapped
      BY <1>11, <2>1 DEF OnDone
    <3>3. Counted' = Counted \ {r} /\ r \in Counted
      BY <1>0, <2>1, <3>2 DEF Counted, ServiceTypes
    <3>4. Cardinality(Counted') = Cardinality(Counted) - 1 /\ IsFiniteSet(Counted')
      BY <1>f, <3>3, FS_RemoveElement
    <3>5. Cardinality(Counted') \in Nat
      BY <3>4, FS_CardinalityType
    <3>6. CountExact' /\ mPublisherCount - 1 \in Nat
      BY <1>0, <3>2, <3>4, <3>5 DEF CountExact
    <3>7. ServiceTypes' /\ RegisteredReaders'
      BY <1>0, <3>1, <3>2, <3>6 DEF serviceVars, ServiceTypes, RegisteredReaders
    <3>8. ~AllGone /\ ~AllGone'
      BY <3>1 DEF AllGone
    <3>9. Phases'
      BY <1>0, <3>2, <3>8 DEF Phases, serviceVars
    <3> QED BY <1>t, <3>6, <3>7, <3>9 DEF CountInv
  <2>2. CASE ~mRegistered[r]
    <3>1. /\ reader[r] = "finished" /\ reader'[r] = "none"
          /\ \A q \in Clients \ {r} : reader'[q] = reader[q]
      BY <1>0, <1>11, <2>2 DEF OnDone, Delete, Go, SessionTypes
    <3>2. /\ mRegistered' = mRegistered /\ UNCHANGED serviceVars /\ utilization' = utilization
          /\ UNCHANGED mPublisherCount
          /\ nPublishers' \in [Clients -> Nat] /\ overlapped' \in [Clients -> BOOLEAN]
      <4>1. /\ nPublishers' = [nPublishers EXCEPT ![r] = 0]
            /\ overlapped' = [overlapped EXCEPT ![r] = FALSE]
            /\ UNCHANGED <<serviceVars, utilization, mPublisherCount, mRegistered>>
        BY <1>11, <2>2 DEF OnDone, Delete
      <4> QED BY <1>0, <4>1 DEF ServiceTypes
    <3>3. ServiceTypes' /\ RegisteredReaders' /\ Counted' = Counted
      BY <1>0, <2>2, <3>1, <3>2 DEF serviceVars, ServiceTypes, RegisteredReaders, Counted
    <3> QED BY <1>5, <3>1, <3>2, <3>3
  <2> QED BY <2>1, <2>2
<1> QED BY <1>1, <1>2, <1>3, <1>4, <1>6, <1>7, <1>8, <1>9, <1>10, <1>11 DEF Next, React

\* Variables keep their types and the count of publishers is not negative.
THEOREM PublishServiceTypes == ASSUME Orderly PROVE Spec => []TypeOK
<1>1. CountInv /\ SessionInv => TypeOK
  BY DEF CountInv, SessionInv, SessionTypes, ServiceTypes, TypeOK
<1> QED BY InitSession, NextSession, InitCount, NextCount, <1>1, PTL DEF Spec

\* The count that admits publishers is the number of publishers served.
THEOREM PlacesAccountedFor == ASSUME Orderly PROVE Spec => []CountExact
<1>1. CountInv => CountExact
  BY DEF CountInv
<1> QED BY InitSession, NextSession, InitCount, NextCount, <1>1, PTL DEF Spec

\* When stop() has returned nothing is read.
THEOREM StoppedMeansStopped == ASSUME Orderly PROVE Spec => []StopPreventsReading
<1>1. CountInv => StopPreventsReading
  BY DEF CountInv, Phases, AllGone, StopPreventsReading
<1> QED BY InitSession, NextSession, InitCount, NextCount, <1>1, PTL DEF Spec

----------------------------------------------------------------------------
(***************************************************************************)
(* The limit on publishers.                                                *)
(***************************************************************************)

\* The publishers served whose admission nobody else's overlapped.
Undisputed == {r \in Counted : ~overlapped[r]}

\* A reader that nobody has overtaken since it looked at the limit still finds
\* a place.
PlaceLeft ==
    \A r \in Clients :
        (reader[r] = "admitted" /\ ~overlapped[r]) => mPublisherCount < MaxPublishers

LimitInv == PlaceLeft /\ LimitExceededOnlyByOverlap

\* Fewer publishers cannot break the limit.
LEMMA FewerUndisputed ==
  ASSUME LimitExceededOnlyByOverlap, Undisputed' \subseteq Undisputed
  PROVE  LimitExceededOnlyByOverlap'
<1>1. IsFiniteSet(Undisputed)
  BY ServiceAssumption, FS_Subset DEF Undisputed, Counted
<1>2. /\ IsFiniteSet(Undisputed') /\ Cardinality(Undisputed') =< Cardinality(Undisputed)
      /\ Cardinality(Undisputed') \in Nat /\ Cardinality(Undisputed) \in Nat
  BY <1>1, FS_Subset, FS_CardinalityType
<1> QED BY <1>2, ServiceAssumption DEF LimitExceededOnlyByOverlap, Undisputed

\* Before the first publisher all places are free.
LEMMA InitLimit == Init => LimitInv
<1> SUFFICES ASSUME Init PROVE LimitInv
  OBVIOUS
<1>1. Undisputed = {}
  BY DEF Init, Undisputed, Counted
<1>2. Cardinality(Undisputed) =< MaxPublishers
  BY <1>1, FS_EmptySet, ServiceAssumption
<1> QED BY <1>2 DEF Init, LimitInv, PlaceLeft, LimitExceededOnlyByOverlap, Undisputed

\* Registering is the step that matters: a reader nobody overtook takes the place
\* that was left, and the readers it overtakes are marked.
LEMMA NextLimit ==
  ASSUME Orderly
  PROVE  LimitInv /\ CountInv /\ [Next]_vars => LimitInv'
<1> SUFFICES ASSUME LimitInv, CountInv, [Next]_vars PROVE LimitInv'
  OBVIOUS
<1> USE ServiceAssumption
<1>0. SessionTypes /\ ServiceTypes /\ RegisteredReaders /\ CountExact
      /\ PlaceLeft /\ LimitExceededOnlyByOverlap
  BY DEF CountInv, LimitInv
<1>1. ASSUME UNCHANGED <<reader, mRegistered, overlapped>>,
             mPublisherCount' = mPublisherCount \/ mPublisherCount' = 0
      PROVE  LimitInv'
  <2>1. Undisputed' = Undisputed
    BY <1>1 DEF Undisputed, Counted
  <2>2. PlaceLeft'
    BY <1>0, <1>1 DEF PlaceLeft
  <2> QED BY <1>0, <2>1, <2>2, FewerUndisputed DEF LimitInv
<1>2. CASE UNCHANGED vars
  BY <1>1, <1>2 DEF vars, countVars, callVars
<1>3. CASE Launch \/ Serve \/ Stop
  BY <1>1, <1>3 DEF Launch, Serve, Stop, StartReset, BuildAndStart, BuildFails, MarkStarted,
     WaitReturns, WaitCrashes, StopReading, StopTest, ShutdownReturns, StopReset, countVars,
     callVars
\* A step of reader r that neither admits nor registers it.
<1>4. ASSUME NEW r \in Clients, reader'[r] # "admitted",
             \A q \in Clients \ {r} : /\ reader'[q] = reader[q]
                                      /\ overlapped'[q] = overlapped[q]
                                      /\ mRegistered'[q] = mRegistered[q],
             mRegistered'[r] => (mRegistered[r] /\ overlapped'[r] = overlapped[r]),
             mPublisherCount' =< mPublisherCount, mPublisherCount' \in Int
      PROVE  LimitInv'
  <2>1. Undisputed' \subseteq Undisputed
    BY <1>4 DEF Undisputed, Counted
  <2>2. PlaceLeft'
    BY <1>0, <1>4 DEF PlaceLeft, ServiceTypes
  <2> QED BY <1>0, <2>1, <2>2, FewerUndisputed DEF LimitInv
<1>5. ASSUME NEW r \in Clients, NEW authorized \in BOOLEAN, Connect(r, authorized)
      PROVE  LimitInv'
  <2>1. /\ reader[r] = "none" /\ mRegistered[r] = FALSE /\ mRegistered' = mRegistered
        /\ mPublisherCount' = mPublisherCount
        /\ \A q \in Clients \ {r} : reader'[q] = reader[q] /\ overlapped'[q] = overlapped[q]
        /\ reader'[r] = "admitted" => mPublisherCount < MaxPublishers
    <3>1. reader[r] = "none" /\ mRegistered[r] = FALSE
      BY <1>0, <1>5 DEF Connect, RegisteredReaders, ServiceTypes
    <3>2. mRegistered' = mRegistered /\ mPublisherCount' = mPublisherCount
      BY <1>0, <1>5, <3>1 DEF Connect, ServiceTypes, countVars
    <3>3. \A q \in Clients \ {r} : reader'[q] = reader[q]
      BY <1>0, <1>5 DEF Connect, Finish, Go, SessionTypes
    <3>4. \A q \in Clients \ {r} : overlapped'[q] = overlapped[q]
      BY <1>0, <1>5 DEF Connect, ServiceTypes
    <3>5. reader'[r] = "admitted" => mPublisherCount < MaxPublishers
      BY <1>0, <1>5 DEF Connect, Finish, Go, SessionTypes, ServiceTypes
    <3> QED BY <3>1, <3>2, <3>3, <3>4, <3>5
  <2>2. Undisputed' \subseteq Undisputed
    BY <2>1 DEF Undisputed, Counted
  <2>3. PlaceLeft'
    BY <1>0, <2>1 DEF PlaceLeft
  <2> QED BY <1>0, <2>2, <2>3, FewerUndisputed DEF LimitInv
<1>6. ASSUME NEW r \in Clients, NEW outcome \in Outcome, PacketRead(r, outcome)
      PROVE  LimitInv'
  <2>1. /\ reader'[r] # "admitted" /\ UNCHANGED <<mRegistered, overlapped, mPublisherCount>>
        /\ \A q \in Clients \ {r} : reader'[q] = reader[q]
    BY <1>0, <1>6 DEF PacketRead, Finish, Go, SessionTypes, countVars
  <2> QED BY <1>0, <1>4, <2>1 DEF ServiceTypes
<1>7. ASSUME NEW r \in Clients, ReadFailed(r)
      PROVE  LimitInv'
  <2>1. /\ reader'[r] # "admitted" /\ UNCHANGED <<mRegistered, overlapped, mPublisherCount>>
        /\ \A q \in Clients \ {r} : reader'[q] = reader[q]
    BY <1>0, <1>7 DEF ReadFailed, Finish, Go, SessionTypes, countVars
  <2> QED BY <1>0, <1>4, <2>1 DEF ServiceTypes
<1>8. ASSUME NEW r \in Clients, StartReading(r)
      PROVE  LimitInv'
  <2>1. /\ reader'[r] # "admitted" /\ UNCHANGED <<mRegistered, overlapped, mPublisherCount>>
        /\ \A q \in Clients \ {r} : reader'[q] = reader[q]
    BY <1>0, <1>8 DEF StartReading, Finish, Go, SessionTypes
  <2> QED BY <1>0, <1>4, <2>1 DEF ServiceTypes
<1>9. ASSUME NEW r \in Clients, OnDone(r)
      PROVE  LimitInv'
  <2>1. CASE mRegistered[r]
    <3>1. /\ reader'[r] # "admitted" /\ overlapped' = overlapped
          /\ mRegistered' = [mRegistered EXCEPT ![r] = FALSE]
          /\ mPublisherCount' = mPublisherCount - 1
          /\ \A q \in Clients \ {r} : reader'[q] = reader[q]
      BY <1>0, <1>9, <2>1 DEF OnDone, Go, SessionTypes
    <3>2. /\ mRegistered'[r] = FALSE
          /\ \A q \in Clients \ {r} : mRegistered'[q] = mRegistered[q]
      BY <1>0, <3>1 DEF ServiceTypes
    <3>3. mPublisherCount' =< mPublisherCount /\ mPublisherCount' \in Int
      BY <1>0, <3>1 DEF ServiceTypes
    <3> QED BY <1>4, <3>1, <3>2, <3>3
  <2>2. CASE ~mRegistered[r]
    <3>1. /\ reader'[r] # "admitted" /\ UNCHANGED <<mRegistered, mPublisherCount>>
          /\ overlapped' = [overlapped EXCEPT ![r] = FALSE]
          /\ \A q \in Clients \ {r} : reader'[q] = reader[q]
      BY <1>0, <1>9, <2>2 DEF OnDone, Delete, Go, SessionTypes
    <3>2. \A q \in Clients \ {r} : overlapped'[q] = overlapped[q]
      BY <1>0, <3>1 DEF ServiceTypes
    <3>3. mPublisherCount' =< mPublisherCount /\ mPublisherCount' \in Int
      BY <1>0, <3>1 DEF ServiceTypes
    <3> QED BY <1>4, <2>2, <3>1, <3>2, <3>3
  <2> QED BY <2>1, <2>2
<1>10. ASSUME NEW r \in Clients, Leave(r)
       PROVE  LimitInv'
  <2>1. /\ reader'[r] # "admitted" /\ UNCHANGED <<mRegistered, mPublisherCount>>
        /\ ~mRegistered[r] /\ overlapped' = [overlapped EXCEPT ![r] = FALSE]
        /\ \A q \in Clients \ {r} : reader'[q] = reader[q]
    BY <1>0, <1>10 DEF Leave, Delete, Go, SessionTypes, RegisteredReaders
  <2>2. \A q \in Clients \ {r} : overlapped'[q] = overlapped[q]
    BY <1>0, <2>1 DEF ServiceTypes
  <2>3. mPublisherCount' =< mPublisherCount /\ mPublisherCount' \in Int
    BY <1>0, <2>1 DEF ServiceTypes
  <2> QED BY <1>4, <2>1, <2>2, <2>3
<1>11. ASSUME NEW r \in Clients, Register(r)
       PROVE  LimitInv'
  <2>1. /\ reader[r] = "admitted" /\ reader'[r] = "registered" /\ ~mRegistered[r]
        /\ \A q \in Clients \ {r} : reader'[q] = reader[q]
        /\ mRegistered' = [mRegistered EXCEPT ![r] = TRUE]
        /\ \A q \in Clients : overlapped'[q] <=> (overlapped[q] \/ (q # r /\ reader[q] = "admitted"))
    BY <1>0, <1>11 DEF Register, Go, SessionTypes, RegisteredReaders
  <2>2. PlaceLeft'
    BY <2>1 DEF PlaceLeft
  <2>3. CASE overlapped[r]
    <3>1. \A q \in Clients : mRegistered[q] => reader[q] # "admitted"
      BY <1>0 DEF RegisteredReaders
    <3>2. Undisputed' \subseteq Undisputed
      BY <1>0, <2>1, <2>3, <3>1 DEF Undisputed, Counted, ServiceTypes
    <3> QED BY <1>0, <2>2, <3>2, FewerUndisputed DEF LimitInv
  <2>4. CASE ~overlapped[r]
    <3>1. Cardinality(Counted) < MaxPublishers /\ Cardinality(Counted) \in Nat
      BY <1>0, <2>1, <2>4 DEF PlaceLeft, CountExact, ServiceTypes
    <3>2. Counted' = Counted \cup {r} /\ r \notin Counted /\ IsFiniteSet(Counted)
      BY <1>0, <2>1, FS_Subset DEF Counted, ServiceTypes
    <3>3. IsFiniteSet(Counted') /\ Cardinality(Counted') = Cardinality(Counted) + 1
      BY <3>2, FS_AddElement
    <3>4. Undisputed' \subseteq Counted'
      BY DEF Undisputed, Counted
    <3>5. Cardinality(Undisputed') =< Cardinality(Counted') /\ Cardinality(Undisputed') \in Nat
      BY <3>3, <3>4, FS_Subset, FS_CardinalityType
    <3>6. Cardinality(Undisputed') =< MaxPublishers
      BY <3>1, <3>3, <3>5
    <3> QED BY <2>2, <3>6 DEF LimitInv, LimitExceededOnlyByOverlap, Undisputed
  <2> QED BY <2>3, <2>4
<1> QED BY <1>2, <1>3, <1>5, <1>6, <1>7, <1>8, <1>9, <1>10, <1>11 DEF Next, React

\* Only overlapping admissions take the broker past its limit on publishers.
THEOREM LimitExact == ASSUME Orderly PROVE Spec => []LimitExceededOnlyByOverlap
<1>1. LimitInv => LimitExceededOnlyByOverlap
  BY DEF LimitInv
<1> QED BY InitSession, NextSession, InitCount, NextCount, InitLimit, NextLimit, <1>1, PTL
        DEF Spec

=============================================================================
