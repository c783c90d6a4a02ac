----------------------- MODULE BrokerLifecycleProofs -----------------------
(***************************************************************************)
(* Theorems about BrokerLifecycle, for any intervals and any number of      *)
(* chunks.                                                                 *)
(***************************************************************************)
EXTENDS BrokerLifecycle, TLAPS

\* The two flags are raised in order and never lowered once the threads run.
FlagsInv ==
    /\ main = "new" => (~mShutdownRequested /\ \A t \in Threads : thread[t] = "none")
    /\ main = "request" => ~mKeepRunning
    /\ mShutdownRequested => ~mKeepRunning

\* stop() has waited for the threads before the one it is at.
JoinedInv ==
    main = "join" => \A i \in 1..(at - 1) : ~Running(Futures[i])

LifecycleInv ==
    TypeOK /\ FlagsInv /\ ExitsOnlyOnStop /\ JoinedInv /\ NoThreadOutlivesBroker

\* The three threads, and the order stop() waits for them in.
LEMMA ThreadNames ==
  /\ Len(Futures) = 3
  /\ Threads = {Futures[1], Futures[2], Futures[3]}
  /\ Truncator \in Threads /\ Compactor \in Threads
  /\ \A i \in 1..3 : Futures[i] \in Threads
  BY DEF Futures, Threads, Truncator, Compactor, Propagator

\* The truncator's interval stays within its limits.
LEMMA AdaptedRange ==
  ASSUME NEW i \in MinimumInterval..InitialInterval, NEW b \in BOOLEAN
  PROVE  Adapted(i, b) \in MinimumInterval..InitialInterval
<1> USE LifecycleAssumption
<1>1. i \in Nat /\ i \div 2 \in Nat /\ i \div 2 =< i
  OBVIOUS
<1> QED BY <1>1 DEF Adapted

\* Before start() no thread runs and no flag is set.
LEMMA InitLifecycle == Init => LifecycleInv
<1> SUFFICES ASSUME Init PROVE LifecycleInv
  OBVIOUS
<1>1. TypeOK
  <2>1. /\ isOkay \in BOOLEAN /\ mInterrupted \in BOOLEAN /\ truncated \in BOOLEAN
        /\ mKeepRunning \in BOOLEAN /\ mShutdownRequested \in BOOLEAN
    BY Zenon DEF Init
  <2>2. /\ at \in 1..Len(Futures) /\ chunks \in 0..MaxChunks
        /\ interval \in MinimumInterval..InitialInterval
    BY LifecycleAssumption, ThreadNames DEF Init
  <2> QED BY <2>1, <2>2 DEF Init, TypeOK
<1> QED BY <1>1 DEF Init, LifecycleInv, FlagsInv, ExitsOnlyOnStop, JoinedInv,
        NoThreadOutlivesBroker

\* A step of thread t, or of none: a thread that has ended stays so, and one that
\* leaves its loop does so because of a flag.
LEMMA ThreadSteps ==
  ASSUME LifecycleInv, NEW t \in Threads, Running(t),
         NEW pc \in {"top", "work", "test", "parking", "blocked", "woken", "exited", "threw"},
         thread' = [thread EXCEPT ![t] = pc], pc = "exited" => ~mKeepRunning,
         UNCHANGED <<mainVars, mInterrupted, stopFlags, future, chunks>>,
         interval' \in MinimumInterval..InitialInterval, truncated' \in BOOLEAN
  PROVE  LifecycleInv'
<1> USE ThreadNames
<1>0. thread \in [Threads -> {"none", "top", "work", "test", "parking", "blocked", "woken",
                              "exited", "threw"}]
  BY DEF LifecycleInv, TypeOK
<1>1. TypeOK'
  BY <1>0 DEF LifecycleInv, TypeOK, mainVars, stopFlags
<1>2. FlagsInv'
  BY <1>0 DEF LifecycleInv, FlagsInv, Running, mainVars, stopFlags
<1>3. ExitsOnlyOnStop'
  BY <1>0 DEF LifecycleInv, ExitsOnlyOnStop, mainVars, stopFlags
<1>4. \A u \in Threads : ~Running(u) => ~Running(u)'
  BY <1>0 DEF Running
<1>5. JoinedInv'
  BY <1>4 DEF LifecycleInv, JoinedInv, mainVars, TypeOK
<1>6. NoThreadOutlivesBroker'
  BY <1>4 DEF LifecycleInv, NoThreadOutlivesBroker, mainVars
<1> QED BY <1>1, <1>2, <1>3, <1>5, <1>6 DEF LifecycleInv

\* The main thread and the threads keep the invariant.
LEMMA NextLifecycle == LifecycleInv /\ [Next]_vars => LifecycleInv'
<1> SUFFICES ASSUME LifecycleInv, [Next]_vars PROVE LifecycleInv'
  OBVIOUS
<1> USE ThreadNames, LifecycleAssumption
<1>0. TypeOK /\ FlagsInv /\ ExitsOnlyOnStop /\ JoinedInv /\ NoThreadOutlivesBroker
  BY DEF LifecycleInv
\* A step that leaves threads and flags alone and joins nobody.
<1>s. ASSUME UNCHANGED <<thread, stopFlags>>, TypeOK',
             main' \notin {"new", "request", "join", "ended"} \/ main' = main,
             main' = "join" => at' = at
      PROVE  LifecycleInv'
  <2>1. FlagsInv' /\ ExitsOnlyOnStop'
    BY <1>0, <1>s DEF FlagsInv, ExitsOnlyOnStop, stopFlags
  <2>2. JoinedInv' /\ NoThreadOutlivesBroker'
    BY <1>0, <1>s DEF JoinedInv, NoThreadOutlivesBroker, Running
  <2> QED BY <1>s, <2>1, <2>2 DEF LifecycleInv
<1>1. CASE UNCHANGED vars
  <2>1. TypeOK'
    BY <1>0, <1>1 DEF TypeOK, vars, mainVars, stopFlags, truncVars
  <2> QED BY <1>1, <1>s, <2>1 DEF vars, mainVars
<1>2. CASE Start
  <2>1. TypeOK'
    BY <1>0, <1>2 DEF TypeOK, Start, truncVars
  <2>2. /\ main' = "loop" /\ mShutdownRequested' = mShutdownRequested /\ ~mShutdownRequested
        /\ \A t \in Threads : thread'[t] = "top"
    BY <1>0, <1>2 DEF Start, FlagsInv
  <2> QED BY <2>1, <2>2 DEF LifecycleInv, FlagsInv, ExitsOnlyOnStop, JoinedInv,
          NoThreadOutlivesBroker
<1>3. CASE MainLoop
  <2>1. TypeOK'
    <3>1. isOkay' \in BOOLEAN
      BY <1>3, Zenon DEF MainLoop, InitialVerdict
    <3>2. at' \in 1..Len(Futures)
      BY <1>3 DEF MainLoop
    <3> QED BY <1>0, <1>3, <3>1, <3>2 DEF TypeOK, MainLoop, stopFlags, truncVars
  <2> QED BY <1>3, <1>s, <2>1 DEF MainLoop
<1>4. CASE CheckFuture
  <2>1. TypeOK'
    <3>1. /\ isOkay' \in BOOLEAN /\ main' \in {"check", "decide"} /\ at' \in 1..Len(Futures)
      BY <1>0, <1>4 DEF TypeOK, CheckFuture
    <3>2. future' \in [Threads -> {"none", "valid", "consumed"}]
      BY <1>0, <1>4 DEF TypeOK, CheckFuture
    <3> QED BY <1>0, <1>4, <3>1, <3>2 DEF TypeOK, CheckFuture, stopFlags, truncVars
  <2> QED BY <1>4, <1>s, <2>1 DEF CheckFuture
<1>5. CASE Decide
  <2>1. TypeOK'
    BY <1>0, <1>5 DEF TypeOK, Decide, stopFlags, truncVars
  <2> QED BY <1>5, <1>s, <2>1 DEF Decide
<1>6. CASE StopLoops
  <2>1. TypeOK'
    BY <1>0, <1>6 DEF TypeOK, StopLoops, truncVars
  <2> QED BY <1>0, <1>6, <2>1 DEF StopLoops, LifecycleInv, FlagsInv, ExitsOnlyOnStop, JoinedInv,
          NoThreadOutlivesBroker
<1>7. CASE RequestShutdown
  <2>1. TypeOK'
    BY <1>0, <1>7 DEF TypeOK, RequestShutdown, truncVars
  <2> QED BY <1>0, <1>7, <2>1 DEF RequestShutdown, LifecycleInv, FlagsInv, ExitsOnlyOnStop,
          JoinedInv, NoThreadOutlivesBroker
<1>8. CASE NotifyAll
  <2>1. TypeOK'
    BY <1>0, <1>8 DEF TypeOK, NotifyAll, stopFlags, truncVars
  <2>2. main' = "flush" /\ UNCHANGED stopFlags
        /\ \A t \in Threads : thread'[t] = "exited" => thread[t] = "exited"
    BY <1>8 DEF NotifyAll
  <2> QED BY <1>0, <2>1, <2>2 DEF LifecycleInv, FlagsInv, ExitsOnlyOnStop, JoinedInv,
          NoThreadOutlivesBroker, stopFlags
<1>9. CASE FlushStore
  <2>1. TypeOK'
    BY <1>0, <1>9 DEF TypeOK, FlushStore, stopFlags, truncVars
  <2> QED BY <1>0, <1>9, <2>1 DEF FlushStore, LifecycleInv, FlagsInv, ExitsOnlyOnStop, JoinedInv,
          NoThreadOutlivesBroker, stopFlags
<1>10. CASE JoinFuture
  <2>1. TypeOK'
    <3>1. main' \in {"aborted", "join", "ended"} /\ at' \in 1..Len(Futures)
      BY <1>0, <1>10 DEF TypeOK, JoinFuture
    <3>2. future' \in [Threads -> {"none", "valid", "consumed"}]
      BY <1>0, <1>10 DEF TypeOK, JoinFuture
    <3> QED BY <1>0, <1>10, <3>1, <3>2 DEF TypeOK, JoinFuture, stopFlags, truncVars
  <2>2. FlagsInv' /\ ExitsOnlyOnStop'
    BY <1>0, <1>10 DEF JoinFuture, FlagsInv, ExitsOnlyOnStop, stopFlags
  <2>3. /\ main = "join" /\ at \in 1..3 /\ thread' = thread
        /\ main' \in {"join", "ended"} => ~Running(Futures[at])
        /\ main' = "join" => at < 3 /\ at' = at + 1
        /\ main' = "ended" => at = 3
    BY <1>0, <1>10 DEF JoinFuture, TypeOK
  <2>4. main' \in {"join", "ended"} => \A i \in 1..at : ~Running(Futures[i])
    BY <1>0, <2>3 DEF JoinedInv
  <2>5. JoinedInv' /\ NoThreadOutlivesBroker'
    BY <2>3, <2>4 DEF JoinedInv, NoThreadOutlivesBroker, Running
  <2> QED BY <2>1, <2>2, <2>5 DEF LifecycleInv
<1>11. CASE Signal \/ Fill
  <2>1. TypeOK'
    <3>1. CASE Signal
      <4>1. mInterrupted' \in BOOLEAN
        BY <3>1, Zenon DEF Signal
      <4> QED BY <1>0, <3>1, <4>1 DEF TypeOK, Signal, mainVars, stopFlags, truncVars
    <3>2. CASE Fill
      BY <1>0, <3>2 DEF TypeOK, Fill, mainVars, stopFlags, truncVars
    <3> QED BY <1>11, <3>1, <3>2
  <2> QED BY <1>11, <1>s, <2>1 DEF Signal, Fill, mainVars
<1>12. ASSUME NEW t \in Threads, ThreadStep(t) \/ Throw(t)
       PROVE  LifecycleInv'
  <2>0. /\ interval \in MinimumInterval..InitialInterval /\ truncated \in BOOLEAN
        /\ mShutdownRequested => ~mKeepRunning
    BY <1>0 DEF TypeOK, FlagsInv
  <2>1. CASE LoopTop(t)
    BY <2>0, <2>1, ThreadSteps DEF LoopTop, Go, Running
  <2>2. CASE Work(t)
    BY <2>0, <2>2, ThreadSteps DEF Work, Go, Running, truncVars
  <2>3. CASE TestPredicate(t)
    BY <2>0, <2>3, ThreadSteps DEF TestPredicate, Go, Running, truncVars
  <2>4. CASE Block(t)
    BY <2>0, <2>4, ThreadSteps DEF Block, Go, Running, truncVars
  <2>5. CASE Timeout(t)
    BY <2>0, <2>5, ThreadSteps DEF Timeout, Go, Running, truncVars
  <2>6. CASE Wake(t)
    BY <2>0, <2>6, ThreadSteps DEF Wake, Go, Running, truncVars
  <2>7. CASE Throw(t)
    BY <2>0, <2>7, ThreadSteps DEF Throw, Go, Running, truncVars
  <2> QED BY <1>12, <2>1, <2>2, <2>3, <2>4, <2>5, <2>6, <2>7 DEF ThreadStep
<1>13. CASE TruncateChunk
  <2>1. TypeOK'
    BY <1>0, <1>13 DEF TypeOK, TruncateChunk, mainVars, stopFlags
  <2> QED BY <1>13, <1>s, <2>1 DEF TruncateChunk, mainVars
<1>14. CASE TruncateDone
  <2>1. interval' \in MinimumInterval..InitialInterval /\ truncated' \in BOOLEAN
    BY <1>0, <1>14, AdaptedRange DEF TruncateDone, TypeOK
  <2> QED BY <1>14, <2>1, ThreadSteps DEF TruncateDone, Go, Running
<1> QED BY <1>1, <1>2, <1>3, <1>4, <1>5, <1>6, <1>7, <1>8, <1>9, <1>10, <1>11, <1>12, <1>13,
        <1>14 DEF Next, Main, Truncation

\* Variables keep their types, and the truncator's interval its limits.
THEOREM LifecycleTypes == Spec => []TypeOK
<1>1. LifecycleInv => TypeOK
  BY DEF LifecycleInv
<1> QED BY InitLifecycle, NextLifecycle, <1>1, PTL DEF Spec

\* The broker is not gone before its threads are.
THEOREM ThreadsJoined == Spec => []NoThreadOutlivesBroker
<1>1. LifecycleInv => NoThreadOutlivesBroker
  BY DEF LifecycleInv
<1> QED BY InitLifecycle, NextLifecycle, <1>1, PTL DEF Spec

\* A thread leaves its loop only once stop() was called.
THEOREM NoSilentExit == Spec => []ExitsOnlyOnStop
<1>1. LifecycleInv => ExitsOnlyOnStop
  BY DEF LifecycleInv
<1> QED BY InitLifecycle, NextLifecycle, <1>1, PTL DEF Spec

=============================================================================
