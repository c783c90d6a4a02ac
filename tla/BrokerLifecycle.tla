-------------------------- MODULE BrokerLifecycle --------------------------
(***************************************************************************)
(* Start, supervision and shutdown: Process::handleMainThread() and stop()  *)
(* of src/src/main.cpp, and of src/src/broker.cpp start(),                  *)
(* checkFuturesOkay(), stop() and the loops of the three threads start()    *)
(* launches.  Two of them, the compactor and the truncator, sleep on        *)
(* mShutdownCondition between rounds; the propagator polls.                 *)
(*                                                                         *)
(* mShutdownMutex only keeps the two sleepers apart: stop() sets            *)
(* mShutdownRequested and notifies without it.  It is left out, which adds  *)
(* interleavings of the sleepers and takes none away.                       *)
(***************************************************************************)
EXTENDS Integers, Sequences

CONSTANTS
    MinimumInterval,   \* truncateDataStore()'s minimumInterval
    InitialInterval,   \* its initialInterval, getTruncationBaseInterval()
    MaxChunks          \* bound: chunks of packets in the store

\* The minimum is 10 ms; the base interval is a positive number of seconds.
ASSUME LifecycleAssumption ==
    /\ MinimumInterval \in Nat \ {0}
    /\ InitialInterval \in Nat /\ MinimumInterval =< InitialInterval
    /\ MaxChunks \in Nat

Compactor  == "DataStoreCompactorThread"
Truncator  == "DataStoreTruncatorThread"
Propagator == "PacketPropagatorThread"

\* The keys of mFuturesMap, in the order std::map iterates.
Futures  == <<Compactor, Truncator, Propagator>>
Sleepers == {Compactor, Truncator}
Threads  == {Compactor, Truncator, Propagator}

VARIABLES
    main,                \* where the main thread is
    at,                  \* the future it is at in checkFuturesOkay() or stop()
    isOkay,              \* checkFuturesOkay()'s local
    mInterrupted,
    mKeepRunning,
    mShutdownRequested,
    thread,              \* where each thread is
    future,              \* "none", "valid" or "consumed" by get()
    interval,            \* truncateDataStore()'s currentInterval
    truncated,           \* its nTotalTruncated is positive
    chunks               \* chunks of packets truncateOldest() can still purge

mainVars  == <<main, at, isOkay>>
stopFlags == <<mKeepRunning, mShutdownRequested>>
truncVars == <<interval, truncated>>
vars == <<mainVars, mInterrupted, stopFlags, thread, future, truncVars, chunks>>

Alive == main \notin {"ended", "aborted"}
Running(t) == thread[t] \notin {"none", "exited", "threw"}

----------------------------------------------------------------------------
Init ==
    /\ main = "new" /\ at = 1 /\ isOkay = FALSE
    /\ mInterrupted = FALSE
    /\ mKeepRunning = TRUE /\ mShutdownRequested = FALSE
    /\ thread = [t \in Threads |-> "none"]
    /\ future = [t \in Threads |-> "none"]
    /\ interval = InitialInterval /\ truncated = FALSE
    /\ chunks = 0

Go(t, pc) == thread' = [thread EXCEPT ![t] = pc]

(***************************************************************************)
(* The main thread.                                                        *)
(***************************************************************************)
Start ==
    /\ main = "new"
    /\ mKeepRunning' = TRUE
    /\ thread' = [t \in Threads |-> "top"]
    /\ future' = [t \in Threads |-> "valid"]
    /\ main' = "loop"
    /\ UNCHANGED <<at, isOkay, mInterrupted, mShutdownRequested, truncVars, chunks>>

Signal ==
    /\ Alive /\ ~mInterrupted
    /\ mInterrupted' = TRUE
    /\ UNCHANGED <<mainVars, stopFlags, thread, future, truncVars, chunks>>

\* What checkFuturesOkay() starts from; nothing in it sets it to true.
InitialVerdict == FALSE

MainLoop ==
    /\ main = "loop"
    /\ main' = IF mInterrupted THEN "stop" ELSE "check"
    /\ at' = 1
    /\ isOkay' = InitialVerdict
    /\ UNCHANGED <<mInterrupted, stopFlags, thread, future, truncVars, chunks>>

\* One iteration of checkFuturesOkay().  A ready future is consumed; one that
\* was consumed before makes wait_for() throw, like a thread that threw.
CheckFuture ==
    /\ main = "check"
    /\ LET t == Futures[at]
           ready == future[t] = "valid" /\ ~Running(t)
       IN  /\ future' = [future EXCEPT ![t] = IF ready THEN "consumed" ELSE @]
           /\ isOkay' = (isOkay /\ future[t] = "valid" /\ thread[t] # "threw")
    /\ at' = IF at < Len(Futures) THEN at + 1 ELSE 1
    /\ main' = IF at < Len(Futures) THEN "check" ELSE "decide"
    /\ UNCHANGED <<mInterrupted, stopFlags, thread, truncVars, chunks>>

Decide ==
    /\ main = "decide"
    /\ main' = IF isOkay THEN "loop" ELSE "stop"
    /\ UNCHANGED <<at, isOkay, mInterrupted, stopFlags, thread, future, truncVars, chunks>>

\* stop(), run by the destructor of the broker.
StopLoops ==
    /\ main = "stop"
    /\ mKeepRunning' = FALSE
    /\ main' = "request"
    /\ UNCHANGED <<at, isOkay, mInterrupted, mShutdownRequested, thread, future, truncVars,
                   chunks>>

RequestShutdown ==
    /\ main = "request"
    /\ mShutdownRequested' = TRUE
    /\ main' = "notify"
    /\ UNCHANGED <<at, isOkay, mInterrupted, mKeepRunning, thread, future, truncVars, chunks>>

NotifyAll ==
    /\ main = "notify"
    /\ thread' = [t \in Threads |-> IF thread[t] = "blocked" THEN "woken" ELSE thread[t]]
    /\ main' = "flush"
    /\ UNCHANGED <<at, isOkay, mInterrupted, stopFlags, future, truncVars, chunks>>

FlushStore ==
    /\ main = "flush"
    /\ main' = "join"
    /\ at' = 1
    /\ UNCHANGED <<isOkay, mInterrupted, stopFlags, thread, future, truncVars, chunks>>

\* Faulty variant: does not wait for the thread.
JoinFutureAtOnce ==
    /\ main = "join"
    /\ future' = [future EXCEPT ![Futures[at]] = "consumed"]
    /\ main' = IF at < Len(Futures) THEN "join" ELSE "ended"
    /\ at' = IF at < Len(Futures) THEN at + 1 ELSE 1
    /\ UNCHANGED <<isOkay, mInterrupted, stopFlags, thread, truncVars, chunks>>

\* get() waits for the thread.  It throws if the thread threw or the future was
\* consumed, and an exception out of a destructor ends the process.
JoinFuture ==
    /\ main = "join"
    /\ LET t == Futures[at]
           throws == future[t] # "valid" \/ thread[t] = "threw"
       IN  /\ throws \/ ~Running(t)
           /\ future' = [future EXCEPT ![t] = "consumed"]
           /\ main' = IF throws THEN "aborted"
                      ELSE IF at < Len(Futures) THEN "join" ELSE "ended"
    /\ at' = IF at < Len(Futures) THEN at + 1 ELSE 1
    /\ UNCHANGED <<isOkay, mInterrupted, stopFlags, thread, truncVars, chunks>>

(***************************************************************************)
(* The threads.  Each loop tests mKeepRunning at its top.                   *)
(***************************************************************************)
LoopTop(t) ==
    /\ Alive /\ thread[t] = "top"
    /\ Go(t, IF mKeepRunning THEN "work" ELSE "exited")
    /\ truncated' = IF t = Truncator THEN FALSE ELSE truncated
    /\ UNCHANGED <<mainVars, mInterrupted, stopFlags, future, interval, chunks>>

\* compact() and one round of propagatePacket().
Work(t) ==
    /\ Alive /\ thread[t] = "work" /\ t # Truncator
    /\ Go(t, IF t = Compactor THEN "test" ELSE "top")
    /\ UNCHANGED <<mainVars, mInterrupted, stopFlags, future, truncVars, chunks>>

\* An exception ends the thread and waits in its future.
Throw(t) ==
    /\ Alive /\ thread[t] = "work"
    /\ Go(t, "threw")
    /\ UNCHANGED <<mainVars, mInterrupted, stopFlags, future, truncVars, chunks>>

\* The store is too large: purge a chunk and look at the size again.
TruncateChunk ==
    /\ Alive /\ thread[Truncator] = "work" /\ chunks > 0
    /\ chunks' = chunks - 1
    /\ truncated' = TRUE
    /\ UNCHANGED <<mainVars, mInterrupted, stopFlags, thread, future, interval>>

\* Faulty variant: no lower limit.
AdaptedUnlimited(i, didTruncate) ==
    IF didTruncate THEN i \div 2
    ELSE IF i * 2 < InitialInterval THEN i * 2 ELSE InitialInterval

\* Halve the interval under pressure, down to the minimum; else double it, up to
\* the initial one.
Adapted(i, didTruncate) ==
    IF didTruncate
    THEN IF i \div 2 > MinimumInterval THEN i \div 2 ELSE MinimumInterval
    ELSE IF i * 2 < InitialInterval THEN i * 2 ELSE InitialInterval

\* The store is small enough, or a truncation purged nothing.
TruncateDone ==
    /\ Alive /\ thread[Truncator] = "work"
    /\ interval' = Adapted(interval, truncated)
    /\ Go(Truncator, "test")
    /\ UNCHANGED <<mainVars, mInterrupted, stopFlags, future, truncated, chunks>>

\* wait_for() tests the predicate, and only then blocks.
TestPredicate(t) ==
    /\ Alive /\ thread[t] = "test"
    /\ Go(t, IF mShutdownRequested THEN "exited" ELSE "parking")
    /\ UNCHANGED <<mainVars, mInterrupted, stopFlags, future, truncVars, chunks>>

Block(t) ==
    /\ Alive /\ thread[t] = "parking"
    /\ Go(t, "blocked")
    /\ UNCHANGED <<mainVars, mInterrupted, stopFlags, future, truncVars, chunks>>

\* Faulty variant: wait() instead of wait_for().
TimeoutNever(t) == FALSE /\ UNCHANGED vars

\* Faulty variant: the loop ends with the first timeout.
TimeoutLeaves(t) ==
    /\ Alive /\ thread[t] = "blocked"
    /\ Go(t, "exited")
    /\ UNCHANGED <<mainVars, mInterrupted, stopFlags, future, truncVars, chunks>>

\* The interval is over.
Timeout(t) ==
    /\ Alive /\ thread[t] = "blocked"
    /\ Go(t, IF mShutdownRequested THEN "exited" ELSE "top")
    /\ UNCHANGED <<mainVars, mInterrupted, stopFlags, future, truncVars, chunks>>

\* Notified: the predicate holds by then.
Wake(t) ==
    /\ Alive /\ thread[t] = "woken"
    /\ Go(t, IF mShutdownRequested THEN "exited" ELSE "blocked")
    /\ UNCHANGED <<mainVars, mInterrupted, stopFlags, future, truncVars, chunks>>

\* The store fills while the broker runs.
Fill ==
    /\ Alive /\ main # "new" /\ mKeepRunning
    /\ chunks < MaxChunks
    /\ chunks' = chunks + 1
    /\ UNCHANGED <<mainVars, mInterrupted, stopFlags, thread, future, truncVars>>

----------------------------------------------------------------------------
Main ==
    \/ Start \/ MainLoop \/ CheckFuture \/ Decide
    \/ StopLoops \/ RequestShutdown \/ NotifyAll \/ FlushStore \/ JoinFuture

ThreadStep(t) ==
    LoopTop(t) \/ Work(t) \/ TestPredicate(t) \/ Block(t) \/ Timeout(t) \/ Wake(t)

Truncation == TruncateChunk \/ TruncateDone

Next ==
    \/ Main
    \/ Signal
    \/ \E t \in Threads : ThreadStep(t) \/ Throw(t)
    \/ Truncation
    \/ Fill

Spec == Init /\ [][Next]_vars

\* Every thread is scheduled, a call of the store returns, an interval ends.
\* Signals, exceptions and new packets are not promised.
FairSpec ==
    /\ Spec
    /\ WF_vars(Main)
    /\ WF_vars(Truncation)
    /\ \A t \in Threads : WF_vars(ThreadStep(t))

----------------------------------------------------------------------------
\* Types, with the truncator's interval between the minimum and the initial one.
TypeOK ==
    /\ main \in {"new", "loop", "check", "decide", "stop", "request", "notify", "flush",
                 "join", "ended", "aborted"}
    /\ at \in 1..Len(Futures)
    /\ isOkay \in BOOLEAN /\ mInterrupted \in BOOLEAN
    /\ mKeepRunning \in BOOLEAN /\ mShutdownRequested \in BOOLEAN
    /\ thread \in [Threads -> {"none", "top", "work", "test", "parking", "blocked", "woken",
                               "exited", "threw"}]
    /\ future \in [Threads -> {"none", "valid", "consumed"}]
    /\ interval \in MinimumInterval..InitialInterval
    /\ truncated \in BOOLEAN
    /\ chunks \in 0..MaxChunks

\* When the broker is gone no thread of it runs: each was waited for, whatever
\* it was doing when stop() was called.
NoThreadOutlivesBroker ==
    main = "ended" => \A t \in Threads : ~Running(t)

\* A thread leaves its loop only because the broker stops: compaction,
\* truncation and propagation do not end silently.
ExitsOnlyOnStop ==
    \A t \in Threads : thread[t] = "exited" => ~mKeepRunning

\* stop() comes to an end, also when the notification came between a sleeper's
\* test of the predicate and its going to sleep.
StopCompletes == (main = "stop") ~> ~Alive

============================================================================
