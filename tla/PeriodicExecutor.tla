-------------------------- MODULE PeriodicExecutor --------------------------
(***************************************************************************)
(* One TPeriodicExecutor (lib/common/periodic_executor) on a TThreadPool:  *)
(* each Start begins a chain of pool tasks, each task calls the callback,  *)
(* sleeps and enqueues the next one.                                       *)
(*                                                                         *)
(* A task holds a weak reference; a worker turns it into a strong one for  *)
(* the whole call (ConvertWeakPtr in Bind).  The executor holds the        *)
(* invoker, the invoker holds the pool, so whoever releases the last       *)
(* strong reference of the executor may be the one to destroy the pool.    *)
(* References are counted by whole operations, as RefCount justifies, and  *)
(* the pool is what ThreadPool promises: a task is run by one worker.      *)
(*                                                                         *)
(* A worker's pc:                                                          *)
(*   idle      in the loop of the pool                                     *)
(*   lock      has a task, about to lock its weak reference                *)
(*   check     in Worker(), about to load StopFlag_                        *)
(*   call      found it clear, about to call Callback_                     *)
(*   callback  in Callback_                                                *)
(*   sleep     in sleep_for                                                *)
(*   schedule  in ScheduleNext, about to load StopFlag_                    *)
(*   enqueue   found it clear, about to enqueue                            *)
(*   release   the call is over, about to release the strong reference     *)
(***************************************************************************)
EXTENDS Naturals, FiniteSets

CONSTANTS
    Workers,        \* the pool's threads
    MaxStarts       \* bound on the Start calls of one behaviour

ASSUME PeriodicAssumption == IsFiniteSet(Workers) /\ MaxStarts \in Nat

VARIABLES
    stopFlag,       \* StopFlag_
    strong,         \* strong references to the executor
    alive,          \* it has not been destroyed
    ownerRef,       \* the owner still holds its reference to the executor
    ownerPool,      \* ... and its references to the invoker and the pool
    pool,           \* the pool: alive, joining in its destructor, or gone
    queue,          \* tasks of this executor in the pool's queue
    pc,             \* where each worker is
    starts,         \* number of Start calls
    threw,          \* number of callbacks that threw
    stopped,        \* the owner has called Stop
    tooLate,        \* workers whose task left the queue after that
    crashed         \* std::terminate was called

vars == <<stopFlag, strong, alive, ownerRef, ownerPool, pool, queue, pc,
          starts, threw, stopped, tooLate, crashed>>

States == {"idle", "lock", "check", "call", "callback", "sleep", "schedule",
           "enqueue", "release"}

TypeOK ==
    /\ {stopFlag, alive, ownerRef, ownerPool, stopped, crashed}
           \subseteq BOOLEAN
    /\ strong \in Nat
    /\ pool \in {"alive", "joining", "gone"}
    /\ queue \in Nat
    /\ pc \in [Workers -> States]
    /\ starts \in 0..MaxStarts
    /\ threw \in Nat
    /\ tooLate \in SUBSET Workers

Init ==
    /\ stopFlag = FALSE
    /\ strong = 1
    /\ alive = TRUE
    /\ ownerRef = TRUE
    /\ ownerPool = TRUE
    /\ pool = "alive"
    /\ queue = 0
    /\ pc = [w \in Workers |-> "idle"]
    /\ starts = 0
    /\ threw = 0
    /\ stopped = FALSE
    /\ tooLate = {}
    /\ crashed = FALSE

Go(w, state) == pc' = [pc EXCEPT ![w] = state]

-----------------------------------------------------------------------------
(* A worker runs a task.                                                   *)

TakeTask(w) ==
    /\ pc[w] = "idle"
    /\ pool # "gone"
    /\ queue > 0
    /\ queue' = queue - 1
    /\ tooLate' = IF stopped THEN tooLate \cup {w} ELSE tooLate
    /\ Go(w, "lock")
    /\ UNCHANGED <<stopFlag, strong, alive, ownerRef, ownerPool, pool, starts,
                   threw, stopped, crashed>>

\* Faulty: the task carries a plain pointer.
LockNothing(w) ==
    /\ pc[w] = "lock"
    /\ strong' = strong + 1
    /\ Go(w, "check")
    /\ UNCHANGED <<stopFlag, alive, ownerRef, ownerPool, pool, queue, starts,
                   threw, stopped, tooLate, crashed>>

Lock(w) ==
    /\ pc[w] = "lock"
    /\ \/ /\ strong > 0
          /\ strong' = strong + 1
          /\ Go(w, "check")
       \/ /\ strong = 0
          /\ UNCHANGED strong
          /\ Go(w, "idle")
    /\ tooLate' = IF strong = 0 THEN tooLate \ {w} ELSE tooLate
    /\ UNCHANGED <<stopFlag, alive, ownerRef, ownerPool, pool, queue, starts,
                   threw, stopped, crashed>>

\* Faulty: the next task is enqueued before the callback, not after it.
CheckAndEnqueue(w) ==
    /\ pc[w] = "check"
    /\ queue' = IF stopFlag THEN queue ELSE queue + 1
    /\ Go(w, IF stopFlag THEN "release" ELSE "call")
    /\ UNCHANGED <<stopFlag, strong, alive, ownerRef, ownerPool, pool, starts,
                   threw, stopped, tooLate, crashed>>

Check(w) ==
    /\ pc[w] = "check"
    /\ Go(w, IF stopFlag THEN "release" ELSE "call")
    /\ UNCHANGED <<stopFlag, strong, alive, ownerRef, ownerPool, pool, queue,
                   starts, threw, stopped, tooLate, crashed>>

Call(w) ==
    /\ pc[w] = "call"
    /\ Go(w, "callback")
    /\ UNCHANGED <<stopFlag, strong, alive, ownerRef, ownerPool, pool, queue,
                   starts, threw, stopped, tooLate, crashed>>

\* Faulty: the callback's result is stored as it is, over a Stop that came
\* while it ran.
ReturnStores(w, result) ==
    /\ pc[w] = "callback"
    /\ stopFlag' = (result = "true")
    /\ threw' = IF result = "throws" THEN threw + 1 ELSE threw
    /\ Go(w, IF result = "false" THEN "sleep" ELSE "release")
    /\ UNCHANGED <<strong, alive, ownerRef, ownerPool, pool, queue, starts,
                   stopped, tooLate, crashed>>

\* The callback returns false, returns true, or throws a std::exception, which
\* ends in the future nobody holds.
Return(w, result) ==
    /\ pc[w] = "callback"
    /\ stopFlag' = (stopFlag \/ result = "true")
    /\ threw' = IF result = "throws" THEN threw + 1 ELSE threw
    /\ Go(w, IF result = "false" THEN "sleep" ELSE "release")
    /\ UNCHANGED <<strong, alive, ownerRef, ownerPool, pool, queue, starts,
                   stopped, tooLate, crashed>>

Wake(w) ==
    /\ pc[w] = "sleep"
    /\ Go(w, "schedule")
    /\ UNCHANGED <<stopFlag, strong, alive, ownerRef, ownerPool, pool, queue,
                   starts, threw, stopped, tooLate, crashed>>

ScheduleNext(w) ==
    /\ pc[w] = "schedule"
    /\ Go(w, IF stopFlag THEN "release" ELSE "enqueue")
    /\ UNCHANGED <<stopFlag, strong, alive, ownerRef, ownerPool, pool, queue,
                   starts, threw, stopped, tooLate, crashed>>

Enqueue(w) ==
    /\ pc[w] = "enqueue"
    /\ queue' = queue + 1
    /\ Go(w, "release")
    /\ UNCHANGED <<stopFlag, strong, alive, ownerRef, ownerPool, pool, starts,
                   threw, stopped, tooLate, crashed>>

\* The executor dies with its last strong reference and lets go of the
\* invoker.  When that was the last path to the pool, ~TThreadPool runs on
\* one of the threads it joins: join throws out of a destructor.
Release(w) ==
    /\ pc[w] = "release"
    /\ strong' = strong - 1
    /\ alive' = (strong > 1)
    /\ crashed' = (strong = 1 /\ ~ownerPool)
    /\ tooLate' = tooLate \ {w}
    /\ Go(w, "idle")
    /\ UNCHANGED <<stopFlag, ownerRef, ownerPool, pool, queue, starts, threw,
                   stopped>>

-----------------------------------------------------------------------------
(* The owner, on a thread outside the pool.                                *)

Start ==
    /\ ownerRef
    /\ starts < MaxStarts
    /\ starts' = starts + 1
    /\ queue' = IF stopFlag THEN queue ELSE queue + 1
    /\ UNCHANGED <<stopFlag, strong, alive, ownerRef, ownerPool, pool, pc,
                   threw, stopped, tooLate, crashed>>

Stop ==
    /\ ownerRef
    /\ stopFlag' = TRUE
    /\ stopped' = TRUE
    /\ UNCHANGED <<strong, alive, ownerRef, ownerPool, pool, queue, pc, starts,
                   threw, tooLate, crashed>>

DropExecutor ==
    /\ ownerRef
    /\ ownerRef' = FALSE
    /\ strong' = strong - 1
    /\ alive' = (strong > 1)
    /\ pool' = IF strong = 1 /\ ~ownerPool THEN "joining" ELSE pool
    /\ UNCHANGED <<stopFlag, ownerPool, queue, pc, starts, threw, stopped,
                   tooLate, crashed>>

\* Faulty: the executor's invoker does not own the pool.
DropPoolAlone ==
    /\ ownerPool
    /\ ownerPool' = FALSE
    /\ pool' = "joining"
    /\ UNCHANGED <<stopFlag, strong, alive, ownerRef, queue, pc, starts, threw,
                   stopped, tooLate, crashed>>

DropPool ==
    /\ ownerPool
    /\ ownerPool' = FALSE
    /\ pool' = IF alive THEN pool ELSE "joining"
    /\ UNCHANGED <<stopFlag, strong, alive, ownerRef, queue, pc, starts, threw,
                   stopped, tooLate, crashed>>

\* ~TThreadPool on the owner's thread: it waits for the workers, then the
\* queue goes.
PoolJoined ==
    /\ pool = "joining"
    /\ \A w \in Workers : pc[w] = "idle"
    /\ pool' = "gone"
    /\ queue' = 0
    /\ UNCHANGED <<stopFlag, strong, alive, ownerRef, ownerPool, pc, starts,
                   threw, stopped, tooLate, crashed>>

\* An exception that nobody catches ends the process: that of a callback which is
\* no std::exception, or one on any other thread.
Terminate ==
    /\ crashed' = TRUE
    /\ UNCHANGED <<stopFlag, strong, alive, ownerRef, ownerPool, pool, queue, pc,
                   starts, threw, stopped, tooLate>>

-----------------------------------------------------------------------------
WorkerStep(w) ==
    \/ TakeTask(w) \/ Lock(w) \/ Check(w) \/ Call(w) \/ Wake(w)
    \/ \E result \in {"false", "true", "throws"} : Return(w, result)
    \/ ScheduleNext(w) \/ Enqueue(w) \/ Release(w)

Next ==
    /\ ~crashed
    /\ \/ \E w \in Workers : WorkerStep(w)
       \/ Start \/ Stop \/ DropExecutor \/ DropPool \/ PoolJoined
       \/ Terminate

Spec == Init /\ [][Next]_vars

-----------------------------------------------------------------------------
(* Properties.                                                             *)

Busy == {w \in Workers : pc[w] # "idle"}
Holding == {w \in Workers : pc[w] \notin {"idle", "lock"}}

\* A chain never forks and is never lost: there are no more tasks of the
\* executor, queued or yet to enqueue their successor, than Start calls, and
\* no fewer than the calls whose chain did not throw, as long as nobody stops
\* or drops it.  A callback started once never overlaps with itself
\* (periodic_executor.cpp:35-52).
Chains == {w \in Workers : pc[w] \notin {"idle", "release"}}

OneTaskPerChain ==
    LET tasks == queue + Cardinality(Chains) + threw IN
    tasks <= starts /\ (alive /\ ~stopFlag => tasks = starts)

\* Nobody runs the executor's code after its destructor, although tasks stay
\* in the queue when the owner drops it (periodic_executor.h:50-60), and the
\* pool it enqueues into lives as long as it does and as long as a task runs
\* (periodic_executor.h:33, threadpool.h:203).
NothingRunsOnTheDead ==
    /\ Holding # {} => alive
    /\ alive \/ Busy # {} => pool # "gone"

\* Once Stop has returned, a task that leaves the queue does not call back:
\* only a worker that had loaded the flag before may (periodic_executor.cpp:36).
StopIsSeen == \A w \in tooLate : pc[w] \notin {"call", "callback"}

\* After Stop, every chain comes to an end.
Ended == crashed \/ (queue = 0 /\ Busy = {})

StoppedEnds == stopped ~> Ended

\* An executor that is dropped without Stop ends by its weak references, unless
\* the workers hand it to each other for ever, one locking its reference while
\* another has yet to release its own (periodic_executor.h:31-85).
DroppedEnds ==
    <>(~ownerRef) =>
        <>(~ownerRef /\ Ended) \/ []<>(Cardinality(Holding) > 1)

\* What makes the above inductive.
CountInv ==
    /\ strong = Cardinality(Holding) + IF ownerRef THEN 1 ELSE 0
    /\ alive <=> strong > 0
    /\ pool # "alive" => ~alive /\ ~ownerPool
    /\ pool = "gone" => Busy = {}
    /\ pool = "alive" => alive \/ ownerPool \/ crashed
    /\ tooLate \subseteq Busy
    /\ tooLate # {} => stopped
    /\ stopped => stopFlag

IInv ==
    /\ TypeOK /\ CountInv /\ OneTaskPerChain /\ NothingRunsOnTheDead
    /\ StopIsSeen

=============================================================================
