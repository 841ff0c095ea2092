----------------------------- MODULE ThreadPool -----------------------------
(***************************************************************************)
(* TThreadPool with the futures of TInvoker (lib/common/threadpool).       *)
(*                                                                         *)
(* A worker's pc follows TThreadPool::Worker:                              *)
(*   loop    at the head of the while, about to read stop_                 *)
(*   lock    about to lock queue_mutex_                                    *)
(*   test    holds the mutex, evaluates the predicate of cv_.wait          *)
(*   sleep   holds the mutex, the predicate was false                      *)
(*   wait    blocked on cv_, mutex released                                *)
(*   relock  woken, about to lock the mutex again                          *)
(*   take    holds the mutex, the predicate was true                       *)
(*   run     in task()                                                     *)
(*   done    returned                                                      *)
(* A task is the number of the enqueue that brought it; its status is the  *)
(* state of the future that TInvoker::Run handed out for it.               *)
(***************************************************************************)
EXTENDS Naturals, Sequences, FiniteSets

CONSTANTS
    NumWorkers,     \* numThreads of the constructor
    Clients,        \* threads outside the pool that hold a reference to it
    MaxTasks,       \* bound on the tasks of one behaviour
    Nobody          \* the owner of a mutex that is free

Workers == 1..NumWorkers
Threads == Workers \cup Clients

ASSUME PoolAssumption ==
    /\ NumWorkers \in Nat
    /\ MaxTasks \in Nat
    /\ IsFiniteSet(Clients)
    /\ Nobody \notin Workers

VARIABLES
    pc,             \* where each worker is
    mutex,          \* the thread that holds queue_mutex_ across steps
    tasks,          \* tasks_
    stop,           \* stop_
    current,        \* the local `task' of each worker, 0 for none
    enqueuing,      \* the threads between the unlock and notify_one of enqueue
    pushed,         \* number of tasks enqueued so far
    status,         \* the future of each task
    dtor,           \* progress of ~TThreadPool
    joined,         \* how many workers it has joined
    late            \* tasks each worker has taken since stop_ was set

vars == <<pc, mutex, tasks, stop, current, enqueuing, pushed, status, dtor,
          joined, late>>

TaskIds == 1..MaxTasks

WorkerStates == {"loop", "lock", "test", "sleep", "wait", "relock", "take",
                 "run", "done"}
TaskStates == {"new", "queued", "running", "value", "error", "fatal", "broken"}

TypeOK ==
    /\ pc \in [Workers -> WorkerStates]
    /\ mutex \in Workers \cup {Nobody}
    /\ tasks \in Seq(TaskIds)
    /\ stop \in BOOLEAN
    /\ current \in [Workers -> TaskIds \cup {0}]
    /\ enqueuing \in SUBSET Threads
    /\ pushed \in 0..MaxTasks
    /\ status \in [TaskIds -> TaskStates]
    /\ dtor \in {"alive", "stopped", "joining", "gone"}
    /\ joined \in 0..NumWorkers
    /\ late \in [Workers -> Nat]

Init ==
    /\ pc = [w \in Workers |-> "loop"]
    /\ mutex = Nobody
    /\ tasks = <<>>
    /\ stop = FALSE
    /\ current = [w \in Workers |-> 0]
    /\ enqueuing = {}
    /\ pushed = 0
    /\ status = [i \in TaskIds |-> "new"]
    /\ dtor = "alive"
    /\ joined = 0
    /\ late = [w \in Workers |-> 0]

Go(w, state) == pc' = [pc EXCEPT ![w] = state]

-----------------------------------------------------------------------------
(* TThreadPool::Worker.                                                    *)

\* Faulty: while (true), the pool drains its queue before it stops.
LoopForever(w) ==
    /\ pc[w] = "loop"
    /\ Go(w, "lock")
    /\ UNCHANGED <<mutex, tasks, stop, current, enqueuing, pushed, status,
                   dtor, joined, late>>

Loop(w) ==
    /\ pc[w] = "loop"
    /\ Go(w, IF stop THEN "done" ELSE "lock")
    /\ UNCHANGED <<mutex, tasks, stop, current, enqueuing, pushed, status,
                   dtor, joined, late>>

Acquire(w) ==
    /\ pc[w] \in {"lock", "relock"}
    /\ mutex = Nobody
    /\ mutex' = w
    /\ Go(w, "test")
    /\ UNCHANGED <<tasks, stop, current, enqueuing, pushed, status, dtor,
                   joined, late>>

\* Faulty: an unconditional cv_.wait, without a predicate tested before it.
TestNothing(w) ==
    /\ pc[w] = "test"
    /\ Go(w, "sleep")
    /\ UNCHANGED <<mutex, tasks, stop, current, enqueuing, pushed, status,
                   dtor, joined, late>>

Test(w) ==
    /\ pc[w] = "test"
    /\ Go(w, IF stop \/ tasks # <<>> THEN "take" ELSE "sleep")
    /\ UNCHANGED <<mutex, tasks, stop, current, enqueuing, pushed, status,
                   dtor, joined, late>>

Sleep(w) ==
    /\ pc[w] = "sleep"
    /\ mutex' = Nobody
    /\ Go(w, "wait")
    /\ UNCHANGED <<tasks, stop, current, enqueuing, pushed, status, dtor,
                   joined, late>>

SpuriousWake(w) ==
    /\ pc[w] = "wait"
    /\ Go(w, "relock")
    /\ UNCHANGED <<mutex, tasks, stop, current, enqueuing, pushed, status,
                   dtor, joined, late>>

ExitEmpty(w) ==
    /\ pc[w] = "take"
    /\ stop /\ tasks = <<>>
    /\ mutex' = Nobody
    /\ Go(w, "done")
    /\ UNCHANGED <<tasks, stop, current, enqueuing, pushed, status, dtor,
                   joined, late>>

\* The worker w leaves the critical section with task i.
StartTask(w, i) ==
    /\ mutex' = Nobody
    /\ current' = [current EXCEPT ![w] = i]
    /\ status' = [status EXCEPT ![i] = "running"]
    /\ late' = [late EXCEPT ![w] = IF stop THEN @ + 1 ELSE @]
    /\ Go(w, "run")
    /\ UNCHANGED <<stop, enqueuing, pushed, dtor, joined>>

\* Faulty: the newest task first.
TakeNewest(w) ==
    /\ pc[w] = "take"
    /\ tasks # <<>>
    /\ tasks' = SubSeq(tasks, 1, Len(tasks) - 1)
    /\ StartTask(w, tasks[Len(tasks)])

\* Faulty: the task is read and never popped.
TakeWithoutPop(w) ==
    /\ pc[w] = "take"
    /\ tasks # <<>>
    /\ UNCHANGED tasks
    /\ StartTask(w, Head(tasks))

Take(w) ==
    /\ pc[w] = "take"
    /\ tasks # <<>>
    /\ tasks' = Tail(tasks)
    /\ StartTask(w, Head(tasks))

\* task() returns: TInvoker has set the value, or the error of a std::exception.
\* Any other exception it does not catch, nor does Worker: the process ends.
Finish(w, outcome) ==
    /\ pc[w] = "run"
    /\ w \notin enqueuing
    /\ status' = [status EXCEPT ![current[w]] = outcome]
    /\ current' = [current EXCEPT ![w] = 0]
    /\ Go(w, "loop")
    /\ UNCHANGED <<mutex, tasks, stop, enqueuing, pushed, dtor, joined, late>>

-----------------------------------------------------------------------------
(* TThreadPool::enqueue, by a client or from inside a running task.  The   *)
(* caller holds a reference, so the pool is not being destroyed.           *)

MayEnqueue(t) == t \in Clients \/ (t \in Workers /\ pc[t] = "run")

Enqueue(t) ==
    /\ dtor = "alive"
    /\ MayEnqueue(t)
    /\ t \notin enqueuing
    /\ mutex = Nobody
    /\ pushed < MaxTasks
    /\ pushed' = pushed + 1
    /\ tasks' = Append(tasks, pushed + 1)
    /\ status' = [status EXCEPT ![pushed + 1] = "queued"]
    /\ enqueuing' = enqueuing \cup {t}
    /\ UNCHANGED <<pc, mutex, stop, current, dtor, joined, late>>

Waiting == {w \in Workers : pc[w] = "wait"}

\* Faulty: only a push onto an empty queue notifies.
NotifyIfFirst(t) ==
    /\ t \in enqueuing
    /\ enqueuing' = enqueuing \ {t}
    /\ \/ /\ Waiting = {} \/ Len(tasks) # 1
          /\ UNCHANGED pc
       \/ /\ Len(tasks) = 1
          /\ \E w \in Waiting : Go(w, "relock")
    /\ UNCHANGED <<mutex, tasks, stop, current, pushed, status, dtor, joined,
                   late>>

NotifyOne(t) ==
    /\ t \in enqueuing
    /\ enqueuing' = enqueuing \ {t}
    /\ \/ /\ Waiting = {}
          /\ UNCHANGED pc
       \/ \E w \in Waiting : Go(w, "relock")
    /\ UNCHANGED <<mutex, tasks, stop, current, pushed, status, dtor, joined,
                   late>>

-----------------------------------------------------------------------------
(* ~TThreadPool, on a thread that is not one of its workers.  It runs when *)
(* the last reference is gone, so nobody is inside enqueue.                *)

\* Faulty: stop_ is set without the mutex.
StopUnlocked ==
    /\ dtor = "alive"
    /\ enqueuing = {}
    /\ stop' = TRUE
    /\ dtor' = "stopped"
    /\ UNCHANGED <<pc, mutex, tasks, current, enqueuing, pushed, status,
                   joined, late>>

SetStop ==
    /\ dtor = "alive"
    /\ enqueuing = {}
    /\ mutex = Nobody
    /\ stop' = TRUE
    /\ dtor' = "stopped"
    /\ UNCHANGED <<pc, mutex, tasks, current, enqueuing, pushed, status,
                   joined, late>>

NotifyAll ==
    /\ dtor = "stopped"
    /\ dtor' = "joining"
    /\ pc' = [w \in Workers |-> IF pc[w] = "wait" THEN "relock" ELSE pc[w]]
    /\ UNCHANGED <<mutex, tasks, stop, current, enqueuing, pushed, status,
                   joined, late>>

\* Faulty: the threads are detached, the destructor waits for none of them.
JoinNobody ==
    /\ dtor = "joining"
    /\ joined < NumWorkers
    /\ joined' = joined + 1
    /\ UNCHANGED <<pc, mutex, tasks, stop, current, enqueuing, pushed, status,
                   dtor, late>>

Join ==
    /\ dtor = "joining"
    /\ joined < NumWorkers
    /\ pc[joined + 1] = "done"
    /\ joined' = joined + 1
    /\ UNCHANGED <<pc, mutex, tasks, stop, current, enqueuing, pushed, status,
                   dtor, late>>

\* The members are destroyed: a task still queued takes its promise along.
DestroyMembers ==
    /\ dtor = "joining"
    /\ joined = NumWorkers
    /\ dtor' = "gone"
    /\ tasks' = <<>>
    /\ status' = [i \in TaskIds |->
                     IF status[i] = "queued" THEN "broken" ELSE status[i]]
    /\ UNCHANGED <<pc, mutex, stop, current, enqueuing, pushed, joined, late>>

-----------------------------------------------------------------------------
WorkerStep(w) ==
    \/ Loop(w) \/ Acquire(w) \/ Test(w) \/ Sleep(w) \/ ExitEmpty(w) \/ Take(w)
    \/ \E outcome \in {"value", "error", "fatal"} : Finish(w, outcome)

\* No exception has ended the process.
Alive == \A i \in TaskIds : status[i] # "fatal"

Destructor == NotifyAll \/ Join \/ DestroyMembers

Next ==
    /\ Alive
    /\ \/ \E w \in Workers : WorkerStep(w) \/ SpuriousWake(w)
       \/ \E t \in Threads : Enqueue(t) \/ NotifyOne(t)
       \/ SetStop
       \/ Destructor

Spec == Init /\ [][Next]_vars

\* Threads keep running, tasks return, a mutex that is free again and again
\* is got in the end.  Nothing obliges anyone to enqueue or to destroy.
Fairness ==
    /\ \A w \in Workers :
           WF_vars(Alive /\ WorkerStep(w)) /\ SF_vars(Alive /\ Acquire(w))
    /\ \A t \in Threads : WF_vars(Alive /\ NotifyOne(t))
    /\ WF_vars(Alive /\ Destructor)

FairSpec == Spec /\ Fairness

-----------------------------------------------------------------------------
(* Properties.                                                             *)

\* Workers that will look at the queue before they sleep.
Awake == {w \in Workers : pc[w] \in {"loop", "lock", "test", "relock", "take"}}

\* A queued task never waits for a worker that sleeps: while some worker
\* sleeps, every queued task is matched by a worker on its way to the queue
\* or by a notification about to be sent, although notify_one is called
\* outside the mutex (threadpool.h:26-33, threadpool.cpp:33).
NoLostWakeup ==
    ~stop /\ Waiting # {} =>
        Len(tasks) <= Cardinality(Awake) + Cardinality(enqueuing)

\* Once stop_ is set and notified, no worker is left asleep
\* (threadpool.cpp:18-22).
NobodySleepsThroughStop == dtor \in {"joining", "gone"} => Waiting = {}

\* Tasks start in the order of their enqueue calls, and those abandoned by
\* the destructor are the newest (threadpool.cpp:37-38).
Fifo ==
    \A i, j \in TaskIds : i < j =>
        /\ status[j] \in {"running", "value", "error", "fatal"} =>
             status[i] \in {"running", "value", "error", "fatal"}
        /\ status[i] = "broken" => status[j] \in {"new", "broken"}

\* A task is run by one worker, once: the futures only move forward
\* (threadpool.cpp:37-40, threadpool.h:163-173).
Moves ==
    {<<"new", "queued">>, <<"queued", "running">>, <<"queued", "broken">>,
     <<"running", "value">>, <<"running", "error">>, <<"running", "fatal">>}

AtMostOnce ==
    [][/\ \A i \in TaskIds :
            status'[i] # status[i] => <<status[i], status'[i]>> \in Moves
       /\ \A w, v \in Workers :
            w # v /\ current'[w] # 0 => current'[w] # current'[v]]_vars

\* When the destructor returns no worker touches the pool any more, nothing
\* is running, and no future is left without an answer (threadpool.cpp:23-25).
GoneIsQuiet ==
    dtor = "gone" => /\ \A w \in Workers : pc[w] = "done"
                     /\ \A i \in TaskIds : status[i] \notin {"queued", "running"}

\* After stop_ a worker takes at most the one task it was already waiting for:
\* the queue is not drained (threadpool.cpp:29-41).
AtMostOneLateTask == \A w \in Workers : late[w] <= 1

\* The destructor returns, unless the process ends.
DestructorReturns == dtor = "stopped" ~> dtor = "gone" \/ ~Alive

\* Every task is answered: it runs, unless the pool is destroyed first or a task
\* ends the process.
EveryTaskAnswered ==
    NumWorkers > 0 =>
        \A i \in TaskIds :
            status[i] = "queued" ~>
                status[i] \in {"value", "error", "broken"} \/ ~Alive

\* The conjuncts that make the above inductive.
MutexInv ==
    \A w \in Workers : pc[w] \in {"test", "sleep", "take"} <=> mutex = w

\* What was tested under the mutex still holds under it.
TestedInv ==
    \A w \in Workers :
        /\ pc[w] = "sleep" => tasks = <<>> /\ ~stop
        /\ pc[w] = "take" => tasks # <<>> \/ stop

StopInv == stop <=> dtor # "alive"

\* A worker that has taken a late task does not come back for another.
LateInv ==
    \A w \in Workers :
        /\ late[w] > 0 => stop /\ pc[w] \in {"run", "loop", "done"}
        /\ late[w] <= 1

JoinInv ==
    /\ \A w \in Workers : w <= joined => pc[w] = "done"
    /\ dtor = "gone" => joined = NumWorkers

\* The queue holds the latest tasks in order; the older ones have started.
QueueInv ==
    /\ Len(tasks) <= pushed
    /\ \A k \in 1..Len(tasks) : tasks[k] = (pushed - Len(tasks)) + k
    /\ dtor = "gone" => tasks = <<>>
    /\ \A i \in TaskIds :
        /\ i > pushed => status[i] = "new"
        /\ i <= pushed /\ i > pushed - Len(tasks) => status[i] = "queued"
        /\ i <= pushed - Len(tasks) =>
              \/ status[i] \in {"running", "value", "error", "fatal"}
              \/ dtor = "gone" /\ status[i] = "broken"

\* A running task has its worker.
RunInv ==
    /\ \A i \in TaskIds : status[i] = "running" =>
        \E w \in Workers : current[w] = i
    /\ \A w \in Workers : pc[w] = "run" =>
        current[w] \in TaskIds /\ status[current[w]] = "running"
    /\ \A w \in Workers : pc[w] # "run" => current[w] = 0
    /\ \A w, v \in Workers : w # v /\ current[w] # 0 => current[w] # current[v]

IInv ==
    /\ TypeOK /\ MutexInv /\ TestedInv /\ StopInv /\ LateInv /\ JoinInv
    /\ QueueInv /\ RunInv /\ Fifo /\ NoLostWakeup /\ NobodySleepsThroughStop

=============================================================================
