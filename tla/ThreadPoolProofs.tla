-------------------------- MODULE ThreadPoolProofs --------------------------
(***************************************************************************)
(* Proofs about ThreadPool for any number of workers, clients and tasks.   *)
(* The invariant IInv rests on the mutex: what a worker tested under it    *)
(* still holds when it goes to sleep, so a task that finds a sleeping      *)
(* worker was enqueued after it and has its notification to come.          *)
(***************************************************************************)
EXTENDS ThreadPool, FiniteSetTheorems, TLAPS

\* The sets that NoLostWakeup counts are finite.
LEMMA CountsFinite ==
    ASSUME IInv
    PROVE  /\ IsFiniteSet(Awake) /\ Cardinality(Awake) \in Nat
           /\ IsFiniteSet(enqueuing) /\ Cardinality(enqueuing) \in Nat
<1>1. IsFiniteSet(Workers)
  BY PoolAssumption, FS_Interval DEF Workers
<1>2. IsFiniteSet(Threads)
  BY <1>1, PoolAssumption, FS_Union DEF Threads
<1>3. Awake \in SUBSET Workers /\ enqueuing \in SUBSET Threads
  BY DEF Awake, IInv, TypeOK
<1>4. IsFiniteSet(Awake) /\ IsFiniteSet(enqueuing)
  BY <1>1, <1>2, <1>3, FS_Subset
<1> QED BY <1>4, FS_CardinalityType

LEMMA InitInv == Init => IInv
<1> SUFFICES ASSUME Init PROVE IInv
  OBVIOUS
<1> USE PoolAssumption DEF Init
<1>1. TypeOK
  <2>1. /\ pc \in [Workers -> WorkerStates]
        /\ status \in [TaskIds -> TaskStates]
    BY DEF WorkerStates, TaskStates
  <2>2. /\ current \in [Workers -> TaskIds \cup {0}]
        /\ late \in [Workers -> Nat]
    OBVIOUS
  <2>3. /\ pushed \in 0..MaxTasks /\ joined \in 0..NumWorkers
        /\ tasks \in Seq(TaskIds)
    OBVIOUS
  <2> QED BY <2>1, <2>2, <2>3 DEF TypeOK
<1>2. MutexInv /\ TestedInv /\ StopInv /\ LateInv /\ JoinInv
  BY DEF MutexInv, TestedInv, StopInv, LateInv, JoinInv, Workers
<1>3. QueueInv /\ RunInv
  BY DEF QueueInv, RunInv, TaskIds
<1>4. Fifo /\ NoLostWakeup /\ NobodySleepsThroughStop
  BY DEF Fifo, NoLostWakeup, NobodySleepsThroughStop, Waiting
<1> QED BY <1>1, <1>2, <1>3, <1>4 DEF IInv

\* The numbers in play are natural numbers.
LEMMA Numbers ==
    ASSUME IInv
    PROVE  /\ pushed \in Nat /\ Len(tasks) \in Nat /\ Len(tasks) <= pushed
           /\ \A i \in TaskIds : i \in Nat /\ i # 0
BY PoolAssumption DEF IInv, TypeOK, QueueInv, TaskIds

\* Where a number stands when the queue of n out of a loses its head a - n + 1.
LEMMA HeadGone ==
    ASSUME NEW a \in Nat, NEW n \in Nat, NEW j \in Nat, j # a - n + 1
    PROVE  /\ j <= a - (n - 1) <=> j <= a - n
           /\ j > a - (n - 1) <=> j > a - n
OBVIOUS

\* A step that leaves the queue, the tasks and the destructor alone leaves
\* what is said of them.
LEMMA QueueUntouched ==
    ASSUME IInv, UNCHANGED <<tasks, pushed, status, dtor, joined, stop>>
    PROVE  QueueInv' /\ Fifo' /\ StopInv'
BY DEF IInv, QueueInv, Fifo, StopInv

LEMMA LoopInv ==
    ASSUME IInv, NEW w \in Workers, Loop(w)
    PROVE  IInv'
<1> USE DEF IInv, TypeOK
<1>1. TypeOK'
  BY DEF Loop, Go, WorkerStates
<1>2. QueueInv' /\ Fifo' /\ StopInv'
  BY QueueUntouched DEF Loop
<1>3. MutexInv' /\ TestedInv' /\ LateInv' /\ JoinInv'
  BY DEF Loop, Go, MutexInv, TestedInv, LateInv, JoinInv
<1>4. RunInv'
  BY DEF Loop, Go, RunInv
<1>5. Waiting' = Waiting
  BY DEF Loop, Go, Waiting
<1>6. NoLostWakeup'
  <2>1. ~stop => Awake' = Awake
    BY DEF Loop, Go, Awake
  <2> QED BY <1>5, <2>1 DEF Loop, NoLostWakeup
<1>7. NobodySleepsThroughStop'
  BY <1>5 DEF Loop, NobodySleepsThroughStop
<1> QED BY <1>1, <1>2, <1>3, <1>4, <1>6, <1>7

LEMMA AcquireInv ==
    ASSUME IInv, NEW w \in Workers, Acquire(w)
    PROVE  IInv'
<1> USE DEF IInv, TypeOK
<1>1. TypeOK'
  BY DEF Acquire, Go, WorkerStates
<1>2. QueueInv' /\ Fifo' /\ StopInv'
  BY QueueUntouched DEF Acquire
<1>3. MutexInv' /\ TestedInv' /\ LateInv' /\ JoinInv'
  BY PoolAssumption DEF Acquire, Go, MutexInv, TestedInv, LateInv, JoinInv
<1>4. RunInv'
  BY DEF Acquire, Go, RunInv
<1>5. Waiting' = Waiting /\ Awake' = Awake
  BY DEF Acquire, Go, Waiting, Awake
<1>6. NoLostWakeup' /\ NobodySleepsThroughStop'
  BY <1>5 DEF Acquire, NoLostWakeup, NobodySleepsThroughStop
<1> QED BY <1>1, <1>2, <1>3, <1>4, <1>6

LEMMA TestInv ==
    ASSUME IInv, NEW w \in Workers, Test(w)
    PROVE  IInv'
<1> USE DEF IInv, TypeOK
<1>1. TypeOK'
  BY DEF Test, Go, WorkerStates
<1>2. QueueInv' /\ Fifo' /\ StopInv'
  BY QueueUntouched DEF Test
<1>3. MutexInv' /\ TestedInv' /\ LateInv' /\ JoinInv'
  BY DEF Test, Go, MutexInv, TestedInv, LateInv, JoinInv
<1>4. RunInv'
  BY DEF Test, Go, RunInv
<1>5. Waiting' = Waiting
  BY DEF Test, Go, Waiting
<1>6. NoLostWakeup'
  <2>1. CASE stop \/ tasks # <<>>
    <3>1. Awake' = Awake
      BY <2>1 DEF Test, Go, Awake
    <3> QED BY <1>5, <3>1 DEF Test, NoLostWakeup
  <2>2. CASE ~(stop \/ tasks # <<>>)
    <3>1. Len(tasks') = 0
      BY <2>2 DEF Test
    <3>2. Cardinality(Awake') \in Nat /\ Cardinality(enqueuing') \in Nat
      <4>1. Awake' \in SUBSET Awake
        BY DEF Test, Go, Awake
      <4>2. IsFiniteSet(Awake')
        BY <4>1, CountsFinite, FS_Subset
      <4> QED BY <4>2, CountsFinite, FS_CardinalityType DEF Test
    <3> QED BY <3>1, <3>2 DEF NoLostWakeup
  <2> QED BY <2>1, <2>2
<1>7. NobodySleepsThroughStop'
  BY <1>5 DEF Test, NobodySleepsThroughStop
<1> QED BY <1>1, <1>2, <1>3, <1>4, <1>6, <1>7

LEMMA SleepsInv ==
    ASSUME IInv, NEW w \in Workers, Sleep(w)
    PROVE  IInv'
<1> USE DEF IInv, TypeOK
<1>1. TypeOK'
  BY DEF Sleep, Go, WorkerStates
<1>2. QueueInv' /\ Fifo' /\ StopInv'
  BY QueueUntouched DEF Sleep
<1>3. MutexInv' /\ TestedInv' /\ LateInv' /\ JoinInv'
  BY PoolAssumption DEF Sleep, Go, MutexInv, TestedInv, LateInv, JoinInv
<1>4. RunInv'
  BY DEF Sleep, Go, RunInv
<1>5. tasks' = <<>> /\ ~stop
  BY DEF Sleep, TestedInv
<1>6. NoLostWakeup'
  <2>1. Awake' = Awake /\ enqueuing' = enqueuing
    BY DEF Sleep, Go, Awake
  <2>2. Len(tasks') = 0
    BY <1>5
  <2> QED BY <2>1, <2>2, CountsFinite DEF NoLostWakeup
<1>7. NobodySleepsThroughStop'
  BY <1>5 DEF Sleep, StopInv, NobodySleepsThroughStop
<1> QED BY <1>1, <1>2, <1>3, <1>4, <1>6, <1>7

\* Waking one worker moves it from the sleeping to the awake.
LEMMA WakeOne ==
    ASSUME IInv, NEW w \in Waiting, Go(w, "relock")
    PROVE  /\ Waiting' = Waiting \ {w}
           /\ Cardinality(Awake') = Cardinality(Awake) + 1
<1> USE DEF IInv, TypeOK
<1>1. /\ Waiting' = Waiting \ {w} /\ Awake' = Awake \cup {w} /\ w \notin Awake
  BY DEF Go, Waiting, Awake
<1> QED BY <1>1, CountsFinite, FS_AddElement

\* What waking one worker, and nothing else, preserves.
LEMMA WakeKeeps ==
    ASSUME IInv, NEW w \in Waiting, Go(w, "relock"),
           UNCHANGED <<mutex, tasks, stop, current, late, pushed, status, dtor,
                       joined>>
    PROVE  /\ pc' \in [Workers -> WorkerStates]
           /\ MutexInv' /\ TestedInv' /\ LateInv' /\ JoinInv' /\ RunInv'
<1> USE DEF IInv, TypeOK
<1>1. w \in Workers /\ pc[w] = "wait"
  BY DEF Waiting
<1>2. pc' \in [Workers -> WorkerStates]
  BY <1>1 DEF Go, WorkerStates
<1>3. MutexInv' /\ TestedInv' /\ LateInv' /\ JoinInv'
  BY <1>1 DEF Go, MutexInv, TestedInv, LateInv, JoinInv
<1>4. RunInv'
  BY <1>1 DEF Go, RunInv
<1> QED BY <1>2, <1>3, <1>4

LEMMA SpuriousWakeInv ==
    ASSUME IInv, NEW w \in Workers, SpuriousWake(w)
    PROVE  IInv'
<1> USE DEF IInv, TypeOK
<1>1. w \in Waiting /\ Go(w, "relock")
  BY DEF SpuriousWake, Waiting
<1>2. TypeOK' /\ MutexInv' /\ TestedInv' /\ LateInv' /\ JoinInv' /\ RunInv'
  BY <1>1, WakeKeeps DEF SpuriousWake
<1>3. QueueInv' /\ Fifo' /\ StopInv'
  BY QueueUntouched DEF SpuriousWake
<1>4. NoLostWakeup' /\ NobodySleepsThroughStop'
  BY <1>1, WakeOne, CountsFinite
  DEF SpuriousWake, NoLostWakeup, NobodySleepsThroughStop
<1> QED BY <1>2, <1>3, <1>4

LEMMA ExitEmptyInv ==
    ASSUME IInv, NEW w \in Workers, ExitEmpty(w)
    PROVE  IInv'
<1> USE DEF IInv, TypeOK
<1>1. TypeOK'
  BY DEF ExitEmpty, Go, WorkerStates
<1>2. QueueInv' /\ Fifo' /\ StopInv'
  BY QueueUntouched DEF ExitEmpty
<1>3. MutexInv' /\ TestedInv' /\ LateInv' /\ JoinInv'
  BY PoolAssumption DEF ExitEmpty, Go, MutexInv, TestedInv, LateInv, JoinInv
<1>4. RunInv'
  BY DEF ExitEmpty, Go, RunInv
<1>5. Waiting' = Waiting
  BY DEF ExitEmpty, Go, Waiting
<1>6. NoLostWakeup' /\ NobodySleepsThroughStop'
  BY <1>5 DEF ExitEmpty, NoLostWakeup, NobodySleepsThroughStop
<1> QED BY <1>1, <1>2, <1>3, <1>4, <1>6

\* The head of the queue is the oldest task that has not started.
LEMMA HeadIsOldest ==
    ASSUME IInv, tasks # <<>>
    PROVE  /\ Head(tasks) \in TaskIds
           /\ Head(tasks) = pushed - Len(tasks) + 1
           /\ status[Head(tasks)] = "queued"
           /\ Len(tasks) \in Nat /\ Len(tasks) >= 1 /\ Len(tasks) <= pushed
           /\ Len(Tail(tasks)) = Len(tasks) - 1
           /\ \A k \in 1..Len(Tail(tasks)) : Tail(tasks)[k] = tasks[k + 1]
           /\ Tail(tasks) \in Seq(TaskIds)
<1> USE DEF IInv, TypeOK
<1>1. /\ Len(tasks) \in Nat /\ Len(tasks) >= 1
      /\ Head(tasks) = tasks[1] /\ Head(tasks) \in TaskIds
      /\ Len(Tail(tasks)) = Len(tasks) - 1
      /\ \A k \in 1..Len(Tail(tasks)) : Tail(tasks)[k] = tasks[k + 1]
      /\ Tail(tasks) \in Seq(TaskIds)
  OBVIOUS
<1>2. Len(tasks) <= pushed /\ pushed \in Nat
  BY DEF QueueInv
<1>3. Head(tasks) = pushed - Len(tasks) + 1
  BY <1>1, <1>2 DEF QueueInv
<1>4. /\ ~(Head(tasks) > pushed) /\ ~(Head(tasks) <= pushed - Len(tasks))
  BY <1>1, <1>2, <1>3
<1>5. status[Head(tasks)] = "queued"
  BY SMTT(60), <1>1, <1>4 DEF QueueInv
<1> QED BY <1>1, <1>2, <1>3, <1>5

LEMMA TakeInv ==
    ASSUME IInv, NEW w \in Workers, Take(w)
    PROVE  IInv'
<1> USE DEF IInv, TypeOK
<1> DEFINE i == Head(tasks)
<1>1. /\ i \in TaskIds /\ i = pushed - Len(tasks) + 1
      /\ status[i] = "queued"
      /\ Len(tasks) \in Nat /\ Len(tasks) >= 1 /\ Len(tasks) <= pushed
      /\ Len(Tail(tasks)) = Len(tasks) - 1
      /\ \A k \in 1..Len(Tail(tasks)) : Tail(tasks)[k] = tasks[k + 1]
      /\ Tail(tasks) \in Seq(TaskIds)
  BY HeadIsOldest DEF Take
<1>2. /\ pc[w] = "take" /\ tasks' = Tail(tasks) /\ mutex' = Nobody
      /\ current' = [current EXCEPT ![w] = i]
      /\ status' = [status EXCEPT ![i] = "running"]
      /\ late' = [late EXCEPT ![w] = IF stop THEN @ + 1 ELSE @]
      /\ pc' = [pc EXCEPT ![w] = "run"]
      /\ UNCHANGED <<stop, enqueuing, pushed, dtor, joined>>
  BY DEF Take, StartTask, Go
<1> HIDE DEF i
<1>3. TypeOK'
  <2>1. pc' \in [Workers -> WorkerStates] /\ status' \in [TaskIds -> TaskStates]
    BY <1>1, <1>2 DEF WorkerStates, TaskStates
  <2>2. current' \in [Workers -> TaskIds \cup {0}]
    BY <1>1, <1>2
  <2>3. late' \in [Workers -> Nat]
    <3>1. (IF stop THEN late[w] + 1 ELSE late[w]) \in Nat
      OBVIOUS
    <3> QED BY <1>2, <3>1
  <2>4. tasks' \in Seq(TaskIds) /\ mutex' \in Workers \cup {Nobody}
    BY <1>1, <1>2
  <2> QED BY <1>2, <2>1, <2>2, <2>3, <2>4
<1>4. MutexInv' /\ TestedInv' /\ StopInv'
  BY <1>2, PoolAssumption DEF MutexInv, TestedInv, StopInv
<1>5. LateInv' /\ JoinInv'
  BY <1>2 DEF LateInv, JoinInv
<1>6. RunInv'
  <2>1. \A v \in Workers : current[v] # i
    <3>1. \A v \in Workers : pc[v] = "run" => status[current[v]] = "running"
      BY DEF RunInv
    <3>2. \A v \in Workers : pc[v] # "run" => current[v] = 0
      BY DEF RunInv
    <3>3. i # 0
      BY <1>1 DEF TaskIds
    <3> QED BY <1>1, <3>1, <3>2, <3>3
  <2>2. ASSUME NEW j \in TaskIds, status'[j] = "running"
        PROVE  \E v \in Workers : current'[v] = j
    <3>1. current[w] = 0 /\ j # 0
      BY <1>2 DEF RunInv, TaskIds
    <3>2. CASE j = i
      BY <1>2, <3>2
    <3>3. CASE j # i
      BY <1>1, <1>2, <2>2, <3>1, <3>3 DEF RunInv
    <3> QED BY <3>2, <3>3
  <2>3. \A v \in Workers : pc'[v] = "run" =>
          current'[v] \in TaskIds /\ status'[current'[v]] = "running"
    BY <1>1, <1>2 DEF RunInv
  <2>4. \A v \in Workers : pc'[v] # "run" => current'[v] = 0
    BY <1>2 DEF RunInv
  <2>5. \A v, u \in Workers :
          v # u /\ current'[v] # 0 => current'[v] # current'[u]
    BY <1>2, <2>1 DEF RunInv
  <2> QED BY <2>2, <2>3, <2>4, <2>5 DEF RunInv
<1>7. QueueInv'
  <2>1. tasks # <<>>
    BY DEF Take
  <2>2. dtor # "gone"
    BY <2>1 DEF QueueInv
  <2>3. /\ Len(tasks') <= pushed'
        /\ \A k \in 1..Len(tasks') : tasks'[k] = (pushed' - Len(tasks')) + k
    <3> SUFFICES ASSUME NEW k \in 1..Len(Tail(tasks))
                 PROVE  Tail(tasks)[k] = (pushed - Len(Tail(tasks))) + k
      BY <1>1, <1>2
    <3>1. k + 1 \in 1..Len(tasks)
      BY <1>1
    <3>2. tasks[k + 1] = (pushed - Len(tasks)) + (k + 1)
      BY <3>1 DEF QueueInv
    <3> QED BY <1>1, <3>2
  <2>4. ASSUME NEW j \in TaskIds
        PROVE  /\ j > pushed => status'[j] = "new"
               /\ j <= pushed /\ j > pushed - (Len(tasks) - 1) =>
                    status'[j] = "queued"
               /\ j <= pushed - (Len(tasks) - 1) =>
                    status'[j] \in {"running", "value", "error", "fatal"}
    <3>1. /\ j > pushed => status[j] = "new"
          /\ j <= pushed /\ j > pushed - Len(tasks) => status[j] = "queued"
          /\ j <= pushed - Len(tasks) =>
               status[j] \in {"running", "value", "error", "fatal"}
      BY <2>2 DEF QueueInv
    <3>2. j \in Nat /\ pushed \in Nat /\ Len(tasks) \in Nat
      BY Numbers
    <3>3. CASE j = i
      <4>1. status'[j] = "running"
        BY <1>1, <1>2, <3>3
      <4>2. ~(j > pushed) /\ ~(j > pushed - (Len(tasks) - 1))
        BY <1>1, <3>2, <3>3
      <4> QED BY <4>1, <4>2
    <3>4. CASE j # i
      <4>1. status'[j] = status[j]
        BY <1>1, <1>2, <3>4
      <4>2. /\ j <= pushed - (Len(tasks) - 1) <=> j <= pushed - Len(tasks)
            /\ j > pushed - (Len(tasks) - 1) <=> j > pushed - Len(tasks)
        BY <1>1, <3>2, <3>4, HeadGone
      <4>3. j > pushed => status'[j] = "new"
        BY <3>1, <4>1
      <4>4. j <= pushed /\ j > pushed - (Len(tasks) - 1) =>
              status'[j] = "queued"
        BY <3>1, <4>1, <4>2
      <4>5. j <= pushed - (Len(tasks) - 1) =>
              status'[j] \in {"running", "value", "error", "fatal"}
        BY <3>1, <4>1, <4>2
      <4> QED BY <4>3, <4>4, <4>5
    <3> QED BY <3>3, <3>4
  <2>5. Len(tasks') = Len(tasks) - 1 /\ pushed' = pushed
    BY <1>1, <1>2
  <2> QED BY <1>2, <2>2, <2>3, <2>4, <2>5 DEF QueueInv
<1>8. Fifo'
  <2>1. dtor # "gone"
    BY DEF Take, QueueInv
  <2>2. ASSUME NEW j \in TaskIds
        PROVE  /\ j < i => status[j] \in {"running", "value", "error", "fatal"}
               /\ i < j => status[j] \in {"new", "queued"}
    BY <1>1, <2>1 DEF QueueInv, TaskIds
  <2> QED BY <1>1, <1>2, <2>2 DEF Fifo, TaskIds
<1>9. Waiting' = Waiting
  BY <1>2 DEF Waiting
<1>10. NoLostWakeup'
  <2>1. Awake' = Awake \ {w} /\ w \in Awake
    BY <1>2 DEF Awake
  <2>2. Cardinality(Awake') = Cardinality(Awake) - 1
    BY <2>1, CountsFinite, FS_RemoveElement
  <2> QED BY <1>1, <1>2, <1>9, <2>2, CountsFinite DEF NoLostWakeup
<1>11. NobodySleepsThroughStop'
  BY <1>2, <1>9 DEF NobodySleepsThroughStop
<1> QED BY <1>3, <1>4, <1>5, <1>6, <1>7, <1>8, <1>10, <1>11

LEMMA FinishInv ==
    ASSUME IInv, NEW w \in Workers, NEW outcome \in {"value", "error", "fatal"},
           Finish(w, outcome)
    PROVE  IInv'
<1> USE DEF IInv, TypeOK
<1> DEFINE i == current[w]
<1>1. /\ i \in TaskIds /\ status[i] = "running" /\ pc[w] = "run"
      /\ status' = [status EXCEPT ![i] = outcome]
      /\ current' = [current EXCEPT ![w] = 0]
      /\ pc' = [pc EXCEPT ![w] = "loop"]
      /\ UNCHANGED <<mutex, tasks, stop, enqueuing, pushed, dtor, joined, late>>
  BY DEF Finish, Go, RunInv
<1> HIDE DEF i
<1>2. TypeOK'
  BY <1>1 DEF WorkerStates, TaskStates
<1>3. MutexInv' /\ TestedInv' /\ StopInv' /\ LateInv' /\ JoinInv'
  BY <1>1 DEF MutexInv, TestedInv, StopInv, LateInv, JoinInv
<1>4. QueueInv'
  <2>1. ASSUME NEW j \in TaskIds
        PROVE  /\ j > pushed => status'[j] = "new"
               /\ j <= pushed /\ j > pushed - Len(tasks) => status'[j] = "queued"
               /\ j <= pushed - Len(tasks) =>
                    \/ status'[j] \in {"running", "value", "error", "fatal"}
                    \/ dtor = "gone" /\ status'[j] = "broken"
    <3>1. \A k \in TaskIds :
            /\ k > pushed => status[k] = "new"
            /\ k <= pushed /\ k > pushed - Len(tasks) => status[k] = "queued"
            /\ k <= pushed - Len(tasks) =>
                 \/ status[k] \in {"running", "value", "error", "fatal"}
                 \/ dtor = "gone" /\ status[k] = "broken"
      BY DEF QueueInv
    <3>2. ~(i > pushed) /\ ~(i > pushed - Len(tasks))
      <4>1. i \in Nat /\ pushed \in Nat /\ Len(tasks) \in Nat
        BY <1>1, Numbers
      <4>2. i > pushed => status[i] = "new"
        BY <1>1, <3>1
      <4>3. i <= pushed /\ i > pushed - Len(tasks) => status[i] = "queued"
        BY <1>1, <3>1
      <4>4. ~(i > pushed)
        BY <1>1, <4>2
      <4>5. i <= pushed
        BY <4>1, <4>4
      <4> QED BY <1>1, <4>3, <4>4, <4>5
    <3>3. CASE j = i
      <4>1. status'[j] = outcome
        BY <1>1, <3>3
      <4> QED BY <3>2, <3>3, <4>1
    <3>4. CASE j # i
      <4>1. status'[j] = status[j]
        BY <1>1, <3>4
      <4> QED BY <3>1, <4>1
    <3> QED BY <3>3, <3>4
  <2> QED BY <1>1, <2>1 DEF QueueInv
<1>5. Fifo'
  BY <1>1 DEF Fifo
<1>6. RunInv'
  <2>1. \A v \in Workers : v # w => current[v] # i
    <3>1. i # 0
      BY <1>1, Numbers
    <3>2. \A v, u \in Workers : v # u /\ current[v] # 0 => current[v] # current[u]
      BY DEF RunInv
    <3> QED BY <3>1, <3>2 DEF i
  <2>2. ASSUME NEW j \in TaskIds, status'[j] = "running"
        PROVE  \E v \in Workers : current'[v] = j
    BY <1>1, <2>2 DEF RunInv, i
  <2>3. \A v \in Workers : pc'[v] = "run" =>
          current'[v] \in TaskIds /\ status'[current'[v]] = "running"
    BY <1>1, <2>1 DEF RunInv
  <2>4. \A v \in Workers : pc'[v] # "run" => current'[v] = 0
    BY <1>1 DEF RunInv
  <2>5. \A v, u \in Workers :
          v # u /\ current'[v] # 0 => current'[v] # current'[u]
    BY <1>1 DEF RunInv
  <2> QED BY <2>2, <2>3, <2>4, <2>5 DEF RunInv
<1>7. /\ Waiting' = Waiting
      /\ Cardinality(Awake') = Cardinality(Awake) + 1
  <2>1. Waiting' = Waiting /\ Awake' = Awake \cup {w} /\ w \notin Awake
    BY <1>1 DEF Waiting, Awake
  <2> QED BY <2>1, CountsFinite, FS_AddElement
<1>8. NoLostWakeup' /\ NobodySleepsThroughStop'
  BY <1>1, <1>7, CountsFinite DEF NoLostWakeup, NobodySleepsThroughStop
<1> QED BY <1>2, <1>3, <1>4, <1>5, <1>6, <1>8

LEMMA EnqueueInv ==
    ASSUME IInv, NEW t \in Threads, Enqueue(t)
    PROVE  IInv'
<1> USE DEF IInv, TypeOK
<1>1. /\ dtor = "alive" /\ t \notin enqueuing /\ mutex = Nobody
      /\ pushed + 1 \in TaskIds /\ pushed \in Nat
      /\ pushed' = pushed + 1 /\ tasks' = Append(tasks, pushed + 1)
      /\ status' = [status EXCEPT ![pushed + 1] = "queued"]
      /\ enqueuing' = enqueuing \cup {t}
      /\ UNCHANGED <<pc, mutex, stop, current, dtor, joined, late>>
  BY PoolAssumption DEF Enqueue, TaskIds
<1>2. /\ Len(tasks) \in Nat /\ Len(tasks') = Len(tasks) + 1
      /\ \A k \in 1..Len(tasks) : tasks'[k] = tasks[k]
      /\ tasks'[Len(tasks) + 1] = pushed + 1
      /\ tasks' \in Seq(TaskIds)
  BY <1>1
<1>3. TypeOK'
  <2>1. status' \in [TaskIds -> TaskStates] /\ enqueuing' \in SUBSET Threads
    BY <1>1 DEF TaskStates
  <2>2. pushed' \in 0..MaxTasks
    BY <1>1 DEF TaskIds
  <2> QED BY <1>1, <1>2, <2>1, <2>2
<1>4. MutexInv' /\ StopInv' /\ LateInv' /\ JoinInv'
  BY <1>1 DEF MutexInv, StopInv, LateInv, JoinInv
<1>5. TestedInv'
  BY <1>1, PoolAssumption DEF TestedInv, MutexInv
<1>6. QueueInv'
  <2>1. Len(tasks') <= pushed'
    BY <1>1, <1>2 DEF QueueInv
  <2>2. ASSUME NEW k \in 1..Len(tasks')
        PROVE  tasks'[k] = (pushed' - Len(tasks')) + k
    <3>1. CASE k \in 1..Len(tasks)
      <4>1. tasks[k] = (pushed - Len(tasks)) + k
        BY <3>1 DEF QueueInv
      <4> QED BY <1>1, <1>2, <3>1, <4>1
    <3>2. CASE k = Len(tasks) + 1
      BY <1>1, <1>2, <3>2
    <3> QED BY <1>2, <3>1, <3>2
  <2>3. ASSUME NEW j \in TaskIds
        PROVE  /\ j > pushed + 1 => status'[j] = "new"
               /\ j <= pushed + 1 /\ j > pushed - Len(tasks) =>
                    status'[j] = "queued"
               /\ j <= pushed - Len(tasks) =>
                    status'[j] \in {"running", "value", "error", "fatal"}
    <3>1. /\ j > pushed => status[j] = "new"
          /\ j <= pushed /\ j > pushed - Len(tasks) => status[j] = "queued"
          /\ j <= pushed - Len(tasks) =>
               status[j] \in {"running", "value", "error", "fatal"}
      BY <1>1 DEF QueueInv
    <3>2. j \in Nat /\ pushed \in Nat /\ Len(tasks) \in Nat
      BY Numbers
    <3>3. CASE j = pushed + 1
      <4>1. status'[j] = "queued"
        BY <1>1, <3>3
      <4>2. ~(j > pushed + 1) /\ ~(j <= pushed - Len(tasks))
        BY <3>2, <3>3
      <4> QED BY <4>1, <4>2
    <3>4. CASE j # pushed + 1
      <4>1. status'[j] = status[j]
        BY <1>1, <3>4
      <4>2. /\ j > pushed + 1 => j > pushed
            /\ j <= pushed + 1 => j <= pushed
        BY <3>2, <3>4
      <4>3. j > pushed + 1 => status'[j] = "new"
        BY <3>1, <4>1, <4>2
      <4>4. j <= pushed + 1 /\ j > pushed - Len(tasks) =>
              status'[j] = "queued"
        BY <3>1, <4>1, <4>2
      <4>5. j <= pushed - Len(tasks) =>
              status'[j] \in {"running", "value", "error", "fatal"}
        BY <3>1, <4>1
      <4> QED BY <4>3, <4>4, <4>5
    <3> QED BY <3>3, <3>4
  <2>4. pushed' - Len(tasks') = pushed - Len(tasks) /\ pushed' = pushed + 1
    BY <1>1, <1>2
  <2> QED BY <1>1, <2>1, <2>2, <2>3, <2>4 DEF QueueInv
<1>7. status[pushed + 1] = "new"
  <2>1. pushed + 1 > pushed
    BY <1>1
  <2> QED BY <1>1, <2>1 DEF QueueInv
<1>8. Fifo'
  <2>1. ASSUME NEW j \in TaskIds
        PROVE  /\ status[j] # "broken"
               /\ pushed + 1 < j => status[j] = "new"
    <3>1. j \in Nat /\ pushed \in Nat /\ Len(tasks) \in Nat
      BY Numbers
    <3>2. /\ j > pushed => status[j] = "new"
          /\ j <= pushed /\ j > pushed - Len(tasks) => status[j] = "queued"
          /\ j <= pushed - Len(tasks) =>
               status[j] \in {"running", "value", "error", "fatal"}
      BY <1>1 DEF QueueInv
    <3>3. \/ j > pushed
          \/ j <= pushed /\ j > pushed - Len(tasks)
          \/ j <= pushed - Len(tasks)
      BY <3>1
    <3>4. status[j] # "broken"
      BY <3>2, <3>3
    <3>5. pushed + 1 < j => j > pushed
      BY <3>1
    <3> QED BY <3>2, <3>4, <3>5
  <2> QED BY <1>1, <1>7, <2>1 DEF Fifo
<1>9. RunInv'
  BY <1>1, <1>7 DEF RunInv
<1>10. Waiting' = Waiting /\ Awake' = Awake
  BY <1>1 DEF Waiting, Awake
<1>11. Cardinality(enqueuing') = Cardinality(enqueuing) + 1
  BY <1>1, CountsFinite, FS_AddElement
<1>12. NoLostWakeup' /\ NobodySleepsThroughStop'
  BY <1>1, <1>2, <1>10, <1>11, CountsFinite
  DEF NoLostWakeup, NobodySleepsThroughStop
<1> QED BY <1>3, <1>4, <1>5, <1>6, <1>8, <1>9, <1>12

LEMMA NotifyOneInv ==
    ASSUME IInv, NEW t \in Threads, NotifyOne(t)
    PROVE  IInv'
<1> USE DEF IInv, TypeOK
<1>1. /\ t \in enqueuing /\ enqueuing' = enqueuing \ {t}
      /\ UNCHANGED <<mutex, tasks, stop, current, pushed, status, dtor, joined,
                     late>>
  BY DEF NotifyOne
<1>2. QueueInv' /\ Fifo' /\ StopInv'
  BY <1>1, QueueUntouched
<1>3. Cardinality(enqueuing') = Cardinality(enqueuing) - 1
  BY <1>1, CountsFinite, FS_RemoveElement
<1>4. CASE Waiting = {} /\ UNCHANGED pc
  <2>1. TypeOK' /\ MutexInv' /\ TestedInv' /\ LateInv' /\ JoinInv' /\ RunInv'
    BY <1>1, <1>4 DEF MutexInv, TestedInv, LateInv, JoinInv, RunInv
  <2>2. Waiting' = {}
    BY <1>4 DEF Waiting
  <2>3. NoLostWakeup' /\ NobodySleepsThroughStop'
    BY <2>2 DEF NoLostWakeup, NobodySleepsThroughStop
  <2> QED BY <1>2, <2>1, <2>3
<1>5. ASSUME NEW w \in Waiting, Go(w, "relock")
      PROVE  IInv'
  <2>1. TypeOK' /\ MutexInv' /\ TestedInv' /\ LateInv' /\ JoinInv' /\ RunInv'
    BY <1>1, <1>5, WakeKeeps
  <2>2. NoLostWakeup' /\ NobodySleepsThroughStop'
    BY <1>1, <1>3, <1>5, WakeOne, CountsFinite
    DEF NoLostWakeup, NobodySleepsThroughStop
  <2> QED BY <1>2, <2>1, <2>2
<1> QED BY <1>4, <1>5 DEF NotifyOne

LEMMA SetStopInv ==
    ASSUME IInv, SetStop
    PROVE  IInv'
<1> USE DEF IInv, TypeOK, SetStop
<1>1. TypeOK' /\ MutexInv' /\ StopInv' /\ LateInv' /\ JoinInv' /\ RunInv'
  BY DEF MutexInv, StopInv, LateInv, JoinInv, RunInv
<1>2. TestedInv'
  BY PoolAssumption DEF MutexInv, TestedInv
<1>3. QueueInv' /\ Fifo'
  BY DEF QueueInv, Fifo
<1>4. NoLostWakeup' /\ NobodySleepsThroughStop'
  BY DEF NoLostWakeup, NobodySleepsThroughStop
<1> QED BY <1>1, <1>2, <1>3, <1>4

LEMMA NotifyAllInv ==
    ASSUME IInv, NotifyAll
    PROVE  IInv'
<1> USE DEF IInv, TypeOK, NotifyAll
<1>1. TypeOK'
  BY DEF WorkerStates
<1>2. MutexInv' /\ TestedInv' /\ StopInv' /\ LateInv' /\ JoinInv' /\ RunInv'
  BY DEF MutexInv, TestedInv, StopInv, LateInv, JoinInv, RunInv
<1>3. QueueInv' /\ Fifo'
  BY DEF QueueInv, Fifo
<1>4. stop' /\ Waiting' = {}
  BY DEF StopInv, Waiting
<1>5. NoLostWakeup' /\ NobodySleepsThroughStop'
  BY <1>4 DEF NoLostWakeup, NobodySleepsThroughStop
<1> QED BY <1>1, <1>2, <1>3, <1>5

LEMMA JoinsInv ==
    ASSUME IInv, Join
    PROVE  IInv'
<1> USE DEF IInv, TypeOK, Join
<1>1. joined + 1 \in Workers /\ joined' \in 0..NumWorkers
  BY PoolAssumption DEF Workers
<1>2. TypeOK' /\ MutexInv' /\ TestedInv' /\ StopInv' /\ LateInv' /\ RunInv'
  BY <1>1 DEF MutexInv, TestedInv, StopInv, LateInv, RunInv
<1>3. JoinInv'
  BY <1>1 DEF JoinInv, Workers
<1>4. QueueInv' /\ Fifo'
  BY DEF QueueInv, Fifo
<1>5. Waiting' = Waiting /\ Awake' = Awake
  BY DEF Waiting, Awake
<1>6. NoLostWakeup' /\ NobodySleepsThroughStop'
  BY <1>5 DEF NoLostWakeup, NobodySleepsThroughStop
<1> QED BY <1>2, <1>3, <1>4, <1>6

LEMMA DestroyMembersInv ==
    ASSUME IInv, DestroyMembers
    PROVE  IInv'
<1> USE DEF IInv, TypeOK, DestroyMembers
<1>1. TypeOK'
  BY DEF TaskStates
<1>2. MutexInv' /\ TestedInv' /\ StopInv' /\ LateInv' /\ JoinInv'
  <2>1. \A w \in Workers : pc[w] = "done"
    BY DEF JoinInv, Workers
  <2>2. MutexInv' /\ TestedInv' /\ LateInv'
    BY <2>1 DEF MutexInv, TestedInv, LateInv
  <2> QED BY <2>2 DEF StopInv, JoinInv
<1>3. /\ Len(tasks) \in Nat /\ Len(tasks) <= pushed /\ Len(tasks') = 0
      /\ pushed \in Nat
  BY DEF QueueInv
<1>4. QueueInv'
  <2>1. ASSUME NEW j \in TaskIds
        PROVE  /\ j > pushed => status'[j] = "new"
               /\ j <= pushed =>
                    status'[j] \in {"running", "value", "error", "fatal", "broken"}
    <3>1. j \in Nat
      BY DEF TaskIds
    <3>2. CASE j > pushed
      <4>1. status[j] = "new"
        BY <3>2 DEF QueueInv
      <4> QED BY <3>1, <3>2, <4>1
    <3>3. CASE j <= pushed
      <4>1. status[j] \in {"running", "value", "error", "fatal", "queued"}
        BY <1>3, <3>1, <3>3 DEF QueueInv
      <4> QED BY <1>3, <3>1, <3>3, <4>1
    <3> QED BY <1>3, <3>1, <3>2, <3>3
  <2> QED BY <1>3, <2>1 DEF QueueInv
<1>5. Fifo'
  <2>1. ASSUME NEW j \in TaskIds
        PROVE  /\ status[j] \in {"running", "value", "error", "fatal"} =>
                    j <= pushed - Len(tasks)
               /\ status[j] = "queued" =>
                    j > pushed - Len(tasks) /\ j <= pushed
               /\ j > pushed => status[j] = "new"
               /\ j <= pushed - Len(tasks) =>
                    status[j] \in {"running", "value", "error", "fatal"}
               /\ status[j] # "broken"
    <3>1. j \in Nat
      BY DEF TaskIds
    <3> QED BY <1>3, <3>1 DEF QueueInv
  <2>2. ASSUME NEW j \in TaskIds, NEW k \in TaskIds, j < k,
               status'[k] \in {"running", "value", "error", "fatal"}
        PROVE  status'[j] \in {"running", "value", "error", "fatal"}
    BY <2>2 DEF Fifo
  <2>3. ASSUME NEW j \in TaskIds, NEW k \in TaskIds, j < k,
               status'[j] = "broken"
        PROVE  status'[k] \in {"new", "broken"}
    <3>1. status[j] = "queued"
      BY <2>1, <2>3
    <3>2. k > pushed - Len(tasks)
      BY <1>3, <2>1, <2>3, <3>1 DEF TaskIds
    <3>3. status[k] \in {"new", "queued"}
      BY <1>3, <3>2 DEF QueueInv, TaskIds
    <3> QED BY <3>3
  <2> QED BY <2>2, <2>3 DEF Fifo
<1>6. RunInv'
  BY DEF RunInv
<1>7. Waiting' = Waiting /\ stop
  BY DEF Waiting, StopInv
<1>8. NoLostWakeup' /\ NobodySleepsThroughStop'
  BY <1>7 DEF NoLostWakeup, NobodySleepsThroughStop
<1> QED BY <1>1, <1>2, <1>4, <1>5, <1>6, <1>8

LEMMA StutterInv == IInv /\ UNCHANGED vars => IInv'
<1> SUFFICES ASSUME IInv, UNCHANGED vars PROVE IInv'
  OBVIOUS
<1> USE DEF IInv, vars
<1>1. TypeOK' /\ MutexInv' /\ TestedInv' /\ StopInv' /\ LateInv' /\ JoinInv'
  BY DEF TypeOK, MutexInv, TestedInv, StopInv, LateInv, JoinInv
<1>2. QueueInv' /\ RunInv' /\ Fifo'
  BY DEF QueueInv, RunInv, Fifo
<1>3. NoLostWakeup' /\ NobodySleepsThroughStop'
  BY DEF NoLostWakeup, NobodySleepsThroughStop, Waiting, Awake
<1> QED BY <1>1, <1>2, <1>3

LEMMA NextInv == IInv /\ [Next]_vars => IInv'
<1> SUFFICES ASSUME IInv, [Next]_vars PROVE IInv'
  OBVIOUS
<1>1. ASSUME NEW w \in Workers, WorkerStep(w) PROVE IInv'
  BY <1>1, LoopInv, AcquireInv, TestInv, SleepsInv, ExitEmptyInv, TakeInv,
     FinishInv DEF WorkerStep
<1>2. ASSUME NEW w \in Workers, SpuriousWake(w) PROVE IInv'
  BY <1>2, SpuriousWakeInv
<1>3. ASSUME NEW t \in Threads, Enqueue(t) PROVE IInv'
  BY <1>3, EnqueueInv
<1>4. ASSUME NEW t \in Threads, NotifyOne(t) PROVE IInv'
  BY <1>4, NotifyOneInv
<1>5. CASE SetStop
  BY <1>5, SetStopInv
<1>6. CASE Destructor
  BY <1>6, NotifyAllInv, JoinsInv, DestroyMembersInv DEF Destructor
<1>7. CASE UNCHANGED vars
  BY <1>7, StutterInv
<1> QED BY <1>1, <1>2, <1>3, <1>4, <1>5, <1>6, <1>7 DEF Next

-----------------------------------------------------------------------------
\* The inductive invariant holds in every reachable state.
THEOREM Invariance == Spec => []IInv
BY InitInv, NextInv, PTL DEF Spec

\* Every variable keeps its type: in particular queue_mutex_ has one owner.
THEOREM TypeCorrect == Spec => []TypeOK
<1>1. IInv => TypeOK
  BY DEF IInv
<1> QED BY <1>1, Invariance, PTL

\* No queued task is left to a worker that sleeps (threadpool.h:26-33 against
\* threadpool.cpp:33).
THEOREM WakeupsKept == Spec => []NoLostWakeup
<1>1. IInv => NoLostWakeup
  BY DEF IInv
<1> QED BY <1>1, Invariance, PTL

\* No worker sleeps through the destructor's notify_all (threadpool.cpp:18-22).
THEOREM StopHeard == Spec => []NobodySleepsThroughStop
<1>1. IInv => NobodySleepsThroughStop
  BY DEF IInv
<1> QED BY <1>1, Invariance, PTL

\* Tasks start in the order of enqueue (threadpool.cpp:37-38).
THEOREM FirstInFirstOut == Spec => []Fifo
<1>1. IInv => Fifo
  BY DEF IInv
<1> QED BY <1>1, Invariance, PTL

\* A worker takes at most one task once stop_ is set (threadpool.cpp:29-41).
THEOREM OneLateTask == Spec => []AtMostOneLateTask
<1>1. IInv => AtMostOneLateTask
  BY DEF IInv, LateInv, AtMostOneLateTask
<1> QED BY <1>1, Invariance, PTL

\* The destructor leaves no worker and no unanswered future behind
\* (threadpool.cpp:23-25).
THEOREM DestroyedIsQuiet == Spec => []GoneIsQuiet
<1>1. IInv => GoneIsQuiet
  <2> SUFFICES ASSUME IInv, dtor = "gone" PROVE GoneIsQuiet
    BY DEF GoneIsQuiet
  <2>1. \A w \in Workers : pc[w] = "done"
    BY DEF IInv, JoinInv, Workers
  <2>2. \A w \in Workers : current[w] = 0
    BY <2>1 DEF IInv, RunInv
  <2>3. ASSUME NEW i \in TaskIds PROVE status[i] # "running"
    BY <2>2, PoolAssumption DEF IInv, RunInv, TaskIds
  <2>4. ASSUME NEW i \in TaskIds PROVE status[i] # "queued"
    <3>1. i \in Nat /\ pushed \in Nat
      BY Numbers
    <3>2. Len(tasks) = 0
      BY DEF IInv, QueueInv
    <3> QED BY <3>1, <3>2 DEF IInv, QueueInv
  <2> QED BY <2>1, <2>3, <2>4 DEF GoneIsQuiet
<1> QED BY <1>1, Invariance, PTL

\* Every step moves a future forward or leaves it, and no two workers hold the
\* same task (threadpool.cpp:37-40, threadpool.h:163-173).
THEOREM RunAtMostOnce == Spec => AtMostOnce
<1> DEFINE Forward ==
      \A i \in TaskIds :
        status'[i] # status[i] => <<status[i], status'[i]>> \in Moves
<1> DEFINE Alone ==
      \A w, v \in Workers :
        w # v /\ current'[w] # 0 => current'[w] # current'[v]
<1>1. IInv /\ [Next]_vars => [Forward /\ Alone]_vars
  <2> SUFFICES ASSUME IInv, Next PROVE Forward /\ Alone
    OBVIOUS
  <2>1. Alone
    <3>1. IInv'
      BY NextInv
    <3> QED BY <3>1 DEF IInv, RunInv
  <2>2. ASSUME NEW w \in Workers, Take(w) PROVE Forward
    <3>1. /\ status[Head(tasks)] = "queued"
          /\ status' = [status EXCEPT ![Head(tasks)] = "running"]
      BY <2>2, HeadIsOldest DEF Take, StartTask
    <3> QED BY <3>1 DEF Moves, IInv, TypeOK
  <2>3. ASSUME NEW w \in Workers, NEW outcome \in {"value", "error", "fatal"},
               Finish(w, outcome)
        PROVE  Forward
    <3>1. status[current[w]] = "running"
      BY <2>3 DEF Finish, IInv, RunInv
    <3> QED BY <2>3, <3>1 DEF Finish, Moves, IInv, TypeOK
  <2>4. ASSUME NEW t \in Threads, Enqueue(t) PROVE Forward
    <3>1. pushed + 1 \in TaskIds => status[pushed + 1] = "new"
      BY Numbers DEF IInv, QueueInv
    <3> QED BY <2>4, <3>1 DEF Enqueue, Moves, IInv, TypeOK
  <2>5. CASE DestroyMembers
    BY <2>1, <2>5 DEF DestroyMembers, Moves, IInv, TypeOK
  <2>6. CASE UNCHANGED status
    BY <2>1, <2>6
  <2> QED
    BY <2>1, <2>2, <2>3, <2>4, <2>5, <2>6
    DEF Next, WorkerStep, Destructor, Loop, Acquire, Test, Sleep, ExitEmpty,
        SpuriousWake, NotifyOne, SetStop, NotifyAll, Join
<1> QED BY <1>1, Invariance, PTL DEF Spec, AtMostOnce

=============================================================================
