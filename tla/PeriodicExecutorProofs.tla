----------------------- MODULE PeriodicExecutorProofs -----------------------
(***************************************************************************)
(* Proofs about PeriodicExecutor for any number of workers and of Start    *)
(* calls, and about Program, whose steps are steps of the executor.  The   *)
(* strong count is the owner's reference and one for each worker in a      *)
(* call; a task of a chain is in the queue or in a worker that has yet to  *)
(* enqueue its successor.  A step moves one worker, so both counts change  *)
(* by what that worker's place adds to them.                               *)
(***************************************************************************)
EXTENDS Program, FiniteSetTheorems, TLAPS

\* What a worker in a place adds to Holding and to Chains.
Holds(place) == IF place \in {"idle", "lock"} THEN 0 ELSE 1
Chained(place) == IF place \in {"idle", "release"} THEN 0 ELSE 1

\* One element more, one element less, or no change.
LEMMA CountOne ==
    ASSUME NEW S, IsFiniteSet(S), NEW x
    PROVE  /\ Cardinality(S) \in Nat
           /\ Cardinality(S \cup {x}) = Cardinality(S) + (IF x \in S THEN 0 ELSE 1)
           /\ Cardinality(S \ {x}) = Cardinality(S) - (IF x \in S THEN 1 ELSE 0)
<1>1. Cardinality(S) \in Nat
  BY FS_CardinalityType
<1>2. Cardinality(S \cup {x}) = IF x \in S THEN Cardinality(S) ELSE Cardinality(S) + 1
  BY FS_AddElement
<1>3. Cardinality(S \ {x}) = IF x \in S THEN Cardinality(S) - 1 ELSE Cardinality(S)
  BY FS_RemoveElement
<1> QED BY <1>1, <1>2, <1>3

LEMMA Finite ==
    /\ IsFiniteSet(Holding) /\ Cardinality(Holding) \in Nat
    /\ IsFiniteSet(Chains) /\ Cardinality(Chains) \in Nat
<1>1. Holding \in SUBSET Workers /\ Chains \in SUBSET Workers
  BY DEF Holding, Chains
<1>2. IsFiniteSet(Holding) /\ IsFiniteSet(Chains)
  BY <1>1, PeriodicAssumption, FS_Subset
<1> QED BY <1>2, FS_CardinalityType

\* What the move of one worker does to the sets and their counts.
LEMMA Moved ==
    ASSUME TypeOK, NEW w \in Workers, NEW place \in States, Go(w, place)
    PROVE  /\ pc' \in [Workers -> States] /\ pc'[w] = place
           /\ \A v \in Workers : v # w => pc'[v] = pc[v]
           /\ Busy' = IF place = "idle" THEN Busy \ {w} ELSE Busy \cup {w}
           /\ Cardinality(Holding')
                = Cardinality(Holding) - Holds(pc[w]) + Holds(place)
           /\ Cardinality(Chains')
                = Cardinality(Chains) - Chained(pc[w]) + Chained(place)
           /\ Cardinality(Holding) >= Holds(pc[w])
           /\ Cardinality(Chains) >= Chained(pc[w])
           /\ Cardinality(Holding') \in Nat /\ Cardinality(Chains') \in Nat
<1>1. /\ pc' \in [Workers -> States] /\ pc'[w] = place
      /\ \A v \in Workers : v # w => pc'[v] = pc[v]
  BY DEF TypeOK, Go
<1>2. /\ Busy' = IF place = "idle" THEN Busy \ {w} ELSE Busy \cup {w}
      /\ Holding' = IF Holds(place) = 0 THEN Holding \ {w} ELSE Holding \cup {w}
      /\ Chains' = IF Chained(place) = 0 THEN Chains \ {w} ELSE Chains \cup {w}
  BY <1>1 DEF Busy, Holding, Chains, Holds, Chained
<1>3. /\ w \in Holding <=> Holds(pc[w]) = 1
      /\ w \in Chains <=> Chained(pc[w]) = 1
      /\ \A p \in States : Holds(p) \in {0, 1} /\ Chained(p) \in {0, 1}
      /\ pc[w] \in States
  BY DEF Holding, Chains, Holds, Chained, TypeOK
<1>4. /\ Cardinality(Holding) \in Nat /\ Cardinality(Chains) \in Nat
      /\ Cardinality(Holding \cup {w})
           = Cardinality(Holding) + (IF w \in Holding THEN 0 ELSE 1)
      /\ Cardinality(Holding \ {w})
           = Cardinality(Holding) - (IF w \in Holding THEN 1 ELSE 0)
      /\ Cardinality(Chains \cup {w})
           = Cardinality(Chains) + (IF w \in Chains THEN 0 ELSE 1)
      /\ Cardinality(Chains \ {w})
           = Cardinality(Chains) - (IF w \in Chains THEN 1 ELSE 0)
  BY Finite, CountOne
<1>5. Cardinality(Holding') \in Nat /\ Cardinality(Chains') \in Nat
  <2>1. Holding' \in SUBSET Workers /\ Chains' \in SUBSET Workers
    BY DEF Holding, Chains
  <2> QED BY <2>1, PeriodicAssumption, FS_Subset, FS_CardinalityType
<1>6. /\ Cardinality(Holding') = Cardinality(Holding) - Holds(pc[w]) + Holds(place)
      /\ Cardinality(Chains') = Cardinality(Chains) - Chained(pc[w]) + Chained(place)
  BY <1>2, <1>3, <1>4
<1>7. Cardinality(Holding) >= Holds(pc[w]) /\ Cardinality(Chains) >= Chained(pc[w])
  <2>1. w \in Holding => Cardinality(Holding \ {w}) \in Nat
    BY Finite, FS_Subset, FS_CardinalityType
  <2>2. w \in Chains => Cardinality(Chains \ {w}) \in Nat
    BY Finite, FS_Subset, FS_CardinalityType
  <2> QED BY <1>3, <1>4, <2>1, <2>2
<1> QED BY <1>1, <1>2, <1>5, <1>6, <1>7

\* The count of references says that whoever holds one finds the executor alive,
\* and its pool.
LEMMA HeldIsAlive == TypeOK /\ CountInv => NothingRunsOnTheDead
<1> SUFFICES ASSUME TypeOK, CountInv PROVE NothingRunsOnTheDead
  OBVIOUS
<1>1. ASSUME Holding # {} PROVE alive
  <2>1. Cardinality(Holding) # 0
    BY <1>1, Finite, FS_EmptySet
  <2> QED BY <2>1, Finite DEF TypeOK, CountInv
<1> QED BY <1>1 DEF CountInv, NothingRunsOnTheDead

LEMMA HeldIsAliveNext == TypeOK' /\ CountInv' => NothingRunsOnTheDead'
BY HeldIsAlive, PTL

LEMMA Numbers ==
    ASSUME IInv
    PROVE  /\ strong \in Nat /\ queue \in Nat /\ threw \in Nat /\ starts \in Nat
           /\ stopFlag \in BOOLEAN /\ alive \in BOOLEAN /\ ownerRef \in BOOLEAN
           /\ ownerPool \in BOOLEAN /\ stopped \in BOOLEAN /\ crashed \in BOOLEAN
           /\ Cardinality(Holding) \in Nat /\ Cardinality(Chains) \in Nat
           /\ queue + Cardinality(Chains) + threw <= starts
           /\ alive /\ ~stopFlag => queue + Cardinality(Chains) + threw = starts
BY PeriodicAssumption, Finite DEF IInv, TypeOK, OneTaskPerChain

LEMMA InitInv == Init => IInv
<1> SUFFICES ASSUME Init PROVE IInv
  OBVIOUS
<1> USE PeriodicAssumption DEF Init
<1>1. TypeOK
  <2>1. pc \in [Workers -> States]
    BY DEF States
  <2>2. {stopFlag, alive, ownerRef, ownerPool, stopped, crashed} \subseteq BOOLEAN
    OBVIOUS
  <2> QED BY <2>1, <2>2 DEF TypeOK
<1>2. Holding = {} /\ Chains = {} /\ Busy = {}
  BY DEF Holding, Chains, Busy
<1>3. Cardinality(Holding) = 0 /\ Cardinality(Chains) = 0
  BY <1>2, FS_EmptySet
<1>4. CountInv
  BY <1>2, <1>3 DEF CountInv
<1>5. OneTaskPerChain /\ StopIsSeen
  BY <1>3 DEF OneTaskPerChain, StopIsSeen
<1> QED BY <1>1, <1>4, <1>5, HeldIsAlive DEF IInv

-----------------------------------------------------------------------------
(* The steps of a worker.                                                  *)

LEMMA TakeTaskInv ==
    ASSUME IInv, NEW w \in Workers, TakeTask(w)
    PROVE  IInv'
<1>1. Go(w, "lock") /\ "lock" \in States /\ Holds("lock") = 0 /\ Chained("lock") = 1
      /\ Holds(pc[w]) = 0 /\ Chained(pc[w]) = 0
  BY DEF TakeTask, States, Holds, Chained
<1>2. /\ pc' \in [Workers -> States] /\ pc'[w] = "lock"
      /\ \A v \in Workers : v # w => pc'[v] = pc[v]
      /\ Busy' = Busy \cup {w}
      /\ Cardinality(Holding') = Cardinality(Holding)
      /\ Cardinality(Chains') = Cardinality(Chains) + 1
  BY <1>1, Moved, Numbers DEF IInv
<1>3. TypeOK'
  BY <1>2 DEF TakeTask, IInv, TypeOK
<1>4. CountInv'
  BY <1>2 DEF TakeTask, IInv, CountInv
<1>5. OneTaskPerChain'
  <2>1. queue' + Cardinality(Chains') + threw' = queue + Cardinality(Chains) + threw
    BY <1>2, Numbers DEF TakeTask
  <2> QED BY <2>1, Numbers DEF TakeTask, OneTaskPerChain
<1>6. StopIsSeen'
  BY <1>2 DEF TakeTask, IInv, TypeOK, StopIsSeen
<1> QED BY <1>3, <1>4, <1>5, <1>6, HeldIsAliveNext DEF IInv

LEMMA LockInv ==
    ASSUME IInv, NEW w \in Workers, Lock(w)
    PROVE  IInv'
<1>1. CASE strong > 0
  <2>1. /\ Go(w, "check") /\ "check" \in States /\ Holds("check") = 1
        /\ Chained("check") = 1 /\ Holds(pc[w]) = 0 /\ Chained(pc[w]) = 1
    BY <1>1 DEF Lock, States, Holds, Chained
  <2>2. /\ pc' \in [Workers -> States] /\ pc'[w] = "check"
        /\ \A v \in Workers : v # w => pc'[v] = pc[v]
        /\ Busy' = Busy \cup {w}
        /\ Cardinality(Holding') = Cardinality(Holding) + 1
        /\ Cardinality(Chains') = Cardinality(Chains)
    BY <2>1, Moved, Numbers DEF IInv
  <2>3. TypeOK'
    BY <1>1, <2>2 DEF Lock, IInv, TypeOK
  <2>4. CountInv'
    BY <1>1, <2>2, Numbers DEF Lock, IInv, CountInv
  <2>5. OneTaskPerChain'
    BY <2>2, Numbers DEF Lock, OneTaskPerChain
  <2>6. StopIsSeen'
    BY <1>1, <2>2 DEF Lock, IInv, TypeOK, StopIsSeen
  <2> QED BY <2>3, <2>4, <2>5, <2>6, HeldIsAliveNext DEF IInv
<1>2. CASE ~(strong > 0)
  <2>1. /\ Go(w, "idle") /\ "idle" \in States /\ Holds("idle") = 0
        /\ Chained("idle") = 0 /\ Holds(pc[w]) = 0 /\ Chained(pc[w]) = 1
        /\ strong = 0 /\ strong' = strong
    BY <1>2 DEF Lock, States, Holds, Chained
  <2>2. /\ pc' \in [Workers -> States] /\ pc'[w] = "idle"
        /\ \A v \in Workers : v # w => pc'[v] = pc[v]
        /\ Busy' = Busy \ {w}
        /\ Cardinality(Holding') = Cardinality(Holding)
        /\ Cardinality(Chains') = Cardinality(Chains) - 1
        /\ Cardinality(Chains') \in Nat
    BY <2>1, Moved, Numbers DEF IInv
  <2>3. TypeOK'
    BY <2>1, <2>2 DEF Lock, IInv, TypeOK
  <2>4. CountInv' /\ ~alive
    BY <2>1, <2>2, Numbers DEF Lock, IInv, CountInv
  <2>5. OneTaskPerChain'
    BY <2>2, <2>4, Numbers DEF Lock, OneTaskPerChain
  <2>6. StopIsSeen'
    BY <2>1, <2>2 DEF Lock, IInv, TypeOK, StopIsSeen
  <2> QED BY <2>3, <2>4, <2>5, <2>6, HeldIsAliveNext DEF IInv
<1> QED BY <1>1, <1>2

\* A late task finds the flag that was set before it left the queue.
LEMMA CheckInv ==
    ASSUME IInv, NEW w \in Workers, Check(w)
    PROVE  IInv'
<1> DEFINE place == IF stopFlag THEN "release" ELSE "call"
<1>1. /\ Go(w, place) /\ place \in States /\ Holds(place) = 1
      /\ Chained(place) = (IF stopFlag THEN 0 ELSE 1)
      /\ Holds(pc[w]) = 1 /\ Chained(pc[w]) = 1 /\ place # "idle"
      /\ w \in Busy
  BY DEF Check, States, Holds, Chained, Busy
<1> HIDE DEF place
<1>2. /\ pc' \in [Workers -> States] /\ pc'[w] = place
      /\ \A v \in Workers : v # w => pc'[v] = pc[v]
      /\ Busy' = Busy \cup {w}
      /\ Cardinality(Holding') = Cardinality(Holding)
      /\ Cardinality(Chains') = Cardinality(Chains) - (IF stopFlag THEN 1 ELSE 0)
      /\ Cardinality(Chains') \in Nat
  BY <1>1, Moved, Numbers DEF IInv
<1>3. TypeOK'
  BY <1>2 DEF Check, IInv, TypeOK
<1>4. CountInv'
  BY <1>1, <1>2 DEF Check, IInv, CountInv
<1>5. OneTaskPerChain'
  BY <1>2, Numbers DEF Check, OneTaskPerChain
<1>6. StopIsSeen'
  <2>1. tooLate # {} => place = "release"
    BY DEF place, IInv, CountInv
  <2> QED BY <1>2, <2>1 DEF Check, IInv, TypeOK, StopIsSeen
<1> QED BY <1>3, <1>4, <1>5, <1>6, HeldIsAliveNext DEF IInv

LEMMA CallInv ==
    ASSUME IInv, NEW w \in Workers, Call(w)
    PROVE  IInv'
<1>1. /\ Go(w, "callback") /\ "callback" \in States /\ Holds("callback") = 1
      /\ Chained("callback") = 1 /\ Holds(pc[w]) = 1 /\ Chained(pc[w]) = 1
      /\ w \in Busy
  BY DEF Call, States, Holds, Chained, Busy
<1>2. /\ pc' \in [Workers -> States] /\ pc'[w] = "callback"
      /\ \A v \in Workers : v # w => pc'[v] = pc[v]
      /\ Busy' = Busy \cup {w}
      /\ Cardinality(Holding') = Cardinality(Holding)
      /\ Cardinality(Chains') = Cardinality(Chains)
  BY <1>1, Moved, Numbers DEF IInv
<1>3. TypeOK'
  BY <1>2 DEF Call, IInv, TypeOK
<1>4. CountInv'
  BY <1>1, <1>2 DEF Call, IInv, CountInv
<1>5. OneTaskPerChain'
  BY <1>2, Numbers DEF Call, OneTaskPerChain
<1>6. StopIsSeen'
  BY <1>2 DEF Call, IInv, TypeOK, StopIsSeen
<1> QED BY <1>3, <1>4, <1>5, <1>6, HeldIsAliveNext DEF IInv

\* The chain goes on, is stopped, or is counted among those that threw.
LEMMA ReturnInv ==
    ASSUME IInv, NEW w \in Workers, NEW result \in {"false", "true", "throws"},
           Return(w, result)
    PROVE  IInv'
<1> DEFINE place == IF result = "false" THEN "sleep" ELSE "release"
<1>1. /\ Go(w, place) /\ place \in States /\ Holds(place) = 1
      /\ Chained(place) = (IF result = "false" THEN 1 ELSE 0)
      /\ Holds(pc[w]) = 1 /\ Chained(pc[w]) = 1
      /\ place \notin {"idle", "call", "callback"}
      /\ w \in Busy
  BY DEF Return, States, Holds, Chained, Busy
<1> HIDE DEF place
<1>2. /\ pc' \in [Workers -> States] /\ pc'[w] = place
      /\ \A v \in Workers : v # w => pc'[v] = pc[v]
      /\ Busy' = Busy \cup {w}
      /\ Cardinality(Holding') = Cardinality(Holding)
      /\ Cardinality(Chains') = Cardinality(Chains) - (IF result = "false" THEN 0 ELSE 1)
      /\ Cardinality(Chains') \in Nat
  BY <1>1, Moved, Numbers DEF IInv
<1>3. TypeOK'
  BY <1>2 DEF Return, IInv, TypeOK
<1>4. CountInv'
  BY <1>1, <1>2 DEF Return, IInv, CountInv
<1>5. OneTaskPerChain'
  <2>1. CASE result = "false"
    BY <1>2, <2>1, Numbers DEF Return, OneTaskPerChain
  <2>2. CASE result = "true"
    BY <1>2, <2>2, Numbers DEF Return, OneTaskPerChain
  <2>3. CASE result = "throws"
    BY <1>2, <2>3, Numbers DEF Return, OneTaskPerChain
  <2> QED BY <2>1, <2>2, <2>3
<1>6. StopIsSeen'
  BY <1>1, <1>2 DEF Return, IInv, TypeOK, StopIsSeen
<1> QED BY <1>3, <1>4, <1>5, <1>6, HeldIsAliveNext DEF IInv

LEMMA WakeInv ==
    ASSUME IInv, NEW w \in Workers, Wake(w)
    PROVE  IInv'
<1>1. /\ Go(w, "schedule") /\ "schedule" \in States /\ Holds("schedule") = 1
      /\ Chained("schedule") = 1 /\ Holds(pc[w]) = 1 /\ Chained(pc[w]) = 1
      /\ w \in Busy
  BY DEF Wake, States, Holds, Chained, Busy
<1>2. /\ pc' \in [Workers -> States] /\ pc'[w] = "schedule"
      /\ \A v \in Workers : v # w => pc'[v] = pc[v]
      /\ Busy' = Busy \cup {w}
      /\ Cardinality(Holding') = Cardinality(Holding)
      /\ Cardinality(Chains') = Cardinality(Chains)
  BY <1>1, Moved, Numbers DEF IInv
<1>3. TypeOK'
  BY <1>2 DEF Wake, IInv, TypeOK
<1>4. CountInv'
  BY <1>1, <1>2 DEF Wake, IInv, CountInv
<1>5. OneTaskPerChain'
  BY <1>2, Numbers DEF Wake, OneTaskPerChain
<1>6. StopIsSeen'
  BY <1>2 DEF Wake, IInv, TypeOK, StopIsSeen
<1> QED BY <1>3, <1>4, <1>5, <1>6, HeldIsAliveNext DEF IInv

LEMMA ScheduleNextInv ==
    ASSUME IInv, NEW w \in Workers, ScheduleNext(w)
    PROVE  IInv'
<1> DEFINE place == IF stopFlag THEN "release" ELSE "enqueue"
<1>1. /\ Go(w, place) /\ place \in States /\ Holds(place) = 1
      /\ Chained(place) = (IF stopFlag THEN 0 ELSE 1)
      /\ Holds(pc[w]) = 1 /\ Chained(pc[w]) = 1
      /\ place \notin {"idle", "call", "callback"}
      /\ w \in Busy
  BY DEF ScheduleNext, States, Holds, Chained, Busy
<1> HIDE DEF place
<1>2. /\ pc' \in [Workers -> States] /\ pc'[w] = place
      /\ \A v \in Workers : v # w => pc'[v] = pc[v]
      /\ Busy' = Busy \cup {w}
      /\ Cardinality(Holding') = Cardinality(Holding)
      /\ Cardinality(Chains') = Cardinality(Chains) - (IF stopFlag THEN 1 ELSE 0)
      /\ Cardinality(Chains') \in Nat
  BY <1>1, Moved, Numbers DEF IInv
<1>3. TypeOK'
  BY <1>2 DEF ScheduleNext, IInv, TypeOK
<1>4. CountInv'
  BY <1>1, <1>2 DEF ScheduleNext, IInv, CountInv
<1>5. OneTaskPerChain'
  BY <1>2, Numbers DEF ScheduleNext, OneTaskPerChain
<1>6. StopIsSeen'
  BY <1>1, <1>2 DEF ScheduleNext, IInv, TypeOK, StopIsSeen
<1> QED BY <1>3, <1>4, <1>5, <1>6, HeldIsAliveNext DEF IInv

\* The successor is in the queue, and its predecessor no more of the chain.
LEMMA EnqueueInv ==
    ASSUME IInv, NEW w \in Workers, Enqueue(w)
    PROVE  IInv'
<1>1. /\ Go(w, "release") /\ "release" \in States /\ Holds("release") = 1
      /\ Chained("release") = 0 /\ Holds(pc[w]) = 1 /\ Chained(pc[w]) = 1
      /\ w \in Busy
  BY DEF Enqueue, States, Holds, Chained, Busy
<1>2. /\ pc' \in [Workers -> States] /\ pc'[w] = "release"
      /\ \A v \in Workers : v # w => pc'[v] = pc[v]
      /\ Busy' = Busy \cup {w}
      /\ Cardinality(Holding') = Cardinality(Holding)
      /\ Cardinality(Chains') = Cardinality(Chains) - 1
      /\ Cardinality(Chains') \in Nat
  BY <1>1, Moved, Numbers DEF IInv
<1>3. TypeOK'
  BY <1>2 DEF Enqueue, IInv, TypeOK
<1>4. CountInv'
  BY <1>1, <1>2 DEF Enqueue, IInv, CountInv
<1>5. OneTaskPerChain'
  BY <1>2, Numbers DEF Enqueue, OneTaskPerChain
<1>6. StopIsSeen'
  BY <1>2 DEF Enqueue, IInv, TypeOK, StopIsSeen
<1> QED BY <1>3, <1>4, <1>5, <1>6, HeldIsAliveNext DEF IInv

\* The last reference takes the executor with it, and the process if that was the
\* last path to the pool.
LEMMA ReleaseInv ==
    ASSUME IInv, NEW w \in Workers, Release(w)
    PROVE  IInv'
<1>1. /\ Go(w, "idle") /\ "idle" \in States /\ Holds("idle") = 0
      /\ Chained("idle") = 0 /\ Holds(pc[w]) = 1 /\ Chained(pc[w]) = 0
  BY DEF Release, States, Holds, Chained
<1>2. /\ pc' \in [Workers -> States] /\ pc'[w] = "idle"
      /\ \A v \in Workers : v # w => pc'[v] = pc[v]
      /\ Busy' = Busy \ {w}
      /\ Cardinality(Holding') = Cardinality(Holding) - 1
      /\ Cardinality(Holding') \in Nat
      /\ Cardinality(Chains') = Cardinality(Chains)
  BY <1>1, Moved, Numbers DEF IInv
<1>3. /\ strong \in Nat \ {0}
      /\ strong = Cardinality(Holding) + (IF ownerRef THEN 1 ELSE 0)
  BY <1>2, Numbers DEF IInv, CountInv
<1>4. TypeOK'
  BY <1>2, <1>3 DEF Release, IInv, TypeOK
<1>5. CountInv'
  <2>1. strong' = Cardinality(Holding') + (IF ownerRef' THEN 1 ELSE 0)
    BY <1>2, <1>3, Numbers DEF Release
  <2>2. alive' <=> strong' > 0
    <3>1. strong > 1 <=> strong' > 0
      BY <1>3 DEF Release
    <3>2. alive' = (strong > 1)
      BY DEF Release
    <3> QED BY <3>1, <3>2
  <2>3. pool = "alive" => alive' \/ ownerPool \/ crashed'
    <3>1. alive' <=> strong # 1
      BY <1>3, <2>2 DEF Release
    <3>2. crashed' = (strong = 1 /\ ~ownerPool)
      BY DEF Release
    <3> QED BY <3>1, <3>2
  <2>4. pool # "alive" => ~alive' /\ ~ownerPool
    BY <1>3, Numbers DEF Release, IInv, CountInv
  <2>5. pool = "gone" => Busy' = {}
    BY <1>2 DEF IInv, CountInv
  <2>6. tooLate' \subseteq Busy' /\ (tooLate' # {} => stopped) /\ (stopped => stopFlag)
    BY <1>2 DEF Release, IInv, CountInv
  <2> QED BY <2>1, <2>2, <2>3, <2>4, <2>5, <2>6 DEF Release, CountInv
<1>6. OneTaskPerChain'
  <2>1. alive' => alive
    BY <1>3, Numbers DEF Release, IInv, CountInv
  <2> QED BY <1>2, <2>1, Numbers DEF Release, OneTaskPerChain
<1>7. StopIsSeen'
  BY <1>2 DEF Release, IInv, TypeOK, StopIsSeen
<1> QED BY <1>4, <1>5, <1>6, <1>7, HeldIsAliveNext DEF IInv

-----------------------------------------------------------------------------
(* The steps of the owner.                                                 *)

LEMMA StartInv == ASSUME IInv, Start PROVE IInv'
<1>1. Holding' = Holding /\ Chains' = Chains /\ Busy' = Busy
  BY DEF Start, Holding, Chains, Busy
<1>2. TypeOK'
  BY PeriodicAssumption DEF Start, IInv, TypeOK
<1>3. CountInv' /\ StopIsSeen'
  BY <1>1 DEF Start, IInv, CountInv, StopIsSeen
<1>4. OneTaskPerChain'
  BY <1>1, Numbers DEF Start, OneTaskPerChain
<1> QED BY <1>2, <1>3, <1>4, HeldIsAliveNext DEF IInv

LEMMA StopInv == ASSUME IInv, Stop PROVE IInv'
<1>1. Holding' = Holding /\ Chains' = Chains /\ Busy' = Busy
  BY DEF Stop, Holding, Chains, Busy
<1>2. TypeOK'
  BY DEF Stop, IInv, TypeOK
<1>3. CountInv' /\ StopIsSeen'
  BY <1>1 DEF Stop, IInv, CountInv, StopIsSeen
<1>4. OneTaskPerChain'
  BY <1>1, Numbers DEF Stop, OneTaskPerChain
<1> QED BY <1>2, <1>3, <1>4, HeldIsAliveNext DEF IInv

LEMMA DropExecutorInv == ASSUME IInv, DropExecutor PROVE IInv'
<1>1. Holding' = Holding /\ Chains' = Chains /\ Busy' = Busy
  BY DEF DropExecutor, Holding, Chains, Busy
<1>2. /\ strong = Cardinality(Holding) + 1 /\ strong \in Nat \ {0}
      /\ alive /\ pool = "alive"
  <2>1. strong = Cardinality(Holding) + 1
    BY DEF DropExecutor, IInv, CountInv
  <2>2. strong > 0 /\ strong \in Nat \ {0}
    BY <2>1, Numbers
  <2> QED BY <2>1, <2>2 DEF IInv, CountInv
<1>3. TypeOK'
  <2>1. alive' \in BOOLEAN /\ strong' \in Nat /\ pool' \in {"alive", "joining", "gone"}
    BY <1>2 DEF DropExecutor
  <2>2. {stopFlag, alive', FALSE, ownerPool, stopped, crashed} \subseteq BOOLEAN
    BY <2>1 DEF IInv, TypeOK
  <2> QED BY <2>1, <2>2 DEF DropExecutor, IInv, TypeOK
<1>4. CountInv'
  <2>1. strong' = Cardinality(Holding') + (IF ownerRef' THEN 1 ELSE 0)
    BY <1>1, <1>2, Numbers DEF DropExecutor
  <2>2. alive' <=> strong' > 0
    <3>1. strong > 1 <=> strong' > 0
      BY <1>2 DEF DropExecutor
    <3>2. alive' = (strong > 1)
      BY DEF DropExecutor
    <3> QED BY <3>1, <3>2
  <2>3. /\ pool' # "alive" => ~alive' /\ ~ownerPool
        /\ pool' = "alive" => alive' \/ ownerPool \/ crashed
        /\ pool' # "gone"
    <3>1. alive' <=> strong # 1
      BY <1>2, <2>2 DEF DropExecutor
    <3>2. pool' = IF strong = 1 /\ ~ownerPool THEN "joining" ELSE pool
      BY DEF DropExecutor
    <3> QED BY <1>2, <3>1, <3>2
  <2> QED BY <1>1, <2>1, <2>2, <2>3 DEF DropExecutor, IInv, CountInv
<1>5. OneTaskPerChain' /\ StopIsSeen'
  BY <1>1, <1>2, Numbers DEF DropExecutor, IInv, OneTaskPerChain, StopIsSeen
<1> QED BY <1>3, <1>4, <1>5, HeldIsAliveNext DEF IInv

LEMMA DropPoolInv == ASSUME IInv, DropPool PROVE IInv'
<1>1. Holding' = Holding /\ Chains' = Chains /\ Busy' = Busy
  BY DEF DropPool, Holding, Chains, Busy
<1>2. TypeOK'
  BY DEF DropPool, IInv, TypeOK
<1>3. CountInv' /\ StopIsSeen'
  BY <1>1 DEF DropPool, IInv, TypeOK, CountInv, StopIsSeen
<1>4. OneTaskPerChain'
  BY <1>1, Numbers DEF DropPool, OneTaskPerChain
<1> QED BY <1>2, <1>3, <1>4, HeldIsAliveNext DEF IInv

LEMMA PoolJoinedInv == ASSUME IInv, PoolJoined PROVE IInv'
<1>1. Holding' = Holding /\ Chains' = Chains /\ Busy' = {}
  BY DEF PoolJoined, Holding, Chains, Busy
<1>2. TypeOK'
  BY DEF PoolJoined, IInv, TypeOK
<1>3. CountInv' /\ StopIsSeen' /\ ~alive'
  BY <1>1 DEF PoolJoined, IInv, CountInv, StopIsSeen, Busy
<1>4. OneTaskPerChain'
  BY <1>1, <1>3, Numbers DEF PoolJoined, OneTaskPerChain
<1> QED BY <1>2, <1>3, <1>4, HeldIsAliveNext DEF IInv

LEMMA TerminateInv == ASSUME IInv, Terminate PROVE IInv'
BY DEF Terminate, IInv, TypeOK, CountInv, OneTaskPerChain, NothingRunsOnTheDead,
   StopIsSeen, Holding, Chains, Busy

LEMMA StutterInv == ASSUME IInv, UNCHANGED vars PROVE IInv'
<1>1. Holding' = Holding /\ Chains' = Chains /\ Busy' = Busy
  BY DEF vars, Holding, Chains, Busy
<1> QED BY <1>1 DEF vars, IInv, TypeOK, CountInv, OneTaskPerChain,
           NothingRunsOnTheDead, StopIsSeen

LEMMA NextInv == IInv /\ [Next]_vars => IInv'
<1> SUFFICES ASSUME IInv, [Next]_vars PROVE IInv'
  OBVIOUS
<1>1. ASSUME NEW w \in Workers, WorkerStep(w) PROVE IInv'
  BY <1>1, TakeTaskInv, LockInv, CheckInv, CallInv, ReturnInv, WakeInv,
     ScheduleNextInv, EnqueueInv, ReleaseInv DEF WorkerStep
<1>2. CASE Start \/ Stop \/ DropExecutor \/ DropPool \/ PoolJoined \/ Terminate
  BY <1>2, StartInv, StopInv, DropExecutorInv, DropPoolInv, PoolJoinedInv, TerminateInv
<1>3. CASE UNCHANGED vars
  BY <1>3, StutterInv
<1> QED BY <1>1, <1>2, <1>3 DEF Next

-----------------------------------------------------------------------------
\* The inductive invariant holds in every reachable state of an executor.
THEOREM Invariance == Spec => []IInv
BY InitInv, NextInv, PTL DEF Spec

\* A chain neither forks nor gets lost (periodic_executor.cpp:35-52).
THEOREM ChainsKept == Spec => []OneTaskPerChain
<1>1. IInv => OneTaskPerChain
  BY DEF IInv
<1> QED BY <1>1, Invariance, PTL

\* No task runs on an executor that was destroyed, nor in a pool that is gone
\* (periodic_executor.h:33, 50-60).
THEOREM NoDeadRuns == Spec => []NothingRunsOnTheDead
<1>1. IInv => NothingRunsOnTheDead
  BY DEF IInv
<1> QED BY <1>1, Invariance, PTL

-----------------------------------------------------------------------------
(* A program's flush is such an executor.                                  *)

LEMMA MainSteps ==
    ASSUME Main
    PROVE  Start \/ Stop \/ DropExecutor \/ DropPool \/ UNCHANGED vars
BY DEF Main, SetupSignalHandlers, ExecuteFails, StartPeriodicFlush, SetRunning,
   RunReturns, StopFlush, ResetFlush, FinalFlush, DestroyMembers, Quiet

LEMMA FlusherWorks ==
    ASSUME NEW w \in Workers, Flusher(w)
    PROVE  WorkerStep(w)
BY DEF Flusher, WorkerStep

LEMMA EitherSteps == [EitherNext]_programVars => [Next]_vars
<1> SUFFICES ASSUME [EitherNext]_programVars PROVE [Next]_vars
  OBVIOUS
<1>1. CASE UNCHANGED programVars
  BY <1>1 DEF programVars
<1>2. CASE EitherNext
  <2>1. ~crashed
    BY <1>2 DEF EitherNext
  <2>2. ASSUME NEW w \in Workers, EitherWorker(w) PROVE Next
    <3>1. WorkerStep(w)
      BY <2>2, FlusherWorks DEF EitherWorker
    <3> QED BY <2>1, <3>1 DEF Next
  <2>3. ASSUME Main PROVE [Next]_vars
    BY <2>1, <2>3, MainSteps DEF Next
  <2>4. ASSUME OnInterrupt \/ ThrowsOut PROVE [Next]_vars
    BY <2>1, <2>4 DEF OnInterrupt, ThrowsOut, Next
  <2>5. ASSUME Start \/ Stop \/ DropExecutor \/ DropPool \/ Terminate \/ Joined
        PROVE  Next
    BY <2>1, <2>5 DEF Next, Joined
  <2> QED BY <1>2, <2>2, <2>3, <2>4, <2>5 DEF EitherNext
<1> QED BY <1>1, <1>2

\* Whatever a program does with its flush, an owner of an executor may do: every
\* behaviour of the program is one of PeriodicExecutor (program.ipp:61-288).
THEOREM ProgramImplements == FairEitherSpec => Spec
<1>1. EitherInit => Init
  BY DEF EitherInit, ProgramInit
<1> QED BY <1>1, EitherSteps, PTL DEF FairEitherSpec, Spec

\* Where the main thread is goes with what it has done to its executor.
LEMMA ProgramInitInv == EitherInit => ProgramTypeOK /\ MainInv
<1> SUFFICES ASSUME EitherInit PROVE ProgramTypeOK /\ MainInv
  OBVIOUS
<1>1. Init
  BY DEF EitherInit, ProgramInit
<1>2. TypeOK
  BY <1>1, InitInv DEF IInv
<1>3. /\ phase \in {"boot", "elsewhere"} /\ running = FALSE /\ lateFlushes = 0
  BY DEF EitherInit, ProgramInit
<1>4. ProgramTypeOK
  <2>1. phase \in Phases /\ lateFlushes \in 0..2
    BY <1>3 DEF Phases
  <2>2. running \in BOOLEAN
    BY <1>3
  <2> QED BY <1>2, <2>1, <2>2 DEF ProgramTypeOK
<1>5. starts = 0
  BY <1>1 DEF Init
<1>6. MainInv
  BY <1>3, <1>5 DEF MainInv
<1> QED BY <1>4, <1>6

\* At most one worker is in the chain, and none if nothing was started.
LEMMA OneChain ==
    ASSUME IInv, starts <= 1
    PROVE  /\ \A w, v \in Chains : w = v
           /\ starts = 0 => Chains = {}
           /\ Cardinality({w \in Workers : pc[w] = "callback"}) <= 1
<1> DEFINE callers == {w \in Workers : pc[w] = "callback"}
<1>1. IsFiniteSet(Chains) /\ Cardinality(Chains) \in Nat /\ Cardinality(Chains) <= starts
  BY Numbers, Finite
<1>2. ASSUME NEW w \in Chains, NEW v \in Chains, w # v PROVE FALSE
  <2>1. IsFiniteSet(Chains \ {w}) /\ Cardinality(Chains \ {w}) = Cardinality(Chains) - 1
    BY <1>1, FS_RemoveElement
  <2>2. Chains \ {w} # {}
    BY <1>2
  <2>3. Cardinality(Chains \ {w}) # 0
    BY <2>1, <2>2, FS_EmptySet
  <2> QED BY <1>1, <2>1, <2>3, FS_CardinalityType, Numbers
<1>3. starts = 0 => Chains = {}
  BY <1>1, FS_EmptySet
<1>4. callers \in SUBSET Chains
  BY DEF Chains
<1>5. Cardinality(callers) <= Cardinality(Chains) /\ Cardinality(callers) \in Nat
  BY <1>1, <1>4, FS_Subset, FS_CardinalityType
<1> QED BY <1>1, <1>2, <1>3, <1>5, Numbers

\* A worker may begin a flush after the final one, if it had seen the flag clear;
\* no other will, for the flag is set by then.
LEMMA FlusherInv ==
    ASSUME IInv, IInv', ProgramTypeOK, MainInv, lateFlushes <= 1, phase # "elsewhere",
           ~crashed, NEW w \in Workers, Flusher(w)
    PROVE  ProgramTypeOK' /\ MainInv' /\ lateFlushes' <= 1
<1>1. WorkerStep(w) /\ phase' = phase /\ running' = running
  BY FlusherWorks DEF Flusher, mainVars
<1>2. starts' = starts /\ (stopFlag => stopFlag') /\ starts <= 1 /\ starts \in Nat
  <2>1. ASSUME NEW result \in {"false", "throws"}, Return(w, result)
        PROVE  starts' = starts /\ (stopFlag => stopFlag')
    <3>1. stopFlag' = (stopFlag \/ result = "true") /\ starts' = starts
      BY <2>1 DEF Return
    <3> QED BY <3>1
  <2>2. ASSUME TakeTask(w) \/ Lock(w) \/ Check(w) \/ Call(w) \/ Wake(w)
               \/ ScheduleNext(w) \/ Enqueue(w) \/ Release(w)
        PROVE  starts' = starts /\ (stopFlag => stopFlag')
    <3>1. UNCHANGED <<stopFlag, starts>>
      BY <2>2 DEF TakeTask, Lock, Check, Call, Wake, ScheduleNext, Enqueue, Release
    <3> QED BY <3>1
  <2>3. starts' = starts /\ (stopFlag => stopFlag')
    BY <2>1, <2>2 DEF Flusher
  <2> QED BY <2>3, Numbers DEF MainInv
<1>3. /\ lateFlushes \in {0, 1}
      /\ lateFlushes' = IF pc[w] = "call" /\ AfterFinalFlush
                          THEN lateFlushes + 1 ELSE lateFlushes
  BY DEF Flusher, ProgramTypeOK
<1>4. pc[w] = "call" /\ AfterFinalFlush => lateFlushes = 0
  BY <1>3 DEF MainInv
<1>5. lateFlushes' \in {0, 1}
  BY <1>3, <1>4
<1>6. ProgramTypeOK'
  BY <1>1, <1>5 DEF ProgramTypeOK, IInv
<1>7. ASSUME lateFlushes' > 0
      PROVE  AfterFinalFlush' /\ \A v \in Workers : pc'[v] # "call"
  <2>1. AfterFinalFlush /\ phase' = phase
    BY <1>1, <1>3, <1>7 DEF MainInv
  <2>2. ASSUME NEW v \in Workers, pc'[v] = "call" PROVE FALSE
    <3>1. CASE pc[v] = "call"
      <4>1. lateFlushes = 0 /\ pc[w] = "call"
        BY <1>3, <1>7, <3>1 DEF MainInv
      <4>2. v = w
        BY <1>2, <3>1, <4>1, OneChain DEF Chains
      <4>3. Call(w)
        BY <4>1 DEF Flusher, TakeTask, Lock, Check, Call, Return, Wake, ScheduleNext,
           Enqueue, Release
      <4> QED BY <2>2, <4>2, <4>3 DEF Call, Go, IInv, TypeOK
    <3>2. CASE pc[v] # "call"
      <4>1. v = w /\ Check(w) /\ ~stopFlag
        BY <2>2, <3>2 DEF Flusher, TakeTask, Lock, Check, Call, Return, Wake,
           ScheduleNext, Enqueue, Release, Go, IInv, TypeOK
      <4>2. starts = 0
        BY <2>1, <4>1 DEF MainInv, AfterFinalFlush
      <4>3. w \in Chains
        BY <4>1 DEF Check, Chains
      <4> QED BY <1>2, <4>2, <4>3, OneChain
    <3> QED BY <3>1, <3>2
  <2> QED BY <2>1, <2>2 DEF AfterFinalFlush
<1>8. MainInv'
  BY <1>1, <1>2, <1>7 DEF MainInv
<1> QED BY <1>5, <1>6, <1>8

\* A step of the main thread leaves the flush as its phase says.
LEMMA MainStepInv ==
    ASSUME IInv, IInv', ProgramTypeOK, MainInv, lateFlushes <= 1, phase # "elsewhere",
           ~crashed, Main
    PROVE  ProgramTypeOK' /\ MainInv' /\ lateFlushes' <= 1 /\ phase' # "elsewhere"
<1> USE DEF Move, Quiet, AfterFinalFlush
<1>1. starts \in Nat /\ lateFlushes \in 0..2 /\ lateFlushes' = lateFlushes
  BY Numbers DEF ProgramTypeOK, Main, SetupSignalHandlers, ExecuteFails,
     StartPeriodicFlush, SetRunning, RunReturns, StopFlush, ResetFlush, FinalFlush,
     DestroyMembers
<1>2. /\ pc' = pc
      /\ phase' \in Phases \ {"elsewhere", "boot"}
      /\ AfterFinalFlush => AfterFinalFlush'
  BY DEF Main, SetupSignalHandlers, ExecuteFails, StartPeriodicFlush, SetRunning,
     RunReturns, StopFlush, ResetFlush, FinalFlush, DestroyMembers, Start, Stop,
     DropExecutor, DropPool, vars, Phases
<1>3. running' \in BOOLEAN
  <2>1. running' = running \/ running' = TRUE
    BY DEF Main, SetupSignalHandlers, ExecuteFails, StartPeriodicFlush, SetRunning,
       RunReturns, StopFlush, ResetFlush, FinalFlush, DestroyMembers
  <2> QED BY <2>1 DEF ProgramTypeOK
<1>4. /\ starts' <= 1
      /\ phase' = "signals" => starts' = 0
  <2>1. CASE StartPeriodicFlush
    <3>1. starts = 0 /\ starts' = starts + 1 /\ phase' = "started"
      BY <2>1 DEF StartPeriodicFlush, Start, MainInv
    <3> QED BY <3>1
  <2>2. CASE ~StartPeriodicFlush
    <3>1. starts' = starts /\ (phase' = "signals" => phase = "boot")
      BY <2>2 DEF Main, SetupSignalHandlers, ExecuteFails, SetRunning, RunReturns,
         StopFlush, ResetFlush, FinalFlush, DestroyMembers, Stop, DropExecutor,
         DropPool, vars
    <3> QED BY <3>1 DEF MainInv
  <2> QED BY <2>1, <2>2
<1>5. phase' \in {"stopped", "reset", "flushed", "gone"} => stopFlag' \/ starts' = 0
  <2>1. CASE StopFlush
    BY <2>1 DEF StopFlush, Stop
  <2>2. CASE ExecuteFails \/ ResetFlush \/ FinalFlush \/ DestroyMembers
    <3>1. phase \in {"boot", "stopped", "reset", "flushed"} /\ stopFlag' = stopFlag
          /\ starts' = starts
      BY <2>2 DEF ExecuteFails, ResetFlush, FinalFlush, DestroyMembers, DropExecutor,
         DropPool, vars
    <3> QED BY <3>1 DEF MainInv
  <2>3. CASE SetupSignalHandlers \/ StartPeriodicFlush \/ SetRunning \/ RunReturns
    BY <2>3 DEF SetupSignalHandlers, StartPeriodicFlush, SetRunning, RunReturns
  <2> QED BY <2>1, <2>2, <2>3 DEF Main
<1>6. lateFlushes' > 0 => AfterFinalFlush' /\ \A w \in Workers : pc'[w] # "call"
  BY <1>1, <1>2 DEF MainInv
<1>7. MainInv'
  BY <1>2, <1>4, <1>5, <1>6 DEF MainInv
<1>8. ProgramTypeOK'
  <2>1. TypeOK'
    BY DEF IInv
  <2>2. lateFlushes' \in 0..2 /\ phase' \in Phases
    BY <1>1, <1>2
  <2> QED BY <1>3, <2>1, <2>2 DEF ProgramTypeOK
<1> QED BY <1>1, <1>2, <1>7, <1>8

FlushInv ==
    /\ IInv /\ ProgramTypeOK /\ MainInv
    /\ phase # "elsewhere" => lateFlushes <= 1

LEMMA ProgramNextInv == FlushInv /\ [EitherNext]_programVars => FlushInv'
<1> SUFFICES ASSUME FlushInv, [EitherNext]_programVars PROVE FlushInv'
  OBVIOUS
<1>1. IInv' /\ IInv /\ TypeOK'
  BY EitherSteps, NextInv DEF FlushInv, IInv
<1>2. CASE UNCHANGED programVars
  BY <1>1, <1>2 DEF programVars, vars, FlushInv, ProgramTypeOK, MainInv,
     AfterFinalFlush
<1>3. CASE phase = "elsewhere" /\ UNCHANGED <<mainVars, lateFlushes>>
  BY <1>1, <1>3 DEF mainVars, FlushInv, ProgramTypeOK, MainInv
<1>4. ASSUME phase # "elsewhere", ~crashed, NEW w \in Workers, Flusher(w)
      PROVE  FlushInv'
  BY <1>1, <1>4, FlusherInv DEF FlushInv
<1>5. CASE phase # "elsewhere" /\ ~crashed /\ Main
  BY <1>1, <1>5, MainStepInv DEF FlushInv
<1>6. CASE phase # "elsewhere" /\ OnInterrupt
  <2>1. /\ running' = FALSE
        /\ UNCHANGED <<stopFlag, pc, starts, crashed, phase, lateFlushes>>
    BY <1>6 DEF OnInterrupt, vars
  <2>2. MainInv'
    BY <2>1 DEF FlushInv, MainInv, AfterFinalFlush
  <2>3. phase' \in Phases /\ lateFlushes' \in 0..2
    BY <2>1 DEF FlushInv, ProgramTypeOK
  <2>4. running' \in BOOLEAN
    BY <2>1
  <2>5. ProgramTypeOK'
    BY <1>1, <2>3, <2>4 DEF ProgramTypeOK
  <2> QED BY <1>1, <2>1, <2>2, <2>5 DEF FlushInv
<1>7. CASE phase # "elsewhere" /\ Joined
  <2>1. /\ UNCHANGED <<stopFlag, pc, starts, crashed>>
        /\ UNCHANGED <<phase, running, lateFlushes>>
    BY <1>7 DEF Joined, PoolJoined, mainVars
  <2> QED BY <1>1, <2>1 DEF FlushInv, ProgramTypeOK, MainInv, AfterFinalFlush
<1>8. CASE ThrowsOut
  <2>1. /\ phase' = "thrown" /\ crashed' /\ phase # "elsewhere"
        /\ UNCHANGED <<starts, running, lateFlushes>>
    BY <1>8 DEF ThrowsOut, Terminate
  <2>2. MainInv'
    BY <2>1 DEF FlushInv, MainInv
  <2>3. ProgramTypeOK'
    BY <1>1, <2>1 DEF FlushInv, ProgramTypeOK, Phases
  <2> QED BY <1>1, <2>1, <2>2, <2>3 DEF FlushInv
<1> QED BY <1>2, <1>3, <1>4, <1>5, <1>6, <1>7, <1>8
    DEF EitherNext, EitherWorker, Joined

\* At no time does a program flush its log twice, and its destructor leaves room for
\* one flush at most after its own (periodic_executor.cpp:35-52, program.ipp:279-288).
THEOREM OneFlush == FairEitherSpec => []OneFlushAtATime
<1>1. EitherInit => FlushInv
  <2> SUFFICES ASSUME EitherInit PROVE FlushInv
    OBVIOUS
  <2>1. Init /\ lateFlushes = 0
    BY DEF EitherInit, ProgramInit
  <2> QED BY <2>1, InitInv, ProgramInitInv DEF FlushInv
<1>2. FlushInv => OneFlushAtATime
  <2> SUFFICES ASSUME FlushInv PROVE OneFlushAtATime
    OBVIOUS
  <2>1. phase # "elsewhere" => Cardinality({w \in Workers : pc[w] = "callback"}) <= 1
    BY OneChain DEF FlushInv, MainInv
  <2> QED BY <2>1 DEF FlushInv, OneFlushAtATime
<1> QED BY <1>1, <1>2, ProgramNextInv, PTL DEF FairEitherSpec

=============================================================================
