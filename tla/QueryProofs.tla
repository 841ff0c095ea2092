---------------------------- MODULE QueryProofs -----------------------------
(***************************************************************************)
(* Proofs about the way of a query: it is composed, organized for a        *)
(* database and executed by the client, for any number of threads,         *)
(* transactions, clauses, rows and attributes.                             *)
(*                                                                         *)
(* DbClient.  IInv is inductive: a transaction under the client's Txn_     *)
(* keeps a handle because the destructor that takes the last one has       *)
(* either found it current, and will end it before it lets go, or has      *)
(* found another one.  That callers end only their own rests on            *)
(* OwnersInv: what a destructor has found current stays current, since     *)
(* the only thread that could end it is in that destructor.                *)
(*                                                                         *)
(* RowOrganizer.  What is organized is a function of one clause of the     *)
(* heap, so the invariant is small (Formed), and the work is in what its   *)
(* loops leave: each is a recursive function, of which Recursion gives     *)
(* the existence and Stays the loop invariant.  Of an insert that is       *)
(* Filled, of an update Lists and Joints.                                  *)
(*                                                                         *)
(* Requests.  QueryInv is inductive.  Founded: a rank puts every clause    *)
(* above those it refers to, since a clause only joins one that does not   *)
(* reach it, so what walks the clauses is a recursion that ends            *)
(* (GraphRecursion, GraphStays).  Progress: a message is Sent, that is,    *)
(* each of its clauses stands for a handle and refers back to what stands  *)
(* for the children of that handle.  What is created of it is compared     *)
(* along the trail a place leaves in it.                                   *)
(***************************************************************************)
EXTENDS DbClient, RowOrganizer, SequenceTheorems, FiniteSetTheorems,
        WellFoundedInduction, TLAPS

-----------------------------------------------------------------------------
(* The database client.                                                    *)

LEMMA InitInv == Init => IInv /\ EndedByOwner
<1> SUFFICES ASSUME Init PROVE IInv /\ EndedByOwner
  OBVIOUS
<1> USE DbAssumption DEF Init
<1>1. TypeOK
  BY DEF TypeOK, Txns
<1>2. NoOrphan /\ DyingInv /\ OwnersInv
  BY DEF NoOrphan, DyingInv, OwnersInv
<1>3. TxnInv
  BY DEF TxnInv, Txns
<1>4. EndedByOwner
  BY DEF EndedByOwner
<1> QED BY <1>1, <1>2, <1>3, <1>4 DEF IInv

\* A transaction that begins is the next number, which nobody has or ended.
LEMMA OpenInv ==
    ASSUME IInv, EndedByOwner, NEW t \in Threads, dying[t] = 0, Open(t),
           polling' \in SUBSET polling, UNCHANGED ownersOnly
    PROVE  IInv' /\ EndedByOwner'
<1> DEFINE n == opened + 1
<1> USE DbAssumption DEF IInv, Open
<1>1. /\ opened \in Nat /\ n \in Txns /\ n # 0 /\ n \in 0..MaxTxns
      /\ state[n] = "none" /\ owner[n] = Nobody /\ endedBy[n] = Nobody
  BY DEF TypeOK, TxnInv, Txns
<1>2. TypeOK'
  <2>1. 1 \in 0..MaxCopies
    OBVIOUS
  <2>2. handles' \in [Threads -> [Txns -> 0..MaxCopies]]
    <3>1. handles \in [Threads -> [Txns -> 0..MaxCopies]]
      BY DEF TypeOK
    <3>2. [handles[t] EXCEPT ![n] = 1] \in [Txns -> 0..MaxCopies]
      BY <1>1, <2>1, <3>1
    <3>3. [handles EXCEPT ![t] = [handles[t] EXCEPT ![n] = 1]]
            \in [Threads -> [Txns -> 0..MaxCopies]]
      BY <3>1, <3>2
    <3>4. handles' = handles
          \/ handles' = [handles EXCEPT ![t] = [handles[t] EXCEPT ![n] = 1]]
      OBVIOUS
    <3> QED BY <3>1, <3>3, <3>4
  <2>3. /\ state' \in [Txns -> {"none", "active", "failed", "committed",
                                "aborted", "done"}]
        /\ owner' \in [Txns -> Threads \cup {Nobody}]
    BY <1>1 DEF TypeOK
  <2> QED BY <1>1, <2>2, <2>3 DEF TypeOK
<1>3. \A u \in Threads, i \in Txns :
        handles'[u][i] = handles[u][i] \/ (u = t /\ i = n /\ handles'[u][i] = 1)
  BY <1>1 DEF TypeOK
<1>4. NoOrphan'
  BY <1>1 DEF TypeOK, NoOrphan
<1>5. TxnInv'
  BY <1>1 DEF TypeOK, TxnInv, Txns
<1>6. DyingInv'
  BY ZenonT(60), <1>1, <1>3 DEF TypeOK, DyingInv, Txns
<1>7. OwnersInv'
  <2> SUFFICES ASSUME ownersOnly PROVE OwnersInv'
    BY DEF OwnersInv
  <2>1. ASSUME NEW u \in Threads, NEW i \in Txns, handles'[u][i] > 0
        PROVE  owner'[i] = u
    BY <1>1, <1>3, <2>1 DEF TypeOK, OwnersInv
  <2>2. \A u \in Threads : dying[u] = 0
    BY DEF TypeOK, OwnersInv
  <2> QED BY <2>1, <2>2 DEF OwnersInv
<1>8. EndedByOwner'
  BY <1>1 DEF TypeOK, EndedByOwner
<1> QED BY <1>2, <1>4, <1>5, <1>6, <1>7, <1>8

\* Ending the current transaction by a thread that may leaves only what logging
\* that threw can leave.
LEMMA CloseInv ==
    ASSUME IInv, EndedByOwner, NEW t \in Threads,
           NEW as \in {"committed", "aborted"},
           Close(t, as), ownersOnly => owner[current] = t
    PROVE  /\ NoOrphan' /\ current' \in {0, current} /\ log' \in {"threw", log}
           /\ state' \in [Txns -> {"none", "active", "failed", "committed",
                                   "aborted", "done"}]
           /\ endedBy' \in [Txns -> Threads \cup {Nobody}]
           /\ UNCHANGED <<opened, owner>> => TxnInv'
           /\ UNCHANGED <<ownersOnly, owner>> => EndedByOwner'
<1> USE DbAssumption DEF IInv, Close
<1>1. current \in Txns /\ t # Nobody
  BY DEF TypeOK, Txns
<1>2. NoOrphan' /\ current' \in {0, current} /\ log' \in {"threw", log}
  BY DEF NoOrphan
<1>3. /\ state' \in [Txns -> {"none", "active", "failed", "committed",
                              "aborted", "done"}]
      /\ endedBy' \in [Txns -> Threads \cup {Nobody}]
  BY <1>1 DEF TypeOK
<1>4. ASSUME UNCHANGED <<opened, owner>> PROVE TxnInv'
  <2>1. state[current] \in {"active", "failed", "committed", "aborted"}
    BY <1>1 DEF TxnInv
  <2>2. ASSUME NEW i \in Txns, i # current
        PROVE  state'[i] = state[i] /\ endedBy'[i] = endedBy[i]
    BY <2>2 DEF TypeOK
  <2>3. endedBy'[current] # Nobody
    BY <1>1 DEF TypeOK
  <2>4. \/ state'[current] = "done" /\ current' = 0 /\ log' = log
        \/ state'[current] = as /\ current' = current /\ log' = "threw"
    BY <1>1 DEF TypeOK
  <2>5. current \in Nat \ {0} /\ \A i \in Txns : i \in Nat \ {0}
    BY <1>1 DEF Txns
  <2> QED BY <1>1, <1>4, <2>1, <2>2, <2>3, <2>4, <2>5 DEF TxnInv
<1>5. ASSUME UNCHANGED <<ownersOnly, owner>> PROVE EndedByOwner'
  BY <1>1, <1>5 DEF TypeOK, EndedByOwner
<1> QED BY <1>2, <1>3, <1>4, <1>5

\* Commit and Rollback: with disciplined callers no destructor is under way.
LEMMA EndsInv ==
    ASSUME IInv, EndedByOwner, NEW t \in Threads, Ends(t)
    PROVE  IInv' /\ EndedByOwner'
<1>1. ASSUME Idle(t), MayEnd(t), NEW as \in {"committed", "aborted"}, Close(t, as),
             UNCHANGED <<ownersOnly, handles, opened, polling, dying, owner>>
      PROVE  IInv' /\ EndedByOwner'
  <2>1. /\ NoOrphan' /\ TxnInv' /\ EndedByOwner' /\ current' \in {0, current}
        /\ log' \in {"threw", log}
        /\ state' \in [Txns -> {"none", "active", "failed", "committed",
                                "aborted", "done"}]
        /\ endedBy' \in [Txns -> Threads \cup {Nobody}]
    BY <1>1, CloseInv DEF MayEnd
  <2>2. TypeOK'
    BY <1>1, <2>1, DbAssumption DEF IInv, TypeOK
  <2>3. DyingInv'
    BY <1>1 DEF IInv, DyingInv
  <2>4. OwnersInv'
    <3> SUFFICES ASSUME ownersOnly PROVE OwnersInv'
      BY <1>1 DEF OwnersInv
    <3>1. ASSUME NEW u \in Threads, dying[u] # 0 PROVE FALSE
      <4>1. u # t
        BY <1>1, <3>1 DEF Idle
      <4>2. dying[u] = current /\ handles[u][current] > 0 /\ current \in Txns
        BY <3>1 DEF IInv, TypeOK, DyingInv, OwnersInv, Txns
      <4> QED BY <1>1, <4>1, <4>2 DEF IInv, OwnersInv, MayEnd
    <3> QED BY <1>1, <3>1 DEF IInv, OwnersInv
  <2> QED BY <2>1, <2>2, <2>3, <2>4 DEF IInv
<1>2. CASE Commit(t)
  BY <1>1, <1>2 DEF Commit
<1>3. CASE Rollback(t)
  BY <1>1, <1>3 DEF Rollback
<1>4. CASE CommitFails(t)
  <2> USE <1>4 DEF CommitFails, IInv, MayEnd
  <2>1. current \in Txns
    BY DEF TypeOK, Txns
  <2>2. TypeOK'
    BY DEF TypeOK
  <2>3. NoOrphan' /\ DyingInv' /\ OwnersInv' /\ EndedByOwner'
    BY DEF NoOrphan, DyingInv, OwnersInv, EndedByOwner
  <2>4. TxnInv'
    BY <2>1 DEF TypeOK, TxnInv
  <2> QED BY <2>2, <2>3, <2>4
<1>5. CASE PollTimesOut(t)
  <2> USE <1>5 DEF PollTimesOut, IInv
  <2>1. TypeOK' /\ NoOrphan' /\ TxnInv' /\ DyingInv' /\ OwnersInv' /\ EndedByOwner'
    BY DEF TypeOK, NoOrphan, TxnInv, DyingInv, OwnersInv, EndedByOwner
  <2> QED BY <2>1
<1> QED BY <1>2, <1>3, <1>4, <1>5 DEF Ends

LEMMA BeginsInv ==
    ASSUME IInv, EndedByOwner, NEW t \in Threads, Begins(t)
    PROVE  IInv' /\ EndedByOwner'
<1>1. CASE BeginTransaction(t)
  BY <1>1, OpenInv DEF BeginTransaction, Idle
<1>2. CASE PollBegins(t)
  <2>1. dying[t] = 0
    BY <1>2 DEF PollBegins, IInv, DyingInv
  <2> QED BY <1>2, <2>1, OpenInv DEF PollBegins
<1>3. CASE StartPolling(t)
  <2> USE <1>3 DEF StartPolling, Idle, IInv
  <2>1. TypeOK' /\ NoOrphan' /\ TxnInv' /\ OwnersInv' /\ EndedByOwner'
    BY DEF TypeOK, NoOrphan, TxnInv, OwnersInv, EndedByOwner
  <2>2. DyingInv'
    BY DEF TypeOK, DyingInv
  <2> QED BY <2>1, <2>2
<1> QED BY <1>1, <1>2, <1>3 DEF Begins

\* A copy is made of a handle the thread has, for itself if it is disciplined.
LEMMA CopyHandleInv ==
    ASSUME IInv, EndedByOwner, NEW t \in Threads, NEW u \in Threads, NEW i \in Txns,
           CopyHandle(t, u, i)
    PROVE  IInv' /\ EndedByOwner'
<1> USE DbAssumption DEF IInv, CopyHandle
<1>1. TypeOK'
  BY DEF TypeOK
<1>2. \A v \in Threads, j \in Txns :
        /\ handles[v][j] \in Nat
        /\ handles'[v][j] = IF v = u /\ j = i THEN handles[v][j] + 1
                                              ELSE handles[v][j]
  BY DEF TypeOK
<1>3. NoOrphan'
  BY <1>2 DEF TypeOK, NoOrphan, Txns
<1>4. TxnInv' /\ EndedByOwner'
  BY DEF TxnInv, EndedByOwner
<1>5. DyingInv'
  BY SMTT(60), <1>2 DEF TypeOK, DyingInv, Txns
<1>6. OwnersInv'
  BY <1>2 DEF TypeOK, OwnersInv
<1> QED BY <1>1, <1>3, <1>4, <1>5, <1>6

\* A destructor that finds its transaction current keeps the handle until it has
\* rolled back; one that does not, or whose warning throws, lets go of it.
LEMMA DestroyInv ==
    ASSUME IInv, EndedByOwner, NEW t \in Threads, NEW i \in Txns, Destroy(t, i)
    PROVE  IInv' /\ EndedByOwner'
<1> USE DbAssumption DEF IInv, Destroy, Idle
<1>1. /\ handles[t][i] \in Nat \ {0} /\ handles[t][i] - 1 \in 0..MaxCopies
      /\ i \in Nat \ {0} /\ i \in 0..MaxTxns
  BY DEF TypeOK, Txns
<1>2. TypeOK'
  <2>1. handles' \in [Threads -> [Txns -> 0..MaxCopies]]
    BY <1>1 DEF TypeOK
  <2>2. dying' \in [Threads -> 0..MaxTxns] /\ log' \in {"fine", "threw", "terminated"}
    BY <1>1 DEF TypeOK
  <2> QED BY <2>1, <2>2 DEF TypeOK
<1>3. \A v \in Threads, j \in Txns :
        (v # t \/ j # i) => handles'[v][j] = handles[v][j]
  BY DEF TypeOK
<1>4. NoOrphan'
  BY <1>3 DEF TypeOK, NoOrphan, Txns
<1>5. TxnInv' /\ EndedByOwner'
  BY DEF TxnInv, EndedByOwner
<1>6. DyingInv'
  BY <1>3 DEF TypeOK, DyingInv, Txns
<1>7. OwnersInv'
  <2> SUFFICES ASSUME ownersOnly PROVE OwnersInv'
    BY DEF OwnersInv
  <2>1. ASSUME NEW v \in Threads, NEW j \in Txns, handles'[v][j] > 0
        PROVE  owner'[j] = v
    BY <1>1, <1>3, <2>1 DEF OwnersInv
  <2>2. ASSUME NEW v \in Threads, dying'[v] # 0 PROVE dying'[v] = current'
    BY <2>2 DEF TypeOK, OwnersInv
  <2> QED BY <2>1, <2>2 DEF OwnersInv
<1> QED BY <1>2, <1>4, <1>5, <1>6, <1>7

\* The Rollback of a destructor leaves no transaction current, unless logging
\* threw; with disciplined callers what it ends is its own.
LEMMA DestroyRollsBackInv ==
    ASSUME IInv, EndedByOwner, NEW t \in Threads, DestroyRollsBack(t)
    PROVE  IInv' /\ EndedByOwner'
<1> DEFINE d == dying[t]
<1> DEFINE nothing == current = 0 \/ (current # 0 /\ state[current] = "committed")
<1> USE DbAssumption DEF IInv
<1>1. /\ d \in Txns /\ handles[t][d] \in Nat \ {0}
      /\ handles[t][d] - 1 \in 0..MaxCopies
  BY DEF DestroyRollsBack, TypeOK, DyingInv, Txns
<1>2. ownersOnly => owner[d] = t /\ d = current
  BY <1>1 DEF OwnersInv, DestroyRollsBack
<1>3. /\ NoOrphan' /\ TxnInv' /\ EndedByOwner' /\ current' \in {0, current}
      /\ log' \in {"threw", log}
      /\ state' \in [Txns -> {"none", "active", "failed", "committed",
                              "aborted", "done"}]
      /\ endedBy' \in [Txns -> Threads \cup {Nobody}]
  <2>1. CASE nothing
    <3>1. current # 0 => log # "fine"
      BY <2>1 DEF TypeOK, TxnInv, Txns
    <3>2. NoOrphan'
      BY <2>1, <3>1 DEF DestroyRollsBack, NoOrphan
    <3> QED BY <2>1, <3>2 DEF DestroyRollsBack, TxnInv, EndedByOwner, TypeOK
  <2>2. CASE ~nothing
    <3>1. Close(t, "aborted") /\ UNCHANGED <<ownersOnly, opened, owner>>
      BY <2>2 DEF DestroyRollsBack
    <3> QED BY <1>2, <3>1, CloseInv
  <2> QED BY <2>1, <2>2
<1>4. \A v \in Threads, j \in Txns :
        (v # t \/ j # d) => handles'[v][j] = handles[v][j]
  BY DEF DestroyRollsBack, TypeOK
<1>5. TypeOK'
  <2>1. handles' \in [Threads -> [Txns -> 0..MaxCopies]]
    BY <1>1 DEF DestroyRollsBack, TypeOK
  <2>2. dying' \in [Threads -> 0..MaxTxns]
    BY DEF DestroyRollsBack, TypeOK
  <2> QED BY <1>3, <2>1, <2>2 DEF DestroyRollsBack, TypeOK
<1>6. DyingInv'
  BY <1>4 DEF DestroyRollsBack, TypeOK, DyingInv, Txns
<1>7. OwnersInv'
  <2> SUFFICES ASSUME ownersOnly PROVE OwnersInv'
    BY DEF OwnersInv, DestroyRollsBack
  <2>1. ASSUME NEW v \in Threads, NEW j \in Txns, handles'[v][j] > 0
        PROVE  owner'[j] = v
    BY <1>1, <1>2, <1>4, <2>1 DEF OwnersInv, DestroyRollsBack
  <2>2. ASSUME NEW v \in Threads PROVE dying'[v] = 0
    <3>1. v # t => dying[v] = 0
      BY <1>1, <1>2 DEF OwnersInv, DyingInv, TypeOK, Txns
    <3> QED BY <3>1 DEF DestroyRollsBack, TypeOK
  <2> QED BY <2>1, <2>2 DEF OwnersInv
<1> QED BY <1>3, <1>5, <1>6, <1>7

LEMMA DestroyThrowsInv ==
    ASSUME IInv, EndedByOwner, NEW t \in Threads, DestroyThrows(t)
    PROVE  IInv' /\ EndedByOwner'
<1> USE DEF IInv, DestroyThrows
<1>1. TypeOK' /\ NoOrphan' /\ TxnInv' /\ DyingInv' /\ OwnersInv' /\ EndedByOwner'
  BY DEF TypeOK, NoOrphan, TxnInv, DyingInv, OwnersInv, EndedByOwner
<1> QED BY <1>1

LEMMA NextInv == IInv /\ EndedByOwner /\ [Next]_vars => IInv' /\ EndedByOwner'
<1> SUFFICES ASSUME IInv, EndedByOwner, [Next]_vars PROVE IInv' /\ EndedByOwner'
  OBVIOUS
<1>1. ASSUME NEW t \in Threads, Begins(t) PROVE IInv' /\ EndedByOwner'
  BY <1>1, BeginsInv
<1>2. ASSUME NEW t \in Threads, Ends(t) PROVE IInv' /\ EndedByOwner'
  BY <1>2, EndsInv
<1>3. ASSUME NEW t \in Threads, Drops(t) PROVE IInv' /\ EndedByOwner'
  BY <1>3, DestroyInv, DestroyRollsBackInv, DestroyThrowsInv DEF Drops
<1>4. ASSUME NEW t \in Threads, NEW u \in Threads, NEW i \in Txns,
             CopyHandle(t, u, i)
      PROVE  IInv' /\ EndedByOwner'
  BY <1>4, CopyHandleInv
<1>5. CASE UNCHANGED vars
  BY <1>5 DEF vars, IInv, TypeOK, NoOrphan, TxnInv, DyingInv, OwnersInv,
     EndedByOwner
<1> QED BY <1>1, <1>2, <1>3, <1>4, <1>5 DEF Next

-----------------------------------------------------------------------------
\* The client, its handles and the server agree in every reachable state
\* (db_client.cpp:119-204).
THEOREM Invariance == Spec => []IInv
<1>1. Init => IInv /\ EndedByOwner
  BY InitInv
<1>2. IInv /\ EndedByOwner /\ [Next]_vars => IInv' /\ EndedByOwner'
  BY NextInv
<1> QED BY <1>1, <1>2, PTL DEF Spec

\* A transaction is ended by the thread that began it, if callers keep it and
\* its handles there (db_client.cpp:195-204).
THEOREM OwnersEndTheirOwn == Spec => []EndedByOwner
<1>1. Init => IInv /\ EndedByOwner
  BY InitInv
<1>2. IInv /\ EndedByOwner /\ [Next]_vars => IInv' /\ EndedByOwner'
  BY NextInv
<1> QED BY <1>1, <1>2, PTL DEF Spec

\* Unless logging threw, a transaction that blocks the client has a handle whose
\* destructor will end it (db_client.cpp:162-204).
THEOREM NeverOrphaned == Spec => []NoOrphan
<1>1. IInv => NoOrphan
  BY DEF IInv
<1> QED BY <1>1, Invariance, PTL

-----------------------------------------------------------------------------
(* Numbers and sequences.                                                  *)

LEMMA LeastNatural ==
    ASSUME NEW S \in SUBSET Nat, S # {}
    PROVE  \E n \in S : \A m \in S : n <= m
<1> DEFINE R == {ss \in Nat \X Nat : ss[1] < ss[2]}
<1>1. R = OpToRel(<, Nat)
  BY DEF OpToRel
<1>2. IsWellFoundedOn(R, Nat)
  BY <1>1, NatLessThanWellFounded
<1> HIDE DEF R
<1>3. PICK n \in S : \A m \in S : <<m, n>> \notin R
  BY <1>2, WFMin
<1>4. \A m \in S : ~(m < n)
  BY <1>3 DEF R
<1> QED BY <1>4

LEMMA SetInduction ==
    ASSUME NEW S \in SUBSET Nat, 0 \in S, \A n \in S : n + 1 \in S
    PROVE  S = Nat
<1> SUFFICES ASSUME Nat \ S # {} PROVE FALSE
  OBVIOUS
<1>1. PICK n \in Nat \ S : \A m \in Nat \ S : n <= m
  BY LeastNatural
<1>2. n # 0 /\ n - 1 \in Nat /\ n - 1 \in S
  BY <1>1
<1>3. (n - 1) + 1 = n
  BY <1>1
<1> QED BY <1>1, <1>2, <1>3

\* Induction up to a bound.
LEMMA UpTo ==
    ASSUME NEW n \in Nat, NEW S, 0 \in S, \A k \in 0..(n - 1) : k \in S => k + 1 \in S
    PROVE  \A k \in 0..n : k \in S
<1> DEFINE T == {k \in Nat : k <= n => k \in S}
<1>1. 0 \in T
  OBVIOUS
<1>2. ASSUME NEW k \in T PROVE k + 1 \in T
  <2>1. CASE k + 1 <= n
    <3>1. k \in 0..(n - 1) /\ k \in S
      BY <1>2, <2>1
    <3> QED BY <3>1
  <2>2. CASE ~(k + 1 <= n)
    BY <2>2
  <2> QED BY <2>1, <2>2
<1>3. T = Nat
  <2> HIDE DEF T
  <2>1. T \in SUBSET Nat
    BY DEF T
  <2> QED BY <1>1, <1>2, <2>1, SetInduction
<1>4. ASSUME NEW k \in 0..n PROVE k \in S
  <2>1. k \in Nat /\ k <= n /\ k \in T
    BY <1>3
  <2> QED BY <2>1
<1> QED BY <1>4

\* A set of numbers that is not empty has a last one.
LEMMA LastNumber ==
    ASSUME NEW n \in Nat, NEW S \in SUBSET (0..n), S # {}
    PROVE  \E k \in S : \A m \in S : m <= k
<1> DEFINE T == {n - k : k \in S}
<1>1. T \in SUBSET Nat /\ T # {}
  <2>1. \A k \in S : n - k \in Nat
    OBVIOUS
  <2> QED BY <2>1
<1> HIDE DEF T
<1>2. PICK t \in T : \A m \in T : t <= m
  BY <1>1, LeastNatural
<1>3. PICK k \in S : t = n - k
  BY DEF T
<1>4. ASSUME NEW m \in S PROVE m <= k
  <2>1. n - m \in T
    BY DEF T
  <2>2. n - k <= n - m /\ n \in Int /\ m \in Int /\ k \in Int
    BY <1>2, <1>3, <2>1
  <2> QED BY <2>2
<1> QED BY <1>4

\* The members of a set that do not exceed a number.
LEMMA Counted ==
    ASSUME NEW n \in Nat, NEW S \in SUBSET (1..n)
    PROVE  /\ Place(S, 0) = 0 /\ Place(S, n) = Cardinality(S)
           /\ \A i \in 0..n : Place(S, i) \in Nat
           /\ \A i \in 0..(n - 1) :
                Place(S, i + 1) = IF i + 1 \in S THEN Place(S, i) + 1 ELSE Place(S, i)
<1> DEFINE B(i) == {j \in S : j <= i}
<1>0. \A j \in S : j \in Int /\ 1 <= j /\ j <= n
  OBVIOUS
<1>1. IsFiniteSet(1..n)
  BY FS_Interval
<1>2. \A i : IsFiniteSet(B(i)) /\ Cardinality(B(i)) \in Nat
  <2> SUFFICES ASSUME NEW i PROVE IsFiniteSet(B(i)) /\ Cardinality(B(i)) \in Nat
    OBVIOUS
  <2>1. B(i) \in SUBSET (1..n)
    OBVIOUS
  <2>2. IsFiniteSet(B(i))
    <3> HIDE DEF B
    <3> QED BY <1>1, <2>1, FS_Subset
  <2> QED BY <2>2, FS_CardinalityType
<1>3. Place(S, 0) = 0
  <2>0. \A j \in S : ~(j <= 0)
    BY <1>0
  <2>1. B(0) = {}
    BY <2>0
  <2> QED BY <2>1, FS_EmptySet DEF Place
<1>4. Place(S, n) = Cardinality(S)
  <2>1. B(n) = S
    BY <1>0
  <2> QED BY <2>1 DEF Place
<1>5. ASSUME NEW i \in 0..(n - 1)
      PROVE  Place(S, i + 1) = IF i + 1 \in S THEN Place(S, i) + 1 ELSE Place(S, i)
  <2>0. \A j \in S : j <= i + 1 <=> j <= i \/ j = i + 1
    BY <1>0
  <2>3. ~(i + 1 <= i)
    OBVIOUS
  <2>1. CASE i + 1 \in S
    <3>1. B(i + 1) = B(i) \cup {i + 1} /\ i + 1 \notin B(i)
      BY <2>0, <2>1, <2>3
    <3>2. Cardinality(B(i) \cup {i + 1}) = Cardinality(B(i)) + 1
      <4> HIDE DEF B
      <4> QED BY <1>2, <3>1, FS_AddElement
    <3> QED BY <2>1, <3>1, <3>2 DEF Place
  <2>2. CASE i + 1 \notin S
    <3>1. B(i + 1) = B(i)
      BY <2>0, <2>2
    <3> QED BY <2>2, <3>1 DEF Place
  <2> QED BY <2>1, <2>2
<1>6. \A i \in 0..n : Place(S, i) \in Nat
  BY <1>2 DEF Place
<1> HIDE DEF B
<1> QED BY <1>3, <1>4, <1>5, <1>6

\* What is defined by recursion up to a bound: if each step leads from U[k - 1] to
\* U[k], there is a function of these values, and every such function has them.
Steps(step, n, U) == \A k \in 1..n : step[k] \in [U[k - 1] -> U[k]]

Runs(f, n, U, a, step) ==
    /\ f = [k \in 0..n |-> f[k]] /\ f[0] = a
    /\ \A k \in 1..n : f[k] = step[k][f[k - 1]]
    /\ \A k \in 0..n : f[k] \in U[k]

Follows(f, n, U, a, step) ==
    f[0] = a /\ \A k \in 1..n : f[k - 1] \in U[k - 1] => f[k] = step[k][f[k - 1]]

LEMMA Recursion ==
    ASSUME NEW n \in Nat, NEW U, NEW a \in U[0], NEW step, Steps(step, n, U)
    PROVE  \E f : Runs(f, n, U, a, step)
<1> USE DEF Steps, Runs
<1> DEFINE Is(f, m) == Runs(f, m, U, a, step)
           T == {m \in 0..n : \E f : Is(f, m)}
<1>1. 0 \in T
  <2> DEFINE f == [k \in 0..0 |-> a]
  <2>1. Is(f, 0)
    OBVIOUS
  <2> HIDE DEF f, Is
  <2> QED BY <2>1
<1>2. ASSUME NEW m \in 0..(n - 1), m \in T PROVE m + 1 \in T
  <2>1. PICK f : Is(f, m)
    BY <1>2
  <2> DEFINE g == [k \in 0..(m + 1) |-> IF k = m + 1 THEN step[m + 1][f[m]] ELSE f[k]]
  <2>2. step[m + 1][f[m]] \in U[m + 1]
    <3>1. m + 1 \in 1..n /\ f[m] \in U[m] /\ (m + 1) - 1 = m
      BY <2>1
    <3> QED BY <3>1
  <2>3. \A k \in 0..(m + 1) : k # m + 1 => k \in 0..m
    OBVIOUS
  <2>4. /\ g = [k \in 0..(m + 1) |-> g[k]] /\ g[0] = a
        /\ \A k \in 0..(m + 1) : g[k] \in U[k]
    BY <2>1, <2>2, <2>3
  <2>5. ASSUME NEW k \in 1..(m + 1) PROVE g[k] = step[k][g[k - 1]]
    <3>1. k - 1 \in 0..(m + 1) /\ k - 1 # m + 1 /\ k \in 0..(m + 1)
      OBVIOUS
    <3>2. g[k - 1] = f[k - 1]
      BY <3>1
    <3>3. CASE k = m + 1
      <4>1. k - 1 = m
        BY <3>3
      <4> QED BY <3>1, <3>2, <3>3, <4>1
    <3>4. CASE k # m + 1
      <4>1. k \in 1..m
        BY <3>4
      <4>2. f[k] = step[k][f[k - 1]]
        BY <2>1, <4>1
      <4> QED BY <3>1, <3>2, <3>4, <4>2
    <3> QED BY <3>3, <3>4
  <2>6. Is(g, m + 1)
    <3> HIDE DEF g
    <3> QED BY <2>4, <2>5
  <2> HIDE DEF g, Is
  <2>7. m + 1 \in 0..n /\ \E h : Is(h, m + 1)
    BY <2>6
  <2> QED BY <2>7
<1>3. n \in T
  <2> HIDE DEF T
  <2>1. \A k \in 0..n : k \in T
    BY <1>1, <1>2, UpTo
  <2> QED BY <2>1
<1> QED BY <1>3

LEMMA Stays ==
    ASSUME NEW n \in Nat, NEW U, NEW a \in U[0], NEW step, Steps(step, n, U),
           NEW f, Follows(f, n, U, a, step)
    PROVE  \A k \in 0..n : f[k] \in U[k]
<1> DEFINE T == {k \in 0..n : f[k] \in U[k]}
<1>1. 0 \in T
  BY DEF Follows
<1>2. ASSUME NEW k \in 0..(n - 1), k \in T PROVE k + 1 \in T
  <2>1. k + 1 \in 1..n /\ k + 1 \in 0..n /\ (k + 1) - 1 = k /\ f[k] \in U[k]
    BY <1>2
  <2> QED BY <2>1 DEF Follows, Steps
<1>3. \A k \in 0..n : k \in T
  <2> HIDE DEF T
  <2> QED BY <1>1, <1>2, UpTo
<1> QED BY <1>3

\* Those of a sequence are added one by one.
LEMMA ThoseIs ==
    ASSUME NEW A, NEW s \in Seq(A), NEW S
    PROVE  \E f : /\ f[0] = <<>>
                  /\ \A n \in 1..Len(s) :
                       f[n] = IF s[n] \in S THEN Append(f[n - 1], s[n]) ELSE f[n - 1]
                  /\ Those(s, S) = f[Len(s)]
<1>1. PICK l \in Nat : l = Len(s)
  BY LenProperties
<1>2. \A n \in 1..l : s[n] \in A
  BY <1>1, ElementOfSeq
<1> DEFINE next(n, g) == IF s[n] \in S THEN Append(g, s[n]) ELSE g
           step == [n \in 1..l |-> [g \in Seq(A) |-> next(n, g)]]
           U == [n \in 0..l |-> Seq(A)]
           Is(f) == f = [n \in 0..l |-> IF n = 0 THEN <<>> ELSE next(n, f[n - 1])]
<1>3. <<>> \in U[0]
  OBVIOUS
<1>4. Steps(step, l, U)
  <2>1. ASSUME NEW n \in 1..l, NEW g \in Seq(A) PROVE next(n, g) \in Seq(A)
    BY <1>2, AppendProperties
  <2>2. \A n \in 1..l : n - 1 \in 0..l /\ n \in 0..l
    OBVIOUS
  <2> HIDE DEF next
  <2> QED BY <2>1, <2>2 DEF Steps
<1>5. \E f : Is(f)
  <2> HIDE DEF step, next, Is, U
  <2>1. PICK f : Runs(f, l, U, <<>>, step)
    BY <1>3, <1>4, Recursion
  <2> USE DEF Runs
  <2>2. ASSUME NEW k \in 1..l PROVE f[k] = next(k, f[k - 1])
    <3>1. k - 1 \in 0..l
      OBVIOUS
    <3>2. f[k - 1] \in Seq(A)
      BY <2>1, <3>1 DEF U
    <3>3. step[k][f[k - 1]] = next(k, f[k - 1])
      BY <3>2 DEF step
    <3> QED BY <2>1, <3>3
  <2>3. \A k \in 0..l : k # 0 => k \in 1..l
    OBVIOUS
  <2>4. Is(f)
    BY <2>1, <2>2, <2>3 DEF Is
  <2> QED BY <2>4
<1> DEFINE f == CHOOSE h : Is(h)
<1>6. Is(f)
  BY <1>5
<1>7. Those(s, S) = f[l]
  BY <1>1 DEF Those
<1> HIDE DEF f
<1>8. f[0] = <<>>
  BY <1>6
<1>9. ASSUME NEW n \in 1..l PROVE f[n] = next(n, f[n - 1])
  <2>1. n \in 0..l /\ n # 0
    OBVIOUS
  <2> HIDE DEF next
  <2> QED BY <1>6, <2>1
<1> QED BY <1>1, <1>7, <1>8, <1>9

\* They are those at the places of the sequence where there is one, in order.
Selected(s, S) == {i \in 1..Len(s) : s[i] \in S}

Lists(those, s, D) ==
    /\ Len(those) = Cardinality(D)
    /\ \A i \in D : Place(D, i) \in 1..Cardinality(D) /\ those[Place(D, i)] = s[i]
    /\ \A k \in 1..Cardinality(D) : \E i \in D : Place(D, i) = k

LEMMA ThoseAre ==
    ASSUME NEW A, NEW s \in Seq(A), NEW S
    PROVE  Those(s, S) \in Seq(A) /\ Lists(Those(s, S), s, Selected(s, S))
<1> DEFINE D == Selected(s, S)
<1>1. PICK f : /\ f[0] = <<>>
               /\ \A n \in 1..Len(s) :
                    f[n] = IF s[n] \in S THEN Append(f[n - 1], s[n]) ELSE f[n - 1]
               /\ Those(s, S) = f[Len(s)]
  BY ThoseIs
<1>2. PICK l \in Nat : l = Len(s)
  BY LenProperties
<1>3. D \in SUBSET (1..l) /\ \A i \in 1..l : i \in D <=> s[i] \in S
  BY <1>2 DEF Selected
<1> HIDE DEF D
<1>4. \A i \in 1..l : s[i] \in A
  BY <1>2, ElementOfSeq
<1> DEFINE P(n) == Place(D, n)
           Good(n) == /\ f[n] \in Seq(A) /\ Len(f[n]) = P(n)
                      /\ \A i \in D : i <= n => P(i) \in 1..P(n) /\ f[n][P(i)] = s[i]
                      /\ \A k \in 1..P(n) : \E i \in D : i <= n /\ P(i) = k
           G == {n \in 0..l : Good(n)}
<1>5. /\ P(0) = 0 /\ P(l) = Cardinality(D)
      /\ \A i \in 0..l : P(i) \in Nat
      /\ \A i \in 0..(l - 1) : P(i + 1) = IF i + 1 \in D THEN P(i) + 1 ELSE P(i)
  BY <1>3, Counted
<1> HIDE DEF P
<1>6. \A i \in D : i \in Int /\ 1 <= i /\ i <= l
  BY <1>3
<1>7. 0 \in G
  <2>1. \A i \in D : ~(i <= 0)
    BY <1>6
  <2>2. f[0] \in Seq(A) /\ Len(f[0]) = 0
    BY <1>1, EmptySeq
  <2> QED BY <1>5, <2>1, <2>2
<1>8. ASSUME NEW n \in 0..(l - 1), n \in G PROVE n + 1 \in G
  <2>1. Good(n) /\ n \in 0..l /\ P(n) \in Nat /\ n + 1 \in 1..l /\ n + 1 \in 0..l
    BY <1>5, <1>8
  <2>2. f[n + 1] = IF n + 1 \in D THEN Append(f[n], s[n + 1]) ELSE f[n]
    <3>1. (n + 1) - 1 = n
      OBVIOUS
    <3> QED BY <1>1, <1>2, <1>3, <2>1, <3>1
  <2>3. \A i \in D : i <= n + 1 <=> i <= n \/ i = n + 1
    BY <1>6
  <2>4. CASE n + 1 \in D
    <3>1. P(n + 1) = P(n) + 1
      BY <1>5, <2>4
    <3> DEFINE t == Append(f[n], s[n + 1])
    <3>2. /\ t \in Seq(A) /\ Len(t) = P(n) + 1
          /\ \A k \in 1..P(n) : t[k] = f[n][k]
          /\ t[P(n) + 1] = s[n + 1]
      <4>1. f[n] \in Seq(A) /\ s[n + 1] \in A /\ Len(f[n]) = P(n)
        BY <1>4, <2>1
      <4> QED BY <4>1, AppendProperties
    <3>3. f[n + 1] = t
      BY <2>2, <2>4
    <3> HIDE DEF t
    <3>4. ASSUME NEW i \in D, i <= n + 1
          PROVE  P(i) \in 1..P(n + 1) /\ f[n + 1][P(i)] = s[i]
      <4>1. CASE i <= n
        <5>1. P(i) \in 1..P(n) /\ f[n][P(i)] = s[i]
          BY <2>1, <4>1
        <5> QED BY <2>1, <3>1, <3>2, <3>3, <5>1
      <4>2. CASE i = n + 1
        BY <2>1, <3>1, <3>2, <3>3, <4>2
      <4> QED BY <2>3, <3>4, <4>1, <4>2
    <3>5. ASSUME NEW k \in 1..P(n + 1) PROVE \E i \in D : i <= n + 1 /\ P(i) = k
      <4>1. CASE k \in 1..P(n)
        <5>1. PICK i \in D : i <= n /\ P(i) = k
          BY <2>1, <4>1
        <5> QED BY <2>3, <5>1
      <4>2. CASE k = P(n) + 1
        BY <2>3, <2>4, <3>1, <4>2
      <4> QED BY <2>1, <3>1, <4>1, <4>2
    <3> QED BY <2>1, <3>1, <3>2, <3>3, <3>4, <3>5
  <2>5. CASE n + 1 \notin D
    <3>1. P(n + 1) = P(n) /\ f[n + 1] = f[n]
      BY <1>5, <2>2, <2>5
    <3>2. \A i \in D : i <= n + 1 <=> i <= n
      BY <2>3, <2>5
    <3> QED BY <2>1, <3>1, <3>2
  <2> QED BY <2>4, <2>5
<1>9. l \in G
  <2> HIDE DEF G
  <2>1. \A n \in 0..l : n \in G
    BY <1>7, <1>8, UpTo
  <2> QED BY <2>1
<1>10. \A i \in D : i <= l
  BY <1>6
<1> QED BY <1>1, <1>2, <1>5, <1>9, <1>10 DEF P, D, Lists

-----------------------------------------------------------------------------
(* The rows of an insert.                                                  *)

\* What a row of attributes in A may have in its cells.
Cells(A) == {DefaultClause} \cup {ValueOf(a) : a \in A}

States(A) == [selectors : Seq({BuilderColumn(a.path) : a \in A}),
              values : Seq(Seq(Cells(A))), row : Seq(Cells(A))]

Has(columns, path) == Columns(columns, path) # {}

Absent(path, row, from, to) == \A l \in from..to : row[l].path # path

\* A cell once the first k attributes of the row are put.
CellOf(columns, j, cell, row, k) ==
    LET path == columns[j].value IN
    IF j = PathToIndex(columns, path)
    THEN \/ cell = DefaultClause /\ Absent(path, row, 1, k)
         \/ \E i \in 1..k : /\ row[i].path = path /\ Absent(path, row, i + 1, k)
                            /\ cell = ValueOf(row[i])
    ELSE cell = DefaultClause

\* The first k attributes of the row are put into its cells.
Filled(columns, cells, row, k) ==
    /\ Len(cells) = Len(columns)
    /\ \A i \in 1..k : Has(columns, row[i].path)
    /\ \A j \in 1..Len(columns) : CellOf(columns, j, cells[j], row, k)

LEMMA LastColumn ==
    ASSUME NEW B, NEW columns \in Seq(B), NEW path, Has(columns, path)
    PROVE  /\ PathToIndex(columns, path) \in 1..Len(columns)
           /\ columns[PathToIndex(columns, path)].value = path
<1> DEFINE C == Columns(columns, path)
<1>1. PICK n \in Nat : n = Len(columns)
  BY LenProperties
<1>2. C \in SUBSET (0..n)
  <2>1. DOMAIN columns = 1..n /\ \A j \in 1..n : j \in 0..n
    BY <1>1, LenProperties
  <2> QED BY <2>1 DEF Columns
<1>3. \A j \in C : j \in 1..n /\ columns[j].value = path
  BY <1>1, LenProperties DEF Columns
<1> HIDE DEF C
<1>4. \E j \in C : \A k \in C : k <= j
  BY <1>2, LastNumber DEF C, Has
<1>5. PathToIndex(columns, path) \in C
  BY <1>4 DEF PathToIndex, C
<1> QED BY <1>1, <1>3, <1>5

\* A new column changes nothing for the others.
Widens(more, columns, path) ==
    /\ Len(more) = Len(columns) + 1
    /\ more[Len(columns) + 1].value = path
    /\ \A j \in 1..Len(columns) : more[j] = columns[j]
    /\ Has(more, path) /\ PathToIndex(more, path) = Len(columns) + 1
    /\ \A p : p # path => /\ Has(more, p) <=> Has(columns, p)
                        /\ PathToIndex(more, p) = PathToIndex(columns, p)

LEMMA ColumnAdded ==
    ASSUME NEW B, NEW columns \in Seq(B), NEW path, BuilderColumn(path) \in B,
           ~Has(columns, path),
           NEW more, more = Append(columns, BuilderColumn(path))
    PROVE  more \in Seq(B) /\ Widens(more, columns, path)
<1>1. PICK n \in Nat : n = Len(columns) /\ DOMAIN columns = 1..n
  BY LenProperties
<1>2. /\ more \in Seq(B) /\ Len(more) = n + 1
      /\ more[n + 1] = BuilderColumn(path)
      /\ \A j \in 1..n : more[j] = columns[j]
  BY <1>1, AppendProperties
<1>3. DOMAIN more = 1..(n + 1)
  BY <1>2, LenProperties
<1>4. BuilderColumn(path).value = path
  BY DEF BuilderColumn, Clause
<1>5. \A j : j \in 1..(n + 1) <=> j \in 1..n \/ j = n + 1
  OBVIOUS
<1>6. n + 1 \notin 1..n
  OBVIOUS
<1>7. \A j \in 1..n : columns[j].value # path
  BY <1>1 DEF Columns, Has
<1>8. Columns(more, path) = {n + 1}
  BY <1>2, <1>3, <1>4, <1>5, <1>7 DEF Columns
<1>9. ASSUME NEW p, p # path PROVE Columns(more, p) = Columns(columns, p)
  BY <1>1, <1>2, <1>3, <1>4, <1>5, <1>9 DEF Columns
<1>10. Has(more, path) /\ PathToIndex(more, path) = n + 1
  BY <1>8 DEF Has, PathToIndex
<1>11. ASSUME NEW p, p # path
       PROVE  /\ Has(more, p) <=> Has(columns, p)
              /\ PathToIndex(more, p) = PathToIndex(columns, p)
  <2>1. Columns(more, p) = Columns(columns, p)
    BY <1>9, <1>11
  <2> QED BY <2>1 DEF Has, PathToIndex
<1> QED BY <1>1, <1>2, <1>4, <1>10, <1>11 DEF Widens

LEMMA Grows ==
    ASSUME NEW B, NEW V, NEW columns \in Seq(B), NEW cells \in Seq(V),
           DefaultClause \in V, NEW row, NEW k \in Nat, Filled(columns, cells, row, k),
           NEW path, BuilderColumn(path) \in B, ~Has(columns, path)
    PROVE  Filled(Append(columns, BuilderColumn(path)), Pad(cells), row, k)
<1> DEFINE more == Append(columns, BuilderColumn(path))
           padded == Pad(cells)
<1>1. PICK n \in Nat : n = Len(columns) /\ n = Len(cells)
  BY LenProperties DEF Filled
<1>2. /\ more \in Seq(B) /\ Len(more) = n + 1
      /\ more[n + 1].value = path
      /\ \A j \in 1..n : more[j] = columns[j]
      /\ Has(more, path) /\ PathToIndex(more, path) = n + 1
      /\ \A p : p # path => /\ Has(more, p) <=> Has(columns, p)
                          /\ PathToIndex(more, p) = PathToIndex(columns, p)
  <2>1. more = Append(columns, BuilderColumn(path))
    OBVIOUS
  <2> HIDE DEF more
  <2>2. more \in Seq(B) /\ Widens(more, columns, path)
    BY <2>1, ColumnAdded
  <2> QED BY <1>1, <2>2 DEF Widens
<1>3. /\ Len(padded) = n + 1 /\ padded[n + 1] = DefaultClause
      /\ \A j \in 1..n : padded[j] = cells[j]
  BY <1>1, AppendProperties DEF Pad
<1> HIDE DEF more, padded
<1>4. \A i \in 1..k : row[i].path # path
  BY DEF Filled
<1>6. \A i \in 1..k : Has(more, row[i].path)
  BY <1>2, <1>4 DEF Filled
<1>7. ASSUME NEW j \in 1..n PROVE CellOf(more, j, padded[j], row, k)
  <2>1. columns[j].value # path
    <3>1. j \in DOMAIN columns
      BY <1>1, LenProperties
    <3> QED BY <3>1 DEF Columns, Has
  <2>2. CellOf(columns, j, cells[j], row, k)
    BY <1>1 DEF Filled
  <2> QED BY <1>2, <1>3, <2>1, <2>2 DEF CellOf
<1>8. CellOf(more, n + 1, padded[n + 1], row, k)
  <2>1. Absent(path, row, 1, k)
    BY <1>4 DEF Absent
  <2> QED BY <1>2, <1>3, <2>1 DEF CellOf
<1>9. \A j \in 1..(n + 1) : j \in 1..n \/ j = n + 1
  OBVIOUS
<1> QED BY <1>2, <1>3, <1>6, <1>7, <1>8, <1>9 DEF Filled, more, padded

LEMMA Sets ==
    ASSUME NEW B, NEW V, NEW columns \in Seq(B), NEW cells \in Seq(V),
           NEW row, NEW k \in Nat, Filled(columns, cells, row, k),
           ValueOf(row[k + 1]) \in V, Has(columns, row[k + 1].path)
    PROVE  LET set == [cells EXCEPT ![PathToIndex(columns, row[k + 1].path)]
                                        = ValueOf(row[k + 1])]
           IN set \in Seq(V) /\ Filled(columns, set, row, k + 1)
<1> DEFINE path == row[k + 1].path
           at == PathToIndex(columns, path)
           set == [cells EXCEPT ![at] = ValueOf(row[k + 1])]
<1>1. PICK n \in Nat : n = Len(columns) /\ n = Len(cells)
  BY LenProperties DEF Filled
<1>2. at \in 1..n /\ columns[at].value = path
  BY <1>1, LastColumn
<1>3. set \in Seq(V) /\ Len(set) = n /\ set[at] = ValueOf(row[k + 1])
      /\ \A j \in 1..n : j # at => set[j] = cells[j]
  <2>1. cells \in [1..n -> V]
    BY <1>1, LenProperties
  <2>2. set \in [1..n -> V] /\ set[at] = ValueOf(row[k + 1])
        /\ \A j \in 1..n : j # at => set[j] = cells[j]
    BY <1>2, <2>1
  <2> HIDE DEF set
  <2>3. set \in Seq(V)
    BY <2>2, SeqDef
  <2>4. Len(set) = n
    BY <2>2, <2>3, LenProperties
  <2> QED BY <2>2, <2>3, <2>4
<1> HIDE DEF set
<1>4. \A i \in 1..(k + 1) : i \in 1..k \/ i = k + 1
  OBVIOUS
<1>5. \A i \in 1..(k + 1) : Has(columns, row[i].path)
  BY <1>4 DEF Filled
<1>6. ASSUME NEW j \in 1..n PROVE CellOf(columns, j, set[j], row, k + 1)
  <2>1. CellOf(columns, j, cells[j], row, k)
    BY <1>1 DEF Filled
  <2>2. CASE columns[j].value = path
    <3>1. CASE j = at
      <4>1. k + 1 \in 1..(k + 1) /\ Absent(path, row, (k + 1) + 1, k + 1)
        BY DEF Absent
      <4> QED BY <1>3, <2>2, <3>1, <4>1 DEF CellOf
    <3>2. CASE j # at
      BY <1>3, <2>1, <2>2, <3>2 DEF CellOf
    <3> QED BY <3>1, <3>2
  <2>3. CASE columns[j].value # path
    <3> DEFINE p == columns[j].value
    <3>1. set[j] = cells[j]
      BY <1>2, <1>3, <2>3
    <3>2. \A from \in Nat : Absent(p, row, from, k) => Absent(p, row, from, k + 1)
      <4>1. \A from \in Nat : \A l \in from..(k + 1) : l \in from..k \/ l = k + 1
        OBVIOUS
      <4> QED BY <2>3, <4>1 DEF Absent
    <3>3. \A i \in 1..k : i \in 1..(k + 1) /\ i + 1 \in Nat
      OBVIOUS
    <3> HIDE DEF path, at
    <3> QED BY <2>1, <3>1, <3>2, <3>3 DEF CellOf
  <2> QED BY <2>2, <2>3
<1>7. Filled(columns, set, row, k + 1)
  BY <1>1, <1>3, <1>5, <1>6 DEF Filled
<1> QED BY <1>3, <1>7 DEF set

\* The first m rows are finished.
Finished(filling, rows, m) ==
    /\ Len(filling.values) = m
    /\ \A i \in 1..m : Filled(filling.selectors, filling.values[i], rows[i], Len(rows[i]))

\* They are, and the first k attributes of the row are put.
Begun(filling, rows, m, row, k) ==
    Finished(filling, rows, m) /\ Filled(filling.selectors, filling.row, row, k)

LEMMA PutAttributeKeeps ==
    ASSUME NEW A, NEW rows \in Seq(Seq(A)), NEW m \in 0..Len(rows),
           NEW filling \in States(A), NEW row, NEW k \in Nat,
           Begun(filling, rows, m, row, k), row[k + 1] \in A
    PROVE  LET next == PutAttribute(filling, row[k + 1])
           IN next \in States(A) /\ Begun(next, rows, m, row, k + 1)
<1> DEFINE a == row[k + 1]
           B == {BuilderColumn(b.path) : b \in A}
           V == Cells(A)
           grown == IF Columns(filling.selectors, a.path) # {} THEN filling
                    ELSE [selectors |-> Append(filling.selectors, BuilderColumn(a.path)),
                          values |-> PadEarlier(filling.values),
                          row |-> Pad(filling.row)]
           at == PathToIndex(grown.selectors, a.path)
           set == [grown.row EXCEPT ![at] = ValueOf(a)]
           next == [selectors |-> grown.selectors, values |-> grown.values, row |-> set]
<1>1. m \in Nat /\ \A i \in 1..m : Len(rows[i]) \in Nat
  <2>1. PICK l \in Nat : l = Len(rows)
    BY LenProperties
  <2>2. \A i \in 1..l : rows[i] \in Seq(A)
    BY <2>1, ElementOfSeq
  <2>3. m \in Nat /\ \A i \in 1..m : i \in 1..l
    BY <2>1
  <2> QED BY <2>2, <2>3, LenProperties
<1>2. /\ filling.selectors \in Seq(B) /\ filling.values \in Seq(Seq(V))
      /\ filling.row \in Seq(V)
  BY DEF States
<1>3. BuilderColumn(a.path) \in B /\ DefaultClause \in V /\ ValueOf(a) \in V
  BY DEF Cells
<1>4. \A i \in 1..m : filling.values[i] \in Seq(V)
  BY <1>2, ElementOfSeq DEF Begun, Finished
<1> HIDE DEF B, V
<1>5. /\ grown \in [selectors : Seq(B), values : Seq(Seq(V)), row : Seq(V)]
      /\ Begun(grown, rows, m, row, k) /\ Has(grown.selectors, a.path)
  <2>1. CASE Has(filling.selectors, a.path)
    <3>1. grown = filling
      BY <2>1 DEF Has
    <3>2. filling \in [selectors : Seq(B), values : Seq(Seq(V)), row : Seq(V)]
      BY DEF States, B, V
    <3> HIDE DEF grown
    <3> QED BY <2>1, <3>1, <3>2
  <2>2. CASE ~Has(filling.selectors, a.path)
    <3> DEFINE more == Append(filling.selectors, BuilderColumn(a.path))
               values == PadEarlier(filling.values)
    <3>1. grown = [selectors |-> more, values |-> values, row |-> Pad(filling.row)]
      BY <2>2 DEF Has
    <3>2. more \in Seq(B) /\ Has(more, a.path)
      <4>1. more = Append(filling.selectors, BuilderColumn(a.path))
        OBVIOUS
      <4> HIDE DEF more
      <4>2. more \in Seq(B) /\ Widens(more, filling.selectors, a.path)
        BY <1>2, <1>3, <2>2, <4>1, ColumnAdded
      <4> QED BY <4>2 DEF Widens
    <3>3. Pad(filling.row) \in Seq(V) /\ Filled(more, Pad(filling.row), row, k)
      <4>1. Filled(filling.selectors, filling.row, row, k)
        BY DEF Begun
      <4>2. Filled(more, Pad(filling.row), row, k)
        BY <1>2, <1>3, <2>2, <4>1, Grows
      <4> QED BY <1>2, <1>3, <4>2, AppendProperties DEF Pad
    <3>4. /\ values \in Seq(Seq(V)) /\ Len(values) = m
          /\ \A i \in 1..m : values[i] = Pad(filling.values[i])
      <4>1. DOMAIN filling.values = 1..m
        BY <1>2, LenProperties DEF Begun, Finished
      <4>2. \A i \in 1..m : Pad(filling.values[i]) \in Seq(V)
        BY <1>3, <1>4, AppendProperties DEF Pad
      <4>3. values = [i \in 1..m |-> Pad(filling.values[i])]
        BY <4>1 DEF PadEarlier
      <4> HIDE DEF values
      <4>4. /\ values \in [1..m -> Seq(V)]
            /\ \A i \in 1..m : values[i] = Pad(filling.values[i])
        BY <4>2, <4>3
      <4>5. values \in Seq(Seq(V))
        BY <1>1, <4>4, SeqDef
      <4> QED BY <1>1, <4>4, <4>5, LenProperties
    <3>5. ASSUME NEW i \in 1..m PROVE Filled(more, values[i], rows[i], Len(rows[i]))
      <4>1. Filled(filling.selectors, filling.values[i], rows[i], Len(rows[i]))
        BY DEF Begun, Finished
      <4>2. Filled(more, Pad(filling.values[i]), rows[i], Len(rows[i]))
        BY <1>1, <1>2, <1>3, <1>4, <2>2, <4>1, Grows
      <4> QED BY <3>4, <4>2
    <3> HIDE DEF more, values, grown
    <3> QED BY <3>1, <3>2, <3>3, <3>4, <3>5 DEF Begun, Finished
  <2> QED BY <2>1, <2>2
<1>6. PutAttribute(filling, a) = next
  <2>1. PutAttribute(filling, a) = [grown EXCEPT !.row = set]
    BY DEF PutAttribute
  <2> HIDE DEF grown, set
  <2> QED BY <1>5, <2>1
<1> HIDE DEF grown
<1>7. set \in Seq(V) /\ Filled(grown.selectors, set, row, k + 1)
  <2>1. /\ grown.selectors \in Seq(B) /\ grown.row \in Seq(V)
        /\ Filled(grown.selectors, grown.row, row, k)
    BY <1>5 DEF Begun
  <2> QED BY <1>3, <1>5, <2>1, Sets
<1> HIDE DEF set
<1>8. next \in States(A)
  BY <1>5, <1>7 DEF States, B, V
<1>9. Begun(next, rows, m, row, k + 1)
  BY <1>5, <1>7 DEF Begun, Finished
<1> QED BY <1>6, <1>8, <1>9

LEMMA EmptyRow ==
    ASSUME NEW B, NEW V, NEW columns \in Seq(B), DefaultClause \in V, NEW row
    PROVE  LET empty == [i \in DOMAIN columns |-> DefaultClause]
           IN empty \in Seq(V) /\ Filled(columns, empty, row, 0)
<1> DEFINE empty == [i \in DOMAIN columns |-> DefaultClause]
<1>1. PICK n \in Nat : n = Len(columns) /\ DOMAIN columns = 1..n
  BY LenProperties
<1>2. empty = [i \in 1..n |-> DefaultClause]
  BY <1>1
<1> HIDE DEF empty
<1>3. empty \in [1..n -> V] /\ \A j \in 1..n : empty[j] = DefaultClause
  BY <1>2
<1>4. empty \in Seq(V)
  BY <1>3, SeqDef
<1>5. Len(empty) = n
  BY <1>3, <1>4, LenProperties
<1>6. \A j \in 1..n : CellOf(columns, j, empty[j], row, 0)
  BY <1>3 DEF CellOf, Absent
<1> QED BY <1>1, <1>4, <1>5, <1>6 DEF Filled, empty

LEMMA PutRowKeeps ==
    ASSUME NEW A, NEW rows \in Seq(Seq(A)), NEW m \in Nat, m + 1 \in 1..Len(rows),
           NEW filling \in States(A), Finished(filling, rows, m)
    PROVE  LET next == PutRow(filling, rows[m + 1])
           IN next \in States(A) /\ Finished(next, rows, m + 1)
<1> DEFINE row == rows[m + 1]
           empty == [i \in DOMAIN filling.selectors |-> DefaultClause]
           start == [filling EXCEPT !.row = empty]
<1>1. m \in 0..Len(rows) /\ row \in Seq(A)
  <2>1. PICK l \in Nat : l = Len(rows)
    BY LenProperties
  <2> QED BY <2>1, ElementOfSeq
<1>2. PICK l \in Nat : l = Len(row) /\ \A k \in 1..l : row[k] \in A
  BY <1>1, LenProperties, ElementOfSeq
<1> DEFINE U == [k \in 0..l |-> {s \in States(A) : Begun(s, rows, m, row, k)}]
           step == [k \in 1..l |-> [s \in U[k - 1] |-> PutAttribute(s, row[k])]]
           Is(f) == f = [k \in 0..l |-> IF k = 0 THEN start
                                        ELSE PutAttribute(f[k - 1], row[k])]
<1>3. start \in States(A) /\ Begun(start, rows, m, row, 0)
  <2>1. empty \in Seq(Cells(A)) /\ Filled(filling.selectors, empty, row, 0)
    <3>1. /\ DefaultClause \in Cells(A)
          /\ filling.selectors \in Seq({BuilderColumn(a.path) : a \in A})
      BY DEF Cells, States
    <3> QED BY <3>1, EmptyRow
  <2> HIDE DEF empty
  <2>2. start \in States(A)
    BY <2>1 DEF States
  <2>3. /\ start.selectors = filling.selectors /\ start.values = filling.values
        /\ start.row = empty
    BY DEF States
  <2> HIDE DEF start, row
  <2> QED BY <2>1, <2>2, <2>3 DEF Begun, Finished
<1>4. ASSUME NEW k \in 1..l, NEW s \in U[k - 1] PROVE PutAttribute(s, row[k]) \in U[k]
  <2>1. k - 1 \in Nat /\ k - 1 \in 0..l /\ k \in 0..l /\ (k - 1) + 1 = k
    BY <1>2
  <2>2. s \in States(A) /\ Begun(s, rows, m, row, k - 1)
    BY <2>1
  <2>3. row[k] \in A
    BY <1>2
  <2> DEFINE j == k - 1
  <2> HIDE DEF row, U
  <2>4. /\ PutAttribute(s, row[j + 1]) \in States(A)
        /\ Begun(PutAttribute(s, row[j + 1]), rows, m, row, j + 1)
    <3>1. j \in Nat /\ s \in States(A) /\ Begun(s, rows, m, row, j) /\ row[j + 1] \in A
      BY <2>1, <2>2, <2>3
    <3> HIDE DEF j
    <3> QED BY <1>1, <3>1, PutAttributeKeeps
  <2> QED BY <2>1, <2>4 DEF U
<1> HIDE DEF row, start
<1>5. start \in U[0]
  BY <1>2, <1>3
<1>6. Steps(step, l, U)
  <2> HIDE DEF U
  <2> QED BY <1>4 DEF Steps
<1>7. \E f : Is(f)
  <2>1. PICK f : Runs(f, l, U, start, step)
    <3> HIDE DEF U, step
    <3> QED BY <1>2, <1>5, <1>6, Recursion
  <2> HIDE DEF U
  <2>2. ASSUME NEW k \in 1..l PROVE f[k] = PutAttribute(f[k - 1], row[k])
    <3>1. k - 1 \in 0..l
      BY <1>2
    <3>2. f[k - 1] \in U[k - 1]
      BY <2>1, <3>1 DEF Runs
    <3> QED BY <2>1, <3>2 DEF Runs
  <2>3. \A k \in 0..l : k # 0 => k \in 1..l
    BY <1>2
  <2> HIDE DEF step
  <2>4. Is(f)
    BY <2>1, <2>2, <2>3 DEF Runs
  <2> HIDE DEF Is
  <2> QED BY <2>4
<1> DEFINE put == CHOOSE f : Is(f)
<1>8. Is(put)
  BY <1>7
<1>9. PutRow(filling, row) = FinishRow(put[l])
  BY <1>2 DEF PutRow, start
<1> HIDE DEF put
<1>10. put[l] \in U[l]
  <2>1. put[0] = start /\ \A k \in 1..l : put[k] = PutAttribute(put[k - 1], row[k])
    <3>1. 0 \in 0..l /\ \A k \in 1..l : k \in 0..l /\ k # 0
      BY <1>2
    <3> HIDE DEF U, step
    <3> QED BY <1>8, <3>1
  <2>2. Follows(put, l, U, start, step)
    <3> HIDE DEF U, Is
    <3> QED BY <2>1 DEF Follows
  <2> HIDE DEF U, step, Is
  <2>3. l \in 0..l
    BY <1>2
  <2> QED BY <1>2, <1>5, <1>6, <2>2, <2>3, Stays
<1> DEFINE last == put[l]
<1>11. last \in States(A) /\ Begun(last, rows, m, row, Len(row))
  <2>1. l \in 0..l
    BY <1>2
  <2> QED BY <1>2, <1>10, <2>1
<1> HIDE DEF last
<1>12. /\ FinishRow(last) \in States(A) /\ Finished(FinishRow(last), rows, m + 1)
  <2>1. /\ last.values \in Seq(Seq(Cells(A))) /\ last.row \in Seq(Cells(A))
        /\ Len(last.values) = m
    BY <1>11 DEF States, Begun, Finished
  <2> DEFINE values == Append(last.values, last.row)
  <2>2. /\ values \in Seq(Seq(Cells(A))) /\ Len(values) = m + 1
        /\ \A i \in 1..m : values[i] = last.values[i]
        /\ values[m + 1] = last.row
    BY <2>1, AppendProperties
  <2> HIDE DEF values, U, step, Is
  <2>3. FinishRow(last) = [selectors |-> last.selectors, values |-> values,
                           row |-> last.row]
    <3> DEFINE X == Seq({BuilderColumn(a.path) : a \in A})
               Y == Seq(Seq(Cells(A)))
               Z == Seq(Cells(A))
    <3>1. last \in [selectors : X, values : Y, row : Z]
      BY <1>11 DEF States
    <3>2. FinishRow(last) = [last EXCEPT !.values = values]
      BY DEF FinishRow, values
    <3> HIDE DEF X, Y, Z
    <3> QED BY <3>1, <3>2
  <2>4. FinishRow(last) \in States(A)
    BY <1>11, <2>2, <2>3 DEF States
  <2>5. ASSUME NEW i \in 1..(m + 1)
        PROVE  Filled(last.selectors, values[i], rows[i], Len(rows[i]))
    <3>1. CASE i = m + 1
      BY <1>11, <2>2, <3>1 DEF Begun, row
    <3>2. CASE i # m + 1
      <4>1. i \in 1..m
        BY <3>2
      <4> QED BY <1>11, <2>2, <4>1 DEF Begun, Finished
    <3> QED BY <3>1, <3>2
  <2>6. Finished(FinishRow(last), rows, m + 1)
    BY <2>2, <2>3, <2>5 DEF Finished
  <2> QED BY <2>4, <2>6
<1> QED BY <1>9, <1>12 DEF row, last

LEMMA PutRowsFinishes ==
    ASSUME NEW A, NEW rows \in Seq(Seq(A)), rows # <<>>
    PROVE  PutRows(rows) \in States(A) /\ Finished(PutRows(rows), rows, Len(rows))
<1>1. PICK n \in Nat : n = Len(rows) /\ n # 0
  BY LenProperties, EmptySeq
<1> DEFINE first == [i \in DOMAIN rows[1] |-> BuilderColumn(rows[1][i].path)]
           start == [selectors |-> first, values |-> <<>>, row |-> <<>>]
           U == [k \in 0..n |-> {s \in States(A) : Finished(s, rows, k)}]
           step == [k \in 1..n |-> [s \in U[k - 1] |-> PutRow(s, rows[k])]]
           Is(f) == f = [k \in 0..n |-> IF k = 0 THEN start
                                        ELSE PutRow(f[k - 1], rows[k])]
<1>2. start \in States(A) /\ Finished(start, rows, 0)
  <2>1. rows[1] \in Seq(A)
    BY <1>1, ElementOfSeq
  <2>2. PICK l \in Nat : l = Len(rows[1]) /\ DOMAIN rows[1] = 1..l
    BY <2>1, LenProperties
  <2>3. \A i \in 1..l : rows[1][i] \in A
    BY <2>1, <2>2, ElementOfSeq
  <2> DEFINE B == {BuilderColumn(a.path) : a \in A}
  <2>4. first \in [1..l -> B]
    BY <2>2, <2>3
  <2> HIDE DEF first, B
  <2>5. first \in Seq(B)
    BY <2>4, SeqDef
  <2>6. start \in States(A)
    BY <2>5, EmptySeq DEF States, B
  <2>7. start.values = <<>> /\ Len(<<>>) = 0 /\ \A i \in 1..0 : FALSE
    BY EmptySeq
  <2> HIDE DEF start
  <2>8. Finished(start, rows, 0)
    BY <2>7 DEF Finished
  <2> QED BY <2>6, <2>8
<1>3. ASSUME NEW k \in 1..n, NEW s \in U[k - 1] PROVE PutRow(s, rows[k]) \in U[k]
  <2> DEFINE j == k - 1
  <2>1. j \in Nat /\ j \in 0..n /\ k \in 0..n /\ j + 1 = k /\ j + 1 \in 1..Len(rows)
    BY <1>1
  <2>2. s \in States(A) /\ Finished(s, rows, j)
    BY <2>1
  <2> HIDE DEF j, U
  <2>3. /\ PutRow(s, rows[j + 1]) \in States(A)
        /\ Finished(PutRow(s, rows[j + 1]), rows, j + 1)
    BY <2>1, <2>2, PutRowKeeps
  <2> QED BY <2>1, <2>3 DEF U
<1> HIDE DEF start
<1>4. start \in U[0]
  BY <1>1, <1>2
<1>5. Steps(step, n, U)
  <2> HIDE DEF U
  <2> QED BY <1>3 DEF Steps
<1>6. \E f : Is(f)
  <2>1. PICK f : Runs(f, n, U, start, step)
    <3> HIDE DEF U, step
    <3> QED BY <1>1, <1>4, <1>5, Recursion
  <2> HIDE DEF U
  <2>2. ASSUME NEW k \in 1..n PROVE f[k] = PutRow(f[k - 1], rows[k])
    <3>1. k - 1 \in 0..n
      BY <1>1
    <3>2. f[k - 1] \in U[k - 1]
      BY <2>1, <3>1 DEF Runs
    <3> QED BY <2>1, <3>2 DEF Runs
  <2>3. \A k \in 0..n : k # 0 => k \in 1..n
    BY <1>1
  <2> HIDE DEF step
  <2>4. Is(f)
    BY <2>1, <2>2, <2>3 DEF Runs
  <2> HIDE DEF Is
  <2> QED BY <2>4
<1> DEFINE done == CHOOSE f : Is(f)
<1>7. Is(done)
  BY <1>6
<1>8. PutRows(rows) = done[n]
  BY <1>1 DEF PutRows, start
<1> HIDE DEF done
<1>9. done[n] \in U[n]
  <2>1. done[0] = start /\ \A k \in 1..n : done[k] = PutRow(done[k - 1], rows[k])
    <3>1. 0 \in 0..n /\ \A k \in 1..n : k \in 0..n /\ k # 0
      BY <1>1
    <3> HIDE DEF U, step
    <3> QED BY <1>7, <3>1
  <2>2. Follows(done, n, U, start, step)
    <3> HIDE DEF U, Is
    <3> QED BY <2>1 DEF Follows
  <2> HIDE DEF U, step, Is
  <2>3. n \in 0..n
    BY <1>1
  <2> QED BY <1>1, <1>4, <1>5, <2>2, <2>3, Stays
<1> QED BY <1>1, <1>8, <1>9

\* The last attribute of a path in a row.
LEMMA LastOfIs ==
    ASSUME NEW A, NEW row \in Seq(A), NEW i \in 1..Len(row), NEW path,
           row[i].path = path, Absent(path, row, i + 1, Len(row))
    PROVE  LastOf(row, path) = row[i]
<1> DEFINE Is(k) == row[k].path = path /\ \A j \in (k + 1)..Len(row) : row[j].path # path
<1>1. PICK n \in Nat : n = Len(row) /\ DOMAIN row = 1..n
  BY LenProperties
<1>2. i \in 1..n /\ Is(i)
  BY <1>1 DEF Absent
<1>3. ASSUME NEW k \in 1..n, Is(k) PROVE k = i
  <2>1. CASE k < i
    <3>1. i \in (k + 1)..n
      BY <1>2, <2>1
    <3> QED BY <1>1, <1>3, <3>1
  <2>2. CASE i < k
    <3>1. k \in (i + 1)..n
      BY <1>3, <2>2, <1>2
    <3> QED BY <1>1, <1>2, <1>3, <3>1
  <2> QED BY <1>2, <2>1, <2>2
<1>4. LastOf(row, path) = row[CHOOSE k \in 1..n : Is(k)]
  BY <1>1 DEF LastOf
<1> HIDE DEF Is
<1>5. (CHOOSE k \in 1..n : Is(k)) = i
  BY <1>2, <1>3
<1> QED BY <1>4, <1>5

\* A value that is given is not DEFAULT.
LEMMA Given ==
    ASSUME NEW a, a.type \in Types, a.type # "message"
    PROVE  ValueOf(a) # DefaultClause
<1> SUFFICES ValueOf(a).kind # DefaultClause.kind
  OBVIOUS
<1>1. DefaultClause.kind = "Default"
  BY DEF DefaultClause, Clause
<1>2. ValueOf(a).kind = ValueKind[a.type]
  BY DEF ValueOf, Literal, Clause
<1>3. ValueKind[a.type] # "Default"
  BY DEF ValueKind, Types
<1> QED BY <1>1, <1>2, <1>3

\* A row is aligned when its attributes are put.
LEMMA FilledAligned ==
    ASSUME NEW A, \A a \in A : a.type \in Types, NEW row \in Seq(A),
           NEW B, NEW columns \in Seq(B), NEW cells, NEW path,
           Filled(columns, cells, row, Len(row))
    PROVE  Len(cells) = Len(columns) /\ RowAligned(columns, cells, row, path)
<1> DEFINE held == {j \in Columns(columns, path) : cells[j] # DefaultClause}
           a == LastOf(row, path)
<1>1. PICK n \in Nat : n = Len(columns) /\ DOMAIN columns = 1..n
  BY LenProperties
<1>2. PICK l \in Nat : l = Len(row) /\ DOMAIN row = 1..l
  BY LenProperties
<1>3. \A j \in Columns(columns, path) :
         /\ j \in 1..n /\ columns[j].value = path
         /\ CellOf(columns, j, cells[j], row, l)
  BY <1>1, <1>2 DEF Columns, Filled
<1>4. ASSUME \A j \in DOMAIN row : row[j].path # path PROVE held = {}
  <2>1. ASSUME NEW j \in Columns(columns, path) PROVE cells[j] = DefaultClause
    BY <1>2, <1>3, <1>4 DEF CellOf
  <2> QED BY <2>1
<1>5. ASSUME ~(\A j \in DOMAIN row : row[j].path # path), a.type # "message"
      PROVE  Cardinality(held) = 1 /\ \A j \in held : cells[j] = ValueOf(a)
  <2>1. PICK i \in 1..l : row[i].path = path
    BY <1>2, <1>5
  <2> DEFINE at == PathToIndex(columns, path)
  <2>2. at \in Columns(columns, path)
    <3>1. Has(columns, path)
      BY <1>2, <2>1 DEF Filled
    <3>2. at \in 1..n /\ columns[at].value = path
      BY <1>1, <3>1, LastColumn
    <3> QED BY <1>1, <3>2 DEF Columns
  <2>3. cells[at] = ValueOf(a) /\ a \in A
    <3>1. CellOf(columns, at, cells[at], row, l)
      BY <1>3, <2>2
    <3>2. PICK k \in 1..l : /\ row[k].path = path /\ Absent(path, row, k + 1, l)
                            /\ cells[at] = ValueOf(row[k])
      <4>1. ~Absent(path, row, 1, l)
        BY <2>1 DEF Absent
      <4> QED BY <1>3, <2>2, <3>1, <4>1 DEF CellOf
    <3> HIDE DEF a
    <3>3. a = row[k]
      BY <1>2, <3>2, LastOfIs DEF a
    <3>4. row[k] \in A
      BY <1>2, ElementOfSeq
    <3> QED BY <3>2, <3>3, <3>4
  <2> HIDE DEF a, at
  <2>4. cells[at] # DefaultClause
    BY <1>5, <2>3, Given
  <2>5. \A j \in Columns(columns, path) : j # at => cells[j] = DefaultClause
    BY <1>3 DEF CellOf, at
  <2>6. held = {at}
    BY <2>2, <2>4, <2>5
  <2> HIDE DEF held
  <2> QED BY <2>3, <2>6, FS_Singleton
<1>6. Len(cells) = Len(columns)
  BY DEF Filled
<1> QED BY <1>4, <1>5, <1>6 DEF RowAligned

LEMMA RowsFilledAligned ==
    ASSUME NEW A, \A a \in A : a.type \in Types,
           NEW t, t.rows \in Seq(Seq(A)), t.rows # <<>>
    PROVE  InsertAligned(t)
<1> DEFINE put == PutRows(t.rows)
           insert == OrganizeInsert(t)
<1>1. put \in States(A) /\ Finished(put, t.rows, Len(t.rows))
  BY PutRowsFinishes
<1>2. insert.operands = put.selectors /\ insert.rows = put.values
  <2> HIDE DEF put
  <2> QED BY DEF OrganizeInsert, BuilderInsert, Clause, put
<1> HIDE DEF put, insert
<1>3. PICK n \in Nat : n = Len(t.rows) /\ DOMAIN t.rows = 1..n
  BY LenProperties
<1>4. ASSUME NEW i \in 1..n
      PROVE  /\ Filled(put.selectors, put.values[i], t.rows[i], Len(t.rows[i]))
             /\ t.rows[i] \in Seq(A)
  BY <1>1, <1>3, ElementOfSeq DEF Finished
<1>5. put.selectors \in Seq({BuilderColumn(a.path) : a \in A})
  BY <1>1 DEF States
<1>6. ASSUME NEW i \in 1..n, NEW a \in ToSet(t.rows[i])
      PROVE  a.path \in {c.value : c \in ToSet(put.selectors)}
  <2>1. PICK l \in Nat : l = Len(t.rows[i]) /\ DOMAIN t.rows[i] = 1..l
    BY <1>4, LenProperties
  <2>2. PICK j \in 1..l : a = t.rows[i][j]
    BY <2>1 DEF ToSet
  <2>3. Has(put.selectors, a.path)
    BY <1>4, <2>1, <2>2 DEF Filled
  <2> QED BY <2>3 DEF Has, Columns, ToSet
<1>7. ASSUME NEW i \in 1..n, NEW path
      PROVE  /\ Len(insert.rows[i]) = Len(insert.operands)
             /\ RowAligned(insert.operands, insert.rows[i], t.rows[i], path)
  BY <1>2, <1>4, <1>5, FilledAligned
<1>8. Len(insert.rows) = Len(t.rows)
  BY <1>1, <1>2 DEF Finished
<1> QED BY <1>2, <1>3, <1>6, <1>7, <1>8 DEF InsertAligned, insert

-----------------------------------------------------------------------------
(* The statements of an update.                                            *)

LEMMA ExpressionIs ==
    ASSUME NEW type, NEW operands
    PROVE  /\ BuilderExpression(type, operands).type = type
           /\ BuilderExpression(type, operands).operands = operands
BY DEF BuilderExpression, Clause

\* The conditions are joined one after the other.
Joints(conditions, and, n) ==
    /\ and[1] = conditions[1]
    /\ \A k \in 2..n :
         /\ and[k].type = "and_"
         /\ and[k].operands = <<and[k - 1], conditions[k]>>

LEMMA ConjunctionJoins ==
    ASSUME NEW conditions, NEW n \in Nat, n = Len(conditions), n >= 1
    PROVE  \E and : Joints(conditions, and, n) /\ Conjunction(conditions) = and[n]
<1> DEFINE join(x, k) == BuilderExpression("and_", <<x, conditions[k]>>)
           Is(f, m) == f = [k \in 1..m |-> IF k = 1 THEN conditions[1]
                                           ELSE join(f[k - 1], k)]
           T == {m \in 0..n : \E f : Is(f, m)}
<1>1. 0 \in T
  <2> DEFINE f == [k \in 1..0 |-> 0]
  <2>1. Is(f, 0)
    OBVIOUS
  <2> HIDE DEF f, Is
  <2> QED BY <2>1
<1>2. ASSUME NEW m \in 0..(n - 1), m \in T PROVE m + 1 \in T
  <2>1. PICK f : Is(f, m)
    BY <1>2
  <2> HIDE DEF join
  <2> DEFINE g == [k \in 1..(m + 1) |-> IF k = 1 THEN conditions[1]
                                        ELSE join(f[k - 1], k)]
  <2>2. ASSUME NEW k \in 1..(m + 1), k # 1 PROVE g[k - 1] = f[k - 1]
    <3>1. k - 1 \in 1..m /\ k - 1 \in 1..(m + 1)
      BY <2>2
    <3> QED BY <2>1, <3>1
  <2>3. Is(g, m + 1)
    BY <2>2
  <2> HIDE DEF g, Is
  <2>4. m + 1 \in 0..n /\ \E h : Is(h, m + 1)
    BY <2>3
  <2> QED BY <2>4
<1>3. n \in T
  <2> HIDE DEF T
  <2>1. \A k \in 0..n : k \in T
    BY <1>1, <1>2, UpTo
  <2> QED BY <2>1
<1> DEFINE and == CHOOSE f : Is(f, n)
<1>4. Is(and, n)
  BY <1>3
<1>5. Conjunction(conditions) = and[n]
  BY DEF Conjunction
<1> HIDE DEF and
<1>6. 1 \in 1..n /\ \A k \in 2..n : k \in 1..n /\ k # 1
  OBVIOUS
<1>7. and[1] = conditions[1]
  BY <1>4, <1>6
<1>8. ASSUME NEW k \in 2..n
      PROVE  and[k].type = "and_" /\ and[k].operands = <<and[k - 1], conditions[k]>>
  <2>1. and[k] = join(and[k - 1], k)
    <3> HIDE DEF join
    <3> QED BY <1>4, <1>6
  <2> QED BY <2>1, ExpressionIs
<1> QED BY <1>5, <1>7, <1>8 DEF Joints

\* A condition selects the rows that pass every comparison it joins.
Compares(conditions, n) == \A k \in 1..n : conditions[k].type = "equals"

Passes(conditions, n, row) ==
    \A k \in 1..n : row[conditions[k].operands[1].value] = conditions[k].operands[2]

LEMMA ConjunctionSelects ==
    ASSUME NEW conditions, NEW n \in Nat, n = Len(conditions), n >= 1,
           Compares(conditions, n), NEW row
    PROVE  Selects(Conjunction(conditions), n, row) <=> Passes(conditions, n, row)
<1> USE DEF Compares, Passes
<1>1. PICK and : Joints(conditions, and, n) /\ Conjunction(conditions) = and[n]
  BY ConjunctionJoins
<1> DEFINE Is(f) == f = [k \in 1..n |-> IF k = n THEN and[n] ELSE f[k + 1].operands[1]]
           first == CHOOSE f : Is(f)
           last(k) == IF k = 1 THEN first[1] ELSE first[k].operands[2]
<1>2. Is(first)
  <2> DEFINE f == [k \in 1..n |-> and[k]]
  <2>1. ASSUME NEW k \in 1..n, k # n PROVE f[k] = f[k + 1].operands[1]
    <3>1. k + 1 \in 2..n /\ (k + 1) - 1 = k /\ k + 1 \in 1..n
      BY <2>1
    <3>2. and[k + 1].operands = <<and[k], conditions[k + 1]>>
      BY <1>1, <3>1 DEF Joints
    <3> QED BY <3>1, <3>2
  <2>2. f = [k \in 1..n |-> IF k = n THEN and[n] ELSE f[k + 1].operands[1]]
    <3>1. f = [k \in 1..n |-> f[k]] /\ f[n] = and[n]
      OBVIOUS
    <3> HIDE DEF f
    <3> QED BY <2>1, <3>1
  <2> HIDE DEF f
  <2>3. \E g : Is(g)
    BY <2>2
  <2> QED BY <2>3
<1>3. Selects(Conjunction(conditions), n, row) <=>
        /\ \A k \in 2..n : first[k].type = "and_"
        /\ \A k \in 1..n : /\ last(k).type = "equals"
                           /\ row[last(k).operands[1].value] = last(k).operands[2]
  BY <1>1 DEF Selects
<1> HIDE DEF first
<1>4. \A k \in 1..n : first[k] = and[k]
  <2> DEFINE T == {j \in 0..n : j = n \/ first[n - j] = and[n - j]}
  <2>1. 0 \in T
    <3>1. n \in 1..n /\ n - 0 = n
      OBVIOUS
    <3> QED BY <1>2, <3>1
  <2>2. ASSUME NEW j \in 0..(n - 1), j \in T PROVE j + 1 \in T
    <3>1. CASE j + 1 = n
      BY <3>1
    <3>2. CASE j + 1 # n
      <4> DEFINE k == n - (j + 1)
      <4>1. k \in 1..n /\ k # n /\ k + 1 = n - j /\ k + 1 \in 2..n /\ (k + 1) - 1 = k
        BY <3>2
      <4>2. first[k + 1] = and[k + 1]
        BY <2>2, <3>2, <4>1
      <4> HIDE DEF k
      <4>3. first[k] = first[k + 1].operands[1]
        BY <1>2, <4>1
      <4>4. and[k + 1].operands = <<and[k], conditions[k + 1]>>
        BY <1>1, <4>1 DEF Joints
      <4>5. first[k] = and[k]
        BY <4>2, <4>3, <4>4
      <4>6. j + 1 \in 0..n
        OBVIOUS
      <4> QED BY <4>5, <4>6 DEF k
    <3> QED BY <3>1, <3>2
  <2>3. \A j \in 0..n : j \in T
    <3> HIDE DEF T
    <3> QED BY <2>1, <2>2, UpTo
  <2>4. ASSUME NEW k \in 1..n PROVE first[k] = and[k]
    <3>1. n - k \in 0..n /\ n - k # n /\ n - (n - k) = k
      OBVIOUS
    <3> QED BY <2>3, <3>1
  <2> QED BY <2>4
<1> HIDE DEF Is
<1>5. \A k \in 2..n : first[k].type = "and_"
  <2>1. \A k \in 2..n : k \in 1..n
    OBVIOUS
  <2> QED BY <1>1, <1>4, <2>1 DEF Joints
<1>6. ASSUME NEW k \in 1..n PROVE last(k) = conditions[k]
  <2>1. CASE k = 1
    BY <1>1, <1>4, <2>1 DEF Joints
  <2>2. CASE k # 1
    <3>1. k \in 2..n
      BY <2>2
    <3>2. and[k].operands = <<and[k - 1], conditions[k]>>
      BY <1>1, <3>1 DEF Joints
    <3> QED BY <1>4, <2>2, <3>2
  <2> QED BY <2>1, <2>2
<1> HIDE DEF last
<1> QED BY <1>3, <1>5, <1>6

\* What is made of one set that gives the whole key.
LEMMA SetIsKeyed ==
    ASSUME NEW A, NEW table, NEW set \in Seq(A), ~MissesKeys(table, set)
    PROVE  SetKeyed(table, set, OrganizeSet(table, set))
<1> DEFINE keys == PrimaryKeys[table]
           O == {j \in DOMAIN set : set[j].path \notin keys}
           N == DOMAIN set \ O
           named == Those(set, KeysOf(table, set))
           given == Those(set, OthersOf(table, set))
           conditions == [i \in DOMAIN named |->
                             BuilderExpression("equals", Pair(named[i]))]
           update == OrganizeSet(table, set)
           rows == [keys -> {ValueOf(a) : a \in ToSet(set)}]
           meant(row) == \A j \in N : row[set[j].path] = ValueOf(set[j])
<1>1. PICK l \in Nat : l = Len(set) /\ DOMAIN set = 1..l
  BY LenProperties
<1>2. N = Selected(set, KeysOf(table, set))
  BY <1>1 DEF KeysOf, ToSet, Selected
<1>3. O = Selected(set, OthersOf(table, set))
  BY <1>1 DEF KeysOf, OthersOf, ToSet, Selected
<1>4. N \in SUBSET (1..l) /\ O \in SUBSET (1..l)
      /\ \A j \in 1..l : j \in N <=> set[j].path \in keys
  BY <1>1
<1>5. \A p \in keys : \E j \in N : set[j].path = p
  BY <1>1, <1>4 DEF MissesKeys, ToSet
<1>6. \A j \in N : set[j].path \in keys
  BY <1>1, <1>4
<1> HIDE DEF N, O, keys
<1>7. /\ named \in Seq(A) /\ Len(named) = Cardinality(N)
      /\ \A j \in N : Place(N, j) \in 1..Cardinality(N) /\ named[Place(N, j)] = set[j]
      /\ \A k \in 1..Cardinality(N) : \E j \in N : Place(N, j) = k
  BY <1>2, ThoseAre DEF Lists
<1>8. /\ given \in Seq(A) /\ Len(given) = Cardinality(O)
      /\ \A j \in O : Place(O, j) \in 1..Cardinality(O) /\ given[Place(O, j)] = set[j]
  BY <1>3, ThoseAre DEF Lists
<1>9. /\ update.rows = [i \in DOMAIN given |-> Pair(given[i])]
      /\ update.parts = IF named = <<>> THEN NoParts
                        ELSE [where |-> Conjunction(conditions)]
  <2> HIDE DEF named, given, conditions
  <2> QED BY DEF OrganizeSet, BuilderUpdate, Clause, named, given, conditions
<1> HIDE DEF named, given, update, meant, rows
<1>10. PICK n \in Nat : n = Cardinality(N) /\ DOMAIN named = 1..n
  BY <1>7, LenProperties
<1>11. PICK m \in Nat : m = Cardinality(O) /\ DOMAIN given = 1..m
  BY <1>8, LenProperties
<1>12. Len(update.rows) = Cardinality(O)
       /\ \A j \in O : update.rows[Place(O, j)]
                           = <<BuilderColumn(set[j].path), ValueOf(set[j])>>
  <2> DEFINE V == {Pair(a) : a \in A}
  <2>1. \A i \in 1..m : given[i] \in A
    BY <1>8, <1>11, ElementOfSeq
  <2>2. update.rows = [i \in 1..m |-> Pair(given[i])]
    BY <1>9, <1>11
  <2>3. update.rows \in [1..m -> V]
    BY <2>1, <2>2
  <2> HIDE DEF V
  <2>4. update.rows \in Seq(V)
    BY <2>3, SeqDef
  <2>5. Len(update.rows) = m
    BY <2>3, <2>4, LenProperties
  <2> QED BY <1>8, <1>11, <2>2, <2>5 DEF Pair
<1>13. n = 0 <=> keys = {}
  <2>1. n = 0 <=> N = {}
    <3>1. IsFiniteSet(1..l)
      BY FS_Interval
    <3>2. IsFiniteSet(N)
      BY <1>4, <3>1, FS_Subset
    <3> QED BY <1>10, <3>2, FS_EmptySet
  <2> QED BY <1>5, <1>6, <2>1
<1>14. n = 0 <=> named = <<>>
  BY <1>7, <1>10, EmptySeq
<1>15. keys = {} <=> update.parts = NoParts
  <2>1. [where |-> Conjunction(conditions)] # NoParts
    <3>1. "where" \in DOMAIN [where |-> Conjunction(conditions)]
      OBVIOUS
    <3>2. DOMAIN NoParts = {}
      BY DEF NoParts
    <3> QED BY <3>1, <3>2
  <2> QED BY <1>9, <1>13, <1>14, <2>1
<1>16. ASSUME keys # {}, NEW row
       PROVE  Selects(update.parts.where, n, row) <=> meant(row)
  <2>1. n >= 1
    BY <1>13, <1>16
  <2>2. update.parts.where = Conjunction(conditions)
    BY <1>9, <1>13, <1>14, <1>16
  <2>3. \A k \in 1..n : conditions[k] = BuilderExpression("equals", Pair(named[k]))
    BY <1>10
  <2>4. n = Len(conditions)
    <3> DEFINE C == {BuilderExpression("equals", Pair(a)) : a \in A}
    <3>1. \A k \in 1..n : named[k] \in A
      BY <1>7, <1>10, ElementOfSeq
    <3>2. conditions \in [1..n -> C]
      BY <1>10, <3>1
    <3> HIDE DEF C, conditions
    <3>3. conditions \in Seq(C)
      BY <3>2, SeqDef
    <3> QED BY <3>2, <3>3, LenProperties
  <2> HIDE DEF conditions
  <2>5. ASSUME NEW k \in 1..n
        PROVE  /\ conditions[k].type = "equals"
               /\ conditions[k].operands[1].value = named[k].path
               /\ conditions[k].operands[2] = ValueOf(named[k])
    <3>1. conditions[k].type = "equals" /\ conditions[k].operands = Pair(named[k])
      BY <2>3, ExpressionIs
    <3>2. BuilderColumn(named[k].path).value = named[k].path
      BY DEF BuilderColumn, Clause
    <3> QED BY <3>1, <3>2 DEF Pair
  <2>6. Selects(Conjunction(conditions), n, row) <=> Passes(conditions, n, row)
    <3>1. Compares(conditions, n)
      BY <2>5 DEF Compares
    <3> QED BY <2>1, <2>4, <3>1, ConjunctionSelects
  <2>7. (\A k \in 1..n : row[named[k].path] = ValueOf(named[k])) <=> meant(row)
    BY <1>7, <1>10 DEF meant
  <2> QED BY <2>2, <2>5, <2>6, <2>7 DEF Passes
<1>17. ASSUME NEW row \in rows, NEW other \in rows, meant(row), meant(other)
       PROVE  row = other
  <2>1. \A p \in keys : row[p] = other[p]
    BY <1>5, <1>17 DEF meant
  <2> QED BY <2>1 DEF rows
<1> HIDE DEF conditions
<1>18. ASSUME keys # {}
       PROVE  LET reached == {row \in rows :
                                 Selects(update.parts.where, Cardinality(N), row)}
              IN /\ \A row, other \in reached : row = other
                 /\ reached = {row \in rows : meant(row)}
  BY <1>10, <1>16, <1>17, <1>18
<1> QED BY <1>12, <1>15, <1>18 DEF SetKeyed, N, O, keys, rows, meant, update

LEMMA SetsAreKeyed ==
    ASSUME NEW A, NEW t, t.rows \in Seq(Seq(A)), ~UpdateThrows(t)
    PROVE  SetsKeyed(t)
<1> DEFINE table == t.value
           S == {set \in ToSet(t.rows) : OthersOf(table, set) # {}}
           D == {i \in DOMAIN t.rows :
                    \E a \in ToSet(t.rows[i]) : a.path \notin PrimaryKeys[table]}
           sets == Those(t.rows, S)
           updates == OrganizeUpdate(t)
<1>1. PICK n \in Nat : n = Len(t.rows) /\ DOMAIN t.rows = 1..n
  BY LenProperties
<1>2. \A i \in 1..n : t.rows[i] \in Seq(A)
  BY <1>1, ElementOfSeq
<1>3. D = Selected(t.rows, S)
  <2>1. \A set : OthersOf(table, set) # {}
                    <=> \E a \in ToSet(set) : a.path \notin PrimaryKeys[table]
    BY DEF OthersOf, KeysOf
  <2> QED BY <1>1, <2>1 DEF ToSet, Selected
<1>4. \A i \in D : i \in 1..n /\ ~MissesKeys(table, t.rows[i])
  <2> SUFFICES ASSUME NEW i \in D PROVE i \in 1..n /\ ~MissesKeys(table, t.rows[i])
    OBVIOUS
  <2>1. i \in 1..n /\ t.rows[i] \in ToSet(t.rows)
    BY <1>1 DEF ToSet
  <2>2. t.rows[i] # <<>>
    BY DEF ToSet
  <2> QED BY <2>1, <2>2 DEF UpdateThrows
<1> HIDE DEF D, S
<1>5. /\ sets \in Seq(Seq(A)) /\ Len(sets) = Cardinality(D)
      /\ \A i \in D : /\ Place(D, i) \in 1..Cardinality(D)
                      /\ sets[Place(D, i)] = t.rows[i]
  BY <1>3, ThoseAre DEF Lists
<1> HIDE DEF sets
<1>6. updates = [i \in DOMAIN sets |-> OrganizeSet(table, sets[i])]
  BY DEF OrganizeUpdate, sets, S
<1> HIDE DEF updates
<1>7. PICK m \in Nat : m = Cardinality(D) /\ DOMAIN sets = 1..m
  BY <1>5, LenProperties
<1>8. Len(updates) = m
  <2> DEFINE V == {OrganizeSet(table, set) : set \in Seq(A)}
  <2>1. \A i \in 1..m : sets[i] \in Seq(A)
    BY <1>5, <1>7, ElementOfSeq
  <2>2. updates \in [1..m -> V]
    BY <1>6, <1>7, <2>1
  <2> HIDE DEF V
  <2>3. updates \in Seq(V)
    BY <2>2, SeqDef
  <2> QED BY <2>2, <2>3, LenProperties
<1>9. ASSUME NEW i \in D PROVE SetKeyed(table, t.rows[i], updates[Place(D, i)])
  <2>1. updates[Place(D, i)] = OrganizeSet(table, t.rows[i])
    BY <1>5, <1>6, <1>7
  <2>2. t.rows[i] \in Seq(A) /\ ~MissesKeys(table, t.rows[i])
    BY <1>2, <1>4
  <2> QED BY <2>1, <2>2, SetIsKeyed
<1> QED BY <1>7, <1>8, <1>9 DEF SetsKeyed, D, updates

-----------------------------------------------------------------------------
(* The queries that can be composed.                                       *)

PartMaps == UNION {[S -> Nat] : S \in SUBSET ToSet(PartNames)}

Originals == ToSet(Leaves) \cup Statements

\* The clauses that can be in the heap.
Forms == [kind : Kinds,
          type : {c.type : c \in Originals} \cup DOMAIN Operators
                    \cup {"update_if_exists"},
          value : {c.value : c \in Originals} \cup {""},
          operands : Seq(Nat), parts : PartMaps, rows : Seq(Rows)]

\* Every handle stands for a clause of these.
Formed == heap \in Seq(Forms)

LEMMA OriginalsFormed ==
    ASSUME NEW c \in Originals
    PROVE  c \in Forms
<1>1. c = Clause(c.kind, c.type, c.value) /\ c.kind \in Kinds
  BY RequestsAssumption DEF Originals
<1>2. NoParts \in PartMaps
  <2>1. NoParts \in [{} -> Nat] /\ {} \in SUBSET ToSet(PartNames)
    BY DEF NoParts
  <2> QED BY <2>1 DEF PartMaps
<1>3. c.type \in {d.type : d \in Originals} /\ c.value \in {d.value : d \in Originals}
  OBVIOUS
<1>4. <<>> \in Seq(Nat) /\ <<>> \in Seq(Rows)
  BY EmptySeq
<1> DEFINE T == {d.type : d \in Originals} \cup DOMAIN Operators \cup {"update_if_exists"}
           V == {d.value : d \in Originals} \cup {""}
<1>5. c.type \in T /\ c.value \in V
  BY <1>3
<1> HIDE DEF T, V
<1>6. Clause(c.kind, c.type, c.value)
        \in [kind : Kinds, type : T, value : V, operands : Seq(Nat), parts : PartMaps,
             rows : Seq(Rows)]
  BY <1>1, <1>2, <1>4, <1>5 DEF Clause
<1> QED BY <1>1, <1>6 DEF Forms, T, V

\* Of a form, one with other operands, parts or rows is one.
LEMMA FormChanges ==
    ASSUME NEW c \in Forms
    PROVE  /\ c.operands \in Seq(Nat) /\ c.parts \in PartMaps /\ c.rows \in Seq(Rows)
           /\ \A o \in Seq(Nat) : [c EXCEPT !.operands = o] \in Forms
           /\ \A p \in PartMaps : [c EXCEPT !.parts = p] \in Forms
           /\ \A r \in Seq(Rows) : [c EXCEPT !.rows = r] \in Forms
           /\ [c EXCEPT !.type = "update_if_exists"] \in Forms
<1> DEFINE T == {d.type : d \in Originals} \cup DOMAIN Operators \cup {"update_if_exists"}
           V == {d.value : d \in Originals} \cup {""}
           O == Seq(Nat)
           R == Seq(Rows)
           F == [kind : Kinds, type : T, value : V, operands : O, parts : PartMaps,
                 rows : R]
<1>1. Forms = F
  BY DEF Forms
<1>2. "update_if_exists" \in T
  OBVIOUS
<1> HIDE DEF T, V, O, R
<1>3. c \in F
  BY <1>1
<1>4. c.operands \in O /\ c.parts \in PartMaps /\ c.rows \in R
  BY <1>3
<1>5. /\ \A o \in O : [c EXCEPT !.operands = o] \in F
      /\ \A p \in PartMaps : [c EXCEPT !.parts = p] \in F
      /\ \A r \in R : [c EXCEPT !.rows = r] \in F
      /\ [c EXCEPT !.type = "update_if_exists"] \in F
  BY <1>2, <1>3
<1> HIDE DEF F
<1> QED BY <1>1, <1>4, <1>5 DEF O, R

LEMMA NewFormed ==
    ASSUME Formed, NEW c \in Forms, New(c)
    PROVE  Formed'
BY AppendProperties DEF Formed, New

LEMMA ChangeFormed ==
    ASSUME Formed, NEW x \in Handles, NEW c \in Forms, Change(x, c)
    PROVE  Formed'
<1>1. PICK n \in Nat : n = Len(heap) /\ Handles = 1..n
  BY LenProperties DEF Formed, Handles
<1>2. heap \in [1..n -> Forms]
  BY <1>1, LenProperties DEF Formed
<1>3. heap' = [heap EXCEPT ![x] = c]
  BY DEF Change
<1>4. heap' \in [1..n -> Forms]
  BY <1>1, <1>2, <1>3
<1> QED BY <1>4, SeqDef DEF Formed

LEMMA HandlesFormed ==
    ASSUME Formed
    PROVE  /\ Handles = 1..Len(heap) /\ Len(heap) \in Nat
           /\ \A x \in Handles : x \in Nat /\ heap[x] \in Forms
<1>1. PICK n \in Nat : n = Len(heap) /\ Handles = 1..n
  BY LenProperties DEF Formed, Handles
<1>2. \A x \in 1..n : heap[x] \in Forms
  BY <1>1, ElementOfSeq DEF Formed
<1> QED BY <1>1, <1>2

LEMMA OperatorFormIs ==
    ASSUME Formed, NEW type \in DOMAIN Operators,
           NEW operands \in [1..Operators[type] -> Handles]
    PROVE  [Clause("Expression", type, "") EXCEPT !.operands = operands] \in Forms
<1>1. PICK n \in Nat : n = Operators[type]
  BY RequestsAssumption
<1>2. operands \in [1..n -> Nat]
  BY <1>1, HandlesFormed
<1>3. operands \in Seq(Nat)
  BY <1>2, SeqDef
<1> DEFINE T == {d.type : d \in Originals} \cup DOMAIN Operators \cup {"update_if_exists"}
           V == {d.value : d \in Originals} \cup {""}
           c == Clause("Expression", type, "")
<1>4. type \in T /\ "" \in V /\ "Expression" \in Kinds
  BY DEF Kinds
<1> HIDE DEF T, V
<1>5. NoParts \in PartMaps
  <2>1. NoParts \in [{} -> Nat] /\ {} \in SUBSET ToSet(PartNames)
    BY DEF NoParts
  <2> QED BY <2>1 DEF PartMaps
<1>6. <<>> \in Seq(Nat) /\ <<>> \in Seq(Rows)
  BY EmptySeq
<1>7. c \in [kind : Kinds, type : T, value : V, operands : Seq(Nat), parts : PartMaps,
             rows : Seq(Rows)]
  BY <1>4, <1>5, <1>6 DEF Clause
<1>8. c \in Forms
  BY <1>7 DEF Forms, T, V
<1> HIDE DEF c
<1>9. [c EXCEPT !.operands = operands] \in Forms
  BY <1>3, <1>8, FormChanges
<1> QED BY <1>9 DEF c

LEMMA PartFormIs ==
    ASSUME Formed, NEW x \in Handles, NEW y \in Handles, NEW part \in Parts
    PROVE  [heap[x] EXCEPT !.parts = WithPart(heap[x].parts, part, y)] \in Forms
<1> DEFINE c == heap[x]
<1>1. c \in Forms /\ y \in Nat
  BY HandlesFormed
<1>2. WithPart(c.parts, part, y) \in PartMaps
  <2>1. PICK S \in SUBSET ToSet(PartNames) : c.parts \in [S -> Nat]
    BY <1>1, FormChanges DEF PartMaps
  <2>2. part \in ToSet(PartNames)
    BY RequestsAssumption
  <2>3. WithPart(c.parts, part, y) \in [S \cup {part} -> Nat]
    BY <1>1, <2>1 DEF WithPart
  <2>4. S \cup {part} \in SUBSET ToSet(PartNames)
    BY <2>2
  <2> HIDE DEF c
  <2> QED BY <2>3, <2>4 DEF PartMaps
<1> QED BY <1>1, <1>2, FormChanges

LEMMA QueryNextFormed ==
    ASSUME Formed, [QueryNext]_queryVars
    PROVE  Formed'
<1>1. CASE \E c \in ToSet(Leaves) : Leaf(c)
  <2>1. PICK c \in Originals : New(c)
    BY <1>1 DEF Leaf, Originals
  <2> QED BY <2>1, OriginalsFormed, NewFormed
<1>2. CASE \E type \in DOMAIN Operators :
              \E operands \in [1..Operators[type] -> Handles] : Operator(type, operands)
  BY <1>2, OperatorFormIs, NewFormed DEF Operator
<1>3. CASE \E c \in Statements : Begin(c)
  <2>1. PICK c \in Originals : New(c)
    BY <1>3 DEF Begin, Originals
  <2> QED BY <2>1, OriginalsFormed, NewFormed
<1>4. ASSUME NEW x \in Handles, NEW y \in Handles, AddOperand(x, y) \/ Selectors(x, y)
      PROVE  Formed'
  <2> DEFINE o == Append(heap[x].operands, y)
             c == [heap[x] EXCEPT !.operands = o]
  <2>1. heap[x] \in Forms /\ y \in Nat
    BY HandlesFormed
  <2>2. o \in Seq(Nat)
    BY <2>1, FormChanges, AppendProperties
  <2>3. Change(x, c)
    BY <1>4 DEF AddOperand, Selectors
  <2> HIDE DEF o
  <2>4. c \in Forms
    BY <2>1, <2>2, FormChanges
  <2> HIDE DEF c
  <2> QED BY <2>3, <2>4, ChangeFormed
<1>5. ASSUME NEW x \in Handles, NEW y \in Handles, NEW part \in Parts,
             SetPart(x, part, y)
      PROVE  Formed'
  BY <1>5, PartFormIs, ChangeFormed DEF SetPart
<1>6. ASSUME NEW x \in Handles, NEW row \in Rows, AddRow(x, row)
      PROVE  Formed'
  <2> DEFINE r == Append(heap[x].rows, row)
             c == [heap[x] EXCEPT !.rows = r]
  <2>1. heap[x] \in Forms
    BY HandlesFormed
  <2>2. r \in Seq(Rows)
    BY <2>1, FormChanges, AppendProperties
  <2>3. Change(x, c)
    BY <1>6 DEF AddRow
  <2> HIDE DEF r
  <2>4. c \in Forms
    BY <2>1, <2>2, FormChanges
  <2> HIDE DEF c
  <2> QED BY <2>3, <2>4, ChangeFormed
<1>7. ASSUME NEW x \in Handles, UpdateIfExists(x)
      PROVE  Formed'
  <2> DEFINE c == [heap[x] EXCEPT !.type = "update_if_exists"]
  <2>1. c \in Forms
    BY HandlesFormed, FormChanges
  <2>2. Change(x, c)
    BY <1>7 DEF UpdateIfExists
  <2> HIDE DEF c
  <2> QED BY <2>1, <2>2, ChangeFormed
<1>8. CASE heap' = heap
  BY <1>8 DEF Formed
<1>9. CASE Compose
  BY <1>1, <1>2, <1>3, <1>4, <1>5, <1>6, <1>7, <1>8, <1>9 DEF Compose, AddClause
<1>10. CASE QueryToProto \/ QueryFromProto \/ UNCHANGED queryVars
  BY <1>8, <1>10 DEF QueryToProto, QueryFromProto, queryVars
<1> QED BY <1>9, <1>10 DEF QueryNext

\* The attributes of the rows.
Attributes == UNION {ToSet(row) : row \in Rows}

LEMMA RowsOfAttributes ==
    ASSUME Formed, NEW x \in Handles
    PROVE  heap[x].rows \in Seq(Seq(Attributes)) /\ \A a \in Attributes : a.type \in Types
<1>1. heap[x].rows \in Seq(Rows)
  BY HandlesFormed, FormChanges
<1>2. ASSUME NEW row \in Rows PROVE row \in Seq(Attributes)
  <2>1. row \in Seq(ToSet(row))
    BY RequestsAssumption
  <2>2. PICK n \in Nat : n = Len(row)
    BY <2>1, LenProperties
  <2>3. row \in [1..n -> ToSet(row)]
    BY <2>1, <2>2, LenProperties
  <2>4. ToSet(row) \subseteq Attributes
    BY DEF Attributes
  <2>5. row \in [1..n -> Attributes]
    BY <2>3, <2>4
  <2> QED BY <2>5, SeqDef
<1>3. PICK n \in Nat : n = Len(heap[x].rows)
  BY <1>1, LenProperties
<1>4. heap[x].rows \in [1..n -> Rows]
  BY <1>1, <1>3, LenProperties
<1>5. heap[x].rows \in [1..n -> Seq(Attributes)]
  BY <1>2, <1>4
<1>6. heap[x].rows \in Seq(Seq(Attributes))
  BY <1>5, SeqDef
<1>7. \A a \in Attributes : a.type \in Types
  BY RequestsAssumption DEF Attributes
<1> QED BY <1>6, <1>7

-----------------------------------------------------------------------------
\* Whatever is composed, the rows of an insert fit its columns
\* (sql_organizer.cpp:149-272).
THEOREM InsertsAligned == QuerySpec => []RowsAligned
<1>1. QueryInit => Formed
  BY EmptySeq DEF QueryInit, Formed
<1>2. Formed /\ [QueryNext]_queryVars => Formed'
  BY QueryNextFormed
<1>3. Formed => RowsAligned
  <2> SUFFICES ASSUME Formed, NEW t \in Organizable("Insert"), t.rows # <<>>
               PROVE  InsertAligned(t)
    BY DEF RowsAligned
  <2>1. t.rows \in Seq(Seq(Attributes)) /\ \A a \in Attributes : a.type \in Types
    BY RowsOfAttributes DEF Organizable
  <2> QED BY <2>1, RowsFilledAligned
<1> QED BY <1>1, <1>2, <1>3, PTL DEF QuerySpec

\* An update is made of sets with the whole key, or not at all
\* (sql_organizer.cpp:276-416).
THEOREM UpdatesKeyed == QuerySpec => []UpdateKeyed
<1>1. QueryInit => Formed
  BY EmptySeq DEF QueryInit, Formed
<1>2. Formed /\ [QueryNext]_queryVars => Formed'
  BY QueryNextFormed
<1>3. Formed => UpdateKeyed
  <2> SUFFICES ASSUME Formed, NEW t \in Organizable("Update")
               PROVE  /\ UpdateThrows(t) <=>
                            \E set \in ToSet(t.rows) :
                               /\ set # <<>>
                               /\ PrimaryKeys[t.value] \ {a.path : a \in ToSet(set)} # {}
                      /\ ~UpdateThrows(t) => SetsKeyed(t)
    BY DEF UpdateKeyed
  <2>1. t.rows \in Seq(Seq(Attributes))
    BY RowsOfAttributes DEF Organizable
  <2>2. \A set : MissesKeys(t.value, set)
                    <=> PrimaryKeys[t.value] \ {a.path : a \in ToSet(set)} # {}
    BY DEF MissesKeys
  <2> QED BY <2>1, <2>2, SetsAreKeyed DEF UpdateThrows
<1> QED BY <1>1, <1>2, <1>3, PTL DEF QuerySpec

-----------------------------------------------------------------------------
(* Recursion on a graph without cycles: y has the kids kids[y], of lower    *)
(* rank.  If step[y] leads from values of the kids to one of y, there is a *)
(* function of these values, and every such function has them.             *)

\* The kids are in the graph and below, and no rank exceeds b.
Descends(kids, H, rank, b) ==
    \A y \in H : /\ rank[y] \in 0..b
                 /\ \A i \in DOMAIN kids[y] :
                       kids[y][i] \in H /\ rank[kids[y][i]] < rank[y]

Image(f, ks) == [i \in DOMAIN ks |-> f[ks[i]]]

GraphSteps(step, kids, H, U) ==
    \A y \in H : \A v : /\ v = [i \in DOMAIN kids[y] |-> v[i]]
                        /\ \A i \in DOMAIN kids[y] : v[i] \in U[kids[y][i]]
                        => step[y][v] \in U[y]

GraphRuns(f, kids, H, U, step) ==
    /\ f = [y \in H |-> f[y]]
    /\ \A y \in H : f[y] \in U[y] /\ f[y] = step[y][Image(f, kids[y])]

GraphFollows(f, kids, H, U, step) ==
    \A y \in H : (\A i \in DOMAIN kids[y] : f[kids[y][i]] \in U[kids[y][i]])
                    => f[y] = step[y][Image(f, kids[y])]

\* S has y as soon as it has the kids of y.
GraphFills(S, kids, H) ==
    \A y \in H : (\A i \in DOMAIN kids[y] : kids[y][i] \in S) => y \in S

LEMMA GraphInduction ==
    ASSUME NEW H, NEW kids, NEW rank, NEW b \in Nat, Descends(kids, H, rank, b),
           NEW S, GraphFills(S, kids, H)
    PROVE  H \subseteq S
<1> DEFINE T == {m \in 0..(b + 1) : \A y \in H : rank[y] < m => y \in S}
<1>1. \A y \in H : /\ rank[y] \in Nat /\ rank[y] <= b
                   /\ \A i \in DOMAIN kids[y] :
                        kids[y][i] \in H /\ rank[kids[y][i]] < rank[y]
  BY DEF Descends
<1>2. 0 \in T
  <2>1. \A y \in H : ~(rank[y] < 0)
    BY <1>1
  <2> QED BY <2>1
<1>3. ASSUME NEW m \in 0..((b + 1) - 1), m \in T PROVE m + 1 \in T
  <2>1. m \in Nat /\ m + 1 \in 0..(b + 1)
    BY <1>3
  <2>2. ASSUME NEW y \in H, rank[y] < m + 1 PROVE y \in S
    <3>1. ASSUME NEW i \in DOMAIN kids[y] PROVE kids[y][i] \in S
      <4>1. kids[y][i] \in H /\ rank[kids[y][i]] < m
        <5>1. /\ kids[y][i] \in H /\ rank[kids[y][i]] < rank[y]
              /\ rank[kids[y][i]] \in Nat /\ rank[y] \in Nat
          BY <1>1
        <5> QED BY <2>1, <2>2, <5>1
      <4> QED BY <1>3, <4>1
    <3> QED BY <3>1 DEF GraphFills
  <2> QED BY <2>1, <2>2
<1>4. b + 1 \in T
  <2> HIDE DEF T
  <2>1. \A m \in 0..(b + 1) : m \in T
    BY <1>2, <1>3, UpTo
  <2> QED BY <2>1
<1>5. \A y \in H : rank[y] < b + 1
  BY <1>1
<1> QED BY <1>4, <1>5

LEMMA GraphRecursion ==
    ASSUME NEW H, NEW kids, NEW rank, NEW b \in Nat, Descends(kids, H, rank, b),
           NEW U, NEW step, GraphSteps(step, kids, H, U)
    PROVE  \E f : GraphRuns(f, kids, H, U, step)
<1> DEFINE L(m) == {y \in H : rank[y] < m}
           T == {m \in 0..(b + 1) : \E f : GraphRuns(f, kids, L(m), U, step)}
<1>1. \A y \in H : /\ rank[y] \in Nat /\ rank[y] <= b
                   /\ \A i \in DOMAIN kids[y] :
                        kids[y][i] \in H /\ rank[kids[y][i]] < rank[y]
  BY DEF Descends
<1>2. 0 \in T
  <2>1. \A y \in H : ~(rank[y] < 0)
    BY <1>1
  <2>2. L(0) = {}
    BY <2>1
  <2> DEFINE f == [y \in {} |-> 0]
  <2>3. GraphRuns(f, kids, {}, U, step)
    BY DEF GraphRuns
  <2> HIDE DEF f
  <2> QED BY <2>2, <2>3
<1>3. ASSUME NEW m \in 0..((b + 1) - 1), m \in T PROVE m + 1 \in T
  <2>1. PICK f : GraphRuns(f, kids, L(m), U, step)
    BY <1>3
  <2> DEFINE g == [y \in L(m + 1) |-> IF y \in L(m) THEN f[y]
                                      ELSE step[y][Image(f, kids[y])]]
  <2>2. m \in Nat /\ m + 1 \in 0..(b + 1)
    BY <1>3
  <2>3. \A y \in L(m) : y \in L(m + 1)
    BY <1>1, <2>2
  <2>4. \A y \in L(m + 1) : y \in H /\ \A i \in DOMAIN kids[y] : kids[y][i] \in L(m)
    <3> SUFFICES ASSUME NEW y \in L(m + 1), NEW i \in DOMAIN kids[y]
                 PROVE  kids[y][i] \in L(m)
      OBVIOUS
    <3>1. /\ kids[y][i] \in H /\ rank[kids[y][i]] < rank[y]
          /\ rank[kids[y][i]] \in Nat /\ rank[y] \in Nat /\ rank[y] < m + 1
      BY <1>1
    <3> QED BY <2>2, <3>1
  <2> HIDE DEF L
  <2>5. ASSUME NEW y \in L(m + 1)
        PROVE  g[y] \in U[y] /\ g[y] = step[y][Image(g, kids[y])]
    <3> DEFINE v == Image(f, kids[y])
    <3>1. Image(g, kids[y]) = v
      BY <2>3, <2>4 DEF Image
    <3>2. /\ v = [i \in DOMAIN kids[y] |-> v[i]]
          /\ \A i \in DOMAIN kids[y] : v[i] \in U[kids[y][i]]
      BY <2>1, <2>4 DEF Image, GraphRuns
    <3> HIDE DEF v
    <3>3. step[y][v] \in U[y]
      BY <2>4, <3>2 DEF GraphSteps
    <3>4. g[y] = step[y][v]
      BY <2>1 DEF GraphRuns, v
    <3> QED BY <3>1, <3>3, <3>4
  <2>6. g = [y \in L(m + 1) |-> g[y]]
    OBVIOUS
  <2> HIDE DEF g
  <2>7. GraphRuns(g, kids, L(m + 1), U, step)
    BY <2>5, <2>6 DEF GraphRuns
  <2> QED BY <2>2, <2>7
<1>4. b + 1 \in T
  <2> HIDE DEF T
  <2>1. \A m \in 0..(b + 1) : m \in T
    BY <1>2, <1>3, UpTo
  <2> QED BY <2>1
<1>5. L(b + 1) = H
  BY <1>1
<1> HIDE DEF L
<1> QED BY <1>4, <1>5

LEMMA GraphStays ==
    ASSUME NEW H, NEW kids, NEW rank, NEW b \in Nat, Descends(kids, H, rank, b),
           NEW U, NEW step, GraphSteps(step, kids, H, U),
           NEW f, GraphFollows(f, kids, H, U, step)
    PROVE  \A y \in H : f[y] \in U[y]
<1> DEFINE S == {y \in H : f[y] \in U[y]}
<1>1. ASSUME NEW y \in H, \A i \in DOMAIN kids[y] : kids[y][i] \in S PROVE y \in S
  <2> DEFINE v == Image(f, kids[y])
  <2>1. /\ v = [i \in DOMAIN kids[y] |-> v[i]]
        /\ \A i \in DOMAIN kids[y] : v[i] \in U[kids[y][i]]
    BY <1>1 DEF Image
  <2>2. f[y] = step[y][v]
    BY <1>1 DEF GraphFollows
  <2> HIDE DEF v
  <2>3. step[y][v] \in U[y]
    BY <2>1 DEF GraphSteps
  <2> QED BY <2>2, <2>3
<1>2. GraphFills(S, kids, H)
  <2> HIDE DEF S
  <2> QED BY <1>1 DEF GraphFills
<1>3. H \subseteq S
  <2> HIDE DEF S
  <2> QED BY <1>2, GraphInduction
<1> QED BY <1>3

-----------------------------------------------------------------------------
(* The children of a clause are its operands, then its parts in the order   *)
(* of PartNames.                                                           *)

\* The clause refers to values in V.
Nested(c, V) ==
    /\ c.operands \in Seq(V)
    /\ \E S \in SUBSET ToSet(PartNames) : c.parts \in [S -> V]

LEMMA PartsListed ==
    ASSUME NEW V, NEW c, Nested(c, V)
    PROVE  /\ PartsOf(c) \in Seq(DOMAIN c.parts)
           /\ \A p \in DOMAIN c.parts : \E i \in DOMAIN PartsOf(c) : PartsOf(c)[i] = p
           /\ \A i, j \in DOMAIN PartsOf(c) : PartsOf(c)[i] = PartsOf(c)[j] => i = j
<1> DEFINE s == PartNames
           S == DOMAIN c.parts
           D == Selected(s, S)
           those == PartsOf(c)
           A == ToSet(s)
<1>1. s \in Seq(A) /\ Len(s) = 5 /\ S \subseteq A
  <2>1. s \in Seq(A) /\ Len(s) = 5
    BY DEF PartNames, ToSet
  <2> QED BY <2>1 DEF Nested
<1>2. \A i, j \in 1..5 : s[i] = s[j] => i = j
  BY DEF PartNames
<1>3. \A p \in S : \E i \in 1..5 : s[i] = p
  <2>1. \A p \in A : \E i \in 1..5 : s[i] = p
    <3>1. DOMAIN s = 1..5
      BY DEF PartNames
    <3> QED BY <3>1 DEF ToSet
  <2> QED BY <1>1, <2>1
<1>4. those \in Seq(A) /\ Lists(those, s, D)
  BY <1>1, ThoseAre DEF PartsOf
<1>5. \A i : i \in D <=> i \in 1..5 /\ s[i] \in S
  BY <1>1 DEF Selected
<1> HIDE DEF s, S, D, those, A
<1>6. PICK n \in Nat : n = Len(those) /\ DOMAIN those = 1..n
  BY <1>4, LenProperties
<1>7. /\ n = Cardinality(D)
      /\ \A i \in D : Place(D, i) \in 1..n /\ those[Place(D, i)] = s[i]
      /\ \A k \in 1..n : \E i \in D : Place(D, i) = k
  BY <1>4, <1>6 DEF Lists
<1>8. ASSUME NEW k \in 1..n PROVE those[k] \in S
  BY <1>5, <1>7
<1>9. those \in Seq(S)
  <2>1. those \in [1..n -> A]
    BY <1>4, <1>6, LenProperties
  <2>2. those \in [1..n -> S]
    BY <1>8, <2>1
  <2> QED BY <2>2, SeqDef
<1>10. ASSUME NEW p \in S PROVE \E i \in 1..n : those[i] = p
  BY <1>3, <1>5, <1>7
<1>11. ASSUME NEW i \in 1..n, NEW j \in 1..n, those[i] = those[j] PROVE i = j
  <2>1. PICK k \in D, l \in D : Place(D, k) = i /\ Place(D, l) = j
    BY <1>7
  <2>2. s[k] = s[l]
    BY <1>7, <1>11, <2>1
  <2>3. k = l
    BY <1>2, <1>5, <2>2
  <2> QED BY <2>1, <2>3
<1> QED BY <1>6, <1>9, <1>10, <1>11 DEF S, those

Lined(c, V) ==
    /\ Len(c.operands) \in Nat /\ Len(PartsOf(c)) \in Nat
    /\ DOMAIN c.operands = 1..Len(c.operands)
    /\ DOMAIN PartsOf(c) = 1..Len(PartsOf(c))
    /\ Children(c) \in Seq(V)
    /\ Len(Children(c)) = Len(c.operands) + Len(PartsOf(c))
    /\ DOMAIN Children(c) = 1..Len(Children(c))
    /\ \A i \in 1..Len(c.operands) : Children(c)[i] = c.operands[i]
    /\ \A i \in 1..Len(PartsOf(c)) :
          Children(c)[Len(c.operands) + i] = c.parts[PartsOf(c)[i]]

LEMMA ChildrenAre ==
    ASSUME NEW V, NEW c, Nested(c, V)
    PROVE  Lined(c, V)
<1> DEFINE o == c.operands
           those == PartsOf(c)
           p == [i \in DOMAIN those |-> c.parts[those[i]]]
           S == DOMAIN c.parts
<1>1. o \in Seq(V) /\ c.parts \in [S -> V] /\ those \in Seq(S)
  BY PartsListed DEF Nested
<1>2. PICK n \in Nat : n = Len(o) /\ DOMAIN o = 1..n
  BY <1>1, LenProperties
<1>3. PICK m \in Nat : m = Len(those) /\ DOMAIN those = 1..m
  BY <1>1, LenProperties
<1>4. \A i \in 1..m : those[i] \in S
  BY <1>1, <1>3, ElementOfSeq
<1>5. p \in [1..m -> V]
  BY <1>1, <1>3, <1>4
<1>6. p \in Seq(V)
  <2> HIDE DEF p
  <2> QED BY <1>5, SeqDef
<1>7. Len(p) = m
  <2> HIDE DEF p
  <2> QED BY <1>5, <1>6, LenProperties
<1>8. \A i \in 1..m : p[i] = c.parts[those[i]]
  BY <1>3
<1>9. Children(c) = o \o p
  BY DEF Children
<1> HIDE DEF o, those, p
<1> DEFINE t == o \o p
<1>10. /\ t \in Seq(V) /\ Len(t) = n + m
       /\ \A i \in 1..(n + m) : t[i] = IF i <= n THEN o[i] ELSE p[i - n]
  BY <1>1, <1>2, <1>6, <1>7, ConcatProperties
<1> HIDE DEF t
<1>11. DOMAIN t = 1..(n + m)
  BY <1>10, LenProperties
<1>12. \A i \in 1..n : t[i] = o[i]
  BY <1>10
<1>13. ASSUME NEW i \in 1..m PROVE t[n + i] = c.parts[those[i]]
  <2>1. n + i \in 1..(n + m) /\ ~(n + i <= n) /\ (n + i) - n = i
    OBVIOUS
  <2> QED BY <1>8, <1>10, <2>1
<1> QED BY <1>2, <1>3, <1>9, <1>10, <1>11, <1>12, <1>13 DEF Lined, o, those, t

\* Clauses of one shape have as many children, at the same places.
Placed(d, c, f) ==
    /\ Len(d.operands) = Len(c.operands) /\ DOMAIN d.parts = DOMAIN c.parts
    /\ \A i \in 1..Len(c.operands) : d.operands[i] = f[i]
    /\ \A i \in 1..Len(PartsOf(c)) : d.parts[PartsOf(c)[i]] = f[Len(c.operands) + i]

Refers(d, c, f) ==
    /\ DOMAIN Children(d) = DOMAIN Children(c)
    /\ \A i \in DOMAIN Children(c) : Children(d)[i] = f[i]

LEMMA ChildrenOfShape ==
    ASSUME NEW V, NEW c, Nested(c, V), NEW W, NEW d, Nested(d, W), NEW f, Placed(d, c, f)
    PROVE  Refers(d, c, f)
<1> USE DEF Placed
<1>1. PartsOf(d) = PartsOf(c)
  BY DEF PartsOf
<1> DEFINE n == Len(c.operands)
           m == Len(PartsOf(c))
<1>2. /\ n \in Nat /\ m \in Nat
      /\ Len(Children(c)) = n + m /\ DOMAIN Children(c) = 1..Len(Children(c))
  <2>1. Lined(c, V)
    BY ChildrenAre
  <2> QED BY <2>1 DEF Lined
<1>3. /\ Len(Children(d)) = n + m /\ DOMAIN Children(d) = 1..Len(Children(d))
      /\ \A i \in 1..n : Children(d)[i] = d.operands[i]
      /\ \A i \in 1..m : Children(d)[n + i] = d.parts[PartsOf(c)[i]]
  <2>1. Lined(d, W)
    BY ChildrenAre
  <2> QED BY <1>1, <2>1 DEF Lined
<1> HIDE DEF n, m
<1>4. ASSUME NEW i \in 1..(n + m) PROVE Children(d)[i] = f[i]
  <2>1. CASE i \in 1..n
    BY <1>3, <2>1 DEF n
  <2>2. CASE i \notin 1..n
    <3>1. i - n \in 1..m /\ n + (i - n) = i
      BY <1>2, <2>2
    <3>2. d.parts[PartsOf(c)[i - n]] = f[n + (i - n)]
      BY <3>1 DEF n, m
    <3>3. Children(d)[n + (i - n)] = d.parts[PartsOf(c)[i - n]]
      BY <1>3, <3>1
    <3> QED BY <3>1, <3>2, <3>3
  <2> QED BY <2>1, <2>2
<1> QED BY <1>2, <1>3, <1>4 DEF Refers

-----------------------------------------------------------------------------
(* What is composed is a graph without cycles.                             *)

\* What a clause refers to, and that nothing refers to itself through others.
Below == [x \in Handles |-> Children(heap[x])]

Founded == \E b \in Nat : \E rank : Descends(Below, Handles, rank, b)

LEMMA FormNested ==
    ASSUME NEW c \in Forms
    PROVE  Nested(c, Nat) /\ Lined(c, Nat)
<1>1. c.operands \in Seq(Nat) /\ c.parts \in PartMaps
  BY FormChanges
<1>2. Nested(c, Nat)
  BY <1>1 DEF Nested, PartMaps
<1> QED BY <1>2, ChildrenAre

LEMMA ReachesIs ==
    ASSUME Founded, NEW y
    PROVE  \A x \in Handles :
              /\ Reaches(x, y) \in BOOLEAN
              /\ Reaches(x, y)
                    <=> x = y \/ \E i \in DOMAIN Below[x] : Reaches(Below[x][i], y)
<1>0. PICK b \in Nat : \E rank : Descends(Below, Handles, rank, b)
  BY DEF Founded
<1>1. PICK rank : Descends(Below, Handles, rank, b)
  BY <1>0
<1> DEFINE next(z, v) == z = y \/ \E i \in DOMAIN Below[z] : v[i]
           step == [z \in Handles |-> [v \in [DOMAIN Below[z] -> BOOLEAN] |-> next(z, v)]]
           U == [z \in Handles |-> BOOLEAN]
           Is(f) == f = [z \in Handles |->
                            z = y \/ \E c \in ToSet(Children(heap[z])) : f[c]]
<1>2. GraphSteps(step, Below, Handles, U)
  <2>1. \A z, v : next(z, v) \in BOOLEAN
    OBVIOUS
  <2>2. \A z \in Handles : \A i \in DOMAIN Below[z] : Below[z][i] \in Handles
    BY <1>1 DEF Descends
  <2>3. \A z \in Handles : \A v :
           /\ v = [i \in DOMAIN Below[z] |-> v[i]]
           /\ \A i \in DOMAIN Below[z] : v[i] \in U[Below[z][i]]
           => v \in [DOMAIN Below[z] -> BOOLEAN]
    BY <2>2
  <2> HIDE DEF next
  <2>4. \A z \in Handles : \A v \in [DOMAIN Below[z] -> BOOLEAN] : step[z][v] \in U[z]
    BY <2>1
  <2> HIDE DEF step, U
  <2> QED BY <2>3, <2>4 DEF GraphSteps
<1>3. ASSUME NEW f, Is(f), NEW z \in Handles
      PROVE  f[z] <=> z = y \/ \E i \in DOMAIN Below[z] : f[Below[z][i]]
  <2>1. ToSet(Children(heap[z])) = {Below[z][i] : i \in DOMAIN Below[z]}
    BY DEF Below, ToSet
  <2>2. f[z] = (z = y \/ \E c \in ToSet(Children(heap[z])) : f[c])
    BY <1>3
  <2> QED BY <2>1, <2>2
<1>4. \E f : Is(f)
  <2> HIDE DEF step, next, U, Is
  <2>1. PICK f : GraphRuns(f, Below, Handles, U, step)
    BY <1>1, <1>2, GraphRecursion
  <2>2. ASSUME NEW z \in Handles
        PROVE  f[z] = (z = y \/ \E c \in ToSet(Children(heap[z])) : f[c])
    <3> DEFINE v == Image(f, Below[z])
    <3>1. /\ f[z] = step[z][v]
          /\ \A i \in DOMAIN Below[z] : Below[z][i] \in Handles
      BY <1>1, <2>1 DEF GraphRuns, Descends
    <3>2. v \in [DOMAIN Below[z] -> BOOLEAN]
      BY <2>1, <3>1 DEF GraphRuns, Image, U
    <3>3. \A i \in DOMAIN Below[z] : v[i] = f[Below[z][i]]
      BY DEF Image
    <3> HIDE DEF v
    <3>4. f[z] = next(z, v)
      BY <3>1, <3>2 DEF step
    <3>5. ToSet(Children(heap[z])) = {Below[z][i] : i \in DOMAIN Below[z]}
      BY DEF Below, ToSet
    <3>6. (\E i \in DOMAIN Below[z] : v[i]) = (\E c \in ToSet(Children(heap[z])) : f[c])
      BY <3>3, <3>5
    <3> QED BY <3>4, <3>6 DEF next
  <2>3. f = [z \in Handles |-> f[z]]
    BY <2>1 DEF GraphRuns
  <2> QED BY <2>2, <2>3 DEF Is
<1> DEFINE f == CHOOSE h : Is(h)
<1>5. Is(f)
  BY <1>4
<1>6. \A z : Reaches(z, y) = f[z]
  BY DEF Reaches
<1> HIDE DEF f
<1>7. \A z \in Handles : f[z] \in BOOLEAN
  BY <1>5
<1>8. \A z \in Handles : f[z] <=> z = y \/ \E i \in DOMAIN Below[z] : f[Below[z][i]]
  <2> HIDE DEF Is
  <2> QED BY <1>3, <1>5
<1> HIDE DEF Is
<1> QED BY <1>6, <1>7, <1>8

LEMMA ReachesDown ==
    ASSUME NEW b \in Nat, NEW rank, Descends(Below, Handles, rank, b)
    PROVE  \A x \in Handles : \A y : Reaches(x, y) => y \in Handles /\ rank[y] <= rank[x]
<1>1. \A x \in Handles :
         /\ rank[x] \in Nat
         /\ \A i \in DOMAIN Below[x] :
               Below[x][i] \in Handles /\ rank[Below[x][i]] < rank[x]
  BY DEF Descends
<1>2. \A y : \A x \in Handles :
         Reaches(x, y) <=> x = y \/ \E i \in DOMAIN Below[x] : Reaches(Below[x][i], y)
  BY ReachesIs DEF Founded
<1> DEFINE Good(x) == \A y : Reaches(x, y) => y \in Handles /\ rank[y] <= rank[x]
           S == {x \in Handles : Good(x)}
<1>3. ASSUME NEW x \in Handles, \A i \in DOMAIN Below[x] : Below[x][i] \in S
      PROVE  x \in S
  <2> SUFFICES ASSUME NEW y, Reaches(x, y) PROVE y \in Handles /\ rank[y] <= rank[x]
    OBVIOUS
  <2>1. CASE x = y
    BY <1>1, <2>1
  <2>2. CASE \E i \in DOMAIN Below[x] : Reaches(Below[x][i], y)
    <3>1. PICK i \in DOMAIN Below[x] : Reaches(Below[x][i], y)
      BY <2>2
    <3>2. y \in Handles /\ rank[y] <= rank[Below[x][i]]
      BY <1>3, <3>1
    <3>3. Below[x][i] \in Handles /\ rank[Below[x][i]] < rank[x]
      BY <1>1
    <3>4. rank[y] \in Nat /\ rank[Below[x][i]] \in Nat /\ rank[x] \in Nat
      BY <1>1, <3>2, <3>3
    <3> QED BY <3>2, <3>3, <3>4
  <2> QED BY <1>2, <2>1, <2>2
<1>4. GraphFills(S, Below, Handles)
  <2> HIDE DEF S
  <2> QED BY <1>3 DEF GraphFills
<1>5. Handles \subseteq S
  <2> HIDE DEF S
  <2> QED BY <1>1, <1>4, GraphInduction
<1> QED BY <1>5

HasChild(c, v) == \E i \in DOMAIN Children(c) : Children(c)[i] = v

\* A value is a child if it is an operand or a part.
Holds(c, v) ==
    \/ \E i \in DOMAIN c.operands : c.operands[i] = v
    \/ \E p \in DOMAIN c.parts : c.parts[p] = v

LEMMA ChildrenHeld ==
    ASSUME NEW V, NEW c, Nested(c, V), NEW v
    PROVE  HasChild(c, v) <=> Holds(c, v)
<1> DEFINE n == Len(c.operands)
           m == Len(PartsOf(c))
           ch == Children(c)
<1>1. Lined(c, V)
  BY ChildrenAre
<1>2. /\ n \in Nat /\ m \in Nat /\ DOMAIN c.operands = 1..n /\ DOMAIN ch = 1..(n + m)
      /\ \A i \in 1..n : ch[i] = c.operands[i]
      /\ \A i \in 1..m : ch[n + i] = c.parts[PartsOf(c)[i]]
      /\ DOMAIN PartsOf(c) = 1..m
  BY <1>1 DEF Lined
<1>3. /\ \A i \in 1..m : PartsOf(c)[i] \in DOMAIN c.parts
      /\ \A p \in DOMAIN c.parts : \E i \in 1..m : PartsOf(c)[i] = p
  <2>1. /\ PartsOf(c) \in Seq(DOMAIN c.parts)
        /\ \A p \in DOMAIN c.parts : \E i \in DOMAIN PartsOf(c) : PartsOf(c)[i] = p
    BY PartsListed
  <2> QED BY <1>2, <2>1, ElementOfSeq
<1> HIDE DEF n, m, ch
<1>4. ASSUME NEW i \in 1..(n + m), ch[i] = v PROVE Holds(c, v)
  <2>1. CASE i \in 1..n
    BY <1>2, <1>4, <2>1 DEF Holds
  <2>2. CASE i \notin 1..n
    <3>1. i - n \in 1..m /\ n + (i - n) = i
      BY <1>2, <2>2
    <3>2. ch[i] = c.parts[PartsOf(c)[i - n]] /\ PartsOf(c)[i - n] \in DOMAIN c.parts
      BY <1>2, <1>3, <3>1
    <3> QED BY <1>4, <3>2 DEF Holds
  <2> QED BY <2>1, <2>2
<1>5. ASSUME NEW i \in DOMAIN c.operands, c.operands[i] = v
      PROVE  \E k \in 1..(n + m) : ch[k] = v
  <2>1. i \in 1..n /\ i \in 1..(n + m)
    BY <1>2
  <2> QED BY <1>2, <1>5, <2>1
<1>6. ASSUME NEW p \in DOMAIN c.parts, c.parts[p] = v
      PROVE  \E k \in 1..(n + m) : ch[k] = v
  <2>1. PICK i \in 1..m : PartsOf(c)[i] = p
    BY <1>3
  <2>2. n + i \in 1..(n + m) /\ ch[n + i] = v
    BY <1>2, <1>6, <2>1
  <2> QED BY <2>2
<1> QED BY <1>2, <1>4, <1>5, <1>6 DEF HasChild, Holds, ch

LEMMA HeapFormed ==
    ASSUME Formed
    PROVE  \E n \in Nat : n = Len(heap) /\ Handles = 1..n /\ heap \in [1..n -> Forms]
<1>1. PICK n \in Nat : n = Len(heap) /\ Handles = 1..n
  BY LenProperties DEF Formed, Handles
<1> QED BY <1>1, LenProperties DEF Formed

LEMMA ChangeIs ==
    ASSUME Formed, NEW x \in Handles, NEW c, Change(x, c)
    PROVE  /\ Handles' = Handles /\ DOMAIN Below' = Handles
           /\ Below'[x] = Children(c)
           /\ \A z \in Handles : z # x => Below'[z] = Below[z]
<1>1. PICK n \in Nat : Handles = 1..n /\ heap \in [1..n -> Forms]
  BY HeapFormed
<1>2. /\ Handles' = Handles /\ heap'[x] = c
      /\ \A z \in Handles : z # x => heap'[z] = heap[z]
  BY <1>1 DEF Change, Handles
<1> QED BY <1>2 DEF Below

\* A change that gives a clause no new children.
LEMMA ChangeFounded ==
    ASSUME Formed, Founded, NEW x \in Handles, NEW c, Change(x, c),
           \A v : HasChild(c, v) => HasChild(heap[x], v)
    PROVE  Founded'
<1>0. PICK b \in Nat : \E rank : Descends(Below, Handles, rank, b)
  BY DEF Founded
<1>1. PICK rank : Descends(Below, Handles, rank, b)
  BY <1>0
<1>2. /\ Handles' = Handles /\ Below'[x] = Children(c)
      /\ \A z \in Handles : z # x => Below'[z] = Below[z]
  BY ChangeIs
<1>3. ASSUME NEW z \in Handles, NEW i \in DOMAIN Below'[z]
      PROVE  Below'[z][i] \in Handles /\ rank[Below'[z][i]] < rank[z]
  <2>1. \E j \in DOMAIN Below[z] : Below[z][j] = Below'[z][i]
    <3>1. CASE z = x
      <4>1. HasChild(heap[x], Below'[x][i])
        BY <1>2, <3>1 DEF HasChild
      <4> QED BY <3>1, <4>1 DEF HasChild, Below
    <3> QED BY <1>2, <3>1
  <2> QED BY <1>1, <2>1 DEF Descends
<1>4. Descends(Below', Handles', rank, b)
  BY <1>1, <1>2, <1>3 DEF Descends
<1> QED BY <1>4 DEF Founded

\* One that makes y a child of x is only made if x is not below y: what x is below
\* moves above y.
LEMMA JoinFounded ==
    ASSUME Formed, Founded, NEW x \in Handles, NEW y \in Handles, ~Reaches(y, x),
           NEW c, Change(x, c), \A v : HasChild(c, v) => v = y \/ HasChild(heap[x], v)
    PROVE  Founded'
<1>0. PICK b \in Nat : \E rank : Descends(Below, Handles, rank, b)
  BY DEF Founded
<1>1. PICK rank : Descends(Below, Handles, rank, b)
  BY <1>0
<1>2. /\ Handles' = Handles /\ Below'[x] = Children(c)
      /\ \A z \in Handles : z # x => Below'[z] = Below[z]
  BY ChangeIs
<1>3. \A z \in Handles : rank[z] \in Nat /\ rank[z] <= b
  BY <1>1 DEF Descends
<1>4. \A z \in Handles : \A i \in DOMAIN Below[z] :
         Below[z][i] \in Handles /\ rank[Below[z][i]] < rank[z]
  BY <1>1 DEF Descends
<1>5. \A z \in Handles :
         Reaches(z, x) <=> z = x \/ \E i \in DOMAIN Below[z] : Reaches(Below[z][i], x)
  BY ReachesIs
<1> DEFINE r == [z \in Handles |->
                    IF Reaches(z, x) THEN rank[z] + rank[y] + 1 ELSE rank[z]]
           d == b + b + 1
<1>6. ASSUME NEW z \in Handles PROVE r[z] \in 0..d
  <2>1. rank[z] \in Nat /\ rank[z] <= b /\ rank[y] \in Nat /\ rank[y] <= b
    BY <1>3
  <2> QED BY <2>1
<1>7. ASSUME NEW z \in Handles, NEW i \in DOMAIN Below[z] PROVE r[Below[z][i]] < r[z]
  <2> DEFINE w == Below[z][i]
  <2>1. /\ w \in Handles /\ rank[w] < rank[z]
        /\ rank[w] \in Nat /\ rank[z] \in Nat /\ rank[y] \in Nat
    BY <1>3, <1>4
  <2>2. Reaches(w, x) => Reaches(z, x)
    BY <1>5
  <2> HIDE DEF w
  <2>3. /\ r[w] = IF Reaches(w, x) THEN rank[w] + rank[y] + 1 ELSE rank[w]
        /\ r[z] = IF Reaches(z, x) THEN rank[z] + rank[y] + 1 ELSE rank[z]
    BY <2>1
  <2> HIDE DEF r
  <2>4. r[w] < r[z]
    BY <2>1, <2>2, <2>3
  <2> QED BY <2>4 DEF w
<1>8. r[y] < r[x]
  <2>1. r[y] = rank[y] /\ r[x] = rank[x] + rank[y] + 1
    BY <1>5
  <2> QED BY <1>3, <2>1
<1> HIDE DEF r
<1>9. ASSUME NEW z \in Handles, NEW i \in DOMAIN Below'[z]
      PROVE  Below'[z][i] \in Handles /\ r[Below'[z][i]] < r[z]
  <2>1. CASE z = x
    <3>1. Below'[x][i] = y \/ \E j \in DOMAIN Below[x] : Below[x][j] = Below'[x][i]
      <4>1. HasChild(c, Below'[x][i])
        BY <1>2, <2>1 DEF HasChild
      <4> QED BY <4>1 DEF HasChild, Below
    <3> QED BY <1>4, <1>7, <1>8, <2>1, <3>1
  <2>2. CASE z # x
    BY <1>2, <1>4, <1>7, <2>2
  <2> QED BY <2>1, <2>2
<1>10. Descends(Below', Handles', r, d)
  <2> HIDE DEF d
  <2> QED BY <1>2, <1>6, <1>9 DEF Descends
<1>11. d \in Nat
  OBVIOUS
<1> HIDE DEF d
<1> QED BY <1>10, <1>11 DEF Founded

\* A new clause is above all.
LEMMA NewFounded ==
    ASSUME Formed, Founded, NEW c \in Forms, New(c),
           \A v : HasChild(c, v) => v \in Handles
    PROVE  Founded'
<1>0. PICK b \in Nat : \E rank : Descends(Below, Handles, rank, b)
  BY DEF Founded
<1>1. PICK rank : Descends(Below, Handles, rank, b)
  BY <1>0
<1>2. PICK n \in Nat : n = Len(heap) /\ Handles = 1..n /\ heap \in [1..n -> Forms]
  BY HeapFormed
<1>3. heap' = Append(heap, c)
  BY DEF New
<1> DEFINE s == Append(heap, c)
<1>4. /\ s \in Seq(Forms) /\ Len(s) = n + 1 /\ s[n + 1] = c
      /\ \A z \in 1..n : s[z] = heap[z]
  BY <1>2, AppendProperties DEF Formed
<1> HIDE DEF s
<1>5. /\ Handles' = 1..(n + 1) /\ heap'[n + 1] = c
      /\ \A z \in Handles : heap'[z] = heap[z] /\ z \in Handles' /\ z # n + 1
      /\ n + 1 \in Handles' /\ \A z \in Handles' : z = n + 1 \/ z \in Handles
  <2>1. DOMAIN s = 1..(n + 1)
    BY <1>4, LenProperties
  <2> QED BY <1>2, <1>3, <1>4, <2>1 DEF s, Handles
<1>6. /\ Below'[n + 1] = Children(c)
      /\ \A z \in Handles : Below'[z] = Below[z]
  BY <1>5 DEF Below
<1>7. /\ \A z \in Handles : rank[z] \in Nat /\ rank[z] <= b
      /\ \A z \in Handles : \A i \in DOMAIN Below[z] :
            Below[z][i] \in Handles /\ rank[Below[z][i]] < rank[z]
  BY <1>1 DEF Descends
<1> DEFINE r == [z \in Handles' |-> IF z = n + 1 THEN b + 1 ELSE rank[z]]
           d == b + 1
<1>8. /\ \A z \in Handles : r[z] = rank[z]
      /\ r[n + 1] = b + 1
  BY <1>5
<1> HIDE DEF r
<1>9. ASSUME NEW z \in Handles' PROVE r[z] \in 0..d
  BY <1>5, <1>7, <1>8
<1>10. ASSUME NEW z \in Handles', NEW i \in DOMAIN Below'[z]
       PROVE  Below'[z][i] \in Handles' /\ r[Below'[z][i]] < r[z]
  <2>1. CASE z = n + 1
    <3>1. Below'[z][i] \in Handles
      BY <1>6, <2>1 DEF HasChild
    <3>2. r[Below'[z][i]] = rank[Below'[z][i]]
      BY <1>8, <3>1
    <3>3. rank[Below'[z][i]] \in Nat /\ rank[Below'[z][i]] <= b
      BY <1>7, <3>1
    <3> QED BY <1>5, <1>8, <2>1, <3>1, <3>2, <3>3
  <2>2. CASE z # n + 1
    <3>1. z \in Handles /\ i \in DOMAIN Below[z] /\ Below'[z] = Below[z]
      BY <1>5, <1>6, <2>2
    <3>2. Below[z][i] \in Handles /\ rank[Below[z][i]] < rank[z]
      BY <1>7, <3>1
    <3>3. r[Below[z][i]] = rank[Below[z][i]] /\ r[z] = rank[z] /\ Below[z][i] \in Handles'
      BY <1>5, <1>8, <3>1, <3>2
    <3> QED BY <3>1, <3>2, <3>3
  <2> QED BY <2>1, <2>2
<1>11. Descends(Below', Handles', r, d)
  <2> HIDE DEF d
  <2> QED BY <1>9, <1>10 DEF Descends
<1>12. d \in Nat
  OBVIOUS
<1> HIDE DEF d
<1> QED BY <1>11, <1>12 DEF Founded

LEMMA OriginalFounded ==
    ASSUME Formed, Founded, NEW c \in Originals, New(c)
    PROVE  Founded'
<1>1. c \in Forms
  BY OriginalsFormed
<1>2. ASSUME NEW v PROVE ~HasChild(c, v)
  <2>1. c.operands = <<>> /\ c.parts = NoParts
    BY RequestsAssumption DEF Originals, Clause
  <2>2. ~Holds(c, v)
    BY <2>1 DEF Holds, NoParts
  <2> QED BY <1>1, <2>2, FormNested, ChildrenHeld
<1> QED BY <1>1, <1>2, NewFounded

LEMMA OperatorFounded ==
    ASSUME Formed, Founded, NEW type \in DOMAIN Operators,
           NEW operands \in [1..Operators[type] -> Handles], Operator(type, operands)
    PROVE  Founded'
<1> DEFINE c == [Clause("Expression", type, "") EXCEPT !.operands = operands]
<1>1. New(c)
  BY DEF Operator
<1>2. c \in Forms
  BY OperatorFormIs
<1>3. c.operands = operands /\ c.parts = NoParts
  BY DEF Clause
<1> HIDE DEF c
<1>4. ASSUME NEW v, HasChild(c, v) PROVE v \in Handles
  <2>1. Holds(c, v)
    BY <1>2, <1>4, FormNested, ChildrenHeld
  <2> QED BY <1>3, <2>1 DEF Holds, NoParts
<1> QED BY <1>1, <1>2, <1>4, NewFounded

LEMMA OperandFounded ==
    ASSUME Formed, Founded, NEW x \in Handles, NEW y \in Handles,
           AddOperand(x, y) \/ Selectors(x, y)
    PROVE  Founded'
<1> DEFINE o == heap[x].operands
           c == [heap[x] EXCEPT !.operands = Append(o, y)]
<1>1. heap[x] \in Forms /\ y \in Nat /\ Nested(heap[x], Nat)
  BY HandlesFormed, FormNested
<1>2. o \in Seq(Nat)
  BY <1>1, FormChanges
<1>3. Change(x, c) /\ ~Reaches(y, x)
  BY DEF AddOperand, Selectors, Joins
<1>4. c.operands = Append(o, y) /\ c.parts = heap[x].parts
  BY <1>1 DEF Forms
<1>5. PICK n \in Nat : n = Len(o) /\ DOMAIN o = 1..n
  BY <1>2, LenProperties
<1> DEFINE s == Append(o, y)
<1>6. /\ s \in Seq(Nat) /\ Len(s) = n + 1 /\ s[n + 1] = y
      /\ \A i \in 1..n : s[i] = o[i]
  BY <1>1, <1>2, <1>5, AppendProperties
<1>7. c \in Forms
  BY <1>1, <1>6, FormChanges
<1> HIDE DEF s
<1>8. DOMAIN s = 1..(n + 1)
  BY <1>6, LenProperties
<1>9. c.operands = s
  BY <1>4 DEF s
<1> HIDE DEF c
<1>10. ASSUME NEW v, HasChild(c, v) PROVE v = y \/ HasChild(heap[x], v)
  <2>1. Holds(c, v)
    BY <1>7, <1>10, FormNested, ChildrenHeld
  <2>2. ASSUME NEW i \in DOMAIN s, s[i] = v PROVE v = y \/ Holds(heap[x], v)
    <3>1. i = n + 1 \/ i \in 1..n
      BY <1>8
    <3> QED BY <1>5, <1>6, <2>2, <3>1 DEF Holds
  <2>3. v = y \/ Holds(heap[x], v)
    BY <1>4, <1>9, <2>1, <2>2 DEF Holds
  <2> QED BY <1>1, <2>3, ChildrenHeld
<1> QED BY <1>3, <1>10, JoinFounded

LEMMA PartFounded ==
    ASSUME Formed, Founded, NEW x \in Handles, NEW y \in Handles, NEW part \in Parts,
           SetPart(x, part, y)
    PROVE  Founded'
<1> DEFINE parts == heap[x].parts
           c == [heap[x] EXCEPT !.parts = WithPart(parts, part, y)]
<1>1. heap[x] \in Forms /\ Nested(heap[x], Nat)
  BY HandlesFormed, FormNested
<1>2. Change(x, c) /\ ~Reaches(y, x)
  BY DEF SetPart, Joins
<1>3. c \in Forms
  BY PartFormIs
<1>4. c.operands = heap[x].operands /\ c.parts = WithPart(parts, part, y)
  BY <1>1 DEF Forms
<1> HIDE DEF c
<1>5. ASSUME NEW v, HasChild(c, v) PROVE v = y \/ HasChild(heap[x], v)
  <2>1. Holds(c, v)
    BY <1>3, <1>5, FormNested, ChildrenHeld
  <2>2. v = y \/ Holds(heap[x], v)
    BY <1>4, <2>1 DEF Holds, WithPart
  <2> QED BY <1>1, <2>2, ChildrenHeld
<1> QED BY <1>2, <1>5, JoinFounded

LEMMA SameChildrenFounded ==
    ASSUME Formed, Founded, NEW x \in Handles, NEW c \in Forms, Change(x, c),
           c.operands = heap[x].operands, c.parts = heap[x].parts
    PROVE  Founded'
<1>1. Nested(c, Nat) /\ Nested(heap[x], Nat)
  BY HandlesFormed, FormNested
<1>2. ASSUME NEW v, HasChild(c, v) PROVE HasChild(heap[x], v)
  BY <1>1, <1>2, ChildrenHeld DEF Holds
<1> QED BY <1>2, ChangeFounded

LEMMA QueryNextFounded ==
    ASSUME Formed, Founded, [QueryNext]_queryVars
    PROVE  Founded'
<1>1. CASE \E c \in ToSet(Leaves) : Leaf(c)
  BY <1>1, OriginalFounded DEF Leaf, Originals
<1>2. CASE \E type \in DOMAIN Operators :
              \E operands \in [1..Operators[type] -> Handles] : Operator(type, operands)
  BY <1>2, OperatorFounded
<1>3. CASE \E c \in Statements : Begin(c)
  BY <1>3, OriginalFounded DEF Begin, Originals
<1>4. ASSUME NEW x \in Handles, NEW y \in Handles, AddOperand(x, y) \/ Selectors(x, y)
      PROVE  Founded'
  BY <1>4, OperandFounded
<1>5. ASSUME NEW x \in Handles, NEW y \in Handles, NEW part \in Parts,
             SetPart(x, part, y)
      PROVE  Founded'
  BY <1>5, PartFounded
<1>6. ASSUME NEW x \in Handles, NEW row \in Rows, AddRow(x, row)
      PROVE  Founded'
  <2> DEFINE r == Append(heap[x].rows, row)
             c == [heap[x] EXCEPT !.rows = r]
  <2>1. heap[x] \in Forms
    BY HandlesFormed
  <2>2. r \in Seq(Rows)
    BY <2>1, FormChanges, AppendProperties
  <2>3. Change(x, c)
    BY <1>6 DEF AddRow
  <2> HIDE DEF r
  <2>4. c \in Forms /\ c.operands = heap[x].operands /\ c.parts = heap[x].parts
    <3>1. c \in Forms
      BY <2>1, <2>2, FormChanges
    <3> QED BY <2>1, <3>1 DEF Forms
  <2> HIDE DEF c
  <2> QED BY <2>3, <2>4, SameChildrenFounded
<1>7. ASSUME NEW x \in Handles, UpdateIfExists(x)
      PROVE  Founded'
  <2> DEFINE c == [heap[x] EXCEPT !.type = "update_if_exists"]
  <2>1. heap[x] \in Forms
    BY HandlesFormed
  <2>2. c \in Forms /\ c.operands = heap[x].operands /\ c.parts = heap[x].parts
    <3>1. c \in Forms
      BY <2>1, FormChanges
    <3> QED BY <2>1, <3>1 DEF Forms
  <2>3. Change(x, c)
    BY <1>7 DEF UpdateIfExists
  <2> HIDE DEF c
  <2> QED BY <2>2, <2>3, SameChildrenFounded
<1>8. CASE heap' = heap
  BY <1>8 DEF Founded, Below, Handles
<1>9. CASE Compose
  BY <1>1, <1>2, <1>3, <1>4, <1>5, <1>6, <1>7, <1>8, <1>9 DEF Compose, AddClause
<1>10. CASE QueryToProto \/ QueryFromProto \/ UNCHANGED queryVars
  BY <1>8, <1>10 DEF QueryToProto, QueryFromProto, queryVars
<1> QED BY <1>9, <1>10 DEF QueryNext

-----------------------------------------------------------------------------
(* The messages that can be written: clause k stands for the handle g[k].   *)

WireValues ==
    LET values == {c.value : c \in Originals} \cup {""}
    IN values \cup {FloatOf[v] : v \in values}

\* A clause of a message, whose children are places in the message.
Wires == [kind : Kinds,
          type : {c.type : c \in Originals} \cup DOMAIN Operators
                    \cup {"update_if_exists"},
          value : WireValues, operands : Seq(Int),
          parts : UNION {[S -> Int] : S \in SUBSET ToSet(PartNames)}, rows : Seq(Rows)]

\* What is written of a clause, apart from its children.
Copies(w, c) ==
    /\ w.kind = c.kind /\ w.type = c.type /\ w.rows = c.rows
    /\ c.kind # "Select" =>
          w.value = IF c.kind = "Float" THEN FloatOf[c.value] ELSE c.value
    /\ Len(w.operands) = Len(c.operands) /\ DOMAIN w.parts = DOMAIN c.parts

LEMMA WrittenIs ==
    ASSUME NEW c \in Forms, NEW at, \A i \in DOMAIN Children(c) : at[i] \in Int
    PROVE  /\ WrittenAt(c, at) \in Wires /\ Copies(WrittenAt(c, at), c)
           /\ Refers(WrittenAt(c, at), c, at) /\ Nested(WrittenAt(c, at), Int)
<1> DEFINE T == {d.type : d \in Originals} \cup DOMAIN Operators \cup {"update_if_exists"}
           V == {d.value : d \in Originals} \cup {""}
           W == WireValues
           O == Seq(Int)
           P == UNION {[S -> Int] : S \in SUBSET ToSet(PartNames)}
           R == Seq(Rows)
           n == Len(c.operands)
           those == PartsOf(c)
           m == Len(those)
           spot(p) == CHOOSE i \in DOMAIN those : those[i] = p
           o == [i \in 1..n |-> at[i]]
           q == [p \in DOMAIN c.parts |-> at[n + spot(p)]]
           v == CASE c.kind = "Select" -> ""
                  [] c.kind = "Float" -> FloatOf[c.value]
                  [] OTHER -> c.value
           w == [c EXCEPT !.value = v, !.operands = o, !.parts = q]
<1>1. WrittenAt(c, at) = w
  BY DEF WrittenAt, OnWire
<1>2. Nested(c, Nat) /\ Lined(c, Nat)
  BY FormNested
<1>3. /\ n \in Nat /\ m \in Nat /\ DOMAIN those = 1..m /\ DOMAIN Children(c) = 1..(n + m)
      /\ \A p \in DOMAIN c.parts : \E i \in 1..m : those[i] = p
      /\ \A i, j \in 1..m : those[i] = those[j] => i = j
      /\ \A i \in 1..m : those[i] \in DOMAIN c.parts
  <2>1. /\ those \in Seq(DOMAIN c.parts)
        /\ \A p \in DOMAIN c.parts : \E i \in DOMAIN those : those[i] = p
        /\ \A i, j \in DOMAIN those : those[i] = those[j] => i = j
    BY <1>2, PartsListed
  <2>2. n \in Nat /\ m \in Nat /\ DOMAIN those = 1..m /\ DOMAIN Children(c) = 1..(n + m)
    BY <1>2 DEF Lined
  <2>3. \A i \in 1..m : those[i] \in DOMAIN c.parts
    BY <2>1, ElementOfSeq
  <2> QED BY <2>1, <2>2, <2>3
<1>4. \A i \in 1..(n + m) : at[i] \in Int
  BY <1>3
<1>5. \A p \in DOMAIN c.parts : spot(p) \in 1..m /\ those[spot(p)] = p
  BY <1>3
<1>6. \A i \in 1..m : spot(those[i]) = i
  BY <1>3, <1>5
<1> HIDE DEF n, m, those, spot
<1>7. o \in [1..n -> Int] /\ \A i \in 1..n : o[i] = at[i]
  BY <1>3, <1>4
<1>8. o \in O /\ Len(o) = n
  <2> HIDE DEF o
  <2>1. o \in O
    BY <1>3, <1>7, SeqDef
  <2> QED BY <1>3, <1>7, <2>1, LenProperties
<1>9. \A i \in 1..m : q[those[i]] = at[n + i]
  BY <1>3, <1>6
<1>10. q \in [DOMAIN c.parts -> Int]
  <2>1. \A p \in DOMAIN c.parts : n + spot(p) \in 1..(n + m)
    BY <1>3, <1>5
  <2> QED BY <1>4, <2>1
<1>11. q \in P
  <2> HIDE DEF q
  <2>1. DOMAIN c.parts \in SUBSET ToSet(PartNames)
    BY <1>2 DEF Nested
  <2> QED BY <1>10, <2>1
<1>12. v \in W
  <2>1. c.value \in V
    BY DEF Forms
  <2>2. "" \in W /\ c.value \in W /\ FloatOf[c.value] \in W
    BY <2>1 DEF WireValues
  <2> HIDE DEF W
  <2> QED BY <2>2
<1>13. c \in [kind : Kinds, type : T, value : V, operands : Seq(Nat), parts : PartMaps,
              rows : R]
  BY DEF Forms
<1>14. c.kind # "Select" => v = IF c.kind = "Float" THEN FloatOf[c.value] ELSE c.value
  OBVIOUS
<1> HIDE DEF T, V, W, O, P, R, o, q, v
<1>15. /\ w \in [kind : Kinds, type : T, value : W, operands : O, parts : P, rows : R]
       /\ w.kind = c.kind /\ w.type = c.type /\ w.rows = c.rows /\ w.value = v
       /\ w.operands = o /\ w.parts = q
  BY <1>8, <1>11, <1>12, <1>13
<1> HIDE DEF w
<1>16. w \in Wires
  BY <1>15 DEF Wires, T, W, O, P, R
<1>17. Copies(w, c)
  BY <1>8, <1>10, <1>14, <1>15 DEF Copies, n
<1>18. Nested(w, Int)
  BY <1>8, <1>11, <1>15 DEF Nested, O, P
<1>19. Refers(w, c, at)
  <2>1. \A i \in 1..Len(c.operands) : w.operands[i] = at[i]
    BY <1>7, <1>15 DEF n
  <2>2. \A i \in 1..Len(PartsOf(c)) : w.parts[PartsOf(c)[i]] = at[Len(c.operands) + i]
    BY <1>9, <1>15 DEF n, m, those
  <2>3. Len(w.operands) = Len(c.operands) /\ DOMAIN w.parts = DOMAIN c.parts
    BY <1>17 DEF Copies
  <2>4. Placed(w, c, at)
    BY <2>1, <2>2, <2>3 DEF Placed
  <2> QED BY <1>2, <1>18, <2>4, ChildrenOfShape
<1> QED BY <1>1, <1>16, <1>17, <1>18, <1>19

\* at gives the children of y places before n that stand for them.
Points(at, g, y, n) ==
    /\ at \in [DOMAIN Below[y] -> 0..(n - 1)]
    /\ \A i \in DOMAIN Below[y] : g[at[i] + 1] = Below[y][i]

Stands(s, g, k) ==
    \E at : Points(at, g, g[k], k - 1) /\ s[k] = WrittenAt(heap[g[k]], at)

\* Every clause of s is what is written of the handle it stands for.
Message(s, g) ==
    /\ s \in Seq(Wires) /\ g \in [1..Len(s) -> Handles]
    /\ \A k \in 1..Len(s) : Stands(s, g, k)

LEMMA PointsKept ==
    ASSUME NEW n \in Nat, NEW at, NEW g, NEW y, Points(at, g, y, n), NEW h,
           \A k \in 1..n : h[k] = g[k]
    PROVE  Points(at, h, y, n)
<1>1. ASSUME NEW i \in DOMAIN Below[y] PROVE at[i] + 1 \in 1..n
  BY DEF Points
<1> QED BY <1>1 DEF Points

LEMMA MessageGrows ==
    ASSUME Formed, NEW s, NEW g, Message(s, g), NEW y \in Handles, NEW at,
           Points(at, g, y, Len(s))
    PROVE  LET t == Append(s, WrittenAt(heap[y], at))
           IN /\ t \in Seq(Wires) /\ Len(t) = Len(s) + 1
              /\ \E h : /\ Message(t, h) /\ h[Len(s) + 1] = y
                        /\ \A k \in 1..Len(s) : h[k] = g[k]
<1> DEFINE w == WrittenAt(heap[y], at)
           t == Append(s, w)
<1>1. PICK n \in Nat : n = Len(s)
  BY LenProperties DEF Message
<1> DEFINE h == [k \in 1..(n + 1) |-> IF k = n + 1 THEN y ELSE g[k]]
<1>2. w \in Wires
  <2>1. heap[y] \in Forms /\ \A i \in DOMAIN Children(heap[y]) : at[i] \in Int
    BY <1>1, HandlesFormed DEF Points, Below
  <2> QED BY <2>1, WrittenIs
<1>3. w = WrittenAt(heap[y], at)
  OBVIOUS
<1> HIDE DEF w
<1>4. /\ t \in Seq(Wires) /\ Len(t) = n + 1 /\ t[n + 1] = w
      /\ \A k \in 1..n : t[k] = s[k]
  BY <1>1, <1>2, AppendProperties DEF Message
<1> HIDE DEF t
<1>5. h[n + 1] = y /\ \A k \in 1..n : h[k] = g[k]
  OBVIOUS
<1>6. h \in [1..(n + 1) -> Handles]
  <2>1. \A k \in 1..(n + 1) : k # n + 1 => k \in 1..n
    OBVIOUS
  <2> QED BY <1>1, <2>1 DEF Message
<1> HIDE DEF h
<1>7. ASSUME NEW k \in 1..(n + 1) PROVE Stands(t, h, k)
  <2>1. CASE k \in 1..n
    <3>1. PICK e : Points(e, g, g[k], k - 1) /\ s[k] = WrittenAt(heap[g[k]], e)
      BY <1>1, <2>1 DEF Message, Stands
    <3>2. k - 1 \in Nat /\ \A j \in 1..(k - 1) : h[j] = g[j]
      BY <1>5, <2>1
    <3>3. Points(e, h, g[k], k - 1)
      BY <3>1, <3>2, PointsKept
    <3> QED BY <1>4, <1>5, <2>1, <3>1, <3>3 DEF Stands
  <2>2. CASE k = n + 1
    <3>1. Points(at, h, y, n)
      BY <1>1, <1>5, PointsKept
    <3>2. (n + 1) - 1 = n
      OBVIOUS
    <3> QED BY <1>3, <1>4, <1>5, <2>2, <3>1, <3>2 DEF Stands
  <2> QED BY <2>1, <2>2
<1>8. Message(t, h)
  BY <1>4, <1>6, <1>7 DEF Message
<1> QED BY <1>1, <1>3, <1>4, <1>5, <1>8 DEF t

\* What is appended for the first children, and where each of them is then.
Before(appended, n, until) ==
    /\ until[0] = <<>>
    /\ \A i \in 0..Len(appended) : until[i] \in Seq(Wires)
    /\ \A i \in 1..Len(appended) :
          until[i] = until[i - 1] \o appended[i][n + Len(until[i - 1])]

Appended(c, appended, n, until, at) ==
    /\ at = [i \in 1..Len(appended) |-> n + Len(until[i]) - 1]
    /\ Appends(c, appended)[n] = Append(until[Len(appended)], WrittenAt(c, at))

LEMMA AppendsIs ==
    ASSUME NEW c, NEW appended \in Seq([Nat -> Seq(Wires)]), NEW n \in Nat
    PROVE  \E until, at :
              Before(appended, n, until) /\ Appended(c, appended, n, until, at)
<1> DEFINE A == [Nat -> Seq(Wires)]
           next(i, u) == u \o appended[i][n + Len(u)]
           Is(f) == f = [i \in 0..Len(appended) |->
                            IF i = 0 THEN <<>>
                            ELSE f[i - 1] \o appended[i][n + Len(f[i - 1])]]
<1>1. PICK l \in Nat : l = Len(appended)
  BY LenProperties
<1>2. \A i \in 1..l : appended[i] \in A
  BY <1>1, ElementOfSeq
<1> DEFINE U == [i \in 0..l |-> Seq(Wires)]
           step == [i \in 1..l |-> [u \in Seq(Wires) |-> next(i, u)]]
<1>3. ASSUME NEW i \in 1..l, NEW u \in Seq(Wires) PROVE next(i, u) \in Seq(Wires)
  <2>1. n + Len(u) \in Nat
    BY LenProperties
  <2>2. appended[i][n + Len(u)] \in Seq(Wires)
    BY <1>2, <2>1
  <2> QED BY <2>2, ConcatProperties
<1>4. Steps(step, l, U) /\ <<>> \in U[0]
  <2>1. \A i \in 1..l : i - 1 \in 0..l /\ i \in 0..l
    OBVIOUS
  <2>2. <<>> \in U[0]
    OBVIOUS
  <2> HIDE DEF next
  <2> QED BY <1>3, <2>1, <2>2 DEF Steps
<1>5. \E f : Is(f) /\ \A i \in 0..l : f[i] \in Seq(Wires)
  <2> HIDE DEF step, next, Is, U
  <2>1. PICK f : Runs(f, l, U, <<>>, step)
    BY <1>4, Recursion
  <2> USE DEF Runs
  <2>2. ASSUME NEW k \in 1..l PROVE f[k] = next(k, f[k - 1])
    <3>1. k - 1 \in 0..l
      OBVIOUS
    <3>2. f[k - 1] \in Seq(Wires)
      BY <2>1, <3>1 DEF U
    <3>3. step[k][f[k - 1]] = next(k, f[k - 1])
      BY <3>2 DEF step
    <3> QED BY <2>1, <3>3
  <2>3. \A k \in 0..l : k # 0 => k \in 1..l
    OBVIOUS
  <2>4. Is(f)
    BY <1>1, <2>1, <2>2, <2>3 DEF Is, next
  <2> QED BY <2>1, <2>4 DEF U
<1> DEFINE until == CHOOSE f : Is(f)
           at == [i \in DOMAIN appended |-> n + Len(until[i]) - 1]
<1>6. Is(until)
  BY <1>5
<1>7. Appends(c, appended)[n] = Append(until[Len(appended)], WrittenAt(c, at))
  BY DEF Appends
<1> HIDE DEF until
<1>8. until[0] = <<>>
  BY <1>1, <1>6
<1>9. ASSUME NEW i \in 1..l PROVE until[i] = next(i, until[i - 1])
  <2>1. i \in 0..l /\ i # 0
    OBVIOUS
  <2> QED BY <1>1, <1>6, <2>1
<1>10. \A i \in 0..l : until[i] \in Seq(Wires)
  <2> HIDE DEF step, next, Is, U
  <2>1. Follows(until, l, U, <<>>, step)
    <3>1. ASSUME NEW i \in 1..l, until[i - 1] \in U[i - 1]
          PROVE  until[i] = step[i][until[i - 1]]
      <4>1. i - 1 \in 0..l
        OBVIOUS
      <4>2. until[i - 1] \in Seq(Wires)
        BY <3>1, <4>1 DEF U
      <4> QED BY <1>9, <4>2 DEF step
    <3> QED BY <1>8, <3>1 DEF Follows
  <2>2. \A i \in 0..l : until[i] \in U[i]
    BY <1>4, <2>1, Stays
  <2> QED BY <2>2 DEF U
<1>11. Before(appended, n, until)
  BY <1>1, <1>8, <1>9, <1>10 DEF Before
<1>12. Appended(c, appended, n, until, at)
  <2>1. DOMAIN appended = 1..Len(appended)
    BY LenProperties
  <2> QED BY <1>7, <2>1 DEF Appended
<1> QED BY <1>11, <1>12

\* To a message, t adds clauses of which the last stands for y.
Adds(s, g, t, y) ==
    \E h : /\ Message(s \o t, h) /\ h[Len(s) + Len(t)] = y
           /\ \A k \in 1..Len(s) : h[k] = g[k]

\* Whatever was written before, a adds the clause y and all that is below it.
Writes(a, y) ==
    \A s, g : Message(s, g) => a[Len(s)] # <<>> /\ Adds(s, g, a[Len(s)], y)

AllWrite(appended, y) ==
    /\ appended \in [DOMAIN Below[y] -> [Nat -> Seq(Wires)]]
    /\ \A i \in DOMAIN Below[y] : Writes(appended[i], Below[y][i])

\* The children are written one after the other.
LaidOut(s, g, y, until, l) ==
    \E h : /\ Message(s \o until[l], h)
           /\ \A k \in 1..Len(s) : h[k] = g[k]
           /\ \A j \in 1..l : /\ Len(until[j]) \in 1..Len(until[l])
                              /\ h[Len(s) + Len(until[j])] = Below[y][j]

LEMMA BeforeWrites ==
    ASSUME NEW y, NEW l \in Nat, DOMAIN Below[y] = 1..l,
           NEW appended, AllWrite(appended, y), l = Len(appended),
           NEW s, NEW g, Message(s, g), NEW until, Before(appended, Len(s), until)
    PROVE  LaidOut(s, g, y, until, l)
<1>1. PICK n \in Nat : n = Len(s) /\ s \in Seq(Wires)
  BY LenProperties DEF Message
<1> DEFINE Good(i, h) ==
              /\ Message(s \o until[i], h)
              /\ \A k \in 1..n : h[k] = g[k]
              /\ \A j \in 1..i : /\ Len(until[j]) \in 1..Len(until[i])
                                 /\ h[n + Len(until[j])] = Below[y][j]
           S == {i \in 0..l : \E h : Good(i, h)}
<1>2. \A i \in 0..l : until[i] \in Seq(Wires) /\ Len(until[i]) \in Nat
  BY LenProperties DEF Before
<1>3. 0 \in S
  <2>1. s \o until[0] = s
    BY <1>1, ConcatEmptySeq DEF Before
  <2>2. Good(0, g)
    BY <2>1
  <2> HIDE DEF Good
  <2> QED BY <2>2
<1>4. ASSUME NEW i \in 0..(l - 1), i \in S PROVE i + 1 \in S
  <2>1. PICK h : Good(i, h)
    BY <1>4
  <2> DEFINE u == until[i]
             m == Len(u)
             p == s \o u
             t == appended[i + 1][n + m]
  <2>2. i \in 0..l /\ i + 1 \in 0..l /\ i + 1 \in 1..l /\ (i + 1) - 1 = i /\ i \in Nat
    OBVIOUS
  <2>3. u \in Seq(Wires) /\ m \in Nat
    BY <1>2, <2>2
  <2>4. until[i + 1] = u \o t
    BY <1>1, <2>2 DEF Before
  <2>5. Len(p) = n + m /\ p \in Seq(Wires)
    BY <1>1, <2>3, ConcatProperties
  <2>6. t \in Seq(Wires) /\ t # <<>> /\ Adds(p, h, t, Below[y][i + 1])
    <3>1. /\ appended[i + 1] \in [Nat -> Seq(Wires)]
          /\ Writes(appended[i + 1], Below[y][i + 1])
      BY <2>2 DEF AllWrite
    <3>2. Message(p, h)
      BY <2>1
    <3> HIDE DEF p
    <3>3. n + m \in Nat
      BY <2>3
    <3> HIDE DEF m
    <3> QED BY <2>5, <3>1, <3>2, <3>3 DEF Writes
  <2>7. Len(t) \in Nat \ {0}
    BY <2>6, EmptySeq
  <2>8. PICK f : /\ Message(p \o t, f) /\ f[n + m + Len(t)] = Below[y][i + 1]
                 /\ \A k \in 1..(n + m) : f[k] = h[k]
    BY <2>5, <2>6 DEF Adds
  <2>9. p \o t = s \o until[i + 1]
    <3>1. s \in Seq(Wires) /\ u \in Seq(Wires) /\ t \in Seq(Wires)
      BY <1>1, <2>3, <2>6
    <3> HIDE DEF u, t, m
    <3>2. (s \o u) \o t = s \o (u \o t)
      BY <3>1, ConcatAssociative, SMTT(30)
    <3> QED BY <2>4, <3>2
  <2>10. Len(until[i + 1]) = m + Len(t)
    BY <2>3, <2>4, <2>6, ConcatProperties
  <2>11. \A k \in 1..n : f[k] = g[k]
    <3>1. \A k \in 1..n : k \in 1..(n + m) /\ h[k] = g[k]
      BY <2>1, <2>3
    <3> QED BY <2>8, <3>1
  <2>12. ASSUME NEW j \in 1..(i + 1)
         PROVE  /\ Len(until[j]) \in 1..Len(until[i + 1])
                /\ f[n + Len(until[j])] = Below[y][j]
    <3>1. CASE j \in 1..i
      <4>1. Len(until[j]) \in 1..m /\ h[n + Len(until[j])] = Below[y][j]
        BY <2>1, <3>1
      <4>2. Len(until[j]) \in 1..(m + Len(t)) /\ n + Len(until[j]) \in 1..(n + m)
        <5> HIDE DEF m, t
        <5> QED BY <1>1, <2>3, <2>7, <4>1
      <4> QED BY <2>8, <2>10, <4>1, <4>2
    <3>2. CASE j = i + 1
      <4>1. n + (m + Len(t)) = n + m + Len(t) /\ m + Len(t) \in 1..(m + Len(t))
        <5> HIDE DEF m, t
        <5> QED BY <1>1, <2>3, <2>7
      <4> QED BY <2>8, <2>10, <3>2, <4>1
    <3> QED BY <2>2, <3>1, <3>2
  <2>13. Good(i + 1, f)
    BY <2>8, <2>9, <2>11, <2>12
  <2> HIDE DEF Good
  <2> QED BY <2>2, <2>13
<1>5. l \in S
  <2> HIDE DEF S
  <2>1. \A i \in 0..l : i \in S
    BY <1>3, <1>4, UpTo
  <2> QED BY <2>1
<1> QED BY <1>1, <1>5 DEF LaidOut

LEMMA AppendsAll ==
    \A c, appended : Appends(c, appended) = [n \in Nat |-> Appends(c, appended)[n]]
<1> TAKE c, appended
<1> DEFINE Is(n, f) == f = [i \in 0..Len(appended) |->
                               IF i = 0 THEN <<>>
                               ELSE f[i - 1] \o appended[i][n + Len(f[i - 1])]]
           until(n) == CHOOSE f : Is(n, f)
           at(n) == [i \in DOMAIN appended |-> n + Len(until(n)[i]) - 1]
           body(n) == Append(until(n)[Len(appended)], WrittenAt(c, at(n)))
<1>1. Appends(c, appended) = [n \in Nat |-> body(n)]
  BY DEF Appends
<1> HIDE DEF body
<1> QED BY <1>1

LEMMA AppendsWrites ==
    ASSUME Formed, NEW y \in Handles, NEW appended, AllWrite(appended, y)
    PROVE  /\ Appends(heap[y], appended) \in [Nat -> Seq(Wires)]
           /\ Writes(Appends(heap[y], appended), y)
<1> DEFINE c == heap[y]
           a == Appends(c, appended)
           A == [Nat -> Seq(Wires)]
<1>1. PICK l \in Nat : DOMAIN Below[y] = 1..l /\ DOMAIN Children(c) = 1..l
  <2>1. Lined(c, Nat)
    BY HandlesFormed, FormNested
  <2> QED BY <2>1, LenProperties DEF Lined, Below
<1>2. appended \in [1..l -> A]
  BY <1>1 DEF AllWrite
<1>3. appended \in Seq(A) /\ Len(appended) = l
  <2> HIDE DEF A
  <2>1. appended \in Seq(A)
    BY <1>2, SeqDef
  <2> QED BY <1>2, <2>1, LenProperties
<1>4. \A n \in Nat : \E until, at :
         Before(appended, n, until) /\ Appended(c, appended, n, until, at)
  BY <1>3, AppendsIs
<1>5. ASSUME NEW n \in Nat PROVE a[n] \in Seq(Wires)
  <2>1. PICK until, at : Before(appended, n, until) /\ Appended(c, appended, n, until, at)
    BY <1>4
  <2>2. until[l] \in Seq(Wires)
    BY <1>3, <2>1 DEF Before
  <2>3. \A i \in 1..l : at[i] \in Int
    <3>1. ASSUME NEW i \in 1..l PROVE Len(until[i]) \in Nat
      <4>1. until[i] \in Seq(Wires)
        BY <1>3, <2>1 DEF Before
      <4> QED BY <4>1, LenProperties
    <3> QED BY <1>3, <2>1, <3>1 DEF Appended
  <2>4. WrittenAt(c, at) \in Wires
    BY <1>1, <2>3, HandlesFormed, WrittenIs
  <2>5. a[n] = Append(until[l], WrittenAt(c, at))
    BY <1>3, <2>1 DEF Appended
  <2> QED BY <2>2, <2>4, <2>5, AppendProperties
<1>6. a = [n \in Nat |-> a[n]]
  BY AppendsAll
<1>7. a \in A
  <2> HIDE DEF a
  <2> QED BY <1>5, <1>6
<1>8. ASSUME NEW s, NEW g, Message(s, g)
      PROVE  a[Len(s)] # <<>> /\ Adds(s, g, a[Len(s)], y)
  <2>1. PICK n \in Nat : n = Len(s) /\ s \in Seq(Wires)
    BY <1>8, LenProperties DEF Message
  <2>2. PICK until, at : Before(appended, n, until) /\ Appended(c, appended, n, until, at)
    BY <1>4
  <2>3. PICK h : /\ Message(s \o until[l], h)
                 /\ \A k \in 1..n : h[k] = g[k]
                 /\ \A j \in 1..l : /\ Len(until[j]) \in 1..Len(until[l])
                                    /\ h[n + Len(until[j])] = Below[y][j]
    <3>1. Before(appended, Len(s), until)
      BY <2>1, <2>2
    <3>2. LaidOut(s, g, y, until, l)
      BY <1>1, <1>3, <1>8, <3>1, BeforeWrites
    <3> QED BY <2>1, <3>2 DEF LaidOut
  <2> DEFINE u == until[l]
             m == Len(u)
             p == s \o u
             w == WrittenAt(c, at)
             t == Append(u, w)
  <2>4. u \in Seq(Wires) /\ m \in Nat
    BY <1>3, <2>2, LenProperties DEF Before
  <2>5. Len(p) = n + m /\ p \in Seq(Wires)
    BY <2>1, <2>4, ConcatProperties
  <2>6. at = [i \in 1..l |-> n + Len(until[i]) - 1] /\ a[n] = t
    BY <1>3, <2>2 DEF Appended
  <2>7. Points(at, h, y, n + m)
    <3>1. ASSUME NEW i \in 1..l
          PROVE  at[i] \in 0..((n + m) - 1) /\ h[at[i] + 1] = Below[y][i]
      <4>1. /\ Len(until[i]) \in 1..m /\ h[n + Len(until[i])] = Below[y][i]
            /\ at[i] = n + Len(until[i]) - 1
        BY <2>3, <2>6
      <4>2. at[i] \in 0..((n + m) - 1) /\ at[i] + 1 = n + Len(until[i])
        BY <2>4, <4>1
      <4> QED BY <4>1, <4>2
    <3>2. at = [i \in 1..l |-> at[i]]
      BY <2>6
    <3> QED BY <1>1, <3>1, <3>2 DEF Points
  <2>8. w \in Wires
    <3>1. \A i \in 1..l : at[i] \in Int
      BY <1>1, <2>4, <2>7 DEF Points
    <3> QED BY <1>1, <3>1, HandlesFormed, WrittenIs
  <2>9. PICK f : /\ Message(Append(p, w), f) /\ f[n + m + 1] = y
                 /\ \A k \in 1..(n + m) : f[k] = h[k]
    <3>1. Message(p, h)
      BY <2>3
    <3> HIDE DEF p
    <3> QED BY <2>5, <2>7, <3>1, MessageGrows
  <2>10. Append(p, w) = s \o t /\ t \in Seq(Wires) /\ Len(t) = m + 1 /\ t # <<>>
    <3>1. <<w>> \in Seq(Wires)
      BY <2>8
    <3>2. Append(p, w) = p \o <<w>> /\ t = u \o <<w>>
      BY <2>4, <2>5, <2>8, AppendIsConcat
    <3>3. p \o <<w>> = s \o (u \o <<w>>)
      <4> HIDE DEF u, w
      <4> QED BY <2>1, <2>4, <3>1, ConcatAssociative
    <3>4. t \in Seq(Wires) /\ Len(t) = m + 1 /\ t # <<>>
      BY <2>4, <2>8, AppendProperties
    <3> QED BY <3>2, <3>3, <3>4
  <2>11. \A k \in 1..n : f[k] = g[k]
    <3>1. \A k \in 1..n : k \in 1..(n + m) /\ h[k] = g[k]
      BY <2>3, <2>4
    <3> QED BY <2>9, <3>1
  <2> HIDE DEF p, t, w, a, m
  <2>12. n + m + 1 = n + Len(t)
    BY <2>4, <2>10
  <2>13. Adds(s, g, t, y)
    BY <2>1, <2>9, <2>10, <2>11, <2>12 DEF Adds
  <2> QED BY <2>1, <2>6, <2>10, <2>13
<1> QED BY <1>7, <1>8 DEF Writes

\* Every clause is written after those below it, once for each place.
Writers(appends) ==
    \A x \in Handles :
        /\ appends[x] \in [Nat -> Seq(Wires)] /\ Writes(appends[x], x)
        /\ \A s : ToProto(x, s) = s \o appends[x][Len(s)]

LEMMA ToProtoWrites ==
    ASSUME Formed, Founded
    PROVE  \E appends : Writers(appends)
<1>0. PICK b \in Nat : \E rank : Descends(Below, Handles, rank, b)
  BY DEF Founded
<1>1. PICK rank : Descends(Below, Handles, rank, b)
  BY <1>0
<1> DEFINE A == [Nat -> Seq(Wires)]
           V(y) == [DOMAIN Below[y] -> A]
           step == [y \in Handles |-> [v \in V(y) |-> Appends(heap[y], v)]]
           U == [y \in Handles |-> {a \in A : Writes(a, y)}]
           Is(f) == f = [y \in Handles |->
                            Appends(heap[y], [i \in DOMAIN Children(heap[y]) |->
                                                 f[Children(heap[y])[i]]])]
<1>2. \A y \in Handles : \A i \in DOMAIN Below[y] : Below[y][i] \in Handles
  BY <1>1 DEF Descends
<1>3. ASSUME NEW y \in Handles, NEW v, v = [i \in DOMAIN Below[y] |-> v[i]],
             \A i \in DOMAIN Below[y] : v[i] \in U[Below[y][i]]
      PROVE  v \in V(y) /\ Appends(heap[y], v) \in U[y]
  <2>1. \A i \in DOMAIN Below[y] : v[i] \in A /\ Writes(v[i], Below[y][i])
    BY <1>2, <1>3
  <2>2. v \in V(y)
    <3> HIDE DEF A
    <3> QED BY <1>3, <2>1
  <2>3. AllWrite(v, y)
    BY <2>1, <2>2 DEF AllWrite
  <2> QED BY <2>2, <2>3, AppendsWrites
<1>4. GraphSteps(step, Below, Handles, U)
  <2> HIDE DEF U, V
  <2> QED BY <1>3 DEF GraphSteps
<1>5. ASSUME NEW y \in Handles, NEW f
      PROVE  [i \in DOMAIN Children(heap[y]) |-> f[Children(heap[y])[i]]]
                = Image(f, Below[y])
  BY DEF Below, Image
<1>6. \E f : Is(f)
  <2> HIDE DEF step, U, V, Is
  <2>1. PICK f : GraphRuns(f, Below, Handles, U, step)
    BY <1>1, <1>4, GraphRecursion
  <2>2. ASSUME NEW y \in Handles
        PROVE  f[y] = Appends(heap[y], Image(f, Below[y]))
    <3> DEFINE v == Image(f, Below[y])
    <3>1. /\ v = [i \in DOMAIN Below[y] |-> v[i]]
          /\ \A i \in DOMAIN Below[y] : v[i] \in U[Below[y][i]]
      BY <1>2, <2>1 DEF GraphRuns, Image
    <3>2. f[y] = step[y][v]
      BY <2>1 DEF GraphRuns
    <3> HIDE DEF v
    <3>3. v \in V(y)
      BY <1>3, <3>1
    <3>4. f[y] = Appends(heap[y], v)
      BY <3>2, <3>3 DEF step
    <3> QED BY <3>4 DEF v
  <2>3. f = [y \in Handles |-> f[y]]
    BY <2>1 DEF GraphRuns
  <2>4. Is(f)
    BY <1>5, <2>2, <2>3 DEF Is
  <2> QED BY <2>4
<1> DEFINE appends == CHOOSE f : Is(f)
<1>7. Is(appends)
  BY <1>6
<1>8. ASSUME NEW x, NEW s PROVE ToProto(x, s) = s \o appends[x][Len(s)]
  BY DEF ToProto
<1> HIDE DEF appends
<1>9. ASSUME NEW y \in Handles
      PROVE  appends[y] = Appends(heap[y], Image(appends, Below[y]))
  BY <1>5, <1>7
<1>10. \A y \in Handles : appends[y] \in U[y]
  <2> HIDE DEF U, V, Is
  <2>1. GraphFollows(appends, Below, Handles, U, step)
    <3>1. ASSUME NEW y \in Handles,
                 \A i \in DOMAIN Below[y] : appends[Below[y][i]] \in U[Below[y][i]]
          PROVE  appends[y] = step[y][Image(appends, Below[y])]
      <4> DEFINE v == Image(appends, Below[y])
      <4>1. /\ v = [i \in DOMAIN Below[y] |-> v[i]]
            /\ \A i \in DOMAIN Below[y] : v[i] \in U[Below[y][i]]
        BY <3>1 DEF Image
      <4>2. appends[y] = Appends(heap[y], v)
        BY <1>9
      <4> HIDE DEF v
      <4>3. v \in V(y)
        BY <1>3, <4>1
      <4>4. appends[y] = step[y][v]
        BY <4>2, <4>3
      <4> QED BY <4>4 DEF v
    <3> QED BY <3>1 DEF GraphFollows
  <2> HIDE DEF step
  <2> QED BY <1>1, <1>4, <2>1, GraphStays
<1>11. Writers(appends)
  BY <1>8, <1>10 DEF Writers
<1> QED BY <1>11

\* A query of n clauses was written.
Messages == [clauses : Seq(Wires), start_points : Seq(Nat)]

\* Its starting points are the places of the clauses of the query.
Labels(m, n, g) ==
    /\ Message(m.clauses, g)
    /\ Len(m.start_points) = n
    /\ \A i \in 1..n : /\ m.start_points[i] + 1 \in 1..Len(m.clauses)
                       /\ g[m.start_points[i] + 1] = query[i]

Sent(m, n) == m \in Messages /\ \E g : Labels(m, n, g)

LEMMA WriteSends ==
    ASSUME Formed, Founded, NEW n \in Nat, query[n + 1] \in Handles, NEW m, Sent(m, n)
    PROVE  Sent(Write(m, query[n + 1]), n + 1)
<1> DEFINE x == query[n + 1]
           s == m.clauses
           p == m.start_points
           t == ToProto(x, s)
           q == Append(p, Len(t) - 1)
<1>1. PICK g : Labels(m, n, g)
  BY DEF Sent
<1>2. PICK appends : Writers(appends)
  BY ToProtoWrites
<1>3. s \in Seq(Wires) /\ p \in Seq(Nat) /\ Len(p) = n
  BY <1>1 DEF Sent, Messages, Labels
<1>4. PICK l \in Nat : l = Len(s)
  BY <1>3, LenProperties
<1> DEFINE a == appends[x][l]
<1>5. t = s \o a /\ a \in Seq(Wires) /\ a # <<>> /\ Adds(s, g, a, x)
  <2>1. Message(s, g)
    BY <1>1 DEF Labels
  <2>2. /\ appends[x] \in [Nat -> Seq(Wires)] /\ Writes(appends[x], x)
        /\ \A e : ToProto(x, e) = e \o appends[x][Len(e)]
    BY <1>2 DEF Writers
  <2> QED BY <1>4, <2>1, <2>2 DEF Writes
<1> HIDE DEF a, t
<1>6. Len(a) \in Nat \ {0} /\ t \in Seq(Wires) /\ Len(t) = l + Len(a)
  BY <1>3, <1>4, <1>5, EmptySeq, ConcatProperties
<1>7. PICK h : /\ Message(t, h) /\ h[l + Len(a)] = x
               /\ \A k \in 1..l : h[k] = g[k]
  BY <1>4, <1>5 DEF Adds
<1>8. Len(t) - 1 \in Nat /\ (Len(t) - 1) + 1 = l + Len(a)
  BY <1>6
<1>9. /\ q \in Seq(Nat) /\ Len(q) = n + 1 /\ q[n + 1] = Len(t) - 1
      /\ \A i \in 1..n : q[i] = p[i]
  BY <1>3, <1>8, AppendProperties
<1>10. Write(m, x) = [clauses |-> t, start_points |-> q]
  BY DEF Write, t
<1> HIDE DEF q
<1> DEFINE w == [clauses |-> t, start_points |-> q]
<1>11. ASSUME NEW i \in 1..(n + 1)
       PROVE  q[i] + 1 \in 1..Len(t) /\ h[q[i] + 1] = query[i]
  <2>1. CASE i \in 1..n
    <3>1. p[i] + 1 \in 1..l /\ g[p[i] + 1] = query[i]
      BY <1>1, <1>4, <2>1 DEF Labels
    <3>2. p[i] + 1 \in 1..Len(t)
      BY <1>6, <3>1
    <3> QED BY <1>7, <1>9, <2>1, <3>1, <3>2
  <2>2. CASE i = n + 1
    <3>1. Len(t) \in 1..Len(t)
      BY <1>6
    <3> QED BY <1>6, <1>7, <1>8, <1>9, <2>2, <3>1
  <2> QED BY <2>1, <2>2
<1>12. w \in Messages /\ w.clauses = t /\ w.start_points = q
  BY <1>6, <1>9 DEF Messages
<1> HIDE DEF w
<1>13. Labels(w, n + 1, h)
  BY <1>7, <1>9, <1>11, <1>12 DEF Labels
<1> QED BY <1>10, <1>12, <1>13 DEF Sent, w

Queried == query \in Seq(Handles)

Unsent == [clauses |-> <<>>, start_points |-> <<>>]

LEMMA QueryToProtoSends ==
    ASSUME Formed, Founded, Queried, proto = Unsent, QueryToProto
    PROVE  Sent(proto', Len(query)) /\ proto'.clauses # <<>>
<1>1. PICK l \in Nat : l = Len(query) /\ \A i \in 1..l : query[i] \in Handles
  BY LenProperties DEF Queried
<1> DEFINE U == [n \in 0..l |-> {m \in Messages : Sent(m, n)}]
           step == [n \in 1..l |-> [m \in U[n - 1] |-> Write(m, query[n])]]
           Is(f) == f = [n \in 0..Len(query) |->
                            IF n = 0 THEN proto ELSE Write(f[n - 1], query[n])]
<1>2. proto \in U[0]
  <2>1. proto.clauses = <<>> /\ proto.start_points = <<>> /\ proto \in Messages
    <3>1. <<>> \in Seq(Wires) /\ <<>> \in Seq(Nat)
      BY EmptySeq
    <3> QED BY <3>1 DEF Unsent, Messages
  <2> DEFINE g == [k \in 1..0 |-> 0]
  <2>2. Message(<<>>, g)
    <3>1. <<>> \in Seq(Wires) /\ Len(<<>>) = 0
      BY EmptySeq
    <3>2. g \in [1..0 -> Handles]
      OBVIOUS
    <3> HIDE DEF g
    <3> QED BY <3>1, <3>2 DEF Message
  <2> HIDE DEF g
  <2>3. Labels(proto, 0, g)
    BY <2>1, <2>2, EmptySeq DEF Labels
  <2> QED BY <2>1, <2>3 DEF Sent
<1>3. \A n \in 1..l : n - 1 \in 0..l /\ n \in 0..l /\ n - 1 \in Nat /\ (n - 1) + 1 = n
  OBVIOUS
<1>4. ASSUME NEW n \in 1..l, NEW m \in U[n - 1] PROVE Write(m, query[n]) \in U[n]
  <2>1. Sent(m, n - 1) /\ query[(n - 1) + 1] \in Handles
    BY <1>1, <1>3
  <2>2. Sent(Write(m, query[(n - 1) + 1]), (n - 1) + 1)
    BY <1>3, <2>1, WriteSends
  <2>3. Sent(Write(m, query[n]), n)
    BY <1>3, <2>2
  <2> QED BY <1>3, <2>3 DEF Sent
<1>5. Steps(step, l, U)
  <2> HIDE DEF U
  <2> QED BY <1>4 DEF Steps
<1>6. \E f : Is(f)
  <2> HIDE DEF step, U, Is
  <2>1. PICK f : Runs(f, l, U, proto, step)
    BY <1>2, <1>5, Recursion
  <2>2. ASSUME NEW n \in 1..l PROVE f[n] = Write(f[n - 1], query[n])
    <3>1. f[n - 1] \in U[n - 1] /\ f[n] = step[n][f[n - 1]]
      BY <1>3, <2>1 DEF Runs
    <3> QED BY <3>1 DEF step
  <2>3. \A n \in 0..l : n # 0 => n \in 1..l
    OBVIOUS
  <2>4. Is(f)
    BY <1>1, <2>1, <2>2, <2>3 DEF Is, Runs
  <2> QED BY <2>4
<1> DEFINE written == CHOOSE f : Is(f)
<1>7. Is(written)
  BY <1>6
<1>8. proto' = written[l] /\ query # <<>>
  BY <1>1 DEF QueryToProto
<1> HIDE DEF written
<1>9. written[0] = proto /\ \A n \in 1..l : written[n] = Write(written[n - 1], query[n])
  <2>1. \A n \in 1..l : n \in 0..l /\ n # 0
    OBVIOUS
  <2> QED BY <1>1, <1>7, <2>1
<1> HIDE DEF Is, U
<1>10. Follows(written, l, U, proto, step)
  BY <1>9 DEF Follows
<1> HIDE DEF step
<1>11. written[l] \in U[l]
  <2>1. \A n \in 0..l : written[n] \in U[n]
    BY <1>2, <1>5, <1>10, Stays
  <2> QED BY <2>1
<1>12. Sent(proto', l)
  BY <1>8, <1>11 DEF U
<1>13. 1 \in 1..l
  <2>1. Len(query) # 0
    BY <1>8, EmptySeq DEF Queried
  <2> QED BY <1>1, <2>1
<1>14. proto'.clauses # <<>>
  <2>1. PICK g : Labels(proto', l, g)
    BY <1>12 DEF Sent
  <2>2. proto'.start_points[1] + 1 \in 1..Len(proto'.clauses)
    BY <1>13, <2>1 DEF Labels
  <2>3. Len(proto'.clauses) # 0
    BY <2>2
  <2> QED BY <2>3, EmptySeq
<1> QED BY <1>1, <1>12, <1>14

-----------------------------------------------------------------------------
(* Reading such a message.                                                  *)

\* The clause at k refers to clauses before it that stand for its children.
Linked(s, g, k) ==
    /\ s[k] \in Wires /\ Nested(s[k], Int) /\ g[k] \in Handles
    /\ Copies(s[k], heap[g[k]])
    /\ DOMAIN Children(s[k]) = DOMAIN Below[g[k]]
    /\ \A i \in DOMAIN Below[g[k]] : /\ Children(s[k])[i] \in 0..(k - 2)
                                     /\ g[Children(s[k])[i] + 1] = Below[g[k]][i]

AllLinked(s, g) == \A k \in 1..Len(s) : Linked(s, g, k)

LEMMA MessageLinked ==
    ASSUME Formed, NEW s, NEW g, Message(s, g), NEW k \in 1..Len(s)
    PROVE  Linked(s, g, k)
<1> DEFINE c == heap[g[k]]
<1>1. g[k] \in Handles /\ c \in Forms
  BY HandlesFormed DEF Message
<1>2. PICK at : Points(at, g, g[k], k - 1) /\ s[k] = WrittenAt(c, at)
  BY DEF Message, Stands
<1>3. k \in Nat
  BY LenProperties DEF Message
<1>4. Children(c) = Below[g[k]]
  BY <1>1 DEF Below
<1> HIDE DEF c
<1>5. \A i \in DOMAIN Below[g[k]] : at[i] \in 0..(k - 2) /\ g[at[i] + 1] = Below[g[k]][i]
  <2>1. (k - 1) - 1 = k - 2
    BY <1>3
  <2> QED BY <1>2, <2>1 DEF Points
<1>6. \A i \in DOMAIN Children(c) : at[i] \in Int
  BY <1>3, <1>4, <1>5
<1>7. /\ s[k] \in Wires /\ Copies(s[k], c) /\ Refers(s[k], c, at) /\ Nested(s[k], Int)
  BY <1>1, <1>2, <1>6, WrittenIs
<1>8. /\ DOMAIN Children(s[k]) = DOMAIN Below[g[k]]
      /\ \A i \in DOMAIN Below[g[k]] : Children(s[k])[i] = at[i]
  BY <1>4, <1>7 DEF Refers
<1> QED BY <1>1, <1>5, <1>7, <1>8 DEF Linked, c

\* A clause is created from those before it.
Created(c, f) ==
    FromProto(c, [i \in DOMAIN c.operands |-> f[c.operands[i] + 1]],
              [p \in DOMAIN c.parts |-> f[c.parts[p] + 1]])

AllCreated(s, f) == \A n \in 1..Len(s) : f[n] = Created(s[n], f)

LEMMA HeldBefore ==
    ASSUME NEW s, NEW g, NEW k \in Nat, Linked(s, g, k), NEW v, Holds(s[k], v)
    PROVE  v \in 0..(k - 2) /\ v + 1 \in 1..(k - 1)
<1>1. HasChild(s[k], v)
  BY ChildrenHeld DEF Linked
<1>2. v \in 0..(k - 2)
  BY <1>1 DEF HasChild, Linked
<1> QED BY <1>2

LEMMA CreatedBefore ==
    ASSUME NEW s, NEW g, NEW k \in Nat, Linked(s, g, k), NEW f, NEW h,
           \A j \in 1..(k - 1) : f[j] = h[j]
    PROVE  Created(s[k], f) = Created(s[k], h)
<1> DEFINE c == s[k]
<1>1. ASSUME NEW i \in DOMAIN c.operands PROVE f[c.operands[i] + 1] = h[c.operands[i] + 1]
  <2>1. Holds(c, c.operands[i])
    BY DEF Holds
  <2> QED BY <2>1, HeldBefore
<1>2. ASSUME NEW p \in DOMAIN c.parts PROVE f[c.parts[p] + 1] = h[c.parts[p] + 1]
  <2>1. Holds(c, c.parts[p])
    BY DEF Holds
  <2> QED BY <2>1, HeldBefore
<1> HIDE DEF c
<1>3. [i \in DOMAIN c.operands |-> f[c.operands[i] + 1]]
         = [i \in DOMAIN c.operands |-> h[c.operands[i] + 1]]
  BY <1>1
<1>4. [p \in DOMAIN c.parts |-> f[c.parts[p] + 1]]
         = [p \in DOMAIN c.parts |-> h[c.parts[p] + 1]]
  BY <1>2
<1> QED BY <1>3, <1>4 DEF Created, c

LEMMA CreatedIs ==
    ASSUME NEW s \in Seq(Wires), NEW g, AllLinked(s, g)
    PROVE  \E f : AllCreated(s, f) /\ \A at : CreateClauseFromProto(s, at) = f[at + 1]
<1> USE DEF AllLinked
<1>1. PICK l \in Nat : l = Len(s) /\ DOMAIN s = 1..l
  BY LenProperties
<1> DEFINE Is(f) ==
              f = [n \in DOMAIN s |->
                     LET c == s[n] IN
                     FromProto(c, [i \in DOMAIN c.operands |-> f[c.operands[i] + 1]],
                               [p \in DOMAIN c.parts |-> f[c.parts[p] + 1]])]
           Good(f, m) == f = [n \in 1..m |-> Created(s[n], f)]
           T == {m \in 0..l : \E f : Good(f, m)}
<1>2. 0 \in T
  <2> DEFINE f == [n \in 1..0 |-> 0]
  <2>1. Good(f, 0)
    OBVIOUS
  <2> HIDE DEF f, Good
  <2> QED BY <2>1
<1>3. ASSUME NEW m \in 0..(l - 1), m \in T PROVE m + 1 \in T
  <2>1. PICK f : Good(f, m)
    BY <1>3
  <2> DEFINE h == [n \in 1..(m + 1) |-> Created(s[n], f)]
  <2>2. \A n \in 1..m : h[n] = f[n]
    <3>1. \A n \in 1..m : n \in 1..(m + 1)
      OBVIOUS
    <3> QED BY <2>1, <3>1
  <2>3. ASSUME NEW n \in 1..(m + 1) PROVE Created(s[n], f) = Created(s[n], h)
    <3>1. n \in Nat /\ n \in 1..l
      OBVIOUS
    <3>2. \A j \in 1..(n - 1) : f[j] = h[j]
      <4>1. \A j \in 1..(n - 1) : j \in 1..m
        OBVIOUS
      <4> QED BY <2>2, <4>1
    <3> HIDE DEF h
    <3> QED BY <1>1, <3>1, <3>2, CreatedBefore
  <2>4. h = [n \in 1..(m + 1) |-> Created(s[n], h)]
    <3>1. h = [n \in 1..(m + 1) |-> Created(s[n], f)]
      OBVIOUS
    <3> HIDE DEF h
    <3> QED BY <2>3, <3>1
  <2> HIDE DEF h
  <2>5. m + 1 \in 0..l /\ Good(h, m + 1)
    BY <2>4
  <2> HIDE DEF Good
  <2> QED BY <2>5
<1>4. l \in T
  <2> HIDE DEF T
  <2>1. \A m \in 0..l : m \in T
    BY <1>2, <1>3, UpTo
  <2> QED BY <2>1
<1>5. \E f : Is(f)
  <2>1. PICK f : Good(f, l)
    BY <1>4
  <2>2. Is(f)
    BY <1>1, <2>1 DEF Created
  <2> HIDE DEF Is
  <2> QED BY <2>2
<1> DEFINE created == CHOOSE f : Is(f)
<1>6. Is(created)
  BY <1>5
<1>7. \A at : CreateClauseFromProto(s, at) = created[at + 1]
  BY DEF CreateClauseFromProto
<1> HIDE DEF created
<1>8. AllCreated(s, created)
  <2>1. ASSUME NEW n \in 1..l PROVE created[n] = Created(s[n], created)
    BY <1>1, <1>6 DEF Created
  <2> QED BY <1>1, <2>1 DEF AllCreated
<1> QED BY <1>7, <1>8

LEMMA AttributeRead ==
    ASSUME NEW a \in Attributes
    PROVE  SameAttribute(a, AttributeFromProto(a))
<1>1. /\ a = [path |-> a.path, type |-> a.type, value |-> a.value]
      /\ a.path \in DOMAIN FieldType /\ a.type \in Types
  BY RequestsAssumption DEF Attributes
<1> DEFINE type == FieldType[a.path]
           b == AttributeFromProto(a)
<1>2. b.path = a.path
  BY <1>1 DEF AttributeFromProto
<1>3. ASSUME a.type = type PROVE a = b
  <2>1. type \in Types /\ SameBits(a.type, type)
    BY <1>1, <1>3 DEF SameBits
  <2>2. b = [a EXCEPT !.type = type, !.value = a.value]
    BY <2>1 DEF AttributeFromProto
  <2> HIDE DEF b
  <2> QED BY <1>1, <1>3, <2>2
<1> QED BY <1>2, <1>3 DEF SameAttribute

\* What is created for a clause is what was written.
LEMMA CreatedSame ==
    ASSUME Formed, NEW s, NEW g, NEW k, Linked(s, g, k), NEW f
    PROVE  Same(heap[g[k]], Created(s[k], f))
<1> DEFINE c == heap[g[k]]
           w == s[k]
           o == [i \in DOMAIN w.operands |-> f[w.operands[i] + 1]]
           q == [p \in DOMAIN w.parts |-> f[w.parts[p] + 1]]
           r == [j \in DOMAIN w.rows |->
                    [i \in DOMAIN w.rows[j] |-> AttributeFromProto(w.rows[j][i])]]
           t == [w EXCEPT !.operands = o, !.parts = q, !.rows = r]
<1>1. Created(w, f) = t
  BY DEF Created, FromProto
<1>2. w \in Wires /\ Nested(w, Int) /\ g[k] \in Handles /\ Copies(w, c)
  BY DEF Linked
<1>3. w.operands \in Seq(Int)
  BY <1>2 DEF Nested
<1>4. c.rows \in Seq(Seq(Attributes))
  BY <1>2, RowsOfAttributes
<1>5. Len(o) = Len(w.operands)
  <2>1. PICK n \in Nat : n = Len(w.operands) /\ DOMAIN w.operands = 1..n
    BY <1>3, LenProperties
  <2> QED BY <2>1
<1>6. /\ w.kind = c.kind /\ w.type = c.type /\ w.rows = c.rows
      /\ c.kind # "Select" =>
            w.value = IF c.kind = "Float" THEN FloatOf[c.value] ELSE c.value
      /\ Len(w.operands) = Len(c.operands) /\ DOMAIN w.parts = DOMAIN c.parts
  BY <1>2 DEF Copies
<1>7. DOMAIN q = DOMAIN w.parts
  OBVIOUS
<1>8. PICK n \in Nat : n = Len(c.rows) /\ DOMAIN c.rows = 1..n
  BY <1>4, LenProperties
<1>9. Len(r) = n
  BY <1>6, <1>8
<1>10. ASSUME NEW j \in DOMAIN c.rows
       PROVE  /\ Len(c.rows[j]) = Len(r[j])
              /\ \A i \in DOMAIN c.rows[j] : SameAttribute(c.rows[j][i], r[j][i])
  <2> DEFINE row == c.rows[j]
  <2>1. row \in Seq(Attributes)
    BY <1>4, <1>8, ElementOfSeq
  <2>2. PICK m \in Nat : m = Len(row) /\ DOMAIN row = 1..m
    BY <2>1, LenProperties
  <2>3. r[j] = [i \in DOMAIN row |-> AttributeFromProto(row[i])]
    BY <1>6
  <2> HIDE DEF row, r
  <2>4. Len(r[j]) = m
    BY <2>2, <2>3
  <2>5. ASSUME NEW i \in DOMAIN row PROVE SameAttribute(row[i], r[j][i])
    <3>1. row[i] \in Attributes
      BY <2>1, <2>2, ElementOfSeq
    <3>2. r[j][i] = AttributeFromProto(row[i])
      BY <2>3
    <3> QED BY <3>1, <3>2, AttributeRead
  <2> QED BY <2>2, <2>4, <2>5 DEF row
<1> HIDE DEF o, q, r
<1>11. /\ t.kind = w.kind /\ t.type = w.type /\ t.value = w.value
       /\ t.operands = o /\ t.parts = q /\ t.rows = r
  BY <1>2 DEF Wires
<1> HIDE DEF t, w, c
<1>12. Same(c, t)
  BY <1>5, <1>6, <1>7, <1>8, <1>9, <1>10, <1>11 DEF Same
<1> QED BY <1>1, <1>12 DEF w, c

\* Its children are those that were created for the children of the clause.
ChildrenCreated(s, k, f) ==
    \A i \in DOMAIN Children(s[k]) :
       Children(Created(s[k], f))[i] = f[Children(s[k])[i] + 1]

LEMMA CreatedChildren ==
    ASSUME NEW s, NEW g, NEW k \in Nat, Linked(s, g, k), NEW f
    PROVE  ChildrenCreated(s, k, f)
<1> DEFINE w == s[k]
           t == Created(w, f)
           o == [i \in DOMAIN w.operands |-> f[w.operands[i] + 1]]
           q == [p \in DOMAIN w.parts |-> f[w.parts[p] + 1]]
           at == [i \in DOMAIN Children(w) |-> f[Children(w)[i] + 1]]
           W == {f[j] : j \in 1..(k - 1)}
<1>1. /\ w \in Wires /\ Nested(w, Int) /\ Lined(w, Int)
      /\ DOMAIN Children(w) = DOMAIN Below[g[k]]
  BY ChildrenAre DEF Linked
<1>2. PICK n \in Nat, m \in Nat :
         /\ n = Len(w.operands) /\ DOMAIN w.operands = 1..n
         /\ m = Len(PartsOf(w)) /\ DOMAIN Children(w) = 1..(n + m)
         /\ \A i \in 1..n : Children(w)[i] = w.operands[i]
         /\ \A i \in 1..m : Children(w)[n + i] = w.parts[PartsOf(w)[i]]
  <2> HIDE DEF w
  <2> QED BY <1>1 DEF Lined
<1>3. t.operands = o /\ t.parts = q
  <2> DEFINE r == [j \in DOMAIN w.rows |->
                    [i \in DOMAIN w.rows[j] |-> AttributeFromProto(w.rows[j][i])]]
  <2>1. t = [w EXCEPT !.operands = o, !.parts = q, !.rows = r]
    BY DEF Created, FromProto
  <2> HIDE DEF o, q, r, t
  <2> QED BY <1>1, <2>1 DEF Wires
<1> HIDE DEF t
<1>4. o \in Seq(W) /\ Len(o) = n
  <2>1. ASSUME NEW i \in 1..n PROVE f[w.operands[i] + 1] \in W
    <3>1. Holds(w, w.operands[i])
      BY <1>2 DEF Holds
    <3> QED BY <3>1, HeldBefore
  <2> HIDE DEF W
  <2>2. o \in [1..n -> W]
    BY <1>2, <2>1
  <2> HIDE DEF o
  <2>3. o \in Seq(W)
    BY <2>2, SeqDef
  <2> QED BY <2>2, <2>3, LenProperties
<1>5. q \in [DOMAIN w.parts -> W] /\ DOMAIN w.parts \in SUBSET ToSet(PartNames)
  <2>1. ASSUME NEW p \in DOMAIN w.parts PROVE f[w.parts[p] + 1] \in W
    <3>1. Holds(w, w.parts[p])
      BY DEF Holds
    <3> QED BY <3>1, HeldBefore
  <2>2. DOMAIN w.parts \in SUBSET ToSet(PartNames)
    BY <1>1 DEF Nested
  <2> HIDE DEF W
  <2> QED BY <2>1, <2>2
<1>6. \A i \in 1..n : o[i] = at[i]
  <2>1. ASSUME NEW i \in 1..n
        PROVE  i \in DOMAIN Children(w) /\ Children(w)[i] = w.operands[i]
    <3> HIDE DEF w, o, q, at, W
    <3>1. i \in 1..(n + m)
      OBVIOUS
    <3> QED BY <1>2, <3>1
  <2> QED BY <1>2, <2>1
<1>7. \A i \in 1..Len(PartsOf(w)) : q[PartsOf(w)[i]] = at[n + i]
  <2>1. \A i \in 1..m : PartsOf(w)[i] \in DOMAIN w.parts
    <3>1. PartsOf(w) \in Seq(DOMAIN w.parts)
      BY <1>1, PartsListed
    <3> QED BY <1>2, <3>1, ElementOfSeq
  <2>2. \A i \in 1..m : n + i \in 1..(n + m)
    OBVIOUS
  <2> QED BY <1>2, <2>1, <2>2
<1> HIDE DEF o, q, at, W, w
<1>8. Nested(t, W)
  BY <1>3, <1>4, <1>5 DEF Nested
<1>9. Placed(t, w, at)
  <2>1. DOMAIN q = DOMAIN w.parts
    BY <1>5
  <2> QED BY <1>2, <1>3, <1>4, <1>6, <1>7, <2>1 DEF Placed
<1>10. Refers(t, w, at)
  BY <1>1, <1>8, <1>9, ChildrenOfShape
<1> QED BY <1>1, <1>10 DEF Refers, ChildrenCreated, at, t, w

\* What cannot be read is below a handle.
Bad(x) == \E y \in Handles : Reaches(x, y) /\ Throws(heap[y])

LEMMA BadIs ==
    ASSUME Founded, NEW x \in Handles
    PROVE  Bad(x) <=> Throws(heap[x]) \/ \E i \in DOMAIN Below[x] : Bad(Below[x][i])
<1>1. \A y : Reaches(x, y) <=> x = y \/ \E i \in DOMAIN Below[x] : Reaches(Below[x][i], y)
  BY ReachesIs
<1> QED BY <1>1 DEF Bad

\* The places, counted from 1, of the clauses a clause of a message refers to.
Referred(s) ==
    [n \in 1..Len(s) |-> [i \in DOMAIN Children(s[n]) |-> Children(s[n])[i] + 1]]

LEMMA ReadableIs ==
    ASSUME Founded, NEW s \in Seq(Wires), NEW g,
           AllLinked(s, g)
    PROVE  \A at : at + 1 \in 1..Len(s) => (Readable(s, at) <=> ~Bad(g[at + 1]))
<1> USE DEF AllLinked
<1>1. PICK l \in Nat : l = Len(s) /\ DOMAIN s = 1..l
  BY LenProperties
<1> DEFINE H == 1..l
           kids == Referred(s)
           rank == [n \in H |-> n]
           next(n, v) == ~Throws(s[n]) /\ \A i \in DOMAIN kids[n] : v[i]
           U == [n \in H |-> {~Bad(g[n])}]
           V(n) == [DOMAIN kids[n] -> BOOLEAN]
           step == [n \in H |-> [v \in V(n) |-> next(n, v)]]
           Is(f) == f = [n \in DOMAIN s |->
                            /\ ~Throws(s[n])
                            /\ \A c \in ToSet(Children(s[n])) : f[c + 1]]
<1>2. ASSUME NEW n \in H
      PROVE  /\ kids[n] = [i \in DOMAIN Below[g[n]] |-> Children(s[n])[i] + 1]
             /\ g[n] \in Handles /\ (Throws(s[n]) <=> Throws(heap[g[n]]))
             /\ \A i \in DOMAIN Below[g[n]] :
                   kids[n][i] \in 1..(n - 1) /\ g[kids[n][i]] = Below[g[n]][i]
  <2>1. Linked(s, g, n)
    BY <1>1
  <2>2. kids[n] = [i \in DOMAIN Below[g[n]] |-> Children(s[n])[i] + 1]
    BY <1>1, <2>1 DEF Linked, Referred
  <2>3. g[n] \in Handles /\ (Throws(s[n]) <=> Throws(heap[g[n]]))
    BY <2>1 DEF Linked, Copies, Throws
  <2> HIDE DEF kids
  <2>4. ASSUME NEW i \in DOMAIN Below[g[n]]
        PROVE  kids[n][i] \in 1..(n - 1) /\ g[kids[n][i]] = Below[g[n]][i]
    BY <2>1, <2>2 DEF Linked
  <2> QED BY <2>2, <2>3, <2>4
<1>3. \A n \in H : \A i \in DOMAIN kids[n] :
         kids[n][i] \in H /\ kids[n][i] < n /\ g[kids[n][i]] = Below[g[n]][i]
  <2> HIDE DEF kids
  <2>1. \A n \in H : DOMAIN kids[n] = DOMAIN Below[g[n]]
    BY <1>2
  <2>2. \A n \in H : \A j \in 1..(n - 1) : j \in H /\ j < n
    OBVIOUS
  <2> QED BY <1>2, <2>1, <2>2
<1>4. Descends(kids, H, rank, l)
  <2> HIDE DEF kids
  <2>1. \A n \in H : rank[n] = n /\ n \in 0..l
    OBVIOUS
  <2> HIDE DEF rank
  <2> QED BY <1>3, <2>1 DEF Descends
<1> HIDE DEF rank
<1>5. ASSUME NEW n \in H, NEW v, v = [i \in DOMAIN kids[n] |-> v[i]],
             \A i \in DOMAIN kids[n] : v[i] \in U[kids[n][i]]
      PROVE  v \in V(n) /\ next(n, v) \in U[n]
  <2> HIDE DEF kids
  <2>1. \A i \in DOMAIN kids[n] : v[i] = ~Bad(Below[g[n]][i]) /\ v[i] \in BOOLEAN
    BY <1>3, <1>5
  <2>2. next(n, v) \in BOOLEAN
    OBVIOUS
  <2>3. next(n, v) <=> ~Bad(g[n])
    <3>1. DOMAIN kids[n] = DOMAIN Below[g[n]]
      BY <1>2
    <3>2. Bad(g[n]) <=> Throws(heap[g[n]])
                           \/ \E i \in DOMAIN Below[g[n]] : Bad(Below[g[n]][i])
      BY <1>2, BadIs
    <3> QED BY <1>2, <2>1, <3>1, <3>2
  <2>4. v \in V(n)
    BY <1>5, <2>1
  <2> HIDE DEF next
  <2> QED BY <2>2, <2>3, <2>4
<1>6. GraphSteps(step, kids, H, U)
  <2> HIDE DEF kids, U, V, next, H
  <2> QED BY <1>5 DEF GraphSteps
<1>7. ASSUME NEW n \in H, NEW f
      PROVE  (/\ ~Throws(s[n])
              /\ \A c \in ToSet(Children(s[n])) : f[c + 1]) = next(n, Image(f, kids[n]))
  <2>1. kids[n] = [i \in DOMAIN Children(s[n]) |-> Children(s[n])[i] + 1]
    BY <1>1 DEF Referred
  <2>2. ToSet(Children(s[n])) = {Children(s[n])[i] : i \in DOMAIN Children(s[n])}
    BY DEF ToSet
  <2> HIDE DEF kids
  <2>3. (\A c \in ToSet(Children(s[n])) : f[c + 1])
           <=> \A i \in DOMAIN kids[n] : Image(f, kids[n])[i]
    BY <2>1, <2>2 DEF Image
  <2> QED BY <2>3
<1> HIDE DEF kids
<1>8. \E f : Is(f)
  <2> HIDE DEF step, U, V, Is, H, next
  <2>1. PICK f : GraphRuns(f, kids, H, U, step)
    BY <1>4, <1>6, GraphRecursion
  <2>2. ASSUME NEW n \in H PROVE f[n] = next(n, Image(f, kids[n]))
    <3> DEFINE v == Image(f, kids[n])
    <3>1. /\ v = [i \in DOMAIN kids[n] |-> v[i]]
          /\ \A i \in DOMAIN kids[n] : v[i] \in U[kids[n][i]]
      BY <1>3, <2>1 DEF GraphRuns, Image
    <3>2. f[n] = step[n][v]
      BY <2>1 DEF GraphRuns
    <3> HIDE DEF v
    <3>3. v \in V(n)
      BY <1>5, <3>1
    <3>4. f[n] = next(n, v)
      BY <3>2, <3>3 DEF step
    <3> QED BY <3>4 DEF v
  <2>3. f = [n \in H |-> f[n]] /\ DOMAIN s = H
    BY <1>1, <2>1 DEF GraphRuns, H
  <2>4. ASSUME NEW n \in H
        PROVE  f[n] = (/\ ~Throws(s[n])
                       /\ \A c \in ToSet(Children(s[n])) : f[c + 1])
    BY <1>7, <2>2
  <2>5. Is(f)
    BY <2>3, <2>4 DEF Is
  <2> QED BY <2>5
<1> DEFINE readable == CHOOSE f : Is(f)
<1>9. Is(readable)
  BY <1>8
<1>10. \A at : Readable(s, at) = readable[at + 1]
  BY DEF Readable
<1> HIDE DEF readable
<1>11. ASSUME NEW n \in H PROVE readable[n] = next(n, Image(readable, kids[n]))
  <2>1. readable[n] = (/\ ~Throws(s[n])
                       /\ \A c \in ToSet(Children(s[n])) : readable[c + 1])
    BY <1>1, <1>9
  <2> HIDE DEF next
  <2> QED BY <1>7, <2>1
<1>12. \A n \in H : readable[n] \in U[n]
  <2> HIDE DEF U, V, Is, H, next
  <2>1. GraphFollows(readable, kids, H, U, step)
    <3>1. ASSUME NEW n \in H,
                 \A i \in DOMAIN kids[n] : readable[kids[n][i]] \in U[kids[n][i]]
          PROVE  readable[n] = step[n][Image(readable, kids[n])]
      <4> DEFINE v == Image(readable, kids[n])
      <4>1. /\ v = [i \in DOMAIN kids[n] |-> v[i]]
            /\ \A i \in DOMAIN kids[n] : v[i] \in U[kids[n][i]]
        BY <3>1 DEF Image
      <4>2. readable[n] = next(n, v)
        BY <1>11
      <4> HIDE DEF v
      <4>3. v \in V(n)
        BY <1>5, <4>1
      <4>4. readable[n] = step[n][v]
        BY <4>2, <4>3
      <4> QED BY <4>4 DEF v
    <3> QED BY <3>1 DEF GraphFollows
  <2> HIDE DEF step
  <2> QED BY <1>4, <1>6, <2>1, GraphStays
<1> QED BY <1>1, <1>10, <1>12

\* A place below a handle is one below every clause that stands for it: the clauses
\* on the way are k[0], k[1], ...
Trail(s, k, n, p) ==
    /\ k \in [0..Len(p) -> 1..Len(s)] /\ k[0] = n
    /\ \A m \in 1..Len(p) : /\ p[m] \in DOMAIN Children(s[k[m - 1]])
                            /\ k[m] = Children(s[k[m - 1]])[p[m]] + 1

\* All places in S lead somewhere, from wherever y stands in the message.
Trailed(s, g, S, y) ==
    \A p \in S :
       /\ p \in Seq(Nat)
       /\ \A n \in 1..Len(s) : g[n] = y => \E k : Trail(s, k, n, p)

LEMMA TrailGrows ==
    ASSUME NEW s, NEW n \in 1..Len(s), NEW i \in Nat, i \in DOMAIN Children(s[n]),
           NEW q \in Seq(Nat), NEW k, Trail(s, k, Children(s[n])[i] + 1, q)
    PROVE  \E h : Trail(s, h, n, <<i>> \o q)
<1> DEFINE e == <<i>>
           p == e \o q
<1>1. PICK l \in Nat : l = Len(q)
  BY LenProperties
<1>2. e \in Seq(Nat) /\ Len(e) = 1 /\ e[1] = i
  OBVIOUS
<1> HIDE DEF e
<1>3. Len(p) = l + 1 /\ \A m \in 1..(l + 1) : p[m] = IF m <= 1 THEN e[m] ELSE q[m - 1]
  <2>1. Len(p) = 1 + l /\ \A m \in 1..(1 + l) : p[m] = IF m <= 1 THEN e[m] ELSE q[m - 1]
    <3>1. /\ Len(e \o q) = Len(e) + Len(q)
          /\ \A m \in 1..(Len(e) + Len(q)) :
                (e \o q)[m] = IF m <= Len(e) THEN e[m] ELSE q[m - Len(e)]
      BY <1>2, ConcatProperties
    <3> QED BY <1>1, <1>2, <3>1
  <2> QED BY <2>1
<1> HIDE DEF p
<1> DEFINE h == [m \in 0..(l + 1) |-> IF m = 0 THEN n ELSE k[m - 1]]
<1>4. h[0] = n /\ \A m \in 1..(l + 1) : h[m] = k[m - 1] /\ m - 1 \in 0..l
  OBVIOUS
<1>5. h \in [0..(l + 1) -> 1..Len(s)]
  <2>1. \A m \in 0..(l + 1) : m # 0 => m - 1 \in 0..l
    OBVIOUS
  <2> QED BY <1>1, <2>1 DEF Trail
<1> HIDE DEF h
<1>6. ASSUME NEW m \in 1..(l + 1)
      PROVE  /\ p[m] \in DOMAIN Children(s[h[m - 1]])
             /\ h[m] = Children(s[h[m - 1]])[p[m]] + 1
  <2>1. CASE m = 1
    <3>1. p[1] = i /\ h[1] = k[0] /\ k[0] = Children(s[n])[i] + 1
      BY <1>2, <1>3, <1>4 DEF Trail
    <3> QED BY <1>4, <2>1, <3>1
  <2>2. CASE m # 1
    <3>1. m - 1 \in 1..l /\ ~(m <= 1) /\ m - 1 \in 1..(l + 1)
      BY <2>2
    <3>2. p[m] = q[m - 1] /\ h[m] = k[m - 1] /\ h[m - 1] = k[(m - 1) - 1]
      BY <1>3, <1>4, <3>1
    <3>3. /\ q[m - 1] \in DOMAIN Children(s[k[(m - 1) - 1]])
          /\ k[m - 1] = Children(s[k[(m - 1) - 1]])[q[m - 1]] + 1
      BY <1>1, <3>1 DEF Trail
    <3> QED BY <3>2, <3>3
  <2> QED BY <2>1, <2>2
<1>7. Trail(s, h, n, p)
  BY <1>3, <1>4, <1>5, <1>6 DEF Trail
<1> QED BY <1>7 DEF p, e

LEMMA PlacesTrailed ==
    ASSUME Formed, Founded, NEW s \in Seq(Wires), NEW g,
           AllLinked(s, g)
    PROVE  \A y \in Handles : Trailed(s, g, Places(y), y)
<1> USE DEF AllLinked
<1>0. PICK b \in Nat : \E rank : Descends(Below, Handles, rank, b)
  BY DEF Founded
<1>1. PICK rank : Descends(Below, Handles, rank, b)
  BY <1>0
<1> DEFINE A == SUBSET Seq(Nat)
           V(y) == [DOMAIN Below[y] -> A]
           next(y, v) ==
              {<<>>} \cup UNION {{<<i>> \o p : p \in v[i]} : i \in DOMAIN Below[y]}
           step == [y \in Handles |-> [v \in V(y) |-> next(y, v)]]
           U == [y \in Handles |-> {S \in A : Trailed(s, g, S, y)}]
           Is(f) == f = [y \in Handles |->
                            {<<>>} \cup
                            UNION {{<<i>> \o p : p \in f[Children(heap[y])[i]]} :
                                      i \in DOMAIN Children(heap[y])}]
<1>2. \A y \in Handles : \A i \in DOMAIN Below[y] : Below[y][i] \in Handles /\ i \in Nat
  <2>1. ASSUME NEW y \in Handles, NEW i \in DOMAIN Below[y] PROVE i \in Nat
    <3>1. Lined(heap[y], Nat)
      BY HandlesFormed, FormNested
    <3>2. DOMAIN Below[y] = 1..Len(Children(heap[y])) /\ Len(Children(heap[y])) \in Nat
      BY <3>1, LenProperties DEF Lined, Below
    <3> QED BY <3>2
  <2> QED BY <1>1, <2>1 DEF Descends
<1>3. ASSUME NEW n \in 1..Len(s)
      PROVE  \E k : Trail(s, k, n, <<>>)
  <2> DEFINE k == [m \in 0..0 |-> n]
  <2>1. k[0] = n /\ k \in [0..0 -> 1..Len(s)]
    OBVIOUS
  <2> HIDE DEF k
  <2>2. Trail(s, k, n, <<>>)
    <3>1. Len(<<>>) = 0
      BY EmptySeq
    <3> QED BY <2>1, <3>1 DEF Trail
  <2> QED BY <2>2
<1>4. ASSUME NEW y \in Handles, NEW v, v = [i \in DOMAIN Below[y] |-> v[i]],
             \A i \in DOMAIN Below[y] : v[i] \in U[Below[y][i]]
      PROVE  v \in V(y) /\ next(y, v) \in U[y]
  <2>1. \A i \in DOMAIN Below[y] : v[i] \in A /\ Trailed(s, g, v[i], Below[y][i])
    BY <1>2, <1>4
  <2>2. v \in V(y)
    <3> HIDE DEF A
    <3> QED BY <1>4, <2>1
  <2>3. <<>> \in Seq(Nat) /\ \A n \in 1..Len(s) : \E k : Trail(s, k, n, <<>>)
    BY <1>3, EmptySeq
  <2>4. ASSUME NEW i \in DOMAIN Below[y], NEW q \in v[i]
        PROVE  /\ <<i>> \o q \in Seq(Nat)
               /\ \A n \in 1..Len(s) : g[n] = y => \E k : Trail(s, k, n, <<i>> \o q)
    <3>1. q \in Seq(Nat) /\ i \in Nat
      BY <1>2, <2>1 DEF Trailed
    <3>2. <<i>> \in Seq(Nat)
      BY <3>1
    <3>3. <<i>> \o q \in Seq(Nat)
      BY <3>1, <3>2, ConcatProperties
    <3>4. ASSUME NEW n \in 1..Len(s), g[n] = y
          PROVE  \E k : Trail(s, k, n, <<i>> \o q)
      <4> DEFINE m == Children(s[n])[i] + 1
      <4>1. /\ i \in DOMAIN Children(s[n]) /\ Children(s[n])[i] \in 0..(n - 2)
            /\ g[m] = Below[y][i]
        BY <3>4 DEF Linked
      <4>2. m \in 1..Len(s)
        <5>1. Len(s) \in Nat
          BY LenProperties
        <5> QED BY <4>1, <5>1
      <4> HIDE DEF m
      <4>3. PICK k : Trail(s, k, m, q)
        BY <2>1, <4>1, <4>2 DEF Trailed
      <4>4. Trail(s, k, Children(s[n])[i] + 1, q)
        BY <4>3 DEF m
      <4> QED BY <3>1, <4>1, <4>4, TrailGrows
    <3> QED BY <3>3, <3>4
  <2>5. ASSUME NEW p \in next(y, v)
        PROVE  p \in Seq(Nat) /\ \A n \in 1..Len(s) : g[n] = y => \E k : Trail(s, k, n, p)
    <3>1. p = <<>> \/ \E i \in DOMAIN Below[y] : \E q \in v[i] : p = <<i>> \o q
      OBVIOUS
    <3> QED BY <2>3, <2>4, <3>1
  <2> HIDE DEF next
  <2>6. next(y, v) \in A /\ Trailed(s, g, next(y, v), y)
    BY <2>5 DEF Trailed
  <2> QED BY <2>2, <2>6
<1>5. GraphSteps(step, Below, Handles, U)
  <2> HIDE DEF U, V, next
  <2> QED BY <1>4 DEF GraphSteps
<1>6. ASSUME NEW y \in Handles, NEW f
      PROVE  {<<>>} \cup UNION {{<<i>> \o p : p \in f[Children(heap[y])[i]]} :
                                   i \in DOMAIN Children(heap[y])}
                = next(y, Image(f, Below[y]))
  <2>1. Below[y] = Children(heap[y])
    BY DEF Below
  <2>2. \A i \in DOMAIN Below[y] : Image(f, Below[y])[i] = f[Below[y][i]]
    BY DEF Image
  <2> DEFINE v == Image(f, Below[y])
             D == DOMAIN Below[y]
             E == DOMAIN Children(heap[y])
             B(i) == {<<i>> \o p : p \in f[Children(heap[y])[i]]}
             C(i) == {<<i>> \o p : p \in v[i]}
  <2>3. D = E /\ \A i \in D : f[Children(heap[y])[i]] = v[i]
    BY <2>1, <2>2
  <2>4. \A i \in D : B(i) = C(i)
    <3> HIDE DEF v, D, E
    <3> QED BY <2>3
  <2>5. UNION {B(i) : i \in E} = UNION {C(i) : i \in D}
    <3> HIDE DEF B, C, D, E
    <3> QED BY <2>3, <2>4
  <2> QED BY <2>5
<1>7. \E f : Is(f)
  <2> HIDE DEF step, U, V, Is, next
  <2>1. PICK f : GraphRuns(f, Below, Handles, U, step)
    BY <1>1, <1>5, GraphRecursion
  <2>2. ASSUME NEW y \in Handles PROVE f[y] = next(y, Image(f, Below[y]))
    <3> DEFINE v == Image(f, Below[y])
    <3>1. /\ v = [i \in DOMAIN Below[y] |-> v[i]]
          /\ \A i \in DOMAIN Below[y] : v[i] \in U[Below[y][i]]
      BY <1>2, <2>1 DEF GraphRuns, Image
    <3>2. f[y] = step[y][v]
      BY <2>1 DEF GraphRuns
    <3> HIDE DEF v
    <3>3. v \in V(y)
      BY <1>4, <3>1
    <3>4. f[y] = next(y, v)
      BY <3>2, <3>3 DEF step
    <3> QED BY <3>4 DEF v
  <2>3. f = [y \in Handles |-> f[y]]
    BY <2>1 DEF GraphRuns
  <2>4. ASSUME NEW y \in Handles
        PROVE  f[y] = {<<>>} \cup UNION {{<<i>> \o p : p \in f[Children(heap[y])[i]]} :
                                            i \in DOMAIN Children(heap[y])}
    BY <1>6, <2>2
  <2>5. Is(f)
    BY <2>3, <2>4 DEF Is
  <2> QED BY <2>5
<1> DEFINE places == CHOOSE f : Is(f)
<1>8. Is(places)
  BY <1>7
<1>9. \A y : Places(y) = places[y]
  BY DEF Places
<1> HIDE DEF places
<1>10. ASSUME NEW y \in Handles PROVE places[y] = next(y, Image(places, Below[y]))
  <2>1. places[y] = {<<>>} \cup UNION {{<<i>> \o p : p \in places[Children(heap[y])[i]]} :
                                          i \in DOMAIN Children(heap[y])}
    BY <1>8
  <2> HIDE DEF next
  <2> QED BY <1>6, <2>1
<1>11. \A y \in Handles : places[y] \in U[y]
  <2> HIDE DEF U, V, Is, next
  <2>1. GraphFollows(places, Below, Handles, U, step)
    <3>1. ASSUME NEW y \in Handles,
                 \A i \in DOMAIN Below[y] : places[Below[y][i]] \in U[Below[y][i]]
          PROVE  places[y] = step[y][Image(places, Below[y])]
      <4> DEFINE v == Image(places, Below[y])
      <4>1. /\ v = [i \in DOMAIN Below[y] |-> v[i]]
            /\ \A i \in DOMAIN Below[y] : v[i] \in U[Below[y][i]]
        BY <3>1 DEF Image
      <4>2. places[y] = next(y, v)
        BY <1>10
      <4> HIDE DEF v
      <4>3. v \in V(y)
        BY <1>4, <4>1
      <4>4. places[y] = step[y][v]
        BY <4>2, <4>3
      <4> QED BY <4>4 DEF v
    <3> QED BY <3>1 DEF GraphFollows
  <2> HIDE DEF step
  <2> QED BY <1>1, <1>5, <2>1, GraphStays
<1> QED BY <1>9, <1>11

IsSentAt(g, n, p, k) == SentAt(g[n], p) = heap[g[k[Len(p)]]]

IsReceivedAt(f, n, p, k) == ReceivedAt(f[n], p) = f[k[Len(p)]]

LEMMA TrailSent ==
    ASSUME NEW s \in Seq(Wires), NEW g, AllLinked(s, g),
           NEW n, NEW p \in Seq(Nat), NEW k, Trail(s, k, n, p)
    PROVE  IsSentAt(g, n, p, k)
<1> USE DEF AllLinked
<1> DEFINE x == g[n]
           Is(f) == f = [m \in 0..Len(p) |->
                            IF m = 0 THEN x ELSE Children(heap[f[m - 1]])[p[m]]]
           h == [m \in 0..Len(p) |-> g[k[m]]]
<1>1. PICK l \in Nat : l = Len(p)
  BY LenProperties
<1>2. ASSUME NEW m \in 1..l PROVE g[k[m]] = Children(heap[g[k[m - 1]]])[p[m]]
  <2> DEFINE j == k[m - 1]
  <2>1. /\ p[m] \in DOMAIN Children(s[j]) /\ k[m] = Children(s[j])[p[m]] + 1
        /\ j \in 1..Len(s)
    <3>1. m \in 1..Len(p) /\ m - 1 \in 0..Len(p)
      BY <1>1
    <3> QED BY <3>1 DEF Trail
  <2> HIDE DEF j
  <2>2. Linked(s, g, j)
    BY <2>1
  <2>3. g[k[m]] = Below[g[j]][p[m]] /\ g[j] \in Handles
    BY <2>1, <2>2 DEF Linked
  <2> QED BY <2>3 DEF Below, j
<1>3. h[0] = x /\ \A m \in 1..l : h[m] = Children(heap[h[m - 1]])[p[m]]
  <2>1. 0 \in 0..l /\ \A m \in 1..l : m \in 0..l /\ m - 1 \in 0..l
    OBVIOUS
  <2> QED BY <1>1, <1>2, <2>1 DEF Trail
<1>4. Is(h)
  <2>1. h = [m \in 0..l |-> h[m]] /\ \A m \in 0..l : m # 0 => m \in 1..l
    BY <1>1
  <2> HIDE DEF h
  <2> QED BY <1>1, <1>3, <2>1
<1> DEFINE at == CHOOSE f : Is(f)
<1>5. Is(at)
  <2> HIDE DEF Is, h
  <2> QED BY <1>4
<1>6. SentAt(x, p) = heap[at[Len(p)]]
  BY DEF SentAt
<1> HIDE DEF at, h
<1> DEFINE T == {m \in 0..l : at[m] = h[m]}
<1>7. 0 \in T
  BY <1>1, <1>3, <1>5
<1>8. ASSUME NEW m \in 0..(l - 1), m \in T PROVE m + 1 \in T
  <2>1. m + 1 \in 1..l /\ m + 1 \in 0..l /\ (m + 1) - 1 = m /\ m + 1 # 0
    OBVIOUS
  <2>2. at[m + 1] = Children(heap[at[(m + 1) - 1]])[p[m + 1]]
    BY <1>1, <1>5, <2>1
  <2>3. h[m + 1] = Children(heap[h[(m + 1) - 1]])[p[m + 1]]
    BY <1>3, <2>1
  <2> QED BY <1>8, <2>1, <2>2, <2>3
<1>9. at[l] = h[l]
  <2> HIDE DEF T
  <2>1. \A m \in 0..l : m \in T
    BY <1>7, <1>8, UpTo
  <2> QED BY <2>1 DEF T
<1>10. h[l] = g[k[l]]
  BY <1>1 DEF h
<1> QED BY <1>1, <1>6, <1>9, <1>10 DEF IsSentAt

LEMMA TrailReceived ==
    ASSUME NEW s \in Seq(Wires), NEW g, AllLinked(s, g),
           NEW f, AllCreated(s, f), NEW n, NEW p \in Seq(Nat), NEW k, Trail(s, k, n, p)
    PROVE  IsReceivedAt(f, n, p, k)
<1> USE DEF AllLinked
<1> DEFINE x == f[n]
           Is(e) == e = [m \in 0..Len(p) |->
                            IF m = 0 THEN x ELSE Children(e[m - 1])[p[m]]]
           h == [m \in 0..Len(p) |-> f[k[m]]]
<1>1. PICK l \in Nat : l = Len(p)
  BY LenProperties
<1>2. ASSUME NEW m \in 1..l PROVE f[k[m]] = Children(f[k[m - 1]])[p[m]]
  <2> DEFINE j == k[m - 1]
  <2>1. /\ p[m] \in DOMAIN Children(s[j]) /\ k[m] = Children(s[j])[p[m]] + 1
        /\ j \in 1..Len(s)
    <3>1. m \in 1..Len(p) /\ m - 1 \in 0..Len(p)
      BY <1>1
    <3> QED BY <3>1 DEF Trail
  <2> HIDE DEF j
  <2>2. Linked(s, g, j) /\ j \in Nat /\ f[j] = Created(s[j], f)
    <3>1. Len(s) \in Nat
      BY LenProperties
    <3> QED BY <2>1, <3>1 DEF AllCreated
  <2>3. ChildrenCreated(s, j, f)
    BY <2>2, CreatedChildren
  <2>4. Children(Created(s[j], f))[p[m]] = f[Children(s[j])[p[m]] + 1]
    BY <2>1, <2>3 DEF ChildrenCreated
  <2> QED BY <2>1, <2>2, <2>4 DEF j
<1>3. h[0] = x /\ \A m \in 1..l : h[m] = Children(h[m - 1])[p[m]]
  <2>1. 0 \in 0..l /\ \A m \in 1..l : m \in 0..l /\ m - 1 \in 0..l
    OBVIOUS
  <2> QED BY <1>1, <1>2, <2>1 DEF Trail
<1>4. Is(h)
  <2>1. h = [m \in 0..l |-> h[m]] /\ \A m \in 0..l : m # 0 => m \in 1..l
    BY <1>1
  <2> HIDE DEF h
  <2> QED BY <1>1, <1>3, <2>1
<1> DEFINE at == CHOOSE e : Is(e)
<1>5. Is(at)
  <2> HIDE DEF Is, h
  <2> QED BY <1>4
<1>6. ReceivedAt(x, p) = at[Len(p)]
  BY DEF ReceivedAt
<1> HIDE DEF at, h
<1> DEFINE T == {m \in 0..l : at[m] = h[m]}
<1>7. 0 \in T
  BY <1>1, <1>3, <1>5
<1>8. ASSUME NEW m \in 0..(l - 1), m \in T PROVE m + 1 \in T
  <2>1. m + 1 \in 1..l /\ m + 1 \in 0..l /\ (m + 1) - 1 = m /\ m + 1 # 0
    OBVIOUS
  <2>2. at[m + 1] = Children(at[(m + 1) - 1])[p[m + 1]]
    BY <1>1, <1>5, <2>1
  <2>3. h[m + 1] = Children(h[(m + 1) - 1])[p[m + 1]]
    BY <1>3, <2>1
  <2> QED BY <1>8, <2>1, <2>2, <2>3
<1>9. at[l] = h[l]
  <2> HIDE DEF T
  <2>1. \A m \in 0..l : m \in T
    BY <1>7, <1>8, UpTo
  <2> QED BY <2>1 DEF T
<1>10. h[l] = f[k[l]]
  BY <1>1 DEF h
<1> QED BY <1>1, <1>6, <1>9, <1>10 DEF IsReceivedAt

\* What is read of the message a query was written to.
Arrived ==
    LET bad == {i \in DOMAIN query : Bad(query[i])} IN
    /\ (Len(Read(proto)) < Len(proto.start_points)) = (bad # {})
    /\ Len(Read(proto)) <= Len(query)
    /\ \A i \in DOMAIN query : i \in DOMAIN Read(proto) <=> \A k \in bad : i < k
    /\ \A i \in DOMAIN Read(proto) : \A place \in Places(query[i]) :
          Same(SentAt(query[i], place), ReceivedAt(Read(proto)[i], place))

LEMMA QueryArrives ==
    ASSUME Formed, Founded, Queried, Sent(proto, Len(query))
    PROVE  Arrived
<1> DEFINE s == proto.clauses
           starts == proto.start_points
           bad == {i \in DOMAIN query : Bad(query[i])}
<1>1. PICK g : Labels(proto, Len(query), g)
  BY DEF Sent
<1>2. PICK l \in Nat : /\ l = Len(query) /\ DOMAIN query = 1..l
                       /\ \A i \in 1..l : query[i] \in Handles
  BY LenProperties, ElementOfSeq DEF Queried
<1>3. /\ s \in Seq(Wires) /\ starts \in Seq(Nat) /\ Len(starts) = l
      /\ \A i \in 1..l : starts[i] + 1 \in 1..Len(s) /\ g[starts[i] + 1] = query[i]
      /\ AllLinked(s, g)
  <2>1. Message(s, g)
    BY <1>1 DEF Labels
  <2>2. AllLinked(s, g)
    BY <2>1, MessageLinked DEF AllLinked
  <2> QED BY <1>1, <1>2, <2>2 DEF Labels, Sent, Messages
<1>4. \A i \in 1..l : Readable(s, starts[i]) <=> ~Bad(query[i])
  <2>1. \A at : at + 1 \in 1..Len(s) => (Readable(s, at) <=> ~Bad(g[at + 1]))
    BY <1>3, ReadableIs
  <2> QED BY <1>3, <2>1
<1>5. PICK f : AllCreated(s, f) /\ \A at : CreateClauseFromProto(s, at) = f[at + 1]
  BY <1>3, CreatedIs
<1> DEFINE good == {n \in 0..Len(starts) : \A i \in 1..n : Readable(s, starts[i])}
           most == CHOOSE n \in good : \A k \in good : k <= n
           r == Read(proto)
<1>6. r = [i \in 1..most |-> CreateClauseFromProto(s, starts[i])]
  BY DEF Read
<1>7. good = {n \in 0..l : \A i \in 1..n : ~Bad(query[i])}
  <2>1. \A n \in 0..l : \A i \in 1..n : i \in 1..l
    OBVIOUS
  <2> QED BY <1>3, <1>4, <2>1
<1>8. most \in good /\ \A k \in good : k <= most
  <2>1. 0 \in good
    <3>1. \A i \in 1..0 : FALSE
      OBVIOUS
    <3> QED BY <1>7, <3>1
  <2>2. good \in SUBSET (0..l)
    BY <1>7
  <2> HIDE DEF good
  <2>3. \E n \in good : \A k \in good : k <= n
    BY <2>1, <2>2, LastNumber
  <2> QED BY <2>3
<1> HIDE DEF good, most, r
<1>9. most \in 0..l /\ \A i \in 1..most : ~Bad(query[i])
  BY <1>7, <1>8
<1>10. most < l => Bad(query[most + 1])
  <2> SUFFICES ASSUME most < l, ~Bad(query[most + 1]) PROVE FALSE
    OBVIOUS
  <2>1. most + 1 \in 0..l /\ \A i \in 1..(most + 1) : i \in 1..most \/ i = most + 1
    BY <1>9
  <2>2. most + 1 \in good
    BY <1>7, <1>9, <2>1
  <2> QED BY <1>8, <1>9, <2>2
<1>11. Len(r) = most /\ DOMAIN r = 1..most /\ \A i \in 1..most : r[i] = f[starts[i] + 1]
  BY <1>5, <1>6, <1>9
<1>12. \A i \in 1..l : i \in bad <=> Bad(query[i])
  BY <1>2
<1>13. \A i \in bad : i \in 1..l /\ most < i
  <2>1. ASSUME NEW i \in bad PROVE i \in 1..l /\ most < i
    <3>1. i \in 1..l /\ Bad(query[i])
      BY <1>2
    <3>2. i \notin 1..most
      BY <1>9, <3>1
    <3> QED BY <1>9, <3>1, <3>2
  <2> QED BY <2>1
<1> HIDE DEF bad, s, starts
<1>14. (Len(r) < l) = (bad # {})
  <2>1. CASE most < l
    <3>1. most + 1 \in 1..l
      BY <1>9, <2>1
    <3>2. most + 1 \in bad
      BY <1>10, <1>12, <2>1, <3>1
    <3> QED BY <1>11, <2>1, <3>2
  <2>2. CASE ~(most < l)
    <3>1. \A i \in bad : FALSE
      BY <1>9, <1>13, <2>2
    <3>2. bad = {}
      BY <3>1
    <3> QED BY <1>11, <2>2, <3>2
  <2> QED BY <2>1, <2>2
<1>15. Len(r) <= l
  BY <1>9, <1>11
<1>16. ASSUME NEW i \in 1..l PROVE i \in 1..most <=> \A k \in bad : i < k
  <2>1. ASSUME i \in 1..most, NEW k \in bad PROVE i < k
    BY <1>9, <1>13, <2>1
  <2>2. ASSUME i \notin 1..most PROVE \E k \in bad : ~(i < k)
    <3>1. most < l /\ most + 1 <= i /\ most + 1 \in 1..l
      BY <1>9, <2>2
    <3>2. most + 1 \in bad
      BY <1>10, <1>12, <3>1
    <3> QED BY <1>9, <3>1, <3>2
  <2> QED BY <2>1, <2>2
<1>17. ASSUME NEW i \in 1..most, NEW place \in Places(query[i])
       PROVE  Same(SentAt(query[i], place), ReceivedAt(r[i], place))
  <2> DEFINE n == starts[i] + 1
  <2>1. i \in 1..l
    BY <1>9
  <2>2. n \in 1..Len(s) /\ g[n] = query[i] /\ query[i] \in Handles /\ r[i] = f[n]
    BY <1>2, <1>3, <1>11, <2>1
  <2> HIDE DEF n
  <2>3. place \in Seq(Nat) /\ \E k : Trail(s, k, n, place)
    <3>1. Trailed(s, g, Places(query[i]), query[i])
      BY <1>3, <2>2, PlacesTrailed
    <3> QED BY <2>2, <3>1 DEF Trailed
  <2>4. PICK k : Trail(s, k, n, place)
    BY <2>3
  <2> DEFINE j == k[Len(place)]
  <2>5. j \in 1..Len(s)
    <3>1. Len(place) \in Nat
      BY <2>3, LenProperties
    <3> QED BY <2>4, <3>1 DEF Trail
  <2>6. SentAt(query[i], place) = heap[g[j]]
    <3>1. IsSentAt(g, n, place, k)
      BY <1>3, <2>3, <2>4, TrailSent
    <3> QED BY <2>2, <3>1 DEF IsSentAt
  <2>7. ReceivedAt(r[i], place) = f[j]
    <3>1. IsReceivedAt(f, n, place, k)
      BY <1>3, <1>5, <2>3, <2>4, TrailReceived
    <3> QED BY <2>2, <3>1 DEF IsReceivedAt
  <2> HIDE DEF j
  <2>8. f[j] = Created(s[j], f) /\ Linked(s, g, j)
    BY <1>3, <1>5, <2>5 DEF AllCreated, AllLinked
  <2>9. Same(heap[g[j]], Created(s[j], f))
    BY <2>8, CreatedSame
  <2> QED BY <2>6, <2>7, <2>8, <2>9
<1> QED BY <1>2, <1>3, <1>11, <1>14, <1>15, <1>16, <1>17 DEF Arrived, r, bad, starts

-----------------------------------------------------------------------------
(* The inductive invariant of the queries.                                  *)

\* Nothing was read yet, or all that the message allows.
WasRead ==
    \/ received = <<>> /\ failed = FALSE
    \/ received = Read(proto) /\ failed = (Len(received) < Len(proto.start_points))

\* There is no message while the query is composed; then there is that of the query.
Progress ==
    \/ proto = Unsent /\ received = <<>> /\ failed = FALSE
    \/ Sent(proto, Len(query)) /\ proto.clauses # <<>> /\ WasRead

QueryInv == Formed /\ Founded /\ Queried /\ Progress

LEMMA QueryInitInv == QueryInit => QueryInv
<1> SUFFICES ASSUME QueryInit PROVE QueryInv
  OBVIOUS
<1>1. heap = <<>> /\ query = <<>> /\ proto = Unsent /\ received = <<>> /\ failed = FALSE
  BY DEF QueryInit, Unsent
<1>2. Formed /\ Queried /\ Progress
  BY <1>1, EmptySeq DEF Formed, Queried, Progress
<1>3. \A x \in Handles : FALSE
  <2>1. PICK n \in Nat : n = Len(heap) /\ Handles = 1..n /\ heap \in [1..n -> Forms]
    BY <1>2, HeapFormed
  <2>2. n = 0
    BY <1>1, <2>1, EmptySeq
  <2> QED BY <2>1, <2>2
<1>4. Descends(Below, Handles, <<>>, 0)
  BY <1>3 DEF Descends
<1>5. Founded
  <2>1. 0 \in Nat
    OBVIOUS
  <2> QED BY <1>4, <2>1 DEF Founded
<1> QED BY <1>2, <1>5 DEF QueryInv

\* Handles stay valid.
LEMMA HandlesGrow ==
    ASSUME Formed, [QueryNext]_queryVars
    PROVE  Handles \subseteq Handles'
<1>1. PICK n \in Nat : n = Len(heap) /\ Handles = 1..n /\ heap \in [1..n -> Forms]
  BY HeapFormed
<1>2. Formed'
  BY QueryNextFormed
<1>3. PICK m \in Nat : m = Len(heap') /\ Handles' = 1..m
  BY <1>2, LenProperties DEF Formed, Handles
<1>4. ASSUME NEW c, New(c) PROVE Handles \subseteq Handles'
  <2>1. heap' = Append(heap, c)
    BY <1>4 DEF New
  <2>2. Len(Append(heap, c)) = Len(heap) + 1
    BY DEF Formed
  <2> QED BY <1>1, <1>3, <2>1, <2>2
<1>5. ASSUME NEW x, NEW c, Change(x, c) PROVE Handles \subseteq Handles'
  BY <1>5 DEF Change, Handles
<1>6. CASE heap' = heap
  BY <1>6 DEF Handles
<1>7. CASE Compose
  BY <1>4, <1>5, <1>6, <1>7
     DEF Compose, Leaf, Operator, Begin, AddOperand, Selectors, SetPart, AddRow,
         UpdateIfExists, AddClause
<1> QED BY <1>6, <1>7 DEF QueryNext, QueryToProto, QueryFromProto, queryVars

LEMMA QueryNextQueried ==
    ASSUME Formed, Queried, [QueryNext]_queryVars
    PROVE  Queried'
<1>1. query \in Seq(Handles')
  BY HandlesGrow, SeqMonotonic DEF Queried
<1>2. CASE query' = query
  BY <1>1, <1>2 DEF Queried
<1>3. ASSUME NEW x \in Handles, AddClause(x) PROVE Queried'
  <2>1. x \in Handles' /\ query' = Append(query, x)
    BY <1>3, HandlesGrow DEF AddClause
  <2> QED BY <1>1, <2>1, AppendProperties DEF Queried
<1>4. CASE Compose
  BY <1>2, <1>3, <1>4
     DEF Compose, Leaf, Operator, Begin, AddOperand, Selectors, SetPart, AddRow,
         UpdateIfExists, New, Change
<1> QED BY <1>2, <1>4 DEF QueryNext, QueryToProto, QueryFromProto, queryVars

\* A message refers to the heap and the query it was made of.
LEMMA SentStays ==
    ASSUME heap' = heap, query' = query
    PROVE  \A m, n : Sent(m, n) => Sent(m, n)'
<1>1. Handles' = Handles
  BY DEF Handles
<1>2. Below' = Below
  BY <1>1 DEF Below
<1>3. ASSUME NEW at, NEW g, NEW y, NEW k, Points(at, g, y, k)
      PROVE  Points(at, g, y, k)'
  BY <1>2, <1>3 DEF Points
<1>4. ASSUME NEW s, NEW g, NEW k, Stands(s, g, k)
      PROVE  Stands(s, g, k)'
  <2>1. PICK at : Points(at, g, g[k], k - 1) /\ s[k] = WrittenAt(heap[g[k]], at)
    BY <1>4 DEF Stands
  <2>2. Points(at, g, g[k], k - 1)'
    BY <1>3, <2>1
  <2>3. s[k] = WrittenAt(heap'[g[k]], at)
    BY <2>1
  <2> QED BY <2>2, <2>3 DEF Stands
<1>5. ASSUME NEW s, NEW g, Message(s, g)
      PROVE  Message(s, g)'
  <2>1. \A k \in 1..Len(s) : Stands(s, g, k)'
    BY <1>4, <1>5 DEF Message
  <2> QED BY <1>1, <1>5, <2>1 DEF Message
<1>6. ASSUME NEW m, NEW n, NEW g, Labels(m, n, g)
      PROVE  Labels(m, n, g)'
  <2>1. Message(m.clauses, g)'
    BY <1>5, <1>6 DEF Labels
  <2> QED BY <1>6, <2>1 DEF Labels
<1>7. ASSUME NEW m, NEW n, Sent(m, n)
      PROVE  Sent(m, n)'
  <2>1. PICK g : Labels(m, n, g)
    BY <1>7 DEF Sent
  <2>2. Labels(m, n, g)'
    BY <1>6, <2>1
  <2> QED BY <1>7, <2>2 DEF Sent
<1> QED BY <1>7

LEMMA QueryNextProgress ==
    ASSUME QueryInv, [QueryNext]_queryVars
    PROVE  Progress'
<1> USE DEF QueryInv
<1>1. CASE Compose
  <2>1. Composing /\ UNCHANGED <<proto, received, failed>>
    BY <1>1 DEF Compose, Leaf, Operator, Begin, AddOperand, Selectors, SetPart, AddRow,
                UpdateIfExists, New, Change, AddClause
  <2>2. proto = Unsent /\ received = <<>> /\ failed = FALSE
    BY <2>1 DEF Progress, Composing
  <2> QED BY <2>1, <2>2 DEF Progress, Unsent
<1>2. CASE QueryToProto
  <2>1. /\ proto = Unsent /\ received = <<>> /\ failed = FALSE
        /\ heap' = heap /\ query' = query /\ received' = received /\ failed' = failed
    BY <1>2 DEF Progress, QueryToProto, Composing
  <2>2. Sent(proto', Len(query)) /\ proto'.clauses # <<>>
    BY <1>2, <2>1, QueryToProtoSends
  <2>3. Sent(proto, Len(query))'
    <3>1. PICK m, n : m = proto' /\ n = Len(query)
      OBVIOUS
    <3>2. Sent(m, n)'
      BY <2>1, <2>2, <3>1, SentStays
    <3>3. m = proto' /\ n = Len(query')
      BY <2>1, <3>1
    <3> QED BY <3>2, <3>3
  <2> QED BY <2>1, <2>2, <2>3 DEF Progress, WasRead
<1>3. ASSUME proto' = proto, heap' = heap, query' = query
      PROVE  Sent(proto, Len(query)) => Sent(proto, Len(query))'
  <2>1. PICK m, n : m = proto /\ n = Len(query)
    OBVIOUS
  <2>2. Sent(m, n) => Sent(m, n)'
    BY <1>3, SentStays
  <2>3. m = proto' /\ n = Len(query')
    BY <1>3, <2>1
  <2> QED BY <2>1, <2>2, <2>3
<1>4. CASE QueryFromProto
  <2>1. /\ proto' = proto /\ heap' = heap /\ query' = query /\ proto.clauses # <<>>
        /\ received' = Read(proto)
        /\ failed' = (Len(received') < Len(proto.start_points))
    BY <1>4 DEF QueryFromProto, Reread, Composing
  <2>2. Sent(proto, Len(query))
    BY <2>1 DEF Progress, Unsent
  <2>3. Sent(proto, Len(query))'
    BY <1>3, <2>1, <2>2
  <2>4. WasRead'
    BY <2>1 DEF WasRead
  <2> QED BY <2>1, <2>3, <2>4 DEF Progress
<1>5. CASE UNCHANGED queryVars
  <2>1. /\ proto' = proto /\ heap' = heap /\ query' = query /\ received' = received
        /\ failed' = failed
    BY <1>5 DEF queryVars
  <2>2. Sent(proto, Len(query)) => Sent(proto, Len(query))'
    BY <1>3, <2>1
  <2> QED BY <2>1, <2>2 DEF Progress, WasRead, Unsent
<1> QED BY <1>1, <1>2, <1>4, <1>5 DEF QueryNext

LEMMA QueryNextInv ==
    ASSUME QueryInv, [QueryNext]_queryVars
    PROVE  QueryInv'
BY QueryNextFormed, QueryNextFounded, QueryNextQueried, QueryNextProgress DEF QueryInv

LEMMA QueriesTyped ==
    ASSUME QueryInv
    PROVE  QueryTypeOK
<1> USE DEF QueryInv
<1>0. PICK b \in Nat : \E rank : Descends(Below, Handles, rank, b)
  BY DEF Founded
<1>1. PICK rank : Descends(Below, Handles, rank, b)
  BY <1>0
<1>2. ASSUME NEW x \in Handles, NEW y \in ToSet(Children(heap[x]))
      PROVE  y \in Handles /\ ~Reaches(y, x)
  <2>1. PICK i \in DOMAIN Below[x] : y = Below[x][i]
    BY <1>2 DEF ToSet, Below
  <2>2. y \in Handles /\ rank[y] < rank[x] /\ rank[x] \in Nat /\ rank[y] \in Nat
    BY <1>1, <2>1 DEF Descends
  <2>3. Reaches(y, x) => rank[x] <= rank[y]
    BY <1>1, <2>2, ReachesDown
  <2> QED BY <2>2, <2>3
<1>3. \A x \in Handles : heap[x].kind \in Kinds
  BY HandlesFormed DEF Forms
<1>4. ToSet(query) \subseteq Handles
  <2>1. \A i \in DOMAIN query : query[i] \in Handles
    BY LenProperties, ElementOfSeq DEF Queried
  <2> QED BY <2>1 DEF ToSet
<1>5. ASSUME NEW i \in DOMAIN proto.clauses
      PROVE  ToSet(Children(proto.clauses[i])) \subseteq 0..(i - 2)
  <2>1. CASE proto = Unsent
    BY <2>1 DEF Unsent
  <2>2. CASE Sent(proto, Len(query))
    <3> DEFINE s == proto.clauses
    <3>1. PICK g : Message(s, g)
      BY <2>2 DEF Sent, Labels
    <3>2. i \in 1..Len(s)
      BY <3>1, LenProperties DEF Message
    <3>3. Linked(s, g, i)
      BY <3>1, <3>2, MessageLinked
    <3>4. \A j \in DOMAIN Children(s[i]) : Children(s[i])[j] \in 0..(i - 2)
      BY <3>3 DEF Linked
    <3> QED BY <3>4 DEF ToSet
  <2> QED BY <2>1, <2>2 DEF Progress
<1>6. failed \in BOOLEAN
  <2>1. (Len(received) < Len(proto.start_points)) \in BOOLEAN
    OBVIOUS
  <2> QED BY <2>1 DEF Progress, WasRead
<1> QED BY <1>2, <1>3, <1>4, <1>5, <1>6 DEF QueryTypeOK

\* Whatever clauses share in the sender, the reader of the message holds the same trees,
\* or those before the first that holds All(), Default() or a payload that is not
\* the message of its path (query.cpp:11-40, 325-396, 463-475, 1359-1383).
THEOREM QueriesArrive == QuerySpec => []ArrivesAsSent
<1>1. QueryInv => ArrivesAsSent
  <2> SUFFICES ASSUME QueryInv, received # <<>> \/ failed
               PROVE  LET bad == {i \in DOMAIN query :
                                     \E y \in Handles :
                                        Reaches(query[i], y) /\ Throws(heap[y])}
                      IN /\ failed = (bad # {})
                         /\ Len(received) <= Len(query)
                         /\ \A i \in DOMAIN query :
                               i \in DOMAIN received <=> \A k \in bad : i < k
                         /\ \A i \in DOMAIN received : \A place \in Places(query[i]) :
                               Same(SentAt(query[i], place),
                                    ReceivedAt(received[i], place))
    BY QueriesTyped DEF ArrivesAsSent
  <2>1. /\ received = Read(proto) /\ failed = (Len(received) < Len(proto.start_points))
        /\ Sent(proto, Len(query))
    BY DEF QueryInv, Progress, WasRead
  <2>2. Arrived
    BY <2>1, QueryArrives DEF QueryInv
  <2> QED BY <2>1, <2>2 DEF Arrived, Bad
<1> QED BY <1>1, QueryInitInv, QueryNextInv, PTL DEF QuerySpec

=============================================================================
