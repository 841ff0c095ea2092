------------------------------ MODULE DbClient ------------------------------
(***************************************************************************)
(* TDbClient and its TTransaction handles (lib/ipc/db_client): threads     *)
(* share one connection, which has at most one transaction, Txn_.  Every   *)
(* section under Mutex_ is one step.  ~TTransaction compares Txn_ with its *)
(* own without the mutex and calls Rollback afterwards: two steps, and     *)
(* Rollback ends whatever transaction is current by then.                  *)
(*                                                                         *)
(* Each of them logs before it is done, and logging may throw: Log flushes *)
(* a full buffer, and a handler fails.  What was to be done is then left.  *)
(*                                                                         *)
(* A transaction is the number of the call that began it.  A query is not  *)
(* a step: it runs in the current transaction, whoever began it, or in one *)
(* of its own, and leaves the client's state alone.                        *)
(***************************************************************************)
EXTENDS Naturals

CONSTANTS
    Threads,
    Nobody,
    MaxTxns,        \* bound on the transactions of one behaviour
    MaxCopies       \* bound on the handles a thread has of one transaction

ASSUME DbAssumption ==
    /\ Nobody \notin Threads
    /\ MaxTxns \in Nat
    /\ MaxCopies \in Nat \ {0}

Txns == 1..MaxTxns

VARIABLES
    ownersOnly,     \* whether callers keep a transaction and its handles in
                    \* the thread that began it
    current,        \* Txn_ of the client, 0 for null
    state,          \* the state of each pqxx::transaction
    handles,        \* how many TTransaction objects of each a thread has
    opened,         \* transactions begun so far
    polling,        \* threads in BeginTransactionWithTimeout
    dying,          \* per thread, the transaction whose handle's destructor
                    \* has found it current and is about to roll back, or 0
    owner,          \* the thread that began a transaction
    endedBy,        \* the thread that ended it at the server
    log             \* what logging has done: threw, also where an exception ends
                    \* the process

vars == <<ownersOnly, current, state, handles, opened, polling, dying, owner,
          endedBy, log>>

TypeOK ==
    /\ ownersOnly \in BOOLEAN
    /\ current \in 0..MaxTxns
    /\ state \in [Txns ->
                     {"none", "active", "failed", "committed", "aborted", "done"}]
    /\ handles \in [Threads -> [Txns -> 0..MaxCopies]]
    /\ opened \in 0..MaxTxns
    /\ polling \in SUBSET Threads
    /\ dying \in [Threads -> 0..MaxTxns]
    /\ owner \in [Txns -> Threads \cup {Nobody}]
    /\ endedBy \in [Txns -> Threads \cup {Nobody}]
    /\ log \in {"fine", "threw", "terminated"}

Init ==
    /\ ownersOnly \in BOOLEAN
    /\ current = 0
    /\ state = [i \in Txns |-> "none"]
    /\ handles = [t \in Threads |-> [i \in Txns |-> 0]]
    /\ opened = 0
    /\ polling = {}
    /\ dying = [t \in Threads |-> 0]
    /\ owner = [i \in Txns |-> Nobody]
    /\ endedBy = [i \in Txns |-> Nobody]
    /\ log = "fine"

Idle(t) == t \notin polling /\ dying[t] = 0

\* There is a transaction and, by the callers' discipline, t may end it.
MayEnd(t) == current # 0 /\ (ownersOnly => owner[current] = t)

-----------------------------------------------------------------------------
\* BeginTransactionWithTimeout that does not look at Txn_ again.
OpenUnchecked(t) ==
    /\ opened < MaxTxns
    /\ opened' = opened + 1
    /\ current' = opened'
    /\ state' = [state EXCEPT ![opened'] = "active"]
    /\ owner' = [owner EXCEPT ![opened'] = t]
    /\ \/ handles' = [handles EXCEPT ![t][opened'] = 1] /\ UNCHANGED log
       \/ log' = "threw" /\ UNCHANGED handles
    /\ UNCHANGED <<dying, endedBy>>

\* The section under Mutex_ of both ways to begin.  With Txn_ set,
\* BeginTransaction throws and changes nothing.  Txn_ is set before the call
\* is logged, the handle is made after it.
Open(t) ==
    /\ current = 0
    /\ opened < MaxTxns
    /\ opened' = opened + 1
    /\ current' = opened'
    /\ state' = [state EXCEPT ![opened'] = "active"]
    /\ owner' = [owner EXCEPT ![opened'] = t]
    /\ \/ handles' = [handles EXCEPT ![t][opened'] = 1] /\ UNCHANGED log
       \/ log' = "threw" /\ UNCHANGED handles
    /\ UNCHANGED <<dying, endedBy>>

BeginTransaction(t) == Idle(t) /\ Open(t) /\ UNCHANGED <<ownersOnly, polling>>

StartPolling(t) ==
    /\ Idle(t)
    /\ polling' = polling \cup {t}
    /\ UNCHANGED <<ownersOnly, current, state, handles, opened, dying, owner,
                   endedBy, log>>

PollBegins(t) ==
    /\ t \in polling
    /\ Open(t)
    /\ polling' = polling \ {t}
    /\ UNCHANGED ownersOnly

PollTimesOut(t) ==
    /\ t \in polling
    /\ current # 0
    /\ polling' = polling \ {t}
    /\ UNCHANGED <<ownersOnly, current, state, handles, opened, dying, owner,
                   endedBy, log>>

\* It is over at the server, and Txn_ is reset once that was logged.
Close(t, as) ==
    /\ current # 0
    /\ endedBy' = [endedBy EXCEPT ![current] = IF @ = Nobody THEN t ELSE @]
    /\ \/ /\ state' = [state EXCEPT ![current] = "done"]
          /\ current' = 0
          /\ UNCHANGED log
       \/ /\ state' = [state EXCEPT ![current] = as]
          /\ log' = "threw"
          /\ UNCHANGED current

\* With Txn_ null Commit and Rollback throw and change nothing; the library lets
\* a transaction be committed twice or aborted twice.
Commit(t) ==
    /\ Idle(t) /\ MayEnd(t)
    /\ state[current] \in {"active", "committed"}
    /\ Close(t, "committed")
    /\ UNCHANGED <<ownersOnly, handles, opened, polling, dying, owner>>

\* commit() throws: Txn_ stays set, and every further Commit throws too.
CommitFails(t) ==
    /\ Idle(t) /\ MayEnd(t)
    /\ state[current] = "active"
    /\ state' = [state EXCEPT ![current] = "failed"]
    /\ UNCHANGED <<ownersOnly, current, handles, opened, polling, dying, owner,
                   endedBy, log>>

\* abort() throws for a transaction that is committed, and it alone.
Rollback(t) ==
    /\ Idle(t) /\ MayEnd(t)
    /\ state[current] # "committed"
    /\ Close(t, "aborted")
    /\ UNCHANGED <<ownersOnly, handles, opened, polling, dying, owner>>

\* TTransaction has the implicit copy constructor.
CopyHandle(t, u, i) ==
    /\ Idle(t)
    /\ ownersOnly => t = u
    /\ handles[t][i] > 0 /\ handles[u][i] < MaxCopies
    /\ handles' = [handles EXCEPT ![u][i] = @ + 1]
    /\ UNCHANGED <<ownersOnly, current, state, opened, polling, dying, owner,
                   endedBy, log>>

-----------------------------------------------------------------------------
\* A destructor that leaves the transaction to an explicit Rollback.
DestroySilently(t, i) ==
    /\ Idle(t)
    /\ handles[t][i] > 0
    /\ handles' = [handles EXCEPT ![t][i] = @ - 1]
    /\ UNCHANGED <<ownersOnly, current, state, opened, polling, dying, owner,
                   endedBy, log>>

\* A destructor that rolls back whether or not its transaction is current.
DestroyAlways(t, i) ==
    /\ Idle(t)
    /\ handles[t][i] > 0
    /\ dying' = [dying EXCEPT ![t] = i]
    /\ UNCHANGED <<ownersOnly, current, state, handles, opened, polling, owner,
                   endedBy, log>>

\* The unlocked comparison of ~TTransaction: nothing to do, or Rollback next.
\* If the warning throws the error is logged instead, and nothing is rolled back.
Destroy(t, i) ==
    /\ Idle(t)
    /\ handles[t][i] > 0
    /\ \/ /\ current = i
          /\ dying' = [dying EXCEPT ![t] = i]
          /\ UNCHANGED <<handles, log>>
       \/ /\ handles' = [handles EXCEPT ![t][i] = @ - 1]
          /\ log' = IF current = i THEN "threw" ELSE log
          /\ UNCHANGED dying
    /\ UNCHANGED <<ownersOnly, current, state, opened, polling, owner, endedBy>>

\* The Rollback of the destructor, which swallows the exception of a client
\* that has no transaction any more, has a committed one, or could not log.
DestroyRollsBack(t) ==
    /\ dying[t] # 0
    /\ IF current = 0 \/ (current # 0 /\ state[current] = "committed")
       THEN UNCHANGED <<current, state, endedBy, log>>
       ELSE Close(t, "aborted")
    /\ handles' = [handles EXCEPT ![t][dying[t]] = @ - 1]
    /\ dying' = [dying EXCEPT ![t] = 0]
    /\ UNCHANGED <<ownersOnly, opened, polling, owner>>

\* The exception that is swallowed is logged, and that may throw out of the
\* destructor.
DestroyThrows(t) ==
    /\ dying[t] # 0 \/ \E i \in Txns : Idle(t) /\ handles[t][i] > 0 /\ current = i
    /\ log' = "terminated"
    /\ UNCHANGED <<ownersOnly, current, state, handles, opened, polling, dying,
                   owner, endedBy>>

-----------------------------------------------------------------------------
Begins(t) == BeginTransaction(t) \/ StartPolling(t) \/ PollBegins(t)

Ends(t) == Commit(t) \/ CommitFails(t) \/ Rollback(t) \/ PollTimesOut(t)

Drops(t) == (\E i \in Txns : Destroy(t, i)) \/ DestroyRollsBack(t) \/ DestroyThrows(t)

Next ==
    /\ log # "terminated"
    /\ \E t \in Threads :
           \/ Begins(t)
           \/ Ends(t)
           \/ Drops(t)
           \/ \E u \in Threads, i \in Txns : CopyHandle(t, u, i)

Spec == Init /\ [][Next]_vars

(***************************************************************************)
(* Handles are scoped objects: a thread that has one leaves its scope and  *)
(* destroys it, whatever else it does before.  A poll that finds Txn_ set  *)
(* until endTime gives up.                                                 *)
(***************************************************************************)
Fairness == \A t \in Threads :
    /\ WF_vars(log # "terminated" /\ DestroyRollsBack(t))
    /\ WF_vars(log # "terminated" /\ (PollTimesOut(t) \/ PollBegins(t)))
    /\ \A i \in Txns : SF_vars(log # "terminated" /\ Destroy(t, i) /\ current = i)

FairSpec == Spec /\ Fairness

-----------------------------------------------------------------------------
\* A transaction that blocks every BeginTransaction still has a handle whose
\* destructor will end it: neither a failed commit nor a copied handle, nor
\* two destructors that both found it current, leaves it behind; only logging
\* that threw does.
NoOrphan ==
    (current # 0 /\ log = "fine") => \E t \in Threads : handles[t][current] > 0

\* A transaction open at the server is the client's Txn_, and Txn_ is open unless
\* logging threw.  Transactions are numbered in the order they were begun.
TxnInv ==
    \A i \in Txns :
        /\ (state[i] \in {"active", "failed", "committed", "aborted"}) <=> (current = i)
        /\ (state[i] \in {"committed", "aborted"}) => log # "fine"
        /\ (state[i] = "none") <=> (i > opened)
        /\ (owner[i] = Nobody) <=> (i > opened)
        /\ (endedBy[i] # Nobody) <=> (state[i] \in {"committed", "aborted", "done"})

\* A destructor under way still holds its handle, and its thread does not poll.
DyingInv ==
    \A t \in Threads :
        dying[t] # 0 => handles[t][dying[t]] > 0 /\ t \notin polling

\* With disciplined callers a handle is at its owner, so that nobody can end the
\* transaction a destructor has found current before the destructor does.
OwnersInv ==
    ownersOnly => \A t \in Threads :
        /\ \A i \in Txns : handles[t][i] > 0 => owner[i] = t
        /\ dying[t] # 0 => dying[t] = current

\* The client, its handles and the server agree (db_client.cpp:119-204).
IInv == TypeOK /\ NoOrphan /\ TxnInv /\ DyingInv /\ OwnersInv

\* Callers that keep a transaction in the thread that began it have it ended
\* by no other thread, although a destructor rolls back whatever is current
\* when it gets the mutex (db_client.cpp:195-204).
EndedByOwner ==
    ownersOnly => \A i \in Txns : endedBy[i] \in {Nobody, owner[i]}

\* Whatever became of its commit, a transaction stops blocking the client, unless
\* logging threw (db_client.cpp:162-192).
FreedAgain == \A i \in Txns : (current = i) ~> (current # i \/ log # "fine")

=============================================================================
