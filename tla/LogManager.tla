----------------------------- MODULE LogManager -----------------------------
(***************************************************************************)
(* TLogManager (lib/common/logging): threads log entries into a buffer,    *)
(* and whoever fills it, or calls Flush, delivers a batch to the handlers. *)
(*                                                                         *)
(* A thread's pc:                                                          *)
(*   idle     outside the log manager                                      *)
(*   swap     in Flush, about to take the buffer under bufferMutex_        *)
(*   ready    holds a batch, about to lock mutex_                          *)
(*   deliver  holds mutex_, in the loops over entries and handlers         *)
(* An entry is the number of the Log call that buffered it.  The sections  *)
(* under bufferMutex_ touch nothing else and are one step each; mutex_ is  *)
(* held across steps, because handlers run under it.                       *)
(***************************************************************************)
EXTENDS Naturals, Sequences, FiniteSets

CONSTANTS
    Threads,        \* threads that log and flush
    Handlers,       \* handlers that exist
    DefaultHandler, \* the one for stderr, which nobody else has a pointer to
    Limits,         \* values given to SetMaxBufferSize
    MaxEntries,     \* bound on the Log calls of one behaviour
    MaxHandlers,    \* bound on the length of handlers_
    Nobody          \* the owner of mutex_ while it is free

ASSUME LogAssumption ==
    /\ IsFiniteSet(Threads)
    /\ DefaultHandler \in Handlers
    /\ Limits \subseteq Nat /\ \E n \in Limits : \A m \in Limits : m <= n
    /\ MaxEntries \in Nat
    /\ MaxHandlers \in Nat
    /\ Nobody \notin Threads

VARIABLES
    buffer,         \* buffer_
    maxBufferSize,  \* maxBufferSize_
    handlers,       \* handlers_
    mutex,          \* the thread that holds mutex_
    pc,             \* where each thread is
    batch,          \* entriesToProcess of each thread, what is left of it
    cursor,         \* the next handler of the inner loop
    received,       \* the entries each handler was given, in order
    logged,         \* number of Log calls so far
    batchOf,        \* for each entry, the oldest entry of its batch
    output,         \* entries that went through all handlers
    lost            \* entries whose batch was abandoned by an exception

vars == <<buffer, maxBufferSize, handlers, mutex, pc, batch, cursor, received,
          logged, batchOf, output, lost>>

Entries == 1..MaxEntries

TypeOK ==
    /\ buffer \in Seq(Entries)
    /\ maxBufferSize \in Limits
    /\ handlers \in Seq(Handlers)
    /\ mutex \in Threads \cup {Nobody}
    /\ pc \in [Threads -> {"idle", "swap", "ready", "deliver"}]
    /\ batch \in [Threads -> Seq(Entries)]
    /\ cursor \in Nat \ {0}
    /\ received \in [Handlers -> Seq(Entries)]
    /\ logged \in 0..MaxEntries
    /\ batchOf \in [Entries -> 0..MaxEntries]
    /\ output \in SUBSET Entries
    /\ lost \in SUBSET Entries

\* The constructor.
Init ==
    /\ buffer = <<>>
    /\ maxBufferSize \in Limits
    /\ handlers = <<DefaultHandler>>
    /\ mutex = Nobody
    /\ pc = [t \in Threads |-> "idle"]
    /\ batch = [t \in Threads |-> <<>>]
    /\ cursor = 1
    /\ received = [h \in Handlers |-> <<>>]
    /\ logged = 0
    /\ batchOf = [e \in Entries |-> 0]
    /\ output = {}
    /\ lost = {}

Go(t, state) == pc' = [pc EXCEPT ![t] = state]

SetOf(s) == {s[i] : i \in 1..Len(s)}

-----------------------------------------------------------------------------
(* Registration, by any thread that is not inside a handler.               *)

\* The numbers of S in increasing order: the one such sequence.
Picks(S) ==
    {f \in [1..Cardinality(S) -> S] : \A i, j \in DOMAIN f : i < j => f[i] < f[j]}

AddHandler(h) ==
    /\ mutex = Nobody
    /\ Len(handlers) < MaxHandlers
    /\ handlers' = Append(handlers, h)
    /\ UNCHANGED <<buffer, maxBufferSize, mutex, pc, batch, cursor, received,
                   logged, batchOf, output, lost>>

RemoveHandler(h) ==
    /\ mutex = Nobody
    /\ \E f \in Picks({i \in 1..Len(handlers) : handlers[i] # h}) :
           handlers' = [i \in DOMAIN f |-> handlers[f[i]]]
    /\ UNCHANGED <<buffer, maxBufferSize, mutex, pc, batch, cursor, received,
                   logged, batchOf, output, lost>>

SetMaxBufferSize(n) ==
    /\ maxBufferSize' = n
    /\ UNCHANGED <<buffer, handlers, mutex, pc, batch, cursor, received,
                   logged, batchOf, output, lost>>

-----------------------------------------------------------------------------
(* Log and Flush.                                                          *)

Log(t) ==
    /\ pc[t] = "idle"
    /\ logged < MaxEntries
    /\ logged' = logged + 1
    /\ buffer' = Append(buffer, logged + 1)
    /\ Go(t, IF Len(buffer') >= maxBufferSize THEN "swap" ELSE "idle")
    /\ UNCHANGED <<maxBufferSize, handlers, mutex, batch, cursor, received,
                   batchOf, output, lost>>

CallFlush(t) ==
    /\ pc[t] = "idle"
    /\ Go(t, "swap")
    /\ UNCHANGED <<buffer, maxBufferSize, handlers, mutex, batch, cursor,
                   received, logged, batchOf, output, lost>>

\* Faulty: the buffer is copied, and cleared only by whoever delivers.
SwapKeeps(t) ==
    /\ pc[t] = "swap"
    /\ batch' = [batch EXCEPT ![t] = buffer]
    /\ batchOf' = [e \in Entries |->
                      IF e \in SetOf(buffer) THEN Head(buffer) ELSE batchOf[e]]
    /\ Go(t, IF buffer = <<>> THEN "idle" ELSE "ready")
    /\ UNCHANGED <<buffer, maxBufferSize, handlers, mutex, cursor, received,
                   logged, output, lost>>

Swap(t) ==
    /\ pc[t] = "swap"
    /\ batch' = [batch EXCEPT ![t] = buffer]
    /\ batchOf' = [e \in Entries |->
                      IF e \in SetOf(buffer) THEN Head(buffer) ELSE batchOf[e]]
    /\ buffer' = <<>>
    /\ Go(t, IF buffer = <<>> THEN "idle" ELSE "ready")
    /\ UNCHANGED <<maxBufferSize, handlers, mutex, cursor, received, logged,
                   output, lost>>

LockHandlers(t) ==
    /\ pc[t] = "ready"
    /\ mutex = Nobody
    /\ mutex' = t
    /\ cursor' = 1
    /\ Go(t, "deliver")
    /\ UNCHANGED <<buffer, maxBufferSize, handlers, batch, received, logged,
                   batchOf, output, lost>>

InInnerLoop(t) ==
    pc[t] = "deliver" /\ batch[t] # <<>> /\ cursor <= Len(handlers)

Handle(t) ==
    /\ InInnerLoop(t)
    /\ received' = [received EXCEPT ![handlers[cursor]] =
                        Append(@, Head(batch[t]))]
    /\ cursor' = cursor + 1
    /\ UNCHANGED <<buffer, maxBufferSize, handlers, mutex, pc, batch, logged,
                   batchOf, output, lost>>

\* Faulty: mutex_ is locked once per entry instead of once per batch.
LockPerEntry(t) ==
    /\ pc[t] = "deliver"
    /\ batch[t] # <<>>
    /\ cursor > Len(handlers)
    /\ batch' = [batch EXCEPT ![t] = Tail(@)]
    /\ output' = output \cup {Head(batch[t])}
    /\ cursor' = 1
    /\ mutex' = Nobody
    /\ Go(t, IF Len(batch[t]) > 1 THEN "ready" ELSE "idle")
    /\ UNCHANGED <<buffer, maxBufferSize, handlers, received, logged, batchOf,
                   lost>>

NextEntry(t) ==
    /\ pc[t] = "deliver"
    /\ batch[t] # <<>>
    /\ cursor > Len(handlers)
    /\ batch' = [batch EXCEPT ![t] = Tail(@)]
    /\ output' = output \cup {Head(batch[t])}
    /\ cursor' = 1
    /\ UNCHANGED <<buffer, maxBufferSize, handlers, mutex, pc, received,
                   logged, batchOf, lost>>

EndDelivery(t) ==
    /\ pc[t] = "deliver"
    /\ batch[t] = <<>>
    /\ mutex' = Nobody
    /\ Go(t, "idle")
    /\ UNCHANGED <<buffer, maxBufferSize, handlers, batch, cursor, received,
                   logged, batchOf, output, lost>>

\* Faulty: lock() and unlock() by hand, which an exception steps over.
ThrowKeepsLock(t) ==
    /\ InInnerLoop(t)
    /\ handlers[cursor] # DefaultHandler
    /\ lost' = lost \cup SetOf(batch[t])
    /\ batch' = [batch EXCEPT ![t] = <<>>]
    /\ Go(t, "idle")
    /\ UNCHANGED <<buffer, maxBufferSize, handlers, mutex, cursor, received,
                   logged, batchOf, output>>

\* A handler throws before it writes (a rotation that fails), as one of a stream
\* does not: unwinding releases mutex_, and the rest of the batch is gone.
HandlerThrows(t) ==
    /\ InInnerLoop(t)
    /\ handlers[cursor] # DefaultHandler
    /\ lost' = lost \cup SetOf(batch[t])
    /\ batch' = [batch EXCEPT ![t] = <<>>]
    /\ mutex' = Nobody
    /\ Go(t, "idle")
    /\ UNCHANGED <<buffer, maxBufferSize, handlers, cursor, received, logged,
                   batchOf, output>>

-----------------------------------------------------------------------------
FlushStep(t) ==
    Swap(t) \/ LockHandlers(t) \/ Handle(t) \/ NextEntry(t) \/ EndDelivery(t)
        \/ HandlerThrows(t)

Next ==
    \/ \E t \in Threads : Log(t) \/ CallFlush(t) \/ FlushStep(t)
    \/ \E h \in Handlers \ {DefaultHandler} : AddHandler(h) \/ RemoveHandler(h)
    \/ \E n \in Limits : SetMaxBufferSize(n)

Spec == Init /\ [][Next]_vars

\* Threads inside Flush keep running, handlers return, and a mutex that is
\* free again and again is got in the end.  Nobody has to log or to flush.
FairSpec ==
    /\ Spec
    /\ \A t \in Threads : WF_vars(FlushStep(t)) /\ SF_vars(LockHandlers(t))

-----------------------------------------------------------------------------
(* Properties.                                                             *)

\* An entry is in the buffer, in one thread's batch, delivered, or lost with
\* the batch of a handler that threw, and in one of them only: the swap under
\* bufferMutex_ neither drops nor doubles an entry (logging.cpp:166-170).
Holders(e) ==
    {t \in Threads : e \in SetOf(batch[t])}

ExactlyOnePlace ==
    \A e \in 1..logged :
        /\ e \in SetOf(buffer) =>
             Holders(e) = {} /\ e \notin output /\ e \notin lost
        /\ \A t \in Holders(e) :
             Holders(e) = {t} /\ e \notin output /\ e \notin lost
        /\ e \in output => e \notin lost
        /\ \/ e \in SetOf(buffer) \cup output \cup lost
           \/ Holders(e) # {}

\* The buffer outgrows the limit only by the threads that have yet to flush
\* it: whoever found it full is on the way (logging.cpp:155-160).
Flushing == {t \in Threads : pc[t] = "swap"}

LargestLimit == CHOOSE n \in Limits \cup {1} : \A m \in Limits \cup {1} : m <= n

BufferBounded == Len(buffer) < LargestLimit + Cardinality(Flushing)

\* No handler sees two batches interleaved, and within a batch the entries keep
\* the order of their Log calls.
BatchesWhole ==
    \A h \in Handlers : \A i, j, k \in 1..Len(received[h]) :
        LET r == received[h] IN
        i <= j /\ j <= k /\ batchOf[r[i]] = batchOf[r[k]] =>
            batchOf[r[j]] = batchOf[r[i]] /\ r[i] <= r[j]

\* How often x is among the first n elements of s, and in all of it.
TimesIn(x, s, n) == Cardinality({i \in 1..n : s[i] = x})

Times(x, s) == TimesIn(x, s, Len(s))

\* An entry that has gone through the loop was given to every handler of the
\* list as often as the list holds it, for nobody edits handlers_ under the
\* iteration; and mutex_ is held for a whole batch, so that batches arrive whole
\* (logging.cpp:136-147, 176-181).
EveryHandlerGetsIt ==
    [][/\ BatchesWhole'
       /\ \A e \in output' \ output : \A h \in Handlers :
             Times(e, received[h]) = Times(h, handlers)]_vars

\* An entry in a batch, or in a buffer someone is about to flush, is delivered
\* unless a handler throws, whatever the other threads log in the meantime.
TakenIsDelivered ==
    \A e \in Entries :
        \/ Holders(e) # {}
        \/ e \in SetOf(buffer) /\ Flushing # {}
            ~> e \in output \cup lost

\* The conjuncts that make ExactlyOnePlace, BufferBounded and BatchesWhole inductive.
MutexInv == \A t \in Threads : pc[t] = "deliver" <=> mutex = t

BatchInv == \A t \in Threads : pc[t] \in {"idle", "swap"} => batch[t] = <<>>

\* The buffer holds the latest entries, and a batch a run of older ones.
RunsInv ==
    /\ Len(buffer) <= logged
    /\ \A i \in 1..Len(buffer) : buffer[i] = (logged - Len(buffer)) + i
    /\ \A t \in Threads : \A i \in 1..Len(batch[t]) :
         /\ batch[t][i] = batch[t][1] + (i - 1)
         /\ batch[t][i] <= logged - Len(buffer)

SettledInv == \A e \in output \cup lost : e <= logged - Len(buffer)

\* A batch has a number of its own, which no entry in it precedes.
BatchOfInv ==
    /\ \A e \in Entries : batchOf[e] <= e
    /\ \A t \in Threads : \A i \in 1..Len(batch[t]) :
         batchOf[batch[t][i]] = batchOf[batch[t][1]]
    /\ \A t, u \in Threads : t # u /\ batch[t] # <<>> /\ batch[u] # <<>> =>
         batchOf[batch[t][1]] # batchOf[batch[u][1]]

\* Handlers were given nothing but settled entries and the one being delivered.
Delivering(t) == pc[t] = "deliver" /\ batch[t] # <<>>

ReceivedInv ==
    \A h \in Handlers : \A i \in 1..Len(received[h]) :
        \/ received[h][i] \in output \cup lost
        \/ \E t \in Threads : Delivering(t) /\ received[h][i] = batch[t][1]

\* A batch that waits for mutex_ has not begun to arrive.
ReadyInv ==
    \A t \in Threads : pc[t] = "ready" =>
        /\ batch[t] # <<>>
        /\ \A h \in Handlers : \A i \in 1..Len(received[h]) :
             batchOf[received[h][i]] # batchOf[batch[t][1]]

\* Under way, the handlers before the cursor were given the entry, and what has
\* arrived of the batch is the latest and not newer.
PassInv ==
    \A t \in Threads : Delivering(t) =>
        /\ cursor <= Len(handlers) + 1
        /\ \A h \in Handlers :
             Times(batch[t][1], received[h]) = TimesIn(h, handlers, cursor - 1)
        /\ \A h \in Handlers : \A i, j \in 1..Len(received[h]) :
             i <= j /\ batchOf[received[h][i]] = batchOf[batch[t][1]] =>
               /\ batchOf[received[h][j]] = batchOf[batch[t][1]]
               /\ received[h][i] <= batch[t][1]

\* Every entry is in one place, the buffer keeps its bound, batches arrive whole and
\* the mutexes are free when nobody needs them (logging.cpp:149-182).
IInv ==
    /\ TypeOK /\ MutexInv /\ BatchInv /\ RunsInv /\ SettledInv
    /\ ExactlyOnePlace /\ BufferBounded
    /\ BatchOfInv /\ ReceivedInv /\ ReadyInv /\ PassInv /\ BatchesWhole

=============================================================================
