-------------------------- MODULE LogManagerProofs --------------------------
(***************************************************************************)
(* Proofs about LogManager for any number of threads, handlers and         *)
(* entries.  IInv is inductive.  Its first half says where an entry is:    *)
(* the buffer holds the latest entries and each batch a run of older ones, *)
(* so that the swap moves entries that are nowhere else.  Its second half  *)
(* follows a batch through the handlers: mutex_ is held for all of it, so  *)
(* what has arrived of it is the end of what each handler was given.       *)
(***************************************************************************)
EXTENDS LogManager, SequenceTheorems, FiniteSetTheorems, TLAPS

-----------------------------------------------------------------------------
(* Lemmas about sequences and counting.                                    *)

LEMMA AppendFacts ==
    ASSUME NEW S, NEW s \in Seq(S), NEW x \in S
    PROVE  /\ Append(s, x) \in Seq(S)
           /\ Len(s) \in Nat /\ Len(Append(s, x)) = Len(s) + 1
           /\ \A i \in 1..Len(s) : Append(s, x)[i] = s[i]
           /\ Append(s, x)[Len(s) + 1] = x
           /\ SetOf(Append(s, x)) = SetOf(s) \cup {x}
<1>1. /\ Append(s, x) \in Seq(S)
      /\ Len(s) \in Nat /\ Len(Append(s, x)) = Len(s) + 1
      /\ \A i \in 1..Len(s) : Append(s, x)[i] = s[i]
      /\ Append(s, x)[Len(s) + 1] = x
  BY AppendProperties, LenProperties
<1>2. 1..Len(Append(s, x)) = 1..Len(s) \cup {Len(s) + 1}
  BY <1>1
<1>3. SetOf(Append(s, x)) = SetOf(s) \cup {x}
  BY <1>1, <1>2 DEF SetOf
<1> QED BY <1>1, <1>3

LEMMA TailFacts ==
    ASSUME NEW S, NEW s \in Seq(S), s # <<>>
    PROVE  /\ Tail(s) \in Seq(S) /\ Head(s) = s[1] /\ s[1] \in S
           /\ Len(s) \in Nat \ {0} /\ Len(Tail(s)) = Len(s) - 1
           /\ \A i \in 1..Len(Tail(s)) : Tail(s)[i] = s[i + 1]
           /\ SetOf(s) = SetOf(Tail(s)) \cup {s[1]}
<1>1. /\ Tail(s) \in Seq(S) /\ Head(s) = s[1] /\ s[1] \in S
      /\ Len(s) \in Nat \ {0} /\ Len(Tail(s)) = Len(s) - 1
      /\ \A i \in 1..Len(Tail(s)) : Tail(s)[i] = s[i + 1]
  BY HeadTailProperties, LenProperties, EmptySeq
<1>2. ASSUME NEW i \in 1..Len(s), i # 1
      PROVE  i - 1 \in 1..Len(Tail(s)) /\ Tail(s)[i - 1] = s[i]
  BY <1>1, <1>2
<1>3. ASSUME NEW i \in 1..Len(Tail(s)) PROVE i + 1 \in 1..Len(s)
  BY <1>1, <1>3
<1>4. SetOf(s) = SetOf(Tail(s)) \cup {s[1]}
  <2>1. SetOf(s) \subseteq SetOf(Tail(s)) \cup {s[1]}
    <3> SUFFICES ASSUME NEW i \in 1..Len(s), i # 1
                 PROVE  s[i] \in SetOf(Tail(s))
      BY DEF SetOf
    <3> QED BY <1>2 DEF SetOf
  <2>2. SetOf(Tail(s)) \cup {s[1]} \subseteq SetOf(s)
    <3>1. s[1] \in SetOf(s)
      BY <1>1 DEF SetOf
    <3>2. \A i \in 1..Len(Tail(s)) : Tail(s)[i] \in SetOf(s)
      BY <1>1, <1>3 DEF SetOf
    <3> QED BY <3>1, <3>2 DEF SetOf
  <2> QED BY <2>1, <2>2
<1> QED BY <1>1, <1>4

\* A function on 1..n is a sequence.
LEMMA FunctionIsSeq ==
    ASSUME NEW S, NEW n \in Nat, NEW f \in [1..n -> S]
    PROVE  f \in Seq(S)
<1> DEFINE g == SubSeq(f, 1, n)
<1>1. /\ g \in Seq(S) /\ Len(g) = n /\ \A i \in 1..n : g[i] = f[i]
  BY SubSeqProperties
<1>2. g \in [1..n -> S]
  BY <1>1, LenProperties
<1> HIDE DEF g
<1>3. g = f
  BY <1>1, <1>2
<1> QED BY <1>1, <1>3

LEMMA EmptyFacts == SetOf(<<>>) = {} /\ Len(<<>>) = 0
BY DEF SetOf

\* One more position is counted or not.
LEMMA CountStep ==
    ASSUME NEW f, NEW n \in Nat, NEW x
    PROVE  /\ TimesIn(x, f, n) \in Nat
           /\ TimesIn(x, f, n + 1) = TimesIn(x, f, n) + (IF f[n + 1] = x THEN 1 ELSE 0)
<1> DEFINE C == {i \in 1..n : f[i] = x}
<1>1. IsFiniteSet(1..n) /\ C \in SUBSET (1..n)
  BY FS_Interval
<1>2. IsFiniteSet(C) /\ Cardinality(C) \in Nat
  BY <1>1, FS_Subset, FS_CardinalityType
<1>3. n + 1 \notin C
  OBVIOUS
<1>4. {i \in 1..(n + 1) : f[i] = x} = IF f[n + 1] = x THEN C \cup {n + 1} ELSE C
  OBVIOUS
<1>5. Cardinality(C \cup {n + 1}) = Cardinality(C) + 1
  BY <1>2, <1>3, FS_AddElement
<1> QED BY <1>2, <1>4, <1>5 DEF TimesIn

LEMMA CountNone ==
    ASSUME NEW s, NEW x, \A i \in 1..Len(s) : s[i] # x
    PROVE  Times(x, s) = 0
<1>1. {i \in 1..Len(s) : s[i] = x} = {}
  OBVIOUS
<1> QED BY <1>1, FS_EmptySet DEF Times, TimesIn

\* The limit that bounds the others.
LEMMA Largest ==
    /\ LargestLimit \in Nat \ {0}
    /\ \A n \in Limits : n \in Nat /\ n <= LargestLimit
<1>1. PICK n \in Limits : \A m \in Limits : m <= n
  BY LogAssumption
<1>2. n \in Nat /\ \A m \in Limits : m \in Nat
  BY LogAssumption
<1>3. \E k \in Limits \cup {1} : \A m \in Limits \cup {1} : m <= k
  <2>1. CASE n >= 1
    BY <1>1, <1>2, <2>1
  <2>2. CASE ~(n >= 1)
    BY <1>1, <1>2, <2>2
  <2> QED BY <2>1, <2>2
<1>4. LargestLimit \in Limits \cup {1} /\ \A m \in Limits \cup {1} : m <= LargestLimit
  BY <1>3 DEF LargestLimit
<1> QED BY <1>2, <1>4

LEMMA FlushingFinite ==
    /\ IsFiniteSet(Flushing) /\ Cardinality(Flushing) \in Nat
    /\ IsFiniteSet(Flushing') /\ Cardinality(Flushing') \in Nat
<1>1. Flushing \in SUBSET Threads /\ Flushing' \in SUBSET Threads
  BY DEF Flushing
<1> QED BY <1>1, LogAssumption, FS_Subset, FS_CardinalityType

-----------------------------------------------------------------------------
(* What the invariant says of numbers, of entries and of threads.          *)

LEMMA Numbers ==
    ASSUME IInv
    PROVE  /\ logged \in Nat /\ Len(buffer) \in Nat /\ cursor \in Nat \ {0}
           /\ Len(buffer) <= logged /\ Len(handlers) \in Nat
           /\ \A t \in Threads : Len(batch[t]) \in Nat
           /\ \A h \in Handlers : Len(received[h]) \in Nat
           /\ \A e \in Entries : e \in Nat \ {0}
           /\ \A i \in 1..Len(buffer) : buffer[i] \in Entries
           /\ \A t \in Threads : \A i \in 1..Len(batch[t]) : batch[t][i] \in Entries
           /\ \A h \in Handlers : \A i \in 1..Len(received[h]) :
                received[h][i] \in Entries
           /\ \A e \in Entries : batchOf[e] \in Nat
<1>1. /\ logged \in Nat /\ cursor \in Nat \ {0} /\ Len(buffer) <= logged
      /\ \A e \in Entries : e \in Nat \ {0}
      /\ \A e \in Entries : batchOf[e] \in Nat
  BY LogAssumption DEF IInv, TypeOK, RunsInv, Entries
<1>2. /\ buffer \in Seq(Entries) /\ handlers \in Seq(Handlers)
      /\ \A t \in Threads : batch[t] \in Seq(Entries)
      /\ \A h \in Handlers : received[h] \in Seq(Entries)
  BY DEF IInv, TypeOK
<1> QED BY <1>1, <1>2, LenProperties, ElementOfSeq

\* An entry in a batch has not settled, and is in no other batch.
LEMMA Unsettled ==
    ASSUME IInv, NEW t \in Threads, NEW i \in 1..Len(batch[t])
    PROVE  /\ batch[t][i] \notin output /\ batch[t][i] \notin lost
           /\ batch[t][i] \in 1..logged
           /\ \A u \in Threads : batch[t][i] \in SetOf(batch[u]) => u = t
<1>1. batch[t][i] \in 1..logged
  BY Numbers DEF IInv, RunsInv
<1>2. t \in Holders(batch[t][i])
  BY DEF Holders, SetOf
<1> QED BY <1>1, <1>2 DEF IInv, ExactlyOnePlace, Holders

\* Only the holder of mutex_ delivers.
LEMMA OneDelivers ==
    ASSUME IInv, NEW t \in Threads, NEW u \in Threads,
           pc[t] = "deliver" \/ mutex = Nobody
    PROVE  pc[u] = "deliver" => u = t /\ mutex = t
BY LogAssumption DEF IInv, MutexInv

\* Nothing that was given to a handler is still in the buffer.
LEMMA ReceivedIsOld ==
    ASSUME IInv, NEW h \in Handlers, NEW i \in 1..Len(received[h])
    PROVE  received[h][i] <= logged - Len(buffer)
<1>1. CASE received[h][i] \in output \cup lost
  BY <1>1 DEF IInv, SettledInv
<1>2. CASE \E t \in Threads : Delivering(t) /\ received[h][i] = batch[t][1]
  <2>1. PICK t \in Threads : batch[t] # <<>> /\ received[h][i] = batch[t][1]
    BY <1>2 DEF Delivering
  <2>2. 1 \in 1..Len(batch[t])
    BY <2>1, EmptySeq DEF IInv, TypeOK
  <2> QED BY <2>1, <2>2 DEF IInv, RunsInv
<1> QED BY <1>1, <1>2 DEF IInv, ReceivedInv

\* An entry of a batch beyond the one being delivered was given to nobody.
LEMMA NotReceived ==
    ASSUME IInv, NEW t \in Threads, NEW i \in 1..Len(batch[t]),
           \A u \in Threads : Delivering(u) => batch[u][1] # batch[t][i],
           NEW h \in Handlers
    PROVE  Times(batch[t][i], received[h]) = 0
<1>1. \A j \in 1..Len(received[h]) : received[h][j] # batch[t][i]
  BY Unsettled DEF IInv, ReceivedInv
<1> QED BY <1>1, CountNone

LEMMA InitInv == Init => IInv
<1> SUFFICES ASSUME Init PROVE IInv
  OBVIOUS
<1> USE LogAssumption DEF Init
<1>1. TypeOK
  BY EmptySeq DEF TypeOK, Entries
<1>2. MutexInv /\ BatchInv
  BY DEF MutexInv, BatchInv
<1>3. RunsInv /\ SettledInv /\ ExactlyOnePlace
  BY EmptyFacts DEF RunsInv, SettledInv, ExactlyOnePlace
<1>4. BufferBounded
  BY EmptyFacts, Largest, FlushingFinite DEF BufferBounded
<1>5. BatchOfInv
  BY EmptyFacts DEF BatchOfInv, Entries
<1>6. ReceivedInv /\ ReadyInv /\ PassInv /\ BatchesWhole
  BY EmptyFacts DEF ReceivedInv, ReadyInv, PassInv, Delivering, BatchesWhole
<1> QED BY <1>1, <1>2, <1>3, <1>4, <1>5, <1>6 DEF IInv

-----------------------------------------------------------------------------
(* Steps that leave the entries, or what has arrived, where they are.      *)

LEMMA PlaceKept ==
    ASSUME IInv, UNCHANGED <<buffer, batch, output, lost, logged>>
    PROVE  RunsInv' /\ SettledInv' /\ ExactlyOnePlace'
BY DEF IInv, RunsInv, SettledInv, ExactlyOnePlace, Holders

LEMMA BoundKept ==
    ASSUME IInv, UNCHANGED buffer, \A t \in Threads : pc[t] = "swap" => pc'[t] = "swap"
    PROVE  BufferBounded'
<1>1. Flushing \in SUBSET Flushing'
  BY DEF Flushing
<1>2. Cardinality(Flushing) <= Cardinality(Flushing')
  BY <1>1, FlushingFinite, FS_Subset
<1> QED BY <1>2, Numbers, Largest, FlushingFinite DEF IInv, BufferBounded

LEMMA FlowKept ==
    ASSUME IInv, UNCHANGED <<batch, batchOf, received, output, lost>>,
           \A t \in Threads : Delivering(t)' <=> Delivering(t),
           \A t \in Threads : pc'[t] = "ready" => pc[t] = "ready",
           UNCHANGED <<cursor, handlers>> \/ mutex = Nobody
    PROVE  BatchOfInv' /\ ReceivedInv' /\ ReadyInv' /\ PassInv' /\ BatchesWhole'
<1>1. BatchOfInv' /\ ReceivedInv' /\ ReadyInv' /\ BatchesWhole'
  BY DEF IInv, BatchOfInv, ReceivedInv, ReadyInv, BatchesWhole
<1>2. CASE UNCHANGED <<cursor, handlers>>
  <2>1. PassInv'
    BY <1>2 DEF IInv, PassInv, Times
  <2> QED BY <1>1, <2>1
<1>3. CASE mutex = Nobody
  <2>1. \A t \in Threads : ~Delivering(t)'
    BY <1>3, LogAssumption DEF IInv, MutexInv, Delivering
  <2>2. PassInv'
    BY <2>1 DEF PassInv
  <2> QED BY <1>1, <2>2
<1> QED BY <1>2, <1>3

\* Registration waits for mutex_, so nothing is being delivered.
LEMMA AddHandlerInv ==
    ASSUME IInv, NEW h \in Handlers, AddHandler(h)
    PROVE  IInv'
<1> USE DEF AddHandler
<1>1. TypeOK'
  BY AppendFacts DEF IInv, TypeOK
<1>2. MutexInv' /\ BatchInv'
  BY DEF IInv, MutexInv, BatchInv
<1>3. RunsInv' /\ SettledInv' /\ ExactlyOnePlace' /\ BufferBounded'
  BY PlaceKept, BoundKept
<1>4. BatchOfInv' /\ ReceivedInv' /\ ReadyInv' /\ PassInv' /\ BatchesWhole'
  <2>1. \A t \in Threads : Delivering(t)' <=> Delivering(t)
    BY DEF Delivering
  <2> QED BY <2>1, FlowKept
<1> QED BY <1>1, <1>2, <1>3, <1>4 DEF IInv

LEMMA RemoveHandlerInv ==
    ASSUME IInv, NEW h \in Handlers, RemoveHandler(h)
    PROVE  IInv'
<1> USE DEF RemoveHandler
<1>1. TypeOK'
  <2> DEFINE kept == {i \in 1..Len(handlers) : handlers[i] # h}
  <2>1. PICK f \in [1..Cardinality(kept) -> kept] :
               handlers' = [i \in DOMAIN f |-> handlers[f[i]]]
    BY DEF Picks
  <2>2. IsFiniteSet(kept)
    <3>1. IsFiniteSet(1..Len(handlers))
      BY Numbers, FS_Interval
    <3>2. kept \in SUBSET (1..Len(handlers))
      OBVIOUS
    <3> QED BY <3>1, <3>2, FS_Subset
  <2>3. Cardinality(kept) \in Nat
    BY <2>2, FS_CardinalityType
  <2>4. \A i \in 1..Cardinality(kept) : handlers[f[i]] \in Handlers
    BY <2>1, ElementOfSeq DEF IInv, TypeOK
  <2>5. handlers' \in [1..Cardinality(kept) -> Handlers]
    BY <2>1, <2>4
  <2> HIDE DEF kept
  <2>6. handlers' \in Seq(Handlers)
    BY <2>3, <2>5, FunctionIsSeq
  <2> QED BY <2>6 DEF IInv, TypeOK
<1>2. MutexInv' /\ BatchInv'
  BY DEF IInv, MutexInv, BatchInv
<1>3. RunsInv' /\ SettledInv' /\ ExactlyOnePlace' /\ BufferBounded'
  BY PlaceKept, BoundKept
<1>4. BatchOfInv' /\ ReceivedInv' /\ ReadyInv' /\ PassInv' /\ BatchesWhole'
  <2>1. \A t \in Threads : Delivering(t)' <=> Delivering(t)
    BY DEF Delivering
  <2> QED BY <2>1, FlowKept
<1> QED BY <1>1, <1>2, <1>3, <1>4 DEF IInv

LEMMA SetMaxBufferSizeInv ==
    ASSUME IInv, NEW n \in Limits, SetMaxBufferSize(n)
    PROVE  IInv'
<1> USE DEF SetMaxBufferSize
<1>1. TypeOK' /\ MutexInv' /\ BatchInv'
  BY DEF IInv, TypeOK, MutexInv, BatchInv
<1>2. RunsInv' /\ SettledInv' /\ ExactlyOnePlace' /\ BufferBounded'
  BY PlaceKept, BoundKept
<1>3. BatchOfInv' /\ ReceivedInv' /\ ReadyInv' /\ PassInv' /\ BatchesWhole'
  <2>1. \A t \in Threads : Delivering(t)' <=> Delivering(t)
    BY DEF Delivering
  <2> QED BY <2>1, FlowKept
<1> QED BY <1>1, <1>2, <1>3 DEF IInv

LEMMA CallFlushInv ==
    ASSUME IInv, NEW t \in Threads, CallFlush(t)
    PROVE  IInv'
<1> USE DEF CallFlush, Go
<1>1. TypeOK' /\ MutexInv' /\ BatchInv'
  BY DEF IInv, TypeOK, MutexInv, BatchInv
<1>2. RunsInv' /\ SettledInv' /\ ExactlyOnePlace' /\ BufferBounded'
  BY PlaceKept, BoundKept DEF IInv, TypeOK
<1>3. BatchOfInv' /\ ReceivedInv' /\ ReadyInv' /\ PassInv' /\ BatchesWhole'
  <2>1. \A u \in Threads : Delivering(u)' <=> Delivering(u)
    BY DEF IInv, TypeOK, Delivering
  <2> QED BY <2>1, FlowKept DEF IInv, TypeOK
<1> QED BY <1>1, <1>2, <1>3 DEF IInv

-----------------------------------------------------------------------------
(* Log and Flush.                                                          *)

\* The new entry is nowhere else; whoever finds the buffer full is counted.
LEMMA LogInv ==
    ASSUME IInv, NEW t \in Threads, Log(t)
    PROVE  IInv'
<1>1. PICK e \in Entries : /\ e = logged + 1 /\ buffer' = Append(buffer, e)
                           /\ buffer \in Seq(Entries)
  <2>1. logged + 1 \in Entries
    BY LogAssumption, Numbers DEF Log, Entries
  <2> QED BY <2>1 DEF Log, IInv, TypeOK
<1>2. /\ buffer' \in Seq(Entries)
      /\ Len(buffer) \in Nat /\ Len(buffer') = Len(buffer) + 1
      /\ \A i \in 1..Len(buffer) : buffer'[i] = buffer[i]
      /\ buffer'[Len(buffer) + 1] = e
      /\ SetOf(buffer') = SetOf(buffer) \cup {e}
  BY <1>1, AppendFacts
<1>3. pc' = [pc EXCEPT ![t] = IF Len(buffer') >= maxBufferSize THEN "swap" ELSE "idle"]
  BY DEF Log, Go
<1>4. TypeOK'
  BY <1>1, <1>2, <1>3 DEF Log, IInv, TypeOK, Entries
<1>5. MutexInv' /\ BatchInv'
  BY <1>3 DEF Log, IInv, TypeOK, MutexInv, BatchInv
<1>6. RunsInv'
  BY <1>1, <1>2, Numbers DEF Log, IInv, RunsInv
<1>7. SettledInv'
  BY <1>1, <1>2, Numbers DEF Log, IInv, TypeOK, SettledInv
<1>8. ExactlyOnePlace'
  <2>1. e \notin output /\ e \notin lost
    BY <1>1, Numbers DEF IInv, TypeOK, SettledInv
  <2>2. \A u \in Threads : e \notin SetOf(batch[u])
    <3> SUFFICES ASSUME NEW u \in Threads, NEW i \in 1..Len(batch[u])
                 PROVE  batch[u][i] # e
      BY DEF SetOf
    <3> QED BY <1>1, Numbers DEF IInv, RunsInv
  <2>3. \A x \in 1..logged : x # e
    BY <1>1, Numbers
  <2>4. \A x \in 1..logged' : x \in 1..logged \/ x = e
    BY <1>1, Numbers DEF Log
  <2>5. \A x \in 1..logged : Holders(x)' = Holders(x)
    BY DEF Log, Holders
  <2>6. Holders(e)' = {}
    BY <2>2 DEF Log, Holders
  <2> QED BY <1>2, <2>1, <2>3, <2>4, <2>5, <2>6 DEF Log, IInv, ExactlyOnePlace
<1>9. BufferBounded'
  <2>1. CASE Len(buffer') >= maxBufferSize
    <3>1. t \notin Flushing /\ Flushing' = Flushing \cup {t}
      BY <1>3, <2>1 DEF Log, IInv, TypeOK, Flushing
    <3>2. Cardinality(Flushing') = Cardinality(Flushing) + 1
      BY <3>1, FlushingFinite, FS_AddElement
    <3> QED BY <1>2, <3>2, Largest, FlushingFinite DEF IInv, BufferBounded
  <2>2. CASE ~(Len(buffer') >= maxBufferSize)
    <3>1. Len(buffer') < LargestLimit
      BY <1>2, <2>2, Largest DEF IInv, TypeOK
    <3> QED BY <1>2, <3>1, Largest, FlushingFinite DEF BufferBounded
  <2> QED BY <2>1, <2>2
<1>10. BatchOfInv' /\ ReceivedInv' /\ ReadyInv' /\ PassInv' /\ BatchesWhole'
  <2>1. \A u \in Threads : Delivering(u)' <=> Delivering(u)
    BY <1>3 DEF Log, IInv, TypeOK, Delivering
  <2> QED BY <1>3, <2>1, FlowKept DEF Log, IInv, TypeOK
<1> QED BY <1>4, <1>5, <1>6, <1>7, <1>8, <1>9, <1>10 DEF IInv

\* The swap moves the whole buffer, and the batch is numbered by its oldest entry.
LEMMA SwapInv ==
    ASSUME IInv, NEW t \in Threads, Swap(t)
    PROVE  IInv'
<1>1. /\ batch' = [batch EXCEPT ![t] = buffer] /\ buffer' = <<>>
      /\ pc' = [pc EXCEPT ![t] = IF buffer = <<>> THEN "idle" ELSE "ready"]
      /\ pc[t] = "swap" /\ batch[t] = <<>> /\ buffer \in Seq(Entries)
      /\ batch'[t] = buffer
      /\ \A u \in Threads : u # t => batch'[u] = batch[u] /\ pc'[u] = pc[u]
      /\ UNCHANGED <<maxBufferSize, handlers, mutex, cursor, received, logged,
                     output, lost>>
  BY DEF Swap, Go, IInv, TypeOK, BatchInv
<1>2. /\ Len(buffer') = 0 /\ SetOf(buffer') = {} /\ Len(batch[t]) = 0
      /\ buffer # <<>> => Len(buffer) \in Nat \ {0} /\ Head(buffer) = buffer[1]
                          /\ 1 \in 1..Len(buffer)
  BY <1>1, EmptyFacts, EmptySeq, TailFacts
<1>3. \A x \in SetOf(buffer) : x \in Entries /\ buffer # <<>> /\ buffer[1] <= x
                               /\ x > logged - Len(buffer)
  <2> SUFFICES ASSUME NEW i \in 1..Len(buffer)
               PROVE  /\ buffer[i] \in Entries /\ buffer # <<>>
                      /\ buffer[1] <= buffer[i] /\ buffer[i] > logged - Len(buffer)
    BY DEF SetOf
  <2>1. Len(buffer) # 0
    BY Numbers
  <2> QED BY <1>1, <1>2, <2>1, EmptyFacts, Numbers DEF IInv, RunsInv
<1>4. \A x \in Entries :
        batchOf'[x] = IF x \in SetOf(buffer) THEN buffer[1] ELSE batchOf[x]
  BY <1>2, <1>3 DEF Swap
<1>5. TypeOK'
  <2>1. batchOf' \in [Entries -> 0..MaxEntries]
    <3>1. buffer # <<>> => buffer[1] \in 0..MaxEntries
      BY <1>2, Numbers DEF Entries
    <3>2. batchOf' = [x \in Entries |->
                        IF x \in SetOf(buffer) THEN Head(buffer) ELSE batchOf[x]]
      BY DEF Swap
    <3>3. \A x \in Entries : batchOf[x] \in 0..MaxEntries
      BY DEF IInv, TypeOK
    <3> QED BY <1>2, <1>3, <3>1, <3>2, <3>3
  <2>2. batch' \in [Threads -> Seq(Entries)]
    BY <1>1 DEF IInv, TypeOK
  <2>3. pc' \in [Threads -> {"idle", "swap", "ready", "deliver"}]
    BY <1>1 DEF IInv, TypeOK
  <2> QED BY <1>1, <2>1, <2>2, <2>3, EmptySeq DEF IInv, TypeOK
<1>6. MutexInv' /\ BatchInv'
  BY <1>1 DEF IInv, TypeOK, MutexInv, BatchInv
<1>7. RunsInv' /\ SettledInv'
  <2>1. \A i \in 1..Len(buffer) :
          /\ buffer[i] = buffer[1] + (i - 1) /\ buffer[i] <= logged
    BY SMTT(60), <1>2, Numbers DEF IInv, RunsInv
  <2>2. RunsInv'
    <3> SUFFICES ASSUME NEW u \in Threads, NEW i \in 1..Len(batch'[u])
                 PROVE  /\ batch'[u][i] = batch'[u][1] + (i - 1)
                        /\ batch'[u][i] <= logged
      BY <1>1, <1>2, Numbers DEF RunsInv
    <3>1. CASE u = t
      BY <1>1, <2>1, <3>1
    <3>2. CASE u # t
      <4>1. batch'[u] = batch[u]
        BY <1>1, <3>2
      <4>2. batch[u][i] <= logged - Len(buffer) /\ batch[u][i] \in Nat
        BY <4>1, Numbers DEF IInv, RunsInv
      <4> QED BY <4>1, <4>2, Numbers DEF IInv, RunsInv
    <3> QED BY <3>1, <3>2
  <2> QED BY <1>1, <1>2, <2>2, Numbers DEF IInv, TypeOK, SettledInv
<1>8. ExactlyOnePlace'
  <2>1. \A x : t \notin Holders(x)
    BY <1>1, EmptyFacts DEF Holders
  <2>2. \A x : Holders(x)' = Holders(x) \cup (IF x \in SetOf(buffer) THEN {t} ELSE {})
    BY <1>1, <2>1 DEF Holders
  <2> QED BY <1>1, <1>2, <2>1, <2>2 DEF IInv, ExactlyOnePlace
<1>9. BufferBounded'
  BY <1>2, Largest, FlushingFinite DEF BufferBounded
<1>10. \A u \in Threads : \A i \in 1..Len(batch[u]) :
         batchOf'[batch[u][i]] = batchOf[batch[u][i]] /\ batch[u][i] \in Entries
  <2> SUFFICES ASSUME NEW u \in Threads, NEW i \in 1..Len(batch[u])
               PROVE  /\ batchOf'[batch[u][i]] = batchOf[batch[u][i]]
                      /\ batch[u][i] \in Entries
    OBVIOUS
  <2>1. batch[u][i] \in Entries /\ batch[u][i] <= logged - Len(buffer)
    BY Numbers DEF IInv, RunsInv
  <2>2. batch[u][i] \notin SetOf(buffer)
    BY <1>3, <2>1, Numbers
  <2> QED BY <1>4, <2>1, <2>2
<1>11. \A h \in Handlers : \A i \in 1..Len(received[h]) :
         /\ batchOf'[received[h][i]] = batchOf[received[h][i]]
         /\ received[h][i] \in Entries
         /\ buffer # <<>> => batchOf[received[h][i]] < buffer[1]
  <2> SUFFICES ASSUME NEW h \in Handlers, NEW i \in 1..Len(received[h])
               PROVE  /\ batchOf'[received[h][i]] = batchOf[received[h][i]]
                      /\ received[h][i] \in Entries
                      /\ buffer # <<>> => batchOf[received[h][i]] < buffer[1]
    OBVIOUS
  <2>1. received[h][i] <= logged - Len(buffer) /\ received[h][i] \in Entries
    BY ReceivedIsOld, Numbers
  <2>2. received[h][i] \notin SetOf(buffer)
    BY <1>3, <2>1, Numbers
  <2>3. batchOf[received[h][i]] <= received[h][i]
    BY <2>1 DEF IInv, BatchOfInv
  <2>4. buffer # <<>> => buffer[1] > logged - Len(buffer)
    BY <1>2, Numbers DEF IInv, RunsInv
  <2> QED BY <1>2, <1>4, <2>1, <2>2, <2>3, <2>4, Numbers
<1>12. BatchOfInv'
  <2>1. \A x \in Entries : batchOf'[x] <= x
    BY <1>3, <1>4 DEF IInv, BatchOfInv
  <2>2. buffer # <<>> => \A i \in 1..Len(buffer) : batchOf'[buffer[i]] = buffer[1]
    BY <1>4, Numbers DEF SetOf
  <2>3. \A u \in Threads : \A i \in 1..Len(batch'[u]) :
          batchOf'[batch'[u][i]] = batchOf'[batch'[u][1]]
    <3> SUFFICES ASSUME NEW u \in Threads, NEW i \in 1..Len(batch'[u])
                 PROVE  batchOf'[batch'[u][i]] = batchOf'[batch'[u][1]]
      OBVIOUS
    <3>1. CASE u = t
      BY <1>1, <1>2, <2>2, <3>1, EmptyFacts
    <3>2. CASE u # t
      <4>1. batch'[u] = batch[u] /\ 1 \in 1..Len(batch[u])
        BY <1>1, <3>2, Numbers
      <4> QED BY <1>10, <4>1 DEF IInv, BatchOfInv
    <3> QED BY <3>1, <3>2
  <2>4. ASSUME NEW u \in Threads, u # t, batch[u] # <<>>, buffer # <<>>
        PROVE  batchOf'[batch[u][1]] < batchOf'[buffer[1]]
    <3>1. 1 \in 1..Len(batch[u])
      BY <2>4, TailFacts DEF IInv, TypeOK
    <3>2. batch[u][1] <= logged - Len(buffer) /\ batch[u][1] \in Entries
      BY <3>1, Numbers DEF IInv, RunsInv
    <3>3. batchOf[batch[u][1]] <= batch[u][1]
      BY <3>2 DEF IInv, BatchOfInv
    <3>4. buffer[1] > logged - Len(buffer)
      BY <1>2, <2>4, Numbers DEF IInv, RunsInv
    <3>5. batchOf'[buffer[1]] = buffer[1] /\ batchOf'[batch[u][1]] = batchOf[batch[u][1]]
      BY <1>2, <1>10, <2>2, <2>4, <3>1
    <3> QED BY <1>2, <2>4, <3>2, <3>3, <3>4, <3>5, Numbers
  <2>5. ASSUME NEW u \in Threads, NEW v \in Threads, u # v,
               batch'[u] # <<>>, batch'[v] # <<>>
        PROVE  batchOf'[batch'[u][1]] # batchOf'[batch'[v][1]]
    <3>1. \A x \in Entries : batchOf'[x] \in Nat
      BY <1>5 DEF TypeOK
    <3>2. \A w \in Threads : batch'[w] # <<>> =>
             batch'[w][1] \in Entries /\ batchOf'[batch'[w][1]] \in Nat
      BY <1>5, <3>1, TailFacts DEF TypeOK
    <3>3. CASE u = t
      <4>1. batchOf'[batch[v][1]] < batchOf'[buffer[1]]
        BY <1>1, <2>4, <2>5, <3>3
      <4> QED BY <1>1, <2>5, <3>2, <3>3, <4>1
    <3>4. CASE v = t
      <4>1. batchOf'[batch[u][1]] < batchOf'[buffer[1]]
        BY <1>1, <2>4, <2>5, <3>4
      <4> QED BY <1>1, <2>5, <3>2, <3>4, <4>1
    <3>5. CASE u # t /\ v # t
      <4>1. 1 \in 1..Len(batch[u]) /\ 1 \in 1..Len(batch[v])
        BY <1>1, <2>5, <3>5, TailFacts DEF IInv, TypeOK
      <4> QED BY <1>1, <1>10, <2>5, <3>5, <4>1 DEF IInv, BatchOfInv
    <3> QED BY <3>3, <3>4, <3>5
  <2> QED BY <2>1, <2>3, <2>5 DEF BatchOfInv
<1>13. \A u \in Threads : Delivering(u)' <=> Delivering(u) /\ u # t
  BY <1>1 DEF Delivering, IInv, TypeOK
<1>14. ReceivedInv'
  <2>1. ~Delivering(t)
    BY <1>1 DEF Delivering
  <2> QED BY <1>1, <1>13, <2>1 DEF IInv, ReceivedInv
<1>15. ReadyInv'
  <2> SUFFICES ASSUME NEW u \in Threads, pc'[u] = "ready"
               PROVE  /\ batch'[u] # <<>>
                      /\ \A h \in Handlers : \A i \in 1..Len(received[h]) :
                           batchOf'[received[h][i]] # batchOf'[batch'[u][1]]
    BY <1>1 DEF ReadyInv
  <2>1. CASE u = t
    <3>1. buffer # <<>>
      BY <1>1, <2>1 DEF IInv, TypeOK
    <3>2. batchOf'[buffer[1]] = buffer[1] /\ buffer[1] \in Entries
      BY <1>2, <1>4, <3>1, Numbers DEF SetOf
    <3> QED BY <1>1, <1>11, <2>1, <3>1, <3>2, Numbers
  <2>2. CASE u # t
    <3>1. pc[u] = "ready" /\ batch[u] # <<>> /\ batch'[u] = batch[u]
      BY <1>1, <2>2 DEF IInv, ReadyInv
    <3>2. 1 \in 1..Len(batch[u])
      BY <3>1, TailFacts DEF IInv, TypeOK
    <3> QED BY <1>10, <1>11, <3>1, <3>2 DEF IInv, ReadyInv
  <2> QED BY <2>1, <2>2
<1>16. PassInv'
  <2> SUFFICES ASSUME NEW u \in Threads, Delivering(u), u # t
               PROVE  /\ cursor' <= Len(handlers') + 1
                      /\ \A h \in Handlers :
                           Times(batch'[u][1], received'[h])
                             = TimesIn(h, handlers', cursor' - 1)
                      /\ \A h \in Handlers : \A i, j \in 1..Len(received'[h]) :
                           i <= j /\ batchOf'[received'[h][i]] = batchOf'[batch'[u][1]] =>
                             /\ batchOf'[received'[h][j]] = batchOf'[batch'[u][1]]
                             /\ received'[h][i] <= batch'[u][1]
    BY <1>13 DEF PassInv, Times
  <2>1. batch'[u] = batch[u] /\ 1 \in 1..Len(batch[u])
    BY <1>1, TailFacts DEF IInv, TypeOK, Delivering
  <2>2. batchOf'[batch[u][1]] = batchOf[batch[u][1]]
    BY <1>10, <2>1
  <2> QED BY <1>1, <1>11, <2>1, <2>2 DEF IInv, PassInv
<1>17. BatchesWhole'
  BY SMTT(60), <1>1, <1>11 DEF IInv, BatchesWhole
<1> QED BY <1>5, <1>6, <1>7, <1>8, <1>9, <1>12, <1>14, <1>15, <1>16, <1>17 DEF IInv

\* A thread that gets mutex_ begins with the first handler, and nobody was given
\* anything of its batch.
LEMMA LockHandlersInv ==
    ASSUME IInv, NEW t \in Threads, LockHandlers(t)
    PROVE  IInv'
<1>1. /\ pc[t] = "ready" /\ mutex = Nobody /\ mutex' = t /\ cursor' = 1
      /\ pc' = [pc EXCEPT ![t] = "deliver"]
      /\ pc'[t] = "deliver" /\ \A u \in Threads : u # t => pc'[u] = pc[u]
      /\ UNCHANGED <<buffer, maxBufferSize, handlers, batch, received, logged,
                     batchOf, output, lost>>
  BY DEF LockHandlers, Go, IInv, TypeOK
<1>2. TypeOK'
  BY <1>1 DEF IInv, TypeOK
<1>3. MutexInv' /\ BatchInv'
  BY <1>1, LogAssumption DEF IInv, MutexInv, BatchInv
<1>4. RunsInv' /\ SettledInv' /\ ExactlyOnePlace' /\ BufferBounded'
  BY <1>1, PlaceKept, BoundKept
<1>5. /\ \A u \in Threads : ~Delivering(u)
      /\ \A u \in Threads : Delivering(u)' => u = t
  BY <1>1, LogAssumption DEF IInv, MutexInv, Delivering
<1>6. BatchOfInv' /\ ReceivedInv' /\ ReadyInv' /\ BatchesWhole'
  BY <1>1, <1>5 DEF IInv, BatchOfInv, ReceivedInv, ReadyInv, BatchesWhole
<1>7. PassInv'
  <2>1. 1 \in 1..Len(batch[t])
    BY <1>1, TailFacts DEF IInv, TypeOK, ReadyInv
  <2>2. \A h \in Handlers : Times(batch[t][1], received[h]) = 0
    BY <1>5, <2>1, NotReceived
  <2>3. \A h : TimesIn(h, handlers, cursor' - 1) = 0
    <3> SUFFICES ASSUME NEW h PROVE {i \in 1..(cursor' - 1) : handlers[i] = h} = {}
      BY FS_EmptySet DEF TimesIn
    <3> QED BY <1>1
  <2>4. \A h \in Handlers : \A i \in 1..Len(received[h]) :
          batchOf[received[h][i]] # batchOf[batch[t][1]]
    BY <1>1 DEF IInv, ReadyInv
  <2>5. cursor' <= Len(handlers) + 1
    BY <1>1, Numbers
  <2> QED BY <1>1, <1>5, <2>2, <2>3, <2>4, <2>5 DEF PassInv, Times
<1> QED BY <1>2, <1>3, <1>4, <1>6, <1>7 DEF IInv

\* The handler at the cursor is given the entry at the head of the batch.
LEMMA HandleInv ==
    ASSUME IInv, NEW t \in Threads, Handle(t)
    PROVE  IInv'
<1> DEFINE g == handlers[cursor]
<1>1. PICK e \in Entries : e = batch[t][1]
  BY TailFacts DEF Handle, InInnerLoop, IInv, TypeOK
<1>2. /\ pc[t] = "deliver" /\ batch[t] # <<>> /\ cursor <= Len(handlers)
      /\ cursor' = cursor + 1 /\ Delivering(t) /\ g \in Handlers
      /\ received' = [received EXCEPT ![g] = Append(received[g], e)]
      /\ UNCHANGED <<buffer, maxBufferSize, handlers, mutex, pc, batch, logged,
                     batchOf, output, lost>>
  <2>1. Head(batch[t]) = e
    BY <1>1, TailFacts DEF Handle, InInnerLoop, IInv, TypeOK
  <2>2. g \in Handlers
    BY Numbers, ElementOfSeq DEF Handle, InInnerLoop, IInv, TypeOK
  <2> QED BY <2>1, <2>2 DEF Handle, InInnerLoop, Delivering
<1> HIDE DEF g
<1>3. /\ Len(received[g]) \in Nat
      /\ received'[g] \in Seq(Entries) /\ Len(received'[g]) = Len(received[g]) + 1
      /\ \A i \in 1..Len(received[g]) : received'[g][i] = received[g][i]
      /\ received'[g][Len(received[g]) + 1] = e
      /\ \A h \in Handlers : h # g => received'[h] = received[h]
  <2>1. received[g] \in Seq(Entries) /\ received'[g] = Append(received[g], e)
    BY <1>2 DEF IInv, TypeOK
  <2>2. \A h \in Handlers : h # g => received'[h] = received[h]
    BY <1>2 DEF IInv, TypeOK
  <2> QED BY <2>1, <2>2, AppendFacts
<1>4. TypeOK'
  <2>1. received' \in [Handlers -> Seq(Entries)]
    BY <1>2, <1>3 DEF IInv, TypeOK
  <2> QED BY <1>2, <2>1 DEF IInv, TypeOK
<1>5. MutexInv' /\ BatchInv' /\ BatchOfInv'
  BY <1>2 DEF IInv, MutexInv, BatchInv, BatchOfInv
<1>6. RunsInv' /\ SettledInv' /\ ExactlyOnePlace' /\ BufferBounded'
  BY <1>2, PlaceKept, BoundKept
<1>7. /\ \A u \in Threads : Delivering(u) => u = t
      /\ \A u \in Threads : Delivering(u)' <=> Delivering(u)
  BY <1>2, OneDelivers DEF Delivering
<1>8. ReceivedInv'
  BY <1>1, <1>2, <1>3, <1>7 DEF IInv, ReceivedInv
<1>9. ReadyInv'
  <2> SUFFICES ASSUME NEW u \in Threads, pc[u] = "ready",
                      NEW h \in Handlers, NEW i \in 1..Len(received'[h])
               PROVE  batchOf[received'[h][i]] # batchOf[batch[u][1]]
    BY <1>2 DEF IInv, ReadyInv
  <2>1. CASE h = g /\ i = Len(received[g]) + 1
    BY <1>1, <1>2, <1>3, <2>1 DEF IInv, BatchOfInv, ReadyInv
  <2>2. CASE ~(h = g /\ i = Len(received[g]) + 1)
    BY <1>3, <2>2 DEF IInv, ReadyInv
  <2> QED BY <2>1, <2>2
<1>10. \A h \in Handlers : \A i \in 1..Len(received'[h]) :
         \/ i \in 1..Len(received[h]) /\ received'[h][i] = received[h][i]
         \/ h = g /\ i = Len(received[h]) + 1 /\ received'[h][i] = e
  BY <1>3
<1>11. PassInv'
  <2>1. ASSUME NEW h \in Handlers
        PROVE  Times(e, received'[h])
                 = TimesIn(h, handlers, cursor' - 1)
    <3>1. Times(e, received[h]) = TimesIn(h, handlers, cursor - 1)
      BY <1>1, <1>2 DEF IInv, PassInv
    <3>2. /\ TimesIn(h, handlers, cursor - 1) \in Nat
          /\ TimesIn(h, handlers, cursor' - 1)
               = TimesIn(h, handlers, cursor - 1)
                   + (IF g = h THEN 1 ELSE 0)
      <4>1. PICK n \in Nat : cursor = n + 1
        <5>1. cursor \in Nat \ {0}
          BY Numbers
        <5> QED BY <5>1
      <4>2. /\ TimesIn(h, handlers, n) \in Nat
            /\ TimesIn(h, handlers, n + 1)
                 = TimesIn(h, handlers, n) + (IF handlers[n + 1] = h THEN 1 ELSE 0)
        BY CountStep
      <4>3. cursor - 1 = n /\ cursor' - 1 = n + 1
        BY <1>2, <4>1
      <4> QED BY <4>1, <4>2, <4>3 DEF g
    <3>3. CASE h # g
      BY <1>3, <3>1, <3>2, <3>3
    <3>4. CASE h = g
      <4>1. TimesIn(e, received'[g], Len(received[g]) + 1)
              = TimesIn(e, received'[g], Len(received[g])) + 1
        BY <1>3, CountStep
      <4>2. TimesIn(e, received'[g], Len(received[g]))
              = TimesIn(e, received[g], Len(received[g]))
        <5>1. {i \in 1..Len(received[g]) : received'[g][i] = e}
                = {i \in 1..Len(received[g]) : received[g][i] = e}
          BY <1>3
        <5> QED BY <5>1 DEF TimesIn
      <4>3. Times(e, received'[g]) = Times(e, received[g]) + 1
        BY <1>3, <4>1, <4>2 DEF Times
      <4> QED BY <3>1, <3>2, <3>4, <4>3
    <3> QED BY <3>3, <3>4
  <2>2. ASSUME NEW h \in Handlers,
               NEW i \in 1..Len(received'[h]), NEW j \in 1..Len(received'[h]),
               i <= j, batchOf[received'[h][i]] = batchOf[e]
        PROVE  batchOf[received'[h][j]] = batchOf[e] /\ received'[h][i] <= e
    <3>1. CASE i \in 1..Len(received[h]) /\ received'[h][i] = received[h][i]
      <4>1. received[h][i] <= e
        BY <1>1, <1>2, <2>2, <3>1 DEF IInv, PassInv
      <4>2. CASE j \in 1..Len(received[h]) /\ received'[h][j] = received[h][j]
        BY <1>1, <1>2, <2>2, <3>1, <4>1, <4>2 DEF IInv, PassInv
      <4>3. CASE received'[h][j] = e
        BY <3>1, <4>1, <4>3
      <4> QED BY <1>10, <4>2, <4>3
    <3>2. CASE h = g /\ i = Len(received[h]) + 1 /\ received'[h][i] = e
      <4>1. j = i
        BY <1>3, <2>2, <3>2
      <4> QED BY <3>2, <4>1, Numbers
    <3> QED BY <1>10, <3>1, <3>2
  <2>3. cursor' <= Len(handlers) + 1
    <3>1. cursor \in Nat /\ Len(handlers) \in Nat
      BY Numbers
    <3> QED BY <1>2, <3>1
  <2> SUFFICES ASSUME NEW u \in Threads, Delivering(u)'
               PROVE  /\ cursor' <= Len(handlers') + 1
                      /\ \A h \in Handlers :
                           Times(batch'[u][1], received'[h])
                             = TimesIn(h, handlers', cursor' - 1)
                      /\ \A h \in Handlers : \A i, j \in 1..Len(received'[h]) :
                           i <= j /\ batchOf'[received'[h][i]] = batchOf'[batch'[u][1]] =>
                             /\ batchOf'[received'[h][j]] = batchOf'[batch'[u][1]]
                             /\ received'[h][i] <= batch'[u][1]
    BY DEF PassInv, Times
  <2>4. u = t /\ batch'[u][1] = e /\ handlers' = handlers /\ batchOf' = batchOf
    BY <1>1, <1>2, <1>7
  <2> QED BY <2>1, <2>2, <2>3, <2>4
<1>12. BatchesWhole'
  <2> SUFFICES ASSUME NEW h \in Handlers,
                      NEW i \in 1..Len(received'[h]), NEW j \in 1..Len(received'[h]),
                      NEW k \in 1..Len(received'[h]), i <= j, j <= k,
                      batchOf[received'[h][i]] = batchOf[received'[h][k]]
               PROVE  /\ batchOf[received'[h][j]] = batchOf[received'[h][i]]
                      /\ received'[h][i] <= received'[h][j]
    BY <1>2 DEF BatchesWhole
  <2>1. CASE k \in 1..Len(received[h]) /\ received'[h][k] = received[h][k]
    <3>1. i \in 1..Len(received[h]) /\ j \in 1..Len(received[h])
      <4>1. Len(received[h]) \in Nat
        BY Numbers
      <4>2. Len(received'[h]) \in Nat
        BY <1>3, <4>1
      <4> QED BY <2>1, <4>1, <4>2
    <3>2. received'[h][i] = received[h][i] /\ received'[h][j] = received[h][j]
      BY <1>3, <3>1
    <3> QED BY <2>1, <3>1, <3>2 DEF IInv, BatchesWhole
  <2>2. CASE h = g /\ k = Len(received[h]) + 1 /\ received'[h][k] = e
    <3>1. batchOf[received'[h][j]] = batchOf[e] /\ received'[h][i] <= e
      <4>1. Delivering(t)' /\ batch'[t][1] = e /\ batchOf' = batchOf
        BY <1>1, <1>2, <1>7
      <4>2. batchOf'[received'[h][i]] = batchOf'[batch'[t][1]]
        BY <2>2, <4>1
      <4> QED BY <1>11, <4>1, <4>2 DEF PassInv
    <3>2. CASE j \in 1..Len(received[h]) /\ received'[h][j] = received[h][j]
      <4>1. i \in 1..Len(received[h]) /\ received'[h][i] = received[h][i]
        <5>1. Len(received[h]) \in Nat
          BY Numbers
        <5>2. Len(received'[h]) \in Nat
          BY <1>3, <5>1
        <5> QED BY <1>3, <3>2, <5>1, <5>2
      <4> QED BY <2>2, <3>1, <3>2, <4>1 DEF IInv, BatchesWhole
    <3>3. CASE received'[h][j] = e
      BY <2>2, <3>1, <3>3
    <3> QED BY <1>10, <3>2, <3>3
  <2> QED BY <1>10, <2>1, <2>2
<1> QED BY <1>4, <1>5, <1>6, <1>8, <1>9, <1>11, <1>12 DEF IInv

\* The entry at the head of the batch has been given to the whole list.
LEMMA HeadIsDone ==
    ASSUME IInv, NEW t \in Threads, NextEntry(t), NEW h \in Handlers
    PROVE  Times(batch[t][1], received[h]) = Times(h, handlers)
<1>1. Delivering(t) /\ cursor > Len(handlers)
  BY DEF NextEntry, Delivering
<1>2. cursor - 1 = Len(handlers)
  BY <1>1, Numbers DEF IInv, PassInv
<1> QED BY <1>1, <1>2 DEF IInv, PassInv, Times

\* A settled entry is not given to anybody any more, and the next one of the batch
\* was given to nobody yet.
LEMMA NextEntryInv ==
    ASSUME IInv, NEW t \in Threads, NextEntry(t)
    PROVE  IInv'
<1> DEFINE b == batch[t]
<1>1. /\ b \in Seq(Entries) /\ b # <<>> /\ Len(b) \in Nat \ {0}
      /\ Tail(b) \in Seq(Entries) /\ Len(Tail(b)) = Len(b) - 1
      /\ \A i \in 1..Len(Tail(b)) : Tail(b)[i] = b[i + 1]
      /\ SetOf(b) = SetOf(Tail(b)) \cup {b[1]} /\ b[1] \in Entries
      /\ Head(b) = b[1]
  BY TailFacts DEF NextEntry, IInv, TypeOK
<1>2. /\ pc[t] = "deliver" /\ Delivering(t)
      /\ batch'[t] = Tail(b)
      /\ \A u \in Threads : u # t => batch'[u] = batch[u]
      /\ output' = output \cup {b[1]} /\ cursor' = 1
      /\ UNCHANGED <<buffer, maxBufferSize, handlers, mutex, pc, received,
                     logged, batchOf, lost>>
  BY <1>1 DEF NextEntry, Delivering, IInv, TypeOK
<1>3. TypeOK'
  <2>1. batch' \in [Threads -> Seq(Entries)]
    BY <1>1 DEF NextEntry, IInv, TypeOK
  <2>2. output' \in SUBSET Entries
    BY <1>1, <1>2 DEF IInv, TypeOK
  <2> QED BY <1>2, <2>1, <2>2 DEF IInv, TypeOK
<1> HIDE DEF b
<1>4. MutexInv' /\ BatchInv'
  BY <1>2 DEF IInv, MutexInv, BatchInv
<1>5. \A i \in 1..Len(b) : b[i] = b[1] + (i - 1) /\ b[i] <= logged - Len(buffer)
                         /\ b[i] \in Entries
  BY Numbers DEF b, IInv, RunsInv
<1>6. b[1] \notin SetOf(Tail(b))
  <2> SUFFICES ASSUME NEW i \in 1..Len(Tail(b)) PROVE Tail(b)[i] # b[1]
    BY DEF SetOf
  <2>1. i + 1 \in 1..Len(b) /\ Tail(b)[i] = b[i + 1]
    BY <1>1
  <2>2. b[i + 1] = b[1] + i
    BY <1>5, <2>1
  <2> QED BY <1>1, <2>1, <2>2, Numbers
<1>7. RunsInv'
  <2>1. ASSUME NEW u \in Threads, NEW i \in 1..Len(batch'[u])
        PROVE  /\ batch'[u][i] = batch'[u][1] + (i - 1)
               /\ batch'[u][i] <= logged - Len(buffer)
    <3>1. CASE u = t
      <4>1. /\ i \in 1..Len(Tail(b)) /\ i + 1 \in 1..Len(b) /\ 2 \in 1..Len(b)
            /\ Tail(b)[i] = b[i + 1] /\ Tail(b)[1] = b[2]
        BY <1>1, <1>2, <3>1, <2>1
      <4>2. b[i + 1] = b[1] + i /\ b[2] = b[1] + 1 /\ b[i + 1] <= logged - Len(buffer)
        BY <1>5, <4>1
      <4>3. b[1] \in Nat
        BY <1>1, Numbers
      <4>4. b[1] + i = (b[1] + 1) + (i - 1)
        BY <4>3
      <4>5. Tail(b)[i] = Tail(b)[1] + (i - 1) /\ Tail(b)[i] <= logged - Len(buffer)
        BY <4>1, <4>2, <4>4
      <4> QED BY <1>2, <3>1, <4>5
    <3>2. CASE u # t
      BY <1>2, <2>1, <3>2 DEF IInv, RunsInv
    <3> QED BY <3>1, <3>2
  <2> QED BY <1>2, <2>1 DEF IInv, RunsInv
<1>8. SettledInv'
  BY <1>1, <1>2, <1>5 DEF IInv, SettledInv
<1>9. ExactlyOnePlace'
  <2>1. /\ b[1] \notin output /\ b[1] \notin lost /\ b[1] \in SetOf(b)
        /\ \A u \in Threads : b[1] \in SetOf(batch[u]) => u = t
    BY <1>1, Unsettled DEF b, SetOf
  <2>2. b[1] \notin SetOf(buffer)
    <3>1. t \in Holders(b[1]) /\ b[1] \in 1..logged
      BY <1>1, <2>1, Unsettled DEF Holders, b
    <3> QED BY <3>1 DEF IInv, ExactlyOnePlace
  <2>3. \A x : x # b[1] => Holders(x)' = Holders(x)
    BY <1>1, <1>2 DEF Holders, b
  <2>4. \A u \in Threads : b[1] \notin SetOf(batch'[u])
    BY <1>2, <1>6, <2>1
  <2>5. PICK e : e = b[1]
    OBVIOUS
  <2>6. Holders(e)' = {}
    BY <2>4, <2>5 DEF Holders
  <2> QED BY <1>2, <2>1, <2>2, <2>3, <2>5, <2>6 DEF IInv, ExactlyOnePlace
<1>10. BufferBounded'
  BY <1>2, BoundKept
<1>11. BatchOfInv'
  <2>1. \A i \in 1..Len(b) : batchOf[b[i]] = batchOf[b[1]]
    BY DEF b, IInv, BatchOfInv
  <2>2. \A i \in 1..Len(Tail(b)) : batchOf[Tail(b)[i]] = batchOf[b[1]]
    BY <1>1, <2>1
  <2>3. Tail(b) # <<>> => batchOf[Tail(b)[1]] = batchOf[b[1]]
    <3>1. Tail(b) # <<>> => 1 \in 1..Len(Tail(b))
      BY <1>1, EmptySeq
    <3> QED BY <2>2, <3>1
  <2>4. ASSUME NEW u \in Threads, NEW i \in 1..Len(batch'[u])
        PROVE  batchOf[batch'[u][i]] = batchOf[batch'[u][1]]
    <3>1. CASE u = t
      <4>1. 1 \in 1..Len(Tail(b))
        BY <1>1, <1>2, <2>4, <3>1
      <4> QED BY <1>2, <2>2, <2>4, <3>1, <4>1
    <3>2. CASE u # t
      BY <1>2, <2>4, <3>2 DEF IInv, BatchOfInv
    <3> QED BY <3>1, <3>2
  <2>5. ASSUME NEW u \in Threads, NEW v \in Threads, u # v,
               batch'[u] # <<>>, batch'[v] # <<>>
        PROVE  batchOf[batch'[u][1]] # batchOf[batch'[v][1]]
    <3>1. \A w \in Threads : batch'[w] # <<>> =>
            batch[w] # <<>> /\ batchOf[batch'[w][1]] = batchOf[batch[w][1]]
      BY <1>1, <1>2, <2>3 DEF b
    <3> QED BY <2>5, <3>1 DEF IInv, BatchOfInv
  <2> QED BY <1>2, <2>4, <2>5 DEF IInv, BatchOfInv
<1>12. /\ \A u \in Threads : Delivering(u) => u = t
       /\ \A u \in Threads : Delivering(u)' => u = t
  BY <1>2, OneDelivers DEF Delivering
<1>13. ReceivedInv'
  BY <1>2, <1>12 DEF b, IInv, ReceivedInv
<1>14. ReadyInv'
  <2>1. \A u \in Threads : pc[u] = "ready" => u # t
    BY <1>2
  <2> QED BY <1>2, <2>1 DEF IInv, ReadyInv
<1>15. PassInv'
  <2> SUFFICES ASSUME NEW u \in Threads, Delivering(u)'
               PROVE  /\ cursor' <= Len(handlers') + 1
                      /\ \A h \in Handlers :
                           Times(batch'[u][1], received'[h])
                             = TimesIn(h, handlers', cursor' - 1)
                      /\ \A h \in Handlers : \A i, j \in 1..Len(received'[h]) :
                           i <= j /\ batchOf'[received'[h][i]] = batchOf'[batch'[u][1]] =>
                             /\ batchOf'[received'[h][j]] = batchOf'[batch'[u][1]]
                             /\ received'[h][i] <= batch'[u][1]
    BY DEF PassInv, Times
  <2>1. u = t /\ batch'[u] = Tail(b) /\ Tail(b) # <<>>
    BY <1>2, <1>12 DEF Delivering
  <2>2. 1 \in 1..Len(Tail(b)) /\ 2 \in 1..Len(b) /\ Tail(b)[1] = b[2]
    BY <1>1, <2>1, EmptySeq
  <2>3. b[2] = b[1] + 1 /\ b[1] \in Nat
    BY <1>1, <1>5, <2>2, Numbers
  <2>4. \A h \in Handlers : Times(b[2], received[h]) = 0
    <3>1. \A v \in Threads : Delivering(v) => batch[v][1] # b[2]
      BY <1>12, <2>3 DEF b
    <3> QED BY <2>2, <3>1, NotReceived DEF b
  <2>5. \A h : TimesIn(h, handlers, cursor' - 1) = 0
    <3> SUFFICES ASSUME NEW h PROVE {i \in 1..(cursor' - 1) : handlers[i] = h} = {}
      BY FS_EmptySet DEF TimesIn
    <3> QED BY <1>2
  <2>6. ASSUME NEW h \in Handlers,
               NEW i \in 1..Len(received[h]), NEW j \in 1..Len(received[h]),
               i <= j, batchOf[received[h][i]] = batchOf[b[2]]
        PROVE  batchOf[received[h][j]] = batchOf[b[2]] /\ received[h][i] <= b[2]
    <3>1. batchOf[b[2]] = batchOf[b[1]]
      BY <2>2 DEF b, IInv, BatchOfInv
    <3>2. batchOf[received[h][j]] = batchOf[b[1]] /\ received[h][i] <= b[1]
      BY <1>2, <2>6, <3>1 DEF b, IInv, PassInv
    <3> QED BY SMTT(60), <2>3, <3>1, <3>2, Numbers
  <2>7. cursor' <= Len(handlers) + 1
    BY <1>2, Numbers
  <2>8. /\ batch'[u][1] = b[2] /\ received' = received
        /\ handlers' = handlers /\ batchOf' = batchOf
    BY <1>2, <2>1, <2>2
  <2>9. \A h \in Handlers : Times(batch'[u][1], received'[h]) = 0
    BY <2>4, <2>8
  <2>10. \A h \in Handlers : TimesIn(h, handlers', cursor' - 1) = 0
    BY <2>5, <2>8
  <2>11. \A h \in Handlers : \A i, j \in 1..Len(received'[h]) :
             i <= j /\ batchOf'[received'[h][i]] = batchOf'[batch'[u][1]] =>
               /\ batchOf'[received'[h][j]] = batchOf'[batch'[u][1]]
               /\ received'[h][i] <= batch'[u][1]
    BY <2>6, <2>8
  <2> QED BY <2>7, <2>8, <2>9, <2>10, <2>11
<1>16. BatchesWhole'
  BY <1>2 DEF IInv, BatchesWhole
<1> QED BY <1>3, <1>4, <1>7, <1>8, <1>9, <1>10, <1>11, <1>13, <1>14, <1>15, <1>16
        DEF IInv

LEMMA EndDeliveryInv ==
    ASSUME IInv, NEW t \in Threads, EndDelivery(t)
    PROVE  IInv'
<1>1. /\ pc[t] = "deliver" /\ batch[t] = <<>> /\ mutex' = Nobody
      /\ pc'[t] = "idle" /\ \A u \in Threads : u # t => pc'[u] = pc[u]
      /\ UNCHANGED <<buffer, maxBufferSize, handlers, batch, cursor, received,
                     logged, batchOf, output, lost>>
  BY DEF EndDelivery, Go, IInv, TypeOK
<1>2. TypeOK'
  BY DEF EndDelivery, Go, IInv, TypeOK
<1>3. MutexInv' /\ BatchInv'
  BY <1>1, LogAssumption DEF IInv, MutexInv, BatchInv
<1>4. RunsInv' /\ SettledInv' /\ ExactlyOnePlace' /\ BufferBounded'
  BY <1>1, PlaceKept, BoundKept
<1>5. BatchOfInv' /\ ReceivedInv' /\ ReadyInv' /\ PassInv' /\ BatchesWhole'
  <2>1. \A u \in Threads : Delivering(u)' <=> Delivering(u)
    BY <1>1 DEF Delivering
  <2>2. \A u \in Threads : pc'[u] = "ready" => pc[u] = "ready"
    BY <1>1
  <2> QED BY <1>1, <2>1, <2>2, FlowKept
<1> QED BY <1>2, <1>3, <1>4, <1>5 DEF IInv

\* A batch whose handler throws is settled as a whole, and mutex_ is free.
LEMMA HandlerThrowsInv ==
    ASSUME IInv, NEW t \in Threads, HandlerThrows(t)
    PROVE  IInv'
<1>1. /\ pc[t] = "deliver" /\ batch[t] # <<>> /\ mutex' = Nobody
      /\ pc'[t] = "idle" /\ \A u \in Threads : u # t => pc'[u] = pc[u]
      /\ batch'[t] = <<>> /\ \A u \in Threads : u # t => batch'[u] = batch[u]
      /\ lost' = lost \cup SetOf(batch[t])
      /\ UNCHANGED <<buffer, maxBufferSize, handlers, cursor, received, logged,
                     batchOf, output>>
  BY DEF HandlerThrows, InInnerLoop, Go, IInv, TypeOK
<1>2. \A x \in SetOf(batch[t]) : /\ x \in Entries /\ x <= logged - Len(buffer)
                               /\ t \in Holders(x) /\ x \in 1..logged
  <2> SUFFICES ASSUME NEW i \in 1..Len(batch[t])
               PROVE  /\ batch[t][i] \in Entries /\ batch[t][i] <= logged - Len(buffer)
                      /\ t \in Holders(batch[t][i]) /\ batch[t][i] \in 1..logged
    BY DEF SetOf
  <2>1. t \in Holders(batch[t][i])
    BY DEF Holders, SetOf
  <2> QED BY <2>1, Numbers DEF IInv, RunsInv
<1>3. TypeOK'
  <2>1. batch' \in [Threads -> Seq(Entries)] /\ lost' \in SUBSET Entries
    BY <1>1, <1>2, EmptySeq DEF HandlerThrows, IInv, TypeOK
  <2> QED BY <2>1 DEF HandlerThrows, Go, IInv, TypeOK
<1>4. MutexInv' /\ BatchInv'
  BY <1>1, LogAssumption DEF IInv, MutexInv, BatchInv
<1>5. RunsInv'
  <2> SUFFICES ASSUME NEW u \in Threads, NEW i \in 1..Len(batch'[u])
               PROVE  /\ batch'[u][i] = batch'[u][1] + (i - 1)
                      /\ batch'[u][i] <= logged - Len(buffer)
    BY <1>1 DEF IInv, RunsInv
  <2>1. u # t
    BY <1>1, EmptyFacts
  <2> QED BY <1>1, <2>1 DEF IInv, RunsInv
<1>6. SettledInv'
  BY <1>1, <1>2 DEF IInv, SettledInv
<1>7. ExactlyOnePlace'
  <2>1. \A x : Holders(x)' = Holders(x) \ {t}
    BY <1>1, EmptyFacts DEF Holders
  <2>2. \A x : t \in Holders(x) <=> x \in SetOf(batch[t])
    BY DEF Holders
  <2> QED BY <1>1, <1>2, <2>1, <2>2 DEF IInv, ExactlyOnePlace
<1>8. BufferBounded'
  BY <1>1, BoundKept
<1>9. BatchOfInv'
  <2>1. \A u \in Threads : batch'[u] # <<>> => batch'[u] = batch[u]
    BY <1>1
  <2>2. \A u \in Threads : \A i \in 1..Len(batch'[u]) : batch'[u] = batch[u]
    BY <1>1, EmptyFacts
  <2> QED BY <1>1, <2>1, <2>2 DEF IInv, BatchOfInv
<1>10. /\ \A u \in Threads : Delivering(u) => u = t
       /\ \A u \in Threads : ~Delivering(u)'
  BY <1>1, OneDelivers DEF Delivering
<1>11. ReceivedInv'
  <2>1. batch[t][1] \in SetOf(batch[t])
    BY <1>1, TailFacts DEF IInv, TypeOK
  <2> QED BY <1>1, <1>10, <2>1 DEF IInv, ReceivedInv
<1>12. ReadyInv'
  BY <1>1 DEF IInv, ReadyInv
<1>13. PassInv'
  BY <1>10 DEF PassInv
<1>14. BatchesWhole'
  BY <1>1 DEF IInv, BatchesWhole
<1> QED BY <1>3, <1>4, <1>5, <1>6, <1>7, <1>8, <1>9, <1>11, <1>12, <1>13, <1>14 DEF IInv

LEMMA StutterInv == IInv /\ UNCHANGED vars => IInv'
<1> SUFFICES ASSUME IInv, UNCHANGED vars PROVE IInv'
  OBVIOUS
<1>1. TypeOK' /\ MutexInv' /\ BatchInv'
  BY DEF vars, IInv, TypeOK, MutexInv, BatchInv
<1>2. RunsInv' /\ SettledInv' /\ ExactlyOnePlace' /\ BufferBounded'
  BY PlaceKept, BoundKept DEF vars
<1>3. BatchOfInv' /\ ReceivedInv' /\ ReadyInv' /\ PassInv' /\ BatchesWhole'
  <2>1. \A u \in Threads : Delivering(u)' <=> Delivering(u)
    BY DEF vars, Delivering
  <2> QED BY <2>1, FlowKept DEF vars
<1> QED BY <1>1, <1>2, <1>3 DEF IInv

LEMMA NextInv == IInv /\ [Next]_vars => IInv'
<1> SUFFICES ASSUME IInv, [Next]_vars PROVE IInv'
  OBVIOUS
<1>1. ASSUME NEW t \in Threads, Log(t) \/ CallFlush(t) PROVE IInv'
  BY <1>1, LogInv, CallFlushInv
<1>2. ASSUME NEW t \in Threads, FlushStep(t) PROVE IInv'
  BY <1>2, SwapInv, LockHandlersInv, HandleInv, NextEntryInv, EndDeliveryInv,
     HandlerThrowsInv DEF FlushStep
<1>3. ASSUME NEW h \in Handlers, AddHandler(h) \/ RemoveHandler(h) PROVE IInv'
  BY <1>3, AddHandlerInv, RemoveHandlerInv
<1>4. ASSUME NEW n \in Limits, SetMaxBufferSize(n) PROVE IInv'
  BY <1>4, SetMaxBufferSizeInv
<1>5. CASE UNCHANGED vars
  BY <1>5, StutterInv
<1> QED BY <1>1, <1>2, <1>3, <1>4, <1>5 DEF Next

-----------------------------------------------------------------------------
\* The inductive invariant holds in every reachable state.
THEOREM Invariance == Spec => []IInv
BY InitInv, NextInv, PTL DEF Spec

\* The swap under bufferMutex_ neither drops nor doubles an entry
\* (logging.cpp:166-170).
THEOREM NothingDroppedOrDoubled == Spec => []ExactlyOnePlace
<1>1. IInv => ExactlyOnePlace
  BY DEF IInv
<1> QED BY <1>1, Invariance, PTL

\* The buffer outgrows the largest limit by no more than the threads on their way
\* to flush it (logging.cpp:149-162).
THEOREM BufferStaysBounded == Spec => []BufferBounded
<1>1. IInv => BufferBounded
  BY DEF IInv
<1> QED BY <1>1, Invariance, PTL

\* An entry that goes through the loop has been given to every handler of the list
\* as often as the list holds it, and no handler sees batches interleaved
\* (logging.cpp:176-181).
THEOREM DeliveredToAll == Spec => EveryHandlerGetsIt
<1> DEFINE Step ==
      /\ BatchesWhole'
      /\ \A e \in output' \ output : \A h \in Handlers :
            Times(e, received[h]) = Times(h, handlers)
<1>1. IInv /\ [Next]_vars => [Step]_vars
  <2> SUFFICES ASSUME IInv, Next PROVE Step
    OBVIOUS
  <2>1. BatchesWhole'
    BY NextInv DEF IInv
  <2>2. ASSUME NEW t \in Threads, NextEntry(t), NEW e \in output' \ output,
               NEW h \in Handlers
        PROVE  Times(e, received[h]) = Times(h, handlers)
    <3>1. Head(batch[t]) = batch[t][1]
      BY <2>2, TailFacts DEF NextEntry, IInv, TypeOK
    <3>2. e = batch[t][1]
      BY <2>2, <3>1 DEF NextEntry
    <3> QED BY <2>2, <3>2, HeadIsDone
  <2>3. output' = output \/ \E t \in Threads : NextEntry(t)
    BY DEF Next, FlushStep, Log, CallFlush, Swap, LockHandlers, Handle, EndDelivery,
       HandlerThrows, AddHandler, RemoveHandler, SetMaxBufferSize
  <2> QED BY <2>1, <2>2, <2>3
<1> QED BY <1>1, Invariance, PTL DEF Spec, EveryHandlerGetsIt

=============================================================================
