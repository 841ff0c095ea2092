-------------------------- MODULE RpcServerProofs ---------------------------
(***************************************************************************)
(* Proofs about RpcServer for any number of workers, clients and handlers, *)
(* any buffer and any requests.  IInv is inductive.  A connection that is  *)
(* open has exactly one worker, so a step of a worker moves one frame and  *)
(* one connection, and what others know of theirs stays: only InputBuf_ is *)
(* shared, and a recv while another worker holds a buffer it has not       *)
(* copied puts that worker's client in raced.  Who is not raced finds in   *)
(* the buffer what it received, the last of the blocks got so far; what it *)
(* has copied are the blocks before them, in order.  A recv that does not  *)
(* fill the buffer took all there was, which is why got counts whole       *)
(* buffers whenever a worker comes back to recv.                           *)
(***************************************************************************)
EXTENDS RpcServer, SequenceTheorems, WellFoundedInduction, TLAPS

-----------------------------------------------------------------------------
(* Numbers and cells.                                                      *)

LEMMA LeastNatural ==
    ASSUME NEW S \in SUBSET Nat, S # {}
    PROVE  \E n \in S : \A m \in S : n <= m
<1> DEFINE R == {ss \in Nat \X Nat : ss[1] < ss[2]}
<1>1. R = OpToRel(<, Nat)
  BY DEF OpToRel
<1>2. IsWellFoundedOn(R, Nat)
  BY <1>1, NatLessThanWellFounded
<1> HIDE DEF R
<1>3. PICK n \in S : \A m \in S : <<m, n>> \notin R
  BY <1>2, WFMin
<1>4. \A m \in S : ~(m < n)
  BY <1>3 DEF R
<1> QED BY <1>4

\* One buffer more leaves a whole number of buffers.
LEMMA OneMore ==
    ASSUME NEW b \in Nat \ {0}, NEW n \in Nat, n % b = 0
    PROVE  (n + b) % b = 0
<1>1. PICK q \in Int : n = b * q
  OBVIOUS
<1>2. n + b = b * (q + 1) /\ q + 1 \in Int
  BY <1>1
<1>3. \A k \in Int : (b * k) % b = 0
  OBVIOUS
<1> QED BY <1>2, <1>3

LEMMA Whole ==
    ASSUME NEW b \in Nat \ {0}
    PROVE  0 % b = 0
OBVIOUS

LEMMA Kinds ==
    /\ Zero \in Cells /\ Junk \in Cells
    /\ \A c \in Clients : \A j \in 1..Len(Message[c]) : <<c, j>> \in Cells
    /\ \A c, j : <<c, j>> # Junk /\ <<c, j>> # Zero
BY DEF Cells, Zero, Junk

LEMMA Ends ==
    /\ EndsText(Zero)
    /\ \A c, j : EndsText(<<c, j>>) <=> Message[c][j] = Nul
BY Kinds DEF EndsText

LEMMA Pairs ==
    ASSUME NEW c, NEW S
    PROVE  \A x : x \in {c} \X S <=> \E j \in S : x = <<c, j>>
OBVIOUS

LEMMA Sent ==
    ASSUME NEW c \in Clients
    PROVE  /\ Message[c] \in Seq(Blocks) /\ Len(Message[c]) \in Nat \ {0}
           /\ DOMAIN Message[c] = 1..Len(Message[c])
<1>1. Message[c] \in Seq(Blocks) /\ Message[c] # <<>>
  BY RpcServerAssumption
<1> QED BY <1>1, LenProperties, EmptySeq

LEMMA Frames ==
    ASSUME TypeOK, NEW w \in Workers
    PROVE  /\ frame[w].sock \in Clients \union {None} /\ frame[w].text \in Seq(Cells)
           /\ frame[w].result \in Nat /\ frame[w].result <= BufSize
           /\ frame[w].result \in 0..BufSize
           /\ frame[w].atPoll \in Nat /\ BufSize \in Nat \ {0}
BY RpcServerAssumption DEF TypeOK

LEMMA Conns ==
    ASSUME TypeOK, NEW c \in Clients
    PROVE  /\ conn[c].state \in States
           /\ conn[c].got \in Nat /\ conn[c].sent \in Nat /\ conn[c].gone \in BOOLEAN
           /\ conn[c].got <= conn[c].sent /\ conn[c].sent <= Len(Message[c])
           /\ c # None
BY RpcServerAssumption DEF TypeOK

-----------------------------------------------------------------------------
(* What is copied.                                                         *)

LEMMA Buffer ==
    ASSUME TypeOK
    PROVE  /\ inputBuf \in Seq(Cells) /\ Len(inputBuf) = BufSize + 1
           /\ DOMAIN inputBuf = 1..(BufSize + 1) /\ BufSize + 1 \in Nat
<1>1. inputBuf \in [1..(BufSize + 1) -> Cells] /\ BufSize + 1 \in Nat
  BY RpcServerAssumption DEF TypeOK
<1>2. inputBuf \in Seq(Cells)
  BY <1>1, SeqDef
<1> QED BY <1>1, <1>2, LenProperties

\* The first end of a text in the buffer.
LEMMA CStringFacts ==
    ASSUME TypeOK
    PROVE  /\ CString \in Seq(Cells)
           /\ \A n \in DOMAIN inputBuf : EndsText(inputBuf[n]) =>
                 \E first \in 1..n :
                    /\ EndsText(inputBuf[first]) /\ Len(CString) = first - 1
                    /\ \A i \in 1..(first - 1) : CString[i] = inputBuf[i]
<1> DEFINE ends == {i \in DOMAIN inputBuf : EndsText(inputBuf[i])}
           Least(i) == i \in ends /\ \A j \in ends : i <= j
           first == CHOOSE i \in ends : \A j \in ends : i <= j
<1>1. CASE ends = {}
  <2>1. CString = Append(inputBuf, Junk)
    BY <1>1 DEF CString
  <2> QED BY <1>1, <2>1, Buffer, Kinds, AppendProperties
<1>2. CASE ends # {}
  <2>1. ends \in SUBSET Nat
    BY Buffer
  <2>2. first \in ends /\ \A j \in ends : first <= j
    BY <1>2, <2>1, LeastNatural
  <2>3. CString = SubSeq(inputBuf, 1, first - 1)
    BY <1>2 DEF CString
  <2>4. first \in 1..(BufSize + 1) /\ EndsText(inputBuf[first])
    BY <2>2, Buffer
  <2> HIDE DEF first, ends
  <2>5. /\ \A i \in 1..(first - 1) : inputBuf[i] \in Cells
        /\ first - 1 \in Nat
    BY <2>4, Buffer, ElementOfSeq
  <2>6. /\ CString \in Seq(Cells) /\ Len(CString) = first - 1
        /\ \A i \in 1..(first - 1) : CString[i] = inputBuf[i]
    BY <2>3, <2>4, <2>5, SubSeqProperties
  <2>7. ASSUME NEW n \in DOMAIN inputBuf, EndsText(inputBuf[n]) PROVE first \in 1..n
    <3>1. n \in ends
      BY <2>7 DEF ends
    <3> QED BY <2>2, <2>4, <3>1, <2>7, Buffer
  <2> QED BY <2>4, <2>6, <2>7
<1> QED BY <1>1, <1>2

\* What a buffer with n blocks of c, the m + 1st and those behind it, is copied as.
LEMMA CopyFacts ==
    ASSUME TypeOK, NEW c \in Clients, NEW m \in Nat, NEW n \in 0..BufSize,
           \A i \in 1..n : inputBuf[i] = <<c, m + i>>, inputBuf[n + 1] = Zero
    PROVE  /\ Len(CString) <= n
           /\ \A i \in 1..Len(CString) : CString[i] = <<c, m + i>>
           /\ Len(CString) < n => Message[c][m + Len(CString) + 1] = Nul
<1>1. n + 1 \in DOMAIN inputBuf /\ EndsText(inputBuf[n + 1])
  <2>1. n + 1 \in 1..(BufSize + 1)
    BY RpcServerAssumption
  <2> QED BY <2>1, Buffer, Ends
<1>2. PICK first \in 1..(n + 1) :
          /\ EndsText(inputBuf[first]) /\ Len(CString) = first - 1
          /\ \A i \in 1..(first - 1) : CString[i] = inputBuf[i]
  BY <1>1, CStringFacts
<1>3. Len(CString) <= n
  BY <1>2
<1>4. ASSUME NEW i \in 1..Len(CString) PROVE CString[i] = <<c, m + i>>
  <2>1. i \in 1..n /\ i \in 1..(first - 1)
    BY <1>2
  <2> QED BY <1>2, <2>1
<1>5. ASSUME Len(CString) < n PROVE Message[c][m + Len(CString) + 1] = Nul
  <2>1. first \in 1..n /\ m + first = m + Len(CString) + 1
    BY <1>2, <1>5
  <2>2. inputBuf[first] = <<c, m + first>>
    BY <2>1
  <2> QED BY <1>2, <2>1, <2>2, Ends
<1> QED BY <1>3, <1>4, <1>5

\* What is copied goes on where the text had come to.
LEMMA Extend ==
    ASSUME NEW c \in Clients, NEW old \in Seq(Cells), NEW new \in Seq(Cells),
           NEW m \in Nat, NEW n \in Nat,
           Faithful(c, old, m), Len(new) <= n,
           \A i \in 1..Len(new) : new[i] = <<c, m + i>>,
           Len(new) < n => Message[c][m + Len(new) + 1] = Nul
    PROVE  Faithful(c, old \o new, m + n)
<1> DEFINE all == old \o new
<1>1. /\ all \in Seq(Cells) /\ Len(old) \in Nat /\ Len(new) \in Nat
      /\ Len(all) = Len(old) + Len(new) /\ DOMAIN all = 1..(Len(old) + Len(new))
      /\ DOMAIN old = 1..Len(old) /\ DOMAIN new = 1..Len(new)
  BY ConcatProperties, LenProperties
<1>2. \A i \in 1..Len(old) : all[i] = old[i]
  BY <1>1, ConcatProperties
<1>3. \A i \in 1..Len(new) : all[Len(old) + i] = <<c, m + i>>
  <2> SUFFICES ASSUME NEW i \in 1..Len(new) PROVE all[Len(old) + i] = <<c, m + i>>
    OBVIOUS
  <2>1. /\ Len(old) + i \in 1..(Len(old) + Len(new)) /\ ~(Len(old) + i <= Len(old))
        /\ (Len(old) + i) - Len(old) = i
    BY <1>1
  <2>2. all[Len(old) + i] = new[i]
    BY <2>1, ConcatProperties
  <2> QED BY <2>2
<1>4. \A k \in DOMAIN all :
          \/ k \in 1..Len(old)
          \/ \E i \in 1..Len(new) : k = Len(old) + i
  <2> SUFFICES ASSUME NEW k \in DOMAIN all, k \notin 1..Len(old)
               PROVE  \E i \in 1..Len(new) : k = Len(old) + i
    OBVIOUS
  <2>1. k - Len(old) \in 1..Len(new) /\ k = Len(old) + (k - Len(old))
    BY <1>1
  <2> QED BY <2>1
<1> HIDE DEF all
<1>5. \A i \in 1..Len(old) : \E j \in 1..m : old[i] = <<c, j>>
  <2>1. \A i \in 1..Len(old) : old[i] \in {c} \X (1..m)
    BY <1>1 DEF Faithful
  <2> SUFFICES ASSUME NEW i \in 1..Len(old) PROVE \E j \in 1..m : old[i] = <<c, j>>
    OBVIOUS
  <2> DEFINE x == old[i]
  <2>2. x \in {c} \X (1..m)
    BY <2>1
  <2> HIDE DEF x
  <2>3. \E j \in 1..m : x = <<c, j>>
    BY <2>2, Pairs
  <2> QED BY <2>3 DEF x
<1>6. ASSUME NEW k \in DOMAIN all PROVE all[k] \in {c} \X (1..(m + n))
  <2>1. CASE k \in 1..Len(old)
    <3>1. PICK j \in 1..m : all[k] = <<c, j>>
      BY <1>2, <1>5, <2>1
    <3>2. j \in 1..(m + n)
      OBVIOUS
    <3> QED BY <3>1, <3>2, Pairs
  <2>2. ASSUME NEW i \in 1..Len(new), k = Len(old) + i
        PROVE  all[k] \in {c} \X (1..(m + n))
    <3>1. m + i \in 1..(m + n)
      BY <1>1
    <3> QED BY ZenonT(60), <1>3, <2>2, <3>1, Pairs
  <2> QED BY <1>4, <2>1, <2>2
<1>7. ASSUME NEW k \in DOMAIN all, NEW l \in DOMAIN all, k < l
      PROVE  all[k][2] < all[l][2]
  <2>1. ASSUME NEW i \in 1..Len(new), l = Len(old) + i, k \in 1..Len(old)
        PROVE  all[k][2] < all[l][2]
    <3>1. PICK j \in 1..m : all[k] = <<c, j>>
      BY <1>2, <1>5, <2>1
    <3>2. all[l] = <<c, m + i>>
      BY <1>3, <2>1
    <3>3. j < m + i
      BY <1>1
    <3> QED BY <3>1, <3>2, <3>3
  <2>2. ASSUME NEW i \in 1..Len(new), NEW j \in 1..Len(new),
               l = Len(old) + i, k = Len(old) + j
        PROVE  all[k][2] < all[l][2]
    <3>1. m + j < m + i
      BY <1>1, <1>7, <2>2
    <3> QED BY <1>3, <2>2, <3>1
  <2>3. ASSUME l \in 1..Len(old) PROVE all[k][2] < all[l][2]
    <3>1. k \in 1..Len(old)
      BY <1>1, <1>7, <2>3
    <3> QED BY <1>1, <1>2, <1>7, <2>3, <3>1 DEF Faithful
  <2> QED BY <1>4, <2>1, <2>2, <2>3
<1>8. ASSUME NEW j \in 1..(m + n)
      PROVE  <<c, j>> \in ToSet(all) \/ \E k \in 1..j : Message[c][k] = Nul
  <2>1. CASE j \in 1..m
    <3>1. \/ \E i \in 1..Len(old) : old[i] = <<c, j>>
          \/ \E k \in 1..j : Message[c][k] = Nul
      BY <1>1, <2>1 DEF Faithful, ToSet
    <3>2. 1..Len(old) \subseteq DOMAIN all
      BY <1>1
    <3> QED BY <1>2, <3>1, <3>2 DEF ToSet
  <2>2. CASE j - m \in 1..Len(new)
    <3>1. Len(old) + (j - m) \in DOMAIN all /\ m + (j - m) = j
      BY <1>1, <2>2
    <3>2. all[Len(old) + (j - m)] = <<c, j>>
      BY <1>3, <2>2, <3>1
    <3> QED BY <3>1, <3>2 DEF ToSet
  <2>3. CASE j \notin 1..m /\ j - m \notin 1..Len(new)
    <3>1. Len(new) < n /\ m + Len(new) + 1 \in 1..j
      BY <1>1, <2>3
    <3> QED BY <3>1
  <2> QED BY <2>1, <2>2, <2>3
<1> QED BY <1>6, <1>7, <1>8 DEF Faithful, all

-----------------------------------------------------------------------------
(* What a step leaves alone.                                               *)

Idle == {"idle", "queued", "accept", "done"}

Reads(w) ==
    frame[w].sock # None =>
        /\ Progress(w)
        /\ frame[w].sock \notin raced => Own(w)

LEMMA Serving ==
    ASSUME IInv, NEW w \in Workers
    PROVE  /\ pc[w] \in Idle <=> frame[w].sock = None
           /\ pc[w] \in Idle => frame[w] = Free
           /\ frame[w].sock # None =>
                 /\ frame[w].sock \in Clients /\ conn[frame[w].sock].state = "open"
                 /\ \A v \in Workers : frame[v].sock = frame[w].sock => v = w
<1>1. TypeOK /\ SockInv /\ \A c \in Clients : OneWorker(c)
  BY DEF IInv, AnsweredRight
<1>2. /\ pc[w] \in Idle <=> frame[w].sock = None
      /\ pc[w] \in Idle => frame[w] = Free
  BY <1>1 DEF SockInv, Idle, Free
<1>3. frame[w].sock # None => frame[w].sock \in Clients
  BY <1>1, Frames
<1> QED BY <1>1, <1>2, <1>3 DEF OneWorker

LEMMA Unmoved ==
    ASSUME IInv, NEW w \in Workers, pc'[w] = pc[w], frame'[w] = frame[w],
           frame[w].sock # None =>
               /\ conn'[frame[w].sock].got = conn[frame[w].sock].got
               /\ conn'[frame[w].sock].sent \in Nat
               /\ conn[frame[w].sock].sent <= conn'[frame[w].sock].sent
               /\ conn[frame[w].sock].gone => conn'[frame[w].sock].gone,
           raced \subseteq raced',
           Holds(w) /\ frame[w].sock \notin raced' => inputBuf' = inputBuf
    PROVE  Reads(w)'
<1> SUFFICES ASSUME frame[w].sock # None
             PROVE  Progress(w)' /\ (frame[w].sock \notin raced' => Own(w)')
  BY DEF Reads
<1> DEFINE c == frame[w].sock
<1>1. TypeOK /\ c \in Clients /\ Progress(w) /\ (c \notin raced => Own(w))
  BY Serving DEF IInv, AnsweredRight, OwnRequest
<1>2. conn[c].got \in Nat /\ conn[c].sent \in Nat /\ frame[w].atPoll \in Nat
  BY <1>1, Conns, Frames
<1>3. (Holds(w)' <=> Holds(w)) /\ (Readable(w) => Readable(w)')
  BY <1>2 DEF Holds, Readable
<1>4. Progress(w)'
  BY <1>1, <1>2, <1>3 DEF Progress
<1>5. ASSUME c \notin raced' PROVE Own(w)'
  <2>1. Own(w) /\ (Holds(w) => inputBuf' = inputBuf) /\ (pc[w] = "append" => Holds(w))
    BY <1>1, <1>5 DEF Holds
  <2> QED BY <1>3, <2>1 DEF Own
<1> QED BY <1>4, <1>5

\* A step of w alone, on its own connection.
LEMMA Others ==
    ASSUME IInv, NEW w \in Workers,
           \A v \in Workers \ {w} : pc'[v] = pc[v] /\ frame'[v] = frame[v],
           \A c \in Clients :
               conn[c].state = "open" /\ c # frame[w].sock => conn'[c] = conn[c],
           raced \subseteq raced',
           inputBuf' = inputBuf \/ Overrun(w) \subseteq raced'
    PROVE  \A v \in Workers \ {w} : Reads(v)'
<1> SUFFICES ASSUME NEW v \in Workers \ {w} PROVE Reads(v)'
  OBVIOUS
<1>1. ASSUME frame[v].sock # None
      PROVE  /\ conn'[frame[v].sock] = conn[frame[v].sock]
             /\ conn[frame[v].sock].sent \in Nat
  <2>1. frame[v].sock \in Clients /\ conn[frame[v].sock].state = "open"
    BY <1>1, Serving
  <2>2. frame[v].sock # frame[w].sock
    BY <1>1, Serving
  <2> QED BY <2>1, <2>2, Conns DEF IInv, AnsweredRight
<1>2. ASSUME Holds(v), frame[v].sock \notin raced' PROVE inputBuf' = inputBuf
  <2>1. frame[v].sock \in Overrun(w)
    BY <1>2 DEF Overrun, Holds
  <2> QED BY <1>2, <2>1
<1> QED BY <1>1, <1>2, Unmoved

\* The answer of a connection stands, or is taken back.
LEMMA EndKept ==
    ASSUME IInv, NEW c \in Clients, raced \subseteq raced',
           answer'[c] = answer[c] \/ answer'[c] = NoAnswer,
           conn'[c].state = "leaked" => conn[c].state = "leaked"
    PROVE  RightEnd(c)'
BY DEF IInv, AnsweredRight, RightEnd, WellFormed, AsksToThrow, IsFirst, Nameless, Throws,
       NoAnswer

\* A step of the owner or of a client, of a worker that has no connection, or one
\* that ends the process.
LEMMA Quiet ==
    ASSUME IInv, TypeOK',
           frame' = frame, inputBuf' = inputBuf, closes' = closes, raced' = raced,
           \A w \in Workers : pc'[w] = pc[w] \/ (pc[w] \in Idle /\ pc'[w] \in Idle),
           \A c \in Clients : answer'[c] = answer[c] \/ answer'[c] = NoAnswer,
           \A c \in Clients :
               /\ conn'[c].got = conn[c].got /\ conn[c].sent <= conn'[c].sent
               /\ conn[c].gone => conn'[c].gone
               /\ \/ conn'[c].state = conn[c].state
                  \/ conn[c].state = "away" /\ conn'[c].state = "pending",
           (\E w \in Workers : InLoop(w)') => alive'
    PROVE  IInv'
<1>1. ASSUME NEW w \in Workers PROVE Reads(w)'
  <2>1. CASE frame[w].sock = None
    BY <2>1 DEF Reads
  <2>2. CASE frame[w].sock # None
    <3>1. pc'[w] = pc[w] /\ frame[w].sock \in Clients
      BY <2>2, Serving
    <3>2. conn'[frame[w].sock].sent \in Nat
      BY <3>1 DEF TypeOK
    <3> QED BY <3>1, <3>2, Unmoved
  <2> QED BY <2>1, <2>2
<1>2. SockInv'
  <2>1. \A w \in Workers : (pc'[w] \in Idle <=> pc[w] \in Idle)
    OBVIOUS
  <2>2. \A w \in Workers :
            IF pc'[w] \in Idle THEN frame'[w] = Free ELSE frame'[w].sock # None
    BY <2>1, Serving
  <2>3. \A c \in Clients : conn'[c].state \in {"away", "pending"} => conn'[c].got = 0
    BY DEF IInv, AnsweredRight, SockInv
  <2> QED BY <2>2, <2>3 DEF SockInv, Idle, Free
<1>3. ASSUME NEW c \in Clients PROVE OneWorker(c)' /\ RightEnd(c)'
  <2>1. OneWorker(c)
    BY DEF IInv, AnsweredRight
  <2>2. \A w \in Workers : pc[w] = "send" => pc'[w] = "send"
    BY DEF Idle
  <2> QED BY <2>1, <2>2, EndKept DEF OneWorker, NoAnswer
<1> QED BY <1>1, <1>2, <1>3 DEF IInv, OwnRequest, AnsweredRight, Reads

\* A step of w that keeps its connection.
LEMMA ServeInv ==
    ASSUME IInv, TypeOK', NEW w \in Workers, Reads(w)',
           pc[w] \notin Idle, pc'[w] \notin Idle, frame'[w].sock = frame[w].sock,
           \A v \in Workers \ {w} : pc'[v] = pc[v] /\ frame'[v] = frame[v],
           NEW c \in Clients, c = frame[w].sock,
           \A d \in Clients :
               /\ conn'[d].state = conn[d].state
               /\ d # c => conn'[d] = conn[d] /\ answer'[d] = answer[d],
           answer'[c] # NoAnswer => pc'[w] = "send", RightEnd(c)',
           closes' = closes, alive' = alive, raced \subseteq raced',
           inputBuf' = inputBuf \/ Overrun(w) \subseteq raced'
    PROVE  IInv'
<1>1. \A v \in Workers : Reads(v)'
  BY Others
<1>2. conn[c].state = "open"
  BY Serving
<1>3. SockInv'
  <2>1. \A v \in Workers :
            IF pc'[v] \in Idle THEN frame'[v] = Free ELSE frame'[v].sock # None
    BY Serving
  <2>2. \A d \in Clients : conn'[d].state \in {"away", "pending"} => conn'[d].got = 0
    BY <1>2 DEF IInv, AnsweredRight, SockInv
  <2> QED BY <2>1, <2>2 DEF SockInv, Idle, Free
<1>4. ASSUME NEW d \in Clients PROVE OneWorker(d)' /\ RightEnd(d)'
  <2>1. OneWorker(d)
    BY DEF IInv, AnsweredRight
  <2>2. \A v \in Workers : frame'[v].sock = frame[v].sock
    OBVIOUS
  <2>3. CASE d = c
    BY <2>1, <2>2, <2>3 DEF OneWorker, NoAnswer
  <2>4. CASE d # c
    <3>1. answer'[d] = answer[d] /\ RightEnd(d)'
      BY <2>4, EndKept
    <3>2. \A v \in Workers : frame[v].sock = d => pc'[v] = pc[v]
      BY <2>4
    <3> QED BY <2>1, <2>2, <3>1, <3>2 DEF OneWorker, NoAnswer
  <2> QED BY <2>3, <2>4
<1>5. (\E v \in Workers : InLoop(v)') => alive'
  <2>1. InLoop(w)
    BY Serving DEF Idle, InLoop
  <2> QED BY <2>1 DEF IInv, AnsweredRight
<1> QED BY <1>1, <1>3, <1>4, <1>5 DEF IInv, OwnRequest, AnsweredRight, Reads

\* A step of w that gives its connection up.
LEMMA GiveUpInv ==
    ASSUME IInv, NEW w \in Workers, pc[w] \notin Idle,
           NEW c \in Clients, c = frame[w].sock,
           NEW as \in {"closed", "leaked", "unlogged"}, GiveUp(w, as),
           as = "closed" => closes' = [closes EXCEPT ![c] = @ + 1],
           as # "closed" => closes' = closes,
           answer' \in [Clients -> [handler : 0..Len(Handlers), code : Nat,
                                    named : BOOLEAN]],
           \A d \in Clients : d = c \/ answer'[d] = answer[d],
           as = "closed" \/ answer'[c] = NoAnswer,
           limit' = limit, owned' = owned, alive' = alive,
           crashed' = crashed, inputBuf' = inputBuf, raced' = raced,
           RightEnd(c)'
    PROVE  IInv'
<1>1. /\ TypeOK /\ c \in Clients /\ c # None /\ conn[c].state = "open"
      /\ \A v \in Workers \ {w} : frame[v].sock # c
  BY Serving DEF IInv, AnsweredRight
<1>2. closes \in [Clients -> Nat] /\ closes[c] = 0
  BY <1>1 DEF IInv, AnsweredRight, OneWorker, TypeOK
<1>3. /\ conn' = [conn EXCEPT ![c] = Connection(as)]
      /\ frame' = [frame EXCEPT ![w] = Free] /\ pc' = [pc EXCEPT ![w] = "accept"]
  BY DEF GiveUp, Go
<1>4. /\ conn'[c].state = as /\ frame'[w] = Free /\ pc'[w] = "accept"
      /\ conn'[c] = Connection(as)
      /\ \A d \in Clients \ {c} : conn'[d] = conn[d]
      /\ \A v \in Workers \ {w} : pc'[v] = pc[v] /\ frame'[v] = frame[v]
  BY <1>1, <1>3 DEF TypeOK, Connection
<1>5. TypeOK'
  <2>1. conn' \in [Clients -> [state : States, sent : Nat, got : Nat, gone : BOOLEAN]]
    BY <1>1, <1>3 DEF TypeOK, Connection, States
  <2>2. frame' \in [Workers -> [sock : Clients \union {None}, text : Seq(Cells),
                                result : 0..BufSize, atPoll : Nat]]
    <3>1. Free \in [sock : Clients \union {None}, text : Seq(Cells),
                    result : 0..BufSize, atPoll : Nat]
      BY RpcServerAssumption, EmptySeq DEF Free
    <3> QED BY <1>1, <1>3, <3>1 DEF TypeOK
  <2>3. closes' \in [Clients -> Nat]
    <3>1. CASE as = "closed"
      BY SMTT(60), <1>2, <3>1
    <3>2. CASE as # "closed"
      BY <1>2, <3>2
    <3> QED BY <3>1, <3>2
  <2>4. ASSUME NEW d \in Clients
        PROVE  conn'[d].got <= conn'[d].sent /\ conn'[d].sent <= Len(Message[d])
    <3>1. CASE d = c
      <4>1. conn'[d].got = 0 /\ conn'[d].sent = 0 /\ Len(Message[d]) \in Nat
        BY <1>4, <3>1, Sent DEF Connection
      <4> QED BY <4>1
    <3>2. CASE d # c
      BY <1>1, <1>4, <3>2, Conns
    <3> QED BY <3>1, <3>2
  <2>5. pc' \in [Workers -> {"idle", "queued", "accept", "poll", "recv", "mark",
                             "append", "parse", "answer", "send", "done"}]
    BY <1>1, <1>3 DEF TypeOK
  <2> QED BY <1>1, <2>1, <2>2, <2>3, <2>4, <2>5 DEF TypeOK
<1>6. SockInv'
  <2>1. \A v \in Workers :
            IF pc'[v] \in Idle THEN frame'[v] = Free ELSE frame'[v].sock # None
    BY ZenonT(60), <1>4, Serving DEF Idle
  <2>2. \A d \in Clients : conn'[d].state \in {"away", "pending"} => conn'[d].got = 0
    BY ZenonT(60), <1>4 DEF IInv, AnsweredRight, SockInv
  <2> QED BY <2>1, <2>2 DEF SockInv, Idle, Free
<1>7. ASSUME NEW d \in Clients PROVE OneWorker(d)'
  <2>1. CASE d = c
    <3>1. \A v \in Workers : frame'[v].sock # c
      BY <1>1, <1>4 DEF Free
    <3>2. closes'[c] = IF as = "closed" THEN 1 ELSE 0
      <4>1. CASE as = "closed"
        BY <1>2, <4>1
      <4>2. CASE as # "closed"
        BY <1>2, <4>2
      <4> QED BY <4>1, <4>2
    <3> QED BY <1>4, <2>1, <3>1, <3>2 DEF OneWorker, NoAnswer
  <2>2. CASE d # c
    <3>1. OneWorker(d) /\ conn'[d] = conn[d] /\ answer'[d] = answer[d]
      BY <1>4, <2>2 DEF IInv, AnsweredRight
    <3>2. closes'[d] = closes[d]
      BY <1>2, <2>2
    <3>3. \A v \in Workers : frame'[v].sock = d <=> frame[v].sock = d
      BY <1>1, <1>4, <2>2, Conns DEF Free
    <3>4. \A v \in Workers : frame[v].sock = d => pc'[v] = pc[v]
      BY <1>1, <1>4, <2>2
    <3> QED BY <3>1, <3>2, <3>3, <3>4 DEF OneWorker, NoAnswer
  <2> QED BY <2>1, <2>2
<1>8. ASSUME NEW d \in Clients PROVE RightEnd(d)'
  <2>1. CASE d = c
    BY <2>1
  <2>2. CASE d # c
    BY <1>4, <2>2, EndKept
  <2> QED BY <2>1, <2>2
<1>9. (\E v \in Workers : InLoop(v)') => alive'
  <2>1. InLoop(w)
    BY DEF Idle, InLoop
  <2> QED BY <2>1 DEF IInv, AnsweredRight
<1>10. \A v \in Workers : Reads(v)'
  <2>1. Reads(w)'
    BY <1>4 DEF Reads, Free
  <2>2. \A v \in Workers \ {w} : Reads(v)'
    BY <1>4, Others
  <2> QED BY <2>1, <2>2
<1> QED BY <1>5, <1>6, <1>7, <1>8, <1>9, <1>10
        DEF IInv, OwnRequest, AnsweredRight, Reads

-----------------------------------------------------------------------------
(* Owner and clients.                                                      *)

LEMMA InitInv == Init => IInv
<1> SUFFICES ASSUME Init PROVE IInv
  OBVIOUS
<1> USE RpcServerAssumption
<1>1. TypeOK
  <2>1. Free \in [sock : Clients \union {None}, text : Seq(Cells),
                  result : 0..BufSize, atPoll : Nat]
    BY EmptySeq DEF Free
  <2>2. NoAnswer \in [handler : 0..Len(Handlers), code : Nat, named : BOOLEAN]
    BY LenProperties DEF NoAnswer
  <2>3. Connection("away") \in [state : States, sent : Nat, got : Nat, gone : BOOLEAN]
    BY DEF Connection, States
  <2>4. \A c \in Clients :
            conn[c].got <= conn[c].sent /\ conn[c].sent <= Len(Message[c])
    <3>1. \A c \in Clients : conn[c].got = 0 /\ conn[c].sent = 0
      BY DEF Init, Connection
    <3>2. \A c \in Clients : Len(Message[c]) \in Nat
      BY Sent
    <3> QED BY <3>1, <3>2
  <2>5. inputBuf \in [1..(BufSize + 1) -> Cells]
    BY Kinds DEF Init
  <2>6. /\ frame \in [Workers -> [sock : Clients \union {None}, text : Seq(Cells),
                                  result : 0..BufSize, atPoll : Nat]]
        /\ answer \in [Clients -> [handler : 0..Len(Handlers), code : Nat,
                                   named : BOOLEAN]]
        /\ conn \in [Clients -> [state : States, sent : Nat, got : Nat, gone : BOOLEAN]]
        /\ closes \in [Clients -> Nat] /\ raced \subseteq Clients
        /\ pc \in [Workers -> {"idle", "queued", "accept", "poll", "recv", "mark",
                               "append", "parse", "answer", "send", "done"}]
    BY <2>1, <2>2, <2>3 DEF Init
  <2> QED BY <2>4, <2>5, <2>6 DEF Init, TypeOK
<1>2. SockInv
  BY DEF Init, SockInv, Connection
<1>3. \A w \in Workers : frame[w].sock = None
  BY DEF Init, Free
<1>4. \A c \in Clients : OneWorker(c) /\ RightEnd(c)
  BY <1>3 DEF Init, OneWorker, RightEnd, Connection
<1>5. ~\E w \in Workers : InLoop(w)
  BY DEF Init, InLoop
<1> QED BY <1>1, <1>2, <1>3, <1>4, <1>5 DEF IInv, OwnRequest, AnsweredRight

LEMMA ListenInv ==
    ASSUME IInv, Listen
    PROVE  IInv'
<1>1. TypeOK'
  BY DEF Listen, outcome, IInv, AnsweredRight, TypeOK
<1>2. UNCHANGED <<pc, conn, frame, inputBuf, answer, closes, raced>> /\ (alive => alive')
  BY DEF Listen, outcome
<1>3. (\E w \in Workers : InLoop(w)') => alive'
  BY <1>2 DEF IInv, AnsweredRight, InLoop
<1>4. \A c \in Clients : conn[c].sent <= conn[c].sent
  BY Conns DEF IInv, AnsweredRight
<1> QED BY <1>1, <1>2, <1>3, <1>4, Quiet

LEMMA StartInv ==
    ASSUME IInv, Start
    PROVE  IInv'
<1>1. /\ \A w \in Workers : pc[w] = "idle" /\ pc'[w] = "queued"
      /\ UNCHANGED <<alive, conn, frame, inputBuf, answer, closes, raced>>
  BY DEF Start, outcome, server
<1>2. TypeOK'
  BY DEF Start, outcome, server, IInv, AnsweredRight, TypeOK
<1>3. (\E w \in Workers : InLoop(w)') => alive'
  BY <1>1 DEF InLoop
<1>4. \A c \in Clients : conn[c].sent <= conn[c].sent
  BY Conns DEF IInv, AnsweredRight
<1> QED BY <1>1, <1>2, <1>3, <1>4, Quiet DEF Idle

LEMMA DropInv ==
    ASSUME IInv, Drop
    PROVE  IInv'
<1>1. UNCHANGED <<pc, conn, frame, inputBuf, answer, closes, raced>>
  BY DEF Drop, outcome
<1>2. TypeOK'
  BY DEF Drop, outcome, IInv, AnsweredRight, TypeOK
<1>3. (\E w \in Workers : InLoop(w)') => alive'
  BY <1>1 DEF Drop, InLoop
<1>4. \A c \in Clients : conn[c].sent <= conn[c].sent
  BY Conns DEF IInv, AnsweredRight
<1> QED BY <1>1, <1>2, <1>3, <1>4, Quiet

LEMMA ClientInv ==
    ASSUME IInv, NEW c \in Clients,
           \/ Connect(c)
           \/ HangUp(c)
           \/ \E n \in 1..Len(Message[c]) : Send(c, n)
    PROVE  IInv'
<1>1. UNCHANGED <<limit, owned, alive, crashed, pc, frame, inputBuf, answer, closes,
                  raced>>
  BY DEF Connect, HangUp, Send, server, outcome
<1>2. TypeOK
  BY DEF IInv, AnsweredRight
<1>3. \E state \in States, sent \in Nat,
         gone \in BOOLEAN :
          /\ conn' = [conn EXCEPT ![c] = [state |-> state, sent |-> sent,
                                         got |-> conn[c].got, gone |-> gone]]
          /\ conn[c].sent <= sent /\ sent <= Len(Message[c])
          /\ conn[c].gone => gone
          /\ state = conn[c].state \/ (conn[c].state = "away" /\ state = "pending")
  <2>1. /\ conn[c] = [state |-> conn[c].state, sent |-> conn[c].sent,
                      got |-> conn[c].got, gone |-> conn[c].gone]
        /\ conn[c].sent <= conn[c].sent
    BY SMTT(60), <1>2, Conns DEF TypeOK
  <2>2. \A x, y, z :
          /\ [conn[c] EXCEPT !.state = x] = [state |-> x, sent |-> conn[c].sent,
                                        got |-> conn[c].got, gone |-> conn[c].gone]
          /\ [conn[c] EXCEPT !.sent = y] = [state |-> conn[c].state, sent |-> y,
                                        got |-> conn[c].got, gone |-> conn[c].gone]
          /\ [conn[c] EXCEPT !.gone = z] = [state |-> conn[c].state, gone |-> z,
                                        sent |-> conn[c].sent, got |-> conn[c].got]
    <3> DEFINE r == conn[c]
    <3>1. r = [state |-> r.state, sent |-> r.sent, got |-> r.got, gone |-> r.gone]
      BY <2>1
    <3> HIDE DEF r
    <3>2. \A x, y, z :
            /\ [r EXCEPT !.state = x] = [state |-> x, sent |-> r.sent,
                                          got |-> r.got, gone |-> r.gone]
            /\ [r EXCEPT !.sent = y] = [state |-> r.state, sent |-> y,
                                          got |-> r.got, gone |-> r.gone]
            /\ [r EXCEPT !.gone = z] = [state |-> r.state, gone |-> z,
                                          sent |-> r.sent, got |-> r.got]
      BY <3>1
    <3> QED BY <3>2 DEF r
  <2>3. CASE Connect(c)
    <3>1. /\ conn' = [conn EXCEPT ![c] = [conn[c] EXCEPT !.state = "pending"]]
          /\ conn[c].state = "away"
      BY <2>3 DEF Connect
    <3> QED BY <1>2, <2>1, <2>2, <3>1, Conns DEF States
  <2>4. CASE HangUp(c)
    <3>1. conn' = [conn EXCEPT ![c] = [conn[c] EXCEPT !.gone = TRUE]]
      BY <2>4 DEF HangUp
    <3>2. conn' = [conn EXCEPT ![c] = [state |-> conn[c].state, sent |-> conn[c].sent,
                                       got |-> conn[c].got, gone |-> TRUE]]
      BY <2>2, <3>1
    <3>3. /\ conn[c].state \in States
          /\ conn[c].sent \in Nat /\ TRUE \in BOOLEAN
          /\ conn[c].sent <= conn[c].sent /\ conn[c].sent <= Len(Message[c])
      BY <1>2, Conns
    <3> USE <3>2, <3>3
    <3> WITNESS conn[c].state \in States,
                conn[c].sent \in Nat, TRUE \in BOOLEAN
    <3> QED OBVIOUS
  <2>5. CASE \E n \in 1..Len(Message[c]) : Send(c, n)
    <3>0. PICK n \in 1..Len(Message[c]) : Send(c, n)
      BY <2>5
    <3>1. /\ conn' = [conn EXCEPT ![c] = [conn[c] EXCEPT !.sent = n]]
          /\ conn[c].sent < n
      BY <3>0 DEF Send
    <3>2. n \in Nat /\ n <= Len(Message[c]) /\ conn[c].sent <= n
      BY <1>2, <3>1, Conns, Sent
    <3> QED BY <1>2, <2>2, <3>1, <3>2, Conns
  <2> QED BY <2>3, <2>4, <2>5
<1>6. /\ conn' \in [Clients -> [state : States, sent : Nat, got : Nat, gone : BOOLEAN]]
      /\ \A d \in Clients :
             /\ conn'[d].got = conn[d].got /\ conn[d].sent <= conn'[d].sent
             /\ conn'[d].sent <= Len(Message[d])
             /\ conn[d].gone => conn'[d].gone
             /\ \/ conn'[d].state = conn[d].state
                \/ conn[d].state = "away" /\ conn'[d].state = "pending"
  <2>1. PICK state \in States, sent \in Nat,
             gone \in BOOLEAN :
          /\ conn' = [conn EXCEPT ![c] = [state |-> state, sent |-> sent,
                                         got |-> conn[c].got, gone |-> gone]]
          /\ conn[c].sent <= sent /\ sent <= Len(Message[c])
          /\ conn[c].gone => gone
          /\ state = conn[c].state \/ (conn[c].state = "away" /\ state = "pending")
    BY <1>3
  <2>2. /\ conn[c].got \in Nat
        /\ \A d \in Clients : /\ conn[d].sent <= conn[d].sent
                              /\ conn[d].sent <= Len(Message[d])
    BY <1>2, Conns
  <2>3. [state |-> state, sent |-> sent, got |-> conn[c].got, gone |-> gone]
            \in [state : States, sent : Nat, got : Nat, gone : BOOLEAN]
    BY <2>2
  <2>4. conn' \in [Clients -> [state : States, sent : Nat, got : Nat, gone : BOOLEAN]]
    BY <1>2, <2>1, <2>3 DEF TypeOK
  <2>5. /\ conn'[c] = [state |-> state, sent |-> sent, got |-> conn[c].got, gone |-> gone]
        /\ \A d \in Clients : d # c => conn'[d] = conn[d]
    BY <1>2, <2>1 DEF TypeOK
  <2> QED BY <2>1, <2>2, <2>4, <2>5
<1>4. TypeOK'
  <2>1. \A d \in Clients :
            conn'[d].got <= conn'[d].sent /\ conn'[d].sent <= Len(Message[d])
    BY <1>2, <1>6, Conns, Sent
  <2> QED BY <1>1, <1>2, <1>6, <2>1 DEF TypeOK
<1>5. (\E w \in Workers : InLoop(w)') => alive'
  BY <1>1 DEF IInv, AnsweredRight, InLoop
<1> QED BY <1>1, <1>4, <1>5, <1>6, Quiet

-----------------------------------------------------------------------------
(* Workers.                                                                *)

LEMMA AcceptFailsInv ==
    ASSUME IInv, NEW w \in Workers, AcceptFails(w)
    PROVE  IInv'
<1>1. UNCHANGED <<limit, owned, alive, pc, frame, inputBuf, conn, answer, closes, raced>>
  BY DEF AcceptFails, outcome
<1>2. TypeOK'
  BY <1>1 DEF AcceptFails, IInv, AnsweredRight, TypeOK
<1>3. (\E v \in Workers : InLoop(v)') => alive'
  BY <1>1 DEF IInv, AnsweredRight, InLoop
<1>4. \A c \in Clients : conn[c].sent <= conn[c].sent
  BY Conns DEF IInv, AnsweredRight
<1> QED BY <1>1, <1>2, <1>3, <1>4, Quiet

LEMMA BeginInv ==
    ASSUME IInv, NEW w \in Workers, Begin(w)
    PROVE  IInv'
<1>1. /\ pc[w] = "queued" /\ pc' = [pc EXCEPT ![w] = IF alive THEN "accept" ELSE "done"]
      /\ UNCHANGED <<limit, owned, alive, crashed, conn, frame, inputBuf, answer,
                     closes, raced>>
  BY DEF Begin, Go, server, outcome
<1>2. TypeOK'
  BY <1>1 DEF IInv, AnsweredRight, TypeOK
<1>3. \A v \in Workers : pc'[v] = pc[v] \/ (pc[v] \in Idle /\ pc'[v] \in Idle)
  BY <1>1 DEF IInv, AnsweredRight, TypeOK, Idle
<1>4. ASSUME NEW v \in Workers, InLoop(v)' PROVE alive'
  <2>1. CASE v = w
    BY <1>1, <1>4, <2>1 DEF IInv, AnsweredRight, TypeOK, InLoop
  <2>2. CASE v # w
    BY <1>1, <1>4, <2>2 DEF IInv, AnsweredRight, TypeOK, InLoop
  <2> QED BY <2>1, <2>2
<1>5. \A c \in Clients : conn[c].sent <= conn[c].sent
  BY Conns DEF IInv, AnsweredRight
<1> QED BY <1>1, <1>2, <1>3, <1>4, <1>5, Quiet

LEMMA AcceptInv ==
    ASSUME IInv, NEW w \in Workers, NEW c \in Clients, Accept(w, c)
    PROVE  IInv'
<1>1. TypeOK /\ pc[w] = "accept" /\ conn[c].state = "pending" /\ frame[w] = Free
  BY Serving DEF Accept, Idle, IInv, AnsweredRight
<1>2. /\ conn' = [conn EXCEPT ![c].state = "open"]
      /\ frame' = [frame EXCEPT ![w].sock = c] /\ pc' = [pc EXCEPT ![w] = "poll"]
      /\ UNCHANGED <<limit, owned, alive, crashed, inputBuf, answer, closes, raced>>
  BY DEF Accept, Go, server, outcome
<1>3. /\ conn'[c].state = "open" /\ conn'[c].got = conn[c].got
      /\ conn'[c].sent = conn[c].sent
      /\ \A d \in Clients \ {c} : conn'[d] = conn[d]
      /\ \A v \in Workers \ {w} : pc'[v] = pc[v] /\ frame'[v] = frame[v]
      /\ pc'[w] = "poll" /\ frame'[w] = [Free EXCEPT !.sock = c]
  BY <1>1, <1>2 DEF TypeOK
<1>4. TypeOK'
  <2>1. conn' \in [Clients -> [state : States, sent : Nat, got : Nat, gone : BOOLEAN]]
    BY <1>1, <1>2 DEF TypeOK, States
  <2>2. \A d \in Clients :
            conn'[d].got <= conn'[d].sent /\ conn'[d].sent <= Len(Message[d])
    <3> SUFFICES ASSUME NEW d \in Clients
                 PROVE  conn'[d].got <= conn'[d].sent /\ conn'[d].sent <= Len(Message[d])
      OBVIOUS
    <3>1. conn'[d].got = conn[d].got /\ conn'[d].sent = conn[d].sent
      <4>1. CASE d = c
        BY <1>3, <4>1
      <4>2. CASE d # c
        BY <1>3, <4>2
      <4> QED BY <4>1, <4>2
    <3> QED BY <1>1, <3>1, Conns
  <2>3. frame' \in [Workers -> [sock : Clients \union {None}, text : Seq(Cells),
                                result : 0..BufSize, atPoll : Nat]]
    BY ZenonT(60), <1>1, <1>2 DEF TypeOK
  <2>4. pc' \in [Workers -> {"idle", "queued", "accept", "poll", "recv", "mark",
                             "append", "parse", "answer", "send", "done"}]
    BY <1>1, <1>2 DEF TypeOK
  <2> QED BY <1>1, <1>2, <2>1, <2>2, <2>3, <2>4 DEF TypeOK
<1>5. conn[c].got = 0 /\ c # None /\ conn[c].sent \in Nat
  BY <1>1, Conns DEF IInv, AnsweredRight, SockInv
<1>6. SockInv'
  <2>1. \A v \in Workers :
            IF pc'[v] \in Idle THEN frame'[v] = Free ELSE frame'[v].sock # None
    BY <1>3, <1>5, Serving DEF Idle, Free
  <2>2. \A d \in Clients : conn'[d].state \in {"away", "pending"} => conn'[d].got = 0
    BY <1>3 DEF IInv, AnsweredRight, SockInv
  <2> QED BY <2>1, <2>2 DEF SockInv, Idle, Free
<1>7. \A v \in Workers : frame[v].sock # c
  BY <1>1, <1>5, Serving
<1>8. ASSUME NEW d \in Clients PROVE OneWorker(d)'
  <2>1. OneWorker(d) /\ closes' = closes /\ answer' = answer
    BY <1>2 DEF IInv, AnsweredRight
  <2>2. frame'[w].sock = c /\ \A v \in Workers \ {w} : frame'[v].sock # c
    BY <1>3, <1>7 DEF Free
  <2>3. CASE d = c
    <3>1. ~\E v \in Workers : pc[v] = "send" /\ frame[v].sock = c
      BY <1>7
    <3> QED BY ZenonT(60), <1>1, <1>3, <2>1, <2>2, <2>3, <3>1 DEF OneWorker, NoAnswer
  <2>4. CASE d # c
    <3>1. \A v \in Workers : frame'[v].sock = d <=> frame[v].sock = d
      BY <1>1, <1>3, <2>2, <2>4, Conns DEF Free
    <3>2. \A v \in Workers : frame[v].sock = d => pc'[v] = pc[v]
      BY <1>3, <2>2, <2>4, <3>1
    <3> QED BY <1>3, <2>1, <2>4, <3>1, <3>2 DEF OneWorker, NoAnswer
  <2> QED BY <2>3, <2>4
<1>9. \A d \in Clients : RightEnd(d)'
  BY <1>2, <1>3, EndKept
<1>10. (\E v \in Workers : InLoop(v)') => alive'
  <2>1. InLoop(w)
    BY <1>1 DEF InLoop
  <2> QED BY <1>2, <2>1 DEF IInv, AnsweredRight
<1>11. Reads(w)'
  <2>1. Progress(w)'
    BY <1>3, <1>5 DEF Progress, Holds, Free
  <2>2. Faithful(c, <<>>, 0)
    BY DEF Faithful
  <2>3. Own(w)'
    BY <1>3, <1>5, <2>2 DEF Own, Holds, Free
  <2> QED BY <2>1, <2>3 DEF Reads
<1>12. \A v \in Workers \ {w} : Reads(v)'
  <2>1. \A d \in Clients :
            conn[d].state = "open" /\ d # frame[w].sock => conn'[d] = conn[d]
    BY <1>1, <1>3
  <2> QED BY <1>2, <1>3, <2>1, Others
<1> QED BY <1>4, <1>6, <1>8, <1>9, <1>10, <1>11, <1>12
        DEF IInv, OwnRequest, AnsweredRight, Reads

\* What holds of every worker that serves a client.
LEMMA AtWork ==
    ASSUME IInv, NEW w \in Workers, pc[w] \notin Idle
    PROVE  /\ TypeOK /\ frame[w].sock \in Clients /\ frame[w].sock # None
           /\ conn[frame[w].sock].state = "open"
           /\ conn[frame[w].sock].got \in Nat /\ conn[frame[w].sock].sent \in Nat
           /\ conn[frame[w].sock].got <= conn[frame[w].sock].sent
           /\ Progress(w) /\ (frame[w].sock \notin raced => Own(w))
<1>1. TypeOK /\ frame[w].sock # None
  BY Serving DEF IInv, AnsweredRight
<1>2. frame[w].sock \in Clients /\ conn[frame[w].sock].state = "open"
  BY <1>1, Serving
<1> QED BY <1>1, <1>2, Conns DEF IInv, OwnRequest

LEMMA CloseInv ==
    ASSUME IInv, NEW w \in Workers, pc[w] \notin Idle, Close(w),
           limit' = limit, owned' = owned, alive' = alive, crashed' = crashed,
           inputBuf' = inputBuf, answer' = answer, raced' = raced
    PROVE  IInv'
<1>1. GiveUp(w, "closed") /\ closes' = [closes EXCEPT ![frame[w].sock] = @ + 1]
  BY DEF Close
<1>2. PICK c \in Clients : c = frame[w].sock
  BY AtWork
<1>3. TypeOK
  BY AtWork
<1>4. conn'[c].state = "closed"
  BY <1>1, <1>2, <1>3 DEF GiveUp, TypeOK, Connection
<1>5. RightEnd(c)'
  BY <1>4, EndKept
<1>6. answer' \in [Clients -> [handler : 0..Len(Handlers), code : Nat, named : BOOLEAN]]
  BY <1>3 DEF TypeOK
<1> QED BY <1>1, <1>2, <1>5, <1>6, GiveUpInv

\* An exception leaves a socket open that was not answered, or ends the process.
LEMMA FailsInv ==
    ASSUME IInv, NEW w \in Workers, pc[w] \notin Idle,
           NEW c \in Clients, c = frame[w].sock,
           NEW as \in {"leaked", "unlogged"}, Fails(w, as),
           answer' \in [Clients -> [handler : 0..Len(Handlers), code : Nat,
                                    named : BOOLEAN]],
           \A d \in Clients : d = c \/ answer'[d] = answer[d],
           answer'[c] = NoAnswer,
           as = "leaked" => (c \in raced \/ ~WellFormed(c) \/ AsksToThrow(c)),
           limit' = limit, owned' = owned, alive' = alive, inputBuf' = inputBuf,
           raced' = raced
    PROVE  IInv'
<1>1. TypeOK /\ closes' = closes
  BY DEF Fails, IInv, AnsweredRight
<1>2. CASE GiveUp(w, as) /\ UNCHANGED crashed
  <2>1. conn'[c].state = as
    BY <1>1, <1>2 DEF GiveUp, TypeOK, Connection
  <2>2. (WellFormed(c)' <=> WellFormed(c)) /\ (AsksToThrow(c)' <=> AsksToThrow(c))
    BY DEF WellFormed, AsksToThrow, IsFirst, Throws
  <2>3. RightEnd(c)'
    BY <2>1, <2>2 DEF RightEnd
  <2> QED BY <1>1, <1>2, <2>3, GiveUpInv
<1>3. CASE crashed' = TRUE /\ UNCHANGED <<pc, frame, conn>>
  <2>1. TypeOK'
    BY <1>1, <1>3 DEF TypeOK
  <2>2. (\E v \in Workers : InLoop(v)') => alive'
    BY <1>3 DEF IInv, AnsweredRight, InLoop
  <2>3. \A d \in Clients : conn[d].sent <= conn[d].sent
    BY <1>1, Conns
  <2>4. \A d \in Clients : answer'[d] = answer[d] \/ answer'[d] = NoAnswer
    OBVIOUS
  <2> QED BY <1>1, <1>3, <2>1, <2>2, <2>3, <2>4, Quiet
<1> QED BY <1>2, <1>3 DEF Fails

\* Before there is an answer.
LEMMA Unanswered ==
    ASSUME IInv, NEW w \in Workers, pc[w] \notin Idle, pc[w] # "send"
    PROVE  /\ answer \in [Clients -> [handler : 0..Len(Handlers), code : Nat,
                                       named : BOOLEAN]]
           /\ answer[frame[w].sock] = NoAnswer
<1>1. /\ TypeOK /\ frame[w].sock \in Clients /\ conn[frame[w].sock].state = "open"
      /\ OneWorker(frame[w].sock)
  BY AtWork DEF IInv, AnsweredRight
<1>2. ~\E v \in Workers : pc[v] = "send" /\ frame[v].sock = frame[w].sock
  BY <1>1 DEF OneWorker
<1> QED BY <1>1, <1>2 DEF OneWorker, TypeOK

LEMMA LogAndCloseInv ==
    ASSUME IInv, NEW w \in Workers, pc[w] \notin Idle, pc[w] # "send", LogAndClose(w),
           limit' = limit, owned' = owned, alive' = alive,
           inputBuf' = inputBuf, answer' = answer, raced' = raced
    PROVE  IInv'
<1>1. CASE Close(w) /\ UNCHANGED crashed
  BY <1>1, CloseInv
<1>2. CASE Fails(w, "unlogged")
  <2>1. PICK c \in Clients : c = frame[w].sock
    BY AtWork
  <2> QED BY <1>2, <2>1, Unanswered, FailsInv
<1> QED BY <1>1, <1>2 DEF LogAndClose

\* A step of w that goes on with its connection.
LEMMA Moves ==
    ASSUME IInv, NEW w \in Workers, pc[w] \notin Idle,
           NEW c \in Clients, c = frame[w].sock,
           NEW to \in {"poll", "recv", "mark", "append", "parse", "answer", "send"},
           pc' = [pc EXCEPT ![w] = to],
           NEW text \in Seq(Cells), NEW result \in 0..BufSize, NEW atPoll \in Nat,
           frame' = [frame EXCEPT ![w] = [sock |-> c, text |-> text,
                                          result |-> result, atPoll |-> atPoll]],
           inputBuf' \in [1..(BufSize + 1) -> Cells],
           inputBuf' = inputBuf \/ Overrun(w) \subseteq raced',
           raced \subseteq raced', raced' \subseteq Clients,
           NEW n \in Nat, n <= conn[c].sent,
           conn' = [conn EXCEPT ![c] =
                       [state |-> conn[c].state, got |-> n,
                        sent |-> conn[c].sent,
                        gone |-> conn[c].gone]],
           limit' = limit, owned' = owned, alive' = alive, crashed' = crashed,
           answer' \in [Clients -> [handler : 0..Len(Handlers), code : Nat,
                                    named : BOOLEAN]],
           \A d \in Clients : d = c \/ answer'[d] = answer[d],
           answer'[c] # NoAnswer => to = "send",
           RightEnd(c)', closes' = closes, Reads(w)'
    PROVE  IInv'
<1>1. TypeOK
  BY AtWork
<1>2. frame' \in [Workers -> [sock : Clients \union {None}, text : Seq(Cells),
                              result : 0..BufSize, atPoll : Nat]]
  <2> DEFINE R == [sock : Clients \union {None}, text : Seq(Cells),
                   result : 0..BufSize, atPoll : Nat]
  <2> DEFINE r == [sock |-> c, text |-> text, result |-> result, atPoll |-> atPoll]
  <2>1. r \in R
    OBVIOUS
  <2>2. frame \in [Workers -> R] /\ frame' = [frame EXCEPT ![w] = r]
    BY <1>1 DEF TypeOK
  <2>3. frame' \in [Workers -> R]
    <3> HIDE DEF r, R
    <3> QED BY <2>1, <2>2
  <2> QED BY <2>3
<1>3. conn' \in [Clients -> [state : States, sent : Nat, got : Nat, gone : BOOLEAN]]
  <2> DEFINE R == [state : States, sent : Nat, got : Nat, gone : BOOLEAN]
  <2> DEFINE r == [state |-> conn[c].state, got |-> n, sent |-> conn[c].sent,
                   gone |-> conn[c].gone]
  <2>1. r \in R
    BY <1>1, Conns
  <2>2. conn \in [Clients -> R] /\ conn' = [conn EXCEPT ![c] = r]
    BY <1>1 DEF TypeOK
  <2>3. conn' \in [Clients -> R]
    <3> HIDE DEF r, R
    <3> QED BY <2>1, <2>2
  <2> QED BY <2>3
<1>4. /\ frame'[w].sock = c /\ pc'[w] = to
      /\ \A v \in Workers \ {w} : pc'[v] = pc[v] /\ frame'[v] = frame[v]
      /\ \A d \in Clients : d # c => conn'[d] = conn[d]
      /\ conn'[c].state = conn[c].state /\ conn'[c].got = n
      /\ conn'[c].sent = conn[c].sent
  BY <1>1 DEF TypeOK
<1>5. \A d \in Clients :
          /\ conn'[d].state = conn[d].state
          /\ conn'[d].got <= conn'[d].sent /\ conn'[d].sent <= Len(Message[d])
  <2> SUFFICES ASSUME NEW d \in Clients
               PROVE  /\ conn'[d].state = conn[d].state
                      /\ conn'[d].got <= conn'[d].sent
                      /\ conn'[d].sent <= Len(Message[d])
    OBVIOUS
  <2>1. CASE d = c
    BY <1>1, <1>4, <2>1, Conns
  <2>2. CASE d # c
    BY <1>1, <1>4, <2>2, Conns
  <2> QED BY <2>1, <2>2
<1>6. pc' \in [Workers -> {"idle", "queued", "accept", "poll", "recv", "mark",
                           "append", "parse", "answer", "send", "done"}]
  BY <1>1 DEF TypeOK
<1>7. TypeOK'
  BY <1>1, <1>2, <1>3, <1>5, <1>6 DEF TypeOK
<1>8. to \notin Idle
  BY DEF Idle
<1> QED BY <1>4, <1>5, <1>7, <1>8, ServeInv

\* One that answers nothing.
LEMMA Alone ==
    ASSUME IInv, NEW w \in Workers, pc[w] \notin Idle, pc[w] # "send",
           NEW to \in {"poll", "recv", "mark", "append", "parse", "answer"},
           pc' = [pc EXCEPT ![w] = to],
           NEW text \in Seq(Cells), NEW result \in 0..BufSize, NEW atPoll \in Nat,
           frame' = [frame EXCEPT ![w] = [sock |-> frame[w].sock, text |-> text,
                                          result |-> result, atPoll |-> atPoll]],
           inputBuf' \in [1..(BufSize + 1) -> Cells],
           inputBuf' = inputBuf \/ Overrun(w) \subseteq raced',
           raced \subseteq raced', raced' \subseteq Clients,
           NEW n \in Nat, n <= conn[frame[w].sock].sent,
           conn' = [conn EXCEPT ![frame[w].sock] =
                       [state |-> conn[frame[w].sock].state, got |-> n,
                        sent |-> conn[frame[w].sock].sent,
                        gone |-> conn[frame[w].sock].gone]],
           limit' = limit, owned' = owned, alive' = alive, crashed' = crashed,
           answer' = answer, closes' = closes, Reads(w)'
    PROVE  IInv'
<1>1. PICK c \in Clients : c = frame[w].sock
  BY AtWork
<1>2. /\ TypeOK /\ conn[c].state = "open" /\ answer[c] = NoAnswer
      /\ answer \in [Clients -> [handler : 0..Len(Handlers), code : Nat,
                                 named : BOOLEAN]]
  BY <1>1, AtWork, Unanswered
<1>3. conn'[c].state = "open"
  BY <1>1, <1>2 DEF TypeOK
<1>4. RightEnd(c)'
  BY <1>3, EndKept
<1>5. to \in {"poll", "recv", "mark", "append", "parse", "answer", "send"}
  OBVIOUS
<1> QED BY <1>1, <1>2, <1>4, <1>5, Moves

\* A worker's frame and its connection, field by field.
LEMMA Fields ==
    ASSUME TypeOK, NEW w \in Workers, NEW c \in Clients
    PROVE  /\ frame[w] = [sock |-> frame[w].sock, text |-> frame[w].text,
                          result |-> frame[w].result, atPoll |-> frame[w].atPoll]
           /\ conn[c] = [state |-> conn[c].state, got |-> conn[c].got,
                         sent |-> conn[c].sent, gone |-> conn[c].gone]
BY DEF TypeOK

LEMMA SetFrame ==
    ASSUME TypeOK, NEW w \in Workers, NEW x
    PROVE  /\ [frame EXCEPT ![w].text = x] =
                  [frame EXCEPT ![w] = [sock |-> frame[w].sock, text |-> x,
                          result |-> frame[w].result, atPoll |-> frame[w].atPoll]]
           /\ [frame EXCEPT ![w].result = x] =
                  [frame EXCEPT ![w] = [sock |-> frame[w].sock, text |-> frame[w].text,
                          result |-> x, atPoll |-> frame[w].atPoll]]
           /\ [frame EXCEPT ![w].atPoll = x] =
                  [frame EXCEPT ![w] = [sock |-> frame[w].sock, text |-> frame[w].text,
                          result |-> frame[w].result, atPoll |-> x]]
<1> DEFINE r == frame[w]
<1>1. r = [sock |-> r.sock, text |-> r.text, result |-> r.result, atPoll |-> r.atPoll]
  BY DEF TypeOK
<1> HIDE DEF r
<1>2. /\ [r EXCEPT !.text = x] = [sock |-> r.sock, text |-> x,
                                  result |-> r.result, atPoll |-> r.atPoll]
      /\ [r EXCEPT !.result = x] = [sock |-> r.sock, text |-> r.text,
                                    result |-> x, atPoll |-> r.atPoll]
      /\ [r EXCEPT !.atPoll = x] = [sock |-> r.sock, text |-> r.text,
                                    result |-> r.result, atPoll |-> x]
  BY <1>1
<1>3. /\ [frame EXCEPT ![w].text = x] = [frame EXCEPT ![w] = [r EXCEPT !.text = x]]
      /\ [frame EXCEPT ![w].result = x] = [frame EXCEPT ![w] = [r EXCEPT !.result = x]]
      /\ [frame EXCEPT ![w].atPoll = x] = [frame EXCEPT ![w] = [r EXCEPT !.atPoll = x]]
  BY DEF r
<1> QED BY <1>2, <1>3 DEF r

LEMMA SetGot ==
    ASSUME TypeOK, NEW c \in Clients, NEW x
    PROVE  [conn EXCEPT ![c].got = x] =
               [conn EXCEPT ![c] = [state |-> conn[c].state, got |-> x,
                                    sent |-> conn[c].sent, gone |-> conn[c].gone]]
<1> DEFINE r == conn[c]
<1>1. r = [state |-> r.state, got |-> r.got, sent |-> r.sent, gone |-> r.gone]
  BY DEF TypeOK
<1> HIDE DEF r
<1>2. [r EXCEPT !.got = x] = [state |-> r.state, got |-> x, sent |-> r.sent,
                              gone |-> r.gone]
  BY <1>1
<1>3. [conn EXCEPT ![c].got = x] = [conn EXCEPT ![c] = [r EXCEPT !.got = x]]
  BY DEF r
<1> QED BY <1>2, <1>3 DEF r

LEMMA PollInv ==
    ASSUME IInv, NEW w \in Workers, Poll(w)
    PROVE  IInv'
<1>1. pc[w] = "poll" /\ pc[w] \notin Idle /\ pc[w] # "send"
  BY DEF Poll, Idle
<1>2. UNCHANGED <<limit, owned, alive, crashed, inputBuf, answer, raced>>
  BY DEF Poll, Close, GiveUp, server
<1>3. CASE ~Readable(w)
  BY <1>1, <1>2, <1>3, CloseInv DEF Poll
<1>4. CASE Readable(w)
  <2> DEFINE c == frame[w].sock
  <2>1. /\ TypeOK /\ c \in Clients /\ conn[c].got = 0 /\ frame[w].text = <<>>
        /\ conn[c].sent \in Nat
        /\ frame[w].result \in 0..BufSize /\ frame[w].text \in Seq(Cells)
    BY <1>1, AtWork, Frames DEF Progress
  <2>2. /\ frame' = [frame EXCEPT ![w].atPoll = conn[c].sent]
        /\ pc' = [pc EXCEPT ![w] = "recv"] /\ conn' = conn /\ closes' = closes
    BY <1>1, <1>4 DEF Poll, Go
  <2>3. frame' = [frame EXCEPT ![w] = [sock |-> c, text |-> frame[w].text,
                           result |-> frame[w].result, atPoll |-> conn[c].sent]]
    BY <2>1, <2>2, SetFrame
  <2>4. conn' = [conn EXCEPT ![c] = [state |-> conn[c].state, got |-> conn[c].got,
                                     sent |-> conn[c].sent, gone |-> conn[c].gone]]
    BY <2>1, <2>2, Fields DEF TypeOK
  <2>5. /\ pc'[w] = "recv" /\ frame'[w].sock = c /\ frame'[w].text = <<>>
        /\ frame'[w].atPoll = conn[c].sent /\ conn' = conn
    BY <2>1, <2>2 DEF TypeOK
  <2>6. Readable(w)'
    BY <1>4, <2>5 DEF Readable
  <2>7. Progress(w)'
    BY <2>1, <2>5, <2>6, Whole, RpcServerAssumption DEF Progress, Holds
  <2>8. Own(w)'
    <3>1. Faithful(c, <<>>, 0)
      BY DEF Faithful
    <3> QED BY <2>1, <2>5, <3>1 DEF Own, Holds
  <2>9. Reads(w)' /\ raced' \subseteq Clients
    BY <1>2, <2>1, <2>7, <2>8 DEF Reads, TypeOK
  <2>10. inputBuf' \in [1..(BufSize + 1) -> Cells]
    BY <1>2, <2>1 DEF TypeOK
  <2>11. conn[c].got \in Nat /\ conn[c].got <= conn[c].sent
    BY <2>1
  <2> HIDE DEF c
  <2> QED BY <1>1, <1>2, <2>1, <2>2, <2>3, <2>4, <2>9, <2>10, <2>11, Alone DEF c
<1> QED BY <1>3, <1>4

LEMMA RecvFailsInv ==
    ASSUME IInv, NEW w \in Workers, RecvFails(w)
    PROVE  IInv'
<1>1. /\ pc[w] \notin Idle /\ pc[w] # "send" /\ LogAndClose(w)
      /\ UNCHANGED <<limit, owned, alive, inputBuf, answer, raced>>
  BY DEF RecvFails, Idle
<1> QED BY <1>1, LogAndCloseInv

\* What is received comes to the front of the buffer, and spoils what others have
\* there.
LEMMA RecvInv ==
    ASSUME IInv, NEW w \in Workers, Recv(w)
    PROVE  IInv'
<1> DEFINE c == frame[w].sock
           got == conn[c].got
           here == conn[c].sent - got
           n == IF here < BufSize THEN here ELSE BufSize
<1>1. pc[w] = "recv" /\ pc[w] \notin Idle /\ pc[w] # "send"
  BY DEF Recv, Idle
<1>2. /\ TypeOK /\ c \in Clients /\ got \in Nat /\ conn[c].sent \in Nat
      /\ got <= conn[c].sent /\ got % BufSize = 0
      /\ frame[w].text \in Seq(Cells) /\ frame[w].atPoll \in Nat
      /\ frame[w].atPoll <= conn[c].sent /\ BufSize \in Nat \ {0}
  BY <1>1, AtWork, Frames DEF Progress
<1>3. /\ inputBuf' = [i \in DOMAIN inputBuf |->
                         IF i <= n THEN <<c, got + i>> ELSE inputBuf[i]]
      /\ conn' = [conn EXCEPT ![c].got = @ + n]
      /\ frame' = [frame EXCEPT ![w].result = n]
      /\ raced' = IF n = 0 THEN raced ELSE Overrun(w)
      /\ pc' = [pc EXCEPT ![w] = "mark"]
      /\ UNCHANGED <<limit, owned, alive, crashed, answer, closes>>
  BY DEF Recv, Go, server, outcome
<1>4. /\ n \in 0..BufSize /\ n \in Nat /\ got + n \in Nat /\ got + n <= conn[c].sent
      /\ (got + n) - n = got /\ n <= got + n
      /\ n < BufSize => got + n = conn[c].sent
  <2>1. n = IF conn[c].sent - got < BufSize THEN conn[c].sent - got ELSE BufSize
    OBVIOUS
  <2>2. PICK g, s, b \in Nat :
            g = got /\ s = conn[c].sent /\ b = BufSize /\ g <= s /\ b # 0
    BY <1>2
  <2>3. PICK m \in Nat : m = n /\ m = IF s - g < b THEN s - g ELSE b
    <3>1. (IF s - g < b THEN s - g ELSE b) \in Nat
      BY <2>2
    <3> QED BY <2>1, <2>2, <3>1
  <2>4. /\ m \in 0..b /\ g + m \in Nat /\ g + m <= s
        /\ (g + m) - m = g /\ m <= g + m
        /\ m < b => g + m = s
    <3>1. g <= s
      BY <2>2
    <3>2. m = IF s - g < b THEN s - g ELSE b
      BY <2>3
    <3> QED BY <3>1, <3>2
  <2> HIDE DEF n, got, here
  <2> QED BY <2>2, <2>3, <2>4
<1> HIDE DEF n
<1>5. frame' = [frame EXCEPT ![w] = [sock |-> c, text |-> frame[w].text,
                                     result |-> n, atPoll |-> frame[w].atPoll]]
  BY <1>2, <1>3, SetFrame
<1>6. conn' = [conn EXCEPT ![c] = [state |-> conn[c].state, got |-> got + n,
                                   sent |-> conn[c].sent, gone |-> conn[c].gone]]
  <2>1. conn' = [conn EXCEPT ![c].got = got + n]
    BY <1>3
  <2> QED BY <1>2, <2>1, SetGot
<1>7. /\ frame'[w].sock = c /\ frame'[w].text = frame[w].text /\ frame'[w].result = n
      /\ frame'[w].atPoll = frame[w].atPoll /\ pc'[w] = "mark"
      /\ conn'[c].got = got + n /\ conn'[c].sent = conn[c].sent
  BY <1>2, <1>3, <1>5, <1>6 DEF TypeOK
<1>8. /\ raced \subseteq raced' /\ raced' \subseteq Clients
      /\ inputBuf' = inputBuf \/ Overrun(w) \subseteq raced'
  <2>1. raced \subseteq Overrun(w) /\ Overrun(w) \subseteq Clients
    <3>1. \A v \in Workers : pc[v] \in {"mark", "append"} => frame[v].sock \in Clients
      BY AtWork DEF Idle
    <3> QED BY <1>2, <3>1 DEF Overrun, TypeOK
  <2>2. n = 0 => inputBuf' = inputBuf
    BY <1>2, <1>3, Buffer DEF TypeOK
  <2> QED BY <1>2, <1>3, <2>1, <2>2 DEF TypeOK
<1>9. inputBuf' \in [1..(BufSize + 1) -> Cells]
  <2>1. \A i \in 1..n : got + i \in 1..Len(Message[c])
    <3>1. conn[c].sent <= Len(Message[c]) /\ Len(Message[c]) \in Nat
      BY <1>2, Conns, Sent
    <3>2. PICK g, s, l \in Nat : g = got /\ s = conn[c].sent /\ l = Len(Message[c])
      BY <1>2, <3>1
    <3>3. g + n <= s /\ s <= l /\ n \in Nat
      BY <1>4, <3>1, <3>2
    <3>4. \A i \in 1..n : g + i \in 1..l
      BY <3>3
    <3> QED BY <3>2, <3>4
  <2>2. \A i \in 1..(BufSize + 1) : i <= n => i \in 1..n
    BY <1>4
  <2> QED BY <1>2, <1>3, <2>1, <2>2, Kinds, Buffer DEF TypeOK
<1>10. Progress(w)'
  BY <1>2, <1>4, <1>7 DEF Progress, Holds
<1>11. ASSUME c \notin raced PROVE Own(w)'
  <2>1. Faithful(c, frame[w].text, got)
    BY <1>1, <1>11, AtWork DEF Own, Holds
  <2>2. \A i \in 1..n : inputBuf'[i] = <<c, got + i>>
    <3>1. \A i \in 1..n : i \in DOMAIN inputBuf /\ i <= n
      BY <1>2, <1>4, Buffer
    <3> QED BY <1>3, <3>1
  <2> QED BY <1>4, <1>7, <2>1, <2>2 DEF Own, Holds
<1>12. Reads(w)'
  BY <1>7, <1>8, <1>10, <1>11 DEF Reads
<1> HIDE DEF c, got, here
<1> QED BY ZenonT(60), <1>1, <1>2, <1>3, <1>4, <1>5, <1>6, <1>8, <1>9, <1>12, Alone
        DEF c, got

\* The end of what was received; what others have in the buffer is cut short.
LEMMA MarkInv ==
    ASSUME IInv, NEW w \in Workers, Mark(w)
    PROVE  IInv'
<1> DEFINE c == frame[w].sock
           n == frame[w].result
<1>1. pc[w] = "mark" /\ pc[w] \notin Idle /\ pc[w] # "send" /\ Holds(w)
  BY DEF Mark, Idle, Holds
<1>2. /\ TypeOK /\ c \in Clients /\ conn[c].got \in Nat /\ conn[c].sent \in Nat
      /\ conn[c].got <= conn[c].sent /\ frame[w].text \in Seq(Cells)
      /\ frame[w].atPoll \in Nat /\ n \in 0..BufSize /\ BufSize \in Nat \ {0}
      /\ Progress(w)
  BY <1>1, AtWork, Frames
<1>3. /\ inputBuf' = [inputBuf EXCEPT ![n + 1] = Zero] /\ raced' = Overrun(w)
      /\ pc' = [pc EXCEPT ![w] = "append"] /\ frame' = frame /\ conn' = conn
      /\ UNCHANGED <<limit, owned, alive, crashed, answer, closes>>
  BY DEF Mark, Go, server, outcome
<1>4. n + 1 \in 1..(BufSize + 1) /\ \A i \in 1..n : i # n + 1 /\ i \in 1..(BufSize + 1)
  BY <1>2
<1>5. inputBuf' \in [1..(BufSize + 1) -> Cells]
  BY <1>2, <1>3, Kinds DEF TypeOK
<1>6. raced \subseteq raced' /\ raced' \subseteq Clients
  <2>1. \A v \in Workers : pc[v] \in {"mark", "append"} => frame[v].sock \in Clients
    BY AtWork DEF Idle
  <2> QED BY <1>2, <1>3, <2>1 DEF Overrun, TypeOK
<1>7. pc'[w] = "append"
  BY <1>2, <1>3 DEF TypeOK
<1>8. Progress(w)'
  BY <1>1, <1>2, <1>3, <1>7 DEF Progress, Holds
<1>9. ASSUME c \notin raced PROVE Own(w)'
  <2>1. Own(w)
    BY <1>1, <1>9, AtWork
  <2>2. inputBuf'[n + 1] = Zero /\ \A i \in 1..n : inputBuf'[i] = inputBuf[i]
    BY <1>2, <1>3, <1>4 DEF TypeOK
  <2> QED BY <1>1, <1>3, <1>7, <2>1, <2>2 DEF Own, Holds
<1>10. Reads(w)'
  BY <1>3, <1>6, <1>8, <1>9 DEF Reads
<1>11. /\ frame' = [frame EXCEPT ![w] = [sock |-> c, text |-> frame[w].text,
                                        result |-> n, atPoll |-> frame[w].atPoll]]
       /\ conn' = [conn EXCEPT ![c] = [state |-> conn[c].state, got |-> conn[c].got,
                                       sent |-> conn[c].sent, gone |-> conn[c].gone]]
  BY ZenonT(60), <1>2, <1>3, Fields DEF TypeOK
<1>12. inputBuf' = inputBuf \/ Overrun(w) \subseteq raced'
  BY <1>3
<1> HIDE DEF c, n
<1> QED BY <1>1, <1>2, <1>3, <1>5, <1>6, <1>10, <1>11, <1>12, Alone DEF c

\* The text goes on with what was received, if it is still there.
LEMMA CopyInv ==
    ASSUME IInv, NEW w \in Workers, CopyText(w)
    PROVE  IInv'
<1> DEFINE c == frame[w].sock
           n == frame[w].result
           got == conn[c].got
           old == frame[w].text
           to == IF n >= BufSize THEN "recv" ELSE "parse"
<1>1. pc[w] = "append" /\ pc[w] \notin Idle /\ pc[w] # "send" /\ Holds(w)
  BY DEF CopyText, Idle, Holds
<1>2. /\ TypeOK /\ c \in Clients /\ got \in Nat /\ conn[c].sent \in Nat
      /\ got <= conn[c].sent /\ old \in Seq(Cells)
      /\ frame[w].atPoll \in Nat /\ n \in 0..BufSize /\ BufSize \in Nat \ {0}
      /\ frame[w].atPoll <= conn[c].sent
      /\ n <= got /\ (got - n) % BufSize = 0 /\ (n < BufSize => got >= frame[w].atPoll)
  BY <1>1, AtWork, Frames DEF Progress
<1>3. UNCHANGED <<limit, owned, alive, inputBuf, answer, raced>>
  BY DEF CopyText
<1>4. CASE n = 0
  <2>1. LogAndClose(w)
    BY <1>4 DEF CopyText
  <2> QED BY <1>1, <1>3, <2>1, LogAndCloseInv
<1>5. CASE n > 0
  <2>1. /\ frame' = [frame EXCEPT ![w].text = old \o CString]
        /\ pc' = [pc EXCEPT ![w] = to] /\ conn' = conn /\ closes' = closes
        /\ crashed' = crashed
    BY <1>2, <1>5 DEF CopyText, Go
  <2>2. CString \in Seq(Cells) /\ old \o CString \in Seq(Cells)
    BY <1>2, CStringFacts, ConcatProperties
  <2>3. /\ frame' = [frame EXCEPT ![w] = [sock |-> c, text |-> old \o CString,
                                          result |-> n, atPoll |-> frame[w].atPoll]]
        /\ conn' = [conn EXCEPT ![c] = [state |-> conn[c].state, got |-> got,
                                        sent |-> conn[c].sent, gone |-> conn[c].gone]]
    <3>1. frame' = [frame EXCEPT ![w] = [sock |-> c, text |-> old \o CString,
                                         result |-> n, atPoll |-> frame[w].atPoll]]
      BY <1>2, <2>1, SetFrame
    <3>2. conn' = [conn EXCEPT ![c] = [state |-> conn[c].state, got |-> got,
                                       sent |-> conn[c].sent, gone |-> conn[c].gone]]
      BY <1>2, <2>1, Fields DEF TypeOK
    <3> QED BY <3>1, <3>2
  <2>4. /\ pc'[w] = to /\ frame'[w].sock = c /\ frame'[w].text = old \o CString
        /\ frame'[w].atPoll = frame[w].atPoll
    BY <1>2, <2>1, <2>3 DEF TypeOK
  <2>5. to \in {"recv", "parse"} /\ (to = "parse" => n < BufSize)
    BY <1>2
  <2>6. to = "recv" => n = BufSize /\ got % BufSize = 0
    <3> SUFFICES ASSUME to = "recv" PROVE n = BufSize /\ got % BufSize = 0
      OBVIOUS
    <3>1. n = BufSize
      <4>1. n \in Nat /\ n <= BufSize /\ BufSize \in Nat
        BY <1>2
      <4>2. n >= BufSize
        OBVIOUS
      <4> QED BY <4>1, <4>2
    <3>2. got - n \in Nat /\ got = (got - n) + BufSize
      <4>1. PICK g, b \in Nat : g = got /\ b = BufSize /\ b <= g
        BY <1>2, <3>1
      <4>2. g - b \in Nat /\ g = (g - b) + b
        BY <4>1
      <4> QED BY <3>1, <4>1, <4>2
    <3> QED BY <1>2, <3>1, <3>2, OneMore
  <2> HIDE DEF to
  <2>7. Progress(w)'
    BY <1>2, <1>5, <2>1, <2>4, <2>5, <2>6 DEF Progress, Holds
  <2>8. ASSUME c \notin raced PROVE Own(w)'
    <3>1. /\ Faithful(c, old, got - n) /\ inputBuf[n + 1] = Zero
          /\ \A i \in 1..n : inputBuf[i] = <<c, (got - n) + i>>
      BY <1>1, <2>8, AtWork DEF Own
    <3>2. got - n \in Nat /\ (got - n) + n = got /\ n \in Nat
      BY <1>2
    <3> DEFINE m == got - n
    <3> HIDE DEF m, n, got, c, old
    <3>3. /\ Len(CString) <= n
          /\ \A i \in 1..Len(CString) : CString[i] = <<c, m + i>>
          /\ Len(CString) < n => Message[c][m + Len(CString) + 1] = Nul
      BY <1>2, <3>1, <3>2, CopyFacts DEF m
    <3>4. Faithful(c, old \o CString, m + n)
      BY <1>2, <2>2, <3>1, <3>2, <3>3, Extend DEF m
    <3>5. Faithful(c, old \o CString, got)
      BY <3>2, <3>4 DEF m
    <3> QED BY <2>1, <2>4, <2>5, <3>5 DEF Own, Holds, got, c, old
  <2>9. Reads(w)'
    BY <1>3, <2>4, <2>7, <2>8 DEF Reads
  <2>10. inputBuf' \in [1..(BufSize + 1) -> Cells] /\ raced' \subseteq Clients
    BY <1>2, <1>3 DEF TypeOK
  <2> HIDE DEF c, n, got, old
  <2>11. to \in {"poll", "recv", "mark", "append", "parse", "answer"}
    BY <2>5
  <2>12. /\ n \in 0..BufSize /\ frame[w].atPoll \in Nat
         /\ got \in Nat /\ got <= conn[c].sent
    BY <1>2
  <2>13. /\ pc' = [pc EXCEPT ![w] = to]
         /\ inputBuf' = inputBuf \/ Overrun(w) \subseteq raced'
         /\ raced \subseteq raced' /\ limit' = limit /\ owned' = owned
         /\ alive' = alive /\ crashed' = crashed /\ answer' = answer /\ closes' = closes
    BY <1>3, <2>1
  <2> QED BY <1>1, <2>2, <2>3, <2>9, <2>10, <2>11, <2>12, <2>13, Alone DEF c, got
<1> QED BY <1>2, <1>4, <1>5

\* A request that nobody overwrote begins with the line its client sent, and has
\* nothing in it that was not sent.
LEMMA Understood ==
    ASSUME IInv, NEW w \in Workers, pc[w] \in {"parse", "answer"},
           NEW c \in Clients, c = frame[w].sock, c \notin raced
    PROVE  /\ Message[c][1] \in DOMAIN Lines =>
                  HasLine(Request(w)) /\ Head(Request(w)) = Message[c][1]
           /\ BadLength \in ToSet(Request(w)) => BadLength \in ToSet(Message[c])
<1> DEFINE text == frame[w].text
           got == conn[c].got
           request == Request(w)
<1>1. /\ text \in Seq(Cells) /\ Faithful(c, text, got) /\ got \in Nat /\ got > 0
      /\ got <= Len(Message[c]) /\ Len(Message[c]) \in Nat
      /\ DOMAIN Message[c] = 1..Len(Message[c])
  <2>1. pc[w] \notin Idle /\ ~Holds(w)
    BY DEF Idle, Holds
  <2>2. TypeOK /\ Progress(w) /\ Own(w) /\ got \in Nat /\ conn[c].sent \in Nat
        /\ got <= conn[c].sent
    BY <2>1, AtWork
  <2>3. conn[c].sent <= Len(Message[c]) /\ Len(Message[c]) \in Nat
    BY <2>2, Conns, Sent
  <2> QED BY <2>1, <2>2, <2>3, Frames, Sent DEF Progress, Own
<1>2. Len(text) \in Nat /\ DOMAIN text = 1..Len(text)
  BY <1>1, LenProperties
<1> HIDE DEF text, got
<1>3. ASSUME NEW i \in DOMAIN text PROVE \E j \in 1..got : text[i] = <<c, j>>
  <2> DEFINE x == text[i]
  <2>1. x \in {c} \X (1..got)
    BY <1>1 DEF Faithful
  <2> HIDE DEF x
  <2>2. \E j \in 1..got : x = <<c, j>>
    BY <2>1, Pairs
  <2> QED BY <2>2 DEF x
<1>4. DOMAIN request = DOMAIN text /\ \A i \in DOMAIN text : request[i] = Content(text[i])
  BY DEF Request, text
<1>5. \A j : Content(<<c, j>>) = Message[c][j]
  BY Kinds DEF Content
<1>6. ASSUME BadLength \in ToSet(request) PROVE BadLength \in ToSet(Message[c])
  <2>1. PICK i \in DOMAIN text : Content(text[i]) = BadLength
    BY <1>4, <1>6 DEF ToSet
  <2>2. PICK j \in 1..got : text[i] = <<c, j>>
    BY <1>3
  <2>3. j \in DOMAIN Message[c]
    BY <1>1
  <2> QED BY <1>5, <2>1, <2>2, <2>3 DEF ToSet
<1>7. ASSUME Message[c][1] \in DOMAIN Lines
      PROVE  HasLine(request) /\ Head(request) = Message[c][1]
  <2>1. Message[c][1] # Nul
    BY <1>7, RpcServerAssumption
  <2>2. <<c, 1>> \in ToSet(text)
    <3>1. 1 \in 1..got /\ \A k \in 1..1 : k = 1
      BY <1>1
    <3> QED BY <1>1, <2>1, <3>1 DEF Faithful
  <2>3. PICK i \in DOMAIN text : text[i] = <<c, 1>>
    BY <2>2 DEF ToSet
  <2>4. 1 \in DOMAIN text /\ i \in Nat /\ i >= 1
    BY <1>2
  <2>5. i = 1
    <3> SUFFICES ASSUME 1 < i PROVE FALSE
      BY <2>4
    <3>1. PICK j \in 1..got : text[1] = <<c, j>>
      BY <1>3, <2>4
    <3>2. text[1][2] < text[i][2]
      BY <1>1, <2>4 DEF Faithful
    <3>3. j < 1
      BY <2>3, <3>1, <3>2
    <3> QED BY <3>3
  <2>6. request[1] = Message[c][1] /\ request # <<>>
    <3>1. request[1] = Message[c][1]
      BY <1>4, <1>5, <2>3, <2>5
    <3>2. DOMAIN request # {}
      BY <1>4, <2>4
    <3> QED BY <3>1, <3>2
  <2>7. Head(request) = request[1]
    <3> DEFINE r == request
               S == {r[k] : k \in 1..Len(text)}
    <3>1. r = [k \in 1..Len(text) |-> Content(text[k])]
      BY <1>2 DEF Request, text
    <3>2. r = [k \in 1..Len(text) |-> r[k]]
      BY <3>1
    <3> HIDE DEF request
    <3>3. r \in [1..Len(text) -> S]
      BY <3>2
    <3>4. r \in Seq(S)
      BY <1>2, <3>3, SeqDef
    <3> QED BY <2>6, <3>4, HeadTailProperties
  <2> QED BY <1>7, <2>6, <2>7 DEF HasLine
<1> QED BY <1>6, <1>7

LEMMA ParseInv ==
    ASSUME IInv, NEW w \in Workers, Parse(w)
    PROVE  IInv'
<1>1. pc[w] = "parse" /\ pc[w] \notin Idle /\ pc[w] # "send"
  BY DEF Parse, Idle
<1>2. PICK c \in Clients : c = frame[w].sock
  BY <1>1, AtWork
<1>3. /\ TypeOK /\ conn[c].got \in Nat /\ conn[c].sent \in Nat
      /\ conn[c].got <= conn[c].sent
      /\ frame[w].text \in Seq(Cells) /\ frame[w].result \in 0..BufSize
      /\ frame[w].atPoll \in Nat
  BY <1>1, <1>2, AtWork, Frames
<1>4. UNCHANGED <<limit, owned, alive, inputBuf, answer, closes, raced>>
  BY DEF Parse, outcome
<1>5. ASSUME Go(w, "answer"), UNCHANGED <<frame, conn, crashed>> PROVE IInv'
  <2>1. pc' = [pc EXCEPT ![w] = "answer"] /\ frame' = frame /\ conn' = conn
    BY <1>5 DEF Go
  <2>2. pc'[w] = "answer"
    BY <1>3, <2>1 DEF TypeOK
  <2>3. Progress(w)'
    BY <1>1, <2>1, <2>2, AtWork DEF Progress, Holds
  <2>4. ASSUME c \notin raced PROVE Own(w)'
    BY <1>1, <1>2, <1>4, <2>1, <2>2, <2>4, AtWork DEF Own, Holds
  <2>5. Reads(w)'
    BY <1>2, <1>4, <2>1, <2>3, <2>4 DEF Reads
  <2>6. frame' = [frame EXCEPT ![w] = [sock |-> frame[w].sock, text |-> frame[w].text,
                        result |-> frame[w].result, atPoll |-> frame[w].atPoll]]
    BY <1>3, <2>1, Fields DEF TypeOK
  <2>7. conn' = [conn EXCEPT ![c] = [state |-> conn[c].state, got |-> conn[c].got,
                                     sent |-> conn[c].sent, gone |-> conn[c].gone]]
    BY <1>3, <2>1, Fields DEF TypeOK
  <2>8. inputBuf' \in [1..(BufSize + 1) -> Cells] /\ raced' \subseteq Clients
    BY <1>3, <1>4 DEF TypeOK
  <2> QED BY <1>1, <1>2, <1>3, <1>4, <1>5, <2>1, <2>5, <2>6, <2>7, <2>8, Alone
<1>6. ASSUME ~HasLine(Request(w)) \/ BadLength \in ToSet(Request(w)), Fails(w, "leaked")
      PROVE  IInv'
  <2>1. c \in raced \/ ~WellFormed(c)
    BY <1>1, <1>2, <1>6, Understood DEF WellFormed
  <2> QED BY <1>1, <1>2, <1>4, <1>6, <2>1, Unanswered, FailsInv
<1>7. ASSUME Fails(w, "unlogged") PROVE IInv'
  BY <1>1, <1>2, <1>4, <1>7, Unanswered, FailsInv
<1> QED BY <1>5, <1>6, <1>7 DEF Parse

-----------------------------------------------------------------------------
(* The answer.                                                             *)

LEMMA HandlerFacts ==
    /\ Len(Handlers) \in Nat /\ DOMAIN Handlers = 1..Len(Handlers)
    /\ IsHandler(NotFoundHandler) /\ \A i \in 1..Len(Handlers) : IsHandler(Handlers[i])
<1>1. Handlers \in Seq(ToSet(Handlers))
  BY RpcServerAssumption
<1>2. Len(Handlers) \in Nat /\ DOMAIN Handlers = 1..Len(Handlers)
  BY <1>1, LenProperties
<1>3. \A i \in 1..Len(Handlers) : Handlers[i] \in ToSet(Handlers)
  BY <1>2 DEF ToSet
<1> QED BY <1>2, <1>3, RpcServerAssumption

\* The loop over the handlers stops at the first it can.
LEMMA FoundFirst ==
    ASSUME NEW line
    PROVE  IsFirst(FindHandler(line), line)
<1> DEFINE S == Stopping(line)
           first == CHOOSE i \in S : \A j \in S : i <= j
<1>1. S \subseteq 1..Len(Handlers)
      /\ \A i \in 1..Len(Handlers) : i \in S <=> Stops(Handlers[i], line)
  BY HandlerFacts DEF Stopping
<1>2. CASE S = {}
  <2>1. FindHandler(line) = 0
    BY <1>2 DEF FindHandler
  <2>2. \A h \in ToSet(Handlers) : ~Stops(h, line)
    BY <1>1, <1>2, HandlerFacts DEF ToSet
  <2> QED BY <2>1, <2>2 DEF IsFirst
<1>3. CASE S # {}
  <2>1. FindHandler(line) = first
    BY <1>3 DEF FindHandler
  <2>2. S \in SUBSET Nat
    BY <1>1, HandlerFacts
  <2>3. first \in S /\ \A j \in S : first <= j
    BY <1>3, <2>2, LeastNatural
  <2> HIDE DEF first, S
  <2>4. first \in 1..Len(Handlers) /\ Stops(Handlers[first], line) /\ first # 0
    BY <1>1, <2>3, HandlerFacts
  <2>5. \A j \in 1..(first - 1) : ~Stops(Handlers[j], line)
    <3> SUFFICES ASSUME NEW j \in 1..(first - 1), Stops(Handlers[j], line)
                 PROVE  FALSE
      OBVIOUS
    <3>1. j \in 1..Len(Handlers) /\ ~(first <= j)
      BY <2>4, HandlerFacts
    <3> QED BY <1>1, <2>3, <3>1
  <2> QED BY <2>1, <2>4, <2>5 DEF IsFirst
<1> QED BY <1>2, <1>3

LEMMA AnswerFacts ==
    ASSUME NEW i \in 0..Len(Handlers), NEW request
    PROVE  /\ GetAnswer(i, request) \in [handler : 0..Len(Handlers), code : Nat,
                                         named : BOOLEAN]
           /\ GetAnswer(i, request).handler = i
           /\ GetAnswer(i, request).named \/ Nameless(i)
<1> DEFINE h == Handler(i)
           code == GetResponse(h, request)
<1>1. IsHandler(h)
  BY HandlerFacts DEF Handler
<1>2. Nameless(i) <=> h.raw \/ h.does = "expired"
                      \/ (h.does = "returns" /\ h.code \notin Codes)
  BY DEF Nameless
<1>3. GetAnswer(i, request) =
          IF h.raw THEN [handler |-> i, code |-> 0, named |-> FALSE]
          ELSE [handler |-> i, code |-> code, named |-> code \in Codes]
  BY DEF GetAnswer
<1>4. /\ code \in Nat
      /\ \/ code \in Codes
         \/ h.does = "expired"
         \/ h.does = "returns" /\ h.code \notin Codes
  <2> HIDE DEF h
  <2>1. {400, 500, 501} \subseteq Codes /\ h.code \in Nat
    BY <1>1 DEF Codes, IsHandler
  <2>2. CASE h.does = "nothing"
    BY <2>1, <2>2 DEF GetResponse
  <2>3. CASE h.does # "nothing" /\ h.proto
    <3>1. CASE Len(request) < 2
      BY <2>1, <2>3, <3>1 DEF GetResponse, ProtoWrapped
    <3>2. CASE ~(Len(request) < 2)
      BY <1>1, <2>1, <2>3, <3>2 DEF GetResponse, ProtoWrapped, IsHandler, Does
    <3> QED BY <3>1, <3>2
  <2>4. CASE h.does # "nothing" /\ ~h.proto
    BY <1>1, <2>1, <2>4 DEF GetResponse, Wrapped, IsHandler, Does
  <2> QED BY <2>2, <2>3, <2>4
<1> HIDE DEF h, code
<1>5. CASE h.raw
  <2>1. GetAnswer(i, request) = [handler |-> i, code |-> 0, named |-> FALSE]
    BY <1>3, <1>5, Zenon
  <2>2. Nameless(i)
    BY <1>2, <1>5, Zenon
  <2>3. [handler |-> i, code |-> 0, named |-> FALSE]
            \in [handler : 0..Len(Handlers), code : Nat, named : BOOLEAN]
    OBVIOUS
  <2> QED BY <2>1, <2>2, <2>3
<1>6. CASE ~h.raw
  <2> DEFINE named == code \in Codes
  <2>1. GetAnswer(i, request) = [handler |-> i, code |-> code, named |-> named]
    BY <1>3, <1>6, Zenon
  <2>2. named \in BOOLEAN
    OBVIOUS
  <2>3. named \/ Nameless(i)
    BY <1>2, <1>4, Zenon
  <2> HIDE DEF named
  <2>4. [handler |-> i, code |-> code, named |-> named]
            \in [handler : 0..Len(Handlers), code : Nat, named : BOOLEAN]
    BY <1>4, <2>2
  <2>5. /\ [handler |-> i, code |-> code, named |-> named].handler = i
        /\ [handler |-> i, code |-> code, named |-> named].named = named
    OBVIOUS
  <2> QED BY <2>1, <2>3, <2>4, <2>5
<1> QED BY <1>5, <1>6

LEMMA AnswerInv ==
    ASSUME IInv, NEW w \in Workers, Answer(w)
    PROVE  IInv'
<1>1. pc[w] = "answer" /\ pc[w] \notin Idle /\ pc[w] # "send"
  BY DEF Answer, Idle
<1>2. PICK c \in Clients : c = frame[w].sock
  BY <1>1, AtWork
<1>3. /\ TypeOK /\ conn[c].state = "open" /\ answer[c] = NoAnswer
      /\ answer \in [Clients -> [handler : 0..Len(Handlers), code : Nat,
                                 named : BOOLEAN]]
      /\ conn[c].got \in Nat /\ conn[c].sent \in Nat /\ conn[c].got <= conn[c].sent
      /\ frame[w].text \in Seq(Cells) /\ frame[w].result \in 0..BufSize
      /\ frame[w].atPoll \in Nat
  BY <1>1, <1>2, AtWork, Unanswered, Frames
<1>4. UNCHANGED <<limit, owned, alive, inputBuf, raced>>
  BY DEF Answer
<1>5. ASSUME NEW i \in 0..Len(Handlers),
             HasLine(Request(w)) => i = FindHandler(Lines[Head(Request(w))])
      PROVE  \/ c \in raced \/ Message[c][1] \notin DOMAIN Lines
             \/ IsFirst(i, Lines[Message[c][1]])
  <2> SUFFICES ASSUME c \notin raced, Message[c][1] \in DOMAIN Lines
               PROVE  IsFirst(i, Lines[Message[c][1]])
    OBVIOUS
  <2>1. HasLine(Request(w)) /\ Head(Request(w)) = Message[c][1]
    BY <1>1, <1>2, Understood
  <2> QED BY <1>5, <2>1, FoundFirst
<1>6. ASSUME NEW i \in 0..Len(Handlers),
             HasLine(Request(w)) => i = FindHandler(Lines[Head(Request(w))]),
             Throws(i), Fails(w, "leaked"), UNCHANGED answer
      PROVE  IInv'
  <2>1. c \in raced \/ ~WellFormed(c) \/ AsksToThrow(c)
    BY <1>5, <1>6 DEF WellFormed, AsksToThrow
  <2> QED BY <1>1, <1>2, <1>3, <1>4, <1>6, <2>1, FailsInv
<1>7. ASSUME Fails(w, "unlogged"), UNCHANGED answer PROVE IInv'
  BY <1>1, <1>2, <1>3, <1>4, <1>7, FailsInv
<1>8. ASSUME NEW i \in 0..Len(Handlers),
             HasLine(Request(w)) => i = FindHandler(Lines[Head(Request(w))]),
             ~Throws(i), Go(w, "send"),
             answer' = [answer EXCEPT ![c] = GetAnswer(i, Request(w))],
             UNCHANGED <<crashed, frame, conn, closes>>
      PROVE  IInv'
  <2> DEFINE a == GetAnswer(i, Request(w))
  <2>1. /\ a \in [handler : 0..Len(Handlers), code : Nat, named : BOOLEAN]
        /\ a.handler = i /\ (a.named \/ Nameless(i))
    BY AnswerFacts
  <2> HIDE DEF a
  <2>2. /\ answer' \in [Clients -> [handler : 0..Len(Handlers), code : Nat,
                                    named : BOOLEAN]]
        /\ \A d \in Clients : d = c \/ answer'[d] = answer[d]
        /\ answer'[c] = a
    BY <1>3, <1>8, <2>1 DEF a
  <2>3. RightEnd(c)'
    <3>1. IsFirst(i, Lines[Message[c][1]])' <=> IsFirst(i, Lines[Message[c][1]])
      BY DEF IsFirst
    <3>2. c \notin raced' /\ Message[c][1] \in DOMAIN Lines =>
              IsFirst(answer'[c].handler, Lines[Message[c][1]])
      BY <1>4, <1>5, <1>8, <2>1, <2>2
    <3> QED BY <1>3, <1>8, <2>1, <2>2, <3>2
            DEF RightEnd, Nameless, Throws, IsFirst
  <2>4. pc' = [pc EXCEPT ![w] = "send"] /\ frame' = frame /\ conn' = conn
    BY <1>8 DEF Go
  <2>5. pc'[w] = "send"
    BY <1>3, <2>4 DEF TypeOK
  <2>6. Progress(w)'
    BY <1>1, <2>4, <2>5, AtWork DEF Progress, Holds
  <2>7. ASSUME c \notin raced PROVE Own(w)'
    BY <1>1, <1>2, <1>4, <2>4, <2>5, <2>7, AtWork DEF Own, Holds
  <2>8. Reads(w)'
    BY <1>2, <1>4, <2>4, <2>6, <2>7 DEF Reads
  <2>9. frame' = [frame EXCEPT ![w] = [sock |-> c, text |-> frame[w].text,
                        result |-> frame[w].result, atPoll |-> frame[w].atPoll]]
    BY <1>2, <1>3, <2>4, Fields DEF TypeOK
  <2>10. conn' = [conn EXCEPT ![c] = [state |-> conn[c].state, got |-> conn[c].got,
                                      sent |-> conn[c].sent, gone |-> conn[c].gone]]
    BY <1>3, <2>4, Fields DEF TypeOK
  <2>11. inputBuf' \in [1..(BufSize + 1) -> Cells] /\ raced' \subseteq Clients
    BY <1>3, <1>4 DEF TypeOK
  <2>12. "send" \in {"poll", "recv", "mark", "append", "parse", "answer", "send"}
    OBVIOUS
  <2>13. /\ inputBuf' = inputBuf \/ Overrun(w) \subseteq raced'
         /\ raced \subseteq raced' /\ limit' = limit /\ owned' = owned
         /\ alive' = alive /\ crashed' = crashed /\ closes' = closes
    BY <1>4, <1>8
  <2>14. answer'[c] # NoAnswer => "send" = "send"
    OBVIOUS
  <2>15. /\ conn[c].got \in Nat /\ conn[c].got <= conn[c].sent
         /\ frame[w].text \in Seq(Cells) /\ frame[w].result \in 0..BufSize
         /\ frame[w].atPoll \in Nat
    BY <1>3
  <2>16. pc' = [pc EXCEPT ![w] = "send"] /\ pc[w] \notin Idle
    BY <1>1, <2>4
  <2> QED BY <1>2, <2>2, <2>3, <2>8, <2>9, <2>10, <2>11, <2>12, <2>13, <2>14, <2>15,
             <2>16, Moves
<1> QED BY <1>2, <1>6, <1>7, <1>8 DEF Answer

LEMMA SendInv ==
    ASSUME IInv, NEW w \in Workers, SendResponse(w) \/ SendFails(w)
    PROVE  IInv'
<1>1. pc[w] = "send" /\ pc[w] \notin Idle
  BY DEF SendResponse, SendFails, Idle
<1>2. PICK c \in Clients : c = frame[w].sock
  BY <1>1, AtWork
<1>3. TypeOK
  BY DEF IInv, AnsweredRight
<1>4. CASE SendResponse(w)
  BY <1>1, <1>4, CloseInv DEF SendResponse, server
<1>5. CASE SendFails(w)
  <2>1. /\ UNCHANGED <<limit, owned, alive, inputBuf, raced>>
        /\ answer' = [answer EXCEPT ![c] = NoAnswer]
    BY <1>2, <1>5 DEF SendFails
  <2>2. NoAnswer \in [handler : 0..Len(Handlers), code : Nat, named : BOOLEAN]
    BY HandlerFacts DEF NoAnswer
  <2>3. /\ answer' \in [Clients -> [handler : 0..Len(Handlers), code : Nat,
                                    named : BOOLEAN]]
        /\ \A d \in Clients : d = c \/ answer'[d] = answer[d]
        /\ answer'[c] = NoAnswer
    BY <1>3, <2>1, <2>2 DEF TypeOK
  <2>4. ASSUME Close(w), UNCHANGED crashed PROVE IInv'
    <3>1. GiveUp(w, "closed") /\ closes' = [closes EXCEPT ![c] = @ + 1]
      BY <1>2, <2>4 DEF Close
    <3>2. conn'[c].state = "closed"
      BY <1>2, <1>3, <3>1 DEF GiveUp, TypeOK, Connection
    <3>3. RightEnd(c)'
      BY <2>1, <2>3, <3>2, EndKept
    <3> QED BY <1>1, <1>2, <2>1, <2>3, <2>4, <3>1, <3>3, GiveUpInv
  <2>5. ASSUME Fails(w, "unlogged") PROVE IInv'
    BY <1>1, <1>2, <2>1, <2>3, <2>5, FailsInv
  <2> QED BY <1>5, <2>4, <2>5 DEF SendFails, LogAndClose
<1> QED BY <1>4, <1>5

-----------------------------------------------------------------------------
(* Every reachable state.                                                  *)

LEMMA StepInv ==
    ASSUME IInv, [Next]_vars
    PROVE  IInv'
<1>1. CASE UNCHANGED vars
  BY <1>1 DEF vars, server, outcome, IInv, OwnRequest, AnsweredRight, TypeOK, SockInv,
     Progress, Own, Holds, Readable, OneWorker, RightEnd, InLoop
<1>2. ASSUME NEW w \in Workers, Step(w) PROVE IInv'
  BY <1>2, BeginInv, PollInv, RecvInv, RecvFailsInv, MarkInv, CopyInv, ParseInv,
     AnswerInv, SendInv, AcceptInv DEF Step
<1>3. ASSUME NEW w \in Workers, Read(w) \/ AcceptFails(w) PROVE IInv'
  BY <1>3, SendInv, AcceptFailsInv DEF Read
<1> QED BY <1>1, <1>2, <1>3, ListenInv, StartInv, DropInv, ClientInv DEF Next

\* What is parsed and whose it is, and where each worker is with its connection,
\* survives every step of workers, clients and owner, one in which accept, recv or
\* send fails or an exception leaves ProcessClient included (http_server.cpp:479-553,
\* service_rpc.cpp:22-37).
THEOREM Invariance == Spec => []IInv
BY InitInv, StepInv, PTL DEF Spec

\* Unless another worker wrote into InputBuf_ between its recv and its copy, what a
\* worker parses is what its client sent, in order and all of it
\* (http_server.cpp:492-523).
THEOREM RequestIsOwn == Spec => []OwnRequest
<1>1. IInv => OwnRequest
  BY DEF IInv
<1> QED BY <1>1, Invariance, PTL

\* A connection is closed once, and answered by the handler registered first for
\* its own request.  It is left open only if the request is malformed, asks for a
\* handler whose URL or whose text throws past the wrappers, or is another's, or if
\* a log call threw (http_server.cpp:479-553, service_rpc.h:22-85,
\* service_rpc.cpp:22-37).
THEOREM AnswerIsRight == Spec => []AnsweredRight
<1>1. IInv => AnsweredRight
  BY DEF IInv
<1> QED BY <1>1, Invariance, PTL

=============================================================================
