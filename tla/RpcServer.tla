----------------------------- MODULE RpcServer ------------------------------
(***************************************************************************)
(* TRpcServerBase and THttpServer (lib/rpc): a pool of workers that accept *)
(* connections, read a request into the one InputBuf_ of the server, find  *)
(* its handler, answer and close.  Clients connect, send when and in what  *)
(* pieces they like, and hang up; the owner drops the server at any time.  *)
(*                                                                         *)
(* What a client sends is a sequence of blocks.  A block that was received *)
(* is <<client, place>>.  The first block of a request is its first line.  *)
(***************************************************************************)
EXTENDS Naturals, FiniteSets, SequencesExt

CONSTANTS
    Workers,        \* the threads of ThreadPool_
    Clients,        \* connections: a client makes one
    Message,        \* of each client: the blocks it may send
    BufSize,        \* blocks that fit into InputBuf_, without the terminator
    Lines,          \* method and URL of each block that is a first line of
                    \* three words
    Handlers,       \* Handlers_: method, the URLs it matches, what it does
    NotFoundHandler,\* NotFoundHandler_
    Descriptors     \* how many descriptors the process may have for connections

Nul == "nul"                \* a block with a zero byte
BadLength == "bad length"   \* a Content-Length that is no number

\* What the function of a handler does: it returns or throws a response of its
\* code (the text it throws with may be no UTF-8), throws TProtoException or
\* another exception, finds its object gone, or is no function.
Does ==
    {"returns", "throws_http", "throws_bytes", "throws_proto", "throws", "expired",
     "nothing"}

\* The codes GetHttpStatusName has a name for; 0 is that of no EHttpCode.
Codes ==
    {100, 101} \union 200..206 \union 300..304 \union {307, 308, 400, 401, 403, 404}
        \union {405, 408, 409, 410} \union 500..504

\* An exception's code is one of EHttpCode; a response's may come from a message.
\* A big response does not fit into the buffers of a socket.
IsHandler(h) ==
    /\ h.does \in Does /\ h.code \in Nat
    /\ h.raw \in BOOLEAN /\ h.proto \in BOOLEAN /\ h.big \in BOOLEAN
    /\ h.does \in {"throws_http", "throws_bytes"} => h.code \in Codes

Blocks == UNION {ToSet(Message[c]) : c \in Clients}

None == "none"

ASSUME RpcServerAssumption ==
    /\ Workers # {} /\ IsFiniteSet(Workers) /\ BufSize \in Nat \ {0}
    /\ None \notin Clients /\ Descriptors # {} /\ Descriptors \subseteq Nat
    /\ Message \in [Clients -> Seq(Blocks) \ {<<>>}] /\ Nul \notin DOMAIN Lines
    /\ Handlers \in Seq(ToSet(Handlers))
    /\ \A h \in ToSet(Handlers) \union {NotFoundHandler} : IsHandler(h)

VARIABLES
    limit,      \* how many connections the process may have open
    owned,      \* the owner has its reference, or is in the constructor
    alive,      \* the server listens and is not destroyed
    crashed,    \* undefined behaviour, or an exception that nobody catches, has
                \* ended the process
    pc,         \* where each worker is
    frame,      \* of each worker: clientSocket, recivedString, the result of
                \* recv, and how many blocks had been sent when poll returned
    inputBuf,   \* InputBuf_
    conn,       \* of each client: its connection, the blocks sent and received
                \* so far, and whether it has hung up
    answer,     \* what the client was sent, or a worker is sending
    closes,     \* calls of close for each connection
    raced       \* the clients whose request another worker may have overwritten

server == <<limit, owned, alive, crashed>>
outcome == <<answer, closes>>
vars == <<server, pc, frame, inputBuf, conn, outcome, raced>>

NoAnswer == [handler |-> 0, code |-> 0, named |-> FALSE]
Zero == <<"zero">>
Junk == <<"junk">>

Free == [sock |-> None, text |-> <<>>, result |-> 0, atPoll |-> 0]

Connection(state) == [state |-> state, sent |-> 0, got |-> 0, gone |-> FALSE]

Init ==
    /\ limit \in Descriptors /\ owned = TRUE /\ alive = FALSE /\ crashed = FALSE
    /\ pc = [w \in Workers |-> "idle"]
    /\ frame = [w \in Workers |-> Free]
    /\ inputBuf = [i \in 1..(BufSize + 1) |-> Junk]
    /\ conn = [c \in Clients |-> Connection("away")]
    /\ answer = [c \in Clients |-> NoAnswer]
    /\ closes = [c \in Clients |-> 0]
    /\ raced = {}

InLoop(w) == pc[w] \notin {"idle", "queued", "done"}

-----------------------------------------------------------------------------
(* The owner.                                                              *)

\* The constructor: it tries each second until it can.  When there is no socket
\* the address is freed, used and freed again.  A log call that throws, here or
\* behind it, leaves no server.
Listen ==
    /\ owned /\ ~alive
    /\ \/ alive' = TRUE /\ UNCHANGED <<owned, crashed>>
       \/ crashed' = TRUE /\ UNCHANGED <<owned, alive>>
       \/ owned' = FALSE /\ UNCHANGED <<alive, crashed>>
    /\ UNCHANGED <<limit, pc, frame, inputBuf, conn, outcome, raced>>

\* Once: the tasks of another call would wait for these to end.
Start ==
    /\ owned /\ alive /\ \A w \in Workers : pc[w] = "idle"
    /\ pc' = [w \in Workers |-> "queued"]
    /\ UNCHANGED <<server, frame, inputBuf, conn, outcome, raced>>

\* Bind holds what it locked until Worker returns.
Drop ==
    /\ owned /\ alive /\ owned' = FALSE
    /\ alive' = \E w \in Workers : InLoop(w)
    /\ UNCHANGED <<limit, crashed, pc, frame, inputBuf, conn, outcome, raced>>

-----------------------------------------------------------------------------
(* The clients.                                                            *)

Connected(c) == conn[c].state \in {"pending", "open"} /\ ~conn[c].gone

Connect(c) ==
    /\ alive /\ conn[c].state = "away"
    /\ conn' = [conn EXCEPT ![c].state = "pending"]
    /\ UNCHANGED <<server, pc, frame, inputBuf, outcome, raced>>

Send(c, n) ==
    /\ Connected(c) /\ conn[c].sent < n
    /\ conn' = [conn EXCEPT ![c].sent = n]
    /\ UNCHANGED <<server, pc, frame, inputBuf, outcome, raced>>

HangUp(c) ==
    /\ Connected(c)
    /\ conn' = [conn EXCEPT ![c].gone = TRUE]
    /\ UNCHANGED <<server, pc, frame, inputBuf, outcome, raced>>

-----------------------------------------------------------------------------
(* A worker.                                                               *)

Go(w, to) == pc' = [pc EXCEPT ![w] = to]

\* The task of the pool: nothing is left to do if the server is gone.
Begin(w) ==
    /\ pc[w] = "queued"
    /\ Go(w, IF alive THEN "accept" ELSE "done")
    /\ UNCHANGED <<server, frame, inputBuf, conn, outcome, raced>>

LeftOpen(c) == conn[c].state \in {"leaked", "unlogged"}

Full == Cardinality({c \in Clients : conn[c].state = "open" \/ LeftOpen(c)}) >= limit

\* Without a descriptor, accept fails: that is logged, and the worker tries again.
Accept(w, c) ==
    /\ pc[w] = "accept" /\ conn[c].state = "pending" /\ ~Full
    /\ conn' = [conn EXCEPT ![c].state = "open"]
    /\ frame' = [frame EXCEPT ![w].sock = c]
    /\ Go(w, "poll")
    /\ UNCHANGED <<server, inputBuf, outcome, raced>>

\* The log call throws, and that of the catch of Worker does too.
AcceptFails(w) ==
    /\ pc[w] = "accept" /\ crashed' = TRUE
    /\ Full \/ \E c \in Clients : conn[c].state = "pending" /\ conn[c].gone
    /\ UNCHANGED <<limit, owned, alive, pc, frame, inputBuf, conn, outcome, raced>>

\* The connection of w is given up, and the next one is accepted.
GiveUp(w, as) ==
    /\ conn' = [conn EXCEPT ![frame[w].sock] = Connection(as)]
    /\ frame' = [frame EXCEPT ![w] = Free]
    /\ Go(w, "accept")

Close(w) ==
    GiveUp(w, "closed") /\ closes' = [closes EXCEPT ![frame[w].sock] = @ + 1]

\* An exception leaves ProcessClient, and the socket as it is.  Worker catches and
\* logs it; what that log call throws nobody catches.
Fails(w, as) ==
    /\ \/ GiveUp(w, as) /\ UNCHANGED crashed
       \/ crashed' = TRUE /\ UNCHANGED <<pc, frame, conn>>
    /\ UNCHANGED closes

\* A log call may write out the buffer of the log, and throw.
LogAndClose(w) ==
    \/ Close(w) /\ UNCHANGED crashed
    \/ Fails(w, "unlogged")

Readable(w) ==
    LET c == conn[frame[w].sock] IN c.got < c.sent \/ c.gone

\* Faulty: poll has no timeout.
PollForever(w) ==
    /\ pc[w] = "poll" /\ Readable(w)
    /\ frame' = [frame EXCEPT ![w].atPoll = conn[frame[w].sock].sent]
    /\ Go(w, "recv")
    /\ UNCHANGED <<server, inputBuf, conn, outcome, raced>>

Poll(w) ==
    /\ pc[w] = "poll"
    /\ UNCHANGED <<server, inputBuf, answer, raced>>
    /\ \/ /\ Readable(w)
          /\ frame' = [frame EXCEPT ![w].atPoll = conn[frame[w].sock].sent]
          /\ Go(w, "recv")
          /\ UNCHANGED <<conn, closes>>
       \/ ~Readable(w) /\ Close(w)

\* The clients of the others that have received and not yet copied what they did.
Overrun(w) ==
    raced \union {frame[v].sock :
                     v \in {v \in Workers \ {w} : pc[v] \in {"mark", "append"}}}

\* recv fills the buffer as far as it can, from the start; it waits for a
\* client that is silent.
Recv(w) ==
    LET c == frame[w].sock
        here == conn[c].sent - conn[c].got
        n == IF here < BufSize THEN here ELSE BufSize
    IN /\ pc[w] = "recv" /\ Readable(w)
       /\ inputBuf' = [i \in DOMAIN inputBuf |->
                          IF i <= n THEN <<c, conn[c].got + i>> ELSE inputBuf[i]]
       /\ conn' = [conn EXCEPT ![c].got = @ + n]
       /\ frame' = [frame EXCEPT ![w].result = n]
       /\ raced' = IF n = 0 THEN raced ELSE Overrun(w)
       /\ Go(w, "mark")
       /\ UNCHANGED <<server, outcome>>

\* The connection was reset.
RecvFails(w) ==
    /\ pc[w] = "recv" /\ conn[frame[w].sock].gone /\ LogAndClose(w)
    /\ UNCHANGED <<limit, owned, alive, inputBuf, answer, raced>>

Mark(w) ==
    /\ pc[w] = "mark"
    /\ inputBuf' = [inputBuf EXCEPT ![frame[w].result + 1] = Zero]
    /\ raced' = Overrun(w)
    /\ Go(w, "append")
    /\ UNCHANGED <<server, frame, conn, outcome>>

EndsText(cell) == cell = Zero \/ (cell # Junk /\ Message[cell[1]][cell[2]] = Nul)

\* The buffer is read as a C string; without an end, beyond its end.
CString ==
    LET ends == {i \in DOMAIN inputBuf : EndsText(inputBuf[i])}
        first == CHOOSE i \in ends : \A j \in ends : i <= j
    IN IF ends = {} THEN Append(inputBuf, Junk) ELSE SubSeq(inputBuf, 1, first - 1)

\* Faulty: one buffer is taken to be the request.
CopyOnce(w) ==
    /\ pc[w] = "append"
    /\ UNCHANGED <<limit, owned, alive, inputBuf, answer, raced>>
    /\ \/ /\ frame[w].result > 0
          /\ frame' = [frame EXCEPT ![w].text = @ \o CString]
          /\ Go(w, "parse")
          /\ UNCHANGED <<crashed, conn, closes>>
       \/ frame[w].result = 0 /\ LogAndClose(w)

\* A buffer that was filled is not the last.
CopyText(w) ==
    /\ pc[w] = "append"
    /\ UNCHANGED <<limit, owned, alive, inputBuf, answer, raced>>
    /\ \/ /\ frame[w].result > 0
          /\ frame' = [frame EXCEPT ![w].text = @ \o CString]
          /\ Go(w, IF frame[w].result >= BufSize THEN "recv" ELSE "parse")
          /\ UNCHANGED <<crashed, conn, closes>>
       \/ frame[w].result = 0 /\ LogAndClose(w)

Content(cell) == IF cell = Junk THEN "junk" ELSE Message[cell[1]][cell[2]]

Request(w) == [i \in DOMAIN frame[w].text |-> Content(frame[w].text[i])]

HasLine(request) == request # <<>> /\ Head(request) \in DOMAIN Lines

\* The constructor of TRequest.  The second and the third word of the first line
\* are taken whether they are there or not, with any outcome, Fails being one; a
\* number that is none is an exception.  Any request is logged.
Parse(w) ==
    /\ pc[w] = "parse"
    /\ UNCHANGED <<limit, owned, alive, inputBuf, outcome, raced>>
    /\ \/ /\ BadLength \notin ToSet(Request(w))
          /\ Go(w, "answer") /\ UNCHANGED <<frame, conn, crashed>>
       \/ /\ ~HasLine(Request(w)) \/ BadLength \in ToSet(Request(w))
          /\ Fails(w, "leaked")
       \/ Fails(w, "unlogged")

\* CheckResponse: method and URL, without the arguments, are those of the handler.
\* A URL that is no regular expression throws once the method is the same.
Stops(handler, line) ==
    /\ handler.method = line.method
    /\ handler.regex => line.url \in handler.urls

Stopping(line) == {i \in DOMAIN Handlers : Stops(Handlers[i], line)}

\* Faulty: the handler registered last is found.
FindLast(line) ==
    IF Stopping(line) = {} THEN 0
    ELSE CHOOSE i \in Stopping(line) : \A j \in Stopping(line) : j <= i

\* The index of the handler, 0 for NotFoundHandler_.
FindHandler(line) ==
    IF Stopping(line) = {} THEN 0
    ELSE CHOOSE i \in Stopping(line) : \A j \in Stopping(line) : i <= j

Handler(i) == IF i = 0 THEN NotFoundHandler ELSE Handlers[i]

\* Out of CheckResponse, or out of the catch of RegisterHandler that makes JSON of
\* a text that is no UTF-8.
Throws(i) ==
    \/ i # 0 /\ ~Handler(i).regex
    \/ Handler(i).does = "throws_bytes" /\ ~Handler(i).proto

\* RegisterHandler and RegisterNotFoundHandler, as far as nothing throws in their
\* catches; MakeHandler returns an empty response for an object that is gone.
Wrapped(h) ==
    [returns |-> h.code, throws_http |-> h.code, throws_bytes |-> h.code,
     throws_proto |-> 500, throws |-> 500, expired |-> 0][h.does]

\* RegisterProtoHandler: without a body there is no message to parse.
ProtoWrapped(h, request) ==
    IF Len(request) < 2 THEN 400
    ELSE [returns |-> h.code, throws_http |-> h.code, throws_bytes |-> h.code,
          throws_proto |-> 400, throws |-> 500, expired |-> 500][h.does]

GetResponse(h, request) ==
    IF h.does = "nothing" THEN 501
    ELSE IF h.proto THEN ProtoWrapped(h, request) ELSE Wrapped(h)

\* What a raw handler is answered with has no status line.
GetAnswer(i, request) ==
    LET code == GetResponse(Handler(i), request)
    IN IF Handler(i).raw THEN [handler |-> i, code |-> 0, named |-> FALSE]
       ELSE [handler |-> i, code |-> code, named |-> code \in Codes]

\* The handler is found and asked.  It, its wrapper and ProcessClient log.
Answer(w) ==
    /\ pc[w] = "answer"
    /\ UNCHANGED <<limit, owned, alive, inputBuf, raced>>
    /\ \/ \E i \in 0..Len(Handlers) :
             /\ HasLine(Request(w)) => i = FindHandler(Lines[Head(Request(w))])
             /\ \/ Throws(i) /\ Fails(w, "leaked") /\ UNCHANGED answer
                \/ /\ ~Throws(i) /\ Go(w, "send")
                   /\ answer' = [answer EXCEPT
                                     ![frame[w].sock] = GetAnswer(i, Request(w))]
                   /\ UNCHANGED <<crashed, frame, conn, closes>>
       \/ Fails(w, "unlogged") /\ UNCHANGED answer

\* send waits for a client that does not read, if the response is big.
Writable(w) ==
    LET c == frame[w].sock
    IN ~Handler(answer[c].handler).big \/ conn[c].gone

SendResponse(w) ==
    /\ pc[w] = "send" /\ ~conn[frame[w].sock].gone /\ Close(w)
    /\ UNCHANGED <<server, inputBuf, answer, raced>>

\* The client is gone, before or while it was sent to.
SendFails(w) ==
    /\ pc[w] = "send" /\ conn[frame[w].sock].gone /\ LogAndClose(w)
    /\ answer' = [answer EXCEPT ![frame[w].sock] = NoAnswer]
    /\ UNCHANGED <<limit, owned, alive, inputBuf, raced>>

Step(w) ==
    \/ Begin(w) \/ Poll(w) \/ Recv(w) \/ RecvFails(w) \/ Mark(w) \/ CopyText(w)
    \/ Parse(w) \/ Answer(w) \/ (SendResponse(w) /\ Writable(w))
    \/ SendFails(w) \/ \E c \in Clients : Accept(w, c)

\* A client that reads a big response to its end lets send return.
Read(w) == SendResponse(w) /\ ~Writable(w)

Next ==
    /\ ~crashed
    /\ \/ Listen \/ Start \/ Drop
       \/ \E c \in Clients : Connect(c) \/ HangUp(c)
                             \/ \E n \in 1..Len(Message[c]) : Send(c, n)
       \/ \E w \in Workers : Step(w) \/ Read(w) \/ AcceptFails(w)

\* The threads of the pool run.  Nothing is assumed of clients and owner.
Fairness == \A w \in Workers : WF_vars(~crashed /\ Step(w))

Spec == Init /\ [][Next]_vars /\ Fairness

-----------------------------------------------------------------------------
(* Properties.                                                             *)

Cells == {Zero, Junk} \union UNION {{c} \X (1..Len(Message[c])) : c \in Clients}

\* Of a connection.  One is left open, leaked, by an exception of its request or its
\* handler, or unlogged, by one of a log call.
States == {"away", "pending", "open", "closed", "leaked", "unlogged"}

TypeOK ==
    /\ limit \in Descriptors /\ owned \in BOOLEAN
    /\ alive \in BOOLEAN /\ crashed \in BOOLEAN
    /\ pc \in [Workers -> {"idle", "queued", "accept", "poll", "recv", "mark",
                           "append", "parse", "answer", "send", "done"}]
    /\ frame \in [Workers -> [sock : Clients \union {None}, text : Seq(Cells),
                              result : 0..BufSize, atPoll : Nat]]
    /\ inputBuf \in [1..(BufSize + 1) -> Cells]
    /\ conn \in [Clients -> [state : States, sent : Nat, got : Nat, gone : BOOLEAN]]
    /\ \A c \in Clients : conn[c].got <= conn[c].sent /\ conn[c].sent <= Len(Message[c])
    /\ answer \in [Clients -> [handler : 0..Len(Handlers), code : Nat, named : BOOLEAN]]
    /\ closes \in [Clients -> Nat]
    /\ raced \subseteq Clients

\* The copied cells are the first n blocks of a client alone, in the order they
\* were sent; one is missing only behind a zero byte.
Faithful(c, cells, n) ==
    /\ \A i \in DOMAIN cells : cells[i] \in {c} \X (1..n)
    /\ \A i, j \in DOMAIN cells : i < j => cells[i][2] < cells[j][2]
    /\ \A j \in 1..n :
           <<c, j>> \in ToSet(cells) \/ \E k \in 1..j : Message[c][k] = Nul

\* Received and not yet copied.
Holds(w) == pc[w] \in {"mark", "append"}

\* How far w is with the request of its client.  A buffer that is not full has all
\* that was there; a full one takes it back to recv, which can wait only there.
Progress(w) ==
    LET got == conn[frame[w].sock].got
        result == frame[w].result
    IN /\ frame[w].atPoll <= conn[frame[w].sock].sent
       /\ pc[w] = "poll" => got = 0 /\ frame[w].text = <<>>
       /\ pc[w] = "recv" => got % BufSize = 0 /\ (got = 0 => Readable(w))
       /\ Holds(w) =>
              /\ result <= got /\ (got - result) % BufSize = 0
              /\ result < BufSize => got >= frame[w].atPoll
       /\ pc[w] \in {"parse", "answer", "send"} => got > 0 /\ got >= frame[w].atPoll

\* What w has copied, and what it is about to copy out of InputBuf_.
Own(w) ==
    LET c == frame[w].sock
        got == conn[c].got
        result == frame[w].result
    IN /\ Faithful(c, frame[w].text, IF Holds(w) THEN got - result ELSE got)
       /\ Holds(w) => \A i \in 1..result : inputBuf[i] = <<c, got - result + i>>
       /\ pc[w] = "append" => inputBuf[result + 1] = Zero

\* What ProcessClient parses is the request of its own client, in order, and all
\* of it that had arrived when poll returned, as long as no other worker received
\* into InputBuf_ between its recv and its copy: of the clients in raced nothing is
\* promised, and raced are none but those.  And it waits in recv, where no timeout
\* helps, only behind a request that filled the buffer to the last byte.
OwnRequest ==
    \A w \in Workers : frame[w].sock # None =>
        /\ Progress(w)
        /\ frame[w].sock \notin raced => Own(w)

\* A worker has a connection while it serves it.
SockInv ==
    /\ \A w \in Workers :
           IF pc[w] \in {"idle", "queued", "accept", "done"} THEN frame[w] = Free
           ELSE frame[w].sock # None
    /\ \A c \in Clients : conn[c].state \in {"away", "pending"} => conn[c].got = 0

WellFormed(c) == Message[c][1] \in DOMAIN Lines /\ BadLength \notin ToSet(Message[c])

\* The handler of line is the first that was registered for it, or whose URL is no
\* regular expression before such a one.
IsFirst(i, line) ==
    IF i = 0 THEN \A h \in ToSet(Handlers) : ~Stops(h, line)
    ELSE /\ Stops(Handlers[i], line)
         /\ \A j \in 1..(i - 1) : ~Stops(Handlers[j], line)

\* Only a raw handler or one that sets no status has an answer without one.
Nameless(i) ==
    LET h == Handler(i)
    IN h.raw \/ h.does = "expired" \/ (h.does = "returns" /\ h.code \notin Codes)

\* A connection is open while one worker serves it, and is then closed once or left
\* open for good.  Who was answered is closed.
OneWorker(c) ==
    /\ (conn[c].state = "open") <=> \E w \in Workers : frame[w].sock = c
    /\ \A v, w \in Workers : frame[v].sock = c /\ frame[w].sock = c => v = w
    /\ closes[c] = IF conn[c].state = "closed" THEN 1 ELSE 0
    /\ answer[c] # NoAnswer =>
           \/ conn[c].state = "closed"
           \/ \E w \in Workers : pc[w] = "send" /\ frame[w].sock = c

\* The handler that c asked for, or its URL, is one that throws.
AsksToThrow(c) ==
    \E i \in 0..Len(Handlers) :
        IsFirst(i, Lines[Message[c][1]]) /\ Throws(i)

\* Log calls that work leave open only what is malformed or asks for an exception;
\* others get an answer of their handler.
RightEnd(c) ==
    c \notin raced =>
        /\ conn[c].state = "leaked" => ~WellFormed(c) \/ AsksToThrow(c)
        /\ answer[c] # NoAnswer /\ Message[c][1] \in DOMAIN Lines =>
               /\ IsFirst(answer[c].handler, Lines[Message[c][1]])
               /\ ~Throws(answer[c].handler)
               /\ answer[c].named \/ Nameless(answer[c].handler)

\* A connection is one worker's, is closed once and answered at most once, by the
\* handler registered first for its own request; an answered one is closed.  What
\* ProcessClient leaves open for good is malformed, or asks for a handler that
\* throws past its wrapper, or met a log call that threw (unlogged), or its text is
\* another's.  And no worker outlives the server it works for, whoever drops it.
AnsweredRight ==
    /\ TypeOK /\ SockInv
    /\ \A c \in Clients : OneWorker(c) /\ RightEnd(c)
    /\ (\E w \in Workers : InLoop(w)) => alive

\* Inductive: what is parsed and whose it is.
IInv == OwnRequest /\ AnsweredRight

Started == \A w \in Workers : pc[w] # "idle"

\* recv and send have no timeout.
Waits(w) ==
    \/ pc[w] = "recv" /\ ~Readable(w)
    \/ pc[w] = "send" /\ ~Writable(w)

\* No descriptor comes back any more.
UsedUp ==
    Cardinality({c \in Clients :
                    \/ LeftOpen(c)
                    \/ \E w \in Workers : frame[w].sock = c /\ Waits(w)}) >= limit

\* A worker that has a connection comes back for the next one, unless it waits for
\* ever: in recv for a client that is silent after a full buffer, or in send for
\* one that does not read a big response.  A client that sends nothing at all holds
\* nobody up, and an exception ends no worker unless it ends the process.  Every
\* client that connects to a started server is accepted, unless all workers wait
\* so, or such clients and sockets left open have all the descriptors.
Served ==
    /\ \A w \in Workers :
           \/ InLoop(w) ~> (pc[w] = "accept" \/ crashed)
           \/ <>[]Waits(w)
    /\ \/ \A c \in Clients :
              (conn[c].state = "pending" /\ Started) ~>
                  (conn[c].state # "pending" \/ crashed \/ ~alive)
       \/ <>[](\A w \in Workers : Waits(w))
       \/ <>[]UsedUp

=============================================================================
