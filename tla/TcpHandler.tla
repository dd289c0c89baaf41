----------------------------- MODULE TcpHandler -----------------------------
(***************************************************************************)
(* The TCP serving loop of TarsGo (src/TarsGo/tars/transport/             *)
(* tcphandler.go): one reader goroutine per accepted connection reassembles *)
(* length-prefixed frames from the byte stream (recv), hands each frame to *)
(* the goroutine pool, created on first use, or to a fresh goroutine       *)
(* (handleConn), and the job invokes the servant and writes the reply on   *)
(* the connection.                                                         *)
(*                                                                         *)
(* The clients, the frame parser ts.svr.ParsePackage, the pool gpool and   *)
(* ts.invoke with its numInvoke counter are outside src/ and modelled from *)
(* spec.md.  Time is abstracted to ages: a Tick ages every timer, and an   *)
(* age is capped one past the largest timeout it is compared with, so     *)
(* time is unbounded while the state space stays finite.                   *)
(***************************************************************************)
EXTENDS Integers, Sequences, FiniteSets, SequencesExt

CONSTANTS
  Conns,          \* connections the clients open
  Scripts,        \* per connection, a choice of frame sequences to send
  MaxInvoke,      \* cfg.MaxInvoke: pool size, or <= 0 for a goroutine per job
  QueueCap,       \* cfg.QueueCap: capacity of the pool's JobQueue
  ReadTimeout,    \* cfg.ReadTimeout in ticks, 0 for none
  IdleTimeout,    \* cfg.IdleTimeout in ticks
  NoPool,         \* h.gpool == nil, a model value
  CanShutdown     \* whether the server may be shut down in a behaviour

HDR == 4                         \* the 4-byte big-endian length header
MaxPackageLength == 10485760     \* the largest length the parser accepts

ASSUME MaxInvoke \in Int /\ QueueCap \in Nat \ {0}
ASSUME ReadTimeout \in Nat /\ IdleTimeout \in Nat /\ CanShutdown \in BOOLEAN

VARIABLES
  client,   \* per connection: frames to send, frames sent, and whether
            \* it is "active", has gone "quiet" for good, or "closed" (EOF)
  rd,       \* per connection, its recv goroutine
  idleAge,  \* ticks since h.idleTime: ONE field of the handler, shared
  gpool,    \* h.gpool: NoPool or the index of the current pool
  queue,    \* per pool created, its JobQueue
  jobs,     \* jobs taken by a worker or a goroutine, and their stage
  replies,  \* per connection, the frames whose reply was written
  lost,     \* per connection, the frames whose reply write failed
  dispatched, \* history: per connection, the bodies handed to handleConn
  acceptNum, \* h.acceptNum
  closed,   \* h.ts.isClosed
  hpc,      \* the Handle goroutine: in its accept "loop", or "done"
  released  \* the pools gpool.Release has stopped

shut == <<closed, hpc, released>>
pool == <<gpool, queue, jobs>>
hist == <<replies, lost, dispatched>>
vars == <<client, rd, idleAge, gpool, queue, jobs, replies, lost, dispatched,
         acceptNum, closed, hpc, released>>

-----------------------------------------------------------------------------
(* Framing (ParsePackage, spec.md 4.3).                                    *)

\* binary.BigEndian.Uint32 of the first 4 bytes; a non-zero first byte
\* gives at least 2^24, beyond MaxPackageLength, so its exact value does
\* not matter (and would not fit TLC's integers).
DecodeLength(b) ==
  IF b[1] > 0 THEN MaxPackageLength + 1
  ELSE (b[2] * 256 + b[3]) * 256 + b[4]

PACKAGE_LESS == "less"
PACKAGE_FULL == "full"
PACKAGE_ERROR == "error"

\* ParsePackage(buf): the status, and the frame length when FULL.
ParsePackage(buf) ==
  IF Len(buf) < HDR THEN [status |-> PACKAGE_LESS, len |-> 0]
  ELSE LET n == DecodeLength(SubSeq(buf, 1, HDR)) IN
       IF n < HDR \/ n > MaxPackageLength
       THEN [status |-> PACKAGE_ERROR, len |-> 0]
       ELSE IF Len(buf) < n THEN [status |-> PACKAGE_LESS, len |-> 0]
       ELSE [status |-> PACKAGE_FULL, len |-> n]

\* Reference: the bodies of the frames of a stream read in one piece.
RECURSIVE Bodies(_)
Bodies(s) ==
  LET p == ParsePackage(s) IN
  IF p.status # PACKAGE_FULL THEN <<>>
  ELSE <<SubSeq(s, HDR + 1, p.len)>> \o Bodies(SubSeq(s, p.len + 1, Len(s)))

\* The bytes a client has written: its first k frames.
Stream(frames, k) == FlattenSeq(SubSeq(frames, 1, k))

-----------------------------------------------------------------------------
(* Time.                                                                   *)

IdleCap == IdleTimeout + 1
\* h.idleTime.Add(cfg.IdleTimeout).Before(time.Now())
IdleExpired == idleAge > IdleTimeout


\* A timer that ages by one tick, saturating at IdleCap.
Age(a) == IF a < IdleCap THEN a + 1 ELSE a

-----------------------------------------------------------------------------
(* The clients.  A client writes its frames one write at a time; it may   *)
(* close its side (EOF) whenever it likes, or go quiet for good.          *)

Available(c) == Len(Stream(client[c].frames, client[c].sent)) - rd[c].pos

ClientSend(c) ==
  /\ client[c].mode = "active" /\ client[c].sent < Len(client[c].frames)
  /\ client' = [client EXCEPT ![c].sent = @ + 1]
  /\ UNCHANGED <<rd, idleAge, pool, hist, acceptNum, shut>>

ClientQuiet(c) ==
  /\ client[c].mode = "active"
  /\ client' = [client EXCEPT ![c].mode = "quiet"]
  /\ UNCHANGED <<rd, idleAge, pool, hist, acceptNum, shut>>

ClientClose(c) ==
  /\ client[c].mode = "active"
  /\ client' = [client EXCEPT ![c].mode = "closed"]
  /\ UNCHANGED <<rd, idleAge, pool, hist, acceptNum, shut>>

-----------------------------------------------------------------------------
(* Accept loop (Handle) and the recv loop of each connection.              *)

\* AcceptTCP returns c; its goroutine counts it and enters recv, which
\* stamps h.idleTime.  The loop tested isClosed before it blocked in
\* AcceptTCP, so a connection may still be accepted after Shutdown until
\* the loop tests it again.
Accept(c) ==
  /\ hpc = "loop"
  /\ rd[c].pc = "new"
  /\ rd' = [rd EXCEPT ![c].pc = "read", ![c].quiet = 0]
  /\ idleAge' = 0
  /\ acceptNum' = acceptNum + 1
  /\ UNCHANGED <<client, pool, hist, shut>>

\* Mutant of RecvLoops: the loop does not test isClosed.
RecvLoopsIgnoringClosed == TRUE

\* for !h.ts.isClosed: the test of the recv loop.
RecvLoops == ~closed

\* Top of the recv loop: while !h.ts.isClosed, arm the read deadline and
\* block in conn.Read.
ReadStart(c) ==
  /\ rd[c].pc = "read"
  /\ RecvLoops
  /\ rd' = [rd EXCEPT ![c].pc = "reading", ![c].readLeft = ReadTimeout]
  /\ UNCHANGED <<client, idleAge, pool, hist, acceptNum, shut>>

\* The loop test finds the server closed: recv returns, the deferred
\* conn.Close runs and the goroutine uncounts the connection.
ReadShutdown(c) ==
  /\ rd[c].pc = "read"
  /\ closed
  /\ rd' = [rd EXCEPT ![c].pc = "closed", ![c].why = "shutdown"]
  /\ acceptNum' = acceptNum - 1
  /\ UNCHANGED <<client, idleAge, pool, hist, shut>>

\* Read returns n bytes, appended to currBuffer.
ReadData(c, n) ==
  LET s == Stream(client[c].frames, client[c].sent) IN
  /\ rd[c].pc = "reading"
  /\ n \in 1 .. Available(c)
  /\ rd' = [rd EXCEPT ![c].pc = "parse", ![c].quiet = 0,
                      ![c].buf = @ \o SubSeq(s, rd[c].pos + 1, rd[c].pos + n),
                      ![c].pos = @ + n]
  /\ UNCHANGED <<client, idleAge, pool, hist, acceptNum, shut>>

\* Read fails: a timeout once the deadline has passed, EOF once the client
\* has closed and every byte was read.
TimedOut(c) == ReadTimeout # 0 /\ rd[c].readLeft = 0 /\ Available(c) = 0
AtEOF(c) == client[c].mode = "closed" /\ Available(c) = 0

NumInvoke == Cardinality({j \in jobs : j.stage = "invoking"})

\* The early return of the error branch: nothing buffered, no invocation
\* running in the whole server, and h.idleTime older than IdleTimeout.
Idle(c) == Len(rd[c].buf) = 0 /\ NumInvoke = 0 /\ IdleExpired

Close(c, why) == rd' = [rd EXCEPT ![c].pc = "closed", ![c].why = why]

ReadIdleClose(c) ==
  /\ rd[c].pc = "reading"
  /\ TimedOut(c) \/ AtEOF(c)
  /\ Idle(c)
  /\ Close(c, "idle")
  /\ acceptNum' = acceptNum - 1
  /\ UNCHANGED <<client, idleAge, pool, hist, shut>>

\* A timeout (isNoDataError): stamp h.idleTime and loop.
ReadRetry(c) ==
  /\ rd[c].pc = "reading"
  /\ TimedOut(c) /\ ~Idle(c)
  /\ idleAge' = 0
  /\ rd' = [rd EXCEPT ![c].pc = "read"]
  /\ UNCHANGED <<client, pool, hist, acceptNum, shut>>

\* EOF or another I/O error: stamp h.idleTime and return.
ReadClose(c) ==
  /\ rd[c].pc = "reading"
  /\ AtEOF(c) /\ ~Idle(c)
  /\ idleAge' = 0
  /\ Close(c, "eof")
  /\ acceptNum' = acceptNum - 1
  /\ UNCHANGED <<client, pool, hist, shut>>

\* The parse loop, one ParsePackage at a time.  LESS: read more.
ParseLess(c) ==
  /\ rd[c].pc = "parse"
  /\ ParsePackage(rd[c].buf).status = PACKAGE_LESS
  /\ rd' = [rd EXCEPT ![c].pc = "read"]
  /\ UNCHANGED <<client, idleAge, pool, hist, acceptNum, shut>>

\* A corrupt header ends the connection.
ParseError(c) ==
  /\ rd[c].pc = "parse"
  /\ ParsePackage(rd[c].buf).status = PACKAGE_ERROR
  /\ Close(c, "error")
  /\ acceptNum' = acceptNum - 1
  /\ UNCHANGED <<client, idleAge, pool, hist, shut>>

\* Mutant of AfterDispatch: break instead of continue, leaving the rest of
\* currBuffer for after the next Read.
AfterDispatchBreak(buf) == "read"

\* Where the parse loop goes after handleConn returns.
AfterDispatch(buf) == IF Len(buf) > 0 THEN "parse" ELSE "read"

Job(c, k, pkg) == [c |-> c, k |-> k, pkg |-> pkg, pool |-> NoPool,
                   stage |-> "queued"]

\* Mutant of Body: the copy starts one byte early, at currBuffer[3].
BodyFromHeader(buf, n) == SubSeq(buf, HDR, n)

\* pkg := make([]byte, pkgLen-4); copy(pkg, currBuffer[4:pkgLen])
Body(buf, n) == SubSeq(buf, HDR + 1, n)

\* The parse loop of recv run to its end over currBuffer: the bodies it
\* hands to handleConn, what it leaves in currBuffer, and whether recv
\* returned on a corrupt header.
RECURSIVE ParseLoop(_)
ParseLoop(buf) ==
  LET p    == ParsePackage(buf)
      rest == SubSeq(buf, p.len + 1, Len(buf))
      more == IF AfterDispatch(rest) = "parse" THEN ParseLoop(rest)
              ELSE [out |-> <<>>, buf |-> rest, stop |-> FALSE]
  IN  CASE p.status = PACKAGE_LESS  -> [out |-> <<>>, buf |-> buf, stop |-> FALSE]
        [] p.status = PACKAGE_ERROR -> [out |-> <<>>, buf |-> buf, stop |-> TRUE]
        [] OTHER -> [more EXCEPT !.out = <<Body(buf, p.len)>> \o @]

\* recv over a sequence of Reads, each returning the next chunk: what it
\* appends to currBuffer is parsed before the next Read.
RECURSIVE RecvChunks(_, _)
RecvChunks(chunks, st) ==
  IF chunks = <<>> \/ st.stop THEN st.out
  ELSE LET r == ParseLoop(st.buf \o Head(chunks))
       IN  RecvChunks(Tail(chunks), [r EXCEPT !.out = st.out \o @])

\* FULL: copy the body, cut the frame off currBuffer and call handleConn.
\* Without a pool (MaxInvoke <= 0) handleConn starts a goroutine and
\* returns; with one it goes on to the pool (PoolCheck).
ParseFull(c) ==
  LET n    == ParsePackage(rd[c].buf).len
      pkg  == Body(rd[c].buf, n)
      rest == SubSeq(rd[c].buf, n + 1, Len(rd[c].buf))
      k    == rd[c].k + 1
  IN
  /\ rd[c].pc = "parse"
  /\ ParsePackage(rd[c].buf).status = PACKAGE_FULL
  /\ dispatched' = [dispatched EXCEPT ![c] = Append(@, pkg)]
  /\ IF MaxInvoke > 0
     THEN /\ rd' = [rd EXCEPT ![c].pc = "pool", ![c].buf = rest, ![c].k = k]
          /\ UNCHANGED jobs
     ELSE /\ rd' = [rd EXCEPT ![c].pc = AfterDispatch(rest), ![c].buf = rest,
                              ![c].k = k]
          /\ jobs' = jobs \cup {[Job(c, k, pkg) EXCEPT !.pool = "go",
                                                       !.stage = "started"]}
  /\ UNCHANGED <<client, idleAge, gpool, queue, replies, lost, acceptNum, shut>>

\* handleConn: if h.gpool == nil ...  The check and the assignment below
\* are separate steps: nothing orders them across readers.
PoolCheck(c) ==
  /\ rd[c].pc = "pool"
  /\ rd' = [rd EXCEPT ![c].pc = IF gpool = NoPool THEN "create" ELSE "submit"]
  /\ UNCHANGED <<client, idleAge, pool, hist, acceptNum, shut>>

\* Mutant of AddPool: the replaced pool is released with its queue,
\* dropping the jobs still queued in it.
AddPoolReleasingOld(q) == Append([p \in DOMAIN q |-> <<>>], <<>>)

\* gpool.NewPool: a pool with an empty JobQueue joins those created.
AddPool(q) == Append(q, <<>>)

\* ... h.gpool = gpool.NewPool(MaxInvoke, QueueCap): a new pool, with
\* MaxInvoke workers of its own, replaces whatever h.gpool holds.
PoolCreate(c) ==
  /\ rd[c].pc = "create"
  /\ queue' = AddPool(queue)
  /\ gpool' = Len(queue) + 1
  /\ rd' = [rd EXCEPT ![c].pc = "submit"]
  /\ UNCHANGED <<client, idleAge, jobs, hist, acceptNum, shut>>

\* h.gpool.JobQueue <- handler: blocks while the queue of the pool that
\* h.gpool holds now is full.
Submit(c) ==
  LET p == gpool IN
  /\ rd[c].pc = "submit"
  /\ Len(queue[p]) < QueueCap
  /\ queue' = [queue EXCEPT ![p] = Append(@, Job(c, rd[c].k, Last(dispatched[c])))]
  /\ rd' = [rd EXCEPT ![c].pc = AfterDispatch(rd[c].buf)]
  /\ UNCHANGED <<client, idleAge, gpool, jobs, hist, acceptNum, shut>>

-----------------------------------------------------------------------------
(* The jobs: the handler closure of handleConn, run by a pool worker or by *)
(* its own goroutine.                                                      *)

Busy(p) == Cardinality({j \in jobs : j.pool = p})

\* A free worker of pool p takes the job at the head of its queue.
Dequeue(p) ==
  /\ p \notin released
  /\ queue[p] # <<>>
  /\ Busy(p) < MaxInvoke
  /\ jobs' = jobs \cup {[Head(queue[p]) EXCEPT !.pool = p, !.stage = "started"]}
  /\ queue' = [queue EXCEPT ![p] = Tail(@)]
  /\ UNCHANGED <<client, rd, idleAge, gpool, hist, acceptNum, shut>>

\* The handler has built its context: ts.invoke counts the invocation.
InvokeBegin(j) ==
  /\ j.stage = "started"
  /\ jobs' = (jobs \ {j}) \cup {[j EXCEPT !.stage = "invoking"]}
  /\ UNCHANGED <<client, rd, idleAge, gpool, queue, hist, acceptNum, shut>>

\* ts.invoke returns the reply and stops counting the invocation.
InvokeEnd(j) ==
  /\ j.stage = "invoking"
  /\ jobs' = (jobs \ {j}) \cup {[j EXCEPT !.stage = "writing"]}
  /\ UNCHANGED <<client, rd, idleAge, gpool, queue, hist, acceptNum, shut>>

\* conn.Write(rsp): fails, and is only logged, once recv has closed conn.
WriteReply(j) ==
  /\ j.stage = "writing"
  /\ jobs' = jobs \ {j}
  /\ IF rd[j.c].pc = "closed"
     THEN /\ lost' = [lost EXCEPT ![j.c] = @ \cup {j.k}]
          /\ UNCHANGED replies
     ELSE /\ replies' = [replies EXCEPT ![j.c] = @ \cup {j.k}]
          /\ UNCHANGED lost
  /\ UNCHANGED <<client, rd, idleAge, gpool, queue, dispatched, acceptNum, shut>>

\* Mutant of CountDown: the read deadline counts down past zero.
CountDownNoFloor(t) == t - 1

\* The time left before a read deadline, one tick later.
CountDown(t) == IF t > 0 THEN t - 1 ELSE t

\* Time passes: timers age, read deadlines run out.
Tick ==
  /\ idleAge' = Age(idleAge)
  /\ rd' = [c \in Conns |->
              [rd[c] EXCEPT
                 !.quiet = IF rd[c].pc \in {"new", "closed"} THEN @ ELSE Age(@),
                 !.readLeft = IF rd[c].pc = "reading" THEN CountDown(@) ELSE @]]
  /\ UNCHANGED <<client, pool, hist, acceptNum, shut>>

-----------------------------------------------------------------------------
(* Shutdown.                                                               *)

\* The server sets isClosed; nothing else tells the two loops.
Shutdown ==
  /\ CanShutdown /\ ~closed
  /\ closed' = TRUE
  /\ UNCHANGED <<client, rd, idleAge, pool, hist, acceptNum, hpc, released>>

\* The accept loop finds isClosed set and leaves: if h.gpool != nil,
\* h.gpool.Release() stops the workers of the pool h.gpool holds now.
HandleExit ==
  /\ hpc = "loop" /\ closed
  /\ hpc' = "done"
  /\ released' = IF gpool = NoPool THEN released ELSE released \cup {gpool}
  /\ UNCHANGED <<client, rd, idleAge, pool, hist, acceptNum, closed>>

-----------------------------------------------------------------------------

Init ==
  /\ client \in [Conns -> [frames : Scripts, sent : {0}, mode : {"active"}]]
  /\ rd = [c \in Conns |-> [pc |-> "new", buf |-> <<>>, pos |-> 0, k |-> 0,
                            readLeft |-> 0, quiet |-> 0, why |-> "open"]]
  /\ idleAge = 0
  /\ gpool = NoPool
  /\ queue = <<>>
  /\ jobs = {}
  /\ replies = [c \in Conns |-> {}]
  /\ lost = [c \in Conns |-> {}]
  /\ dispatched = [c \in Conns |-> <<>>]
  /\ acceptNum = 0
  /\ closed = FALSE
  /\ hpc = "loop"
  /\ released = {}

Reader(c) ==
  \/ Accept(c) \/ ReadStart(c) \/ ReadShutdown(c) \/ \E n \in 1 .. Available(c) : ReadData(c, n)
  \/ ReadIdleClose(c) \/ ReadRetry(c) \/ ReadClose(c)
  \/ ParseLess(c) \/ ParseError(c) \/ ParseFull(c)
  \/ PoolCheck(c) \/ PoolCreate(c) \/ Submit(c)

Worker(j) == InvokeBegin(j) \/ InvokeEnd(j) \/ WriteReply(j)

Next ==
  \/ \E c \in Conns :
       ClientSend(c) \/ ClientQuiet(c) \/ ClientClose(c) \/ Reader(c)
  \/ \E p \in DOMAIN queue : Dequeue(p)
  \/ \E j \in jobs : Worker(j)
  \/ Tick
  \/ Shutdown \/ HandleExit

\* Goroutines the Go scheduler keeps running, and time, progress; clients
\* are under no obligation to send or close, nor the server to shut down.
Fairness ==
  /\ \A c \in Conns : WF_vars(Reader(c))
  /\ \A p \in 1 .. Cardinality(Conns) : WF_vars(p \in DOMAIN queue /\ Dequeue(p))
  /\ WF_vars(\E j \in jobs : Worker(j))
  /\ WF_vars(Tick)
  /\ WF_vars(HandleExit)

Spec == Init /\ [][Next]_vars /\ Fairness

-----------------------------------------------------------------------------
(* Properties.                                                             *)

Bytes == 0 .. 255
Stages == {"queued", "started", "invoking", "writing"}
\* The bodies of the first k frames of each script, computed once.
ScriptBodies == [f \in Scripts |-> [k \in 0 .. Len(f) |-> Bodies(Stream(f, k))]]
AllBodies(c) == ScriptBodies[client[c].frames][Len(client[c].frames)]

TypeOK ==
  /\ client \in [Conns -> [frames : Scripts, sent : Nat,
                           mode : {"active", "quiet", "closed"}]]
  /\ rd \in [Conns -> [pc : {"new", "read", "reading", "parse", "pool",
                             "create", "submit", "closed"},
                       buf : Seq(Bytes), pos : Nat, k : Nat,
                       readLeft : 0 .. ReadTimeout, quiet : 0 .. IdleCap,
                       why : {"open", "idle", "eof", "error", "shutdown"}]]
  /\ idleAge \in 0 .. IdleCap
  /\ gpool \in {NoPool} \cup 1 .. Cardinality(Conns)
  /\ queue \in Seq(Seq([c : Conns, k : Nat, pkg : Seq(Bytes),
                        pool : {NoPool}, stage : {"queued"}]))
  /\ \A j \in jobs : j.c \in Conns /\ j.stage \in Stages \ {"queued"}
  /\ replies \in [Conns -> SUBSET Nat] /\ lost \in [Conns -> SUBSET Nat]
  /\ dispatched \in [Conns -> Seq(Seq(Bytes))]
  /\ acceptNum \in 0 .. Cardinality(Conns)
  /\ closed \in BOOLEAN /\ hpc \in {"loop", "done"}
  /\ released \subseteq 1 .. Cardinality(Conns)

\* The Reads that deliver s when TCP cuts it after the positions in cuts.
RECURSIVE Chunking(_, _)
Chunking(s, cuts) ==
  IF cuts = {} THEN <<s>>
  ELSE LET i == Min(cuts) IN
       <<SubSeq(s, 1, i)>> \o
         Chunking(SubSeq(s, i + 1, Len(s)), {j - i : j \in cuts \ {i}})

\* Every frame some client script sends.
Frames == UNION {Range(f) : f \in Scripts}

\* What a client may have put on the wire: a prefix of its script, then
\* any one frame more.
FramerStreams ==
  UNION {{Stream(f, k) \o g : k \in 0 .. Len(f), g \in Frames} : f \in Scripts}

\* Per stream, whether recv's parse loop agrees with Bodies under every
\* cutting; a constant table, computed once.
RecvAgrees ==
  [s \in FramerStreams |->
     \A cuts \in SUBSET (1 .. Len(s) - 1) :
       RecvChunks(Chunking(s, cuts), [out |-> <<>>, buf |-> <<>>, stop |-> FALSE])
         = Bodies(s)]

(* Chunking invariance of the parse loop alone (spec.md section 8), on    *)
(* streams longer than the state machine delivers: whatever a client has  *)
(* sent, followed by any next frame, and however TCP cuts it into Reads,  *)
(* the bodies recv's parse loop hands to handleConn (tcphandler.go:       *)
(* 152-174) are the frames of the whole stream, and a corrupt header ends *)
(* it at the same frame.                                                  *)
ParseLoopChunkingInvariant ==
  \A c \in Conns, g \in Frames :
    RecvAgrees[Stream(client[c].frames, client[c].sent) \o g]

(* Chunking invariance (spec.md section 8): however TCP splits the stream  *)
(* over Reads, the bodies recv hands to handleConn, in order, are those of *)
(* the frames read from the whole stream at once (tcphandler.go:152-174).  *)
FramesIntact ==
  \A c \in Conns : IsPrefix(dispatched[c], AllBodies(c))

(* Every frame handed to handleConn is answered on its connection while   *)
(* the client keeps it open: the pool, however many handleConn created,   *)
(* or the goroutines, run each job to its conn.Write (tcphandler.go:47-81). *)
MaxFrames == Max({Len(Bodies(FlattenSeq(f))) : f \in Scripts})

RepliesDelivered ==
  \A c \in Conns : \A k \in 1 .. MaxFrames :
    (Len(dispatched[c]) >= k /\ client[c].mode # "closed")
      ~> (k \in replies[c] \/ client[c].mode = "closed")

(* "The number of concurrently executing jobs never exceeds maxInvoke"     *)
(* (spec.md section 3) for a pooled handler (tcphandler.go:72-77).         *)
ConcurrencyCap ==
  MaxInvoke > 0 => Cardinality(jobs) <= MaxInvoke

(* A connection its client still holds open is closed as idle only when   *)
(* it is (spec.md 3, 4.4): no byte received for longer than IdleTimeout   *)
(* and no request of it still unanswered, so no reply is lost to the      *)
(* close (the early return of recv, tcphandler.go:137-139).               *)
IdleCloseOnlyWhenIdle ==
  \A c \in Conns :
    rd[c].why = "idle" /\ client[c].mode # "closed" =>
      rd[c].quiet > IdleTimeout /\ lost[c] = {}

(* A connection whose client has gone quiet is eventually closed by the   *)
(* idle timeout (spec.md section 8).                                       *)
IdleConnectionsClosed ==
  \A c \in Conns : client[c].mode = "quiet" ~> rd[c].pc = "closed"

(* Once the server is closed, the accept loop ends and every connection  *)
(* goroutine returns (spec.md 4.5, 5: the closed flag is the readers' only *)
(* cancellation signal); a reader blocked in conn.Read only sees the flag *)
(* when a read deadline wakes it (tcphandler.go:87, 129-133).             *)
ReadersStopAfterShutdown ==
  closed ~> (hpc = "done" /\ \A c \in Conns : rd[c].pc \in {"new", "closed"})

(* When Handle has returned, every pool the handler created has been      *)
(* released, so no worker goroutine outlives the server (spec.md 4.5,     *)
(* tcphandler.go:113-115).                                                 *)
PoolsReleased ==
  hpc = "done" => \A p \in 1 .. Len(queue) : p \in released

-----------------------------------------------------------------------------
(* Refinement.  Each connection implements RequestStream: its requests are *)
(* the bodies of the client's frames, one is written out in full once its *)
(* last byte is sent, it is delivered when recv hands it to handleConn,    *)
(* handled when its job ends in conn.Write, and the server has closed the *)
(* connection once recv has returned, or once Handle has returned before *)
(* accepting it.                                                           *)

Abs == INSTANCE RequestStream WITH
  Requests  <- {ScriptBodies[f][Len(f)] : f \in Scripts},
  reqs      <- [c \in Conns |-> AllBodies(c)],
  sent      <- [c \in Conns |-> Len(ScriptBodies[client[c].frames][client[c].sent])],
  delivered <- dispatched,
  answered  <- [c \in Conns |-> replies[c] \cup lost[c]],
  open      <- [c \in Conns |-> rd[c].pc # "closed"
                                  /\ ~(rd[c].pc = "new" /\ hpc = "done")]

(* recv and handleConn implement the connection's promise: a frame is     *)
(* handed on only once complete, in order and once, and every complete    *)
(* frame is handed on while recv runs, however the bytes were split over  *)
(* Reads, because the parse loop goes on while currBuffer holds bytes     *)
(* (tcphandler.go:152-174); every job ends in a write (47-81).            *)
ImplementsRequestStream == Abs!Spec

====
