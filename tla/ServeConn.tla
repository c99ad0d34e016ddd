------------------------------ MODULE ServeConn ------------------------------
(***************************************************************************)
(* Server.serveConn (server.go): the loop that serves the requests of one   *)
(* connection, for several connections at a time, with what they share:    *)
(* the pools of RequestCtx, bufio.Reader and bufio.Writer objects and the  *)
(* server's KeepHijackedConns; and hijackConnHandler, the goroutine a      *)
(* hijacked connection is handed to.                                       *)
(* The steps of serveConn are its phases: idle, header, body, handler,     *)
(* response, hijack or next request, and the end.  A client, a deadline    *)
(* call or the handler does anything it may do.                            *)
(* A definition D_Fault just before D is D with a plausible fault; no spec *)
(* uses it.                                                                *)
(***************************************************************************)
EXTENDS Naturals, FiniteSets

CONSTANTS
  Conns, Ctxs, Readers, Writers, Nil,
  Options,      \* the configurations of a Server to be checked
  MaxRequests   \* bound: requests on a connection

\* The fields of Server that steer serveConn (a timeout is set or not set) and
\* the ways the handler may hijack the connection.
OptionType ==
  [ReduceMemoryUsage : BOOLEAN, ReadTimeout : BOOLEAN, IdleTimeout : BOOLEAN,
   WriteTimeout : BOOLEAN, HeaderReceived : BOOLEAN, ErrorHandler : BOOLEAN,
   StreamRequestBody : BOOLEAN, TLS : BOOLEAN, KeepHijackedConns : BOOLEAN,
   hijacks : SUBSET {"handler", "noResponse", "conn"}]

ASSUME ServeConnAssumption ==
  /\ Options \subseteq OptionType
  /\ Nil \notin Ctxs \cup Readers \cup Writers
  /\ Ctxs \cap Readers = {} /\ Ctxs \cap Writers = {} /\ Readers \cap Writers = {}
  /\ MaxRequests \in Nat

VARIABLES
  opt,        \* the configuration
  keep,       \* s.KeepHijackedConns now
  out,        \* the pooled objects that were taken and not put back
  pc, num,    \* the phase, connRequestNum
  ctx, br, bw,
  resp,       \* responseStr is not empty
  sent,       \* final responses written for the current request
  connTime,   \* ctx.connTime is set
  first,      \* the first byte acquireByteReader passed on: plain or raw
  rt, wt,     \* readTimeout, writeTimeout: set or not
  rd, wd,     \* the connection's deadlines: "none", "idle", "read", "write"
  hh,         \* hijackHandler: "none", "handler", "noResponse"
  closing,    \* connectionClose
  hijacked,   \* err is errHijacked
  netClosed,  \* the net.Conn is closed
  hpc,        \* hijackConnHandler: "none", "run", "end", "kept", "done"
  hctx, hbr   \* its ctx and its reader

objVars == <<out, ctx, br, bw>>
timeVars == <<rt, wt, rd, wd>>
hijackVars == <<keep, hpc, hctx, hbr, netClosed>>
reqVars == <<resp, sent, connTime, first, hh, closing, hijacked>>
vars == <<opt, pc, num, objVars, timeVars, hijackVars, reqVars>>

PCs == {"start", "loop", "peek", "byteRead", "header", "body", "handle", "respond",
        "after", "break", "errorHandler", "release", "returned"}

TypeOK ==
  /\ opt \in Options
  /\ keep \in BOOLEAN
  /\ out \subseteq Ctxs \cup Readers \cup Writers
  /\ pc \in [Conns -> PCs]
  /\ num \in [Conns -> 0..MaxRequests]
  /\ ctx \in [Conns -> Ctxs \cup {Nil}] /\ hctx \in [Conns -> Ctxs \cup {Nil}]
  /\ br \in [Conns -> Readers \cup {Nil}] /\ hbr \in [Conns -> Readers \cup {Nil}]
  /\ bw \in [Conns -> Writers \cup {Nil}]
  /\ {resp, connTime, rt, wt, closing, hijacked, netClosed} \subseteq [Conns -> BOOLEAN]
  /\ sent \in [Conns -> 0..2]
  /\ first \in [Conns -> {"none", "plain", "raw"}]
  /\ rd \in [Conns -> {"none", "idle", "read"}]
  /\ wd \in [Conns -> {"none", "write"}]
  /\ hh \in [Conns -> {"none", "handler", "noResponse"}]
  /\ hpc \in [Conns -> {"none", "run", "end", "kept", "done"}]

Init ==
  /\ opt \in Options
  /\ keep = opt.KeepHijackedConns
  /\ out = {}
  /\ pc = [c \in Conns |-> "start"]
  /\ num = [c \in Conns |-> 0]
  /\ ctx = [c \in Conns |-> Nil] /\ hctx = [c \in Conns |-> Nil]
  /\ br = [c \in Conns |-> Nil] /\ hbr = [c \in Conns |-> Nil]
  /\ bw = [c \in Conns |-> Nil]
  /\ resp = [c \in Conns |-> FALSE]
  /\ sent = [c \in Conns |-> 0]
  /\ connTime = [c \in Conns |-> FALSE]
  /\ first = [c \in Conns |-> "none"]
  /\ rt = [c \in Conns |-> opt.ReadTimeout]
  /\ wt = [c \in Conns |-> opt.WriteTimeout]
  /\ rd = [c \in Conns |-> "none"]
  /\ wd = [c \in Conns |-> "none"]
  /\ hh = [c \in Conns |-> "none"]
  /\ closing = [c \in Conns |-> FALSE]
  /\ hijacked = [c \in Conns |-> FALSE]
  /\ netClosed = [c \in Conns |-> FALSE]
  /\ hpc = [c \in Conns |-> "none"]

Set(f, c, v) == [f EXCEPT ![c] = v]
GoTo(c, l) == pc' = Set(pc, c, l)
\* The loop is left; nothing but the listed request state changes.
Break(c) == GoTo(c, "break")

\* sync.Pool.Get: a pooled object, or a new one; never one that is out.
Free(Objs) == Objs \ out
-----------------------------------------------------------------------------
(* Waiting for a request *)

\* getNextProto fails, or a nextProtos handler serves the connection; otherwise
\* serveConn begins.
Start(c) ==
  /\ pc[c] = "start"
  /\ \/ /\ GoTo(c, "returned")
        /\ netClosed' = Set(netClosed, c, TRUE)
        /\ UNCHANGED <<ctx, out, connTime>>
     \/ \E x \in Free(Ctxs) :
          /\ ctx' = Set(ctx, c, x)
          /\ out' = out \cup {x}
          /\ connTime' = Set(connTime, c, TRUE)
          /\ GoTo(c, "loop")
          /\ UNCHANGED netClosed
  /\ UNCHANGED <<opt, num, br, bw, timeVars, keep, hpc, hctx, hbr, resp, sent, first,
                 hh, closing, hijacked>>

\* The deadline while the next request is awaited (idleTimeout).
IdleDeadline(c) ==
  IF num[c] >= 1 /\ (opt.IdleTimeout \/ opt.ReadTimeout) THEN "idle" ELSE rd[c]

\* The head of the loop when a reader is kept between requests.
LoopReader(c) ==
  /\ pc[c] = "loop"
  /\ num[c] < MaxRequests
  /\ ~opt.ReduceMemoryUsage \/ br[c] # Nil
  /\ num' = Set(num, c, num[c] + 1)
  /\ rd' = Set(rd, c, IdleDeadline(c))
  /\ \/ Break(c) /\ UNCHANGED <<br, out>>
     \/ /\ GoTo(c, IF num[c] >= 1 THEN "peek" ELSE "header")
        /\ \/ br[c] # Nil /\ UNCHANGED <<br, out>>
           \/ /\ br[c] = Nil
              /\ \E r \in Free(Readers) :
                   /\ br' = Set(br, c, r)
                   /\ out' = out \cup {r}
  /\ UNCHANGED <<opt, ctx, bw, rt, wt, wd, hijackVars, reqVars>>

\* br.Peek(1), blocking until the next request, an error or the deadline.
Peek(c) ==
  /\ pc[c] = "peek"
  /\ GoTo(c, "header") \/ Break(c)
  /\ UNCHANGED <<opt, num, objVars, timeVars, hijackVars, reqVars>>

\* The head of the loop with ReduceMemoryUsage: acquireByteReader, which gives ctx
\* back while it blocks, unless a byte is there already (read from the TCP
\* connection, below TLS).
LoopNoReader(c) ==
  /\ pc[c] = "loop"
  /\ num[c] < MaxRequests
  /\ opt.ReduceMemoryUsage /\ br[c] = Nil
  /\ num' = Set(num, c, num[c] + 1)
  /\ rd' = Set(rd, c, IF num[c] = 0 /\ rt[c] THEN "read" ELSE IdleDeadline(c))
  /\ \/ /\ Break(c)
        /\ UNCHANGED <<ctx, br, out, connTime, first, netClosed>>
     \/ /\ num[c] = 0 /\ rt[c]
        /\ GoTo(c, "returned")
        /\ netClosed' = Set(netClosed, c, TRUE)
        /\ UNCHANGED <<ctx, br, out, connTime, first>>
     \/ \E r \in Free(Readers) :
          /\ br' = Set(br, c, r)
          /\ out' = out \cup {r}
          /\ first' = Set(first, c, IF opt.TLS THEN "raw" ELSE "plain")
          /\ GoTo(c, "header")
          /\ UNCHANGED <<ctx, connTime, netClosed>>
     \/ /\ out' = out \ {ctx[c]}
        /\ ctx' = Set(ctx, c, Nil)
        /\ connTime' = Set(connTime, c, FALSE)
        /\ GoTo(c, "byteRead")
        /\ UNCHANGED <<br, first, netClosed>>
  /\ UNCHANGED <<opt, bw, rt, wt, wd, keep, hpc, hctx, hbr, resp, sent, hh, closing,
                 hijacked>>

\* acquireByteReader, slow path: the blocking read returns.
ByteRead(c) ==
  /\ pc[c] = "byteRead"
  /\ \/ Break(c) /\ UNCHANGED <<ctx, br, out, first>>
     \/ \E x \in Free(Ctxs), r \in Free(Readers) :
          /\ ctx' = Set(ctx, c, x)
          /\ br' = Set(br, c, r)
          /\ out' = out \cup {x, r}
          /\ first' = Set(first, c, "plain")
          /\ GoTo(c, "header")
  /\ UNCHANGED <<opt, num, bw, timeVars, hijackVars, resp, sent, connTime, hh, closing,
                 hijacked>>
-----------------------------------------------------------------------------
(* Reading a request *)

\* The read deadline under which the header is read.
HeaderDeadline(c) ==
  IF rt[c] THEN IF ~opt.ReduceMemoryUsage \/ num[c] # 1 THEN "read" ELSE rd[c]
  ELSE IF opt.IdleTimeout /\ num[c] > 1 THEN "none" ELSE rd[c]

RespAfterWrite_Kept == TRUE
RespAfterWrite == FALSE

\* The header: a failed deadline call or connection, a bad header or method
\* (answered after the loop), or a good one, with the timeouts HeaderReceived sets
\* for this request and the answer to Expect: 100-continue.
ReadHeader(c) ==
  /\ pc[c] = "header"
  /\ \/ /\ Break(c)
        /\ rd' = Set(rd, c, HeaderDeadline(c))
        /\ resp' \in {resp, Set(resp, c, TRUE)}
        /\ UNCHANGED <<rt, wt, sent>>
     \/ /\ \E r, w \in (IF opt.HeaderReceived THEN BOOLEAN ELSE {FALSE}) :
             /\ rt' = Set(rt, c, opt.ReadTimeout \/ r)
             /\ wt' = Set(wt, c, opt.WriteTimeout \/ w)
             /\ rd' = Set(rd, c, IF r THEN "read" ELSE HeaderDeadline(c))
        /\ \/ /\ GoTo(c, "body")
              /\ UNCHANGED <<resp, sent>>
           \/ /\ Break(c)
              /\ resp' = Set(resp, c, RespAfterWrite)
              /\ sent' = Set(sent, c, sent[c] + 1)
  /\ UNCHANGED <<opt, num, objVars, wd, hijackVars, connTime, first, hh, closing, hijacked>>

\* The body; with ReduceMemoryUsage an empty reader is given back.
ReadBody(c) ==
  /\ pc[c] = "body"
  /\ \/ /\ Break(c)
        /\ resp' = Set(resp, c, TRUE)
        /\ UNCHANGED <<br, out, closing>>
     \/ /\ GoTo(c, "handle")
        /\ \E close \in BOOLEAN : closing' = Set(closing, c, close)
        /\ \/ UNCHANGED <<br, out>>
           \/ /\ opt.ReduceMemoryUsage /\ ~opt.StreamRequestBody
              /\ out' = out \ {br[c]}
              /\ br' = Set(br, c, Nil)
        /\ UNCHANGED resp
  /\ UNCHANGED <<opt, num, ctx, bw, timeVars, hijackVars, sent, connTime, first, hh,
                 hijacked>>

\* The handler.  A request body stream is closed after it, under a deadline of its
\* own.  HijackConn ends the loop and makes the server keep hijacked connections.
Handle(c) ==
  /\ pc[c] = "handle"
  /\ rd' \in {rd} \cup (IF opt.StreamRequestBody /\ rt[c] THEN {Set(rd, c, "none")} ELSE {})
  /\ \/ /\ opt.StreamRequestBody
        /\ Break(c)
        /\ UNCHANGED <<keep, hijacked, hh>>
     \/ /\ \E h \in {"none"} \cup (opt.hijacks \ {"conn"}) : hh' = Set(hh, c, h)
        /\ GoTo(c, "respond")
        /\ UNCHANGED <<keep, hijacked>>
  /\ UNCHANGED <<opt, num, objVars, rt, wt, wd, hpc, hctx, hbr, netClosed, resp, sent,
                 connTime, first, closing>>

HijackConn(c) ==
  /\ pc[c] = "handle"
  /\ "conn" \in opt.hijacks
  /\ keep' = TRUE
  /\ hijacked' = Set(hijacked, c, TRUE)
  /\ rd' = Set(rd, c, IF rt[c] THEN "none" ELSE rd[c])
  /\ Break(c)
  /\ UNCHANGED <<opt, num, objVars, rt, wt, wd, hpc, hctx, hbr, netClosed, resp, sent,
                 connTime, first, hh, closing>>
-----------------------------------------------------------------------------
(* Answering it *)

\* The response, unless the hijack asks for none: a failure or a connection to be
\* closed ends the loop.
Respond(c) ==
  /\ pc[c] = "respond"
  /\ wd' = Set(wd, c, IF wt[c] THEN "write" ELSE wd[c])
  /\ \E close \in {closing[c], TRUE} : closing' = Set(closing, c, close)
  /\ \/ Break(c) /\ UNCHANGED <<bw, out, sent>>
     \/ /\ hh[c] = "noResponse"
        /\ GoTo(c, "after")
        /\ UNCHANGED <<bw, out, sent>>
     \/ /\ hh[c] # "noResponse"
        /\ sent' = Set(sent, c, sent[c] + 1)
        /\ \E w \in IF bw[c] = Nil THEN Free(Writers) ELSE {bw[c]} :
             \/ /\ Break(c)
                /\ bw' = Set(bw, c, w)
                /\ out' = out \cup {w}
             \/ /\ ~closing'[c]
                /\ GoTo(c, "after")
                /\ bw' = Set(bw, c, IF opt.ReduceMemoryUsage THEN Nil ELSE w)
                /\ out' = IF opt.ReduceMemoryUsage THEN out \ {w} ELSE out \cup {w}
  /\ UNCHANGED <<opt, num, ctx, br, rt, wt, rd, hijackVars, resp, connTime, first, hh,
                 hijacked>>

ReaderAfterHijack_Kept(c) == br[c]
ReaderAfterHijack(c) == Nil

HijackDeadline(c, d) == IF wt[c] \/ rt[c] THEN "none" ELSE d

\* A hijack handler gets the connection, the reader and ctx, unless the deadlines
\* cannot be cleared.
Hijack(c) ==
  /\ pc[c] = "after"
  /\ hh[c] # "none"
  /\ Break(c)
  /\ br' = Set(br, c, ReaderAfterHijack(c))
  /\ \/ UNCHANGED <<hpc, hctx, hbr, hijacked, rd, wd>>
     \/ /\ rd' = Set(rd, c, HijackDeadline(c, rd[c]))
        /\ wd' = Set(wd, c, HijackDeadline(c, wd[c]))
        /\ hpc' = Set(hpc, c, "run")
        /\ hctx' = Set(hctx, c, ctx[c])
        /\ hbr' = Set(hbr, c, br[c])
        /\ hijacked' = Set(hijacked, c, TRUE)
  /\ UNCHANGED <<opt, num, out, ctx, bw, rt, wt, keep, netClosed, resp, sent, connTime,
                 first, hh, closing>>

ClearedAfterRequest_Never(set, d) == d
ClearedAfterRequest(set, d) == IF set THEN "none" ELSE d

\* The request is over: on to the next one, unless the server stops or a deadline
\* cannot be cleared.
NextRequest(c) ==
  /\ pc[c] = "after"
  /\ hh[c] = "none"
  /\ \/ Break(c) /\ UNCHANGED <<rd, wd, sent, resp>>
     \/ /\ GoTo(c, "loop")
        /\ rd' = Set(rd, c, ClearedAfterRequest(rt[c], rd[c]))
        /\ wd' = Set(wd, c, ClearedAfterRequest(wt[c], wd[c]))
        /\ sent' = Set(sent, c, 0)
        /\ resp' = Set(resp, c, FALSE)
  /\ UNCHANGED <<opt, num, objVars, rt, wt, hijackVars, connTime, first, hh, closing,
                 hijacked>>
-----------------------------------------------------------------------------
(* After the loop *)

\* The answer to a request that could not be read.
WriteErrorResponse(c) ==
  /\ pc[c] = "break"
  /\ sent' = Set(sent, c, IF resp[c] THEN sent[c] + 1 ELSE sent[c])
  /\ GoTo(c, IF opt.ErrorHandler /\ ctx[c] # Nil THEN "errorHandler" ELSE "release")
  /\ UNCHANGED <<opt, num, objVars, timeVars, hijackVars, resp, connTime, first, hh,
                 closing, hijacked>>

\* s.ErrorHandler(ctx, err) returns.
ErrorHandlerReturns(c) ==
  /\ pc[c] = "errorHandler"
  /\ GoTo(c, "release")
  /\ UNCHANGED <<opt, num, objVars, timeVars, hijackVars, reqVars>>

Released_NoWriter(c) == {br[c]} \cup (IF hh[c] = "none" THEN {ctx[c]} ELSE {})
Released(c) == {br[c], bw[c]} \cup (IF hh[c] = "none" THEN {ctx[c]} ELSE {})

\* br, bw and ctx are given back; the caller of serveConn closes the connection
\* unless it was hijacked.
Release(c) ==
  /\ pc[c] = "release"
  /\ out' = out \ Released(c)
  /\ br' = Set(br, c, Nil)
  /\ bw' = Set(bw, c, Nil)
  /\ ctx' = Set(ctx, c, Nil)
  /\ netClosed' = Set(netClosed, c, netClosed[c] \/ ~hijacked[c])
  /\ GoTo(c, "returned")
  /\ UNCHANGED <<opt, num, timeVars, keep, hpc, hctx, hbr, reqVars>>
-----------------------------------------------------------------------------
(* hijackConnHandler *)

HijackHandlerReturns(c) ==
  /\ hpc[c] = "run"
  /\ hpc' = Set(hpc, c, "end")
  /\ UNCHANGED <<opt, pc, num, objVars, timeVars, keep, hctx, hbr, netClosed, reqVars>>

\* What follows the handler: the reader and ctx go back to their pools; the
\* connection is closed unless the server keeps hijacked connections.
HijackEnd(c) ==
  /\ hpc[c] = "end"
  /\ out' = out \ {hbr[c], hctx[c]}
  /\ hpc' = Set(hpc, c, IF keep THEN "kept" ELSE "done")
  /\ netClosed' = Set(netClosed, c, ~keep)
  /\ hctx' = Set(hctx, c, Nil)
  /\ UNCHANGED <<opt, pc, num, ctx, br, bw, timeVars, keep, hbr, reqVars>>

\* hijackConn.Close by whom a kept connection belongs to.
HijackedClose(c) ==
  /\ hpc[c] = "kept"
  /\ keep
  /\ hpc' = Set(hpc, c, "done")
  /\ netClosed' = Set(netClosed, c, TRUE)
  /\ UNCHANGED <<opt, pc, num, objVars, timeVars, keep, hctx, hbr, reqVars>>
-----------------------------------------------------------------------------
Finished ==
  /\ \A c \in Conns : /\ pc[c] = "returned" \/ (pc[c] = "loop" /\ num[c] = MaxRequests)
                      /\ hpc[c] \in {"none", "done"}
  /\ UNCHANGED vars

Next ==
  \/ \E c \in Conns :
       \/ Start(c) \/ LoopReader(c) \/ Peek(c) \/ LoopNoReader(c) \/ ByteRead(c)
       \/ ReadHeader(c) \/ ReadBody(c) \/ Handle(c) \/ HijackConn(c)
       \/ Respond(c) \/ Hijack(c) \/ NextRequest(c)
       \/ WriteErrorResponse(c) \/ ErrorHandlerReturns(c) \/ Release(c)
       \/ HijackHandlerReturns(c) \/ HijackEnd(c) \/ HijackedClose(c)
  \/ Finished

Spec == Init /\ [][Next]_vars
-----------------------------------------------------------------------------
(* Properties *)

\* The objects a goroutine of the server works with; a hijacked connection's ctx
\* is the hijack handler's.
Working(c) ==
  (IF hijacked[c] /\ hh[c] # "none" THEN {br[c], bw[c]} ELSE {ctx[c], br[c], bw[c]}) \ {Nil}
HijackWorking(c) == (IF hpc[c] \in {"run", "end"} THEN {hctx[c], hbr[c]} ELSE {}) \ {Nil}

\* A RequestCtx, reader or writer is worked with by one goroutine and is not in
\* its pool meanwhile, however connections, the release of ctx while a byte is
\* awaited, early ends of the loop and hijacks meet.
OneOwner ==
  /\ TypeOK
  /\ \A c \in Conns :
       /\ Working(c) \cup HijackWorking(c) \subseteq out
       /\ Working(c) \cap HijackWorking(c) = {}
       /\ \A d \in Conns \ {c} :
            (Working(c) \cup HijackWorking(c)) \cap (Working(d) \cup HijackWorking(d)) = {}

\* A request gets one final response at most: the answer to a request that could
\* not be read never follows a response, a 417, or the response to an earlier
\* request.
OneResponse == \A c \in Conns : sent[c] <= 1

\* While a connection waits for its next request no deadline of an earlier request
\* is in force: the read deadline is the idle one or none, the write deadline none.
\* And "Server limits such as Concurrency, ReadTimeout, WriteTimeout, etc. aren't
\* applied to hijacked connections" (RequestCtx.Hijack).  HeaderReceived, whose
\* timeouts for one request are forgotten before the deadlines they set are cleared,
\* is excepted.
NoStaleDeadline ==
  ~opt.HeaderReceived => \A c \in Conns :
    /\ pc[c] \in {"loop", "peek", "byteRead"} /\ num[c] > 1 =>
         rd[c] \in {"none", "idle"} /\ wd[c] = "none"
    /\ hijacked[c] => rd[c] = "none" /\ wd[c] = "none"

\* "Checking whether request-related resources are released before the function
\* returns ensures that resources are not leaked" (serveConn): what is out is in
\* the hands of a connection, if no handler hijacks (then ctx may be left out).  The
\* one return that releases nothing is that of a SetReadDeadline failing before the
\* first byte is awaited, which leaves ctx out (AllReleased, below).
NothingLeaked ==
  opt.hijacks = {} =>
    /\ out \subseteq UNION {{ctx[c], br[c], bw[c]} : c \in Conns}
    /\ \A c \in Conns : pc[c] = "returned" =>
         /\ br[c] = Nil /\ bw[c] = Nil
         /\ ctx[c] # Nil => opt.ReduceMemoryUsage /\ opt.ReadTimeout /\ num[c] = 1

\* Every pooled object of a connection has one owner, and none is left without.
ObjectsOwned == OneOwner /\ NothingLeaked
-----------------------------------------------------------------------------
(* What the documentation says and the code does not do *)

\* "Checking whether request-related resources are released before the function
\* returns ensures that resources are not leaked": not at the return after a
\* SetReadDeadline that fails before the first byte is awaited.
AllReleased ==
  opt.hijacks = {} =>
    \A c \in Conns : pc[c] = "returned" => ctx[c] = Nil /\ br[c] = Nil /\ bw[c] = Nil

\* The ctx given to ErrorHandler belongs to this connection.
ErrorHandlerOwnsCtx ==
  \A c \in Conns : pc[c] = "errorHandler" => ctx[c] \in out

\* "When KeepHijackedConns enabled, fasthttp will not Close() the connection, you
\* must do it when you need it": until then the connection reads through a reader
\* of its own.
KeptReaderIsOwn ==
  \A c \in Conns : hpc[c] = "kept" => \A d \in Conns : br[d] = Nil \/ br[d] # hbr[c]

\* "If KeepHijackedConns is disabled, which is by default, the connection c is
\* automatically closed after returning from HijackHandler."
ClosedAfterHijack ==
  \A c \in Conns : ~opt.KeepHijackedConns /\ hpc[c] \in {"kept", "done"} => netClosed[c]

\* "ConnTime returns the time the server started serving the connection the
\* current request came from."
ConnTimeIsSet == \A c \in Conns : pc[c] = "handle" => connTime[c]

\* firstByteReader passes on the first byte of the request.
FirstByteIsPlain == \A c \in Conns : pc[c] = "header" => first[c] # "raw"
=============================================================================
