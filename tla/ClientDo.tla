------------------------------- MODULE ClientDo -------------------------------
(***************************************************************************)
(* One request of a HostClient from end to end (client.go, http.go):       *)
(* doRequestFollowRedirects, HostClient.Do with its attempts, the default  *)
(* transport's RoundTrip, and the close callback of a streamed response.   *)
(* Callers share the connections of the pool, whose own locking and queue  *)
(* are HostClientPool's; here acquireConn is one step, with a wait in the  *)
(* middle where there is no connection to be had, and releaseConn is one.  *)
(* A waiter may get any connection that is or becomes free, and need not:  *)
(* those who have them need not give them back, and a wakeup may be lost.  *)
(* The peer of a connection may answer, stall or close it at any time, and *)
(* a deadline that is armed may pass at any time.                          *)
(* A definition D_Fault just before D is D with a plausible fault; no spec *)
(* uses it.                                                                *)
(***************************************************************************)
EXTENDS Integers, Sequences, FiniteSets

CONSTANTS
  Callers,
  Conns,        \* bound: connections at a time
  Nil,
  Settings      \* the settings to be checked

\* Timeouts are negative (none), 0 (take the next in line) or positive.
Timeouts == {-1, 0, 1}

\* What a caller asks for: a Request and how it is sent.  retryIf is what the function
\* answers, "none" where none is set.
RequestType ==
  [idempotent : BOOLEAN, bodyStream : BOOLEAN, connClose : BOOLEAN, timeout : {0, 1},
   readTimeout : Timeouts, writeTimeout : Timeouts, retryIf : {"none", "yes", "no"},
   followRedirects : BOOLEAN]

\* The HostClient, the requests its callers make and how often, and how many
\* connections there are (bounds: calls, conns).
SettingType ==
  [readTimeout : Timeouts, writeTimeout : Timeouts, waitFreeConnTimeout : Timeouts,
   maxAttempts : Nat \ {0},
   maxConnDuration : BOOLEAN, retryIf : {"none", "yes", "no"}, maxRedirects : Nat,
   streamBody : BOOLEAN, req : [Callers -> RequestType], calls : [Callers -> Nat],
   conns : SUBSET Conns]

ASSUME ClientDoAssumption ==
  /\ IsFiniteSet(Callers)
  /\ Nil \notin Conns
  /\ Settings \subseteq SettingType

VARIABLES
  setting,      \* the HostClient and the requests; never changes
  at,           \* where each caller is
  conn,         \* the connection of its attempt, or of its response's open bodyStream
  stream,       \* resp.bodyStream is open
  setDeadline,  \* the local of RoundTrip, kept by the close callback
  closeConn,    \* likewise
  attempts,     \* attempts, of Do
  redirects,    \* redirectsCount
  expired,      \* the deadline of Do has passed
  outcome,      \* what the call has come to
  calls,        \* calls each caller has still to make
  sent,         \* how often its request has been written in this Do
  serial,       \* how often it has written a request at all
  link,         \* the connections
  pendingRequests

callVars == <<setDeadline, closeConn, attempts, redirects, expired, outcome, calls, sent, serial>>
vars == <<setting, at, conn, stream, callVars, link, pendingRequests>>

\* A response comes in two parts; of names the request it answers.
Parts ==
  [part : {"head", "body"}, of : Callers \X Nat, redirect : BOOLEAN, close : BOOLEAN]

Asks == [of : Callers \X Nat, close : BOOLEAN, begun : BOOLEAN]

\* A connection: asked holds the requests the peer still owes an answer (begun: or the
\* body of one), inbox what it has sent and nobody has read.  Two fields are for the
\* properties only: cut, a bodyStream was closed before the end of its body; told, the
\* last request asked the peer to close the connection.
NoConn ==
  [st |-> "none", old |-> FALSE, readDeadline |-> FALSE, writeDeadline |-> FALSE,
   peer |-> "open", asked |-> <<>>, inbox |-> <<>>, cut |-> FALSE, told |-> FALSE]

TypeOK ==
  /\ setting \in Settings
  /\ at \in [Callers -> {"out", "attempt", "acquire", "wait", "write", "read", "failed", "return"}]
  /\ conn \in [Callers -> Conns \cup {Nil}]
  /\ stream \in [Callers -> BOOLEAN]
  /\ setDeadline \in [Callers -> BOOLEAN]
  /\ closeConn \in [Callers -> BOOLEAN]
  /\ attempts \in [Callers -> 0..setting.maxAttempts]
  /\ redirects \in [Callers -> 0..setting.maxRedirects]
  /\ expired \in [Callers -> BOOLEAN]
  /\ outcome \in [Callers -> {"none", "err", "ok", "redirect"}]
  /\ calls \in [Callers -> Nat]
  /\ sent \in [Callers -> Nat]
  /\ serial \in [Callers -> Nat]
  /\ pendingRequests \in Int
  /\ \A k \in Conns :
       /\ link[k].st \in {"none", "idle", "busy"}
       /\ {link[k].old, link[k].readDeadline, link[k].writeDeadline} \subseteq BOOLEAN
       /\ link[k].peer \in {"open", "stalled", "closed"}
       /\ link[k].asked \in Seq(Asks)
       /\ link[k].inbox \in Seq(Parts)

Init ==
  /\ setting \in Settings
  /\ at = [c \in Callers |-> "out"]
  /\ conn = [c \in Callers |-> Nil]
  /\ stream = [c \in Callers |-> FALSE]
  /\ setDeadline = [c \in Callers |-> FALSE]
  /\ closeConn = [c \in Callers |-> FALSE]
  /\ attempts = [c \in Callers |-> 0]
  /\ redirects = [c \in Callers |-> 0]
  /\ expired = [c \in Callers |-> FALSE]
  /\ outcome = [c \in Callers |-> "none"]
  /\ calls = setting.calls
  /\ sent = [c \in Callers |-> 0]
  /\ serial = [c \in Callers |-> 0]
  /\ link = [k \in Conns |-> NoConn]
  /\ pendingRequests = 0

Goto(c, l) == at' = [at EXCEPT ![c] = l]
Req(c) == setting.req[c]
-----------------------------------------------------------------------------
(* The deadlines of RoundTrip *)

\* The first of the settings that is not 0.
WriteTimeout(c) ==
  CASE Req(c).writeTimeout # 0 -> Req(c).writeTimeout
    [] setting.writeTimeout # 0 -> setting.writeTimeout
    [] OTHER -> Req(c).timeout

ReadTimeout(c) ==
  IF Req(c).readTimeout # 0 THEN Req(c).readTimeout ELSE setting.readTimeout

\* A read timeout takes precedence over the deadline of the request.
HasReadDeadline_NoDeadline(c) == ReadTimeout(c) > 0
HasReadDeadline(c) == ReadTimeout(c) > 0 \/ (ReadTimeout(c) = 0 /\ Req(c).timeout > 0)
-----------------------------------------------------------------------------
(* The end of a connection's use *)

\* releaseConn, once the read deadline is cleared.
Released_DeadlineKept(k, clear) == [link[k] EXCEPT !.st = "idle"]
Released(k, clear) ==
  [link[k] EXCEPT !.st = "idle", !.readDeadline = @ /\ ~clear]

\* The last lines of RoundTrip and of the callback: what may become of the connection
\* with what is left in its inbox.  It is closed as well if the deadline cannot be cleared.
GivenBack(c, close, rest) ==
  (IF close \/ setDeadline[c] THEN {NoConn} ELSE {})
    \cup (IF close THEN {} ELSE {[Released(conn[c], setDeadline[c]) EXCEPT !.inbox = rest]})

\* The callback of newCloseReaderWithError: the reader goes back to its pool and takes
\* with it what it has read ahead.
Closed(c, wErr) ==
  LET k == conn[c]
      back == GivenBack(c, closeConn[c] \/ wErr, link[k].inbox)
                \cup GivenBack(c, closeConn[c] \/ wErr, <<>>)
      unread == link[k].inbox # <<>> \/ link[k].asked # <<>>
  IN  {IF r = NoConn THEN r ELSE [r EXCEPT !.cut = @ \/ unread] : r \in back}

\* Response.closeBodyStream(wErr), with no stream to close or with one.
CloseBodyStream(c, wErr) ==
  /\ stream' = [stream EXCEPT ![c] = FALSE]
  /\ IF stream[c]
     THEN \E r \in Closed(c, wErr) :
            /\ link' = [link EXCEPT ![conn[c]] = r]
            /\ conn' = [conn EXCEPT ![c] = Nil]
     ELSE UNCHANGED <<link, conn>>

\* hc.closeConn after an error, and back to Do with it.
CloseAndFail_Kept(c) ==
  /\ conn' = [conn EXCEPT ![c] = Nil]
  /\ Goto(c, "failed")
  /\ UNCHANGED link
CloseAndFail(c) ==
  /\ link' = [link EXCEPT ![conn[c]] = NoConn]
  /\ conn' = [conn EXCEPT ![c] = Nil]
  /\ Goto(c, "failed")
-----------------------------------------------------------------------------
(* doRequestFollowRedirects and HostClient.Do *)

\* The locals of a Do that begins; those of one that has ended are of no account.
NewLocals(c) ==
  /\ attempts' = [attempts EXCEPT ![c] = 0]
  /\ expired' = [expired EXCEPT ![c] = FALSE]
  /\ sent' = [sent EXCEPT ![c] = 0]

Call(c) ==
  /\ at[c] = "out"
  /\ calls[c] > 0
  /\ calls' = [calls EXCEPT ![c] = @ - 1]
  /\ Goto(c, "attempt")
  /\ pendingRequests' = pendingRequests + 1
  /\ UNCHANGED <<conn, stream, setDeadline, closeConn, attempts, redirects, expired, outcome,
                 sent, serial, link>>

\* The deadline of the whole Do passes.
Expire(c) ==
  /\ at[c] # "out"
  /\ Req(c).timeout > 0
  /\ ~expired[c]
  /\ expired' = [expired EXCEPT ![c] = TRUE]
  /\ UNCHANGED <<at, conn, stream, setDeadline, closeConn, attempts, redirects, outcome,
                 calls, sent, serial, link, pendingRequests>>

\* The top of the loop, and doNonNilReqResp: the response is reset, which closes the
\* stream it may still hold, unless a redirect has led to another scheme.
Attempt(c) ==
  /\ at[c] = "attempt"
  /\ \/ /\ expired[c]
        /\ outcome' = [outcome EXCEPT ![c] = "err"]
        /\ Goto(c, "return")
        /\ UNCHANGED <<conn, stream, link>>
     \/ /\ ~expired[c]
        /\ redirects[c] > 0
        /\ Goto(c, "failed")
        /\ UNCHANGED <<conn, stream, link, outcome>>
     \/ /\ ~expired[c]
        /\ CloseBodyStream(c, FALSE)
        /\ Goto(c, "acquire")
        /\ UNCHANGED outcome
  /\ UNCHANGED <<setDeadline, closeConn, attempts, redirects, expired, calls, sent, serial,
                 pendingRequests>>

\* What Do makes of an error: hasBodyStream, the attempts, and either the retryIf of
\* the client or isIdempotent decide whether there is another attempt.
Retries_Any(c, n) == n < setting.maxAttempts
Retries(c, n) ==
  /\ ~Req(c).bodyStream
  /\ n < setting.maxAttempts
  /\ setting.retryIf = "yes" \/ (setting.retryIf = "none" /\ Req(c).idempotent)

Failed(c) ==
  /\ at[c] = "failed"
  /\ LET n == attempts[c] + 1 IN
       IF Retries(c, n)
       THEN /\ attempts' = [attempts EXCEPT ![c] = n]
            /\ \/ UNCHANGED expired
               \/ setting.retryIf = "yes" /\ expired' = [expired EXCEPT ![c] = FALSE]
            /\ Goto(c, "attempt")
            /\ UNCHANGED outcome
       ELSE /\ outcome' = [outcome EXCEPT ![c] = "err"]
            /\ Goto(c, "return")
            /\ UNCHANGED <<attempts, expired>>
  /\ UNCHANGED <<conn, stream, setDeadline, closeConn, redirects, calls, sent, serial, link,
                 pendingRequests>>

\* The end of Do, and what doRequestFollowRedirects does next: one redirect more, or
\* the call returns, with an error if there have been too many or no usable Location.
Return(c) ==
  /\ at[c] = "return"
  /\ \/ /\ outcome[c] = "redirect"
        /\ redirects[c] < setting.maxRedirects
        /\ redirects' = [redirects EXCEPT ![c] = @ + 1]
        /\ Goto(c, "attempt")
        /\ UNCHANGED pendingRequests
     \/ /\ redirects' = [redirects EXCEPT ![c] = 0]
        /\ Goto(c, "out")
        /\ pendingRequests' = pendingRequests - 1
  /\ outcome' = [outcome EXCEPT ![c] = "none"]
  /\ NewLocals(c)
  /\ UNCHANGED <<conn, stream, setDeadline, closeConn, calls, serial, link>>
-----------------------------------------------------------------------------
(* RoundTrip *)

HasIdle == \E k \in Conns : link[k].st = "idle"

\* connsCount < maxConns
HasRoom == \E k \in setting.conns : link[k].st = "none"

\* acquireConn has a connection, an idle one or if there is none a new one, unless its
\* dial fails; then SetWriteDeadline if there is a write timeout.
GetConn(c) ==
  \/ /\ ~HasIdle /\ HasRoom
     /\ Goto(c, "failed")
     /\ UNCHANGED <<conn, setDeadline, link>>
  \/ \E k \in Conns :
       /\ k \in setting.conns
       /\ link[k].st = IF HasIdle THEN "idle" ELSE "none"
       /\ LET timed == WriteTimeout(c) > 0 IN
          \/ /\ conn' = [conn EXCEPT ![c] = k]
             /\ setDeadline' = [setDeadline EXCEPT ![c] = timed]
             /\ link' = [link EXCEPT ![k].st = "busy", ![k].writeDeadline = @ \/ timed]
             /\ Goto(c, "write")
          \/ /\ timed
             /\ link' = [link EXCEPT ![k] = NoConn]
             /\ Goto(c, "failed")
             /\ UNCHANGED <<conn, setDeadline>>

\* Neither a connection nor room for one: ErrNoFreeConns, or queueForIdle.
NoFreeConn(c) ==
  /\ ~HasIdle /\ ~HasRoom
  /\ Goto(c, IF setting.waitFreeConnTimeout = 0 THEN "failed" ELSE "wait")
  /\ UNCHANGED <<conn, setDeadline, link>>

Acquire(c) ==
  /\ at[c] = "acquire"
  /\ GetConn(c) \/ NoFreeConn(c)
  /\ UNCHANGED <<stream, closeConn, attempts, redirects, expired, outcome, calls, sent, serial,
                 pendingRequests>>

\* w.ready: a connection given back, or the slot of one that was closed.
Ready(c) ==
  /\ at[c] = "wait"
  /\ GetConn(c)
  /\ UNCHANGED <<stream, closeConn, attempts, redirects, expired, outcome, calls, sent, serial,
                 pendingRequests>>

\* tc.C: the one thing that bounds the wait, for which the deadline of the request
\* does nothing.
WaitEnds_Never(c) == FALSE
WaitEnds(c) == setting.waitFreeConnTimeout > 0

WaitTimeout(c) ==
  /\ at[c] = "wait"
  /\ WaitEnds(c)
  /\ Goto(c, "failed")
  /\ UNCHANGED <<conn, stream, callVars, link, pendingRequests>>

\* req.Write and Flush, then SetReadDeadline.  A connection older than maxConnDuration
\* adds Connection: close to the request, and only for the time of writing it.
Write(c) ==
  /\ at[c] = "write"
  /\ LET k == conn[c]
         close == Req(c).connClose \/ link[k].old
         ask == [of |-> <<c, serial[c] + 1>>, close |-> close, begun |-> FALSE]
     IN  \/ /\ link[k].peer # "stalled"
            /\ link' = [link EXCEPT ![k] =
                 [@ EXCEPT !.asked = IF link[k].peer = "open" THEN Append(@, ask) ELSE @,
                           !.told = close,
                           !.readDeadline = @ \/ HasReadDeadline(c)]]
            /\ setDeadline' = [setDeadline EXCEPT ![c] = @ \/ HasReadDeadline(c)]
            /\ Goto(c, "read")
            /\ UNCHANGED conn
         \/ /\ \/ link[k].writeDeadline \/ HasReadDeadline(c)
               \/ link[k].peer = "closed" \/ Req(c).bodyStream
            /\ CloseAndFail(c)
            /\ UNCHANGED setDeadline
  /\ sent' = [sent EXCEPT ![c] = @ + 1]
  /\ serial' = [serial EXCEPT ![c] = @ + 1]
  /\ UNCHANGED <<stream, closeConn, attempts, redirects, expired, outcome, calls,
                 pendingRequests>>

\* ReadLimitIfClose: the responses the inbox s may be read as, and what is left of it.
\* With StreamBody the head is enough.  What is left of an earlier body may be taken
\* for a response.
Readable(s) ==
  (IF Len(s) >= 2 /\ s[1].part = "head" THEN {<<s[1], Tail(Tail(s))>>} ELSE {})
    \cup (IF s # <<>> /\ (setting.streamBody \/ s[1].part = "body")
          THEN {<<s[1], Tail(s)>>} ELSE {})

\* A response that was read.
ReadOK(c, head, rest) ==
  LET close == Req(c).connClose \/ head.close IN
  /\ outcome' = [outcome EXCEPT ![c] = IF head.redirect THEN "redirect" ELSE "ok"]
  /\ closeConn' = [closeConn EXCEPT ![c] = close]
  /\ Goto(c, "return")
  /\ IF setting.streamBody
     THEN /\ stream' = [stream EXCEPT ![c] = TRUE]
          /\ link' = [link EXCEPT ![conn[c]].inbox = rest]
          /\ UNCHANGED conn
     ELSE /\ \E r \in GivenBack(c, close, rest) : link' = [link EXCEPT ![conn[c]] = r]
          /\ conn' = [conn EXCEPT ![c] = Nil]
          /\ UNCHANGED stream

\* An error: the deadline passed, the peer closed the connection, or what was read is
\* malformed or too large.  The connection is closed.
ReadFailed_Released(c) ==
  /\ link' = [link EXCEPT ![conn[c]] = Released(conn[c], TRUE)]
  /\ conn' = [conn EXCEPT ![c] = Nil]
  /\ Goto(c, "failed")
ReadFailed(c) == CloseAndFail(c)

Read(c) ==
  /\ at[c] = "read"
  /\ LET k == conn[c] IN
     \/ /\ \E p \in Readable(link[k].inbox) : ReadOK(c, p[1], p[2])
     \/ /\ link[k].readDeadline \/ link[k].peer = "closed" \/ link[k].inbox # <<>>
        /\ ReadFailed(c)
        /\ UNCHANGED <<stream, closeConn, outcome>>
  /\ UNCHANGED <<setDeadline, attempts, redirects, expired, calls, sent, serial,
                 pendingRequests>>
-----------------------------------------------------------------------------
(* The application and its streamed response *)

\* It reads on in the body.
ReadStream(c) ==
  /\ at[c] = "out"
  /\ stream[c]
  /\ link[conn[c]].inbox # <<>>
  /\ link' = [link EXCEPT ![conn[c]].inbox = Tail(@)]
  /\ UNCHANGED <<at, conn, stream, callVars, pendingRequests>>

\* It closes the stream, after an error of reading it or of passing it on (wErr) or not.
CloseStream(c) ==
  /\ at[c] = "out"
  /\ stream[c]
  /\ \E wErr \in BOOLEAN : CloseBodyStream(c, wErr)
  /\ UNCHANGED <<at, callVars, pendingRequests>>
-----------------------------------------------------------------------------
(* Connections and their peers *)

Open(k) == link[k].st # "none"

\* The next part of the answer the peer owes.  To a request that does not follow
\* redirects one is a response like any other; a peer that was asked to close need not
\* say that it will.
Answer(k) ==
  /\ Open(k)
  /\ link[k].peer = "open"
  /\ link[k].asked # <<>>
  /\ LET a == Head(link[k].asked) IN
     \E redirect \in {FALSE, Req(a.of[1]).followRedirects}, close \in BOOLEAN :
       LET p == [part |-> IF a.begun THEN "body" ELSE "head", of |-> a.of,
                 redirect |-> redirect /\ ~a.begun, close |-> close /\ ~a.begun]
       IN  link' = [link EXCEPT ![k] =
             [@ EXCEPT !.inbox = Append(@, p),
                       !.asked = IF a.begun THEN Tail(@)
                                 ELSE <<[a EXCEPT !.begun = TRUE]>> \o Tail(@)]]

\* The peer stops reading and answering, or closes the connection.
Stall(k) ==
  /\ Open(k)
  /\ link[k].peer = "open"
  /\ link' = [link EXCEPT ![k].peer = "stalled"]

PeerCloses(k) ==
  /\ Open(k)
  /\ link[k].peer # "closed"
  /\ link' = [link EXCEPT ![k].peer = "closed", ![k].asked = <<>>]

\* maxConnDuration passes.
Age(k) ==
  /\ setting.maxConnDuration
  /\ Open(k)
  /\ ~link[k].old
  /\ link' = [link EXCEPT ![k].old = TRUE]

\* Clean and CloseIdleConnections.
CloseIdle(k) ==
  /\ link[k].st = "idle"
  /\ link' = [link EXCEPT ![k] = NoConn]
-----------------------------------------------------------------------------
Caller(c) ==
  Attempt(c) \/ Acquire(c) \/ WaitTimeout(c) \/ Write(c) \/ Read(c) \/ Failed(c) \/ Return(c)

Link(k) ==
  /\ Answer(k) \/ Stall(k) \/ PeerCloses(k) \/ Age(k) \/ CloseIdle(k)
  /\ UNCHANGED <<at, conn, stream, callVars, pendingRequests>>

Finished ==
  /\ \A c \in Callers : at[c] = "out" /\ calls[c] = 0 /\ ~stream[c]
  /\ UNCHANGED vars

Next ==
  /\ \/ \E c \in Callers :
          Call(c) \/ Expire(c) \/ Caller(c) \/ Ready(c) \/ ReadStream(c) \/ CloseStream(c)
     \/ \E k \in Conns : Link(k)
     \/ Finished
  /\ UNCHANGED setting

\* A deadline that is armed makes a blocked Read or Write return sooner or later, so
\* the steps of a caller are fair even if no peer ever answers; a dial ends too, with
\* the dialTimeout, which is DefaultDialTimeout unless it is switched off.  That a
\* waiter gets a connection is not.
Spec ==
  /\ Init /\ [][Next]_vars
  /\ \A c \in Callers : WF_vars(Caller(c) /\ UNCHANGED setting)
-----------------------------------------------------------------------------
(* What is to be checked *)

\* Nobody loses a connection or shares it: a connection is in use exactly if one caller
\* has it, for an attempt or with its response's open stream, and every path out of Do
\* takes the request off pendingRequests.
ConnsAccounted ==
  /\ TypeOK
  /\ pendingRequests = Cardinality({c \in Callers : at[c] # "out"})
  /\ \A k \in Conns :
       Cardinality({c \in Callers : conn[c] = k}) = IF link[k].st = "busy" THEN 1 ELSE 0
  /\ \A c \in Callers : conn[c] # Nil => stream[c] \/ at[c] \in {"write", "read"}

\* A connection comes back to the pool without the read deadline of the request before,
\* which would fail a later request that sets none.
IdleHasNoReadDeadline == \A k \in Conns : link[k].st = "idle" => ~link[k].readDeadline

\* What a caller can read is the answer to the very request it has just written, after
\* errors, timeouts and retries on shared connections too: RoundTrip closes the
\* connection on every error.  The one exception is a connection handed back by closing
\* a bodyStream before the end of the body.
OwnAnswer ==
  \A c \in Callers : conn[c] # Nil /\ (stream[c] \/ at[c] = "read") =>
    LET k == conn[c] IN
      \/ link[k].cut
      \/ /\ \A i \in DOMAIN link[k].inbox : link[k].inbox[i].of = <<c, serial[c]>>
         /\ \A i \in DOMAIN link[k].asked : link[k].asked[i].of = <<c, serial[c]>>

\* Do repeats a request only where that is asked for: one that is not idempotent or has
\* a body stream is written once, unless the client's retryIf says otherwise for the
\* former, and none is written more often than maxAttempts.
WrittenOnce ==
  \A c \in Callers :
    sent[c] <= IF Req(c).bodyStream \/ setting.retryIf = "no"
                  \/ (setting.retryIf = "none" /\ ~Req(c).idempotent)
               THEN 1 ELSE setting.maxAttempts

\* The connections of the pool are accounted for and fit for the next request.
ConnsSound == ConnsAccounted /\ IdleHasNoReadDeadline

\* A request that is written once, or as often as was asked for, is answered with its answer.
AnsweredAsAsked == OwnAnswer /\ WrittenOnce

\* A request with a timeout comes back whatever the peers and the other callers do, as
\* long as no timeout is switched off with a negative value: that for reading, that for
\* writing, and the client's for the wait for a free connection, which the timeout of
\* the request does not bound.
TimedDoReturns ==
  \A c \in Callers :
    /\ Req(c).timeout > 0 /\ ReadTimeout(c) >= 0 /\ WriteTimeout(c) >= 0
    /\ setting.waitFreeConnTimeout >= 0
    => (at[c] # "out" ~> at[c] = "out")
-----------------------------------------------------------------------------
(* What the documentation says and the code does not do *)

\* client.go, DoTimeout: "ErrTimeout is returned if the response wasn't returned during
\* the given timeout."  A call that waits for a free connection looks at the client's
\* waitFreeConnTimeout only; with a negative one it may wait for ever.
TimeoutBoundsTheWait ==
  \A c \in Callers :
    Req(c).timeout > 0 /\ ReadTimeout(c) >= 0 /\ WriteTimeout(c) >= 0 =>
      (at[c] # "out" ~> at[c] = "out")

\* http.go, writeTimeout: "A negative value indicates no timeout when sending the
\* request."  The write deadline of an earlier request stays on the connection.
NoStaleWriteDeadline == \A k \in Conns : link[k].st = "idle" => ~link[k].writeDeadline

\* client.go, MaxConnDuration: "it is done by first sending the `Connection: close` request
\* header and then closing the connection only after reading the response."  RoundTrip
\* forgets that it asked the peer to close, and leaves it to the peer.
OldIsClosed == \A k \in Conns : link[k].st = "idle" => ~link[k].told

\* http.go, retryIf: "This function will be called when a request encounters an error".
\* Do only asks the function of the client.
RetryIfIsAsked == \A c \in Callers : sent[c] > 1 => Req(c).retryIf # "no"

\* OwnAnswer without its exception: CloseBodyStream on a body that was not read to its
\* end puts the connection back into the pool.
AlwaysOwnAnswer ==
  \A c \in Callers : conn[c] # Nil /\ at[c] = "read" =>
    \A i \in DOMAIN link[conn[c]].inbox : link[conn[c]].inbox[i].of = <<c, serial[c]>>
=============================================================================
