# TLA+ models of fasthttp

fasthttp is an HTTP/1.1 server and client library that avoids allocation: request
contexts, readers, writers, timers, channels and connection wrappers live in pools and
are used again, by other goroutines, as soon as they are put back. What is hard to get
right is therefore who owns an object at a moment, what is counted when, and what a
goroutine still believes after it has let go of a lock. These models are about that.

Line numbers refer to the sources in `src/`.

## Inventory

| Part | Source | State | Operations | What is hard about it |
|---|---|---|---|---|
| worker pool | `workerpool.go` | `ready`, `workersCount`, `mustStop`, the channels, `workerChanPool` | `Serve`, `getCh`, `release`, `clean`, `Stop`, `workerFunc` | three goroutines take workers off `ready` and send to them after unlocking |
| server lifecycle | `server.go` 1888-2200, 3300-3340 | `ln`, `open`, `concurrency`, `stop`, `done`, `conns` with their status | `Serve`, `ServeConn`, `ShutdownWithContext`, `closeIdleConns`, `trackConn` | counters raised and lowered far apart; a status read before it is acted on |
| per-IP limit | `peripconn.go`, `server.go` 2100-2130 | the counter map, pooled wrappers | `Register`, `Unregister`, `acquirePerIPConn`, `Close` | two goroutines close one pooled wrapper |
| connection loop | `server.go` 2290-2910 | `ctx`, `br`, `bw`, deadlines, hijack state | `serveConn`, `hijackConnHandler`, acquire and release of pooled objects | a dozen ways out of one loop, ownership passing to a hijack goroutine |
| HostClient pool | `client.go` 1460-2190 | `conns`, `connsCount`, the queue of `wantConn`s | `acquireConn`, `releaseConn`, `closeConn`, `dialConnFor`, `Clean`, `CloseIdleConnections` | hand-over to waiters that time out meanwhile |
| client requests | `client.go` 937-1024, 1240-1460, 2880-3036, `http.go` | attempts, deadlines, the response's stream | `Do`, `doNonNilReqResp`, `RoundTrip`, redirects, stream close | timeouts and retries after the request has left; a stream that outlives the call |
| client cleaner | `client_cleaner.go` | a 4-ary heap of items, one timer | `Register`, `startClen`, `checkItems`, `Clean` of the items | a timer that must cover the head; three levels of locks |
| Client map | `client.go` 290-560 | `m`, `ms` | `createHostClient`, `Do`, `Clean` | a HostClient is looked up before it is counted as used |
| pipeline client | `client.go` 2200-2870 | `chW`, `chR`, works, their timers | `Do`, `DoDeadline`, `init`, `worker`, `writer`, `reader` | answers matched by order alone; goroutines replaced under callers |
| load balancer | `lbclient.go` | clients, penalties | `Do*`, `AddClient`, `RemoveClients` | counters changed by timers |
| TCP dialer | `tcpdialer.go` | address cache, semaphore | `dial`, `tryDial`, `getTCPAddrs`, `tcpAddrsClean` | a stale entry used by some and deleted by others; index arithmetic |
| in-memory network | `fasthttputil/`, `stream.go` | pipes, a queue of connections | `Dial`, `Accept`, `Close`, `Read`, `Write` | a wait with a lock held |
| file server | `fs_v3.go` | cache of open files with reference counts | `handleRequest`, cache get/put, cleaner, compression | a file closed while a late reader takes it |
| bodies | `http.go`, `streaming.go` | `body`, `bodyRaw`, `bodyStream`, `chunkedW`, a form; how much of a stream was read | setters, `Reset`, `CopyTo`, `SwapBody`, reading in full, in chunks, as a stream | several representations of one body; a stream that ends where the next request begins |
| headers | `header.go`, `http.go` writing | fields with places of their own, the list `h.h`, trailers, the length | parsing in pieces, `Set`, `Add`, `Del`, `CopyTo`, writing | fields kept in two forms; which framing wins |
| URI, args, cookies, numbers | `uri.go`, `args.go`, `cookie.go`, `bytesconv*.go` | key-value lists, the parts of a URI | normalisation, escaping, parsing, resolving | boundaries of pure algorithms |
| link buffer | `nocopy_*.go` | list of nodes, positions, blocks with reference counts | `Malloc`, `Flush`, `Next`, `Peek`, `Slice`, `Release` | positions across nodes, memory used again |
| compression | `compress.go`, `stackless/` | a bounded queue of pooled items, pooled writers | `WriteGzipLevel`, `AppendGzipBytesLevel`, `NewFunc`, the writer's `Write`, `Close`, `Reset` | calls that are refused half-way |
| prefork | `prefork/prefork.go` | `childProcs`, `sigCh` | `prefork`, `doCommand`, the goroutine of each child | pids that are used again |
| user values, adaptors, proxies, debug handlers, tables, examples | see `PROJECT.json` | | | |

How they interact: `Server.Serve` accepts a connection, counts it in `open`, wraps it in a
`perIPConn`, and gives it to the worker pool, whose worker runs `serveConn`; `Shutdown`
closes listeners and idle connections and waits for `open`. A `Client` finds or creates a
`HostClient`, which takes a connection from its pool, sends the request through
`RoundTrip`, and gives the connection back; the first connection registers the HostClient
with the cleaner, which later calls its `Clean`. A `PipelineClient` has a connection of its
own. A request is read header first (`HeaderRead`), its body in full or as a stream
(`BodyStream`); a response is written from its fields (`HeaderFields`), its body
(`MessageBody`) and their framing (`MessageFraming`), perhaps compressed (`Stackless`).
`PROJECT.json` lists every part, the modelled ones and the others with the reason.

## Modules

Every module names its goroutines in its header, gives each of them a program counter, and
has one action per critical section, channel operation, or piece of code between two of
them. A lock is a variable only where it is held across steps; elsewhere a critical
section is one action. Settings that do not change in a run (fields of `Server` or
`HostClient`, who takes part) are one variable, `scene`, `setting` or `opt`, chosen in
`Init` from a set the MC module defines.

A definition `D_Fault` right before `D` is `D` with a plausible fault. No specification
uses it: it is there so that one can put it in place of `D` and see that the properties
notice.

* `WorkerPool` models `workerpool.go` with the accept loop of `Server.Serve`, its only
  caller. Goroutines: the acceptor (`apc`), one worker per `workerChan` (`wpc`), the
  cleaner (`cpc`). `lockHeld` is explicit because `Stop` sends on channels while it holds
  `wp.lock`. The capacity of the channels, which depends on GOMAXPROCS, is chosen in
  `Init`, so both builds are covered. `clean` takes the number of workers to stop from
  `CleanNum`, the translation of `DefaultCleanThresholdFunc` and the binary search.
* `ConnService` is the abstract specification: what the server promises about an accepted
  connection. `WorkerPool!ConnServiceSpec` states that the pool implements it, under the
  mapping that reads the fate of each connection.
* `WorkerPoolProofs` holds the proofs; `DistinctSeq` and `DistinctSeqLemmas` define lists
  without repetition and the facts about them the proofs use.
* `ServerLifecycle` models `Serve` on several listeners, `ServeConn`, `Shutdown` and
  `ShutdownWithContext`. The request loop is cut down to what a Shutdown sees of it: where
  the status is stored, where `stop` is read, where the connection is read and written.
  Every call of `Serve` has a worker pool of its own, here a goroutine for every connection
  while fewer than `Concurrency` of that pool are taken, which is what `ConnService` says of
  it; calls of `ServeConn` are counted together in `s.concurrency`. Whether an address has too
  many connections (`MaxConnsPerIP`) is any answer; `PerIPConn` has the count.
* `PerIPConn` models the count per address and the pooled wrappers, with the two goroutines
  that may call `Close`. Pools are counts of how often an object was put, so that putting
  twice is visible.
* `ServeConn` models `serveConn` phase by phase (idle, header, body, handler, response,
  hijack, end) for several connections that share the pools of contexts, readers and
  writers, and `hijackConnHandler`. What a client sends, what the handler does and which
  call fails is nondeterministic.
* `HostClientPool` models the pool of a `HostClient`: callers, one `dialConnFor` goroutine
  per waiter it was started for, and sweepers (`Clean`, `CloseIdleConnections`). Both
  stages of `wantConnQueue` are one sequence. `connsLock` is explicit where a holder meets
  waiters, who time out without that lock.
* `ClientDo` models one call from end to end: `doRequestFollowRedirects`, the attempts of
  `HostClient.Do`, `RoundTrip`, and the callback that closes a streamed response. Of
  the pool it has taking a connection, waiting for one up to `MaxConnWaitTimeout`, and giving
  it back; `HostClientPool` has the steps of these. A peer answers, stalls or closes at any moment; answers carry
  the number of the request they are for.
* `ClientCleaner` models `DurationCleaner` with `HostClient`s and a `Client` that register,
  and as far as the cleaner is concerned the pool of one connection: a caller that waits for
  it is handed the connection, or its slot by `decConnsCount` and then what `dialConnFor`
  opens. Time counts down relative to now. The heap is a set; `CleanerHeap` is the array with
  `siftUp`, `siftDown` and `doDel0`, checked against a bag.
* `PipelineClient` models `pipelineConnClient`: callers of `Do` and `DoDeadline`, the
  goroutine `init` starts, its writer and its reader.
* `TCPDialer` models dials to one host: the address entry with its mark `pending`, the
  semaphore, deadlines, and `tcpAddrsClean`, which looks at an entry and then deletes
  whatever is there. Entries nobody can reach any more are used again. Which address an
  attempt is for changes nothing else, so it is the operator `Round`.
* `InmemoryListener` models `Dial`, `Accept` and `Close`; the lock is explicit, since `Dial`
  waits with it held. `PipeConns` models one direction of a pipe select by select; bytes are
  numbered, and pooled buffers counted as in `PerIPConn`. The other direction is the same,
  and both share only `stopCh`, which either end closes.
* `LBClient` models `get`, which reads one load after the other while others change them,
  the penalties with their timers, and changes of the list.
* `FSCache` models the file server: requests that look a file up, open it under the lock of
  its path, compress it, cache it, read it and close it, and the goroutine that takes stale
  files out of the cache and releases them after their last reader. An `fsFile` and a copy of
  a big file are pooled objects; what a file contains is its version. Looking up and counting
  oneself as a reader are two steps, as are the cleaner's look at the count and the release.
  What happens after the first reader that comes too late (`late`) is not followed.
* `MCParts` puts `PerIPConn` and these five side by side. They have no state in common; a
  variable `part` says which of them moves.
* `MessageBody` models the fields a body may be in and the methods of `Request` and `Response`
  that set, read, copy, swap and reset them, in any order. A body is a sequence of pieces;
  buffers are pooled, streams and forms count how often they were closed.
* `BodyStream` models the bodies of two requests on one connection: `ReadBody` and
  `ReadBodyStream`, `requestStream.Read` byte by byte and chunk by chunk, what the handler
  reads, leaves or closes itself, and what `serveConn` discards. The wire is a sequence of tokens that
  arrive one by one; the client may hang up.
* `MessageFraming` models the length fields of both headers, `Write` with all ways to end a
  body, and the parser and reader at the other end. Bodies are lengths; a message is written
  several times, reset or as it is.
* `HeaderRead` models `Read`, `readLoop`, `tryRead` and `ReadTrailer` with the parsers and the
  scanner, on headers that arrive in segments of any size and end anywhere. A line is two
  tokens; unfolding moves bytes in the buffer as in the code.
* `HeaderFields` models the operations on fields for both kinds of header. One field with a
  place of its own stands for all of them; the arrays behind the trailer keys are explicit,
  since `allocArg` uses them again and `CopyTo` shares them. `want` is what was asked for.
* `LinkBuffer` models `UnsafeLinkBuffer` node by node: offsets, blocks, reference counts,
  cached peeks, and one slice of the buffer. `queue` and `pend` are the abstract buffer.
* `ClientMap` models the Client's map of `HostClient`s, step by step between its locks: calls
  with redirects, `Dedicated`, `Clean`, `AddHostClient`. `ClientCleaner` has the locks around
  it, `HostClientPool` what is inside of a `HostClient`.
* `ByteText` holds the text algorithms as operators: escapes, lists of arguments, the normal
  form of a path in the steps of `normalizePath`, parsing, writing and resolving a URI.
  `ArgsList`, `URIs` and `Cookies` are the objects that call them. A text is a sequence of
  bytes and escapes; one letter stands for all bytes that nothing here tells apart.
* `IntCodec` reads and writes integers digit by digit in integers of `Width` bits.
* `Prefork` models the master and the goroutine it has for each child; `Stackless` the bounded
  queue of stackless functions with pooled items, the stackless writer, and the functions that
  compress into a buffer or through a pooled writer.
* `GetURL` models `clientGetURLDeadline`: the call, the goroutine it leaves the request to, the
  mutex and flags they share, and the pooled channels. `GetURLProofs` holds its proof.
* `ByteRange` models a range from the line of the request to the bytes of the body, with the
  reader that is used again; `FSCache` has the sharing of readers and files.
* `MCMessages` puts these side by side as `MCParts` does. Its variables `v1`, `v2`, ... are
  those of the module `part` names, in that module's order; `GetURL` is extended and has its
  own, so that its invariant is the one proved.

## What the runs check

The type invariant of a module is a conjunct of one of its invariants.

| Run | Shows |
|---|---|
| `workerpool` | `OneHolder`: an idle worker is in `ready`, in the cleaner's scratch list or with the acceptor, in exactly one of them. `WorkersCountExact`. `ChannelsSound`: a pooled channel is empty, and no send on a buffered channel blocks, so `Stop` cannot hang with the lock held. The pool implements `ConnService`. `StopEndsWorkers`: after `Stop` all workers end. |
| `server` | `AccountedAndDrained`: `open`, `concurrency` and `conns` match what there is on every path, at most `Concurrency` connections are served by each call of `Serve`, and by the calls of `ServeConn` together (server.go:209 promises no more), and a Shutdown that returns without error leaves nothing being served. `AtMostTwoLate`: a connection begins at most two requests after `stop`. `ShutdownReturns`. |
| `parts` | `CounterExact`: an address has its connections counted and no more of them than allowed, and a wrapper one connection, as long as no Shutdown closes connections. `DialerSound`: the semaphore is given back on every path out of a dial, and an expired address that is marked has somebody who resolves it. `InmemorySound`: the in-memory listener loses and repeats no connection, Close strands none, and a pipe gives the bytes in order and the end after all of them. `PenaltyExact`: every penalty is taken back once. `FilesSound`: a request that has counted itself as a reader has the file it asked for, open; every `fsFile` and every copy is in one place; a compressed copy that passes for fresh has the file's content. |
| `serveconn` | `ObjectsOwned`: a pooled object has one user, is not in the pool meanwhile, and, if no handler hijacks, is put back at the end, but for one return (`AllReleased`, below). `OneResponse`. `NoStaleDeadline`: no deadline of an earlier request is in force. |
| `hostclient` | `PoolSound`: `connsCount` is the number of slots in use at every moment and within the limit; a connection is idle or has one holder, and one delivered to a waiter that gives up is passed on; the queue has the waiters it should. `CallersReturn`. |
| `clientdo` | `ConnsSound`: no connection is lost or shared, and an idle one has no read deadline. `AnsweredAsAsked`: an answer is read by the request it is for, and a request that may not be repeated is written once. `TimedDoReturns`: a call with a timeout returns, if its wait for a free connection is bounded. |
| `cleaner` | `ItemsWatched`: the timer is never set past the first item, a HostClient with idle connections is registered unless they came by a slot that was handed over (`EveryIdleIsWatched`, below), and HostClients alone never deadlock. `HeapOrder`, `DueIsRun`. |
| `pipeline` | `WorksSound`: a work is in one queue or one hand, never also in the pool, and is answered once, with its own response. `CallsReturn`. |
| `messages` | `BodyOnePlace`: a buffer is with one message or pooled, a stream or form with one message or closed once, and no representation of a body hides another. `OwnBody`: the handler gets its own request's bytes, once and in order, and the next request is read from its header unless a stream was left unread, or discarded by the handler after its end (`DiscardStaysInBody`, below). `FramedAsWritten`: the other end finds the body that was written and stops at its end, but for four cases the definition names. `HeaderAsSent`: a header is read the same however it is cut into segments. `WrittenAsSet`: the lines that are written are those the operations asked for, where `Add` of a cookie asks for one more, as the code has it (`CookieIsSetOnce`, below). `IsQueue`: the link buffer is a queue of bytes and uses no memory again that can be read, but after certain calls of `MallocAck` and, in a slice, of `WriteDirect` (`AckDiscardsTheRest`, `SliceKeepsItsBytes`, below). `InUseIsMapped`: a HostClient in use is the one in the map. `TextRoundTrip`: arguments and cookies are parsed back from what is written. `URIResolves`: a URI is parsed back from its text, its path is the normal form by a definition on segments, and a reference is resolved as documented. `IntExact`. `ChildrenKnown`: the master knows every child that runs and leaves none. `OwnOutput`: a caller gets its own text compressed, through shared workers and pooled writers. `OwnGetAnswer`: a call of `GetTimeout` returns its own answer or `ErrTimeout`, and no channel is pooled with an answer in it; it includes what makes it inductive. `RangeAsAsked`: the part of a file that is sent and announced is the one asked for, whatever the reader served before. |
| `perip_panic`, `cleaner_deadlock`, `pipeline_hang` | disagreements with the documentation, below. |

### Bounds

* `workerpool`: three connections, two workers, a limit of two, two points in time. Two
  workers are needed for a worker to be handed out while another is cleaned; a third
  connection for a refusal and for the second use of a worker. `MaxIdleWorkerDuration` is
  0, so that every worker is a candidate as soon as it is idle.
* `server`: six scenes, each with as many listeners, connections and Shutdowns as its
  question needs (two connections against a limit of one; two Shutdowns; two listeners one
  of which fails to close; two calls of `ServeConn`; two listeners with a connection each; an
  accepted connection beside a call of `ServeConn`), three requests per connection. Three
  requests are one more than `AtMostTwoLate` allows.
* `parts`: three connections of two addresses and a limit of one: a third connection uses
  the wrapper the first one has put back. Two dialers, one slot, one of them with a
  deadline; two more entries than dialers. Three dials, two acceptors and two closers of a
  listener. Three bytes in writes of up to two and a channel of one, so that a writer
  blocks, a buffer is read in pieces and an empty one is sent. Three callers of two clients,
  a penalty of at most one, four calls, so that a penalty is refused while another is being
  taken back. Two requests for small files under two keys, so that an `fsFile` is used again
  for the other key; for big files under one key with one copy kept; for a file that is
  compressed and modified once; and for a directory that has an index file at one moment and
  none at another. Three `fsFile`s: one cached, one to be released, one being made.
* `serveconn`: handlers that hijack in every way or never, with all combinations of the other
  options but `HeaderReceived` together with `ErrorHandler`, and without TLS, which changes
  only the first byte (`FirstByteIsPlain` needs it); two connections with two objects of each kind
  where they can meet in the pools (`Bounded` keeps the second one out where only deadlines
  matter), three requests, so that something can be left over twice.
* `hostclient`: three callers, three connections, three waiters, limits 1 and 2 (changed by
  `SetMaxConns` in between), both strategies, and the three kinds of waiting. With limit 1
  three callers give a queue of two.
* `clientdo`: two callers; two attempts and one redirect, the least that shows a retry and
  its end; one or two connections, and no, a bounded and an unbounded wait for them.
* `cleaner`: two users of two HostClients, of one they wait for, or of one behind a Client; waits of up to 2, a pass
  that takes up to 1. Heaps of up to eight items and three due times: two levels of a 4-ary
  heap with an incomplete last node, and equal keys.
* `pipeline`: two callers, three works, a queue of one, two goroutines one after the other.
* `messages`: two messages with two streams and a form at a time (one that was closed stands for
  a new one) and bodies of one piece, all sequences of methods. Two requests, the first with up to five bytes or two chunks, a pre-read and a buffer
  of two: a body ends before, at and after each of them. Lengths of up to two, messages that are written
  again as they are or reset. Headers of a first line and up to three lines of every kind in a
  buffer of nine tokens, which four lines fill and a folded one overflows. Two headers and three operations on them, two values, two
  trailer keys: enough to copy, change and reset. Seven nodes, five blocks of two bytes,
  writes of up to three and five operations: a write or read that spans nodes, a slice and a
  release. Two calls, four HostClients, a limit of one and a redirect. Arguments and
  references of up to four bytes from those the parsers tell apart, paths of up to five, locations
  of redirects of up to two, or absolute. Integers of ten bits and
  four digits, so that 10*v wraps around within them. Two processors, four children, three
  pids, a threshold of two. Three callers of a queue of one with three compressions, so that
  one runs, one waits and one is refused, and a writer is used again. Three calls of
  `GetTimeout` and two channels, so that a channel passes from one call to the next while a
  third waits. Files of up to three bytes and positions up to one beyond them.

Deadlock is checked everywhere but in `cleaner`, where it is the finding of
`cleaner_deadlock`, and in `messages`, whose parts stop at their bounds; in the others a
`Finished` disjunct stutters where everyone is done.

### Fairness

Weak fairness stands for the Go scheduler: a goroutine that can run does run. Strong
fairness is used where a goroutine competes for a mutex (`hostclient`, `cleaner`): since
Go 1.9 a waiter starved for a millisecond is handed the lock. Timers that are armed fire.
A dial, a handler and a request to a peer end only where the code sets a deadline, or
where the property is about others: in `server` a handler ends (`ShutdownReturns` waits for
it), in `hostclient` a request and a dial end, in `pipeline` the server answers what it has
got; in `clientdo` the peers owe nothing, nobody has to give a connection back to one who
waits for it, and only armed deadlines pass; a dial ends there, by `DefaultDialTimeout`. Nobody has to call,
fail, sweep, or end a connection. `parts` and `messages` check safety only.

## What is proved

`WorkerPoolProofs` proves for any set of connections, any finite set of workers, any limit,
any idle duration, both channel capacities and any length of time:

| Theorem | Statement |
|---|---|
| `TypeCorrect` | `Spec => []TypeOK` |
| `HolderCorrect` | `Spec => [](PoolShape /\ OneHolder)` |
| `ChannelsCorrect` | `Spec => []ChannelsSound` |
| `CountCorrect` | `Spec => []WorkersCountExact` |

`GetURLProofs` proves for any sets of calls and channels:

| Theorem | Statement |
|---|---|
| `GetCorrect` | `GetSpec => []OwnGetAnswer` |

For `WorkerPool` the only assumption is `WorkerPoolAssumption`: finitely many `workerChan`s, a nil that is no
connection, and natural numbers as limits.

`OneHolder` (the lists of the holders have no repetitions and no element in common, and hold
exactly the idle workers) is not inductive alone: a worker that begins to wait for work may
do so with something left in its channel, and `Stop` may be interleaved with a `clean` whose
scratch list is not accounted for. The inductive invariant is
`IInv == TypeOK /\ PoolShape /\ OneHolder`, where `PoolShape` says that only `Stop` holds the
lock across steps, that a worker which is not waiting has an empty channel and a waiting one
at most one message, that the scratch list is empty outside of the notification loop, and
that the acceptor about to send has a worker to send to. `TypeStep` preserves the types action by action (`CleanNumBound` keeps
what `clean` cuts off within `ready`). `FrameStep` disposes of the steps that move no worker
between holders, `SendStep` of those that send; `HolderStep` has a case per action. The
facts about lists, that taking the front, the tail, the last or a prefix off a list without
repetitions takes exactly those elements, are in `DistinctSeqLemmas`. `CountStep` adds the
count: the actions that change the set `Live` change `workersCount` by one, so cardinality
is needed for adding and removing one element only. `ChannelsSound`, that is
`PooledChanEmpty` and `SendNeverBlocks`, follows from `IInv`.

`OwnGetAnswer` is inductive. What a user sees of it is `OwnResult`, and `ChannelOwned` what the
pool needs; neither says whose answer is in a channel, or that a goroutine which may still send
has a call that waits. `InChannel` adds that what is in a channel is the one answer of the call
that has it, sent and not taken, and `CallShape` relates the flags `timedout` and `responded` to
where the call and its goroutine are. `StartChannel` shows that a channel from
the pool, or a new one, is empty and nobody's; `TakeStep` that what a call takes is its own
answer, after the select as after the tick; `GetStep` has a case per action. There are no
assumptions.

Model-checked only: everything about the other modules so far; liveness and whatever rests
on fairness or ENABLED, which the prover does not handle; that `WorkerPool` implements
`ConnService` (planned as a theorem); the heap's sifts, the link buffer, the header scanner
and the text and number algorithms, which are recursive.

## Divergences

Three are runs of their own, whose counterexamples TLC prints:

* `perip_panic`: Shutdown and the serving goroutine both close a `perIPConn`; the second
  `Close` finds `c.Conn` nil and panics (peripconn.go:86), or, if the wrapper is in use
  again, closes a stranger's connection. For the same reason `CounterExact`
  is about servers that are not being shut down (peripconn.go:87 against server.go:269).
* `cleaner_deadlock`: `createHostClient` registers with `mLock` held, the cleaner calls
  `Client.Clean` with `cc.mu` held (client.go:441).
* `pipeline_hang`: the goroutine of a pipelined connection ends for idleness and leaves
  `chR` set; the next `Do` waits for ever (client.go:2610).

The others are definitions at the end of the modules, in a section "What the documentation
(or a comment, or a test) says and the code does not do"; TLC finds each violated when it is
added to a configuration. Properties of passing runs that come near them say in their
comment what they leave out.

| Definition | Code | Against |
|---|---|---|
| `WorkerPool!IdleWorkersCleared`: a lone idle worker is never cleared, since `readyLen>>1` is 0 | workerpool.go:63 | server.go:275 "Idle workers beyond this time will be cleared." |
| `ServerLifecycle!NotInterrupted`: a status read as idle is acted on after the request has begun | server.go:3327 | server.go:2036 "without interrupting any active connections" |
| `ServerLifecycle!OneLate`: `stop` is read before the response is written, so a second request may be served | server.go:2690 | server.go:521 |
| `ServerLifecycle!ClosedOnReturn`: `open` is lowered before the connection is closed | workerpool.go:273 | server.go:2083 |
| `ServerLifecycle!ListenersClosed`: the first listener that fails to close ends Shutdown | server.go:2074 | server.go:2037 |
| `HostClientPool!NoForeverWaiter`: room made between the look at it and the queueing wakes nobody | client.go:1577 | client.go:1787 |
| `HostClientPool!FailedAreQueued`: a waiter is counted as failed after it has left the queue | client.go:1588 | client.go:2079 |
| `ServeConn!NoStaleDeadline` with `HeaderReceived`: the timeouts are reset before they are used to decide whether to clear deadlines | server.go:2510 | server.go:2499 |
| `ServeConn!NothingLeaked` with hijacks: the reader of a hijack is put back by one of two parties or none | server.go:2837 | server.go:2829 |
| `ServeConn!AllReleased`: with `ReduceMemoryUsage` and `ReadTimeout`, a `SetReadDeadline` that fails before the first byte returns with `ctx` | server.go:2395-2400 | server.go:2829 "ensures that resources are not leaked" |
| `ServeConn!KeptReaderIsOwn` | server.go:2857 | server.go:770 |
| `ServeConn!ClosedAfterHijack` | server.go:2659 | server.go:765 |
| `ServeConn!ConnTimeIsSet`: not after `ctx` was released and acquired again | server.go:2414 | server.go:1052 |
| `ServeConn!FirstByteIsPlain`: the byte is read from under the TLS layer | server.go:3031 | server.go:963 |
| `ClientCleaner!ItemOnce` | client.go:537 | client_cleaner.go:34 |
| `ClientCleaner!EveryIdleIsWatched`: a connection for a `Connection: close` request is opened without registering; a waiter is handed its slot, and keeps its connection | client.go:1531, 1722-1739 | client.go:547 "the default duration before idle keep-alive connection is closed" |
| `ClientCleaner!UnusedIsDropped` | client.go:1657 | client_cleaner_test.go:40 |
| `PipelineClient!AlwaysOwnResponse`: a call that read `c.chW` before a restart and `c.chR` after it | client.go:2611-2613 | client.go:2446 |
| `PipelineClient!NoEarlyTimeout`: a tick left in a pooled timer | client.go:2436 | the doc of `DoDeadline` |
| `ClientDo!NoStaleWriteDeadline`: only the read deadline is cleared | client.go:3006 | http.go:68 |
| `ClientDo!TimeoutBoundsTheWait`: the wait for a free connection knows `MaxConnWaitTimeout` only, which may be no limit | client.go:1555-1591 | client.go:251 "ErrTimeout is returned if the response wasn't returned during the given timeout." |
| `ClientDo!OldIsClosed`: RoundTrip asks the peer to close and forgets it | client.go:2941-2994 | client.go:675-677 |
| `ClientDo!RetryIfIsAsked`: `Do` asks the client's `RetryIf` only | client.go:1356 | http.go:75-77 |
| `TCPDialer!AllAreTried`: `idx` grows while `n` shrinks, so one address may be tried twice and another not at all | tcpdialer.go:345 | tcpdialer.go:190 "It dials all the resolved TCP addresses in round-robin manner" |
| `FSCache!NeverLate`: a request finds a file in the cache and counts itself as its reader after the cleaner has found none | fs_v3.go:1135-1137, 1206 | fs_v3.go:785 "The current number of readers for this file" |
| `FSCache!NeverCut`: the error of the copying is overwritten by that of closing the writer, so a copy that ends too early gets its name | fs_v3.go:1953 | fs_v3.go:1933 "so concurrent goroutines don't use it until it is created" |
| `FSCache!LockIsGivenBack`: a compression that fails leaves `ff` nil, and `ff.contentType = ct` panics with the lock held | fs_v3.go:2195 | fs_v3.go:2182 |
| `FSCache!DirIsKnown`: `newFSFile` does not set `dir`, which a pooled `fsFile` still has from its last use | fs_v3.go:2249 | fs_v3.go:795 "Is it a directory?" |
| `FSCache!NoReaderIsLost`: a range of a small file panics, since its reader's `UpdateByteRange` takes `int`; so does a big reader that cannot be rewound, since `Put` has cleared `r.ff` | fs_v3.go:1014, 1649; 980 | fs_v3.go:343 "Enables byte range requests if set to true." |
| `LBClient!NoPanic`: `get` takes `cs[0]` of an empty list, with the lock held for reading, which it keeps | lbclient.go:136 | lbclient.go:26 "It is safe calling LBClient methods from concurrently running goroutines." |
| `ClientDo!AlwaysOwnAnswer`: a stream closed before its end puts the connection back with the rest of the body in it | client.go:3010 | `OwnAnswer`'s exception |
| `ServeConn!ErrorHandlerOwnsCtx`: `ErrorHandler` is called with a `ctx` that the hijack goroutine owns and may have released | server.go:2827 | server.go:160 |
| `MessageBody!CopyIsTheSame`: the buffer a message keeps, even an empty one, makes the copy forget `bodyRaw` | http.go:1356 ff. | http.go:1356 "copies resp contents to dst except of body stream and chunkedW" |
| `MessageBody!SwapReturnsTheBody`: a raw body is not returned; `SwapIsSent`: `chunkedW` stays and is sent instead | http.go, `SwapBody` | the doc of `SwapBody` |
| `BodyStream!DiscardStaysInBody`: a chunked stream that was read to its end is read on when it is closed, from the next request's header; closed by `serveConn` that ends the connection, closed by the handler it goes on with what is left of the header | http.go:2614, bytesconv.go:260; server.go:2630, http.go:820-835 | http.go:205 "interfering with the reading of the next request" |
| `BodyStream!EofIsTheEnd`: when the client hangs up, a stream of known length ends in `io.EOF` anywhere, a chunked one between its chunks | streaming.go:25-85 | header.go:2339 `ErrUnexpectedReqBodyEOF`, server.go:169 |
| `MessageFraming!LengthOnce`: the header may have a length before that of the compressed body follows | supplement_compress.go:22-114 | header.go:2595 "Neither the Content-Length header nor the delimiter" |
| `MessageFraming!EndIsSignalled`: `serveConn` has asked for ConnectionClose before `Write` sets it | server.go:2690-2708 | http.go:2487 "close connection as eof." |
| `MessageFraming!FramingIsManaged`: a request goes out with both lines, or with a line that announces a body it does not have | header.go:1447-1452, http.go:2232-2298 | header.go:1481 "Transfer-Encoding is managed automatically." |
| `HeaderRead!KeptOnce`: a line of a response or a trailer that came before the rest of the header is kept again by every later attempt | header.go:2304-2335 | header.go:2299 "reads response header from r" |
| `HeaderRead!RestStays`: unfolding a value moves what follows the header in the reader's buffer | header.go:3750-3803 | header_test.go:63 `TestResponseHeaderMultiLineValue` |
| `HeaderFields!SetIsSingle`: `Set` on a field that was added twice changes the first and keeps the second | args.go:419-434 | header.go:1626 "Use Set for setting a single header for the given key." |
| `HeaderFields!CookieIsSetOnce`: `Add` of a `Cookie` or `Set-Cookie` appends | header.go:1469-1477, 1551-1557 | header.go:1628-1630, 1899-1901 "can only be set once and will overwrite the previous value" |
| `HeaderFields!CopyIsIndependent`: the copy's trailer keys are in the arrays of the original | args.go:367-394 | header.go:1180 "CopyTo copies all the headers to dst." |
| `HeaderFields!TrailerIsComplete`: of several values of a trailer the first is sent (four operations show it) | header.go:2800-2820 | header.go:1633 "it will be sent after the chunked response body" |
| `LinkBuffer!AckDiscardsTheRest`: `MallocAck(0)` keeps what the node at `flush` holds; after `WriteDirect` what is written next overwrites what was kept | nocopy_linkbuffer.go, `MallocAck` | nocopy_v2.go:175 "MallocAck will keep the first n malloc bytes and discard the rest." |
| `LinkBuffer!SliceKeepsItsBytes`: `WriteDirect` splits a node in two over one block without a reference; the second one frees it while a slice of the first still reads it | nocopy_linkbuffer.go:545-551, 888-890 | nocopy_linkbuffer.go:862 "Refer holds a reference count at the same time as Next, and releases the real buffer after Release." |
| `ClientMap!HostLimit`: `Clean` drops a HostClient between `createHostClient` and the count, which leaves two for the host, each with the limit | client.go:400-404 | client.go:255 "if all Client.MaxConnsPerHost connections to the requested host are busy" |
| `URIs!UpdateKeepsHost`: not if "//" is anywhere in the reference, as in a query with a URL | uri.go:781 ff. | uri.go:773 "In this case only RequestURI part of the original uri is replaced." |
| `URIs!HostClientStays`: any host that the old one begins with counts as the same | client.go:1135 | client.go:1057 "HostClients are only able to follow redirects to the same host." |
| `URIs!HostClientKeepsScheme`: the old scheme is compared after the new one was written over it, so any other of the same length passes | client.go:1128-1131 | client.go:1053 "HostClients are only able to follow redirects to the same protocol." |
| `URIs!ArgsAreTheQuery`: when all arguments are deleted the URI is written with the old query string | uri.go:720-726 | uri.go:908 |
| `IntCodec!OverflowIsFound`: 10*v can wrap around to a value above v | bytesconv.go:178 | bytesconv.go:177 "Test for overflow." |
| `Prefork!Terminated`: a child that was given a pid which still waited in `sigCh` is dropped from the map and goes on | prefork/prefork.go:196 | prefork/prefork.go:57 "then it will return and terminate the server" |
| `Stackless!SuccessIsWritten`: a call refused for load, and a `Close` that failed, are reported as success | compress.go:119 | compress.go:98 "returns the number of compressed bytes written to w" |
| `Stackless!NoOneElses`: a writer whose reset was refused still has what its last user wrote | stackless/writer.go:79 | the same |
| `GetURL!DstIsReturned`: after a timeout `dst` is returned while the goroutine may still write to it | client.go:1015 | client.go:910 "The contents of dst will be replaced by the body and returned" |
| `ByteRange!PartIsThere`: the last 0 bytes are answered as an empty part that ends before it begins | fs_v3.go:1718 | fs_v3.go:1691 "It follows" RFC 2616, section 14.35 |

Small ones that need no behaviour to see: the test `dst.cliInfo != nil` comes right after a
`Reset` that clears it (http.go:1338); `ResetBody` and `SetBody` leave `parsedPostArgs`;
`isValidMethod` is asked about the method of the request before (header.go:3147); a `Domain`
or `Path` given twice in one cookie is joined; `ParseUint` reports an overflow as a trailing
character; `WriteGunzip` drops the error of the copy (compress.go:168).

Three more were met on the way and are in no model: the writer of a pipelined connection
goes on after a request whose deadline has passed without looking whether it must flush
(client.go:2747; `CallsReturn` has no scene that mixes calls with and without deadlines); a
failed TLS handshake is overwritten by the next assignment to `err` (client.go:2639); and
`RoundTrip` says "Don't retry in case of ErrBodyTooLarge" (client.go:2990), an answer `Do`
overwrites.

## Not modelled

* The algorithms of compression, TLS, DNS, the operating system: libraries that succeed or
  fail here. Brotli and zstd repeat the code of gzip, which `Stackless` has.
* Adaptors, proxies, debug handlers, tables and examples: no state of their own. User values
  are a list with the operations of `ArgsList`.
* `fs.go` with `fs_errors.go`, which their build tag excludes; of `fs_v3.go` the HTML of an
  index, path rewriting and `SkipCache`.
* Of messages: the parts of multipart forms and uploads, dates, the normalisation of names,
  getters and `VisitAll`; of URIs: IP literals, user and password, the branch for Windows; of
  the link buffer: what nothing in the repository uses (`WriteBuffer`, `Append`, `Until`).
* Of the clients: `Post`, and the choice among the connections of a
  `PipelineClient`.

## Next

Theorems, each with its inductive invariant checked by TLC first: `WorkerPool` implements
`ConnService`, step by step from `IInv`; `ServerLifecycle!AccountedAndDrained`;
`HostClientPool!PoolSound`; `PerIPConn!CounterExact`; `ClientMap!InUseIsMapped`;
`Prefork!ChildrenKnown`; `Stackless!ItemsSound`; `ServeConn!ObjectsOwned`;
`PipelineClient!WorksSound`. Then `BodyStream`
composed with `ServeConn`, which takes the reading of a body as one step.
