----------------------------- MODULE MCClientDo -----------------------------
(* A small instance of ClientDo for TLC. *)
EXTENDS ClientDo, TLC

CONSTANTS g1, g2, c1, c2  \* callers, connections

\* Requests: a GET with a timeout, one that follows redirects, a POST that switches its
\* timeouts off, a POST with a timeout, a PUT with a body stream and Connection: close.
Request(idempotent, bodyStream, connClose, timeout, read, write, retryIf, follow) ==
  [idempotent |-> idempotent, bodyStream |-> bodyStream, connClose |-> connClose,
   timeout |-> timeout, readTimeout |-> read, writeTimeout |-> write, retryIf |-> retryIf,
   followRedirects |-> follow]
Get == Request(TRUE, FALSE, FALSE, 1, 0, 0, "none", FALSE)
Follow == Request(TRUE, FALSE, FALSE, 1, 0, 0, "none", TRUE)
Post == Request(FALSE, FALSE, FALSE, 0, -1, -1, "no", FALSE)
PostTimed == Request(FALSE, FALSE, FALSE, 1, 0, 0, "no", FALSE)
PutStream == Request(TRUE, TRUE, TRUE, 0, 1, 1, "none", FALSE)

Setting(write, wait, duration, retryIf, streamBody, r1, n1, r2, conns) ==
  [readTimeout |-> 0, writeTimeout |-> write, waitFreeConnTimeout |-> wait, maxAttempts |-> 2,
   maxConnDuration |-> duration, retryIf |-> retryIf, maxRedirects |-> 1, streamBody |-> streamBody,
   req |-> g1 :> r1 @@ g2 :> r2, calls |-> g1 :> n1 @@ g2 :> 1, conns |-> conns]

\* Two callers of one connection wait for it with a limit, without one, or not at all.
Clients ==
  {Setting(0, 1, FALSE, "none", FALSE, Get, 2, Post, {c1}),
   Setting(0, 0, FALSE, "none", FALSE, Get, 1, Post, {c1, c2}),
   Setting(0, 0, TRUE, "yes", FALSE, PostTimed, 1, PutStream, {c1}),
   Setting(1, -1, FALSE, "none", TRUE, Follow, 1, Post, {c1})}
=============================================================================
