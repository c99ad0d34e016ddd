-------------------------- MODULE MCServerLifecycle --------------------------
(* ServerLifecycle for TLC. *)
EXTENDS ServerLifecycle, TLC

CONSTANTS l1, l2, s1, s2, c1, c2, d1, d2  \* listeners, Shutdowns, connections

Scene(reduce, close, perIP, ctx, fail, here) ==
  [ReduceMemoryUsage |-> reduce, CloseOnShutdown |-> close, MaxConnsPerIP |-> perIP,
   CtxMayEnd |-> ctx,
   ListenerMayFail |-> fail, here |-> here]

\* Two accepted connections and a Shutdown whose context may end; two Shutdowns, a
\* connection and a listener that may fail; two listeners; two calls of ServeConn;
\* two listeners with a connection each; and an accepted connection beside a call of
\* ServeConn.
Several ==
  {Scene(FALSE, FALSE, FALSE, TRUE, FALSE, {l1, s1, c1, c2}),
   Scene(TRUE, FALSE, TRUE, FALSE, TRUE, {l1, s1, s2, c1}),
   Scene(FALSE, FALSE, FALSE, FALSE, TRUE, {l1, l2, s1}),
   Scene(TRUE, TRUE, TRUE, FALSE, FALSE, {s1, d1, d2}),
   Scene(FALSE, FALSE, TRUE, FALSE, FALSE, {l1, l2, c1, c2}),
   Scene(TRUE, FALSE, TRUE, FALSE, FALSE, {l1, c1, d1})}
=============================================================================
