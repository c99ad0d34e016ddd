------------------------------ MODULE PerIPConn ------------------------------
(***************************************************************************)
(* Server.MaxConnsPerIP: perIPConnCounter and the pooled perIPConn         *)
(* wrappers (peripconn.go), wrapPerIPConn (server.go) on the way in, and   *)
(* the two callers of Close on the way out: the goroutine that served the  *)
(* connection, and closeIdleConns during a Shutdown.                       *)
(* perIPConn and perIPTLSConn differ in the pool only.                     *)
(* A definition D_Fault just before D is D with a plausible fault; no spec *)
(* uses it.                                                                *)
(***************************************************************************)
EXTENDS Integers, FiniteSets

CONSTANTS
  Conns,
  Nil,
  Wrappers,        \* the perIPConn objects
  IPs,             \* IPv4 addresses
  MaxConnsPerIP

ASSUME PerIPConnAssumption ==
  /\ IsFiniteSet(Conns)
  /\ Nil \notin Conns
  /\ MaxConnsPerIP \in Nat \ {0}

\* The two goroutines that may close connection c.
Closers == {"worker", "shutdown"}

VARIABLES
  m,         \* perIPConnCounter.m
  pool,      \* perIPConnPool: how often each wrapper has been put
  made,      \* wrappers allocated so far
  conn,      \* perIPConn.Conn
  ip,        \* perIPConn.ip
  addr,      \* the remote address of each connection; 0 stands for not IPv4
  wrapper,   \* the perIPConn serving each connection, Nil if it has none
  closed,    \* connections that are closed
  pc,        \* where the goroutine of each connection is
  spc        \* where a Shutdown closing it is

vars == <<m, pool, made, conn, ip, addr, wrapper, closed, pc, spc>>

TypeOK ==
  /\ m \in [IPs -> Nat]
  /\ pool \in [Wrappers -> Nat]
  /\ made \subseteq Wrappers
  /\ conn \in [Wrappers -> Conns \cup {Nil}]
  /\ ip \in [Wrappers -> IPs \cup {0}]
  /\ addr \in [Conns -> IPs \cup {0}]
  /\ wrapper \in [Conns -> Wrappers \cup {Nil}]
  /\ closed \subseteq Conns
  /\ pc \in [Conns -> {"new", "over", "wrap", "serve", "close", "unregister", "put",
                       "end", "panic"}]
  /\ spc \in [Conns -> {"none", "close", "unregister", "put", "end", "panic"}]

Init ==
  /\ m = [i \in IPs |-> 0]
  /\ pool = [w \in Wrappers |-> 0]
  /\ made = {}
  /\ conn = [w \in Wrappers |-> Nil]
  /\ ip = [w \in Wrappers |-> 0]
  /\ addr \in [Conns -> IPs \cup {0}]
  /\ wrapper = [c \in Conns |-> Nil]
  /\ closed = {}
  /\ pc = [c \in Conns |-> "new"]
  /\ spc = [c \in Conns |-> "none"]
-----------------------------------------------------------------------------
(* wrapPerIPConn *)

OverLimit(n) == n > MaxConnsPerIP

\* Register, and the decision on the count it returned.  A connection that is
\* not IPv4 is not counted.
Register(c) ==
  /\ pc[c] = "new"
  /\ \/ /\ addr[c] = 0
        /\ pc' = [pc EXCEPT ![c] = "serve"]
        /\ UNCHANGED m
     \/ /\ addr[c] # 0
        /\ m' = [m EXCEPT ![addr[c]] = @ + 1]
        /\ pc' = [pc EXCEPT ![c] = IF OverLimit(m[addr[c]] + 1) THEN "over" ELSE "wrap"]
  /\ UNCHANGED <<pool, made, conn, ip, addr, wrapper, closed, spc>>

\* The count after Unregister, which keeps it from going negative.
Decremented_Never(i) == m
Decremented(i) == [m EXCEPT ![i] = IF @ > 0 THEN @ - 1 ELSE 0]

\* Over the limit: unregistered, answered and closed.
Reject(c) ==
  /\ pc[c] = "over"
  /\ m' = Decremented(addr[c])
  /\ closed' = closed \cup {c}
  /\ pc' = [pc EXCEPT ![c] = "end"]
  /\ UNCHANGED <<pool, made, conn, ip, addr, wrapper, spc>>

\* The pool after Get has returned w.
Taken_Left(w) == pool
Taken(w) == [pool EXCEPT ![w] = @ - 1]

\* acquirePerIPConn: a wrapper from the pool, or a new one (those not made yet are alike).
AcquirePerIPConn(c, w) ==
  /\ pc[c] = "wrap"
  /\ \/ /\ pool[w] > 0
        /\ pool' = Taken(w)
        /\ UNCHANGED made
     \/ /\ made # Wrappers /\ w = CHOOSE v \in Wrappers : v \notin made
        /\ made' = made \cup {w}
        /\ UNCHANGED pool
  /\ conn' = [conn EXCEPT ![w] = c]
  /\ ip' = [ip EXCEPT ![w] = addr[c]]
  /\ wrapper' = [wrapper EXCEPT ![c] = w]
  /\ pc' = [pc EXCEPT ![c] = "serve"]
  /\ UNCHANGED <<m, addr, closed, spc>>
-----------------------------------------------------------------------------
(* Close *)

\* The goroutine is done with the connection; a read from one that Shutdown
\* has closed fails and brings it here too.
ServeReturn(c) ==
  /\ pc[c] = "serve"
  /\ pc' = [pc EXCEPT ![c] = "close"]
  /\ UNCHANGED <<m, pool, made, conn, ip, addr, wrapper, closed, spc>>

\* closeIdleConns finds the connection idle.
FindIdle(c) ==
  /\ pc[c] = "serve"
  /\ spc[c] = "none"
  /\ spc' = [spc EXCEPT ![c] = "close"]
  /\ UNCHANGED <<m, pool, made, conn, ip, addr, wrapper, closed, pc>>

At(g, c, l) == IF g = "worker" THEN pc[c] = l ELSE spc[c] = l
GoTo(g, c, l) ==
  IF g = "worker" THEN pc' = [pc EXCEPT ![c] = l] /\ UNCHANGED spc
                  ELSE spc' = [spc EXCEPT ![c] = l] /\ UNCHANGED pc

\* c.Conn.Close(): of the connection the wrapper holds now; a nil one panics.
CloseInner(g, c) ==
  LET w == wrapper[c] IN
  /\ At(g, c, "close")
  /\ \/ /\ w = Nil
        /\ closed' = closed \cup {c}
        /\ GoTo(g, c, "end")
     \/ /\ w # Nil
        /\ conn[w] # Nil
        /\ closed' = closed \cup {conn[w]}
        /\ GoTo(g, c, "unregister")
     \/ /\ w # Nil
        /\ conn[w] = Nil
        /\ GoTo(g, c, "panic")
        /\ UNCHANGED closed
  /\ UNCHANGED <<m, pool, made, conn, ip, addr, wrapper>>

Unregister(g, c) ==
  /\ At(g, c, "unregister")
  /\ m' = Decremented(ip[wrapper[c]])
  /\ GoTo(g, c, "put")
  /\ UNCHANGED <<pool, made, conn, ip, addr, wrapper, closed>>

\* What is left in the wrapper.
Emptied(w) == [conn EXCEPT ![w] = Nil]

\* c.Conn = nil and perIPConnPool.Put(c)
PutBack(g, c) ==
  /\ At(g, c, "put")
  /\ conn' = Emptied(wrapper[c])
  /\ pool' = [pool EXCEPT ![wrapper[c]] = @ + 1]
  /\ GoTo(g, c, "end")
  /\ UNCHANGED <<m, made, ip, addr, wrapper, closed>>

\* Every connection is done with.
Finished ==
  /\ \A c \in Conns : pc[c] \in {"end", "panic"} /\ spc[c] \in {"none", "end", "panic"}
  /\ UNCHANGED vars

Next ==
  \/ \E c \in Conns :
       \/ Register(c) \/ Reject(c) \/ ServeReturn(c) \/ FindIdle(c)
       \/ \E w \in Wrappers : AcquirePerIPConn(c, w)
       \/ \E g \in Closers : CloseInner(g, c) \/ Unregister(g, c) \/ PutBack(g, c)
  \/ Finished

Spec == Init /\ [][Next]_vars
-----------------------------------------------------------------------------
(* Properties *)

\* No Shutdown has begun to close connections.
NoShutdown == \A c \in Conns : spc[c] = "none"

\* As long as no Shutdown closes connections the count of an address is the number of
\* its connections that have registered and not unregistered; and of those ("Maximum
\* number of concurrent client connections allowed per IP") no more than MaxConnsPerIP
\* are wrapped and open.  Until its goroutine has closed it, a connection's wrapper holds that
\* connection, and a pooled wrapper is in the pool once and empty, so that no Close reaches
\* another connection.
CounterExact ==
  /\ TypeOK
  /\ NoShutdown => \A i \in IPs :
       /\ m[i] = Cardinality({c \in Conns : /\ addr[c] = i
                                            /\ pc[c] \in {"over", "wrap", "serve", "close",
                                                          "unregister"}})
       /\ Cardinality({c \in Conns : addr[c] = i /\ wrapper[c] # Nil /\ c \notin closed})
            <= MaxConnsPerIP
  /\ NoShutdown =>
       /\ \A c \in Conns :
            wrapper[c] # Nil /\ pc[c] \in {"serve", "close", "unregister", "put"}
              => conn[wrapper[c]] = c
       /\ \A w \in Wrappers : pool[w] > 0 => pool[w] = 1 /\ conn[w] = Nil
-----------------------------------------------------------------------------
(* What the documentation says and the code does not do *)

\* Closing connections does not panic: perIPConn.Close finds its Conn.
NoPanic == \A c \in Conns : pc[c] # "panic" /\ spc[c] # "panic"
=============================================================================
