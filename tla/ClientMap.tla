------------------------------ MODULE ClientMap ------------------------------
(***************************************************************************)
(* The Client's maps of HostClients (client.go): Do, DoRedirects and       *)
(* Dedicated look a HostClient up or create it, Clean of the cleaner's     *)
(* goroutine drops the ones that are not in use, and AddHostClient puts    *)
(* one in.  A HostClient is its connections, idle and busy;                *)
(* HostClientPool has what is inside.                                      *)
(* A key is a host with the map it belongs to, m or ms.                    *)
(* A definition D_Fault just before D is D with a plausible fault; no spec *)
(* uses it.                                                                *)
(***************************************************************************)
EXTENDS Integers, FiniteSets

CONSTANTS
  Calls,
  Keys,
  HostClients,
  Nil,
  MaxConns,       \* MaxConnsPerHost
  MaxRedirects    \* maxRedirectsCount

VARIABLES
  m,              \* c.m and c.ms: the HostClient of each key, or Nil
  mLock,          \* c.mLock: "clean" while Clean holds it for writing
  todo,           \* the keys Clean has still to look at
  hc,             \* each HostClient: pendingClientRequests, idle connections
  call,           \* each call: what it is, where it stands, its key, HostClient and redirects
  late,           \* calls whose HostClient Clean dropped before they used it
  replaced        \* calls whose HostClient AddHostClient replaced

vars == <<m, mLock, todo, hc, call, late, replaced>>

Idle == [kind |-> "none", pc |-> "idle", key |-> Nil, hc |-> Nil, hops |-> 0]
Unused == [pending |-> 0, idle |-> 0]

Busy(h) == {c \in Calls : call[c].pc = "conn" /\ call[c].hc = h}
\* What NewHostClient may return: an object that nobody has.
New == CHOOSE h \in HostClients :
         (\A k \in Keys : m[k] # h) /\ (\A c \in Calls : call[c].hc # h)
ConnsCount(h) == hc[h].idle + Cardinality(Busy(h))

TypeOK ==
  /\ m \in [Keys -> HostClients \cup {Nil}]
  /\ mLock \in {"clean", Nil}
  /\ todo \subseteq Keys
  /\ hc \in [HostClients -> [pending : 0..Cardinality(Calls), idle : 0..MaxConns]]
  /\ call \in [Calls -> [kind : {"none", "do", "dedicated"},
                         pc : {"idle", "lookup", "create", "found", "counted", "conn"},
                         key : Keys \cup {Nil}, hc : HostClients \cup {Nil}, hops : 0..MaxRedirects]]
  /\ late \subseteq Calls /\ replaced \subseteq Calls

Init ==
  /\ m = [k \in Keys |-> Nil]
  /\ mLock = Nil
  /\ todo = {}
  /\ hc = [h \in HostClients |-> Unused]
  /\ call = [c \in Calls |-> Idle]
  /\ late = {}
  /\ replaced = {}

Readable == mLock = Nil
-----------------------------------------------------------------------------
\* Do, DoRedirects and Dedicated of the Client.
Start(c, k, kind) ==
  /\ call[c].pc = "idle"
  /\ call' = [call EXCEPT ![c] = [Idle EXCEPT !.kind = kind, !.pc = "lookup", !.key = k]]
  /\ UNCHANGED <<m, mLock, todo, hc, late, replaced>>

\* createHostClient, and Dedicated before it: the lookup under RLock.
Lookup(c) ==
  /\ call[c].pc = "lookup"
  /\ Readable
  /\ call' = [call EXCEPT ![c].pc = IF m[call[c].key] = Nil THEN "create" ELSE "found",
                          ![c].hc = m[call[c].key]]
  /\ UNCHANGED <<m, mLock, todo, hc, late, replaced>>

\* The second look under Lock, and NewHostClient.  NewHostClient or ConfigureClient may fail.
Create_Blindly(c) ==
  /\ call[c].pc = "create"
  /\ Readable
  /\ m' = [m EXCEPT ![call[c].key] = New]
  /\ hc' = [hc EXCEPT ![New] = Unused]
  /\ call' = [call EXCEPT ![c].pc = "found", ![c].hc = New]
  /\ UNCHANGED <<mLock, todo, late, replaced>>
Create(c) ==
  /\ call[c].pc = "create"
  /\ Readable
  /\ LET h == m[call[c].key] IN
     \/ /\ h # Nil
        /\ call' = [call EXCEPT ![c].pc = "found", ![c].hc = h]
        /\ UNCHANGED <<m, hc>>
     \/ /\ h = Nil
        /\ m' = [m EXCEPT ![call[c].key] = New]
        /\ hc' = [hc EXCEPT ![New] = Unused]
        /\ call' = [call EXCEPT ![c].pc = "found", ![c].hc = New]
     \/ /\ h = Nil
        /\ call' = [call EXCEPT ![c] = Idle]
        /\ UNCHANGED <<m, hc>>
  /\ UNCHANGED <<mLock, todo, late, replaced>>

\* atomic.AddInt32(&hc.pendingClientRequests, 1), after createHostClient has unlocked.
Count(c) ==
  /\ call[c].pc = "found"
  /\ call[c].kind = "do"
  /\ hc' = [hc EXCEPT ![call[c].hc].pending = @ + 1]
  /\ call' = [call EXCEPT ![c].pc = "counted"]
  /\ UNCHANGED <<m, mLock, todo, late, replaced>>

\* acquireConn of the HostClient: an idle connection or a new one.
CanAcquire(c) == call[c].pc = "counted" \/ (call[c].pc = "found" /\ call[c].kind = "dedicated")
Acquire(c) ==
  LET h == call[c].hc IN
  /\ CanAcquire(c)
  /\ \/ hc[h].idle > 0 /\ hc' = [hc EXCEPT ![h].idle = @ - 1]
     \/ hc[h].idle = 0 /\ ConnsCount(h) < MaxConns /\ UNCHANGED hc
  /\ call' = [call EXCEPT ![c].pc = "conn"]
  /\ UNCHANGED <<m, mLock, todo, late, replaced>>

\* The call is over: the deferred AddInt32(-1), which Dedicated does not have.
Over(c, g) == IF call[c].kind = "do" THEN [g EXCEPT ![call[c].hc].pending = @ - 1] ELSE g

\* No connection: ErrNoFreeConns, or the dial fails.
Refuse(c) ==
  /\ CanAcquire(c)
  /\ hc' = Over(c, hc)
  /\ call' = [call EXCEPT ![c] = Idle]
  /\ late' = late \ {c} /\ replaced' = replaced \ {c}
  /\ UNCHANGED <<m, mLock, todo>>

\* The connection is kept or closed and the call returns; or a redirect to a key follows,
\* unless there were too many.
Return(c, kept, k) ==
  /\ call[c].pc = "conn"
  /\ hc' = Over(c, [hc EXCEPT ![call[c].hc].idle = @ + kept])
  /\ call' = [call EXCEPT ![c] =
       IF k = Nil \/ call[c].kind = "dedicated" \/ call[c].hops = MaxRedirects THEN Idle
       ELSE [Idle EXCEPT !.kind = "do", !.pc = "lookup", !.key = k, !.hops = call[c].hops + 1]]
  /\ late' = late \ {c} /\ replaced' = replaced \ {c}
  /\ UNCHANGED <<m, mLock, todo>>
-----------------------------------------------------------------------------
\* Clean holds mLock and looks at every HostClient, under its connsLock.
CleanStart ==
  /\ Readable
  /\ mLock' = "clean"
  /\ todo' = {k \in Keys : m[k] # Nil}
  /\ UNCHANGED <<m, hc, call, late, replaced>>

\* Calls that have the HostClient and do not show it: not counted, no connection.
Unseen(h) == {c \in Calls : call[c].hc = h /\ call[c].pc = "found"}

CleanVisit(k) ==
  /\ mLock = "clean" /\ k \in todo
  /\ todo' = todo \ {k}
  /\ IF ConnsCount(m[k]) = 0 /\ hc[m[k]].pending = 0
     THEN m' = [m EXCEPT ![k] = Nil] /\ late' = late \cup Unseen(m[k])
     ELSE UNCHANGED <<m, late>>
  /\ UNCHANGED <<mLock, hc, call, replaced>>

CleanEnd ==
  /\ mLock = "clean" /\ todo = {}
  /\ mLock' = Nil
  /\ UNCHANGED <<m, todo, hc, call, late, replaced>>

\* HostClient.Clean and CloseIdleConnections: idle connections are closed.
CloseIdle(h) ==
  /\ hc[h].idle > 0
  /\ \E n \in 1..hc[h].idle : hc' = [hc EXCEPT ![h].idle = @ - n]
  /\ UNCHANGED <<m, mLock, todo, call, late, replaced>>

\* AddHostClient replaces what is there; those that use it go on with it.
AddHostClient(k) ==
  /\ Readable
  /\ m' = [m EXCEPT ![k] = New]
  /\ hc' = [hc EXCEPT ![New] = Unused]
  /\ replaced' = replaced \cup {c \in Calls : call[c].key = k /\ call[c].hc # Nil}
  /\ UNCHANGED <<mLock, todo, call, late>>

Step(c) ==
  \/ Lookup(c) \/ Create(c) \/ Count(c) \/ Acquire(c) \/ Refuse(c)
  \/ \E kept \in 0..1, k \in Keys \cup {Nil} : Return(c, kept, k)

Next ==
  \/ \E c \in Calls : Step(c) \/ \E k \in Keys : Start(c, k, "do") \/ Start(c, k, "dedicated")
  \/ CleanStart \/ CleanEnd
  \/ \E k \in Keys : CleanVisit(k) \/ AddHostClient(k)
  \/ \E h \in HostClients : CloseIdle(h)

Spec == Init /\ [][Next]_vars
-----------------------------------------------------------------------------
(* Properties *)

\* TypeOK, and: what Clean counts is exact, and a HostClient that a call uses stays in the
\* map, so that the next request to the host shares its connections and its limit.  Only one
\* that was dropped between createHostClient and AddInt32, or replaced by AddHostClient, is
\* used outside of it.
InUseIsMapped ==
  /\ TypeOK
  /\ \A h \in HostClients :
       hc[h].pending = Cardinality({c \in Calls : call[c].hc = h /\ call[c].kind = "do"
                                                  /\ call[c].pc \in {"counted", "conn"}})
  /\ \A c \in Calls \ (late \cup replaced) :
       call[c].pc \in {"found", "counted", "conn"} => m[call[c].key] = call[c].hc
-----------------------------------------------------------------------------
(* What the documentation says and the code does not do *)

\* "ErrNoFreeConns is returned if all Client.MaxConnsPerHost connections to the requested
\* host are busy": a HostClient that Clean drops while a request is about to use it leaves
\* two of them for the host, each with the limit.
HostLimit ==
  replaced = {} => \A k \in Keys : Cardinality({c \in Calls : call[c].pc = "conn" /\ call[c].key = k}) <= MaxConns
===============================================================================
