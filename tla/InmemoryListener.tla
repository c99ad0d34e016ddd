--------------------------- MODULE InmemoryListener ---------------------------
(***************************************************************************)
(* InmemoryListener (fasthttputil/inmemory_listener.go): goroutines that   *)
(* call Dial, Accept and Close.  Dial keeps the lock until its connection  *)
(* has been accepted; Close is one critical section.  A connection is      *)
(* named by the goroutine that dials it; acceptors accept until an error,  *)
(* as Server.Serve does.                                                   *)
(* A definition D_Fault just before D is D with a plausible fault; no spec *)
(* uses it.                                                                *)
(***************************************************************************)
EXTENDS Naturals, Sequences, FiniteSets

CONSTANTS Dialers, Acceptors, Closers, Nil

VARIABLES
  lock,       \* the dialer that holds ln.lock, or Nil
  closed,     \* ln.closed, and the channel ln.conns is closed
  conns,      \* the channel ln.conns
  accepted,   \* the connections whose accepted channel is closed
  dial,       \* where each dialer is
  inHand,     \* the connection an acceptor has received, or Nil
  ended,      \* the acceptors that were told of the end
  close       \* where each closer is

vars == <<lock, closed, conns, accepted, dial, inHand, ended, close>>

TypeOK ==
  /\ lock \in Dialers \cup {Nil}
  /\ closed \in BOOLEAN
  /\ conns \in Seq(Dialers)
  /\ accepted \subseteq Dialers
  /\ dial \in [Dialers -> {"call", "locked", "send", "sent", "conn", "refused", "panic"}]
  /\ inHand \in [Acceptors -> Dialers \cup {Nil}]
  /\ ended \subseteq Acceptors
  /\ close \in [Closers -> {"call", "closed", "wasClosed"}]

Init ==
  /\ lock = Nil /\ closed = FALSE /\ conns = <<>> /\ accepted = {}
  /\ dial = [d \in Dialers |-> "call"]
  /\ inHand = [a \in Acceptors |-> Nil]
  /\ ended = {}
  /\ close = [c \in Closers |-> "call"]

DialLock(d) ==
  /\ dial[d] = "call" /\ lock = Nil
  /\ lock' = d
  /\ dial' = [dial EXCEPT ![d] = "locked"]
  /\ UNCHANGED <<closed, conns, accepted, inHand, ended, close>>

\* After Close both ends of the new pipe are closed and Dial fails.
DialCheck(d) ==
  /\ dial[d] = "locked"
  /\ dial' = [dial EXCEPT ![d] = IF closed THEN "refused" ELSE "send"]
  /\ lock' = IF closed THEN Nil ELSE d
  /\ UNCHANGED <<closed, conns, accepted, inHand, ended, close>>

\* The channel has room for 1024.  A send on a closed channel panics.
DialSend(d) ==
  /\ dial[d] = "send"
  /\ dial' = [dial EXCEPT ![d] = IF closed THEN "panic" ELSE "sent"]
  /\ conns' = IF closed THEN conns ELSE Append(conns, d)
  /\ UNCHANGED <<lock, closed, accepted, inHand, ended, close>>

\* <-accepted, and the unlock.
DialReturn(d) ==
  /\ dial[d] = "sent" /\ d \in accepted
  /\ dial' = [dial EXCEPT ![d] = "conn"]
  /\ lock' = Nil
  /\ UNCHANGED <<closed, conns, accepted, inHand, ended, close>>

\* <-ln.conns, which still gives what is in it when it is closed.
Accept(a) ==
  /\ inHand[a] = Nil /\ a \notin ended
  /\ \/ /\ conns # <<>>
        /\ inHand' = [inHand EXCEPT ![a] = Head(conns)]
        /\ conns' = Tail(conns)
        /\ UNCHANGED ended
     \/ /\ conns = <<>> /\ closed
        /\ ended' = ended \cup {a}
        /\ UNCHANGED <<inHand, conns>>
  /\ UNCHANGED <<lock, closed, accepted, dial, close>>

\* close(c.accepted), and Accept returns.
Accepted(a) ==
  /\ inHand[a] # Nil
  /\ accepted' = accepted \cup {inHand[a]}
  /\ inHand' = [inHand EXCEPT ![a] = Nil]
  /\ UNCHANGED <<lock, closed, conns, dial, ended, close>>

Close_NoLock(c) ==
  /\ close[c] = "call"
  /\ close' = [close EXCEPT ![c] = IF closed THEN "wasClosed" ELSE "closed"]
  /\ closed' = TRUE
  /\ UNCHANGED <<lock, conns, accepted, dial, inHand, ended>>
Close(c) ==
  /\ close[c] = "call" /\ lock = Nil
  /\ close' = [close EXCEPT ![c] = IF closed THEN "wasClosed" ELSE "closed"]
  /\ closed' = TRUE
  /\ UNCHANGED <<lock, conns, accepted, dial, inHand, ended>>

\* Everyone is done; acceptors wait if nobody closes the listener.
Finished ==
  /\ \A d \in Dialers : dial[d] \in {"conn", "refused"}
  /\ UNCHANGED vars

Next ==
  \/ \E d \in Dialers : DialLock(d) \/ DialCheck(d) \/ DialSend(d) \/ DialReturn(d)
  \/ \E a \in Acceptors : Accept(a) \/ Accepted(a)
  \/ \E c \in Closers : Close(c)
  \/ Finished

Spec == Init /\ [][Next]_vars
----------------------------------------------------------------------------
(* What is to be checked *)

\* "Accept returns new connection per each Dial call", "it only returns once the server has
\* accepted the connection": a connection is in one place until it is accepted, a Dial that
\* was refused left nothing behind, and Close leaves no connection that was sent and not yet
\* accepted, nor meets a Dial that is about to send.
DialIsAccepted ==
  /\ TypeOK
  /\ \A d \in Dialers :
       /\ Cardinality({i \in DOMAIN conns : conns[i] = d})
           + Cardinality({a \in Acceptors : inHand[a] = d})
           + (IF d \in accepted THEN 1 ELSE 0)
          = IF dial[d] \in {"sent", "conn"} THEN 1 ELSE 0
       /\ dial[d] = "conn" => d \in accepted
  /\ closed => \A d \in Dialers : dial[d] \notin {"send", "sent", "panic"}
=============================================================================
