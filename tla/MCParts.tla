------------------------------- MODULE MCParts -------------------------------
(***************************************************************************)
(* For TLC: PerIPConn, TCPDialer, InmemoryListener, PipeConns, LBClient and *)
(* FSCache, which have no state in common, side by side.  part tells which *)
(* of them moves in a behaviour.                                           *)
(***************************************************************************)
EXTENDS MCPerIPConn

CONSTANTS Dialers, d1, d2, Entries, MaxAddrs, IdxModulus,
          Acceptors, LnClosers, Buffers, Capacity, MaxBytes, MaxLen,
          Callers, Clients, maxPenalty, MaxCalls,
          Requests, Keys, k1, k2, Files, Copies, CopyLimit, MaxVersion

VARIABLES part,
          setup, tcpAddrs, entry, slots, dialer, doomed,
          lock, lnClosed, conns, accepted, dial, inHand, ended, close,
          buffers, content, ch, stopped, w, r,
          cs, penalty, total, pending, timers, calls, caller,
          scene, disk, zdisk, cache, file, files, copyOf, locks, request, cleaner, late

dialerVars == <<setup, tcpAddrs, entry, slots, dialer, doomed>>
listenerVars == <<lock, lnClosed, conns, accepted, dial, inHand, ended, close>>
pipeVars == <<buffers, content, ch, stopped, w, r>>
lbVars == <<cs, penalty, total, pending, timers, calls, caller>>
fsVars == <<scene, disk, zdisk, cache, file, files, copyOf, locks, request, cleaner, late>>

\* One of two dialers has a deadline and there is one slot; or both have none and there is
\* no limit; or names are not resolved.
Setups ==
  {[concurrency |-> 1, disableDNS |-> FALSE, addrs |-> 2, timed |-> {d1}],
   [concurrency |-> 0, disableDNS |-> FALSE, addrs |-> 1, timed |-> {}],
   [concurrency |-> 1, disableDNS |-> TRUE, addrs |-> 1, timed |-> {d1, d2}]}

\* Small files under two keys; big ones; files that are compressed onto the disk, and change, or
\* into memory; directories.
Scene(kind, compress, osFS, keys, mods) ==
  [kind |-> kind, compress |-> compress, osFS |-> osFS, keys |-> keys, mods |-> mods]
Scenes ==
  {Scene("small", FALSE, TRUE, {k1, k2}, 0), Scene("big", FALSE, TRUE, {k1}, 0),
   Scene("small", TRUE, TRUE, {k1}, 1), Scene("small", TRUE, FALSE, {k1}, 0),
   Scene("dir", FALSE, TRUE, {k1}, 0)}

Dialer == INSTANCE TCPDialer
Listener == INSTANCE InmemoryListener WITH Dialers <- Callers, closed <- lnClosed, Closers <- LnClosers
Pipe == INSTANCE PipeConns WITH pool <- buffers
LB == INSTANCE LBClient
FS == INSTANCE FSCache WITH pool <- files

PartsInit ==
  /\ part \in {"perip", "dialer", "listener", "pipe", "lb", "fs"}
  /\ Init /\ Dialer!Init /\ Listener!Init /\ Pipe!Init /\ LB!Init /\ FS!Init
  /\ part # "perip" => \A c \in Conns : addr[c] = 0
  /\ part # "dialer" => setup = CHOOSE s \in Setups : s.concurrency = 0
  /\ part # "lb" => cs = <<CHOOSE c \in Clients : TRUE>>
  /\ part # "fs" => scene = CHOOSE s \in Scenes : s.kind = "dir"

PartsNext ==
  /\ \/ /\ part = "perip" /\ Next
        /\ UNCHANGED <<dialerVars, listenerVars, pipeVars, lbVars, fsVars>>
     \/ /\ part = "dialer" /\ Dialer!Next
        /\ UNCHANGED <<vars, listenerVars, pipeVars, lbVars, fsVars>>
     \/ /\ part = "listener" /\ Listener!Next
        /\ UNCHANGED <<vars, dialerVars, pipeVars, lbVars, fsVars>>
     \/ /\ part = "pipe" /\ Pipe!Next
        /\ UNCHANGED <<vars, dialerVars, listenerVars, lbVars, fsVars>>
     \/ /\ part = "lb" /\ LB!Next
        /\ UNCHANGED <<vars, dialerVars, listenerVars, pipeVars, fsVars>>
     \/ /\ part = "fs" /\ FS!Next
        /\ UNCHANGED <<vars, dialerVars, listenerVars, pipeVars, lbVars>>
  /\ UNCHANGED part

PartsSpec ==
  PartsInit /\ [][PartsNext]_<<part, vars, dialerVars, listenerVars, pipeVars, lbVars, fsVars>>

\* A slot of the dialer's semaphore comes back on every path out of tryDial, and there are
\* never more attempts at a time than Concurrency; and a cached address that is marked as
\* being resolved is in the hands of somebody who will replace it or take the mark off.
DialerSound == part = "dialer" => Dialer!SlotsExact /\ Dialer!PendingIsResolved

\* A Dial of the in-memory listener returns a connection that was accepted once, and Close
\* leaves none behind.
\* Through a pipe one reads what was written, in order, and sees the end after all of it.
InmemorySound ==
  /\ part = "listener" => Listener!DialIsAccepted
  /\ part = "pipe" => Pipe!ReadAsWritten

\* A penalty of a balanced client is taken back exactly once.
PenaltyExact == part = "lb" => LB!PenaltyExact

\* Who has counted itself as a reader of a cached file reads that file, open, whatever the
\* cleaner and other requests do; and a compressed copy that passes for fresh has the file's
\* content.
FilesSound == part = "fs" => FS!HeldIsOpen /\ FS!CopyIsCurrent
=============================================================================
