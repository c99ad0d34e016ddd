-------------------------------- MODULE GetURL --------------------------------
(***************************************************************************)
(* GetTimeout and GetDeadline (client.go, clientGetURLDeadline): a call    *)
(* leaves the request to a goroutine, which sends the answer on a pooled   *)
(* channel of one place, and waits for it or for a timer.  mu, timedout and*)
(* responded, which the two share, are of the call; the goroutine goes on  *)
(* after a timeout.  The request itself is in ClientDo.                    *)
(* A definition D_Fault just before D is D with a plausible fault; no spec *)
(* uses it.                                                                *)
(***************************************************************************)
EXTENDS Naturals, Sequences

CONSTANTS
  Callers,      \* the calls; each is made once
  Chans,        \* channels
  Nil

VARIABLES
  caller,       \* of the call: "idle", "select", "ticked", "put", "returned"
  work,         \* of its goroutine: "none", "do", "locked" (holds mu), "sent" (still does), "done"
  ch,           \* the call's channel, or Nil
  chan,         \* what is in a channel
  pool,         \* clientURLResponseChPool: how often a channel is in it
  timedout, responded,
  result        \* the call whose answer was returned; Nil for none yet or for ErrTimeout

getVars == <<caller, work, ch, chan, pool, timedout, responded, result>>

GetTypeOK ==
  /\ caller \in [Callers -> {"idle", "select", "ticked", "put", "returned"}]
  /\ work \in [Callers -> {"none", "do", "locked", "sent", "done"}]
  /\ ch \in [Callers -> Chans \cup {Nil}] /\ result \in [Callers -> Callers \cup {Nil}]
  /\ chan \in [Chans -> Seq(Callers)] /\ pool \in [Chans -> Nat]
  /\ timedout \in [Callers -> BOOLEAN] /\ responded \in [Callers -> BOOLEAN]

GetInit ==
  /\ caller = [c \in Callers |-> "idle"] /\ work = [c \in Callers |-> "none"]
  /\ ch = [c \in Callers |-> Nil] /\ chan = [h \in Chans |-> <<>>] /\ pool = [h \in Chans |-> 0]
  /\ timedout = [c \in Callers |-> FALSE] /\ responded = [c \in Callers |-> FALSE]
  /\ result = [c \in Callers |-> Nil]
-----------------------------------------------------------------------------
\* The calls that have the channel.
Holders(h) == {c \in Callers : ch[c] = h /\ caller[c] \in {"select", "ticked", "put"}}

\* The deadline has passed: ErrTimeout at once.
Expired(c) ==
  /\ caller[c] = "idle"
  /\ caller' = [caller EXCEPT ![c] = "returned"]
  /\ UNCHANGED <<work, ch, chan, pool, timedout, responded, result>>

\* A channel of the pool, or a new one.
Start(c) ==
  /\ caller[c] = "idle"
  /\ \E h \in Chans :
       /\ pool[h] > 0 \/ (\A d \in Callers : ch[d] # h)
       /\ pool' = [pool EXCEPT ![h] = IF @ > 0 THEN @ - 1 ELSE 0]
       /\ ch' = [ch EXCEPT ![c] = h]
  /\ caller' = [caller EXCEPT ![c] = "select"] /\ work' = [work EXCEPT ![c] = "do"]
  /\ UNCHANGED <<chan, timedout, responded, result>>

\* The goroutine has its answer, and mu.
Answered_Sends(c) ==
  /\ work[c] = "do"
  /\ work' = [work EXCEPT ![c] = "locked"]
  /\ UNCHANGED <<caller, ch, chan, pool, timedout, responded, result>>

Answered(c) ==
  /\ work[c] = "do"
  /\ work' = [work EXCEPT ![c] = IF timedout[c] THEN "done" ELSE "locked"]
  /\ UNCHANGED <<caller, ch, chan, pool, timedout, responded, result>>

Send(c) ==
  /\ work[c] = "locked" /\ chan[ch[c]] = <<>>
  /\ chan' = [chan EXCEPT ![ch[c]] = <<c>>]
  /\ work' = [work EXCEPT ![c] = "sent"]
  /\ UNCHANGED <<caller, ch, pool, timedout, responded, result>>

Responded(c) ==
  /\ work[c] = "sent"
  /\ responded' = [responded EXCEPT ![c] = TRUE] /\ work' = [work EXCEPT ![c] = "done"]
  /\ UNCHANGED <<caller, ch, chan, pool, timedout, result>>
-----------------------------------------------------------------------------
Take(c) ==
  /\ chan[ch[c]] # <<>>
  /\ result' = [result EXCEPT ![c] = Head(chan[ch[c]])]
  /\ chan' = [chan EXCEPT ![ch[c]] = Tail(@)]

Receive(c) ==
  /\ caller[c] = "select" /\ Take(c)
  /\ caller' = [caller EXCEPT ![c] = "put"]
  /\ UNCHANGED <<work, ch, pool, timedout, responded>>

Tick(c) ==
  /\ caller[c] = "select"
  /\ caller' = [caller EXCEPT ![c] = "ticked"]
  /\ UNCHANGED <<work, ch, chan, pool, timedout, responded, result>>

\* After the tick, with mu: an answer that is there is taken.
TimedOut_NotLooking(c) ==
  /\ caller[c] = "ticked" /\ work[c] \notin {"locked", "sent"}
  /\ timedout' = [timedout EXCEPT ![c] = TRUE]
  /\ caller' = [caller EXCEPT ![c] = "put"]
  /\ UNCHANGED <<work, ch, chan, pool, responded, result>>

TimedOut(c) ==
  /\ caller[c] = "ticked" /\ work[c] \notin {"locked", "sent"}
  /\ \/ responded[c] /\ Take(c) /\ UNCHANGED timedout
     \/ ~responded[c] /\ timedout' = [timedout EXCEPT ![c] = TRUE] /\ UNCHANGED <<chan, result>>
  /\ caller' = [caller EXCEPT ![c] = "put"]
  /\ UNCHANGED <<work, ch, pool, responded>>

Put(c) ==
  /\ caller[c] = "put"
  /\ caller' = [caller EXCEPT ![c] = "returned"]
  /\ pool' = [pool EXCEPT ![ch[c]] = @ + 1]
  /\ UNCHANGED <<work, ch, chan, timedout, responded, result>>

GetNext == \E c \in Callers :
  Expired(c) \/ Start(c) \/ Answered(c) \/ Send(c) \/ Responded(c) \/ Receive(c) \/ Tick(c) \/ TimedOut(c) \/ Put(c)

GetSpec == GetInit /\ [][GetNext]_getVars
-----------------------------------------------------------------------------
(* Properties *)

\* A channel is with one call or in the pool, and empty there.
ChannelOwned(h) ==
  /\ pool[h] <= 1 /\ (\A c, d \in Holders(h) : c = d)
  /\ pool[h] > 0 => chan[h] = <<>> /\ Holders(h) = {}

\* A call returns the answer to its own request, and an answer that was sent; and its goroutine,
\* which holds mu, does not wait to send.
OwnResult(c) ==
  /\ result[c] \in {Nil, c}
  /\ caller[c] = "returned" /\ responded[c] => result[c] = c
  /\ work[c] = "locked" => chan[ch[c]] = <<>> /\ c \in Holders(ch[c])

\* What is in a channel is the one answer of the call that has it, which was sent and not taken.
InChannel(h) ==
  chan[h] # <<>> =>
    \E c \in Callers : chan[h] = <<c>> /\ ch[c] = h /\ caller[c] \in {"select", "ticked"}
                      /\ work[c] \in {"sent", "done"}

\* A call waits as long as its goroutine may send, an answer that was sent is in the channel or
\* taken, and timedout and responded exclude each other.
CallShape(c) ==
  /\ caller[c] = "idle" => work[c] = "none" /\ ch[c] = Nil
  /\ caller[c] \in {"idle", "select", "ticked"} => result[c] = Nil /\ ~timedout[c]
  /\ caller[c] \in {"select", "ticked", "put"} => ch[c] \in Chans
  /\ work[c] = "none" => caller[c] \in {"idle", "returned"} /\ ~responded[c]
  /\ work[c] \in {"do", "locked"} => result[c] = Nil /\ ~responded[c] /\ ch[c] \in Chans
  /\ (work[c] = "do" /\ ~timedout[c]) \/ work[c] = "locked" => caller[c] \in {"select", "ticked"}
  /\ work[c] \in {"locked", "sent"} => ~timedout[c] /\ ~responded[c]
  /\ work[c] \in {"sent", "done"} =>
       IF caller[c] \in {"select", "ticked"} THEN chan[ch[c]] = <<c>> ELSE timedout[c] \/ result[c] = c
  /\ work[c] = "done" => timedout[c] \/ responded[c]
  /\ timedout[c] => caller[c] \in {"put", "returned"} /\ ~responded[c]

\* GetTypeOK, and: a call of clientGetURLDeadline returns its own answer or ErrTimeout, though a
\* channel is used by one call after another and the goroutine may answer at any time; no channel
\* is in two places, or pooled with an answer in it, and an answer that was sent is not lost.
OwnGetAnswer ==
  /\ GetTypeOK
  /\ \A h \in Chans : ChannelOwned(h) /\ InChannel(h)
  /\ \A c \in Callers : OwnResult(c) /\ CallShape(c)

(* What the documentation says and the code does not do *)

\* "The contents of dst will be replaced by the body and returned": after a timeout dst is
\* returned while the goroutine may still write to it.
DstIsReturned == \A c \in Callers : caller[c] = "returned" => work[c] \in {"none", "sent", "done"}
===============================================================================
