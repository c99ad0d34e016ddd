----------------------------- MODULE GetURLProofs -----------------------------
(***************************************************************************)
(* A call of GetTimeout or GetDeadline returns its own answer or           *)
(* ErrTimeout, for any number of calls and channels.                       *)
(***************************************************************************)
EXTENDS GetURL, TLAPS

\* The invariant holds before the first call.
LEMMA GetInitial == GetInit => OwnGetAnswer
  BY DEF GetInit, OwnGetAnswer, GetTypeOK, ChannelOwned, OwnResult, InChannel,
         CallShape, Holders

\* A channel that Start takes is empty and nobody else has it.
LEMMA StartChannel ==
  ASSUME OwnGetAnswer, NEW h \in Chans, pool[h] > 0 \/ (\A d \in Callers : ch[d] # h)
  PROVE  chan[h] = <<>> /\ Holders(h) = {} /\ pool[h] \in {0, 1}
<1>1. CASE pool[h] > 0
  BY <1>1 DEF OwnGetAnswer, GetTypeOK, ChannelOwned
<1>2. CASE \A d \in Callers : ch[d] # h
  BY <1>2 DEF OwnGetAnswer, GetTypeOK, ChannelOwned, InChannel, Holders
<1> QED
  BY <1>1, <1>2

\* A call that takes something from its channel takes its own answer.
LEMMA TakeStep ==
  ASSUME OwnGetAnswer, NEW c \in Callers, caller[c] \in {"select", "ticked"}, Take(c),
         caller' = [caller EXCEPT ![c] = "put"],
         UNCHANGED <<work, ch, pool, timedout, responded>>
  PROVE  OwnGetAnswer'
<1>1. ch[c] \in Chans /\ c \in Holders(ch[c])
  BY DEF OwnGetAnswer, CallShape, Holders
<1>2. chan[ch[c]] = <<c>> /\ work[c] \in {"sent", "done"}
  BY <1>1 DEF OwnGetAnswer, ChannelOwned, InChannel, Holders, Take
<1>3. Head(chan[ch[c]]) = c /\ Tail(chan[ch[c]]) = <<>>
  BY <1>2
<1>4. result' = [result EXCEPT ![c] = c] /\ chan' = [chan EXCEPT ![ch[c]] = <<>>]
  BY <1>1, <1>3 DEF Take, OwnGetAnswer, GetTypeOK
<1>5. GetTypeOK'
  BY <1>1, <1>4 DEF OwnGetAnswer, GetTypeOK
<1>6. ASSUME NEW k \in Chans PROVE ChannelOwned(k)'
  BY <1>1, <1>4 DEF OwnGetAnswer, GetTypeOK, ChannelOwned, Holders
<1>7. ASSUME NEW d \in Callers PROVE OwnResult(d)'
  BY <1>1, <1>2, <1>4 DEF OwnGetAnswer, GetTypeOK, OwnResult, CallShape, Holders
<1>8. ASSUME NEW k \in Chans PROVE InChannel(k)'
  BY <1>1, <1>2, <1>4 DEF OwnGetAnswer, GetTypeOK, InChannel
<1>9. ASSUME NEW d \in Callers PROVE CallShape(d)'
  BY <1>1, <1>2, <1>4 DEF OwnGetAnswer, GetTypeOK, ChannelOwned, CallShape, Holders
<1> QED
  BY <1>5, <1>6, <1>7, <1>8, <1>9 DEF OwnGetAnswer

\* Every step of a call and of its goroutine preserves the invariant.
LEMMA GetStep == OwnGetAnswer /\ [GetNext]_getVars => OwnGetAnswer'
<1> SUFFICES ASSUME OwnGetAnswer, [GetNext]_getVars PROVE OwnGetAnswer'
  OBVIOUS
<1>1. ASSUME NEW c \in Callers, Expired(c) PROVE OwnGetAnswer'
  BY <1>1 DEF Expired, OwnGetAnswer, GetTypeOK, ChannelOwned, OwnResult, InChannel,
              CallShape, Holders
<1>2. ASSUME NEW c \in Callers, Start(c) PROVE OwnGetAnswer'
  <2>1. PICK h \in Chans :
          /\ pool[h] > 0 \/ (\A d \in Callers : ch[d] # h)
          /\ pool' = [pool EXCEPT ![h] = IF @ > 0 THEN @ - 1 ELSE 0]
          /\ ch' = [ch EXCEPT ![c] = h]
    BY <1>2 DEF Start
  <2>2. chan[h] = <<>> /\ Holders(h) = {} /\ pool[h] \in {0, 1}
    BY <2>1, StartChannel
  <2>3. pool' = [pool EXCEPT ![h] = 0]
    <3>1. (IF pool[h] > 0 THEN pool[h] - 1 ELSE 0) = 0
      BY <2>2
    <3> QED
      BY <2>1, <3>1
  <2>4. GetTypeOK'
    BY <1>2, <2>1, <2>3 DEF Start, OwnGetAnswer, GetTypeOK
  <2>5. ASSUME NEW k \in Chans PROVE ChannelOwned(k)'
    BY <1>2, <2>1, <2>2, <2>3 DEF Start, OwnGetAnswer, GetTypeOK, ChannelOwned, Holders
  <2>6. ASSUME NEW d \in Callers PROVE OwnResult(d)'
    BY <1>2, <2>1, <2>2 DEF Start, OwnGetAnswer, GetTypeOK, OwnResult, CallShape, Holders
  <2>7. ASSUME NEW k \in Chans PROVE InChannel(k)'
    BY <1>2, <2>1, <2>2 DEF Start, OwnGetAnswer, GetTypeOK, InChannel, CallShape
  <2>8. ASSUME NEW d \in Callers PROVE CallShape(d)'
    BY <1>2, <2>1, <2>2 DEF Start, OwnGetAnswer, GetTypeOK, OwnResult, CallShape
  <2> QED
    BY <2>4, <2>5, <2>6, <2>7, <2>8 DEF OwnGetAnswer
<1>3. ASSUME NEW c \in Callers, Answered(c) PROVE OwnGetAnswer'
  BY <1>3 DEF Answered, OwnGetAnswer, GetTypeOK, ChannelOwned, OwnResult, InChannel,
              CallShape, Holders
<1>4. ASSUME NEW c \in Callers, Send(c) PROVE OwnGetAnswer'
  <2>1. ch[c] \in Chans /\ c \in Holders(ch[c]) /\ chan' = [chan EXCEPT ![ch[c]] = <<c>>]
        /\ chan[ch[c]] = <<>>
    BY <1>4 DEF Send, OwnGetAnswer, OwnResult, CallShape
  <2>2. GetTypeOK'
    BY <1>4, <2>1 DEF Send, OwnGetAnswer, GetTypeOK
  <2>3. ASSUME NEW k \in Chans PROVE ChannelOwned(k)'
    BY <1>4, <2>1 DEF Send, OwnGetAnswer, GetTypeOK, ChannelOwned, Holders
  <2>4. ASSUME NEW d \in Callers PROVE OwnResult(d)'
    BY <1>4, <2>1 DEF Send, OwnGetAnswer, GetTypeOK, ChannelOwned, OwnResult, Holders
  <2>5. ASSUME NEW k \in Chans PROVE InChannel(k)'
    BY <1>4, <2>1 DEF Send, OwnGetAnswer, GetTypeOK, InChannel, CallShape
  <2>6. ASSUME NEW d \in Callers PROVE CallShape(d)'
    BY <1>4, <2>1 DEF Send, OwnGetAnswer, GetTypeOK, CallShape
  <2> QED
    BY <2>2, <2>3, <2>4, <2>5, <2>6 DEF OwnGetAnswer
<1>5. ASSUME NEW c \in Callers, Responded(c) PROVE OwnGetAnswer'
  BY <1>5 DEF Responded, OwnGetAnswer, GetTypeOK, ChannelOwned, OwnResult, InChannel,
              CallShape, Holders
<1>6. ASSUME NEW c \in Callers, Receive(c) PROVE OwnGetAnswer'
  BY <1>6, TakeStep DEF Receive
<1>7. ASSUME NEW c \in Callers, Tick(c) PROVE OwnGetAnswer'
  BY <1>7 DEF Tick, OwnGetAnswer, GetTypeOK, ChannelOwned, OwnResult, InChannel,
              CallShape, Holders
<1>8. ASSUME NEW c \in Callers, TimedOut(c) PROVE OwnGetAnswer'
  <2>1. CASE responded[c] /\ Take(c) /\ UNCHANGED timedout
    BY <1>8, <2>1, TakeStep DEF TimedOut
  <2>2. CASE ~responded[c] /\ timedout' = [timedout EXCEPT ![c] = TRUE] /\ UNCHANGED <<chan, result>>
    BY <1>8, <2>2 DEF TimedOut, OwnGetAnswer, GetTypeOK, ChannelOwned,
                      OwnResult, InChannel, CallShape, Holders
  <2> QED
    BY <1>8, <2>1, <2>2 DEF TimedOut
<1>9. ASSUME NEW c \in Callers, Put(c) PROVE OwnGetAnswer'
  BY <1>9 DEF Put, OwnGetAnswer, GetTypeOK, ChannelOwned, OwnResult, InChannel,
              CallShape, Holders
<1>10. CASE UNCHANGED getVars
  BY <1>10 DEF getVars, OwnGetAnswer, GetTypeOK, ChannelOwned, OwnResult, InChannel,
               CallShape, Holders
<1> QED
  BY <1>1, <1>2, <1>3, <1>4, <1>5, <1>6, <1>7, <1>8, <1>9, <1>10 DEF GetNext

\* A call of GetTimeout or GetDeadline (clientGetURLDeadline) returns the answer to its own request
\* or ErrTimeout, and no channel is pooled with an answer in it, for any set of calls and channels.
THEOREM GetCorrect == GetSpec => []OwnGetAnswer
  BY GetInitial, GetStep, PTL DEF GetSpec
===============================================================================
