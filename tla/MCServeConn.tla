----------------------------- MODULE MCServeConn -----------------------------
(* Small instances of ServeConn for TLC. *)
EXTENDS ServeConn, TLC

Plain == [o \in DOMAIN (CHOOSE x \in OptionType : TRUE) |-> IF o = "hijacks" THEN {} ELSE FALSE]

HasTimeouts(o) == o.ReadTimeout \/ o.IdleTimeout \/ o.WriteTimeout \/ o.HeaderReceived

\* Handlers that hijack in every way, or do not hijack.
Several ==
  {o \in OptionType :
     /\ ~o.TLS
     /\ o.hijacks \in {{}, {"handler", "noResponse", "conn"}}
     /\ ~(o.HeaderReceived /\ o.ErrorHandler)}

\* Two connections meet in the pools, where the timeouts and the ErrorHandler make no
\* difference: with these there is one connection, for more requests.
Bounded ==
  IF HasTimeouts(opt) \/ opt.ErrorHandler
  THEN Cardinality({c \in Conns : pc[c] # "start"}) <= 1
  ELSE \A c \in Conns : num[c] <= 2

Symmetry ==
  Permutations(Conns) \cup Permutations(Ctxs) \cup Permutations(Readers) \cup Permutations(Writers)
=============================================================================
