------------------------------ MODULE MCMessages ------------------------------
(***************************************************************************)
(* For TLC: the modules of messages, headers, texts, buffers, compression, *)
(* of the Client's map and of prefork, which have nothing to do with each  *)
(* other.  part tells which one a behaviour is of; its variables are       *)
(* v1, v2, ... in the order of the module, and those it has no use for     *)
(* stay 0.  GetURL has its own, which stay as they are in the others.      *)
(***************************************************************************)
EXTENDS Integers, Sequences, SequencesExt, GetURL

CONSTANTS
  Msgs, Bytes, Streams, Forms, Pieces, MaxPieces,
  Limits, BufSize, PreRead, MaxRead,
  MaxLen,
  HeaderBufSize,
  Headers, Plain, Values, CookieNames, MaxOps, MaxTrailers,
  Nodes, Blocks, LinkBufferCap, PageSize, InplaceThreshold, WriteSizes, MaxBytes, MaxBufferOps,
  Calls, HostKeys, HostClients, MaxConns, MaxRedirects,
  ArgBytes, MaxArgs, MaxArgOps, MaxURIOps, MaxCookies,
  Width, MaxHexIntChars, MaxDigits,
  Children, Pids, goMaxProcs, RecoverThreshold,
  Works, Writers, End, ChanSize, MaxCompressions,
  MaxSize

VARIABLES part, v1, v2, v3, v4, v5, v6, v7, v8, v9, v10, v11

mvars == <<getVars, part, v1, v2, v3, v4, v5, v6, v7, v8, v9, v10, v11>>
-----------------------------------------------------------------------------
\* The first of two requests on a connection: its body has some length, or comes in chunks.
Shapes == {[chunked |-> FALSE, sizes |-> <<n>>] : n \in 0..5}
          \cup {[chunked |-> TRUE, sizes |-> s] : s \in {<<>>, <<1>>, <<2, 1>>}}

\* Headers: a first line, of HTTP/1.1 or 1.0, and up to three lines of every kind, some of them
\* folded; trailers, which have no first line.
Line(k, v) == <<[k |-> k, v |-> v], [k |-> "nl", v |-> 0]>>
Folded == Line("field", 1) \o Line("more", 0)
Lines == {Line(k, 0) : k \in {"te", "close", "keep", "cookie", "noname"}}
         \cup {<<>>, Line("clen", 2), Line("field", 1), Folded}
Heads ==
  {f \o a \o b \o c : f \in {Line("first", 11), Line("first", 10)}, a \in Lines,
                     b \in Lines \cup {Line("badte", 0)}, c \in {<<>>, Line("clen", 3), Line("field", 2)}}
  \cup {Line("badfirst", 0)}
  \cup {a \o b \o c : a \in {<<>>, Line("field", 1), Folded},
                     b \in {<<>>, Line("forbidden", 0), Line("noname", 0)}, c \in {<<>>, Line("field", 2)}}
Rests == {<<[k |-> "body", v |-> 1], [k |-> "body", v |-> 2]>>}

ArgTexts == BoundedSeq({"k", "=", "&", "+", "%26"}, 4)

Bases == {<<"http", ":", "/", "/">> \o t : t \in BoundedSeq({"k", "/", "?", ":", "@"}, 2)}
         \cup {<<"http", ":", "/", "/", "k", ".", "k", "/", "k", "/", "k", "?", "k">>,
               <<"/", "/", "K", ":", "1", "/", "%3F", "/", "%2F">>, <<"k", "^">>,
               <<"/", "/", "k", "%25", "k">>}
Absolute == {<<"https", ":", "/", "/">> \o t : t \in BoundedSeq({"k", "/", "?"}, 2)}
Updates == BoundedSeq({"k", "/", ".", "?"}, 4) \cup BoundedSeq({"#", "?", "k"}, 2) \cup Absolute
           \cup {<<"/", "k", "?", "k", "=", "http", ":", "/", "/", "k">>}
Paths == BoundedSeq({"k", "/", "."}, 5) \cup BoundedSeq({"k", "/", ".", "%2F"}, 4) \cup BoundedSeq({"?", "%", "*", "#", "+"}, 2)

Locations == BoundedSeq({"k", "/", ".", "?"}, 2) \cup Absolute \cup {<<"sftp", ":", "/", "/", "k", "/", "%2F">>}

CookieKeys == {<<>>, <<"k">>, <<"k", " ", "k">>}
CookieValues == {<<>>, <<"k">>, <<"dq", "k", "dq">>, <<"k", "=", "k">>, <<"k", ";">>}
CookieTexts == {<<"k", "=", "k", ";", "Domain", "=", "k", ";", "Domain", "=", "k">>, <<>>,
                <<"k", ";", " ", "Secure", ";", "Max-Age", "=", "k", ";", "HttpOnly">>}
-----------------------------------------------------------------------------
Body == INSTANCE MessageBody
  WITH kind <- v1, msg <- v2, bytes <- v3, pooled <- v4, closes <- v5
Stream == INSTANCE BodyStream
  WITH opt <- v1, arrived <- v2, hungUp <- v3, rpos <- v4, pc <- v5, cur <- v6, got <- v7,
       stream <- v8, eof <- v9, answered <- v10
Framing == INSTANCE MessageFraming
  WITH kind <- v1, h <- v2, body <- v3, opt <- v4, out <- v5, pc <- v6
Read == INSTANCE HeaderRead
  WITH what <- v1, head <- v2, rest <- v3, sent <- v4, buf <- v5, need <- v6, h <- v7,
       result <- v8, BufSize <- HeaderBufSize
Fields == INSTANCE HeaderFields
  WITH isRequest <- v1, hdr <- v2, arrays <- v3, content <- v4, want <- v5, ops <- v6
Link == INSTANCE LinkBuffer
  WITH s <- v1, queue <- v2, pend <- v3, held <- v4, got <- v5, use <- v6, odd <- v7,
       seqno <- v8, ops <- v9, MaxOps <- MaxBufferOps, Sizes <- WriteSizes
Map == INSTANCE ClientMap
  WITH m <- v1, mLock <- v2, todo <- v3, hc <- v4, call <- v5, late <- v6, replaced <- v7,
       Keys <- HostKeys
Args == INSTANCE ArgsList
  WITH args <- v1, other <- v2, argOps <- v3
URI == INSTANCE URIs
  WITH u <- v1, ok <- v2, base <- v3, by <- v4, redirect <- v5, uriOps <- v6
Cookie == INSTANCE Cookies
  WITH c <- v1, jar <- v2
Codec == INSTANCE IntCodec
  WITH radix <- v1, digits <- v2, v <- v3, result <- v4
Pre == INSTANCE Prefork
  WITH mpc <- v1, pid <- v2, state <- v3, childProcs <- v4, sigCh <- v5, exitedProcs <- v6,
       stale <- v7
Compress == INSTANCE Stackless
  WITH funcWorkCh <- v1, running <- v2, fw <- v3, funcWorkPool <- v4, call <- v5, wr <- v6,
       writerPool <- v7, out <- v8, bad <- v9, ran <- v10, jobs <- v11
Ranges == INSTANCE ByteRange
  WITH opt <- v1, req <- v2, pc <- v3, r <- v4, hdr <- v5, got <- v6, eof <- v7

\* The variables from the n-th on are not used.
From11 == v11 = 0
From10 == v10 = 0 /\ From11
From9 == v9 = 0 /\ From10
From8 == v8 = 0 /\ From9
From7 == v7 = 0 /\ From8
From6 == v6 = 0 /\ From7
From5 == v5 = 0 /\ From6
From4 == v4 = 0 /\ From5
From3 == v3 = 0 /\ From4
From1 == v1 = 0 /\ v2 = 0 /\ From3

MessagesInit ==
  /\ GetInit
  /\ \/ part = "body" /\ Body!Init /\ From6
     \/ part = "stream" /\ Stream!Init /\ From11
     \/ part = "framing" /\ Framing!Init /\ From7
     \/ part = "read" /\ Read!Init /\ From9
     \/ part = "fields" /\ Fields!Init /\ From7
     \/ part = "link" /\ Link!Init /\ From10
     \/ part = "map" /\ Map!Init /\ From8
     \/ part = "args" /\ Args!ArgsInit /\ From4
     \/ part = "uri" /\ URI!URIInit /\ From7
     \/ part = "cookie" /\ Cookie!CookieInit /\ From3
     \/ part = "int" /\ Codec!IntInit /\ From5
     \/ part = "prefork" /\ Pre!PreforkInit /\ From8
     \/ part = "compress" /\ Compress!StacklessInit
     \/ part = "get" /\ From1
     \/ part = "range" /\ Ranges!RangeInit /\ From8

MessagesNext ==
  /\ UNCHANGED part
  /\ part # "get" => UNCHANGED getVars
  /\ \/ part = "get" /\ GetNext /\ UNCHANGED <<v1, v2, v3, v4, v5, v6, v7, v8, v9, v10, v11>>
     \/ part = "body" /\ Body!Next /\ UNCHANGED <<v6, v7, v8, v9, v10, v11>>
     \/ part = "stream" /\ Stream!Next /\ UNCHANGED <<v11>>
     \/ part = "framing" /\ Framing!Next /\ UNCHANGED <<v7, v8, v9, v10, v11>>
     \/ part = "read" /\ Read!Next /\ UNCHANGED <<v9, v10, v11>>
     \/ part = "fields" /\ Fields!Next /\ UNCHANGED <<v7, v8, v9, v10, v11>>
     \/ part = "link" /\ Link!Next /\ UNCHANGED <<v10, v11>>
     \/ part = "map" /\ Map!Next /\ UNCHANGED <<v8, v9, v10, v11>>
     \/ part = "args" /\ Args!ArgsNext /\ UNCHANGED <<v4, v5, v6, v7, v8, v9, v10, v11>>
     \/ part = "uri" /\ URI!URINext /\ UNCHANGED <<v7, v8, v9, v10, v11>>
     \/ part = "cookie" /\ Cookie!CookieNext /\ UNCHANGED <<v3, v4, v5, v6, v7, v8, v9, v10, v11>>
     \/ part = "int" /\ Codec!IntNext /\ UNCHANGED <<v5, v6, v7, v8, v9, v10, v11>>
     \/ part = "prefork" /\ Pre!PreforkNext /\ UNCHANGED <<v8, v9, v10, v11>>
     \/ part = "compress" /\ Compress!StacklessNext
     \/ part = "range" /\ Ranges!RangeNext /\ UNCHANGED <<v8, v9, v10, v11>>

MessagesSpec == MessagesInit /\ [][MessagesNext]_mvars
-----------------------------------------------------------------------------
\* A buffer, a stream or a form is with one message, or pooled or closed once, whatever methods
\* of the messages are called; and no source of a body hides another.
BodyOnePlace == part = "body" => Body!OnePlace /\ Body!NothingHidden

\* The handler of a request gets the body of that request, whole or as a stream, whatever it
\* reads of it; and when the connection goes on, the next request is read from its header, but
\* for the streams that are left unread and those that are read beyond their end (NextAtHeader).
OwnBody == part = "stream" => Stream!OwnBody /\ Stream!NextAtHeader

\* The receiver of a message finds the body that was set, and its end, from the header and the
\* framing that were written.
FramedAsWritten == part = "framing" => Framing!ReadAsWritten

\* A header that arrives in pieces is read as one that arrives whole.
HeaderAsSent == part = "read" => Read!HeaderAsSent

\* The lines of a header that is written are what the operations on it asked for.
WrittenAsSet == part = "fields" => Fields!WrittenAsSet

\* A LinkBuffer is a queue of bytes, and does not reuse memory that can still be read, but
\* after a MallocAck or a WriteDirect of the kinds the module names.
IsQueue == part = "link" => Link!IsQueue

\* A HostClient that a call uses is the one of the Client's map.
InUseIsMapped == part = "map" => Map!InUseIsMapped

\* Arguments are parsed back from the query string they are written as, and a cookie from its
\* line, and the cookies of a request from theirs.
TextRoundTrip ==
  /\ part = "args" => Args!ArgsRoundTrip
  /\ part = "cookie" => Cookie!CookieRoundTrip

\* A URI is parsed back from its text, and an update is resolved against it.
URIResolves == part = "uri" => URI!WritesItself /\ URI!UpdateResolves

\* An integer that is parsed without an error is the one that the digits mean.
IntExact == part = "int" => Codec!IntExact

\* The master process knows every child that runs, and leaves none when it returns.
ChildrenKnown == part = "prefork" => Pre!ChildrenKnown

\* Compression gives a caller its own text, through shared workers and pooled writers.
OwnOutput == part = "compress" => Compress!OwnOutput

\* The part of a file that is sent is the one that was asked for.
RangeAsAsked == part = "range" => Ranges!RangeAsAsked
===============================================================================
