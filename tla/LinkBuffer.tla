------------------------------ MODULE LinkBuffer ------------------------------
(***************************************************************************)
(* LinkBuffer: a list of nodes that is written at one end and read at the  *)
(* other without copying.  A node is a slice of a block of memory with its *)
(* read offset (off), its readable length (len) and its write offset       *)
(* (malloc); blocks come from a cache and return to it when the last node  *)
(* that refers to them is released.  Slice hands out a second buffer whose *)
(* nodes refer to the first one's blocks.                                  *)
(* Bytes are numbered in the order they are written; the abstract buffer is*)
(* the sequence of readable bytes (queue) and the one of bytes that were   *)
(* written and not yet flushed (pend).                                     *)
(* A definition D_Fault just before D is D with a plausible fault; no spec *)
(* uses it.                                                                *)
(***************************************************************************)
EXTENDS Integers, Sequences, SequencesExt, FiniteSets

CONSTANTS
  Nodes, Blocks,
  Nil,
  LinkBufferCap,          \* the least capacity of a node
  PageSize,               \* pagesize
  InplaceThreshold,       \* BinaryInplaceThreshold
  Sizes,                  \* the sizes that are written, read and sliced
  MaxBytes,               \* bound: bytes written
  MaxOps                  \* bound: operations

VARIABLES
  s,            \* the nodes, the memory and the two buffers, "main" and "slice"
  queue, pend,  \* the abstract buffers
  held,         \* slices that Next returned since the last Release: block, range, bytes
  got,          \* what the last read returned, what it should have returned, and from which buffer
  use,          \* "binary" or "direct": written, without or with WriteDirect; "reader": a
                \* zcReader's; "input": a connection's, that books
  odd,          \* calls that break a promise: MallocAck of 0 bytes ("zero"), and after
                \* WriteDirect ("direct"); WriteDirect that splits a node ("split")
  seqno,        \* the last byte's number
  ops

vars == <<s, queue, pend, held, got, use, odd, seqno, ops>>

Bufs == {"main", "slice"}
Unused == [blk |-> Nil, base |-> 0, len |-> 0, off |-> 0, malloc |-> 0, cap |-> 0,
           refer |-> 0, ro |-> TRUE, origin |-> Nil, next |-> Nil]
NoBuffer == [length |-> 0, mallocSize |-> 0, head |-> Nil, read |-> Nil, flush |-> Nil,
             write |-> Nil, peek |-> <<>>, peekCap |-> 0]
-----------------------------------------------------------------------------
(* Nodes and blocks *)

NodeLen(t, n) == t.node[n].len - t.node[n].off
FreeNode(t) == CHOOSE n \in Nodes : t.node[n].refer = 0
CanAlloc(t, nodes, blocks) ==
  /\ Cardinality({n \in Nodes : t.node[n].refer = 0}) >= nodes
  /\ Cardinality(t.free) >= blocks
Larger(a, b) == IF a > b THEN a ELSE b
Zeros(n) == [i \in 1..n |-> 0]

\* newLinkBufferNode(size): a read-only node for size 0; the node is FreeNode(t).
NewNode(t, size) ==
  IF size <= 0 THEN [t EXCEPT !.node[FreeNode(t)] = [Unused EXCEPT !.refer = 1]]
  ELSE LET cap == Larger(size, LinkBufferCap)
           b == CHOOSE b \in t.free : TRUE IN
       [t EXCEPT !.node[FreeNode(t)] = [Unused EXCEPT !.refer = 1, !.ro = FALSE, !.blk = b, !.cap = cap],
                 !.mem[b] = Zeros(cap),
                 !.free = @ \ {b}]

\* A read-only node over the caller's memory, which holds vs and is written but not flushed.
UserNode(t, vs) ==
  LET b == CHOOSE b \in t.free : TRUE IN
  [t EXCEPT !.node[FreeNode(t)] = [Unused EXCEPT !.refer = 1, !.blk = b, !.cap = Len(vs),
                                                 !.malloc = Len(vs)],
            !.mem[b] = vs,
            !.free = @ \ {b}]

\* linkBufferNode.Release without the one of its origin: the block returns to the cache.
ReleaseSelf(t, n) ==
  IF t.node[n].refer > 1 THEN [t EXCEPT !.node[n].refer = @ - 1]
  ELSE [t EXCEPT !.node[n] = Unused,
                 !.free = IF t.node[n].ro THEN @ ELSE @ \cup ({t.node[n].blk} \ {Nil})]

ReleaseNode(t, n) ==
  LET o == t.node[n].origin IN ReleaseSelf(IF o = Nil THEN t ELSE ReleaseSelf(t, o), n)

\* Refer: a read-only node over the next n bytes of a node, which counts on the root.
Refer_Uncounted(t, from, n) ==
  LET x == t.node[from] IN
  [t EXCEPT !.node[FreeNode(t)] = [Unused EXCEPT !.refer = 1, !.blk = x.blk, !.base = x.base + x.off,
                                                 !.len = n, !.cap = n],
            !.node[from].off = @ + n]
Refer(t, from, n) ==
  LET x == t.node[from]
      root == IF x.origin = Nil THEN from ELSE x.origin IN
  [t EXCEPT !.node[FreeNode(t)] = [Unused EXCEPT !.refer = 1, !.blk = x.blk, !.base = x.base + x.off,
                                                 !.len = n, !.cap = n, !.origin = root],
            !.node[root].refer = @ + 1,
            !.node[from].off = @ + n]

\* The bytes of a node from position i + 1 to j of its slice.
Span(t, n, i, j) == LET x == t.node[n] IN
  IF x.blk = Nil THEN <<>> ELSE SubSeq(t.mem[x.blk], x.base + i + 1, x.base + j)

RECURSIVE Chain(_, _, _)
Chain(t, n, last) ==
  IF n = Nil THEN <<>> ELSE IF n = last THEN <<n>> ELSE <<n>> \o Chain(t, t.node[n].next, last)

Concat(t, nodes, F(_)) == FoldLeft(LAMBDA acc, n : acc \o F(n), <<>>, nodes)

\* What can be read, and what was written since the last Flush.
Readable(t, b) ==
  Concat(t, Chain(t, t.lb[b].read, t.lb[b].flush), LAMBDA n : Span(t, n, t.node[n].off, t.node[n].len))
Unflushed(t, b) ==
  Concat(t, Chain(t, t.lb[b].flush, t.lb[b].write),
         LAMBDA n : Span(t, n, t.node[n].len, t.node[n].malloc))
-----------------------------------------------------------------------------
(* The reader *)

\* recalLen drops what Peek has cached when bytes are read.
RecalLen_KeepsPeek(t, b, delta) == [t EXCEPT !.lb[b].length = @ + delta]
RecalLen(t, b, delta) ==
  [t EXCEPT !.lb[b].length = @ + delta, !.lb[b].peek = IF delta < 0 THEN <<>> ELSE @]

\* isSingleNode moves b.read past empty nodes.
RECURSIVE SkipEmpty(_, _)
SkipEmpty(t, b) ==
  LET r == t.lb[b].read IN
  IF r # t.lb[b].flush /\ r # Nil /\ NodeLen(t, r) = 0
  THEN SkipEmpty([t EXCEPT !.lb[b].read = t.node[r].next], b) ELSE t
Single(t, b, n) == NodeLen(t, t.lb[b].read) >= n

\* The loops of Next, readBinary and Skip over several nodes: the bytes they take.  (Skip leaves
\* the offset of a node it passes, which nothing reads again.)
RECURSIVE Consume(_, _, _, _)
Consume(t, b, n, acc) ==
  LET r == t.lb[b].read
      x == t.node[r]
      l == NodeLen(t, r) IN
  IF l >= n THEN [t |-> [t EXCEPT !.node[r].off = @ + n], vs |-> acc \o Span(t, r, x.off, x.off + n)]
  ELSE Consume([t EXCEPT !.node[r].off = IF l > 0 THEN x.len ELSE @, !.lb[b].read = x.next], b, n - l,
               acc \o Span(t, r, x.off, x.len))

RECURSIVE ReleaseTo(_, _)
ReleaseTo(t, b) ==
  LET hd == t.lb[b].head IN
  IF hd = t.lb[b].read THEN t
  ELSE ReleaseTo(ReleaseNode([t EXCEPT !.lb[b].head = t.node[hd].next], hd), b)

ReleaseBuf(t, b) ==
  [ReleaseTo(SkipEmpty(t, b), b) EXCEPT !.lb[b].peek = <<>>, !.lb[b].peekCap = 0]

\* Refer to n bytes from b.read on, over as many nodes as that takes; the slice's nodes.
RECURSIVE ReferAll(_, _, _)
ReferAll(t, n, acc) ==
  LET r == t.lb["main"].read
      l == NodeLen(t, r)
      m == IF l >= n THEN n ELSE l
      new == FreeNode(t)
      t1 == IF m > 0 \/ acc = <<>> THEN Refer(t, r, m) ELSE t
      t2 == IF m > 0 /\ acc # <<>> THEN [t1 EXCEPT !.node[Last(acc)].next = new] ELSE t1
      acc1 == IF m > 0 \/ acc = <<>> THEN Append(acc, new) ELSE acc IN
  IF l >= n THEN [t |-> t2, nodes |-> acc1]
  ELSE ReferAll([t2 EXCEPT !.lb["main"].read = t2.node[r].next], n - l, acc1)
-----------------------------------------------------------------------------
(* The writer *)

\* growth: the first node from b.write on that has room, or a new one.
RECURSIVE Growth(_, _)
Growth(t, n) ==
  LET w == t.lb["main"].write
      x == t.node[w] IN
  IF ~x.ro /\ x.cap - x.malloc >= n THEN t
  ELSE IF x.next = Nil
  THEN LET new == FreeNode(t)
           t1 == NewNode(t, n) IN
       [t1 EXCEPT !.node[w].next = new, !.lb["main"].write = new]
  ELSE Growth([t EXCEPT !.lb["main"].write = x.next], n)

\* Malloc, and the bytes the caller puts there.
MallocBytes(t0, vs) ==
  LET t == Growth(t0, Len(vs))
      w == t.lb["main"].write
      x == t.node[w] IN
  [t EXCEPT !.mem[x.blk] = [i \in DOMAIN @ |->
                 IF i - x.base - x.malloc \in 1..Len(vs) THEN vs[i - x.base - x.malloc] ELSE @[i]],
            !.node[w].malloc = @ + Len(vs),
            !.lb["main"].mallocSize = @ + Len(vs)]

\* A node over the caller's slice goes to the tail.
AppendUser(t, vs) ==
  LET new == FreeNode(t)
      t1 == UserNode(t, vs) IN
  [t1 EXCEPT !.node[t.lb["main"].write].next = new, !.lb["main"].write = new,
             !.lb["main"].mallocSize = @ + Len(vs)]

RECURSIVE AckFrom(_, _)
AckFrom(t, n) ==
  LET w == t.lb["main"].write
      x == t.node[w] IN
  IF n <= 0 THEN t
  ELSE IF x.malloc - x.len >= n THEN [t EXCEPT !.node[w].malloc = n + x.len]
  ELSE AckFrom([t EXCEPT !.lb["main"].write = x.next], n - (x.malloc - x.len))

\* MallocAck
Ack(t0, n) ==
  LET t == AckFrom([t0 EXCEPT !.lb["main"].mallocSize = n,
                              !.lb["main"].write = t0.lb["main"].flush], n)
      rest == Range(Tail(Chain(t, t.lb["main"].write, Nil))) IN
  [t EXCEPT !.node = [n1 \in Nodes |->
     IF n1 \in rest THEN [t.node[n1] EXCEPT !.off = 0, !.malloc = 0, !.refer = 1, !.len = 0]
     ELSE t.node[n1]]]

\* Flush
FlushBuf(t0) ==
  LET w0 == t0.lb["main"].write
      new == FreeNode(t0)
      t1 == NewNode(t0, 0)
      t == IF t0.node[w0].cap > PageSize
           THEN [t1 EXCEPT !.node[w0].next = new, !.lb["main"].write = new] ELSE t0
      nodes == Chain(t, t.lb["main"].flush, t.lb["main"].write)
      delta == FoldLeft(LAMBDA acc, n : acc + Larger(t.node[n].malloc - t.node[n].len, 0), 0, nodes)
      t2 == [t EXCEPT !.node = [n \in Nodes |->
               IF n \in Range(nodes) THEN [t.node[n] EXCEPT !.len = Larger(@, t.node[n].malloc)]
               ELSE t.node[n]],
             !.lb["main"].mallocSize = 0,
             !.lb["main"].flush = t.lb["main"].write] IN
  RecalLen(t2, "main", delta)

\* WriteDirect: where the extra bytes go.
RECURSIVE Origin(_, _, _)
Origin(t, n, m) ==
  LET x == t.node[n] IN
  IF x.malloc - x.len < m THEN Origin(t, x.next, m - (x.malloc - x.len)) ELSE [n |-> n, at |-> m + x.len]

RECURSIVE LastFrom(_, _)
LastFrom(t, n) == IF t.node[n].next = Nil THEN n ELSE LastFrom(t, t.node[n].next)

Insert(t0, vs, remain) ==
  LET o == Origin(t0, t0.lb["main"].flush, t0.lb["main"].mallocSize - remain)
      x == t0.node[o.n]
      data == FreeNode(t0)
      t1 == UserNode(t0, vs)
      new == FreeNode(t1)
      t2 == NewNode(t1, 0)
      t3 == IF remain > 0
            THEN [t2 EXCEPT !.node[new] = [@ EXCEPT !.off = o.at, !.len = o.at, !.malloc = x.malloc,
                                                    !.blk = x.blk, !.base = x.base, !.cap = x.cap,
                                                    !.ro = FALSE, !.next = x.next],
                            !.node[o.n] = [@ EXCEPT !.malloc = o.at, !.ro = TRUE, !.next = data],
                            !.node[data].next = new]
            ELSE [t1 EXCEPT !.node[data].next = x.next, !.node[o.n].next = data] IN
  [t3 EXCEPT !.lb["main"].write = LastFrom(t3, @), !.lb["main"].mallocSize = @ + Len(vs)]
-----------------------------------------------------------------------------
\* NewLinkBuffer(0): a read-only node to begin with.
Init ==
  /\ LET n == CHOOSE n \in Nodes : TRUE IN
     s = [node |-> [[m \in Nodes |-> Unused] EXCEPT ![n].refer = 1],
          mem |-> [b \in Blocks |-> <<>>],
          free |-> Blocks,
          lb |-> [main |-> [NoBuffer EXCEPT !.head = n, !.read = n, !.flush = n, !.write = n],
                  slice |-> NoBuffer]]
  /\ queue = [b \in Bufs |-> <<>>]
  /\ pend = <<>>
  /\ held = {}
  /\ got = <<<<>>, <<>>, "main">>
  /\ use \in {"binary", "direct", "reader", "input"}
  /\ odd = {}
  /\ seqno = 0
  /\ ops = 0

Written == use \in {"binary", "direct"}
Open == s.lb["main"].head # Nil
Fresh(n) == [i \in 1..n |-> seqno + i]

Op == ops < MaxOps /\ ops' = ops + 1 /\ UNCHANGED use
Writes(n) == seqno + n <= MaxBytes /\ seqno' = seqno + n
Quiet == UNCHANGED <<held, got, odd>>

\* Malloc, WriteByte, and WriteString and WriteBinary of a short slice.
Malloc(n) ==
  /\ Op /\ Written /\ Open /\ Writes(n) /\ CanAlloc(s, 1, 1)
  /\ s' = MallocBytes(s, Fresh(n))
  /\ pend' = pend \o Fresh(n)
  /\ UNCHANGED queue /\ Quiet

\* WriteString and WriteBinary of a long slice: the node is the caller's slice.
WriteBinary(n) ==
  /\ Op /\ Open /\ Writes(n) /\ CanAlloc(s, 1, 1)
  /\ use = "binary"
  /\ n > InplaceThreshold
  /\ s' = AppendUser(s, Fresh(n))
  /\ pend' = pend \o Fresh(n)
  /\ UNCHANGED queue /\ Quiet

\* "WriteDirect cannot be mixed with WriteString or WriteBinary functions."
WriteDirect(n, remain) ==
  /\ Op /\ Open /\ Writes(n) /\ CanAlloc(s, 2, 1)
  /\ use = "direct"
  /\ remain \in 0..s.lb["main"].mallocSize
  /\ s' = Insert(s, Fresh(n), remain)
  /\ pend' = SubSeq(pend, 1, Len(pend) - remain) \o Fresh(n)
               \o SubSeq(pend, Len(pend) - remain + 1, Len(pend))
  /\ odd' = odd \cup IF remain > 0 THEN {"split"} ELSE {}
  /\ UNCHANGED <<queue, held, got>>

MallocAck(n) ==
  /\ Op /\ Written /\ Open
  /\ n \in 0..s.lb["main"].mallocSize
  /\ s' = Ack(s, n)
  /\ pend' = SubSeq(pend, 1, n)
  /\ odd' = odd \cup (IF n = 0 THEN {"zero"} ELSE {}) \cup (IF use = "direct" THEN {"direct"} ELSE {})
  /\ UNCHANGED <<queue, held, got, seqno>>

Flush ==
  /\ Op /\ Written /\ Open /\ CanAlloc(s, 1, 0)
  /\ s' = FlushBuf(s)
  /\ queue' = [queue EXCEPT !["main"] = @ \o pend]
  /\ pend' = <<>>
  /\ UNCHANGED seqno /\ Quiet

\* zcReader.fill: room for a block, what the io.Reader puts there, Flush.
Fill(n) ==
  /\ Op /\ Open /\ CanAlloc(s, 2, 1)
  /\ use = "reader"
  /\ n \in 0..LinkBufferCap
  /\ Writes(n)
  /\ s' = FlushBuf(Ack(MallocBytes(s, Fresh(n) \o Zeros(LinkBufferCap - n)), n))
  /\ queue' = [queue EXCEPT !["main"] = @ \o Fresh(n)]
  /\ UNCHANGED pend /\ Quiet

\* book and bookAck: what a connection reads into the tail node.
Book(n) ==
  /\ Op /\ Open /\ CanAlloc(s, 1, 1)
  /\ use = "input"
  /\ Writes(n)
  /\ LET w == s.lb["main"].write
         room == s.node[w].cap - s.node[w].malloc
         new == FreeNode(s)
         t1 == NewNode(s, LinkBufferCap)
         t == IF room = 0 THEN [t1 EXCEPT !.node[w].next = new, !.lb["main"].write = new] ELSE s
         w1 == t.lb["main"].write
         x == t.node[w1] IN
     /\ n <= x.cap - x.malloc
     /\ x.blk # Nil /\ (x.ro => room = 0)
     /\ s' = RecalLen([t EXCEPT !.mem[x.blk] = [i \in DOMAIN @ |->
                IF i - x.base - x.malloc \in 1..n THEN Fresh(n)[i - x.base - x.malloc] ELSE @[i]],
              !.node[w1].malloc = n + x.len,
              !.node[w1].len = n + x.len,
              !.lb["main"].flush = w1], "main", n)
  /\ queue' = [queue EXCEPT !["main"] = @ \o Fresh(n)]
  /\ UNCHANGED pend /\ Quiet

\* Next: a slice of the node's memory, or a copy when several nodes are read.
Next_(b, n) ==
  LET t == SkipEmpty(RecalLen(s, b, -n), b)
      r == t.lb[b].read
      c == Consume(t, b, n, <<>>) IN
  /\ Op
  /\ s.lb[b].length >= n
  /\ s' = c.t
  /\ got' = <<c.vs, SubSeq(queue[b], 1, n), b>>
  /\ queue' = [queue EXCEPT ![b] = SubSeq(@, n + 1, Len(@))]
  /\ held' = IF Single(t, b, n)
             THEN held \cup {[buf |-> b, blk |-> t.node[r].blk, from |-> t.node[r].base + t.node[r].off,
                              vs |-> c.vs]}
             ELSE held
  /\ UNCHANGED <<pend, odd, seqno>>

\* Skip, ReadByte, ReadBinary and ReadString: nothing of the memory stays with the caller.
Skip(b, n) ==
  /\ Op
  /\ s.lb[b].length >= n
  /\ LET c == Consume(RecalLen(s, b, -n), b, n, <<>>) IN
     s' = c.t /\ got' = <<c.vs, SubSeq(queue[b], 1, n), b>>
  /\ queue' = [queue EXCEPT ![b] = SubSeq(@, n + 1, Len(@))]
  /\ UNCHANGED <<pend, held, odd, seqno>>

\* Peek over several nodes goes through cachePeek.
Peek(n) ==
  LET t == SkipEmpty(s, "main")
      kept == IF t.lb["main"].peekCap < n THEN <<>> ELSE t.lb["main"].peek
      all == kept \o SubSeq(Readable(t, "main"), Len(kept) + 1, n) IN
  /\ Op
  /\ s.lb["main"].length >= n
  /\ IF Single(t, "main", n)
     THEN /\ s' = t
          /\ got' = <<SubSeq(Readable(t, "main"), 1, n), SubSeq(queue["main"], 1, n), "main">>
     ELSE /\ s' = [t EXCEPT !.lb["main"].peek = IF Len(kept) >= n THEN kept ELSE all,
                            !.lb["main"].peekCap = Larger(@, n)]
          /\ got' = <<SubSeq(IF Len(kept) >= n THEN kept ELSE all, 1, n), SubSeq(queue["main"], 1, n), "main">>
  /\ UNCHANGED <<queue, pend, held, odd, seqno>>

Release(b) ==
  /\ Op
  /\ s.lb[b].head # Nil
  /\ s' = ReleaseBuf(s, b)
  /\ held' = {x \in held : x.buf # b}
  /\ UNCHANGED <<queue, pend, got, odd, seqno>>

\* Slice: "will automatically execute a Release" when it spans several nodes.
Slice(n) ==
  LET t == SkipEmpty(RecalLen(s, "main", -n), "main")
      one == Single(t, "main", n)
      c == ReferAll(t, n, <<>>)
      t1 == [c.t EXCEPT !.lb["slice"] = [NoBuffer EXCEPT !.length = n, !.head = c.nodes[1],
                                                         !.read = c.nodes[1]]] IN
  /\ Op
  /\ s.lb["main"].length >= n
  /\ s.lb["slice"] = NoBuffer
  /\ CanAlloc(s, n + 1, 0)
  /\ s' = IF one THEN t1 ELSE ReleaseBuf(t1, "main")
  /\ queue' = [queue EXCEPT !["slice"] = SubSeq(queue["main"], 1, n),
                            !["main"] = SubSeq(@, n + 1, Len(@))]
  /\ held' = IF one THEN held ELSE {x \in held : x.buf # "main"}
  /\ UNCHANGED <<pend, got, odd, seqno>>

\* Close releases everything, read or not.
RECURSIVE ReleaseAll(_, _)
ReleaseAll(t, n) == IF n = Nil THEN t ELSE ReleaseAll(ReleaseNode(t, n), t.node[n].next)

Close(b) ==
  /\ Op
  /\ s.lb[b].head # Nil
  /\ LET t == ReleaseBuf(s, b) IN
     s' = [ReleaseAll(t, t.lb[b].head) EXCEPT !.lb[b] = NoBuffer]
  /\ queue' = [queue EXCEPT ![b] = <<>>]
  /\ pend' = IF b = "main" THEN <<>> ELSE pend
  /\ held' = {x \in held : x.buf # b}
  /\ UNCHANGED <<got, odd, seqno>>

Next ==
  \/ \E n \in Sizes :
       \/ Malloc(n) \/ WriteBinary(n) \/ Book(n) \/ Peek(n) \/ Slice(n)
       \/ \E r \in 0..MaxBytes : WriteDirect(n, r)
       \/ \E b \in Bufs : Next_(b, n) \/ Skip(b, n)
  \/ \E n \in Sizes \cup {0} : MallocAck(n) \/ Fill(n)
  \/ Flush
  \/ \E b \in Bufs : Release(b) \/ Close(b)

Spec == Init /\ [][Next]_vars
-----------------------------------------------------------------------------
TypeOK ==
  /\ \A n \in Nodes :
       /\ s.node[n].off <= s.node[n].len
       /\ s.node[n].len <= s.node[n].malloc \/ s.node[n].origin # Nil
       /\ s.node[n].refer \in 0..Cardinality(Nodes)
  /\ s.free \subseteq Blocks
  /\ seqno \in 0..MaxBytes
  /\ ops \in 0..MaxOps

NoBadAck == odd \cap {"zero", "direct"} = {}

\* The buffers that keep their memory: a node that WriteDirect split shares its block without
\* counting it, so a buffer that Slice cut from such a node may lose it.
Keepers == IF "split" \in odd THEN {"main"} ELSE Bufs

\* A slice that Next returned keeps its bytes until the buffer is released, and no block is
\* in the cache while a node that can be read refers to it (Refer, Release).  Two cases
\* are left out: after a MallocAck that is not safe (AckDiscardsTheRest), and the second
\* buffer after a WriteDirect before bytes that were already written (SliceKeepsItsBytes).
NoReuse ==
  NoBadAck =>
  /\ \A x \in held : x.buf \in Keepers =>
       SubSeq(s.mem[x.blk], x.from + 1, x.from + Len(x.vs)) = x.vs /\ x.blk \notin s.free
  /\ \A b \in Keepers : \A n \in Range(Chain(s, s.lb[b].read, s.lb[b].flush)) :
       NodeLen(s, n) > 0 => s.node[n].blk \notin s.free

\* TypeOK, and: the list is a queue.  What can be read is what was flushed and not yet read,
\* byte for byte, b.length counts it, mallocSize counts what waits for a Flush, every Next,
\* Peek and Skip returned the bytes that come first, across nodes, cached peeks and slices;
\* and memory is not used again too early (NoReuse, with its two exceptions).
IsQueue ==
  /\ TypeOK
  /\ NoReuse
  /\ NoBadAck =>
     /\ \A b \in Bufs :
          /\ s.lb[b].length = Len(queue[b])
          /\ b \in Keepers => Readable(s, b) = queue[b]
     /\ Open => /\ s.lb["main"].mallocSize = Len(pend)
                /\ Unflushed(s, "main") = pend
     /\ got[3] \in Keepers => got[1] = got[2]
-----------------------------------------------------------------------------
(* What the documentation says and the code does not do *)

\* "MallocAck will keep the first n malloc bytes and discard the rest." (nocopy_v2.go, Writer):
\* of 0 bytes it keeps what the node b.flush holds, and after WriteDirect the bytes that are
\* written next overwrite what was kept.
AckDiscardsTheRest == Open => Unflushed(s, "main") = pend

\* "Refer holds a reference count at the same time as Next, and releases the real buffer after
\* Release." (nocopy_linkbuffer.go, Refer): WriteDirect(p, remain) with remain > 0 splits a
\* node in two over one block and only the second one may free it, whatever the buffers
\* that Slice cut from the first one still read.
SliceKeepsItsBytes ==
  NoBadAck => \A n \in Range(Chain(s, s.lb["slice"].read, Nil)) :
    NodeLen(s, n) > 0 => s.node[n].blk \notin s.free
===============================================================================
