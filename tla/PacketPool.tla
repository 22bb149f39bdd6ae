----------------------------- MODULE PacketPool -----------------------------
(***************************************************************************)
(* pkg/packet: packets are taken from a pool and put back, and between the *)
(* two they pass from readLoop (async.go) through the queue of the         *)
(* connection to the goroutines that run handlers (server.go, client.go).  *)
(* closeSend (stream.go) takes packets from the same pool. The model       *)
(* follows the objects: who may read and write which packet when.          *)
(***************************************************************************)
EXTENDS Integers, Sequences

CONSTANTS
  Objects,   \* packet objects
  Workers,   \* goroutines that run handlers: createHandler's, handleSinglePacket, handleConn
  Closers,   \* goroutines in closeSend
  MaxIn,     \* bound: packets the peer sends
  None       \* no packet

\* A reply has the name of its worker for content, which is not the empty content.
ASSUME PoolAssumption ==
  None \notin Objects /\ Workers \cap Closers = {} /\ 0 \notin Workers /\ MaxIn \in Nat

VARIABLES
  made,      \* objects allocated by New
  pool,      \* pool[o]: how often o is in the pool
  val,       \* val[o]: operation, ContentLength and content of o; content 0 is empty
  received,  \* packets of the peer that readLoop has begun
  rpc, rp,   \* readLoop and its p
  queue,     \* c.incoming
  pc,        \* next step of each worker and closer
  p, out,    \* their packet, and a worker's outgoing
  want       \* what the packet of a worker or closer should hold

vars == <<made, pool, val, received, rpc, rp, queue, pc, p, out, want>>

Zero == [op |-> "none", len |-> 0, content |-> 0]
\* Content appended to other content.
Mixed == -1
Whole(v) == (v.len = 0) = (v.content = 0)
Reply(w) == [op |-> "reply", len |-> 1, content |-> w]
Closing  == [op |-> "STREAM", len |-> 0, content |-> 0]

Init ==
  /\ made = {} /\ pool = [o \in Objects |-> 0] /\ val = [o \in Objects |-> Zero]
  /\ received = 0 /\ rpc = "Get" /\ rp = None /\ queue = <<>>
  /\ pc = [g \in Workers \cup Closers |-> "Idle"]
  /\ p = [g \in Workers \cup Closers |-> None] /\ out = [w \in Workers |-> None]
  /\ want = [g \in Workers \cup Closers |-> Zero]

Goto(g, label) == pc' = [pc EXCEPT ![g] = label]

\* Get: a packet of the pool, or a new one.
Get(o) ==
  \/ pool[o] > 0 /\ pool' = [pool EXCEPT ![o] = @ - 1] /\ UNCHANGED <<made, val>>
  \/ o \notin made /\ made' = made \cup {o} /\ val' = [val EXCEPT ![o] = Zero] /\ UNCHANGED pool

\* Mutant of Reset: the content is kept.
ResetHeader(v) == [v EXCEPT !.op = "none", !.len = 0]

Reset(v) == Zero

\* Put: Reset, and back to the pool.
Put(o) == val' = [val EXCEPT ![o] = Reset(val[o])] /\ pool' = [pool EXCEPT ![o] = @ + 1]

-----------------------------------------------------------------------------
\* readLoop: a packet for the next header ...
ReadGet ==
  /\ rpc = "Get" /\ received < MaxIn /\ received' = received + 1
  /\ \E o \in Objects : Get(o) /\ rp' = o
  /\ rpc' = "Header" /\ UNCHANGED <<queue, pc, p, out, want>>

\* ... whose fields are set. A rejected header ends readLoop, which drops its packet.
ReadHeader ==
  /\ rpc = "Header"
  /\ \/ /\ \E op \in {"PING", "PONG", "STREAM", "DATA"}, len \in {0, 1} :
             /\ op \in {"PING", "PONG"} => len = 0
             /\ val' = [val EXCEPT ![rp] = [op |-> op, len |-> len, content |-> @.content]]
        /\ rpc' = "Content" /\ UNCHANGED rp
     \/ rpc' = "Exit" /\ rp' = None /\ UNCHANGED val
  /\ UNCHANGED <<made, pool, received, queue, pc, p, out, want>>

\* The content is appended to what p.Content holds; a Read may fail.
ReadContent ==
  /\ rpc = "Content"
  /\ \/ val[rp].len = 0 /\ rpc' = "Dispatch" /\ UNCHANGED <<val, rp>>
     \/ /\ val[rp].len > 0 /\ rpc' = "Dispatch" /\ UNCHANGED rp
        /\ val' = [val EXCEPT ![rp] = [op |-> @.op, len |-> @.len,
                                      content |-> IF @.content = 0 THEN received ELSE Mixed]]
     \/ val[rp].len > 0 /\ rpc' = "Exit" /\ rp' = None /\ UNCHANGED val
  /\ UNCHANGED <<made, pool, received, queue, pc, p, out, want>>

\* PING, PONG, the end of a stream and a stream packet without a handler are put back;
\* data is pushed to the queue; other stream packets go to the reader of the stream, who
\* keeps them. A PONG that is not written or a closed queue ends readLoop.
ReadDispatch ==
  /\ rpc = "Dispatch" /\ rp' = None
  /\ \/ val[rp].op # "DATA" /\ Put(rp) /\ rpc' = "Get" /\ UNCHANGED queue
     \/ val[rp].op = "DATA" /\ queue' = Append(queue, rp) /\ rpc' = "Get" /\ UNCHANGED <<val, pool>>
     \/ /\ val[rp].op = "STREAM" /\ val[rp].len > 0 /\ rpc' \in {"Get", "Exit"}
        /\ UNCHANGED <<val, pool, queue>>
     \/ val[rp].op \in {"PING", "DATA"} /\ rpc' = "Exit" /\ UNCHANGED <<val, pool, queue>>
  /\ UNCHANGED <<made, received, pc, p, out, want>>

-----------------------------------------------------------------------------
\* ReadPacket hands the packet to the goroutine that will run the handler.
Take(w) ==
  /\ pc[w] = "Idle" /\ queue # <<>> /\ queue' = Tail(queue)
  /\ p' = [p EXCEPT ![w] = Head(queue)] /\ want' = [want EXCEPT ![w] = val[Head(queue)]]
  /\ Goto(w, "Handle") /\ UNCHANGED <<made, pool, val, received, rpc, rp, out>>

\* The handler: there is none or it returns nil; it returns its packet; it gets another ...
Handle(w) ==
  /\ pc[w] = "Handle"
  /\ \/ Goto(w, "PutIn") /\ UNCHANGED <<made, pool, val, out>>
     \/ out' = [out EXCEPT ![w] = p[w]] /\ Goto(w, "Check") /\ UNCHANGED <<made, pool, val>>
     \/ \E o \in Objects : Get(o) /\ out' = [out EXCEPT ![w] = o] /\ Goto(w, "Fill")
  /\ UNCHANGED <<received, rpc, rp, queue, p, want>>

\* ... and fills it, perhaps with a ContentLength that is not that of the content.
Fill(w) ==
  /\ pc[w] = "Fill"
  /\ \E len \in {0, 1} : val' = [val EXCEPT ![out[w]] = [op |-> "reply", len |-> len, content |-> w]]
  /\ Goto(w, "Check") /\ UNCHANGED <<made, pool, received, rpc, rp, queue, p, out, want>>

\* A reply of the right length is written, another one dropped.
Check(w) ==
  /\ pc[w] = "Check"
  /\ \/ Whole(val[out[w]]) /\ Goto(w, "Write") /\ UNCHANGED out
     \/ ~Whole(val[out[w]]) /\ out' = [out EXCEPT ![w] = None] /\ Goto(w, "PutIn")
  /\ UNCHANGED <<made, pool, val, received, rpc, rp, queue, p, want>>

\* Mutant of Write: the reply is put back whether or not it is the packet received.
WriteThenPut(w) ==
  /\ pc[w] = "Write" /\ Goto(w, "PutOut")
  /\ UNCHANGED <<made, pool, val, received, rpc, rp, queue, p, out, want>>

\* WritePacket copies the reply, or fails; then both packets are put back, once each.
Write(w) ==
  /\ pc[w] = "Write" /\ Goto(w, IF out[w] # p[w] THEN "PutOut" ELSE "PutIn")
  /\ UNCHANGED <<made, pool, val, received, rpc, rp, queue, p, out, want>>

PutOut(w) ==
  /\ pc[w] = "PutOut" /\ Put(out[w]) /\ out' = [out EXCEPT ![w] = None] /\ Goto(w, "PutIn")
  /\ UNCHANGED <<made, received, rpc, rp, queue, p, want>>

PutIn(w) ==
  /\ pc[w] = "PutIn" /\ Put(p[w]) /\ p' = [p EXCEPT ![w] = None] /\ out' = [out EXCEPT ![w] = None]
  /\ Goto(w, "Idle") /\ UNCHANGED <<made, received, rpc, rp, queue, want>>

-----------------------------------------------------------------------------
\* closeSend: a packet with the stream's id and operation, and nothing else set ...
CloseGet(g) ==
  /\ pc[g] = "Idle" /\ \E o \in Objects : Get(o) /\ p' = [p EXCEPT ![g] = o]
  /\ want' = [want EXCEPT ![g] = Closing] /\ Goto(g, "Header")
  /\ UNCHANGED <<received, rpc, rp, queue, out>>

CloseHeader(g) ==
  /\ pc[g] = "Header" /\ Goto(g, "Write")
  /\ val' = [val EXCEPT ![p[g]] = [op |-> "STREAM", len |-> @.len, content |-> @.content]]
  /\ UNCHANGED <<made, pool, received, rpc, rp, queue, p, out, want>>

\* ... is written and put back.
ClosePut(g) ==
  /\ pc[g] = "Write" /\ Put(p[g]) /\ p' = [p EXCEPT ![g] = None] /\ Goto(g, "Done")
  /\ UNCHANGED <<made, received, rpc, rp, queue, out, want>>

-----------------------------------------------------------------------------
Next ==
  \/ ReadGet \/ ReadHeader \/ ReadContent \/ ReadDispatch
  \/ \E w \in Workers : \/ Take(w) \/ Handle(w) \/ Fill(w) \/ Check(w) \/ Write(w)
                        \/ PutOut(w) \/ PutIn(w)
  \/ \E g \in Closers : CloseGet(g) \/ CloseHeader(g) \/ ClosePut(g)

Spec == Init /\ [][Next]_vars

-----------------------------------------------------------------------------
\* Who refers to packet o: the pool, readLoop, the queue, workers and closers.
Owners(o) ==
  {<<"pool", i>> : i \in 1 .. pool[o]} \cup {<<"readLoop">> : x \in {rp} \cap {o}}
    \cup {<<"queue", i>> : i \in {j \in 1 .. Len(queue) : queue[j] = o}}
    \cup {<<"p", g>> : g \in {h \in Workers \cup Closers : p[h] = o}}
    \cup {<<"out", w>> : w \in {h \in Workers : out[h] = o /\ p[h] # o}}

\* A packet is never in two hands: on no way out of a handler is it put back twice, or
\* while somebody still has it, so Get never gives it to two goroutines (server.go:247-276,
\* client.go:200-226, stream.go:107-111).
OneOwner == \A o \in Objects : \A x, y \in Owners(o) : x = y

\* A handler works on the packet that was received, and its reply, and the closing packet
\* of a stream, are written as they were made: nobody resets or fills a packet that
\* another goroutine is using, and a packet of the pool is empty when it is taken, so that
\* readLoop appends to nothing and closeSend sends no content (async.go:521-602).
PacketIntact ==
  /\ \A w \in Workers : pc[w] \in {"Handle", "Fill", "Check", "Write", "PutOut", "PutIn"} => val[p[w]] = want[w]
  /\ \A w \in Workers : (pc[w] = "Write" /\ out[w] # p[w]) => val[out[w]] = Reply(w)
  /\ \A g \in Closers : pc[g] = "Write" => val[p[g]] = want[g]
  /\ rp # None => val[rp].content # Mixed

=============================================================================
