-------------------------- MODULE PacketPoolProofs --------------------------
(***************************************************************************)
(* Packets have one owner and stay intact, for any number of packet        *)
(* objects, goroutines and packets received.                               *)
(***************************************************************************)
EXTENDS PacketPool, SequenceTheorems, TLAPS

Procs == Workers \cup Closers
Vals == [op : {"none", "PING", "PONG", "STREAM", "DATA", "reply"}, len : {0, 1},
         content : Int \cup Workers]
Some == Objects \cup {None}

PoolTypes ==
  /\ made \subseteq Objects /\ pool \in [Objects -> Nat] /\ val \in [Objects -> Vals]
  /\ received \in Nat /\ rp \in Some /\ queue \in Seq(Objects)
  /\ rpc \in {"Get", "Header", "Content", "Dispatch", "Exit"}
  /\ pc \in [Procs -> {"Idle", "Handle", "Fill", "Check", "Write", "PutOut", "PutIn", "Header", "Done"}]
  /\ p \in [Procs -> Some] /\ out \in [Workers -> Some] /\ want \in [Procs -> Vals]

\* Which steps have a packet.
Holding ==
  /\ rpc \in {"Header", "Content", "Dispatch"} <=> rp \in Objects
  /\ \A w \in Workers :
       /\ pc[w] = "Idle" <=> p[w] = None
       /\ pc[w] \in {"Idle", "Handle"} => out[w] = None
       /\ pc[w] \in {"Fill", "PutOut"} => out[w] \in Objects /\ out[w] # p[w]
       /\ pc[w] \in {"Check", "Write"} => out[w] \in Objects
       /\ pc[w] = "PutIn" => out[w] \in {None, p[w]}
       /\ pc[w] \notin {"Header", "Done"}
  /\ \A g \in Closers :
       /\ pc[g] \in {"Idle", "Header", "Write", "Done"}
       /\ pc[g] \in {"Header", "Write"} <=> p[g] \in Objects

\* Nobody refers to packet o.
Free(o) ==
  /\ rp # o /\ \A i \in 1 .. Len(queue) : queue[i] # o
  /\ \A g \in Procs : p[g] # o
  /\ \A w \in Workers : out[w] # o

\* A packet of the pool, or one that is not made yet, is free, and is once in the pool;
\* any other one is in one place: with readLoop, in the queue, or with a goroutine.
Pooled == \A o \in Objects : pool[o] <= 1 /\ (pool[o] = 1 \/ o \notin made => Free(o))
                                         /\ (o \notin made => pool[o] = 0)
Alone ==
  /\ rp \in Objects => /\ \A i \in 1 .. Len(queue) : queue[i] # rp
                       /\ \A g \in Procs : p[g] # rp
                       /\ \A w \in Workers : out[w] # rp
  /\ \A i, j \in 1 .. Len(queue) : queue[i] = queue[j] => i = j
  /\ \A i \in 1 .. Len(queue) : \A g \in Procs : p[g] # queue[i]
  /\ \A i \in 1 .. Len(queue) : \A w \in Workers : out[w] # queue[i]
  /\ \A g1, g2 \in Procs : p[g1] \in Objects /\ p[g1] = p[g2] => g1 = g2
  /\ \A w \in Workers, g \in Procs : out[w] \in Objects /\ out[w] = p[g] => g = w
  /\ \A w1, w2 \in Workers : out[w1] \in Objects /\ out[w1] = out[w2] => w1 = w2

\* What the packets hold: in the pool, with readLoop, with a worker, with a closing stream.
EmptyPool == \A o \in Objects : pool[o] = 1 => val[o] = Zero
ReadFilled ==
  /\ rpc = "Header" => val[rp] = Zero
  /\ rpc = "Content" => val[rp].content = 0
  /\ rpc = "Dispatch" => val[rp].content # Mixed
WorkFilled(w) ==
  /\ pc[w] # "Idle" => val[p[w]] = want[w]
  /\ (pc[w] = "Check" /\ out[w] # p[w]) =>
       \E len \in {0, 1} : val[out[w]] = [op |-> "reply", len |-> len, content |-> w]
  /\ (pc[w] = "Write" /\ out[w] # p[w]) => val[out[w]] = Reply(w)
CloseFilled(g) ==
  /\ pc[g] = "Header" => val[p[g]] = Zero /\ want[g] = Closing
  /\ pc[g] = "Write" => val[p[g]] = Closing /\ want[g] = Closing
Filled ==
  /\ EmptyPool /\ ReadFilled
  /\ \A w \in Workers : WorkFilled(w)
  /\ \A g \in Closers : CloseFilled(g)

PoolInv == PoolTypes /\ Holding /\ Pooled /\ Alone /\ Filled

-----------------------------------------------------------------------------
\* What the provers need of the constants, of Get and of Put.
LEMMA Names ==
  /\ None \notin Objects /\ 0 \notin Workers /\ Workers \cap Closers = {}
  /\ Workers \subseteq Procs /\ Closers \subseteq Procs /\ \A g \in Procs : g \in Workers \/ g \in Closers
  /\ Zero \in Vals /\ Closing \in Vals
BY SMTT(60), PoolAssumption DEF Procs, Vals, Zero, Closing

\* The packets other than o, in the pool and by their values.
Others(o) ==
  \A x \in Objects \ {o} : /\ pool'[x] = pool[x] /\ val'[x] = val[x]
                           /\ x \in made' <=> x \in made
PoolVars == made' \subseteq Objects /\ pool' \in [Objects -> Nat] /\ val' \in [Objects -> Vals]

\* Get gives a free, empty packet and touches no other one (pool.go:17-19).
LEMMA GetFacts ==
  ASSUME PoolInv, NEW o \in Objects, Get(o)
  PROVE  Free(o) /\ Others(o) /\ PoolVars /\ val'[o] = Zero /\ pool'[o] = 0 /\ o \in made'
<1>1. CASE pool[o] > 0 /\ pool' = [pool EXCEPT ![o] = @ - 1] /\ UNCHANGED <<made, val>>
  <2>1. pool[o] = 1 BY SMTT(60), <1>1 DEF PoolInv, PoolTypes, Pooled
  <2>2. Free(o) /\ val[o] = Zero /\ o \in made BY SMTT(60), <2>1 DEF PoolInv, Pooled, Filled, EmptyPool
  <2> QED BY SMTT(60), <1>1, <2>1, <2>2 DEF Others, PoolVars, PoolInv, PoolTypes
<1>2. CASE o \notin made /\ made' = made \cup {o} /\ val' = [val EXCEPT ![o] = Zero] /\ UNCHANGED pool
  <2>1. Free(o) /\ pool[o] = 0 BY ZenonT(60), <1>2 DEF PoolInv, Pooled
  <2> QED BY ZenonT(60), <1>2, <2>1, Names DEF Others, PoolVars, PoolInv, PoolTypes
<1> QED BY ZenonT(60), <1>1, <1>2 DEF Get

\* Put empties a packet that somebody held, and touches no other one (pool.go:21-23).
LEMMA PutFacts ==
  ASSUME PoolInv, NEW o \in Objects, Put(o), made' = made, ~Free(o)
  PROVE  Others(o) /\ PoolVars /\ val'[o] = Zero /\ pool'[o] = 1 /\ o \in made'
<1>1. pool[o] = 0 /\ o \in made BY SMTT(60) DEF PoolInv, PoolTypes, Pooled
<1> QED BY SMTT(60), <1>1, Names DEF Put, Reset, Others, PoolVars, PoolInv, PoolTypes

\* The packets that somebody refers to are made and not in the pool.
LEMMA HeldNotPooled ==
  ASSUME PoolInv, NEW o \in Objects, ~Free(o)
  PROVE  pool[o] = 0 /\ o \in made
BY SMTT(60) DEF PoolInv, PoolTypes, Pooled

\* Goroutine g does not move, and nobody changes the packet it holds as p.
Same(g) == /\ pc'[g] = pc[g] /\ p'[g] = p[g] /\ want'[g] = want[g]
           /\ p[g] \in Objects => val'[p[g]] = val[p[g]]

\* What is with a goroutine that does not move, in a packet nobody changes, stays.
LEMMA FilledKept ==
  ASSUME PoolInv
  PROVE  /\ UNCHANGED <<rpc, rp>> /\ (rp \in Objects => val'[rp] = val[rp]) => ReadFilled'
         /\ \A v \in Workers :
              Same(v) /\ out'[v] = out[v] /\ (out[v] \in Objects => val'[out[v]] = val[out[v]])
                => WorkFilled(v)'
         /\ \A g \in Closers : Same(g) => CloseFilled(g)'
<1>1. /\ ReadFilled /\ (\A w \in Workers : WorkFilled(w)) /\ \A g \in Closers : CloseFilled(g)
  BY ZenonT(60) DEF PoolInv, Filled
<1>2. UNCHANGED <<rpc, rp>> /\ (rp \in Objects => val'[rp] = val[rp]) => ReadFilled'
  <2>1. rpc \in {"Header", "Content", "Dispatch"} => rp \in Objects BY ZenonT(60) DEF PoolInv, Holding
  <2> QED BY ZenonT(60), <1>1, <2>1 DEF ReadFilled
<1>3. ASSUME NEW v \in Workers, Same(v), out'[v] = out[v], out[v] \in Objects => val'[out[v]] = val[out[v]]
      PROVE  WorkFilled(v)'
  <2>1. pc[v] # "Idle" => p[v] \in Objects BY ZenonT(60), Names DEF PoolInv, PoolTypes, Holding, Some
  <2>2. pc[v] \in {"Check", "Write"} => out[v] \in Objects BY ZenonT(60) DEF PoolInv, Holding
  <2>3. /\ pc'[v] = pc[v] /\ p'[v] = p[v] /\ want'[v] = want[v]
        /\ pc[v] # "Idle" => val'[p[v]] = val[p[v]]
        /\ pc[v] \in {"Check", "Write"} => val'[out[v]] = val[out[v]]
    BY ZenonT(60), <1>3, <2>1, <2>2 DEF Same
  <2>4. WorkFilled(v) BY ZenonT(60), <1>1
  <2> QED BY ZenonT(60), <1>3, <2>3, <2>4 DEF WorkFilled, Reply
<1>4. ASSUME NEW g \in Closers, Same(g) PROVE CloseFilled(g)'
  <2>1. pc[g] \in {"Header", "Write"} => p[g] \in Objects BY ZenonT(60) DEF PoolInv, Holding
  <2>2. CloseFilled(g) BY ZenonT(60), <1>1
  <2> QED BY ZenonT(60), <1>4, <2>1, <2>2 DEF Same, CloseFilled, Closing, Zero
<1> QED BY ZenonT(60), <1>2, <1>3, <1>4

\* One worker moves: it is enough to look at its packets and at the pool.
LEMMA FilledButOne ==
  ASSUME PoolInv, NEW w \in Workers, EmptyPool', WorkFilled(w)', UNCHANGED <<rpc, rp>>,
         rp \in Objects => val'[rp] = val[rp], \A g \in Procs : g # w => Same(g),
         \A v \in Workers : v # w => out'[v] = out[v] /\ (out[v] \in Objects => val'[out[v]] = val[out[v]])
  PROVE  Filled'
<1>1. ReadFilled' BY ZenonT(60), FilledKept
<1>2. \A v \in Workers : WorkFilled(v)' BY ZenonT(60), Names, FilledKept
<1>3. \A g \in Closers : CloseFilled(g)' BY ZenonT(60), Names, FilledKept
<1> QED BY ZenonT(60), <1>1, <1>2, <1>3 DEF Filled

\* Nobody refers to anything new.
LEMMA RefsFewer ==
  ASSUME PoolInv, UNCHANGED <<made, pool, queue>>, rp' \in {rp, None},
         \A g \in Procs : p'[g] \in {p[g], None}, \A w \in Workers : out'[w] \in {out[w], None}
  PROVE  Pooled' /\ Alone'
<1>1. \A o \in Objects : Free(o) => Free(o)' BY ZenonT(60), Names DEF Free
<1>2. Pooled' BY ZenonT(60), <1>1 DEF PoolInv, Pooled
<1>3. Alone'
  <2>1. rp' \in Objects => /\ \A i \in 1 .. Len(queue) : queue[i] # rp'
                           /\ \A g \in Procs : p'[g] # rp'
                           /\ \A w \in Workers : out'[w] # rp'
    BY ZenonT(60), Names DEF PoolInv, Alone
  <2>2. \A i \in 1 .. Len(queue) : queue[i] # None
    BY SMTT(60), Names DEF PoolInv, PoolTypes
  <2>3. /\ \A i \in 1 .. Len(queue) : \A g \in Procs : p'[g] # queue[i]
        /\ \A i \in 1 .. Len(queue) : \A w \in Workers : out'[w] # queue[i]
    BY ZenonT(60), <2>2 DEF PoolInv, Alone
  <2>p. /\ \A g1, g2 \in Procs : p[g1] \in Objects /\ p[g1] = p[g2] => g1 = g2
        /\ \A w \in Workers, g \in Procs : out[w] \in Objects /\ out[w] = p[g] => g = w
        /\ \A w1, w2 \in Workers : out[w1] \in Objects /\ out[w1] = out[w2] => w1 = w2
    BY ZenonT(60) DEF PoolInv, Alone
  <2>4. ASSUME NEW g1 \in Procs, NEW g2 \in Procs, p'[g1] \in Objects, p'[g1] = p'[g2]
        PROVE  g1 = g2
    <3>1. p'[g1] = p[g1] /\ p'[g2] = p[g2] BY ZenonT(60), <2>4, Names
    <3> QED BY ZenonT(60), <2>4, <2>p, <3>1
  <2>5. ASSUME NEW w \in Workers, NEW g \in Procs, out'[w] \in Objects, out'[w] = p'[g]
        PROVE  g = w
    <3>1. out'[w] = out[w] /\ p'[g] = p[g] BY ZenonT(60), <2>5, Names
    <3> QED BY ZenonT(60), <2>5, <2>p, <3>1
  <2>6. ASSUME NEW w1 \in Workers, NEW w2 \in Workers, out'[w1] \in Objects, out'[w1] = out'[w2]
        PROVE  w1 = w2
    <3>1. out'[w1] = out[w1] /\ out'[w2] = out[w2] BY ZenonT(60), <2>6, Names
    <3> QED BY ZenonT(60), <2>6, <2>p, <3>1
  <2>q. \A i, j \in 1 .. Len(queue) : queue[i] = queue[j] => i = j BY ZenonT(60) DEF PoolInv, Alone
  <2>e. queue' = queue BY SMTT(60)
  <2>7. \A g1, g2 \in Procs : p'[g1] \in Objects /\ p'[g1] = p'[g2] => g1 = g2 BY ZenonT(60), <2>4
  <2>8. \A w \in Workers, g \in Procs : out'[w] \in Objects /\ out'[w] = p'[g] => g = w
    BY ZenonT(60), <2>5
  <2>9. \A w1, w2 \in Workers : out'[w1] \in Objects /\ out'[w1] = out'[w2] => w1 = w2 BY ZenonT(60), <2>6
  <2> QED BY SMTT(60), <2>1, <2>3, <2>7, <2>8, <2>9, <2>q, <2>e DEF Alone
<1> QED BY SMTT(60), <1>2, <1>3

-----------------------------------------------------------------------------
\* readLoop takes a packet from the pool.
LEMMA ReadGetInv ==
  ASSUME PoolInv, ReadGet
  PROVE  PoolInv'
<1>1. PICK o \in Objects : Get(o) /\ rp' = o BY ZenonT(60) DEF ReadGet
<1>2. /\ rpc = "Get" /\ received' = received + 1 /\ rpc' = "Header" /\ rp = None
      /\ UNCHANGED <<queue, pc, p, out, want>>
  BY ZenonT(60) DEF ReadGet, PoolInv, PoolTypes, Holding, Some
<1>3. Free(o) /\ Others(o) /\ PoolVars /\ val'[o] = Zero /\ pool'[o] = 0 /\ o \in made'
  BY ZenonT(60), <1>1, GetFacts
<1>4. PoolTypes' BY SMTT(60), <1>1, <1>2, <1>3 DEF PoolVars, PoolInv, PoolTypes, Some
<1>5. Holding' BY ZenonT(60), <1>1, <1>2 DEF PoolInv, Holding
<1>6. Pooled'
  <2>1. \A x \in Objects \ {o} : Free(x) => Free(x)' BY ZenonT(60), <1>1, <1>2 DEF Free
  <2> QED BY SMTT(60), <1>3, <2>1 DEF PoolInv, Pooled, Others
<1>7. Alone' BY SMTT(60), <1>1, <1>2, <1>3 DEF Free, PoolInv, Alone
<1>8. Filled'
  <2>1. \A x \in Objects : x # o => val'[x] = val[x] /\ pool'[x] = pool[x] BY ZenonT(60), <1>3 DEF Others
  <2>2. EmptyPool' BY ZenonT(60), <1>3, <2>1 DEF PoolInv, Filled, EmptyPool
  <2>3. ReadFilled' BY ZenonT(60), <1>1, <1>2, <1>3 DEF ReadFilled
  <2>4. \A g \in Procs : Same(g) BY ZenonT(60), <1>2, <1>3, <2>1 DEF Free, Same
  <2>5. \A w \in Workers : WorkFilled(w)'
    BY ZenonT(60), <1>2, <1>3, <2>1, <2>4, Names, FilledKept DEF Free
  <2>6. \A g \in Closers : CloseFilled(g)' BY ZenonT(60), <2>4, Names, FilledKept
  <2> QED BY ZenonT(60), <2>2, <2>3, <2>5, <2>6 DEF Filled
<1> QED BY ZenonT(60), <1>4, <1>5, <1>6, <1>7, <1>8 DEF PoolInv

\* readLoop decodes a header into its packet.
LEMMA ReadHeaderInv ==
  ASSUME PoolInv, ReadHeader
  PROVE  PoolInv'
<1>1. /\ rpc = "Header" /\ rp \in Objects /\ UNCHANGED <<made, pool, received, queue, pc, p, out, want>>
      /\ val[rp] = Zero
  BY ZenonT(60) DEF ReadHeader, PoolInv, Holding, Filled, ReadFilled
<1>2. CASE rpc' = "Exit" /\ rp' = None /\ UNCHANGED val
  <2>1. PoolTypes' BY ZenonT(60), <1>1, <1>2 DEF PoolInv, PoolTypes, Some
  <2>2. Holding' BY ZenonT(60), <1>1, <1>2, Names DEF PoolInv, Holding
  <2>3. Pooled' /\ Alone' BY ZenonT(60), <1>1, <1>2, RefsFewer
  <2>4. Filled'
    BY ZenonT(60), <1>1, <1>2 DEF PoolInv, Filled, EmptyPool, ReadFilled, WorkFilled, CloseFilled
  <2> QED BY ZenonT(60), <2>1, <2>2, <2>3, <2>4 DEF PoolInv
<1>3. ASSUME NEW op \in {"PING", "PONG", "STREAM", "DATA"}, NEW len \in {0, 1}, rpc' = "Content",
             val' = [val EXCEPT ![rp] = [op |-> op, len |-> len, content |-> @.content]],
             UNCHANGED rp
      PROVE  PoolInv'
  <2>1. /\ val'[rp] = [op |-> op, len |-> len, content |-> 0] /\ val' \in [Objects -> Vals]
        /\ \A x \in Objects \ {rp} : val'[x] = val[x]
    BY SMTT(60), <1>1, <1>3 DEF PoolInv, PoolTypes, Zero, Vals
  <2>2. PoolTypes' BY ZenonT(60), <1>1, <1>3, <2>1 DEF PoolInv, PoolTypes
  <2>3. Holding' BY ZenonT(60), <1>1, <1>3 DEF PoolInv, Holding
  <2>4. Pooled' /\ Alone' BY ZenonT(60), <1>1, <1>3, RefsFewer
  <2>5. pool[rp] = 0 /\ \A g \in Procs : p[g] # rp
    BY ZenonT(60), <1>1, HeldNotPooled DEF Free, PoolInv, Alone
  <2>6. \A w \in Workers : out[w] # rp BY ZenonT(60), <1>1 DEF PoolInv, Alone
  <2>7. Filled'
    <3>0. pool[rp] # 1 BY SMTT(60), <2>5
    <3>1. EmptyPool' BY ZenonT(60), <1>1, <2>1, <3>0 DEF PoolInv, Filled, EmptyPool
    <3>2. ReadFilled'
      <4>1. val'[rp'].content = 0 BY SMTT(60), <1>3, <2>1
      <4> QED BY ZenonT(60), <1>3, <4>1 DEF ReadFilled
    <3>3. \A g \in Procs : Same(g) BY ZenonT(60), <1>1, <2>1, <2>5 DEF Same
    <3>4. \A w \in Workers : WorkFilled(w)' BY ZenonT(60), <1>1, <2>1, <2>6, <3>3, Names, FilledKept
    <3>5. \A g \in Closers : CloseFilled(g)' BY ZenonT(60), <3>3, Names, FilledKept
    <3> QED BY ZenonT(60), <3>1, <3>2, <3>4, <3>5 DEF Filled
  <2> QED BY ZenonT(60), <2>2, <2>3, <2>4, <2>7 DEF PoolInv
<1> QED BY ZenonT(60), <1>2, <1>3 DEF ReadHeader

\* readLoop writes the content into its packet.
LEMMA ReadContentInv ==
  ASSUME PoolInv, ReadContent
  PROVE  PoolInv'
<1>1. /\ rpc = "Content" /\ rp \in Objects /\ UNCHANGED <<made, pool, received, queue, pc, p, out, want>>
      /\ val[rp].content = 0
  BY ZenonT(60) DEF ReadContent, PoolInv, Holding, Filled, ReadFilled
<1>2. CASE rpc' = "Exit" /\ rp' = None /\ UNCHANGED val
  <2>1. PoolTypes' BY ZenonT(60), <1>1, <1>2 DEF PoolInv, PoolTypes, Some
  <2>2. Holding' BY ZenonT(60), <1>1, <1>2, Names DEF PoolInv, Holding
  <2>3. Pooled' /\ Alone' BY ZenonT(60), <1>1, <1>2, RefsFewer
  <2>4. Filled'
    BY ZenonT(60), <1>1, <1>2 DEF PoolInv, Filled, EmptyPool, ReadFilled, WorkFilled, CloseFilled
  <2> QED BY ZenonT(60), <2>1, <2>2, <2>3, <2>4 DEF PoolInv
<1>3. CASE rpc' = "Dispatch" /\ UNCHANGED <<val, rp>>
  <2>1. PoolTypes' BY ZenonT(60), <1>1, <1>3 DEF PoolInv, PoolTypes
  <2>2. Holding' BY ZenonT(60), <1>1, <1>3 DEF PoolInv, Holding
  <2>3. Pooled' /\ Alone' BY ZenonT(60), <1>1, <1>3, RefsFewer
  <2>4. Filled'
    BY SMTT(60), <1>1, <1>3 DEF PoolInv, Filled, EmptyPool, ReadFilled, WorkFilled, CloseFilled, Mixed
  <2> QED BY ZenonT(60), <2>1, <2>2, <2>3, <2>4 DEF PoolInv
<1>4. CASE /\ rpc' = "Dispatch" /\ UNCHANGED rp
           /\ val' = [val EXCEPT ![rp] = [op |-> @.op, len |-> @.len,
                                         content |-> IF @.content = 0 THEN received ELSE Mixed]]
  <2>1. /\ val'[rp].content = received /\ val' \in [Objects -> Vals]
        /\ \A x \in Objects \ {rp} : val'[x] = val[x]
    BY SMTT(60), <1>1, <1>4 DEF PoolInv, PoolTypes, Vals
  <2>2. PoolTypes' BY ZenonT(60), <1>1, <1>4, <2>1 DEF PoolInv, PoolTypes
  <2>3. Holding' BY ZenonT(60), <1>1, <1>4 DEF PoolInv, Holding
  <2>4. Pooled' /\ Alone' BY ZenonT(60), <1>1, <1>4, RefsFewer
  <2>5. pool[rp] = 0 /\ \A g \in Procs : p[g] # rp
    BY ZenonT(60), <1>1, HeldNotPooled DEF Free, PoolInv, Alone
  <2>6. \A w \in Workers : out[w] # rp BY ZenonT(60), <1>1 DEF PoolInv, Alone
  <2>7. Filled'
    <3>0. pool[rp] # 1 BY SMTT(60), <2>5
    <3>1. EmptyPool' BY ZenonT(60), <1>1, <2>1, <3>0 DEF PoolInv, Filled, EmptyPool
    <3>2. ReadFilled'
      <4>1. received \in Nat BY ZenonT(60) DEF PoolInv, PoolTypes
      <4>2. received # Mixed BY SMTT(60), <4>1 DEF Mixed
      <4> QED BY ZenonT(60), <1>4, <2>1, <4>2 DEF ReadFilled, Mixed
    <3>3. \A g \in Procs : Same(g) BY ZenonT(60), <1>1, <2>1, <2>5 DEF Same
    <3>4. \A w \in Workers : WorkFilled(w)' BY ZenonT(60), <1>1, <2>1, <2>6, <3>3, Names, FilledKept
    <3>5. \A g \in Closers : CloseFilled(g)' BY ZenonT(60), <3>3, Names, FilledKept
    <3> QED BY ZenonT(60), <3>1, <3>2, <3>4, <3>5 DEF Filled
  <2> QED BY ZenonT(60), <2>2, <2>3, <2>4, <2>7 DEF PoolInv
<1> QED BY ZenonT(60), <1>2, <1>3, <1>4 DEF ReadContent

\* A packet that only readLoop refers to goes to the pool, to the queue or to a reader.
LEMMA ReadDispatchInv ==
  ASSUME PoolInv, ReadDispatch
  PROVE  PoolInv'
<1>1. /\ rpc = "Dispatch" /\ rp \in Objects /\ rp' = None /\ rpc' \in {"Get", "Exit"}
      /\ UNCHANGED <<made, received, pc, p, out, want>>
  BY ZenonT(60) DEF ReadDispatch, PoolInv, Holding
<1>2. Holding' BY ZenonT(60), <1>1, Names DEF PoolInv, Holding
<1>3. /\ ~Free(rp) /\ pool[rp] = 0 /\ rp \in made /\ \A g \in Procs : p[g] # rp
      /\ \A w \in Workers : out[w] # rp
      /\ \A i \in 1 .. Len(queue) : queue[i] # rp
  BY ZenonT(60), <1>1, HeldNotPooled DEF Free, PoolInv, Alone
<1>4. CASE UNCHANGED <<val, pool, queue>>
  <2>1. PoolTypes' BY ZenonT(60), <1>1, <1>4 DEF PoolInv, PoolTypes, Some
  <2>2. Pooled' /\ Alone' BY ZenonT(60), <1>1, <1>4, RefsFewer
  <2>3. Filled'
    BY ZenonT(60), <1>1, <1>4 DEF PoolInv, Filled, EmptyPool, ReadFilled, WorkFilled, CloseFilled
  <2> QED BY ZenonT(60), <1>2, <2>1, <2>2, <2>3 DEF PoolInv
<1>5. CASE Put(rp) /\ UNCHANGED queue
  <2>o. PICK o \in Objects : o = rp BY ZenonT(60), <1>1
  <2>1. Others(o) /\ PoolVars /\ val'[o] = Zero /\ pool'[o] = 1 /\ o \in made'
    BY ZenonT(60), <1>1, <1>3, <1>5, <2>o, PutFacts
  <2>2. PoolTypes' BY ZenonT(60), <1>1, <1>5, <2>1 DEF PoolInv, PoolTypes, PoolVars, Some
  <2>3. Pooled'
    <3>1. Free(o)' BY ZenonT(60), <1>1, <1>3, <1>5, <2>o, Names DEF Free
    <3>2. \A x \in Objects \ {o} : Free(x) => Free(x)' BY ZenonT(60), <1>1, <1>5, Names DEF Free
    <3> QED BY SMTT(60), <2>1, <3>1, <3>2 DEF PoolInv, Pooled, Others
  <2>4. Alone' BY ZenonT(60), <1>1, <1>5, Names DEF PoolInv, Alone
  <2>5. Filled'
    <3>1. \A x \in Objects : x # o => val'[x] = val[x] /\ pool'[x] = pool[x]
      BY ZenonT(60), <2>1 DEF Others
    <3>2. EmptyPool' BY ZenonT(60), <2>1, <3>1 DEF PoolInv, Filled, EmptyPool
    <3>3. ReadFilled' BY ZenonT(60), <1>1 DEF ReadFilled
    <3>4. \A g \in Procs : Same(g) BY ZenonT(60), <1>1, <1>3, <2>o, <3>1 DEF Same
    <3>5. \A w \in Workers : WorkFilled(w)'
      BY ZenonT(60), <1>1, <1>3, <2>o, <3>1, <3>4, Names, FilledKept
    <3>6. \A g \in Closers : CloseFilled(g)' BY ZenonT(60), <3>4, Names, FilledKept
    <3> QED BY ZenonT(60), <3>2, <3>3, <3>5, <3>6 DEF Filled
  <2> QED BY ZenonT(60), <1>2, <2>2, <2>3, <2>4, <2>5 DEF PoolInv
<1>6. CASE queue' = Append(queue, rp) /\ UNCHANGED <<val, pool>>
  <2>1. /\ queue' \in Seq(Objects) /\ Len(queue') = Len(queue) + 1 /\ Len(queue) \in Nat
        /\ \A i \in 1 .. Len(queue) : queue'[i] = queue[i]
        /\ queue'[Len(queue) + 1] = rp
    BY SMTT(60), <1>1, <1>6 DEF PoolInv, PoolTypes
  <2>2. PoolTypes' BY ZenonT(60), <1>1, <1>6, <2>1 DEF PoolInv, PoolTypes, Some
  <2>3. \A i \in 1 .. Len(queue') : \/ queue'[i] = rp /\ i = Len(queue) + 1
                                    \/ i \in 1 .. Len(queue) /\ queue'[i] = queue[i]
    BY SMTT(60), <2>1
  <2>4. Pooled'
    <3>1. \A x \in Objects : Free(x) => Free(x)' BY ZenonT(60), <1>1, <2>3, Names DEF Free
    <3> QED BY ZenonT(60), <1>1, <1>6, <3>1 DEF PoolInv, Pooled
  <2>5. Alone'
    <3>1. \A i, j \in 1 .. Len(queue') : queue'[i] = queue'[j] => i = j
      BY SMTT(60), <1>3, <2>3 DEF PoolInv, Alone
    <3>2. /\ \A i \in 1 .. Len(queue') : \A g \in Procs : p[g] # queue'[i]
          /\ \A i \in 1 .. Len(queue') : \A w \in Workers : out[w] # queue'[i]
      BY SMTT(60), <1>3, <2>3 DEF PoolInv, Alone
    <3> QED BY ZenonT(60), <1>1, <3>1, <3>2, Names DEF PoolInv, Alone
  <2>6. Filled'
    BY ZenonT(60), <1>1, <1>6 DEF PoolInv, Filled, EmptyPool, ReadFilled, WorkFilled, CloseFilled
  <2> QED BY ZenonT(60), <1>2, <2>2, <2>4, <2>5, <2>6 DEF PoolInv
<1> QED BY ZenonT(60), <1>4, <1>5, <1>6 DEF ReadDispatch

-----------------------------------------------------------------------------
\* A worker takes a packet out of the queue.
LEMMA TakeInv ==
  ASSUME PoolInv, NEW w \in Workers, Take(w)
  PROVE  PoolInv'
<1> DEFINE o == queue[1]
<1>1. /\ pc[w] = "Idle" /\ Len(queue) > 0 /\ o \in Objects /\ w \in Procs
      /\ p' = [p EXCEPT ![w] = o] /\ want' = [want EXCEPT ![w] = val[o]] /\ Goto(w, "Handle")
      /\ p[w] = None /\ out[w] = None
      /\ UNCHANGED <<made, pool, val, received, rpc, rp, out>>
  BY SMTT(60), Names DEF Take, PoolInv, PoolTypes, Holding
<1>2. /\ queue' \in Seq(Objects) /\ Len(queue') = Len(queue) - 1 /\ Len(queue) \in Nat
      /\ \A i \in 1 .. Len(queue') : i + 1 \in 1 .. Len(queue) /\ queue'[i] = queue[i + 1]
  BY SMTT(60) DEF Take, PoolInv, PoolTypes
<1>3. \A g \in Procs : /\ pc'[g] = (IF g = w THEN "Handle" ELSE pc[g])
                       /\ p'[g] = (IF g = w THEN o ELSE p[g])
                       /\ want'[g] = (IF g = w THEN val[o] ELSE want[g])
  BY ZenonT(60), <1>1 DEF Goto, PoolInv, PoolTypes
<1>4. PoolTypes'
  <2>1. val[o] \in Vals BY ZenonT(60), <1>1 DEF PoolInv, PoolTypes
  <2> QED BY ZenonT(60), <1>1, <1>2, <2>1 DEF Goto, PoolInv, PoolTypes, Some
<1>5. Holding' BY SMTT(60), <1>1, <1>3, Names DEF PoolInv, Holding
<1>6. /\ rp # o /\ \A g \in Procs : p[g] # o
      /\ \A v \in Workers : out[v] # o
      /\ \A i \in 1 .. Len(queue') : queue'[i] # o
  <2>1. 1 \in 1 .. Len(queue) BY SMTT(60), <1>1, <1>2
  <2>2. rp # o BY ZenonT(60), <1>1, <2>1 DEF PoolInv, Alone
  <2>3. (\A g \in Procs : p[g] # o) /\ \A v \in Workers : out[v] # o
    BY ZenonT(60), <2>1 DEF PoolInv, Alone
  <2>4. ASSUME NEW i \in 1 .. Len(queue') PROVE queue'[i] # o
    <3>1. i + 1 \in 1 .. Len(queue) /\ queue'[i] = queue[i + 1] /\ i + 1 # 1 BY SMTT(60), <1>2
    <3> QED BY ZenonT(60), <2>1, <3>1 DEF PoolInv, Alone
  <2> QED BY ZenonT(60), <2>2, <2>3, <2>4
<1> HIDE DEF o
<1>7. Pooled'
  <2>1. ~Free(o) BY SMTT(60), <1>1, <1>2 DEF Free, o
  <2>2. \A x \in Objects \ {o} : Free(x) => Free(x)' BY SMTT(60), <1>1, <1>2, <1>3 DEF Free
  <2> QED BY ZenonT(60), <1>1, <2>1, <2>2 DEF PoolInv, Pooled
<1>8. Alone'
  <2>1. rp \in Objects => /\ \A i \in 1 .. Len(queue') : queue'[i] # rp
                          /\ \A g \in Procs : p'[g] # rp
                          /\ \A v \in Workers : out[v] # rp
    BY SMTT(60), <1>2, <1>3, <1>6 DEF PoolInv, Alone
  <2>2. ASSUME NEW i \in 1 .. Len(queue'), NEW j \in 1 .. Len(queue'), queue'[i] = queue'[j] PROVE i = j
    <3>1. i + 1 = j + 1 BY SMTT(60), <1>2, <2>2 DEF PoolInv, Alone
    <3> QED BY SMTT(60), <1>2, <3>1
  <2>3. /\ \A i \in 1 .. Len(queue') : \A g \in Procs : p'[g] # queue'[i]
        /\ \A i \in 1 .. Len(queue') : \A v \in Workers : out[v] # queue'[i]
    BY SMTT(60), <1>2, <1>3, <1>6 DEF PoolInv, Alone
  <2>4. \A g1, g2 \in Procs : p'[g1] \in Objects /\ p'[g1] = p'[g2] => g1 = g2
    BY SMTT(60), <1>3, <1>6 DEF PoolInv, Alone
  <2>5. \A v \in Workers, g \in Procs : out[v] \in Objects /\ out[v] = p'[g] => g = v
    BY SMTT(60), <1>3, <1>6 DEF PoolInv, Alone
  <2> QED BY ZenonT(60), <1>1, <2>1, <2>2, <2>3, <2>4, <2>5 DEF PoolInv, Alone
<1>9. Filled'
  <2>1. \A g \in Procs : g # w => Same(g) BY ZenonT(60), <1>1, <1>3 DEF Same
  <2>2. pc'[w] = "Handle" /\ p'[w] = o /\ want'[w] = val[o] BY ZenonT(60), <1>1, <1>3
  <2>3. WorkFilled(w)' BY ZenonT(60), <1>1, <2>2 DEF WorkFilled
  <2>4. EmptyPool' BY ZenonT(60), <1>1 DEF PoolInv, Filled, EmptyPool
  <2> QED BY ZenonT(60), <1>1, <2>1, <2>3, <2>4, FilledButOne
<1> QED BY ZenonT(60), <1>4, <1>5, <1>7, <1>8, <1>9 DEF PoolInv

\* A goroutine moves; the packets, and who refers to them, stay.
LEMMA HandleInv ==
  ASSUME PoolInv, NEW w \in Workers, Handle(w)
  PROVE  PoolInv'
<1>1. /\ pc[w] = "Handle" /\ w \in Procs /\ p[w] \in Objects /\ out[w] = None
      /\ UNCHANGED <<received, rpc, rp, queue, p, want>>
  BY ZenonT(60), Names DEF Handle, PoolInv, PoolTypes, Holding, Some
<1>g. ASSUME NEW l, Goto(w, l) PROVE \A g \in Procs : pc'[g] = IF g = w THEN l ELSE pc[g]
  BY ZenonT(60), <1>g DEF Goto, PoolInv, PoolTypes
<1>2. CASE Goto(w, "PutIn") /\ UNCHANGED <<made, pool, val, out>>
  <2>1. \A g \in Procs : pc'[g] = IF g = w THEN "PutIn" ELSE pc[g] BY ZenonT(60), <1>2, <1>g
  <2>2. PoolTypes' BY ZenonT(60), <1>1, <1>2 DEF Goto, PoolInv, PoolTypes
  <2>3. Holding' BY ZenonT(60), <1>1, <1>2, <2>1, Names DEF PoolInv, Holding
  <2>4. Pooled' /\ Alone' BY ZenonT(60), <1>1, <1>2, RefsFewer
  <2>5. Filled'
    <3>1. EmptyPool' BY ZenonT(60), <1>2 DEF PoolInv, Filled, EmptyPool
    <3>2. pc'[w] = "PutIn" /\ val'[p'[w]] = want'[w]
      BY ZenonT(60), <1>1, <1>2, <2>1 DEF PoolInv, Filled, WorkFilled
    <3>3. WorkFilled(w)' BY ZenonT(60), <3>2 DEF WorkFilled
    <3>4. \A g \in Procs : g # w => Same(g) BY ZenonT(60), <1>1, <1>2, <2>1 DEF Same
    <3> QED BY ZenonT(60), <1>1, <1>2, <3>1, <3>3, <3>4, FilledButOne
  <2> QED BY ZenonT(60), <2>2, <2>3, <2>4, <2>5 DEF PoolInv
<1>3. CASE out' = [out EXCEPT ![w] = p[w]] /\ Goto(w, "Check") /\ UNCHANGED <<made, pool, val>>
  <2>1. \A g \in Procs : pc'[g] = IF g = w THEN "Check" ELSE pc[g] BY ZenonT(60), <1>3, <1>g
  <2>2. \A v \in Workers : out'[v] = IF v = w THEN p[w] ELSE out[v]
    BY ZenonT(60), <1>3 DEF PoolInv, PoolTypes
  <2>3. PoolTypes' BY ZenonT(60), <1>1, <1>3 DEF Goto, PoolInv, PoolTypes, Some
  <2>4. Holding' BY ZenonT(60), <1>1, <2>1, <2>2, Names DEF PoolInv, Holding
  <2>5. Pooled'
    <3>1. \A x \in Objects : Free(x) => Free(x)' BY ZenonT(60), <1>1, <2>2 DEF Free
    <3> QED BY ZenonT(60), <1>3, <3>1 DEF PoolInv, Pooled
  <2>6. Alone'
    <3>1. /\ rp \in Objects => \A v \in Workers : out'[v] # rp
          /\ \A i \in 1 .. Len(queue) : \A v \in Workers : out'[v] # queue[i]
      BY ZenonT(60), <1>1, <2>2 DEF PoolInv, Alone
    <3>2. \A v \in Workers, g \in Procs : out'[v] \in Objects /\ out'[v] = p[g] => g = v
      BY ZenonT(60), <1>1, <2>2 DEF PoolInv, Alone
    <3>3. \A v1, v2 \in Workers : out'[v1] \in Objects /\ out'[v1] = out'[v2] => v1 = v2
      BY SMTT(60), <1>1, <2>2 DEF PoolInv, Alone
    <3> QED BY ZenonT(60), <1>1, <3>1, <3>2, <3>3 DEF PoolInv, Alone
  <2>7. Filled'
    <3>1. EmptyPool' BY ZenonT(60), <1>3 DEF PoolInv, Filled, EmptyPool
    <3>2. pc'[w] = "Check" /\ out'[w] = p'[w] /\ val'[p'[w]] = want'[w]
      BY ZenonT(60), <1>1, <1>3, <2>1, <2>2 DEF PoolInv, Filled, WorkFilled
    <3>3. WorkFilled(w)' BY ZenonT(60), <3>2 DEF WorkFilled
    <3>4. \A g \in Procs : g # w => Same(g) BY ZenonT(60), <1>1, <1>3, <2>1 DEF Same
    <3> QED BY ZenonT(60), <1>1, <1>3, <2>2, <3>1, <3>3, <3>4, FilledButOne
  <2> QED BY ZenonT(60), <2>3, <2>4, <2>5, <2>6, <2>7 DEF PoolInv
<1>4. ASSUME NEW o \in Objects, Get(o), out' = [out EXCEPT ![w] = o], Goto(w, "Fill")
      PROVE  PoolInv'
  <2>1. \A g \in Procs : pc'[g] = IF g = w THEN "Fill" ELSE pc[g] BY ZenonT(60), <1>4, <1>g
  <2>2. \A v \in Workers : out'[v] = IF v = w THEN o ELSE out[v]
    BY ZenonT(60), <1>4 DEF PoolInv, PoolTypes
  <2>3. Free(o) /\ Others(o) /\ PoolVars /\ val'[o] = Zero /\ pool'[o] = 0 /\ o \in made'
    BY ZenonT(60), <1>4, GetFacts
  <2>4. PoolTypes' BY ZenonT(60), <1>1, <1>4, <2>3 DEF Goto, PoolVars, PoolInv, PoolTypes, Some
  <2>5. Holding' BY ZenonT(60), <1>1, <2>1, <2>2, <2>3, Names DEF Free, PoolInv, Holding
  <2>6. Pooled'
    <3>1. \A x \in Objects \ {o} : Free(x) => Free(x)' BY ZenonT(60), <1>1, <2>2 DEF Free
    <3> QED BY SMTT(60), <2>3, <3>1 DEF PoolInv, Pooled, Others
  <2>7. Alone'
    <3>1. /\ rp \in Objects => \A v \in Workers : out'[v] # rp
          /\ \A i \in 1 .. Len(queue) : \A v \in Workers : out'[v] # queue[i]
      <4>1. rp # o /\ \A i \in 1 .. Len(queue) : queue[i] # o BY ZenonT(60), <2>3 DEF Free
      <4>2. /\ rp \in Objects => \A v \in Workers : out[v] # rp
            /\ \A i \in 1 .. Len(queue) : \A v \in Workers : out[v] # queue[i]
        BY ZenonT(60) DEF PoolInv, Alone
      <4> QED BY ZenonT(60), <2>2, <4>1, <4>2
    <3>2. \A v \in Workers, g \in Procs : out'[v] \in Objects /\ out'[v] = p[g] => g = v
      BY ZenonT(60), <2>2, <2>3 DEF Free, PoolInv, Alone
    <3>3. \A v1, v2 \in Workers : out'[v1] \in Objects /\ out'[v1] = out'[v2] => v1 = v2
      BY ZenonT(60), <2>2, <2>3 DEF Free, PoolInv, Alone
    <3> QED BY ZenonT(60), <1>1, <3>1, <3>2, <3>3 DEF PoolInv, Alone
  <2>8. Filled'
    <3>1. \A x \in Objects : x # o => val'[x] = val[x] /\ pool'[x] = pool[x] BY SMTT(60), <2>3 DEF Others
    <3>2. rp \in Objects => val'[rp] = val[rp] BY ZenonT(60), <2>3, <3>1 DEF Free
    <3>3. \A g \in Procs : p[g] \in Objects => val'[p[g]] = val[p[g]] BY ZenonT(60), <2>3, <3>1 DEF Free
    <3>4. \A v \in Workers : v # w /\ out[v] \in Objects => val'[out[v]] = val[out[v]]
      BY ZenonT(60), <2>3, <3>1 DEF Free
    <3>5. EmptyPool' BY ZenonT(60), <2>3, <3>1 DEF PoolInv, Filled, EmptyPool
    <3>6. pc'[w] = "Fill" /\ val'[p'[w]] = want'[w]
      BY ZenonT(60), <1>1, <2>1, <3>3 DEF PoolInv, Filled, WorkFilled
    <3>7. WorkFilled(w)' BY ZenonT(60), <3>6 DEF WorkFilled
    <3>8. \A g \in Procs : g # w => Same(g) BY ZenonT(60), <1>1, <2>1, <3>3 DEF Same
    <3> QED BY ZenonT(60), <1>1, <2>2, <3>2, <3>4, <3>5, <3>7, <3>8, FilledButOne
  <2> QED BY ZenonT(60), <2>4, <2>5, <2>6, <2>7, <2>8 DEF PoolInv
<1> QED BY ZenonT(60), <1>2, <1>3, <1>4 DEF Handle

\* A handler fills the packet it took for the answer.
LEMMA FillInv ==
  ASSUME PoolInv, NEW w \in Workers, Fill(w)
  PROVE  PoolInv'
<1>1. PICK len \in {0, 1} : val' = [val EXCEPT ![out[w]] = [op |-> "reply", len |-> len, content |-> w]]
  BY ZenonT(60) DEF Fill
<1>2. /\ pc[w] = "Fill" /\ w \in Procs /\ out[w] \in Objects /\ out[w] # p[w]
      /\ UNCHANGED <<made, pool, received, rpc, rp, queue, p, out, want>>
  BY ZenonT(60), Names DEF Fill, PoolInv, Holding
<1>3. \A g \in Procs : pc'[g] = IF g = w THEN "Check" ELSE pc[g]
  BY ZenonT(60) DEF Fill, Goto, PoolInv, PoolTypes
<1>4. PoolTypes'
  <2>1. [op |-> "reply", len |-> len, content |-> w] \in Vals BY ZenonT(60) DEF Vals
  <2> QED BY ZenonT(60), <1>1, <1>2, <2>1 DEF Fill, Goto, PoolInv, PoolTypes
<1>5. Holding' BY ZenonT(60), <1>2, <1>3, Names DEF PoolInv, Holding
<1>6. Pooled' /\ Alone' BY ZenonT(60), <1>2, RefsFewer
<1>7. Filled'
  <2>1. /\ val'[out[w]] = [op |-> "reply", len |-> len, content |-> w]
        /\ \A x \in Objects \ {out[w]} : val'[x] = val[x]
    BY ZenonT(60), <1>1, <1>2 DEF PoolInv, PoolTypes
  <2>2. /\ pool[out[w]] = 0 /\ rp # out[w] /\ \A g \in Procs : p[g] # out[w]
    BY ZenonT(60), <1>2, HeldNotPooled DEF Free, PoolInv, Alone
  <2>3. \A v \in Workers : v # w => out[v] # out[w] BY ZenonT(60), <1>2 DEF PoolInv, Alone
  <2>4. pool[out[w]] # 1 BY SMTT(60), <2>2
  <2>5. EmptyPool' BY ZenonT(60), <1>2, <2>1, <2>4 DEF PoolInv, Filled, EmptyPool
  <2>6. val'[p'[w]] = want'[w]
    <3>1. p[w] \in Objects BY ZenonT(60), <1>2, Names DEF PoolInv, PoolTypes, Holding, Some
    <3> QED BY ZenonT(60), <1>2, <2>1, <3>1 DEF PoolInv, Filled, WorkFilled
  <2>7. pc'[w] = "Check" BY ZenonT(60), <1>2, <1>3
  <2>8. WorkFilled(w)' BY ZenonT(60), <1>2, <2>1, <2>6, <2>7 DEF WorkFilled
  <2>9. \A g \in Procs : g # w => Same(g) BY ZenonT(60), <1>2, <1>3, <2>1, <2>2 DEF Same
  <2> QED BY ZenonT(60), <1>2, <2>1, <2>2, <2>3, <2>5, <2>8, <2>9, FilledButOne
<1> QED BY ZenonT(60), <1>4, <1>5, <1>6, <1>7 DEF PoolInv

\* handleConn looks at what the handler returned.
LEMMA CheckInv ==
  ASSUME PoolInv, NEW w \in Workers, Check(w)
  PROVE  PoolInv'
<1>1. /\ pc[w] = "Check" /\ w \in Procs /\ p[w] \in Objects /\ out[w] \in Objects
      /\ UNCHANGED <<made, pool, val, received, rpc, rp, queue, p, want>>
  BY ZenonT(60), Names DEF Check, PoolInv, PoolTypes, Holding, Some
<1>g. ASSUME NEW l, Goto(w, l) PROVE \A g \in Procs : pc'[g] = IF g = w THEN l ELSE pc[g]
  BY ZenonT(60), <1>g DEF Goto, PoolInv, PoolTypes
<1>2. CASE Whole(val[out[w]]) /\ Goto(w, "Write") /\ UNCHANGED out
  <2>1. \A g \in Procs : pc'[g] = IF g = w THEN "Write" ELSE pc[g] BY ZenonT(60), <1>2, <1>g
  <2>2. PoolTypes' BY ZenonT(60), <1>1, <1>2 DEF Goto, PoolInv, PoolTypes
  <2>3. Holding' BY ZenonT(60), <1>1, <1>2, <2>1, Names DEF PoolInv, Holding
  <2>4. Pooled' /\ Alone' BY ZenonT(60), <1>1, <1>2, RefsFewer
  <2>5. out[w] # p[w] => val[out[w]] = Reply(w)
    <3> SUFFICES ASSUME out[w] # p[w] PROVE val[out[w]] = Reply(w) BY SMTT(60)
    <3>1. PICK len \in {0, 1} : val[out[w]] = [op |-> "reply", len |-> len, content |-> w]
      BY ZenonT(60), <1>1 DEF PoolInv, Filled, WorkFilled
    <3>2. w # 0 BY ZenonT(60), Names
    <3>3. len = 1 BY SMTT(60), <1>2, <3>1, <3>2 DEF Whole
    <3> QED BY ZenonT(60), <3>1, <3>3 DEF Reply
  <2>6. Filled'
    <3>1. EmptyPool' BY ZenonT(60), <1>1 DEF PoolInv, Filled, EmptyPool
    <3>2. pc'[w] = "Write" /\ val'[p'[w]] = want'[w]
      BY ZenonT(60), <1>1, <2>1 DEF PoolInv, Filled, WorkFilled
    <3>3. WorkFilled(w)' BY ZenonT(60), <1>1, <1>2, <2>5, <3>2 DEF WorkFilled, Reply
    <3>4. \A g \in Procs : g # w => Same(g) BY ZenonT(60), <1>1, <2>1 DEF Same
    <3> QED BY ZenonT(60), <1>1, <1>2, <3>1, <3>3, <3>4, FilledButOne
  <2> QED BY ZenonT(60), <2>2, <2>3, <2>4, <2>6 DEF PoolInv
<1>3. CASE out' = [out EXCEPT ![w] = None] /\ Goto(w, "PutIn")
  <2>1. \A g \in Procs : pc'[g] = IF g = w THEN "PutIn" ELSE pc[g] BY ZenonT(60), <1>3, <1>g
  <2>2. \A v \in Workers : out'[v] = IF v = w THEN None ELSE out[v]
    BY ZenonT(60), <1>3 DEF PoolInv, PoolTypes
  <2>3. PoolTypes' BY ZenonT(60), <1>1, <1>3 DEF Goto, PoolInv, PoolTypes, Some
  <2>4. Holding' BY ZenonT(60), <1>1, <2>1, <2>2, Names DEF PoolInv, Holding
  <2>5. Pooled' /\ Alone' BY ZenonT(60), <1>1, <2>2, RefsFewer
  <2>6. Filled'
    <3>1. EmptyPool' BY ZenonT(60), <1>1 DEF PoolInv, Filled, EmptyPool
    <3>2. pc'[w] = "PutIn" /\ val'[p'[w]] = want'[w]
      BY ZenonT(60), <1>1, <2>1 DEF PoolInv, Filled, WorkFilled
    <3>3. WorkFilled(w)' BY ZenonT(60), <3>2 DEF WorkFilled
    <3>4. \A g \in Procs : g # w => Same(g) BY ZenonT(60), <1>1, <2>1 DEF Same
    <3> QED BY ZenonT(60), <1>1, <2>2, <3>1, <3>3, <3>4, FilledButOne
  <2> QED BY ZenonT(60), <2>3, <2>4, <2>5, <2>6 DEF PoolInv
<1> QED BY ZenonT(60), <1>2, <1>3 DEF Check

\* A worker writes its answer.
LEMMA WriteInv ==
  ASSUME PoolInv, NEW w \in Workers, Write(w)
  PROVE  PoolInv'
<1>1. /\ pc[w] = "Write" /\ w \in Procs /\ out[w] \in Objects
      /\ UNCHANGED <<made, pool, val, received, rpc, rp, queue, p, out, want>>
  BY ZenonT(60), Names DEF Write, PoolInv, Holding
<1>2. PICK l \in {"PutOut", "PutIn"} : Goto(w, l) /\ (l = "PutOut" <=> out[w] # p[w])
  BY ZenonT(60) DEF Write
<1>3. \A g \in Procs : pc'[g] = IF g = w THEN l ELSE pc[g]
  BY ZenonT(60), <1>2 DEF Goto, PoolInv, PoolTypes
<1>4. PoolTypes' BY ZenonT(60), <1>1, <1>2 DEF Goto, PoolInv, PoolTypes
<1>5. Holding' BY ZenonT(60), <1>1, <1>2, <1>3, Names DEF PoolInv, Holding
<1>6. Pooled' /\ Alone' BY ZenonT(60), <1>1, RefsFewer
<1>7. Filled'
  <2>1. EmptyPool' BY ZenonT(60), <1>1 DEF PoolInv, Filled, EmptyPool
  <2>2. pc'[w] \in {"PutOut", "PutIn"} /\ val'[p'[w]] = want'[w]
    BY ZenonT(60), <1>1, <1>3 DEF PoolInv, Filled, WorkFilled
  <2>3. WorkFilled(w)' BY ZenonT(60), <2>2 DEF WorkFilled
  <2>4. \A g \in Procs : g # w => Same(g) BY ZenonT(60), <1>1, <1>3 DEF Same
  <2> QED BY ZenonT(60), <1>1, <2>1, <2>3, <2>4, FilledButOne
<1> QED BY ZenonT(60), <1>4, <1>5, <1>6, <1>7 DEF PoolInv

\* A worker puts the answer back.
LEMMA PutOutInv ==
  ASSUME PoolInv, NEW w \in Workers, PutOut(w)
  PROVE  PoolInv'
<1>1. PICK o \in Objects : o = out[w] /\ o # p[w]
  BY ZenonT(60) DEF PutOut, PoolInv, Holding
<1>2. /\ pc[w] = "PutOut" /\ w \in Procs /\ Put(o) /\ out' = [out EXCEPT ![w] = None]
      /\ UNCHANGED <<made, received, rpc, rp, queue, p, want>>
  BY ZenonT(60), <1>1, Names DEF PutOut
<1>3. \A g \in Procs : pc'[g] = IF g = w THEN "PutIn" ELSE pc[g]
  BY ZenonT(60) DEF PutOut, Goto, PoolInv, PoolTypes
<1>4. \A v \in Workers : out'[v] = IF v = w THEN None ELSE out[v]
  BY ZenonT(60), <1>2 DEF PoolInv, PoolTypes
<1>5. /\ rp # o /\ \A i \in 1 .. Len(queue) : queue[i] # o
      /\ \A g \in Procs : p[g] # o
      /\ \A v \in Workers : v # w => out[v] # o
  BY ZenonT(60), <1>1 DEF PoolInv, Alone
<1>6. Others(o) /\ PoolVars /\ val'[o] = Zero /\ pool'[o] = 1 /\ o \in made'
  <2>1. ~Free(o) BY ZenonT(60), <1>1 DEF Free
  <2> QED BY ZenonT(60), <1>2, <2>1, PutFacts
<1>7. PoolTypes' BY ZenonT(60), <1>2, <1>6 DEF PutOut, Goto, PoolVars, PoolInv, PoolTypes, Some
<1>8. Holding' BY ZenonT(60), <1>2, <1>3, <1>4, Names DEF PoolInv, Holding
<1>9. Pooled'
  <2>1. Free(o)' BY ZenonT(60), <1>2, <1>4, <1>5, Names DEF Free
  <2>2. \A x \in Objects \ {o} : Free(x) => Free(x)' BY ZenonT(60), <1>2, <1>4, Names DEF Free
  <2> QED BY SMTT(60), <1>6, <2>1, <2>2 DEF PoolInv, Pooled, Others
<1>10. Alone'
  <2>1. /\ rp \in Objects => \A v \in Workers : out'[v] # rp
        /\ \A i \in 1 .. Len(queue) : \A v \in Workers : out'[v] # queue[i]
    BY SMTT(60), <1>4, Names DEF PoolInv, PoolTypes, Alone
  <2>2. \A v \in Workers, g \in Procs : out'[v] \in Objects /\ out'[v] = p[g] => g = v
    BY ZenonT(60), <1>4, Names DEF PoolInv, Alone
  <2>3. \A v1, v2 \in Workers : out'[v1] \in Objects /\ out'[v1] = out'[v2] => v1 = v2
    BY ZenonT(60), <1>4, Names DEF PoolInv, Alone
  <2> QED BY ZenonT(60), <1>2, <2>1, <2>2, <2>3 DEF PoolInv, Alone
<1>11. Filled'
  <2>1. \A x \in Objects : x # o => val'[x] = val[x] /\ pool'[x] = pool[x] BY SMTT(60), <1>6 DEF Others
  <2>2. rp \in Objects => val'[rp] = val[rp] BY ZenonT(60), <1>5, <2>1
  <2>3. \A g \in Procs : p[g] \in Objects => val'[p[g]] = val[p[g]] BY ZenonT(60), <1>5, <2>1
  <2>4. \A v \in Workers : v # w /\ out[v] \in Objects => val'[out[v]] = val[out[v]]
    BY ZenonT(60), <1>5, <2>1
  <2>5. p[w] \in Objects BY ZenonT(60), <1>2, Names DEF PoolInv, PoolTypes, Holding, Some
  <2>6. EmptyPool' BY ZenonT(60), <1>6, <2>1 DEF PoolInv, Filled, EmptyPool
  <2>7. pc'[w] = "PutIn" /\ val'[p'[w]] = want'[w]
    BY ZenonT(60), <1>2, <1>3, <2>3, <2>5 DEF PoolInv, Filled, WorkFilled
  <2>8. WorkFilled(w)' BY ZenonT(60), <2>7 DEF WorkFilled
  <2>9. \A g \in Procs : g # w => Same(g) BY ZenonT(60), <1>2, <1>3, <2>3 DEF Same
  <2> QED BY ZenonT(60), <1>2, <1>4, <2>2, <2>4, <2>6, <2>8, <2>9, FilledButOne
<1> QED BY ZenonT(60), <1>7, <1>8, <1>9, <1>10, <1>11 DEF PoolInv

\* A goroutine puts the packet it holds as p back, and lets go of it.
LEMMA PutOwn ==
  ASSUME PoolInv, NEW g \in Procs, NEW o \in Objects, o = p[g], Put(o), p' = [p EXCEPT ![g] = None],
         g \in Workers => out[g] \in {None, o} /\ out' = [out EXCEPT ![g] = None],
         g \notin Workers => UNCHANGED out, UNCHANGED <<made, rpc, rp, queue>>
  PROVE  /\ Pooled' /\ Alone' /\ Others(o) /\ PoolVars /\ val'[o] = Zero
         /\ \A x \in Objects : x # o => val'[x] = val[x]
         /\ rp # o /\ \A k \in Procs : k # g => p[k] # o
         /\ \A v \in Workers : v # g => out[v] # o
<1>1. \A k \in Procs : p'[k] = IF k = g THEN None ELSE p[k] BY ZenonT(60) DEF PoolInv, PoolTypes
<1>2. \A v \in Workers : out'[v] = IF v = g THEN None ELSE out[v] BY ZenonT(60) DEF PoolInv, PoolTypes
<1>3. /\ rp # o /\ \A i \in 1 .. Len(queue) : queue[i] # o
      /\ \A k \in Procs : k # g => p[k] # o
      /\ \A v \in Workers : v # g => out[v] # o
  BY ZenonT(60) DEF PoolInv, Alone
<1>4. Others(o) /\ PoolVars /\ val'[o] = Zero /\ pool'[o] = 1 /\ o \in made'
  <2>1. ~Free(o) BY ZenonT(60) DEF Free
  <2> QED BY ZenonT(60), <2>1, PutFacts
<1>5. Pooled'
  <2>1. Free(o)' BY ZenonT(60), <1>1, <1>2, <1>3, Names DEF Free
  <2>2. ASSUME NEW x \in Objects, Free(x) PROVE Free(x)'
    <3>1. rp # x /\ \A i \in 1 .. Len(queue) : queue[i] # x BY ZenonT(60), <2>2 DEF Free
    <3>2. \A k \in Procs : p'[k] # x BY ZenonT(60), <1>1, <2>2, Names DEF Free
    <3>3. \A v \in Workers : out'[v] # x BY ZenonT(60), <1>2, <2>2, Names DEF Free
    <3> QED BY ZenonT(60), <3>1, <3>2, <3>3 DEF Free
  <2>3. \A x \in Objects : x # o => pool'[x] = pool[x] /\ (x \in made' <=> x \in made)
    BY ZenonT(60), <1>4 DEF Others
  <2>4. pool'[o] <= 1 BY SMTT(60), <1>4
  <2> QED BY ZenonT(60), <1>4, <2>1, <2>2, <2>3, <2>4 DEF PoolInv, Pooled
<1>6. Alone'
  <2>0. \A i \in 1 .. Len(queue) : queue[i] # None BY SMTT(60), Names DEF PoolInv, PoolTypes
  <2>1. rp \in Objects => /\ \A k \in Procs : p'[k] # rp
                          /\ \A v \in Workers : out'[v] # rp
    BY SMTT(60), <1>1, <1>2, Names DEF PoolInv, Alone
  <2>2. /\ \A i \in 1 .. Len(queue) : \A k \in Procs : p'[k] # queue[i]
        /\ \A i \in 1 .. Len(queue) : \A v \in Workers : out'[v] # queue[i]
    BY SMTT(60), <1>1, <1>2, <2>0 DEF PoolInv, Alone
  <2>p. /\ \A k1, k2 \in Procs : p[k1] \in Objects /\ p[k1] = p[k2] => k1 = k2
        /\ \A v \in Workers, k \in Procs : out[v] \in Objects /\ out[v] = p[k] => k = v
        /\ \A v1, v2 \in Workers : out[v1] \in Objects /\ out[v1] = out[v2] => v1 = v2
    BY ZenonT(60) DEF PoolInv, Alone
  <2>3. ASSUME NEW k1 \in Procs, NEW k2 \in Procs, p'[k1] \in Objects, p'[k1] = p'[k2]
        PROVE  k1 = k2
    <3>1. p'[k1] = p[k1] /\ p'[k2] = p[k2] BY ZenonT(60), <1>1, <2>3, Names
    <3> QED BY ZenonT(60), <2>3, <2>p, <3>1
  <2>4. ASSUME NEW v \in Workers, NEW k \in Procs, out'[v] \in Objects, out'[v] = p'[k]
        PROVE  k = v
    <3>1. out'[v] = out[v] /\ p'[k] = p[k] BY ZenonT(60), <1>1, <1>2, <2>4, Names
    <3> QED BY ZenonT(60), <2>4, <2>p, <3>1
  <2>5. ASSUME NEW v1 \in Workers, NEW v2 \in Workers, out'[v1] \in Objects, out'[v1] = out'[v2]
        PROVE  v1 = v2
    <3>1. out'[v1] = out[v1] /\ out'[v2] = out[v2] BY ZenonT(60), <1>2, <2>5, Names
    <3> QED BY ZenonT(60), <2>5, <2>p, <3>1
  <2>q. \A i, j \in 1 .. Len(queue) : queue[i] = queue[j] => i = j BY ZenonT(60) DEF PoolInv, Alone
  <2>r. rp \in Objects => \A i \in 1 .. Len(queue) : queue[i] # rp BY ZenonT(60) DEF PoolInv, Alone
  <2>e. rp' = rp /\ queue' = queue BY SMTT(60)
  <2>6. \A k1, k2 \in Procs : p'[k1] \in Objects /\ p'[k1] = p'[k2] => k1 = k2 BY ZenonT(60), <2>3
  <2>7. \A v \in Workers, k \in Procs : out'[v] \in Objects /\ out'[v] = p'[k] => k = v
    BY ZenonT(60), <2>4
  <2>8. \A v1, v2 \in Workers : out'[v1] \in Objects /\ out'[v1] = out'[v2] => v1 = v2 BY ZenonT(60), <2>5
  <2> QED BY ZenonT(60), <2>1, <2>2, <2>6, <2>7, <2>8, <2>q, <2>r, <2>e DEF Alone
<1>7. \A x \in Objects : x # o => val'[x] = val[x] BY SMTT(60), <1>4 DEF Others
<1> QED BY ZenonT(60), <1>3, <1>4, <1>5, <1>6, <1>7

\* A worker puts the packet it received back.
LEMMA PutInInv ==
  ASSUME PoolInv, NEW w \in Workers, PutIn(w)
  PROVE  PoolInv'
<1>1. PICK o \in Objects : o = p[w] BY ZenonT(60), Names DEF PutIn, PoolInv, PoolTypes, Holding, Some
<1>2. /\ pc[w] = "PutIn" /\ w \in Procs /\ Put(o) /\ p' = [p EXCEPT ![w] = None]
      /\ out' = [out EXCEPT ![w] = None] /\ out[w] \in {None, o}
      /\ UNCHANGED <<made, received, rpc, rp, queue, want>>
  BY ZenonT(60), <1>1, Names DEF PutIn, PoolInv, Holding
<1>3. /\ Pooled' /\ Alone' /\ Others(o) /\ PoolVars /\ val'[o] = Zero
      /\ \A x \in Objects : x # o => val'[x] = val[x]
      /\ rp # o /\ \A k \in Procs : k # w => p[k] # o
      /\ \A v \in Workers : v # w => out[v] # o
  BY ZenonT(60), <1>1, <1>2, PutOwn
<1>4. \A g \in Procs : /\ pc'[g] = (IF g = w THEN "Idle" ELSE pc[g])
                       /\ p'[g] = (IF g = w THEN None ELSE p[g])
  BY ZenonT(60), <1>2 DEF PutIn, Goto, PoolInv, PoolTypes
<1>5. \A v \in Workers : out'[v] = IF v = w THEN None ELSE out[v]
  BY ZenonT(60), <1>2 DEF PoolInv, PoolTypes
<1>6. PoolTypes' BY ZenonT(60), <1>2, <1>3 DEF PutIn, Goto, PoolVars, PoolInv, PoolTypes, Some
<1>7. Holding' BY SMTT(60), <1>2, <1>4, <1>5, Names DEF PoolInv, Holding
<1>8. Filled'
  <2>1. \A x \in Objects : x # o => pool'[x] = pool[x] BY ZenonT(60), <1>3 DEF Others
  <2>2. rp \in Objects => val'[rp] = val[rp] BY ZenonT(60), <1>3
  <2>3. \A g \in Procs : g # w /\ p[g] \in Objects => val'[p[g]] = val[p[g]] BY ZenonT(60), <1>3
  <2>4. \A v \in Workers : v # w /\ out[v] \in Objects => val'[out[v]] = val[out[v]] BY ZenonT(60), <1>3
  <2>5. EmptyPool' BY ZenonT(60), <1>3, <2>1 DEF PoolInv, Filled, EmptyPool
  <2>6. WorkFilled(w)'
    <3>1. pc'[w] = "Idle" BY ZenonT(60), <1>2, <1>4
    <3> QED BY ZenonT(60), <3>1 DEF WorkFilled
  <2>7. \A g \in Procs : g # w => Same(g) BY ZenonT(60), <1>2, <1>4, <2>3 DEF Same
  <2> QED BY ZenonT(60), <1>2, <1>5, <2>2, <2>4, <2>5, <2>6, <2>7, FilledButOne
<1> QED BY ZenonT(60), <1>3, <1>6, <1>7, <1>8 DEF PoolInv

-----------------------------------------------------------------------------
\* A stream that closes takes a packet for its closing frame.
LEMMA CloseGetInv ==
  ASSUME PoolInv, NEW g \in Closers, CloseGet(g)
  PROVE  PoolInv'
<1>1. PICK o \in Objects : Get(o) /\ p' = [p EXCEPT ![g] = o] BY ZenonT(60) DEF CloseGet
<1>2. /\ pc[g] = "Idle" /\ g \in Procs /\ g \notin Workers /\ p[g] \notin Objects
      /\ UNCHANGED <<received, rpc, rp, queue, out>>
  BY ZenonT(60), Names DEF CloseGet, PoolInv, Holding
<1>3. \A k \in Procs : /\ pc'[k] = (IF k = g THEN "Header" ELSE pc[k])
                       /\ p'[k] = (IF k = g THEN o ELSE p[k])
                       /\ want'[k] = (IF k = g THEN Closing ELSE want[k])
  BY ZenonT(60), <1>1, <1>2 DEF CloseGet, Goto, PoolInv, PoolTypes
<1>4. Free(o) /\ Others(o) /\ PoolVars /\ val'[o] = Zero /\ pool'[o] = 0 /\ o \in made'
  BY ZenonT(60), <1>1, GetFacts
<1>5. PoolTypes'
  <2>1. pc' \in [Procs -> {"Idle", "Handle", "Fill", "Check", "Write", "PutOut", "PutIn", "Header", "Done"}]
    BY ZenonT(60) DEF CloseGet, Goto, PoolInv, PoolTypes
  <2>2. p' \in [Procs -> Some] /\ want' \in [Procs -> Vals]
    BY ZenonT(60), <1>1, Names DEF CloseGet, PoolInv, PoolTypes, Some
  <2> QED BY ZenonT(60), <1>2, <1>4, <2>1, <2>2 DEF PoolVars, PoolInv, PoolTypes
<1>6. Holding' BY ZenonT(60), <1>2, <1>3, Names DEF PoolInv, Holding
<1>7. Pooled'
  <2>1. \A x \in Objects \ {o} : Free(x) => Free(x)' BY ZenonT(60), <1>2, <1>3 DEF Free
  <2>2. pool'[o] <= 1 BY SMTT(60), <1>4
  <2>3. ASSUME NEW x \in Objects
        PROVE  pool'[x] <= 1 /\ (pool'[x] = 1 \/ x \notin made' => Free(x)') /\ (x \notin made' => pool'[x] = 0)
    <3>1. CASE x = o
      <4>1. pool'[o] # 1 BY SMTT(60), <1>4
      <4> QED BY ZenonT(60), <1>4, <2>2, <3>1, <4>1
    <3>2. CASE x # o
      <4>1. pool'[x] = pool[x] /\ (x \in made' <=> x \in made) BY ZenonT(60), <1>4, <3>2 DEF Others
      <4> QED BY ZenonT(60), <2>1, <3>2, <4>1 DEF PoolInv, Pooled
    <3> QED BY ZenonT(60), <3>1, <3>2
  <2> QED BY ZenonT(60), <2>3 DEF Pooled
<1>8. Alone'
  <2>1. rp \in Objects => \A k \in Procs : p'[k] # rp BY ZenonT(60), <1>3, <1>4 DEF Free, PoolInv, Alone
  <2>f. /\ \A i \in 1 .. Len(queue) : queue[i] # o
        /\ \A k \in Procs : p[k] # o
        /\ \A v \in Workers : out[v] # o
    BY ZenonT(60), <1>4 DEF Free
  <2>2. ASSUME NEW i \in 1 .. Len(queue), NEW k \in Procs
        PROVE  p'[k] # queue[i]
    <3>1. p[k] # queue[i] BY ZenonT(60) DEF PoolInv, Alone
    <3> QED BY ZenonT(60), <1>3, <2>f, <3>1
  <2>3. ASSUME NEW k1 \in Procs, NEW k2 \in Procs, p'[k1] \in Objects, p'[k1] = p'[k2]
        PROVE  k1 = k2
    <3>1. \A a, b \in Procs : p[a] \in Objects /\ p[a] = p[b] => a = b BY ZenonT(60) DEF PoolInv, Alone
    <3>2. \A a \in Procs : p'[a] = o => a = g BY ZenonT(60), <1>3, <2>f
    <3>3. CASE p'[k1] = o BY ZenonT(60), <2>3, <3>2, <3>3
    <3>4. CASE p'[k1] # o
      <4>1. p'[k1] = p[k1] /\ p'[k2] = p[k2] BY ZenonT(60), <1>3, <2>3, <3>4
      <4> QED BY ZenonT(60), <2>3, <3>1, <4>1
    <3> QED BY ZenonT(60), <3>3, <3>4
  <2>4. ASSUME NEW v \in Workers, NEW k \in Procs, out[v] \in Objects, out[v] = p'[k]
        PROVE  k = v
    <3>1. p'[k] = p[k] BY ZenonT(60), <1>3, <2>f, <2>4
    <3> QED BY ZenonT(60), <2>4, <3>1 DEF PoolInv, Alone
  <2> QED BY ZenonT(60), <1>2, <2>1, <2>2, <2>3, <2>4 DEF PoolInv, Alone
<1>9. Filled'
  <2>1. \A x \in Objects : x # o => val'[x] = val[x] /\ pool'[x] = pool[x] BY ZenonT(60), <1>4 DEF Others
  <2>2. rp \in Objects => val'[rp] = val[rp] BY ZenonT(60), <1>4, <2>1 DEF Free
  <2>3. \A k \in Procs : k # g /\ p[k] \in Objects => val'[p[k]] = val[p[k]]
    BY ZenonT(60), <1>4, <2>1 DEF Free
  <2>4. \A v \in Workers : out[v] \in Objects => val'[out[v]] = val[out[v]]
    BY ZenonT(60), <1>4, <2>1 DEF Free
  <2>5. EmptyPool' BY ZenonT(60), <1>4, <2>1 DEF PoolInv, Filled, EmptyPool
  <2>6. ReadFilled' BY ZenonT(60), <1>2, <2>2, FilledKept
  <2>7. \A k \in Procs : k # g => Same(k) BY ZenonT(60), <1>2, <1>3, <2>3 DEF Same
  <2>8. \A v \in Workers : WorkFilled(v)' BY ZenonT(60), <1>2, <2>4, <2>7, Names, FilledKept
  <2>9. CloseFilled(g)'
    <3>1. pc'[g] = "Header" /\ val'[p'[g]] = Zero /\ want'[g] = Closing BY ZenonT(60), <1>2, <1>3, <1>4
    <3> QED BY ZenonT(60), <3>1 DEF CloseFilled
  <2>10. \A k \in Closers : CloseFilled(k)' BY ZenonT(60), <2>7, <2>9, Names, FilledKept
  <2> QED BY ZenonT(60), <2>5, <2>6, <2>8, <2>10 DEF Filled
<1> QED BY ZenonT(60), <1>5, <1>6, <1>7, <1>8, <1>9 DEF PoolInv

\* A stream that closes fills its closing frame.
LEMMA CloseHeaderInv ==
  ASSUME PoolInv, NEW g \in Closers, CloseHeader(g)
  PROVE  PoolInv'
<1>1. PICK o \in Objects : o = p[g] /\ val[o] = Zero /\ want[g] = Closing
  BY SMTT(60) DEF CloseHeader, PoolInv, Holding, Filled, CloseFilled
<1>2. /\ pc[g] = "Header" /\ g \in Procs /\ g \notin Workers
      /\ UNCHANGED <<made, pool, received, rpc, rp, queue, p, out, want>>
  BY ZenonT(60), Names DEF CloseHeader
<1>3. \A k \in Procs : pc'[k] = IF k = g THEN "Write" ELSE pc[k]
  BY ZenonT(60) DEF CloseHeader, Goto, PoolInv, PoolTypes
<1>4. val' = [val EXCEPT ![o] = Closing]
  BY SMTT(60), <1>1 DEF CloseHeader, PoolInv, PoolTypes, Zero, Closing
<1>5. PoolTypes'
  <2>1. pc' \in [Procs -> {"Idle", "Handle", "Fill", "Check", "Write", "PutOut", "PutIn", "Header", "Done"}]
    BY ZenonT(60) DEF CloseHeader, Goto, PoolInv, PoolTypes
  <2>2. val' \in [Objects -> Vals] BY ZenonT(60), <1>4, Names DEF PoolInv, PoolTypes
  <2> QED BY ZenonT(60), <1>2, <2>1, <2>2 DEF PoolInv, PoolTypes
<1>6. Holding' BY ZenonT(60), <1>2, <1>3, Names DEF PoolInv, Holding
<1>7. Pooled' /\ Alone' BY ZenonT(60), <1>2, RefsFewer
<1>8. Filled'
  <2>1. val'[o] = Closing /\ \A x \in Objects : x # o => val'[x] = val[x]
    BY ZenonT(60), <1>4 DEF PoolInv, PoolTypes
  <2>2. pool[o] = 0 /\ rp # o /\ \A k \in Procs : k # g => p[k] # o
    BY ZenonT(60), <1>1, <1>2, HeldNotPooled DEF Free, PoolInv, Alone
  <2>3. \A v \in Workers : out[v] # o BY ZenonT(60), <1>1, <1>2 DEF PoolInv, Alone
  <2>4. pool[o] # 1 BY SMTT(60), <2>2
  <2>5. EmptyPool' BY ZenonT(60), <1>2, <2>1, <2>4 DEF PoolInv, Filled, EmptyPool
  <2>6. ReadFilled' BY ZenonT(60), <1>2, <2>1, <2>2, FilledKept
  <2>7. \A k \in Procs : k # g => Same(k) BY ZenonT(60), <1>2, <1>3, <2>1, <2>2 DEF Same
  <2>8. \A v \in Workers : WorkFilled(v)' BY ZenonT(60), <1>2, <2>1, <2>3, <2>7, Names, FilledKept
  <2>9. CloseFilled(g)'
    <3>1. pc'[g] = "Write" /\ val'[p'[g]] = Closing /\ want'[g] = Closing
      BY ZenonT(60), <1>1, <1>2, <1>3, <2>1
    <3> QED BY ZenonT(60), <3>1 DEF CloseFilled
  <2>10. \A k \in Closers : CloseFilled(k)' BY ZenonT(60), <2>7, <2>9, Names, FilledKept
  <2> QED BY ZenonT(60), <2>5, <2>6, <2>8, <2>10 DEF Filled
<1> QED BY ZenonT(60), <1>5, <1>6, <1>7, <1>8 DEF PoolInv

\* A stream that closes writes its frame and puts the packet back.
LEMMA ClosePutInv ==
  ASSUME PoolInv, NEW g \in Closers, ClosePut(g)
  PROVE  PoolInv'
<1>1. PICK o \in Objects : o = p[g] BY ZenonT(60) DEF ClosePut, PoolInv, Holding
<1>2. /\ pc[g] = "Write" /\ g \in Procs /\ g \notin Workers /\ Put(o) /\ p' = [p EXCEPT ![g] = None]
      /\ UNCHANGED <<made, received, rpc, rp, queue, out, want>>
  BY ZenonT(60), <1>1, Names DEF ClosePut
<1>3. /\ Pooled' /\ Alone' /\ Others(o) /\ PoolVars /\ val'[o] = Zero
      /\ \A x \in Objects : x # o => val'[x] = val[x]
      /\ rp # o /\ \A k \in Procs : k # g => p[k] # o
      /\ \A v \in Workers : v # g => out[v] # o
  BY ZenonT(60), <1>1, <1>2, PutOwn
<1>4. \A k \in Procs : /\ pc'[k] = (IF k = g THEN "Done" ELSE pc[k])
                       /\ p'[k] = (IF k = g THEN None ELSE p[k])
  BY ZenonT(60), <1>2 DEF ClosePut, Goto, PoolInv, PoolTypes
<1>5. PoolTypes' BY ZenonT(60), <1>2, <1>3 DEF ClosePut, Goto, PoolVars, PoolInv, PoolTypes, Some
<1>6. Holding' BY ZenonT(60), <1>2, <1>4, Names DEF PoolInv, Holding
<1>7. Filled'
  <2>1. \A x \in Objects : x # o => pool'[x] = pool[x] BY ZenonT(60), <1>3 DEF Others
  <2>2. rp \in Objects => val'[rp] = val[rp] BY ZenonT(60), <1>3
  <2>3. \A k \in Procs : k # g /\ p[k] \in Objects => val'[p[k]] = val[p[k]] BY ZenonT(60), <1>3
  <2>4. \A v \in Workers : out[v] \in Objects => val'[out[v]] = val[out[v]] BY ZenonT(60), <1>2, <1>3
  <2>5. EmptyPool' BY ZenonT(60), <1>3, <2>1 DEF PoolInv, Filled, EmptyPool
  <2>6. ReadFilled' BY ZenonT(60), <1>2, <2>2, FilledKept
  <2>7. \A k \in Procs : k # g => Same(k) BY ZenonT(60), <1>2, <1>4, <2>3 DEF Same
  <2>8. \A v \in Workers : WorkFilled(v)' BY ZenonT(60), <1>2, <2>4, <2>7, Names, FilledKept
  <2>9. CloseFilled(g)'
    <3>1. pc'[g] = "Done" BY ZenonT(60), <1>2, <1>4
    <3> QED BY ZenonT(60), <3>1 DEF CloseFilled
  <2>10. \A k \in Closers : CloseFilled(k)' BY ZenonT(60), <2>7, <2>9, Names, FilledKept
  <2> QED BY ZenonT(60), <2>5, <2>6, <2>8, <2>10 DEF Filled
<1> QED BY ZenonT(60), <1>3, <1>5, <1>6, <1>7 DEF PoolInv

-----------------------------------------------------------------------------
\* At first nobody has a packet.
LEMMA PoolInitInv ==
  ASSUME Init
  PROVE  PoolInv
<1>0. /\ rp = None /\ \A g \in Procs : p[g] = None
      /\ \A w \in Workers : out[w] = None
  BY ZenonT(60) DEF Init, Procs
<1>q. \A i \in 1 .. Len(queue) : FALSE
  <2>1. 1 .. Len(<<>>) = {} BY SMTT(60), EmptySeq
  <2> QED BY ZenonT(60), <2>1 DEF Init
<1>1. PoolTypes BY SMTT(60), Names DEF Init, PoolTypes, Some, Procs
<1>2. Holding BY ZenonT(60), Names DEF Init, Holding, Procs
<1>3. Pooled
  <2>1. \A o \in Objects : Free(o) BY ZenonT(60), <1>0, <1>q, Names DEF Free
  <2>2. \A o \in Objects : pool[o] = 0 BY ZenonT(60) DEF Init
  <2>3. 0 <= 1 BY SMTT(60)
  <2> QED BY ZenonT(60), <2>1, <2>2, <2>3 DEF Pooled
<1>4. Alone
  <2>1. /\ rp \notin Objects /\ \A g \in Procs : p[g] \notin Objects
        /\ \A w \in Workers : out[w] \notin Objects
    BY ZenonT(60), <1>0, Names
  <2> QED BY ZenonT(60), <1>q, <2>1 DEF Alone
<1>5. Filled BY Zenon, Names DEF Init, Filled, EmptyPool, ReadFilled, WorkFilled, CloseFilled, Procs
<1> QED BY Zenon, <1>1, <1>2, <1>3, <1>4, <1>5 DEF PoolInv

\* Every step keeps the invariant.
LEMMA PoolNextInv ==
  ASSUME PoolInv, [Next]_vars
  PROVE  PoolInv'
<1>1. CASE UNCHANGED vars
  <2>1. PoolTypes' /\ Holding' BY ZenonT(60), <1>1 DEF vars, PoolInv, PoolTypes, Holding
  <2>2. Pooled' /\ Alone' BY ZenonT(60), <1>1 DEF vars, PoolInv, Pooled, Free, Alone
  <2>3. Filled'
    BY SMTT(60), <1>1 DEF vars, PoolInv, Filled, EmptyPool, ReadFilled, WorkFilled, CloseFilled
  <2> QED BY ZenonT(60), <2>1, <2>2, <2>3 DEF PoolInv
<1> QED BY ZenonT(60), <1>1, ReadGetInv, ReadHeaderInv, ReadContentInv, ReadDispatchInv, TakeInv,
    HandleInv, FillInv, CheckInv, WriteInv, PutOutInv, PutInInv, CloseGetInv, CloseHeaderInv,
    ClosePutInv DEF Next

\* The inductive invariant: who has which packet, and what is in it.
THEOREM PoolInvariant == Spec => []PoolInv
<1>1. Init => PoolInv BY ZenonT(60), PoolInitInv
<1>2. PoolInv /\ [Next]_vars => PoolInv' BY ZenonT(60), PoolNextInv
<1> QED BY PTL, <1>1, <1>2 DEF Spec

\* The references that Owners collects.
LEMMA OwnersAre ==
  ASSUME NEW o \in Objects, NEW x \in Owners(o), PoolInv
  PROVE  \/ x = <<"pool", 1>> /\ pool[o] = 1
         \/ x = <<"readLoop">> /\ rp = o
         \/ \E i \in 1 .. Len(queue) : x = <<"queue", i>> /\ queue[i] = o
         \/ \E g \in Procs : x = <<"p", g>> /\ p[g] = o
         \/ \E w \in Workers : x = <<"out", w>> /\ out[w] = o /\ p[w] # o
<1>1. ASSUME NEW i \in 1 .. pool[o] PROVE i = 1 /\ pool[o] = 1
  BY SMTT(60) DEF PoolInv, PoolTypes, Pooled
<1> QED BY ZenonT(60), <1>1 DEF Owners, Procs

\* A packet with one place has one owner.
LEMMA OwnersAlone ==
  ASSUME PoolInv
  PROVE  OneOwner
<1> SUFFICES ASSUME NEW o \in Objects, NEW x \in Owners(o), NEW y \in Owners(o) PROVE x = y
  BY ZenonT(60) DEF OneOwner
<1> DEFINE Is(z) == \/ z = <<"pool", 1>> /\ pool[o] = 1
                    \/ z = <<"readLoop">> /\ rp = o
                    \/ \E i \in 1 .. Len(queue) : z = <<"queue", i>> /\ queue[i] = o
                    \/ \E g \in Procs : z = <<"p", g>> /\ p[g] = o
                    \/ \E w \in Workers : z = <<"out", w>> /\ out[w] = o /\ p[w] # o
<1>1. Is(x) /\ Is(y) BY ZenonT(60), OwnersAre
<1>2. CASE pool[o] = 1
  <2>1. Free(o) BY ZenonT(60), <1>2 DEF PoolInv, Pooled
  <2>2. ASSUME NEW z, Is(z) PROVE z = <<"pool", 1>> BY ZenonT(60), <2>1, <2>2 DEF Free
  <2> QED BY ZenonT(60), <1>1, <2>2
<1>3. CASE pool[o] # 1 /\ rp = o
  <2>1. ASSUME NEW z, Is(z) PROVE z = <<"readLoop">>
    <3>1. /\ \A i \in 1 .. Len(queue) : queue[i] # o
          /\ \A g \in Procs : p[g] # o
          /\ \A w \in Workers : out[w] # o
      BY ZenonT(60), <1>3 DEF PoolInv, Alone
    <3> QED BY ZenonT(60), <1>3, <2>1, <3>1
  <2> QED BY ZenonT(60), <1>1, <2>1
<1>4. ASSUME pool[o] # 1, rp # o, NEW i \in 1 .. Len(queue), queue[i] = o PROVE x = y
  <2>1. /\ \A j \in 1 .. Len(queue) : queue[j] = o => j = i
        /\ \A g \in Procs : p[g] # o
        /\ \A w \in Workers : out[w] # o
    BY ZenonT(60), <1>4 DEF PoolInv, Alone
  <2>2. ASSUME NEW z, Is(z) PROVE z = <<"queue", i>> BY ZenonT(60), <1>4, <2>1, <2>2
  <2> QED BY ZenonT(60), <1>1, <2>2
<1>5. ASSUME pool[o] # 1, rp # o, \A i \in 1 .. Len(queue) : queue[i] # o, NEW g \in Procs, p[g] = o
      PROVE  x = y
  <2>1. /\ \A k \in Procs : p[k] = o => k = g
        /\ \A w \in Workers : ~(out[w] = o /\ p[w] # o)
    BY ZenonT(60), <1>5 DEF PoolInv, Alone
  <2>2. ASSUME NEW z, Is(z) PROVE z = <<"p", g>> BY ZenonT(60), <1>5, <2>1, <2>2
  <2> QED BY ZenonT(60), <1>1, <2>2
<1>6. CASE /\ pool[o] # 1 /\ rp # o /\ \A i \in 1 .. Len(queue) : queue[i] # o
           /\ \A g \in Procs : p[g] # o
  <2>1. PICK w \in Workers : x = <<"out", w>> /\ out[w] = o BY ZenonT(60), <1>1, <1>6
  <2>2. PICK v \in Workers : y = <<"out", v>> /\ out[v] = o BY ZenonT(60), <1>1, <1>6
  <2>3. v = w BY ZenonT(60), <2>1, <2>2 DEF PoolInv, Alone
  <2> QED BY ZenonT(60), <2>1, <2>2, <2>3
<1> QED BY ZenonT(60), <1>2, <1>3, <1>4, <1>5, <1>6

\* However many handlers, readers and closing streams there are, no packet is put back
\* while somebody has it or twice, and none is given to two goroutines (server.go:247-276,
\* client.go:200-226, stream.go:107-111).
THEOREM PoolOneOwner == Spec => []OneOwner
<1>1. PoolInv => OneOwner BY ZenonT(60), OwnersAlone
<1> QED BY PTL, PoolInvariant, <1>1

\* Nobody resets or fills a packet that another goroutine works on or writes, and what is
\* taken from the pool is empty (async.go:521-602).
THEOREM PoolPacketIntact == Spec => []PacketIntact
<1>1. ASSUME PoolInv PROVE PacketIntact
  <2>1. \A w \in Workers : pc[w] \in {"Handle", "Fill", "Check", "Write", "PutOut", "PutIn"}
          => val[p[w]] = want[w]
    BY ZenonT(60), <1>1 DEF PoolInv, Filled, EmptyPool, ReadFilled, WorkFilled, CloseFilled
  <2>2. \A w \in Workers : (pc[w] = "Write" /\ out[w] # p[w]) => val[out[w]] = Reply(w)
    BY ZenonT(60), <1>1 DEF PoolInv, Filled, EmptyPool, ReadFilled, WorkFilled, CloseFilled
  <2>3. \A g \in Closers : pc[g] = "Write" => val[p[g]] = want[g]
    BY ZenonT(60), <1>1 DEF PoolInv, Filled, CloseFilled
  <2>4. rp # None => val[rp].content # Mixed
    BY SMTT(60), <1>1 DEF PoolInv, PoolTypes, Holding, Filled, ReadFilled, Some, Zero, Mixed
  <2> QED BY ZenonT(60), <2>1, <2>2, <2>3, <2>4 DEF PacketIntact
<1> QED BY PTL, PoolInvariant, <1>1
====
