-------------------------- MODULE FrameReaderProofs -------------------------
(***************************************************************************)
(* readLoop decodes the packets sent for every size of header, buffer and  *)
(* content and every way Read may cut the stream. The inductive invariant  *)
(* says which bytes of the stream each part of buf holds at each label.    *)
(***************************************************************************)
EXTENDS FrameReaderProps, SequenceTheorems, TLAPS

\* Positions of the packets, and what p.Content may hold.
Layout ==
  /\ start \in [1 .. Packets + 1 -> Nat] /\ start[1] = 0
  /\ \A j, k \in 1 .. Packets + 1 : j < k => start[j] + HSize <= start[k]
Contents == UNION {[0 .. m - 1 -> Nat] : m \in Nat}

Types ==
  /\ cap \in Nat /\ cap >= HSize /\ buf \in [0 .. cap - 1 -> Nat]
  /\ index \in Nat /\ n \in Nat /\ need \in Nat /\ rd \in Nat /\ rd <= Total
  /\ copied \in Nat /\ content \in [0 .. copied - 1 -> Nat]
  /\ got \in Seq(Contents) /\ cur \in Nat /\ pc \in Labels

\* buf[from:upto] holds the bytes after position p.
Window(from, upto, p) == \A i \in from .. upto - 1 : buf[i] = p + 1 + (i - from)

\* buf[from:upto] holds the last bytes read, from the first byte of the next packet on.
AtPacket(from, upto) ==
  /\ from <= upto /\ upto <= cap /\ rd = start[Len(got) + 1] + (upto - from)
  /\ Window(from, upto, start[Len(got) + 1])

\* The current packet is the one after those decoded, and p.Content the beginning of
\* its content.
InPacket ==
  /\ cur = Len(got) + 1 /\ cur \in 1 .. Packets
  /\ \A i \in 0 .. copied - 1 : content[i] = start[cur] + HSize + 1 + i

\* buf[from:upto] holds the last bytes read, from the first byte that p.Content lacks on.
AtContent(from, upto) ==
  /\ from <= upto /\ upto <= cap /\ rd = start[cur] + HSize + copied + (upto - from)
  /\ Window(from, upto, start[cur] + HSize + copied)

\* What the buffer holds at each label.
Where ==
  /\ pc = "Fill" => AtPacket(0, n) /\ index = 0 /\ need = HSize /\ n < need
  /\ pc = "Refill" => AtPacket(0, index + n) /\ need + index = HSize /\ n < need
  /\ pc = "Refilled" => AtPacket(0, index + n) /\ index + n >= HSize
  /\ pc = "Decode" => AtPacket(index, n) /\ n - index >= HSize
  /\ pc = "Content" => InPacket /\ copied = 0 /\ AtContent(index, n)
  /\ pc \in {"Body", "Copy"} =>
       /\ InPacket /\ AtContent(0, n) /\ need <= cap /\ need > 0
       /\ copied + need = ContentLength(cur)
  /\ pc = "Body" => n < need
  /\ pc = "Copy" => n >= need
  /\ pc = "Next" => AtPacket(index, n)
  /\ pc = "Failed" => n <= cap

IInv == Layout /\ Types /\ FramesExact /\ Aligned /\ Where

\* Nothing of the stream is decoded at the start.
LEMMA FramesInit == Init => IInv
<1> SUFFICES ASSUME Init PROVE IInv
  BY SMTT(60)
<1>1. Layout BY SMTT(60), SizesAssumption DEF Init, Layout
<1>2. got \in Seq(Contents) /\ Len(got) = 0 BY SMTT(60), EmptySeq DEF Init
<1>3. Types
  <2>1. Total >= 0 BY SMTT(60), <1>1, SizesAssumption DEF Layout, Total
  <2>2. content \in [0 .. copied - 1 -> Nat] BY SMTT(60) DEF Init, Empty
  <2> QED BY SMTT(60), <1>2, <2>1, <2>2, SizesAssumption DEF Init, Types, Labels, Reading
<1>4. FramesExact /\ Aligned BY SMTT(60), <1>2, SizesAssumption DEF Init, FramesExact, Aligned
<1>5. Where
  BY SMTT(60), <1>1, <1>2, <1>3, SizesAssumption DEF Init, Where, AtPacket, Window, Layout, Types
<1> QED BY SMTT(60), <1>1, <1>3, <1>4, <1>5 DEF IInv

\* The next packet has a position.
LEMMA NextStart ==
  ASSUME Layout, Types, FramesExact
  PROVE  /\ Len(got) \in Nat /\ Len(got) <= Packets
         /\ start[Len(got) + 1] \in Nat /\ \A k \in 1 .. Packets + 1 : start[k] \in Nat
<1>1. Len(got) \in Nat BY SMTT(60), LenProperties DEF Types
<1>2. \A k \in 1 .. Packets + 1 : start[k] \in Nat BY SMTT(60) DEF Layout
<1>3. Len(got) + 1 \in 1 .. Packets + 1 BY SMTT(60), <1>1, SizesAssumption DEF FramesExact
<1> QED BY SMTT(60), <1>1, <1>2, <1>3 DEF FramesExact

\* A Read appends the next bytes of the stream at index at of buf.
LEMMA ReadAppends ==
  ASSUME Types, NEW at \in Nat, NEW k \in Nat, NEW fails, Read(at, k, fails)
  PROVE  /\ buf' \in [0 .. cap - 1 -> Nat] /\ rd' = rd + k /\ rd' \in Nat /\ rd' <= Total
         /\ at + k <= cap
         /\ \A i \in 0 .. cap - 1 : i < at => buf'[i] = buf[i]
         /\ \A i \in at .. at + k - 1 : buf'[i] = rd + 1 + (i - at)
BY SMTT(60) DEF Read, Types

\* A Read extends a window that ends where it writes.
LEMMA ReadExtends ==
  ASSUME Types, NEW at \in Nat, NEW k \in Nat, NEW fails, Read(at, k, fails),
         NEW p \in Nat, Window(0, at, p), rd = p + at
  PROVE  Window(0, at + k, p)'
<1>1. /\ at + k <= cap /\ \A i \in 0 .. cap - 1 : i < at => buf'[i] = buf[i]
      /\ \A i \in at .. at + k - 1 : buf'[i] = rd + 1 + (i - at)
  BY SMTT(60), ReadAppends
<1>2. ASSUME NEW i \in 0 .. at + k - 1 PROVE buf'[i] = p + 1 + i
  BY SMTT(60), <1>1, <1>2 DEF Window, Types
<1> QED BY SMTT(60), <1>2 DEF Window

\* A Read loop keeps the window and ends only with the bytes it waits for.
LEMMA ReadLoopStep ==
  ASSUME IInv, Fill \/ Refill \/ Body
  PROVE  IInv'
<1>k. PICK k \in 0 .. cap, fails \in BOOLEAN :
        /\ n' = n + k /\ UNCHANGED <<start, index, cap, need, cur, copied, content, got>>
        /\ \/ /\ pc = "Fill" /\ Read(n, k, fails)
              /\ pc' = IF n + k >= need THEN "Decode" ELSE IF fails THEN "Failed" ELSE "Fill"
           \/ /\ pc = "Refill" /\ Read(index + n, k, fails)
              /\ pc' = IF n + k >= need THEN "Refilled" ELSE IF fails THEN "Failed" ELSE "Refill"
           \/ /\ pc = "Body" /\ Read(n, k, fails)
              /\ pc' = IF n + k >= need THEN "Copy" ELSE IF fails THEN "Failed" ELSE "Body"
  BY SMTT(60) DEF Fill, Refill, Body, ReadLoop
<1>t. Types /\ Layout /\ Where /\ FramesExact BY SMTT(60) DEF IInv
<1>n. k \in Nat /\ n \in Nat /\ index \in Nat /\ n + k \in Nat /\ cap \in Nat BY SMTT(60), <1>k, <1>t DEF
      Types
<1>1. Layout' BY SMTT(60), <1>k, <1>t DEF Layout
<1>2. FramesExact' BY SMTT(60), <1>k, <1>t DEF FramesExact, Sent, ContentLength
<1>3. Aligned' BY SMTT(60), <1>k DEF Aligned
<1>4. Types'
  <2>1. \E at \in Nat : Read(at, k, fails) BY SMTT(60), <1>k, <1>n
  <2>2. buf' \in [0 .. cap - 1 -> Nat] /\ rd' \in Nat /\ rd' <= Total
    BY SMTT(60), <1>n, <1>t, <2>1, ReadAppends
  <2>3. pc' \in Labels BY SMTT(60), <1>k DEF Labels, Reading
  <2> QED BY ZenonT(60), <1>k, <1>n, <1>t, <2>2, <2>3 DEF Types, Total
<1>5. Where'
  <2>1. CASE pc = "Fill"
    <3>1. Read(n, k, fails) BY SMTT(60), <1>k, <2>1
    <3>2. n + k <= cap /\ rd' = rd + k BY SMTT(60), <1>n, <1>t, <3>1, ReadAppends
    <3>3. AtPacket(0, n) /\ index = 0 /\ need = HSize BY SMTT(60), <1>t, <2>1 DEF Where
    <3>4. start[Len(got) + 1] \in Nat BY SMTT(60), <1>t, NextStart
    <3>5. \A i \in 0 .. n + k - 1 : buf'[i] = start[Len(got) + 1] + 1 + (i - 0)
      <4> DEFINE p == start[Len(got) + 1]
      <4>1. p \in Nat /\ Window(0, n, p) /\ rd = p + (n) /\ n \in Nat
        BY SMTT(60), <1>n, <3>3, <3>4 DEF AtPacket
      <4> HIDE DEF p
      <4>2. \A i \in 0 .. n + k - 1 : buf'[i] = p + 1 + (i - 0)
        BY SMTT(60), <1>n, <1>t, <3>1, <4>1, ReadExtends DEF Window
      <4> QED BY SMTT(60), <4>2 DEF p
    <3>6. (AtPacket(0, n))' BY SMTT(60), <1>k, <1>n, <3>2, <3>3, <3>4, <3>5 DEF AtPacket, Window
    <3> QED BY SMTT(60), <1>k, <1>n, <2>1, <3>2, <3>3, <3>6, SizesAssumption DEF Where
  <2>2. CASE pc = "Refill"
    <3>1. Read(index + n, k, fails) BY SMTT(60), <1>k, <2>2
    <3>2. index + n + k <= cap /\ rd' = rd + k BY SMTT(60), <1>n, <1>t, <3>1, ReadAppends
    <3>3. AtPacket(0, index + n) /\ need + index = HSize BY SMTT(60), <1>t, <2>2 DEF Where
    <3>4. start[Len(got) + 1] \in Nat BY SMTT(60), <1>t, NextStart
    <3>5. \A i \in 0 .. index + n + k - 1 : buf'[i] = start[Len(got) + 1] + 1 + (i - 0)
      <4> DEFINE p == start[Len(got) + 1]
      <4>1. p \in Nat /\ Window(0, index + n, p) /\ rd = p + (index + n) /\ index + n \in Nat
        BY SMTT(60), <1>n, <3>3, <3>4 DEF AtPacket
      <4> HIDE DEF p
      <4>2. \A i \in 0 .. index + n + k - 1 : buf'[i] = p + 1 + (i - 0)
        BY SMTT(60), <1>n, <1>t, <3>1, <4>1, ReadExtends DEF Window
      <4> QED BY SMTT(60), <4>2 DEF p
    <3>6. (AtPacket(0, index + n))' BY SMTT(60), <1>k, <1>n, <3>2, <3>3, <3>4, <3>5 DEF AtPacket,
          Window
    <3> QED BY SMTT(60), <1>k, <1>n, <1>t, <2>2, <3>2, <3>3, <3>6, SizesAssumption DEF Where, Types
  <2>3. CASE pc = "Body"
    <3>1. Read(n, k, fails) BY SMTT(60), <1>k, <2>3
    <3>2. n + k <= cap /\ rd' = rd + k BY SMTT(60), <1>n, <1>t, <3>1, ReadAppends
    <3>3. /\ InPacket /\ AtContent(0, n) /\ need <= cap /\ need > 0
          /\ copied + need = ContentLength(cur)
      BY SMTT(60), <1>t, <2>3 DEF Where
    <3>4. start[cur] + HSize + copied \in Nat
      <4>1. start[cur] \in Nat /\ copied \in Nat
        BY SMTT(60), <1>t, <3>3, NextStart, SizesAssumption DEF InPacket, Types
      <4> QED BY SMTT(60), <4>1, SizesAssumption
    <3>5. \A i \in 0 .. n + k - 1 : buf'[i] = start[cur] + HSize + copied + 1 + (i - 0)
      <4> DEFINE p == start[cur] + HSize + copied
      <4>1. p \in Nat /\ Window(0, n, p) /\ rd = p + (n) /\ n \in Nat
        BY SMTT(60), <1>n, <3>3, <3>4 DEF AtContent
      <4> HIDE DEF p
      <4>2. \A i \in 0 .. n + k - 1 : buf'[i] = p + 1 + (i - 0)
        BY SMTT(60), <1>n, <1>t, <3>1, <4>1, ReadExtends DEF Window
      <4> QED BY SMTT(60), <4>2 DEF p
    <3>6. (AtContent(0, n))' BY SMTT(60), <1>k, <1>n, <3>2, <3>3, <3>4, <3>5 DEF AtContent, Window
    <3>7. InPacket' /\ ContentLength(cur)' = ContentLength(cur)
      BY SMTT(60), <1>k, <3>3 DEF InPacket, ContentLength
    <3>8. pc' \in {"Body", "Copy", "Failed"} /\ n' <= cap'
          /\ (pc' = "Body" => n' < need') /\ (pc' = "Copy" => n' >= need')
      <4>1. pc' = IF n + k >= need THEN "Copy" ELSE IF fails THEN "Failed" ELSE "Body"
        BY ZenonT(60), <1>k, <2>3
      <4>2. need \in Nat /\ n' = n + k /\ need' = need /\ cap' = cap BY ZenonT(60), <1>k, <1>t DEF Types
      <4> QED BY SMTT(60), <1>n, <3>2, <4>1, <4>2
    <3>9. need' <= cap' /\ need' > 0 /\ copied' + need' = ContentLength(cur)'
      BY ZenonT(60), <1>k, <3>3, <3>7
    <3> QED BY ZenonT(60), <3>6, <3>7, <3>8, <3>9 DEF Where
  <2> QED BY SMTT(60), <1>k, <2>1, <2>2, <2>3
<1> QED BY SMTT(60), <1>1, <1>2, <1>3, <1>4, <1>5 DEF IInv

\* The moved part of a header and the rest of it are in place.
LEMMA RefilledStep ==
  ASSUME IInv, Refilled
  PROVE  IInv'
<1>t. Types /\ Layout /\ Where /\ FramesExact BY SMTT(60) DEF IInv
<1>1. Layout' /\ FramesExact' BY SMTT(60), <1>t DEF Refilled, Layout, FramesExact, Sent,
      ContentLength
<1>2. Types' /\ Aligned' BY SMTT(60), <1>t DEF Refilled, Types, Aligned, Labels, Reading, Total
<1>3. AtPacket(0, index + n) /\ index + n >= HSize BY SMTT(60), <1>t DEF Refilled, Where
<1>4. Where'
  <2>1. /\ pc' = "Decode" /\ n' = n + index /\ index' = 0 /\ UNCHANGED <<start, buf, cap, rd, got>>
    BY ZenonT(60) DEF Refilled
  <2>2. n' = index + n /\ n' - index' >= HSize BY SMTT(60), <1>3, <1>t, <2>1, SizesAssumption DEF Types
  <2>3. (AtPacket(index, n))' BY ZenonT(60), <1>3, <2>1, <2>2 DEF AtPacket, Window
  <2> QED BY ZenonT(60), <2>1, <2>2, <2>3 DEF Where
<1> QED BY SMTT(60), <1>1, <1>2, <1>4 DEF IInv

\* The header found is the one of the next packet.
LEMMA DecodeStep ==
  ASSUME IInv, Decode
  PROVE  IInv'
<1> DEFINE g == Len(got) + 1
<1>t. Types /\ Layout /\ Where /\ FramesExact BY SMTT(60) DEF IInv
<1>a. AtPacket(index, n) /\ n - index >= HSize /\ index \in Nat /\ n \in Nat /\ rd \in Nat /\ cap \in Nat
  BY SMTT(60), <1>t DEF Decode, Where, Types
<1>b. /\ g \in 1 .. Packets + 1 /\ \A k \in 1 .. Packets + 1 : start[k] \in Nat
      /\ HSize \in Nat /\ HSize > 0 /\ Packets \in Nat
  BY SMTT(60), <1>t, NextStart, SizesAssumption
<1>c. g \in 1 .. Packets
  <2>1. rd = start[g] + (n - index) BY SMTT(60), <1>a DEF AtPacket
  <2>2. rd <= start[Packets + 1] BY SMTT(60), <1>t DEF Types, Total
  <2> HIDE DEF g
  <2>3. start[g] \in Nat BY SMTT(60), <1>b
  <2>4. g # Packets + 1 BY SMTT(60), <1>a, <1>b, <2>1, <2>2, <2>3
  <2> QED BY SMTT(60), <1>b, <2>4
<1>d. \A i \in 0 .. HSize - 1 : buf[index + i] = start[g] + 1 + i
  <2>1. \A j \in index .. n - 1 : buf[j] = start[g] + 1 + (j - index)
    BY SMTT(60), <1>a DEF AtPacket, Window
  <2> HIDE DEF g
  <2>2. ASSUME NEW i \in 0 .. HSize - 1 PROVE buf[index + i] = start[g] + 1 + i
    <3>1. index + i \in index .. n - 1 /\ (index + i) - index = i /\ i \in Int
      BY SMTT(60), <1>a, <1>b, <2>2
    <3> QED BY SMTT(60), <2>1, <3>1
  <2> QED BY SMTT(60), <2>2
<1>e. HeaderOf(g) BY SMTT(60), <1>d DEF HeaderOf
<1>f. \A k \in 1 .. Packets : HeaderOf(k) => k = g
  <2> SUFFICES ASSUME NEW k \in 1 .. Packets, HeaderOf(k), k # g PROVE FALSE
    BY SMTT(60)
  <2> HIDE DEF g
  <2>1. 0 \in 0 .. HSize - 1 BY SMTT(60), <1>b
  <2>2. start[k] + 1 + 0 = start[g] + 1 + 0 BY SMTT(60), <1>d, <2>1 DEF HeaderOf
  <2>3. start[k] = start[g] BY SMTT(60), <1>b, <1>c, <2>2
  <2>4. k < g \/ g < k BY SMTT(60), <1>c
  <2> QED BY SMTT(60), <1>b, <1>c, <1>t, <2>3, <2>4 DEF Layout
<1>g. /\ cur' = g /\ index' = index + HSize /\ copied' = 0 /\ content' = Empty /\ pc' = "Content"
      /\ UNCHANGED <<start, buf, n, cap, need, rd, got>>
  BY SMTT(60), <1>c, <1>e, <1>f DEF Decode
<1>1. Layout' /\ FramesExact' BY SMTT(60), <1>g, <1>t DEF Layout, FramesExact, Sent, ContentLength
<1>2. content' \in [0 .. copied' - 1 -> Nat] BY SMTT(60), <1>g DEF Empty
<1>3. Types' /\ Aligned' BY SMTT(60), <1>b, <1>g, <1>t, <1>2 DEF Types, Aligned, Labels, Reading,
      Total
<1>4. InPacket' BY SMTT(60), <1>c, <1>g DEF InPacket
<1>5. (AtContent(index, n))'
  <2>1. \A j \in index .. n - 1 : buf[j] = start[g] + 1 + (j - index)
    BY SMTT(60), <1>a DEF AtPacket, Window
  <2>2. rd = start[g] + (n - index) /\ n <= cap BY SMTT(60), <1>a DEF AtPacket
  <2> HIDE DEF g
  <2>3. start[g] \in Nat BY SMTT(60), <1>b, <1>c
  <2>4. \A j \in index + HSize .. n - 1 : buf[j] = start[g] + HSize + 0 + 1 + (j - (index + HSize))
    BY SMTT(60), <1>a, <1>b, <2>1, <2>3
  <2> QED BY SMTT(60), <1>a, <1>b, <1>g, <2>2, <2>3, <2>4 DEF AtContent, Window
<1> QED BY SMTT(60), <1>1, <1>3, <1>4, <1>5, <1>g DEF IInv, Where

\* A content is never shorter than nothing.
LEMMA LengthNat ==
  ASSUME Layout, NEW k \in 1 .. Packets
  PROVE  ContentLength(k) \in Nat /\ start[k] \in Nat /\ start[k + 1] \in Nat
<1>1. k \in 1 .. Packets + 1 /\ k + 1 \in 1 .. Packets + 1 /\ k < k + 1 BY SMTT(60), SizesAssumption
<1> QED BY SMTT(60), <1>1, SizesAssumption DEF Layout, ContentLength

\* What Write appends to a beginning of the content is a longer beginning.
LEMMA WrittenExtends ==
  ASSUME IInv, InPacket, NEW from \in Nat, NEW upto \in Nat, from <= upto, upto <= cap,
         Window(from, upto, start[cur] + HSize + copied)
  PROVE  /\ Written(from, upto) \in [0 .. copied + (upto - from) - 1 -> Nat]
         /\ \A i \in 0 .. copied + (upto - from) - 1 :
              Written(from, upto)[i] = start[cur] + HSize + 1 + i
<1>1. start[cur] \in Nat /\ copied \in Nat /\ HSize \in Nat
  BY SMTT(60), LengthNat, SizesAssumption DEF IInv, Types, InPacket
<1>2. ASSUME NEW i \in 0 .. copied + (upto - from) - 1
      PROVE  Written(from, upto)[i] = start[cur] + HSize + 1 + i
  <2>1. CASE i < copied
    BY SMTT(60), <1>1, <1>2, <2>1 DEF Written, InPacket
  <2>2. CASE ~(i < copied)
    <3>1. from + (i - copied) \in from .. upto - 1 BY SMTT(60), <1>1, <1>2, <2>2
    <3>2. buf[from + (i - copied)] = start[cur] + HSize + copied + 1 + ((from + (i - copied)) - from)
      BY SMTT(60), <3>1 DEF Window
    <3> QED BY SMTT(60), <1>1, <1>2, <2>2, <3>2 DEF Written
  <2> QED BY SMTT(60), <2>1, <2>2
<1>3. \A i \in 0 .. copied + (upto - from) - 1 : start[cur] + HSize + 1 + i \in Nat BY SMTT(60), <1>1
<1> QED BY SMTT(60), <1>2, <1>3 DEF Written

\* The packet delivered is the next one sent.
LEMMA DeliverExact ==
  ASSUME IInv, InPacket, NEW c, Deliver(c), c \in [0 .. ContentLength(cur) - 1 -> Nat],
         \A i \in 0 .. ContentLength(cur) - 1 : c[i] = start[cur] + HSize + 1 + i,
         UNCHANGED start
  PROVE  FramesExact' /\ got' \in Seq(Contents) /\ Len(got') = Len(got) + 1
<1>1. got \in Seq(Contents) /\ Len(got) \in Nat /\ cur \in 1 .. Packets /\ cur = Len(got) + 1
  BY SMTT(60), LenProperties DEF IInv, Types, InPacket
<1>2. ContentLength(cur) \in Nat BY SMTT(60), <1>1, LengthNat DEF IInv
<1>3. c \in Contents BY SMTT(60), <1>2 DEF Contents
<1>4. c = Sent(cur) BY SMTT(60) DEF Sent
<1>5. /\ got' \in Seq(Contents) /\ Len(got') = Len(got) + 1
      /\ \A k \in 1 .. Len(got) : got'[k] = got[k]
      /\ got'[Len(got) + 1] = c
  BY SMTT(60), <1>1, <1>3, AppendProperties DEF Deliver
<1>6. \A k \in 1 .. Len(got) : got[k] = Sent(k) BY SMTT(60) DEF IInv, FramesExact
<1>7. \A k : Sent(k)' = Sent(k) BY SMTT(60) DEF Sent, ContentLength
<1>8. ASSUME NEW k \in 1 .. Len(got') PROVE got'[k] = Sent(k)'
  <2>1. k \in 1 .. Len(got) \/ k = cur BY SMTT(60), <1>1, <1>5, <1>8
  <2> QED BY SMTT(60), <1>1, <1>4, <1>5, <1>6, <1>7, <2>1
<1>9. Len(got') <= Packets BY SMTT(60), <1>1, <1>5
<1> QED BY SMTT(60), <1>5, <1>8, <1>9 DEF FramesExact

\* The beginning of a content moves to p.Content.
LEMMA ContentPartStep ==
  ASSUME IInv, ContentPart
  PROVE  IInv'
<1>t. Types /\ Layout /\ Where /\ FramesExact BY SMTT(60) DEF IInv
<1>a. /\ InPacket /\ copied = 0 /\ AtContent(index, n) /\ index \in Nat /\ n \in Nat
      /\ cap \in Nat /\ HSize \in Nat /\ Slack \in Nat
  BY ZenonT(60), <1>t, SizesAssumption DEF ContentPart, Where, Types
<1>b. /\ ContentLength(cur) \in Nat /\ start[cur] \in Nat /\ n - index < ContentLength(cur)
      /\ index <= n /\ n <= cap
  BY SMTT(60), <1>a, <1>t, LengthNat DEF InPacket, ContentPart, AtContent
<1>c. /\ Written(index, n) \in [0 .. copied + (n - index) - 1 -> Nat]
      /\ \A i \in 0 .. copied + (n - index) - 1 : Written(index, n)[i] = start[cur] + HSize + 1 + i
  BY SMTT(60), <1>a, <1>b, WrittenExtends DEF AtContent
<1>d. /\ content' = Written(index, n) /\ copied' = copied + (n - index)
      /\ need' = ContentLength(cur) - (n - index) /\ n' = 0 /\ pc' = "Body"
      /\ UNCHANGED <<start, index, rd, cur, got>>
  BY SMTT(60) DEF ContentPart
<1>e. cap' \in Nat /\ cap' >= HSize /\ buf' \in [0 .. cap' - 1 -> Nat] /\ need' <= cap'
  <2>1. CASE cap >= need' /\ UNCHANGED <<cap, buf>> BY SMTT(60), <1>t, <2>1 DEF Types
  <2>2. CASE /\ cap < need' /\ cap' \in need' .. need' + Slack
             /\ buf' = [i \in 0 .. cap' - 1 |-> IF i < cap THEN buf[i] ELSE 0]
    <3>1. need' \in Nat BY SMTT(60), <1>a, <1>b, <1>d
    <3>2. cap' \in Nat /\ cap' >= need' /\ cap' > cap BY SMTT(60), <1>a, <2>2, <3>1
    <3>3. ASSUME NEW i \in 0 .. cap' - 1 PROVE (IF i < cap THEN buf[i] ELSE 0) \in Nat
      BY SMTT(60), <1>a, <1>t, <3>2, <3>3 DEF Types
    <3>4. buf' \in [0 .. cap' - 1 -> Nat] BY ZenonT(60), <2>2, <3>3
    <3>5. cap >= HSize BY SMTT(60), <1>t DEF Types
    <3>6. cap' >= HSize /\ need' <= cap' BY SMTT(60), <1>a, <3>1, <3>2, <3>5
    <3> QED BY ZenonT(60), <3>2, <3>4, <3>6
  <2> QED BY SMTT(60), <2>1, <2>2 DEF ContentPart
<1>1. Layout' /\ FramesExact' BY SMTT(60), <1>d, <1>t DEF Layout, FramesExact, Sent, ContentLength
<1>2. Types' /\ Aligned'
  <2>1. need' \in Nat /\ copied' \in Nat /\ content' \in [0 .. copied' - 1 -> Nat]
    BY SMTT(60), <1>a, <1>b, <1>c, <1>d
  <2> QED BY ZenonT(60), <1>d, <1>e, <1>t, <2>1 DEF Types, Aligned, Labels, Reading, Total
<1>3. InPacket' BY SMTT(60), <1>a, <1>c, <1>d DEF InPacket
<1>4. (AtContent(0, n))'
  <2>1. rd = start[cur] + HSize + copied + (n - index) BY ZenonT(60), <1>a DEF AtContent
  <2>2. rd' = start'[cur'] + HSize + copied' + (n' - 0) BY SMTT(60), <1>a, <1>b, <1>d, <2>1
  <2>3. 0 <= n' /\ n' <= cap' BY SMTT(60), <1>d, <1>e
  <2>4. \A i \in 0 .. n' - 1 : FALSE BY SMTT(60), <1>d
  <2> QED BY ZenonT(60), <2>2, <2>3, <2>4 DEF AtContent, Window
<1>5. ContentLength(cur)' = ContentLength(cur) BY SMTT(60), <1>d DEF ContentLength
<1>6. /\ pc' = "Body" /\ need' <= cap' /\ need' > 0 /\ copied' + need' = ContentLength(cur)'
      /\ n' < need'
  BY SMTT(60), <1>5, <1>a, <1>b, <1>d, <1>e
<1>7. Where' BY ZenonT(60), <1>3, <1>4, <1>6 DEF Where
<1> QED BY ZenonT(60), <1>1, <1>2, <1>7 DEF IInv

\* The packet at index is complete in buf.
LEMMA ContentWholeStep ==
  ASSUME IInv, ContentWhole
  PROVE  IInv'
<1> DEFINE l == ContentLength(cur)
<1>t. Types /\ Layout /\ Where /\ FramesExact BY SMTT(60) DEF IInv
<1>a. /\ InPacket /\ copied = 0 /\ AtContent(index, n) /\ index \in Nat /\ n \in Nat
      /\ cap \in Nat /\ HSize \in Nat
  BY SMTT(60), <1>t, SizesAssumption DEF ContentWhole, Where, Types
<1>b. /\ l \in Nat /\ start[cur] \in Nat /\ start[cur + 1] = start[cur] + HSize + l
      /\ n - index >= l /\ n <= cap
  <2>1. /\ ContentLength(cur) \in Nat /\ start[cur] \in Nat /\ start[cur + 1] \in Nat
    BY SMTT(60), <1>a, <1>t, LengthNat DEF InPacket
  <2>2. start[cur + 1] = start[cur] + HSize + l BY SMTT(60), <1>a, <2>1 DEF ContentLength
  <2> QED BY SMTT(60), <1>a, <2>1, <2>2 DEF ContentWhole, AtContent
<1>c. Window(index, index + l, start[cur] + HSize + copied)
  BY SMTT(60), <1>a, <1>b DEF AtContent, Window
<1>d. /\ Deliver(Written(index, index + l)) /\ index' = index + l
      /\ UNCHANGED <<start, buf, n, cap, need, rd, cur>>
  BY SMTT(60) DEF ContentWhole
<1> HIDE DEF l
<1>e. /\ Written(index, index + l) \in [0 .. l - 1 -> Nat]
      /\ \A i \in 0 .. l - 1 : Written(index, index + l)[i] = start[cur] + HSize + 1 + i
  <2>1. index + l \in Nat /\ index <= index + l /\ index + l <= cap /\ copied + ((index + l) - index) - 1 = l - 1
    BY SMTT(60), <1>a, <1>b
  <2> QED BY SMTT(60), <1>a, <1>c, <2>1, WrittenExtends
<1>1. FramesExact' /\ got' \in Seq(Contents) /\ Len(got') = Len(got) + 1
  BY SMTT(60), <1>a, <1>d, <1>e, DeliverExact DEF l
<1>2. Layout' BY SMTT(60), <1>d, <1>t DEF Layout
<1>3. copied' = 0 /\ content' \in [0 .. copied' - 1 -> Nat] /\ pc' = "Next"
  BY SMTT(60), <1>d DEF Deliver, Empty
<1>4. Types' /\ Aligned'
  BY SMTT(60), <1>1, <1>3, <1>b, <1>d, <1>t DEF Types, Aligned, Labels, Reading, Total
<1>5. start'[Len(got') + 1] = start[cur] + HSize + l
  BY SMTT(60), <1>1, <1>a, <1>b, <1>d DEF InPacket
<1>6. \A j \in index + l .. n - 1 : buf[j] = start[cur] + HSize + l + 1 + (j - (index + l))
  BY SMTT(60), <1>a, <1>b DEF AtContent, Window
<1>7. rd = start[cur] + HSize + l + (n - (index + l)) BY SMTT(60), <1>a, <1>b DEF AtContent
<1>8. (AtPacket(index, n))'
  BY SMTT(60), <1>5, <1>6, <1>7, <1>a, <1>b, <1>d DEF AtPacket, Window
<1> QED BY SMTT(60), <1>1, <1>2, <1>3, <1>4, <1>8 DEF IInv, Where

\* The rest of the content was at the front of buf.
LEMMA CopyStep ==
  ASSUME IInv, Copy
  PROVE  IInv'
<1>t. Types /\ Layout /\ Where /\ FramesExact BY SMTT(60) DEF IInv
<1>a. /\ InPacket /\ AtContent(0, n) /\ need <= cap /\ need > 0 /\ n >= need
      /\ copied + need = ContentLength(cur)
      /\ need \in Nat /\ n \in Nat /\ copied \in Nat /\ cap \in Nat /\ HSize \in Nat
  BY SMTT(60), <1>t, SizesAssumption DEF Copy, Where, Types
<1>b. /\ start[cur] \in Nat /\ start[cur + 1] = start[cur] + HSize + copied + need /\ n <= cap
  <2>1. start[cur] \in Nat /\ start[cur + 1] \in Nat BY SMTT(60), <1>a, <1>t, LengthNat DEF InPacket
  <2>2. start[cur + 1] = start[cur] + HSize + copied + need BY SMTT(60), <1>a, <2>1 DEF ContentLength
  <2> QED BY SMTT(60), <1>a, <2>1, <2>2 DEF AtContent
<1>c. Window(0, need, start[cur] + HSize + copied) BY SMTT(60), <1>a DEF AtContent, Window
<1>d. Deliver(Written(0, need)) /\ index' = need /\ UNCHANGED <<start, buf, n, cap, need, rd, cur>>
  BY SMTT(60) DEF Copy
<1>e. /\ Written(0, need) \in [0 .. ContentLength(cur) - 1 -> Nat]
      /\ \A i \in 0 .. ContentLength(cur) - 1 : Written(0, need)[i] = start[cur] + HSize + 1 + i
  <2>1. copied + (need - 0) - 1 = ContentLength(cur) - 1 BY SMTT(60), <1>a
  <2> QED BY SMTT(60), <1>a, <1>c, <2>1, WrittenExtends
<1>1. FramesExact' /\ got' \in Seq(Contents) /\ Len(got') = Len(got) + 1
  BY SMTT(60), <1>a, <1>d, <1>e, DeliverExact
<1>2. Layout' BY SMTT(60), <1>d, <1>t DEF Layout
<1>3. copied' = 0 /\ content' \in [0 .. copied' - 1 -> Nat] /\ pc' = "Next"
  BY SMTT(60), <1>d DEF Deliver, Empty
<1>4. Types' /\ Aligned'
  BY SMTT(60), <1>1, <1>3, <1>a, <1>d, <1>t DEF Types, Aligned, Labels, Reading, Total
<1>5. start'[Len(got') + 1] = start[cur] + HSize + copied + need
  BY SMTT(60), <1>1, <1>a, <1>b, <1>d DEF InPacket
<1>6. \A j \in need .. n - 1 : buf[j] = start[cur] + HSize + copied + need + 1 + (j - need)
  BY SMTT(60), <1>a, <1>b DEF AtContent, Window
<1>7. rd = start[cur] + HSize + copied + need + (n - need) BY SMTT(60), <1>a, <1>b DEF AtContent
<1>8. (AtPacket(index, n))'
  BY SMTT(60), <1>5, <1>6, <1>7, <1>a, <1>b, <1>d DEF AtPacket, Window
<1> QED BY SMTT(60), <1>1, <1>2, <1>3, <1>4, <1>8 DEF IInv, Where

\* A partial header moves to the front.
LEMMA AdvanceStep ==
  ASSUME IInv, Advance
  PROVE  IInv'
<1> DEFINE s == start[Len(got) + 1]
<1>t. Types /\ Layout /\ Where /\ FramesExact BY SMTT(60) DEF IInv
<1>a. /\ AtPacket(index, n) /\ index \in Nat /\ n \in Nat /\ cap \in Nat /\ HSize \in Nat
      /\ HSize > 0 /\ pc = "Next" /\ index <= n /\ n <= cap /\ cap >= HSize
  <2>1. AtPacket(index, n) /\ pc = "Next" BY ZenonT(60), <1>t DEF Advance, Where
  <2>2. index \in Nat /\ n \in Nat /\ cap \in Nat /\ cap >= HSize BY ZenonT(60), <1>t DEF Types
  <2>3. index <= n /\ n <= cap BY ZenonT(60), <2>1 DEF AtPacket
  <2>4. HSize \in Nat /\ HSize > 0 BY SMTT(60), SizesAssumption
  <2> QED BY ZenonT(60), <2>1, <2>2, <2>3, <2>4
<1>b. s \in Nat /\ rd = s + (n - index) /\ \A i \in index .. n - 1 : buf[i] = s + 1 + (i - index)
  BY SMTT(60), <1>a, <1>t, NextStart DEF AtPacket, Window
<1>c. UNCHANGED <<start, cap, rd, cur, copied, content, got>> /\ s' = s BY SMTT(60) DEF Advance
<1>1. Layout' /\ FramesExact' BY ZenonT(60), <1>c, <1>t DEF Layout, FramesExact, Sent, ContentLength
<1>2. CASE n = index /\ index' = 0 /\ n' = 0 /\ need' = HSize /\ pc' = "Fill" /\ UNCHANGED buf
  <2>1. Types' /\ Aligned' BY SMTT(60), <1>a, <1>c, <1>t, <1>2 DEF Types, Aligned, Labels,
        Reading, Total
  <2>2. (AtPacket(0, n))' BY SMTT(60), <1>a, <1>b, <1>c, <1>2 DEF AtPacket, Window
  <2> QED BY SMTT(60), <1>1, <1>2, <1>a, <2>1, <2>2 DEF IInv, Where
<1>3. CASE /\ n # index /\ ~Again
           /\ buf' = [i \in 0 .. cap - 1 |-> IF i < n - index THEN buf[index + i] ELSE buf[i]]
           /\ index' = n - index /\ need' = HSize - (n - index) /\ n' = 0 /\ pc' = "Refill"
  <2>1. index' \in Nat /\ need' \in Nat /\ index' + n' <= cap /\ need' > 0
    BY SMTT(60), <1>3, <1>a DEF Again
  <2>2. ASSUME NEW i \in 0 .. cap - 1
        PROVE  (IF i < n - index THEN buf[index + i] ELSE buf[i]) \in Nat
    BY SMTT(60), <1>a, <1>t, <2>2 DEF Types
  <2>3. Types' /\ Aligned'
    BY ZenonT(60), <1>3, <1>c, <1>t, <2>1, <2>2 DEF Types, Aligned, Labels, Reading, Total
  <2>4. ASSUME NEW i \in 0 .. n - index - 1 PROVE buf'[i] = s + 1 + (i - 0)
    <3>1. i \in 0 .. cap - 1 /\ i < n - index /\ index + i \in index .. n - 1 BY SMTT(60), <1>a, <2>4
    <3>2. buf'[i] = buf[index + i] BY SMTT(60), <1>3, <3>1
    <3>3. buf[index + i] = s + 1 + ((index + i) - index) BY SMTT(60), <1>b, <3>1
    <3> HIDE DEF s
    <3> QED BY SMTT(60), <1>a, <1>b, <2>4, <3>2, <3>3
  <2>5. (AtPacket(0, index + n))'
    <3>1. index' + n' = n - index /\ 0 <= n - index /\ n - index <= cap BY SMTT(60), <1>3, <1>a
    <3>2. rd' = s + ((index' + n') - 0)
      <4> HIDE DEF s
      <4> QED BY SMTT(60), <1>3, <1>a, <1>b, <1>c
    <3>3. \A i \in 0 .. (index' + n') - 1 : buf'[i] = s + 1 + (i - 0)
      <4> HIDE DEF s
      <4> QED BY ZenonT(60), <2>4, <3>1
    <3>4. cap' = cap /\ start'[Len(got') + 1] = s BY ZenonT(60), <1>c
    <3> HIDE DEF s
    <3> QED BY ZenonT(60), <3>1, <3>2, <3>3, <3>4 DEF AtPacket, Window
  <2>6. pc' = "Refill" /\ need' + index' = HSize /\ n' < need' BY SMTT(60), <1>3, <1>a, <2>1
  <2>7. Where' BY ZenonT(60), <2>5, <2>6 DEF Where
  <2> QED BY ZenonT(60), <1>1, <2>3, <2>7 DEF IInv
<1>4. CASE n # index /\ Again /\ pc' = "Decode" /\ UNCHANGED <<buf, index, n, need>>
  <2>1. Types' /\ Aligned' BY SMTT(60), <1>c, <1>t, <1>4 DEF Types, Aligned, Labels, Reading, Total
  <2>2. (AtPacket(index, n))' BY SMTT(60), <1>a, <1>c, <1>4 DEF AtPacket, Window
  <2>3. n' - index' >= HSize BY SMTT(60), <1>4 DEF Again
  <2>4. Where' BY ZenonT(60), <1>4, <2>2, <2>3 DEF Where
  <2> QED BY ZenonT(60), <1>1, <2>1, <2>4 DEF IInv
<1> QED BY SMTT(60), <1>2, <1>3, <1>4 DEF Advance

\* What each label of readLoop may rely on holds in every reachable state.
THEOREM FramesInvariance == Spec => []IInv
<1>1. ASSUME IInv, UNCHANGED vars PROVE IInv'
  BY ZenonT(60), <1>1 DEF IInv, vars, Layout, Types, FramesExact, Aligned, Where, Sent, ContentLength,
     AtPacket, AtContent, InPacket, Window, Total
<1>2. IInv /\ [Next]_vars => IInv'
  BY SMTT(60), <1>1, ReadLoopStep, RefilledStep, DecodeStep, ContentPartStep, ContentWholeStep, CopyStep,
     AdvanceStep DEF Next
<1> QED BY FramesInit, <1>2, PTL DEF Spec

\* readLoop decodes exactly the packets sent, whatever the sizes and the reads
\* (async.go:519-604).
THEOREM FramesAreExact == Spec => []FramesExact
<1>1. IInv => FramesExact BY SMTT(60) DEF IInv
<1> QED BY <1>1, FramesInvariance, PTL

\* readLoop never misses a packet boundary (async.go:528).
THEOREM StaysAligned == Spec => []Aligned
<1>1. IInv => Aligned BY SMTT(60) DEF IInv
<1> QED BY <1>1, FramesInvariance, PTL

\* readLoop never slices beyond the bytes read, nor waits for more than buf can hold
\* (async.go:522, 588, 599, 677, 697).
THEOREM SlicesStayInRange == Spec => []SlicesInRange
<1>1. IInv => SlicesInRange
  <2> SUFFICES ASSUME IInv PROVE SlicesInRange
    BY SMTT(60)
  <2>1. /\ pc \in Labels /\ pc # "Bad" /\ HSize \in Nat /\ HSize <= cap
        /\ cap \in Nat /\ index \in Nat /\ n \in Nat /\ need \in Nat
    BY SMTT(60), SizesAssumption DEF IInv, Types, Aligned
  <2>2. Where BY SMTT(60) DEF IInv
  <2>3. n <= cap
    BY SMTT(60), <2>1, <2>2 DEF Where, AtPacket, AtContent, Labels, Reading
  <2>4. pc = "Decode" => index + HSize <= n BY SMTT(60), <2>1, <2>2 DEF Where
  <2>5. pc \in {"Content", "Next"} => index <= n BY SMTT(60), <2>2 DEF Where, AtPacket, AtContent
  <2>6. pc \in {"Fill", "Body", "Copy"} => need <= cap BY SMTT(60), <2>1, <2>2 DEF Where
  <2>7. pc = "Refill" => index + need <= cap /\ n < need BY SMTT(60), <2>1, <2>2 DEF Where
  <2>8. pc = "Copy" => need <= n BY SMTT(60), <2>1, <2>2 DEF Where
  <2> QED BY SMTT(60), <2>3, <2>4, <2>5, <2>6, <2>7, <2>8 DEF SlicesInRange
<1> QED BY <1>1, FramesInvariance, PTL

\* readLoop never waits in Read while a complete packet is in buf (async.go:520, 648, 676).
THEOREM NeverHoldsBack == Spec => []Prompt
<1>1. ASSUME IInv, pc \in Reading, Len(got) < Packets PROVE rd < start[Len(got) + 2]
  <2> DEFINE g == Len(got) + 1
  <2>t. Types /\ Layout /\ Where /\ FramesExact BY SMTT(60), <1>1 DEF IInv
  <2>n. /\ n \in Nat /\ need \in Nat /\ copied \in Nat /\ index \in Nat /\ rd \in Nat
        /\ HSize \in Nat
    BY SMTT(60), <2>t, SizesAssumption DEF Types
  <2>1. g \in 1 .. Packets /\ Len(got) + 2 = g + 1 BY SMTT(60), <1>1, <2>t, NextStart,
        SizesAssumption
  <2>2. ContentLength(g) \in Nat /\ start[g] \in Nat /\ start[g + 1] = start[g] + HSize + ContentLength(g)
    <3> HIDE DEF g
    <3>1. ContentLength(g) \in Nat /\ start[g] \in Nat /\ start[g + 1] \in Nat BY SMTT(60), <2>1,
          <2>t, LengthNat
    <3> QED BY SMTT(60), <3>1, SizesAssumption DEF ContentLength
  <2> HIDE DEF g
  <2>s. SUFFICES rd < start[g] + HSize + ContentLength(g) BY ZenonT(60), <2>1, <2>2
  <2>3. CASE pc = "Fill"
    <3>1. AtPacket(0, n) /\ n < HSize BY ZenonT(60), <2>3, <2>t DEF Where
    <3>2. rd = start[g] + (n - 0) BY ZenonT(60), <3>1 DEF AtPacket, g
    <3> QED BY SMTT(60), <2>2, <2>n, <3>1, <3>2
  <2>4. CASE pc = "Refill"
    <3>1. AtPacket(0, index + n) /\ need + index = HSize /\ n < need
      BY ZenonT(60), <2>4, <2>t DEF Where
    <3>2. rd = start[g] + ((index + n) - 0) BY ZenonT(60), <3>1 DEF AtPacket, g
    <3> QED BY SMTT(60), <2>2, <2>n, <3>1, <3>2
  <2>5. CASE pc = "Body"
    <3>1. /\ rd = start[g] + HSize + copied + (n - 0) /\ n < need
          /\ copied + need = ContentLength(g)
      BY ZenonT(60), <2>5, <2>t DEF Where, AtContent, InPacket, g
    <3> QED BY SMTT(60), <2>2, <2>n, <3>1
  <2> QED BY ZenonT(60), <1>1, <2>3, <2>4, <2>5 DEF Reading
<1>2. IInv => Prompt BY SMTT(60), <1>1 DEF Prompt
<1> QED BY <1>2, FramesInvariance, PTL

=============================================================================
